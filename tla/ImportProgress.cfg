SPECIFICATION FairSpec
CONSTANTS
    c1 = c1
    c2 = c2
    p1 = p1
    p2 = p2
    mainnet = mainnet
    testnet = testnet
    a1 = a1
    a2 = a2
    Callers = {c1, c2}
    Procs = {p1}
    Proc <- OneProcess
    Nets = {mainnet, testnet}
    Genesis <- SameNetwork
    Addrs = {a1, a2}
    Allocation <- DisjointAllocations
    MaxRound = 1
    NonEmpty = {1}
    LegacyRounds = {1}
    MaxConn = 2
    MaxFaults = 1
    NoNetwork = NoNetwork
    None = None
INVARIANTS
    PrunedStaysGone
PROPERTIES
    CallsReturn
