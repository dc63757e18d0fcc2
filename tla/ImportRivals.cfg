SPECIFICATION Spec
CONSTANTS
    c1 = c1
    c2 = c2
    p1 = p1
    p2 = p2
    mainnet = mainnet
    testnet = testnet
    a1 = a1
    a2 = a2
    Callers = {c1, c2}
    Procs = {p1, p2}
    Proc <- TwoProcesses
    Nets = {mainnet, testnet}
    Genesis <- TwoNetworks
    Addrs = {a1, a2}
    Allocation <- DisjointAllocations
    MaxRound = 2
    NonEmpty = {1, 2}
    LegacyRounds = {}
    MaxConn = 2
    MaxFaults = 1
    NoNetwork = NoNetwork
    None = None
INVARIANTS
    AccountedExactlyOnce
    TxnsNeverBehind
    TxnsAheadByOne
    AcknowledgedOnce
    EnsuredNetwork
PROPERTIES
    LedgerSpec
