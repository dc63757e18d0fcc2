---------------------------- MODULE MCBlockImport ----------------------------
(***************************************************************************)
(* BlockImport for TLC: two callers in one process or in two, one or two   *)
(* networks, a new database or one without a network row.                  *)
(***************************************************************************)
EXTENDS BlockImport, TLC

CONSTANTS c1, c2, p1, p2, mainnet, testnet, a1, a2

OneProcess   == c1 :> p1 @@ c2 :> p1
TwoProcesses == c1 :> p1 @@ c2 :> p2

SameNetwork == [p \in Procs |-> mainnet]
TwoNetworks == p1 :> mainnet @@ p2 :> testnet

DisjointAllocations == mainnet :> {a1} @@ testnet :> {a2}
=============================================================================
