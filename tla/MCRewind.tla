------------------------------- MODULE MCRewind -------------------------------
(***************************************************************************)
(* Instances of Rewind for TLC.                                            *)
(***************************************************************************)
EXTENDS Rewind, TLC

(* A key registration costs a fee like an application call, which it is    *)
(* left out for.                                                           *)
AllKinds  == {"pay", "close", "appl", "acfg", "destroy", "axfer", "aclose", "clawback"}
JustClose == {"close"}

SwapUsers == Permutations(Users)
=============================================================================
