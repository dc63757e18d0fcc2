---------------------------- MODULE ImportLedger ----------------------------
(***************************************************************************)
(* What the import side of the indexer promises its readers, with no       *)
(* process, lock or database transaction in sight: blocks are accounted    *)
(* one at a time, in order, each exactly once, and a block's header, its   *)
(* account changes and its transactions become readable in the same step.  *)
(* Pruning takes readable transactions away, oldest first.                 *)
(***************************************************************************)
EXTENDS Integers, Sequences

CONSTANTS NonEmpty,        \* the rounds whose block holds at least one transaction
          LegacyRounds     \* next rounds an adopted database may start from

NotInitialized == -1   \* no genesis loaded yet

VARIABLES next,      \* the next round to account, or NotInitialized
          accounted, \* the blocks whose account changes are applied, in order
          readable   \* the unpruned rounds whose transactions a query returns

vars == <<next, accounted, readable>>

(* The blocks 0 .. n-1 in order. *)
Prefix(n) == [i \in 1 .. n |-> i - 1]

(* The rounds below n that carry transactions; block 0 never does. *)
TxnRounds(n) == {r \in NonEmpty : 1 <= r /\ r < n}

(* A fresh database, or one adopted from an earlier release. *)
Init ==
    \/ next = NotInitialized /\ accounted = <<>> /\ readable = {}
    \/ \E n \in LegacyRounds :
          next = n /\ accounted = Prefix(n) /\ readable = TxnRounds(n)

LoadGenesis ==
    /\ next = NotInitialized
    /\ next' = 0
    /\ UNCHANGED <<accounted, readable>>

AccountBlock ==
    /\ next # NotInitialized
    /\ next' = next + 1
    /\ accounted' = Append(accounted, next)
    /\ readable' = readable \cup ({next} \cap TxnRounds(next + 1))

(* The oldest rounds go first. *)
Prune ==
    /\ readable' \subseteq readable
    /\ \A r \in readable \ readable', s \in readable' : r < s
    /\ UNCHANGED <<next, accounted>>

Next == LoadGenesis \/ AccountBlock \/ Prune

Spec == Init /\ [][Next]_vars
=============================================================================
