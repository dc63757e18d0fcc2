------------------------------- MODULE TxnTable -------------------------------
(***************************************************************************)
(* How the writer lays a block's transactions out in the tables txn and    *)
(* txn_participation. A transaction is a tree: itself and the inner        *)
(* transactions it issued. Both tables number the transactions of a round  *)
(* in preorder, each by a traversal of its own.                            *)
(*                                                                         *)
(* Of a transaction's contents only one bit is kept: `hit', whether the    *)
(* transaction itself matches the search that is being looked at (names    *)
(* the address, or has the type, asset, logs ... asked for).               *)
(***************************************************************************)
EXTENDS Integers, SequencesExt

Root == -1  \* root-intra is absent: the row is a root transaction

RECURSIVE CountInner(_)
(* countInner: the inner transactions below a transaction. *)
CountInner(t) == FoldLeft(LAMBDA n, i : n + 1 + CountInner(i), 0, t.inner)

RECURSIVE YieldInner(_, _, _)
(* yieldInnerTransactions: the rows below t, numbered from intra. The      *)
(* inner transactions of an inner transaction are not stored with it, so   *)
(* its row counts none.                                                    *)
YieldInner(t, intra, root) ==
    FoldLeft(LAMBDA acc, i :
               LET below == YieldInner(i, acc.next + 1, root)
               IN [next |-> below.next,
                   rows |-> Append(acc.rows, [intra |-> acc.next, root |-> root,
                                              hit |-> i.hit, inner |-> 0]) \o below.rows],
             [next |-> intra, rows |-> <<>>], t.inner)

(* Mutant: the payset's next transaction is numbered right after the root, *)
(* as if it had no inner transactions.                                     *)
YieldPaysetFlat(block) ==
    FoldLeft(LAMBDA acc, t :
               LET below == YieldInner(t, acc.next + 1, acc.next)
               IN [next |-> acc.next + 1,
                   rows |-> Append(acc.rows, [intra |-> acc.next, root |-> Root, hit |-> t.hit,
                                              inner |-> CountInner(t)]) \o below.rows],
             [next |-> 0, rows |-> <<>>], block.payset)

(* The loop of yieldTransactions. *)
YieldPayset(block) ==
    FoldLeft(LAMBDA acc, t :
               LET below == YieldInner(t, acc.next + 1, acc.next)
               IN [next |-> below.next,
                   rows |-> Append(acc.rows, [intra |-> acc.next, root |-> Root, hit |-> t.hit,
                                              inner |-> CountInner(t)]) \o below.rows],
             [next |-> 0, rows |-> <<>>], block.payset)

(* yieldTransactions: the payset, then the proposer's payout if there is   *)
(* one; block.payout is "none", or whether the payout is a hit.            *)
YieldTransactions(block) ==
    LET y == YieldPayset(block)
    IN IF block.payout = "none" THEN y.rows
       ELSE Append(y.rows, [intra |-> y.next, root |-> Root, hit |-> block.payout = "hit",
                            inner |-> 0])

-----------------------------------------------------------------------------
RECURSIVE AnyHit(_)
(* getTransactionParticipants with includeInner. *)
AnyHit(t) == t.hit \/ \E i \in DOMAIN t.inner : AnyHit(t.inner[i])

RECURSIVE InnerParticipation(_, _)
(* addInnerTransactionParticipation: direct participation only. *)
InnerParticipation(t, intra) ==
    FoldLeft(LAMBDA acc, i :
               LET below == InnerParticipation(i, acc.next + 1)
               IN [next |-> below.next,
                   rows |-> (IF i.hit THEN Append(acc.rows, acc.next) ELSE acc.rows)
                              \o below.rows],
             [next |-> intra, rows |-> <<>>], t.inner)

(* AddTransactionParticipation: the intra of each row of the address. *)
Participation(block) ==
    LET y == FoldLeft(LAMBDA acc, t :
                        LET below == InnerParticipation(t, acc.next + 1)
                        IN [next |-> below.next,
                            rows |-> (IF AnyHit(t) THEN Append(acc.rows, acc.next) ELSE acc.rows)
                                       \o below.rows],
                      [next |-> 0, rows |-> <<>>], block.payset)
    IN IF block.payout = "hit" THEN Append(y.rows, y.next) ELSE y.rows
=============================================================================
