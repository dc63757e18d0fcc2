------------------------------- MODULE TxnSearch ------------------------------
(***************************************************************************)
(* A client pages through a transaction search while blocks are imported:  *)
(* api.fetchTransactions over IndexerDb.Transactions. Each page is one     *)
(* read-only snapshot; the next token is made from the last row of a page. *)
(***************************************************************************)
EXTENDS TxnTable

CONSTANTS
    Blocks,      \* the contents a block may have
    MaxRound,    \* bound on the chain
    Logs,        \* SkipInnerTransactionConversion: inner rows stay inner
    Params,      \* the values of the limit parameter
    MaxLimit     \* max-transactions-limit

ASSUME SearchAssumption ==
    /\ {MaxRound, MaxLimit} \subseteq Nat /\ Params \subseteq Nat
    /\ Logs \in BOOLEAN

(* transactionParamsToTransactionFilter: the limit of the filter. *)
Limits == {IF n < MaxLimit THEN n ELSE MaxLimit : n \in Params}

NoToken == [round |-> -1, intra |-> -1]

VARIABLES
    round,  \* the last round imported; round 0 has no transactions
    txn,    \* table txn in the order of its key (round, intra)
    part,   \* table txn_participation: the rows of the address
    descending, \* the client gives an address: newest first
    limit,  \* the client's limit
    token,  \* the next token it holds, NoToken for the first page
    seen,   \* the results it was given, in order
    first,  \* the round of the first answer, -1 before it
    done    \* an answer was empty

vars == <<round, txn, part, descending, limit, token, seen, first, done>>

(* The one type invariant. *)
TypeOK ==
    /\ round \in 0 .. MaxRound
    /\ \A i \in DOMAIN txn : txn[i] \in [round : 1 .. round, intra : Nat, root : Nat \cup {Root},
                                        hit : BOOLEAN, inner : Nat]
    /\ \A i \in DOMAIN part : part[i] \in [round : 1 .. round, intra : Nat]
    /\ descending \in BOOLEAN /\ limit \in Limits
    /\ token = NoToken \/ token \in [round : 1 .. MaxRound, intra : Nat]
    /\ first \in -1 .. MaxRound
    /\ done \in BOOLEAN

Init ==
    /\ round = 0 /\ txn = <<>> /\ part = <<>> /\ descending \in BOOLEAN /\ limit \in Limits
    /\ token = NoToken /\ seen = <<>> /\ first = -1 /\ done = FALSE

(* AddTransactions and AddTransactionParticipation of the next block. *)
AddBlock ==
    /\ round < MaxRound
    /\ round' = round + 1
    /\ \E b \in Blocks :
         /\ txn' = txn \o [i \in DOMAIN YieldTransactions(b) |->
                            [round |-> round + 1] @@ YieldTransactions(b)[i]]
         /\ part' = part \o [i \in DOMAIN Participation(b) |->
                              [round |-> round + 1, intra |-> Participation(b)[i]]]
    /\ UNCHANGED <<descending, limit, token, seen, first, done>>

-----------------------------------------------------------------------------
Key(row) == [round |-> row.round, intra |-> row.intra]

(* The rows of table txn a search selects, in the order of its ORDER BY:   *)
(* by participation when there is an address, by contents otherwise.       *)
Selection ==
    IF descending
      THEN Reverse(SelectSeq(txn, LAMBDA row : Key(row) \in ToSet(part)))
      ELSE SelectSeq(txn, LAMBDA row : row.hit)

(* The first n of the rows that satisfy the query's conditions; a limit of *)
(* 0 is no limit.                                                          *)
Query(rows, n) == IF n = 0 \/ Len(rows) <= n THEN rows ELSE SubSeq(rows, 1, n)

(* txnsWithNext: the rest of the token's round, then the rounds beyond it. *)
SameRound(row) ==
    /\ row.round = token.round
    /\ IF descending THEN row.intra < token.intra ELSE row.intra > token.intra

Beyond(row) ==
    IF descending THEN token.round > 1 /\ row.round < token.round
                  ELSE row.round > token.round

(* Mutant: the rest of the token's round is not asked for. *)
TxnsNextRoundOnly == Query(SelectSeq(Selection, Beyond), limit)

TxnsWithNext ==
    LET q == Query(SelectSeq(Selection, SameRound), limit)
    IN IF Len(q) >= limit THEN q
       ELSE q \o Query(SelectSeq(Selection, Beyond), limit - Len(q))

YieldTxns == IF token = NoToken THEN Query(Selection, limit) ELSE TxnsWithNext

(* The transaction a row stands for in the answer: its root, unless inner  *)
(* rows stay inner.                                                        *)
Result(row) ==
    [round |-> row.round, intra |-> IF row.root = Root \/ Logs THEN row.intra ELSE row.root]

(* fetchTransactions drops a root it has already on the page; the token is *)
(* made from the last row that was kept.                                   *)
Kept(rows) ==
    {i \in DOMAIN rows : Logs \/ \A j \in 1 .. i - 1 : Result(rows[j]) # Result(rows[i])}

Page(rows) ==
    FoldLeft(LAMBDA acc, i : IF i \in Kept(rows) THEN Append(acc, Result(rows[i])) ELSE acc,
             <<>>, [i \in DOMAIN rows |-> i])

(* The transaction stored with the row, or its root where the query joins  *)
(* it: how many inner transactions countInner finds.                       *)
InnerOf(row) ==
    IF row.root = Root \/ Logs THEN row.inner
    ELSE txn[CHOOSE i \in DOMAIN txn : txn[i].round = row.round /\ txn[i].intra = row.root].inner

(* Mutant: the inner transactions are not skipped. *)
NextOwnIntra(row) == [round |-> row.round, intra |-> IF row.root # Root THEN row.root ELSE row.intra]

(* TxnRow.Next *)
NextToken(row) ==
    LET intra == IF row.root # Root THEN row.root ELSE row.intra
    IN [round |-> row.round, intra |-> IF descending THEN intra ELSE intra + InnerOf(row)]

(* fetchTransactions; an error leaves the client with the token it has. *)
Fetch ==
    LET rows == YieldTxns
        page == Page(rows)
    IN /\ ~done
       /\ seen' = seen \o page
       /\ first' = IF first = -1 THEN round ELSE first
       /\ IF page = <<>> THEN done' = TRUE /\ UNCHANGED token
          ELSE token' = NextToken(rows[Max(Kept(rows))]) /\ UNCHANGED done
       /\ UNCHANGED <<round, txn, part, descending, limit>>

(* The client starts another search. *)
Again ==
    /\ done
    /\ descending' \in BOOLEAN /\ limit' \in Limits
    /\ token' = NoToken /\ seen' = <<>> /\ first' = -1 /\ done' = FALSE
    /\ UNCHANGED <<round, txn, part>>

Next == AddBlock \/ Fetch \/ Again

Spec == Init /\ [][Next]_vars

-----------------------------------------------------------------------------
(* The two traversals of a block agree: intra numbers are dense, a root    *)
(* and the inner transactions under it take up exactly the numbers from    *)
(* its own to its own plus countInner (which TxnRow.Next counts on), and   *)
(* the participation rows are one for each transaction that names the      *)
(* address, or is a root over one that does, so that the join finds them.  *)
TablesAgree ==
    LET Under(row) == {t \in ToSet(txn) : t.round = row.round /\
                                           (t = row \/ t.root = row.intra)}
        Of(r) == {t \in ToSet(txn) : t.round = r}
    IN /\ \A r \in 1 .. round : {t.intra : t \in Of(r)} = 0 .. Cardinality(Of(r)) - 1
       /\ \A t \in ToSet(txn) : t.root = Root =>
            {u.intra : u \in Under(t)} = t.intra .. t.intra + t.inner
       /\ IsInjective(part)
       /\ ToSet(part) = {Key(t) : t \in {u \in ToSet(txn) :
                             \/ u.hit
                             \/ u.root = Root /\ \E v \in Under(u) : v.hit}}

(* No result is given twice, within a page or across pages, although one   *)
(* root may be selected by many of its inner transactions and blocks       *)
(* arrive between pages.                                                   *)
NoRepeats == IsInjective(seen)

(* "Next returns what should be an opaque string to be used with the next  *)
(* query to resume where a previous limit left off": a client that follows *)
(* the tokens to the end has got everything that matched when it started.  *)
NothingMissed ==
    done => \A row \in ToSet(Selection) :
              row.round <= first => Result(row) \in ToSet(seen)

=============================================================================
