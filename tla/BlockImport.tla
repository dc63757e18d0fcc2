----------------------------- MODULE BlockImport -----------------------------
(***************************************************************************)
(* The write side of idb/postgres: EnsureInitialImport, LoadGenesis,       *)
(* AddBlock and DeleteTransactions, called by any number of goroutines     *)
(* (Callers) in any number of processes that share one database.           *)
(*                                                                         *)
(* A process holds one accountingLock and one connection pool. AddBlock    *)
(* runs two database transactions: the outer one advances the import state *)
(* and writes headers and account tables; a goroutine writes txn and       *)
(* txn_participation in an inner transaction that commits on its own.      *)
(*                                                                         *)
(* Postgres is modelled by what the code relies on. Transactions are       *)
(* serializable: a transaction reads the snapshot of its first statement,  *)
(* an upsert of a metastate row waits for the row's lock and fails to      *)
(* serialize when the row changed since the snapshot. Any statement may    *)
(* fail; `faults' counts failures and crashes, bounded by MaxFaults.       *)
(***************************************************************************)
EXTENDS Integers, Sequences, FiniteSets

CONSTANTS
    Callers,        \* goroutines that call the IndexerDb methods
    Procs,          \* processes, one IndexerDb each
    Proc,           \* the process of a caller
    Nets,           \* genesis hashes
    Genesis,        \* the genesis hash a process is configured with
    Addrs,          \* account addresses
    Allocation,     \* the addresses of a network's genesis allocation
    MaxRound,       \* callers offer the blocks 0 .. MaxRound
    NonEmpty,       \* rounds whose block holds at least one transaction
    LegacyRounds,   \* next rounds of a database without network metastate
    MaxConn,        \* size of a process's connection pool
    MaxFaults,      \* bound on database errors and crashes
    NoNetwork,      \* there is no network row
    None            \* the lock is free

Rounds == 0 .. MaxRound

NotInitialized == -1   \* there is no import state or delete status row

ASSUME ProcAssumption ==
    /\ Proc \in [Callers -> Procs]
    /\ Genesis \in [Procs -> Nets]
    /\ None \notin Callers

(* Every network's genesis file funds at least one account. *)
ASSUME AllocationAssumption == Allocation \in [Nets -> (SUBSET Addrs) \ {{}}]

ASSUME BoundsAssumption ==
    /\ MaxRound \in Nat
    /\ NonEmpty \subseteq Nat
    /\ LegacyRounds \subseteq Nat
    /\ MaxFaults \in Nat
    /\ NoNetwork \notin Nets

(* A database without a network row is opened for one network only: the    *)
(* check-then-set in checkGenesisHash cannot tell two of them apart.       *)
ASSUME LegacyAssumption ==
    LegacyRounds # {} => \A p, q \in Procs : Genesis[p] = Genesis[q]

VARIABLES
    \* durable: the tables
    next,      \* metastate 'state': NextRoundToAccount
    network,   \* metastate 'network': genesis hash
    accounts,  \* account: addresses that have a row
    headers,   \* block_header: rounds
    accounted, \* the blocks whose deltas the account tables hold, in order
    txns,      \* txn and txn_participation: rounds whose rows are committed
    oldest,    \* metastate delete status: OldestRound, 0 without one
    \* volatile: the processes
    lock,      \* accountingLock of each process
    pc,        \* where each caller is
    round,     \* argument of the caller's AddBlock
    snap,      \* the snapshot of the caller's outer transaction
    inner,     \* state of the caller's inner transaction (err0 when done)
    ensured,   \* callers that EnsureInitialImport let through
    \* bookkeeping
    acked,     \* rounds for which the caller's AddBlock returned nil
    horizon,   \* the largest `keep' given to DeleteTransactions so far
    faults

vars == <<next, network, accounts, headers, accounted, txns, oldest,
          lock, pc, round, snap, inner, ensured, acked, horizon, faults>>

-----------------------------------------------------------------------------
(* Steps of a call. *)
EnsurePcs  == {"ensure", "hash", "setnet", "gbegin", "gwrite", "gcommit"}
AddPcs     == {"lock", "begin", "check", "upsert", "write", "wait", "redo", "fail",
               "commit"}
OuterOpen  == {"check", "upsert", "write", "wait", "redo", "fail", "commit",
               "gwrite", "gcommit"}
(* Callers whose transaction holds the lock of the 'state' row. The server *)
(* gives the lock up as soon as a statement fails, before the rollback.    *)
RowHolders == {"write", "wait", "commit", "gcommit"}
InnerOpen  == {"open", "copied"}
InnerDone  == {"none", "ok", "unique", "err"}

Snapshots == [next : Nat \cup {NotInitialized}, network : Nets \cup {NoNetwork}]
NoSnapshot == [next |-> NotInitialized, network |-> NoNetwork]

(* The one type invariant: every variable has the shape of its Go or SQL type. *)
TypeOK ==
    /\ next \in Nat \cup {NotInitialized}
    /\ network \in Nets \cup {NoNetwork}
    /\ accounts \subseteq Addrs
    /\ headers \subseteq Nat
    /\ accounted \in Seq(Nat)
    /\ txns \subseteq Nat
    /\ lock \in [Procs -> Callers \cup {None}]
    /\ pc \in [Callers -> {"idle"} \cup EnsurePcs \cup AddPcs]
    /\ round \in [Callers -> Rounds]
    /\ snap \in [Callers -> Snapshots]
    /\ inner \in [Callers -> {"spawned"} \cup InnerOpen \cup InnerDone]
    /\ ensured \subseteq Callers
    /\ acked \in [Callers -> SUBSET Rounds]
    /\ oldest \in Nat
    /\ horizon \in Nat
    /\ faults \in 0 .. MaxFaults

-----------------------------------------------------------------------------
(* A database of a new deployment, or one written by a release that did    *)
(* not record the network yet.                                             *)
Init ==
    /\ network = NoNetwork
    /\ oldest = 0
    /\ horizon = 0
    /\ \/ /\ next = NotInitialized
          /\ accounts = {} /\ headers = {} /\ accounted = <<>> /\ txns = {}
       \/ \E n \in LegacyRounds, p \in Procs :
             /\ next = n
             /\ accounts = Allocation[Genesis[p]]
             /\ headers = 0 .. n - 1
             /\ accounted = [i \in 1 .. n |-> i - 1]
             /\ txns = {r \in NonEmpty : 1 <= r /\ r < n}
    /\ lock = [p \in Procs |-> None]
    /\ pc = [c \in Callers |-> "idle"]
    /\ round = [c \in Callers |-> 0]
    /\ snap = [c \in Callers |-> NoSnapshot]
    /\ inner = [c \in Callers |-> "none"]
    /\ ensured = {}
    /\ acked = [c \in Callers |-> {}]
    /\ faults = 0

(* Connections of p's pool that are in use. *)
Conns(p) ==
    Cardinality({c \in Callers : Proc[c] = p /\ pc[c] \in OuterOpen})
      + Cardinality({c \in Callers : Proc[c] = p /\ inner[c] \in InnerOpen})

FreeConn(c) == Conns(Proc[c]) < MaxConn

RowFree == \A c \in Callers : pc[c] \notin RowHolders

Fault == faults < MaxFaults /\ faults' = faults + 1

Goto(c, label) == pc' = [pc EXCEPT ![c] = label]

(* A call returns: AddBlock's deferred Unlock runs and its locals are gone. *)
Return(c) ==
    /\ Goto(c, "idle")
    /\ round' = [round EXCEPT ![c] = 0]
    /\ snap' = [snap EXCEPT ![c] = NoSnapshot]
    /\ inner' = [inner EXCEPT ![c] = "none"]
    /\ lock' = [lock EXCEPT ![Proc[c]] = IF @ = c THEN None ELSE @]

-----------------------------------------------------------------------------
(* util.EnsureInitialImport, the first call of an importing process.       *)

CallEnsure(c) ==
    /\ pc[c] = "idle"
    /\ Goto(c, "ensure")
    /\ UNCHANGED <<next, network, accounts, headers, accounted, txns, oldest,
                   lock, round, snap, inner, ensured, acked, horizon, faults>>

(* GetNextRoundToAccount tells whether genesis was loaded. *)
EnsureInitialImport(c) ==
    /\ pc[c] = "ensure"
    /\ FreeConn(c)
    /\ Goto(c, IF next = NotInitialized THEN "gbegin" ELSE "hash")
    /\ UNCHANGED <<next, network, accounts, headers, accounted, txns, oldest,
                   lock, round, snap, inner, ensured, acked, horizon, faults>>

(* Mutant: the stored hash is not compared. *)
CheckGenesisHashNoCompare(c) ==
    /\ pc[c] = "hash"
    /\ FreeConn(c)
    /\ \/ /\ network = NoNetwork
          /\ Goto(c, "setnet")
          /\ UNCHANGED <<lock, round, snap, inner, ensured>>
       \/ /\ network # NoNetwork
          /\ Return(c)
          /\ ensured' = ensured \cup {c}
    /\ UNCHANGED <<next, network, accounts, headers, accounted, txns, oldest,
                   acked, horizon, faults>>

(* checkGenesisHash: read the network row, then set it when it is missing. *)
CheckGenesisHash(c) ==
    /\ pc[c] = "hash"
    /\ FreeConn(c)
    /\ \/ /\ network = NoNetwork
          /\ Goto(c, "setnet")
          /\ UNCHANGED <<lock, round, snap, inner, ensured>>
       \/ /\ network = Genesis[Proc[c]]
          /\ Return(c)
          /\ ensured' = ensured \cup {c}
       \/ /\ network \notin {NoNetwork, Genesis[Proc[c]]}
          /\ Return(c)
          /\ UNCHANGED ensured
    /\ UNCHANGED <<next, network, accounts, headers, accounted, txns, oldest,
                   acked, horizon, faults>>

SetNetworkState(c) ==
    /\ pc[c] = "setnet"
    /\ FreeConn(c)
    /\ network' = Genesis[Proc[c]]
    /\ Return(c)
    /\ ensured' = ensured \cup {c}
    /\ UNCHANGED <<next, accounts, headers, accounted, txns, oldest,
                   acked, horizon, faults>>

(* LoadGenesis: one serializable transaction, no accountingLock. *)
LoadGenesisBegin(c) ==
    /\ pc[c] = "gbegin"
    /\ FreeConn(c)
    /\ \/ /\ network \in {NoNetwork, Genesis[Proc[c]]}
          /\ snap' = [snap EXCEPT ![c] = [next |-> next, network |-> network]]
          /\ Goto(c, "gwrite")
          /\ UNCHANGED <<lock, round, inner>>
       \/ /\ network \notin {NoNetwork, Genesis[Proc[c]]}
          /\ Return(c)
    /\ UNCHANGED <<next, network, accounts, headers, accounted, txns, oldest,
                   ensured, acked, horizon, faults>>

(* Mutant: TxWithRetry retries on every Postgres error. *)
LoadGenesisWriteRetryAll(c) ==
    /\ pc[c] = "gwrite"
    /\ \/ accounts \cap Allocation[Genesis[Proc[c]]] # {} /\ Goto(c, "gbegin")
       \/ /\ accounts \cap Allocation[Genesis[Proc[c]]] = {}
          /\ RowFree
          /\ Goto(c, IF snap[c] = [next |-> next, network |-> network]
                        THEN "gcommit" ELSE "gbegin")
    /\ UNCHANGED <<next, network, accounts, headers, accounted, txns, oldest,
                   lock, round, snap, inner, ensured, acked, horizon, faults>>

(* The INSERTs have no ON CONFLICT clause, so a second import of the same  *)
(* allocation stops at its first account. The upserts of the metastate     *)
(* rows wait for their lock and fail if a row changed since the snapshot.  *)
LoadGenesisWrite(c) ==
    /\ pc[c] = "gwrite"
    /\ \/ /\ accounts \cap Allocation[Genesis[Proc[c]]] # {}
          /\ Return(c)
       \/ /\ accounts \cap Allocation[Genesis[Proc[c]]] = {}
          /\ RowFree
          /\ Goto(c, IF snap[c] = [next |-> next, network |-> network]
                        THEN "gcommit" ELSE "gbegin")
          /\ UNCHANGED <<lock, round, snap, inner>>
    /\ UNCHANGED <<next, network, accounts, headers, accounted, txns, oldest,
                   ensured, acked, horizon, faults>>

(* An error may also be reported for a commit that took effect. *)
LoadGenesisCommit(c) ==
    /\ pc[c] = "gcommit"
    /\ next' = 0
    /\ network' = Genesis[Proc[c]]
    /\ accounts' = accounts \cup Allocation[Genesis[Proc[c]]]
    /\ Return(c)
    /\ \/ ensured' = ensured \cup {c} /\ UNCHANGED faults
       \/ Fault /\ UNCHANGED ensured
    /\ UNCHANGED <<headers, accounted, txns, oldest, acked, horizon>>

-----------------------------------------------------------------------------
(* AddBlock, the outer transaction. *)

CallAddBlock(c, r) ==
    /\ pc[c] = "idle"
    /\ round' = [round EXCEPT ![c] = r]
    /\ Goto(c, "lock")
    /\ UNCHANGED <<next, network, accounts, headers, accounted, txns, oldest,
                   lock, snap, inner, ensured, acked, horizon, faults>>

(* A block of a protocol this build does not know is refused outright. *)
CallAddBlockUnknownProtocol(c) ==
    /\ pc[c] = "idle"
    /\ Return(c)
    /\ UNCHANGED <<next, network, accounts, headers, accounted, txns, oldest,
                   ensured, acked, horizon, faults>>

AccountingLock(c) ==
    /\ pc[c] = "lock"
    /\ lock[Proc[c]] = None
    /\ lock' = [lock EXCEPT ![Proc[c]] = c]
    /\ Goto(c, "begin")
    /\ UNCHANGED <<next, network, accounts, headers, accounted, txns, oldest,
                   round, snap, inner, ensured, acked, horizon, faults>>

(* BeginTx and getImportState: the first statement fixes the snapshot. *)
BeginTx(c) ==
    /\ pc[c] = "begin"
    /\ FreeConn(c)
    /\ snap' = [snap EXCEPT ![c] = [next |-> next, network |-> network]]
    /\ Goto(c, "check")
    /\ UNCHANGED <<next, network, accounts, headers, accounted, txns, oldest,
                   lock, round, inner, ensured, acked, horizon, faults>>

(* Mutant: the block's round is not compared with the import state. *)
CheckInitialized(c) ==
    /\ pc[c] = "check"
    /\ IF snap[c].next = NotInitialized
         THEN Return(c)
         ELSE Goto(c, "upsert") /\ UNCHANGED <<lock, round, snap, inner>>
    /\ UNCHANGED <<next, network, accounts, headers, accounted, txns, oldest,
                   ensured, acked, horizon, faults>>

CheckRound(c) ==
    /\ pc[c] = "check"
    /\ \/ /\ snap[c].next = round[c]
          /\ Goto(c, "upsert")
          /\ UNCHANGED <<lock, round, snap, inner>>
       \/ /\ snap[c].next # round[c]
          /\ Return(c)
    /\ UNCHANGED <<next, network, accounts, headers, accounted, txns, oldest,
                   ensured, acked, horizon, faults>>

(* Mutant: read committed instead of serializable. *)
SetImportStateReadCommitted(c) ==
    /\ pc[c] = "upsert"
    /\ RowFree
    /\ Goto(c, "write")
    /\ inner' = [inner EXCEPT ![c] = IF round[c] = 0 THEN "none" ELSE "spawned"]
    /\ UNCHANGED <<next, network, accounts, headers, accounted, txns, oldest,
                   lock, round, snap, ensured, acked, horizon, faults>>

(* setImportState takes the row lock, or fails to serialize and the whole  *)
(* transaction is retried. Blocks after 0 then start the inner goroutine.  *)
SetImportState(c) ==
    /\ pc[c] = "upsert"
    /\ RowFree
    /\ \/ /\ next = snap[c].next
          /\ Goto(c, "write")
          /\ inner' = [inner EXCEPT ![c] = IF round[c] = 0 THEN "none" ELSE "spawned"]
       \/ /\ next # snap[c].next
          /\ Goto(c, "begin")
          /\ UNCHANGED inner
    /\ UNCHANGED <<next, network, accounts, headers, accounted, txns, oldest,
                   lock, round, snap, ensured, acked, horizon, faults>>

(* writer.AddBlock0 or writer.AddBlock inside the outer transaction; it    *)
(* may fail to serialize ("redo") or fail for good ("fail").               *)
WriterAddBlock(c) ==
    /\ pc[c] = "write"
    /\ \/ Goto(c, "wait") /\ UNCHANGED faults
       \/ \E label \in {"redo", "fail"} : Goto(c, label) /\ Fault
    /\ UNCHANGED <<next, network, accounts, headers, accounted, txns, oldest,
                   lock, round, snap, inner, ensured, acked, horizon>>

(* Mutant: err0 is not looked at. *)
WaitInnerIgnoreError(c) ==
    /\ pc[c] \in {"wait", "redo", "fail"}
    /\ inner[c] \in InnerDone
    /\ IF pc[c] = "fail"
         THEN Return(c)
         ELSE /\ Goto(c, IF pc[c] = "redo" THEN "begin" ELSE "commit")
              /\ inner' = [inner EXCEPT ![c] = "none"]
              /\ UNCHANGED <<lock, round, snap>>
    /\ UNCHANGED <<next, network, accounts, headers, accounted, txns, oldest,
                   ensured, acked, horizon, faults>>

(* Mutant: no wg.Wait before the outer transaction commits. *)
NoWaitInner(c) ==
    /\ \/ /\ pc[c] = "redo" /\ inner[c] \in InnerDone
          /\ Goto(c, "begin")
          /\ inner' = [inner EXCEPT ![c] = "none"]
          /\ UNCHANGED <<lock, round, snap>>
       \/ /\ pc[c] = "wait"
          /\ Goto(c, "commit")
          /\ UNCHANGED <<lock, round, snap, inner>>
       \/ /\ pc[c] = "fail" /\ inner[c] \in InnerDone
          /\ Return(c)
    /\ UNCHANGED <<next, network, accounts, headers, accounted, txns, oldest,
                   ensured, acked, horizon, faults>>

(* wg.Wait, also deferred on the error paths: nothing goes on while the    *)
(* goroutine runs. A unique violation means the rows were already there.   *)
WaitInner(c) ==
    /\ pc[c] \in {"wait", "redo", "fail"}
    /\ inner[c] \in InnerDone
    /\ \/ /\ pc[c] = "redo"
          /\ Goto(c, "begin")
          /\ inner' = [inner EXCEPT ![c] = "none"]
          /\ UNCHANGED <<lock, round, snap>>
       \/ /\ pc[c] = "wait" /\ inner[c] # "err"
          /\ Goto(c, "commit")
          /\ UNCHANGED <<lock, round, snap, inner>>
       \/ /\ \/ pc[c] = "wait" /\ inner[c] = "err"
             \/ pc[c] = "fail"
          /\ Return(c)
    /\ UNCHANGED <<next, network, accounts, headers, accounted, txns, oldest,
                   ensured, acked, horizon, faults>>

(* The outer transaction's writes become visible. *)
Apply(c) ==
    /\ next' = round[c] + 1
    /\ headers' = headers \cup {round[c]}
    /\ accounted' = Append(accounted, round[c])

(* The commit succeeds, or fails and is retried or reported, or succeeds   *)
(* although the connection is lost and an error is reported.               *)
CommitTx(c) ==
    /\ pc[c] = "commit"
    /\ \/ /\ Apply(c)
          /\ Return(c)
          /\ acked' = [acked EXCEPT ![c] = @ \cup {round[c]}]
          /\ UNCHANGED faults
       \/ /\ Fault
          /\ Apply(c)
          /\ Return(c)
          /\ UNCHANGED acked
       \/ /\ Fault
          /\ Return(c)
          /\ UNCHANGED <<next, headers, accounted, acked>>
       \/ /\ Fault
          /\ Goto(c, "begin")
          /\ inner' = [inner EXCEPT ![c] = "none"]
          /\ UNCHANGED <<next, headers, accounted, lock, round, snap, acked>>
    /\ UNCHANGED <<network, accounts, txns, oldest, ensured, horizon>>

-----------------------------------------------------------------------------
(* AddBlock, the inner transaction: AddTransactions and then               *)
(* AddTransactionParticipation, both of them CopyFrom into keyed tables.   *)

InnerBegin(c) ==
    /\ inner[c] = "spawned"
    /\ FreeConn(c)
    /\ inner' = [inner EXCEPT ![c] = "open"]
    /\ UNCHANGED <<next, network, accounts, headers, accounted, txns, oldest,
                   lock, pc, round, snap, ensured, acked, horizon, faults>>

(* A key that another open transaction inserted makes the copy wait, a key *)
(* that is already committed makes it fail.                                *)
InnerCopy(c) ==
    /\ inner[c] = "open"
    /\ round[c] \in NonEmpty =>
          \A d \in Callers : ~(inner[d] = "copied" /\ round[d] = round[c])
    /\ inner' = [inner EXCEPT ![c] =
                    IF round[c] \in NonEmpty \cap txns THEN "unique" ELSE "copied"]
    /\ UNCHANGED <<next, network, accounts, headers, accounted, txns, oldest,
                   lock, pc, round, snap, ensured, acked, horizon, faults>>

InnerCommit(c) ==
    /\ inner[c] = "copied"
    /\ txns' = txns \cup ({round[c]} \cap NonEmpty)
    /\ inner' = [inner EXCEPT ![c] = "ok"]
    /\ UNCHANGED <<next, network, accounts, headers, accounted, oldest,
                   lock, pc, round, snap, ensured, acked, horizon, faults>>

(* A serialization failure is retried, any other error ends in err0. *)
InnerFail(c) ==
    /\ inner[c] \in {"spawned"} \cup InnerOpen
    /\ Fault
    /\ \E e \in {"spawned", "err"} : inner' = [inner EXCEPT ![c] = e]
    /\ UNCHANGED <<next, network, accounts, headers, accounted, txns, oldest,
                   lock, pc, round, snap, ensured, acked, horizon>>

-----------------------------------------------------------------------------
(* Mutant: the last round to delete is left in the tables. *)
DeleteTransactionsLeaveLast(c, keep) ==
    /\ pc[c] = "idle"
    /\ FreeConn(c)
    /\ next # NotInitialized
    /\ keep <= next
    /\ txns' = {r \in txns : r >= keep - 1}
    /\ oldest' = keep
    /\ horizon' = IF keep > horizon THEN keep ELSE horizon
    /\ UNCHANGED <<next, network, accounts, headers, accounted,
                   lock, pc, round, snap, inner, ensured, acked, faults>>

(* DeleteTransactions(keep): one serializable transaction. The pruner asks *)
(* for rounds that are accounted already, keep <= next.                    *)
DeleteTransactions(c, keep) ==
    /\ pc[c] = "idle"
    /\ FreeConn(c)
    /\ next # NotInitialized
    /\ keep <= next
    /\ txns' = {r \in txns : r >= keep}
    /\ oldest' = keep
    /\ horizon' = IF keep > horizon THEN keep ELSE horizon
    /\ UNCHANGED <<next, network, accounts, headers, accounted,
                   lock, pc, round, snap, inner, ensured, acked, faults>>

(* A statement of a call fails: the transaction is rolled back and the     *)
(* error returned. Once the inner goroutine runs, failures are those of    *)
(* WriterAddBlock, InnerFail and CommitTx.                                 *)
StatementError(c) ==
    /\ pc[c] \in EnsurePcs \cup {"begin", "check", "upsert"}
    /\ Fault
    /\ Return(c)
    /\ UNCHANGED <<next, network, accounts, headers, accounted, txns, oldest,
                   ensured, acked, horizon>>

(* TxWithRetry: a transaction that fails to serialize starts over. *)
SerializationFailure(c) ==
    /\ Fault
    /\ \/ pc[c] \in {"check", "upsert"} /\ Goto(c, "begin")
       \/ pc[c] \in {"gwrite", "gcommit"} /\ Goto(c, "gbegin")
    /\ UNCHANGED <<next, network, accounts, headers, accounted, txns, oldest,
                   lock, round, snap, inner, ensured, acked, horizon>>

(* The process dies; the server rolls its open transactions back. *)
Crash(p) ==
    /\ Fault
    /\ lock' = [lock EXCEPT ![p] = None]
    /\ pc' = [c \in Callers |-> IF Proc[c] = p THEN "idle" ELSE pc[c]]
    /\ inner' = [c \in Callers |-> IF Proc[c] = p THEN "none" ELSE inner[c]]
    /\ ensured' = {c \in ensured : Proc[c] # p}
    /\ round' = [c \in Callers |-> IF Proc[c] = p THEN 0 ELSE round[c]]
    /\ snap' = [c \in Callers |-> IF Proc[c] = p THEN NoSnapshot ELSE snap[c]]
    /\ UNCHANGED <<next, network, accounts, headers, accounted, txns, oldest, acked,
                   horizon>>

-----------------------------------------------------------------------------
Step(c) ==
    \/ EnsureInitialImport(c) \/ CheckGenesisHash(c) \/ SetNetworkState(c)
    \/ LoadGenesisBegin(c) \/ LoadGenesisWrite(c) \/ LoadGenesisCommit(c)
    \/ AccountingLock(c) \/ BeginTx(c) \/ CheckRound(c) \/ SetImportState(c)
    \/ WriterAddBlock(c) \/ WaitInner(c) \/ CommitTx(c)

InnerStep(c) == InnerBegin(c) \/ InnerCopy(c) \/ InnerCommit(c)

Call(c) ==
    \/ CallEnsure(c)
    \/ \E r \in Rounds : CallAddBlock(c, r)
    \/ CallAddBlockUnknownProtocol(c)
    \/ \E keep \in 0 .. MaxRound + 1 : DeleteTransactions(c, keep)

Next ==
    \/ \E c \in Callers : Call(c) \/ Step(c) \/ InnerStep(c)
                             \/ InnerFail(c) \/ StatementError(c) \/ SerializationFailure(c)
    \/ \E p \in Procs : Crash(p)

Spec == Init /\ [][Next]_vars

(* Goroutines are scheduled, sync.Mutex, the pool and the server's row     *)
(* locks are granted in turn: a step that is possible again and again is   *)
(* taken.                                                                  *)
Fairness == \A c \in Callers : SF_vars(Step(c)) /\ SF_vars(InnerStep(c))

FairSpec == Spec /\ Fairness

-----------------------------------------------------------------------------
(* Properties. *)

(* The account tables hold the blocks 0 .. next-1, each applied once and   *)
(* in order, and block_header holds exactly those rounds: retries, lost    *)
(* commits, crashes and rival processes never skip or repeat a block.      *)
AccountedExactlyOnce ==
    IF next = NotInitialized
      THEN accounted = <<>> /\ headers = {}
      ELSE /\ accounted = [i \in 1 .. next |-> i - 1]
           /\ headers = 0 .. next - 1

(* The comment in AddBlock: txn and txn_participation "can only be ahead   *)
(* but not behind the other state". Every accounted round that was not     *)
(* pruned has its transactions.                                            *)
TxnsNeverBehind ==
    next # NotInitialized =>
      \A r \in NonEmpty : (1 <= r /\ r < next /\ r >= horizon) => r \in txns

(* And ahead by one round at most: the row lock of the outer transaction   *)
(* keeps an inner transaction from running for a later round.              *)
TxnsAheadByOne ==
    \A r \in txns : next # NotInitialized /\ r <= next

(* A nil error of AddBlock is an acknowledgement: the round is accounted,  *)
(* and no two callers are told that they added the same round.             *)
AcknowledgedOnce ==
    \A c \in Callers :
      /\ acked[c] \subseteq headers
      /\ \A d \in Callers \ {c} : acked[c] \cap acked[d] = {}

(* The genesis hash of a database never changes once it is set, and a      *)
(* process that EnsureInitialImport let through has that genesis.          *)
NetworkPinned ==
    [][network # NoNetwork => network' = network]_vars

EnsuredNetwork ==
    \A c \in ensured : network = Genesis[Proc[c]]

(* With one importing process pruned rounds never come back: AddBlock does *)
(* not release accountingLock before its goroutine is done.                *)
PrunedStaysGone == \A r \in txns : r >= horizon

(* Every call returns: no cycle through accountingLock, the connection     *)
(* pool, the row lock and the goroutine's keys.                            *)
CallsReturn == \A c \in Callers : pc[c] # "idle" ~> pc[c] = "idle"

(* A block's header, account changes and transactions become readable in   *)
(* one step although two transactions write them: queries join txn with    *)
(* block_header, and pruned rounds do not count.                           *)
readable == {r \in txns \cap headers : r >= horizon}

Ledger == INSTANCE ImportLedger WITH
            NonEmpty <- NonEmpty, LegacyRounds <- LegacyRounds,
            next <- next, accounted <- accounted, readable <- readable

LedgerSpec == Ledger!Spec
=============================================================================
