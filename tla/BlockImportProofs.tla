-------------------------- MODULE BlockImportProofs --------------------------
(***************************************************************************)
(* What BlockImport guarantees for any number of callers, processes and    *)
(* rounds, and that it implements ImportLedger.                            *)
(***************************************************************************)
EXTENDS BlockImport, TLAPS

(* The account rows of genesis are there exactly when the import state is. *)
GenesisLoaded ==
    /\ next = NotInitialized =>
         accounts = {} /\ network = NoNetwork /\ txns = {} /\ horizon = 0
    /\ next # NotInitialized =>
         /\ horizon <= next
         /\ network = NoNetwork => LegacyRounds # {}
         /\ \A p \in Procs : network \in {NoNetwork, Genesis[p]} =>
                               accounts \cap Allocation[Genesis[p]] # {}
    /\ network = NoNetwork \/ \E p \in Procs : network = Genesis[p]
    /\ txns \subseteq NonEmpty \ {0}

(* Which calls may be past which check. *)
Checked ==
    \A c \in Callers :
      /\ pc[c] \in {"hash", "setnet"} => next # NotInitialized
      /\ pc[c] = "setnet" => LegacyRounds # {}
      /\ pc[c] = "upsert" => snap[c].next = round[c]
      /\ pc[c] = "gwrite" => snap[c].network \in {NoNetwork, Genesis[Proc[c]]}

(* The caller that holds the row lock works on the next round, alone. *)
RowLock ==
    \A c \in Callers :
      /\ pc[c] \in {"write", "wait", "commit"} => round[c] = next
      /\ pc[c] = "gcommit" => next = NotInitialized
      /\ pc[c] \in RowHolders => \A d \in Callers \ {c} : pc[d] \notin RowHolders

(* What the outer transaction may conclude from its goroutine. *)
Goroutine ==
    \A c \in Callers :
      /\ inner[c] # "none" =>
           /\ pc[c] \in {"write", "wait", "redo", "fail", "commit"}
           /\ next # NotInitialized
           /\ 1 <= round[c] /\ round[c] <= next
      /\ pc[c] \in {"write", "wait", "commit"} =>
           /\ inner[c] = "none" => round[c] = 0
           /\ (inner[c] \in {"ok", "unique"} /\ round[c] \in NonEmpty) => round[c] \in txns
      /\ pc[c] = "commit" => inner[c] \in {"none", "ok", "unique"}

IInv ==
    /\ TypeOK
    /\ GenesisLoaded
    /\ Checked
    /\ RowLock
    /\ Goroutine
    /\ AccountedExactlyOnce
    /\ TxnsNeverBehind
    /\ TxnsAheadByOne
    /\ AcknowledgedOnce
    /\ EnsuredNetwork
-----------------------------------------------------------------------------
(* A step that leaves the tables alone keeps what is said of them. *)
LEMMA DbFrame ==
    ASSUME IInv, UNCHANGED <<next, network, accounts, headers, accounted, txns, horizon>>
    PROVE  (GenesisLoaded /\ AccountedExactlyOnce /\ TxnsNeverBehind /\ TxnsAheadByOne)'
BY Zenon DEF IInv, GenesisLoaded, AccountedExactlyOnce, TxnsNeverBehind, TxnsAheadByOne

(* A step that acknowledges no block and ensures no caller. *)
LEMMA AckFrame ==
    ASSUME IInv, UNCHANGED <<network, headers, acked>>, ensured' \subseteq ensured
    PROVE  (AcknowledgedOnce /\ EnsuredNetwork)'
BY Zenon DEF IInv, AcknowledgedOnce, EnsuredNetwork


(* A call that returns goes back to its initial local state. *)
LEMMA ReturnType ==
    ASSUME TypeOK, NEW c \in Callers, Return(c)
    PROVE  /\ lock' \in [Procs -> Callers \cup {None}]
           /\ pc' \in [Callers -> {"idle"} \cup EnsurePcs \cup AddPcs]
           /\ round' \in [Callers -> Rounds]
           /\ snap' \in [Callers -> Snapshots]
           /\ inner' \in [Callers -> {"spawned"} \cup InnerOpen \cup InnerDone]
<1>1. Proc[c] \in Procs
  BY Zenon, ProcAssumption
<1>2. lock' \in [Procs -> Callers \cup {None}]
  BY Zenon, <1>1 DEF TypeOK, Return
<1>3. pc' \in [Callers -> {"idle"} \cup EnsurePcs \cup AddPcs]
  BY Zenon DEF TypeOK, Return, Goto
<1>4. round' \in [Callers -> Rounds]
  BY BoundsAssumption DEF TypeOK, Return, Rounds
<1>5. NoSnapshot \in Snapshots
  BY Zenon DEF NoSnapshot, Snapshots
<1>6. snap' \in [Callers -> Snapshots]
  BY Zenon, <1>5 DEF TypeOK, Return
<1>7. inner' \in [Callers -> {"spawned"} \cup InnerOpen \cup InnerDone]
  BY Zenon DEF TypeOK, Return, InnerDone
<1> QED BY Zenon, <1>2, <1>3, <1>4, <1>6, <1>7

LEMMA ReturnLocal ==
    ASSUME IInv, NEW c \in Callers, Return(c), UNCHANGED <<next, txns>>
    PROVE  (Checked /\ RowLock /\ Goroutine)'
<1>1. /\ pc'[c] = "idle" /\ inner'[c] = "none"
      /\ \A d \in Callers \ {c} : /\ pc'[d] = pc[d] /\ inner'[d] = inner[d]
                                  /\ round'[d] = round[d] /\ snap'[d] = snap[d]
  BY Zenon DEF IInv, TypeOK, Return, Goto
<1>2. Checked'
  BY Zenon, <1>1 DEF IInv, Checked
<1>3. RowLock'
  BY Zenon, <1>1 DEF IInv, RowLock, RowHolders
<1>4. Goroutine'
  BY Zenon, <1>1 DEF IInv, Goroutine
<1> QED BY Zenon, <1>2, <1>3, <1>4

(* A call that fails changes nothing but its own state. *)
LEMMA ErrorReturn ==
    ASSUME IInv, NEW c \in Callers, Return(c), faults' \in 0 .. MaxFaults,
           UNCHANGED <<next, network, accounts, headers, accounted, txns, oldest,
                       ensured, acked, horizon>>
    PROVE  IInv'
<1>1. TypeOK'
  BY Zenon, ReturnType DEF IInv, TypeOK
<1> QED BY Zenon, <1>1, ReturnLocal, DbFrame, AckFrame DEF IInv

LEMMA FaultType == ASSUME TypeOK, Fault PROVE faults' \in 0 .. MaxFaults
BY BoundsAssumption DEF TypeOK, Fault

LEMMA GotoType ==
    ASSUME TypeOK, NEW c \in Callers, NEW label \in {"idle"} \cup EnsurePcs \cup AddPcs,
           Goto(c, label)
    PROVE  pc' \in [Callers -> {"idle"} \cup EnsurePcs \cup AddPcs]
BY Zenon DEF TypeOK, Goto

LEMMA StatementErrorStep ==
    ASSUME IInv, NEW c \in Callers, StatementError(c) PROVE IInv'
BY Zenon, ErrorReturn, FaultType DEF StatementError, IInv

LEMMA CallAddBlockUnknownProtocolStep ==
    ASSUME IInv, NEW c \in Callers, CallAddBlockUnknownProtocol(c) PROVE IInv'
BY Zenon, ErrorReturn DEF CallAddBlockUnknownProtocol, IInv, TypeOK

LEMMA CheckRoundStep ==
    ASSUME IInv, NEW c \in Callers, CheckRound(c) PROVE IInv'
<1>1. CASE Return(c)
  BY Zenon, <1>1, ErrorReturn DEF CheckRound, IInv, TypeOK
<1>2. CASE snap[c].next = round[c] /\ Goto(c, "upsert") /\ UNCHANGED <<lock, round, snap, inner>>
  <2>1. TypeOK'
    BY Zenon, <1>2, GotoType DEF IInv, TypeOK, CheckRound, AddPcs
  <2>2. (Checked /\ RowLock /\ Goroutine)'
    BY <1>2 DEF IInv, TypeOK, Checked, RowLock, RowHolders, Goroutine, CheckRound, Goto
  <2> QED BY Zenon, <2>1, <2>2, DbFrame, AckFrame DEF IInv, CheckRound
<1> QED BY Zenon, <1>1, <1>2 DEF CheckRound

LEMMA LoadGenesisBeginStep ==
    ASSUME IInv, NEW c \in Callers, LoadGenesisBegin(c) PROVE IInv'
<1>1. CASE Return(c)
  BY Zenon, <1>1, ErrorReturn DEF LoadGenesisBegin, IInv, TypeOK
<1>2. CASE /\ network \in {NoNetwork, Genesis[Proc[c]]}
           /\ snap' = [snap EXCEPT ![c] = [next |-> next, network |-> network]]
           /\ Goto(c, "gwrite") /\ UNCHANGED <<lock, round, inner>>
  <2>1. [next |-> next, network |-> network] \in Snapshots
    BY Zenon DEF IInv, TypeOK, Snapshots
  <2>2. TypeOK'
    BY Zenon, <1>2, <2>1, GotoType DEF IInv, TypeOK, LoadGenesisBegin, EnsurePcs
  <2>3. /\ pc'[c] = "gwrite" /\ snap'[c].network = network
        /\ \A d \in Callers \ {c} : pc'[d] = pc[d] /\ snap'[d] = snap[d]
    BY Zenon, <1>2 DEF IInv, TypeOK, Goto
  <2>4. Checked'
    BY <1>2, <2>3 DEF IInv, Checked, LoadGenesisBegin
  <2>5. RowLock'
    BY Zenon, <1>2, <2>3 DEF IInv, RowLock, RowHolders, LoadGenesisBegin
  <2>6. Goroutine'
    BY Zenon, <1>2, <2>3 DEF IInv, Goroutine, LoadGenesisBegin
  <2> QED BY Zenon, <2>2, <2>4, <2>5, <2>6, DbFrame, AckFrame DEF IInv, LoadGenesisBegin
<1> QED BY Zenon, <1>1, <1>2 DEF LoadGenesisBegin

(* c moves to a label that the invariant says nothing about. *)
LEMMA QuietMove ==
    ASSUME IInv, NEW c \in Callers, TypeOK',
           pc'[c] \in {"ensure", "gbegin", "lock", "begin", "check"}, inner'[c] = "none",
           \A d \in Callers \ {c} : /\ pc'[d] = pc[d] /\ inner'[d] = inner[d]
                                    /\ round'[d] = round[d] /\ snap'[d] = snap[d],
           UNCHANGED <<next, network, accounts, headers, accounted, txns,
                       ensured, acked, horizon>>
    PROVE  IInv'
<1>1. Checked'
  BY DEF IInv, Checked
<1>2. RowLock'
  BY Zenon DEF IInv, RowLock, RowHolders
<1>3. Goroutine'
  BY DEF IInv, Goroutine
<1> QED BY Zenon, <1>1, <1>2, <1>3, DbFrame, AckFrame DEF IInv

LEMMA GotoOthers ==
    ASSUME TypeOK, NEW c \in Callers, NEW label, Goto(c, label)
    PROVE  pc'[c] = label /\ \A d \in Callers \ {c} : pc'[d] = pc[d]
BY Zenon DEF TypeOK, Goto

LEMMA CallEnsureStep ==
    ASSUME IInv, NEW c \in Callers, CallEnsure(c) PROVE IInv'
<1>1. TypeOK'
  BY Zenon, GotoType DEF IInv, TypeOK, CallEnsure, EnsurePcs
<1>2. inner[c] = "none"
  BY Zenon DEF IInv, Goroutine, CallEnsure
<1> QED BY Zenon, <1>1, <1>2, GotoOthers, QuietMove DEF IInv, CallEnsure

LEMMA EnsureInitialImportStep ==
    ASSUME IInv, NEW c \in Callers, EnsureInitialImport(c) PROVE IInv'
<1>1. TypeOK'
  BY Zenon, GotoType DEF IInv, TypeOK, EnsureInitialImport, EnsurePcs
<1>2. inner[c] = "none"
  BY Zenon DEF IInv, Goroutine, EnsureInitialImport
<1>3. CASE next = NotInitialized
  BY Zenon, <1>1, <1>2, <1>3, GotoOthers, QuietMove DEF IInv, EnsureInitialImport
<1>4. CASE next # NotInitialized
  <2>1. pc'[c] = "hash" /\ \A d \in Callers \ {c} : pc'[d] = pc[d]
    BY Zenon, <1>4, GotoOthers DEF IInv, EnsureInitialImport
  <2>2. Checked'
    BY Zenon, <1>4, <2>1 DEF IInv, Checked, EnsureInitialImport
  <2>3. RowLock'
    BY Zenon, <2>1 DEF IInv, RowLock, RowHolders, EnsureInitialImport
  <2>4. Goroutine'
    BY Zenon, <1>2, <2>1 DEF IInv, Goroutine, EnsureInitialImport
  <2> QED BY Zenon, <1>1, <2>2, <2>3, <2>4, DbFrame, AckFrame DEF IInv, EnsureInitialImport
<1> QED BY Zenon, <1>3, <1>4

LEMMA CheckGenesisHashStep ==
    ASSUME IInv, NEW c \in Callers, CheckGenesisHash(c) PROVE IInv'
<1>1. CASE Return(c)
  <2>1. TypeOK'
    BY Zenon, <1>1, ReturnType DEF IInv, TypeOK, CheckGenesisHash
  <2>2. EnsuredNetwork'
    BY Zenon, <1>1 DEF IInv, EnsuredNetwork, CheckGenesisHash, Return, Goto
  <2>3. AcknowledgedOnce'
    BY Zenon DEF IInv, AcknowledgedOnce, CheckGenesisHash
  <2> QED BY Zenon, <1>1, <2>1, <2>2, <2>3, ReturnLocal, DbFrame DEF IInv, CheckGenesisHash
<1>2. CASE /\ network = NoNetwork /\ Goto(c, "setnet")
           /\ UNCHANGED <<lock, round, snap, inner, ensured>>
  <2>1. TypeOK'
    BY Zenon, <1>2, GotoType DEF IInv, TypeOK, CheckGenesisHash, EnsurePcs
  <2>2. pc'[c] = "setnet" /\ \A d \in Callers \ {c} : pc'[d] = pc[d]
    BY Zenon, <1>2, GotoOthers DEF IInv
  <2>3. next # NotInitialized /\ LegacyRounds # {} /\ inner[c] = "none"
    BY Zenon, <1>2 DEF IInv, GenesisLoaded, Checked, Goroutine, CheckGenesisHash
  <2>4. Checked'
    BY Zenon, <1>2, <2>2, <2>3 DEF IInv, Checked, CheckGenesisHash
  <2>5. RowLock'
    BY Zenon, <1>2, <2>2 DEF IInv, RowLock, RowHolders, CheckGenesisHash
  <2>6. Goroutine'
    BY Zenon, <1>2, <2>2, <2>3 DEF IInv, Goroutine, CheckGenesisHash
  <2> QED BY Zenon, <1>2, <2>1, <2>4, <2>5, <2>6, DbFrame, AckFrame DEF IInv, CheckGenesisHash
<1> QED BY Zenon, <1>1, <1>2 DEF CheckGenesisHash

LEMMA SetNetworkStateStep ==
    ASSUME IInv, NEW c \in Callers, SetNetworkState(c) PROVE IInv'
<1>1. /\ next # NotInitialized
      /\ \A p \in Procs : Genesis[p] = Genesis[Proc[c]]
      /\ Proc[c] \in Procs /\ Genesis[Proc[c]] \in Nets
  BY Zenon, ProcAssumption, LegacyAssumption DEF IInv, Checked, SetNetworkState
<1>2. TypeOK'
  BY Zenon, <1>1, ReturnType DEF IInv, TypeOK, SetNetworkState
<1>3. network \in {NoNetwork, Genesis[Proc[c]]}
  BY Zenon, <1>1 DEF IInv, GenesisLoaded
<1>4. GenesisLoaded'
  BY Zenon, <1>1, <1>3, BoundsAssumption DEF IInv, TypeOK, GenesisLoaded, SetNetworkState
<1>5. EnsuredNetwork'
  BY Zenon, <1>1, ProcAssumption DEF IInv, TypeOK, EnsuredNetwork, SetNetworkState
<1>6. (AccountedExactlyOnce /\ TxnsNeverBehind /\ TxnsAheadByOne /\ AcknowledgedOnce)'
  BY Zenon DEF IInv, AccountedExactlyOnce, TxnsNeverBehind, TxnsAheadByOne, AcknowledgedOnce,
         SetNetworkState
<1> QED BY Zenon, <1>2, <1>4, <1>5, <1>6, ReturnLocal DEF IInv, SetNetworkState

LEMMA LoadGenesisWriteStep ==
    ASSUME IInv, NEW c \in Callers, LoadGenesisWrite(c) PROVE IInv'
<1>1. CASE Return(c)
  BY Zenon, <1>1, ErrorReturn DEF LoadGenesisWrite, IInv, TypeOK
<1>2. inner[c] = "none"
  BY Zenon DEF IInv, Goroutine, LoadGenesisWrite
<1>3. CASE Goto(c, "gbegin") /\ UNCHANGED <<lock, round, snap, inner>>
  <2>1. TypeOK'
    BY Zenon, <1>3, GotoType DEF IInv, TypeOK, LoadGenesisWrite, EnsurePcs
  <2> QED BY Zenon, <1>2, <1>3, <2>1, GotoOthers, QuietMove DEF IInv, LoadGenesisWrite
<1>4. CASE /\ accounts \cap Allocation[Genesis[Proc[c]]] = {}
           /\ RowFree
           /\ snap[c] = [next |-> next, network |-> network]
           /\ Goto(c, "gcommit") /\ UNCHANGED <<lock, round, snap, inner>>
  <2>1. TypeOK'
    BY Zenon, <1>4, GotoType DEF IInv, TypeOK, LoadGenesisWrite, EnsurePcs
  <2>2. pc'[c] = "gcommit" /\ \A d \in Callers \ {c} : pc'[d] = pc[d]
    BY Zenon, <1>4, GotoOthers DEF IInv
  <2>3. network \in {NoNetwork, Genesis[Proc[c]]}
    BY <1>4 DEF IInv, Checked, LoadGenesisWrite
  <2>4. next = NotInitialized
    BY Zenon, <1>4, <2>3, ProcAssumption DEF IInv, GenesisLoaded
  <2>5. Checked'
    BY Zenon, <1>4, <2>2 DEF IInv, Checked, LoadGenesisWrite
  <2>6. RowLock'
    BY Zenon, <1>4, <2>2, <2>4 DEF IInv, RowLock, RowHolders, RowFree, LoadGenesisWrite
  <2>7. Goroutine'
    BY Zenon, <1>2, <1>4, <2>2 DEF IInv, Goroutine, LoadGenesisWrite
  <2> QED BY Zenon, <1>4, <2>1, <2>5, <2>6, <2>7, DbFrame, AckFrame DEF IInv, LoadGenesisWrite
<1> QED BY Zenon, <1>1, <1>3, <1>4 DEF LoadGenesisWrite

LEMMA LoadGenesisCommitStep ==
    ASSUME IInv, NEW c \in Callers, LoadGenesisCommit(c) PROVE IInv'
<1>1. /\ next = NotInitialized /\ accounts = {} /\ network = NoNetwork /\ txns = {}
      /\ horizon = 0 /\ headers = {} /\ accounted = <<>>
  BY Zenon DEF IInv, RowLock, GenesisLoaded, AccountedExactlyOnce, LoadGenesisCommit
<1>2. /\ next' = 0 /\ network' = Genesis[Proc[c]]
      /\ accounts' = Allocation[Genesis[Proc[c]]]
      /\ txns' = {} /\ horizon' = 0 /\ headers' = {} /\ accounted' = <<>>
  BY Zenon, <1>1 DEF LoadGenesisCommit
<1>3. Proc[c] \in Procs /\ Genesis[Proc[c]] \in Nets
  BY Zenon, ProcAssumption
<1>4. /\ Allocation[Genesis[Proc[c]]] \subseteq Addrs
      /\ Allocation[Genesis[Proc[c]]] # {}
  BY Zenon, <1>3, AllocationAssumption
<1>5. TypeOK'
  BY Zenon, <1>2, <1>3, <1>4, ReturnType, FaultType DEF IInv, TypeOK, LoadGenesisCommit
<1>6. GenesisLoaded'
  <2>1. \A p \in Procs : network' \in {NoNetwork, Genesis[p]} =>
                           accounts' \cap Allocation[Genesis[p]] # {}
    BY Zenon, <1>2, <1>3, <1>4, BoundsAssumption
  <2> QED BY <1>2, <1>3, <2>1, BoundsAssumption DEF GenesisLoaded, NotInitialized
<1>7. AccountedExactlyOnce'
  BY <1>2 DEF AccountedExactlyOnce, NotInitialized
<1>8. (TxnsNeverBehind /\ TxnsAheadByOne)'
  BY <1>2, BoundsAssumption DEF TxnsNeverBehind, TxnsAheadByOne
<1>9. AcknowledgedOnce'
  BY Zenon, <1>1, <1>2 DEF IInv, AcknowledgedOnce, LoadGenesisCommit
<1>10. EnsuredNetwork'
  <2>1. ensured = {}
    BY <1>1, ProcAssumption, BoundsAssumption DEF IInv, TypeOK, EnsuredNetwork
  <2> QED BY Zenon, <1>2, <2>1 DEF EnsuredNetwork, LoadGenesisCommit
<1>11. (Checked /\ RowLock /\ Goroutine)'
  <2>1. /\ pc'[c] = "idle" /\ inner'[c] = "none"
        /\ \A d \in Callers \ {c} : /\ pc'[d] = pc[d] /\ inner'[d] = inner[d]
                                    /\ round'[d] = round[d] /\ snap'[d] = snap[d]
    BY Zenon DEF IInv, TypeOK, LoadGenesisCommit, Return, Goto
  <2>2. \A d \in Callers \ {c} : pc[d] \notin RowHolders
    BY Zenon DEF IInv, RowLock, RowHolders, LoadGenesisCommit
  <2>3. Checked'
    <3>1. Checked /\ next' # NotInitialized
      BY <1>2 DEF IInv, NotInitialized
    <3>2. \A d \in Callers : pc'[d] \in {"hash", "setnet"} => next' # NotInitialized
      BY Zenon, <3>1
    <3>3. \A d \in Callers \ {c} :
            /\ pc'[d] = "setnet" => LegacyRounds # {}
            /\ pc'[d] = "upsert" => snap'[d].next = round'[d]
            /\ pc'[d] = "gwrite" => snap'[d].network \in {NoNetwork, Genesis[Proc[d]]}
      BY <2>1, <3>1 DEF Checked
    <3> QED BY Zenon, <2>1, <3>2, <3>3 DEF Checked
  <2>4. RowLock'
    BY Zenon, <2>1, <2>2 DEF RowLock, RowHolders
  <2>5. \A d \in Callers : inner[d] = "none"
    BY Zenon, <1>1 DEF IInv, Goroutine
  <2>6. Goroutine'
    BY Zenon, <2>1, <2>2, <2>5 DEF Goroutine, RowHolders
  <2> QED BY Zenon, <2>3, <2>4, <2>6
<1> QED BY Zenon, <1>5, <1>6, <1>7, <1>8, <1>9, <1>10, <1>11 DEF IInv

-----------------------------------------------------------------------------
(* The steps of AddBlock, of its goroutine and of DeleteTransactions. *)
LEMMA CallAddBlockStep ==
    ASSUME IInv, NEW c \in Callers, NEW r \in Rounds, CallAddBlock(c, r) PROVE IInv'
<1>1. TypeOK'
  BY Zenon, GotoType DEF IInv, TypeOK, CallAddBlock, AddPcs
<1>2. inner[c] = "none" /\ \A d \in Callers \ {c} : round'[d] = round[d]
  BY Zenon DEF IInv, TypeOK, Goroutine, CallAddBlock
<1> QED BY Zenon, <1>1, <1>2, GotoOthers, QuietMove DEF IInv, CallAddBlock

LEMMA AccountingLockStep ==
    ASSUME IInv, NEW c \in Callers, AccountingLock(c) PROVE IInv'
<1>1. TypeOK'
  BY Zenon, GotoType, ProcAssumption DEF IInv, TypeOK, AccountingLock, AddPcs
<1>2. inner[c] = "none"
  BY Zenon DEF IInv, Goroutine, AccountingLock
<1> QED BY Zenon, <1>1, <1>2, GotoOthers, QuietMove DEF IInv, AccountingLock

LEMMA BeginTxStep ==
    ASSUME IInv, NEW c \in Callers, BeginTx(c) PROVE IInv'
<1>1. [next |-> next, network |-> network] \in Snapshots
  BY Zenon DEF IInv, TypeOK, Snapshots
<1>2. TypeOK'
  BY Zenon, <1>1, GotoType DEF IInv, TypeOK, BeginTx, AddPcs
<1>3. inner[c] = "none" /\ \A d \in Callers \ {c} : snap'[d] = snap[d]
  BY Zenon DEF IInv, TypeOK, Goroutine, BeginTx
<1> QED BY <1>2, <1>3, GotoOthers, QuietMove DEF IInv, BeginTx

LEMMA SerializationFailureStep ==
    ASSUME IInv, NEW c \in Callers, SerializationFailure(c) PROVE IInv'
<1>1. PICK label \in {"begin", "gbegin"} : Goto(c, label)
  BY Zenon DEF SerializationFailure
<1>2. TypeOK'
  BY Zenon, <1>1, GotoType, FaultType DEF IInv, TypeOK, SerializationFailure, AddPcs, EnsurePcs
<1>3. inner[c] = "none"
  BY Zenon DEF IInv, Goroutine, SerializationFailure
<1> QED BY Zenon, <1>1, <1>2, <1>3, GotoOthers, QuietMove DEF IInv, SerializationFailure

LEMMA SetImportStateStep ==
    ASSUME IInv, NEW c \in Callers, SetImportState(c) PROVE IInv'
<1>1. inner[c] = "none"
  BY Zenon DEF IInv, Goroutine, SetImportState
<1>2. CASE next # snap[c].next /\ Goto(c, "begin") /\ UNCHANGED inner
  <2>1. TypeOK'
    BY Zenon, <1>2, GotoType DEF IInv, TypeOK, SetImportState, AddPcs
  <2> QED BY Zenon, <1>1, <1>2, <2>1, GotoOthers, QuietMove DEF IInv, SetImportState
<1>3. CASE /\ next = snap[c].next /\ Goto(c, "write")
           /\ inner' = [inner EXCEPT ![c] = IF round[c] = 0 THEN "none" ELSE "spawned"]
  <2>1. TypeOK'
    BY Zenon, <1>3, GotoType DEF IInv, TypeOK, SetImportState, AddPcs, InnerDone
  <2>2. /\ pc'[c] = "write"
        /\ inner'[c] = IF round[c] = 0 THEN "none" ELSE "spawned"
        /\ \A d \in Callers \ {c} : pc'[d] = pc[d] /\ inner'[d] = inner[d]
    BY Zenon, <1>3, GotoOthers DEF IInv, TypeOK
  <2>3. round[c] = next /\ round[c] \in Nat
    BY <1>3 DEF IInv, TypeOK, Checked, SetImportState, Rounds
  <2>4. Checked'
    BY Zenon, <2>2 DEF IInv, Checked, SetImportState
  <2>5. RowLock'
    BY Zenon, <2>2, <2>3 DEF IInv, RowLock, RowHolders, RowFree, SetImportState
  <2>6. Goroutine'
    BY <2>2, <2>3 DEF IInv, Goroutine, SetImportState, NotInitialized
  <2> QED BY Zenon, <2>1, <2>4, <2>5, <2>6, DbFrame, AckFrame DEF IInv, SetImportState
<1> QED BY Zenon, <1>2, <1>3 DEF SetImportState

LEMMA WriterAddBlockStep ==
    ASSUME IInv, NEW c \in Callers, WriterAddBlock(c) PROVE IInv'
<1>1. PICK label \in {"wait", "redo", "fail"} : Goto(c, label)
  BY Zenon DEF WriterAddBlock
<1>2. pc'[c] = label /\ \A d \in Callers \ {c} : pc'[d] = pc[d]
  BY Zenon, <1>1, GotoOthers DEF IInv
<1>3. faults' \in 0 .. MaxFaults
  BY Zenon, FaultType DEF WriterAddBlock, IInv, TypeOK
<1>4. TypeOK'
  BY Zenon, <1>1, <1>3, GotoType DEF IInv, TypeOK, WriterAddBlock, AddPcs
<1>5. Checked'
  BY Zenon, <1>2 DEF IInv, Checked, WriterAddBlock
<1>6. RowLock'
  BY Zenon, <1>2 DEF IInv, RowLock, RowHolders, WriterAddBlock
<1>7. Goroutine'
  BY Zenon, <1>2 DEF IInv, Goroutine, WriterAddBlock
<1> QED BY Zenon, <1>4, <1>5, <1>6, <1>7, DbFrame, AckFrame DEF IInv, WriterAddBlock

LEMMA WaitInnerStep ==
    ASSUME IInv, NEW c \in Callers, WaitInner(c) PROVE IInv'
<1>1. CASE Return(c)
  BY Zenon, <1>1, ErrorReturn DEF WaitInner, IInv, TypeOK
<1>2. CASE /\ pc[c] = "redo" /\ Goto(c, "begin")
           /\ inner' = [inner EXCEPT ![c] = "none"] /\ UNCHANGED <<lock, round, snap>>
  <2>1. TypeOK'
    BY Zenon, <1>2, GotoType DEF IInv, TypeOK, WaitInner, AddPcs, InnerDone
  <2>2. inner'[c] = "none" /\ \A d \in Callers \ {c} : inner'[d] = inner[d]
    BY Zenon, <1>2 DEF IInv, TypeOK
  <2> QED BY <1>2, <2>1, <2>2, GotoOthers, QuietMove DEF IInv, WaitInner
<1>3. CASE /\ pc[c] = "wait" /\ inner[c] # "err" /\ Goto(c, "commit")
           /\ UNCHANGED <<lock, round, snap, inner>>
  <2>1. pc'[c] = "commit" /\ \A d \in Callers \ {c} : pc'[d] = pc[d]
    BY Zenon, <1>3, GotoOthers DEF IInv
  <2>2. TypeOK'
    BY Zenon, <1>3, GotoType DEF IInv, TypeOK, WaitInner, AddPcs
  <2>3. Checked'
    BY Zenon, <1>3, <2>1 DEF IInv, Checked, WaitInner
  <2>4. RowLock'
    BY Zenon, <1>3, <2>1 DEF IInv, RowLock, RowHolders, WaitInner
  <2>5. Goroutine'
    BY Zenon, <1>3, <2>1 DEF IInv, Goroutine, WaitInner, InnerDone
  <2> QED BY Zenon, <1>3, <2>2, <2>3, <2>4, <2>5, DbFrame, AckFrame DEF IInv, WaitInner
<1> QED BY Zenon, <1>1, <1>2, <1>3 DEF WaitInner

(* The commit appends the next round to the accounted prefix. *)
LEMMA AppendPrefix ==
    ASSUME NEW n \in Nat
    PROVE  Append([i \in 1 .. n |-> i - 1], n) = [i \in 1 .. n + 1 |-> i - 1]
<1> DEFINE s == [i \in 1 .. n |-> i - 1]
<1>1. s \in Seq(Int) /\ Len(s) = n
  OBVIOUS
<1>2. /\ Append(s, n) \in Seq(Int) /\ Len(Append(s, n)) = n + 1
      /\ \A i \in 1 .. n + 1 : Append(s, n)[i] = i - 1
  BY <1>1
<1> QED BY <1>2

LEMMA CommitTxStep ==
    ASSUME IInv, NEW c \in Callers, CommitTx(c) PROVE IInv'
<1>1. CASE Fault /\ Return(c) /\ UNCHANGED <<next, headers, accounted, acked>>
  BY Zenon, <1>1, ErrorReturn, FaultType DEF CommitTx, IInv
<1>2. CASE /\ Fault /\ Goto(c, "begin") /\ inner' = [inner EXCEPT ![c] = "none"]
           /\ UNCHANGED <<next, headers, accounted, lock, round, snap, acked>>
  <2>1. TypeOK'
    BY Zenon, <1>2, GotoType, FaultType DEF IInv, TypeOK, CommitTx, AddPcs, InnerDone
  <2>2. inner'[c] = "none" /\ \A d \in Callers \ {c} : inner'[d] = inner[d]
    BY Zenon, <1>2 DEF IInv, TypeOK
  <2> QED BY <1>2, <2>1, <2>2, GotoOthers, QuietMove DEF IInv, CommitTx
<1>3. CASE /\ Apply(c) /\ Return(c) /\ faults' \in 0 .. MaxFaults
           /\ \/ acked' = [acked EXCEPT ![c] = @ \cup {round[c]}]
              \/ acked' = acked
  <2>1. round[c] = next /\ next \in Nat /\ round[c] \in Rounds
    BY BoundsAssumption, SMTT(60) DEF IInv, TypeOK, RowLock, CommitTx, Rounds
  <2>2. /\ next' = next + 1 /\ headers' = headers \cup {next}
        /\ accounted' = Append(accounted, next)
        /\ UNCHANGED <<network, accounts, txns, oldest, ensured, horizon>>
    BY Zenon, <1>3, <2>1 DEF Apply, CommitTx
  <2>3. next # NotInitialized /\ next' # NotInitialized
    BY <2>1, <2>2 DEF NotInitialized
  <2>4. TypeOK'
    <3>1. accounted' \in Seq(Nat) /\ headers' \subseteq Nat /\ next' \in Nat
      BY <2>1, <2>2 DEF IInv, TypeOK
    <3>2. acked' \in [Callers -> SUBSET Rounds]
      BY <1>3, <2>1 DEF IInv, TypeOK
    <3> QED BY Zenon, <1>3, <2>2, <3>1, <3>2, ReturnType DEF IInv, TypeOK
  <2>5. GenesisLoaded'
    BY <2>1, <2>2, <2>3, SMTT(60) DEF IInv, TypeOK, GenesisLoaded
  <2>6. AccountedExactlyOnce'
    <3>1. accounted' = [i \in 1 .. next' |-> i - 1]
      BY Zenon, <2>1, <2>2, <2>3, AppendPrefix DEF IInv, AccountedExactlyOnce
    <3>2. headers' = 0 .. next' - 1
      BY <2>1, <2>2, <2>3 DEF IInv, AccountedExactlyOnce
    <3> QED BY Zenon, <2>3, <3>1, <3>2 DEF AccountedExactlyOnce
  <2>7. TxnsNeverBehind'
    <3>1. next \in NonEmpty /\ 1 <= next => next \in txns
      BY <2>1, SMTT(60) DEF IInv, Goroutine, CommitTx
    <3> QED BY <2>1, <2>2, <2>3, <3>1, BoundsAssumption DEF IInv, TxnsNeverBehind
  <2>8. TxnsAheadByOne'
    BY <2>1, <2>2, <2>3 DEF IInv, TypeOK, TxnsAheadByOne
  <2>9. AcknowledgedOnce'
    <3>1. \A d \in Callers : next \notin acked[d]
      BY <2>1, <2>3, SMTT(60) DEF IInv, AcknowledgedOnce, AccountedExactlyOnce
    <3> QED BY <1>3, <2>1, <2>2, <3>1, SMTT(60) DEF IInv, TypeOK, AcknowledgedOnce
  <2>10. EnsuredNetwork'
    BY Zenon, <2>2 DEF IInv, EnsuredNetwork
  <2>11. /\ pc'[c] = "idle" /\ inner'[c] = "none"
         /\ \A d \in Callers \ {c} : /\ pc'[d] = pc[d] /\ inner'[d] = inner[d]
                                     /\ round'[d] = round[d] /\ snap'[d] = snap[d]
    BY Zenon, <1>3 DEF IInv, TypeOK, Return, Goto
  <2>12. \A d \in Callers \ {c} : pc[d] \notin RowHolders
    BY Zenon DEF IInv, RowLock, RowHolders, CommitTx
  <2>13. Checked'
    BY Zenon, <2>3, <2>11 DEF IInv, Checked
  <2>14. RowLock'
    BY Zenon, <2>11, <2>12 DEF RowLock, RowHolders
  <2>15. Goroutine'
    <3>1. ASSUME NEW d \in Callers \ {c}
          PROVE  /\ inner'[d] # "none" =>
                      /\ pc'[d] \in {"write", "wait", "redo", "fail", "commit"}
                      /\ 1 <= round'[d] /\ round'[d] <= next
                 /\ pc'[d] \notin {"write", "wait", "commit"}
      BY Zenon, <2>3, <2>11, <2>12 DEF IInv, Goroutine, RowHolders
    <3>2. \A d \in Callers : round[d] \in Nat
      BY BoundsAssumption DEF IInv, TypeOK, Rounds
    <3>3. \A d \in Callers \ {c} : round'[d] <= next => round'[d] <= next'
      BY <2>1, <2>2, <2>11, <3>2
    <3> QED BY Zenon, <2>3, <2>11, <3>1, <3>3 DEF Goroutine
  <2> QED BY Zenon, <2>4, <2>5, <2>6, <2>7, <2>8, <2>9, <2>10, <2>13, <2>14, <2>15 DEF IInv
<1>4. UNCHANGED faults => faults' \in 0 .. MaxFaults
  BY Zenon DEF IInv, TypeOK
<1> QED BY Zenon, <1>1, <1>2, <1>3, <1>4, FaultType DEF CommitTx, IInv

(* Steps of the goroutine leave everything but inner and txns alone. *)
LEMMA InnerMove ==
    ASSUME IInv, NEW c \in Callers, inner[c] # "none",
           NEW st \in {"spawned", "open", "copied", "ok", "unique", "err"},
           inner' = [inner EXCEPT ![c] = st],
           pc[c] = "commit" => st \in {"ok", "unique"},
           (st \in {"ok", "unique"} /\ round[c] \in NonEmpty) => round[c] \in txns',
           txns \subseteq txns', UNCHANGED <<next, network, pc, round, snap>>
    PROVE  (Checked /\ RowLock /\ Goroutine)'
<1>1. inner'[c] = st /\ \A d \in Callers \ {c} : inner'[d] = inner[d]
  BY Zenon DEF IInv, TypeOK
<1>2. Checked'
  BY Zenon DEF IInv, Checked
<1>3. RowLock'
  BY Zenon DEF IInv, RowLock
<1>4. Goroutine'
  BY Zenon, <1>1 DEF IInv, Goroutine
<1> QED BY Zenon, <1>2, <1>3, <1>4

LEMMA InnerBeginStep ==
    ASSUME IInv, NEW c \in Callers, InnerBegin(c) PROVE IInv'
<1>1. TypeOK'
  BY Zenon DEF IInv, TypeOK, InnerBegin, InnerOpen
<1>2. pc[c] # "commit"
  BY Zenon DEF IInv, Goroutine, InnerBegin
<1> QED BY Zenon, <1>1, <1>2, InnerMove, DbFrame, AckFrame DEF IInv, InnerBegin

LEMMA InnerCopyStep ==
    ASSUME IInv, NEW c \in Callers, InnerCopy(c) PROVE IInv'
<1>1. TypeOK'
  BY Zenon DEF IInv, TypeOK, InnerCopy, InnerOpen, InnerDone
<1>2. pc[c] # "commit"
  BY Zenon DEF IInv, Goroutine, InnerCopy
<1>3. PICK st \in {"unique", "copied"} :
        /\ inner' = [inner EXCEPT ![c] = st]
        /\ st = "unique" => round[c] \in txns
  BY Zenon DEF InnerCopy
<1>4. (Checked /\ RowLock /\ Goroutine)'
  BY Zenon, <1>2, <1>3, InnerMove DEF InnerCopy
<1> QED BY Zenon, <1>1, <1>4, DbFrame, AckFrame DEF IInv, InnerCopy

LEMMA InnerCommitStep ==
    ASSUME IInv, NEW c \in Callers, InnerCommit(c) PROVE IInv'
<1>1. 1 <= round[c] /\ round[c] <= next /\ next # NotInitialized /\ round[c] \in Nat
  BY BoundsAssumption, SMTT(60) DEF IInv, TypeOK, Goroutine, InnerCommit, Rounds
<1>2. TypeOK'
  BY Zenon, <1>1 DEF IInv, TypeOK, InnerCommit, InnerDone
<1>3. GenesisLoaded'
  <2>1. txns' \subseteq NonEmpty \ {0}
    <3>1. txns \subseteq NonEmpty \ {0} /\ round[c] # 0
      BY <1>1, SMTT(60) DEF IInv, GenesisLoaded
    <3>2. txns' = txns \cup ({round[c]} \cap NonEmpty)
      BY Zenon DEF InnerCommit
    <3> QED BY Zenon, <3>1, <3>2
  <2> QED BY Zenon, <1>1, <2>1 DEF IInv, GenesisLoaded, InnerCommit
<1>4. TxnsNeverBehind' /\ AccountedExactlyOnce'
  BY Zenon DEF IInv, TxnsNeverBehind, AccountedExactlyOnce, InnerCommit
<1>5. TxnsAheadByOne'
  BY Zenon, <1>1 DEF IInv, TxnsAheadByOne, InnerCommit
<1>6. (Checked /\ RowLock /\ Goroutine)'
  BY Zenon, InnerMove DEF InnerCommit
<1> QED BY Zenon, <1>2, <1>3, <1>4, <1>5, <1>6, AckFrame DEF IInv, InnerCommit

LEMMA InnerFailStep ==
    ASSUME IInv, NEW c \in Callers, InnerFail(c) PROVE IInv'
<1>1. PICK e \in {"spawned", "err"} : inner' = [inner EXCEPT ![c] = e]
  BY Zenon DEF InnerFail
<1>2. TypeOK'
  BY Zenon, <1>1, FaultType DEF IInv, TypeOK, InnerFail, InnerDone
<1>3. pc[c] # "commit"
  BY Zenon DEF IInv, Goroutine, InnerFail, InnerOpen
<1>4. (Checked /\ RowLock /\ Goroutine)'
  BY Zenon, <1>1, <1>3, InnerMove DEF InnerFail, InnerOpen
<1> QED BY Zenon, <1>2, <1>4, DbFrame, AckFrame DEF IInv, InnerFail

LEMMA DeleteTransactionsStep ==
    ASSUME IInv, NEW c \in Callers, NEW keep \in Nat, DeleteTransactions(c, keep)
    PROVE  IInv'
<1>1. /\ next # NotInitialized /\ keep <= next /\ next \in Nat
      /\ txns' = {r \in txns : r >= keep}
      /\ horizon' = IF keep > horizon THEN keep ELSE horizon
  BY Zenon DEF IInv, TypeOK, DeleteTransactions
<1>2. TypeOK'
  BY Zenon, <1>1 DEF IInv, TypeOK, DeleteTransactions
<1>3. GenesisLoaded'
  BY Zenon, <1>1 DEF IInv, TypeOK, GenesisLoaded, DeleteTransactions
<1>4. TxnsNeverBehind'
  BY <1>1, BoundsAssumption, SMTT(60) DEF IInv, TypeOK, TxnsNeverBehind, DeleteTransactions
<1>5. TxnsAheadByOne' /\ AccountedExactlyOnce'
  BY Zenon, <1>1 DEF IInv, TxnsAheadByOne, AccountedExactlyOnce, DeleteTransactions
<1>6. Checked' /\ RowLock'
  BY Zenon DEF IInv, Checked, RowLock, DeleteTransactions
<1>7. Goroutine'
  BY Zenon, <1>1 DEF IInv, RowLock, Goroutine, DeleteTransactions
<1> QED BY Zenon, <1>2, <1>3, <1>4, <1>5, <1>6, <1>7, AckFrame DEF IInv, DeleteTransactions

LEMMA CrashStep ==
    ASSUME IInv, NEW p \in Procs, Crash(p) PROVE IInv'
<1>1. NoSnapshot \in Snapshots /\ 0 \in Rounds
  BY BoundsAssumption DEF NoSnapshot, Snapshots, Rounds
<1>2. TypeOK'
  BY Zenon, <1>1, FaultType DEF IInv, TypeOK, Crash, InnerDone
<1>3. \A d \in Callers :
        \/ pc'[d] = "idle" /\ inner'[d] = "none"
        \/ /\ pc'[d] = pc[d] /\ inner'[d] = inner[d]
           /\ round'[d] = round[d] /\ snap'[d] = snap[d]
  BY Zenon DEF Crash
<1>4. Checked'
  BY Zenon, <1>3 DEF IInv, Checked, Crash
<1>5. RowLock'
  BY Zenon, <1>3 DEF IInv, RowLock, RowHolders, Crash
<1>6. Goroutine'
  BY Zenon, <1>3 DEF IInv, Goroutine, Crash
<1> QED BY Zenon, <1>2, <1>4, <1>5, <1>6, DbFrame, AckFrame DEF IInv, Crash

-----------------------------------------------------------------------------
LEMMA InitInv == Init => IInv
<1> SUFFICES ASSUME Init PROVE IInv
  BY Zenon
<1>1. /\ pc = [c \in Callers |-> "idle"] /\ inner = [c \in Callers |-> "none"]
      /\ ensured = {} /\ acked = [c \in Callers |-> {}]
  BY Zenon DEF Init
<1>2. Checked /\ RowLock /\ Goroutine /\ AcknowledgedOnce /\ EnsuredNetwork
  BY Zenon, <1>1 DEF Checked, RowLock, RowHolders, Goroutine, AcknowledgedOnce, EnsuredNetwork
<1>3. /\ lock \in [Procs -> Callers \cup {None}]
      /\ pc \in [Callers -> {"idle"} \cup EnsurePcs \cup AddPcs]
      /\ round \in [Callers -> Rounds] /\ snap \in [Callers -> Snapshots]
      /\ inner \in [Callers -> {"spawned"} \cup InnerOpen \cup InnerDone]
      /\ ensured \subseteq Callers /\ acked \in [Callers -> SUBSET Rounds]
      /\ oldest \in Nat /\ horizon \in Nat
      /\ faults \in 0 .. MaxFaults /\ network \in Nets \cup {NoNetwork}
  BY BoundsAssumption DEF Init, Rounds, Snapshots, NoSnapshot, InnerDone
<1>4. CASE /\ next = NotInitialized
           /\ accounts = {} /\ headers = {} /\ accounted = <<>> /\ txns = {}
  BY <1>2, <1>3, <1>4 DEF Init, IInv, TypeOK, GenesisLoaded, AccountedExactlyOnce,
                          TxnsNeverBehind, TxnsAheadByOne
<1>5. ASSUME NEW n \in LegacyRounds, NEW p \in Procs, next = n,
             accounts = Allocation[Genesis[p]], headers = 0 .. n - 1,
             accounted = [i \in 1 .. n |-> i - 1],
             txns = {r \in NonEmpty : 1 <= r /\ r < n}
      PROVE  IInv
  <2>1. n \in Nat /\ n # NotInitialized
    BY BoundsAssumption DEF NotInitialized
  <2>2. \A q \in Procs : Genesis[q] = Genesis[p]
    BY Zenon, LegacyAssumption
  <2>3. accounts \subseteq Addrs /\ accounts # {}
    BY Zenon, <1>5, ProcAssumption, AllocationAssumption
  <2>4. accounted \in Seq(Nat)
    BY <1>5, <2>1
  <2>5. TypeOK
    <3>1. next \in Nat
      BY Zenon, <1>5, <2>1
    <3>2. headers \subseteq Nat
      BY <1>5, <2>1
    <3>3. txns \subseteq Nat
      BY Zenon, <1>5, BoundsAssumption
    <3> QED BY Zenon, <1>3, <2>3, <2>4, <3>1, <3>2, <3>3 DEF TypeOK
  <2>6. GenesisLoaded
    BY <1>5, <2>1, <2>2, <2>3 DEF GenesisLoaded, Init
  <2>7. AccountedExactlyOnce /\ TxnsNeverBehind /\ TxnsAheadByOne
    BY <1>5, <2>1, BoundsAssumption DEF AccountedExactlyOnce, TxnsNeverBehind, TxnsAheadByOne
  <2> QED BY Zenon, <1>2, <2>5, <2>6, <2>7 DEF IInv
<1> QED BY Zenon, <1>4, <1>5 DEF Init

LEMMA NextInv == IInv /\ [Next]_vars => IInv'
<1> SUFFICES ASSUME IInv, [Next]_vars PROVE IInv'
  BY ZenonT(30)
<1>1. CASE UNCHANGED vars
  BY <1>1 DEF vars, IInv, TypeOK, GenesisLoaded, Checked, RowLock, Goroutine,
              AccountedExactlyOnce, TxnsNeverBehind, TxnsAheadByOne, AcknowledgedOnce,
              EnsuredNetwork, RowHolders
<1>2. ASSUME NEW c \in Callers, Call(c) PROVE IInv'
  BY <1>2, CallEnsureStep, CallAddBlockStep, CallAddBlockUnknownProtocolStep,
     DeleteTransactionsStep, BoundsAssumption DEF Call
<1>3. ASSUME NEW c \in Callers, Step(c) PROVE IInv'
  BY Zenon, <1>3, EnsureInitialImportStep, CheckGenesisHashStep, SetNetworkStateStep,
     LoadGenesisBeginStep, LoadGenesisWriteStep, LoadGenesisCommitStep,
     AccountingLockStep, BeginTxStep, CheckRoundStep, SetImportStateStep,
     WriterAddBlockStep, WaitInnerStep, CommitTxStep DEF Step
<1>4. ASSUME NEW c \in Callers, InnerStep(c) PROVE IInv'
  BY Zenon, <1>4, InnerBeginStep, InnerCopyStep, InnerCommitStep DEF InnerStep
<1> QED BY Zenon, <1>1, <1>2, <1>3, <1>4, InnerFailStep, StatementErrorStep,
           SerializationFailureStep, CrashStep DEF Next

LEMMA Invariance == Spec => []IInv
BY InitInv, NextInv, PTL DEF Spec

(* Every variable keeps its type. *)
THEOREM TypeCorrect == Spec => []TypeOK
<1>1. IInv => TypeOK
  BY Zenon DEF IInv
<1> QED BY <1>1, Invariance, PTL

(* AddBlock applies every block once, in order, for any number of callers  *)
(* and processes, whatever fails and crashes.                              *)
THEOREM BlocksAccountedExactlyOnce == Spec => []AccountedExactlyOnce
<1>1. IInv => AccountedExactlyOnce
  BY Zenon DEF IInv
<1> QED BY <1>1, Invariance, PTL

(* The claim of AddBlock's comment: txn can only be ahead but not behind. *)
THEOREM TxnsAheadNotBehind == Spec => []TxnsNeverBehind
<1>1. IInv => TxnsNeverBehind
  BY Zenon DEF IInv
<1> QED BY <1>1, Invariance, PTL

(* And by how much it can be ahead: the row lock keeps the inner           *)
(* transaction of a later round from running.                              *)
THEOREM TxnsAheadByOneRound == Spec => []TxnsAheadByOne
<1>1. IInv => TxnsAheadByOne
  BY Zenon DEF IInv
<1> QED BY <1>1, Invariance, PTL

(* AddBlock returns nil to one caller at most for a round, and only once   *)
(* the round is accounted.                                                 *)
THEOREM BlocksAcknowledgedOnce == Spec => []AcknowledgedOnce
<1>1. IInv => AcknowledgedOnce
  BY Zenon DEF IInv
<1> QED BY <1>1, Invariance, PTL

(* EnsureInitialImport lets a process through only to a database of its    *)
(* own network.                                                            *)
THEOREM EnsuredMeansSameNetwork == Spec => []EnsuredNetwork
<1>1. IInv => EnsuredNetwork
  BY Zenon DEF IInv
<1> QED BY <1>1, Invariance, PTL

(* LoadGenesis and SetNetworkState never replace a genesis hash. *)
THEOREM NetworkNeverChanges == Spec => NetworkPinned
<1>1. ASSUME IInv, [Next]_vars PROVE [network # NoNetwork => network' = network]_vars
  <2>1. ASSUME NEW c \in Callers, SetNetworkState(c), network # NoNetwork
        PROVE  network' = network
    BY Zenon, <2>1, <1>1, LegacyAssumption, ProcAssumption
       DEF IInv, GenesisLoaded, Checked, SetNetworkState
  <2>2. ASSUME NEW c \in Callers, LoadGenesisCommit(c) PROVE network = NoNetwork
    BY Zenon, <2>2, <1>1 DEF IInv, RowLock, GenesisLoaded, LoadGenesisCommit
  <2>3. CASE UNCHANGED vars
    BY Zenon, <2>3 DEF vars
  <2>4. ASSUME NEW c \in Callers, Call(c) PROVE network' = network
    BY Zenon, <2>4 DEF Call, CallEnsure, CallAddBlock, CallAddBlockUnknownProtocol,
                DeleteTransactions
  <2>5. ASSUME NEW c \in Callers, Step(c), network # NoNetwork PROVE network' = network
    BY Zenon, <2>5, <2>1, <2>2
       DEF Step, EnsureInitialImport, CheckGenesisHash, LoadGenesisBegin, LoadGenesisWrite,
           AccountingLock, BeginTx, CheckRound, SetImportState, WriterAddBlock,
           WaitInner, CommitTx
  <2>6. ASSUME NEW c \in Callers,
               InnerStep(c) \/ InnerFail(c) \/ StatementError(c) \/ SerializationFailure(c)
        PROVE  network' = network
    BY Zenon, <2>6 DEF InnerStep, InnerBegin, InnerCopy, InnerCommit, InnerFail, StatementError,
                SerializationFailure
  <2>7. ASSUME NEW p \in Procs, Crash(p) PROVE network' = network
    BY Zenon, <2>7 DEF Crash
  <2> QED BY Zenon, <1>1, <2>3, <2>4, <2>5, <2>6, <2>7 DEF Next
<1> QED BY <1>1, Invariance, PTL DEF Spec, NetworkPinned

-----------------------------------------------------------------------------
(* One importing process, which is how an indexer is deployed. *)
OneProcess == \A c, d \in Callers : Proc[c] = Proc[d]

(* AddBlock between accountingLock.Lock and the deferred Unlock. *)
Locked == {"begin", "check", "upsert", "write", "wait", "redo", "fail", "commit"}

LockHeld == \A c \in Callers : pc[c] \in Locked => lock[Proc[c]] = c

(* A goroutine that still runs works on the round the import is at. *)
AtNext == \A c \in Callers : inner[c] # "none" => round[c] = next

PruneInv == LockHeld /\ AtNext /\ PrunedStaysGone

(* A caller whose place, goroutine and round stay is no matter. *)
LEMMA OneCallerMoves ==
  ASSUME IInv, PruneInv, NEW c \in Callers,
         UNCHANGED <<next, txns, horizon>>,
         \A d \in Callers \ {c} : /\ pc'[d] = pc[d] /\ inner'[d] = inner[d]
                                  /\ round'[d] = round[d]
                                  /\ lock[Proc[d]] = d => lock'[Proc[d]] = d,
         pc'[c] \in Locked => lock'[Proc[c]] = c,
         inner'[c] # "none" => round'[c] = next
  PROVE  PruneInv'
<1>1. LockHeld'
  BY Zenon DEF PruneInv, LockHeld
<1>2. AtNext'
  BY Zenon DEF PruneInv, AtNext
<1>3. PrunedStaysGone'
  BY Zenon DEF PruneInv, PrunedStaysGone
<1> QED BY Zenon, <1>1, <1>2, <1>3 DEF PruneInv

(* What a call that returns leaves behind. *)
LEMMA ReturnLeaves ==
  ASSUME TypeOK, NEW c \in Callers, Return(c)
  PROVE  /\ pc'[c] = "idle" /\ inner'[c] = "none"
         /\ \A d \in Callers \ {c} : /\ pc'[d] = pc[d] /\ inner'[d] = inner[d]
                                     /\ round'[d] = round[d]
                                     /\ lock[Proc[d]] = d => lock'[Proc[d]] = d
BY Zenon, ProcAssumption DEF TypeOK, Return, Goto

LEMMA ReturnPruneInv ==
  ASSUME IInv, PruneInv, NEW c \in Callers, Return(c), UNCHANGED <<next, txns, horizon>>
  PROVE  PruneInv'
BY Zenon, ReturnLeaves, OneCallerMoves DEF IInv, Locked

(* A move of the pc alone, under the lock or outside of it. *)
LEMMA GotoPruneInv ==
  ASSUME IInv, PruneInv, NEW c \in Callers, NEW label, Goto(c, label),
         UNCHANGED <<next, txns, horizon, lock, round>>,
         label \in Locked => pc[c] \in Locked,
         inner' = inner \/ inner' = [inner EXCEPT ![c] = "none"]
  PROVE  PruneInv'
<1>1. pc'[c] = label /\ \A d \in Callers \ {c} : pc'[d] = pc[d]
  BY Zenon, GotoOthers DEF IInv
<1>2. \A d \in Callers \ {c} : inner'[d] = inner[d]
  BY Zenon DEF IInv, TypeOK
<1>3. inner'[c] # "none" => inner[c] # "none"
  BY Zenon DEF IInv, TypeOK
<1>4. pc'[c] \in Locked => lock'[Proc[c]] = c
  BY Zenon, <1>1 DEF PruneInv, LockHeld
<1>5. inner'[c] # "none" => round'[c] = next
  BY Zenon, <1>3 DEF PruneInv, AtNext
<1> QED BY Zenon, <1>1, <1>2, <1>4, <1>5, OneCallerMoves

(* The goroutine's transaction moves on while its caller waits. *)
LEMMA InnerPruneInv ==
  ASSUME IInv, PruneInv, NEW c \in Callers, NEW e, inner[c] # "none",
         inner' = [inner EXCEPT ![c] = e], UNCHANGED <<next, horizon, lock, pc, round>>,
         \A r \in txns' : r \in txns \/ r = round[c]
  PROVE  PruneInv'
<1>1. round[c] = next /\ next # NotInitialized /\ horizon <= next
  BY Zenon DEF IInv, Goroutine, GenesisLoaded, PruneInv, AtNext
<1>2. PrunedStaysGone'
  <2>1. \A r \in txns' : r \in txns \/ r = next
    BY Zenon, <1>1
  <2>2. next >= horizon
    BY Zenon, <1>1 DEF IInv, TypeOK
  <2> QED BY Zenon, <2>1, <2>2 DEF PruneInv, PrunedStaysGone
<1>3. AtNext'
  BY Zenon, <1>1 DEF IInv, TypeOK, PruneInv, AtNext
<1>4. LockHeld'
  BY Zenon DEF PruneInv, LockHeld
<1> QED BY Zenon, <1>2, <1>3, <1>4 DEF PruneInv

(* The import moves to the next round only with no goroutine at work.      *)
LEMMA CommitPruneInv ==
  ASSUME OneProcess, IInv, PruneInv, NEW c \in Callers, CommitTx(c)
  PROVE  PruneInv'
<1>1. CASE Apply(c) /\ Return(c)
  <2>1. \A d \in Callers \ {c} : inner[d] = "none"
    <3>1. pc[c] \in Locked
      BY Zenon DEF CommitTx, Locked
    <3>2. ASSUME NEW d \in Callers, inner[d] # "none" PROVE pc[d] \in Locked
      BY Zenon, <3>2 DEF IInv, Goroutine, Locked
    <3>3. ASSUME NEW d \in Callers, pc[d] \in Locked PROVE d = c
      BY Zenon, <3>1, <3>3 DEF OneProcess, PruneInv, LockHeld
    <3> QED BY Zenon, <3>2, <3>3
  <2>2. LockHeld'
    BY Zenon, <1>1, ReturnLeaves DEF IInv, PruneInv, LockHeld, Locked
  <2>3. AtNext'
    BY Zenon, <1>1, <2>1, ReturnLeaves DEF IInv, AtNext
  <2>4. PrunedStaysGone'
    BY Zenon DEF PruneInv, PrunedStaysGone, CommitTx
  <2> QED BY Zenon, <2>2, <2>3, <2>4 DEF PruneInv
<1>2. CASE Return(c) /\ UNCHANGED next
  BY Zenon, <1>2, ReturnPruneInv DEF CommitTx
<1>3. CASE Goto(c, "begin") /\ inner' = [inner EXCEPT ![c] = "none"]
             /\ UNCHANGED <<next, lock, round>>
  BY Zenon, <1>3, GotoPruneInv DEF CommitTx, Locked
<1> QED BY Zenon, <1>1, <1>2, <1>3 DEF CommitTx

LEMMA LoadGenesisCommitPruneInv ==
  ASSUME IInv, PruneInv, NEW c \in Callers, LoadGenesisCommit(c) PROVE PruneInv'
<1>1. \A d \in Callers : inner[d] = "none"
  BY Zenon DEF IInv, RowLock, Goroutine, LoadGenesisCommit
<1>2. LockHeld'
  BY ZenonT(30), ReturnLeaves DEF IInv, PruneInv, LockHeld, Locked, LoadGenesisCommit
<1>3. AtNext'
  BY <1>1, ReturnLeaves DEF IInv, AtNext, LoadGenesisCommit
<1>4. PrunedStaysGone'
  BY ZenonT(30) DEF PruneInv, PrunedStaysGone, LoadGenesisCommit
<1> QED BY Zenon, <1>2, <1>3, <1>4 DEF PruneInv

LEMMA AccountingLockPruneInv ==
  ASSUME IInv, PruneInv, NEW c \in Callers, AccountingLock(c) PROVE PruneInv'
<1>1. \A d \in Callers \ {c} : lock[Proc[d]] = d => lock'[Proc[d]] = d
  BY Zenon, ProcAssumption DEF IInv, TypeOK, AccountingLock
<1>2. lock'[Proc[c]] = c /\ inner'[c] = "none"
  BY Zenon, ProcAssumption DEF IInv, TypeOK, Goroutine, AccountingLock
<1>3. Goto(c, "begin") /\ UNCHANGED <<next, txns, horizon, round, inner>>
  BY Zenon DEF AccountingLock
<1>4. \A d \in Callers \ {c} : pc'[d] = pc[d]
  BY Zenon, <1>3, GotoOthers DEF IInv
<1> QED BY Zenon, <1>1, <1>2, <1>3, <1>4, OneCallerMoves

LEMMA SetImportStatePruneInv ==
  ASSUME IInv, PruneInv, NEW c \in Callers, SetImportState(c) PROVE PruneInv'
<1>1. CASE Goto(c, "begin") /\ UNCHANGED inner
  BY Zenon, <1>1, GotoPruneInv DEF SetImportState, Locked
<1>2. CASE next = snap[c].next /\ Goto(c, "write")
             /\ inner' = [inner EXCEPT ![c] = IF round[c] = 0 THEN "none" ELSE "spawned"]
  <2>1. round[c] = next /\ lock[Proc[c]] = c
    BY Zenon, <1>2 DEF IInv, Checked, PruneInv, LockHeld, Locked, SetImportState
  <2>2. \A d \in Callers \ {c} : inner'[d] = inner[d]
    BY Zenon, <1>2 DEF IInv, TypeOK
  <2>3. UNCHANGED <<next, txns, horizon, round, lock>>
    BY Zenon DEF SetImportState
  <2>4. \A d \in Callers \ {c} : pc'[d] = pc[d]
    BY Zenon, <1>2, GotoOthers DEF IInv
  <2> QED BY Zenon, <2>1, <2>2, <2>3, <2>4, OneCallerMoves
<1> QED BY Zenon, <1>1, <1>2 DEF SetImportState

LEMMA DeleteTransactionsPruneInv ==
  ASSUME IInv, PruneInv, NEW c \in Callers, NEW keep \in Nat, DeleteTransactions(c, keep)
  PROVE  PruneInv'
<1>1. PrunedStaysGone'
  BY Zenon DEF IInv, TypeOK, PruneInv, PrunedStaysGone, DeleteTransactions
<1>2. LockHeld' /\ AtNext'
  BY Zenon DEF PruneInv, LockHeld, AtNext, DeleteTransactions
<1> QED BY Zenon, <1>1, <1>2 DEF PruneInv

LEMMA CrashPruneInv ==
  ASSUME IInv, PruneInv, NEW p \in Procs, Crash(p) PROVE PruneInv'
<1>1. LockHeld'
  BY Zenon, ProcAssumption DEF IInv, TypeOK, PruneInv, LockHeld, Locked, Crash
<1>2. AtNext'
  BY Zenon DEF PruneInv, AtNext, Crash
<1>3. PrunedStaysGone'
  BY Zenon DEF PruneInv, PrunedStaysGone, Crash
<1> QED BY Zenon, <1>1, <1>2, <1>3 DEF PruneInv

LEMMA CallPruneInv ==
  ASSUME IInv, PruneInv, NEW c \in Callers, Call(c) PROVE PruneInv'
<1>1. CASE CallEnsure(c)
  BY Zenon, <1>1, GotoPruneInv DEF CallEnsure, Locked
<1>2. ASSUME NEW r \in Rounds, CallAddBlock(c, r) PROVE PruneInv'
  <2>1. inner[c] = "none" /\ \A d \in Callers \ {c} : round'[d] = round[d]
    BY Zenon, <1>2 DEF IInv, TypeOK, Goroutine, CallAddBlock
  <2>2. Goto(c, "lock") /\ UNCHANGED <<next, txns, horizon, lock, inner>>
    BY Zenon, <1>2 DEF CallAddBlock
  <2>3. pc'[c] = "lock" /\ \A d \in Callers \ {c} : pc'[d] = pc[d]
    BY Zenon, <2>2, GotoOthers DEF IInv
  <2>4. "lock" \notin Locked
    BY SMTT(60) DEF Locked
  <2> QED BY Zenon, <2>1, <2>2, <2>3, <2>4, OneCallerMoves
<1>3. CASE CallAddBlockUnknownProtocol(c)
  BY Zenon, <1>3, ReturnPruneInv DEF CallAddBlockUnknownProtocol
<1> QED BY <1>1, <1>2, <1>3, DeleteTransactionsPruneInv, BoundsAssumption DEF Call

LEMMA StepPruneInv ==
  ASSUME OneProcess, IInv, PruneInv, NEW c \in Callers, Step(c) PROVE PruneInv'
<1>1. CASE EnsureInitialImport(c)
  BY Zenon, <1>1, GotoPruneInv DEF EnsureInitialImport, Locked
<1>2. CASE CheckGenesisHash(c)
  BY Zenon, <1>2, GotoPruneInv, ReturnPruneInv DEF CheckGenesisHash, Locked
<1>3. CASE SetNetworkState(c)
  BY Zenon, <1>3, ReturnPruneInv DEF SetNetworkState
<1>4. CASE LoadGenesisBegin(c)
  BY Zenon, <1>4, GotoPruneInv, ReturnPruneInv DEF LoadGenesisBegin, Locked
<1>5. CASE LoadGenesisWrite(c)
  BY Zenon, <1>5, GotoPruneInv, ReturnPruneInv DEF LoadGenesisWrite, Locked
<1>6. CASE BeginTx(c)
  BY Zenon, <1>6, GotoPruneInv DEF BeginTx, Locked
<1>7. CASE CheckRound(c)
  BY Zenon, <1>7, GotoPruneInv, ReturnPruneInv DEF CheckRound, Locked
<1>8. CASE WriterAddBlock(c)
  BY Zenon, <1>8, GotoPruneInv DEF WriterAddBlock, Locked
<1>9. CASE WaitInner(c)
  BY Zenon, <1>9, GotoPruneInv, ReturnPruneInv DEF WaitInner, Locked
<1> QED BY Zenon, <1>1, <1>2, <1>3, <1>4, <1>5, <1>6, <1>7, <1>8, <1>9, CommitPruneInv,
           LoadGenesisCommitPruneInv, AccountingLockPruneInv, SetImportStatePruneInv DEF Step

LEMMA InnerStepPruneInv ==
  ASSUME IInv, PruneInv, NEW c \in Callers, InnerStep(c) \/ InnerFail(c) PROVE PruneInv'
BY Zenon, InnerPruneInv DEF InnerStep, InnerBegin, InnerCopy, InnerCommit, InnerFail, InnerOpen

(* With one importing process a pruned round never comes back: AddBlock    *)
(* holds accountingLock until its goroutine is done, so that no goroutine  *)
(* of an old round is left when the import has moved on.                   *)
THEOREM PrunedRoundsStayGone == OneProcess => (Spec => []PrunedStaysGone)
<1> SUFFICES ASSUME OneProcess PROVE Spec => []PrunedStaysGone
  BY Zenon
<1>1. Init => PruneInv
  <2> SUFFICES ASSUME Init PROVE PruneInv
    BY Zenon
  <2>1. txns \subseteq Nat /\ horizon = 0
    BY Zenon, BoundsAssumption DEF Init
  <2>2. LockHeld /\ AtNext
    BY Zenon DEF Init, LockHeld, Locked, AtNext
  <2> QED BY <2>1, <2>2 DEF PruneInv, PrunedStaysGone
<1>2. IInv /\ PruneInv /\ [Next]_vars => PruneInv'
  <2> SUFFICES ASSUME IInv, PruneInv, [Next]_vars PROVE PruneInv'
    BY Zenon
  <2>1. CASE UNCHANGED vars
    BY Zenon, <2>1 DEF vars, PruneInv, LockHeld, AtNext, PrunedStaysGone
  <2>2. ASSUME NEW c \in Callers, StatementError(c) PROVE PruneInv'
    BY Zenon, <2>2, ReturnPruneInv DEF StatementError
  <2>3. ASSUME NEW c \in Callers, SerializationFailure(c) PROVE PruneInv'
    BY Zenon, <2>3, GotoPruneInv DEF SerializationFailure, Locked
  <2> QED BY Zenon, <2>1, <2>2, <2>3, CallPruneInv, StepPruneInv, InnerStepPruneInv,
             CrashPruneInv DEF Next
<1>3. PruneInv => PrunedStaysGone
  BY Zenon DEF PruneInv
<1> QED BY <1>1, <1>2, <1>3, Invariance, PTL DEF Spec

-----------------------------------------------------------------------------
(* BlockImport implements ImportLedger. *)
LEMMA LedgerInit == Init => Ledger!Init
<1> SUFFICES ASSUME Init PROVE Ledger!Init
  BY Zenon
<1>1. CASE next = NotInitialized /\ headers = {} /\ accounted = <<>> /\ txns = {}
  BY Zenon, <1>1 DEF Ledger!Init, Ledger!NotInitialized, NotInitialized, readable
<1>2. ASSUME NEW n \in LegacyRounds, next = n, headers = 0 .. n - 1,
             accounted = [i \in 1 .. n |-> i - 1],
             txns = {r \in NonEmpty : 1 <= r /\ r < n}
      PROVE  Ledger!Init
  <2>1. readable = {r \in NonEmpty : 1 <= r /\ r < n}
    <3>1. horizon = 0
      BY Zenon DEF Init
    <3>2. NonEmpty \subseteq Nat /\ n \in Nat
      BY BoundsAssumption
    <3> HIDE DEF readable
    <3>3. \A r : r \in readable <=> r \in txns /\ r \in headers /\ r >= 0
      BY Zenon, <3>1 DEF readable
    <3>4. \A r : r \in headers <=> r \in Nat /\ r < n
      <4>1. headers = 0 .. n - 1
        BY Zenon, <1>2
      <4> QED BY <3>2, <4>1
    <3>5. \A r \in Nat : r >= 0
      OBVIOUS
    <3> QED BY Zenon, <1>2, <3>2, <3>3, <3>4, <3>5
  <2> QED BY Zenon, <1>2, <2>1 DEF Ledger!Init, Ledger!Prefix, Ledger!TxnRounds
<1> QED BY Zenon, <1>1, <1>2 DEF Init

(* A step that changes neither the tables nor the horizon stutters. *)
LEMMA LedgerStutter ==
    ASSUME UNCHANGED <<next, accounted, headers, txns, horizon>>
    PROVE  UNCHANGED Ledger!vars
BY Zenon DEF Ledger!vars, readable

LEMMA LedgerLoadGenesis ==
    ASSUME IInv, NEW c \in Callers, LoadGenesisCommit(c) PROVE Ledger!Next
<1>1. next = NotInitialized /\ headers = {}
  BY Zenon DEF IInv, RowLock, AccountedExactlyOnce, LoadGenesisCommit
<1>2. readable = {} /\ readable' = {}
  BY Zenon, <1>1 DEF readable, LoadGenesisCommit
<1> QED BY Zenon, <1>1, <1>2 DEF Ledger!Next, Ledger!LoadGenesis, Ledger!NotInitialized,
                          NotInitialized, LoadGenesisCommit

LEMMA LedgerAccountBlock ==
    ASSUME IInv, NEW c \in Callers, CommitTx(c), Apply(c) PROVE Ledger!Next
<1>1. round[c] = next /\ next \in Nat /\ headers = 0 .. next - 1 /\ horizon <= next
  <2>1. round[c] = next /\ round[c] \in Rounds
    BY Zenon DEF IInv, TypeOK, RowLock, CommitTx
  <2>2. next \in Nat /\ next # NotInitialized
    BY SMTT(60), <2>1, BoundsAssumption DEF Rounds, NotInitialized
  <2> QED BY Zenon, <2>1, <2>2 DEF IInv, GenesisLoaded, AccountedExactlyOnce
<1>2. /\ next' = next + 1 /\ headers' = headers \cup {next}
      /\ accounted' = Append(accounted, next) /\ UNCHANGED <<txns, horizon>>
  BY Zenon, <1>1 DEF Apply, CommitTx
<1>3. next \in txns <=> next \in NonEmpty /\ 1 <= next
  <2>1. txns \subseteq NonEmpty \ {0}
    BY Zenon DEF IInv, GenesisLoaded
  <2>2. next \in NonEmpty => next \in txns \/ next = 0
    BY Zenon, <1>1 DEF IInv, Goroutine, CommitTx
  <2> QED BY SMTT(60), <1>1, <2>1, <2>2
<1>4. readable' = readable \cup ({next} \cap txns)
  BY Zenon, <1>1, <1>2 DEF IInv, TypeOK, readable
<1>5. readable' = readable \cup ({next} \cap Ledger!TxnRounds(next + 1))
  BY <1>1, <1>3, <1>4 DEF Ledger!TxnRounds
<1> QED BY <1>1, <1>2, <1>5 DEF Ledger!Next, Ledger!AccountBlock, Ledger!NotInitialized

LEMMA LedgerInnerCommit ==
    ASSUME IInv, NEW c \in Callers, InnerCommit(c) PROVE UNCHANGED Ledger!vars
<1>1. next # NotInitialized /\ 1 <= round[c] /\ headers = 0 .. next - 1 /\ next \in Nat
  BY Zenon DEF IInv, TypeOK, Goroutine, AccountedExactlyOnce, InnerCommit
<1>2. (round[c] \in NonEmpty \cap headers /\ round[c] >= horizon) => round[c] \in txns
  BY <1>1 DEF IInv, TxnsNeverBehind
<1>3. readable' = readable
  BY Zenon, <1>2 DEF readable, InnerCommit
<1> QED BY Zenon, <1>3 DEF Ledger!vars, InnerCommit

LEMMA LedgerPrune ==
    ASSUME IInv, NEW c \in Callers, NEW keep \in Nat, DeleteTransactions(c, keep)
    PROVE  Ledger!Next
<1>1. readable \subseteq Nat /\ horizon \in Nat
  BY Zenon DEF IInv, TypeOK, readable
<1>2. /\ txns' = {r \in txns : r >= keep} /\ UNCHANGED <<next, accounted, headers>>
      /\ horizon' = IF keep > horizon THEN keep ELSE horizon
  BY Zenon DEF DeleteTransactions
<1>3. readable' = {r \in readable : r >= keep}
  <2>1. \A r \in Nat : r >= horizon' <=> r >= keep /\ r >= horizon
    BY <1>1, <1>2
  <2>2. txns \subseteq Nat
    BY Zenon DEF IInv, TypeOK
  <2> QED BY Zenon, <1>2, <2>1, <2>2 DEF readable
<1> QED BY <1>1, <1>2, <1>3 DEF Ledger!Next, Ledger!Prune

LEMMA LedgerNext == IInv /\ [Next]_vars => [Ledger!Next]_(Ledger!vars)
<1> SUFFICES ASSUME IInv, [Next]_vars PROVE [Ledger!Next]_(Ledger!vars)
  BY Zenon
<1>1. CASE UNCHANGED vars
  BY Zenon, <1>1, LedgerStutter DEF vars
<1>2. ASSUME NEW c \in Callers, Call(c) PROVE [Ledger!Next]_(Ledger!vars)
  BY <1>2, LedgerStutter, LedgerPrune, BoundsAssumption
     DEF Call, CallEnsure, CallAddBlock, CallAddBlockUnknownProtocol
<1>3. ASSUME NEW c \in Callers, CommitTx(c) PROVE [Ledger!Next]_(Ledger!vars)
  BY Zenon, <1>3, LedgerStutter, LedgerAccountBlock DEF CommitTx
<1>4. ASSUME NEW c \in Callers, Step(c) PROVE [Ledger!Next]_(Ledger!vars)
  BY Zenon, <1>3, <1>4, LedgerStutter, LedgerLoadGenesis
     DEF Step, EnsureInitialImport, CheckGenesisHash, SetNetworkState, LoadGenesisBegin,
         LoadGenesisWrite, AccountingLock, BeginTx, CheckRound, SetImportState,
         WriterAddBlock, WaitInner
<1>5. ASSUME NEW c \in Callers, InnerStep(c) PROVE [Ledger!Next]_(Ledger!vars)
  BY Zenon, <1>5, LedgerStutter, LedgerInnerCommit DEF InnerStep, InnerBegin, InnerCopy
<1>6. ASSUME NEW c \in Callers, InnerFail(c) \/ StatementError(c) \/ SerializationFailure(c)
      PROVE  [Ledger!Next]_(Ledger!vars)
  BY Zenon, <1>6, LedgerStutter DEF InnerFail, StatementError, SerializationFailure
<1>7. ASSUME NEW p \in Procs, Crash(p) PROVE [Ledger!Next]_(Ledger!vars)
  BY Zenon, <1>7, LedgerStutter DEF Crash
<1> QED BY Zenon, <1>1, <1>2, <1>4, <1>5, <1>6, <1>7 DEF Next

(* Readers see a block appear at once, in order and exactly once, although *)
(* AddBlock commits its two transactions at different times.               *)
THEOREM ImplementsLedger == Spec => LedgerSpec
BY LedgerInit, LedgerNext, Invariance, PTL DEF Spec, LedgerSpec, Ledger!Spec
=============================================================================
