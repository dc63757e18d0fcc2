------------------------- MODULE AccountTablesProofs --------------------------
(***************************************************************************)
(* What the rows of the account tables say, for any set of objects, any    *)
(* contents and any number of blocks and transactions.                     *)
(***************************************************************************)
EXTENDS AccountTables, TLAPS

HistoryOK ==
    /\ first \in [Objects -> Never .. round + 1]
    /\ last \in [Objects -> Never .. round + 1]
    /\ signed \in [Accounts -> SigTypes \cup {Null}]

(* An object the block has not touched: its row is up to date. *)
Settled(k) ==
    /\ row[k].value = ledger[k]
    /\ row[k].deleted = (ledger[k] = Null)
    /\ k \in Boxes /\ ledger[k] = Null => row[k] = Absent
    /\ k \notin Boxes => row[k].created = first[k]
    /\ (k \notin Boxes /\ row[k].created # Never /\ row[k].deleted) => row[k].closed = last[k]

(* An object the block has touched: what AddBlock needs to bring its row   *)
(* up to date.                                                             *)
Pending(k) ==
    /\ k \notin Boxes => \/ row[k].created = first[k] /\ first[k] # Never
                         \/ row[k].created = Never /\ first[k] = round + 1
    /\ ledger[k] = Null => last[k] = round + 1

SignatureOK(a) ==
    IF sigs[a] = NoDelta THEN row[a].keytype = signed[a]
                         ELSE a \in touched /\ signed[a] = sigs[a]

(* The inductive invariant: between two blocks nothing is touched, so that *)
(* every row is settled; within a block, the rows of untouched objects     *)
(* still are.                                                              *)
IInv ==
    /\ TypeOK
    /\ HistoryOK
    /\ txns = 0 => touched = {}
    /\ \A k \in Objects : ledger[k] # Null => first[k] # Never
    /\ \A k \in Objects \ touched : Settled(k)
    /\ \A k \in touched : Pending(k)
    /\ \A a \in Accounts : SignatureOK(a)

-----------------------------------------------------------------------------
LEMMA InitInv == Init => IInv
<1> SUFFICES ASSUME Init PROVE IInv
  OBVIOUS
<1> USE TablesAssumption
<1>1. PICK alloc \in (SUBSET Accounts) \ {{}}, v \in Values :
        /\ ledger = [k \in Objects |-> IF k \in alloc THEN v ELSE Null]
        /\ row = [k \in Objects |-> IF k \in alloc
                     THEN [value |-> v, deleted |-> FALSE, created |-> 0, closed |-> Never,
                           keytype |-> Null]
                     ELSE Absent]
        /\ first = [k \in Objects |-> IF k \in alloc THEN 0 ELSE Never]
  BY Zenon DEF Init
<1>2. /\ round = 0 /\ txns = 0 /\ touched = {}
      /\ sigs = [a \in Accounts |-> NoDelta]
      /\ last = [k \in Objects |-> Never]
      /\ signed = [a \in Accounts |-> Null]
  BY DEF Init
<1>3. alloc \subseteq Objects \ Boxes
  BY <1>1 DEF Objects
<1>4. TypeOK
  BY <1>1, <1>2, <1>3 DEF TypeOK, Absent, Never
<1>5. HistoryOK
  BY <1>1, <1>2 DEF HistoryOK, Never
<1>6. \A k \in Objects : Settled(k)
  BY Zenon, <1>1, <1>2, <1>3 DEF Settled, Absent, Never
<1>7. \A k \in Objects : ledger[k] # Null => first[k] # Never
  BY <1>1 DEF Never
<1>8. \A a \in Accounts : SignatureOK(a)
  BY <1>1, <1>2 DEF SignatureOK, Absent, Objects
<1> QED BY <1>2, <1>4, <1>5, <1>6, <1>7, <1>8 DEF IInv

LEMMA TransactInv ==
    ASSUME IInv, NEW snd \in Accounts, NEW sig \in SigTypes \cup {Null}, NEW k \in Objects,
           NEW v \in Values \cup {Null}, Transact(snd, sig, k, v)
    PROVE  IInv'
<1> USE TablesAssumption
<1> snd \in Objects
  BY DEF Objects
<1>1. TypeOK'
  BY DEF IInv, TypeOK, Transact
<1>2. HistoryOK'
  BY DEF IInv, TypeOK, HistoryOK, Transact, Never
<1>3. txns' # 0
  BY DEF IInv, TypeOK, Transact
<1>4. \A j \in Objects : ledger'[j] # Null => first'[j] # Never
  BY DEF IInv, TypeOK, HistoryOK, Transact, Never
<1>5. \A j \in Objects \ touched' : Settled(j)'
  <2> SUFFICES ASSUME NEW j \in Objects \ touched' PROVE Settled(j)'
    OBVIOUS
  <2>1. j \notin touched /\ j # snd /\ j # k
    BY DEF Transact
  <2>2. /\ ledger'[j] = ledger[j] /\ first'[j] = first[j] /\ last'[j] = last[j]
        /\ row'[j] = row[j]
    BY <2>1 DEF IInv, TypeOK, HistoryOK, Transact
  <2>3. Settled(j)
    BY <2>1 DEF IInv
  <2> QED BY <2>2, <2>3 DEF Settled
<1>6. \A j \in touched' : Pending(j)'
  <2> SUFFICES ASSUME NEW j \in touched' PROVE Pending(j)'
    OBVIOUS
  <2>1. j \in Objects /\ round' = round /\ round \in Nat /\ row' = row
    BY DEF IInv, TypeOK, Transact
  <2>2. j \notin Boxes => \/ row[j].created = first'[j] /\ first'[j] # Never
                          \/ row[j].created = Never /\ first'[j] = round + 1
    <3>1. CASE j \in touched
      BY <2>1, <3>1 DEF IInv, Pending, HistoryOK, Transact, Never
    <3>2. CASE j \notin touched
      BY <2>1, <3>2 DEF IInv, Settled, HistoryOK, Transact, Never
    <3> QED BY <3>1, <3>2
  <2>3. ledger'[j] = Null => last'[j] = round + 1
    <3>1. CASE j = k
      BY <2>1, <3>1 DEF IInv, TypeOK, HistoryOK, Transact
    <3>2. CASE j # k /\ j \in touched
      BY <2>1, <3>2 DEF IInv, TypeOK, HistoryOK, Pending, Transact
    <3>3. CASE j # k /\ j \notin touched
      BY <2>1, <3>3 DEF IInv, TypeOK, HistoryOK, Transact
    <3> QED BY <3>1, <3>2, <3>3
  <2> QED BY <2>1, <2>2, <2>3 DEF Pending
<1>7. \A a \in Accounts : SignatureOK(a)'
  BY DEF IInv, TypeOK, HistoryOK, SignatureOK, Transact
<1> QED BY <1>1, <1>2, <1>3, <1>4, <1>5, <1>6, <1>7 DEF IInv

-----------------------------------------------------------------------------
LEMMA AddBlockInv == IInv /\ AddBlock => IInv'
<1> SUFFICES ASSUME IInv, AddBlock PROVE IInv'
  OBVIOUS
<1> USE TablesAssumption
<1>1. PICK extra \in SUBSET Carried :
        row' = [k \in Objects |->
                  IF k \notin touched \cup extra THEN row[k]
                  ELSE IF k \in Accounts THEN WriteAccount(k, round + 1)
                  ELSE IF k \in Boxes THEN WriteBox(k)
                  ELSE WriteResource(k, round + 1)]
  BY Zenon DEF AddBlock
<1>2. /\ round \in Nat /\ round' = round + 1 /\ round' \in 0 .. MaxRound
      /\ txns' = 0 /\ touched' = {} /\ ledger' = ledger
      /\ first' = first /\ last' = last /\ signed' = signed
      /\ sigs' = [a \in Accounts |-> NoDelta]
  BY DEF IInv, TypeOK, AddBlock, hist
<1>3. ASSUME NEW k \in extra
      PROVE  k \in Objects /\ k \notin touched /\ k \notin Boxes /\ ledger[k] # Null
  BY <1>3 DEF Carried, Objects
<1> DEFINE RowType == [value : Values \cup {Null}, deleted : BOOLEAN,
                       created : Never .. round, closed : Never .. round,
                       keytype : SigTypes \cup {Null}]
           NewRowType == [value : Values \cup {Null}, deleted : BOOLEAN,
                          created : Never .. round + 1, closed : Never .. round + 1,
                          keytype : SigTypes \cup {Null}]
<1>4. ASSUME NEW k \in Objects
      PROVE  /\ row[k] \in RowType /\ ledger[k] \in Values \cup {Null}
             /\ first[k] \in Never .. round + 1
             /\ \A sig \in SigTypes \cup {Null} : WriteRow(k, sig, round + 1) \in NewRowType
  <2>1. row[k] \in RowType /\ ledger[k] \in Values \cup {Null} /\ first[k] \in Never .. round + 1
    BY DEF IInv, TypeOK, HistoryOK
  <2> QED BY <1>2, <2>1 DEF WriteRow, Upsert, Delete, CreatedAt, Never
<1>5. ASSUME NEW k \in Objects PROVE row'[k] \in NewRowType
  <2>1. CASE k \notin touched \cup extra
    BY <1>1, <1>2, <1>4, <2>1 DEF Never
  <2>2. CASE k \in touched \cup extra /\ k \in Accounts
    <3>1. sigs[k] \in SigTypes \cup {Null, NoDelta}
      BY <2>2 DEF IInv, TypeOK
    <3>2. row[k].keytype \in SigTypes \cup {Null}
      BY <1>4
    <3> QED BY <1>1, <1>4, <2>2, <3>1, <3>2 DEF WriteAccount
  <2>3. CASE k \in touched \cup extra /\ k \notin Accounts /\ k \in Boxes
    BY <1>1, <1>2, <1>4, <2>3 DEF WriteBox, Absent, Never
  <2>4. CASE k \in touched \cup extra /\ k \notin Accounts /\ k \notin Boxes
    <3>1. row[k].keytype \in SigTypes \cup {Null}
      BY <1>4
    <3> QED BY <1>1, <1>4, <2>4, <3>1 DEF WriteResource
  <2> QED BY <2>1, <2>2, <2>3, <2>4
<1>6. TypeOK'
  BY <1>1, <1>2, <1>5 DEF IInv, TypeOK
<1>7. HistoryOK'
  BY <1>2 DEF IInv, HistoryOK, Never
<1>8. ASSUME NEW k \in Objects, k \in touched \cup extra, k \notin Boxes, NEW sig
      PROVE  LET new == WriteRow(k, sig, round + 1)
             IN /\ new.value = ledger[k] /\ new.deleted = (ledger[k] = Null)
                /\ new.created = first[k]
                /\ new.deleted => new.closed = last[k]
  <2>1. row[k] \in RowType
    BY <1>4
  <2>2. CASE k \in touched
    <3>1. Pending(k)
      BY <2>2 DEF IInv
    <3> QED BY Zenon, <1>2, <1>8, <2>1, <3>1 DEF Pending, WriteRow, Upsert, Delete, CreatedAt, Never
  <2>3. CASE k \in extra
    <3>1. Settled(k) /\ ledger[k] # Null /\ first[k] # Never
      BY <1>3, <2>3 DEF IInv
    <3> QED BY ZenonT(30), <1>2, <1>8, <2>1, <3>1 DEF Settled, WriteRow, Upsert, CreatedAt, Never
  <2> QED BY <1>8, <2>2, <2>3
<1>9. ASSUME NEW k \in Objects PROVE Settled(k)'
  <2>1. CASE k \notin touched \cup extra
    <3>1. Settled(k) /\ row'[k] = row[k]
      BY <1>1, <2>1 DEF IInv
    <3> QED BY <1>2, <3>1 DEF Settled
  <2>2. CASE k \in touched \cup extra /\ k \in Boxes
    <3>1. row'[k] = WriteBox(k)
      BY <1>1, <2>2
    <3>2. CASE ledger[k] = Null
      <4>1. row'[k] = Absent
        BY <3>1, <3>2 DEF WriteBox
      <4>2. row'[k].value = Null /\ row'[k].deleted = TRUE
        BY <4>1 DEF Absent
      <4>3. row'[k].deleted = (ledger'[k] = Null) /\ row'[k].value = ledger'[k]
        BY Zenon, <1>2, <3>2, <4>2
      <4> QED BY <2>2, <4>1, <4>3, Zenon DEF Settled
    <3>3. CASE ledger[k] # Null
      <4>1. row'[k].value = ledger[k] /\ row'[k].deleted = FALSE
        BY <3>1, <3>3 DEF WriteBox
      <4> QED BY Zenon, <1>2, <2>2, <3>3, <4>1 DEF Settled
    <3> QED BY <3>2, <3>3
  <2>3. CASE k \in touched \cup extra /\ k \notin Boxes
    <3>1. PICK sig : row'[k] = WriteRow(k, sig, round + 1)
      BY <1>1, <2>3 DEF WriteAccount, WriteResource
    <3>2. /\ row'[k].value = ledger[k] /\ row'[k].deleted = (ledger[k] = Null)
          /\ row'[k].created = first[k]
          /\ row'[k].deleted => row'[k].closed = last[k]
      BY <1>8, <2>3, <3>1
    <3>3. row'[k].deleted = (ledger'[k] = Null)
      BY <1>2, <3>2, Zenon
    <3>4. row'[k].value = ledger'[k] /\ row'[k].created = first'[k]
      BY <1>2, <3>2
    <3>5. row'[k].deleted => row'[k].closed = last'[k]
      BY <1>2, <3>2, Zenon
    <3> QED BY <2>3, <3>3, <3>4, <3>5, Zenon DEF Settled
  <2> QED BY <2>1, <2>2, <2>3
<1>10. ASSUME NEW a \in Accounts PROVE SignatureOK(a)'
  <2> a \in Objects
    BY DEF Objects
  <2>1. SignatureOK(a) /\ sigs'[a] = NoDelta /\ signed'[a] = signed[a]
    BY <1>2 DEF IInv
  <2>2. CASE a \notin touched \cup extra
    BY <1>1, <2>1, <2>2 DEF SignatureOK
  <2>3. CASE a \in touched \cup extra
    <3>1. row'[a] = WriteAccount(a, round + 1)
      BY SMTT(60), <1>1, <2>3
    <3>2. row'[a].keytype = IF sigs[a] = NoDelta THEN row[a].keytype ELSE sigs[a]
      BY <3>1 DEF WriteAccount, WriteRow, Upsert, Delete
    <3> QED BY <2>1, <3>2 DEF SignatureOK
  <2> QED BY <2>2, <2>3
<1> QED BY <1>2, <1>6, <1>7, <1>9, <1>10 DEF IInv

LEMMA NextInv == IInv /\ [Next]_vars => IInv'
<1> SUFFICES ASSUME IInv, [Next]_vars PROVE IInv'
  BY SMTT(60)
<1>1. CASE UNCHANGED vars
  BY <1>1 DEF IInv, TypeOK, HistoryOK, Settled, Pending, SignatureOK, vars
<1>2. CASE \E snd \in Accounts, sig \in SigTypes \cup {Null}, k \in Objects,
               v \in Values \cup {Null} : Transact(snd, sig, k, v)
  BY <1>2, TransactInv
<1>3. CASE AddBlock
  BY <1>3, AddBlockInv
<1> QED BY <1>1, <1>2, <1>3 DEF Next, Done

LEMMA Invariance == Spec => []IInv
BY InitInv, NextInv, PTL DEF Spec

-----------------------------------------------------------------------------
(* The tables hold exactly the objects of the ledger, with their contents. *)
THEOREM LiveRowsMatchLedger == Spec => []LiveRowsAreLedger
<1>1. IInv => LiveRowsAreLedger
  BY DEF IInv, Settled, LiveRowsAreLedger, Between
<1> QED BY <1>1, Invariance, PTL

(* created_at is the round in which an object first came up. *)
THEOREM CreatedAtMatchesHistory == Spec => []CreatedAtIsFirst
<1>1. IInv => CreatedAtIsFirst
  BY DEF IInv, Settled, CreatedAtIsFirst, Between
<1> QED BY <1>1, Invariance, PTL

(* closed_at of a deleted row is the round of the last removal. *)
THEOREM ClosedAtMatchesHistory == Spec => []DeletedAtLastClosing
<1>1. IInv => DeletedAtLastClosing
  BY DEF IInv, Settled, DeletedAtLastClosing, Between
<1> QED BY <1>1, Invariance, PTL

(* keytype is the type of the account's last signature. *)
THEOREM KeytypeMatchesHistory == Spec => []KeytypeIsLastSignature
<1>1. IInv => KeytypeIsLastSignature
  BY DEF IInv, TypeOK, SignatureOK, KeytypeIsLastSignature, Between
<1> QED BY <1>1, Invariance, PTL
=============================================================================
