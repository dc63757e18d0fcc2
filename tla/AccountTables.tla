---------------------------- MODULE AccountTables -----------------------------
(***************************************************************************)
(* The tables account, asset, account_asset, app, account_app and app_box, *)
(* and the statements Writer.AddBlock executes for the state delta of a    *)
(* block. The evaluator that produces the delta is external: a block is a  *)
(* sequence of transactions, and the delta holds what each object they     *)
(* touched has become, not how. History variables record the true life of  *)
(* every object, for comparison with created_at, closed_at and keytype.    *)
(***************************************************************************)
EXTENDS Integers, FiniteSets

CONSTANTS
    Accounts,  \* addresses: rows of account
    Params,    \* assets and apps: rows of asset and app
    Holdings,  \* holdings and local states: rows of account_asset and account_app
    Boxes,     \* rows of app_box
    Pairs,     \* a param and a holding that one resource record describes
    Values,    \* contents of an object: params, amount and frozen flag, ...
    SigTypes,  \* values of keytype
    Null,      \* SQL NULL, JSON null, or an object that does not exist
    MaxRound,  \* bound on the chain
    MaxTxns    \* bound on the transactions of a block

NoDelta == "no delta"  \* the block has no transaction of the sender
Objects == Accounts \cup Params \cup Holdings \cup Boxes

ASSUME TablesAssumption ==
    /\ MaxRound \in Nat /\ MaxTxns \in Nat
    /\ Null \notin Values \cup SigTypes
    /\ Pairs \subseteq SUBSET (Params \cup Holdings)
    /\ Boxes \cap (Accounts \cup Params \cup Holdings) = {}
    /\ NoDelta \notin SigTypes \cup {Null}

VARIABLES
    round,    \* the last round written
    txns,     \* transactions of the block that is being evaluated
    ledger,   \* objects as evaluated so far
    touched,  \* objects the block has touched
    sigs,     \* the last sigTypeDelta of each sender of the block
    row,      \* the tables
    first,    \* round in which an object first existed or was touched
    last,     \* round in which it was last removed
    signed    \* how each account last signed, Null once it was rekeyed

hist == <<first, last, signed>>
vars == <<round, txns, ledger, touched, sigs, row, first, last, signed>>

Never == -1

(* A row that is not in its table. *)
Absent == [value |-> Null, deleted |-> TRUE, created |-> Never, closed |-> Never, keytype |-> Null]

(* The one type invariant. *)
TypeOK ==
    /\ round \in 0 .. MaxRound /\ txns \in 0 .. MaxTxns
    /\ ledger \in [Objects -> Values \cup {Null}]
    /\ touched \subseteq Objects
    /\ sigs \in [Accounts -> SigTypes \cup {Null, NoDelta}]
    /\ row \in [Objects -> [value : Values \cup {Null}, deleted : BOOLEAN,
                            created : Never .. round, closed : Never .. round,
                            keytype : SigTypes \cup {Null}]]

(* LoadGenesis: the accounts of the genesis allocation. *)
Init ==
    /\ round = 0 /\ txns = 0
    /\ \E alloc \in (SUBSET Accounts) \ {{}}, v \in Values :
         /\ ledger = [k \in Objects |-> IF k \in alloc THEN v ELSE Null]
         /\ row = [k \in Objects |-> IF k \in alloc
                      THEN [value |-> v, deleted |-> FALSE, created |-> 0, closed |-> Never,
                            keytype |-> Null]
                      ELSE Absent]
         /\ first = [k \in Objects |-> IF k \in alloc THEN 0 ELSE Never]
    /\ touched = {}
    /\ sigs = [a \in Accounts |-> NoDelta]
    /\ last = [k \in Objects |-> Never]
    /\ signed = [a \in Accounts |-> Null]

-----------------------------------------------------------------------------
(* The evaluator: a transaction of snd turns object k into v, or charges   *)
(* only the fee (k = snd). The index of an asset or app is not used again. *)
(* A transaction that rekeys its sender, or a state proof, has the         *)
(* signature type Null.                                                    *)
Transact(snd, sig, k, v) ==
    /\ round < MaxRound /\ txns < MaxTxns
    /\ ledger[snd] # Null
    /\ k \in Params /\ ledger[k] = Null => first[k] = Never
    /\ k = snd \/ ledger[k] # v
    /\ txns' = txns + 1
    /\ ledger' = [ledger EXCEPT ![k] = v]
    /\ touched' = touched \cup {snd, k}
    /\ sigs' = [sigs EXCEPT ![snd] = sig]
    /\ first' = [j \in Objects |-> IF j \in {snd, k} /\ first[j] = Never THEN round + 1 ELSE first[j]]
    /\ last' = [last EXCEPT ![k] = IF v = Null THEN round + 1 ELSE @]
    /\ signed' = [signed EXCEPT ![snd] = sig]
    /\ UNCHANGED <<round, row>>

-----------------------------------------------------------------------------
(* What is written for a touched object, at round r. *)

(* Mutant: a row that is written again gets a new creation round. *)
UpsertAll(old, v, sig, r) ==
    [value |-> v, deleted |-> FALSE, created |-> r, closed |-> old.closed, keytype |-> sig]

(* created_at is only ever set by the INSERT. *)
CreatedAt(old, r) == IF old.created = Never THEN r ELSE old.created

(* upsert_account, upsert_asset, upsert_account_asset, upsert_app,         *)
(* upsert_account_app: created_at stays, and so does closed_at.            *)
Upsert(old, v, sig, r) ==
    [value |-> v, deleted |-> FALSE, created |-> CreatedAt(old, r), closed |-> old.closed,
     keytype |-> sig]

(* Mutant: a row that exists keeps the round it was closed at before. *)
DeleteKeepsClosed(old, sig, r) ==
    [value |-> Null, deleted |-> TRUE, created |-> CreatedAt(old, r),
     closed |-> IF old.closed = Never THEN r ELSE old.closed, keytype |-> sig]

(* delete_account, delete_asset, ...: the row stays, marked deleted. (A    *)
(* deleted holding also keeps its frozen flag, which nothing here reads.)  *)
Delete(old, sig, r) ==
    [value |-> Null, deleted |-> TRUE, created |-> CreatedAt(old, r), closed |-> r,
     keytype |-> sig]

WriteRow(k, sig, r) ==
    IF ledger[k] = Null THEN Delete(row[k], sig, r) ELSE Upsert(row[k], ledger[k], sig, r)

WriteResource(k, r) == WriteRow(k, row[k].keytype, r)

(* Mutant: the keytype of an account that is deleted is not updated. *)
WriteAccountLiveKeytype(a, r) ==
    WriteRow(a, IF sigs[a] = NoDelta \/ ledger[a] = Null THEN row[a].keytype ELSE sigs[a], r)

(* writeAccount: an account without algos is deleted; keytype is written   *)
(* with it when the block has a sigTypeDelta for the address.              *)
WriteAccount(a, r) == WriteRow(a, IF sigs[a] = NoDelta THEN row[a].keytype ELSE sigs[a], r)

(* Mutant: a box that is gone is written like a resource. *)
WriteBoxAsResource(b) == WriteResource(b, round + 1)

(* writeBoxMods: a box that is gone is deleted for good. *)
WriteBox(b) ==
    IF ledger[b] = Null THEN Absent
    ELSE [value |-> ledger[b], deleted |-> FALSE, created |-> Never, closed |-> Never,
          keytype |-> Null]

(* writeAssetResource and writeAppResource see both parts of a record; a   *)
(* part that was not touched may be in it as it is.                        *)
Carried == {k \in (UNION {p \in Pairs : p \cap touched # {}}) \ touched : ledger[k] # Null}

(* Writer.AddBlock *)
AddBlock ==
    /\ round < MaxRound
    /\ round' = round + 1
    /\ \E extra \in SUBSET Carried :
         LET written == touched \cup extra
         IN row' = [k \in Objects |->
                      IF k \notin written THEN row[k]
                      ELSE IF k \in Accounts THEN WriteAccount(k, round + 1)
                      ELSE IF k \in Boxes THEN WriteBox(k)
                      ELSE WriteResource(k, round + 1)]
    /\ txns' = 0 /\ touched' = {}
    /\ sigs' = [a \in Accounts |-> NoDelta]
    /\ UNCHANGED <<ledger, hist>>

(* The bound on the chain is reached. *)
Done == round = MaxRound /\ UNCHANGED vars

Next ==
    \/ \E snd \in Accounts, sig \in SigTypes \cup {Null}, k \in Objects, v \in Values \cup {Null} :
         Transact(snd, sig, k, v)
    \/ AddBlock
    \/ Done

Spec == Init /\ [][Next]_vars

-----------------------------------------------------------------------------
(* The tables are compared with the ledger between two blocks. *)
Between == txns = 0

(* A row is live exactly when its object exists, and then holds its        *)
(* contents; a deleted row holds none ("json string null iff deleted").    *)
(* A box that does not exist has no row at all.                            *)
LiveRowsAreLedger ==
    Between => \A k \in Objects :
                 /\ row[k].value = ledger[k]
                 /\ row[k].deleted = (ledger[k] = Null)
                 /\ k \in Boxes /\ ledger[k] = Null => row[k] = Absent

(* created_at is the round in which the object first came up, whether or   *)
(* not it outlived that round, and however often it was removed and made   *)
(* again since; every object that ever came up has a row.                  *)
CreatedAtIsFirst ==
    Between => \A k \in Objects \ Boxes : row[k].created = first[k]

(* closed_at of a deleted row is the round in which the object was last    *)
(* removed, also when it was made in the same round.                       *)
DeletedAtLastClosing ==
    Between => \A k \in Objects \ Boxes :
                 (row[k].created # Never /\ row[k].deleted) => row[k].closed = last[k]

(* keytype is how the account last signed a transaction of its own.        *)
KeytypeIsLastSignature ==
    Between => \A a \in Accounts : row[a].keytype = signed[a]
=============================================================================
