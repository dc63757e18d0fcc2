---------------------------- MODULE ResourceTables ----------------------------
(***************************************************************************)
(* The tables that the account, asset, application, box and block header   *)
(* searches read, and what one imported block may do to them.              *)
(*                                                                         *)
(* A row that was never written is None; a row of an entity that is gone   *)
(* has st = "deleted". How the writer gets there is the subject of         *)
(* AccountTables; here a block is one step.                                *)
(***************************************************************************)
EXTENDS Integers, FiniteSets, FiniteSetsExt

CONSTANTS
    Addrs,       \* addresses, numbered in the order of ORDER BY addr
    Ids,         \* asset and application ids
    Names        \* box names, numbered in the order of ORDER BY name

ASSUME KeysAssumption ==
    /\ Addrs \subseteq Nat \ {0} /\ Ids \subseteq Nat \ {0} /\ Names \subseteq Nat
    /\ IsFiniteSet(Addrs) /\ IsFiniteSet(Ids) /\ IsFiniteSet(Names)

None == [st |-> "none"]

(* The four lists an account answer may carry. *)
Kinds == {"assets", "created-assets", "apps-local-state", "created-apps"}

States == {"live", "deleted"}
AccountRecords == [st : States, algos : Nat, auth : Nat, online : BOOLEAN, base : Nat,
                   total : [Kinds -> Nat]]
HoldingRecords == [st : States, amount : Nat]
AssetRecords   == [st : States, creator : Addrs, name : Nat, unit : Nat]
AppRecords     == [st : States, creator : Addrs]
LocalRecords   == [st : States]
HeaderRecords  == [time : Nat, level : Nat, proposer : Nat, expired : SUBSET Nat,
                   absent : SUBSET Nat, txns : Nat]

(* The rows of the lists that belong to account a. *)
Owned(db, kind, a) ==
    CASE kind = "assets"           -> {i \in Ids : db.holding[a][i] # None}
      [] kind = "created-assets"   -> {i \in Ids : db.asset[i] # None /\ db.asset[i].creator = a}
      [] kind = "apps-local-state" -> {i \in Ids : db.local[a][i] # None}
      [] kind = "created-apps"     -> {i \in Ids : db.app[i] # None /\ db.app[i].creator = a}

OwnedRow(db, kind, a, i) ==
    CASE kind = "assets"           -> db.holding[a][i]
      [] kind = "created-assets"   -> db.asset[i]
      [] kind = "apps-local-state" -> db.local[a][i]
      [] kind = "created-apps"     -> db.app[i]

LiveCount(db, kind, a) ==
    Cardinality({i \in Owned(db, kind, a) : OwnedRow(db, kind, a, i).st = "live"})

(* What databases have in common: the headers of all rounds in the order    *)
(* of their times, the totals of account_data, and no account that was     *)
(* written at a rewards level not reached yet.                             *)
WellFormed(db) ==
    /\ db \in [round : Nat, header : {db.header},
               account : [Addrs -> AccountRecords \cup {None}],
               holding : [Addrs -> [Ids -> HoldingRecords \cup {None}]],
               asset : [Ids -> AssetRecords \cup {None}], app : [Ids -> AppRecords \cup {None}],
               local : [Addrs -> [Ids -> LocalRecords \cup {None}]],
               box : SUBSET (Ids \X Names)]
    /\ db.header \in [0 .. db.round -> HeaderRecords]
    /\ \A r, s \in 0 .. db.round : r <= s => db.header[r].time <= db.header[s].time
    /\ \A a \in Addrs : db.account[a] # None =>
         /\ db.account[a].base <= db.header[db.round].level
         /\ db.account[a].total = [k \in Kinds |-> LiveCount(db, k, a)]

(* account_data holds the ledger's totals, which are those of the tables. *)
WithTotals(db) ==
    [db EXCEPT !.account =
       [a \in Addrs |-> IF @[a] = None THEN None
                        ELSE [@[a] EXCEPT !.total =
                                [k \in Kinds |-> LiveCount(db, k, a)]]]]

(* A block: its header, and rows that are new, changed or deleted. The     *)
(* rewards level grows with the rounds, and an account that a block        *)
(* touches has its rewards base at the level of that block.                *)
AddHeader(db, h) ==
    [db EXCEPT !.round = @ + 1,
               !.header = [r \in 0 .. db.round + 1 |->
                             IF r <= db.round THEN db.header[r] ELSE h]]

WriteAccount(db, a, row) ==
    [db EXCEPT !.account[a] = [row EXCEPT !.base = db.header[db.round].level + 1]]

(* What the delete statements leave: the key, and zero or null elsewhere. *)
Deleted(row) == [row EXCEPT !.st = "deleted"]
DeletedHolding(row) == [Deleted(row) EXCEPT !.amount = 0]
DeletedAsset(row) == [Deleted(row) EXCEPT !.name = 0, !.unit = 0]
DeletedAccount(row) == [Deleted(row) EXCEPT !.algos = 0, !.auth = 0, !.online = FALSE, !.base = 0]

(* An account can be closed only when it owns nothing that is live. *)
Closable(db, a) == \A k \in Kinds : LiveCount(db, k, a) = 0
=============================================================================
