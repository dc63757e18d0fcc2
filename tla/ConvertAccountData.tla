-------------------------- MODULE ConvertAccountData --------------------------
(***************************************************************************)
(* The convertAccountData migration                                        *)
(* (idb/postgres/internal/migrations/convert_account_data): every live     *)
(* account gets the numbers of its live holdings, created assets, created  *)
(* applications and local states, in batches ordered by address.           *)
(***************************************************************************)
EXTENDS Naturals, FiniteSets, FiniteSetsExt

CONSTANTS
    Addresses, \* account addresses, as numbers in the order of ORDER BY addr
    BatchSize, \* the batch size RunMigration is called with
    MaxRows    \* bound on the rows of one table that one account owns

ASSUME ConvertAssumption ==
    /\ Addresses \subseteq Nat \ {0} /\ IsFiniteSet(Addresses)
    /\ BatchSize \in Nat \ {0} /\ MaxRows \in Nat

Tables == {"account_asset", "asset", "app", "account_app"}
Totals == [Tables -> 0 .. MaxRows]

(* What account_data holds before the conversion: no totals, read as 0. *)
NoTotals == [t \in Tables |-> 0]

(* A row of account, and the live rows of the four tables it owns. *)
AccountRow == [deleted : BOOLEAN, totals : Totals, owns : Totals]

(* getAccounts: WHERE NOT deleted AND addr > last ORDER BY addr LIMIT.      *)
getAccounts(account, last) ==
    LET live == {a \in DOMAIN account : ~account[a].deleted /\ a > last}
    IN  {a \in live : Cardinality({b \in live : b < a}) < BatchSize}

(* computeLcAccountData: four counts per account, the other fields kept. *)
computeLcAccountData(row) == [t \in Tables |-> row.owns[t]]

(* writeLcAccountData *)
writeLcAccountData(account, batch) ==
    [a \in DOMAIN account |->
       IF a \in batch THEN [account[a] EXCEPT !.totals = computeLcAccountData(account[a])]
                      ELSE account[a]]

(* Mutant: an exactly full batch is taken for the last one. *)
RunMigrationStopsEarly(account) ==
    LET From[last \in {0} \cup DOMAIN account] ==
          LET batch == getAccounts(account, last)
          IN  batch \cup IF Cardinality(batch) > BatchSize THEN From[Max(batch)] ELSE {}
    IN  writeLcAccountData(account, From[0])

(* RunMigration: another batch follows as long as the last one was full.    *)
(* The batches are disjoint and no batch reads what another wrote, so they  *)
(* are written together.                                                   *)
RunMigration(account) ==
    LET From[last \in {0} \cup DOMAIN account] ==
          LET batch == getAccounts(account, last)
          IN  batch \cup IF Cardinality(batch) >= BatchSize THEN From[Max(batch)] ELSE {}
    IN  writeLcAccountData(account, From[0])
=============================================================================
