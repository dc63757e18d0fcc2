------------------------------ MODULE AccountDiff ------------------------------
(***************************************************************************)
(* How the validator (cmd/validator/core) compares algod's answer for an   *)
(* account or a box with the indexer's.                                    *)
(*                                                                         *)
(* An account has an amount, which stands for all fields that are simply   *)
(* compared, an auth address (a set of at most one), rewards, pending      *)
(* ones, and a list of resources, which stands for the four lists. A       *)
(* resource has an id, data and, with the indexer, a deleted flag.         *)
(***************************************************************************)
EXTENDS Integers, FiniteSets

Self == "self" \* the account's own address

(* Mutant: deleted resources stay in the map. *)
lookupMapAll(list) == list

(* assetLookupMap, createdAssetLookupMap, appLookupMap, createdAppLookupMap *)
lookupMap(list) == {x \in list : ~x.deleted}

Difference(name, found) == IF found THEN {name} ELSE {}

(* stringPtrEqual and its kin, tealKeyValueStoreEqual: values are equal, or *)
(* both are missing; keys have no order.                                   *)
dataEqual(x, y) == x = y

(* The four sections of equals about resources: the numbers are compared,   *)
(* and each of algod's with the indexer's, or with the zero value.         *)
listDifferences(indexer, algod) ==
    LET live == lookupMap(indexer)
        of(id) == {x.data : x \in {y \in live : y.id = id}}
    IN  Difference("count", Cardinality(live) # Cardinality(algod))
        \cup UNION {Difference("missing", of(a.id) = {})
                    \cup Difference("data", \E x \in IF of(a.id) = {} THEN {0} ELSE of(a.id) :
                                                  ~dataEqual(a.data, x)) :
                    a \in algod}

(* The indexer keeps an auth address that was removed as the own address,  *)
(* and may not have added the pending rewards.                             *)
equals(indexer, algod) ==
    IF algod.amount = 0 THEN {}
    ELSE Difference("amount", algod.amount # indexer.amount)
         \cup Difference("auth-addr", algod.auth # indexer.auth /\ indexer.auth # {Self})
         \cup Difference("pending-rewards", algod.pending # indexer.pending)
         \cup Difference("rewards", algod.rewards \notin
                                      {indexer.rewards, indexer.rewards + indexer.pending})
         \cup listDifferences(indexer.list, algod.list)

(* StructProcessor: same says whether the rounds of the answers agree. *)
StructAddress(algod, indexer, same) ==
    [Equal |-> equals(indexer, algod) = {}, SameRound |-> equals(indexer, algod) # {} /\ same]

StructBox(algod, indexer, same) ==
    [Equal |-> algod = indexer, SameRound |-> algod # indexer /\ same]

-----------------------------------------------------------------------------
(* DynamicProcessor. What is deleted, what only one side has and what is    *)
(* empty is dropped, and lists are sorted.                                 *)
isDeleted(x) == x.deleted

normalizeRecurse(list) == {<<x.id, x.data>> : x \in {y \in list : ~isDeleted(y)}}

(* A zero amount is meant to be dropped as well; val == 0 is never true.    *)
normalize(account) ==
    IF isDeleted(account) THEN {}
    ELSE {<<account.amount, account.auth, account.rewards, account.pending,
            normalizeRecurse(account.list)>>}

DynamicAddress(algod, indexer) ==
    [Equal |-> normalize(algod) = normalize(indexer), SameRound |-> FALSE]

(* Boxes are compared as they came, with their rounds. *)
DynamicBox(algod, indexer, same) ==
    [Equal |-> algod = indexer /\ same, SameRound |-> FALSE]
=============================================================================
