------------------------------ MODULE ApiHandlers ------------------------------
(***************************************************************************)
(* What the handlers of api/handlers.go check before they query the        *)
(* database. A handler is the status it answers with, or Query when the    *)
(* request goes on to the database.                                        *)
(*                                                                         *)
(* A request r has the parameters of the query as they came (r.query) and  *)
(* the arguments bound from path and query (r.args). A server s has the    *)
(* disabled map and the options that matter here.                          *)
(***************************************************************************)
EXTENDS DisabledParams, Sequences

Query == 0

(* A check that is passed is Query, too; the first one that is not decides. *)
Check(failed, status) == IF failed THEN status ELSE Query

First(checks) ==
    LET failed == {i \in 1 .. Len(checks) : checks[i] # Query}
    IN  IF failed = {} THEN Query ELSE checks[CHOOSE i \in failed : \A j \in failed : i <= j]

Checked(checks) == CHOOSE status \in {First(c) : c \in {checks}} : TRUE

Has(r, n) == n \in DOMAIN r.args
Value(r, n, default) == IF Has(r, n) THEN r.args[n] ELSE default

(* A number that the database's signed 64-bit columns cannot hold. *)
Big(r, names) == \E n \in names : Has(r, n) /\ r.args[n] > MaxInt64

(* A text that decoding rejects; for some the empty text is fine. *)
Bad(r, names) == \E n \in names : Has(r, n) /\ r.args[n] \in {Undecodable, Empty}
BadNotEmpty(r, names) == \E n \in names : Has(r, n) /\ r.args[n] = Undecodable

(* boolOrDefault *)
IsTrue(r, n) == Value(r, n, 0) = 1

verifyHandler(s, op, r) == verify(s.disabled[op], r.query)

(* The same request with other arguments, for a handler called by another. *)
WithArgs(r, names, more) ==
    [r EXCEPT !.args = [n \in (names \cap DOMAIN r.args) \cup DOMAIN more |->
                          IF n \in DOMAIN more THEN more[n] ELSE r.args[n]]]

-----------------------------------------------------------------------------
(* Accounts. *)
LookupAccountByID(s, r) ==
    Checked(<<Check(~verifyHandler(s, "LookupAccountByID", r), 400),
              Check(Big(r, {"round"}), 404),
              Check(Bad(r, {"account-id"}), 400),
              Check(Bad(r, {"exclude"}), 400)>>)

SearchForAccounts(s, r) ==
    Checked(<<Check(~verifyHandler(s, "SearchForAccounts", r), 400),
              Check(Big(r, {"asset-id", "application-id", "round"}), 404),
              Check(~s.developerMode /\ Has(r, "round"), 400),
              Check(Has(r, "round") /\ IsTrue(r, "online-only"), 400),
              Check(IsTrue(r, "online-only") /\ IsTrue(r, "include-all"), 400),
              Check(Bad(r, {"auth-addr"}), 400),
              Check(Bad(r, {"exclude"}), 400),
              Check(Bad(r, {"next"}), 400)>>)

LookupAccountAssets(s, r) ==
    Checked(<<Check(~verifyHandler(s, "LookupAccountAssets", r), 400),
              Check(Big(r, {"asset-id"}), 404),
              Check(Bad(r, {"account-id"}), 400),
              Check(Bad(r, {"next"}), 400)>>)

(* assetParamsToAssetQuery and appParamsToApplicationQuery *)
QueryParamsBad(r) == Bad(r, {"creator", "next"})

LookupAccountAppLocalStates(s, r) ==
    Checked(<<Check(~verifyHandler(s, "LookupAccountAppLocalStates", r), 400),
              Check(Big(r, {"application-id"}), 404),
              Check(QueryParamsBad(WithArgs(r, {"application-id", "include-all", "limit", "next"},
                                            [creator |-> r.args["account-id"]])), 400)>>)

-----------------------------------------------------------------------------
(* Applications and assets. *)
SearchForApplications(s, r) ==
    Checked(<<Check(~verifyHandler(s, "SearchForApplications", r), 400),
              Check(Big(r, {"application-id"}), 404),
              Check(QueryParamsBad(r), 400)>>)

LookupAccountCreatedApplications(s, r) ==
    Checked(<<Check(~verifyHandler(s, "LookupAccountCreatedApplications", r), 400),
              Check(Big(r, {"application-id"}), 404),
              SearchForApplications(s,
                WithArgs(r, {"application-id", "include-all", "limit", "next"},
                         [creator |-> r.args["account-id"]]))>>)

LookupApplicationByID(s, r) ==
    Checked(<<Check(~verifyHandler(s, "LookupApplicationByID", r), 400),
              Check(Big(r, {"application-id"}), 404)>>)

LookupApplicationBoxByIDAndName(s, r) ==
    Checked(<<Check(~verifyHandler(s, "LookupApplicationBoxByIDAndName", r), 400),
              Check(Big(r, {"application-id"}), 404),
              Check(Bad(r, {"name"}), 400)>>)

SearchForApplicationBoxes(s, r) ==
    Checked(<<Check(~verifyHandler(s, "SearchForApplicationBoxes", r), 400),
              Check(Big(r, {"application-id"}), 404),
              Check(Bad(r, {"next"}), 400)>>)

SearchForAssets(s, r) ==
    Checked(<<Check(~verifyHandler(s, "SearchForAssets", r), 400),
              Check(Big(r, {"asset-id"}), 404),
              Check(QueryParamsBad(r), 400)>>)

LookupAccountCreatedAssets(s, r) ==
    Checked(<<Check(~verifyHandler(s, "LookupAccountCreatedAssets", r), 400),
              Check(Big(r, {"asset-id"}), 404),
              SearchForAssets(s,
                WithArgs(r, {"asset-id", "include-all", "limit", "next"},
                         [creator |-> r.args["account-id"]]))>>)

LookupAssetByID(s, r) ==
    Checked(<<Check(~verifyHandler(s, "LookupAssetByID", r), 400),
              Check(Big(r, {"asset-id"}), 404)>>)

LookupAssetBalances(s, r) ==
    Checked(<<Check(~verifyHandler(s, "LookupAssetBalances", r), 400),
              Check(Big(r, {"asset-id"}), 404),
              Check(Bad(r, {"next"}), 400)>>)

-----------------------------------------------------------------------------
(* Transactions. Roles are sets of the flags of AddressRole. *)
decodeAddressRole(r) ==
    CASE Value(r, "address-role", 0) = 1 -> {"Sender", "AssetSender"}
      [] Value(r, "address-role", 0) = 2 ->
           {"Receiver", "AssetReceiver"} \cup
           (IF IsTrue(r, "exclude-close-to") THEN {} ELSE {"CloseRemainderTo", "AssetCloseTo"})
      [] Value(r, "address-role", 0) = 3 -> {"Freeze"}
      [] OTHER -> {}

(* decodeAddressRole, decodeDigest, decodeBase64Byte, decodeGroupID,        *)
(* decodeSigType, decodeType and DecodeAddress collect their errors.       *)
FilterErrors(r) ==
    \/ Bad(r, {"address-role", "address", "group-id", "sig-type", "tx-type"})
    \/ BadNotEmpty(r, {"txid", "note-prefix"})

(* transactionParamsToTransactionFilter: the fields that are validated. An  *)
(* amount is of an asset when there is an asset or an asset transfer (2).  *)
transactionFilter(r) ==
    [minRound |-> Value(r, "min-round", 0), maxRound |-> Value(r, "max-round", 0),
     round |-> IF Has(r, "round") THEN {r.args["round"]} ELSE {},
     ids |-> {r.args[n] : n \in {"asset-id", "application-id"} \cap DOMAIN r.args},
     algos |-> IF Has(r, "asset-id") \/ Value(r, "tx-type", 0) = 2 THEN {}
               ELSE {r.args[n] : n \in {"currency-greater-than", "currency-less-than"}
                                          \cap DOMAIN r.args},
     role |-> decodeAddressRole(r), zeroAddress |-> Value(r, "address", 0) = 0]

validateTransactionFilter(f) ==
    /\ \A v \in {f.minRound, f.maxRound} \cup f.round \cup f.ids \cup f.algos : v <= MaxInt64
    /\ f.round # {} => f.minRound = 0 /\ f.maxRound = 0
    /\ (f.round = {} /\ f.minRound # 0 /\ f.maxRound # 0) => f.minRound <= f.maxRound
    /\ f.zeroAddress => f.role \cap {"CloseRemainderTo", "AssetSender", "AssetCloseTo"} = {}

Invalid(filters) == \E f \in filters : ~validateTransactionFilter(f)

SearchForTransactions(s, r) ==
    Checked(<<Check(~verifyHandler(s, "SearchForTransactions", r), 400),
              Check(Big(r, {"asset-id", "application-id", "round"}), 404),
              Check(FilterErrors(r), 400),
              Check(Invalid({transactionFilter(r)}), 400)>>)

(* Mutant: the parameters are handed on without the check of the account. *)
LookupAccountTransactionsUnchecked(s, r) ==
    Checked(<<Check(~verifyHandler(s, "LookupAccountTransactions", r), 400),
              SearchForTransactions(s, WithArgs(r, SearchForTransactionsParams.query,
                                                         [n \in {} |-> 0]))>>)

LookupAccountTransactions(s, r) ==
    Checked(<<Check(~verifyHandler(s, "LookupAccountTransactions", r), 400),
              Check(Big(r, {"asset-id", "round"}), 404),
              Check(Bad(r, {"account-id"}), 400),
              SearchForTransactions(s,
                WithArgs(r, LookupAccountTransactionsParams.query,
                         [address |-> r.args["account-id"]]))>>)

LookupAssetTransactions(s, r) ==
    Checked(<<Check(~verifyHandler(s, "LookupAssetTransactions", r), 400),
              Check(Big(r, {"asset-id", "round"}), 404),
              SearchForTransactions(s, r)>>)

(* The parameters of a search that a request for logs becomes. *)
LogsSearch(r) ==
    WithArgs(r, LookupApplicationLogsByIDParams.query \cup {"application-id"},
             IF Has(r, "sender-address") THEN [address |-> r.args["sender-address"]]
                                         ELSE [n \in {} |-> 0])

LookupApplicationLogsByID(s, r) ==
    Checked(<<Check(~verifyHandler(s, "LookupApplicationLogsByID", r), 400),
              Check(Big(r, {"application-id"}), 404),
              Check(FilterErrors(LogsSearch(r)), 400),
              Check(Invalid({[transactionFilter(LogsSearch(r)) EXCEPT !.role = {"Sender"}]}), 400)>>)

LookupTransaction(s, r) ==
    Checked(<<Check(~verifyHandler(s, "LookupTransaction", r), 400),
              Check(FilterErrors(r), 400),
              Check(Invalid({transactionFilter(r)}), 400)>>)

-----------------------------------------------------------------------------
(* Blocks. *)
LookupBlock(s, r) ==
    Checked(<<Check(~verifyHandler(s, "LookupBlock", r), 400),
              Check(Big(r, {"round-number"}), 404)>>)

(* The errors of blockParamsToBlockFilter. *)
BlockFilterErrors(s, r) ==
    LET lists == {"proposers", "expired", "absent"}
        given == lists \cap DOMAIN r.args
    IN  \/ /\ Has(r, "min-round") /\ Has(r, "max-round")
           /\ r.args["min-round"] > r.args["max-round"]
        \/ Bad(r, {"next"} \cup lists)
        \/ \E m, n \in given : m # n
        \/ \E n \in given : r.args[n] > s.maxAccountListSize

(* min-round and the token are merged; the sum has 64 bits. *)
BlockMinRound(r) ==
    LET token == IF Has(r, "next") THEN {(r.args["next"] + 1) % (MaxUint64 + 1)} ELSE {}
        given == IF Has(r, "min-round") THEN {r.args["min-round"]} ELSE {}
        low   == token \cup given
    IN  IF low = {} THEN 0 ELSE CHOOSE m \in low : \A n \in low : m >= n

validateBlockFilter(r) ==
    /\ BlockMinRound(r) <= MaxInt64 /\ Value(r, "max-round", 0) <= MaxInt64
    /\ (Has(r, "after-time") /\ Has(r, "before-time")) =>
         r.args["after-time"] <= r.args["before-time"]

SearchForBlockHeaders(s, r) ==
    Checked(<<Check(~verifyHandler(s, "SearchForBlockHeaders", r), 400),
              Check(BlockFilterErrors(s, r), 400),
              Check(~validateBlockFilter(r), 400)>>)

Handler(s, r) ==
    CASE r.op = "SearchForAccounts" -> SearchForAccounts(s, r)
      [] r.op = "LookupAccountByID" -> LookupAccountByID(s, r)
      [] r.op = "LookupAccountAppLocalStates" -> LookupAccountAppLocalStates(s, r)
      [] r.op = "LookupAccountAssets" -> LookupAccountAssets(s, r)
      [] r.op = "LookupAccountCreatedApplications" -> LookupAccountCreatedApplications(s, r)
      [] r.op = "LookupAccountCreatedAssets" -> LookupAccountCreatedAssets(s, r)
      [] r.op = "LookupAccountTransactions" -> LookupAccountTransactions(s, r)
      [] r.op = "SearchForApplications" -> SearchForApplications(s, r)
      [] r.op = "LookupApplicationByID" -> LookupApplicationByID(s, r)
      [] r.op = "LookupApplicationBoxByIDAndName" -> LookupApplicationBoxByIDAndName(s, r)
      [] r.op = "SearchForApplicationBoxes" -> SearchForApplicationBoxes(s, r)
      [] r.op = "LookupApplicationLogsByID" -> LookupApplicationLogsByID(s, r)
      [] r.op = "SearchForAssets" -> SearchForAssets(s, r)
      [] r.op = "LookupAssetByID" -> LookupAssetByID(s, r)
      [] r.op = "LookupAssetBalances" -> LookupAssetBalances(s, r)
      [] r.op = "LookupAssetTransactions" -> LookupAssetTransactions(s, r)
      [] r.op = "SearchForBlockHeaders" -> SearchForBlockHeaders(s, r)
      [] r.op = "LookupBlock" -> LookupBlock(s, r)
      [] r.op = "SearchForTransactions" -> SearchForTransactions(s, r)
      [] r.op = "LookupTransaction" -> LookupTransaction(s, r)
=============================================================================
