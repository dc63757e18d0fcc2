------------------------------- MODULE ApiParams -------------------------------
(***************************************************************************)
(* The parameters of the REST endpoints and how the generated wrappers of  *)
(* api/generated/v2/routes.go bind them.                                   *)
(*                                                                         *)
(* The value of a parameter is a number: an integer stands for itself, a   *)
(* Boolean is 0 or 1, a decodable text or time is one of 0, 1, 2 and a list *)
(* is its length. Malformed values do not have the type of the parameter;  *)
(* Undecodable ones have it and mean nothing; Empty is an empty string.    *)
(***************************************************************************)
EXTENDS Integers, TLC

CONSTANTS MaxInt64, MaxUint64 \* stand-ins for the two limits

ASSUME LimitsAssumption == MaxInt64 \in Nat \ {0, 1, 2} /\ MaxUint64 \in Nat /\ MaxUint64 > MaxInt64

Malformed   == -1
Undecodable == -2
Empty       == -3

(* What a wrapper binds: the parameters in the path and in the query. *)
Wrapper(path, query) == [path |-> path, query |-> query]

SearchForAccountsParams ==
    Wrapper({}, {"asset-id", "limit", "next", "currency-greater-than", "include-all",
            "exclude", "currency-less-than", "auth-addr", "round", "application-id",
            "online-only"})
LookupAccountByIDParams == Wrapper({"account-id"}, {"round", "include-all", "exclude"})
LookupAccountAppLocalStatesParams ==
    Wrapper({"account-id"}, {"application-id", "include-all", "limit", "next"})
LookupAccountAssetsParams ==
    Wrapper({"account-id"}, {"asset-id", "include-all", "limit", "next"})
LookupAccountCreatedApplicationsParams ==
    Wrapper({"account-id"}, {"application-id", "include-all", "limit", "next"})
LookupAccountCreatedAssetsParams ==
    Wrapper({"account-id"}, {"asset-id", "include-all", "limit", "next"})
LookupAccountTransactionsParams ==
    Wrapper({"account-id"}, {"limit", "next", "note-prefix", "tx-type", "sig-type",
            "txid", "round", "min-round", "max-round", "asset-id", "before-time",
            "after-time", "currency-greater-than", "currency-less-than", "rekey-to"})
SearchForApplicationsParams ==
    Wrapper({}, {"application-id", "creator", "include-all", "limit", "next"})
LookupApplicationByIDParams == Wrapper({"application-id"}, {"include-all"})
LookupApplicationBoxByIDAndNameParams == Wrapper({"application-id"}, {"name"})
SearchForApplicationBoxesParams ==
    Wrapper({"application-id"}, {"limit", "next", "include"})
LookupApplicationLogsByIDParams ==
    Wrapper({"application-id"}, {"limit", "next", "txid", "min-round", "max-round",
            "sender-address"})
SearchForAssetsParams ==
    Wrapper({}, {"include-all", "limit", "next", "creator", "name", "unit", "asset-id"})
LookupAssetByIDParams == Wrapper({"asset-id"}, {"include-all"})
LookupAssetBalancesParams ==
    Wrapper({"asset-id"}, {"include-all", "limit", "next", "currency-greater-than",
            "currency-less-than"})
LookupAssetTransactionsParams ==
    Wrapper({"asset-id"}, {"limit", "next", "note-prefix", "tx-type", "sig-type",
            "txid", "round", "min-round", "max-round", "before-time", "after-time",
            "currency-greater-than", "currency-less-than", "address", "address-role",
            "exclude-close-to", "rekey-to"})
SearchForBlockHeadersParams ==
    Wrapper({}, {"limit", "next", "min-round", "max-round", "before-time", "after-time",
            "proposers", "expired", "absent"})
LookupBlockParams == Wrapper({"round-number"}, {"header-only"})
SearchForTransactionsParams ==
    Wrapper({}, {"limit", "next", "note-prefix", "tx-type", "sig-type", "group-id",
            "txid", "round", "min-round", "max-round", "asset-id", "before-time",
            "after-time", "currency-greater-than", "currency-less-than", "address",
            "address-role", "exclude-close-to", "rekey-to", "application-id"})
LookupTransactionParams == Wrapper({"txid"}, {})

(* RegisterHandlersWithBaseURL: the path of each operation; all are GET. A  *)
(* configuration writes {account-id} where a route is given :account-id.   *)
Paths ==
    [SearchForAccounts |-> "/v2/accounts",
     LookupAccountByID |-> "/v2/accounts/:account-id",
     LookupAccountAppLocalStates |-> "/v2/accounts/:account-id/apps-local-state",
     LookupAccountAssets |-> "/v2/accounts/:account-id/assets",
     LookupAccountCreatedApplications |-> "/v2/accounts/:account-id/created-applications",
     LookupAccountCreatedAssets |-> "/v2/accounts/:account-id/created-assets",
     LookupAccountTransactions |-> "/v2/accounts/:account-id/transactions",
     SearchForApplications |-> "/v2/applications",
     LookupApplicationByID |-> "/v2/applications/:application-id",
     LookupApplicationBoxByIDAndName |-> "/v2/applications/:application-id/box",
     SearchForApplicationBoxes |-> "/v2/applications/:application-id/boxes",
     LookupApplicationLogsByID |-> "/v2/applications/:application-id/logs",
     SearchForAssets |-> "/v2/assets",
     LookupAssetByID |-> "/v2/assets/:asset-id",
     LookupAssetBalances |-> "/v2/assets/:asset-id/balances",
     LookupAssetTransactions |-> "/v2/assets/:asset-id/transactions",
     SearchForBlockHeaders |-> "/v2/block-headers",
     LookupBlock |-> "/v2/blocks/:round-number",
     SearchForTransactions |-> "/v2/transactions",
     LookupTransaction |-> "/v2/transactions/:txid"]

Operations == DOMAIN Paths
PathOf(op) == Paths[op]
Routes == [path \in {PathOf(op) : op \in Operations} |->
             CHOOSE op \in Operations : PathOf(op) = path]

Params ==
    [SearchForAccounts |-> SearchForAccountsParams,
     LookupAccountByID |-> LookupAccountByIDParams,
     LookupAccountAppLocalStates |-> LookupAccountAppLocalStatesParams,
     LookupAccountAssets |-> LookupAccountAssetsParams,
     LookupAccountCreatedApplications |-> LookupAccountCreatedApplicationsParams,
     LookupAccountCreatedAssets |-> LookupAccountCreatedAssetsParams,
     LookupAccountTransactions |-> LookupAccountTransactionsParams,
     SearchForApplications |-> SearchForApplicationsParams,
     LookupApplicationByID |-> LookupApplicationByIDParams,
     LookupApplicationBoxByIDAndName |-> LookupApplicationBoxByIDAndNameParams,
     SearchForApplicationBoxes |-> SearchForApplicationBoxesParams,
     LookupApplicationLogsByID |-> LookupApplicationLogsByIDParams,
     SearchForAssets |-> SearchForAssetsParams,
     LookupAssetByID |-> LookupAssetByIDParams,
     LookupAssetBalances |-> LookupAssetBalancesParams,
     LookupAssetTransactions |-> LookupAssetTransactionsParams,
     SearchForBlockHeaders |-> SearchForBlockHeadersParams,
     LookupBlock |-> LookupBlockParams,
     SearchForTransactions |-> SearchForTransactionsParams,
     LookupTransaction |-> LookupTransactionParams]

(* The parameters that are numbers, Booleans or times. *)
Typed == {"asset-id", "application-id", "round", "min-round", "max-round", "round-number",
          "include-all", "online-only", "exclude-close-to", "rekey-to", "header-only",
          "limit", "currency-greater-than", "currency-less-than",
          "before-time", "after-time"}

AllParams(op) == Params[op].path \cup Params[op].query

(* A wrapper answers 400 when a value does not have its parameter's type,   *)
(* or when a required query parameter is missing; other parameters of the  *)
(* query are not looked at.                                                *)
Binds(op, args) ==
    /\ \A n \in DOMAIN args \cap AllParams(op) : args[n] # Malformed
    /\ op = "LookupApplicationBoxByIDAndName" => "name" \in DOMAIN args
=============================================================================
