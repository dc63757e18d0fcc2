------------------------------- MODULE MCDaemon -------------------------------
(***************************************************************************)
(* Instance of Daemon: settings that fail at each step or get to serving,  *)
(* and requests that deviate from a plain one in one parameter, or in two  *)
(* that a handler looks at together.                                       *)
(***************************************************************************)
EXTENDS Daemon

-----------------------------------------------------------------------------
(* Settings. *)
Plain ==
    [dataDir |-> "none", dirConfigs |-> <<>>, dirApiConfigs |-> <<>>, configFile |-> "none",
     enableAll |-> "unset", logOpens |-> TRUE, apiConfig |-> {}, pid |-> "ok",
     profile |-> "none", db |-> "postgres", portFree |-> TRUE,
     developerMode |-> FALSE, token |-> FALSE, maxAccountListSize |-> 1]

(* Files: one disables an endpoint and parameters, one names a parameter   *)
(* that does not exist, one has a status that does not exist.              *)
Strict == "/v2/accounts/:account-id" :> {<<"required", "account-id", "disabled">>} @@
          "/v2/assets" :> {<<"optional", "name", "disabled">>, <<"optional", "unit", "enabled">>} @@
          "/v2/transactions" :> {<<"optional", "txid", "disabled">>}
Unknown == "/v2/accounts" :> {<<"optional", "colour", "disabled">>}
Misspelt == "/v2/accounts" :> {<<"optional", "round", "off">>}

MCSettings ==
    {Plain, [Plain EXCEPT !.dataDir = "unusable"],
     [Plain EXCEPT !.db = "fails"], [Plain EXCEPT !.db = "none"],
     [Plain EXCEPT !.db = "dummy", !.pid = "none"],
     [Plain EXCEPT !.pid = "cannot be created"], [Plain EXCEPT !.pid = "cannot be written"],
     [Plain EXCEPT !.profile = "fails"], [Plain EXCEPT !.portFree = FALSE, !.profile = "ok"],
     [Plain EXCEPT !.logOpens = FALSE],
     [Plain EXCEPT !.dataDir = "ok", !.dirConfigs = <<"plain">>, !.configFile = "plain"],
     [Plain EXCEPT !.dataDir = "ok", !.dirConfigs = <<"plain", "plain">>],
     [Plain EXCEPT !.dataDir = "ok", !.dirApiConfigs = <<Strict, Strict>>],
     [Plain EXCEPT !.dataDir = "ok", !.apiConfig = {Strict}, !.dirApiConfigs = <<Strict>>]}
    \cup {[Plain EXCEPT !.dataDir = "ok", !.dirConfigs = c, !.configFile = f,
                       !.developerMode = TRUE, !.token = TRUE, !.maxAccountListSize = 2] :
            c \in {<<>>, <<"enables all">>}, f \in {"none", "unreadable"}}
    \cup {[Plain EXCEPT !.enableAll = "yes", !.apiConfig = {f}] : f \in {Strict, Unknown}}
    \cup {[Plain EXCEPT !.apiConfig = {f}] : f \in {Unknown, Misspelt}}
    \cup {[Plain EXCEPT !.dataDir = "ok", !.enableAll = "yes", !.apiConfig = a,
                       !.dirApiConfigs = <<Strict>>] : a \in {{}, {Strict}}}

-----------------------------------------------------------------------------
(* Requests. Too large a number, and the values worth sending. *)
Large == MaxInt64 + 1
Numbers == {"asset-id", "application-id", "round", "min-round", "max-round", "round-number"}
Flags == {"include-all", "online-only", "exclude-close-to", "rekey-to", "header-only"}
Lists == {"proposers", "expired", "absent"}
Counts == {"limit", "currency-greater-than", "currency-less-than"}
Times == {"before-time", "after-time"}

Values(n) ==
    CASE n \in Numbers -> {1, 2, Large}
      [] n \in Flags -> {1}
      [] n \in Lists -> {2, 3, Undecodable}
      [] n \in Counts -> {Large}
      [] n \in Times -> {1, 2}
      [] n = "address-role" -> {1, 2, Undecodable}
      [] n = "address" -> {0, Undecodable}
      [] OTHER -> {1, Undecodable, Empty}

Together ==
    {{"round", "min-round"}, {"round", "max-round"}, {"min-round", "max-round"},
     {"round", "online-only"}, {"online-only", "include-all"}, {"proposers", "expired"},
     {"expired", "absent"}, Times, {"next", "min-round"}, {"address", "address-role"},
     {"asset-id", "currency-less-than"}, {"tx-type", "currency-less-than"}}

(* The queries of one operation: of one parameter, perhaps one that only   *)
(* another endpoint has, or of two that belong together.                   *)
One(op) == UNION {{n :> v : v \in Values(n)} : n \in Params[op].query}
           \cup {"name" :> 1, "txid" :> 1, "round" :> Malformed}
Two(op) == UNION {UNION {{(CHOOSE n \in p : TRUE) :> v @@
                           (CHOOSE n \in p : n # CHOOSE m \in p : TRUE) :> w :
                           v \in Values(CHOOSE n \in p : TRUE)} :
                         w \in Values(CHOOSE n \in p : n # CHOOSE m \in p : TRUE)} :
                  p \in {q \in Together : q \subseteq Params[op].query}}
NoArgs == [n \in {} |-> 0]

Sent(op, query, v, token) ==
    [op |-> op, query |-> query, path |-> [n \in Params[op].path |-> v], token |-> token]

MCRequests ==
    UNION {{Sent(op, q, 1, "header") : q \in One(op) \cup Two(op)}
           \cup {Sent(op, NoArgs, v, "bearer") :
                   v \in {0} \cup (IF Params[op].path \cap Numbers = {} THEN {Undecodable}
                                   ELSE {Large, Malformed})} :
           op \in Operations}
    \cup {Sent(op, NoArgs, 1, t) : op \in Operations, t \in {"wrong", "none"}}
    \cup {[op |-> "MakeHealthCheck", query |-> NoArgs, path |-> NoArgs, token |-> "none"]}
=============================================================================
