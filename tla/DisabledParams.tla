---------------------------- MODULE DisabledParams ----------------------------
(***************************************************************************)
(* api/disabled_parameters.go: which parameters a server refuses.          *)
(*                                                                         *)
(* A DisabledMapConfig is a function from paths to sets of parameter       *)
(* names. A DisplayDisabledMap, which is what an API config file holds, is *)
(* a function from paths to sets of entries <<kind, parameter, status>>.   *)
(* A DisabledMap is a function from operations to what is disabled there.  *)
(***************************************************************************)
EXTENDS ApiParams

MakeDisabledMapConfig == [path \in {} |-> {}]

isDisabled(config, path, n) == path \in DOMAIN config /\ n \in config[path]

(* GetDefaultDisabledMapConfigForPostgres *)
DefaultDisabledMapConfig ==
    LET slow == {"note-prefix", "tx-type", "sig-type", "asset-id", "before-time",
                 "after-time", "rekey-to"}
        currency == {"currency-greater-than", "currency-less-than"}
        roles == {"address-role", "exclude-close-to"}
    IN  "/v2/accounts" :> currency \cup {"online-only"} @@
        "/v2/accounts/:account-id/transactions" :> slow @@
        "/v2/assets" :> {"name", "unit"} @@
        "/v2/assets/:asset-id/balances" :> currency @@
        "/v2/transactions" :>
          slow \cup currency \cup roles \cup {"application-id", "group-id"} @@
        "/v2/assets/:asset-id/transactions" :> slow \cup currency \cup roles

-----------------------------------------------------------------------------
(* Files. *)
validateSchema(ddm) ==
    \A path \in DOMAIN ddm : \A e \in ddm[path] :
      e[1] \in {"required", "optional"} /\ e[3] \in {"enabled", "disabled"}

(* toDisabledMapConfig, where required and optional entries are alike. *)
toDisabledMapConfig(ddm) ==
    [path \in DOMAIN ddm |-> {e[2] : e \in {f \in ddm[path] : f[3] = "disabled"}}]

(* DisabledMapConfig.validate: the paths and the parameters exist. *)
validate(config) ==
    \A path \in DOMAIN config :
      path \in DOMAIN Routes /\ config[path] \subseteq AllParams(Routes[path])

(* MakeDisabledMapConfigFromFile on a file that could be read: the         *)
(* configuration, in a set that is empty when there is an error.           *)
MakeDisabledMapConfigFromFile(ddm) ==
    IF validateSchema(ddm) /\ validate(toDisabledMapConfig(ddm))
      THEN {toDisabledMapConfig(ddm)} ELSE {}

Required(op, n) ==
    n \in Params[op].path \/ (op = "LookupApplicationBoxByIDAndName" /\ n = "name")

(* Mutant: required parameters are not shown. *)
DisplayEntriesOptional(config, limited, path) ==
    {<<"optional", n, IF isDisabled(config, path, n) THEN "disabled" ELSE "enabled">> :
       n \in {m \in AllParams(Routes[path]) : ~Required(Routes[path], m)
                                              /\ (limited => isDisabled(config, path, m))}}

(* MakeDisplayDisabledMapFromConfig, which api-config prints. Paths without *)
(* entries are left out.                                                   *)
DisplayEntries(config, limited, path) ==
    {<<IF Required(Routes[path], n) THEN "required" ELSE "optional", n,
       IF isDisabled(config, path, n) THEN "disabled" ELSE "enabled">> :
       n \in {m \in AllParams(Routes[path]) : limited => isDisabled(config, path, m)}}

MakeDisplayDisabledMapFromConfig(config, limited) ==
    [path \in {p \in DOMAIN Routes : DisplayEntries(config, limited, p) # {}} |->
       DisplayEntries(config, limited, path)]

-----------------------------------------------------------------------------
(* The map that the handlers consult. *)

(* Mutant: a disabled required parameter leaves its endpoint enabled. *)
MakeDisabledMapOptionalOnly(config) ==
    [op \in Operations |->
       [EndpointDisabled |-> FALSE,
        DisabledOptionalParameters |->
          {n \in AllParams(op) : isDisabled(config, PathOf(op), n)}]]

MakeDisabledMapFromOA3(config) ==
    LET disabled(op) == {n \in AllParams(op) : isDisabled(config, PathOf(op), n)}
    IN  [op \in Operations |->
           [EndpointDisabled |-> \E n \in disabled(op) : Required(op, n),
            DisabledOptionalParameters |-> {n \in disabled(op) : ~Required(op, n)}]]

(* EndpointConfig.verify: a parameter with an empty value counts as absent. *)
verify(entry, query) ==
    /\ ~entry.EndpointDisabled
    /\ \A n \in entry.DisabledOptionalParameters \cap DOMAIN query : query[n] = Empty
=============================================================================
