-------------------------------- MODULE Daemon --------------------------------
(***************************************************************************)
(* algorand-indexer daemon from its start to its end: runDaemon and its    *)
(* helpers (cmd/algorand-indexer/daemon.go, main.go), Serve (api/server.go) *)
(* and a request on its way through the middlewares and the wrapper to its *)
(* handler.                                                                *)
(*                                                                         *)
(* runDaemon, the server's goroutine and the goroutine that waits for a    *)
(* signal run concurrently. log.Fatal and an early signal end the process  *)
(* without running what runDaemon has deferred.                            *)
(***************************************************************************)
EXTENDS ApiHandlers

CONSTANTS
    Settings,   \* flags and surroundings the daemon may be started with
    Requests,   \* requests it may get: [op, query, path, token]
    MaxRequests \* bound on their number

(* A start has its flags, and one API config file at most.                 *)
ASSUME SettingsAssumption ==
    \A c \in Settings :
      /\ {"enableAll", "apiConfig", "pid", "developerMode", "token", "maxAccountListSize"}
           \subseteq DOMAIN c
      /\ c.pid \in {"none", "ok", "cannot be created", "cannot be written"}
      /\ c.maxAccountListSize \in Nat
      /\ \A f, g \in c.apiConfig : f = g

(* A request is for /health or for a route, and has what its path names.    *)
(* A parameter with a number, a Boolean or a time has one or is malformed. *)
ASSUME RequestsAssumption ==
    /\ MaxRequests \in Nat
    /\ \A r \in Requests : r.op # "MakeHealthCheck" =>
         /\ r.op \in Operations /\ DOMAIN r.path = Params[r.op].path
         /\ \A args \in {r.path, r.query} : \A n \in DOMAIN args :
              args[n] \in IF n \in Typed THEN Nat \cup {Malformed} ELSE Int

VARIABLES
    cfg,      \* the settings, as runDaemon changes them
    pc,       \* the next step of runDaemon
    defers,   \* what runDaemon has deferred
    pidfile,  \* whether the pid file exists
    signal,   \* "none", "sent" or "handled" (the context is cancelled)
    options,  \* the options of the server, once they are made
    listener, \* the server's socket: "none", "starting", "open" or "closing"
    ended,    \* how the process ended, or "no"
    request,  \* the last request, if there was one
    stage,    \* where it is: a middleware, the wrapper, the handler, the database
    requests  \* how many there were

vars == <<cfg, pc, defers, pidfile, signal, options, listener, ended, request, stage, requests>>
serving == <<listener, request, stage, requests>>

NoOptions == [disabledConfig |-> MakeDisabledMapConfig, developerMode |-> FALSE,
              tokens |-> FALSE, maxAccountListSize |-> 0]

Init ==
    /\ cfg \in Settings
    /\ pc = "configureIndexerDataDir" /\ defers = {} /\ pidfile = FALSE /\ signal = "none"
    /\ options = NoOptions /\ listener = "none" /\ ended = "no"
    /\ request = {} /\ stage = "none" /\ requests = 0

Running == ended = "no"

(* runDaemon returns or panics with exit: the deferred calls run. *)
Leave(how) ==
    /\ pc' = "done" /\ ended' = how
    /\ pidfile' = (pidfile /\ "pid" \notin defers)
    /\ defers' = {}
    /\ UNCHANGED <<cfg, signal, options, serving>>

(* log.Fatal, in any goroutine *)
Fatal ==
    /\ ended' = "fatal"
    /\ UNCHANGED <<cfg, pc, defers, pidfile, signal, options, serving>>

Go(next) == pc' = next /\ UNCHANGED <<ended, signal, serving>>

-----------------------------------------------------------------------------
(* Starting. *)
configureIndexerDataDir ==
    /\ Running /\ pc = "configureIndexerDataDir"
    /\ IF cfg.dataDir = "unusable" THEN Leave("error")
       ELSE Go("resolveConfigFile") /\ UNCHANGED <<cfg, defers, pidfile, options>>

(* The files of one name in the data directory: at most one is allowed. *)
GetConfigFromDataDir(files) == IF Len(files) > 1 THEN "error"
                               ELSE IF files = <<>> THEN "none" ELSE "found"

(* resolveConfigFile, loadIndexerConfig, BindFlagSet and configureLogger; a *)
(* value of the file counts for flags that the command line does not set.  *)
resolveConfigFile ==
    LET found == GetConfigFromDataDir(cfg.dirConfigs)
        file  == IF found = "found" THEN cfg.dirConfigs[1] ELSE cfg.configFile
    IN  /\ Running /\ pc = "resolveConfigFile"
        /\ IF \/ found = "error"
              \/ found = "found" /\ cfg.configFile # "none"
              \/ file = "unreadable"
              \/ ~cfg.logOpens
             THEN Leave("error")
             ELSE /\ cfg' = IF file = "enables all" /\ cfg.enableAll = "unset"
                              THEN [cfg EXCEPT !.enableAll = "yes"] ELSE cfg
                  /\ Go("loadIndexerParamConfig") /\ UNCHANGED <<defers, pidfile, options>>

(* The data directory's API config file becomes the supplied one. *)
loadIndexerParamConfig ==
    LET found == GetConfigFromDataDir(cfg.dirApiConfigs)
    IN  /\ Running /\ pc = "loadIndexerParamConfig"
        /\ IF \/ cfg.apiConfig # {} /\ cfg.enableAll = "yes"
              \/ found = "error"
              \/ found = "found" /\ cfg.apiConfig # {}
             THEN Leave("error")
             ELSE /\ cfg' = IF found = "found"
                              THEN [cfg EXCEPT !.apiConfig = {cfg.dirApiConfigs[1]}] ELSE cfg
                  /\ Go("CreateIndexerPidFile") /\ UNCHANGED <<defers, pidfile, options>>

(* The removal is deferred once the file is there and written. *)
CreateIndexerPidFile ==
    /\ Running /\ pc = "CreateIndexerPidFile"
    /\ CASE cfg.pid = "none" ->
              Go("StartCPUProfile") /\ UNCHANGED <<cfg, defers, pidfile, options>>
         [] cfg.pid = "ok" -> /\ pidfile' = TRUE /\ defers' = defers \cup {"pid"}
                              /\ Go("StartCPUProfile") /\ UNCHANGED <<cfg, options>>
         [] cfg.pid = "cannot be created" -> Leave("error")
         [] cfg.pid = "cannot be written" ->
              /\ pc' = "done" /\ ended' = "error" /\ pidfile' = TRUE
              /\ UNCHANGED <<cfg, defers, signal, options, serving>>

(* The profile, and the goroutine that waits for a signal. *)
StartCPUProfile ==
    /\ Running /\ pc = "StartCPUProfile"
    /\ IF cfg.profile = "fails" THEN Leave("error")
       ELSE /\ defers' = IF cfg.profile = "ok" THEN defers \cup {"profile"} ELSE defers
            /\ Go("indexerDbFromFlags") /\ UNCHANGED <<cfg, pidfile, options>>

(* Mutant: maybeFail calls os.Exit. *)
indexerDbFromFlagsExits ==
    /\ Running /\ pc = "indexerDbFromFlags"
    /\ CASE cfg.db = "fails" -> /\ pc' = "done" /\ ended' = "exit"
                                /\ UNCHANGED <<cfg, defers, pidfile, signal, options, serving>>
         [] cfg.db = "none" -> Leave("error")
         [] OTHER -> /\ defers' = defers \cup {"db"}
                     /\ Go("makeOptions") /\ UNCHANGED <<cfg, pidfile, options>>

(* maybeFail panics with exit, which main's exitHandler recovers. *)
indexerDbFromFlags ==
    /\ Running /\ pc = "indexerDbFromFlags"
    /\ CASE cfg.db = "fails" -> Leave("exit")
         [] cfg.db = "none" -> Leave("error")
         [] OTHER -> /\ defers' = defers \cup {"db"}
                     /\ Go("makeOptions") /\ UNCHANGED <<cfg, pidfile, options>>

(* The DisabledMapConfig of makeOptions, none if the file is wrong. *)
disabledMapConfig ==
    IF cfg.apiConfig # {}
      THEN UNION {MakeDisabledMapConfigFromFile(f) : f \in cfg.apiConfig}
      ELSE {IF cfg.enableAll = "yes" THEN MakeDisabledMapConfig ELSE DefaultDisabledMapConfig}

makeOptions ==
    /\ Running /\ pc = "makeOptions"
    /\ IF disabledMapConfig = {} THEN Leave("exit")
       ELSE /\ \E config \in disabledMapConfig :
                 options' = [disabledConfig |-> config, developerMode |-> cfg.developerMode,
                             tokens |-> cfg.token, maxAccountListSize |-> cfg.maxAccountListSize]
            /\ Go("Serve") /\ UNCHANGED <<cfg, defers, pidfile>>

-----------------------------------------------------------------------------
(* Serving: Serve up to the wait for the context, and its goroutine. *)
Serve ==
    /\ Running /\ pc = "Serve"
    /\ IF ~validate(options.disabledConfig) THEN Fatal
       ELSE /\ pc' = "serving" /\ listener' = "starting"
            /\ UNCHANGED <<cfg, defers, pidfile, signal, options, ended, request, stage, requests>>

StartServer ==
    /\ Running /\ listener = "starting"
    /\ IF ~cfg.portFree THEN Fatal
       ELSE /\ listener' = "open"
            /\ UNCHANGED <<cfg, pc, defers, pidfile, signal, options, ended, request, stage, requests>>

(* StartServer returns ErrServerClosed, which is an error like any other. *)
StartServerReturns == Running /\ listener = "closing" /\ Fatal

(* SIGTERM or SIGINT: deadly until signal.Notify has been called. *)
Signal ==
    /\ Running /\ signal = "none"
    /\ IF pc \in {"indexerDbFromFlags", "makeOptions", "Serve", "serving"}
         THEN signal' = "sent" /\ ended' = ended ELSE signal' = signal /\ ended' = "killed"
    /\ UNCHANGED <<cfg, pc, defers, pidfile, options, serving>>

(* Mutant: the goroutine logs and does not cancel the context. *)
HandleSignalOnlyLogs ==
    /\ Running /\ signal = "sent" /\ signal' = "logged"
    /\ UNCHANGED <<cfg, pc, defers, pidfile, options, ended, serving>>

HandleSignal ==
    /\ Running /\ signal = "sent" /\ signal' = "handled"
    /\ UNCHANGED <<cfg, pc, defers, pidfile, options, ended, serving>>

(* e.Shutdown closes the server that StartServer was given, or one that    *)
(* echo keeps for itself: the code relies on neither.                      *)
Shutdown ==
    /\ Running /\ pc = "serving" /\ signal = "handled"
    /\ pc' = "Shutdown" /\ listener' \in {listener, "closing"}
    /\ UNCHANGED <<cfg, defers, pidfile, signal, options, ended, request, stage, requests>>

(* It waits for requests to end, for a second at most. *)
ShutdownReturns ==
    /\ Running /\ pc = "Shutdown"
    /\ IF listener = "closing" /\ stage \notin {"none", "answered"}
         THEN Fatal ELSE Leave("ok")

-----------------------------------------------------------------------------
(* A request. *)
To(next) ==
    stage' = next /\ UNCHANGED <<cfg, pc, defers, pidfile, signal, options, listener, ended,
                                 request, requests>>
Answer == To("answered")

(* /health has no middleware. *)
Arrive ==
    /\ Running /\ listener = "open" /\ stage \in {"none", "answered"} /\ requests < MaxRequests
    /\ \E r \in Requests :
         /\ request' = {r} /\ requests' = requests + 1
         /\ stage' = IF r.op = "MakeHealthCheck" THEN "query" ELSE "migration"
    /\ UNCHANGED <<cfg, pc, defers, pidfile, signal, options, listener, ended>>

(* Health fails, or says the database is unavailable, or is fine. *)
migrationHandler == Running /\ stage = "migration" /\ (Answer \/ To("auth"))

authHandler ==
    /\ Running /\ stage = "auth"
    /\ \E r \in request : IF options.tokens => r.token \in {"header", "bearer"}
                          THEN To("wrapper") ELSE Answer

(* The parameters that came, in the path or in the query. *)
Given(r) ==
    [n \in DOMAIN r.path \cup DOMAIN r.query |->
       IF n \in DOMAIN r.path THEN r.path[n] ELSE r.query[n]]

wrapper ==
    /\ Running /\ stage = "wrapper"
    /\ \E r \in request : IF Binds(r.op, Given(r)) THEN To("handler") ELSE Answer

(* What the wrapper hands to the handler. *)
Bound(r) ==
    [op |-> r.op, query |-> r.query,
     args |-> [n \in AllParams(r.op) \cap DOMAIN Given(r) |-> Given(r)[n]]]

ServerImplementation ==
    [disabled |-> MakeDisabledMapFromOA3(options.disabledConfig),
     developerMode |-> options.developerMode,
     maxAccountListSize |-> options.maxAccountListSize]

handle ==
    /\ Running /\ stage = "handler"
    /\ \E si \in {ServerImplementation}, ctx \in {Bound(r) : r \in request} :
         IF Handler(si, ctx) = Query THEN To("query") ELSE Answer

(* The database answers, or the request's time or context ends. *)
DatabaseAnswers == Running /\ stage = "query" /\ Answer

-----------------------------------------------------------------------------
runDaemon ==
    \/ configureIndexerDataDir \/ resolveConfigFile \/ loadIndexerParamConfig
    \/ CreateIndexerPidFile \/ StartCPUProfile \/ indexerDbFromFlags \/ makeOptions
    \/ Serve \/ Shutdown \/ ShutdownReturns

serverGoroutine == StartServer \/ StartServerReturns
requestGoroutine == migrationHandler \/ authHandler \/ wrapper \/ handle \/ DatabaseAnswers

Next == runDaemon \/ serverGoroutine \/ Signal \/ HandleSignal \/ Arrive \/ requestGoroutine

(* Goroutines that can go on do; nobody has to send a request or a signal. *)
Spec == Init /\ [][Next]_vars /\ WF_vars(runDaemon) /\ WF_vars(serverGoroutine)
             /\ WF_vars(HandleSignal) /\ WF_vars(requestGoroutine)

-----------------------------------------------------------------------------
(* The variables of the daemon have their types, and a request has a place  *)
(* in the pipeline exactly when there has been one.                        *)
TypeOK ==
    /\ pc \in {"configureIndexerDataDir", "resolveConfigFile", "loadIndexerParamConfig",
               "CreateIndexerPidFile", "StartCPUProfile", "indexerDbFromFlags", "makeOptions",
               "Serve", "serving", "Shutdown", "done"}
    /\ defers \subseteq {"pid", "profile", "db"} /\ pidfile \in BOOLEAN
    /\ signal \in {"none", "sent", "handled"}
    /\ listener \in {"none", "starting", "open", "closing"}
    /\ ended \in {"no", "ok", "error", "exit", "fatal", "killed"}
    /\ stage \in {"none", "migration", "auth", "wrapper", "handler", "query", "answered"}
    /\ requests \in 0 .. MaxRequests
    /\ (request = {} <=> requests = 0) /\ (request = {} <=> stage = "none")

(* However runDaemon ends, by an error, by a panic with exit or after a     *)
(* shutdown, the pid file it wrote is gone; and while it serves the file   *)
(* that was asked for is there. What ends the process without runDaemon    *)
(* (log.Fatal, an early signal) is not promised this.                      *)
PidFileFollowsProcess ==
    /\ (ended \in {"ok", "error", "exit"} /\ cfg.pid # "cannot be written") => ~pidfile
    /\ (Running /\ pc = "serving") => pidfile = (cfg.pid = "ok")

(* What api-config prints for the configuration in force, in full or       *)
(* limited to what is disabled, is a valid file, and a daemon started with *)
(* that file refuses the same requests.                                    *)
DisplayRoundTrips ==
    pc = "Serve" =>
      \A limited \in BOOLEAN :
        \E config \in MakeDisabledMapConfigFromFile(
                         MakeDisplayDisabledMapFromConfig(options.disabledConfig, limited)) :
          MakeDisabledMapFromOA3(config) = MakeDisabledMapFromOA3(options.disabledConfig)

(* The parameters that the settings disable for a path: those of the API    *)
(* config file if there is one, else none or the default ones.             *)
DisabledBySettings(path) ==
    IF cfg.apiConfig # {}
      THEN {e[2] : e \in {d \in UNION {f[path] : f \in {g \in cfg.apiConfig : path \in DOMAIN g}} :
                            d[3] = "disabled"}}
    ELSE IF cfg.enableAll = "yes" \/ path \notin DOMAIN DefaultDisabledMapConfig THEN {}
    ELSE DefaultDisabledMapConfig[path]

(* The endpoints whose handler works on a request: its own and the one it   *)
(* hands its parameters to.                                                *)
Handlers(op) ==
    {op} \cup (CASE op = "LookupAccountCreatedApplications" -> {"SearchForApplications"}
                 [] op = "LookupAccountCreatedAssets" -> {"SearchForAssets"}
                 [] op \in {"LookupAccountTransactions", "LookupAssetTransactions"} ->
                      {"SearchForTransactions"}
                 [] OTHER -> {})

AtDatabase == {r \in request : stage = "query" /\ r.op # "MakeHealthCheck"}

(* A request gets to the database only with a right token, where one is     *)
(* configured, through endpoints that are not disabled, and without a      *)
(* parameter that the settings in force disable for one of them.           *)
QueriesAllowed ==
    \A r \in AtDatabase :
      /\ cfg.token => r.token \in {"header", "bearer"}
      /\ \A op \in Handlers(r.op) : \A n \in DisabledBySettings(PathOf(op)) :
           /\ ~Required(op, n)
           /\ n \in DOMAIN r.query => r.query[n] = Empty

(* A request gets to the database only if it means something: no malformed  *)
(* or undecodable value, no round or id that a signed column cannot hold,  *)
(* no filters that contradict each other, a list of accounts no longer than *)
(* allowed, and a rewinding search only in developer mode. Limits, amounts, *)
(* names and the tokens of transactions are not checked.                   *)
QueriesMakeSense ==
    \A r \in AtDatabase :
      LET args   == Bound(r).args
          given  == DOMAIN args
          free   == (IF "SearchForTransactions" \in Handlers(r.op)
                        \/ r.op = "LookupApplicationLogsByID" THEN {"next"} ELSE {})
                    \cup (IF r.op = "SearchForAssets" THEN {"name", "unit"} ELSE {"include"})
          on(n)  == n \in given /\ args[n] = 1
      IN  /\ \A n \in given \ free : args[n] \notin {Malformed, Undecodable}
          /\ \A n \in given \cap {"asset-id", "application-id", "round", "round-number",
                                  "min-round", "max-round"} : args[n] <= MaxInt64
          /\ {"min-round", "max-round"} \subseteq given /\ args["max-round"] # 0
               => args["min-round"] <= args["max-round"]
          /\ "round" \in given => \A n \in given \cap {"min-round", "max-round"} : args[n] = 0
          /\ r.op = "SearchForAccounts" /\ "round" \in given
               => cfg.developerMode /\ ~on("online-only")
          /\ ~(on("online-only") /\ on("include-all"))
          /\ LET lists == given \cap {"proposers", "expired", "absent"}
             IN  /\ \A m, n \in lists : m = n
                 /\ \A n \in lists : args[n] <= cfg.maxAccountListSize

(* A signal that the daemon catches ends it, whatever it is doing. *)
SignalEnds == signal = "sent" ~> ended # "no"

=============================================================================
