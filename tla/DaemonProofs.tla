----------------------------- MODULE DaemonProofs -----------------------------
(***************************************************************************)
(* Proofs about the daemon: what it promises of its pid file, of the       *)
(* configuration that api-config prints and of the requests that get to    *)
(* the database, for all settings and requests.                            *)
(***************************************************************************)
EXTENDS Daemon, TLAPS

-----------------------------------------------------------------------------
(* The inductive invariant. *)
Fields == {"enableAll", "apiConfig", "pid", "developerMode", "token", "maxAccountListSize"}

CfgInv ==
    /\ Fields \subseteq DOMAIN cfg
    /\ cfg.pid \in {"none", "ok", "cannot be created", "cannot be written"}
    /\ cfg.maxAccountListSize \in Nat
    /\ \A f, g \in cfg.apiConfig : f = g

BeforePid == {"configureIndexerDataDir", "resolveConfigFile", "loadIndexerParamConfig",
              "CreateIndexerPidFile"}

(* While the daemon runs, its removal is deferred exactly when the file is  *)
(* there, which is when it was asked for and the step that writes it is    *)
(* behind; and when runDaemon has ended, the file is gone.                 *)
PidInv ==
    /\ Running => (pidfile <=> "pid" \in defers)
    /\ Running /\ pc \in BeforePid => ~pidfile
    /\ Running /\ pc \notin BeforePid => (pidfile <=> cfg.pid = "ok")
    /\ ended \in {"ok", "error", "exit"} /\ cfg.pid # "cannot be written" => ~pidfile

(* The options come from the settings, and from Serve on they are valid. *)
OptionsMade ==
    /\ options.disabledConfig \in disabledMapConfig
    /\ options.tokens = cfg.token /\ options.developerMode = cfg.developerMode
    /\ options.maxAccountListSize = cfg.maxAccountListSize

OptionsInv ==
    /\ pc \in {"Serve", "serving", "Shutdown"} => OptionsMade
    /\ listener # "none" => /\ pc \in {"serving", "Shutdown", "done"}
                            /\ OptionsMade /\ validate(options.disabledConfig)
    /\ pc \in {"serving", "Shutdown"} \/ stage # "none" => listener # "none"

(* What a request has passed when it is at a stage. *)
HasToken(r) == options.tokens => r.token \in {"header", "bearer"}
PassedHandler(r) == Handler(ServerImplementation, Bound(r)) = Query

RequestInv ==
    /\ request \subseteq Requests /\ \A q, r \in request : q = r
    /\ \A r \in request : r.op # "MakeHealthCheck" =>
         /\ stage \in {"wrapper", "handler", "query"} => HasToken(r)
         /\ stage \in {"handler", "query"} => Binds(r.op, Given(r))
         /\ stage = "query" => PassedHandler(r)

IInv == TypeOK /\ CfgInv /\ PidInv /\ OptionsInv /\ RequestInv

-----------------------------------------------------------------------------
(* The initial states, and what steps leave alone. *)
LEMMA InitHolds == Init => IInv
<1> SUFFICES ASSUME Init PROVE IInv
  BY Zenon
<1>1. TypeOK
  <2>1. MaxRequests \in Nat
    BY Zenon, RequestsAssumption
  <2>2. requests \in 0 .. MaxRequests
    BY <2>1 DEF Init
  <2> QED
    BY Zenon, <2>2 DEF Init, TypeOK
<1>2. CfgInv
  BY Zenon, SettingsAssumption DEF Init, CfgInv, Fields
<1>3. PidInv
  BY Zenon DEF Init, PidInv, Running, BeforePid
<1>4. OptionsInv
  BY Zenon DEF Init, OptionsInv
<1>5. RequestInv
  BY Zenon DEF Init, RequestInv
<1> QED
  BY Zenon, <1>1, <1>2, <1>3, <1>4, <1>5 DEF IInv

LEMMA SameOptions ==
  ASSUME UNCHANGED <<cfg, options>>
  PROVE  /\ OptionsMade' <=> OptionsMade
         /\ validate(options.disabledConfig)' <=> validate(options.disabledConfig)
  BY Zenon DEF OptionsMade, disabledMapConfig

LEMMA SameCfg ==
  ASSUME CfgInv, UNCHANGED cfg PROVE CfgInv'
  BY Zenon DEF CfgInv

LEMMA SamePassed ==
  ASSUME UNCHANGED options, NEW r
  PROVE  /\ HasToken(r)' <=> HasToken(r)
         /\ PassedHandler(r)' <=> PassedHandler(r)
  BY Zenon DEF HasToken, PassedHandler, ServerImplementation

LEMMA SameRequests ==
  ASSUME RequestInv, UNCHANGED <<options, request, stage>>
  PROVE  RequestInv'
<1>1. request' \subseteq Requests /\ \A q, r \in request' : q = r
  BY Zenon DEF RequestInv
<1>2. ASSUME NEW r \in request, r.op # "MakeHealthCheck"
      PROVE  /\ stage \in {"wrapper", "handler", "query"} => HasToken(r)'
             /\ stage \in {"handler", "query"} => Binds(r.op, Given(r))
             /\ stage = "query" => PassedHandler(r)'
  BY Zenon, <1>2, SamePassed DEF RequestInv
<1> QED
  BY Zenon, <1>1, <1>2 DEF RequestInv

-----------------------------------------------------------------------------
(* The ends of the process. *)
LEMMA LeaveKeeps ==
  ASSUME IInv, Running, NEW how \in {"ok", "error", "exit"}, Leave(how)
  PROVE  IInv'
<1>1. TypeOK'
  BY Zenon DEF IInv, Leave, TypeOK, serving
<1>2. CfgInv'
  BY Zenon, SameCfg DEF IInv, Leave
<1>3. PidInv'
  BY Zenon DEF IInv, Leave, PidInv, Running
<1>4. OptionsInv'
  <2>1. UNCHANGED <<cfg, options, listener, stage>> /\ pc' = "done"
    BY Zenon DEF Leave, serving
  <2> QED
    BY Zenon, <2>1, SameOptions DEF IInv, OptionsInv
<1>5. RequestInv'
  BY Zenon, SameRequests DEF IInv, Leave, serving
<1> QED
  BY Zenon, <1>1, <1>2, <1>3, <1>4, <1>5 DEF IInv

LEMMA FatalKeeps ==
  ASSUME IInv, Running, Fatal
  PROVE  IInv'
<1>1. TypeOK'
  BY DEF IInv, Fatal, TypeOK, serving
<1>2. CfgInv'
  BY Zenon, SameCfg DEF IInv, Fatal
<1>3. PidInv'
  BY Zenon DEF IInv, Fatal, PidInv, Running
<1>4. OptionsInv'
  <2>1. UNCHANGED <<cfg, options, listener, stage, pc>>
    BY Zenon DEF Fatal, serving
  <2> QED
    BY Zenon, <2>1, SameOptions DEF IInv, OptionsInv
<1>5. RequestInv'
  BY Zenon, SameRequests DEF IInv, Fatal, serving
<1> QED
  BY Zenon, <1>1, <1>2, <1>3, <1>4, <1>5 DEF IInv

LEMMA StutterKeeps ==
  ASSUME IInv, UNCHANGED vars
  PROVE  IInv'
<1>1. TypeOK'
  BY DEF IInv, vars, TypeOK
<1>2. CfgInv'
  BY Zenon, SameCfg DEF IInv, vars
<1>3. PidInv'
  BY Zenon DEF IInv, vars, PidInv, Running
<1>4. OptionsInv'
  <2>1. UNCHANGED <<cfg, options, listener, stage, pc>>
    BY Zenon DEF vars
  <2> QED
    BY Zenon, <2>1, SameOptions DEF IInv, OptionsInv
<1>5. RequestInv'
  BY Zenon, SameRequests DEF IInv, vars
<1> QED
  BY Zenon, <1>1, <1>2, <1>3, <1>4, <1>5 DEF IInv

-----------------------------------------------------------------------------
(* The steps of the start. *)

(* A step of the start that goes on and makes no options. *)
LEMMA GoKeeps ==
  ASSUME IInv, Running, NEW next, Go(next), UNCHANGED options,
         pc \notin {"Serve", "serving", "Shutdown", "done"},
         next \in {"resolveConfigFile", "loadIndexerParamConfig", "CreateIndexerPidFile",
                   "StartCPUProfile", "indexerDbFromFlags", "makeOptions"},
         defers' \subseteq {"pid", "profile", "db"}, pidfile' \in BOOLEAN,
         CfgInv', PidInv'
  PROVE  IInv'
<1>1. TypeOK'
  BY DEF IInv, Go, TypeOK, serving
<1>2. OptionsInv'
  BY Zenon DEF IInv, Go, OptionsInv, serving
<1>3. RequestInv'
  BY Zenon, SameRequests DEF IInv, Go, serving
<1> QED
  BY Zenon, <1>1, <1>2, <1>3 DEF IInv

LEMMA configureIndexerDataDirKeeps ==
  ASSUME IInv, configureIndexerDataDir PROVE IInv'
<1>1. CASE cfg.dataDir = "unusable"
  BY Zenon, <1>1, LeaveKeeps DEF configureIndexerDataDir
<1>2. CASE cfg.dataDir # "unusable"
  <2>1. /\ Running /\ pc = "configureIndexerDataDir" /\ Go("resolveConfigFile")
        /\ UNCHANGED <<cfg, defers, pidfile, options>>
    BY Zenon, <1>2 DEF configureIndexerDataDir
  <2>2. CfgInv'
    BY Zenon, <2>1, SameCfg DEF IInv
  <2>3. PidInv'
    BY Zenon, <2>1 DEF IInv, PidInv, Go, Running, BeforePid
  <2>4. defers' \subseteq {"pid", "profile", "db"} /\ pidfile' \in BOOLEAN
    BY Zenon, <2>1 DEF IInv, TypeOK
  <2> QED
    BY Zenon, <2>1, <2>2, <2>3, <2>4, GoKeeps
<1> QED
  BY Zenon, <1>1, <1>2

LEMMA resolveConfigFileKeeps ==
  ASSUME IInv, resolveConfigFile PROVE IInv'
<1>1. CASE Leave("error")
  BY Zenon, <1>1, LeaveKeeps DEF resolveConfigFile
<1>2. CASE ~Leave("error")
  <2>1. /\ Running /\ pc = "resolveConfigFile" /\ Go("loadIndexerParamConfig")
        /\ UNCHANGED <<defers, pidfile, options>>
        /\ cfg' \in {[cfg EXCEPT !.enableAll = "yes"], cfg}
    BY Zenon, <1>2 DEF resolveConfigFile
  <2>2. CfgInv' /\ cfg'.pid = cfg.pid
    BY Zenon, <2>1 DEF IInv, CfgInv, Fields
  <2>3. PidInv'
    BY Zenon, <2>1, <2>2 DEF IInv, PidInv, Go, Running, BeforePid
  <2>4. defers' \subseteq {"pid", "profile", "db"} /\ pidfile' \in BOOLEAN
    BY Zenon, <2>1 DEF IInv, TypeOK
  <2> QED
    BY Zenon, <2>1, <2>2, <2>3, <2>4, GoKeeps
<1> QED
  BY Zenon, <1>1, <1>2

LEMMA loadIndexerParamConfigKeeps ==
  ASSUME IInv, loadIndexerParamConfig PROVE IInv'
<1>1. CASE Leave("error")
  BY Zenon, <1>1, LeaveKeeps DEF loadIndexerParamConfig
<1>2. CASE ~Leave("error")
  <2>1. /\ Running /\ pc = "loadIndexerParamConfig" /\ Go("CreateIndexerPidFile")
        /\ UNCHANGED <<defers, pidfile, options>>
        /\ cfg' \in {[cfg EXCEPT !.apiConfig = {cfg.dirApiConfigs[1]}], cfg}
    BY Zenon, <1>2 DEF loadIndexerParamConfig
  <2>2. CfgInv' /\ cfg'.pid = cfg.pid
    BY Zenon, <2>1 DEF IInv, CfgInv, Fields
  <2>3. PidInv'
    BY Zenon, <2>1, <2>2 DEF IInv, PidInv, Go, Running, BeforePid
  <2>4. defers' \subseteq {"pid", "profile", "db"} /\ pidfile' \in BOOLEAN
    BY Zenon, <2>1 DEF IInv, TypeOK
  <2> QED
    BY Zenon, <2>1, <2>2, <2>3, <2>4, GoKeeps
<1> QED
  BY Zenon, <1>1, <1>2

LEMMA CreateIndexerPidFileKeeps ==
  ASSUME IInv, CreateIndexerPidFile PROVE IInv'
<1>0. Running /\ pc = "CreateIndexerPidFile" /\ cfg.pid \in {"none", "ok", "cannot be created",
                                                            "cannot be written"}
  BY Zenon DEF CreateIndexerPidFile, IInv, CfgInv
<1>1. CASE cfg.pid = "none"
  <2>1. Go("StartCPUProfile") /\ UNCHANGED <<cfg, defers, pidfile, options>>
    BY Zenon, <1>1 DEF CreateIndexerPidFile
  <2>2. CfgInv'
    BY Zenon, <2>1, SameCfg DEF IInv
  <2>3. PidInv'
    BY Zenon, <1>0, <1>1, <2>1 DEF IInv, PidInv, Go, Running, BeforePid
  <2>4. defers' \subseteq {"pid", "profile", "db"} /\ pidfile' \in BOOLEAN
    BY Zenon, <2>1 DEF IInv, TypeOK
  <2> QED
    BY Zenon, <1>0, <2>1, <2>2, <2>3, <2>4, GoKeeps
<1>2. CASE cfg.pid = "ok"
  <2>1. /\ Go("StartCPUProfile") /\ UNCHANGED <<cfg, options>>
        /\ pidfile' = TRUE /\ defers' = defers \cup {"pid"}
    BY Zenon, <1>2 DEF CreateIndexerPidFile
  <2>2. CfgInv'
    BY Zenon, <2>1, SameCfg DEF IInv
  <2>3. PidInv'
    BY Zenon, <1>0, <1>2, <2>1 DEF IInv, PidInv, Go, Running, BeforePid
  <2>4. defers' \subseteq {"pid", "profile", "db"} /\ pidfile' \in BOOLEAN
    BY Zenon, <2>1 DEF IInv, TypeOK
  <2> QED
    BY Zenon, <1>0, <2>1, <2>2, <2>3, <2>4, GoKeeps
<1>3. CASE cfg.pid = "cannot be created"
  <2>1. Leave("error")
    BY Zenon, <1>3 DEF CreateIndexerPidFile
  <2> QED
    BY Zenon, <1>0, <2>1, LeaveKeeps
<1>4. CASE cfg.pid = "cannot be written"
  <2>1. /\ pc' = "done" /\ ended' = "error" /\ pidfile' = TRUE
        /\ UNCHANGED <<cfg, defers, signal, options, listener, request, stage, requests>>
    BY Zenon, <1>4 DEF CreateIndexerPidFile, serving
  <2>2. TypeOK'
    BY Zenon, <2>1 DEF IInv, TypeOK
  <2>3. CfgInv'
    BY Zenon, <2>1, SameCfg DEF IInv
  <2>4. PidInv'
    BY Zenon, <1>4, <2>1 DEF PidInv, Running
  <2>5. OptionsInv'
    BY Zenon, <2>1, SameOptions DEF IInv, OptionsInv
  <2>6. RequestInv'
    BY Zenon, <2>1, SameRequests DEF IInv
  <2> QED
    BY Zenon, <2>2, <2>3, <2>4, <2>5, <2>6 DEF IInv
<1> QED
  BY Zenon, <1>0, <1>1, <1>2, <1>3, <1>4

LEMMA StartCPUProfileKeeps ==
  ASSUME IInv, StartCPUProfile PROVE IInv'
<1>1. CASE cfg.profile = "fails"
  BY Zenon, <1>1, LeaveKeeps DEF StartCPUProfile
<1>2. CASE cfg.profile # "fails"
  <2>1. /\ Running /\ pc = "StartCPUProfile" /\ Go("indexerDbFromFlags")
        /\ UNCHANGED <<cfg, pidfile, options>>
        /\ defers' \in {defers, defers \cup {"profile"}}
    BY Zenon, <1>2 DEF StartCPUProfile
  <2>2. CfgInv'
    BY Zenon, <2>1, SameCfg DEF IInv
  <2>3. PidInv'
    BY Zenon, <2>1 DEF IInv, PidInv, Go, Running, BeforePid
  <2>4. defers' \subseteq {"pid", "profile", "db"} /\ pidfile' \in BOOLEAN
    BY Zenon, <2>1 DEF IInv, TypeOK
  <2> QED
    BY Zenon, <2>1, <2>2, <2>3, <2>4, GoKeeps
<1> QED
  BY Zenon, <1>1, <1>2

LEMMA indexerDbFromFlagsKeeps ==
  ASSUME IInv, indexerDbFromFlags PROVE IInv'
<1>1. CASE Leave("exit") \/ Leave("error")
  BY Zenon, <1>1, LeaveKeeps DEF indexerDbFromFlags
<1>2. CASE ~(Leave("exit") \/ Leave("error"))
  <2>1. /\ Running /\ pc = "indexerDbFromFlags" /\ Go("makeOptions")
        /\ UNCHANGED <<cfg, pidfile, options>> /\ defers' = defers \cup {"db"}
    BY Zenon, <1>2 DEF indexerDbFromFlags
  <2>2. CfgInv'
    BY Zenon, <2>1, SameCfg DEF IInv
  <2>3. PidInv'
    BY Zenon, <2>1 DEF IInv, PidInv, Go, Running, BeforePid
  <2>4. defers' \subseteq {"pid", "profile", "db"} /\ pidfile' \in BOOLEAN
    BY Zenon, <2>1 DEF IInv, TypeOK
  <2> QED
    BY Zenon, <2>1, <2>2, <2>3, <2>4, GoKeeps
<1> QED
  BY Zenon, <1>1, <1>2

LEMMA makeOptionsKeeps ==
  ASSUME IInv, makeOptions PROVE IInv'
<1>1. CASE disabledMapConfig = {}
  BY Zenon, <1>1, LeaveKeeps DEF makeOptions
<1>2. CASE disabledMapConfig # {}
  <2>1. /\ Running /\ pc = "makeOptions" /\ pc' = "Serve"
        /\ UNCHANGED <<cfg, defers, pidfile, ended, signal, listener, request, stage, requests>>
    BY Zenon, <1>2 DEF makeOptions, Go, serving
  <2>2. PICK config \in disabledMapConfig :
          options' = [disabledConfig |-> config, developerMode |-> cfg.developerMode,
                      tokens |-> cfg.token, maxAccountListSize |-> cfg.maxAccountListSize]
    BY Zenon, <1>2 DEF makeOptions
  <2>3. disabledMapConfig' = disabledMapConfig
    BY Zenon, <2>1 DEF disabledMapConfig
  <2>4. OptionsMade'
    BY Zenon, <2>1, <2>2, <2>3 DEF OptionsMade
  <2>5. listener = "none" /\ stage = "none" /\ request = {}
    BY Zenon, <2>1 DEF IInv, OptionsInv, TypeOK
  <2>6. TypeOK'
    BY <2>1 DEF IInv, TypeOK
  <2>7. CfgInv'
    BY Zenon, <2>1, SameCfg DEF IInv
  <2>8. PidInv'
    BY Zenon, <2>1 DEF IInv, PidInv, Running, BeforePid
  <2>9. OptionsInv'
    BY Zenon, <2>1, <2>4, <2>5 DEF OptionsInv
  <2>10. RequestInv'
    BY Zenon, <2>1, <2>5 DEF RequestInv
  <2> QED
    BY Zenon, <2>6, <2>7, <2>8, <2>9, <2>10 DEF IInv
<1> QED
  BY Zenon, <1>1, <1>2

-----------------------------------------------------------------------------
(* The steps of serving and the signal. *)
LEMMA ServeKeeps ==
  ASSUME IInv, Serve PROVE IInv'
<1>1. CASE ~validate(options.disabledConfig)
  BY Zenon, <1>1, FatalKeeps DEF Serve
<1>2. CASE validate(options.disabledConfig)
  <2>1. /\ Running /\ pc = "Serve" /\ pc' = "serving" /\ listener' = "starting"
        /\ UNCHANGED <<cfg, defers, pidfile, signal, options, ended, request, stage, requests>>
    BY Zenon, <1>2 DEF Serve
  <2>2. TypeOK'
    BY Zenon, <2>1 DEF IInv, TypeOK
  <2>3. CfgInv'
    BY Zenon, <2>1, SameCfg DEF IInv
  <2>4. PidInv'
    BY Zenon, <2>1 DEF IInv, PidInv, Running, BeforePid
  <2>5. OptionsInv'
    BY Zenon, <1>2, <2>1, SameOptions DEF IInv, OptionsInv
  <2>6. RequestInv'
    BY Zenon, <2>1, SameRequests DEF IInv
  <2> QED
    BY Zenon, <2>2, <2>3, <2>4, <2>5, <2>6 DEF IInv
<1> QED
  BY Zenon, <1>1, <1>2

LEMMA StartServerKeeps ==
  ASSUME IInv, StartServer PROVE IInv'
<1>1. CASE ~cfg.portFree
  BY Zenon, <1>1, FatalKeeps DEF StartServer
<1>2. CASE cfg.portFree
  <2>1. /\ Running /\ listener = "starting" /\ listener' = "open"
        /\ UNCHANGED <<cfg, pc, defers, pidfile, signal, options, ended, request, stage, requests>>
    BY Zenon, <1>2 DEF StartServer
  <2>2. TypeOK'
    BY <2>1 DEF IInv, TypeOK
  <2>3. CfgInv'
    BY Zenon, <2>1, SameCfg DEF IInv
  <2>4. PidInv'
    BY Zenon, <2>1 DEF IInv, PidInv, Running
  <2>5. OptionsInv'
    BY Zenon, <2>1, SameOptions DEF IInv, OptionsInv
  <2>6. RequestInv'
    BY Zenon, <2>1, SameRequests DEF IInv
  <2> QED
    BY Zenon, <2>2, <2>3, <2>4, <2>5, <2>6 DEF IInv
<1> QED
  BY Zenon, <1>1, <1>2

LEMMA StartServerReturnsKeeps ==
  ASSUME IInv, StartServerReturns PROVE IInv'
  BY Zenon, FatalKeeps DEF StartServerReturns

LEMMA SignalKeeps ==
  ASSUME IInv, Signal PROVE IInv'
<1>1. /\ Running /\ ended' \in {ended, "killed"} /\ signal' \in {signal, "sent"}
      /\ UNCHANGED <<cfg, pc, defers, pidfile, options, listener, request, stage, requests>>
  BY Zenon DEF Signal, serving
<1>2. TypeOK'
  BY <1>1 DEF IInv, TypeOK
<1>3. CfgInv'
  BY Zenon, <1>1, SameCfg DEF IInv
<1>4. PidInv'
  BY Zenon, <1>1 DEF IInv, PidInv, Running
<1>5. OptionsInv'
  BY Zenon, <1>1, SameOptions DEF IInv, OptionsInv
<1>6. RequestInv'
  BY Zenon, <1>1, SameRequests DEF IInv
<1> QED
  BY Zenon, <1>2, <1>3, <1>4, <1>5, <1>6 DEF IInv

LEMMA HandleSignalKeeps ==
  ASSUME IInv, HandleSignal PROVE IInv'
<1>1. /\ signal' = "handled"
      /\ UNCHANGED <<cfg, pc, defers, pidfile, options, ended, listener, request, stage, requests>>
  BY Zenon DEF HandleSignal, serving
<1>2. TypeOK'
  BY <1>1 DEF IInv, TypeOK
<1>3. CfgInv'
  BY Zenon, <1>1, SameCfg DEF IInv
<1>4. PidInv'
  BY Zenon, <1>1 DEF IInv, PidInv, Running
<1>5. OptionsInv'
  BY Zenon, <1>1, SameOptions DEF IInv, OptionsInv
<1>6. RequestInv'
  BY Zenon, <1>1, SameRequests DEF IInv
<1> QED
  BY Zenon, <1>2, <1>3, <1>4, <1>5, <1>6 DEF IInv

LEMMA ShutdownKeeps ==
  ASSUME IInv, Shutdown PROVE IInv'
<1>1. /\ Running /\ pc = "serving" /\ pc' = "Shutdown" /\ listener' \in {listener, "closing"}
      /\ UNCHANGED <<cfg, defers, pidfile, signal, options, ended, request, stage, requests>>
  BY Zenon DEF Shutdown
<1>2. TypeOK'
  BY <1>1 DEF IInv, TypeOK
<1>3. CfgInv'
  BY Zenon, <1>1, SameCfg DEF IInv
<1>4. PidInv'
  BY Zenon, <1>1 DEF IInv, PidInv, Running, BeforePid
<1>5. OptionsInv'
  BY Zenon, <1>1, SameOptions DEF IInv, OptionsInv
<1>6. RequestInv'
  BY Zenon, <1>1, SameRequests DEF IInv
<1> QED
  BY Zenon, <1>2, <1>3, <1>4, <1>5, <1>6 DEF IInv

LEMMA ShutdownReturnsKeeps ==
  ASSUME IInv, ShutdownReturns PROVE IInv'
  BY Zenon, LeaveKeeps, FatalKeeps DEF ShutdownReturns

-----------------------------------------------------------------------------
(* The steps of a request: it gets to a stage that its checks allow. *)
LEMMA ToKeeps ==
  ASSUME IInv, NEW next \in {"auth", "wrapper", "handler", "query", "answered"}, To(next),
         stage # "none",
         \A r \in request : r.op # "MakeHealthCheck" =>
           /\ next \in {"wrapper", "handler", "query"} => HasToken(r)
           /\ next \in {"handler", "query"} => Binds(r.op, Given(r))
           /\ next = "query" => PassedHandler(r)
  PROVE  IInv'
<1>1. /\ stage' = next
      /\ UNCHANGED <<cfg, pc, defers, pidfile, signal, options, listener, ended, request, requests>>
  BY Zenon DEF To
<1>2. TypeOK'
  BY <1>1 DEF IInv, TypeOK
<1>3. CfgInv'
  BY Zenon, <1>1, SameCfg DEF IInv
<1>4. PidInv'
  BY Zenon, <1>1 DEF IInv, PidInv, Running
<1>5. OptionsInv'
  BY Zenon, <1>1, SameOptions DEF IInv, OptionsInv
<1>6. RequestInv'
  <2>1. request' \subseteq Requests /\ \A q, r \in request' : q = r
    BY Zenon, <1>1 DEF IInv, RequestInv
  <2>2. ASSUME NEW r \in request, r.op # "MakeHealthCheck"
        PROVE  /\ next \in {"wrapper", "handler", "query"} => HasToken(r)'
               /\ next \in {"handler", "query"} => Binds(r.op, Given(r))
               /\ next = "query" => PassedHandler(r)'
    BY Zenon, <1>1, <2>2, SamePassed
  <2> QED
    BY Zenon, <1>1, <2>1, <2>2 DEF RequestInv
<1> QED
  BY Zenon, <1>2, <1>3, <1>4, <1>5, <1>6 DEF IInv

LEMMA AnswerKeeps ==
  ASSUME IInv, stage # "none", Answer PROVE IInv'
  BY Zenon, ToKeeps DEF Answer

LEMMA ArriveKeeps ==
  ASSUME IInv, Arrive PROVE IInv'
<1>1. PICK r \in Requests :
        /\ request' = {r} /\ requests' = requests + 1
        /\ stage' = IF r.op = "MakeHealthCheck" THEN "query" ELSE "migration"
  BY Zenon DEF Arrive
<1>2. /\ listener = "open" /\ requests < MaxRequests
      /\ UNCHANGED <<cfg, pc, defers, pidfile, signal, options, listener, ended>>
  BY Zenon DEF Arrive
<1>3. TypeOK'
  <2>1. requests \in 0 .. MaxRequests /\ MaxRequests \in Nat
    BY Zenon, RequestsAssumption DEF IInv, TypeOK
  <2>2. requests' \in 0 .. MaxRequests /\ requests' # 0
    BY <1>1, <1>2, <2>1
  <2> QED
    BY <1>1, <1>2, <2>2 DEF IInv, TypeOK
<1>4. CfgInv'
  BY Zenon, <1>2, SameCfg DEF IInv
<1>5. PidInv'
  BY Zenon, <1>2 DEF IInv, PidInv, Running
<1>6. OptionsInv'
  BY Zenon, <1>2, SameOptions DEF IInv, OptionsInv
<1>7. RequestInv'
  BY Zenon, <1>1 DEF RequestInv
<1> QED
  BY Zenon, <1>3, <1>4, <1>5, <1>6, <1>7 DEF IInv

LEMMA migrationHandlerKeeps ==
  ASSUME IInv, migrationHandler PROVE IInv'
<1>1. stage # "none" /\ (Answer \/ To("auth"))
  BY Zenon DEF migrationHandler
<1>2. To("auth") => IInv'
  BY Zenon, <1>1, ToKeeps
<1> QED
  BY Zenon, <1>1, <1>2, AnswerKeeps

LEMMA authHandlerKeeps ==
  ASSUME IInv, authHandler PROVE IInv'
<1>1. stage = "auth"
  BY Zenon DEF authHandler
<1>2. PICK r \in request : IF HasToken(r) THEN To("wrapper") ELSE Answer
  BY Zenon DEF authHandler, HasToken
<1>3. CASE ~HasToken(r)
  BY Zenon, <1>1, <1>2, <1>3, AnswerKeeps
<1>4. CASE HasToken(r)
  <2>1. \A q \in request : HasToken(q)
    BY Zenon, <1>4 DEF IInv, RequestInv
  <2>2. To("wrapper") /\ stage # "none"
    BY Zenon, <1>1, <1>2, <1>4
  <2> QED
    BY Zenon, <2>1, <2>2, ToKeeps
<1> QED
  BY Zenon, <1>3, <1>4

LEMMA wrapperKeeps ==
  ASSUME IInv, wrapper PROVE IInv'
<1>1. stage = "wrapper"
  BY Zenon DEF wrapper
<1>2. PICK r \in request : IF Binds(r.op, Given(r)) THEN To("handler") ELSE Answer
  BY Zenon DEF wrapper
<1>3. CASE ~Binds(r.op, Given(r))
  BY Zenon, <1>1, <1>2, <1>3, AnswerKeeps
<1>4. CASE Binds(r.op, Given(r))
  <2>1. \A q \in request : q.op # "MakeHealthCheck" => HasToken(q) /\ Binds(q.op, Given(q))
    BY Zenon, <1>1, <1>4 DEF IInv, RequestInv
  <2>2. To("handler") /\ stage # "none"
    BY Zenon, <1>1, <1>2, <1>4
  <2> QED
    BY Zenon, <2>1, <2>2, ToKeeps
<1> QED
  BY Zenon, <1>3, <1>4

LEMMA handleKeeps ==
  ASSUME IInv, handle PROVE IInv'
<1>1. stage = "handler"
  BY Zenon DEF handle
<1>2. PICK r \in request : IF PassedHandler(r) THEN To("query") ELSE Answer
  BY Zenon DEF handle, PassedHandler
<1>3. CASE ~PassedHandler(r)
  BY Zenon, <1>1, <1>2, <1>3, AnswerKeeps
<1>4. CASE PassedHandler(r)
  <2>1. \A q \in request : q.op # "MakeHealthCheck" =>
          HasToken(q) /\ Binds(q.op, Given(q)) /\ PassedHandler(q)
    BY Zenon, <1>1, <1>4 DEF IInv, RequestInv
  <2>2. To("query") /\ stage # "none"
    BY Zenon, <1>1, <1>2, <1>4
  <2> QED
    BY Zenon, <2>1, <2>2, ToKeeps
<1> QED
  BY Zenon, <1>3, <1>4

LEMMA DatabaseAnswersKeeps ==
  ASSUME IInv, DatabaseAnswers PROVE IInv'
  BY Zenon, AnswerKeeps DEF DatabaseAnswers

-----------------------------------------------------------------------------
LEMMA NextKeeps ==
  ASSUME IInv, [Next]_vars PROVE IInv'
<1>1. CASE runDaemon
  BY Zenon, <1>1, configureIndexerDataDirKeeps, resolveConfigFileKeeps, loadIndexerParamConfigKeeps,
     CreateIndexerPidFileKeeps, StartCPUProfileKeeps, indexerDbFromFlagsKeeps, makeOptionsKeeps,
     ServeKeeps, ShutdownKeeps, ShutdownReturnsKeeps DEF runDaemon
<1>2. CASE serverGoroutine
  BY Zenon, <1>2, StartServerKeeps, StartServerReturnsKeeps DEF serverGoroutine
<1>3. CASE requestGoroutine
  BY Zenon, <1>3, migrationHandlerKeeps, authHandlerKeeps, wrapperKeeps, handleKeeps,
     DatabaseAnswersKeeps DEF requestGoroutine
<1> QED
  BY Zenon, <1>1, <1>2, <1>3, StutterKeeps, SignalKeeps, HandleSignalKeeps, ArriveKeeps DEF Next

(* The daemon keeps its inductive invariant, whatever its settings are and  *)
(* whatever requests it gets.                                              *)
THEOREM DaemonInvariant == Spec => []IInv
<1>1. IInv /\ [Next]_vars => IInv'
  BY Zenon, NextKeeps
<1> QED
  BY InitHolds, <1>1, PTL DEF Spec

(* The variables of the daemon keep their types, and a request has a place  *)
(* in the pipeline exactly when there has been one.                        *)
THEOREM DaemonTypeCorrect == Spec => []TypeOK
<1>1. IInv => TypeOK
  BY Zenon DEF IInv
<1> QED
  BY DaemonInvariant, <1>1, PTL

(* However runDaemon ends, the pid file it wrote is gone (deferred removal, *)
(* exit by panic); while it serves, the file that was asked for is there.  *)
THEOREM PidFileFollows == Spec => []PidFileFollowsProcess
<1>1. IInv => PidFileFollowsProcess
  BY Zenon DEF IInv, PidInv, PidFileFollowsProcess, BeforePid, TypeOK
<1> QED
  BY DaemonInvariant, <1>1, PTL

-----------------------------------------------------------------------------
(* Routes and what is disabled on them. *)
LEMMA OperationNames ==
  Operations = {"SearchForAccounts",
                "LookupAccountByID",
                "LookupAccountAppLocalStates",
                "LookupAccountAssets",
                "LookupAccountCreatedApplications",
                "LookupAccountCreatedAssets",
                "LookupAccountTransactions",
                "SearchForApplications",
                "LookupApplicationByID",
                "LookupApplicationBoxByIDAndName",
                "SearchForApplicationBoxes",
                "LookupApplicationLogsByID",
                "SearchForAssets",
                "LookupAssetByID",
                "LookupAssetBalances",
                "LookupAssetTransactions",
                "SearchForBlockHeaders",
                "LookupBlock",
                "SearchForTransactions",
                "LookupTransaction"}
  BY Zenon DEF Operations, Paths

LEMMA PathsDiffer ==
  ASSUME NEW a \in Operations, NEW b \in Operations, PathOf(a) = PathOf(b) PROVE a = b
<1>1. /\ PathOf("SearchForAccounts") = "/v2/accounts"
      /\ PathOf("LookupAccountByID") = "/v2/accounts/:account-id"
      /\ PathOf("LookupAccountAppLocalStates") = "/v2/accounts/:account-id/apps-local-state"
      /\ PathOf("LookupAccountAssets") = "/v2/accounts/:account-id/assets"
      /\ PathOf("LookupAccountCreatedApplications") = "/v2/accounts/:account-id/created-applications"
      /\ PathOf("LookupAccountCreatedAssets") = "/v2/accounts/:account-id/created-assets"
      /\ PathOf("LookupAccountTransactions") = "/v2/accounts/:account-id/transactions"
      /\ PathOf("SearchForApplications") = "/v2/applications"
      /\ PathOf("LookupApplicationByID") = "/v2/applications/:application-id"
      /\ PathOf("LookupApplicationBoxByIDAndName") = "/v2/applications/:application-id/box"
      /\ PathOf("SearchForApplicationBoxes") = "/v2/applications/:application-id/boxes"
      /\ PathOf("LookupApplicationLogsByID") = "/v2/applications/:application-id/logs"
      /\ PathOf("SearchForAssets") = "/v2/assets"
      /\ PathOf("LookupAssetByID") = "/v2/assets/:asset-id"
      /\ PathOf("LookupAssetBalances") = "/v2/assets/:asset-id/balances"
      /\ PathOf("LookupAssetTransactions") = "/v2/assets/:asset-id/transactions"
      /\ PathOf("SearchForBlockHeaders") = "/v2/block-headers"
      /\ PathOf("LookupBlock") = "/v2/blocks/:round-number"
      /\ PathOf("SearchForTransactions") = "/v2/transactions"
      /\ PathOf("LookupTransaction") = "/v2/transactions/:txid"
  BY Zenon DEF PathOf, Paths
<1> QED
  BY <1>1, OperationNames

LEMMA RouteOfPath ==
  ASSUME NEW op \in Operations
  PROVE  PathOf(op) \in DOMAIN Routes /\ Routes[PathOf(op)] = op
  BY Zenon, PathsDiffer DEF Routes

Disabled(config, op) == {n \in AllParams(op) : isDisabled(config, PathOf(op), n)}

LEMMA SameDisabled ==
  ASSUME NEW c, NEW d, \A op \in Operations : Disabled(c, op) = Disabled(d, op)
  PROVE  MakeDisabledMapFromOA3(c) = MakeDisabledMapFromOA3(d)
  BY Zenon DEF MakeDisabledMapFromOA3, Disabled

-----------------------------------------------------------------------------
(* The display of a configuration. *)
Entry(config, path, n) ==
    <<IF Required(Routes[path], n) THEN "required" ELSE "optional", n,
      IF isDisabled(config, path, n) THEN "disabled" ELSE "enabled">>

LEMMA EntryFields ==
  ASSUME NEW config, NEW path, NEW n
  PROVE  /\ Entry(config, path, n)[1] \in {"required", "optional"}
         /\ Entry(config, path, n)[2] = n
         /\ Entry(config, path, n)[3] \in {"enabled", "disabled"}
         /\ Entry(config, path, n)[3] = "disabled" <=> isDisabled(config, path, n)
  BY Zenon DEF Entry

Shown(config, limited, path) ==
    {n \in AllParams(Routes[path]) : limited => isDisabled(config, path, n)}

LEMMA EntriesShown ==
  ASSUME NEW config, NEW limited, NEW path
  PROVE  DisplayEntries(config, limited, path) =
           {Entry(config, path, n) : n \in Shown(config, limited, path)}
  BY Zenon DEF DisplayEntries, Entry, Shown

LEMMA DisplayHasSchema ==
  ASSUME NEW config, NEW limited
  PROVE  validateSchema(MakeDisplayDisabledMapFromConfig(config, limited))
<1> SUFFICES ASSUME NEW path \in DOMAIN MakeDisplayDisabledMapFromConfig(config, limited),
                    NEW e \in MakeDisplayDisabledMapFromConfig(config, limited)[path]
             PROVE  e[1] \in {"required", "optional"} /\ e[3] \in {"enabled", "disabled"}
  BY Zenon DEF validateSchema
<1>1. e \in DisplayEntries(config, limited, path)
  BY Zenon DEF MakeDisplayDisabledMapFromConfig
<1>2. PICK n \in Shown(config, limited, path) : e = Entry(config, path, n)
  BY Zenon, <1>1, EntriesShown
<1> QED
  BY Zenon, <1>2, EntryFields

(* Reading the display back gives, path by path, what is disabled there of  *)
(* the parameters that exist.                                              *)
LEMMA DisplayReadBack ==
  ASSUME NEW config, NEW limited \in BOOLEAN,
         NEW path \in DOMAIN Routes, NEW n \in AllParams(Routes[path])
  PROVE  isDisabled(toDisabledMapConfig(MakeDisplayDisabledMapFromConfig(config, limited)),
                    path, n)
         <=> isDisabled(config, path, n)
<1> DEFINE D == MakeDisplayDisabledMapFromConfig(config, limited)
           C == toDisabledMapConfig(D)
<1>1. DOMAIN C = DOMAIN D
      /\ \A p \in DOMAIN D : C[p] = {e[2] : e \in {f \in D[p] : f[3] = "disabled"}}
  BY Zenon DEF toDisabledMapConfig
<1>2. /\ path \in DOMAIN D <=> DisplayEntries(config, limited, path) # {}
      /\ path \in DOMAIN D => D[path] = DisplayEntries(config, limited, path)
  BY Zenon DEF MakeDisplayDisabledMapFromConfig
<1> HIDE DEF D, C
<1>3. ASSUME isDisabled(C, path, n) PROVE isDisabled(config, path, n)
  <2>1. path \in DOMAIN D /\ n \in {e[2] : e \in {f \in D[path] : f[3] = "disabled"}}
    BY Zenon, <1>1, <1>3 DEF isDisabled
  <2>2. PICK e \in DisplayEntries(config, limited, path) : e[3] = "disabled" /\ n = e[2]
    BY Zenon, <1>2, <2>1
  <2>3. PICK m \in Shown(config, limited, path) : e = Entry(config, path, m)
    BY Zenon, <2>2, EntriesShown
  <2> QED
    BY <2>2, <2>3, EntryFields
<1>4. ASSUME isDisabled(config, path, n) PROVE isDisabled(C, path, n)
  <2>1. Entry(config, path, n) \in DisplayEntries(config, limited, path)
    BY Zenon, <1>4, EntriesShown DEF Shown
  <2>2. /\ path \in DOMAIN D /\ Entry(config, path, n) \in D[path]
        /\ Entry(config, path, n)[3] = "disabled" /\ Entry(config, path, n)[2] = n
    BY <1>2, <1>4, <2>1, EntryFields
  <2>3. n \in {e[2] : e \in {f \in D[path] : f[3] = "disabled"}}
    BY Zenon, <2>2
  <2> QED
    BY Zenon, <1>1, <2>2, <2>3 DEF isDisabled
<1> QED
  BY Zenon, <1>3, <1>4 DEF D, C

LEMMA DisplayValid ==
  ASSUME NEW config, NEW limited
  PROVE  validate(toDisabledMapConfig(MakeDisplayDisabledMapFromConfig(config, limited)))
<1> DEFINE D == MakeDisplayDisabledMapFromConfig(config, limited)
           C == toDisabledMapConfig(D)
<1>0. DOMAIN C \subseteq DOMAIN Routes
  BY Zenon DEF toDisabledMapConfig, MakeDisplayDisabledMapFromConfig
<1>1. ASSUME NEW path \in DOMAIN C, NEW n \in C[path]
      PROVE  n \in AllParams(Routes[path])
  <2>1. path \in DOMAIN D /\ n \in {e[2] : e \in {f \in D[path] : f[3] = "disabled"}}
    BY Zenon DEF toDisabledMapConfig
  <2>2. D[path] = DisplayEntries(config, limited, path)
    BY Zenon, <2>1 DEF MakeDisplayDisabledMapFromConfig
  <2> HIDE DEF D, C
  <2>3. PICK e \in DisplayEntries(config, limited, path) : n = e[2]
    BY Zenon, <2>1, <2>2
  <2>4. PICK m \in Shown(config, limited, path) : e = Entry(config, path, m)
    BY Zenon, <2>3, EntriesShown
  <2> QED
    BY <2>2, <2>3, <2>4, EntryFields DEF Shown
<1> HIDE DEF C
<1>2. validate(C)
  BY Zenon, <1>0, <1>1 DEF validate
<1> QED
  BY Zenon, <1>2 DEF C

(* What api-config prints for a configuration, in full or limited to what   *)
(* is disabled, is a valid file, and it disables the same (for every       *)
(* configuration, also one that no daemon would accept).                   *)
LEMMA DisplayKeepsConfig ==
  ASSUME NEW config, NEW limited \in BOOLEAN
  PROVE  \E c \in MakeDisabledMapConfigFromFile(
                    MakeDisplayDisabledMapFromConfig(config, limited)) :
           MakeDisabledMapFromOA3(c) = MakeDisabledMapFromOA3(config)
<1> DEFINE C == toDisabledMapConfig(MakeDisplayDisabledMapFromConfig(config, limited))
<1>1. C \in MakeDisabledMapConfigFromFile(MakeDisplayDisabledMapFromConfig(config, limited))
  BY Zenon, DisplayHasSchema, DisplayValid DEF MakeDisabledMapConfigFromFile
<1>2. ASSUME NEW op \in Operations PROVE Disabled(C, op) = Disabled(config, op)
  <2>1. ASSUME NEW n \in AllParams(op)
        PROVE  isDisabled(C, PathOf(op), n) <=> isDisabled(config, PathOf(op), n)
    BY Zenon, RouteOfPath, DisplayReadBack
  <2> HIDE DEF C
  <2> QED
    BY Zenon, <2>1 DEF Disabled
<1> HIDE DEF C
<1>3. MakeDisabledMapFromOA3(C) = MakeDisabledMapFromOA3(config)
  BY Zenon, <1>2, SameDisabled
<1> QED
  BY Zenon, <1>1, <1>3

(* The configuration in force, printed by api-config and read back by a     *)
(* daemon, refuses the same requests.                                      *)
THEOREM DisplaysRoundTrip == Spec => []DisplayRoundTrips
<1>1. IInv => DisplayRoundTrips
  BY Zenon, DisplayKeepsConfig DEF DisplayRoundTrips
<1> QED
  BY DaemonInvariant, <1>1, PTL

-----------------------------------------------------------------------------
(* What a handler that queries the database has checked; none makes more   *)
(* than eight checks.                                                      *)
LEMMA LeastExists ==
  ASSUME NEW S \in SUBSET (1 .. 8), S # {}
  PROVE  \E i \in S : \A j \in S : i <= j
<1> SUFFICES ASSUME \A i \in S : \E j \in S : j < i
             PROVE  FALSE
  OBVIOUS
<1>1. 1 \notin S
  OBVIOUS
<1>2. 2 \notin S
  BY <1>1
<1>3. 3 \notin S
  BY <1>1, <1>2
<1>4. 4 \notin S
  BY <1>1, <1>2, <1>3
<1>5. 5 \notin S
  BY <1>1, <1>2, <1>3, <1>4
<1>6. 6 \notin S
  BY <1>1, <1>2, <1>3, <1>4, <1>5
<1>7. 7 \notin S
  BY <1>1, <1>2, <1>3, <1>4, <1>5, <1>6
<1>8. 8 \notin S
  BY <1>1, <1>2, <1>3, <1>4, <1>5, <1>6, <1>7
<1>9. PICK i \in S : TRUE
  BY Zenon
<1>10. \/ i = 1 \/ i = 2 \/ i = 3 \/ i = 4
       \/ i = 5 \/ i = 6 \/ i = 7 \/ i = 8
  OBVIOUS
<1> QED
  BY Zenon, <1>1, <1>2, <1>3, <1>4, <1>5, <1>6, <1>7, <1>8, <1>9, <1>10

LEMMA AllPassed ==
  ASSUME NEW checks, Len(checks) \in 1 .. 8, Checked(checks) = Query
  PROVE  \A i \in 1 .. Len(checks) : checks[i] = Query
<1> DEFINE failed == {i \in 1 .. Len(checks) : checks[i] # Query}
<1>1. First(checks) = Query
  BY Zenon DEF Checked
<1>2. ASSUME failed # {} PROVE FALSE
  <2>1. failed \subseteq 1 .. 8
    OBVIOUS
  <2>2. \E i \in failed : \A j \in failed : i <= j
    <3> HIDE DEF failed
    <3> QED
      BY Zenon, <1>2, <2>1, LeastExists
  <2>3. PICK k \in failed : First(checks) = checks[k]
    BY Zenon, <1>2, <2>2 DEF First
  <2> QED
    BY Zenon, <1>1, <2>3
<1> QED
  BY Zenon, <1>2

LEMMA Passed2 ==
  ASSUME NEW a, NEW b,
         Checked(<<a, b>>) = Query
  PROVE  a = Query /\ b = Query
<1> DEFINE checks == <<a, b>>
<1>1. Len(checks) = 2 /\ Len(checks) \in 1 .. 8 /\ checks[1] = a /\ checks[2] = b
  OBVIOUS
<1> HIDE DEF checks
<1>2. \A i \in 1 .. 2 : checks[i] = Query
  BY Zenon, <1>1, AllPassed DEF checks
<1> QED
  BY <1>1, <1>2

LEMMA Passed3 ==
  ASSUME NEW a, NEW b, NEW c,
         Checked(<<a, b, c>>) = Query
  PROVE  a = Query /\ b = Query /\ c = Query
<1> DEFINE checks == <<a, b, c>>
<1>1. Len(checks) = 3 /\ Len(checks) \in 1 .. 8 /\ checks[1] = a /\ checks[2] = b /\ checks[3] = c
  OBVIOUS
<1> HIDE DEF checks
<1>2. \A i \in 1 .. 3 : checks[i] = Query
  BY Zenon, <1>1, AllPassed DEF checks
<1> QED
  BY <1>1, <1>2

LEMMA Passed4 ==
  ASSUME NEW a, NEW b, NEW c, NEW d,
         Checked(<<a, b, c, d>>) = Query
  PROVE  a = Query /\ b = Query /\ c = Query /\ d = Query
<1> DEFINE checks == <<a, b, c, d>>
<1>1. /\ Len(checks) = 4 /\ Len(checks) \in 1 .. 8
      /\ checks[1] = a /\ checks[2] = b /\ checks[3] = c /\ checks[4] = d
  OBVIOUS
<1> HIDE DEF checks
<1>2. \A i \in 1 .. 4 : checks[i] = Query
  BY Zenon, <1>1, AllPassed DEF checks
<1> QED
  BY <1>1, <1>2

LEMMA Passed8 ==
  ASSUME NEW a, NEW b, NEW c, NEW d, NEW e, NEW f, NEW g, NEW h,
         Checked(<<a, b, c, d, e, f, g, h>>) = Query
  PROVE  /\ a = Query /\ b = Query /\ c = Query /\ d = Query
         /\ e = Query /\ f = Query /\ g = Query /\ h = Query
<1> DEFINE checks == <<a, b, c, d, e, f, g, h>>
<1>1. /\ Len(checks) = 8 /\ Len(checks) \in 1 .. 8
      /\ checks[1] = a /\ checks[2] = b /\ checks[3] = c /\ checks[4] = d
      /\ checks[5] = e /\ checks[6] = f /\ checks[7] = g /\ checks[8] = h
  BY SMTT(60)
<1> HIDE DEF checks
<1>2. \A i \in 1 .. 8 : checks[i] = Query
  BY Zenon, <1>1, AllPassed DEF checks
<1> QED
  BY <1>1, <1>2

(* The handlers, one by one. *)

LEMMA LookupAccountByIDPassed ==
  ASSUME NEW s, NEW r, LookupAccountByID(s, r) = Query
  PROVE  /\ verifyHandler(s, "LookupAccountByID", r)
         /\ ~Big(r, {"round"})
         /\ ~Bad(r, {"account-id"})
         /\ ~Bad(r, {"exclude"})
<1>1. /\ Check(~verifyHandler(s, "LookupAccountByID", r), 400) = Query
      /\ Check(Big(r, {"round"}), 404) = Query
      /\ Check(Bad(r, {"account-id"}), 400) = Query
      /\ Check(Bad(r, {"exclude"}), 400) = Query
  BY Passed4 DEF LookupAccountByID
<1> QED
  BY <1>1 DEF Check, Query

LEMMA SearchForAccountsPassed ==
  ASSUME NEW s, NEW r, SearchForAccounts(s, r) = Query
  PROVE  /\ verifyHandler(s, "SearchForAccounts", r)
         /\ ~Big(r, {"asset-id", "application-id", "round"})
         /\ ~(~s.developerMode /\ Has(r, "round"))
         /\ ~(Has(r, "round") /\ IsTrue(r, "online-only"))
         /\ ~(IsTrue(r, "online-only") /\ IsTrue(r, "include-all"))
         /\ ~Bad(r, {"auth-addr"})
         /\ ~Bad(r, {"exclude"})
         /\ ~Bad(r, {"next"})
<1>1. /\ Check(~verifyHandler(s, "SearchForAccounts", r), 400) = Query
      /\ Check(Big(r, {"asset-id", "application-id", "round"}), 404) = Query
      /\ Check(~s.developerMode /\ Has(r, "round"), 400) = Query
      /\ Check(Has(r, "round") /\ IsTrue(r, "online-only"), 400) = Query
      /\ Check(IsTrue(r, "online-only") /\ IsTrue(r, "include-all"), 400) = Query
      /\ Check(Bad(r, {"auth-addr"}), 400) = Query
      /\ Check(Bad(r, {"exclude"}), 400) = Query
      /\ Check(Bad(r, {"next"}), 400) = Query
  BY Passed8 DEF SearchForAccounts
<1> QED
  BY <1>1 DEF Check, Query

LEMMA LookupAccountAssetsPassed ==
  ASSUME NEW s, NEW r, LookupAccountAssets(s, r) = Query
  PROVE  /\ verifyHandler(s, "LookupAccountAssets", r)
         /\ ~Big(r, {"asset-id"})
         /\ ~Bad(r, {"account-id"})
         /\ ~Bad(r, {"next"})
<1>1. /\ Check(~verifyHandler(s, "LookupAccountAssets", r), 400) = Query
      /\ Check(Big(r, {"asset-id"}), 404) = Query
      /\ Check(Bad(r, {"account-id"}), 400) = Query
      /\ Check(Bad(r, {"next"}), 400) = Query
  BY Passed4 DEF LookupAccountAssets
<1> QED
  BY <1>1 DEF Check, Query

LEMMA LookupAccountAppLocalStatesPassed ==
  ASSUME NEW s, NEW r, LookupAccountAppLocalStates(s, r) = Query
  PROVE  /\ verifyHandler(s, "LookupAccountAppLocalStates", r)
         /\ ~Big(r, {"application-id"})
         /\ ~QueryParamsBad(WithArgs(r, {"application-id", "include-all", "limit", "next"},
                  [creator |-> r.args["account-id"]]))
<1>1. /\ Check(~verifyHandler(s, "LookupAccountAppLocalStates", r), 400) = Query
      /\ Check(Big(r, {"application-id"}), 404) = Query
      /\ Check(QueryParamsBad(WithArgs(r, {"application-id", "include-all", "limit", "next"},
                  [creator |-> r.args["account-id"]])), 400) = Query
  BY Passed3 DEF LookupAccountAppLocalStates
<1> QED
  BY <1>1 DEF Check, Query

LEMMA SearchForApplicationsPassed ==
  ASSUME NEW s, NEW r, SearchForApplications(s, r) = Query
  PROVE  /\ verifyHandler(s, "SearchForApplications", r)
         /\ ~Big(r, {"application-id"})
         /\ ~QueryParamsBad(r)
<1>1. /\ Check(~verifyHandler(s, "SearchForApplications", r), 400) = Query
      /\ Check(Big(r, {"application-id"}), 404) = Query
      /\ Check(QueryParamsBad(r), 400) = Query
  BY Passed3 DEF SearchForApplications
<1> QED
  BY <1>1 DEF Check, Query

LEMMA LookupAccountCreatedApplicationsPassed ==
  ASSUME NEW s, NEW r, LookupAccountCreatedApplications(s, r) = Query
  PROVE  /\ verifyHandler(s, "LookupAccountCreatedApplications", r)
         /\ ~Big(r, {"application-id"})
         /\ SearchForApplications(s, WithArgs(r, {"application-id", "include-all", "limit", "next"},
                  [creator |-> r.args["account-id"]])) = Query
<1>1. /\ Check(~verifyHandler(s, "LookupAccountCreatedApplications", r), 400) = Query
      /\ Check(Big(r, {"application-id"}), 404) = Query
      /\ SearchForApplications(s, WithArgs(r, {"application-id", "include-all", "limit", "next"},
                  [creator |-> r.args["account-id"]])) = Query
  BY Passed3 DEF LookupAccountCreatedApplications
<1> QED
  BY SMTT(60), <1>1 DEF Check, Query

LEMMA LookupApplicationByIDPassed ==
  ASSUME NEW s, NEW r, LookupApplicationByID(s, r) = Query
  PROVE  /\ verifyHandler(s, "LookupApplicationByID", r)
         /\ ~Big(r, {"application-id"})
<1>1. /\ Check(~verifyHandler(s, "LookupApplicationByID", r), 400) = Query
      /\ Check(Big(r, {"application-id"}), 404) = Query
  BY Passed2 DEF LookupApplicationByID
<1> QED
  BY <1>1 DEF Check, Query

LEMMA LookupApplicationBoxByIDAndNamePassed ==
  ASSUME NEW s, NEW r, LookupApplicationBoxByIDAndName(s, r) = Query
  PROVE  /\ verifyHandler(s, "LookupApplicationBoxByIDAndName", r)
         /\ ~Big(r, {"application-id"})
         /\ ~Bad(r, {"name"})
<1>1. /\ Check(~verifyHandler(s, "LookupApplicationBoxByIDAndName", r), 400) = Query
      /\ Check(Big(r, {"application-id"}), 404) = Query
      /\ Check(Bad(r, {"name"}), 400) = Query
  BY Passed3 DEF LookupApplicationBoxByIDAndName
<1> QED
  BY <1>1 DEF Check, Query

LEMMA SearchForApplicationBoxesPassed ==
  ASSUME NEW s, NEW r, SearchForApplicationBoxes(s, r) = Query
  PROVE  /\ verifyHandler(s, "SearchForApplicationBoxes", r)
         /\ ~Big(r, {"application-id"})
         /\ ~Bad(r, {"next"})
<1>1. /\ Check(~verifyHandler(s, "SearchForApplicationBoxes", r), 400) = Query
      /\ Check(Big(r, {"application-id"}), 404) = Query
      /\ Check(Bad(r, {"next"}), 400) = Query
  BY Passed3 DEF SearchForApplicationBoxes
<1> QED
  BY <1>1 DEF Check, Query

LEMMA SearchForAssetsPassed ==
  ASSUME NEW s, NEW r, SearchForAssets(s, r) = Query
  PROVE  /\ verifyHandler(s, "SearchForAssets", r)
         /\ ~Big(r, {"asset-id"})
         /\ ~QueryParamsBad(r)
<1>1. /\ Check(~verifyHandler(s, "SearchForAssets", r), 400) = Query
      /\ Check(Big(r, {"asset-id"}), 404) = Query
      /\ Check(QueryParamsBad(r), 400) = Query
  BY Passed3 DEF SearchForAssets
<1> QED
  BY <1>1 DEF Check, Query

LEMMA LookupAccountCreatedAssetsPassed ==
  ASSUME NEW s, NEW r, LookupAccountCreatedAssets(s, r) = Query
  PROVE  /\ verifyHandler(s, "LookupAccountCreatedAssets", r)
         /\ ~Big(r, {"asset-id"})
         /\ SearchForAssets(s, WithArgs(r, {"asset-id", "include-all", "limit", "next"},
                  [creator |-> r.args["account-id"]])) = Query
<1>1. /\ Check(~verifyHandler(s, "LookupAccountCreatedAssets", r), 400) = Query
      /\ Check(Big(r, {"asset-id"}), 404) = Query
      /\ SearchForAssets(s, WithArgs(r, {"asset-id", "include-all", "limit", "next"},
                  [creator |-> r.args["account-id"]])) = Query
  BY Passed3 DEF LookupAccountCreatedAssets
<1> QED
  BY SMTT(60), <1>1 DEF Check, Query

LEMMA LookupAssetByIDPassed ==
  ASSUME NEW s, NEW r, LookupAssetByID(s, r) = Query
  PROVE  /\ verifyHandler(s, "LookupAssetByID", r)
         /\ ~Big(r, {"asset-id"})
<1>1. /\ Check(~verifyHandler(s, "LookupAssetByID", r), 400) = Query
      /\ Check(Big(r, {"asset-id"}), 404) = Query
  BY Passed2 DEF LookupAssetByID
<1> QED
  BY <1>1 DEF Check, Query

LEMMA LookupAssetBalancesPassed ==
  ASSUME NEW s, NEW r, LookupAssetBalances(s, r) = Query
  PROVE  /\ verifyHandler(s, "LookupAssetBalances", r)
         /\ ~Big(r, {"asset-id"})
         /\ ~Bad(r, {"next"})
<1>1. /\ Check(~verifyHandler(s, "LookupAssetBalances", r), 400) = Query
      /\ Check(Big(r, {"asset-id"}), 404) = Query
      /\ Check(Bad(r, {"next"}), 400) = Query
  BY Passed3 DEF LookupAssetBalances
<1> QED
  BY <1>1 DEF Check, Query

LEMMA SearchForTransactionsPassed ==
  ASSUME NEW s, NEW r, SearchForTransactions(s, r) = Query
  PROVE  /\ verifyHandler(s, "SearchForTransactions", r)
         /\ ~Big(r, {"asset-id", "application-id", "round"})
         /\ ~FilterErrors(r)
         /\ validateTransactionFilter(transactionFilter(r))
<1>1. /\ Check(~verifyHandler(s, "SearchForTransactions", r), 400) = Query
      /\ Check(Big(r, {"asset-id", "application-id", "round"}), 404) = Query
      /\ Check(FilterErrors(r), 400) = Query
      /\ Check(Invalid({transactionFilter(r)}), 400) = Query
  BY SMTT(60), Passed4 DEF SearchForTransactions
<1> QED
  BY <1>1 DEF Check, Query, Invalid

LEMMA LookupAccountTransactionsPassed ==
  ASSUME NEW s, NEW r, LookupAccountTransactions(s, r) = Query
  PROVE  /\ verifyHandler(s, "LookupAccountTransactions", r)
         /\ ~Big(r, {"asset-id", "round"})
         /\ ~Bad(r, {"account-id"})
         /\ SearchForTransactions(s, WithArgs(r, LookupAccountTransactionsParams.query,
                                             [address |-> r.args["account-id"]])) = Query
<1>1. /\ Check(~verifyHandler(s, "LookupAccountTransactions", r), 400) = Query
      /\ Check(Big(r, {"asset-id", "round"}), 404) = Query
      /\ Check(Bad(r, {"account-id"}), 400) = Query
      /\ SearchForTransactions(s, WithArgs(r, LookupAccountTransactionsParams.query,
                                             [address |-> r.args["account-id"]])) = Query
  BY Passed4 DEF LookupAccountTransactions
<1> QED
  BY SMTT(60), <1>1 DEF Check, Query

LEMMA LookupAssetTransactionsPassed ==
  ASSUME NEW s, NEW r, LookupAssetTransactions(s, r) = Query
  PROVE  /\ verifyHandler(s, "LookupAssetTransactions", r)
         /\ ~Big(r, {"asset-id", "round"})
         /\ SearchForTransactions(s, r) = Query
<1>1. /\ Check(~verifyHandler(s, "LookupAssetTransactions", r), 400) = Query
      /\ Check(Big(r, {"asset-id", "round"}), 404) = Query
      /\ SearchForTransactions(s, r) = Query
  BY Passed3 DEF LookupAssetTransactions
<1> QED
  BY <1>1 DEF Check, Query

LEMMA LookupApplicationLogsByIDPassed ==
  ASSUME NEW s, NEW r, LookupApplicationLogsByID(s, r) = Query
  PROVE  /\ verifyHandler(s, "LookupApplicationLogsByID", r)
         /\ ~Big(r, {"application-id"})
         /\ ~FilterErrors(LogsSearch(r))
         /\ validateTransactionFilter([transactionFilter(LogsSearch(r)) EXCEPT !.role = {"Sender"}])
<1>1. /\ Check(~verifyHandler(s, "LookupApplicationLogsByID", r), 400) = Query
      /\ Check(Big(r, {"application-id"}), 404) = Query
      /\ Check(FilterErrors(LogsSearch(r)), 400) = Query
      /\ Check(Invalid({[transactionFilter(LogsSearch(r)) EXCEPT !.role = {"Sender"}]}), 400) = Query
  BY Passed4 DEF LookupApplicationLogsByID
<1> QED
  BY <1>1 DEF Check, Query, Invalid

LEMMA LookupTransactionPassed ==
  ASSUME NEW s, NEW r, LookupTransaction(s, r) = Query
  PROVE  /\ verifyHandler(s, "LookupTransaction", r)
         /\ ~FilterErrors(r)
         /\ validateTransactionFilter(transactionFilter(r))
<1>1. /\ Check(~verifyHandler(s, "LookupTransaction", r), 400) = Query
      /\ Check(FilterErrors(r), 400) = Query
      /\ Check(Invalid({transactionFilter(r)}), 400) = Query
  BY Passed3 DEF LookupTransaction
<1> QED
  BY <1>1 DEF Check, Query, Invalid

LEMMA LookupBlockPassed ==
  ASSUME NEW s, NEW r, LookupBlock(s, r) = Query
  PROVE  /\ verifyHandler(s, "LookupBlock", r)
         /\ ~Big(r, {"round-number"})
<1>1. /\ Check(~verifyHandler(s, "LookupBlock", r), 400) = Query
      /\ Check(Big(r, {"round-number"}), 404) = Query
  BY Passed2 DEF LookupBlock
<1> QED
  BY <1>1 DEF Check, Query

LEMMA SearchForBlockHeadersPassed ==
  ASSUME NEW s, NEW r, SearchForBlockHeaders(s, r) = Query
  PROVE  /\ verifyHandler(s, "SearchForBlockHeaders", r)
         /\ ~BlockFilterErrors(s, r)
         /\ validateBlockFilter(r)
<1>1. /\ Check(~verifyHandler(s, "SearchForBlockHeaders", r), 400) = Query
      /\ Check(BlockFilterErrors(s, r), 400) = Query
      /\ Check(~validateBlockFilter(r), 400) = Query
  BY SMTT(60), Passed3 DEF SearchForBlockHeaders
<1> QED
  BY <1>1 DEF Check, Query

LEMMA HandlerOf ==
  ASSUME NEW s, NEW r
  PROVE  /\ r.op = "SearchForAccounts" => Handler(s, r) = SearchForAccounts(s, r)
         /\ r.op = "LookupAccountByID" => Handler(s, r) = LookupAccountByID(s, r)
         /\ r.op = "LookupAccountAppLocalStates" => Handler(s, r) = LookupAccountAppLocalStates(s, r)
         /\ r.op = "LookupAccountAssets" => Handler(s, r) = LookupAccountAssets(s, r)
         /\ r.op = "LookupAccountCreatedApplications" => Handler(s, r) = LookupAccountCreatedApplications(s, r)
         /\ r.op = "LookupAccountCreatedAssets" => Handler(s, r) = LookupAccountCreatedAssets(s, r)
         /\ r.op = "LookupAccountTransactions" => Handler(s, r) = LookupAccountTransactions(s, r)
         /\ r.op = "SearchForApplications" => Handler(s, r) = SearchForApplications(s, r)
         /\ r.op = "LookupApplicationByID" => Handler(s, r) = LookupApplicationByID(s, r)
         /\ r.op = "LookupApplicationBoxByIDAndName" => Handler(s, r) = LookupApplicationBoxByIDAndName(s, r)
         /\ r.op = "SearchForApplicationBoxes" => Handler(s, r) = SearchForApplicationBoxes(s, r)
         /\ r.op = "LookupApplicationLogsByID" => Handler(s, r) = LookupApplicationLogsByID(s, r)
         /\ r.op = "SearchForAssets" => Handler(s, r) = SearchForAssets(s, r)
         /\ r.op = "LookupAssetByID" => Handler(s, r) = LookupAssetByID(s, r)
         /\ r.op = "LookupAssetBalances" => Handler(s, r) = LookupAssetBalances(s, r)
         /\ r.op = "LookupAssetTransactions" => Handler(s, r) = LookupAssetTransactions(s, r)
         /\ r.op = "SearchForBlockHeaders" => Handler(s, r) = SearchForBlockHeaders(s, r)
         /\ r.op = "LookupBlock" => Handler(s, r) = LookupBlock(s, r)
         /\ r.op = "SearchForTransactions" => Handler(s, r) = SearchForTransactions(s, r)
         /\ r.op = "LookupTransaction" => Handler(s, r) = LookupTransaction(s, r)
  BY Zenon DEF Handler

LEMMA WithArgsFields ==
  ASSUME NEW r, {"op", "query", "args"} \subseteq DOMAIN r, NEW names, NEW more, NEW q,
         q = WithArgs(r, names, more)
  PROVE  /\ q.query = r.query
         /\ DOMAIN q.args = (names \cap DOMAIN r.args) \cup DOMAIN more
         /\ \A n \in DOMAIN q.args : q.args[n] = IF n \in DOMAIN more THEN more[n] ELSE r.args[n]
  BY Zenon DEF WithArgs

(* A handler that queries the database has asked whether its endpoint and   *)
(* the one it hands its parameters to are enabled.                         *)
LEMMA HandlersVerify ==
  ASSUME NEW s, NEW r, {"op", "query", "args"} \subseteq DOMAIN r,
         r.op \in Operations, Handler(s, r) = Query, NEW op \in Handlers(r.op)
  PROVE  verifyHandler(s, op, r)
<1> DEFINE V(o) == verifyHandler(s, o, r)
<1>1. ASSUME NEW q, q.query = r.query, NEW o PROVE verifyHandler(s, o, q) <=> V(o)
  BY Zenon, <1>1 DEF verifyHandler
<1>2. CASE r.op = "SearchForAccounts"
  BY Zenon, <1>2, HandlerOf, SearchForAccountsPassed DEF Handlers
<1>3. CASE r.op = "LookupAccountByID"
  BY Zenon, <1>3, HandlerOf, LookupAccountByIDPassed DEF Handlers
<1>4. CASE r.op = "LookupAccountAppLocalStates"
  BY Zenon, <1>4, HandlerOf, LookupAccountAppLocalStatesPassed DEF Handlers
<1>5. CASE r.op = "LookupAccountAssets"
  BY Zenon, <1>5, HandlerOf, LookupAccountAssetsPassed DEF Handlers
<1>6. CASE r.op = "LookupAccountCreatedApplications"
  <2>0. LookupAccountCreatedApplications(s, r) = Query
    BY Zenon, <1>6, HandlerOf
  <2> DEFINE q == WithArgs(r, {"application-id", "include-all", "limit", "next"},
                           [creator |-> r.args["account-id"]])
  <2>1. q.query = r.query
    BY Zenon DEF WithArgs
  <2>2. V("LookupAccountCreatedApplications") /\ SearchForApplications(s, q) = Query
    BY Zenon, <2>0, LookupAccountCreatedApplicationsPassed
  <2> HIDE DEF q
  <2>3. V("SearchForApplications")
    BY Zenon, <1>1, <2>1, <2>2, SearchForApplicationsPassed
  <2> QED
    BY Zenon, <1>6, <2>2, <2>3 DEF Handlers
<1>7. CASE r.op = "LookupAccountCreatedAssets"
  <2>0. LookupAccountCreatedAssets(s, r) = Query
    BY Zenon, <1>7, HandlerOf
  <2> DEFINE q == WithArgs(r, {"asset-id", "include-all", "limit", "next"},
                           [creator |-> r.args["account-id"]])
  <2>1. q.query = r.query
    BY Zenon DEF WithArgs
  <2>2. V("LookupAccountCreatedAssets") /\ SearchForAssets(s, q) = Query
    BY Zenon, <2>0, LookupAccountCreatedAssetsPassed
  <2> HIDE DEF q
  <2>3. V("SearchForAssets")
    BY Zenon, <1>1, <2>1, <2>2, SearchForAssetsPassed
  <2> QED
    BY Zenon, <1>7, <2>2, <2>3 DEF Handlers
<1>8. CASE r.op = "LookupAccountTransactions"
  <2>0. LookupAccountTransactions(s, r) = Query
    BY Zenon, <1>8, HandlerOf
  <2> DEFINE q == WithArgs(r, LookupAccountTransactionsParams.query,
                           [address |-> r.args["account-id"]])
  <2>1. q.query = r.query
    BY Zenon DEF WithArgs
  <2>2. V("LookupAccountTransactions") /\ SearchForTransactions(s, q) = Query
    BY Zenon, <2>0, LookupAccountTransactionsPassed
  <2> HIDE DEF q
  <2>3. V("SearchForTransactions")
    BY Zenon, <1>1, <2>1, <2>2, SearchForTransactionsPassed
  <2> QED
    BY Zenon, <1>8, <2>2, <2>3 DEF Handlers
<1>9. CASE r.op = "SearchForApplications"
  BY Zenon, <1>9, HandlerOf, SearchForApplicationsPassed DEF Handlers
<1>10. CASE r.op = "LookupApplicationByID"
  BY Zenon, <1>10, HandlerOf, LookupApplicationByIDPassed DEF Handlers
<1>11. CASE r.op = "LookupApplicationBoxByIDAndName"
  BY Zenon, <1>11, HandlerOf, LookupApplicationBoxByIDAndNamePassed DEF Handlers
<1>12. CASE r.op = "SearchForApplicationBoxes"
  BY Zenon, <1>12, HandlerOf, SearchForApplicationBoxesPassed DEF Handlers
<1>13. CASE r.op = "LookupApplicationLogsByID"
  BY Zenon, <1>13, HandlerOf, LookupApplicationLogsByIDPassed DEF Handlers
<1>14. CASE r.op = "SearchForAssets"
  BY Zenon, <1>14, HandlerOf, SearchForAssetsPassed DEF Handlers
<1>15. CASE r.op = "LookupAssetByID"
  BY Zenon, <1>15, HandlerOf, LookupAssetByIDPassed DEF Handlers
<1>16. CASE r.op = "LookupAssetBalances"
  BY Zenon, <1>16, HandlerOf, LookupAssetBalancesPassed DEF Handlers
<1>17. CASE r.op = "LookupAssetTransactions"
  <2> DEFINE q == r
  <2>1. q.query = r.query
    BY Zenon, WithArgsFields
  <2>2. V("LookupAssetTransactions") /\ SearchForTransactions(s, q) = Query
    BY Zenon, <1>17, HandlerOf, LookupAssetTransactionsPassed
  <2> HIDE DEF q
  <2>3. V("SearchForTransactions")
    BY Zenon, <1>1, <2>1, <2>2, SearchForTransactionsPassed
  <2> QED
    BY Zenon, <1>17, <2>2, <2>3 DEF Handlers
<1>18. CASE r.op = "SearchForBlockHeaders"
  BY Zenon, <1>18, HandlerOf, SearchForBlockHeadersPassed DEF Handlers
<1>19. CASE r.op = "LookupBlock"
  BY Zenon, <1>19, HandlerOf, LookupBlockPassed DEF Handlers
<1>20. CASE r.op = "SearchForTransactions"
  BY Zenon, <1>20, HandlerOf, SearchForTransactionsPassed DEF Handlers
<1>21. CASE r.op = "LookupTransaction"
  BY Zenon, <1>21, HandlerOf, LookupTransactionPassed DEF Handlers
<1> QED
  BY Zenon, <1>2, <1>3, <1>4, <1>5, <1>6, <1>7, <1>8, <1>9, <1>10, <1>11,
     <1>12, <1>13, <1>14, <1>15, <1>16, <1>17, <1>18, <1>19, <1>20, <1>21, OperationNames

-----------------------------------------------------------------------------
(* What the settings disable does not get to the database. *)
LEMMA HandlersOperations ==
  ASSUME NEW o \in Operations, NEW op \in Handlers(o) PROVE op \in Operations
  BY Zenon, OperationNames DEF Handlers

(* A valid configuration names parameters that exist, so the disabled map   *)
(* has all it disables.                                                    *)
LEMMA DisabledRefused ==
  ASSUME NEW config, validate(config), NEW op \in Operations, NEW query,
         verify(MakeDisabledMapFromOA3(config)[op], query),
         NEW n, isDisabled(config, PathOf(op), n)
  PROVE  /\ ~Required(op, n)
         /\ n \in DOMAIN query => query[n] = Empty
<1>1. n \in AllParams(op)
  BY Zenon, RouteOfPath DEF validate, isDisabled
<1>2. n \in Disabled(config, op)
  BY Zenon, <1>1 DEF Disabled
<1>3. MakeDisabledMapFromOA3(config)[op] =
        [EndpointDisabled |-> \E m \in Disabled(config, op) : Required(op, m),
         DisabledOptionalParameters |-> {m \in Disabled(config, op) : ~Required(op, m)}]
  BY Zenon DEF MakeDisabledMapFromOA3, Disabled
<1>4. /\ ~ \E m \in Disabled(config, op) : Required(op, m)
      /\ \A m \in {p \in Disabled(config, op) : ~Required(op, p)} \cap DOMAIN query :
           query[m] = Empty
  BY <1>3 DEF verify
<1> QED
  BY Zenon, <1>2, <1>4

(* The options disable what the settings do. *)
LEMMA SettingsDisable ==
  ASSUME CfgInv, OptionsMade, NEW path, NEW n \in DisabledBySettings(path)
  PROVE  isDisabled(options.disabledConfig, path, n)
<1>1. CASE cfg.apiConfig # {}
  <2>1. PICK f \in cfg.apiConfig : options.disabledConfig \in MakeDisabledMapConfigFromFile(f)
    BY Zenon, <1>1 DEF OptionsMade, disabledMapConfig
  <2>2. options.disabledConfig = toDisabledMapConfig(f)
    BY Zenon, <2>1 DEF MakeDisabledMapConfigFromFile
  <2>3. PICK d \in UNION {g[path] : g \in {h \in cfg.apiConfig : path \in DOMAIN h}} :
          d[3] = "disabled" /\ n = d[2]
    BY Zenon, <1>1 DEF DisabledBySettings
  <2>4. path \in DOMAIN f /\ d \in f[path]
    BY Zenon, <2>1, <2>3 DEF CfgInv
  <2>5. n \in {e[2] : e \in {g \in f[path] : g[3] = "disabled"}}
    BY Zenon, <2>3, <2>4
  <2> QED
    BY Zenon, <2>2, <2>4, <2>5 DEF toDisabledMapConfig, isDisabled
<1>2. CASE cfg.apiConfig = {}
  BY Zenon, <1>2 DEF OptionsMade, disabledMapConfig, DisabledBySettings, isDisabled
<1> QED
  BY Zenon, <1>1, <1>2

(* The state of a request at the database, gathered for the two theorems. *)
LEMMA AtDatabaseState ==
  ASSUME IInv, NEW r \in AtDatabase
  PROVE  /\ r \in Requests /\ r.op # "MakeHealthCheck" /\ r.op \in Operations
         /\ OptionsMade /\ validate(options.disabledConfig)
         /\ HasToken(r) /\ Binds(r.op, Given(r)) /\ PassedHandler(r)
<1>1. r \in request /\ stage = "query" /\ r.op # "MakeHealthCheck"
  BY Zenon DEF AtDatabase
<1>2. r \in Requests /\ HasToken(r) /\ Binds(r.op, Given(r)) /\ PassedHandler(r)
  BY Zenon, <1>1 DEF IInv, RequestInv
<1>3. OptionsMade /\ validate(options.disabledConfig)
  BY Zenon, <1>1 DEF IInv, OptionsInv
<1>4. r.op \in Operations
  BY Zenon, <1>1, <1>2, RequestsAssumption
<1> QED
  BY Zenon, <1>1, <1>2, <1>3, <1>4

LEMMA AllowedAtDatabase == IInv => QueriesAllowed
<1> SUFFICES ASSUME IInv, NEW r \in AtDatabase
             PROVE  /\ cfg.token => r.token \in {"header", "bearer"}
                    /\ \A op \in Handlers(r.op) : \A n \in DisabledBySettings(PathOf(op)) :
                         /\ ~Required(op, n)
                         /\ n \in DOMAIN r.query => r.query[n] = Empty
  BY Zenon DEF QueriesAllowed
<1>1. cfg.token => r.token \in {"header", "bearer"}
  BY Zenon, AtDatabaseState DEF HasToken, OptionsMade
<1>2. ASSUME NEW op \in Handlers(r.op), NEW n \in DisabledBySettings(PathOf(op))
      PROVE  ~Required(op, n) /\ (n \in DOMAIN r.query => r.query[n] = Empty)
  <2>1. op \in Operations
    BY Zenon, AtDatabaseState, HandlersOperations
  <2>2. isDisabled(options.disabledConfig, PathOf(op), n)
    BY Zenon, AtDatabaseState, SettingsDisable DEF IInv
  <2>3. verifyHandler(ServerImplementation, op, Bound(r))
    <3> DEFINE b == Bound(r)
    <3>1. {"op", "query", "args"} \subseteq DOMAIN b /\ b.op = r.op
      BY Zenon DEF Bound
    <3>2. Handler(ServerImplementation, b) = Query
      BY Zenon, AtDatabaseState DEF PassedHandler
    <3>3. r.op \in Operations
      BY Zenon, AtDatabaseState
    <3> HIDE DEF b
    <3>4. verifyHandler(ServerImplementation, op, b)
      BY Zenon, <3>1, <3>2, <3>3, HandlersVerify
    <3> QED
      BY Zenon, <3>4 DEF b
  <2>4. verify(MakeDisabledMapFromOA3(options.disabledConfig)[op], r.query)
    BY Zenon, <2>3 DEF verifyHandler, ServerImplementation, Bound
  <2>5. validate(options.disabledConfig)
    BY Zenon, AtDatabaseState
  <2> QED
    BY Zenon, <2>1, <2>2, <2>4, <2>5, DisabledRefused
<1> QED
  BY Zenon, <1>1, <1>2

(* A request gets to the database only with a right token, through          *)
(* endpoints that are not disabled and without a parameter that the        *)
(* settings disable for one of them, nested handlers included.             *)
THEOREM QueriesAreAllowed == Spec => []QueriesAllowed
  BY DaemonInvariant, AllowedAtDatabase, PTL

-----------------------------------------------------------------------------
(* What gets to the database means something. The arguments of a request    *)
(* are those of its operation and have their types.                        *)
ArgsOK(b, op) ==
    /\ {"op", "query", "args"} \subseteq DOMAIN b
    /\ DOMAIN b.args \subseteq AllParams(op) /\ Params[op].path \subseteq DOMAIN b.args
    /\ \A n \in DOMAIN b.args :
         b.args[n] \in Int \ {Malformed} /\ (n \in Typed => b.args[n] \in Nat)

LEMMA BoundArgs ==
  ASSUME NEW r \in Requests, r.op # "MakeHealthCheck", Binds(r.op, Given(r))
  PROVE  ArgsOK(Bound(r), r.op)
<1>1. DOMAIN r.path = Params[r.op].path
  BY Zenon, RequestsAssumption
<1>2. /\ DOMAIN Given(r) = DOMAIN r.path \cup DOMAIN r.query
      /\ \A n \in DOMAIN Given(r) :
           Given(r)[n] = IF n \in DOMAIN r.path THEN r.path[n] ELSE r.query[n]
  BY Zenon DEF Given
<1>3. \A n \in DOMAIN Given(r) : Given(r)[n] \in IF n \in Typed THEN Nat \cup {Malformed} ELSE Int
  <2>1. \A args \in {r.path, r.query} : \A n \in DOMAIN args :
          args[n] \in IF n \in Typed THEN Nat \cup {Malformed} ELSE Int
    BY Zenon, RequestsAssumption
  <2> QED
    BY Zenon, <1>2, <2>1
<1>4. \A n \in DOMAIN Given(r) \cap AllParams(r.op) :
        Given(r)[n] \in Int \ {Malformed} /\ (n \in Typed => Given(r)[n] \in Nat)
  BY SMTT(60), <1>3 DEF Binds, Malformed
<1>5. /\ {"op", "query", "args"} \subseteq DOMAIN Bound(r)
      /\ DOMAIN Bound(r).args = AllParams(r.op) \cap DOMAIN Given(r)
      /\ \A n \in DOMAIN Bound(r).args : Bound(r).args[n] = Given(r)[n]
  BY Zenon DEF Bound
<1>6. Params[r.op].path \subseteq AllParams(r.op) \cap DOMAIN Given(r)
  BY Zenon, <1>1, <1>2 DEF AllParams
<1> QED
  BY Zenon, <1>4, <1>5, <1>6 DEF ArgsOK

(* The parts of QueriesMakeSense. *)
Free(op) ==
    (IF "SearchForTransactions" \in Handlers(op) \/ op = "LookupApplicationLogsByID"
       THEN {"next"} ELSE {})
    \cup (IF op = "SearchForAssets" THEN {"name", "unit"} ELSE {"include"})

Decodes(op, args) ==
    \A n \in DOMAIN args \ Free(op) : args[n] \notin {Malformed, Undecodable}

RoundsAndIds == {"asset-id", "application-id", "round", "round-number", "min-round", "max-round"}
Fits(args) == \A n \in DOMAIN args \cap RoundsAndIds : args[n] <= MaxInt64

Ordered(args) ==
    /\ {"min-round", "max-round"} \subseteq DOMAIN args /\ args["max-round"] # 0
         => args["min-round"] <= args["max-round"]
    /\ "round" \in DOMAIN args =>
         \A n \in DOMAIN args \cap {"min-round", "max-round"} : args[n] = 0

On(args, n) == n \in DOMAIN args /\ args[n] = 1
AccountsSearched(op, args, developerMode) ==
    /\ op = "SearchForAccounts" /\ "round" \in DOMAIN args
         => developerMode /\ ~On(args, "online-only")
    /\ ~(On(args, "online-only") /\ On(args, "include-all"))

Listed(args) == DOMAIN args \cap {"proposers", "expired", "absent"}
OneList(args, max) ==
    /\ \A m, n \in Listed(args) : m = n
    /\ \A n \in Listed(args) : args[n] <= max

Meaningful(op, args, s) ==
    /\ Decodes(op, args) /\ Fits(args) /\ Ordered(args)
    /\ AccountsSearched(op, args, s.developerMode) /\ OneList(args, s.maxAccountListSize)

(* Texts are decoded where the handler says so; the other parameters that   *)
(* are not free have a type.                                               *)
LEMMA DecodedTexts ==
  ASSUME NEW b, NEW op, ArgsOK(b, op), NEW texts,
         AllParams(op) \subseteq Typed \cup Free(op) \cup texts,
         \A n \in texts \cap DOMAIN b.args : b.args[n] # Undecodable
  PROVE  Decodes(op, b.args)
  BY DEF ArgsOK, Decodes, Malformed, Undecodable

LEMMA NotBad ==
  ASSUME NEW b, NEW names, ~Bad(b, names)
  PROVE  \A n \in names \cap DOMAIN b.args : b.args[n] # Undecodable
  BY Zenon DEF Bad, Has

LEMMA NotBig ==
  ASSUME NEW b, NEW op, ArgsOK(b, op), NEW names, names \subseteq RoundsAndIds, ~Big(b, names),
         AllParams(op) \cap RoundsAndIds \subseteq names
  PROVE  Fits(b.args)
<1>1. MaxInt64 \in Int
  BY LimitsAssumption
<1>2. \A n \in DOMAIN b.args \cap RoundsAndIds : n \in names /\ b.args[n] \in Int
  BY Zenon DEF ArgsOK
<1> QED
  BY <1>1, <1>2 DEF Big, Has, Fits

(* Most operations have no range of rounds, no lists and no online-only. *)
LEMMA PlainOperation ==
  ASSUME NEW s, NEW b, NEW op, ArgsOK(b, op), op # "SearchForAccounts",
         AllParams(op) \cap {"min-round", "max-round", "online-only", "proposers", "expired",
                             "absent"} = {},
         Decodes(op, b.args), Fits(b.args)
  PROVE  Meaningful(op, b.args, s)
<1>1. Ordered(b.args)
  BY Zenon DEF ArgsOK, Ordered
<1>2. AccountsSearched(op, b.args, s.developerMode)
  BY Zenon DEF ArgsOK, AccountsSearched, On
<1>3. Listed(b.args) = {}
  BY Zenon DEF ArgsOK, Listed
<1>4. OneList(b.args, s.maxAccountListSize)
  BY Zenon, <1>3 DEF OneList
<1> QED
  BY Zenon, <1>1, <1>2, <1>4 DEF Meaningful

(* Operation by operation. *)

(* What a handler that is called by another sees. *)
LEMMA ArgsHandedOn ==
  ASSUME NEW b, NEW op, ArgsOK(b, op), NEW names, NEW more
  PROVE  /\ DOMAIN WithArgs(b, names, more).args = (names \cap DOMAIN b.args) \cup DOMAIN more
         /\ \A n \in DOMAIN WithArgs(b, names, more).args :
              WithArgs(b, names, more).args[n] = IF n \in DOMAIN more THEN more[n] ELSE b.args[n]
<1> DEFINE q == WithArgs(b, names, more)
<1>1. {"op", "query", "args"} \subseteq DOMAIN b
  BY Zenon DEF ArgsOK
<1>2. q = WithArgs(b, names, more)
  BY Zenon
<1> HIDE DEF q
<1>3. /\ DOMAIN q.args = (names \cap DOMAIN b.args) \cup DOMAIN more
      /\ \A n \in DOMAIN q.args : q.args[n] = IF n \in DOMAIN more THEN more[n] ELSE b.args[n]
  BY SMTT(60), <1>1, <1>2, WithArgsFields
<1> QED
  BY Zenon, <1>3 DEF q

(* The wrappers of the operations. *)
LEMMA ParamsOf ==
  /\ Params["SearchForAccounts"] = SearchForAccountsParams
  /\ Params["LookupAccountByID"] = LookupAccountByIDParams
  /\ Params["LookupAccountAppLocalStates"] = LookupAccountAppLocalStatesParams
  /\ Params["LookupAccountAssets"] = LookupAccountAssetsParams
  /\ Params["LookupAccountCreatedApplications"] = LookupAccountCreatedApplicationsParams
  /\ Params["LookupAccountCreatedAssets"] = LookupAccountCreatedAssetsParams
  /\ Params["LookupAccountTransactions"] = LookupAccountTransactionsParams
  /\ Params["SearchForApplications"] = SearchForApplicationsParams
  /\ Params["LookupApplicationByID"] = LookupApplicationByIDParams
  /\ Params["LookupApplicationBoxByIDAndName"] = LookupApplicationBoxByIDAndNameParams
  /\ Params["SearchForApplicationBoxes"] = SearchForApplicationBoxesParams
  /\ Params["LookupApplicationLogsByID"] = LookupApplicationLogsByIDParams
  /\ Params["SearchForAssets"] = SearchForAssetsParams
  /\ Params["LookupAssetByID"] = LookupAssetByIDParams
  /\ Params["LookupAssetBalances"] = LookupAssetBalancesParams
  /\ Params["LookupAssetTransactions"] = LookupAssetTransactionsParams
  /\ Params["SearchForBlockHeaders"] = SearchForBlockHeadersParams
  /\ Params["LookupBlock"] = LookupBlockParams
  /\ Params["SearchForTransactions"] = SearchForTransactionsParams
  /\ Params["LookupTransaction"] = LookupTransactionParams
  BY Zenon DEF Params

LEMMA LookupAccountByIDMeans ==
  ASSUME NEW s, NEW b, ArgsOK(b, "LookupAccountByID"), LookupAccountByID(s, b) = Query
  PROVE  Meaningful("LookupAccountByID", b.args, s)
<1>1. AllParams("LookupAccountByID") =
        {"account-id", "round", "include-all", "exclude"}
  BY ParamsOf DEF AllParams, LookupAccountByIDParams, Wrapper
<1>2. \A n \in {"account-id", "exclude"} \cap DOMAIN b.args : b.args[n] # Undecodable
  BY Zenon, LookupAccountByIDPassed, NotBad
<1>3. Decodes("LookupAccountByID", b.args)
  BY Zenon, <1>1, <1>2, DecodedTexts DEF Typed, Free, Handlers
<1>4. Fits(b.args)
  BY <1>1, LookupAccountByIDPassed, NotBig DEF RoundsAndIds
<1> QED
  BY Zenon, <1>1, <1>3, <1>4, PlainOperation

LEMMA LookupAccountAssetsMeans ==
  ASSUME NEW s, NEW b, ArgsOK(b, "LookupAccountAssets"), LookupAccountAssets(s, b) = Query
  PROVE  Meaningful("LookupAccountAssets", b.args, s)
<1>1. AllParams("LookupAccountAssets") =
        {"account-id", "asset-id", "include-all", "limit", "next"}
  BY ParamsOf DEF AllParams, LookupAccountAssetsParams, Wrapper
<1>2. \A n \in {"account-id", "next"} \cap DOMAIN b.args : b.args[n] # Undecodable
  BY Zenon, LookupAccountAssetsPassed, NotBad
<1>3. Decodes("LookupAccountAssets", b.args)
  BY Zenon, <1>1, <1>2, DecodedTexts DEF Typed, Free, Handlers
<1>4. Fits(b.args)
  BY <1>1, LookupAccountAssetsPassed, NotBig DEF RoundsAndIds
<1> QED
  BY Zenon, <1>1, <1>3, <1>4, PlainOperation

LEMMA SearchForApplicationsMeans ==
  ASSUME NEW s, NEW b, ArgsOK(b, "SearchForApplications"), SearchForApplications(s, b) = Query
  PROVE  Meaningful("SearchForApplications", b.args, s)
<1>1. AllParams("SearchForApplications") =
        {"application-id", "creator", "include-all", "limit", "next"}
  BY ParamsOf DEF AllParams, SearchForApplicationsParams, Wrapper
<1>2. \A n \in {"creator", "next"} \cap DOMAIN b.args : b.args[n] # Undecodable
  BY Zenon, SearchForApplicationsPassed, NotBad DEF QueryParamsBad
<1>3. Decodes("SearchForApplications", b.args)
  BY Zenon, <1>1, <1>2, DecodedTexts DEF Typed, Free, Handlers
<1>4. Fits(b.args)
  BY <1>1, SearchForApplicationsPassed, NotBig DEF RoundsAndIds
<1> QED
  BY Zenon, <1>1, <1>3, <1>4, PlainOperation

LEMMA LookupApplicationByIDMeans ==
  ASSUME NEW s, NEW b, ArgsOK(b, "LookupApplicationByID"), LookupApplicationByID(s, b) = Query
  PROVE  Meaningful("LookupApplicationByID", b.args, s)
<1>1. AllParams("LookupApplicationByID") =
        {"application-id", "include-all"}
  BY ParamsOf DEF AllParams, LookupApplicationByIDParams, Wrapper
<1>2. \A n \in {} \cap DOMAIN b.args : b.args[n] # Undecodable
  BY Zenon
<1>3. Decodes("LookupApplicationByID", b.args)
  BY Zenon, <1>1, <1>2, DecodedTexts DEF Typed, Free, Handlers
<1>4. Fits(b.args)
  BY <1>1, LookupApplicationByIDPassed, NotBig DEF RoundsAndIds
<1> QED
  BY Zenon, <1>1, <1>3, <1>4, PlainOperation

LEMMA LookupApplicationBoxByIDAndNameMeans ==
  ASSUME NEW s, NEW b, ArgsOK(b, "LookupApplicationBoxByIDAndName"),
         LookupApplicationBoxByIDAndName(s, b) = Query
  PROVE  Meaningful("LookupApplicationBoxByIDAndName", b.args, s)
<1>1. AllParams("LookupApplicationBoxByIDAndName") =
        {"application-id", "name"}
  BY ParamsOf DEF AllParams, LookupApplicationBoxByIDAndNameParams, Wrapper
<1>2. \A n \in {"name"} \cap DOMAIN b.args : b.args[n] # Undecodable
  BY Zenon, LookupApplicationBoxByIDAndNamePassed, NotBad
<1>3. Decodes("LookupApplicationBoxByIDAndName", b.args)
  BY Zenon, <1>1, <1>2, DecodedTexts DEF Typed, Free, Handlers
<1>4. Fits(b.args)
  BY <1>1, LookupApplicationBoxByIDAndNamePassed, NotBig DEF RoundsAndIds
<1> QED
  BY Zenon, <1>1, <1>3, <1>4, PlainOperation

LEMMA SearchForApplicationBoxesMeans ==
  ASSUME NEW s, NEW b, ArgsOK(b, "SearchForApplicationBoxes"),
         SearchForApplicationBoxes(s, b) = Query
  PROVE  Meaningful("SearchForApplicationBoxes", b.args, s)
<1>1. AllParams("SearchForApplicationBoxes") =
        {"application-id", "limit", "next", "include"}
  BY ParamsOf DEF AllParams, SearchForApplicationBoxesParams, Wrapper
<1>2. \A n \in {"next"} \cap DOMAIN b.args : b.args[n] # Undecodable
  BY Zenon, SearchForApplicationBoxesPassed, NotBad
<1>3. Decodes("SearchForApplicationBoxes", b.args)
  BY Zenon, <1>1, <1>2, DecodedTexts DEF Typed, Free, Handlers
<1>4. Fits(b.args)
  BY <1>1, SearchForApplicationBoxesPassed, NotBig DEF RoundsAndIds
<1> QED
  BY Zenon, <1>1, <1>3, <1>4, PlainOperation

LEMMA SearchForAssetsMeans ==
  ASSUME NEW s, NEW b, ArgsOK(b, "SearchForAssets"), SearchForAssets(s, b) = Query
  PROVE  Meaningful("SearchForAssets", b.args, s)
<1>1. AllParams("SearchForAssets") =
        {"include-all", "limit", "next", "creator", "name", "unit", "asset-id"}
  BY ParamsOf DEF AllParams, SearchForAssetsParams, Wrapper
<1>2. \A n \in {"creator", "next"} \cap DOMAIN b.args : b.args[n] # Undecodable
  BY Zenon, SearchForAssetsPassed, NotBad DEF QueryParamsBad
<1>3. Decodes("SearchForAssets", b.args)
  BY Zenon, <1>1, <1>2, DecodedTexts DEF Typed, Free, Handlers
<1>4. Fits(b.args)
  BY <1>1, SearchForAssetsPassed, NotBig DEF RoundsAndIds
<1> QED
  BY Zenon, <1>1, <1>3, <1>4, PlainOperation

LEMMA LookupAssetByIDMeans ==
  ASSUME NEW s, NEW b, ArgsOK(b, "LookupAssetByID"), LookupAssetByID(s, b) = Query
  PROVE  Meaningful("LookupAssetByID", b.args, s)
<1>1. AllParams("LookupAssetByID") =
        {"asset-id", "include-all"}
  BY ParamsOf DEF AllParams, LookupAssetByIDParams, Wrapper
<1>2. \A n \in {} \cap DOMAIN b.args : b.args[n] # Undecodable
  BY Zenon
<1>3. Decodes("LookupAssetByID", b.args)
  BY Zenon, <1>1, <1>2, DecodedTexts DEF Typed, Free, Handlers
<1>4. Fits(b.args)
  BY <1>1, LookupAssetByIDPassed, NotBig DEF RoundsAndIds
<1> QED
  BY Zenon, <1>1, <1>3, <1>4, PlainOperation

LEMMA LookupAssetBalancesMeans ==
  ASSUME NEW s, NEW b, ArgsOK(b, "LookupAssetBalances"), LookupAssetBalances(s, b) = Query
  PROVE  Meaningful("LookupAssetBalances", b.args, s)
<1>1. AllParams("LookupAssetBalances") =
        {"asset-id", "include-all", "limit", "next", "currency-greater-than",
         "currency-less-than"}
  BY ParamsOf DEF AllParams, LookupAssetBalancesParams, Wrapper
<1>2. \A n \in {"next"} \cap DOMAIN b.args : b.args[n] # Undecodable
  BY Zenon, LookupAssetBalancesPassed, NotBad
<1>3. Decodes("LookupAssetBalances", b.args)
  BY Zenon, <1>1, <1>2, DecodedTexts DEF Typed, Free, Handlers
<1>4. Fits(b.args)
  BY <1>1, LookupAssetBalancesPassed, NotBig DEF RoundsAndIds
<1> QED
  BY Zenon, <1>1, <1>3, <1>4, PlainOperation

LEMMA LookupBlockMeans ==
  ASSUME NEW s, NEW b, ArgsOK(b, "LookupBlock"), LookupBlock(s, b) = Query
  PROVE  Meaningful("LookupBlock", b.args, s)
<1>1. AllParams("LookupBlock") =
        {"round-number", "header-only"}
  BY ParamsOf DEF AllParams, LookupBlockParams, Wrapper
<1>2. \A n \in {} \cap DOMAIN b.args : b.args[n] # Undecodable
  BY Zenon
<1>3. Decodes("LookupBlock", b.args)
  BY Zenon, <1>1, <1>2, DecodedTexts DEF Typed, Free, Handlers
<1>4. Fits(b.args)
  BY <1>1, LookupBlockPassed, NotBig DEF RoundsAndIds
<1> QED
  BY Zenon, <1>1, <1>3, <1>4, PlainOperation

LEMMA LookupAccountAppLocalStatesMeans ==
  ASSUME NEW s, NEW b, ArgsOK(b, "LookupAccountAppLocalStates"),
         LookupAccountAppLocalStates(s, b) = Query
  PROVE  Meaningful("LookupAccountAppLocalStates", b.args, s)
<1>1. AllParams("LookupAccountAppLocalStates") =
        {"account-id", "application-id", "include-all", "limit", "next"}
  BY ParamsOf DEF AllParams, LookupAccountAppLocalStatesParams, Wrapper
<1> DEFINE names == {"application-id", "include-all", "limit", "next"}
           more == [creator |-> b.args["account-id"]]
           q == WithArgs(b, names, more)
<1>2. DOMAIN more = {"creator"} /\ more["creator"] = b.args["account-id"]
  BY Zenon
<1>3. ~Big(b, {"application-id"}) /\ ~Bad(q, {"creator", "next"})
  BY Zenon, LookupAccountAppLocalStatesPassed DEF QueryParamsBad
<1> HIDE DEF more, names
<1>4. /\ DOMAIN q.args = (names \cap DOMAIN b.args) \cup DOMAIN more
      /\ \A n \in DOMAIN q.args : q.args[n] = IF n \in DOMAIN more THEN more[n] ELSE b.args[n]
  BY SMTT(60), ArgsHandedOn
<1> HIDE DEF q
<1>5. \A n \in {"account-id", "next"} \cap DOMAIN b.args : b.args[n] # Undecodable
  BY <1>2, <1>3, <1>4, NotBad DEF names
<1>6. Decodes("LookupAccountAppLocalStates", b.args)
  BY Zenon, <1>1, <1>5, DecodedTexts DEF Typed, Free, Handlers
<1>7. Fits(b.args)
  BY <1>1, <1>3, NotBig DEF RoundsAndIds
<1> QED
  BY Zenon, <1>1, <1>6, <1>7, PlainOperation

LEMMA LookupAccountCreatedApplicationsMeans ==
  ASSUME NEW s, NEW b, ArgsOK(b, "LookupAccountCreatedApplications"),
         LookupAccountCreatedApplications(s, b) = Query
  PROVE  Meaningful("LookupAccountCreatedApplications", b.args, s)
<1>1. AllParams("LookupAccountCreatedApplications") =
        {"account-id", "application-id", "include-all", "limit", "next"}
  BY ParamsOf DEF AllParams, LookupAccountCreatedApplicationsParams, Wrapper
<1> DEFINE names == {"application-id", "include-all", "limit", "next"}
           more == [creator |-> b.args["account-id"]]
           q == WithArgs(b, names, more)
<1>2. DOMAIN more = {"creator"} /\ more["creator"] = b.args["account-id"]
  BY Zenon
<1>3. ~Big(b, {"application-id"}) /\ ~Bad(q, {"creator", "next"})
  <2>1. ~Big(b, {"application-id"}) /\ SearchForApplications(s, q) = Query
    BY Zenon, LookupAccountCreatedApplicationsPassed
  <2> QED
    BY Zenon, <2>1, SearchForApplicationsPassed DEF QueryParamsBad
<1> HIDE DEF more, names
<1>4. /\ DOMAIN q.args = (names \cap DOMAIN b.args) \cup DOMAIN more
      /\ \A n \in DOMAIN q.args : q.args[n] = IF n \in DOMAIN more THEN more[n] ELSE b.args[n]
  BY SMTT(60), ArgsHandedOn
<1> HIDE DEF q
<1>5. \A n \in {"account-id", "next"} \cap DOMAIN b.args : b.args[n] # Undecodable
  BY SMTT(60), <1>2, <1>3, <1>4, NotBad DEF names
<1>6. Decodes("LookupAccountCreatedApplications", b.args)
  BY Zenon, <1>1, <1>5, DecodedTexts DEF Typed, Free, Handlers
<1>7. Fits(b.args)
  BY <1>1, <1>3, NotBig DEF RoundsAndIds
<1> QED
  BY Zenon, <1>1, <1>6, <1>7, PlainOperation

LEMMA LookupAccountCreatedAssetsMeans ==
  ASSUME NEW s, NEW b, ArgsOK(b, "LookupAccountCreatedAssets"),
         LookupAccountCreatedAssets(s, b) = Query
  PROVE  Meaningful("LookupAccountCreatedAssets", b.args, s)
<1>1. AllParams("LookupAccountCreatedAssets") =
        {"account-id", "asset-id", "include-all", "limit", "next"}
  BY ParamsOf DEF AllParams, LookupAccountCreatedAssetsParams, Wrapper
<1> DEFINE names == {"asset-id", "include-all", "limit", "next"}
           more == [creator |-> b.args["account-id"]]
           q == WithArgs(b, names, more)
<1>2. DOMAIN more = {"creator"} /\ more["creator"] = b.args["account-id"]
  BY Zenon
<1>3. ~Big(b, {"asset-id"}) /\ ~Bad(q, {"creator", "next"})
  <2>1. ~Big(b, {"asset-id"}) /\ SearchForAssets(s, q) = Query
    BY Zenon, LookupAccountCreatedAssetsPassed
  <2> QED
    BY Zenon, <2>1, SearchForAssetsPassed DEF QueryParamsBad
<1> HIDE DEF more, names
<1>4. /\ DOMAIN q.args = (names \cap DOMAIN b.args) \cup DOMAIN more
      /\ \A n \in DOMAIN q.args : q.args[n] = IF n \in DOMAIN more THEN more[n] ELSE b.args[n]
  BY SMTT(60), ArgsHandedOn
<1> HIDE DEF q
<1>5. \A n \in {"account-id", "next"} \cap DOMAIN b.args : b.args[n] # Undecodable
  BY <1>2, <1>3, <1>4, NotBad DEF names
<1>6. Decodes("LookupAccountCreatedAssets", b.args)
  BY Zenon, <1>1, <1>5, DecodedTexts DEF Typed, Free, Handlers
<1>7. Fits(b.args)
  BY <1>1, <1>3, NotBig DEF RoundsAndIds
<1> QED
  BY Zenon, <1>1, <1>6, <1>7, PlainOperation

(* Accounts are searched at a round only in developer mode. *)

LEMMA SearchForAccountsMeans ==
  ASSUME NEW s, NEW b, ArgsOK(b, "SearchForAccounts"), SearchForAccounts(s, b) = Query
  PROVE  Meaningful("SearchForAccounts", b.args, s)
<1>1. AllParams("SearchForAccounts") =
        {"asset-id", "limit", "next", "currency-greater-than", "include-all", "exclude",
         "currency-less-than", "auth-addr", "round", "application-id",
         "online-only"}
  BY ParamsOf DEF AllParams, SearchForAccountsParams, Wrapper
<1>2. \A n \in {"auth-addr", "exclude", "next"} \cap DOMAIN b.args : b.args[n] # Undecodable
  BY Zenon, SearchForAccountsPassed, NotBad
<1>3. Decodes("SearchForAccounts", b.args)
  BY Zenon, <1>1, <1>2, DecodedTexts DEF Typed, Free, Handlers
<1>4. Fits(b.args)
  BY <1>1, SearchForAccountsPassed, NotBig DEF RoundsAndIds
<1>5. Ordered(b.args)
  BY Zenon, <1>1 DEF ArgsOK, Ordered
<1>6. AccountsSearched("SearchForAccounts", b.args, s.developerMode)
  <2>1. \A n : IsTrue(b, n) <=> On(b.args, n)
    BY DEF IsTrue, Value, Has, On
  <2> QED
    BY Zenon, <2>1, SearchForAccountsPassed DEF AccountsSearched, Has
<1>7. Listed(b.args) = {}
  BY Zenon, <1>1 DEF ArgsOK, Listed
<1>8. OneList(b.args, s.maxAccountListSize)
  BY Zenon, <1>7 DEF OneList
<1> QED
  BY Zenon, <1>3, <1>4, <1>5, <1>6, <1>8 DEF Meaningful

(* Transactions: a filter of a request q, whose role a handler may set. *)
FiltersOf(q) == {transactionFilter(q), [transactionFilter(q) EXCEPT !.role = {"Sender"}]}

LEMMA FilterFields ==
  ASSUME NEW q, NEW f \in FiltersOf(q)
  PROVE  /\ f.minRound = Value(q, "min-round", 0) /\ f.maxRound = Value(q, "max-round", 0)
         /\ f.round = IF Has(q, "round") THEN {q.args["round"]} ELSE {}
         /\ f.ids = {q.args[n] : n \in {"asset-id", "application-id"} \cap DOMAIN q.args}
<1> DEFINE g == transactionFilter(q)
<1>1. /\ g.minRound = Value(q, "min-round", 0) /\ g.maxRound = Value(q, "max-round", 0)
      /\ g.round = IF Has(q, "round") THEN {q.args["round"]} ELSE {}
      /\ g.ids = {q.args[n] : n \in {"asset-id", "application-id"} \cap DOMAIN q.args}
  BY Zenon DEF transactionFilter
<1>2. {"minRound", "maxRound", "round", "ids"} \subseteq DOMAIN g
  BY Zenon DEF transactionFilter
<1>3. f \in {g, [g EXCEPT !.role = {"Sender"}]}
  BY Zenon DEF FiltersOf
<1> HIDE DEF g
<1>4. f.minRound = g.minRound /\ f.maxRound = g.maxRound /\ f.round = g.round /\ f.ids = g.ids
  BY Zenon, <1>2, <1>3
<1> QED
  BY Zenon, <1>1, <1>4

(* q has the arguments of b that a search looks at. *)
SearchTexts == {"address-role", "address", "group-id", "sig-type", "tx-type", "txid", "note-prefix"}
SearchNumbers == {"asset-id", "application-id", "round", "min-round", "max-round"}
Searches(b, q) ==
    \A n \in DOMAIN b.args \cap (SearchTexts \cup SearchNumbers) :
      n \in DOMAIN q.args /\ q.args[n] = b.args[n]

LEMMA SearchDecodes ==
  ASSUME NEW b, NEW q, Searches(b, q), ~FilterErrors(q)
  PROVE  \A n \in SearchTexts \cap DOMAIN b.args : b.args[n] # Undecodable
<1>1. \A n \in SearchTexts \cap DOMAIN q.args : q.args[n] # Undecodable
  BY Zenon DEF FilterErrors, Bad, BadNotEmpty, Has, SearchTexts
<1> QED
  BY Zenon, <1>1 DEF Searches

LEMMA SearchMeans ==
  ASSUME NEW b, NEW op, ArgsOK(b, op), NEW q, Searches(b, q),
         NEW f \in FiltersOf(q), validateTransactionFilter(f)
  PROVE  /\ \A n \in SearchNumbers \cap DOMAIN b.args : b.args[n] <= MaxInt64
         /\ Ordered(b.args)
<1>1. /\ \A v \in {f.minRound, f.maxRound} \cup f.round \cup f.ids : v <= MaxInt64
      /\ f.round # {} => f.minRound = 0 /\ f.maxRound = 0
      /\ (f.round = {} /\ f.minRound # 0 /\ f.maxRound # 0) => f.minRound <= f.maxRound
  BY Zenon DEF validateTransactionFilter
<1>2. \A n \in SearchNumbers \cap DOMAIN b.args : b.args[n] \in Nat
  BY Zenon DEF ArgsOK, SearchNumbers, Typed
<1>3. \A n \in SearchNumbers \cap DOMAIN b.args : Has(q, n) /\ q.args[n] = b.args[n]
  BY Zenon DEF Searches, Has
<1>4. /\ "min-round" \in DOMAIN b.args => f.minRound = b.args["min-round"]
      /\ "max-round" \in DOMAIN b.args => f.maxRound = b.args["max-round"]
      /\ "round" \in DOMAIN b.args => f.round = {b.args["round"]}
      /\ \A n \in {"asset-id", "application-id"} \cap DOMAIN b.args : b.args[n] \in f.ids
  <2>1. /\ f.minRound = Value(q, "min-round", 0) /\ f.maxRound = Value(q, "max-round", 0)
        /\ f.round = IF Has(q, "round") THEN {q.args["round"]} ELSE {}
        /\ f.ids = {q.args[n] : n \in {"asset-id", "application-id"} \cap DOMAIN q.args}
    BY Zenon, FilterFields
  <2>2. /\ "min-round" \in DOMAIN b.args => f.minRound = b.args["min-round"]
        /\ "max-round" \in DOMAIN b.args => f.maxRound = b.args["max-round"]
        /\ "round" \in DOMAIN b.args => f.round = {b.args["round"]}
    BY Zenon, <1>3, <2>1 DEF Value, SearchNumbers
  <2>3. ASSUME NEW n \in {"asset-id", "application-id"} \cap DOMAIN b.args
        PROVE  b.args[n] \in f.ids
    BY Zenon, <1>3, <2>1 DEF Has, SearchNumbers
  <2> QED
    BY Zenon, <2>2, <2>3
<1>5. \A n \in SearchNumbers \cap DOMAIN b.args : b.args[n] <= MaxInt64
  BY Zenon, <1>1, <1>4 DEF SearchNumbers
<1>6. ASSUME "min-round" \in DOMAIN b.args, "max-round" \in DOMAIN b.args, b.args["max-round"] # 0
      PROVE  b.args["min-round"] <= b.args["max-round"]
  BY SMTT(60), <1>1, <1>2, <1>4, <1>6 DEF SearchNumbers
<1>7. ASSUME "round" \in DOMAIN b.args, NEW n \in DOMAIN b.args \cap {"min-round", "max-round"}
      PROVE  b.args[n] = 0
  BY Zenon, <1>1, <1>4, <1>7
<1> QED
  BY Zenon, <1>5, <1>6, <1>7 DEF Ordered

(* An operation on transactions has no lists of accounts and no online-only. *)
LEMMA SearchOperation ==
  ASSUME NEW s, NEW b, NEW op, ArgsOK(b, op), op # "SearchForAccounts",
         AllParams(op) \cap {"online-only", "proposers", "expired", "absent", "round-number"} = {},
         Decodes(op, b.args), Ordered(b.args),
         \A n \in SearchNumbers \cap DOMAIN b.args : b.args[n] <= MaxInt64
  PROVE  Meaningful(op, b.args, s)
<1>1. Fits(b.args)
  BY Zenon DEF ArgsOK, Fits, RoundsAndIds, SearchNumbers
<1>2. AccountsSearched(op, b.args, s.developerMode)
  BY Zenon DEF ArgsOK, AccountsSearched, On
<1>3. Listed(b.args) = {}
  BY Zenon DEF ArgsOK, Listed
<1>4. OneList(b.args, s.maxAccountListSize)
  BY Zenon, <1>3 DEF OneList
<1> QED
  BY Zenon, <1>1, <1>2, <1>4 DEF Meaningful

(* The operations on transactions. *)

LEMMA SearchForTransactionsMeans ==
  ASSUME NEW s, NEW b, ArgsOK(b, "SearchForTransactions"), SearchForTransactions(s, b) = Query
  PROVE  Meaningful("SearchForTransactions", b.args, s)
<1>1. AllParams("SearchForTransactions") =
        {"limit", "next", "note-prefix", "tx-type", "sig-type", "group-id", "txid",
         "round", "min-round", "max-round", "asset-id", "before-time",
         "after-time", "currency-greater-than", "currency-less-than",
         "address", "address-role", "exclude-close-to", "rekey-to",
         "application-id"}
  BY ParamsOf DEF AllParams, SearchForTransactionsParams, Wrapper
<1>2. Searches(b, b)
  BY Zenon DEF Searches
<1>3. ~FilterErrors(b) /\ validateTransactionFilter(transactionFilter(b))
  BY Zenon, SearchForTransactionsPassed
<1>4. \A n \in SearchTexts \cap DOMAIN b.args : b.args[n] # Undecodable
  BY Zenon, <1>2, <1>3, SearchDecodes
<1>5. /\ \A n \in SearchNumbers \cap DOMAIN b.args : b.args[n] <= MaxInt64
      /\ Ordered(b.args)
  BY Zenon, <1>2, <1>3, SearchMeans DEF FiltersOf
<1>6. Decodes("SearchForTransactions", b.args)
  BY Zenon, <1>1, <1>4, DecodedTexts DEF Typed, Free, Handlers, SearchTexts
<1> QED
  BY Zenon, <1>1, <1>5, <1>6, SearchOperation

LEMMA LookupAssetTransactionsMeans ==
  ASSUME NEW s, NEW b, ArgsOK(b, "LookupAssetTransactions"), LookupAssetTransactions(s, b) = Query
  PROVE  Meaningful("LookupAssetTransactions", b.args, s)
<1>1. AllParams("LookupAssetTransactions") =
        {"asset-id", "limit", "next", "note-prefix", "tx-type", "sig-type", "txid",
         "round", "min-round", "max-round", "before-time", "after-time",
         "currency-greater-than", "currency-less-than", "address",
         "address-role", "exclude-close-to", "rekey-to"}
  BY ParamsOf DEF AllParams, LookupAssetTransactionsParams, Wrapper
<1>2. Searches(b, b)
  BY Zenon DEF Searches
<1>3. ~FilterErrors(b) /\ validateTransactionFilter(transactionFilter(b))
  BY Zenon, LookupAssetTransactionsPassed, SearchForTransactionsPassed
<1>4. \A n \in SearchTexts \cap DOMAIN b.args : b.args[n] # Undecodable
  BY Zenon, <1>2, <1>3, SearchDecodes
<1>5. /\ \A n \in SearchNumbers \cap DOMAIN b.args : b.args[n] <= MaxInt64
      /\ Ordered(b.args)
  BY Zenon, <1>2, <1>3, SearchMeans DEF FiltersOf
<1>6. Decodes("LookupAssetTransactions", b.args)
  BY Zenon, <1>1, <1>4, DecodedTexts DEF Typed, Free, Handlers, SearchTexts
<1> QED
  BY Zenon, <1>1, <1>5, <1>6, SearchOperation

LEMMA LookupTransactionMeans ==
  ASSUME NEW s, NEW b, ArgsOK(b, "LookupTransaction"), LookupTransaction(s, b) = Query
  PROVE  Meaningful("LookupTransaction", b.args, s)
<1>1. AllParams("LookupTransaction") =
        {"txid"}
  BY ParamsOf DEF AllParams, LookupTransactionParams, Wrapper
<1>2. Searches(b, b)
  BY Zenon DEF Searches
<1>3. ~FilterErrors(b) /\ validateTransactionFilter(transactionFilter(b))
  BY Zenon, LookupTransactionPassed
<1>4. \A n \in SearchTexts \cap DOMAIN b.args : b.args[n] # Undecodable
  BY Zenon, <1>2, <1>3, SearchDecodes
<1>5. /\ \A n \in SearchNumbers \cap DOMAIN b.args : b.args[n] <= MaxInt64
      /\ Ordered(b.args)
  BY Zenon, <1>2, <1>3, SearchMeans DEF FiltersOf
<1>6. Decodes("LookupTransaction", b.args)
  BY Zenon, <1>1, <1>4, DecodedTexts DEF Typed, Free, Handlers, SearchTexts
<1> QED
  BY Zenon, <1>1, <1>5, <1>6, SearchOperation

LEMMA LookupAccountTransactionsMeans ==
  ASSUME NEW s, NEW b, ArgsOK(b, "LookupAccountTransactions"),
         LookupAccountTransactions(s, b) = Query
  PROVE  Meaningful("LookupAccountTransactions", b.args, s)
<1>1. AllParams("LookupAccountTransactions") =
        {"account-id", "limit", "next", "note-prefix", "tx-type", "sig-type", "txid",
         "round", "min-round", "max-round", "asset-id", "before-time",
         "after-time", "currency-greater-than", "currency-less-than",
         "rekey-to"}
  BY ParamsOf DEF AllParams, LookupAccountTransactionsParams, Wrapper
<1> DEFINE names == LookupAccountTransactionsParams.query
           more == [address |-> b.args["account-id"]]
           q == WithArgs(b, names, more)
<1>2. DOMAIN more = {"address"} /\ AllParams("LookupAccountTransactions") = {"account-id"} \cup names
  BY ParamsOf DEF AllParams, LookupAccountTransactionsParams, Wrapper
<1>3. /\ ~Bad(b, {"account-id"})
      /\ ~FilterErrors(q) /\ validateTransactionFilter(transactionFilter(q))
  BY Zenon, LookupAccountTransactionsPassed, SearchForTransactionsPassed
<1> HIDE DEF more, names
<1>4. /\ DOMAIN q.args = (names \cap DOMAIN b.args) \cup DOMAIN more
      /\ \A n \in DOMAIN q.args : q.args[n] = IF n \in DOMAIN more THEN more[n] ELSE b.args[n]
  BY SMTT(60), ArgsHandedOn
<1> HIDE DEF q
<1>5. Searches(b, q)
  <2>1. DOMAIN b.args \subseteq AllParams("LookupAccountTransactions")
    BY Zenon DEF ArgsOK
  <2>2. \A n \in DOMAIN b.args : n # "account-id" => n \in names /\ n \notin DOMAIN more
    BY Zenon, <1>1, <1>2, <2>1
  <2> QED
    BY Zenon, <1>4, <2>2 DEF Searches, SearchTexts, SearchNumbers
<1>6. \A n \in (SearchTexts \cup {"account-id"}) \cap DOMAIN b.args : b.args[n] # Undecodable
  BY Zenon, <1>3, <1>5, SearchDecodes, NotBad
<1>7. /\ \A n \in SearchNumbers \cap DOMAIN b.args : b.args[n] <= MaxInt64
      /\ Ordered(b.args)
  BY Zenon, <1>3, <1>5, SearchMeans DEF FiltersOf
<1>8. Decodes("LookupAccountTransactions", b.args)
  BY Zenon, <1>1, <1>6, DecodedTexts DEF Typed, Free, Handlers, SearchTexts
<1> QED
  BY Zenon, <1>1, <1>7, <1>8, SearchOperation

LEMMA LookupApplicationLogsByIDMeans ==
  ASSUME NEW s, NEW b, ArgsOK(b, "LookupApplicationLogsByID"),
         LookupApplicationLogsByID(s, b) = Query
  PROVE  Meaningful("LookupApplicationLogsByID", b.args, s)
<1>1. AllParams("LookupApplicationLogsByID") =
        {"application-id", "limit", "next", "txid", "min-round", "max-round",
         "sender-address"}
  BY ParamsOf DEF AllParams, LookupApplicationLogsByIDParams, Wrapper
<1> DEFINE names == LookupApplicationLogsByIDParams.query \cup {"application-id"}
           more == IF Has(b, "sender-address") THEN [address |-> b.args["sender-address"]]
                                               ELSE [n \in {} |-> 0]
           q == WithArgs(b, names, more)
<1>2. /\ DOMAIN more \subseteq {"address"}
      /\ Has(b, "sender-address") => /\ DOMAIN more = {"address"}
                                     /\ more["address"] = b.args["sender-address"]
  BY Zenon
<1>3. AllParams("LookupApplicationLogsByID") = names
  BY ParamsOf DEF AllParams, LookupApplicationLogsByIDParams, Wrapper
<1>4. /\ ~FilterErrors(q)
      /\ validateTransactionFilter([transactionFilter(q) EXCEPT !.role = {"Sender"}])
  BY Zenon, LookupApplicationLogsByIDPassed DEF LogsSearch
<1> HIDE DEF more, names
<1>5. /\ DOMAIN q.args = (names \cap DOMAIN b.args) \cup DOMAIN more
      /\ \A n \in DOMAIN q.args : q.args[n] = IF n \in DOMAIN more THEN more[n] ELSE b.args[n]
  BY SMTT(60), ArgsHandedOn
<1> HIDE DEF q
<1>6. DOMAIN b.args \subseteq names /\ "address" \notin names
  BY Zenon, <1>1, <1>3 DEF ArgsOK
<1>7. Searches(b, q)
  BY Zenon, <1>2, <1>5, <1>6 DEF Searches
<1>8. ASSUME "sender-address" \in DOMAIN b.args PROVE b.args["sender-address"] # Undecodable
  <2>1. "address" \in DOMAIN q.args /\ q.args["address"] = b.args["sender-address"]
    BY Zenon, <1>2, <1>5, <1>8 DEF Has
  <2> QED
    BY Zenon, <1>4, <2>1 DEF FilterErrors, Bad, Has
<1>9. \A n \in (SearchTexts \cup {"sender-address"}) \cap DOMAIN b.args : b.args[n] # Undecodable
  BY Zenon, <1>4, <1>7, <1>8, SearchDecodes
<1>10. /\ \A n \in SearchNumbers \cap DOMAIN b.args : b.args[n] <= MaxInt64
       /\ Ordered(b.args)
  BY Zenon, <1>4, <1>7, SearchMeans DEF FiltersOf
<1>11. Decodes("LookupApplicationLogsByID", b.args)
  BY Zenon, <1>1, <1>9, DecodedTexts DEF Typed, Free, Handlers, SearchTexts
<1> QED
  BY Zenon, <1>1, <1>10, <1>11, SearchOperation

(* Headers: min-round is merged with the token, so it fits if the sum does. *)
LEMMA SearchForBlockHeadersMeans ==
  ASSUME NEW s, s.maxAccountListSize \in Nat,
         NEW b, ArgsOK(b, "SearchForBlockHeaders"), SearchForBlockHeaders(s, b) = Query
  PROVE  Meaningful("SearchForBlockHeaders", b.args, s)
<1>1. AllParams("SearchForBlockHeaders") =
        {"limit", "next", "min-round", "max-round", "before-time", "after-time",
         "proposers", "expired", "absent"}
  BY ParamsOf DEF AllParams, SearchForBlockHeadersParams, Wrapper
<1> DEFINE given == {"proposers", "expired", "absent"} \cap DOMAIN b.args
<1>2. ~BlockFilterErrors(s, b) /\ validateBlockFilter(b)
  BY Zenon, SearchForBlockHeadersPassed
<1>3. /\ ~(Has(b, "min-round") /\ Has(b, "max-round") /\ b.args["min-round"] > b.args["max-round"])
      /\ ~Bad(b, {"next"} \cup {"proposers", "expired", "absent"})
      /\ ~ \E m, n \in given : m # n
      /\ ~ \E n \in given : b.args[n] > s.maxAccountListSize
  BY Zenon, <1>2 DEF BlockFilterErrors
<1>4. \A n \in {"next", "proposers", "expired", "absent"} \cap DOMAIN b.args :
        b.args[n] # Undecodable
  BY Zenon, <1>3 DEF Bad, Has
<1>5. Decodes("SearchForBlockHeaders", b.args)
  BY Zenon, <1>1, <1>4, DecodedTexts DEF Typed, Free, Handlers
<1>6. \A n \in {"min-round", "max-round"} \cap DOMAIN b.args : b.args[n] \in Nat
  BY Zenon DEF ArgsOK, Typed
<1>7. ASSUME "min-round" \in DOMAIN b.args PROVE b.args["min-round"] <= MaxInt64
  <2>1. "next" \in DOMAIN b.args => (b.args["next"] + 1) % (MaxUint64 + 1) \in Int
    <3>1. MaxUint64 + 1 \in Nat \ {0}
      BY LimitsAssumption
    <3>2. "next" \in DOMAIN b.args => b.args["next"] + 1 \in Int
      BY SMTT(60) DEF ArgsOK
    <3> QED
      BY SMTT(60), <3>1, <3>2
  <2> DEFINE low == (IF Has(b, "next") THEN {(b.args["next"] + 1) % (MaxUint64 + 1)} ELSE {})
                    \cup {b.args["min-round"]}
  <2>2. low \subseteq Int /\ b.args["min-round"] \in low
    BY SMTT(60), <1>6, <1>7, <2>1 DEF Has
  <2>3. \E m \in low : \A n \in low : m >= n
    BY SMTT(60), <1>6, <1>7, <2>1 DEF Has
  <2>4. BlockMinRound(b) = CHOOSE m \in low : \A n \in low : m >= n
    BY Zenon, <1>7 DEF BlockMinRound, Has
  <2> HIDE DEF low
  <2>5. BlockMinRound(b) >= b.args["min-round"] /\ BlockMinRound(b) \in Int
    BY Zenon, <2>2, <2>3, <2>4
  <2>6. BlockMinRound(b) <= MaxInt64
    BY Zenon, <1>2 DEF validateBlockFilter
  <2> QED
    BY SMTT(60), <1>6, <1>7, <2>5, <2>6, LimitsAssumption
<1>8. ASSUME "max-round" \in DOMAIN b.args PROVE b.args["max-round"] <= MaxInt64
  BY Zenon, <1>2, <1>8 DEF validateBlockFilter, Value, Has
<1>9. Fits(b.args)
  BY Zenon, <1>1, <1>7, <1>8 DEF ArgsOK, Fits, RoundsAndIds
<1>10. Ordered(b.args)
  BY SMTT(60), <1>1, <1>3, <1>6 DEF ArgsOK, Ordered, Has
<1>11. AccountsSearched("SearchForBlockHeaders", b.args, s.developerMode)
  BY Zenon, <1>1 DEF ArgsOK, AccountsSearched, On
<1>12. OneList(b.args, s.maxAccountListSize)
  <2>1. Listed(b.args) = given
    BY Zenon DEF Listed
  <2>2. \A n \in given : b.args[n] \in Int
    BY Zenon DEF ArgsOK
  <2> HIDE DEF given
  <2> QED
    BY <1>3, <2>1, <2>2 DEF OneList
<1> QED
  BY Zenon, <1>5, <1>9, <1>10, <1>11, <1>12 DEF Meaningful

-----------------------------------------------------------------------------
LEMMA HandlersMean ==
  ASSUME NEW s, s.maxAccountListSize \in Nat, NEW b, b.op \in Operations, ArgsOK(b, b.op),
         Handler(s, b) = Query
  PROVE  Meaningful(b.op, b.args, s)
<1>1. CASE b.op = "SearchForAccounts"
  BY Zenon, <1>1, HandlerOf, SearchForAccountsMeans
<1>2. CASE b.op = "LookupAccountByID"
  BY Zenon, <1>2, HandlerOf, LookupAccountByIDMeans
<1>3. CASE b.op = "LookupAccountAppLocalStates"
  BY Zenon, <1>3, HandlerOf, LookupAccountAppLocalStatesMeans
<1>4. CASE b.op = "LookupAccountAssets"
  BY Zenon, <1>4, HandlerOf, LookupAccountAssetsMeans
<1>5. CASE b.op = "LookupAccountCreatedApplications"
  BY Zenon, <1>5, HandlerOf, LookupAccountCreatedApplicationsMeans
<1>6. CASE b.op = "LookupAccountCreatedAssets"
  BY Zenon, <1>6, HandlerOf, LookupAccountCreatedAssetsMeans
<1>7. CASE b.op = "LookupAccountTransactions"
  BY Zenon, <1>7, HandlerOf, LookupAccountTransactionsMeans
<1>8. CASE b.op = "SearchForApplications"
  BY Zenon, <1>8, HandlerOf, SearchForApplicationsMeans
<1>9. CASE b.op = "LookupApplicationByID"
  BY Zenon, <1>9, HandlerOf, LookupApplicationByIDMeans
<1>10. CASE b.op = "LookupApplicationBoxByIDAndName"
  BY Zenon, <1>10, HandlerOf, LookupApplicationBoxByIDAndNameMeans
<1>11. CASE b.op = "SearchForApplicationBoxes"
  BY Zenon, <1>11, HandlerOf, SearchForApplicationBoxesMeans
<1>12. CASE b.op = "LookupApplicationLogsByID"
  BY Zenon, <1>12, HandlerOf, LookupApplicationLogsByIDMeans
<1>13. CASE b.op = "SearchForAssets"
  BY Zenon, <1>13, HandlerOf, SearchForAssetsMeans
<1>14. CASE b.op = "LookupAssetByID"
  BY Zenon, <1>14, HandlerOf, LookupAssetByIDMeans
<1>15. CASE b.op = "LookupAssetBalances"
  BY Zenon, <1>15, HandlerOf, LookupAssetBalancesMeans
<1>16. CASE b.op = "LookupAssetTransactions"
  BY Zenon, <1>16, HandlerOf, LookupAssetTransactionsMeans
<1>17. CASE b.op = "SearchForBlockHeaders"
  BY Zenon, <1>17, HandlerOf, SearchForBlockHeadersMeans
<1>18. CASE b.op = "LookupBlock"
  BY Zenon, <1>18, HandlerOf, LookupBlockMeans
<1>19. CASE b.op = "SearchForTransactions"
  BY Zenon, <1>19, HandlerOf, SearchForTransactionsMeans
<1>20. CASE b.op = "LookupTransaction"
  BY Zenon, <1>20, HandlerOf, LookupTransactionMeans
<1> QED
  BY SMTT(60), <1>1, <1>2, <1>3, <1>4, <1>5, <1>6, <1>7, <1>8, <1>9, <1>10, <1>11, <1>12,
     <1>13, <1>14, <1>15, <1>16, <1>17, <1>18, <1>19, <1>20, OperationNames

LEMMA SenseAtDatabase == IInv => QueriesMakeSense
<1> SUFFICES ASSUME IInv, NEW r \in AtDatabase
             PROVE  Meaningful(r.op, Bound(r).args, cfg)
  BY Zenon DEF QueriesMakeSense, Meaningful, Decodes, Free, Fits, RoundsAndIds, Ordered,
         AccountsSearched, On, OneList, Listed
<1> DEFINE s == ServerImplementation
           b == Bound(r)
<1>1. /\ s.developerMode = cfg.developerMode
      /\ s.maxAccountListSize = cfg.maxAccountListSize /\ s.maxAccountListSize \in Nat
  BY Zenon, AtDatabaseState DEF ServerImplementation, OptionsMade, IInv, CfgInv
<1>2. b.op = r.op
  BY Zenon DEF Bound
<1>3. Handler(s, b) = Query
  BY Zenon, AtDatabaseState DEF PassedHandler
<1>4. r.op \in Operations
  BY Zenon, AtDatabaseState
<1>5. ArgsOK(b, r.op)
  BY Zenon, AtDatabaseState, BoundArgs
<1> HIDE DEF s, b
<1>6. Meaningful(r.op, b.args, s)
  BY Zenon, <1>1, <1>2, <1>3, <1>4, <1>5, HandlersMean
<1>7. Meaningful(r.op, b.args, cfg)
  BY Zenon, <1>1, <1>6 DEF Meaningful
<1> QED
  BY Zenon, <1>7 DEF b

(* A request gets to the database only if it means something: every         *)
(* handler, nested ones included, has refused malformed and undecodable    *)
(* values, rounds and ids beyond a signed column, contradictory ranges,    *)
(* long lists and rewinding searches without developer mode.               *)
THEOREM QueriesDoMakeSense == Spec => []QueriesMakeSense
  BY DaemonInvariant, SenseAtDatabase, PTL
=============================================================================
