------------------------------ MODULE Migration ------------------------------
(***************************************************************************)
(* Opening a database and migrating it: openPostgres, IndexerDb.init,      *)
(* runAvailableMigrations (idb/postgres) and the task runner of            *)
(* idb/migration, with Health as the API's middleware reads it.            *)
(*                                                                         *)
(* Several processes may open the same database. Each keeps the migration  *)
(* state it read at start-up in memory and advances that copy; a handler   *)
(* changes the schema and the stored state in one transaction. Processes   *)
(* fail, crash and are started again. One of the handlers converts the     *)
(* accounts (ConvertAccountData), while a process that was let in before   *)
(* may already be importing.                                               *)
(***************************************************************************)
EXTENDS Integers, FiniteSets, ConvertAccountData

CONSTANTS
    Procs,      \* processes
    ReadOnly,   \* those that open the database read-only
    N,          \* length of the migrations table; entries are 0 .. N-1
    Blocking,   \* entries that make the database unavailable
    Unsupported,\* entries whose handler is upgradeNotSupported
    Convert,    \* the entry whose handler is convertAccountData
    Once,       \* entries whose SQL fails when it was executed before
    OldStates,  \* stored states of databases an earlier release left
    OldLive,    \* the sets of live accounts such a database may have
    OldOwns,    \* what the accounts of such a database own
    Fresh,      \* whether the database may be new
    MaxFaults,  \* bound on database errors and crashes
    MaxImports  \* bound on the blocks imported meanwhile

ASSUME TableAssumption ==
    /\ N \in Nat /\ MaxFaults \in Nat
    /\ ReadOnly \subseteq Procs
    /\ Blocking \subseteq 0 .. N - 1
    /\ Unsupported \subseteq 0 .. N - 1
    /\ Once \subseteq 0 .. N - 1
    /\ Convert \in 0 .. N - 1 /\ MaxImports \in Nat
    /\ OldStates \subseteq -1 .. N
    /\ OldLive \subseteq SUBSET Addresses /\ OldOwns \in [Addresses -> Totals]
    /\ Fresh \in BOOLEAN

(* The conversion blocks queries, and no entry that a process may run      *)
(* again comes before one that it may not.                                 *)
ASSUME OrderAssumption ==
    /\ Convert \in Blocking
    /\ \A i \in Once : \A j \in 0 .. i - 1 : j \in Once \cup Unsupported

NotInitialized == -1    \* there is no migration state row
MarkDone       == N     \* the extra task with ID 9999999
Finished       == N + 1 \* past the last task

VARIABLES
    setup,    \* the tables exist
    stored,   \* metastate 'migration': NextMigration
    applied,  \* entries whose change the schema shows
    created,  \* the tables were made by this release's setup
    account,  \* the account table
    pc,       \* where each process is in openPostgres or runMigrations
    mem,      \* the process's copy of NextMigration
    task,     \* the task its runner is at
    until,    \* blockUntil
    blocking, \* the runner's local flag
    closes,   \* how often the returned channel was closed
    status,   \* Migration.state, or Nil when db.migration is nil
    faults,
    imports

dbvars == <<setup, stored, applied, created, account, imports>>
vars == <<setup, stored, applied, created, account, pc, mem, task, until, blocking,
          closes, status, faults, imports>>

Statuses == [running : BOOLEAN, blocking : BOOLEAN, err : {"nil", "unsupported", "sql"}]
Nil      == [running |-> FALSE, blocking |-> FALSE, err |-> "none"]

(* The one type invariant. *)
TypeOK ==
    /\ setup \in BOOLEAN /\ created \in BOOLEAN
    /\ stored \in -1 .. N
    /\ applied \subseteq 0 .. N - 1
    /\ pc \in [Procs -> {"down", "open", "setup", "mark", "load", "start", "handler",
                          "up"}]
    /\ mem \in [Procs -> 0 .. N]
    /\ task \in [Procs -> 0 .. Finished]
    /\ until \in [Procs -> 0 .. N]
    /\ blocking \in [Procs -> BOOLEAN]
    /\ closes \in [Procs -> 0 .. 2]
    /\ status \in [Procs -> Statuses \cup {Nil}]
    /\ account \in [Addresses -> AccountRow]
    /\ faults \in 0 .. MaxFaults /\ imports \in 0 .. MaxImports

(* An account an earlier release left; an address without a row is like a   *)
(* deleted account, which owns nothing.                                    *)
OldRow(live, owns) ==
    [deleted |-> ~live,
     owns    |-> IF live THEN owns ELSE NoTotals,
     totals  |-> IF live /\ stored > Convert THEN owns ELSE NoTotals]

(* A new database, or one an earlier release migrated up to stored. *)
Init ==
    /\ \/ /\ Fresh /\ setup = FALSE
          /\ stored = NotInitialized /\ applied = {}
          /\ account = [a \in Addresses |->
                         [deleted |-> TRUE, totals |-> NoTotals, owns |-> NoTotals]]
       \/ /\ setup = TRUE
          /\ stored \in OldStates
          /\ applied = 0 .. stored - 1
          /\ \E live \in OldLive :
               account = [a \in Addresses |-> OldRow(a \in live, OldOwns[a])]
    /\ imports = 0
    /\ created = FALSE
    /\ pc = [p \in Procs |-> "down"]
    /\ mem = [p \in Procs |-> 0]
    /\ task = [p \in Procs |-> 0]
    /\ until = [p \in Procs |-> 0]
    /\ blocking = [p \in Procs |-> TRUE]
    /\ closes = [p \in Procs |-> 0]
    /\ status = [p \in Procs |-> Nil]
    /\ faults = 0

Fault == faults < MaxFaults /\ faults' = faults + 1

Goto(p, label) == pc' = [pc EXCEPT ![p] = label]

(* migrationStateBlocked and needsMigration. *)
MigrationStateBlocked(s) == \E i \in Blocking : i >= s

(* Mutant: the first blocking task instead of the last. *)
FirstBlocking(s) ==
    IF MigrationStateBlocked(s)
      THEN CHOOSE i \in Blocking : i >= s /\ \A j \in Blocking : j >= s => i <= j
      ELSE 0

(* setTasks: the last blocking task, or 0 when there is none. *)
BlockUntil(s) ==
    IF MigrationStateBlocked(s)
      THEN CHOOSE i \in Blocking : i >= s /\ \A j \in Blocking : j <= i
      ELSE 0

-----------------------------------------------------------------------------
(* OpenPostgres is called. *)
Start(p) ==
    /\ pc[p] = "down"
    /\ Goto(p, "open")
    /\ UNCHANGED <<dbvars, mem, task, until, blocking, closes, status, faults>>

(* openPostgres of a read-only process: an error when there is no state    *)
(* row, otherwise the channel is closed unless a blocking entry is due.    *)
OpenReadOnly(p) ==
    /\ pc[p] = "open" /\ p \in ReadOnly
    /\ \/ setup /\ stored # NotInitialized /\ Goto(p, "up")
       \/ ~(setup /\ stored # NotInitialized) /\ Goto(p, "down")
    /\ closes' = [closes EXCEPT ![p] =
                    IF setup /\ stored # NotInitialized /\ ~MigrationStateBlocked(stored)
                      THEN 1 ELSE 0]
    /\ UNCHANGED <<dbvars, mem, task, until, blocking, status, faults>>

(* init: isSetup, then the setup SQL (CREATE ... IF NOT EXISTS, one        *)
(* transaction), then markMigrationsAsDone, each a call of its own. A call *)
(* that takes effect and still returns an error ends as a crash after it.  *)
IsSetup(p) ==
    /\ pc[p] = "open" /\ p \notin ReadOnly
    /\ Goto(p, IF setup THEN "load" ELSE "setup")
    /\ UNCHANGED <<dbvars, mem, task, until, blocking, closes, status, faults>>

SetupPostgres(p) ==
    /\ pc[p] = "setup"
    /\ setup' = TRUE
    /\ applied' = IF setup THEN applied ELSE 0 .. N - 1
    /\ created' = (created \/ ~setup)
    /\ Goto(p, "mark")
    /\ UNCHANGED <<stored, account, mem, task, until, blocking, closes, status, faults, imports>>

(* The new database is available at once: the channel is closed and        *)
(* db.migration stays nil.                                                 *)
MarkNewDatabase(p) ==
    /\ pc[p] = "mark"
    /\ stored' = N
    /\ closes' = [closes EXCEPT ![p] = @ + 1]
    /\ Goto(p, "up")
    /\ UNCHANGED <<setup, applied, created, account, mem, task, until, blocking, status,
                   faults, imports>>

(* runAvailableMigrations: read the state, make the tasks, start the       *)
(* runner. A missing row counts as state 0.                                *)
LoadTasks(p) ==
    /\ pc[p] = "load"
    /\ LET s == IF stored = NotInitialized THEN 0 ELSE stored IN
         /\ mem' = [mem EXCEPT ![p] = s]
         /\ task' = [task EXCEPT ![p] = IF s < N THEN s ELSE Finished]
         /\ until' = [until EXCEPT ![p] = BlockUntil(s)]
    /\ blocking' = [blocking EXCEPT ![p] = TRUE]
    /\ status' = [status EXCEPT ![p] = [running |-> FALSE, blocking |-> TRUE, err |-> "nil"]]
    /\ Goto(p, "start")
    /\ UNCHANGED <<dbvars, closes, faults>>

(* The head of runMigrations' loop. *)
StartTask(p) ==
    LET free == task[p] > until[p] IN
    /\ pc[p] = "start" /\ task[p] # Finished
    /\ blocking' = [blocking EXCEPT ![p] = @ /\ ~free]
    /\ closes' = [closes EXCEPT ![p] = IF blocking[p] /\ free THEN @ + 1 ELSE @]
    /\ status' = [status EXCEPT ![p] = [running |-> TRUE, blocking |-> blocking[p] /\ ~free,
                                        err |-> "nil"]]
    /\ Goto(p, "handler")
    /\ UNCHANGED <<dbvars, mem, task, until, faults>>

(* Mutant: the channel is closed without looking at the local flag. *)
FinishTasksAlwaysClose(p) ==
    /\ pc[p] = "start" /\ task[p] = Finished
    /\ status' = [status EXCEPT ![p] = [running |-> FALSE, blocking |-> FALSE, err |-> "nil"]]
    /\ closes' = [closes EXCEPT ![p] = @ + 1]
    /\ Goto(p, "up")
    /\ UNCHANGED <<dbvars, mem, task, until, blocking, faults>>

(* What follows the loop. *)
FinishTasks(p) ==
    /\ pc[p] = "start" /\ task[p] = Finished
    /\ status' = [status EXCEPT ![p] = [running |-> FALSE, blocking |-> FALSE, err |-> "nil"]]
    /\ closes' = [closes EXCEPT ![p] = IF blocking[p] THEN @ + 1 ELSE @]
    /\ Goto(p, "up")
    /\ UNCHANGED <<dbvars, mem, task, until, blocking, faults>>

(* A handler returns an error: the runner blocks queries and stops. *)
HaltWith(p, e) ==
    /\ blocking' = [blocking EXCEPT ![p] = TRUE]
    /\ status' = [status EXCEPT ![p] = [running |-> FALSE, blocking |-> TRUE, err |-> e]]
    /\ Goto(p, "up")
    /\ UNCHANGED <<mem, task, until, closes>>

(* A handler succeeds: the loop goes on. *)
NextTask(p) ==
    /\ task' = [task EXCEPT ![p] = @ + 1]
    /\ Goto(p, "start")
    /\ UNCHANGED <<until, blocking, closes, status>>

UpgradeNotSupported(p) ==
    /\ pc[p] = "handler" /\ task[p] \in Unsupported
    /\ HaltWith(p, "unsupported")
    /\ UNCHANGED <<dbvars, faults>>

(* Mutant: the state is written in a transaction of its own, first. *)
RunHandlerStateFirst(p) ==
    /\ pc[p] = "handler" /\ task[p] < N /\ task[p] \notin Unsupported
    /\ task[p] \in Once => task[p] \notin applied
    /\ stored' = mem[p] + 1
    /\ \/ /\ applied' = applied \cup {task[p]}
          /\ mem' = [mem EXCEPT ![p] = @ + 1]
          /\ NextTask(p)
          /\ UNCHANGED faults
       \/ Fault /\ HaltWith(p, "sql") /\ UNCHANGED applied
    /\ UNCHANGED <<setup, created, account, imports>>

(* Mutant: the state is written in a transaction of its own, last. *)
RunHandlerStateLast(p) ==
    /\ pc[p] = "handler" /\ task[p] < N /\ task[p] \notin Unsupported
    /\ task[p] \in Once => task[p] \notin applied
    /\ applied' = applied \cup {task[p]}
    /\ \/ /\ stored' = mem[p] + 1
          /\ mem' = [mem EXCEPT ![p] = @ + 1]
          /\ NextTask(p)
          /\ UNCHANGED faults
       \/ Fault /\ HaltWith(p, "sql") /\ UNCHANGED stored
    /\ UNCHANGED <<setup, created, account, imports>>

(* sqlMigration and convertAccountData: the change and NextMigration + 1   *)
(* of the process's own copy commit together. The commit may also take     *)
(* effect although an error is returned.                                   *)
RunHandler(p) ==
    /\ pc[p] = "handler" /\ task[p] < N /\ task[p] \notin Unsupported
    /\ task[p] \in Once => task[p] \notin applied
    /\ applied' = applied \cup {task[p]}
    /\ account' = IF task[p] = Convert THEN RunMigration(account) ELSE account
    /\ stored' = mem[p] + 1
    /\ \/ /\ mem' = [mem EXCEPT ![p] = @ + 1]
          /\ NextTask(p)
          /\ UNCHANGED faults
       \/ Fault /\ HaltWith(p, "sql")
    /\ UNCHANGED <<setup, created, imports>>

(* The SQL of an entry that was executed already fails for good. *)
RunHandlerAgain(p) ==
    /\ pc[p] = "handler" /\ task[p] \in Once \cap applied /\ task[p] \notin Unsupported
    /\ HaltWith(p, "sql")
    /\ UNCHANGED <<dbvars, faults>>

(* The last task: markMigrationsAsDone. *)
MarkMigrationsAsDone(p) ==
    /\ pc[p] = "handler" /\ task[p] = MarkDone
    /\ stored' = N
    /\ \/ NextTask(p) /\ UNCHANGED <<mem, faults>>
       \/ Fault /\ HaltWith(p, "sql")
    /\ UNCHANGED <<setup, applied, created, account, imports>>

(* A statement fails without effect. Before the runner starts, the call    *)
(* returns an error and the process gives up.                              *)
StatementError(p) ==
    /\ Fault
    /\ \/ /\ pc[p] = "handler"
          /\ HaltWith(p, "sql")
       \/ /\ pc[p] \in {"open", "setup", "mark", "load"}
          /\ Goto(p, "down")
          /\ UNCHANGED <<mem, task, until, blocking, closes, status>>
    /\ UNCHANGED dbvars

(* A writer that waited for the channel of OpenPostgres imports a block in *)
(* which an account, new or old, creates or opts in to something: the row  *)
(* and the account's new totals come with the block.                       *)
ImportBlock(p) ==
    /\ p \notin ReadOnly /\ closes[p] > 0 /\ imports < MaxImports
    /\ \E a \in Addresses, t \in Tables :
         LET row   == account[a]
             total == IF row.deleted THEN NoTotals ELSE row.totals
             n     == row.owns[t] + 1
         IN  /\ n <= MaxRows
             /\ account' = [account EXCEPT ![a] =
                              [deleted |-> FALSE,
                               totals  |-> [total EXCEPT ![t] = n],
                               owns    |-> [row.owns EXCEPT ![t] = n]]]
    /\ imports' = imports + 1
    /\ UNCHANGED <<setup, stored, applied, created, pc, mem, task, until, blocking, closes,
                   status, faults>>

Stopped(p) ==
    /\ pc' = [pc EXCEPT ![p] = "down"]
    /\ mem' = [mem EXCEPT ![p] = 0]
    /\ task' = [task EXCEPT ![p] = 0]
    /\ until' = [until EXCEPT ![p] = 0]
    /\ blocking' = [blocking EXCEPT ![p] = TRUE]
    /\ closes' = [closes EXCEPT ![p] = 0]
    /\ status' = [status EXCEPT ![p] = Nil]

Crash(p) ==
    /\ pc[p] # "down" /\ Fault
    /\ Stopped(p)
    /\ UNCHANGED dbvars

(* The operator stops a process. *)
Stop(p) ==
    /\ pc[p] = "up"
    /\ Stopped(p)
    /\ UNCHANGED <<dbvars, faults>>

-----------------------------------------------------------------------------
Step(p) ==
    \/ OpenReadOnly(p) \/ IsSetup(p) \/ SetupPostgres(p) \/ MarkNewDatabase(p)
    \/ LoadTasks(p) \/ StartTask(p) \/ FinishTasks(p) \/ UpgradeNotSupported(p)
    \/ RunHandler(p) \/ RunHandlerAgain(p) \/ MarkMigrationsAsDone(p)

Next == \E p \in Procs :
          Start(p) \/ Step(p) \/ StatementError(p) \/ ImportBlock(p) \/ Crash(p) \/ Stop(p)

Spec == Init /\ [][Next]_vars

(* A process runs on, and the operator starts it again when it is down or  *)
(* its migration halted.                                                   *)
FairSpec ==
    /\ Spec
    /\ \A p \in Procs :
         /\ WF_vars(Step(p))
         /\ WF_vars(Start(p))
         /\ WF_vars(status[p].err \in {"unsupported", "sql"} /\ Stop(p))

-----------------------------------------------------------------------------
(* Health's DBAvailable; it is an error without a state row. *)
DBAvailable(p) ==
    /\ pc[p] \in {"start", "handler", "up"}
    /\ \/ status[p] # Nil /\ ~status[p].blocking
       \/ status[p] = Nil /\ stored # NotInitialized /\ ~MigrationStateBlocked(stored)

(* The stored state never claims a change that the schema does not show,   *)
(* even when a process with a stale copy writes it back.                   *)
StoredIsApplied == \A i \in 0 .. stored - 1 : i \in applied

(* A change that can be made only once is never due again: a process that  *)
(* writes its stale copy of the state back, or dies between two            *)
(* statements, does not leave a database that no process can migrate.      *)
OnceNotDueAgain == ~created => \A i \in Once \cap applied : stored > i

(* Queries pass the migration middleware, and the channel of OpenPostgres  *)
(* is closed, only once every blocking change is in the schema.            *)
AvailableIsMigrated ==
    \A p \in Procs : (DBAvailable(p) \/ closes[p] > 0) => Blocking \subseteq applied

(* Whoever is let in reads accounts with the right totals: every batch of  *)
(* the conversion was written, also when a process with a stale copy of    *)
(* the state converts again what an importer has changed since.            *)
TotalsConverted ==
    (\E p \in Procs : DBAvailable(p) \/ closes[p] > 0) =>
      \A a \in Addresses : ~account[a].deleted => account[a].totals = account[a].owns

(* "Closes `ch' when blocking migrations finish": never twice, which would *)
(* panic, and once the runner is through the channel is closed.            *)
ClosedOnce ==
    \A p \in Procs :
      /\ closes[p] <= 1
      /\ (p \notin ReadOnly /\ pc[p] = "up" /\ status[p].err \in {"nil", "none"}) =>
           closes[p] = 1

(* A database without unsupported entries ahead becomes available to a     *)
(* process that migrates it, whatever failed before.                       *)
EventuallyAvailable ==
    \A p \in Procs \ ReadOnly :
      (\A i \in Unsupported : i < stored) ~> closes[p] = 1
=============================================================================
