----------------------------- MODULE Supervisor -----------------------------
(***************************************************************************)
(* The command: a supervisor that runs one sync in a worker process, waits *)
(* for it up to the deadline, kills it if need be and reports.  The worker *)
(* reads the library through Coordination; several commands may run at     *)
(* once.  A deadline may pass at any time; fairness makes it pass.         *)
(***************************************************************************)
EXTENDS Coordination, Integers

VARIABLES
  sup,     \* where each supervisor is
  report,  \* how _run_process_with_hard_timeout ended
  work,    \* where its worker is
  code,    \* the worker's exit code, NoCode until it is over
  hung,    \* workers blocked for good: a trickling response, a database gate
  killed,  \* workers that have been sent SIGKILL by their supervisor
  synced   \* workers whose synchronization was completed

Commands == Readers
NoCode == -1
KilledCode == -9
TIMEOUT_EXIT_CODE == 124

supervisorVars == <<sup, report, killed>>
workerVars == <<work, code, hung, synced>>
commandVars == <<vars, supervisorVars, workerVars>>

CommandInit ==
  /\ Init
  /\ sup = [c \in Commands |-> "idle"]
  /\ report = [c \in Commands |-> "none"]
  /\ work = [c \in Commands |-> "unborn"]
  /\ code = [c \in Commands |-> NoCode]
  /\ hung = {} /\ killed = {} /\ synced = {}

Alive(c) == work[c] \notin {"unborn", "over"}

-----------------------------------------------------------------------------
(* The worker: _sync_worker around _sync_from_config_paths.                 *)

Works(c, from, to) == work[c] = from /\ c \notin hung /\ work' = [work EXCEPT ![c] = to]

Ends(c, from, status) ==
  Works(c, from, "over") /\ code' = [code EXCEPT ![c] = status] /\ UNCHANGED <<hung, synced>>

Proceeds(c, from, to) == Works(c, from, to) /\ UNCHANGED <<code, hung, synced>>

\* Mutation of ExitCode: an exit code of its own for a library in use.
ExitCodePerException(exception) ==
  CASE exception = "none" -> 0
    [] exception = "timeout" -> TIMEOUT_EXIT_CODE
    [] exception = "unavailable" -> 2
    [] OTHER -> 1

ExitCode(exception) ==
  CASE exception = "none" -> 0
    [] exception = "timeout" -> TIMEOUT_EXIT_CODE
    [] OTHER -> 1

\* Any exception ends the worker, a time-out of whatever stage with its own code.
Raises(c, from) == \E e \in {"failed", "timeout"} : Ends(c, from, ExitCode(e))

\* Both configurations, and the admin facade of the read-only one.
LoadConfig(c) == Proceeds(c, "config", "readiness") \/ Raises(c, "config")

\* The admin facade is closed whether or not the database is ready.
CheckReadiness(c) == Proceeds(c, "readiness", "catalog") \/ Raises(c, "readiness")

OpenCatalog(c) == Proceeds(c, "catalog", "sync") \/ Raises(c, "catalog")

\* Mutation of Sync: the loop keeps polling past its deadline.
SyncForever(c) ==
  /\ work[c] = "sync" /\ c \notin hung
  /\ Admit(c) \/ Leave(c)
  /\ UNCHANGED workerVars

\* sync_komga_library: read() and its body.
Sync(c) ==
  /\ work[c] = "sync" /\ c \notin hung
  /\ Admit(c) \/ Leave(c) \/ \E e \in {"none", "failed", "timeout"} : Body(c, e)
  /\ synced' = IF pc[c] = "reading" /\ raised'[c] = "none" THEN synced \union {c} ELSE synced
  /\ UNCHANGED <<work, code, hung>>

\* Mutation of CloseCatalog: what the worker raised is logged, not passed on.
CloseCatalogAndReturn(c) == pc[c] = "ended" /\ Ends(c, "sync", 0)

\* Closing may fail, and then its exception is the one that counts.
CloseCatalog(c) ==
  pc[c] = "ended" /\ (Ends(c, "sync", ExitCode(raised[c])) \/ Raises(c, "sync"))

WorkerStep(c) ==
  \/ Sync(c)
  \/ (LoadConfig(c) \/ CheckReadiness(c) \/ OpenCatalog(c) \/ CloseCatalog(c))
       /\ UNCHANGED readerVars

Hang(c) ==
  /\ Alive(c) /\ hung' = hung \union {c}
  /\ UNCHANGED <<work, code, synced, readerVars>>

WorkerDies(c) ==
  /\ Alive(c) /\ work' = [work EXCEPT ![c] = "over"]
  /\ code' = [code EXCEPT ![c] = KilledCode]
  /\ Die(c) /\ UNCHANGED <<hung, synced>>

-----------------------------------------------------------------------------
(* The supervisor: _run_process_with_hard_timeout.                          *)

Moves(c, from, to) == sup[c] = from /\ sup' = [sup EXCEPT ![c] = to]

Reports(c, from, result) ==
  /\ Moves(c, from, "reported")
  /\ report' = [report EXCEPT ![c] = result]
  /\ UNCHANGED killed

Start(c) ==
  /\ Moves(c, "idle", "joining")
  /\ work' = [work EXCEPT ![c] = "config"]
  /\ UNCHANGED <<report, killed, code, hung, synced>>

Interpret(status) ==
  CASE status = 0 -> "ok"
    [] status = TIMEOUT_EXIT_CODE -> "timeout"
    [] OTHER -> "error"

\* Mutation of AfterJoin: no limit to the join.
AfterUnlimitedJoin(c) == ~Alive(c) /\ Reports(c, "joining", Interpret(code[c]))

\* Mutation of AfterJoin: the grace period first, and no kill.
AfterJoinLenient(c) ==
  IF Alive(c) THEN Moves(c, "joining", "grace") /\ UNCHANGED <<report, killed>>
  ELSE Reports(c, "joining", Interpret(code[c]))

\* The worker is over, or the deadline is; is_alive() tells which.
AfterJoin(c) ==
  IF Alive(c) THEN Moves(c, "joining", "expired") /\ UNCHANGED <<report, killed>>
  ELSE Reports(c, "joining", Interpret(code[c]))

\* A worker that is over by now cannot be killed.
Kill(c) ==
  /\ Moves(c, "expired", "grace")
  /\ killed' = IF Alive(c) THEN killed \union {c} ELSE killed
  /\ UNCHANGED report

\* Mutation of AfterGrace: no second is_alive().
AfterGraceUnseen(c) == Reports(c, "grace", "timeout")

\* The grace period is over or the worker is; is_alive() is asked again.
AfterGrace(c) == Reports(c, "grace", IF Alive(c) THEN "unkillable" ELSE "timeout")

\* The exit handler of multiprocessing joins a daemon that is still there.
Exit(c) == Moves(c, "reported", "exited") /\ ~Alive(c) /\ UNCHANGED <<report, killed>>

SupervisorStep(c) == AfterJoin(c) \/ Kill(c) \/ AfterGrace(c) \/ Exit(c)

\* The supervisor is killed itself; its worker goes on.
SupervisorDies(c) ==
  sup[c] \notin {"idle", "exited", "gone"} /\ Moves(c, sup[c], "gone")
    /\ UNCHANGED <<report, killed>>

-----------------------------------------------------------------------------
RunsWorker(c) ==
  (WorkerStep(c) \/ Hang(c) \/ WorkerDies(c)) /\ UNCHANGED <<supervisorVars, ingestVars>>

Supervises(c) == (SupervisorStep(c) \/ SupervisorDies(c)) /\ UNCHANGED <<vars, workerVars>>

CommandNext ==
  \/ \E c \in Commands : RunsWorker(c) \/ Supervises(c) \/ (Start(c) /\ UNCHANGED vars)
  \/ IngestNext /\ UNCHANGED <<readerVars, supervisorVars, workerVars>>

\* A worker that does not hang keeps its own deadline, an orphan too; joins
\* return, and SIGKILL arrives.
CommandFairness ==
  \A c \in Commands :
    /\ WF_commandVars(WorkerStep(c) /\ UNCHANGED <<supervisorVars, ingestVars>>)
    /\ WF_commandVars(SupervisorStep(c) /\ UNCHANGED <<vars, workerVars>>)
    /\ WF_commandVars(c \in killed /\ WorkerDies(c) /\ UNCHANGED <<supervisorVars, ingestVars>>)

CommandSpec == CommandInit /\ [][CommandNext]_commandVars /\ CommandFairness

-----------------------------------------------------------------------------
(* Properties.                                                             *)

CommandTypeOK ==
  /\ TypeOK
  /\ sup \in [Commands -> {"idle", "joining", "expired", "grace", "reported", "exited", "gone"}]
  /\ report \in [Commands -> {"none", "ok", "timeout", "error", "unkillable"}]
  /\ work \in [Commands -> {"unborn", "config", "readiness", "catalog", "sync", "over"}]
  /\ code \in [Commands -> {NoCode, KilledCode, 0, 1, TIMEOUT_EXIT_CODE}]
  /\ hung \subseteq Commands /\ killed \subseteq Commands /\ synced \subseteq Commands

\* Success is reported of a completed synchronization only, whose worker left
\* nothing behind: no race of a late end with the kill turns into success.
SuccessIsSynced ==
  \A c \in Commands : report[c] = "ok" =>
    c \in synced /\ ~Alive(c) /\ c \notin shared /\ open[c] = {}

\* Once the command has reported anything but a worker it could not kill, its
\* worker is gone and no longer writes to Komga nor keeps ingest out.
QuietAfterReport ==
  \A c \in Commands : report[c] \in {"ok", "timeout", "error"} => ~Alive(c) /\ c \notin shared

\* Nobody waits without a limit for a worker that was not told to go: one that is
\* still there after the deadline, when the exit handler of multiprocessing joins
\* it, has been sent SIGKILL, and the command exits over no worker and no lock.
OverdueIsKilled ==
  \A c \in Commands :
    /\ sup[c] \in {"grace", "reported"} /\ Alive(c) => c \in killed
    /\ sup[c] = "exited" => ~Alive(c) /\ c \notin shared

\* The command ends, though its worker may hang anywhere and ignore every
\* cooperative deadline (docstring of _run_process_with_hard_timeout).
CommandEnds == \A c \in Commands : sup[c] = "joining" ~> sup[c] \in {"exited", "gone"}

\* Ingest gets its chance: a sync gives its lock back by itself or by its death.
\* Only an orphan that hangs keeps it.
LockComesBack ==
  \A c \in Commands : c \in shared ~> c \notin shared \/ (sup[c] = "gone" /\ c \in hung)

\* What a time-out is reported to be: "Komga synchronization exceeded the ... hard
\* timeout" (__main__.py:141), a failure of this synchronization (README.md:196).
\* A worker that was killed is left aside: what it ended with cannot be asked for.
TimeoutIsNotSynced ==
  \A c \in Commands : report[c] = "timeout" /\ code[c] = 0 => c \notin synced
=============================================================================
