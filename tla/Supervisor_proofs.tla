------------------------- MODULE Supervisor_proofs -------------------------
(***************************************************************************)
(* What the report of a command tells, for any number of commands that     *)
(* share a library with ingest.                                            *)
(***************************************************************************)
EXTENDS Supervisor, Coordination_proofs

-----------------------------------------------------------------------------
(* The composition takes no step that read() and ingest would not take.    *)

LEMMA NextCoordinates == [CommandNext]_commandVars => [Next]_vars
<1> SUFFICES ASSUME [CommandNext]_commandVars PROVE [Next]_vars
  OBVIOUS
<1>1. ASSUME NEW c \in Commands, RunsWorker(c) PROVE [Next]_vars
  <2>1. CASE Sync(c)
    BY <1>1, <2>1 DEF Sync, RunsWorker, Next, ReaderNext, Commands
  <2>2. CASE WorkerDies(c)
    BY <1>1, <2>2 DEF WorkerDies, RunsWorker, Next, ReaderNext, Commands
  <2>3. CASE UNCHANGED <<readerVars, ingestVars>>
    BY <2>3 DEF vars
  <2> QED  BY <1>1, <2>1, <2>2, <2>3 DEF RunsWorker, WorkerStep, Hang
<1>2. CASE IngestNext /\ UNCHANGED readerVars  BY <1>2 DEF Next
<1>3. CASE UNCHANGED vars  BY <1>3
<1> QED  BY <1>1, <1>2, <1>3 DEF CommandNext, Supervises, commandVars

LEMMA Coordinates == CommandSpec => Init /\ [][Next]_vars
<1>1. CommandInit => Init  BY DEF CommandInit
<1> QED  BY <1>1, NextCoordinates, PTL DEF CommandSpec

\* Commands keep the lock discipline: whatever hangs or is killed, no sync
\* reads a library that is half switched over.
THEOREM CommandsReadWholeLibrary == CommandSpec => []ReadsWholeLibrary
<1>1. Inv => ReadsWholeLibrary
  BY DEF Inv, TypeOK, LockDiscipline, ReadsWholeLibrary
<1> QED  BY Coordinates, Invariance, <1>1, PTL

-----------------------------------------------------------------------------
(* The worker and its report.                                              *)

OwnTypeOK ==
  /\ sup \in [Commands -> {"idle", "joining", "expired", "grace", "reported", "exited", "gone"}]
  /\ report \in [Commands -> {"none", "ok", "timeout", "error", "unkillable"}]
  /\ work \in [Commands -> {"unborn", "config", "readiness", "catalog", "sync", "over"}]
  /\ code \in [Commands -> {NoCode, KilledCode, 0, 1, TIMEOUT_EXIT_CODE}]
  /\ hung \subseteq Commands /\ killed \subseteq Commands /\ synced \subseteq Commands

\* A worker touches the lock only while it synchronizes, and completes before
\* it returns without an exception.
WorkerOrder ==
  \A c \in Commands :
    /\ work[c] \notin {"sync", "over"} => pc[c] = "outside"
    /\ pc[c] = "outside" => open[c] = {} /\ c \notin shared
    /\ pc[c] \in {"leaving", "unlocked", "ended"} /\ raised[c] = "none" => c \in synced
    /\ work[c] = "over" => pc[c] \in {"outside", "ended"}
    /\ code[c] = 0 =>
         work[c] = "over" /\ c \in synced /\ pc[c] = "ended" /\ raised[c] = "none"

\* Nothing is reported of a worker that is not over, except that it is not, and
\* it has been killed by then.
ReportOrder ==
  \A c \in Commands :
    /\ sup[c] = "idle" <=> work[c] = "unborn"
    /\ report[c] \in {"ok", "timeout", "error"} => work[c] = "over"
    /\ report[c] = "ok" => code[c] = 0
    /\ sup[c] \in {"grace", "reported"} /\ work[c] # "over" => c \in killed
    /\ sup[c] = "exited" => work[c] = "over"

CommandInv == Inv /\ OwnTypeOK /\ WorkerOrder /\ ReportOrder

LEMMA CommandInitInv == CommandInit => CommandInv
<1> SUFFICES ASSUME CommandInit PROVE CommandInv
  OBVIOUS
<1>1. Inv  BY InitInv DEF CommandInit
<1> QED
  BY <1>1 DEF CommandInit, Init, CommandInv, OwnTypeOK, WorkerOrder, ReportOrder, Commands,
     NoCode, KilledCode, TIMEOUT_EXIT_CODE

LEMMA SyncKeeps ==
  ASSUME CommandInv, NEW c \in Commands, Sync(c), UNCHANGED supervisorVars
  PROVE  OwnTypeOK' /\ WorkerOrder' /\ ReportOrder'
<1> USE DEF CommandInv, Inv, TypeOK, supervisorVars, Sync, Step, Commands
<1>1. OwnTypeOK' /\ ReportOrder'  BY DEF OwnTypeOK, ReportOrder
<1>2. ASSUME Admit(c) PROVE WorkerOrder'
  <2>1. CASE OpenDirectory(c)  BY <2>1 DEF OpenDirectory, Refuse, WorkerOrder
  <2>2. CASE OpenLock(c)  BY <2>2 DEF OpenLock, Refuse, WorkerOrder
  <2>3. CASE TakeShared(c)  BY <2>3 DEF TakeShared, Refuse, WorkerOrder
  <2>4. CASE CheckMarker(c)  BY <2>4 DEF CheckMarker, Refuse, WorkerOrder
  <2> QED  BY <1>2, <2>1, <2>2, <2>3, <2>4 DEF Admit
<1>3. ASSUME NEW e \in {"none", "failed", "timeout"}, Body(c, e) PROVE WorkerOrder'
  BY <1>3 DEF Body, OwnTypeOK, WorkerOrder
<1>4. ASSUME Unlock(c) PROVE WorkerOrder'  BY <1>4 DEF Unlock, WorkerOrder
<1>5. ASSUME CloseAll(c) PROVE WorkerOrder'  BY <1>5 DEF CloseAll, WorkerOrder
<1> QED  BY <1>1, <1>2, <1>3, <1>4, <1>5 DEF Leave

LEMMA WorkerKeeps ==
  ASSUME CommandInv, NEW c \in Commands, RunsWorker(c)
  PROVE  OwnTypeOK' /\ WorkerOrder' /\ ReportOrder'
<1> USE DEF RunsWorker, supervisorVars
<1>1. CASE Sync(c)  BY <1>1, SyncKeeps
<1> USE DEF CommandInv, Inv, TypeOK, OwnTypeOK, WorkerOrder, ReportOrder, Commands, Alive,
        NoCode, KilledCode, TIMEOUT_EXIT_CODE, readerVars
<1>2. CASE LoadConfig(c) /\ UNCHANGED readerVars
  BY <1>2 DEF LoadConfig, Raises, ExitCode, Proceeds, Ends, Works
<1>3. CASE CheckReadiness(c) /\ UNCHANGED readerVars
  BY <1>3 DEF CheckReadiness, Raises, ExitCode, Proceeds, Ends, Works
<1>4. CASE OpenCatalog(c) /\ UNCHANGED readerVars
  BY <1>4 DEF OpenCatalog, Raises, ExitCode, Proceeds, Ends, Works
<1>5. CASE CloseCatalog(c) /\ UNCHANGED readerVars
  <2>1. /\ ExitCode(raised[c]) \in {0, 1, TIMEOUT_EXIT_CODE}
        /\ ExitCode(raised[c]) = 0 => raised[c] = "none"
    BY DEF ExitCode
  <2>2. \A e \in {"failed", "timeout"} : ExitCode(e) \in {1, TIMEOUT_EXIT_CODE}
    BY DEF ExitCode
  <2>3. PICK status \in {0, 1, TIMEOUT_EXIT_CODE} :
          Ends(c, "sync", status) /\ (status = 0 => raised[c] = "none")
    BY <1>5, <2>1, <2>2 DEF CloseCatalog, Raises
  <2> QED  BY <1>5, <2>3 DEF CloseCatalog, Ends, Works
<1>6. CASE Hang(c)  BY <1>6 DEF Hang
<1>7. CASE WorkerDies(c)  BY <1>7 DEF WorkerDies, Die
<1> QED  BY <1>1, <1>2, <1>3, <1>4, <1>5, <1>6, <1>7 DEF WorkerStep

LEMMA SupervisorKeeps ==
  ASSUME CommandInv, NEW c \in Commands, Supervises(c)
  PROVE  OwnTypeOK' /\ WorkerOrder' /\ ReportOrder'
<1> USE DEF Supervises, CommandInv, OwnTypeOK, WorkerOrder, ReportOrder, Commands, Alive,
        vars, readerVars, workerVars, Moves, Reports
<1>1. CASE AfterJoin(c)
  <2>1. Interpret(code[c]) \in {"ok", "timeout", "error"}
        /\ (Interpret(code[c]) = "ok" => code[c] = 0)
    BY DEF Interpret
  <2> QED  BY <1>1, <2>1 DEF AfterJoin
<1>2. CASE Kill(c)  BY <1>2 DEF Kill
<1>3. CASE AfterGrace(c)  BY <1>3 DEF AfterGrace
<1>4. CASE Exit(c)  BY <1>4 DEF Exit
<1>5. CASE SupervisorDies(c)  BY <1>5 DEF SupervisorDies
<1> QED  BY <1>1, <1>2, <1>3, <1>4, <1>5 DEF SupervisorStep

LEMMA CommandNextInv == CommandInv /\ [CommandNext]_commandVars => CommandInv'
<1> SUFFICES ASSUME CommandInv, [CommandNext]_commandVars PROVE CommandInv'
  OBVIOUS
<1>1. Inv'  BY NextCoordinates, NextInv DEF CommandInv
<1>2. ASSUME NEW c \in Commands, RunsWorker(c) \/ Supervises(c)
      PROVE  OwnTypeOK' /\ WorkerOrder' /\ ReportOrder'
  BY <1>2, WorkerKeeps, SupervisorKeeps
<1>3. ASSUME NEW c \in Commands, Start(c), UNCHANGED vars
      PROVE  OwnTypeOK' /\ WorkerOrder' /\ ReportOrder'
  BY <1>3 DEF Start, Moves, CommandInv, OwnTypeOK, WorkerOrder, ReportOrder, Commands, vars,
     readerVars
<1>4. ASSUME UNCHANGED <<readerVars, supervisorVars, workerVars>>
      PROVE  OwnTypeOK' /\ WorkerOrder' /\ ReportOrder'
  BY <1>4 DEF CommandInv, OwnTypeOK, WorkerOrder, ReportOrder, Commands, readerVars,
     supervisorVars, workerVars
<1>5. UNCHANGED commandVars => UNCHANGED <<readerVars, supervisorVars, workerVars>>
  BY DEF commandVars, vars
<1> QED  BY <1>1, <1>2, <1>3, <1>4, <1>5 DEF CommandInv, CommandNext

LEMMA CommandInvariance == CommandSpec => []CommandInv
BY CommandInitInv, CommandNextInv, PTL DEF CommandSpec

\* Type correctness of supervisors and workers.
THEOREM CommandTypeCorrect == CommandSpec => []CommandTypeOK
<1>1. CommandInv => CommandTypeOK  BY DEF CommandInv, Inv, OwnTypeOK, CommandTypeOK
<1> QED  BY CommandInvariance, <1>1, PTL

\* Success is reported of completed synchronizations only, with nothing left open.
THEOREM SuccessMeansSynced == CommandSpec => []SuccessIsSynced
<1>1. CommandInv => SuccessIsSynced
  BY DEF CommandInv, Inv, LockIsReturned, WorkerOrder, ReportOrder, SuccessIsSynced,
     Commands, Alive
<1> QED  BY CommandInvariance, <1>1, PTL

\* A report other than "unkillable" is about a worker that is gone, lock and all.
THEOREM QuietOnceReported == CommandSpec => []QuietAfterReport
<1>1. CommandInv => QuietAfterReport
  BY DEF CommandInv, Inv, LockIsReturned, WorkerOrder, ReportOrder, QuietAfterReport,
     Commands, Alive
<1> QED  BY CommandInvariance, <1>1, PTL

\* A worker that outlives the deadline has been killed before anybody waits for it
\* again, and a command that exits leaves none behind.
THEOREM OverdueKilled == CommandSpec => []OverdueIsKilled
<1>1. CommandInv => OverdueIsKilled
  BY DEF CommandInv, Inv, LockIsReturned, WorkerOrder, ReportOrder, OverdueIsKilled,
     Commands, Alive
<1> QED  BY CommandInvariance, <1>1, PTL

\* Commands that share a library, workers that hang and processes that are killed
\* included, keep the access rule of LibraryAccess.
THEOREM CommandsAreSound == CommandSpec => ImplementsAccess
<1>1. Inv /\ [CommandNext]_commandVars => [Access!Next]_Access!vars
  BY NextCoordinates, NextAccess
<1> QED  BY Coordinates, Invariance, InitAccess, <1>1, PTL DEF CommandSpec, ImplementsAccess
=============================================================================
