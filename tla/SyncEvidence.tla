---------------------------- MODULE SyncEvidence ----------------------------
(***************************************************************************)
(* SyncHistory once more with the times at which the content was really    *)
(* looked at: the code dates an observation when its pass is over, which   *)
(* can be long after the pages were read.                                  *)
(***************************************************************************)
EXTENDS SyncHistory

VARIABLES
  readAt,    \* when the current pass read its first page of books
  evidence   \* the window, its observations dated by readAt

evidenceVars == <<historyVars, readAt, evidence>>

ObservedAtRead ==
  IF Observed = None THEN None ELSE [Observed EXCEPT !.at = readAt]

EvidenceInit == HistoryInit /\ readAt = 0 /\ evidence = None

RecordReads ==
  /\ readAt' = IF pc = "books" /\ page = 0 THEN now ELSE readAt
  /\ evidence' = CASE pc = "settle" /\ pc' # "failed" ->
                        Settled!Extend(evidence, ObservedAtRead)
                   [] pc = "incomplete" -> None
                   [] OTHER -> evidence

EvidenceNext ==
  \/ HistorySyncStep /\ RecordReads
  \/ (HistoryEnvironment \/ HistoryTick \/ HistoryEnded) /\ UNCHANGED <<readAt, evidence>>

EvidenceSpec == EvidenceInit /\ [][EvidenceNext]_evidenceVars

\* "Before it succeeds, the content and the metadata are observed unchanged for
\* 30 seconds" (README.md:185): what the first page of books shows was looked at
\* over at least Stable ticks.  The code compares clock readings taken after the
\* passes (sync.py, observed_at), so a last pass that takes long after its first
\* request counts as observation time.
ObservedUnchangedForStable ==
  pc = "done" => evidence.last - evidence.first >= Stable
=============================================================================
