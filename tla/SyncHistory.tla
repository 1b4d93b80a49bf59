---------------------------- MODULE SyncHistory ----------------------------
(***************************************************************************)
(* Sync with two history variables: the window of observations made so far *)
(* (SettledWindow) and whether the library was touched from outside since  *)
(* the current pass began.  Neither restricts what Sync does.              *)
(***************************************************************************)
EXTENDS Sync

\* What a clean observation shows.
Contents == [revision : Nat, snapshot : Fingerprints]

ASSUME HistoryConstants ==
  /\ None \notin [shows : Contents, at : Nat]
  /\ None \notin [shows : Contents, first : Nat, last : Nat]

VARIABLES
  window,   \* the current run of equal clean observations
  touched   \* the library changed from outside since the last StartPass

historyVars == <<vars, window, touched>>

Outcome ==
  CASE pc = "done" -> "success"
    [] pc = "failed" -> "failure"
    [] OTHER -> "running"

Settled == INSTANCE SettledWindow WITH Unclear <- None, outcome <- Outcome

\* What the pass that just came through observed.
Observed ==
  IF updateCount = 0
    THEN [shows |-> [revision |-> rev, snapshot |-> Fingerprint], at |-> now]
    ELSE None

\* A pass ends with an observation when it reaches its settle step, with an
\* unclear one when an exception made it incomplete.
Record ==
  window' = CASE pc = "settle" /\ pc' # "failed" -> Settled!Extend(window, Observed)
              [] pc = "incomplete" -> None
              [] OTHER -> window

HistoryInit == Init /\ window = None /\ touched = FALSE

HistorySyncStep ==
  /\ SyncStep
  /\ Record
  /\ touched' = (touched /\ ~(pc = "poll" /\ pc' = "books"))

HistoryEnvironment ==
  /\ Environment
  /\ touched' = (touched \/ libraryVars' # libraryVars)
  /\ UNCHANGED window

HistoryTick == Tick /\ UNCHANGED <<window, touched>>

HistoryEnded == Ended /\ UNCHANGED <<window, touched>>

HistoryNext ==
  HistorySyncStep \/ HistoryEnvironment \/ HistoryTick \/ HistoryEnded

HistorySpec ==
  /\ HistoryInit /\ [][HistoryNext]_historyVars
  /\ WF_historyVars(HistorySyncStep) /\ WF_historyVars(HistoryTick)

-----------------------------------------------------------------------------
(* Properties.                                                             *)

\* Success is declared only after an unbroken run of passes that all saw the
\* same exact snapshot of the same revision with nothing to write, and whose
\* first and last observations lie at least Stable ticks apart.  The code has
\* no such record: it keeps previous_fingerprint, previous_catalog_revision and
\* stable_since and resets them in five places (sync.py, _sync_komga_library).
ImplementsSettledWindow == Settled!Spec

\* A pass that nobody disturbs leaves the library as the pinned revision wants
\* it: whatever page boundaries and update batches it went through, the real
\* library, not only the copy of it in the store, holds exactly the published
\* artifacts and every book has its metadata.
QuietPassIsExact ==
  pc \in {"settle", "confirm", "done"} /\ ~touched =>
    SameSet(rev) /\ SameMetadata(rev)

\* Exit status 0 means the library matches the catalog as it then is: if nobody
\* touched Komga during the last pass it holds the set and the metadata of the
\* head, not of a revision that was replaced while the pass was under way.
SuccessIsExact ==
  pc = "done" /\ ~touched => SameSet(head) /\ SameMetadata(head)

\* Every run ends, in success or failure: no sequence of resets, retries or
\* sleeps outlives the deadline, as long as every request returns.
Termination == <>(pc \in {"done", "failed"})

\* When the interference stops while the library holds exactly what the head
\* publishes, a run that was not aborted succeeds before its deadline: neither
\* the updates it writes itself nor what happened earlier can keep it from
\* settling.  Metadata may still be wrong then; the run repairs it.
SettlesWhenQuiet ==
  /\ [](now > QuietBy => head # 0 /\ SameSet(head))
  /\ [](pc = "failed" => now >= Timeout)
  => <>(pc = "done")
=============================================================================
