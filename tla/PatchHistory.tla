---------------------------- MODULE PatchHistory ----------------------------
(***************************************************************************)
(* Patch with history variables: which books were read back with the       *)
(* wanted metadata, which of those Komga has since changed again, and      *)
(* whether anything went wrong during the current attempt.                 *)
(***************************************************************************)
EXTENDS Patch

VARIABLES
  confirmed,  \* books read back with the wanted metadata
  undone,     \* confirmed books whose metadata was changed again
  troubled    \* a request went wrong, or a book was changed, in this attempt

historyVars == <<vars, confirmed, undone, troubled>>

HistoryInit == Init /\ confirmed = {} /\ undone = {} /\ troubled = FALSE

Record ==
  /\ confirmed' = confirmed \union {i \in unchecked : ReadBack(i) /\ i \in good}
  /\ undone' = undone \union (confirmed \intersect (good \ good'))
  /\ troubled' = (phase # "begin" /\ (troubled \/ troubles' # troubles))

HistoryCallStep == CallStep /\ Record
HistoryOutside == Outside /\ Record
HistoryEnded == Ended /\ UNCHANGED <<confirmed, undone, troubled>>

HistoryNext == HistoryCallStep \/ HistoryOutside \/ HistoryEnded

HistorySpec ==
  HistoryInit /\ [][HistoryNext]_historyVars /\ WF_historyVars(HistoryCallStep)

CallOutcome ==
  CASE phase = "verified" -> "through"
    [] phase \in {"unverified", "timedOut"} -> "given up"
    [] OTHER -> "running"

Update == INSTANCE BatchUpdate WITH seen <- confirmed, outcome <- CallOutcome

-----------------------------------------------------------------------------
(* Properties.                                                             *)

\* The call is a BatchUpdate, which is what Snapshot takes a batch for: it is
\* through only when it has read back every book, and gives up only when there
\* is one it has not, over whatever detours its chunks and attempts took: no
\* outcome of an earlier attempt is carried into a later one.
ImplementsBatchUpdate == Update!Spec

\* When the call reports success every book has its metadata in Komga, unless
\* Komga changed it again after it was read back: no accepted, lost, timed out
\* or half applied PATCH is taken for a written one (_find_unverified_books).
VerifiedMeansWritten == phase = "verified" => Batch \ good \subseteq undone

\* When the call gives up with books left over, these are the books Komga does
\* not accept, provided the last attempt itself went undisturbed: chunk-mates
\* of a bad book never stay behind with it (_chunk_size_for_attempt).
OnlyBadAreLeft == phase = "unverified" /\ ~troubled => remaining \subseteq bad

\* A book that was read back is never sent again: a retry re-patches only what
\* is still unverified, so it cannot overwrite a later change to the others.
ConfirmedIsNotResent ==
  [][\A c \in active' \ active : c \cap confirmed = {}]_historyVars

\* What the comment at _chunk_size_for_attempt says without that proviso:
\* "guarantees only genuinely-bad books are still isolated (and identifiable)
\* once retries run out" (sync.py:433-436).  A good book is left as well when in
\* each attempt its PATCH was lost or covered it without writing it, or its
\* verification GET failed.
OnlyGenuinelyBadAreLeft == phase = "unverified" => remaining \subseteq bad

\* Every call comes to an end: three attempts, no thread waits for another.
CallEnds == <>~Running

\* How far the call is from its end: the phases left in this attempt, and the
\* chunks or books left in this phase (a chunk is first queued, then active).
PhasesLeft ==
  CASE phase = "begin" -> 4
    [] phase = "send" -> 3
    [] phase = "verify" -> 2
    [] phase = "pause" -> 1
    [] OTHER -> 0

WorkLeft ==
  IF phase = "send" THEN 2 * Cardinality(queue) + Cardinality(active)
                    ELSE Cardinality(unchecked)

\* Whatever becomes of the requests, and whatever is done to the books
\* meanwhile, a step of the call brings it closer to its end: work is never
\* put back into a pool's queue, a phase never restarts, and only a new
\* attempt, of which there are Attempts, starts over (_patch_with_retries).
CallAdvances ==
  [][callVars' # callVars =>
       \/ attempt' > attempt
       \/ attempt' = attempt /\ PhasesLeft' < PhasesLeft
       \/ attempt' = attempt /\ phase' = phase /\ WorkLeft' < WorkLeft]_vars
=============================================================================
