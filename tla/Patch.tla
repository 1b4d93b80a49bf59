-------------------------------- MODULE Patch --------------------------------
(***************************************************************************)
(* One batch of metadata updates, _patch_with_retries of sync.py: up to    *)
(* Attempts times the books not yet verified are cut into chunks, smaller  *)
(* each time, a pool of Workers threads sends them, and a second pool      *)
(* reads every book back.  Requests fail, time out and land late, a 204    *)
(* may cover books that were not written, and Komga rejects a whole chunk  *)
(* for one book it does not accept.  Snapshot folds all this into the      *)
(* outcome of PatchBatch.                                                  *)
(***************************************************************************)
EXTENDS Integers, FiniteSets

CONSTANTS
  Batch,        \* ids of the books to update
  Suspects,     \* those whose update Komga might not accept
  Attempts,     \* PATCH_RETRY_ATTEMPTS
  ChunkLimit,   \* BOOK_METADATA_PATCH_CHUNK_SIZE
  Shrink,       \* the chunk limit is divided by this after each attempt
  Workers,      \* KOMGA_MAX_WORKERS
  MaxTroubles   \* bound: how many requests go wrong

ASSUME PatchConstants ==
  /\ Batch \subseteq Nat /\ IsFiniteSet(Batch) /\ Batch # {}
  /\ Suspects \subseteq Batch
  /\ Attempts \in Nat \ {0}
  /\ ChunkLimit \in Nat \ {0}
  /\ Shrink \in Nat \ {0}
  /\ Workers \in Nat \ {0}
  /\ MaxTroubles \in Nat

VARIABLES
  attempt,     \* 1..Attempts
  phase,       \* where the call is; see Phases
  remaining,   \* books this attempt is about
  queue,       \* chunks submitted to the pool, not yet taken by a thread
  active,      \* chunks a thread has sent and got no answer for
  raised,      \* a future of this attempt holds a TimeoutError
  unchecked,   \* books whose verification has not been done yet
  unverified,  \* books found not to have their metadata
  expired,     \* the deadline has passed
  bad,         \* books whose update Komga does not accept, whenever it is sent
  good,        \* books that have the wanted metadata in Komga
  late,        \* chunks still in flight after their client gave up
  troubles     \* how many requests have gone wrong

callVars == <<attempt, phase, remaining, queue, active, raised, unchecked, unverified>>
komgaVars == <<bad, good, late, troubles>>
vars == <<callVars, expired, komgaVars>>

Phases ==
  {"begin", "send", "verify", "pause", "verified", "unverified", "timedOut"}

TypeOK ==
  /\ attempt \in 1..Attempts
  /\ phase \in Phases
  /\ remaining \subseteq Batch
  /\ queue \subseteq SUBSET Batch /\ active \subseteq SUBSET Batch
  /\ raised \in BOOLEAN
  /\ unchecked \subseteq Batch /\ unverified \subseteq Batch
  /\ expired \in BOOLEAN
  /\ bad \subseteq Suspects
  /\ good \subseteq Batch
  /\ late \subseteq SUBSET Batch
  /\ troubles \in 0..MaxTroubles

\* The batch is what a snapshot found out of date; by now some books of it may
\* have been put right by somebody else.
Init ==
  /\ attempt = 1 /\ phase = "begin" /\ remaining = Batch
  /\ queue = {} /\ active = {} /\ raised = FALSE
  /\ unchecked = {} /\ unverified = {}
  /\ expired = FALSE
  /\ bad \in SUBSET Suspects
  /\ good \in SUBSET (Batch \ bad)
  /\ late = {} /\ troubles = 0

Running == phase \notin {"verified", "unverified", "timedOut"}

-----------------------------------------------------------------------------
\* Mutation of ChunkSize: the chunks only shrink by the factor.
ChunkSizeWithoutLast(n) ==
  LET size == ChunkLimit \div Shrink ^ (n - 1) IN IF size > 1 THEN size ELSE 1

\* _chunk_size_for_attempt: a single book in the last attempt.
ChunkSize(n) ==
  LET size == ChunkLimit \div Shrink ^ (n - 1) IN
  IF n = Attempts THEN 1 ELSE IF size > 1 THEN size ELSE 1

\* The remaining ids, sorted, cut into slices of the given size.
Slice(ids, size, k) ==
  {i \in ids : Cardinality({j \in ids : j < i}) \div size = k}
Chunks(ids, size) ==
  {Slice(ids, size, k) : k \in 0..Cardinality(ids)} \ {{}}

\* Mutation of Begin: every attempt sends the whole batch again.
BeginAnew ==
  /\ phase = "begin" /\ ~expired
  /\ phase' = "send"
  /\ queue' = Chunks(Batch, ChunkSize(attempt))
  /\ UNCHANGED <<attempt, remaining, active, raised, unchecked, unverified, expired, komgaVars>>

Begin ==
  /\ phase = "begin" /\ ~expired
  /\ phase' = "send"
  /\ queue' = Chunks(remaining, ChunkSize(attempt))
  /\ UNCHANGED <<attempt, remaining, active, raised, unchecked, unverified, expired, komgaVars>>

\* A free thread takes the chunk submitted first ...
IsNext(c) == \A d \in queue \ {c} : \A i \in c, j \in d : i < j

Take(c) ==
  /\ phase = "send" /\ IsNext(c)
  /\ Cardinality(active) < Workers
  /\ queue' = queue \ {c}

\* ... and sends it if there is time left,
Send(c) ==
  /\ Take(c) /\ ~expired
  /\ active' = active \union {c}
  /\ UNCHANGED <<attempt, phase, remaining, raised, unchecked, unverified, expired, komgaVars>>

\* or its future raises TimeoutError.  The others still run their turn.
SendTooLate(c) ==
  /\ Take(c) /\ expired
  /\ raised' = TRUE
  /\ UNCHANGED <<attempt, phase, remaining, active, unchecked, unverified, expired, komgaVars>>

\* The thread is done with a chunk, whatever became of the request.
Finish(c) ==
  /\ phase = "send"
  /\ active' = active \ {c}
  /\ UNCHANGED <<attempt, phase, remaining, queue, raised, unchecked, unverified, expired, bad>>

Trouble ==
  /\ troubles < MaxTroubles
  /\ troubles' = troubles + 1

\* Komga writes a chunk without a book it does not accept.
Written(c) == IF c \cap bad = {} THEN c ELSE {}

\* The request is carried out, or rejected as a whole; an error is logged.
Answered(c) ==
  /\ Finish(c)
  /\ good' = good \union Written(c)
  /\ UNCHANGED <<late, troubles>>

\* The request is accepted, but not every book is written.
PartlyWritten(c) ==
  /\ Finish(c) /\ Trouble /\ c \cap bad = {}
  /\ \E some \in SUBSET c \ {c} : good' = good \union some
  /\ UNCHANGED late

\* The request or its answer is lost: RequestException.
Lost(c) ==
  /\ Finish(c) /\ Trouble
  /\ UNCHANGED <<good, late>>

\* The client times out first; the request may yet be carried out.
TimesOut(c) ==
  /\ Finish(c) /\ Trouble
  /\ late' = late \union {c}
  /\ UNCHANGED good

\* Mutation of AllSent: the books an earlier attempt found unverified are kept.
AllSentKeepingUnverified ==
  /\ phase = "send" /\ queue = {} /\ active = {}
  /\ IF raised
       THEN phase' = "timedOut" /\ UNCHANGED <<unchecked, unverified>>
       ELSE phase' = "verify" /\ unchecked' = remaining /\ UNCHANGED unverified
  /\ UNCHANGED <<attempt, remaining, queue, active, raised, expired, komgaVars>>

\* The with block waits for every thread before anything else happens.
AllSent ==
  /\ phase = "send" /\ queue = {} /\ active = {}
  /\ IF raised
       THEN phase' = "timedOut" /\ UNCHANGED <<unchecked, unverified>>
       ELSE phase' = "verify" /\ unchecked' = remaining /\ unverified' = {}
  /\ UNCHANGED <<attempt, remaining, queue, active, raised, expired, komgaVars>>

-----------------------------------------------------------------------------
(* _find_unverified_books.                                                 *)

Check(i) ==
  /\ phase = "verify"
  /\ unchecked' = unchecked \ {i}
  /\ UNCHANGED <<attempt, phase, remaining, queue, active, expired, bad, good, late>>

\* Mutation of ReadBack: every book Komga answers for counts as verified.
ReadBackAny(i) ==
  /\ Check(i) /\ ~expired
  /\ UNCHANGED <<raised, unverified, troubles>>

\* The book is read and compared with what was sent.
ReadBack(i) ==
  /\ Check(i) /\ ~expired
  /\ unverified' = IF i \in good THEN unverified ELSE unverified \union {i}
  /\ UNCHANGED <<raised, troubles>>

\* A RequestException of the GET leaves the book unverified.
ReadBackFails(i) ==
  /\ Check(i) /\ ~expired /\ Trouble
  /\ unverified' = unverified \union {i}
  /\ UNCHANGED raised

ReadBackTooLate(i) ==
  /\ Check(i) /\ expired
  /\ raised' = TRUE
  /\ UNCHANGED <<unverified, troubles>>

\* Mutation of LastAttempt: one attempt too many.
PastLastAttempt == attempt > Attempts

LastAttempt == attempt = Attempts

AllChecked ==
  /\ phase = "verify" /\ unchecked = {}
  /\ \/ /\ raised
        /\ phase' = "timedOut" /\ UNCHANGED remaining
     \/ /\ ~raised /\ unverified = {}
        /\ phase' = "verified" /\ remaining' = {}
     \/ /\ ~raised /\ unverified # {}
        /\ remaining' = unverified
        /\ phase' = IF LastAttempt THEN "unverified"
                    ELSE IF expired THEN "timedOut" ELSE "pause"
  /\ UNCHANGED <<attempt, queue, active, raised, unchecked, unverified, expired, komgaVars>>

\* Mutation of Pause: the attempts are not counted.
PauseUncounted ==
  /\ phase = "pause"
  /\ phase' = "begin"
  /\ UNCHANGED <<attempt, remaining, queue, active, raised, unchecked, unverified, expired, komgaVars>>

Pause ==
  /\ phase = "pause"
  /\ phase' = "begin" /\ attempt' = attempt + 1
  /\ UNCHANGED <<remaining, queue, active, raised, unchecked, unverified, expired, komgaVars>>

\* The check at the head of an attempt.
BeginTooLate ==
  /\ phase = "begin" /\ expired
  /\ phase' = "timedOut"
  /\ UNCHANGED <<attempt, remaining, queue, active, raised, unchecked, unverified, expired, komgaVars>>

CallStep ==
  \/ Begin \/ BeginTooLate \/ AllSent \/ AllChecked \/ Pause
  \/ \E c \in queue : Send(c) \/ SendTooLate(c)
  \/ \E c \in active : Answered(c) \/ PartlyWritten(c) \/ Lost(c) \/ TimesOut(c)
  \/ \E i \in unchecked : ReadBack(i) \/ ReadBackFails(i) \/ ReadBackTooLate(i)

-----------------------------------------------------------------------------
(* What happens meanwhile.                                                 *)

Expire ==
  /\ Running /\ ~expired
  /\ expired' = TRUE
  /\ UNCHANGED <<callVars, komgaVars>>

LandLate(c) ==
  /\ Running
  /\ late' = late \ {c}
  /\ good' = good \union Written(c)
  /\ UNCHANGED <<callVars, expired, bad, troubles>>

\* Komga's analysis or an operator undoes an update.
Undo(i) ==
  /\ Running /\ Trouble
  /\ good' = good \ {i}
  /\ UNCHANGED <<callVars, expired, bad, late>>

Outside ==
  \/ Expire
  \/ \E c \in late : LandLate(c)
  \/ \E i \in good : Undo(i)

Ended == ~Running /\ UNCHANGED vars

Next == CallStep \/ Outside \/ Ended

Spec == Init /\ [][Next]_vars /\ WF_vars(CallStep)
=============================================================================
