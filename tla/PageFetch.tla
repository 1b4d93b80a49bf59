----------------------------- MODULE PageFetch -----------------------------
(***************************************************************************)
(* One call of KomgaClient.get_book_page or get_series_page: up to         *)
(* Attempts requests with pauses in between, against the deadline the      *)
(* caller's remaining time amounts to.                                     *)
(***************************************************************************)
EXTENDS Integers

CONSTANTS
  Attempts,        \* PAGE_FETCH_RETRY_ATTEMPTS
  RequestTimeout,  \* REQUEST_TIMEOUT_SECONDS
  Delay,           \* PAGE_FETCH_RETRY_DELAY_SECONDS
  Deadline,        \* the call begins at 0
  Horizon          \* bound on the clock, for TLC

ASSUME PageFetchConstants ==
  /\ Attempts \in Nat \ {0} /\ RequestTimeout \in Nat \ {0} /\ Delay \in Nat \ {0}
  /\ Deadline \in Nat \ {0} /\ Horizon \in Nat

VARIABLES
  pc,       \* "ask", "waiting" for an answer, "pausing", or "done"; or "trickling":
            \* the answer comes in byte by byte, so that no read times out
  attempt,
  now,
  limit,    \* when the request or the pause under way is over
  outcome,  \* what the call returned or raised
  failures, \* how often this call has met a transient failure
  refused   \* not kept by the code: Komga answered with a client error

vars == <<pc, attempt, now, limit, outcome, failures, refused>>

Init ==
  /\ pc = "ask" /\ attempt = 1 /\ now = 0 /\ limit = 0
  /\ outcome = "none" /\ failures = 0 /\ refused = FALSE

Return(result) ==
  /\ pc' = "done" /\ outcome' = result
  /\ UNCHANGED <<attempt, now, limit>>

\* Mutation of Bounded: the limit alone.
BoundedByLimit(wait) == now + wait

\* _bounded_timeout, as the moment when it is over.
Bounded(wait) == IF wait <= Deadline - now THEN now + wait ELSE Deadline

Send ==
  /\ pc = "ask" /\ now < Deadline
  /\ pc' \in {"waiting", "trickling"} /\ limit' = Bounded(RequestTimeout)
  /\ UNCHANGED <<attempt, now, outcome, failures, refused>>

SendTooLate ==
  pc = "ask" /\ now >= Deadline /\ Return("TimeoutError") /\ UNCHANGED <<failures, refused>>

\* A page, a page beyond the bound, or an answer that is no page.
Answer ==
  /\ pc \in {"waiting", "trickling"}
  /\ \E result \in {"page", "RuntimeError", "KeyError"} : Return(result)
  /\ UNCHANGED <<failures, refused>>

\* A status below 500 is raised as it comes, whatever the attempt.
ClientError ==
  /\ pc \in {"waiting", "trickling"} /\ Return("RequestException")
  /\ refused' = TRUE /\ UNCHANGED failures

\* Mutations of LastAttempt: an attempt too few, an attempt too many.
LastAttemptEarly == attempt >= Attempts - 1
LastAttemptLate == attempt > Attempts

LastAttempt == attempt >= Attempts

\* A server error, a broken connection, a time-out of the request, no JSON.
Fail ==
  /\ pc \in {"waiting", "trickling"} /\ failures' = failures + 1 /\ UNCHANGED refused
  /\ \/ LastAttempt /\ Return("RequestException")
     \/ now >= Deadline /\ ~LastAttempt /\ Return("TimeoutError")
     \/ /\ ~LastAttempt /\ now < Deadline
        /\ pc' = "pausing" /\ limit' = Bounded(Delay)
        /\ UNCHANGED <<attempt, now, outcome>>

Retry ==
  /\ pc = "pausing" /\ now >= limit
  /\ pc' = "ask" /\ attempt' = attempt + 1
  /\ UNCHANGED <<now, limit, outcome, failures, refused>>

Tick ==
  /\ \/ pc \in {"waiting", "pausing"} /\ now < limit
     \/ pc = "trickling"
  /\ now < Horizon /\ now' = now + 1
  /\ UNCHANGED <<pc, attempt, limit, outcome, failures, refused>>

Done == pc = "done" /\ UNCHANGED vars

Next == Send \/ SendTooLate \/ Answer \/ ClientError \/ Fail \/ Retry \/ Tick \/ Done

Spec == Init /\ [][Next]_vars

-----------------------------------------------------------------------------
(* Properties.                                                             *)

TypeOK ==
  /\ pc \in {"ask", "waiting", "trickling", "pausing", "done"}
  /\ attempt \in 1..Attempts /\ now \in Nat /\ limit \in Nat
  /\ outcome \in {"none", "page", "RuntimeError", "KeyError", "RequestException", "TimeoutError"}
  /\ failures \in 0..Attempts /\ refused \in BOOLEAN

\* The caller relies on the kind of exception: it polls again on a
\* RequestException (sync.py:653, 685), while a TimeoutError ends its run.  A
\* RequestException means that Komga refused the request, which no retry would
\* change and none is made, or that every attempt has failed; a TimeoutError means
\* that the deadline came, with attempts still to make and no refusal.
OutcomeIsEarned ==
  /\ outcome = "RequestException" => refused \/ failures = Attempts
  /\ refused => outcome = "RequestException" /\ failures < attempt
  /\ outcome = "TimeoutError" => now >= Deadline /\ failures < Attempts

\* Attempts and pauses together stay within the caller's deadline; only an
\* answer that trickles in goes on beyond it, and not a single pause does.
OverByDeadline == now > Deadline => pc \in {"done", "trickling"}
=============================================================================
