-------------------------- MODULE PageFetch_proofs --------------------------
(***************************************************************************)
(* The outcome of a page request, for every number of attempts, pause,     *)
(* request time-out and deadline.                                          *)
(***************************************************************************)
EXTENDS PageFetch, TLAPS

\* Every attempt but the current one has failed, none was refused while the call
\* goes on, and what is under way is over by its limit, which is no later than the
\* deadline.
Inv ==
  /\ TypeOK
  /\ pc # "done" => ~refused
  /\ pc \in {"ask", "waiting", "trickling"} => failures = attempt - 1 /\ outcome = "none"
  /\ pc = "pausing" => failures = attempt /\ attempt < Attempts /\ outcome = "none"
  /\ pc = "ask" => now <= Deadline
  /\ pc \in {"waiting", "pausing"} => now <= limit /\ limit <= Deadline
  /\ OutcomeIsEarned

LEMMA Constants ==
  /\ Attempts \in Nat /\ 1 <= Attempts /\ RequestTimeout \in Nat /\ Delay \in Nat
  /\ Deadline \in Nat /\ 1 <= Deadline
BY PageFetchConstants

LEMMA BoundedBounds ==
  ASSUME now \in Nat, NEW wait \in Nat, now <= Deadline
  PROVE  Bounded(wait) \in Nat /\ now <= Bounded(wait) /\ Bounded(wait) <= Deadline
BY Constants DEF Bounded

LEMMA InitInv == Init => Inv
<1> SUFFICES ASSUME Init PROVE Inv
  OBVIOUS
<1>1. /\ attempt \in 1..Attempts /\ failures \in 0..Attempts /\ failures = attempt - 1
      /\ now \in Nat /\ limit \in Nat /\ now <= Deadline
  BY Constants DEF Init
<1> QED  BY <1>1 DEF Init, Inv, TypeOK, OutcomeIsEarned

LEMMA Numbers ==
  ASSUME TypeOK
  PROVE  /\ attempt \in Nat /\ 1 <= attempt /\ attempt <= Attempts
         /\ failures \in Nat /\ failures <= Attempts
         /\ now \in Nat /\ limit \in Nat
<1>1. /\ attempt \in 1..Attempts /\ failures \in 0..Attempts
      /\ now \in Nat /\ limit \in Nat
  BY DEF TypeOK
<1> QED  BY <1>1, Constants

LEMMA FailInv == ASSUME Inv, Fail PROVE Inv'
<1>1. /\ pc \in {"waiting", "trickling"} /\ failures = attempt - 1
      /\ failures' = failures + 1 /\ TypeOK /\ ~refused /\ refused' = refused
  BY DEF Inv, Fail
<1>2. failures' = attempt /\ failures' \in 0..Attempts
  BY <1>1, Numbers, Constants
<1>3. CASE LastAttempt /\ Return("RequestException")
  <2>1. failures' = Attempts
    BY <1>1, <1>2, <1>3, Numbers, Constants DEF LastAttempt
  <2> QED  BY <1>1, <1>2, <1>3, <2>1 DEF Return, Inv, TypeOK, OutcomeIsEarned
<1>4. CASE now >= Deadline /\ ~LastAttempt /\ Return("TimeoutError")
  <2>1. failures' < Attempts
    BY <1>1, <1>2, <1>4, Numbers, Constants DEF LastAttempt
  <2> QED  BY <1>1, <1>2, <1>4, <2>1 DEF Return, Inv, TypeOK, OutcomeIsEarned
<1>5. CASE /\ ~LastAttempt /\ now < Deadline
           /\ pc' = "pausing" /\ limit' = Bounded(Delay)
           /\ UNCHANGED <<attempt, now, outcome>>
  <2>1. attempt < Attempts /\ now <= Deadline
    BY <1>1, <1>5, Numbers, Constants DEF LastAttempt
  <2>2. limit' \in Nat /\ now <= limit' /\ limit' <= Deadline
    BY <1>1, <1>5, <2>1, Numbers, Constants, BoundedBounds
  <2>3. outcome = "none"  BY <1>1 DEF Inv
  <2> QED  BY <1>1, <1>2, <1>5, <2>1, <2>2, <2>3 DEF Inv, TypeOK, OutcomeIsEarned
<1> QED  BY <1>3, <1>4, <1>5 DEF Fail

LEMMA RetryInv == ASSUME Inv, Retry PROVE Inv'
<1>1. /\ TypeOK /\ pc = "pausing" /\ failures = attempt /\ attempt < Attempts
      /\ outcome = "none" /\ now <= limit /\ limit <= Deadline
      /\ pc' = "ask" /\ attempt' = attempt + 1 /\ UNCHANGED <<now, limit, outcome, failures, refused>>
  BY DEF Inv, Retry
<1>2. attempt' \in 1..Attempts /\ failures' = attempt' - 1 /\ now' <= Deadline
  BY <1>1, Numbers, Constants
<1> QED  BY <1>1, <1>2 DEF Inv, TypeOK, OutcomeIsEarned

LEMMA TickInv == ASSUME Inv, Tick PROVE Inv'
<1>1. /\ TypeOK /\ now' = now + 1 /\ UNCHANGED <<pc, attempt, limit, outcome, failures, refused>>
      /\ pc \in {"waiting", "trickling", "pausing"} /\ outcome = "none"
  BY DEF Inv, Tick
<1>2. now' \in Nat /\ (pc \in {"waiting", "pausing"} => now' <= limit')
  <2>1. pc \in {"waiting", "pausing"} => now < limit  BY DEF Tick
  <2> QED  BY <1>1, <2>1, Numbers
<1> QED  BY <1>1, <1>2 DEF Inv, TypeOK, OutcomeIsEarned

LEMMA NextInv == Inv /\ [Next]_vars => Inv'
<1> SUFFICES ASSUME Inv, [Next]_vars PROVE Inv'
  OBVIOUS
<1>1. CASE Send
  <2>1. now \in Nat /\ now <= Deadline
    <3>1. TypeOK /\ now < Deadline  BY <1>1 DEF Inv, Send
    <3> QED  BY <3>1, Numbers, Constants
  <2>2. limit' \in Nat /\ now <= limit' /\ limit' <= Deadline
    BY <1>1, <2>1, Constants, BoundedBounds DEF Send
  <2> QED  BY <1>1, <2>2 DEF Send, Inv, TypeOK, OutcomeIsEarned
<1>2. CASE SendTooLate
  <2>1. failures < Attempts  BY <1>2, Numbers, Constants DEF SendTooLate, Inv
  <2> QED  BY <1>2, <2>1 DEF SendTooLate, Return, Inv, TypeOK, OutcomeIsEarned
<1>3. CASE Answer  BY <1>3 DEF Answer, Return, Inv, TypeOK, OutcomeIsEarned
<1>4. CASE ClientError
  <2>1. failures < attempt  BY <1>4, Numbers DEF ClientError, Inv
  <2> QED  BY <1>4, <2>1 DEF ClientError, Return, Inv, TypeOK, OutcomeIsEarned
<1>5. CASE UNCHANGED vars  BY <1>5 DEF vars, Inv, TypeOK, OutcomeIsEarned
<1> QED  BY <1>1, <1>2, <1>3, <1>4, <1>5, FailInv, RetryInv, TickInv DEF Next, Done

LEMMA Invariance == Spec => []Inv
BY InitInv, NextInv, PTL DEF Spec

\* Type correctness; in particular no more requests than attempts.
THEOREM PageFetchTypeCorrect == Spec => []TypeOK
<1>1. Inv => TypeOK  BY DEF Inv
<1> QED  BY Invariance, <1>1, PTL

\* What the caller polls again on is a refusal, not asked for twice, or as many
\* failures as there are attempts; what ends its run is the deadline.
THEOREM OutcomesAreEarned == Spec => []OutcomeIsEarned
<1>1. Inv => OutcomeIsEarned  BY DEF Inv
<1> QED  BY Invariance, <1>1, PTL

\* Unless an answer trickles in, the call is over when its caller's time is.
THEOREM FetchEndsByDeadline == Spec => []OverByDeadline
<1>1. Inv => OverByDeadline
  <2> SUFFICES ASSUME Inv, now > Deadline PROVE pc \in {"done", "trickling"}
    BY DEF OverByDeadline
  <2>1. ~(now <= Deadline)  BY Constants, Numbers DEF Inv
  <2>2. ~(now <= limit /\ limit <= Deadline)  BY <2>1, Constants, Numbers DEF Inv
  <2> QED  BY <2>1, <2>2 DEF Inv, TypeOK
<1> QED  BY Invariance, <1>1, PTL
=============================================================================
