---------------------------- MODULE BatchUpdate ----------------------------
(***************************************************************************)
(* What the PATCH phase of a pass may rely on: when a batch is through,    *)
(* every book of it has been seen with the metadata wanted; when it is     *)
(* given up, some book has not.  What a book has may change all the time,  *)
(* by the requests of the call or otherwise.                               *)
(***************************************************************************)
CONSTANTS Batch, Suspects

VARIABLES
  bad,     \* books of which Komga does not accept what is wanted
  good,    \* books that have it
  seen,    \* books that have been seen to have it
  outcome  \* "running", "through" or "given up"

vars == <<bad, good, seen, outcome>>

Init ==
  /\ bad \in SUBSET Suspects
  /\ good \in SUBSET (Batch \ bad)
  /\ seen = {} /\ outcome = "running"

Change == good' \in SUBSET (Batch \ bad) /\ UNCHANGED <<bad, seen, outcome>>

See(i) == i \in good /\ seen' = seen \union {i} /\ UNCHANGED <<bad, good, outcome>>

Finish == seen = Batch /\ outcome' = "through" /\ UNCHANGED <<bad, good, seen>>

GiveUp == seen # Batch /\ outcome' = "given up" /\ UNCHANGED <<bad, good, seen>>

Next == outcome = "running" /\ (Change \/ (\E i \in Batch : See(i)) \/ Finish \/ GiveUp)

Spec == Init /\ [][Next]_vars
=============================================================================
