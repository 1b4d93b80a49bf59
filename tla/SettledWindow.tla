---------------------------- MODULE SettledWindow ----------------------------
(***************************************************************************)
(* What settling promises, without saying how it is kept track of.  Every  *)
(* observation of the library is either unclear or a clean one: the exact  *)
(* snapshot of a revision, nothing left to write, at a time.  The window   *)
(* is the longest run of equal clean observations that ends with the last  *)
(* observation.  Success may only be declared over a window that spans     *)
(* Stable ticks.                                                           *)
(***************************************************************************)
EXTENDS Integers

CONSTANTS
  Stable,      \* ticks a window must span
  Unclear      \* an observation that was not exact or had updates to write

VARIABLES
  window,      \* Unclear or [shows, first, last]
  outcome      \* "running", "success" or "failure"

\* The window after one more observation.
Continues(w, o) == w # Unclear /\ w.shows = o.shows

Extend(w, o) ==
  IF o = Unclear THEN Unclear
  ELSE [shows |-> o.shows,
        first |-> IF Continues(w, o) THEN w.first ELSE o.at,
        last  |-> o.at]

Init == window = Unclear /\ outcome = "running"

ObserveUnclear ==
  /\ outcome = "running"
  /\ window' = Unclear
  /\ UNCHANGED outcome

\* The clean observation a window ends with.
Latest(w) == [shows |-> w.shows, at |-> w.last]

ObserveClean ==
  /\ outcome = "running"
  /\ window' # Unclear
  /\ window' = Extend(window, Latest(window'))
  /\ UNCHANGED outcome

Succeed ==
  /\ outcome = "running"
  /\ window # Unclear /\ window.last - window.first >= Stable
  /\ outcome' = "success"
  /\ UNCHANGED window

Fail ==
  /\ outcome = "running"
  /\ outcome' = "failure"
  /\ UNCHANGED window

Next == ObserveUnclear \/ ObserveClean \/ Succeed \/ Fail

Spec == Init /\ [][Next]_<<window, outcome>>
=============================================================================
