--------------------------- MODULE LibraryAccess ---------------------------
(***************************************************************************)
(* What LibraryReadCoordinator promises: a sync that has been let in finds *)
(* a whole library that stays as it is, and an activation, once it has     *)
(* begun, keeps every sync out until it is complete, whoever crashes.      *)
(***************************************************************************)
CONSTANT Readers

VARIABLES
  reading,     \* the syncs let in
  activating   \* the library is partly switched over

vars == <<reading, activating>>

Init == reading = {} /\ activating \in BOOLEAN

Enter(r) ==
  r \notin reading /\ ~activating /\ reading' = reading \union {r} /\ UNCHANGED activating

Leave(r) == r \in reading /\ reading' = reading \ {r} /\ UNCHANGED activating

Begin == reading = {} /\ ~activating /\ activating' = TRUE /\ UNCHANGED reading

Complete == activating /\ activating' = FALSE /\ UNCHANGED reading

Next == (\E r \in Readers : Enter(r) \/ Leave(r)) \/ Begin \/ Complete

Spec == Init /\ [][Next]_vars
=============================================================================
