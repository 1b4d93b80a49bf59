--------------------------- MODULE MCSyncEvidence ---------------------------
(***************************************************************************)
(* The smallest library that shows how observations are dated: one book.   *)
(***************************************************************************)
EXTENDS SyncEvidence

CONSTANTS a1, tags, blank, old

OneBook == {[id |-> 1, name |-> a1, series |-> 1, valid |-> TRUE]}
OneArtifact == [r \in 1..1 |-> {a1}]
OldTags == [r \in 1..1 |-> [a \in {a1} |-> [f \in {tags} |-> old]]]
OneLibrary ==
  {[books |-> OneBook, series |-> {1}, late |-> {},
    meta |-> [i \in {1} |-> [f \in {tags} |-> old]]]}
=============================================================================
