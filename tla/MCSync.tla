------------------------------ MODULE MCSync ------------------------------
(***************************************************************************)
(* Small libraries and catalogs for TLC.                                   *)
(*                                                                         *)
(* Books 1 and 2 are what is published first.  The others are what can go   *)
(* wrong: 3 is a second copy of a2, 4 of a1 in the series of book 2, 5 of   *)
(* a1 in a series that is no One-Shot, 6 is published from revision 2 on    *)
(* or never, 7 is no valid item, 8 is book 2 imported anew.                *)
(***************************************************************************)
EXTENDS SyncHistory

CONSTANTS a1, a2, a3, title, tags, blank, old, new

Book(i, a, s, v) == [id |-> i, name |-> a, series |-> s, valid |-> v]

B1 == Book(1, a1, 1, TRUE)
B2 == Book(2, a2, 2, TRUE)
B3 == Book(3, a2, 3, TRUE)
B4 == Book(4, a1, 2, TRUE)
B5 == Book(5, a1, 4, TRUE)
B6 == Book(6, a3, 3, TRUE)
B7 == Book(7, a1, 1, FALSE)
B8 == Book(8, a2, 2, TRUE)

ChurnBooks == {B1, B2, B3, B4, B5, B6, B7, B8}
TwoBooks == {B1, B2}
ReimportedBooks == {B1, B2, B8}
GrowingBooks == {B1, B6}

BothFields == {title, tags}
OneField == {tags}
AllValues == {blank, old, new}

\* Revision 2 may change what a gallery's metadata should be.
TitleFrom2 ==
  [r \in 1..3 |->
     [a \in {a1, a2, a3} |->
        IF r = 1 THEN [f \in {tags} |-> old]
        ELSE [f \in {title, tags} |-> new]]]
OldTags == [r \in 1..1 |-> [a \in {a1, a2, a3} |-> [f \in {tags} |-> old]]]
NewTagsOfA2 ==
  [r \in 1..2 |->
     [a \in {a1, a2, a3} |->
        [f \in {tags} |-> IF r = 2 /\ a = a2 THEN new ELSE old]]]

SameArtifacts == [r \in 1..2 |-> {a1, a2}]
GrowingArtifacts == [r \in 1..3 |-> IF r = 1 THEN {a1} ELSE {a1, a3}]
WrongGidIn2 == {<<2, a3>>}
OneRevision == [r \in 1..1 |-> {a1, a2}]

Library(bs, ms) ==
  {[books |-> bs, series |-> {b.series : b \in bs}, meta |-> m, late |-> {}] : m \in ms}

\* Every book untouched by analysis, or carrying what revision 1 wants.
Uniform(v) == [i \in BookIds |-> [f \in Fields |-> v]]
Fresh == {Uniform(blank)}
FreshOrOld == {Uniform(blank), Uniform(old)}

LibrariesOfTwo == Library({B1, B2}, FreshOrOld)
ChurnLibraries ==
  Library({B1, B2}, FreshOrOld) \union Library({B1, B4}, Fresh)
    \union Library({B1}, Fresh)
GrowingLibraries == Library({B1}, Fresh) \union Library({}, Fresh)

\* A killed run may have left a PATCH of revision 1 in flight.
Straggler == [id |-> 1, want |-> [f \in {tags} |-> old]]
RerunLibraries ==
  LibrariesOfTwo \union
    {[l EXCEPT !.late = {Straggler}] : l \in Library({B1, B2}, {Uniform(new)})}
=============================================================================
