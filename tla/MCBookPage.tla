---------------------------- MODULE MCBookPage ----------------------------
(***************************************************************************)
(* Pages of up to three items for TLC, with every way to spell a name.     *)
(***************************************************************************)
EXTENDS BookPage

Tag(n, k, c) == [name |-> n, scheme |-> "tag", kind |-> k, code |-> c]
Plain(n) == [name |-> n, scheme |-> "other", kind |-> "", code |-> "c"]

\* 12 is published under the gid of another gallery, 30 is beyond MaxGid.
SmallCatalog ==
  [g \in {1, 2, 9, 12, 30} |->
     [gid |-> IF g = 12 THEN 9 ELSE g,
      title |-> IF g = 2 THEN "blank" ELSE "t",
      subjects |->
        IF g = 9 THEN <<Plain("award"), Tag("ann", "artist", ""), Tag("", "misc", "misc")>>
        ELSE <<Tag("eva", "female", "f"), Tag("bob", "", ""), Tag("ann", "artist", "")>>]]

Spelled(p, d, s) == [prefix |-> p, digits |-> d, suffixes |-> s]

SomeNames ==
  {Spelled(TRUE, d, s) : d \in {<<1>>, <<2>>, <<9>>}, s \in 0..2} \union
  {Spelled(TRUE, d, 1) : d \in {<<>>, <<0, 1>>, <<1, 2>>, <<3, 0>>, <<3>>}} \union
  {Spelled(FALSE, <<1>>, 1)}

Current == KomgaMetadata(SmallCatalog[1])

Item(i, n, v, c) == [id |-> i, name |-> n, valid |-> v, current |-> c]

Items(i) ==
  {Item(i, n, TRUE, [f \in {} |-> ""]) : n \in SomeNames} \union
  {Item(i, Spelled(TRUE, <<1>>, 1), v, Current) : v \in BOOLEAN}

SmallPages ==
  {<<>>} \union {<<a>> : a \in Items(1)} \union {<<a, b>> : a \in Items(1), b \in Items(2)}
    \union {<<a, b, c>> : a \in Items(1), b \in Items(2), c \in Items(3)}
=============================================================================
