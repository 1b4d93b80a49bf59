------------------------------ MODULE BookPage ------------------------------
(***************************************************************************)
(* One page of books on its way into the snapshot store: parsing its       *)
(* items, looking their names up in the catalog batch by batch, comparing  *)
(* metadata.  Snapshot takes all of this for one step on abstract names.   *)
(*                                                                         *)
(* A name is cut where the code looks at it: does it begin with "h2h-",    *)
(* the digits that follow, how often ".cbz" comes after them.  Any other   *)
(* name has no digits.                                                     *)
(***************************************************************************)
EXTENDS Integers, SequencesExt

CONSTANTS
  Pages,            \* the pages Komga may answer with: sequences of items
  Published,        \* what the pinned revision publishes: gid -> publication
  MaxGid,           \* MAX_GID
  LookupBatchSize,  \* CATALOG_LOOKUP_BATCH_SIZE
  None

\* What is looked at of the name of a book.
ListedNames == [prefix : BOOLEAN, digits : Seq(0..9), suffixes : Nat]

ASSUME PagesAssumption ==
  \A p \in Pages :
    /\ p \in Seq(Range(p))
    /\ \A i \in DOMAIN p : p[i].valid \in BOOLEAN /\ p[i].name \in ListedNames

ASSUME PublishedAssumption ==
  \A g \in DOMAIN Published :
    /\ Published[g].gid \in Nat
    /\ Published[g].subjects \in Seq(Range(Published[g].subjects))

ASSUME NumbersAssumption == MaxGid \in Nat /\ LookupBatchSize \in Nat \ {0}

ASSUME NoneAssumption == None \notin ListedNames

VARIABLES
  page,          \* the answer
  pc,            \* "parsing", "looking up", or the outcome
  names,         \* canonical names of the items parsed so far
  offset,        \* how many of them have been looked up
  publications,  \* the catalog's answers so far, by name
  rows           \* what is handed to add_books

vars == <<page, pc, names, offset, publications, rows>>

-----------------------------------------------------------------------------
(* Names.                                                                  *)

Value(digits) ==
  LET first[k \in 0..Len(digits)] == IF k = 0 THEN 0 ELSE 10 * first[k - 1] + digits[k]
  IN  first[Len(digits)]

Digits[n \in Nat] == IF n < 10 THEN <<n>> ELSE Append(Digits[n \div 10], n % 10)

ArtifactName(gid) == [prefix |-> TRUE, digits |-> Digits[gid], suffixes |-> 1]

CanonicalArtifactName(name) ==
  IF /\ name.suffixes <= 1
     /\ name.prefix /\ name.digits # <<>> /\ Head(name.digits) # 0
     /\ Value(name.digits) <= MaxGid
  THEN ArtifactName(Value(name.digits)) ELSE None

-----------------------------------------------------------------------------
(* publication_to_komga_metadata.  A subject's scheme is "none", "tag" (it  *)
(* begins with H2H_TAG_SCHEME_PREFIX, and kind is the rest) or "other".     *)

Role(subject) == IF subject.code # "" THEN subject.code ELSE subject.kind

IsGalleryTag(subject) ==
  subject.name # "" /\ subject.scheme = "tag" /\ Role(subject) # ""

Author(subject) == [name |-> subject.name, role |-> Role(subject)]

TagAuthors(subjects) ==
  LET first[k \in 0..Len(subjects)] ==
        IF k = 0 THEN <<>>
        ELSE IF IsGalleryTag(subjects[k]) THEN Append(first[k - 1], Author(subjects[k]))
        ELSE first[k - 1]
  IN  first[Len(subjects)]

GidAuthor(publication) == [name |-> ToString(publication.gid), role |-> "gid"]

\* Mutation of Authors: the gid goes first.
AuthorsGidFirst(publication) == <<GidAuthor(publication)>> \o TagAuthors(publication.subjects)

Authors(publication) == Append(TagAuthors(publication.subjects), GidAuthor(publication))

\* A blank source title is left out, so that it overwrites none of Komga's.
KomgaMetadata(publication) ==
  [f \in {"authors"} \union {g \in {"title"} : publication.title # "blank"} |->
     IF f = "title" THEN publication.title ELSE Authors(publication)]

UpToDate(expected, current) ==
  \A f \in DOMAIN expected : f \in DOMAIN current /\ expected[f] = current[f]

-----------------------------------------------------------------------------
(* _collect_book_page.                                                     *)

Init ==
  /\ page \in Pages /\ pc = "parsing"
  /\ names = <<>> /\ offset = 0 /\ publications = [n \in {} |-> None] /\ rows = {}

Incomplete == pc' = "incomplete" /\ UNCHANGED <<page, names, offset, publications, rows>>

\* valid: four non-empty strings, the library's id, a One-Shot, a metadata dictionary.
ParseItem ==
  /\ pc = "parsing" /\ Len(names) < Len(page)
  /\ LET item == page[Len(names) + 1]
         name == CanonicalArtifactName(item.name)
     IN  IF item.valid /\ name # None
         THEN names' = Append(names, name) /\ UNCHANGED <<page, pc, offset, publications, rows>>
         ELSE Incomplete

\* Mutation of Distinct: names are compared as Komga spells them.
DistinctAsSpelled == \A i, j \in DOMAIN page : i # j => page[i].name # page[j].name

Distinct == IsInjective(names)

CheckDistinct ==
  /\ pc = "parsing" /\ Len(names) = Len(page)
  /\ IF Distinct
     THEN pc' = "looking up" /\ UNCHANGED <<page, names, offset, publications, rows>>
     ELSE Incomplete

Batch == SubSeq(names, offset + 1, Min({offset + LookupBatchSize, Len(names)}))

\* What the catalog answers for the names of a batch, all under one revision.
Answer(batch) ==
  [n \in {m \in Range(batch) : Value(m.digits) \in DOMAIN Published} |->
     Published[Value(n.digits)]]

Update(known, answer) ==
  [n \in DOMAIN known \union DOMAIN answer |-> IF n \in DOMAIN answer THEN answer[n] ELSE known[n]]

LookUp ==
  /\ pc = "looking up" /\ offset < Len(names)
  /\ \/ /\ publications' = Update(publications, Answer(Batch))
        /\ offset' = offset + LookupBatchSize
        /\ UNCHANGED <<page, pc, names, rows>>
     \/ /\ pc' = "revision not found"   \* the head has moved since the last batch
        /\ UNCHANGED <<page, names, offset, publications, rows>>

Row(item, name) ==
  LET expected == KomgaMetadata(publications[name])
  IN  [id |-> item.id, name |-> name,
       want |-> IF UpToDate(expected, item.current) THEN None ELSE expected]

CollectRows ==
  /\ pc = "looking up" /\ offset >= Len(names)
  /\ IF /\ DOMAIN publications = Range(names)
        /\ \A n \in Range(names) : n = ArtifactName(publications[n].gid)
     THEN /\ pc' = "collected"
          /\ rows' = {Row(page[i], names[i]) : i \in DOMAIN page}
          /\ UNCHANGED <<page, names, offset, publications>>
     ELSE Incomplete

Done == pc \in {"incomplete", "revision not found", "collected"} /\ UNCHANGED vars

Next == ParseItem \/ CheckDistinct \/ LookUp \/ CollectRows \/ Done

Spec == Init /\ [][Next]_vars /\ WF_vars(Next)

-----------------------------------------------------------------------------
(* Properties.                                                             *)

\* The two names by which Komga may list the artifact of a gallery.
Spellings(gid) == {[prefix |-> TRUE, digits |-> Digits[gid], suffixes |-> s] : s \in {0, 1}}

Names(gid, item) == item.valid /\ item.name \in Spellings(gid) /\ Published[gid].gid = gid

\* A page that Snapshot accepts: every item names a published gallery of its own.
Acceptable ==
  \E gids \in [DOMAIN page -> DOMAIN Published \intersect 1..MaxGid] :
    IsInjective(gids) /\ \A i \in DOMAIN page : Names(gids[i], page[i])

\* Item by item and batch by batch, the code accepts just the pages that
\* Snapshot accepts as a whole: neither a spelling nor the cut of a batch lets a
\* second copy of an artifact in or keeps a page of good ones out.
AcceptsExactPages ==
  /\ pc = "collected" => Acceptable
  /\ pc = "incomplete" => ~Acceptable

\* What is to be written names every gallery tag of the publication, each with a
\* role, and the gid as the last author; it has a title unless that is blank.
WritesAllTags ==
  \A row \in rows : row.want # None =>
    LET publication == publications[row.name]
        tags == {s \in Range(publication.subjects) :
                   s.name # "" /\ s.scheme = "tag" /\ {s.code, s.kind} # {""}}
        authors == row.want["authors"]
    IN  /\ Range(Front(authors)) =
             {[name |-> s.name, role |-> IF s.code = "" THEN s.kind ELSE s.code] : s \in tags}
        /\ Last(authors) = GidAuthor(publication)
        /\ "title" \in DOMAIN row.want <=> publication.title # "blank"
=============================================================================
