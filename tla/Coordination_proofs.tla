------------------------ MODULE Coordination_proofs ------------------------
(***************************************************************************)
(* The access rule holds for any number of syncs, whatever crashes.        *)
(***************************************************************************)
EXTENDS Coordination, TLAPS

\* Where the lock is held, and what is known while it is: the marker is looked
\* for under the lock, so it can appear only after the lock has been given back.
LockDiscipline ==
  /\ exclusive => shared = {}
  /\ library = "half" => marker
  /\ \A r \in Readers :
       /\ pc[r] \in {"locked", "reading"} => r \in shared
       /\ r \in shared => pc[r] \in {"locked", "reading", "leaving", "unlocked"}
       /\ pc[r] = "reading" => ~marker

Inv == TypeOK /\ LockDiscipline /\ LockIsReturned

LEMMA InitInv == Init => Inv
BY DEF Init, Inv, TypeOK, LockDiscipline, LockIsReturned

\* A step of one sync leaves the places of the others alone.
LEMMA ReaderKeepsType ==
  ASSUME TypeOK, NEW r \in Readers, ReaderNext(r), UNCHANGED ingestVars
  PROVE  TypeOK'
<1> USE DEF TypeOK, ingestVars, Step
<1>1. CASE Admit(r)
  <2>1. CASE OpenDirectory(r)  BY <2>1 DEF OpenDirectory, Refuse
  <2>2. CASE OpenLock(r)  BY <2>2 DEF OpenLock, Refuse
  <2>3. CASE TakeShared(r)  BY <2>3 DEF TakeShared, Refuse
  <2>4. CASE CheckMarker(r)  BY <2>4 DEF CheckMarker, Refuse
  <2> QED  BY <1>1, <2>1, <2>2, <2>3, <2>4 DEF Admit
<1>2. CASE \E e \in {"none", "failed", "timeout"} : Body(r, e)  BY <1>2 DEF Body
<1>3. CASE Unlock(r)  BY <1>3 DEF Unlock
<1>4. CASE CloseAll(r)  BY <1>4 DEF CloseAll
<1>5. CASE Die(r)  BY <1>5 DEF Die
<1> QED  BY <1>1, <1>2, <1>3, <1>4, <1>5 DEF ReaderNext, Leave

LEMMA ReaderKeepsDiscipline ==
  ASSUME Inv, NEW r \in Readers, ReaderNext(r), UNCHANGED ingestVars
  PROVE  LockDiscipline'
<1> USE DEF Inv, TypeOK, LockDiscipline, ingestVars, Step
<1>1. CASE Admit(r)
  <2>1. CASE OpenDirectory(r)  BY <2>1 DEF OpenDirectory, Refuse
  <2>2. CASE OpenLock(r)  BY <2>2 DEF OpenLock, Refuse
  <2>3. CASE TakeShared(r)  BY <2>3 DEF TakeShared, Refuse
  <2>4. CASE CheckMarker(r)  BY <2>4 DEF CheckMarker, Refuse
  <2> QED  BY <1>1, <2>1, <2>2, <2>3, <2>4 DEF Admit
<1>2. CASE \E e \in {"none", "failed", "timeout"} : Body(r, e)  BY <1>2 DEF Body
<1>3. CASE Unlock(r)  BY <1>3 DEF Unlock
<1>4. CASE CloseAll(r)  BY <1>4 DEF CloseAll
<1>5. CASE Die(r)  BY <1>5 DEF Die
<1> QED  BY <1>1, <1>2, <1>3, <1>4, <1>5 DEF ReaderNext, Leave

LEMMA ReaderReturnsLock ==
  ASSUME Inv, NEW r \in Readers, ReaderNext(r)
  PROVE  LockIsReturned'
<1> USE DEF Inv, TypeOK, LockDiscipline, LockIsReturned, Step
<1>1. CASE Admit(r)
  <2>1. CASE OpenDirectory(r)  BY <2>1 DEF OpenDirectory, Refuse
  <2>2. CASE OpenLock(r)  BY <2>2 DEF OpenLock, Refuse
  <2>3. CASE TakeShared(r)  BY <2>3 DEF TakeShared, Refuse
  <2>4. CASE CheckMarker(r)  BY <2>4 DEF CheckMarker, Refuse
  <2> QED  BY <1>1, <2>1, <2>2, <2>3, <2>4 DEF Admit
<1>2. CASE \E e \in {"none", "failed", "timeout"} : Body(r, e)  BY <1>2 DEF Body
<1>3. CASE Unlock(r)  BY <1>3 DEF Unlock
<1>4. CASE CloseAll(r)  BY <1>4 DEF CloseAll
<1>5. CASE Die(r)  BY <1>5 DEF Die
<1> QED  BY <1>1, <1>2, <1>3, <1>4, <1>5 DEF ReaderNext, Leave

LEMMA NextInv == Inv /\ [Next]_vars => Inv'
<1> SUFFICES ASSUME Inv, [Next]_vars PROVE Inv'
  OBVIOUS
<1>1. ASSUME NEW r \in Readers, ReaderNext(r), UNCHANGED ingestVars PROVE Inv'
  BY <1>1, ReaderKeepsType, ReaderKeepsDiscipline, ReaderReturnsLock DEF Inv
<1>2. CASE IngestNext /\ UNCHANGED readerVars
  BY <1>2 DEF Inv, TypeOK, LockDiscipline, LockIsReturned, readerVars, IngestNext,
     Exclude, Mark, Switch, Complete, Unmark, LetGo
<1>3. CASE UNCHANGED vars
  BY <1>3 DEF Inv, TypeOK, LockDiscipline, LockIsReturned, vars, readerVars, ingestVars
<1> QED  BY <1>1, <1>2, <1>3 DEF Next

LEMMA Invariance == Init /\ [][Next]_vars => []Inv
BY InitInv, NextInv, PTL

\* Type correctness of read() and ingest.
THEOREM CoordinationTypeCorrect == Spec => []TypeOK
<1>1. Inv => TypeOK  BY DEF Inv
<1> QED  BY Invariance, <1>1, PTL DEF Spec

\* No sync is let in while the library is half switched over, however many syncs
\* there are and wherever ingest crashes.
THEOREM NoReadOfHalfLibrary == Spec => []ReadsWholeLibrary
<1>1. Inv => ReadsWholeLibrary
  BY DEF Inv, TypeOK, LockDiscipline, ReadsWholeLibrary
<1> QED  BY Invariance, <1>1, PTL DEF Spec

\* Every way out of read() gives the lock back.
THEOREM NoLockLeft == Spec => []LockIsReturned
<1>1. Inv => LockIsReturned  BY DEF Inv
<1> QED  BY Invariance, <1>1, PTL DEF Spec

-----------------------------------------------------------------------------
(* The refinement.                                                         *)

LEMMA InitAccess == Init => Access!Init
BY DEF Init, Access!Init

LEMMA NextAccess == Inv /\ [Next]_vars => [Access!Next]_Access!vars
<1> SUFFICES ASSUME Inv, [Next]_vars PROVE [Access!Next]_Access!vars
  OBVIOUS
<1> DEFINE reading == {r \in Readers : pc[r] = "reading"}
<1>1. ASSUME NEW r \in Readers, ReaderNext(r), UNCHANGED ingestVars
      PROVE  [Access!Next]_Access!vars
  <2>1. library' = library  BY <1>1 DEF ingestVars
  <2>2. CASE pc[r] = "locked" /\ pc' = [pc EXCEPT ![r] = "reading"] /\ ~marker
    <3>1. r \notin reading /\ reading' = reading \union {r}
      BY <2>2 DEF Inv, TypeOK
    <3>2. library # "half"  BY <2>2 DEF Inv, LockDiscipline
    <3> QED  BY <2>1, <3>1, <3>2 DEF Access!Next, Access!Enter
  <2>3. CASE /\ pc' = [pc EXCEPT ![r] = pc'[r]]
             /\ pc'[r] # "reading"
    <3>1. CASE pc[r] = "reading"
      <4>1. r \in reading /\ reading' = reading \ {r}
        BY <2>3, <3>1 DEF Inv, TypeOK
      <4> QED  BY <2>1, <4>1 DEF Access!Next, Access!Leave
    <3>2. CASE pc[r] # "reading"
      <4>1. reading' = reading  BY <2>3, <3>2 DEF Inv, TypeOK
      <4> QED  BY <2>1, <4>1 DEF Access!vars
    <3> QED  BY <3>1, <3>2
  <2>4. \/ pc[r] = "locked" /\ pc' = [pc EXCEPT ![r] = "reading"] /\ ~marker
        \/ pc' = [pc EXCEPT ![r] = pc'[r]] /\ pc'[r] # "reading"
    BY <1>1 DEF Inv, TypeOK, ReaderNext, Admit, Leave, OpenDirectory, OpenLock, TakeShared,
       CheckMarker, Refuse, Body, Unlock, CloseAll, Die, Step
  <2> QED  BY <2>2, <2>3, <2>4
<1>2. CASE IngestNext /\ UNCHANGED readerVars
  <2>1. reading' = reading  BY <1>2 DEF readerVars
  <2>2. CASE UNCHANGED library  BY <2>1, <2>2 DEF Access!vars
  <2>3. CASE Switch
    <3>1. reading = {}  BY <2>3 DEF Switch, Inv, LockDiscipline
    <3>2. library \in {"whole", "half"} /\ library' = "half"
      BY <2>3 DEF Switch, Inv, TypeOK
    <3> QED  BY <2>1, <3>1, <3>2 DEF Access!Next, Access!Begin, Access!vars
  <2>4. CASE Complete
    <3>1. library \in {"whole", "half"} /\ library' = "whole"
      BY <2>4 DEF Complete, Inv, TypeOK
    <3> QED  BY <2>1, <3>1 DEF Access!Next, Access!Complete, Access!vars
  <2> QED
    BY <1>2, <2>2, <2>3, <2>4 DEF IngestNext, Exclude, Mark, Unmark, LetGo
<1>3. CASE UNCHANGED vars
  BY <1>3 DEF vars, readerVars, ingestVars, Access!vars
<1> QED  BY <1>1, <1>2, <1>3 DEF Next

\* Lock and marker implement the access rule: whoever crashes, the library of a
\* sync that was let in does not change, and a half one lets nobody in.
THEOREM CoordinationIsSound == Spec => ImplementsAccess
BY Invariance, InitAccess, NextAccess, PTL DEF Spec, ImplementsAccess
=============================================================================
