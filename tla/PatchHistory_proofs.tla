------------------------ MODULE PatchHistory_proofs ------------------------
(***************************************************************************)
(* Proofs about one batch of updates, for every batch, every set of bad    *)
(* books, pool size, number of attempts and number of failures.            *)
(***************************************************************************)
EXTENDS PatchHistory, FiniteSetTheorems, TLAPS

HistoryTypeOK == confirmed \subseteq Batch /\ undone \subseteq Batch /\ troubled \in BOOLEAN

\* The pause is not the last attempt's: that one has ended the call.
PauseInTime == phase = "pause" => attempt < Attempts

\* Chunks under way are about books that are still to be updated.
ChunksRemain ==
  /\ phase # "send" => active = {}
  /\ phase = "send" => \A c \in queue \union active : c \subseteq remaining

\* A book is either confirmed, or still to be updated and, during the
\* verification, unchecked or known to be unverified.
Bookkeeping ==
  /\ Batch \ remaining \subseteq confirmed
  /\ phase \in {"begin", "send", "pause", "unverified"} => confirmed \intersect remaining = {}
  /\ phase = "verify" =>
       /\ raised \/ remaining \ confirmed \subseteq unchecked \union unverified
       /\ (unchecked \union unverified) \intersect confirmed = {}
       /\ unchecked \intersect unverified = {}
       /\ unchecked \union unverified \subseteq remaining
  /\ phase = "verified" => remaining = {}

ConfirmedWritten == confirmed \ good \subseteq undone

CInv ==
  TypeOK /\ HistoryTypeOK /\ PauseInTime /\ ChunksRemain /\ Bookkeeping /\ ConfirmedWritten

-----------------------------------------------------------------------------
\* A chunk holds ids of the set that was cut.
LEMMA ChunksType ==
  ASSUME NEW ids, NEW size
  PROVE  \A c \in Chunks(ids, size) : c \subseteq ids
BY DEF Chunks, Slice

LEMMA InitTypeOK == HistoryInit => TypeOK
<1>1. Attempts \in Nat \ {0} /\ MaxTroubles \in Nat
  BY PatchConstants
<1>2. 1 \in 1..Attempts /\ 0 \in 0..MaxTroubles
  BY <1>1
<1>3. QED
  BY <1>2 DEF HistoryInit, Init, TypeOK, Phases

LEMMA InitCInv == HistoryInit => CInv
<1>1. HistoryInit => TypeOK
  BY InitTypeOK
<1>2. HistoryInit => HistoryTypeOK /\ PauseInTime /\ ChunksRemain /\ ConfirmedWritten
  BY DEF HistoryInit, Init, HistoryTypeOK, PauseInTime, ChunksRemain, ConfirmedWritten
<1>3. HistoryInit => Bookkeeping
  BY DEF HistoryInit, Init, Bookkeeping
<1>4. QED
  BY <1>1, <1>2, <1>3 DEF CInv

\* The steps keep the types of the program's variables.
LEMMA TypeStep == TypeOK /\ PauseInTime /\ [Next]_vars => TypeOK'
<1> SUFFICES ASSUME TypeOK, PauseInTime, [Next]_vars PROVE TypeOK'
  OBVIOUS
<1> USE DEF TypeOK
<1>0. Attempts \in Nat \ {0} /\ MaxTroubles \in Nat
  BY PatchConstants
<1>1. CASE Begin
  <2>1. queue' \subseteq SUBSET Batch
    <3>1. queue' = Chunks(remaining, ChunkSize(attempt))
      BY <1>1 DEF Begin
    <3>2. \A c \in queue' : c \subseteq remaining
      BY <3>1, ChunksType
    <3>3. QED
      BY <3>2
  <2>2. QED
    BY <1>1, <2>1 DEF Begin, komgaVars, Phases
<1>2. CASE BeginTooLate
  BY <1>2 DEF BeginTooLate, komgaVars, Phases
<1>3. CASE \E c \in queue : Send(c) \/ SendTooLate(c)
  BY <1>3 DEF Send, SendTooLate, Take, komgaVars
<1>4. CASE \E c \in active : Answered(c) \/ PartlyWritten(c) \/ Lost(c) \/ TimesOut(c)
  <2>1. PICK c \in active : Answered(c) \/ PartlyWritten(c) \/ Lost(c) \/ TimesOut(c)
    BY <1>4
  <2>2. c \subseteq Batch /\ Finish(c)
    BY <2>1 DEF Answered, PartlyWritten, Lost, TimesOut
  <2>3. good' \subseteq Batch /\ late' \subseteq SUBSET Batch
    BY <2>1, <2>2 DEF Answered, PartlyWritten, Lost, TimesOut, Written
  <2>4. troubles' \in 0..MaxTroubles
    BY <1>0, <2>1 DEF Answered, PartlyWritten, Lost, TimesOut, Trouble
  <2>5. QED
    BY <2>2, <2>3, <2>4 DEF Finish
<1>5. CASE AllSent
  BY <1>5 DEF AllSent, komgaVars, Phases
<1>6. CASE \E i \in unchecked : ReadBack(i) \/ ReadBackFails(i) \/ ReadBackTooLate(i)
  <2>1. PICK i \in unchecked : ReadBack(i) \/ ReadBackFails(i) \/ ReadBackTooLate(i)
    BY <1>6
  <2>2. Check(i) /\ i \in Batch
    BY <2>1 DEF ReadBack, ReadBackFails, ReadBackTooLate
  <2>3. unverified' \subseteq Batch /\ raised' \in BOOLEAN
    BY <2>1, <2>2 DEF ReadBack, ReadBackFails, ReadBackTooLate
  <2>4. troubles' \in 0..MaxTroubles
    BY <1>0, <2>1 DEF ReadBack, ReadBackFails, ReadBackTooLate, Trouble
  <2>5. QED
    BY <2>2, <2>3, <2>4 DEF Check
<1>7. CASE AllChecked
  <2>1. remaining' \subseteq Batch /\ phase' \in Phases
    BY <1>7 DEF AllChecked, Phases
  <2>2. QED
    BY <1>7, <2>1 DEF AllChecked, komgaVars
<1>8. CASE Pause
  <2>1. attempt' \in 1..Attempts
    BY <1>0, <1>8 DEF Pause, PauseInTime
  <2>2. QED
    BY <1>8, <2>1 DEF Pause, komgaVars, Phases
<1>9. CASE Outside
  <2>1. CASE Expire
    BY <2>1 DEF Expire, callVars, komgaVars
  <2>2. CASE \E c \in late : LandLate(c)
    BY <2>2 DEF LandLate, Written, callVars
  <2>3. CASE \E i \in good : Undo(i)
    BY <1>0, <2>3 DEF Undo, Trouble, callVars
  <2>4. QED
    BY <1>9, <2>1, <2>2, <2>3 DEF Outside
<1>10. CASE UNCHANGED vars
  BY <1>10 DEF vars, callVars, komgaVars
<1>11. QED
  BY <1>1, <1>2, <1>3, <1>4, <1>5, <1>6, <1>7, <1>8, <1>9, <1>10 DEF Next, CallStep, Ended

-----------------------------------------------------------------------------
(* What a step records.                                                    *)

\* Only a read-back confirms a book.
LEMMA NothingConfirmed ==
  ASSUME Record, unchecked' = unchecked \/ phase # "verify"
  PROVE  confirmed' = confirmed
BY DEF Record, ReadBack, Check

\* The book that was read back is confirmed if Komga has its metadata, and no
\* other book is.
LEMMA ReadBackConfirms ==
  ASSUME NEW i \in unchecked, ReadBack(i), Record
  PROVE  confirmed' = IF i \in good THEN confirmed \union {i} ELSE confirmed
<1>1. \A j \in unchecked : ReadBack(j) => j = i
  BY DEF ReadBack, Check
<1>2. QED
  BY <1>1 DEF Record

\* Neither a failing GET nor a missing deadline confirms a book.
LEMMA OtherChecksConfirmNothing ==
  ASSUME TypeOK, NEW i \in unchecked, ReadBackFails(i) \/ ReadBackTooLate(i), Record
  PROVE  confirmed' = confirmed
<1>1. CASE ReadBackFails(i)
  <2>1. troubles' # troubles
    BY <1>1 DEF ReadBackFails, Trouble, TypeOK
  <2>2. \A j \in unchecked : ~ReadBack(j)
    BY <2>1 DEF ReadBack
  <2>3. QED
    BY <2>2 DEF Record
<1>2. CASE ReadBackTooLate(i)
  <2>1. \A j \in unchecked : ~ReadBack(j)
    BY <1>2 DEF ReadBackTooLate, ReadBack
  <2>2. QED
    BY <2>1 DEF Record
<1>3. QED
  BY <1>1, <1>2

\* What was confirmed stays so, and what Komga loses of it is noted down.
LEMMA RecordIsMonotone ==
  ASSUME Record, ConfirmedWritten, \A i \in confirmed' \ confirmed : i \in good'
  PROVE  confirmed \subseteq confirmed' /\ ConfirmedWritten'
BY DEF Record, ConfirmedWritten

\* The history variables keep their types.
LEMMA HistoryTypeStep ==
  ASSUME TypeOK, HistoryTypeOK, Record
  PROVE  HistoryTypeOK'
<1>1. confirmed' \subseteq Batch /\ undone' \subseteq Batch
  BY DEF TypeOK, HistoryTypeOK, Record
<1>2. troubled' \in BOOLEAN
  BY DEF HistoryTypeOK, Record
<1>3. QED
  BY <1>1, <1>2 DEF HistoryTypeOK

-----------------------------------------------------------------------------
(* The invariant is inductive.                                             *)

Kept == PauseInTime /\ ChunksRemain /\ Bookkeeping /\ ConfirmedWritten

LEMMA BeginKeeps == CInv /\ Begin /\ Record => Kept'
<1> SUFFICES ASSUME CInv, Begin, Record PROVE Kept'
  OBVIOUS
<1>1. confirmed' = confirmed
  BY NothingConfirmed DEF Begin
<1>2. ConfirmedWritten'
  BY <1>1, RecordIsMonotone DEF CInv
<1>3. ChunksRemain'
  <2>1. \A c \in queue' : c \subseteq remaining
    BY ChunksType DEF Begin
  <2>2. QED
    BY <2>1 DEF Begin, CInv, ChunksRemain
<1>4. QED
  BY <1>1, <1>2, <1>3 DEF Kept, CInv, Begin, Bookkeeping, PauseInTime

LEMMA SendKeeps ==
  ASSUME CInv, Record,
         NEW c \in queue, Send(c) \/ SendTooLate(c)
  PROVE  Kept'
<1>1. phase = "send" /\ unchecked' = unchecked
  BY DEF Send, SendTooLate, Take
<1>2. confirmed' = confirmed
  BY <1>1, NothingConfirmed
<1>3. ConfirmedWritten'
  BY <1>2, RecordIsMonotone DEF CInv
<1>4. QED
  BY <1>2, <1>3
     DEF Kept, CInv, Send, SendTooLate, Take, ChunksRemain, Bookkeeping, PauseInTime

LEMMA FinishKeeps ==
  ASSUME CInv, Record, NEW c \in active, Finish(c)
  PROVE  Kept'
<1>1. confirmed' = confirmed
  BY NothingConfirmed DEF Finish
<1>2. ConfirmedWritten'
  BY <1>1, RecordIsMonotone DEF CInv
<1>3. QED
  BY <1>1, <1>2 DEF Kept, CInv, Finish, ChunksRemain, Bookkeeping, PauseInTime

LEMMA AllSentKeeps == CInv /\ AllSent /\ Record => Kept'
<1> SUFFICES ASSUME CInv, AllSent, Record PROVE Kept'
  OBVIOUS
<1>1. confirmed' = confirmed
  BY NothingConfirmed DEF AllSent
<1>2. ConfirmedWritten'
  BY <1>1, RecordIsMonotone DEF CInv
<1>3. QED
  BY <1>1, <1>2 DEF Kept, CInv, AllSent, ChunksRemain, Bookkeeping, PauseInTime

LEMMA CheckKeeps ==
  ASSUME CInv, Record,
         NEW i \in unchecked, ReadBack(i) \/ ReadBackFails(i) \/ ReadBackTooLate(i)
  PROVE  Kept'
<1>1. CASE ReadBack(i)
  <2>1. confirmed' = IF i \in good THEN confirmed \union {i} ELSE confirmed
    BY <1>1, ReadBackConfirms
  <2>2. ConfirmedWritten'
    BY <1>1, <2>1, RecordIsMonotone DEF CInv, ReadBack, Check
  <2>3. Bookkeeping'
    BY <1>1, <2>1 DEF CInv, Bookkeeping, ReadBack, Check
  <2>4. QED
    BY <1>1, <2>2, <2>3 DEF Kept, CInv, ReadBack, Check, ChunksRemain, PauseInTime
<1>2. CASE ReadBackFails(i)
  <2>1. confirmed' = confirmed
    BY <1>2, OtherChecksConfirmNothing DEF CInv
  <2>2. ConfirmedWritten'
    BY <2>1, RecordIsMonotone DEF CInv
  <2>3. Bookkeeping'
    BY <1>2, <2>1 DEF CInv, Bookkeeping, ReadBackFails, Check
  <2>4. QED
    BY <1>2, <2>2, <2>3 DEF Kept, CInv, ReadBackFails, Check, ChunksRemain, PauseInTime
<1>3. CASE ReadBackTooLate(i)
  <2>1. confirmed' = confirmed
    BY <1>3, OtherChecksConfirmNothing DEF CInv
  <2>2. ConfirmedWritten'
    BY <2>1, RecordIsMonotone DEF CInv
  <2>3. Bookkeeping'
    BY <1>3, <2>1 DEF CInv, Bookkeeping, ReadBackTooLate, Check
  <2>4. QED
    BY <1>3, <2>2, <2>3 DEF Kept, CInv, ReadBackTooLate, Check, ChunksRemain, PauseInTime
<1>4. QED
  BY <1>1, <1>2, <1>3

LEMMA AllCheckedKeeps == CInv /\ AllChecked /\ Record => Kept'
<1> SUFFICES ASSUME CInv, AllChecked, Record PROVE Kept'
  OBVIOUS
<1>1. confirmed' = confirmed
  BY NothingConfirmed DEF AllChecked
<1>2. ConfirmedWritten'
  BY <1>1, RecordIsMonotone DEF CInv
<1>3. PauseInTime'
  <2>1. attempt \in 1..Attempts /\ Attempts \in Nat
    BY PatchConstants DEF CInv, TypeOK
  <2>2. phase' = "pause" => attempt # Attempts /\ attempt' = attempt
    BY DEF AllChecked, LastAttempt
  <2>3. QED
    BY <2>1, <2>2 DEF PauseInTime
<1>4. Bookkeeping'
  <2>1. CASE raised
    BY <1>1, <2>1 DEF CInv, AllChecked, Bookkeeping
  <2>2. CASE ~raised
    <3>1. remaining \ confirmed \subseteq unverified /\ unverified \intersect confirmed = {}
      BY <2>2 DEF CInv, AllChecked, Bookkeeping
    <3>2. remaining' = unverified
      BY <2>2 DEF AllChecked
    <3>3. QED
      BY <1>1, <2>2, <3>1, <3>2 DEF CInv, AllChecked, Bookkeeping
  <2>3. QED
    BY <2>1, <2>2
<1>5. ChunksRemain'
  BY DEF CInv, AllChecked, ChunksRemain
<1>6. QED
  BY <1>2, <1>3, <1>4, <1>5 DEF Kept

LEMMA PauseKeeps == CInv /\ Pause /\ Record => Kept'
<1> SUFFICES ASSUME CInv, Pause, Record PROVE Kept'
  OBVIOUS
<1>1. confirmed' = confirmed
  BY NothingConfirmed DEF Pause
<1>2. ConfirmedWritten'
  BY <1>1, RecordIsMonotone DEF CInv
<1>3. QED
  BY <1>1, <1>2 DEF Kept, CInv, Pause, ChunksRemain, Bookkeeping, PauseInTime

LEMMA BeginTooLateKeeps == CInv /\ BeginTooLate /\ Record => Kept'
<1> SUFFICES ASSUME CInv, BeginTooLate, Record PROVE Kept'
  OBVIOUS
<1>1. confirmed' = confirmed
  BY NothingConfirmed DEF BeginTooLate
<1>2. ConfirmedWritten'
  BY <1>1, RecordIsMonotone DEF CInv
<1>3. QED
  BY <1>1, <1>2 DEF Kept, CInv, BeginTooLate, ChunksRemain, Bookkeeping, PauseInTime

LEMMA OutsideKeeps == CInv /\ Outside /\ Record => Kept'
<1> SUFFICES ASSUME CInv, Outside, Record PROVE Kept'
  OBVIOUS
<1>1. UNCHANGED callVars
  BY DEF Outside, Expire, LandLate, Undo
<1>2. confirmed' = confirmed
  BY <1>1, NothingConfirmed DEF callVars
<1>3. ConfirmedWritten'
  BY <1>2, RecordIsMonotone DEF CInv
<1>4. QED
  BY <1>1, <1>2, <1>3 DEF callVars, Kept, CInv, ChunksRemain, Bookkeeping, PauseInTime

LEMMA StepCInv == CInv /\ [HistoryNext]_historyVars => CInv'
<1> SUFFICES ASSUME CInv, [HistoryNext]_historyVars PROVE CInv'
  OBVIOUS
<1>1. TypeOK'
  BY TypeStep
     DEF CInv, HistoryNext, HistoryCallStep, HistoryOutside, HistoryEnded, Ended, Next, historyVars
<1>2. CASE HistoryCallStep
  <2>1. Record
    BY <1>2 DEF HistoryCallStep
  <2>2. HistoryTypeOK'
    BY <2>1, HistoryTypeStep DEF CInv
  <2>3. Kept'
    <3>1. CASE \E c \in queue : Send(c) \/ SendTooLate(c)
      BY <2>1, <3>1, SendKeeps
    <3>2. CASE \E c \in active : Answered(c) \/ PartlyWritten(c) \/ Lost(c) \/ TimesOut(c)
      BY <2>1, <3>2, FinishKeeps DEF Answered, PartlyWritten, Lost, TimesOut
    <3>3. CASE \E i \in unchecked : ReadBack(i) \/ ReadBackFails(i) \/ ReadBackTooLate(i)
      BY <2>1, <3>3, CheckKeeps
    <3>4. QED
      BY <1>2, <2>1, <3>1, <3>2, <3>3, BeginKeeps, BeginTooLateKeeps, AllSentKeeps,
         AllCheckedKeeps, PauseKeeps DEF HistoryCallStep, CallStep
  <2>4. QED
    BY <1>1, <2>2, <2>3 DEF CInv, Kept
<1>3. CASE HistoryOutside
  BY <1>1, <1>3, HistoryTypeStep, OutsideKeeps DEF HistoryOutside, CInv, Kept
<1>4. CASE UNCHANGED historyVars
  BY <1>1, <1>4
     DEF historyVars, vars, callVars, komgaVars, CInv, HistoryTypeOK, PauseInTime, ChunksRemain,
         Bookkeeping, ConfirmedWritten
<1>5. CASE HistoryEnded
  BY <1>4, <1>5 DEF HistoryEnded, Ended, historyVars
<1>6. QED
  BY <1>2, <1>3, <1>4, <1>5 DEF HistoryNext

\* The inductive invariant holds of every reachable state.
THEOREM CInvHolds == HistorySpec => []CInv
BY InitCInv, StepCInv, PTL DEF HistorySpec

\* In particular the variables of the call keep their types.
THEOREM PatchTypeCorrect == HistorySpec => []TypeOK
<1>1. CInv => TypeOK
  BY DEF CInv
<1>2. QED
  BY <1>1, CInvHolds, PTL

-----------------------------------------------------------------------------
(* What the caller may rely on.                                            *)

\* Whatever is lost, late, partly written or undone: if the call reports
\* success, each book was written, unless Komga changed it after its read-back.
THEOREM SuccessIsWritten == HistorySpec => []VerifiedMeansWritten
<1>1. CInv => VerifiedMeansWritten
  BY DEF CInv, Bookkeeping, ConfirmedWritten, VerifiedMeansWritten
<1>2. QED
  BY <1>1, CInvHolds, PTL

\* No retry sends a book that was read back with its metadata.
THEOREM NoResend == HistorySpec => ConfirmedIsNotResent
<1>1. CInv /\ [HistoryNext]_historyVars
        => [\A c \in active' \ active : c \intersect confirmed = {}]_historyVars
  <2> SUFFICES ASSUME CInv, [HistoryNext]_historyVars,
                      NEW c \in active' \ active
               PROVE  c \intersect confirmed = {}
    OBVIOUS
  <2>1. \E d \in queue : Send(d)
    <3>1. HistoryCallStep
      BY DEF HistoryNext, HistoryOutside, HistoryEnded, Outside, Expire, LandLate, Undo, Ended,
             historyVars, vars, callVars
    <3>2. QED
      BY <3>1 DEF HistoryCallStep, CallStep, Begin, BeginTooLate, AllSent, AllChecked, Pause,
                  SendTooLate, Take, Answered, PartlyWritten, Lost, TimesOut, Finish,
                  ReadBack, ReadBackFails, ReadBackTooLate, Check
  <2>2. PICK d \in queue : Send(d)
    BY <2>1
  <2>3. c = d /\ phase = "send"
    BY <2>2 DEF Send, Take
  <2>4. QED
    BY <2>2, <2>3 DEF CInv, ChunksRemain, Bookkeeping
<1>2. QED
  BY <1>1, CInvHolds, PTL DEF HistorySpec, ConfirmedIsNotResent

-----------------------------------------------------------------------------
(* The call comes closer to its end.                                       *)

\* The pools and the verification have finitely much to do.
LEMMA WorkFinite ==
  ASSUME TypeOK
  PROVE  /\ IsFiniteSet(queue) /\ Cardinality(queue) \in Nat
         /\ IsFiniteSet(active) /\ Cardinality(active) \in Nat
         /\ IsFiniteSet(unchecked) /\ Cardinality(unchecked) \in Nat
<1>1. IsFiniteSet(Batch) /\ IsFiniteSet(SUBSET Batch)
  BY PatchConstants, FS_SUBSET
<1>2. IsFiniteSet(queue) /\ IsFiniteSet(active) /\ IsFiniteSet(unchecked)
  BY <1>1, FS_Subset DEF TypeOK
<1>3. QED
  BY <1>2, FS_CardinalityType

\* A chunk that is taken leaves the queue, and at most joins the active ones.
LEMMA TakingIsWork ==
  ASSUME TypeOK, NEW c \in queue, Send(c) \/ SendTooLate(c)
  PROVE  attempt' = attempt /\ phase' = phase /\ WorkLeft' < WorkLeft
<1>1. /\ attempt' = attempt /\ phase' = phase /\ phase = "send"
      /\ queue' = queue \ {c} /\ (active' = active \/ active' = active \union {c})
  BY DEF Send, SendTooLate, Take
<1>2. Cardinality(queue \ {c}) = Cardinality(queue) - 1
  BY WorkFinite, FS_RemoveElement
<1>3. Cardinality(active') \in {Cardinality(active), Cardinality(active) + 1}
  <2>1. /\ IsFiniteSet(active)
        /\ Cardinality(active \union {c}) =
             IF c \in active THEN Cardinality(active) ELSE Cardinality(active) + 1
    BY WorkFinite, FS_AddElement, Zenon
  <2>2. QED
    BY <1>1, <2>1
<1>4. Cardinality(active') \in Nat /\ Cardinality(active') <= Cardinality(active) + 1
  BY <1>3, WorkFinite
<1>5. WorkLeft' = 2 * (Cardinality(queue) - 1) + Cardinality(active')
  BY <1>1, <1>2 DEF WorkLeft
<1>6. WorkLeft = 2 * Cardinality(queue) + Cardinality(active)
  BY <1>1 DEF WorkLeft
<1>7. QED
  BY <1>1, <1>4, <1>5, <1>6, WorkFinite

\* A thread that is done with its chunk never sees it again.
LEMMA FinishingIsWork ==
  ASSUME TypeOK, NEW c \in active, Finish(c)
  PROVE  attempt' = attempt /\ phase' = phase /\ WorkLeft' < WorkLeft
<1>1. Cardinality(active \ {c}) = Cardinality(active) - 1
  BY WorkFinite, FS_RemoveElement
<1>2. WorkLeft' = 2 * Cardinality(queue) + (Cardinality(active) - 1)
  BY <1>1 DEF WorkLeft, Finish
<1>3. QED
  BY <1>2, WorkFinite DEF WorkLeft, Finish

\* A book is read back once in an attempt.
LEMMA CheckingIsWork ==
  ASSUME TypeOK, NEW i \in unchecked, Check(i)
  PROVE  attempt' = attempt /\ phase' = phase /\ WorkLeft' < WorkLeft
<1>1. Cardinality(unchecked \ {i}) = Cardinality(unchecked) - 1
  BY WorkFinite, FS_RemoveElement
<1>2. WorkLeft' = Cardinality(unchecked) - 1
  BY <1>1 DEF WorkLeft, Check
<1>3. QED
  BY <1>2, WorkFinite DEF WorkLeft, Check

\* No step of the call undoes progress: with the bound on the attempts, and as
\* long as threads and requests come back, this is why a call ends.
THEOREM CallProgresses == HistorySpec => CallAdvances
<1> DEFINE Advance == \/ attempt' > attempt
                      \/ attempt' = attempt /\ PhasesLeft' < PhasesLeft
                      \/ attempt' = attempt /\ phase' = phase /\ WorkLeft' < WorkLeft
<1>1. CInv /\ CallStep => Advance
  <2> SUFFICES ASSUME CInv, CallStep PROVE Advance
    OBVIOUS
  <2>1. TypeOK
    BY DEF CInv
  <2>2. CASE Begin \/ BeginTooLate \/ AllSent \/ AllChecked
    BY <2>2 DEF Begin, BeginTooLate, AllSent, AllChecked, PhasesLeft
  <2>3. CASE Pause
    BY <2>1, <2>3, PatchConstants DEF Pause, TypeOK
  <2>4. CASE \E c \in queue : Send(c) \/ SendTooLate(c)
    BY <2>1, <2>4, TakingIsWork
  <2>5. CASE \E c \in active : Answered(c) \/ PartlyWritten(c) \/ Lost(c) \/ TimesOut(c)
    BY <2>1, <2>5, FinishingIsWork DEF Answered, PartlyWritten, Lost, TimesOut
  <2>6. CASE \E i \in unchecked : ReadBack(i) \/ ReadBackFails(i) \/ ReadBackTooLate(i)
    BY <2>1, <2>6, CheckingIsWork DEF ReadBack, ReadBackFails, ReadBackTooLate
  <2>7. QED
    BY <2>2, <2>3, <2>4, <2>5, <2>6 DEF CallStep
<1>2. CInv /\ [HistoryNext]_historyVars => [callVars' # callVars => Advance]_vars
  <2>1. HistoryOutside => UNCHANGED callVars
    BY DEF HistoryOutside, Outside, Expire, LandLate, Undo
  <2>2. HistoryEnded \/ UNCHANGED historyVars => UNCHANGED callVars
    BY DEF HistoryEnded, Ended, historyVars, vars
  <2>3. HistoryCallStep => CallStep
    BY DEF HistoryCallStep
  <2> HIDE DEF Advance
  <2>4. QED
    BY <1>1, <2>1, <2>2, <2>3 DEF HistoryNext
<1>3. QED
  BY <1>2, CInvHolds, PTL DEF HistorySpec, CallAdvances

-----------------------------------------------------------------------------
(* The last attempt isolates the bad books.                                *)

\* Slices of one element are singletons, and every element is in one.
LEMMA Singletons ==
  ASSUME NEW ids \in SUBSET Nat, IsFiniteSet(ids)
  PROVE  /\ \A c \in Chunks(ids, 1) : \E i \in ids : c = {i}
         /\ ids \subseteq UNION Chunks(ids, 1)
<1> DEFINE Below(i) == {j \in ids : j < i}
<1>1. \A i \in ids : Cardinality(Below(i)) \in 0..Cardinality(ids)
  <2> SUFFICES ASSUME NEW i \in ids PROVE Cardinality(Below(i)) \in 0..Cardinality(ids)
    OBVIOUS
  <2>1. Below(i) \in SUBSET ids
    OBVIOUS
  <2>2. IsFiniteSet(Below(i)) /\ Cardinality(Below(i)) <= Cardinality(ids)
    BY <2>1, FS_Subset
  <2>3. Cardinality(Below(i)) \in Nat /\ Cardinality(ids) \in Nat
    BY <2>2, FS_CardinalityType
  <2>4. QED
    BY <2>2, <2>3
<1>2. \A i, j \in ids : j < i => Cardinality(Below(j)) # Cardinality(Below(i))
  <2> SUFFICES ASSUME NEW i \in ids, NEW j \in ids, j < i
               PROVE  Cardinality(Below(j)) # Cardinality(Below(i))
    OBVIOUS
  <2>1. Below(i) \in SUBSET ids
    OBVIOUS
  <2>2. IsFiniteSet(Below(i))
    BY <2>1, FS_Subset
  <2>3. Below(j) \in SUBSET Below(i)
    <3>1. \A k \in ids : k < j => k < i
      <4>1. \A a, b, c \in Nat : a < b /\ b < c => a < c
        OBVIOUS
      <4>2. QED
        BY <4>1
    <3>2. QED
      BY <3>1
  <2>4. Below(j) # Below(i)
    <3>1. j \in Below(i) /\ j \notin Below(j)
      OBVIOUS
    <3>2. QED
      BY <3>1
  <2>5. Cardinality(Below(i)) = Cardinality(Below(j)) => Below(i) = Below(j)
    BY <2>2, <2>3, FS_Subset
  <2>6. QED
    BY <2>4, <2>5
<1>3. \A i \in ids : Cardinality(Below(i)) \div 1 = Cardinality(Below(i))
  <2>1. \A n \in Nat : n \div 1 = n
    OBVIOUS
  <2>2. \A i \in ids : Cardinality(Below(i)) \in Nat
    <3>1. Cardinality(ids) \in Nat
      BY FS_CardinalityType
    <3>2. \A n \in 0..Cardinality(ids) : n \in Nat
      BY <3>1
    <3>3. QED
      BY <1>1, <3>2
  <2> HIDE DEF Below
  <2>3. QED
    BY <2>1, <2>2
<1>4. \A k : Slice(ids, 1, k) = {i \in ids : Cardinality(Below(i)) = k}
  <2> SUFFICES ASSUME NEW k PROVE Slice(ids, 1, k) = {i \in ids : Cardinality(Below(i)) = k}
    OBVIOUS
  <2>1. Slice(ids, 1, k) = {i \in ids : Cardinality(Below(i)) \div 1 = k}
    BY DEF Slice
  <2> HIDE DEF Below
  <2>2. QED
    BY <1>3, <2>1
<1>5. \A c \in Chunks(ids, 1) : \E i \in ids : c = {i}
  <2> SUFFICES ASSUME NEW k \in 0..Cardinality(ids), Slice(ids, 1, k) # {}
               PROVE  \E i \in ids : Slice(ids, 1, k) = {i}
    BY DEF Chunks
  <2> HIDE DEF Below
  <2>1. PICK i \in Slice(ids, 1, k) : TRUE
    OBVIOUS
  <2>2. i \in ids /\ Cardinality(Below(i)) = k
    BY <1>4, <2>1
  <2>3. ASSUME NEW j \in Slice(ids, 1, k) PROVE j = i
    <3>1. j \in ids /\ Cardinality(Below(j)) = k
      BY <1>4, <2>3
    <3>2. ~(i < j) /\ ~(j < i)
      BY <1>2, <2>2, <3>1
    <3>3. i \in Nat /\ j \in Nat
      BY <2>2, <3>1
    <3>4. QED
      BY <3>2, <3>3
  <2>4. QED
    BY <2>1, <2>2, <2>3
<1>6. ids \subseteq UNION Chunks(ids, 1)
  <2> SUFFICES ASSUME NEW i \in ids PROVE \E c \in Chunks(ids, 1) : i \in c
    OBVIOUS
  <2> HIDE DEF Below
  <2>1. i \in Slice(ids, 1, Cardinality(Below(i)))
    BY <1>4
  <2>2. QED
    BY <1>1, <2>1 DEF Chunks
<1>7. QED
  BY <1>5, <1>6

\* As long as nothing goes wrong in the last attempt, a book it no longer has
\* to send is written or bad, and only bad ones are found unverified.
Isolating ==
  /\ phase = "send" /\ LastAttempt /\ ~troubled /\ ~raised =>
       /\ \A c \in queue \union active : \E i \in Batch : c = {i}
       /\ remaining \subseteq good \union bad \union UNION (queue \union active)
  /\ phase = "verify" /\ LastAttempt /\ ~troubled /\ ~raised =>
       unchecked \subseteq good \union bad /\ unverified \subseteq bad
  /\ OnlyBadAreLeft

\* What Komga does not accept it never does.
LEMMA BadStays == [Next]_vars => bad' = bad
<1>1. CallStep => bad' = bad
  BY DEF CallStep, Begin, BeginTooLate, AllSent, AllChecked, Pause, Send, SendTooLate, Take,
         Answered, PartlyWritten, Lost, TimesOut, Finish, ReadBack, ReadBackFails,
         ReadBackTooLate, Check, komgaVars
<1>2. Outside => bad' = bad
  BY DEF Outside, Expire, LandLate, Undo, komgaVars
<1>3. UNCHANGED vars => bad' = bad
  BY DEF vars, komgaVars
<1>4. QED
  BY <1>1, <1>2, <1>3 DEF Next, Ended

LEMMA BeginIsolates == CInv /\ Begin /\ Record => Isolating'
<1> SUFFICES ASSUME CInv, Begin, Record PROVE Isolating'
  OBVIOUS
<1>0. bad' = bad
  BY DEF Begin, komgaVars
<1>1. CASE LastAttempt
  <2>1. ChunkSize(attempt) = 1
    BY <1>1 DEF ChunkSize, LastAttempt
  <2>2. remaining \in SUBSET Nat /\ IsFiniteSet(remaining)
    <3>1. remaining \in SUBSET Batch /\ Batch \subseteq Nat
      BY PatchConstants DEF CInv, TypeOK
    <3>2. IsFiniteSet(Batch)
      BY PatchConstants
    <3>3. QED
      BY <3>1, <3>2, FS_Subset
  <2>3. queue' = Chunks(remaining, 1) /\ active' = {} /\ remaining' = remaining /\ phase' = "send"
    BY <2>1 DEF Begin, CInv, ChunksRemain
  <2>4. /\ \A c \in queue' : \E i \in remaining : c = {i}
        /\ remaining \subseteq UNION queue'
    BY <2>2, <2>3, Singletons
  <2>5. remaining \subseteq Batch
    BY DEF CInv, TypeOK
  <2>6. QED
    BY <1>0, <2>3, <2>4, <2>5 DEF Isolating, OnlyBadAreLeft
<1>2. CASE ~LastAttempt
  BY <1>0, <1>2 DEF Begin, LastAttempt, Isolating, OnlyBadAreLeft
<1>3. QED
  BY <1>1, <1>2

\* A step that is followed by an undisturbed state was itself undisturbed.
LEMMA Undisturbed ==
  ASSUME Record, phase # "begin", ~troubled'
  PROVE  ~troubled /\ troubles' = troubles
BY DEF Record

LEMMA SendIsolates ==
  ASSUME CInv, Isolating, Record, NEW c \in queue, Send(c) \/ SendTooLate(c)
  PROVE  Isolating'
<1>0. bad' = bad
  BY DEF Send, SendTooLate, Take, komgaVars
<1>1. phase = "send" /\ phase' = "send" /\ attempt' = attempt
  BY DEF Send, SendTooLate, Take
<1>2. CASE ~troubled' /\ LastAttempt /\ ~raised'
  <2>1. ~troubled /\ ~raised /\ Send(c)
    BY <1>1, <1>2, Undisturbed DEF SendTooLate, Send, CInv, TypeOK
  <2>2. queue' \union active' = queue \union active /\ remaining' = remaining /\ good' = good
    BY <2>1 DEF Send, Take, komgaVars
  <2>3. QED
    BY <1>0, <1>1, <1>2, <2>1, <2>2 DEF Isolating, OnlyBadAreLeft
<1>3. QED
  BY <1>0, <1>1, <1>2 DEF Isolating, OnlyBadAreLeft, LastAttempt

LEMMA FinishIsolates ==
  ASSUME CInv, Isolating, Record,
         NEW c \in active, Answered(c) \/ PartlyWritten(c) \/ Lost(c) \/ TimesOut(c)
  PROVE  Isolating'
<1>0. bad' = bad
  BY DEF Answered, PartlyWritten, Lost, TimesOut, Finish
<1>1. /\ Finish(c)
      /\ phase = "send" /\ phase' = "send" /\ attempt' = attempt
      /\ raised' = raised /\ queue' = queue /\ remaining' = remaining
  BY DEF Answered, PartlyWritten, Lost, TimesOut, Finish
<1>2. CASE ~troubled' /\ LastAttempt /\ ~raised
  <2>1. ~troubled /\ troubles' = troubles
    BY <1>1, <1>2, Undisturbed
  <2>2. Answered(c)
    <3>1. ~Trouble
      BY <2>1 DEF Trouble, CInv, TypeOK
    <3>2. QED
      BY <3>1 DEF PartlyWritten, Lost, TimesOut
  <2>3. PICK i \in Batch : c = {i}
    BY <1>1, <1>2, <2>1 DEF Isolating
  <2>4. good' = IF i \in bad THEN good ELSE good \union {i}
    BY <2>2, <2>3 DEF Answered, Written
  <2>5. remaining \subseteq good \union bad \union UNION (queue \union active)
    BY <1>1, <1>2, <2>1 DEF Isolating
  <2>6. active' = active \ {{i}}
    BY <1>1, <2>3 DEF Finish
  <2>7. remaining \subseteq good' \union bad \union UNION (queue \union active')
    BY <2>4, <2>5, <2>6
  <2>8. QED
    BY <1>0, <1>1, <1>2, <2>1, <2>6, <2>7 DEF Isolating, OnlyBadAreLeft
<1>3. QED
  BY <1>0, <1>1, <1>2 DEF Isolating, OnlyBadAreLeft, LastAttempt

LEMMA AllSentIsolates == CInv /\ Isolating /\ AllSent /\ Record => Isolating'
<1> SUFFICES ASSUME CInv, Isolating, AllSent, Record PROVE Isolating'
  OBVIOUS
<1>0. bad' = bad
  BY DEF AllSent, komgaVars
<1>1. phase = "send" /\ attempt' = attempt /\ raised' = raised /\ good' = good
  BY DEF AllSent, komgaVars
<1>2. phase' \in {"verify", "timedOut"}
  BY DEF AllSent
<1>3. CASE LastAttempt /\ ~troubled' /\ ~raised
  <2>1. remaining \subseteq good \union bad
    BY <1>1, <1>3, Undisturbed DEF AllSent, Isolating
  <2>2. unchecked' = remaining /\ unverified' = {}
    BY <1>3 DEF AllSent
  <2>3. QED
    BY <1>0, <1>1, <1>2, <2>1, <2>2 DEF Isolating, OnlyBadAreLeft
<1>4. QED
  BY <1>0, <1>1, <1>2, <1>3 DEF Isolating, OnlyBadAreLeft, LastAttempt

LEMMA CheckIsolates ==
  ASSUME CInv, Isolating, Record,
         NEW i \in unchecked, ReadBack(i) \/ ReadBackFails(i) \/ ReadBackTooLate(i)
  PROVE  Isolating'
<1>0. bad' = bad
  BY DEF ReadBack, ReadBackFails, ReadBackTooLate, Check
<1>1. /\ phase = "verify" /\ phase' = "verify" /\ attempt' = attempt
      /\ unchecked' = unchecked \ {i} /\ good' = good
  BY DEF ReadBack, ReadBackFails, ReadBackTooLate, Check
<1>2. CASE LastAttempt /\ ~troubled' /\ ~raised'
  <2>1. ~troubled /\ troubles' = troubles
    BY <1>1, <1>2, Undisturbed
  <2>2. ReadBack(i) /\ ~raised
    <3>1. ~ReadBackFails(i)
      BY <2>1 DEF ReadBackFails, Trouble, CInv, TypeOK
    <3>2. QED
      BY <1>2, <3>1 DEF ReadBackTooLate, ReadBack
  <2>3. unchecked \subseteq good \union bad /\ unverified \subseteq bad
    BY <1>1, <1>2, <2>1, <2>2 DEF Isolating
  <2>4. unverified' \subseteq bad
    BY <2>2, <2>3 DEF ReadBack
  <2>5. QED
    BY <1>0, <1>1, <2>3, <2>4 DEF Isolating, OnlyBadAreLeft
<1>3. QED
  BY <1>0, <1>1, <1>2 DEF Isolating, OnlyBadAreLeft, LastAttempt

LEMMA AllCheckedIsolates == CInv /\ Isolating /\ AllChecked /\ Record => Isolating'
<1> SUFFICES ASSUME CInv, Isolating, AllChecked, Record PROVE Isolating'
  OBVIOUS
<1>0. bad' = bad
  BY DEF AllChecked, komgaVars
<1>1. phase' \notin {"send", "verify"} /\ phase = "verify"
  BY DEF AllChecked
<1>2. ASSUME phase' = "unverified", ~troubled' PROVE remaining' \subseteq bad
  <2>1. LastAttempt /\ ~raised /\ remaining' = unverified
    BY <1>2 DEF AllChecked
  <2>2. QED
    BY <1>1, <1>2, <2>1, Undisturbed DEF Isolating
<1>3. QED
  BY <1>0, <1>1, <1>2 DEF Isolating, OnlyBadAreLeft

LEMMA OutsideIsolates == CInv /\ Isolating /\ Outside /\ Record => Isolating'
<1> SUFFICES ASSUME CInv, Isolating, Outside, Record PROVE Isolating'
  OBVIOUS
<1>0. bad' = bad
  BY DEF Outside, Expire, LandLate, Undo, komgaVars
<1>1. UNCHANGED callVars /\ Running
  BY DEF Outside, Expire, LandLate, Undo
<1>2. CASE ~troubled' /\ phase # "begin"
  <2>1. ~troubled /\ troubles' = troubles
    BY <1>2, Undisturbed
  <2>2. good \subseteq good'
    <3>1. ~Trouble
      BY <2>1 DEF Trouble, CInv, TypeOK
    <3>2. QED
      BY <3>1 DEF Outside, Expire, LandLate, Undo, komgaVars
  <2>3. QED
    BY <1>0, <1>1, <2>1, <2>2 DEF callVars, Running, Isolating, OnlyBadAreLeft, LastAttempt
<1>3. QED
  BY <1>0, <1>1, <1>2 DEF callVars, Running, Isolating, OnlyBadAreLeft, LastAttempt

LEMMA StepIsolating == CInv /\ Isolating /\ [HistoryNext]_historyVars => Isolating'
<1> SUFFICES ASSUME CInv, Isolating, [HistoryNext]_historyVars PROVE Isolating'
  OBVIOUS
<1>1. CASE HistoryCallStep
  <2>1. Record
    BY <1>1 DEF HistoryCallStep
  <2>2. CASE \E c \in queue : Send(c) \/ SendTooLate(c)
    BY <2>1, <2>2, SendIsolates
  <2>3. CASE \E c \in active : Answered(c) \/ PartlyWritten(c) \/ Lost(c) \/ TimesOut(c)
    BY <2>1, <2>3, FinishIsolates
  <2>4. CASE \E i \in unchecked : ReadBack(i) \/ ReadBackFails(i) \/ ReadBackTooLate(i)
    BY <2>1, <2>4, CheckIsolates
  <2>5. CASE BeginTooLate \/ Pause
    BY <2>5 DEF BeginTooLate, Pause, komgaVars, Isolating, OnlyBadAreLeft
  <2>6. QED
    BY <1>1, <2>1, <2>2, <2>3, <2>4, <2>5, BeginIsolates, AllSentIsolates, AllCheckedIsolates
       DEF HistoryCallStep, CallStep
<1>2. CASE HistoryOutside
  BY <1>2, OutsideIsolates DEF HistoryOutside
<1>3. CASE UNCHANGED historyVars
  BY <1>3 DEF historyVars, vars, callVars, komgaVars, Isolating, OnlyBadAreLeft, LastAttempt
<1>4. CASE HistoryEnded
  BY <1>3, <1>4 DEF HistoryEnded, Ended, historyVars
<1>5. QED
  BY <1>1, <1>2, <1>3, <1>4 DEF HistoryNext

\* After an undisturbed last attempt, only books Komga does not accept are left
\* over: the last attempt sends every book alone.
THEOREM LeftoversAreBad == HistorySpec => []OnlyBadAreLeft
<1>1. HistoryInit => Isolating
  BY DEF HistoryInit, Init, Isolating, OnlyBadAreLeft
<1>2. CInv /\ Isolating /\ [HistoryNext]_historyVars => Isolating'
  BY StepIsolating
<1>3. Isolating => OnlyBadAreLeft
  BY DEF Isolating
<1>4. QED
  BY <1>1, <1>2, <1>3, CInvHolds, PTL DEF HistorySpec

-----------------------------------------------------------------------------
(* The call is a BatchUpdate.                                              *)

\* Something is left to do until the call ends, and a missed deadline of the
\* verification leaves a book nothing can confirm any more.
Unfinished ==
  /\ good \intersect bad = {}
  /\ phase \in {"begin", "send", "pause"} => remaining # {}
  /\ phase = "verify" /\ raised => ~(Batch \subseteq confirmed \union unchecked)

\* A step of the abstract call, or none.
AbstractStep == [Update!Next]_(Update!vars)

\* The outcome is running exactly while the call is.
LEMMA OutcomeRuns == ASSUME Running PROVE CallOutcome = "running"
BY DEF Running, CallOutcome

\* A step that confirms nothing and does not end the call only changes what
\* Komga has, within what it accepts.
LEMMA QuietStep ==
  ASSUME Running, Running', confirmed' = confirmed, bad' = bad,
         good' \subseteq Batch \ bad
  PROVE  AbstractStep
<1>1. CallOutcome = "running" /\ CallOutcome' = "running"
  BY DEF Running, CallOutcome
<1>2. QED
  BY <1>1 DEF AbstractStep, Update!Next, Update!Change

\* A step of the verification that confirms a book Komga has.
LEMMA SeeingStep ==
  ASSUME Running, Running', NEW i \in Batch, i \in good, confirmed' = confirmed \union {i},
         bad' = bad, good' = good
  PROVE  AbstractStep
<1>1. CallOutcome = "running" /\ CallOutcome' = "running"
  BY DEF Running, CallOutcome
<1>2. QED
  BY <1>1 DEF AbstractStep, Update!Next, Update!See

\* Ending the call, with everything seen or with something unseen.
LEMMA EndingStep ==
  ASSUME Running, UNCHANGED <<confirmed, bad, good>>,
         \/ phase' = "verified" /\ confirmed = Batch
         \/ phase' \in {"unverified", "timedOut"} /\ confirmed # Batch
  PROVE  AbstractStep
<1>1. CallOutcome = "running"
  BY OutcomeRuns
<1>2. CASE phase' = "verified" /\ confirmed = Batch
  <2>1. CallOutcome' = "through"
    BY <1>2 DEF CallOutcome
  <2>2. QED
    BY <1>1, <1>2, <2>1 DEF AbstractStep, Update!Next, Update!Finish
<1>3. CASE phase' \in {"unverified", "timedOut"} /\ confirmed # Batch
  <2>1. CallOutcome' = "given up"
    BY <1>3 DEF CallOutcome
  <2>2. QED
    BY <1>1, <1>3, <2>1 DEF AbstractStep, Update!Next, Update!GiveUp
<1>4. QED
  BY <1>2, <1>3

\* While chunks are sent and answered, books are written but not confirmed.
LEMMA SendingRefines ==
  ASSUME CInv, Unfinished, Record,
         \/ Begin \/ Pause
         \/ \E c \in queue : Send(c) \/ SendTooLate(c)
         \/ \E c \in active : Answered(c) \/ PartlyWritten(c) \/ Lost(c) \/ TimesOut(c)
  PROVE  AbstractStep /\ Unfinished'
<1>1. /\ phase \in {"begin", "send", "pause"} /\ phase' \in {"begin", "send"}
      /\ UNCHANGED <<bad, unchecked, remaining>>
  BY DEF Begin, Pause, Send, SendTooLate, Take, Answered, PartlyWritten, Lost, TimesOut, Finish,
         komgaVars
<1>2. confirmed' = confirmed
  BY <1>1, NothingConfirmed
<1>3. good' \subseteq Batch \ bad
  <2>1. CASE UNCHANGED good
    BY <2>1 DEF CInv, TypeOK, Unfinished
  <2>2. CASE \E c \in active : Answered(c) \/ PartlyWritten(c)
    BY <2>2 DEF CInv, TypeOK, Unfinished, Answered, PartlyWritten, Written
  <2>3. QED
    BY <2>1, <2>2 DEF Begin, Pause, Send, SendTooLate, Lost, TimesOut, komgaVars
<1>4. Running /\ Running'
  BY <1>1 DEF Running
<1>5. AbstractStep
  BY <1>1, <1>2, <1>3, <1>4, QuietStep
<1>6. QED
  BY <1>1, <1>3, <1>5 DEF Unfinished

\* A read-back confirms the book or leaves it; a missed deadline gives it up.
LEMMA CheckRefines ==
  ASSUME CInv, Unfinished, Record,
         NEW i \in unchecked, ReadBack(i) \/ ReadBackFails(i) \/ ReadBackTooLate(i)
  PROVE  AbstractStep /\ Unfinished'
<1>1. /\ phase = "verify" /\ phase' = "verify"
      /\ unchecked' = unchecked \ {i} /\ good' = good /\ bad' = bad
  BY DEF ReadBack, ReadBackFails, ReadBackTooLate, Check
<1>2. i \in Batch /\ i \notin confirmed /\ good \subseteq Batch \ bad
  BY <1>1 DEF CInv, TypeOK, Bookkeeping, Unfinished
<1>3. Running /\ Running'
  BY <1>1 DEF Running
<1>4. CASE ReadBack(i)
  <2>1. confirmed' = IF i \in good THEN confirmed \union {i} ELSE confirmed
    BY <1>4, ReadBackConfirms
  <2>2. raised' = raised
    BY <1>4 DEF ReadBack
  <2>3. Unfinished'
    BY <1>1, <2>1, <2>2 DEF Unfinished
  <2>4. QED
    BY <1>1, <1>2, <1>3, <2>1, <2>3, QuietStep, SeeingStep
<1>5. CASE ReadBackFails(i) \/ ReadBackTooLate(i)
  <2>1. confirmed' = confirmed
    BY <1>5, OtherChecksConfirmNothing DEF CInv
  <2>2. Unfinished'
    <3>1. raised' = raised \/ i \notin confirmed' \union unchecked'
      BY <1>1, <1>2, <1>5, <2>1 DEF ReadBackFails
    <3>2. QED
      BY <1>1, <1>2, <2>1, <3>1 DEF Unfinished
  <2>3. QED
    BY <1>1, <1>2, <1>3, <2>1, <2>2, QuietStep
<1>6. QED
  BY <1>4, <1>5

\* Giving up before or after the requests of an attempt leaves a book unseen.
LEMMA LateRefines ==
  ASSUME CInv, Unfinished, Record, BeginTooLate \/ AllSent
  PROVE  AbstractStep /\ Unfinished'
<1>1. /\ phase \in {"begin", "send"} /\ UNCHANGED <<bad, good, remaining, raised>>
  BY DEF BeginTooLate, AllSent, komgaVars
<1>2. confirmed' = confirmed
  BY <1>1, NothingConfirmed
<1>3. confirmed # Batch
  BY <1>1 DEF CInv, TypeOK, Bookkeeping, Unfinished
<1>4. Running
  BY <1>1 DEF Running
<1>5. CASE phase' = "timedOut"
  BY <1>1, <1>2, <1>3, <1>4, <1>5, EndingStep DEF Unfinished
<1>6. CASE phase' # "timedOut"
  <2>1. phase' = "verify" /\ ~raised
    BY <1>6 DEF BeginTooLate, AllSent
  <2>2. good' \subseteq Batch \ bad
    BY <1>1 DEF CInv, TypeOK, Unfinished
  <2>3. Running'
    BY <2>1 DEF Running
  <2>4. QED
    BY <1>1, <1>2, <1>4, <2>1, <2>2, <2>3, QuietStep DEF Unfinished
<1>7. QED
  BY <1>5, <1>6

\* The end of the verification: what is not unverified has been seen.
LEMMA AllCheckedRefines ==
  ASSUME CInv, Unfinished, Record, AllChecked
  PROVE  AbstractStep /\ Unfinished'
<1>1. phase = "verify" /\ unchecked = {} /\ UNCHANGED <<bad, good, raised>>
  BY DEF AllChecked, komgaVars
<1>2. confirmed' = confirmed
  BY NothingConfirmed DEF AllChecked
<1>3. Running
  BY <1>1 DEF Running
<1>4. confirmed \subseteq Batch /\ good \subseteq Batch \ bad
  BY DEF CInv, TypeOK, HistoryTypeOK, Unfinished
<1>5. CASE raised
  <2>1. phase' = "timedOut" /\ confirmed # Batch
    BY <1>1, <1>5 DEF AllChecked, Unfinished
  <2>2. QED
    BY <1>1, <1>2, <1>3, <2>1, EndingStep DEF Unfinished
<1>6. CASE ~raised /\ unverified = {}
  <2>1. phase' = "verified"
    BY <1>6 DEF AllChecked
  <2>2. confirmed = Batch
    BY <1>1, <1>4, <1>6 DEF CInv, Bookkeeping
  <2>3. QED
    BY <1>1, <1>2, <1>3, <2>1, <2>2, EndingStep DEF Unfinished
<1>7. CASE ~raised /\ unverified # {}
  <2>1. phase' \in {"unverified", "timedOut", "pause"} /\ remaining' = unverified
    BY <1>7 DEF AllChecked
  <2>2. confirmed # Batch
    BY <1>1, <1>7 DEF CInv, TypeOK, Bookkeeping
  <2>3. Unfinished'
    BY <1>1, <1>7, <2>1 DEF Unfinished
  <2>4. CASE phase' = "pause"
    <3>1. Running'
      BY <2>4 DEF Running
    <3>2. QED
      BY <1>1, <1>2, <1>3, <1>4, <2>3, <3>1, QuietStep
  <2>5. QED
    BY <1>1, <1>2, <1>3, <2>1, <2>2, <2>3, <2>4, EndingStep
<1>8. QED
  BY <1>5, <1>6, <1>7

\* What happens meanwhile changes what Komga has, and nothing else.
LEMMA OutsideRefines ==
  ASSUME CInv, Unfinished, Record, Outside
  PROVE  AbstractStep /\ Unfinished'
<1>1. UNCHANGED <<callVars, bad>> /\ Running
  BY DEF Outside, Expire, LandLate, Undo, komgaVars
<1>2. confirmed' = confirmed
  BY <1>1, NothingConfirmed DEF callVars
<1>3. good' \subseteq Batch \ bad
  BY DEF CInv, TypeOK, Unfinished, Outside, Expire, LandLate, Undo, Written, komgaVars
<1>4. Running'
  BY <1>1 DEF Running, callVars
<1>5. QED
  BY <1>1, <1>2, <1>3, <1>4, QuietStep DEF Unfinished, callVars

LEMMA StepRefines ==
  CInv /\ Unfinished /\ [HistoryNext]_historyVars => AbstractStep /\ Unfinished'
<1> SUFFICES ASSUME CInv, Unfinished, [HistoryNext]_historyVars
             PROVE  AbstractStep /\ Unfinished'
  OBVIOUS
<1>1. CASE HistoryCallStep
  <2>1. Record
    BY <1>1 DEF HistoryCallStep
  <2>2. QED
    BY <1>1, <2>1, SendingRefines, CheckRefines, LateRefines, AllCheckedRefines
       DEF HistoryCallStep, CallStep
<1>2. CASE HistoryOutside
  BY <1>2, OutsideRefines DEF HistoryOutside
<1>3. CASE UNCHANGED historyVars
  BY <1>3 DEF historyVars, vars, callVars, komgaVars, Unfinished, AbstractStep, Update!vars,
              CallOutcome
<1>4. CASE HistoryEnded
  BY <1>3, <1>4 DEF HistoryEnded, Ended, historyVars
<1>5. QED
  BY <1>1, <1>2, <1>3, <1>4 DEF HistoryNext

\* Whatever its chunks, threads, attempts and failures: one call of
\* _patch_with_retries is a BatchUpdate.
THEOREM CallIsBatchUpdate == HistorySpec => ImplementsBatchUpdate
<1>1. HistoryInit => Unfinished
  BY PatchConstants DEF HistoryInit, Init, Unfinished
<1>2. HistoryInit => Update!Init
  BY DEF HistoryInit, Init, Update!Init, CallOutcome
<1>3. CInv /\ Unfinished /\ [HistoryNext]_historyVars => AbstractStep /\ Unfinished'
  BY StepRefines
<1>4. QED
  BY <1>1, <1>2, <1>3, CInvHolds, PTL
     DEF HistorySpec, ImplementsBatchUpdate, Update!Spec, AbstractStep
=============================================================================
