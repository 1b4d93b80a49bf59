------------------------- MODULE SyncHistory_proofs -------------------------
(***************************************************************************)
(* Proof that the settling loop keeps the promise of SettledWindow, for    *)
(* every library, catalog and timing: what stable_since and the previous_* *)
(* variables say is covered by the window of observations really made.     *)
(***************************************************************************)
EXTENDS SyncHistory, Sync_proofs

Windows == [shows : Contents, first : Nat, last : Nat]

WindowTypeOK ==
  /\ window \in Windows \union {None}
  /\ window # None => window.first <= window.last /\ window.last <= now

\* While stable_since is set, the window goes back at least that far and shows
\* what the previous pass showed.
SinceCovered ==
  stableSince # None =>
    /\ window # None
    /\ window.first <= stableSince /\ stableSince <= now
    /\ prevPrint # None /\ prevRev # None
    /\ window.shows = [revision |-> prevRev, snapshot |-> prevPrint]

\* A pass that awaits the second look at the head has a long enough window.
LongEnough ==
  pc = "confirm" => window # None /\ window.last - window.first >= Stable

\* SinceCovered does not hold from Settle to Confirm, when stable_since is
\* already that of this pass and the previous_* are still those of the last
\* one; a run that is over never catches up.
WindowInv ==
  /\ WindowTypeOK
  /\ pc \notin {"confirm", "done", "failed"} => SinceCovered
  /\ LongEnough
HInv == IInv /\ WindowInv

LEMMA HistoryInitInv == HistoryInit => HInv
<1> SUFFICES ASSUME HistoryInit PROVE HInv
  OBVIOUS
<1>1. IInv
  BY InitInv DEF HistoryInit
<1>2. WindowInv
  BY DEF HistoryInit, Init, WindowInv, WindowTypeOK, SinceCovered, LongEnough
<1>3. QED BY <1>1, <1>2 DEF HInv

\* Dropping the history variables, every step is one of Sync.
LEMMA HistoryStepIsStep == [HistoryNext]_historyVars => [Next]_vars
BY DEF HistoryNext, HistorySyncStep, HistoryEnvironment, HistoryTick, HistoryEnded,
       historyVars, Next

\* The pass that just settled extends the window as its observation says.
LEMMA SettleWindow ==
  ASSUME HInv, Settle, Record
  PROVE  WindowInv'
<1> USE DEF HInv, WindowInv
<1>1. /\ rev \in Nat /\ Fingerprint \in Fingerprints /\ now \in Nat
      /\ Stable \in Nat \ {0} /\ pc = "settle" /\ now' = now
      /\ stableSince \in Nat \union {None} /\ None \notin Nat /\ None \notin Fingerprints
  BY LibraryConstants, SnapshotConstants, SettlingTiming, SyncConstants
     DEF IInv, TypeOK, StoreTypeOK, Fingerprint, Fingerprints, Settle
<1> DEFINE shown == [revision |-> rev, snapshot |-> Fingerprint]
<1>2. window' = Settled!Extend(window, Observed)
  BY <1>1 DEF Record, Settle
<1>3. CASE updateCount # 0
  <2>1. window' = None /\ stableSince' = None /\ pc' = "delay"
    BY <1>1, <1>2, <1>3 DEF Settled!Extend, Observed, Settle, NewStableSince, MetadataWasStable,
                       StableLongEnough
  <2>2. QED BY <2>1 DEF WindowTypeOK, SinceCovered, LongEnough
<1>4. CASE updateCount = 0
  <2>1. Observed = [shows |-> shown, at |-> now] /\ shown \in Contents
    BY <1>1, <1>4 DEF Observed, Contents
  <2>2. Observed # None
    BY <1>1, <2>1, HistoryConstants
  <2>3. window' = [shows |-> shown,
                   first |-> IF window # None /\ window.shows = shown THEN window.first ELSE now,
                   last |-> now]
    BY <1>2, <2>1, <2>2 DEF Settled!Extend, Settled!Continues
  <2>4. window' \in Windows /\ window' # None /\ window'.first <= now
    BY <1>1, <2>1, <2>3, HistoryConstants DEF WindowTypeOK, Windows
  <2>5. WindowTypeOK'
    BY <1>1, <2>3, <2>4 DEF WindowTypeOK
  <2>6. CASE NewStableSince = None
    <3>1. stableSince' = None /\ pc' = "delay"
      BY <2>6 DEF Settle, StableLongEnough
    <3>2. QED BY <2>5, <3>1 DEF SinceCovered, LongEnough
  <2>7. CASE NewStableSince # None /\ NewStableSince = now
    <3>1. stableSince' = now /\ pc' = "delay" /\ prevPrint' = Fingerprint /\ prevRev' = rev
      BY <1>1, <2>7 DEF Settle, StableLongEnough, Remember
    <3>2. QED BY <1>1, <2>3, <2>4, <2>5, <3>1 DEF SinceCovered, LongEnough
  <2>8. CASE NewStableSince # None /\ NewStableSince # now
    <3>1. stableSince # None /\ NewStableSince = stableSince /\ ~SnapshotChanged /\ ~RevisionChanged
      BY <2>8 DEF NewStableSince
    <3>2. /\ window # None /\ window.shows = shown
          /\ window.first <= stableSince /\ stableSince <= now
      BY <1>1, <3>1 DEF SinceCovered, SnapshotChanged, RevisionChanged
    <3>3. window'.first <= stableSince /\ window'.last = now /\ window'.shows = shown
      BY <2>3, <3>2
    <3>4. CASE pc' = "confirm"
      <4>1. now - stableSince >= Stable
        BY <3>1, <3>4 DEF Settle, StableLongEnough
      <4>2. window'.last - window'.first >= Stable
        BY <1>1, <2>4, <3>1, <3>3, <4>1 DEF Windows
      <4>3. QED BY <2>4, <2>5, <3>4, <4>2 DEF LongEnough
    <3>5. CASE pc' # "confirm"
      <4>1. stableSince' = stableSince /\ prevPrint' = Fingerprint /\ prevRev' = rev
        BY <3>1, <3>5 DEF Settle, Remember
      <4>2. QED BY <1>1, <2>4, <2>5, <3>2, <3>3, <3>5, <4>1 DEF SinceCovered, LongEnough
    <3>6. QED BY <3>4, <3>5
  <2>9. QED BY <2>6, <2>7, <2>8
<1>5. QED BY <1>3, <1>4

\* Every other step of the synchronizer either forgets the window or keeps it.
LEMMA OtherStepWindow ==
  ASSUME HInv, SyncStep, ~Settle, Record
  PROVE  WindowInv'
<1> USE DEF HInv, WindowInv
<1>1. CASE Forget
  <2>1. window' = None /\ stableSince' = None /\ pc' = "delay"
    BY <1>1 DEF Forget, Record
  <2>2. QED BY <2>1 DEF WindowTypeOK, SinceCovered, LongEnough
<1>2. CASE ~Forget
  <2>1. now' = now /\ (pc' = "confirm" => FALSE)
    BY <1>2 DEF SyncStep, LoopStep, PassStep, Scan, Analyze, ScanFails, Confirm, Delay, Wake,
         DeadlineExpired, StartPass, NoCatalog, CollectBookPage, RejectBookPage,
         RevisionNotFound, EndBooks, CollectSeriesPage, RejectSeriesPage, EndSeries,
         RequestFails, CatalogFails, CheckHead, PatchDone, PatchBatch, PatchBatchLeavesLate, PatchBatchFails
  <2>2. window' = window
    <3>1. pc # "incomplete" /\ (pc = "settle" => pc' = "failed")
      BY <1>2 DEF SyncStep, LoopStep, PassStep, Scan, Analyze, ScanFails, Confirm, Delay, Wake,
           DeadlineExpired, ChecksDeadline, StartPass, NoCatalog, CollectBookPage,
           RejectBookPage, RevisionNotFound, EndBooks, CollectSeriesPage, RejectSeriesPage,
           EndSeries, RequestFails, CatalogFails, CheckHead, PatchDone, PatchBatch, PatchBatchLeavesLate,
           PatchBatchFails
    <3>2. QED BY <3>1 DEF Record
  <2>3. WindowTypeOK'
    BY <2>1, <2>2 DEF WindowTypeOK
  <2>4. CASE Confirm /\ pc' # "done"
    BY <2>1, <2>3, <2>4 DEF Confirm, SinceCovered, LongEnough
  <2>5. CASE Confirm /\ pc' = "done"
    BY <2>1, <2>3, <2>5 DEF Confirm, SinceCovered, LongEnough
  <2>6. CASE CatalogFails
    BY <2>1, <2>3, <2>6 DEF CatalogFails, LongEnough
  <2>7. CASE ~Confirm /\ ~CatalogFails
    <3>1. UNCHANGED <<prevPrint, prevRev, stableSince>> /\ pc \notin {"confirm", "done", "failed"}
      BY <1>2, <2>7 DEF SyncStep, LoopStep, PassStep, Scan, Analyze, ScanFails, Delay, Wake,
           DeadlineExpired, ChecksDeadline, StartPass, NoCatalog, CollectBookPage,
           RejectBookPage, RevisionNotFound, EndBooks, CollectSeriesPage, RejectSeriesPage,
           EndSeries, RequestFails, CheckHead, PatchDone, PatchBatch, PatchBatchLeavesLate,
           PatchBatchFails, loopVars
    <3>2. QED BY <2>1, <2>2, <2>3, <3>1 DEF SinceCovered, LongEnough
  <2>8. QED BY <2>4, <2>5, <2>6, <2>7
<1>3. QED BY <1>1, <1>2

LEMMA HistoryNextInv == HInv /\ [HistoryNext]_historyVars => HInv'
<1> SUFFICES ASSUME HInv, [HistoryNext]_historyVars PROVE HInv'
  OBVIOUS
<1>1. IInv'
  BY HistoryStepIsStep, NextInv DEF HInv
<1>2. CASE HistorySyncStep
  BY <1>1, <1>2, SettleWindow, OtherStepWindow DEF HistorySyncStep, HInv
<1>3. CASE HistoryTick
  <2>1. now' = now + 1 /\ UNCHANGED <<pc, loopVars, window>> /\ now \in Nat
    BY <1>3, SnapshotConstants DEF HistoryTick, Tick, HInv, IInv, TypeOK, StoreTypeOK
  <2>2. stableSince \in Nat \union {None}
    BY DEF HInv, IInv, TypeOK
  <2>3. window # None => window.last \in Nat
    BY DEF HInv, WindowInv, WindowTypeOK, Windows
  <2>4. WindowInv'
    BY <2>1, <2>2, <2>3 DEF HInv, WindowInv, WindowTypeOK, SinceCovered, LongEnough, loopVars
  <2>5. QED BY <1>1, <2>4 DEF HInv
<1>4. CASE HistoryEnvironment \/ HistoryEnded \/ UNCHANGED historyVars
  <2>1. UNCHANGED <<now, pc, loopVars, window>>
    BY <1>4 DEF HistoryEnvironment, Environment, HistoryEnded, Ended, historyVars, vars
  <2>2. WindowInv'
    BY <2>1 DEF HInv, WindowInv, WindowTypeOK, SinceCovered, LongEnough, loopVars
  <2>3. QED BY <1>1, <2>2 DEF HInv
<1>5. QED BY <1>2, <1>3, <1>4 DEF HistoryNext

LEMMA HistoryInvariance == HistorySpec => []HInv
BY HistoryInitInv, HistoryNextInv, PTL DEF HistorySpec

-----------------------------------------------------------------------------
(* The refinement.                                                         *)

LEMMA RefinesInit == HistoryInit => Settled!Init
BY DEF HistoryInit, Init, Settled!Init, Outcome

\* A step to "done" is a success over the window, one to "failed" a failure,
\* and a pass that ends in anything else an observation.
LEMMA RefinesNext ==
  HInv /\ [HistoryNext]_historyVars => [Settled!Next]_<<window, Outcome>>
<1> SUFFICES ASSUME HInv, [HistoryNext]_historyVars
             PROVE  [Settled!Next]_<<window, Outcome>>
  OBVIOUS
<1>1. CASE HistorySyncStep /\ Settle
  <2>1. Outcome = "running" /\ Outcome' = Outcome
    BY <1>1 DEF Settle, Outcome
  <2>2. window' = Settled!Extend(window, Observed)
    BY <1>1 DEF HistorySyncStep, Record, Settle
  <2>3. CASE Observed = None
    BY <2>1, <2>2, <2>3 DEF Settled!Extend, Settled!Next, Settled!ObserveUnclear
  <2>4. CASE Observed # None
    <3>1. Observed = [shows |-> [revision |-> rev, snapshot |-> Fingerprint], at |-> now]
      BY <2>4 DEF Observed
    <3>2. window' # None
      <4>1. WindowTypeOK' /\ updateCount = 0 /\ rev \in Nat /\ Fingerprint \in Fingerprints
            /\ now \in Nat /\ WindowTypeOK
        BY <1>1, <2>4, HistoryNextInv, LibraryConstants, SnapshotConstants
           DEF HInv, WindowInv, Observed, IInv, TypeOK, StoreTypeOK, Fingerprint, Fingerprints
      <4>2. window' \in Windows
        BY <2>2, <2>4, <3>1, <4>1 DEF Settled!Extend, Settled!Continues, Windows, Contents,
                                      WindowTypeOK
      <4>3. QED BY <4>2, HistoryConstants DEF Windows
    <3>3. window'.shows = Observed.shows /\ window'.last = Observed.at
      BY <2>2, <2>4 DEF Settled!Extend
    <3>4. Settled!Latest(window') = Observed
      BY <3>1, <3>3 DEF Settled!Latest
    <3>5. QED BY <2>1, <2>2, <3>2, <3>4 DEF Settled!Next, Settled!ObserveClean
  <2>5. QED BY <2>3, <2>4
<1>2. CASE HistorySyncStep /\ Forget
  BY <1>2 DEF HistorySyncStep, Record, Forget, Outcome, Settled!Next, Settled!ObserveUnclear
<1>3. CASE HistorySyncStep /\ Confirm
  BY <1>3 DEF HistorySyncStep, Record, Confirm, Outcome, HInv, WindowInv, LongEnough,
              Settled!Next, Settled!Succeed
<1>4. CASE HistorySyncStep /\ ~Settle /\ ~Forget /\ ~Confirm
  <2>1. /\ pc \notin {"incomplete", "done", "failed"} /\ pc' # "done"
        /\ pc = "settle" => pc' = "failed"
    BY <1>4 DEF HistorySyncStep, SyncStep, LoopStep, PassStep, Scan, Analyze, ScanFails, Delay,
         Wake, DeadlineExpired, ChecksDeadline, StartPass, NoCatalog, CollectBookPage,
         RejectBookPage, RevisionNotFound, EndBooks, CollectSeriesPage, RejectSeriesPage,
         EndSeries, RequestFails, CatalogFails, CheckHead, PatchDone, PatchBatch, PatchBatchLeavesLate,
         PatchBatchFails
  <2>2. window' = window
    BY <1>4, <2>1 DEF HistorySyncStep, Record
  <2>3. Outcome = "running" /\ Outcome' \in {"running", "failure"}
    BY <2>1 DEF Outcome
  <2>4. QED BY <2>2, <2>3 DEF Settled!Next, Settled!Fail
<1>5. CASE HistoryEnvironment \/ HistoryTick \/ HistoryEnded \/ UNCHANGED historyVars
  BY <1>5 DEF HistoryEnvironment, Environment, HistoryTick, Tick, HistoryEnded, Ended,
              historyVars, vars, Outcome
<1>6. QED BY <1>1, <1>2, <1>3, <1>4, <1>5 DEF HistoryNext

\* The settling loop implements SettledWindow: success is only ever declared
\* over an unbroken run of equal, clean observations of one revision that spans
\* the stable observation time.
THEOREM SettlingIsSound == HistorySpec => ImplementsSettledWindow
<1>1. HistoryInit /\ [][HistoryNext]_historyVars /\ []HInv
        => Settled!Init /\ [][Settled!Next]_<<window, Outcome>>
  BY RefinesInit, RefinesNext, PTL
<1>2. QED
  BY <1>1, HistoryInvariance, PTL DEF HistorySpec, ImplementsSettledWindow, Settled!Spec
=============================================================================
