-------------------------------- MODULE Sync --------------------------------
(***************************************************************************)
(* The settling loop, _sync_komga_library of sync.py: request a scan, then *)
(* repeat whole passes (Snapshot) until consecutive passes have seen the   *)
(* same clean snapshot of the same revision for Stable ticks, or the       *)
(* deadline passes.                                                        *)
(***************************************************************************)
EXTENDS Snapshot

CONSTANTS
  None,        \* Python's None
  Poll,        \* poll_interval_seconds
  Stable,      \* stable_observation_seconds
  SlowCalls    \* TRUE: the clock may move during any step, not only in sleeps

\* _validate_settling_timing
ASSUME SettlingTiming ==
  /\ Poll \in Nat \ {0}
  /\ Stable \in Nat \ {0}
  /\ Timeout > Stable

ASSUME SyncConstants ==
  /\ None \notin Nat
  /\ None \notin [books : SUBSET BookRecords, series : SUBSET SeriesIds]
  /\ SlowCalls \in BOOLEAN

VARIABLES
  prevPrint,    \* previous_fingerprint
  prevRev,      \* previous_catalog_revision
  stableSince,  \* stable_since
  wakeAt        \* when the running sleep_for is over

loopVars == <<prevPrint, prevRev, stableSince, wakeAt>>
vars == <<now, pc, passVars, loopVars, externalVars>>

Fingerprints == [books : SUBSET BookRecords, series : SUBSET SeriesIds]

Locations ==
  {"scan", "analyze", "poll", "books", "series", "headCheck", "patch",
   "settle", "confirm", "incomplete", "delay", "sleeping", "done", "failed"}

TypeOK ==
  /\ LibraryTypeOK
  /\ StoreTypeOK
  /\ pc \in Locations
  /\ prevPrint \in Fingerprints \union {None}
  /\ prevRev \in Nat \union {None}
  /\ stableSince \in Nat \union {None}
  /\ wakeAt \in Nat

\* trigger_scan decides whether the run begins with the scan request.
Init ==
  /\ LibraryInit
  /\ StoreInit
  /\ pc \in {"scan", "poll"}
  /\ prevPrint = None /\ prevRev = None /\ stableSince = None
  /\ wakeAt = 0

Running == pc \notin {"done", "failed"}

-----------------------------------------------------------------------------
Scan ==
  /\ pc = "scan" /\ InTime
  /\ pc' = "analyze"
  /\ UNCHANGED <<now, passVars, loopVars, externalVars>>

Analyze ==
  /\ pc = "analyze" /\ InTime
  /\ pc' = "poll"
  /\ UNCHANGED <<now, passVars, loopVars, externalVars>>

\* Nothing catches a RequestException of the scan or analyze request.
ScanFails ==
  /\ pc \in {"scan", "analyze"} /\ InTime
  /\ Trouble
  /\ pc' = "failed"
  /\ UNCHANGED <<now, passVars, loopVars, books, series, meta, late, head>>

SnapshotChanged == prevPrint # None /\ prevPrint # Fingerprint
RevisionChanged == prevRev # None /\ prevRev # rev

\* Mutation of MetadataWasStable: a pass that wrote updates counts as clean.
AnyPassIsStable == TRUE

\* update_count == 0, computed before the updates are sent.
MetadataWasStable == updateCount = 0

\* Mutation of NewStableSince: a changed snapshot does not restart the window.
SinceFirstClean ==
  IF MetadataWasStable /\ ~RevisionChanged
    THEN IF stableSince = None THEN now ELSE stableSince
    ELSE None

\* Mutation of NewStableSince: every clean pass restarts the window.
SinceLastClean == IF MetadataWasStable /\ ~RevisionChanged THEN now ELSE None

\* stable_since after a pass that ended at now.
NewStableSince ==
  IF MetadataWasStable /\ ~RevisionChanged
    THEN IF stableSince = None \/ SnapshotChanged THEN now ELSE stableSince
    ELSE None

StableLongEnough(since) == since # None /\ now - since >= Stable

Remember == prevPrint' = Fingerprint /\ prevRev' = rev

\* A pass came through: observed_at is read and the window brought up to date.
Settle ==
  /\ pc = "settle" /\ InTime
  /\ stableSince' = NewStableSince
  /\ IF StableLongEnough(NewStableSince)
       THEN pc' = "confirm" /\ UNCHANGED <<prevPrint, prevRev>>
       ELSE pc' = "delay" /\ Remember
  /\ UNCHANGED <<now, passVars, wakeAt, externalVars>>

\* Mutation of Confirm: the head is not looked at again.
ConfirmBlindly ==
  /\ pc = "confirm"
  /\ pc' = "done"
  /\ UNCHANGED <<now, passVars, loopVars, externalVars>>

\* The second look at the catalog head decides whether this was the end.
Confirm ==
  /\ pc = "confirm"
  /\ IF head = rev
       THEN pc' = "done" /\ UNCHANGED <<prevPrint, prevRev, stableSince>>
       ELSE pc' = "delay" /\ stableSince' = None /\ Remember
  /\ UNCHANGED <<now, passVars, wakeAt, externalVars>>

\* Mutation of Forget: the window survives an incomplete observation.
ForgetPrintOnly ==
  /\ pc = "incomplete"
  /\ pc' = "delay"
  /\ prevPrint' = None /\ prevRev' = None
  /\ UNCHANGED <<now, passVars, stableSince, wakeAt, externalVars>>

\* Mutation of Forget: after an incomplete observation the next pass begins at once.
ForgetAndRetry ==
  /\ pc = "incomplete"
  /\ pc' = "poll"
  /\ prevPrint' = None /\ prevRev' = None /\ stableSince' = None
  /\ UNCHANGED <<now, passVars, wakeAt, externalVars>>

\* The handlers of the exceptions that make an observation incomplete.
Forget ==
  /\ pc = "incomplete"
  /\ pc' = "delay"
  /\ prevPrint' = None /\ prevRev' = None /\ stableSince' = None
  /\ UNCHANGED <<now, passVars, wakeAt, externalVars>>

Delay ==
  /\ pc = "delay" /\ InTime
  /\ pc' = "sleeping"
  /\ wakeAt' = IF Poll < Timeout - now THEN now + Poll ELSE Timeout
  /\ UNCHANGED <<now, passVars, prevPrint, prevRev, stableSince, externalVars>>

Wake ==
  /\ pc = "sleeping" /\ now >= wakeAt
  /\ pc' = "poll"
  /\ UNCHANGED <<now, passVars, loopVars, externalVars>>

\* Where the code looks at the clock and raises TimeoutError.
ChecksDeadline ==
  \/ pc \in {"scan", "analyze", "poll", "books", "series", "settle", "delay"}
  \/ pc = "patch" /\ NextBatch # {}

DeadlineExpired ==
  /\ ChecksDeadline /\ now >= Timeout
  /\ pc' = "failed"
  /\ UNCHANGED <<now, passVars, loopVars, externalVars>>

LoopStep ==
  \/ Scan \/ Analyze \/ ScanFails
  \/ Settle \/ Confirm \/ Forget \/ Delay \/ Wake
  \/ DeadlineExpired

SyncStep == LoopStep \/ (PassStep /\ UNCHANGED loopVars)

-----------------------------------------------------------------------------
\* Time passes in sleeps and, with SlowCalls, during any request.
Tick ==
  /\ Running /\ now < Timeout
  /\ SlowCalls \/ (pc = "sleeping" /\ now < wakeAt)
  /\ now' = now + 1
  /\ UNCHANGED <<pc, passVars, loopVars, externalVars>>

\* The outside is of interest while the run lasts.
Environment ==
  /\ Running /\ now <= QuietBy
  /\ Interfere
  /\ UNCHANGED <<now, pc, passVars, loopVars>>

Ended == ~Running /\ UNCHANGED vars

Next == SyncStep \/ Environment \/ Tick \/ Ended

Fairness == WF_vars(SyncStep) /\ WF_vars(Tick)

Spec == Init /\ [][Next]_vars /\ Fairness

-----------------------------------------------------------------------------
(* Properties.                                                             *)

\* Where the code has counted the books, and the series too.
BooksCounted == pc \in {"series", "headCheck", "patch", "settle", "confirm", "done"}
AllCounted == pc \in {"headCheck", "patch", "settle", "confirm", "done"}

\* From the moment both paginations were accepted, and therefore whenever a
\* PATCH is sent, what was collected over the pages is one book for every
\* artifact of the pinned revision, none twice, each with a One-Shot series of
\* its own, though no set of all names or series is ever compared: the code
\* only checks pages and counts (sync.py, _reconcile_exact_snapshot).
ExactBeforePatch ==
  AllCounted =>
    /\ {b.name : b \in rows} = Published[rev]
    /\ \A b, c \in rows : b.name = c.name \/ b.series = c.series => b = c
    /\ \A b \in rows : b.valid
    /\ seriesRows = {b.series : b \in rows}
    /\ seriesRows \cap BadSeries = {}

\* A pagination asks for at most one page more than the revision has
\* artifacts, however the listings grow, shrink or shift while it runs: the
\* code has no page total to stop at (the while True loops of sync.py,
\* _reconcile_exact_snapshot), only what every page must add and the counts.
PagesBounded == pc \in {"books", "series"} => page <= ArtifactCount(rev)

\* How many stages the loop is away from its next sleep, or from its end.
StagesLeft ==
  CASE pc = "scan" -> 10
    [] pc = "analyze" -> 9
    [] pc = "poll" -> 8
    [] pc = "books" -> 7
    [] pc = "series" -> 6
    [] pc = "headCheck" -> 5
    [] pc = "patch" -> 4
    [] pc = "settle" -> 3
    [] pc \in {"confirm", "incomplete"} -> 2
    [] pc = "delay" -> 1
    [] OTHER -> 0

\* The loop never spins: whatever a pass runs into, it comes to its sleep in a
\* finite number of steps - stages only go forward, paginations count up (see
\* PagesBounded), batches use up the pending updates - and the next pass waits
\* for the end of that sleep, which is later than its beginning.  This goes for
\* the handlers of sync.py:842-858 as well as for a changed library.
LoopAdvances ==
  [][/\ \/ UNCHANGED <<pc, passVars, loopVars>>
        \/ StagesLeft' < StagesLeft
        \/ pc \in {"books", "series"} /\ pc' = pc /\ page' = page + 1
        \/ pc = "patch" /\ pc' = pc /\ Unsent' \subseteq Unsent /\ Unsent' # Unsent
        \/ pc = "sleeping" /\ pc' = "poll" /\ now >= wakeAt
     /\ pc' = "sleeping" /\ pc # "sleeping" => wakeAt' > now']_vars
=============================================================================
