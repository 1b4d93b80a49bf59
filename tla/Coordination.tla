---------------------------- MODULE Coordination ----------------------------
(***************************************************************************)
(* LibraryReadCoordinator.read(), as any number of syncs execute it, next  *)
(* to ingest, which switches the library over under the exclusive lock.    *)
(* Locks belong to open descriptors: closing one, or the death of its      *)
(* process, releases the lock.  publication.lock is never replaced.        *)
(***************************************************************************)
CONSTANT Readers   \* the processes that run a sync

VARIABLES
  pc,         \* where each sync is in read()
  open,       \* its descriptors, out of "dir" and "lock"
  raised,     \* the exception that is leaving its read(), or "none"
  shared,     \* the syncs that hold the shared lock
  exclusive,  \* ingest holds the exclusive lock
  marker,     \* the file ACTIVATING exists
  library     \* "whole", or "half" switched over

readerVars == <<pc, open, raised, shared>>
ingestVars == <<exclusive, marker, library>>
vars == <<readerVars, ingestVars>>

Init ==
  /\ pc = [r \in Readers |-> "outside"]
  /\ open = [r \in Readers |-> {}]
  /\ raised = [r \in Readers |-> "none"]
  /\ shared = {}
  /\ exclusive = FALSE
  /\ \/ marker = FALSE /\ library = "whole"
     \/ marker = TRUE /\ library \in {"whole", "half"}

-----------------------------------------------------------------------------
(* read(), from its first line to the body and out of the finally clauses. *)

Step(r, from, to) == pc[r] = from /\ pc' = [pc EXCEPT ![r] = to]

\* raise LibraryUnavailable
Refuse(r, from) ==
  /\ Step(r, from, "leaving")
  /\ raised' = [raised EXCEPT ![r] = "unavailable"]
  /\ UNCHANGED <<open, shared>>

OpenDirectory(r) ==
  \/ /\ Step(r, "outside", "dirOpen")
     /\ open' = [open EXCEPT ![r] = {"dir"}]
     /\ UNCHANGED <<raised, shared>>
  \/ Refuse(r, "outside")

\* Mutation of OpenLock: without O_NONBLOCK the open of a FIFO does not return.
OpenLockBlocking(r) ==
  /\ \/ Step(r, "dirOpen", "lockOpen") /\ open' = [open EXCEPT ![r] = {"dir", "lock"}]
     \/ Step(r, "dirOpen", "blocked") /\ UNCHANGED open
  /\ UNCHANGED <<raised, shared>>

\* The leaf may be missing or a symlink, which fails the open, or no regular
\* file, which is closed again; O_NONBLOCK keeps a FIFO from blocking.
OpenLock(r) ==
  \E leaf \in {"regular", "special", "none"} :
    IF leaf = "regular"
    THEN /\ Step(r, "dirOpen", "lockOpen")
         /\ open' = [open EXCEPT ![r] = {"dir", "lock"}]
         /\ UNCHANGED <<raised, shared>>
    ELSE Refuse(r, "dirOpen")

\* Mutation of TakeShared: without LOCK_NB.
TakeSharedWaiting(r) ==
  /\ Step(r, "lockOpen", "locked")
  /\ ~exclusive
  /\ shared' = shared \union {r}
  /\ UNCHANGED <<open, raised>>

\* LOCK_SH | LOCK_NB
TakeShared(r) ==
  \/ /\ Step(r, "lockOpen", "locked")
     /\ ~exclusive
     /\ shared' = shared \union {r}
     /\ UNCHANGED <<open, raised>>
  \/ Refuse(r, "lockOpen")

\* Mutations of CheckMarker: the lock alone is trusted; it is closed once taken.
CheckNothing(r) == Step(r, "locked", "reading") /\ UNCHANGED <<open, raised, shared>>
CheckMarkerAndClose(r) ==
  /\ ~marker /\ Step(r, "locked", "reading")
  /\ open' = [open EXCEPT ![r] = {}] /\ shared' = shared \ {r}
  /\ UNCHANGED raised

\* A marker that cannot be looked up counts as one that is there.
CheckMarker(r) ==
  \/ ~marker /\ Step(r, "locked", "reading") /\ UNCHANGED <<open, raised, shared>>
  \/ Refuse(r, "locked")

Body(r, exception) ==
  /\ Step(r, "reading", "leaving")
  /\ raised' = [raised EXCEPT ![r] = exception]
  /\ UNCHANGED <<open, shared>>

\* Mutation of Unlock: no finally around LOCK_UN.
UnlockUnguarded(r) ==
  \/ Step(r, "leaving", "unlocked") /\ shared' = shared \ {r} /\ UNCHANGED <<open, raised>>
  \/ /\ Step(r, "leaving", "ended") /\ r \in shared
     /\ raised' = [raised EXCEPT ![r] = "oserror"]
     /\ UNCHANGED <<open, shared>>

\* LOCK_UN; when it fails, the descriptors are closed all the same.
Unlock(r) ==
  /\ Step(r, "leaving", "unlocked")
  /\ UNCHANGED open
  /\ \/ shared' = shared \ {r} /\ UNCHANGED raised
     \/ r \in shared /\ raised' = [raised EXCEPT ![r] = "oserror"] /\ UNCHANGED shared

\* A failing close of the lock leaves the directory open; one of the directory
\* comes after that of the lock.
CloseAll(r) ==
  /\ Step(r, "unlocked", "ended")
  /\ shared' = shared \ {r}
  /\ \/ open' = [open EXCEPT ![r] = {}] /\ UNCHANGED raised
     \/ /\ \E d \in open[r] :
             open' = [open EXCEPT ![r] = IF d = "lock" THEN @ \ {d} ELSE {}]
        /\ raised' = [raised EXCEPT ![r] = "oserror"]

\* The process is killed: the kernel closes its descriptors.
Die(r) ==
  /\ pc' = [pc EXCEPT ![r] = "ended"]
  /\ open' = [open EXCEPT ![r] = {}]
  /\ raised' = [raised EXCEPT ![r] = "killed"]
  /\ shared' = shared \ {r}

Admit(r) == OpenDirectory(r) \/ OpenLock(r) \/ TakeShared(r) \/ CheckMarker(r)
Leave(r) == Unlock(r) \/ CloseAll(r)

ReaderNext(r) ==
  \/ Admit(r)
  \/ \E e \in {"none", "failed", "timeout"} : Body(r, e)
  \/ Leave(r)
  \/ Die(r)

-----------------------------------------------------------------------------
(* Ingest, external: it may crash anywhere and takes up what it left.       *)

Exclude == ~exclusive /\ shared = {} /\ exclusive' = TRUE /\ UNCHANGED <<marker, library>>
Mark == exclusive /\ marker' = TRUE /\ UNCHANGED <<exclusive, library>>
Switch == exclusive /\ marker /\ library' = "half" /\ UNCHANGED <<exclusive, marker>>
Complete == exclusive /\ marker /\ library' = "whole" /\ UNCHANGED <<exclusive, marker>>
Unmark ==
  exclusive /\ library = "whole" /\ marker' = FALSE /\ UNCHANGED <<exclusive, library>>
\* Done, or dead.
LetGo == exclusive /\ exclusive' = FALSE /\ UNCHANGED <<marker, library>>

IngestNext == Exclude \/ Mark \/ Switch \/ Complete \/ Unmark \/ LetGo

-----------------------------------------------------------------------------
Next ==
  \/ \E r \in Readers : ReaderNext(r) /\ UNCHANGED ingestVars
  \/ IngestNext /\ UNCHANGED readerVars

\* read() itself waits for nobody; how long its body takes is up to the body.
Fairness ==
  \A r \in Readers : WF_vars((Admit(r) \/ Leave(r)) /\ UNCHANGED ingestVars)

Spec == Init /\ [][Next]_vars /\ Fairness

-----------------------------------------------------------------------------
(* Properties.                                                             *)

TypeOK ==
  /\ pc \in [Readers -> {"outside", "dirOpen", "lockOpen", "locked", "reading",
                         "leaving", "unlocked", "ended"}]
  /\ open \in [Readers -> SUBSET {"dir", "lock"}]
  /\ raised \in [Readers -> {"none", "unavailable", "failed", "timeout",
                           "oserror", "killed"}]
  /\ shared \subseteq Readers
  /\ exclusive \in BOOLEAN /\ marker \in BOOLEAN
  /\ library \in {"whole", "half"}

\* A sync is never let in while the library is half switched over, neither
\* beside an activation nor after one that crashed: the lock is taken first and
\* the marker is looked for under it (read, lines 87-98).
ReadsWholeLibrary == \A r \in Readers : pc[r] = "reading" => library = "whole"

\* However read() is left, refused, failed, unlocked or not, its lock is free
\* afterwards, and so are its descriptors unless closing one of them failed.
LockIsReturned ==
  \A r \in Readers : pc[r] = "ended" =>
    /\ r \notin shared /\ "lock" \notin open[r]
    /\ raised[r] # "oserror" => open[r] = {}

\* A sync on its way in is let in or turned away, whatever ingest does, even if
\* it never lets go of its lock (LOCK_NB, O_NONBLOCK).
NobodyWaits ==
  \A r \in Readers : pc[r] = "dirOpen" ~> pc[r] \in {"reading", "ended"}

Access == INSTANCE LibraryAccess WITH
  reading <- {r \in Readers : pc[r] = "reading"},
  activating <- library = "half"

\* The lock and the marker together are the access rule of LibraryAccess: the
\* library does not change under a sync, and nobody is let in before it is whole.
ImplementsAccess == Access!Init /\ [][Access!Next]_Access!vars

=============================================================================
