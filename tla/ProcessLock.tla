----------------------------- MODULE ProcessLock -----------------------------
(***************************************************************************)
(* The interprocess lock of slhwid/_store.py: a marker file created with   *)
(* O_EXCL, its contents written after it exists, removed by whoever finds  *)
(* in it what it expects.  One step is one system call on the marker, so   *)
(* that a read and the unlink that relies on it are apart.                 *)
(***************************************************************************)
EXTENDS Naturals, FiniteSets

CONSTANTS
  Processes,
  Tokens,      \* values of secrets.token_hex(16); as many as are told apart at once
  Nothing,     \* no marker file; nothing read from it
  Faults,      \* what may go wrong, see FaultKinds
  MaxCrashes,  \* bound: processes that die
  MaxRefusals  \* bound: system calls on the marker that fail

(***************************************************************************)
(*   crash    a process dies between two steps or exits,                   *)
(*   refused  a system call on the marker raises an OSError although the   *)
(*            file is there: no space for its contents, a descriptor or    *)
(*            permission denied, on Windows an unlink while another        *)
(*            process has the file open to read it,                        *)
(*   late     more than the grace period passes, on the clock that is      *)
(*            compared, between creating the marker and writing it: the    *)
(*            process is suspended, or the clock is set.                   *)
(* A restarted application is another process.                             *)
(***************************************************************************)
FaultKinds == {"crash", "refused", "late"}

ASSUME LockAssumption ==
  /\ Faults \subseteq FaultKinds /\ MaxCrashes \in Nat /\ MaxRefusals \in Nat
  /\ Nothing \notin [owner : Processes, token : Tokens, written : BOOLEAN, old : BOOLEAN]

VARIABLES
  marker,   \* the marker file: its creator and token, and whether they are written yet
  pc,
  token,    \* contents of the current attempt
  seen,     \* what _read_lock returned
  refusals, \* system calls that failed
  raced     \* history: two processes were recovering a marker at once, or an empty
            \* marker grew old while its creator was still to write it

vars == <<marker, pc, token, seen, refusals, raced>>

Marker == [owner : Processes, token : Tokens, written : BOOLEAN, old : BOOLEAN]
Pcs == {"idle", "create", "write", "read", "judge", "compare", "unlink",
        "held", "rel_compare", "rel_unlink", "dead"}

Init ==
  /\ marker = Nothing
  /\ pc = [p \in Processes |-> "idle"]
  /\ token \in [Processes -> Tokens]
  /\ seen = [p \in Processes |-> Nothing]
  /\ refusals = 0
  /\ raced = FALSE

\* The steps between judging a marker stale and having removed it.
Recovering == {"compare", "unlink"}

Goto(p, from, to) == pc[p] = from /\ pc' = [pc EXCEPT ![p] = to]

\* The marker that p created in its current attempt.
IsMine(p, m) == m # Nothing /\ m.owner = p /\ m.token = token[p]

\* The attempt that created m is over, and did not remove it.
Abandoned(m) ==
  \/ pc[m.owner] \notin {"write", "held", "rel_compare", "rel_unlink"}
  \/ token[m.owner] # m.token

NoteRace ==
  raced' = \/ raced
           \/ \E p, q \in Processes : p # q /\ {pc'[p], pc'[q]} \subseteq Recovering
           \/ marker' # Nothing /\ marker'.old /\ ~Abandoned(marker)'

\* Equality of contents: every unwritten marker reads as the empty string.
SameContents(m, n) ==
  /\ m # Nothing /\ n # Nothing /\ m.written = n.written
  /\ m.written => m.owner = n.owner /\ m.token = n.token

\* A token nobody will mistake for another one.
Unused(p, k) ==
  \A m \in {marker} \cup {seen[q] : q \in Processes} : m # Nothing => ~(m.owner = p /\ m.token = k)

MayCrash == "crash" \in Faults /\ Cardinality({p \in Processes : pc[p] = "dead"}) < MaxCrashes

\* The system call that p is about to make fails; the marker stays as it is.
Refused(p, from, to) ==
  /\ "refused" \in Faults /\ refusals < MaxRefusals
  /\ Goto(p, from, to)
  /\ seen' = [seen EXCEPT ![p] = Nothing]
  /\ refusals' = refusals + 1
  /\ UNCHANGED <<marker, token>>

-----------------------------------------------------------------------------
(* _acquire_lock                                                           *)

\* Mutant: the attempt has no token.
StartsBare(p) ==
  /\ Goto(p, "idle", "create")
  /\ token' = [token EXCEPT ![p] = Nothing]
  /\ UNCHANGED <<marker, seen>>

Start(p) ==
  /\ Goto(p, "idle", "create")
  /\ \E k \in Tokens : Unused(p, k) /\ token' = [token EXCEPT ![p] = k]
  /\ UNCHANGED <<marker, seen>>

\* Mutant: no O_EXCL.
CreatesAnyway(p) ==
  /\ Goto(p, "create", "write")
  /\ marker' = [owner |-> p, token |-> token[p], written |-> FALSE, old |-> FALSE]
  /\ UNCHANGED <<token, seen>>

Create(p) ==
  /\ marker = Nothing
  /\ Goto(p, "create", "write")
  /\ marker' = [owner |-> p, token |-> token[p], written |-> FALSE, old |-> FALSE]
  /\ UNCHANGED <<token, seen>>

CreateFails(p) ==
  /\ marker # Nothing
  /\ Goto(p, "create", "read")
  /\ UNCHANGED <<marker, token, seen>>

\* The OSError of os.open reaches the application.
OpenFails(p) == Refused(p, "create", "idle")

\* The descriptor keeps pointing at the file p created, also when that file
\* has been unlinked meanwhile: then nothing at the path changes.
Write(p) ==
  /\ Goto(p, "write", "held")
  /\ marker' = IF IsMine(p, marker) THEN [marker EXCEPT !.written = TRUE, !.old = FALSE]
                                   ELSE marker
  /\ UNCHANGED <<token, seen>>

\* The application gets the OSError, the marker stays behind empty.
WriteFails(p) == Refused(p, "write", "idle")

\* _read_lock
Read(p) ==
  /\ Goto(p, "read", "judge")
  /\ seen' = [seen EXCEPT ![p] = marker]
  /\ UNCHANGED <<marker, token>>

\* (None, None): nothing that could be judged stale.
ReadFails(p) == Refused(p, "read", "judge")

\* Mutant: no grace period.
StaleUnlessWritten(m) == m # Nothing /\ (m.written => pc[m.owner] = "dead")

\* Mutant: only what holds no process id can be stale.
StaleUnlessOwned(m) == m # Nothing /\ ~m.written /\ marker # Nothing /\ marker.old

\* A written marker is stale when its process is gone; one that is not, when
\* the file now at the path is older than the grace period.
Stale(m) ==
  /\ m # Nothing
  /\ IF m.written THEN pc[m.owner] = "dead" ELSE marker # Nothing /\ marker.old

JudgedStale(p) ==
  /\ Stale(seen[p])
  /\ Goto(p, "judge", "compare")
  /\ UNCHANGED <<marker, token, seen>>

\* Not stale: sleep and retry, or raise once _LOCK_WAIT_SECONDS are over.
JudgedBusy(p) ==
  /\ ~Stale(seen[p])
  /\ Goto(p, "judge", "create") \/ Goto(p, "judge", "idle")
  /\ seen' = [seen EXCEPT ![p] = Nothing]
  /\ UNCHANGED <<marker, token>>

\* The age of an empty marker cannot be read: not stale.
StatFails(p) ==
  /\ seen[p] # Nothing /\ ~seen[p].written
  /\ Refused(p, "judge", "create") \/ Refused(p, "judge", "idle")

\* _remove_if_unchanged(path, expected), then `continue`
Compare(p) ==
  /\ Goto(p, "compare", IF SameContents(marker, seen[p]) THEN "unlink" ELSE "create")
  /\ seen' = [seen EXCEPT ![p] = Nothing]
  /\ UNCHANGED <<marker, token>>

Unlink(p) ==
  /\ Goto(p, "unlink", "create")
  /\ marker' = Nothing
  /\ UNCHANGED <<token, seen>>

\* Either OSError is swallowed, and `continue` tries again at once: no sleep, no
\* look at the deadline.
CompareFails(p) == Refused(p, "compare", "create")
UnlinkFails(p)  == Refused(p, "unlink", "create")

-----------------------------------------------------------------------------
(* The release closure: _remove_if_unchanged(path, contents)               *)

Leave(p) ==
  /\ Goto(p, "held", "rel_compare")
  /\ UNCHANGED <<marker, token, seen>>

\* Mutant: the marker stays.
RelForgets(p) ==
  /\ Goto(p, "rel_compare", "idle")
  /\ UNCHANGED <<marker, token, seen>>

RelCompare(p) ==
  /\ Goto(p, "rel_compare",
          IF IsMine(p, marker) /\ marker.written THEN "rel_unlink" ELSE "idle")
  /\ UNCHANGED <<marker, token, seen>>

RelUnlink(p) ==
  /\ Goto(p, "rel_unlink", "idle")
  /\ marker' = Nothing
  /\ UNCHANGED <<token, seen>>

\* Either OSError is swallowed: the release returns and the marker stays.
RelCompareFails(p) == Refused(p, "rel_compare", "idle")
RelUnlinkFails(p)  == Refused(p, "rel_unlink", "idle")

-----------------------------------------------------------------------------
(* The environment                                                         *)

Crash(p) ==
  /\ MayCrash
  /\ pc[p] # "dead"
  /\ pc' = [pc EXCEPT ![p] = "dead"]
  /\ seen' = [seen EXCEPT ![p] = Nothing]
  /\ UNCHANGED <<marker, token, refusals>>

\* The grace period of an unwritten marker passes: by then its creator has written
\* it, failed or died, unless it is late.
Age ==
  /\ marker # Nothing /\ ~marker.written /\ ~marker.old
  /\ Abandoned(marker) \/ "late" \in Faults
  /\ marker' = [marker EXCEPT !.old = TRUE]
  /\ UNCHANGED <<pc, token, seen, refusals>>

Acquiring(p) ==
  \/ Create(p) \/ CreateFails(p) \/ Write(p) \/ Read(p) \/ JudgedStale(p) \/ JudgedBusy(p)
  \/ Compare(p) \/ Unlink(p)
Releasing(p) == Leave(p) \/ RelCompare(p) \/ RelUnlink(p)
Failing(p) ==
  \/ OpenFails(p) \/ WriteFails(p) \/ ReadFails(p) \/ StatFails(p) \/ CompareFails(p)
  \/ UnlinkFails(p) \/ RelCompareFails(p) \/ RelUnlinkFails(p)

Working(p) == (Start(p) \/ Acquiring(p) \/ Releasing(p)) /\ UNCHANGED refusals
Step(p) == Working(p) \/ Failing(p)

Next ==
  /\ Age \/ \E p \in Processes : Step(p) \/ Crash(p)
  /\ NoteRace

Spec == Init /\ [][Next]_vars

\* Live processes run, their critical sections end, time passes, and somebody
\* keeps launching applications.
Fairness ==
  /\ WF_vars(Age /\ NoteRace)
  /\ \A p \in Processes : WF_vars(Step(p) /\ NoteRace)

FairSpec == Spec /\ Fairness

-----------------------------------------------------------------------------
(* Properties                                                              *)

TypeOK ==
  /\ marker \in Marker \cup {Nothing}
  /\ pc \in [Processes -> Pcs]
  /\ token \in [Processes -> Tokens]
  /\ seen \in [Processes -> Marker \cup {Nothing}]
  /\ refusals \in 0..MaxRefusals
  /\ raced \in BOOLEAN

\* The critical sections of prepare() and commit() never overlap.
MutualExclusion ==
  \A p, q \in Processes : pc[p] = "held" /\ pc[q] = "held" => p = q

\* Crashes and failing system calls alone never let two processes in: it takes two
\* that recover one marker at once (MCProcessLock_two_recover), or a creator that is
\* overtaken by the grace period.
LoneRecoveryExcludes == ~raced => MutualExclusion

\* ... which is to say that up to such a race the lock implements the mutex it
\* stands for, a process that dies inside having left.
Mutex == INSTANCE StorageMutex
           WITH inside <- {p \in Processes : ~raced /\ pc[p] = "held"}
ImplementsMutex == Mutex!Spec

\* The marker of a process inside its critical section stays in place, so that
\* neither a late comer nor a recovery can walk past it.
HolderIsMarked ==
  \A p \in Processes :
    ~raced /\ pc[p] = "held" => IsMine(p, marker) /\ marker.written

\* A release removes only its own marker and a recovery only one that its
\* creator has abandoned, though both unlink a path they compared one step ago
\* and recognize it by its contents, which every unwritten marker shares.
UnlinksWhatItCompared ==
  \A p \in Processes : ~raced =>
    /\ pc[p] = "rel_unlink" => IsMine(p, marker)
    /\ pc[p] = "unlink" => marker # Nothing /\ Abandoned(marker)

\* What a release that failed leaves behind: a marker that names a process which is
\* alive and no longer uses it, so that nobody judges it stale.
LeftBehind ==
  /\ refusals > 0
  /\ marker # Nothing /\ marker.written /\ Abandoned(marker) /\ pc[marker.owner] # "dead"

\* Somebody gets in: processes do not starve each other out while one waits, unless
\* a failed release shuts them all out for good.
SomebodyEnters ==
  []<>~LeftBehind => (\E p \in Processes : pc[p] = "create") ~> (\E p \in Processes : pc[p] = "held")

\* A marker that should go: empty after its attempt is over, or of a process that is gone.
Recoverable(m) == m # Nothing /\ IF m.written THEN pc[m.owner] = "dead" ELSE Abandoned(m)

\* "a crashed process's marker is recovered automatically", and so is an empty one,
\* though reading, comparing or removing it fails now and then.
AbandonedRecovered == Recoverable(marker) ~> (marker = Nothing)
=============================================================================
