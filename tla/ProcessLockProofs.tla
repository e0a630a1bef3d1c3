-------------------------- MODULE ProcessLockProofs --------------------------
(***************************************************************************)
(* What holds of the interprocess lock for every set of processes and any  *)
(* number of crashes and failing system calls.  Until two processes        *)
(* recover a marker at once or a creator is overtaken by the grace period, *)
(* whoever is past creating a marker owns the one in place and whoever is  *)
(* about to remove one removes an abandoned one: these two imply each      *)
(* other's preservation, and mutual exclusion follows.  After such a race  *)
(* it is false (MCProcessLock_two_recover).                                *)
(***************************************************************************)
EXTENDS ProcessLock, TLAPS

\* A marker past its grace period is empty and its attempt is over.
OldIsAbandoned ==
  marker # Nothing /\ marker.old => ~marker.written /\ (raced \/ Abandoned(marker))

\* Nobody recovers while another process does.
LoneRecoverer ==
  \A p, q \in Processes : {pc[p], pc[q]} \subseteq Recovering => p = q

\* Who is past creating the marker owns the one in place.
OwnersAreMarked ==
  \A p \in Processes :
    /\ pc[p] = "write" => IsMine(p, marker) /\ ~marker.written
    /\ pc[p] \in {"held", "rel_compare", "rel_unlink"} => IsMine(p, marker) /\ marker.written

\* What was judged stale was written by a dead process or, if it was empty, is
\* the old marker still in place.
JudgementStands ==
  \A p \in Processes : pc[p] = "compare" =>
    /\ seen[p] # Nothing
    /\ IF seen[p].written THEN pc[seen[p].owner] = "dead" ELSE marker # Nothing /\ marker.old

UnlinksAbandoned ==
  \A p \in Processes : pc[p] = "unlink" => marker # Nothing /\ Abandoned(marker)

LockInv ==
  /\ TypeOK
  /\ OldIsAbandoned
  /\ ~raced => LoneRecoverer /\ OwnersAreMarked /\ JudgementStands /\ UnlinksAbandoned

\* The marker that a process creates.
LEMMA NewMarker ==
  ASSUME NEW p \in Processes, NEW k \in Tokens,
         NEW m, m = [owner |-> p, token |-> k, written |-> FALSE, old |-> FALSE]
  PROVE  m \in Marker /\ m # Nothing /\ m.owner = p /\ m.token = k /\ ~m.written /\ ~m.old
<1>1. FALSE \in BOOLEAN
  OBVIOUS
<1>2. m \in Marker
  BY <1>1, Zenon DEF Marker
<1> QED
  BY <1>2, LockAssumption DEF Marker

\* A race, once noted, stays noted; where none is noted nobody else recovers.
LEMMA RaceNoted ==
  ASSUME NoteRace, ~raced'
  PROVE  /\ ~raced /\ LoneRecoverer'
         /\ marker' # Nothing /\ marker'.old => Abandoned(marker)'
BY DEF NoteRace, LoneRecoverer

\* A system call that fails leaves the marker and everybody's token alone, and its
\* process past what it owned.
LEMMA FailureKeeps ==
  ASSUME TypeOK, NEW p \in Processes, Failing(p)
  PROVE  /\ UNCHANGED <<marker, token>>
         /\ pc[p] \notin {"idle", "held", "dead"}
         /\ pc'[p] \in {"idle", "create", "judge"}
         /\ \A q \in Processes \ {p} : pc'[q] = pc[q] /\ seen'[q] = seen[q]
BY DEF TypeOK, Failing, OpenFails, WriteFails, ReadFails, StatFails, CompareFails,
       UnlinkFails, RelCompareFails, RelUnlinkFails, Refused, Goto

\* Type correctness holds with every fault.
THEOREM LockTypeCorrect == Spec => []TypeOK
<1> USE LockAssumption DEF TypeOK, Marker, Pcs
<1>1. Init => TypeOK
  <2>1. 0 \in 0..MaxRefusals
    BY LockAssumption
  <2>2. Init => raced \in BOOLEAN
    BY Zenon DEF Init
  <2> QED
    BY <2>1, <2>2 DEF Init
<1>2. TypeOK /\ [Next]_vars => TypeOK'
  <2> SUFFICES ASSUME TypeOK, [Next]_vars PROVE TypeOK'
    OBVIOUS
  <2>0. raced' \in BOOLEAN
    BY DEF Next, NoteRace, vars
  <2>9. ASSUME NEW p \in Processes, Failing(p) PROVE TypeOK'
    <3>1. ASSUME NEW from \in Pcs, NEW to \in Pcs, Refused(p, from, to) PROVE TypeOK'
      BY <2>0, <3>1 DEF Refused, Goto
    <3> QED
      BY <2>9, <3>1 DEF Failing, OpenFails, WriteFails, ReadFails, StatFails, CompareFails,
                        UnlinkFails, RelCompareFails, RelUnlinkFails
  <2>1. CASE UNCHANGED vars
    BY <2>0, <2>1 DEF vars
  <2>2. CASE Age
    BY <2>0, <2>2 DEF Age
  <2>3. ASSUME NEW p \in Processes, Start(p) \/ Crash(p), UNCHANGED refusals
        PROVE  TypeOK'
    BY <2>0, <2>3 DEF Start, Crash, Goto
  <2>4. ASSUME NEW p \in Processes, Create(p) \/ CreateFails(p), UNCHANGED refusals
        PROVE  TypeOK'
    <3>1. Create(p) => marker' \in Marker
      BY NewMarker DEF Create
    <3> QED
      BY <2>0, <2>4, <3>1 DEF Create, CreateFails, Goto
  <2>8. ASSUME NEW p \in Processes, Write(p), UNCHANGED refusals PROVE TypeOK'
    <3>1. marker' \in Marker \cup {Nothing}
      BY <2>0, <2>8 DEF Write, IsMine
    <3> QED
      BY <2>0, <2>8, <3>1 DEF Write, Goto
  <2>5. ASSUME NEW p \in Processes, Read(p) \/ JudgedStale(p) \/ JudgedBusy(p),
               UNCHANGED refusals
        PROVE  TypeOK'
    BY <2>0, <2>5 DEF Read, JudgedStale, JudgedBusy, Goto
  <2>6. ASSUME NEW p \in Processes, Compare(p) \/ Unlink(p), UNCHANGED refusals
        PROVE  TypeOK'
    BY <2>0, <2>6 DEF Compare, Unlink, Goto
  <2>7. ASSUME NEW p \in Processes, Releasing(p), UNCHANGED refusals PROVE TypeOK'
    BY <2>0, <2>7 DEF Releasing, Leave, RelCompare, RelUnlink, Goto
  <2> QED
    <3>1. ASSUME NEW p \in Processes, Crash(p) PROVE UNCHANGED refusals
      BY <3>1 DEF Crash
    <3> QED
      BY <2>1, <2>2, <2>3, <2>4, <2>5, <2>6, <2>7, <2>8, <2>9, <3>1
         DEF Next, Step, Working, Acquiring
<1> QED
  BY <1>1, <1>2, PTL DEF Spec

\* Whose attempt is over is not the owner of a marker, now or after a step, and
\* the step leaves that marker alone or removes it.
LEMMA AbandonedStays ==
  ASSUME TypeOK, TypeOK', Next, marker # Nothing, marker' # Nothing, Abandoned(marker)
  PROVE  /\ Abandoned(marker)' /\ marker'.written = marker.written
         /\ marker.old => marker'.old
<1> USE LockAssumption DEF TypeOK, Marker, Abandoned, Goto, IsMine
<1>1. CASE Age
  BY <1>1 DEF Age
<1>2. ASSUME NEW p \in Processes, Start(p)
      PROVE  Abandoned(marker)' /\ marker' = marker
  BY <1>2 DEF Start, Unused
<1>3. ASSUME NEW p \in Processes, CreateFails(p) \/ Read(p)
      PROVE  Abandoned(marker)' /\ marker' = marker
  BY <1>3 DEF CreateFails, Read
<1>8. ASSUME NEW p \in Processes, Failing(p)
      PROVE  Abandoned(marker)' /\ marker' = marker
  BY <1>8, FailureKeeps
<1>4. ASSUME NEW p \in Processes, Write(p)
      PROVE  Abandoned(marker)' /\ marker' = marker
  BY <1>4 DEF Write
<1>5. ASSUME NEW p \in Processes, JudgedStale(p) \/ JudgedBusy(p) \/ Compare(p)
      PROVE  Abandoned(marker)' /\ marker' = marker
  BY <1>5 DEF JudgedStale, JudgedBusy, Compare
<1>6. ASSUME NEW p \in Processes, Leave(p) \/ RelCompare(p) \/ Crash(p)
      PROVE  Abandoned(marker)' /\ marker' = marker
  BY <1>6 DEF Leave, RelCompare, Crash
<1>7. ASSUME NEW p \in Processes, Create(p) \/ Unlink(p) \/ RelUnlink(p) PROVE FALSE
  BY <1>7 DEF Create, Unlink, RelUnlink
<1> QED
  BY <1>1, <1>2, <1>3, <1>4, <1>5, <1>6, <1>7, <1>8
     DEF Next, Step, Working, Acquiring, Releasing

\* Only an unwritten marker whose attempt is over grows old.
LEMMA OldStaysAbandoned ==
  ASSUME TypeOK, TypeOK', OldIsAbandoned, Next
  PROVE  OldIsAbandoned'
<1> SUFFICES ASSUME marker' # Nothing, marker'.old PROVE ~marker'.written
  BY RaceNoted DEF OldIsAbandoned, Next
<1>2. CASE Age
  BY <1>2, LockAssumption DEF Age, TypeOK, Marker
<1>3. ASSUME NEW p \in Processes, Create(p) PROVE FALSE
  BY <1>3, NewMarker DEF Create, TypeOK
<1>4. ASSUME NEW p \in Processes, Write(p) PROVE marker' = marker
  BY <1>4 DEF Write, IsMine, TypeOK, Marker
<1>5. ASSUME NEW p \in Processes, Unlink(p) \/ RelUnlink(p) PROVE FALSE
  BY <1>5 DEF Unlink, RelUnlink
<1>6. CASE marker' = marker
  BY <1>6 DEF OldIsAbandoned
<1>7. ASSUME NEW p \in Processes, Failing(p) PROVE marker' = marker
  BY <1>7, FailureKeeps
<1> QED
  BY <1>2, <1>3, <1>4, <1>5, <1>6, <1>7
     DEF Next, Step, Working, Acquiring, Releasing, Start, CreateFails, Read, JudgedStale,
         JudgedBusy, Compare, Leave, RelCompare, Crash

\* While nobody races, only an owner and a lone recoverer remove the marker: who
\* owns it keeps it.
LEMMA OwnersStayMarked ==
  ASSUME LockInv, TypeOK', Next, ~raced, OwnersAreMarked, UnlinksAbandoned
  PROVE  OwnersAreMarked'
<1> USE LockAssumption DEF LockInv, TypeOK, Marker, OwnersAreMarked, IsMine, Goto
<1>1. CASE Age
  BY <1>1 DEF Age
<1>2. ASSUME NEW p \in Processes, Start(p) PROVE OwnersAreMarked'
  BY <1>2 DEF Start
<1>3. ASSUME NEW p \in Processes, Create(p) PROVE OwnersAreMarked'
  <2>1. /\ marker = Nothing /\ token' = token /\ marker' # Nothing
        /\ marker'.owner = p /\ marker'.token = token[p] /\ ~marker'.written
    BY <1>3, NewMarker DEF Create
  <2>2. \A q \in Processes : pc[q] \notin {"write", "held", "rel_compare", "rel_unlink"}
    BY <2>1
  <2>3. pc'[p] = "write" /\ \A q \in Processes \ {p} : pc'[q] = pc[q]
    BY <1>3 DEF Create
  <2> QED
    BY <2>1, <2>2, <2>3
<1>4. ASSUME NEW p \in Processes, Write(p) PROVE OwnersAreMarked'
  BY <1>4 DEF Write
<1>5. ASSUME NEW p \in Processes, CreateFails(p) \/ Read(p)
      PROVE  OwnersAreMarked'
  BY <1>5 DEF CreateFails, Read
<1>9. ASSUME NEW p \in Processes, Failing(p) PROVE OwnersAreMarked'
  BY <1>9, FailureKeeps
<1>6. ASSUME NEW p \in Processes, JudgedStale(p) \/ JudgedBusy(p) \/ Compare(p)
      PROVE  OwnersAreMarked'
  BY <1>6 DEF JudgedStale, JudgedBusy, Compare
<1>7. ASSUME NEW p \in Processes, Unlink(p) PROVE OwnersAreMarked'
  <2>1. \A q \in Processes : pc[q] \notin {"write", "held", "rel_compare", "rel_unlink"}
    BY <1>7 DEF Unlink, UnlinksAbandoned, Abandoned
  <2> QED
    BY <1>7, <2>1 DEF Unlink
<1>8. ASSUME NEW p \in Processes, Leave(p) \/ RelCompare(p) \/ RelUnlink(p) \/ Crash(p)
      PROVE  OwnersAreMarked'
  BY <1>8 DEF Leave, RelCompare, RelUnlink, Crash
<1> QED
  BY <1>1, <1>2, <1>3, <1>4, <1>5, <1>6, <1>7, <1>8, <1>9
     DEF Next, Step, Working, Acquiring, Releasing

\* An abandoned marker is removed by who recovers it and by nobody else.
LEMMA OnlyRecoveryRemoves ==
  ASSUME LockInv, TypeOK', Next, ~raced', NEW p \in Processes,
         pc[p] \in Recovering, pc'[p] \in Recovering, marker # Nothing, Abandoned(marker)
  PROVE  marker' # Nothing
<1> USE DEF LockInv, TypeOK, Marker
<1>1. ~raced /\ OwnersAreMarked /\ LoneRecoverer
  BY RaceNoted DEF Next
<1>2. ASSUME NEW q \in Processes, Unlink(q) PROVE FALSE
  <2>1. q = p
    BY <1>1, <1>2 DEF Unlink, Goto, LoneRecoverer, Recovering
  <2> QED
    BY <1>2, <2>1 DEF Unlink, Goto, Recovering
<1>3. ASSUME NEW q \in Processes, RelUnlink(q) PROVE FALSE
  BY <1>1, <1>3 DEF RelUnlink, Goto, OwnersAreMarked, IsMine, Abandoned
<1>4. ASSUME NEW q \in Processes, Create(q) PROVE FALSE
  BY <1>4 DEF Create
<1>5. ASSUME NEW q \in Processes, Write(q) PROVE marker' # Nothing
  BY <1>5, LockAssumption DEF Write
<1>6. CASE Age
  BY <1>6, LockAssumption DEF Age
<1>7. ASSUME NEW q \in Processes, Failing(q) PROVE marker' # Nothing
  BY <1>7, FailureKeeps
<1> QED
  BY <1>2, <1>3, <1>4, <1>5, <1>6, <1>7
     DEF Next, Step, Working, Acquiring, Releasing, Start, CreateFails, Read, JudgedStale,
         JudgedBusy, Compare, Leave, RelCompare, Crash

\* What a lone recoverer has judged stale stays so until it compares it.
LEMMA JudgementKept ==
  ASSUME LockInv, TypeOK', Next, ~raced'
  PROVE  JudgementStands'
<1> USE DEF LockInv, TypeOK, Marker
<1>1. ~raced /\ JudgementStands
  BY RaceNoted DEF Next
<1> SUFFICES ASSUME NEW p \in Processes, pc'[p] = "compare"
             PROVE  /\ seen'[p] # Nothing
                    /\ IF seen'[p].written THEN pc'[seen'[p].owner] = "dead"
                                           ELSE marker' # Nothing /\ marker'.old
  BY DEF JudgementStands
<1>2. CASE JudgedStale(p)
  BY <1>2 DEF JudgedStale, Stale, Goto
<1>3. CASE pc[p] = "compare" /\ seen'[p] = seen[p]
  <2>1. CASE seen[p].written
    <3>1. seen[p].owner \in Processes /\ pc[seen[p].owner] = "dead"
      BY <1>1, <1>3, <2>1 DEF JudgementStands
    <3>2. \A q \in Processes : pc[q] = "dead" => pc'[q] = "dead"
      <4>1. \A q \in Processes : Start(q) \/ Acquiring(q) \/ Releasing(q) \/ Crash(q)
              => pc[q] # "dead" /\ \A r \in Processes \ {q} : pc'[r] = pc[r]
        BY DEF Start, Acquiring, Releasing, Create, CreateFails, Write, Read, JudgedStale,
               JudgedBusy, Compare, Unlink, Leave, RelCompare, RelUnlink, Crash, Goto
      <4>2. \A q \in Processes : Failing(q)
              => pc[q] # "dead" /\ \A r \in Processes \ {q} : pc'[r] = pc[r]
        BY FailureKeeps
      <4> QED
        BY <4>1, <4>2 DEF Next, Step, Working, Age
    <3> QED
      BY <1>1, <1>3, <2>1, <3>1, <3>2 DEF JudgementStands
  <2>2. CASE ~seen[p].written
    <3>1. marker # Nothing /\ marker.old /\ Abandoned(marker) /\ seen[p] # Nothing
      BY <1>1, <1>3, <2>2 DEF JudgementStands, OldIsAbandoned
    <3>2. marker' # Nothing
      BY <1>3, <3>1, OnlyRecoveryRemoves DEF Recovering
    <3> QED
      BY <1>3, <2>2, <3>1, <3>2, AbandonedStays
  <2> QED
    BY <2>1, <2>2
<1>4. JudgedStale(p) \/ (pc[p] = "compare" /\ seen'[p] = seen[p])
  <2>1. ASSUME NEW q \in Processes, Start(q) \/ Create(q) \/ CreateFails(q) \/ Write(q)
        PROVE  pc[p] = "compare" /\ seen'[p] = seen[p]
    BY <2>1 DEF Start, Create, CreateFails, Write, Goto
  <2>2. ASSUME NEW q \in Processes, Leave(q) \/ RelCompare(q) \/ RelUnlink(q)
        PROVE  pc[p] = "compare" /\ seen'[p] = seen[p]
    BY <2>2 DEF Leave, RelCompare, RelUnlink, Goto
  <2>7. ASSUME NEW q \in Processes, Failing(q)
        PROVE  pc[p] = "compare" /\ seen'[p] = seen[p]
    BY <2>7, FailureKeeps
  <2>3. ASSUME NEW q \in Processes, Read(q) \/ JudgedBusy(q) \/ Compare(q)
        PROVE  pc[p] = "compare" /\ seen'[p] = seen[p]
    BY <2>3 DEF Read, JudgedBusy, Compare, Goto
  <2>4. ASSUME NEW q \in Processes, Unlink(q) \/ Crash(q)
        PROVE  pc[p] = "compare" /\ seen'[p] = seen[p]
    BY <2>4 DEF Unlink, Crash, Goto
  <2>5. ASSUME NEW q \in Processes, JudgedStale(q)
        PROVE  JudgedStale(p) \/ (pc[p] = "compare" /\ seen'[p] = seen[p])
    BY <2>5 DEF JudgedStale, Goto
  <2>6. CASE Age
    BY <2>6 DEF Age
  <2> QED
    BY <2>1, <2>2, <2>3, <2>4, <2>5, <2>6, <2>7 DEF Next, Step, Working, Acquiring, Releasing
<1> QED
  BY <1>2, <1>3, <1>4

\* Who has compared the marker with an abandoned one is about to remove it.
LEMMA UnlinksStayAbandoned ==
  ASSUME LockInv, TypeOK', Next, ~raced'
  PROVE  UnlinksAbandoned'
<1> USE DEF LockInv, TypeOK, Marker
<1>1. ~raced /\ JudgementStands /\ UnlinksAbandoned
  BY RaceNoted DEF Next
<1> SUFFICES ASSUME NEW p \in Processes, pc'[p] = "unlink"
             PROVE  marker' # Nothing /\ Abandoned(marker)'
  BY DEF UnlinksAbandoned
<1>2. CASE pc[p] = "unlink"
  <2>1. marker # Nothing /\ Abandoned(marker)
    BY <1>1, <1>2 DEF UnlinksAbandoned
  <2>2. marker' # Nothing
    BY <1>2, <2>1, OnlyRecoveryRemoves DEF Recovering
  <2> QED
    BY <2>1, <2>2, AbandonedStays
<1>3. CASE Compare(p)
  <2>1. pc[p] = "compare" /\ SameContents(marker, seen[p]) /\ marker' = marker
    BY <1>3 DEF Compare, Goto
  <2>2. marker # Nothing /\ Abandoned(marker)
    BY <1>1, <2>1 DEF SameContents, JudgementStands, OldIsAbandoned, Abandoned
  <2> QED
    BY <2>1, <2>2, AbandonedStays
<1>4. pc[p] = "unlink" \/ Compare(p)
  <2>1. ASSUME NEW q \in Processes, Start(q) \/ Acquiring(q) \/ Releasing(q) \/ Crash(q),
               q # p
        PROVE  pc[p] = "unlink"
    BY <2>1 DEF Start, Acquiring, Releasing, Create, CreateFails, Write, Read, JudgedStale,
                JudgedBusy, Compare, Unlink, Leave, RelCompare, RelUnlink, Crash, Goto
  <2>2. Start(p) \/ Acquiring(p) \/ Releasing(p) \/ Crash(p) => Compare(p)
    BY DEF Start, Acquiring, Releasing, Create, CreateFails, Write, Read, JudgedStale,
           JudgedBusy, Unlink, Leave, RelCompare, RelUnlink, Crash, Goto
  <2>3. CASE Age
    BY <2>3 DEF Age
  <2>4. ASSUME NEW q \in Processes, Failing(q) PROVE pc[p] = "unlink"
    BY <2>4, FailureKeeps
  <2> QED
    BY <2>1, <2>2, <2>3, <2>4 DEF Next, Step, Working
<1> QED
  BY <1>2, <1>3, <1>4

\* The strengthened invariant is inductive, under every fault.
LEMMA LockInvHolds == Spec => []LockInv
<1>1. Init /\ TypeOK => LockInv
  BY LockAssumption
     DEF Init, LockInv, Pcs, OldIsAbandoned, LoneRecoverer, Recovering,
         OwnersAreMarked, JudgementStands, UnlinksAbandoned
<1>2. LockInv /\ TypeOK' /\ [Next]_vars => LockInv'
  <2>1. CASE UNCHANGED vars
    BY <2>1 DEF vars, LockInv, TypeOK, OldIsAbandoned, Abandoned, LoneRecoverer,
                OwnersAreMarked, IsMine, JudgementStands, UnlinksAbandoned
  <2>2. CASE Next
    <3> SUFFICES ASSUME LockInv, TypeOK', Next PROVE LockInv'
      BY <2>2
    <3>1. OldIsAbandoned'
      BY OldStaysAbandoned DEF LockInv
    <3>2. ASSUME ~raced'
          PROVE  (LoneRecoverer /\ OwnersAreMarked /\ JudgementStands /\ UnlinksAbandoned)'
      <4>1. ~raced /\ LoneRecoverer'
        BY <3>2, RaceNoted DEF Next
      <4>2. OwnersAreMarked'
        BY <4>1, OwnersStayMarked DEF LockInv
      <4> QED
        BY <3>2, <4>1, <4>2, JudgementKept, UnlinksStayAbandoned
    <3> QED
      BY <3>1, <3>2 DEF LockInv
  <2> QED
    BY <2>1, <2>2
<1> QED
  BY <1>1, <1>2, LockTypeCorrect, PTL DEF Spec

\* The marker of a process inside its critical section is in place.
THEOREM HolderAlwaysMarked == Spec => []HolderIsMarked
<1>1. LockInv => HolderIsMarked
  BY DEF LockInv, OwnersAreMarked, HolderIsMarked
<1> QED
  BY <1>1, LockInvHolds, PTL

\* Whatever is unlinked is one's own marker or an abandoned one.
THEOREM UnlinksOnlyAbandoned == Spec => []UnlinksWhatItCompared
<1>1. LockInv => UnlinksWhatItCompared
  BY DEF LockInv, OwnersAreMarked, UnlinksAbandoned, UnlinksWhatItCompared
<1> QED
  BY <1>1, LockInvHolds, PTL

\* The critical sections of prepare() and commit() never overlap, for any
\* number of processes, crashes and failing system calls, until two recover at once or
\* a creator is overtaken.
THEOREM ExclusionUntilRace == Spec => []LoneRecoveryExcludes
<1>1. LockInv => LoneRecoveryExcludes
  BY DEF LockInv, OwnersAreMarked, LoneRecoveryExcludes, MutualExclusion, IsMine
<1> QED
  BY <1>1, LockInvHolds, PTL

\* Until then the lock implements the abstract mutex: a process enters only when
\* nobody is inside, and every other step but leaving or dying is invisible.
THEOREM LockImplementsMutex == Spec => ImplementsMutex
<1> DEFINE Inside == {p \in Processes : ~raced /\ pc[p] = "held"}
<1>1. Init => Mutex!Init
  BY DEF Init, Mutex!Init
<1>2. LockInv /\ [Next]_vars => [Mutex!Next]_Inside
  <2> SUFFICES ASSUME LockInv, [Next]_vars PROVE Mutex!Next \/ Inside' = Inside
    BY DEF Mutex!Next
  <2> USE DEF LockInv, TypeOK, IsMine, Goto
  <2>1. CASE UNCHANGED vars
    BY <2>1 DEF vars
  <2>2. CASE raced
    BY <2>2 DEF Next, NoteRace, vars
  <2>3. CASE Next /\ ~raced /\ raced'
    <3>1. Inside' = {}
      BY <2>3
    <3>2. Inside = {} \/ \E p \in Processes : Inside = {p}
      <4>1. \A p, q \in Processes : pc[p] = "held" /\ pc[q] = "held" => p = q
        BY <2>3 DEF OwnersAreMarked
      <4> QED
        BY <4>1
    <3>3. ASSUME NEW p \in Processes, Inside = {p} PROVE Mutex!Next
      <4>1. p \in Inside /\ Inside' = Inside \ {p}
        BY <3>1, <3>3
      <4> QED
        BY <4>1 DEF Mutex!Next, Mutex!Leave
    <3> QED
      BY <3>1, <3>2, <3>3
  <2>4. CASE Next /\ ~raced /\ ~raced'
    <3>1. CASE Age
      BY <2>4, <3>1 DEF Age
    <3>2. ASSUME NEW p \in Processes, Write(p) PROVE Mutex!Next
      <4>1. Inside = {}
        BY <2>4, <3>2 DEF Write, OwnersAreMarked
      <4>2. Inside' = {p}
        BY <2>4, <3>2, <4>1 DEF Write
      <4> QED
        BY <4>1, <4>2 DEF Mutex!Next, Mutex!Acquire
    <3>3. ASSUME NEW p \in Processes, Leave(p) \/ Crash(p), pc[p] = "held" PROVE Mutex!Next
      <4>1. p \in Inside /\ Inside' = Inside \ {p}
        BY <2>4, <3>3 DEF Leave, Crash
      <4> QED
        BY <4>1 DEF Mutex!Next, Mutex!Leave
    <3>4. ASSUME NEW p \in Processes, Leave(p) \/ Crash(p), pc[p] # "held"
          PROVE  Inside' = Inside
      BY <2>4, <3>4 DEF Leave, Crash
    <3>5. ASSUME NEW p \in Processes,
                 Start(p) \/ Create(p) \/ CreateFails(p) \/ Read(p)
          PROVE  Inside' = Inside
      BY <2>4, <3>5 DEF Start, Create, CreateFails, Read
    <3>8. ASSUME NEW p \in Processes, Failing(p) PROVE Inside' = Inside
      BY <2>4, <3>8, FailureKeeps
    <3>6. ASSUME NEW p \in Processes,
                 JudgedStale(p) \/ JudgedBusy(p) \/ Compare(p) \/ Unlink(p)
          PROVE  Inside' = Inside
      BY <2>4, <3>6 DEF JudgedStale, JudgedBusy, Compare, Unlink
    <3>7. ASSUME NEW p \in Processes, RelCompare(p) \/ RelUnlink(p) PROVE Inside' = Inside
      BY <2>4, <3>7 DEF RelCompare, RelUnlink
    <3> QED
      BY <2>4, <3>1, <3>2, <3>3, <3>4, <3>5, <3>6, <3>7, <3>8
         DEF Next, Step, Working, Acquiring, Releasing
  <2> QED
    BY <2>1, <2>2, <2>3, <2>4
<1> QED
  BY <1>1, <1>2, LockInvHolds, PTL DEF Spec, ImplementsMutex, Mutex!Spec
=============================================================================
