------------------------ MODULE InvisibleFolderProofs ------------------------
(***************************************************************************)
(* What holds of the file kept by download_if_new for any number of        *)
(* threads, revisions, failures and crashes.  NoMissedUpdate speaks of the *)
(* moments when nobody writes, so it is not inductive: SaverInv follows    *)
(* the one call with the destination from its argument to the persisted    *)
(* revision, and HeldInv says what the destination holds meanwhile.        *)
(***************************************************************************)
EXTENDS InvisibleFolder, TLAPS

Saving == {"open", "write", "record"}

\* What a call knows of the server is not ahead of it, and its bytes are not
\* behind its revision.
CallInv ==
  /\ 1 <= published /\ published <= content /\ known <= published /\ file.rev <= content
  /\ \A t \in Threads :
       /\ pc[t] = "idle" => call[t] = NoCall
       /\ call[t].revision <= published
       /\ pc[t] \in Saving =>
            /\ call[t].saves
            /\ call[t].revision <= call[t].payload /\ call[t].payload <= content

\* The call that writes the destination, crossed by no other one: what it was asked with is what is
\* persisted, and it goes on only with a later revision and no older content.
SaverInv ==
  /\ \A t, u \in Threads : call[t].saves /\ call[u].saves => t = u
  /\ \A t \in Threads : call[t].saves =>
       /\ call[t].checks => call[t].argument = known
       /\ call[t].checks /\ pc[t] \in {"token", "get"} \cup Saving => known < call[t].revision
       /\ pc[t] = "open" => file.rev <= call[t].payload
       /\ pc[t] \in {"write", "record"} => file.rev = call[t].payload
       /\ pc[t] \in Saving => known <= call[t].payload
       /\ pc[t] = "record" => file.complete

\* What is persisted is there, and a truncated destination is known to be old.
HeldInv ==
  /\ known <= file.rev
  /\ file.complete \/ known < published \/ Replacing

FolderInv ==
  /\ TypeOK /\ CallInv
  /\ crossed => spoiled
  /\ ~crossed => SaverInv
  /\ ~spoiled => HeldInv

Environment == SetToken \/ ClearToken \/ Upload \/ Publish

LEMMA NoCallIs ==
  /\ ~NoCall.checks /\ ~NoCall.saves
  /\ NoCall.argument = 0 /\ NoCall.revision = 0 /\ NoCall.payload = 0
BY DEF NoCall

LEMMA FileType ==
  /\ \A r \in Revisions, b \in BOOLEAN :
       [rev |-> r, complete |-> b] \in [rev : Revisions, complete : BOOLEAN]
  /\ [rev |-> 0, complete |-> FALSE].rev = 0
  /\ TRUE \in BOOLEAN /\ FALSE \in BOOLEAN /\ 0 \in Revisions
<1>1. 0 \in Revisions
  BY FolderAssumption DEF Revisions
<1>2. TRUE \in BOOLEAN /\ FALSE \in BOOLEAN
  OBVIOUS
<1> QED
  BY <1>1, <1>2, Zenon

LEMMA Typing ==
  /\ NoCall \in Calls
  /\ \A c \in Calls : c.checks \in BOOLEAN /\ c.saves \in BOOLEAN
  /\ \A c \in Calls : c.argument \in Nat /\ c.revision \in Nat /\ c.payload \in Nat
<1>1. \A c \in Calls : c.checks \in BOOLEAN /\ c.saves \in BOOLEAN
  BY DEF Calls
<1>2. \A c \in Calls : c.argument \in Nat /\ c.revision \in Nat /\ c.payload \in Nat
  BY FolderAssumption DEF Calls, Revisions
<1>3. 0 \in Revisions /\ FALSE \in BOOLEAN
  BY FolderAssumption DEF Revisions
<1>4. NoCall \in Calls
  BY <1>3, Zenon DEF NoCall, Calls
<1> QED
  BY <1>1, <1>2, <1>4

\* Type correctness, with every failure.
THEOREM FolderTypeCorrect == Spec => []TypeOK
<1> USE FolderAssumption DEF TypeOK, Revisions, Pcs, Goto
<1>1. Init => TypeOK
  <2> SUFFICES ASSUME Init PROVE TypeOK
    OBVIOUS
  <2>1. file \in [rev : Revisions, complete : BOOLEAN]
    BY FileType, Zenon DEF Init
  <2>2. hasToken \in BOOLEAN /\ crossed \in BOOLEAN /\ spoiled \in BOOLEAN
    BY FileType, Zenon DEF Init
  <2> QED
    BY <2>1, <2>2, Typing DEF Init
<1>2. TypeOK /\ [Next]_vars => TypeOK'
  <2> SUFFICES ASSUME TypeOK, Next PROVE TypeOK'
    BY DEF vars, server, disk, control, history
  <2>0. crossed' \in BOOLEAN /\ spoiled' \in BOOLEAN
    BY DEF Next, NoteHistory
  <2> USE <2>0 DEF server, disk, control
  <2>1. ASSUME NEW t \in Threads, NEW saves \in BOOLEAN,
               CallIfNew(t, saves) \/ CallDownload(t, saves)
        PROVE  TypeOK'
    <3>1. [NoCall EXCEPT !.saves = saves] \in Calls
      BY Typing, Zenon DEF Calls
    <3>2. [NoCall EXCEPT !.checks = TRUE, !.saves = saves, !.argument = known] \in Calls
      BY Typing, Zenon DEF Calls
    <3> QED
      BY <2>1, <3>1, <3>2 DEF CallIfNew, CallDownload
  <2>2. ASSUME NEW t \in Threads, Metadata(t) \/ Get(t) PROVE TypeOK'
    <3>1. [call[t] EXCEPT !.revision = published] \in Calls
      BY DEF Calls
    <3>2. [call[t] EXCEPT !.payload = content] \in Calls
      BY DEF Calls
    <3> QED
      BY <2>2, <3>1, <3>2, Typing DEF Metadata, Get
  <2>3. ASSUME NEW t \in Threads, ReadToken(t) PROVE TypeOK'
    BY <2>3, Typing DEF ReadToken
  <2>4. ASSUME NEW t \in Threads, Open(t) \/ Written(t) PROVE TypeOK'
    <3>1. call[t].payload \in Revisions /\ call[t] \in Calls
      BY DEF Calls
    <3>2. file' \in [rev : Revisions, complete : BOOLEAN]
      BY <2>4, <3>1, FileType, Zenon DEF Open, Written
    <3> QED
      BY <2>4, <3>1, <3>2 DEF Open, Written
  <2>5. ASSUME NEW t \in Threads, Record(t) PROVE TypeOK'
    BY <2>5, Typing DEF Record, Calls
  <2>6. ASSUME NEW t \in Threads, Raises(t) PROVE TypeOK'
    BY <2>6, Typing DEF Raises, MetadataRaises, DownloadRaises, WriteFails, Fail
  <2>7. CASE Environment
    <3>0. SetToken \/ ClearToken => hasToken' \in BOOLEAN
      BY FileType, Zenon DEF SetToken, ClearToken
    <3>1. CASE SetToken \/ ClearToken
      BY <3>0, <3>1 DEF SetToken, ClearToken, Fail
    <3>2. CASE Upload \/ Publish
      BY <3>2 DEF Upload, Publish
    <3> QED
      BY <2>7, <3>1, <3>2 DEF Environment
  <2>8. CASE Crash
    <3>1. hasToken' \in BOOLEAN
      BY <2>8, FileType, Zenon DEF Crash
    <3> QED
      BY <2>8, <3>1, Typing DEF Crash, Fail
  <2> QED
    BY <2>1, <2>2, <2>3, <2>4, <2>5, <2>6, <2>7, <2>8 DEF Next, Step, Call, Environment
<1> QED
  BY <1>1, <1>2, PTL DEF Spec

\* A step of one thread changes the program counter and the call of no other.
LEMMA OneThreadMoves ==
  ASSUME TypeOK, NEW t \in Threads, Call(t) \/ Step(t) \/ Raises(t)
  PROVE  \A u \in Threads \ {t} : pc'[u] = pc[u] /\ call'[u] = call[u]
BY DEF TypeOK, Call, Step, Raises, MetadataRaises, DownloadRaises, WriteFails, CallIfNew,
       CallDownload, Metadata, ReadToken, Get, Open, Written, Record, Goto

\* A call begins with what is persisted, or checks nothing.
LEMMA NewCall ==
  ASSUME TypeOK, NEW t \in Threads, Call(t)
  PROVE  /\ UNCHANGED <<published, content, known, file>>
         /\ pc[t] = "idle" /\ pc'[t] \in {"metadata", "token"}
         /\ call'[t].revision = 0
         /\ pc'[t] = "metadata" => call'[t].argument = known
         /\ pc'[t] = "token" => ~call'[t].checks
<1> USE DEF TypeOK, Goto, server, disk
<1>1. ASSUME NEW saves \in BOOLEAN, CallIfNew(t, saves)
      PROVE  /\ UNCHANGED <<published, content, known, file>>
             /\ pc[t] = "idle" /\ pc'[t] = "metadata"
             /\ call'[t].revision = 0 /\ call'[t].argument = known
  BY <1>1, NoCallIs, Typing DEF CallIfNew, Calls
<1>2. ASSUME NEW saves \in BOOLEAN, CallDownload(t, saves)
      PROVE  /\ UNCHANGED <<published, content, known, file>>
             /\ pc[t] = "idle" /\ pc'[t] = "token"
             /\ call'[t].revision = 0 /\ ~call'[t].checks
  BY <1>2, NoCallIs, Typing DEF CallDownload, Calls
<1> QED
  BY <1>1, <1>2 DEF Call

LEMMA CallInvStep ==
  ASSUME TypeOK, TypeOK', CallInv, Next PROVE CallInv'
<1> USE FolderAssumption DEF TypeOK, CallInv, Revisions, Saving, server, disk, control
<1>1. ASSUME NEW t \in Threads, Call(t) PROVE CallInv'
  <2>1. /\ call'[t].revision = 0 /\ pc'[t] \in {"metadata", "token"}
        /\ UNCHANGED <<published, content, known, file>>
    BY <1>1, NewCall
  <2> QED
    BY <1>1, <2>1, OneThreadMoves
<1>2. ASSUME NEW t \in Threads, Metadata(t) PROVE CallInv'
  <2>1. /\ call'[t].revision \in {0, published} /\ pc'[t] \in {"idle", "token"}
        /\ UNCHANGED <<published, content, known, file>>
        /\ pc'[t] = "idle" => call'[t] = NoCall
    BY <1>2 DEF Metadata, Goto, NoCall, Calls
  <2> QED
    BY <1>2, <2>1, OneThreadMoves DEF Step
<1>3. ASSUME NEW t \in Threads, Get(t) PROVE CallInv'
  <2>1. /\ UNCHANGED <<published, content, known, file>>
        /\ pc'[t] \in {"open", "idle"}
    BY <1>3 DEF Get, Goto
  <2>2. pc'[t] = "idle" => call'[t] = NoCall
    BY <1>3 DEF Get, Goto
  <2>3. pc'[t] = "open" => /\ call'[t].revision = call[t].revision /\ call'[t].saves
                           /\ call'[t].payload = content
    BY <1>3 DEF Get, Goto, Calls
  <2>4. NoCall.revision = 0
    BY DEF NoCall
  <2> QED
    BY <1>3, <2>1, <2>2, <2>3, <2>4, Typing, OneThreadMoves DEF Step
<1>4. ASSUME NEW t \in Threads, ReadToken(t) \/ Raises(t) PROVE CallInv'
  <2>1. /\ UNCHANGED <<published, content, known, file>>
        /\ \/ pc'[t] = "idle" /\ call'[t] = NoCall
           \/ pc'[t] = "get" /\ call'[t] = call[t]
    BY <1>4 DEF ReadToken, Raises, MetadataRaises, DownloadRaises, WriteFails, Goto
  <2> QED
    BY <1>4, <2>1, OneThreadMoves DEF NoCall, Step
<1>5. ASSUME NEW t \in Threads, Open(t) \/ Written(t) PROVE CallInv'
  <2>1. /\ UNCHANGED <<published, content, known>>
        /\ file'.rev = call[t].payload /\ call'[t] = call[t]
        /\ pc[t] \in Saving /\ pc'[t] \in {"write", "record"}
    BY <1>5 DEF Open, Written, Goto
  <2> QED
    BY <1>5, <2>1, OneThreadMoves DEF Step
<1>6. ASSUME NEW t \in Threads, Record(t) PROVE CallInv'
  <2>1. /\ UNCHANGED <<published, content, file>>
        /\ known' \in {known, call[t].revision}
        /\ pc'[t] = "idle" /\ call'[t] = NoCall
    BY <1>6 DEF Record, Goto
  <2> QED
    BY <1>6, <2>1, OneThreadMoves DEF NoCall, Step
<1>7. CASE Environment
  BY <1>7, Typing DEF Environment, SetToken, ClearToken, Upload, Publish, Fail
<1>8. CASE Crash
  BY <1>8 DEF Crash, NoCall
<1> QED
  BY <1>1, <1>2, <1>3, <1>4, <1>5, <1>6, <1>7, <1>8 DEF Next, Step, Environment

\* What the history has not noted has not happened.
LEMMA NotCrossed ==
  ASSUME TypeOK, TypeOK', NoteHistory, ~crossed'
  PROVE  /\ \A t, u \in Threads : call'[t].saves /\ call'[u].saves => t = u
         /\ crossed => \A t \in Threads : ~call'[t].saves
BY DEF NoteHistory

LEMMA NotSpoiled ==
  ASSUME TypeOK, TypeOK', NoteHistory, ~spoiled'
  PROVE  /\ ~crossed'
         /\ \A t \in Threads : pc[t] = "write" /\ pc'[t] = "idle" => call[t].checks
         /\ ~spoiled \/ (~crossed /\ \E t \in Threads : pc[t] = "write" /\ pc'[t] = "record")
BY DEF NoteHistory

\* A call that no other one crosses goes on with what it began with.
LEMMA SaverStep ==
  ASSUME FolderInv, TypeOK', CallInv', Next, ~crossed'
  PROVE  SaverInv'
<1> USE FolderAssumption
    DEF FolderInv, TypeOK, CallInv, SaverInv, Revisions, Saving,
        server, disk, control
<1>0. /\ \A t, u \in Threads : call'[t].saves /\ call'[u].saves => t = u
      /\ crossed => \A t \in Threads : ~call'[t].saves
  BY NotCrossed DEF Next
<1> SUFFICES ASSUME ~crossed PROVE SaverInv'
  BY <1>0
<1>1. ASSUME NEW t \in Threads, Call(t) PROVE SaverInv'
  <2>1. /\ UNCHANGED <<published, content, known, file>>
        /\ pc[t] = "idle" /\ pc'[t] \in {"metadata", "token"}
        /\ pc'[t] = "metadata" => call'[t].argument = known
        /\ pc'[t] = "token" => ~call'[t].checks
    BY <1>1, NewCall
  <2>2. \A u \in Threads \ {t} : pc'[u] = pc[u] /\ call'[u] = call[u]
    BY <1>1, OneThreadMoves
  <2> QED
    BY <1>0, <2>1, <2>2, Typing
<1>2. ASSUME NEW t \in Threads, Metadata(t) PROVE SaverInv'
  <2>1. /\ UNCHANGED <<published, content, known, file>>
        /\ pc[t] = "metadata" /\ pc'[t] \in {"idle", "token"}
        /\ pc'[t] = "idle" => call'[t] = NoCall
    BY <1>2 DEF Metadata, Goto
  <2>2. pc'[t] = "token" =>
          /\ call'[t].revision = published /\ call'[t].argument = call[t].argument
          /\ call'[t].saves = call[t].saves /\ call'[t].checks = call[t].checks
          /\ call[t].argument = 0 \/ call[t].argument # published
    BY <1>2 DEF Metadata, Goto, Calls, IsKnown
  <2>3. \A u \in Threads \ {t} : pc'[u] = pc[u] /\ call'[u] = call[u]
    BY <1>2, OneThreadMoves DEF Step
  <2>4. ~NoCall.saves
    BY DEF NoCall
  <2> QED
    BY <1>0, <2>1, <2>2, <2>3, <2>4, Typing
<1>3. ASSUME NEW t \in Threads, Get(t) PROVE SaverInv'
  <2>1. /\ UNCHANGED <<published, content, known, file>>
        /\ pc[t] = "get" /\ pc'[t] \in {"idle", "open"}
        /\ pc'[t] = "idle" => call'[t] = NoCall
    BY <1>3 DEF Get, Goto
  <2>2. pc'[t] = "open" =>
          /\ call'[t].revision = call[t].revision /\ call'[t].argument = call[t].argument
          /\ call'[t].saves = call[t].saves /\ call'[t].checks = call[t].checks
          /\ call'[t].payload = content
    BY <1>3 DEF Get, Goto, Calls
  <2>3. \A u \in Threads \ {t} : pc'[u] = pc[u] /\ call'[u] = call[u]
    BY <1>3, OneThreadMoves DEF Step
  <2>4. ~NoCall.saves
    BY DEF NoCall
  <2> QED
    BY <1>0, <2>1, <2>2, <2>3, <2>4, Typing
<1>4. ASSUME NEW t \in Threads, ReadToken(t) \/ Raises(t), pc[t] # "write"
      PROVE  SaverInv'
  <2>1. /\ UNCHANGED <<published, content, known, file>> /\ pc[t] # "write"
        /\ \/ pc'[t] = "idle" /\ call'[t] = NoCall
           \/ pc[t] = "token" /\ pc'[t] = "get" /\ call'[t] = call[t]
    BY <1>4 DEF ReadToken, Raises, MetadataRaises, DownloadRaises, WriteFails, Goto
  <2>3. \A u \in Threads \ {t} : pc'[u] = pc[u] /\ call'[u] = call[u]
    BY <1>4, OneThreadMoves DEF Step
  <2>4. ~NoCall.saves
    BY DEF NoCall
  <2> QED
    BY <1>0, <2>1, <2>3, <2>4, Typing
<1>5. ASSUME NEW t \in Threads, Open(t) PROVE SaverInv'
  <2>1. /\ UNCHANGED <<published, content, known>> /\ pc[t] = "open" /\ pc'[t] = "write"
        /\ file'.rev = call[t].payload /\ call'[t] = call[t]
    BY <1>5 DEF Open, Goto
  <2>3. \A u \in Threads \ {t} : pc'[u] = pc[u] /\ call'[u] = call[u]
    BY <1>5, OneThreadMoves DEF Step
  <2> QED
    BY <1>0, <2>1, <2>3, Typing
<1>6. ASSUME NEW t \in Threads, Written(t) PROVE SaverInv'
  <2>1. /\ UNCHANGED <<published, content, known>> /\ pc[t] = "write" /\ pc'[t] = "record"
        /\ file'.rev = call[t].payload /\ file'.complete /\ call'[t] = call[t]
    BY <1>6 DEF Written, Goto
  <2>3. \A u \in Threads \ {t} : pc'[u] = pc[u] /\ call'[u] = call[u]
    BY <1>6, OneThreadMoves DEF Step
  <2> QED
    BY <1>0, <2>1, <2>3, Typing
<1>7. ASSUME NEW t \in Threads, Record(t) PROVE SaverInv'
  <2>1. /\ UNCHANGED <<published, content, file>> /\ pc[t] = "record" /\ pc'[t] = "idle"
        /\ known' = IF call[t].checks THEN call[t].revision ELSE known
        /\ ~call'[t].saves
    BY <1>7 DEF Record, Goto, NoCall
  <2>3. \A u \in Threads \ {t} : pc'[u] = pc[u] /\ call'[u] = call[u]
    BY <1>7, OneThreadMoves DEF Step
  <2>4. \A u \in Threads : ~call'[u].saves
    BY <1>0, <2>1, <2>3
  <2> QED
    BY <2>4
<1>8. ASSUME NEW t \in Threads, ReadToken(t) \/ Raises(t), pc[t] = "write"
      PROVE  SaverInv'
  <2>1. /\ UNCHANGED <<published, content, known, file>> /\ pc[t] = "write" /\ pc'[t] = "idle"
        /\ ~call'[t].saves
    BY <1>8 DEF ReadToken, Raises, MetadataRaises, DownloadRaises, WriteFails, Goto, NoCall
  <2>3. \A u \in Threads \ {t} : pc'[u] = pc[u] /\ call'[u] = call[u]
    BY <1>8, OneThreadMoves DEF Step
  <2> QED
    BY <1>0, <2>1, <2>3
<1>9. CASE Environment
  BY <1>0, <1>9, Typing DEF Environment, SetToken, ClearToken, Upload, Publish, Fail
<1>10. CASE Crash
  <2>1. /\ UNCHANGED <<published, content, known, file>>
        /\ \A t \in Threads : pc'[t] = "idle" /\ ~call'[t].saves
    BY <1>10 DEF Crash, NoCall
  <2> QED
    BY <1>0, <2>1, Typing
<1> QED
  BY <1>1, <1>2, <1>3, <1>4, <1>5, <1>6, <1>7, <1>8, <1>9, <1>10 DEF Next, Step, Environment

\* What such a call leaves behind, or restores when it has written the file.
LEMMA HeldStep ==
  ASSUME FolderInv, TypeOK', CallInv', SaverInv', Next, ~spoiled'
  PROVE  HeldInv'
<1> USE FolderAssumption
    DEF FolderInv, TypeOK, CallInv, SaverInv, HeldInv, Replacing, Revisions, Saving,
        server, disk, control
<1>0. /\ \A t \in Threads : pc[t] = "write" /\ pc'[t] = "idle" => call[t].checks
      /\ ~spoiled \/ (~crossed /\ \E t \in Threads : pc[t] = "write" /\ pc'[t] = "record")
  BY NotSpoiled DEF Next
<1>1. ASSUME NEW t \in Threads, Written(t) PROVE HeldInv'
  <2>1. /\ UNCHANGED <<published, content, known>> /\ pc[t] = "write" /\ pc'[t] = "record"
        /\ file'.rev = call[t].payload /\ file'.complete /\ call'[t] = call[t]
    BY <1>1 DEF Written, Goto
  <2>2. known' <= call'[t].payload
    BY <2>1
  <2> QED
    BY <2>1, <2>2
<1>2. ASSUME NEW t \in Threads, pc[t] = "write", pc'[t] = "record" PROVE Written(t)
  <2>1. ASSUME NEW u \in Threads, Call(u) \/ Step(u) \/ Raises(u) PROVE Written(t)
    <3>1. u = t
      BY <1>2, <2>1, OneThreadMoves
    <3> QED
      BY <1>2, <2>1, <3>1
         DEF Call, CallIfNew, CallDownload, Step, Raises, MetadataRaises, DownloadRaises,
             WriteFails, Metadata, ReadToken, Get, Open, Record, Goto
  <2>2. ~Environment
    BY <1>2 DEF Environment, SetToken, ClearToken, Upload, Publish
  <2>3. ~Crash
    BY <1>2 DEF Crash
  <2> QED
    BY <2>1, <2>2, <2>3 DEF Next, Environment
<1> SUFFICES ASSUME ~spoiled, ~crossed, \A t \in Threads : ~Written(t) PROVE HeldInv'
  BY <1>0, <1>1, <1>2
<1>3. ASSUME NEW t \in Threads, Call(t) PROVE HeldInv'
  <2>1. UNCHANGED <<published, content, known, file>> /\ pc[t] = "idle"
    BY <1>3, NewCall
  <2>2. \A u \in Threads \ {t} : pc'[u] = pc[u] /\ call'[u] = call[u]
    BY <1>3, OneThreadMoves
  <2> QED
    BY <2>1, <2>2
<1>4. ASSUME NEW t \in Threads, Metadata(t) \/ ReadToken(t) \/ Get(t) PROVE HeldInv'
  <2>1. UNCHANGED <<published, content, known, file>> /\ pc[t] # "write"
    BY <1>4 DEF Metadata, ReadToken, Get, Goto
  <2>2. \A u \in Threads \ {t} : pc'[u] = pc[u] /\ call'[u] = call[u]
    BY <1>4, OneThreadMoves DEF Step
  <2> QED
    BY <2>1, <2>2
<1>5. ASSUME NEW t \in Threads, Open(t) PROVE HeldInv'
  <2>1. /\ UNCHANGED <<published, content, known>> /\ pc[t] = "open" /\ pc'[t] = "write"
        /\ file'.rev = call[t].payload /\ call'[t] = call[t]
    BY <1>5 DEF Open, Goto
  <2>2. known' <= file'.rev
    BY <2>1, Typing
  <2>3. call[t].checks => known' < published'
    BY <2>1, Typing
  <2> QED
    BY <2>1, <2>2, <2>3
<1>6. ASSUME NEW t \in Threads, Record(t) PROVE HeldInv'
  <2>1. /\ UNCHANGED <<published, content, file>> /\ pc[t] = "record"
        /\ known' = IF call[t].checks THEN call[t].revision ELSE known
    BY <1>6 DEF Record, Goto
  <2> QED
    BY <2>1, Typing
<1>7. ASSUME NEW t \in Threads, Raises(t) PROVE HeldInv'
  <2>1. /\ UNCHANGED <<published, content, known, file>> /\ pc'[t] = "idle"
        /\ pc[t] \in {"metadata", "get", "open", "write"}
    BY <1>7 DEF Raises, MetadataRaises, DownloadRaises, WriteFails, Goto
  <2>2. \A u \in Threads \ {t} : pc'[u] = pc[u] /\ call'[u] = call[u]
    BY <1>7, OneThreadMoves
  <2>3. pc[t] = "write" => known < published
    BY <1>0, <2>1, Typing
  <2> QED
    BY <2>1, <2>2, <2>3
<1>8. CASE Environment
  BY <1>8, Typing DEF Environment, SetToken, ClearToken, Upload, Publish, Fail
<1>9. CASE Crash
  <2>1. UNCHANGED <<published, content, known, file>> /\ \A t \in Threads : pc'[t] = "idle"
    BY <1>9 DEF Crash
  <2>2. \A t \in Threads : pc[t] = "write" => known < published
    BY <1>0, <2>1, Typing
  <2> QED
    BY <2>1, <2>2
<1> QED
  BY <1>3, <1>4, <1>5, <1>6, <1>7, <1>8, <1>9 DEF Next, Step, Environment

LEMMA FolderInvHolds == Spec => []FolderInv
<1>3. Init => CallInv
  BY FileType, NoCallIs, FolderAssumption DEF Init, CallInv, Saving
<1>4. Init => SaverInv /\ HeldInv
  BY FileType, NoCallIs, FolderAssumption DEF Init, SaverInv, HeldInv, Saving
<1>2. FolderInv /\ TypeOK' /\ [Next]_vars => FolderInv'
  <2>1. CASE UNCHANGED vars
    BY <2>1 DEF vars, server, disk, control, history, FolderInv, TypeOK, CallInv, SaverInv,
                HeldInv, Replacing
  <2>2. ASSUME FolderInv, TypeOK', Next PROVE FolderInv'
    <3>1. CallInv' /\ (~crossed' => SaverInv')
      BY <2>2, CallInvStep, SaverStep DEF FolderInv
    <3>2. crossed' => spoiled'
      BY <2>2 DEF Next, NoteHistory
    <3>3. ~spoiled' => HeldInv'
      BY <2>2, <3>1, <3>2, HeldStep
    <3> QED
      BY <2>2, <3>1, <3>2, <3>3 DEF FolderInv
  <2> QED
    BY <2>1, <2>2
<1>5. Init /\ TypeOK => FolderInv
  BY <1>3, <1>4 DEF Init, FolderInv
<1> QED
  BY <1>2, <1>5, FolderTypeCorrect, PTL DEF Spec

\* No update is missed: while what is persisted answers "not new", the newest
\* content is in place, for any number of failures and crashes.
THEOREM NoUpdateIsMissed == Spec => []NoMissedUpdate
<1>1. FolderInv => NoMissedUpdate
  BY FolderAssumption DEF FolderInv, TypeOK, HeldInv, NoMissedUpdate, Revisions
<1> QED
  BY <1>1, FolderInvHolds, PTL

\* The bytes that come with a revision are at least those of the revision.
THEOREM BytesMatchRevision == Spec => []AtLeastItsRevision
<1>1. FolderInv => AtLeastItsRevision
  BY Typing DEF FolderInv, TypeOK, CallInv, AtLeastItsRevision, Saving
<1> QED
  BY <1>1, FolderInvHolds, PTL
=============================================================================
