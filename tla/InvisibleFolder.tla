--------------------------- MODULE InvisibleFolder ---------------------------
(***************************************************************************)
(* Delivery of one file of the Invisible Folder (invisible_folder.py) to    *)
(* an application that keeps a copy of it up to date as the README shows:  *)
(* download_if_new with the revision of the last successful call, which    *)
(* the application persists.  A revision and the content that is published *)
(* with it have the same number.                                           *)
(***************************************************************************)
EXTENDS Naturals

CONSTANTS
  Threads,       \* threads of the application
  MaxRevision,   \* bound: what the server publishes
  MaxFailures    \* bound: failed exchanges, failed writes, shutdowns and crashes

ASSUME FolderAssumption == MaxRevision \in Nat \ {0} /\ MaxFailures \in Nat

VARIABLES
  content,     \* the server's newest content of the file
  published,   \* the server's __revisions: set once the content is in place
  file,        \* the destination: whose content, and whether all of it
  known,       \* the revision the application has persisted; 0 is ""
  hasToken,    \* _token # ""
  pc,
  call,        \* the operation a thread is in, with its local variables
  failures,
  crossed,     \* history: calls with the destination have overlapped since there was none
  spoiled      \* history: the destination is not what one call after the other has left

server   == <<content, published>>
disk     == <<file, known>>
control  == <<pc, call>>
history  == <<crossed, spoiled>>
vars == <<server, disk, hasToken, control, failures, history>>

Revisions == 0 .. MaxRevision

\* Does the operation check the revision, has it a destination; known_revision,
\* result.revision, the bytes of the response.
Calls == [checks : BOOLEAN, saves : BOOLEAN,
          argument : Revisions, revision : Revisions, payload : Revisions]
NoCall == [checks |-> FALSE, saves |-> FALSE, argument |-> 0, revision |-> 0, payload |-> 0]

Pcs == {"idle", "metadata", "token", "get", "open", "write", "record"}

\* Thread t goes on in call c, or returns.
Goto(t, from, to, c) ==
  /\ pc[t] = from
  /\ pc' = [pc EXCEPT ![t] = to]
  /\ call' = [call EXCEPT ![t] = IF to = "idle" THEN NoCall ELSE c]

\* Calls with the destination that overlap write, persist and look up what is
\* persisted in any order, and one that checks no revision and fails leaves half a
\* file under a revision that is up to date.  Either is over when a call that no
\* other one has crossed has written the file.
NoteHistory ==
  /\ crossed' = \/ \E t, u \in Threads : t # u /\ call'[t].saves /\ call'[u].saves
                \/ crossed /\ \E t \in Threads : call'[t].saves
  /\ spoiled' = \/ crossed'
                \/ \E t \in Threads : pc[t] = "write" /\ pc'[t] = "idle" /\ ~call[t].checks
                \/ /\ spoiled
                   /\ crossed \/ \A t \in Threads : ~(pc[t] = "write" /\ pc'[t] = "record")

Fail == failures < MaxFailures /\ failures' = failures + 1

Init ==
  /\ content = 1 /\ published = 1
  /\ file = [rev |-> 0, complete |-> FALSE] /\ known = 0
  /\ hasToken = FALSE
  /\ pc = [t \in Threads |-> "idle"]
  /\ call = [t \in Threads |-> NoCall]
  /\ failures = 0 /\ crossed = FALSE /\ spoiled = FALSE

-----------------------------------------------------------------------------
(* The application's calls                                                 *)

\* download_if_new(reference_id, known): with the destination, or for the bytes
CallIfNew(t, saves) ==
  /\ Goto(t, "idle", "metadata",
          [NoCall EXCEPT !.checks = TRUE, !.saves = saves, !.argument = known])
  /\ UNCHANGED <<server, disk, hasToken, failures>>

\* download_to_file(reference_id, destination), download(reference_id)
CallDownload(t, saves) ==
  /\ Goto(t, "idle", "token", [NoCall EXCEPT !.saves = saves])
  /\ UNCHANGED <<server, disk, hasToken, failures>>

\* Mutant: the revision is asked for again once the file is there.
RecordsLatest(t) ==
  /\ Goto(t, "record", "idle", NoCall)
  /\ known' = IF call[t].checks THEN published ELSE known
  /\ UNCHANGED <<server, file, hasToken, failures>>

\* Mutant: off by one.
RecordsNext(t) ==
  /\ Goto(t, "record", "idle", NoCall)
  /\ known' = IF call[t].checks THEN call[t].revision + 1 ELSE known
  /\ UNCHANGED <<server, file, hasToken, failures>>

\* "if result.downloaded: last_revision = result.revision  # persist this"
Record(t) ==
  /\ Goto(t, "record", "idle", NoCall)
  /\ known' = IF call[t].checks THEN call[t].revision ELSE known
  /\ UNCHANGED <<server, file, hasToken, failures>>

-----------------------------------------------------------------------------
(* metadata(), and what download_if_new makes of its answer                *)

\* Mutant: any known revision will do.
KnowsAny(c, rev) == c.argument # 0

IsKnown(c, rev) == c.argument # 0 /\ c.argument = rev

Metadata(t) ==
  /\ Goto(t, "metadata", IF IsKnown(call[t], published) THEN "idle" ELSE "token",
          [call[t] EXCEPT !.revision = published])
  /\ UNCHANGED <<server, disk, hasToken, failures>>

-----------------------------------------------------------------------------
(* download(), download_to_file()                                          *)

ReadToken(t) ==
  /\ Goto(t, "token", IF hasToken THEN "get" ELSE "idle", call[t])
  /\ UNCHANGED <<server, disk, hasToken, failures>>

\* Whatever the server's newest content is by now.
Get(t) ==
  /\ Goto(t, "get", IF call[t].saves THEN "open" ELSE "idle",
          [call[t] EXCEPT !.payload = content])
  /\ UNCHANGED <<server, disk, hasToken, failures>>

\* Mutant: the revision is asked for once the bytes are there.
OpensUnderLatest(t) ==
  /\ Goto(t, "open", "write", [call[t] EXCEPT !.revision = published])
  /\ file' = [rev |-> call[t].payload, complete |-> FALSE]
  /\ UNCHANGED <<server, known, hasToken, failures>>

\* write_bytes truncates the destination and then writes it.
Open(t) ==
  /\ Goto(t, "open", "write", call[t])
  /\ file' = [rev |-> call[t].payload, complete |-> FALSE]
  /\ UNCHANGED <<server, known, hasToken, failures>>

Written(t) ==
  /\ Goto(t, "write", "record", call[t])
  /\ file' = [rev |-> call[t].payload, complete |-> TRUE]
  /\ UNCHANGED <<server, known, hasToken, failures>>

\* LOCAL_FAILURE: what has been written so far stays.
WriteFails(t) ==
  /\ Fail
  /\ Goto(t, "open", "idle", NoCall) \/ Goto(t, "write", "idle", NoCall)
  /\ UNCHANGED <<server, disk, hasToken>>

\* The exchange is lost or answered with an error, or by a token the server does
\* not take any more.
DownloadRaises(t) ==
  /\ Fail
  /\ Goto(t, "get", "idle", NoCall)
  /\ UNCHANGED <<server, disk, hasToken>>

\* The same, or _parse_metadata finds a field missing or of the wrong type.
MetadataRaises(t) ==
  /\ Fail
  /\ Goto(t, "metadata", "idle", NoCall)
  /\ UNCHANGED <<server, disk, hasToken>>

-----------------------------------------------------------------------------
(* The session that provides the token, the process, and the server        *)

\* The application authenticates or beats, asks for a token and is given one.
SetToken ==
  /\ ~hasToken /\ hasToken' = TRUE
  /\ UNCHANGED <<server, disk, control, failures>>

ClearToken ==
  /\ Fail
  /\ hasToken /\ hasToken' = FALSE
  /\ UNCHANGED <<server, disk, control>>

\* The process dies and is started again: what is on disk stays as it is.
Crash ==
  /\ Fail
  /\ pc' = [t \in Threads |-> "idle"] /\ call' = [t \in Threads |-> NoCall]
  /\ hasToken' = FALSE
  /\ UNCHANGED <<server, disk>>

\* The server replaces the content, and then says so.
Upload ==
  /\ content = published /\ content < MaxRevision /\ content' = content + 1
  /\ UNCHANGED <<published, disk, hasToken, control, failures>>

Publish ==
  /\ published < content /\ published' = content
  /\ UNCHANGED <<content, disk, hasToken, control, failures>>

Step(t) == Metadata(t) \/ ReadToken(t) \/ Get(t) \/ Open(t) \/ Written(t) \/ Record(t)
Call(t) == \E saves \in BOOLEAN : CallIfNew(t, saves) \/ CallDownload(t, saves)

Raises(t) == MetadataRaises(t) \/ DownloadRaises(t) \/ WriteFails(t)

Next ==
  /\ \/ \E t \in Threads : Call(t) \/ Step(t) \/ Raises(t)
     \/ SetToken \/ ClearToken \/ Crash \/ Upload \/ Publish
  /\ NoteHistory

Spec == Init /\ [][Next]_vars

\* A call goes on (the transport has a timeout) and the application keeps asking for
\* the file.
Fairness ==
  \A t \in Threads :
    WF_vars(Step(t) /\ NoteHistory) /\ SF_vars(CallIfNew(t, TRUE) /\ NoteHistory)

FairSpec == Spec /\ Fairness

-----------------------------------------------------------------------------
(* Properties                                                              *)

TypeOK ==
  /\ content \in Revisions /\ published \in Revisions
  /\ file \in [rev : Revisions, complete : BOOLEAN] /\ known \in Revisions
  /\ hasToken \in BOOLEAN /\ crossed \in BOOLEAN /\ spoiled \in BOOLEAN
  /\ failures \in 0 .. MaxFailures
  /\ pc \in [Threads -> Pcs] /\ call \in [Threads -> Calls]

\* A thread in download_to_file() proper, which replaces what is recorded.
Replacing == \E t \in Threads : pc[t] = "write" /\ ~call[t].checks

\* No update is missed: as long as what the application has persisted answers "not
\* new", all of the newest content is in place, although the file changes between the
\* two requests, writes fail half way and the process dies between any two steps.
\* Overlapping calls can break this; the first call after them that writes the file on
\* its own restores it, whether it checks the revision or not.
NoMissedUpdate ==
  ~spoiled /\ known = published /\ ~Replacing => file.complete /\ file.rev >= published

\* The bytes that come with a revision are at least those of the revision, though the
\* server replaces the file between the two requests and other threads download too.
AtLeastItsRevision ==
  \A t \in Threads : pc[t] \in {"open", "write", "record"} => call[t].payload >= call[t].revision

\* An application that keeps asking, and that is given a token again whenever it has
\* none, comes to hold the file that is published last.
CatchesUp ==
  []<>hasToken => []<>(spoiled \/ (file.complete /\ file.rev >= published))
=============================================================================
