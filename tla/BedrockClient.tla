---------------------------- MODULE BedrockClient ----------------------------
(***************************************************************************)
(* The thread-level behaviour of client.Client and session.BedrockSession. *)
(*                                                                         *)
(* Application threads (Users) call authenticate_with_*, heartbeat_now,    *)
(* on_heartbeat_failure and shutdown on ONE Client; every session that     *)
(* authentication installs may own a daemon heartbeat thread.  The thread  *)
(* of session s is named by s itself.  A call is cut into the steps at     *)
(* which other threads can observe or change what it read: a critical      *)
(* section of _state_lock is one step, a network exchange is two, and the  *)
(* unlocked read-then-write of BedrockSession.fail is three.               *)
(*                                                                         *)
(* What one exchange answers is an element of Outcomes: the verification   *)
(* pipeline and the retry of a lost heartbeat are modules of their own.    *)
(***************************************************************************)
EXTENDS Naturals, FiniteSets

CONSTANTS
  Users,                \* application threads
  AuthUsers,            \* those of them that authenticate
  Hooks,                \* failure hooks the application registers
  ShutdownHooks,        \* the hooks whose body calls client.shutdown()
  NoHook, NoThread,     \* Python's None, where a hook or a lock owner is expected
  Outcomes,             \* how a heartbeat exchange may end, see OutcomeKinds
  AutomaticHeartbeats,  \* config.automatic_heartbeats
  ClockJumps,           \* whether the wall clock may be stepped
  FolderTokens,         \* whether the application asks for Invisible Folder tokens
  MaxSessions           \* bound: sessions the server grants

SessionIds == 1 .. MaxSessions
NoSession  == 0
MaybeSession == SessionIds \cup {NoSession}
Threads    == Users \cup SessionIds

(***************************************************************************)
(* The ends of _heartbeat_once once the request was sent:                  *)
(*   ok      the rotated token is stored,                                  *)
(*   denied  fail() runs and the verified denial is returned,              *)
(*   raised  fail() runs and a BedrockError is raised,                     *)
(*   escaped an exception that is no BedrockError leaves the method, so    *)
(*           fail() does not run (the body of the response is not UTF-8:   *)
(*           verify.py decodes it outside any handler).                    *)
(***************************************************************************)
OutcomeKinds == {"ok", "denied", "raised", "escaped"}

ASSUME ConstantsAssumption ==
  /\ MaxSessions \in Nat \ {0}
  /\ Users \cap SessionIds = {}
  /\ AuthUsers \subseteq Users
  /\ NoHook \notin Hooks /\ ShutdownHooks \subseteq Hooks
  /\ NoThread \notin Threads
  /\ Outcomes \subseteq OutcomeKinds
  /\ {AutomaticHeartbeats, ClockJumps, FolderTokens} \subseteq BOOLEAN

VARIABLES
  \* the Client
  current,      \* _session
  clientHook,   \* _failure_hook
  folderToken,  \* whether the Invisible Folder holds a token
  created,      \* sessions the server has granted so far
  \* the BedrockSessions; _stop_event is set exactly when _alive is FALSE
  alive, sessHook, requestLock,
  \* the threads: program counter and local variables
  pc,
  target,       \* the session a heartbeat, a failure or set_hook works on
  prev,         \* the previous session an authenticate or a shutdown stops
  fresh,        \* the session an authenticate installs
  wasAlive,     \* was_alive of fail()
  granted,      \* whether the response carries an Invisible Folder token
  hookArg,      \* the hook being registered, or being run by fail()
  \* history, read by properties only
  fired,        \* how many times fail() invoked a hook for the session
  unheard,      \* fail() had a failure to report and found no hook
  retired,      \* stop() was called by authenticate or shutdown
  jumped,       \* the heartbeat thread saw a clock jump
  closed        \* shutdown() is over and nobody has authenticated since

clientVars  == <<current, clientHook, folderToken, created>>
sessionVars == <<alive, sessHook, requestLock>>
callVars    == <<target, prev, fresh>>
failVars    == <<wasAlive, granted, hookArg>>
localVars   == <<pc, callVars, failVars>>
historyVars == <<fired, unheard, retired, jumped, closed>>
vars == <<clientVars, sessionVars, localVars, historyVars>>

AuthPcs == {"auth_wait", "auth_stop", "auth_join", "auth_new", "auth_publish", "auth_token"}
ShutPcs == {"shut_stop", "shut_join", "shut_clear"}
FailPcs == {"fail_read", "fail_stop", "fail_hook", "hook", "fail_done"}
BeatPcs == {"beat_lock", "beat_reply", "beat_token"}
Pcs     == AuthPcs \cup ShutPcs \cup FailPcs \cup BeatPcs
             \cup {"idle", "set_hook", "off", "sleep", "done"}

Init ==
  /\ current = NoSession /\ clientHook = NoHook /\ folderToken = FALSE /\ created = 0
  /\ alive = [s \in SessionIds |-> FALSE]
  /\ sessHook = [s \in SessionIds |-> NoHook]
  /\ requestLock = [s \in SessionIds |-> NoThread]
  /\ pc = [t \in Threads |-> IF t \in Users THEN "idle" ELSE "off"]
  /\ target = [t \in Threads |-> NoSession]
  /\ prev = [t \in Threads |-> NoSession]
  /\ fresh = [t \in Threads |-> NoSession]
  /\ wasAlive = [t \in Threads |-> FALSE]
  /\ granted = [t \in Threads |-> FALSE]
  /\ hookArg = [t \in Threads |-> NoHook]
  /\ fired = [s \in SessionIds |-> 0]
  /\ unheard = [s \in SessionIds |-> FALSE]
  /\ retired = [s \in SessionIds |-> FALSE]
  /\ jumped = [s \in SessionIds |-> FALSE]
  /\ closed = FALSE

-----------------------------------------------------------------------------
(* Steps shared by several calls.                                          *)

Goto(t, from, to) == pc[t] = from /\ pc' = [pc EXCEPT ![t] = to]

\* Where a thread is after the call it made to the session has returned:
\* an application thread is free, a heartbeat thread leaves _run.
Rest(t) == IF t \in Users THEN "idle" ELSE "done"

\* Where a thread is after shutdown(): a shutdown called by a hook returns
\* into fail(), whose handler also swallows what the hook raises.
AfterShutdown(t) == IF target[t] = NoSession THEN "idle" ELSE "fail_done"

\* Mutant of Stop: the session is left alive.
StopForgets(s) == UNCHANGED alive

\* BedrockSession.stop()
Stop(s) == alive' = [alive EXCEPT ![s] = FALSE]

\* stop() called on the previous session by authenticate or shutdown.
Retire(s) ==
  /\ Stop(s)
  /\ retired' = [retired EXCEPT ![s] = TRUE]

\* BedrockSession.wait(timeout): the heartbeat thread was never started or
\* has ended ...
ThreadEnded(s) == pc[s] \in {"off", "done"}

\* Mutant of JoinTimesOut: join() is called without a timeout.
JoinsForever(s) == FALSE

\* ... or the join gives up while that thread is inside a request, waits for
\* the request lock or runs a hook (one heartbeat may last two request
\* timeouts, the join lasts one and five seconds).
JoinTimesOut(s) == pc[s] \notin {"off", "done", "sleep"}

\* A response may carry a folder token only if the call asked for one, which
\* authenticate and heartbeat_now may and _run does not.
MayGrant(t) == IF t \in Users /\ FolderTokens THEN BOOLEAN ELSE {FALSE}

\* Mutant of LockFree: the request lock is taken while another thread holds it.
LockIgnored(s) == TRUE

\* `with self._request_lock` can be entered ...
LockFree(s) == requestLock[s] = NoThread

\* Mutants of Release: the lock is kept, or marked with what is no owner.
ReleaseForgets(t) == UNCHANGED requestLock
ReleaseToNobody(t) ==
  requestLock' = [s \in SessionIds |-> IF requestLock[s] = t THEN NoSession ELSE requestLock[s]]

\* ... and is left, for the session whose lock t holds.
Release(t) ==
  requestLock' = [s \in SessionIds |-> IF requestLock[s] = t THEN NoThread ELSE requestLock[s]]

-----------------------------------------------------------------------------
(* Client._authenticate                                                    *)

AuthSend(u) ==
  /\ u \in AuthUsers
  /\ Goto(u, "idle", "auth_wait")
  /\ closed' = FALSE
  /\ UNCHANGED <<clientVars, sessionVars, callVars, failVars, fired, unheard, retired, jumped>>

\* A transport failure, a response that does not verify, a denial, or a
\* token or identity hash that does not fit: nothing of the client changes.
AuthRejected(u) ==
  /\ Goto(u, "auth_wait", "idle")
  /\ UNCHANGED <<clientVars, sessionVars, callVars, failVars, historyVars>>

\* The accepted response, then the previous session read under _state_lock.
AuthAccepted(u) ==
  /\ created < MaxSessions
  /\ Goto(u, "auth_wait", IF current = NoSession THEN "auth_new" ELSE "auth_stop")
  /\ created' = created + 1
  /\ fresh' = [fresh EXCEPT ![u] = created + 1]
  /\ prev' = [prev EXCEPT ![u] = current]
  /\ \E g \in MayGrant(u) : granted' = [granted EXCEPT ![u] = g]
  /\ UNCHANGED <<current, clientHook, folderToken, sessionVars, target, wasAlive, hookArg,
                 historyVars>>

AuthStop(u) ==
  /\ Goto(u, "auth_stop", "auth_join")
  /\ Retire(prev[u])
  /\ UNCHANGED <<clientVars, sessHook, requestLock, callVars, failVars, fired, unheard, jumped,
                 closed>>

AuthJoin(u) ==
  /\ Goto(u, "auth_join", "auth_new")
  /\ ThreadEnded(prev[u]) \/ JoinTimesOut(prev[u])
  /\ prev' = [prev EXCEPT ![u] = NoSession]
  /\ UNCHANGED <<clientVars, sessionVars, target, fresh, failVars, historyVars>>

\* BedrockSession(self, token, self._failure_hook), which reads the hook
\* without a lock, and session.start().
AuthNew(u) ==
  /\ pc[u] = "auth_new"
  /\ alive' = [alive EXCEPT ![fresh[u]] = TRUE]
  /\ sessHook' = [sessHook EXCEPT ![fresh[u]] = clientHook]
  /\ pc' = [t \in Threads |-> IF t = u THEN "auth_publish"
                              ELSE IF t = fresh[u] /\ AutomaticHeartbeats THEN "sleep"
                              ELSE pc[t]]
  /\ UNCHANGED <<clientVars, requestLock, callVars, failVars, historyVars>>

AuthPublish(u) ==
  /\ Goto(u, "auth_publish", IF granted[u] THEN "auth_token" ELSE "idle")
  /\ current' = fresh[u]
  /\ fresh' = IF granted[u] THEN fresh ELSE [fresh EXCEPT ![u] = NoSession]
  /\ UNCHANGED <<clientHook, folderToken, created, sessionVars, target, prev, failVars,
                 historyVars>>

AuthToken(u) ==
  /\ Goto(u, "auth_token", "idle")
  /\ folderToken' = TRUE
  /\ fresh' = [fresh EXCEPT ![u] = NoSession]
  /\ granted' = [granted EXCEPT ![u] = FALSE]
  /\ UNCHANGED <<current, clientHook, created, sessionVars, target, prev, wasAlive, hookArg,
                 historyVars>>

-----------------------------------------------------------------------------
(* Client.heartbeat_now and BedrockSession._run up to the request          *)

HeartbeatNow(u) ==
  /\ current # NoSession
  /\ Goto(u, "idle", "beat_lock")
  /\ target' = [target EXCEPT ![u] = current]
  /\ UNCHANGED <<clientVars, sessionVars, prev, fresh, failVars, historyVars>>

\* The event wait ends because the session was stopped.
BeaterStop(s) ==
  /\ ~alive[s]
  /\ Goto(s, "sleep", "done")
  /\ UNCHANGED <<clientVars, sessionVars, callVars, failVars, historyVars>>

\* The event wait ends because the beat period has passed.
BeaterTick(s) ==
  /\ alive[s]
  /\ Goto(s, "sleep", "beat_lock")
  /\ target' = [target EXCEPT ![s] = s]
  /\ UNCHANGED <<clientVars, sessionVars, prev, fresh, failVars, historyVars>>

\* ... and the clocks disagree: fail() is called without the request lock.
BeaterClockJump(s) ==
  /\ ClockJumps /\ alive[s]
  /\ Goto(s, "sleep", "fail_read")
  /\ target' = [target EXCEPT ![s] = s]
  /\ jumped' = [jumped EXCEPT ![s] = TRUE]
  /\ UNCHANGED <<clientVars, sessionVars, prev, fresh, failVars, fired, unheard, retired,
                 closed>>

-----------------------------------------------------------------------------
(* BedrockSession.heartbeat and _heartbeat_once                            *)

\* The call ends without having set a folder token; t is free or _run ends.
BeatEnds(t) ==
  /\ pc' = [pc EXCEPT ![t] = Rest(t)]
  /\ target' = [target EXCEPT ![t] = NoSession]

BeatSent(t) ==
  /\ Goto(t, "beat_lock", "beat_reply")
  /\ LockFree(target[t])
  /\ alive[target[t]]
  /\ requestLock' = [requestLock EXCEPT ![target[t]] = t]
  /\ UNCHANGED <<clientVars, alive, sessHook, callVars, failVars, historyVars>>

\* The lock is taken, the session is found dead, the lock is given back.
BeatRefused(t) ==
  /\ pc[t] = "beat_lock"
  /\ LockFree(target[t])
  /\ ~alive[target[t]]
  /\ BeatEnds(t)
  /\ UNCHANGED <<clientVars, sessionVars, prev, fresh, failVars, historyVars>>

\* A response is returned: heartbeat_now stores the folder token it carries,
\* _run looks at _alive.
BeatReturns(t, g) ==
  /\ granted' = [granted EXCEPT ![t] = g]
  /\ target' = IF g THEN target ELSE [target EXCEPT ![t] = NoSession]
  /\ pc' = [pc EXCEPT ![t] = IF g THEN "beat_token"
                             ELSE IF t \in Users THEN "idle"
                             ELSE IF alive[t] THEN "sleep" ELSE "done"]

\* The rotated token is stored, whatever has become of _alive meanwhile.
BeatOk(t) ==
  /\ "ok" \in Outcomes
  /\ pc[t] = "beat_reply"
  /\ Release(t)
  /\ \E g \in MayGrant(t) : BeatReturns(t, g)
  /\ UNCHANGED <<clientVars, alive, sessHook, prev, fresh, wasAlive, hookArg, historyVars>>

\* A verified answer that ends the session is returned, not raised: with code
\* OUTDATED it may carry a folder token that heartbeat_now will still store.
BeatDenied(t) ==
  /\ "denied" \in Outcomes
  /\ Goto(t, "beat_reply", "fail_read")
  /\ \E g \in MayGrant(t) : granted' = [granted EXCEPT ![t] = g]
  /\ UNCHANGED <<clientVars, sessionVars, callVars, wasAlive, hookArg, historyVars>>

BeatRaised(t) ==
  /\ "raised" \in Outcomes
  /\ Goto(t, "beat_reply", "fail_read")
  /\ UNCHANGED <<clientVars, sessionVars, callVars, failVars, historyVars>>

BeatEscaped(t) ==
  /\ "escaped" \in Outcomes
  /\ pc[t] = "beat_reply"
  /\ BeatEnds(t)
  /\ Release(t)
  /\ UNCHANGED <<clientVars, alive, sessHook, prev, fresh, failVars, historyVars>>

\* heartbeat_now stores the folder token of the response it was returned.
BeatToken(u) ==
  /\ pc[u] = "beat_token"
  /\ BeatEnds(u)
  /\ folderToken' = TRUE
  /\ granted' = [granted EXCEPT ![u] = FALSE]
  /\ UNCHANGED <<current, clientHook, created, sessionVars, prev, fresh, wasAlive, hookArg,
                 historyVars>>

-----------------------------------------------------------------------------
(* BedrockSession.fail: no lock protects _alive or _hook                   *)

\* Mutant of FailRead: _alive is read after stop() has cleared it.
FailReadLate(t) ==
  /\ Goto(t, "fail_read", "fail_stop")
  /\ alive' = [alive EXCEPT ![target[t]] = FALSE]
  /\ wasAlive' = [wasAlive EXCEPT ![t] = FALSE]
  /\ UNCHANGED <<clientVars, sessHook, requestLock, callVars, granted, hookArg, historyVars>>

FailRead(t) ==
  /\ Goto(t, "fail_read", "fail_stop")
  /\ wasAlive' = [wasAlive EXCEPT ![t] = alive[target[t]]]
  /\ UNCHANGED <<clientVars, sessionVars, callVars, granted, hookArg, historyVars>>

FailStop(t) ==
  /\ Goto(t, "fail_stop", IF wasAlive[t] THEN "fail_hook" ELSE "fail_done")
  /\ Stop(target[t])
  /\ wasAlive' = [wasAlive EXCEPT ![t] = FALSE]
  /\ UNCHANGED <<clientVars, sessHook, requestLock, callVars, granted, hookArg, historyVars>>

FailUnheard(t) ==
  /\ Goto(t, "fail_hook", "fail_done")
  /\ sessHook[target[t]] = NoHook
  /\ unheard' = [unheard EXCEPT ![target[t]] = TRUE]
  /\ UNCHANGED <<clientVars, sessionVars, callVars, failVars, fired, retired, jumped, closed>>

FailFires(t) ==
  /\ Goto(t, "fail_hook", "hook")
  /\ sessHook[target[t]] # NoHook
  /\ hookArg' = [hookArg EXCEPT ![t] = sessHook[target[t]]]
  /\ fired' = [fired EXCEPT ![target[t]] = @ + 1]
  /\ UNCHANGED <<clientVars, sessionVars, callVars, wasAlive, granted, unheard, retired, jumped,
                 closed>>

\* A hook that does not call the client returns or raises: fail() goes on.
HookReturns(t) ==
  /\ Goto(t, "hook", "fail_done")
  /\ hookArg[t] \notin ShutdownHooks
  /\ hookArg' = [hookArg EXCEPT ![t] = NoHook]
  /\ UNCHANGED <<clientVars, sessionVars, callVars, wasAlive, granted, historyVars>>

\* fail() returns into the heartbeat, which gives the request lock back, or
\* into _run; either way the heartbeat thread ends.
FailDone(t) ==
  /\ pc[t] = "fail_done"
  /\ Release(t)
  /\ pc' = [pc EXCEPT ![t] = IF granted[t] THEN "beat_token" ELSE Rest(t)]
  /\ target' = IF granted[t] THEN target ELSE [target EXCEPT ![t] = NoSession]
  /\ UNCHANGED <<clientVars, alive, sessHook, prev, fresh, failVars, historyVars>>

-----------------------------------------------------------------------------
(* Client.on_heartbeat_failure                                             *)

RegisterHook(u, h) ==
  /\ Goto(u, "idle", IF current = NoSession THEN "idle" ELSE "set_hook")
  /\ clientHook' = h
  /\ target' = [target EXCEPT ![u] = current]
  /\ hookArg' = [hookArg EXCEPT ![u] = IF current = NoSession THEN NoHook ELSE h]
  /\ UNCHANGED <<current, folderToken, created, sessionVars, prev, fresh, wasAlive, granted,
                 historyVars>>

SetHook(u) ==
  /\ Goto(u, "set_hook", "idle")
  /\ sessHook' = [sessHook EXCEPT ![target[u]] = hookArg[u]]
  /\ target' = [target EXCEPT ![u] = NoSession]
  /\ hookArg' = [hookArg EXCEPT ![u] = NoHook]
  /\ UNCHANGED <<clientVars, alive, requestLock, prev, fresh, wasAlive, granted, historyVars>>

-----------------------------------------------------------------------------
(* Client.shutdown, called by an application thread or by a hook           *)

CallsShutdown(t) ==
  \/ t \in Users /\ pc[t] = "idle"
  \/ pc[t] = "hook" /\ hookArg[t] \in ShutdownHooks

ShutBegin(t) ==
  /\ CallsShutdown(t)
  /\ prev' = [prev EXCEPT ![t] = current]
  /\ current' = NoSession
  /\ pc' = [pc EXCEPT ![t] = IF current = NoSession THEN "shut_clear" ELSE "shut_stop"]
  /\ hookArg' = [hookArg EXCEPT ![t] = NoHook]
  /\ UNCHANGED <<clientHook, folderToken, created, sessionVars, target, fresh, wasAlive,
                 granted, historyVars>>

ShutStop(t) ==
  /\ Goto(t, "shut_stop", "shut_join")
  /\ Retire(prev[t])
  /\ UNCHANGED <<clientVars, sessHook, requestLock, callVars, failVars, fired, unheard, jumped,
                 closed>>

\* A call of shutdown() is over (history, for FolderClosed).
Closes == closed' = \A u \in Users : pc[u] \notin AuthPcs

ShutJoin(t) ==
  /\ Goto(t, "shut_join", "shut_clear")
  /\ prev[t] # t
  /\ ThreadEnded(prev[t]) \/ JoinTimesOut(prev[t])
  /\ prev' = [prev EXCEPT ![t] = NoSession]
  /\ UNCHANGED <<clientVars, sessionVars, target, fresh, failVars, historyVars>>

\* A hook on the heartbeat thread shuts its own session down: join() raises
\* RuntimeError, which leaves shutdown() and is swallowed by fail().
ShutJoinSelf(t) ==
  /\ Goto(t, "shut_join", "fail_done")
  /\ prev[t] = t
  /\ prev' = [prev EXCEPT ![t] = NoSession]
  /\ Closes
  /\ UNCHANGED <<clientVars, sessionVars, target, fresh, failVars, fired, unheard, retired,
                 jumped>>

ShutClear(t) ==
  /\ Goto(t, "shut_clear", AfterShutdown(t))
  /\ folderToken' = FALSE
  /\ Closes
  /\ UNCHANGED <<current, clientHook, created, sessionVars, callVars, failVars, fired, unheard,
                 retired, jumped>>

-----------------------------------------------------------------------------

\* What an application thread, or the beat period, starts on its own.
UserStarts(u) ==
  \/ AuthSend(u) \/ HeartbeatNow(u)
  \/ \E h \in Hooks : RegisterHook(u, h)
  \/ pc[u] = "idle" /\ ShutBegin(u)

\* What a started call, or a stopped heartbeat thread, goes on to do.
AuthContinues(u) ==
  \/ AuthRejected(u) \/ AuthAccepted(u) \/ AuthStop(u) \/ AuthJoin(u)
  \/ AuthNew(u) \/ AuthPublish(u) \/ AuthToken(u)

BeatContinues(t) ==
  \/ BeatSent(t) \/ BeatRefused(t)
  \/ BeatOk(t) \/ BeatDenied(t) \/ BeatRaised(t) \/ BeatEscaped(t)
  \/ FailRead(t) \/ FailStop(t) \/ FailUnheard(t) \/ FailFires(t) \/ HookReturns(t) \/ FailDone(t)

ShutContinues(t) ==
  \/ pc[t] = "hook" /\ ShutBegin(t)
  \/ ShutStop(t) \/ ShutJoin(t) \/ ShutJoinSelf(t) \/ ShutClear(t)

UserContinues(u)   == AuthContinues(u) \/ BeatToken(u) \/ SetHook(u)
ThreadContinues(t) == BeatContinues(t) \/ ShutContinues(t)

Next ==
  \/ \E u \in Users : UserStarts(u) \/ UserContinues(u)
  \/ \E t \in Threads : ThreadContinues(t)
  \/ \E s \in SessionIds : BeaterStop(s) \/ BeaterTick(s) \/ BeaterClockJump(s)

Spec == Init /\ [][Next]_vars

\* Every thread that is in a call is scheduled, every exchange ends (the
\* transport has a timeout), a join ends, and Event.wait returns once the
\* event is set.  Nobody is obliged to call the client, nor a period to end.
Fairness ==
  /\ \A u \in Users : WF_vars(UserContinues(u) \/ ThreadContinues(u))
  /\ \A s \in SessionIds : WF_vars(ThreadContinues(s) \/ BeaterStop(s))

FairSpec == Spec /\ Fairness

-----------------------------------------------------------------------------
(* Properties                                                              *)

TypeOK ==
  /\ current \in MaybeSession /\ folderToken \in BOOLEAN
  /\ created \in 0 .. MaxSessions
  /\ clientHook \in Hooks \cup {NoHook}
  /\ alive \in [SessionIds -> BOOLEAN]
  /\ sessHook \in [SessionIds -> Hooks \cup {NoHook}]
  /\ requestLock \in [SessionIds -> Threads \cup {NoThread}]
  /\ pc \in [Threads -> Pcs]
  /\ target \in [Threads -> MaybeSession]
  /\ prev \in [Threads -> MaybeSession]
  /\ fresh \in [Threads -> MaybeSession]
  /\ wasAlive \in [Threads -> BOOLEAN]
  /\ granted \in [Threads -> BOOLEAN]
  /\ hookArg \in [Threads -> Hooks \cup {NoHook}]
  /\ fired \in [SessionIds -> Nat]
  /\ unheard \in [SessionIds -> BOOLEAN]
  /\ retired \in [SessionIds -> BOOLEAN]
  /\ jumped \in [SessionIds -> BOOLEAN]
  /\ closed \in BOOLEAN

\* The failure hook of a session runs once, and at most once more when the
\* heartbeat thread reports a clock jump, the one failure that is not
\* serialized by the request lock.
HookBound == \A s \in SessionIds : fired[s] <= IF jumped[s] THEN 2 ELSE 1

\* The documented form of it: "Delivered to the failure hook exactly once per
\* session", whatever fails and on whichever threads.
HookOnce == \A s \in SessionIds : fired[s] <= 1

\* The session objects that exist: those whose constructor has run.
Born == {s \in SessionIds :
           /\ s <= created
           /\ \A u \in Users : fresh[u] = s => pc[u] \in {"auth_publish", "auth_token"}}

\* A session that no authenticate and no shutdown stopped dies only with its
\* failure reported: the hook has run, is about to be looked up, or there was
\* none.  Two racing fail() calls must not both believe the other reports.
DeathIsReported ==
  \A s \in Born :
    ~alive[s] /\ ~retired[s] =>
      \/ fired[s] > 0 \/ unheard[s]
      \/ \E t \in Threads : pc[t] = "fail_hook" /\ target[t] = s

\* Two requests of one session are never in flight together (the server would
\* answer the second with CONCURRENT_HEARTBEAT): the rotated token is never
\* computed from a token that another thread is rotating.
BeatExclusion ==
  \A t1, t2 \in Threads :
    pc[t1] = "beat_reply" /\ pc[t2] = "beat_reply" /\ target[t1] = target[t2] => t1 = t2

\* No session goes on beating behind the client's back: a live session is the
\* current one, or the one being published, or is about to be stopped by the
\* thread that took it.
Stopping(s) ==
  \/ \E u \in Users : pc[u] = "auth_stop" /\ prev[u] = s
  \/ \E t \in Threads : pc[t] = "shut_stop" /\ prev[t] = s

NoOrphan ==
  \A s \in SessionIds :
    alive[s] => \/ current = s
                \/ \E u \in Users : pc[u] = "auth_publish" /\ fresh[u] = s
                \/ Stopping(s)

\* When no registration and no authenticate is under way, the hook the current
\* session would call is the one registered last.  It takes one application thread:
\* the session of an authenticate gets the hook that was registered when it read the
\* client's, and two registrations may reach the session in the other order.
HookAgreement ==
  (\A u \in Users : pc[u] # "set_hook" /\ pc[u] \notin AuthPcs) /\ current # NoSession
    => sessHook[current] = clientHook

\* After a shutdown(), also one that a hook calls, and until somebody
\* authenticates, the folder holds no token: "Tokens live in memory only and
\* clear on shutdown()".
FolderClosed == closed => ~folderToken

\* A heartbeat thread that has ended leaves a dead session: is_authenticated()
\* does not go on answering True for a session nobody beats.
BeaterDeathKillsSession == \A s \in SessionIds : pc[s] = "done" => ~alive[s]

\* A shutdown() always returns, also when it is called by a hook that runs
\* inside a heartbeat and holds the request lock the joined thread waits for.
ShutdownReturns == \A t \in Threads : pc[t] \in ShutPcs ~> pc[t] \notin ShutPcs

\* Once its session is dead, a heartbeat thread ends.
StoppedBeaterExits ==
  \A s \in SessionIds : pc[s] # "off" /\ ~alive[s] ~> pc[s] = "done"

=============================================================================
