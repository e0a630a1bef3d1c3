------------------------ MODULE BedrockClientProofs ------------------------
(* Theorems about BedrockClient for any threads, hooks and bounds.          *)
EXTENDS BedrockClient, TLAPS

\* What the program counter says of the local variables: the sessions a
\* thread works on exist whenever it is at a step that uses them, and only an
\* application thread ever expects a folder token.
LocalsOK ==
  /\ \A t \in Threads :
       /\ pc[t] \in BeatPcs \cup FailPcs \cup {"set_hook"} => target[t] \in SessionIds
       /\ pc[t] \in {"shut_stop", "shut_join"} => prev[t] \in SessionIds
  /\ \A u \in Users :
       /\ pc[u] \in {"auth_stop", "auth_join"} => prev[u] \in SessionIds
       /\ pc[u] \in AuthPcs \ {"auth_wait"} => fresh[u] \in SessionIds
  /\ \A s \in SessionIds :
       /\ ~granted[s] /\ target[s] \in {s, NoSession}
       /\ pc[s] \in ShutPcs => target[s] \in SessionIds
       /\ pc[s] \in {"off", "sleep", "done"} \cup BeatPcs \cup FailPcs \cup ShutPcs

TypeInv == TypeOK /\ LocalsOK

\* Who holds a request lock: a thread with a request in flight holds the lock
\* of its session, and a holder is inside that session's heartbeat or inside
\* the failure handling (and the hook, and the hook's shutdown) it led to.
LockInv ==
  /\ \A t \in Threads : pc[t] = "beat_reply" => requestLock[target[t]] = t
  /\ \A s \in SessionIds :
       requestLock[s] # NoThread =>
         /\ target[requestLock[s]] = s
         /\ pc[requestLock[s]] \in {"beat_reply"} \cup FailPcs \cup ShutPcs

\* A session an authenticate was granted is its own until it is published.
FreshInv ==
  /\ \A u \in Users : fresh[u] <= created
  /\ \A u \in Users :
       pc[u] \notin {"auth_stop", "auth_join", "auth_new", "auth_publish", "auth_token"}
         => fresh[u] = NoSession
  /\ \A u, v \in Users : fresh[u] = fresh[v] /\ fresh[u] # NoSession => u = v

\* Nothing refers to a session before its constructor has run.
BornInv ==
  /\ current \in Born \cup {NoSession}
  /\ \A t \in Threads : target[t] \in Born \cup {NoSession} /\ prev[t] \in Born \cup {NoSession}
  /\ \A s \in SessionIds : alive[s] \/ pc[s] # "off" \/ fired[s] > 0 => s \in Born

\* fail() in progress: what was_alive says, and which lock protects it.
FailInv ==
  /\ \A t \in Threads : pc[t] = "fail_stop" /\ alive[target[t]] => wasAlive[t]
  /\ \A t \in Threads : pc[t] = "fail_hook" => ~alive[target[t]]
  /\ \A t \in Threads :
       pc[t] \in {"fail_read", "fail_stop", "fail_hook"} =>
         requestLock[target[t]] = t \/ (t \in SessionIds /\ target[t] = t /\ jumped[t])
  /\ \A s \in SessionIds :
       jumped[s] => pc[s] \in FailPcs \cup ShutPcs \cup {"done"} /\ requestLock[s] # s

\* The hook calls a session may still make: one by whoever holds its request
\* lock while it lives, and one by its thread reporting a clock jump.
LockedMayFire(s) ==
  \/ alive[s]
  \/ /\ requestLock[s] # NoThread
     /\ pc[requestLock[s]] \in {"beat_reply", "fail_read", "fail_stop", "fail_hook"}
JumpMayFire(s) == pc[s] \in {"fail_read", "fail_stop", "fail_hook"} /\ requestLock[s] # s
One(b) == IF b THEN 1 ELSE 0

FireInv ==
  \A s \in SessionIds :
    fired[s] + One(LockedMayFire(s)) + One(JumpMayFire(s)) <= 1 + One(jumped[s])

\* With one authenticating thread, the session about to be replaced is the
\* current one until it is stopped, and dead from then on.
ReplaceInv ==
  /\ \A u \in Users : pc[u] \in AuthPcs => u \in AuthUsers
  /\ \A u \in Users : pc[u] = "auth_stop" => current \in {NoSession, prev[u]}
  /\ \A u \in Users :
       pc[u] \in {"auth_join", "auth_new", "auth_publish"} =>
         current = NoSession \/ ~alive[current]

\* A heartbeat thread that is past stop() of its own failure, or in the shutdown
\* its hook calls, works on a session that is dead.
DeadInv ==
  \A s \in SessionIds :
    pc[s] \in {"fail_hook", "hook", "fail_done", "done"} \cup ShutPcs => ~alive[s]

\* With one application thread, the hook being handed to a session is the one
\* registered last, and so is the hook of the session being installed.
HookInv ==
  /\ \A u \in Users :
       pc[u] = "set_hook" => current \in {target[u], NoSession} /\ hookArg[u] = clientHook
  /\ \A u \in Users : pc[u] = "auth_publish" => sessHook[fresh[u]] = clientHook
  /\ (\A u \in Users : pc[u] # "set_hook") /\ current # NoSession
       => sessHook[current] = clientHook

\* No heartbeat thread has seen the clock jump.
NoJumpInv == \A s \in SessionIds : ~jumped[s]

\* With one application thread and no hook that calls shutdown(), a shutdown is
\* a call of its own: it ends with no session left and nobody to store a token.
ClosedInv ==
  /\ \A s \in SessionIds : pc[s] \notin ShutPcs
  /\ \A u \in Users :
       /\ pc[u] \in {"idle"} \cup AuthPcs \cup ShutPcs => target[u] = NoSession
       /\ pc[u] \in ShutPcs => current = NoSession
  /\ closed =>
       /\ current = NoSession /\ ~folderToken
       /\ \A u \in Users : pc[u] \in {"idle"} \cup ShutPcs

\* The domains, as the proofs use them: what they contain and how they overlap.
LEMMA Domains ==
  /\ Users \subseteq Threads /\ SessionIds \subseteq Threads /\ AuthUsers \subseteq Users
  /\ \A t \in Threads : t \in Users \/ t \in SessionIds
  /\ \A t \in Users : t \notin SessionIds
  /\ NoThread \notin Threads /\ NoHook \notin Hooks
  /\ SessionIds \subseteq MaybeSession /\ NoSession \in MaybeSession
  /\ NoSession \notin SessionIds
  /\ \A s \in MaybeSession : s # NoSession => s \in SessionIds
  /\ \A n \in 0 .. MaxSessions : n < MaxSessions => n + 1 \in SessionIds /\ n + 1 \in 0 .. MaxSessions
  /\ 0 \in 0 .. MaxSessions
  BY ConstantsAssumption DEF Threads, SessionIds, MaybeSession, NoSession

LEMMA Numbers ==
  /\ NoSession = 0 /\ MaybeSession \subseteq Nat /\ 0 .. MaxSessions \subseteq Nat
  BY ConstantsAssumption DEF SessionIds, MaybeSession, NoSession

LEMMA Grants ==
  /\ \A t \in Threads : MayGrant(t) \subseteq BOOLEAN
  /\ \A s \in SessionIds : \A g \in MayGrant(s) : ~g
  BY Domains DEF MayGrant

LEMMA InitTypeInv == Init => TypeInv
<1> SUFFICES ASSUME Init PROVE TypeInv
  OBVIOUS
<1> USE Domains DEF Init
<1>1. TypeOK
  BY DEF TypeOK, Pcs
<1>2. LocalsOK
  BY DEF LocalsOK, AuthPcs, ShutPcs, FailPcs, BeatPcs
<1> QED
  BY <1>1, <1>2 DEF TypeInv

LEMMA NextTypeOK == TypeInv /\ [Next]_vars => TypeOK'
<1> SUFFICES ASSUME TypeInv, [Next]_vars PROVE TypeOK'
  OBVIOUS
<1> USE Domains
    DEF TypeInv, TypeOK, LocalsOK, Pcs, AuthPcs, ShutPcs, FailPcs, BeatPcs, clientVars, sessionVars,
        historyVars, callVars, failVars, Goto
<1>1. ASSUME NEW u \in Users, AuthSend(u) PROVE TypeOK'
  BY <1>1 DEF AuthSend
<1>2. ASSUME NEW u \in Users, HeartbeatNow(u) PROVE TypeOK'
  BY <1>2 DEF HeartbeatNow
<1>3. ASSUME NEW u \in Users, AuthRejected(u) PROVE TypeOK'
  BY <1>3 DEF AuthRejected
<1>4. ASSUME NEW u \in Users, AuthAccepted(u) PROVE TypeOK'
  <2>1. created < MaxSessions
    BY <1>4 DEF AuthAccepted
  <2>2. created + 1 \in SessionIds /\ created' \in 0 .. MaxSessions
    BY <2>1, <1>4 DEF AuthAccepted
  <2>3. PICK g \in MayGrant(u) : granted' = [granted EXCEPT ![u] = g]
    BY <1>4 DEF AuthAccepted
  <2>4. created + 1 \in MaybeSession
    BY <2>2
  <2>5. fresh' \in [Threads -> MaybeSession] /\ prev' \in [Threads -> MaybeSession]
    BY <2>4, <1>4 DEF AuthAccepted
  <2>6. pc' \in [Threads -> Pcs]
    BY <1>4 DEF AuthAccepted
  <2>7. granted' \in [Threads -> BOOLEAN]
    BY <2>3, Grants, Grants
  <2> QED
    BY <2>2, <2>5, <2>6, <2>7, <1>4 DEF AuthAccepted
<1>5. ASSUME NEW u \in Users, AuthStop(u) PROVE TypeOK'
  BY <1>5 DEF AuthStop, Retire, Stop
<1>6. ASSUME NEW u \in Users, AuthJoin(u) PROVE TypeOK'
  BY <1>6 DEF AuthJoin
<1>7. ASSUME NEW u \in Users, AuthNew(u) PROVE TypeOK'
  BY <1>7 DEF AuthNew
<1>8. ASSUME NEW u \in Users, AuthPublish(u) PROVE TypeOK'
  BY <1>8 DEF AuthPublish
<1>9. ASSUME NEW u \in Users, AuthToken(u) PROVE TypeOK'
  BY <1>9 DEF AuthToken
<1>10. ASSUME NEW u \in Users, BeatToken(u) PROVE TypeOK'
  BY <1>10 DEF BeatToken, BeatEnds, Rest
<1>11. ASSUME NEW u \in Users, SetHook(u) PROVE TypeOK'
  BY <1>11 DEF SetHook
<1>12. ASSUME NEW u \in Users, NEW h \in Hooks, RegisterHook(u, h) PROVE TypeOK'
  BY <1>12 DEF RegisterHook
<1>13. ASSUME NEW t \in Threads, BeatSent(t) PROVE TypeOK'
  BY <1>13 DEF BeatSent, LockFree
<1>14. ASSUME NEW t \in Threads, BeatRefused(t) PROVE TypeOK'
  BY <1>14 DEF BeatRefused, LockFree, BeatEnds, Rest
<1>15. ASSUME NEW t \in Threads, BeatOk(t) PROVE TypeOK'
  <2> PICK g \in BOOLEAN : BeatReturns(t, g)
    BY Grants, <1>15 DEF BeatOk
  <2> QED
    BY <1>15 DEF BeatOk, BeatReturns, Release
<1>16. ASSUME NEW t \in Threads, BeatDenied(t) PROVE TypeOK'
  BY Grants, <1>16 DEF BeatDenied
<1>17. ASSUME NEW t \in Threads, BeatRaised(t) PROVE TypeOK'
  BY <1>17 DEF BeatRaised
<1>18. ASSUME NEW t \in Threads, BeatEscaped(t) PROVE TypeOK'
  BY <1>18 DEF BeatEscaped, BeatEnds, Rest, Release
<1>19. ASSUME NEW t \in Threads, FailRead(t) PROVE TypeOK'
  BY <1>19 DEF FailRead
<1>20. ASSUME NEW t \in Threads, FailStop(t) PROVE TypeOK'
  BY <1>20 DEF FailStop, Stop
<1>21. ASSUME NEW t \in Threads, FailUnheard(t) PROVE TypeOK'
  BY <1>21 DEF FailUnheard
<1>22. ASSUME NEW t \in Threads, FailFires(t) PROVE TypeOK'
  BY <1>22 DEF FailFires
<1>23. ASSUME NEW t \in Threads, HookReturns(t) PROVE TypeOK'
  BY <1>23 DEF HookReturns
<1>24. ASSUME NEW t \in Threads, FailDone(t) PROVE TypeOK'
  BY <1>24 DEF FailDone, Release, Rest
<1>25. ASSUME NEW t \in Threads, ShutBegin(t) PROVE TypeOK'
  BY <1>25 DEF ShutBegin, CallsShutdown
<1>26. ASSUME NEW t \in Threads, ShutStop(t) PROVE TypeOK'
  BY <1>26 DEF ShutStop, Retire, Stop
<1>27. ASSUME NEW t \in Threads, ShutJoin(t) PROVE TypeOK'
  BY <1>27 DEF ShutJoin
<1>28. ASSUME NEW t \in Threads, ShutJoinSelf(t) PROVE TypeOK'
  BY <1>28 DEF ShutJoinSelf, Closes
<1>29. ASSUME NEW t \in Threads, ShutClear(t) PROVE TypeOK'
  BY <1>29 DEF ShutClear, AfterShutdown, Closes
<1>30. ASSUME NEW s \in SessionIds, BeaterStop(s) PROVE TypeOK'
  BY <1>30 DEF BeaterStop
<1>31. ASSUME NEW s \in SessionIds, BeaterTick(s) PROVE TypeOK'
  BY <1>31 DEF BeaterTick
<1>32. ASSUME NEW s \in SessionIds, BeaterClockJump(s) PROVE TypeOK'
  BY <1>32 DEF BeaterClockJump
<1>33. ASSUME UNCHANGED vars PROVE TypeOK'
  BY <1>33 DEF vars, localVars, callVars, failVars
<1> HIDE DEF TypeInv, TypeOK, LocalsOK, Goto
<1> QED
  BY <1>1, <1>2, <1>3, <1>4, <1>5, <1>6, <1>7, <1>8, <1>9, <1>10, <1>11, <1>12, <1>13,
     <1>14, <1>15, <1>16, <1>17, <1>18, <1>19, <1>20, <1>21, <1>22, <1>23, <1>24, <1>25,
     <1>26, <1>27, <1>28, <1>29, <1>30, <1>31, <1>32, <1>33
  DEF Next, UserStarts, UserContinues, AuthContinues, ThreadContinues, BeatContinues, ShutContinues

LEMMA NextLocalsOK == TypeInv /\ [Next]_vars => LocalsOK'
<1> SUFFICES ASSUME TypeInv, [Next]_vars PROVE LocalsOK'
  OBVIOUS
<1> USE Domains
    DEF TypeInv, TypeOK, LocalsOK, Pcs, AuthPcs, ShutPcs, FailPcs, BeatPcs, clientVars, sessionVars,
        historyVars, callVars, failVars, Goto
<1>1. ASSUME NEW u \in Users, AuthSend(u) PROVE LocalsOK'
  BY <1>1 DEF AuthSend
<1>2. ASSUME NEW u \in Users, HeartbeatNow(u) PROVE LocalsOK'
  BY <1>2 DEF HeartbeatNow
<1>3. ASSUME NEW u \in Users, AuthRejected(u) PROVE LocalsOK'
  BY <1>3 DEF AuthRejected
<1>4. ASSUME NEW u \in Users, AuthAccepted(u) PROVE LocalsOK'
  BY <1>4 DEF AuthAccepted
<1>5. ASSUME NEW u \in Users, AuthStop(u) PROVE LocalsOK'
  BY <1>5 DEF AuthStop, Retire, Stop
<1>6. ASSUME NEW u \in Users, AuthJoin(u) PROVE LocalsOK'
  BY <1>6 DEF AuthJoin
<1>7. ASSUME NEW u \in Users, AuthNew(u) PROVE LocalsOK'
  BY <1>7 DEF AuthNew
<1>8. ASSUME NEW u \in Users, AuthPublish(u) PROVE LocalsOK'
  BY <1>8 DEF AuthPublish
<1>9. ASSUME NEW u \in Users, AuthToken(u) PROVE LocalsOK'
  BY <1>9 DEF AuthToken
<1>10. ASSUME NEW u \in Users, BeatToken(u) PROVE LocalsOK'
  BY <1>10 DEF BeatToken, BeatEnds, Rest
<1>11. ASSUME NEW u \in Users, SetHook(u) PROVE LocalsOK'
  BY <1>11 DEF SetHook
<1>12. ASSUME NEW u \in Users, NEW h \in Hooks, RegisterHook(u, h) PROVE LocalsOK'
  BY <1>12 DEF RegisterHook
<1>13. ASSUME NEW t \in Threads, BeatSent(t) PROVE LocalsOK'
  BY <1>13 DEF BeatSent, LockFree
<1>14. ASSUME NEW t \in Threads, BeatRefused(t) PROVE LocalsOK'
  BY <1>14 DEF BeatRefused, LockFree, BeatEnds, Rest
<1>15. ASSUME NEW t \in Threads, BeatOk(t) PROVE LocalsOK'
  <2> PICK g \in MayGrant(t) : BeatReturns(t, g)
    BY Grants, <1>15 DEF BeatOk
  <2>1. t \in SessionIds => ~g
    BY Grants
  <2> QED
    BY <2>1, <1>15 DEF BeatOk, BeatReturns
<1>16. ASSUME NEW t \in Threads, BeatDenied(t) PROVE LocalsOK'
  <2> PICK g \in MayGrant(t) : granted' = [granted EXCEPT ![t] = g]
    BY <1>16 DEF BeatDenied
  <2>1. t \in SessionIds => ~g
    BY Grants
  <2> QED
    BY <2>1, <1>16 DEF BeatDenied
<1>17. ASSUME NEW t \in Threads, BeatRaised(t) PROVE LocalsOK'
  BY <1>17 DEF BeatRaised
<1>18. ASSUME NEW t \in Threads, BeatEscaped(t) PROVE LocalsOK'
  BY <1>18 DEF BeatEscaped, BeatEnds, Rest, Release
<1>19. ASSUME NEW t \in Threads, FailRead(t) PROVE LocalsOK'
  BY <1>19 DEF FailRead
<1>20. ASSUME NEW t \in Threads, FailStop(t) PROVE LocalsOK'
  BY <1>20 DEF FailStop, Stop
<1>21. ASSUME NEW t \in Threads, FailUnheard(t) PROVE LocalsOK'
  BY <1>21 DEF FailUnheard
<1>22. ASSUME NEW t \in Threads, FailFires(t) PROVE LocalsOK'
  BY <1>22 DEF FailFires
<1>23. ASSUME NEW t \in Threads, HookReturns(t) PROVE LocalsOK'
  BY <1>23 DEF HookReturns
<1>24. ASSUME NEW t \in Threads, FailDone(t) PROVE LocalsOK'
  BY <1>24 DEF FailDone, Release, Rest
<1>25. ASSUME NEW t \in Threads, ShutBegin(t) PROVE LocalsOK'
  BY <1>25 DEF ShutBegin, CallsShutdown
<1>26. ASSUME NEW t \in Threads, ShutStop(t) PROVE LocalsOK'
  BY <1>26 DEF ShutStop, Retire, Stop
<1>27. ASSUME NEW t \in Threads, ShutJoin(t) PROVE LocalsOK'
  BY <1>27 DEF ShutJoin
<1>28. ASSUME NEW t \in Threads, ShutJoinSelf(t) PROVE LocalsOK'
  BY <1>28 DEF ShutJoinSelf, Closes
<1>29. ASSUME NEW t \in Threads, ShutClear(t) PROVE LocalsOK'
  BY <1>29 DEF ShutClear, AfterShutdown, Closes
<1>30. ASSUME NEW s \in SessionIds, BeaterStop(s) PROVE LocalsOK'
  BY <1>30 DEF BeaterStop
<1>31. ASSUME NEW s \in SessionIds, BeaterTick(s) PROVE LocalsOK'
  BY <1>31 DEF BeaterTick
<1>32. ASSUME NEW s \in SessionIds, BeaterClockJump(s) PROVE LocalsOK'
  BY <1>32 DEF BeaterClockJump
<1>33. ASSUME UNCHANGED vars PROVE LocalsOK'
  BY <1>33 DEF vars, localVars, callVars, failVars
<1> HIDE DEF TypeInv, TypeOK, LocalsOK, Goto
<1> QED
  BY <1>1, <1>2, <1>3, <1>4, <1>5, <1>6, <1>7, <1>8, <1>9, <1>10, <1>11, <1>12, <1>13,
     <1>14, <1>15, <1>16, <1>17, <1>18, <1>19, <1>20, <1>21, <1>22, <1>23, <1>24, <1>25,
     <1>26, <1>27, <1>28, <1>29, <1>30, <1>31, <1>32, <1>33
  DEF Next, UserStarts, UserContinues, AuthContinues, ThreadContinues, BeatContinues, ShutContinues

LEMMA NextFreshInv == TypeInv /\ FreshInv /\ [Next]_vars => FreshInv'
<1> SUFFICES ASSUME TypeInv /\ FreshInv, [Next]_vars PROVE FreshInv'
  OBVIOUS
<1> USE Domains
    DEF TypeInv, TypeOK, LocalsOK, FreshInv, AuthPcs, ShutPcs, FailPcs, BeatPcs, clientVars,
        sessionVars, historyVars, callVars, failVars, Goto
<1>1. ASSUME NEW u \in Users, AuthSend(u) PROVE FreshInv'
  BY <1>1 DEF AuthSend
<1>2. ASSUME NEW u \in Users, HeartbeatNow(u) PROVE FreshInv'
  BY <1>2 DEF HeartbeatNow
<1>3. ASSUME NEW u \in Users, AuthRejected(u) PROVE FreshInv'
  BY <1>3 DEF AuthRejected
<1>4. ASSUME NEW u \in Users, AuthAccepted(u) PROVE FreshInv'
  <2>1. /\ created \in Nat /\ created' = created + 1
        /\ fresh' = [fresh EXCEPT ![u] = created + 1] /\ pc' = [pc EXCEPT ![u] = pc'[u]]
        /\ pc'[u] \in {"auth_new", "auth_stop"}
    BY Numbers, <1>4 DEF AuthAccepted
  <2>2. \A v \in Users : fresh[v] \in Nat /\ fresh[v] < created + 1
    <3> TAKE v \in Users
    <3>1. fresh[v] \in Nat /\ fresh[v] <= created
      BY Numbers
    <3> QED
      BY <2>1, <3>1
  <2> QED
    BY <2>1, <2>2, Numbers
<1>5. ASSUME NEW u \in Users, AuthStop(u) PROVE FreshInv'
  BY <1>5 DEF AuthStop, Retire, Stop
<1>6. ASSUME NEW u \in Users, AuthJoin(u) PROVE FreshInv'
  BY <1>6 DEF AuthJoin
<1>7. ASSUME NEW u \in Users, AuthNew(u) PROVE FreshInv'
  BY <1>7 DEF AuthNew
<1>8. ASSUME NEW u \in Users, AuthPublish(u) PROVE FreshInv'
  BY Numbers, <1>8 DEF AuthPublish
<1>9. ASSUME NEW u \in Users, AuthToken(u) PROVE FreshInv'
  BY Numbers, <1>9 DEF AuthToken
<1>10. ASSUME NEW u \in Users, BeatToken(u) PROVE FreshInv'
  BY <1>10 DEF BeatToken, BeatEnds, Rest
<1>11. ASSUME NEW u \in Users, SetHook(u) PROVE FreshInv'
  BY <1>11 DEF SetHook
<1>12. ASSUME NEW u \in Users, NEW h \in Hooks, RegisterHook(u, h) PROVE FreshInv'
  BY <1>12 DEF RegisterHook
<1>13. ASSUME NEW t \in Threads, BeatSent(t) PROVE FreshInv'
  BY <1>13 DEF BeatSent, LockFree
<1>14. ASSUME NEW t \in Threads, BeatRefused(t) PROVE FreshInv'
  BY <1>14 DEF BeatRefused, LockFree, BeatEnds, Rest
<1>15. ASSUME NEW t \in Threads, BeatOk(t) PROVE FreshInv'
  <2> PICK g \in MayGrant(t) : BeatReturns(t, g)
    BY <1>15 DEF BeatOk
  <2> QED
    BY <1>15 DEF BeatOk, BeatReturns, Release
<1>16. ASSUME NEW t \in Threads, BeatDenied(t) PROVE FreshInv'
  BY <1>16 DEF BeatDenied, MayGrant
<1>17. ASSUME NEW t \in Threads, BeatRaised(t) PROVE FreshInv'
  BY <1>17 DEF BeatRaised
<1>18. ASSUME NEW t \in Threads, BeatEscaped(t) PROVE FreshInv'
  BY <1>18 DEF BeatEscaped, BeatEnds, Rest, Release
<1>19. ASSUME NEW t \in Threads, FailRead(t) PROVE FreshInv'
  BY <1>19 DEF FailRead
<1>20. ASSUME NEW t \in Threads, FailStop(t) PROVE FreshInv'
  BY <1>20 DEF FailStop, Stop
<1>21. ASSUME NEW t \in Threads, FailUnheard(t) PROVE FreshInv'
  BY <1>21 DEF FailUnheard
<1>22. ASSUME NEW t \in Threads, FailFires(t) PROVE FreshInv'
  BY <1>22 DEF FailFires
<1>23. ASSUME NEW t \in Threads, HookReturns(t) PROVE FreshInv'
  BY <1>23 DEF HookReturns
<1>24. ASSUME NEW t \in Threads, FailDone(t) PROVE FreshInv'
  BY <1>24 DEF FailDone, Release, Rest
<1>25. ASSUME NEW t \in Threads, ShutBegin(t) PROVE FreshInv'
  BY <1>25 DEF ShutBegin, CallsShutdown
<1>26. ASSUME NEW t \in Threads, ShutStop(t) PROVE FreshInv'
  BY <1>26 DEF ShutStop, Retire, Stop
<1>27. ASSUME NEW t \in Threads, ShutJoin(t) PROVE FreshInv'
  BY <1>27 DEF ShutJoin
<1>28. ASSUME NEW t \in Threads, ShutJoinSelf(t) PROVE FreshInv'
  BY <1>28 DEF ShutJoinSelf, Closes
<1>29. ASSUME NEW t \in Threads, ShutClear(t) PROVE FreshInv'
  BY <1>29 DEF ShutClear, AfterShutdown, Closes
<1>30. ASSUME NEW s \in SessionIds, BeaterStop(s) PROVE FreshInv'
  BY <1>30 DEF BeaterStop
<1>31. ASSUME NEW s \in SessionIds, BeaterTick(s) PROVE FreshInv'
  BY <1>31 DEF BeaterTick
<1>32. ASSUME NEW s \in SessionIds, BeaterClockJump(s) PROVE FreshInv'
  BY <1>32 DEF BeaterClockJump
<1>33. ASSUME UNCHANGED vars PROVE FreshInv'
  BY <1>33 DEF vars, localVars, callVars, failVars
<1> HIDE DEF TypeInv, TypeOK, LocalsOK, FreshInv, Goto
<1> QED
  BY <1>1, <1>2, <1>3, <1>4, <1>5, <1>6, <1>7, <1>8, <1>9, <1>10, <1>11, <1>12, <1>13,
     <1>14, <1>15, <1>16, <1>17, <1>18, <1>19, <1>20, <1>21, <1>22, <1>23, <1>24, <1>25,
     <1>26, <1>27, <1>28, <1>29, <1>30, <1>31, <1>32, <1>33
  DEF Next, UserStarts, UserContinues, AuthContinues, ThreadContinues, BeatContinues, ShutContinues

LEMMA BornStays ==
  ASSUME TypeInv, FreshInv, NEW r \in Born, [Next]_vars
  PROVE  r \in Born'
<1> USE Domains
    DEF TypeInv, TypeOK, LocalsOK, AuthPcs, ShutPcs, FailPcs, BeatPcs, clientVars,
        sessionVars, historyVars, callVars, failVars, Goto, FreshInv, Born
<1>1. ASSUME NEW u \in Users, AuthSend(u) PROVE r \in Born'
  BY <1>1 DEF AuthSend
<1>2. ASSUME NEW u \in Users, HeartbeatNow(u) PROVE r \in Born'
  BY <1>2 DEF HeartbeatNow
<1>3. ASSUME NEW u \in Users, AuthRejected(u) PROVE r \in Born'
  BY <1>3 DEF AuthRejected
<1>4. ASSUME NEW u \in Users, AuthAccepted(u) PROVE r \in Born'
  <2>1. /\ created \in Nat /\ created' = created + 1
        /\ fresh' = [fresh EXCEPT ![u] = created + 1] /\ pc' = [pc EXCEPT ![u] = pc'[u]]
        /\ pc[u] = "auth_wait"
    BY Numbers, <1>4 DEF AuthAccepted
  <2>2. r \in Nat /\ r <= created
    BY Numbers
  <2> QED
    BY <2>1, <2>2
<1>5. ASSUME NEW u \in Users, AuthStop(u) PROVE r \in Born'
  BY <1>5 DEF AuthStop, Retire, Stop
<1>6. ASSUME NEW u \in Users, AuthJoin(u) PROVE r \in Born'
  BY <1>6 DEF AuthJoin
<1>7. ASSUME NEW u \in Users, AuthNew(u) PROVE r \in Born'
  BY <1>7 DEF AuthNew
<1>8. ASSUME NEW u \in Users, AuthPublish(u) PROVE r \in Born'
  BY <1>8 DEF AuthPublish
<1>9. ASSUME NEW u \in Users, AuthToken(u) PROVE r \in Born'
  BY <1>9 DEF AuthToken
<1>10. ASSUME NEW u \in Users, BeatToken(u) PROVE r \in Born'
  BY <1>10 DEF BeatToken, BeatEnds, Rest
<1>11. ASSUME NEW u \in Users, SetHook(u) PROVE r \in Born'
  BY <1>11 DEF SetHook
<1>12. ASSUME NEW u \in Users, NEW h \in Hooks, RegisterHook(u, h) PROVE r \in Born'
  BY <1>12 DEF RegisterHook
<1>13. ASSUME NEW t \in Threads, BeatSent(t) PROVE r \in Born'
  BY <1>13 DEF BeatSent, LockFree
<1>14. ASSUME NEW t \in Threads, BeatRefused(t) PROVE r \in Born'
  BY <1>14 DEF BeatRefused, LockFree, BeatEnds, Rest
<1>15. ASSUME NEW t \in Threads, BeatOk(t) PROVE r \in Born'
  <2> PICK g \in MayGrant(t) : BeatReturns(t, g)
    BY <1>15 DEF BeatOk
  <2> QED
    BY <1>15 DEF BeatOk, BeatReturns, Release
<1>16. ASSUME NEW t \in Threads, BeatDenied(t) PROVE r \in Born'
  BY <1>16 DEF BeatDenied, MayGrant
<1>17. ASSUME NEW t \in Threads, BeatRaised(t) PROVE r \in Born'
  BY <1>17 DEF BeatRaised
<1>18. ASSUME NEW t \in Threads, BeatEscaped(t) PROVE r \in Born'
  BY <1>18 DEF BeatEscaped, BeatEnds, Rest, Release
<1>19. ASSUME NEW t \in Threads, FailRead(t) PROVE r \in Born'
  BY <1>19 DEF FailRead
<1>20. ASSUME NEW t \in Threads, FailStop(t) PROVE r \in Born'
  BY <1>20 DEF FailStop, Stop
<1>21. ASSUME NEW t \in Threads, FailUnheard(t) PROVE r \in Born'
  BY <1>21 DEF FailUnheard
<1>22. ASSUME NEW t \in Threads, FailFires(t) PROVE r \in Born'
  BY <1>22 DEF FailFires
<1>23. ASSUME NEW t \in Threads, HookReturns(t) PROVE r \in Born'
  BY <1>23 DEF HookReturns
<1>24. ASSUME NEW t \in Threads, FailDone(t) PROVE r \in Born'
  BY <1>24 DEF FailDone, Release, Rest
<1>25. ASSUME NEW t \in Threads, ShutBegin(t) PROVE r \in Born'
  BY <1>25 DEF ShutBegin, CallsShutdown
<1>26. ASSUME NEW t \in Threads, ShutStop(t) PROVE r \in Born'
  BY <1>26 DEF ShutStop, Retire, Stop
<1>27. ASSUME NEW t \in Threads, ShutJoin(t) PROVE r \in Born'
  BY <1>27 DEF ShutJoin
<1>28. ASSUME NEW t \in Threads, ShutJoinSelf(t) PROVE r \in Born'
  BY <1>28 DEF ShutJoinSelf, Closes
<1>29. ASSUME NEW t \in Threads, ShutClear(t) PROVE r \in Born'
  BY <1>29 DEF ShutClear, AfterShutdown, Closes
<1>30. ASSUME NEW s \in SessionIds, BeaterStop(s) PROVE r \in Born'
  BY <1>30 DEF BeaterStop
<1>31. ASSUME NEW s \in SessionIds, BeaterTick(s) PROVE r \in Born'
  BY <1>31 DEF BeaterTick
<1>32. ASSUME NEW s \in SessionIds, BeaterClockJump(s) PROVE r \in Born'
  BY <1>32 DEF BeaterClockJump
<1>33. ASSUME UNCHANGED vars PROVE r \in Born'
  BY <1>33 DEF vars, localVars, callVars, failVars
<1> HIDE DEF TypeInv, TypeOK, LocalsOK, Goto, FreshInv, Born
<1> QED
  BY <1>1, <1>2, <1>3, <1>4, <1>5, <1>6, <1>7, <1>8, <1>9, <1>10, <1>11, <1>12, <1>13,
     <1>14, <1>15, <1>16, <1>17, <1>18, <1>19, <1>20, <1>21, <1>22, <1>23, <1>24, <1>25,
     <1>26, <1>27, <1>28, <1>29, <1>30, <1>31, <1>32, <1>33
  DEF Next, UserStarts, UserContinues, AuthContinues, ThreadContinues, BeatContinues, ShutContinues

LEMMA NextBornInv == TypeInv /\ FreshInv /\ BornInv /\ [Next]_vars => BornInv'
<1> SUFFICES ASSUME TypeInv /\ FreshInv /\ BornInv, [Next]_vars PROVE BornInv'
  OBVIOUS
<1>0. Born \subseteq Born'
  BY BornStays
<1> USE <1>0, Domains
    DEF TypeInv, TypeOK, LocalsOK, BornInv, AuthPcs, ShutPcs, FailPcs, BeatPcs, clientVars,
        sessionVars, historyVars, callVars, failVars, Goto
<1>1. ASSUME NEW u \in Users, AuthSend(u) PROVE BornInv'
  BY <1>1 DEF AuthSend
<1>2. ASSUME NEW u \in Users, HeartbeatNow(u) PROVE BornInv'
  BY <1>2 DEF HeartbeatNow
<1>3. ASSUME NEW u \in Users, AuthRejected(u) PROVE BornInv'
  BY <1>3 DEF AuthRejected
<1>4. ASSUME NEW u \in Users, AuthAccepted(u) PROVE BornInv'
  BY <1>4 DEF AuthAccepted
<1>5. ASSUME NEW u \in Users, AuthStop(u) PROVE BornInv'
  BY <1>5 DEF AuthStop, Retire, Stop
<1>6. ASSUME NEW u \in Users, AuthJoin(u) PROVE BornInv'
  BY <1>6 DEF AuthJoin
<1>7. ASSUME NEW u \in Users, AuthNew(u) PROVE BornInv'
  <2>1. fresh[u] \in Born'
    BY <1>7 DEF AuthNew, Born, FreshInv
  <2> QED
    BY <2>1, <1>7 DEF AuthNew
<1>8. ASSUME NEW u \in Users, AuthPublish(u) PROVE BornInv'
  <2>1. fresh[u] \in Born
    BY <1>8 DEF AuthPublish, Born, FreshInv
  <2> QED
    BY <2>1, <1>8 DEF AuthPublish
<1>9. ASSUME NEW u \in Users, AuthToken(u) PROVE BornInv'
  BY <1>9 DEF AuthToken
<1>10. ASSUME NEW u \in Users, BeatToken(u) PROVE BornInv'
  BY <1>10 DEF BeatToken, BeatEnds, Rest
<1>11. ASSUME NEW u \in Users, SetHook(u) PROVE BornInv'
  BY <1>11 DEF SetHook
<1>12. ASSUME NEW u \in Users, NEW h \in Hooks, RegisterHook(u, h) PROVE BornInv'
  BY <1>12 DEF RegisterHook
<1>13. ASSUME NEW t \in Threads, BeatSent(t) PROVE BornInv'
  BY <1>13 DEF BeatSent, LockFree
<1>14. ASSUME NEW t \in Threads, BeatRefused(t) PROVE BornInv'
  BY <1>14 DEF BeatRefused, LockFree, BeatEnds, Rest
<1>15. ASSUME NEW t \in Threads, BeatOk(t) PROVE BornInv'
  <2> PICK g \in MayGrant(t) : BeatReturns(t, g)
    BY <1>15 DEF BeatOk
  <2> QED
    BY <1>15 DEF BeatOk, BeatReturns, Release
<1>16. ASSUME NEW t \in Threads, BeatDenied(t) PROVE BornInv'
  BY <1>16 DEF BeatDenied, MayGrant
<1>17. ASSUME NEW t \in Threads, BeatRaised(t) PROVE BornInv'
  BY <1>17 DEF BeatRaised
<1>18. ASSUME NEW t \in Threads, BeatEscaped(t) PROVE BornInv'
  BY <1>18 DEF BeatEscaped, BeatEnds, Rest, Release
<1>19. ASSUME NEW t \in Threads, FailRead(t) PROVE BornInv'
  BY <1>19 DEF FailRead
<1>20. ASSUME NEW t \in Threads, FailStop(t) PROVE BornInv'
  BY <1>20 DEF FailStop, Stop
<1>21. ASSUME NEW t \in Threads, FailUnheard(t) PROVE BornInv'
  BY <1>21 DEF FailUnheard
<1>22. ASSUME NEW t \in Threads, FailFires(t) PROVE BornInv'
  BY <1>22 DEF FailFires
<1>23. ASSUME NEW t \in Threads, HookReturns(t) PROVE BornInv'
  BY <1>23 DEF HookReturns
<1>24. ASSUME NEW t \in Threads, FailDone(t) PROVE BornInv'
  BY <1>24 DEF FailDone, Release, Rest
<1>25. ASSUME NEW t \in Threads, ShutBegin(t) PROVE BornInv'
  BY <1>25 DEF ShutBegin, CallsShutdown
<1>26. ASSUME NEW t \in Threads, ShutStop(t) PROVE BornInv'
  BY <1>26 DEF ShutStop, Retire, Stop
<1>27. ASSUME NEW t \in Threads, ShutJoin(t) PROVE BornInv'
  BY <1>27 DEF ShutJoin
<1>28. ASSUME NEW t \in Threads, ShutJoinSelf(t) PROVE BornInv'
  BY <1>28 DEF ShutJoinSelf, Closes
<1>29. ASSUME NEW t \in Threads, ShutClear(t) PROVE BornInv'
  BY <1>29 DEF ShutClear, AfterShutdown, Closes
<1>30. ASSUME NEW s \in SessionIds, BeaterStop(s) PROVE BornInv'
  BY <1>30 DEF BeaterStop
<1>31. ASSUME NEW s \in SessionIds, BeaterTick(s) PROVE BornInv'
  BY <1>31 DEF BeaterTick
<1>32. ASSUME NEW s \in SessionIds, BeaterClockJump(s) PROVE BornInv'
  BY <1>32 DEF BeaterClockJump
<1>33. ASSUME UNCHANGED vars PROVE BornInv'
  BY <1>33 DEF vars, localVars, callVars, failVars
<1> HIDE DEF TypeInv, TypeOK, LocalsOK, BornInv, Goto
<1> QED
  BY <1>1, <1>2, <1>3, <1>4, <1>5, <1>6, <1>7, <1>8, <1>9, <1>10, <1>11, <1>12, <1>13,
     <1>14, <1>15, <1>16, <1>17, <1>18, <1>19, <1>20, <1>21, <1>22, <1>23, <1>24, <1>25,
     <1>26, <1>27, <1>28, <1>29, <1>30, <1>31, <1>32, <1>33
  DEF Next, UserStarts, UserContinues, AuthContinues, ThreadContinues, BeatContinues, ShutContinues

LEMMA NextLockInv == TypeInv /\ BornInv /\ LockInv /\ [Next]_vars => LockInv'
<1> SUFFICES ASSUME TypeInv /\ BornInv /\ LockInv, [Next]_vars PROVE LockInv'
  OBVIOUS
<1> USE Domains
    DEF TypeInv, TypeOK, LocalsOK, LockInv, AuthPcs, ShutPcs, FailPcs, BeatPcs, clientVars,
        sessionVars, historyVars, callVars, failVars, Goto, BornInv
<1>1. ASSUME NEW u \in Users, AuthSend(u) PROVE LockInv'
  BY <1>1 DEF AuthSend
<1>2. ASSUME NEW u \in Users, HeartbeatNow(u) PROVE LockInv'
  BY <1>2 DEF HeartbeatNow
<1>3. ASSUME NEW u \in Users, AuthRejected(u) PROVE LockInv'
  BY <1>3 DEF AuthRejected
<1>4. ASSUME NEW u \in Users, AuthAccepted(u) PROVE LockInv'
  BY <1>4 DEF AuthAccepted
<1>5. ASSUME NEW u \in Users, AuthStop(u) PROVE LockInv'
  BY <1>5 DEF AuthStop, Retire, Stop
<1>6. ASSUME NEW u \in Users, AuthJoin(u) PROVE LockInv'
  BY <1>6 DEF AuthJoin
<1>7. ASSUME NEW u \in Users, AuthNew(u) PROVE LockInv'
  <2>1. fresh[u] \notin Born /\ fresh[u] \in SessionIds
    BY <1>7 DEF AuthNew, Born
  <2>2. pc[fresh[u]] = "off" /\ ~alive[fresh[u]]
    BY <2>1
  <2>3. \A t \in Threads : target[t] # fresh[u] /\ prev[t] # fresh[u]
    BY <2>1
  <2> QED
    BY <2>1, <2>2, <2>3, <1>7 DEF AuthNew
<1>8. ASSUME NEW u \in Users, AuthPublish(u) PROVE LockInv'
  BY <1>8 DEF AuthPublish
<1>9. ASSUME NEW u \in Users, AuthToken(u) PROVE LockInv'
  BY <1>9 DEF AuthToken
<1>10. ASSUME NEW u \in Users, BeatToken(u) PROVE LockInv'
  BY <1>10 DEF BeatToken, BeatEnds, Rest
<1>11. ASSUME NEW u \in Users, SetHook(u) PROVE LockInv'
  BY <1>11 DEF SetHook
<1>12. ASSUME NEW u \in Users, NEW h \in Hooks, RegisterHook(u, h) PROVE LockInv'
  BY <1>12 DEF RegisterHook
<1>13. ASSUME NEW t \in Threads, BeatSent(t) PROVE LockInv'
  BY <1>13 DEF BeatSent, LockFree
<1>14. ASSUME NEW t \in Threads, BeatRefused(t) PROVE LockInv'
  BY <1>14 DEF BeatRefused, LockFree, BeatEnds, Rest
<1>15. ASSUME NEW t \in Threads, BeatOk(t) PROVE LockInv'
  <2> PICK g \in MayGrant(t) : BeatReturns(t, g)
    BY <1>15 DEF BeatOk
  <2> QED
    BY <1>15 DEF BeatOk, BeatReturns, Release
<1>16. ASSUME NEW t \in Threads, BeatDenied(t) PROVE LockInv'
  BY <1>16 DEF BeatDenied, MayGrant
<1>17. ASSUME NEW t \in Threads, BeatRaised(t) PROVE LockInv'
  BY <1>17 DEF BeatRaised
<1>18. ASSUME NEW t \in Threads, BeatEscaped(t) PROVE LockInv'
  BY <1>18 DEF BeatEscaped, BeatEnds, Rest, Release
<1>19. ASSUME NEW t \in Threads, FailRead(t) PROVE LockInv'
  BY <1>19 DEF FailRead
<1>20. ASSUME NEW t \in Threads, FailStop(t) PROVE LockInv'
  BY <1>20 DEF FailStop, Stop
<1>21. ASSUME NEW t \in Threads, FailUnheard(t) PROVE LockInv'
  BY <1>21 DEF FailUnheard
<1>22. ASSUME NEW t \in Threads, FailFires(t) PROVE LockInv'
  BY <1>22 DEF FailFires
<1>23. ASSUME NEW t \in Threads, HookReturns(t) PROVE LockInv'
  BY <1>23 DEF HookReturns
<1>24. ASSUME NEW t \in Threads, FailDone(t) PROVE LockInv'
  BY <1>24 DEF FailDone, Release, Rest
<1>25. ASSUME NEW t \in Threads, ShutBegin(t) PROVE LockInv'
  BY <1>25 DEF ShutBegin, CallsShutdown
<1>26. ASSUME NEW t \in Threads, ShutStop(t) PROVE LockInv'
  BY <1>26 DEF ShutStop, Retire, Stop
<1>27. ASSUME NEW t \in Threads, ShutJoin(t) PROVE LockInv'
  BY <1>27 DEF ShutJoin
<1>28. ASSUME NEW t \in Threads, ShutJoinSelf(t) PROVE LockInv'
  BY <1>28 DEF ShutJoinSelf, Closes
<1>29. ASSUME NEW t \in Threads, ShutClear(t) PROVE LockInv'
  BY <1>29 DEF ShutClear, AfterShutdown, Closes
<1>30. ASSUME NEW s \in SessionIds, BeaterStop(s) PROVE LockInv'
  BY <1>30 DEF BeaterStop
<1>31. ASSUME NEW s \in SessionIds, BeaterTick(s) PROVE LockInv'
  BY <1>31 DEF BeaterTick
<1>32. ASSUME NEW s \in SessionIds, BeaterClockJump(s) PROVE LockInv'
  BY <1>32 DEF BeaterClockJump
<1>33. ASSUME UNCHANGED vars PROVE LockInv'
  BY <1>33 DEF vars, localVars, callVars, failVars
<1> HIDE DEF TypeInv, TypeOK, LocalsOK, LockInv, Goto, BornInv
<1> QED
  BY <1>1, <1>2, <1>3, <1>4, <1>5, <1>6, <1>7, <1>8, <1>9, <1>10, <1>11, <1>12, <1>13,
     <1>14, <1>15, <1>16, <1>17, <1>18, <1>19, <1>20, <1>21, <1>22, <1>23, <1>24, <1>25,
     <1>26, <1>27, <1>28, <1>29, <1>30, <1>31, <1>32, <1>33
  DEF Next, UserStarts, UserContinues, AuthContinues, ThreadContinues, BeatContinues, ShutContinues

LEMMA NextFailInv == TypeInv /\ BornInv /\ LockInv /\ FailInv /\ [Next]_vars => FailInv'
<1> SUFFICES ASSUME TypeInv /\ BornInv /\ LockInv /\ FailInv, [Next]_vars PROVE FailInv'
  OBVIOUS
<1> USE Domains
    DEF TypeInv, TypeOK, LocalsOK, FailInv, AuthPcs, ShutPcs, FailPcs, BeatPcs, clientVars,
        sessionVars, historyVars, callVars, failVars, Goto, BornInv, LockInv
<1>1. ASSUME NEW u \in Users, AuthSend(u) PROVE FailInv'
  BY <1>1 DEF AuthSend
<1>2. ASSUME NEW u \in Users, HeartbeatNow(u) PROVE FailInv'
  BY <1>2 DEF HeartbeatNow
<1>3. ASSUME NEW u \in Users, AuthRejected(u) PROVE FailInv'
  BY <1>3 DEF AuthRejected
<1>4. ASSUME NEW u \in Users, AuthAccepted(u) PROVE FailInv'
  BY <1>4 DEF AuthAccepted
<1>5. ASSUME NEW u \in Users, AuthStop(u) PROVE FailInv'
  BY <1>5 DEF AuthStop, Retire, Stop
<1>6. ASSUME NEW u \in Users, AuthJoin(u) PROVE FailInv'
  BY <1>6 DEF AuthJoin
<1>7. ASSUME NEW u \in Users, AuthNew(u) PROVE FailInv'
  <2>1. fresh[u] \notin Born /\ fresh[u] \in SessionIds
    BY <1>7 DEF AuthNew, Born
  <2>2. pc[fresh[u]] = "off" /\ ~alive[fresh[u]]
    BY <2>1
  <2>3. \A t \in Threads : target[t] # fresh[u] /\ prev[t] # fresh[u]
    BY <2>1
  <2> QED
    BY <2>1, <2>2, <2>3, <1>7 DEF AuthNew
<1>8. ASSUME NEW u \in Users, AuthPublish(u) PROVE FailInv'
  BY <1>8 DEF AuthPublish
<1>9. ASSUME NEW u \in Users, AuthToken(u) PROVE FailInv'
  BY <1>9 DEF AuthToken
<1>10. ASSUME NEW u \in Users, BeatToken(u) PROVE FailInv'
  BY <1>10 DEF BeatToken, BeatEnds, Rest
<1>11. ASSUME NEW u \in Users, SetHook(u) PROVE FailInv'
  BY <1>11 DEF SetHook
<1>12. ASSUME NEW u \in Users, NEW h \in Hooks, RegisterHook(u, h) PROVE FailInv'
  BY <1>12 DEF RegisterHook
<1>13. ASSUME NEW t \in Threads, BeatSent(t) PROVE FailInv'
  BY <1>13 DEF BeatSent, LockFree
<1>14. ASSUME NEW t \in Threads, BeatRefused(t) PROVE FailInv'
  BY <1>14 DEF BeatRefused, LockFree, BeatEnds, Rest
<1>15. ASSUME NEW t \in Threads, BeatOk(t) PROVE FailInv'
  <2> PICK g \in MayGrant(t) : BeatReturns(t, g)
    BY <1>15 DEF BeatOk
  <2> QED
    BY <1>15 DEF BeatOk, BeatReturns, Release
<1>16. ASSUME NEW t \in Threads, BeatDenied(t) PROVE FailInv'
  BY <1>16 DEF BeatDenied, MayGrant
<1>17. ASSUME NEW t \in Threads, BeatRaised(t) PROVE FailInv'
  BY <1>17 DEF BeatRaised
<1>18. ASSUME NEW t \in Threads, BeatEscaped(t) PROVE FailInv'
  BY <1>18 DEF BeatEscaped, BeatEnds, Rest, Release
<1>19. ASSUME NEW t \in Threads, FailRead(t) PROVE FailInv'
  BY <1>19 DEF FailRead
<1>20. ASSUME NEW t \in Threads, FailStop(t) PROVE FailInv'
  BY <1>20 DEF FailStop, Stop
<1>21. ASSUME NEW t \in Threads, FailUnheard(t) PROVE FailInv'
  BY <1>21 DEF FailUnheard
<1>22. ASSUME NEW t \in Threads, FailFires(t) PROVE FailInv'
  BY <1>22 DEF FailFires
<1>23. ASSUME NEW t \in Threads, HookReturns(t) PROVE FailInv'
  BY <1>23 DEF HookReturns
<1>24. ASSUME NEW t \in Threads, FailDone(t) PROVE FailInv'
  BY <1>24 DEF FailDone, Release, Rest
<1>25. ASSUME NEW t \in Threads, ShutBegin(t) PROVE FailInv'
  BY <1>25 DEF ShutBegin, CallsShutdown
<1>26. ASSUME NEW t \in Threads, ShutStop(t) PROVE FailInv'
  BY <1>26 DEF ShutStop, Retire, Stop
<1>27. ASSUME NEW t \in Threads, ShutJoin(t) PROVE FailInv'
  BY <1>27 DEF ShutJoin
<1>28. ASSUME NEW t \in Threads, ShutJoinSelf(t) PROVE FailInv'
  BY <1>28 DEF ShutJoinSelf, Closes
<1>29. ASSUME NEW t \in Threads, ShutClear(t) PROVE FailInv'
  BY <1>29 DEF ShutClear, AfterShutdown, Closes
<1>30. ASSUME NEW s \in SessionIds, BeaterStop(s) PROVE FailInv'
  BY <1>30 DEF BeaterStop
<1>31. ASSUME NEW s \in SessionIds, BeaterTick(s) PROVE FailInv'
  BY <1>31 DEF BeaterTick
<1>32. ASSUME NEW s \in SessionIds, BeaterClockJump(s) PROVE FailInv'
  BY <1>32 DEF BeaterClockJump
<1>33. ASSUME UNCHANGED vars PROVE FailInv'
  BY <1>33 DEF vars, localVars, callVars, failVars
<1> HIDE DEF TypeInv, TypeOK, LocalsOK, FailInv, Goto, BornInv, LockInv
<1> QED
  BY <1>1, <1>2, <1>3, <1>4, <1>5, <1>6, <1>7, <1>8, <1>9, <1>10, <1>11, <1>12, <1>13,
     <1>14, <1>15, <1>16, <1>17, <1>18, <1>19, <1>20, <1>21, <1>22, <1>23, <1>24, <1>25,
     <1>26, <1>27, <1>28, <1>29, <1>30, <1>31, <1>32, <1>33
  DEF Next, UserStarts, UserContinues, AuthContinues, ThreadContinues, BeatContinues, ShutContinues

LEMMA NextReplaceInv == TypeInv /\ BornInv /\ (\A u, v \in AuthUsers : u = v) /\ ReplaceInv /\
  [Next]_vars => ReplaceInv'
<1> SUFFICES ASSUME TypeInv /\ BornInv /\ (\A u, v \in AuthUsers : u = v) /\ ReplaceInv,
      [Next]_vars PROVE ReplaceInv'
  OBVIOUS
<1> USE Domains
    DEF TypeInv, TypeOK, LocalsOK, ReplaceInv, AuthPcs, ShutPcs, FailPcs, BeatPcs, clientVars,
        sessionVars, historyVars, callVars, failVars, Goto, BornInv
<1>1. ASSUME NEW u \in Users, AuthSend(u) PROVE ReplaceInv'
  BY <1>1 DEF AuthSend
<1>2. ASSUME NEW u \in Users, HeartbeatNow(u) PROVE ReplaceInv'
  BY <1>2 DEF HeartbeatNow
<1>3. ASSUME NEW u \in Users, AuthRejected(u) PROVE ReplaceInv'
  BY <1>3 DEF AuthRejected
<1>4. ASSUME NEW u \in Users, AuthAccepted(u) PROVE ReplaceInv'
  BY <1>4 DEF AuthAccepted
<1>5. ASSUME NEW u \in Users, AuthStop(u) PROVE ReplaceInv'
  BY <1>5 DEF AuthStop, Retire, Stop
<1>6. ASSUME NEW u \in Users, AuthJoin(u) PROVE ReplaceInv'
  BY <1>6 DEF AuthJoin
<1>7. ASSUME NEW u \in Users, AuthNew(u) PROVE ReplaceInv'
  <2>1. fresh[u] \notin Born /\ fresh[u] \in SessionIds
    BY <1>7 DEF AuthNew, Born
  <2>2. pc[fresh[u]] = "off" /\ ~alive[fresh[u]]
    BY <2>1
  <2>3. \A t \in Threads : target[t] # fresh[u] /\ prev[t] # fresh[u]
    BY <2>1
  <2> QED
    BY <2>1, <2>2, <2>3, <1>7 DEF AuthNew
<1>8. ASSUME NEW u \in Users, AuthPublish(u) PROVE ReplaceInv'
  BY <1>8 DEF AuthPublish
<1>9. ASSUME NEW u \in Users, AuthToken(u) PROVE ReplaceInv'
  BY <1>9 DEF AuthToken
<1>10. ASSUME NEW u \in Users, BeatToken(u) PROVE ReplaceInv'
  BY <1>10 DEF BeatToken, BeatEnds, Rest
<1>11. ASSUME NEW u \in Users, SetHook(u) PROVE ReplaceInv'
  BY <1>11 DEF SetHook
<1>12. ASSUME NEW u \in Users, NEW h \in Hooks, RegisterHook(u, h) PROVE ReplaceInv'
  BY <1>12 DEF RegisterHook
<1>13. ASSUME NEW t \in Threads, BeatSent(t) PROVE ReplaceInv'
  BY <1>13 DEF BeatSent, LockFree
<1>14. ASSUME NEW t \in Threads, BeatRefused(t) PROVE ReplaceInv'
  BY <1>14 DEF BeatRefused, LockFree, BeatEnds, Rest
<1>15. ASSUME NEW t \in Threads, BeatOk(t) PROVE ReplaceInv'
  <2> PICK g \in MayGrant(t) : BeatReturns(t, g)
    BY <1>15 DEF BeatOk
  <2> QED
    BY <1>15 DEF BeatOk, BeatReturns, Release
<1>16. ASSUME NEW t \in Threads, BeatDenied(t) PROVE ReplaceInv'
  BY <1>16 DEF BeatDenied, MayGrant
<1>17. ASSUME NEW t \in Threads, BeatRaised(t) PROVE ReplaceInv'
  BY <1>17 DEF BeatRaised
<1>18. ASSUME NEW t \in Threads, BeatEscaped(t) PROVE ReplaceInv'
  BY <1>18 DEF BeatEscaped, BeatEnds, Rest, Release
<1>19. ASSUME NEW t \in Threads, FailRead(t) PROVE ReplaceInv'
  BY <1>19 DEF FailRead
<1>20. ASSUME NEW t \in Threads, FailStop(t) PROVE ReplaceInv'
  BY <1>20 DEF FailStop, Stop
<1>21. ASSUME NEW t \in Threads, FailUnheard(t) PROVE ReplaceInv'
  BY <1>21 DEF FailUnheard
<1>22. ASSUME NEW t \in Threads, FailFires(t) PROVE ReplaceInv'
  BY <1>22 DEF FailFires
<1>23. ASSUME NEW t \in Threads, HookReturns(t) PROVE ReplaceInv'
  BY <1>23 DEF HookReturns
<1>24. ASSUME NEW t \in Threads, FailDone(t) PROVE ReplaceInv'
  BY <1>24 DEF FailDone, Release, Rest
<1>25. ASSUME NEW t \in Threads, ShutBegin(t) PROVE ReplaceInv'
  BY <1>25 DEF ShutBegin, CallsShutdown
<1>26. ASSUME NEW t \in Threads, ShutStop(t) PROVE ReplaceInv'
  BY <1>26 DEF ShutStop, Retire, Stop
<1>27. ASSUME NEW t \in Threads, ShutJoin(t) PROVE ReplaceInv'
  BY <1>27 DEF ShutJoin
<1>28. ASSUME NEW t \in Threads, ShutJoinSelf(t) PROVE ReplaceInv'
  BY <1>28 DEF ShutJoinSelf, Closes
<1>29. ASSUME NEW t \in Threads, ShutClear(t) PROVE ReplaceInv'
  BY <1>29 DEF ShutClear, AfterShutdown, Closes
<1>30. ASSUME NEW s \in SessionIds, BeaterStop(s) PROVE ReplaceInv'
  BY <1>30 DEF BeaterStop
<1>31. ASSUME NEW s \in SessionIds, BeaterTick(s) PROVE ReplaceInv'
  BY <1>31 DEF BeaterTick
<1>32. ASSUME NEW s \in SessionIds, BeaterClockJump(s) PROVE ReplaceInv'
  BY <1>32 DEF BeaterClockJump
<1>33. ASSUME UNCHANGED vars PROVE ReplaceInv'
  BY <1>33 DEF vars, localVars, callVars, failVars
<1> HIDE DEF TypeInv, TypeOK, LocalsOK, ReplaceInv, Goto, BornInv
<1> QED
  BY <1>1, <1>2, <1>3, <1>4, <1>5, <1>6, <1>7, <1>8, <1>9, <1>10, <1>11, <1>12, <1>13,
     <1>14, <1>15, <1>16, <1>17, <1>18, <1>19, <1>20, <1>21, <1>22, <1>23, <1>24, <1>25,
     <1>26, <1>27, <1>28, <1>29, <1>30, <1>31, <1>32, <1>33
  DEF Next, UserStarts, UserContinues, AuthContinues, ThreadContinues, BeatContinues, ShutContinues

LEMMA NextNoOrphan == TypeInv /\ BornInv /\ (\A u, v \in AuthUsers : u = v) /\ ReplaceInv /\
  NoOrphan /\ [Next]_vars => NoOrphan'
<1> SUFFICES ASSUME TypeInv /\ BornInv /\ (\A u, v \in AuthUsers : u = v) /\ ReplaceInv /\
      NoOrphan, [Next]_vars PROVE NoOrphan'
  OBVIOUS
<1> USE Domains
    DEF TypeInv, TypeOK, LocalsOK, NoOrphan, AuthPcs, ShutPcs, FailPcs, BeatPcs, clientVars,
        sessionVars, historyVars, callVars, failVars, Goto, BornInv, ReplaceInv, Stopping
<1>1. ASSUME NEW u \in Users, AuthSend(u) PROVE NoOrphan'
  BY <1>1 DEF AuthSend
<1>2. ASSUME NEW u \in Users, HeartbeatNow(u) PROVE NoOrphan'
  BY <1>2 DEF HeartbeatNow
<1>3. ASSUME NEW u \in Users, AuthRejected(u) PROVE NoOrphan'
  BY <1>3 DEF AuthRejected
<1>4. ASSUME NEW u \in Users, AuthAccepted(u) PROVE NoOrphan'
  BY <1>4 DEF AuthAccepted
<1>5. ASSUME NEW u \in Users, AuthStop(u) PROVE NoOrphan'
  BY <1>5 DEF AuthStop, Retire, Stop
<1>6. ASSUME NEW u \in Users, AuthJoin(u) PROVE NoOrphan'
  BY <1>6 DEF AuthJoin
<1>7. ASSUME NEW u \in Users, AuthNew(u) PROVE NoOrphan'
  <2>1. \A s \in SessionIds : alive'[s] => alive[s] \/ s = fresh[u]
    BY <1>7 DEF AuthNew
  <2>2. pc' = [t \in Threads |-> pc'[t]] /\ pc'[u] = "auth_publish"
    BY <1>7 DEF AuthNew
  <2>3. \A t \in Threads : pc[t] \in {"auth_stop", "shut_stop", "auth_publish"} => pc'[t] = pc[t]
    <3>1. pc[fresh[u]] \in {"off", "sleep", "done"} \cup BeatPcs \cup FailPcs \cup ShutPcs
      BY <1>7 DEF AuthNew
    <3>2. fresh[u] \notin Born /\ pc[fresh[u]] = "off"
      BY <1>7 DEF AuthNew, Born
    <3> QED
      BY <3>2, <1>7 DEF AuthNew
  <2>4. current' = current /\ prev' = prev /\ fresh' = fresh
    BY <1>7 DEF AuthNew
  <2>5. ASSUME NEW s \in SessionIds, alive'[s]
        PROVE  \/ current = s
               \/ \E v \in Users : pc'[v] = "auth_publish" /\ fresh[v] = s
               \/ Stopping(s)'
    <3>1. CASE s = fresh[u]
      BY <3>1, <2>2
    <3>2. CASE alive[s]
      BY <3>2, <2>3, <2>4
    <3> QED
      BY <3>1, <3>2, <2>1, <2>5
  <2> QED
    BY <2>4, <2>5
<1>8. ASSUME NEW u \in Users, AuthPublish(u) PROVE NoOrphan'
  BY <1>8 DEF AuthPublish
<1>9. ASSUME NEW u \in Users, AuthToken(u) PROVE NoOrphan'
  BY <1>9 DEF AuthToken
<1>10. ASSUME NEW u \in Users, BeatToken(u) PROVE NoOrphan'
  BY <1>10 DEF BeatToken, BeatEnds, Rest
<1>11. ASSUME NEW u \in Users, SetHook(u) PROVE NoOrphan'
  BY <1>11 DEF SetHook
<1>12. ASSUME NEW u \in Users, NEW h \in Hooks, RegisterHook(u, h) PROVE NoOrphan'
  BY <1>12 DEF RegisterHook
<1>13. ASSUME NEW t \in Threads, BeatSent(t) PROVE NoOrphan'
  BY <1>13 DEF BeatSent, LockFree
<1>14. ASSUME NEW t \in Threads, BeatRefused(t) PROVE NoOrphan'
  BY <1>14 DEF BeatRefused, LockFree, BeatEnds, Rest
<1>15. ASSUME NEW t \in Threads, BeatOk(t) PROVE NoOrphan'
  <2> PICK g \in MayGrant(t) : BeatReturns(t, g)
    BY <1>15 DEF BeatOk
  <2> QED
    BY <1>15 DEF BeatOk, BeatReturns, Release
<1>16. ASSUME NEW t \in Threads, BeatDenied(t) PROVE NoOrphan'
  BY <1>16 DEF BeatDenied, MayGrant
<1>17. ASSUME NEW t \in Threads, BeatRaised(t) PROVE NoOrphan'
  BY <1>17 DEF BeatRaised
<1>18. ASSUME NEW t \in Threads, BeatEscaped(t) PROVE NoOrphan'
  BY <1>18 DEF BeatEscaped, BeatEnds, Rest, Release
<1>19. ASSUME NEW t \in Threads, FailRead(t) PROVE NoOrphan'
  BY <1>19 DEF FailRead
<1>20. ASSUME NEW t \in Threads, FailStop(t) PROVE NoOrphan'
  BY <1>20 DEF FailStop, Stop
<1>21. ASSUME NEW t \in Threads, FailUnheard(t) PROVE NoOrphan'
  BY <1>21 DEF FailUnheard
<1>22. ASSUME NEW t \in Threads, FailFires(t) PROVE NoOrphan'
  BY <1>22 DEF FailFires
<1>23. ASSUME NEW t \in Threads, HookReturns(t) PROVE NoOrphan'
  BY <1>23 DEF HookReturns
<1>24. ASSUME NEW t \in Threads, FailDone(t) PROVE NoOrphan'
  BY <1>24 DEF FailDone, Release, Rest
<1>25. ASSUME NEW t \in Threads, ShutBegin(t) PROVE NoOrphan'
  BY <1>25 DEF ShutBegin, CallsShutdown
<1>26. ASSUME NEW t \in Threads, ShutStop(t) PROVE NoOrphan'
  BY <1>26 DEF ShutStop, Retire, Stop
<1>27. ASSUME NEW t \in Threads, ShutJoin(t) PROVE NoOrphan'
  BY <1>27 DEF ShutJoin
<1>28. ASSUME NEW t \in Threads, ShutJoinSelf(t) PROVE NoOrphan'
  BY <1>28 DEF ShutJoinSelf, Closes
<1>29. ASSUME NEW t \in Threads, ShutClear(t) PROVE NoOrphan'
  BY <1>29 DEF ShutClear, AfterShutdown, Closes
<1>30. ASSUME NEW s \in SessionIds, BeaterStop(s) PROVE NoOrphan'
  BY <1>30 DEF BeaterStop
<1>31. ASSUME NEW s \in SessionIds, BeaterTick(s) PROVE NoOrphan'
  BY <1>31 DEF BeaterTick
<1>32. ASSUME NEW s \in SessionIds, BeaterClockJump(s) PROVE NoOrphan'
  BY <1>32 DEF BeaterClockJump
<1>33. ASSUME UNCHANGED vars PROVE NoOrphan'
  BY <1>33 DEF vars, localVars, callVars, failVars
<1> HIDE DEF TypeInv, TypeOK, LocalsOK, NoOrphan, Goto, BornInv, ReplaceInv, Stopping
<1> QED
  BY <1>1, <1>2, <1>3, <1>4, <1>5, <1>6, <1>7, <1>8, <1>9, <1>10, <1>11, <1>12, <1>13,
     <1>14, <1>15, <1>16, <1>17, <1>18, <1>19, <1>20, <1>21, <1>22, <1>23, <1>24, <1>25,
     <1>26, <1>27, <1>28, <1>29, <1>30, <1>31, <1>32, <1>33
  DEF Next, UserStarts, UserContinues, AuthContinues, ThreadContinues, BeatContinues, ShutContinues

LEMMA BornAreAlive ==
  ASSUME TypeInv, FreshInv, NEW r \in Born', [Next]_vars
  PROVE  r \in Born \/ alive'[r]
<1> USE Domains
    DEF TypeInv, TypeOK, LocalsOK, AuthPcs, ShutPcs, FailPcs, BeatPcs, clientVars,
        sessionVars, historyVars, callVars, failVars, Goto, FreshInv, Born
<1>1. ASSUME NEW u \in Users, AuthSend(u) PROVE r \in Born \/ alive'[r]
  BY <1>1 DEF AuthSend
<1>2. ASSUME NEW u \in Users, HeartbeatNow(u) PROVE r \in Born \/ alive'[r]
  BY <1>2 DEF HeartbeatNow
<1>3. ASSUME NEW u \in Users, AuthRejected(u) PROVE r \in Born \/ alive'[r]
  BY <1>3 DEF AuthRejected
<1>4. ASSUME NEW u \in Users, AuthAccepted(u) PROVE r \in Born \/ alive'[r]
  <2>1. /\ created \in Nat /\ created' = created + 1 /\ fresh[u] = NoSession
        /\ fresh' = [fresh EXCEPT ![u] = created + 1]
        /\ \A v \in Users : v # u => pc'[v] = pc[v]
        /\ pc'[u] \in {"auth_new", "auth_stop"}
    BY Numbers, <1>4 DEF AuthAccepted
  <2>2. r \in Nat /\ r # created + 1 /\ r <= created + 1 /\ r # NoSession
    BY <2>1, Numbers
  <2>3. r <= created
    BY <2>1, <2>2
  <2>4. ASSUME NEW v \in Users, fresh[v] = r PROVE pc[v] \in {"auth_publish", "auth_token"}
    BY <2>1, <2>2, <2>4
  <2> QED
    BY <2>3, <2>4
<1>5. ASSUME NEW u \in Users, AuthStop(u) PROVE r \in Born \/ alive'[r]
  BY <1>5 DEF AuthStop, Retire, Stop
<1>6. ASSUME NEW u \in Users, AuthJoin(u) PROVE r \in Born \/ alive'[r]
  BY <1>6 DEF AuthJoin
<1>7. ASSUME NEW u \in Users, AuthNew(u) PROVE r \in Born \/ alive'[r]
  <2>1. \A v \in Users : v # u => pc'[v] = pc[v]
    BY <1>7 DEF AuthNew
  <2>2. CASE r = fresh[u]
    BY <2>2, <1>7 DEF AuthNew
  <2>3. CASE r # fresh[u]
    BY <2>1, <2>3, <1>7 DEF AuthNew
  <2> QED
    BY <2>2, <2>3
<1>8. ASSUME NEW u \in Users, AuthPublish(u) PROVE r \in Born \/ alive'[r]
  BY <1>8 DEF AuthPublish
<1>9. ASSUME NEW u \in Users, AuthToken(u) PROVE r \in Born \/ alive'[r]
  BY <1>9 DEF AuthToken
<1>10. ASSUME NEW u \in Users, BeatToken(u) PROVE r \in Born \/ alive'[r]
  BY <1>10 DEF BeatToken, BeatEnds, Rest
<1>11. ASSUME NEW u \in Users, SetHook(u) PROVE r \in Born \/ alive'[r]
  BY <1>11 DEF SetHook
<1>12. ASSUME NEW u \in Users, NEW h \in Hooks, RegisterHook(u, h) PROVE r \in Born \/ alive'[r]
  BY <1>12 DEF RegisterHook
<1>13. ASSUME NEW t \in Threads, BeatSent(t) PROVE r \in Born \/ alive'[r]
  BY <1>13 DEF BeatSent, LockFree
<1>14. ASSUME NEW t \in Threads, BeatRefused(t) PROVE r \in Born \/ alive'[r]
  BY <1>14 DEF BeatRefused, LockFree, BeatEnds, Rest
<1>15. ASSUME NEW t \in Threads, BeatOk(t) PROVE r \in Born \/ alive'[r]
  <2> PICK g \in MayGrant(t) : BeatReturns(t, g)
    BY <1>15 DEF BeatOk
  <2> QED
    BY <1>15 DEF BeatOk, BeatReturns, Release
<1>16. ASSUME NEW t \in Threads, BeatDenied(t) PROVE r \in Born \/ alive'[r]
  BY <1>16 DEF BeatDenied, MayGrant
<1>17. ASSUME NEW t \in Threads, BeatRaised(t) PROVE r \in Born \/ alive'[r]
  BY <1>17 DEF BeatRaised
<1>18. ASSUME NEW t \in Threads, BeatEscaped(t) PROVE r \in Born \/ alive'[r]
  BY <1>18 DEF BeatEscaped, BeatEnds, Rest, Release
<1>19. ASSUME NEW t \in Threads, FailRead(t) PROVE r \in Born \/ alive'[r]
  BY <1>19 DEF FailRead
<1>20. ASSUME NEW t \in Threads, FailStop(t) PROVE r \in Born \/ alive'[r]
  BY <1>20 DEF FailStop, Stop
<1>21. ASSUME NEW t \in Threads, FailUnheard(t) PROVE r \in Born \/ alive'[r]
  BY <1>21 DEF FailUnheard
<1>22. ASSUME NEW t \in Threads, FailFires(t) PROVE r \in Born \/ alive'[r]
  BY <1>22 DEF FailFires
<1>23. ASSUME NEW t \in Threads, HookReturns(t) PROVE r \in Born \/ alive'[r]
  BY <1>23 DEF HookReturns
<1>24. ASSUME NEW t \in Threads, FailDone(t) PROVE r \in Born \/ alive'[r]
  BY <1>24 DEF FailDone, Release, Rest
<1>25. ASSUME NEW t \in Threads, ShutBegin(t) PROVE r \in Born \/ alive'[r]
  BY <1>25 DEF ShutBegin, CallsShutdown
<1>26. ASSUME NEW t \in Threads, ShutStop(t) PROVE r \in Born \/ alive'[r]
  BY <1>26 DEF ShutStop, Retire, Stop
<1>27. ASSUME NEW t \in Threads, ShutJoin(t) PROVE r \in Born \/ alive'[r]
  BY <1>27 DEF ShutJoin
<1>28. ASSUME NEW t \in Threads, ShutJoinSelf(t) PROVE r \in Born \/ alive'[r]
  BY <1>28 DEF ShutJoinSelf, Closes
<1>29. ASSUME NEW t \in Threads, ShutClear(t) PROVE r \in Born \/ alive'[r]
  BY <1>29 DEF ShutClear, AfterShutdown, Closes
<1>30. ASSUME NEW s \in SessionIds, BeaterStop(s) PROVE r \in Born \/ alive'[r]
  BY <1>30 DEF BeaterStop
<1>31. ASSUME NEW s \in SessionIds, BeaterTick(s) PROVE r \in Born \/ alive'[r]
  BY <1>31 DEF BeaterTick
<1>32. ASSUME NEW s \in SessionIds, BeaterClockJump(s) PROVE r \in Born \/ alive'[r]
  BY <1>32 DEF BeaterClockJump
<1>33. ASSUME UNCHANGED vars PROVE r \in Born \/ alive'[r]
  BY <1>33 DEF vars, localVars, callVars, failVars
<1> HIDE DEF TypeInv, TypeOK, LocalsOK, Goto, FreshInv, Born
<1> QED
  BY <1>1, <1>2, <1>3, <1>4, <1>5, <1>6, <1>7, <1>8, <1>9, <1>10, <1>11, <1>12, <1>13,
     <1>14, <1>15, <1>16, <1>17, <1>18, <1>19, <1>20, <1>21, <1>22, <1>23, <1>24, <1>25,
     <1>26, <1>27, <1>28, <1>29, <1>30, <1>31, <1>32, <1>33
  DEF Next, UserStarts, UserContinues, AuthContinues, ThreadContinues, BeatContinues, ShutContinues

LEMMA NextDeathIsReported == TypeInv /\ BornInv /\ LockInv /\ FailInv /\ FreshInv /\
  DeathIsReported /\ [Next]_vars => DeathIsReported'
<1> SUFFICES ASSUME TypeInv /\ BornInv /\ LockInv /\ FailInv /\ FreshInv /\ DeathIsReported,
      [Next]_vars PROVE DeathIsReported'
  OBVIOUS
<1>0. \A r \in Born' : r \in Born \/ alive'[r]
  BY BornAreAlive
<1> USE <1>0, Domains
    DEF TypeInv, TypeOK, LocalsOK, DeathIsReported, AuthPcs, ShutPcs, FailPcs, BeatPcs, clientVars,
        sessionVars, historyVars, callVars, failVars, Goto, BornInv, FailInv
<1>1. ASSUME NEW u \in Users, AuthSend(u) PROVE DeathIsReported'
  BY <1>1 DEF AuthSend
<1>2. ASSUME NEW u \in Users, HeartbeatNow(u) PROVE DeathIsReported'
  BY <1>2 DEF HeartbeatNow
<1>3. ASSUME NEW u \in Users, AuthRejected(u) PROVE DeathIsReported'
  BY <1>3 DEF AuthRejected
<1>4. ASSUME NEW u \in Users, AuthAccepted(u) PROVE DeathIsReported'
  BY <1>4 DEF AuthAccepted
<1>5. ASSUME NEW u \in Users, AuthStop(u) PROVE DeathIsReported'
  BY <1>5 DEF AuthStop, Retire, Stop
<1>6. ASSUME NEW u \in Users, AuthJoin(u) PROVE DeathIsReported'
  BY <1>6 DEF AuthJoin
<1>7. ASSUME NEW u \in Users, AuthNew(u) PROVE DeathIsReported'
  <2>1. fresh[u] \notin Born /\ fresh[u] \in SessionIds
    BY <1>7 DEF AuthNew, Born
  <2>2. pc[fresh[u]] = "off" /\ ~alive[fresh[u]]
    BY <2>1
  <2>3. \A t \in Threads : target[t] # fresh[u] /\ prev[t] # fresh[u]
    BY <2>1
  <2> QED
    BY <2>1, <2>2, <2>3, <1>7 DEF AuthNew
<1>8. ASSUME NEW u \in Users, AuthPublish(u) PROVE DeathIsReported'
  BY <1>8 DEF AuthPublish
<1>9. ASSUME NEW u \in Users, AuthToken(u) PROVE DeathIsReported'
  BY <1>9 DEF AuthToken
<1>10. ASSUME NEW u \in Users, BeatToken(u) PROVE DeathIsReported'
  BY <1>10 DEF BeatToken, BeatEnds, Rest
<1>11. ASSUME NEW u \in Users, SetHook(u) PROVE DeathIsReported'
  BY <1>11 DEF SetHook
<1>12. ASSUME NEW u \in Users, NEW h \in Hooks, RegisterHook(u, h) PROVE DeathIsReported'
  BY <1>12 DEF RegisterHook
<1>13. ASSUME NEW t \in Threads, BeatSent(t) PROVE DeathIsReported'
  BY <1>13 DEF BeatSent, LockFree
<1>14. ASSUME NEW t \in Threads, BeatRefused(t) PROVE DeathIsReported'
  BY <1>14 DEF BeatRefused, LockFree, BeatEnds, Rest
<1>15. ASSUME NEW t \in Threads, BeatOk(t) PROVE DeathIsReported'
  <2> PICK g \in MayGrant(t) : BeatReturns(t, g)
    BY <1>15 DEF BeatOk
  <2> QED
    BY <1>15 DEF BeatOk, BeatReturns, Release
<1>16. ASSUME NEW t \in Threads, BeatDenied(t) PROVE DeathIsReported'
  BY <1>16 DEF BeatDenied, MayGrant
<1>17. ASSUME NEW t \in Threads, BeatRaised(t) PROVE DeathIsReported'
  BY <1>17 DEF BeatRaised
<1>18. ASSUME NEW t \in Threads, BeatEscaped(t) PROVE DeathIsReported'
  BY <1>18 DEF BeatEscaped, BeatEnds, Rest, Release
<1>19. ASSUME NEW t \in Threads, FailRead(t) PROVE DeathIsReported'
  BY <1>19 DEF FailRead
<1>20. ASSUME NEW t \in Threads, FailStop(t) PROVE DeathIsReported'
  BY <1>20 DEF FailStop, Stop
<1>21. ASSUME NEW t \in Threads, FailUnheard(t) PROVE DeathIsReported'
  BY <1>21 DEF FailUnheard
<1>22. ASSUME NEW t \in Threads, FailFires(t) PROVE DeathIsReported'
  BY <1>22 DEF FailFires
<1>23. ASSUME NEW t \in Threads, HookReturns(t) PROVE DeathIsReported'
  BY <1>23 DEF HookReturns
<1>24. ASSUME NEW t \in Threads, FailDone(t) PROVE DeathIsReported'
  BY <1>24 DEF FailDone, Release, Rest
<1>25. ASSUME NEW t \in Threads, ShutBegin(t) PROVE DeathIsReported'
  BY <1>25 DEF ShutBegin, CallsShutdown
<1>26. ASSUME NEW t \in Threads, ShutStop(t) PROVE DeathIsReported'
  BY <1>26 DEF ShutStop, Retire, Stop
<1>27. ASSUME NEW t \in Threads, ShutJoin(t) PROVE DeathIsReported'
  BY <1>27 DEF ShutJoin
<1>28. ASSUME NEW t \in Threads, ShutJoinSelf(t) PROVE DeathIsReported'
  BY <1>28 DEF ShutJoinSelf, Closes
<1>29. ASSUME NEW t \in Threads, ShutClear(t) PROVE DeathIsReported'
  BY <1>29 DEF ShutClear, AfterShutdown, Closes
<1>30. ASSUME NEW s \in SessionIds, BeaterStop(s) PROVE DeathIsReported'
  BY <1>30 DEF BeaterStop
<1>31. ASSUME NEW s \in SessionIds, BeaterTick(s) PROVE DeathIsReported'
  BY <1>31 DEF BeaterTick
<1>32. ASSUME NEW s \in SessionIds, BeaterClockJump(s) PROVE DeathIsReported'
  BY <1>32 DEF BeaterClockJump
<1>33. ASSUME UNCHANGED vars PROVE DeathIsReported'
  BY <1>33 DEF vars, localVars, callVars, failVars
<1> HIDE DEF TypeInv, TypeOK, LocalsOK, DeathIsReported, Goto, BornInv, FailInv
<1> QED
  BY <1>1, <1>2, <1>3, <1>4, <1>5, <1>6, <1>7, <1>8, <1>9, <1>10, <1>11, <1>12, <1>13,
     <1>14, <1>15, <1>16, <1>17, <1>18, <1>19, <1>20, <1>21, <1>22, <1>23, <1>24, <1>25,
     <1>26, <1>27, <1>28, <1>29, <1>30, <1>31, <1>32, <1>33
  DEF Next, UserStarts, UserContinues, AuthContinues, ThreadContinues, BeatContinues, ShutContinues

LEMMA NextFireInv == TypeInv /\ BornInv /\ LockInv /\ FailInv /\ FireInv /\ [Next]_vars =>
  FireInv'
<1> SUFFICES ASSUME TypeInv /\ BornInv /\ LockInv /\ FailInv /\ FireInv, [Next]_vars PROVE
      FireInv'
  OBVIOUS
<1> USE Domains
    DEF TypeInv, TypeOK, LocalsOK, FireInv, AuthPcs, ShutPcs, FailPcs, BeatPcs, clientVars,
        sessionVars, historyVars, callVars, failVars, Goto, BornInv, LockInv, FailInv, LockedMayFire, JumpMayFire, One
<1>1. ASSUME NEW u \in Users, AuthSend(u) PROVE FireInv'
  BY <1>1 DEF AuthSend
<1>2. ASSUME NEW u \in Users, HeartbeatNow(u) PROVE FireInv'
  BY <1>2 DEF HeartbeatNow
<1>3. ASSUME NEW u \in Users, AuthRejected(u) PROVE FireInv'
  BY <1>3 DEF AuthRejected
<1>4. ASSUME NEW u \in Users, AuthAccepted(u) PROVE FireInv'
  BY <1>4 DEF AuthAccepted
<1>5. ASSUME NEW u \in Users, AuthStop(u) PROVE FireInv'
  BY <1>5 DEF AuthStop, Retire, Stop
<1>6. ASSUME NEW u \in Users, AuthJoin(u) PROVE FireInv'
  BY <1>6 DEF AuthJoin
<1>7. ASSUME NEW u \in Users, AuthNew(u) PROVE FireInv'
  <2>1. fresh[u] \notin Born /\ fresh[u] \in SessionIds
    BY <1>7 DEF AuthNew, Born
  <2>2. pc[fresh[u]] = "off" /\ ~alive[fresh[u]]
    BY <2>1
  <2>3. \A t \in Threads : target[t] # fresh[u] /\ prev[t] # fresh[u]
    BY <2>1
  <2> QED
    BY <2>1, <2>2, <2>3, <1>7 DEF AuthNew
<1>8. ASSUME NEW u \in Users, AuthPublish(u) PROVE FireInv'
  BY <1>8 DEF AuthPublish
<1>9. ASSUME NEW u \in Users, AuthToken(u) PROVE FireInv'
  BY <1>9 DEF AuthToken
<1>10. ASSUME NEW u \in Users, BeatToken(u) PROVE FireInv'
  BY <1>10 DEF BeatToken, BeatEnds, Rest
<1>11. ASSUME NEW u \in Users, SetHook(u) PROVE FireInv'
  BY <1>11 DEF SetHook
<1>12. ASSUME NEW u \in Users, NEW h \in Hooks, RegisterHook(u, h) PROVE FireInv'
  BY <1>12 DEF RegisterHook
<1>13. ASSUME NEW t \in Threads, BeatSent(t) PROVE FireInv'
  BY <1>13 DEF BeatSent, LockFree
<1>14. ASSUME NEW t \in Threads, BeatRefused(t) PROVE FireInv'
  BY <1>14 DEF BeatRefused, LockFree, BeatEnds, Rest
<1>15. ASSUME NEW t \in Threads, BeatOk(t) PROVE FireInv'
  <2> PICK g \in MayGrant(t) : BeatReturns(t, g)
    BY <1>15 DEF BeatOk
  <2> QED
    BY <1>15 DEF BeatOk, BeatReturns, Release
<1>16. ASSUME NEW t \in Threads, BeatDenied(t) PROVE FireInv'
  BY <1>16 DEF BeatDenied, MayGrant
<1>17. ASSUME NEW t \in Threads, BeatRaised(t) PROVE FireInv'
  BY <1>17 DEF BeatRaised
<1>18. ASSUME NEW t \in Threads, BeatEscaped(t) PROVE FireInv'
  BY <1>18 DEF BeatEscaped, BeatEnds, Rest, Release
<1>19. ASSUME NEW t \in Threads, FailRead(t) PROVE FireInv'
  BY <1>19 DEF FailRead
<1>20. ASSUME NEW t \in Threads, FailStop(t) PROVE FireInv'
  BY <1>20 DEF FailStop, Stop
<1>21. ASSUME NEW t \in Threads, FailUnheard(t) PROVE FireInv'
  BY <1>21 DEF FailUnheard
<1>22. ASSUME NEW t \in Threads, FailFires(t) PROVE FireInv'
  BY <1>22 DEF FailFires
<1>23. ASSUME NEW t \in Threads, HookReturns(t) PROVE FireInv'
  BY <1>23 DEF HookReturns
<1>24. ASSUME NEW t \in Threads, FailDone(t) PROVE FireInv'
  BY <1>24 DEF FailDone, Release, Rest
<1>25. ASSUME NEW t \in Threads, ShutBegin(t) PROVE FireInv'
  BY <1>25 DEF ShutBegin, CallsShutdown
<1>26. ASSUME NEW t \in Threads, ShutStop(t) PROVE FireInv'
  BY <1>26 DEF ShutStop, Retire, Stop
<1>27. ASSUME NEW t \in Threads, ShutJoin(t) PROVE FireInv'
  BY <1>27 DEF ShutJoin
<1>28. ASSUME NEW t \in Threads, ShutJoinSelf(t) PROVE FireInv'
  BY <1>28 DEF ShutJoinSelf, Closes
<1>29. ASSUME NEW t \in Threads, ShutClear(t) PROVE FireInv'
  BY <1>29 DEF ShutClear, AfterShutdown, Closes
<1>30. ASSUME NEW s \in SessionIds, BeaterStop(s) PROVE FireInv'
  BY <1>30 DEF BeaterStop
<1>31. ASSUME NEW s \in SessionIds, BeaterTick(s) PROVE FireInv'
  BY <1>31 DEF BeaterTick
<1>32. ASSUME NEW s \in SessionIds, BeaterClockJump(s) PROVE FireInv'
  BY <1>32 DEF BeaterClockJump
<1>33. ASSUME UNCHANGED vars PROVE FireInv'
  BY <1>33 DEF vars, localVars, callVars, failVars
<1> HIDE DEF TypeInv, TypeOK, LocalsOK, FireInv, Goto, BornInv, LockInv, FailInv,
      LockedMayFire, JumpMayFire, One
<1> QED
  BY <1>1, <1>2, <1>3, <1>4, <1>5, <1>6, <1>7, <1>8, <1>9, <1>10, <1>11, <1>12, <1>13,
     <1>14, <1>15, <1>16, <1>17, <1>18, <1>19, <1>20, <1>21, <1>22, <1>23, <1>24, <1>25,
     <1>26, <1>27, <1>28, <1>29, <1>30, <1>31, <1>32, <1>33
  DEF Next, UserStarts, UserContinues, AuthContinues, ThreadContinues, BeatContinues, ShutContinues

\* Only an exception that escapes _heartbeat_once ends a heartbeat thread while
\* its session lives: every other way out of _run goes through stop().
LEMMA NextDeadInv ==
  ASSUME "escaped" \notin Outcomes
  PROVE  TypeInv /\ BornInv /\ DeadInv /\ [Next]_vars => DeadInv'
<1> SUFFICES ASSUME TypeInv /\ BornInv /\ DeadInv, [Next]_vars PROVE DeadInv'
  OBVIOUS
<1> USE Domains
    DEF TypeInv, TypeOK, LocalsOK, DeadInv, AuthPcs, ShutPcs, FailPcs, BeatPcs, clientVars,
        sessionVars, historyVars, callVars, failVars, Goto, BornInv
<1>1. ASSUME NEW u \in Users, AuthSend(u) PROVE DeadInv'
  BY <1>1 DEF AuthSend
<1>2. ASSUME NEW u \in Users, HeartbeatNow(u) PROVE DeadInv'
  BY <1>2 DEF HeartbeatNow
<1>3. ASSUME NEW u \in Users, AuthRejected(u) PROVE DeadInv'
  BY <1>3 DEF AuthRejected
<1>4. ASSUME NEW u \in Users, AuthAccepted(u) PROVE DeadInv'
  BY <1>4 DEF AuthAccepted
<1>5. ASSUME NEW u \in Users, AuthStop(u) PROVE DeadInv'
  BY <1>5 DEF AuthStop, Retire, Stop
<1>6. ASSUME NEW u \in Users, AuthJoin(u) PROVE DeadInv'
  BY <1>6 DEF AuthJoin
<1>7. ASSUME NEW u \in Users, AuthNew(u) PROVE DeadInv'
  <2>1. fresh[u] \notin Born /\ fresh[u] \in SessionIds
    BY <1>7 DEF AuthNew, Born
  <2>2. pc[fresh[u]] = "off" /\ ~alive[fresh[u]]
    BY <2>1
  <2>3. \A t \in Threads : target[t] # fresh[u] /\ prev[t] # fresh[u]
    BY <2>1
  <2> QED
    BY <2>1, <2>2, <2>3, <1>7 DEF AuthNew
<1>8. ASSUME NEW u \in Users, AuthPublish(u) PROVE DeadInv'
  BY <1>8 DEF AuthPublish
<1>9. ASSUME NEW u \in Users, AuthToken(u) PROVE DeadInv'
  BY <1>9 DEF AuthToken
<1>10. ASSUME NEW u \in Users, BeatToken(u) PROVE DeadInv'
  BY <1>10 DEF BeatToken, BeatEnds, Rest
<1>11. ASSUME NEW u \in Users, SetHook(u) PROVE DeadInv'
  BY <1>11 DEF SetHook
<1>12. ASSUME NEW u \in Users, NEW h \in Hooks, RegisterHook(u, h) PROVE DeadInv'
  BY <1>12 DEF RegisterHook
<1>13. ASSUME NEW t \in Threads, BeatSent(t) PROVE DeadInv'
  BY <1>13 DEF BeatSent, LockFree
<1>14. ASSUME NEW t \in Threads, BeatRefused(t) PROVE DeadInv'
  BY <1>14 DEF BeatRefused, LockFree, BeatEnds, Rest
<1>15. ASSUME NEW t \in Threads, BeatOk(t) PROVE DeadInv'
  <2> PICK g \in MayGrant(t) : BeatReturns(t, g)
    BY <1>15 DEF BeatOk
  <2> QED
    BY <1>15 DEF BeatOk, BeatReturns, Release
<1>16. ASSUME NEW t \in Threads, BeatDenied(t) PROVE DeadInv'
  BY <1>16 DEF BeatDenied, MayGrant
<1>17. ASSUME NEW t \in Threads, BeatRaised(t) PROVE DeadInv'
  BY <1>17 DEF BeatRaised
<1>18. ASSUME NEW t \in Threads, BeatEscaped(t) PROVE DeadInv'
  BY <1>18 DEF BeatEscaped, BeatEnds, Rest, Release
<1>19. ASSUME NEW t \in Threads, FailRead(t) PROVE DeadInv'
  BY <1>19 DEF FailRead
<1>20. ASSUME NEW t \in Threads, FailStop(t) PROVE DeadInv'
  BY <1>20 DEF FailStop, Stop
<1>21. ASSUME NEW t \in Threads, FailUnheard(t) PROVE DeadInv'
  BY <1>21 DEF FailUnheard
<1>22. ASSUME NEW t \in Threads, FailFires(t) PROVE DeadInv'
  BY <1>22 DEF FailFires
<1>23. ASSUME NEW t \in Threads, HookReturns(t) PROVE DeadInv'
  BY <1>23 DEF HookReturns
<1>24. ASSUME NEW t \in Threads, FailDone(t) PROVE DeadInv'
  BY <1>24 DEF FailDone, Release, Rest
<1>25. ASSUME NEW t \in Threads, ShutBegin(t) PROVE DeadInv'
  BY <1>25 DEF ShutBegin, CallsShutdown
<1>26. ASSUME NEW t \in Threads, ShutStop(t) PROVE DeadInv'
  BY <1>26 DEF ShutStop, Retire, Stop
<1>27. ASSUME NEW t \in Threads, ShutJoin(t) PROVE DeadInv'
  BY <1>27 DEF ShutJoin
<1>28. ASSUME NEW t \in Threads, ShutJoinSelf(t) PROVE DeadInv'
  BY <1>28 DEF ShutJoinSelf, Closes
<1>29. ASSUME NEW t \in Threads, ShutClear(t) PROVE DeadInv'
  BY <1>29 DEF ShutClear, AfterShutdown, Closes
<1>30. ASSUME NEW s \in SessionIds, BeaterStop(s) PROVE DeadInv'
  BY <1>30 DEF BeaterStop
<1>31. ASSUME NEW s \in SessionIds, BeaterTick(s) PROVE DeadInv'
  BY <1>31 DEF BeaterTick
<1>32. ASSUME NEW s \in SessionIds, BeaterClockJump(s) PROVE DeadInv'
  BY <1>32 DEF BeaterClockJump
<1>33. ASSUME UNCHANGED vars PROVE DeadInv'
  BY <1>33 DEF vars, localVars, callVars, failVars
<1> HIDE DEF TypeInv, TypeOK, LocalsOK, DeadInv, Goto, BornInv
<1> QED
  BY <1>1, <1>2, <1>3, <1>4, <1>5, <1>6, <1>7, <1>8, <1>9, <1>10, <1>11, <1>12, <1>13,
     <1>14, <1>15, <1>16, <1>17, <1>18, <1>19, <1>20, <1>21, <1>22, <1>23, <1>24, <1>25,
     <1>26, <1>27, <1>28, <1>29, <1>30, <1>31, <1>32, <1>33
  DEF Next, UserStarts, UserContinues, AuthContinues, ThreadContinues, BeatContinues, ShutContinues

\* A registration stores the hook in the client and then in the session, and
\* authenticate reads it from the client: with one thread the two agree.
LEMMA NextHookInv ==
  ASSUME \A u, v \in Users : u = v
  PROVE  TypeInv /\ HookInv /\ [Next]_vars => HookInv'
<1> SUFFICES ASSUME TypeInv /\ HookInv, [Next]_vars PROVE HookInv'
  OBVIOUS
<1> USE Domains
    DEF TypeInv, TypeOK, LocalsOK, HookInv, AuthPcs, ShutPcs, FailPcs, BeatPcs, clientVars,
        sessionVars, historyVars, callVars, failVars, Goto
<1>1. ASSUME NEW u \in Users, AuthSend(u) PROVE HookInv'
  BY <1>1 DEF AuthSend
<1>2. ASSUME NEW u \in Users, HeartbeatNow(u) PROVE HookInv'
  BY <1>2 DEF HeartbeatNow
<1>3. ASSUME NEW u \in Users, AuthRejected(u) PROVE HookInv'
  BY <1>3 DEF AuthRejected
<1>4. ASSUME NEW u \in Users, AuthAccepted(u) PROVE HookInv'
  BY <1>4 DEF AuthAccepted
<1>5. ASSUME NEW u \in Users, AuthStop(u) PROVE HookInv'
  BY <1>5 DEF AuthStop, Retire, Stop
<1>6. ASSUME NEW u \in Users, AuthJoin(u) PROVE HookInv'
  BY <1>6 DEF AuthJoin
<1>7. ASSUME NEW u \in Users, AuthNew(u) PROVE HookInv'
  BY <1>7 DEF AuthNew
<1>8. ASSUME NEW u \in Users, AuthPublish(u) PROVE HookInv'
  BY <1>8 DEF AuthPublish
<1>9. ASSUME NEW u \in Users, AuthToken(u) PROVE HookInv'
  BY <1>9 DEF AuthToken
<1>10. ASSUME NEW u \in Users, BeatToken(u) PROVE HookInv'
  BY <1>10 DEF BeatToken, BeatEnds, Rest
<1>11. ASSUME NEW u \in Users, SetHook(u) PROVE HookInv'
  BY <1>11 DEF SetHook
<1>12. ASSUME NEW u \in Users, NEW h \in Hooks, RegisterHook(u, h) PROVE HookInv'
  BY <1>12 DEF RegisterHook
<1>13. ASSUME NEW t \in Threads, BeatSent(t) PROVE HookInv'
  BY <1>13 DEF BeatSent, LockFree
<1>14. ASSUME NEW t \in Threads, BeatRefused(t) PROVE HookInv'
  BY <1>14 DEF BeatRefused, LockFree, BeatEnds, Rest
<1>15. ASSUME NEW t \in Threads, BeatOk(t) PROVE HookInv'
  <2> PICK g \in MayGrant(t) : BeatReturns(t, g)
    BY <1>15 DEF BeatOk
  <2> QED
    BY <1>15 DEF BeatOk, BeatReturns, Release
<1>16. ASSUME NEW t \in Threads, BeatDenied(t) PROVE HookInv'
  BY <1>16 DEF BeatDenied, MayGrant
<1>17. ASSUME NEW t \in Threads, BeatRaised(t) PROVE HookInv'
  BY <1>17 DEF BeatRaised
<1>18. ASSUME NEW t \in Threads, BeatEscaped(t) PROVE HookInv'
  BY <1>18 DEF BeatEscaped, BeatEnds, Rest, Release
<1>19. ASSUME NEW t \in Threads, FailRead(t) PROVE HookInv'
  BY <1>19 DEF FailRead
<1>20. ASSUME NEW t \in Threads, FailStop(t) PROVE HookInv'
  BY <1>20 DEF FailStop, Stop
<1>21. ASSUME NEW t \in Threads, FailUnheard(t) PROVE HookInv'
  BY <1>21 DEF FailUnheard
<1>22. ASSUME NEW t \in Threads, FailFires(t) PROVE HookInv'
  BY <1>22 DEF FailFires
<1>23. ASSUME NEW t \in Threads, HookReturns(t) PROVE HookInv'
  BY <1>23 DEF HookReturns
<1>24. ASSUME NEW t \in Threads, FailDone(t) PROVE HookInv'
  BY <1>24 DEF FailDone, Release, Rest
<1>25. ASSUME NEW t \in Threads, ShutBegin(t) PROVE HookInv'
  BY <1>25 DEF ShutBegin, CallsShutdown
<1>26. ASSUME NEW t \in Threads, ShutStop(t) PROVE HookInv'
  BY <1>26 DEF ShutStop, Retire, Stop
<1>27. ASSUME NEW t \in Threads, ShutJoin(t) PROVE HookInv'
  BY <1>27 DEF ShutJoin
<1>28. ASSUME NEW t \in Threads, ShutJoinSelf(t) PROVE HookInv'
  BY <1>28 DEF ShutJoinSelf, Closes
<1>29. ASSUME NEW t \in Threads, ShutClear(t) PROVE HookInv'
  BY <1>29 DEF ShutClear, AfterShutdown, Closes
<1>30. ASSUME NEW s \in SessionIds, BeaterStop(s) PROVE HookInv'
  BY <1>30 DEF BeaterStop
<1>31. ASSUME NEW s \in SessionIds, BeaterTick(s) PROVE HookInv'
  BY <1>31 DEF BeaterTick
<1>32. ASSUME NEW s \in SessionIds, BeaterClockJump(s) PROVE HookInv'
  BY <1>32 DEF BeaterClockJump
<1>33. ASSUME UNCHANGED vars PROVE HookInv'
  BY <1>33 DEF vars, localVars, callVars, failVars
<1> HIDE DEF TypeInv, TypeOK, LocalsOK, HookInv, Goto
<1> QED
  BY <1>1, <1>2, <1>3, <1>4, <1>5, <1>6, <1>7, <1>8, <1>9, <1>10, <1>11, <1>12, <1>13,
     <1>14, <1>15, <1>16, <1>17, <1>18, <1>19, <1>20, <1>21, <1>22, <1>23, <1>24, <1>25,
     <1>26, <1>27, <1>28, <1>29, <1>30, <1>31, <1>32, <1>33
  DEF Next, UserStarts, UserContinues, AuthContinues, ThreadContinues, BeatContinues, ShutContinues

\* jumped is set where _run compares the clocks and nowhere else.
LEMMA NextNoJumpInv ==
  ASSUME ~ClockJumps
  PROVE  TypeInv /\ NoJumpInv /\ [Next]_vars => NoJumpInv'
<1> SUFFICES ASSUME TypeInv /\ NoJumpInv, [Next]_vars PROVE NoJumpInv'
  OBVIOUS
<1> USE Domains
    DEF TypeInv, TypeOK, LocalsOK, NoJumpInv, AuthPcs, ShutPcs, FailPcs, BeatPcs, clientVars,
        sessionVars, historyVars, callVars, failVars, Goto
<1>1. ASSUME NEW u \in Users, AuthSend(u) PROVE NoJumpInv'
  BY <1>1 DEF AuthSend
<1>2. ASSUME NEW u \in Users, HeartbeatNow(u) PROVE NoJumpInv'
  BY <1>2 DEF HeartbeatNow
<1>3. ASSUME NEW u \in Users, AuthRejected(u) PROVE NoJumpInv'
  BY <1>3 DEF AuthRejected
<1>4. ASSUME NEW u \in Users, AuthAccepted(u) PROVE NoJumpInv'
  BY <1>4 DEF AuthAccepted
<1>5. ASSUME NEW u \in Users, AuthStop(u) PROVE NoJumpInv'
  BY <1>5 DEF AuthStop, Retire, Stop
<1>6. ASSUME NEW u \in Users, AuthJoin(u) PROVE NoJumpInv'
  BY <1>6 DEF AuthJoin
<1>7. ASSUME NEW u \in Users, AuthNew(u) PROVE NoJumpInv'
  BY <1>7 DEF AuthNew
<1>8. ASSUME NEW u \in Users, AuthPublish(u) PROVE NoJumpInv'
  BY <1>8 DEF AuthPublish
<1>9. ASSUME NEW u \in Users, AuthToken(u) PROVE NoJumpInv'
  BY <1>9 DEF AuthToken
<1>10. ASSUME NEW u \in Users, BeatToken(u) PROVE NoJumpInv'
  BY <1>10 DEF BeatToken, BeatEnds, Rest
<1>11. ASSUME NEW u \in Users, SetHook(u) PROVE NoJumpInv'
  BY <1>11 DEF SetHook
<1>12. ASSUME NEW u \in Users, NEW h \in Hooks, RegisterHook(u, h) PROVE NoJumpInv'
  BY <1>12 DEF RegisterHook
<1>13. ASSUME NEW t \in Threads, BeatSent(t) PROVE NoJumpInv'
  BY <1>13 DEF BeatSent, LockFree
<1>14. ASSUME NEW t \in Threads, BeatRefused(t) PROVE NoJumpInv'
  BY <1>14 DEF BeatRefused, LockFree, BeatEnds, Rest
<1>15. ASSUME NEW t \in Threads, BeatOk(t) PROVE NoJumpInv'
  <2> PICK g \in MayGrant(t) : BeatReturns(t, g)
    BY <1>15 DEF BeatOk
  <2> QED
    BY <1>15 DEF BeatOk, BeatReturns, Release
<1>16. ASSUME NEW t \in Threads, BeatDenied(t) PROVE NoJumpInv'
  BY <1>16 DEF BeatDenied, MayGrant
<1>17. ASSUME NEW t \in Threads, BeatRaised(t) PROVE NoJumpInv'
  BY <1>17 DEF BeatRaised
<1>18. ASSUME NEW t \in Threads, BeatEscaped(t) PROVE NoJumpInv'
  BY <1>18 DEF BeatEscaped, BeatEnds, Rest, Release
<1>19. ASSUME NEW t \in Threads, FailRead(t) PROVE NoJumpInv'
  BY <1>19 DEF FailRead
<1>20. ASSUME NEW t \in Threads, FailStop(t) PROVE NoJumpInv'
  BY <1>20 DEF FailStop, Stop
<1>21. ASSUME NEW t \in Threads, FailUnheard(t) PROVE NoJumpInv'
  BY <1>21 DEF FailUnheard
<1>22. ASSUME NEW t \in Threads, FailFires(t) PROVE NoJumpInv'
  BY <1>22 DEF FailFires
<1>23. ASSUME NEW t \in Threads, HookReturns(t) PROVE NoJumpInv'
  BY <1>23 DEF HookReturns
<1>24. ASSUME NEW t \in Threads, FailDone(t) PROVE NoJumpInv'
  BY <1>24 DEF FailDone, Release, Rest
<1>25. ASSUME NEW t \in Threads, ShutBegin(t) PROVE NoJumpInv'
  BY <1>25 DEF ShutBegin, CallsShutdown
<1>26. ASSUME NEW t \in Threads, ShutStop(t) PROVE NoJumpInv'
  BY <1>26 DEF ShutStop, Retire, Stop
<1>27. ASSUME NEW t \in Threads, ShutJoin(t) PROVE NoJumpInv'
  BY <1>27 DEF ShutJoin
<1>28. ASSUME NEW t \in Threads, ShutJoinSelf(t) PROVE NoJumpInv'
  BY <1>28 DEF ShutJoinSelf, Closes
<1>29. ASSUME NEW t \in Threads, ShutClear(t) PROVE NoJumpInv'
  BY <1>29 DEF ShutClear, AfterShutdown, Closes
<1>30. ASSUME NEW s \in SessionIds, BeaterStop(s) PROVE NoJumpInv'
  BY <1>30 DEF BeaterStop
<1>31. ASSUME NEW s \in SessionIds, BeaterTick(s) PROVE NoJumpInv'
  BY <1>31 DEF BeaterTick
<1>32. ASSUME NEW s \in SessionIds, BeaterClockJump(s) PROVE NoJumpInv'
  BY <1>32 DEF BeaterClockJump
<1>33. ASSUME UNCHANGED vars PROVE NoJumpInv'
  BY <1>33 DEF vars, localVars, callVars, failVars
<1> HIDE DEF TypeInv, TypeOK, LocalsOK, NoJumpInv, Goto
<1> QED
  BY <1>1, <1>2, <1>3, <1>4, <1>5, <1>6, <1>7, <1>8, <1>9, <1>10, <1>11, <1>12, <1>13,
     <1>14, <1>15, <1>16, <1>17, <1>18, <1>19, <1>20, <1>21, <1>22, <1>23, <1>24, <1>25,
     <1>26, <1>27, <1>28, <1>29, <1>30, <1>31, <1>32, <1>33
  DEF Next, UserStarts, UserContinues, AuthContinues, ThreadContinues, BeatContinues, ShutContinues

\* Tokens are stored by authenticate and heartbeat_now, which the one thread is
\* not in while it shuts down.
LEMMA NextClosedInv ==
  ASSUME \A u, v \in Users : u = v, ShutdownHooks = {}
  PROVE  TypeInv /\ ClosedInv /\ [Next]_vars => ClosedInv'
<1> SUFFICES ASSUME TypeInv /\ ClosedInv, [Next]_vars PROVE ClosedInv'
  OBVIOUS
<1> USE Domains
    DEF TypeInv, TypeOK, LocalsOK, ClosedInv, AuthPcs, ShutPcs, FailPcs, BeatPcs, clientVars,
        sessionVars, historyVars, callVars, failVars, Goto
<1>1. ASSUME NEW u \in Users, AuthSend(u) PROVE ClosedInv'
  BY <1>1 DEF AuthSend
<1>2. ASSUME NEW u \in Users, HeartbeatNow(u) PROVE ClosedInv'
  BY <1>2 DEF HeartbeatNow
<1>3. ASSUME NEW u \in Users, AuthRejected(u) PROVE ClosedInv'
  BY <1>3 DEF AuthRejected
<1>4. ASSUME NEW u \in Users, AuthAccepted(u) PROVE ClosedInv'
  BY <1>4 DEF AuthAccepted
<1>5. ASSUME NEW u \in Users, AuthStop(u) PROVE ClosedInv'
  BY <1>5 DEF AuthStop, Retire, Stop
<1>6. ASSUME NEW u \in Users, AuthJoin(u) PROVE ClosedInv'
  BY <1>6 DEF AuthJoin
<1>7. ASSUME NEW u \in Users, AuthNew(u) PROVE ClosedInv'
  BY <1>7 DEF AuthNew
<1>8. ASSUME NEW u \in Users, AuthPublish(u) PROVE ClosedInv'
  BY <1>8 DEF AuthPublish
<1>9. ASSUME NEW u \in Users, AuthToken(u) PROVE ClosedInv'
  BY <1>9 DEF AuthToken
<1>10. ASSUME NEW u \in Users, BeatToken(u) PROVE ClosedInv'
  BY <1>10 DEF BeatToken, BeatEnds, Rest
<1>11. ASSUME NEW u \in Users, SetHook(u) PROVE ClosedInv'
  BY <1>11 DEF SetHook
<1>12. ASSUME NEW u \in Users, NEW h \in Hooks, RegisterHook(u, h) PROVE ClosedInv'
  BY <1>12 DEF RegisterHook
<1>13. ASSUME NEW t \in Threads, BeatSent(t) PROVE ClosedInv'
  BY <1>13 DEF BeatSent, LockFree
<1>14. ASSUME NEW t \in Threads, BeatRefused(t) PROVE ClosedInv'
  BY <1>14 DEF BeatRefused, LockFree, BeatEnds, Rest
<1>15. ASSUME NEW t \in Threads, BeatOk(t) PROVE ClosedInv'
  <2> PICK g \in MayGrant(t) : BeatReturns(t, g)
    BY <1>15 DEF BeatOk
  <2> QED
    BY <1>15 DEF BeatOk, BeatReturns, Release
<1>16. ASSUME NEW t \in Threads, BeatDenied(t) PROVE ClosedInv'
  BY <1>16 DEF BeatDenied, MayGrant
<1>17. ASSUME NEW t \in Threads, BeatRaised(t) PROVE ClosedInv'
  BY <1>17 DEF BeatRaised
<1>18. ASSUME NEW t \in Threads, BeatEscaped(t) PROVE ClosedInv'
  BY <1>18 DEF BeatEscaped, BeatEnds, Rest, Release
<1>19. ASSUME NEW t \in Threads, FailRead(t) PROVE ClosedInv'
  BY <1>19 DEF FailRead
<1>20. ASSUME NEW t \in Threads, FailStop(t) PROVE ClosedInv'
  BY <1>20 DEF FailStop, Stop
<1>21. ASSUME NEW t \in Threads, FailUnheard(t) PROVE ClosedInv'
  BY <1>21 DEF FailUnheard
<1>22. ASSUME NEW t \in Threads, FailFires(t) PROVE ClosedInv'
  BY <1>22 DEF FailFires
<1>23. ASSUME NEW t \in Threads, HookReturns(t) PROVE ClosedInv'
  BY <1>23 DEF HookReturns
<1>24. ASSUME NEW t \in Threads, FailDone(t) PROVE ClosedInv'
  BY <1>24 DEF FailDone, Release, Rest
<1>25. ASSUME NEW t \in Threads, ShutBegin(t) PROVE ClosedInv'
  BY <1>25 DEF ShutBegin, CallsShutdown
<1>26. ASSUME NEW t \in Threads, ShutStop(t) PROVE ClosedInv'
  BY <1>26 DEF ShutStop, Retire, Stop
<1>27. ASSUME NEW t \in Threads, ShutJoin(t) PROVE ClosedInv'
  BY <1>27 DEF ShutJoin
<1>28. ASSUME NEW t \in Threads, ShutJoinSelf(t) PROVE ClosedInv'
  BY <1>28 DEF ShutJoinSelf, Closes
<1>29. ASSUME NEW t \in Threads, ShutClear(t) PROVE ClosedInv'
  BY <1>29 DEF ShutClear, AfterShutdown, Closes
<1>30. ASSUME NEW s \in SessionIds, BeaterStop(s) PROVE ClosedInv'
  BY <1>30 DEF BeaterStop
<1>31. ASSUME NEW s \in SessionIds, BeaterTick(s) PROVE ClosedInv'
  BY <1>31 DEF BeaterTick
<1>32. ASSUME NEW s \in SessionIds, BeaterClockJump(s) PROVE ClosedInv'
  BY <1>32 DEF BeaterClockJump
<1>33. ASSUME UNCHANGED vars PROVE ClosedInv'
  BY <1>33 DEF vars, localVars, callVars, failVars
<1> HIDE DEF TypeInv, TypeOK, LocalsOK, ClosedInv, Goto
<1> QED
  BY <1>1, <1>2, <1>3, <1>4, <1>5, <1>6, <1>7, <1>8, <1>9, <1>10, <1>11, <1>12, <1>13,
     <1>14, <1>15, <1>16, <1>17, <1>18, <1>19, <1>20, <1>21, <1>22, <1>23, <1>24, <1>25,
     <1>26, <1>27, <1>28, <1>29, <1>30, <1>31, <1>32, <1>33
  DEF Next, UserStarts, UserContinues, AuthContinues, ThreadContinues, BeatContinues, ShutContinues

\* The inductive invariant of the safety theorems.
SafetyInv ==
  TypeInv /\ FreshInv /\ BornInv /\ LockInv /\ FailInv /\ FireInv /\ DeathIsReported

LEMMA InitSafetyInv == Init => SafetyInv
<1> SUFFICES ASSUME Init PROVE SafetyInv
  OBVIOUS
<1>1. TypeInv
  BY InitTypeInv
<1>2. \A t \in Threads : pc[t] \in {"idle", "off"} /\ target[t] = NoSession /\ prev[t] =
      NoSession
  BY DEF Init
<1>3. \A u \in Users : pc[u] = "idle" /\ fresh[u] = NoSession
  BY Domains DEF Init
<1>4. FreshInv
  BY <1>3, Numbers DEF Init, FreshInv, NoSession
<1>5. \A s \in SessionIds :
        pc[s] = "off" /\ ~alive[s] /\ fired[s] = 0 /\ ~jumped[s] /\ requestLock[s] = NoThread
  BY Domains DEF Init
<1>6. BornInv /\ LockInv /\ FailInv
  BY <1>2, <1>5 DEF Init, BornInv, LockInv, FailInv
<1>7. FireInv
  BY <1>5 DEF FireInv, LockedMayFire, JumpMayFire, One
<1>8. Born = {}
  BY <1>3, ConstantsAssumption DEF Init, Born, SessionIds
<1> QED
  BY <1>1, <1>4, <1>6, <1>7, <1>8 DEF SafetyInv, DeathIsReported

LEMMA NextSafetyInv == SafetyInv /\ [Next]_vars => SafetyInv'
<1> SUFFICES ASSUME SafetyInv, [Next]_vars PROVE SafetyInv'
  OBVIOUS
<1>1. TypeInv'
  BY NextTypeOK, NextLocalsOK DEF SafetyInv, TypeInv
<1>2. FreshInv'
  BY NextFreshInv DEF SafetyInv
<1>3. BornInv'
  BY NextBornInv DEF SafetyInv
<1>4. LockInv'
  BY NextLockInv DEF SafetyInv
<1>5. FailInv'
  BY NextFailInv DEF SafetyInv
<1>6. FireInv'
  BY NextFireInv DEF SafetyInv
<1>7. DeathIsReported'
  BY NextDeathIsReported DEF SafetyInv
<1> QED
  BY <1>1, <1>2, <1>3, <1>4, <1>5, <1>6, <1>7 DEF SafetyInv

LEMMA SafetyInvariant == Spec => []SafetyInv
  BY InitSafetyInv, NextSafetyInv, PTL DEF Spec

\* Every variable of the Client, of its sessions and of the threads stays in
\* its domain.
THEOREM TypeCorrect == Spec => []TypeOK
<1>1. SafetyInv => TypeOK
  BY DEF SafetyInv, TypeInv
<1> QED
  BY <1>1, SafetyInvariant, PTL

\* heartbeat() serializes the requests of a session: however many threads call
\* heartbeat_now beside the heartbeat thread, at most one request is in flight.
THEOREM OneRequestInFlight == Spec => []BeatExclusion
<1>1. SafetyInv => BeatExclusion
  BY DEF SafetyInv, LockInv, BeatExclusion
<1> QED
  BY <1>1, SafetyInvariant, PTL

\* fail() calls the hook of a session at most once, and at most twice when its
\* heartbeat thread reported a clock jump, for any number of threads.
THEOREM HookRunsAtMostTwice == Spec => []HookBound
<1>1. SafetyInv => HookBound
  <2> SUFFICES ASSUME SafetyInv, NEW s \in SessionIds
               PROVE  fired[s] <= IF jumped[s] THEN 2 ELSE 1
    BY DEF HookBound
  <2>1. fired[s] \in Nat
    BY DEF SafetyInv, TypeInv, TypeOK
  <2>2. fired[s] + One(LockedMayFire(s)) + One(JumpMayFire(s)) <= 1 + One(jumped[s])
    BY DEF SafetyInv, FireInv
  <2> QED
    BY <2>1, <2>2 DEF One
<1> QED
  BY <1>1, SafetyInvariant, PTL

\* A session dies unreported only when authenticate or shutdown stopped it:
\* two racing fail() calls never both leave the report to the other.
THEOREM NoSilentDeath == Spec => []DeathIsReported
<1>1. SafetyInv => DeathIsReported
  BY DEF SafetyInv
<1> QED
  BY <1>1, SafetyInvariant, PTL

\* While one thread at a time authenticates, whatever the others do, no live
\* session is lost by the client.
THEOREM OneAuthenticatorNoOrphan ==
  ASSUME \A u, v \in AuthUsers : u = v
  PROVE  Spec => []NoOrphan
<1> DEFINE Inv == ReplaceInv /\ NoOrphan
<1>1. Init => Inv
  BY Domains DEF Init, ReplaceInv, NoOrphan, AuthPcs
<1>2. SafetyInv /\ Inv /\ [Next]_vars => Inv'
  <2> SUFFICES ASSUME SafetyInv, Inv, [Next]_vars PROVE Inv'
    OBVIOUS
  <2>1. TypeInv /\ BornInv
    BY DEF SafetyInv
  <2>2. ReplaceInv'
    BY <2>1, NextReplaceInv
  <2>3. NoOrphan'
    BY <2>1, NextNoOrphan
  <2> QED
    BY <2>2, <2>3
<1>3. Inv => NoOrphan
  OBVIOUS
<1> QED
  BY <1>1, <1>2, <1>3, SafetyInvariant, PTL DEF Spec

\* As long as every failure of an exchange is a BedrockError, a heartbeat thread
\* that has ended leaves a dead session, for any number of threads and hooks:
\* is_authenticated() does not go on answering True for a session nobody beats.
THEOREM EndedThreadLeavesDeadSession ==
  ASSUME "escaped" \notin Outcomes
  PROVE  Spec => []BeaterDeathKillsSession
<1>1. Init => DeadInv
  BY Domains DEF Init, DeadInv
<1>2. SafetyInv /\ DeadInv /\ [Next]_vars => DeadInv'
  BY NextDeadInv DEF SafetyInv
<1>3. DeadInv => BeaterDeathKillsSession
  BY DEF DeadInv, BeaterDeathKillsSession
<1> QED
  BY <1>1, <1>2, <1>3, SafetyInvariant, PTL DEF Spec

\* on_heartbeat_failure from the one application thread reaches the session that
\* will call the hook, however failures, hooks and their shutdowns interleave.
THEOREM OneUserHookAgreement ==
  ASSUME \A u, v \in Users : u = v
  PROVE  Spec => []HookAgreement
<1>1. Init => HookInv
  BY Domains DEF Init, HookInv
<1>2. SafetyInv /\ HookInv /\ [Next]_vars => HookInv'
  BY NextHookInv DEF SafetyInv
<1>3. HookInv => HookAgreement
  BY DEF HookInv, HookAgreement
<1> QED
  BY <1>1, <1>2, <1>3, SafetyInvariant, PTL DEF Spec

\* "Exactly once per session" holds where the clocks are not stepped, for any
\* number of threads that fail at once: the clock jump is all that refutes it.
THEOREM HookRunsOnceWithoutJumps ==
  ASSUME ~ClockJumps
  PROVE  Spec => []HookOnce
<1>1. Init => NoJumpInv
  BY DEF Init, NoJumpInv
<1>2. SafetyInv /\ NoJumpInv /\ [Next]_vars => NoJumpInv'
  BY NextNoJumpInv DEF SafetyInv
<1>3. HookBound /\ NoJumpInv => HookOnce
  BY DEF NoJumpInv, HookBound, HookOnce
<1> QED
  BY <1>1, <1>2, <1>3, SafetyInvariant, HookRunsAtMostTwice, PTL DEF Spec

\* shutdown() leaves the folder without a token when the one application thread
\* calls it, whatever the heartbeat threads do meanwhile.
THEOREM OneUserFolderClosed ==
  ASSUME \A u, v \in Users : u = v, ShutdownHooks = {}
  PROVE  Spec => []FolderClosed
<1>1. Init => ClosedInv
  BY Domains DEF Init, ClosedInv, AuthPcs, ShutPcs
<1>2. SafetyInv /\ ClosedInv /\ [Next]_vars => ClosedInv'
  BY NextClosedInv DEF SafetyInv
<1>3. ClosedInv => FolderClosed
  BY DEF ClosedInv, FolderClosed
<1> QED
  BY <1>1, <1>2, <1>3, SafetyInvariant, PTL DEF Spec

=============================================================================
