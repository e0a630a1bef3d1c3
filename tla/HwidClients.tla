----------------------------- MODULE HwidClients -----------------------------
(***************************************************************************)
(* The applications of one Windows account around one device identity: the *)
(* session cache of client.Client, slhwid.prepare and Session.commit, as   *)
(* they run on several threads, over the registry store.                   *)
(*                                                                         *)
(* A thread in Driving calls slhwid itself and may force a re-enrollment;  *)
(* any other authenticates one identity on the Client its application has. *)
(* Which hives accept a write depends on the launch: HKLM denies it unless *)
(* the program was elevated.  The store lock is the mutex of ProcessLock;  *)
(* what hardware does to shares is module DeviceIdentity, so that here any *)
(* recovery and any refresh may be refused.  The key of an enrollment      *)
(* stands for the HWID.                                                    *)
(*                                                                         *)
(* A Session object is named by the thread that prepared it: on a Client a *)
(* thread prepares at most once, because its session stays in the cache.   *)
(***************************************************************************)
EXTENDS RegistryStore

CONSTANTS
  Threads, Apps,
  AppOf,       \* thread -> its application
  Driving,     \* threads that use slhwid without a Client
  Writable,    \* the sets of hives that may accept a write, at one time or another
  Corrupt,     \* a stored secret that _unwrap_slstore refuses
  Nobody,      \* the owner of a free lock
  MaxWrites, MaxSecrets  \* bounds: helpers and secrets written

ASSUME ClientsAssumption ==
  /\ AppOf \in [Threads -> Apps] /\ Driving \subseteq Threads
  /\ Writable \subseteq SUBSET Hives
  /\ None \notin Threads \cup Hives /\ Nobody \notin Threads
  /\ {MaxWrites, MaxSecrets} \subseteq Nat
  /\ Corrupt \notin Nat /\ None \notin Nat /\ Corrupt # None

VARIABLES
  registry, lock,
  cache,       \* app -> the session in _ss_sessions
  pc,
  using,       \* thread -> the session of its call
  forced,      \* thread -> Options.force_reenroll
  enrolling,   \* thread -> [pin, secret] once the secret is there
  session,     \* the Session objects
  \* history
  writes, secrets,  \* counters of the bounds
  enrolled,    \* the key of the latest enrollment
  replaced,    \* a forced enrollment has replaced a helper
  scattered    \* a helper went to another hive than its secret, or left HKCU

callVars    == <<pc, using, forced, enrolling>>
historyVars == <<writes, secrets, enrolled, replaced, scattered>>
vars == <<registry, lock, cache, callVars, session, historyVars>>

Pcs == {"idle", "prepare", "prepare_locked", "enroll", "insert", "login",
        "checked", "marked", "commit_locked", "closing"}

Init ==
  /\ registry = [h \in Hives |-> [helper |-> None, secret |-> None]]
  /\ lock = Nobody
  /\ cache = [a \in Apps |-> None]
  /\ pc = [t \in Threads |-> "idle"]
  /\ using = [t \in Threads |-> None]
  /\ forced = [t \in Threads |-> FALSE]
  /\ enrolling = [t \in Threads |-> None]
  /\ session = [t \in Threads |-> None]
  /\ writes = 0 /\ secrets = 0 /\ enrolled = None /\ replaced = FALSE /\ scattered = FALSE

Goto(t, from, to) == pc[t] = from /\ pc' = [pc EXCEPT ![t] = to]

\* Mutant of LockStore: nobody waits.
LockIgnored(t) == lock' = t

\* `with _store_lock(store)`
LockStore(t)   == lock = Nobody /\ lock' = t

\* Mutant of UnlockStore: the lock is left with what is no owner.
UnlockToNone(t) == lock' = None
UnlockStore(t) == lock' = Nobody

\* Where the next write of a store goes, if some hive accepts it.
Targets(pin) == {WriteRoot(pin, registry, w) : w \in Writable} \ {None}

-----------------------------------------------------------------------------
(* Client._prepare_secret_sharing: the lookup and, after prepare(), the    *)
(* insertion are two critical sections of _state_lock                      *)

Cached(t) == IF t \in Driving THEN None ELSE cache[AppOf[t]]

Authenticate(t) ==
  /\ Goto(t, "idle", IF Cached(t) = None THEN "prepare" ELSE "login")
  /\ using' = [using EXCEPT ![t] = Cached(t)]
  /\ \E f \in (IF t \in Driving THEN BOOLEAN ELSE {FALSE}) : forced' = [forced EXCEPT ![t] = f]
  /\ UNCHANGED <<registry, lock, cache, enrolling, session, historyVars>>

\* Whether or not another thread has inserted its own meanwhile.
Insert(t) ==
  /\ Goto(t, "insert", "login")
  /\ cache' = IF t \in Driving THEN cache ELSE [cache EXCEPT ![AppOf[t]] = t]
  /\ using' = [using EXCEPT ![t] = t]
  /\ UNCHANGED <<registry, lock, forced, enrolling, session, historyVars>>

\* The call is over; a program that has no cache drops its session.
CallReturns(t, sessions) ==
  /\ using' = [using EXCEPT ![t] = None]
  /\ session' = IF t \in Driving THEN [sessions EXCEPT ![t] = None] ELSE sessions

\* The server, or the exchange, does not accept the HWID.
Rejected(t) ==
  /\ Goto(t, "login", "idle")
  /\ CallReturns(t, session)
  /\ UNCHANGED <<registry, lock, cache, forced, enrolling, historyVars>>

-----------------------------------------------------------------------------
(* prepare(): a store object of its own, nothing pinned                    *)

PrepareEnds(t) ==
  /\ forced' = [forced EXCEPT ![t] = FALSE]
  /\ enrolling' = [enrolling EXCEPT ![t] = None]

Enter(t) ==
  /\ Goto(t, "prepare", "prepare_locked")
  /\ LockStore(t)
  /\ UNCHANGED <<registry, cache, using, forced, enrolling, session, historyVars>>

\* The lock is not to be had, the pair does not recover, the secret is
\* corrupt, an enrollment is refused or a write fails: prepare() raises.
PrepareRaises(t) ==
  /\ pc[t] \in {"prepare", "prepare_locked", "enroll"}
  /\ pc' = [pc EXCEPT ![t] = "idle"]
  /\ IF pc[t] = "prepare" THEN UNCHANGED lock ELSE UnlockStore(t)
  /\ PrepareEnds(t)
  /\ UNCHANGED <<registry, cache, using, session, historyVars>>

\* read_helper comes first and pins the store.
Root == HelperRoot(None, registry)

NewSession(key, secret, blob, pin) ==
  [hwid |-> key, key |-> key, secret |-> secret, expected |-> blob, pin |-> pin,
   committed |-> FALSE, refreshes |-> 0]

Recover(t) ==
  /\ Goto(t, "prepare_locked", "insert")
  /\ HelperIn(Root, registry) # None /\ ~forced[t]
  /\ SecretIn(Root, registry) = HelperIn(Root, registry).secret
  /\ LET h == HelperIn(Root, registry)
     IN session' = [session EXCEPT ![t] = NewSession(h.key, h.secret, h.blob, Root)]
  /\ UnlockStore(t)
  /\ PrepareEnds(t)
  /\ UNCHANGED <<registry, cache, using, historyVars>>

Enrolls(t) == HelperIn(Root, registry) = None \/ forced[t]

\* Mutant of EnrollSecret: every enrollment draws a secret of its own.
EnrollNewSecret(t) ==
  /\ Goto(t, "prepare_locked", "enroll")
  /\ Enrolls(t)
  /\ secrets < MaxSecrets /\ secrets' = secrets + 1
  /\ \E h \in Targets(Root) :
       /\ registry' = [registry EXCEPT ![h].secret = secrets']
       /\ enrolling' = [enrolling EXCEPT ![t] = [pin |-> h, secret |-> secrets']]
  /\ UNCHANGED <<lock, cache, using, forced, session, writes, enrolled, replaced,
                 scattered>>

\* _ensure_slstore: the secret of the pinned hive, or a new one.
EnrollSecret(t) ==
  /\ Goto(t, "prepare_locked", "enroll")
  /\ Enrolls(t)
  /\ SecretIn(Root, registry) # Corrupt
  /\ IF SecretIn(Root, registry) # None
     THEN /\ enrolling' = [enrolling EXCEPT ![t] =
                             [pin |-> Root, secret |-> SecretIn(Root, registry)]]
          /\ UNCHANGED <<registry, secrets, scattered>>
     ELSE /\ secrets < MaxSecrets /\ secrets' = secrets + 1
          /\ \E h \in Targets(Root) :
               /\ registry' = [registry EXCEPT ![h].secret = secrets']
               /\ enrolling' = [enrolling EXCEPT ![t] = [pin |-> h, secret |-> secrets']]
               /\ scattered' = (scattered \/ Root \notin {None, h})
  /\ UNCHANGED <<lock, cache, using, forced, session, writes, enrolled, replaced>>

\* Writes a helper of this key into hive h, for a store pinned to pin.
WriteHelper(h, key, secret) ==
  /\ writes < MaxWrites /\ writes' = writes + 1
  /\ registry' = [registry EXCEPT ![h].helper =
                    [key |-> key, secret |-> secret, blob |-> writes']]

EnrollHelper(t) ==
  /\ Goto(t, "enroll", "insert")
  /\ \E h \in Targets(enrolling[t].pin) :
       /\ WriteHelper(h, writes + 1, enrolling[t].secret)
       /\ session' = [session EXCEPT ![t] =
            NewSession(writes + 1, enrolling[t].secret, writes + 1, h)]
       /\ scattered' = (scattered \/ h # enrolling[t].pin)
  /\ enrolled' = writes'
  /\ replaced' = (replaced \/ forced[t])
  /\ UnlockStore(t)
  /\ PrepareEnds(t)
  /\ UNCHANGED <<cache, using, secrets>>

-----------------------------------------------------------------------------
(* Session.commit(), by every thread that authenticates with the session   *)

Mine(t) == session[using[t]]

\* `self._key = None`, and the end of the call.
Forgets(t) == CallReturns(t, [session EXCEPT ![using[t]].key = None])

\* Committed, or without a key: another thread may still be using that key.
CommitAgain(t) ==
  /\ Goto(t, "login", "idle")
  /\ Mine(t).committed \/ Mine(t).key = None
  /\ Forgets(t)
  /\ UNCHANGED <<registry, lock, cache, forced, enrolling, historyVars>>

CommitChecks(t) ==
  /\ Goto(t, "login", "checked")
  /\ ~Mine(t).committed /\ Mine(t).key # None
  /\ UNCHANGED <<registry, lock, cache, using, forced, enrolling, session, historyVars>>

\* Mutant of CommitMarks: the key is zeroized before it is used.
CommitMarksAndForgets(t) ==
  /\ Goto(t, "checked", "marked")
  /\ session' = [session EXCEPT ![using[t]].committed = TRUE, ![using[t]].key = None]
  /\ UNCHANGED <<registry, lock, cache, using, forced, enrolling, historyVars>>

CommitMarks(t) ==
  /\ Goto(t, "checked", "marked")
  /\ session' = [session EXCEPT ![using[t]].committed = TRUE]
  /\ UNCHANGED <<registry, lock, cache, using, forced, enrolling, historyVars>>

CommitEnter(t) ==
  /\ Goto(t, "marked", "commit_locked")
  /\ LockStore(t)
  /\ UNCHANGED <<registry, cache, using, forced, enrolling, session, historyVars>>

\* The lock is not to be had.
CommitFails(t) ==
  /\ Goto(t, "marked", "closing")
  /\ UNCHANGED <<registry, lock, cache, using, forced, enrolling, session, historyVars>>

\* Mutant of SameHelper: the helper found is not compared.
AnyHelper(t) == HelperIn(Mine(t).pin, registry) # None

SameHelper(t) ==
  /\ HelperIn(Mine(t).pin, registry) # None
  /\ HelperIn(Mine(t).pin, registry).blob = Mine(t).expected

\* The helper is another one, refresh_core declines or the write fails.
CommitSkips(t) ==
  /\ Goto(t, "commit_locked", "closing")
  /\ UnlockStore(t)
  /\ UNCHANGED <<registry, cache, using, forced, enrolling, session, historyVars>>

\* The pin follows the write.
CommitRefreshes(t) ==
  /\ Goto(t, "commit_locked", "closing")
  /\ SameHelper(t) /\ Mine(t).key # None
  /\ \E h \in Targets(Mine(t).pin) :
       /\ WriteHelper(h, Mine(t).key, Mine(t).secret)
       /\ session' = [session EXCEPT ![using[t]].pin = h, ![using[t]].refreshes = @ + 1]
       /\ scattered' = (scattered \/ (Mine(t).pin = "HKCU" /\ h = "HKLM"))
  /\ UnlockStore(t)
  /\ UNCHANGED <<cache, using, forced, enrolling, secrets, enrolled, replaced>>

\* build_shares gets None for a key: TypeError, which commit() does not catch.
CommitEscapes(t) ==
  /\ Goto(t, "commit_locked", "closing")
  /\ SameHelper(t) /\ Mine(t).key = None
  /\ UnlockStore(t)
  /\ UNCHANGED <<registry, cache, using, forced, enrolling, session, historyVars>>

\* `finally`, after the lock was given back.
CommitCloses(t) ==
  /\ Goto(t, "closing", "idle")
  /\ Forgets(t)
  /\ UNCHANGED <<registry, lock, cache, forced, enrolling, historyVars>>

-----------------------------------------------------------------------------
(* The environment                                                         *)

\* The application ends or dies, a lock it held is recovered, and it
\* may be launched again.
Relaunch(a) ==
  LET Its(f, initial) == [t \in Threads |-> IF AppOf[t] = a THEN initial ELSE f[t]]
  IN /\ \E t \in Threads : AppOf[t] = a /\ (pc[t] # "idle" \/ session[t] # None)
     /\ pc' = Its(pc, "idle") /\ using' = Its(using, None) /\ forced' = Its(forced, FALSE)
     /\ enrolling' = Its(enrolling, None) /\ session' = Its(session, None)
     /\ cache' = [cache EXCEPT ![a] = None]
     /\ lock' = IF lock # Nobody /\ AppOf[lock] = a THEN Nobody ELSE lock
     /\ UNCHANGED <<registry, historyVars>>

CorruptSecret(h) ==
  /\ registry[h].secret \notin {None, Corrupt}
  /\ registry' = [registry EXCEPT ![h].secret = Corrupt]
  /\ UNCHANGED <<lock, cache, callVars, session, historyVars>>

Prepares(t) ==
  \/ Authenticate(t) \/ Enter(t) \/ PrepareRaises(t) \/ Recover(t)
  \/ EnrollSecret(t) \/ EnrollHelper(t) \/ Insert(t) \/ Rejected(t)

Commits(t) ==
  \/ CommitAgain(t) \/ CommitChecks(t) \/ CommitMarks(t) \/ CommitEnter(t) \/ CommitFails(t)
  \/ CommitSkips(t) \/ CommitRefreshes(t) \/ CommitEscapes(t) \/ CommitCloses(t)

Next ==
  \/ \E t \in Threads : Prepares(t) \/ Commits(t)
  \/ \E a \in Apps : Relaunch(a)
  \/ \E h \in Hives : CorruptSecret(h)

Spec == Init /\ [][Next]_vars

-----------------------------------------------------------------------------
(* Properties                                                              *)

Keys    == 1 .. MaxWrites
Secrets == 1 .. MaxSecrets

HelperType  == [key : Keys, secret : Secrets, blob : Keys]
EnrollType  == [pin : Hives, secret : Secrets]
SessionType ==
  [hwid : Keys, key : Keys \cup {None}, secret : Secrets, expected : Keys, pin : Hives,
   committed : BOOLEAN, refreshes : Nat]

\* A sentinel is none of the records it stands in for.
ASSUME SentinelAssumption == None \notin HelperType \cup EnrollType \cup SessionType

TypeOK ==
  /\ registry \in [Hives -> [helper : HelperType \cup {None},
                             secret : Secrets \cup {None, Corrupt}]]
  /\ lock \in Threads \cup {Nobody}
  /\ cache \in [Apps -> Threads \cup {None}]
  /\ pc \in [Threads -> Pcs]
  /\ using \in [Threads -> Threads \cup {None}]
  /\ forced \in [Threads -> BOOLEAN]
  /\ enrolling \in [Threads -> EnrollType \cup {None}]
  /\ session \in [Threads -> SessionType \cup {None}]
  /\ writes \in 0 .. MaxWrites /\ secrets \in 0 .. MaxSecrets
  /\ enrolled \in Keys \cup {None} /\ {replaced, scattered} \subseteq BOOLEAN

\* "A pair is one generation": whatever crashes, is denied, is corrupted or
\* is re-enrolled, the two values of one hive belong together (unless a write
\* strayed to another hive than the one it was meant for).
PairsMatch ==
  ~scattered => \A h \in Hives :
    Complete(registry, h) => registry[h].secret \in {registry[h].helper.secret, Corrupt}

\* What has been enrolled is what the next launch finds, elevated or not, also
\* after late commits of older sessions, denied ones and crashes.
NextLaunchRecovers ==
  ~scattered /\ enrolled # None =>
    /\ HelperIn(Root, registry) # None
    /\ HelperIn(Root, registry).key = enrolled
    /\ SecretIn(Root, registry) \in {HelperIn(Root, registry).secret, Corrupt}

\* "they report the same HWID on the same device": threads that miss the cache
\* together, and applications that enroll at once, end with one HWID.
SessionsAgree ==
  ~scattered /\ ~replaced => \A t, u \in Threads :
    session[t] # None /\ session[u] # None => session[t].hwid = session[u].hwid

\* Two threads that both pass the check of _committed write at most one refresh.
RefreshedOnce == \A t \in Threads : session[t] # None => session[t].refreshes <= 1

\* A commit loses its key, with a TypeError and no refresh as the consequence,
\* only to another thread that commits the same cached session.
Committing(t) == pc[t] \in {"checked", "marked", "commit_locked"}

KeyLostToAnother ==
  [][\A t \in Threads :
       Committing(t) /\ Committing(t)' /\ Mine(t).key # None /\ Mine(t)'.key = None
         => \E u \in Threads \ {t} : using[u] = using[t] /\ pc[u] \in {"login", "closing"}]_vars
=============================================================================
