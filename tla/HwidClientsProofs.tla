-------------------------- MODULE HwidClientsProofs --------------------------
(***************************************************************************)
(* What holds of the registry, the session cache and commits for any       *)
(* number of applications and threads, any denial of a hive, any crash and *)
(* any corruption of a secret.                                             *)
(*                                                                         *)
(* ControlInv is about threads: who has the lock, and whose Session object *)
(* a thread, a cache or a call may refer to.  DataInv is about the values: *)
(* what a session or an enrollment under way knows of the two hives.       *)
(***************************************************************************)
EXTENDS HwidClients, TLAPS

Locked    == {"prepare_locked", "enroll", "commit_locked"}
Preparing == {"prepare", "prepare_locked", "enroll"}
Logging   == {"login", "checked", "marked", "commit_locked", "closing"}

\* Whoever is in a critical section, and nobody else, owns the lock.
LockInv == \A t \in Threads : pc[t] \in Locked <=> lock = t

\* A thread uses a session of its own application, its own if it has no cache.
UseInv ==
  \A t \in Threads :
    /\ pc[t] \in Logging <=> using[t] # None
    /\ using[t] # None =>
         /\ session[using[t]] # None /\ AppOf[using[t]] = AppOf[t]
         /\ using[t] \in Driving \/ t \in Driving => using[t] = t

CacheInv ==
  \A a \in Apps : cache[a] # None =>
    session[cache[a]] # None /\ AppOf[cache[a]] = a /\ cache[a] \notin Driving

\* A thread that prepares has no session yet; one that enrolls has its secret.
FreshInv ==
  \A t \in Threads :
    /\ pc[t] \in Preparing => session[t] = None
    /\ pc[t] = "insert" => session[t] # None
    /\ pc[t] = "enroll" => enrolling[t] # None
    /\ t \in Driving /\ pc[t] = "idle" => session[t] = None
    /\ t \notin Driving /\ session[t] # None => pc[t] = "insert" \/ cache[AppOf[t]] # None

ControlInv == TypeOK /\ LockInv /\ UseInv /\ CacheInv /\ FreshInv

\* The values that stand for Python's None are no values of anything else.
LEMMA SentinelsApart ==
  /\ None \notin Threads /\ None \notin Hives /\ Nobody \notin Threads
  /\ None \notin Secrets /\ Corrupt \notin Secrets /\ None # Corrupt /\ None \notin Keys
  /\ None \notin HelperType /\ None \notin EnrollType /\ None \notin SessionType
  /\ Secrets \subseteq Nat /\ Keys \subseteq Nat
BY ClientsAssumption, SentinelAssumption DEF Secrets, Keys

\* The fields of a helper.
LEMMA HelperFields ==
  /\ \A x \in HelperType : x.key \in Keys /\ x.secret \in Secrets /\ x.blob \in Keys
  /\ \A k \in Keys, s \in Secrets, b \in Keys : [key |-> k, secret |-> s, blob |-> b] \in HelperType
BY DEF HelperType

\* The fields of a Session object.
LEMMA SessionFields ==
  ASSUME NEW s \in SessionType
  PROVE  /\ s.hwid \in Keys /\ s.key \in Keys \cup {None} /\ s.secret \in Secrets
         /\ s.expected \in Keys /\ s.pin \in Hives /\ s.refreshes \in Nat
BY DEF SessionType

\* What prepare() and commit() do to a Session object leaves it one.
LEMMA SessionEdits ==
  ASSUME NEW s \in SessionType
  PROVE  /\ [s EXCEPT !.key = None] \in SessionType
         /\ [s EXCEPT !.committed = TRUE] \in SessionType
         /\ \A h \in Hives : [s EXCEPT !.pin = h, !.refreshes = @ + 1] \in SessionType
<1>1. [s EXCEPT !.key = None] \in SessionType
  BY Zenon DEF SessionType
<1>2. [s EXCEPT !.committed = TRUE] \in SessionType
  BY Zenon DEF SessionType
<1>3. ASSUME NEW h \in Hives PROVE [s EXCEPT !.pin = h, !.refreshes = @ + 1] \in SessionType
  <2>1. s.refreshes + 1 \in Nat
    BY SessionFields
  <2> QED
    BY <2>1, Zenon DEF SessionType
<1> QED
  BY <1>1, <1>2, <1>3

\* Session.__init__ builds a Session object.
LEMMA NewSessionType ==
  ASSUME NEW k \in Keys, NEW s \in Secrets, NEW b \in Keys, NEW h \in Hives
  PROVE  NewSession(k, s, b, h) \in SessionType
<1>1. 0 \in Nat
  OBVIOUS
<1> QED
  BY <1>1, Zenon DEF NewSession, SessionType

RegistryType == [helper : HelperType \cup {None}, secret : Secrets \cup {None, Corrupt}]

\* A store object points to a hive, and the values it reads are of their types.
LEMMA RootIs ==
  ASSUME NEW reg
  PROVE  LET root == HelperRoot(None, reg)
         IN /\ root \in Hives \cup {None}
            /\ root # None => Partial(reg, root)
            /\ root = None => \A h \in Hives : ~Partial(reg, h)
            /\ Complete(reg, "HKLM") => root = "HKLM"
            /\ Complete(reg, "HKCU") /\ ~Complete(reg, "HKLM") => root = "HKCU"
            /\ ~Complete(reg, "HKCU") /\ ~Complete(reg, "HKLM") /\ Partial(reg, "HKLM") => root = "HKLM"
            /\ ~Complete(reg, "HKCU") /\ ~Partial(reg, "HKLM") /\ Partial(reg, "HKCU") => root = "HKCU"
BY SentinelsApart DEF HelperRoot, Preferred, Partial, Complete, Hives

\* A write goes to a hive.
LEMMA TargetsAreHives ==
  ASSUME NEW pin \in Hives \cup {None}
  PROVE  Targets(pin) \subseteq Hives
BY ClientsAssumption DEF Targets, WriteRoot, SecretRoot, Preferred, Hives

\* The two values of a hive.
LEMMA RegistryFields ==
  ASSUME TypeOK, NEW h \in Hives
  PROVE  registry[h].helper \in HelperType \cup {None} /\ registry[h].secret \in Secrets \cup {None, Corrupt}
BY DEF TypeOK

\* Writing a helper leaves a registry.
LEMMA HelperRegistryType ==
  ASSUME TypeOK, NEW h \in Hives, NEW x \in HelperType
  PROVE  /\ [registry EXCEPT ![h].helper = x] \in [Hives -> RegistryType]
         /\ [registry EXCEPT ![h].helper = x][h].helper = x
         /\ [registry EXCEPT ![h].helper = x][h].secret = registry[h].secret
         /\ \A g \in Hives \ {h} : [registry EXCEPT ![h].helper = x][g] = registry[g]
BY DEF TypeOK, RegistryType

\* Writing a secret leaves a registry.
LEMMA SecretRegistryType ==
  ASSUME TypeOK, NEW h \in Hives, NEW x \in Secrets \cup {Corrupt}
  PROVE  /\ [registry EXCEPT ![h].secret = x] \in [Hives -> RegistryType]
         /\ [registry EXCEPT ![h].secret = x][h].helper = registry[h].helper
         /\ [registry EXCEPT ![h].secret = x][h].secret = x
         /\ \A g \in Hives \ {h} : [registry EXCEPT ![h].secret = x][g] = registry[g]
BY DEF TypeOK, RegistryType

\* The session a thread uses.
LEMMA MineIs ==
  ASSUME ControlInv, NEW t \in Threads, pc[t] \in Logging
  PROVE  /\ using[t] \in Threads /\ Mine(t) \in SessionType
         /\ Mine(t).pin \in Hives /\ Mine(t).key \in Keys \cup {None} /\ Mine(t).secret \in Secrets
         /\ using[t] \in Driving \/ t \in Driving => using[t] = t
BY SessionFields DEF ControlInv, TypeOK, UseInv, Mine

\* The end of a call: the session of a program without a cache goes.
LEMMA CallReturnsType ==
  ASSUME ControlInv, NEW t \in Threads, pc[t] \in Logging, 
         NEW sessions \in [Threads -> SessionType \cup {None}], CallReturns(t, sessions)
  PROVE  /\ using' \in [Threads -> Threads \cup {None}]
         /\ session' \in [Threads -> SessionType \cup {None}]
         /\ using'[t] = None /\ \A u \in Threads \ {t} : using'[u] = using[u]
         /\ t \in Driving => session'[t] = None
         /\ \A u \in Threads : u # t \/ t \notin Driving => session'[u] = sessions[u]
BY DEF CallReturns, ControlInv, TypeOK

\* Nobody has the lock or a session when the applications are launched.
LEMMA ControlInit == Init => ControlInv
<1> SUFFICES ASSUME Init PROVE ControlInv
  OBVIOUS
<1>1. registry \in [Hives -> RegistryType]
  <2>1. [helper |-> None, secret |-> None] \in RegistryType
    BY Zenon DEF RegistryType
  <2> QED
    BY <2>1 DEF Init
<1>2. replaced \in BOOLEAN /\ scattered \in BOOLEAN /\ forced \in [Threads -> BOOLEAN]
  BY Zenon DEF Init
<1>3. TypeOK
  BY <1>1, <1>2, ClientsAssumption DEF Init, TypeOK, RegistryType, Pcs
<1> QED
  BY <1>3, SentinelsApart DEF Init, ControlInv, LockInv, UseInv, CacheInv, FreshInv, Locked, Preparing, Logging

\* Client._prepare_secret_sharing: the lookup and the insertion.
LEMMA LookupControl ==
  ASSUME ControlInv, NEW t \in Threads, Authenticate(t) \/ Insert(t)
  PROVE  ControlInv'
<1> USE DEF ControlInv, TypeOK, Goto, historyVars
<1>1. CASE Authenticate(t)
  <2>1. forced' \in [Threads -> BOOLEAN]
    BY <1>1, Zenon DEF Authenticate
  <2>2. Cached(t) \in Threads \cup {None}
    BY ClientsAssumption DEF Cached
  <2>3. TypeOK'
    BY <1>1, <2>1, <2>2 DEF Authenticate, Pcs
  <2> QED
    BY <1>1, <2>2, <2>3, ClientsAssumption, SentinelsApart
    DEF Authenticate, Cached, LockInv, UseInv, CacheInv, FreshInv, Locked, Preparing, Logging
<1>2. CASE Insert(t)
  <2>1. TypeOK'
    BY <1>2, ClientsAssumption DEF Insert, Pcs
  <2> QED
    BY <1>2, <2>1, ClientsAssumption, SentinelsApart
    DEF Insert, LockInv, UseInv, CacheInv, FreshInv, Locked, Preparing, Logging
<1> QED
  BY <1>1, <1>2

\* prepare() up to the point where it has a session, or raises.
LEMMA PrepareControl ==
  ASSUME ControlInv, NEW t \in Threads, Enter(t) \/ PrepareRaises(t)
  PROVE  ControlInv'
<1> USE DEF ControlInv, TypeOK, Goto, historyVars
<1>1. CASE Enter(t)
  BY <1>1, SentinelsApart
  DEF Enter, LockStore, LockInv, UseInv, CacheInv, FreshInv, Locked, Preparing, Logging, Pcs
<1>2. CASE PrepareRaises(t)
  <2>1. forced' \in [Threads -> BOOLEAN]
    BY <1>2, Zenon DEF PrepareRaises, PrepareEnds
  <2> QED
    BY <1>2, <2>1, SentinelsApart
    DEF PrepareRaises, PrepareEnds, UnlockStore, LockInv, UseInv, CacheInv, FreshInv, Locked,
        Preparing, Logging, Pcs
<1> QED
  BY <1>1, <1>2

\* prepare() recovers a session from the helper.
LEMMA RecoverControl ==
  ASSUME ControlInv, NEW t \in Threads, Recover(t)
  PROVE  ControlInv'
<1> USE DEF ControlInv, TypeOK, Goto, historyVars
<1>1. Root \in Hives
  BY RootIs DEF Root, Recover, HelperIn
<1>2. PICK h \in HelperType :
        /\ h = registry[Root].helper
        /\ session' = [session EXCEPT ![t] = NewSession(h.key, h.secret, h.blob, Root)]
  BY <1>1, RegistryFields, SentinelsApart DEF Recover, HelperIn
<1>3. session' \in [Threads -> SessionType \cup {None}] /\ session'[t] # None
  BY <1>1, <1>2, HelperFields, NewSessionType, SentinelsApart
<1>4. forced' \in [Threads -> BOOLEAN]
  BY Zenon DEF Recover, PrepareEnds
<1>5. TypeOK'
  BY <1>3, <1>4 DEF Recover, PrepareEnds, UnlockStore, Pcs
<1>6. \A u \in Threads \ {t} : session'[u] = session[u]
  BY <1>2
<1> QED
  BY <1>3, <1>5, <1>6, SentinelsApart
  DEF Recover, PrepareEnds, UnlockStore, LockInv, UseInv, CacheInv, FreshInv, Locked, Preparing, Logging

\* prepare() enrolls: the secret is read or written first.
LEMMA EnrollSecretControl ==
  ASSUME ControlInv, NEW t \in Threads, EnrollSecret(t)
  PROVE  ControlInv'
<1> USE DEF ControlInv, TypeOK, Goto
<1>1. Root \in Hives \cup {None}
  BY RootIs DEF Root
<1>2. /\ registry' \in [Hives -> RegistryType]
      /\ enrolling' \in [Threads -> EnrollType \cup {None}] /\ enrolling'[t] # None
      /\ \A u \in Threads \ {t} : enrolling'[u] = enrolling[u]
      /\ secrets' \in 0 .. MaxSecrets /\ scattered' \in BOOLEAN
  <2>1. CASE SecretIn(Root, registry) # None
    <3>1. Root \in Hives /\ SecretIn(Root, registry) \in Secrets
      BY <1>1, <2>1, RegistryFields DEF SecretIn, EnrollSecret
    <3>2. [pin |-> Root, secret |-> SecretIn(Root, registry)] \in EnrollType
      BY <3>1 DEF EnrollType
    <3> QED
      BY <2>1, <3>2, SentinelsApart DEF EnrollSecret, RegistryType
  <2>2. CASE SecretIn(Root, registry) = None
    <3>1. secrets' \in Secrets /\ secrets' \in 0 .. MaxSecrets
      BY <2>2, ClientsAssumption DEF EnrollSecret, Secrets
    <3>2. PICK h \in Hives :
            /\ registry' = [registry EXCEPT ![h].secret = secrets']
            /\ enrolling' = [enrolling EXCEPT ![t] = [pin |-> h, secret |-> secrets']]
            /\ scattered' = (scattered \/ Root \notin {None, h})
      BY <1>1, <2>2, TargetsAreHives DEF EnrollSecret
    <3>3. [pin |-> h, secret |-> secrets'] \in EnrollType
      BY <3>1 DEF EnrollType
    <3>4. scattered' \in BOOLEAN
      BY <3>2
    <3>5. registry' \in [Hives -> RegistryType]
      BY <3>1, <3>2, SecretRegistryType
    <3> QED
      BY <3>1, <3>2, <3>3, <3>4, <3>5, SentinelsApart
  <2> QED
    BY <2>1, <2>2
<1>3. TypeOK'
  BY <1>2 DEF EnrollSecret, Pcs, RegistryType
<1> QED
  BY <1>2, <1>3, SentinelsApart
  DEF EnrollSecret, LockInv, UseInv, CacheInv, FreshInv, Locked, Preparing, Logging

\* prepare() enrolls: then the helper.
LEMMA EnrollHelperControl ==
  ASSUME ControlInv, NEW t \in Threads, EnrollHelper(t)
  PROVE  ControlInv'
<1> USE DEF ControlInv, TypeOK, Goto
<1>1. enrolling[t] \in EnrollType /\ enrolling[t].pin \in Hives /\ enrolling[t].secret \in Secrets
  BY DEF EnrollHelper, FreshInv, EnrollType
<1>2. writes' = writes + 1 /\ writes' \in Keys /\ writes' \in 0 .. MaxWrites
  BY ClientsAssumption DEF EnrollHelper, WriteHelper, Keys
<1>3. PICK h \in Hives :
        /\ registry' = [registry EXCEPT ![h].helper =
             [key |-> writes', secret |-> enrolling[t].secret, blob |-> writes']]
        /\ session' = [session EXCEPT ![t] =
             NewSession(writes', enrolling[t].secret, writes', h)]
        /\ scattered' = (scattered \/ h # enrolling[t].pin)
  BY <1>1, <1>2, TargetsAreHives DEF EnrollHelper, WriteHelper
<1>4. registry' \in [Hives -> RegistryType]
  BY <1>1, <1>2, <1>3, HelperFields, HelperRegistryType
<1>5. session' \in [Threads -> SessionType \cup {None}] /\ session'[t] # None
  BY <1>1, <1>2, <1>3, NewSessionType, SentinelsApart
<1>6. forced' \in [Threads -> BOOLEAN]
  BY Zenon DEF EnrollHelper, PrepareEnds
<1>7. scattered' \in BOOLEAN /\ replaced' \in BOOLEAN
  BY <1>3 DEF EnrollHelper
<1>8. TypeOK'
  BY <1>2, <1>4, <1>5, <1>6, <1>7 DEF EnrollHelper, PrepareEnds, UnlockStore, Pcs, RegistryType
<1>9. \A u \in Threads \ {t} : session'[u] = session[u]
  BY <1>3
<1> QED
  BY <1>5, <1>8, <1>9, SentinelsApart
  DEF EnrollHelper, PrepareEnds, UnlockStore, LockInv, UseInv, CacheInv, FreshInv, Locked, Preparing, Logging

\* A thread leaves its call: rejected, nothing to commit, or committed.
LEMMA ReturnControl ==
  ASSUME ControlInv, NEW t \in Threads, Rejected(t) \/ CommitAgain(t) \/ CommitCloses(t)
  PROVE  ControlInv'
<1> USE DEF ControlInv, Goto, historyVars
<1>1. PICK sessions \in [Threads -> SessionType \cup {None}] :
        /\ CallReturns(t, sessions)
        /\ \A u \in Threads : sessions[u] = None <=> session[u] = None
  <2>1. CASE Rejected(t)
    BY <2>1 DEF Rejected, TypeOK
  <2>2. CASE CommitAgain(t) \/ CommitCloses(t)
    <3> DEFINE sessions == [session EXCEPT ![using[t]].key = None]
    <3>1. /\ using[t] \in Threads /\ session[using[t]] \in SessionType
          /\ [session[using[t]] EXCEPT !.key = None] \in SessionType
      BY <2>2, MineIs, SessionEdits DEF CommitAgain, CommitCloses, Mine, Logging
    <3>2. sessions = [session EXCEPT ![using[t]] = [session[using[t]] EXCEPT !.key = None]]
      OBVIOUS
    <3>3. sessions \in [Threads -> SessionType \cup {None}]
      BY <3>1, <3>2, Zenon DEF TypeOK
    <3>4. \A u \in Threads : sessions[u] = None <=> session[u] = None
      BY <3>1, <3>2, SentinelsApart DEF TypeOK
    <3>5. CallReturns(t, sessions)
      BY <2>2 DEF CommitAgain, CommitCloses, Forgets
    <3> QED
      BY <3>3, <3>4, <3>5
  <2> QED
    BY <2>1, <2>2
<1>2. /\ pc[t] \in {"login", "closing"} /\ pc' = [pc EXCEPT ![t] = "idle"]
      /\ UNCHANGED <<registry, lock, cache, forced, enrolling, historyVars>>
  BY DEF Rejected, CommitAgain, CommitCloses
<1>3. /\ using' \in [Threads -> Threads \cup {None}]
      /\ session' \in [Threads -> SessionType \cup {None}]
      /\ using'[t] = None /\ \A u \in Threads \ {t} : using'[u] = using[u]
      /\ t \in Driving => session'[t] = None
      /\ \A u \in Threads : u # t \/ t \notin Driving => session'[u] = sessions[u]
  BY <1>1, <1>2, CallReturnsType DEF Logging
<1>4. TypeOK'
  BY <1>2, <1>3 DEF TypeOK, Pcs
<1>5. \A u \in Threads : u # t \/ t \notin Driving => (session'[u] = None <=> session[u] = None)
  BY <1>1, <1>3
<1>6. LockInv' /\ UseInv'
  BY <1>2, <1>3, <1>4, <1>5, SentinelsApart DEF TypeOK, LockInv, UseInv, Locked, Logging
<1>7. CacheInv' /\ FreshInv'
  BY <1>2, <1>3, <1>4, <1>5, SentinelsApart, ClientsAssumption DEF TypeOK, CacheInv, FreshInv, Preparing
<1> QED
  BY <1>4, <1>6, <1>7

\* The steps of commit() that leave the Session object as it is.
LEMMA CommitControl ==
  ASSUME ControlInv, NEW t \in Threads,
         \/ CommitChecks(t) \/ CommitEnter(t) \/ CommitFails(t) \/ CommitSkips(t) \/ CommitEscapes(t)
  PROVE  ControlInv'
BY SentinelsApart
DEF ControlInv, TypeOK, Goto, historyVars, CommitChecks, CommitEnter, CommitFails, CommitSkips,
    CommitEscapes, LockStore, UnlockStore, LockInv, UseInv, CacheInv, FreshInv, Locked, Preparing,
    Logging, Pcs

\* What a refresh writes.
LEMMA Refreshes ==
  ASSUME ControlInv, NEW t \in Threads, CommitRefreshes(t)
  PROVE  \E h \in Hives :
           /\ WriteHelper(h, Mine(t).key, Mine(t).secret)
           /\ session' = [session EXCEPT ![using[t]] = [Mine(t) EXCEPT !.pin = h, !.refreshes = @ + 1]]
           /\ scattered' = (scattered \/ (Mine(t).pin = "HKCU" /\ h = "HKLM"))
<1>1. using[t] \in Threads /\ Mine(t) = session[using[t]] /\ Mine(t).pin \in Hives
  BY MineIs DEF CommitRefreshes, Goto, Logging, Mine
<1> QED
  BY <1>1, TargetsAreHives DEF ControlInv, TypeOK, CommitRefreshes, Mine

\* Those that change it.
LEMMA EditControl ==
  ASSUME ControlInv, NEW t \in Threads, CommitMarks(t) \/ CommitRefreshes(t)
  PROVE  ControlInv'
<1> USE DEF ControlInv, Goto
<1>1. pc[t] \in {"checked", "commit_locked"} /\ pc' \in [Threads -> Pcs]
  BY DEF CommitMarks, CommitRefreshes, TypeOK, Pcs
<1>2. /\ using[t] \in Threads /\ Mine(t) = session[using[t]] /\ Mine(t) \in SessionType
      /\ Mine(t).pin \in Hives /\ Mine(t).key \in Keys \cup {None} /\ Mine(t).secret \in Secrets
  BY <1>1, MineIs DEF Logging, Mine
<1>3. /\ session' \in [Threads -> SessionType \cup {None}]
      /\ \A u \in Threads : session'[u] = None <=> session[u] = None
      /\ TypeOK'
  <2>1. CASE CommitMarks(t)
    <3>1. session' = [session EXCEPT ![using[t]] = [Mine(t) EXCEPT !.committed = TRUE]]
      BY <2>1 DEF CommitMarks, Mine
    <3>2. [Mine(t) EXCEPT !.committed = TRUE] \in SessionType
      BY <1>2, SessionEdits
    <3>3. /\ session' \in [Threads -> SessionType \cup {None}]
          /\ \A u \in Threads : session'[u] = None <=> session[u] = None
      BY <1>2, <3>1, <3>2, SentinelsApart DEF TypeOK
    <3> QED
      BY <1>1, <2>1, <3>3 DEF TypeOK, CommitMarks, historyVars
  <2>2. CASE CommitRefreshes(t)
    <3>1. PICK h \in Hives :
            /\ WriteHelper(h, Mine(t).key, Mine(t).secret)
            /\ session' = [session EXCEPT ![using[t]] =
                             [Mine(t) EXCEPT !.pin = h, !.refreshes = @ + 1]]
            /\ scattered' = (scattered \/ (Mine(t).pin = "HKCU" /\ h = "HKLM"))
      BY <2>2, Refreshes
    <3>2. writes' \in Keys /\ writes' \in 0 .. MaxWrites
      BY <3>1, ClientsAssumption DEF WriteHelper, Keys, TypeOK
    <3>3. Mine(t).key \in Keys
      BY <1>2, <2>2 DEF CommitRefreshes
    <3>4. registry' \in [Hives -> RegistryType]
      <4>1. [key |-> Mine(t).key, secret |-> Mine(t).secret, blob |-> writes'] \in HelperType
        BY <1>2, <3>2, <3>3, HelperFields
      <4> QED
        BY <3>1, <4>1, HelperRegistryType DEF WriteHelper
    <3>5. [Mine(t) EXCEPT !.pin = h, !.refreshes = @ + 1] \in SessionType
      BY <1>2, SessionEdits
    <3>6. /\ session' \in [Threads -> SessionType \cup {None}]
          /\ \A u \in Threads : session'[u] = None <=> session[u] = None
      BY <1>2, <3>1, <3>5, SentinelsApart DEF TypeOK
    <3>7. scattered' \in BOOLEAN
      BY <3>1
    <3> QED
      BY <1>1, <2>2, <3>2, <3>4, <3>6, <3>7 DEF TypeOK, CommitRefreshes, RegistryType, UnlockStore
  <2> QED
    BY <2>1, <2>2
<1>4. /\ UNCHANGED <<cache, using, forced, enrolling>>
      /\ \/ pc' = [pc EXCEPT ![t] = "marked"] /\ pc[t] = "checked" /\ lock' = lock
         \/ pc' = [pc EXCEPT ![t] = "closing"] /\ pc[t] = "commit_locked" /\ lock' = Nobody
  BY DEF CommitMarks, CommitRefreshes, UnlockStore
<1> QED
  BY <1>3, <1>4, SentinelsApart
  DEF TypeOK, LockInv, UseInv, CacheInv, FreshInv, Locked, Preparing, Logging

\* A crash, or a new launch, forgets whatever the application held.
LEMMA RelaunchControl ==
  ASSUME ControlInv, NEW a \in Apps, Relaunch(a)
  PROVE  ControlInv'
<1> USE DEF ControlInv, historyVars
<1>1. /\ \A t \in Threads : AppOf[t] = a =>
           /\ pc'[t] = "idle" /\ using'[t] = None /\ forced'[t] = FALSE
           /\ enrolling'[t] = None /\ session'[t] = None
      /\ \A t \in Threads : AppOf[t] # a =>
           /\ pc'[t] = pc[t] /\ using'[t] = using[t] /\ forced'[t] = forced[t]
           /\ enrolling'[t] = enrolling[t] /\ session'[t] = session[t]
      /\ cache' = [cache EXCEPT ![a] = None]
      /\ lock' = IF lock # Nobody /\ AppOf[lock] = a THEN Nobody ELSE lock
  BY DEF Relaunch
<1>2. forced' \in [Threads -> BOOLEAN]
  BY Zenon DEF Relaunch, TypeOK
<1>3. TypeOK'
  BY <1>2 DEF Relaunch, TypeOK, Pcs
<1>4. LockInv' /\ UseInv'
  BY <1>1, <1>3, SentinelsApart DEF LockInv, UseInv, TypeOK, Locked, Logging
<1>5. CacheInv' /\ FreshInv'
  BY <1>1, <1>3, SentinelsApart, ClientsAssumption DEF TypeOK, CacheInv, FreshInv, Preparing
<1> QED
  BY <1>3, <1>4, <1>5

\* A corrupted secret disturbs no thread.
LEMMA CorruptControl ==
  ASSUME ControlInv, NEW h \in Hives, CorruptSecret(h)
  PROVE  ControlInv'
BY SecretRegistryType
DEF ControlInv, TypeOK, RegistryType, CorruptSecret, LockInv, UseInv, CacheInv, FreshInv, callVars, historyVars

\* Every step keeps ControlInv.
LEMMA ControlNext == ControlInv /\ [Next]_vars => ControlInv'
<1> SUFFICES ASSUME ControlInv, [Next]_vars PROVE ControlInv'
  OBVIOUS
<1>1. CASE UNCHANGED vars
  BY <1>1 DEF vars, callVars, historyVars, ControlInv, TypeOK, LockInv, UseInv, CacheInv, FreshInv
<1>2. ASSUME NEW t \in Threads, Prepares(t) PROVE ControlInv'
  BY <1>2, LookupControl, PrepareControl, RecoverControl, EnrollSecretControl, EnrollHelperControl,
     ReturnControl DEF Prepares
<1>3. ASSUME NEW t \in Threads, Commits(t) PROVE ControlInv'
  BY <1>3, ReturnControl, CommitControl, EditControl DEF Commits
<1> QED
  BY <1>1, <1>2, <1>3, RelaunchControl, CorruptControl DEF Next

\* Type correctness, for any number of applications and threads.
THEOREM ClientsTypeCorrect == Spec => []TypeOK
BY ControlInit, ControlNext, PTL DEF Spec, ControlInv
-----------------------------------------------------------------------------
\* Helpers are numbered as they are written.
BlobInv ==
  \A h \in Hives : registry[h].helper # None =>
    registry[h].helper.blob <= writes /\ registry[h].helper.key <= writes

\* What a session knows of the helper in its hive.
SessionInv ==
  \A t \in Threads : session[t] # None =>
    LET s == session[t]
        h == registry[s.pin].helper
    IN /\ h # None /\ s.expected <= h.blob
       /\ s.expected = h.blob => h.key = s.hwid /\ h.secret = s.secret
       /\ s.refreshes = 0 \/ (s.refreshes = 1 /\ s.expected < h.blob)
       /\ s.key \in {s.hwid, None}

\* What a thread that enrolls knows of the store while it has the lock.
EnrollInv ==
  \A t \in Threads : pc[t] = "enroll" =>
    /\ registry[enrolling[t].pin].secret \in {enrolling[t].secret, Corrupt}
    /\ ~scattered => /\ enrolled # None => enrolling[t].pin = Root
                     /\ ~forced[t] => enrolled = None

\* One secret, and no helper without it, while nothing is scattered.
GenerationInv ==
  ~scattered =>
    /\ registry["HKLM"].secret = None \/ registry["HKCU"].secret = None
    /\ registry["HKLM"].helper # None => registry["HKLM"].secret # None
    /\ registry["HKCU"].helper # None =>
         registry["HKCU"].secret # None \/ Complete(registry, "HKLM")
    /\ enrolled = None => \A h \in Hives : registry[h].helper = None

OneHwid ==
  ~scattered /\ ~replaced =>
    \A t \in Threads : session[t] # None => session[t].hwid = enrolled

DataInv ==
  /\ BlobInv /\ SessionInv /\ EnrollInv /\ GenerationInv /\ OneHwid
  /\ PairsMatch /\ NextLaunchRecovers

ClientsInv == ControlInv /\ DataInv

\* A session that is the same but for its key, which it may have lost.
Kept(s, t) ==
  /\ t.hwid = s.hwid /\ t.secret = s.secret /\ t.expected = s.expected /\ t.pin = s.pin
  /\ t.refreshes = s.refreshes /\ t.key \in {s.key, None}

\* A step that leaves the registry alone and prepares no session.
LEMMA DataFrame ==
  ASSUME DataInv, UNCHANGED <<registry, writes, enrolled, replaced, scattered>>,
         \A t \in Threads : session'[t] # None => session[t] # None /\ Kept(session[t], session'[t]),
         \A t \in Threads : pc'[t] = "enroll" =>
           pc[t] = "enroll" /\ enrolling'[t] = enrolling[t] /\ forced'[t] = forced[t]
  PROVE  DataInv'
<1> USE DEF DataInv
<1>1. BlobInv' /\ GenerationInv' /\ PairsMatch' /\ NextLaunchRecovers'
  BY DEF BlobInv, GenerationInv, PairsMatch, NextLaunchRecovers, Root
<1>2. SessionInv' /\ OneHwid'
  BY DEF SessionInv, OneHwid, Kept
<1>3. EnrollInv'
  BY DEF EnrollInv, Root
<1> QED
  BY <1>1, <1>2, <1>3

\* Steps that touch neither a session nor the store.
LEMMA QuietSteps ==
  ASSUME ClientsInv, NEW t \in Threads,
         \/ Authenticate(t) \/ Insert(t) \/ Enter(t) \/ PrepareRaises(t)
         \/ CommitChecks(t) \/ CommitEnter(t) \/ CommitFails(t) \/ CommitSkips(t) \/ CommitEscapes(t)
  PROVE  DataInv'
<1>1. /\ UNCHANGED <<registry, writes, enrolled, replaced, scattered, session>>
      /\ \A u \in Threads : pc'[u] = "enroll" =>
           pc[u] = "enroll" /\ enrolling'[u] = enrolling[u] /\ forced'[u] = forced[u]
  BY DEF ClientsInv, ControlInv, TypeOK, Authenticate, Insert, Enter, PrepareRaises, PrepareEnds, CommitChecks,
         CommitEnter, CommitFails, CommitSkips, CommitEscapes, Goto, historyVars
<1> QED
  BY <1>1, DataFrame DEF ClientsInv, Kept

\* Steps that touch a session in nothing but its key and its flag.
LEMMA ReturnSteps ==
  ASSUME ClientsInv, NEW t \in Threads, Rejected(t) \/ CommitAgain(t) \/ CommitCloses(t) \/ CommitMarks(t)
  PROVE  DataInv'
<1> USE DEF ClientsInv
<1>1. /\ pc[t] \in Logging /\ pc' = [pc EXCEPT ![t] = IF pc[t] = "checked" THEN "marked" ELSE "idle"]
      /\ UNCHANGED <<registry, enrolling, forced, writes, enrolled, replaced, scattered>>
  BY DEF Rejected, CommitAgain, CommitCloses, CommitMarks, Goto, historyVars, Logging
<1>2. /\ using[t] \in Threads /\ session \in [Threads -> SessionType \cup {None}]
      /\ session[using[t]] \in SessionType
  BY <1>1, MineIs DEF Mine, ControlInv, TypeOK
<1>3. ASSUME NEW s \in SessionType
      PROVE  Kept(s, s) /\ Kept(s, [s EXCEPT !.key = None]) /\ Kept(s, [s EXCEPT !.committed = TRUE])
  BY DEF SessionType, Kept
<1>4. \A u \in Threads : session'[u] # None => session[u] # None /\ Kept(session[u], session'[u])
  <2>1. CASE Rejected(t)
    BY <1>2, <1>3, <2>1 DEF Rejected, CallReturns
  <2>2. CASE CommitMarks(t)
    <3>1. session' = [session EXCEPT ![using[t]] = [session[using[t]] EXCEPT !.committed = TRUE]]
      BY <2>2 DEF CommitMarks
    <3> QED
      BY <1>2, <1>3, <3>1, SentinelsApart
  <2>3. CASE CommitAgain(t) \/ CommitCloses(t)
    <3> DEFINE sessions == [session EXCEPT ![using[t]] = [session[using[t]] EXCEPT !.key = None]]
    <3>1. session' = IF t \in Driving THEN [sessions EXCEPT ![t] = None] ELSE sessions
      BY <2>3 DEF CommitAgain, CommitCloses, Forgets, CallReturns
    <3>2. \A u \in Threads : sessions[u] # None => session[u] # None /\ Kept(session[u], sessions[u])
      BY <1>2, <1>3, SentinelsApart
    <3>3. \A u \in Threads : session'[u] \in {sessions[u], None}
      BY <1>2, <3>1
    <3> QED
      BY <3>2, <3>3
  <2> QED
    BY <2>1, <2>2, <2>3
<1>5. \A u \in Threads : pc'[u] = "enroll" => pc[u] = "enroll"
  BY <1>1 DEF ControlInv, TypeOK
<1> QED
  BY <1>1, <1>4, <1>5, DataFrame

\* A launch keeps the store and starts without sessions.
LEMMA RelaunchStep ==
  ASSUME ClientsInv, NEW a \in Apps, Relaunch(a)
  PROVE  DataInv'
<1>1. /\ UNCHANGED <<registry, writes, enrolled, replaced, scattered>>
      /\ \A u \in Threads : session'[u] # None => session'[u] = session[u]
      /\ \A u \in Threads : pc'[u] = "enroll" =>
           pc[u] = "enroll" /\ enrolling'[u] = enrolling[u] /\ forced'[u] = forced[u]
  BY DEF Relaunch, historyVars
<1> QED
  BY <1>1, DataFrame DEF ClientsInv, Kept

\* Which hive a store reads depends only on which values are there.
LEMMA RootDependsOnPresence ==
  ASSUME \A h \in Hives : /\ registry'[h].helper = None <=> registry[h].helper = None
                          /\ registry'[h].secret = None <=> registry[h].secret = None
  PROVE  Root' = Root
BY DEF Root, HelperRoot, Preferred, Partial, Complete, Hives

\* A recovered session knows the helper it was recovered from.
LEMMA RecoverStep ==
  ASSUME ClientsInv, NEW t \in Threads, Recover(t)
  PROVE  DataInv'
<1> USE DEF ClientsInv
<1>1. Root \in Hives
  BY RootIs DEF Root, Recover, HelperIn
<1>2. PICK h \in HelperType :
        /\ h = registry[Root].helper
        /\ session' = [session EXCEPT ![t] = NewSession(h.key, h.secret, h.blob, Root)]
  BY <1>1, RegistryFields, SentinelsApart DEF Recover, HelperIn, ControlInv
<1>3. /\ UNCHANGED <<registry, writes, enrolled, replaced, scattered>>
      /\ pc' = [pc EXCEPT ![t] = "insert"] /\ forced' = [forced EXCEPT ![t] = FALSE]
      /\ enrolling' = [enrolling EXCEPT ![t] = None]
  BY DEF Recover, Goto, PrepareEnds, historyVars
<1>4. /\ session'[t].hwid = h.key /\ session'[t].key = h.key /\ session'[t].secret = h.secret
      /\ session'[t].expected = h.blob /\ session'[t].pin = Root /\ session'[t].refreshes = 0
      /\ \A u \in Threads \ {t} : session'[u] = session[u]
  BY <1>2 DEF ControlInv, TypeOK, NewSession
<1>5. BlobInv' /\ GenerationInv' /\ PairsMatch' /\ NextLaunchRecovers'
  BY <1>3 DEF DataInv, BlobInv, GenerationInv, PairsMatch, NextLaunchRecovers, Root
<1>6. EnrollInv'
  BY <1>3 DEF DataInv, EnrollInv, Root, ControlInv, TypeOK
<1>7. SessionInv'
  <2>1. ASSUME NEW u \in Threads, u # t, session'[u] # None
        PROVE  LET s == session'[u] IN s = session[u] /\ registry'[s.pin] = registry[s.pin]
    BY <1>3, <1>4, <2>1
  <2>2. h # None /\ h.blob \in Nat
    <3>1. h \in HelperType /\ h.blob \in Keys
      BY <1>2, HelperFields
    <3> QED
      BY <3>1, SentinelsApart
  <2>3. registry'[session'[t].pin].helper = h
    BY <1>2, <1>3, <1>4
  <2> QED
    BY <1>3, <1>4, <2>1, <2>2, <2>3 DEF DataInv, SessionInv
<1>8. OneHwid'
  <2>1. ~scattered => enrolled # None /\ h.key = enrolled
    BY <1>1, <1>2, SentinelsApart DEF DataInv, GenerationInv, NextLaunchRecovers, HelperIn
  <2> QED
    BY <1>3, <1>4, <2>1 DEF DataInv, OneHwid
<1> QED
  BY <1>5, <1>6, <1>7, <1>8 DEF DataInv

\* A corrupted secret is still there, so no other hive comes to be preferred.
LEMMA CorruptStep ==
  ASSUME ClientsInv, NEW h \in Hives, CorruptSecret(h)
  PROVE  DataInv'
<1> USE DEF ClientsInv, ControlInv
<1>1. /\ registry'[h].helper = registry[h].helper /\ registry'[h].secret = Corrupt
      /\ registry[h].secret # None
      /\ \A g \in Hives \ {h} : registry'[g] = registry[g]
      /\ UNCHANGED <<pc, enrolling, forced, session, writes, enrolled, replaced, scattered>>
  BY SecretRegistryType DEF CorruptSecret, callVars, historyVars
<1>2. \A g \in Hives :
        /\ registry'[g].helper = registry[g].helper
        /\ registry'[g].secret \in {registry[g].secret, Corrupt}
        /\ registry'[g].secret = None <=> registry[g].secret = None
  BY <1>1, SentinelsApart
<1>3. Root' = Root /\ (Root # None => Root \in Hives)
  BY <1>2, RootDependsOnPresence, RootIs DEF Root
<1>4. BlobInv' /\ SessionInv' /\ OneHwid'
  BY <1>1, <1>2, SessionFields DEF DataInv, BlobInv, SessionInv, OneHwid, TypeOK
<1>5. GenerationInv' /\ PairsMatch'
  BY <1>1, <1>2 DEF DataInv, GenerationInv, PairsMatch, Complete, Hives
<1>6. NextLaunchRecovers'
  BY <1>1, <1>2, <1>3 DEF DataInv, NextLaunchRecovers, HelperIn, SecretIn
<1>7. EnrollInv'
  <2>1. \A t \in Threads : pc[t] = "enroll" => enrolling[t].pin \in Hives
    BY DEF FreshInv, TypeOK, EnrollType
  <2> QED
    BY <1>1, <1>2, <1>3, <2>1 DEF DataInv, EnrollInv
<1> QED
  BY <1>4, <1>5, <1>6, <1>7 DEF DataInv

\* A thread that has the lock is the only one in a critical section.
LEMMA AloneLocked ==
  ASSUME ControlInv, NEW t \in Threads, pc[t] \in Locked
  PROVE  \A u \in Threads \ {t} : pc[u] \notin Locked
BY DEF ControlInv, LockInv

\* An enrollment finds a secret in its hive, or writes one.
LEMMA EnrollSecretStep ==
  ASSUME ClientsInv, NEW t \in Threads, EnrollSecret(t)
  PROVE  DataInv'
<1> USE DEF ClientsInv, ControlInv
<1>1. Root \in Hives \cup {None}
  BY RootIs DEF Root
<1>2. /\ UNCHANGED <<session, forced, writes, enrolled, replaced>>
      /\ pc[t] = "prepare_locked" /\ pc' = [pc EXCEPT ![t] = "enroll"]
      /\ Root = None \/ registry[Root].helper = None \/ forced[t]
      /\ \A u \in Threads \ {t} : pc'[u] # "enroll"
  BY AloneLocked DEF EnrollSecret, Goto, Enrolls, HelperIn, TypeOK, Locked
<1>3. CASE SecretIn(Root, registry) # None
  <2>1. /\ UNCHANGED <<registry, scattered>> /\ Root \in Hives
        /\ enrolling'[t].pin = Root /\ enrolling'[t].secret = registry[Root].secret
    BY <1>1, <1>3 DEF EnrollSecret, SecretIn, TypeOK
  <2>2. Root' = Root
    BY <2>1 DEF Root
  <2>3. ~scattered /\ ~forced[t] => enrolled = None
    BY <1>2, <2>1 DEF DataInv, NextLaunchRecovers, HelperIn
  <2>4. EnrollInv'
    BY <1>2, <2>1, <2>2, <2>3 DEF EnrollInv, TypeOK
  <2>5. BlobInv' /\ SessionInv' /\ GenerationInv' /\ OneHwid' /\ PairsMatch' /\ NextLaunchRecovers'
    BY <1>2, <2>1, <2>2
    DEF DataInv, BlobInv, SessionInv, GenerationInv, OneHwid, PairsMatch, NextLaunchRecovers
  <2> QED
    BY <2>4, <2>5 DEF DataInv
<1>4. CASE SecretIn(Root, registry) = None
  <2>1. secrets' \in Secrets
    BY <1>4, ClientsAssumption DEF EnrollSecret, Secrets, TypeOK
  <2>2. PICK h \in Hives :
          /\ registry' = [registry EXCEPT ![h].secret = secrets']
          /\ enrolling' = [enrolling EXCEPT ![t] = [pin |-> h, secret |-> secrets']]
          /\ scattered' = (scattered \/ Root \notin {None, h})
    BY <1>1, <1>4, TargetsAreHives DEF EnrollSecret
  <2>3. /\ registry'[h].helper = registry[h].helper /\ registry'[h].secret = secrets'
        /\ \A g \in Hives \ {h} : registry'[g] = registry[g]
        /\ enrolling'[t].pin = h /\ enrolling'[t].secret = secrets'
    BY <2>1, <2>2, SecretRegistryType DEF TypeOK
  <2>4. BlobInv' /\ SessionInv' /\ OneHwid'
    <3>1. \A g \in Hives : registry'[g].helper = registry[g].helper
      BY <2>3
    <3> QED
      BY <1>2, <2>2, <3>1, SessionFields DEF DataInv, BlobInv, SessionInv, OneHwid, TypeOK
  <2>5. CASE scattered'
    BY <1>2, <2>3, <2>4, <2>5
    DEF DataInv, EnrollInv, GenerationInv, PairsMatch, NextLaunchRecovers, TypeOK
  <2>6. CASE ~scattered'
    \* The device has neither a helper nor a secret.
    <3>1. Root = None
      <4>1. SUFFICES ASSUME Root # None PROVE FALSE
        OBVIOUS
      <4>2. registry[Root].helper # None /\ ~Complete(registry, Root)
        BY <1>1, <1>4, <4>1, RootIs DEF Root, SecretIn, Partial, Complete
      <4>3. Complete(registry, "HKLM") \/ Complete(registry, "HKCU")
        BY <1>1, <2>2, <2>6, <4>1, <4>2 DEF DataInv, GenerationInv, Complete, Hives
      <4> QED
        BY <4>2, <4>3, RootIs DEF Root
    <3>2. \A g \in Hives : registry[g].helper = None /\ registry[g].secret = None
      BY <3>1, RootIs DEF Root, Partial
    <3>3. enrolled = None
      BY <2>2, <2>6, <3>1 DEF DataInv, NextLaunchRecovers, HelperIn
    <3> QED
      BY <1>2, <2>2, <2>3, <2>4, <3>2, <3>3
      DEF DataInv, EnrollInv, GenerationInv, PairsMatch, NextLaunchRecovers, Complete, TypeOK, Hives
  <2> QED
    BY <2>5, <2>6
<1> QED
  BY <1>3, <1>4

\* A helper written into hive h is numbered anew.
LEMMA WrittenHelper ==
  ASSUME ClientsInv, NEW h \in Hives, NEW key \in Keys, NEW secret \in Secrets,
         WriteHelper(h, key, secret), writes' \in Keys, key <= writes'
  PROVE  /\ writes' = writes + 1
         /\ registry'[h].helper.key = key /\ registry'[h].helper.secret = secret
         /\ registry'[h].helper.blob = writes' /\ registry'[h].helper # None
         /\ registry'[h].secret = registry[h].secret
         /\ \A g \in Hives \ {h} : registry'[g] = registry[g]
         /\ BlobInv'
         \* a session that had a helper there has another one now
         /\ \A u \in Threads : session[u] # None =>
              LET s == session[u]
                  now == registry'[s.pin].helper
              IN /\ now # None /\ s.expected <= now.blob
                 /\ s.expected = now.blob => now.key = s.hwid /\ now.secret = s.secret
                 /\ s.refreshes = 0 \/ (s.refreshes = 1 /\ s.expected < now.blob)
                 /\ s.key \in {s.hwid, None}
<1> DEFINE x == [key |-> key, secret |-> secret, blob |-> writes']
<1>1. x \in HelperType /\ x # None
  BY HelperFields, SentinelsApart
<1>2. /\ registry'[h].helper = x /\ registry'[h].secret = registry[h].secret
      /\ \A g \in Hives \ {h} : registry'[g] = registry[g]
  BY <1>1, HelperRegistryType DEF WriteHelper, ClientsInv, ControlInv
<1>3. writes \in Nat /\ writes' = writes + 1
  BY ClientsAssumption DEF WriteHelper, ClientsInv, ControlInv, TypeOK
<1>4. BlobInv'
  <2>1. ASSUME NEW g \in Hives, registry[g].helper # None
        PROVE  registry[g].helper.blob \in Nat /\ registry[g].helper.key \in Nat
    BY <2>1, RegistryFields, HelperFields, SentinelsApart DEF ClientsInv, ControlInv
  <2> QED
    BY <1>1, <1>2, <1>3, <2>1 DEF ClientsInv, DataInv, BlobInv
<1>5. ASSUME NEW u \in Threads, session[u] # None
      PROVE  LET s == session[u]
                 now == registry'[s.pin].helper
             IN /\ now # None /\ s.expected <= now.blob
                /\ s.expected = now.blob => now.key = s.hwid /\ now.secret = s.secret
                /\ s.refreshes = 0 \/ (s.refreshes = 1 /\ s.expected < now.blob)
                /\ s.key \in {s.hwid, None}
  <2> DEFINE s == session[u]
             old == registry[s.pin].helper
  <2>1. s \in SessionType /\ s.pin \in Hives /\ s.expected \in Nat
    BY <1>5, SessionFields, SentinelsApart DEF ClientsInv, ControlInv, TypeOK
  <2>2. /\ old # None /\ s.expected <= old.blob
        /\ s.expected = old.blob => old.key = s.hwid /\ old.secret = s.secret
        /\ s.refreshes = 0 \/ (s.refreshes = 1 /\ s.expected < old.blob)
        /\ s.key \in {s.hwid, None}
    BY <1>5 DEF ClientsInv, DataInv, SessionInv
  <2>3. old.blob \in Nat /\ old.blob <= writes
    BY <2>1, <2>2, RegistryFields, HelperFields, SentinelsApart
    DEF ClientsInv, ControlInv, DataInv, BlobInv
  <2>4. CASE s.pin = h
    BY <1>1, <1>2, <1>3, <2>1, <2>2, <2>3, <2>4
  <2>5. CASE s.pin # h
    BY <1>2, <2>1, <2>2, <2>5
  <2> QED
    BY <2>4, <2>5
<1> QED
  BY <1>1, <1>2, <1>3, <1>4, <1>5

\* The helper of an enrollment joins the secret in its hive, unless HKLM denies it.
LEMMA EnrollHelperStep ==
  ASSUME ClientsInv, ControlInv', NEW t \in Threads, EnrollHelper(t)
  PROVE  DataInv'
<1> USE DEF ClientsInv
<1>1. /\ enrolling[t].pin \in Hives /\ enrolling[t].secret \in Secrets
      /\ writes' \in Keys /\ writes' = writes + 1
  BY ClientsAssumption DEF ControlInv, TypeOK, FreshInv, EnrollHelper, EnrollType, WriteHelper, Goto, Keys
<1>2. PICK h \in Hives :
        /\ WriteHelper(h, writes', enrolling[t].secret)
        /\ session' = [session EXCEPT ![t] = NewSession(writes', enrolling[t].secret, writes', h)]
        /\ scattered' = (scattered \/ h # enrolling[t].pin)
  BY <1>1, TargetsAreHives DEF EnrollHelper
<1>3. /\ registry'[h].helper.key = writes' /\ registry'[h].helper.secret = enrolling[t].secret
      /\ registry'[h].helper.blob = writes' /\ registry'[h].helper # None
      /\ registry'[h].secret = registry[h].secret
      /\ \A g \in Hives \ {h} : registry'[g] = registry[g]
      /\ BlobInv'
  BY <1>1, <1>2, WrittenHelper, SentinelsApart
<1>4. /\ session'[t].hwid = writes' /\ session'[t].key = writes'
      /\ session'[t].secret = enrolling[t].secret /\ session'[t].expected = writes'
      /\ session'[t].pin = h /\ session'[t].refreshes = 0
      /\ \A u \in Threads \ {t} : session'[u] = session[u]
  BY <1>2 DEF ControlInv, TypeOK, NewSession
<1>5. /\ pc[t] = "enroll" /\ pc' = [pc EXCEPT ![t] = "insert"]
      /\ enrolled' = writes' /\ replaced' = (replaced \/ forced[t])
      /\ \A u \in Threads : pc'[u] # "enroll"
  BY AloneLocked DEF EnrollHelper, Goto, ControlInv, TypeOK, Locked
<1>6. writes' \in Nat /\ writes' # None
  BY <1>1, SentinelsApart
<1>7. SessionInv'
  <2>1. ASSUME NEW u \in Threads, u # t, session'[u] # None
        PROVE  LET s == session'[u]
                   now == registry'[s.pin].helper
               IN /\ now # None /\ s.expected <= now.blob
                  /\ s.expected = now.blob => now.key = s.hwid /\ now.secret = s.secret
                  /\ s.refreshes = 0 \/ (s.refreshes = 1 /\ s.expected < now.blob)
                  /\ s.key \in {s.hwid, None}
    BY <1>1, <1>2, <1>4, <1>6, <2>1, WrittenHelper
  <2> QED
    BY <1>3, <1>4, <1>6, <2>1 DEF SessionInv
<1>8. CASE scattered'
  BY <1>3, <1>5, <1>7, <1>8
  DEF DataInv, EnrollInv, GenerationInv, OneHwid, PairsMatch, NextLaunchRecovers
<1>9. CASE ~scattered'
  <2>1. /\ ~scattered /\ h = enrolling[t].pin
        /\ registry[h].secret \in {enrolling[t].secret, Corrupt}
        /\ enrolled # None => h = Root
        /\ ~forced[t] => enrolled = None
    BY <1>2, <1>5, <1>9 DEF DataInv, EnrollInv
  <2>2. registry[h].secret # None
    BY <1>1, <2>1, SentinelsApart
  <2>3. Complete(registry', h)
    BY <1>3, <2>2 DEF Complete
  <2>4. GenerationInv'
    BY <1>3, <1>5, <1>6, <2>1, <2>2, <2>3 DEF DataInv, GenerationInv, Complete, Hives
  <2>5. PairsMatch'
    BY <1>3, <2>1 DEF DataInv, PairsMatch, Complete, Hives
  <2>6. Root' = h
    <3>1. ASSUME h = "HKCU" PROVE ~Complete(registry, "HKLM")
      <4>1. CASE enrolled = None
        BY <2>1, <4>1 DEF DataInv, GenerationInv, Complete, Hives
      <4>2. CASE enrolled # None
        BY <2>1, <3>1, <4>2, RootIs DEF Root
      <4> QED
        BY <4>1, <4>2
    <3> QED
      BY <1>3, <2>3, <3>1, RootIs DEF Root, Complete, Hives
  <2>7. NextLaunchRecovers'
    BY <1>3, <1>5, <1>6, <2>1, <2>6, SentinelsApart DEF NextLaunchRecovers, HelperIn, SecretIn
  <2>8. OneHwid'
    <3>1. ASSUME enrolled = None, NEW u \in Threads PROVE session[u] = None
      BY <2>1, <3>1, SessionFields DEF DataInv, GenerationInv, SessionInv, ControlInv, TypeOK
    <3> QED
      BY <1>4, <1>5, <2>1, <3>1 DEF OneHwid
  <2> QED
    BY <1>3, <1>5, <1>7, <2>4, <2>5, <2>7, <2>8 DEF DataInv, EnrollInv
<1> QED
  BY <1>8, <1>9

\* A refresh goes to the hive of its helper or, where HKLM denies it, to HKCU,
\* which no launch reads then.
LEMMA CommitRefreshesStep ==
  ASSUME ClientsInv, ControlInv', NEW t \in Threads, CommitRefreshes(t)
  PROVE  DataInv'
<1> USE DEF ClientsInv
<1> DEFINE s == Mine(t)
<1>1. /\ using[t] \in Threads /\ s = session[using[t]] /\ s \in SessionType /\ s # None
      /\ s.pin \in Hives /\ s.key \in Keys /\ s.secret \in Secrets /\ s.expected \in Keys
      /\ s.refreshes \in Nat
  BY MineIs, SessionFields, SentinelsApart DEF CommitRefreshes, Goto, Logging, Mine
<1>2. PICK h \in Hives :
        /\ WriteHelper(h, s.key, s.secret)
        /\ session' = [session EXCEPT ![using[t]] = [s EXCEPT !.pin = h, !.refreshes = @ + 1]]
        /\ scattered' = (scattered \/ (s.pin = "HKCU" /\ h = "HKLM"))
  BY Refreshes
<1>3. /\ writes \in Nat /\ writes' = writes + 1 /\ writes' \in Keys
  BY <1>2, ClientsAssumption DEF WriteHelper, ControlInv, TypeOK, Keys
<1>4. /\ registry[s.pin].helper # None /\ registry[s.pin].helper.blob = s.expected
      /\ s.key = s.hwid /\ s.refreshes = 0
      /\ registry[s.pin].helper.key = s.key /\ registry[s.pin].helper.secret = s.secret
      /\ s.expected <= writes
  <2>1. registry[s.pin].helper # None /\ registry[s.pin].helper.blob = s.expected
    BY <1>1, SentinelsApart DEF CommitRefreshes, SameHelper, HelperIn
  <2>2. s.expected \in Nat /\ s.key # None
    BY <1>1, SentinelsApart
  <2> QED
    BY <1>1, <2>1, <2>2 DEF DataInv, SessionInv, BlobInv
<1>5. s.key <= writes'
  <2>1. s.key \in Nat /\ s.key <= writes
    BY <1>1, <1>4, SentinelsApart DEF DataInv, BlobInv
  <2> QED
    BY <1>3, <2>1
<1>6. /\ registry'[h].helper.key = s.key /\ registry'[h].helper.secret = s.secret
      /\ registry'[h].helper.blob = writes' /\ registry'[h].helper # None
      /\ registry'[h].secret = registry[h].secret
      /\ \A g \in Hives \ {h} : registry'[g] = registry[g]
      /\ BlobInv'
  BY <1>1, <1>2, <1>3, <1>5, WrittenHelper
<1>7. /\ session'[using[t]].hwid = s.hwid /\ session'[using[t]].key = s.key
      /\ session'[using[t]].secret = s.secret /\ session'[using[t]].expected = s.expected
      /\ session'[using[t]].pin = h /\ session'[using[t]].refreshes = 1
      /\ \A u \in Threads \ {using[t]} : session'[u] = session[u]
  BY <1>1, <1>2, <1>4 DEF ControlInv, TypeOK, SessionType
<1>8. /\ pc[t] = "commit_locked" /\ pc' = [pc EXCEPT ![t] = "closing"]
      /\ UNCHANGED <<enrolled, replaced, enrolling, forced>>
      /\ \A u \in Threads : pc'[u] # "enroll"
  BY AloneLocked DEF CommitRefreshes, Goto, ControlInv, TypeOK, Locked
<1>9. SessionInv'
  <2>1. ASSUME NEW u \in Threads, u # using[t], session'[u] # None
        PROVE  LET x == session'[u]
                   now == registry'[x.pin].helper
               IN /\ now # None /\ x.expected <= now.blob
                  /\ x.expected = now.blob => now.key = x.hwid /\ now.secret = x.secret
                  /\ x.refreshes = 0 \/ (x.refreshes = 1 /\ x.expected < now.blob)
                  /\ x.key \in {x.hwid, None}
    BY <1>1, <1>2, <1>3, <1>5, <1>7, <2>1, WrittenHelper
  <2>2. s.expected < writes' /\ s.expected <= writes' /\ s.expected # writes'
    <3>1. s.expected \in Nat
      BY <1>1, SentinelsApart
    <3> QED
      BY <1>3, <1>4, <3>1
  <2> QED
    BY <1>4, <1>6, <1>7, <2>1, <2>2 DEF SessionInv
<1>10. CASE scattered'
  BY <1>6, <1>8, <1>9, <1>10
  DEF DataInv, EnrollInv, GenerationInv, OneHwid, PairsMatch, NextLaunchRecovers
<1>11. CASE ~scattered'
  <2>1. ~scattered /\ (h = s.pin \/ (s.pin = "HKLM" /\ h = "HKCU"))
    BY <1>1, <1>2, <1>11 DEF Hives
  <2>2. OneHwid'
    BY <1>1, <1>7, <1>8, <2>1 DEF DataInv, OneHwid
  <2>3. enrolled # None
    BY <1>1, <1>4, <2>1 DEF DataInv, GenerationInv
  <2>4. CASE h = s.pin
    <3>1. Root' = Root /\ (Root # None => Root \in Hives)
      BY <1>1, <1>4, <1>6, <2>4, RootDependsOnPresence, RootIs DEF Root
    <3>2. GenerationInv'
      BY <1>1, <1>4, <1>6, <1>8, <2>1, <2>3, <2>4 DEF DataInv, GenerationInv, Complete, Hives
    <3>3. PairsMatch'
      BY <1>1, <1>4, <1>6, <2>1, <2>4 DEF DataInv, PairsMatch, Complete
    <3>4. NextLaunchRecovers'
      BY <1>4, <1>6, <1>8, <2>1, <2>4, <3>1 DEF DataInv, NextLaunchRecovers, HelperIn, SecretIn
    <3> QED
      BY <1>6, <1>8, <1>9, <2>2, <3>2, <3>3, <3>4 DEF DataInv, EnrollInv
  <2>5. CASE s.pin = "HKLM" /\ h = "HKCU"
    <3>1. Complete(registry, "HKLM") /\ registry["HKCU"].secret = None
      BY <1>4, <2>1, <2>5 DEF DataInv, GenerationInv, Complete
    <3>2. registry'["HKLM"] = registry["HKLM"] /\ registry'["HKCU"].secret = None
      BY <1>6, <2>5, <3>1 DEF Hives
    <3>3. Root = "HKLM" /\ Root' = "HKLM"
      BY <3>1, <3>2, RootIs DEF Root, Complete
    <3>4. GenerationInv' /\ PairsMatch'
      BY <1>6, <1>8, <2>1, <2>3, <3>1, <3>2 DEF DataInv, GenerationInv, PairsMatch, Complete, Hives
    <3>5. NextLaunchRecovers'
      BY <1>8, <2>1, <3>2, <3>3, SentinelsApart DEF DataInv, NextLaunchRecovers, HelperIn, SecretIn, Hives
    <3> QED
      BY <1>6, <1>8, <1>9, <2>2, <3>4, <3>5 DEF DataInv, EnrollInv
  <2> QED
    BY <2>1, <2>4, <2>5
<1> QED
  BY <1>10, <1>11

\* The registry starts empty.
LEMMA DataInit == Init => DataInv
<1> SUFFICES ASSUME Init PROVE DataInv
  OBVIOUS
<1>1. /\ \A h \in Hives : registry[h].helper = None /\ registry[h].secret = None
      /\ \A t \in Threads : session[t] = None /\ pc[t] = "idle"
      /\ enrolled = None
  BY DEF Init
<1> QED
  BY <1>1
  DEF DataInv, BlobInv, SessionInv, EnrollInv, GenerationInv, OneHwid, PairsMatch, Complete,
      NextLaunchRecovers, Hives

\* Every step keeps the inductive invariant.
LEMMA ClientsNext == ClientsInv /\ [Next]_vars => ClientsInv'
<1> SUFFICES ASSUME ClientsInv, [Next]_vars PROVE ClientsInv'
  OBVIOUS
<1>0. ControlInv'
  BY ControlNext DEF ClientsInv
<1>1. CASE UNCHANGED vars
  <2>1. UNCHANGED <<registry, pc, forced, enrolling, session, writes, enrolled, replaced, scattered>>
    BY <1>1 DEF vars, callVars, historyVars
  <2>2. DataInv'
    BY <2>1, DataFrame DEF ClientsInv, Kept
  <2> QED
    BY <1>0, <2>2 DEF ClientsInv
<1>2. ASSUME NEW t \in Threads, Prepares(t) PROVE DataInv'
  BY <1>0, <1>2, QuietSteps, RecoverStep, EnrollSecretStep, EnrollHelperStep, ReturnSteps DEF Prepares
<1>3. ASSUME NEW t \in Threads, Commits(t) PROVE DataInv'
  BY <1>0, <1>3, QuietSteps, ReturnSteps, CommitRefreshesStep DEF Commits
<1>4. CASE \E a \in Apps : Relaunch(a)
  BY <1>0, <1>4, RelaunchStep DEF ClientsInv
<1>5. CASE \E h \in Hives : CorruptSecret(h)
  BY <1>0, <1>5, CorruptStep DEF ClientsInv
<1> QED
  BY <1>0, <1>1, <1>2, <1>3, <1>4, <1>5 DEF Next, ClientsInv

\* The inductive invariant of the theorems below.
LEMMA ClientsInvHolds == Spec => []ClientsInv
BY ControlInit, DataInit, ClientsNext, PTL DEF Spec, ClientsInv

\* "A pair is one generation", whatever crashes, is denied, is corrupted or is
\* enrolled again, for any number of applications and any denials.
THEOREM PairsAlwaysMatch == Spec => []PairsMatch
BY ClientsInvHolds, PTL DEF ClientsInv, DataInv

\* What has been enrolled is what the next launch finds.
THEOREM NextLaunchAlwaysRecovers == Spec => []NextLaunchRecovers
BY ClientsInvHolds, PTL DEF ClientsInv, DataInv

\* Threads that miss the cache together, and applications that enroll at once,
\* end with one HWID.
THEOREM OneHwidForAll == Spec => []SessionsAgree
<1>1. ClientsInv => SessionsAgree
  BY DEF ClientsInv, DataInv, OneHwid, SessionsAgree
<1> QED
  BY <1>1, ClientsInvHolds, PTL

\* However many threads pass the check of _committed on one session, one of them
\* writes a refresh.
THEOREM AtMostOneRefresh == Spec => []RefreshedOnce
<1>1. ClientsInv => RefreshedOnce
  BY DEF ClientsInv, DataInv, SessionInv, RefreshedOnce
<1> QED
  BY <1>1, ClientsInvHolds, PTL

\* A thread that commits stays with its session, and the session loses its key
\* only at the end of somebody's call.
LEMMA KeyLoss ==
  ASSUME ControlInv, ControlInv', Next, NEW t \in Threads,
         Committing(t), Committing(t)', Mine(t).key # None, Mine(t)'.key = None
  PROVE  \E u \in Threads \ {t} : using[u] = using[t] /\ pc[u] \in {"login", "closing"}
<1> DEFINE w == using[t]
<1>1. /\ w \in Threads /\ session[w] \in SessionType /\ session[w].key # None
      /\ using'[t] \in Threads /\ session'[using'[t]] \in SessionType /\ session'[using'[t]].key = None
  <2>1. pc[t] \in Logging /\ pc'[t] \in Logging
    BY DEF Committing, Logging
  <2> QED
    BY <2>1, MineIs DEF Mine, ControlInv, UseInv, TypeOK
<1>2. session'[using'[t]] # None
  BY <1>1, SentinelsApart
<1>0. ASSUME NEW u \in Threads, CommitRefreshes(u), using[u] = w
      PROVE  \E h \in Hives : session' = [session EXCEPT ![w] =
                               [session[w] EXCEPT !.pin = h, !.refreshes = @ + 1]]
  BY <1>0, Refreshes DEF Mine
<1> USE DEF ControlInv, TypeOK, Committing, Goto
<1>3. ASSUME NEW u \in Threads,
             \/ Authenticate(u) \/ Enter(u) \/ PrepareRaises(u) \/ EnrollSecret(u) \/ Insert(u)
             \/ CommitChecks(u) \/ CommitEnter(u) \/ CommitFails(u) \/ CommitSkips(u)
             \/ CommitEscapes(u)
      PROVE  FALSE
  <2>1. session' = session /\ using'[t] = using[t]
    BY <1>3 DEF Authenticate, Enter, PrepareRaises, EnrollSecret, Insert, CommitChecks, CommitEnter,
                CommitFails, CommitSkips, CommitEscapes
  <2> QED
    BY <1>1, <2>1
<1>4. ASSUME NEW u \in Threads, Recover(u) \/ EnrollHelper(u) PROVE FALSE
  <2>1. session[u] = None /\ using' = using
    BY <1>4 DEF Recover, EnrollHelper, FreshInv, Preparing
  <2>2. u # w
    BY <1>1, <2>1, SentinelsApart
  <2>3. session'[w] = session[w]
    BY <1>1, <1>4, <2>2 DEF Recover, EnrollHelper
  <2> QED
    BY <1>1, <2>1, <2>3
<1>5. ASSUME NEW u \in Threads, CommitMarks(u) \/ CommitRefreshes(u) PROVE FALSE
  <2>1. using' = using
    BY <1>5 DEF CommitMarks, CommitRefreshes
  <2>2. session'[w].key = session[w].key
    <3>1. CASE using[u] # w
      BY <1>1, <1>5, <3>1 DEF CommitMarks, CommitRefreshes
    <3>2. CASE using[u] = w
      <4>1. \/ session'[w] = [session[w] EXCEPT !.committed = TRUE]
            \/ \E h \in Hives : session'[w] = [session[w] EXCEPT !.pin = h, !.refreshes = @ + 1]
        <5>1. session[w].pin \in Hives
          BY <1>1, SessionFields
        <5>2. CASE CommitMarks(u)
          BY <1>1, <3>2, <5>2 DEF CommitMarks, SessionType
        <5>3. CASE CommitRefreshes(u)
          <6>1. PICK h \in Hives :
                  session' = [session EXCEPT ![w] = [session[w] EXCEPT !.pin = h, !.refreshes = @ + 1]]
            BY <1>0, <3>2, <5>3
          <6> QED
            BY <1>1, <6>1
        <5> QED
          BY <1>5, <5>2, <5>3
      <4> QED
        BY <1>1, <4>1 DEF SessionType
    <3> QED
      BY <3>1, <3>2
  <2> QED
    BY <1>1, <2>1, <2>2
<1>6. ASSUME NEW u \in Threads, Rejected(u) PROVE FALSE
  <2>1. u # t /\ using'[t] = using[t]
    BY <1>6 DEF Rejected, CallReturns
  <2>2. session'[w] \in {session[w], None}
    BY <1>1, <1>6 DEF Rejected, CallReturns
  <2> QED
    BY <1>1, <1>2, <2>1, <2>2
<1>7. ASSUME NEW u \in Threads, CommitAgain(u) \/ CommitCloses(u)
      PROVE  u # t /\ using[u] = using[t] /\ pc[u] \in {"login", "closing"}
  <2>1. u # t /\ using'[t] = using[t] /\ pc[u] \in {"login", "closing"}
    BY <1>7 DEF CommitAgain, CommitCloses, Forgets, CallReturns
  <2>2. using[u] # using[t] => session'[w] \in {session[w], None}
    BY <1>1, <1>7 DEF CommitAgain, CommitCloses, Forgets, CallReturns
  <2> QED
    BY <1>1, <1>2, <2>1, <2>2
<1>8. ASSUME NEW a \in Apps, Relaunch(a) PROVE FALSE
  <2>1. using'[t] = using[t] /\ session'[w] \in {session[w], None}
    BY <1>1, <1>8 DEF Relaunch
  <2> QED
    BY <1>1, <1>2, <2>1
<1>9. ASSUME NEW h \in Hives, CorruptSecret(h) PROVE FALSE
  BY <1>1, <1>9 DEF CorruptSecret, callVars
<1> QED
  BY <1>3, <1>4, <1>5, <1>6, <1>7, <1>8, <1>9 DEF Next, Prepares, Commits

\* A commit loses its key only to another thread that commits the same session.
THEOREM KeyLostOnlyToAnother == Spec => KeyLostToAnother
<1>1. ControlInv /\ ControlInv' /\ [Next]_vars =>
        [\A t \in Threads :
           Committing(t) /\ Committing(t)' /\ Mine(t).key # None /\ Mine(t)'.key = None
             => \E u \in Threads \ {t} : using[u] = using[t] /\ pc[u] \in {"login", "closing"}]_vars
  BY KeyLoss
<1> QED
  BY <1>1, ControlInit, ControlNext, PTL DEF Spec, KeyLostToAnother
=============================================================================
