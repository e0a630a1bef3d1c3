------------------------ MODULE DeviceIdentityProofs ------------------------
(* Proofs about the life of a device's SL-HWID.                             *)
EXTENDS DeviceIdentity, SecretSharingProofs, FiniteSetTheorems

Prepared(a) == pc[a] \in {"ready", "commit_locked"}

SessionFields == {"hwid", "key", "fresh", "factors", "mandatory", "expected"}

CountersOK ==
  /\ writes \in Nat
  /\ DOMAIN pc = Apps /\ DOMAIN session = Apps

\* The shares of helper h were computed as threshold() has it.
Shared(h) ==
  LET n == Cardinality(DOMAIN h.enrolled)
      m == Cardinality(h.mandatory)
  IN n \in Nat /\ m \in Nat /\ CanShare(n, m) /\ h.threshold = Threshold(n, m)

\* The helper hides the latest key; helpers are numbered as they are written.
HelperOK ==
  helper # None =>
    /\ helper.key = enrolled
    /\ enrolled \in Nat /\ enrolled <= writes
    /\ helper.blob \in Nat /\ helper.blob <= writes
    /\ Shared(helper)

\* A session that still has its key and was prepared from the helper that is
\* there has the key of that helper, and its hard locks under their names of today.
SessionOK(a) ==
  Prepared(a) =>
    /\ DOMAIN session[a] = SessionFields
    /\ session[a].expected \in Nat /\ session[a].expected <= writes
    /\ helper # None /\ session[a].key # None /\ session[a].expected = helper.blob
         => /\ session[a].key = helper.key
            /\ MapMandatory(helper.mandatory) \subseteq session[a].mandatory
    /\ IsFiniteSet(DOMAIN session[a].factors)
    /\ pc[a] = "commit_locked" => session[a].key # None

IdentityInv == CountersOK /\ HelperOK /\ \A a \in Apps : SessionOK(a)

\* There are only finitely many slots to share to.
LEMMA FiniteProjection ==
  ASSUME NEW raw0, NEW version PROVE IsFiniteSet(DOMAIN Project(raw0, version))
<1>1. IsFiniteSet(Signals \cup {SlStore})
  BY DeviceAssumption, FS_AddElement
<1>2. DOMAIN Project(raw0, version) \subseteq Signals \cup {SlStore}
  BY DEF Project
<1>. QED
  BY <1>1, <1>2, FS_Subset

\* What passes the checks of an enrollment or a refresh is shared as it should be.
LEMMA NewIsShared ==
  ASSUME NEW key, NEW factors, NEW mandatory, NEW blob,
         IsFiniteSet(DOMAIN factors), CanEnroll(factors, mandatory)
  PROVE  LET h == NewHelper(key, factors, mandatory, blob)
         IN Shared(h) /\ h.key = key /\ h.blob = blob /\ h.mandatory = mandatory
<1>1. IsFiniteSet(mandatory)
  BY FS_Subset DEF CanEnroll
<1>2. Cardinality(DOMAIN factors) \in Nat /\ Cardinality(mandatory) \in Nat
  BY <1>1, FS_CardinalityType
<1>. QED
  BY <1>2 DEF NewHelper, Shared, CanEnroll

\* Names of today are not mapped any further.
LEMMA MapTwice ==
  ASSUME NEW names PROVE MapMandatory(MapMandatory(names)) \subseteq MapMandatory(names)
<1>1. ASSUME NEW name PROVE CurrentName(CurrentName(name)) = CurrentName(name)
  BY SharingAssumption DEF CurrentName
<1>. QED
  BY <1>1 DEF MapMandatory

\* The invariant holds at first.
LEMMA IdentityInit == Init => IdentityInv
<1> SUFFICES ASSUME Init PROVE IdentityInv
  OBVIOUS
<1>1. CountersOK /\ \A a \in Apps : SessionOK(a)
  BY DEF Init, CountersOK, SessionOK, Prepared
<1>2. ASSUME CanEnroll(LegacyFactors(hardware), LegacyLocks)
      PROVE  LET h == LegacyHelper(hardware) IN h.key = 1 /\ h.blob = 1 /\ Shared(h)
  <2>1. IsFiniteSet(DOMAIN LegacyFactors(hardware))
    BY FiniteProjection DEF LegacyFactors
  <2> DEFINE h == NewHelper(1, LegacyFactors(hardware), LegacyLocks, 1)
  <2>2. h.key = 1 /\ h.blob = 1 /\ Shared(h)
    BY <1>2, <2>1, NewIsShared
  <2>3. /\ LegacyHelper(hardware).key = h.key /\ LegacyHelper(hardware).blob = h.blob
        /\ LegacyHelper(hardware).enrolled = h.enrolled
        /\ LegacyHelper(hardware).mandatory = h.mandatory
        /\ LegacyHelper(hardware).threshold = h.threshold
    BY DEF LegacyHelper, NewHelper
  <2>. QED
    BY <2>2, <2>3 DEF Shared
<1>3. HelperOK
  BY <1>2 DEF Init, HelperOK
<1>. QED
  BY <1>1, <1>3 DEF IdentityInv

\* A step of one application that writes no helper.
LEMMA IdentityFrame ==
  ASSUME IdentityInv, NEW a \in Apps,
         UNCHANGED <<helper, enrolled, writes>>,
         DOMAIN pc' = Apps, DOMAIN session' = Apps,
         \A b \in Apps \ {a} : pc'[b] = pc[b] /\ session'[b] = session[b],
         SessionOK(a)'
  PROVE  IdentityInv'
  BY DEF IdentityInv, CountersOK, HelperOK, SessionOK, Prepared

\* A step that writes a helper, numbered anew, with the latest key.
LEMMA IdentityWrite ==
  ASSUME IdentityInv, NEW a \in Apps,
         writes' = writes + 1, helper'.blob = writes', helper'.key = enrolled',
         enrolled' \in Nat, enrolled' <= writes', Shared(helper'),
         DOMAIN pc' = Apps, DOMAIN session' = Apps,
         \A b \in Apps \ {a} : pc'[b] = pc[b] /\ session'[b] = session[b],
         SessionOK(a)'
  PROVE  IdentityInv'
<1>1. CountersOK' /\ HelperOK'
  BY DEF IdentityInv, CountersOK, HelperOK, Shared
<1>2. ASSUME NEW b \in Apps \ {a} PROVE SessionOK(b)'
  BY <1>2 DEF IdentityInv, CountersOK, SessionOK, Prepared
<1>. QED
  BY <1>1, <1>2 DEF IdentityInv

\* Session.commit drops the key and keeps the rest of the session.
LEMMA Forgotten ==
  ASSUME NEW a \in Apps, DOMAIN session = Apps, DOMAIN session[a] = SessionFields, Forget(a)
  PROVE  /\ DOMAIN session' = Apps
         /\ DOMAIN session'[a] = SessionFields
         /\ session'[a].key = None /\ session'[a].expected = session[a].expected
         /\ session'[a].factors = session[a].factors
         /\ \A b \in Apps \ {a} : session'[b] = session[b]
  BY DEF Forget, SessionFields

\* Every step preserves the invariant.
LEMMA IdentityNext == IdentityInv /\ [Next]_vars => IdentityInv'
<1> SUFFICES ASSUME IdentityInv, [Next]_vars PROVE IdentityInv'
  OBVIOUS
<1>0. CountersOK /\ HelperOK /\ \A a \in Apps : SessionOK(a)
  BY DEF IdentityInv
<1>1. ASSUME NEW a \in Apps, Prepares(a) PROVE IdentityInv'
  <2>1. CASE Collect(a) \/ Enter(a) \/ EnterFails(a) \/ PrepareFails(a) \/ EnrollSecret(a)
             \/ EnrollFails(a)
    BY <1>0, <2>1, IdentityFrame
    DEF Collect, Enter, EnterFails, PrepareFails, EnrollSecret, EnrollFails, Goto, storeVars,
        historyVars, CountersOK, SessionOK, Prepared
  <2>2. CASE PrepareRecovers(a)
    <3>1. SessionOK(a)'
      BY <1>0, <2>2, FiniteProjection DEF PrepareRecovers, KeptLocks, Recovering, Goto, storeVars, historyVars, CountersOK,
        HelperOK, SessionOK, Prepared, SessionFields
    <3>. QED
      BY <1>0, <2>2, <3>1, IdentityFrame DEF PrepareRecovers, Goto, storeVars, historyVars, CountersOK
  <2>3. CASE EnrollHelper(a)
    <3>1. /\ helper'.blob = writes' /\ helper'.key = writes' /\ Shared(helper')
          /\ helper'.mandatory = EnrollMandatory(a)
      BY <2>3, FiniteProjection, NewIsShared DEF EnrollHelper, EnrollFactors
    <3>2. MapMandatory(helper'.mandatory) \subseteq EnrollMandatory(a)
      BY <3>1, MapTwice DEF EnrollMandatory
    <3>3. IsFiniteSet(DOMAIN EnrollFactors(a))
      BY FiniteProjection DEF EnrollFactors
    <3>4. SessionOK(a)'
      BY <1>0, <2>3, <3>1, <3>2, <3>3 DEF EnrollHelper, Goto, CountersOK, SessionOK, Prepared, SessionFields
    <3>. QED
      BY <1>0, <2>3, <3>1, <3>4, IdentityWrite DEF EnrollHelper, Goto, CountersOK
  <2>. QED
    BY <1>1, <2>1, <2>2, <2>3 DEF Prepares
<1>2. ASSUME NEW a \in Apps, Commits(a) PROVE IdentityInv'
  <2>1. CASE CommitEnter(a)
    BY <1>0, <2>1, IdentityFrame
    DEF CommitEnter, Goto, storeVars, historyVars, CountersOK, SessionOK, Prepared
  <2>2. CASE CommitFails(a) \/ CommitSkips(a)
    <3>1. Forget(a) /\ Prepared(a) /\ Prepared(a)' /\ pc'[a] # "commit_locked"
      BY <1>0, <2>2 DEF CommitFails, CommitSkips, Goto, Prepared, CountersOK
    <3>2. SessionOK(a)'
      BY <1>0, <2>2, <3>1, Forgotten
      DEF CommitFails, CommitSkips, storeVars, historyVars, CountersOK, SessionOK
    <3>. QED
      BY <1>0, <2>2, <3>1, <3>2, Forgotten, IdentityFrame
      DEF CommitFails, CommitSkips, Goto, storeVars, historyVars, CountersOK, SessionOK
  <2>3. CASE CommitRefreshes(a)
    <3>1. Forget(a) /\ Prepared(a) /\ Prepared(a)' /\ pc'[a] # "commit_locked"
      BY <1>0, <2>3 DEF CommitRefreshes, Goto, Prepared, CountersOK
    <3>2. session[a].key = enrolled /\ enrolled \in Nat /\ enrolled <= writes
      BY <1>0, <2>3, <3>1 DEF CommitRefreshes, SameHelper, Goto, SessionOK, HelperOK
    <3>3. helper'.blob = writes' /\ helper'.key = enrolled' /\ Shared(helper')
      BY <1>0, <2>3, <3>1, <3>2, NewIsShared DEF CommitRefreshes, SessionOK
    <3>4. SessionOK(a)'
      BY <1>0, <2>3, <3>1, Forgotten DEF CommitRefreshes, CountersOK, SessionOK
    <3>5. writes' = writes + 1 /\ enrolled' \in Nat /\ enrolled' <= writes'
      BY <1>0, <2>3, <3>2 DEF CommitRefreshes, CountersOK
    <3>6. /\ DOMAIN pc' = Apps /\ DOMAIN session' = Apps
          /\ \A b \in Apps \ {a} : pc'[b] = pc[b] /\ session'[b] = session[b]
      BY <1>0, <2>3, <3>1, Forgotten DEF CommitRefreshes, Goto, CountersOK, SessionOK
    <3>. QED
      BY <3>3, <3>4, <3>5, <3>6, IdentityWrite
  <2>. QED
    BY <1>2, <2>1, <2>2, <2>3 DEF Commits
<1>3. ASSUME NEW a \in Apps, Exit(a) PROVE IdentityInv'
  BY <1>0, <1>3, IdentityFrame DEF Exit, storeVars, historyVars, CountersOK, SessionOK, Prepared
<1>4. CASE (\E s \in Drifting : Drift(s)) \/ DeleteSecret \/ UNCHANGED vars
  BY <1>0, <1>4 DEF Drift, DeleteSecret, vars, storeVars, historyVars, IdentityInv, CountersOK,
    HelperOK, SessionOK, Prepared
<1>. QED
  BY <1>1, <1>2, <1>3, <1>4 DEF Next

\* "Do not restore a stale snapshot": whatever applications prepare, commit, crash
\* or enroll again, in whatever order, the helper hides the key of the latest
\* enrollment.
THEOREM OneIdentityHolds == Spec => []OneIdentity
<1>1. IdentityInv => OneIdentity
  BY DEF IdentityInv, HelperOK, OneIdentity
<1>. QED
  BY <1>1, IdentityInit, IdentityNext, PTL DEF Spec

\* "any two can fail or change without changing the HWID", for every set of
\* signals, every schema and every choice of hard locks that leaves three slots.
THEOREM TwoMayFailHolds == ASSUME MinimumFactors >= 8 PROVE Spec => []TwoMayFail
<1>1. IdentityInv => TwoMayFail
  BY TwoSlotsToSpare DEF IdentityInv, HelperOK, Shared, TwoMayFail
<1>. QED
  BY <1>1, IdentityInit, IdentityNext, PTL DEF Spec

\* "A hard lock chosen when the shared device state is enrolled cannot be
\* weakened by another application": no step but a new enrollment changes the
\* helper and loses a hard lock.
THEOREM HardLocksAlwaysKept == Spec => HardLocksKept
<1>1. IdentityInv /\ [Next]_vars =>
        [helper # None /\ helper' # helper /\ enrolled' = enrolled
           => MapMandatory(helper.mandatory) \subseteq helper'.mandatory]_vars
  <2> SUFFICES ASSUME IdentityInv, Next, helper # None, helper' # helper, enrolled' = enrolled
               PROVE  MapMandatory(helper.mandatory) \subseteq helper'.mandatory
    OBVIOUS
  <2>1. PICK a \in Apps : EnrollHelper(a) \/ CommitRefreshes(a)
    BY DEF Next, Prepares, Commits, Collect, Enter, EnterFails, PrepareRecovers, PrepareFails,
      EnrollSecret, EnrollFails, CommitEnter, CommitFails, CommitSkips, Exit, Drift, DeleteSecret,
      storeVars
  <2>2. CASE EnrollHelper(a)
    BY <2>2 DEF EnrollHelper, IdentityInv, CountersOK, HelperOK
  <2>3. CASE CommitRefreshes(a)
    <3>1. MapMandatory(helper.mandatory) \subseteq session[a].mandatory
      BY <2>3 DEF CommitRefreshes, SameHelper, Goto, IdentityInv, SessionOK, Prepared
    <3>. QED
      BY <2>3, <3>1 DEF CommitRefreshes, NewHelper
  <2>. QED
    BY <2>1, <2>2, <2>3
<1>. QED
  BY <1>1, IdentityInit, IdentityNext, PTL DEF Spec, HardLocksKept
-----------------------------------------------------------------------------
(* What the store, the applications and their sessions hold.                *)

\* The store, and the counters of the bounds.
StoreInv ==
  /\ hardware \in [Signals -> Values \cup {Absent}]
  /\ slstore \in Secrets \cup {None}
  /\ lock \in Apps \cup {Nobody}
  /\ pc \in [Apps -> Pcs] /\ forced \in [Apps -> BOOLEAN]
  /\ DOMAIN raw = Apps /\ DOMAIN session = Apps
  /\ writes \in 0 .. MaxWrites /\ secrets \in 0 .. MaxSecrets
  /\ enrolled \in Keys \cup {None} /\ replaced \in BOOLEAN /\ deleted \in BOOLEAN

\* The helper is one that parse_helper accepts, and needs the stored secret.
IsStored(h) ==
  /\ DOMAIN h.enrolled \subseteq Names /\ DOMAIN h.enrolled \subseteq Allowed(h.version)
  /\ h \in HelpersOver(DOMAIN h.enrolled)
  /\ SlStore \in h.mandatory /\ h.mandatory \subseteq DOMAIN h.enrolled

HelperInv ==
  helper # None =>
    /\ IsStored(helper)
    /\ ~deleted => slstore # None /\ helper.enrolled[SlStore] = SecretFactor(slstore)

\* An application inside _prepare_locked or the writing part of commit() has the lock.
LockInv(a) == pc[a] \in {"prepare_locked", "enroll", "commit_locked"} => lock = a

\* What an application has collected has the stored secret only once it enrolls.
RawInv(a) ==
  IF pc[a] \in {"prepare", "prepare_locked", "enroll"}
  THEN /\ DOMAIN raw[a] \subseteq Names /\ raw[a] \in SignalsOver(DOMAIN raw[a])
       /\ IF pc[a] = "enroll"
          THEN /\ SlStore \in DOMAIN raw[a]
               /\ ~deleted => slstore # None /\ raw[a][SlStore] = slstore
               /\ ~forced[a] => helper = None
          ELSE SlStore \notin DOMAIN raw[a]
  ELSE raw[a] = None

\* A session can bring the helper nothing but the stored secret.
IsPrepared(x) ==
  /\ DOMAIN x.factors \subseteq Names /\ DOMAIN x.factors \subseteq Allowed(CURRENT_NORM_VERSION)
  /\ x \in SessionsOver(DOMAIN x.factors)
  /\ SlStore \in x.mandatory

SessionInv(a) ==
  IF Prepared(a)
  THEN /\ IsPrepared(session[a]) /\ helper # None
       /\ ~deleted => SlStore \in DOMAIN session[a].factors
                        /\ session[a].factors[SlStore] = SecretFactor(slstore)
       /\ ~replaced => session[a].hwid = enrolled
  ELSE session[a] = None

AppInv(a) == LockInv(a) /\ RawInv(a) /\ SessionInv(a)

DeviceInv == StoreInv /\ HelperInv /\ \A a \in Apps : AppInv(a)

\* No value that is written is the sentinel.
LEMMA Sentinels ==
  /\ None \notin Secrets /\ None \notin Keys
  /\ \A f : DOMAIN f \subseteq Names /\ f \in SignalsOver(DOMAIN f) => f # None
  /\ \A h : IsStored(h) => h # None
  /\ \A x : IsPrepared(x) => x # None
  BY SentinelAssumption, DeviceAssumption DEF Secrets, Keys, IsStored, IsPrepared

\* What the collectors report.
LEMMA ObservedSignals ==
  ASSUME StoreInv, NEW failed
  PROVE  LET r == Observed(failed)
         IN DOMAIN r \subseteq Names /\ r \in SignalsOver(DOMAIN r) /\ SlStore \notin DOMAIN r
  BY SharingAssumption DEF StoreInv, Observed, Collected, SignalsOver, Names

\* The stored secret joins them.
LEMMA WithSecret ==
  ASSUME NEW r, DOMAIN r \subseteq Names, r \in SignalsOver(DOMAIN r), SlStore \notin DOMAIN r,
         NEW secret \in Secrets \cup {None}
  PROVE  LET w == With(secret, r)
         IN /\ DOMAIN w \subseteq Names /\ w \in SignalsOver(DOMAIN w)
            /\ SlStore \in DOMAIN w <=> secret # None
            /\ secret # None => w[SlStore] = secret
<1>1. CASE secret = None
  BY <1>1 DEF With
<1>2. CASE secret # None
  <2>1. With(secret, r) = [s \in DOMAIN r \cup {SlStore} |-> IF s = SlStore THEN secret ELSE r[s]]
    BY <1>2 DEF With
  <2>2. secret \in Values \cup Secrets /\ \A s \in DOMAIN r : r[s] \in Values \cup Secrets
    BY <1>2 DEF SignalsOver
  <2>. QED
    BY <1>2, <2>1, <2>2 DEF SignalsOver, Names
<1>. QED
  BY <1>1, <1>2

\* What is collected is projected on slots a helper of the schema may have.
LEMMA ProjectFactors ==
  ASSUME NEW r, DOMAIN r \subseteq Names, r \in SignalsOver(DOMAIN r),
         NEW version \in {LEGACY_NORM_VERSION, CURRENT_NORM_VERSION}
  PROVE  LET f == Project(r, version)
         IN /\ DOMAIN f \subseteq Names /\ DOMAIN f \subseteq Allowed(version)
            /\ f \in FactorsOver(DOMAIN f)
            /\ SlStore \in DOMAIN f <=> SlStore \in DOMAIN r
            /\ SlStore \in DOMAIN r => f[SlStore] = SecretFactor(r[SlStore])
<1> DEFINE f == Project(r, version)
<1>1. DOMAIN f = {x \in Names : Members(x, version, r) # {}}
  BY DEF Project, Names
<1>2. \A x \in DOMAIN f : f[x] = [s \in Members(x, version, r) |-> r[s]]
  BY DEF Project
<1>3. f = [x \in DOMAIN f |-> [s \in Members(x, version, r) |-> r[s]]]
  BY <1>1 DEF Project, Names
<1>4. \A x : Members(x, version, r) \subseteq DOMAIN r
  BY DEF Members
<1>5. ASSUME NEW x \in DOMAIN f PROVE f[x] \in UNION {SignalsOver(M) : M \in SUBSET Names}
  <2>1. f[x] \in SignalsOver(Members(x, version, r))
    BY <1>2, <1>4 DEF SignalsOver
  <2>2. Members(x, version, r) \in SUBSET Names
    BY <1>4
  <2>. QED
    BY <2>1, <2>2
<1>6. f \in FactorsOver(DOMAIN f)
  BY <1>3, <1>5 DEF FactorsOver
<1>7. DOMAIN f \subseteq Allowed(version)
  BY <1>1, SharingAssumption
  DEF Members, Allowed, CurrentName, LEGACY_NORM_VERSION, CURRENT_NORM_VERSION, Names
<1>8. Members(SlStore, version, r) = {s \in DOMAIN r : s = SlStore}
  BY SharingAssumption
  DEF Members, CurrentName, LEGACY_NORM_VERSION, CURRENT_NORM_VERSION, Names
<1>9. SlStore \in DOMAIN f <=> SlStore \in DOMAIN r
  BY <1>1, <1>8 DEF Names
<1>10. SlStore \in DOMAIN r => f[SlStore] = SecretFactor(r[SlStore])
  <2>. SUFFICES ASSUME SlStore \in DOMAIN r PROVE f[SlStore] = SecretFactor(r[SlStore])
    OBVIOUS
  <2>1. Members(SlStore, version, r) = {SlStore}
    BY <1>8
  <2>2. f[SlStore] = [s \in {SlStore} |-> r[s]]
    BY <1>2, <1>9, <2>1
  <2>. QED
    BY <2>2 DEF SecretFactor
<1>. QED
  BY <1>1, <1>6, <1>7, <1>9, <1>10

\* Hard locks are named slots, and the stored secret stays one.
LEMMA MappedLocks ==
  ASSUME NEW names \in SUBSET Names, SlStore \in names
  PROVE  MapMandatory(names) \subseteq Names /\ SlStore \in MapMandatory(names)
  BY SharingAssumption DEF MapMandatory, CurrentName, Names

LEMMA ThresholdType ==
  ASSUME NEW n \in Nat, NEW m \in Nat PROVE Threshold(n, m) \in Nat
  BY SMT DEF Threshold

\* What an enrollment or a refresh writes.
LEMMA NewIsStored ==
  ASSUME NEW key \in Keys, NEW blob \in Keys, NEW f, NEW mandatory,
         DOMAIN f \subseteq Names, DOMAIN f \subseteq Allowed(CURRENT_NORM_VERSION),
         f \in FactorsOver(DOMAIN f), IsFiniteSet(DOMAIN f),
         SlStore \in mandatory, CanEnroll(f, mandatory)
  PROVE  LET h == NewHelper(key, f, mandatory, blob) IN IsStored(h) /\ h.enrolled = f
<1> DEFINE h == NewHelper(key, f, mandatory, blob)
           t == Threshold(Cardinality(DOMAIN f), Cardinality(mandatory))
<1>1. IsFiniteSet(mandatory) /\ mandatory \subseteq DOMAIN f
  BY FS_Subset DEF CanEnroll
<1>2. t \in Nat
  BY <1>1, FS_CardinalityType, ThresholdType
<1>3. h = [key |-> key, enrolled |-> f, mandatory |-> mandatory, threshold |-> t,
           version |-> CURRENT_NORM_VERSION, blob |-> blob]
  BY DEF NewHelper
<1>. HIDE DEF h, t
<1>4. h.enrolled = f /\ h.mandatory = mandatory /\ h.version = CURRENT_NORM_VERSION
  BY <1>3
<1>5. h \in HelpersOver(DOMAIN f)
  BY <1>1, <1>2, <1>3 DEF HelpersOver
<1>6. IsStored(h)
  BY <1>1, <1>4, <1>5 DEF IsStored
<1>. QED
  BY <1>4, <1>6 DEF h

\* What prepare() returns.
LEMMA NewIsPrepared ==
  ASSUME NEW key \in Keys, NEW fresh \in BOOLEAN, NEW f, NEW mandatory \in SUBSET Names,
         NEW expected \in Keys,
         DOMAIN f \subseteq Names, DOMAIN f \subseteq Allowed(CURRENT_NORM_VERSION),
         f \in FactorsOver(DOMAIN f), SlStore \in mandatory
  PROVE  LET x == [hwid |-> key, key |-> key, fresh |-> fresh, factors |-> f,
                   mandatory |-> mandatory, expected |-> expected]
         IN IsPrepared(x) /\ x.hwid = key /\ x.factors = f
<1> DEFINE x == [hwid |-> key, key |-> key, fresh |-> fresh, factors |-> f,
                 mandatory |-> mandatory, expected |-> expected]
<1>1. x.factors = f /\ x.mandatory = mandatory /\ x.hwid = key
  OBVIOUS
<1>2. x \in SessionsOver(DOMAIN f)
  BY Zenon DEF SessionsOver
<1>. HIDE DEF x
<1>3. IsPrepared(x)
  BY <1>1, <1>2 DEF IsPrepared
<1>. QED
  BY <1>1, <1>3 DEF x

\* Session.commit leaves everything of the session but its key.
LEMMA ForgottenIsPrepared ==
  ASSUME NEW a \in Apps, DOMAIN session = Apps, IsPrepared(session[a]), Forget(a)
  PROVE  /\ IsPrepared(session'[a])
         /\ session'[a].hwid = session[a].hwid /\ session'[a].factors = session[a].factors
<1> DEFINE x == session[a]
           y == [x EXCEPT !.key = None]
<1>1. session'[a] = y
  BY DEF Forget
<1>2. x \in SessionsOver(DOMAIN x.factors)
  BY DEF IsPrepared
<1>3. /\ y.hwid = x.hwid /\ y.factors = x.factors /\ y.mandatory = x.mandatory
      /\ y \in SessionsOver(DOMAIN x.factors)
  BY <1>2 DEF SessionsOver
<1>4. IsPrepared(y)
  BY <1>3 DEF IsPrepared
<1>. QED
  BY <1>1, <1>3, <1>4

\* The invariant holds at first.
LEMMA DeviceInit == Init => DeviceInv
<1> SUFFICES ASSUME Init PROVE DeviceInv
  OBVIOUS
<1>1. 1 \in Keys /\ 1 \in Secrets
  BY DeviceAssumption DEF Keys, Secrets
<1>2. \A a \in Apps : AppInv(a)
  BY DEF Init, AppInv, LockInv, RawInv, SessionInv, Prepared
<1>3. hardware \in [Signals -> Values \cup {Absent}]
  BY DeviceAssumption DEF Init
<1>4. StoreInv
  <2>1. pc \in [Apps -> Pcs]
    BY DEF Init, Pcs
  <2>2. forced \in [Apps -> BOOLEAN] /\ replaced \in BOOLEAN /\ deleted \in BOOLEAN
    BY DEF Init
  <2>3. slstore \in Secrets \cup {None} /\ enrolled \in Keys \cup {None}
    BY <1>1 DEF Init
  <2>4. writes \in 0 .. MaxWrites /\ secrets \in 0 .. MaxSecrets
    BY DeviceAssumption DEF Init
  <2>5. lock \in Apps \cup {Nobody} /\ DOMAIN raw = Apps /\ DOMAIN session = Apps
    BY DEF Init
  <2>. QED
    BY <1>3, <2>1, <2>2, <2>3, <2>4, <2>5 DEF StoreInv
<1>5. ASSUME CanEnroll(LegacyFactors(hardware), LegacyLocks)
      PROVE  /\ IsStored(LegacyHelper(hardware))
             /\ LegacyHelper(hardware).enrolled[SlStore] = SecretFactor(1)
  <2> DEFINE r == [s \in {x \in Signals : hardware[x] # Absent} |-> hardware[s]]
             w == With(1, r)
             f == LegacyFactors(hardware)
             t == Threshold(Cardinality(DOMAIN f), Cardinality(LegacyLocks))
             h == LegacyHelper(hardware)
  <2>1. DOMAIN r \subseteq Names /\ r \in SignalsOver(DOMAIN r) /\ SlStore \notin DOMAIN r
    BY <1>3, SharingAssumption DEF SignalsOver, Names
  <2>2. 1 # None
    BY SentinelAssumption
  <2>3. /\ DOMAIN w \subseteq Names /\ w \in SignalsOver(DOMAIN w)
        /\ SlStore \in DOMAIN w /\ w[SlStore] = 1
    BY <1>1, <2>1, <2>2, WithSecret
  <2>4. f = Project(w, LEGACY_NORM_VERSION)
    BY DEF LegacyFactors
  <2>. HIDE DEF w
  <2>5. /\ DOMAIN f \subseteq Names /\ DOMAIN f \subseteq Allowed(LEGACY_NORM_VERSION)
        /\ f \in FactorsOver(DOMAIN f) /\ f[SlStore] = SecretFactor(1)
    BY <2>3, <2>4, ProjectFactors
  <2>6. LegacyLocks \subseteq DOMAIN f /\ IsFiniteSet(DOMAIN f)
    BY <1>5, <2>4, FiniteProjection DEF CanEnroll
  <2>7. t \in Nat
    BY <2>6, FS_Subset, FS_CardinalityType, ThresholdType
  <2>8. h = [key |-> 1, enrolled |-> f, mandatory |-> LegacyLocks, threshold |-> t,
             version |-> LEGACY_NORM_VERSION, blob |-> 1]
    BY DEF LegacyHelper, NewHelper
  <2>9. SlStore \in LegacyLocks
    BY DEF LegacyLocks
  <2>. HIDE DEF f, t, h
  <2>10. /\ h.enrolled = f /\ h.mandatory = LegacyLocks /\ h.version = LEGACY_NORM_VERSION
    BY <2>8
  <2>11. h \in HelpersOver(DOMAIN f)
    BY <1>1, <2>5, <2>6, <2>7, <2>8 DEF HelpersOver
  <2>12. IsStored(h)
    BY <2>5, <2>6, <2>9, <2>10, <2>11 DEF IsStored
  <2>. QED
    BY <2>5, <2>10, <2>12 DEF h
<1>6. HelperInv
  BY <1>1, <1>5, SentinelAssumption DEF Init, HelperInv
<1>. QED
  BY <1>2, <1>4, <1>6 DEF DeviceInv

\* A step that leaves the store, the sessions and the calls of the others alone.
LEMMA LocalStep ==
  ASSUME DeviceInv, NEW a \in Apps, UNCHANGED <<hardware, slstore, helper, historyVars>>,
         lock' \in Apps \cup {Nobody}, \A b \in Apps \ {a} : lock = b => lock' = b,
         pc' \in [Apps -> Pcs], forced' \in [Apps -> BOOLEAN],
         DOMAIN raw' = Apps, DOMAIN session' = Apps,
         \A b \in Apps \ {a} : /\ pc'[b] = pc[b] /\ raw'[b] = raw[b]
                               /\ forced'[b] = forced[b] /\ session'[b] = session[b],
         AppInv(a)'
  PROVE  DeviceInv'
<1>1. StoreInv' /\ HelperInv'
  BY DEF DeviceInv, StoreInv, HelperInv, historyVars
<1>2. ASSUME NEW b \in Apps \ {a} PROVE AppInv(b)'
  <2>1. AppInv(b)
    BY DEF DeviceInv
  <2>2. LockInv(b)'
    BY <2>1 DEF AppInv, LockInv
  <2>3. RawInv(b)'
    BY <2>1 DEF AppInv, RawInv, historyVars
  <2>4. SessionInv(b)'
    BY <2>1 DEF AppInv, SessionInv, Prepared, historyVars
  <2>. QED
    BY <2>2, <2>3, <2>4 DEF AppInv
<1>. QED
  BY <1>1, <1>2 DEF DeviceInv

\* A step that changes what the store holds while another application has the lock.
LEMMA StoreStep ==
  ASSUME DeviceInv, NEW a \in Apps, NEW b \in Apps \ {a}, lock = a,
         pc'[b] = pc[b], raw'[b] = raw[b], forced'[b] = forced[b], session'[b] = session[b],
         deleted' = deleted, helper # None => helper' # None,
         helper # None /\ ~deleted => slstore' = slstore,
         helper # None /\ ~replaced' => ~replaced /\ enrolled' = enrolled
  PROVE  AppInv(b)'
<1>1. AppInv(b) /\ pc[b] \notin {"prepare_locked", "enroll", "commit_locked"} /\ deleted \in BOOLEAN
  BY DeviceAssumption DEF DeviceInv, AppInv, LockInv, StoreInv
<1>2. LockInv(b)'
  BY <1>1 DEF LockInv
<1>3. RawInv(b)'
  BY <1>1 DEF AppInv, RawInv
<1>4. SessionInv(b)'
  BY <1>1 DEF AppInv, SessionInv, Prepared
<1>. QED
  BY <1>2, <1>3, <1>4 DEF AppInv

\* The steps of prepare() preserve the invariant.
LEMMA DevicePrepares ==
  ASSUME IdentityInv, IdentityInv', DeviceInv, NEW a \in Apps, Prepares(a) PROVE DeviceInv'
<1>0. StoreInv /\ HelperInv /\ AppInv(a) /\ HelperOK /\ SessionOK(a)
  BY DEF DeviceInv, IdentityInv
<1>1. CASE Collect(a)
  <2>1. PICK failed \in Sources \cup {{}} : raw' = [raw EXCEPT ![a] = Observed(failed)]
    BY <1>1 DEF Collect
  <2>2. PICK f \in (IF a \in Forcing THEN BOOLEAN ELSE {FALSE}) : forced' = [forced EXCEPT ![a] = f]
    BY <1>1 DEF Collect
  <2>3. AppInv(a)'
    BY <1>0, <1>1, <2>1, ObservedSignals
    DEF Collect, Goto, StoreInv, AppInv, LockInv, RawInv, SessionInv, Prepared, Pcs
  <2>4. pc' \in [Apps -> Pcs] /\ \A b \in Apps \ {a} : pc'[b] = pc[b]
    BY <1>0, <1>1 DEF Collect, Goto, StoreInv, Pcs
  <2>5. forced' \in [Apps -> BOOLEAN] /\ \A b \in Apps \ {a} : forced'[b] = forced[b]
    BY <1>0, <2>2 DEF StoreInv
  <2>. QED
    BY <1>0, <1>1, <2>1, <2>3, <2>4, <2>5, LocalStep DEF Collect, StoreInv, storeVars
<1>2. CASE Enter(a)
  <2>1. AppInv(a)'
    BY <1>0, <1>2
    DEF Enter, LockStore, Goto, storeVars, historyVars, StoreInv, AppInv, LockInv, RawInv, SessionInv,
      Prepared, Pcs
  <2>. QED
    BY <1>0, <1>2, <2>1, LocalStep, DeviceAssumption
    DEF Enter, LockStore, Goto, StoreInv, storeVars, Pcs
<1>3. CASE EnterFails(a) \/ PrepareFails(a) \/ EnrollFails(a)
  <2>1. /\ Goto(a, "prepare", "idle") \/ Goto(a, "prepare_locked", "idle") \/ Goto(a, "enroll", "idle")
        /\ CallEnds(a) /\ UNCHANGED <<hardware, storeVars, session, historyVars>>
        /\ lock' = lock \/ (lock = a /\ lock' = Nobody)
    BY <1>3 DEF EnterFails, PrepareFails, EnrollFails, UnlockStore
  <2>2. AppInv(a)'
    BY <1>0, <2>1 DEF Goto, CallEnds, StoreInv, AppInv, LockInv, RawInv, SessionInv, Prepared, Pcs
  <2>3. /\ pc' \in [Apps -> Pcs] /\ forced' \in [Apps -> BOOLEAN]
        /\ \A b \in Apps \ {a} : pc'[b] = pc[b] /\ forced'[b] = forced[b]
    BY <1>0, <2>1 DEF Goto, CallEnds, StoreInv, Pcs
  <2>. QED
    BY <1>0, <2>1, <2>2, <2>3, LocalStep DEF CallEnds, StoreInv, storeVars
<1>4. CASE PrepareRecovers(a)
  <2> DEFINE f == Project(Known(a), CURRENT_NORM_VERSION)
             x == [hwid |-> helper.key, key |-> helper.key, fresh |-> FALSE, factors |-> f,
                   mandatory |-> KeptLocks(a), expected |-> helper.blob]
  <2>1. /\ Recovering(a) /\ Goto(a, "prepare_locked", "ready") /\ CallEnds(a) /\ UnlockStore(a)
        /\ session' = [session EXCEPT ![a] = x]
        /\ UNCHANGED <<hardware, storeVars, historyVars>>
    BY <1>4 DEF PrepareRecovers
  <2>2. /\ helper # None /\ IsStored(helper)
        /\ DOMAIN raw[a] \subseteq Names /\ raw[a] \in SignalsOver(DOMAIN raw[a])
        /\ SlStore \notin DOMAIN raw[a]
    BY <1>0, <2>1 DEF Recovering, Goto, HelperInv, AppInv, RawInv
  <2>3. /\ DOMAIN Known(a) \subseteq Names /\ Known(a) \in SignalsOver(DOMAIN Known(a))
        /\ SlStore \in DOMAIN Known(a) <=> slstore # None
        /\ slstore # None => Known(a)[SlStore] = slstore
    BY <1>0, <2>2, WithSecret DEF Known, StoreInv
  <2>4. /\ DOMAIN f \subseteq Names /\ DOMAIN f \subseteq Allowed(CURRENT_NORM_VERSION)
        /\ f \in FactorsOver(DOMAIN f)
        /\ slstore # None => SlStore \in DOMAIN f /\ f[SlStore] = SecretFactor(slstore)
    BY <2>3, ProjectFactors
  <2>5. helper.key \in Keys /\ helper.blob \in Keys /\ helper.mandatory \in SUBSET Names
    BY <2>2 DEF IsStored, HelpersOver
  <2>6. KeptLocks(a) \in SUBSET Names /\ SlStore \in KeptLocks(a)
    BY <2>2, <2>5, MappedLocks DEF KeptLocks, IsStored
  <2>. HIDE DEF f
  <2>7. IsPrepared(x) /\ x.hwid = helper.key /\ x.factors = f
    BY <2>4, <2>5, <2>6, NewIsPrepared
  <2>. HIDE DEF x
  <2>8. /\ session'[a] = x /\ raw'[a] = None /\ pc'[a] = "ready" /\ helper' = helper
        /\ slstore' = slstore /\ deleted' = deleted /\ enrolled' = enrolled
    BY <1>0, <2>1 DEF Goto, CallEnds, StoreInv, storeVars, historyVars
  <2>9. SessionInv(a)'
    BY <1>0, <2>2, <2>4, <2>7, <2>8 DEF SessionInv, Prepared, HelperInv, HelperOK
  <2>10. LockInv(a)' /\ RawInv(a)'
    BY <2>8 DEF LockInv, RawInv
  <2>11. /\ pc' \in [Apps -> Pcs] /\ forced' \in [Apps -> BOOLEAN]
         /\ \A b \in Apps \ {a} : pc'[b] = pc[b] /\ forced'[b] = forced[b]
    BY <1>0, <2>1 DEF Goto, CallEnds, StoreInv, Pcs
  <2>. QED
    BY <1>0, <2>1, <2>9, <2>10, <2>11, LocalStep DEF AppInv, CallEnds, UnlockStore, StoreInv, storeVars
<1>5. CASE EnrollSecret(a)
  <2>1. /\ helper = None \/ forced[a]
        /\ pc[a] = "prepare_locked" /\ pc' = [pc EXCEPT ![a] = "enroll"]
        /\ raw' = [raw EXCEPT ![a] = With(slstore', raw[a])]
        /\ UNCHANGED <<hardware, helper, lock, forced, session, drifts, writes, enrolled, replaced,
                       deleted>>
    BY <1>0, <1>5 DEF EnrollSecret, Goto, StoreInv
  <2>2. /\ slstore' \in Secrets /\ slstore' # None /\ secrets' \in 0 .. MaxSecrets
        /\ slstore # None => slstore' = slstore
    BY <1>0, <1>5, Sentinels, DeviceAssumption DEF EnrollSecret, StoreInv, Secrets
  <2>3. StoreInv'
    BY <1>0, <2>1, <2>2 DEF StoreInv, Pcs
  <2>4. HelperInv'
    BY <1>0, <2>1, <2>2 DEF StoreInv, HelperInv
  <2>5. /\ DOMAIN raw[a] \subseteq Names /\ raw[a] \in SignalsOver(DOMAIN raw[a])
        /\ SlStore \notin DOMAIN raw[a] /\ lock = a
    BY <1>0, <2>1 DEF AppInv, RawInv, LockInv
  <2>6. LET w == With(slstore', raw[a])
        IN /\ DOMAIN w \subseteq Names /\ w \in SignalsOver(DOMAIN w)
           /\ SlStore \in DOMAIN w /\ w[SlStore] = slstore'
    BY <2>2, <2>5, WithSecret
  <2>7. /\ pc'[a] = "enroll" /\ raw'[a] = With(slstore', raw[a])
        /\ forced'[a] = forced[a] /\ session'[a] = session[a]
    BY <1>0, <2>1 DEF StoreInv
  <2>8. RawInv(a)'
    BY <2>1, <2>2, <2>6, <2>7 DEF RawInv
  <2>9. LockInv(a)' /\ SessionInv(a)'
    BY <1>0, <2>1, <2>5, <2>7 DEF AppInv, LockInv, SessionInv, Prepared
  <2>10. ASSUME NEW b \in Apps \ {a} PROVE AppInv(b)'
    BY <1>0, <2>1, <2>2, <2>5, StoreStep DEF StoreInv, HelperInv
  <2>. QED
    BY <2>3, <2>4, <2>8, <2>9, <2>10 DEF DeviceInv, AppInv
<1>6. CASE EnrollHelper(a)
  <2> DEFINE f == EnrollFactors(a)
             locks == EnrollMandatory(a)
             x == [hwid |-> writes', key |-> writes', fresh |-> TRUE, factors |-> f,
                   mandatory |-> locks, expected |-> writes']
  <2>1. /\ pc[a] = "enroll" /\ pc' = [pc EXCEPT ![a] = "ready"]
        /\ CanEnroll(f, locks) /\ writes < MaxWrites /\ writes' = writes + 1
        /\ helper' = NewHelper(writes', f, locks, writes') /\ enrolled' = writes'
        /\ replaced' = (replaced \/ forced[a])
        /\ session' = [session EXCEPT ![a] = x] /\ CallEnds(a) /\ UnlockStore(a)
        /\ UNCHANGED <<hardware, slstore, drifts, secrets, deleted>>
    BY <1>6 DEF EnrollHelper, Goto
  <2>2. /\ DOMAIN raw[a] \subseteq Names /\ raw[a] \in SignalsOver(DOMAIN raw[a])
        /\ SlStore \in DOMAIN raw[a]
        /\ ~deleted => slstore # None /\ raw[a][SlStore] = slstore
    BY <1>0, <2>1 DEF AppInv, RawInv
  <2>3. /\ DOMAIN f \subseteq Names /\ DOMAIN f \subseteq Allowed(CURRENT_NORM_VERSION)
        /\ f \in FactorsOver(DOMAIN f) /\ IsFiniteSet(DOMAIN f)
        /\ SlStore \in DOMAIN f /\ f[SlStore] = SecretFactor(raw[a][SlStore])
    BY <2>2, ProjectFactors, FiniteProjection DEF EnrollFactors
  <2>4. locks \in SUBSET Names /\ SlStore \in locks
    <3>1. ExtraMandatory[a] \cup {SlStore} \in SUBSET Names
      BY DeviceAssumption DEF Names
    <3>. QED
      BY <3>1, MappedLocks DEF EnrollMandatory
  <2>5. writes' \in Keys /\ writes' \in 0 .. MaxWrites
    BY <1>0, <2>1, DeviceAssumption DEF StoreInv, Keys
  <2>. HIDE DEF f, locks
  <2>6. IsStored(helper') /\ helper'.enrolled = f
    BY <2>1, <2>3, <2>4, <2>5, NewIsStored
  <2>7. IsPrepared(x) /\ x.hwid = writes' /\ x.factors = f
    BY <2>3, <2>4, <2>5, NewIsPrepared
  <2>8. helper' # None
    BY <2>6, Sentinels
  <2>. HIDE DEF x
  <2>9. replaced' \in BOOLEAN /\ (~replaced' => ~replaced /\ ~forced[a])
    BY <2>1
  <2>10. /\ pc' \in [Apps -> Pcs] /\ forced' \in [Apps -> BOOLEAN] /\ DOMAIN raw' = Apps
         /\ DOMAIN session' = Apps /\ lock' \in Apps \cup {Nobody} /\ lock = a
         /\ \A b \in Apps \ {a} : /\ pc'[b] = pc[b] /\ raw'[b] = raw[b]
                               /\ forced'[b] = forced[b] /\ session'[b] = session[b]
         /\ pc'[a] = "ready" /\ raw'[a] = None /\ session'[a] = x
    BY <1>0, <2>1 DEF StoreInv, Pcs, CallEnds, UnlockStore
  <2>11. StoreInv'
    BY <1>0, <2>1, <2>5, <2>9, <2>10 DEF StoreInv
  <2>12. HelperInv'
    BY <2>1, <2>2, <2>3, <2>6 DEF HelperInv
  <2>13. AppInv(a)'
    <3>1. LockInv(a)' /\ RawInv(a)'
      BY <2>10 DEF LockInv, RawInv
    <3>2. SessionInv(a)'
      BY <2>1, <2>2, <2>3, <2>7, <2>8, <2>10 DEF SessionInv, Prepared
    <3>. QED
      BY <3>1, <3>2 DEF AppInv
  <2>14. ~replaced' => helper = None
    BY <1>0, <2>1, <2>9 DEF AppInv, RawInv
  <2>15. ASSUME NEW b \in Apps \ {a} PROVE AppInv(b)'
    BY <2>1, <2>8, <2>10, <2>14, StoreStep
  <2>. QED
    BY <2>11, <2>12, <2>13, <2>15 DEF DeviceInv
<1>. QED
  BY <1>1, <1>2, <1>3, <1>4, <1>5, <1>6 DEF Prepares

\* The steps of Session.commit preserve the invariant.
LEMMA DeviceCommits ==
  ASSUME IdentityInv, DeviceInv, NEW a \in Apps, Commits(a) PROVE DeviceInv'
<1>0. StoreInv /\ HelperInv /\ AppInv(a) /\ HelperOK /\ SessionOK(a)
  BY DEF DeviceInv, IdentityInv
<1>1. CASE CommitEnter(a)
  <2>1. AppInv(a)'
    BY <1>0, <1>1
    DEF CommitEnter, LockStore, Goto, storeVars, historyVars, StoreInv, AppInv, LockInv, RawInv,
      SessionInv, Prepared, Pcs
  <2>. QED
    BY <1>0, <1>1, <2>1, LocalStep, DeviceAssumption
    DEF CommitEnter, LockStore, Goto, StoreInv, storeVars, Pcs
<1>2. CASE CommitFails(a) \/ CommitSkips(a)
  <2>1. /\ pc[a] \in {"ready", "commit_locked"} /\ pc'[a] = "ready" /\ pc' \in [Apps -> Pcs]
        /\ \A b \in Apps \ {a} : pc'[b] = pc[b]
        /\ Forget(a) /\ UNCHANGED <<hardware, storeVars, raw, forced, historyVars>>
        /\ lock' = lock \/ (lock = a /\ lock' = Nobody)
    BY <1>0, <1>2 DEF CommitFails, CommitSkips, Goto, UnlockStore, StoreInv, Pcs
  <2>2. Prepared(a) /\ IsPrepared(session[a]) /\ DOMAIN session[a] = SessionFields
    BY <1>0, <2>1 DEF Prepared, AppInv, SessionInv, SessionOK
  <2>3. /\ IsPrepared(session'[a]) /\ DOMAIN session' = Apps
        /\ session'[a].hwid = session[a].hwid /\ session'[a].factors = session[a].factors
        /\ \A b \in Apps \ {a} : session'[b] = session[b]
    BY <1>0, <2>1, <2>2, ForgottenIsPrepared, Forgotten DEF StoreInv
  <2>4. AppInv(a)'
    BY <1>0, <2>1, <2>2, <2>3
    DEF AppInv, LockInv, RawInv, SessionInv, Prepared, storeVars, historyVars
  <2>. QED
    BY <1>0, <2>1, <2>3, <2>4, LocalStep DEF StoreInv, storeVars
<1>3. CASE CommitRefreshes(a)
  <2> DEFINE x == session[a]
  <2>1. /\ pc[a] = "commit_locked" /\ pc' = [pc EXCEPT ![a] = "ready"] /\ Forget(a)
        /\ CanEnroll(x.factors, x.mandatory) /\ writes < MaxWrites /\ writes' = writes + 1
        /\ helper' = NewHelper(x.key, x.factors, x.mandatory, writes') /\ UnlockStore(a)
        /\ UNCHANGED <<hardware, slstore, raw, forced, drifts, secrets, enrolled, replaced, deleted>>
    BY <1>3 DEF CommitRefreshes, Goto
  <2>2. /\ IsPrepared(x) /\ x.key # None /\ DOMAIN x = SessionFields
        /\ IsFiniteSet(DOMAIN x.factors)
        /\ ~deleted => /\ SlStore \in DOMAIN x.factors
                        /\ x.factors[SlStore] = SecretFactor(slstore)
    BY <1>0, <2>1 DEF AppInv, SessionInv, Prepared, SessionOK
  <2>3. helper # None /\ (~deleted => slstore # None)
    BY <1>0, <2>1 DEF AppInv, SessionInv, Prepared, HelperInv
  <2>4. writes' \in Keys /\ writes' \in 0 .. MaxWrites /\ x.key \in Keys
    BY <1>0, <2>1, <2>2, DeviceAssumption DEF StoreInv, Keys, IsPrepared, SessionsOver
  <2>5. IsStored(helper') /\ helper'.enrolled = x.factors
    BY <2>1, <2>2, <2>4, NewIsStored DEF IsPrepared, SessionsOver
  <2>6. helper' # None
    BY <2>5, Sentinels
  <2>7. /\ IsPrepared(session'[a]) /\ DOMAIN session' = Apps
        /\ session'[a].hwid = x.hwid /\ session'[a].factors = x.factors
        /\ \A b \in Apps \ {a} : session'[b] = session[b]
    BY <1>0, <2>1, <2>2, ForgottenIsPrepared, Forgotten DEF StoreInv
  <2>. HIDE DEF x
  <2>8. /\ pc' \in [Apps -> Pcs] /\ lock = a /\ lock' \in Apps \cup {Nobody}
        /\ pc'[a] = "ready" /\ \A b \in Apps \ {a} : pc'[b] = pc[b]
    BY <1>0, <2>1 DEF StoreInv, Pcs, UnlockStore
  <2>9. StoreInv'
    BY <1>0, <2>1, <2>4, <2>7, <2>8 DEF StoreInv
  <2>10. HelperInv'
    BY <2>1, <2>2, <2>3, <2>5 DEF HelperInv
  <2>11. AppInv(a)'
    <3>1. LockInv(a)' /\ RawInv(a)'
      BY <1>0, <2>1, <2>8 DEF AppInv, LockInv, RawInv
    <3>2. SessionInv(a)'
      BY <1>0, <2>1, <2>2, <2>6, <2>7, <2>8 DEF AppInv, SessionInv, Prepared, x
    <3>. QED
      BY <3>1, <3>2 DEF AppInv
  <2>12. ASSUME NEW b \in Apps \ {a} PROVE AppInv(b)'
    BY <2>1, <2>6, <2>7, <2>8, StoreStep
  <2>. QED
    BY <2>9, <2>10, <2>11, <2>12 DEF DeviceInv
<1>. QED
  BY <1>1, <1>2, <1>3 DEF Commits

\* So do the steps of the environment.
LEMMA DeviceEnvironment ==
  ASSUME DeviceInv, (\E a \in Apps : Exit(a)) \/ (\E s \in Drifting : Drift(s)) \/ DeleteSecret
  PROVE  DeviceInv'
<1>0. StoreInv /\ HelperInv /\ \A a \in Apps : AppInv(a)
  BY DEF DeviceInv
<1>1. ASSUME NEW a \in Apps, Exit(a) PROVE DeviceInv'
  <2>1. /\ pc'[a] = "idle" /\ raw'[a] = None /\ session'[a] = None
        /\ pc' \in [Apps -> Pcs] /\ forced' \in [Apps -> BOOLEAN]
        /\ \A b \in Apps \ {a} : pc'[b] = pc[b] /\ forced'[b] = forced[b]
    BY <1>0, <1>1 DEF Exit, CallEnds, StoreInv, Pcs
  <2>2. AppInv(a)'
    BY <2>1 DEF AppInv, LockInv, RawInv, SessionInv, Prepared
  <2>. QED
    BY <1>0, <1>1, <2>1, <2>2, LocalStep DEF Exit, CallEnds, StoreInv, storeVars
<1>2. ASSUME NEW s \in Drifting, Drift(s) PROVE DeviceInv'
  <2>1. hardware' \in [Signals -> Values \cup {Absent}]
    BY <1>0, <1>2 DEF Drift, StoreInv
  <2>2. UNCHANGED <<storeVars, lock, pc, raw, forced, session, writes, secrets, enrolled, replaced,
                   deleted>>
    BY <1>2 DEF Drift
  <2>. QED
    BY <1>0, <2>1, <2>2
    DEF DeviceInv, StoreInv, HelperInv, AppInv, LockInv, RawInv, SessionInv, Prepared, storeVars
<1>3. CASE DeleteSecret
  <2>1. /\ slstore' = None /\ deleted' = TRUE
        /\ UNCHANGED <<hardware, helper, lock, pc, raw, forced, session, writes, secrets, enrolled,
                       replaced>>
    BY <1>3 DEF DeleteSecret
  <2>2. StoreInv' /\ HelperInv'
    BY <1>0, <2>1 DEF StoreInv, HelperInv
  <2>3. ASSUME NEW b \in Apps PROVE AppInv(b)'
    BY <1>0, <2>1 DEF AppInv, LockInv, RawInv, SessionInv, Prepared
  <2>. QED
    BY <2>2, <2>3 DEF DeviceInv
<1>. QED
  BY <1>1, <1>2, <1>3

\* Every step preserves the invariant.
LEMMA DeviceNext == IdentityInv /\ IdentityInv' /\ DeviceInv /\ [Next]_vars => DeviceInv'
<1> SUFFICES ASSUME IdentityInv, IdentityInv', DeviceInv, [Next]_vars PROVE DeviceInv'
  OBVIOUS
<1>1. CASE UNCHANGED vars
  BY <1>1 DEF DeviceInv, StoreInv, HelperInv, AppInv, LockInv, RawInv, SessionInv, Prepared, vars,
    storeVars, historyVars
<1>2. CASE Next
  BY <1>2, DevicePrepares, DeviceCommits, DeviceEnvironment DEF Next
<1>. QED
  BY <1>1, <1>2

LEMMA DeviceInvariant == Spec => [](IdentityInv /\ DeviceInv)
  BY IdentityInit, IdentityNext, DeviceInit, DeviceNext, PTL DEF Spec

\* The helper, the sessions and the collected signals have their types, in
\* particular a key, the hard lock on the stored secret, and no half-built session:
\* whatever _prepare_locked and commit() do, in whatever order.
THEOREM DeviceTypeCorrect == Spec => []TypeOK
<1>1. DeviceInv => TypeOK
  <2> SUFFICES ASSUME DeviceInv PROVE TypeOK
    OBVIOUS
  <2>1. StoreInv
    BY DEF DeviceInv
  <2>2. helper # None => IsHelper(helper)
    BY DEF DeviceInv, HelperInv, IsStored, HelpersOver, IsHelper
  <2>3. ASSUME NEW a \in Apps
        PROVE  /\ pc[a] \in {"prepare", "prepare_locked", "enroll"} <=> raw[a] # None
               /\ IF pc[a] \in {"ready", "commit_locked"}
                  THEN session[a] # None /\ IsSession(session[a]) ELSE session[a] = None
    <3>1. RawInv(a) /\ SessionInv(a)
      BY DEF DeviceInv, AppInv
    <3>2. pc[a] \in {"prepare", "prepare_locked", "enroll"} <=> raw[a] # None
      BY <3>1, Sentinels DEF RawInv
    <3>3. ASSUME IsPrepared(session[a]) PROVE session[a] # None /\ IsSession(session[a])
      <4>1. session[a] # None
        BY <3>3, Sentinels
      <4>2. session[a] \in SessionsOver(DOMAIN session[a].factors) /\ SlStore \in session[a].mandatory
        BY <3>3 DEF IsPrepared
      <4>3. /\ session[a].hwid \in Keys /\ session[a].key \in Keys \cup {None}
            /\ session[a].expected \in Keys
        BY <4>2 DEF SessionsOver
      <4>4. session[a].fresh \in BOOLEAN
        BY <4>2, Zenon DEF SessionsOver
      <4>. QED
        BY <4>1, <4>2, <4>3, <4>4 DEF IsSession
    <3>. QED
      BY <3>1, <3>2, <3>3 DEF SessionInv, Prepared
  <2>. QED
    BY <2>1, <2>2, <2>3 DEF StoreInv, TypeOK
<1>. QED
  BY <1>1, DeviceInvariant, PTL

\* "they report the same HWID on the same device": two applications that hold a
\* session agree, whoever of them enrolled, unless somebody forced a new enrollment.
THEOREM AppsReportOneHwid == Spec => []SessionsAgree
<1>1. DeviceInv => SessionsAgree
  <2> SUFFICES ASSUME DeviceInv, ~replaced, NEW a \in Apps, NEW b \in Apps,
                      session[a] # None, session[b] # None
               PROVE  session[a].hwid = session[b].hwid
    BY DEF SessionsAgree
  <2>1. session[a].hwid = enrolled /\ session[b].hwid = enrolled
    BY DEF DeviceInv, AppInv, SessionInv
  <2>. QED
    BY <2>1
<1>. QED
  BY <1>1, DeviceInvariant, PTL

\* A helper needs the secret that is stored, unless somebody deleted that: the
\* secret is written before the helper it is enrolled in, whoever crashes in between.
THEOREM HelperNeedsStoredSecret == Spec => []HelperMatchesSecret
<1>1. DeviceInv => HelperMatchesSecret
  BY DEF DeviceInv, HelperInv, HelperMatchesSecret
<1>. QED
  BY <1>1, DeviceInvariant, PTL

\* What is in the store is finite, and so is what an application knows.
LEMMA StoredIsFinite == ASSUME IsStored(helper) PROVE IsFiniteSet(DOMAIN helper.enrolled)
<1>1. IsFiniteSet(Names)
  BY DeviceAssumption, FS_AddElement DEF Names
<1>. QED
  BY <1>1, FS_Subset DEF IsStored

\* What prepare() recovers from has the stored secret as a factor, if there is one.
LEMMA KnownSecret ==
  ASSUME DeviceInv, NEW a \in Apps, Recovering(a)
  PROVE  LET f == Project(Known(a), helper.version)
         IN  SlStore \in DOMAIN f => f[SlStore] = SecretFactor(slstore)
<1>1. /\ DOMAIN raw[a] \subseteq Names /\ raw[a] \in SignalsOver(DOMAIN raw[a])
      /\ SlStore \notin DOMAIN raw[a] /\ slstore \in Secrets \cup {None}
  BY DEF DeviceInv, StoreInv, AppInv, RawInv, Recovering
<1>2. /\ DOMAIN Known(a) \subseteq Names /\ Known(a) \in SignalsOver(DOMAIN Known(a))
      /\ SlStore \in DOMAIN Known(a) => Known(a)[SlStore] = slstore
  BY <1>1, WithSecret DEF Known
<1>3. helper.version \in {LEGACY_NORM_VERSION, CURRENT_NORM_VERSION}
  BY DEF DeviceInv, HelperInv, IsStored, HelpersOver, Recovering
<1>. QED
  BY <1>2, <1>3, ProjectFactors

\* "changing or deleting it always requires re-activation": no application gets a
\* session back from a helper whose secret is not the stored one.
THEOREM SecretIsAlwaysHardLock == Spec => SecretIsHardLock
<1>1. DeviceInv /\ [Next]_vars =>
        [\A a \in Apps : session[a] = None /\ session'[a] # None /\ ~session'[a].fresh
           => helper.enrolled[SlStore] = SecretFactor(slstore)]_vars
  <2> SUFFICES ASSUME DeviceInv, Next, NEW a \in Apps, session[a] = None, session'[a] # None,
                      ~session'[a].fresh
               PROVE  helper.enrolled[SlStore] = SecretFactor(slstore)
    OBVIOUS
  <2>0. DOMAIN session = Apps
    BY DEF DeviceInv, StoreInv
  <2>1. PrepareRecovers(a)
    <3>1. PICK b \in Apps : PrepareRecovers(b) \/ EnrollHelper(b) \/ Commits(b) \/ Exit(b)
      BY DEF Next, Prepares, Collect, Enter, EnterFails, PrepareFails, EnrollSecret, EnrollFails,
        Drift, DeleteSecret
    <3>2. ~EnrollHelper(a)
      <4>. SUFFICES ASSUME EnrollHelper(a) PROVE session'[a].fresh
        OBVIOUS
      <4>1. session'[a] = [hwid |-> writes', key |-> writes', fresh |-> TRUE,
                           factors |-> EnrollFactors(a), mandatory |-> EnrollMandatory(a),
                           expected |-> writes']
        BY <2>0 DEF EnrollHelper
      <4>. QED
        BY <4>1
    <3>3. ~Commits(a)
      <4>1. ~Prepared(a)
        BY Sentinels DEF DeviceInv, AppInv, SessionInv
      <4>. QED
        BY <4>1 DEF Commits, CommitEnter, CommitFails, CommitSkips, CommitRefreshes, Goto, Prepared
    <3>. QED
      BY <2>0, <3>1, <3>2, <3>3 DEF PrepareRecovers, EnrollHelper, Exit, Commits, CommitEnter,
        CommitFails, CommitSkips, CommitRefreshes, Forget
  <2> DEFINE f == Project(Known(a), helper.version)
  <2>2. Recovering(a) /\ Recover(helper, f).ok
    BY <2>1 DEF PrepareRecovers, Recovery
  <2>3. IsStored(helper)
    BY <2>2 DEF DeviceInv, HelperInv, Recovering
  <2>4. Survives(helper, f)
    <3>1. Parses(helper)
      BY <2>2 DEF Recover
    <3>. QED
      BY <2>2, <2>3, <3>1, StoredIsFinite, RecoverTellsExactly
  <2>5. SlStore \in DOMAIN f /\ f[SlStore] = helper.enrolled[SlStore]
    BY <2>3, <2>4 DEF IsStored, Survives, OnCurve
  <2>. QED
    BY <2>2, <2>5, KnownSecret
<1>. QED
  BY <1>1, DeviceInvariant, PTL DEF Spec, SecretIsHardLock

\* recover_core tells exactly what the shares allow of every helper that the
\* applications write, for every set of signals and every hardware: it recovers if
\* and only if the hard locks and enough slots match, and blames a hard lock rightly.
THEOREM AppsRecoverExactly == ASSUME MinimumFactors >= 8 PROVE Spec => []RecoversExactly
<1>1. IdentityInv /\ DeviceInv => RecoversExactly
  <2> SUFFICES ASSUME IdentityInv, DeviceInv, helper # None PROVE Parses(helper)
    <3>1. ASSUME IdentityInv, DeviceInv, helper # None, Parses(helper) PROVE RecoversExactly
      <4>1. IsFiniteSet(DOMAIN helper.enrolled)
        BY <3>1, StoredIsFinite DEF DeviceInv, HelperInv
      <4>. QED
        BY <3>1, <4>1, RecoverTellsExactly DEF RecoversExactly
    <3>. QED
      BY <3>1 DEF RecoversExactly, Recovering
  <2> DEFINE n == Cardinality(DOMAIN helper.enrolled)
             m == Cardinality(helper.mandatory)
  <2>1. IsStored(helper) /\ Shared(helper)
    BY DEF DeviceInv, HelperInv, IdentityInv, HelperOK
  <2>2. n \in Nat /\ m \in Nat /\ CanShare(n, m) /\ helper.threshold = Threshold(n, m)
    BY <2>1 DEF Shared
  <2>3. m < Threshold(n, m) /\ Threshold(n, m) <= n /\ Threshold(n, m) \in Nat
    BY <2>2, ThresholdInRange, ThresholdType
  <2>4. m # 0
    <3>1. IsFiniteSet(helper.mandatory) /\ helper.mandatory # {}
      BY <2>1, StoredIsFinite, FS_Subset DEF IsStored
    <3>. QED
      BY <3>1, FS_EmptySet
  <2>5. helper.version \in {LEGACY_NORM_VERSION, CURRENT_NORM_VERSION}
    BY <2>1 DEF IsStored, HelpersOver
  <2>6. n > 0 /\ helper.threshold \in 1 .. n /\ m \in 1 .. helper.threshold - 1
    <3>. HIDE DEF n, m
    <3>. QED
      BY <2>2, <2>3, <2>4
  <2>. QED
    BY <2>1, <2>5, <2>6 DEF Parses, IsStored
<1>. QED
  BY <1>1, DeviceInvariant, PTL
=============================================================================
