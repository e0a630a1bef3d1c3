--------------------------- MODULE DeviceIdentity ---------------------------
(***************************************************************************)
(* The life of a device's SL-HWID (slhwid/__init__.py): the applications   *)
(* of one user share a stored secret (slstore) and a helper, prepare a     *)
(* session from them at start-up, and re-centre the helper on the observed *)
(* hardware when the server has accepted the HWID.  Hardware drifts,       *)
(* processes crash, somebody deletes the stored secret.                    *)
(*                                                                         *)
(* The store lock is the mutex that module ProcessLock is about; files are *)
(* replaced atomically; the key of an enrollment stands for the HWID,      *)
(* which is its hash.                                                      *)
(***************************************************************************)
EXTENDS SecretSharing

CONSTANTS
  Apps,            \* processes that use the store
  ExtraMandatory,  \* app -> Options.extra_mandatory
  Forcing,         \* apps that may prepare with force_reenroll
  Drifting,        \* signals whose value may change
  Sources,         \* sets of signals that one query of the collectors reports
  Values, Absent,  \* of a signal
  LegacyMandatory, \* hard locks of the v1 helper that may be found at first
  Nobody, None,
  MaxDrifts, MaxWrites, MaxSecrets  \* bounds: changes of hardware, helpers and secrets written

ASSUME DeviceAssumption ==
  /\ ExtraMandatory \in [Apps -> SUBSET Signals] /\ Forcing \subseteq Apps
  /\ Drifting \subseteq Signals /\ Sources \subseteq SUBSET Signals
  /\ IsFiniteSet(Signals)
  /\ Values # {} /\ Absent \notin Values /\ Nobody \notin Apps
  /\ MaxDrifts \in Nat /\ {MaxWrites, MaxSecrets} \subseteq Nat \ {0}

VARIABLES
  hardware,   \* what the collectors would report now
  slstore, helper, lock,      \* the store
  pc,
  raw,        \* app -> the normalized signals it collected
  forced,     \* app -> Options.force_reenroll of the call
  session,    \* app -> its prepared Session
  \* history
  drifts, writes, secrets,    \* counters of the bounds
  enrolled,   \* the key of the latest enrollment
  replaced,   \* a forced enrollment has replaced a helper
  deleted     \* the stored secret was deleted by hand

storeVars   == <<slstore, helper>>
historyVars == <<drifts, writes, secrets, enrolled, replaced, deleted>>
vars == <<hardware, storeVars, lock, pc, raw, forced, session, historyVars>>

Pcs == {"idle", "prepare", "prepare_locked", "enroll", "ready", "commit_locked"}

Collected == {s \in Signals : hardware[s] # Absent}

\* The collected signals together with the stored secret, if there is one.
With(secret, signals) ==
  IF secret = None THEN signals
  ELSE [s \in DOMAIN signals \cup {SlStore} |-> IF s = SlStore THEN secret ELSE signals[s]]

\* The helper a previous version of the library left, on the hardware of today.
LegacyFactors(hw) ==
  Project(With(1, [s \in {x \in Signals : hw[x] # Absent} |-> hw[s]]), LEGACY_NORM_VERSION)
LegacyLocks == LegacyMandatory \cup {SlStore}
LegacyHelper(hw) ==
  [NewHelper(1, LegacyFactors(hw), LegacyLocks, 1) EXCEPT !.version = LEGACY_NORM_VERSION]

Init ==
  /\ hardware = [s \in Signals |->
                   IF s \in CurrentSignals \cup LegacySignals THEN CHOOSE v \in Values : TRUE
                   ELSE Absent]
  /\ \/ slstore = None /\ helper = None /\ enrolled = None /\ secrets = 0 /\ writes = 0
     \/ /\ CanEnroll(LegacyFactors(hardware), LegacyLocks)
        /\ slstore = 1 /\ helper = LegacyHelper(hardware) /\ enrolled = 1 /\ secrets = 1 /\ writes = 1
  /\ lock = Nobody
  /\ pc = [a \in Apps |-> "idle"]
  /\ raw = [a \in Apps |-> None]
  /\ forced = [a \in Apps |-> FALSE]
  /\ session = [a \in Apps |-> None]
  /\ drifts = 0 /\ replaced = FALSE /\ deleted = FALSE

Goto(a, from, to) == pc[a] = from /\ pc' = [pc EXCEPT ![a] = to]

\* `with _store_lock(store)`
LockStore(a)   == lock = Nobody /\ lock' = a
UnlockStore(a) == lock = a /\ lock' = Nobody

-----------------------------------------------------------------------------
(* _prepare_with: the factors are collected before the lock is taken       *)

\* prepare() returns or raises.
CallEnds(a) ==
  /\ raw' = [raw EXCEPT ![a] = None]
  /\ forced' = [forced EXCEPT ![a] = FALSE]

\* A query fails or times out: "a missing source just leaves the slot absent".
Observed(failed) == [s \in Collected \ failed |-> hardware[s]]

Collect(a) ==
  /\ Goto(a, "idle", "prepare")
  /\ \E failed \in Sources \cup {{}} : raw' = [raw EXCEPT ![a] = Observed(failed)]
  /\ \E f \in (IF a \in Forcing THEN BOOLEAN ELSE {FALSE}) : forced' = [forced EXCEPT ![a] = f]
  /\ UNCHANGED <<hardware, storeVars, lock, session, historyVars>>

Enter(a) ==
  /\ Goto(a, "prepare", "prepare_locked")
  /\ LockStore(a)
  /\ UNCHANGED <<hardware, storeVars, raw, forced, session, historyVars>>

\* The lock cannot be had: prepare() raises.
EnterFails(a) ==
  /\ Goto(a, "prepare", "idle")
  /\ CallEnds(a)
  /\ UNCHANGED <<hardware, storeVars, lock, session, historyVars>>

-----------------------------------------------------------------------------
(* _prepare_locked, where a helper is found                                *)

Known(a) == With(slstore, raw[a])

Recovery(a) == Recover(helper, Project(Known(a), helper.version))

Recovering(a) == pc[a] = "prepare_locked" /\ helper # None /\ ~forced[a]

\* Mutant: those this application asks for.
RequestedLocks(a) == MapMandatory(ExtraMandatory[a] \cup {SlStore})

\* The hard locks of the session are those of the helper, whatever this
\* application asks for.
KeptLocks(a) == MapMandatory(helper.mandatory)

PrepareRecovers(a) ==
  /\ Recovering(a) /\ Goto(a, "prepare_locked", "ready")
  /\ Recovery(a).ok
  /\ session' = [session EXCEPT ![a] =
       [hwid |-> helper.key, key |-> helper.key, fresh |-> FALSE,
        factors |-> Project(Known(a), CURRENT_NORM_VERSION),
        mandatory |-> KeptLocks(a), expected |-> helper.blob]]
  /\ CallEnds(a)
  /\ UnlockStore(a)
  /\ UNCHANGED <<hardware, storeVars, historyVars>>

\* DriftError
PrepareFails(a) ==
  /\ Recovering(a) /\ Goto(a, "prepare_locked", "idle")
  /\ ~Recovery(a).ok
  /\ CallEnds(a)
  /\ UnlockStore(a)
  /\ UNCHANGED <<hardware, storeVars, session, historyVars>>

-----------------------------------------------------------------------------
(* _prepare_locked, enrollment                                             *)

\* Mutant: every enrollment draws a secret of its own.
EnrollNewSecret(a) ==
  /\ helper = None \/ forced[a]
  /\ Goto(a, "prepare_locked", "enroll")
  /\ secrets < MaxSecrets /\ secrets' = secrets + 1 /\ slstore' = secrets + 1
  /\ raw' = [raw EXCEPT ![a] = With(slstore', @)]
  /\ UNCHANGED <<hardware, helper, lock, forced, session, drifts, writes, enrolled, replaced,
                 deleted>>

\* Mutant: a helper that the hardware has drifted away from is enrolled over.
EnrollOnDrift(a) ==
  /\ Goto(a, "prepare_locked", "enroll")
  /\ helper # None => forced[a] \/ ~Recovery(a).ok
  /\ IF slstore # None THEN UNCHANGED <<slstore, secrets>>
     ELSE secrets < MaxSecrets /\ secrets' = secrets + 1 /\ slstore' = secrets + 1
  /\ raw' = [raw EXCEPT ![a] = With(slstore', @)]
  /\ UNCHANGED <<hardware, helper, lock, forced, session, drifts, writes, enrolled, replaced,
                 deleted>>

\* _ensure_slstore
EnrollSecret(a) ==
  /\ helper = None \/ forced[a]
  /\ Goto(a, "prepare_locked", "enroll")
  /\ IF slstore # None THEN UNCHANGED <<slstore, secrets>>
     ELSE secrets < MaxSecrets /\ secrets' = secrets + 1 /\ slstore' = secrets + 1
  /\ raw' = [raw EXCEPT ![a] = With(slstore', @)]
  /\ UNCHANGED <<hardware, helper, lock, forced, session, drifts, writes, enrolled, replaced,
                 deleted>>

EnrollFactors(a)   == Project(raw[a], CURRENT_NORM_VERSION)
EnrollMandatory(a) == MapMandatory(ExtraMandatory[a] \cup {SlStore})

EnrollHelper(a) ==
  /\ Goto(a, "enroll", "ready")
  /\ CanEnroll(EnrollFactors(a), EnrollMandatory(a))
  /\ writes < MaxWrites /\ writes' = writes + 1
  /\ helper' = NewHelper(writes', EnrollFactors(a), EnrollMandatory(a), writes')
  /\ enrolled' = writes'
  /\ replaced' = (replaced \/ forced[a])
  /\ session' = [session EXCEPT ![a] =
       [hwid |-> writes', key |-> writes', fresh |-> TRUE, factors |-> EnrollFactors(a),
        mandatory |-> EnrollMandatory(a), expected |-> writes']]
  /\ CallEnds(a)
  /\ UnlockStore(a)
  /\ UNCHANGED <<hardware, slstore, drifts, secrets, deleted>>

\* A mandatory factor is not available, there are too few factors, or the
\* helper cannot be written: the secret stays, prepare() raises.
EnrollFails(a) ==
  /\ Goto(a, "enroll", "idle")
  /\ CallEnds(a)
  /\ UnlockStore(a)
  /\ UNCHANGED <<hardware, storeVars, session, historyVars>>

-----------------------------------------------------------------------------
(* Session.commit, once the server has accepted the HWID                   *)

\* Mutant: the session is dropped with its key.
ForgetsSession(a) == session' = [session EXCEPT ![a] = None]

Forget(a) == session' = [session EXCEPT ![a].key = None]

\* `_committed` and a missing key both stop a second commit.
CommitEnter(a) ==
  /\ Goto(a, "ready", "commit_locked")
  /\ session[a].key # None
  /\ LockStore(a)
  /\ UNCHANGED <<hardware, storeVars, raw, forced, session, historyVars>>

\* OSError: the lock cannot be had.  "The next launch re-derives."
CommitFails(a) ==
  /\ pc[a] = "ready" /\ session[a].key # None
  /\ Forget(a)
  /\ UNCHANGED <<hardware, storeVars, lock, pc, raw, forced, historyVars>>

\* Mutant: the helper found is not compared with the one prepared from.
AnyHelper(a) == helper # None

\* The helper is still the one this session was prepared from.
SameHelper(a) == helper # None /\ helper.blob = session[a].expected

\* Another application refreshed or re-enrolled, or refresh_core declines, or
\* the write fails.
CommitSkips(a) ==
  /\ Goto(a, "commit_locked", "ready")
  /\ UnlockStore(a)
  /\ Forget(a)
  /\ UNCHANGED <<hardware, storeVars, raw, forced, historyVars>>

CommitRefreshes(a) ==
  /\ Goto(a, "commit_locked", "ready")
  /\ SameHelper(a)
  /\ CanEnroll(session[a].factors, session[a].mandatory)
  /\ writes < MaxWrites /\ writes' = writes + 1
  /\ helper' = NewHelper(session[a].key, session[a].factors, session[a].mandatory, writes')
  /\ UnlockStore(a)
  /\ Forget(a)
  /\ UNCHANGED <<hardware, slstore, raw, forced, drifts, secrets, enrolled, replaced, deleted>>

-----------------------------------------------------------------------------
(* The environment                                                         *)

\* The application ends or dies, at any point; a lock it held is recovered.
Exit(a) ==
  /\ pc[a] # "idle"
  /\ pc' = [pc EXCEPT ![a] = "idle"]
  /\ CallEnds(a)
  /\ session' = [session EXCEPT ![a] = None]
  /\ lock' = IF lock = a THEN Nobody ELSE lock
  /\ UNCHANGED <<hardware, storeVars, historyVars>>

Drift(s) ==
  /\ drifts < MaxDrifts /\ drifts' = drifts + 1
  /\ \E v \in (Values \cup {Absent}) \ {hardware[s]} : hardware' = [hardware EXCEPT ![s] = v]
  /\ UNCHANGED <<storeVars, lock, pc, raw, forced, session, writes, secrets, enrolled, replaced, deleted>>

DeleteSecret ==
  /\ slstore # None /\ ~deleted
  /\ slstore' = None /\ deleted' = TRUE
  /\ UNCHANGED <<hardware, helper, lock, pc, raw, forced, session, drifts, writes, secrets, enrolled,
                 replaced>>

Prepares(a) ==
  \/ Collect(a) \/ Enter(a) \/ EnterFails(a) \/ PrepareRecovers(a) \/ PrepareFails(a)
  \/ EnrollSecret(a) \/ EnrollHelper(a) \/ EnrollFails(a)
Commits(a) ==
  \/ CommitEnter(a) \/ CommitFails(a) \/ CommitSkips(a) \/ CommitRefreshes(a)

Next ==
  \/ \E a \in Apps : Prepares(a) \/ Commits(a) \/ Exit(a)
  \/ \E s \in Drifting : Drift(s)
  \/ DeleteSecret

Spec == Init /\ [][Next]_vars

-----------------------------------------------------------------------------
(* Properties                                                              *)

Keys    == 1 .. MaxWrites
Secrets == 1 .. MaxSecrets

\* The signals, the factors, the helpers and the sessions over a set of names.
Names == Signals \cup {SlStore}

SignalsOver(S) == [S -> Values \cup Secrets]
FactorsOver(S) == [S -> UNION {SignalsOver(M) : M \in SUBSET Names}]
HelpersOver(S) ==
  [key : Keys, enrolled : FactorsOver(S), mandatory : SUBSET Names, threshold : Nat,
   version : {LEGACY_NORM_VERSION, CURRENT_NORM_VERSION}, blob : Keys]
SessionsOver(S) ==
  [hwid : Keys, key : Keys \cup {None}, fresh : BOOLEAN, factors : FactorsOver(S),
   mandatory : SUBSET Names, expected : Keys]

\* A sentinel is none of the values it stands in for.
ASSUME SentinelAssumption ==
  /\ None \notin Nat
  /\ \A S \in SUBSET Names :
       None \notin SignalsOver(S) /\ None \notin HelpersOver(S) /\ None \notin SessionsOver(S)

IsHelper(h) ==
  /\ h.key \in Keys /\ h.blob \in Keys /\ h.threshold \in Nat
  /\ SlStore \in h.mandatory /\ h.mandatory \subseteq DOMAIN h.enrolled
  /\ h.version \in {LEGACY_NORM_VERSION, CURRENT_NORM_VERSION}

IsSession(x) ==
  /\ x.hwid \in Keys /\ x.key \in Keys \cup {None} /\ x.expected \in Keys
  /\ x.fresh \in BOOLEAN /\ SlStore \in x.mandatory

TypeOK ==
  /\ hardware \in [Signals -> Values \cup {Absent}]
  /\ slstore \in Secrets \cup {None}
  /\ helper # None => IsHelper(helper)
  /\ lock \in Apps \cup {Nobody}
  /\ pc \in [Apps -> Pcs] /\ forced \in [Apps -> BOOLEAN]
  /\ \A a \in Apps :
       /\ pc[a] \in {"prepare", "prepare_locked", "enroll"} <=> raw[a] # None
       /\ IF pc[a] \in {"ready", "commit_locked"} THEN session[a] # None /\ IsSession(session[a])
          ELSE session[a] = None
  /\ enrolled \in Keys \cup {None} /\ {replaced, deleted} \subseteq BOOLEAN

\* The factor that a stored secret becomes.
SecretFactor(secret) == [x \in {SlStore} |-> secret]

\* The helper always hides the key of the latest enrollment: a commit, however
\* late, brings no older identity back ("Do not restore a stale snapshot").
OneIdentity == helper # None => helper.key = enrolled

\* "they report the same HWID on the same device": also when several first
\* launches race, and whatever drifts, unless somebody forced a re-enrollment.
SessionsAgree ==
  ~replaced => \A a, b \in Apps :
    session[a] # None /\ session[b] # None => session[a].hwid = session[b].hwid

\* Wherever enrollments crash or fail, a helper never needs another secret than
\* the stored one, unless somebody deleted that.
HelperMatchesSecret ==
  helper # None /\ ~deleted =>
    slstore # None /\ helper.enrolled[SlStore] = SecretFactor(slstore)

\* "A hard lock chosen when the shared device state is enrolled cannot be
\* weakened by another application", nor by migrating a v1 helper.
HardLocksKept ==
  [][helper # None /\ helper' # helper /\ enrolled' = enrolled
       => MapMandatory(helper.mandatory) \subseteq helper'.mandatory]_vars

\* "changing or deleting it always requires re-activation": with another stored
\* secret than the enrolled one, no application gets the HWID back.
SecretIsHardLock ==
  [][\A a \in Apps :
       session[a] = None /\ session'[a] # None /\ ~session'[a].fresh
         => helper.enrolled[SlStore] = SecretFactor(slstore)]_vars

\* recover_core tells what the shares allow: it recovers exactly when the hard
\* locks and enough slots match, it calls those live, and it blames a hard lock
\* exactly when one is missing or one changed and the others would do.
RecoversExactly ==
  \A a \in Apps :
    Recovering(a) =>
      LET factors == Project(Known(a), helper.version)
          matching == {x \in DOMAIN helper.enrolled \cap DOMAIN factors :
                         factors[x] = helper.enrolled[x]}
          changed == helper.mandatory \ matching
          verdict == Recover(helper, factors)
      IN /\ verdict.ok <=> Survives(helper, factors)
         /\ verdict.ok => verdict.live = matching
         /\ ~verdict.ok =>
              (verdict.reason = "mandatory" <=>
                 \/ ~(helper.mandatory \subseteq DOMAIN factors)
                 \/ Cardinality(changed) = 1 /\ Cardinality(matching) >= helper.threshold)

\* "any two can fail or change without changing the HWID", as long as at least
\* three enrolled slots are no hard locks.
TwoMayFail ==
  helper # None /\ Cardinality(helper.mandatory) + 3 <= Cardinality(DOMAIN helper.enrolled)
    => helper.threshold + 2 <= Cardinality(DOMAIN helper.enrolled)
=============================================================================
