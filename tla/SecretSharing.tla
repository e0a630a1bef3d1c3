---------------------------- MODULE SecretSharing ----------------------------
(***************************************************************************)
(* slhwid/core.py: factor projection, sharing and recovery of the key.     *)
(*                                                                         *)
(* Shamir's scheme over GF(2^61-1) is ideal here: the share of a slot lies *)
(* on the curve exactly when the slot has the value it was enrolled with,  *)
(* and a set of points yields the key exactly when all of them lie on it.  *)
(* What the code does with points is kept: which subsets it tries, what it *)
(* reports when none works, which slots it calls live.                     *)
(***************************************************************************)
EXTENDS Naturals, FiniteSets

CONSTANTS
  Signals,         \* what the collectors may report, and the group names
  GroupName,       \* signal -> the current factor it is, or is a member of
  CurrentSignals,  \* signals of the current schema
  LegacySignals,   \* signals of the frozen v1 schema
  MinimumFactors   \* MINIMUM_FACTORS: 8

LEGACY_NORM_VERSION  == 1
CURRENT_NORM_VERSION == 2

\* The factor that is no hardware: a secret in the store itself.
SlStore == "slstore"

ASSUME SharingAssumption ==
  /\ MinimumFactors \in Nat \ {0}
  /\ SlStore \notin Signals
  /\ GroupName \in [Signals -> Signals]
  /\ \A s \in Signals : GroupName[GroupName[s]] = GroupName[s]
  /\ CurrentSignals \cup LegacySignals \subseteq Signals

-----------------------------------------------------------------------------
(* threshold                                                               *)

\* threshold() raises unless
CanShare(n, m) == n >= MinimumFactors /\ m < n

\* Mutant: four fifths, whatever the number of slots.
ThresholdOfFew(n, m) ==
  LET share == (4 * n + 4) \div 5 IN IF share > m + 1 THEN share ELSE m + 1

Threshold(n, m) ==
  LET share == IF n < 8 THEN (4 * n + 4) \div 5 ELSE (7 * n + 9) \div 10
      capped == IF share < n THEN share ELSE n
  IN IF capped > m + 1 THEN capped ELSE m + 1

-----------------------------------------------------------------------------
(* project_factors                                                         *)

CurrentName(name) == IF name \in Signals THEN GroupName[name] ELSE name

MapMandatory(names) == {CurrentName(x) : x \in names}

\* A v1 slot is one signal; a v2 slot is a signal or a group of them, whose
\* value tells every present member and which members are absent.
Members(name, version, raw) ==
  IF version = LEGACY_NORM_VERSION
  THEN {s \in DOMAIN raw : s = name /\ s \in LegacySignals \cup {SlStore}}
  ELSE {s \in DOMAIN raw : CurrentName(s) = name /\ s \in CurrentSignals \cup {SlStore}}

Project(raw, version) ==
  LET names == {x \in Signals \cup {SlStore} : Members(x, version, raw) # {}}
  IN [x \in names |-> [s \in Members(x, version, raw) |-> raw[s]]]

-----------------------------------------------------------------------------
(* A helper is what build_shares and serialize_helper leave in the store:  *)
(*   key        hidden by the shares, told by the check word,              *)
(*   enrolled   slot -> value its share was computed for,                  *)
(*   mandatory  the hard-locked slots,                                     *)
(*   threshold, version,                                                   *)
(*   blob       a number no two written helpers share: every sharing draws *)
(*              new coefficients.                                          *)

NewHelper(key, factors, mandatory, blob) ==
  [key |-> key, enrolled |-> factors, mandatory |-> mandatory,
   threshold |-> Threshold(Cardinality(DOMAIN factors), Cardinality(mandatory)),
   version |-> CURRENT_NORM_VERSION, blob |-> blob]

\* refresh_core writes, and enrollment goes through, only if
CanEnroll(factors, mandatory) ==
  /\ mandatory \subseteq DOMAIN factors
  /\ CanShare(Cardinality(DOMAIN factors), Cardinality(mandatory))

-----------------------------------------------------------------------------
(* recover_core                                                            *)

OnCurve(h, factors, slot) == factors[slot] = h.enrolled[slot]

\* _find_recovering_subset: the subsets of size threshold that hold every
\* mandatory point and whose key passes the check word.
RecoveringSubsets(h, factors, mandatory, optional) ==
  LET need == IF h.threshold > Cardinality(mandatory)
              THEN h.threshold - Cardinality(mandatory) ELSE 0
  IN {mandatory \cup combo : combo \in
        {c \in SUBSET optional :
           /\ Cardinality(c) = need
           /\ \A x \in mandatory \cup c : OnCurve(h, factors, x)}}

\* The slots a helper of this schema may have.
Allowed(version) ==
  {SlStore} \cup (IF version = LEGACY_NORM_VERSION THEN LegacySignals
                 ELSE {GroupName[s] : s \in CurrentSignals})

\* parse_helper accepts the helper (what it says of bytes is left out).
Parses(h) ==
  LET n == Cardinality(DOMAIN h.enrolled)
      m == Cardinality(h.mandatory)
  IN /\ h.version \in {LEGACY_NORM_VERSION, CURRENT_NORM_VERSION}
     /\ n > 0 /\ DOMAIN h.enrolled \subseteq Allowed(h.version)
     /\ h.threshold \in 1 .. n /\ m \in 1 .. h.threshold - 1
     /\ SlStore \in h.mandatory /\ h.mandatory \subseteq DOMAIN h.enrolled

\* Mutant: a changed mandatory slot is taken for an optional one.
RecoverSoftly(h, factors) ==
  LET present == DOMAIN h.enrolled \cap DOMAIN factors
      live == {x \in present : OnCurve(h, factors, x)}
  IN IF RecoveringSubsets(h, factors, {}, present) # {}
     THEN [ok |-> TRUE, reason |-> "", live |-> live, dead |-> DOMAIN h.enrolled \ live]
     ELSE [ok |-> FALSE, reason |-> "drift", live |-> {}, dead |-> {}]

Recover(h, factors) ==
  LET present   == DOMAIN h.enrolled \cap DOMAIN factors
      mandatory == present \cap h.mandatory
      optional  == present \ h.mandatory
      culprits  == {x \in h.mandatory :
                      RecoveringSubsets(h, factors, mandatory \ {x}, optional) # {}}
      live      == {x \in present : OnCurve(h, factors, x)}
      failed(why) == [ok |-> FALSE, reason |-> why, live |-> {}, dead |-> {}]
  IN IF ~Parses(h) THEN failed("corrupt")
     ELSE IF ~(h.mandatory \subseteq DOMAIN factors) THEN failed("mandatory")
     ELSE IF RecoveringSubsets(h, factors, mandatory, optional) # {}
     THEN [ok |-> TRUE, reason |-> "", live |-> live, dead |-> DOMAIN h.enrolled \ live]
     ELSE IF culprits # {} THEN failed("mandatory")
     ELSE failed("drift")

-----------------------------------------------------------------------------
(* What recovery promises: "any two can fail or change", unless they are   *)
(* hard-locked.                                                            *)

Survives(h, factors) ==
  LET matching == {x \in DOMAIN h.enrolled \cap DOMAIN factors : OnCurve(h, factors, x)}
  IN h.mandatory \subseteq matching /\ Cardinality(matching) >= h.threshold
=============================================================================
