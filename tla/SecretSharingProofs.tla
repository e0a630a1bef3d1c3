------------------------- MODULE SecretSharingProofs -------------------------
(* The threshold policy of slhwid/core.py, for every number of slots.       *)
EXTENDS SecretSharing, FiniteSetTheorems, TLAPS

\* The share before the clamps, for the numbers of slots that threshold()
\* accepts with MINIMUM_FACTORS at eight or more.
LEMMA ShareBounds ==
  ASSUME NEW n \in Nat, n >= 8
  PROVE  /\ (7 * n + 9) \div 10 \in Nat
         /\ (7 * n + 9) \div 10 + 2 <= n
         /\ 10 * ((7 * n + 9) \div 10) >= 7 * n
  BY SMT

\* The threshold of a sharing is above the number of its hard locks, so these
\* alone never recover the key, and it never exceeds the number of slots, so the
\* machine it was made on recovers it.
THEOREM ThresholdInRange ==
  ASSUME NEW n \in Nat, NEW m \in Nat, MinimumFactors >= 8, CanShare(n, m)
  PROVE  m < Threshold(n, m) /\ Threshold(n, m) <= n
  BY ShareBounds, SharingAssumption, SMT DEF CanShare, Threshold

\* "any two can fail or change without changing the HWID": two slots fewer than
\* there are suffice whenever three are no hard locks.
THEOREM TwoSlotsToSpare ==
  ASSUME NEW n \in Nat, NEW m \in Nat, MinimumFactors >= 8, CanShare(n, m), m + 3 <= n
  PROVE  Threshold(n, m) + 2 <= n
  BY ShareBounds, SharingAssumption, SMT DEF CanShare, Threshold
-----------------------------------------------------------------------------
(* recover_core, for every helper that parses and whatever is collected.    *)

\* A finite set has subsets of every size up to its own.
LEMMA SubsetOfSize ==
  ASSUME NEW S, IsFiniteSet(S), NEW k \in Nat, k <= Cardinality(S)
  PROVE  \E T \in SUBSET S : Cardinality(T) = k
<1> DEFINE n == Cardinality(S)
<1>1. n \in Nat /\ ExistsBijection(1 .. n, S)
  BY FS_CardinalityType
<1>2. PICK f \in Bijection(1 .. n, S) : TRUE
  BY <1>1 DEF ExistsBijection
<1> HIDE DEF n
<1>3. f \in [1 .. n -> S] /\ \A i, j \in 1 .. n : f[i] = f[j] => i = j
  BY <1>2 DEF Bijection, Injection, IsInjective
<1> DEFINE T == {f[i] : i \in 1 .. k}
           g == [i \in 1 .. k |-> f[i]]
<1>4. \A i \in 1 .. k : i \in 1 .. n
  BY <1>1 DEF n
<1>5. T \in SUBSET S
  BY <1>3, <1>4
<1>6. g \in Bijection(1 .. k, T)
  BY <1>3, <1>4 DEF Bijection, Injection, Surjection, IsInjective
<1>7. IsFiniteSet(1 .. k) /\ Cardinality(1 .. k) = k
  BY FS_Interval
<1>8. Cardinality(T) = k
  BY <1>6, <1>7, FS_Bijection DEF ExistsBijection
<1> QED
  BY <1>5, <1>8

\* The search finds a subset exactly if every given hard lock is on the curve and
\* enough of the other points are.
LEMMA SearchFinds ==
  ASSUME NEW h, NEW factors, NEW hard, NEW others, IsFiniteSet(hard), IsFiniteSet(others),
         h.threshold \in Nat
  PROVE  LET found == {x \in others : OnCurve(h, factors, x)}
         IN  RecoveringSubsets(h, factors, hard, others) # {}
               <=> /\ \A x \in hard : OnCurve(h, factors, x)
                   /\ h.threshold <= Cardinality(hard) + Cardinality(found)
<1> DEFINE found == {x \in others : OnCurve(h, factors, x)}
           m == Cardinality(hard)
           need == IF h.threshold > m THEN h.threshold - m ELSE 0
           combos == {c \in SUBSET others :
                        Cardinality(c) = need /\ \A x \in hard \cup c : OnCurve(h, factors, x)}
<1>1. m \in Nat /\ IsFiniteSet(found) /\ Cardinality(found) \in Nat
  BY FS_CardinalityType, FS_Subset
<1>2. RecoveringSubsets(h, factors, hard, others) # {} <=> combos # {}
  BY DEF RecoveringSubsets
<1>3. ASSUME NEW c \in combos
      PROVE  /\ \A x \in hard : OnCurve(h, factors, x)
             /\ h.threshold <= m + Cardinality(found)
  <2>1. c \in SUBSET found /\ Cardinality(c) = need
    OBVIOUS
  <2>2. need <= Cardinality(found)
    BY <1>1, <2>1, FS_Subset
  <2> QED
    BY <1>1, <2>2
<1>4. ASSUME \A x \in hard : OnCurve(h, factors, x), h.threshold <= m + Cardinality(found)
      PROVE  combos # {}
  <2>1. need \in Nat /\ need <= Cardinality(found)
    BY <1>1, <1>4
  <2>2. PICK c \in SUBSET found : Cardinality(c) = need
    BY <1>1, <2>1, SubsetOfSize
  <2>3. c \in combos
    BY <1>4, <2>2
  <2> QED
    BY <2>3
<1> QED
  BY <1>2, <1>3, <1>4

\* recover_core recovers exactly when the hard locks and enough slots match, it
\* calls those live, and it blames a hard lock exactly when one is missing or a
\* single one changed and the rest would do.
THEOREM RecoverTellsExactly ==
  ASSUME NEW h, NEW factors, Parses(h), IsFiniteSet(DOMAIN h.enrolled)
  PROVE  LET matching == {x \in DOMAIN h.enrolled \cap DOMAIN factors :
                            factors[x] = h.enrolled[x]}
             changed == h.mandatory \ matching
             verdict == Recover(h, factors)
         IN /\ verdict.ok <=> Survives(h, factors)
            /\ verdict.ok => verdict.live = matching
            /\ ~verdict.ok =>
                 (verdict.reason = "mandatory" <=>
                    \/ ~(h.mandatory \subseteq DOMAIN factors)
                    \/ Cardinality(changed) = 1 /\ Cardinality(matching) >= h.threshold)
<1> DEFINE present  == DOMAIN h.enrolled \cap DOMAIN factors
           matching == {x \in present : factors[x] = h.enrolled[x]}
           hard     == h.mandatory
           others   == present \ hard
           found    == {x \in others : OnCurve(h, factors, x)}
           changed  == hard \ matching
           verdict  == Recover(h, factors)
<1>1. /\ hard \subseteq DOMAIN h.enrolled /\ h.threshold \in Nat /\ SlStore \in hard
      /\ Cardinality(hard) \in Nat /\ Cardinality(hard) < h.threshold
  <2>1. Cardinality(DOMAIN h.enrolled) \in Nat /\ IsFiniteSet(h.mandatory)
    BY FS_CardinalityType, FS_Subset DEF Parses
  <2>2. Cardinality(h.mandatory) \in Nat
    BY <2>1, FS_CardinalityType
  <2> QED
    BY <2>1, <2>2 DEF Parses
<1>2. /\ IsFiniteSet(present) /\ IsFiniteSet(matching) /\ IsFiniteSet(hard)
      /\ IsFiniteSet(others) /\ IsFiniteSet(found) /\ IsFiniteSet(changed)
  BY <1>1, FS_Subset
<1>3. /\ Cardinality(matching) \in Nat /\ Cardinality(found) \in Nat
      /\ Cardinality(changed) \in Nat
  BY <1>2, FS_CardinalityType
<1>4. CASE ~(hard \subseteq DOMAIN factors)
  BY <1>4 DEF Recover, Survives, OnCurve
<1>5. CASE hard \subseteq DOMAIN factors
  <2>1. hard \subseteq present /\ present \cap hard = hard
    BY <1>1, <1>5
  <2>2. \A x \in hard : OnCurve(h, factors, x) <=> x \in matching
    BY <2>1 DEF OnCurve
  <2>3. Cardinality(matching) = Cardinality(found) + Cardinality(hard) - Cardinality(changed)
    <3>1. matching = found \cup (hard \ changed) /\ found \cap (hard \ changed) = {}
      BY <2>1 DEF OnCurve
    <3>2. IsFiniteSet(hard \ changed) /\ Cardinality(hard \ changed) = Cardinality(hard) - Cardinality(changed)
      <4>1. hard \cap changed = changed
        OBVIOUS
      <4> HIDE DEF hard, changed
      <4> QED
        BY <1>2, <4>1, FS_Difference
    <3>3. Cardinality(matching) = Cardinality(found) + Cardinality(hard \ changed) - Cardinality({})
      <4> HIDE DEF hard, changed, found, matching
      <4> QED
        BY <1>2, <3>1, <3>2, FS_Union
    <3> QED
      BY <1>1, <1>3, <3>2, <3>3, FS_EmptySet
  <2>4. changed = {} <=> Cardinality(changed) = 0
    BY <1>2, FS_EmptySet
  \* the search among all points
  <2>5. RecoveringSubsets(h, factors, hard, others) # {}
          <=> changed = {} /\ h.threshold <= Cardinality(matching)
    <3>1. RecoveringSubsets(h, factors, hard, others) # {}
            <=> (\A x \in hard : OnCurve(h, factors, x))
                /\ h.threshold <= Cardinality(hard) + Cardinality(found)
      BY <1>1, <1>2, SearchFinds
    <3>2. (\A x \in hard : OnCurve(h, factors, x)) <=> changed = {}
      BY <2>2
    <3> QED
      <4> HIDE DEF present, matching, hard, others, found, changed, verdict
      <4> QED
        BY <1>1, <1>3, <2>3, <2>4, <3>1, <3>2
  \* the search without one hard lock
  <2>6. ASSUME NEW x \in hard
        PROVE  RecoveringSubsets(h, factors, hard \ {x}, others) # {}
                 <=> changed \subseteq {x} /\ h.threshold <= Cardinality(hard) - 1 + Cardinality(found)
    <3>1. IsFiniteSet(hard \ {x}) /\ Cardinality(hard \ {x}) = Cardinality(hard) - 1
      BY <1>2, FS_RemoveElement
    <3>2. RecoveringSubsets(h, factors, hard \ {x}, others) # {}
            <=> (\A y \in hard \ {x} : OnCurve(h, factors, y))
                /\ h.threshold <= Cardinality(hard \ {x}) + Cardinality(found)
      BY <1>1, <1>2, <3>1, SearchFinds
    <3>3. (\A y \in hard \ {x} : OnCurve(h, factors, y)) <=> changed \subseteq {x}
      BY <2>2
    <3> QED
      BY <3>1, <3>2, <3>3
  <2> DEFINE culprits == {x \in hard : RecoveringSubsets(h, factors, hard \ {x}, others) # {}}
  <2>7. verdict = IF RecoveringSubsets(h, factors, hard, others) # {}
                  THEN [ok |-> TRUE, reason |-> "", live |-> matching,
                        dead |-> DOMAIN h.enrolled \ matching]
                  ELSE [ok |-> FALSE, reason |-> IF culprits # {} THEN "mandatory" ELSE "drift",
                        live |-> {}, dead |-> {}]
    BY <1>5, <2>1 DEF Recover, OnCurve
  <2>8. ~(changed = {} /\ h.threshold <= Cardinality(matching)) =>
          (culprits # {} <=> Cardinality(changed) = 1 /\ h.threshold <= Cardinality(matching))
    <3>1. ASSUME NEW x \in hard, changed \subseteq {x}, changed # {} PROVE Cardinality(changed) = 1
      <4>1. changed = {x}
        BY <3>1
      <4> QED
        BY <4>1, FS_Singleton
    <3>2. ASSUME Cardinality(changed) = 1 PROVE \E x \in hard : changed = {x}
      BY <1>2, <3>2, FS_Singleton
    <3>3. ASSUME ~(changed = {} /\ h.threshold <= Cardinality(matching)), NEW x \in culprits
          PROVE  Cardinality(changed) = 1 /\ h.threshold <= Cardinality(matching)
      <4>1. changed \subseteq {x} /\ h.threshold <= Cardinality(hard) - 1 + Cardinality(found)
        BY <2>6
      <4>2. changed # {}
        BY <1>1, <1>3, <2>3, <2>4, <3>3, <4>1
      <4>3. Cardinality(changed) = 1
        BY <3>1, <4>1, <4>2
      <4> HIDE DEF present, matching, hard, others, found, changed, verdict
      <4> QED
        BY <1>1, <1>3, <2>3, <4>1, <4>3
    <3>4. ASSUME Cardinality(changed) = 1, h.threshold <= Cardinality(matching)
          PROVE  culprits # {}
      <4>1. PICK x \in hard : changed = {x}
        BY <3>2, <3>4
      <4>2. h.threshold <= Cardinality(hard) - 1 + Cardinality(found)
        <5> HIDE DEF present, matching, hard, others, found, changed, verdict
        <5> QED
          BY <1>1, <1>3, <2>3, <3>4
      <4>3. x \in culprits
        BY <2>6, <4>1, <4>2
      <4> QED
        BY <4>3
    <3> QED
      BY <3>3, <3>4
  <2>9. Survives(h, factors) <=> changed = {} /\ h.threshold <= Cardinality(matching)
    BY <1>1, <1>3 DEF Survives, OnCurve
  <2>10. CASE changed = {} /\ h.threshold <= Cardinality(matching)
    <3>1. verdict.ok /\ verdict.live = matching
      <4>1. verdict = [ok |-> TRUE, reason |-> "", live |-> matching,
                       dead |-> DOMAIN h.enrolled \ matching]
        BY <2>5, <2>7, <2>10
      <4> HIDE DEF present, matching, hard, others, found, changed, verdict, culprits
      <4> QED
        BY <4>1
    <3> QED
      BY <2>9, <2>10, <3>1
  <2>11. CASE ~(changed = {} /\ h.threshold <= Cardinality(matching))
    <3>1. ~verdict.ok /\ (verdict.reason = "mandatory" <=> culprits # {})
      <4>1. verdict = [ok |-> FALSE, reason |-> IF culprits # {} THEN "mandatory" ELSE "drift",
                       live |-> {}, dead |-> {}]
        BY <2>5, <2>7, <2>11
      <4> HIDE DEF present, matching, hard, others, found, changed, verdict, culprits
      <4> QED
        BY <4>1
    <3>2. culprits # {} <=> Cardinality(changed) = 1 /\ Cardinality(matching) >= h.threshold
      BY <1>1, <1>3, <2>8, <2>11
    <3> QED
      BY <1>5, <2>9, <2>11, <3>1, <3>2
  <2> QED
    BY <2>10, <2>11
<1> QED
  BY <1>4, <1>5
=============================================================================
