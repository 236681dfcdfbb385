----------------------- MODULE EffectivePoliciesProofs -----------------------
(***************************************************************************)
(* That the reduction of the policies in a path gives each rule to the     *)
(* policy entitled to it, and what the rule is traced to, for any policies *)
(* on any paths.                                                           *)
(***************************************************************************)
EXTENDS EffectivePolicies, FiniteSetTheorems, TLAPS

Configured == spec \in Specs /\ created \in Times

LEMMA ConfiguredHolds == Spec => []Configured
<1>1. Init => Configured  BY DEF Init, Configured
<1>2. Configured /\ [Next]_vars => Configured'
  <2>1. [Next]_vars => UNCHANGED config
    BY DEF Next, vars, config, TakeGateway, TakePath, NoPolicies, GatherPolicies,
           Merge, MergeDirect, MergeAtomicDefaults, MergeAtomicOverrides,
           MergePolicyRuleDefaults, MergePolicyRuleOverrides, Turn, Finish
  <2>. QED BY <2>1 DEF Configured, config
<1>. QED BY <1>1, <1>2, PTL DEF Spec

LEMMA SpecsValid ==
    ASSUME Configured, NEW q \in Policies
    PROVE  /\ spec[q].section \in Sections /\ spec[q].strategy \in Strategies
           /\ spec[q].rules \subseteq Rules /\ spec[q].rules \ Conditions # {}
           /\ created[q] \in Nat /\ Name[q] \in Nat
<1>1. spec[q] \in ValidSpecs /\ created[q] \in Nat /\ Name[q] \in Nat
  BY ConstantsAssumption DEF Configured
<1>. QED BY <1>1 DEF ValidSpecs

(* Each policy is merged in one way.                                       *)
LEMMA OneStrategy ==
    ASSUME Configured, NEW q \in Policies
    PROVE  /\ AtomicDefaults(q) => ~PolicyRuleDefaults(q) /\ ~AtomicOverrides(q)
                                     /\ ~PolicyRuleOverrides(q)
           /\ PolicyRuleDefaults(q) => ~AtomicOverrides(q) /\ ~PolicyRuleOverrides(q)
           /\ AtomicOverrides(q) => ~PolicyRuleOverrides(q)
           /\ \/ AtomicDefaults(q) \/ PolicyRuleDefaults(q)
              \/ AtomicOverrides(q) \/ PolicyRuleOverrides(q)
BY SpecsValid DEF AtomicDefaults, PolicyRuleDefaults, AtomicOverrides,
                  PolicyRuleOverrides, Sections, Strategies

-----------------------------------------------------------------------------
(* The order of the policies in a path is linear.                          *)
LEMMA Positions ==
    ASSUME NEW p \in Paths, NEW k, NEW q \in InPath(p, k)
    PROVE  /\ q \in Policies
           /\ PositionIn(p, q) \in DOMAIN p /\ PositionIn(p, q) \in Nat
           /\ p[PositionIn(p, q)] = Target[q]
           /\ \A n \in DOMAIN p : p[n] = Target[q] => n = PositionIn(p, q)
<1>1. q \in Policies /\ \E n \in DOMAIN p : p[n] = Target[q]  BY DEF InPath
<1>2. PositionIn(p, q) \in DOMAIN p /\ p[PositionIn(p, q)] = Target[q]
  BY <1>1 DEF PositionIn
<1>3. DOMAIN p \subseteq Nat  BY PathsAssumption
<1>. QED BY <1>1, <1>2, <1>3, PathsAssumption

LEMMA AboveIsPrecedes ==
    ASSUME NEW p \in Paths, NEW k, NEW q \in InPath(p, k), NEW r \in InPath(p, k)
    PROVE  Above(p, q, r) <=> Precedes(p, q, r)
<1>1. /\ PositionIn(p, q) \in DOMAIN p /\ p[PositionIn(p, q)] = Target[q]
      /\ PositionIn(p, r) \in DOMAIN p /\ p[PositionIn(p, r)] = Target[r]
      /\ \A n \in DOMAIN p : p[n] = Target[q] => n = PositionIn(p, q)
      /\ \A n \in DOMAIN p : p[n] = Target[r] => n = PositionIn(p, r)
  BY Positions
<1>2. Target[q] = Target[r] <=> PositionIn(p, q) = PositionIn(p, r)
  BY <1>1
<1>. QED BY <1>1, <1>2 DEF Above, Precedes, OlderFirst

LEMMA AboveIsLinear ==
    ASSUME Configured, NEW p \in Paths, NEW k
    PROVE  /\ \A q \in InPath(p, k) : ~Above(p, q, q)
           /\ \A q, r \in InPath(p, k) : q # r => Above(p, q, r) \/ Above(p, r, q)
           /\ \A q, r, s \in InPath(p, k) :
                 Above(p, q, r) /\ Above(p, r, s) => Above(p, q, s)
<1>1. \A q, r \in InPath(p, k) :
        /\ Above(p, q, r) <=> \/ PositionIn(p, q) < PositionIn(p, r)
                              \/ PositionIn(p, q) = PositionIn(p, r) /\ OlderFirst(q, r)
        /\ PositionIn(p, q) \in Nat
        /\ created[q] \in Nat /\ Name[q] \in Nat
        /\ Name[q] = Name[r] => q = r
  <2>. SUFFICES ASSUME NEW q \in InPath(p, k), NEW r \in InPath(p, k)
                PROVE  /\ Above(p, q, r) <=>
                            \/ PositionIn(p, q) < PositionIn(p, r)
                            \/ PositionIn(p, q) = PositionIn(p, r) /\ OlderFirst(q, r)
                       /\ PositionIn(p, q) \in Nat
                       /\ created[q] \in Nat /\ Name[q] \in Nat
                       /\ Name[q] = Name[r] => q = r
    OBVIOUS
  <2>1. q \in Policies /\ r \in Policies /\ PositionIn(p, q) \in Nat  BY Positions
  <2>2. Target[q] = Target[r] <=> PositionIn(p, q) = PositionIn(p, r)  BY Positions
  <2>3. Kind[q] = Kind[r]  BY DEF InPath
  <2>. QED BY <2>1, <2>2, <2>3, AboveIsPrecedes, SpecsValid, ConstantsAssumption DEF Precedes
<1>. QED BY <1>1 DEF OlderFirst

(* The ranks in the order are 0, 1, ... without gaps, so that              *)
(* PoliciesInPath enumerates the policies in this order.                   *)
LEMMA Sorted ==
    ASSUME Configured, NEW p \in Paths, NEW k
    PROVE  LET S == InPath(p, k)
               N == Cardinality(S)
               sorted == PoliciesInPath(p, k)
           IN  /\ N \in Nat /\ (S # {} => N > 0)
               /\ sorted \in [1..N -> S]
               /\ \A q \in S : \E n \in 1..N : sorted[n] = q
               /\ \A m, n \in 1..N : m < n => Above(p, sorted[m], sorted[n])
<1>. DEFINE S == InPath(p, k)
            N == Cardinality(S)
            sorted == PoliciesInPath(p, k)
            Before(q) == {r \in S : Precedes(p, r, q)}
            rank == [q \in S |-> Cardinality(Before(q))]
<1>1. IsFiniteSet(S) /\ N \in Nat /\ (S # {} => N > 0)
  <2>1. IsFiniteSet(Policies)  BY ConstantsAssumption
  <2>2. S \in SUBSET Policies  BY DEF InPath
  <2>. HIDE DEF S
  <2>3. IsFiniteSet(S)  BY <2>1, <2>2, FS_Subset
  <2>4. N \in Nat  BY <2>3, FS_CardinalityType
  <2>5. S # {} => N # 0  BY <2>3, FS_EmptySet
  <2>. QED BY <2>3, <2>4, <2>5
<1>2. \A q \in S : \A r \in S : r \in Before(q) <=> Above(p, r, q)
  BY AboveIsPrecedes
<1>3. ASSUME NEW q \in S
      PROVE  /\ IsFiniteSet(Before(q)) /\ rank[q] = Cardinality(Before(q))
             /\ rank[q] \in 0..(N - 1)
  <2>1. Before(q) \subseteq S /\ q \notin Before(q)
    BY <1>2, AboveIsLinear
  <2>2. IsFiniteSet(Before(q)) /\ Cardinality(Before(q)) \in Nat
    BY <1>1, <2>1, FS_Subset, FS_CardinalityType
  <2>3. Cardinality(Before(q)) <= N /\ Cardinality(Before(q)) # N
    BY <1>1, <2>1, FS_Subset
  <2>. QED BY <1>1, <2>2, <2>3
<1>4. ASSUME NEW q \in S, NEW r \in S, Above(p, q, r)
      PROVE  rank[q] < rank[r]
  <2>1. Before(q) \subseteq Before(r)  BY <1>2, <1>4, AboveIsLinear
  <2>2. q \in Before(r) /\ q \notin Before(q)  BY <1>2, <1>4, AboveIsLinear
  <2>3. Cardinality(Before(q)) <= Cardinality(Before(r))
          /\ Cardinality(Before(q)) # Cardinality(Before(r))
    BY <1>3, <2>1, <2>2, FS_Subset
  <2>4. /\ rank[q] = Cardinality(Before(q)) /\ rank[q] \in 0..(N - 1)
        /\ rank[r] = Cardinality(Before(r)) /\ rank[r] \in 0..(N - 1)
    BY <1>3
  <2>. HIDE DEF rank, Before, N
  <2>. QED BY <1>1, <2>3, <2>4
<1>5. \A q, r \in S : rank[q] = rank[r] => q = r
  <2>. SUFFICES ASSUME NEW q \in S, NEW r \in S, q # r PROVE rank[q] # rank[r]
    OBVIOUS
  <2>1. rank[q] < rank[r] \/ rank[r] < rank[q]  BY <1>4, AboveIsLinear
  <2>2. rank[q] \in 0..(N - 1) /\ rank[r] \in 0..(N - 1)  BY <1>3
  <2>. HIDE DEF rank, N
  <2>. QED BY <1>1, <2>1, <2>2
<1>. HIDE DEF rank, N
<1>6. \A n \in 1..N : \E q \in S : rank[q] = n - 1
  <2>1. IsFiniteSet(0..(N - 1)) /\ Cardinality(0..(N - 1)) = N
    BY <1>1, FS_Interval
  <2>2. rank \in Injection(S, 0..(N - 1))
    <3>1. rank \in [S -> 0..(N - 1)]
      <4>1. rank = [q \in S |-> rank[q]]  BY DEF rank
      <4>. QED BY <1>3, <4>1
    <3>. QED BY <1>5, <3>1 DEF Injection, IsInjective
  <2>3. rank \in Surjection(S, 0..(N - 1))
    BY <2>1, <2>2, FS_Injection DEF N
  <2>. QED BY <1>1, <2>3 DEF Surjection
<1>7. \A n \in 1..N : sorted[n] \in S /\ rank[sorted[n]] = n - 1
  <2>. SUFFICES ASSUME NEW n \in 1..N
                PROVE  sorted[n] \in S /\ rank[sorted[n]] = n - 1
    OBVIOUS
  <2>1. sorted[n] = CHOOSE q \in S : Cardinality(Before(q)) = n - 1
    BY DEF PoliciesInPath, N
  <2>2. \E q \in S : Cardinality(Before(q)) = n - 1  BY <1>3, <1>6
  <2>3. sorted[n] \in S /\ Cardinality(Before(sorted[n])) = n - 1
    BY <2>1, <2>2
  <2>. QED BY <1>3, <2>3
<1>8. sorted \in [1..N -> S]
  <2>1. sorted = [n \in 1..N |->
                     CHOOSE q \in S : Cardinality(Before(q)) = n - 1]
    BY DEF PoliciesInPath, N
  <2>2. DOMAIN sorted = 1..N /\ sorted = [n \in DOMAIN sorted |-> sorted[n]]
    BY <2>1
  <2>. HIDE DEF sorted, S
  <2>. QED BY <1>7, <2>2
<1>9. \A q \in S : \E n \in 1..N : sorted[n] = q
  <2>. SUFFICES ASSUME NEW q \in S PROVE \E n \in 1..N : sorted[n] = q
    OBVIOUS
  <2>0. rank[q] \in 0..(N - 1)  BY <1>3
  <2>1. rank[q] + 1 \in 1..N /\ (rank[q] + 1) - 1 = rank[q]  BY <1>1, <2>0
  <2>2. sorted[rank[q] + 1] \in S /\ rank[sorted[rank[q] + 1]] = rank[q]
    BY <1>7, <2>1
  <2>. QED BY <1>5, <2>1, <2>2
<1>10. ASSUME NEW m \in 1..N, NEW n \in 1..N, m < n
       PROVE  Above(p, sorted[m], sorted[n])
  <2>1. /\ sorted[m] \in S /\ rank[sorted[m]] = m - 1
        /\ sorted[n] \in S /\ rank[sorted[n]] = n - 1
    BY <1>7
  <2>2. rank[sorted[m]] < rank[sorted[n]]  BY <1>1, <1>10, <2>1
  <2>3. sorted[m] # sorted[n]  BY <1>1, <2>2, <2>1
  <2>4. ~Above(p, sorted[n], sorted[m])
    <3>1. Above(p, sorted[n], sorted[m]) => rank[sorted[n]] < rank[sorted[m]]
      BY <1>4, <2>1
    <3>. QED BY <1>1, <2>1, <2>2, <3>1
  <2>. QED BY <2>1, <2>3, <2>4, AboveIsLinear
<1>. QED BY <1>1, <1>8, <1>9, <1>10 DEF N

-----------------------------------------------------------------------------
(* What the merge of some of the policies in a path must be, with the      *)
(* definitions of EffectivePolicies for sets of policies S.                *)
IsLowest(p, S, q) == q \in S /\ \A r \in S \ {q} : Above(p, r, q)
IsHighest(p, S, q) == q \in S /\ \A r \in S \ {q} : Above(p, q, r)

KeptOf(p, S) == {q \in S : ~\E r \in S : AtomicOverrides(r) /\ Above(p, r, q)}

Contribute(p, S, bottom, rule) ==
    {q \in KeptOf(p, S) :
        /\ rule \in spec[q].rules
        /\ q = bottom \/ PolicyRuleDefaults(q) \/ PolicyRuleOverrides(q)}

IsWinner(p, C, w) ==
    \/ /\ w \in C /\ PolicyRuleOverrides(w)
       /\ \A q \in C \ {w} : PolicyRuleOverrides(q) => Above(p, w, q)
    \/ /\ \A q \in C : ~PolicyRuleOverrides(q)
       /\ IsLowest(p, C, w)

WinsRule(p, C, value, rule) ==
    /\ rule \in RulesOf(value) <=> C # {}
    /\ rule \in RulesOf(value) => IsWinner(p, C, value.rules[rule].origin)

Merged(p, S, value) ==
    /\ RulesOf(value) \subseteq Rules
    /\ IsLowest(p, KeptOf(p, S), value.locator)
    /\ \A rule \in Rules :
          WinsRule(p, Contribute(p, S, value.locator, rule), value, rule)

(* Policies as values, and what the operations on them keep.               *)
RuleValues == [origin : Policies, source : Policies, pointer : BOOLEAN]

IsValue(value) ==
    /\ value.locator \in Policies
    /\ \A r \in RulesOf(value) : value.rules[r] \in RuleValues

LEMMA ValueOf ==
    ASSUME NEW q \in Policies
    PROVE  /\ IsValue(AsValue(q)) /\ AsValue(q).locator = q
           /\ RulesOf(AsValue(q)) = spec[q].rules
           /\ \A r \in spec[q].rules : AsValue(q).rules[r].origin = q
<1>1. /\ AsValue(q).locator = q
      /\ AsValue(q).rules = [r \in spec[q].rules |->
                                [origin |-> q, source |-> q, pointer |-> r \in Shared]]
  BY DEF AsValue
<1>2. RulesOf(AsValue(q)) = spec[q].rules  BY <1>1 DEF RulesOf
<1>3. \A r \in spec[q].rules :
        AsValue(q).rules[r] = [origin |-> q, source |-> q, pointer |-> r \in Shared]
  BY <1>1
<1>4. \A r : [origin |-> q, source |-> q, pointer |-> r \in Shared] \in RuleValues
  BY DEF RuleValues
<1>. QED BY <1>1, <1>2, <1>3, <1>4 DEF IsValue

LEMMA CopyOf ==
    ASSUME NEW value, IsValue(value)
    PROVE  /\ IsValue(Copy(value)) /\ Copy(value).locator = value.locator
           /\ RulesOf(Copy(value)) = RulesOf(value)
           /\ \A r \in RulesOf(value) :
                 Copy(value).rules[r].origin = value.rules[r].origin
<1>1. /\ Copy(value).locator = value.locator
      /\ Copy(value).rules =
            [r \in RulesOf(value) |-> [origin |-> value.rules[r].origin,
                                       source |-> value.locator, pointer |-> FALSE]]
  BY DEF Copy
<1>2. RulesOf(Copy(value)) = RulesOf(value)  BY <1>1 DEF RulesOf
<1>3. \A r \in RulesOf(value) :
        Copy(value).rules[r] = [origin |-> value.rules[r].origin,
                                source |-> value.locator, pointer |-> FALSE]
  BY <1>1
<1>4. \A r \in RulesOf(value) : Copy(value).rules[r] \in RuleValues
  <2>1. \A r \in RulesOf(value) : value.rules[r].origin \in Policies
    BY DEF RuleValues, IsValue
  <2>2. value.locator \in Policies  BY DEF IsValue
  <2>3. \A o \in Policies : [origin |-> o, source |-> value.locator, pointer |-> FALSE]
                               \in RuleValues
    BY <2>2 DEF RuleValues
  <2>. QED BY <1>3, <2>1, <2>3
<1>. QED BY <1>1, <1>2, <1>3, <1>4 DEF IsValue

LEMMA UnionOf ==
    ASSUME NEW first, NEW second, NEW target,
           IsValue(first), IsValue(second), IsValue(target)
    PROVE  LET union == Union(first, second, target)
           IN  /\ IsValue(union) /\ union.locator = target.locator
               /\ RulesOf(union) = RulesOf(first) \cup RulesOf(second)
               /\ \A r \in RulesOf(first) :
                     union.rules[r].origin = first.rules[r].origin
               /\ \A r \in RulesOf(second) \ RulesOf(first) :
                     union.rules[r].origin = second.rules[r].origin
<1>. DEFINE union == Union(first, second, target)
<1>1. /\ union.locator = target.locator
      /\ union.rules = [r \in RulesOf(first) \cup RulesOf(second) |->
                           IF r \in RulesOf(first)
                           THEN [first.rules[r] EXCEPT !.source = first.locator]
                           ELSE second.rules[r]]
  BY DEF Union
<1>. HIDE DEF union
<1>2. RulesOf(union) = RulesOf(first) \cup RulesOf(second)  BY <1>1 DEF RulesOf
<1>3. ASSUME NEW r \in RulesOf(first)
      PROVE  /\ union.rules[r].origin = first.rules[r].origin
             /\ union.rules[r] \in RuleValues
  <2>1. union.rules[r] = [first.rules[r] EXCEPT !.source = first.locator]  BY <1>1
  <2>2. first.rules[r] \in RuleValues /\ first.locator \in Policies  BY DEF IsValue
  <2>. QED BY <2>1, <2>2 DEF RuleValues
<1>4. \A r \in RulesOf(second) \ RulesOf(first) : union.rules[r] = second.rules[r]
  BY <1>1
<1>5. IsValue(union)
  BY <1>1, <1>2, <1>3, <1>4 DEF IsValue
<1>. QED BY <1>1, <1>2, <1>3, <1>4, <1>5 DEF union

-----------------------------------------------------------------------------
(* One more policy, that all others are below.                             *)
OnTop(p, k, S, t) ==
    /\ Configured /\ p \in Paths
    /\ S \subseteq InPath(p, k) /\ t \in InPath(p, k)
    /\ \A q \in S \ {t} : Above(p, t, q)

LEMMA OnTopFacts ==
    ASSUME NEW p, NEW k, NEW S, NEW t, OnTop(p, k, S, t)
    PROVE  /\ t \in Policies /\ spec[t].rules \subseteq Rules
           /\ \A q \in S \ {t} : Above(p, t, q)
           /\ \A r \in S \cup {t} : ~Above(p, r, t)
           /\ AtomicDefaults(t) => ~PolicyRuleDefaults(t) /\ ~AtomicOverrides(t)
                                     /\ ~PolicyRuleOverrides(t)
           /\ PolicyRuleDefaults(t) => ~AtomicOverrides(t) /\ ~PolicyRuleOverrides(t)
           /\ AtomicOverrides(t) => ~PolicyRuleOverrides(t)
           /\ \/ AtomicDefaults(t) \/ PolicyRuleDefaults(t)
              \/ AtomicOverrides(t) \/ PolicyRuleOverrides(t)
<1>1. Configured /\ p \in Paths /\ t \in InPath(p, k) /\ S \subseteq InPath(p, k)
  BY DEF OnTop
<1>2. t \in Policies  BY <1>1 DEF InPath
<1>3. spec[t].rules \subseteq Rules  BY <1>1, <1>2, SpecsValid
<1>4. \A q \in S \ {t} : Above(p, t, q)  BY DEF OnTop
<1>5. \A r \in S \cup {t} : ~Above(p, r, t)  BY <1>1, <1>4, AboveIsLinear
<1>. QED BY <1>1, <1>2, <1>3, <1>4, <1>5, OneStrategy

LEMMA KeptGrows ==
    ASSUME NEW p, NEW k, NEW S, NEW t, OnTop(p, k, S, t)
    PROVE  /\ AtomicOverrides(t) => KeptOf(p, S \cup {t}) = {t}
           /\ ~AtomicOverrides(t) => KeptOf(p, S \cup {t}) = KeptOf(p, S) \cup {t}
<1>1. /\ \A r \in S \cup {t} : ~Above(p, r, t)
      /\ \A q \in S \ {t} : Above(p, t, q)
  BY OnTopFacts
<1>2. t \in KeptOf(p, S \cup {t}) /\ (t \in S => t \in KeptOf(p, S))
  BY <1>1 DEF KeptOf
<1>3. AtomicOverrides(t) => \A q \in S \ {t} : q \notin KeptOf(p, S \cup {t})
  BY <1>1 DEF KeptOf
<1>4. ~AtomicOverrides(t) =>
        \A q \in S \ {t} : q \in KeptOf(p, S \cup {t}) <=> q \in KeptOf(p, S)
  BY DEF KeptOf
<1>5. KeptOf(p, S \cup {t}) \subseteq S \cup {t} /\ KeptOf(p, S) \subseteq S
  BY DEF KeptOf
<1>. QED BY <1>2, <1>3, <1>4, <1>5

LEMMA BottomStays ==
    ASSUME NEW p, NEW k, NEW S, NEW t, OnTop(p, k, S, t),
           ~AtomicOverrides(t), NEW b, IsLowest(p, KeptOf(p, S), b)
    PROVE  IsLowest(p, KeptOf(p, S \cup {t}), b)
<1>1. KeptOf(p, S \cup {t}) = KeptOf(p, S) \cup {t}  BY KeptGrows
<1>2. b \in S  BY DEF IsLowest, KeptOf
<1>. QED BY <1>1, <1>2, OnTopFacts DEF IsLowest

LEMMA ContributorAdded ==
    ASSUME NEW p, NEW k, NEW S, NEW t, OnTop(p, k, S, t),
           ~AtomicOverrides(t), NEW b, IsLowest(p, KeptOf(p, S), b),
           NEW rule, rule \in spec[t].rules,
           ~AtomicDefaults(t)
    PROVE  /\ Contribute(p, S, b, rule) \subseteq S
           /\ Contribute(p, S \cup {t}, b, rule) = Contribute(p, S, b, rule) \cup {t}
<1>1. KeptOf(p, S \cup {t}) = KeptOf(p, S) \cup {t}  BY KeptGrows
<1>2. KeptOf(p, S) \subseteq S  BY DEF KeptOf
<1>3. PolicyRuleDefaults(t) \/ PolicyRuleOverrides(t)  BY OnTopFacts
<1>. QED BY <1>1, <1>2, <1>3 DEF Contribute

LEMMA ContributorsStay ==
    ASSUME NEW p, NEW k, NEW S, NEW t, OnTop(p, k, S, t),
           ~AtomicOverrides(t), NEW b, IsLowest(p, KeptOf(p, S), b),
           NEW rule, rule \notin spec[t].rules \/ AtomicDefaults(t)
    PROVE  Contribute(p, S \cup {t}, b, rule) = Contribute(p, S, b, rule)
<1>1. KeptOf(p, S \cup {t}) = KeptOf(p, S) \cup {t}  BY KeptGrows
<1>2. b \in KeptOf(p, S)  BY DEF IsLowest
<1>3. AtomicDefaults(t) => ~PolicyRuleDefaults(t) /\ ~PolicyRuleOverrides(t)
  BY OnTopFacts
<1>. QED BY <1>1, <1>2, <1>3 DEF Contribute

(* The merge of one policy is that policy.                                 *)
LEMMA MergedAlone ==
    ASSUME Configured, NEW p \in Paths, NEW k, NEW t \in InPath(p, k),
           NEW value, value.locator = t, RulesOf(value) = spec[t].rules,
           \A rule \in spec[t].rules : value.rules[rule].origin = t
    PROVE  Merged(p, {t}, value)
<1>1. t \in Policies /\ spec[t].rules \subseteq Rules  BY SpecsValid DEF InPath
<1>2. KeptOf(p, {t}) = {t}  BY AboveIsLinear DEF KeptOf
<1>3. \A rule : Contribute(p, {t}, t, rule) = IF rule \in spec[t].rules THEN {t} ELSE {}
  BY <1>2 DEF Contribute
<1>4. IsWinner(p, {t}, t)  BY DEF IsWinner, IsLowest
<1>5. \A rule \in Rules : WinsRule(p, Contribute(p, {t}, t, rule), value, rule)
  BY <1>3, <1>4 DEF WinsRule
<1>6. IsLowest(p, KeptOf(p, {t}), t)  BY <1>2 DEF IsLowest
<1>. QED BY <1>1, <1>5, <1>6 DEF Merged

(* What a merge of the others contributes with one more policy.            *)
Adds(p, S, t, b) ==
    \A rule :
        /\ Contribute(p, S, b, rule) \subseteq S
        /\ rule \in spec[t].rules =>
             Contribute(p, S \cup {t}, b, rule) = Contribute(p, S, b, rule) \cup {t}
        /\ rule \notin spec[t].rules =>
             Contribute(p, S \cup {t}, b, rule) = Contribute(p, S, b, rule)

AddsNothing(p, S, t, b) ==
    \A rule : Contribute(p, S \cup {t}, b, rule) = Contribute(p, S, b, rule)

LEMMA MergedGrows ==
    ASSUME NEW p, NEW k, NEW S, NEW t, OnTop(p, k, S, t),
           ~AtomicOverrides(t), NEW value, Merged(p, S, value)
    PROVE  /\ IsLowest(p, KeptOf(p, S \cup {t}), value.locator)
           /\ RulesOf(value) \subseteq Rules
           /\ ~AtomicDefaults(t) => Adds(p, S, t, value.locator)
           /\ AtomicDefaults(t) => AddsNothing(p, S, t, value.locator)
           /\ \A rule \in Rules :
                 WinsRule(p, Contribute(p, S, value.locator, rule), value, rule)
<1>. DEFINE b == value.locator
<1>0. /\ IsLowest(p, KeptOf(p, S), b) /\ RulesOf(value) \subseteq Rules
      /\ \A rule \in Rules : WinsRule(p, Contribute(p, S, b, rule), value, rule)
  BY DEF Merged
<1>. HIDE DEF b
<1>1. \A rule : Contribute(p, S, b, rule) \subseteq S  BY DEF Contribute, KeptOf
<1>2. ASSUME ~AtomicDefaults(t), NEW rule, rule \in spec[t].rules
      PROVE  Contribute(p, S \cup {t}, b, rule) = Contribute(p, S, b, rule) \cup {t}
  BY <1>0, <1>2, ContributorAdded
<1>3. ASSUME NEW rule, rule \notin spec[t].rules \/ AtomicDefaults(t)
      PROVE  Contribute(p, S \cup {t}, b, rule) = Contribute(p, S, b, rule)
  BY <1>0, <1>3, ContributorsStay
<1>4. ~AtomicDefaults(t) => Adds(p, S, t, b)  BY <1>1, <1>2, <1>3 DEF Adds
<1>5. AtomicDefaults(t) => AddsNothing(p, S, t, b)  BY <1>3 DEF AddsNothing
<1>6. IsLowest(p, KeptOf(p, S \cup {t}), b)  BY <1>0, BottomStays
<1>. QED BY <1>0, <1>4, <1>5, <1>6 DEF b

(* Atomic overrides: as if there were nothing below.                       *)
LEMMA OverridesReplace ==
    ASSUME NEW p, NEW k, NEW S, NEW t, OnTop(p, k, S, t),
           AtomicOverrides(t),
           NEW value, value.locator = t, RulesOf(value) = spec[t].rules,
           \A rule \in spec[t].rules : value.rules[rule].origin = t
    PROVE  Merged(p, S \cup {t}, value)
<1>1. KeptOf(p, S \cup {t}) = {t}  BY KeptGrows
<1>0. Configured /\ p \in Paths /\ t \in InPath(p, k)  BY DEF OnTop
<1>2. KeptOf(p, {t}) = {t}  BY <1>0, AboveIsLinear DEF KeptOf
<1>3. \A rule : Contribute(p, S \cup {t}, t, rule) = Contribute(p, {t}, t, rule)
  BY <1>1, <1>2 DEF Contribute
<1>4. Merged(p, {t}, value)  BY <1>0, MergedAlone
<1>. QED BY <1>1, <1>2, <1>3, <1>4 DEF Merged

(* Atomic defaults: there is always something below.                       *)
LEMMA MergedNotEmpty ==
    ASSUME Configured, NEW p \in Paths, NEW k, NEW S \in SUBSET InPath(p, k),
           NEW value, Merged(p, S, value)
    PROVE  ~Empty(value)
<1>. DEFINE b == value.locator
<1>1. b \in KeptOf(p, S) /\ b \in Policies  BY DEF Merged, IsLowest, KeptOf, InPath
<1>2. PICK rule \in spec[b].rules : rule \in Rules /\ rule \notin Conditions
  BY <1>1, SpecsValid
<1>3. b \in Contribute(p, S, b, rule)  BY <1>1, <1>2 DEF Contribute
<1>4. rule \in RulesOf(value)  BY <1>2, <1>3 DEF Merged, WinsRule
<1>. QED BY <1>2, <1>4 DEF Empty

LEMMA DefaultsYield ==
    ASSUME NEW p, NEW k, NEW S, NEW t, OnTop(p, k, S, t),
           AtomicDefaults(t), NEW value, Merged(p, S, value),
           NEW after, after.locator = value.locator, RulesOf(after) = RulesOf(value),
           \A rule \in RulesOf(value) :
               after.rules[rule].origin = value.rules[rule].origin
    PROVE  Merged(p, S \cup {t}, after)
<1>. DEFINE b == value.locator
<1>1. ~AtomicOverrides(t)
  BY OnTopFacts
<1>2. /\ IsLowest(p, KeptOf(p, S \cup {t}), b) /\ RulesOf(value) \subseteq Rules
      /\ AddsNothing(p, S, t, b)
      /\ \A rule \in Rules : WinsRule(p, Contribute(p, S, b, rule), value, rule)
  BY <1>1, MergedGrows
<1>. HIDE DEF b
<1>4. ASSUME NEW rule \in Rules
      PROVE  WinsRule(p, Contribute(p, S \cup {t}, b, rule), after, rule)
  <2>1. Contribute(p, S \cup {t}, b, rule) = Contribute(p, S, b, rule)
    BY <1>2 DEF AddsNothing
  <2>2. WinsRule(p, Contribute(p, S, b, rule), value, rule)  BY <1>2
  <2>. QED BY <2>1, <2>2 DEF WinsRule
<1>. QED BY <1>2, <1>4 DEF Merged, b

(* Overrides rule by rule: those of the new policy win.                    *)
LEMMA OverridesWin ==
    ASSUME NEW p, NEW k, NEW S, NEW t, OnTop(p, k, S, t),
           PolicyRuleOverrides(t), NEW value, Merged(p, S, value),
           NEW after, after.locator = value.locator,
           RulesOf(after) = spec[t].rules \cup RulesOf(value),
           \A rule \in spec[t].rules : after.rules[rule].origin = t,
           \A rule \in RulesOf(value) \ spec[t].rules :
               after.rules[rule].origin = value.rules[rule].origin
    PROVE  Merged(p, S \cup {t}, after)
<1>. DEFINE b == value.locator
<1>1. ~AtomicOverrides(t) /\ ~AtomicDefaults(t) /\ spec[t].rules \subseteq Rules
  BY OnTopFacts
<1>2. /\ IsLowest(p, KeptOf(p, S \cup {t}), b) /\ RulesOf(value) \subseteq Rules
      /\ Adds(p, S, t, b)
      /\ \A rule \in Rules : WinsRule(p, Contribute(p, S, b, rule), value, rule)
  BY <1>1, MergedGrows
<1>. HIDE DEF b
<1>4. ASSUME NEW rule \in Rules
      PROVE  WinsRule(p, Contribute(p, S \cup {t}, b, rule), after, rule)
  <2>. DEFINE C == Contribute(p, S, b, rule)
  <2>. HIDE DEF C
  <2>1. WinsRule(p, C, value, rule)  BY <1>2 DEF C
  <2>2. CASE rule \in spec[t].rules
    <3>1. C \subseteq S /\ Contribute(p, S \cup {t}, b, rule) = C \cup {t}
      BY <1>2, <2>2 DEF C, Adds
    <3>2. IsWinner(p, C \cup {t}, t)  BY <3>1, OnTopFacts DEF IsWinner
    <3>. QED BY <2>2, <3>1, <3>2 DEF WinsRule
  <2>3. CASE rule \notin spec[t].rules
    <3>1. Contribute(p, S \cup {t}, b, rule) = C
      BY <1>2, <2>3 DEF C, Adds
    <3>. QED BY <2>1, <2>3, <3>1 DEF WinsRule
  <2>. QED BY <2>2, <2>3
<1>. QED BY <1>1, <1>2, <1>4 DEF Merged, b

(* Defaults rule by rule: those in place win.                              *)
LEMMA DefaultsFill ==
    ASSUME NEW p, NEW k, NEW S, NEW t, OnTop(p, k, S, t),
           PolicyRuleDefaults(t), NEW value, Merged(p, S, value),
           NEW after, after.locator = value.locator,
           RulesOf(after) = RulesOf(value) \cup spec[t].rules,
           \A rule \in RulesOf(value) :
               after.rules[rule].origin = value.rules[rule].origin,
           \A rule \in spec[t].rules \ RulesOf(value) : after.rules[rule].origin = t
    PROVE  Merged(p, S \cup {t}, after)
<1>. DEFINE b == value.locator
<1>1. /\ ~AtomicOverrides(t) /\ ~AtomicDefaults(t) /\ ~PolicyRuleOverrides(t)
      /\ spec[t].rules \subseteq Rules
  BY OnTopFacts
<1>2. /\ IsLowest(p, KeptOf(p, S \cup {t}), b) /\ RulesOf(value) \subseteq Rules
      /\ Adds(p, S, t, b)
      /\ \A rule \in Rules : WinsRule(p, Contribute(p, S, b, rule), value, rule)
  BY <1>1, MergedGrows
<1>. HIDE DEF b
<1>4. ASSUME NEW rule \in Rules
      PROVE  WinsRule(p, Contribute(p, S \cup {t}, b, rule), after, rule)
  <2>. DEFINE C == Contribute(p, S, b, rule)
  <2>. HIDE DEF C
  <2>1. WinsRule(p, C, value, rule)  BY <1>2 DEF C
  <2>2. CASE rule \in spec[t].rules
    <3>1. C \subseteq S /\ Contribute(p, S \cup {t}, b, rule) = C \cup {t}
      BY <1>2, <2>2 DEF C, Adds
    <3>2. CASE rule \in RulesOf(value)
      <4>. DEFINE w == value.rules[rule].origin
      <4>1. IsWinner(p, C, w)  BY <2>1, <3>2 DEF WinsRule
      <4>2. IsWinner(p, C \cup {t}, w)
        BY <1>1, <3>1, <4>1, OnTopFacts DEF IsWinner, IsLowest
      <4>. QED BY <2>2, <3>1, <3>2, <4>2 DEF WinsRule
    <3>3. CASE rule \notin RulesOf(value)
      <4>1. C = {}  BY <2>1, <3>3 DEF WinsRule
      <4>2. IsWinner(p, {t}, t)  BY DEF IsWinner, IsLowest
      <4>. QED BY <2>2, <3>1, <3>3, <4>1, <4>2 DEF WinsRule
    <3>. QED BY <3>2, <3>3
  <2>3. CASE rule \notin spec[t].rules
    <3>1. Contribute(p, S \cup {t}, b, rule) = C
      BY <1>2, <2>3 DEF C, Adds
    <3>. QED BY <2>1, <2>3, <3>1 DEF WinsRule
  <2>. QED BY <2>2, <2>3
<1>. QED BY <1>1, <1>2, <1>4 DEF Merged, b

-----------------------------------------------------------------------------
(* What a result must be: of the policies of a path that are merged, and   *)
(* in the end of all of them.                                              *)
Result(p, k, S, value) ==
    /\ Mergeable(k) => Merged(p, S, value)
    /\ ~Mergeable(k) => IsHighest(p, S, value.locator)

(* The last policy, and those that the reduction is through with.          *)
Seen(sorted, N, n) == {sorted[j] : j \in {m \in 1..N : m > n \/ m = N}}

Reduced(p, k, n, value) ==
    Result(p, k, Seen(PoliciesInPath(p, k), Cardinality(InPath(p, k)), n), value)

LEMMA SeenGrows ==
    ASSUME Configured, NEW p \in Paths, NEW k, NEW N, N = Cardinality(InPath(p, k)),
           NEW n \in 1..N, NEW sorted, sorted = PoliciesInPath(p, k)
    PROVE  /\ OnTop(p, k, Seen(sorted, N, n), sorted[n])
           /\ Seen(sorted, N, n - 1) = Seen(sorted, N, n) \cup {sorted[n]}
<1>1. /\ N \in Nat /\ sorted \in [1..N -> InPath(p, k)]
      /\ \A m, l \in 1..N : m < l => Above(p, sorted[m], sorted[l])
  BY Sorted
<1>2. Seen(sorted, N, n - 1) = Seen(sorted, N, n) \cup {sorted[n]}
  <2>1. {m \in 1..N : m > n - 1 \/ m = N} = {m \in 1..N : m > n \/ m = N} \cup {n}
    BY <1>1
  <2>. QED BY <2>1 DEF Seen
<1>3. \A q \in Seen(sorted, N, n) \ {sorted[n]} : Above(p, sorted[n], q)
  <2>. SUFFICES ASSUME NEW m \in 1..N, m > n \/ m = N, sorted[m] # sorted[n]
                PROVE  Above(p, sorted[n], sorted[m])
    BY DEF Seen
  <2>1. n < m  BY <1>1
  <2>. QED BY <1>1, <2>1
<1>4. Seen(sorted, N, n) \subseteq InPath(p, k) /\ sorted[n] \in InPath(p, k)
  BY <1>1 DEF Seen
<1>. QED BY <1>2, <1>3, <1>4 DEF OnTop

LEMMA SeenAtFirst ==
    ASSUME NEW N \in Nat, N > 0, NEW sorted
    PROVE  Seen(sorted, N, N) = {sorted[N]}
<1>1. {m \in 1..N : m > N \/ m = N} = {N}  OBVIOUS
<1>. QED BY <1>1 DEF Seen

LEMMA SeenInTheEnd ==
    ASSUME Configured, NEW p \in Paths, NEW k
    PROVE  Seen(PoliciesInPath(p, k), Cardinality(InPath(p, k)), 0) = InPath(p, k)
<1>. DEFINE N == Cardinality(InPath(p, k))
            sorted == PoliciesInPath(p, k)
<1>1. /\ N \in Nat /\ sorted \in [1..N -> InPath(p, k)]
      /\ \A q \in InPath(p, k) : \E n \in 1..N : sorted[n] = q
  BY Sorted
<1>. HIDE DEF N, sorted
<1>2. {m \in 1..N : m > 0 \/ m = N} = 1..N  BY <1>1
<1>3. Seen(sorted, N, 0) = InPath(p, k)  BY <1>1, <1>2 DEF Seen
<1>. QED BY <1>3 DEF N, sorted

-----------------------------------------------------------------------------
(* The loops: nothing is merged between two calls.                         *)
Kinds == {"AuthPolicy", "RateLimitPolicy", "DNSPolicy", "TLSPolicy"}

LoopInv ==
    /\ kindsLeft \in Seq(Kinds) /\ pathsLeft \subseteq Paths
    /\ ~Idle \/ kindsLeft # <<>> => path \in Paths
    /\ Idle => i = 0

(* The reduction of a call that is under way, ...                          *)
MergeInv ==
    ~Idle =>
        /\ InPath(path, kind) # {}
        /\ policies = PoliciesInPath(path, kind)
        /\ i \in 0..Cardinality(InPath(path, kind))
        /\ IsValue(effective)
        /\ Reduced(path, kind, i, effective)

(* ... and the results of those before.                                    *)
Right(job, value) ==
    \E p \in Paths : \E k :
        /\ job = <<p, k>> /\ InPath(p, k) # {}
        /\ Result(p, k, InPath(p, k), value)

ComputedInv == \A job \in DOMAIN computed : Right(job, computed[job])

LEMMA LoopHolds == Spec => []LoopInv
<1>1. Init => LoopInv  BY DEF Init, LoopInv, Idle
<1>2. LoopInv /\ [Next]_vars => LoopInv'
  <2>. SUFFICES ASSUME LoopInv, [Next]_vars PROVE LoopInv'
    OBVIOUS
  <2>1. ASSUME NEW g \in Gateways, TakeGateway(g) PROVE LoopInv'
    BY <2>1 DEF TakeGateway, LoopInv, Idle
  <2>2. ASSUME NEW p \in Paths, TakePath(p) PROVE LoopInv'
    <3>1. <<"AuthPolicy", "RateLimitPolicy">> \in Seq(Kinds)
            /\ <<"DNSPolicy", "TLSPolicy">> \in Seq(Kinds)
      BY DEF Kinds
    <3>2. kindsLeft' \in Seq(Kinds)  BY <2>2, <3>1 DEF TakePath
    <3>. QED BY <2>2, <3>2 DEF TakePath, LoopInv, Idle
  <2>3. CASE NoPolicies
    BY <2>3 DEF NoPolicies, LoopInv, Idle
  <2>4. CASE GatherPolicies
    <3>1. Head(kindsLeft) \in Kinds /\ Tail(kindsLeft) \in Seq(Kinds)
      BY <2>4 DEF GatherPolicies, LoopInv
    <3>2. kind' # "none"  BY <2>4, <3>1 DEF GatherPolicies, Kinds
    <3>. QED BY <2>4, <3>1, <3>2 DEF GatherPolicies, LoopInv, Idle
  <2>5. CASE Merge
    <3>1. Turn
      BY <2>5 DEF Merge, MergeDirect, MergeAtomicDefaults, MergeAtomicOverrides,
                  MergePolicyRuleDefaults, MergePolicyRuleOverrides
    <3>2. ~Idle  BY <3>1 DEF Turn, LoopInv
    <3>. QED BY <3>1, <3>2 DEF Turn, LoopInv, Idle, loops
  <2>6. CASE Finish
    BY <2>6 DEF Finish, LoopInv, Idle
  <2>7. CASE UNCHANGED vars
    BY <2>7 DEF vars, loops, LoopInv, Idle
  <2>. QED BY <2>1, <2>2, <2>3, <2>4, <2>5, <2>6, <2>7 DEF Next
<1>. QED BY <1>1, <1>2, PTL DEF Spec

(* One turn.                                                               *)
LEMMA TurnReduces ==
    ASSUME Configured, LoopInv, MergeInv, Merge
    PROVE  ~Idle /\ Reduced(path, kind, i - 1, effective') /\ IsValue(effective')
<1>1. Turn
  BY DEF Merge, MergeDirect, MergeAtomicDefaults, MergeAtomicOverrides,
         MergePolicyRuleDefaults, MergePolicyRuleOverrides
<1>2. ~Idle /\ path \in Paths /\ i > 0  BY <1>1 DEF Turn, LoopInv
<1>. DEFINE N == Cardinality(InPath(path, kind))
            t == policies[i]
            S == Seen(policies, N, i)
<1>3. /\ policies = PoliciesInPath(path, kind) /\ i \in 0..N
      /\ IsValue(effective) /\ Result(path, kind, S, effective)
  BY <1>2 DEF MergeInv, Reduced
<1>4. N \in Nat  BY <1>2, Sorted
<1>5. i \in 1..N  BY <1>2, <1>3, <1>4
<1>6. /\ OnTop(path, kind, S, t)
      /\ Seen(policies, N, i - 1) = S \cup {t}
  BY <1>2, <1>3, <1>5, SeenGrows
<1>. HIDE DEF N, t, S
<1>7. /\ t \in Policies /\ t \in InPath(path, kind)
      /\ S \subseteq InPath(path, kind)
      /\ \A q \in S \ {t} : Above(path, t, q)
  BY <1>6, OnTopFacts DEF OnTop
<1>8. /\ Source = AsValue(t) /\ IsValue(Source) /\ Source.locator = t
      /\ RulesOf(Source) = spec[t].rules
      /\ \A rule \in spec[t].rules : Source.rules[rule].origin = t
  BY <1>7, ValueOf DEF Source, t
<1>. HIDE DEF Source
<1>9. Result(path, kind, S \cup {t}, effective') /\ IsValue(effective')
  <2>1. CASE MergeDirect
    <3>1. effective' = Source /\ ~Mergeable(kind)  BY <2>1 DEF MergeDirect
    <3>2. IsHighest(path, S \cup {t}, t)  BY <1>7 DEF IsHighest
    <3>. QED BY <1>8, <3>1, <3>2 DEF Result
  <2>2. CASE MergeAtomicDefaults
    <3>1. Mergeable(kind) /\ AtomicDefaults(t)
      BY <2>2 DEF MergeAtomicDefaults, t
    <3>2. Merged(path, S, effective)  BY <1>3, <3>1 DEF Result
    <3>3. ~Empty(effective)  BY <1>2, <1>7, <3>2, MergedNotEmpty
    <3>4. effective' = Copy(effective)  BY <2>2, <3>3 DEF MergeAtomicDefaults
    <3>5. /\ IsValue(effective') /\ effective'.locator = effective.locator
          /\ RulesOf(effective') = RulesOf(effective)
          /\ \A rule \in RulesOf(effective) :
                effective'.rules[rule].origin = effective.rules[rule].origin
      BY <1>3, <3>4, CopyOf
    <3>6. Merged(path, S \cup {t}, effective')
      BY <1>6, <3>1, <3>2, <3>5, DefaultsYield
    <3>. QED BY <3>1, <3>5, <3>6 DEF Result
  <2>3. CASE MergeAtomicOverrides
    <3>1. /\ Mergeable(kind) /\ AtomicOverrides(t)
          /\ effective' = Copy(Source)
      BY <2>3 DEF MergeAtomicOverrides, t
    <3>2. /\ IsValue(effective') /\ effective'.locator = t
          /\ RulesOf(effective') = spec[t].rules
          /\ \A rule \in spec[t].rules : effective'.rules[rule].origin = t
      BY <1>8, <3>1, CopyOf
    <3>3. Merged(path, S \cup {t}, effective')
      BY <1>6, <3>1, <3>2, OverridesReplace
    <3>. QED BY <3>1, <3>2, <3>3 DEF Result
  <2>4. CASE MergePolicyRuleDefaults
    <3>1. /\ Mergeable(kind) /\ PolicyRuleDefaults(t)
          /\ effective' = Union(effective, Source, effective)
      BY <2>4 DEF MergePolicyRuleDefaults, t
    <3>2. Merged(path, S, effective)  BY <1>3, <3>1 DEF Result
    <3>3. /\ IsValue(effective') /\ effective'.locator = effective.locator
          /\ RulesOf(effective') = RulesOf(effective) \cup spec[t].rules
          /\ \A rule \in RulesOf(effective) :
                effective'.rules[rule].origin = effective.rules[rule].origin
          /\ \A rule \in spec[t].rules \ RulesOf(effective) :
                effective'.rules[rule].origin = t
      BY <1>3, <1>8, <3>1, UnionOf
    <3>4. Merged(path, S \cup {t}, effective')
      BY <1>6, <3>1, <3>2, <3>3, DefaultsFill
    <3>. QED BY <3>1, <3>3, <3>4 DEF Result
  <2>5. CASE MergePolicyRuleOverrides
    <3>1. /\ Mergeable(kind) /\ PolicyRuleOverrides(t)
          /\ effective' = Union(Source, effective, effective)
      BY <2>5 DEF MergePolicyRuleOverrides, t
    <3>2. Merged(path, S, effective)  BY <1>3, <3>1 DEF Result
    <3>3. /\ IsValue(effective') /\ effective'.locator = effective.locator
          /\ RulesOf(effective') = spec[t].rules \cup RulesOf(effective)
          /\ \A rule \in spec[t].rules : effective'.rules[rule].origin = t
          /\ \A rule \in RulesOf(effective) \ spec[t].rules :
                effective'.rules[rule].origin = effective.rules[rule].origin
      BY <1>3, <1>8, <3>1, UnionOf
    <3>4. Merged(path, S \cup {t}, effective')
      BY <1>6, <3>1, <3>2, <3>3, OverridesWin
    <3>. QED BY <3>1, <3>3, <3>4 DEF Result
  <2>. QED BY <2>1, <2>2, <2>3, <2>4, <2>5 DEF Merge
<1>. QED BY <1>2, <1>3, <1>6, <1>9 DEF Reduced, N

(* The topology does not change under the reconciler.                      *)
LEMMA ResultsStay ==
    ASSUME UNCHANGED config, NEW p, NEW k, NEW S, NEW value
    PROVE  /\ Result(p, k, S, value) => Result(p, k, S, value)'
           /\ PoliciesInPath(p, k)' = PoliciesInPath(p, k)
<1>1. spec' = spec /\ created' = created  BY DEF config
<1>2. /\ \A q, r : Above(p, q, r)' <=> Above(p, q, r)
      /\ \A q, r : Precedes(p, q, r)' <=> Precedes(p, q, r)
  BY <1>1 DEF Above, Precedes, OlderFirst
<1>3. \A q : /\ AtomicOverrides(q)' <=> AtomicOverrides(q)
             /\ PolicyRuleDefaults(q)' <=> PolicyRuleDefaults(q)
             /\ PolicyRuleOverrides(q)' <=> PolicyRuleOverrides(q)
  BY <1>1 DEF AtomicOverrides, PolicyRuleDefaults, PolicyRuleOverrides
<1>4. PoliciesInPath(p, k)' = PoliciesInPath(p, k)
  BY <1>1 DEF PoliciesInPath, Precedes, OlderFirst
<1>5. KeptOf(p, S)' = KeptOf(p, S)  BY <1>2, <1>3 DEF KeptOf
<1>6. \A b, rule : Contribute(p, S, b, rule)' = Contribute(p, S, b, rule)
  BY <1>1, <1>3, <1>5 DEF Contribute
<1>7. \A C, w : /\ IsWinner(p, C, w)' <=> IsWinner(p, C, w)
                /\ IsLowest(p, C, w)' <=> IsLowest(p, C, w)
                /\ IsHighest(p, C, w)' <=> IsHighest(p, C, w)
  BY <1>2, <1>3 DEF IsWinner, IsLowest, IsHighest
<1>8. Merged(p, S, value) => Merged(p, S, value)'
  BY <1>5, <1>6, <1>7 DEF Merged, WinsRule
<1>. QED BY <1>4, <1>7, <1>8 DEF Result

LEMMA MergeHolds == Spec => []MergeInv
<1>1. Init => MergeInv  BY DEF Init, MergeInv, Idle
<1>2. Configured /\ LoopInv /\ MergeInv /\ [Next]_vars => MergeInv'
  <2>. SUFFICES ASSUME Configured, LoopInv, MergeInv, [Next]_vars, ~Idle'
                PROVE  MergeInv'
    BY DEF MergeInv
  <2>1. CASE GatherPolicies
    <3>. PICK p, k : p = path /\ k = kind'  OBVIOUS
    <3>. PICK N, sorted : N = Cardinality(InPath(p, k)) /\ sorted = PoliciesInPath(p, k)
      OBVIOUS
    <3>1. /\ p \in Paths /\ InPath(p, k) # {} /\ path' = p
          /\ policies' = sorted /\ i' = Len(sorted)
          /\ effective' = AsValue(sorted[Len(sorted)])
          /\ UNCHANGED config
      BY <2>1 DEF GatherPolicies, LoopInv
    <3>2. N \in Nat /\ N > 0 /\ sorted \in [1..N -> InPath(p, k)]
      BY <3>1, Sorted
    <3>3. Len(sorted) = N
      BY <3>2
    <3>. PICK t : t = sorted[N]  OBVIOUS
    <3>4. t \in InPath(p, k) /\ t \in Policies
      <4>1. N \in 1..N  BY <3>2
      <4>2. t \in InPath(p, k)  BY <3>2, <4>1
      <4>. QED BY <4>2 DEF InPath
    <3>5. Seen(sorted, N, N) = {t}  BY <3>2, SeenAtFirst
    <3>6. /\ IsValue(AsValue(t)) /\ AsValue(t).locator = t
          /\ RulesOf(AsValue(t)) = spec[t].rules
          /\ \A r \in spec[t].rules : AsValue(t).rules[r].origin = t
      BY <3>4, ValueOf
    <3>7. Merged(p, {t}, AsValue(t))  BY <3>1, <3>4, <3>6, MergedAlone
    <3>8. IsHighest(p, {t}, AsValue(t).locator)  BY <3>6 DEF IsHighest
    <3>. PICK value : value = AsValue(t)  OBVIOUS
    <3>9. Result(p, k, {t}, value)  BY <3>7, <3>8 DEF Result
    <3>10. Result(p, k, {t}, value)' /\ PoliciesInPath(p, k)' = sorted
      BY <3>1, <3>9, ResultsStay
    <3>11. Reduced(p, k, N, value)'
      BY <3>5, <3>10 DEF Reduced
    <3>12. IsValue(value)'  BY <3>6 DEF IsValue
    <3>. QED BY <3>1, <3>2, <3>3, <3>6, <3>10, <3>11, <3>12 DEF MergeInv
  <2>2. CASE Merge
    <3>1. Turn
      BY <2>2 DEF Merge, MergeDirect, MergeAtomicDefaults, MergeAtomicOverrides,
                  MergePolicyRuleDefaults, MergePolicyRuleOverrides
    <3>. PICK p, k, n, value : p = path /\ k = kind /\ n = i - 1 /\ value = effective'
      OBVIOUS
    <3>2. /\ ~Idle /\ i > 0 /\ path' = p /\ kind' = k /\ policies' = policies
          /\ i' = n /\ UNCHANGED config
      BY <3>1 DEF Turn, LoopInv, loops
    <3>3. /\ InPath(p, k) # {} /\ policies = PoliciesInPath(p, k)
          /\ i \in 0..Cardinality(InPath(p, k)) /\ p \in Paths
      BY <3>2 DEF MergeInv, LoopInv
    <3>4. Reduced(p, k, n, value) /\ IsValue(value)
      BY <2>2, TurnReduces
    <3>5. Cardinality(InPath(p, k)) \in Nat  BY <3>3, Sorted
    <3>6. n \in 0..Cardinality(InPath(p, k))  BY <3>2, <3>3, <3>5
    <3>7. PoliciesInPath(p, k)' = PoliciesInPath(p, k)  BY <3>2, ResultsStay
    <3>8. Reduced(p, k, n, value)'
      BY <3>2, <3>4, <3>7, ResultsStay DEF Reduced
    <3>. QED BY <3>2, <3>3, <3>4, <3>6, <3>7, <3>8 DEF MergeInv
  <2>3. CASE UNCHANGED <<config, loops, policies, i, effective>>
    <3>. PICK p, k, n, value : p = path /\ k = kind /\ n = i /\ value = effective
      OBVIOUS
    <3>1. /\ ~Idle /\ path' = p /\ kind' = k /\ policies' = policies
          /\ i' = n /\ effective' = value /\ UNCHANGED config
      BY <2>3 DEF loops, Idle
    <3>2. /\ InPath(p, k) # {} /\ policies = PoliciesInPath(p, k)
          /\ n \in 0..Cardinality(InPath(p, k)) /\ IsValue(value)
          /\ Reduced(p, k, n, value)
      BY <3>1 DEF MergeInv
    <3>3. PoliciesInPath(p, k)' = PoliciesInPath(p, k)  BY <3>1, ResultsStay
    <3>4. Reduced(p, k, n, value)'
      BY <3>1, <3>2, <3>3, ResultsStay DEF Reduced
    <3>. QED BY <3>1, <3>2, <3>3, <3>4 DEF MergeInv
  <2>4. CASE kind' = kind /\ Idle
    BY <2>4 DEF Idle
  <2>5. ASSUME NEW g \in Gateways, TakeGateway(g) PROVE kind' = kind /\ Idle
    BY <2>5 DEF TakeGateway
  <2>6. ASSUME NEW p \in Paths, TakePath(p) PROVE kind' = kind /\ Idle
    BY <2>6 DEF TakePath
  <2>7. NoPolicies => kind' = kind /\ Idle  BY DEF NoPolicies
  <2>8. ~Finish  BY DEF Finish, Idle
  <2>9. UNCHANGED vars => UNCHANGED <<config, loops, policies, i, effective>>
    BY DEF vars, config, loops
  <2>. QED BY <2>1, <2>2, <2>3, <2>4, <2>5, <2>6, <2>7, <2>8, <2>9 DEF Next
<1>. QED BY <1>1, <1>2, ConfiguredHolds, LoopHolds, PTL DEF Spec

LEMMA ComputedHolds == Spec => []ComputedInv
<1>1. Init => ComputedInv  BY DEF Init, ComputedInv
<1>2. Configured /\ LoopInv /\ MergeInv /\ ComputedInv /\ [Next]_vars => ComputedInv'
  <2>. SUFFICES ASSUME Configured, LoopInv, MergeInv, ComputedInv, [Next]_vars
                PROVE  ComputedInv'
    OBVIOUS
  <2>1. UNCHANGED config
    BY DEF Next, vars, config, TakeGateway, TakePath, NoPolicies, GatherPolicies,
           Merge, MergeDirect, MergeAtomicDefaults, MergeAtomicOverrides,
           MergePolicyRuleDefaults, MergePolicyRuleOverrides, Turn, Finish
  <2>2. ASSUME NEW job, NEW value, Right(job, value) PROVE Right(job, value)'
    <3>1. PICK p \in Paths :
            \E k : /\ job = <<p, k>> /\ InPath(p, k) # {}
                   /\ Result(p, k, InPath(p, k), value)
      BY <2>2 DEF Right
    <3>. PICK k : /\ job = <<p, k>> /\ InPath(p, k) # {}
                  /\ Result(p, k, InPath(p, k), value)
      BY <3>1
    <3>2. Result(p, k, InPath(p, k), value)'  BY <2>1, ResultsStay
    <3>. QED BY <3>2 DEF Right
  <2>3. CASE computed' = computed
    BY <2>2, <2>3 DEF ComputedInv
  <2>4. CASE Finish
    <3>. PICK p, k, value, next, result :
            /\ p = path /\ k = kind /\ value = effective
            /\ next = computed' /\ result = next[<<p, k>>]
      OBVIOUS
    <3>1. ~Idle /\ i = 0  BY <2>4 DEF Finish
    <3>2. p \in Paths /\ InPath(p, k) # {} /\ Reduced(p, k, 0, value)
      BY <3>1 DEF LoopInv, MergeInv
    <3>3. Result(p, k, InPath(p, k), value)
      BY <3>2, SeenInTheEnd DEF Reduced
    <3>4. /\ DOMAIN next = DOMAIN computed \cup {<<p, k>>}
          /\ \A job \in DOMAIN computed : job # <<p, k>> => next[job] = computed[job]
          /\ result = [locator |-> value.locator,
                       rules |-> [r \in RulesOf(value) |->
                           [origin |-> value.rules[r].origin,
                            source |-> GetSource(value, r)]]]
      BY <2>4 DEF Finish
    <3>5. /\ result.locator = value.locator /\ RulesOf(result) = RulesOf(value)
          /\ \A r \in RulesOf(value) : result.rules[r].origin = value.rules[r].origin
      BY <3>4 DEF RulesOf
    <3>6. Result(p, k, InPath(p, k), result)
      BY <3>3, <3>5 DEF Result, Merged, WinsRule
    <3>7. Right(<<p, k>>, result)  BY <3>2, <3>6 DEF Right
    <3>8. ASSUME NEW job \in DOMAIN next PROVE Right(job, next[job])'
      <4>. PICK v : v = next[job]  OBVIOUS
      <4>1. CASE job = <<p, k>>
        <5>1. Right(job, v)  BY <3>7, <4>1
        <5>. QED BY <2>2, <5>1
      <4>2. CASE job # <<p, k>>
        <5>1. job \in DOMAIN computed /\ v = computed[job]  BY <3>4, <4>2
        <5>2. Right(job, v)  BY <5>1 DEF ComputedInv
        <5>. QED BY <2>2, <5>2
      <4>. QED BY <4>1, <4>2
    <3>. QED BY <3>8 DEF ComputedInv
  <2>5. [Next]_vars /\ ~Finish => computed' = computed
    BY DEF Next, vars, TakeGateway, TakePath, NoPolicies, GatherPolicies,
           Merge, MergeDirect, MergeAtomicDefaults, MergeAtomicOverrides,
           MergePolicyRuleDefaults, MergePolicyRuleOverrides, Turn
  <2>. QED BY <2>3, <2>4, <2>5
<1>. QED BY <1>1, <1>2, ConfiguredHolds, LoopHolds, MergeHolds, PTL DEF Spec

-----------------------------------------------------------------------------
(* Lowest and Highest are the ones there can be but one of.                *)
LEMMA LowestIs ==
    ASSUME Configured, NEW p \in Paths, NEW k, NEW S \in SUBSET InPath(p, k),
           NEW q, IsLowest(p, S, q)
    PROVE  Lowest(p, S) = q
<1>1. \A r \in S : (\A s \in S \ {r} : Above(p, s, r)) => r = q
  BY AboveIsLinear DEF IsLowest
<1>. QED BY <1>1 DEF IsLowest, Lowest

LEMMA HighestIs ==
    ASSUME Configured, NEW p \in Paths, NEW k, NEW S \in SUBSET InPath(p, k),
           NEW q, IsHighest(p, S, q)
    PROVE  Highest(p, S) = q
<1>1. \A r \in S : (\A s \in S \ {r} : Above(p, r, s)) => r = q
  BY AboveIsLinear DEF IsHighest
<1>. QED BY <1>1 DEF IsHighest, Highest

LEMMA WinnerIs ==
    ASSUME Configured, NEW p \in Paths, NEW k, NEW C \in SUBSET InPath(p, k),
           NEW w, IsWinner(p, C, w)
    PROVE  Winner(p, C) = w
<1>. DEFINE overriding == {q \in C : PolicyRuleOverrides(q)}
<1>1. CASE overriding # {}
  <2>1. IsHighest(p, overriding, w)  BY <1>1 DEF IsWinner, IsHighest
  <2>2. Highest(p, overriding) = w  BY <2>1, HighestIs
  <2>. QED BY <1>1, <2>2 DEF Winner
<1>2. CASE overriding = {}
  <2>1. IsLowest(p, C, w)  BY <1>2 DEF IsWinner
  <2>2. Lowest(p, C) = w  BY <2>1, LowestIs
  <2>. QED BY <1>2, <2>2 DEF Winner
<1>. QED BY <1>1, <1>2

(* Each rule of an effective policy is that of the policy entitled to it:  *)
(* the least specific override, or else the most specific default, of      *)
(* those that no atomic policy discards; whichever order the merge         *)
(* strategies are met in (merge_strategies.go, PoliciesInPath).            *)
THEOREM WinnersPrevail == Spec => []EffectiveIsWinner
<1>1. Configured /\ ComputedInv => EffectiveIsWinner
  <2>. SUFFICES ASSUME Configured, NEW p \in Paths, NEW k, NEW result,
                       InPath(p, k) # {}, Result(p, k, InPath(p, k), result)
                PROVE  IF ~Mergeable(k) THEN result.locator = Highest(p, InPath(p, k))
                       ELSE /\ result.locator = Bottom(p, k)
                            /\ \A rule \in Rules :
                                 LET contributors == Contributors(p, k, rule)
                                 IN  IF contributors = {} THEN rule \notin RulesOf(result)
                                     ELSE /\ rule \in RulesOf(result)
                                          /\ result.rules[rule].origin =
                                                 Winner(p, contributors)
    BY DEF ComputedInv, Right, EffectiveIsWinner
  <2>1. CASE ~Mergeable(k)
    BY <2>1, HighestIs DEF Result
  <2>2. CASE Mergeable(k)
    <3>. DEFINE b == result.locator
    <3>1. KeptOf(p, InPath(p, k)) = Kept(p, k) /\ Kept(p, k) \subseteq InPath(p, k)
      BY DEF KeptOf, Kept
    <3>2. IsLowest(p, Kept(p, k), b)  BY <2>2, <3>1 DEF Result, Merged
    <3>3. Bottom(p, k) = b  BY <3>1, <3>2, LowestIs DEF Bottom
    <3>4. ASSUME NEW rule \in Rules
          PROVE  LET contributors == Contributors(p, k, rule)
                 IN  IF contributors = {} THEN rule \notin RulesOf(result)
                     ELSE /\ rule \in RulesOf(result)
                          /\ result.rules[rule].origin = Winner(p, contributors)
      <4>1. Contribute(p, InPath(p, k), b, rule) = Contributors(p, k, rule)
        BY <3>1, <3>3 DEF Contribute, Contributors
      <4>2. WinsRule(p, Contributors(p, k, rule), result, rule)
        BY <2>2, <4>1 DEF Result, Merged
      <4>3. Contributors(p, k, rule) \subseteq InPath(p, k)
        BY <3>1 DEF Contributors
      <4>. QED BY <4>2, <4>3, WinnerIs DEF WinsRule
    <3>. QED BY <2>2, <3>3, <3>4
  <2>. QED BY <2>1, <2>2
<1>. QED BY <1>1, ConfiguredHolds, ComputedHolds, PTL

-----------------------------------------------------------------------------
(***************************************************************************)
(* What rules are traced to.                                               *)
(***************************************************************************)

(* The policies in a path that one of them does not yield to: itself and   *)
(* those below it.                                                         *)
FromOn(p, k, q) == {r \in InPath(p, k) : ~Above(p, r, q)}

FromBelow(p, k, S) == \A q \in S, r \in InPath(p, k) : Above(p, q, r) => r \in S

(* From a policy that is kept on, what is kept depends on nothing above.   *)
LEMMA KeptFrom ==
    ASSUME Configured, NEW p \in Paths, NEW k, NEW S \in SUBSET InPath(p, k),
           FromBelow(p, k, S), NEW q \in KeptOf(p, S)
    PROVE  /\ q \in FromOn(p, k, q) /\ FromOn(p, k, q) \subseteq S
           /\ KeptOf(p, FromOn(p, k, q)) = KeptOf(p, S) \cap FromOn(p, k, q)
           /\ \A r \in S \ FromOn(p, k, q) : Above(p, r, q)
<1>. DEFINE T == FromOn(p, k, q)
<1>1. q \in S /\ q \in InPath(p, k)  BY DEF KeptOf
<1>2. q \in T  BY <1>1, AboveIsLinear DEF FromOn
<1>3. T \subseteq S  BY <1>1, AboveIsLinear DEF FromOn, FromBelow
<1>4. \A r \in S \ T : Above(p, r, q)  BY DEF FromOn
<1>5. \A r \in S \ T : ~AtomicOverrides(r)  BY <1>4 DEF KeptOf
<1>. HIDE DEF T
<1>6. KeptOf(p, T) = KeptOf(p, S) \cap T  BY <1>3, <1>5 DEF KeptOf
<1>. QED BY <1>2, <1>3, <1>4, <1>6 DEF T

LEMMA LowestFrom ==
    ASSUME Configured, NEW p \in Paths, NEW k, NEW S \in SUBSET InPath(p, k),
           FromBelow(p, k, S), NEW q \in KeptOf(p, S), NEW v
    PROVE  IsLowest(p, KeptOf(p, S), v) <=> IsLowest(p, KeptOf(p, FromOn(p, k, q)), v)
<1>. DEFINE T == FromOn(p, k, q)
<1>1. /\ q \in T /\ T \subseteq S
      /\ KeptOf(p, T) = KeptOf(p, S) \cap T
      /\ \A r \in S \ T : Above(p, r, q)
  BY KeptFrom
<1>2. KeptOf(p, S) \subseteq S  BY DEF KeptOf
<1>3. T = {r \in InPath(p, k) : ~Above(p, r, q)}  BY DEF FromOn
<1>. HIDE DEF T
<1>4. ASSUME IsLowest(p, KeptOf(p, S), v) PROVE IsLowest(p, KeptOf(p, T), v)
  <2>1. v \in T
    BY <1>1, <1>2, <1>3, <1>4, AboveIsLinear DEF IsLowest
  <2>. QED BY <1>1, <1>4, <2>1 DEF IsLowest
<1>5. ASSUME IsLowest(p, KeptOf(p, T), v) PROVE IsLowest(p, KeptOf(p, S), v)
  <2>1. v = q \/ Above(p, q, v)  BY <1>1, <1>5 DEF IsLowest
  <2>2. \A r \in S \ T : Above(p, r, v)
    BY <1>1, <1>2, <1>5, <2>1, AboveIsLinear DEF IsLowest
  <2>. QED BY <1>1, <1>2, <1>5, <2>2 DEF IsLowest
<1>. QED BY <1>4, <1>5 DEF T

(* The policies merged so far.                                             *)
LEMMA SeenFromBelow ==
    ASSUME Configured, NEW p \in Paths, NEW k, NEW N, N = Cardinality(InPath(p, k)),
           NEW n \in 0..N, NEW sorted, sorted = PoliciesInPath(p, k)
    PROVE  /\ Seen(sorted, N, n) \subseteq InPath(p, k)
           /\ FromBelow(p, k, Seen(sorted, N, n))
<1>1. /\ N \in Nat /\ sorted \in [1..N -> InPath(p, k)]
      /\ \A m, l \in 1..N : m < l => Above(p, sorted[m], sorted[l])
      /\ \A q \in InPath(p, k) : \E m \in 1..N : sorted[m] = q
  BY Sorted
<1>2. Seen(sorted, N, n) \subseteq InPath(p, k)  BY <1>1 DEF Seen
<1>3. ASSUME NEW q \in Seen(sorted, N, n), NEW r \in InPath(p, k), Above(p, q, r)
      PROVE  r \in Seen(sorted, N, n)
  <2>1. PICK j \in 1..N : q = sorted[j] /\ (j > n \/ j = N)  BY DEF Seen
  <2>2. PICK l \in 1..N : r = sorted[l]  BY <1>1
  <2>3. ~(l < j)
    <3>1. l < j => Above(p, r, q)  BY <1>1, <2>1, <2>2
    <3>2. q \in InPath(p, k)  BY <1>2
    <3>. QED BY <1>3, <3>1, <3>2, AboveIsLinear
  <2>4. l > n \/ l = N  BY <1>1, <2>1, <2>3
  <2>. QED BY <2>2, <2>4 DEF Seen
<1>. QED BY <1>2, <1>3 DEF FromBelow

(* The order by positions, of policies that need not be of one kind.       *)
LEMMA AboveAt ==
    ASSUME NEW p \in Paths, NEW m \in DOMAIN p, NEW n \in DOMAIN p,
           NEW q, NEW r, p[m] = Target[q], p[n] = Target[r]
    PROVE  Above(p, q, r) <=> m < n \/ (m = n /\ OlderFirst(q, r))
<1>1. \A x \in DOMAIN p : (p[x] = Target[q] => x = m) /\ (p[x] = Target[r] => x = n)
  BY PathsAssumption
<1>. QED BY <1>1 DEF Above, OlderFirst

(* A path that comes to the target of w along p and leaves it along o.     *)
Joins(j, p, o, k, w) ==
    /\ IsRulePath[j] /\ w \in InPath(j, k)
    /\ \A r \in Policies : Above(j, r, w) <=> Above(p, r, w)
    /\ FromOn(j, k, w) = FromOn(o, k, w)
    /\ \A r, s \in FromOn(o, k, w) : Above(j, r, s) <=> Above(o, r, s)

(* A path with another from some place on.                                 *)
Continues(j, p, m, o, n) ==
    /\ DOMAIN j = 1..(m + (Len(o) - n))
    /\ \A x \in 1..m : j[x] = p[x]
    /\ \A x \in (m + 1)..(m + (Len(o) - n)) : j[x] = o[(x - m) + n]

(* The places of two sequences in the one appended to the other.           *)
LEMMA Appended ==
    ASSUME NEW a \in Seq(Targetables), NEW b \in Seq(Targetables)
    PROVE  /\ DOMAIN (a \o b) = 1..(Len(a) + Len(b))
           /\ \A x \in 1..Len(a) : (a \o b)[x] = a[x]
           /\ \A x \in (Len(a) + 1)..(Len(a) + Len(b)) : (a \o b)[x] = b[x - Len(a)]
<1>. DEFINE j == a \o b
<1>1. j \in Seq(Targetables) /\ Len(j) = Len(a) + Len(b)  OBVIOUS
<1>2. DOMAIN j = 1..(Len(a) + Len(b))
  <2>. HIDE DEF j
  <2>. QED BY <1>1
<1>. QED BY <1>2

LEMMA Continued ==
    ASSUME NEW p \in Seq(Targetables), NEW m \in 1..Len(p),
           NEW o \in Seq(Targetables), NEW n \in 1..Len(o)
    PROVE  Continues(SubSeq(p, 1, m) \o SubSeq(o, n + 1, Len(o)), p, m, o, n)
<1>. DEFINE a == SubSeq(p, 1, m)
            b == SubSeq(o, n + 1, Len(o))
            rest == Len(o) - n
            j == a \o b
<1>1. a \in Seq(Targetables) /\ Len(a) = m /\ \A x \in 1..m : a[x] = p[x]
  OBVIOUS
<1>2. b \in Seq(Targetables) /\ Len(b) = rest
      /\ \A x \in 1..rest : b[x] = o[n + x]
  OBVIOUS
<1>3. m \in Nat /\ n \in Nat /\ rest \in Nat  OBVIOUS
<1>. HIDE DEF a, b
<1>4. /\ DOMAIN j = 1..(m + rest)
      /\ \A x \in 1..m : j[x] = a[x]
      /\ \A x \in (m + 1)..(m + rest) : j[x] = b[x - m]
  <2>1. /\ DOMAIN j = 1..(Len(a) + Len(b))
        /\ \A x \in 1..Len(a) : j[x] = a[x]
        /\ \A x \in (Len(a) + 1)..(Len(a) + Len(b)) : j[x] = b[x - Len(a)]
    BY <1>1, <1>2, Appended
  <2>. HIDE DEF j, rest
  <2>. QED BY <1>1, <1>2, <2>1
<1>. HIDE DEF j, rest
<1>5. ASSUME NEW x \in (m + 1)..(m + rest) PROVE j[x] = o[(x - m) + n]
  <2>. PICK y : y = x - m  OBVIOUS
  <2>1. y \in 1..rest /\ n + y = y + n  BY <1>3
  <2>. QED BY <1>2, <1>4, <2>1
<1>6. \A x \in 1..m : j[x] = p[x]  BY <1>1, <1>4
<1>7. Continues(j, p, m, o, n)  BY <1>4, <1>5, <1>6, Zenon DEF Continues, rest
<1>. QED BY <1>7 DEF j, a, b

LEMMA Joined ==
    ASSUME NEW p \in Paths, NEW o \in Paths, IsRulePath[o],
           NEW k, NEW w \in InPath(p, k), w \in InPath(o, k)
    PROVE  \E j \in Paths : Joins(j, p, o, k, w)
<1>. DEFINE m == PositionIn(p, w)
            n == PositionIn(o, w)
<1>1. /\ p \in Seq(Targetables) /\ o \in Seq(Targetables)
      /\ \A x, y \in DOMAIN o : o[x] = o[y] => x = y
      /\ \A x, y \in DOMAIN p : p[x] = p[y] => x = y
  BY PathsAssumption
<1>2. /\ w \in Policies
      /\ m \in DOMAIN p /\ m \in Nat /\ p[m] = Target[w]
      /\ n \in DOMAIN o /\ n \in Nat /\ o[n] = Target[w]
  BY Positions
<1>. HIDE DEF m, n
<1>3. PICK j \in Paths : IsRulePath[j] /\ Continues(j, p, m, o, n)
  <2>1. SubSeq(p, 1, m) \o SubSeq(o, n + 1, Len(o)) \in Paths
        /\ IsRulePath[SubSeq(p, 1, m) \o SubSeq(o, n + 1, Len(o))]
    BY <1>2, RulePathsJoin
  <2>2. m \in 1..Len(p) /\ n \in 1..Len(o)  BY <1>1, <1>2
  <2>3. Continues(SubSeq(p, 1, m) \o SubSeq(o, n + 1, Len(o)), p, m, o, n)
    BY <1>1, <2>2, Continued
  <2>. QED BY <2>1, <2>3, Zenon
<1>4. \A x, y \in DOMAIN j : j[x] = j[y] => x = y  BY <1>3, PathsAssumption
<1>. PICK P, O : P = Len(p) /\ O = Len(o)  OBVIOUS
<1>5. P \in Nat /\ O \in Nat /\ m \in 1..P /\ n \in 1..O
  BY <1>1, <1>2
<1>6. /\ DOMAIN j = 1..(m + (O - n))
      /\ \A x \in 1..m : j[x] = p[x]
      /\ \A x \in (m + 1)..(m + (O - n)) : j[x] = o[(x - m) + n]
  BY <1>3, Zenon DEF Continues
<1>7. m \in DOMAIN j /\ j[m] = Target[w]  BY <1>2, <1>5, <1>6
<1>8. \A x \in 0..(O - n) : j[m + x] = o[n + x] /\ m + x \in DOMAIN j /\ n + x \in DOMAIN o
  <2>. SUFFICES ASSUME NEW x \in 0..(O - n)
                PROVE  j[m + x] = o[n + x] /\ m + x \in DOMAIN j /\ n + x \in DOMAIN o
    OBVIOUS
  <2>1. m + x \in DOMAIN j /\ n + x \in 1..O  BY <1>5, <1>6
  <2>2. CASE x = 0  BY <1>2, <1>5, <1>7, <2>1, <2>2, <1>1
  <2>3. CASE x # 0
    <3>. PICK y : y = m + x  OBVIOUS
    <3>1. y \in (m + 1)..(m + (O - n)) /\ (y - m) + n = n + x  BY <1>5, <2>3
    <3>. QED BY <1>1, <1>6, <2>1, <3>1
  <2>. QED BY <2>2, <2>3
<1>9. ASSUME NEW r \in Policies PROVE Above(j, r, w) <=> Above(p, r, w)
  <2>1. ASSUME NEW x \in DOMAIN j, j[x] = Target[r], Above(j, r, w)
        PROVE  Above(p, r, w)
    <3>1. x < m \/ (x = m /\ OlderFirst(r, w))  BY <1>3, <1>7, <2>1, AboveAt
    <3>2. x \in DOMAIN p /\ p[x] = Target[r]  BY <1>1, <1>5, <1>6, <2>1, <3>1
    <3>. QED BY <1>2, <3>1, <3>2, AboveAt
  <2>2. ASSUME NEW x \in DOMAIN p, p[x] = Target[r], Above(p, r, w)
        PROVE  Above(j, r, w)
    <3>1. x < m \/ (x = m /\ OlderFirst(r, w))  BY <1>2, <2>2, AboveAt
    <3>2. x \in DOMAIN j /\ j[x] = Target[r]  BY <1>1, <1>5, <1>6, <2>2, <3>1
    <3>. QED BY <1>3, <1>7, <3>1, <3>2, AboveAt
  <2>. QED BY <2>1, <2>2 DEF Above
<1>10. ASSUME NEW r \in FromOn(o, k, w)
       PROVE  \E x \in 0..(O - n) : o[n + x] = Target[r]
  <2>1. PICK y \in DOMAIN o : o[y] = Target[r]  BY DEF FromOn, InPath
  <2>2. ~(y < n)  BY <1>2, <2>1, AboveAt DEF FromOn
  <2>3. y - n \in 0..(O - n) /\ n + (y - n) = y  BY <1>1, <1>5, <2>1, <2>2
  <2>. QED BY <2>1, <2>3
<1>11. ASSUME NEW r \in FromOn(j, k, w)
       PROVE  \E x \in 0..(O - n) : o[n + x] = Target[r]
  <2>1. PICK y \in DOMAIN j : j[y] = Target[r]  BY DEF FromOn, InPath
  <2>2. ~(y < m)  BY <1>3, <1>7, <2>1, AboveAt DEF FromOn
  <2>3. y - m \in 0..(O - n) /\ m + (y - m) = y  BY <1>5, <1>6, <2>1, <2>2
  <2>4. j[m + (y - m)] = o[n + (y - m)]  BY <1>8, <2>3
  <2>. QED BY <2>1, <2>3, <2>4
<1>12. ASSUME NEW r, NEW x \in 0..(O - n), o[n + x] = Target[r],
              NEW s, NEW y \in 0..(O - n), o[n + y] = Target[s]
       PROVE  Above(j, r, s) <=> Above(o, r, s)
  <2>. PICK a, b, c, d : a = m + x /\ b = m + y /\ c = n + x /\ d = n + y  OBVIOUS
  <2>1. /\ a \in DOMAIN j /\ b \in DOMAIN j /\ j[a] = Target[r] /\ j[b] = Target[s]
        /\ c \in DOMAIN o /\ d \in DOMAIN o /\ o[c] = Target[r] /\ o[d] = Target[s]
    BY <1>8, <1>12
  <2>2. (a < b <=> c < d) /\ (a = b <=> c = d)  BY <1>5
  <2>3. Above(j, r, s) <=> a < b \/ (a = b /\ OlderFirst(r, s))
    BY <1>3, <2>1, AboveAt
  <2>4. Above(o, r, s) <=> c < d \/ (c = d /\ OlderFirst(r, s))
    BY <2>1, AboveAt
  <2>. QED BY <2>2, <2>3, <2>4
<1>13. 0 \in 0..(O - n) /\ o[n + 0] = Target[w]  BY <1>2, <1>5
<1>14. FromOn(j, k, w) = FromOn(o, k, w)
  <2>1. ASSUME NEW r \in FromOn(o, k, w) PROVE r \in FromOn(j, k, w)
    <3>1. PICK x \in 0..(O - n) : o[n + x] = Target[r]  BY <1>10
    <3>2. \E y \in DOMAIN j : j[y] = Target[r]  BY <1>8, <3>1
    <3>3. ~Above(j, r, w)  BY <1>12, <1>13, <3>1 DEF FromOn
    <3>. QED BY <3>2, <3>3 DEF FromOn, InPath
  <2>2. ASSUME NEW r \in FromOn(j, k, w) PROVE r \in FromOn(o, k, w)
    <3>1. PICK x \in 0..(O - n) : o[n + x] = Target[r]  BY <1>11
    <3>2. \E y \in DOMAIN o : o[y] = Target[r]  BY <1>8, <3>1
    <3>3. ~Above(o, r, w)  BY <1>12, <1>13, <3>1 DEF FromOn
    <3>. QED BY <3>2, <3>3 DEF FromOn, InPath
  <2>. QED BY <2>1, <2>2
<1>15. \A r, s \in FromOn(o, k, w) : Above(j, r, s) <=> Above(o, r, s)
  BY <1>10, <1>12
<1>16. w \in InPath(j, k)  BY <1>2, <1>7 DEF InPath
<1>. QED BY <1>3, <1>9, <1>14, <1>15, <1>16 DEF Joins

(* What q may have been traced to along some path of rules.                *)
AlongPath(q, v) ==
    \E o \in Paths :
        /\ IsRulePath[o] /\ q \in InPath(o, Kind[q])
        /\ IsLowest(o, KeptOf(o, FromOn(o, Kind[q], q)), v)

LEMMA SomeOtherPath ==
    ASSUME Configured, NEW p \in Paths, NEW k, NEW w \in Kept(p, k), NEW v,
           AlongPath(w, v)
    PROVE  \E j \in Paths : IsRulePath[j] /\ w \in Kept(j, k) /\ v = Bottom(j, k)
<1>1. w \in InPath(p, k) /\ k = Kind[w]  BY DEF Kept, InPath
<1>2. PICK o \in Paths :
        /\ IsRulePath[o] /\ w \in InPath(o, k)
        /\ IsLowest(o, KeptOf(o, FromOn(o, k, w)), v)
  BY <1>1 DEF AlongPath
<1>. PICK j \in Paths : Joins(j, p, o, k, w)
  BY <1>1, <1>2, Joined
<1>3. /\ IsRulePath[j] /\ w \in InPath(j, k)
      /\ \A r \in Policies : Above(j, r, w) <=> Above(p, r, w)
      /\ FromOn(j, k, w) = FromOn(o, k, w)
      /\ \A r, s \in FromOn(o, k, w) : Above(j, r, s) <=> Above(o, r, s)
  BY DEF Joins
<1>4. w \in Kept(j, k)
  <2>. SUFFICES ASSUME NEW r \in InPath(j, k), AtomicOverrides(r), Above(j, r, w)
                PROVE  FALSE
    BY <1>3 DEF Kept
  <2>1. r \in Policies /\ Kind[r] = k  BY DEF InPath
  <2>2. Above(p, r, w)  BY <1>3, <2>1
  <2>3. r \in InPath(p, k)  BY <2>1, <2>2 DEF Above, InPath
  <2>. QED BY <2>2, <2>3 DEF Kept
<1>5. Kept(j, k) = KeptOf(j, InPath(j, k))  BY DEF Kept, KeptOf
<1>6. IsLowest(j, KeptOf(j, FromOn(j, k, w)), v)
  <2>. DEFINE T == FromOn(o, k, w)
  <2>. HIDE DEF T
  <2>1. FromOn(j, k, w) = T /\ \A r, s \in T : Above(j, r, s) <=> Above(o, r, s)
    BY <1>3 DEF T
  <2>2. KeptOf(j, T) = KeptOf(o, T) /\ KeptOf(o, T) \subseteq T
    BY <2>1 DEF KeptOf
  <2>3. IsLowest(o, KeptOf(o, T), v)  BY <1>2 DEF T
  <2>. QED BY <2>1, <2>2, <2>3 DEF IsLowest
<1>7. FromBelow(j, k, InPath(j, k))  BY DEF FromBelow
<1>8. IsLowest(j, Kept(j, k), v)  BY <1>4, <1>5, <1>6, <1>7, LowestFrom
<1>9. Bottom(j, k) = v
  <2>1. Kept(j, k) \subseteq InPath(j, k)  BY DEF Kept
  <2>. QED BY <1>8, <2>1, LowestIs DEF Bottom
<1>. QED BY <1>3, <1>4, <1>9

(* A rule's source, given the sources of those held by pointer.            *)
SourceIn(value, r, c) ==
    IF value.rules[r].pointer THEN c[<<value.rules[r].origin, r>>]
    ELSE value.rules[r].source

PointersShared(value) ==
    \A r \in RulesOf(value) : value.rules[r].pointer => r \in Shared

Cells == [Policies \X Shared -> Policies \cup {None}]

LEMMA ValueSources ==
    ASSUME NEW q \in Policies
    PROVE  /\ PointersShared(AsValue(q))
           /\ \A r \in spec[q].rules :
                 /\ AsValue(q).rules[r].source = q
                 /\ AsValue(q).rules[r].pointer <=> r \in Shared
<1>1. AsValue(q).rules = [r \in spec[q].rules |->
                             [origin |-> q, source |-> q, pointer |-> r \in Shared]]
  BY DEF AsValue
<1>2. \A r \in spec[q].rules :
        AsValue(q).rules[r] = [origin |-> q, source |-> q, pointer |-> r \in Shared]
  BY <1>1
<1>3. RulesOf(AsValue(q)) = spec[q].rules  BY <1>1 DEF RulesOf
<1>4. ASSUME NEW r \in spec[q].rules
      PROVE  /\ AsValue(q).rules[r].source = q
             /\ AsValue(q).rules[r].pointer <=> r \in Shared
  <2>. PICK b : b = (r \in Shared)  OBVIOUS
  <2>1. AsValue(q).rules[r] = [origin |-> q, source |-> q, pointer |-> b]  BY <1>2
  <2>2. AsValue(q).rules[r].source = q /\ AsValue(q).rules[r].pointer = b  BY <2>1
  <2>. QED BY <2>2, Zenon
<1>. QED BY <1>3, <1>4 DEF PointersShared

LEMMA CopySources ==
    ASSUME NEW value, IsValue(value), NEW c
    PROVE  /\ PointersShared(Copy(value))
           /\ \A r \in RulesOf(value) : SourceIn(Copy(value), r, c) = value.locator
<1>1. Copy(value).rules =
            [r \in RulesOf(value) |-> [origin |-> value.rules[r].origin,
                                       source |-> value.locator, pointer |-> FALSE]]
  BY DEF Copy
<1>2. RulesOf(Copy(value)) = RulesOf(value)  BY <1>1 DEF RulesOf
<1>3. \A r \in RulesOf(value) :
        /\ Copy(value).rules[r].source = value.locator
        /\ ~Copy(value).rules[r].pointer
  BY <1>1
<1>. QED BY <1>2, <1>3 DEF PointersShared, SourceIn

LEMMA UnionSources ==
    ASSUME NEW first, NEW second, NEW target, IsValue(first), IsValue(second),
           PointersShared(first), PointersShared(second), cell \in Cells,
           NEW u, u = Union(first, second, target),
           NEW c, c = Stamp(first, second)
    PROVE  /\ PointersShared(u) /\ c \in Cells
           /\ \A r \in RulesOf(first) : SourceIn(u, r, c) = first.locator
           /\ \A r \in RulesOf(second) \ RulesOf(first) :
                 \/ /\ SourceIn(u, r, c) = SourceIn(second, r, cell)
                    /\ second.rules[r].pointer => cell[<<second.rules[r].origin, r>>] # None
                 \/ /\ second.rules[r].pointer
                    /\ cell[<<second.rules[r].origin, r>>] = None
                    /\ SourceIn(u, r, c) = second.locator
           /\ \A q \in Policies : \A r \in Shared :
                 \/ c[<<q, r>>] = cell[<<q, r>>]
                 \/ /\ c[<<q, r>>] = first.locator
                    /\ r \in RulesOf(first) /\ q = first.rules[r].origin
                 \/ /\ c[<<q, r>>] = second.locator
                    /\ r \in RulesOf(second) /\ q = second.rules[r].origin
<1>1. u.rules = [r \in RulesOf(first) \cup RulesOf(second) |->
                    IF r \in RulesOf(first)
                    THEN [first.rules[r] EXCEPT !.source = first.locator]
                    ELSE second.rules[r]]
  BY DEF Union
<1>2. RulesOf(u) = RulesOf(first) \cup RulesOf(second)  BY <1>1 DEF RulesOf
<1>3. ASSUME NEW r \in RulesOf(first)
      PROVE  /\ u.rules[r].source = first.locator
             /\ u.rules[r].pointer = first.rules[r].pointer
             /\ u.rules[r].origin = first.rules[r].origin
  <2>1. u.rules[r] = [first.rules[r] EXCEPT !.source = first.locator]  BY <1>1
  <2>2. first.rules[r] \in RuleValues  BY DEF IsValue
  <2>. QED BY <2>1, <2>2 DEF RuleValues
<1>4. \A r \in RulesOf(second) \ RulesOf(first) : u.rules[r] = second.rules[r]
  BY <1>1
<1>5. PointersShared(u)
  BY <1>2, <1>3, <1>4 DEF PointersShared
<1>6. /\ first.locator \in Policies /\ second.locator \in Policies
      /\ \A r \in RulesOf(first) : first.rules[r].origin \in Policies
      /\ \A r \in RulesOf(second) : second.rules[r].origin \in Policies
  BY DEF IsValue, RuleValues
<1>7. ASSUME NEW q \in Policies, NEW r \in Shared
      PROVE  c[<<q, r>>] = IF <<q, r>> \in Pointers(first) THEN first.locator
                           ELSE IF <<q, r>> \in Pointers(second) /\ cell[<<q, r>>] = None
                           THEN second.locator ELSE cell[<<q, r>>]
  <2>1. <<q, r>> \in DOMAIN cell  BY DEF Cells
  <2>. QED BY <2>1 DEF Stamp
<1>8. \A q, r : /\ <<q, r>> \in Pointers(first) <=>
                     /\ r \in RulesOf(first) /\ first.rules[r].pointer
                     /\ q = first.rules[r].origin
                /\ <<q, r>> \in Pointers(second) <=>
                     /\ r \in RulesOf(second) /\ second.rules[r].pointer
                     /\ q = second.rules[r].origin
  BY DEF Pointers
<1>9. c \in Cells
  BY <1>6 DEF Stamp, Cells
<1>10. ASSUME NEW r \in RulesOf(first) PROVE SourceIn(u, r, c) = first.locator
  <2>1. CASE first.rules[r].pointer
    <3>1. r \in Shared  BY <2>1 DEF PointersShared
    <3>2. c[<<first.rules[r].origin, r>>] = first.locator  BY <1>6, <1>7, <1>8, <2>1, <3>1
    <3>. QED BY <1>3, <2>1, <3>2 DEF SourceIn
  <2>2. CASE ~first.rules[r].pointer
    BY <1>3, <2>2 DEF SourceIn
  <2>. QED BY <2>1, <2>2
<1>11. ASSUME NEW r \in RulesOf(second) \ RulesOf(first)
       PROVE  \/ /\ SourceIn(u, r, c) = SourceIn(second, r, cell)
                 /\ second.rules[r].pointer => cell[<<second.rules[r].origin, r>>] # None
              \/ /\ second.rules[r].pointer
                 /\ cell[<<second.rules[r].origin, r>>] = None
                 /\ SourceIn(u, r, c) = second.locator
  <2>1. u.rules[r] = second.rules[r]  BY <1>4
  <2>2. CASE second.rules[r].pointer
    <3>. PICK w : w = second.rules[r].origin  OBVIOUS
    <3>1. r \in Shared /\ w \in Policies  BY <1>6, <2>2 DEF PointersShared
    <3>2. <<w, r>> \notin Pointers(first) /\ <<w, r>> \in Pointers(second)
      BY <1>8, <2>2
    <3>3. c[<<w, r>>] = IF cell[<<w, r>>] = None THEN second.locator ELSE cell[<<w, r>>]
      BY <1>7, <3>1, <3>2
    <3>. QED BY <2>1, <2>2, <3>3 DEF SourceIn
  <2>3. CASE ~second.rules[r].pointer
    BY <2>1, <2>3 DEF SourceIn
  <2>. QED BY <2>2, <2>3
<1>12. ASSUME NEW q \in Policies, NEW r \in Shared
       PROVE  \/ c[<<q, r>>] = cell[<<q, r>>]
              \/ /\ c[<<q, r>>] = first.locator
                 /\ r \in RulesOf(first) /\ q = first.rules[r].origin
              \/ /\ c[<<q, r>>] = second.locator
                 /\ r \in RulesOf(second) /\ q = second.rules[r].origin
  BY <1>7, <1>8
<1>. QED BY <1>5, <1>9, <1>10, <1>11, <1>12

-----------------------------------------------------------------------------
(* What the rules of a merge of S must be traced to, b being the bottom of *)
(* S and w the winner of the rule.                                         *)
RetracedIn(p, S, w) ==
    \E q \in KeptOf(p, S) :
        Above(p, q, w) /\ (AtomicDefaults(q) \/ PolicyRuleDefaults(q))

TracedTo(p, S, b, rule, w, source) ==
    /\ RetracedIn(p, S, w) => source = b
    /\ \/ RetracedIn(p, S, w)
       \/ source = w
       \/ rule \in Shared /\ PolicyRuleDefaults(w) /\ w # b /\ AlongPath(w, source)

Traced(p, S, value, c) ==
    /\ PointersShared(value)
    /\ \A r \in RulesOf(value) :
          TracedTo(p, S, value.locator, r, value.rules[r].origin, SourceIn(value, r, c))

LEMMA OriginKept ==
    ASSUME NEW p, NEW S, NEW value, Merged(p, S, value), NEW r \in RulesOf(value)
    PROVE  /\ value.rules[r].origin \in KeptOf(p, S)
           /\ value.rules[r].origin \in S
           /\ value.locator \in S /\ IsLowest(p, KeptOf(p, S), value.locator)
<1>. DEFINE C == Contribute(p, S, value.locator, r)
<1>1. r \in Rules /\ WinsRule(p, C, value, r)  BY DEF Merged
<1>2. IsWinner(p, C, value.rules[r].origin)  BY <1>1 DEF WinsRule
<1>3. value.rules[r].origin \in C  BY <1>2 DEF IsWinner, IsLowest
<1>4. C \subseteq KeptOf(p, S) /\ KeptOf(p, S) \subseteq S  BY DEF Contribute, KeptOf
<1>5. IsLowest(p, KeptOf(p, S), value.locator)  BY DEF Merged
<1>. QED BY <1>3, <1>4, <1>5 DEF IsLowest

LEMMA RetracedGrows ==
    ASSUME NEW p, NEW k, NEW S, NEW t, OnTop(p, k, S, t)
    PROVE  /\ ~RetracedIn(p, S \cup {t}, t)
           /\ ~AtomicOverrides(t) /\ t \notin S =>
                \A w \in S : RetracedIn(p, S \cup {t}, w) <=>
                                \/ RetracedIn(p, S, w)
                                \/ AtomicDefaults(t) \/ PolicyRuleDefaults(t)
<1>1. /\ \A r \in S \cup {t} : ~Above(p, r, t)
      /\ \A q \in S \ {t} : Above(p, t, q)
  BY OnTopFacts
<1>2. ~RetracedIn(p, S \cup {t}, t)  BY <1>1 DEF RetracedIn, KeptOf
<1>3. ~AtomicOverrides(t) => KeptOf(p, S \cup {t}) = KeptOf(p, S) \cup {t}
  BY KeptGrows
<1>4. ASSUME ~AtomicOverrides(t), t \notin S, NEW w \in S
      PROVE  RetracedIn(p, S \cup {t}, w) <=>
                \/ RetracedIn(p, S, w) \/ AtomicDefaults(t) \/ PolicyRuleDefaults(t)
  BY <1>1, <1>3, <1>4 DEF RetracedIn
<1>. QED BY <1>2, <1>4

(* All rules are those of the last policy merged.                          *)
LEMMA TopTraced ==
    ASSUME NEW p, NEW k, NEW S, NEW t, OnTop(p, k, S, t), NEW after, NEW c,
           PointersShared(after),
           \A r \in RulesOf(after) :
               after.rules[r].origin = t /\ SourceIn(after, r, c) = t
    PROVE  Traced(p, S \cup {t}, after, c)
BY RetracedGrows DEF Traced, TracedTo

(* All rules of the others are traced to the bottom by a default on top.   *)
LEMMA DefaultsTraced ==
    ASSUME NEW p, NEW k, NEW S, NEW t, OnTop(p, k, S, t), t \notin S,
           AtomicDefaults(t) \/ PolicyRuleDefaults(t),
           NEW value, Merged(p, S, value), NEW after, NEW c,
           PointersShared(after), after.locator = value.locator,
           \A r \in RulesOf(value) :
               /\ after.rules[r].origin = value.rules[r].origin
               /\ SourceIn(after, r, c) = value.locator,
           \A r \in RulesOf(after) \ RulesOf(value) :
               /\ after.rules[r].origin = t
               /\ \/ SourceIn(after, r, c) = t
                  \/ /\ r \in Shared /\ PolicyRuleDefaults(t)
                     /\ AlongPath(t, SourceIn(after, r, c))
    PROVE  Traced(p, S \cup {t}, after, c)
<1>1. ~AtomicOverrides(t)  BY OnTopFacts
<1>2. ASSUME NEW r \in RulesOf(value), NEW w, w = value.rules[r].origin
      PROVE  TracedTo(p, S \cup {t}, after.locator, r, w, SourceIn(after, r, c))
  <2>1. w \in S  BY <1>2, OriginKept
  <2>2. RetracedIn(p, S \cup {t}, w)  BY <1>1, <2>1, RetracedGrows
  <2>. QED BY <2>2 DEF TracedTo
<1>3. ASSUME NEW r \in RulesOf(after) \ RulesOf(value)
      PROVE  TracedTo(p, S \cup {t}, after.locator, r, t, SourceIn(after, r, c))
  <2>1. ~RetracedIn(p, S \cup {t}, t)  BY RetracedGrows
  <2>2. after.locator # t
    <3>1. value.locator \in S  BY DEF Merged, IsLowest, KeptOf
    <3>. QED BY <3>1
  <2>. QED BY <2>1, <2>2 DEF TracedTo
<1>. QED BY <1>2, <1>3 DEF Traced

(* An override on top leaves the sources of the others alone.              *)
LEMMA OverridesTraced ==
    ASSUME NEW p, NEW k, NEW S, NEW t, OnTop(p, k, S, t), t \notin S,
           PolicyRuleOverrides(t),
           NEW value, Merged(p, S, value), Traced(p, S, value, cell),
           NEW after, NEW c, PointersShared(after), after.locator = value.locator,
           RulesOf(after) = spec[t].rules \cup RulesOf(value),
           \A r \in spec[t].rules :
               after.rules[r].origin = t /\ SourceIn(after, r, c) = t,
           \A r \in RulesOf(value) \ spec[t].rules :
               /\ after.rules[r].origin = value.rules[r].origin
               /\ SourceIn(after, r, c) = SourceIn(value, r, cell)
    PROVE  Traced(p, S \cup {t}, after, c)
<1>1. ~AtomicOverrides(t) /\ ~AtomicDefaults(t) /\ ~PolicyRuleDefaults(t)
  BY OnTopFacts
<1>2. ASSUME NEW r \in spec[t].rules
      PROVE  TracedTo(p, S \cup {t}, after.locator, r, t, SourceIn(after, r, c))
  BY RetracedGrows DEF TracedTo
<1>3. ASSUME NEW r \in RulesOf(value) \ spec[t].rules, NEW w, w = value.rules[r].origin
      PROVE  TracedTo(p, S \cup {t}, after.locator, r, w, SourceIn(after, r, c))
  <2>1. w \in S  BY <1>3, OriginKept
  <2>2. RetracedIn(p, S \cup {t}, w) <=> RetracedIn(p, S, w)
    BY <1>1, <2>1, RetracedGrows
  <2>3. TracedTo(p, S, value.locator, r, w, SourceIn(value, r, cell))
    BY <1>3 DEF Traced
  <2>. QED BY <2>2, <2>3 DEF TracedTo
<1>. QED BY <1>2, <1>3 DEF Traced

-----------------------------------------------------------------------------
(* A pointer rule of a policy in the topology is traced to nothing yet, to *)
(* the policy itself, or to what a merge along some path left there.       *)
CellsAlong(c) ==
    /\ c \in Cells
    /\ \A q \in Policies : \A r \in Shared :
          c[<<q, r>>] \in {None, q} \/ AlongPath(q, c[<<q, r>>])

LEMMA BottomAlong ==
    ASSUME Configured, NEW p \in Paths, IsRulePath[p], NEW k,
           NEW S \in SUBSET InPath(p, k), FromBelow(p, k, S),
           NEW value, Merged(p, S, value), NEW r \in RulesOf(value)
    PROVE  AlongPath(value.rules[r].origin, value.locator)
<1>. PICK w : w = value.rules[r].origin  OBVIOUS
<1>1. w \in KeptOf(p, S) /\ w \in S /\ IsLowest(p, KeptOf(p, S), value.locator)
  BY OriginKept
<1>2. w \in InPath(p, k) /\ Kind[w] = k  BY <1>1 DEF InPath
<1>3. IsLowest(p, KeptOf(p, FromOn(p, k, w)), value.locator)
  BY <1>1, LowestFrom
<1>. QED BY <1>2, <1>3 DEF AlongPath

LEMMA SourceIsPolicy ==
    ASSUME NEW p, NEW S, NEW k, S \subseteq InPath(p, k), NEW value, IsValue(value),
           Traced(p, S, value, cell), NEW r \in RulesOf(value)
    PROVE  SourceIn(value, r, cell) \in Policies
<1>1. /\ value.locator \in Policies /\ value.rules[r].origin \in Policies
  BY DEF IsValue, RuleValues
<1>2. \A q, v : AlongPath(q, v) => v \in Policies
  BY DEF AlongPath, IsLowest, KeptOf, FromOn, InPath
<1>. QED BY <1>1, <1>2 DEF Traced, TracedTo

LEMMA SeenExcludes ==
    ASSUME Configured, NEW p \in Paths, NEW k, NEW N, N = Cardinality(InPath(p, k)),
           NEW n \in 1..N, n # N, NEW sorted, sorted = PoliciesInPath(p, k)
    PROVE  sorted[n] \notin Seen(sorted, N, n)
<1>1. /\ N \in Nat /\ sorted \in [1..N -> InPath(p, k)]
      /\ \A m, l \in 1..N : m < l => Above(p, sorted[m], sorted[l])
  BY Sorted
<1>2. ASSUME NEW j \in 1..N, j > n \/ j = N PROVE sorted[j] # sorted[n]
  <2>1. n < j  BY <1>1, <1>2
  <2>2. Above(p, sorted[n], sorted[j])  BY <1>1, <2>1
  <2>. QED BY <1>1, <2>2, AboveIsLinear
<1>. QED BY <1>2 DEF Seen

-----------------------------------------------------------------------------
(* The kinds merged along a path.                                          *)
KindsFor(p) ==
    IF IsRulePath[p] THEN {"AuthPolicy", "RateLimitPolicy"}
    ELSE {"DNSPolicy", "TLSPolicy"}

KindsInv ==
    /\ \A n \in DOMAIN kindsLeft : kindsLeft[n] \in KindsFor(path)
    /\ ~Idle => kind \in KindsFor(path)

LEMMA KindsHold == Spec => []KindsInv
<1>1. Init => KindsInv  BY DEF Init, KindsInv, Idle
<1>2. LoopInv /\ KindsInv /\ [Next]_vars => KindsInv'
  <2>. SUFFICES ASSUME LoopInv, KindsInv, [Next]_vars PROVE KindsInv'
    OBVIOUS
  <2>1. CASE UNCHANGED <<path, kindsLeft, kind>>
    BY <2>1 DEF KindsInv, Idle
  <2>2. ASSUME NEW g \in Gateways, TakeGateway(g) PROVE KindsInv'
    BY <2>1, <2>2 DEF TakeGateway
  <2>3. ASSUME NEW p \in Paths, TakePath(p) PROVE KindsInv'
    <3>1. /\ path' = p /\ Idle'
          /\ kindsLeft' = IF IsRulePath[p] THEN <<"AuthPolicy", "RateLimitPolicy">>
                                           ELSE <<"DNSPolicy", "TLSPolicy">>
      BY <2>3 DEF TakePath, Idle
    <3>. QED BY <3>1 DEF KindsInv, KindsFor
  <2>4. ASSUME kindsLeft # <<>>
        PROVE  /\ Head(kindsLeft) \in KindsFor(path)
               /\ \A n \in DOMAIN Tail(kindsLeft) : Tail(kindsLeft)[n] \in KindsFor(path)
    <3>1. kindsLeft \in Seq(Kinds)  BY DEF LoopInv
    <3>2. Head(kindsLeft) = kindsLeft[1] /\ 1 \in DOMAIN kindsLeft  BY <2>4, <3>1
    <3>3. \A n \in DOMAIN Tail(kindsLeft) :
             n + 1 \in DOMAIN kindsLeft /\ Tail(kindsLeft)[n] = kindsLeft[n + 1]
      BY <2>4, <3>1
    <3>. QED BY <3>2, <3>3 DEF KindsInv
  <2>5. CASE NoPolicies
    BY <2>4, <2>5 DEF NoPolicies, KindsInv, Idle
  <2>6. CASE GatherPolicies
    BY <2>4, <2>6 DEF GatherPolicies, KindsInv, Idle
  <2>7. CASE Merge
    BY <2>1, <2>7 DEF Merge, MergeDirect, MergeAtomicDefaults, MergeAtomicOverrides,
                MergePolicyRuleDefaults, MergePolicyRuleOverrides, Turn, loops
  <2>8. CASE Finish
    BY <2>8 DEF Finish, KindsInv, Idle
  <2>9. CASE UNCHANGED vars
    BY <2>1, <2>9 DEF vars, loops
  <2>. QED BY <2>2, <2>3, <2>5, <2>6, <2>7, <2>8, <2>9 DEF Next
<1>. QED BY <1>1, <1>2, LoopHolds, PTL DEF Spec

LEMMA MergeableOnRulePaths ==
    ASSUME NEW p, NEW k \in KindsFor(p), Mergeable(k) PROVE IsRulePath[p]
BY DEF KindsFor, Mergeable

-----------------------------------------------------------------------------
(* What the accumulated policy is traced to: nothing has been set before   *)
(* the first merge, in which the last policy meets itself.                 *)
SourceInv ==
    ~Idle /\ Mergeable(kind) =>
        LET N == Cardinality(InPath(path, kind))
        IN  IF i = N THEN effective = AsValue(policies[i])
            ELSE Traced(path, Seen(policies, N, i), effective, cell)

LEMMA TurnTraces ==
    ASSUME Configured, LoopInv, KindsInv, MergeInv, CellsAlong(cell), SourceInv, Merge,
           Mergeable(kind), NEW after, after = effective', NEW c, c = cell'
    PROVE  /\ Traced(path, Seen(policies, Cardinality(InPath(path, kind)), i - 1), after, c)
           /\ CellsAlong(c)
<1>1. Turn
  BY DEF Merge, MergeDirect, MergeAtomicDefaults, MergeAtomicOverrides,
         MergePolicyRuleDefaults, MergePolicyRuleOverrides
<1>2. ~Idle /\ path \in Paths /\ i > 0  BY <1>1 DEF Turn, LoopInv
<1>. DEFINE N == Cardinality(InPath(path, kind))
            t == policies[i]
            S == Seen(policies, N, i)
<1>3. /\ policies = PoliciesInPath(path, kind) /\ i \in 0..N
      /\ IsValue(effective) /\ Merged(path, S, effective)
      /\ InPath(path, kind) # {}
  BY <1>2 DEF MergeInv, Reduced, Result
<1>4. N \in Nat  BY <1>2, Sorted
<1>5. i \in 1..N  BY <1>2, <1>3, <1>4
<1>6. /\ OnTop(path, kind, S, t)
      /\ Seen(policies, N, i - 1) = S \cup {t}
  BY <1>2, <1>3, <1>5, SeenGrows
<1>7. /\ S \subseteq InPath(path, kind) /\ FromBelow(path, kind, S)
  BY <1>2, <1>3, SeenFromBelow
<1>8. i = N => S = {t}  BY <1>4, <1>5, SeenAtFirst
<1>9. i # N => t \notin S  BY <1>2, <1>3, <1>5, SeenExcludes
<1>10. /\ i = N => effective = AsValue(t)
       /\ i # N => Traced(path, S, effective, cell)
  BY <1>2 DEF SourceInv
<1>11. IsRulePath[path]  BY <1>2, MergeableOnRulePaths DEF KindsInv
<1>12. /\ Source = AsValue(t)
  BY DEF Source
<1>. HIDE DEF N, t, S
<1>13. t \in Policies  BY <1>6, OnTopFacts
<1>14. /\ IsValue(Source) /\ Source.locator = t /\ RulesOf(Source) = spec[t].rules
       /\ \A r \in spec[t].rules : Source.rules[r].origin = t
       /\ PointersShared(Source)
       /\ \A r \in spec[t].rules : Source.rules[r].source = t
  BY <1>12, <1>13, ValueOf, ValueSources
<1>15. PointersShared(effective)
  BY <1>10, <1>12, <1>14 DEF Traced
<1>16. i = N => /\ effective.locator = t /\ RulesOf(effective) = spec[t].rules
                /\ \A r \in spec[t].rules : effective.rules[r].origin = t
  BY <1>10, <1>12, <1>14
<1>. HIDE DEF Source
<1>17. cell \in Cells  BY DEF CellsAlong
<1>18. CASE MergeAtomicDefaults
  <2>1. AtomicDefaults(t) /\ c = cell  BY <1>18 DEF MergeAtomicDefaults, t
  <2>2. ~Empty(effective)  BY <1>2, <1>3, <1>7, MergedNotEmpty
  <2>3. after = Copy(effective)  BY <1>18, <2>2 DEF MergeAtomicDefaults
  <2>4. /\ PointersShared(after) /\ after.locator = effective.locator
        /\ RulesOf(after) = RulesOf(effective)
        /\ \A r \in RulesOf(effective) :
              /\ after.rules[r].origin = effective.rules[r].origin
              /\ SourceIn(after, r, c) = effective.locator
    BY <1>3, <2>3, CopyOf, CopySources
  <2>5. Traced(path, S \cup {t}, after, c)
    <3>1. CASE i = N
      BY <1>6, <1>16, <2>4, <3>1, TopTraced
    <3>2. CASE i # N
      BY <1>3, <1>6, <1>9, <2>1, <2>4, <3>2, DefaultsTraced
    <3>. QED BY <3>1, <3>2
  <2>. QED BY <1>6, <2>1, <2>5 DEF N
<1>19. CASE MergeAtomicOverrides
  <2>1. c = cell /\ after = Copy(Source)  BY <1>19 DEF MergeAtomicOverrides
  <2>2. /\ PointersShared(after) /\ RulesOf(after) = spec[t].rules
        /\ \A r \in spec[t].rules :
              after.rules[r].origin = t /\ SourceIn(after, r, c) = t
    BY <1>14, <2>1, CopyOf, CopySources
  <2>3. Traced(path, S \cup {t}, after, c)  BY <1>6, <2>2, TopTraced
  <2>. QED BY <1>6, <2>1, <2>3 DEF N
<1>20. CASE MergePolicyRuleDefaults
  <2>1. /\ PolicyRuleDefaults(t)
        /\ after = Union(effective, Source, effective)
        /\ c = Stamp(effective, Source)
    BY <1>20 DEF MergePolicyRuleDefaults, t
  <2>2. /\ after.locator = effective.locator
        /\ RulesOf(after) = RulesOf(effective) \cup spec[t].rules
        /\ \A r \in RulesOf(effective) :
              after.rules[r].origin = effective.rules[r].origin
        /\ \A r \in spec[t].rules \ RulesOf(effective) : after.rules[r].origin = t
    BY <1>3, <1>14, <2>1, UnionOf
  <2>3. /\ PointersShared(after) /\ c \in Cells
        /\ \A r \in RulesOf(effective) : SourceIn(after, r, c) = effective.locator
        /\ \A r \in spec[t].rules \ RulesOf(effective) :
              \/ /\ SourceIn(after, r, c) = SourceIn(Source, r, cell)
                 /\ Source.rules[r].pointer => cell[<<t, r>>] # None
              \/ SourceIn(after, r, c) = t
        /\ \A q \in Policies : \A r \in Shared :
              \/ c[<<q, r>>] = cell[<<q, r>>]
              \/ /\ c[<<q, r>>] = effective.locator
                 /\ r \in RulesOf(effective) /\ q = effective.rules[r].origin
              \/ c[<<q, r>>] = t /\ q = t
    BY <1>3, <1>14, <1>15, <1>17, <2>1, UnionSources
  <2>4. CellsAlong(c)
    <3>1. \A r \in RulesOf(effective) :
             AlongPath(effective.rules[r].origin, effective.locator)
      BY <1>2, <1>3, <1>7, <1>11, BottomAlong
    <3>. QED BY <2>3, <3>1 DEF CellsAlong
  <2>5. ASSUME NEW r \in spec[t].rules \ RulesOf(effective)
        PROVE  \/ SourceIn(after, r, c) = t
               \/ r \in Shared /\ AlongPath(t, SourceIn(after, r, c))
    <3>1. CASE Source.rules[r].pointer
      <4>1. r \in Shared  BY <1>14, <3>1 DEF PointersShared
      <4>2. SourceIn(Source, r, cell) = cell[<<t, r>>]  BY <1>14, <3>1 DEF SourceIn
      <4>3. cell[<<t, r>>] \in {None, t} \/ AlongPath(t, cell[<<t, r>>])
        BY <1>13, <4>1 DEF CellsAlong
      <4>. QED BY <2>3, <3>1, <4>1, <4>2, <4>3
    <3>2. CASE ~Source.rules[r].pointer
      BY <1>14, <2>3, <3>2 DEF SourceIn
    <3>. QED BY <3>1, <3>2
  <2>6. Traced(path, S \cup {t}, after, c)
    <3>1. CASE i = N
      BY <1>6, <1>16, <2>2, <2>3, <3>1, TopTraced
    <3>2. CASE i # N
      BY <1>3, <1>6, <1>9, <2>1, <2>2, <2>3, <2>5, <3>2, DefaultsTraced
    <3>. QED BY <3>1, <3>2
  <2>. QED BY <1>6, <2>4, <2>6 DEF N
<1>21. CASE MergePolicyRuleOverrides
  <2>1. /\ PolicyRuleOverrides(t)
        /\ after = Union(Source, effective, effective)
        /\ c = Stamp(Source, effective)
    BY <1>21 DEF MergePolicyRuleOverrides, t
  <2>2. /\ after.locator = effective.locator
        /\ RulesOf(after) = spec[t].rules \cup RulesOf(effective)
        /\ \A r \in spec[t].rules : after.rules[r].origin = t
        /\ \A r \in RulesOf(effective) \ spec[t].rules :
              after.rules[r].origin = effective.rules[r].origin
    BY <1>3, <1>14, <2>1, UnionOf
  <2>3. /\ PointersShared(after) /\ c \in Cells
        /\ \A r \in spec[t].rules : SourceIn(after, r, c) = t
        /\ \A r \in RulesOf(effective) \ spec[t].rules :
              \/ SourceIn(after, r, c) = SourceIn(effective, r, cell)
              \/ /\ effective.rules[r].pointer
                 /\ cell[<<effective.rules[r].origin, r>>] = None
        /\ \A q \in Policies : \A r \in Shared :
              \/ c[<<q, r>>] = cell[<<q, r>>]
              \/ c[<<q, r>>] = t /\ q = t
              \/ /\ c[<<q, r>>] = effective.locator
                 /\ r \in RulesOf(effective) /\ q = effective.rules[r].origin
    BY <1>3, <1>14, <1>15, <1>17, <2>1, UnionSources
  <2>4. CellsAlong(c)
    <3>1. \A r \in RulesOf(effective) :
             AlongPath(effective.rules[r].origin, effective.locator)
      BY <1>2, <1>3, <1>7, <1>11, BottomAlong
    <3>. QED BY <2>3, <3>1 DEF CellsAlong
  <2>5. Traced(path, S \cup {t}, after, c)
    <3>1. CASE i = N
      BY <1>6, <1>16, <2>2, <2>3, <3>1, TopTraced
    <3>2. CASE i # N
      <4>1. Traced(path, S, effective, cell)  BY <1>10, <3>2
      <4>2. ASSUME NEW r \in RulesOf(effective), effective.rules[r].pointer
            PROVE  cell[<<effective.rules[r].origin, r>>] # None
        <5>1. SourceIn(effective, r, cell) \in Policies
          BY <1>3, <1>7, <4>1, SourceIsPolicy
        <5>2. None \notin Policies  BY ConstantsAssumption
        <5>. QED BY <4>2, <5>1, <5>2 DEF SourceIn
      <4>3. \A r \in RulesOf(effective) \ spec[t].rules :
               SourceIn(after, r, c) = SourceIn(effective, r, cell)
        BY <2>3, <4>2
      <4>. QED BY <1>3, <1>6, <1>9, <2>1, <2>2, <2>3, <3>2, <4>1, <4>3, OverridesTraced
    <3>. QED BY <3>1, <3>2
  <2>. QED BY <1>6, <2>4, <2>5 DEF N
<1>22. ~MergeDirect  BY DEF MergeDirect
<1>. QED BY <1>18, <1>19, <1>20, <1>21, <1>22 DEF Merge

(* The topology does not change under the reconciler.                      *)
LEMMA TracesStay ==
    ASSUME UNCHANGED config, NEW p, NEW S, NEW value, NEW c, NEW b, NEW rule,
           NEW w, NEW source
    PROVE  /\ Traced(p, S, value, c) => Traced(p, S, value, c)'
           /\ TracedTo(p, S, b, rule, w, source) => TracedTo(p, S, b, rule, w, source)'
           /\ CellsAlong(c) => CellsAlong(c)'
<1>1. spec' = spec /\ created' = created  BY DEF config
<1>2. \A x, q, r : Above(x, q, r)' <=> Above(x, q, r)
  BY <1>1 DEF Above
<1>3. \A q : /\ AtomicOverrides(q)' <=> AtomicOverrides(q)
             /\ AtomicDefaults(q)' <=> AtomicDefaults(q)
             /\ PolicyRuleDefaults(q)' <=> PolicyRuleDefaults(q)
  BY <1>1 DEF AtomicOverrides, AtomicDefaults, PolicyRuleDefaults
<1>4. \A x, T : KeptOf(x, T)' = KeptOf(x, T)  BY <1>2, <1>3 DEF KeptOf
<1>5. \A x, k, q : FromOn(x, k, q)' = FromOn(x, k, q)  BY <1>2 DEF FromOn
<1>6. \A q, v : AlongPath(q, v)' <=> AlongPath(q, v)
  BY <1>2, <1>4, <1>5 DEF AlongPath, IsLowest
<1>7. \A q : RetracedIn(p, S, q)' <=> RetracedIn(p, S, q)
  BY <1>2, <1>3, <1>4 DEF RetracedIn
<1>8. \A bb, r, q, v : TracedTo(p, S, bb, r, q, v)' <=> TracedTo(p, S, bb, r, q, v)
  BY <1>3, <1>6, <1>7 DEF TracedTo
<1>9. Traced(p, S, value, c) => Traced(p, S, value, c)'
  BY <1>8 DEF Traced
<1>10. CellsAlong(c) => CellsAlong(c)'  BY <1>6 DEF CellsAlong
<1>. QED BY <1>8, <1>9, <1>10

LEMMA SourcesHold == Spec => [](CellsAlong(cell) /\ SourceInv)
<1>1. Init => CellsAlong(cell) /\ SourceInv
  BY DEF Init, CellsAlong, Cells, SourceInv, Idle
<1>2. /\ Configured /\ LoopInv /\ KindsInv /\ MergeInv
      /\ CellsAlong(cell) /\ SourceInv /\ [Next]_vars
      => CellsAlong(cell)' /\ SourceInv'
  <2>. SUFFICES ASSUME Configured, LoopInv, KindsInv, MergeInv, CellsAlong(cell),
                       SourceInv, [Next]_vars
                PROVE  CellsAlong(cell)' /\ SourceInv'
    OBVIOUS
  <2>1. UNCHANGED config
    BY DEF Next, vars, config, TakeGateway, TakePath, NoPolicies, GatherPolicies,
           Merge, MergeDirect, MergeAtomicDefaults, MergeAtomicOverrides,
           MergePolicyRuleDefaults, MergePolicyRuleOverrides, Turn, Finish
  <2>2. cell' = cell => CellsAlong(cell)'
    <3>. PICK c : c = cell  OBVIOUS
    <3>1. CellsAlong(c)'  BY <2>1, TracesStay
    <3>. QED BY <3>1
  <2>3. CASE GatherPolicies
    <3>. PICK p, k, N, sorted :
            /\ p = path /\ k = kind' /\ N = Cardinality(InPath(p, k))
            /\ sorted = PoliciesInPath(p, k)
      OBVIOUS
    <3>1. /\ p \in Paths /\ path' = p /\ policies' = sorted /\ i' = Len(sorted)
          /\ effective' = AsValue(sorted[Len(sorted)]) /\ cell' = cell
      BY <2>3 DEF GatherPolicies, LoopInv
    <3>2. N \in Nat /\ sorted \in [1..N -> InPath(p, k)]  BY <3>1, Sorted
    <3>3. Len(sorted) = N  BY <3>2
    <3>4. \A q : AsValue(q)' = AsValue(q)  BY <2>1 DEF config, AsValue
    <3>. QED BY <2>2, <3>1, <3>3, <3>4 DEF SourceInv
  <2>4. CASE Merge
    <3>1. Turn
      BY <2>4 DEF Merge, MergeDirect, MergeAtomicDefaults, MergeAtomicOverrides,
                  MergePolicyRuleDefaults, MergePolicyRuleOverrides
    <3>. PICK p, k, n, N, sorted, after, c :
            /\ p = path /\ k = kind /\ n = i - 1 /\ N = Cardinality(InPath(p, k))
            /\ sorted = policies /\ after = effective' /\ c = cell'
      OBVIOUS
    <3>2. /\ ~Idle /\ p \in Paths /\ i > 0 /\ path' = p /\ kind' = k
          /\ policies' = sorted /\ i' = n
      BY <3>1 DEF Turn, LoopInv, loops
    <3>3. i \in 0..N /\ N \in Nat  BY <3>2, Sorted DEF MergeInv
    <3>4. n # N  BY <3>3
    <3>5. CASE Mergeable(k)
      <4>1. Traced(p, Seen(sorted, N, n), after, c) /\ CellsAlong(c)
        BY <2>4, <3>5, TurnTraces
      <4>2. Traced(p, Seen(sorted, N, n), after, c)' /\ CellsAlong(c)'
        BY <2>1, <4>1, TracesStay
      <4>. QED BY <3>2, <3>4, <4>2 DEF SourceInv
    <3>6. CASE ~Mergeable(k)
      <4>1. cell' = cell
        BY <2>4, <3>6 DEF Merge, MergeDirect, MergeAtomicDefaults,
             MergeAtomicOverrides, MergePolicyRuleDefaults, MergePolicyRuleOverrides
      <4>2. SourceInv'  BY <3>2, <3>6 DEF SourceInv, Mergeable
      <4>. QED BY <2>2, <4>1, <4>2
    <3>. QED BY <3>5, <3>6
  <2>5. CASE Finish
    BY <2>2, <2>5 DEF Finish, SourceInv, Idle
  <2>6. CASE UNCHANGED <<path, kind, policies, i, effective, cell>>
    <3>. PICK p, k, n, N, sorted, value, c :
            /\ p = path /\ k = kind /\ n = i /\ N = Cardinality(InPath(p, k))
            /\ sorted = policies /\ value = effective /\ c = cell
      OBVIOUS
    <3>1. /\ path' = p /\ kind' = k /\ policies' = sorted /\ i' = n
          /\ effective' = value /\ cell' = c
      BY <2>6
    <3>2. \A q : AsValue(q)' = AsValue(q)  BY <2>1 DEF config, AsValue
    <3>3. CASE Idle \/ ~Mergeable(k)
      <4>1. SourceInv'  BY <3>1, <3>3 DEF SourceInv, Idle, Mergeable
      <4>. QED BY <2>2, <2>6, <4>1
    <3>4. CASE ~Idle /\ Mergeable(k) /\ n = N
      <4>1. value = AsValue(sorted[n])  BY <3>4 DEF SourceInv
      <4>2. SourceInv'  BY <3>1, <3>2, <3>4, <4>1 DEF SourceInv
      <4>. QED BY <2>2, <2>6, <4>2
    <3>5. CASE ~Idle /\ Mergeable(k) /\ n # N
      <4>1. Traced(p, Seen(sorted, N, n), value, c)  BY <3>5 DEF SourceInv
      <4>2. Traced(p, Seen(sorted, N, n), value, c)'  BY <2>1, <4>1, TracesStay
      <4>3. SourceInv'  BY <3>1, <3>5, <4>2 DEF SourceInv
      <4>. QED BY <2>2, <2>6, <4>3
    <3>. QED BY <3>3, <3>4, <3>5
  <2>7. CASE kind' = kind /\ Idle /\ cell' = cell
    BY <2>2, <2>7 DEF SourceInv, Idle
  <2>8. ASSUME NEW g \in Gateways, TakeGateway(g) PROVE kind' = kind /\ Idle /\ cell' = cell
    BY <2>8 DEF TakeGateway
  <2>9. ASSUME NEW p \in Paths, TakePath(p) PROVE kind' = kind /\ Idle /\ cell' = cell
    BY <2>9 DEF TakePath
  <2>10. NoPolicies => kind' = kind /\ Idle /\ cell' = cell  BY DEF NoPolicies
  <2>11. UNCHANGED vars => UNCHANGED <<path, kind, policies, i, effective, cell>>
    BY DEF vars, loops
  <2>. QED BY <2>3, <2>4, <2>5, <2>6, <2>7, <2>8, <2>9, <2>10, <2>11 DEF Next
<1>. QED BY <1>1, <1>2, ConfiguredHolds, LoopHolds, KindsHold, MergeHolds, PTL DEF Spec

(* What was computed stays traced as it was when it was read.              *)
TracedRight(job, value) ==
    \E p \in Paths : \E k :
        /\ job = <<p, k>>
        /\ Mergeable(k) =>
              \A r \in RulesOf(value) :
                  TracedTo(p, InPath(p, k), value.locator, r,
                           value.rules[r].origin, value.rules[r].source)

ComputedTraced == \A job \in DOMAIN computed : TracedRight(job, computed[job])

LEMMA ComputedTracedHolds == Spec => []ComputedTraced
<1>1. Init => ComputedTraced  BY DEF Init, ComputedTraced
<1>2. /\ Configured /\ LoopInv /\ MergeInv /\ SourceInv /\ ComputedTraced
      /\ [Next]_vars
      => ComputedTraced'
  <2>. SUFFICES ASSUME Configured, LoopInv, MergeInv, SourceInv, ComputedTraced,
                       [Next]_vars
                PROVE  ComputedTraced'
    OBVIOUS
  <2>1. UNCHANGED config
    BY DEF Next, vars, config, TakeGateway, TakePath, NoPolicies, GatherPolicies,
           Merge, MergeDirect, MergeAtomicDefaults, MergeAtomicOverrides,
           MergePolicyRuleDefaults, MergePolicyRuleOverrides, Turn, Finish
  <2>2. ASSUME NEW job, NEW value, TracedRight(job, value)
        PROVE  TracedRight(job, value)'
    <3>1. PICK p \in Paths :
            \E k : /\ job = <<p, k>>
                   /\ Mergeable(k) =>
                         \A r \in RulesOf(value) :
                             TracedTo(p, InPath(p, k), value.locator, r,
                                      value.rules[r].origin, value.rules[r].source)
      BY <2>2 DEF TracedRight
    <3>2. PICK k :
            /\ job = <<p, k>>
            /\ Mergeable(k) =>
                  \A r \in RulesOf(value) :
                      TracedTo(p, InPath(p, k), value.locator, r,
                               value.rules[r].origin, value.rules[r].source)
      BY <3>1
    <3>3. Mergeable(k) =>
             \A r \in RulesOf(value) :
                 TracedTo(p, InPath(p, k), value.locator, r,
                          value.rules[r].origin, value.rules[r].source)'
      BY <2>1, <3>2, TracesStay
    <3>. QED BY <3>2, <3>3 DEF TracedRight
  <2>3. CASE computed' = computed
    BY <2>2, <2>3 DEF ComputedTraced
  <2>4. CASE Finish
    <3>. PICK p, k, value, next, result :
            /\ p = path /\ k = kind /\ value = effective
            /\ next = computed' /\ result = next[<<p, k>>]
      OBVIOUS
    <3>1. ~Idle /\ i = 0  BY <2>4 DEF Finish
    <3>2. p \in Paths /\ InPath(p, k) # {} /\ policies = PoliciesInPath(p, k)
      BY <3>1 DEF LoopInv, MergeInv
    <3>3. /\ DOMAIN next = DOMAIN computed \cup {<<p, k>>}
          /\ \A job \in DOMAIN computed : job # <<p, k>> => next[job] = computed[job]
          /\ result = [locator |-> value.locator,
                       rules |-> [r \in RulesOf(value) |->
                           [origin |-> value.rules[r].origin,
                            source |-> GetSource(value, r)]]]
      BY <2>4 DEF Finish
    <3>4. /\ result.locator = value.locator /\ RulesOf(result) = RulesOf(value)
          /\ \A r \in RulesOf(value) :
                /\ result.rules[r].origin = value.rules[r].origin
                /\ result.rules[r].source = SourceIn(value, r, cell)
      BY <3>3 DEF RulesOf, GetSource, SourceIn
    <3>5. ASSUME Mergeable(k) PROVE Traced(p, InPath(p, k), value, cell)
      <4>1. Cardinality(InPath(p, k)) # 0  BY <3>2, Sorted
      <4>2. Traced(p, Seen(policies, Cardinality(InPath(p, k)), 0), value, cell)
        BY <3>1, <3>5, <4>1 DEF SourceInv
      <4>. QED BY <3>2, <4>2, SeenInTheEnd
    <3>6. TracedRight(<<p, k>>, result)
      BY <3>2, <3>4, <3>5 DEF Traced, TracedRight
    <3>7. ASSUME NEW job \in DOMAIN next PROVE TracedRight(job, next[job])'
      <4>. PICK v : v = next[job]  OBVIOUS
      <4>1. CASE job = <<p, k>>
        <5>1. TracedRight(job, v)  BY <3>6, <4>1
        <5>. QED BY <2>2, <5>1
      <4>2. CASE job # <<p, k>>
        <5>1. job \in DOMAIN computed /\ v = computed[job]  BY <3>3, <4>2
        <5>2. TracedRight(job, v)  BY <5>1 DEF ComputedTraced
        <5>. QED BY <2>2, <5>2
      <4>. QED BY <4>1, <4>2
    <3>. QED BY <3>7 DEF ComputedTraced
  <2>5. ~Finish => computed' = computed
    BY DEF Next, vars, TakeGateway, TakePath, NoPolicies, GatherPolicies,
           Merge, MergeDirect, MergeAtomicDefaults, MergeAtomicOverrides,
           MergePolicyRuleDefaults, MergePolicyRuleOverrides, Turn
  <2>. QED BY <2>3, <2>4, <2>5
<1>. QED BY <1>1, <1>2, ConfiguredHolds, LoopHolds, MergeHolds, SourcesHold, PTL
          DEF Spec

-----------------------------------------------------------------------------
(* No path is passed over: its turn comes yet, or each kind of policies    *)
(* has been merged along it or is about to be.                             *)
Handled(p, k) == InPath(p, k) = {} \/ <<p, k>> \in DOMAIN computed

InHand(p, k) ==
    p = path /\ (k = kind \/ \E n \in DOMAIN kindsLeft : kindsLeft[n] = k)

CoverInv ==
    \A p \in Paths :
        \/ p[1] \in gatewaysLeft \/ p \in pathsLeft
        \/ \A k \in KindsFor(p) : Handled(p, k) \/ InHand(p, k)

LEMMA CoverHolds == Spec => []CoverInv
<1>. \A p : "none" \notin KindsFor(p)  BY DEF KindsFor
<1>1. Init => CoverInv  BY PathsAssumption DEF Init, CoverInv
<1>2. LoopInv /\ CoverInv /\ [Next]_vars => CoverInv'
  <2>. SUFFICES ASSUME LoopInv, CoverInv, [Next]_vars PROVE CoverInv'
    OBVIOUS
  <2>1. ASSUME NEW g \in Gateways, TakeGateway(g) PROVE CoverInv'
    BY <2>1 DEF TakeGateway, CoverInv, Handled, InHand
  <2>2. ASSUME NEW p \in Paths, TakePath(p) PROVE CoverInv'
    <3>1. /\ Idle /\ kindsLeft = <<>> /\ path' = p /\ pathsLeft' = pathsLeft \ {p}
          /\ gatewaysLeft' = gatewaysLeft /\ computed' = computed
          /\ kindsLeft' = IF IsRulePath[p] THEN <<"AuthPolicy", "RateLimitPolicy">>
                                           ELSE <<"DNSPolicy", "TLSPolicy">>
      BY <2>2 DEF TakePath
    <3>2. ASSUME NEW k \in KindsFor(p) PROVE InHand(p, k)'
      <4>1. \E n \in {1, 2} : n \in DOMAIN kindsLeft' /\ kindsLeft'[n] = k
        BY <3>1, <3>2 DEF KindsFor
      <4>. QED BY <3>1, <4>1 DEF InHand
    <3>3. ASSUME NEW q \in Paths, NEW k \in KindsFor(q), InHand(q, k) PROVE FALSE
      BY <3>1, <3>3 DEF InHand, Idle
    <3>4. \A q, k : Handled(q, k) => Handled(q, k)'  BY <3>1 DEF Handled
    <3>. QED BY <3>1, <3>2, <3>3, <3>4 DEF CoverInv
  <2>3. ASSUME kindsLeft # <<>>
        PROVE  \A n \in DOMAIN kindsLeft :
                  \/ kindsLeft[n] = Head(kindsLeft)
                  \/ n - 1 \in DOMAIN Tail(kindsLeft)
                     /\ Tail(kindsLeft)[n - 1] = kindsLeft[n]
    <3>1. kindsLeft \in Seq(Kinds)  BY DEF LoopInv
    <3>. QED BY <2>3, <3>1
  <2>4. ASSUME NoPolicies PROVE CoverInv'
    <3>1. /\ Idle /\ kindsLeft # <<>> /\ kindsLeft' = Tail(kindsLeft)
          /\ InPath(path, Head(kindsLeft)) = {}
          /\ UNCHANGED <<path, kind, gatewaysLeft, pathsLeft, computed>>
      BY <2>4 DEF NoPolicies
    <3>2. ASSUME NEW p \in Paths, NEW k \in KindsFor(p), Handled(p, k) \/ InHand(p, k)
          PROVE  Handled(p, k)' \/ InHand(p, k)'
      BY <2>3, <3>1, <3>2 DEF Handled, InHand
    <3>. QED BY <3>1, <3>2 DEF CoverInv
  <2>5. ASSUME GatherPolicies PROVE CoverInv'
    <3>1. /\ Idle /\ kindsLeft # <<>> /\ kindsLeft' = Tail(kindsLeft)
          /\ kind' = Head(kindsLeft)
          /\ UNCHANGED <<path, gatewaysLeft, pathsLeft, computed>>
      BY <2>5 DEF GatherPolicies
    <3>2. ASSUME NEW p \in Paths, NEW k \in KindsFor(p), Handled(p, k) \/ InHand(p, k)
          PROVE  Handled(p, k)' \/ InHand(p, k)'
      BY <2>3, <3>1, <3>2 DEF Handled, InHand, Idle
    <3>. QED BY <3>1, <3>2 DEF CoverInv
  <2>6. ASSUME Finish PROVE CoverInv'
    <3>1. /\ DOMAIN computed' = DOMAIN computed \cup {<<path, kind>>}
          /\ UNCHANGED <<path, kindsLeft, gatewaysLeft, pathsLeft>>
      BY <2>6 DEF Finish
    <3>2. ASSUME NEW p \in Paths, NEW k \in KindsFor(p), Handled(p, k) \/ InHand(p, k)
          PROVE  Handled(p, k)' \/ InHand(p, k)'
      BY <3>1, <3>2 DEF Handled, InHand
    <3>. QED BY <3>1, <3>2 DEF CoverInv
  <2>7. CASE UNCHANGED <<loops, computed>>
    BY <2>7 DEF loops, CoverInv, Handled, InHand
  <2>8. Merge => UNCHANGED <<loops, computed>>
    BY DEF Merge, MergeDirect, MergeAtomicDefaults, MergeAtomicOverrides,
           MergePolicyRuleDefaults, MergePolicyRuleOverrides, Turn
  <2>. QED BY <2>1, <2>2, <2>4, <2>5, <2>6, <2>7, <2>8 DEF Next, vars
<1>. QED BY <1>1, <1>2, LoopHolds, PTL DEF Spec

(* A rule of an effective policy is traced to the policy its text is from, *)
(* or to the most specific policy along the path if defaults above found   *)
(* it in place, or, held by pointer, to the most specific policy along     *)
(* another path, whatever the order the paths are gone through             *)
(* (effective_policies_reconciler.go, merge_strategies.go).                *)
THEOREM SourcesKnown == Spec => []SourcesAsKnown
<1>1. Configured /\ ComputedInv /\ ComputedTraced /\ CoverInv => SourcesAsKnown
  <2>. SUFFICES ASSUME Configured, ComputedInv, ComputedTraced, CoverInv, Done,
                       NEW p \in Paths, NEW k, Mergeable(k),
                       NEW value, Result(p, k, InPath(p, k), value),
                       \A r \in RulesOf(value) :
                           TracedTo(p, InPath(p, k), value.locator, r,
                                    value.rules[r].origin, value.rules[r].source),
                       NEW rule \in RulesOf(value),
                       NEW w, w = value.rules[rule].origin,
                       NEW source, source = value.rules[rule].source
                PROVE  IF Retraced(p, k, w) THEN source = Bottom(p, k)
                       ELSE \/ source = w
                            \/ /\ rule \in Shared
                               /\ PolicyRuleDefaults(w) /\ w # Bottom(p, k)
                               /\ \E other \in DOMAIN computed :
                                     /\ w \in Kept(other[1], other[2])
                                     /\ source = Bottom(other[1], other[2])
    BY DEF ComputedInv, Right, ComputedTraced, TracedRight, SourcesAsKnown
  <2>1. KeptOf(p, InPath(p, k)) = Kept(p, k) /\ Kept(p, k) \subseteq InPath(p, k)
    BY DEF KeptOf, Kept
  <2>2. w \in Kept(p, k) /\ IsLowest(p, Kept(p, k), value.locator)
    BY <2>1, OriginKept DEF Result
  <2>3. Bottom(p, k) = value.locator  BY <2>1, <2>2, LowestIs DEF Bottom
  <2>4. RetracedIn(p, InPath(p, k), w) <=> Retraced(p, k, w)
    BY <2>1 DEF RetracedIn, Retraced
  <2>5. TracedTo(p, InPath(p, k), Bottom(p, k), rule, w, source)  BY <2>3
  <2>6. ASSUME AlongPath(w, source)
        PROVE  \E other \in DOMAIN computed :
                  /\ w \in Kept(other[1], other[2])
                  /\ source = Bottom(other[1], other[2])
    <3>1. PICK j \in Paths : IsRulePath[j] /\ w \in Kept(j, k) /\ source = Bottom(j, k)
      BY <2>2, <2>6, SomeOtherPath
    <3>2. k \in KindsFor(j) /\ k # "none"  BY <3>1 DEF KindsFor, Mergeable
    <3>3. Handled(j, k)  BY <3>2 DEF CoverInv, Done, Idle, InHand
    <3>4. <<j, k>> \in DOMAIN computed  BY <3>1, <3>3 DEF Handled, Kept
    <3>. QED BY <3>1, <3>4
  <2>. QED BY <2>4, <2>5, <2>6 DEF TracedTo
<1>. QED BY <1>1, ConfiguredHolds, ComputedHolds, ComputedTracedHolds, CoverHolds, PTL
=============================================================================
