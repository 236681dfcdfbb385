-------------------------- MODULE EffectivePolicies --------------------------
(***************************************************************************)
(* ReconcileEffectivePolicies of the Kuadrant example (reconcilers/        *)
(* effective_policies_reconciler.go) and the merge strategies it reduces   *)
(* the policies of a path with (apis/v1/merge_strategies.go), one action   *)
(* per call of Merge.                                                      *)
(*                                                                         *)
(* A policy as a value has a locator and rules; of a rule the model keeps  *)
(* its origin, i.e. the policy whose text it is, and its Source field.     *)
(* Rules are held by value in the policy they are set on, all but those of *)
(* Shared, which AuthPolicy holds by pointer (response.unauthenticated,    *)
(* response.unauthorized): SetRules stores the pointer Rules returned, so  *)
(* WithSource writes to the policy in the topology as well.                *)
(***************************************************************************)
EXTENDS Naturals, Sequences, FiniteSets

CONSTANTS
    Policies,   \* the policies in the topology, by locator
    Kind,       \* their kinds, ...
    Target,     \* targets, ...
    Name,       \* and namespaced names, as ranks in alphabetical order
    Rules,      \* identifiers of policy rules
    Shared,     \* those held by pointer
    Conditions, \* those Empty does not look at: patterns, top-level predicates
    Specs,      \* the specs, and ...
    Times,      \* ... the creation timestamps the policies may have
    Targetables,   \* the targetables of the topology,
    Gateways,   \* its gateways,
    Paths,      \* the paths from a gateway to a listener or an HTTPRouteRule,
    IsRulePath, \* and which of them end at a rule: [Paths -> BOOLEAN]
    None        \* no policy, no gateway, or the empty Source

Sections == {"bare", "defaults", "overrides"}
Strategies == {"atomic", "merge"}

(* What validation admits: one section, and rules besides the conditions.  *)
ValidSpecs ==
    [section : Sections, strategy : Strategies,
     rules : {rules \in SUBSET Rules : rules \ Conditions # {}}]

ASSUME ConstantsAssumption ==
    /\ IsFiniteSet(Policies) /\ None \notin Policies
    /\ Specs \subseteq [Policies -> ValidSpecs]
    /\ Times \subseteq [Policies -> Nat]
    /\ Name \in [Policies -> Nat]
    /\ \A p, q \in Policies : Kind[p] = Kind[q] /\ Name[p] = Name[q] => p = q

(* Topologies have no cycles.                                              *)
ASSUME PathsAssumption ==
    \A p \in Paths :
        /\ p \in Seq(Targetables) /\ p # <<>> /\ p[1] \in Gateways
        /\ \A m, n \in DOMAIN p : p[m] = p[n] => m = n

(* Whatever leads to a targetable leads on to the rules below it.          *)
ASSUME RulePathsJoin ==
    \A p, q \in Paths : \A m \in DOMAIN p, n \in DOMAIN q :
        IsRulePath[q] /\ p[m] = q[n] =>
            LET joined == SubSeq(p, 1, m) \o SubSeq(q, n + 1, Len(q))
            IN  joined \in Paths /\ IsRulePath[joined]

VARIABLES
    spec, created,  \* the policies of the topology; these never change
    cell,           \* the Source of each pointer rule of the topology
    gateway, gatewaysLeft,   \* the loop over gateways,
    pathsLeft, path,         \* over the paths from one,
    kindsLeft, kind,         \* and over the kinds of policies for a path
    policies,       \* the policies in the path, least specific first
    i,              \* those still to merge are the first i
    effective,      \* the accumulated policy, or None
    computed        \* what was computed: path and kind to effective policy

config == <<spec, created>>
loops == <<gateway, gatewaysLeft, pathsLeft, path, kindsLeft, kind>>
vars == <<config, cell, loops, policies, i, effective, computed>>

-----------------------------------------------------------------------------
(* The policies in a path, and their order.                                *)

InPath(p, k) ==
    {q \in Policies : Kind[q] = k /\ \E n \in DOMAIN p : p[n] = Target[q]}

PositionIn(p, q) == CHOOSE n \in DOMAIN p : p[n] = Target[q]

(* ObjectsByCreationTimestamp.                                             *)
OlderFirst(q, r) ==
    \/ created[q] < created[r]
    \/ created[q] = created[r] /\ Name[q] < Name[r]

Precedes(p, q, r) ==
    \/ PositionIn(p, q) < PositionIn(p, r)
    \/ Target[q] = Target[r] /\ OlderFirst(q, r)

PoliciesInPath(p, k) ==
    [n \in 1..Cardinality(InPath(p, k)) |->
        CHOOSE q \in InPath(p, k) :
            Cardinality({r \in InPath(p, k) : Precedes(p, r, q)}) = n - 1]

-----------------------------------------------------------------------------
(* Policies as values.                                                     *)

(* A policy of the topology, as its Rules method returns it.               *)
AsValue(p) ==
    [locator |-> p,
     rules |-> [r \in spec[p].rules |->
                   [origin |-> p, source |-> p, pointer |-> r \in Shared]]]

RulesOf(policy) == DOMAIN policy.rules

(* The rules of a policy that are pointers into the topology.              *)
Pointers(policy) ==
    {<<policy.rules[r].origin, r>> :
        r \in {x \in RulesOf(policy) : policy.rules[x].pointer}}

Empty(policy) == RulesOf(policy) \subseteq Conditions

GetSource(policy, r) ==
    LET rule == policy.rules[r]
    IN  IF rule.pointer THEN cell[<<rule.origin, r>>] ELSE rule.source

(* copyMergeablePolicy: a deep copy with every rule traced to the policy.  *)
Copy(policy) ==
    [locator |-> policy.locator,
     rules |-> [r \in RulesOf(policy) |->
                   [origin |-> policy.rules[r].origin,
                    source |-> policy.locator, pointer |-> FALSE]]]

(* The rules of one policy, and those of the other that it does not have,  *)
(* set on a copy of target.                                                *)
Union(first, second, target) ==
    [locator |-> target.locator,
     rules |-> [r \in RulesOf(first) \cup RulesOf(second) |->
         IF r \in RulesOf(first)
         THEN [first.rules[r] EXCEPT !.source = first.locator]
         ELSE second.rules[r]]]

(* The Source of pointer rules after the same: those of the first policy   *)
(* are stamped, those of the other have a source given if they have none.  *)
Stamp(first, second) ==
    [c \in DOMAIN cell |->
        IF c \in Pointers(first) THEN first.locator
        ELSE IF c \in Pointers(second) /\ cell[c] = None THEN second.locator
        ELSE cell[c]]

(* GetMergeStrategy, DefaultsMergeStrategy, OverridesMergeStrategy.        *)
AtomicDefaults(p) ==
    \/ spec[p].section = "bare"
    \/ spec[p].section = "defaults" /\ spec[p].strategy = "atomic"
PolicyRuleDefaults(p) ==
    spec[p].section = "defaults" /\ spec[p].strategy = "merge"
AtomicOverrides(p) ==
    spec[p].section = "overrides" /\ spec[p].strategy = "atomic"
PolicyRuleOverrides(p) ==
    spec[p].section = "overrides" /\ spec[p].strategy = "merge"

Mergeable(k) == k \in {"AuthPolicy", "RateLimitPolicy"}

-----------------------------------------------------------------------------
Init ==
    /\ spec \in Specs
    /\ created \in Times
    /\ cell = [c \in Policies \X Shared |-> None]
    /\ gateway = None /\ gatewaysLeft = Gateways
    /\ pathsLeft = {} /\ path = <<>>
    /\ kindsLeft = <<>> /\ kind = "none"
    /\ policies = <<>> /\ i = 0 /\ effective = None
    /\ computed = <<>>

(* Nothing is being merged.                                                *)
Idle == kind = "none"

(* The loop over gateways: the paths to the listeners come first.          *)
TakeGateway(g) ==
    /\ Idle /\ kindsLeft = <<>> /\ pathsLeft = {} /\ g \in gatewaysLeft
    /\ gateway' = g
    /\ gatewaysLeft' = gatewaysLeft \ {g}
    /\ pathsLeft' = {p \in Paths : p[1] = g}
    /\ UNCHANGED <<config, cell, path, kindsLeft, kind, policies, i,
                   effective, computed>>

TakePath(p) ==
    /\ Idle /\ kindsLeft = <<>> /\ p \in pathsLeft
    /\ IsRulePath[p] => \A q \in pathsLeft : IsRulePath[q]
    /\ path' = p
    /\ pathsLeft' = pathsLeft \ {p}
    /\ kindsLeft' = IF IsRulePath[p] THEN <<"AuthPolicy", "RateLimitPolicy">>
                                     ELSE <<"DNSPolicy", "TLSPolicy">>
    /\ UNCHANGED <<config, cell, gateway, gatewaysLeft, kind, policies, i,
                   effective, computed>>

(* effectivePolicyForPath: no policy of the kind, ...                      *)
NoPolicies ==
    /\ Idle /\ kindsLeft # <<>>
    /\ InPath(path, Head(kindsLeft)) = {}
    /\ kindsLeft' = Tail(kindsLeft)
    /\ UNCHANGED <<config, cell, gateway, gatewaysLeft, pathsLeft, path, kind,
                   policies, i, effective, computed>>

(* ... or a reduction from the right that starts with the last policy.     *)
GatherPolicies ==
    /\ Idle /\ kindsLeft # <<>>
    /\ InPath(path, Head(kindsLeft)) # {}
    /\ kind' = Head(kindsLeft)
    /\ kindsLeft' = Tail(kindsLeft)
    /\ policies' = PoliciesInPath(path, kind')
    /\ i' = Len(policies')
    /\ effective' = AsValue(policies'[i'])
    /\ UNCHANGED <<config, cell, gateway, gatewaysLeft, pathsLeft, path,
                   computed>>

(* One turn of the reduction: effective.Merge(policies[i]).                *)
Turn ==
    /\ i > 0
    /\ i' = i - 1
    /\ UNCHANGED <<config, loops, policies, computed>>

Source == AsValue(policies[i])

(* DNSPolicy and TLSPolicy: the other policy replaces this one.            *)
MergeDirect ==
    /\ Turn /\ ~Mergeable(kind)
    /\ effective' = Source
    /\ UNCHANGED cell

MergeAtomicDefaults ==
    /\ Turn /\ Mergeable(kind) /\ AtomicDefaults(policies[i])
    /\ effective' = IF ~Empty(effective) THEN Copy(effective) ELSE Copy(Source)
    /\ UNCHANGED cell

MergeAtomicOverrides ==
    /\ Turn /\ Mergeable(kind) /\ AtomicOverrides(policies[i])
    /\ effective' = Copy(Source)
    /\ UNCHANGED cell

(* Mutant: defaults that are already in place are replaced.                *)
MergeDefaultsOver ==
    /\ Turn /\ Mergeable(kind) /\ PolicyRuleDefaults(policies[i])
    /\ effective' = Union(Source, effective, effective)
    /\ cell' = Stamp(Source, effective)

(* The rules of the target, traced to the target.                          *)
MergePolicyRuleDefaults ==
    /\ Turn /\ Mergeable(kind) /\ PolicyRuleDefaults(policies[i])
    /\ effective' = Union(effective, Source, effective)
    /\ cell' = Stamp(effective, Source)

(* Mutant: the rules are set on a copy of the source.                      *)
MergeOverridesAndClaim ==
    /\ Turn /\ Mergeable(kind) /\ PolicyRuleOverrides(policies[i])
    /\ effective' = [Union(Source, effective, effective) EXCEPT
                        !.locator = Source.locator]
    /\ cell' = Stamp(Source, effective)

(* The rules of the source, traced to the source.                          *)
MergePolicyRuleOverrides ==
    /\ Turn /\ Mergeable(kind) /\ PolicyRuleOverrides(policies[i])
    /\ effective' = Union(Source, effective, effective)
    /\ cell' = Stamp(Source, effective)

Merge ==
    \/ MergeDirect \/ MergeAtomicDefaults \/ MergeAtomicOverrides
    \/ MergePolicyRuleDefaults \/ MergePolicyRuleOverrides

(* The effective policy as the caller reads it, with the sources as they   *)
(* are by then.                                                            *)
Finish ==
    /\ ~Idle /\ i = 0
    /\ computed' = [job \in DOMAIN computed \cup {<<path, kind>>} |->
           IF job # <<path, kind>> THEN computed[job]
           ELSE [locator |-> effective.locator,
                 rules |-> [r \in RulesOf(effective) |->
                     [origin |-> effective.rules[r].origin,
                      source |-> GetSource(effective, r)]]]]
    /\ kind' = "none" /\ policies' = <<>> /\ effective' = None
    /\ UNCHANGED <<config, cell, gateway, gatewaysLeft, pathsLeft, path,
                   kindsLeft, i>>

Next ==
    \/ \E g \in Gateways : TakeGateway(g)
    \/ \E p \in Paths : TakePath(p)
    \/ NoPolicies \/ GatherPolicies \/ Merge \/ Finish

Spec == Init /\ [][Next]_vars

-----------------------------------------------------------------------------
(* What defaults and overrides promise, stated on the policies of a path   *)
(* without the reduction.  Above(p, q, r): q is less specific than r.      *)
Above(p, q, r) ==
    \E m, n \in DOMAIN p :
        /\ p[m] = Target[q] /\ p[n] = Target[r]
        /\ \/ m < n
           \/ m = n /\ created[q] < created[r]
           \/ m = n /\ created[q] = created[r] /\ Name[q] < Name[r]

(* An atomic override discards everything below it.                        *)
Kept(p, k) ==
    {q \in InPath(p, k) :
        ~\E r \in InPath(p, k) : AtomicOverrides(r) /\ Above(p, r, q)}

Lowest(p, S) == CHOOSE q \in S : \A r \in S \ {q} : Above(p, r, q)
Highest(p, S) == CHOOSE q \in S : \A r \in S \ {q} : Above(p, q, r)

Bottom(p, k) == Lowest(p, Kept(p, k))

(* Above the lowest policy kept, those contribute that are merged rule by  *)
(* rule; atomic defaults find something to leave alone.                    *)
Contributors(p, k, rule) ==
    LET bottom == Bottom(p, k)
    IN  {q \in Kept(p, k) :
            /\ rule \in spec[q].rules
            /\ q = bottom \/ PolicyRuleDefaults(q) \/ PolicyRuleOverrides(q)}

(* The highest override wins, without one the lowest default.              *)
Winner(p, contributors) ==
    LET overriding == {q \in contributors : PolicyRuleOverrides(q)}
    IN  IF overriding # {} THEN Highest(p, overriding)
        ELSE Lowest(p, contributors)

(* The reconciler has been through all paths.                              *)
Done == Idle /\ kindsLeft = <<>> /\ pathsLeft = {} /\ gatewaysLeft = {}

(* The effective policy has the rules somebody contributes, each with the  *)
(* text of the policy that wins it: overrides from above, defaults from    *)
(* below, in whatever mixture a path holds them.  A DNS or TLS policy of a *)
(* gateway replaces those of its listeners.                                *)
EffectiveIsWinner ==
    Done =>
      \A job \in DOMAIN computed :
        LET p == job[1]
            k == job[2]
            result == computed[job]
        IN  IF ~Mergeable(k) THEN result.locator = Highest(p, InPath(p, k))
            ELSE /\ result.locator = Bottom(p, k)
                 /\ \A rule \in Rules :
                      LET contributors == Contributors(p, k, rule)
                      IN  IF contributors = {} THEN rule \notin RulesOf(result)
                          ELSE /\ rule \in RulesOf(result)
                               /\ result.rules[rule].origin =
                                      Winner(p, contributors)

(* Some policy above p, of the kind that defaults to what is there, traces *)
(* everything it finds to the policy it finds it in.                       *)
Retraced(p, k, q) ==
    \E r \in Kept(p, k) :
        Above(p, r, q) /\ (AtomicDefaults(r) \/ PolicyRuleDefaults(r))

(* How far what a rule is traced to departs from SourceIsOrigin, the       *)
(* disagreement that is known: it is the rule's origin, unless defaults    *)
(* from above traced it to the most specific policy, where it may never    *)
(* have been written; a default held by pointer may besides be traced to   *)
(* what it was traced to along another path.                               *)
SourcesAsKnown ==
    Done =>
      \A job \in DOMAIN computed :
        LET p == job[1]
            k == job[2]
        IN  Mergeable(k) =>
              \A rule \in RulesOf(computed[job]) :
                  LET w == computed[job].rules[rule].origin
                      source == computed[job].rules[rule].source
                  IN  IF Retraced(p, k, w) THEN source = Bottom(p, k)
                      ELSE \/ source = w
                           \/ /\ rule \in Shared
                              /\ PolicyRuleDefaults(w) /\ w # Bottom(p, k)
                              /\ \E other \in DOMAIN computed :
                                    /\ w \in Kept(other[1], other[2])
                                    /\ source = Bottom(other[1], other[2])

-----------------------------------------------------------------------------
(* What the comments say, and the merge strategies do not do.              *)

(* apis/v1/merge_strategies.go:43-44: every rule is "traced back to its    *)
(* source, i.e. to the policy where the rule spec was defined", and        *)
(* apis/v1/ratelimitpolicy_types.go:231: "Source stores the locator of the *)
(* policy where the limit is orignaly defined".                            *)
SourceIsOrigin ==
    \A job \in DOMAIN computed : Mergeable(job[2]) =>
        \A rule \in RulesOf(computed[job]) :
            computed[job].rules[rule].source = computed[job].rules[rule].origin
=============================================================================
