------------------------ MODULE MCEffectivePolicies -------------------------
(***************************************************************************)
(* Two gateways, one route with two rules.  Four AuthPolicies: one of the  *)
(* first gateway, two of the route, one of the first rule; and two         *)
(* DNSPolicies, of a gateway and of its listener.                          *)
(***************************************************************************)
EXTENDS EffectivePolicies

CONSTANTS g1, g2, listener, route, rule1, rule2,
          atGateway, atRoute, atRouteToo, atRule, dnsGateway, dnsListener,
          r, deny, when

MCKind == [p \in Policies |->
    IF p \in {dnsGateway, dnsListener} THEN "DNSPolicy" ELSE "AuthPolicy"]

MCTarget ==
    [p \in Policies |->
        CASE p \in {atGateway, dnsGateway} -> g1
          [] p \in {atRoute, atRouteToo} -> route
          [] p = atRule -> rule1
          [] p = dnsListener -> listener]

MCName ==
    [p \in Policies |->
        CASE p = atGateway -> 1 [] p = atRoute -> 2 [] p = atRouteToo -> 3
          [] p = atRule -> 4 [] p = dnsGateway -> 5 [] p = dnsListener -> 6]

SpecsOf(kinds, ruleSets) ==
    {[section |-> k[1], strategy |-> k[2], rules |-> s] :
        k \in kinds, s \in ruleSets}

Bare == <<"bare", "atomic">>
AllKinds == {Bare} \cup {"defaults", "overrides"} \X Strategies
NoExplicitAtomic == AllKinds \ {<<"defaults", "atomic">>}

MCSpecs ==
    {[p \in Policies |->
        CASE p = atGateway -> s1 [] p = atRoute -> s2
          [] p = atRouteToo -> s3 [] p = atRule -> s4
          [] OTHER -> [section |-> "bare", strategy |-> "atomic", rules |-> {r}]] :
        s1 \in SpecsOf(AllKinds, {{deny}, {r, when}}),
        s2 \in SpecsOf(NoExplicitAtomic, {{r, deny}}),
        s3 \in SpecsOf(NoExplicitAtomic, {{r, when}}),
        s4 \in SpecsOf(NoExplicitAtomic, {{deny}, {r}})}

(* The first policy of the route is of the same age as the other or younger. *)
MCTimes ==
    {[p \in Policies |-> IF p = atRoute THEN t ELSE 2] : t \in 2..3}

MCPaths == {<<g1, listener>>,
            <<g1, route, rule1>>, <<g1, route, rule2>>,
            <<g2, route, rule1>>, <<g2, route, rule2>>}

MCIsRulePath == [p \in Paths |-> Len(p) = 3]

=============================================================================
