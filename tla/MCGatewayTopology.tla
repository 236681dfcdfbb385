-------------------------- MODULE MCGatewayTopology --------------------------
(***************************************************************************)
(* Clusters with two gateways in two namespaces and two services of the    *)
(* same name, one route of each kind in turn with up to two parentRefs and *)
(* two rules, another route that names the same rule, and policies on      *)
(* objects and sections.                                                   *)
(***************************************************************************)
EXTENDS GatewayTopology, FiniteSetsExt

CONSTANTS MaxParents,    \* bounds on the parentRefs of a route
          MaxBackends    \* and on the backendRefs of a rule

RuleNames == <<"rule-1", "rule-2">>

Class == [kind |-> "GatewayClass", namespace |-> None, name |-> "class"]

GatewaysWith(listeners) ==
    {[kind |-> "Gateway", namespace |-> "a", name |-> "gw", class |-> "class",
      listeners |-> listeners],
     [kind |-> "Gateway", namespace |-> "b", name |-> "gw", class |-> "other",
      listeners |-> {"http"}]}

ParentRefs ==
    {[kind |-> kind, namespace |-> "a", name |-> "gw", section |-> None] :
        kind \in {"Gateway", "Service"}}
    \cup
    {[kind |-> None, namespace |-> namespace, name |-> "gw", section |-> "http"] :
        namespace \in {None, "b"}}

BackendRefs ==
    {[kind |-> None, namespace |-> None, name |-> "svc", port |-> port] :
        port \in {None, 80, 81}}
    \cup
    {[kind |-> "Service", namespace |-> "b", name |-> "svc", port |-> 80]}

UpTo(max, S) == UNION {kSubset(k, S) : k \in 0..max}

MCRules == [name : {None, "rule-2"}, backendRefs : UpTo(MaxBackends, BackendRefs)]

Ref(namespace, port) ==
    [kind |-> None, namespace |-> namespace, name |-> "svc", port |-> port]

(* Parents and backends do not meet in any link: they vary in turn.        *)
RoutesOf(kind) ==
    {[kind |-> kind, namespace |-> "a", name |-> "route",
      parentRefs |-> parentRefs,
      rules |-> <<[name |-> None, backendRefs |-> {Ref(None, 80)}]>>] :
        parentRefs \in UpTo(MaxParents, ParentRefs)}
    \cup
    {[kind |-> kind, namespace |-> "a", name |-> "route",
      parentRefs |-> {[kind |-> None, namespace |-> None, name |-> "gw", section |-> None]},
      rules |-> rules] :
        rules \in UNION {[1..n -> MCRules] : n \in 0..2}}

OtherRoute ==
    [kind |-> "HTTPRoute", namespace |-> "b", name |-> "route",
     parentRefs |-> {[kind |-> None, namespace |-> None, name |-> "gw", section |-> None]},
     rules |-> <<[name |-> "rule-2", backendRefs |-> {Ref(None, 80)}]>>]

Http == [name |-> "http", number |-> 80]

ServicesWith(ports) ==
    {[kind |-> "Service", namespace |-> "a", name |-> "svc", ports |-> ports],
     [kind |-> "Service", namespace |-> "b", name |-> "svc", ports |-> {Http}]}

Target(kind, name, section) ==
    [kind |-> kind, namespace |-> "a", name |-> name, section |-> section]

MCPolicies ==
    {[kind |-> "Policy", namespace |-> "a", name |-> "whole",
      targetRefs |-> {Target(kind, "route", None) : kind \in RouteKinds}
                        \cup {Target("Service", "svc", None)}],
     [kind |-> "Policy", namespace |-> "a", name |-> "sections",
      targetRefs |-> {Target(kind, "route", "rule-2") : kind \in RouteKinds}
                        \cup {Target("Gateway", "gw", "http"),
                              Target("Service", "svc", "http")}]}

MCClusters ==
    [classes  : {{Class}},
     gateways : {GatewaysWith({}), GatewaysWith({"http", "tls"})},
     routes   : {{route, OtherRoute} : route \in UNION {RoutesOf(k) : k \in RouteKinds}},
     services : {ServicesWith({}), ServicesWith({Http})},
     policies : {MCPolicies}]

(* No rules, those the controller has expanded, or those of all kinds.     *)
MCRuleExpansions == {{}, {"HTTPRoute", "GRPCRoute"}, RouteKinds}
=============================================================================
