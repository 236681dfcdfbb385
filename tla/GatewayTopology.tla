--------------------------- MODULE GatewayTopology ---------------------------
(***************************************************************************)
(* NewGatewayAPITopology (machinery/gateway_api_topology.go): the          *)
(* targetables and the links of a topology of Gateway API resources, with  *)
(* any of its objects expanded to their sections (listeners, route rules,  *)
(* service ports), and the policies NewTopology attaches to them.  The     *)
(* controller calls it through its topology builder, programs at will.     *)
(*                                                                         *)
(* The functions for the five kinds of routes differ in their types only,  *)
(* except where LinkedByRoute says so.  Links are pairs of locators: how   *)
(* often two objects are linked is left out.  So are the objects and link  *)
(* functions of the user, and the parentRefs' port, which the code ignores.*)
(***************************************************************************)
EXTENDS Naturals, Sequences

CONSTANTS Clusters,       \* the resources a topology may be built from
          RuleExpansions, \* the sets of route kinds whose rules may be expanded
          GeneratedName,  \* "rule-1", "rule-2", ...
          None            \* an optional field that is not set

RouteKinds == {"HTTPRoute", "GRPCRoute", "TCPRoute", "TLSRoute", "UDPRoute"}

ASSUME ExpansionAssumption == RuleExpansions \subseteq SUBSET RouteKinds

(* Objects have the kinds they are listed under, and sections have names:  *)
(* that of a port without one is empty, and its locator ends in a #.       *)
ASSUME ResourcesAssumption ==
    \A c \in Clusters :
        /\ \A class \in c.classes : class.kind = "GatewayClass"
        /\ \A gateway \in c.gateways :
              gateway.kind = "Gateway" /\ None \notin gateway.listeners
        /\ \A route \in c.routes :
              /\ route.kind \in RouteKinds
              /\ \A i \in DOMAIN route.rules : GeneratedName[i] # None
        /\ \A service \in c.services :
              /\ service.kind = "Service"
              /\ \A port \in service.ports : port.name # None

VARIABLES
    cluster,    \* the resources passed to NewGatewayAPITopology
    expand,     \* its Expand options
    builder,    \* the controller's topology builder has chosen these
    topology    \* what it returns

vars == <<cluster, expand, builder, topology>>

Expansions == [listeners : BOOLEAN, rules : RuleExpansions, ports : BOOLEAN]

NoExpansion == [listeners |-> FALSE, rules |-> {}, ports |-> FALSE]

Init ==
    /\ cluster \in Clusters
    /\ expand \in Expansions
    /\ builder = FALSE
    /\ topology = None

-----------------------------------------------------------------------------
(* Locators: of an object, and of one of its sections.                     *)
Locator(object) ==
    [kind |-> object.kind, namespace |-> object.namespace,
     name |-> object.name, section |-> None]

(* The API server keeps the names of a kind unique in a namespace.         *)
ASSUME NamesAssumption ==
    \A c \in Clusters : \A p, q \in c.policies : Locator(p) = Locator(q) => p = q

Section(object, section) ==
    [kind |-> object.kind, namespace |-> object.namespace,
     name |-> object.name, section |-> section]

Deref(field, default) == IF field = None THEN default ELSE field

(* Rules without a name are named by their position; nothing prevents a    *)
(* rule from having such a name itself.                                    *)
RuleName(route, i) == Deref(route.rules[i].name, GeneratedName[i])

-----------------------------------------------------------------------------
(* What the parentRefs of a route refer to.                                *)
FindGateways(ref, namespace) ==
    {gateway \in cluster.gateways :
        /\ Deref(ref.kind, "Gateway") = "Gateway"
        /\ gateway.namespace = Deref(ref.namespace, namespace)
        /\ gateway.name = ref.name}

ParentGateways(route) ==
    {Locator(gateway) : gateway \in
        UNION {FindGateways(ref, route.namespace) : ref \in route.parentRefs}}

(* Mutant: a listener is found by its name, of whichever gateway.          *)
FindListenersByName(ref, namespace) ==
    UNION {{Section(gateway, listener) : listener \in
                IF ref.section = None THEN gateway.listeners
                ELSE gateway.listeners \cap {ref.section}} :
           gateway \in IF ref.section = None THEN FindGateways(ref, namespace)
                       ELSE cluster.gateways}

(* Mutant: a parentRef without sectionName names no listener.              *)
FindNamedListeners(ref, namespace) ==
    UNION {{Section(gateway, listener) :
                listener \in gateway.listeners \cap {ref.section}} :
           gateway \in FindGateways(ref, namespace)}

FindListeners(ref, namespace) ==
    UNION {{Section(gateway, listener) : listener \in
                IF ref.section = None THEN gateway.listeners
                ELSE gateway.listeners \cap {ref.section}} :
           gateway \in FindGateways(ref, namespace)}

ParentListeners(route) ==
    UNION {FindListeners(ref, route.namespace) : ref \in route.parentRefs}

(* What links to backends start from: a whole route, or each of its rules. *)
WholeRoute(route) ==
    {[locator |-> Locator(route), namespace |-> route.namespace,
      backendRefs |-> UNION {route.rules[i].backendRefs : i \in DOMAIN route.rules}]}

RulesOf(route) ==
    {[locator |-> Section(route, RuleName(route, i)), namespace |-> route.namespace,
      backendRefs |-> route.rules[i].backendRefs] : i \in DOMAIN route.rules}

BackendSources(route, options) ==
    IF route.kind \in options.rules THEN RulesOf(route) ELSE WholeRoute(route)

(* Mutant: of TCPRoutes, too.                                              *)
LinkedByL4Route(route, options) ==
    route.kind \in {"TCPRoute", "TLSRoute", "UDPRoute"} /\ ~options.ports

(* With rules expanded and ports not, the services of TLSRoutes and        *)
(* UDPRoutes are linked by the function for whole routes.                  *)
LinkedByRoute(route, options) ==
    route.kind \in {"TLSRoute", "UDPRoute"} /\ ~options.ports

ServiceSources(route, options) ==
    IF LinkedByRoute(route, options) THEN WholeRoute(route)
    ELSE BackendSources(route, options)

(* backendRefEqualToService.                                               *)
RefersTo(ref, service, namespace) ==
    /\ Deref(ref.kind, "Service") = "Service"
    /\ service.namespace = Deref(ref.namespace, namespace)
    /\ service.name = ref.name

(* Mutant: with ports expanded, references to a port link the service too. *)
ServiceParentsLax(service, options) ==
    {source.locator : source \in
        {s \in UNION {ServiceSources(route, options) : route \in cluster.routes} :
            \E ref \in s.backendRefs : RefersTo(ref, service, s.namespace)}}

(* Link...ToServiceFunc, strict when ports are expanded: then a reference  *)
(* to a port is left to the next function.                                 *)
ServiceParents(service, options) ==
    {source.locator : source \in
        {s \in UNION {ServiceSources(route, options) : route \in cluster.routes} :
            \E ref \in s.backendRefs :
                /\ options.ports => ref.port = None
                /\ RefersTo(ref, service, s.namespace)}}

(* Link...ToServicePortFunc.                                               *)
PortParents(service, port, options) ==
    {source.locator : source \in
        {s \in UNION {BackendSources(route, options) : route \in cluster.routes} :
            \E ref \in s.backendRefs :
                ref.port = port.number /\ RefersTo(ref, service, s.namespace)}}

-----------------------------------------------------------------------------
From(parents, child) == {<<parent, child>> : parent \in parents}

ClassLinks ==
    UNION {From({Locator(class) : class \in
                    {c \in cluster.classes : c.name = gateway.class}},
                Locator(gateway)) : gateway \in cluster.gateways}

ListenerLinks ==
    UNION {{<<Locator(gateway), Section(gateway, listener)>> :
                listener \in gateway.listeners} : gateway \in cluster.gateways}

(* Mutant: expanding listeners keeps the links from their gateways.        *)
RouteParentsAll(route, options) ==
    IF options.listeners THEN ParentListeners(route) \cup ParentGateways(route)
    ELSE ParentGateways(route)

RouteParents(route, options) ==
    IF options.listeners THEN ParentListeners(route) ELSE ParentGateways(route)

RouteLinks(options) ==
    UNION {From(RouteParents(route, options), Locator(route)) :
           route \in cluster.routes}

RuleLinks(options) ==
    UNION {{<<Locator(route), rule.locator>> : rule \in RulesOf(route)} :
           route \in {r \in cluster.routes : r.kind \in options.rules}}

ServiceLinks(options) ==
    UNION {From(ServiceParents(service, options), Locator(service)) :
           service \in cluster.services}

PortLinks(options) ==
    UNION {UNION {From({Locator(service)} \cup PortParents(service, port, options),
                       Section(service, port.name)) : port \in service.ports} :
           service \in cluster.services}

Links(options) ==
    ClassLinks \cup RouteLinks(options) \cup RuleLinks(options) \cup ServiceLinks(options)
        \cup (IF options.listeners THEN ListenerLinks ELSE {})
        \cup (IF options.ports THEN PortLinks(options) ELSE {})

(* The sections that become targetables.                                   *)
Listeners ==
    UNION {{Section(gateway, listener) : listener \in gateway.listeners} :
           gateway \in cluster.gateways}

Rules(options) ==
    UNION {{rule.locator : rule \in RulesOf(route)} :
           route \in {r \in cluster.routes : r.kind \in options.rules}}

ServicePorts ==
    UNION {{Section(service, port.name) : port \in service.ports} :
           service \in cluster.services}

Targetables(options) ==
    {Locator(object) : object \in cluster.classes \cup cluster.gateways
                                      \cup cluster.routes \cup cluster.services}
        \cup (IF options.listeners THEN Listeners ELSE {})
        \cup Rules(options)
        \cup (IF options.ports THEN ServicePorts ELSE {})

(* Mutant: only targets without a section are found.                       *)
PolicyLinksToObjects(options) ==
    UNION {{<<Locator(policy), target>> : target \in policy.targetRefs \cap
                Targetables(NoExpansion)} : policy \in cluster.policies}

(* addPoliciesToGraph: an edge to each target found in the graph, where    *)
(* the policies are, too.                                                  *)
PolicyLinks(options) ==
    UNION {{<<Locator(policy), target>> : target \in policy.targetRefs \cap
                (Targetables(options) \cup {Locator(p) : p \in cluster.policies})} :
           policy \in cluster.policies}

(* SetPolicies of a targetable: all policies that refer to its locator.    *)
Policies(targetable) == {p \in cluster.policies : targetable \in p.targetRefs}

NewTopology(options) ==
    [targetables |-> Targetables(options),
     links       |-> Links(options),
     policyLinks |-> PolicyLinks(options),
     policies    |-> [t \in Targetables(options) |-> Policies(t)]]

(* gatewayAPITopologyBuilder.Build: of the routes in the store it passes   *)
(* those of two kinds on, and has all sections expanded.                   *)
BuilderExpansion ==
    [listeners |-> TRUE, rules |-> {"HTTPRoute", "GRPCRoute"}, ports |-> TRUE]

Build ==
    /\ topology = None /\ ~builder
    /\ builder' = TRUE
    /\ cluster' =
          [classes  |-> cluster.classes,
           gateways |-> cluster.gateways,
           routes   |-> {r \in cluster.routes : r.kind \in BuilderExpansion.rules},
           services |-> cluster.services,
           policies |-> cluster.policies]
    /\ expand' = BuilderExpansion
    /\ UNCHANGED topology

(* The topology is built in one go.                                        *)
NewGatewayAPITopology ==
    /\ topology = None
    /\ topology' = NewTopology(expand)
    /\ UNCHANGED <<cluster, expand, builder>>

Next == Build \/ NewGatewayAPITopology

Spec == Init /\ [][Next]_vars
-----------------------------------------------------------------------------
Built == topology # None

(* What an object and its sections are linked to, taken together.          *)
Principal(locator) == [locator EXCEPT !.section = None]

Folded(links) ==
    {pair \in {<<Principal(link[1]), Principal(link[2])>> : link \in links} :
        pair[1] # pair[2]}

(* Expanding objects never relates two that are not related without any    *)
(* expansion: sections are linked on behalf of their own object only.      *)
ExpansionInventsNothing ==
    Built => Folded(topology.links) \subseteq Links(NoExpansion)

(* The sections a reference asks for exist.                                *)
ListenersExist(ref, gateway) ==
    IF ref.section = None THEN gateway.listeners # {}
    ELSE ref.section \in gateway.listeners

PortExists(ref, service) ==
    ref.port # None => \E port \in service.ports : port.number = ref.port

(* And every relation shows, whichever the expansions, unless a reference  *)
(* asks for a section that does not exist.                                 *)
ExpansionLosesNothing ==
    Built => \A route \in cluster.routes :
        /\ \A ref \in route.parentRefs :
              \A gateway \in FindGateways(ref, route.namespace) :
                  (expand.listeners => ListenersExist(ref, gateway))
                  => <<Locator(gateway), Locator(route)>> \in Folded(topology.links)
        /\ \A i \in DOMAIN route.rules :
              \A ref \in route.rules[i].backendRefs, service \in cluster.services :
                  /\ RefersTo(ref, service, route.namespace)
                  /\ expand.ports => PortExists(ref, service)
                  => <<Locator(route), Locator(service)>> \in Folded(topology.links)

(* The links of an expanded object that lead elsewhere than to its own     *)
(* sections.                                                               *)
Expanded(locator) ==
    /\ locator.section = None
    /\ \/ locator.kind = "Gateway" /\ expand.listeners
       \/ locator.kind \in expand.rules

Bypasses ==
    {link \in topology.links : Expanded(link[1]) /\ Principal(link[2]) # link[1]}

(* Of expanded objects, "the links will then be established accordingly"   *)
(* (gateway_api_topology.go:196): the children of an expanded object are   *)
(* those of its sections, so that every path passes a section.             *)
NoSectionBypassed == Built => Bypasses = {}

(* They do but for TLSRoutes and UDPRoutes with expanded rules and whole   *)
(* services.                                                               *)
BypassedOnlyAsKnown ==
    Built => \A link \in Bypasses :
        /\ link[1].kind \in {"TLSRoute", "UDPRoute"}
        /\ link[2].kind = "Service" /\ ~expand.ports

(* A backendRef of the rule, or of any rule of the route where rules are   *)
(* not expanded, names the service and none of its ports.                  *)
AsksForWhole(locator, service) ==
    \E route \in cluster.routes :
        /\ Locator(route) = Principal(locator)
        /\ \E i \in DOMAIN route.rules :
              /\ locator.section # None => locator.section = RuleName(route, i)
              /\ \E ref \in route.rules[i].backendRefs :
                    ref.port = None /\ RefersTo(ref, service, route.namespace)

(* With ports expanded, a rule is linked to a whole service only for a     *)
(* backendRef of its own that names this service without a port: what it   *)
(* refers to by port is not reached through the service, too.              *)
PortOrService ==
    Built /\ expand.ports =>
        \A link \in topology.links, service \in cluster.services :
            link[1].kind \in RouteKinds /\ link[2] = Locator(service)
                => AsksForWhole(link[1], service)

(* How deep an object lies below a GatewayClass; not of services and ports. *)
Level(locator) ==
    CASE locator.kind = "GatewayClass" -> 0
      [] locator.kind = "Gateway" -> IF locator.section = None THEN 1 ELSE 2
      [] locator.kind \in RouteKinds -> IF locator.section = None THEN 3 ELSE 4
      [] OTHER -> 5

(* In the topologies of the controller, links lead down one level at a     *)
(* time, and so a path from a gateway to a route rule passes one listener  *)
(* and one route: "len(path) != 4 // should never happen", of which the    *)
(* reconcilers of the example make sure (istio.go:56), as their casts of   *)
(* path[1] to path[3] rely on.                                             *)
RoutesFourDeep ==
    Built /\ builder =>
        \A link \in topology.links :
            Level(link[2]) <= 4 => Level(link[2]) = Level(link[1]) + 1

(* The policies a targetable has are those with an edge to it, and a       *)
(* policy that targets a section is on it as soon as it is expanded.       *)
PoliciesFollowTargets ==
    Built => \A targetable \in topology.targetables, policy \in cluster.policies :
        policy \in topology.policies[targetable]
            <=> <<Locator(policy), targetable>> \in topology.policyLinks
=============================================================================
