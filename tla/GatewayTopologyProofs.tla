------------------------ MODULE GatewayTopologyProofs ------------------------
(***************************************************************************)
(* What expanding objects to their sections does to the links of a         *)
(* topology, whatever the resources it is built from.                      *)
(***************************************************************************)
EXTENDS GatewayTopology, TLAPS

(* A topology is the one built from the resources, whose policies are      *)
(* those of the cluster.                                                   *)
BuiltFromCluster ==
    /\ \E c \in Clusters : cluster.policies = c.policies
    /\ Built => topology = NewTopology(expand)

LEMMA BuiltHolds == Spec => []BuiltFromCluster
<1>1. Init => BuiltFromCluster  BY DEF Init, BuiltFromCluster, Built
<1>2. BuiltFromCluster /\ [Next]_vars => BuiltFromCluster'
  <2>. SUFFICES ASSUME BuiltFromCluster, [Next]_vars PROVE BuiltFromCluster'
    OBVIOUS
  <2>1. CASE Build
    <3>1. cluster'.policies = cluster.policies  BY <2>1 DEF Build
    <3>2. topology' = None  BY <2>1 DEF Build
    <3>. QED BY <3>1, <3>2 DEF BuiltFromCluster, Built
  <2>2. CASE cluster' = cluster /\ expand' = expand /\ builder' = builder
    <3>1. NewTopology(expand)' = NewTopology(expand)
      BY <2>2 DEF NewTopology, Targetables, Links, PolicyLinks, Policies,
                  ClassLinks, ListenerLinks, RouteLinks, RouteParents, RuleLinks,
                  ServiceLinks, PortLinks, Listeners, Rules, ServicePorts,
                  ServiceParents, PortParents, ServiceSources, BackendSources,
                  ParentGateways, ParentListeners, FindGateways, FindListeners,
                  LinkedByRoute, RefersTo
    <3>2. CASE NewGatewayAPITopology
      BY <2>2, <3>1, <3>2 DEF NewGatewayAPITopology, BuiltFromCluster, Built
    <3>3. CASE Build  BY <2>1, <3>3
    <3>4. CASE UNCHANGED vars
      BY <2>2, <3>1, <3>4 DEF vars, BuiltFromCluster, Built
    <3>. QED BY <3>2, <3>3, <3>4 DEF Next
  <2>. QED BY <2>1, <2>2 DEF Next, NewGatewayAPITopology, vars
<1>. QED BY <1>1, <1>2, PTL DEF Spec

-----------------------------------------------------------------------------
LEMMA Folds ==
    /\ \A object : Principal(Locator(object)) = Locator(object)
    /\ \A object, section : Principal(Section(object, section)) = Locator(object)
BY DEF Principal, Locator, Section

(* A listener among the parents of a route is one of a gateway among them. *)
LEMMA ParentsFold ==
    ASSUME NEW route, NEW parent \in ParentListeners(route)
    PROVE  Principal(parent) \in ParentGateways(route)
<1>1. PICK ref \in route.parentRefs : parent \in FindListeners(ref, route.namespace)
  BY DEF ParentListeners
<1>2. PICK gateway \in FindGateways(ref, route.namespace) :
        \E listener : parent = Section(gateway, listener)
  BY <1>1 DEF FindListeners
<1>3. Principal(parent) = Locator(gateway)  BY <1>2, Folds
<1>. QED BY <1>1, <1>2, <1>3 DEF ParentGateways

(* Whatever links to backends start from, it speaks for its own route.     *)
Refs(route) == UNION {route.rules[i].backendRefs : i \in DOMAIN route.rules}

LEMMA SourcesFold ==
    ASSUME NEW route, NEW source \in RulesOf(route) \cup WholeRoute(route)
    PROVE  /\ Principal(source.locator) = Locator(route)
           /\ source.namespace = route.namespace
           /\ source.backendRefs \subseteq Refs(route)
<1>1. CASE source \in WholeRoute(route)
  BY <1>1, Folds DEF WholeRoute, Refs
<1>2. CASE source \in RulesOf(route)
  BY <1>2, Folds DEF RulesOf, Refs
<1>. QED BY <1>1, <1>2

LEMMA SourcesOfRoute ==
    ASSUME NEW route, NEW options
    PROVE  /\ BackendSources(route, options) \subseteq RulesOf(route) \cup WholeRoute(route)
           /\ ServiceSources(route, options) \subseteq RulesOf(route) \cup WholeRoute(route)
BY DEF BackendSources, ServiceSources

LEMMA PlainServiceLink ==
    ASSUME NEW route \in cluster.routes, NEW service \in cluster.services,
           NEW ref \in Refs(route), RefersTo(ref, service, route.namespace)
    PROVE  <<Locator(route), Locator(service)>> \in Links(NoExpansion)
<1>1. ServiceSources(route, NoExpansion) = WholeRoute(route)
  BY DEF ServiceSources, BackendSources, NoExpansion
<1>2. PICK source \in WholeRoute(route) :
        /\ source.locator = Locator(route) /\ source.namespace = route.namespace
        /\ source.backendRefs = Refs(route)
  BY DEF WholeRoute, Refs
<1>3. ~NoExpansion.ports  BY DEF NoExpansion
<1>4. Locator(route) \in ServiceParents(service, NoExpansion)
  BY <1>1, <1>2, <1>3 DEF ServiceParents
<1>. QED BY <1>4 DEF Links, ServiceLinks, From

(* The links of each kind fold to plain links.                             *)
FoldsToPlain(link) ==
    Principal(link[1]) # Principal(link[2])
        => <<Principal(link[1]), Principal(link[2])>> \in Links(NoExpansion)

LEMMA ClassLinksFold ==
    ASSUME NEW link \in ClassLinks
    PROVE  FoldsToPlain(link)
<1>1. PICK gateway \in cluster.gateways :
        link \in From({Locator(class) : class \in
                         {c \in cluster.classes : c.name = gateway.class}},
                      Locator(gateway))
  BY DEF ClassLinks
<1>2. PICK class : link = <<Locator(class), Locator(gateway)>>
  BY <1>1 DEF From
<1>. QED BY <1>2, Folds DEF FoldsToPlain, Links

LEMMA ListenerLinksFold ==
    ASSUME NEW link \in ListenerLinks
    PROVE  FoldsToPlain(link)
BY Folds DEF ListenerLinks, FoldsToPlain

LEMMA RouteLinksFold ==
    ASSUME NEW options, NEW link \in RouteLinks(options)
    PROVE  FoldsToPlain(link)
<1>1. PICK route \in cluster.routes :
        \E parent \in RouteParents(route, options) : link = <<parent, Locator(route)>>
  BY DEF RouteLinks, From
<1>2. PICK parent \in RouteParents(route, options) : link = <<parent, Locator(route)>>
  BY <1>1
<1>3. Principal(parent) \in ParentGateways(route)
  <2>1. CASE parent \in ParentListeners(route)  BY <2>1, ParentsFold
  <2>2. CASE parent \in ParentGateways(route)
    BY <2>2, Folds DEF ParentGateways
  <2>. QED BY <2>1, <2>2 DEF RouteParents
<1>4. RouteParents(route, NoExpansion) = ParentGateways(route)
  BY DEF RouteParents, NoExpansion
<1>5. <<Principal(parent), Locator(route)>> \in RouteLinks(NoExpansion)
  BY <1>3, <1>4 DEF RouteLinks, From
<1>. QED BY <1>2, <1>5, Folds DEF FoldsToPlain, Links

LEMMA RuleLinksFold ==
    ASSUME NEW options, NEW link \in RuleLinks(options)
    PROVE  FoldsToPlain(link)
<1>1. PICK route \in cluster.routes :
        \E rule \in RulesOf(route) : link = <<Locator(route), rule.locator>>
  BY DEF RuleLinks
<1>. QED BY <1>1, SourcesFold, Folds DEF FoldsToPlain

LEMMA ServiceLinksFold ==
    ASSUME NEW options, NEW link \in ServiceLinks(options)
    PROVE  FoldsToPlain(link)
<1>1. PICK service \in cluster.services :
        \E parent \in ServiceParents(service, options) :
            link = <<parent, Locator(service)>>
  BY DEF ServiceLinks, From
<1>2. PICK parent \in ServiceParents(service, options) :
        link = <<parent, Locator(service)>>
  BY <1>1
<1>3. PICK route \in cluster.routes :
        \E source \in ServiceSources(route, options) :
            /\ parent = source.locator
            /\ \E ref \in source.backendRefs : RefersTo(ref, service, source.namespace)
  BY <1>2 DEF ServiceParents
<1>. PICK source \in ServiceSources(route, options) :
        /\ parent = source.locator
        /\ \E ref \in source.backendRefs : RefersTo(ref, service, source.namespace)
  BY <1>3
<1>4. /\ Principal(parent) = Locator(route) /\ source.namespace = route.namespace
      /\ source.backendRefs \subseteq Refs(route)
  BY <1>3, SourcesOfRoute, SourcesFold
<1>5. <<Locator(route), Locator(service)>> \in Links(NoExpansion)
  BY <1>3, <1>4, PlainServiceLink
<1>. QED BY <1>2, <1>4, <1>5, Folds DEF FoldsToPlain

LEMMA PortLinksFold ==
    ASSUME NEW options, NEW link \in PortLinks(options)
    PROVE  FoldsToPlain(link)
<1>1. PICK service \in cluster.services :
        \E port \in service.ports :
            \E parent \in {Locator(service)} \cup PortParents(service, port, options) :
                link = <<parent, Section(service, port.name)>>
  BY DEF PortLinks, From
<1>. PICK port \in service.ports :
        \E parent \in {Locator(service)} \cup PortParents(service, port, options) :
            link = <<parent, Section(service, port.name)>>
  BY <1>1
<1>2. CASE link = <<Locator(service), Section(service, port.name)>>
  BY <1>2, Folds DEF FoldsToPlain
<1>3. ASSUME NEW parent \in PortParents(service, port, options),
             link = <<parent, Section(service, port.name)>>
      PROVE  FoldsToPlain(link)
  <2>1. PICK route \in cluster.routes :
          \E source \in BackendSources(route, options) :
              /\ parent = source.locator
              /\ \E ref \in source.backendRefs : RefersTo(ref, service, source.namespace)
    BY <1>3 DEF PortParents
  <2>. PICK source \in BackendSources(route, options) :
          /\ parent = source.locator
          /\ \E ref \in source.backendRefs : RefersTo(ref, service, source.namespace)
    BY <2>1
  <2>2. /\ Principal(parent) = Locator(route) /\ source.namespace = route.namespace
        /\ source.backendRefs \subseteq Refs(route)
    BY <2>1, SourcesOfRoute, SourcesFold
  <2>3. <<Locator(route), Locator(service)>> \in Links(NoExpansion)
    BY <2>1, <2>2, PlainServiceLink
  <2>. QED BY <1>3, <2>2, <2>3, Folds DEF FoldsToPlain
<1>. QED BY <1>1, <1>2, <1>3

(* Expanding objects to their sections never relates two objects that are  *)
(* not related without.                                                    *)
THEOREM NothingInvented == Spec => []ExpansionInventsNothing
<1>1. BuiltFromCluster => ExpansionInventsNothing
  <2>. SUFFICES ASSUME BuiltFromCluster, Built,
                       NEW link \in Links(expand)
                PROVE  FoldsToPlain(link)
    BY DEF BuiltFromCluster, NewTopology, ExpansionInventsNothing, Folded, FoldsToPlain
  <2>. QED BY ClassLinksFold, ListenerLinksFold, RouteLinksFold, RuleLinksFold,
              ServiceLinksFold, PortLinksFold DEF Links
<1>. QED BY <1>1, BuiltHolds, PTL

-----------------------------------------------------------------------------
(* A targetable has the policies that have an edge to it: SetPolicies and  *)
(* addPoliciesToGraph agree, with any expansion.                           *)
THEOREM PoliciesAgree == Spec => []PoliciesFollowTargets
<1>1. BuiltFromCluster => PoliciesFollowTargets
  <2>. SUFFICES ASSUME BuiltFromCluster, Built,
                       NEW targetable \in Targetables(expand),
                       NEW policy \in cluster.policies
                PROVE  targetable \in policy.targetRefs
                          <=> <<Locator(policy), targetable>> \in PolicyLinks(expand)
    BY DEF BuiltFromCluster, NewTopology, PoliciesFollowTargets, Policies
  <2>1. targetable \in policy.targetRefs
          => <<Locator(policy), targetable>> \in PolicyLinks(expand)
    BY DEF PolicyLinks
  <2>2. ASSUME <<Locator(policy), targetable>> \in PolicyLinks(expand)
        PROVE  targetable \in policy.targetRefs
    <3>1. PICK other \in cluster.policies :
            Locator(other) = Locator(policy) /\ targetable \in other.targetRefs
      BY <2>2 DEF PolicyLinks
    <3>2. other = policy  BY <3>1, NamesAssumption DEF BuiltFromCluster
    <3>. QED BY <3>1, <3>2
  <2>. QED BY <2>1, <2>2
<1>. QED BY <1>1, BuiltHolds, PTL

-----------------------------------------------------------------------------
(* What the topology builder passes on, of which cluster.                  *)
PassedOn ==
    \E c \in Clusters :
        /\ cluster.classes = c.classes /\ cluster.gateways = c.gateways
        /\ cluster.services = c.services /\ cluster.routes \subseteq c.routes

BuilderChose == builder => expand = BuilderExpansion

LEMMA PassedOnHolds == Spec => [](PassedOn /\ BuilderChose)
<1>1. Init => PassedOn /\ BuilderChose
  BY DEF Init, PassedOn, BuilderChose
<1>2. PassedOn /\ BuilderChose /\ [Next]_vars => (PassedOn /\ BuilderChose)'
  <2>. SUFFICES ASSUME PassedOn, BuilderChose, [Next]_vars
                PROVE  (PassedOn /\ BuilderChose)'
    OBVIOUS
  <2>1. CASE Build
    <3>1. /\ cluster'.classes = cluster.classes
          /\ cluster'.gateways = cluster.gateways
          /\ cluster'.services = cluster.services
          /\ cluster'.routes \subseteq cluster.routes
      BY <2>1 DEF Build
    <3>. QED BY <2>1, <3>1 DEF Build, PassedOn, BuilderChose
  <2>2. CASE cluster' = cluster /\ expand' = expand /\ builder' = builder
    BY <2>2 DEF PassedOn, BuilderChose
  <2>. QED BY <2>1, <2>2 DEF Next, NewGatewayAPITopology, vars
<1>. QED BY <1>1, <1>2, PTL DEF Spec

(* With these options, the links that do not lead to services and ports    *)
(* are those of classes, listeners, routes and rules, each one level down. *)
OneDown(link) == Level(link[2]) <= 4 => Level(link[2]) = Level(link[1]) + 1

LEMMA LevelsOf ==
    ASSUME PassedOn
    PROVE  /\ \A class \in cluster.classes : Level(Locator(class)) = 0
           /\ \A gateway \in cluster.gateways :
                 /\ Level(Locator(gateway)) = 1
                 /\ \A listener \in gateway.listeners :
                       Level(Section(gateway, listener)) = 2
           /\ \A route \in cluster.routes :
                 /\ Level(Locator(route)) = 3
                 /\ \A i \in DOMAIN route.rules :
                       Level(Section(route, RuleName(route, i))) = 4
           /\ \A service \in cluster.services :
                 /\ Level(Locator(service)) = 5
                 /\ \A section : Level(Section(service, section)) = 5
<1>1. \A class \in cluster.classes : Level(Locator(class)) = 0
  <2>1. \A class \in cluster.classes : class.kind = "GatewayClass"
    BY ResourcesAssumption DEF PassedOn
  <2>. QED BY <2>1 DEF Level, Locator, RouteKinds
<1>2. \A gateway \in cluster.gateways :
        /\ Level(Locator(gateway)) = 1
        /\ \A listener \in gateway.listeners : Level(Section(gateway, listener)) = 2
  <2>1. \A gateway \in cluster.gateways :
          gateway.kind = "Gateway" /\ None \notin gateway.listeners
    BY ResourcesAssumption DEF PassedOn
  <2>. QED BY <2>1 DEF Level, Locator, Section, RouteKinds
<1>3. ASSUME NEW route \in cluster.routes
      PROVE  /\ Level(Locator(route)) = 3
             /\ \A i \in DOMAIN route.rules :
                   Level(Section(route, RuleName(route, i))) = 4
  <2>1. /\ route.kind \in RouteKinds
        /\ \A i \in DOMAIN route.rules : GeneratedName[i] # None
    BY ResourcesAssumption DEF PassedOn
  <2>2. \A i \in DOMAIN route.rules : RuleName(route, i) # None
    BY <2>1 DEF RuleName, Deref
  <2>. QED BY <2>1, <2>2 DEF Level, Locator, Section, RouteKinds
<1>4. ASSUME NEW service \in cluster.services
      PROVE  /\ Level(Locator(service)) = 5
             /\ \A section : Level(Section(service, section)) = 5
  <2>1. service.kind = "Service"  BY ResourcesAssumption DEF PassedOn
  <2>. QED BY <2>1 DEF Level, Locator, Section, RouteKinds
<1>. QED BY <1>1, <1>2, <1>3, <1>4

LEMMA BuilderLinks ==
    ASSUME PassedOn, NEW link \in Links(BuilderExpansion)
    PROVE  OneDown(link)
<1>1. CASE link \in ClassLinks
  <2>1. PICK gateway \in cluster.gateways, class \in cluster.classes :
          link = <<Locator(class), Locator(gateway)>>
    BY <1>1 DEF ClassLinks, From
  <2>. QED BY <2>1, LevelsOf DEF OneDown
<1>2. CASE link \in ListenerLinks
  <2>1. PICK gateway \in cluster.gateways :
          \E listener \in gateway.listeners :
              link = <<Locator(gateway), Section(gateway, listener)>>
    BY <1>2 DEF ListenerLinks
  <2>. QED BY <2>1, LevelsOf DEF OneDown
<1>3. CASE link \in RouteLinks(BuilderExpansion)
  <2>1. PICK route \in cluster.routes :
          \E parent \in ParentListeners(route) : link = <<parent, Locator(route)>>
    BY <1>3 DEF RouteLinks, RouteParents, From, BuilderExpansion
  <2>. PICK parent \in ParentListeners(route) : link = <<parent, Locator(route)>>
    BY <2>1
  <2>2. PICK gateway \in cluster.gateways :
          \E listener \in gateway.listeners : parent = Section(gateway, listener)
    BY <2>1 DEF ParentListeners, FindListeners, FindGateways
  <2>. QED BY <2>1, <2>2, LevelsOf DEF OneDown
<1>4. CASE link \in RuleLinks(BuilderExpansion)
  <2>1. PICK route \in cluster.routes :
          \E rule \in RulesOf(route) : link = <<Locator(route), rule.locator>>
    BY <1>4 DEF RuleLinks
  <2>2. PICK i \in DOMAIN route.rules :
          link = <<Locator(route), Section(route, RuleName(route, i))>>
    BY <2>1 DEF RulesOf
  <2>. QED BY <2>2, LevelsOf DEF OneDown
<1>5. CASE link \in ServiceLinks(BuilderExpansion)
  <2>1. PICK service \in cluster.services : link[2] = Locator(service)
    BY <1>5 DEF ServiceLinks, From
  <2>. QED BY <2>1, LevelsOf DEF OneDown
<1>6. CASE link \in PortLinks(BuilderExpansion)
  <2>1. PICK service \in cluster.services :
          \E port \in service.ports : link[2] = Section(service, port.name)
    BY <1>6 DEF PortLinks, From
  <2>. QED BY <2>1, LevelsOf DEF OneDown
<1>. QED BY <1>1, <1>2, <1>3, <1>4, <1>5, <1>6 DEF Links

(* Whatever the resources, a path from a gateway to a rule of a route has  *)
(* four nodes in the controller's topologies.                              *)
THEOREM RoutesAreFourDeep == Spec => []RoutesFourDeep
<1>1. BuiltFromCluster /\ PassedOn /\ BuilderChose => RoutesFourDeep
  <2>. SUFFICES ASSUME BuiltFromCluster, PassedOn, BuilderChose, Built, builder,
                       NEW link \in topology.links
                PROVE  OneDown(link)
    BY DEF RoutesFourDeep, OneDown
  <2>1. topology.links = Links(BuilderExpansion)
    BY DEF BuiltFromCluster, BuilderChose, NewTopology
  <2>. QED BY <2>1, BuilderLinks
<1>. QED BY <1>1, BuiltHolds, PassedOnHolds, PTL

-----------------------------------------------------------------------------
(* Only the rules of routes are expanded.                                  *)
RoutesExpand == expand.rules \subseteq RouteKinds

LEMMA RoutesExpandHolds == Spec => []RoutesExpand
<1>1. Init => RoutesExpand
  BY ExpansionAssumption DEF Init, Expansions, RoutesExpand
<1>2. RoutesExpand /\ [Next]_vars => RoutesExpand'
  <2>1. ASSUME Build PROVE RoutesExpand'
    BY <2>1 DEF Build, BuilderExpansion, RoutesExpand, RouteKinds
  <2>2. ASSUME RoutesExpand, expand' = expand PROVE RoutesExpand'
    BY <2>2 DEF RoutesExpand
  <2>. QED BY <2>1, <2>2 DEF Next, NewGatewayAPITopology, vars
<1>. QED BY <1>1, <1>2, PTL DEF Spec

(* Gateways, routes and services differ in kind, and sections have names.  *)
LEMMA KindsDiffer ==
    ASSUME PassedOn
    PROVE  /\ \A class \in cluster.classes : class.kind = "GatewayClass"
           /\ \A gateway \in cluster.gateways :
                 gateway.kind = "Gateway" /\ None \notin gateway.listeners
           /\ \A route \in cluster.routes :
                 /\ route.kind \in RouteKinds
                 /\ \A i \in DOMAIN route.rules : RuleName(route, i) # None
           /\ \A service \in cluster.services :
                 /\ service.kind = "Service"
                 /\ \A port \in service.ports : port.name # None
           /\ RouteKinds \cap {"GatewayClass", "Gateway", "Service"} = {}
<1>1. PICK c \in Clusters :
        /\ cluster.classes = c.classes /\ cluster.gateways = c.gateways
        /\ cluster.services = c.services /\ cluster.routes \subseteq c.routes
  BY DEF PassedOn
<1>2. ASSUME NEW route \in cluster.routes
      PROVE  /\ route.kind \in RouteKinds
             /\ \A i \in DOMAIN route.rules : RuleName(route, i) # None
  <2>1. route \in c.routes  BY <1>1
  <2>2. /\ route.kind \in RouteKinds
        /\ \A i \in DOMAIN route.rules : GeneratedName[i] # None
    BY <2>1, ResourcesAssumption
  <2>. QED BY <2>2 DEF RuleName, Deref
<1>3. RouteKinds \cap {"GatewayClass", "Gateway", "Service"} = {}
  BY DEF RouteKinds
<1>4. /\ \A class \in cluster.classes : class.kind = "GatewayClass"
      /\ \A gateway \in cluster.gateways :
            gateway.kind = "Gateway" /\ None \notin gateway.listeners
      /\ \A service \in cluster.services :
            /\ service.kind = "Service"
            /\ \A port \in service.ports : port.name # None
  BY <1>1, ResourcesAssumption
<1>. QED BY <1>2, <1>3, <1>4

LEMMA FieldsOf ==
    /\ \A object : /\ Locator(object).kind = object.kind
                   /\ Locator(object).section = None
    /\ \A object, section : /\ Section(object, section).kind = object.kind
                            /\ Section(object, section).section = section
BY DEF Locator, Section

-----------------------------------------------------------------------------
(* A link of a topology shows as a link between whole objects.             *)
LEMMA LinkShows ==
    ASSUME NEW link \in Links(expand), NEW parent, NEW child,
           Principal(link[1]) = parent, Principal(link[2]) = child, parent # child
    PROVE  <<parent, child>> \in Folded(Links(expand))
<1>1. <<parent, child>> \in
        {<<Principal(l[1]), Principal(l[2])>> : l \in Links(expand)}
  OBVIOUS
<1>. QED BY <1>1 DEF Folded

LEMMA ParentShows ==
    ASSUME PassedOn, NEW route \in cluster.routes, NEW ref \in route.parentRefs,
           NEW gateway \in FindGateways(ref, route.namespace),
           expand.listeners => ListenersExist(ref, gateway)
    PROVE  <<Locator(gateway), Locator(route)>> \in Folded(Links(expand))
<1>1. gateway \in cluster.gateways  BY DEF FindGateways
<1>2. Locator(gateway) # Locator(route)  BY <1>1, KindsDiffer, FieldsOf
<1>3. \E parent \in RouteParents(route, expand) : Principal(parent) = Locator(gateway)
  <2>1. CASE expand.listeners
    <3>1. PICK listener \in IF ref.section = None THEN gateway.listeners
                            ELSE gateway.listeners \cap {ref.section} : TRUE
      BY <2>1 DEF ListenersExist
    <3>2. Section(gateway, listener) \in FindListeners(ref, route.namespace)
      BY <3>1 DEF FindListeners
    <3>3. Section(gateway, listener) \in ParentListeners(route)
      BY <3>2 DEF ParentListeners
    <3>. QED BY <2>1, <3>3, Folds DEF RouteParents
  <2>2. CASE ~expand.listeners
    <3>1. Locator(gateway) \in ParentGateways(route)  BY DEF ParentGateways
    <3>. QED BY <2>2, <3>1, Folds DEF RouteParents
  <2>. QED BY <2>1, <2>2
<1>4. PICK parent \in RouteParents(route, expand) : Principal(parent) = Locator(gateway)
  BY <1>3
<1>5. <<parent, Locator(route)>> \in Links(expand)
  BY <1>4 DEF Links, RouteLinks, From
<1>. QED BY <1>2, <1>4, <1>5, Folds, LinkShows

(* Each backendRef is one of something that links to backends start from,  *)
(* with rules expanded or not.                                             *)
LEMMA SourceOfRef ==
    ASSUME NEW route, NEW i \in DOMAIN route.rules,
           NEW ref \in route.rules[i].backendRefs, NEW options
    PROVE  /\ \E source \in ServiceSources(route, options) :
                 ref \in source.backendRefs
           /\ \E source \in BackendSources(route, options) :
                 ref \in source.backendRefs
<1>1. \E source \in WholeRoute(route) : ref \in source.backendRefs
  BY DEF WholeRoute
<1>2. \E source \in RulesOf(route) : ref \in source.backendRefs
  <2>. DEFINE source == [locator |-> Section(route, RuleName(route, i)),
                         namespace |-> route.namespace,
                         backendRefs |-> route.rules[i].backendRefs]
  <2>1. source \in RulesOf(route)  BY DEF RulesOf
  <2>2. ref \in source.backendRefs  OBVIOUS
  <2>. QED BY <2>1, <2>2
<1>. QED BY <1>1, <1>2 DEF ServiceSources, BackendSources

LEMMA BackendShows ==
    ASSUME PassedOn, NEW route \in cluster.routes, NEW i \in DOMAIN route.rules,
           NEW ref \in route.rules[i].backendRefs, NEW service \in cluster.services,
           RefersTo(ref, service, route.namespace),
           expand.ports => PortExists(ref, service)
    PROVE  <<Locator(route), Locator(service)>> \in Folded(Links(expand))
<1>1. Locator(route) # Locator(service)  BY KindsDiffer, FieldsOf
<1>2. CASE expand.ports => ref.port = None
  <2>1. PICK source \in ServiceSources(route, expand) : ref \in source.backendRefs
    BY SourceOfRef
  <2>2. Principal(source.locator) = Locator(route) /\ source.namespace = route.namespace
    BY SourcesOfRoute, SourcesFold
  <2>3. source.locator \in ServiceParents(service, expand)
    BY <1>2, <2>1, <2>2 DEF ServiceParents
  <2>4. <<source.locator, Locator(service)>> \in Links(expand)
    BY <2>3 DEF Links, ServiceLinks, From
  <2>. QED BY <1>1, <2>2, <2>4, Folds, LinkShows
<1>3. CASE expand.ports /\ ref.port # None
  <2>1. PICK port \in service.ports : port.number = ref.port
    BY <1>3 DEF PortExists
  <2>2. PICK source \in BackendSources(route, expand) : ref \in source.backendRefs
    BY SourceOfRef
  <2>3. Principal(source.locator) = Locator(route) /\ source.namespace = route.namespace
    BY SourcesOfRoute, SourcesFold
  <2>4. source.locator \in PortParents(service, port, expand)
    BY <2>1, <2>2, <2>3 DEF PortParents
  <2>5. <<source.locator, Section(service, port.name)>> \in PortLinks(expand)
    BY <2>4 DEF PortLinks, From
  <2>6. <<source.locator, Section(service, port.name)>> \in Links(expand)
    BY <1>3, <2>5 DEF Links
  <2>. QED BY <1>1, <2>3, <2>6, Folds, LinkShows
<1>. QED BY <1>2, <1>3

(* Every reference of a route to a gateway or a service that exists shows  *)
(* in the topology, whichever objects are expanded, unless it asks for a   *)
(* section that does not exist.                                            *)
THEOREM NothingLost == Spec => []ExpansionLosesNothing
<1>1. BuiltFromCluster /\ PassedOn => ExpansionLosesNothing
  <2>. SUFFICES ASSUME BuiltFromCluster, PassedOn, Built
                PROVE  ExpansionLosesNothing
    BY DEF ExpansionLosesNothing
  <2>1. topology.links = Links(expand)  BY DEF BuiltFromCluster, NewTopology
  <2>. QED BY <2>1, ParentShows, BackendShows DEF ExpansionLosesNothing
<1>. QED BY <1>1, BuiltHolds, PassedOnHolds, PTL

-----------------------------------------------------------------------------
(* What a link between a route and a service or port starts from is no     *)
(* expanded object, but for the routes linked whole.                       *)
LEMMA BackendSourceNotExpanded ==
    ASSUME PassedOn, NEW route \in cluster.routes,
           NEW source \in BackendSources(route, expand)
    PROVE  ~Expanded(source.locator)
<1>1. CASE route.kind \in expand.rules
  <2>1. PICK i \in DOMAIN route.rules :
          source.locator = Section(route, RuleName(route, i))
    BY <1>1 DEF BackendSources, RulesOf
  <2>. QED BY <2>1, KindsDiffer, FieldsOf DEF Expanded
<1>2. CASE route.kind \notin expand.rules
  <2>1. source.locator = Locator(route)
    BY <1>2 DEF BackendSources, WholeRoute
  <2>2. route.kind # "Gateway"  BY KindsDiffer
  <2>. QED BY <1>2, <2>1, <2>2, FieldsOf DEF Expanded
<1>. QED BY <1>1, <1>2

LEMMA ServiceSourceExpanded ==
    ASSUME PassedOn, NEW route \in cluster.routes,
           NEW source \in ServiceSources(route, expand), Expanded(source.locator)
    PROVE  source.locator.kind \in {"TLSRoute", "UDPRoute"} /\ ~expand.ports
<1>1. LinkedByRoute(route, expand)
  BY BackendSourceNotExpanded DEF ServiceSources
<1>2. source.locator = Locator(route)
  BY <1>1 DEF ServiceSources, WholeRoute
<1>. QED BY <1>1, <1>2, FieldsOf DEF LinkedByRoute

(* A link to something else than an own section starts from no object that *)
(* is expanded, unless from a route to a service.                          *)
KnownBypass(link) ==
    Expanded(link[1]) /\ Principal(link[2]) # link[1]
        => /\ link[1].kind \in {"TLSRoute", "UDPRoute"}
           /\ link[2].kind = "Service" /\ ~expand.ports

LEMMA LinksBypass ==
    ASSUME PassedOn, RoutesExpand, NEW link \in Links(expand)
    PROVE  KnownBypass(link)
<1>1. CASE link \in ClassLinks
  <2>1. PICK class \in cluster.classes : link[1] = Locator(class)
    BY <1>1 DEF ClassLinks, From
  <2>2. link[1].kind = "GatewayClass"  BY <2>1, KindsDiffer, FieldsOf
  <2>3. "GatewayClass" \notin expand.rules  BY KindsDiffer DEF RoutesExpand
  <2>. QED BY <2>2, <2>3 DEF KnownBypass, Expanded
<1>2. CASE link \in ListenerLinks
  <2>1. PICK gateway \in cluster.gateways :
          \E listener \in gateway.listeners :
              link = <<Locator(gateway), Section(gateway, listener)>>
    BY <1>2 DEF ListenerLinks
  <2>. QED BY <2>1, Folds DEF KnownBypass
<1>3. CASE link \in RouteLinks(expand)
  <2>1. PICK route \in cluster.routes :
          \E parent \in RouteParents(route, expand) : link = <<parent, Locator(route)>>
    BY <1>3 DEF RouteLinks, From
  <2>2. link[1] \in RouteParents(route, expand)  BY <2>1
  <2>3. CASE expand.listeners
    <3>1. PICK gateway \in cluster.gateways :
            \E listener \in gateway.listeners : link[1] = Section(gateway, listener)
      BY <2>2, <2>3 DEF RouteParents, ParentListeners, FindListeners, FindGateways
    <3>2. link[1].section # None  BY <3>1, KindsDiffer, FieldsOf
    <3>. QED BY <3>2 DEF KnownBypass, Expanded
  <2>4. CASE ~expand.listeners
    <3>1. PICK gateway \in cluster.gateways : link[1] = Locator(gateway)
      BY <2>2, <2>4 DEF RouteParents, ParentGateways, FindGateways
    <3>2. link[1].kind = "Gateway"  BY <3>1, KindsDiffer, FieldsOf
    <3>3. "Gateway" \notin expand.rules  BY KindsDiffer DEF RoutesExpand
    <3>. QED BY <2>4, <3>2, <3>3 DEF KnownBypass, Expanded
  <2>. QED BY <2>3, <2>4
<1>4. CASE link \in RuleLinks(expand)
  <2>1. PICK route \in cluster.routes :
          \E rule \in RulesOf(route) : link = <<Locator(route), rule.locator>>
    BY <1>4 DEF RuleLinks
  <2>. QED BY <2>1, SourcesFold DEF KnownBypass
<1>5. CASE link \in ServiceLinks(expand)
  <2>1. PICK service \in cluster.services :
          \E parent \in ServiceParents(service, expand) :
              link = <<parent, Locator(service)>>
    BY <1>5 DEF ServiceLinks, From
  <2>2. PICK route \in cluster.routes :
          \E source \in ServiceSources(route, expand) : link[1] = source.locator
    BY <2>1 DEF ServiceParents
  <2>3. Expanded(link[1]) => link[1].kind \in {"TLSRoute", "UDPRoute"} /\ ~expand.ports
    BY <2>2, ServiceSourceExpanded
  <2>4. link[2].kind = "Service"  BY <2>1, KindsDiffer, FieldsOf
  <2>. QED BY <2>3, <2>4 DEF KnownBypass
<1>6. CASE link \in PortLinks(expand)
  <2>1. PICK service \in cluster.services :
          \E port \in service.ports :
              \E parent \in {Locator(service)} \cup PortParents(service, port, expand) :
                  link = <<parent, Section(service, port.name)>>
    BY <1>6 DEF PortLinks, From
  <2>. PICK port \in service.ports :
          \E parent \in {Locator(service)} \cup PortParents(service, port, expand) :
              link = <<parent, Section(service, port.name)>>
    BY <2>1
  <2>2. CASE link = <<Locator(service), Section(service, port.name)>>
    BY <2>2, Folds DEF KnownBypass
  <2>3. CASE link[1] \in PortParents(service, port, expand)
    <3>1. PICK route \in cluster.routes :
            \E source \in BackendSources(route, expand) : link[1] = source.locator
      BY <2>3 DEF PortParents
    <3>. QED BY <3>1, BackendSourceNotExpanded DEF KnownBypass
  <2>. QED BY <2>1, <2>2, <2>3
<1>. QED BY <1>1, <1>2, <1>3, <1>4, <1>5, <1>6 DEF Links

(* All paths through an expanded object pass one of its sections, but for  *)
(* those from TLSRoutes and UDPRoutes to services that are not expanded.   *)
THEOREM BypassesKnown == Spec => []BypassedOnlyAsKnown
<1>1. BuiltFromCluster /\ PassedOn /\ RoutesExpand => BypassedOnlyAsKnown
  <2>. SUFFICES ASSUME BuiltFromCluster, PassedOn, RoutesExpand, Built
                PROVE  BypassedOnlyAsKnown
    BY DEF BypassedOnlyAsKnown
  <2>1. topology.links = Links(expand)  BY DEF BuiltFromCluster, NewTopology
  <2>. QED BY <2>1, LinksBypass DEF BypassedOnlyAsKnown, Bypasses, KnownBypass
<1>. QED BY <1>1, BuiltHolds, PassedOnHolds, RoutesExpandHolds, PTL

-----------------------------------------------------------------------------
(* What a source refers to, its rule does, or a rule of its whole route.   *)
LEMMA SourceAsks ==
    ASSUME NEW route \in cluster.routes, NEW service,
           NEW source \in RulesOf(route) \cup WholeRoute(route),
           NEW ref \in source.backendRefs, ref.port = None,
           RefersTo(ref, service, source.namespace)
    PROVE  AsksForWhole(source.locator, service)
<1>1. /\ Principal(source.locator) = Locator(route)
      /\ source.namespace = route.namespace
  BY SourcesFold
<1>2. PICK i \in DOMAIN route.rules :
        /\ ref \in route.rules[i].backendRefs
        /\ source.locator.section # None => source.locator.section = RuleName(route, i)
  <2>1. CASE source \in WholeRoute(route)
    <3>1. source.locator.section = None  BY <2>1, FieldsOf DEF WholeRoute
    <3>2. ref \in UNION {route.rules[i].backendRefs : i \in DOMAIN route.rules}
      BY <2>1 DEF WholeRoute
    <3>. QED BY <3>1, <3>2
  <2>2. CASE source \in RulesOf(route)
    <3>1. PICK i \in DOMAIN route.rules :
            /\ source.locator = Section(route, RuleName(route, i))
            /\ source.backendRefs = route.rules[i].backendRefs
      BY <2>2 DEF RulesOf
    <3>. QED BY <3>1, FieldsOf
  <2>. QED BY <2>1, <2>2
<1>. QED BY <1>1, <1>2 DEF AsksForWhole

(* With ports expanded, what is linked to a whole service asks for it.     *)
LEMMA WholeServiceAskedFor ==
    ASSUME PassedOn, expand.ports, NEW link \in Links(expand),
           NEW service \in cluster.services,
           link[1].kind \in RouteKinds, link[2] = Locator(service)
    PROVE  AsksForWhole(link[1], service)
<1>0. link[2].kind = "Service" /\ link[2].section = None
  BY KindsDiffer, FieldsOf
<1>1. link \in ServiceLinks(expand)
  <2>1. link \notin ClassLinks
    <3>1. link \in ClassLinks =>
            \E class \in cluster.classes : link[1] = Locator(class)
      BY DEF ClassLinks, From
    <3>. QED BY <1>0, <3>1, KindsDiffer, FieldsOf
  <2>2. link \notin ListenerLinks
    <3>1. link \in ListenerLinks =>
            \E gateway \in cluster.gateways : link[1] = Locator(gateway)
      BY DEF ListenerLinks
    <3>. QED BY <1>0, <3>1, KindsDiffer, FieldsOf
  <2>3. link \notin RouteLinks(expand)
    <3>1. link \in RouteLinks(expand) =>
            \E route \in cluster.routes : link[2] = Locator(route)
      BY DEF RouteLinks, From
    <3>. QED BY <1>0, <3>1, KindsDiffer, FieldsOf
  <2>4. link \notin RuleLinks(expand)
    <3>1. link \in RuleLinks(expand) =>
            \E route \in cluster.routes : \E section : link[2] = Section(route, section)
      BY DEF RuleLinks, RulesOf
    <3>. QED BY <1>0, <3>1, KindsDiffer, FieldsOf
  <2>5. link \notin PortLinks(expand)
    <3>1. link \in PortLinks(expand) =>
            \E s \in cluster.services : \E port \in s.ports :
                link[2] = Section(s, port.name)
      BY DEF PortLinks, From
    <3>. QED BY <1>0, <3>1, KindsDiffer, FieldsOf
  <2>. QED BY <2>1, <2>2, <2>3, <2>4, <2>5 DEF Links
<1>2. PICK linked \in cluster.services :
        link[1] \in ServiceParents(linked, expand) /\ link[2] = Locator(linked)
  BY <1>1 DEF ServiceLinks, From
<1>3. linked.name = service.name /\ linked.namespace = service.namespace
  BY <1>2 DEF Locator
<1>4. PICK route \in cluster.routes :
        \E source \in ServiceSources(route, expand) :
            /\ link[1] = source.locator
            /\ \E ref \in source.backendRefs :
                  ref.port = None /\ RefersTo(ref, linked, source.namespace)
  BY <1>2 DEF ServiceParents
<1>5. PICK source \in ServiceSources(route, expand) :
        /\ link[1] = source.locator
        /\ \E ref \in source.backendRefs :
              ref.port = None /\ RefersTo(ref, linked, source.namespace)
  BY <1>4
<1>6. PICK ref \in source.backendRefs :
        ref.port = None /\ RefersTo(ref, service, source.namespace)
  BY <1>3, <1>5 DEF RefersTo
<1>. QED BY <1>5, <1>6, SourcesOfRoute, SourceAsks

(* What a rule refers to by port is not reached through the service, too.  *)
THEOREM PortsOrServices == Spec => []PortOrService
<1>1. BuiltFromCluster /\ PassedOn => PortOrService
  <2>. SUFFICES ASSUME BuiltFromCluster, PassedOn, Built, expand.ports
                PROVE  PortOrService
    BY DEF PortOrService
  <2>1. topology.links = Links(expand)  BY DEF BuiltFromCluster, NewTopology
  <2>. QED BY <2>1, WholeServiceAskedFor DEF PortOrService
<1>. QED BY <1>1, BuiltHolds, PassedOnHolds, PTL
=============================================================================
