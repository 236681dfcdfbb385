# Formal models of policy-machinery

TLA+ models of the Go library in `src/` (packages `controller` and `machinery`, and the Kuadrant example built on
them), checked with TLC on small instances and proved with TLAPS for every instance. Paths below are relative to
`src/`. `PROJECT.json` ties every definition to the lines it models, every run to what it shows, every property to a
mutant of the model that breaks it, every hazard to the properties that watch over it.

## 1. The system

A controller built with this library watches objects in a Kubernetes cluster, keeps them in a cache, and for every
change calls the user's reconcile function with a list of resource events and a topology: a graph of Gateway API
objects (targetables), policies attached to them and other objects, from which effective policies are computed per
path.

| Component | State | Operations | Interacts with |
|---|---|---|---|
| Cache (`controller/cache.go`) | one `Store` (UID → object) in a `watchable.Map`, RW mutex | Add, Delete, Replace, List | informers and Reconcile write, the subscription and the topology builder read |
| Pipeline (`controller/controller.go`) | mutex, `objs` (last store handled), list and watch functions | add, update, delete, Reconcile, subscribe, handleCacheEvent, propagateLocked | called by informers and by the worker of controller-runtime; calls the topology builder and the user's function |
| Runnables (`controller/runnable.go`) | informer queues; a `synced` flag | IncrementalInformer's handler functions; StateReconciler's list and watch functions | API server, work queue, controller |
| Start and stop (`controller.go`, `runnable.go`) | stop channel, registered functions, manager | Start, Run, HasSynced, ManagedBy | every runnable, the manager, the context |
| Workflow (`controller/workflow.go`) | error group, its context, the error carried over | Run, handle | the user's precondition, tasks, postcondition and error handler |
| Subscription (`controller/subscriber.go`) | none | Reconcile: filter events | workflows |
| Topology builder (`controller/topology_builder.go`) | kinds and links | Build | cache, machinery |
| Topology (`machinery/topology.go`) | graph, indices of targetables, policies, objects | NewTopology, isDAG, Items, Roots, Parents, Children, Paths | link functions, policies |
| Gateway API links (`machinery/gateway_api_topology.go`) | none | NewGatewayAPITopology, expansions, link functions | topology |
| Policy merging (`examples/*/…merge_strategies.go`, `effective_policies_reconciler.go`) | the Source field of rules held by pointer | atomic and per-rule defaults and overrides; reduction along a path | paths of the topology |
| Provider reconcilers (`examples/kuadrant/reconcilers`) | objects in the cluster | create, update, delete of Istio and Envoy Gateway objects | the watches of their own controller: a closed loop |

What is hard here:

* four kinds of goroutines (informers, the worker, the coalescing goroutine of `watchable.Map`, the handler of the
  subscription) share one mutex, which is held across a blocking hand-over and across the user's function;
* snapshots are coalesced while the handler is busy, so the handler works with a diff of its own, while the topology
  is read from the cache at a later moment than the snapshot;
* the two watch modes trust different triggers: ordered notifications, or a key in a work queue followed by list calls
  made one after another while the cluster changes, any of which may fail;
* nothing is retried and errors are logged only, so what heals a loss is the next change or a resync, if predicates
  let it through;
* a workflow joins concurrent tasks of which several can fail;
* the reconcilers of the example write objects that the controller calling them watches, from a topology that is older
  than the cluster and may be newer than the events of the call, and log the requests that fail.

Correctness, component by component: the pipeline must tell the reconcile function a consistent history and, in the end,
the cluster; no trigger may be swallowed and no mutex kept; Start must hand every watch to the manager and return when
cancelled; a workflow must not go on after an error its handler has not suppressed, nor leave a task behind; `isDAG`
must not let a loop pass; `Paths` must find every path, in graphs with loops too; expanding an object must neither add
nor lose a relation; in an effective policy each rule must be the one of the policy entitled to it, and say so; and the
loop of reconcilers and watches must come to rest with the policies the topology asks for.

## 2. Modules

| Module | Models | Status |
|---|---|---|
| `ResourceStore` | the `Store` value, the diff of `handleCacheEvent`, events | done |
| `CoalescingFeed` | abstract: a consumer is told one state of the world at a time, never an older one than before, never one the world was not in | done |
| `Controller` (+ `MCController`) | cache, informers, work queue and Reconcile, coalescing, handler; implements `CoalescingFeed` | done |
| `ControllerProofs` | theorems on `Controller` | done |
| `EdgeGraph` | the nodes and edges of a graph, constants of the next three | done |
| `AcyclicCheck` | `isDAG`, loop by loop (proofs in `TopologyGraphProofs`) | done |
| `Paths` (+ `PathsProofs`) | `collection.Paths`, its depth-first search over `Children`, call by call | done |
| `TopologyGraph` (+ `MCTopologyGraph`, `TopologyGraphProofs`) | composes the last two: NewTopology's check, its verdict and AllowLoops, then `Paths` on that graph | done |
| `Workflow` (+ `MCWorkflow`, `WorkflowProofs`) | `Workflow.Run` | done |
| `Lifecycle` (+ `MCLifecycle`, `LifecycleProofs`) | `Controller.Start`, runnables, manager | done |
| `GatewayTopology` (+ `MCGatewayTopology`, `GatewayTopologyProofs`) | NewGatewayAPITopology: sections, link functions and the choice between them under the expansions, policies; the controller's topology builder | done |
| `EffectivePolicies` (+ `MCEffectivePolicies`, `EffectivePoliciesProofs`) | the merge strategies and `ReconcileEffectivePolicies`, against a declarative definition of who wins | done |
| `Providers` (+ `MCProviders`, `ProvidersProofs`) | the Istio and Envoy Gateway reconcilers in a closed loop with the cluster and their controller, on top of `CoalescingFeed`; subscriptions and their events; failures and restarts | done |
| `Informer` | selectors, transformations and tombstones of IncrementalInformer and StateReconciler, refining the notifications of `Controller` | left |
| color and JSON patch policies | the smaller examples of merging | left |

### Controller

Variables follow the code: `cluster`, `feed` and `notified` stand for the outside (API server, notifications under
way); `queued`, `worker`, `unlisted`, `draft` for the work queue and a running `Reconcile` (the local `store`);
`lock`, `cache` for `Controller.Mutex` and `CacheStore`; `sending`, `cur`, `snapshot` for `watchable.Map`;
`handler`, `received`, `objs`, `events`, `topology` for the goroutine of `subscribe` and the arguments of the running
reconcile function. `told` and `removed` are history: what completed calls were told in all, and the objects the
cluster ever dropped.

A store maps each UID to its contents or to `Absent`. An object is what `reflect.DeepEqual` tells apart, so it is a
member of `Contents`. A topology is identified with the store it was built from.

`Publish` is the common part of `CacheStore.Add`, `Delete` and `Replace`: the mutex is taken and the new store handed
to the coalescing goroutine over an unbuffered channel; the publisher keeps the mutex until `Coalesce` has received it
(for the worker: state `publishing`). `Coalesce` drops a store equal to the previous one (`Store.Equal`).
`ReceiveSnapshot` and `HandleNothing`/`HandleEvents` are separate steps, since the handler takes the mutex after it
has received the snapshot: the cache may change in between. `HandleEvents` covers the diff and `propagateLocked` up to
the call of the reconcile function, under one hold of the mutex; `ReconcileReturns` is its end.

`ListKind` is one list function: the cluster may change between two of them. `ListKindFails` is the path that logs and
returns nil. `Resync` is the periodic re-delivery by client-go (ten minutes, `runnable.go:118`) or by the cache of the
manager; `ResyncKinds` are the kinds whose predicates let it through. `watchable`, client-go, controller-runtime's
queue and the cluster are external: modelled from how `controller.go` and `runnable.go` use them.

Not modelled here: predicates other than their effect on resyncs, selectors (an object may come back with its UID,
which is how a selector shows it), transformation failures, `Propagate` (exported, without a caller), the time before
`subscribe`, and the end of the process.

### AcyclicCheck

A graph is a set of links with two ends each, so double links and self links exist, as in `dot.Graph`. `parents` is a
set of node identifiers and `children` a set of links, as in the simplified graph of `isDAG` (a map and a slice). One
action per turn of the loops; the order of nodes and children is free, since the result must not depend on the random
order of Go's maps. A node queued twice, possible through double links, is in the set `s` once: the second visit finds
no children and does nothing.

### Paths

The graph and the collection are chosen initially, and so are the two arguments: any multigraph, loops included, since
`AllowLoops` admits them, and any subset of its nodes as the items of the collection (the source itself need not be
one). `trail` is the slice `path`, kept as the links that were followed; `todo` is the call stack, with the links each
running call of `dfs` has yet to follow; `visited` is the map that is undone on the way back. Each call of `dfs` that
returns at once (a visited node, the destination) is one action, `Skip` or `Arrive`; any other call begins with
`Descend` and ends with `Return`. The loop over the children takes them in any order. `Paths` with a nil argument
returns nothing and is left out.

### GatewayTopology

`cluster` holds the resources given with the `With...` options, `expand` the `Expand...` options, `topology` what is
returned: one action, since the function is sequential and shares nothing. A resource is a record of the fields the
link functions read; an optional field is `None`, and every default (`ptr.Deref`) is an application of `Deref`. A
locator is a record with a section or `None`, which is what `LocatorFromObject` and `namespacedSectionName` make
distinct. Group and kind of a reference are one field. A link function yields the parents of a child
(`ParentGateways`, `ParentListeners`, `ServiceParents`, `PortParents`); `Links` is the choice between them.

The five kinds of routes have functions of their own that differ in their types only, so one definition stands for
five; `LinkedByRoute` is where the code treats TLSRoutes and UDPRoutes differently. `BackendSources` are the routes or
rules a link to a backend may start from. Rules without a name are named by position, and may collide with a rule that
has this name: they are one node here as in the graph.

Properties compare a topology with the same one without expansion: `Folded` takes every section for its object.
Left out: how often two objects are linked, the user's own objects and link functions, the check for loops (see
`AcyclicCheck`), the parentRef's port, which the code does not read.

`Build` is the topology builder of the controller (`controller/topology_builder.go`): whatever is in the store, it
passes on HTTPRoutes and GRPCRoutes only and has every section expanded. The kinds a user adds need link functions of
their own and are part of `Providers` (`Linked`) as far as the example has them. `RoutesFourDeep` is about the
topologies of this builder: the reconcilers of the example take paths of four and cast their members by position.

### TopologyGraph

`AcyclicCheck` and `Paths` are instances over one graph (`links`, `from`, `to`). `CheckLoops` is a step of `isDAG`,
skipped under AllowLoops. `CallPaths` is possible whatever the verdict: NewTopology returns the topology together with
the error about its loops (`topology.go:123`), the builder passes both on and the controller logs the error and calls
the reconcile function with the topology (`controller.go:297-300`). It chooses the collection and the two arguments.
`NoLoopMet` relates the two algorithms: on a graph that `isDAG` accepts the search never meets a marked node.

### Workflow

`pc` is the position in `Run`; `task` and `taskErr` are the error group, which keeps the first error and cancels its
context. A task is free to ignore the cancellation. An error is identified with the function that returned it.
`Resume` says where `Run` goes on when the handler suppressed an error. `defined` and `carried` are chosen initially:
every workflow with the given tasks is covered.

### Lifecycle

`pc` follows `Start`. `Register` is `stateReconciler.Run`, `InformerSyncs` the end of an informer's first list,
`SeeSynced` one `WaitForCacheSync`. `managed` and `informers` are chosen initially. `StartManagerFails` is an error of
`ctrl.New` or `Watch`. `ManagerReturns` is the end of `manager.Start`, whose error the code ignores.

### EffectivePolicies

The loops of `ReconcileEffectivePolicies` are actions (`TakeGateway`, `TakePath`, `NoPolicies`, `GatherPolicies`),
each call of `Merge` in the reduction along a path is one, `Finish` stores the result. A rule is the pair of its
origin, the policy whose text it is, and its `Source`, the field that the code sets; a policy as a value is a locator
and rules. `Union` and `Stamp` are what the two policy-rule strategies do to rules and to Source fields, `Copy` is
`copyMergeablePolicy`. Rules held by value carry their Source along; the two that AuthPolicy holds by pointer
(`response.unauthenticated`, `response.unauthorized`) are `Shared`: `Rules` returns the pointer, `SetRules` stores it,
so their Source is one cell per policy of the topology (`cell`), written along one path and read along the next.
`Conditions` are the rules `Empty` does not look at. DNSPolicy and TLSPolicy are merged by replacement.

`EffectiveIsWinner` defines the winner on the policies of the path, without the reduction: overrides from above,
defaults from below, atomic ones discarding or filling a whole policy. `SourceIsOrigin` is what the comments say of the
Source of a rule, and fails; `SourcesAsKnown` bounds by how much. A rule is traced to its origin but for two cases: a
merge of defaults from above traces every rule of the target to the target (`merge_strategies.go:107` and `:225`), also
a rule an override or another default brought in; and the Source of a default held by pointer may be that of another
path. So `SourcesAsKnown` describes the code and does not vouch for it.

### Providers

Both providers run the same loop on kinds of their own, so the model has one of them, chosen by `provider`, and differs
where they do. A gateway's auth paths (routes, AuthPolicies, the class) are one object of kind "Rules" per gateway,
whose content is what Istio is to be told (`NoRules` if the routes match anything); Envoy Gateway is told the same
whatever it is (`Desired`). `mode` is the watch mode: incremental informers with a queue per kind (`notices`), or lists
(`triggered`, `list`, `unlisted`, `missed`, as in `Controller`). `ListKindFails` is the list call that fails and is
taken for an empty list (`runnable.go:184-188`); the generation predicate of the watchers drops the resync that would
repair it. (That of GatewayClasses has none, `main.go:251`, so that a resync of the classes has everything listed again;
the model has no such resync and excuses what it would repair.) Between the cache and a call stands `CoalescingFeed`,
which `Controller` is shown to implement: `Take` is a snapshot, `Tell` the call; its events are those the subscriptions
see. As in `Controller`, the topology of a call (`view`) is the cache at the start of the call and not the snapshot.
`watchable.Map` copies what it gives out, so what a reconciler writes to an object of its topology is not in the cache.

`StartCall` picks the gateways the two tasks of a provider will handle: `ForReconcile` and `ForDelete` are the event
matchers of `main.go`. The tasks run concurrently, one gateway per step: `CreatePolicy`, `UpdatePolicy`,
`DeleteUnwanted`, `DeleteWithGateway` are the requests, with the answers of the API server (exists, conflict, not
found) and with failures, which the code logs and forgets.

A spec is its target and its rules. The target is the gateway (`own`), the gateway and others (`wide`) or others only
(`stray`); a stray policy is not a child of the gateway, so it is created again, and exists already. Istio's update
(`istio.go:199-201`) sets the action, its provider and the rules and keeps the targets of the object it found, so a
`wide` target somebody gave it stays; Envoy Gateway's (`envoy_gateway.go:198`) sets the whole spec (`Updated`). An
update is sent each time, except by Istio when neither side has rules (`NothingNew`: `lo.Every` of nothing is true):
Istio's rules are compared as pointers, Envoy Gateway's spec in a field never set. An update that changes nothing is no
event.

Others create and delete gateways (a new one has a new UID), change rules, edit policies (`Edits`: foreign rules, or
other targets) and remove them, and write their status, which the generation predicate of the watchers keeps from the
cache, so that later updates conflict. Faults are a failing request, a failing list call, a failing topology file,
which cancels the context of the other tasks of the workflow, and a restart at any moment.

`RightAtRest`: at rest, and if no kind was missing in the last list (`Misled`), every gateway is `Right` or has an
excuse the property names (`Failed`, `Orphan`, `Ahead`, `Undone`). `Right` does not ask for a target of its own where
the code does not restore one. Two history variables serve the excuses: `outcome` is what became of the last request
for a gateway and is forgotten when a call takes the gateway up again; `ahead` holds the gateways whose objects in the
topology of the last reconciling call were not those of its snapshot. What is excused is what the code has no answer
to: a lost request is not repeated, a failed list is not either. The property says that there is nothing else.

`DeletesOnlyUnwanted` is about lists only, and about gateways that neither went without a policy since the start nor
were in a list call that failed (`unwanted`): with a failed list of routes the code deletes a policy that is wanted,
and keeps it deleted until everything is listed again. A failed list of policies deletes nothing. With informers the property
fails even without failures: they fill the cache of a controller that starts kind by kind and object by object, a call
made meanwhile knows a gateway without its rules and deletes its policy, which a later call creates again.

## 3. Runs

| Run | Configuration | Shows |
|---|---|---|
| `incremental` | `ControllerDelta.cfg` | safety, refinement and convergence with two incremental kinds |
| `state_of_the_world` | `ControllerState.cfg` | the same questions for two listed kinds, with a failing list call, and that the mutex is given back |
| `list_fails` | `ControllerListFails.cfg` | violation: without resyncs a failed list is never healed |
| `topology_graph` | `TopologyGraph.cfg` | `isDAG`, then `Paths`, on all graphs with three nodes and up to three links, all collections and arguments, whatever the verdict |
| `gateway_topology` | `GatewayTopology.cfg` | links, sections and policies of a topology under every expansion, and those of the controller's builder |
| `section_bypass` | `GatewayTopologyBypass.cfg` | violation: a service linked past the expanded rules of its route |
| `workflow` | `Workflow.cfg` | every workflow of three tasks |
| `lifecycle` | `Lifecycle.cfg` | three runnables of either kind, managed or not |
| `effective_policies` | `EffectivePolicies.cfg` | who wins each rule of an effective policy, and to which policies it may be traced |
| `source_lost` | `EffectivePoliciesSource.cfg` | violation: a rule is traced to a policy it was not written in |
| `provider_loop` | `Providers.cfg` | the loop of either provider's reconcilers and their watches comes to rest, right but for named reasons |
| `provider_orphan` | `ProvidersOrphan.cfg` | violation: a policy outlives its gateway |

What they say of the program:

* **Events are consistent.** Whatever is coalesced, the events of a call continue those of earlier calls
  (`EventsContinueHistory`), only report deletions that happened (`DeletionsHappened`), and at rest add up to the
  cache (`NothingLost`) and in the end to the cluster (`Converges`).
* **The topology is not.** It is the current cache (`TopologyIsCurrent`), possibly ahead of the events; then another
  snapshot follows (`LeadIsFollowedUp`). But that snapshot may contain nothing new: when an object changes to B and
  back to A around the start of a call, the call is made with a topology of B, the next snapshot is A again, equal to
  what the handler knows, and no call corrects the topology until the next change. The excuse `Ahead` of `RightAtRest`
  is this, one level up.
* **Triggers are not swallowed** (`StaleOnlyIfTriggered`, `LagIsQueued`), also those arriving while Reconcile lists.
* **A failed list** is taken for an empty one. The resync of the manager heals it (`Converges` in `state_of_the_world`);
  with predicates such as GenerationChangedPredicate, used throughout `main.go` but for GatewayClasses, nothing does
  before the next change, and the reconcilers of the example delete the policies of gateways whose routes seem gone.
* **Expansions are consistent but for one case.** Whatever is expanded, sections relate what their objects are related
  to (`ExpansionInventsNothing`, `ExpansionLosesNothing`), with ports expanded a service is linked as a whole only for a
  backendRef of the same rule or route that names it without a port (`PortOrService`), and policies
  are on the targetables their edges lead to (`PoliciesFollowTargets`). But the rules of TLSRoutes and UDPRoutes are
  bypassed while service ports are not expanded: the route is linked to the service and its rules have no children
  (`NoSectionBypassed` fails; `BypassedOnlyAsKnown` says that this is all).
* **A refused graph is searched all the same**, and `Paths` returns there too, with the right paths (`OnlyPaths`,
  `AllPaths`, `Terminates`); on an accepted graph it never needs its marks (`NoLoopMet`).
* **Rules have the right text** (`EffectiveIsWinner`) for every mixture of defaults and overrides, but are not always
  traced to where they were written (`SourceIsOrigin` fails; `SourcesAsKnown` lists the policies they may be traced to).
* **The loop settles** (`Quiesces`) although nearly every call sends an update, and it undoes what others do to the
  rules of its policies (`RightAtRest`). It is left wrong by a request or a list that fails last, and by what coalescing
  hides: changes undone before a snapshot is taken.
* **A policy may outlive its gateway** with no failure at all (`NoPolicyWithoutGateway` fails): the topology of a call
  shows a gateway its events do not mention yet, the call creates the policy, the gateway is deleted before the next
  snapshot, and no call ever gets an event for it. A controller that is down when a gateway is deleted leaves the same.

Three things the code shows without a run. A workflow loses errors: `workflow.go:16-20` says that the error of any
reconciliation function is handled, but when several tasks fail `errgroup` keeps the first (`workflow.go:45`), so the
handler suppresses one and `Run` returns nil; `NilMeansSuppressed` is stated so as not to claim more.
`Start` is said to block until the context is cancelled (`controller.go:173`), but waits for the caches with a channel
nobody closes by then (`controller.go:189`): with an informer that cannot list its kind it does not return, which is why
`CancelledReturns` has that premise. And a program written like `README.md:184-194`, without a manager, registers
state-of-the-world watches that `Start` never starts (`controller.go:195-222`).

### Bounds

Two objects of two kinds. Objects interact only through the store, and every defect of coalescing or of the diff needs
at most two of them: one that changes and one whose change triggers the next step. `MaxChanges = 3` lets one object be
created, changed and changed back, or created, deleted and created: the A-B-A case of section 3 is among them.
Two contents tell "same" from "different"; in `state_of_the_world` one content suffices for presence and absence, and
leaves room for a failed list and for resyncs. A resync is possible only while no notification for the object is
pending, which bounds the queue and hides nothing: a second copy of the same object is absorbed like the first.
`MaxListFailures` is 1 in the runs about failures and 0 elsewhere. Three nodes and links are enough for a loop with a
way in, a loop of three, a double link beside a chain, and a self link. The search needs no more for a node reached
again on a second route after it was left behind, a route closed by the collection, and a loop back to the source. A
link in `GatewayTopology` depends on one route and one gateway or service, so there are two of each: the other one has
the same name in another namespace, or names its rule the same, and must not be confused with the first. Routes of
every kind are taken in turn, and of a route the parents and the backends in turn, which meet in no link. `MaxParents`
and `MaxBackends` are 2 (1 backend in `section_bypass`), which suffices for a reference with a port and one without;
the rules expanded are none, those of HTTPRoutes, or those of all kinds. Three tasks are enough for one that fails
first, one that fails later and one that is still running.

In `effective_policies` one path holds four AuthPolicies, on three levels with two on the middle one: an override above
a merged default above an atomic one, and a source that passes through two merges, need no more. The second gateway and
the second rule give further paths through the same policies, which is what shared Source cells need: from each gateway
through the route to each rule, none left out. Of the rules one is held by value, one by pointer, one is a condition.

In `provider_loop` there is one gateway name with two UIDs (deleted and created again), two contents (rules and
`NoRules`), of which the first start sees one, three edits (foreign rules, a wide and a stray target), two changes by
others and one fault, for both providers and both watch modes: 1.16 million states. Gateways share nothing but the
mutex, the list calls and the error group. None of these bounds enters the theorems.

The configurations do not check for deadlock: with the cluster at rest and nothing left to resync the pipeline really
stops, as does the loop of the reconcilers, and so do `Paths`, a workflow and `Start` when they have returned. That
nobody waits for ever before that is what `Converges`, `MutexReleased`, `Quiesces`, `Terminates`, `Returns` and
`CancelledReturns` say.

### Fairness

Goroutines that can run do (weak fairness of the worker, the coalescing goroutine, the handler, the delivery of watch
events). Whoever waits for the mutex gets it (strong fairness of the informers' handler functions, of the start of
`Reconcile` and of `handleCacheEvent`): `sync.Mutex` hands itself to a waiter that has starved for a millisecond. The
resync timers fire. The reconcile function, the tasks of a workflow and the manager (once cancelled) return: the user's
part of the contract. In `Lifecycle` no informer is obliged to deliver its first list; that all have is a premise of
`CancelledReturns`. In `Providers` informers deliver, the worker lists, snapshots
are taken and calls go on and return, each weakly fair; `TopologyGraph` is sequential and only has to go on. Changes of
the cluster, failures of list calls and cancellation are never forced.

## 4. Proofs

All theorems hold for every set of UIDs, contents, kinds, nodes and links, tasks, runnables, resources, policies, paths
and gateways, and for every bound, under the named assumptions of the modules only, which TLC evaluates:

* `AbsentAssumption`, `KindAssumption`, `BoundAssumption` (pipeline): the absent object is none of the contents, every
  object has a kind, watched in one of the two modes, and the bounds are numbers;
* `NoneAssumption`, `NodesAssumption` (graphs): the end of nothing is no node, and nodes are finitely many;
* `ExpansionAssumption`, `ResourcesAssumption`, `NamesAssumption` (topologies): resources are typed as the Gateway API
  types them, and names tell apart the policies in a cluster, which the API server guarantees;
* `DistinctSteps` (workflow): the precondition, the postcondition and the tasks are different functions, and the error
  `Run` is called with and the one a handler makes up are not theirs;
* `ConstantsAssumption`, `PathsAssumption`, `RulePathsJoin` (policies): finitely many policies of valid specs
  (validation admits one section, with a rule besides the conditions), told apart by name and kind; paths that start at
  a gateway and visit nothing twice, since topologies have no loops; and all of them: a path to a targetable and one
  from there to a rule make a path to the rule;
* `ProvidersAssumption`, `PolicyAssumption` (providers): finitely many gateways, and values that differ where the code
  tells them apart.

**Pipeline.** `PipelineInv` says who holds the mutex in which state, and how far each store along the pipeline may be
from the next one. It is inductive with `TypeOK` and one step lemma per action; the delicate conjunct is that while the
reconcile function runs `objs` is the replay of the running events on `told`, which needs the lemmas on the diff:
`EventsBetweenDescribes` (the events are about the store they diff against, one per object) and
`ReplayEventsBetween` (replaying them gives the new store). `HistoryContinues`, `TopologyCurrent`, `LeadFollowedUp` and
`NothingIsLost` are consequences of it, and `ControllerImplementsFeed` shows step by step that the pipeline maps to
`CoalescingFeed`: `Coalesce` to Change, `ReceiveSnapshot` to Take, `HandleNothing` and `ReconcileReturns` to Tell,
everything else to a stutter.

**Watches.** `WatchInv` strengthens `LagIsQueued` and `StaleOnlyIfTriggered` with where a notification comes from
(`FeedOrigin`: it is in the queue of its object's kind) and with the idleness of the worker when nothing is listed. The
queue lemmas say what appending a notification and removing the first do to `AccountedFor`.

**Deletions.** `DeletionsAreReal` assumes a single watch mode and, for listed kinds, no failed list: an object the
cluster never dropped is, once it is in one store of the pipeline, in all the later ones (`PresenceInv`).

**isDAG** (`KahnTyped`, `KahnHolds`, `KahnVerdict`, in `TopologyGraphProofs`). `KahnInv` says that a parent is struck
out with the first link followed from it, that a node without parents is waiting, being visited or done, and that a set
of nodes each of which has a parent in the set is never touched. The verdict follows: what is left over when nothing is
waiting is such a set, or empty.

**Paths.** `SearchInv` (types, `TrailInv`, `VisitedIsTrail`) is inductive: a link to an unmarked node extends the
trail to a walk that visits no node twice (`TrailExtends`), and a return unmarks the one node that leaves the trail.
Soundness (`PathsSound`) follows from the step that records a path. Completeness (`PathsComplete`) needs
`SearchAhead`: a path not recorded yet branches off from the trail by a link that some running call has yet to follow.
When that link is taken the path either would visit a node twice, or ends and is recorded, or goes on below the new
call; when a call returns nothing is left in its loop, so the branch is further up; when the outermost call returns
there is no branch left.

**Topology graph.** The steps of the two algorithms are lemmas of their modules (`TypeStep`, `KahnStep`,
`VerdictStep`; `SearchStep`, `SoundStep`, `CompleteStep`), used through INSTANCE for the composition. `GraphInv` says
that there is no search before Paths is called and no check after it. So the results on `isDAG` and `Paths` hold in
`TopologyGraph` (`GraphVerdict`, `GraphOnlyPaths`, `GraphAllPaths` and the others), and `GraphNoLoopMet` joins them: if
a link leads back to a node of the trail, the nodes from there to its end are a set each of which has a parent in it
(`BackLinkLoops`), which an acyclic graph has not.

**Gateway API topology.** The invariant is that a topology is `NewTopology` of its cluster and options
(`BuiltFromCluster`). `NothingInvented` then goes through the pieces of `Links`: folding a listener's parent gives what
`FindGateways` finds (`RouteLinksFold`), folding a rule gives its route, whose backendRefs contain those of the rule
(`SourcesFold`, `PlainServiceLink`), and links between an object and its own sections fold to nothing. `PoliciesAgree`
needs that no two policies have one locator (`NamesAssumption`, which the API server guarantees). `RoutesAreFourDeep`
goes through the links the builder's expansion makes: each leads one level down.

The other direction is harder, since a link may be made for a section in place of its object. `NothingLost`
(`ExpansionLosesNothing`) follows a reference of a route to the link that shows it under every expansion: to the
listener, the gateway or both, by the route or by the rule that holds the reference (`LinkShows`, `ParentShows`,
`BackendShows`). `PortsOrServices` needs that a port is looked for before the service is (`WholeServiceAskedFor`).
`BypassesKnown` goes through all pieces of `Links` and finds that none but `LinkedByRoute` passes an expanded section
(`LinksBypass`): what is missing in the topology of `NoSectionBypassed` is missing there and nowhere else.

**Workflow.** `RunInv` is the induction behind `TasksJoined`, `FailureStops` and `NilSuppressed`: no task has an error
before the tasks are dispatched, the error being handled is that of the step `Run` is at, the error the group keeps is
of a task that failed, and there is one when any did (`GroupKeepsOne`), and whatever of this failed at an earlier step
has been suppressed by the handler (`KeptHandled`). The last is what `NilMeansSuppressed` lacks to be inductive.

**Start.** `SyncInv` says that a reconciler is synced exactly when it has registered its watch, that `Start` counts as
synced only what is, and that once the manager is being started nothing is left to register; so `AllWatched`.

**Policy merging.** `WinnersPrevail` (`EffectiveIsWinner`) is about a reduction along a path of any length, and needs no
induction on it because the reduction is a loop of actions. First, `PoliciesInPath` lists the policies of a path in
order (`Sorted`): the number of policies before one is its rank, ranks differ (`Above` is a strict linear order, by
`PathsAssumption` and the names) and are fewer than the policies, so each is taken once. Then `MergeInv` says that what
has been merged so far is right for the policies merged so far. One lemma per strategy extends that by a policy on top
of the others (`OnTop`): `OverridesReplace` for the atomic overrides, `DefaultsYield` for the atomic defaults,
`OverridesWin` and `DefaultsFill` for the two that merge by rule. They rest on `KeptGrows`: a policy on top either is
an atomic override and discards everything, or changes nothing about what is kept below. At `Finish` all policies of
the path are merged (`ComputedInv`), and the winners are unique (`LowestIs`, `HighestIs`, `WinnerIs`).

`SourcesKnown` (`SourcesAsKnown`) is about all paths at once, because the cells of the rules held by pointer outlive the
merge along one. What is on a cell depends on the policy alone: `CellsAlong` says that it is nothing, the policy itself,
or what a merge along some path of rules that has the policy would trace it to (`AlongPath`). `BottomAlong` shows that
a merge writes nothing else, and rests on `KeptFrom` and `LowestFrom`: from a policy that is kept on, what is kept, and
so the most specific policy, depends on nothing above it. `SourceInv` says of the reduction under way that each rule is
traced to its origin, to the bottom if a default has been merged on top (`DefaultsTraced`), or to what its cell held
(`OverridesTraced` leaves it alone); the first merge is special, there the last policy meets itself, on pointers it
shares. The path behind a cell need not be one along which the policy is kept; but the way to the policy along the
present path, where it is kept, followed by the way on along that other one is a path too (`Joined`, the use of
`RulePathsJoin`), the policy is kept there, and its bottom is the source (`SomeOtherPath`). Last, `CoverInv`: the loops
pass over no path, so in the end that path is among those computed.

**Providers.** `BaseInv` holds types, what the watch mode excludes, and that a name belongs to one gateway at a time.
The steps fall into four classes (`StoreSteps`): `Writes` of one object, `Touches` of a status nobody is told of,
`Moves` of copies from the cluster to the call, and `Rests`, which leave all stores alone; invariants on the copies are
shown class by class, and for `Restart`.

`RemovalsHaveReasons` (`DeletesOnlyUnwanted`) follows from `WantedInv`: watching by lists, every store that has been
filled since the start shows a gateway that was wanted all along, and its rules, as present, unless their list failed,
which makes the gateway one of `unwanted`. The argument breaks down for informers, and so does the property there.

`RestsRight` (`RightAtRest`) is the longest proof. `FinalIsCluster`: what the cache will hold of an object once all
notices are delivered, or the list under way is published, leads to what the cluster holds (`Leads`): it is the same but
for a status, or nothing if the list of its kind failed (`FinalMissed`). `OneGateway`: nowhere along the way do two
gateways of one name appear together. `VersionsTell`: copies of a policy with one version are the same, so that an
update which does not conflict was computed from what it replaces, the targets Istio keeps included; a written object
differs from every copy under way (`ChangedDiffers`). News of a policy is on the way when what the cache will hold of it
is not what the handler was told, and, watching by lists, the cluster does not hold that either (`Overtaken`), so that a
list made instead brings news too. With these `SettledInv` is inductive: a gateway whose turn in the current call is
over, and which the call saw as its events did (`CallInv`), either has its last request failed, or is right as far as
the handler was told, or news of its policy is on the way, or it was just created. At rest nothing is on the way
(`ToldAtRest`), so what the handler was told is the cluster unless a kind was missed, and what is not right is one of
the excuses.

Only model-checked: liveness (`Converges`, `MutexReleased`, `Quiesces`, `Terminates`, `Returns`, `CancelledReturns`),
which is out of the prover's reach, as are ENABLED and induction over data. Every invariant and every action property
of the passing runs has a theorem.

## 5. Not modelled

* tracing, logging and DOT output, which nothing reads back; the API types of the example and its manifests, generated
  code, builders for tests, the validation and status of policies;
* the color and JSON patch policies of the smaller examples, which reduce the policies of a path in the same manner;
* how hostnames, matches and CEL predicates become rules of Istio and Envoy Gateway (`istio.go:230-420`): the rules of a
  gateway are one content in `Providers`. A SecurityPolicy that somebody gave a BackendRef with a namespace makes
  `envoy_gateway.go:191` dereference nil: that is a panic, like that of `DeleteFunc`, and what follows a panic is
  `Restart`; no edit of the model has such a field;
* label and field selectors, transformations that fail, tombstones, and predicates other than the one `Providers` has;
* hazards without a property are listed with their reason: among them a reconcile function that calls `Propagate` and
  waits for itself, the mixture of the two watch modes in one controller (`Reconcile` replaces the whole store, so
  incremental kinds vanish until a resync), the type assertion in `DeleteFunc`, and the discarded error of
  `manager.Start`.
