------------------------------ MODULE Providers ------------------------------
(***************************************************************************)
(* The reconcilers of a gateway provider of the Kuadrant example           *)
(* (reconcilers/istio.go, envoy_gateway.go) in the loop they close: they   *)
(* write policy objects of the provider, named after gateways, which the   *)
(* controller that calls them watches (main.go, controllerOptionsFor and   *)
(* buildReconciler).  Both providers run the same loop on objects of       *)
(* their own; the model has one of them, and differs where they do: in     *)
(* what they write, and what of a policy they leave as it is.              *)
(*                                                                         *)
(* Between the cache and the calls stands CoalescingFeed, the abstract     *)
(* specification that Controller implements.  What gives a gateway auth    *)
(* paths (routes, AuthPolicies, the class of the provider) is one object   *)
(* per gateway, of kind "Rules"; its content stands for the rules Istio is *)
(* to be given.  Envoy Gateway is to be given the same whatever it is.     *)
(***************************************************************************)
EXTENDS Naturals, Sequences, FiniteSets, SequencesExt

CONSTANTS
    Gateways,     \* namespaced names of gateways
    Contents,     \* the rules Istio may have to be given for a gateway,
    FirstContents,   \* and which of them before the controller first starts
    NoRules,      \* those of routes that match anything: none
    ExtAuth,      \* what Envoy Gateway is given
    Foreign,      \* what no reconciler writes
    Edits,        \* the specs of policies others write
    Present,      \* a gateway, whatever it is like
    Absent,       \* no object
    UIDsPerName,  \* bound on the gateways of one name known at one time
    MaxChanges,   \* bound on the writes of others
    MaxFaults     \* bound on failing requests, failing files and restarts

ASSUME ProvidersAssumption ==
    /\ IsFiniteSet(Gateways) /\ UIDsPerName \in Nat
    /\ Absent \notin Contents \cup {Present}
    /\ FirstContents \subseteq Contents
    /\ Foreign \notin Contents \cup {ExtAuth}

(* An object of the cluster: its kind, the gateway it is or is about, and  *)
(* what tells it from others of that name, which matters for gateways.     *)
Objects == {"Gateway"} \X Gateways \X (1..UIDsPerName)
           \cup {"Rules", "Policy"} \X Gateways \X {1}

Kinds == {"Gateway", "Rules", "Policy"}

KindOf(o) == o[1]
NameOf(o) == o[2]

RulesFor(g) == <<"Rules", g, 1>>
PolicyOf(g) == <<"Policy", g, 1>>

(* What a policy targets: its gateway alone, others besides, or others.    *)
(* "rules" is all else the reconcilers write: for Istio the action and its *)
(* provider as well, for Envoy Gateway the external authorization.         *)
Targets == {"own", "wide", "stray"}

Specs == [target : Targets, rules : Contents \cup {ExtAuth, Foreign}]

Policy(spec, version) == [spec |-> spec, version |-> version]

Policies == [spec : Specs, version : Nat]

Values == {Present} \cup Contents \cup Policies

ASSUME PolicyAssumption ==
    Absent \notin Specs \cup Policies /\ Edits \subseteq Specs

(* What an object of the kind may be.                                      *)
ValuesOf(o) ==
    {Absent} \cup IF KindOf(o) = "Gateway" THEN {Present}
                  ELSE IF KindOf(o) = "Rules" THEN Contents
                  ELSE Policies

VARIABLES
    mode,       \* "delta": incremental informers, "state": lists
    provider,   \* "istio" or "envoy"
    cluster,    \* the objects, Absent included
    notices,    \* "delta": per kind, what its informer has yet to deliver
    triggered,  \* "state": a reconcile request is queued
    list,       \* what Controller.Reconcile has listed,
    unlisted,   \* the kinds it has yet to list,
    missed,     \* and those it could not list, also once the list is published
    lock,       \* the mutex of the controller: "free", "lister", "handler"
    cache, taken, snapshot, told,   \* see CoalescingFeed
    view,       \* the objects in the topology of the last call
    reconciling,   \* the gateways its Reconcile task has yet to handle,
    deleting,      \* and those its Delete task has
    cancelled,  \* the context of the running call is cancelled
    ahead,      \* history: the gateways whose objects in the topology of the
                \* last call that reconciled gateways were not the snapshot's
    changes, faults, restarts,   \* counters
    outcome,    \* history: what became of the last request for a gateway
    unwanted    \* history: gateways that did without a policy since start,
                \* or that a failed list may have shown so

world == <<cluster, notices, triggered, unwanted>>
listing == <<list, unlisted, missed>>
feed == <<cache, taken, snapshot, told>>
call == <<view, reconciling, deleting, cancelled, ahead>>
vars == <<mode, provider, world, listing, lock, feed, call, changes, faults,
          restarts, outcome>>

Feed == INSTANCE CoalescingFeed WITH
            UIDs <- Objects, Contents <- Values, Absent <- Absent,
            world <- cache, taken <- taken, state <- snapshot, told <- told

EmptyStore == [o \in Objects |-> Absent]

IsStore(s) ==
    s \in [Objects -> Values \cup {Absent}] /\ \A o \in Objects : s[o] \in ValuesOf(o)

IsNotice(n, k) ==
    n \in Objects \X (Values \cup {Absent}) /\ KindOf(n[1]) = k /\ n[2] \in ValuesOf(n[1])

TypeOK ==
    /\ mode \in {"delta", "state"} /\ provider \in {"istio", "envoy"}
    /\ \A s \in {cluster, cache, list, snapshot, told, view} : IsStore(s)
    /\ notices \in [Kinds -> Seq(Objects \X (Values \cup {Absent}))]
    /\ \A k \in Kinds : \A n \in ToSet(notices[k]) : IsNotice(n, k)
    /\ triggered \in BOOLEAN
    /\ unlisted \subseteq Kinds /\ missed \subseteq Kinds
    /\ lock \in {"free", "lister", "handler"}
    /\ taken \in BOOLEAN
    /\ reconciling \subseteq Gateways /\ deleting \subseteq Gateways
    /\ cancelled \in BOOLEAN
    /\ ahead \subseteq Gateways /\ unwanted \subseteq Gateways
    /\ restarts \in Nat
    /\ outcome \in [Gateways -> {"none", "created", "done", "failed"}]

-----------------------------------------------------------------------------
(* What a store of objects says of a gateway.                              *)

ObjectsOf(g) == {o \in Objects : NameOf(o) = g}

Exists(store, g) ==
    \E o \in ObjectsOf(g) : KindOf(o) = "Gateway" /\ store[o] # Absent

(* The auth paths of a gateway start at it.                                *)
Wanted(store, g) == Exists(store, g) /\ store[RulesFor(g)] # Absent

Desired(store, g) == IF provider = "istio" THEN store[RulesFor(g)] ELSE ExtAuth

(* The policy is in the topology, ...                                      *)
Known(store, g) == store[PolicyOf(g)] # Absent

(* ... and a child of the gateway.                                         *)
Linked(store, g) ==
    /\ Known(store, g) /\ Exists(store, g)
    /\ store[PolicyOf(g)].spec.target # "stray"

-----------------------------------------------------------------------------
(* Writes to the cluster.                                                  *)

(* Copies of an object anywhere.                                           *)
CopiesOf(o) ==
    {s[o] : s \in {cluster, cache, list, snapshot, told, view}}
    \cup {n[2] : n \in {m \in ToSet(notices[KindOf(o)]) : m[1] = o}}

(* A resource version no copy has; versions are only ever compared.        *)
FreshVersion(o) ==
    LET used == {v.version : v \in CopiesOf(o) \ {Absent}}
    IN  CHOOSE n \in 1..(Cardinality(used) + 1) : n \notin used

(* A write an informer reports; a lister is triggered by it.               *)
Write(o, value) ==
    /\ cluster' = [cluster EXCEPT ![o] = value]
    /\ IF mode = "delta"
       THEN /\ notices' = [notices EXCEPT ![KindOf(o)] = Append(@, <<o, value>>)]
            /\ UNCHANGED triggered
       ELSE triggered' = TRUE /\ UNCHANGED notices
    /\ unwanted' = unwanted \cup {g \in Gateways : ~Wanted(cluster', g)}

(* What a controller that starts is to be told of the cluster.             *)
Pending(k) == {o \in Objects : KindOf(o) = k /\ cluster[o] # Absent}

Subscribe ==
    /\ notices' = [k \in Kinds |->
            IF mode = "state" THEN <<>>
            ELSE SetToSeq({<<o, cluster[o]>> : o \in Pending(k)})]
    /\ triggered' = (mode = "state")
    /\ unwanted' = {g \in Gateways : ~Wanted(cluster, g)}

Init ==
    /\ mode \in {"delta", "state"} /\ provider \in {"istio", "envoy"}
    /\ \E gws \in SUBSET Gateways, rules \in [Gateways -> FirstContents \cup {Absent}] :
          cluster = [o \in Objects |->
              IF KindOf(o) = "Gateway" /\ NameOf(o) \in gws /\ o[3] = 1 THEN Present
              ELSE IF KindOf(o) = "Rules" THEN rules[NameOf(o)]
              ELSE Absent]
    /\ notices = [k \in Kinds |->
            IF mode = "state" THEN <<>>
            ELSE SetToSeq({<<o, cluster[o]>> : o \in Pending(k)})]
    /\ triggered = (mode = "state")
    /\ list = EmptyStore /\ unlisted = {} /\ missed = {}
    /\ lock = "free"
    /\ cache = EmptyStore /\ snapshot = EmptyStore /\ told = EmptyStore
    /\ taken = FALSE
    /\ view = EmptyStore
    /\ reconciling = {} /\ deleting = {} /\ cancelled = FALSE /\ ahead = {}
    /\ changes = 0 /\ faults = 0 /\ restarts = 0
    /\ outcome = [g \in Gateways |-> "none"]
    /\ unwanted = {g \in Gateways : ~Wanted(cluster, g)}

-----------------------------------------------------------------------------
(* Users, and the controllers of the gateways.                             *)

Others ==
    /\ changes < MaxChanges
    /\ changes' = changes + 1
    /\ UNCHANGED <<mode, provider, listing, lock, feed, call, faults, restarts,
                   outcome>>

CreateGateway(o) ==
    /\ Others
    /\ KindOf(o) = "Gateway" /\ ~Exists(cluster, NameOf(o))
    /\ CopiesOf(o) = {Absent}
    /\ Write(o, Present)

DeleteGateway(o) ==
    /\ Others
    /\ KindOf(o) = "Gateway" /\ cluster[o] # Absent
    /\ Write(o, Absent)

(* Routes and AuthPolicies come and go.                                    *)
ChangeRules(g, c) ==
    /\ Others
    /\ cluster[RulesFor(g)] # c
    /\ Write(RulesFor(g), c)

(* Somebody tampers with the policy.                                       *)
EditPolicy(g, spec) ==
    /\ Others
    /\ Known(cluster, g) => cluster[PolicyOf(g)].spec # spec
    /\ Write(PolicyOf(g), Policy(spec, FreshVersion(PolicyOf(g))))

RemovePolicy(g) ==
    /\ Others
    /\ Known(cluster, g)
    /\ Write(PolicyOf(g), Absent)

(* The gateway's controller writes the status of the policy: not a new     *)
(* generation, so the predicate of the watcher lets nobody know.           *)
WriteStatus(g) ==
    /\ Others
    /\ Known(cluster, g)
    /\ cluster' = [cluster EXCEPT ![PolicyOf(g)] =
                                      Policy(@.spec, FreshVersion(PolicyOf(g)))]
    /\ UNCHANGED <<notices, triggered, unwanted>>

-----------------------------------------------------------------------------
(* From the cluster to the cache: see Controller for the steps in between. *)

Inform(k) ==
    /\ notices[k] # <<>> /\ lock = "free"
    /\ notices' = [notices EXCEPT ![k] = Tail(@)]
    /\ cache' = [cache EXCEPT ![Head(notices[k])[1]] = Head(notices[k])[2]]
    /\ UNCHANGED <<mode, provider, cluster, triggered, unwanted, listing, lock, taken,
                   snapshot, told, call, changes, faults, restarts, outcome>>

StartReconcile ==
    /\ triggered /\ lock = "free"
    /\ triggered' = FALSE
    /\ lock' = "lister"
    /\ list' = EmptyStore /\ unlisted' = Kinds /\ missed' = {}
    /\ UNCHANGED <<mode, provider, cluster, notices, unwanted, feed, call, changes,
                   faults, restarts, outcome>>

ListKind(k) ==
    /\ lock = "lister" /\ k \in unlisted
    /\ unlisted' = unlisted \ {k}
    /\ list' = [o \in Objects |-> IF KindOf(o) = k THEN cluster[o] ELSE list[o]]
    /\ UNCHANGED <<mode, provider, world, missed, lock, feed, call, changes,
                   faults, restarts, outcome>>

(* The list function logs the error and returns nil: there is nothing of   *)
(* the kind in what Reconcile will publish.  The loss of a gateway or of   *)
(* its rules makes it look as if it wanted no policy.                      *)
ListKindFails(k) ==
    /\ lock = "lister" /\ k \in unlisted /\ faults + restarts < MaxFaults
    /\ faults' = faults + 1
    /\ unlisted' = unlisted \ {k} /\ missed' = missed \cup {k}
    /\ list' = [o \in Objects |-> IF KindOf(o) = k THEN Absent ELSE list[o]]
    /\ unwanted' = IF k = "Policy" THEN unwanted ELSE Gateways
    /\ UNCHANGED <<mode, provider, cluster, notices, triggered, lock, feed,
                   call, changes, restarts, outcome>>

(* The list is of no use any more.                                         *)
Publish ==
    /\ lock = "lister" /\ unlisted = {}
    /\ lock' = "free"
    /\ cache' = list
    /\ list' = EmptyStore
    /\ UNCHANGED <<mode, provider, world, unlisted, missed, taken, snapshot,
                   told, call, changes, faults, restarts, outcome>>

TakeSnapshot ==
    /\ cache # told
    /\ Feed!Take
    /\ UNCHANGED <<mode, provider, world, listing, lock, call, changes, faults,
                   restarts, outcome>>

-----------------------------------------------------------------------------
(* The call of the reconcile function.                                     *)

(* Subscription.Reconcile: the events the two tasks of a provider are for. *)
(* Mutants: the provider's own kind is not in the list; the matcher for    *)
(* deletions has no EventType.                                             *)
IgnoresPolicies(e) ==
    /\ KindOf(e.uid) # "Policy"
    /\ KindOf(e.uid) = "Gateway" => e.type # "delete"

ForReconcile(e) == KindOf(e.uid) = "Gateway" => e.type # "delete"

ForAnyGatewayEvent(e) == KindOf(e.uid) = "Gateway"

ForDelete(e) == KindOf(e.uid) = "Gateway" /\ e.type = "delete"

(* The topology is built from the cache, not from the snapshot.            *)
StartCall ==
    /\ lock = "free"
    /\ Feed!Tell
    /\ lock' = "handler"
    /\ view' = cache
    /\ LET events == Feed!EventsBetween(told, snapshot) IN
        /\ reconciling' = {g \in Gateways :
                Exists(cache, g) /\ \E e \in events : ForReconcile(e)}
        /\ deleting' = {NameOf(e.uid) : e \in {f \in events : ForDelete(f)}}
        /\ ahead' = IF \E e \in events : ForReconcile(e)
                    THEN {g \in Gateways :
                            \E o \in ObjectsOf(g) : cache[o] # snapshot[o]}
                    ELSE ahead
    /\ outcome' = [g \in Gateways |->
                      IF g \in reconciling' THEN "none" ELSE outcome[g]]
    /\ cancelled' = FALSE
    /\ UNCHANGED <<mode, provider, world, listing, changes, faults, restarts>>

(* TopologyFileReconciler runs in the same group of goroutines; when it    *)
(* returns an error, the context of the others is cancelled.               *)
FileFails ==
    /\ lock = "handler" /\ ~cancelled /\ faults + restarts < MaxFaults
    /\ faults' = faults + 1
    /\ cancelled' = TRUE
    /\ UNCHANGED <<mode, provider, world, listing, lock, feed, view, reconciling,
                   deleting, ahead, changes, restarts, outcome>>

(* The tasks run concurrently, each takes one gateway at a time.           *)
Reconciling(g) ==
    /\ g \in reconciling
    /\ reconciling' = reconciling \ {g}
    /\ UNCHANGED <<mode, provider, listing, lock, feed, view, deleting, cancelled,
                   ahead, changes, restarts>>

Deleting(g) ==
    /\ g \in deleting
    /\ deleting' = deleting \ {g}
    /\ UNCHANGED <<mode, provider, listing, lock, feed, view, reconciling, cancelled,
                   ahead, changes, restarts>>

Ends(g, how) == outcome' = [outcome EXCEPT ![g] = how]

(* A request that comes to the API server, ...                             *)
Arrives == ~cancelled /\ UNCHANGED faults

(* ... one that is refused there, or does not: logged, and that is it.     *)
Refused(g) ==
    /\ Ends(g, "failed")
    /\ UNCHANGED world

Lost(g) ==
    /\ \/ cancelled /\ UNCHANGED faults
       \/ ~cancelled /\ faults + restarts < MaxFaults /\ faults' = faults + 1
    /\ Refused(g)

(* No request is sent.                                                     *)
Nothing == UNCHANGED <<world, faults, outcome>>

(* The spec a provider makes for a gateway.                                *)
Made(g, target) == [target |-> target, rules |-> Desired(view, g)]

CreatePolicy(g) ==
    /\ Reconciling(g) /\ Wanted(view, g) /\ ~Linked(view, g)
    /\ \/ /\ Arrives /\ ~Known(cluster, g) /\ Ends(g, "created")
          /\ Write(PolicyOf(g), Policy(Made(g, "own"), FreshVersion(PolicyOf(g))))
       \/ Arrives /\ Known(cluster, g) /\ Refused(g)
       \/ Lost(g)

(* The object of the topology, with its resource version and a new spec.   *)
Current(g) ==
    Known(cluster, g) /\ cluster[PolicyOf(g)].version = view[PolicyOf(g)].version

(* Mutant: what is out of date is deleted, the event will have it created. *)
ReplacePolicy(g) ==
    /\ Reconciling(g) /\ Wanted(view, g) /\ Linked(view, g)
    /\ Arrives /\ Current(g) /\ Ends(g, "done")
    /\ Write(PolicyOf(g), Absent)

(* Istio compares rules as pointers, which finds no difference only where  *)
(* there are none on either side.                                          *)
NothingNew(g) ==
    /\ provider = "istio"
    /\ view[PolicyOf(g)].spec.rules = NoRules /\ Desired(view, g) = NoRules

(* Istio's update sets the action, its provider and the rules and leaves   *)
(* the targets of the object as they are, Envoy Gateway's sets the spec.   *)
Updated(g) ==
    Made(g, IF provider = "istio" THEN view[PolicyOf(g)].spec.target ELSE "own")

(* Sent, but for NothingNew, whether or not the spec is new: what Envoy    *)
(* Gateway's compares is a field that it never sets.  The API server makes *)
(* nothing of an update that changes nothing.                              *)
UpdatePolicy(g) ==
    /\ Reconciling(g) /\ Wanted(view, g) /\ Linked(view, g)
    /\ \/ NothingNew(g) /\ Nothing
       \/ /\ ~NothingNew(g) /\ Arrives /\ Current(g) /\ Ends(g, "done")
          /\ IF cluster[PolicyOf(g)].spec = Updated(g) THEN UNCHANGED world
             ELSE Write(PolicyOf(g), Policy(Updated(g), FreshVersion(PolicyOf(g))))
       \/ ~NothingNew(g) /\ Arrives /\ ~Current(g) /\ Refused(g)
       \/ ~NothingNew(g) /\ Lost(g)

(* By name, whatever the object has become.                                *)
DeleteByName(g) ==
    \/ Arrives /\ Known(cluster, g) /\ Ends(g, "done") /\ Write(PolicyOf(g), Absent)
    \/ Arrives /\ ~Known(cluster, g) /\ Ends(g, "done") /\ UNCHANGED world
    \/ Lost(g)

DeleteUnwanted(g) ==
    /\ Reconciling(g) /\ ~Wanted(view, g)
    /\ IF Linked(view, g) THEN DeleteByName(g) ELSE Nothing

(* The Delete task looks among all objects, the gateway being gone.        *)
DeleteWithGateway(g) ==
    /\ Deleting(g)
    /\ IF Known(view, g) THEN DeleteByName(g) ELSE Nothing

EndCall ==
    /\ lock = "handler" /\ reconciling = {} /\ deleting = {}
    /\ lock' = "free" /\ cancelled' = FALSE
    /\ UNCHANGED <<mode, provider, world, listing, feed, view, reconciling, deleting,
                   ahead, changes, faults, restarts, outcome>>

Requests(g) == CreatePolicy(g) \/ UpdatePolicy(g) \/ DeleteUnwanted(g)
               \/ DeleteWithGateway(g)

(* The controller dies wherever it is, and starts again.                   *)
Restart ==
    /\ faults + restarts < MaxFaults
    /\ restarts' = restarts + 1
    /\ Subscribe
    /\ list' = EmptyStore /\ unlisted' = {} /\ missed' = {} /\ lock' = "free"
    /\ cache' = EmptyStore /\ snapshot' = EmptyStore /\ told' = EmptyStore
    /\ taken' = FALSE
    /\ view' = EmptyStore
    /\ reconciling' = {} /\ deleting' = {} /\ cancelled' = FALSE /\ ahead' = {}
    /\ outcome' = [g \in Gateways |-> "none"]
    /\ UNCHANGED <<mode, provider, cluster, changes, faults>>

-----------------------------------------------------------------------------
ByOthers ==
    \/ \E o \in Objects : CreateGateway(o) \/ DeleteGateway(o)
    \/ \E g \in Gateways :
          \/ \E c \in Contents \cup {Absent} : ChangeRules(g, c)
          \/ \E spec \in Edits : EditPolicy(g, spec)
          \/ RemovePolicy(g) \/ WriteStatus(g)

Lister ==
    \/ StartReconcile \/ Publish
    \/ \E k \in Kinds : ListKind(k) \/ ListKindFails(k)

Call == StartCall \/ EndCall \/ \E g \in Gateways : Requests(g)

Next ==
    \/ ByOthers \/ \E k \in Kinds : Inform(k)
    \/ Lister \/ TakeSnapshot \/ Call \/ FileFails \/ Restart

Spec == Init /\ [][Next]_vars

(* Informers deliver, the worker lists, calls are made and return.         *)
Fairness ==
    /\ \A k \in Kinds : WF_vars(Inform(k))
    /\ WF_vars(Lister) /\ WF_vars(TakeSnapshot) /\ WF_vars(Call)

FairSpec == Spec /\ Fairness

-----------------------------------------------------------------------------
(* Nothing is on its way to the reconcilers, and none is running.          *)
AtRest ==
    /\ \A k \in Kinds : notices[k] = <<>>
    /\ ~triggered /\ lock = "free" /\ ~taken /\ told = cache

(* Envoy Gateway's policies target their gateway alone; what Istio's       *)
(* target besides their gateway is up to others.                           *)
Right(g) ==
    IF Wanted(cluster, g)
    THEN /\ Known(cluster, g)
         /\ cluster[PolicyOf(g)].spec.rules = Desired(cluster, g)
         /\ cluster[PolicyOf(g)].spec.target \in
                IF provider = "istio" THEN {"own", "wide"} ELSE {"own"}
    ELSE Known(cluster, g) => cluster[PolicyOf(g)].spec.target = "stray"

(* Why a gateway may stay wrong: the last request for it failed, its       *)
(* policy outlived it, ...                                                 *)
Failed(g) == outcome[g] = "failed"

Orphan(g) == ~Exists(cluster, g) /\ Known(cluster, g)

(* ... the last topology it was looked up in was ahead of the events it    *)
(* came with and what it was ahead by has been undone, or the policy the   *)
(* last request created has been removed, before a snapshot was taken:     *)
(* no events, or none that a Reconcile task is called for.                 *)
Ahead(g) == g \in ahead

Undone(g) == outcome[g] = "created" /\ ~Known(cluster, g)

(* Nor is anything right that comes of a list with a kind missing, until   *)
(* there is a reason to list again.  The predicates of the watchers leave  *)
(* out resyncs, but for those of GatewayClasses, which are left out here.  *)
Misled == missed # {}

(* When the loop has come to rest, every gateway has the policy its        *)
(* effective policies make, but for these reasons: whatever the order of   *)
(* notifications, calls and writes of others, a write on stale grounds is  *)
(* followed by an event that puts it right.  In particular what somebody   *)
(* does to the rules of a policy is undone, what a failed list had the     *)
(* reconcilers do is once the kind is listed again, and Istio's policies   *)
(* keep the targets somebody gave them.                                    *)
RightAtRest ==
    AtRest /\ ~Misled =>
        \A g \in Gateways :
            Right(g) \/ Failed(g) \/ Orphan(g) \/ Ahead(g) \/ Undone(g)

(* The reconcilers do not keep themselves busy: their writes are events    *)
(* that call them again, but when nobody else changes anything, they come  *)
(* to rest.                                                                *)
Quiesces == <>[]AtRest

(* Watching by lists, no call ever removes the policy of a gateway that    *)
(* has wanted one ever since the controller started, whatever mixture of   *)
(* times its lists are of, as long as no list call for gateways or what    *)
(* gives them auth paths has failed: then it does.  A failed list of       *)
(* policies removes none.  With informers this is not so: see README.      *)
DeletesOnlyUnwanted ==
    [][mode = "state" =>
         \A g \in Gateways :
            (g \in reconciling \ reconciling' \/ g \in deleting \ deleting')
            /\ restarts' = restarts /\ Known(cluster, g) /\ ~Known(cluster', g)
                => g \in unwanted]_vars

(* The workflow as main.go describes it: "(gateway deleted) delete         *)
(* SecurityPolicy", for what the reconcilers wrote themselves.             *)
NoPolicyWithoutGateway ==
    AtRest /\ faults = 0 =>
        \A g \in Gateways : Orphan(g) =>
            cluster[PolicyOf(g)].spec.rules \notin Contents \cup {ExtAuth}
=============================================================================
