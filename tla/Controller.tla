----------------------------- MODULE Controller ------------------------------
(***************************************************************************)
(* The reconciliation pipeline of controller/controller.go and its cache:  *)
(*                                                                         *)
(*   cluster --watch--> informers --add/update/delete--+                   *)
(*      |                                              v                   *)
(*      +--watch--> workqueue --> Reconcile: list --> cache                *)
(*                                                     |  watchable.Map    *)
(*                                                     v                   *)
(*   reconcile func <-- propagate <-- handleCacheEvent <-- snapshot        *)
(*                                                                         *)
(* Goroutines: one informer per kind watched incrementally, the single     *)
(* worker of controller-runtime, the coalescing goroutine of               *)
(* watchable.Map and the goroutine that handles the subscription.  The     *)
(* informers, the worker and the handler share the mutex of Controller.    *)
(*                                                                         *)
(* The model starts right after Controller.subscribe: the resource store   *)
(* exists, is empty and is subscribed to.  Objects that exist before the   *)
(* controller starts are changes of the cluster like any other.            *)
(***************************************************************************)
EXTENDS ResourceStore, Naturals, Sequences

CONSTANTS
    Kinds,           \* the resource kinds watched, one runnable each
    KindOf,          \* the kind of each UID
    DeltaKinds,      \* kinds watched by an IncrementalInformer; a
                     \* stateReconciler watches the others
    ResyncKinds,     \* kinds whose predicates let a resync through (not so
                     \* with GenerationChangedPredicate)
    MaxChanges,      \* bound: changes of the cluster in a behaviour
    MaxListFailures  \* bound: failed List calls in a behaviour

ASSUME KindAssumption ==
    /\ KindOf \in [UIDs -> Kinds]
    /\ DeltaKinds \subseteq Kinds
    /\ ResyncKinds \subseteq Kinds

ASSUME BoundAssumption == MaxChanges \in Nat /\ MaxListFailures \in Nat

StateKinds == Kinds \ DeltaKinds

VARIABLES
    cluster,   \* the API server's objects
    changes,   \* number of changes of the cluster so far
    removed,   \* history: the UIDs the cluster has ever dropped
    feed,      \* per incremental kind, notifications its handler has not run
    notified,  \* other kinds with a change the manager has not enqueued
    queued,    \* the work queue holds its only key
    worker,    \* the worker: "idle", "waiting" for the mutex, "listing",
               \* or "publishing" what it listed
    unlisted,  \* kinds the running Reconcile has still to list
    draft,     \* the store the running Reconcile is filling
    failures,  \* number of failed List calls so far
    lock,      \* owner of the mutex of Controller
    cache,     \* the resource store in CacheStore
    sending,   \* the owner is blocked in Map.Store, handing over the cache
    cur,       \* the coalescing goroutine's copy of the store
    snapshot,  \* what it offers downstream: "none", "initial" (the state it
               \* subscribed to, no updates) or "updated"; the state is cur
    handler,   \* the handler: "ranging", "waiting" for the mutex with a
               \* snapshot in hand, or "reconciling"
    received,  \* the last snapshot: its state, and whether it had updates
    objs,      \* the handler's objs, the base of the next diff
    events,    \* events handed to the running reconcile function
    topology,  \* store the last topology handed over was built from
    told       \* history: what completed reconcile calls were told in all

clusterVars == <<cluster, changes, removed, feed, notified>>
workVars    == <<queued, worker, unlisted, draft, failures>>
cacheVars   == <<lock, cache, sending>>
coalVars    == <<cur, snapshot>>
handlerVars == <<handler, received, objs, events, topology, told>>

vars == <<clusterVars, workVars, cacheVars, coalVars, handlerVars>>

Notifications == [uid : UIDs, obj : Contents \cup {Absent}]

TypeOK ==
    /\ cluster \in Stores
    /\ changes \in 0..MaxChanges
    /\ removed \subseteq UIDs
    /\ feed \in [DeltaKinds -> Seq(Notifications)]
    /\ notified \subseteq StateKinds
    /\ queued \in BOOLEAN
    /\ worker \in {"idle", "waiting", "listing", "publishing"}
    /\ unlisted \subseteq StateKinds
    /\ draft \in Stores
    /\ failures \in 0..MaxListFailures
    /\ lock \in {"free", "informer", "worker", "handler"}
    /\ cache \in Stores
    /\ sending \in BOOLEAN
    /\ cur \in Stores
    /\ snapshot \in {"none", "initial", "updated"}
    /\ handler \in {"ranging", "waiting", "reconciling"}
    /\ received \in [state : Stores, updated : BOOLEAN]
    /\ objs \in Stores
    /\ events \subseteq ResourceEvents
    /\ topology \in Stores
    /\ told \in Stores

Init ==
    /\ cluster = EmptyStore
    /\ changes = 0
    /\ removed = {}
    /\ feed = [k \in DeltaKinds |-> <<>>]
    /\ notified = {}
    /\ queued = FALSE
    /\ worker = "idle"
    /\ unlisted = {}
    /\ draft = EmptyStore
    /\ failures = 0
    /\ lock = "free"
    /\ cache = EmptyStore
    /\ sending = FALSE
    /\ cur = EmptyStore
    /\ snapshot = "initial"
    /\ handler = "ranging"
    /\ received = [state |-> EmptyStore, updated |-> FALSE]
    /\ objs = EmptyStore
    /\ events = {}
    /\ topology = EmptyStore
    /\ told = EmptyStore

-----------------------------------------------------------------------------
(* A watch event reaches the informer of the kind, whose handler functions *)
(* it will call in order, or the manager's source.                         *)
Notify(u, obj) ==
    LET k == KindOf[u] IN
    \/ /\ k \in DeltaKinds
       /\ feed' = [feed EXCEPT ![k] = Append(@, [uid |-> u, obj |-> obj])]
       /\ UNCHANGED notified
    \/ /\ k \in StateKinds
       /\ notified' = notified \cup {k}
       /\ UNCHANGED feed

(* The environment: users and other controllers change the cluster.  An    *)
(* object may come back with its UID: that is how a label or field         *)
(* selector of the runnable shows it.                                      *)
ClusterChange(u, obj) ==
    /\ changes < MaxChanges
    /\ cluster[u] # obj
    /\ changes' = changes + 1
    /\ cluster' = [cluster EXCEPT ![u] = obj]
    /\ removed' = IF obj = Absent THEN removed \cup {u} ELSE removed
    /\ Notify(u, obj)
    /\ UNCHANGED <<workVars, cacheVars, coalVars, handlerVars>>

(* The resync of the informer (ten minutes) or of the manager's cache      *)
(* reports an object again.  Bound: not while a notification for it is     *)
(* pending.                                                                *)
Resync(u) ==
    /\ KindOf[u] \in ResyncKinds
    /\ cluster[u] # Absent
    /\ KindOf[u] \in DeltaKinds =>
          \A i \in 1..Len(feed[KindOf[u]]) : feed[KindOf[u]][i].uid # u
    /\ Notify(u, cluster[u])
    /\ UNCHANGED <<cluster, changes, removed, workVars, cacheVars, coalVars,
                   handlerVars>>

-----------------------------------------------------------------------------
(* Incremental runnables.  The handler functions of the informer call      *)
(* Controller.add, update or delete: lock, change the store, publish it.   *)
(* Map.Store hands the new store to the coalescing goroutine on an         *)
(* unbuffered channel; the mutex is released when it has been received.    *)
(* Mutant: the mutex is not waited for.                                    *)
PublishUnlocked(owner, store) ==
    /\ lock' = owner
    /\ cache' = store
    /\ sending' = TRUE

Publish(owner, store) ==
    /\ lock = "free"
    /\ lock' = owner
    /\ cache' = store
    /\ sending' = TRUE

(* AddFunc and UpdateFunc: both end in CacheStore.Add.                     *)
InformerPut(k) ==
    /\ feed[k] # <<>>
    /\ Head(feed[k]).obj # Absent
    /\ Publish("informer", Put(cache, Head(feed[k]).uid, Head(feed[k]).obj))
    /\ feed' = [feed EXCEPT ![k] = Tail(@)]
    /\ UNCHANGED <<cluster, changes, removed, notified, workVars, coalVars, handlerVars>>

(* DeleteFunc.                                                             *)
InformerDelete(k) ==
    /\ feed[k] # <<>>
    /\ Head(feed[k]).obj = Absent
    /\ Publish("informer", Remove(cache, Head(feed[k]).uid))
    /\ feed' = [feed EXCEPT ![k] = Tail(@)]
    /\ UNCHANGED <<cluster, changes, removed, notified, workVars, coalVars, handlerVars>>

-----------------------------------------------------------------------------
(* State-of-the-world runnables.  Every watch event maps to the same empty *)
(* request, so the work queue holds at most one key.                       *)
(* Mutant: events that arrive while the worker is busy are dropped.        *)
EnqueueIfIdle(k) ==
    /\ k \in notified
    /\ notified' = notified \ {k}
    /\ queued' = (queued \/ worker = "idle")
    /\ UNCHANGED <<cluster, changes, removed, feed, worker, unlisted, draft,
                   failures, cacheVars, coalVars, handlerVars>>

Enqueue(k) ==
    /\ k \in notified
    /\ notified' = notified \ {k}
    /\ queued' = TRUE
    /\ UNCHANGED <<cluster, changes, removed, feed, worker, unlisted, draft,
                   failures, cacheVars, coalVars, handlerVars>>

(* The only worker takes the key; a key added from here on stays queued.   *)
Dequeue ==
    /\ queued /\ worker = "idle"
    /\ queued' = FALSE
    /\ worker' = "waiting"
    /\ UNCHANGED <<clusterVars, unlisted, draft, failures, cacheVars, coalVars,
                   handlerVars>>

(* Controller.Reconcile, from c.Lock() to the first list call.             *)
StartReconcile ==
    /\ worker = "waiting" /\ lock = "free"
    /\ lock' = "worker"
    /\ worker' = "listing"
    /\ unlisted' = StateKinds
    /\ draft' = EmptyStore
    /\ UNCHANGED <<clusterVars, queued, failures, cache, sending, coalVars,
                   handlerVars>>

(* One list function: a call to the API server, the objects of the kind as *)
(* they are now.  The order of the functions is that in which goroutines   *)
(* registered them: any.                                                   *)
(* Mutant: the store is made anew for each list function.                  *)
ListOnlyKind(k) ==
    /\ lock = "worker" /\ worker = "listing" /\ k \in unlisted
    /\ unlisted' = unlisted \ {k}
    /\ draft' = [u \in UIDs |-> IF KindOf[u] = k THEN cluster[u] ELSE Absent]
    /\ UNCHANGED <<clusterVars, queued, worker, failures, cacheVars, coalVars,
                   handlerVars>>

ListKind(k) ==
    /\ lock = "worker" /\ worker = "listing" /\ k \in unlisted
    /\ unlisted' = unlisted \ {k}
    /\ draft' = [u \in UIDs |-> IF KindOf[u] = k THEN cluster[u] ELSE draft[u]]
    /\ UNCHANGED <<clusterVars, queued, worker, failures, cacheVars, coalVars,
                   handlerVars>>

(* A list function whose call failed logs the error and returns nil: it    *)
(* adds nothing to the store, and Reconcile goes on.                       *)
ListKindFails(k) ==
    /\ lock = "worker" /\ worker = "listing" /\ k \in unlisted
    /\ failures < MaxListFailures
    /\ failures' = failures + 1
    /\ unlisted' = unlisted \ {k}
    /\ UNCHANGED <<clusterVars, queued, worker, draft, cacheVars, coalVars,
                   handlerVars>>

(* CacheStore.Replace with what was listed, whatever the runnable of the   *)
(* objects it replaces.                                                    *)
(* Mutant: the end of a run forgets a key queued during it.                *)
ReplaceStoreAndForget ==
    /\ lock = "worker" /\ worker = "listing" /\ unlisted = {}
    /\ cache' = draft
    /\ sending' = TRUE
    /\ worker' = "publishing"
    /\ queued' = FALSE
    /\ UNCHANGED <<clusterVars, unlisted, draft, failures, lock, coalVars,
                   handlerVars>>

ReplaceStore ==
    /\ lock = "worker" /\ worker = "listing" /\ unlisted = {}
    /\ cache' = draft
    /\ sending' = TRUE
    /\ worker' = "publishing"
    /\ UNCHANGED <<clusterVars, queued, unlisted, draft, failures, lock,
                   coalVars, handlerVars>>

-----------------------------------------------------------------------------
(* watchable.Map.  The coalescing goroutine receives the published store;  *)
(* an update equal to what it has (Store.Equal) is dropped, another one    *)
(* joins the snapshot on offer.  The publisher unlocks and returns.        *)
(* Mutants: a dropped update does not release the mutex; an update is      *)
(* dropped while the consumer is busy.                                     *)
CoalesceKeepsMutex ==
    /\ sending
    /\ sending' = FALSE
    /\ lock' = IF cur = cache THEN lock ELSE "free"
    /\ cur' = cache
    /\ snapshot' = IF cur = cache THEN snapshot ELSE "updated"
    /\ worker' = IF lock = "worker" THEN "idle" ELSE worker
    /\ UNCHANGED <<clusterVars, queued, unlisted, draft, failures, cache,
                   handlerVars>>

CoalesceIfConsumerFree ==
    /\ sending
    /\ sending' = FALSE
    /\ lock' = "free"
    /\ cur' = cache
    /\ snapshot' = IF cur = cache \/ handler # "ranging" THEN snapshot
                   ELSE "updated"
    /\ worker' = IF lock = "worker" THEN "idle" ELSE worker
    /\ UNCHANGED <<clusterVars, queued, unlisted, draft, failures, cache,
                   handlerVars>>

Coalesce ==
    /\ sending
    /\ sending' = FALSE
    /\ lock' = "free"
    /\ cur' = cache
    /\ snapshot' = IF cur = cache THEN snapshot ELSE "updated"
    /\ worker' = IF lock = "worker" THEN "idle" ELSE worker
    /\ UNCHANGED <<clusterVars, queued, unlisted, draft, failures, cache,
                   handlerVars>>

(* The handler's range loop receives the snapshot on offer.                *)
ReceiveSnapshot ==
    /\ handler = "ranging" /\ snapshot # "none"
    /\ handler' = "waiting"
    /\ received' = [state |-> cur, updated |-> snapshot = "updated"]
    /\ snapshot' = "none"
    /\ UNCHANGED <<clusterVars, workVars, cacheVars, cur, objs, events,
                   topology, told>>

-----------------------------------------------------------------------------
(* Controller.handleCacheEvent.  A snapshot without updates, or whose      *)
(* state is what the handler knows already, ends there.                    *)
(* Mutant: compares the keys only.                                         *)
HandleSameKeys ==
    /\ handler = "waiting" /\ lock = "free"
    /\ \/ ~received.updated
       \/ \A u \in UIDs : objs[u] = Absent <=> received.state[u] = Absent
    /\ handler' = "ranging"
    /\ UNCHANGED <<clusterVars, workVars, cacheVars, coalVars, received, objs,
                   events, topology, told>>

HandleNothing ==
    /\ handler = "waiting" /\ lock = "free"
    /\ \/ ~received.updated
       \/ EventsBetween(objs, received.state) = {}
    /\ handler' = "ranging"
    /\ UNCHANGED <<clusterVars, workVars, cacheVars, coalVars, received, objs,
                   events, topology, told>>

(* Otherwise propagateLocked: the topology is built from the cache, not    *)
(* from the snapshot, and the reconcile function is called with the lock   *)
(* held.                                                                   *)
(* Mutants: the mutex is released before the reconcile function is called; *)
(* the events are those of the cache instead of the snapshot.              *)
HandleEventsUnlocked ==
    /\ handler = "waiting" /\ lock = "free"
    /\ received.updated
    /\ EventsBetween(objs, received.state) # {}
    /\ handler' = "reconciling"
    /\ events' = EventsBetween(objs, received.state)
    /\ objs' = Absorb(objs, received.state)
    /\ topology' = cache
    /\ UNCHANGED <<clusterVars, workVars, cacheVars, coalVars, received, told>>

HandleEventsOfCache ==
    /\ handler = "waiting" /\ lock = "free"
    /\ received.updated
    /\ EventsBetween(objs, cache) # {}
    /\ lock' = "handler"
    /\ handler' = "reconciling"
    /\ events' = EventsBetween(objs, cache)
    /\ objs' = Absorb(objs, cache)
    /\ topology' = cache
    /\ UNCHANGED <<clusterVars, workVars, cache, sending, coalVars, received,
                   told>>

HandleEvents ==
    /\ handler = "waiting" /\ lock = "free"
    /\ received.updated
    /\ EventsBetween(objs, received.state) # {}
    /\ lock' = "handler"
    /\ handler' = "reconciling"
    /\ events' = EventsBetween(objs, received.state)
    /\ objs' = Absorb(objs, received.state)
    /\ topology' = cache
    /\ UNCHANGED <<clusterVars, workVars, cache, sending, coalVars, received,
                   told>>

(* The reconcile function returns.  An error is logged, nothing is retried.*)
ReconcileReturns ==
    /\ handler = "reconciling"
    /\ lock' = "free"
    /\ handler' = "ranging"
    /\ told' = Replay(told, events)
    /\ events' = {}
    /\ UNCHANGED <<clusterVars, workVars, cache, sending, coalVars, received,
                   objs, topology>>

-----------------------------------------------------------------------------
Informer(k) == InformerPut(k) \/ InformerDelete(k)

Worker ==
    \/ Dequeue \/ StartReconcile \/ ReplaceStore
    \/ \E k \in StateKinds : ListKind(k) \/ ListKindFails(k)

Handler == ReceiveSnapshot \/ HandleNothing \/ HandleEvents \/ ReconcileReturns

Next ==
    \/ \E u \in UIDs, obj \in Contents \cup {Absent} : ClusterChange(u, obj)
    \/ \E u \in UIDs : Resync(u)
    \/ \E k \in DeltaKinds : Informer(k)
    \/ \E k \in StateKinds : Enqueue(k)
    \/ Worker
    \/ Coalesce
    \/ Handler

(* Every goroutine that can run does, watch events are delivered, the      *)
(* reconcile function returns, and the resync timers fire.  A goroutine    *)
(* that waits for the mutex gets it: sync.Mutex hands it over to a waiter  *)
(* that has been starved for a millisecond, hence strong fairness.         *)
(* Changes of the cluster owe nothing.                                     *)
Fairness ==
    /\ \A u \in UIDs : WF_vars(Resync(u))
    /\ \A k \in StateKinds : WF_vars(Enqueue(k))
    /\ \A k \in DeltaKinds : SF_vars(Informer(k))
    /\ SF_vars(StartReconcile) /\ WF_vars(Worker)
    /\ SF_vars(HandleNothing \/ HandleEvents) /\ WF_vars(Handler)
    /\ WF_vars(Coalesce)

Spec == Init /\ [][Next]_vars

FairSpec == Spec /\ Fairness

-----------------------------------------------------------------------------
(* Safety.                                                                 *)

reconciling == handler = "reconciling"

(* Who holds the mutex, and what the stores along the pipeline have to do  *)
(* with one another: the coalescing goroutine lags behind the cache only   *)
(* by the store being handed over, the handler's objs behind the last      *)
(* snapshot only while it waits, the consumer behind objs only by the      *)
(* events of the running call.  Inductive; the other properties of the     *)
(* handler follow from it.                                                 *)
PipelineInv ==
    /\ sending <=> lock = "informer" \/ worker = "publishing"
    /\ ~sending => cur = cache
    /\ lock = "handler" <=> reconciling
    /\ lock = "worker" <=> worker \in {"listing", "publishing"}
    /\ snapshot # "updated" => cur = received.state
    /\ handler = "waiting" /\ ~received.updated => objs = received.state
    /\ handler # "waiting" => objs = received.state
    /\ reconciling => /\ topology = cache
                      /\ objs = Replay(told, events)
                      /\ Describes(events, told)
    /\ ~reconciling => events = {} /\ told = objs

(* The events of a reconcile call continue the history of the earlier      *)
(* ones: an object is created only if the calls so far left it unknown,    *)
(* updated or deleted only as they left it, whatever snapshots were        *)
(* coalesced meanwhile (handleCacheEvent diffs against objs, not against   *)
(* snapshot.Updates).                                                      *)
EventsContinueHistory == reconciling => Describes(events, told)

(* While the reconcile function runs, the topology it holds is that of the *)
(* cache: propagateLocked builds it, and calls the function, without       *)
(* letting an informer or Reconcile in between.                            *)
TopologyIsCurrent == reconciling => topology = cache

(* The topology is built from the cache and may be ahead of the events it  *)
(* comes with; then a further snapshot is on offer, so handleCacheEvent    *)
(* runs again after this call.                                             *)
LeadIsFollowedUp ==
    reconciling /\ topology # Replay(told, events) => snapshot = "updated"

(* A reconcile call reports a deletion only of an object that was deleted  *)
(* from the cluster.  Holds as long as all kinds are watched in one mode   *)
(* and no list call fails: Reconcile replaces the store by what it listed, *)
(* and with it the objects of incremental kinds and of failed lists.       *)
DeletionsHappened == \A e \in events : e.type = "delete" => e.uid \in removed

(* At rest, nothing stored in the cache has escaped the reconcile          *)
(* function: dropped and coalesced updates leave no gap.                   *)
NothingLost ==
    handler = "ranging" /\ snapshot = "none" /\ ~sending => told = cache

(* Incremental kinds: the cache differs from the cluster only by           *)
(* notifications on their way, applied in order; stated for controllers    *)
(* with incremental runnables only, since Reconcile replaces the store.    *)
AccountedFor(u, q, stored, actual) ==
    \/ /\ stored = actual
       /\ \A i \in 1..Len(q) : q[i].uid # u
    \/ \E i \in 1..Len(q) :
          /\ q[i] = [uid |-> u, obj |-> actual]
          /\ \A j \in (i + 1)..Len(q) : q[j].uid # u

LagIsQueued ==
    StateKinds = {} =>
        \A u \in UIDs : AccountedFor(u, feed[KindOf[u]], cache[u], cluster[u])

(* State-of-the-world kinds: what Reconcile last listed is out of date     *)
(* only if a trigger is on its way: the event, the key in the work queue,  *)
(* or a run of Reconcile that has yet to list the kind.  In particular a   *)
(* change made between the list call of its kind and the end of the run    *)
(* is not forgotten.                                                       *)
Listed(u) ==
    IF worker = "listing" /\ KindOf[u] \notin unlisted
    THEN draft[u] ELSE cache[u]

Triggered(k) ==
    \/ k \in notified
    \/ queued
    \/ worker = "waiting"
    \/ worker = "listing" /\ k \in unlisted

StaleOnlyIfTriggered ==
    failures = 0 =>
        \A u \in UIDs : KindOf[u] \in StateKinds /\ Listed(u) # cluster[u]
                            => Triggered(KindOf[u])

(* The subscription implements the coalescing feed: a state is in the      *)
(* consumer's hands from ReceiveSnapshot to the end of handleCacheEvent,   *)
(* and what it is told is what the events of reconcile calls say.          *)
Feed == INSTANCE CoalescingFeed WITH
            world <- cur,
            taken <- handler # "ranging",
            state <- received.state,
            told  <- told

ImplementsCoalescingFeed == Feed!Spec

-----------------------------------------------------------------------------
(* Liveness.                                                               *)

(* When the cluster stops changing, the events of the reconcile calls add  *)
(* up to the objects of the cluster.                                       *)
Converges == <>[](told = cluster)

(* Whoever takes the mutex of Controller releases it: the publisher whose  *)
(* store the coalescing goroutine has to take, the worker, the handler.    *)
MutexReleased == lock # "free" ~> lock = "free"
=============================================================================
