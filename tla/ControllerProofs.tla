-------------------------- MODULE ControllerProofs ---------------------------
(***************************************************************************)
(* Proofs about Controller, for any set of UIDs, contents, kinds and any   *)
(* bounds: type correctness, the handler's invariants, the refinement of   *)
(* CoalescingFeed, and how far the cache may lag behind the cluster, for   *)
(* kinds watched incrementally and for kinds listed by Reconcile.          *)
(***************************************************************************)
EXTENDS Controller, TLAPS

(***************************************************************************)
(* The filters of handleCacheEvent.                                        *)
(***************************************************************************)

(* The two loops leave in objs exactly the store of the snapshot.          *)
LEMMA AbsorbIsNew ==
    ASSUME NEW known \in Stores, NEW new \in Stores
    PROVE  Absorb(known, new) = new
<1>1. \A u \in UIDs : Absorb(known, new)[u] = new[u]
  BY DEF Absorb, IsCreated, IsUpdated, IsDeleted, Stores
<1>2. Absorb(known, new) \in [UIDs -> Contents \cup {Absent}]
  BY DEF Absorb, Stores
<1>. QED BY <1>1, <1>2 DEF Stores

(* An event of a batch, by its UID.                                        *)
LEMMA EventsBetweenMembers ==
    ASSUME NEW known \in Stores, NEW new \in Stores,
           NEW e \in EventsBetween(known, new)
    PROVE  /\ e \in ResourceEvents
           /\ e.old = known[e.uid]
           /\ e.new = new[e.uid]
           /\ e.new # e.old
           /\ e.type = "create" <=> e.old = Absent
           /\ e.type = "delete" <=> e.new = Absent
<1>1. CASE \E u \in UIDs : /\ IsCreated(known, new, u)
                           /\ e = EventOf("create", u, Absent, new[u])
  BY <1>1 DEF IsCreated, EventOf, ResourceEvents, EventTypes, Stores
<1>2. CASE \E u \in UIDs : /\ IsUpdated(known, new, u)
                           /\ e = EventOf("update", u, known[u], new[u])
  BY <1>2 DEF IsUpdated, EventOf, ResourceEvents, EventTypes, Stores
<1>3. CASE \E u \in UIDs : /\ IsDeleted(known, new, u)
                           /\ e = EventOf("delete", u, known[u], Absent)
  BY <1>3 DEF IsDeleted, EventOf, ResourceEvents, EventTypes, Stores
<1>. QED BY <1>1, <1>2, <1>3 DEF EventsBetween

(* Every object that differs has an event.                                 *)
LEMMA EventsBetweenCovers ==
    ASSUME NEW known \in Stores, NEW new \in Stores,
           NEW u \in UIDs, known[u] # new[u]
    PROVE  \E e \in EventsBetween(known, new) : e.uid = u
<1>1. CASE IsCreated(known, new, u)
  <2>. DEFINE e == EventOf("create", u, Absent, new[u])
  <2>1. e \in EventsBetween(known, new)  BY <1>1 DEF EventsBetween
  <2>2. e.uid = u  BY DEF EventOf
  <2>. QED BY <2>1, <2>2
<1>2. CASE IsUpdated(known, new, u)
  <2>. DEFINE e == EventOf("update", u, known[u], new[u])
  <2>1. e \in EventsBetween(known, new)  BY <1>2 DEF EventsBetween
  <2>2. e.uid = u  BY DEF EventOf
  <2>. QED BY <2>1, <2>2
<1>3. CASE IsDeleted(known, new, u)
  <2>. DEFINE e == EventOf("delete", u, known[u], Absent)
  <2>1. e \in EventsBetween(known, new)  BY <1>3 DEF EventsBetween
  <2>2. e.uid = u  BY DEF EventOf
  <2>. QED BY <2>1, <2>2
<1>4. IsCreated(known, new, u) \/ IsUpdated(known, new, u)
        \/ IsDeleted(known, new, u)
  BY DEF IsCreated, IsUpdated, IsDeleted
<1>. QED BY <1>1, <1>2, <1>3, <1>4

(* An empty batch means an unchanged store.                                *)
LEMMA NoEventsNoChange ==
    ASSUME NEW known \in Stores, NEW new \in Stores,
           EventsBetween(known, new) = {}
    PROVE  known = new
<1>1. \A u \in UIDs : known[u] = new[u]  BY EventsBetweenCovers
<1>. QED BY <1>1 DEF Stores

(* A consumer that knows only the events ends with the same store as the   *)
(* handler.                                                                *)
LEMMA ReplayEventsBetween ==
    ASSUME NEW known \in Stores, NEW new \in Stores
    PROVE  Replay(known, EventsBetween(known, new)) = new
<1>. DEFINE E == EventsBetween(known, new)
            r == Replay(known, E)
<1>1. ASSUME NEW u \in UIDs  PROVE r[u] = new[u]
  <2>1. CASE \E e \in E : e.uid = u
    <3>. DEFINE c == CHOOSE e \in E : e.uid = u
    <3>1. c \in E /\ c.uid = u  BY <2>1
    <3>2. c.new = new[u]  BY <3>1, EventsBetweenMembers
    <3>3. r[u] = c.new  BY <2>1 DEF Replay
    <3>. QED BY <3>2, <3>3
  <2>2. CASE ~ \E e \in E : e.uid = u
    <3>1. known[u] = new[u]  BY <2>2, EventsBetweenCovers
    <3>2. r[u] = known[u]  BY <2>2 DEF Replay
    <3>. QED BY <3>1, <3>2
  <2>. QED BY <2>1, <2>2
<1>2. r = [u \in UIDs |-> r[u]]  BY DEF Replay
<1>3. new = [u \in UIDs |-> new[u]]  BY DEF Stores
<1>. QED BY <1>1, <1>2, <1>3

(* The batch describes the store it was computed against.                  *)
LEMMA EventsBetweenDescribes ==
    ASSUME NEW known \in Stores, NEW new \in Stores
    PROVE  Describes(EventsBetween(known, new), known)
<1>1. ASSUME NEW e \in EventsBetween(known, new),
             NEW f \in EventsBetween(known, new), e.uid = f.uid
      PROVE  e = f
  <2>1. e.old = f.old /\ e.new = f.new
    BY <1>1, EventsBetweenMembers
  <2>2. e.type = f.type
    BY <2>1, EventsBetweenMembers DEF ResourceEvents, EventTypes
  <2>. QED BY <1>1, <2>1, <2>2, EventsBetweenMembers DEF ResourceEvents
<1>. QED BY <1>1, EventsBetweenMembers DEF Describes

(***************************************************************************)
(* Type correctness.                                                       *)
(***************************************************************************)

LEMMA EmptyStoreType == EmptyStore \in Stores
BY DEF EmptyStore, Stores

(* Every variable of the controller has its type.                          *)
THEOREM TypeCorrect == Spec => []TypeOK
<1>1. Init => TypeOK
  <2>. SUFFICES ASSUME Init PROVE TypeOK
    OBVIOUS
  <2>1. feed \in [DeltaKinds -> Seq(Notifications)]
    BY DEF Init
  <2>2. received \in [state : Stores, updated : BOOLEAN]
    BY EmptyStoreType DEF Init
  <2>3. changes \in 0..MaxChanges /\ failures \in 0..MaxListFailures
    BY BoundAssumption DEF Init
  <2>. QED BY <2>1, <2>2, <2>3, EmptyStoreType DEF Init, TypeOK
<1>2. TypeOK /\ [Next]_vars => TypeOK'
  <2>. SUFFICES ASSUME TypeOK, [Next]_vars PROVE TypeOK'
    OBVIOUS
  <2>. USE DEF TypeOK, workVars, cacheVars, coalVars, handlerVars
  <2>1. ASSUME NEW u \in UIDs, NEW obj \in Contents \cup {Absent},
               Notify(u, obj)
        PROVE  /\ feed' \in [DeltaKinds -> Seq(Notifications)]
               /\ notified' \subseteq StateKinds
    <3>1. [uid |-> u, obj |-> obj] \in Notifications
      BY DEF Notifications
    <3>2. CASE KindOf[u] \in DeltaKinds /\ UNCHANGED notified
      <4>1. feed[KindOf[u]] \in Seq(Notifications)  BY <3>2
      <4>2. Append(feed[KindOf[u]], [uid |-> u, obj |-> obj])
              \in Seq(Notifications)
        BY <3>1, <4>1
      <4>. QED BY <2>1, <3>2, <4>2 DEF Notify, StateKinds
    <3>3. CASE KindOf[u] \in StateKinds /\ UNCHANGED feed
      BY <2>1, <3>3 DEF Notify, StateKinds
    <3>. QED BY <2>1, <3>2, <3>3 DEF Notify
  <2>2. ASSUME NEW u \in UIDs, NEW obj \in Contents \cup {Absent},
               ClusterChange(u, obj)
        PROVE  TypeOK'
    <3>1. cluster' \in Stores  BY <2>2 DEF ClusterChange, Stores
    <3>2. changes' \in 0..MaxChanges /\ removed' \subseteq UIDs
      BY <2>2, BoundAssumption DEF ClusterChange
    <3>3. Notify(u, obj)  BY <2>2 DEF ClusterChange
    <3>. QED BY <2>1, <2>2, <3>1, <3>2, <3>3 DEF ClusterChange
  <2>3. ASSUME NEW u \in UIDs, Resync(u) PROVE TypeOK'
    <3>1. cluster[u] \in Contents \cup {Absent}  BY DEF Stores
    <3>2. Notify(u, cluster[u])  BY <2>3 DEF Resync
    <3>. QED BY <2>1, <2>3, <3>1, <3>2 DEF Resync
  <2>4. ASSUME NEW k \in DeltaKinds, Informer(k) PROVE TypeOK'
    <3>1. feed[k] # <<>> /\ feed[k] \in Seq(Notifications)
      BY <2>4 DEF Informer, InformerPut, InformerDelete
    <3>2. Head(feed[k]) \in Notifications /\ Tail(feed[k]) \in Seq(Notifications)
      BY <3>1
    <3>3. feed' \in [DeltaKinds -> Seq(Notifications)]
      BY <2>4, <3>2 DEF Informer, InformerPut, InformerDelete
    <3>4. cache' \in Stores
      BY <2>4, <3>2 DEF Informer, InformerPut, InformerDelete, Publish, Put,
                        Remove, Stores, Notifications
    <3>. QED BY <2>4, <3>3, <3>4
         DEF Informer, InformerPut, InformerDelete, Publish
  <2>5. ASSUME NEW k \in StateKinds, Enqueue(k) PROVE TypeOK'
    BY <2>5 DEF Enqueue
  <2>6. CASE Worker
    <3>1. CASE Dequeue  BY <3>1 DEF Dequeue, clusterVars
    <3>2. CASE StartReconcile
      BY <3>2, EmptyStoreType DEF StartReconcile, clusterVars
    <3>3. CASE ReplaceStore  BY <3>3 DEF ReplaceStore, clusterVars
    <3>4. ASSUME NEW k \in StateKinds, ListKind(k) PROVE TypeOK'
      <4>1. draft' \in Stores  BY <3>4 DEF ListKind, Stores
      <4>. QED BY <3>4, <4>1 DEF ListKind, clusterVars
    <3>5. ASSUME NEW k \in StateKinds, ListKindFails(k) PROVE TypeOK'
      BY <3>5, BoundAssumption DEF ListKindFails, clusterVars
    <3>. QED BY <2>6, <3>1, <3>2, <3>3, <3>4, <3>5 DEF Worker
  <2>7. CASE Coalesce  BY <2>7 DEF Coalesce, clusterVars
  <2>8. CASE Handler
    <3>1. CASE ReceiveSnapshot  BY <3>1 DEF ReceiveSnapshot, clusterVars
    <3>2. CASE HandleNothing  BY <3>2 DEF HandleNothing, clusterVars
    <3>3. CASE HandleEvents
      <4>1. received.state \in Stores  OBVIOUS
      <4>2. events' \subseteq ResourceEvents
        BY <3>3, <4>1, EventsBetweenMembers DEF HandleEvents
      <4>3. objs' \in Stores
        BY <3>3, <4>1, AbsorbIsNew DEF HandleEvents
      <4>. QED BY <3>3, <4>2, <4>3 DEF HandleEvents, clusterVars
    <3>4. CASE ReconcileReturns
      <4>1. Replay(told, events) \in Stores
        <5>1. ASSUME NEW u \in UIDs, \E e \in events : e.uid = u
              PROVE  (CHOOSE e \in events : e.uid = u).new
                       \in Contents \cup {Absent}
          BY <5>1 DEF ResourceEvents
        <5>. QED BY <5>1 DEF Replay, Stores
      <4>. QED BY <3>4, <4>1 DEF ReconcileReturns, clusterVars
    <3>. QED BY <2>8, <3>1, <3>2, <3>3, <3>4 DEF Handler
  <2>9. CASE UNCHANGED vars  BY <2>9 DEF vars, clusterVars
  <2>. QED BY <2>2, <2>3, <2>4, <2>5, <2>6, <2>7, <2>8, <2>9 DEF Next
<1>. QED BY <1>1, <1>2, PTL DEF Spec

(***************************************************************************)
(* The pipeline.                                                           *)
(***************************************************************************)

LEMMA PipelineInit == Init => PipelineInv
BY DEF Init, PipelineInv, reconciling

(* Steps that touch none of the variables of the pipeline.                 *)
LEMMA PipelineStutter ==
    ASSUME PipelineInv, UNCHANGED <<cacheVars, coalVars, handlerVars>>,
           \/ worker' = worker
           \/ {worker, worker'} \subseteq {"idle", "waiting"}
    PROVE  PipelineInv'
BY DEF PipelineInv, cacheVars, coalVars, handlerVars, reconciling, Replay,
       Describes

LEMMA PipelineStep == TypeOK /\ PipelineInv /\ [Next]_vars => PipelineInv'
<1>. SUFFICES ASSUME TypeOK, PipelineInv, [Next]_vars PROVE PipelineInv'
  OBVIOUS
<1>1. ASSUME NEW u \in UIDs, NEW obj \in Contents \cup {Absent},
             ClusterChange(u, obj)
      PROVE  PipelineInv'
  BY <1>1, PipelineStutter DEF ClusterChange, workVars
<1>2. ASSUME NEW u \in UIDs, Resync(u) PROVE PipelineInv'
  BY <1>2, PipelineStutter DEF Resync, workVars
<1>3. ASSUME NEW k \in DeltaKinds, Informer(k) PROVE PipelineInv'
  BY <1>3 DEF PipelineInv, TypeOK, Informer, InformerPut, InformerDelete, Publish,
              workVars, coalVars, handlerVars, reconciling, Replay, Describes
<1>4. ASSUME NEW k \in StateKinds, Enqueue(k) PROVE PipelineInv'
  BY <1>4, PipelineStutter DEF Enqueue
<1>5. CASE Dequeue  BY <1>5, PipelineStutter DEF Dequeue
<1>6. CASE StartReconcile
  BY <1>6 DEF PipelineInv, TypeOK, StartReconcile, coalVars, handlerVars, reconciling,
              Replay, Describes
<1>7. CASE ReplaceStore
  BY <1>7 DEF PipelineInv, TypeOK, ReplaceStore, coalVars, handlerVars, reconciling,
              Replay, Describes
<1>8. ASSUME NEW k \in StateKinds, ListKind(k) \/ ListKindFails(k)
      PROVE  PipelineInv'
  BY <1>8, PipelineStutter DEF ListKind, ListKindFails
<1>9. CASE Coalesce
  BY <1>9 DEF PipelineInv, TypeOK, Coalesce, workVars, handlerVars, reconciling,
              Replay, Describes
<1>10. CASE ReceiveSnapshot
  BY <1>10 DEF PipelineInv, TypeOK, ReceiveSnapshot, workVars, cacheVars, reconciling
<1>11. CASE HandleNothing
  <2>1. objs = received.state
    BY <1>11, NoEventsNoChange DEF HandleNothing, PipelineInv, TypeOK
  <2>. QED BY <1>11, <2>1 DEF PipelineInv, TypeOK, HandleNothing, workVars,
              cacheVars, coalVars, reconciling
<1>12. CASE HandleEvents
  <2>1. objs \in Stores /\ received.state \in Stores  BY DEF TypeOK
  <2>2. told = objs /\ ~reconciling /\ ~sending
    BY <1>12 DEF HandleEvents, PipelineInv, reconciling
  <2>3. objs' = received.state
    BY <1>12, <2>1, AbsorbIsNew DEF HandleEvents
  <2>4. Describes(events', told)
    BY <1>12, <2>1, <2>2, EventsBetweenDescribes DEF HandleEvents
  <2>5. objs' = Replay(told, events')
    BY <1>12, <2>1, <2>2, <2>3, ReplayEventsBetween DEF HandleEvents
  <2>6. Describes(events, told)' /\ (objs = Replay(told, events))'
    BY <1>12, <2>4, <2>5 DEF HandleEvents, Replay, Describes
  <2>. QED BY <1>12, <2>2, <2>3, <2>6
           DEF PipelineInv, TypeOK, HandleEvents, workVars, coalVars, reconciling
<1>13. CASE ReconcileReturns
  BY <1>13 DEF PipelineInv, TypeOK, ReconcileReturns, workVars, coalVars,
               reconciling
<1>14. CASE UNCHANGED vars
  BY <1>14, PipelineStutter DEF vars, workVars
<1>. QED BY <1>1, <1>2, <1>3, <1>4, <1>5, <1>6, <1>7, <1>8, <1>9, <1>10,
            <1>11, <1>12, <1>13, <1>14 DEF Next, Worker, Handler

(* The mutex protects what it is meant to, and the stores along the        *)
(* pipeline differ only by what is on its way.                             *)
THEOREM PipelineHolds == Spec => []PipelineInv
BY PipelineInit, PipelineStep, TypeCorrect, PTL DEF Spec

(* A reconcile call is told events that continue what it was told before.  *)
THEOREM HistoryContinues == Spec => []EventsContinueHistory
<1>1. PipelineInv => EventsContinueHistory
  BY DEF PipelineInv, EventsContinueHistory
<1>. QED BY <1>1, PipelineHolds, PTL

(* The topology of a reconcile call is that of the cache throughout.       *)
THEOREM TopologyCurrent == Spec => []TopologyIsCurrent
<1>1. PipelineInv => TopologyIsCurrent
  BY DEF PipelineInv, TopologyIsCurrent
<1>. QED BY <1>1, PipelineHolds, PTL

(* A topology ahead of its events is followed by another snapshot.         *)
THEOREM LeadFollowedUp == Spec => []LeadIsFollowedUp
<1>1. PipelineInv => LeadIsFollowedUp
  BY DEF PipelineInv, LeadIsFollowedUp, reconciling
<1>. QED BY <1>1, PipelineHolds, PTL

(* At rest the reconcile function has been told all the cache holds.       *)
THEOREM NothingIsLost == Spec => []NothingLost
<1>1. PipelineInv => NothingLost
  BY DEF PipelineInv, NothingLost, reconciling
<1>. QED BY <1>1, PipelineHolds, PTL

(***************************************************************************)
(* Refinement of the coalescing feed.                                      *)
(***************************************************************************)

LEMMA FeedInit == Init => Feed!Init
BY DEF Init, Feed!Init, EmptyStore, Feed!EmptyStore

(* Every step of the controller is a step of the feed or a stutter.        *)
LEMMA FeedStep ==
    TypeOK /\ PipelineInv /\ [Next]_vars => [Feed!Next]_(Feed!vars)
<1>. SUFFICES ASSUME TypeOK, PipelineInv, [Next]_vars
              PROVE  Feed!Next \/ UNCHANGED Feed!vars
  OBVIOUS
<1>. USE DEF Feed!vars
<1>1. CASE UNCHANGED <<coalVars, handlerVars>>
  BY <1>1 DEF coalVars, handlerVars
<1>2. CASE Coalesce
  <2>1. cur' \in Stores  BY <1>2 DEF Coalesce, TypeOK
  <2>. QED BY <1>2, <2>1
           DEF Coalesce, handlerVars, Feed!Next, Feed!Change, Feed!Stores,
               Stores
<1>3. CASE ReceiveSnapshot
  BY <1>3 DEF ReceiveSnapshot, Feed!Next, Feed!Take
<1>4. CASE HandleNothing
  <2>1. told = received.state
    BY <1>4, NoEventsNoChange DEF HandleNothing, PipelineInv, TypeOK,
       reconciling
  <2>. QED BY <1>4, <2>1 DEF HandleNothing, coalVars, Feed!Next, Feed!Tell
<1>5. CASE HandleEvents
  BY <1>5 DEF HandleEvents, coalVars
<1>6. CASE ReconcileReturns
  <2>1. told' = received.state
    BY <1>6 DEF ReconcileReturns, PipelineInv, reconciling
  <2>. QED BY <1>6, <2>1 DEF ReconcileReturns, coalVars, Feed!Next, Feed!Tell
<1>. QED BY <1>1, <1>2, <1>3, <1>4, <1>5, <1>6
         DEF Next, Worker, Handler, ClusterChange, Resync, Informer,
             InformerPut, InformerDelete, Enqueue, Dequeue, StartReconcile,
             ReplaceStore, ListKind, ListKindFails, vars

(* The controller implements the coalescing feed: reconcile calls are told *)
(* states the cache was in, one at a time and never out of order.          *)
THEOREM ControllerImplementsFeed == Spec => ImplementsCoalescingFeed
<1>. QED BY FeedInit, FeedStep, TypeCorrect, PipelineHolds, PTL
         DEF Spec, ImplementsCoalescingFeed, Feed!Spec

(***************************************************************************)
(* The notifications of an informer.                                       *)
(***************************************************************************)

(* The notification of a change accounts for it, ...                       *)
LEMMA AppendAccounts ==
    ASSUME NEW q \in Seq(Notifications), NEW u \in UIDs, NEW c,
           NEW o \in Contents \cup {Absent}
    PROVE  AccountedFor(u, Append(q, [uid |-> u, obj |-> o]), c, o)
<1>. DEFINE n == [uid |-> u, obj |-> o]
            r == Append(q, n)
<1>1. n \in Notifications  BY DEF Notifications
<1>2. Len(r) = Len(q) + 1 /\ r[Len(q) + 1] = n  BY <1>1
<1>3. Len(r) \in 1..Len(r) /\ r[Len(r)] = n
      /\ \A j \in (Len(r) + 1)..Len(r) : r[j].uid # u
  BY <1>2
<1>. QED BY <1>3 DEF AccountedFor

(* ... and changes nothing for another object.                             *)
LEMMA AppendOther ==
    ASSUME NEW q \in Seq(Notifications), NEW n \in Notifications,
           NEW v \in UIDs, n.uid # v, NEW c, NEW o,
           AccountedFor(v, q, c, o)
    PROVE  AccountedFor(v, Append(q, n), c, o)
<1>. DEFINE r == Append(q, n)
<1>1. /\ Len(r) = Len(q) + 1
      /\ \A i \in 1..Len(q) : r[i] = q[i]
      /\ r[Len(q) + 1] = n
  OBVIOUS
<1>2. CASE c = o /\ \A i \in 1..Len(q) : q[i].uid # v
  <2>1. \A i \in 1..Len(r) : r[i].uid # v  BY <1>1, <1>2
  <2>. QED BY <1>2, <2>1 DEF AccountedFor
<1>3. ASSUME NEW i \in 1..Len(q), q[i] = [uid |-> v, obj |-> o],
             \A j \in (i + 1)..Len(q) : q[j].uid # v
      PROVE  AccountedFor(v, r, c, o)
  <2>1. i \in 1..Len(r) /\ r[i] = [uid |-> v, obj |-> o]  BY <1>1, <1>3
  <2>2. \A j \in (i + 1)..Len(r) : r[j].uid # v  BY <1>1, <1>3
  <2>. QED BY <2>1, <2>2 DEF AccountedFor
<1>. QED BY <1>2, <1>3 DEF AccountedFor

(* The handler functions take the head off the queue.                      *)
LEMMA TailFacts ==
    ASSUME NEW q \in Seq(Notifications), q # <<>>
    PROVE  /\ Tail(q) \in Seq(Notifications)
           /\ Head(q) = q[1]
           /\ Len(q) \in Nat /\ Len(q) > 0
           /\ Len(Tail(q)) = Len(q) - 1
           /\ \A i \in 1..Len(Tail(q)) : Tail(q)[i] = q[i + 1]
OBVIOUS

(* What the head brings into the cache is what it accounted for, ...       *)
LEMMA HeadStored ==
    ASSUME NEW q \in Seq(Notifications), q # <<>>, NEW c, NEW o,
           AccountedFor(Head(q).uid, q, c, o)
    PROVE  AccountedFor(Head(q).uid, Tail(q), Head(q).obj, o)
<1>. DEFINE u == Head(q).uid
            r == Tail(q)
<1>1. q[1].uid = u /\ 1 \in 1..Len(q)  BY TailFacts
<1>2. PICK i \in 1..Len(q) : /\ q[i] = [uid |-> u, obj |-> o]
                             /\ \A j \in (i + 1)..Len(q) : q[j].uid # u
  BY <1>1 DEF AccountedFor
<1>3. CASE i = 1
  <2>1. Head(q).obj = o  BY <1>2, <1>3, TailFacts
  <2>2. \A j \in 1..Len(r) : r[j].uid # u
    <3>1. \A j \in 1..Len(r) : j + 1 \in (i + 1)..Len(q) /\ r[j] = q[j + 1]
      BY <1>3, TailFacts
    <3>. QED BY <1>2, <3>1
  <2>. QED BY <2>1, <2>2 DEF AccountedFor
<1>4. CASE i # 1
  <2>1. i - 1 \in 1..Len(r) /\ r[i - 1] = q[i]  BY <1>4, TailFacts
  <2>2. \A j \in ((i - 1) + 1)..Len(r) : r[j].uid # u
    <3>1. \A j \in ((i - 1) + 1)..Len(r) :
             j + 1 \in (i + 1)..Len(q) /\ r[j] = q[j + 1]
      BY TailFacts
    <3>. QED BY <1>2, <3>1
  <2>. QED BY <1>2, <2>1, <2>2 DEF AccountedFor
<1>. QED BY <1>3, <1>4

(* ... and the other objects are accounted for by what is left.            *)
LEMMA TailOther ==
    ASSUME NEW q \in Seq(Notifications), q # <<>>,
           NEW v \in UIDs, Head(q).uid # v, NEW c, NEW o,
           AccountedFor(v, q, c, o)
    PROVE  AccountedFor(v, Tail(q), c, o)
<1>. DEFINE r == Tail(q)
<1>1. CASE c = o /\ \A i \in 1..Len(q) : q[i].uid # v
  <2>1. \A j \in 1..Len(r) : j + 1 \in 1..Len(q) /\ r[j] = q[j + 1]
    BY TailFacts
  <2>. QED BY <1>1, <2>1 DEF AccountedFor
<1>2. ASSUME NEW i \in 1..Len(q), q[i] = [uid |-> v, obj |-> o],
             \A j \in (i + 1)..Len(q) : q[j].uid # v
      PROVE  AccountedFor(v, r, c, o)
  <2>1. i # 1  BY <1>2, TailFacts
  <2>2. i - 1 \in 1..Len(r) /\ r[i - 1] = q[i]  BY <2>1, TailFacts
  <2>3. \A j \in ((i - 1) + 1)..Len(r) : r[j].uid # v
    <3>1. \A j \in ((i - 1) + 1)..Len(r) :
             j + 1 \in (i + 1)..Len(q) /\ r[j] = q[j + 1]
      BY TailFacts
    <3>. QED BY <1>2, <3>1
  <2>. QED BY <1>2, <2>2, <2>3 DEF AccountedFor
<1>. QED BY <1>1, <1>2 DEF AccountedFor

(***************************************************************************)
(* The invariant: an informer is notified of the objects of its kind only, *)
(* and without state-of-the-world runnables nothing triggers Reconcile.    *)
(***************************************************************************)
FeedOrigin ==
    \A k \in DeltaKinds : \A i \in 1..Len(feed[k]) : KindOf[feed[k][i].uid] = k

QuietWorker == StateKinds = {} => ~queued /\ worker = "idle"

WatchInv == FeedOrigin /\ QuietWorker /\ LagIsQueued /\ StaleOnlyIfTriggered

LEMMA WatchInit == Init => WatchInv
<1>. SUFFICES ASSUME Init PROVE WatchInv
  OBVIOUS
<1>1. \A k \in DeltaKinds : feed[k] = <<>>  BY DEF Init
<1>2. FeedOrigin  BY <1>1 DEF FeedOrigin
<1>3. QuietWorker  BY DEF Init, QuietWorker
<1>4. LagIsQueued
  BY <1>1, KindAssumption DEF Init, LagIsQueued, AccountedFor, StateKinds
<1>5. StaleOnlyIfTriggered
  BY DEF Init, StaleOnlyIfTriggered, Listed
<1>. QED BY <1>2, <1>3, <1>4, <1>5 DEF WatchInv

(* A notification appended to the queue of the kind's informer.            *)
LEMMA NotifyStep ==
    ASSUME TypeOK, WatchInv, NEW u \in UIDs, cluster' \in Stores,
           Notify(u, cluster'[u]), UNCHANGED cache,
           \A v \in UIDs \ {u} : cluster'[v] = cluster[v]
    PROVE  FeedOrigin' /\ LagIsQueued'
<1>. DEFINE k == KindOf[u]
            n == [uid |-> u, obj |-> cluster'[u]]
<1>1. cluster'[u] \in Contents \cup {Absent}  BY DEF Stores
<1>2. n \in Notifications  BY <1>1 DEF Notifications
<1>3. CASE k \in DeltaKinds
  <2>1. feed[k] \in Seq(Notifications)  BY <1>3 DEF TypeOK
  <2>2. feed' = [feed EXCEPT ![k] = Append(feed[k], n)]
    BY <1>3 DEF Notify, StateKinds
  <2>3. feed'[k] = Append(feed[k], n) /\ \A l \in DeltaKinds \ {k} : feed'[l] = feed[l]
    BY <1>3, <2>2 DEF TypeOK
  <2>4. FeedOrigin'
    <3>1. \A i \in 1..Len(feed'[k]) : KindOf[feed'[k][i].uid] = k
      BY <1>2, <1>3, <2>1, <2>3 DEF WatchInv, FeedOrigin
    <3>. QED BY <2>3, <3>1 DEF WatchInv, FeedOrigin
  <2>5. ASSUME StateKinds = {}, NEW v \in UIDs
        PROVE  AccountedFor(v, feed[KindOf[v]], cache[v], cluster[v])'
    <3>0. KindOf[v] \in DeltaKinds  BY <2>5, KindAssumption DEF StateKinds
    <3>1. AccountedFor(v, feed[KindOf[v]], cache[v], cluster[v])
      BY <2>5 DEF WatchInv, LagIsQueued
    <3>2. CASE v = u
      BY <1>1, <2>1, <2>3, <3>2, AppendAccounts
    <3>3. CASE v # u /\ KindOf[v] = k
      <4>1. AccountedFor(v, Append(feed[k], n), cache[v], cluster[v])
        BY <1>2, <2>1, <3>1, <3>3, AppendOther
      <4>. QED BY <2>3, <3>3, <4>1
    <3>4. CASE v # u /\ KindOf[v] # k
      BY <2>3, <3>0, <3>1, <3>4
    <3>. QED BY <3>2, <3>3, <3>4
  <2>. QED BY <2>4, <2>5 DEF LagIsQueued
<1>4. CASE k \notin DeltaKinds
  <2>1. StateKinds # {} /\ UNCHANGED feed
    BY <1>4, KindAssumption DEF Notify, StateKinds
  <2>. QED BY <2>1 DEF WatchInv, FeedOrigin, LagIsQueued
<1>. QED BY <1>3, <1>4

(* A handler function of an informer: the cache takes the head.            *)
LEMMA InformerStep ==
    ASSUME TypeOK, PipelineInv, WatchInv, NEW k \in DeltaKinds, Informer(k)
    PROVE  WatchInv'
<1>. DEFINE q == feed[k]
            h == Head(q)
<1>1. q \in Seq(Notifications) /\ q # <<>>
  BY DEF TypeOK, Informer, InformerPut, InformerDelete
<1>2. h \in Notifications /\ h.uid \in UIDs /\ h.obj \in Contents \cup {Absent}
  <2>1. h \in Notifications  BY <1>1
  <2>. QED BY <2>1 DEF Notifications
<1>3. KindOf[h.uid] = k
  BY <1>1, TailFacts DEF WatchInv, FeedOrigin
<1>4. cache' = [cache EXCEPT ![h.uid] = h.obj]
  BY DEF Informer, InformerPut, InformerDelete, Publish, Put, Remove
<1>5. feed'[k] = Tail(q) /\ \A l \in DeltaKinds \ {k} : feed'[l] = feed[l]
  BY DEF TypeOK, Informer, InformerPut, InformerDelete
<1>6. UNCHANGED <<cluster, notified, queued, worker, unlisted, draft, failures>>
  BY DEF Informer, InformerPut, InformerDelete, workVars
<1>7. FeedOrigin'
  <2>1. \A i \in 1..Len(feed'[k]) : KindOf[feed'[k][i].uid] = k
    BY <1>1, <1>5, TailFacts DEF WatchInv, FeedOrigin
  <2>. QED BY <1>5, <2>1 DEF WatchInv, FeedOrigin
<1>8. QuietWorker'
  BY <1>6 DEF WatchInv, QuietWorker
<1>9. LagIsQueued'
  <2>1. ASSUME StateKinds = {}, NEW v \in UIDs
        PROVE  AccountedFor(v, feed[KindOf[v]], cache[v], cluster[v])'
    <3>0. KindOf[v] \in DeltaKinds  BY <2>1, KindAssumption DEF StateKinds
    <3>1. AccountedFor(v, feed[KindOf[v]], cache[v], cluster[v])
      BY <2>1 DEF WatchInv, LagIsQueued
    <3>2. CASE v = h.uid
      <4>1. AccountedFor(v, Tail(q), h.obj, cluster[v])
        BY <1>1, <1>3, <3>1, <3>2, HeadStored
      <4>2. cache'[v] = h.obj  BY <1>4, <3>2 DEF TypeOK, Stores
      <4>. QED BY <1>3, <1>5, <1>6, <3>2, <4>1, <4>2
    <3>3. CASE v # h.uid
      <4>1. cache'[v] = cache[v]  BY <1>4, <3>3 DEF TypeOK, Stores
      <4>2. CASE KindOf[v] = k
        <5>1. AccountedFor(v, Tail(q), cache[v], cluster[v])
          BY <1>1, <3>1, <3>3, <4>2, TailOther
        <5>. QED BY <1>5, <1>6, <4>1, <4>2, <5>1
      <4>3. CASE KindOf[v] # k
        BY <1>5, <1>6, <3>0, <3>1, <4>1, <4>3
      <4>. QED BY <4>2, <4>3
    <3>. QED BY <3>2, <3>3
  <2>. QED BY <2>1 DEF LagIsQueued
<1>10. StaleOnlyIfTriggered'
  <2>1. \A v \in UIDs : KindOf[v] \in StateKinds => Listed(v)' = Listed(v)
    BY <1>3, <1>4, <1>6 DEF Listed, StateKinds, TypeOK, Stores
  <2>. QED BY <1>6, <2>1 DEF WatchInv, StaleOnlyIfTriggered, Triggered
<1>. QED BY <1>7, <1>8, <1>9, <1>10 DEF WatchInv

LEMMA WatchStep == TypeOK /\ PipelineInv /\ WatchInv /\ [Next]_vars => WatchInv'
<1>. SUFFICES ASSUME TypeOK, PipelineInv, WatchInv, [Next]_vars
              PROVE  WatchInv'
  OBVIOUS
<1>1. ASSUME NEW u \in UIDs, NEW obj \in Contents \cup {Absent},
             ClusterChange(u, obj)
      PROVE  WatchInv'
  <2>1. /\ cluster' \in Stores
        /\ cluster'[u] = obj
        /\ \A v \in UIDs \ {u} : cluster'[v] = cluster[v]
    BY <1>1 DEF ClusterChange, TypeOK, Stores
  <2>2. FeedOrigin' /\ LagIsQueued'
    BY <1>1, <2>1, NotifyStep DEF ClusterChange, cacheVars
  <2>3. QuietWorker'
    BY <1>1 DEF ClusterChange, workVars, WatchInv, QuietWorker
  <2>4. StaleOnlyIfTriggered'
    <3>1. KindOf[u] \in StateKinds => KindOf[u] \in notified'
      BY <1>1 DEF ClusterChange, Notify, StateKinds
    <3>2. notified \subseteq notified'
      BY <1>1 DEF ClusterChange, Notify
    <3>. QED BY <1>1, <2>1, <3>1, <3>2
         DEF ClusterChange, workVars, cacheVars, WatchInv,
             StaleOnlyIfTriggered, Listed, Triggered
  <2>. QED BY <2>2, <2>3, <2>4 DEF WatchInv
<1>2. ASSUME NEW u \in UIDs, Resync(u) PROVE WatchInv'
  <2>1. UNCHANGED <<cluster, cache>>  BY <1>2 DEF Resync, cacheVars
  <2>2. FeedOrigin' /\ LagIsQueued'
    BY <1>2, <2>1, NotifyStep DEF Resync, TypeOK
  <2>3. QuietWorker'
    BY <1>2 DEF Resync, workVars, WatchInv, QuietWorker
  <2>4. StaleOnlyIfTriggered'
    <3>1. notified \subseteq notified'
      BY <1>2 DEF Resync, Notify
    <3>. QED BY <1>2, <3>1
         DEF Resync, workVars, cacheVars, WatchInv, StaleOnlyIfTriggered,
             Listed, Triggered
  <2>. QED BY <2>2, <2>3, <2>4 DEF WatchInv
<1>3. ASSUME NEW k \in DeltaKinds, Informer(k) PROVE WatchInv'
  BY <1>3, InformerStep
<1>4. ASSUME NEW k \in StateKinds, Enqueue(k) PROVE WatchInv'
  BY <1>4 DEF Enqueue, cacheVars, WatchInv, FeedOrigin, QuietWorker,
              LagIsQueued, StaleOnlyIfTriggered, Listed, Triggered
<1>5. CASE Dequeue
  BY <1>5 DEF Dequeue, clusterVars, cacheVars, WatchInv, FeedOrigin,
              QuietWorker, LagIsQueued, StaleOnlyIfTriggered, Listed, Triggered
<1>6. CASE StartReconcile
  BY <1>6 DEF StartReconcile, clusterVars, WatchInv, FeedOrigin, QuietWorker,
              LagIsQueued, StaleOnlyIfTriggered, Listed, Triggered
<1>7. CASE ReplaceStore
  <2>1. StateKinds # {}
    BY <1>7 DEF ReplaceStore, WatchInv, QuietWorker
  <2>2. \A u \in UIDs : KindOf[u] \in StateKinds => Listed(u)' = Listed(u)
    BY <1>7 DEF ReplaceStore, Listed
  <2>. QED BY <1>7, <2>1, <2>2
       DEF ReplaceStore, clusterVars, WatchInv, FeedOrigin, QuietWorker,
           LagIsQueued, StaleOnlyIfTriggered, Triggered
<1>8. ASSUME NEW k \in StateKinds, ListKind(k) PROVE WatchInv'
  <2>1. FeedOrigin' /\ QuietWorker' /\ LagIsQueued'
    BY <1>8 DEF ListKind, clusterVars, cacheVars, WatchInv, FeedOrigin,
                QuietWorker, LagIsQueued
  <2>2. ASSUME NEW u \in UIDs, failures = 0, KindOf[u] \in StateKinds,
               Listed(u)' # cluster[u]
        PROVE  Triggered(KindOf[u])'
    <3>1. KindOf[u] # k
      BY <1>8, <2>2 DEF ListKind, Listed
    <3>2. Listed(u)' = Listed(u)
      BY <1>8, <3>1 DEF ListKind, Listed, cacheVars
    <3>3. Triggered(KindOf[u])
      BY <2>2, <3>2 DEF WatchInv, StaleOnlyIfTriggered
    <3>. QED BY <1>8, <3>1, <3>3 DEF ListKind, Triggered, clusterVars
  <2>3. StaleOnlyIfTriggered'
    BY <1>8, <2>2 DEF ListKind, clusterVars, StaleOnlyIfTriggered
  <2>. QED BY <2>1, <2>3 DEF WatchInv
<1>9. ASSUME NEW k \in StateKinds, ListKindFails(k) PROVE WatchInv'
  <2>1. failures' # 0  BY <1>9 DEF ListKindFails, TypeOK
  <2>. QED BY <1>9, <2>1
       DEF ListKindFails, clusterVars, cacheVars, WatchInv, FeedOrigin,
           QuietWorker, LagIsQueued, StaleOnlyIfTriggered
<1>10. CASE Coalesce
  <2>1. worker' # worker => worker = "publishing" /\ worker' = "idle"
    BY <1>10 DEF Coalesce, PipelineInv, TypeOK
  <2>. QED BY <1>10, <2>1
       DEF Coalesce, clusterVars, WatchInv, FeedOrigin, QuietWorker,
           LagIsQueued, StaleOnlyIfTriggered, Listed, Triggered
<1>11. CASE Handler \/ UNCHANGED vars
  <2>1. UNCHANGED <<clusterVars, workVars, cache>>
    BY <1>11 DEF Handler, ReceiveSnapshot, HandleNothing, HandleEvents,
                 ReconcileReturns, cacheVars, vars
  <2>. QED BY <2>1
       DEF clusterVars, workVars, WatchInv, FeedOrigin, QuietWorker,
           LagIsQueued, StaleOnlyIfTriggered, Listed, Triggered
<1>. QED BY <1>1, <1>2, <1>3, <1>4, <1>5, <1>6, <1>7, <1>8, <1>9, <1>10,
            <1>11 DEF Next, Worker

LEMMA WatchHolds == Spec => []WatchInv
BY WatchInit, WatchStep, TypeCorrect, PipelineHolds, PTL DEF Spec

(* With incremental runnables only, the cache lags behind the cluster      *)
(* exactly by the notifications that wait for their handler function.      *)
THEOREM LagQueued == Spec => []LagIsQueued
<1>1. WatchInv => LagIsQueued  BY DEF WatchInv
<1>. QED BY <1>1, WatchHolds, PTL

(* No change of a listed kind is forgotten: a stale cache has a trigger on *)
(* its way, as long as no list call has failed.                            *)
THEOREM StaleTriggered == Spec => []StaleOnlyIfTriggered
<1>1. WatchInv => StaleOnlyIfTriggered  BY DEF WatchInv
<1>. QED BY <1>1, WatchHolds, PTL

(***************************************************************************)
(* Deletions.  An object the cluster never dropped is present in every     *)
(* store of the pipeline from the first one it reaches: each store is      *)
(* replaced by one that is nearer to the cluster.                          *)
(***************************************************************************)
SingleMode ==
    \/ StateKinds = {}
    \/ DeltaKinds = {} /\ MaxListFailures = 0

Stays(u) ==
    /\ objs[u] # Absent => received.state[u] # Absent
    /\ received.state[u] # Absent => cur[u] # Absent
    /\ cur[u] # Absent => cache[u] # Absent
    /\ cache[u] # Absent => cluster[u] # Absent

StaysWhileListed(u) ==
    worker = "listing" =>
        /\ draft[u] # Absent => cluster[u] # Absent
        /\ cache[u] # Absent /\ KindOf[u] \notin unlisted => draft[u] # Absent

StaysWhileNotified(u) ==
    \A k \in DeltaKinds : \A i \in 1..Len(feed[k]) :
        feed[k][i].uid = u => feed[k][i].obj # Absent /\ cluster[u] # Absent

PresenceInv ==
    /\ \A u \in UIDs \ removed :
          Stays(u) /\ StaysWhileListed(u) /\ StaysWhileNotified(u)
    /\ DeletionsHappened

LEMMA PresenceInit == Init => PresenceInv
BY DEF Init, PresenceInv, Stays, StaysWhileListed, StaysWhileNotified,
       DeletionsHappened, EmptyStore

LEMMA PresenceNotify ==
    ASSUME TypeOK, PresenceInv, NEW u \in UIDs, NEW obj \in Contents \cup {Absent},
           Notify(u, obj), NEW v \in UIDs \ removed', removed \subseteq removed',
           v = u => obj # Absent,
           cluster[v] # Absent => cluster'[v] # Absent,
           v = u => cluster'[v] # Absent
    PROVE  StaysWhileNotified(v)'
<1>. DEFINE k == KindOf[u]
            n == [uid |-> u, obj |-> obj]
<1>1. StaysWhileNotified(v)  BY DEF PresenceInv
<1>2. CASE k \in DeltaKinds
  <2>1. feed[k] \in Seq(Notifications)  BY <1>2 DEF TypeOK
  <2>2. feed' = [feed EXCEPT ![k] = Append(feed[k], n)]
    BY <1>2 DEF Notify, StateKinds
  <2>3. feed'[k] = Append(feed[k], n)
        /\ \A l \in DeltaKinds \ {k} : feed'[l] = feed[l]
    BY <1>2, <2>2 DEF TypeOK
  <2>4. /\ Len(feed'[k]) = Len(feed[k]) + 1
        /\ \A i \in 1..Len(feed[k]) : feed'[k][i] = feed[k][i]
        /\ feed'[k][Len(feed[k]) + 1] = n
    BY <2>1, <2>3
  <2>5. ASSUME NEW i \in 1..Len(feed'[k]), feed'[k][i].uid = v
        PROVE  feed'[k][i].obj # Absent /\ cluster'[v] # Absent
    <3>1. CASE i \in 1..Len(feed[k])
      BY <1>1, <1>2, <2>4, <2>5, <3>1 DEF StaysWhileNotified
    <3>2. CASE i = Len(feed[k]) + 1
      BY <2>4, <2>5, <3>2
    <3>. QED BY <2>1, <2>4, <3>1, <3>2
  <2>6. ASSUME NEW l \in DeltaKinds \ {k}, NEW i \in 1..Len(feed'[l]),
               feed'[l][i].uid = v
        PROVE  feed'[l][i].obj # Absent /\ cluster'[v] # Absent
    BY <1>1, <2>3, <2>6 DEF StaysWhileNotified
  <2>. QED BY <2>5, <2>6 DEF StaysWhileNotified
<1>3. CASE k \notin DeltaKinds
  BY <1>1, <1>3 DEF Notify, StaysWhileNotified
<1>. QED BY <1>2, <1>3

LEMMA PresenceStep ==
    ASSUME SingleMode
    PROVE  TypeOK /\ PipelineInv /\ WatchInv /\ PresenceInv /\ [Next]_vars
               => PresenceInv'
<1>. SUFFICES ASSUME TypeOK, PipelineInv, WatchInv, PresenceInv, [Next]_vars
              PROVE  PresenceInv'
  OBVIOUS
<1>1. ASSUME NEW u \in UIDs, NEW obj \in Contents \cup {Absent},
             ClusterChange(u, obj)
      PROVE  PresenceInv'
  <2>1. /\ cluster'[u] = obj
        /\ \A v \in UIDs \ {u} : cluster'[v] = cluster[v]
        /\ removed \subseteq removed'
        /\ u \notin removed' => obj # Absent
    BY <1>1 DEF ClusterChange, TypeOK, Stores
  <2>2. UNCHANGED <<workVars, cacheVars, coalVars, handlerVars>>
    BY <1>1 DEF ClusterChange
  <2>3. ASSUME NEW v \in UIDs \ removed'
        PROVE  Stays(v)' /\ StaysWhileListed(v)' /\ StaysWhileNotified(v)'
    <3>1. Notify(u, obj)  BY <1>1 DEF ClusterChange
    <3>2. v \notin removed /\ (cluster[v] # Absent => cluster'[v] # Absent)
          /\ (v = u => obj # Absent /\ cluster'[v] # Absent)
      BY <2>1
    <3>3. StaysWhileNotified(v)'
      BY <2>1, <3>1, <3>2, PresenceNotify
    <3>. QED BY <2>2, <3>2, <3>3
         DEF workVars, cacheVars, coalVars, handlerVars, PresenceInv, Stays,
             StaysWhileListed
  <2>4. DeletionsHappened'
    BY <2>1, <2>2 DEF handlerVars, PresenceInv, DeletionsHappened
  <2>. QED BY <2>3, <2>4 DEF PresenceInv
<1>2. ASSUME NEW u \in UIDs, Resync(u) PROVE PresenceInv'
  <2>1. UNCHANGED <<cluster, removed, workVars, cacheVars, coalVars, handlerVars>>
    BY <1>2 DEF Resync
  <2>2. Notify(u, cluster[u]) /\ cluster[u] # Absent
        /\ cluster[u] \in Contents \cup {Absent}
    BY <1>2 DEF Resync, TypeOK, Stores
  <2>3. ASSUME NEW v \in UIDs \ removed' PROVE StaysWhileNotified(v)'
    BY <2>1, <2>2, PresenceNotify
  <2>. QED BY <2>1, <2>3
       DEF workVars, cacheVars, coalVars, handlerVars, PresenceInv, Stays,
           StaysWhileListed, DeletionsHappened
<1>3. ASSUME NEW k \in DeltaKinds, Informer(k) PROVE PresenceInv'
  <2>. DEFINE q == feed[k]
              h == Head(q)
  <2>1. q \in Seq(Notifications) /\ q # <<>>
    BY <1>3 DEF TypeOK, Informer, InformerPut, InformerDelete
  <2>2. cache' = [cache EXCEPT ![h.uid] = h.obj] /\ lock = "free"
    BY <1>3 DEF Informer, InformerPut, InformerDelete, Publish, Put, Remove
  <2>3. feed'[k] = Tail(q) /\ \A l \in DeltaKinds \ {k} : feed'[l] = feed[l]
    BY <1>3 DEF TypeOK, Informer, InformerPut, InformerDelete
  <2>4. UNCHANGED <<cluster, removed, workVars, coalVars, handlerVars>>
    BY <1>3 DEF Informer, InformerPut, InformerDelete
  <2>5. ASSUME NEW v \in UIDs \ removed'
        PROVE  Stays(v)' /\ StaysWhileListed(v)' /\ StaysWhileNotified(v)'
    <3>1. v \notin removed  BY <2>4
    <3>2. Stays(v) /\ StaysWhileListed(v) /\ StaysWhileNotified(v)
      BY <3>1 DEF PresenceInv
    <3>3. h.uid = v => h.obj # Absent /\ cluster[v] # Absent
      BY <2>1, <3>2, TailFacts DEF StaysWhileNotified
    <3>4. Stays(v)'
      BY <2>2, <2>4, <3>2, <3>3
      DEF Stays, coalVars, handlerVars, TypeOK, Stores
    <3>5. StaysWhileListed(v)'
      BY <2>2, <2>4 DEF StaysWhileListed, workVars, PipelineInv
    <3>6. StaysWhileNotified(v)'
      <4>1. ASSUME NEW i \in 1..Len(Tail(q)), Tail(q)[i].uid = v
            PROVE  Tail(q)[i].obj # Absent /\ cluster[v] # Absent
        <5>1. i + 1 \in 1..Len(q) /\ Tail(q)[i] = q[i + 1]
          BY <2>1, TailFacts
        <5>. QED BY <3>2, <4>1, <5>1 DEF StaysWhileNotified
      <4>2. UNCHANGED cluster  BY <2>4
      <4>. QED BY <2>3, <3>2, <4>1, <4>2 DEF StaysWhileNotified
    <3>. QED BY <3>4, <3>5, <3>6
  <2>. QED BY <2>4, <2>5 DEF PresenceInv, DeletionsHappened, handlerVars
<1>4. ASSUME NEW k \in StateKinds, Enqueue(k) PROVE PresenceInv'
  BY <1>4 DEF Enqueue, cacheVars, coalVars, handlerVars, PresenceInv, Stays,
              StaysWhileListed, StaysWhileNotified, DeletionsHappened
<1>5. CASE Dequeue
  BY <1>5 DEF Dequeue, clusterVars, cacheVars, coalVars, handlerVars,
              PresenceInv, Stays, StaysWhileListed, StaysWhileNotified,
              DeletionsHappened
<1>6. CASE StartReconcile
  <2>1. SingleMode /\ StateKinds # {}
    BY <1>6 DEF StartReconcile, WatchInv, QuietWorker
  <2>2. \A v \in UIDs : KindOf[v] \in unlisted' /\ draft'[v] = Absent
    BY <1>6, <2>1, KindAssumption
    DEF StartReconcile, SingleMode, StateKinds, EmptyStore
  <2>. QED BY <1>6, <2>2
       DEF StartReconcile, clusterVars, coalVars, handlerVars, PresenceInv,
           Stays, StaysWhileListed, StaysWhileNotified, DeletionsHappened
<1>7. CASE ReplaceStore
  <2>1. \A v \in UIDs : KindOf[v] \notin unlisted
    BY <1>7 DEF ReplaceStore
  <2>2. cur = cache  BY <1>7 DEF ReplaceStore, PipelineInv
  <2>. QED BY <1>7, <2>1, <2>2
       DEF ReplaceStore, clusterVars, coalVars, handlerVars, PresenceInv,
           Stays, StaysWhileListed, StaysWhileNotified, DeletionsHappened
<1>8. ASSUME NEW k \in StateKinds, ListKind(k) PROVE PresenceInv'
  <2>1. UNCHANGED <<clusterVars, worker, cacheVars, coalVars, handlerVars>>
    BY <1>8 DEF ListKind
  <2>2. ASSUME NEW v \in UIDs \ removed PROVE StaysWhileListed(v)'
    <3>1. Stays(v) /\ StaysWhileListed(v)  BY <2>2 DEF PresenceInv
    <3>2. draft'[v] = IF KindOf[v] = k THEN cluster[v] ELSE draft[v]
      BY <1>8 DEF ListKind
    <3>. QED BY <1>8, <2>1, <3>1, <3>2
         DEF ListKind, Stays, StaysWhileListed, clusterVars, cacheVars
  <2>. QED BY <2>1, <2>2
       DEF clusterVars, cacheVars, coalVars, handlerVars, PresenceInv, Stays,
           StaysWhileNotified, DeletionsHappened
<1>9. ASSUME NEW k \in StateKinds, ListKindFails(k) PROVE PresenceInv'
  <2>1. MaxListFailures = 0
    BY DEF SingleMode
  <2>. QED BY <1>9, <2>1 DEF ListKindFails, TypeOK
<1>10. CASE Coalesce
  <2>1. UNCHANGED <<clusterVars, draft, unlisted, cache, handlerVars>>
        /\ cur' = cache /\ (worker' = "listing" => worker = "listing")
    BY <1>10 DEF Coalesce
  <2>. QED BY <2>1
       DEF clusterVars, handlerVars, PresenceInv, Stays, StaysWhileListed,
           StaysWhileNotified, DeletionsHappened
<1>11. CASE ReceiveSnapshot
  BY <1>11 DEF ReceiveSnapshot, clusterVars, workVars, cacheVars, PresenceInv,
               Stays, StaysWhileListed, StaysWhileNotified, DeletionsHappened
<1>12. CASE HandleEvents
  <2>1. objs \in Stores /\ received.state \in Stores  BY DEF TypeOK
  <2>2. objs' = received.state
    BY <1>12, <2>1, AbsorbIsNew DEF HandleEvents
  <2>3. DeletionsHappened'
    <3>1. ASSUME NEW e \in events', e.type = "delete" PROVE e.uid \in removed
      <4>1. e \in EventsBetween(objs, received.state)
        BY <1>12, <3>1 DEF HandleEvents
      <4>2. e.uid \in UIDs /\ objs[e.uid] # Absent
            /\ received.state[e.uid] = Absent
        BY <2>1, <3>1, <4>1, EventsBetweenMembers DEF ResourceEvents
      <4>. QED BY <4>2 DEF PresenceInv, Stays
    <3>. QED BY <1>12, <3>1 DEF HandleEvents, clusterVars, DeletionsHappened
  <2>. QED BY <1>12, <2>2, <2>3
       DEF HandleEvents, clusterVars, workVars, coalVars, PresenceInv, Stays,
           StaysWhileListed, StaysWhileNotified
<1>13. CASE HandleNothing \/ UNCHANGED vars
  <2>1. UNCHANGED <<clusterVars, workVars, cacheVars, coalVars, received, objs,
                    events>>
    BY <1>13 DEF HandleNothing, vars, handlerVars
  <2>. QED BY <2>1
       DEF clusterVars, workVars, cacheVars, coalVars, PresenceInv, Stays,
           StaysWhileListed, StaysWhileNotified, DeletionsHappened
<1>14. CASE ReconcileReturns
  BY <1>14 DEF ReconcileReturns, clusterVars, workVars, coalVars, PresenceInv,
               Stays, StaysWhileListed, StaysWhileNotified, DeletionsHappened
<1>. QED BY <1>1, <1>2, <1>3, <1>4, <1>5, <1>6, <1>7, <1>8, <1>9, <1>10,
            <1>11, <1>12, <1>13, <1>14 DEF Next, Worker, Handler

(* A reconcile call is told of a deletion only if the object was deleted,  *)
(* provided the controller does not mix the two kinds of runnables and no  *)
(* list call fails.                                                        *)
THEOREM DeletionsAreReal ==
    ASSUME SingleMode
    PROVE  Spec => []DeletionsHappened
<1>1. PresenceInv => DeletionsHappened  BY DEF PresenceInv
<1>. QED BY <1>1, PresenceInit, PresenceStep, TypeCorrect, PipelineHolds,
            WatchHolds, PTL DEF Spec
=============================================================================
