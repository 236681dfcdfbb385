---------------------------- MODULE ResourceStore ----------------------------
(***************************************************************************)
(* The value the controller keeps: a store of cluster objects by UID       *)
(* (controller/cache.go, type Store), the events that lead from one store  *)
(* to the next (controller/events.go, and the two filters of               *)
(* Controller.handleCacheEvent), and what a reconciler knows after it has  *)
(* been handed those events.                                               *)
(*                                                                         *)
(* A store is a total function from UIDs; a UID that is not a key of the   *)
(* Go map is mapped to Absent.  An object is reduced to what               *)
(* reflect.DeepEqual tells apart: a member of Contents.                    *)
(***************************************************************************)
CONSTANTS
    UIDs,      \* object UIDs, the keys of a Store
    Contents,  \* the distinguishable contents of an object
    Absent     \* "no such key", and the nil object of an event

ASSUME AbsentAssumption == Absent \notin Contents

Stores == [UIDs -> Contents \cup {Absent}]

EmptyStore == [u \in UIDs |-> Absent]

(* CacheStore.Add and CacheStore.Delete on the store they loaded.          *)
Put(store, u, obj) == [store EXCEPT ![u] = obj]

(* Mutant: the entry is deleted from the loaded copy, which is not stored. *)
RemoveFromCopyOnly(store, u) == store

Remove(store, u) == [store EXCEPT ![u] = Absent]

-----------------------------------------------------------------------------
(* The branches of the two filters in handleCacheEvent, for one UID:       *)
(* known is the handler's objs, new the store of the snapshot.             *)
IsCreated(known, new, u) == known[u] = Absent /\ new[u] # Absent

(* Mutant: objects known already are not compared.                         *)
KnownIsUnchanged(known, new, u) == FALSE

IsUpdated(known, new, u) ==
    known[u] # Absent /\ new[u] # Absent /\ known[u] # new[u]

(* Mutant: looks the object up instead of its key.                         *)
ReplacedIsDeleted(known, new, u) == known[u] # Absent /\ new[u] # known[u]

IsDeleted(known, new, u) == known[u] # Absent /\ new[u] = Absent

EventTypes == {"create", "update", "delete"}

ResourceEvents == [type : EventTypes, uid : UIDs,
                   old : Contents \cup {Absent}, new : Contents \cup {Absent}]

EventOf(t, u, old, new) == [type |-> t, uid |-> u, old |-> old, new |-> new]

(* The batch of events built from a snapshot.  The Go slice follows the    *)
(* random order of map iteration: a set.                                   *)
EventsBetween(known, new) ==
    {EventOf("create", u, Absent, new[u]) :
        u \in {v \in UIDs : IsCreated(known, new, v)}}
    \cup
    {EventOf("update", u, known[u], new[u]) :
        u \in {v \in UIDs : IsUpdated(known, new, v)}}
    \cup
    {EventOf("delete", u, known[u], Absent) :
        u \in {v \in UIDs : IsDeleted(known, new, v)}}

(* Mutant: the second loop does not delete from objs.                      *)
AbsorbKeepsDeleted(known, new) ==
    [u \in UIDs |-> IF new[u] # Absent THEN new[u] ELSE known[u]]

(* What the same loops leave in objs, entry by entry.                      *)
Absorb(known, new) ==
    [u \in UIDs |->
        IF IsCreated(known, new, u) \/ IsUpdated(known, new, u) THEN new[u]
        ELSE IF IsDeleted(known, new, u) THEN Absent
        ELSE known[u]]

-----------------------------------------------------------------------------
(* The knowledge of a reconciler that starts from store and is handed the  *)
(* events: reference definition, it uses nothing but the events.           *)
Replay(store, events) ==
    [u \in UIDs |->
        IF \E e \in events : e.uid = u
        THEN (CHOOSE e \in events : e.uid = u).new
        ELSE store[u]]

(* The events are about the store they are said to change: a creation is   *)
(* of an unknown object, an update or a deletion carries the object known, *)
(* and no object has two events.                                           *)
Describes(events, store) ==
    /\ \A e \in events :
          /\ e.old = store[e.uid]
          /\ e.type = "create" <=> store[e.uid] = Absent
          /\ e.type = "delete" <=> e.new = Absent
          /\ e.new # e.old
    /\ \A e, f \in events : e.uid = f.uid => e = f
=============================================================================
