--------------------------- MODULE LifecycleProofs ---------------------------
(***************************************************************************)
(* Proofs about Lifecycle, for any set of runnables: the manager is handed *)
(* the watches of all of them.                                             *)
(***************************************************************************)
EXTENDS Lifecycle, TLAPS

(* Every variable has its type; in particular only reconcilers register,   *)
(* and only what is registered is watched.                                 *)
LEMMA TypeStep == TypeOK /\ [Next]_vars => TypeOK'
<1>. SUFFICES ASSUME TypeOK, [Next]_vars PROVE TypeOK'
  OBVIOUS
<1>. USE DEF TypeOK, Reconcilers, config
<1>1. CASE StartRunnables  BY <1>1 DEF StartRunnables
<1>2. ASSUME NEW r \in Runnables, SeeSynced(r) \/ Register(r) \/ InformerSyncs(r)
      PROVE  TypeOK'
  BY <1>2 DEF SeeSynced, Register, InformerSyncs
<1>3. CASE StartManager \/ StartManagerFails \/ ManagerReturns
  BY <1>3 DEF StartManager, StartManagerFails, ManagerReturns
<1>4. CASE KeepAlive \/ StopWhenCancelled \/ Cancel
  BY <1>4 DEF KeepAlive, StopWhenCancelled, Cancel
<1>5. CASE UNCHANGED vars  BY <1>5 DEF vars
<1>. QED BY <1>1, <1>2, <1>3, <1>4, <1>5 DEF Next, Start

THEOREM TypeCorrect == Spec => []TypeOK
<1>1. Init => TypeOK  BY DEF Init, TypeOK
<1>. QED BY <1>1, TypeStep, PTL DEF Spec

-----------------------------------------------------------------------------
(* A reconciler that has synced has registered; Start sees a runnable      *)
(* synced only when it is, and is past its wait only when all are; and     *)
(* from then on nothing is left to register.                               *)
SyncInv ==
    /\ \A r \in Reconcilers : r \in registered <=> runnable[r] = "synced"
    /\ \A r \in Runnables \ unsynced : runnable[r] = "synced"
    /\ pc = "new" => unsynced = Runnables /\ \A r \in Runnables : runnable[r] = "new"
    /\ pc = "managing" => unsynced = {} /\ watched = registered

LEMMA SyncStep == TypeOK /\ SyncInv /\ [Next]_vars => SyncInv'
<1>. SUFFICES ASSUME TypeOK, SyncInv, [Next]_vars PROVE SyncInv'
  OBVIOUS
<1>. USE DEF TypeOK, SyncInv, Reconcilers, config
<1>1. CASE StartRunnables  BY <1>1 DEF StartRunnables
<1>2. ASSUME NEW r \in Runnables, SeeSynced(r) PROVE SyncInv'
  BY <1>2 DEF SeeSynced
<1>3. ASSUME NEW r \in Runnables, Register(r) PROVE SyncInv'
  BY <1>3 DEF Register
<1>4. ASSUME NEW r \in Runnables, InformerSyncs(r) PROVE SyncInv'
  BY <1>4 DEF InformerSyncs
<1>5. CASE StartManager \/ StartManagerFails \/ ManagerReturns
  BY <1>5 DEF StartManager, StartManagerFails, ManagerReturns
<1>6. CASE KeepAlive \/ StopWhenCancelled \/ Cancel
  BY <1>6 DEF KeepAlive, StopWhenCancelled, Cancel
<1>7. CASE UNCHANGED vars  BY <1>7 DEF vars
<1>. QED BY <1>1, <1>2, <1>3, <1>4, <1>5, <1>6, <1>7 DEF Next, Start

(* The manager runs with the watches of all reconcilers.                   *)
THEOREM AllWatched == Spec => []ManagerWatchesAll
<1>1. Init => SyncInv  BY DEF Init, SyncInv, Reconcilers
<1>2. TypeOK /\ SyncInv => ManagerWatchesAll
  BY DEF TypeOK, SyncInv, ManagerWatchesAll, Reconcilers
<1>. QED BY <1>1, <1>2, SyncStep, TypeCorrect, PTL DEF Spec
=============================================================================
