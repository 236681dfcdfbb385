------------------------------ MODULE Lifecycle ------------------------------
(***************************************************************************)
(* Controller.Start (controller/controller.go): starting the runnables,    *)
(* waiting for each of them to have synced, then serving, with a manager   *)
(* of controller-runtime or without one, until the context is cancelled.   *)
(*                                                                         *)
(* A stateReconciler (controller/runnable.go) does nothing but register    *)
(* its list and watch functions; the manager is what calls them.  An       *)
(* IncrementalInformer runs on its own until stopCh is closed, and has     *)
(* synced once it has listed its kind.                                     *)
(***************************************************************************)
CONSTANTS Runnables  \* the runnables of the controller

VARIABLES
    managed,     \* the controller has a manager (ManagedBy)
    informers,   \* the runnables that are incremental informers
    pc,          \* Start: "new", "syncing", "managing", "waiting", "returned"
    failed,      \* Start returned an error
    runnable,    \* per runnable: "new", "started" or "synced"
    unsynced,    \* runnables Start has yet to see synced
    registered,  \* those with an entry in listFuncs and watchFuncs
    watched,     \* those whose watch function the manager has been given
    stopped,     \* stopCh is closed
    cancelled    \* the context is cancelled

config == <<managed, informers>>
vars == <<config, pc, failed, runnable, unsynced, registered, watched, stopped,
          cancelled>>

Reconcilers == Runnables \ informers

TypeOK ==
    /\ managed \in BOOLEAN
    /\ informers \subseteq Runnables
    /\ pc \in {"new", "syncing", "managing", "waiting", "returned"}
    /\ failed \in BOOLEAN
    /\ runnable \in [Runnables -> {"new", "started", "synced"}]
    /\ unsynced \subseteq Runnables
    /\ registered \subseteq Reconcilers
    /\ watched \subseteq registered
    /\ stopped \in BOOLEAN
    /\ cancelled \in BOOLEAN

Init ==
    /\ managed \in BOOLEAN
    /\ informers \in SUBSET Runnables
    /\ pc = "new"
    /\ failed = FALSE
    /\ runnable = [r \in Runnables |-> "new"]
    /\ unsynced = Runnables
    /\ registered = {}
    /\ watched = {}
    /\ stopped = FALSE
    /\ cancelled = FALSE

-----------------------------------------------------------------------------
(* go Run(stopCh), for every runnable.                                     *)
StartRunnables ==
    /\ pc = "new"
    /\ pc' = "syncing"
    /\ runnable' = [r \in Runnables |-> "started"]
    /\ UNCHANGED <<config, failed, unsynced, registered, watched, stopped,
                   cancelled>>

(* stateReconciler.Run registers the functions under the mutex of the      *)
(* controller, and holds the lock that HasSynced takes while it does.      *)
Register(r) ==
    /\ r \in Reconcilers /\ runnable[r] = "started"
    /\ runnable' = [runnable EXCEPT ![r] = "synced"]
    /\ registered' = registered \cup {r}
    /\ UNCHANGED <<config, pc, failed, unsynced, watched, stopped, cancelled>>

(* The first list of an informer's kind has been delivered.                *)
InformerSyncs(r) ==
    /\ r \in informers /\ runnable[r] = "started" /\ ~stopped
    /\ runnable' = [runnable EXCEPT ![r] = "synced"]
    /\ UNCHANGED <<config, pc, failed, unsynced, registered, watched, stopped,
                   cancelled>>

(* Mutant: a runnable is waited for until it has started.                  *)
SeeStarted(r) ==
    /\ pc = "syncing" /\ r \in unsynced
    /\ runnable[r] # "new"
    /\ unsynced' = unsynced \ {r}
    /\ UNCHANGED <<config, pc, failed, runnable, registered, watched, stopped,
                   cancelled>>

(* WaitForCacheSync of one runnable returns true, the runnables in any     *)
(* order.  It would return false if stopCh were closed, which is not done  *)
(* before this wait is over.                                               *)
SeeSynced(r) ==
    /\ pc = "syncing" /\ r \in unsynced
    /\ runnable[r] = "synced"
    /\ unsynced' = unsynced \ {r}
    /\ UNCHANGED <<config, pc, failed, runnable, registered, watched, stopped,
                   cancelled>>

(* With a manager, it is given the watch functions registered by now.      *)
StartManager ==
    /\ pc = "syncing" /\ unsynced = {} /\ managed
    /\ watched' = registered
    /\ pc' = "managing"
    /\ UNCHANGED <<config, failed, runnable, unsynced, registered, stopped,
                   cancelled>>

(* Making the controller, or a watch, may fail instead.                    *)
StartManagerFails ==
    /\ pc = "syncing" /\ unsynced = {} /\ managed
    /\ watched' \in SUBSET registered
    /\ pc' = "returned"
    /\ failed' = TRUE
    /\ UNCHANGED <<config, runnable, unsynced, registered, stopped, cancelled>>

(* manager.Start returns because the context is cancelled, or of itself,   *)
(* with an error that is not looked at.                                    *)
ManagerReturns ==
    /\ pc = "managing"
    /\ pc' = "returned"
    /\ UNCHANGED <<config, failed, runnable, unsynced, registered, watched,
                   stopped, cancelled>>

(* Without a manager the context is waited for, ...                        *)
KeepAlive ==
    /\ pc = "syncing" /\ unsynced = {} /\ ~managed
    /\ pc' = "waiting"
    /\ UNCHANGED <<config, failed, runnable, unsynced, registered, watched,
                   stopped, cancelled>>

(* Mutant: returns when the stop channel has been closed by someone.       *)
ReturnWhenStopped ==
    /\ pc = "waiting" /\ stopped
    /\ pc' = "returned"
    /\ UNCHANGED <<config, failed, runnable, unsynced, registered, watched,
                   stopped, cancelled>>

(* ... and stopCh closed.                                                  *)
StopWhenCancelled ==
    /\ pc = "waiting" /\ cancelled
    /\ stopped' = TRUE
    /\ pc' = "returned"
    /\ UNCHANGED <<config, failed, runnable, unsynced, registered, watched,
                   cancelled>>

Cancel ==
    /\ ~cancelled
    /\ cancelled' = TRUE
    /\ UNCHANGED <<config, pc, failed, runnable, unsynced, registered, watched,
                   stopped>>

-----------------------------------------------------------------------------
Start ==
    \/ StartRunnables
    \/ \E r \in Runnables : SeeSynced(r)
    \/ StartManager \/ StartManagerFails
    \/ KeepAlive \/ StopWhenCancelled

Next ==
    \/ Start \/ ManagerReturns \/ Cancel
    \/ \E r \in Runnables : Register(r) \/ InformerSyncs(r)

(* Goroutines that can run do, and the manager returns once the context is *)
(* cancelled.  That an informer can ever list its kind is not assumed.     *)
Fairness ==
    /\ WF_vars(Start)
    /\ \A r \in Runnables : WF_vars(Register(r))
    /\ WF_vars(cancelled /\ ManagerReturns)

Spec == Init /\ [][Next]_vars

FairSpec == Spec /\ Fairness

-----------------------------------------------------------------------------
(* The manager is started with the watches, and Reconcile with the list    *)
(* functions, of all kinds: no runnable still has to register when Start   *)
(* reads watchFuncs, which it does without taking the mutex.               *)
ManagerWatchesAll ==
    pc = "managing" => watched = Reconcilers /\ registered = Reconcilers

(* Cancelled, and with the first list of every informer delivered, Start   *)
(* returns, wherever the two found it.  Without the second it may not: it  *)
(* then waits in WaitForCacheSync, with stopCh, which nobody closes, and   *)
(* not with the context, until which it is said to block                   *)
(* (controller.go:173).                                                    *)
CancelledReturns ==
    (cancelled /\ \A r \in informers : runnable[r] = "synced") ~> pc = "returned"
=============================================================================
