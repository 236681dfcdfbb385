--------------------------- MODULE CoalescingFeed ----------------------------
(***************************************************************************)
(* What the subscription of the controller to its cache promises,          *)
(* independently of locks, channels and events: a consumer is told one     *)
(* state of the world at a time.  It may miss states (they are coalesced)  *)
(* but it never goes back, since a state is taken only when the previous   *)
(* one has been told, and it is never told a state the world was not in.   *)
(***************************************************************************)
EXTENDS ResourceStore

VARIABLES
    world,   \* the store as the cache publishes it
    taken,   \* TRUE while a state of the world is on its way
    state,   \* that state
    told     \* what the consumer has been told so far

vars == <<world, taken, state, told>>

Init ==
    /\ world = EmptyStore
    /\ taken = FALSE
    /\ state = EmptyStore
    /\ told = EmptyStore

Change ==
    /\ world' \in Stores \ {world}
    /\ UNCHANGED <<taken, state, told>>

Take ==
    /\ ~taken
    /\ taken' = TRUE
    /\ state' = world
    /\ UNCHANGED <<world, told>>

Tell ==
    /\ taken
    /\ taken' = FALSE
    /\ told' = state
    /\ UNCHANGED <<world, state>>

Next == Change \/ Take \/ Tell

Spec == Init /\ [][Next]_vars
=============================================================================
