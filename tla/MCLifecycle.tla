---------------------------- MODULE MCLifecycle ------------------------------
(***************************************************************************)
(* Every mix of two kinds of runnables, with and without a manager.        *)
(***************************************************************************)
EXTENDS Lifecycle
=============================================================================
