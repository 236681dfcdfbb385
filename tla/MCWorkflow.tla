----------------------------- MODULE MCWorkflow ------------------------------
(***************************************************************************)
(* Every workflow with three tasks: with and without precondition,         *)
(* postcondition, handler and an error carried over.                       *)
(***************************************************************************)
EXTENDS Workflow
=============================================================================
