----------------------------- MODULE MCProviders -----------------------------
(***************************************************************************)
(* Instances of Providers.                                                 *)
(***************************************************************************)
EXTENDS Providers

CONSTANTS g, a

(* Others change the rules of a policy and have it target more than its    *)
(* gateway, or something else.                                             *)
MCEdits == {[target |-> t, rules |-> Foreign] : t \in {"wide", "stray"}}
=============================================================================
