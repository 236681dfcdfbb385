---------------------------- MODULE MCController -----------------------------
(***************************************************************************)
(* Instances of Controller for TLC: one object of each of two kinds.  The  *)
(* configurations choose which kinds are watched incrementally.            *)
(***************************************************************************)
EXTENDS Controller, TLC

CONSTANTS u1, u2, k1, k2

MCUIDs == {u1, u2}
MCKinds == {k1, k2}
MCKindOf == (u1 :> k1) @@ (u2 :> k2)

NoKinds == {}
=============================================================================
