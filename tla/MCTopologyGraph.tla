--------------------------- MODULE MCTopologyGraph ---------------------------
(***************************************************************************)
(* All graphs with three links between three nodes (chains, forks, double  *)
(* links, links to oneself, cycles of two and three nodes, with and        *)
(* without a way in), all collections of their nodes, all pairs of ends.   *)
(***************************************************************************)
EXTENDS TopologyGraph
=============================================================================
