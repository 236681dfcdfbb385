------------------------------ MODULE EdgeGraph ------------------------------
(***************************************************************************)
(* The nodes and edges of the graph of a Topology, by identifier, as       *)
(* AcyclicCheck and Paths take them.                                       *)
(***************************************************************************)
EXTENDS FiniteSets

CONSTANTS Nodes,  \* the nodes of the graph, by locator
          Links,  \* identifiers of edges
          None    \* no node

ASSUME NodesAssumption == IsFiniteSet(Nodes)

ASSUME NoneAssumption == None \notin Nodes
=============================================================================
