---------------------------- MODULE AcyclicCheck -----------------------------
(***************************************************************************)
(* isDAG (machinery/topology.go): Kahn's algorithm as NewTopology runs it  *)
(* on the graph it has built, one action per turn of its loops.            *)
(*                                                                         *)
(* The graph is a set of links between nodes; two links may join the same  *)
(* nodes, and a link may lead from a node to itself: the edges of a policy *)
(* with two references to one target, or of two link functions, are kept   *)
(* apart by the graph.  The slices of nodes to visit and of children are   *)
(* sets here: the verdict must not depend on their order.                  *)
(***************************************************************************)
EXTENDS EdgeGraph

VARIABLES
    links,     \* the edges of the graph,
    from, to,  \* and their ends; these three never change
    parents,   \* per node, the parents not seen yet: a set of identifiers
    children,  \* per node, the links not followed yet
    s,         \* nodes without parents still to visit
    n,         \* the node being visited
    verdict    \* what isDAG returned: "none" yet, "dag" or "loop"

graph == <<links, from, to>>
vars == <<graph, parents, children, s, n, verdict>>

ParentsIn(node) == {from[l] : l \in {k \in links : to[k] = node}}
ChildrenIn(node) == {l \in links : from[l] = node}

TypeOK ==
    /\ links \subseteq Links
    /\ from \in [Links -> Nodes]
    /\ to \in [Links -> Nodes]
    /\ parents \in [Nodes -> SUBSET Nodes]
    /\ children \in [Nodes -> SUBSET Links]
    /\ s \subseteq Nodes
    /\ n \in Nodes \cup {None}
    /\ verdict \in {"none", "dag", "loop"}

(* The simplified graph, and the nodes that have no parents in it.         *)
Init ==
    /\ links \in SUBSET Links
    /\ from \in [Links -> Nodes]
    /\ to \in [Links -> Nodes]
    /\ parents = [node \in Nodes |-> ParentsIn(node)]
    /\ children = [node \in Nodes |-> ChildrenIn(node)]
    /\ s = {node \in Nodes : parents[node] = {}}
    /\ n = None
    /\ verdict = "none"

Visited == n \in Nodes => children[n] = {}

(* Mutant: the node is looked at, and stays in the queue.                  *)
PeekNode ==
    /\ verdict = "none" /\ Visited
    /\ \E node \in s : n' = node /\ s' = s
    /\ UNCHANGED <<graph, parents, children, verdict>>

(* The outer loop takes the next node.                                     *)
TakeNode ==
    /\ verdict = "none" /\ Visited
    /\ \E node \in s : n' = node /\ s' = s \ {node}
    /\ UNCHANGED <<graph, parents, children, verdict>>

(* Mutant: a child is queued when its first parent has been seen.          *)
FollowAndQueue(l) ==
    /\ verdict = "none" /\ ~Visited
    /\ l \in children[n]
    /\ children' = [children EXCEPT ![n] = @ \ {l}]
    /\ parents' = [parents EXCEPT ![to[l]] = @ \ {n}]
    /\ s' = s \cup {to[l]}
    /\ UNCHANGED <<graph, n, verdict>>

(* The inner loop takes the next child: one parent less, and to be visited *)
(* if that was the last.                                                   *)
FollowLink(l) ==
    /\ verdict = "none" /\ ~Visited
    /\ l \in children[n]
    /\ children' = [children EXCEPT ![n] = @ \ {l}]
    /\ parents' = [parents EXCEPT ![to[l]] = @ \ {n}]
    /\ s' = IF parents'[to[l]] = {} THEN s \cup {to[l]} ELSE s
    /\ UNCHANGED <<graph, n, verdict>>

(* Nothing left to visit: a loop if some link was not followed.            *)
Return ==
    /\ verdict = "none" /\ Visited /\ s = {}
    /\ verdict' = IF \E node \in Nodes : children[node] # {}
                  THEN "loop" ELSE "dag"
    /\ UNCHANGED <<graph, parents, children, s, n>>

Next == TakeNode \/ (\E l \in Links : FollowLink(l)) \/ Return

Spec == Init /\ [][Next]_vars

-----------------------------------------------------------------------------
(* A set of nodes each of which has a parent in the set: what every cycle  *)
(* is, and what a finite graph without cycles does not have.               *)
Loops(nodes) == \A node \in nodes : ParentsIn(node) \cap nodes # {}

Acyclic == \A nodes \in SUBSET Nodes : Loops(nodes) => nodes = {}

(* isDAG returns true exactly for the graphs without loops, whatever the   *)
(* order of nodes and edges, double edges and edges to oneself included.   *)
VerdictIsRight ==
    /\ verdict = "dag" => Acyclic
    /\ verdict = "loop" => ~Acyclic

(* What the loops maintain: a parent is struck out with the first link     *)
(* from it, a node without parents is waiting, being visited or done, and  *)
(* nothing in a loop is ever reached.                                      *)
ParentsTrackLinks ==
    \A node, p \in Nodes :
        p \in parents[node] <=>
            /\ p \in ParentsIn(node)
            /\ \A l \in links :
                  from[l] = p /\ to[l] = node => l \in children[p]

ChildrenAreLinks ==
    \A node \in Nodes : children[node] \subseteq ChildrenIn(node)

FreeNodesQueued ==
    \A node \in Nodes :
        parents[node] = {} => node \in s \/ node = n \/ children[node] = {}

Untouched(nodes) ==
    \A node \in nodes :
        /\ node \notin s /\ node # n
        /\ children[node] = ChildrenIn(node)
        /\ parents[node] \cap nodes # {}

LoopsUntouched == \A nodes \in SUBSET Nodes : Loops(nodes) => Untouched(nodes)

KahnInv ==
    ParentsTrackLinks /\ ChildrenAreLinks /\ FreeNodesQueued /\ LoopsUntouched
=============================================================================
