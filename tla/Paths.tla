-------------------------------- MODULE Paths --------------------------------
(***************************************************************************)
(* collection.Paths (machinery/topology.go): the depth-first search for    *)
(* all paths between two items of a collection, whose visited set is       *)
(* undone on the way back.  Any graph is searched, also one with loops     *)
(* (AllowLoops) or with several links between the same nodes; the items of *)
(* the collection are any of its nodes.                                    *)
(*                                                                         *)
(* A path is kept as the links that were followed: the slice of items the  *)
(* code appends is their ends.  Two paths through different links between  *)
(* the same items are two elements of the Go slice, and two here.          *)
(***************************************************************************)
EXTENDS EdgeGraph, Naturals, Sequences

VARIABLES
    from, to,   \* the ends of the links
    items,      \* the nodes that are items of the collection
    src, dst,   \* the arguments of Paths
    pc,         \* "called", "searching" or "returned"
    trail,      \* the links on the path to the current call of dfs
    todo,       \* per running call of dfs, the links it has yet to follow
    visited,
    paths

query == <<from, to, items, src, dst>>
vars == <<query, pc, trail, todo, visited, paths>>

TypeOK ==
    /\ from \in [Links -> Nodes]
    /\ to \in [Links -> Nodes]
    /\ items \subseteq Nodes
    /\ src \in Nodes /\ dst \in Nodes
    /\ pc \in {"called", "searching", "returned"}
    /\ trail \in Seq(Links)
    /\ todo \in Seq(SUBSET Links)
    /\ visited \subseteq Nodes
    /\ paths \subseteq Seq(Links)

(* Children of an item: the links to items of the collection, ...          *)
ChildLinks(node) == {l \in Links : from[l] = node /\ to[l] \in items}

(* ... and the node a walk is at after its first i links.                  *)
NodeAt(walk, i) == IF i = 0 THEN src ELSE to[walk[i]]

Top(frames) == frames[Len(frames)]

Pop(seq) == SubSeq(seq, 1, Len(seq) - 1)

Init ==
    /\ from \in [Links -> Nodes]
    /\ to \in [Links -> Nodes]
    /\ items \in SUBSET Nodes
    /\ src \in Nodes /\ dst \in Nodes
    /\ pc = "called"
    /\ trail = <<>>
    /\ todo = <<>>
    /\ visited = {}
    /\ paths = {}

-----------------------------------------------------------------------------
(* The outermost call.                                                     *)
Start ==
    /\ pc = "called" /\ src # dst
    /\ pc' = "searching"
    /\ todo' = <<ChildLinks(src)>>
    /\ visited' = {src}
    /\ UNCHANGED <<query, trail, paths>>

StartAtEnd ==
    /\ pc = "called" /\ src = dst
    /\ pc' = "returned"
    /\ paths' = {<<>>}
    /\ UNCHANGED <<query, trail, todo, visited>>

(* The loop over the children calls dfs for the end of a link.             *)
Follow(l) ==
    /\ pc = "searching" /\ l \in Top(todo)
    /\ todo' = Append(Pop(todo), Top(todo) \ {l})

(* A visited node is left at once.                                         *)
Skip(l) ==
    /\ Follow(l)
    /\ to[l] \in visited
    /\ UNCHANGED <<query, pc, trail, visited, paths>>

(* Mutant: the path is recorded only if it is the first.                   *)
ArriveOnce(l) ==
    /\ Follow(l)
    /\ to[l] \notin visited /\ to[l] = dst
    /\ paths' = IF paths = {} THEN {Append(trail, l)} ELSE paths
    /\ UNCHANGED <<query, pc, trail, visited>>

(* The destination: a copy of the path is recorded.                        *)
Arrive(l) ==
    /\ Follow(l)
    /\ to[l] \notin visited /\ to[l] = dst
    /\ paths' = paths \cup {Append(trail, l)}
    /\ UNCHANGED <<query, pc, trail, visited>>

(* Mutant: the node is not marked as visited.                              *)
DescendUnmarked(l) ==
    /\ pc = "searching" /\ l \in Top(todo)
    /\ to[l] \notin visited /\ to[l] # dst
    /\ trail' = Append(trail, l)
    /\ todo' = Append(Append(Pop(todo), Top(todo) \ {l}), ChildLinks(to[l]))
    /\ UNCHANGED <<query, pc, visited, paths>>

(* Another node: its children are searched first.                          *)
Descend(l) ==
    /\ pc = "searching" /\ l \in Top(todo)
    /\ to[l] \notin visited /\ to[l] # dst
    /\ trail' = Append(trail, l)
    /\ todo' = Append(Append(Pop(todo), Top(todo) \ {l}), ChildLinks(to[l]))
    /\ visited' = visited \cup {to[l]}
    /\ UNCHANGED <<query, pc, paths>>

(* Mutant: a node stays visited when its call returns.                     *)
ReturnMarked ==
    /\ pc = "searching" /\ Top(todo) = {} /\ trail # <<>>
    /\ trail' = Pop(trail)
    /\ todo' = Pop(todo)
    /\ UNCHANGED <<query, pc, visited, paths>>

(* A call whose loop is over returns to the one it was made from.          *)
Return ==
    /\ pc = "searching" /\ Top(todo) = {} /\ trail # <<>>
    /\ visited' = visited \ {NodeAt(trail, Len(trail))}
    /\ trail' = Pop(trail)
    /\ todo' = Pop(todo)
    /\ UNCHANGED <<query, pc, paths>>

(* The outermost call returns.                                             *)
ReturnLast ==
    /\ pc = "searching" /\ Top(todo) = {} /\ trail = <<>>
    /\ pc' = "returned"
    /\ visited' = {}
    /\ todo' = <<>>
    /\ UNCHANGED <<query, trail, paths>>

Next ==
    \/ Start \/ StartAtEnd
    \/ \E l \in Links : Skip(l) \/ Arrive(l) \/ Descend(l)
    \/ Return \/ ReturnLast

Spec == Init /\ [][Next]_vars

-----------------------------------------------------------------------------
(* A walk through the collection that visits no node twice.                *)
IsWalk(walk) ==
    /\ \A i \in 1..Len(walk) : walk[i] \in ChildLinks(NodeAt(walk, i - 1))
    /\ \A i, j \in 0..Len(walk) : NodeAt(walk, i) = NodeAt(walk, j) => i = j

(* A path as it is meant: such a walk to the destination.                  *)
IsPath(walk) == IsWalk(walk) /\ NodeAt(walk, Len(walk)) = dst

Walks == UNION {[1..k -> Links] : k \in 0..Cardinality(Nodes)}

(* Nothing else is ever recorded, ...                                      *)
OnlyPaths == \A walk \in paths : IsPath(walk)

(* ... and Paths returns every path, also those that share nodes, links    *)
(* but the last one, or all their nodes with another.                      *)
AllPaths ==
    pc = "returned" => \A walk \in Walks : IsPath(walk) => walk \in paths

(* The nodes marked are those on the way to the current call, so that a    *)
(* node left behind can be reached again on another way.                   *)
VisitedIsTrail ==
    /\ pc = "searching" =>
          visited = {NodeAt(trail, i) : i \in 0..Len(trail)}
    /\ pc # "searching" => visited = {}

(* What the search maintains besides: the trail is a walk short of the     *)
(* destination, with one loop over children running for each of its nodes. *)
(* Inductive together with VisitedIsTrail and SearchAhead.                 *)
TrailInv ==
    /\ pc = "called" => trail = <<>> /\ paths = {}
    /\ pc = "searching" =>
          /\ Len(todo) = Len(trail) + 1
          /\ IsWalk(trail)
          /\ \A i \in 1..Len(todo) : todo[i] \subseteq ChildLinks(NodeAt(trail, i - 1))
          /\ \A i \in 0..Len(trail) : NodeAt(trail, i) # dst

(* A path that has not been recorded branches off from the trail by a link *)
(* that has yet to be followed.                                            *)
Ahead(walk) ==
    \E i \in 1..Len(todo) :
        /\ i <= Len(walk) /\ walk[i] \in todo[i]
        /\ \A j \in 1..(i - 1) : walk[j] = trail[j]

SearchAhead ==
    pc = "searching" =>
        \A walk \in Walks : IsPath(walk) => walk \in paths \/ Ahead(walk)
=============================================================================
