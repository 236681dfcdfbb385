---------------------------- MODULE TopologyGraph -----------------------------
(***************************************************************************)
(* The graph of a topology from NewTopology to a search in it              *)
(* (machinery/topology.go): isDAG looks for loops, unless AllowLoops is    *)
(* given; its verdict becomes an error, which keeps nobody from using the  *)
(* topology returned with it, since NewTopology returns both and the       *)
(* controller passes both on; and then Paths is called on that graph.      *)
(***************************************************************************)
EXTENDS EdgeGraph, Naturals, Sequences

VARIABLES
    allowLoops,                           \* the option of NewTopology
    links, from, to,                      \* the graph
    parents, children, s, n, verdict,     \* isDAG: see AcyclicCheck
    items, src, dst, pc, trail, todo, visited, paths   \* Paths: see there

checking == <<parents, children, s, n, verdict>>
searching == <<items, src, dst, pc, trail, todo, visited, paths>>
vars == <<allowLoops, links, from, to, checking, searching>>

Kahn == INSTANCE AcyclicCheck
Search == INSTANCE Paths

(* All links are edges: a double link makes one less.                      *)
Init ==
    /\ allowLoops \in BOOLEAN
    /\ Kahn!Init /\ links = Links
    /\ items = {} /\ src = None /\ dst = None
    /\ pc = "none"
    /\ trail = <<>> /\ todo = <<>> /\ visited = {} /\ paths = {}

CheckLoops ==
    /\ ~allowLoops
    /\ Kahn!Next
    /\ UNCHANGED <<allowLoops, searching>>

(* NewTopology has returned, with an error if the verdict is "loop".       *)
Built == allowLoops \/ verdict # "none"

(* Paths is called with any two objects, of any collection.                *)
CallPaths(collection, x, y) ==
    /\ Built /\ pc = "none"
    /\ pc' = "called"
    /\ items' = collection /\ src' = x /\ dst' = y
    /\ n' = None
    /\ UNCHANGED <<allowLoops, links, from, to, parents, children, s, verdict,
                   trail, todo, visited, paths>>

FindPaths ==
    /\ pc # "none"
    /\ Search!Next
    /\ UNCHANGED <<allowLoops, links, checking>>

Next ==
    \/ CheckLoops
    \/ \E collection \in SUBSET Nodes, x, y \in Nodes : CallPaths(collection, x, y)
    \/ FindPaths

Spec == Init /\ [][Next]_vars

FairSpec == Spec /\ WF_vars(Next)

-----------------------------------------------------------------------------
(* isDAG: what its loops maintain, and the verdict, see AcyclicCheck.      *)
KahnInv == Kahn!KahnInv
VerdictIsRight == Kahn!VerdictIsRight

(* Paths: the paths it returns, and what the search maintains, see Paths.  *)
Called == pc # "none"

OnlyPaths == Called => Search!OnlyPaths
AllPaths == Called => Search!AllPaths
VisitedIsTrail == Called => Search!VisitedIsTrail
TrailInv == Called => Search!TrailInv
SearchAhead == Called => Search!SearchAhead

(* In a topology that NewTopology returned without an error, and without   *)
(* AllowLoops, a search never comes back to a node it is at: what isDAG    *)
(* promises is enough for Paths, which then does without its visited set.  *)
NoLoopMet ==
    verdict = "dag" /\ pc = "searching" =>
        \A l \in Search!Top(todo) : to[l] \notin visited

(* isDAG and Paths return, whatever the graph, and whatever the verdict.   *)
Terminates == <>(pc = "returned")
=============================================================================
