------------------------- MODULE TopologyGraphProofs --------------------------
(***************************************************************************)
(* The properties of isDAG and of Paths hold of the graph of a topology,   *)
(* through its check and the search that follows; and a topology that      *)
(* passed the check needs no visited set.  The lemmas on the steps of      *)
(* isDAG come first; those on the search are the lemmas of PathsProofs.    *)
(***************************************************************************)
EXTENDS TopologyGraph, TLAPS

SearchP == INSTANCE PathsProofs

(***************************************************************************)
(* isDAG is right about every graph, of any size, in any order of its      *)
(* nodes and edges.                                                        *)
(***************************************************************************)

(* The steps of the theorems below are lemmas of their own: they hold of   *)
(* any system whose steps are these.                                       *)
LEMMA KahnTypeStep == Kahn!TypeOK /\ [Kahn!Next]_(Kahn!vars) => Kahn!TypeOK'
<1>. SUFFICES ASSUME Kahn!TypeOK, [Kahn!Next]_(Kahn!vars) PROVE Kahn!TypeOK'
  OBVIOUS
<1>. USE DEF Kahn!TypeOK, Kahn!graph
<1>1. CASE Kahn!TakeNode  BY <1>1 DEF Kahn!TakeNode
<1>2. ASSUME NEW l \in Links, Kahn!FollowLink(l) PROVE Kahn!TypeOK'
  BY <1>2 DEF Kahn!FollowLink, Kahn!Visited
<1>3. CASE Kahn!Return  BY <1>3 DEF Kahn!Return
<1>4. CASE UNCHANGED Kahn!vars  BY <1>4 DEF Kahn!vars
<1>. QED BY <1>1, <1>2, <1>3, <1>4 DEF Kahn!Next

(* Every variable of isDAG has its type.                                   *)
THEOREM KahnTyped == Kahn!Spec => []Kahn!TypeOK
<1>1. Kahn!Init => Kahn!TypeOK
  BY DEF Kahn!Init, Kahn!TypeOK, Kahn!ParentsIn, Kahn!ChildrenIn
<1>. QED BY <1>1, KahnTypeStep, PTL DEF Kahn!Spec

(* The graph is never changed.                                             *)
LEMMA GraphFixed ==
    ASSUME UNCHANGED Kahn!graph
    PROVE  /\ \A node \in Nodes : Kahn!ParentsIn(node)' = Kahn!ParentsIn(node)
           /\ \A node \in Nodes : Kahn!ChildrenIn(node)' = Kahn!ChildrenIn(node)
           /\ \A nodes \in SUBSET Nodes : Kahn!Loops(nodes)' <=> Kahn!Loops(nodes)
BY DEF Kahn!graph, Kahn!ParentsIn, Kahn!ChildrenIn, Kahn!Loops

LEMMA KahnInit == Kahn!Init => Kahn!KahnInv
<1>. SUFFICES ASSUME Kahn!Init PROVE Kahn!KahnInv
  OBVIOUS
<1>1. /\ \A node \in Nodes : parents[node] = Kahn!ParentsIn(node)
      /\ \A node \in Nodes : children[node] = Kahn!ChildrenIn(node)
      /\ s = {node \in Nodes : parents[node] = {}}
      /\ n = None
  BY DEF Kahn!Init
<1>2. Kahn!ParentsTrackLinks
  BY <1>1 DEF Kahn!ParentsTrackLinks, Kahn!ParentsIn, Kahn!ChildrenIn
<1>3. Kahn!ChildrenAreLinks  BY <1>1 DEF Kahn!ChildrenAreLinks
<1>4. Kahn!FreeNodesQueued  BY <1>1 DEF Kahn!FreeNodesQueued
<1>5. Kahn!LoopsUntouched
  <2>1. ASSUME NEW nodes \in SUBSET Nodes, Kahn!Loops(nodes), NEW node \in nodes
        PROVE  /\ node \notin s /\ node # n
               /\ children[node] = Kahn!ChildrenIn(node)
               /\ parents[node] \cap nodes # {}
    <3>1. Kahn!ParentsIn(node) \cap nodes # {}  BY <2>1 DEF Kahn!Loops
    <3>. QED BY <1>1, <3>1, NoneAssumption
  <2>. QED BY <2>1 DEF Kahn!LoopsUntouched, Kahn!Untouched
<1>. QED BY <1>2, <1>3, <1>4, <1>5 DEF Kahn!KahnInv

LEMMA KahnTake == Kahn!TypeOK /\ Kahn!KahnInv /\ Kahn!TakeNode => Kahn!KahnInv'
<1>. SUFFICES ASSUME Kahn!TypeOK, Kahn!KahnInv, Kahn!TakeNode PROVE Kahn!KahnInv'
  OBVIOUS
<1>1. PICK node \in s : n' = node /\ s' = s \ {node}
  BY DEF Kahn!TakeNode
<1>2. UNCHANGED <<links, from, to, parents, children>> /\ UNCHANGED Kahn!graph
  BY DEF Kahn!TakeNode, Kahn!graph
<1>3. n \in Nodes => children[n] = {}
  BY DEF Kahn!TakeNode, Kahn!Visited
<1>4. Kahn!ParentsTrackLinks' /\ Kahn!ChildrenAreLinks'
  BY <1>2, GraphFixed DEF Kahn!KahnInv, Kahn!ParentsTrackLinks, Kahn!ChildrenAreLinks
<1>5. Kahn!FreeNodesQueued'
  BY <1>1, <1>2, <1>3 DEF Kahn!KahnInv, Kahn!FreeNodesQueued
<1>6. Kahn!LoopsUntouched'
  <2>1. ASSUME NEW nodes \in SUBSET Nodes, Kahn!Loops(nodes)' PROVE Kahn!Untouched(nodes)'
    <3>1. Kahn!Untouched(nodes)
      BY <1>2, <2>1, GraphFixed DEF Kahn!KahnInv, Kahn!LoopsUntouched
    <3>2. node \notin nodes  BY <3>1 DEF Kahn!Untouched
    <3>. QED BY <1>1, <1>2, <3>1, <3>2, GraphFixed DEF Kahn!Untouched
  <2>. QED BY <2>1 DEF Kahn!LoopsUntouched
<1>. QED BY <1>4, <1>5, <1>6 DEF Kahn!KahnInv

LEMMA KahnFollow ==
    ASSUME Kahn!TypeOK, Kahn!KahnInv, NEW l \in Links, Kahn!FollowLink(l)
    PROVE  Kahn!KahnInv'
<1>. DEFINE m == to[l]
<1>1. UNCHANGED <<links, from, to, n>> /\ UNCHANGED Kahn!graph
  BY DEF Kahn!FollowLink, Kahn!graph
<1>2. l \in children[n] /\ n \in Nodes
  BY DEF Kahn!FollowLink, Kahn!Visited
<1>3. l \in links /\ from[l] = n /\ m \in Nodes
  BY <1>2 DEF Kahn!KahnInv, Kahn!ChildrenAreLinks, Kahn!TypeOK, Kahn!ChildrenIn
<1>4. /\ children'[n] = children[n] \ {l}
      /\ \A node \in Nodes \ {n} : children'[node] = children[node]
  BY <1>2 DEF Kahn!FollowLink, Kahn!TypeOK
<1>5. /\ parents'[m] = parents[m] \ {n}
      /\ \A node \in Nodes \ {m} : parents'[node] = parents[node]
  BY <1>3 DEF Kahn!FollowLink, Kahn!TypeOK
<1>6. s' = IF parents'[m] = {} THEN s \cup {m} ELSE s
  BY DEF Kahn!FollowLink
<1>7. Kahn!ParentsTrackLinks'
  <2>1. ASSUME NEW node \in Nodes, NEW p \in Nodes
        PROVE  p \in parents'[node] <=>
                  /\ p \in Kahn!ParentsIn(node)
                  /\ \A k \in links : from[k] = p /\ to[k] = node
                                          => k \in children'[p]
    <3>1. p \in parents[node] <=>
             /\ p \in Kahn!ParentsIn(node)
             /\ \A k \in links : from[k] = p /\ to[k] = node
                                     => k \in children[p]
      BY DEF Kahn!KahnInv, Kahn!ParentsTrackLinks
    <3>2. CASE p # n
      BY <1>4, <1>5, <3>1, <3>2
    <3>3. CASE p = n /\ node = m
      BY <1>3, <1>4, <1>5, <3>3
    <3>4. CASE p = n /\ node # m
      BY <1>4, <1>5, <3>1, <3>4
    <3>. QED BY <3>2, <3>3, <3>4
  <2>. QED BY <1>1, <2>1, GraphFixed DEF Kahn!ParentsTrackLinks
<1>8. Kahn!ChildrenAreLinks'
  BY <1>1, <1>4, GraphFixed DEF Kahn!KahnInv, Kahn!ChildrenAreLinks
<1>9. Kahn!FreeNodesQueued'
  BY <1>1, <1>4, <1>5, <1>6 DEF Kahn!KahnInv, Kahn!FreeNodesQueued
<1>10. Kahn!LoopsUntouched'
  <2>1. ASSUME NEW nodes \in SUBSET Nodes, Kahn!Loops(nodes)' PROVE Kahn!Untouched(nodes)'
    <3>1. Kahn!Untouched(nodes)
      BY <1>1, <2>1, GraphFixed DEF Kahn!KahnInv, Kahn!LoopsUntouched
    <3>2. n \notin nodes  BY <3>1 DEF Kahn!Untouched
    <3>3. \A node \in nodes : parents'[node] \cap nodes # {}
      BY <1>5, <3>1, <3>2 DEF Kahn!Untouched
    <3>4. \A node \in nodes : node \notin s'
      BY <1>6, <3>1, <3>3 DEF Kahn!Untouched
    <3>. QED BY <1>1, <1>4, <3>1, <3>2, <3>3, <3>4, GraphFixed DEF Kahn!Untouched
  <2>. QED BY <2>1 DEF Kahn!LoopsUntouched
<1>. QED BY <1>7, <1>8, <1>9, <1>10 DEF Kahn!KahnInv

LEMMA KahnStep ==
    Kahn!TypeOK /\ Kahn!KahnInv /\ [Kahn!Next]_(Kahn!vars) => Kahn!KahnInv'
<1>. SUFFICES ASSUME Kahn!TypeOK, Kahn!KahnInv, [Kahn!Next]_(Kahn!vars) PROVE Kahn!KahnInv'
  OBVIOUS
<1>1. CASE Kahn!TakeNode  BY <1>1, KahnTake
<1>2. ASSUME NEW l \in Links, Kahn!FollowLink(l) PROVE Kahn!KahnInv'
  BY <1>2, KahnFollow
<1>3. CASE Kahn!Return \/ UNCHANGED Kahn!vars
  <2>1. UNCHANGED <<Kahn!graph, links, parents, children, s, n>>
    BY <1>3 DEF Kahn!Return, Kahn!vars, Kahn!graph
  <2>2. \A nodes \in SUBSET Nodes : Kahn!Untouched(nodes)' <=> Kahn!Untouched(nodes)
    BY <2>1, GraphFixed DEF Kahn!Untouched
  <2>3. Kahn!LoopsUntouched'
    BY <2>1, <2>2, GraphFixed DEF Kahn!KahnInv, Kahn!LoopsUntouched
  <2>4. UNCHANGED <<from, to>>  BY <2>1 DEF Kahn!graph
  <2>. QED BY <2>1, <2>3, <2>4, GraphFixed
       DEF Kahn!KahnInv, Kahn!ParentsTrackLinks, Kahn!ChildrenAreLinks, Kahn!FreeNodesQueued
<1>. QED BY <1>1, <1>2, <1>3 DEF Kahn!Next

(* The invariant of the algorithm.                                         *)
THEOREM KahnHolds == Kahn!Spec => []Kahn!KahnInv
BY KahnStep, KahnInit, KahnTyped, PTL DEF Kahn!Spec

(* When nothing is left to visit, the nodes with links not followed are a  *)
(* loop, if there are any.                                                 *)
LEMMA RemainderLoops ==
    ASSUME Kahn!TypeOK, Kahn!KahnInv, Kahn!Visited, s = {}
    PROVE  Kahn!Loops({node \in Nodes : children[node] # {}})
<1>. DEFINE R == {node \in Nodes : children[node] # {}}
<1>1. ASSUME NEW node \in R PROVE Kahn!ParentsIn(node) \cap R # {}
  <2>1. parents[node] # {}
    BY DEF Kahn!KahnInv, Kahn!FreeNodesQueued, Kahn!Visited
  <2>2. PICK p \in Nodes : p \in parents[node]
    BY <2>1 DEF Kahn!TypeOK
  <2>3. PICK l \in links : from[l] = p /\ to[l] = node
    BY <2>2 DEF Kahn!KahnInv, Kahn!ParentsTrackLinks, Kahn!ParentsIn
  <2>4. l \in children[p]
    BY <2>2, <2>3 DEF Kahn!KahnInv, Kahn!ParentsTrackLinks
  <2>5. p \in Kahn!ParentsIn(node)
    BY <2>2 DEF Kahn!KahnInv, Kahn!ParentsTrackLinks
  <2>. QED BY <2>4, <2>5
<1>. QED BY <1>1 DEF Kahn!Loops

(* When all links have been followed, there is no loop.                    *)
LEMMA AllFollowedAcyclic ==
    ASSUME Kahn!TypeOK, Kahn!KahnInv, \A node \in Nodes : children[node] = {}
    PROVE  Kahn!Acyclic
<1>1. ASSUME NEW nodes \in SUBSET Nodes, Kahn!Loops(nodes), NEW node \in nodes
      PROVE  FALSE
  <2>1. PICK p \in nodes : p \in Kahn!ParentsIn(node)
    BY <1>1 DEF Kahn!Loops
  <2>2. Kahn!ChildrenIn(p) = {}
    BY <1>1 DEF Kahn!KahnInv, Kahn!LoopsUntouched, Kahn!Untouched
  <2>. QED BY <2>1, <2>2 DEF Kahn!ParentsIn, Kahn!ChildrenIn
<1>. QED BY <1>1 DEF Kahn!Acyclic

LEMMA KahnVerdictStep ==
    Kahn!TypeOK /\ Kahn!KahnInv /\ Kahn!VerdictIsRight /\ [Kahn!Next]_(Kahn!vars)
        => Kahn!VerdictIsRight'
<1>. SUFFICES ASSUME Kahn!TypeOK, Kahn!KahnInv, Kahn!VerdictIsRight,
                     [Kahn!Next]_(Kahn!vars)
              PROVE  Kahn!VerdictIsRight'
  OBVIOUS
<1>1. UNCHANGED Kahn!graph => (Kahn!Acyclic' <=> Kahn!Acyclic)
  BY DEF Kahn!graph, Kahn!Acyclic, Kahn!Loops, Kahn!ParentsIn
<1>2. CASE Kahn!Return
  <2>1. CASE verdict' = "dag"
    <3>1. \A node \in Nodes : children[node] = {}
      BY <1>2, <2>1 DEF Kahn!Return
    <3>. QED BY <1>1, <1>2, <2>1, <3>1, AllFollowedAcyclic
         DEF Kahn!Return, Kahn!VerdictIsRight
  <2>2. CASE verdict' = "loop"
    <3>1. {node \in Nodes : children[node] # {}} # {}
      BY <1>2, <2>2 DEF Kahn!Return
    <3>2. ~Kahn!Acyclic
      BY <1>2, <3>1, RemainderLoops DEF Kahn!Return, Kahn!Acyclic
    <3>. QED BY <1>1, <1>2, <2>2, <3>2 DEF Kahn!Return, Kahn!VerdictIsRight
  <2>. QED BY <1>2, <2>1, <2>2 DEF Kahn!Return
<1>3. CASE UNCHANGED <<Kahn!graph, verdict>>
  BY <1>1, <1>3 DEF Kahn!VerdictIsRight
<1>. QED BY <1>2, <1>3 DEF Kahn!Next, Kahn!TakeNode, Kahn!FollowLink, Kahn!vars

(* isDAG returns true exactly for the graphs without loops.                *)
THEOREM KahnVerdict == Kahn!Spec => []Kahn!VerdictIsRight
<1>1. Kahn!Init => Kahn!VerdictIsRight
  BY DEF Kahn!Init, Kahn!VerdictIsRight
<1>. QED BY <1>1, KahnVerdictStep, KahnHolds, KahnTyped, PTL DEF Kahn!Spec

(***************************************************************************)
(* The composition with the search.                                        *)
(***************************************************************************)

SearchFacts ==
    /\ Search!TypeOK /\ Search!TrailInv /\ Search!VisitedIsTrail
    /\ Search!OnlyPaths /\ Search!SearchAhead /\ Search!AllPaths

LEMMA SearchSame ==
    /\ SearchFacts <=> SearchP!SearchInv /\ SearchP!OnlyPaths /\ SearchP!Complete
    /\ Search!Next <=> SearchP!Next
<1>. USE DEF Search!ChildLinks, SearchP!ChildLinks, Search!NodeAt, SearchP!NodeAt,
             Search!Top, SearchP!Top, Search!Pop, SearchP!Pop,
             Search!IsWalk, SearchP!IsWalk, Search!IsPath, SearchP!IsPath,
             Search!query, SearchP!query
<1>1. Search!TypeOK <=> SearchP!TypeOK  BY DEF Search!TypeOK, SearchP!TypeOK
<1>2. Search!TrailInv <=> SearchP!TrailInv
  BY DEF Search!TrailInv, SearchP!TrailInv
<1>3. Search!VisitedIsTrail <=> SearchP!VisitedIsTrail
  BY DEF Search!VisitedIsTrail, SearchP!VisitedIsTrail
<1>4. Search!OnlyPaths <=> SearchP!OnlyPaths
  BY DEF Search!OnlyPaths, SearchP!OnlyPaths
<1>5. Search!Walks = SearchP!Walks
  BY DEF Search!Walks, SearchP!Walks, SearchP!Cardinality, Search!Cardinality
<1>6. Search!SearchAhead <=> SearchP!SearchAhead
  BY <1>5 DEF Search!SearchAhead, Search!Ahead, SearchP!SearchAhead, SearchP!Ahead
<1>7. Search!AllPaths <=> SearchP!AllPaths
  BY <1>5 DEF Search!AllPaths, SearchP!AllPaths
<1>8. Search!Next <=> SearchP!Next
  BY DEF Search!Next, Search!Start, Search!StartAtEnd, Search!Skip, Search!Arrive,
         Search!Descend, Search!Return, Search!ReturnLast, Search!Follow,
         SearchP!Next, SearchP!Start, SearchP!StartAtEnd, SearchP!Skip,
         SearchP!Arrive, SearchP!Descend, SearchP!Return, SearchP!ReturnLast,
         SearchP!Follow
<1>. QED BY <1>1, <1>2, <1>3, <1>4, <1>6, <1>7, <1>8
     DEF SearchFacts, SearchP!SearchInv, SearchP!Complete

LEMMA KahnPreserved ==
    ASSUME Kahn!TypeOK, Kahn!KahnInv, Kahn!VerdictIsRight, Kahn!Next
    PROVE  Kahn!TypeOK' /\ Kahn!KahnInv' /\ Kahn!VerdictIsRight'
BY KahnTypeStep, KahnStep, KahnVerdictStep

LEMMA SearchPreserved ==
    ASSUME SearchFacts, Search!Next
    PROVE  SearchFacts'
<1>1. SearchP!SearchInv /\ SearchP!OnlyPaths /\ SearchP!Complete /\ SearchP!Next
  BY SearchSame
<1>. USE NodesAssumption, NoneAssumption DEF SearchP!IsFiniteSet, IsFiniteSet
<1>2. SearchP!SearchInv'  BY <1>1, SearchP!SearchStep
<1>3. SearchP!OnlyPaths'  BY <1>1, SearchP!SoundStep
<1>4. SearchP!Complete'  BY <1>1, SearchP!CompleteStep
<1>. QED BY <1>2, <1>3, <1>4, SearchSame, PTL

-----------------------------------------------------------------------------
(* Before Paths is called there is no search; once it is called the check  *)
(* is over, and the search maintains what PathsProofs says.                *)
GraphInv ==
    /\ links = Links
    /\ Kahn!TypeOK /\ Kahn!KahnInv /\ Kahn!VerdictIsRight
    /\ Built => Kahn!Visited
    /\ pc = "none" => trail = <<>> /\ todo = <<>> /\ visited = {} /\ paths = {}
    /\ pc # "none" => Built /\ SearchFacts

LEMMA GraphInit == Init => GraphInv
<1>. SUFFICES ASSUME Init PROVE GraphInv
  OBVIOUS
<1>1. Kahn!Init /\ links = Links /\ pc = "none"
      /\ trail = <<>> /\ todo = <<>> /\ visited = {} /\ paths = {}
  BY DEF Init
<1>2. Kahn!TypeOK
  BY <1>1 DEF Kahn!Init, Kahn!TypeOK, Kahn!ParentsIn, Kahn!ChildrenIn
<1>3. Kahn!KahnInv  BY <1>1, KahnInit
<1>4. verdict = "none" /\ n = None  BY <1>1 DEF Kahn!Init
<1>5. Kahn!VerdictIsRight  BY <1>4 DEF Kahn!VerdictIsRight
<1>6. Kahn!Visited  BY <1>4, NoneAssumption DEF Kahn!Visited
<1>. QED BY <1>1, <1>2, <1>3, <1>5, <1>6 DEF GraphInv

LEMMA GraphCheck == GraphInv /\ CheckLoops => GraphInv'
<1>. SUFFICES ASSUME GraphInv, CheckLoops PROVE GraphInv'
  OBVIOUS
<1>1. /\ ~allowLoops /\ Kahn!Next
      /\ UNCHANGED <<allowLoops, items, src, dst, pc, trail, todo, visited, paths>>
  BY DEF CheckLoops, searching
<1>2. Kahn!TypeOK' /\ Kahn!KahnInv' /\ Kahn!VerdictIsRight'
  BY <1>1, KahnPreserved DEF GraphInv
<1>3. verdict = "none" /\ UNCHANGED <<links, from, to>>
  BY <1>1 DEF Kahn!Next, Kahn!TakeNode, Kahn!FollowLink, Kahn!Return, Kahn!graph
<1>4. pc = "none" /\ pc' = "none"  BY <1>1, <1>3 DEF GraphInv, Built
<1>5. Built' => Kahn!Visited'
  <2>. SUFFICES ASSUME Built' PROVE Kahn!Visited'
    OBVIOUS
  <2>1. verdict' # "none"  BY <1>1 DEF Built
  <2>2. Kahn!Return
    BY <2>1, <1>1, <1>3 DEF Kahn!Next, Kahn!TakeNode, Kahn!FollowLink
  <2>. QED BY <2>2 DEF Kahn!Return, Kahn!Visited
<1>. QED BY <1>1, <1>2, <1>3, <1>4, <1>5 DEF GraphInv

LEMMA GraphCall ==
    ASSUME GraphInv, NEW collection \in SUBSET Nodes, NEW x \in Nodes, NEW y \in Nodes,
           CallPaths(collection, x, y)
    PROVE  GraphInv'
<1>1. /\ Built /\ pc = "none" /\ pc' = "called"
      /\ items' = collection /\ src' = x /\ dst' = y /\ n' = None
      /\ UNCHANGED <<allowLoops, links, from, to, parents, children, s, verdict,
                     trail, todo, visited, paths>>
  BY DEF CallPaths
<1>2. Kahn!TypeOK'  BY <1>1 DEF GraphInv, Kahn!TypeOK
<1>3. Kahn!KahnInv'
  <2>1. Kahn!Visited  BY <1>1 DEF GraphInv
  <2>2. Kahn!ParentsTrackLinks' /\ Kahn!ChildrenAreLinks'
    BY <1>1 DEF GraphInv, Kahn!KahnInv, Kahn!ParentsTrackLinks,
                Kahn!ChildrenAreLinks, Kahn!ParentsIn, Kahn!ChildrenIn
  <2>3. Kahn!FreeNodesQueued'
    BY <1>1, <2>1 DEF GraphInv, Kahn!KahnInv, Kahn!FreeNodesQueued, Kahn!Visited
  <2>4. Kahn!LoopsUntouched'
    <3>1. ASSUME NEW nodes \in SUBSET Nodes, Kahn!Loops(nodes)'
          PROVE  Kahn!Untouched(nodes)'
      <4>1. Kahn!Loops(nodes)  BY <1>1, <3>1 DEF Kahn!Loops, Kahn!ParentsIn
      <4>2. Kahn!Untouched(nodes)
        BY <4>1 DEF GraphInv, Kahn!KahnInv, Kahn!LoopsUntouched
      <4>3. \A node \in nodes : node # n'  BY <1>1, NoneAssumption
      <4>. QED BY <1>1, <4>2, <4>3 DEF Kahn!Untouched, Kahn!ChildrenIn
    <3>. QED BY <3>1 DEF Kahn!LoopsUntouched
  <2>. QED BY <2>2, <2>3, <2>4 DEF Kahn!KahnInv
<1>4. Kahn!VerdictIsRight'
  BY <1>1 DEF GraphInv, Kahn!VerdictIsRight, Kahn!Acyclic, Kahn!Loops, Kahn!ParentsIn
<1>5. Kahn!Visited'  BY <1>1, NoneAssumption DEF Kahn!Visited
<1>6. Built'  BY <1>1 DEF Built
<1>7. trail = <<>> /\ todo = <<>> /\ visited = {} /\ paths = {}
  BY <1>1 DEF GraphInv
<1>8. Search!TypeOK'
  BY <1>1, <1>7 DEF GraphInv, Kahn!TypeOK, Search!TypeOK
<1>9. SearchFacts'
  BY <1>1, <1>7, <1>8
     DEF SearchFacts, Search!TrailInv, Search!VisitedIsTrail, Search!OnlyPaths,
         Search!SearchAhead, Search!AllPaths
<1>. QED BY <1>1, <1>2, <1>3, <1>4, <1>5, <1>6, <1>9 DEF GraphInv

(* What isDAG maintains stays while its variables do.                      *)
LEMMA KahnKept ==
    ASSUME Kahn!KahnInv,
           UNCHANGED <<links, from, to, parents, children, s, n>>
    PROVE  Kahn!KahnInv'
<1>1. Kahn!ParentsTrackLinks' /\ Kahn!ChildrenAreLinks' /\ Kahn!FreeNodesQueued'
  BY DEF Kahn!KahnInv, Kahn!ParentsTrackLinks, Kahn!ChildrenAreLinks,
         Kahn!FreeNodesQueued, Kahn!ParentsIn, Kahn!ChildrenIn
<1>2. ASSUME NEW nodes \in SUBSET Nodes, Kahn!Loops(nodes)'
      PROVE  Kahn!Untouched(nodes)'
  <2>1. Kahn!Loops(nodes)  BY <1>2 DEF Kahn!Loops, Kahn!ParentsIn
  <2>2. Kahn!Untouched(nodes)
    BY <2>1 DEF Kahn!KahnInv, Kahn!LoopsUntouched
  <2>. QED BY <2>2 DEF Kahn!Untouched, Kahn!ChildrenIn
<1>. QED BY <1>1, <1>2 DEF Kahn!KahnInv, Kahn!LoopsUntouched

LEMMA GraphSearch == GraphInv /\ FindPaths => GraphInv'
<1>. SUFFICES ASSUME GraphInv, FindPaths PROVE GraphInv'
  OBVIOUS
<1>1. /\ pc # "none" /\ Search!Next
      /\ UNCHANGED <<allowLoops, links, parents, children, s, n, verdict>>
  BY DEF FindPaths, checking
<1>2. pc' # "none" /\ UNCHANGED <<from, to>>
  BY <1>1 DEF Search!Next, Search!Start, Search!StartAtEnd, Search!Skip,
              Search!Arrive, Search!Descend, Search!Return, Search!ReturnLast,
              Search!Follow, Search!query
<1>3. SearchFacts'  BY <1>1, SearchPreserved DEF GraphInv
<1>4. Built'  BY <1>1 DEF GraphInv, Built
<1>5. /\ Kahn!TypeOK' /\ Kahn!VerdictIsRight' /\ Kahn!Visited'
  BY <1>1, <1>2, <1>4
     DEF GraphInv, Built, Kahn!TypeOK, Kahn!VerdictIsRight, Kahn!Acyclic,
         Kahn!Loops, Kahn!ParentsIn, Kahn!Visited
<1>6. Kahn!KahnInv'  BY <1>1, <1>2, KahnKept DEF GraphInv
<1>. QED BY <1>1, <1>2, <1>3, <1>4, <1>5, <1>6 DEF GraphInv

LEMMA GraphHolds == Spec => []GraphInv
<1>1. GraphInv /\ [Next]_vars => GraphInv'
  <2>. SUFFICES ASSUME GraphInv, [Next]_vars PROVE GraphInv'
    OBVIOUS
  <2>1. CASE CheckLoops  BY <2>1, GraphCheck
  <2>2. ASSUME NEW collection \in SUBSET Nodes, NEW x \in Nodes, NEW y \in Nodes,
               CallPaths(collection, x, y)
        PROVE  GraphInv'
    BY <2>2, GraphCall
  <2>3. CASE FindPaths  BY <2>3, GraphSearch
  <2>4. CASE UNCHANGED vars
    <3>1. SearchFacts' <=> SearchFacts
      BY <2>4
         DEF vars, searching, SearchFacts, Search!TypeOK, Search!TrailInv,
             Search!VisitedIsTrail, Search!OnlyPaths, Search!SearchAhead,
             Search!AllPaths, Search!Ahead, Search!IsPath, Search!IsWalk,
             Search!NodeAt, Search!ChildLinks, Search!Walks
    <3>2. Kahn!KahnInv'
      BY <2>4, KahnKept DEF GraphInv, vars, checking
    <3>. QED BY <3>1, <3>2, <2>4
         DEF GraphInv, vars, checking, searching, Built, Kahn!TypeOK,
             Kahn!VerdictIsRight, Kahn!Acyclic, Kahn!Loops, Kahn!ParentsIn,
             Kahn!Visited
  <2>. QED BY <2>1, <2>2, <2>3, <2>4 DEF Next
<1>. QED BY <1>1, GraphInit, PTL DEF Spec

-----------------------------------------------------------------------------
(* isDAG is right about the graph of every topology.                       *)
THEOREM GraphVerdict == Spec => []VerdictIsRight
<1>1. GraphInv => VerdictIsRight  BY DEF GraphInv, VerdictIsRight
<1>. QED BY <1>1, GraphHolds, PTL

(* Its loops maintain their invariant, also while the graph is searched.   *)
THEOREM GraphKahn == Spec => []KahnInv
<1>1. GraphInv => KahnInv  BY DEF GraphInv, KahnInv
<1>. QED BY <1>1, GraphHolds, PTL

(* In a graph with or without loops, checked or not, and for any two       *)
(* objects of any collection, Paths returns paths only, ...                *)
THEOREM GraphOnlyPaths == Spec => []OnlyPaths
<1>1. GraphInv => OnlyPaths  BY DEF GraphInv, SearchFacts, OnlyPaths, Called
<1>. QED BY <1>1, GraphHolds, PTL

(* ... and all of them; ...                                                *)
THEOREM GraphAllPaths == Spec => []AllPaths
<1>1. GraphInv => AllPaths  BY DEF GraphInv, SearchFacts, AllPaths, Called
<1>. QED BY <1>1, GraphHolds, PTL

(* ... what has not been recorded being still ahead; ...                   *)
THEOREM GraphSearchAhead == Spec => []SearchAhead
<1>1. GraphInv => SearchAhead  BY DEF GraphInv, SearchFacts, SearchAhead, Called
<1>. QED BY <1>1, GraphHolds, PTL

(* ... the trail being a walk short of the destination; ...                *)
THEOREM GraphTrail == Spec => []TrailInv
<1>1. GraphInv => TrailInv  BY DEF GraphInv, SearchFacts, TrailInv, Called
<1>. QED BY <1>1, GraphHolds, PTL

(* ... and the nodes marked being those of the trail.                      *)
THEOREM GraphVisited == Spec => []VisitedIsTrail
<1>1. GraphInv => VisitedIsTrail
  BY DEF GraphInv, SearchFacts, VisitedIsTrail, Called
<1>. QED BY <1>1, GraphHolds, PTL

(* The nodes from one of the trail to its end are a loop, if a link leads  *)
(* back from the end to that node.                                         *)
LEMMA BackLinkLoops ==
    ASSUME GraphInv, pc = "searching",
           NEW l \in Search!Top(todo), to[l] \in visited
    PROVE  ~Kahn!Acyclic
<1>. DEFINE m == Len(trail)
<1>1. SearchFacts /\ links = Links  BY DEF GraphInv
<1>2. m \in Nat /\ trail \in Seq(Links) /\ Search!IsWalk(trail)
      /\ l \in Search!ChildLinks(Search!NodeAt(trail, m))
  <2>1. m \in Nat /\ trail \in Seq(Links)
    BY <1>1 DEF SearchFacts, Search!TypeOK
  <2>2. /\ Len(todo) = m + 1 /\ Search!IsWalk(trail)
        /\ \A i \in 1..Len(todo) :
              todo[i] \subseteq Search!ChildLinks(Search!NodeAt(trail, i - 1))
    BY <1>1 DEF SearchFacts, Search!TrailInv
  <2>3. m + 1 \in 1..Len(todo) /\ m + 1 - 1 = m  BY <2>1, <2>2
  <2>4. todo[m + 1] \subseteq Search!ChildLinks(Search!NodeAt(trail, m))
    BY <2>2, <2>3
  <2>. QED BY <2>1, <2>2, <2>4 DEF Search!Top
<1>3. PICK k \in 0..m : to[l] = Search!NodeAt(trail, k)
  BY <1>1 DEF SearchFacts, Search!VisitedIsTrail
<1>. DEFINE nodes == {Search!NodeAt(trail, i) : i \in k..m}
<1>4. nodes \in SUBSET Nodes
  <2>1. \A i \in 0..m : Search!NodeAt(trail, i) \in Nodes
    <3>1. \A i \in 1..m : trail[i] \in Links  BY <1>2
    <3>2. src \in Nodes /\ to \in [Links -> Nodes]
      BY <1>1 DEF SearchFacts, Search!TypeOK
    <3>. QED BY <1>2, <3>1, <3>2 DEF Search!NodeAt
  <2>. QED BY <2>1, <1>2, <1>3
<1>5. Search!NodeAt(trail, m) \in nodes  BY <1>2, <1>3
<1>6. ASSUME NEW i \in k..m
      PROVE  Kahn!ParentsIn(Search!NodeAt(trail, i)) \cap nodes # {}
  <2>1. CASE i = k
    <3>1. /\ l \in links /\ from[l] = Search!NodeAt(trail, m)
          /\ to[l] = Search!NodeAt(trail, i)
      BY <2>1, <1>1, <1>2, <1>3 DEF Search!ChildLinks
    <3>. QED BY <3>1, <1>5 DEF Kahn!ParentsIn
  <2>2. CASE i # k
    <3>1. i \in 1..m /\ i - 1 \in k..m /\ i # 0  BY <2>2, <1>2, <1>3
    <3>2. trail[i] \in Search!ChildLinks(Search!NodeAt(trail, i - 1))
      BY <3>1, <1>2 DEF Search!IsWalk
    <3>3. /\ trail[i] \in links /\ from[trail[i]] = Search!NodeAt(trail, i - 1)
          /\ to[trail[i]] = Search!NodeAt(trail, i)
      BY <3>1, <3>2, <1>1 DEF Search!ChildLinks, Search!NodeAt
    <3>4. Search!NodeAt(trail, i - 1) \in nodes  BY <3>1
    <3>. QED BY <3>3, <3>4 DEF Kahn!ParentsIn
  <2>. QED BY <2>1, <2>2
<1>7. Kahn!Loops(nodes)  BY <1>6 DEF Kahn!Loops
<1>. QED BY <1>4, <1>5, <1>7 DEF Kahn!Acyclic

(* A graph isDAG accepts leads no search back to a node it is at.          *)
THEOREM GraphNoLoopMet == Spec => []NoLoopMet
<1>1. GraphInv => NoLoopMet
  <2>. SUFFICES ASSUME GraphInv, verdict = "dag", pc = "searching",
                       NEW l \in Search!Top(todo), to[l] \in visited
                PROVE  FALSE
    BY DEF NoLoopMet
  <2>1. Kahn!Acyclic  BY DEF GraphInv, Kahn!VerdictIsRight
  <2>. QED BY <2>1, BackLinkLoops
<1>. QED BY <1>1, GraphHolds, PTL
=============================================================================
