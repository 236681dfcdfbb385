----------------------------- MODULE PathsProofs -----------------------------
(***************************************************************************)
(* Paths returns the paths of the collection, all of them and nothing      *)
(* else, whatever the graph, the collection and the order of its links.    *)
(***************************************************************************)
EXTENDS Paths, SequenceTheorems, FiniteSetTheorems, TLAPS

(* What holds of the search at every step: the induction hypothesis of the *)
(* results below.                                                          *)
SearchInv == TypeOK /\ TrailInv /\ VisitedIsTrail

LEMMA PopLess ==
    ASSUME NEW S, NEW seq \in Seq(S), seq # <<>>
    PROVE  /\ Pop(seq) \in Seq(S)
           /\ Len(Pop(seq)) = Len(seq) - 1
           /\ \A i \in 1..(Len(seq) - 1) : Pop(seq)[i] = seq[i]
<1>1. Len(seq) \in Nat /\ Len(seq) >= 1  BY EmptySeq
<1>2. \A i \in 1..(Len(seq) - 1) : seq[i] \in S  BY <1>1, ElementOfSeq
<1>. DEFINE m == Len(seq) - 1
<1>3. 1 \in Int /\ m \in Nat /\ \A i \in 1..m : seq[i] \in S
  BY <1>1, <1>2
<1>4. Pop(seq) = SubSeq(seq, 1, m)  BY DEF Pop
<1>. HIDE DEF m
<1>5. /\ SubSeq(seq, 1, m) \in Seq(S)
      /\ Len(SubSeq(seq, 1, m)) = IF 1 <= m THEN m - 1 + 1 ELSE 0
      /\ \A i \in 1..(m - 1 + 1) : SubSeq(seq, 1, m)[i] = seq[1 + i - 1]
  BY <1>3, SubSeqProperties
<1>6. \A i \in 1..m : SubSeq(seq, 1, m)[i] = seq[i]
  <2>. SUFFICES ASSUME NEW i \in 1..m PROVE SubSeq(seq, 1, m)[i] = seq[i]
    OBVIOUS
  <2>1. i \in 1..(m - 1 + 1) /\ 1 + i - 1 = i  BY <1>3
  <2>. QED BY <2>1, <1>5
<1>7. Len(SubSeq(seq, 1, m)) = m  BY <1>3, <1>5
<1>. QED BY <1>4, <1>5, <1>6, <1>7 DEF m

LEMMA WalksAreSequences == \A walk \in Walks : walk \in Seq(Links)
<1>1. Cardinality(Nodes) \in Nat  BY NodesAssumption, FS_CardinalityType
<1>. SUFFICES ASSUME NEW k \in 0..Cardinality(Nodes), NEW walk \in [1..k -> Links]
              PROVE  walk \in Seq(Links)
  BY DEF Walks
<1>2. k \in Nat  BY <1>1
<1>. QED BY <1>2, SeqDef

(* The loop over children that is running.                                 *)
LEMMA TopLoop ==
    ASSUME SearchInv, pc = "searching"
    PROVE  /\ Len(trail) \in Nat
           /\ todo # <<>> /\ Len(todo) = Len(trail) + 1
           /\ Top(todo) = todo[Len(trail) + 1]
           /\ Top(todo) \subseteq ChildLinks(NodeAt(trail, Len(trail)))
           /\ Top(todo) \subseteq Links
<1>1. Len(trail) \in Nat /\ Len(todo) = Len(trail) + 1
  BY DEF SearchInv, TypeOK, TrailInv
<1>2. todo # <<>>  BY <1>1, EmptySeq
<1>3. Len(trail) + 1 \in 1..Len(todo)  BY <1>1
<1>4. Top(todo) \subseteq ChildLinks(NodeAt(trail, Len(trail)))
  BY <1>1, <1>3 DEF Top, SearchInv, TrailInv
<1>. QED BY <1>1, <1>2, <1>4 DEF Top, ChildLinks

(* A loop that takes a link leaves the other loops alone.                  *)
LEMMA FollowTakes ==
    ASSUME SearchInv, NEW l \in Links, Follow(l)
    PROVE  /\ todo' \in Seq(SUBSET Links)
           /\ Len(todo') = Len(trail) + 1
           /\ \A i \in 1..Len(trail) : todo'[i] = todo[i]
           /\ todo'[Len(trail) + 1] = todo[Len(trail) + 1] \ {l}
<1>1. todo \in Seq(SUBSET Links) /\ pc = "searching"
  BY DEF SearchInv, TypeOK, Follow
<1>2. Top(todo) \ {l} \in SUBSET Links  BY <1>1, TopLoop
<1>3. todo' = Append(Pop(todo), Top(todo) \ {l})  BY DEF Follow
<1>4. /\ Pop(todo) \in Seq(SUBSET Links)
      /\ Len(Pop(todo)) = Len(trail)
      /\ \A i \in 1..Len(trail) : Pop(todo)[i] = todo[i]
  BY <1>1, TopLoop, PopLess
<1>. QED BY <1>1, <1>2, <1>3, <1>4, TopLoop, AppendProperties

(* A link to a node that is not marked extends the trail by a step.        *)
LEMMA TrailExtends ==
    ASSUME SearchInv, pc = "searching",
           NEW l \in Top(todo), to[l] \notin visited
    PROVE  LET longer == Append(trail, l)
           IN  /\ longer \in Seq(Links)
               /\ Len(longer) = Len(trail) + 1
               /\ \A i \in 1..Len(trail) : longer[i] = trail[i]
               /\ \A i \in 0..Len(trail) : NodeAt(longer, i) = NodeAt(trail, i)
               /\ longer[Len(trail) + 1] = l
               /\ NodeAt(longer, Len(trail) + 1) = to[l]
               /\ IsWalk(longer)
<1>. DEFINE longer == Append(trail, l)
            n == Len(trail)
<1>1. trail \in Seq(Links) /\ l \in Links /\ n \in Nat
  BY TopLoop DEF SearchInv, TypeOK
<1>2. /\ longer \in Seq(Links)
      /\ Len(longer) = n + 1
      /\ \A i \in 1..n : longer[i] = trail[i]
      /\ longer[n + 1] = l
  BY <1>1, AppendProperties
<1>. HIDE DEF longer
<1>3. \A i \in 0..n : NodeAt(longer, i) = NodeAt(trail, i)
  BY <1>1, <1>2 DEF NodeAt
<1>4. NodeAt(longer, n + 1) = to[l]  BY <1>1, <1>2 DEF NodeAt
<1>5. IsWalk(longer)
  <2>1. IsWalk(trail)  BY DEF SearchInv, TrailInv
  <2>2. ASSUME NEW i \in 1..(n + 1)
        PROVE  longer[i] \in ChildLinks(NodeAt(longer, i - 1))
    <3>1. CASE i \in 1..n
      <4>1. i - 1 \in 0..n  BY <3>1, <1>1
      <4>. QED BY <3>1, <4>1, <2>1, <1>2, <1>3 DEF IsWalk
    <3>2. CASE i = n + 1
      BY <3>2, <1>1, <1>2, <1>3, TopLoop
    <3>. QED BY <3>1, <3>2, <1>1
  <2>3. \A i \in 0..n : NodeAt(longer, i) # to[l]
    BY <1>3 DEF SearchInv, VisitedIsTrail
  <2>4. ASSUME NEW i \in 0..(n + 1), NEW j \in 0..(n + 1),
               NodeAt(longer, i) = NodeAt(longer, j)
        PROVE  i = j
    <3>1. CASE i = n + 1  BY <3>1, <2>3, <2>4, <1>1, <1>4
    <3>2. CASE j = n + 1  BY <3>2, <2>3, <2>4, <1>1, <1>4
    <3>3. CASE i \in 0..n /\ j \in 0..n  BY <3>3, <2>1, <2>4, <1>3 DEF IsWalk
    <3>. QED BY <3>1, <3>2, <3>3, <1>1
  <2>. QED BY <2>2, <2>4, <1>2 DEF IsWalk
<1>. QED BY <1>2, <1>3, <1>4, <1>5 DEF longer
(* A loop that takes a link, and no call of dfs that stays.                *)
LEMMA LoopsStay ==
    ASSUME SearchInv, NEW l \in Links, Follow(l),
           UNCHANGED <<query, pc, trail, visited>>
    PROVE  TrailInv' /\ VisitedIsTrail'
<1>. DEFINE n == Len(trail)
<1>1. pc = "searching" /\ pc' = pc /\ trail' = trail /\ visited' = visited
      /\ UNCHANGED <<from, to, items, src, dst>>
  BY DEF Follow, query
<1>2. \A i : NodeAt(trail, i)' = NodeAt(trail, i)
  BY <1>1 DEF NodeAt
<1>3. \A node : ChildLinks(node)' = ChildLinks(node)
  BY <1>1 DEF ChildLinks
<1>4. IsWalk(trail)'
  BY <1>1 DEF SearchInv, TrailInv, IsWalk, NodeAt, ChildLinks
<1>5. n \in Nat /\ Len(todo) = n + 1 /\ Len(todo') = n + 1
  BY <1>1, TopLoop, FollowTakes
<1>6. \A i \in 1..(n + 1) : todo'[i] \subseteq ChildLinks(NodeAt(trail, i - 1))
  <2>1. \A i \in 1..(n + 1) : todo[i] \subseteq ChildLinks(NodeAt(trail, i - 1))
    BY <1>1, <1>5 DEF SearchInv, TrailInv
  <2>2. \A i \in 1..(n + 1) : i = n + 1 \/ i \in 1..n  BY <1>5
  <2>3. \A i \in 1..(n + 1) : todo'[i] \subseteq todo[i]
    BY <2>2, FollowTakes
  <2>. QED BY <2>1, <2>3
<1>7. TrailInv'
  BY <1>1, <1>2, <1>3, <1>4, <1>5, <1>6 DEF SearchInv, TrailInv
<1>8. VisitedIsTrail'
  BY <1>1, <1>2 DEF SearchInv, VisitedIsTrail
<1>. QED BY <1>7, <1>8

(* The call for the end of a link pushes a loop, ...                       *)
LEMMA DescendPushes ==
    ASSUME SearchInv, NEW l \in Links, pc = "searching",
           todo' = Append(Append(Pop(todo), Top(todo) \ {l}), ChildLinks(to[l]))
    PROVE  /\ todo' \in Seq(SUBSET Links)
           /\ Len(todo') = Len(trail) + 2
           /\ \A i \in 1..Len(trail) : todo'[i] = todo[i]
           /\ todo'[Len(trail) + 1] = todo[Len(trail) + 1] \ {l}
           /\ todo'[Len(trail) + 2] = ChildLinks(to[l])
<1>. DEFINE rest == Append(Pop(todo), Top(todo) \ {l})
            n == Len(trail)
<1>1. todo \in Seq(SUBSET Links) /\ n \in Nat  BY TopLoop DEF SearchInv, TypeOK
<1>2. Top(todo) \ {l} \in SUBSET Links /\ ChildLinks(to[l]) \in SUBSET Links
  BY TopLoop DEF ChildLinks
<1>3. /\ Pop(todo) \in Seq(SUBSET Links)
      /\ Len(Pop(todo)) = n
      /\ \A i \in 1..n : Pop(todo)[i] = todo[i]
  BY <1>1, TopLoop, PopLess
<1>4. /\ rest \in Seq(SUBSET Links)
      /\ Len(rest) = n + 1
      /\ \A i \in 1..n : rest[i] = todo[i]
      /\ rest[n + 1] = todo[n + 1] \ {l}
  BY <1>1, <1>2, <1>3, TopLoop, AppendProperties
<1>. DEFINE called == ChildLinks(to[l])
            longer == Append(rest, called)
<1>5. todo' = longer /\ called \in SUBSET Links  BY <1>2
<1>. HIDE DEF rest, called
<1>6. /\ longer \in Seq(SUBSET Links)
      /\ Len(longer) = n + 1 + 1
      /\ \A i \in 1..(n + 1) : longer[i] = rest[i]
      /\ longer[n + 1 + 1] = called
  BY <1>4, <1>5, AppendProperties
<1>. HIDE DEF longer
<1>7. n + 1 + 1 = n + 2 /\ n + 1 \in 1..(n + 1) /\ 1..n \subseteq 1..(n + 1)
  BY <1>1
<1>8. Len(todo') = n + 2 /\ todo'[n + 2] = ChildLinks(to[l])
  BY <1>5, <1>6, <1>7 DEF called
<1>. QED BY <1>4, <1>5, <1>6, <1>7, <1>8

(* ... which its return pops.                                              *)
LEMMA PopsBoth ==
    ASSUME SearchInv, pc = "searching", trail # <<>>,
           trail' = Pop(trail), todo' = Pop(todo)
    PROVE  /\ Len(trail) \in Nat /\ Len(trail) >= 1
           /\ trail' \in Seq(Links) /\ Len(trail') = Len(trail) - 1
           /\ \A i \in 1..(Len(trail) - 1) : trail'[i] = trail[i]
           /\ todo' \in Seq(SUBSET Links) /\ Len(todo') = Len(trail)
           /\ \A i \in 1..Len(trail) : todo'[i] = todo[i]
<1>1. trail \in Seq(Links) /\ todo \in Seq(SUBSET Links)
  BY DEF SearchInv, TypeOK
<1>2. Len(trail) \in Nat /\ Len(trail) >= 1  BY <1>1, EmptySeq
<1>3. /\ trail' \in Seq(Links) /\ Len(trail') = Len(trail) - 1
      /\ \A i \in 1..(Len(trail) - 1) : trail'[i] = trail[i]
  BY <1>1, PopLess
<1>4. /\ todo' \in Seq(SUBSET Links) /\ Len(todo') = Len(todo) - 1
      /\ \A i \in 1..(Len(todo) - 1) : todo'[i] = todo[i]
  BY <1>1, TopLoop, PopLess
<1>5. Len(todo) = Len(trail) + 1  BY TopLoop
<1>. QED BY <1>2, <1>3, <1>4, <1>5

-----------------------------------------------------------------------------
(* The invariant of the search.                                            *)
LEMMA SearchInit == Init => SearchInv
BY EmptySeq DEF Init, SearchInv, TypeOK, TrailInv, VisitedIsTrail

LEMMA SearchStart == SearchInv /\ Start => SearchInv'
<1>. SUFFICES ASSUME SearchInv, Start PROVE SearchInv'
  OBVIOUS
<1>1. trail = <<>> /\ paths = {} /\ src # dst /\ UNCHANGED query
      /\ pc' = "searching" /\ UNCHANGED <<trail, paths>>
      /\ todo' = <<ChildLinks(src)>> /\ visited' = {src}
  BY DEF Start, SearchInv, TrailInv
<1>2. Len(trail') = 0 /\ Len(todo') = 1 /\ todo'[1] = ChildLinks(src)
  BY <1>1
<1>3. TypeOK'
  BY <1>1 DEF SearchInv, TypeOK, query, ChildLinks
<1>4. NodeAt(trail, 0)' = src  BY <1>1 DEF NodeAt, query
<1>5. (ChildLinks(src) = ChildLinks(src)') /\ src' = src /\ dst' = dst
  BY <1>1 DEF ChildLinks, query
<1>6. IsWalk(trail)'
  BY <1>2 DEF IsWalk
<1>7. TrailInv'
  BY <1>1, <1>2, <1>4, <1>5, <1>6 DEF TrailInv
<1>8. VisitedIsTrail'
  BY <1>1, <1>2, <1>4 DEF VisitedIsTrail
<1>. QED BY <1>3, <1>7, <1>8 DEF SearchInv

LEMMA SearchStartAtEnd == SearchInv /\ StartAtEnd => SearchInv'
<1>. SUFFICES ASSUME SearchInv, StartAtEnd PROVE SearchInv'
  OBVIOUS
<1>1. <<>> \in Seq(Links)  BY EmptySeq
<1>2. visited = {}
  BY DEF StartAtEnd, SearchInv, VisitedIsTrail
<1>. QED BY <1>1, <1>2
         DEF StartAtEnd, SearchInv, TypeOK, TrailInv, VisitedIsTrail, query
LEMMA SearchSkip ==
    ASSUME SearchInv, NEW l \in Links, Skip(l)
    PROVE  SearchInv'
<1>1. pc = "searching" /\ UNCHANGED <<query, pc, trail, visited, paths>>
      /\ Follow(l)
  BY DEF Skip, Follow
<1>2. TypeOK'
  BY <1>1, FollowTakes DEF SearchInv, TypeOK, query
<1>3. TrailInv' /\ VisitedIsTrail'
  BY <1>1, LoopsStay
<1>. QED BY <1>2, <1>3 DEF SearchInv

LEMMA SearchArrive ==
    ASSUME SearchInv, NEW l \in Links, Arrive(l)
    PROVE  SearchInv'
<1>1. pc = "searching" /\ UNCHANGED <<query, pc, trail, visited>>
      /\ Follow(l) /\ l \in Top(todo) /\ to[l] \notin visited
      /\ paths' = paths \cup {Append(trail, l)}
  BY DEF Arrive, Follow
<1>2. Append(trail, l) \in Seq(Links)  BY <1>1, TrailExtends
<1>3. TypeOK'
  BY <1>1, <1>2, FollowTakes DEF SearchInv, TypeOK, query
<1>4. TrailInv' /\ VisitedIsTrail'
  BY <1>1, LoopsStay
<1>. QED BY <1>3, <1>4 DEF SearchInv

LEMMA SearchDescend ==
    ASSUME SearchInv, NEW l \in Links, Descend(l)
    PROVE  SearchInv'
<1>. DEFINE n == Len(trail)
<1>1. /\ pc = "searching" /\ l \in Top(todo)
      /\ to[l] \notin visited /\ to[l] # dst
      /\ trail' = Append(trail, l)
      /\ todo' = Append(Append(Pop(todo), Top(todo) \ {l}), ChildLinks(to[l]))
      /\ visited' = visited \cup {to[l]}
      /\ UNCHANGED <<query, pc, paths>>
  BY DEF Descend
<1>2. /\ n \in Nat /\ trail' \in Seq(Links) /\ Len(trail') = n + 1
      /\ \A i \in 0..n : NodeAt(trail', i) = NodeAt(trail, i)
      /\ NodeAt(trail', n + 1) = to[l]
      /\ IsWalk(trail')
  BY <1>1, TrailExtends, TopLoop
<1>3. UNCHANGED <<from, to, items, src, dst>>  BY <1>1 DEF query
<1>4. \A i \in 0..(n + 1) : NodeAt(trail, i)' = NodeAt(trail', i)
  BY <1>3 DEF NodeAt
<1>5. \A node : ChildLinks(node)' = ChildLinks(node)
  BY <1>3 DEF ChildLinks
<1>6. IsWalk(trail)'
  BY <1>2, <1>3 DEF IsWalk, NodeAt, ChildLinks
<1>7. /\ todo' \in Seq(SUBSET Links)
      /\ Len(todo') = n + 2
      /\ \A i \in 1..n : todo'[i] = todo[i]
      /\ todo'[n + 1] = todo[n + 1] \ {l}
      /\ todo'[n + 2] = ChildLinks(to[l])
  BY <1>1, DescendPushes
<1>8. TypeOK'
  <2>1. to[l] \in Nodes  BY DEF SearchInv, TypeOK
  <2>. QED BY <2>1, <1>1, <1>2, <1>3, <1>7 DEF SearchInv, TypeOK
<1>9. TrailInv'
  <2>1. \A i \in 1..(n + 2) : todo'[i] \subseteq ChildLinks(NodeAt(trail', i - 1))
    <3>1. ASSUME NEW i \in 1..n
          PROVE  todo'[i] \subseteq ChildLinks(NodeAt(trail', i - 1))
      <4>1. i - 1 \in 0..n /\ i \in 1..Len(todo)  BY <1>1, <1>2, TopLoop
      <4>2. todo[i] \subseteq ChildLinks(NodeAt(trail, i - 1))
        BY <4>1, <1>1 DEF SearchInv, TrailInv
      <4>. QED BY <4>1, <4>2, <1>2, <1>7
    <3>2. todo'[n + 1] \subseteq ChildLinks(NodeAt(trail', n))
      BY <1>1, <1>2, <1>7, TopLoop
    <3>3. todo'[n + 2] \subseteq ChildLinks(NodeAt(trail', n + 1))
      BY <1>2, <1>7
    <3>. QED BY <3>1, <3>2, <3>3, <1>2
  <2>2. \A i \in 0..(n + 1) : NodeAt(trail', i) # dst
    BY <1>1, <1>2 DEF SearchInv, TrailInv
  <2>3. \A i \in 1..(n + 2) : i - 1 \in 0..(n + 1)  BY <1>2
  <2>4. \A i \in 1..(n + 2) : todo'[i] \subseteq ChildLinks(NodeAt(trail, i - 1))'
    BY <2>1, <2>3, <1>4, <1>5
  <2>5. \A i \in 0..(n + 1) : NodeAt(trail, i)' # dst'
    BY <2>2, <1>3, <1>4
  <2>6. Len(todo') = Len(trail') + 1 /\ Len(todo') = n + 2 /\ Len(trail') = n + 1
    BY <1>2, <1>7
  <2>. QED BY <2>4, <2>5, <2>6, <1>1, <1>6 DEF TrailInv
<1>10. VisitedIsTrail'
  <2>1. 0..(n + 1) = 0..n \cup {n + 1}  BY <1>2
  <2>2. visited = {NodeAt(trail, i) : i \in 0..n}
    BY <1>1 DEF SearchInv, VisitedIsTrail
  <2>3. visited' = {NodeAt(trail, i)' : i \in 0..(n + 1)}
    BY <2>1, <2>2, <1>1, <1>2, <1>4
  <2>. QED BY <2>3, <1>1, <1>2 DEF VisitedIsTrail
<1>. QED BY <1>8, <1>9, <1>10 DEF SearchInv

LEMMA SearchReturn == SearchInv /\ Return => SearchInv'
<1>. SUFFICES ASSUME SearchInv, Return PROVE SearchInv'
  OBVIOUS
<1>. DEFINE n == Len(trail)
<1>1. /\ pc = "searching" /\ trail # <<>>
      /\ visited' = visited \ {NodeAt(trail, n)}
      /\ trail' = Pop(trail) /\ todo' = Pop(todo)
      /\ UNCHANGED <<query, pc, paths>>
  BY DEF Return
<1>2. UNCHANGED <<from, to, items, src, dst>>  BY <1>1 DEF query
<1>3. /\ n \in Nat /\ n >= 1
      /\ trail' \in Seq(Links) /\ Len(trail') = n - 1
      /\ \A i \in 1..(n - 1) : trail'[i] = trail[i]
      /\ todo' \in Seq(SUBSET Links) /\ Len(todo') = n
      /\ \A i \in 1..n : todo'[i] = todo[i]
  BY <1>1, PopsBoth
<1>4. \A i \in 0..(n - 1) : NodeAt(trail, i)' = NodeAt(trail, i)
  BY <1>2, <1>3 DEF NodeAt
<1>5. \A node : ChildLinks(node)' = ChildLinks(node)
  BY <1>2 DEF ChildLinks
<1>6. TypeOK'
  BY <1>1, <1>2, <1>3 DEF SearchInv, TypeOK
<1>7. IsWalk(trail) /\ 0..(n - 1) \subseteq 0..n /\ 1..(n - 1) \subseteq 1..n
  BY <1>1, <1>3 DEF SearchInv, TrailInv
<1>8. IsWalk(trail)'
  <2>1. \A i \in 1..(n - 1) : trail'[i] \in ChildLinks(NodeAt(trail, i - 1))'
    BY <1>3, <1>4, <1>5, <1>7 DEF IsWalk
  <2>2. \A i, j \in 0..(n - 1) :
            NodeAt(trail, i)' = NodeAt(trail, j)' => i = j
    BY <1>4, <1>7 DEF IsWalk
  <2>. QED BY <2>1, <2>2, <1>3 DEF IsWalk
<1>9. TrailInv'
  <2>1. \A i \in 1..n : todo[i] \subseteq ChildLinks(NodeAt(trail, i - 1))
    BY <1>1, <1>3, TopLoop DEF SearchInv, TrailInv
  <2>2. \A i \in 1..n : i - 1 \in 0..(n - 1)  BY <1>3
  <2>3. \A i \in 1..n : todo'[i] \subseteq ChildLinks(NodeAt(trail, i - 1))'
    BY <2>1, <2>2, <1>3, <1>4, <1>5
  <2>4. \A i \in 0..(n - 1) : NodeAt(trail, i)' # dst'
    BY <1>1, <1>2, <1>4, <1>7 DEF SearchInv, TrailInv
  <2>. QED BY <2>3, <2>4, <1>1, <1>3, <1>8 DEF TrailInv
<1>10. VisitedIsTrail'
  <2>1. visited = {NodeAt(trail, i) : i \in 0..n}
    BY <1>1 DEF SearchInv, VisitedIsTrail
  <2>2. \A i \in 0..n : i # n <=> i \in 0..(n - 1)  BY <1>3
  <2>3. \A i \in 0..(n - 1) : NodeAt(trail, i) # NodeAt(trail, n)
    BY <1>7, <2>2, <1>3 DEF IsWalk
  <2>4. visited' = {NodeAt(trail, i) : i \in 0..(n - 1)}
    BY <2>1, <2>2, <2>3, <1>1, <1>3, <1>7
  <2>. QED BY <2>4, <1>1, <1>3, <1>4 DEF VisitedIsTrail
<1>. QED BY <1>6, <1>9, <1>10 DEF SearchInv

LEMMA SearchReturnLast == SearchInv /\ ReturnLast => SearchInv'
BY EmptySeq
   DEF SearchInv, ReturnLast, TypeOK, TrailInv, VisitedIsTrail, query

(* The steps of the results below are lemmas of their own: they hold of    *)
(* any system whose steps are these.                                       *)
LEMMA SearchStep == SearchInv /\ [Next]_vars => SearchInv'
<1>. SUFFICES ASSUME SearchInv, [Next]_vars PROVE SearchInv'
  OBVIOUS
<1>1. CASE Start  BY <1>1, SearchStart
<1>2. CASE StartAtEnd  BY <1>2, SearchStartAtEnd
<1>3. ASSUME NEW l \in Links, Skip(l) PROVE SearchInv'  BY <1>3, SearchSkip
<1>4. ASSUME NEW l \in Links, Arrive(l) PROVE SearchInv'  BY <1>4, SearchArrive
<1>5. ASSUME NEW l \in Links, Descend(l) PROVE SearchInv'  BY <1>5, SearchDescend
<1>6. CASE Return  BY <1>6, SearchReturn
<1>7. CASE ReturnLast  BY <1>7, SearchReturnLast
<1>8. CASE UNCHANGED vars
  BY <1>8 DEF vars, query, SearchInv, TypeOK, TrailInv, VisitedIsTrail,
              IsWalk, NodeAt, ChildLinks
<1>. QED BY <1>1, <1>2, <1>3, <1>4, <1>5, <1>6, <1>7, <1>8 DEF Next

LEMMA SearchHolds == Spec => []SearchInv
BY SearchStep, SearchInit, PTL DEF Spec

(* Every variable of the search has its type, ...                          *)
THEOREM TypeCorrect == Spec => []TypeOK
<1>1. SearchInv => TypeOK  BY DEF SearchInv
<1>. QED BY <1>1, SearchHolds, PTL

(* ... and a node is marked exactly while it is on the path being searched.*)
THEOREM VisitedExact == Spec => []VisitedIsTrail
<1>1. SearchInv => VisitedIsTrail  BY DEF SearchInv
<1>. QED BY <1>1, SearchHolds, PTL
-----------------------------------------------------------------------------
(* Soundness: nothing but paths is recorded.                               *)
LEMMA PathsKept ==
    ASSUME OnlyPaths, UNCHANGED <<query, paths>>
    PROVE  OnlyPaths'
BY DEF OnlyPaths, IsPath, IsWalk, NodeAt, ChildLinks, query

LEMMA ArriveSound ==
    ASSUME SearchInv, OnlyPaths, NEW l \in Links, Arrive(l)
    PROVE  OnlyPaths'
<1>. DEFINE found == Append(trail, l)
<1>1. /\ pc = "searching" /\ l \in Top(todo) /\ to[l] \notin visited
      /\ to[l] = dst /\ paths' = paths \cup {found} /\ UNCHANGED query
  BY DEF Arrive, Follow
<1>2. IsPath(found)
  BY <1>1, TrailExtends DEF IsPath
<1>. HIDE DEF found
<1>3. \A walk \in paths' : IsPath(walk)  BY <1>1, <1>2 DEF OnlyPaths
<1>. QED BY <1>1, <1>3 DEF OnlyPaths, IsPath, IsWalk, NodeAt, ChildLinks, query

LEMMA SoundStep == SearchInv /\ OnlyPaths /\ [Next]_vars => OnlyPaths'
<1>. SUFFICES ASSUME SearchInv, OnlyPaths, [Next]_vars PROVE OnlyPaths'
  OBVIOUS
<1>1. CASE Start \/ Return \/ ReturnLast \/ UNCHANGED vars
  BY <1>1, PathsKept DEF Start, Return, ReturnLast, vars
<1>2. CASE StartAtEnd
  <2>1. paths' = {<<>>} /\ src = dst /\ UNCHANGED query  BY <1>2 DEF StartAtEnd
  <2>2. src' = dst'  BY <2>1 DEF query
  <2>. QED BY <2>1, <2>2 DEF OnlyPaths, IsPath, IsWalk, NodeAt
<1>3. ASSUME NEW l \in Links, Skip(l) \/ Descend(l) PROVE OnlyPaths'
  BY <1>3, PathsKept DEF Skip, Descend
<1>4. ASSUME NEW l \in Links, Arrive(l) PROVE OnlyPaths'
  BY <1>4, ArriveSound
<1>. QED BY <1>1, <1>2, <1>3, <1>4 DEF Next

(* Every path Paths returns leads from the source to the destination       *)
(* through the items of the collection, visiting no item twice.            *)
THEOREM PathsSound == Spec => []OnlyPaths
<1>1. Init => OnlyPaths  BY DEF Init, OnlyPaths
<1>. QED BY <1>1, SoundStep, SearchHolds, PTL DEF Spec

-----------------------------------------------------------------------------
(* Completeness: what has not been recorded is still ahead.                *)
Complete == SearchAhead /\ AllPaths

(* What a path is does not change, nor which walks there are.              *)
LEMMA PathsFixed ==
    ASSUME UNCHANGED query
    PROVE  \A walk : IsPath(walk)' <=> IsPath(walk)
BY DEF IsPath, IsWalk, NodeAt, ChildLinks, query

(* Where a path branches off from the trail.                               *)
Branch(walk, i) ==
    /\ i \in 1..Len(todo) /\ i <= Len(walk) /\ walk[i] \in todo[i]
    /\ \A j \in 1..(i - 1) : walk[j] = trail[j]

LEMMA AheadBranches ==
    /\ \A walk : Ahead(walk) <=> \E i : Branch(walk, i)
    /\ \A walk : Ahead(walk)' <=> \E i : Branch(walk, i)'
BY DEF Ahead, Branch

(* As far as a walk agrees with the trail it is at the same nodes.         *)
LEMMA SameNodes ==
    ASSUME NEW walk, NEW i \in Nat, \A j \in 1..i : walk[j] = trail[j],
           NEW k \in 0..i
    PROVE  NodeAt(walk, k) = NodeAt(trail, k)
BY DEF NodeAt

LEMMA PathFacts ==
    ASSUME NEW walk \in Walks, IsPath(walk)
    PROVE  /\ walk \in Seq(Links) /\ Len(walk) \in Nat
           /\ \A i \in 1..Len(walk) : walk[i] \in ChildLinks(NodeAt(walk, i - 1))
           /\ \A i, j \in 0..Len(walk) : NodeAt(walk, i) = NodeAt(walk, j) => i = j
           /\ NodeAt(walk, Len(walk)) = dst
BY WalksAreSequences, LenProperties DEF IsPath, IsWalk

LEMMA StartAhead == SearchInv /\ Start => Complete'
<1>. SUFFICES ASSUME SearchInv, Start PROVE Complete'
  OBVIOUS
<1>1. /\ src # dst /\ pc' = "searching" /\ todo' = <<ChildLinks(src)>>
      /\ UNCHANGED query
  BY DEF Start
<1>2. ASSUME NEW walk \in Walks, IsPath(walk) PROVE Branch(walk, 1)'
  <2>1. NodeAt(walk, 0) = src  BY DEF NodeAt
  <2>2. Len(walk) >= 1  BY <2>1, <1>1, <1>2, PathFacts
  <2>3. walk[1] \in ChildLinks(src)
    <3>1. 1 \in 1..Len(walk) /\ 1 - 1 = 0  BY <2>2, <1>2, PathFacts
    <3>. QED BY <3>1, <2>1, <1>2, PathFacts
  <2>4. Len(todo') = 1 /\ todo'[1] = ChildLinks(src)  BY <1>1
  <2>. QED BY <2>2, <2>3, <2>4, PathFacts DEF Branch
<1>. QED BY <1>1, <1>2, PathsFixed, AheadBranches
         DEF Complete, SearchAhead, AllPaths, Walks
(* The links the loops of the outer calls have yet to follow stay.         *)
LEMMA BranchKept ==
    ASSUME NEW n \in Nat, NEW walk, NEW i \in 1..n, Branch(walk, i),
           \A j \in 1..(i - 1) : trail'[j] = trail[j],
           todo'[i] = todo[i], n <= Len(todo'), Len(todo') \in Nat
    PROVE  Branch(walk, i)'
BY DEF Branch

(* A loop follows a link: the paths that do not take it are still ahead,   *)
(* those that leave the trail earlier too.                                 *)
LEMMA OthersAhead ==
    ASSUME SearchInv, pc = "searching", NEW l \in Links,
           NEW walk, Ahead(walk),
           Len(todo') \in Nat, Len(todo') >= Len(trail) + 1,
           \A j \in 1..Len(trail) : trail'[j] = trail[j],
           \A i \in 1..Len(trail) : todo'[i] = todo[i],
           todo'[Len(trail) + 1] = todo[Len(trail) + 1] \ {l}
    PROVE  \/ Ahead(walk)'
           \/ /\ Branch(walk, Len(trail) + 1)
              /\ walk[Len(trail) + 1] = l
<1>. DEFINE n == Len(trail)
<1>1. n \in Nat /\ Len(todo) = n + 1  BY TopLoop
<1>2. PICK i : Branch(walk, i)  BY AheadBranches
<1>3. i \in 1..(n + 1)  BY <1>1, <1>2 DEF Branch
<1>4. \A j \in 1..(i - 1) : j \in 1..n  BY <1>1, <1>3
<1>5. CASE i \in 1..n
  <2>1. Branch(walk, i)'
    BY <1>1, <1>2, <1>4, <1>5, BranchKept
  <2>. QED BY <2>1, AheadBranches
<1>6. CASE i = n + 1 /\ walk[n + 1] # l
  <2>1. Branch(walk, i)'  BY <1>1, <1>2, <1>4, <1>6 DEF Branch
  <2>. QED BY <2>1, AheadBranches
<1>7. CASE i = n + 1 /\ walk[n + 1] = l  BY <1>2, <1>7
<1>. QED BY <1>1, <1>3, <1>5, <1>6, <1>7

(* A path that takes the link goes on at its end.                          *)
LEMMA BranchGoesOn ==
    ASSUME SearchInv, pc = "searching", NEW l \in Links,
           NEW walk \in Walks, IsPath(walk),
           Branch(walk, Len(trail) + 1), walk[Len(trail) + 1] = l
    PROVE  /\ NodeAt(walk, Len(trail) + 1) = to[l]
           /\ Len(trail) + 1 <= Len(walk)
           /\ \A j \in 1..Len(trail) : walk[j] = trail[j]
           /\ to[l] \notin visited
<1>. DEFINE n == Len(trail)
<1>1. n \in Nat  BY TopLoop
<1>2. n + 1 <= Len(walk) /\ \A j \in 1..n : walk[j] = trail[j]
  BY <1>1 DEF Branch
<1>3. NodeAt(walk, n + 1) = to[l]  BY <1>1 DEF NodeAt
<1>4. ASSUME NEW k \in 0..n, to[l] = NodeAt(trail, k) PROVE FALSE
  <2>1. NodeAt(walk, k) = NodeAt(trail, k)  BY <1>1, <1>2, SameNodes
  <2>2. k \in 0..Len(walk) /\ n + 1 \in 0..Len(walk) /\ k # n + 1
    BY <1>1, <1>2, PathFacts
  <2>. QED BY <2>1, <2>2, <1>3, <1>4, PathFacts
<1>5. visited = {NodeAt(trail, k) : k \in 0..n}
  BY DEF SearchInv, VisitedIsTrail
<1>. QED BY <1>2, <1>3, <1>4, <1>5

LEMMA SkipAhead ==
    ASSUME SearchInv, SearchAhead, NEW l \in Links, Skip(l)
    PROVE  Complete'
<1>1. /\ pc = "searching" /\ pc' = pc /\ to[l] \in visited /\ Follow(l)
      /\ UNCHANGED <<query, trail, paths>>
  BY DEF Skip, Follow
<1>2. ASSUME NEW walk \in Walks, IsPath(walk), Ahead(walk) PROVE Ahead(walk)'
  <2>1. ~(Branch(walk, Len(trail) + 1) /\ walk[Len(trail) + 1] = l)
    BY <1>1, <1>2, BranchGoesOn
  <2>. QED BY <2>1, <1>1, <1>2, OthersAhead, FollowTakes, TopLoop
<1>. QED BY <1>1, <1>2, PathsFixed
         DEF Complete, SearchAhead, AllPaths, Walks

LEMMA ArriveAhead ==
    ASSUME SearchInv, SearchAhead, NEW l \in Links, Arrive(l)
    PROVE  Complete'
<1>. DEFINE n == Len(trail)
<1>1. /\ pc = "searching" /\ pc' = pc /\ to[l] = dst /\ Follow(l)
      /\ l \in Top(todo) /\ to[l] \notin visited
      /\ paths' = paths \cup {Append(trail, l)}
      /\ UNCHANGED <<query, trail>>
  BY DEF Arrive, Follow
<1>2. ASSUME NEW walk \in Walks, IsPath(walk),
             Branch(walk, n + 1), walk[n + 1] = l
      PROVE  walk = Append(trail, l)
  <2>1. /\ NodeAt(walk, n + 1) = to[l] /\ n + 1 <= Len(walk) /\ n \in Nat
        /\ \A j \in 1..n : walk[j] = trail[j]
    BY <1>1, <1>2, BranchGoesOn, TopLoop
  <2>2. Len(walk) = n + 1
    <3>1. n + 1 \in 0..Len(walk) /\ Len(walk) \in 0..Len(walk)
      BY <1>2, <2>1, PathFacts
    <3>. QED BY <1>1, <1>2, <2>1, <3>1, PathFacts
  <2>3. /\ Append(trail, l) \in Seq(Links) /\ Len(Append(trail, l)) = n + 1
        /\ \A j \in 1..n : Append(trail, l)[j] = trail[j]
        /\ Append(trail, l)[n + 1] = l
    BY <1>1, TrailExtends
  <2>4. ASSUME NEW j \in 1..(n + 1) PROVE walk[j] = Append(trail, l)[j]
    <3>1. j \in 1..n \/ j = n + 1  BY <2>1
    <3>. QED BY <3>1, <1>2, <2>1, <2>3
  <2>. QED BY <2>2, <2>3, <2>4, <1>2, PathFacts, SeqEqual
<1>3. ASSUME NEW walk \in Walks, IsPath(walk), Ahead(walk)
      PROVE  walk \in paths' \/ Ahead(walk)'
  <2>1. \/ Ahead(walk)'
        \/ Branch(walk, n + 1) /\ walk[n + 1] = l
    BY <1>1, <1>3, OthersAhead, FollowTakes, TopLoop
  <2>. QED BY <2>1, <1>1, <1>2, <1>3
<1>. QED BY <1>1, <1>3, PathsFixed
         DEF Complete, SearchAhead, AllPaths, Walks

LEMMA DescendAhead ==
    ASSUME SearchInv, SearchAhead, NEW l \in Links, Descend(l)
    PROVE  Complete'
<1>. DEFINE n == Len(trail)
<1>1. /\ pc = "searching" /\ pc' = pc /\ l \in Top(todo)
      /\ to[l] \notin visited /\ to[l] # dst
      /\ trail' = Append(trail, l)
      /\ todo' = Append(Append(Pop(todo), Top(todo) \ {l}), ChildLinks(to[l]))
      /\ UNCHANGED <<query, paths>>
  BY DEF Descend
<1>2. /\ n \in Nat
      /\ \A j \in 1..n : trail'[j] = trail[j]
      /\ trail'[n + 1] = l
  BY <1>1, TrailExtends, TopLoop
<1>3. /\ Len(todo') = n + 2
      /\ \A i \in 1..n : todo'[i] = todo[i]
      /\ todo'[n + 1] = todo[n + 1] \ {l}
      /\ todo'[n + 2] = ChildLinks(to[l])
  BY <1>1, DescendPushes
<1>4. ASSUME NEW walk \in Walks, IsPath(walk),
             Branch(walk, n + 1), walk[n + 1] = l
      PROVE  Ahead(walk)'
  <2>1. /\ NodeAt(walk, n + 1) = to[l] /\ n + 1 <= Len(walk)
        /\ \A j \in 1..n : walk[j] = trail[j]
    BY <1>1, <1>4, BranchGoesOn
  <2>2. n + 2 <= Len(walk)
    <3>1. Len(walk) # n + 1  BY <1>1, <1>4, <2>1, PathFacts
    <3>. QED BY <3>1, <2>1, <1>2, <1>4, PathFacts
  <2>3. walk[n + 2] \in ChildLinks(to[l])
    <3>1. n + 2 \in 1..Len(walk) /\ n + 2 - 1 = n + 1
      BY <2>2, <1>2, <1>4, PathFacts
    <3>. QED BY <3>1, <2>1, <1>4, PathFacts
  <2>4. \A j \in 1..(n + 1) : walk[j] = trail'[j]
    <3>1. \A j \in 1..(n + 1) : j \in 1..n \/ j = n + 1  BY <1>2
    <3>. QED BY <3>1, <2>1, <1>2, <1>4
  <2>5. n + 2 \in 1..Len(todo') /\ 1..(n + 2 - 1) = 1..(n + 1)
    BY <1>2, <1>3
  <2>6. walk[n + 2] \in todo'[n + 2] /\ \A j \in 1..(n + 2 - 1) : walk[j] = trail'[j]
    BY <2>3, <2>4, <2>5, <1>3
  <2>7. PICK i \in Nat : i = n + 2  BY <1>2
  <2>8. Branch(walk, i)'  BY <2>2, <2>5, <2>6, <2>7 DEF Branch
  <2>. QED BY <2>8, AheadBranches
<1>5. ASSUME NEW walk \in Walks, IsPath(walk), Ahead(walk) PROVE Ahead(walk)'
  <2>1. \/ Ahead(walk)'
        \/ Branch(walk, n + 1) /\ walk[n + 1] = l
    <3>1. Len(todo') \in Nat /\ Len(todo') >= n + 1  BY <1>2, <1>3
    <3>. QED BY <3>1, <1>1, <1>2, <1>3, <1>5, OthersAhead
  <2>. QED BY <2>1, <1>4, <1>5
<1>. QED BY <1>1, <1>5, PathsFixed
         DEF Complete, SearchAhead, AllPaths, Walks

LEMMA ReturnAhead == SearchInv /\ SearchAhead /\ Return => Complete'
<1>. SUFFICES ASSUME SearchInv, SearchAhead, Return PROVE Complete'
  OBVIOUS
<1>. DEFINE n == Len(trail)
<1>1. /\ pc = "searching" /\ pc' = pc /\ trail # <<>> /\ Top(todo) = {}
      /\ trail' = Pop(trail) /\ todo' = Pop(todo)
      /\ UNCHANGED <<query, paths>>
  BY DEF Return
<1>2. /\ n \in Nat /\ n >= 1 /\ Len(todo') = n
      /\ \A i \in 1..(n - 1) : trail'[i] = trail[i]
      /\ \A i \in 1..n : todo'[i] = todo[i]
  BY <1>1, PopsBoth
<1>3. todo[n + 1] = {} /\ Len(todo) = n + 1  BY <1>1, TopLoop
<1>4. ASSUME NEW walk \in Walks, IsPath(walk), Ahead(walk) PROVE Ahead(walk)'
  <2>1. PICK i : Branch(walk, i)  BY <1>4, AheadBranches
  <2>2. i \in 1..n  BY <2>1, <1>2, <1>3 DEF Branch
  <2>3. \A j \in 1..(i - 1) : j \in 1..(n - 1)  BY <2>2, <1>2
  <2>4. Branch(walk, i)'  BY <2>1, <2>2, <2>3, <1>2, BranchKept
  <2>. QED BY <2>4, AheadBranches
<1>. QED BY <1>1, <1>4, PathsFixed
         DEF Complete, SearchAhead, AllPaths, Walks

LEMMA ReturnLastAhead == SearchInv /\ SearchAhead /\ ReturnLast => Complete'
<1>. SUFFICES ASSUME SearchInv, SearchAhead, ReturnLast PROVE Complete'
  OBVIOUS
<1>1. /\ pc = "searching" /\ pc' = "returned" /\ trail = <<>>
      /\ Top(todo) = {} /\ UNCHANGED <<query, paths>>
  BY DEF ReturnLast
<1>2. Len(todo) = 1 /\ todo[1] = {}
  BY <1>1, TopLoop
<1>3. \A walk : ~Ahead(walk)  BY <1>2 DEF Ahead
<1>. QED BY <1>1, <1>3, PathsFixed
         DEF Complete, SearchAhead, AllPaths, Walks

LEMMA StartAtEndAhead == SearchInv /\ StartAtEnd => Complete'
<1>. SUFFICES ASSUME SearchInv, StartAtEnd PROVE Complete'
  OBVIOUS
<1>1. src = dst /\ pc' = "returned" /\ paths' = {<<>>} /\ UNCHANGED query
  BY DEF StartAtEnd
<1>2. ASSUME NEW walk \in Walks, IsPath(walk) PROVE walk = <<>>
  <2>1. NodeAt(walk, 0) = src  BY DEF NodeAt
  <2>2. Len(walk) \in Nat /\ 0 \in 0..Len(walk) /\ Len(walk) \in 0..Len(walk)
    BY <1>2, PathFacts
  <2>3. Len(walk) = 0  BY <2>1, <2>2, <1>1, <1>2, PathFacts
  <2>. QED BY <2>3, <1>2, PathFacts, EmptySeq
<1>. QED BY <1>1, <1>2, PathsFixed
         DEF Complete, SearchAhead, AllPaths, Walks

LEMMA CompleteStep == SearchInv /\ Complete /\ [Next]_vars => Complete'
<1>. SUFFICES ASSUME SearchInv, Complete, [Next]_vars PROVE Complete'
  OBVIOUS
<1>. SearchAhead  BY DEF Complete
<1>1. CASE Start  BY <1>1, StartAhead
<1>2. CASE StartAtEnd  BY <1>2, StartAtEndAhead
<1>3. ASSUME NEW l \in Links, Skip(l) PROVE Complete'  BY <1>3, SkipAhead
<1>4. ASSUME NEW l \in Links, Arrive(l) PROVE Complete'  BY <1>4, ArriveAhead
<1>5. ASSUME NEW l \in Links, Descend(l) PROVE Complete'  BY <1>5, DescendAhead
<1>6. CASE Return  BY <1>6, ReturnAhead
<1>7. CASE ReturnLast  BY <1>7, ReturnLastAhead
<1>8. CASE UNCHANGED vars
  BY <1>8 DEF vars, query, Complete, SearchAhead, AllPaths, Ahead, Walks,
              IsPath, IsWalk, NodeAt, ChildLinks
<1>. QED BY <1>1, <1>2, <1>3, <1>4, <1>5, <1>6, <1>7, <1>8 DEF Next

LEMMA CompleteHolds == Spec => []Complete
<1>1. Init => Complete  BY DEF Init, Complete, SearchAhead, AllPaths
<1>. QED BY <1>1, CompleteStep, SearchHolds, PTL DEF Spec

(* When Paths returns it has found every path between its arguments.       *)
THEOREM PathsComplete == Spec => []AllPaths
<1>1. Complete => AllPaths  BY DEF Complete
<1>. QED BY <1>1, CompleteHolds, PTL
=============================================================================
