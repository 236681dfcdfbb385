--------------------------- MODULE ProvidersProofs ---------------------------
(***************************************************************************)
(* Proofs about Providers, for any set of gateways, any contents, and any  *)
(* number of changes and faults: at rest every gateway has the policy its  *)
(* effective policies make, but for the reasons named; and what is watched *)
(* by lists loses no policy that was wanted all along.                     *)
(***************************************************************************)
EXTENDS Providers, FiniteSetTheorems, TLAPS

(***************************************************************************)
(* Objects, and the finite sets of them.                                   *)
(***************************************************************************)
LEMMA ObjectFacts ==
    /\ \A o \in Objects : KindOf(o) \in Kinds /\ NameOf(o) \in Gateways
    /\ \A g \in Gateways :
          /\ PolicyOf(g) \in ObjectsOf(g) /\ KindOf(PolicyOf(g)) = "Policy"
          /\ RulesFor(g) \in ObjectsOf(g) /\ KindOf(RulesFor(g)) = "Rules"
    /\ \A g, h \in Gateways : PolicyOf(g) = PolicyOf(h) => g = h
    /\ \A o \in Objects : KindOf(o) = "Policy" => o = PolicyOf(NameOf(o))
    /\ \A o \in Objects : KindOf(o) = "Rules" => o = RulesFor(NameOf(o))
    /\ \A g \in Gateways : \A o \in ObjectsOf(g) : o \in Objects /\ NameOf(o) = g
BY DEF Objects, Kinds, KindOf, NameOf, PolicyOf, RulesFor, ObjectsOf

LEMMA ObjectsFinite == IsFiniteSet(Objects)
<1>. DEFINE G == {"Gateway"} \X Gateways \X (1..UIDsPerName)
            P == {"Rules", "Policy"} \X Gateways \X {1}
<1>1. IsFiniteSet(Gateways \X (1..UIDsPerName))
  <2>1. IsFiniteSet(1..UIDsPerName)  BY FS_Interval, ProvidersAssumption
  <2>2. IsFiniteSet(Gateways)  BY ProvidersAssumption
  <2>. QED BY <2>1, <2>2, FS_Product
<1>2. IsFiniteSet(G)
  <2>. DEFINE f == [x \in Gateways \X (1..UIDsPerName) |-> <<"Gateway", x[1], x[2]>>]
  <2>1. f \in Surjection(Gateways \X (1..UIDsPerName), G)
    <3>1. f \in [Gateways \X (1..UIDsPerName) -> G]  OBVIOUS
    <3>2. ASSUME NEW y \in G
          PROVE  \E x \in Gateways \X (1..UIDsPerName) : f[x] = y
      <4>1. <<y[2], y[3]>> \in Gateways \X (1..UIDsPerName)  OBVIOUS
      <4>2. f[<<y[2], y[3]>>] = y  BY <4>1
      <4>. QED BY <4>1, <4>2
    <3>. QED BY <3>1, <3>2 DEF Surjection
  <2>. HIDE DEF f, G
  <2>. QED BY <1>1, <2>1, FS_Surjection
<1>3. IsFiniteSet({"Rules", "Policy"})
  <2>1. IsFiniteSet({"Rules"})  BY FS_Singleton
  <2>2. {"Rules", "Policy"} = {"Rules"} \cup {"Policy"}  OBVIOUS
  <2>. QED BY <2>1, <2>2, FS_AddElement
<1>4. IsFiniteSet({"Rules", "Policy"} \X Gateways)
  BY <1>3, FS_Product, ProvidersAssumption
<1>5. IsFiniteSet(P)
  <2>. DEFINE S == {"Rules", "Policy"} \X Gateways
              f == [x \in S |-> <<x[1], x[2], 1>>]
  <2>1. f \in Surjection(S, P)
    <3>1. f \in [S -> P]  OBVIOUS
    <3>2. ASSUME NEW y \in P
          PROVE  \E x \in S : f[x] = y
      <4>1. <<y[1], y[2]>> \in S  OBVIOUS
      <4>2. f[<<y[1], y[2]>>] = y  BY <4>1
      <4>. QED BY <4>1, <4>2
    <3>. QED BY <3>1, <3>2 DEF Surjection
  <2>. HIDE DEF f, P
  <2>. QED BY <1>4, <2>1, FS_Surjection
<1>. QED BY <1>2, <1>5, FS_Union DEF Objects

LEMMA SetToSeqLists ==
    ASSUME NEW S, IsFiniteSet(S)
    PROVE  /\ SetToSeq(S) \in Seq(S)
           /\ \A x \in S : \E i \in 1..Len(SetToSeq(S)) : SetToSeq(S)[i] = x
           /\ \A i, j \in 1..Len(SetToSeq(S)) :
                 SetToSeq(S)[i] = SetToSeq(S)[j] => i = j
<1>. DEFINE n == Cardinality(S)
            seq == SetToSeq(S)
<1>1. n \in Nat /\ ExistsBijection(1..n, S)  BY FS_CardinalityType
<1>2. \E f \in [1..n -> S] : IsInjective(f)
  BY <1>1 DEF ExistsBijection, Bijection, Injection
<1>3. seq \in [1..n -> S] /\ IsInjective(seq)
  BY <1>2 DEF SetToSeq
<1>4. seq \in Surjection(1..n, S)
  <2>1. seq \in Injection(1..n, S)  BY <1>3 DEF Injection
  <2>2. IsFiniteSet(1..n) /\ Cardinality(1..n) = n  BY <1>1, FS_Interval
  <2>. HIDE DEF seq
  <2>. QED BY <2>1, <2>2, FS_Injection
<1>5. seq \in Seq(S) /\ Len(seq) = n  BY <1>1, <1>3
<1>. QED BY <1>1, <1>3, <1>4, <1>5 DEF Surjection, IsInjective

(* A resource version that no copy of the object has.                      *)
LEMMA FreshVersionIsNew ==
    ASSUME TypeOK, NEW o \in Objects
    PROVE  /\ FreshVersion(o) \in Nat
           /\ \A v \in CopiesOf(o) \ {Absent} : v.version # FreshVersion(o)
<1>. DEFINE ns == notices[KindOf(o)]
            used == {v.version : v \in CopiesOf(o) \ {Absent}}
<1>1. ns \in Seq(Objects \X (Values \cup {Absent}))
  BY ObjectFacts DEF TypeOK
<1>2. IsFiniteSet(ToSet(ns))
  <2>1. IsFiniteSet(1..Len(ns))  BY <1>1, FS_Interval
  <2>2. DOMAIN ns = 1..Len(ns)  BY <1>1
  <2>3. ToSet(ns) = {ns[i] : i \in 1..Len(ns)}  BY <2>2 DEF ToSet
  <2>. DEFINE f == [i \in 1..Len(ns) |-> ns[i]]
  <2>4. f \in Surjection(1..Len(ns), ToSet(ns))  BY <2>3 DEF Surjection
  <2>. QED BY <2>1, <2>4, FS_Surjection
<1>. DEFINE about == {m \in ToSet(ns) : m[1] = o}
            sent == {m[2] : m \in about}
            held == {s[o] : s \in {cluster, cache, list, snapshot, told, view}}
<1>3. IsFiniteSet(sent)
  <2>1. IsFiniteSet(about)  BY <1>2, FS_Subset
  <2>. DEFINE f == [m \in about |-> m[2]]
  <2>2. f \in Surjection(about, sent)  BY DEF Surjection
  <2>. HIDE DEF f, about, sent
  <2>. QED BY <2>1, <2>2, FS_Surjection
<1>4. IsFiniteSet(held)
  <2>1. held = {} \cup {cluster[o]} \cup {cache[o]} \cup {list[o]}
               \cup {snapshot[o]} \cup {told[o]} \cup {view[o]}
    OBVIOUS
  <2>. HIDE DEF held
  <2>. QED BY <2>1, FS_EmptySet, FS_AddElement
<1>5. IsFiniteSet(CopiesOf(o))
  <2>1. CopiesOf(o) = held \cup sent  BY DEF CopiesOf
  <2>. HIDE DEF held, sent
  <2>. QED BY <1>3, <1>4, <2>1, FS_Union
<1>6. IsFiniteSet(used)
  <2>. DEFINE C == CopiesOf(o) \ {Absent}
              f == [v \in C |-> v.version]
  <2>1. IsFiniteSet(C)  BY <1>5, FS_RemoveElement
  <2>2. f \in Surjection(C, used)  BY DEF Surjection
  <2>. HIDE DEF f, C, used
  <2>. QED BY <2>1, <2>2, FS_Surjection
<1>. DEFINE n == Cardinality(used)
<1>7. n \in Nat  BY <1>6, FS_CardinalityType
<1>8. \E i \in 1..(n + 1) : i \notin used
  <2>. SUFFICES ASSUME 1..(n + 1) \subseteq used PROVE FALSE
    OBVIOUS
  <2>1. Cardinality(1..(n + 1)) = n + 1
    BY <1>7, FS_Interval
  <2>. HIDE DEF used
  <2>2. Cardinality(1..(n + 1)) <= n  BY <1>6, FS_Subset
  <2>. QED BY <1>7, <2>1, <2>2
<1>9. FreshVersion(o) = CHOOSE i \in 1..(n + 1) : i \notin used
  BY DEF FreshVersion
<1>10. FreshVersion(o) \in 1..(n + 1) /\ FreshVersion(o) \notin used
  BY <1>8, <1>9
<1>. QED BY <1>7, <1>10

(***************************************************************************)
(* What a step does to the stores: it writes one object, touches the       *)
(* status of one, moves copies on, misses a list, or does none of that.    *)
(***************************************************************************)
NewPolicies(o) ==
    {Policy(spec, FreshVersion(o)) : spec \in Specs}

NewValues(o) ==
    {Absent} \cup IF KindOf(o) = "Gateway"
                  THEN {v \in {Present} : ~Exists(cluster, NameOf(o))}
                  ELSE IF KindOf(o) = "Rules" THEN Contents
                  ELSE NewPolicies(o)

Keeps ==
    /\ UNCHANGED <<mode, provider, listing, feed, view, ahead, restarts>>
    /\ reconciling' \subseteq reconciling /\ deleting' \subseteq deleting

Writes(o, value) ==
    /\ value \in NewValues(o) /\ Write(o, value)
    /\ Keeps /\ UNCHANGED lock

Touches(g) ==
    /\ Known(cluster, g)
    /\ cluster' = [cluster EXCEPT ![PolicyOf(g)] =
                                      Policy(@.spec, FreshVersion(PolicyOf(g)))]
    /\ Keeps /\ UNCHANGED <<notices, triggered, unwanted, lock>>

Moves ==
    \/ \E k \in Kinds : Inform(k) \/ ListKind(k)
    \/ StartReconcile \/ Publish \/ TakeSnapshot \/ StartCall

Rests ==
    /\ Keeps /\ UNCHANGED world
    /\ lock' \in {lock, "free"} /\ (lock = "lister" => lock' = lock)

LEMMA PolicyTyped ==
    ASSUME TypeOK, NEW o \in Objects, KindOf(o) = "Policy",
           NEW value \in NewPolicies(o)
    PROVE  /\ value \in Policies /\ value # Absent
           /\ value.version = FreshVersion(o)
<1>1. PICK spec \in Specs : value = Policy(spec, FreshVersion(o))
  BY DEF NewPolicies
<1>2. FreshVersion(o) \in Nat  BY FreshVersionIsNew
<1>. QED BY <1>1, <1>2, PolicyAssumption DEF Policy, Policies

LEMMA NewValuesTyped ==
    ASSUME TypeOK, NEW o \in Objects, NEW value \in NewValues(o)
    PROVE  value \in ValuesOf(o)
<1>1. KindOf(o) \in Kinds  BY ObjectFacts
<1>2. CASE KindOf(o) = "Policy"
  BY <1>2, PolicyTyped DEF NewValues, ValuesOf
<1>3. CASE KindOf(o) # "Policy"
  BY <1>1, <1>3 DEF NewValues, ValuesOf, Kinds
<1>. QED BY <1>2, <1>3

(* What the reconcilers make for a gateway that wants a policy.            *)
SpecsFor(g) ==
    {spec \in {Made(g, "own"), Updated(g)} :
        Wanted(view, g) /\ (Known(view, g) \/ spec = Made(g, "own"))}

LEMMA RequestKeeps ==
    ASSUME NEW g \in Gateways, Requests(g)
    PROVE  /\ Keeps /\ UNCHANGED lock
           /\ \/ UNCHANGED world
              \/ Write(PolicyOf(g), Absent)
              \/ \E spec \in SpecsFor(g) :
                    Write(PolicyOf(g), Policy(spec, FreshVersion(PolicyOf(g))))
<1>1. CASE CreatePolicy(g)
  BY <1>1 DEF CreatePolicy, Reconciling, Keeps, Refused, Lost, SpecsFor
<1>2. CASE UpdatePolicy(g)
  BY <1>2 DEF UpdatePolicy, Reconciling, Keeps, Refused, Lost, Nothing,
             Linked, SpecsFor
<1>3. CASE DeleteUnwanted(g)
  BY <1>3 DEF DeleteUnwanted, Reconciling, Keeps, DeleteByName, Refused, Lost, Nothing
<1>4. CASE DeleteWithGateway(g)
  BY <1>4 DEF DeleteWithGateway, Deleting, Keeps, DeleteByName, Refused, Lost, Nothing
<1>. QED BY <1>1, <1>2, <1>3, <1>4 DEF Requests

LEMMA SpecsTyped ==
    ASSUME TypeOK, NEW g \in Gateways, NEW spec \in SpecsFor(g)
    PROVE  spec \in Specs
<1>1. view[RulesFor(g)] \in ValuesOf(RulesFor(g)) /\ KindOf(RulesFor(g)) = "Rules"
  BY ObjectFacts DEF TypeOK, IsStore
<1>2. Desired(view, g) \in Contents \cup {ExtAuth}
  BY <1>1 DEF ValuesOf, Wanted, Desired, SpecsFor
<1>3. \A target \in Targets : Made(g, target) \in Specs
  BY <1>2 DEF Made, Specs
<1>4. Made(g, "own") \in Specs  BY <1>3 DEF Targets
<1>5. Known(view, g) => view[PolicyOf(g)].spec.target \in Targets
  <2>1. view[PolicyOf(g)] \in ValuesOf(PolicyOf(g)) /\ KindOf(PolicyOf(g)) = "Policy"
    BY ObjectFacts DEF TypeOK, IsStore
  <2>. QED BY <2>1 DEF ValuesOf, Known, Policies, Specs
<1>6. Known(view, g) => Updated(g) \in Specs
  BY <1>3, <1>4, <1>5 DEF Updated
<1>. QED BY <1>4, <1>6 DEF SpecsFor

LEMMA RequestValues ==
    ASSUME TypeOK, NEW g \in Gateways
    PROVE  /\ Absent \in NewValues(PolicyOf(g))
           /\ \A spec \in SpecsFor(g) :
                 Policy(spec, FreshVersion(PolicyOf(g))) \in NewValues(PolicyOf(g))
<1>1. KindOf(PolicyOf(g)) = "Policy"  BY ObjectFacts
<1>. QED BY <1>1, SpecsTyped DEF NewValues, NewPolicies

LEMMA RequestSteps ==
    ASSUME TypeOK, NEW g \in Gateways, Requests(g)
    PROVE  Rests \/ \E o \in Objects : \E value \in NewValues(o) : Writes(o, value)
<1>1. PolicyOf(g) \in Objects  BY ObjectFacts
<1>. QED BY <1>1, RequestKeeps, RequestValues DEF Rests, Writes

LEMMA OthersSteps ==
    ASSUME TypeOK, ByOthers
    PROVE  \/ \E o \in Objects : \E value \in NewValues(o) : Writes(o, value)
           \/ \E g \in Gateways : Touches(g)
<1>0. Others => Keeps /\ UNCHANGED lock
  BY DEF Others, call, Keeps
<1>1. ASSUME NEW o \in Objects, CreateGateway(o) \/ DeleteGateway(o)
      PROVE  \E value \in NewValues(o) : Writes(o, value)
  BY <1>0, <1>1 DEF CreateGateway, DeleteGateway, Writes, NewValues
<1>2. ASSUME NEW g \in Gateways, NEW c \in Contents \cup {Absent}, ChangeRules(g, c)
      PROVE  \E o \in Objects : \E value \in NewValues(o) : Writes(o, value)
  BY <1>0, <1>2, ObjectFacts DEF ChangeRules, Writes, NewValues
<1>3. ASSUME NEW g \in Gateways, NEW spec \in Edits, EditPolicy(g, spec)
      PROVE  \E o \in Objects : \E value \in NewValues(o) : Writes(o, value)
  BY <1>0, <1>3, ObjectFacts, PolicyAssumption
  DEF EditPolicy, Writes, NewValues, NewPolicies
<1>4. ASSUME NEW g \in Gateways, RemovePolicy(g)
      PROVE  \E o \in Objects : \E value \in NewValues(o) : Writes(o, value)
  BY <1>0, <1>4, ObjectFacts DEF RemovePolicy, Writes, NewValues
<1>5. ASSUME NEW g \in Gateways, WriteStatus(g)
      PROVE  Touches(g)
  BY <1>0, <1>5 DEF WriteStatus, Touches
<1>. QED BY <1>1, <1>2, <1>3, <1>4, <1>5 DEF ByOthers

LEMMA StoreSteps ==
    ASSUME TypeOK, [Next]_vars
    PROVE  \/ \E o \in Objects : \E value \in NewValues(o) : Writes(o, value)
           \/ \E g \in Gateways : Touches(g)
           \/ Moves \/ Rests \/ Restart \/ \E k \in Kinds : ListKindFails(k)
<1>1. CASE ByOthers  BY <1>1, OthersSteps
<1>2. ASSUME NEW g \in Gateways, Requests(g)
      PROVE  Rests \/ \E o \in Objects : \E value \in NewValues(o) : Writes(o, value)
  BY <1>2, RequestSteps
<1>3. CASE EndCall  BY <1>3 DEF EndCall, Rests, Keeps
<1>4. CASE FileFails  BY <1>4 DEF FileFails, Rests, Keeps
<1>5. CASE UNCHANGED vars  BY <1>5 DEF vars, call, Rests, Keeps
<1>. QED BY <1>1, <1>2, <1>3, <1>4, <1>5 DEF Next, Lister, Call, Moves

(***************************************************************************)
(* Types.                                                                  *)
(***************************************************************************)
LEMMA AppendSet ==
    ASSUME NEW S, NEW q \in Seq(S), NEW x \in S
    PROVE  /\ Append(q, x) \in Seq(S)
           /\ ToSet(Append(q, x)) = ToSet(q) \cup {x}
<1>1. /\ Append(q, x) \in Seq(S)
      /\ DOMAIN q = 1..Len(q) /\ Len(q) \in Nat
      /\ DOMAIN Append(q, x) = 1..(Len(q) + 1)
      /\ \A i \in 1..Len(q) : Append(q, x)[i] = q[i]
      /\ Append(q, x)[Len(q) + 1] = x
  OBVIOUS
<1>2. \A y \in ToSet(Append(q, x)) : y \in ToSet(q) \cup {x}
  BY <1>1 DEF ToSet
<1>3. \A y \in ToSet(q) : y \in ToSet(Append(q, x))
  BY <1>1 DEF ToSet
<1>4. x \in ToSet(Append(q, x))
  BY <1>1 DEF ToSet
<1>. QED BY <1>1, <1>2, <1>3, <1>4

LEMMA TailSet ==
    ASSUME NEW S, NEW q \in Seq(S), q # <<>>
    PROVE  /\ Tail(q) \in Seq(S) /\ Len(Tail(q)) = Len(q) - 1
           /\ ToSet(Tail(q)) \subseteq ToSet(q)
           /\ Head(q) \in ToSet(q) /\ Head(q) = q[1] /\ Len(q) \in Nat \ {0}
           /\ \A i \in 1..(Len(q) - 1) : Tail(q)[i] = q[i + 1]
<1>1. /\ Tail(q) \in Seq(S) /\ Len(q) \in Nat \ {0} /\ DOMAIN q = 1..Len(q)
      /\ Len(Tail(q)) = Len(q) - 1 /\ DOMAIN Tail(q) = 1..(Len(q) - 1)
      /\ \A i \in 1..(Len(q) - 1) : Tail(q)[i] = q[i + 1]
      /\ Head(q) = q[1]
  OBVIOUS
<1>2. \A y \in ToSet(Tail(q)) : y \in ToSet(q)
  BY <1>1 DEF ToSet
<1>3. Head(q) \in ToSet(q)
  BY <1>1 DEF ToSet
<1>. QED BY <1>1, <1>2, <1>3

Notices == Objects \X (Values \cup {Absent})

NoticesTyped ==
    /\ notices \in [Kinds -> Seq(Notices)]
    /\ \A k \in Kinds : \A n \in ToSet(notices[k]) : IsNotice(n, k)

StoresTyped == \A s \in {cluster, cache, list, snapshot, told, view} : IsStore(s)

LEMMA EmptyStoreTyped == IsStore(EmptyStore)
BY DEF IsStore, EmptyStore, ValuesOf

LEMMA PutTyped ==
    ASSUME NEW s, IsStore(s), NEW o \in Objects, NEW v \in ValuesOf(o)
    PROVE  IsStore([s EXCEPT ![o] = v])
<1>1. v \in Values \cup {Absent}  BY DEF ValuesOf, Values
<1>2. \A p \in Objects : [s EXCEPT ![o] = v][p] \in ValuesOf(p)
  BY DEF IsStore
<1>. QED BY <1>1, <1>2 DEF IsStore

LEMMA WriteTyped ==
    ASSUME TypeOK, NEW o \in Objects, NEW value \in NewValues(o), Writes(o, value)
    PROVE  StoresTyped' /\ NoticesTyped'
<1>. DEFINE k == KindOf(o)
<1>1. value \in ValuesOf(o) /\ value \in Values \cup {Absent} /\ k \in Kinds
  BY NewValuesTyped, ObjectFacts DEF ValuesOf, Values
<1>2. IsStore(cluster')
  BY <1>1, PutTyped DEF TypeOK, Writes, Write
<1>3. StoresTyped'
  BY <1>2 DEF TypeOK, StoresTyped, Writes, Keeps, listing, feed
<1>4. CASE mode = "delta"
  <2>1. notices' = [notices EXCEPT ![k] = Append(@, <<o, value>>)]
    BY <1>4 DEF Writes, Write
  <2>2. /\ Append(notices[k], <<o, value>>) \in Seq(Notices)
        /\ ToSet(Append(notices[k], <<o, value>>)) = ToSet(notices[k]) \cup {<<o, value>>}
    <3>1. notices[k] \in Seq(Notices) /\ <<o, value>> \in Notices
      BY <1>1 DEF TypeOK, Notices
    <3>. QED BY <3>1, AppendSet
  <2>3. notices' \in [Kinds -> Seq(Notices)]
    BY <2>1, <2>2 DEF TypeOK, Notices
  <2>4. IsNotice(<<o, value>>, k)
    BY <1>1 DEF IsNotice
  <2>5. ASSUME NEW j \in Kinds, NEW n \in ToSet(notices'[j]) PROVE IsNotice(n, j)
    <3>1. CASE j = k
      BY <2>1, <2>2, <2>4, <2>5, <3>1 DEF TypeOK
    <3>2. CASE j # k
      BY <2>1, <2>5, <3>2 DEF TypeOK
    <3>. QED BY <3>1, <3>2
  <2>. QED BY <1>3, <2>3, <2>5 DEF NoticesTyped
<1>5. CASE mode # "delta"
  BY <1>3, <1>5 DEF Writes, Write, TypeOK, NoticesTyped, Notices
<1>. QED BY <1>4, <1>5

LEMMA InformTyped ==
    ASSUME TypeOK, NEW k \in Kinds, Inform(k)
    PROVE  StoresTyped' /\ NoticesTyped'
<1>1. notices[k] \in Seq(Notices) /\ notices[k] # <<>>
  BY DEF TypeOK, Notices, Inform
<1>2. /\ Tail(notices[k]) \in Seq(Notices)
      /\ ToSet(Tail(notices[k])) \subseteq ToSet(notices[k])
      /\ Head(notices[k]) \in ToSet(notices[k])
  BY <1>1, TailSet
<1>3. IsNotice(Head(notices[k]), k)
  BY <1>2 DEF TypeOK
<1>4. IsStore(cache')
  BY <1>3, PutTyped DEF TypeOK, IsNotice, Inform
<1>5. StoresTyped'
  BY <1>4 DEF TypeOK, StoresTyped, Inform, listing, call
<1>6. /\ notices' = [notices EXCEPT ![k] = Tail(@)]
      /\ notices \in [Kinds -> Seq(Notices)]
  BY DEF Inform, TypeOK, Notices
<1>7. notices' \in [Kinds -> Seq(Notices)]
  BY <1>2, <1>6
<1>8. ASSUME NEW j \in Kinds, NEW n \in ToSet(notices'[j]) PROVE IsNotice(n, j)
  <2>1. n \in ToSet(notices[j])
    BY <1>2, <1>6, <1>8
  <2>. QED BY <2>1 DEF TypeOK
<1>. QED BY <1>5, <1>7, <1>8 DEF NoticesTyped

LEMMA SubscribeTyped ==
    ASSUME IsStore(cluster),
           NEW q, q = [k \in Kinds |->
                IF mode = "state" THEN <<>>
                ELSE SetToSeq({<<o, cluster[o]>> : o \in Pending(k)})]
    PROVE  /\ q \in [Kinds -> Seq(Notices)]
           /\ \A k \in Kinds : \A n \in ToSet(q[k]) : IsNotice(n, k)
<1>1. ASSUME NEW k \in Kinds
      PROVE  /\ q[k] \in Seq(Notices)
             /\ \A n \in ToSet(q[k]) : IsNotice(n, k)
  <2>1. CASE mode = "state"
    BY <2>1 DEF ToSet
  <2>2. CASE mode # "state"
    <3>. DEFINE S == {<<o, cluster[o]>> : o \in Pending(k)}
    <3>1. q[k] = SetToSeq(S)  BY <2>2
    <3>2. IsFiniteSet(S)
      <4>. DEFINE f == [o \in Pending(k) |-> <<o, cluster[o]>>]
      <4>1. IsFiniteSet(Pending(k))  BY ObjectsFinite, FS_Subset DEF Pending
      <4>2. f \in Surjection(Pending(k), S)  BY DEF Surjection
      <4>. HIDE DEF f, S
      <4>. QED BY <4>1, <4>2, FS_Surjection
    <3>3. \A n \in S : n \in Notices /\ IsNotice(n, k)
      BY DEF Pending, Notices, IsNotice, IsStore
    <3>. HIDE DEF S
    <3>4. q[k] \in Seq(S)  BY <3>1, <3>2, SetToSeqLists
    <3>5. ToSet(q[k]) \subseteq S  BY <3>4 DEF ToSet
    <3>6. q[k] \in Seq(Notices)  BY <3>3, <3>4
    <3>. QED BY <3>3, <3>5, <3>6
  <2>. QED BY <2>1, <2>2
<1>. QED BY <1>1

LEMMA StoresStep == TypeOK /\ [Next]_vars => StoresTyped' /\ NoticesTyped'
<1>. SUFFICES ASSUME TypeOK, [Next]_vars PROVE StoresTyped' /\ NoticesTyped'
  OBVIOUS
<1>0. StoresTyped /\ NoticesTyped
  BY DEF TypeOK, StoresTyped, NoticesTyped, Notices
<1>1. ASSUME NEW o \in Objects, NEW value \in NewValues(o), Writes(o, value)
      PROVE  StoresTyped' /\ NoticesTyped'
  BY <1>1, WriteTyped
<1>2. ASSUME NEW g \in Gateways, Touches(g) PROVE StoresTyped' /\ NoticesTyped'
  <2>. DEFINE o == PolicyOf(g)
              v == Policy(cluster[o].spec, FreshVersion(o))
  <2>1. o \in Objects /\ KindOf(o) = "Policy"  BY ObjectFacts
  <2>2. cluster[o] \in Policies
    BY <1>2, <2>1 DEF TypeOK, IsStore, ValuesOf, Touches, Known
  <2>3. v \in ValuesOf(o)
    BY <2>1, <2>2, FreshVersionIsNew DEF ValuesOf, Policies, Policy
  <2>4. IsStore(cluster')
    BY <1>2, <2>1, <2>3, PutTyped DEF TypeOK, Touches
  <2>. QED BY <1>0, <1>2, <2>4 DEF Touches, Keeps, StoresTyped, NoticesTyped, listing, feed
<1>3. CASE Moves
  <2>1. ASSUME NEW k \in Kinds, Inform(k) PROVE StoresTyped' /\ NoticesTyped'
    BY <2>1, InformTyped
  <2>2. ASSUME NEW k \in Kinds, ListKind(k) PROVE StoresTyped' /\ NoticesTyped'
    <3>1. IsStore(list')
      BY <2>2 DEF TypeOK, IsStore, ListKind
    <3>. QED BY <1>0, <2>2, <3>1
         DEF ListKind, StoresTyped, NoticesTyped, world, feed, call
  <2>3. CASE StartReconcile
    BY <1>0, <2>3, EmptyStoreTyped DEF StartReconcile, StoresTyped, NoticesTyped, feed, call
  <2>4. CASE Publish
    BY <1>0, <2>4, EmptyStoreTyped DEF Publish, StoresTyped, NoticesTyped, world, call
  <2>5. CASE TakeSnapshot
    BY <1>0, <2>5 DEF TakeSnapshot, Feed!Take, StoresTyped, NoticesTyped, world, listing, call
  <2>6. CASE StartCall
    BY <1>0, <2>6 DEF StartCall, Feed!Tell, StoresTyped, NoticesTyped, world, listing
  <2>. QED BY <1>3, <2>1, <2>2, <2>3, <2>4, <2>5, <2>6 DEF Moves
<1>4. CASE Rests
  BY <1>0, <1>4 DEF Rests, Keeps, StoresTyped, NoticesTyped, world, listing, feed
<1>5. CASE Restart
  <2>1. StoresTyped'
    BY <1>0, <1>5, EmptyStoreTyped DEF Restart, StoresTyped
  <2>2. NoticesTyped'
    BY <1>0, <1>5, SubscribeTyped DEF Restart, Subscribe, StoresTyped, NoticesTyped
  <2>. QED BY <2>1, <2>2
<1>6. ASSUME NEW k \in Kinds, ListKindFails(k) PROVE StoresTyped' /\ NoticesTyped'
  <2>1. IsStore(list')
    BY <1>6 DEF TypeOK, IsStore, ListKindFails, ValuesOf
  <2>. QED BY <1>0, <1>6, <2>1
       DEF ListKindFails, StoresTyped, NoticesTyped, feed, call
<1>. QED BY <1>1, <1>2, <1>3, <1>4, <1>5, <1>6, StoreSteps

(* The other variables.                                                    *)
OthersTyped ==
    /\ mode \in {"delta", "state"} /\ provider \in {"istio", "envoy"}
    /\ triggered \in BOOLEAN /\ unlisted \subseteq Kinds /\ missed \subseteq Kinds
    /\ lock \in {"free", "lister", "handler"} /\ taken \in BOOLEAN
    /\ reconciling \subseteq Gateways /\ deleting \subseteq Gateways
    /\ cancelled \in BOOLEAN /\ ahead \subseteq Gateways
    /\ unwanted \subseteq Gateways /\ restarts \in Nat
    /\ outcome \in [Gateways -> {"none", "created", "done", "failed"}]

LEMMA RequestTyped ==
    ASSUME OthersTyped, NEW g \in Gateways, Requests(g)
    PROVE  OthersTyped'
<1>. USE DEF OthersTyped, listing, feed
<1>1. /\ UNCHANGED <<mode, provider, listing, lock, feed, view, cancelled, ahead,
                     restarts>>
      /\ reconciling' \subseteq reconciling /\ deleting' \subseteq deleting
  BY DEF Requests, CreatePolicy, UpdatePolicy, DeleteUnwanted, DeleteWithGateway,
         Reconciling, Deleting
<1>2. /\ UNCHANGED world \/ \E v : Write(PolicyOf(g), v)
      /\ UNCHANGED outcome \/ \E how \in {"created", "done", "failed"} : Ends(g, how)
  <2>1. CASE CreatePolicy(g)
    BY <2>1 DEF CreatePolicy, Refused, Lost
  <2>2. CASE UpdatePolicy(g)
    BY <2>2 DEF UpdatePolicy, Refused, Lost, Nothing
  <2>3. CASE DeleteUnwanted(g)
    BY <2>3 DEF DeleteUnwanted, DeleteByName, Refused, Lost, Nothing
  <2>4. CASE DeleteWithGateway(g)
    BY <2>4 DEF DeleteWithGateway, DeleteByName, Refused, Lost, Nothing
  <2>. QED BY <2>1, <2>2, <2>3, <2>4 DEF Requests
<1>3. triggered' \in BOOLEAN /\ unwanted' \subseteq Gateways
  BY <1>2 DEF world, Write
<1>4. outcome' \in [Gateways -> {"none", "created", "done", "failed"}]
  BY <1>2 DEF Ends
<1>. QED BY <1>1, <1>3, <1>4

LEMMA OthersTypedStep == OthersTyped /\ [Next]_vars => OthersTyped'
<1>. SUFFICES ASSUME OthersTyped, [Next]_vars PROVE OthersTyped'
  OBVIOUS
<1>. USE DEF OthersTyped, listing, feed, call
<1>1. CASE ByOthers
  <2>1. Others
    BY <1>1 DEF ByOthers, CreateGateway, DeleteGateway, ChangeRules, EditPolicy,
                RemovePolicy, WriteStatus
  <2>2. triggered' \in BOOLEAN /\ unwanted' \subseteq Gateways
    BY <1>1 DEF ByOthers, CreateGateway, DeleteGateway, ChangeRules, EditPolicy,
                RemovePolicy, WriteStatus, Write
  <2>. QED BY <2>1, <2>2 DEF Others
<1>2. ASSUME NEW k \in Kinds, Inform(k) \/ ListKind(k) \/ ListKindFails(k)
      PROVE  OthersTyped'
  BY <1>2 DEF Inform, ListKind, ListKindFails, world
<1>3. CASE StartReconcile \/ Publish
  BY <1>3 DEF StartReconcile, Publish, world
<1>4. CASE TakeSnapshot \/ FileFails \/ EndCall
  BY <1>4 DEF TakeSnapshot, Feed!Take, FileFails, EndCall, world
<1>5. CASE StartCall
  <2>1. deleting' \subseteq Gateways
    <3>1. \A e \in Feed!EventsBetween(told, snapshot) : NameOf(e.uid) \in Gateways
      BY ObjectFacts DEF Feed!EventsBetween, Feed!EventOf
    <3>. QED BY <1>5, <3>1 DEF StartCall
  <2>2. /\ reconciling' \subseteq Gateways /\ ahead' \subseteq Gateways
        /\ outcome' \in [Gateways -> {"none", "created", "done", "failed"}]
    BY <1>5 DEF StartCall
  <2>3. /\ UNCHANGED <<mode, provider, world, listing, restarts>> /\ taken' = FALSE
        /\ lock' = "handler" /\ cancelled' = FALSE
    BY <1>5 DEF StartCall, Feed!Tell
  <2>. QED BY <2>1, <2>2, <2>3 DEF world
<1>6. ASSUME NEW g \in Gateways, Requests(g) PROVE OthersTyped'
  BY <1>6, RequestTyped
<1>7. CASE Restart
  <2>1. triggered' \in BOOLEAN /\ unwanted' \subseteq Gateways
    BY <1>7 DEF Restart, Subscribe
  <2>2. outcome' \in [Gateways -> {"none", "created", "done", "failed"}]
    BY <1>7 DEF Restart
  <2>3. /\ mode' = mode /\ provider' = provider
        /\ restarts' = restarts + 1 /\ taken' = FALSE
        /\ unlisted' = {} /\ missed' = {} /\ lock' = "free" /\ cancelled' = FALSE
        /\ reconciling' = {} /\ deleting' = {} /\ ahead' = {}
    BY <1>7 DEF Restart
  <2>4. restarts' \in Nat  BY <2>3
  <2>5. /\ mode' \in {"delta", "state"} /\ provider' \in {"istio", "envoy"}
        /\ unlisted' \subseteq Kinds /\ missed' \subseteq Kinds
        /\ lock' \in {"free", "lister", "handler"}
        /\ taken' \in BOOLEAN /\ cancelled' \in BOOLEAN
        /\ reconciling' \subseteq Gateways /\ deleting' \subseteq Gateways
        /\ ahead' \subseteq Gateways
    BY <2>3
  <2>. QED BY <2>1, <2>2, <2>4, <2>5, Zenon
<1>8. CASE UNCHANGED vars
  BY <1>8 DEF vars, world
<1>. QED BY <1>1, <1>2, <1>3, <1>4, <1>5, <1>6, <1>7, <1>8 DEF Next, Lister, Call

LEMMA TypeParts == TypeOK <=> StoresTyped /\ NoticesTyped /\ OthersTyped
BY DEF TypeOK, StoresTyped, NoticesTyped, OthersTyped, Notices

LEMMA TypeInit == Init => TypeOK
<1>. SUFFICES ASSUME Init PROVE TypeOK
  OBVIOUS
<1>1. IsStore(cluster)
  <2>1. PICK gws \in SUBSET Gateways, rules \in [Gateways -> FirstContents \cup {Absent}] :
          cluster = [o \in Objects |->
              IF KindOf(o) = "Gateway" /\ NameOf(o) \in gws /\ o[3] = 1 THEN Present
              ELSE IF KindOf(o) = "Rules" THEN rules[NameOf(o)]
              ELSE Absent]
    BY DEF Init
  <2>2. \A o \in Objects : cluster[o] \in ValuesOf(o)
    BY <2>1, ObjectFacts, ProvidersAssumption DEF ValuesOf
  <2>3. \A o \in Objects : ValuesOf(o) \subseteq Values \cup {Absent}
    BY DEF ValuesOf, Values
  <2>. QED BY <2>1, <2>2, <2>3 DEF IsStore
<1>2. StoresTyped
  BY <1>1, EmptyStoreTyped DEF Init, StoresTyped
<1>3. NoticesTyped
  BY <1>1, SubscribeTyped DEF Init, NoticesTyped
<1>4. OthersTyped
  BY DEF Init, OthersTyped
<1>. QED BY <1>2, <1>3, <1>4, TypeParts

LEMMA TypeStep == TypeOK /\ [Next]_vars => TypeOK'
<1>1. TypeOK /\ [Next]_vars => StoresTyped' /\ NoticesTyped' /\ OthersTyped'
  BY StoresStep, OthersTypedStep, TypeParts
<1>. QED BY <1>1, TypeParts, PTL

(* Every variable of the loop has its type; what the stores hold, and what *)
(* is on its way to them, is an object of its kind.                        *)
THEOREM TypeCorrect == Spec => []TypeOK
BY TypeStep, TypeInit, PTL DEF Spec

(***************************************************************************)
(* Modes, and gateways of one name.                                        *)
(***************************************************************************)
ModeInv ==
    /\ mode = "delta" => ~triggered /\ lock # "lister" /\ missed = {}
    /\ mode = "state" => \A k \in Kinds : notices[k] = <<>>

(* Outside of a call nothing is left to be handled.                        *)
IdleInv == lock # "handler" => reconciling = {} /\ deleting = {}

(* A name belongs to one gateway at a time.                                *)
Apart(s) ==
    \A g \in Gateways : \A o, p \in ObjectsOf(g) :
        /\ KindOf(o) = "Gateway" /\ s[o] # Absent
        /\ KindOf(p) = "Gateway" /\ s[p] # Absent
        => o = p

BaseInv == TypeOK /\ ModeInv /\ IdleInv /\ Apart(cluster)

LEMMA ModeStep == TypeOK /\ ModeInv /\ [Next]_vars => ModeInv'
<1>. SUFFICES ASSUME TypeOK, ModeInv, [Next]_vars PROVE ModeInv'
  OBVIOUS
<1>. USE DEF ModeInv
<1>1. ASSUME NEW o \in Objects, NEW value \in NewValues(o), Writes(o, value)
      PROVE  ModeInv'
  BY <1>1 DEF Writes, Write, Keeps, TypeOK, listing
<1>2. ASSUME NEW g \in Gateways, Touches(g) PROVE ModeInv'
  BY <1>2 DEF Touches, Keeps, listing
<1>3. CASE Moves
  <2>1. ASSUME NEW k \in Kinds, Inform(k) PROVE ModeInv'
    BY <2>1 DEF Inform, TypeOK, listing
  <2>2. ASSUME NEW k \in Kinds, ListKind(k) PROVE ModeInv'
    BY <2>2 DEF ListKind, world
  <2>3. CASE StartReconcile \/ Publish \/ TakeSnapshot \/ StartCall
    BY <2>3 DEF StartReconcile, Publish, TakeSnapshot, StartCall, world, listing
  <2>. QED BY <1>3, <2>1, <2>2, <2>3 DEF Moves
<1>4. CASE Rests
  BY <1>4 DEF Rests, Keeps, world, listing
<1>5. CASE Restart
  BY <1>5 DEF Restart, Subscribe, TypeOK
<1>6. ASSUME NEW k \in Kinds, ListKindFails(k) PROVE ModeInv'
  BY <1>6 DEF ListKindFails
<1>. QED BY <1>1, <1>2, <1>3, <1>4, <1>5, <1>6, StoreSteps

LEMMA IdleStep == IdleInv /\ [Next]_vars => IdleInv'
<1>. SUFFICES ASSUME IdleInv, [Next]_vars PROVE IdleInv'
  OBVIOUS
<1>. USE DEF IdleInv, call
<1>1. CASE ByOthers
  BY <1>1 DEF ByOthers, CreateGateway, DeleteGateway, ChangeRules, EditPolicy,
              RemovePolicy, WriteStatus, Others
<1>2. ASSUME NEW k \in Kinds, Inform(k) \/ ListKind(k) \/ ListKindFails(k)
      PROVE  IdleInv'
  BY <1>2 DEF Inform, ListKind, ListKindFails
<1>3. CASE StartReconcile \/ Publish \/ TakeSnapshot \/ StartCall
  BY <1>3 DEF StartReconcile, Publish, TakeSnapshot, StartCall
<1>4. CASE FileFails \/ EndCall \/ Restart
  BY <1>4 DEF FileFails, EndCall, Restart
<1>5. ASSUME NEW g \in Gateways, Requests(g) PROVE IdleInv'
  BY <1>5 DEF Requests, CreatePolicy, UpdatePolicy, DeleteUnwanted,
              DeleteWithGateway, Reconciling, Deleting
<1>6. CASE UNCHANGED vars  BY <1>6 DEF vars
<1>. QED BY <1>1, <1>2, <1>3, <1>4, <1>5, <1>6 DEF Next, Lister, Call

LEMMA MovesKeepCluster ==
    Moves => UNCHANGED <<mode, provider, cluster, unwanted, restarts>>
BY DEF Moves, Inform, ListKind, StartReconcile, Publish, TakeSnapshot, StartCall, world

LEMMA WrittenValues ==
    ASSUME TypeOK, NEW o \in Objects, NEW value, Writes(o, value)
    PROVE  /\ cluster'[o] = value
           /\ \A p \in Objects \ {o} : cluster'[p] = cluster[p]
BY DEF Writes, Write, TypeOK, IsStore

LEMMA TouchedValues ==
    ASSUME TypeOK, NEW g \in Gateways, Touches(g)
    PROVE  /\ cluster'[PolicyOf(g)] =
                  Policy(cluster[PolicyOf(g)].spec, FreshVersion(PolicyOf(g)))
           /\ cluster[PolicyOf(g)] \in Policies
           /\ cluster'[PolicyOf(g)] \in Policies /\ cluster'[PolicyOf(g)] # Absent
           /\ \A p \in Objects \ {PolicyOf(g)} : cluster'[p] = cluster[p]
<1>. DEFINE o == PolicyOf(g)
<1>1. o \in Objects /\ KindOf(o) = "Policy"  BY ObjectFacts
<1>2. cluster[o] \in Policies
  BY <1>1 DEF TypeOK, IsStore, ValuesOf, Touches, Known
<1>3. Policy(cluster[o].spec, FreshVersion(o)) \in Policies
  BY <1>1, <1>2, FreshVersionIsNew DEF Policies, Policy
<1>. QED BY <1>1, <1>2, <1>3, PolicyAssumption DEF TypeOK, IsStore, Touches

LEMMA ApartStep == TypeOK /\ Apart(cluster) /\ [Next]_vars => Apart(cluster)'
<1>. SUFFICES ASSUME TypeOK, Apart(cluster), [Next]_vars PROVE Apart(cluster)'
  OBVIOUS
<1>1. ASSUME NEW o \in Objects, NEW value \in NewValues(o), Writes(o, value)
      PROVE  Apart(cluster)'
  <2>1. KindOf(o) = "Gateway" /\ value # Absent => ~Exists(cluster, NameOf(o))
    BY <1>1 DEF NewValues
  <2>2. /\ cluster'[o] = value
        /\ \A p \in Objects \ {o} : cluster'[p] = cluster[p]
    BY <1>1, WrittenValues
  <2>. QED BY <2>1, <2>2 DEF Apart, Exists, ObjectsOf
<1>2. ASSUME NEW g \in Gateways, Touches(g) PROVE Apart(cluster)'
  <2>1. \A p \in Objects : KindOf(p) = "Gateway" => cluster'[p] = cluster[p]
    BY <1>2, TouchedValues, ObjectFacts
  <2>. QED BY <2>1 DEF Apart, ObjectsOf
<1>3. CASE Moves \/ Rests \/ Restart \/ \E k \in Kinds : ListKindFails(k)
  <2>1. UNCHANGED cluster
    BY <1>3, MovesKeepCluster DEF Rests, Restart, ListKindFails, world
  <2>. QED BY <2>1 DEF Apart
<1>. QED BY <1>1, <1>2, <1>3, StoreSteps

LEMMA BaseInit == Init => BaseInv
<1>. SUFFICES ASSUME Init PROVE BaseInv
  OBVIOUS
<1>1. TypeOK  BY TypeInit
<1>2. ModeInv /\ IdleInv  BY DEF Init, ModeInv, IdleInv
<1>3. Apart(cluster)
  <2>1. \A o \in Objects : KindOf(o) = "Gateway" /\ cluster[o] # Absent => o[3] = 1
    BY DEF Init, KindOf
  <2>2. \A o, p \in Objects : /\ KindOf(o) = KindOf(p) /\ NameOf(o) = NameOf(p)
                             /\ o[3] = p[3]
                             => o = p
    BY DEF Objects, KindOf, NameOf
  <2>. QED BY <2>1, <2>2 DEF Apart, ObjectsOf
<1>. QED BY <1>1, <1>2, <1>3 DEF BaseInv

LEMMA BaseHolds == Spec => []BaseInv
<1>1. BaseInv /\ [Next]_vars => BaseInv'
  <2>1. TypeOK /\ [Next]_vars => TypeOK'  BY TypeStep
  <2>. QED BY <2>1, ModeStep, IdleStep, ApartStep DEF BaseInv
<1>. QED BY <1>1, BaseInit, PTL DEF Spec
(***************************************************************************)
(* Watched by lists: of a gateway that has been wanted all along, every    *)
(* store that has been filled has the gateway and its rules, if not those  *)
(* of the cluster.                                                         *)
(***************************************************************************)
SameThere(s, o) == s[o] = Absent <=> cluster[o] = Absent

Lasting(g) == {o \in ObjectsOf(g) : KindOf(o) # "Policy"}

Faithful(s, g) == \A o \in Lasting(g) : SameThere(s, o)

Empty(s) == \A o \in Objects : s[o] = Absent

ListedFaithfully(g) ==
    lock = "lister" =>
        \A o \in Lasting(g) : KindOf(o) \notin unlisted => SameThere(list, o)

WantedFor(g) ==
    /\ Wanted(cluster, g)
    /\ Empty(cache) \/ Faithful(cache, g)
    /\ Empty(snapshot) \/ (Faithful(snapshot, g) /\ Faithful(cache, g))
    /\ Empty(told) \/ (Faithful(told, g) /\ Faithful(snapshot, g))
    /\ Empty(view) \/ Faithful(view, g)
    /\ ListedFaithfully(g)
    /\ g \notin deleting

WantedInv == mode = "state" => \A g \in Gateways \ unwanted : WantedFor(g)

LEMMA WantedHas ==
    ASSUME NEW s, NEW g \in Gateways, Wanted(s, g)
    PROVE  /\ \E o \in Lasting(g) : KindOf(o) = "Gateway" /\ s[o] # Absent
           /\ RulesFor(g) \in Lasting(g) /\ s[RulesFor(g)] # Absent
BY ObjectFacts DEF Wanted, Exists, Lasting

LEMMA FaithfulWants ==
    ASSUME NEW s, NEW g \in Gateways, Wanted(cluster, g), Faithful(s, g)
    PROVE  Wanted(s, g)
<1>1. PICK o \in Lasting(g) : KindOf(o) = "Gateway" /\ cluster[o] # Absent
  BY WantedHas
<1>2. s[o] # Absent  BY <1>1 DEF Faithful, SameThere
<1>3. s[RulesFor(g)] # Absent  BY WantedHas DEF Faithful, SameThere
<1>. QED BY <1>1, <1>2, <1>3 DEF Wanted, Exists, Lasting

(* A write that leaves the gateway wanted leaves it and its rules there.   *)
LEMMA PresenceKept ==
    ASSUME TypeOK, Apart(cluster), NEW o \in Objects, NEW value \in NewValues(o),
           Writes(o, value), NEW g \in Gateways, Wanted(cluster, g),
           Wanted(cluster, g)', NEW p \in Lasting(g)
    PROVE  cluster[p] = Absent <=> cluster'[p] = Absent
<1>1. /\ cluster'[o] = value
      /\ \A q \in Objects \ {o} : cluster'[q] = cluster[q]
  BY WrittenValues
<1>2. p \in Objects /\ NameOf(p) = g /\ KindOf(p) \in Kinds \ {"Policy"}
  BY ObjectFacts DEF Lasting
<1>3. CASE p # o  BY <1>1, <1>2, <1>3
<1>4. CASE p = o /\ KindOf(p) = "Rules"
  <2>1. p = RulesFor(g)  BY <1>2, <1>4, ObjectFacts
  <2>2. cluster[p] # Absent  BY <2>1, WantedHas
  <2>3. cluster'[RulesFor(g)] # Absent  BY DEF Wanted
  <2>. QED BY <2>1, <2>2, <2>3
<1>5. CASE p = o /\ KindOf(p) = "Gateway"
  <2>1. PICK q \in Lasting(g) : KindOf(q) = "Gateway" /\ cluster[q] # Absent
    BY WantedHas
  <2>2. Exists(cluster, g)  BY DEF Wanted
  <2>3. value = Absent  BY <1>2, <1>5, <2>2 DEF NewValues
  <2>4. PICK r \in ObjectsOf(g) : KindOf(r) = "Gateway" /\ cluster'[r] # Absent
    BY DEF Wanted, Exists
  <2>5. r # p /\ cluster[r] # Absent  BY <1>1, <1>5, <2>3, <2>4, ObjectFacts
  <2>6. cluster[p] = Absent
    BY <1>2, <1>5, <2>4, <2>5 DEF Apart, Lasting
  <2>. QED BY <1>1, <1>5, <2>3, <2>6
<1>. QED BY <1>2, <1>3, <1>4, <1>5 DEF Kinds

LEMMA FaithfulKept ==
    ASSUME NEW s, NEW g, Faithful(s, g),
           \A o \in Lasting(g) : cluster[o] = Absent <=> cluster'[o] = Absent
    PROVE  \A o \in Lasting(g) : s[o] = Absent <=> cluster'[o] = Absent
BY DEF Faithful, SameThere

(* As long as the presence of its objects does not change.                 *)
LEMMA WantedKept ==
    ASSUME NEW g \in Gateways, WantedFor(g), Wanted(cluster, g)',
           \A o \in Lasting(g) : cluster[o] = Absent <=> cluster'[o] = Absent,
           UNCHANGED <<feed, view, listing>>, lock' \in {lock, "free"},
           deleting' \subseteq deleting
    PROVE  WantedFor(g)'
<1>1. \A s : Faithful(s, g) =>
          \A o \in Lasting(g) : s[o] = Absent <=> cluster'[o] = Absent
  BY FaithfulKept
<1>2. /\ Empty(cache)' \/ Faithful(cache, g)'
      /\ Empty(snapshot)' \/ (Faithful(snapshot, g)' /\ Faithful(cache, g)')
      /\ Empty(told)' \/ (Faithful(told, g)' /\ Faithful(snapshot, g)')
      /\ Empty(view)' \/ Faithful(view, g)'
  BY <1>1 DEF WantedFor, Faithful, SameThere, Empty, feed
<1>3. ListedFaithfully(g)'
  BY DEF WantedFor, ListedFaithfully, SameThere, listing
<1>. QED BY <1>2, <1>3 DEF WantedFor

LEMMA WantedStep == BaseInv /\ WantedInv /\ [Next]_vars => WantedInv'
<1>. SUFFICES ASSUME BaseInv, WantedInv, [Next]_vars, mode' = "state",
                     NEW g \in Gateways \ unwanted'
              PROVE  WantedFor(g)'
  BY DEF WantedInv
<1>0. TypeOK /\ ModeInv /\ Apart(cluster)  BY DEF BaseInv
<1>1. ASSUME NEW o \in Objects, NEW value \in NewValues(o), Writes(o, value)
      PROVE  WantedFor(g)'
  <2>1. g \notin unwanted /\ Wanted(cluster, g)' /\ mode = "state"
    BY <1>1 DEF Writes, Write, Keeps
  <2>2. WantedFor(g) /\ Wanted(cluster, g)  BY <2>1 DEF WantedInv, WantedFor
  <2>3. \A p \in Lasting(g) : cluster[p] = Absent <=> cluster'[p] = Absent
    BY <1>0, <1>1, <2>1, <2>2, PresenceKept
  <2>4. /\ UNCHANGED <<feed, view, listing>> /\ lock' \in {lock, "free"}
        /\ deleting' \subseteq deleting
    BY <1>1 DEF Writes, Keeps
  <2>. QED BY <2>1, <2>2, <2>3, <2>4, WantedKept
<1>2. ASSUME NEW h \in Gateways, Touches(h) PROVE WantedFor(g)'
  <2>1. g \notin unwanted /\ mode = "state"
    BY <1>2 DEF Touches, Keeps
  <2>2. WantedFor(g) /\ Wanted(cluster, g)  BY <2>1 DEF WantedInv, WantedFor
  <2>3. \A p \in Objects : KindOf(p) # "Policy" => cluster'[p] = cluster[p]
    BY <1>0, <1>2, TouchedValues, ObjectFacts
  <2>4. Wanted(cluster, g)'
    BY <2>2, <2>3, ObjectFacts DEF Wanted, Exists
  <2>5. /\ UNCHANGED <<feed, view, listing>> /\ lock' \in {lock, "free"}
        /\ deleting' \subseteq deleting
    BY <1>2 DEF Touches, Keeps
  <2>6. \A p \in Lasting(g) : cluster[p] = Absent <=> cluster'[p] = Absent
    BY <2>3, ObjectFacts DEF Lasting
  <2>. QED BY <2>2, <2>4, <2>5, <2>6, WantedKept
<1>3. CASE Rests
  <2>1. g \notin unwanted /\ mode = "state" /\ UNCHANGED cluster
    BY <1>3 DEF Rests, Keeps, world
  <2>2. WantedFor(g) /\ Wanted(cluster, g)  BY <2>1 DEF WantedInv, WantedFor
  <2>3. Wanted(cluster, g)'  BY <2>1, <2>2 DEF Wanted, Exists
  <2>4. /\ UNCHANGED <<feed, view, listing>> /\ lock' \in {lock, "free"}
        /\ deleting' \subseteq deleting
    BY <1>3 DEF Rests, Keeps
  <2>. QED BY <2>1, <2>2, <2>3, <2>4, WantedKept
<1>4. CASE Moves
  <2>1. g \notin unwanted /\ mode = "state" /\ UNCHANGED cluster
    BY <1>4, MovesKeepCluster
  <2>2. WantedFor(g)  BY <2>1 DEF WantedInv
  <2>3. Wanted(cluster, g)'  BY <2>1, <2>2 DEF WantedFor, Wanted, Exists
  <2>. USE <2>1, <2>2, <2>3
           DEF WantedFor, Faithful, SameThere, Empty, ListedFaithfully
  <2>4. ASSUME NEW k \in Kinds, Inform(k) PROVE WantedFor(g)'
    BY <1>0, <2>4 DEF Inform, ModeInv
  <2>5. ASSUME NEW k \in Kinds, ListKind(k) PROVE WantedFor(g)'
    <3>1. ListedFaithfully(g)'
      BY <2>5, ObjectFacts DEF ListKind, Lasting
    <3>. QED BY <2>5, <3>1 DEF ListKind, feed, call
  <2>6. CASE StartReconcile
    <3>1. \A o \in Lasting(g) : KindOf(o) \in Kinds  BY ObjectFacts DEF Lasting
    <3>. QED BY <2>6, <3>1 DEF StartReconcile, feed, call
  <2>7. CASE Publish
    <3>1. Faithful(list, g)  BY <2>7 DEF Publish
    <3>2. Faithful(cache, g)'  BY <2>7, <3>1 DEF Publish
    <3>. QED BY <2>7, <3>2 DEF Publish, call
  <2>8. CASE TakeSnapshot
    <3>1. Faithful(snapshot, g) => ~Empty(snapshot)
      BY WantedHas DEF Lasting, ObjectsOf
    <3>. QED BY <2>8, <3>1 DEF TakeSnapshot, Feed!Take, listing, call
  <2>9. CASE StartCall
    <3>1. /\ told' = snapshot /\ view' = cache /\ lock' = "handler"
          /\ UNCHANGED <<cache, snapshot, listing>>
          /\ deleting' = {NameOf(e.uid) :
                e \in {f \in Feed!EventsBetween(told, snapshot) : ForDelete(f)}}
      BY <2>9 DEF StartCall, Feed!Tell
    <3>2. g \notin deleting'
      <4>. SUFFICES ASSUME NEW e \in Feed!EventsBetween(told, snapshot), ForDelete(e),
                           NameOf(e.uid) = g
                    PROVE  FALSE
        BY <3>1
      <4>1. /\ e.uid \in Objects /\ told[e.uid] # Absent /\ snapshot[e.uid] = Absent
        BY DEF Feed!EventsBetween, Feed!EventOf, Feed!IsDeleted, ForDelete
      <4>2. e.uid \in Lasting(g)  BY <4>1 DEF Lasting, ObjectsOf, ForDelete
      <4>. QED BY <4>1, <4>2
    <3>. QED BY <3>1, <3>2
  <2>. HIDE DEF WantedFor
  <2>. QED BY <1>4, <2>4, <2>5, <2>6, <2>7, <2>8, <2>9 DEF Moves
<1>5. CASE Restart
  <2>1. UNCHANGED cluster /\ Wanted(cluster, g)
    BY <1>5 DEF Restart, Subscribe
  <2>2. Wanted(cluster, g)'  BY <2>1 DEF Wanted, Exists
  <2>. QED BY <1>5, <2>2 DEF Restart, WantedFor, Empty, EmptyStore, ListedFaithfully
<1>6. ASSUME NEW k \in Kinds, ListKindFails(k) PROVE WantedFor(g)'
  <2>1. /\ k = "Policy" /\ UNCHANGED <<mode, cluster, unwanted, lock>>
        /\ UNCHANGED <<feed, view, deleting>>
        /\ unlisted' = unlisted \ {k}
        /\ list' = [o \in Objects |-> IF KindOf(o) = k THEN Absent ELSE list[o]]
    BY <1>6 DEF ListKindFails, call
  <2>2. WantedFor(g)  BY <2>1 DEF WantedInv
  <2>3. \A o \in Lasting(g) : KindOf(o) # k /\ list'[o] = list[o]
    BY <2>1, ObjectFacts DEF Lasting
  <2>4. ListedFaithfully(g)'
    BY <2>1, <2>2, <2>3 DEF WantedFor, ListedFaithfully, SameThere
  <2>5. Wanted(cluster, g)'  BY <2>1, <2>2 DEF WantedFor, Wanted, Exists
  <2>. QED BY <2>1, <2>2, <2>4, <2>5
       DEF WantedFor, Faithful, SameThere, Empty, feed
<1>. QED BY <1>0, <1>1, <1>2, <1>3, <1>4, <1>5, <1>6, StoreSteps

LEMMA WantedHolds == Spec => []WantedInv
<1>1. Init => WantedInv
  BY DEF Init, WantedInv, WantedFor, Empty, EmptyStore, ListedFaithfully
<1>2. BaseInv /\ WantedInv /\ [Next]_vars => WantedInv'
  BY WantedStep
<1>. QED BY <1>1, <1>2, BaseHolds, PTL DEF Spec

(* Where a call removes a policy, an object of the gateway was missing     *)
(* from the cluster, or from a list that failed.                           *)
LEMMA RemovalNeedsReason ==
    ASSUME BaseInv, WantedInv, [Next]_vars, mode = "state", NEW g \in Gateways,
           g \in reconciling \ reconciling' \/ g \in deleting \ deleting',
           restarts' = restarts, Known(cluster, g), ~Known(cluster, g)'
    PROVE  g \in unwanted
<1>. SUFFICES ASSUME g \notin unwanted PROVE FALSE
  OBVIOUS
<1>0. TypeOK  BY DEF BaseInv
<1>1. WantedFor(g)  BY DEF WantedInv
<1>2. cluster' # cluster  BY DEF Known
<1>3. PICK h \in Gateways : Requests(h)
  <2>1. ~Moves /\ ~Restart
    <3>1. restarts \in Nat  BY <1>0 DEF TypeOK
    <3>. QED BY <1>2, <3>1, MovesKeepCluster DEF Restart
  <2>2. ~ByOthers
    BY DEF ByOthers, Others, call, CreateGateway, DeleteGateway, ChangeRules,
           EditPolicy, RemovePolicy, WriteStatus
  <2>3. /\ ~FileFails /\ ~EndCall /\ ~UNCHANGED vars
        /\ \A k \in Kinds : ~ListKindFails(k)
    BY <1>2 DEF FileFails, EndCall, ListKindFails, vars, world
  <2>. QED BY <2>1, <2>2, <2>3 DEF Next, Moves, Lister, Call
<1>4. h = g /\ g \in reconciling \cup deleting
  BY <1>3 DEF Requests, CreatePolicy, UpdatePolicy, DeleteUnwanted,
              DeleteWithGateway, Reconciling, Deleting
<1>. DEFINE o == PolicyOf(g)
<1>5. o \in Objects /\ KindOf(o) = "Policy"  BY ObjectFacts
<1>6. \A value : Write(o, value) => value = Absent
  BY <1>0, <1>5 DEF Write, Known, TypeOK, IsStore
<1>7. \A spec \in SpecsFor(g) : Policy(spec, FreshVersion(o)) # Absent
  BY <1>0, <1>5, SpecsTyped, PolicyTyped DEF NewPolicies
<1>8. CASE CreatePolicy(g)
  <2>1. Made(g, "own") \in SpecsFor(g)  BY <1>8 DEF CreatePolicy, SpecsFor
  <2>. QED BY <1>2, <1>6, <1>7, <1>8, <2>1 DEF CreatePolicy, Refused, Lost, world
<1>9. CASE UpdatePolicy(g)
  <2>1. Updated(g) \in SpecsFor(g)  BY <1>9 DEF UpdatePolicy, Linked, SpecsFor
  <2>. QED BY <1>2, <1>6, <1>7, <1>9, <2>1
       DEF UpdatePolicy, Refused, Lost, Nothing, world
<1>10. CASE DeleteUnwanted(g)
  <2>1. ~Wanted(view, g) /\ Exists(view, g)
    BY <1>2, <1>10 DEF DeleteUnwanted, Linked, Nothing, world
  <2>2. ~Empty(view)  BY <2>1 DEF Empty, Exists, ObjectsOf
  <2>. QED BY <1>1, <2>1, <2>2, FaithfulWants DEF WantedFor
<1>11. CASE DeleteWithGateway(g)
  BY <1>1, <1>11 DEF DeleteWithGateway, Deleting, WantedFor
<1>. QED BY <1>3, <1>4, <1>8, <1>9, <1>10, <1>11 DEF Requests

(* In the state of the world mode, no call of the reconciler takes away    *)
(* the policy of a gateway that has wanted one ever since the controller   *)
(* started and that no failed list of gateways or of their routes and      *)
(* policies may have shown otherwise, with lists of whatever times, and    *)
(* failing lists of the provider's objects (istio.go, Reconcile and        *)
(* deleteAuthorizationPolicy; runnable.go:184-188).                        *)
THEOREM RemovalsHaveReasons == Spec => DeletesOnlyUnwanted
<1>1. BaseInv /\ WantedInv /\ [Next]_vars =>
        [mode = "state" =>
           \A g \in Gateways :
              (g \in reconciling \ reconciling' \/ g \in deleting \ deleting')
              /\ restarts' = restarts /\ Known(cluster, g) /\ ~Known(cluster', g)
                  => g \in unwanted]_vars
  BY RemovalNeedsReason DEF Known
<1>. QED BY <1>1, BaseHolds, WantedHolds, PTL DEF Spec, DeletesOnlyUnwanted

(***************************************************************************)
(* What the cache will hold of an object once the first i notices of its   *)
(* kind are delivered, and once everything is.                             *)
(***************************************************************************)
About(n, o) == n[1] = o

Upto(o, i, v) ==
    LET ns == notices[KindOf(o)] IN
    \/ v = cache[o] /\ \A j \in 1..i : ~About(ns[j], o)
    \/ \E j \in 1..i : /\ About(ns[j], o) /\ v = ns[j][2]
                       /\ \A m \in (j + 1)..i : ~About(ns[m], o)

Final(o, v) ==
    IF triggered \/ (lock = "lister" /\ KindOf(o) \in unlisted) THEN v = cluster[o]
    ELSE IF lock = "lister" THEN v = list[o]
    ELSE Upto(o, Len(notices[KindOf(o)]), v)

LEMMA UptoNone ==
    ASSUME NEW o, NEW v
    PROVE  Upto(o, 0, v) <=> v = cache[o]
BY DEF Upto

LEMMA UptoSame ==
    ASSUME UNCHANGED <<notices, cache>>, NEW o, NEW i, NEW v
    PROVE  Upto(o, i, v)' <=> Upto(o, i, v)
BY DEF Upto, About

LEMMA UptoUnique ==
    ASSUME NEW o, NEW i \in Nat, NEW v, NEW w, Upto(o, i, v), Upto(o, i, w)
    PROVE  v = w
<1>. DEFINE ns == notices[KindOf(o)]
<1>1. ASSUME NEW j \in 1..i, NEW k \in 1..i, About(ns[j], o), About(ns[k], o),
             \A m \in (j + 1)..i : ~About(ns[m], o),
             \A m \in (k + 1)..i : ~About(ns[m], o)
      PROVE  j = k
  <2>1. ~(j < k)  BY <1>1
  <2>2. ~(k < j)  BY <1>1
  <2>. QED BY <2>1, <2>2
<1>. QED BY <1>1 DEF Upto

LEMMA LengthTyped ==
    ASSUME TypeOK, NEW k \in Kinds
    PROVE  /\ notices[k] \in Seq(Notices) /\ Len(notices[k]) \in Nat
           /\ \A i \in 1..Len(notices[k]) : notices[k][i] \in ToSet(notices[k])
<1>1. notices[k] \in Seq(Notices)  BY DEF TypeOK, Notices
<1>. QED BY <1>1 DEF ToSet

(* A delivery brings the notices forward by one.                           *)
LEMMA UptoInform ==
    ASSUME TypeOK, NEW k \in Kinds, Inform(k), NEW o \in Objects, KindOf(o) = k
    PROVE  /\ Len(notices'[k]) \in Nat /\ Len(notices[k]) = Len(notices'[k]) + 1
           /\ \A i \in 0..Len(notices'[k]) : \A v : Upto(o, i, v)' <=> Upto(o, i + 1, v)
<1>. DEFINE ns == notices[k]
            q == Tail(ns)
<1>1. ns \in Seq(Notices) /\ ns # <<>>  BY LengthTyped DEF Inform
<1>2. /\ Len(q) \in Nat /\ Len(ns) = Len(q) + 1 /\ Head(ns) = ns[1]
      /\ \A i \in 1..Len(q) : q[i] = ns[i + 1]
  BY <1>1, TailSet
<1>3. notices'[k] = q  BY DEF Inform, TypeOK
<1>4. /\ About(ns[1], o) => cache'[o] = ns[1][2]
      /\ ~About(ns[1], o) => cache'[o] = cache[o]
  BY <1>2 DEF Inform, TypeOK, IsStore, About
<1>. HIDE DEF ns, q
<1>5. ASSUME NEW i \in 0..Len(q), NEW v
      PROVE  Upto(o, i, v)' <=> Upto(o, i + 1, v)
  <2>1. Upto(o, i, v)' <=>
            \/ v = cache'[o] /\ \A j \in 1..i : ~About(q[j], o)
            \/ \E j \in 1..i : /\ About(q[j], o) /\ v = q[j][2]
                               /\ \A m \in (j + 1)..i : ~About(q[m], o)
    BY <1>3 DEF Upto, About
  <2>2. Upto(o, i + 1, v) <=>
            \/ v = cache[o] /\ \A j \in 1..(i + 1) : ~About(ns[j], o)
            \/ \E j \in 1..(i + 1) : /\ About(ns[j], o) /\ v = ns[j][2]
                                     /\ \A m \in (j + 1)..(i + 1) : ~About(ns[m], o)
    BY DEF Upto, ns
  <2>3. \A j \in 1..i : q[j] = ns[j + 1]  BY <1>2
  <2>4. \A j \in 1..(i + 1) : j = 1 \/ (j - 1 \in 1..i /\ ns[j] = q[j - 1])
    BY <2>3
  <2>5. ASSUME Upto(o, i, v)' PROVE Upto(o, i + 1, v)
    <3>1. CASE v = cache'[o] /\ \A j \in 1..i : ~About(q[j], o)
      <4>1. \A m \in 2..(i + 1) : ~About(ns[m], o)  BY <2>4, <3>1
      <4>2. CASE About(ns[1], o)
        BY <1>4, <2>2, <3>1, <4>1, <4>2
      <4>3. CASE ~About(ns[1], o)
        <5>1. \A m \in 1..(i + 1) : ~About(ns[m], o)  BY <4>1, <4>3
        <5>. QED BY <1>4, <2>2, <3>1, <4>3, <5>1
      <4>. QED BY <4>2, <4>3
    <3>2. ASSUME NEW j \in 1..i, About(q[j], o), v = q[j][2],
                 \A m \in (j + 1)..i : ~About(q[m], o)
          PROVE  Upto(o, i + 1, v)
      <4>1. j + 1 \in 1..(i + 1) /\ About(ns[j + 1], o) /\ v = ns[j + 1][2]
        BY <2>3, <3>2
      <4>2. \A m \in (j + 2)..(i + 1) : ~About(ns[m], o)
        BY <2>4, <3>2
      <4>3. j + 1 + 1 = j + 2  OBVIOUS
      <4>. QED BY <2>2, <4>1, <4>2, <4>3
    <3>. QED BY <2>1, <2>5, <3>1, <3>2
  <2>6. ASSUME Upto(o, i + 1, v) PROVE Upto(o, i, v)'
    <3>1. CASE v = cache[o] /\ \A j \in 1..(i + 1) : ~About(ns[j], o)
      <4>1. ~About(ns[1], o)  BY <3>1
      <4>2. \A j \in 1..i : ~About(q[j], o)  BY <2>3, <3>1
      <4>. QED BY <1>4, <2>1, <3>1, <4>1, <4>2
    <3>2. ASSUME NEW j \in 1..(i + 1), About(ns[j], o), v = ns[j][2],
                 \A m \in (j + 1)..(i + 1) : ~About(ns[m], o)
          PROVE  Upto(o, i, v)'
      <4>1. CASE j = 1
        <5>0. \A m \in 1..i : m + 1 \in (j + 1)..(i + 1)  BY <4>1
        <5>1. \A m \in 1..i : ~About(q[m], o)  BY <2>3, <3>2, <5>0
        <5>. QED BY <1>4, <2>1, <3>2, <4>1, <5>1
      <4>2. CASE j # 1
        <5>1. j - 1 \in 1..i /\ About(q[j - 1], o) /\ v = q[j - 1][2]
          BY <2>4, <3>2, <4>2
        <5>2. \A m \in ((j - 1) + 1)..i : ~About(q[m], o)
          BY <2>3, <3>2
        <5>. QED BY <2>1, <5>1, <5>2
      <4>. QED BY <4>1, <4>2
    <3>. QED BY <2>2, <2>6, <3>1, <3>2
  <2>. QED BY <2>5, <2>6
<1>. QED BY <1>2, <1>3, <1>5 DEF ns

LEMMA UptoOtherKinds ==
    ASSUME TypeOK, NEW k \in Kinds, Inform(k), NEW o \in Objects, KindOf(o) # k
    PROVE  /\ notices'[KindOf(o)] = notices[KindOf(o)]
           /\ \A i : \A v : Upto(o, i, v)' <=> Upto(o, i, v)
<1>1. notices[k] \in Seq(Notices) /\ notices[k] # <<>>
  BY LengthTyped DEF Inform
<1>2. Head(notices[k]) \in ToSet(notices[k])  BY <1>1, TailSet
<1>3. KindOf(Head(notices[k])[1]) = k  BY <1>2 DEF TypeOK, IsNotice
<1>4. cache'[o] = cache[o]  BY <1>3 DEF Inform, TypeOK, IsStore
<1>5. notices'[KindOf(o)] = notices[KindOf(o)]
  BY ObjectFacts DEF Inform, TypeOK
<1>. QED BY <1>4, <1>5 DEF Upto

(* A notice that joins the others.                                         *)
LEMMA UptoWritten ==
    ASSUME TypeOK, mode = "delta", NEW o \in Objects, NEW value \in NewValues(o),
           Writes(o, value), NEW p \in Objects,
           NEW n \in Nat, n = Len(notices[KindOf(p)])
    PROVE  /\ KindOf(p) = KindOf(o) =>
                 /\ Len(notices'[KindOf(p)]) = n + 1
                 /\ \A v : Upto(p, n + 1, v)'
                              <=> (p = o /\ v = value) \/ (p # o /\ Upto(p, n, v))
           /\ KindOf(p) # KindOf(o) => notices'[KindOf(p)] = notices[KindOf(p)]
           /\ \A i \in 0..n : \A v : Upto(p, i, v)' <=> Upto(p, i, v)
<1>. DEFINE k == KindOf(p)
<1>1. k \in Kinds /\ KindOf(o) \in Kinds  BY ObjectFacts
<1>2. cache' = cache  BY DEF Writes, Keeps, feed
<1>3. k = KindOf(o) => notices'[k] = Append(notices[k], <<o, value>>)
  BY <1>1 DEF Writes, Write, TypeOK
<1>4. k # KindOf(o) => notices'[k] = notices[k]
  BY <1>1 DEF Writes, Write, TypeOK
<1>5. n \in Nat  OBVIOUS
<1>6. k = KindOf(o) => /\ Len(notices'[k]) = n + 1
                       /\ notices'[k][n + 1] = <<o, value>>
                       /\ \A j \in 1..n : notices'[k][j] = notices[k][j]
  <2>1. notices[k] \in Seq(Notices)  BY <1>1, LengthTyped
  <2>. QED BY <1>3, <2>1
<1>7. ASSUME NEW i \in 0..n, NEW v PROVE Upto(p, i, v)' <=> Upto(p, i, v)
  <2>1. \A j \in 1..i : notices'[k][j] = notices[k][j]
    BY <1>4, <1>5, <1>6
  <2>. QED BY <1>2, <1>5, <2>1 DEF Upto
<1>8. ASSUME k = KindOf(o), NEW v
      PROVE  Upto(p, n + 1, v)'
                <=> (p = o /\ v = value) \/ (p # o /\ Upto(p, n, v))
  <2>. DEFINE ns == notices'[k]
  <2>1. ns[n + 1] = <<o, value>>  BY <1>6, <1>8
  <2>2. About(ns[n + 1], p) <=> p = o  BY <2>1 DEF About
  <2>3. Upto(p, n + 1, v)' <=>
            \/ v = cache'[p] /\ \A j \in 1..(n + 1) : ~About(ns[j], p)
            \/ \E j \in 1..(n + 1) : /\ About(ns[j], p) /\ v = ns[j][2]
                                     /\ \A m \in (j + 1)..(n + 1) : ~About(ns[m], p)
    BY DEF Upto, About
  <2>. HIDE DEF ns
  <2>4. CASE p = o
    <3>1. Upto(p, n + 1, v)' => v = ns[n + 1][2]
      BY <1>5, <2>2, <2>3, <2>4
    <3>2. v = ns[n + 1][2] => Upto(p, n + 1, v)'
      BY <1>5, <2>2, <2>3, <2>4
    <3>. QED BY <2>1, <2>4, <3>1, <3>2
  <2>5. CASE p # o
    <3>1. Upto(p, n, v)' <=>
            \/ v = cache'[p] /\ \A j \in 1..n : ~About(ns[j], p)
            \/ \E j \in 1..n : /\ About(ns[j], p) /\ v = ns[j][2]
                               /\ \A m \in (j + 1)..n : ~About(ns[m], p)
      BY DEF Upto, About, ns
    <3>2. ~About(ns[n + 1], p)  BY <2>2, <2>5
    <3>3. \A j \in 1..(n + 1) : j = n + 1 \/ j \in 1..n  BY <1>5
    <3>4. Upto(p, n + 1, v)' <=> Upto(p, n, v)'
      <4>1. (\A j \in 1..(n + 1) : ~About(ns[j], p)) <=> \A j \in 1..n : ~About(ns[j], p)
        BY <1>5, <3>2, <3>3
      <4>2. ASSUME NEW j \in 1..n
            PROVE  (\A m \in (j + 1)..(n + 1) : ~About(ns[m], p))
                   <=> \A m \in (j + 1)..n : ~About(ns[m], p)
        BY <1>5, <3>2
      <4>3. 1..n \subseteq 1..(n + 1)  BY <1>5
      <4>. QED BY <2>3, <3>1, <3>2, <3>3, <4>1, <4>2, <4>3
    <3>. QED BY <1>5, <1>7, <2>5, <3>4
  <2>. QED BY <2>4, <2>5
<1>. QED BY <1>4, <1>6, <1>7, <1>8

LEMMA FinalMoves ==
    ASSUME TypeOK, ModeInv, Moves, NEW o \in Objects, NEW v, Final(o, v)
    PROVE  Final(o, v)'
<1>0. KindOf(o) \in Kinds /\ UNCHANGED cluster  BY ObjectFacts, MovesKeepCluster
<1>1. ASSUME NEW k \in Kinds, Inform(k) PROVE Final(o, v)'
  <2>1. /\ ~triggered /\ lock = "free" /\ ~triggered' /\ lock' = "free"
    BY <1>1 DEF Inform, ModeInv, TypeOK
  <2>2. Upto(o, Len(notices[KindOf(o)]), v)  BY <2>1 DEF Final
  <2>3. CASE KindOf(o) = k
    <3>. PICK n : n = Len(notices'[k])  OBVIOUS
    <3>1. n \in Nat /\ Len(notices[k]) = n + 1 /\ n \in 0..n  BY <1>1, <2>3, UptoInform
    <3>2. Upto(o, n, v)'  BY <1>1, <2>2, <2>3, <3>1, UptoInform
    <3>. QED BY <2>1, <2>3, <3>2 DEF Final
  <2>4. CASE KindOf(o) # k
    <3>. PICK n : n = Len(notices[KindOf(o)])  OBVIOUS
    <3>1. notices'[KindOf(o)] = notices[KindOf(o)]  BY <1>1, <2>4, UptoOtherKinds
    <3>2. Upto(o, n, v)'  BY <1>1, <2>2, <2>4, UptoOtherKinds
    <3>. QED BY <2>1, <3>1, <3>2 DEF Final
  <2>. QED BY <2>3, <2>4
<1>2. ASSUME NEW k \in Kinds, ListKind(k) PROVE Final(o, v)'
  BY <1>0, <1>2 DEF ListKind, Final, world
<1>3. CASE StartReconcile
  BY <1>0, <1>3 DEF StartReconcile, Final
<1>4. CASE Publish
  <2>1. triggered \/ v = list[o]  BY <1>4 DEF Publish, Final
  <2>2. notices'[KindOf(o)] = <<>> /\ Len(notices'[KindOf(o)]) = 0
    BY <1>0, <1>4 DEF Publish, ModeInv, TypeOK, world
  <2>3. v = list[o] => Upto(o, 0, v)'
    BY <1>4 DEF Publish, Upto
  <2>. QED BY <1>0, <1>4, <2>1, <2>2, <2>3 DEF Publish, Final, world
<1>5. CASE TakeSnapshot \/ StartCall
  BY <1>0, <1>5 DEF TakeSnapshot, Feed!Take, StartCall, Feed!Tell, Final, Upto,
                    world, listing
<1>. QED BY <1>1, <1>2, <1>3, <1>4, <1>5 DEF Moves

LEMMA FinalRests ==
    ASSUME Rests, NEW o \in Objects, NEW v, Final(o, v)
    PROVE  Final(o, v)'
BY DEF Rests, Keeps, world, listing, feed, Final, Upto

LEMMA FinalWrites ==
    ASSUME TypeOK, ModeInv, NEW o \in Objects, NEW value \in NewValues(o),
           Writes(o, value), NEW p \in Objects, NEW v,
           IF p = o THEN v = value ELSE IF mode = "state" THEN v = cluster[p] ELSE Final(p, v)
    PROVE  Final(p, v)'
<1>0. mode' = mode /\ lock' = lock  BY DEF Writes, Keeps
<1>1. CASE mode = "state"
  <2>1. triggered'  BY <1>1 DEF Writes, Write
  <2>2. v = cluster'[p]  BY <1>1, WrittenValues
  <2>. QED BY <2>1, <2>2 DEF Final
<1>2. CASE mode # "state"
  <2>1. mode = "delta" /\ ~triggered /\ lock # "lister" /\ ~triggered'
    BY <1>2 DEF TypeOK, ModeInv, Writes, Write
  <2>2. PICK n \in Nat : n = Len(notices[KindOf(p)])
    BY LengthTyped, ObjectFacts
  <2>3. CASE KindOf(p) = KindOf(o)
    <3>0. (p = o /\ v = value) \/ (p # o /\ Upto(p, n, v))
      BY <1>2, <2>1, <2>2 DEF Final
    <3>1. Upto(p, n + 1, v)' /\ Len(notices'[KindOf(p)]) = n + 1
      BY <2>1, <2>2, <2>3, <3>0, UptoWritten
    <3>. QED BY <1>0, <2>1, <3>1 DEF Final
  <2>4. CASE KindOf(p) # KindOf(o)
    <3>1. Upto(p, n, v)' /\ notices'[KindOf(p)] = notices[KindOf(p)]
      BY <1>2, <2>1, <2>2, <2>4, UptoWritten DEF Final
    <3>. QED BY <1>0, <2>1, <2>2, <3>1 DEF Final
  <2>. QED BY <2>3, <2>4
<1>. QED BY <1>1, <1>2

LEMMA FinalTouches ==
    ASSUME TypeOK, NEW g \in Gateways, Touches(g), NEW p \in Objects, NEW v, Final(p, v)
    PROVE  Final(p, v)' \/ (v = cluster[p] /\ \E w : w = cluster'[p] /\ Final(p, w)')
<1>1. UNCHANGED <<notices, triggered, lock, list, unlisted, cache>>
  BY DEF Touches, Keeps, listing, feed
<1>2. CASE triggered \/ (lock = "lister" /\ KindOf(p) \in unlisted)
  <2>1. v = cluster[p]  BY <1>2 DEF Final
  <2>2. ASSUME NEW w, w = cluster'[p] PROVE Final(p, w)'
    BY <1>1, <1>2, <2>2 DEF Final
  <2>. QED BY <2>1, <2>2
<1>3. CASE ~(triggered \/ (lock = "lister" /\ KindOf(p) \in unlisted))
  BY <1>1, <1>3 DEF Final, Upto
<1>. QED BY <1>2, <1>3

(* Of a kind that cannot be listed nothing will be there, unless there is  *)
(* a reason to list it again.                                              *)
LEMMA FinalMissed ==
    ASSUME NEW k \in Kinds, ListKindFails(k), NEW o \in Objects, NEW v, Final(o, v)
    PROVE  \/ Final(o, v)'
           \/ KindOf(o) = k /\ \A w : w = Absent => Final(o, w)'
<1>1. /\ UNCHANGED <<triggered, lock, cluster>> /\ lock = "lister"
      /\ unlisted' = unlisted \ {k}
      /\ list'[o] = IF KindOf(o) = k THEN Absent ELSE list[o]
  BY DEF ListKindFails
<1>2. CASE triggered
  BY <1>1, <1>2 DEF Final
<1>3. CASE ~triggered /\ KindOf(o) = k
  BY <1>1, <1>3 DEF Final
<1>4. CASE ~triggered /\ KindOf(o) # k
  BY <1>1, <1>4 DEF Final
<1>. QED BY <1>2, <1>3, <1>4

(* What one sees of a copy, but for the resource version.                  *)
Face(o, v) == IF KindOf(o) = "Policy" /\ v # Absent THEN v.spec ELSE v

(* What is on its way leads to what there is, but for kinds that could not *)
(* be listed: no notice is lost, and a list that is out of date is made    *)
(* again.                                                                  *)
Leads(o, v) ==
    \/ Face(o, v) = Face(o, cluster[o])
    \/ KindOf(o) \in missed /\ v = Absent

FinalIsCluster == \A o \in Objects : \E v : Final(o, v) /\ Leads(o, v)

(* What a controller is told of the cluster when it starts: each object of *)
(* it once.                                                                *)
ToTell ==
    [k \in Kinds |-> IF mode = "state" THEN <<>>
                     ELSE SetToSeq({<<o, cluster[o]>> : o \in Pending(k)})]

LEMMA Subscribed ==
    ASSUME IsStore(cluster), mode # "state", NEW q, q = ToTell, NEW o \in Objects, NEW n, n = Len(q[KindOf(o)])
    PROVE  /\ n \in Nat
           /\ \A j \in 1..n : About(q[KindOf(o)][j], o) => q[KindOf(o)][j][2] = cluster[o]
           /\ \/ cluster[o] = Absent /\ \A j \in 1..n : ~About(q[KindOf(o)][j], o)
              \/ \E j \in 1..n : /\ About(q[KindOf(o)][j], o)
                                 /\ \A m \in (j + 1)..n : ~About(q[KindOf(o)][m], o)
<1>. DEFINE k == KindOf(o)
            S == {<<p, cluster[p]>> : p \in Pending(k)}
            ns == SetToSeq(S)
<1>1. k \in Kinds /\ q[k] = ns
  BY ObjectFacts DEF ToTell
<1>2. IsFiniteSet(S)
  <2>. DEFINE f == [p \in Pending(k) |-> <<p, cluster[p]>>]
  <2>1. IsFiniteSet(Pending(k))  BY ObjectsFinite, FS_Subset DEF Pending
  <2>2. f \in Surjection(Pending(k), S)  BY DEF Surjection
  <2>. HIDE DEF f, S
  <2>. QED BY <2>1, <2>2, FS_Surjection
<1>3. /\ \A x \in S : x[1] \in Pending(k) /\ x = <<x[1], cluster[x[1]]>>
      /\ \A p \in Pending(k) : <<p, cluster[p]>> \in S
  OBVIOUS
<1>. HIDE DEF S
<1>4. /\ ns \in Seq(S)
      /\ \A x \in S : \E i \in 1..Len(ns) : ns[i] = x
      /\ \A i, j \in 1..Len(ns) : ns[i] = ns[j] => i = j
  BY <1>2, SetToSeqLists
<1>. HIDE DEF ns
<1>5. n = Len(ns) /\ n \in Nat  BY <1>1, <1>4
<1>6. \A j \in 1..n : ns[j] \in S  BY <1>4, <1>5
<1>7. \A j \in 1..n : /\ ns[j][1] \in Pending(k)
                      /\ ns[j] = <<ns[j][1], cluster[ns[j][1]]>>
  BY <1>3, <1>6
<1>8. \A j \in 1..n : About(ns[j], o) =>
          ns[j] = <<o, cluster[o]>> /\ o \in Pending(k)
  BY <1>7 DEF About
<1>9. CASE cluster[o] = Absent
  <2>1. o \notin Pending(k)  BY <1>9 DEF Pending
  <2>. QED BY <1>1, <1>5, <1>8, <1>9, <2>1
<1>10. CASE cluster[o] # Absent
  <2>1. o \in Pending(k)  BY <1>10 DEF Pending
  <2>2. PICK j \in 1..n : ns[j] = <<o, cluster[o]>>
    BY <1>3, <1>4, <1>5, <2>1
  <2>3. About(ns[j], o)  BY <2>2 DEF About
  <2>4. \A m \in (j + 1)..n : ~About(ns[m], o)
    <3>. SUFFICES ASSUME NEW m \in (j + 1)..n, About(ns[m], o) PROVE FALSE
      OBVIOUS
    <3>1. m \in 1..n /\ m # j  BY <1>5
    <3>2. ns[m] = ns[j]  BY <1>8, <2>2, <3>1
    <3>. QED BY <1>4, <1>5, <3>1, <3>2
  <2>5. ASSUME NEW i \in 1..n, About(ns[i], o) PROVE ns[i][2] = cluster[o]
    <3>1. ns[i] = <<o, cluster[o]>>  BY <1>8, <2>5
    <3>. QED BY <3>1
  <2>. QED BY <1>1, <1>5, <2>3, <2>4, <2>5
<1>. QED BY <1>9, <1>10

LEMMA FinalInit == Init => FinalIsCluster
<1>. SUFFICES ASSUME Init, NEW o \in Objects
              PROVE  Final(o, cluster[o])
  BY DEF FinalIsCluster, Leads
<1>1. CASE mode = "state"
  BY <1>1 DEF Init, Final
<1>2. CASE mode # "state"
  <2>1. ~triggered /\ lock = "free" /\ cache[o] = Absent  BY <1>2 DEF Init, EmptyStore
  <2>2. IsStore(cluster)  BY TypeInit DEF TypeOK
  <2>3. notices = ToTell  BY DEF Init, ToTell
  <2>. PICK n : n = Len(notices[KindOf(o)])  OBVIOUS
  <2>4. /\ \A j \in 1..n : About(notices[KindOf(o)][j], o) =>
                             notices[KindOf(o)][j][2] = cluster[o]
        /\ \/ cluster[o] = Absent /\ \A j \in 1..n : ~About(notices[KindOf(o)][j], o)
           \/ \E j \in 1..n : /\ About(notices[KindOf(o)][j], o)
                              /\ \A m \in (j + 1)..n : ~About(notices[KindOf(o)][m], o)
    BY <1>2, <2>2, <2>3, Subscribed
  <2>5. Upto(o, n, cluster[o])  BY <2>1, <2>4 DEF Upto
  <2>. QED BY <2>1, <2>5 DEF Final
<1>. QED BY <1>1, <1>2

LEMMA FinalRestart ==
    ASSUME TypeOK, Restart, NEW o \in Objects, NEW v, v = cluster[o]
    PROVE  Final(o, v)'
<1>1. CASE mode = "state"
  BY <1>1 DEF Restart, Subscribe, Final
<1>2. CASE mode # "state"
  <2>1. ~triggered' /\ lock' = "free" /\ cache'[o] = Absent
    BY <1>2 DEF Restart, Subscribe, EmptyStore
  <2>2. PICK q : q = notices'  OBVIOUS
  <2>3. q = ToTell  BY <2>2 DEF Restart, Subscribe, ToTell
  <2>4. IsStore(cluster)  BY DEF TypeOK
  <2>5. PICK n : n = Len(q[KindOf(o)])  OBVIOUS
  <2>6. /\ \A j \in 1..n : About(q[KindOf(o)][j], o) => q[KindOf(o)][j][2] = cluster[o]
        /\ \/ cluster[o] = Absent /\ \A j \in 1..n : ~About(q[KindOf(o)][j], o)
           \/ \E j \in 1..n : /\ About(q[KindOf(o)][j], o)
                              /\ \A m \in (j + 1)..n : ~About(q[KindOf(o)][m], o)
    BY <1>2, <2>3, <2>4, <2>5, Subscribed
  <2>7. Upto(o, n, v)'
    BY <2>1, <2>2, <2>6 DEF Upto, About
  <2>. QED BY <2>1, <2>2, <2>5, <2>7 DEF Final
<1>. QED BY <1>1, <1>2

LEMMA FinalStep == BaseInv /\ FinalIsCluster /\ [Next]_vars => FinalIsCluster'
<1>. SUFFICES ASSUME BaseInv, FinalIsCluster, [Next]_vars, NEW o \in Objects
              PROVE  \E v : Final(o, v)' /\ Leads(o, v)'
  BY DEF FinalIsCluster
<1>0. TypeOK /\ ModeInv  BY DEF BaseInv
<1>1. PICK v : Final(o, v) /\ Leads(o, v)
  BY DEF FinalIsCluster
<1>a. ASSUME NEW w, Leads(o, w), UNCHANGED missed, Face(o, cluster'[o]) = Face(o, cluster[o])
      PROVE  Leads(o, w)'
  BY <1>a DEF Leads, Face
<1>b. ASSUME NEW w, Face(o, w) = Face(o, cluster'[o]) PROVE Leads(o, w)'
  BY <1>b DEF Leads, Face
<1>2. ASSUME NEW p \in Objects, NEW value \in NewValues(p), Writes(p, value)
      PROVE  \E w : Final(o, w)' /\ Leads(o, w)'
  <2>1. CASE o = p
    <3>1. Final(o, value)' /\ cluster'[o] = value
      BY <1>0, <1>2, <2>1, FinalWrites, WrittenValues
    <3>. QED BY <1>b, <3>1
  <2>2. CASE o # p
    <3>1. cluster'[o] = cluster[o]  BY <1>0, <1>2, <2>2, WrittenValues
    <3>2. CASE mode = "state"
      <4>. PICK w : w = cluster[o]  OBVIOUS
      <4>1. Final(o, w)'  BY <1>0, <1>2, <2>2, <3>2, FinalWrites
      <4>. QED BY <1>b, <3>1, <4>1
    <3>3. CASE mode # "state"
      <4>1. Final(o, v)'  BY <1>0, <1>1, <1>2, <2>2, <3>3, FinalWrites
      <4>2. UNCHANGED missed  BY <1>2 DEF Writes, Keeps, listing
      <4>. QED BY <1>1, <1>a, <3>1, <4>1, <4>2
    <3>. QED BY <3>2, <3>3
  <2>. QED BY <2>1, <2>2
<1>3. ASSUME NEW g \in Gateways, Touches(g)
      PROVE  \E w : Final(o, w)' /\ Leads(o, w)'
  <2>1. Face(o, cluster'[o]) = Face(o, cluster[o])
    <3>1. CASE o = PolicyOf(g)
      <4>1. cluster'[o] = Policy(cluster[o].spec, FreshVersion(o)) /\ cluster'[o] # Absent
        BY <1>0, <1>3, <3>1, TouchedValues
      <4>2. cluster'[o].spec = cluster[o].spec  BY <4>1 DEF Policy
      <4>3. cluster[o] # Absent  BY <1>3, <3>1 DEF Touches, Known
      <4>4. KindOf(o) = "Policy"  BY <3>1, ObjectFacts
      <4>. QED BY <4>1, <4>2, <4>3, <4>4 DEF Face
    <3>2. CASE o # PolicyOf(g)
      BY <1>0, <1>3, <3>2, TouchedValues
    <3>. QED BY <3>1, <3>2
  <2>2. UNCHANGED missed  BY <1>3 DEF Touches, Keeps, listing
  <2>3. CASE Final(o, v)'  BY <1>1, <1>a, <2>1, <2>2, <2>3
  <2>4. ASSUME NEW w, w = cluster'[o], Final(o, w)'
        PROVE  \E u : Final(o, u)' /\ Leads(o, u)'
    BY <1>b, <2>4
  <2>. QED BY <1>0, <1>1, <1>3, <2>3, <2>4, FinalTouches
<1>4. CASE Moves
  <2>1. Final(o, v)' /\ cluster' = cluster
    BY <1>0, <1>1, <1>4, FinalMoves, MovesKeepCluster
  <2>2. CASE StartReconcile
    <3>1. v = cluster[o]  BY <1>1, <2>2 DEF StartReconcile, Final
    <3>. QED BY <1>b, <2>1, <3>1
  <2>3. CASE ~StartReconcile
    <3>1. UNCHANGED missed
      BY <1>4, <2>3 DEF Moves, Inform, ListKind, Publish, TakeSnapshot, StartCall, listing
    <3>. QED BY <1>1, <1>a, <2>1, <3>1
  <2>. QED BY <2>2, <2>3
<1>5. CASE Rests
  <2>1. Final(o, v)'  BY <1>1, <1>5, FinalRests
  <2>2. UNCHANGED <<missed, cluster>>  BY <1>5 DEF Rests, Keeps, listing, world
  <2>. QED BY <1>1, <1>a, <2>1, <2>2
<1>6. CASE Restart
  <2>. PICK w : w = cluster[o]  OBVIOUS
  <2>1. Final(o, w)'  BY <1>0, <1>6, FinalRestart
  <2>2. cluster' = cluster  BY <1>6 DEF Restart
  <2>. QED BY <1>b, <2>1, <2>2
<1>7. ASSUME NEW k \in Kinds, ListKindFails(k)
      PROVE  \E w : Final(o, w)' /\ Leads(o, w)'
  <2>1. UNCHANGED cluster /\ missed' = missed \cup {k}
    BY <1>7 DEF ListKindFails
  <2>2. CASE Final(o, v)'
    BY <1>1, <2>1, <2>2 DEF Leads, Face
  <2>3. CASE KindOf(o) = k /\ ~Final(o, v)'
    <3>1. \A w : w = Absent => Final(o, w)'
      BY <1>1, <1>7, <2>3, FinalMissed
    <3>2. \A w : w = Absent => Leads(o, w)'
      BY <2>1, <2>3 DEF Leads
    <3>. QED BY <3>1, <3>2
  <2>. QED BY <1>1, <1>7, <2>2, <2>3, FinalMissed
<1>. QED BY <1>0, <1>2, <1>3, <1>4, <1>5, <1>6, <1>7, StoreSteps

LEMMA FinalHolds == Spec => []FinalIsCluster
<1>1. BaseInv /\ FinalIsCluster /\ [Next]_vars => FinalIsCluster'
  BY FinalStep
<1>. QED BY <1>1, FinalInit, BaseHolds, PTL DEF Spec

(***************************************************************************)
(* Versions.                                                               *)
(***************************************************************************)
Held(o, v) ==
    v \in {cluster[o], cache[o], list[o], snapshot[o], told[o], view[o]}

Sent(o, v) == \E n \in ToSet(notices[KindOf(o)]) : About(n, o) /\ v = n[2]

LEMMA CopiesAre ==
    ASSUME NEW o, NEW v
    PROVE  /\ v \in CopiesOf(o) <=> Held(o, v) \/ Sent(o, v)
           /\ v \in CopiesOf(o)' <=> Held(o, v)' \/ Sent(o, v)'
<1>1. v \in CopiesOf(o) <=> Held(o, v) \/ Sent(o, v)
  BY DEF CopiesOf, Held, Sent, About
<1>2. v \in CopiesOf(o)' <=> Held(o, v)' \/ Sent(o, v)'
  BY DEF CopiesOf, Held, Sent, About
<1>. QED BY <1>1, <1>2

LEMMA CopiesMove ==
    ASSUME TypeOK, Moves \/ Rests \/ \E k \in Kinds : ListKindFails(k),
           NEW o \in Objects, NEW v, v \in CopiesOf(o)'
    PROVE  v \in CopiesOf(o) \cup {Absent}
<1>. SUFFICES Held(o, v) \/ Sent(o, v) \/ v = Absent
  BY CopiesAre
<1>0. Held(o, v)' \/ Sent(o, v)'  BY CopiesAre
<1>1. ASSUME NEW k \in Kinds, Inform(k) PROVE Held(o, v) \/ Sent(o, v)
  <2>. DEFINE ns == notices[k]
  <2>1. ns \in Seq(Notices) /\ ns # <<>>  BY <1>1, LengthTyped DEF Inform
  <2>2. Head(ns) \in ToSet(ns) /\ ToSet(Tail(ns)) \subseteq ToSet(ns)
    BY <2>1, TailSet
  <2>3. KindOf(Head(ns)[1]) = k  BY <2>2 DEF TypeOK, IsNotice
  <2>4. \A j \in Kinds : ToSet(notices'[j]) \subseteq ToSet(notices[j])
    BY <1>1, <2>2 DEF Inform, TypeOK
  <2>5. Sent(o, v)' => Sent(o, v)
    BY <2>4, ObjectFacts DEF Sent, About
  <2>6. cache'[o] = cache[o] \/ Sent(o, cache'[o])
    BY <1>1, <2>2, <2>3 DEF Inform, TypeOK, IsStore, Sent, About
  <2>7. UNCHANGED <<cluster, list, snapshot, told, view>>
    BY <1>1 DEF Inform, listing, call
  <2>. QED BY <1>0, <2>5, <2>6, <2>7 DEF Held
<1>2. ASSUME NEW k \in Kinds, ListKind(k) PROVE Held(o, v) \/ Sent(o, v)
  BY <1>0, <1>2 DEF ListKind, world, feed, call, Held, Sent
<1>3. CASE StartReconcile
  BY <1>0, <1>3 DEF StartReconcile, feed, call, Held, Sent, EmptyStore
<1>4. CASE Publish
  BY <1>0, <1>4 DEF Publish, world, call, Held, Sent, EmptyStore
<1>5. CASE TakeSnapshot
  BY <1>0, <1>5 DEF TakeSnapshot, Feed!Take, world, listing, call, Held, Sent
<1>6. CASE StartCall
  BY <1>0, <1>6 DEF StartCall, Feed!Tell, world, listing, Held, Sent
<1>7. CASE Rests
  BY <1>0, <1>7 DEF Rests, Keeps, world, listing, feed, Held, Sent
<1>8. ASSUME NEW k \in Kinds, ListKindFails(k)
      PROVE  Held(o, v) \/ Sent(o, v) \/ v = Absent
  BY <1>0, <1>8 DEF ListKindFails, feed, call, Held, Sent
<1>. QED BY <1>1, <1>2, <1>3, <1>4, <1>5, <1>6, <1>7, <1>8 DEF Moves

LEMMA CopiesWritten ==
    ASSUME TypeOK, NEW p \in Objects, NEW value \in NewValues(p), Writes(p, value),
           NEW o \in Objects, NEW v, v \in CopiesOf(o)'
    PROVE  v \in CopiesOf(o) \/ (o = p /\ v = value)
<1>1. Held(o, v)' => Held(o, v) \/ (o = p /\ v = value)
  BY WrittenValues DEF Writes, Keeps, listing, feed, Held
<1>2. Sent(o, v)' => Sent(o, v) \/ (o = p /\ v = value)
  <2>. DEFINE k == KindOf(p)
  <2>1. value \in ValuesOf(p) /\ value \in Values \cup {Absent} /\ k \in Kinds
        /\ KindOf(o) \in Kinds
    BY NewValuesTyped, ObjectFacts DEF ValuesOf, Values
  <2>2. notices[k] \in Seq(Notices) /\ <<p, value>> \in Notices
    BY <2>1, LengthTyped DEF Notices
  <2>3. ToSet(Append(notices[k], <<p, value>>)) = ToSet(notices[k]) \cup {<<p, value>>}
    BY <2>2, AppendSet
  <2>4. \/ notices'[KindOf(o)] = notices[KindOf(o)]
        \/ KindOf(o) = k /\ notices'[k] = Append(notices[k], <<p, value>>)
    BY <2>1 DEF Writes, Write, TypeOK
  <2>5. \A n \in ToSet(notices'[KindOf(o)]) :
            n \in ToSet(notices[KindOf(o)]) \/ n = <<p, value>>
    BY <2>3, <2>4
  <2>. QED BY <2>5 DEF Sent, About
<1>. QED BY <1>1, <1>2, CopiesAre

LEMMA CopiesTouched ==
    ASSUME TypeOK, NEW g \in Gateways, Touches(g),
           NEW o \in Objects, NEW v, v \in CopiesOf(o)'
    PROVE  v \in CopiesOf(o) \/ (o = PolicyOf(g) /\ v = cluster'[o])
<1>1. Held(o, v)' => Held(o, v) \/ (o = PolicyOf(g) /\ v = cluster'[o])
  BY TouchedValues DEF Touches, Keeps, listing, feed, Held
<1>2. Sent(o, v)' => Sent(o, v)
  BY DEF Touches, Sent
<1>. QED BY <1>1, <1>2, CopiesAre

LEMMA CopiesRestart ==
    ASSUME TypeOK, Restart, NEW o \in Objects, NEW v, v \in CopiesOf(o)'
    PROVE  v \in CopiesOf(o) \cup {Absent}
<1>1. Held(o, v)' => v \in {cluster[o], Absent}
  BY DEF Restart, Held, EmptyStore
<1>2. Sent(o, v)' => v = cluster[o]
  <2>. SUFFICES ASSUME NEW n \in ToSet(notices'[KindOf(o)]), About(n, o), v = n[2]
                PROVE  v = cluster[o]
    BY DEF Sent, About
  <2>1. mode # "state"
    <3>1. mode = "state" => notices'[KindOf(o)] = <<>>
      BY ObjectFacts DEF Restart, Subscribe
    <3>2. ToSet(<<>>) = {}  BY DEF ToSet
    <3>. QED BY <3>1, <3>2
  <2>2. PICK q : q = notices'  OBVIOUS
  <2>3. q = ToTell /\ IsStore(cluster)  BY <2>2 DEF Restart, Subscribe, ToTell, TypeOK
  <2>4. PICK l : l = Len(q[KindOf(o)])  OBVIOUS
  <2>5. \A j \in 1..l : About(q[KindOf(o)][j], o) => q[KindOf(o)][j][2] = cluster[o]
    BY <2>1, <2>3, <2>4, Subscribed
  <2>6. q \in [Kinds -> Seq(Notices)]
    BY <2>2, <2>3, SubscribeTyped DEF ToTell
  <2>7. DOMAIN q[KindOf(o)] = 1..l  BY <2>4, <2>6, ObjectFacts
  <2>. QED BY <2>2, <2>5, <2>7 DEF ToSet
<1>. QED BY <1>1, <1>2, CopiesAre DEF Held

(* A copy of a policy with the version of another is a copy of the same.   *)
VersionsTell ==
    \A g \in Gateways : \A v, w \in CopiesOf(PolicyOf(g)) \ {Absent} :
        v.version = w.version => v.spec = w.spec

(* Whoever changes a policy makes it another than any copy.                *)
LEMMA ChangedDiffers ==
    ASSUME TypeOK, NEW g \in Gateways, NEW new,
           \/ new \in NewValues(PolicyOf(g))
           \/ new = Policy(cluster[PolicyOf(g)].spec, FreshVersion(PolicyOf(g))),
           NEW v \in CopiesOf(PolicyOf(g)) \ {Absent}
    PROVE  v # new /\ (new # Absent => v.version # new.version)
<1>. DEFINE o == PolicyOf(g)
<1>1. o \in Objects /\ KindOf(o) = "Policy"  BY ObjectFacts
<1>2. v.version # FreshVersion(o)  BY <1>1, FreshVersionIsNew
<1>3. new = Absent \/ new.version = FreshVersion(o)
  <2>1. CASE new \in NewValues(o) /\ new # Absent
    <3>1. new \in NewPolicies(o)  BY <1>1, <2>1 DEF NewValues
    <3>. QED BY <1>1, <3>1, PolicyTyped
  <2>2. CASE new = Policy(cluster[o].spec, FreshVersion(o))
    BY <2>2 DEF Policy
  <2>. QED BY <2>1, <2>2
<1>. QED BY <1>2, <1>3

LEMMA VersionsStep == BaseInv /\ VersionsTell /\ [Next]_vars => VersionsTell'
<1>. SUFFICES ASSUME BaseInv, VersionsTell, [Next]_vars, NEW g \in Gateways,
                     NEW v, NEW w, v # Absent, w # Absent,
                     v \in CopiesOf(PolicyOf(g))', w \in CopiesOf(PolicyOf(g))',
                     v.version = w.version
              PROVE  v.spec = w.spec
  BY DEF VersionsTell
<1>. DEFINE o == PolicyOf(g)
<1>0. TypeOK /\ o \in Objects  BY ObjectFacts DEF BaseInv
<1>1. ASSUME NEW new, \/ new \in NewValues(o)
                      \/ new = Policy(cluster[o].spec, FreshVersion(o)),
             v \in CopiesOf(o) \/ v = new, w \in CopiesOf(o) \/ w = new
      PROVE  v.spec = w.spec
  <2>1. v = new /\ w \in CopiesOf(o) => w.version # new.version
    BY <1>0, <1>1, ChangedDiffers
  <2>2. w = new /\ v \in CopiesOf(o) => v.version # new.version
    BY <1>0, <1>1, ChangedDiffers
  <2>. QED BY <1>1, <2>1, <2>2 DEF VersionsTell
<1>2. ASSUME NEW p \in Objects, NEW value \in NewValues(p), Writes(p, value)
      PROVE  v.spec = w.spec
  <2>1. CASE p = o
    <3>1. /\ v \in CopiesOf(o) \/ v = value
          /\ w \in CopiesOf(o) \/ w = value
      BY <1>0, <1>2, CopiesWritten
    <3>. QED BY <1>1, <1>2, <2>1, <3>1
  <2>2. CASE p # o
    <3>1. v \in CopiesOf(o) /\ w \in CopiesOf(o)  BY <1>0, <1>2, <2>2, CopiesWritten
    <3>. QED BY <3>1 DEF VersionsTell
  <2>. QED BY <2>1, <2>2
<1>3. ASSUME NEW h \in Gateways, Touches(h) PROVE v.spec = w.spec
  <2>1. CASE h = g
    <3>1. PICK new : new = cluster'[o]  OBVIOUS
    <3>2. new = Policy(cluster[o].spec, FreshVersion(o))
      BY <1>0, <1>3, <2>1, <3>1, TouchedValues
    <3>3. /\ v \in CopiesOf(o) \/ v = new
          /\ w \in CopiesOf(o) \/ w = new
      BY <1>0, <1>3, <2>1, <3>1, CopiesTouched
    <3>. QED BY <1>1, <3>2, <3>3
  <2>2. CASE h # g
    <3>1. o # PolicyOf(h)  BY <2>2, ObjectFacts
    <3>2. v \in CopiesOf(o) /\ w \in CopiesOf(o)  BY <1>0, <1>3, <3>1, CopiesTouched
    <3>. QED BY <3>2 DEF VersionsTell
  <2>. QED BY <2>1, <2>2
<1>4. CASE Moves \/ Rests \/ Restart \/ \E k \in Kinds : ListKindFails(k)
  <2>1. v \in CopiesOf(o) /\ w \in CopiesOf(o)
    BY <1>0, <1>4, CopiesMove, CopiesRestart
  <2>. QED BY <2>1 DEF VersionsTell
<1>. QED BY <1>0, <1>2, <1>3, <1>4, StoreSteps

LEMMA VersionsHolds == Spec => []VersionsTell
<1>1. Init => VersionsTell
  <2>. SUFFICES ASSUME Init, NEW g \in Gateways, NEW v, v # Absent, v \in CopiesOf(PolicyOf(g))
                PROVE  FALSE
    BY DEF VersionsTell
  <2>. DEFINE o == PolicyOf(g)
  <2>1. o \in Objects /\ KindOf(o) = "Policy" /\ "Policy" \in Kinds
    BY ObjectFacts DEF Kinds
  <2>2. cluster[o] = Absent  BY <2>1 DEF Init
  <2>3. ~Held(o, v)  BY <2>1, <2>2 DEF Init, Held, EmptyStore
  <2>4. ~Sent(o, v)
    <3>1. CASE mode = "state"
      <4>1. notices["Policy"] = <<>>  BY <2>1, <3>1 DEF Init
      <4>. QED BY <2>1, <4>1 DEF Sent, ToSet
    <3>2. CASE mode # "state"
      <4>1. notices = ToTell /\ IsStore(cluster)
        BY TypeInit DEF Init, ToTell, TypeOK
      <4>2. notices["Policy"] \in Seq(Notices)  BY <2>1, TypeInit, LengthTyped
      <4>3. \A j \in 1..Len(notices["Policy"]) :
                About(notices["Policy"][j], o) => notices["Policy"][j][2] = cluster[o]
        BY <2>1, <3>2, <4>1, Subscribed
      <4>. QED BY <2>1, <2>2, <4>2, <4>3 DEF Sent, ToSet
    <3>. QED BY <3>1, <3>2
  <2>. QED BY <2>3, <2>4, CopiesAre
<1>2. BaseInv /\ VersionsTell /\ [Next]_vars => VersionsTell'
  BY VersionsStep
<1>. QED BY <1>1, <1>2, BaseHolds, PTL DEF Spec

(***************************************************************************)
(* At any time, everybody sees one gateway of a name.                      *)
(***************************************************************************)
Rivals(o, p) ==
    /\ KindOf(o) = "Gateway" /\ KindOf(p) = "Gateway"
    /\ NameOf(o) = NameOf(p) /\ o # p

LEMMA ApartIs ==
    ASSUME NEW s
    PROVE  Apart(s) <=> \A o, p \in Objects :
                            Rivals(o, p) => s[o] = Absent \/ s[p] = Absent
BY ObjectFacts DEF Apart, Rivals, ObjectsOf

ApartAlong ==
    \A o, p \in Objects : Rivals(o, p) =>
        \A i \in 0..Len(notices["Gateway"]) : \A v, w :
            Upto(o, i, v) /\ Upto(p, i, w) => v = Absent \/ w = Absent

OneGateway == Apart(list) /\ Apart(snapshot) /\ Apart(told) /\ ApartAlong

LEMMA ApartCache == ASSUME TypeOK, ApartAlong PROVE Apart(cache)
<1>1. "Gateway" \in Kinds  BY DEF Kinds
<1>2. Len(notices["Gateway"]) \in Nat  BY <1>1, LengthTyped
<1>3. ASSUME NEW o \in Objects, NEW p \in Objects, Rivals(o, p)
      PROVE  cache[o] = Absent \/ cache[p] = Absent
  <2>1. Upto(o, 0, cache[o]) /\ Upto(p, 0, cache[p])  BY UptoNone
  <2>. QED BY <1>2, <1>3, <2>1 DEF ApartAlong
<1>. QED BY <1>3, ApartIs

LEMMA ApartEmpty == Apart(EmptyStore)
BY ApartIs DEF EmptyStore

LEMMA AlongWritten ==
    ASSUME BaseInv, FinalIsCluster, ApartAlong,
           NEW o \in Objects, NEW value \in NewValues(o), Writes(o, value)
    PROVE  ApartAlong'
<1>0. TypeOK /\ ModeInv /\ "Gateway" \in Kinds  BY DEF BaseInv, Kinds
<1>1. CASE mode = "state"
  <2>1. UNCHANGED <<notices, cache>>  BY <1>1 DEF Writes, Write, Keeps, feed
  <2>2. \A a, i, v : Upto(a, i, v)' <=> Upto(a, i, v)  BY <2>1, UptoSame
  <2>. QED BY <2>1, <2>2 DEF ApartAlong
<1>2. CASE mode # "state"
  <2>1. mode = "delta" /\ ~triggered /\ lock # "lister"
    BY <1>0, <1>2 DEF TypeOK, ModeInv
  <2>2. PICK n \in Nat : n = Len(notices["Gateway"])  BY <1>0, LengthTyped
  <2>3. ASSUME NEW a \in Objects, KindOf(a) = "Gateway", NEW v, Upto(a, n, v)
        PROVE  v = cluster[a]
    <3>1. PICK u : Final(a, u) /\ Face(a, u) = Face(a, cluster[a])
      BY <1>0, <2>1 DEF FinalIsCluster, Leads, ModeInv
    <3>2. Upto(a, n, u)  BY <2>1, <2>2, <2>3, <3>1 DEF Final
    <3>. QED BY <2>3, <3>1, <3>2, UptoUnique DEF Face
  <2>. SUFFICES ASSUME NEW a \in Objects, NEW b \in Objects, Rivals(a, b),
                       NEW i \in 0..Len(notices'["Gateway"]), NEW v, NEW w,
                       Upto(a, i, v)', Upto(b, i, w)'
                PROVE  v = Absent \/ w = Absent
    BY DEF ApartAlong
  <2>4. KindOf(a) = "Gateway" /\ KindOf(b) = "Gateway"  BY DEF Rivals
  <2>5. CASE i \in 0..n
    <3>1. Upto(a, i, v) /\ Upto(b, i, w)
      BY <1>0, <2>1, <2>2, <2>4, <2>5, UptoWritten
    <3>. QED BY <2>2, <2>5, <3>1 DEF ApartAlong
  <2>6. CASE i \notin 0..n
    <3>1. KindOf(o) = "Gateway" /\ Len(notices'["Gateway"]) = n + 1
      BY <1>0, <2>1, <2>2, <2>4, <2>6, UptoWritten
    <3>2. i = n + 1  BY <2>2, <2>6, <3>1
    <3>3. Upto(a, n + 1, v)' /\ Upto(b, n + 1, w)'
      BY <3>2
    <3>a. ASSUME NEW p \in Objects, KindOf(p) = "Gateway", NEW u, Upto(p, n + 1, u)'
          PROVE  (p = o /\ u = value) \/ (p # o /\ Upto(p, n, u))
      <4>1. KindOf(p) = KindOf(o) /\ n = Len(notices[KindOf(p)])
        BY <2>2, <3>1, <3>a
      <4>2. Upto(p, n + 1, u)' => (p = o /\ u = value) \/ (p # o /\ Upto(p, n, u))
        BY <1>0, <2>1, <4>1, UptoWritten
      <4>. QED BY <3>a, <4>2
    <3>b. /\ (a = o /\ v = value) \/ (a # o /\ Upto(a, n, v))
          /\ (b = o /\ w = value) \/ (b # o /\ Upto(b, n, w))
      BY <2>4, <3>3, <3>a
    <3>4. value # Absent => \A p \in Objects :
              KindOf(p) = "Gateway" /\ NameOf(p) = NameOf(o) => cluster[p] = Absent
      BY <3>1 DEF NewValues, Exists, ObjectsOf
    <3>5. CASE a = o
      <4>1. v = value /\ w = cluster[b]  BY <2>3, <2>4, <3>b, <3>5 DEF Rivals
      <4>. QED BY <2>4, <3>4, <3>5, <4>1 DEF Rivals
    <3>6. CASE b = o
      <4>1. w = value /\ v = cluster[a]  BY <2>3, <2>4, <3>b, <3>6 DEF Rivals
      <4>. QED BY <2>4, <3>4, <3>6, <4>1 DEF Rivals
    <3>7. CASE a # o /\ b # o
      <4>1. n \in 0..n  BY <2>2
      <4>. QED BY <2>2, <3>b, <3>7, <4>1 DEF ApartAlong
    <3>. QED BY <3>5, <3>6, <3>7
  <2>. QED BY <2>5, <2>6
<1>. QED BY <1>1, <1>2

LEMMA AlongInformed ==
    ASSUME TypeOK, ApartAlong, NEW k \in Kinds, Inform(k)
    PROVE  ApartAlong'
<1>. SUFFICES ASSUME NEW a \in Objects, NEW b \in Objects, Rivals(a, b),
                     NEW i \in 0..Len(notices'["Gateway"]), NEW v, NEW w,
                     Upto(a, i, v)', Upto(b, i, w)'
              PROVE  v = Absent \/ w = Absent
  BY DEF ApartAlong
<1>1. KindOf(a) = "Gateway" /\ KindOf(b) = "Gateway"  BY DEF Rivals
<1>2. CASE k = "Gateway"
  <2>1. /\ Upto(a, i + 1, v) /\ Upto(b, i + 1, w)
        /\ Len(notices'["Gateway"]) \in Nat
        /\ Len(notices["Gateway"]) = Len(notices'["Gateway"]) + 1
    BY <1>1, <1>2, UptoInform
  <2>2. i + 1 \in 0..Len(notices["Gateway"])  BY <2>1
  <2>. QED BY <2>1, <2>2 DEF ApartAlong
<1>3. CASE k # "Gateway"
  <2>1. /\ Upto(a, i, v) /\ Upto(b, i, w)
        /\ notices'["Gateway"] = notices["Gateway"]
    BY <1>1, <1>3, UptoOtherKinds
  <2>. QED BY <2>1 DEF ApartAlong
<1>. QED BY <1>2, <1>3

(* The notices of a start are about what there is.                         *)
Among(q, i, o, v) ==
    v = Absent \/ \E j \in 1..i : About(q["Gateway"][j], o) /\ v = q["Gateway"][j][2]

LEMMA AlongSubscribed ==
    ASSUME IsStore(cluster), NEW q, q = ToTell,
           NEW a \in Objects, KindOf(a) = "Gateway",
           NEW i \in 0..Len(q["Gateway"]), NEW v, Among(q, i, a, v)
    PROVE  v \in {Absent, cluster[a]}
<1>1. "Gateway" \in Kinds  BY DEF Kinds
<1>2. CASE mode = "state"
  <2>1. q["Gateway"] = <<>>  BY <1>1, <1>2 DEF ToTell
  <2>2. i = 0  BY <2>1
  <2>. QED BY <2>2 DEF Among
<1>3. CASE mode # "state"
  <2>. PICK n : n = Len(q["Gateway"])  OBVIOUS
  <2>1. /\ n \in Nat
        /\ \A j \in 1..n : About(q["Gateway"][j], a) => q["Gateway"][j][2] = cluster[a]
    BY <1>1, <1>3, Subscribed
  <2>. QED BY <2>1 DEF Among
<1>. QED BY <1>2, <1>3

LEMMA OneGatewayStep ==
    BaseInv /\ FinalIsCluster /\ OneGateway /\ [Next]_vars => OneGateway'
<1>. SUFFICES ASSUME BaseInv, FinalIsCluster, OneGateway, [Next]_vars
              PROVE  Apart(list') /\ Apart(snapshot') /\ Apart(told') /\ ApartAlong'
  BY DEF OneGateway, Apart
<1>0. /\ TypeOK /\ ModeInv /\ Apart(cluster) /\ "Gateway" \in Kinds
      /\ Apart(list) /\ Apart(snapshot) /\ Apart(told) /\ ApartAlong
  BY DEF BaseInv, OneGateway, Kinds
<1>a. ASSUME UNCHANGED <<notices, cache>> PROVE ApartAlong'
  <2>1. \A a, i, v : Upto(a, i, v)' <=> Upto(a, i, v)  BY <1>a, UptoSame
  <2>. QED BY <1>0, <1>a, <2>1 DEF ApartAlong
<1>1. ASSUME NEW o \in Objects, NEW value \in NewValues(o), Writes(o, value)
      PROVE  Apart(list') /\ Apart(snapshot') /\ Apart(told') /\ ApartAlong'
  <2>1. ApartAlong'  BY <1>0, <1>1, AlongWritten
  <2>. QED BY <1>0, <1>1, <2>1 DEF Writes, Keeps, listing, feed
<1>2. ASSUME NEW g \in Gateways, Touches(g)
      PROVE  Apart(list') /\ Apart(snapshot') /\ Apart(told') /\ ApartAlong'
  BY <1>0, <1>2, <1>a DEF Touches, Keeps, listing, feed
<1>3. CASE Moves
  <2>1. ASSUME NEW k \in Kinds, Inform(k)
        PROVE  Apart(list') /\ Apart(snapshot') /\ Apart(told') /\ ApartAlong'
    <3>1. ApartAlong'  BY <1>0, <2>1, AlongInformed
    <3>. QED BY <1>0, <2>1, <3>1 DEF Inform, listing
  <2>2. ASSUME NEW k \in Kinds, ListKind(k)
        PROVE  Apart(list') /\ Apart(snapshot') /\ Apart(told') /\ ApartAlong'
    <3>1. list' = [o \in Objects |-> IF KindOf(o) = k THEN cluster[o] ELSE list[o]]
      BY <2>2 DEF ListKind
    <3>2. Apart(list')  BY <1>0, <3>1, ApartIs DEF Rivals
    <3>. QED BY <1>0, <1>a, <2>2, <3>2 DEF ListKind, world, feed
  <2>3. CASE StartReconcile
    BY <1>0, <1>a, <2>3, ApartEmpty DEF StartReconcile, feed
  <2>4. CASE Publish
    <3>1. Len(notices'["Gateway"]) = 0 /\ cache' = list
      BY <1>0, <2>4 DEF Publish, ModeInv, TypeOK, world
    <3>2. ApartAlong'
      <4>. SUFFICES ASSUME NEW a \in Objects, NEW b \in Objects, Rivals(a, b), NEW v, NEW w,
                           Upto(a, 0, v)', Upto(b, 0, w)'
                    PROVE  v = Absent \/ w = Absent
        BY <3>1 DEF ApartAlong
      <4>1. v = list[a] /\ w = list[b]  BY <3>1 DEF Upto
      <4>. QED BY <1>0, <4>1, ApartIs
    <3>. QED BY <1>0, <2>4, <3>2, ApartEmpty DEF Publish
  <2>5. CASE TakeSnapshot
    BY <1>0, <1>a, <2>5, ApartCache DEF TakeSnapshot, Feed!Take, world, listing
  <2>6. CASE StartCall
    BY <1>0, <1>a, <2>6 DEF StartCall, Feed!Tell, world, listing
  <2>. QED BY <1>3, <2>1, <2>2, <2>3, <2>4, <2>5, <2>6 DEF Moves
<1>4. CASE Rests
  BY <1>0, <1>4, <1>a DEF Rests, Keeps, world, listing, feed
<1>5. CASE Restart
  <2>1. ApartAlong'
    <3>. SUFFICES ASSUME NEW a \in Objects, NEW b \in Objects, Rivals(a, b),
                         NEW i \in 0..Len(notices'["Gateway"]), NEW v, NEW w,
                         Upto(a, i, v)', Upto(b, i, w)'
                  PROVE  v = Absent \/ w = Absent
      BY DEF ApartAlong
    <3>. PICK q : q = notices'  OBVIOUS
    <3>1. /\ q = ToTell /\ IsStore(cluster) /\ Apart(cluster)
          /\ i \in 0..Len(q["Gateway"])
      BY <1>0, <1>5 DEF Restart, Subscribe, ToTell, TypeOK
    <3>2. KindOf(a) = "Gateway" /\ KindOf(b) = "Gateway"  BY DEF Rivals
    <3>3. Among(q, i, a, v) /\ Among(q, i, b, w)
      BY <1>5, <3>2 DEF Restart, EmptyStore, Upto, About, Among
    <3>4. v \in {Absent, cluster[a]}  BY <3>1, <3>2, <3>3, AlongSubscribed
    <3>5. w \in {Absent, cluster[b]}  BY <3>1, <3>2, <3>3, AlongSubscribed
    <3>. QED BY <3>1, <3>4, <3>5, ApartIs
  <2>. QED BY <1>5, <2>1, ApartEmpty DEF Restart
<1>6. ASSUME NEW k \in Kinds, ListKindFails(k)
      PROVE  Apart(list') /\ Apart(snapshot') /\ Apart(told') /\ ApartAlong'
  <2>1. list' = [o \in Objects |-> IF KindOf(o) = k THEN Absent ELSE list[o]]
    BY <1>6 DEF ListKindFails
  <2>2. Apart(list')  BY <1>0, <2>1, ApartIs
  <2>. QED BY <1>0, <1>a, <1>6, <2>2 DEF ListKindFails, feed
<1>. QED BY <1>0, <1>1, <1>2, <1>3, <1>4, <1>5, <1>6, StoreSteps

LEMMA OneGatewayHolds == Spec => []OneGateway
<1>1. Init => OneGateway
  <2>. SUFFICES ASSUME Init, NEW a \in Objects, NEW b \in Objects, Rivals(a, b),
                       NEW i \in 0..Len(notices["Gateway"]), NEW v, NEW w,
                       Upto(a, i, v), Upto(b, i, w)
                PROVE  v = Absent \/ w = Absent
    BY ApartEmpty DEF Init, OneGateway, ApartAlong
  <2>1. notices = ToTell /\ IsStore(cluster) /\ Apart(cluster)
    BY BaseInit DEF Init, ToTell, BaseInv, TypeOK
  <2>. PICK q : q = notices  OBVIOUS
  <2>2. KindOf(a) = "Gateway" /\ KindOf(b) = "Gateway"  BY DEF Rivals
  <2>3. Among(q, i, a, v) /\ Among(q, i, b, w)
    BY <2>2 DEF Init, EmptyStore, Upto, Among
  <2>4. v \in {Absent, cluster[a]}  BY <2>1, <2>2, <2>3, AlongSubscribed
  <2>5. w \in {Absent, cluster[b]}  BY <2>1, <2>2, <2>3, AlongSubscribed
  <2>. QED BY <2>1, <2>4, <2>5, ApartIs
<1>2. BaseInv /\ FinalIsCluster /\ OneGateway /\ [Next]_vars => OneGateway'
  BY OneGatewayStep
<1>. QED BY <1>1, <1>2, BaseHolds, FinalHolds, PTL DEF Spec

LEMMA HeldAreCopies ==
    \A o : {cluster[o], cache[o], list[o], snapshot[o], told[o], view[o]} \subseteq CopiesOf(o)
BY CopiesAre DEF Held

(***************************************************************************)
(* What a call is looking at.                                              *)
(***************************************************************************)
SameFor(g, s, t) == \A o \in ObjectsOf(g) : s[o] = t[o]

CallInv ==
    \A g \in reconciling \cup deleting :
        Exists(told, g) /\ g \notin ahead => SameFor(g, view, told)

LEMMA SameHelps ==
    ASSUME NEW g \in Gateways, NEW s, NEW t, SameFor(g, s, t)
    PROVE  /\ Exists(s, g) <=> Exists(t, g)
           /\ Desired(s, g) = Desired(t, g) /\ (Wanted(s, g) <=> Wanted(t, g))
           /\ Known(s, g) <=> Known(t, g)
           /\ Linked(s, g) <=> Linked(t, g)
           /\ s[PolicyOf(g)] = t[PolicyOf(g)]
<1>1. s[PolicyOf(g)] = t[PolicyOf(g)] /\ s[RulesFor(g)] = t[RulesFor(g)]
  BY ObjectFacts DEF SameFor
<1>2. Exists(s, g) <=> Exists(t, g)  BY DEF SameFor, Exists
<1>. QED BY <1>1, <1>2 DEF Desired, Wanted, Known, Linked

(* A call that has nothing to reconcile is about gateways that went, and   *)
(* nothing else has changed.                                               *)
LEMMA DeletionsOnly ==
    ASSUME TypeOK, Apart(told), Apart(snapshot), NEW g \in Gateways, Exists(snapshot, g),
           \A e \in Feed!EventsBetween(told, snapshot) : ~ForReconcile(e)
    PROVE  SameFor(g, told, snapshot)
<1>0. \A o \in ObjectsOf(g) : o \in Objects /\ NameOf(o) = g /\ KindOf(o) \in Kinds
  BY ObjectFacts
<1>1. ASSUME NEW o \in Objects, told[o] # snapshot[o]
      PROVE  KindOf(o) = "Gateway" /\ told[o] # Absent /\ snapshot[o] = Absent
  <2>1. CASE told[o] = Absent
    <3>1. Feed!EventOf("create", o, Absent, snapshot[o]) \in Feed!EventsBetween(told, snapshot)
      BY <1>1, <2>1 DEF Feed!EventsBetween, Feed!IsCreated
    <3>. QED BY <3>1 DEF ForReconcile, Feed!EventOf
  <2>2. CASE told[o] # Absent /\ snapshot[o] # Absent
    <3>1. Feed!EventOf("update", o, told[o], snapshot[o]) \in Feed!EventsBetween(told, snapshot)
      BY <1>1, <2>2 DEF Feed!EventsBetween, Feed!IsUpdated
    <3>. QED BY <3>1 DEF ForReconcile, Feed!EventOf
  <2>3. CASE told[o] # Absent /\ snapshot[o] = Absent
    <3>1. Feed!EventOf("delete", o, told[o], Absent) \in Feed!EventsBetween(told, snapshot)
      BY <1>1, <2>3 DEF Feed!EventsBetween, Feed!IsDeleted
    <3>2. KindOf(o) = "Gateway"  BY <3>1 DEF ForReconcile, Feed!EventOf
    <3>. QED BY <2>3, <3>2
  <2>. QED BY <2>1, <2>2, <2>3
<1>2. PICK p \in ObjectsOf(g) : KindOf(p) = "Gateway" /\ snapshot[p] # Absent
  BY DEF Exists
<1>3. told[p] # Absent  BY <1>0, <1>1, <1>2
<1>. SUFFICES ASSUME NEW o \in ObjectsOf(g), told[o] # snapshot[o] PROVE FALSE
  BY DEF SameFor
<1>4. KindOf(o) = "Gateway" /\ told[o] # Absent /\ snapshot[o] = Absent
  BY <1>0, <1>1
<1>5. o = p  BY <1>2, <1>3, <1>4 DEF Apart
<1>. QED BY <1>2, <1>4, <1>5

LEMMA StartedCalls ==
    ASSUME TypeOK, Apart(told), Apart(snapshot), StartCall, NEW g \in Gateways,
           Exists(told', g), g \notin ahead'
    PROVE  \/ g \in reconciling' /\ SameFor(g, view', told')
           \/ /\ g \notin reconciling' \cup deleting' /\ SameFor(g, told, told')
              /\ ahead' = ahead /\ outcome'[g] = outcome[g]
<1>. DEFINE events == Feed!EventsBetween(told, snapshot)
<1>1. /\ told' = snapshot /\ view' = cache
      /\ reconciling' = {h \in Gateways : Exists(cache, h) /\ \E e \in events : ForReconcile(e)}
      /\ deleting' = {NameOf(e.uid) : e \in {f \in events : ForDelete(f)}}
      /\ ahead' = IF \E e \in events : ForReconcile(e)
                  THEN {h \in Gateways : \E o \in ObjectsOf(h) : cache[o] # snapshot[o]}
                  ELSE ahead
      /\ outcome'[g] = IF g \in reconciling' THEN "none" ELSE outcome[g]
  BY DEF StartCall, Feed!Tell
<1>2. CASE \E e \in events : ForReconcile(e)
  <2>1. SameFor(g, cache, snapshot)  BY <1>1, <1>2 DEF SameFor
  <2>2. Exists(cache, g)  BY <1>1, <2>1, SameHelps
  <2>. QED BY <1>1, <1>2, <2>1, <2>2
<1>3. CASE \A e \in events : ~ForReconcile(e)
  <2>1. SameFor(g, told, snapshot)  BY <1>1, <1>3, DeletionsOnly
  <2>2. g \notin deleting'
    <3>. SUFFICES ASSUME NEW e \in events, ForDelete(e), NameOf(e.uid) = g PROVE FALSE
      BY <1>1
    <3>1. e.uid \in Objects /\ told[e.uid] # Absent /\ snapshot[e.uid] = Absent
      BY DEF Feed!EventsBetween, Feed!EventOf, Feed!IsDeleted, ForDelete
    <3>. QED BY <2>1, <3>1 DEF SameFor, ObjectsOf
  <2>. QED BY <1>1, <1>3, <2>1, <2>2
<1>. QED BY <1>2, <1>3

LEMMA CallStep == BaseInv /\ OneGateway /\ CallInv /\ [Next]_vars => CallInv'
<1>. SUFFICES ASSUME BaseInv, OneGateway, CallInv, [Next]_vars,
                     NEW g \in reconciling' \cup deleting', Exists(told', g), g \notin ahead'
              PROVE  SameFor(g, view', told')
  BY DEF CallInv, SameFor, Exists
<1>0. TypeOK /\ Apart(told) /\ Apart(snapshot)  BY DEF BaseInv, OneGateway
<1>a. ASSUME UNCHANGED <<view, told, ahead>>,
             reconciling' \subseteq reconciling, deleting' \subseteq deleting
      PROVE  SameFor(g, view', told')
  BY <1>a DEF CallInv
<1>1. CASE StartCall
  <2>1. g \in Gateways
    <3>1. reconciling' \subseteq Gateways /\ deleting' \subseteq Gateways
      BY <1>0, TypeStep DEF TypeOK
    <3>. QED BY <3>1
  <2>. QED BY <1>0, <1>1, <2>1, StartedCalls
<1>2. CASE Restart  BY <1>2 DEF Restart
<1>3. CASE Moves /\ ~StartCall
  <2>1. UNCHANGED <<view, told, ahead, reconciling, deleting>>
    BY <1>3 DEF Moves, Inform, ListKind, StartReconcile, Publish, TakeSnapshot,
                Feed!Take, feed, call
  <2>. QED BY <1>a, <2>1
<1>4. ASSUME Keeps PROVE SameFor(g, view', told')
  BY <1>4, <1>a DEF Keeps, feed
<1>5. ASSUME NEW k \in Kinds, ListKindFails(k) PROVE SameFor(g, view', told')
  BY <1>5, <1>a DEF ListKindFails, feed, call
<1>. QED BY <1>0, <1>1, <1>2, <1>3, <1>4, <1>5, StoreSteps DEF Writes, Touches, Rests

LEMMA CallHolds == Spec => []CallInv
<1>1. Init => CallInv  BY DEF Init, CallInv
<1>2. BaseInv /\ OneGateway /\ CallInv /\ [Next]_vars => CallInv'
  BY CallStep
<1>. QED BY <1>1, <1>2, BaseHolds, OneGatewayHolds, PTL DEF Spec

(***************************************************************************)
(* A gateway that is not to be reconciled any more needs nothing of what   *)
(* the reconcilers were told last, or news of its policy will come.        *)
(***************************************************************************)
Good(s, g) ==
    IF Wanted(s, g)
    THEN /\ Known(s, g) /\ s[PolicyOf(g)].spec.rules = Desired(s, g)
         /\ s[PolicyOf(g)].spec.target \in
                IF provider = "istio" THEN {"own", "wide"} ELSE {"own"}
    ELSE Known(s, g) => s[PolicyOf(g)].spec.target = "stray"

(* Watching by lists, what lets them know is another list if this one is   *)
(* of no use: it will not show the policy as they know it either.          *)
Overtaken(g) == mode = "state" => cluster[PolicyOf(g)] # told[PolicyOf(g)]

News(g) ==
    /\ Known(told, g) /\ Overtaken(g)
    /\ \E v : Final(PolicyOf(g), v) /\ v # told[PolicyOf(g)]

Settled(g) ==
    \/ outcome[g] = "failed"
    \/ Good(told, g)
    \/ News(g)
    \/ ~Known(told, g) /\ outcome[g] = "created"

SettledInv ==
    \A g \in Gateways :
        Exists(told, g) /\ g \notin ahead => g \in reconciling \/ Settled(g)

LEMMA NewsOfWrite ==
    ASSUME TypeOK, ModeInv, NEW g \in Gateways, NEW value \in NewValues(PolicyOf(g)),
           Writes(PolicyOf(g), value), Known(told, g)
    PROVE  News(g)'
<1>. DEFINE o == PolicyOf(g)
<1>1. o \in Objects  BY ObjectFacts
<1>2. told' = told  BY DEF Writes, Keeps, feed
<1>3. Final(o, value)'  BY <1>1, FinalWrites
<1>4. told[o] \in CopiesOf(o) \ {Absent}  BY HeldAreCopies DEF Known
<1>5. value # told[o]  BY <1>4, ChangedDiffers
<1>6. cluster'[o] = value  BY <1>1, WrittenValues
<1>7. Overtaken(g)'  BY <1>2, <1>5, <1>6 DEF Overtaken
<1>. QED BY <1>2, <1>3, <1>5, <1>7 DEF News, Known

LEMMA NewsKept ==
    ASSUME BaseInv, [Next]_vars, ~Restart, NEW g \in Gateways, News(g),
           told'[PolicyOf(g)] = told[PolicyOf(g)]
    PROVE  News(g)'
<1>. DEFINE o == PolicyOf(g)
<1>0. TypeOK /\ ModeInv /\ o \in Objects  BY ObjectFacts DEF BaseInv
<1>1. PICK v : Final(o, v) /\ v # told[o]  BY DEF News
<1>2. Known(told, g) /\ Overtaken(g)  BY DEF News
<1>3. ASSUME NEW w, Final(o, w)', w # told[o], Overtaken(g)' PROVE News(g)'
  BY <1>2, <1>3 DEF News, Known
<1>a. mode' = mode /\ cluster'[o] = cluster[o] => Overtaken(g)'
  BY <1>2 DEF Overtaken
<1>4. ASSUME NEW p \in Objects, NEW value \in NewValues(p), Writes(p, value)
      PROVE  News(g)'
  <2>1. CASE p = o  BY <1>0, <1>2, <1>4, <2>1, NewsOfWrite
  <2>2. CASE p # o
    <3>. PICK w : w = IF mode = "state" THEN cluster[o] ELSE v  OBVIOUS
    <3>1. Final(o, w)'  BY <1>0, <1>1, <1>4, <2>2, FinalWrites
    <3>2. w # told[o]  BY <1>1, <1>2 DEF Overtaken
    <3>3. mode' = mode /\ cluster'[o] = cluster[o]
      BY <1>0, <1>4, <2>2, WrittenValues DEF Writes, Keeps
    <3>. QED BY <1>3, <1>a, <3>1, <3>2, <3>3
  <2>. QED BY <2>1, <2>2
<1>5. ASSUME NEW h \in Gateways, Touches(h) PROVE News(g)'
  <2>0. mode' = mode  BY <1>5 DEF Touches, Keeps
  <2>1. CASE h = g
    <3>. PICK new : new = cluster'[o]  OBVIOUS
    <3>1. new = Policy(cluster[o].spec, FreshVersion(o))
      BY <1>0, <1>5, <2>1, TouchedValues
    <3>2. told[o] \in CopiesOf(o) \ {Absent}  BY <1>2, HeldAreCopies DEF Known
    <3>3. new # told[o]  BY <1>0, <3>1, <3>2, ChangedDiffers
    <3>4. Overtaken(g)'  BY <3>3 DEF Overtaken
    <3>5. CASE Final(o, v)'  BY <1>1, <1>3, <3>4, <3>5
    <3>6. ASSUME NEW w, w = cluster'[o], Final(o, w)' PROVE News(g)'
      BY <1>3, <3>3, <3>4, <3>6
    <3>. QED BY <1>0, <1>1, <1>5, <3>5, <3>6, FinalTouches
  <2>2. CASE h # g
    <3>1. cluster'[o] = cluster[o]
      BY <1>0, <1>5, <2>2, TouchedValues, ObjectFacts
    <3>2. Overtaken(g)'  BY <1>a, <2>0, <3>1
    <3>3. Final(o, v)'
      <4>1. ASSUME v = cluster[o], NEW w, w = cluster'[o], Final(o, w)' PROVE Final(o, v)'
        <5>1. w = v  BY <3>1, <4>1
        <5>. QED BY <4>1, <5>1
      <4>. QED BY <1>0, <1>1, <1>5, <4>1, FinalTouches
    <3>. QED BY <1>1, <1>3, <3>2, <3>3
  <2>. QED BY <2>1, <2>2
<1>6. CASE Moves \/ Rests
  <2>1. Final(o, v)'  BY <1>0, <1>1, <1>6, FinalMoves, FinalRests
  <2>2. mode' = mode /\ cluster' = cluster
    BY <1>6, MovesKeepCluster DEF Rests, Keeps, world
  <2>. QED BY <1>1, <1>3, <1>a, <2>1, <2>2
<1>7. ASSUME NEW k \in Kinds, ListKindFails(k) PROVE News(g)'
  <2>1. mode' = mode /\ cluster' = cluster  BY <1>7 DEF ListKindFails
  <2>2. Overtaken(g)'  BY <1>a, <2>1
  <2>3. CASE Final(o, v)'  BY <1>1, <1>3, <2>2, <2>3
  <2>4. ASSUME NEW w, w = Absent, Final(o, w)' PROVE News(g)'
    BY <1>2, <1>3, <2>2, <2>4 DEF Known
  <2>. QED BY <1>0, <1>1, <1>7, <2>3, <2>4, FinalMissed
<1>. QED BY <1>0, <1>4, <1>5, <1>6, <1>7, StoreSteps

(* The kind of provider does not change.                                   *)
LEMMA ProviderKept ==
    ASSUME TypeOK, [Next]_vars
    PROVE  provider' = provider
<1>1. \A k \in Kinds : ListKindFails(k) => provider' = provider
  BY DEF ListKindFails
<1>2. Restart => provider' = provider  BY DEF Restart
<1>. QED BY <1>1, <1>2, MovesKeepCluster, StoreSteps DEF Writes, Touches, Rests, Keeps

LEMMA GoodKept ==
    ASSUME TypeOK, [Next]_vars, NEW g \in Gateways, Good(told, g), SameFor(g, told, told')
    PROVE  Good(told, g)'
<1>1. PICK t : t = told'  OBVIOUS
<1>2. Good(t, g)  BY <1>1, SameHelps DEF Good
<1>3. provider' = provider  BY ProviderKept
<1>. QED BY <1>1, <1>2, <1>3 DEF Good, Wanted, Desired, Exists, Known

LEMMA SettledKept ==
    ASSUME BaseInv, [Next]_vars, ~Restart, NEW g \in Gateways, Settled(g),
           SameFor(g, told, told'), outcome'[g] = outcome[g]
    PROVE  Settled(g)'
<1>1. told'[PolicyOf(g)] = told[PolicyOf(g)]  BY ObjectFacts DEF SameFor
<1>2. Good(told, g) => Good(told, g)'  BY GoodKept DEF BaseInv
<1>3. ~Known(told, g) => ~Known(told, g)'  BY <1>1 DEF Known
<1>4. News(g) => News(g)'  BY <1>1, NewsKept
<1>. QED BY <1>2, <1>3, <1>4 DEF Settled

LEMMA DeletedByName ==
    ASSUME BaseInv, FinalIsCluster, NEW g \in Gateways, Known(told, g), DeleteByName(g),
           Keeps, UNCHANGED lock
    PROVE  Settled(g)'
<1>. DEFINE o == PolicyOf(g)
<1>0. TypeOK /\ ModeInv /\ o \in Objects /\ KindOf(o) = "Policy"
  BY ObjectFacts DEF BaseInv
<1>1. CASE Write(o, Absent)
  <2>1. Absent \in NewValues(o)  BY <1>0, RequestValues
  <2>2. News(g)'  BY <1>0, <1>1, <2>1, NewsOfWrite DEF Writes
  <2>. QED BY <2>2 DEF Settled
<1>2. CASE ~Known(cluster, g) /\ UNCHANGED world
  <2>1. PICK v : Final(o, v) /\ Leads(o, v)
    BY <1>0 DEF FinalIsCluster
  <2>2. told[o] \in Policies /\ told[o] # Absent /\ cluster[o] = Absent
    BY <1>0, <1>2 DEF TypeOK, IsStore, ValuesOf, Known
  <2>3. v = Absent \/ Face(o, v) = Absent  BY <2>1, <2>2 DEF Leads, Face
  <2>4. Face(o, told[o]) # Absent
    BY <1>0, <2>2, PolicyAssumption DEF Face, Policies
  <2>5. v # told[o]  BY <2>2, <2>3, <2>4
  <2>6. Final(o, v)'  BY <1>0, <1>2, <2>1, FinalRests DEF Rests
  <2>7. told' = told /\ cluster' = cluster  BY <1>2 DEF Keeps, feed, world
  <2>8. Overtaken(g)'  BY <2>2, <2>7 DEF Overtaken
  <2>. QED BY <2>5, <2>6, <2>7, <2>8 DEF Settled, News, Known
<1>3. CASE Lost(g)
  <2>1. outcome'[g] = "failed"
    BY <1>0, <1>3 DEF Lost, Refused, Ends, TypeOK
  <2>. QED BY <2>1 DEF Settled
<1>. QED BY <1>1, <1>2, <1>3 DEF DeleteByName

LEMMA SettledByRequest ==
    ASSUME BaseInv, FinalIsCluster, VersionsTell, CallInv, [Next]_vars,
           NEW g \in Gateways, Requests(g), Exists(told, g), g \notin ahead,
           g \in reconciling \/ Settled(g)
    PROVE  g \in reconciling' \/ Settled(g)'
<1>. DEFINE o == PolicyOf(g)
<1>0. /\ TypeOK /\ ModeInv /\ o \in Objects /\ KindOf(o) = "Policy"
      /\ Keeps /\ UNCHANGED lock /\ told' = told
  BY ObjectFacts, RequestKeeps DEF BaseInv, Keeps, feed
<1>1. g \in reconciling \cup deleting
  BY DEF Requests, CreatePolicy, UpdatePolicy, DeleteUnwanted, DeleteWithGateway,
         Reconciling, Deleting
<1>2. SameFor(g, view, told)  BY <1>1 DEF CallInv
<1>3. /\ Exists(view, g) <=> Exists(told, g)
      /\ Desired(view, g) = Desired(told, g) /\ (Wanted(view, g) <=> Wanted(told, g))
      /\ Known(view, g) <=> Known(told, g)
      /\ Linked(view, g) <=> Linked(told, g)
      /\ view[o] = told[o]
  BY <1>2, SameHelps
<1>4. \A how : Ends(g, how) => outcome'[g] = how
  BY <1>0 DEF Ends, TypeOK
<1>5. Refused(g) => Settled(g)'  BY <1>4 DEF Refused, Settled
<1>6. ASSUME Known(told, g), NEW spec \in SpecsFor(g),
             Write(o, Policy(spec, FreshVersion(o)))
      PROVE  Settled(g)'
  <2>. PICK value : value = Policy(spec, FreshVersion(o))  OBVIOUS
  <2>1. value \in NewValues(o) /\ Writes(o, value)
    BY <1>0, <1>6, RequestValues DEF Writes
  <2>2. News(g)'  BY <1>0, <1>6, <2>1, NewsOfWrite
  <2>. QED BY <2>2 DEF Settled
<1>a. ASSUME Good(told, g) PROVE Settled(g)'
  <2>1. SameFor(g, told, told')  BY <1>0 DEF SameFor
  <2>. QED BY <1>0, <1>a, <2>1, GoodKept DEF Settled
<1>7. CASE CreatePolicy(g)
  <2>0. Made(g, "own") \in SpecsFor(g)  BY <1>7 DEF CreatePolicy, SpecsFor
  <2>1. CASE Refused(g)  BY <1>5, <2>1
  <2>2. CASE /\ Ends(g, "created")
             /\ Write(o, Policy(Made(g, "own"), FreshVersion(o)))
    <3>1. CASE Known(told, g)  BY <1>6, <2>0, <2>2, <3>1
    <3>2. CASE ~Known(told, g)
      BY <1>0, <1>4, <2>2, <3>2 DEF Settled, Known
    <3>. QED BY <3>1, <3>2
  <2>. QED BY <1>7, <2>1, <2>2 DEF CreatePolicy, Lost
<1>8. CASE UpdatePolicy(g)
  <2>0. /\ Wanted(told, g) /\ Known(told, g) /\ told[o].spec.target # "stray"
        /\ Updated(g) \in SpecsFor(g)
    BY <1>3, <1>8 DEF UpdatePolicy, Linked, SpecsFor
  <2>a. told[o].spec.target \in Targets
    <3>1. told[o] \in ValuesOf(o)  BY <1>0 DEF TypeOK, IsStore
    <3>. QED BY <1>0, <2>0, <3>1 DEF ValuesOf, Known, Policies, Specs
  <2>1. CASE Refused(g)  BY <1>5, <2>1
  <2>2. CASE Write(o, Policy(Updated(g), FreshVersion(o)))
    BY <1>6, <2>0, <2>2
  <2>3. CASE Current(g) /\ cluster[o].spec = Updated(g)
    <3>1. cluster[o] # Absent /\ told[o] # Absent /\ cluster[o].version = told[o].version
      BY <1>3, <2>0, <2>3 DEF Current, Known
    <3>2. cluster[o] \in CopiesOf(o) /\ told[o] \in CopiesOf(o)
      BY HeldAreCopies
    <3>3. told[o].spec = Updated(g)  BY <2>3, <3>1, <3>2 DEF VersionsTell
    <3>4. /\ Updated(g).rules = Desired(told, g)
          /\ Updated(g).target = IF provider = "istio" THEN told[o].spec.target ELSE "own"
      BY <1>3 DEF Updated, Made
    <3>5. Good(told, g)
      BY <2>0, <2>a, <3>3, <3>4 DEF Good, Targets
    <3>. QED BY <1>a, <3>5
  <2>4. CASE NothingNew(g)
    <3>1. Good(told, g)
      BY <1>3, <2>0, <2>a, <2>4 DEF NothingNew, Good, Targets
    <3>. QED BY <1>a, <3>1
  <2>. QED BY <1>8, <2>1, <2>2, <2>3, <2>4 DEF UpdatePolicy, Lost
<1>9. CASE DeleteUnwanted(g)
  <2>1. CASE Linked(view, g)
    <3>1. DeleteByName(g) /\ Known(told, g)
      BY <1>3, <1>9, <2>1 DEF DeleteUnwanted, Linked
    <3>. QED BY <1>0, <3>1, DeletedByName
  <2>2. CASE ~Linked(view, g)
    <3>1. Good(told, g)
      BY <1>3, <1>9, <2>2 DEF DeleteUnwanted, Good, Linked
    <3>. QED BY <1>a, <3>1
  <2>. QED BY <2>1, <2>2
<1>10. CASE DeleteWithGateway(g)
  <2>0. reconciling' = reconciling  BY <1>10 DEF DeleteWithGateway, Deleting
  <2>1. CASE Known(view, g)
    <3>1. DeleteByName(g) /\ Known(told, g)
      BY <1>3, <1>10, <2>1 DEF DeleteWithGateway
    <3>. QED BY <1>0, <3>1, DeletedByName
  <2>2. CASE ~Known(view, g)
    <3>1. outcome' = outcome  BY <1>10, <2>2 DEF DeleteWithGateway, Nothing
    <3>2. ~Restart
      <4>1. restarts' = restarts /\ restarts \in Nat
        BY <1>0 DEF Keeps, TypeOK
      <4>. QED BY <4>1 DEF Restart
    <3>3. SameFor(g, told, told')  BY <1>0 DEF SameFor
    <3>. QED BY <2>0, <3>1, <3>2, <3>3, SettledKept
  <2>. QED BY <2>1, <2>2
<1>. QED BY <1>7, <1>8, <1>9, <1>10 DEF Requests

(* A step that is neither a call nor a request for the gateway, nor a      *)
(* restart, leaves alone what is kept about it.                            *)
LEMMA QuietSteps ==
    ASSUME BaseInv, [Next]_vars, ~StartCall, ~Restart, NEW g \in Gateways, ~Requests(g)
    PROVE  /\ told' = told /\ ahead' = ahead /\ outcome'[g] = outcome[g]
           /\ g \in reconciling => g \in reconciling'
<1>0. TypeOK  BY DEF BaseInv
<1>1. CASE ByOthers
  BY <1>1 DEF ByOthers, CreateGateway, DeleteGateway, ChangeRules, EditPolicy,
              RemovePolicy, WriteStatus, Others, feed, call
<1>2. ASSUME NEW k \in Kinds, Inform(k) \/ ListKind(k) \/ ListKindFails(k)
      PROVE  UNCHANGED <<told, ahead, outcome, reconciling>>
  BY <1>2 DEF Inform, ListKind, ListKindFails, feed, call
<1>3. CASE StartReconcile \/ Publish \/ TakeSnapshot
  BY <1>3 DEF StartReconcile, Publish, TakeSnapshot, Feed!Take, feed, call
<1>4. CASE FileFails \/ EndCall
  BY <1>4 DEF FileFails, EndCall, feed
<1>5. ASSUME NEW h \in Gateways, Requests(h)
      PROVE  /\ told' = told /\ ahead' = ahead /\ outcome'[g] = outcome[g]
             /\ g \in reconciling => g \in reconciling'
  <2>1. h # g  BY <1>5
  <2>2. told' = told /\ ahead' = ahead  BY <1>5, RequestKeeps DEF Keeps, feed
  <2>3. reconciling' = reconciling \/ reconciling' = reconciling \ {h}
    BY <1>5 DEF Requests, CreatePolicy, UpdatePolicy, DeleteUnwanted, DeleteWithGateway,
                Reconciling, Deleting
  <2>4. outcome' = outcome \/ \E how : Ends(h, how)
    <3>1. CASE CreatePolicy(h)  BY <3>1 DEF CreatePolicy, Refused, Lost
    <3>2. CASE UpdatePolicy(h)  BY <3>2 DEF UpdatePolicy, Refused, Lost, Nothing
    <3>3. CASE DeleteUnwanted(h)
      BY <3>3 DEF DeleteUnwanted, DeleteByName, Refused, Lost, Nothing
    <3>4. CASE DeleteWithGateway(h)
      BY <3>4 DEF DeleteWithGateway, DeleteByName, Refused, Lost, Nothing
    <3>. QED BY <1>5, <3>1, <3>2, <3>3, <3>4 DEF Requests
  <2>5. outcome'[g] = outcome[g]  BY <1>0, <2>1, <2>4 DEF Ends, TypeOK
  <2>. QED BY <2>1, <2>2, <2>3, <2>5
<1>6. CASE UNCHANGED vars  BY <1>6 DEF vars, feed, call
<1>. QED BY <1>1, <1>2, <1>3, <1>4, <1>5, <1>6 DEF Next, Lister, Call

LEMMA SettledStep ==
    BaseInv /\ FinalIsCluster /\ VersionsTell /\ OneGateway /\ CallInv
    /\ SettledInv /\ [Next]_vars => SettledInv'
<1>. SUFFICES ASSUME BaseInv, FinalIsCluster, VersionsTell, OneGateway, CallInv, SettledInv,
                     [Next]_vars,
                     NEW g \in Gateways, Exists(told', g), g \notin ahead'
              PROVE  g \in reconciling' \/ Settled(g)'
  BY DEF SettledInv, Exists
<1>0. TypeOK /\ IdleInv /\ Apart(told) /\ Apart(snapshot)
  BY DEF BaseInv, OneGateway
<1>1. CASE Requests(g)
  <2>1. told' = told /\ ahead' = ahead  BY <1>1, RequestKeeps DEF Keeps, feed
  <2>2. Exists(told, g) /\ g \notin ahead  BY <2>1
  <2>3. g \in reconciling \/ Settled(g)  BY <2>2 DEF SettledInv
  <2>. QED BY <1>1, <2>2, <2>3, SettledByRequest
<1>2. CASE StartCall
  <2>1. CASE g \in reconciling'  BY <2>1
  <2>2. CASE /\ SameFor(g, told, told')
             /\ ahead' = ahead /\ outcome'[g] = outcome[g]
    <3>1. g \notin reconciling  BY <1>0, <1>2 DEF StartCall, IdleInv
    <3>2. Exists(told, g) /\ g \notin ahead  BY <2>2, SameHelps
    <3>3. Settled(g)  BY <3>1, <3>2 DEF SettledInv
    <3>4. ~Restart
      <4>1. restarts' = restarts /\ restarts \in Nat  BY <1>0, <1>2 DEF StartCall, TypeOK
      <4>. QED BY <4>1 DEF Restart
    <3>. QED BY <2>2, <3>3, <3>4, SettledKept
  <2>. QED BY <1>0, <1>2, <2>1, <2>2, StartedCalls
<1>3. CASE Restart
  <2>1. \A o \in Objects : told'[o] = Absent  BY <1>3 DEF Restart, EmptyStore
  <2>. QED BY <2>1 DEF Exists, ObjectsOf
<1>4. CASE ~Requests(g) /\ ~StartCall /\ ~Restart
  <2>1. /\ told' = told /\ ahead' = ahead /\ outcome'[g] = outcome[g]
        /\ g \in reconciling => g \in reconciling'
    BY <1>4, QuietSteps
  <2>2. Exists(told, g) /\ g \notin ahead  BY <2>1
  <2>3. SameFor(g, told, told')  BY <2>1 DEF SameFor
  <2>4. Settled(g) => Settled(g)'  BY <1>4, <2>1, <2>3, SettledKept
  <2>. QED BY <2>1, <2>2, <2>4 DEF SettledInv
<1>. QED BY <1>1, <1>2, <1>3, <1>4

LEMMA SettledHolds == Spec => []SettledInv
<1>1. Init => SettledInv
  BY DEF Init, EmptyStore, SettledInv, Exists, ObjectsOf
<1>2. BaseInv /\ FinalIsCluster /\ VersionsTell /\ OneGateway /\ CallInv
      /\ SettledInv /\ [Next]_vars => SettledInv'
  BY SettledStep
<1>. QED BY <1>1, <1>2, BaseHolds, FinalHolds, VersionsHolds, OneGatewayHolds,
            CallHolds, PTL DEF Spec

(***************************************************************************)
(* At rest, what the reconcilers were told is what there is.               *)
(***************************************************************************)
LEMMA ToldAtRest ==
    ASSUME TypeOK, ModeInv, FinalIsCluster, AtRest, NEW o \in Objects
    PROVE  /\ ~Misled => Face(o, told[o]) = Face(o, cluster[o])
           /\ \A v : Final(o, v) => v = told[o]
<1>1. KindOf(o) \in Kinds  BY ObjectFacts
<1>2. \A v : Final(o, v) => v = told[o]
  <2>. SUFFICES ASSUME NEW v, Final(o, v) PROVE v = told[o]
    OBVIOUS
  <2>1. Len(notices[KindOf(o)]) = 0  BY <1>1 DEF AtRest
  <2>2. Upto(o, 0, v)  BY <2>1 DEF AtRest, Final
  <2>. QED BY <2>2, UptoNone DEF AtRest
<1>. QED BY <1>2 DEF FinalIsCluster, Leads, Misled

LEMMA SameFaces ==
    ASSUME TypeOK, NEW g \in Gateways,
           \A o \in Objects : Face(o, told[o]) = Face(o, cluster[o])
    PROVE  /\ Exists(told, g) <=> Exists(cluster, g)
           /\ Desired(told, g) = Desired(cluster, g)
           /\ Wanted(told, g) <=> Wanted(cluster, g)
           /\ Known(told, g) <=> Known(cluster, g)
           /\ Known(cluster, g) => told[PolicyOf(g)].spec = cluster[PolicyOf(g)].spec
<1>. DEFINE o == PolicyOf(g)
<1>1. \A p \in ObjectsOf(g) : KindOf(p) # "Policy" => told[p] = cluster[p]
  BY ObjectFacts DEF Face
<1>2. Exists(told, g) <=> Exists(cluster, g)  BY <1>1 DEF Exists
<1>3. told[RulesFor(g)] = cluster[RulesFor(g)]  BY <1>1, ObjectFacts
<1>4. o \in Objects /\ KindOf(o) = "Policy"  BY ObjectFacts
<1>5. told[o] \in Policies \cup {Absent} /\ cluster[o] \in Policies \cup {Absent}
  BY <1>4 DEF TypeOK, IsStore, ValuesOf
<1>6. \A v \in Policies : v.spec # Absent
  BY PolicyAssumption DEF Policies
<1>7. Face(o, told[o]) = Face(o, cluster[o])  BY <1>4
<1>8. /\ Known(told, g) <=> Known(cluster, g)
      /\ Known(cluster, g) => told[o].spec = cluster[o].spec
  BY <1>4, <1>5, <1>6, <1>7 DEF Face, Known
<1>. QED BY <1>2, <1>3, <1>8 DEF Wanted, Desired

LEMMA RestIsRight ==
    BaseInv /\ FinalIsCluster /\ SettledInv => RightAtRest
<1>. SUFFICES ASSUME BaseInv, FinalIsCluster, SettledInv, AtRest, ~Misled,
                     NEW g \in Gateways
              PROVE  Right(g) \/ Failed(g) \/ Orphan(g) \/ Ahead(g) \/ Undone(g)
  BY DEF RightAtRest
<1>. DEFINE o == PolicyOf(g)
<1>1. TypeOK /\ ModeInv /\ IdleInv /\ o \in Objects  BY ObjectFacts DEF BaseInv
<1>2. \A p \in Objects : Face(p, told[p]) = Face(p, cluster[p])
  BY <1>1, ToldAtRest
<1>3. /\ Exists(told, g) <=> Exists(cluster, g)
      /\ Desired(told, g) = Desired(cluster, g)
      /\ Wanted(told, g) <=> Wanted(cluster, g)
      /\ Known(told, g) <=> Known(cluster, g)
      /\ Known(cluster, g) => told[o].spec = cluster[o].spec
  BY <1>1, <1>2, SameFaces
<1>4. CASE ~Exists(cluster, g)
  BY <1>4 DEF Right, Orphan, Wanted
<1>5. CASE g \in ahead  BY <1>5 DEF Ahead
<1>6. CASE Exists(told, g) /\ g \notin ahead
  <2>1. g \notin reconciling  BY <1>1 DEF AtRest, IdleInv
  <2>2. Settled(g)  BY <1>6, <2>1 DEF SettledInv
  <2>3. Good(told, g) => Right(g)  BY <1>3 DEF Good, Right, Known
  <2>4. ~News(g)  BY <1>1, ToldAtRest DEF News
  <2>. QED BY <1>3, <2>2, <2>3, <2>4 DEF Settled, Failed, Undone
<1>. QED BY <1>3, <1>4, <1>5, <1>6

(* When the loop has come to rest, no kind missing from the last list,     *)
(* every gateway has a policy with the rules and a target its effective    *)
(* policies make, but for the reasons named, whatever the order of         *)
(* notifications, calls, writes of others, failing requests, failing lists *)
(* before the last and restarts (istio.go, envoy_gateway.go, Reconcile;    *)
(* controller.go, the subscription; runnable.go, Run).                     *)
THEOREM RestsRight == Spec => []RightAtRest
BY RestIsRight, BaseHolds, FinalHolds, SettledHolds, PTL
=============================================================================
