----------------------------- MODULE GraphProof -----------------------------
(***************************************************************************)
(* Graph implements EvaluationOrder, for every set of nodes and all        *)
(* graphs.  A node has a distance only when some way of that many edges    *)
(* leads to it from the start (Walked): so what is listed is reachable,    *)
(* and a way with more edges than there are takes an edge twice, between   *)
(* the two it has gone in a circle.  When nothing is left to follow, the   *)
(* nodes met are closed under the edges and distances grow along them      *)
(* (Settled): so the list is complete and in order.                        *)
(***************************************************************************)
EXTENDS Graph, FiniteSetTheorems, TLAPS

R == Abstract!Reachable

(* w is a way along edges of the graph from the start to n.                *)
Way(w, n) ==
    /\ \A k \in 1..Len(w) : From(w[k]) \in R
    /\ \A k \in 1..(Len(w) - 1) : To(w[k]) = From(w[k + 1])
    /\ Len(w) = 0 => n = start
    /\ Len(w) > 0 => To(w[Len(w)]) = n

Reached(n, length) ==
    \E w \in Seq(DOMAIN graph) : Len(w) = length /\ Way(w, n)

Walked ==
    \A n \in DOMAIN max_distance : n \in R /\ Reached(n, max_distance[n])

Bounded == outcome = "RUNNING" => mdist <= num_edges

IInv == TypeOK /\ Settled /\ Walked /\ Bounded /\ DependenciesFirst
-----------------------------------------------------------------------------
(* The graph and the start stay what they are in every step, and with them *)
(* what is reachable and what the edges join.                              *)
LEMMA SameGraph ==
    ASSUME UNCHANGED <<graph, start>>
    PROVE  /\ R' = R
           /\ \A e : From(e)' = From(e) /\ To(e)' = To(e)
           /\ \A n, length : Reached(n, length)' = Reached(n, length)
BY DEF R, Abstract!Reachable, Abstract!Closed, Abstract!From, Abstract!To,
       Reached, Way, From, To

(* What an edge leads to from a reachable node is reachable.               *)
LEMMA ReachableClosed ==
    ASSUME TypeOK, NEW e \in DOMAIN graph, From(e) \in R
    PROVE  To(e) \in R
BY DEF TypeOK, R, Abstract!Reachable, Abstract!Closed, Abstract!From, Abstract!To,
       From, To

LEMMA EdgesFinite ==
    ASSUME TypeOK
    PROVE  IsFiniteSet(DOMAIN graph) /\ num_edges \in Nat
BY GraphAssumption, FS_Subset, FS_CardinalityType DEF TypeOK, num_edges

(* A way goes on along an edge of its last node.                           *)
LEMMA WayGoesOn ==
    ASSUME TypeOK, NEW e \in DOMAIN graph, NEW length \in Nat,
           From(e) \in R, Reached(From(e), length)
    PROVE  Reached(To(e), length + 1)
<1>1. PICK w \in Seq(DOMAIN graph) : Len(w) = length /\ Way(w, From(e))
  BY DEF Reached
<1> DEFINE v == Append(w, e)
<1>2. /\ v \in Seq(DOMAIN graph)
      /\ Len(v) = length + 1
      /\ \A k \in 1..length : v[k] = w[k]
      /\ v[length + 1] = e
  BY <1>1
<1>3. \A k \in 1..Len(v) : From(v[k]) \in R
  BY <1>1, <1>2 DEF Way
<1>4. \A k \in 1..(Len(v) - 1) : To(v[k]) = From(v[k + 1])
  <2> SUFFICES ASSUME NEW k \in 1..(Len(v) - 1)
               PROVE  To(v[k]) = From(v[k + 1])
    OBVIOUS
  <2>1. CASE k = length
    <3>1. To(w[length]) = From(e)
      BY <1>1, <1>2, <2>1 DEF Way
    <3> QED BY <3>1, <1>2, <2>1
  <2>2. CASE k # length
    <3>1. k \in 1..(Len(w) - 1) /\ k \in 1..length /\ k + 1 \in 1..length
      BY <1>1, <1>2, <2>2
    <3> QED BY <3>1, <1>1, <1>2 DEF Way
  <2> QED BY <2>1, <2>2
<1>5. Len(v) > 0 /\ To(v[Len(v)]) = To(e)
  BY <1>2
<1> HIDE DEF v
<1> QED BY <1>2, <1>3, <1>4, <1>5 DEF Reached, Way

(* A way with more edges than there are takes one of them twice.           *)
LEMMA LongWayIsCircle ==
    ASSUME TypeOK, NEW n, NEW length \in Nat, length > num_edges, Reached(n, length)
    PROVE  Abstract!HasCycle
<1>1. PICK w \in Seq(DOMAIN graph) : Len(w) = length /\ Way(w, n)
  BY DEF Reached
<1>2. PICK x, y \in 1..length : x # y /\ w[x] = w[y]
  <2>1. IsFiniteSet(1..length) /\ Cardinality(1..length) = length
    BY FS_Interval
  <2>2. w \in [1..length -> DOMAIN graph]
    BY <1>1
  <2> QED BY <2>1, <2>2, EdgesFinite, FS_PigeonHole DEF num_edges
<1>3. PICK i, j \in 1..length : i < j /\ w[i] = w[j]
  BY <1>2
<1> DEFINE C == {From(w[k]) : k \in i..(j - 1)}
<1>4. C \in SUBSET R
  BY <1>1, <1>3 DEF Way
<1>5. C # {}
  BY <1>3
<1>6. ASSUME NEW m \in C
      PROVE  \E e \in DOMAIN graph : From(e) = m /\ To(e) \in C
  <2>1. PICK k \in i..(j - 1) : m = From(w[k])
    BY <1>6
  <2>2. k \in 1..length /\ k \in 1..(length - 1) /\ w[k] \in DOMAIN graph
    BY <1>1, <1>3, <2>1
  <2>3. To(w[k]) = From(w[k + 1])
    BY <1>1, <2>2 DEF Way
  <2>4. From(w[k + 1]) \in C
    <3>1. CASE k + 1 = j
      BY <1>3, <3>1
    <3>2. CASE k + 1 # j
      <4>1. k + 1 \in i..(j - 1)
        BY <1>3, <2>1, <3>2
      <4> QED BY <4>1, Zenon
    <3> QED BY <3>1, <3>2
  <2> QED BY <2>1, <2>2, <2>3, <2>4
<1> HIDE DEF C
<1> QED BY <1>4, <1>5, <1>6 DEF Abstract!HasCycle, Abstract!From, Abstract!To, R, From, To
-----------------------------------------------------------------------------
LEMMA InitIInv == Init => IInv
<1> SUFFICES ASSUME Init PROVE IInv
  OBVIOUS
<1>1. PICK deps \in Graphs : graph = reverse(deps)
  BY DEF Init
<1>2. DOMAIN graph \subseteq EdgeIds /\ graph \in [DOMAIN graph -> Nodes \X Nodes]
  BY <1>1, GraphAssumption DEF reverse
<1>3. start \in Nodes /\ start \in R
  BY GraphAssumption DEF Init, R, Abstract!Reachable
<1>4. TypeOK
  BY <1>2, <1>3 DEF Init, TypeOK
<1>5. Reached(start, 0)
  <2>1. << >> \in Seq(DOMAIN graph) /\ Len(<< >>) = 0
    OBVIOUS
  <2>2. Way(<< >>, start)
    BY <2>1 DEF Way
  <2> QED BY <2>1, <2>2, Zenon DEF Reached
<1>6. Walked
  BY <1>3, <1>5 DEF Init, Walked
<1>7. Bounded
  BY <1>4, EdgesFinite DEF Init, Bounded
<1> QED BY <1>4, <1>6, <1>7 DEF IInv, Init, Settled, DependenciesFirst

LEMMA TakeNodeIInv ==
    ASSUME IInv, NEW s \in todo, TakeNode(s)
    PROVE  IInv'
<1> USE DEF IInv
<1>1. TypeOK'
  BY DEF TypeOK, TakeNode, From
<1>2. Settled'
  BY DEF TypeOK, Settled, TakeNode, From, To
<1>3. Walked'
  BY SameGraph DEF TakeNode, Walked
<1>4. Bounded' /\ DependenciesFirst'
  BY DEF TakeNode, Bounded, num_edges, DependenciesFirst
<1> QED BY <1>1, <1>2, <1>3, <1>4

(* The node an edge leads to is reached in as many steps as it is then     *)
(* said to be distant.                                                     *)
LEMMA FollowedIsReached ==
    ASSUME IInv, NEW e \in range, FollowEdge(e)
    PROVE  /\ To(e) \in Nodes /\ To(e) \in R
           /\ Distance(From(e), To(e)) \in Nat
           /\ Distance(From(e), To(e)) > max_distance[From(e)]
           /\ To(e) \in DOMAIN max_distance =>
                Distance(From(e), To(e)) >= max_distance[To(e)]
           /\ Reached(To(e), Distance(From(e), To(e)))
<1> USE DEF IInv
<1>1. /\ e \in DOMAIN graph
      /\ From(e) \in DOMAIN max_distance
      /\ To(e) \in Nodes
      /\ max_distance[From(e)] \in Nat
      /\ \A n \in DOMAIN max_distance : max_distance[n] \in Nat
  BY DEF TypeOK, From, To
<1>2. From(e) \in R /\ Reached(From(e), max_distance[From(e)])
  BY <1>1 DEF Walked
<1>3. To(e) \in R /\ Reached(To(e), max_distance[From(e)] + 1)
  BY <1>1, <1>2, ReachableClosed, WayGoesOn
<1>4. /\ Distance(From(e), To(e)) \in Nat
      /\ Distance(From(e), To(e)) > max_distance[From(e)]
      /\ To(e) \in DOMAIN max_distance =>
           Distance(From(e), To(e)) >= max_distance[To(e)]
  BY <1>1 DEF Distance, Larger
<1>5. CASE Distance(From(e), To(e)) = max_distance[From(e)] + 1
  BY <1>1, <1>3, <1>4, <1>5
<1>6. CASE Distance(From(e), To(e)) # max_distance[From(e)] + 1
  <2>1. To(e) \in DOMAIN max_distance /\ Distance(From(e), To(e)) = max_distance[To(e)]
    BY <1>1, <1>6 DEF Distance, Larger
  <2> QED BY <2>1, <1>1, <1>3, <1>4 DEF Walked
<1> QED BY <1>5, <1>6

LEMMA FollowEdgeIInv ==
    ASSUME IInv, NEW e \in range, FollowEdge(e)
    PROVE  IInv'
<1> USE DEF IInv
<1> DEFINE s == From(e)
           d == To(e)
           distance == Distance(s, d)
<1>1. /\ e \in DOMAIN graph /\ s \in DOMAIN max_distance /\ s \in Nodes
      /\ outcome = "RUNNING"
  BY DEF TypeOK, FollowEdge
<1>2. /\ d \in Nodes /\ d \in R /\ distance \in Nat
      /\ distance > max_distance[s]
      /\ d \in DOMAIN max_distance => distance >= max_distance[d]
      /\ Reached(d, distance)
  BY FollowedIsReached
<1>3. max_distance' = [n \in DOMAIN max_distance \cup {d} |->
                         IF n = d THEN distance ELSE max_distance[n]]
  BY DEF FollowEdge
<1>4. UNCHANGED <<graph, start, result>>
  BY DEF FollowEdge
<1>5. /\ mdist' = Larger(mdist, distance)
      /\ \/ TooLong(mdist') /\ outcome' = "CYCLE" /\ UNCHANGED <<todo, range>>
         \/ /\ ~TooLong(mdist') /\ outcome' = "RUNNING"
            /\ todo' = todo \cup {d} /\ range' = range \ {e}
  BY <1>1 DEF FollowEdge, Todo
<1> HIDE DEF s, d, distance
<1>6. TypeOK'
  <2>1. DOMAIN max_distance' = DOMAIN max_distance \cup {d}
    BY <1>3
  <2>2. max_distance' \in [DOMAIN max_distance' -> Nat]
    BY <1>2, <1>3 DEF TypeOK
  <2>3. todo' \subseteq DOMAIN max_distance' /\ mdist' \in Nat
    BY <1>2, <1>5, <2>1 DEF TypeOK, Larger
  <2>4. range' \subseteq {x \in DOMAIN graph' : From(x)' \in DOMAIN max_distance'}
    BY <1>4, <1>5, <2>1, SameGraph DEF TypeOK
  <2> QED BY <1>2, <1>4, <1>5, <2>1, <2>2, <2>3, <2>4 DEF TypeOK
<1>7. Settled'
  <2> SUFFICES ASSUME outcome' = "RUNNING", NEW x \in DOMAIN graph \ range',
                      From(x) \in DOMAIN max_distance' \ todo'
               PROVE  /\ To(x) \in DOMAIN max_distance'
                      /\ max_distance'[From(x)] < max_distance'[To(x)]
    BY <1>4, SameGraph DEF Settled
  <2>1. todo' = todo \cup {d} /\ range' = range \ {e}
    BY <1>5
  <2>2. From(x) # d /\ From(x) \in DOMAIN max_distance \ todo
    BY <1>3, <2>1
  <2>3. max_distance'[From(x)] = max_distance[From(x)]
    BY <1>3, <2>2
  <2>4. CASE x = e
    BY <1>2, <1>3, <2>2, <2>3, <2>4 DEF s, d
  <2>5. CASE x # e
    <3>1. /\ To(x) \in DOMAIN max_distance
          /\ max_distance[From(x)] < max_distance[To(x)]
      BY <1>1, <2>1, <2>2, <2>5 DEF Settled
    <3>2. max_distance[To(x)] \in Nat /\ max_distance[From(x)] \in Nat
      BY <3>1, <2>2 DEF TypeOK
    <3> QED BY <1>2, <1>3, <2>3, <3>1, <3>2
  <2> QED BY <2>4, <2>5
<1>8. Walked'
  <2> SUFFICES ASSUME NEW n \in DOMAIN max_distance'
               PROVE  n \in R /\ Reached(n, max_distance'[n])
    BY <1>4, SameGraph DEF Walked
  <2> QED BY <1>2, <1>3 DEF Walked
<1>9. Bounded'
  BY <1>2, <1>4, <1>5, EdgesFinite DEF Bounded, TooLong, TypeOK, Larger, num_edges
<1>10. DependenciesFirst'
  BY <1>5 DEF DependenciesFirst
<1> QED BY <1>6, <1>7, <1>8, <1>9, <1>10

(* When nothing is left to follow, the nodes met are all that can be       *)
(* reached, and a list of them by distance is in order.                    *)
LEMMA FinishIsOrder ==
    ASSUME IInv, Finish
    PROVE  result' \in Seq(Nodes) /\ Abstract!IsEvaluationOrder(result')
<1> USE DEF IInv
<1> DEFINE D == DOMAIN max_distance
           list == result'
<1>1. \A e \in DOMAIN graph :
         From(e) \in D => To(e) \in D /\ max_distance[From(e)] < max_distance[To(e)]
  BY DEF Finish, Settled
<1>2. D \subseteq R
  BY DEF Walked
<1>3. R \subseteq D
  <2>1. start \in D /\ D \in SUBSET Nodes
    BY DEF TypeOK
  <2>2. Abstract!Closed(D)
    BY <1>1 DEF Abstract!Closed, Abstract!From, Abstract!To, From, To
  <2> QED BY <2>1, <2>2 DEF R, Abstract!Reachable
<1>4. Cardinality(D) \in Nat
  <2> DEFINE target == [e \in DOMAIN graph |-> To(e)]
             Targets == {target[e] : e \in DOMAIN graph}
  <2>1. IsFiniteSet(Targets)
    <3>1. target \in Surjection(DOMAIN graph, Targets)
      BY DEF Surjection
    <3> QED BY <3>1, EdgesFinite, FS_Surjection
  <2>2. IsFiniteSet(Targets \cup {start})
    BY <2>1, FS_AddElement
  <2>3. ASSUME NEW n \in D
        PROVE  n \in Targets \cup {start}
    <3>1. PICK w \in Seq(DOMAIN graph) : Way(w, n)
      BY DEF Walked, Reached
    <3>2. CASE Len(w) = 0
      BY <3>1, <3>2 DEF Way
    <3>3. CASE Len(w) > 0
      <4>1. w[Len(w)] \in DOMAIN graph /\ To(w[Len(w)]) = n
        BY <3>1, <3>3 DEF Way
      <4> QED BY <4>1
    <3> QED BY <3>2, <3>3
  <2>4. IsFiniteSet(D)
    BY <2>2, <2>3, FS_Subset
  <2> QED BY <2>4, FS_CardinalityType
<1>5. /\ list \in [1..Cardinality(D) -> D]
      /\ \A n \in D : \E i \in DOMAIN list : list[i] = n
      /\ \A i, j \in DOMAIN list :
           /\ i # j => list[i] # list[j]
           /\ i < j => max_distance[list[i]] <= max_distance[list[j]]
  BY DEF Finish, ByDistance
<1>6. D \subseteq Nodes /\ \A n \in D : max_distance[n] \in Nat
  BY DEF TypeOK
<1> HIDE DEF D, list
<1>7. list \in Seq(Nodes)
  BY <1>4, <1>5, <1>6
<1>8. Abstract!Listed(list) = R
  BY <1>2, <1>3, <1>5 DEF Abstract!Listed
<1>9. ASSUME NEW e \in DOMAIN graph, NEW i \in DOMAIN list, NEW j \in DOMAIN list,
             list[i] = From(e), list[j] = To(e)
      PROVE  i < j
  <2>1. max_distance[list[i]] < max_distance[list[j]]
    BY <1>1, <1>5, <1>9
  <2>2. i \in Nat /\ j \in Nat /\ list[i] \in D /\ list[j] \in D
    BY <1>4, <1>5
  <2>3. max_distance[list[i]] \in Nat /\ max_distance[list[j]] \in Nat
    BY <1>6, <2>2
  <2>4. ~(j < i)
    <3> SUFFICES ASSUME j < i PROVE FALSE
      OBVIOUS
    <3>1. max_distance[list[j]] <= max_distance[list[i]]
      BY <1>5
    <3> QED BY <3>1, <2>1, <2>3
  <2>5. i # j
    BY <2>1, <2>3
  <2> QED BY <2>2, <2>4, <2>5
<1>10. Abstract!InOrder(list)
  BY <1>5, <1>9 DEF Abstract!InOrder, Abstract!From, Abstract!To, From, To
<1> QED BY <1>7, <1>8, <1>10 DEF Abstract!IsEvaluationOrder, R, list

LEMMA FinishIInv ==
    ASSUME IInv, Finish
    PROVE  IInv'
<1> USE DEF IInv
<1>1. result' \in Seq(Nodes) /\ Abstract!IsEvaluationOrder(result')
  BY FinishIsOrder
<1>2. UNCHANGED <<graph, start, max_distance, todo, range, mdist>> /\ outcome' = "OK"
  BY DEF Finish
<1>3. TypeOK'
  BY <1>1, <1>2, SameGraph DEF TypeOK, From
<1>4. Settled' /\ Bounded'
  BY <1>2 DEF Settled, Bounded
<1>5. Walked'
  BY <1>2, SameGraph DEF Walked
<1>6. DependenciesFirst'
  BY <1>1, <1>2 DEF DependenciesFirst, Abstract!IsEvaluationOrder, Abstract!Listed,
     Abstract!InOrder, Abstract!Reachable, Abstract!Closed, Abstract!From, Abstract!To
<1> QED BY <1>3, <1>4, <1>5, <1>6

LEMMA NextIInv == IInv /\ [Next]_vars => IInv'
<1> SUFFICES ASSUME IInv, [Next]_vars PROVE IInv'
  OBVIOUS
<1>1. CASE UNCHANGED vars
  <2>1. UNCHANGED <<graph, start>>
    BY <1>1 DEF vars
  <2>2. TypeOK' /\ Settled' /\ Bounded' /\ DependenciesFirst'
    BY <1>1 DEF vars, IInv, TypeOK, Settled, Bounded, num_edges, From, To,
       DependenciesFirst, Abstract!IsEvaluationOrder, Abstract!Listed,
       Abstract!InOrder, Abstract!Reachable, Abstract!Closed, Abstract!From, Abstract!To
  <2>3. Walked'
    BY <1>1, <2>1, SameGraph DEF vars, IInv, Walked
  <2> QED BY <2>2, <2>3 DEF IInv
<1>2. CASE Next
  BY <1>2, TakeNodeIInv, FollowEdgeIInv, FinishIInv DEF Next
<1> QED BY <1>1, <1>2

LEMMA Inductive == Spec => []IInv
BY InitIInv, NextIInv, PTL DEF Spec

(* Every node that is followed, and every edge, has a distance to start    *)
(* from, in every graph.                                                   *)
THEOREM TypeCorrect == Spec => []TypeOK
<1>1. IInv => TypeOK
  BY DEF IInv
<1> QED BY <1>1, Inductive, PTL

(* Distances grow along every edge that has been followed.                 *)
THEOREM DistancesGrow == Spec => []Settled
<1>1. IInv => Settled
  BY DEF IInv
<1> QED BY <1>1, Inductive, PTL

(* Whatever depends on what: a list that build_path returns has exactly    *)
(* the dependent nodes, each once and after all it is computed from.       *)
THEOREM ListsInOrder == Spec => []DependenciesFirst
<1>1. IInv => DependenciesFirst
  BY DEF IInv
<1> QED BY <1>1, Inductive, PTL

(* build_path implements EvaluationOrder: also, it reports a circle only   *)
(* when there is one, and then leaves the list alone.                      *)
THEOREM Implements == Spec => ImplementsOrder
<1>1. Init => Abstract!Init
  <2> SUFFICES ASSUME Init PROVE Abstract!Init
    OBVIOUS
  <2>1. IInv
    BY InitIInv
  <2> QED BY <2>1 DEF IInv, TypeOK, Init, Abstract!Init
<1>2. IInv /\ [Next]_vars => [Abstract!Next]_<<graph, start, outcome, result>>
  <2> SUFFICES ASSUME IInv, Next
               PROVE  [Abstract!Next]_<<graph, start, outcome, result>>
    BY DEF vars
  <2>1. CASE \E s \in todo : TakeNode(s)
    BY <2>1 DEF TakeNode
  <2>2. CASE \E e \in range : FollowEdge(e)
    <3>1. PICK e \in range : FollowEdge(e)
      BY <2>2
    <3>2. CASE ~TooLong(mdist')
      BY <3>1, <3>2 DEF FollowEdge
    <3>3. CASE TooLong(mdist')
      <4> DEFINE d == Distance(From(e), To(e))
      <4>1. mdist' = Larger(mdist, d) /\ outcome = "RUNNING" /\ mdist \in Nat
        BY <3>1 DEF FollowEdge, IInv, TypeOK
      <4>2. d \in Nat /\ Reached(To(e), d)
        BY <3>1, FollowedIsReached
      <4>3. d > num_edges
        BY <4>1, <4>2, <3>3, EdgesFinite DEF IInv, Bounded, TooLong, Larger
      <4>4. Abstract!HasCycle
        BY <4>2, <4>3, LongWayIsCircle DEF IInv
      <4> QED BY <3>1, <3>3, <4>1, <4>4 DEF FollowEdge, Abstract!Next, Abstract!Refuses
    <3> QED BY <3>2, <3>3
  <2>3. CASE Finish
    BY <2>3, FinishIsOrder DEF Finish, Abstract!Next, Abstract!Lists
  <2> QED BY <2>1, <2>2, <2>3 DEF Next
<1> QED BY <1>1, <1>2, Inductive, PTL DEF Spec, ImplementsOrder, Abstract!Spec
=============================================================================
