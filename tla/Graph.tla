-------------------------------- MODULE Graph --------------------------------
(***************************************************************************)
(* dag::Graph (src/src/roq/dag/graph.hpp).  build_path keeps for every     *)
(* node it has met the length of the longest way it has found from the     *)
(* start, and a set of nodes whose edges are still to be followed.  A way  *)
(* longer than there are edges goes in a circle.  At the end the nodes are *)
(* listed by distance.  One step follows one edge.                         *)
(***************************************************************************)
EXTENDS Naturals, Sequences, FiniteSets

CONSTANTS
    Nodes,
    EdgeIds,    \* edges are a multimap: two of them may be alike
    Graphs,     \* what depends on what: the graphs to be asked about
    Inputs      \* the nodes that paths start from

ASSUME GraphAssumption ==
    /\ IsFiniteSet(EdgeIds)
    /\ \A deps \in Graphs : /\ DOMAIN deps \subseteq EdgeIds
                            /\ deps \in [DOMAIN deps -> Nodes \X Nodes]
    /\ Inputs \subseteq Nodes

VARIABLES
    graph, start, outcome, result,
    max_distance,   \* of the nodes met
    todo,           \* nodes whose edges are to be followed (again)
    range,          \* edges of the node at hand that are left
    mdist           \* the greatest of the distances

vars == <<graph, start, outcome, result, max_distance, todo, range, mdist>>

From(e) == graph[e][1]
To(e) == graph[e][2]
num_edges == Cardinality(DOMAIN graph)
Larger(a, b) == IF a > b THEN a ELSE b

(* reverse(), and the constructor that copies: "a depends on b" becomes an *)
(* edge from b to a.  The constructor that moves takes the edges as they   *)
(* are.                                                                    *)
reverse(edges) == [e \in DOMAIN edges |-> <<edges[e][2], edges[e][1]>>]

Init ==
    /\ graph \in {reverse(deps) : deps \in Graphs}
    /\ start \in Inputs
    /\ outcome = "RUNNING"
    /\ result = <<>>
    /\ max_distance = [n \in {start} |-> 0]
    /\ todo = {start}
    /\ range = {}
    /\ mdist = 0

(* Mutant: every edge from s on, not only those of s.                      *)
FromLowerBound(s) ==
    /\ outcome = "RUNNING"
    /\ range = {}
    /\ todo' = todo \ {s}
    /\ range' = {e \in DOMAIN graph : From(e) >= s}
    /\ UNCHANGED <<graph, start, outcome, result, max_distance, mdist>>

(* s = *todo.begin(), any one of a hash set.                               *)
TakeNode(s) ==
    /\ outcome = "RUNNING"
    /\ range = {}
    /\ todo' = todo \ {s}
    /\ range' = {e \in DOMAIN graph : From(e) = s}
    /\ UNCHANGED <<graph, start, outcome, result, max_distance, mdist>>

(* Mutant: a node already met keeps its distance.                          *)
FirstDistance(s, d) ==
    IF d \in DOMAIN max_distance THEN max_distance[d] ELSE max_distance[s] + 1

(* Mutant: the edge followed is not counted.                               *)
EdgeNotCounted(s, d) ==
    Larger(max_distance[s], IF d \in DOMAIN max_distance THEN max_distance[d] ELSE 0)

(* max_distance[d] of a node not met is made 0.                            *)
Distance(s, d) ==
    Larger(max_distance[s] + 1,
           IF d \in DOMAIN max_distance THEN max_distance[d] ELSE 0)

(* Mutant: a node already met is not followed again.                       *)
TodoOnce(d) == IF d \in DOMAIN max_distance THEN todo ELSE todo \cup {d}

Todo(d) == todo \cup {d}

(* Mutant: a way as long as there are edges counts as a circle.            *)
AsLong(m) == m >= num_edges

TooLong(m) == m > num_edges

FollowEdge(e) ==
    LET s == From(e)
        d == To(e)
        distance == Distance(s, d)
    IN  /\ outcome = "RUNNING"
        /\ max_distance' = [n \in DOMAIN max_distance \cup {d} |->
                              IF n = d THEN distance ELSE max_distance[n]]
        /\ mdist' = Larger(mdist, distance)
        /\ IF TooLong(mdist')
           THEN outcome' = "CYCLE" /\ UNCHANGED <<todo, range>>
           ELSE /\ todo' = Todo(d)
                /\ range' = range \ {e}
                /\ UNCHANGED outcome
        /\ UNCHANGED <<graph, start, result>>

(* The nodes by distance; those of one distance are in a hash set.         *)
ByDistance(list) ==
    /\ \A n \in DOMAIN max_distance : \E i \in DOMAIN list : list[i] = n
    /\ \A i, j \in DOMAIN list :
         /\ i # j => list[i] # list[j]
         /\ i < j => max_distance[list[i]] <= max_distance[list[j]]

Finish ==
    /\ outcome = "RUNNING"
    /\ todo = {} /\ range = {}
    /\ outcome' = "OK"
    /\ result' \in [1..Cardinality(DOMAIN max_distance) -> DOMAIN max_distance]
    /\ ByDistance(result')
    /\ UNCHANGED <<graph, start, max_distance, todo, range, mdist>>

Next ==
    \/ \E s \in todo : TakeNode(s)
    \/ \E e \in range : FollowEdge(e)
    \/ Finish

Spec == Init /\ [][Next]_vars /\ WF_vars(Next)
-----------------------------------------------------------------------------
Abstract == INSTANCE EvaluationOrder

(* TypeOK: the nodes still to be followed, and those that the edges at     *)
(* hand come from, have a distance (max_distance[s] is read for both).     *)
TypeOK ==
    /\ DOMAIN graph \subseteq EdgeIds
    /\ graph \in [DOMAIN graph -> Nodes \X Nodes]
    /\ start \in Nodes
    /\ outcome \in {"RUNNING", "OK", "CYCLE"}
    /\ result \in Seq(Nodes)
    /\ DOMAIN max_distance \subseteq Nodes
    /\ max_distance \in [DOMAIN max_distance -> Nat]
    /\ start \in DOMAIN max_distance
    /\ todo \subseteq DOMAIN max_distance
    /\ range \subseteq {e \in DOMAIN graph : From(e) \in DOMAIN max_distance}
    /\ mdist \in Nat

(* A node whose edges have been followed, and that has not been met again  *)
(* since, is nearer to the start than all that is computed from it         *)
(* (graph.hpp:58-65).                                                      *)
Settled ==
    outcome = "RUNNING" =>
    \A e \in DOMAIN graph \ range :
        From(e) \in DOMAIN max_distance \ todo =>
            /\ To(e) \in DOMAIN max_distance
            /\ max_distance[From(e)] < max_distance[To(e)]

(* The list has every node that depends on the start, each once, and none  *)
(* before one it is computed from: with it, one pass over the list         *)
(* computes every dependent node from values that are up to date           *)
(* (dag/pricer.cpp:85).                                                    *)
DependenciesFirst == outcome = "OK" => Abstract!IsEvaluationOrder(result)

(* The detailed algorithm does what is promised: it lists the nodes in     *)
(* order, or it refuses, with the list untouched, and only when there is a *)
(* circle: the longest way without one has no more edges than there are.   *)
ImplementsOrder == Abstract!Spec

(* It comes to an end, also when the nodes depend on each other.           *)
Terminates == <>(outcome # "RUNNING")
=============================================================================
