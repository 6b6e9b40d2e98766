--------------------------- MODULE EvaluationOrder ---------------------------
(***************************************************************************)
(* What dag::Graph::build_path promises.  The edges of a graph lead from   *)
(* a node to the nodes computed from it.  Asked for a start node it lists  *)
(* every node that depends on it, each once and after all it is computed   *)
(* from; or, when they depend on each other in a circle, it says so and    *)
(* leaves the list as it was.                                              *)
(***************************************************************************)
EXTENDS Naturals, Sequences

CONSTANTS Nodes, EdgeIds

VARIABLES
    graph,    \* the edges: a function from some of EdgeIds to pairs of nodes
    start,
    outcome,  \* "RUNNING", "OK" or "CYCLE"
    result    \* the list

From(e) == graph[e][1]
To(e) == graph[e][2]

(* A set that no edge leads out of.                                        *)
Closed(S) == \A e \in DOMAIN graph : From(e) \in S => To(e) \in S

(* The nodes that every closed set around the start has.                   *)
Reachable ==
    {n \in Nodes : \A S \in SUBSET Nodes : start \in S /\ Closed(S) => n \in S}

(* Some of them depend on each other in a circle.                          *)
HasCycle ==
    \E C \in SUBSET Reachable :
        /\ C # {}
        /\ \A n \in C : \E e \in DOMAIN graph : From(e) = n /\ To(e) \in C

Listed(list) == {list[i] : i \in DOMAIN list}

(* Each node once, and every edge leads forwards.                          *)
InOrder(list) ==
    /\ \A i, j \in DOMAIN list : list[i] = list[j] => i = j
    /\ \A e \in DOMAIN graph, i, j \in DOMAIN list :
         list[i] = From(e) /\ list[j] = To(e) => i < j

IsEvaluationOrder(list) == Listed(list) = Reachable /\ InOrder(list)

Init ==
    /\ DOMAIN graph \subseteq EdgeIds
    /\ graph \in [DOMAIN graph -> Nodes \X Nodes]
    /\ start \in Nodes
    /\ outcome = "RUNNING"
    /\ result = <<>>

Lists ==
    /\ outcome = "RUNNING"
    /\ outcome' = "OK"
    /\ result' \in Seq(Nodes)
    /\ IsEvaluationOrder(result')
    /\ UNCHANGED <<graph, start>>

Refuses ==
    /\ outcome = "RUNNING"
    /\ HasCycle
    /\ outcome' = "CYCLE"
    /\ UNCHANGED <<graph, start, result>>

Next == Lists \/ Refuses

Spec == Init /\ [][Next]_<<graph, start, outcome, result>>
=============================================================================
