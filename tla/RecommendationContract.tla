----------------------- MODULE RecommendationContract -----------------------
(***************************************************************************)
(* What the recommendation store promises its callers: every operation     *)
(* takes the graph from one complete graph to the next, or leaves it.      *)
(*                                                                         *)
(* RecommendationStore implements this specification, with the operations  *)
(* of RecommendationGraph as its parameters.                               *)
(***************************************************************************)
CONSTANTS
    Empty,            \* the graph of a new workspace
    Puts(_),          \* what writing one record makes of a graph
    Transactions(_)   \* what replacing several records makes of it

VARIABLE graph

Init == graph = Empty

(* A read, a refused request, or one that ends with an error. *)
Refuse == UNCHANGED graph

Write == graph' \in Puts(graph)

Replace == graph' \in Transactions(graph)

Next == Refuse \/ Write \/ Replace

Spec == Init /\ [][Next]_graph
=============================================================================
