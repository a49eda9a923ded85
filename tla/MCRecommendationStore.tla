----------------------- MODULE MCRecommendationStore ------------------------
(* Instances of RecommendationStore for TLC: two overlapping rollups of    *)
(* three families.                                                         *)
EXTENDS RecommendationStore
CONSTANTS a, b, c, p, q, k
MCMembers == [x \in Parents |-> IF x = p THEN {a, b} ELSE {b, c}]
MCRank == [x \in Ids |-> CASE x = q -> 1 [] x = b -> 2 [] x = p -> 3
                           [] x = a -> 4 [] x = c -> 5 [] OTHER -> 6]
(* Bound: terminal records in the graph at once. *)
CONSTANT MaxTerminal
FewTerminal == Cardinality(With(files, Terminal)) <= MaxTerminal
=============================================================================
