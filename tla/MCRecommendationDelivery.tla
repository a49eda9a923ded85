---------------------- MODULE MCRecommendationDelivery ----------------------
(* Instances of RecommendationDelivery for TLC.                            *)
EXTENDS RecommendationDelivery, TLC

Symmetry == Permutations(Sessions) \cup Permutations(Accepts)

(* Behaviours are followed up to their first incident and through an       *)
(* overlap of deliveries that it leads to.                                 *)
FewIncidents == Cardinality(incidents \ {"overlap"}) <= 1
=============================================================================
