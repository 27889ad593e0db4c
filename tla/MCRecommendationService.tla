---------------------- MODULE MCRecommendationService ----------------------
(* Small instances of RecommendationService for TLC.  Handlers and nodes   *)
(* are interchangeable; no action or property names one of them.           *)
EXTENDS RecommendationService, TLC

CONSTANTS h1, h2, n1, n2

NodeSymmetry == Permutations({n1, n2})

Symmetry == Permutations({h1, h2}) \cup NodeSymmetry
=============================================================================
