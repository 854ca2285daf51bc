------------------------- MODULE MCEvaluationSheet --------------------------
(* EvaluationSheet on small instances: ids and requests are interchangeable. *)
EXTENDS EvaluationSheet, TLC

Symmetry == Permutations(Templates) \cup Permutations(Edits) \cup Permutations(Items)
              \cup Permutations(Ratings) \cup Permutations(Evaluations)

=============================================================================
