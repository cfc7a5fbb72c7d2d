--------------------------- MODULE MCEventDelivery ---------------------------
(* EventDelivery on small instances, with its refinement and fairness. *)
EXTENDS EventDelivery, TLC

Symmetry == Permutations(Workers)

=============================================================================
