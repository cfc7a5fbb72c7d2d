---------------------------- MODULE MCMenuCache ----------------------------
(* The menu cache with one menu of one item, two readers and one writer. *)
EXTENDS MenuCache, TLC

CacheSymmetry == Permutations(Readers)

=============================================================================
