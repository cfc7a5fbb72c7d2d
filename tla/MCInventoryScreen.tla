------------------------- MODULE MCInventoryScreen -------------------------
(* The inventory page with small sets of rows, payloads and alert views. *)
EXTENDS InventoryScreen, TLC

ScreenSymmetry == Permutations(Ingredients) \cup Permutations(Payloads)

=============================================================================
