---------------------------- MODULE MCInventory -----------------------------
(* Instances of Inventory for TLC: players and tiles are model values, and *)
(* any of them can stand for any other.                                    *)
EXTENDS Inventory, TLC

Symmetry == Permutations(Players) \cup Permutations(Tiles)
=============================================================================
