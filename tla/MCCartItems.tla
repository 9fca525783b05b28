---------------------------- MODULE MCCartItems ----------------------------
(* Instances of CartItems for model checking. *)
EXTENDS CartItems, TLC

\* Requests are interchangeable, and so are menu items.
Symmetry == Permutations(Guest) \cup Permutations(Item)
=============================================================================
