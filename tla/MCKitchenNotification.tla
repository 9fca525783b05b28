------------------------ MODULE MCKitchenNotification ------------------------
(* Instances of KitchenNotification for model checking. *)
EXTENDS KitchenNotification, TLC

\* The kitchen's requests are interchangeable, and so are the orders.
Symmetry == Permutations(Kitchen) \cup Permutations(Order)
=============================================================================
