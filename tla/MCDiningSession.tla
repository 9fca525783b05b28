--------------------------- MODULE MCDiningSession --------------------------
(* Instances of DiningSession for model checking. *)
EXTENDS DiningSession, TLC

\* Requests of one kind, bills and lines are interchangeable.  The
\* sets of slots may be the same set (serial instances).
Symmetry ==
    Permutations(Line) \cup Permutations(Bill)
        \cup (IF Diner = Cashier THEN {} ELSE Permutations(Diner))
=============================================================================
