--------------------------- MODULE MCSessionEntry ---------------------------
(* Instances of SessionEntry for model checking. *)
EXTENDS SessionEntry, TLC

\* Tables are interchangeable, and so are the requests of guests.
Symmetry == Permutations(Table) \cup Permutations(Guest)
=============================================================================
