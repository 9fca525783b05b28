--------------------------- MODULE MCBillAmounts ---------------------------
(* Instances of BillAmounts for model checking. *)
EXTENDS BillAmounts

\* Prices whose 5 % tax ends below, at and above half a cent, between an even
\* and an odd cent and the other way round.
Prices == {0, 9, 10, 11, 30, 1999}
=============================================================================
