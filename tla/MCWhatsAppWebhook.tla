------------------------- MODULE MCWhatsAppWebhook -------------------------
(* Instances of WhatsAppWebhook for model checking. *)
EXTENDS WhatsAppWebhook, TLC

CONSTANTS w1, w2, b1, b2, add1, add2, out1, out2, bill1, bill2

\* The cart holds the line of add1.  One post orders and asks for the bill, the
\* other asks for the bill, adds another line and orders.
TwoBatches == (b1 :> <<out1, bill1>>) @@ (b2 :> <<bill2, add2, out2>>)
=============================================================================
