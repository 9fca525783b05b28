------------------------- MODULE MCBotConversation -------------------------
(* Instances of BotConversation for model checking. *)
EXTENDS BotConversation, TLC

CONSTANTS here, there, t1, t2, t3, i1

\* Two tables and a dish at the default restaurant, and a table at another one
\* that has sold everything.
HomeOf == (t1 :> here) @@ (t2 :> here) @@ (i1 :> here) @@ (t3 :> there)

\* One text for each intent, and the commands of the documentation.
SomeTexts == {{"bill"}, {"check", "checkout"}, {"cart"}, {"confirm"}, {"status"}, {"menu"}, {}}
=============================================================================
