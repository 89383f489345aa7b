------------------------- MODULE MCConversationPage -------------------------
(* Instances of ConversationPage for TLC.                                  *)
EXTENDS ConversationPage, TLC

Symmetry == Permutations(Account) \cup Permutations(Number)
=============================================================================
