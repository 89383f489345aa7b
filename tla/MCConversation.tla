--------------------------- MODULE MCConversation ---------------------------
(* Instances of Conversation for TLC.                                      *)
EXTENDS Conversation, TLC

\* Handlers, request ids, question texts and turn ids are interchangeable.
Symmetry ==
  Permutations(Ask) \cup Permutations(Request) \cup Permutations(Question)
    \cup Permutations(TurnId)
=============================================================================
