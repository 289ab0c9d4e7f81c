------------------------- MODULE MCConversationList -------------------------
(* Instances of ConversationList for TLC. *)
EXTENDS ConversationList, TLC

\* Conversations are interchangeable, and so are the titles typed.
ListSymmetry == Permutations(Convs) \cup Permutations(Titles)
=============================================================================
