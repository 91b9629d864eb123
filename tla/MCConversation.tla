-------------------------- MODULE MCConversation --------------------------
(***************************************************************************)
(* Conversation with small sets; chats and threads are interchangeable.    *)
(***************************************************************************)
EXTENDS Conversation, TLC

MCSymmetry == Permutations(Chats) \cup Permutations(Threads)
=============================================================================
