-------------------------- MODULE MCConversation --------------------------
\* A conversation and a room, a message of the reader and one of somebody else.
EXTENDS Conversation, TLC

MCSymmetry == Permutations(Request) \cup Permutations(Endpoint)
===========================================================================
