------------------------------ MODULE MCCommandPool --------------------------
(* Instances of CommandPool: one conversation, a send and a chat to open.    *)
EXTENDS CommandPool, TLC

CONSTANTS c1, c2, k1

OneConversation == [c \in Commands |-> k1]

\* Workers of the pool are interchangeable.
Interchangeable == Permutations(Workers)
=============================================================================
