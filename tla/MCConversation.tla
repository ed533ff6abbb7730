--------------------------- MODULE MCConversation ---------------------------
(* Instances of Conversation for TLC. *)
EXTENDS Conversation, TLC

CONSTANTS m1, m2, m3, r1, plain, tools

\* Which message or which grants never matters.
Symmetry == Permutations(Messages) \cup Permutations(GrantSets)

=============================================================================
