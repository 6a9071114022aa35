-------------------------- MODULE MCReactionStates --------------------------
(* Two jobs on one message, so that they race on its map entry, and one on *)
(* another message; all three emojis configured, or two of them.           *)
EXTENDS ReactionStates

CONSTANTS m1, m2, a, b, c

MCMessageOf == [j \in {a, b, c} |-> IF j = c THEN m2 ELSE m1]
=============================================================================
