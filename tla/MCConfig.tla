------------------------------ MODULE MCConfig ------------------------------
(* Two settings that .env.example says may be left empty, neither with an  *)
(* older name, and up to two lines of .env. No turn follows.               *)
EXTENDS Assistant

MCOldName == [n \in {"REACTION_PROCESSING_EMOJI", "STREAM_PLACEHOLDER"} |-> n]
MCResponses == {[text |-> <<>>, calls |-> <<>>]}
MCStyles == {[s \in {"fragmentId", "argsId", "itemId", "ownId", "index", "itemArgs",
                     "speaks", "calls"} |-> TRUE]}
=============================================================================
