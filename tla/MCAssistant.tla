---------------------------- MODULE MCAssistant ----------------------------
(* REACTION_RECEIVED_EMOJI with its older name ACK_REACTION_EMOJI, and     *)
(* three lines of .env, so that lines repeat and come in either order. Two *)
(* turns then load the prompt through two edits; one runs a skill of up to *)
(* three steps, with and without a limit of its own.                       *)
EXTENDS Assistant

CONSTANTS t1, t2, s1, s2

MCSteps == [id : {s1, s2}, type : {"script", "llm", "end"}]
MCSkills ==
  {[workflow |-> <<>>, maxSteps |-> 0],
   [workflow |-> <<[id |-> NoId, type |-> "llm"]>>, maxSteps |-> 0],
   [workflow |-> <<[id |-> s1, type |-> "other"]>>, maxSteps |-> 0]}
  \cup {w \in [workflow : UNION {[1..n -> MCSteps] : n \in 1..3}, maxSteps : {0, 1, 2, 4}] :
          w.workflow[1].id = s1 /\ w.workflow[1].type # "end"}

MCOldName == [n \in {"REACTION_RECEIVED_EMOJI", "ACK_REACTION_EMOJI"} |->
                "ACK_REACTION_EMOJI"]
MCResponses == {[text |-> <<>>, calls |-> <<>>]}
MCStyles == {[s \in {"fragmentId", "argsId", "itemId", "ownId", "index", "itemArgs",
                     "speaks", "calls"} |-> TRUE]}
=============================================================================
