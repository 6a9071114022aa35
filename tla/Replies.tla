------------------------------ MODULE Replies ------------------------------
(* What the Feishu bot sends as a reply, shared by the modules about it.   *)

CONSTANTS
  Texts,        \* answer texts, complete or partial, after TrimSpace
  Apology,      \* the fixed reply for an orchestrator error
  Placeholder,  \* STREAM_PLACEHOLDER
  NoText        \* "", or nothing on the user's screen

ASSUME TextAssumption ==
  /\ Apology \in Texts
  /\ Placeholder \notin Texts
  /\ NoText \notin Texts \cup {Placeholder}
=============================================================================
