---------------------------- MODULE AnswerService ----------------------------
(***************************************************************************)
(* What the bot promises about a message, whatever happens inside it: it   *)
(* is taken up once, ends in one way for good, and is called done only     *)
(* when it was answered. The promise is waived for a message about which   *)
(* the deduper failed, forgot or lost its mark, or about which Feishu did  *)
(* something and reported that it had not.                                 *)
(***************************************************************************)
CONSTANT Messages

VARIABLES
  outcome,  \* how each message fared
  done      \* messages with the done emoji

vars == <<outcome, done>>

Init ==
  /\ outcome = [m \in Messages |-> "unseen"]
  /\ done = {}

Become(m, from, to) ==
  /\ outcome[m] = from
  /\ outcome' = [outcome EXCEPT ![m] = to]
  /\ UNCHANGED done

Take(m) == Become(m, "unseen", "taken")

(* The reply is on the user's screen. *)
Answer(m) == Become(m, "taken", "answered")

(* Feishu would not take the reply and the user has not seen it. *)
Refuse(m) == Become(m, "taken", "refused")

MarkDone(m) ==
  /\ outcome[m] \in {"answered", "waived"}
  /\ done' = done \cup {m}
  /\ UNCHANGED outcome

(* Another job of the message took the emoji back. *)
UnmarkDone(m) ==
  /\ outcome[m] = "waived"
  /\ done' = done \ {m}
  /\ UNCHANGED outcome

(* A restart abandons messages in work; a promise may be waived any time.  *)
Interrupt ==
  /\ \E abandoned, waived \in SUBSET Messages :
       /\ \A m \in abandoned : outcome[m] = "taken"
       /\ outcome' = [m \in Messages |->
                        CASE m \in waived -> "waived"
                          [] m \in abandoned \ waived -> "abandoned"
                          [] OTHER -> outcome[m]]
  /\ UNCHANGED done

Next ==
  \/ \E m \in Messages :
       Take(m) \/ Answer(m) \/ Refuse(m) \/ MarkDone(m) \/ UnmarkDone(m)
  \/ Interrupt

Spec == Init /\ [][Next]_vars
=============================================================================
