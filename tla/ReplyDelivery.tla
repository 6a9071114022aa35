---------------------------- MODULE ReplyDelivery ----------------------------
(***************************************************************************)
(* internal/feishu/bot.go: how one answer reaches the user. A job opens a  *)
(* placeholder reply, rewrites it while the orchestrator streams, and on   *)
(* the way out rewrites it once more or posts a second reply. Every call   *)
(* to Feishu may succeed, fail, or take effect and be reported as failed.  *)
(***************************************************************************)
EXTENDS Naturals, Replies

CONSTANT Jobs  \* goroutines started by onMessage

VARIABLES
  stream,       \* Bot.stream
  placeholder,  \* TrimSpace(Bot.streamPlaceholder) # ""
  phase,        \* where each job is in processIncoming / handleStream
  handle,       \* replyMessageID # ""
  latest,       \* latestContent
  delivered,    \* deliveredContent
  paced,        \* lastUpdate is set, so an update may be throttled
  final,        \* the reply handed to finishStream or to reply
  card,         \* what the user sees in the placeholder reply
  post,         \* what the user sees in a reply posted at the end
  expired,      \* the job's five-minute context is done
  lost          \* history: a call took effect though it reported an error

config == <<stream, placeholder>>
local == <<handle, latest, delivered, paced, final>>
screen == <<card, post>>
vars == <<config, phase, local, screen, expired, lost>>

Ended == {"sent", "failed", "gone"}
Phases == {"idle", "opening", "answering", "settling", "posting"} \cup Ended

TypeOK ==
  /\ stream \in BOOLEAN /\ placeholder \in BOOLEAN
  /\ phase \in [Jobs -> Phases]
  /\ handle \in [Jobs -> BOOLEAN]
  /\ latest \in [Jobs -> Texts \cup {NoText}]
  /\ delivered \in [Jobs -> Texts \cup {NoText}]
  /\ paced \in [Jobs -> BOOLEAN]
  /\ final \in [Jobs -> Texts \cup {NoText}]
  /\ card \in [Jobs -> Texts \cup {Placeholder, NoText}]
  /\ post \in [Jobs -> Texts \cup {NoText}]
  /\ expired \in [Jobs -> BOOLEAN]
  /\ lost \in [Jobs -> BOOLEAN]

Init ==
  /\ stream \in BOOLEAN /\ placeholder \in BOOLEAN
  /\ phase = [j \in Jobs |-> "idle"]
  /\ handle = [j \in Jobs |-> FALSE]
  /\ latest = [j \in Jobs |-> NoText]
  /\ delivered = [j \in Jobs |-> NoText]
  /\ paced = [j \in Jobs |-> FALSE]
  /\ final = [j \in Jobs |-> NoText]
  /\ card = [j \in Jobs |-> NoText]
  /\ post = [j \in Jobs |-> NoText]
  /\ expired = [j \in Jobs |-> FALSE]
  /\ lost = [j \in Jobs |-> FALSE]

-----------------------------------------------------------------------------
(* How a call to Feishu ends: "noid" is a success whose response carries   *)
(* no data; "lost" took effect but reported an error. A call under an      *)
(* expired context never leaves the process.                               *)
Outcomes(j) == IF expired[j] THEN {"failed"} ELSE {"ok", "noid", "failed", "lost"}
Reported(o) == o \in {"ok", "noid"}
Effective(o) == o # "failed"

(* What a call that shows text t leaves of screen s, and the history. *)
Shows(s, j, t, o) == IF Effective(o) THEN [s EXCEPT ![j] = t] ELSE s
Remember(j, o) == lost' = [lost EXCEPT ![j] = @ \/ o = "lost"]

Begin(j) ==
  /\ phase[j] = "idle"
  /\ phase' = [phase EXCEPT ![j] =
                 IF stream /\ placeholder THEN "opening" ELSE "answering"]
  /\ UNCHANGED <<config, local, screen, expired, lost>>

(* The placeholder reply: without its id the job streams to nobody. *)
Open(j, o) ==
  /\ phase[j] = "opening" /\ o \in Outcomes(j)
  /\ card' = Shows(card, j, Placeholder, o)
  /\ handle' = [handle EXCEPT ![j] = o = "ok"]
  /\ phase' = [phase EXCEPT ![j] = "answering"]
  /\ Remember(j, o)
  /\ UNCHANGED <<config, latest, delivered, paced, final, post, expired>>

(* update(t, done) that only notes the text: nothing to write to, or a     *)
(* partial text too soon after the last write.                             *)
Hold(j, t) ==
  /\ phase[j] = "answering" /\ stream
  /\ ~handle[j] \/ paced[j]
  /\ latest' = [latest EXCEPT ![j] = t]
  /\ UNCHANGED <<config, phase, handle, delivered, paced, final, screen, expired, lost>>

(* update(t, done) that rewrites the reply: a partial text that is new, or *)
(* a complete one.                                                         *)
Push(j, t, done, o) ==
  /\ phase[j] = "answering" /\ stream /\ handle[j] /\ o \in Outcomes(j)
  /\ done \/ t # latest[j]
  /\ latest' = [latest EXCEPT ![j] = t]
  /\ paced' = [paced EXCEPT ![j] = TRUE]
  /\ card' = Shows(card, j, t, o)
  /\ delivered' = IF Reported(o) THEN [delivered EXCEPT ![j] = t] ELSE delivered
  /\ Remember(j, o)
  /\ UNCHANGED <<config, phase, handle, final, post, expired>>

(* Mutant of Answer: the reply is compared with latestContent. *)
AnswerIfNew(j, t) ==
  /\ phase[j] = "answering"
  /\ final' = [final EXCEPT ![j] = t]
  /\ phase' = [phase EXCEPT ![j] =
                 IF stream /\ t = latest[j] THEN "sent"
                 ELSE IF stream /\ handle[j] THEN "settling" ELSE "posting"]
  /\ UNCHANGED <<config, handle, latest, delivered, paced, screen, expired, lost>>

(* The orchestrator returns a reply; a stream that already shows it is done. *)
Answer(j, t) ==
  /\ phase[j] = "answering"
  /\ final' = [final EXCEPT ![j] = t]
  /\ phase' = [phase EXCEPT ![j] =
                 IF stream /\ t = delivered[j] THEN "sent"
                 ELSE IF stream /\ handle[j] THEN "settling" ELSE "posting"]
  /\ UNCHANGED <<config, handle, latest, delivered, paced, screen, expired, lost>>

(* The orchestrator returns an error: the apology takes the reply's place. *)
Apologise(j) ==
  /\ phase[j] = "answering"
  /\ final' = [final EXCEPT ![j] = Apology]
  /\ phase' = [phase EXCEPT ![j] =
                 IF stream /\ handle[j] THEN "settling"
                 ELSE IF stream /\ delivered[j] = Apology THEN "sent" ELSE "posting"]
  /\ UNCHANGED <<config, handle, latest, delivered, paced, screen, expired, lost>>

(* What the mutants of Settle share. *)
SettleTo(j, o, next) ==
  /\ phase[j] = "settling" /\ o \in Outcomes(j)
  /\ card' = Shows(card, j, final[j], o)
  /\ phase' = [phase EXCEPT ![j] = next]
  /\ Remember(j, o)
  /\ UNCHANGED <<config, local, post, expired>>

(* Mutant of Settle: the fallback does not ask what was delivered. *)
SettleUnchecked(j, o) == SettleTo(j, o, IF Reported(o) THEN "sent" ELSE "posting")

(* Mutant of Settle: no return after a successful rewrite. *)
SettleAndPost(j, o) ==
  SettleTo(j, o, IF delivered[j] = final[j] THEN "sent" ELSE "posting")

(* finishStream rewrites the reply; if that fails, a text the user already *)
(* has is not posted again.                                                *)
Settle(j, o) ==
  /\ phase[j] = "settling" /\ o \in Outcomes(j)
  /\ card' = Shows(card, j, final[j], o)
  /\ phase' = [phase EXCEPT ![j] =
                 IF Reported(o) \/ delivered[j] = final[j] THEN "sent" ELSE "posting"]
  /\ Remember(j, o)
  /\ UNCHANGED <<config, local, post, expired>>

Post(j, o) ==
  /\ phase[j] = "posting" /\ o \in Outcomes(j)
  /\ post' = Shows(post, j, final[j], o)
  /\ phase' = [phase EXCEPT ![j] = IF Reported(o) THEN "sent" ELSE "failed"]
  /\ Remember(j, o)
  /\ UNCHANGED <<config, local, card, expired>>

(* Five minutes are over, wherever the job is. *)
Expire(j) ==
  /\ ~expired[j]
  /\ expired' = [expired EXCEPT ![j] = TRUE]
  /\ UNCHANGED <<config, phase, local, screen, lost>>

(* The process stops under its jobs; App.Run does not wait for them. *)
Crash ==
  /\ phase' = [j \in Jobs |-> IF phase[j] \in Ended \cup {"idle"} THEN phase[j] ELSE "gone"]
  /\ UNCHANGED <<config, local, screen, expired, lost>>

Work(j) ==
  \/ Begin(j)
  \/ \E o \in Outcomes(j) : Open(j, o) \/ Settle(j, o) \/ Post(j, o)
  \/ \E t \in Texts : Answer(j, t)
  \/ Apologise(j)

Stream(j) ==
  \E t \in Texts :
    \/ Hold(j, t)
    \/ \E done \in BOOLEAN, o \in Outcomes(j) : Push(j, t, done, o)

Next == Crash \/ \E j \in Jobs : Work(j) \/ Stream(j) \/ Expire(j)

Spec == Init /\ [][Next]_vars
-----------------------------------------------------------------------------
(* A job that reports success (and so gets the done emoji) has its final   *)
(* text on the screen, in the placeholder or in a reply of its own.        *)
SentIsShown ==
  \A j \in Jobs : phase[j] = "sent" /\ ~lost[j] => final[j] \in {card[j], post[j]}

(* A job that reports failure really left its final text unsaid. *)
FailedIsUnsaid ==
  \A j \in Jobs : phase[j] = "failed" /\ ~lost[j] => final[j] \notin {card[j], post[j]}

(* The fallback reply never repeats a text the placeholder already shows. *)
AnswerShownOnce ==
  \A j \in Jobs : post[j] # NoText /\ ~lost[j] => card[j] # post[j]
=============================================================================
