------------------------------ MODULE FeishuBot ------------------------------
(***************************************************************************)
(* internal/feishu/bot.go: from an event to the end of its job. onMessage  *)
(* asks the deduper about each delivery and starts a goroutine; the job    *)
(* moves the status emoji (ReactionStates), delivers the answer            *)
(* (ReplyDelivery) and moves the emoji again. Deliveries repeat, the       *)
(* deduper fails or forgets, jobs of one message overlap, the context      *)
(* expires and the process restarts, at any point.                         *)
(***************************************************************************)
EXTENDS Naturals, FiniteSets, Replies

CONSTANTS
  Messages, Emojis, NoReaction,
  Modes,          \* values of LLM_STREAM considered, a subset of BOOLEAN
  MaxDeliveries,  \* bound: how often one event is delivered
  MaxRestarts     \* bound: how often the process restarts

ASSUME BoundsAssumption == MaxDeliveries \in Nat /\ MaxRestarts \in Nat

(* The job started by the n-th delivery of message m. *)
Jobs == Messages \X (1..MaxDeliveries)
MessageOf == [j \in Jobs |-> j[1]]

ASSUME EmojisAssumption == Emojis \subseteq 1..3 /\ NoReaction \notin Jobs \X Emojis

VARIABLES
  \* ReplyDelivery
  stream, placeholder, phase, handle, latest, delivered, paced, final,
  card, post, expired, lost,
  \* ReactionStates
  live, tracked, step, emoji, previous, slipped,
  \* this module
  dedupeStore, \* DEDUPE_STORE
  store,       \* the deduper in use
  marked,      \* ids each deduper knows
  deliveries,  \* how often each event was delivered
  stage,       \* where each job is in processIncoming
  restarts,
  excused,     \* history: ids the deduper failed on, forgot or lost
  swallowed    \* history: ids redis called duplicates when they were new

deliveryVars == <<stream, placeholder, phase, handle, latest, delivered, paced,
                  final, card, post, expired, lost>>
reactionVars == <<live, tracked, step, emoji, previous, slipped>>
storeVars == <<dedupeStore, store>>
historyVars == <<excused, swallowed>>
dedupeVars == <<storeVars, marked, deliveries, historyVars>>
vars == <<deliveryVars, reactionVars, dedupeVars, stage, restarts>>

D == INSTANCE ReplyDelivery
R == INSTANCE ReactionStates

(* A job passes these in order; three of them set an emoji. *)
Stages == {"none", "received", "processing", "replying", "done", "ended", "died"}
EmojiAt == [received |-> 1, processing |-> 2, done |-> 3]
Running(j) == stage[j] \in {"received", "processing", "replying", "done"}
Started(m) == {j \in Jobs : j[1] = m /\ stage[j] # "none"}

Stores == {"redis", "memory"}

(* setupDeduper: a redis that cannot be reached at the start is not used.  *)
Available == {dedupeStore, "memory"}

TypeOK ==
  /\ D!TypeOK /\ R!TypeOK
  /\ dedupeStore \in Stores /\ store \in Stores
  /\ marked \in [Stores -> SUBSET Messages]
  /\ excused \subseteq Messages /\ swallowed \subseteq Messages
  /\ deliveries \in [Messages -> 0..MaxDeliveries]
  /\ stage \in [Jobs -> Stages]
  /\ restarts \in 0..MaxRestarts

Init ==
  /\ D!Init /\ R!Init
  /\ stream \in Modes
  /\ dedupeStore \in Stores /\ store \in Available
  /\ marked = [s \in Stores |-> {}] /\ excused = {} /\ swallowed = {}
  /\ deliveries = [m \in Messages |-> 0]
  /\ stage = [j \in Jobs |-> "none"]
  /\ restarts = 0

-----------------------------------------------------------------------------
Marked(m) == [marked EXCEPT ![store] = @ \cup {m}]

(* Mutant of Deliver: the id is looked up but not marked. *)
DeliverUnmarked(m, answer) ==
  /\ deliveries[m] < MaxDeliveries
  /\ answer = "new" => m \notin marked[store]
  /\ answer = "dup" => m \in marked[store]
  /\ answer = "error" => store = "redis"
  /\ deliveries' = [deliveries EXCEPT ![m] = @ + 1]
  /\ excused' = IF answer = "error" THEN excused \cup {m} ELSE excused
  /\ stage' = IF answer = "dup" THEN stage
              ELSE [stage EXCEPT ![<<m, deliveries[m] + 1>>] = "received"]
  /\ UNCHANGED <<deliveryVars, reactionVars, storeVars, marked, swallowed, restarts>>

(* Mutant of Deliver: firstSeen read the wrong way round. *)
DeliverInverted(m, answer) ==
  /\ deliveries[m] < MaxDeliveries
  /\ answer = "new" => m \notin marked[store]
  /\ answer = "dup" => m \in marked[store]
  /\ answer = "error" => store = "redis"
  /\ deliveries' = [deliveries EXCEPT ![m] = @ + 1]
  /\ marked' = Marked(m)
  /\ excused' = IF answer = "error" THEN excused \cup {m} ELSE excused
  /\ stage' = IF answer = "new" THEN stage
              ELSE [stage EXCEPT ![<<m, deliveries[m] + 1>>] = "received"]
  /\ UNCHANGED <<deliveryVars, reactionVars, storeVars, swallowed, restarts>>

(* onMessage. A failed Mark may or may not have stored the id; it is       *)
(* logged and the event handled as if it were new. The redis client sends  *)
(* a SET NX again whose answer was lost, and then finds its own mark.      *)
Deliver(m, answer) ==
  /\ deliveries[m] < MaxDeliveries
  /\ answer = "new" => m \notin marked[store]
  /\ answer = "dup" => m \in marked[store] \/ store = "redis"
  /\ answer = "error" => store = "redis"
  /\ deliveries' = [deliveries EXCEPT ![m] = @ + 1]
  /\ marked' \in IF answer = "error" THEN {marked, Marked(m)} ELSE {Marked(m)}
  /\ swallowed' = IF answer = "dup" /\ m \notin marked[store]
                  THEN swallowed \cup {m} ELSE swallowed
  /\ excused' = IF answer = "error" \/ swallowed' # swallowed
                THEN excused \cup {m} ELSE excused
  /\ stage' = IF answer = "dup" THEN stage
              ELSE [stage EXCEPT ![<<m, deliveries[m] + 1>>] = "received"]
  /\ UNCHANGED <<deliveryVars, reactionVars, storeVars, restarts>>

(* The TTL of a mark runs out before the platform stops repeating. *)
Forget(s, m) ==
  /\ m \in marked[s]
  /\ marked' = [marked EXCEPT ![s] = @ \ {m}]
  /\ excused' = excused \cup {m}
  /\ UNCHANGED <<deliveryVars, reactionVars, storeVars, deliveries, swallowed, stage, restarts>>

(* setReactionState within processIncoming and setReactionDone: its result *)
(* is logged, never acted on. An expired context fails every call.         *)
SetEmoji(j) ==
  /\ stage[j] \in DOMAIN EmojiAt
  /\ \/ EmojiAt[stage[j]] \in Emojis /\ R!Enter(j, EmojiAt[stage[j]])
     \/ R!Look(j)
     \/ \E o \in D!Outcomes(j) : R!Remove(j, o) \/ R!Add(j, o)
  /\ UNCHANGED <<deliveryVars, dedupeVars, stage, restarts>>

(* Mutant of EmojiSet: the job does not wait for its emoji. *)
EmojiIgnored(j) == step[j] = "rest"

EmojiSet(j) ==
  /\ step[j] = "rest"
  /\ EmojiAt[stage[j]] \in Emojis => emoji[j] = EmojiAt[stage[j]]

(* The end of the received stage stands for enrichImages too: it fetches   *)
(* and uploads, and an error leaves the message as it was.                 *)
Process(j) ==
  /\ stage[j] = "received" /\ EmojiSet(j)
  /\ stage' = [stage EXCEPT ![j] = "processing"]
  /\ UNCHANGED <<deliveryVars, reactionVars, dedupeVars, restarts>>

StartReply(j) ==
  /\ stage[j] = "processing" /\ EmojiSet(j)
  /\ D!Begin(j)
  /\ stage' = [stage EXCEPT ![j] = "replying"]
  /\ UNCHANGED <<reactionVars, dedupeVars, restarts>>

Reply(j) ==
  /\ stage[j] = "replying"
  /\ D!Work(j)
  /\ UNCHANGED <<reactionVars, dedupeVars, stage, restarts>>

StreamReply(j) ==
  /\ stage[j] = "replying"
  /\ D!Stream(j)
  /\ UNCHANGED <<reactionVars, dedupeVars, stage, restarts>>

(* What the mutants of Replied share. *)
RepliedTo(j, next) ==
  /\ stage' = [stage EXCEPT ![j] = next]
  /\ UNCHANGED <<deliveryVars, reactionVars, dedupeVars, restarts>>

(* Mutant of Replied: the done emoji does not wait for the reply. *)
RepliedEarly(j) == stage[j] = "replying" /\ RepliedTo(j, "done")

(* Mutant of Replied: the failure itself becomes the stage. *)
RepliedAs(j) ==
  /\ stage[j] = "replying" /\ phase[j] \in {"sent", "failed"}
  /\ RepliedTo(j, phase[j])

(* Only a delivered reply leads on to the done emoji. *)
Replied(j) ==
  /\ stage[j] = "replying" /\ phase[j] \in {"sent", "failed"}
  /\ stage' = [stage EXCEPT ![j] = IF phase[j] = "sent" THEN "done" ELSE "ended"]
  /\ UNCHANGED <<deliveryVars, reactionVars, dedupeVars, restarts>>

Finish(j) ==
  /\ stage[j] = "done" /\ EmojiSet(j)
  /\ stage' = [stage EXCEPT ![j] = "ended"]
  /\ UNCHANGED <<deliveryVars, reactionVars, dedupeVars, restarts>>

Deadline(j) ==
  /\ Running(j)
  /\ D!Expire(j)
  /\ UNCHANGED <<reactionVars, dedupeVars, stage, restarts>>

(* The process stops and starts again: jobs, the reaction map and a memory *)
(* deduper are gone, redis marks and what users see are not.               *)
Restart ==
  /\ restarts < MaxRestarts
  /\ restarts' = restarts + 1
  /\ D!Crash /\ R!Restart
  /\ stage' = [j \in Jobs |-> IF Running(j) THEN "died" ELSE stage[j]]
  /\ store' \in Available
  /\ marked' = [marked EXCEPT !["memory"] = {}]
  /\ excused' = excused \cup (marked[store] \ marked'[store'])
  /\ UNCHANGED <<dedupeStore, deliveries, swallowed>>

Job(j) ==
  SetEmoji(j) \/ Process(j) \/ StartReply(j) \/ Reply(j) \/ Replied(j) \/ Finish(j)

Next ==
  \/ \E m \in Messages :
       \/ \E answer \in {"new", "dup", "error"} : Deliver(m, answer)
       \/ \E s \in Stores : Forget(s, m)
  \/ \E j \in Jobs : Job(j) \/ StreamReply(j) \/ Deadline(j)
  \/ Restart

(* A goroutine runs on: every call it makes returns, at the latest when    *)
(* its context expires. Deliveries, expiry and restarts are not owed.      *)
Spec == Init /\ [][Next]_vars
FairSpec == Spec /\ \A j \in Jobs : WF_vars(Job(j))

-----------------------------------------------------------------------------
(* A message whose mark the deduper kept is worked on once, however often  *)
(* and at whatever moment its event is repeated.                           *)
OneJobPerMessage ==
  \A m \in Messages \ excused : Cardinality(Started(m)) <= 1

(* When the only job of a message has ended and its emoji never slipped,   *)
(* no emoji is left that tells another story: done for a reply that was    *)
(* delivered, an earlier one for a reply that was not.                     *)
EmojiTellsOutcome ==
  \A m \in Messages \ slipped : \A j \in Started(m) :
    Started(m) = {j} /\ stage[j] = "ended" =>
      \A r \in R!On(m) : (r[2] = 3) <=> (phase[j] = "sent" /\ 3 \in Emojis)

(* What ReplyDelivery promises of each job holds within the bot too.       *)
SentIsShown == D!SentIsShown
FailedIsUnsaid == D!FailedIsUnsaid
AnswerShownOnce == D!AnswerShownOnce

(* A delivered event leads to a reply, unless the process died under it,   *)
(* Feishu refused the reply or redis took its first delivery for a repeat: *)
(* no order of duplicates drops it.                                        *)
Answered(m) == \E j \in Started(m) : phase[j] = "sent"
Refused(m) == \E j \in Started(m) : phase[j] = "failed" \/ stage[j] = "died"
EventuallyAnswered ==
  \A m \in Messages : deliveries[m] > 0 ~> Answered(m) \/ Refused(m) \/ m \in swallowed

(* The abstract service: how a message fared, told from the first job that *)
(* was started for it. A job that ended otherwise than it reported would   *)
(* be "broken", which the service does not know.                           *)
Visible(j) == final[j] \in {card[j], post[j]}

Fared(j) ==
  CASE phase[j] = "sent" -> IF Visible(j) THEN "answered" ELSE "broken"
    [] phase[j] = "failed" -> IF Visible(j) THEN "broken" ELSE "refused"
    [] phase[j] = "gone" \/ (phase[j] = "idle" /\ stage[j] = "died") -> "abandoned"
    [] OTHER -> "taken"

Outcome(m) ==
  IF m \in excused \/ (\E j \in Started(m) : lost[j]) THEN "waived"
  ELSE IF Started(m) = {} THEN "unseen"
  ELSE Fared(CHOOSE j \in Started(m) : TRUE)

Service == INSTANCE AnswerService WITH
  outcome <- [m \in Messages |-> Outcome(m)],
  done <- {m \in Messages : \E r \in R!On(m) : r[2] = 3}

(* However deliveries, deadlines, failing calls and restarts interleave,   *)
(* the bot keeps the promise of AnswerService.                             *)
KeepsPromise == Service!Spec
=============================================================================
