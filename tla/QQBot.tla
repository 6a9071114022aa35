------------------------------- MODULE QQBot -------------------------------
(***************************************************************************)
(* internal/qqbot/bot.go: the QQ webhook. Unlike the Feishu bot's, its     *)
(* request does all the work before it answers: it asks the deduper,       *)
(* the orchestrator and the QQ server under the request's own context,     *)
(* which ends when the platform hangs up. A request that is answered 502,  *)
(* or not at all, is sent again; by then its id is marked.                 *)
(***************************************************************************)
EXTENDS Naturals, FiniteSets

CONSTANTS
  Messages,
  Blanks,         \* messages without text, once mentions are taken out
  EventIds,       \* ids of callback payloads; NoId when absent
  NoId,
  MaxDeliveries,  \* bound: how often one message is delivered
  MaxRestarts     \* bound: how often the process restarts

ASSUME BoundsAssumption == MaxDeliveries \in Nat /\ MaxRestarts \in Nat
ASSUME BlanksAssumption == Blanks \subseteq Messages

(* The webhook request of the n-th delivery of message m. *)
Requests == Messages \X (1..MaxDeliveries)

(* dedupeKey *)
Key(m, event) == <<event, m>>
Keys == {Key(m, event) : m \in Messages, event \in EventIds \cup {NoId}}

VARIABLES
  dedupeStore, \* DEDUPE_STORE
  store,       \* the deduper in use
  marked,      \* keys each deduper knows
  deliveries,  \* how often each message was delivered
  event,       \* the payload id of each request
  stage,       \* where each request is in handleDispatch
  code,        \* what it answered
  hungUp,      \* its context is done
  shown,       \* requests whose reply is on the user's screen
  restarts,
  excused,     \* history: messages the deduper failed on, forgot or lost
  swallowed,   \* history: messages redis called duplicates when they were new
  lost         \* history: requests whose reply took effect and was reported failed

storeVars == <<dedupeStore, store>>
screenVars == <<shown, lost>>
vars == <<storeVars, marked, deliveries, event, stage, code, hungUp,
          screenVars, restarts, excused, swallowed>>

AtWork == {"handling", "replying"}

Stores == {"redis", "memory"}

(* setupDeduper: a redis that cannot be reached at the start is not used.  *)
Available == {dedupeStore, "memory"}

Init ==
  /\ dedupeStore \in Stores /\ store \in Available
  /\ marked = [s \in Stores |-> {}] /\ excused = {} /\ swallowed = {}
  /\ deliveries = [m \in Messages |-> 0]
  /\ event = [r \in Requests |-> NoId]
  /\ stage = [r \in Requests |-> "none"]
  /\ code = [r \in Requests |-> "none"]
  /\ hungUp = {} /\ shown = {} /\ lost = {}
  /\ restarts = 0

(* The requests of m so far. *)
Began(m) == {r \in Requests : r[1] = m /\ r[2] <= deliveries[m]}

-----------------------------------------------------------------------------
(* An event that is no message, or has no text, is acknowledged at once. *)
Ignore(m) ==
  /\ m \in Blanks /\ deliveries[m] < MaxDeliveries
  /\ deliveries' = [deliveries EXCEPT ![m] = @ + 1]
  /\ LET r == <<m, deliveries'[m]>>
     IN  /\ stage' = [stage EXCEPT ![r] = "ended"]
         /\ code' = [code EXCEPT ![r] = "ack"]
  /\ UNCHANGED <<storeVars, marked, event, hungUp, restarts, excused,
                 swallowed, screenVars>>

Marked(key) == [marked EXCEPT ![store] = @ \cup {key}]

(* Mutant of Deliver: the key is looked up but not marked. *)
DeliverUnmarked(m, e, answer) ==
  /\ m \notin Blanks /\ deliveries[m] < MaxDeliveries
  /\ answer = "new" => Key(m, e) \notin marked[store]
  /\ answer = "dup" => Key(m, e) \in marked[store]
  /\ answer = "error" => store = "redis"
  /\ deliveries' = [deliveries EXCEPT ![m] = @ + 1]
  /\ excused' = IF answer = "error" \/ \E r \in Began(m) : event[r] # e
                THEN excused \cup {m} ELSE excused
  /\ LET r == <<m, deliveries'[m]>>
     IN  /\ event' = [event EXCEPT ![r] = e]
         /\ stage' = [stage EXCEPT ![r] = IF answer = "dup" THEN "ended" ELSE "handling"]
         /\ code' = [code EXCEPT ![r] = IF answer = "dup" THEN "ack" ELSE "none"]
  /\ UNCHANGED <<storeVars, marked, hungUp, restarts, swallowed, screenVars>>

(* handleDispatch up to Mark. A failed Mark may have stored the key; the   *)
(* message is handled as if it were new. The redis client sends a SET NX   *)
(* again whose answer was lost, and then finds its own mark.               *)
Deliver(m, e, answer) ==
  /\ m \notin Blanks /\ deliveries[m] < MaxDeliveries
  /\ answer = "new" => Key(m, e) \notin marked[store]
  /\ answer = "dup" => Key(m, e) \in marked[store] \/ store = "redis"
  /\ answer = "error" => store = "redis"
  /\ deliveries' = [deliveries EXCEPT ![m] = @ + 1]
  /\ marked' \in IF answer = "error" THEN {marked, Marked(Key(m, e))}
                ELSE {Marked(Key(m, e))}
  /\ swallowed' = IF answer = "dup" /\ Key(m, e) \notin marked[store]
                  THEN swallowed \cup {m} ELSE swallowed
  /\ excused' = IF \/ answer = "error" \/ swallowed' # swallowed
                   \/ \E r \in Began(m) : event[r] # e
                THEN excused \cup {m} ELSE excused
  /\ LET r == <<m, deliveries'[m]>>
     IN  /\ event' = [event EXCEPT ![r] = e]
         /\ stage' = [stage EXCEPT ![r] = IF answer = "dup" THEN "ended" ELSE "handling"]
         /\ code' = [code EXCEPT ![r] = IF answer = "dup" THEN "ack" ELSE "none"]
  /\ UNCHANGED <<storeVars, hungUp, restarts, screenVars>>

Forget(s, k) ==
  /\ k \in marked[s]
  /\ marked' = [marked EXCEPT ![s] = @ \ {k}]
  /\ excused' = excused \cup {k[2]}
  /\ UNCHANGED <<storeVars, deliveries, event, stage, code, hungUp, restarts,
                 swallowed, screenVars>>

(* The platform stops waiting for the answer. *)
HangUp(r) ==
  /\ stage[r] \in AtWork /\ r \notin hungUp
  /\ hungUp' = hungUp \cup {r}
  /\ UNCHANGED <<storeVars, marked, deliveries, event, stage, code, restarts,
                 excused, swallowed, screenVars>>

(* Mutant of Handle: a request whose context is done is left alone. *)
HandleUnlessHungUp(r) ==
  /\ stage[r] = "handling" /\ r \notin hungUp
  /\ stage' = [stage EXCEPT ![r] = "replying"]
  /\ UNCHANGED <<storeVars, marked, deliveries, event, code, hungUp,
                 restarts, excused, swallowed, screenVars>>

(* orchestrator.Handle returns an answer, or an error and the apology      *)
(* takes its place: either way there is something to say.                  *)
Handle(r) ==
  /\ stage[r] = "handling"
  /\ stage' = [stage EXCEPT ![r] = "replying"]
  /\ UNCHANGED <<storeVars, marked, deliveries, event, code, hungUp,
                 restarts, excused, swallowed, screenVars>>

Outcomes(r) == IF r \in hungUp THEN {"failed"} ELSE {"ok", "failed", "lost"}

(* What the mutants of Reply share. *)
ReplyWith(r, o, answer) ==
  /\ stage[r] = "replying" /\ o \in Outcomes(r)
  /\ shown' = IF o = "failed" THEN shown ELSE shown \cup {r}
  /\ lost' = IF o = "lost" THEN lost \cup {r} ELSE lost
  /\ stage' = [stage EXCEPT ![r] = "ended"]
  /\ code' = [code EXCEPT ![r] = answer]
  /\ UNCHANGED <<storeVars, marked, deliveries, event, hungUp, restarts,
                 excused, swallowed>>

(* Mutant of Reply: a reply that failed is logged and acknowledged. *)
ReplyAcknowledged(r, o) == ReplyWith(r, o, "ack")

(* accessToken and the request to the QQ server. *)
Reply(r, o) ==
  /\ stage[r] = "replying" /\ o \in Outcomes(r)
  /\ shown' = IF o = "failed" THEN shown ELSE shown \cup {r}
  /\ lost' = IF o = "lost" THEN lost \cup {r} ELSE lost
  /\ stage' = [stage EXCEPT ![r] = "ended"]
  /\ code' = [code EXCEPT ![r] = IF o = "ok" THEN "ack" ELSE "bad gateway"]
  /\ UNCHANGED <<storeVars, marked, deliveries, event, hungUp, restarts,
                 excused, swallowed>>

(* Shutdown waits five seconds for requests, less than an answer takes. *)
Restart ==
  /\ restarts < MaxRestarts
  /\ restarts' = restarts + 1
  /\ stage' = [r \in Requests |-> IF stage[r] \in AtWork THEN "died" ELSE stage[r]]
  /\ store' \in Available
  /\ marked' = [marked EXCEPT !["memory"] = {}]
  /\ excused' = excused \cup {k[2] : k \in marked[store] \ marked'[store']}
  /\ UNCHANGED <<dedupeStore, deliveries, event, code, hungUp, swallowed, screenVars>>

Work(r) == Handle(r) \/ \E o \in Outcomes(r) : Reply(r, o)

Next ==
  \/ \E m \in Messages :
       \/ Ignore(m)
       \/ \E e \in EventIds \cup {NoId}, answer \in {"new", "dup", "error"} :
            Deliver(m, e, answer)
  \/ \E s \in Stores, k \in Keys : Forget(s, k)
  \/ \E r \in Requests : HangUp(r) \/ Work(r)
  \/ Restart

(* The orchestrator and the HTTP client return, at the latest by their     *)
(* timeouts. Deliveries, hang-ups and restarts are not owed.               *)
Spec == Init /\ [][Next]_vars
FairSpec == Spec /\ \A r \in Requests : WF_vars(Work(r))
-----------------------------------------------------------------------------
(* A repeat of an event whose key the deduper kept never shows a second    *)
(* reply, even while the first request is still at work.                   *)
AnsweredOnce ==
  \A m \in Messages \ excused : Cardinality(shown \cap Began(m)) <= 1

(* The platform is told 200 of every delivery of a message only if the     *)
(* message was answered: an acknowledged repeat of an unanswered message   *)
(* has a 502 or a dead request before it. Redis may take the first for a   *)
(* repeat.                                                                 *)
AcknowledgedMeansAnswered ==
  \A m \in Messages \ (Blanks \cup swallowed) :
    Began(m) # {} /\ (\A r \in Began(m) : code[r] = "ack") =>
      shown \cap Began(m) # {}

(* A delivered message with text is answered, or the platform learns that  *)
(* it was not, or the process died under it, or redis took it for a repeat.*)
EventuallyAnswered ==
  \A m \in Messages \ Blanks :
    deliveries[m] > 0 ~>
      \/ m \in swallowed
      \/ \E r \in Began(m) : r \in shown \/ code[r] = "bad gateway" \/ stage[r] = "died"

(* How a message fared, told from its first request, for AnswerService.    *)
Fared(r) ==
  CASE stage[r] \in AtWork -> "taken"
    [] stage[r] = "died" -> "abandoned"
    [] stage[r] = "ended" /\ code[r] = "ack" ->
         IF r \in shown THEN "answered" ELSE "broken"
    [] OTHER -> IF r \in shown THEN "broken" ELSE "refused"

Outcome(m) ==
  IF m \in excused \/ Began(m) \cap lost # {} THEN "waived"
  ELSE IF m \in Blanks \/ Began(m) = {} THEN "unseen"
  ELSE Fared(<<m, 1>>)

Service == INSTANCE AnswerService WITH
  outcome <- [m \in Messages |-> Outcome(m)], done <- {}

(* The QQ bot keeps the same promise as the Feishu bot, with no emoji.     *)
KeepsPromise == Service!Spec
=============================================================================
