--------------------------- MODULE FeishuBotProofs ---------------------------
(* Proofs about FeishuBot, for any messages, texts, emojis and bounds. The  *)
(* bot's steps are steps of ReplyDelivery and of ReactionStates or leave   *)
(* them alone, so what is proved of them holds of the bot.                 *)
EXTENDS FeishuBot, FiniteSetTheorems, TLAPS

RP == INSTANCE ReactionStatesProofs

-----------------------------------------------------------------------------
(* The delivery of a reply, by itself. *)
LEMMA DeliveryTypeInit == D!Init => D!TypeOK
  BY DEF D!Init, D!TypeOK, D!Phases, D!Ended

(* Every step keeps the variables in their types. *)
LEMMA DeliveryTypeStep == D!TypeOK /\ [D!Next]_(D!vars) => D!TypeOK'
<1> SUFFICES ASSUME D!TypeOK, [D!Next]_(D!vars) PROVE D!TypeOK'
  OBVIOUS
<1> USE TextAssumption DEF D!TypeOK, D!Phases, D!Ended, D!config, D!local, D!screen
<1>1. ASSUME NEW j \in Jobs, D!Begin(j) PROVE D!TypeOK'
  BY <1>1 DEF D!Begin
<1>2. ASSUME NEW j \in Jobs, NEW o, D!Open(j, o) PROVE D!TypeOK'
  BY <1>2 DEF D!Open, D!Shows, D!Remember
<1>3. ASSUME NEW j \in Jobs, NEW o, D!Settle(j, o) PROVE D!TypeOK'
  BY <1>3 DEF D!Settle, D!Shows, D!Remember
<1>4. ASSUME NEW j \in Jobs, NEW o, D!Post(j, o) PROVE D!TypeOK'
  BY <1>4 DEF D!Post, D!Shows, D!Remember
<1>5. ASSUME NEW j \in Jobs, NEW t \in Texts, D!Answer(j, t) PROVE D!TypeOK'
  BY <1>5 DEF D!Answer
<1>6. ASSUME NEW j \in Jobs, D!Apologise(j) PROVE D!TypeOK'
  BY <1>6 DEF D!Apologise
<1>7. ASSUME NEW j \in Jobs, NEW t \in Texts, D!Hold(j, t) PROVE D!TypeOK'
  BY <1>7 DEF D!Hold
<1>8. ASSUME NEW j \in Jobs, NEW t \in Texts, NEW done \in BOOLEAN, NEW o,
             D!Push(j, t, done, o)
      PROVE D!TypeOK'
  BY <1>8 DEF D!Push, D!Shows, D!Remember
<1>9. ASSUME NEW j \in Jobs, D!Expire(j) PROVE D!TypeOK'
  BY <1>9 DEF D!Expire
<1>10. CASE D!Crash
  BY <1>10 DEF D!Crash
<1>11. CASE UNCHANGED D!vars
  BY <1>11 DEF D!vars
<1> QED
  BY <1>1, <1>2, <1>3, <1>4, <1>5, <1>6, <1>7, <1>8, <1>9, <1>10, <1>11
    DEF D!Next, D!Work, D!Stream

(* What a job knows of the screen at each phase, as long as no response      *)
(* was lost. A reply is only posted when the placeholder does not show the *)
(* final text, and before the end nothing has been posted.                 *)
Knows(j) ==
  /\ phase[j] # "sent" /\ delivered[j] # NoText => card[j] = delivered[j]
  /\ phase[j] # "sent" /\ delivered[j] = NoText => card[j] \in {Placeholder, NoText}
  /\ phase[j] \notin {"sent", "failed", "gone"} => post[j] = NoText
  /\ phase[j] = "posting" => final[j] \in Texts /\ final[j] # delivered[j]
  /\ phase[j] = "settling" => final[j] \in Texts
  /\ phase[j] = "sent" => final[j] \in {card[j], post[j]}
  /\ phase[j] = "failed" => final[j] \in Texts /\ final[j] # delivered[j]
                            /\ post[j] = NoText
  /\ post[j] # NoText => card[j] # post[j]
  /\ ~handle[j] => delivered[j] = NoText
  /\ phase[j] \in {"idle", "opening"} => ~handle[j]
  /\ handle[j] \/ phase[j] = "opening" => stream

DeliveryInv == D!TypeOK /\ \A j \in Jobs : ~lost[j] => Knows(j)

LEMMA DeliveryInvInit == D!Init => DeliveryInv
  BY DeliveryTypeInit DEF D!Init, DeliveryInv, Knows

LEMMA DeliveryInvStep == DeliveryInv /\ [D!Next]_(D!vars) => DeliveryInv'
<1> SUFFICES ASSUME DeliveryInv, [D!Next]_(D!vars), NEW i \in Jobs, ~lost'[i]
             PROVE  Knows(i)'
  BY DeliveryTypeStep DEF DeliveryInv
<1> USE TextAssumption DEF D!TypeOK, D!Phases, D!Ended, D!config, D!local, D!screen
<1>0. D!TypeOK /\ (~lost[i] => Knows(i))
  BY DEF DeliveryInv
<1>1. ASSUME NEW j \in Jobs, D!Begin(j) PROVE Knows(i)'
  BY <1>0, <1>1 DEF D!Begin, Knows
<1>2. ASSUME NEW j \in Jobs, NEW o, D!Open(j, o) PROVE Knows(i)'
  BY <1>0, <1>2 DEF D!Open, D!Shows, D!Remember, D!Effective, Knows
<1>3. ASSUME NEW j \in Jobs, NEW o, D!Settle(j, o) PROVE Knows(i)'
  BY <1>0, <1>3 DEF D!Settle, D!Shows, D!Remember, D!Effective, D!Reported, D!Outcomes, Knows
<1>4. ASSUME NEW j \in Jobs, NEW o, D!Post(j, o) PROVE Knows(i)'
  BY <1>0, <1>4 DEF D!Post, D!Shows, D!Remember, D!Effective, D!Reported, D!Outcomes, Knows
<1>5. ASSUME NEW j \in Jobs, NEW t \in Texts, D!Answer(j, t) PROVE Knows(i)'
  BY <1>0, <1>5 DEF D!Answer, Knows
<1>6. ASSUME NEW j \in Jobs, D!Apologise(j) PROVE Knows(i)'
  BY <1>0, <1>6 DEF D!Apologise, Knows
<1>7. ASSUME NEW j \in Jobs, NEW t \in Texts, D!Hold(j, t) PROVE Knows(i)'
  BY <1>0, <1>7 DEF D!Hold, Knows
<1>8. ASSUME NEW j \in Jobs, NEW t \in Texts, NEW done \in BOOLEAN, NEW o,
             D!Push(j, t, done, o)
      PROVE Knows(i)'
  BY <1>0, <1>8 DEF D!Push, D!Shows, D!Remember, D!Effective, D!Reported, D!Outcomes, Knows
<1>9. ASSUME NEW j \in Jobs, D!Expire(j) PROVE Knows(i)'
  BY <1>0, <1>9 DEF D!Expire, Knows
<1>10. CASE D!Crash
  BY <1>0, <1>10 DEF D!Crash, Knows
<1>11. CASE UNCHANGED D!vars
  BY <1>0, <1>11 DEF D!vars, Knows
<1> QED
  BY <1>1, <1>2, <1>3, <1>4, <1>5, <1>6, <1>7, <1>8, <1>9, <1>10, <1>11
    DEF D!Next, D!Work, D!Stream

-----------------------------------------------------------------------------
(* Every step of the bot is one of ReplyDelivery or none. *)
LEMMA DeliverySteps == [Next]_vars => [D!Next]_(D!vars)
<1> SUFFICES ASSUME [Next]_vars PROVE D!Next \/ UNCHANGED D!vars
  OBVIOUS
<1> USE DEF deliveryVars
<1>0. UNCHANGED deliveryVars => UNCHANGED D!vars
  BY DEF D!vars, D!config, D!local, D!screen
<1>1. ASSUME NEW m \in Messages, NEW answer, Deliver(m, answer)
      PROVE  UNCHANGED deliveryVars
  BY <1>1 DEF Deliver
<1>2. ASSUME NEW m \in Messages, NEW s, Forget(s, m) PROVE UNCHANGED deliveryVars
  BY <1>2 DEF Forget
<1>3. ASSUME NEW j \in Jobs, Job(j) PROVE UNCHANGED deliveryVars \/ D!Next
  <2>1. CASE SetEmoji(j) \/ Process(j) \/ Replied(j) \/ Finish(j)
    BY <2>1 DEF SetEmoji, Process, Replied, Finish
  <2>2. CASE StartReply(j)
    BY <2>2 DEF StartReply, D!Next, D!Work
  <2>3. CASE Reply(j)
    BY <2>3 DEF Reply, D!Next
  <2> QED
    BY <1>3, <2>1, <2>2, <2>3 DEF Job
<1>4. ASSUME NEW j \in Jobs, StreamReply(j) \/ Deadline(j) PROVE D!Next
  BY <1>4 DEF StreamReply, Deadline, D!Next
<1>5. CASE Restart
  BY <1>5 DEF Restart, D!Next
<1>6. CASE UNCHANGED vars
  BY <1>0, <1>6 DEF vars
<1> QED
  BY <1>0, <1>1, <1>2, <1>3, <1>4, <1>5, <1>6 DEF Next

LEMMA DeliveryInit == Init => DeliveryInv
  BY TextAssumption, DeliveryInvInit DEF Init, D!Init, D!Init

LEMMA DeliveryStep == DeliveryInv /\ [Next]_vars => DeliveryInv'
  BY TextAssumption, DeliveryInvStep, DeliverySteps

LEMMA DeliveryAlways == Spec => []DeliveryInv
  BY DeliveryInit, DeliveryStep, PTL DEF Spec

(* Within the bot too, with its deadlines and restarts, a job that ends    *)
(* well and marks its message done has shown its final text.               *)
THEOREM SentTextIsShown == Spec => []SentIsShown
<1>1. DeliveryInv => SentIsShown
  BY DEF DeliveryInv, Knows, SentIsShown, D!SentIsShown
<1> QED
  BY <1>1, DeliveryAlways, PTL

(* Within the bot too a job that reports a failure has left its final text *)
(* unsaid.                                                                 *)
THEOREM FailedTextIsUnsaid == Spec => []FailedIsUnsaid
<1>1. DeliveryInv => FailedIsUnsaid
  BY TextAssumption
    DEF DeliveryInv, Knows, FailedIsUnsaid, D!FailedIsUnsaid, D!TypeOK, D!Phases, D!Ended
<1> QED
  BY <1>1, DeliveryAlways, PTL

(* Within the bot too the fallback reply never doubles the placeholder's.  *)
THEOREM NoAnswerTwice == Spec => []AnswerShownOnce
<1>1. DeliveryInv => AnswerShownOnce
  BY DEF DeliveryInv, Knows, AnswerShownOnce, D!AnswerShownOnce
<1> QED
  BY <1>1, DeliveryAlways, PTL

-----------------------------------------------------------------------------
LEMMA ReactionConstants ==
  /\ MessageOf \in [Jobs -> Messages]
  /\ Emojis \subseteq 1..3
  /\ NoReaction \notin Jobs \X Emojis
  BY EmojisAssumption DEF MessageOf, Jobs

LEMMA SameRestart == R!Restart => RP!Restart
  BY DEF R!Restart, RP!Restart

LEMMA SameReactions ==
  ASSUME NEW j \in Jobs
  PROVE  /\ \A e : R!Enter(j, e) => RP!Enter(j, e)
         /\ R!Look(j) => RP!Look(j)
         /\ \A o : R!Remove(j, o) => RP!Remove(j, o)
         /\ \A o : R!Add(j, o) => RP!Add(j, o)
  BY DEF R!Enter, RP!Enter, R!Look, RP!Look, R!Remove, RP!Remove, R!Add, RP!Add,
         R!Slip, RP!Slip, R!Busy, RP!Busy

(* Every step of the bot is one of ReactionStates or none. *)
LEMMA ReactionSteps == [Next]_vars => [RP!Next]_(RP!vars)
<1> SUFFICES ASSUME [Next]_vars PROVE RP!Next \/ UNCHANGED RP!vars
  OBVIOUS
<1> USE DEF reactionVars
<1>0. UNCHANGED reactionVars => UNCHANGED RP!vars
  BY DEF RP!vars
<1>1. ASSUME NEW m \in Messages, NEW answer, Deliver(m, answer)
      PROVE  UNCHANGED reactionVars
  BY <1>1 DEF Deliver
<1>2. ASSUME NEW m \in Messages, NEW s, Forget(s, m) PROVE UNCHANGED reactionVars
  BY <1>2 DEF Forget
<1>3. ASSUME NEW j \in Jobs, SetEmoji(j) PROVE RP!Next
  <2>1. D!Outcomes(j) \subseteq {"ok", "noid", "failed", "lost"}
    BY DEF D!Outcomes
  <2>2. RP!Move(j)
    BY <1>3, <2>1, SameReactions DEF SetEmoji, RP!Move
  <2> QED
    BY <2>2 DEF RP!Next
<1>4. ASSUME NEW j \in Jobs,
             Process(j) \/ StartReply(j) \/ Reply(j) \/ Replied(j) \/ Finish(j)
                        \/ StreamReply(j) \/ Deadline(j)
      PROVE  UNCHANGED reactionVars
  BY <1>4 DEF Process, StartReply, Reply, Replied, Finish, StreamReply, Deadline
<1>5. CASE Restart
  BY <1>5, SameRestart DEF Restart, RP!Next
<1>6. CASE UNCHANGED vars
  BY <1>0, <1>6 DEF vars
<1> QED
  BY <1>0, <1>1, <1>2, <1>3, <1>4, <1>5, <1>6 DEF Next, Job

LEMMA ReactionInit == Init => RP!Inv
  BY ReactionConstants, RP!InvInit DEF Init, R!Init, RP!Init

LEMMA ReactionStep == RP!Inv /\ [Next]_vars => RP!Inv'
  BY ReactionConstants, RP!InvStep, ReactionSteps

LEMMA ReactionAlways == Spec => []RP!Inv
  BY ReactionInit, ReactionStep, PTL DEF Spec

-----------------------------------------------------------------------------
(* The types of this module's own variables. *)
OwnTypes ==
  /\ dedupeStore \in Stores /\ store \in Stores
  /\ marked \in [Stores -> SUBSET Messages]
  /\ excused \subseteq Messages /\ swallowed \subseteq Messages
  /\ deliveries \in [Messages -> 0..MaxDeliveries]
  /\ stage \in [Jobs -> Stages]
  /\ restarts \in 0..MaxRestarts

LEMMA OwnTypesInit == Init => OwnTypes
  BY BoundsAssumption DEF Init, OwnTypes, Available, Stores, Stages

LEMMA OwnTypesStep == OwnTypes /\ [Next]_vars => OwnTypes'
<1> SUFFICES ASSUME OwnTypes, [Next]_vars PROVE OwnTypes'
  OBVIOUS
<1> USE BoundsAssumption DEF OwnTypes, Stores, Stages, storeVars, historyVars, dedupeVars
<1>1. ASSUME NEW m \in Messages, NEW answer, Deliver(m, answer) PROVE OwnTypes'
  <2>1. marked' \in [Stores -> SUBSET Messages]
    BY <1>1 DEF Deliver, Marked
  <2>2. deliveries' \in [Messages -> 0..MaxDeliveries]
    BY <1>1 DEF Deliver
  <2>3. excused' \subseteq Messages /\ swallowed' \subseteq Messages
    BY <1>1 DEF Deliver
  <2>4. stage' \in [Jobs -> Stages]
    BY <1>1 DEF Deliver
  <2> QED
    BY <1>1, <2>1, <2>2, <2>3, <2>4 DEF Deliver
<1>2. ASSUME NEW m \in Messages, NEW s \in Stores, Forget(s, m) PROVE OwnTypes'
  BY <1>2 DEF Forget
<1>3. ASSUME NEW j \in Jobs, Job(j) PROVE OwnTypes'
  BY <1>3 DEF Job, SetEmoji, Process, StartReply, Reply, Replied, Finish
<1>4. ASSUME NEW j \in Jobs, StreamReply(j) \/ Deadline(j) PROVE OwnTypes'
  BY <1>4 DEF StreamReply, Deadline
<1>5. CASE Restart
  BY <1>5 DEF Restart, Available
<1>6. CASE UNCHANGED vars
  BY <1>6 DEF vars
<1> QED
  BY <1>1, <1>2, <1>3, <1>4, <1>5, <1>6 DEF Next

LEMMA OwnTypesAlways == Spec => []OwnTypes
  BY OwnTypesInit, OwnTypesStep, PTL DEF Spec

(* The variables always have their types. *)
THEOREM TypeCorrect == Spec => []TypeOK
<1>1. DeliveryInv => D!TypeOK
  BY DEF DeliveryInv
<1>2. RP!Inv => R!TypeOK
  BY DEF RP!Inv, RP!TypeOK, R!TypeOK, RP!Reactions, R!Reactions
<1>3. D!TypeOK /\ R!TypeOK /\ OwnTypes => TypeOK
  BY DEF OwnTypes, TypeOK
<1> QED
  BY <1>1, <1>2, <1>3, DeliveryAlways, ReactionAlways, OwnTypesAlways, PTL

-----------------------------------------------------------------------------
(* A message that was started is marked, and started once, unless the      *)
(* deduper failed on it or forgot it.                                      *)
StartedOnce ==
  \A m \in Messages \ excused :
    /\ Started(m) # {} => m \in marked[store]
    /\ \A i, j \in Started(m) : i = j

LEMMA StartedOnceInit == Init => StartedOnce
  BY DEF Init, StartedOnce, Started

LEMMA StartedOnceStep == OwnTypes /\ StartedOnce /\ [Next]_vars => StartedOnce'
<1> SUFFICES ASSUME OwnTypes, StartedOnce, [Next]_vars,
                    NEW m \in Messages, m \notin excused'
             PROVE  /\ Started(m)' # {} => m \in marked'[store']
                    /\ \A i, j \in Started(m)' : i = j
  BY DEF StartedOnce
<1> USE DEF OwnTypes, Stores, Stages, storeVars, historyVars, dedupeVars
<1>0. m \notin excused =>
        /\ Started(m) # {} => m \in marked[store]
        /\ \A i, j \in Started(m) : i = j
  BY DEF StartedOnce
<1>1. ASSUME NEW n \in Messages, NEW answer \in {"new", "dup", "error"}, Deliver(n, answer)
      PROVE  /\ Started(m)' # {} => m \in marked'[store']
             /\ \A i, j \in Started(m)' : i = j
  <2>1. m \notin excused /\ store' = store
    BY <1>1 DEF Deliver
  <2>2. m \in marked[store] => m \in marked'[store]
    BY <1>1 DEF Deliver, Marked
  <2>3. CASE answer = "new" /\ n = m
    <3>1. Started(m) = {} /\ m \in marked'[store]
      BY <1>0, <1>1, <2>1, <2>3 DEF Deliver, Marked
    <3>2. Started(m)' \subseteq {<<m, deliveries[m] + 1>>}
      BY <1>1, <2>3, <3>1 DEF Deliver, Started
    <3> QED
      BY <2>1, <3>1, <3>2
  <2>4. CASE answer # "new" \/ n # m
    <3>1. Started(m)' = Started(m)
      BY <1>1, <2>1, <2>4 DEF Deliver, Started
    <3> QED
      BY <1>0, <2>1, <2>2, <3>1
  <2> QED
    BY <2>3, <2>4
<1>2. ASSUME NEW n \in Messages, NEW s \in Stores, Forget(s, n)
      PROVE  /\ Started(m)' # {} => m \in marked'[store']
             /\ \A i, j \in Started(m)' : i = j
  <2>1. m # n /\ m \notin excused /\ store' = store /\ Started(m)' = Started(m)
    BY <1>2 DEF Forget, Started
  <2>2. m \in marked[store] => m \in marked'[store]
    BY <1>2, <2>1 DEF Forget
  <2> QED
    BY <1>0, <2>1, <2>2
<1>3. ASSUME NEW j \in Jobs, Job(j) \/ StreamReply(j) \/ Deadline(j)
      PROVE  /\ Started(m)' # {} => m \in marked'[store']
             /\ \A i, k \in Started(m)' : i = k
  <2>1. UNCHANGED <<store, marked, excused>>
    BY <1>3 DEF Job, SetEmoji, Process, StartReply, Reply, Replied, Finish,
                StreamReply, Deadline
  <2>2. \A i \in Jobs : stage'[i] # "none" <=> stage[i] # "none"
    BY <1>3 DEF Job, SetEmoji, EmojiAt, Process, StartReply, Reply, Replied, Finish,
                StreamReply, Deadline
  <2>3. Started(m)' = Started(m)
    BY <2>2 DEF Started
  <2> QED
    BY <1>0, <2>1, <2>3
<1>4. CASE Restart
  <2>1. m \notin excused /\ (m \in marked[store] => m \in marked'[store'])
    BY <1>4 DEF Restart
  <2>2. \A i \in Jobs : stage'[i] # "none" <=> stage[i] # "none"
    BY <1>4 DEF Restart, Running
  <2>3. Started(m)' = Started(m)
    BY <2>2 DEF Started
  <2> QED
    BY <1>0, <2>1, <2>3
<1>5. CASE UNCHANGED vars
  BY <1>0, <1>5 DEF vars, Started
<1> QED
  BY <1>1, <1>2, <1>3, <1>4, <1>5 DEF Next

(* A message whose mark the deduper kept is worked on once.                *)
THEOREM OneJob == Spec => []OneJobPerMessage
<1>1. StartedOnce => OneJobPerMessage
  <2> SUFFICES ASSUME StartedOnce, NEW m \in Messages \ excused
               PROVE  Cardinality(Started(m)) <= 1
    BY DEF OneJobPerMessage
  <2>1. CASE Started(m) = {}
    BY <2>1, FS_EmptySet
  <2>2. CASE Started(m) # {}
    <3>1. PICK j \in Started(m) : TRUE
      BY <2>2
    <3>2. Started(m) = {j}
      BY <3>1 DEF StartedOnce
    <3>3. Cardinality({j}) = 1
      BY FS_Singleton, Zenon
    <3> QED
      BY <3>2, <3>3
  <2> QED
    BY <2>1, <2>2
<1>2. Spec => []StartedOnce
  BY StartedOnceInit, StartedOnceStep, OwnTypesAlways, PTL DEF Spec
<1> QED
  BY <1>1, <1>2, PTL

-----------------------------------------------------------------------------
(* How far a job is and how far its reply is belong together.              *)
Linked(j) ==
  /\ stage[j] \in {"none", "received", "processing"} => phase[j] = "idle"
  /\ stage[j] = "replying" =>
       phase[j] \in {"opening", "answering", "settling", "posting", "sent", "failed"}
  /\ stage[j] = "done" => phase[j] = "sent"
  /\ stage[j] = "ended" => phase[j] \in {"sent", "failed"}
  /\ stage[j] = "died" => phase[j] \in {"idle", "gone", "sent", "failed"}
  /\ phase[j] = "idle" => ~lost[j]
  /\ j[2] > deliveries[j[1]] => stage[j] = "none"

Link == \A j \in Jobs : Linked(j)

LEMMA LinkInit == Init => Link
  BY DEF Init, D!Init, Link, Linked

(* What a step of ReplyDelivery does to its job, and to no other.          *)
LEMMA WorkStep ==
  ASSUME D!TypeOK, NEW j \in Jobs, D!Work(j), phase[j] # "idle"
  PROVE  /\ phase[j] \in {"opening", "answering", "settling", "posting"}
         /\ phase'[j] \in {"answering", "settling", "posting", "sent", "failed"}
         /\ lost[j] => lost'[j]
         /\ \A i \in Jobs : i # j =>
              /\ phase'[i] = phase[i] /\ lost'[i] = lost[i] /\ final'[i] = final[i]
              /\ card'[i] = card[i] /\ post'[i] = post[i]
<1> USE DEF D!TypeOK, D!Phases, D!Ended, D!config, D!local, D!screen
<1>1. CASE D!Begin(j)
  BY <1>1 DEF D!Begin
<1>2. ASSUME NEW o, D!Open(j, o) \/ D!Settle(j, o) \/ D!Post(j, o)
      PROVE  /\ phase[j] \in {"opening", "settling", "posting"}
             /\ phase'[j] \in {"answering", "posting", "sent", "failed"}
             /\ lost[j] => lost'[j]
             /\ \A i \in Jobs : i # j =>
                  /\ phase'[i] = phase[i] /\ lost'[i] = lost[i] /\ final'[i] = final[i]
                  /\ card'[i] = card[i] /\ post'[i] = post[i]
  BY <1>2 DEF D!Open, D!Settle, D!Post, D!Shows, D!Remember
<1>3. ASSUME NEW t, D!Answer(j, t) \/ D!Apologise(j)
      PROVE  /\ phase[j] = "answering"
             /\ phase'[j] \in {"settling", "posting", "sent"}
             /\ lost' = lost
             /\ \A i \in Jobs : i # j =>
                  /\ phase'[i] = phase[i] /\ final'[i] = final[i]
                  /\ card'[i] = card[i] /\ post'[i] = post[i]
  BY <1>3 DEF D!Answer, D!Apologise
<1> QED
  BY <1>1, <1>2, <1>3 DEF D!Work

LEMMA BeginStep ==
  ASSUME D!TypeOK, NEW j \in Jobs, D!Begin(j)
  PROVE  /\ phase[j] = "idle" /\ phase'[j] \in {"opening", "answering"}
         /\ UNCHANGED <<lost, final, card, post>>
         /\ \A i \in Jobs : i # j => phase'[i] = phase[i]
  BY DEF D!TypeOK, D!Begin, D!config, D!local, D!screen

LEMMA StreamStep ==
  ASSUME D!TypeOK, NEW j \in Jobs, D!Stream(j)
  PROVE  /\ phase[j] = "answering" /\ UNCHANGED <<phase, final, post>>
         /\ lost[j] => lost'[j]
         /\ \A i \in Jobs : i # j => lost'[i] = lost[i] /\ card'[i] = card[i]
<1> USE DEF D!TypeOK, D!config, D!screen
<1>1. ASSUME NEW t, D!Hold(j, t)
      PROVE  phase[j] = "answering" /\ UNCHANGED <<phase, final, post, lost, card>>
  BY <1>1 DEF D!Hold
<1>2. ASSUME NEW t, NEW done, NEW o, D!Push(j, t, done, o)
      PROVE  /\ phase[j] = "answering" /\ UNCHANGED <<phase, final, post>>
             /\ lost[j] => lost'[j]
             /\ \A i \in Jobs : i # j => lost'[i] = lost[i] /\ card'[i] = card[i]
  BY <1>2 DEF D!Push, D!Shows, D!Remember
<1> QED
  BY <1>1, <1>2 DEF D!Stream

LEMMA CrashStep ==
  ASSUME D!TypeOK, D!Crash
  PROVE  /\ UNCHANGED <<lost, final, card, post>>
         /\ \A j \in Jobs :
              phase'[j] = IF phase[j] \in {"idle", "sent", "failed", "gone"}
                          THEN phase[j] ELSE "gone"
  BY DEF D!TypeOK, D!Crash, D!Ended, D!config, D!local, D!screen

LEMMA LinkStep == D!TypeOK /\ OwnTypes /\ Link /\ [Next]_vars => Link'
<1> SUFFICES ASSUME D!TypeOK, OwnTypes, Link, [Next]_vars, NEW i \in Jobs
             PROVE  Linked(i)'
  BY DEF Link
<1> USE DEF OwnTypes, Stages, storeVars, historyVars, dedupeVars, deliveryVars
<1>0. Linked(i)
  BY DEF Link
<1>1. ASSUME NEW m \in Messages, NEW answer, Deliver(m, answer) PROVE Linked(i)'
  <2>1. UNCHANGED <<phase, lost>>
    BY <1>1 DEF Deliver
  <2>2. CASE i = <<m, deliveries[m] + 1>>
    <3>1. stage[i] = "none" /\ stage'[i] \in {"none", "received"}
      BY <1>0, <1>1, <2>2 DEF Deliver, Linked
    <3>2. deliveries'[i[1]] = i[2]
      BY <1>1, <2>2 DEF Deliver
    <3> QED
      BY <1>0, <2>1, <3>1, <3>2 DEF Linked, Jobs
  <2>3. CASE i # <<m, deliveries[m] + 1>>
    <3>1. stage'[i] = stage[i]
      BY <1>1, <2>3 DEF Deliver
    <3>2. i[1] \in Messages /\ deliveries'[i[1]] >= deliveries[i[1]] /\ i[2] \in Nat
      BY <1>1, BoundsAssumption DEF Deliver, Jobs
    <3>3. i[2] > deliveries'[i[1]] => i[2] > deliveries[i[1]]
      BY <1>1, <3>2, BoundsAssumption DEF Deliver
    <3> QED
      BY <1>0, <2>1, <3>1, <3>3 DEF Linked
  <2> QED
    BY <2>2, <2>3
<1>2. ASSUME NEW m \in Messages, NEW s, Forget(s, m) PROVE Linked(i)'
  BY <1>0, <1>2 DEF Forget, Linked
<1>3. ASSUME NEW j \in Jobs, SetEmoji(j) \/ Deadline(j) PROVE Linked(i)'
  <2>1. UNCHANGED <<phase, lost, stage, deliveries>>
    BY <1>3 DEF SetEmoji, Deadline, D!Expire, D!config, D!local, D!screen
  <2> QED
    BY <1>0, <2>1 DEF Linked
<1>4. ASSUME NEW j \in Jobs, Process(j) \/ Replied(j) \/ Finish(j) PROVE Linked(i)'
  BY <1>0, <1>4 DEF Process, Replied, Finish, Linked
<1>5. ASSUME NEW j \in Jobs, StartReply(j) PROVE Linked(i)'
  <2>1. D!Begin(j) /\ deliveries' = deliveries
    BY <1>5 DEF StartReply
  <2>2. stage' = [stage EXCEPT ![j] = "replying"] /\ stage[j] = "processing"
    BY <1>5 DEF StartReply
  <2> QED
    BY <1>0, <2>1, <2>2, BeginStep DEF Linked
<1>6. ASSUME NEW j \in Jobs, Reply(j) PROVE Linked(i)'
  <2>1. D!Work(j) /\ stage[j] = "replying" /\ stage' = stage /\ deliveries' = deliveries
    BY <1>6 DEF Reply
  <2>2. phase[j] # "idle"
    BY <2>1 DEF Link, Linked
  <2> QED
    BY <1>0, <2>1, <2>2, WorkStep DEF Linked
<1>7. ASSUME NEW j \in Jobs, StreamReply(j) PROVE Linked(i)'
  <2>1. D!Stream(j) /\ stage' = stage /\ deliveries' = deliveries
    BY <1>7 DEF StreamReply
  <2> QED
    BY <1>0, <2>1, StreamStep DEF Linked
<1>8. CASE Restart
  <2>1. D!Crash /\ deliveries' = deliveries
    BY <1>8 DEF Restart
  <2>2. stage'[i] = IF Running(i) THEN "died" ELSE stage[i]
    BY <1>8 DEF Restart
  <2> QED
    BY <1>0, <2>1, <2>2, CrashStep DEF Linked, Running
<1>9. CASE UNCHANGED vars
  BY <1>0, <1>9 DEF vars, Linked
<1> QED
  BY <1>1, <1>2, <1>3, <1>4, <1>5, <1>6, <1>7, <1>8, <1>9 DEF Next, Job

-----------------------------------------------------------------------------
(* What the emojis on the screen say of the jobs that set them: the newest *)
(* of a job at rest, unless its message slipped, and 3 only of a reply that *)
(* was delivered.                                                          *)
EmojiOf(j) ==
  /\ emoji[j] = 3 => stage[j] \in {"done", "ended", "died"} /\ phase[j] = "sent"
  /\ stage[j] \in {"none", "replying", "ended"} => step[j] \in {"rest", "gone"}
  /\ stage[j] = "ended" /\ phase[j] = "sent" /\ 3 \in Emojis => emoji[j] = 3
  /\ step[j] = "gone" => slipped = Messages

OnScreen(r) ==
  /\ stage[r[1]] # "none"
  /\ r[2] <= emoji[r[1]]
  /\ step[r[1]] \in {"look", "remove", "add"} => r[2] < emoji[r[1]]
  /\ step[r[1]] = "rest" /\ r[1][1] \notin slipped => r[2] = emoji[r[1]]

EmojisTell == (\A j \in Jobs : EmojiOf(j)) /\ (\A r \in live : OnScreen(r))

LEMMA EmojisTellInit == Init => EmojisTell
  BY DEF Init, R!Init, EmojisTell, EmojiOf

LEMMA EmojiRange == ASSUME RP!TypeOK, NEW j \in Jobs PROVE emoji[j] \in 0..3
<1>1. emoji[j] \in Emojis \cup {0}
  BY DEF RP!TypeOK
<1>2. \A e \in Emojis : e \in 1..3
  BY ReactionConstants
<1>3. CASE emoji[j] = 0
  BY <1>3
<1>4. CASE emoji[j] \in Emojis
  BY <1>2, <1>4
<1> QED
  BY <1>1, <1>3, <1>4

(* A step that leaves the emojis alone. *)
LEMMA EmojiKept ==
  ASSUME RP!TypeOK, OwnTypes, EmojisTell, UNCHANGED reactionVars,
         \A j \in Jobs : stage[j] # "none" => stage'[j] # "none",
         \A j \in Jobs : EmojiOf(j)'
  PROVE  EmojisTell'
<1> SUFFICES ASSUME NEW r \in live' PROVE OnScreen(r)'
  BY DEF EmojisTell
<1>1. r \in live /\ r[1] \in Jobs /\ OnScreen(r)
  BY DEF reactionVars, RP!TypeOK, RP!Reactions, EmojisTell
<1> QED
  BY <1>1 DEF OnScreen, reactionVars

LEMMA EmojiStep ==
  ASSUME RP!Inv, OwnTypes, Link, EmojisTell, NEW j \in Jobs, SetEmoji(j)
  PROVE  EmojisTell'
<1> USE DEF RP!TypeOK, RP!Reactions, OwnTypes, Stages, deliveryVars, dedupeVars
<1>0. /\ RP!TypeOK /\ UNCHANGED <<stage, phase>> /\ Linked(j)
      /\ stage[j] \in {"received", "processing", "done"}
      /\ EmojisTell
  BY DEF RP!Inv, SetEmoji, EmojiAt, Link
<1>1. CASE EmojiAt[stage[j]] \in Emojis /\ R!Enter(j, EmojiAt[stage[j]])
  <2>1. /\ step[j] = "rest" /\ emoji[j] < EmojiAt[stage[j]]
        /\ step' = [step EXCEPT ![j] = "look"]
        /\ emoji' = [emoji EXCEPT ![j] = EmojiAt[stage[j]]]
        /\ slipped \subseteq slipped' /\ slipped' \subseteq Messages /\ live' = live
    BY <1>0, <1>1, ReactionConstants DEF R!Enter, R!Slip
  <2>2. EmojiAt[stage[j]] = 3 => stage[j] = "done"
    BY <1>0 DEF EmojiAt
  <2>3. EmojiAt[stage[j]] \in 1..3
    BY <1>0 DEF EmojiAt
  <2>4. ASSUME NEW i \in Jobs PROVE EmojiOf(i)'
    BY <1>0, <2>1, <2>2 DEF EmojisTell, EmojiOf, Linked
  <2>5. ASSUME NEW r \in live' PROVE OnScreen(r)'
    <3>1. r \in live /\ r[1] \in Jobs /\ OnScreen(r) /\ r[2] \in 1..3
      BY <1>0, <2>1, ReactionConstants DEF EmojisTell
    <3>2. CASE r[1] = j
      <4>1. emoji[j] \in 0..3 /\ r[2] <= emoji[j]
        BY <1>0, <3>1, <3>2, EmojiRange DEF OnScreen
      <4>2. r[2] < EmojiAt[stage[j]]
        BY <2>1, <2>3, <3>1, <4>1
      <4>3. emoji'[j] = EmojiAt[stage[j]] /\ step'[j] = "look" /\ stage'[j] # "none"
        BY <1>0, <2>1
      <4> QED
        BY <2>3, <3>1, <3>2, <4>2, <4>3 DEF OnScreen
    <3>3. CASE r[1] # j
      BY <1>0, <2>1, <3>1, <3>3 DEF OnScreen
    <3> QED
      BY <3>2, <3>3
  <2> QED
    BY <2>4, <2>5 DEF EmojisTell
<1>2. CASE R!Look(j)
  <2>1. /\ step[j] = "look" /\ UNCHANGED <<emoji, live, slipped>>
        /\ \A i \in Jobs : i # j => step'[i] = step[i]
        /\ step'[j] \in {"remove", "add"}
    BY <1>0, <1>2 DEF R!Look
  <2>2. ASSUME NEW i \in Jobs PROVE EmojiOf(i)'
    BY <1>0, <2>1 DEF EmojisTell, EmojiOf
  <2>3. ASSUME NEW r \in live' PROVE OnScreen(r)'
    BY <1>0, <2>1 DEF EmojisTell, OnScreen
  <2> QED
    BY <2>2, <2>3 DEF EmojisTell
<1>3. ASSUME NEW o, R!Remove(j, o) PROVE EmojisTell'
  <2>1. /\ step[j] = "remove" /\ emoji' = emoji /\ live' \subseteq live
        /\ step' = [step EXCEPT ![j] = "add"]
        /\ slipped \subseteq slipped' /\ slipped' \subseteq Messages
    BY <1>0, <1>3, ReactionConstants DEF R!Remove, R!Slip
  <2>2. ASSUME NEW i \in Jobs PROVE EmojiOf(i)'
    BY <1>0, <2>1 DEF EmojisTell, EmojiOf
  <2>3. ASSUME NEW r \in live' PROVE OnScreen(r)'
    <3>1. r \in live /\ r[1] \in Jobs /\ OnScreen(r)
      BY <1>0, <2>1 DEF EmojisTell
    <3> QED
      BY <1>0, <2>1, <3>1 DEF OnScreen
  <2> QED
    BY <2>2, <2>3 DEF EmojisTell
<1>4. ASSUME NEW o, R!Add(j, o) PROVE EmojisTell'
  <2>1. /\ step[j] = "add" /\ emoji' = emoji
        /\ live' \subseteq live \cup {<<j, emoji[j]>>}
        /\ step' = [step EXCEPT ![j] = "rest"]
        /\ slipped \subseteq slipped' /\ slipped' \subseteq Messages
    BY <1>0, <1>4, ReactionConstants DEF R!Add, R!Slip
  <2>2. ASSUME NEW i \in Jobs PROVE EmojiOf(i)'
    BY <1>0, <2>1 DEF EmojisTell, EmojiOf
  <2>3. j[1] \notin slipped => \A r \in live : r[1] # j
    <3> SUFFICES ASSUME j[1] \notin slipped, NEW r \in live, r[1] = j PROVE FALSE
      OBVIOUS
    <3>1. j[1] \in Messages /\ MessageOf[j] = j[1]
      BY DEF MessageOf, Jobs
    <3>2. j \in RP!Busy(j[1])
      BY <2>1, <3>1 DEF RP!Busy
    <3>3. RP!On(j[1]) = {}
      BY <2>1, <3>1, <3>2 DEF RP!Inv, RP!InStep
    <3> QED
      BY <3>1, <3>3 DEF RP!On
  <2>4. ASSUME NEW r \in live' PROVE OnScreen(r)'
    <3>1. CASE r \in live
      <4>1. r[1] \in Jobs /\ OnScreen(r) /\ (r[1] = j => j[1] \in slipped)
        BY <1>0, <2>3, <3>1 DEF EmojisTell
      <4> QED
        BY <1>0, <2>1, <4>1 DEF OnScreen
    <3>2. CASE r = <<j, emoji[j]>>
      <4>1. emoji[j] \in 0..3
        BY <1>0, EmojiRange
      <4>2. emoji'[j] = emoji[j]
        BY <2>1
      <4>3. step'[j] = "rest"
        BY <1>0, <2>1
      <4>4. stage'[j] # "none"
        BY <1>0
      <4>5. r[1] = j /\ r[2] = emoji[j]
        BY <3>2
      <4> QED
        BY <4>1, <4>2, <4>3, <4>4, <4>5 DEF OnScreen
    <3> QED
      BY <2>1, <3>1, <3>2
  <2> QED
    BY <2>2, <2>4 DEF EmojisTell
<1> QED
  BY <1>1, <1>2, <1>3, <1>4 DEF SetEmoji

LEMMA EmojisTellStep ==
  D!TypeOK /\ RP!Inv /\ OwnTypes /\ Link /\ EmojisTell /\ [Next]_vars => EmojisTell'
<1> SUFFICES ASSUME D!TypeOK, RP!Inv, OwnTypes, Link, EmojisTell, [Next]_vars
             PROVE  EmojisTell'
  OBVIOUS
<1> USE DEF OwnTypes, Stages, storeVars, historyVars, dedupeVars, deliveryVars
<1>0. RP!TypeOK /\ \A i \in Jobs : EmojiOf(i) /\ Linked(i)
  BY DEF RP!Inv, EmojisTell, Link
<1>1. ASSUME NEW m \in Messages, NEW answer, Deliver(m, answer) PROVE EmojisTell'
  <2>1. UNCHANGED <<reactionVars, phase>>
    BY <1>1 DEF Deliver
  <2>2. \A i \in Jobs : stage'[i] = stage[i] \/ stage'[i] = "received"
    BY <1>1 DEF Deliver
  <2>3. ASSUME NEW i \in Jobs, stage'[i] # stage[i] PROVE stage[i] = "none"
    <3>1. i = <<m, deliveries[m] + 1>>
      BY <1>1, <2>3 DEF Deliver
    <3> QED
      BY <1>0, <1>1, <3>1 DEF Linked, Deliver
  <2>4. \A i \in Jobs : EmojiOf(i)'
    BY <1>0, <2>1, <2>2, <2>3 DEF EmojiOf, reactionVars
  <2> QED
    BY <1>0, <2>1, <2>2, <2>4, EmojiKept
<1>2. ASSUME NEW m \in Messages, NEW s, Forget(s, m) PROVE EmojisTell'
  <2>1. UNCHANGED <<reactionVars, phase, stage>>
    BY <1>2 DEF Forget
  <2>2. \A i \in Jobs : EmojiOf(i)'
    BY <1>0, <2>1 DEF EmojiOf, reactionVars
  <2> QED
    BY <1>0, <2>1, <2>2, EmojiKept
<1>3. ASSUME NEW j \in Jobs, SetEmoji(j) PROVE EmojisTell'
  BY <1>3, EmojiStep
<1>4. ASSUME NEW j \in Jobs, Process(j) \/ StartReply(j) \/ Replied(j) \/ Finish(j)
      PROVE  EmojisTell'
  <2>1. /\ UNCHANGED reactionVars
        /\ \A i \in Jobs : i # j => stage'[i] = stage[i] /\ phase'[i] = phase[i]
        /\ stage[j] # "none" /\ stage'[j] # "none"
    BY <1>4, BeginStep DEF Process, StartReply, Replied, Finish
  <2>2. EmojiOf(j)'
    <3>1. CASE Process(j)
      BY <1>0, <3>1 DEF Process, EmojiSet, EmojiOf, reactionVars
    <3>2. CASE StartReply(j)
      BY <1>0, <2>1, <3>2 DEF StartReply, EmojiSet, EmojiOf, reactionVars
    <3>3. CASE Replied(j)
      BY <1>0, <3>3 DEF Replied, EmojiOf, reactionVars
    <3>4. CASE Finish(j)
      BY <1>0, <3>4 DEF Finish, EmojiSet, EmojiAt, EmojiOf, reactionVars
    <3> QED
      BY <1>4, <3>1, <3>2, <3>3, <3>4
  <2>3. \A i \in Jobs : EmojiOf(i)'
    BY <1>0, <2>1, <2>2 DEF EmojiOf, reactionVars
  <2> QED
    BY <1>0, <2>1, <2>3, EmojiKept
<1>5. ASSUME NEW j \in Jobs, Reply(j) \/ StreamReply(j) \/ Deadline(j)
      PROVE  EmojisTell'
  <2>1. UNCHANGED <<reactionVars, stage>>
    BY <1>5 DEF Reply, StreamReply, Deadline
  <2>2. \A i \in Jobs : phase'[i] # phase[i] => stage[i] = "replying"
    <3>1. CASE Reply(j)
      <4>1. D!Work(j) /\ stage[j] = "replying" /\ phase[j] # "idle"
        BY <1>0, <3>1 DEF Reply, Linked
      <4> QED
        BY <4>1, WorkStep
    <3>2. CASE StreamReply(j)
      BY <3>2, StreamStep DEF StreamReply
    <3>3. CASE Deadline(j)
      BY <3>3 DEF Deadline, D!Expire
    <3> QED
      BY <1>5, <3>1, <3>2, <3>3
  <2>3. \A i \in Jobs : EmojiOf(i)'
    BY <1>0, <2>1, <2>2 DEF EmojiOf, reactionVars
  <2> QED
    BY <1>0, <2>1, <2>3, EmojiKept
<1>6. CASE Restart
  <2>1. /\ slipped' = Messages /\ emoji' = emoji /\ live' = live
        /\ step' = [i \in Jobs |-> IF emoji[i] = 0 THEN "rest" ELSE "gone"]
    BY <1>6 DEF Restart, R!Restart
  <2>2. \A i \in Jobs : stage'[i] = IF Running(i) THEN "died" ELSE stage[i]
    BY <1>6 DEF Restart
  <2>3. D!Crash
    BY <1>6 DEF Restart
  <2>4. ASSUME NEW i \in Jobs PROVE EmojiOf(i)'
    BY <1>0, <2>1, <2>2, <2>3, CrashStep DEF EmojiOf, Running, Linked
  <2>5. ASSUME NEW r \in live' PROVE OnScreen(r)'
    <3>1. r \in live /\ r[1] \in Jobs /\ r[1][1] \in Messages /\ OnScreen(r)
      BY <1>0, <2>1 DEF EmojisTell, RP!TypeOK, RP!Reactions, Jobs
    <3> QED
      BY <2>1, <2>2, <3>1 DEF OnScreen, Running
  <2> QED
    BY <2>4, <2>5 DEF EmojisTell
<1>7. CASE UNCHANGED vars
  <2>1. UNCHANGED <<reactionVars, phase, stage>>
    BY <1>7 DEF vars
  <2>2. \A i \in Jobs : EmojiOf(i)'
    BY <1>0, <2>1 DEF EmojiOf, reactionVars
  <2> QED
    BY <1>0, <2>1, <2>2, EmojiKept
<1> QED
  BY <1>1, <1>2, <1>3, <1>4, <1>5, <1>6, <1>7 DEF Next, Job

BotInv == DeliveryInv /\ RP!Inv /\ OwnTypes /\ StartedOnce /\ Link /\ EmojisTell

LEMMA BotInvInit == Init => BotInv
  BY DeliveryInit, ReactionInit, OwnTypesInit, StartedOnceInit, LinkInit, EmojisTellInit
    DEF BotInv

LEMMA BotInvStep == BotInv /\ [Next]_vars => BotInv'
<1>1. DeliveryInv => D!TypeOK
  BY DEF DeliveryInv
<1> QED
  BY <1>1, DeliveryStep, ReactionStep, OwnTypesStep, StartedOnceStep, LinkStep,
     EmojisTellStep
    DEF BotInv

LEMMA BotInvAlways == Spec => []BotInv
  BY BotInvInit, BotInvStep, PTL DEF Spec

LEMMA MessageOfJob == \A j \in Jobs : j[1] \in Messages /\ MessageOf[j] = j[1]
  BY DEF MessageOf, Jobs

(* When the only job of a message has ended and its emoji never slipped,   *)
(* the emojis left on it say how the job ended.                            *)
THEOREM EmojiIsTrue == Spec => []EmojiTellsOutcome
<1>1. BotInv => EmojiTellsOutcome
  <2> SUFFICES ASSUME BotInv, NEW m \in Messages, m \notin slipped,
                      NEW j \in Started(m), Started(m) = {j}, stage[j] = "ended",
                      NEW r \in R!On(m)
               PROVE  (r[2] = 3) <=> (phase[j] = "sent" /\ 3 \in Emojis)
    BY DEF EmojiTellsOutcome
  <2>1. j \in Jobs /\ RP!TypeOK /\ EmojiOf(j)
    BY DEF BotInv, RP!Inv, EmojisTell, Started
  <2>2. r \in live /\ r[1] \in Jobs /\ r[2] \in Emojis /\ MessageOf[r[1]] = m /\ OnScreen(r)
    BY <2>1 DEF R!On, RP!TypeOK, RP!Reactions, BotInv, EmojisTell
  <2>3. r[1] = j /\ j[1] = m
    BY <2>2, MessageOfJob DEF OnScreen, Started
  <2>4. step[j] = "rest"
    BY <2>1 DEF EmojiOf
  <2>5. r[2] = emoji[j]
    BY <2>2, <2>3, <2>4 DEF OnScreen
  <2> QED
    BY <2>1, <2>2, <2>5 DEF EmojiOf
<1> QED
  BY <1>1, BotInvAlways, PTL

-----------------------------------------------------------------------------
(* What a message's outcome is, by what is known of it. *)
Waived(m) == m \in excused \/ \E j \in Started(m) : lost[j]

LEMMA OutcomeWaived == \A m : Waived(m) => Outcome(m) = "waived"
  BY DEF Waived, Outcome

LEMMA OutcomeUnseen ==
  \A m : m \notin excused /\ Started(m) = {} => Outcome(m) = "unseen"
  BY DEF Outcome

LEMMA ChooseOnly == ASSUME NEW j, NEW S, S = {j} PROVE (CHOOSE i \in S : TRUE) = j
  OBVIOUS

LEMMA OutcomeFared ==
  \A m, j : m \notin excused /\ Started(m) = {j} /\ ~lost[j] => Outcome(m) = Fared(j)
<1> SUFFICES ASSUME NEW m, NEW j, m \notin excused, Started(m) = {j}, ~lost[j]
             PROVE  Outcome(m) = Fared(j)
  OBVIOUS
<1>1. (CHOOSE i \in Started(m) : TRUE) = j
  BY ChooseOnly
<1> QED
  BY <1>1 DEF Outcome

(* How the only job of a message fares, under the invariant. *)
How(j) ==
  CASE phase[j] = "sent" -> "answered"
    [] phase[j] = "failed" -> "refused"
    [] phase[j] = "gone" \/ (phase[j] = "idle" /\ stage[j] = "died") -> "abandoned"
    [] OTHER -> "taken"

LEMMA FaredHow == BotInv => \A j \in Jobs : ~lost[j] => Fared(j) = How(j)
<1> SUFFICES ASSUME BotInv, NEW j \in Jobs, ~lost[j]
             PROVE  /\ phase[j] = "sent" => Visible(j)
                    /\ phase[j] = "failed" => ~Visible(j)
  BY DEF Fared, How
<1>1. D!TypeOK /\ Knows(j)
  BY DEF BotInv, DeliveryInv
<1> QED
  BY <1>1, TextAssumption DEF Knows, D!TypeOK, Visible

LEMMA OutcomeHow ==
  BotInv => \A m \in Messages : \A j \in Started(m) : ~Waived(m) => Outcome(m) = How(j)
<1> SUFFICES ASSUME BotInv, NEW m \in Messages, NEW j \in Started(m), ~Waived(m)
             PROVE  Outcome(m) = How(j)
  OBVIOUS
<1>1. Started(m) = {j} /\ m \notin excused /\ ~lost[j] /\ j \in Jobs
  BY DEF Waived, BotInv, StartedOnce, Started
<1> QED
  BY <1>1, OutcomeFared, FaredHow

(* The same three facts of the next state. *)
LEMMA NextOutcome ==
  BotInv' => \A m \in Messages :
    /\ Waived(m)' => Outcome(m)' = "waived"
    /\ ~Waived(m)' /\ Started(m)' = {} => Outcome(m)' = "unseen"
    /\ \A j \in Started(m)' : ~Waived(m)' => Outcome(m)' = How(j)'
<1>1. BotInv => \A m \in Messages :
        /\ Waived(m) => Outcome(m) = "waived"
        /\ ~Waived(m) /\ Started(m) = {} => Outcome(m) = "unseen"
        /\ \A j \in Started(m) : ~Waived(m) => Outcome(m) = How(j)
  BY OutcomeWaived, OutcomeUnseen, OutcomeHow DEF Waived
<1>2. (BotInv => \A m \in Messages :
        /\ Waived(m) => Outcome(m) = "waived"
        /\ ~Waived(m) /\ Started(m) = {} => Outcome(m) = "unseen"
        /\ \A j \in Started(m) : ~Waived(m) => Outcome(m) = How(j))'
  BY <1>1, PTL
<1> QED
  BY <1>2

-----------------------------------------------------------------------------
(* What AnswerService sees of a step. *)
Outcomes == [m \in Messages |-> Outcome(m)]
Done == {m \in Messages : \E r \in R!On(m) : r[2] = 3}

Served == Service!Next \/ UNCHANGED Service!vars

LEMMA NothingSeen ==
  ASSUME \A m \in Messages : Outcome(m)' = Outcome(m), Done' = Done
  PROVE  Served
  BY DEF Served, Service!vars, Done

LEMMA DoneKept == ASSUME live' = live PROVE Done' = Done
  BY DEF Done, R!On

(* A message whose jobs a step leaves alone fares as before. *)
LEMMA Untouched ==
  ASSUME NEW m \in Messages, m \in excused' <=> m \in excused, Started(m)' = Started(m),
         \A i \in Started(m) :
           /\ lost'[i] = lost[i] /\ phase'[i] = phase[i] /\ final'[i] = final[i]
           /\ card'[i] = card[i] /\ post'[i] = post[i]
           /\ stage'[i] = "died" <=> stage[i] = "died"
  PROVE  Outcome(m)' = Outcome(m)
<1>1. CASE Started(m) = {}
  BY <1>1 DEF Outcome
<1>2. CASE Started(m) # {}
  <2> DEFINE c == CHOOSE i \in Started(m) : TRUE
  <2>1. c \in Started(m)
    BY <1>2
  <2>2. Fared(c)' = Fared(c)
    BY <2>1 DEF Fared, Visible
  <2>3. (CHOOSE i \in Started(m) : TRUE)' = c
    OBVIOUS
  <2> HIDE DEF c
  <2> QED
    BY <1>2, <2>1, <2>2, <2>3 DEF Outcome, Fared, Visible
<1> QED
  BY <1>1, <1>2

(* A message that is waived from now on. *)
LEMMA NowWaived ==
  ASSUME NEW m \in Messages, Outcome(m)' = "waived",
         \A n \in Messages : n # m => Outcome(n)' = Outcome(n), Done' = Done
  PROVE  Served
<1>1. Outcomes' = [n \in Messages |->
                     CASE n \in {m} -> "waived"
                       [] n \in {} \ {m} -> "abandoned"
                       [] OTHER -> Outcomes[n]]
  BY DEF Outcomes
<1>2. {} \in SUBSET Messages /\ {m} \in SUBSET Messages
  OBVIOUS
<1>3. \E abandoned, waived \in SUBSET Messages :
        /\ \A n \in abandoned : Outcomes[n] = "taken"
        /\ Outcomes' = [n \in Messages |->
                          CASE n \in waived -> "waived"
                            [] n \in abandoned \ waived -> "abandoned"
                            [] OTHER -> Outcomes[n]]
  BY <1>1, <1>2
<1>4. Service!Interrupt
  BY <1>3 DEF Service!Interrupt, Done, Outcomes
<1> QED
  BY <1>4 DEF Served, Service!Next

(* A step of one job that goes on or ends. *)
LEMMA JobServed ==
  ASSUME BotInv, BotInv', NEW j \in Jobs, stage[j] # "none",
         UNCHANGED <<excused, live>>,
         \A i \in Jobs : stage'[i] # "none" <=> stage[i] # "none",
         \A i \in Jobs : i # j =>
           /\ lost'[i] = lost[i] /\ phase'[i] = phase[i] /\ final'[i] = final[i]
           /\ card'[i] = card[i] /\ post'[i] = post[i] /\ stage'[i] = stage[i],
         lost[j] => lost'[j],
         \/ How(j)' = How(j)
         \/ How(j) = "taken" /\ How(j)' \in {"answered", "refused"}
  PROVE  Served
<1> DEFINE m == j[1]
<1>1. m \in Messages /\ \A n : Started(n)' = Started(n)
  BY MessageOfJob DEF Started
<1>2. Done' = Done
  BY DoneKept
<1>3. ASSUME NEW n \in Messages, n # m PROVE Outcome(n)' = Outcome(n)
  <2>1. \A i \in Started(n) : i \in Jobs /\ i # j
    BY <1>3 DEF Started
  <2> QED
    BY <1>1, <2>1, Untouched
<1>4. j \in Started(m) /\ j \in Started(m)'
  BY <1>1 DEF Started
<1>5. Waived(m) => Waived(m)'
  <2>1. \A i \in Jobs : lost[i] => lost'[i]
    OBVIOUS
  <2>2. \A i \in Started(m) : i \in Jobs
    BY DEF Started
  <2> HIDE DEF m
  <2> QED
    BY <1>1, <2>1, <2>2 DEF Waived
<1>6. CASE Waived(m)'
  <2>1. Outcome(m)' = "waived"
    BY <1>1, <1>6, NextOutcome
  <2> HIDE DEF m
  <2> QED
    BY <1>1, <1>2, <1>3, <2>1, NowWaived
<1>7. CASE ~Waived(m)'
  <2>1. Outcome(m) = How(j) /\ Outcome(m)' = How(j)'
    BY <1>1, <1>4, <1>5, <1>7, NextOutcome, OutcomeHow
  <2>2. CASE How(j)' = How(j)
    BY <1>1, <1>2, <1>3, <2>1, <2>2, NothingSeen
  <2>3. CASE How(j) = "taken" /\ How(j)' \in {"answered", "refused"}
    <3>1. Outcomes' = [Outcomes EXCEPT ![m] = How(j)']
      BY <1>1, <1>3, <2>1 DEF Outcomes
    <3>2. Service!Answer(m) \/ Service!Refuse(m)
      BY <1>1, <1>2, <2>1, <2>3, <3>1
        DEF Service!Answer, Service!Refuse, Service!Become, Outcomes, Done
    <3> QED
      BY <1>1, <3>2 DEF Served, Service!Next
  <2> QED
    BY <2>2, <2>3
<1> QED
  BY <1>6, <1>7

(* A step that moves an emoji. *)
LEMMA EmojiServed ==
  ASSUME BotInv, BotInv', NEW j \in Jobs, SetEmoji(j)
  PROVE  Served
<1> DEFINE m == j[1]
<1> USE DEF deliveryVars, dedupeVars, historyVars
<1>0. /\ UNCHANGED <<excused, stage, phase, lost, final, card, post>>
      /\ m \in Messages /\ j \in Started(m) /\ Linked(j) /\ EmojiOf(j) /\ RP!TypeOK
      /\ EmojiOf(j)' /\ (emoji[j] = 3 => phase[j] = "sent")
  BY MessageOfJob
    DEF SetEmoji, EmojiAt, Started, BotInv, Link, EmojisTell, EmojiOf, RP!Inv
<1>1. \A n \in Messages : Started(n)' = Started(n)
  BY <1>0 DEF Started
<1>2. \A n \in Messages : Outcome(n)' = Outcome(n)
  BY <1>0, <1>1, Untouched
<1>3. Outcomes' = Outcomes
  BY <1>2 DEF Outcomes
<1>4. CASE live' = live
  BY <1>2, <1>4, DoneKept, NothingSeen
<1>5. ASSUME NEW o, R!Remove(j, o), live' # live PROVE Served
  <2>1. /\ step[j] = "remove" /\ previous[j] \in live
        /\ live' = live \ {previous[j]}
    BY <1>5 DEF R!Remove
  <2>2. MessageOf[previous[j][1]] = m /\ previous[j] \in Jobs \X Emojis
    BY <1>0, <2>1, MessageOfJob, ReactionConstants
      DEF BotInv, RP!Inv, RP!OwnReactions, RP!TypeOK, RP!Reactions
  <2>3. \A n \in Messages : n # m => R!On(n)' = R!On(n)
    BY <2>1, <2>2 DEF R!On
  <2>4. CASE Done' = Done
    BY <1>2, <2>4, NothingSeen
  <2>5. CASE Done' # Done
    <3>1. Done' = Done \ {m}
      BY <1>0, <2>1, <2>3, <2>5 DEF Done, R!On
    <3>2. previous[j][2] = 3
      BY <2>1, <2>5 DEF Done, R!On
    <3>3. ~Waived(m) => previous[j][1] = j
      BY <1>0, <2>1, <2>2, MessageOfJob
        DEF BotInv, StartedOnce, Waived, Started, EmojisTell, OnScreen
    <3>4. previous[j][1] # j
      <4> SUFFICES ASSUME previous[j][1] = j PROVE FALSE
        OBVIOUS
      <4>1. 3 < emoji[j]
        BY <2>1, <3>2 DEF BotInv, EmojisTell, OnScreen
      <4> QED
        BY <1>0, <4>1, EmojiRange
    <3>5. Outcome(m) = "waived"
      BY <3>3, <3>4, OutcomeWaived
    <3>6. Service!UnmarkDone(m)
      BY <1>0, <1>3, <3>1, <3>5 DEF Service!UnmarkDone, Outcomes, Done
    <3> QED
      BY <1>0, <3>6 DEF Served, Service!Next
  <2> QED
    BY <2>4, <2>5
<1>6. ASSUME NEW o, R!Add(j, o), live' # live PROVE Served
  <2>1. step[j] = "add" /\ live' = live \cup {<<j, emoji[j]>>}
    BY <1>6 DEF R!Add
  <2>2. \A n \in Messages : n # m => R!On(n)' = R!On(n)
    BY <2>1, MessageOfJob DEF R!On
  <2>3. CASE Done' = Done
    BY <1>2, <2>3, NothingSeen
  <2>4. CASE Done' # Done
    <3>1. emoji[j] = 3
      <4> SUFFICES ASSUME emoji[j] # 3 PROVE Done' = Done
        BY <2>4
      <4>1. \A r : r[2] = 3 => (r \in live' <=> r \in live)
        BY <2>1
      <4> QED
        BY <4>1 DEF Done, R!On
    <3>2. Done' = Done \cup {m}
      <4>1. <<j, 3>> \in R!On(m)'
        BY <2>1, <3>1, MessageOfJob DEF R!On
      <4>2. m \in Done'
        BY <1>0, <4>1 DEF Done
      <4>3. \A n \in Messages : n # m => (n \in Done' <=> n \in Done)
        BY <2>2 DEF Done
      <4> QED
        BY <4>2, <4>3 DEF Done
    <3>3. phase[j] = "sent"
      BY <1>0, <3>1
    <3>4. Outcome(m) \in {"answered", "waived"}
      BY <1>0, <3>3, OutcomeWaived, OutcomeHow DEF How
    <3>5. Service!MarkDone(m)
      BY <1>0, <1>3, <3>2, <3>4 DEF Service!MarkDone, Outcomes, Done
    <3> QED
      BY <1>0, <3>5 DEF Served, Service!Next
  <2> QED
    BY <2>3, <2>4
<1> QED
  BY <1>4, <1>5, <1>6 DEF SetEmoji, R!Enter, R!Look

LEMMA DeliverServed ==
  ASSUME BotInv, BotInv', NEW m \in Messages, NEW answer \in {"new", "dup", "error"},
         Deliver(m, answer)
  PROVE  Served
<1> USE DEF deliveryVars, reactionVars
<1>6. deliveries[m] \in 0..MaxDeliveries /\ deliveries[m] < MaxDeliveries
  BY DEF BotInv, OwnTypes, Deliver
<1>7. PICK j \in Jobs : j = <<m, deliveries[m] + 1>>
  <2>1. deliveries[m] + 1 \in 1..MaxDeliveries
    BY <1>6, BoundsAssumption
  <2>2. <<m, deliveries[m] + 1>> \in Jobs
    BY <2>1 DEF Jobs
  <2> QED
    BY <2>2
<1>0. /\ UNCHANGED <<phase, lost, final, card, post, live>>
      /\ excused' \in {excused, excused \cup {m}}
      /\ stage[j] = "none" /\ Linked(j) /\ OwnTypes
      /\ \A i \in Jobs : i # j => stage'[i] = stage[i]
  <2>1. stage[j] = "none"
    BY <1>6, <1>7, BoundsAssumption DEF BotInv, Link, Linked
  <2> QED
    BY <1>7, <2>1 DEF Deliver, BotInv, Link, OwnTypes
<1>1. Done' = Done
  BY <1>0, DoneKept
<1>2. ASSUME NEW n \in Messages, n # m PROVE Outcome(n)' = Outcome(n)
  <2>1. Started(n)' = Started(n)
    BY <1>7, <1>0, <1>2 DEF Started
  <2>2. \A i \in Started(n) : i \in Jobs /\ i # j
    BY <1>7, <1>2 DEF Started
  <2>3. n \in excused' <=> n \in excused
    BY <1>0, <1>2
  <2> QED
    BY <1>0, <2>1, <2>2, <2>3, Untouched
<1>3. CASE Waived(m)'
  <2>1. Outcome(m)' = "waived"
    BY <1>3, NextOutcome
  <2> QED
    BY <1>1, <1>2, <2>1, NowWaived
<1>4. CASE ~Waived(m)' /\ stage' = stage
  <2>1. m \notin excused' /\ m \notin excused /\ Started(m)' = Started(m)
    BY <1>0, <1>4 DEF Waived, Started
  <2>2. Outcome(m)' = Outcome(m)
    BY <1>0, <1>4, <2>1, Untouched
  <2> QED
    BY <1>1, <1>2, <2>2, NothingSeen
<1>5. CASE ~Waived(m)' /\ stage' # stage
  <2>1. answer = "new" /\ stage'[j] = "received" /\ m \notin excused
    BY <1>7, <1>0, <1>5 DEF Deliver, Waived, OwnTypes
  <2>2. Started(m) = {}
    BY <2>1 DEF Deliver, BotInv, StartedOnce
  <2>3. Outcome(m) = "unseen"
    BY <2>1, <2>2, OutcomeUnseen
  <2>4. j \in Started(m)' /\ phase'[j] = "idle"
    BY <1>7, <1>0, <2>1 DEF Started, Linked
  <2>5. Outcome(m)' = How(j)'
    BY <1>5, <2>4, NextOutcome
  <2>6. How(j)' = "taken"
    BY <2>1, <2>4 DEF How
  <2>7. Outcomes' = [Outcomes EXCEPT ![m] = "taken"]
    BY <1>2, <2>5, <2>6 DEF Outcomes
  <2>8. Service!Take(m)
    BY <1>1, <2>3, <2>7 DEF Service!Take, Service!Become, Outcomes, Done
  <2> QED
    BY <2>8 DEF Served, Service!Next
<1> QED
  BY <1>3, <1>4, <1>5

LEMMA ForgetServed ==
  ASSUME BotInv', NEW m \in Messages, NEW s, Forget(s, m)
  PROVE  Served
<1> USE DEF deliveryVars, reactionVars
<1>0. /\ UNCHANGED <<phase, lost, final, card, post, live, stage>>
      /\ excused' = excused \cup {m}
  BY DEF Forget
<1>1. Outcome(m)' = "waived"
  BY <1>0, NextOutcome DEF Waived
<1>2. ASSUME NEW n \in Messages, n # m PROVE Outcome(n)' = Outcome(n)
  BY <1>0, <1>2, Untouched DEF Started
<1> QED
  BY <1>0, <1>1, <1>2, DoneKept, NowWaived

LEMMA JobStepServed ==
  ASSUME BotInv, BotInv', NEW j \in Jobs, Job(j) \/ StreamReply(j) \/ Deadline(j)
  PROVE  Served
<1> USE DEF reactionVars, dedupeVars, historyVars, deliveryVars
<1>0. D!TypeOK /\ Linked(j) /\ Linked(j)' /\ OwnTypes
  BY DEF BotInv, DeliveryInv, Link
<1>1. CASE SetEmoji(j)
  BY <1>1, EmojiServed
<1>2. CASE Process(j) \/ Replied(j) \/ Finish(j)
  <2>1. /\ UNCHANGED <<excused, live, phase, lost, final, card, post>>
        /\ stage[j] \in {"received", "replying", "done"}
        /\ stage'[j] \in {"processing", "done", "ended"}
        /\ \A i \in Jobs : i # j => stage'[i] = stage[i]
    BY <1>0, <1>2 DEF Process, Replied, Finish, OwnTypes
  <2>2. How(j)' = How(j)
    BY <2>1 DEF How
  <2> QED
    BY <2>1, <2>2, JobServed
<1>3. CASE StartReply(j)
  <2>1. /\ UNCHANGED <<excused, live>> /\ D!Begin(j)
        /\ stage[j] = "processing" /\ stage'[j] = "replying"
        /\ \A i \in Jobs : i # j => stage'[i] = stage[i]
    BY <1>0, <1>3 DEF StartReply, OwnTypes
  <2>2. /\ phase[j] = "idle" /\ phase'[j] \in {"opening", "answering"}
        /\ UNCHANGED <<lost, final, card, post>>
        /\ \A i \in Jobs : i # j => phase'[i] = phase[i]
    BY <1>0, <2>1, BeginStep
  <2>3. How(j)' = How(j)
    BY <2>1, <2>2 DEF How
  <2> QED
    BY <2>1, <2>2, <2>3, JobServed
<1>4. CASE Reply(j)
  <2>1. UNCHANGED <<excused, live, stage>> /\ D!Work(j) /\ stage[j] = "replying"
    BY <1>4 DEF Reply
  <2>2. phase[j] # "idle"
    BY <1>0, <2>1 DEF Linked
  <2>3. /\ phase[j] \in {"opening", "answering", "settling", "posting"}
        /\ phase'[j] \in {"answering", "settling", "posting", "sent", "failed"}
        /\ lost[j] => lost'[j]
        /\ \A i \in Jobs : i # j =>
             /\ phase'[i] = phase[i] /\ lost'[i] = lost[i] /\ final'[i] = final[i]
             /\ card'[i] = card[i] /\ post'[i] = post[i]
    BY <1>0, <2>1, <2>2, WorkStep
  <2>4. How(j) = "taken" /\ How(j)' \in {"taken", "answered", "refused"}
    BY <2>3 DEF How
  <2> QED
    BY <2>1, <2>3, <2>4, JobServed
<1>5. CASE StreamReply(j)
  <2>1. UNCHANGED <<excused, live, stage>> /\ D!Stream(j) /\ stage[j] = "replying"
    BY <1>5 DEF StreamReply
  <2>2. /\ UNCHANGED <<phase, final, post>>
        /\ lost[j] => lost'[j]
        /\ \A i \in Jobs : i # j => lost'[i] = lost[i] /\ card'[i] = card[i]
    BY <1>0, <2>1, StreamStep
  <2>3. How(j)' = How(j)
    BY <2>1, <2>2 DEF How
  <2> QED
    BY <2>1, <2>2, <2>3, JobServed
<1>6. CASE Deadline(j)
  <2>1. UNCHANGED <<excused, live, stage, phase, lost, final, card, post>>
    BY <1>6 DEF Deadline, D!Expire, D!config, D!local, D!screen
  <2>2. \A m \in Messages : Started(m)' = Started(m)
    BY <2>1 DEF Started
  <2>3. \A m \in Messages : Outcome(m)' = Outcome(m)
    BY <2>1, <2>2, Untouched
  <2> QED
    BY <2>1, <2>3, DoneKept, NothingSeen
<1> QED
  BY <1>1, <1>2, <1>3, <1>4, <1>5, <1>6 DEF Job

(* A restart abandons what was in work and waives what lost its mark.      *)
LEMMA RestartServed ==
  ASSUME BotInv, BotInv', Restart
  PROVE  Served
<1> USE DEF reactionVars, dedupeVars, historyVars, deliveryVars
<1>0. /\ UNCHANGED <<live, lost, final, card, post>> /\ excused \subseteq excused'
      /\ \A i \in Jobs : stage'[i] = IF Running(i) THEN "died" ELSE stage[i]
      /\ \A i \in Jobs : phase'[i] = IF phase[i] \in {"idle", "sent", "failed", "gone"}
                                     THEN phase[i] ELSE "gone"
      /\ \A i \in Jobs : Linked(i)
  BY CrashStep DEF Restart, R!Restart, BotInv, DeliveryInv, Link
<1>1. ASSUME NEW m \in Messages PROVE Started(m)' = Started(m)
  <2>1. \A i \in Jobs : stage'[i] # "none" <=> stage[i] # "none"
    BY <1>0 DEF Running
  <2> QED
    BY <2>1 DEF Started
<1>2. ASSUME NEW m \in Messages
      PROVE  \/ Outcome(m)' \in {Outcome(m), "waived"}
             \/ Outcome(m) = "taken" /\ Outcome(m)' = "abandoned"
  <2>1. CASE Waived(m)'
    BY <2>1, NextOutcome
  <2>2. CASE ~Waived(m)'
    <3>1. ~Waived(m) /\ m \notin excused
      BY <1>0, <1>1, <2>2 DEF Waived
    <3>2. CASE Started(m) = {}
      BY <1>1, <2>2, <3>1, <3>2, NextOutcome, OutcomeUnseen
    <3>3. ASSUME NEW j \in Started(m)
          PROVE  \/ Outcome(m)' = Outcome(m)
                 \/ Outcome(m) = "taken" /\ Outcome(m)' = "abandoned"
      <4>1. Outcome(m) = How(j) /\ Outcome(m)' = How(j)'
        BY <1>1, <2>2, <3>1, <3>3, NextOutcome, OutcomeHow
      <4>2. \/ How(j)' = How(j)
            \/ How(j) = "taken" /\ How(j)' = "abandoned"
        <5>1. j \in Jobs /\ Linked(j) /\ stage[j] \in Stages \ {"none"}
          BY <1>0, <3>3 DEF Started, BotInv, OwnTypes
        <5>2. CASE Running(j)
          <6>1. stage'[j] = "died" /\ stage[j] \in {"received", "processing", "replying", "done"}
            BY <1>0, <5>1, <5>2 DEF Running
          <6> QED
            BY <1>0, <5>1, <6>1 DEF How, Linked
        <5>3. CASE ~Running(j)
          <6>1. stage'[j] = stage[j] /\ stage[j] \in {"ended", "died"}
            BY <1>0, <5>1, <5>3 DEF Running, Stages
          <6>2. phase'[j] = phase[j]
            BY <1>0, <5>1, <6>1 DEF Linked
          <6> QED
            BY <6>1, <6>2 DEF How
        <5> QED
          BY <5>2, <5>3
      <4> QED
        BY <4>1, <4>2
    <3> QED
      BY <3>2, <3>3
  <2> QED
    BY <2>1, <2>2
<1> DEFINE abandoned == {m \in Messages : Outcome(m) = "taken" /\ Outcome(m)' = "abandoned"}
           waived == {m \in Messages : Outcome(m)' = "waived"}
<1>3. /\ abandoned \in SUBSET Messages /\ waived \in SUBSET Messages
      /\ \A m \in abandoned : Outcomes[m] = "taken"
  BY DEF Outcomes
<1>4. Outcomes' = [m \in Messages |->
                     CASE m \in waived -> "waived"
                       [] m \in abandoned \ waived -> "abandoned"
                       [] OTHER -> Outcomes[m]]
  BY <1>2 DEF Outcomes
<1> HIDE DEF abandoned, waived
<1>5. \E a, w \in SUBSET Messages :
        /\ \A m \in a : Outcomes[m] = "taken"
        /\ Outcomes' = [m \in Messages |->
                          CASE m \in w -> "waived"
                            [] m \in a \ w -> "abandoned"
                            [] OTHER -> Outcomes[m]]
  BY <1>3, <1>4
<1>6. Done' = Done
  BY <1>0, DoneKept
<1>7. Service!Interrupt
  BY <1>5, <1>6 DEF Service!Interrupt, Outcomes, Done
<1> QED
  BY <1>7 DEF Served, Service!Next

LEMMA ServiceInit == Init => Service!Init
<1> SUFFICES ASSUME Init PROVE Service!Init
  OBVIOUS
<1>1. \A m \in Messages : Outcome(m) = "unseen"
  BY OutcomeUnseen DEF Init, Started
<1>2. Done = {}
  BY DEF Init, R!Init, Done, R!On
<1> QED
  BY <1>1, <1>2 DEF Service!Init, Done

LEMMA ServiceStep == BotInv /\ BotInv' /\ [Next]_vars => Served
<1> SUFFICES ASSUME BotInv, BotInv', [Next]_vars PROVE Served
  OBVIOUS
<1>1. CASE UNCHANGED vars
  <2>1. UNCHANGED <<excused, live, stage, phase, lost, final, card, post>>
    BY <1>1 DEF vars, deliveryVars, reactionVars, dedupeVars, historyVars
  <2>2. \A m \in Messages : Started(m)' = Started(m)
    BY <2>1 DEF Started
  <2>3. \A m \in Messages : Outcome(m)' = Outcome(m)
    BY <2>1, <2>2, Untouched
  <2> QED
    BY <2>1, <2>3, DoneKept, NothingSeen
<1> QED
  BY <1>1, DeliverServed, ForgetServed, JobStepServed, RestartServed DEF Next

(* However deliveries, deadlines, failing calls and restarts interleave,   *)
(* the bot implements AnswerService: each message is taken up once, ends   *)
(* in one way for good, and is called done only when it was answered.      *)
THEOREM PromiseKept == Spec => KeepsPromise
<1>1. Served => [Service!Next]_(Service!vars)
  BY DEF Served
<1> QED
  BY <1>1, ServiceInit, ServiceStep, BotInvAlways, PTL DEF Spec, KeepsPromise, Service!Spec

-----------------------------------------------------------------------------
(* A mark stands for a delivery, and a delivery for a job, unless redis    *)
(* took the first for a repeat.                                            *)
TakenUp(m) ==
  /\ \A s \in Stores : m \in marked[s] => deliveries[m] > 0
  /\ deliveries[m] > 0 /\ m \notin swallowed => Started(m) # {}

AllTakenUp == \A m \in Messages : TakenUp(m)

LEMMA AllTakenUpStep == OwnTypes /\ AllTakenUp /\ [Next]_vars => AllTakenUp'
<1> SUFFICES ASSUME OwnTypes, AllTakenUp, [Next]_vars, NEW m \in Messages
             PROVE  TakenUp(m)'
  BY DEF AllTakenUp
<1> USE DEF OwnTypes, storeVars, historyVars, dedupeVars
<1>0. TakenUp(m)
  BY DEF AllTakenUp
<1>1. ASSUME NEW n \in Messages, NEW answer \in {"new", "dup", "error"}, Deliver(n, answer)
      PROVE  TakenUp(m)'
  <2>1. \A s \in Stores : marked'[s] \subseteq marked[s] \cup {n}
    BY <1>1 DEF Deliver, Marked
  <2>2. CASE n # m
    <3>1. Started(m)' = Started(m)
      BY <1>1, <2>2 DEF Deliver, Started
    <3> QED
      BY <1>0, <1>1, <2>1, <2>2, <3>1 DEF TakenUp, Deliver
  <2>3. CASE n = m
    <3>1. deliveries'[m] > 0
      BY <1>1, <2>3 DEF Deliver
    <3>2. CASE answer = "dup" /\ m \in marked[store]
      <4>1. deliveries[m] > 0
        BY <1>0, <3>2 DEF TakenUp
      <4>2. stage' = stage /\ swallowed' = swallowed
        BY <1>1, <2>3, <3>2 DEF Deliver
      <4> QED
        BY <1>0, <3>1, <4>1, <4>2 DEF TakenUp, Started
    <3>3. CASE answer = "dup" /\ m \notin marked[store]
      BY <1>1, <2>3, <3>1, <3>3 DEF Deliver, TakenUp
    <3>4. CASE answer # "dup"
      <4>1. <<m, deliveries[m] + 1>> \in Jobs
        BY <1>1, <2>3, BoundsAssumption DEF Deliver, Jobs
      <4>2. <<m, deliveries[m] + 1>> \in Started(m)'
        BY <1>1, <2>3, <3>4, <4>1 DEF Deliver, Started
      <4> QED
        BY <3>1, <4>2 DEF TakenUp
    <3> QED
      BY <3>2, <3>3, <3>4
  <2> QED
    BY <2>2, <2>3
<1>2. ASSUME NEW n \in Messages, NEW s \in Stores, Forget(s, n) PROVE TakenUp(m)'
  BY <1>0, <1>2 DEF Forget, TakenUp, Started
<1>3. ASSUME NEW j \in Jobs, Job(j) \/ StreamReply(j) \/ Deadline(j) PROVE TakenUp(m)'
  <2>1. UNCHANGED <<marked, deliveries, swallowed>>
    BY <1>3 DEF Job, SetEmoji, Process, StartReply, Reply, Replied, Finish,
                StreamReply, Deadline
  <2>2. \A i \in Jobs : stage'[i] # "none" <=> stage[i] # "none"
    BY <1>3 DEF Job, SetEmoji, EmojiAt, Process, StartReply, Reply, Replied, Finish,
                StreamReply, Deadline
  <2> QED
    BY <1>0, <2>1, <2>2 DEF TakenUp, Started
<1>4. CASE Restart
  <2>1. \A i \in Jobs : stage'[i] # "none" <=> stage[i] # "none"
    BY <1>4 DEF Restart, Running
  <2>2. \A s \in Stores : marked'[s] \subseteq marked[s]
    BY <1>4 DEF Restart
  <2> QED
    BY <1>0, <1>4, <2>1, <2>2 DEF TakenUp, Started, Restart
<1>5. CASE UNCHANGED vars
  BY <1>0, <1>5 DEF vars, TakenUp, Started
<1> QED
  BY <1>1, <1>2, <1>3, <1>4, <1>5 DEF Next

AtRest(m) == \A j \in Started(m) : ~Running(j)

(* A message that was delivered and not taken for a repeat by redis has an *)
(* outcome once no job of its is running.                                  *)
NoneIsDropped ==
  \A m \in Messages :
    deliveries[m] > 0 /\ m \notin swallowed /\ AtRest(m) => Answered(m) \/ Refused(m)

(* Once the jobs of a delivered message are at rest it was answered, or    *)
(* Feishu refused the reply, or the process died under it: neither marks,  *)
(* restarts nor repeats leave a message that nobody took up.               *)
THEOREM NobodyIsDropped == Spec => []NoneIsDropped
<1>1. Init => AllTakenUp
  BY DEF Init, AllTakenUp, TakenUp
<1>2. BotInv /\ AllTakenUp => NoneIsDropped
  <2> SUFFICES ASSUME BotInv, AllTakenUp, NEW m \in Messages, deliveries[m] > 0,
                      m \notin swallowed, AtRest(m)
               PROVE  Answered(m) \/ Refused(m)
    BY DEF NoneIsDropped
  <2>1. PICK j \in Started(m) : TRUE
    BY DEF AllTakenUp, TakenUp
  <2>2. stage[j] \in {"ended", "died"}
    BY DEF AtRest, Started, Running, BotInv, OwnTypes, Stages
  <2> QED
    BY <2>1, <2>2 DEF BotInv, Link, Linked, Started, Answered, Refused
<1> QED
  BY <1>1, <1>2, AllTakenUpStep, OwnTypesAlways, BotInvAlways, PTL DEF Spec

-----------------------------------------------------------------------------
(* A job on its way sets only the emoji of its stage; one that has not     *)
(* begun has set none.                                                     *)
Sets(j) ==
  /\ stage[j] = "none" => step[j] = "rest" /\ emoji[j] = 0
  /\ Running(j) => step[j] # "gone"
  /\ Running(j) /\ step[j] # "rest" =>
       stage[j] \in DOMAIN EmojiAt /\ emoji[j] = EmojiAt[stage[j]]

AllSet == \A j \in Jobs : Sets(j)

LEMMA Moving ==
  ASSUME RP!TypeOK, NEW j \in Jobs, SetEmoji(j)
  PROVE  /\ UNCHANGED <<stage, phase>> /\ stage[j] \in DOMAIN EmojiAt
         /\ \A i \in Jobs : i # j => step'[i] = step[i] /\ emoji'[i] = emoji[i]
         /\ \/ /\ step[j] = "rest" /\ step'[j] = "look"
               /\ emoji[j] < EmojiAt[stage[j]] /\ emoji'[j] = EmojiAt[stage[j]]
            \/ step[j] = "look" /\ step'[j] \in {"remove", "add"} /\ emoji' = emoji
            \/ step[j] = "remove" /\ step'[j] = "add" /\ emoji' = emoji
            \/ step[j] = "add" /\ step'[j] = "rest" /\ emoji' = emoji
<1> USE DEF RP!TypeOK
<1>1. UNCHANGED <<stage, phase>> /\ stage[j] \in DOMAIN EmojiAt
  BY DEF SetEmoji, deliveryVars
<1>2. CASE R!Enter(j, EmojiAt[stage[j]])
  BY <1>1, <1>2 DEF R!Enter
<1>3. CASE R!Look(j)
  BY <1>1, <1>3 DEF R!Look
<1>4. ASSUME NEW o, R!Remove(j, o)
      PROVE  /\ \A i \in Jobs : i # j => step'[i] = step[i] /\ emoji'[i] = emoji[i]
             /\ step[j] = "remove" /\ step'[j] = "add" /\ emoji' = emoji
  BY <1>1, <1>4 DEF R!Remove
<1>5. ASSUME NEW o, R!Add(j, o)
      PROVE  /\ \A i \in Jobs : i # j => step'[i] = step[i] /\ emoji'[i] = emoji[i]
             /\ step[j] = "add" /\ step'[j] = "rest" /\ emoji' = emoji
  BY <1>1, <1>5 DEF R!Add
<1> QED
  BY <1>1, <1>2, <1>3, <1>4, <1>5 DEF SetEmoji

LEMMA AllSetStep == RP!TypeOK /\ OwnTypes /\ Link /\ EmojisTell /\ AllSet /\ [Next]_vars => AllSet'
<1> SUFFICES ASSUME RP!TypeOK, OwnTypes, Link, EmojisTell, AllSet, [Next]_vars, NEW i \in Jobs
             PROVE  Sets(i)'
  BY DEF AllSet
<1>0. Sets(i) /\ Linked(i) /\ EmojiOf(i) /\ stage \in [Jobs -> Stages]
  BY DEF AllSet, Link, EmojisTell, OwnTypes
<1>1. ASSUME NEW m \in Messages, NEW answer, Deliver(m, answer) PROVE Sets(i)'
  <2>1. UNCHANGED <<step, emoji>>
    BY <1>1 DEF Deliver, reactionVars
  <2>2. stage'[i] = stage[i] \/ (stage[i] = "none" /\ stage'[i] = "received")
    <3>1. CASE i = <<m, deliveries[m] + 1>>
      <4>1. deliveries[m] \in Nat
        BY BoundsAssumption DEF OwnTypes
      <4>2. stage[i] = "none"
        BY <1>0, <3>1, <4>1 DEF Linked
      <4> QED
        BY <1>0, <1>1, <4>2 DEF Deliver
    <3>2. CASE i # <<m, deliveries[m] + 1>>
      BY <1>0, <1>1, <3>2 DEF Deliver
    <3> QED
      BY <3>1, <3>2
  <2> QED
    BY <1>0, <2>1, <2>2 DEF Sets, Running
<1>2. ASSUME NEW m \in Messages, NEW s, Forget(s, m) PROVE Sets(i)'
  BY <1>0, <1>2 DEF Forget, reactionVars, Sets, Running
<1>3. ASSUME NEW j \in Jobs, SetEmoji(j) PROVE Sets(i)'
  <2>1. CASE i = j
    BY <1>0, <1>3, <2>1, Moving DEF Sets, Running, EmojiAt
  <2>2. CASE i # j
    BY <1>0, <1>3, <2>2, Moving DEF Sets, Running
  <2> QED
    BY <2>1, <2>2
<1>4. ASSUME NEW j \in Jobs, Process(j) \/ StartReply(j) \/ Replied(j) \/ Finish(j)
      PROVE  Sets(i)'
  <2>1. UNCHANGED <<step, emoji>>
    BY <1>4 DEF Process, StartReply, Replied, Finish, reactionVars
  <2>2. CASE i = j
    <3>1. step[j] \in {"rest", "gone"} /\ Running(j) /\ stage'[j] # "none"
      BY <1>0, <1>4, <2>2
         DEF Process, StartReply, Replied, Finish, EmojiSet, EmojiOf, Running
    <3> QED
      BY <1>0, <2>1, <2>2, <3>1 DEF Sets
  <2>3. CASE i # j
    <3>1. stage'[i] = stage[i]
      BY <1>0, <1>4, <2>3 DEF Process, StartReply, Replied, Finish
    <3> QED
      BY <1>0, <2>1, <3>1 DEF Sets, Running
  <2> QED
    BY <2>2, <2>3
<1>5. ASSUME NEW j \in Jobs, Reply(j) \/ StreamReply(j) \/ Deadline(j) PROVE Sets(i)'
  BY <1>0, <1>5 DEF Reply, StreamReply, Deadline, reactionVars, Sets, Running
<1>6. CASE Restart
  <2>1. /\ emoji' = emoji
        /\ step' = [k \in Jobs |-> IF emoji[k] = 0 THEN "rest" ELSE "gone"]
        /\ stage' = [k \in Jobs |-> IF Running(k) THEN "died" ELSE stage[k]]
    BY <1>6 DEF Restart, R!Restart
  <2> QED
    BY <1>0, <2>1 DEF Sets, Running
<1>7. CASE UNCHANGED vars
  BY <1>0, <1>7 DEF vars, reactionVars, Sets, Running
<1> QED
  BY <1>1, <1>2, <1>3, <1>4, <1>5, <1>6, <1>7 DEF Next, Job

-----------------------------------------------------------------------------
(* What a job has before it: the stages, within one the phases of its      *)
(* reply, and the steps of its emoji.                                      *)
StageLeft == [none |-> 5, received |-> 4, processing |-> 3, replying |-> 2, done |-> 1,
              ended |-> 0, died |-> 0]
PhaseLeft == [idle |-> 5, opening |-> 4, answering |-> 3, settling |-> 2, posting |-> 1,
              sent |-> 0, failed |-> 0, gone |-> 0]
EmojiLeft(j) ==
  CASE step[j] = "look" -> 3
    [] step[j] = "remove" -> 2
    [] step[j] = "add" -> 1
    [] OTHER -> IF stage[j] \in DOMAIN EmojiAt /\ emoji[j] < EmojiAt[stage[j]] THEN 4 ELSE 0

Advances(j) ==
  \/ StageLeft[stage'[j]] < StageLeft[stage[j]]
  \/ /\ stage'[j] = stage[j]
     /\ \/ PhaseLeft[phase'[j]] < PhaseLeft[phase[j]]
        \/ phase'[j] = phase[j] /\ EmojiLeft(j)' < EmojiLeft(j)

StandsStill(j) ==
  stage'[j] = stage[j] /\ phase'[j] = phase[j] /\ EmojiLeft(j)' = EmojiLeft(j)

(* A step of a running job brings it nearer its end; whatever else happens *)
(* leaves it where it is, or ends it.                                      *)
JobsRunDown ==
  \A j \in Jobs : Running(j) => (Job(j) => Advances(j)) /\ (Advances(j) \/ StandsStill(j))

LEMMA WorkAdvances ==
  ASSUME D!TypeOK, NEW j \in Jobs, D!Work(j)
  PROVE  PhaseLeft[phase'[j]] < PhaseLeft[phase[j]]
<1> USE DEF D!TypeOK, D!Phases, D!Ended, PhaseLeft
<1>1. CASE D!Begin(j)
  BY <1>1 DEF D!Begin
<1>2. ASSUME NEW o, D!Open(j, o) \/ D!Settle(j, o) \/ D!Post(j, o)
      PROVE  PhaseLeft[phase'[j]] < PhaseLeft[phase[j]]
  BY <1>2 DEF D!Open, D!Settle, D!Post
<1>3. ASSUME NEW t, D!Answer(j, t) \/ D!Apologise(j)
      PROVE  PhaseLeft[phase'[j]] < PhaseLeft[phase[j]]
  BY <1>3 DEF D!Answer, D!Apologise
<1> QED
  BY <1>1, <1>2, <1>3 DEF D!Work

LEMMA WorkOthers ==
  ASSUME D!TypeOK, NEW j \in Jobs, D!Work(j), NEW i \in Jobs, i # j
  PROVE  phase'[i] = phase[i]
<1>1. D!Begin(j) => phase'[i] = phase[i]
  BY DEF D!Begin, D!TypeOK
<1>2. phase[j] # "idle" => phase'[i] = phase[i]
  BY WorkStep
<1>3. phase[j] = "idle" => D!Begin(j)
  BY DEF D!Work, D!Open, D!Settle, D!Post, D!Answer, D!Apologise
<1> QED
  BY <1>1, <1>2, <1>3

LEMMA EmojiAdvances ==
  ASSUME RP!TypeOK, AllSet, NEW j \in Jobs, SetEmoji(j)
  PROVE  Advances(j)
<1>1. stage[j] \in {"received", "processing", "done"} /\ UNCHANGED <<stage, phase>>
  BY Moving DEF EmojiAt
<1>2. EmojiLeft(j)' < EmojiLeft(j)
  <2>1. CASE step[j] = "rest"
    BY <1>1, <2>1, Moving DEF EmojiLeft, EmojiAt
  <2>2. CASE step[j] = "look"
    BY <1>1, <2>2, Moving DEF EmojiLeft
  <2>3. CASE step[j] = "remove"
    BY <1>1, <2>3, Moving DEF EmojiLeft
  <2>4. CASE step[j] = "add"
    <3>1. emoji'[j] = EmojiAt[stage'[j]] /\ step'[j] = "rest"
      BY <1>1, <2>4, Moving DEF AllSet, Sets, Running
    <3>2. EmojiAt[stage'[j]] \in 1..3
      BY <1>1 DEF EmojiAt
    <3>3. EmojiLeft(j)' = 0
      BY <3>1, <3>2 DEF EmojiLeft
    <3>4. EmojiLeft(j) = 1
      BY <2>4 DEF EmojiLeft
    <3> QED
      BY <3>3, <3>4
  <2> QED
    BY <2>1, <2>2, <2>3, <2>4, Moving
<1> QED
  BY <1>1, <1>2 DEF Advances

LEMMA JobAdvances ==
  ASSUME D!TypeOK, RP!TypeOK, OwnTypes, AllSet, NEW j \in Jobs, Job(j)
  PROVE  Advances(j)
<1> USE DEF OwnTypes, Stages
<1>1. CASE SetEmoji(j)
  BY <1>1, EmojiAdvances
<1>2. CASE Process(j) \/ StartReply(j) \/ Replied(j) \/ Finish(j)
  BY <1>2 DEF Process, StartReply, Replied, Finish, Advances, StageLeft
<1>3. CASE Reply(j)
  BY <1>3, WorkAdvances DEF Reply, Advances
<1> QED
  BY <1>1, <1>2, <1>3 DEF Job

(* A step of another job, of the deduper or of time. *)
LEMMA LeftAlone ==
  ASSUME NEW j \in Jobs, stage'[j] = stage[j], phase'[j] = phase[j],
         step'[j] = step[j], emoji'[j] = emoji[j]
  PROVE  StandsStill(j)
  BY DEF StandsStill, EmojiLeft

JobInv == BotInv /\ AllSet

LEMMA JobsAdvance == JobInv /\ Next => JobsRunDown
<1> SUFFICES ASSUME JobInv, Next, NEW i \in Jobs, Running(i)
             PROVE  (Job(i) => Advances(i)) /\ (Advances(i) \/ StandsStill(i))
  BY DEF JobsRunDown
<1>0. /\ D!TypeOK /\ RP!TypeOK /\ OwnTypes /\ AllSet
      /\ Linked(i) /\ stage[i] \in Stages
  BY DEF JobInv, BotInv, DeliveryInv, RP!Inv, Link, OwnTypes
<1>1. Job(i) => Advances(i)
  BY <1>0, JobAdvances
<1>2. ASSUME NEW m \in Messages, NEW answer, Deliver(m, answer) PROVE StandsStill(i)
  <2>1. UNCHANGED <<phase, step, emoji>>
    BY <1>2 DEF Deliver, deliveryVars, reactionVars
  <2>2. i # <<m, deliveries[m] + 1>>
    <3>1. deliveries[m] \in Nat
      BY <1>0, BoundsAssumption DEF OwnTypes
    <3> QED
      BY <1>0, <3>1 DEF Linked, Running
  <2>3. stage'[i] = stage[i]
    BY <1>2, <2>2 DEF Deliver
  <2> QED
    BY <2>1, <2>3, LeftAlone
<1>3. ASSUME NEW m \in Messages, NEW s, Forget(s, m) PROVE StandsStill(i)
  <2>1. UNCHANGED <<stage, phase, step, emoji>>
    BY <1>3 DEF Forget, deliveryVars, reactionVars
  <2> QED
    BY <2>1, LeftAlone
<1>4. ASSUME NEW j \in Jobs, j # i, Job(j) PROVE StandsStill(i)
  <2>1. stage'[i] = stage[i]
    BY <1>0, <1>4 DEF OwnTypes, Job, SetEmoji, Process, StartReply, Reply, Replied, Finish
  <2>2. phase'[i] = phase[i]
    <3>1. CASE StartReply(j) \/ Reply(j)
      <4>1. D!Work(j)
        BY <3>1 DEF StartReply, Reply, D!Work
      <4> QED
        BY <1>0, <1>4, <4>1, WorkOthers
    <3>2. CASE SetEmoji(j) \/ Process(j) \/ Replied(j) \/ Finish(j)
      BY <3>2 DEF SetEmoji, Process, Replied, Finish, deliveryVars
    <3> QED
      BY <1>4, <3>1, <3>2 DEF Job
  <2>3. step'[i] = step[i] /\ emoji'[i] = emoji[i]
    BY <1>0, <1>4, Moving
       DEF Job, Process, StartReply, Reply, Replied, Finish, reactionVars
  <2> QED
    BY <2>1, <2>2, <2>3, LeftAlone
<1>5. ASSUME NEW j \in Jobs, StreamReply(j) \/ Deadline(j) PROVE StandsStill(i)
  <2>1. UNCHANGED <<stage, step, emoji>>
    BY <1>5 DEF StreamReply, Deadline, reactionVars
  <2>2. phase' = phase
    BY <1>0, <1>5, StreamStep DEF StreamReply, Deadline, D!Expire
  <2> QED
    BY <2>1, <2>2, LeftAlone
<1>6. CASE Restart
  BY <1>0, <1>6 DEF Restart, Running, Advances, StageLeft
<1> QED
  BY <1>1, <1>2, <1>3, <1>4, <1>5, <1>6 DEF Next

(* However failing calls, repeats and deadlines fall, each step of a job   *)
(* brings it nearer its end, and nothing takes it back: no job goes round. *)
THEOREM JobsOnlyAdvance == Spec => [][JobsRunDown]_vars
<1>1. JobInv /\ [Next]_vars => [JobsRunDown]_vars
  BY JobsAdvance
<1>2. Init => AllSet
  BY DEF Init, R!Init, AllSet, Sets, Running
<1>3. BotInv /\ AllSet /\ [Next]_vars => AllSet'
  BY AllSetStep DEF BotInv, RP!Inv
<1>4. BotInv /\ AllSet => JobInv
  BY DEF JobInv
<1> QED
  BY <1>1, <1>2, <1>3, <1>4, BotInvAlways, PTL DEF Spec
=============================================================================
