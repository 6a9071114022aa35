----------------------------- MODULE QQBotProofs -----------------------------
(* Proofs about QQBot, for any messages, event ids and bounds: a message   *)
(* is answered once, the platform is not told 200 of every delivery of an  *)
(* unanswered one, and the bot implements AnswerService.                   *)
EXTENDS QQBot, FiniteSetTheorems, TLAPS

TypeOK ==
  /\ dedupeStore \in Stores /\ store \in Stores
  /\ marked \in [Stores -> SUBSET Keys]
  /\ deliveries \in [Messages -> 0..MaxDeliveries]
  /\ event \in [Requests -> EventIds \cup {NoId}]
  /\ stage \in [Requests -> AtWork \cup {"none", "ended", "died"}]
  /\ code \in [Requests -> {"none", "ack", "bad gateway"}]
  /\ shown \subseteq Requests /\ lost \subseteq shown
  /\ restarts \in 0..MaxRestarts
  /\ excused \subseteq Messages /\ swallowed \subseteq excused

LEMMA KeyIsKey ==
  /\ \A m \in Messages, e \in EventIds \cup {NoId} : Key(m, e) \in Keys
  /\ \A k \in Keys : k[2] \in Messages
  BY DEF Keys, Key

LEMMA NextDelivery ==
  ASSUME NEW m \in Messages, deliveries \in [Messages -> 0..MaxDeliveries],
         deliveries[m] < MaxDeliveries
  PROVE  deliveries[m] + 1 \in 0..MaxDeliveries
  BY BoundsAssumption

LEMMA TypeInit == Init => TypeOK
  BY BoundsAssumption DEF Init, TypeOK, Available, Stores

LEMMA TypeStep == TypeOK /\ [Next]_vars => TypeOK'
<1> SUFFICES ASSUME TypeOK, [Next]_vars PROVE TypeOK'
  OBVIOUS
<1> USE BoundsAssumption DEF TypeOK, Stores, storeVars, screenVars, AtWork
<1>1. ASSUME NEW m \in Messages, Ignore(m) PROVE TypeOK'
  <2>1. deliveries' \in [Messages -> 0..MaxDeliveries]
    <3>1. deliveries[m] + 1 \in 0..MaxDeliveries
      BY <1>1, NextDelivery DEF Ignore
    <3> QED
      BY <1>1, <3>1 DEF Ignore
  <2>2. /\ stage' \in [Requests -> AtWork \cup {"none", "ended", "died"}]
        /\ code' \in [Requests -> {"none", "ack", "bad gateway"}]
    BY <1>1 DEF Ignore
  <2> QED
    BY <1>1, <2>1, <2>2 DEF Ignore
<1>2. ASSUME NEW m \in Messages, NEW e \in EventIds \cup {NoId},
             NEW answer \in {"new", "dup", "error"}, Deliver(m, e, answer)
      PROVE  TypeOK'
  <2>1. marked' \in [Stores -> SUBSET Keys]
    <3>1. Key(m, e) \in Keys
      BY KeyIsKey
    <3>2. Marked(Key(m, e)) \in [Stores -> SUBSET Keys]
      BY <3>1 DEF Marked
    <3>3. marked' \in {marked, Marked(Key(m, e))}
      BY <1>2 DEF Deliver
    <3> QED
      BY <3>2, <3>3
  <2>2. deliveries' \in [Messages -> 0..MaxDeliveries]
    BY <1>2, NextDelivery DEF Deliver
  <2>3. stage' \in [Requests -> AtWork \cup {"none", "ended", "died"}]
    BY <1>2 DEF Deliver
  <2>4. /\ code' \in [Requests -> {"none", "ack", "bad gateway"}]
        /\ event' \in [Requests -> EventIds \cup {NoId}]
    BY <1>2 DEF Deliver
  <2>5. excused' \subseteq Messages /\ swallowed' \subseteq excused'
    BY <1>2 DEF Deliver
  <2> QED
    BY <1>2, <2>1, <2>2, <2>3, <2>4, <2>5 DEF Deliver
<1>3. ASSUME NEW s \in Stores, NEW k \in Keys, Forget(s, k) PROVE TypeOK'
  <2>1. k[2] \in Messages
    BY KeyIsKey
  <2> QED
    BY <1>3, <2>1 DEF Forget
<1>4. ASSUME NEW r \in Requests, HangUp(r) PROVE TypeOK'
  BY <1>4 DEF HangUp
<1>5. ASSUME NEW r \in Requests, Handle(r) PROVE TypeOK'
  BY <1>5 DEF Handle
<1>6. ASSUME NEW r \in Requests, NEW o \in Outcomes(r), Reply(r, o) PROVE TypeOK'
  BY <1>6 DEF Reply
<1>7. CASE Restart
  <2>1. \A k \in Keys : k[2] \in Messages
    BY KeyIsKey
  <2>2. excused' \subseteq Messages /\ swallowed' \subseteq excused'
    <3>1. /\ excused' = excused \cup {k[2] : k \in marked[store] \ marked'[store']}
          /\ swallowed' = swallowed
      BY <1>7 DEF Restart
    <3>2. marked[store] \subseteq Keys
      OBVIOUS
    <3> QED
      BY <2>1, <3>1, <3>2
  <2>3. stage' \in [Requests -> AtWork \cup {"none", "ended", "died"}]
    BY <1>7 DEF Restart
  <2>4. marked' \in [Stores -> SUBSET Keys]
    BY <1>7 DEF Restart
  <2>5. restarts' \in 0..MaxRestarts
    <3>1. restarts \in 0..MaxRestarts /\ restarts < MaxRestarts /\ restarts' = restarts + 1
      BY <1>7 DEF Restart
    <3> HIDE DEF TypeOK
    <3> QED
      BY <3>1
  <2> QED
    BY <1>7, <2>2, <2>3, <2>4, <2>5 DEF Restart, Available
<1>8. CASE UNCHANGED vars
  BY <1>8 DEF vars
<1> QED
  BY <1>1, <1>2, <1>3, <1>4, <1>5, <1>6, <1>7, <1>8 DEF Next, Work

(* The variables always have their types. *)
THEOREM TypeCorrect == Spec => []TypeOK
  BY TypeInit, TypeStep, PTL DEF Spec

-----------------------------------------------------------------------------
(* A request exists once it was delivered; what is on the screen was said  *)
(* by a request that ended; a message without text is never worked on.     *)
Delivered(r) ==
  /\ stage[r] # "none" => r[2] <= deliveries[r[1]]
  /\ r \in shown => stage[r] = "ended"
  /\ r[1] \in Blanks => stage[r] \in {"none", "ended"} /\ r \notin shown

AllDelivered == \A r \in Requests : Delivered(r)

(* Of a message whose mark was kept, the first request alone is worked on; *)
(* its repeats find the mark.                                              *)
Sole(m) ==
  /\ Key(m, event[<<m, 1>>]) \in marked[store]
  /\ \A r \in Began(m) :
       /\ event[r] = event[<<m, 1>>]
       /\ r # <<m, 1>> => stage[r] = "ended" /\ r \notin shown

FirstAlone ==
  \A m \in Messages \ (excused \cup Blanks) : deliveries[m] > 0 => Sole(m)

(* A mark stands for a delivery, and one delivery at least of a message    *)
(* was not just acknowledged.                                              *)
MarksDelivered ==
  \A s \in Stores : \A k \in marked[s] : deliveries[k[2]] > 0

Honest(m) == \E r \in Began(m) : code[r] = "ack" => r \in shown

AllHonest ==
  \A m \in Messages \ (Blanks \cup swallowed) : deliveries[m] > 0 => Honest(m)

Inv == TypeOK /\ AllDelivered /\ FirstAlone /\ MarksDelivered /\ AllHonest

-----------------------------------------------------------------------------
LEMMA DeliveriesCount ==
  ASSUME TypeOK
  PROVE  /\ \A n \in Messages : deliveries[n] \in Nat
         /\ \A m \in Messages :
              deliveries' = [deliveries EXCEPT ![m] = @ + 1] =>
                /\ deliveries'[m] = deliveries[m] + 1
                /\ \A n \in Messages :
                     deliveries'[n] \in Nat /\ deliveries'[n] >= deliveries[n]
<1>1. deliveries \in [Messages -> 0..MaxDeliveries]
  BY DEF TypeOK
<1>2. \A n \in Messages : deliveries[n] \in Nat
  BY <1>1, BoundsAssumption
<1> QED
  BY <1>1, <1>2

LEMMA AllDeliveredInit == Init => AllDelivered
  BY DEF Init, AllDelivered, Delivered

LEMMA AllDeliveredStep == TypeOK /\ AllDelivered /\ [Next]_vars => AllDelivered'
<1> SUFFICES ASSUME TypeOK, AllDelivered, [Next]_vars, NEW r \in Requests
             PROVE  Delivered(r)'
  BY DEF AllDelivered
<1>0. Delivered(r) /\ r[1] \in Messages /\ r[2] \in 1..MaxDeliveries /\ r = <<r[1], r[2]>>
  BY DEF AllDelivered, Requests
<1>00. \A m \in Messages : deliveries[m] \in Nat
  BY DeliveriesCount
<1> USE DEF Delivered, storeVars, screenVars, AtWork
<1>1. ASSUME NEW m \in Messages,
             \/ Ignore(m)
             \/ \E e \in EventIds \cup {NoId}, a \in {"new", "dup", "error"} : Deliver(m, e, a)
      PROVE  Delivered(r)'
  <2>1. UNCHANGED shown
    BY <1>1 DEF Ignore, Deliver
  <2>2. deliveries' = [deliveries EXCEPT ![m] = @ + 1]
    BY <1>1 DEF Ignore, Deliver
  <2>3. deliveries[r[1]] <= deliveries'[r[1]]
    BY <1>0, <2>2, DeliveriesCount
  <2>6. deliveries'[r[1]] \in Nat
    BY <1>0, <2>2, DeliveriesCount
  <2>4. CASE r # <<m, deliveries'[m]>>
    <3>1. stage'[r] = stage[r]
      BY <1>1, <2>4 DEF Ignore, Deliver, TypeOK
    <3> QED
      BY <1>0, <1>00, <2>1, <2>3, <2>6, <3>1
  <2>5. CASE r = <<m, deliveries'[m]>>
    <3>1. r[1] = m /\ r[2] = deliveries'[m] /\ r[2] = deliveries[m] + 1
      BY <2>2, <2>5, DeliveriesCount
    <3>2. stage[r] = "none" /\ r \notin shown
      BY <1>0, <1>00, <3>1
    <3>3. m \in Blanks => stage'[r] = "ended"
      BY <1>1, <2>5 DEF Ignore, Deliver, TypeOK
    <3> QED
      BY <1>00, <2>1, <3>1, <3>2, <3>3
  <2> QED
    BY <2>4, <2>5
<1>2. ASSUME NEW s \in Stores, NEW k \in Keys, Forget(s, k) PROVE Delivered(r)'
  BY <1>0, <1>2 DEF Forget
<1>3. ASSUME NEW q \in Requests, HangUp(q) PROVE Delivered(r)'
  BY <1>0, <1>3 DEF HangUp
<1>4. ASSUME NEW q \in Requests, Handle(q) PROVE Delivered(r)'
  BY <1>0, <1>4 DEF Handle, TypeOK
<1>5. ASSUME NEW q \in Requests, NEW o \in Outcomes(q), Reply(q, o) PROVE Delivered(r)'
  BY <1>0, <1>5 DEF Reply, TypeOK
<1>6. CASE Restart
  BY <1>0, <1>6 DEF Restart, TypeOK
<1>7. CASE UNCHANGED vars
  BY <1>0, <1>7 DEF vars
<1> QED
  BY <1>1, <1>2, <1>3, <1>4, <1>5, <1>6, <1>7 DEF Next, Work

-----------------------------------------------------------------------------
LEMMA MarksInit == Init => MarksDelivered
  BY DEF Init, MarksDelivered

LEMMA MarksStep == TypeOK /\ MarksDelivered /\ [Next]_vars => MarksDelivered'
<1> SUFFICES ASSUME TypeOK, MarksDelivered, [Next]_vars,
                    NEW s \in Stores, NEW k \in marked'[s]
             PROVE  deliveries'[k[2]] > 0
  BY DEF MarksDelivered
<1> USE DEF storeVars, screenVars
<1>0. \A m \in Messages : deliveries[m] \in Nat
  BY DeliveriesCount
<1>1. k \in marked[s] => k[2] \in Messages /\ deliveries[k[2]] > 0
  BY KeyIsKey DEF TypeOK, MarksDelivered
<1>2. ASSUME NEW m \in Messages, Ignore(m) PROVE deliveries'[k[2]] > 0
  <2>1. deliveries' = [deliveries EXCEPT ![m] = @ + 1] /\ k \in marked[s]
    BY <1>2 DEF Ignore
  <2> QED
    BY <1>0, <1>1, <2>1, DeliveriesCount
<1>3. ASSUME NEW m \in Messages, NEW e \in EventIds \cup {NoId},
             NEW a \in {"new", "dup", "error"}, Deliver(m, e, a)
      PROVE  deliveries'[k[2]] > 0
  <2>1. deliveries' = [deliveries EXCEPT ![m] = @ + 1]
    BY <1>3 DEF Deliver
  <2>2. k \in marked[s] \/ k = Key(m, e)
    <3>1. marked' \in {marked, Marked(Key(m, e))}
      BY <1>3 DEF Deliver
    <3> QED
      BY <3>1 DEF Marked, TypeOK
  <2>3. k[2] \in Messages /\ (k[2] = m \/ deliveries[k[2]] > 0)
    BY <1>1, <2>2 DEF Key
  <2> QED
    <3>1. deliveries'[m] > 0
      <4>1. deliveries'[m] = deliveries[m] + 1 /\ deliveries[m] \in Nat
        BY <2>1, DeliveriesCount
      <4> QED
        BY <4>1
    <3>2. deliveries[k[2]] > 0 => deliveries'[k[2]] > 0
      BY <1>0, <2>1, <2>3, DeliveriesCount
    <3> QED
      BY <2>3, <3>1, <3>2
<1>4. ASSUME NEW t \in Stores, NEW l \in Keys, Forget(t, l) PROVE deliveries'[k[2]] > 0
  <2>1. k \in marked[s] /\ deliveries' = deliveries
    BY <1>4 DEF Forget, TypeOK
  <2> QED
    BY <1>1, <2>1
<1>5. ASSUME NEW q \in Requests, HangUp(q) \/ Handle(q) \/ \E o \in Outcomes(q) : Reply(q, o)
      PROVE  deliveries'[k[2]] > 0
  BY <1>1, <1>5 DEF HangUp, Handle, Reply
<1>6. CASE Restart
  <2>1. k \in marked[s] /\ deliveries' = deliveries
    BY <1>6 DEF Restart, TypeOK
  <2> QED
    BY <1>1, <2>1
<1>7. CASE UNCHANGED vars
  BY <1>1, <1>7 DEF vars
<1> QED
  BY <1>2, <1>3, <1>4, <1>5, <1>6, <1>7 DEF Next, Work

-----------------------------------------------------------------------------
(* What a delivery leaves of the requests there were. *)
LEMMA Earlier ==
  ASSUME TypeOK, NEW m \in Messages, NEW n \in Messages,
         deliveries' = [deliveries EXCEPT ![n] = @ + 1]
  PROVE  /\ Began(m) \subseteq Began(m)'
         /\ <<n, deliveries'[n]>> \notin Began(m)
         /\ Began(m)' \subseteq Began(m) \cup {<<n, deliveries'[n]>>}
         /\ m # n => Began(m)' = Began(m)
<1>1. /\ deliveries[m] \in Nat /\ deliveries'[m] \in Nat /\ deliveries'[m] >= deliveries[m]
      /\ deliveries'[n] = deliveries[n] + 1 /\ deliveries[n] \in Nat
  BY DeliveriesCount
<1>2. m # n => deliveries'[m] = deliveries[m]
  BY DEF TypeOK
<1>3. \A r \in Requests : r[1] \in Messages /\ r[2] \in Nat /\ r = <<r[1], r[2]>>
  BY DEF Requests
<1>4. Began(m) \subseteq Began(m)'
  BY <1>1, <1>3 DEF Began
<1>5. <<n, deliveries'[n]>> \notin Began(m)
  BY <1>1, <1>2 DEF Began
<1>6. ASSUME NEW r \in Began(m)', r \notin Began(m) PROVE m = n /\ r = <<n, deliveries'[n]>>
  <2>1. r \in Requests /\ r[1] = m /\ r[2] <= deliveries'[m] /\ ~(r[2] <= deliveries[m])
    BY <1>6 DEF Began
  <2>2. m = n
    BY <1>2, <2>1
  <2>3. r[2] = deliveries'[n]
    BY <1>1, <1>3, <2>1, <2>2
  <2> QED
    BY <1>3, <2>1, <2>2, <2>3
<1> QED
  BY <1>4, <1>5, <1>6

LEMMA HonestInit == Init => AllHonest
  BY DEF Init, AllHonest

LEMMA HonestStep ==
  TypeOK /\ MarksDelivered /\ AllHonest /\ [Next]_vars => AllHonest'
<1> SUFFICES ASSUME TypeOK, MarksDelivered, AllHonest, [Next]_vars,
                    NEW m \in Messages, m \notin Blanks, m \notin swallowed',
                    deliveries'[m] > 0
             PROVE  Honest(m)'
  BY DEF AllHonest
<1> USE DEF storeVars, screenVars
<1>0. m \notin swallowed /\ deliveries[m] > 0 => Honest(m)
  BY DEF AllHonest
<1>1. ASSUME NEW n \in Messages, Ignore(n) PROVE Honest(m)'
  <2>1. m # n /\ UNCHANGED <<swallowed, shown>> /\ deliveries' = [deliveries EXCEPT ![n] = @ + 1]
    BY <1>1 DEF Ignore
  <2>2. Began(m)' = Began(m) /\ deliveries'[m] = deliveries[m]
    BY <2>1, Earlier DEF TypeOK
  <2>3. \A r \in Began(m) : code'[r] = code[r]
    <3>1. code' = [code EXCEPT ![<<n, deliveries'[n]>>] = "ack"]
      BY <1>1 DEF Ignore
    <3>2. <<n, deliveries'[n]>> \notin Began(m)
      BY <2>1, Earlier
    <3> QED
      BY <3>1, <3>2 DEF TypeOK, Began
  <2> QED
    BY <1>0, <2>1, <2>2, <2>3 DEF Honest
<1>2. ASSUME NEW n \in Messages, NEW e \in EventIds \cup {NoId},
             NEW a \in {"new", "dup", "error"}, Deliver(n, e, a)
      PROVE  Honest(m)'
  <2> DEFINE q == <<n, deliveries'[n]>>
  <2>1. shown' = shown /\ deliveries' = [deliveries EXCEPT ![n] = @ + 1] /\ m \notin swallowed
    BY <1>2 DEF Deliver
  <2>2. \A r \in Began(m) : r \in Began(m)' /\ code'[r] = code[r]
    <3>1. code' = [code EXCEPT ![q] = IF a = "dup" THEN "ack" ELSE "none"]
      BY <1>2 DEF Deliver
    <3>2. q \notin Began(m) /\ Began(m) \subseteq Began(m)'
      BY <2>1, Earlier
    <3>3. \A r \in Began(m) : code'[r] = code[r]
      BY <3>1, <3>2 DEF TypeOK, Began
    <3> QED
      BY <3>2, <3>3
  <2>3. Honest(m) => Honest(m)'
    BY <2>1, <2>2 DEF Honest
  <2>4. CASE deliveries[m] > 0
    BY <1>0, <2>1, <2>3, <2>4
  <2>5. CASE ~(deliveries[m] > 0)
    <3>1. n = m
      BY <2>1, <2>5 DEF TypeOK
    <3>2. \A s \in Stores : Key(m, e) \notin marked[s]
      BY <2>5 DEF MarksDelivered, Key
    <3>3. a # "dup"
      BY <1>2, <3>1, <3>2 DEF Deliver, TypeOK
    <3>4. q \in Began(m)'
      <4>1. deliveries[n] < MaxDeliveries
        BY <1>2 DEF Deliver
      <4>2. deliveries'[n] = deliveries[n] + 1 /\ deliveries[n] \in Nat
        BY <2>1, DeliveriesCount
      <4>3. q \in Requests
        BY <4>1, <4>2, BoundsAssumption DEF Requests
      <4> QED
        BY <3>1, <4>2, <4>3 DEF Began
    <3>5. code'[q] = "none"
      <4>1. q \in Requests
        BY <3>4 DEF Began
      <4> QED
        BY <1>2, <3>3, <4>1 DEF Deliver, TypeOK
    <3> QED
      BY <3>4, <3>5 DEF Honest
  <2> QED
    BY <2>4, <2>5
<1>3. ASSUME UNCHANGED <<deliveries, swallowed, code, shown>> PROVE Honest(m)'
  BY <1>0, <1>3 DEF Honest, Began
<1>4. ASSUME NEW r \in Requests, NEW o \in Outcomes(r), Reply(r, o) PROVE Honest(m)'
  <2>1. UNCHANGED <<deliveries, swallowed>> /\ shown \subseteq shown'
    BY <1>4 DEF Reply
  <2>2. code'[r] = "ack" => r \in shown'
    BY <1>4 DEF Reply, TypeOK
  <2>3. \A i \in Requests : i # r => code'[i] = code[i]
    BY <1>4 DEF Reply, TypeOK
  <2>4. Began(m)' = Began(m) /\ Began(m) \subseteq Requests
    BY <2>1 DEF Began
  <2>5. PICK i \in Began(m) : code[i] = "ack" => i \in shown
    BY <1>0, <2>1 DEF Honest
  <2> QED
    BY <2>1, <2>2, <2>3, <2>4, <2>5 DEF Honest
<1>5. ASSUME NEW s \in Stores, NEW k \in Keys, Forget(s, k) PROVE Honest(m)'
  BY <1>3, <1>5 DEF Forget
<1>6. ASSUME NEW r \in Requests, HangUp(r) \/ Handle(r) PROVE Honest(m)'
  BY <1>3, <1>6 DEF HangUp, Handle
<1>7. CASE Restart
  BY <1>3, <1>7 DEF Restart
<1>8. CASE UNCHANGED vars
  BY <1>3, <1>8 DEF vars
<1> QED
  BY <1>1, <1>2, <1>4, <1>5, <1>6, <1>7, <1>8 DEF Next, Work

-----------------------------------------------------------------------------
LEMMA FirstInit == Init => FirstAlone
  BY DEF Init, FirstAlone

(* The first request of a message that was delivered. *)
LEMMA FirstBegan ==
  ASSUME TypeOK, NEW m \in Messages, deliveries[m] > 0
  PROVE  <<m, 1>> \in Requests /\ <<m, 1>> \in Began(m)
<1>1. deliveries[m] \in 1..MaxDeliveries
  <2>1. deliveries[m] \in 0..MaxDeliveries
    BY DEF TypeOK
  <2> QED
    BY <2>1, BoundsAssumption
<1>2. <<m, 1>> \in Requests
  BY <1>1, BoundsAssumption DEF Requests
<1> QED
  BY <1>1, <1>2 DEF Began

LEMMA SoleKept ==
  ASSUME TypeOK, NEW m \in Messages, deliveries[m] > 0, Sole(m),
         Began(m)' = Began(m), Key(m, event[<<m, 1>>]) \in marked'[store'],
         \A r \in Began(m) :
           /\ event'[r] = event[r]
           /\ r # <<m, 1>> /\ stage[r] = "ended" => stage'[r] = "ended"
           /\ r # <<m, 1>> /\ r \in shown' => r \in shown
  PROVE  Sole(m)'
<1>1. event'[<<m, 1>>] = event[<<m, 1>>]
  BY FirstBegan
<1> QED
  BY <1>1 DEF Sole

LEMMA FirstStep ==
  TypeOK /\ AllDelivered /\ FirstAlone /\ [Next]_vars => FirstAlone'
<1> SUFFICES ASSUME TypeOK, AllDelivered, FirstAlone, [Next]_vars,
                    NEW m \in Messages, m \notin Blanks, m \notin excused',
                    deliveries'[m] > 0
             PROVE  Sole(m)'
  BY DEF FirstAlone
<1> USE DEF storeVars, screenVars
<1> DEFINE f == <<m, 1>>
<1>0. m \notin excused /\ deliveries[m] > 0 =>
        Sole(m) /\ f \in Began(m) /\ Key(m, event[f]) \in marked[store]
  BY FirstBegan DEF FirstAlone, Sole
<1>00. Began(m) \subseteq Requests /\ \A r \in Began(m) : r[1] = m
  BY DEF Began
<1>1. ASSUME NEW n \in Messages, Ignore(n) PROVE Sole(m)'
  <2> DEFINE q == <<n, deliveries'[n]>>
  <2>1. /\ m # n /\ UNCHANGED <<store, marked, event, excused, shown>>
        /\ deliveries' = [deliveries EXCEPT ![n] = @ + 1]
        /\ stage' = [stage EXCEPT ![q] = "ended"]
    BY <1>1 DEF Ignore
  <2>2. Began(m)' = Began(m) /\ q \notin Began(m) /\ deliveries[m] > 0
    BY <2>1, Earlier DEF TypeOK
  <2>3. \A r \in Began(m) : stage'[r] = stage[r]
    BY <1>00, <2>1, <2>2 DEF TypeOK
  <2> QED
    BY <1>0, <2>1, <2>2, <2>3, SoleKept
<1>2. ASSUME NEW n \in Messages, NEW e \in EventIds \cup {NoId},
             NEW a \in {"new", "dup", "error"}, Deliver(n, e, a)
      PROVE  Sole(m)'
  <2> DEFINE q == <<n, deliveries'[n]>>
  <2>1. /\ UNCHANGED <<store, shown>> /\ m \notin excused
        /\ deliveries' = [deliveries EXCEPT ![n] = @ + 1]
        /\ deliveries[n] < MaxDeliveries
        /\ stage' = [stage EXCEPT ![q] = IF a = "dup" THEN "ended" ELSE "handling"]
        /\ event' = [event EXCEPT ![q] = e]
        /\ n = m => a # "error" /\ \A r \in Began(m) : event[r] = e
    BY <1>2 DEF Deliver
  <2>2. /\ q \notin Began(m) /\ Began(m)' \subseteq Began(m) \cup {q}
        /\ Began(m) \subseteq Began(m)'
        /\ m # n => Began(m)' = Began(m)
    BY <2>1, Earlier
  <2>3. \A r \in Began(m) : stage'[r] = stage[r] /\ event'[r] = event[r]
    BY <1>00, <2>1, <2>2 DEF TypeOK
  <2>4. marked[store] \subseteq marked'[store]
    BY <1>2 DEF Deliver, Marked, TypeOK
  <2>5. CASE n # m
    <3>1. deliveries[m] > 0
      BY <2>1, <2>5 DEF TypeOK
    <3> QED
      BY <1>0, <2>1, <2>2, <2>3, <2>4, <2>5, <3>1, SoleKept
  <2>6. CASE n = m
    <3>1. q \in Requests /\ deliveries'[m] = deliveries[m] + 1 /\ deliveries[m] \in Nat
      <4>1. deliveries'[n] = deliveries[n] + 1 /\ deliveries[n] \in Nat
        BY <2>1, DeliveriesCount
      <4> QED
        BY <2>1, <2>6, <4>1, BoundsAssumption DEF Requests
    <3>2. event'[q] = e
      BY <2>1, <3>1 DEF TypeOK
    <3>3. Key(m, e) \in marked'[store]
      <4>1. marked' = Marked(Key(m, e))
        BY <1>2, <2>1, <2>6 DEF Deliver
      <4> QED
        BY <2>1, <4>1 DEF Marked, TypeOK
    <3>4. CASE deliveries[m] = 0
      <4>1. q = f /\ Began(m) = {}
        <5>1. \A r \in Began(m) : r[2] \in 1..MaxDeliveries /\ r[2] <= 0
          BY <3>4 DEF Began, Requests
        <5> QED
          BY <2>6, <3>1, <3>4, <5>1
      <4> QED
        BY <2>1, <2>2, <3>2, <3>3, <4>1 DEF Sole
    <3>5. CASE deliveries[m] > 0
      <4>1. Key(m, e) \in marked[store] /\ event[f] = e /\ event'[f] = e
        BY <1>0, <2>1, <2>3, <2>6, <3>5
      <4>2. a = "dup"
        BY <1>2, <2>1, <2>6, <4>1 DEF Deliver
      <4>3. stage'[q] = "ended"
        BY <2>1, <3>1, <4>2 DEF TypeOK
      <4>4. q \notin shown
        <5>1. ~(q[2] <= deliveries[q[1]])
          BY <2>6, <3>1
        <5> QED
          BY <3>1, <5>1 DEF AllDelivered, Delivered
      <4> QED
        BY <1>0, <2>1, <2>2, <2>3, <3>2, <3>3, <3>5, <4>1, <4>3, <4>4 DEF Sole
    <3> QED
      BY <3>1, <3>4, <3>5
  <2> QED
    BY <2>5, <2>6
<1>3. ASSUME NEW s \in Stores, NEW k \in Keys, Forget(s, k) PROVE Sole(m)'
  <2>1. k[2] # m /\ m \notin excused /\ UNCHANGED <<store, deliveries, event, stage, shown>>
    BY <1>3 DEF Forget
  <2>2. Key(m, event[f]) # k
    BY <2>1 DEF Key
  <2>3. Began(m)' = Began(m)
    BY <2>1 DEF Began
  <2>4. Key(m, event[f]) \in marked'[store']
    BY <1>0, <1>3, <2>1, <2>2 DEF Forget, TypeOK
  <2> QED
    BY <1>0, <2>1, <2>3, <2>4, SoleKept
<1>4. ASSUME NEW r \in Requests, HangUp(r) PROVE Sole(m)'
  BY <1>0, <1>4, SoleKept DEF HangUp, Began
<1>5. ASSUME NEW r \in Requests, Handle(r) \/ \E o \in Outcomes(r) : Reply(r, o)
      PROVE  Sole(m)'
  <2>1. /\ UNCHANGED <<store, marked, deliveries, event, excused>>
        /\ stage[r] \in {"handling", "replying"}
        /\ \A i \in Requests : i # r => stage'[i] = stage[i] /\ (i \in shown' => i \in shown)
    BY <1>5 DEF Handle, Reply, TypeOK
  <2>2. Began(m)' = Began(m)
    BY <2>1 DEF Began
  <2>3. r \in Began(m) => r = f
    BY <1>0, <2>1 DEF Sole
  <2> QED
    BY <1>0, <1>00, <2>1, <2>2, <2>3, SoleKept
<1>6. CASE Restart
  <2>1. /\ UNCHANGED <<deliveries, event, shown>> /\ m \notin excused
        /\ \A r \in Requests : stage[r] = "ended" => stage'[r] = "ended"
    BY <1>6 DEF Restart, AtWork
  <2>2. Key(m, event[f]) \in marked'[store']
    <3>1. Key(m, event[f])[2] = m
      BY DEF Key
    <3>2. \A k \in marked[store] \ marked'[store'] : k[2] \in excused'
      BY <1>6 DEF Restart
    <3> QED
      BY <1>0, <2>1, <3>1, <3>2
  <2>3. Began(m)' = Began(m)
    BY <2>1 DEF Began
  <2> QED
    BY <1>0, <1>00, <2>1, <2>2, <2>3, SoleKept
<1>7. CASE UNCHANGED vars
  BY <1>0, <1>7, SoleKept DEF vars, Began
<1> QED
  BY <1>1, <1>2, <1>3, <1>4, <1>5, <1>6, <1>7 DEF Next, Work

-----------------------------------------------------------------------------
LEMMA InvAlways == Spec => []Inv
<1>1. Init => Inv
  BY TypeInit, AllDeliveredInit, FirstInit, MarksInit, HonestInit DEF Inv
<1>2. Inv /\ [Next]_vars => Inv'
  BY TypeStep, AllDeliveredStep, FirstStep, MarksStep, HonestStep DEF Inv
<1> QED
  BY <1>1, <1>2, PTL DEF Spec

(* A message whose mark was kept is answered once, however often it is     *)
(* delivered and whatever its requests overlap with.                       *)
THEOREM OneAnswer == Spec => []AnsweredOnce
<1>1. Inv => AnsweredOnce
  <2> SUFFICES ASSUME Inv, NEW m \in Messages \ excused
               PROVE  Cardinality(shown \cap Began(m)) <= 1
    BY DEF AnsweredOnce
  <2>1. shown \cap Began(m) \subseteq {<<m, 1>>}
    <3>1. \A r \in shown \cap Began(m) : r \in Requests /\ r[1] = m /\ deliveries[m] > 0
      <4>1. deliveries[m] \in Nat
        BY DeliveriesCount DEF Inv
      <4>2. \A r \in Requests : r[2] \in 1..MaxDeliveries
        BY DEF Requests
      <4> QED
        BY <4>1, <4>2 DEF Began
    <3> QED
      BY <3>1 DEF Inv, AllDelivered, Delivered, FirstAlone, Sole
  <2>2. shown \cap Began(m) = {} \/ shown \cap Began(m) = {<<m, 1>>}
    BY <2>1
  <2>3. Cardinality({<<m, 1>>}) = 1
    BY FS_Singleton, Zenon
  <2> QED
    BY <2>2, <2>3, FS_EmptySet
<1> QED
  BY <1>1, InvAlways, PTL

(* The platform is told 200 of every delivery only of a message that was   *)
(* answered, or that redis took for a repeat.                              *)
THEOREM NotJustAcknowledged == Spec => []AcknowledgedMeansAnswered
<1>1. Inv => AcknowledgedMeansAnswered
  <2> SUFFICES ASSUME Inv, NEW m \in Messages \ (Blanks \cup swallowed),
                      NEW q \in Began(m), \A r \in Began(m) : code[r] = "ack"
               PROVE  shown \cap Began(m) # {}
    BY DEF AcknowledgedMeansAnswered
  <2>1. deliveries[m] > 0
    <3>1. deliveries[m] \in Nat
      BY DeliveriesCount DEF Inv
    <3>2. q[2] \in 1..MaxDeliveries /\ q[2] <= deliveries[m]
      BY DEF Began, Requests
    <3> QED
      BY <3>1, <3>2
  <2> QED
    BY <2>1 DEF Inv, AllHonest, Honest
<1> QED
  BY <1>1, InvAlways, PTL

-----------------------------------------------------------------------------
(* How the promise sees the steps. *)
Outlook == [m \in Messages |-> Outcome(m)]

Served == Service!Next \/ UNCHANGED Service!vars

(* A step that leaves every message as it was, waives or abandons it.      *)
LEMMA Interrupted ==
  ASSUME NEW A \in SUBSET Messages, NEW W \in SUBSET Messages,
         \A m \in W : Outcome(m)' = "waived",
         \A m \in A \ W : Outcome(m)' = "abandoned",
         \A m \in A : Outcome(m) = "taken",
         \A m \in Messages \ (A \cup W) : Outcome(m)' = Outcome(m)
  PROVE  Served
<1>1. Outlook' = [m \in Messages |->
                     CASE m \in W -> "waived"
                       [] m \in A \ W -> "abandoned"
                       [] OTHER -> Outlook[m]]
  BY DEF Outlook
<1>2. \A m \in A : Outlook[m] = "taken"
  BY DEF Outlook
<1>3. Service!Interrupt
  BY <1>1, <1>2 DEF Service!Interrupt, Outlook
<1> QED
  BY <1>3 DEF Served, Service!Next

(* A message that may only be waived by a step. *)
Untouched(m) == Outcome(m)' = Outcome(m) \/ Outcome(m)' = "waived"

LEMMA AllUntouched == ASSUME \A m \in Messages : Untouched(m) PROVE Served
<1> DEFINE W == {m \in Messages : Outcome(m)' = "waived"}
<1>1. \A m \in W : Outcome(m)' = "waived"
  OBVIOUS
<1>2. \A m \in Messages \ W : Outcome(m)' = Outcome(m)
  BY DEF Untouched
<1>3. W \in SUBSET Messages /\ {} \in SUBSET Messages
  OBVIOUS
<1> HIDE DEF W
<1> QED
  BY <1>1, <1>2, <1>3, Interrupted

(* A step that moves one message. *)
LEMMA Moved ==
  ASSUME NEW m \in Messages, NEW from, NEW to,
         Outcome(m) = from, Outcome(m)' = to,
         \A n \in Messages : n # m => Outcome(n)' = Outcome(n),
         \/ from = "unseen" /\ to = "taken"
         \/ from = "taken" /\ to \in {"answered", "refused"}
  PROVE  Served
<1>1. Outlook' = [Outlook EXCEPT ![m] = to] /\ Outlook[m] = from
  BY DEF Outlook
<1>2. Service!Take(m) \/ Service!Answer(m) \/ Service!Refuse(m)
  BY <1>1 DEF Service!Take, Service!Answer, Service!Refuse, Service!Become, Outlook
<1> QED
  BY <1>2 DEF Served, Service!Next

(* A message whose first request a step leaves alone. *)
LEMMA SameOutcome ==
  ASSUME NEW m \in Messages, excused \subseteq excused', lost \subseteq lost',
         Began(m)' = Began(m),
         Began(m) # {} => Fared(<<m, 1>>)' = Fared(<<m, 1>>)
  PROVE  Untouched(m)
  BY DEF Untouched, Outcome

LEMMA BeganDelivered ==
  ASSUME TypeOK, NEW m \in Messages, Began(m) # {}
  PROVE  deliveries[m] > 0 /\ <<m, 1>> \in Requests /\ <<m, 1>> \in Began(m)
<1>1. deliveries[m] \in Nat
  BY DeliveriesCount
<1>2. PICK r \in Began(m) : TRUE
  OBVIOUS
<1>3. r[2] \in 1..MaxDeliveries /\ r[2] <= deliveries[m]
  BY <1>2 DEF Began, Requests
<1>4. deliveries[m] > 0
  BY <1>1, <1>3
<1> QED
  BY <1>4, FirstBegan

LEMMA FaredNow ==
  ASSUME NEW r
  PROVE  /\ Fared(r) = "taken" <=> stage[r] \in AtWork
         /\ stage'[r] \in AtWork => Fared(r)' = "taken"
         /\ stage'[r] = "died" => Fared(r)' = "abandoned"
         /\ stage'[r] = "ended" /\ code'[r] = "ack" /\ r \in shown' =>
              Fared(r)' = "answered"
         /\ stage'[r] = "ended" /\ code'[r] = "bad gateway" /\ r \notin shown' =>
              Fared(r)' = "refused"
         /\ stage'[r] = stage[r] /\ code'[r] = code[r] /\ shown' = shown =>
              Fared(r)' = Fared(r)
<1> USE DEF Fared, AtWork
<1>1. Fared(r) = "taken" <=> stage[r] \in AtWork
  OBVIOUS
<1>2. stage'[r] \in AtWork => Fared(r)' = "taken"
  OBVIOUS
<1>3. stage'[r] = "died" => Fared(r)' = "abandoned"
  OBVIOUS
<1>4. /\ stage'[r] = "ended" /\ code'[r] = "ack" /\ r \in shown' => Fared(r)' = "answered"
      /\ stage'[r] = "ended" /\ code'[r] = "bad gateway" /\ r \notin shown' =>
           Fared(r)' = "refused"
  OBVIOUS
<1>5. stage'[r] = stage[r] /\ code'[r] = code[r] /\ shown' = shown => Fared(r)' = Fared(r)
  OBVIOUS
<1> QED
  BY <1>1, <1>2, <1>3, <1>4, <1>5

LEMMA DeliverServed ==
  ASSUME Inv, NEW n \in Messages, NEW e \in EventIds \cup {NoId},
         NEW a \in {"new", "dup", "error"}, Deliver(n, e, a)
  PROVE  Served
<1> USE DEF storeVars, screenVars
<1> DEFINE q == <<n, deliveries'[n]>>
<1> DEFINE f == <<n, 1>>
<1>0. TypeOK /\ AllDelivered /\ MarksDelivered
  BY DEF Inv
<1>1. /\ UNCHANGED <<shown, lost>> /\ excused \subseteq excused'
      /\ deliveries' = [deliveries EXCEPT ![n] = @ + 1]
      /\ stage' = [stage EXCEPT ![q] = IF a = "dup" THEN "ended" ELSE "handling"]
      /\ code' = [code EXCEPT ![q] = IF a = "dup" THEN "ack" ELSE "none"]
      /\ n \notin Blanks /\ deliveries[n] < MaxDeliveries
  BY <1>0 DEF Deliver
<1>2. /\ deliveries[n] \in Nat /\ deliveries'[n] = deliveries[n] + 1
      /\ q \in Requests /\ q \notin shown
  <2>1. deliveries[n] \in Nat /\ deliveries'[n] = deliveries[n] + 1
    BY <1>0, <1>1, DeliveriesCount
  <2>2. q \in Requests
    BY <1>1, <2>1, BoundsAssumption DEF Requests
  <2>3. ~(q[2] <= deliveries[q[1]])
    BY <2>1
  <2> QED
    BY <1>0, <2>1, <2>2, <2>3 DEF AllDelivered, Delivered
<1>3. ASSUME NEW m \in Messages, m # n PROVE Outcome(m)' = Outcome(m)
  <2>1. Began(m)' = Began(m)
    BY <1>0, <1>1, <1>3, Earlier
  <2>2. m \in excused' <=> m \in excused
    BY <1>3 DEF Deliver
  <2>3. <<m, 1>> # q
    BY <1>3
  <2>4. Began(m) # {} => stage'[<<m, 1>>] = stage[<<m, 1>>] /\ code'[<<m, 1>>] = code[<<m, 1>>]
    BY <1>0, <1>1, <2>3, BeganDelivered DEF TypeOK
  <2> QED
    BY <1>1, <2>1, <2>2, <2>4 DEF Outcome, Fared
<1>4. CASE n \in excused'
  <2>1. Outcome(n)' = "waived"
    BY <1>4 DEF Outcome
  <2> QED
    BY <1>3, <2>1, AllUntouched DEF Untouched
<1>5. CASE n \notin excused' /\ deliveries[n] > 0
  <2>1. f \in Began(n) /\ q \notin Began(n) /\ Began(n) \subseteq Began(n)'
    BY <1>0, <1>1, <1>5, FirstBegan, Earlier
  <2>2. stage'[f] = stage[f] /\ code'[f] = code[f]
    BY <1>0, <1>1, <1>5, <2>1, FirstBegan DEF TypeOK
  <2>3. Fared(f)' = Fared(f)
    BY <1>1, <2>2 DEF Fared
  <2>4. Untouched(n)
    BY <1>1, <1>5, <2>1, <2>3 DEF Untouched, Outcome
  <2> QED
    BY <1>3, <2>4, AllUntouched DEF Untouched
<1>6. CASE n \notin excused' /\ deliveries[n] = 0
  <2>1. q = f /\ Began(n) = {} /\ Began(n)' \subseteq {f}
    <3>1. Began(n) = {}
      <4> SUFFICES ASSUME Began(n) # {} PROVE FALSE
        OBVIOUS
      <4>1. deliveries[n] > 0
        BY <1>0, BeganDelivered
      <4> QED
        BY <1>6, <4>1
    <3>2. q = f
      BY <1>2, <1>6
    <3> QED
      BY <1>0, <1>1, <3>1, <3>2, Earlier
  <2>2. f \in Began(n)'
    BY <1>2, <2>1 DEF Began
  <2>3. \A s \in Stores : Key(n, e) \notin marked[s]
    BY <1>0, <1>6 DEF MarksDelivered, Key
  <2>4. a = "new"
    <3>1. a # "error" /\ swallowed' = swallowed
      BY <1>6 DEF Deliver
    <3>2. n \notin swallowed
      BY <1>0, <1>1, <1>6 DEF TypeOK
    <3>3. a = "dup" => swallowed' = swallowed \cup {n}
      BY <1>0, <2>3 DEF Deliver, TypeOK
    <3> QED
      BY <3>1, <3>2, <3>3
  <2>5. stage'[f] = "handling"
    BY <1>0, <1>1, <1>2, <2>1, <2>4 DEF TypeOK
  <2>6. Outcome(n) = "unseen"
    BY <1>1, <1>6, <2>1 DEF Outcome
  <2>7. f \notin lost'
    BY <1>0, <1>1, <1>2, <2>1 DEF TypeOK
  <2>8. Outcome(n)' = "taken"
    <3>1. Fared(f)' = "taken"
      BY <2>5, FaredNow DEF AtWork
    <3>2. Began(n)' = {f}
      BY <2>1, <2>2
    <3> QED
      BY <1>1, <1>6, <2>7, <3>1, <3>2 DEF Outcome
  <2> QED
    BY <1>3, <2>6, <2>8, Moved
<1> QED
  BY <1>2, <1>4, <1>5, <1>6

LEMMA ReplyServed ==
  ASSUME Inv, NEW q \in Requests, NEW o \in Outcomes(q), Reply(q, o)
  PROVE  Served
<1> USE DEF storeVars, screenVars
<1> DEFINE m == q[1]
<1>0. TypeOK /\ AllDelivered /\ FirstAlone
  BY DEF Inv
<1>1. /\ UNCHANGED <<deliveries, excused>> /\ lost \subseteq lost' /\ stage[q] = "replying"
      /\ stage' = [stage EXCEPT ![q] = "ended"]
      /\ code' = [code EXCEPT ![q] = IF o = "ok" THEN "ack" ELSE "bad gateway"]
      /\ o \in {"ok", "failed", "lost"}
      /\ shown' = IF o = "failed" THEN shown ELSE shown \cup {q}
      /\ lost' = IF o = "lost" THEN lost \cup {q} ELSE lost
  BY DEF Reply, Outcomes
<1>2. /\ m \in Messages /\ q \in Began(m) /\ m \notin Blanks /\ q \notin shown
      /\ \A n : Began(n)' = Began(n)
  BY <1>0, <1>1 DEF AllDelivered, Delivered, Began, Requests
<1>3. ASSUME NEW n \in Messages, n # m PROVE Outcome(n)' = Outcome(n)
  <2>1. <<n, 1>> # q /\ q \notin Began(n)
    BY <1>3 DEF Began
  <2>2. Began(n) # {} => Fared(<<n, 1>>)' = Fared(<<n, 1>>)
    BY <1>0, <1>1, <2>1, BeganDelivered DEF Fared, TypeOK
  <2>3. Began(n) \cap lost' = Began(n) \cap lost
    BY <1>1, <2>1
  <2> QED
    BY <1>1, <1>2, <2>2, <2>3 DEF Outcome
<1>4. CASE m \in excused \/ Began(m) \cap lost' # {}
  <2>1. Outcome(m)' = "waived"
    BY <1>1, <1>2, <1>4 DEF Outcome
  <2> HIDE DEF m
  <2> QED
    BY <1>3, <2>1, AllUntouched DEF Untouched
<1>5. CASE m \notin excused /\ Began(m) \cap lost' = {}
  <2>1. o # "lost" /\ Began(m) \cap lost = {}
    BY <1>1, <1>2, <1>5
  <2>2. q = <<m, 1>>
    BY <1>0, <1>1, <1>2, <1>5, BeganDelivered DEF FirstAlone, Sole
  <2>3. Outcome(m) = "taken"
    <3>1. Fared(q) = "taken"
      BY <1>1, FaredNow DEF AtWork
    <3> QED
      BY <1>1, <1>2, <1>5, <2>1, <2>2, <3>1 DEF Outcome
  <2>4. stage'[q] = "ended" /\ code'[q] = (IF o = "ok" THEN "ack" ELSE "bad gateway")
    BY <1>0, <1>1 DEF TypeOK
  <2>5. Fared(q)' \in {"answered", "refused"}
    <3>1. o = "ok" => code'[q] = "ack" /\ q \in shown'
      BY <1>1, <2>4
    <3>2. o = "failed" => code'[q] = "bad gateway" /\ q \notin shown'
      BY <1>1, <1>2, <2>4
    <3> QED
      BY <1>1, <2>1, <2>4, <3>1, <3>2, FaredNow
  <2>6. Outcome(m)' = Fared(q)'
    BY <1>1, <1>2, <1>5, <2>2 DEF Outcome
  <2> HIDE DEF m
  <2> QED
    BY <1>2, <1>3, <2>3, <2>5, <2>6, Moved
<1> QED
  BY <1>4, <1>5

LEMMA RestartServed == ASSUME Inv, Restart PROVE Served
<1> USE DEF storeVars, screenVars
<1>0. TypeOK
  BY DEF Inv
<1>1. /\ UNCHANGED <<deliveries, code, shown, lost>> /\ excused \subseteq excused'
      /\ stage' = [r \in Requests |-> IF stage[r] \in AtWork THEN "died" ELSE stage[r]]
  BY DEF Restart
<1>2. \A m : Began(m)' = Began(m)
  BY <1>1 DEF Began
<1> DEFINE W == {m \in Messages : m \in excused'}
<1> DEFINE A == {m \in Messages : Outcome(m) = "taken"}
<1>3. \A m \in W : Outcome(m)' = "waived"
  BY DEF Outcome
<1>4. ASSUME NEW m \in Messages, m \notin excused', Outcome(m) = "taken"
      PROVE  Outcome(m)' = "abandoned"
  <2>1. /\ m \notin Blanks /\ Began(m) # {} /\ Began(m) \cap lost = {}
        /\ Fared(<<m, 1>>) = "taken"
    BY <1>4 DEF Outcome
  <2>2. stage[<<m, 1>>] \in AtWork /\ <<m, 1>> \in Requests
    BY <1>0, <2>1, BeganDelivered, FaredNow
  <2>3. Fared(<<m, 1>>)' = "abandoned"
    BY <1>1, <2>2, FaredNow
  <2> QED
    BY <1>1, <1>2, <1>4, <2>1, <2>3 DEF Outcome
<1>5. ASSUME NEW m \in Messages, m \notin excused', Outcome(m) # "taken"
      PROVE  Outcome(m)' = Outcome(m)
  <2>1. m \notin excused
    BY <1>1, <1>5
  <2>2. CASE Began(m) \cap lost # {} \/ m \in Blanks \/ Began(m) = {}
    BY <1>1, <1>2, <1>5, <2>1, <2>2 DEF Outcome
  <2>3. CASE Began(m) \cap lost = {} /\ m \notin Blanks /\ Began(m) # {}
    <3>1. Outcome(m) = Fared(<<m, 1>>) /\ <<m, 1>> \in Requests
      BY <1>0, <2>1, <2>3, BeganDelivered DEF Outcome
    <3>2. stage'[<<m, 1>>] = stage[<<m, 1>>]
      <4>1. stage[<<m, 1>>] \notin AtWork
        BY <1>5, <3>1, FaredNow
      <4> QED
        BY <1>1, <3>1, <4>1
    <3>3. Fared(<<m, 1>>)' = Fared(<<m, 1>>)
      BY <1>1, <3>2, FaredNow
    <3> QED
      BY <1>1, <1>2, <1>5, <2>3, <3>1, <3>3 DEF Outcome
  <2> QED
    BY <2>2, <2>3
<1>6. A \in SUBSET Messages /\ W \in SUBSET Messages
  OBVIOUS
<1>7. /\ \A m \in A \ W : Outcome(m)' = "abandoned"
      /\ \A m \in Messages \ (A \cup W) : Outcome(m)' = Outcome(m)
      /\ \A m \in A : Outcome(m) = "taken"
  BY <1>4, <1>5
<1> HIDE DEF A, W
<1> QED
  BY <1>3, <1>6, <1>7, Interrupted

LEMMA StepServed == Inv /\ [Next]_vars => Served
<1> SUFFICES ASSUME Inv, [Next]_vars PROVE Served
  OBVIOUS
<1> USE DEF storeVars, screenVars
<1>0. TypeOK
  BY DEF Inv
<1>1. ASSUME NEW n \in Messages, Ignore(n) PROVE Served
  <2> DEFINE q == <<n, deliveries'[n]>>
  <2>1. /\ UNCHANGED <<shown, lost, excused>> /\ n \in Blanks
        /\ deliveries' = [deliveries EXCEPT ![n] = @ + 1]
        /\ stage' = [stage EXCEPT ![q] = "ended"]
        /\ code' = [code EXCEPT ![q] = "ack"]
    BY <1>1 DEF Ignore
  <2>2. ASSUME NEW m \in Messages, m # n PROVE Untouched(m)
    <3>1. Began(m)' = Began(m) /\ <<m, 1>> # q
      BY <1>0, <2>1, <2>2, Earlier
    <3>2. Began(m) # {} => Fared(<<m, 1>>)' = Fared(<<m, 1>>)
      BY <1>0, <2>1, <3>1, BeganDelivered DEF TypeOK, Fared
    <3> QED
      BY <2>1, <3>1, <3>2 DEF Untouched, Outcome
  <2>3. Untouched(n)
    <3>1. Began(n) \subseteq Began(n)'
      BY <1>0, <2>1, Earlier
    <3> QED
      BY <2>1, <3>1 DEF Untouched, Outcome
  <2> QED
    BY <2>2, <2>3, AllUntouched
<1>2. ASSUME UNCHANGED <<deliveries, lost, code, shown>>, excused \subseteq excused',
             \A r \in Requests : \/ stage'[r] = stage[r]
                                 \/ stage[r] \in AtWork /\ stage'[r] \in AtWork
      PROVE  Served
  <2>1. \A m : Began(m)' = Began(m)
    BY <1>2 DEF Began
  <2>2. \A r \in Requests : Fared(r)' = Fared(r)
    BY <1>2, FaredNow
  <2>3. \A m \in Messages : Began(m) # {} => <<m, 1>> \in Requests
    BY <1>0, BeganDelivered
  <2> QED
    BY <1>2, <2>1, <2>2, <2>3, SameOutcome, AllUntouched
<1>3. ASSUME NEW s \in Stores, NEW k \in Keys, Forget(s, k) PROVE Served
  BY <1>2, <1>3 DEF Forget
<1>4. ASSUME NEW r \in Requests, HangUp(r) PROVE Served
  BY <1>2, <1>4 DEF HangUp
<1>5. ASSUME NEW r \in Requests, Handle(r) PROVE Served
  <2>1. \A i \in Requests : \/ stage'[i] = stage[i]
                            \/ stage[i] \in AtWork /\ stage'[i] \in AtWork
    BY <1>0, <1>5 DEF Handle, AtWork, TypeOK
  <2> QED
    BY <1>2, <1>5, <2>1 DEF Handle
<1>6. CASE UNCHANGED vars
  BY <1>2, <1>6 DEF vars
<1> QED
  BY <1>1, <1>3, <1>4, <1>5, <1>6, DeliverServed, ReplyServed, RestartServed DEF Next, Work

(* The QQ bot implements AnswerService: each of its steps is a step of the *)
(* promise or none that it would notice.                                   *)
THEOREM PromiseKept == Spec => KeepsPromise
<1>1. Init => Service!Init
  <2> SUFFICES ASSUME Init PROVE \A m \in Messages : Outcome(m) = "unseen"
    BY DEF Service!Init
  <2>1. \A m \in Messages : Began(m) = {}
    BY DEF Init, Began, Requests
  <2> QED
    BY <2>1 DEF Init, Outcome
<1>2. Served => [Service!Next]_(Service!vars)
  BY DEF Served
<1> QED
  BY <1>1, <1>2, StepServed, InvAlways, PTL DEF Spec, KeepsPromise, Service!Spec

-----------------------------------------------------------------------------
(* A delivery has a request, and a request that ended has told a code.     *)
Coded(r) ==
  /\ r[2] <= deliveries[r[1]] => stage[r] # "none"
  /\ stage[r] = "ended" => code[r] # "none"

AllCoded == \A r \in Requests : Coded(r)

LEMMA AllCodedStep == TypeOK /\ AllCoded /\ [Next]_vars => AllCoded'
<1> SUFFICES ASSUME TypeOK, AllCoded, [Next]_vars, NEW r \in Requests
             PROVE  Coded(r)'
  BY DEF AllCoded
<1>a. r[1] \in Messages /\ r[2] \in 1..MaxDeliveries /\ r = <<r[1], r[2]>>
  BY DEF Requests
<1>b. /\ Coded(r)
      /\ stage \in [Requests -> AtWork \cup {"none", "ended", "died"}]
      /\ code \in [Requests -> {"none", "ack", "bad gateway"}]
  BY DEF AllCoded, TypeOK
<1>0. /\ Coded(r) /\ r[1] \in Messages /\ r[2] \in Nat /\ r = <<r[1], r[2]>>
      /\ stage \in [Requests -> AtWork \cup {"none", "ended", "died"}]
      /\ code \in [Requests -> {"none", "ack", "bad gateway"}]
  <2>1. r[2] \in Nat
    BY <1>a, BoundsAssumption
  <2> QED
    BY <1>a, <1>b, <2>1
<1> USE DEF AtWork, screenVars, storeVars
<1>1. ASSUME NEW n \in Messages, deliveries' = [deliveries EXCEPT ![n] = @ + 1],
             NEW s \in {"handling", "ended"}, NEW c \in {"none", "ack"},
             s = "ended" => c = "ack",
             stage' = [stage EXCEPT ![<<n, deliveries'[n]>>] = s],
             code' = [code EXCEPT ![<<n, deliveries'[n]>>] = c]
      PROVE  Coded(r)'
  <2>1. /\ deliveries[n] \in Nat /\ deliveries'[n] = deliveries[n] + 1
        /\ r[1] # n => deliveries'[r[1]] = deliveries[r[1]]
    BY <1>0, <1>1, DeliveriesCount DEF TypeOK
  <2>2. CASE r = <<n, deliveries'[n]>>
    BY <1>0, <1>1, <2>2 DEF Coded
  <2>3. CASE r # <<n, deliveries'[n]>>
    <3>1. stage'[r] = stage[r] /\ code'[r] = code[r]
      BY <1>0, <1>1, <2>3
    <3>2. r[1] = n => r[2] # deliveries'[n]
      BY <1>0, <2>3
    <3>3. r[2] <= deliveries'[r[1]] => r[2] <= deliveries[r[1]]
      <4>1. CASE r[1] = n
        BY ONLY <1>a, <2>1, <3>2, <4>1
      <4>2. CASE r[1] # n
        BY <2>1, <4>2
      <4> QED
        BY <4>1, <4>2
    <3> QED
      BY <1>0, <3>1, <3>3 DEF Coded
  <2> QED
    BY <2>2, <2>3
<1>2. ASSUME NEW m \in Messages, Ignore(m) PROVE Coded(r)'
  BY <1>1, <1>2 DEF Ignore
<1>3. ASSUME NEW m \in Messages, NEW e, NEW a, Deliver(m, e, a) PROVE Coded(r)'
  BY <1>1, <1>3 DEF Deliver
<1>4. ASSUME NEW s, NEW k, Forget(s, k) PROVE Coded(r)'
  BY <1>0, <1>4 DEF Forget, Coded
<1>5. ASSUME NEW q \in Requests, HangUp(q) \/ Handle(q) PROVE Coded(r)'
  BY <1>0, <1>5 DEF HangUp, Handle, Coded
<1>6. ASSUME NEW q \in Requests, NEW o, Reply(q, o) PROVE Coded(r)'
  BY <1>0, <1>6 DEF Reply, Coded
<1>7. CASE Restart
  BY <1>0, <1>7 DEF Restart, Coded
<1>8. CASE UNCHANGED vars
  BY <1>0, <1>8 DEF vars, Coded
<1> QED
  BY <1>2, <1>3, <1>4, <1>5, <1>6, <1>7, <1>8 DEF Next, Work

AtRest(m) == \A r \in Began(m) : stage[r] \notin AtWork

(* Of a message with a text that redis did not take for a repeat, once     *)
(* nothing works on it, one request answered, told of failure or died.     *)
NoneIsDropped ==
  \A m \in Messages \ (Blanks \cup swallowed) :
    deliveries[m] > 0 /\ AtRest(m) =>
      \E r \in Began(m) : r \in shown \/ code[r] = "bad gateway" \/ stage[r] = "died"

(* Once the requests of a delivered message are at rest it was answered,   *)
(* or the platform was told that it was not, or the process died under it. *)
THEOREM NobodyIsDropped == Spec => []NoneIsDropped
<1>1. Init => AllCoded
  BY DEF Init, AllCoded, Coded, Requests
<1>2. Inv /\ AllCoded => NoneIsDropped
  <2> SUFFICES ASSUME Inv, AllCoded, NEW m \in Messages \ (Blanks \cup swallowed),
                      deliveries[m] > 0, AtRest(m)
               PROVE  \E r \in Began(m) :
                        r \in shown \/ code[r] = "bad gateway" \/ stage[r] = "died"
    BY DEF NoneIsDropped
  <2>1. PICK r \in Began(m) : code[r] = "ack" => r \in shown
    BY DEF Inv, AllHonest, Honest
  <2>2. stage[r] \in {"ended", "died"} /\ code[r] \in {"none", "ack", "bad gateway"}
    BY DEF AtRest, AllCoded, Coded, Began, Inv, TypeOK
  <2> QED
    BY <2>1, <2>2 DEF AllCoded, Coded, Began
<1>3. Inv => TypeOK
  BY DEF Inv
<1> QED
  BY <1>1, <1>2, <1>3, AllCodedStep, InvAlways, PTL DEF Spec

-----------------------------------------------------------------------------
(* What a request has before it. *)
Left == [none |-> 3, handling |-> 2, replying |-> 1, ended |-> 0, died |-> 0]

(* A step of a request brings it nearer its end; no other step takes it    *)
(* back.                                                                   *)
RequestsRunDown ==
  \A r \in Requests :
    /\ Work(r) => Left[stage'[r]] < Left[stage[r]]
    /\ stage'[r] = stage[r] \/ Left[stage'[r]] < Left[stage[r]]

(* No step takes a request back, whatever is repeated, lost or restarted. *)
THEOREM RequestsOnlyAdvance == Spec => [][RequestsRunDown]_vars
<1>1. Inv /\ [Next]_vars => [RequestsRunDown]_vars
  <2> SUFFICES ASSUME Inv, Next, NEW r \in Requests
               PROVE  /\ Work(r) => Left[stage'[r]] < Left[stage[r]]
                      /\ stage'[r] = stage[r] \/ Left[stage'[r]] < Left[stage[r]]
    BY DEF RequestsRunDown
  <2>0. /\ stage \in [Requests -> AtWork \cup {"none", "ended", "died"}]
        /\ Delivered(r)
    BY DEF Inv, TypeOK, AllDelivered
  <2> USE DEF AtWork, Left
  <2>1. Work(r) => Left[stage'[r]] < Left[stage[r]]
    <3>1. Handle(r) => stage[r] = "handling" /\ stage'[r] = "replying"
      BY <2>0 DEF Handle
    <3>2. ASSUME NEW o, Reply(r, o) PROVE stage[r] = "replying" /\ stage'[r] = "ended"
      BY <2>0, <3>2 DEF Reply
    <3> QED
      BY <3>1, <3>2 DEF Work
  <2>2. ASSUME NEW q \in Requests, q # r, Work(q) PROVE stage'[r] = stage[r]
    BY <2>0, <2>2 DEF Work, Handle, Reply
  <2>3. ASSUME NEW m \in Messages, NEW s \in {"handling", "ended"},
               deliveries' = [deliveries EXCEPT ![m] = @ + 1],
               stage' = [stage EXCEPT ![<<m, deliveries'[m]>>] = s]
        PROVE  stage'[r] = stage[r] \/ Left[stage'[r]] < Left[stage[r]]
    <3>1. deliveries[m] \in Nat /\ deliveries'[m] = deliveries[m] + 1
      BY <2>3, DeliveriesCount DEF Inv
    <3>2. r = <<m, deliveries'[m]>> => stage[r] = "none"
      BY <2>0, <3>1 DEF Delivered
    <3> QED
      BY <2>0, <2>3, <3>2
  <2>4. ASSUME NEW m \in Messages, NEW e, NEW a, Deliver(m, e, a)
        PROVE  stage'[r] = stage[r] \/ Left[stage'[r]] < Left[stage[r]]
    BY <2>3, <2>4 DEF Deliver
  <2>5. ASSUME NEW m \in Messages, Ignore(m)
        PROVE  stage'[r] = stage[r] \/ Left[stage'[r]] < Left[stage[r]]
    BY <2>3, <2>5 DEF Ignore
  <2>6. ASSUME NEW q, NEW s, NEW k, HangUp(q) \/ Forget(s, k) PROVE stage'[r] = stage[r]
    BY <2>6 DEF HangUp, Forget
  <2>7. ASSUME Restart
        PROVE  stage'[r] = stage[r] \/ Left[stage'[r]] < Left[stage[r]]
    <3>1. stage'[r] = IF stage[r] \in AtWork THEN "died" ELSE stage[r]
      BY <2>7 DEF Restart
    <3>2. CASE stage[r] \in AtWork
      <4>1. stage'[r] = "died" /\ stage[r] \in {"handling", "replying"}
        BY <3>1, <3>2
      <4> QED
        BY <4>1
    <3>3. CASE stage[r] \notin AtWork
      BY <3>1, <3>3
    <3> QED
      BY <3>2, <3>3
  <2> QED
    BY <2>1, <2>2, <2>4, <2>5, <2>6, <2>7 DEF Next
<1> QED
  BY <1>1, InvAlways, PTL DEF Spec
=============================================================================
