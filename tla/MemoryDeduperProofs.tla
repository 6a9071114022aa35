------------------------- MODULE MemoryDeduperProofs -------------------------
(* Proofs about MemoryDeduper, for any ids, callers, TTL, lag and horizon. *)
EXTENDS MemoryDeduper, TLAPS

USE TTLAssumption, MaxLagAssumption, MaxTimeAssumption,
    NoTimeAssumption, EmptyKeyAssumption

(* Sweeping only removes entries, and only entries that have expired. *)
LEMMA SweptFacts ==
  ASSUME NEW t \in Instant, TypeOK
  PROVE  /\ Swept(t) \in [Keys -> Expiry \cup {NoTime}]
         /\ \A k \in Keys : \/ Swept(t)[k] = seen[k]
                            \/ /\ Swept(t)[k] = NoTime
                               /\ seen[k] # NoTime
                               /\ t > seen[k]
  BY DEF Swept, TypeOK, Instant, Expiry

LEMMA TypeInit == Init => TypeOK
  BY DEF Init, TypeOK, Instant, Expiry

(* Every step keeps the variables in their types. *)
LEMMA TypeStep == TypeOK /\ [Next]_vars => TypeOK'
<1> SUFFICES ASSUME TypeOK, [Next]_vars PROVE TypeOK'
  OBVIOUS
<1> USE DEF TypeOK, Instant, Expiry
<1>1. CASE Tick
  BY <1>1 DEF Tick
<1>2. ASSUME NEW c \in Callers, MarkEmpty(c) PROVE TypeOK'
  BY <1>2 DEF MarkEmpty
<1>3. ASSUME NEW c \in Callers, NEW k \in Keys, ReadClock(c, k) PROVE TypeOK'
  BY <1>3 DEF ReadClock
<1>4. ASSUME NEW c \in Callers, Accept(c) PROVE TypeOK'
  <2>1. Swept(now[c]) \in [Keys -> Expiry \cup {NoTime}]
    BY SweptFacts
  <2>2. now[c] + TTL \in Expiry
    OBVIOUS
  <2>3. seen' \in [Keys -> Expiry \cup {NoTime}]
    BY <1>4, <2>1, <2>2 DEF Accept
  <2> QED
    BY <1>4, <2>3 DEF Accept
<1>5. ASSUME NEW c \in Callers, Reject(c) PROVE TypeOK'
  <2>1. Swept(now[c]) \in [Keys -> Expiry \cup {NoTime}]
    BY SweptFacts
  <2> QED
    BY <1>5, <2>1 DEF Reject
<1>6. ASSUME NEW c \in Callers, Return(c) PROVE TypeOK'
  BY <1>6 DEF Return
<1>7. CASE UNCHANGED vars
  BY <1>7 DEF vars
<1> QED
  BY <1>1, <1>2, <1>3, <1>4, <1>5, <1>6, <1>7 DEF Next

(* The variables always have their types. *)
THEOREM TypeCorrect == Spec => []TypeOK
  BY TypeInit, TypeStep, PTL DEF Spec

-----------------------------------------------------------------------------
LEMMA InvInit == Init => Inv
  BY TypeInit DEF Init, Inv, ReadingsFresh, EntryCoversWindow

(* Waiting for the mutex keeps a reading fresh, and no empty id waits. *)
LEMMA ReadingsStep == Inv /\ [Next]_vars => ReadingsFresh'
<1> SUFFICES ASSUME Inv, [Next]_vars PROVE ReadingsFresh'
  OBVIOUS
<1> USE DEF Inv, TypeOK, Instant, Expiry, ReadingsFresh
<1>1. CASE Tick
  BY <1>1 DEF Tick
<1>2. ASSUME NEW c \in Callers, MarkEmpty(c) PROVE ReadingsFresh'
  BY <1>2 DEF MarkEmpty
<1>3. ASSUME NEW c \in Callers, NEW k \in Keys, ReadClock(c, k)
      PROVE ReadingsFresh'
  BY <1>3 DEF ReadClock
<1>4. ASSUME NEW c \in Callers, Accept(c) PROVE ReadingsFresh'
  BY <1>4 DEF Accept
<1>5. ASSUME NEW c \in Callers, Reject(c) PROVE ReadingsFresh'
  BY <1>5 DEF Reject
<1>6. ASSUME NEW c \in Callers, Return(c) PROVE ReadingsFresh'
  BY <1>6 DEF Return
<1>7. CASE UNCHANGED vars
  BY <1>7 DEF vars
<1> QED
  BY <1>1, <1>2, <1>3, <1>4, <1>5, <1>6, <1>7 DEF Next

(* The map keeps covering the window of every id. *)
LEMMA EntryStep == Inv /\ [Next]_vars => EntryCoversWindow'
<1> SUFFICES ASSUME Inv, [Next]_vars, NEW k \in Keys
             PROVE  EntryCoversWindow!(k)'
  BY DEF EntryCoversWindow
<1> USE DEF Inv, TypeOK, Instant, Expiry
<1>0. EntryCoversWindow!(k)
  BY DEF EntryCoversWindow
<1>1. CASE Tick
  BY <1>0, <1>1 DEF Tick
<1>2. ASSUME NEW c \in Callers, MarkEmpty(c) PROVE EntryCoversWindow!(k)'
  BY <1>0, <1>2 DEF MarkEmpty
<1>3. ASSUME NEW c \in Callers, NEW i \in Keys, ReadClock(c, i)
      PROVE EntryCoversWindow!(k)'
  BY <1>0, <1>3 DEF ReadClock
<1>4. ASSUME NEW c \in Callers, Accept(c) PROVE EntryCoversWindow!(k)'
  <2>1. now[c] <= clock /\ clock <= now[c] + MaxLag
    BY <1>4 DEF Accept, ReadingsFresh
  <2>2. CASE k = key[c]
    <3>1. seen'[k] = now[c] + TTL /\ acceptedAt'[k] = clock /\ clock' = clock
      BY <1>4, <2>2, SweptFacts DEF Accept
    <3> QED
      BY <2>1, <3>1
  <2>3. CASE k # key[c]
    <3>1. seen'[k] = Swept(now[c])[k] /\ acceptedAt'[k] = acceptedAt[k]
            /\ clock' = clock
      BY <1>4, <2>3, SweptFacts DEF Accept
    <3> QED
      BY <1>0, <2>1, <3>1, SweptFacts
  <2> QED
    BY <2>2, <2>3
<1>5. ASSUME NEW c \in Callers, Reject(c) PROVE EntryCoversWindow!(k)'
  <2>1. now[c] <= clock /\ clock <= now[c] + MaxLag
    BY <1>5 DEF Reject, ReadingsFresh
  <2>2. seen'[k] = Swept(now[c])[k] /\ acceptedAt' = acceptedAt
          /\ clock' = clock
    BY <1>5 DEF Reject
  <2> QED
    BY <1>0, <2>1, <2>2, SweptFacts
<1>6. ASSUME NEW c \in Callers, Return(c) PROVE EntryCoversWindow!(k)'
  BY <1>0, <1>6 DEF Return
<1>7. CASE UNCHANGED vars
  BY <1>0, <1>7 DEF vars
<1> QED
  BY <1>1, <1>2, <1>3, <1>4, <1>5, <1>6, <1>7 DEF Next

LEMMA InvAlways == Spec => []Inv
<1>1. Inv /\ [Next]_vars => Inv'
  BY TypeStep, ReadingsStep, EntryStep DEF Inv
<1> QED
  BY InvInit, <1>1, PTL DEF Spec

(* However callers interleave and however stale their readings, the map    *)
(* holds an accepted id until its window, less MaxLag, has passed.         *)
THEOREM MapCoversWindow == Spec => []EntryCoversWindow
  BY InvAlways, PTL DEF Inv

-----------------------------------------------------------------------------
LEMMA WindowInit == Init => Window!Init
  BY DEF Init, Window!Init

(* Each step of the deduper is a step of the promise, or changes nothing   *)
(* the promise speaks of.                                                  *)
LEMMA WindowStep == Inv /\ [Next]_vars => [Window!Next]_(Window!vars)
<1> SUFFICES ASSUME Inv, [Next]_vars PROVE [Window!Next]_(Window!vars)
  OBVIOUS
<1> USE DEF Inv, TypeOK, Instant, Expiry
<1>1. CASE Tick
  BY <1>1 DEF Tick, Window!Next, Window!Pass
<1>2. ASSUME NEW c \in Callers, MarkEmpty(c) PROVE Window!Exempt(c)
  BY <1>2 DEF MarkEmpty, Window!Exempt
<1>3. ASSUME NEW c \in Callers, NEW k \in Keys, ReadClock(c, k)
      PROVE Window!Ask(c, k)
  BY <1>3 DEF ReadClock, Window!Ask
<1>4. ASSUME NEW c \in Callers, Accept(c) PROVE Window!AnswerNew(c)
  <2>1. key[c] \in Keys /\ now[c] <= clock
    BY <1>4 DEF Accept, ReadingsFresh
  <2>2. EntryCoversWindow!(key[c])
    BY <2>1 DEF EntryCoversWindow
  <2>3. seen[key[c]] # NoTime => now[c] >= seen[key[c]]
    BY <1>4, <2>1 DEF Accept, Known, Swept
  <2>4. \/ acceptedAt[key[c]] = NoTime
        \/ clock + MaxLag >= acceptedAt[key[c]] + TTL
    BY <2>1, <2>2, <2>3
  <2> QED
    BY <1>4, <2>4 DEF Accept, Window!AnswerNew
<1>5. ASSUME NEW c \in Callers, Reject(c) PROVE Window!AnswerDup(c)
  <2>1. key[c] \in Keys /\ clock <= now[c] + MaxLag
    BY <1>5 DEF Reject, ReadingsFresh
  <2>2. EntryCoversWindow!(key[c])
    BY <2>1 DEF EntryCoversWindow
  <2>3. seen[key[c]] # NoTime /\ now[c] < seen[key[c]]
    BY <1>5, <2>1 DEF Reject, Known, Swept
  <2>4. /\ acceptedAt[key[c]] # NoTime
        /\ clock < acceptedAt[key[c]] + TTL + MaxLag
    BY <2>1, <2>2, <2>3
  <2> QED
    BY <1>5, <2>4 DEF Reject, Window!AnswerDup
<1>6. ASSUME NEW c \in Callers, Return(c) PROVE Window!Leave(c)
  BY <1>6 DEF Return, Window!Leave
<1>7. CASE UNCHANGED vars
  BY <1>7 DEF vars, Window!vars
<1> QED
  BY <1>1, <1>2, <1>3, <1>4, <1>5, <1>6, <1>7 DEF Next, Window!Next

(* memoryDeduper.Mark implements the promise of DedupeWindow with a slack  *)
(* of MaxLag: "new" twice about one id no closer than TTL - MaxLag, and    *)
(* "dup" only within TTL + MaxLag of the last "new".                       *)
THEOREM WindowKept == Spec => ImplementsWindow
  BY InvAlways, WindowInit, WindowStep, PTL
    DEF Spec, ImplementsWindow, Window!Spec
=============================================================================
