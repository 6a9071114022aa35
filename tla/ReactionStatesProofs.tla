------------------------ MODULE ReactionStatesProofs ------------------------
(* Proofs about ReactionStates, for any messages, jobs and emojis. *)
EXTENDS ReactionStates, TLAPS

USE MessageOfAssumption, EmojisAssumption, NoReactionAssumption

LEMMA TypeInit == Init => TypeOK
  BY DEF Init, TypeOK, Reactions

(* Every step keeps the variables in their types. *)
LEMMA TypeStep == TypeOK /\ [Next]_vars => TypeOK'
<1> SUFFICES ASSUME TypeOK, [Next]_vars PROVE TypeOK'
  OBVIOUS
<1> USE DEF TypeOK, Reactions
<1>1. CASE Restart
  BY <1>1 DEF Restart
<1>2. ASSUME NEW j \in Jobs, NEW e \in Emojis, Enter(j, e) PROVE TypeOK'
  BY <1>2 DEF Enter, Slip
<1>3. ASSUME NEW j \in Jobs, Look(j) PROVE TypeOK'
  BY <1>3 DEF Look
<1>4. ASSUME NEW j \in Jobs, NEW o, Remove(j, o) PROVE TypeOK'
  BY <1>4 DEF Remove, Slip
<1>5. ASSUME NEW j \in Jobs, NEW o, Add(j, o) PROVE TypeOK'
  <2>1. <<j, emoji[j]>> \in Reactions
    BY <1>5 DEF Add
  <2>2. /\ live' \in SUBSET Reactions
        /\ tracked' \in [Messages -> Reactions \cup {NoReaction}]
    BY <1>5, <2>1 DEF Add
  <2> QED
    BY <1>5, <2>2 DEF Add, Slip
<1>6. CASE UNCHANGED vars
  BY <1>6 DEF vars
<1> QED
  BY <1>1, <1>2, <1>3, <1>4, <1>5, <1>6 DEF Next, Move

(* The variables always have their types. *)
THEOREM TypeCorrect == Spec => []TypeOK
  BY TypeInit, TypeStep, PTL DEF Spec

-----------------------------------------------------------------------------
LEMMA OwnInit == Init => OwnReactions
  BY DEF Init, OwnReactions

LEMMA OwnStep == TypeOK /\ OwnReactions /\ [Next]_vars => OwnReactions'
<1> SUFFICES ASSUME TypeOK, OwnReactions, [Next]_vars PROVE OwnReactions'
  OBVIOUS
<1> USE DEF TypeOK, Reactions, OwnReactions
<1>1. CASE Restart
  BY <1>1 DEF Restart
<1>2. ASSUME NEW j \in Jobs, NEW e \in Emojis, Enter(j, e) PROVE OwnReactions'
  BY <1>2 DEF Enter
<1>3. ASSUME NEW j \in Jobs, Look(j) PROVE OwnReactions'
  BY <1>3 DEF Look
<1>4. ASSUME NEW j \in Jobs, NEW o, Remove(j, o) PROVE OwnReactions'
  BY <1>4 DEF Remove
<1>5. ASSUME NEW j \in Jobs, NEW o, Add(j, o) PROVE OwnReactions'
  <2>1. \A m \in Messages :
          tracked'[m] \in {tracked[m], NoReaction} \/
          (m = MessageOf[j] /\ tracked'[m] = <<j, emoji[j]>>)
    BY <1>5 DEF Add
  <2> QED
    BY <1>5, <2>1 DEF Add
<1>6. CASE UNCHANGED vars
  BY <1>6 DEF vars
<1> QED
  BY <1>1, <1>2, <1>3, <1>4, <1>5, <1>6 DEF Next, Move

-----------------------------------------------------------------------------
(* What InStep says of one message. *)
Clean(m) ==
  /\ \A i, j \in Busy(m) : i = j
  /\ On(m) = IF tracked[m] = NoReaction THEN {} ELSE {tracked[m]}
  /\ \A j \in Busy(m) :
       /\ step[j] = "remove" => previous[j] = tracked[m] /\ tracked[m] # NoReaction
       /\ step[j] = "add" => tracked[m] = NoReaction

LEMMA InStepIsClean == InStep <=> \A m \in Messages \ slipped : Clean(m)
  BY DEF InStep, Clean

LEMMA InStepInit == Init => InStep
  BY DEF Init, InStep, On, Busy

(* A message that has not slipped after a step had not slipped before it,  *)
(* and stays clean.                                                        *)
LEMMA CleanStep ==
  ASSUME Inv, [Next]_vars, NEW m \in Messages, m \notin slipped'
  PROVE  Clean(m)'
<1> USE DEF Inv, TypeOK, Reactions
<1>1. CASE Restart
  BY <1>1 DEF Restart
<1>2. ASSUME NEW j \in Jobs, NEW e \in Emojis, Enter(j, e) PROVE Clean(m)'
  <2>1. m \notin slipped /\ (MessageOf[j] = m => Busy(m) = {})
    BY <1>2 DEF Enter, Slip
  <2>2. Clean(m)
    BY <2>1, InStepIsClean
  <2>3. On(m)' = On(m) /\ tracked' = tracked /\ previous' = previous
    BY <1>2 DEF Enter, On
  <2>4. Busy(m)' = IF MessageOf[j] = m THEN {j} ELSE Busy(m)
    BY <1>2, <2>1 DEF Enter, Busy
  <2>5. \A i \in Busy(m)' : step'[i] = IF i = j THEN "look" ELSE step[i]
    BY <1>2 DEF Enter, Busy
  <2>6. j \notin Busy(m)
    BY <1>2 DEF Enter, Busy
  <2> QED
    BY <2>2, <2>3, <2>4, <2>5, <2>6 DEF Clean
<1>3. ASSUME NEW j \in Jobs, Look(j) PROVE Clean(m)'
  <2>1. Clean(m)
    BY <1>3, InStepIsClean DEF Look
  <2>2. On(m)' = On(m) /\ Busy(m)' = Busy(m)
    BY <1>3 DEF Look, On, Busy
  <2>3. \A i \in Busy(m) : i # j => step'[i] = step[i] /\ previous'[i] = previous[i]
    BY <1>3 DEF Look, Busy
  <2>4. j \in Busy(m) =>
          /\ previous'[j] = tracked[m]
          /\ step'[j] = IF tracked[m] = NoReaction THEN "add" ELSE "remove"
    BY <1>3 DEF Look, Busy
  <2>5. tracked' = tracked
    BY <1>3 DEF Look
  <2> QED
    BY <2>1, <2>2, <2>3, <2>4, <2>5 DEF Clean
<1>4. ASSUME NEW j \in Jobs, NEW o, Remove(j, o) PROVE Clean(m)'
  <2>1. m \notin slipped /\ (MessageOf[j] = m => o = "ok")
    BY <1>4 DEF Remove, Slip
  <2>2. Clean(m)
    BY <2>1, InStepIsClean
  <2>3. Busy(m)' = Busy(m) /\ previous' = previous
    BY <1>4 DEF Remove, Busy
  <2>4. CASE MessageOf[j] = m
    <3>1. j \in Busy(m) /\ step[j] = "remove"
      BY <1>4, <2>4 DEF Remove, Busy
    <3>2. \A i \in Busy(m) : i = j
      BY <2>2, <3>1 DEF Clean
    <3>3. On(m) = {previous[j]}
      BY <2>2, <3>1 DEF Clean
    <3>4. live' = live \ {previous[j]} /\ tracked'[m] = NoReaction
      BY <1>4, <2>1, <2>4 DEF Remove
    <3>5. On(m)' = {}
      BY <3>3, <3>4 DEF On
    <3>6. step'[j] = "add"
      BY <1>4 DEF Remove
    <3> QED
      BY <2>3, <3>2, <3>4, <3>5, <3>6 DEF Clean
  <2>5. CASE MessageOf[j] # m
    <3>1. \A i \in Busy(m) : step'[i] = step[i]
      BY <1>4, <2>5 DEF Remove, Busy
    <3>2. tracked'[m] = tracked[m]
      BY <1>4, <2>5 DEF Remove
    <3>3. MessageOf[previous[j][1]] # m
      BY <1>4, <2>5 DEF Remove, OwnReactions
    <3>4. live' = live \/ live' = live \ {previous[j]}
      BY <1>4 DEF Remove
    <3>5. On(m)' = On(m)
      BY <3>3, <3>4 DEF On
    <3> QED
      BY <2>2, <2>3, <3>1, <3>2, <3>5 DEF Clean
  <2> QED
    BY <2>4, <2>5
<1>5. ASSUME NEW j \in Jobs, NEW o, Add(j, o) PROVE Clean(m)'
  <2>1. m \notin slipped /\ (MessageOf[j] = m => o \in {"ok", "failed"})
    BY <1>5 DEF Add, Slip
  <2>2. Clean(m)
    BY <2>1, InStepIsClean
  <2>3. previous' = previous
    BY <1>5 DEF Add
  <2>4. CASE MessageOf[j] = m
    <3>1. j \in Busy(m) /\ step[j] = "add"
      BY <1>5, <2>4 DEF Add, Busy
    <3>2. Busy(m) = {j} /\ On(m) = {} /\ tracked[m] = NoReaction
      BY <2>2, <3>1 DEF Clean
    <3>3. Busy(m)' = {}
      BY <1>5, <2>4, <3>2 DEF Add, Busy
    <3>4. CASE o = "ok"
      <4>1. live' = live \cup {<<j, emoji[j]>>} /\ tracked'[m] = <<j, emoji[j]>>
        BY <1>5, <2>4, <3>4 DEF Add
      <4>2. <<j, emoji[j]>> \in Reactions
        BY <1>5 DEF Add
      <4>3. On(m)' = {tracked'[m]}
        BY <2>4, <3>2, <4>1 DEF On
      <4> QED
        BY <3>3, <4>1, <4>2, <4>3 DEF Clean
    <3>5. CASE o = "failed"
      <4>1. live' = live /\ tracked'[m] = NoReaction
        BY <1>5, <2>4, <3>2, <3>5 DEF Add
      <4>2. On(m)' = {}
        BY <3>2, <4>1 DEF On
      <4> QED
        BY <3>3, <4>1, <4>2 DEF Clean
    <3> QED
      BY <2>1, <2>4, <3>4, <3>5
  <2>5. CASE MessageOf[j] # m
    <3>1. Busy(m)' = Busy(m) /\ \A i \in Busy(m) : step'[i] = step[i]
      BY <1>5, <2>5 DEF Add, Busy
    <3>2. tracked'[m] = tracked[m]
      BY <1>5, <2>5 DEF Add
    <3>3. live' = live \/ live' = live \cup {<<j, emoji[j]>>}
      BY <1>5 DEF Add
    <3>4. On(m)' = On(m)
      BY <2>5, <3>3 DEF On
    <3> QED
      BY <2>2, <2>3, <3>1, <3>2, <3>4 DEF Clean
  <2> QED
    BY <2>4, <2>5
<1>6. CASE UNCHANGED vars
  BY <1>6, InStepIsClean DEF vars, Clean, On, Busy
<1> QED
  BY <1>1, <1>2, <1>3, <1>4, <1>5, <1>6 DEF Next, Move

LEMMA InvInit == Init => Inv
  BY TypeInit, OwnInit, InStepInit DEF Inv

LEMMA InvStep == Inv /\ [Next]_vars => Inv'
<1>1. ASSUME Inv, [Next]_vars PROVE InStep'
  <2> SUFFICES ASSUME NEW m \in (Messages \ slipped)' PROVE Clean(m)'
    BY DEF InStep, Clean
  <2> QED
    BY <1>1, CleanStep
<1> QED
  BY <1>1, TypeStep, OwnStep DEF Inv

LEMMA InvAlways == Spec => []Inv
  BY InvInit, InvStep, PTL DEF Spec

(* Whatever jobs handle a message, one after the other, and however many   *)
(* emojis are configured, the map and the screen agree about it.           *)
THEOREM MapInStep == Spec => []InStep
  BY InvAlways, PTL DEF Inv
=============================================================================
