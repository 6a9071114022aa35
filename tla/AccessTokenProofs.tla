------------------------- MODULE AccessTokenProofs -------------------------
(* Proofs about AccessToken, for any callers, lives, margin and waits: a   *)
(* message sent to the QQ server carries a token that outlives it.         *)
EXTENDS AccessToken, TLAPS

(* Life is a number within its bound. *)
LEMMA LifeFacts ==
  ASSUME NEW said \in Lifetimes
  PROVE  Life(said) \in Nat /\ Life(said) <= MaxLife /\ 2 * MaxWait < Life(said)
<1>1. Life(said) \in Nat
  BY LifetimesAssumption DEF Life
<1>2. QED
  BY <1>1, LifetimesAssumption

LEMMA InvInit == Init => Inv
  BY BoundsAssumption, MaxWaitAssumption
  DEF Init, Inv, TypeOK, Instant, End, StepsTimely, ExpiryMatchesToken,
      TokenOutlivesRequest

(* What an answer brings to the cache is within the bounds. *)
LEMMA HeldFacts ==
  ASSUME Inv, NEW c \in Callers, pc[c] = "storing"
  PROVE  /\ LifeHeld(c) \in Nat /\ LifeHeld(c) <= MaxLife
         /\ held[c] = since[c] + LifeHeld(c)
         /\ 2 * MaxWait < LifeHeld(c)
<1>1. PICK said \in Lifetimes : held[c] = since[c] + Life(said)
  BY DEF Inv, StepsTimely
<1>2. since[c] \in Nat
  BY BoundsAssumption DEF Inv, TypeOK, Instant
<1>3. Life(said) \in Nat /\ Life(said) <= MaxLife /\ 2 * MaxWait < Life(said)
  BY LifeFacts
<1>4. LifeHeld(c) = Life(said)
  BY <1>1, <1>2, <1>3 DEF LifeHeld
<1>5. QED
  BY <1>1, <1>3, <1>4

LEMMA TypeStep == Inv /\ [Next]_vars => TypeOK'
<1> SUFFICES ASSUME Inv, [Next]_vars PROVE TypeOK'
  OBVIOUS
<1> USE BoundsAssumption DEF TypeOK, Instant, End
<1>0. TypeOK
  BY DEF Inv
<1>1. CASE Tick
  BY <1>0, <1>1 DEF Tick
<1>2. ASSUME NEW c \in Callers,
             ReadClock(c) \/ UseCached(c) \/ Fetch(c) \/ Finish(c)
      PROVE  TypeOK'
  BY <1>0, <1>2 DEF ReadClock, UseCached, Fetch, Finish, Goto
<1>3. ASSUME NEW c \in Callers, NEW said \in Lifetimes, Issue(c, said)
      PROVE  TypeOK'
  <2>1. clock + Life(said) \in 0..(MaxTime + MaxLife)
    BY <1>0, LifeFacts
  <2>2. QED
    BY <1>0, <1>3, <2>1 DEF Issue, Goto
<1>4. ASSUME NEW c \in Callers, Store(c)
      PROVE  TypeOK'
  <2>1. clock + LifeHeld(c) \in 0..(MaxTime + MaxLife)
    BY <1>0, <1>4, HeldFacts DEF Store
  <2>2. QED
    BY <1>0, <1>4, <2>1 DEF Store, Goto
<1>5. CASE UNCHANGED vars
  BY <1>0, <1>5 DEF vars
<1>6. QED
  BY <1>1, <1>2, <1>3, <1>4, <1>5 DEF Next

LEMMA TimelyStep == Inv /\ [Next]_vars => StepsTimely'
<1> SUFFICES ASSUME Inv, [Next]_vars PROVE StepsTimely'
  OBVIOUS
<1> USE BoundsAssumption, MaxWaitAssumption DEF TypeOK, Instant
<1>0. TypeOK /\ StepsTimely
  BY DEF Inv
<1>1. CASE Tick
  BY <1>0, <1>1 DEF Tick, StepsTimely
<1>2. ASSUME NEW c \in Callers,
             ReadClock(c) \/ UseCached(c) \/ Fetch(c) \/ Store(c) \/ Finish(c)
      PROVE  StepsTimely'
  <2>1. /\ clock' = clock
        /\ \A d \in Callers : d # c => pc'[d] = pc[d] /\ since'[d] = since[d] /\ held'[d] = held[d]
        /\ since'[c] = clock /\ pc'[c] # "storing"
    BY <1>0, <1>2 DEF ReadClock, UseCached, Fetch, Store, Finish, Goto
  <2>2. QED
    BY <1>0, <2>1 DEF StepsTimely
<1>3. ASSUME NEW c \in Callers, NEW said \in Lifetimes, Issue(c, said)
      PROVE  StepsTimely'
  <2>1. /\ clock' = clock
        /\ \A d \in Callers : d # c => pc'[d] = pc[d] /\ since'[d] = since[d] /\ held'[d] = held[d]
        /\ since'[c] = clock /\ held'[c] = clock + Life(said)
    BY <1>0, <1>3 DEF Issue, Goto
  <2>2. QED
    BY <1>0, <2>1 DEF StepsTimely
<1>4. CASE UNCHANGED vars
  BY <1>0, <1>4 DEF vars, StepsTimely
<1>5. QED
  BY <1>1, <1>2, <1>3, <1>4 DEF Next

LEMMA ExpiryStep == Inv /\ [Next]_vars => ExpiryMatchesToken'
<1> SUFFICES ASSUME Inv, [Next]_vars PROVE ExpiryMatchesToken'
  OBVIOUS
<1>1. ASSUME NEW c \in Callers, Store(c)
      PROVE  ExpiryMatchesToken'
  <2>1. /\ held[c] = since[c] + LifeHeld(c) /\ LifeHeld(c) \in Nat
        /\ since[c] <= clock /\ clock <= since[c] + MaxWait
        /\ since[c] \in Nat /\ clock \in Nat
    BY <1>1, HeldFacts, BoundsAssumption DEF Store, Inv, StepsTimely, TypeOK, Instant
  <2>2. token' = held[c] /\ expiry' = clock + LifeHeld(c)
    BY <1>1 DEF Store
  <2>3. QED
    BY <2>1, <2>2, MaxWaitAssumption DEF ExpiryMatchesToken
<1>2. CASE UNCHANGED <<token, expiry>>
  BY <1>2 DEF Inv, ExpiryMatchesToken
<1>3. QED
  BY <1>1, <1>2 DEF Next, vars, Tick, ReadClock, UseCached, Fetch, Issue, Finish

(* The margin pays for the late reckoning of the expiry, for the stale     *)
(* reading of the clock and for the request itself.                        *)
LEMMA RequestStep == Inv /\ [Next]_vars => TokenOutlivesRequest'
<1> SUFFICES ASSUME Inv, [Next]_vars PROVE TokenOutlivesRequest'
  OBVIOUS
<1>0. TypeOK /\ StepsTimely /\ ExpiryMatchesToken /\ TokenOutlivesRequest
  BY DEF Inv
<1>1. ASSUME NEW c \in Callers, UseCached(c)
      PROVE  TokenOutlivesRequest'
  <2>1. /\ since[c] \in Nat /\ clock \in Nat /\ token \in Nat /\ expiry \in Nat
        /\ clock <= since[c] + MaxWait
        /\ since[c] + Margin < expiry /\ expiry <= token + MaxWait
    BY <1>0, <1>1, BoundsAssumption
    DEF UseCached, Usable, StepsTimely, ExpiryMatchesToken, TypeOK, Instant, End
  <2>2. clock + MaxWait < token
    BY <2>1, MarginAssumption, MaxWaitAssumption
  <2>3. QED
    BY <1>0, <1>1, <2>2 DEF UseCached, Goto, TokenOutlivesRequest, TypeOK
<1>2. ASSUME NEW c \in Callers, Store(c)
      PROVE  TokenOutlivesRequest'
  <2>1. /\ held[c] = since[c] + LifeHeld(c) /\ LifeHeld(c) \in Nat
        /\ 2 * MaxWait < LifeHeld(c)
        /\ clock <= since[c] + MaxWait
        /\ since[c] \in Nat /\ clock \in Nat
    BY <1>0, <1>2, HeldFacts, BoundsAssumption DEF Store, StepsTimely, TypeOK, Instant
  <2>2. clock + MaxWait < held[c]
    BY <2>1, MaxWaitAssumption
  <2>3. QED
    BY <1>0, <1>2, <2>2 DEF Store, Goto, TokenOutlivesRequest, TypeOK
<1>3. ASSUME NEW c \in Callers,
             ReadClock(c) \/ Fetch(c) \/ Finish(c)
             \/ \E said \in Lifetimes : Issue(c, said)
      PROVE  TokenOutlivesRequest'
  BY <1>0, <1>3 DEF ReadClock, Fetch, Finish, Issue, Goto, TokenOutlivesRequest, TypeOK
<1>4. CASE UNCHANGED <<pc, since, held>>
  BY <1>0, <1>4 DEF TokenOutlivesRequest
<1>5. QED
  BY <1>1, <1>2, <1>3, <1>4 DEF Next, vars, Tick

LEMMA InvAlways == Spec => []Inv
<1>1. Inv /\ [Next]_vars => Inv'
  BY TypeStep, TimelyStep, ExpiryStep, RequestStep DEF Inv
<1>2. QED
  BY InvInit, <1>1, PTL DEF Spec

(* The variables keep their types. *)
THEOREM TypeCorrect == Spec => []TypeOK
<1>1. Inv => TypeOK
  BY DEF Inv
<1>2. QED
  BY InvAlways, <1>1, PTL

(* The cached expiry never belongs to another token. *)
THEOREM CacheIsConsistent == Spec => []ExpiryMatchesToken
<1>1. Inv => ExpiryMatchesToken
  BY DEF Inv
<1>2. QED
  BY InvAlways, <1>1, PTL

(* accessToken never hands out a token that ends before the reply it is    *)
(* used for has reached the server.                                        *)
THEOREM RepliesCarryGoodTokens == Spec => []TokenOutlivesRequest
<1>1. Inv => TokenOutlivesRequest
  BY DEF Inv
<1>2. QED
  BY InvAlways, <1>1, PTL
=============================================================================
