---------------------------- MODULE AccessToken ----------------------------
(***************************************************************************)
(* internal/qqbot/bot.go, accessToken and the request it is fetched for:   *)
(* a cached token is used until Margin before the end of its life as the   *)
(* bot reckons it, which is late by the time the answer took. Callers read *)
(* the clock, the cache and the server's answer at different moments, and  *)
(* may fetch and store tokens at the same time.                            *)
(***************************************************************************)
EXTENDS Naturals

CONSTANTS
  Callers,     \* webhook requests
  Lifetimes,   \* expires_in of a token, 0 when missing or unreadable
  DefaultLife, \* 7200 s, for a missing expires_in
  Margin,      \* 60 s
  MaxWait,     \* longest stretch between two steps of a caller: the HTTP
               \* client's 10 s, the wait for the mutex
  MaxTime,     \* bound of the clock
  MaxLife      \* bound of a token's life

Life(said) == IF said = 0 THEN DefaultLife ELSE said

ASSUME BoundsAssumption == MaxTime \in Nat /\ MaxLife \in Nat
ASSUME MaxWaitAssumption == MaxWait \in Nat
ASSUME MarginAssumption == Margin \in Nat /\ 3 * MaxWait <= Margin
(* The server keeps its word, and a token is good for two requests. *)
ASSUME LifetimesAssumption ==
  /\ Lifetimes \subseteq Nat /\ DefaultLife \in Nat
  /\ \A said \in Lifetimes : Life(said) <= MaxLife /\ 2 * MaxWait < Life(said)

VARIABLES
  clock,   \* real time
  token,   \* Bot.token, known by when it really ends; 0 is ""
  expiry,  \* Bot.tokenExpiry
  pc,      \* where each caller is
  since,   \* when it took its last step: its local variable now in "reading"
  held     \* the token it got or uses, known by its end; 0 is none

vars == <<clock, token, expiry, pc, since, held>>

Instant == 0..MaxTime
End == 0..(MaxTime + MaxLife)

TypeOK ==
  /\ clock \in Instant
  /\ token \in End /\ expiry \in End
  /\ pc \in [Callers -> {"idle", "reading", "fetching", "storing", "sending"}]
  /\ since \in [Callers -> Instant]
  /\ held \in [Callers -> End]

Init ==
  /\ clock = 0
  /\ token = 0 /\ expiry = 0
  /\ pc = [c \in Callers |-> "idle"]
  /\ since = [c \in Callers |-> 0]
  /\ held = [c \in Callers |-> 0]

-----------------------------------------------------------------------------
Goto(c, to) ==
  /\ pc' = [pc EXCEPT ![c] = to]
  /\ since' = [since EXCEPT ![c] = clock]

Tick ==
  /\ clock < MaxTime
  /\ \A c \in Callers : pc[c] # "idle" => clock < since[c] + MaxWait
  /\ clock' = clock + 1
  /\ UNCHANGED <<token, expiry, pc, since, held>>

ReadClock(c) ==
  /\ pc[c] = "idle"
  /\ Goto(c, "reading")
  /\ UNCHANGED <<clock, token, expiry, held>>

(* Mutant of Usable: the margin is forgotten. *)
UsableToTheEnd(c) == token # 0 /\ since[c] < expiry

(* The check under the mutex, by the clock read before it. *)
Usable(c) == token # 0 /\ since[c] + Margin < expiry

UseCached(c) ==
  /\ pc[c] = "reading" /\ Usable(c)
  /\ held' = [held EXCEPT ![c] = token]
  /\ Goto(c, "sending")
  /\ UNCHANGED <<clock, token, expiry>>

Fetch(c) ==
  /\ pc[c] = "reading" /\ ~Usable(c)
  /\ Goto(c, "fetching")
  /\ UNCHANGED <<clock, token, expiry, held>>

(* The server makes out a token; its answer is on the way. *)
Issue(c, said) ==
  /\ pc[c] = "fetching"
  /\ held' = [held EXCEPT ![c] = clock + Life(said)]
  /\ Goto(c, "storing")
  /\ UNCHANGED <<clock, token, expiry>>

(* The life of the token an answer carries: expires_in, or the default. *)
LifeHeld(c) == held[c] - since[c]

(* Mutant of Store: the margin is added to the life of the token. *)
StoreLater(c) ==
  /\ pc[c] = "storing"
  /\ token' = held[c]
  /\ expiry' = clock + LifeHeld(c) + Margin
  /\ Goto(c, "sending")
  /\ UNCHANGED <<clock, held>>

(* Mutant of Store: the expiry of the token before is kept. *)
StoreTokenOnly(c) ==
  /\ pc[c] = "storing"
  /\ token' = held[c]
  /\ Goto(c, "sending")
  /\ UNCHANGED <<clock, expiry, held>>

(* The life begins anew when the answer is stored: later than it did. *)
Store(c) ==
  /\ pc[c] = "storing"
  /\ token' = held[c]
  /\ expiry' = clock + LifeHeld(c)
  /\ Goto(c, "sending")
  /\ UNCHANGED <<clock, held>>

(* The token request fails, on the way there or back, or the message got   *)
(* to the QQ server: accessToken, or reply, returns.                       *)
Finish(c) ==
  /\ pc[c] \in {"fetching", "storing", "sending"}
  /\ held' = [held EXCEPT ![c] = 0]
  /\ Goto(c, "idle")
  /\ UNCHANGED <<clock, token, expiry>>

Next ==
  \/ Tick
  \/ \E c \in Callers :
       \/ ReadClock(c) \/ UseCached(c) \/ Fetch(c)
       \/ \E said \in Lifetimes : Issue(c, said)
       \/ Store(c) \/ Finish(c)

Spec == Init /\ [][Next]_vars

-----------------------------------------------------------------------------
(* A caller at work took its last step at most MaxWait ago, and a token on *)
(* its way from the server has a life of the kind the server grants.       *)
StepsTimely ==
  \A c \in Callers : pc[c] # "idle" =>
    /\ since[c] <= clock /\ clock <= since[c] + MaxWait
    /\ pc[c] = "storing" => \E said \in Lifetimes : held[c] = since[c] + Life(said)

(* The cached expiry is the cached token's own, however many callers store *)
(* at the same time: never before its end and at most MaxWait after.       *)
ExpiryMatchesToken ==
  token <= expiry /\ expiry <= token + MaxWait

(* A message on its way to the QQ server carries a token that will still   *)
(* be valid when it gets there.                                            *)
TokenOutlivesRequest ==
  \A c \in Callers : pc[c] = "sending" => since[c] + MaxWait < held[c]

Inv == TypeOK /\ StepsTimely /\ ExpiryMatchesToken /\ TokenOutlivesRequest
=============================================================================
