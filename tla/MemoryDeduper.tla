---------------------------- MODULE MemoryDeduper ----------------------------
(***************************************************************************)
(* internal/feishu/dedupe.go: the in-process Deduper. A Mark reads the     *)
(* clock, waits for the mutex, and only then sweeps the expired entries,   *)
(* looks its key up and stores the new expiry. The reading it decides by   *)
(* is therefore stale, and another caller may meanwhile have swept the     *)
(* very entry it is about to look up with a later reading.                 *)
(***************************************************************************)
EXTENDS Naturals

CONSTANTS
  Keys,       \* message ids
  EmptyKey,   \* ""
  Callers,    \* goroutines inside Mark: webhook requests, websocket events
  TTL,        \* DEDUPE_TTL in clock ticks
  MaxLag,     \* longest wait between reading the clock and holding the mutex
  MaxTime,    \* bound of the clock
  NoTime      \* "no entry", "never"

ASSUME TTLAssumption == TTL \in Nat
ASSUME MaxLagAssumption == MaxLag \in Nat
ASSUME MaxTimeAssumption == MaxTime \in Nat
ASSUME NoTimeAssumption == NoTime \notin Nat
ASSUME EmptyKeyAssumption == EmptyKey \notin Keys

VARIABLES
  clock,       \* real time
  seen,        \* memoryDeduper.seen: the expiry of each key, NoTime if absent
  key,         \* the argument of each caller's Mark
  now,         \* the local variable now of each caller's Mark
  verdict,     \* "idle", "pending" (before the mutex), "new", "dup"
  acceptedAt   \* history: when each key was last answered "new"

vars == <<clock, seen, key, now, verdict, acceptedAt>>

Instant == 0..MaxTime
Expiry == 0..(MaxTime + TTL)

TypeOK ==
  /\ clock \in Instant
  /\ seen \in [Keys -> Expiry \cup {NoTime}]
  /\ key \in [Callers -> Keys \cup {EmptyKey}]
  /\ now \in [Callers -> Instant]
  /\ verdict \in [Callers -> {"idle", "pending", "new", "dup"}]
  /\ acceptedAt \in [Keys -> Instant \cup {NoTime}]

Init ==
  /\ clock = 0
  /\ seen = [k \in Keys |-> NoTime]
  /\ key = [c \in Callers |-> EmptyKey]
  /\ now = [c \in Callers |-> 0]
  /\ verdict = [c \in Callers |-> "idle"]
  /\ acceptedAt = [k \in Keys |-> NoTime]

-----------------------------------------------------------------------------
(* The mutex is held for map operations only: nobody waits longer than     *)
(* MaxLag for it.                                                          *)
Tick ==
  /\ clock < MaxTime
  /\ \A c \in Callers : verdict[c] = "pending" => clock < now[c] + MaxLag
  /\ clock' = clock + 1
  /\ UNCHANGED <<seen, key, now, verdict, acceptedAt>>

(* An empty key returns before the clock or the map is touched. *)
MarkEmpty(c) ==
  /\ verdict[c] = "idle"
  /\ key' = [key EXCEPT ![c] = EmptyKey]
  /\ verdict' = [verdict EXCEPT ![c] = "new"]
  /\ UNCHANGED <<clock, seen, now, acceptedAt>>

ReadClock(c, k) ==
  /\ verdict[c] = "idle"
  /\ key' = [key EXCEPT ![c] = k]
  /\ now' = [now EXCEPT ![c] = clock]
  /\ verdict' = [verdict EXCEPT ![c] = "pending"]
  /\ UNCHANGED <<clock, seen, acceptedAt>>

(* Mutant of Swept: the comparison of the sweep the wrong way round. *)
SweptFresh(t) ==
  [k \in Keys |-> IF seen[k] # NoTime /\ t < seen[k] THEN NoTime ELSE seen[k]]

(* The map after the loop that drops what has expired by reading t. *)
Swept(t) ==
  [k \in Keys |-> IF seen[k] # NoTime /\ t > seen[k] THEN NoTime ELSE seen[k]]

Known(k, t) == Swept(t)[k] # NoTime /\ t < Swept(t)[k]

(* Mutant of Accept: a first sight is not stored. *)
AcceptUnstored(c) ==
  /\ verdict[c] = "pending"
  /\ ~Known(key[c], now[c])
  /\ seen' = Swept(now[c])
  /\ acceptedAt' = [acceptedAt EXCEPT ![key[c]] = clock]
  /\ verdict' = [verdict EXCEPT ![c] = "new"]
  /\ UNCHANGED <<clock, key, now>>

(* Mutant of Accept: the TTL is added twice. *)
AcceptDoubled(c) ==
  /\ verdict[c] = "pending"
  /\ ~Known(key[c], now[c])
  /\ seen' = [Swept(now[c]) EXCEPT ![key[c]] = now[c] + TTL + TTL]
  /\ acceptedAt' = [acceptedAt EXCEPT ![key[c]] = clock]
  /\ verdict' = [verdict EXCEPT ![c] = "new"]
  /\ UNCHANGED <<clock, key, now>>

Accept(c) ==
  /\ verdict[c] = "pending"
  /\ ~Known(key[c], now[c])
  /\ seen' = [Swept(now[c]) EXCEPT ![key[c]] = now[c] + TTL]
  /\ acceptedAt' = [acceptedAt EXCEPT ![key[c]] = clock]
  /\ verdict' = [verdict EXCEPT ![c] = "new"]
  /\ UNCHANGED <<clock, key, now>>

Reject(c) ==
  /\ verdict[c] = "pending"
  /\ Known(key[c], now[c])
  /\ seen' = Swept(now[c])
  /\ verdict' = [verdict EXCEPT ![c] = "dup"]
  /\ UNCHANGED <<clock, key, now, acceptedAt>>

(* The caller takes the result and may call again. *)
Return(c) ==
  /\ verdict[c] \in {"new", "dup"}
  /\ verdict' = [verdict EXCEPT ![c] = "idle"]
  /\ UNCHANGED <<clock, seen, key, now, acceptedAt>>

Next ==
  \/ Tick
  \/ \E c \in Callers :
       \/ MarkEmpty(c)
       \/ \E k \in Keys : ReadClock(c, k)
       \/ Accept(c) \/ Reject(c) \/ Return(c)

Spec == Init /\ [][Next]_vars

-----------------------------------------------------------------------------
(* A Mark in progress is about a real id and decides by a reading at most  *)
(* MaxLag old.                                                             *)
ReadingsFresh ==
  \A c \in Callers : verdict[c] = "pending" =>
    /\ key[c] \in Keys
    /\ now[c] <= clock
    /\ clock <= now[c] + MaxLag

(* While an accepted id is within its window the map still holds it: its   *)
(* entry is at most MaxLag short of acceptance plus TTL and never beyond   *)
(* it, and it is gone only once that moment has passed, whichever caller   *)
(* swept it and by whatever stale reading.                                 *)
EntryCoversWindow ==
  \A k \in Keys :
    IF acceptedAt[k] = NoTime
    THEN seen[k] = NoTime
    ELSE /\ acceptedAt[k] <= clock
         /\ seen[k] = NoTime => acceptedAt[k] + TTL <= clock + MaxLag
         /\ seen[k] # NoTime =>
              /\ acceptedAt[k] + TTL <= seen[k] + MaxLag
              /\ seen[k] <= acceptedAt[k] + TTL

Inv == TypeOK /\ ReadingsFresh /\ EntryCoversWindow

(* The deduper keeps the promise of DedupeWindow with a slack of MaxLag:   *)
(* "new" twice about one id only TTL apart, "dup" only inside the window.  *)
Window == INSTANCE DedupeWindow WITH asked <- key, Slack <- MaxLag

ImplementsWindow == Window!Spec
=============================================================================
