---------------------------- MODULE DedupeWindow ----------------------------
(***************************************************************************)
(* What a Deduper promises the bot (interface Deduper, internal/feishu/    *)
(* dedupe.go): Mark answers "new" or "dup" about a message id, and two     *)
(* "new" answers about one id are a whole TTL apart, give or take Slack.   *)
(* It says nothing of maps, locks, expiry sweeps or when the clock is read.*)
(***************************************************************************)
EXTENDS Naturals

CONSTANTS
  Keys,       \* message ids that can be marked
  EmptyKey,   \* the empty message id, never deduplicated
  Callers,    \* goroutines that call Mark
  TTL,        \* how long an accepted id stays known
  Slack,      \* how far the measured window may be off
  NoTime      \* "never accepted"

VARIABLES
  clock,       \* real time
  acceptedAt,  \* when each id was last answered "new"
  asked,       \* the id of each caller's latest Mark
  verdict      \* "idle", "pending", "new" or "dup"

vars == <<clock, acceptedAt, asked, verdict>>

Init ==
  /\ clock = 0
  /\ acceptedAt = [k \in Keys |-> NoTime]
  /\ asked = [c \in Callers |-> EmptyKey]
  /\ verdict = [c \in Callers |-> "idle"]

Pass ==
  /\ clock' = clock + 1
  /\ UNCHANGED <<acceptedAt, asked, verdict>>

Ask(c, k) ==
  /\ verdict[c] = "idle"
  /\ asked' = [asked EXCEPT ![c] = k]
  /\ verdict' = [verdict EXCEPT ![c] = "pending"]
  /\ UNCHANGED <<clock, acceptedAt>>

(* An event without a message id is always handled. *)
Exempt(c) ==
  /\ verdict[c] = "idle"
  /\ asked' = [asked EXCEPT ![c] = EmptyKey]
  /\ verdict' = [verdict EXCEPT ![c] = "new"]
  /\ UNCHANGED <<clock, acceptedAt>>

(* "new" only when the previous acceptance is a window old. *)
AnswerNew(c) ==
  /\ verdict[c] = "pending"
  /\ \/ acceptedAt[asked[c]] = NoTime
     \/ clock + Slack >= acceptedAt[asked[c]] + TTL
  /\ acceptedAt' = [acceptedAt EXCEPT ![asked[c]] = clock]
  /\ verdict' = [verdict EXCEPT ![c] = "new"]
  /\ UNCHANGED <<clock, asked>>

(* "dup" only about an id that was accepted within the window. *)
AnswerDup(c) ==
  /\ verdict[c] = "pending"
  /\ acceptedAt[asked[c]] # NoTime
  /\ clock < acceptedAt[asked[c]] + TTL + Slack
  /\ verdict' = [verdict EXCEPT ![c] = "dup"]
  /\ UNCHANGED <<clock, acceptedAt, asked>>

Leave(c) ==
  /\ verdict[c] \in {"new", "dup"}
  /\ verdict' = [verdict EXCEPT ![c] = "idle"]
  /\ UNCHANGED <<clock, acceptedAt, asked>>

Next ==
  \/ Pass
  \/ \E c \in Callers :
       \/ \E k \in Keys : Ask(c, k)
       \/ Exempt(c) \/ AnswerNew(c) \/ AnswerDup(c) \/ Leave(c)

Spec == Init /\ [][Next]_vars
=============================================================================
