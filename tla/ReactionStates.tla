--------------------------- MODULE ReactionStates ---------------------------
(***************************************************************************)
(* internal/feishu/reaction_state.go and setReactionState of bot.go: the   *)
(* emoji on a message shows how far its job is. Moving it takes a look at  *)
(* the map of reaction ids, a delete call, a create call and a store into  *)
(* the map, with no lock held from the first to the last.                  *)
(* A call to Feishu and the Set after it are one step here: they commute   *)
(* with all that jobs of other messages do in between. Two jobs of one     *)
(* message can get between them; such a message is excused (slipped) from  *)
(* the moment the two are at work together.                                *)
(***************************************************************************)
EXTENDS Naturals

CONSTANTS
  Messages,    \* message ids
  Jobs,        \* goroutines started by onMessage
  MessageOf,   \* the message each job handles
  Emojis,      \* configured, non-blank emojis: a subset of 1..3, in order of use
  NoReaction   \* ""

ASSUME MessageOfAssumption == MessageOf \in [Jobs -> Messages]
ASSUME EmojisAssumption == Emojis \subseteq 1..3
ASSUME NoReactionAssumption == NoReaction \notin Jobs \X Emojis

(* Each create call that takes effect makes a reaction of its own. *)
Reactions == Jobs \X Emojis

VARIABLES
  live,      \* reactions on the users' screens
  tracked,   \* reactionStateStore.items
  step,      \* where each job is in setReactionState
  emoji,     \* the emoji it is setting or set last, 0 at first
  previous,  \* its local variable previous
  slipped    \* history: messages whose emoji got out of step (see Slip)

vars == <<live, tracked, step, emoji, previous, slipped>>

TypeOK ==
  /\ live \in SUBSET Reactions
  /\ tracked \in [Messages -> Reactions \cup {NoReaction}]
  /\ step \in [Jobs -> {"rest", "look", "remove", "add", "gone"}]
  /\ emoji \in [Jobs -> Emojis \cup {0}]
  /\ \A j \in Jobs : step[j] \in {"look", "remove", "add"} => emoji[j] # 0
  /\ previous \in [Jobs -> Reactions \cup {NoReaction}]
  /\ slipped \in SUBSET Messages

Init ==
  /\ live = {}
  /\ tracked = [m \in Messages |-> NoReaction]
  /\ step = [j \in Jobs |-> "rest"]
  /\ emoji = [j \in Jobs |-> 0]
  /\ previous = [j \in Jobs |-> NoReaction]
  /\ slipped = {}

On(m) == {r \in live : MessageOf[r[1]] = m}

Busy(m) == {j \in Jobs : MessageOf[j] = m /\ step[j] \notin {"rest", "gone"}}

-----------------------------------------------------------------------------
(* The bookkeeping of a message is excused once a call did not do and      *)
(* report what was asked, once two jobs moved its emoji at the same time,  *)
(* or once a restart emptied the map.                                      *)
Slip(m, excused) == slipped' = IF excused THEN slipped \cup {m} ELSE slipped

(* Mutant of Enter: a blank emoji is set like any other. *)
EnterBlank(j, e) ==
  /\ step[j] = "rest" /\ emoji[j] < e
  /\ step' = [step EXCEPT ![j] = "look"]
  /\ emoji' = [emoji EXCEPT ![j] = 0]
  /\ Slip(MessageOf[j], Busy(MessageOf[j]) # {})
  /\ UNCHANGED <<live, tracked, previous>>

(* setReactionState with an emoji that is not blank. *)
Enter(j, e) ==
  /\ step[j] = "rest" /\ emoji[j] < e
  /\ step' = [step EXCEPT ![j] = "look"]
  /\ emoji' = [emoji EXCEPT ![j] = e]
  /\ Slip(MessageOf[j], Busy(MessageOf[j]) # {})
  /\ UNCHANGED <<live, tracked, previous>>

Look(j) ==
  /\ step[j] = "look"
  /\ previous' = [previous EXCEPT ![j] = tracked[MessageOf[j]]]
  /\ step' = [step EXCEPT ![j] =
                IF tracked[MessageOf[j]] = NoReaction THEN "add" ELSE "remove"]
  /\ UNCHANGED <<live, tracked, emoji, slipped>>

(* Mutant of Remove: a deleted reaction stays in the map. *)
RemoveUncleared(j, o) ==
  /\ step[j] = "remove"
  /\ o \in {"ok", "failed", "lost"} /\ (previous[j] \notin live => o = "failed")
  /\ live' = IF o = "failed" THEN live ELSE live \ {previous[j]}
  /\ step' = [step EXCEPT ![j] = "add"]
  /\ Slip(MessageOf[j], o # "ok")
  /\ UNCHANGED <<tracked, emoji, previous>>

(* deleteReaction: only a reported success clears the map; a failure is    *)
(* logged and the create call follows all the same. A reaction that is no  *)
(* longer there cannot be deleted.                                         *)
Remove(j, o) ==
  /\ step[j] = "remove"
  /\ o \in {"ok", "failed", "lost"} /\ (previous[j] \notin live => o = "failed")
  /\ live' = IF o = "failed" THEN live ELSE live \ {previous[j]}
  /\ tracked' = IF o = "ok" THEN [tracked EXCEPT ![MessageOf[j]] = NoReaction]
                ELSE tracked
  /\ step' = [step EXCEPT ![j] = "add"]
  /\ Slip(MessageOf[j], o # "ok")
  /\ UNCHANGED <<emoji, previous>>

(* react and Set: a success without an id ("noid") empties the entry, a    *)
(* failure leaves the old one.                                             *)
Add(j, o) ==
  /\ step[j] = "add" /\ o \in {"ok", "noid", "failed", "lost"}
  /\ live' = IF o = "failed" THEN live ELSE live \cup {<<j, emoji[j]>>}
  /\ tracked' = [tracked EXCEPT ![MessageOf[j]] =
                   CASE o = "ok" -> <<j, emoji[j]>>
                     [] o = "noid" -> NoReaction
                     [] OTHER -> @]
  /\ step' = [step EXCEPT ![j] = "rest"]
  /\ Slip(MessageOf[j], o \in {"noid", "lost"})
  /\ UNCHANGED <<emoji, previous>>

(* The process stops, the jobs it ran with it; a new one starts with an    *)
(* empty map, while the emojis stay where they are.                        *)
Restart ==
  /\ tracked' = [m \in Messages |-> NoReaction]
  /\ step' = [j \in Jobs |-> IF emoji[j] = 0 THEN "rest" ELSE "gone"]
  /\ slipped' = Messages
  /\ UNCHANGED <<live, emoji, previous>>

Move(j) ==
  \/ \E e \in Emojis : Enter(j, e)
  \/ Look(j)
  \/ \E o \in {"ok", "noid", "failed", "lost"} : Remove(j, o) \/ Add(j, o)

Next == Restart \/ \E j \in Jobs : Move(j)

Spec == Init /\ [][Next]_vars

-----------------------------------------------------------------------------
(* A job never holds another message's reaction to delete. *)
OwnReactions ==
  /\ \A m \in Messages :
       tracked[m] # NoReaction => MessageOf[tracked[m][1]] = m
  /\ \A j \in Jobs :
       /\ previous[j] # NoReaction => MessageOf[previous[j][1]] = MessageOf[j]
       /\ step[j] = "remove" => previous[j] # NoReaction

(* As long as nothing slipped, jobs that handle one message take turns at  *)
(* its emoji, the map knows the only emoji on it, and the job about to add *)
(* one has found or made the message clean: the received, processing and   *)
(* done emojis replace each other.                                         *)
InStep ==
  \A m \in Messages \ slipped :
    /\ \A i, j \in Busy(m) : i = j
    /\ On(m) = IF tracked[m] = NoReaction THEN {} ELSE {tracked[m]}
    /\ \A j \in Busy(m) :
         /\ step[j] = "remove" => previous[j] = tracked[m] /\ tracked[m] # NoReaction
         /\ step[j] = "add" => tracked[m] = NoReaction

Inv == TypeOK /\ OwnReactions /\ InStep
=============================================================================
