----------------------------- MODULE Assistant -----------------------------
(***************************************************************************)
(* What a turn of the orchestrator leans on besides the session store: the *)
(* configuration, read when the process starts, the prompt loader, which   *)
(* all turns share, a request to the model, which a turn makes once it has *)
(* its prompt, and a run of a skill, which the model asks for.             *)
(***************************************************************************)
EXTENDS Integers, Sequences

CONSTANTS
  Names, OldName, MaxLines,
  Callers, Texts, Blank, Absent, Failure, MaxEdits,
  Skills, NoId, Unknown, DefaultMax, LastMax,
  Responses, Styles, NoName,
  Followed  \* the turn whose request or skill is followed

VARIABLES exported, file, line, env, loaded,
          past, content, modTime, pc, stat, data,
          skill, run, current, executed, steps, final, jumped,
          response, style, fragments, told, finished, full, acc, completed,
          request, message

C == INSTANCE Config
P == INSTANCE PromptLoader
S == INSTANCE SkillRunner
M == INSTANCE ResponseStream WITH pc <- request

ASSUME OldNameAssumption == OldName \in [Names -> Names]
ASSUME FollowedAssumption == Followed \in Callers
ASSUME LimitsAssumption == DefaultMax \in Int /\ LastMax \in Nat \ {0}
ASSUME SkillsAssumption ==
  \A s \in Skills :
    /\ Len(s.workflow) \in Nat /\ DOMAIN s.workflow = 1..Len(s.workflow)
    /\ s.maxSteps \in Int
ASSUME ResponsesAssumption == \A r \in Responses : M!Proper(r)
ASSUME StylesAssumption == Styles \subseteq M!Manners

configVars == <<exported, file, line, env, loaded>>
loaderVars == <<past, content, modTime, pc, stat, data>>
skillVars == <<skill, run, current, executed, steps, final, jumped>>
requestVars == <<response, style, fragments, told, finished, full, acc, completed,
                 request, message>>
vars == <<configVars, loaderVars, skillVars, requestVars>>

Init == C!Init /\ P!Init /\ S!Init /\ M!Init

Configured == \A n \in Names : loaded[n] # C!Empty

(* Nothing is begun before Load has returned. Bound: what follows does not *)
(* depend on what it read, so only the defaults are followed.              *)
Unset == Configured /\ file = <<>> /\ \A n \in Names : exported[n] = C!Empty

(* A turn without a prompt has ended. Prompt, request and skill share no   *)
(* variable, so a bound is sound: one of them moves, with the others at    *)
(* rest, a request and a skill from one state of the loader.               *)
AtRest == Unset /\ run = "idle" /\ M!Init

Ready ==
  /\ Unset
  /\ pc[Followed] = "returned" /\ data[Followed] # Failure
  /\ Len(past) = 1 /\ \A c \in Callers \ {Followed} : pc[c] = "idle"

Configure ==
  /\ ~Configured
  /\ C!ReadLine \/ C!Load
  /\ UNCHANGED <<loaderVars, skillVars, requestVars>>

Load(c) ==
  /\ AtRest
  /\ P!Stat(c) \/ P!Look(c) \/ P!ReadFile(c) \/ P!Store(c) \/ P!Return(c)
  /\ UNCHANGED <<configVars, skillVars, requestVars>>

Edit(s) == AtRest /\ P!Edit(s) /\ UNCHANGED <<configVars, skillVars, requestVars>>

Ask ==
  /\ Ready /\ run = "idle"
  /\ M!Next
  /\ UNCHANGED <<configVars, loaderVars, skillVars>>

RunSkill ==
  /\ Ready /\ M!Init
  /\ \E s \in Skills : S!Refuse(s) \/ S!Begin(s)
  /\ UNCHANGED <<configVars, loaderVars, requestVars>>

Walk == S!Walk /\ UNCHANGED <<configVars, loaderVars, requestVars>>

Next ==
  \/ Configure
  \/ \E c \in Callers : Load(c)
  \/ \E s \in P!States : Edit(s)
  \/ Ask \/ RunSkill \/ Walk

(* A goroutine that runs a skill is scheduled, a script has a timeout and  *)
(* a request to the model has one.                                         *)
Spec == Init /\ [][Next]_vars /\ WF_vars(Walk)
-----------------------------------------------------------------------------
SourcesRank == C!SourcesRank

EmptySwitchesOff == C!EmptySwitchesOff

LoadIsRecent == P!LoadIsRecent

ResponseReassembled == M!ResponseReassembled

NamedCallsWhole == M!NamedCallsWhole

CallsPaired == M!CallsPaired

RefusedWhenTooLong == S!RefusedWhenTooLong

(* However the model jumps, a run ends. *)
RunsEnd == run = "running" ~> run # "running"
=============================================================================
