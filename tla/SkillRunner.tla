---------------------------- MODULE SkillRunner ----------------------------
(***************************************************************************)
(* internal/skill: one call of the run_skill tool walks the workflow of a  *)
(* skill; a step of the model's may jump anywhere in it, back included. A  *)
(* run shares nothing with another.                                        *)
(***************************************************************************)
EXTENDS Integers, Sequences

CONSTANTS
  Skills,     \* [workflow : Seq([id, type]), maxSteps : Int]; a step's type
              \* is "script", "llm", "end" or not one of them
  NoId,       \* ""
  Unknown,    \* a next_step that no workflow has
  DefaultMax, \* SKILL_MAX_STEPS
  LastMax     \* 8

VARIABLES
  skill,      \* the skill that runs
  run,        \* "idle", "running", "ok", "failed", "exceeded"
  current,    \* the step to come
  executed,   \* how many steps were done
  steps,      \* RunResult.Steps: by id, which execution gave the output
  final,      \* RunResult.Final: which execution gave it, or AllSteps
  jumped      \* history: a step went anywhere but on

runVars == <<skill, run, current, executed, steps, final, jumped>>

Workflow == skill.workflow
NoSkill == [workflow |-> <<>>, maxSteps |-> 0]
AllSteps == -1
Finishes == {"finish", "end"}

Init ==
  /\ skill = NoSkill /\ run = "idle"
  /\ current = 1 /\ executed = 0
  /\ steps = <<>> /\ final = 0
  /\ jumped = FALSE

Limit(s) ==
  IF s.maxSteps > 0 THEN s.maxSteps
  ELSE IF DefaultMax > 0 THEN DefaultMax ELSE LastMax

(* stepIndex: of steps with the same id the last one counts. *)
Ids(w) == {w[n].id : n \in DOMAIN w}
StepIndex(w, id) ==
  CHOOSE n \in DOMAIN w : w[n].id = id /\ \A m \in DOMAIN w : w[m].id = id => m <= n
-----------------------------------------------------------------------------
(* Tool.Call finds no such skill, or none that can run. *)
Refuse(s) ==
  /\ run = "idle"
  /\ s.workflow = <<>> \/ NoId \in Ids(s.workflow)
  /\ skill' = s /\ run' = "failed"
  /\ UNCHANGED <<current, executed, steps, final, jumped>>

Begin(s) ==
  /\ run = "idle" /\ s.workflow # <<>> /\ NoId \notin Ids(s.workflow)
  /\ skill' = s /\ run' = "running"
  /\ UNCHANGED <<current, executed, steps, final, jumped>>

Running == run = "running" /\ executed < Limit(skill) /\ current <= Len(Workflow)
Step == Workflow[current]

(* What a step that succeeds leaves behind. *)
Output ==
  /\ executed' = executed + 1
  /\ steps' = [id \in DOMAIN steps \cup {Step.id} |->
                 IF id = Step.id THEN executed + 1 ELSE steps[id]]
  /\ final' = executed + 1

(* A script's output, or a model's without next_step. *)
GoOn ==
  /\ Running /\ Step.type \in {"script", "llm"}
  /\ Output
  /\ current' = current + 1
  /\ UNCHANGED <<skill, run, jumped>>

(* Mutant of Jump: a jump is not counted. *)
JumpFree(id) ==
  /\ Running /\ Step.type = "llm"
  /\ steps' = [k \in DOMAIN steps \cup {Step.id} |->
                 IF k = Step.id THEN executed + 1 ELSE steps[k]]
  /\ final' = executed + 1
  /\ jumped' = TRUE
  /\ current' = IF id \in Ids(Workflow) THEN StepIndex(Workflow, id) ELSE current
  /\ run' = IF id \in Finishes THEN "ok"
            ELSE IF id \in Ids(Workflow) THEN "running" ELSE "failed"
  /\ UNCHANGED <<skill, executed>>

(* The model names the next step: any of the workflow, whatever choices    *)
(* the step lists, the end, or one there is not.                           *)
Jump(id) ==
  /\ Running /\ Step.type = "llm"
  /\ Output
  /\ jumped' = TRUE
  /\ IF id \in Finishes THEN run' = "ok" /\ UNCHANGED current
     ELSE IF id \in Ids(Workflow)
     THEN current' = StepIndex(Workflow, id) /\ UNCHANGED run
     ELSE run' = "failed" /\ UNCHANGED current
  /\ UNCHANGED skill

End ==
  /\ Running /\ Step.type = "end"
  /\ final' = AllSteps
  /\ run' = "ok"
  /\ UNCHANGED <<skill, current, executed, steps, jumped>>

(* A script or a request to the model that fails, a type there is not. *)
StepFails ==
  /\ Running /\ Step.type # "end"
  /\ run' = "failed"
  /\ UNCHANGED <<skill, current, executed, steps, final, jumped>>

(* Mutant of Leave: a run that used up its steps is taken for a runaway. *)
LeaveStrict ==
  /\ run = "running" /\ ~Running
  /\ run' = IF executed = Limit(skill) THEN "exceeded" ELSE "ok"
  /\ UNCHANGED <<skill, current, executed, steps, final, jumped>>

(* After the loop. *)
Leave ==
  /\ run = "running" /\ ~Running
  /\ run' = IF current <= Len(Workflow) THEN "exceeded" ELSE "ok"
  /\ UNCHANGED <<skill, current, executed, steps, final, jumped>>

Walk ==
  \/ GoOn \/ End \/ StepFails \/ Leave
  \/ \E id \in Ids(Workflow) \cup Finishes \cup {Unknown} : Jump(id)

Next == Walk \/ \E s \in Skills : Refuse(s) \/ Begin(s)
-----------------------------------------------------------------------------
(* The steps of a workflow that runs in its order, its end step included.  *)
Straight(w) ==
  {n \in DOMAIN w : \A m \in 1..n - 1 : w[m].type # "end"}

(* A run in the order of its workflow is refused as too long just when it  *)
(* has more steps than allowed; an end step, though nothing runs there,    *)
(* needs one of its own.                                                   *)
RefusedWhenTooLong ==
  run \in {"ok", "exceeded"} /\ ~jumped =>
    (run = "exceeded" <=> \E n \in Straight(Workflow) : n > Limit(skill))
=============================================================================
