----------------------------- MODULE TaskPlanning -----------------------------
(***************************************************************************)
(* Implementation plans that the daemon generates for tasks                *)
(* (task_planning_runtime.rs, task_planner.rs, runtime_shared.rs).         *)
(*                                                                         *)
(* A job runs in a thread of its own, with a Codex turn that may take      *)
(* twenty minutes.  Meanwhile the user may edit the plan, cancel the job   *)
(* and start another one, the task may start or end, be archived or        *)
(* deleted, and the daemon may restart.  A result that cannot be saved is  *)
(* kept in memory only.                                                    *)
(*                                                                         *)
(* A plan is known by the job that wrote it.  The description and the      *)
(* revision of a task, which guard its edits like the text of the plan     *)
(* does, are left out.                                                     *)
(***************************************************************************)
EXTENDS Naturals, FiniteSets

CONSTANTS
    PlanTasks,   \* tasks
    Edits,       \* plans written by the user
    PlanLimit,   \* plans that may run at once: 4
    MaxJob,      \* bound: jobs
    MaxReload    \* bound: restarts of the daemon

ASSUME PlanAssumption == PlanLimit \in Nat \ {0} /\ MaxJob \in Nat /\ MaxReload \in Nat

\* A plan of the user is not known by the id of a job.
ASSUME EditsAssumption == Edits \cap (1..MaxJob) = {}

Jobs == 1..MaxJob
NoJob == [id |-> 0, status |-> "none", previous |-> 0, result |-> 0]
Empty == 0    \* the empty plan; a job writes its own id

VARIABLES
    plan,     \* what the daemon holds of every task: its place, the plan and the job
    saved,    \* the same in the store
    planner,  \* the thread of every job: "none", "run" or "over"
    reloads

planVars == <<plan, saved, planner, reloads>>

PlanInit ==
    /\ plan = [t \in PlanTasks |-> [place |-> "open", text |-> Empty, job |-> NoJob]]
    /\ saved = plan
    /\ planner = [j \in Jobs |-> "none"]
    /\ reloads = 0

Running(t) == plan[t].job.status = "running"

\* Not archived, not in review or done, not live, not deleted.
Editable(t) == plan[t].place = "open"

NextJobs == {j \in Jobs : planner[j] = "none" /\ \A i \in 1..(j - 1) : planner[i] # "none"}

\* save_task_changes and publish_tasks: both copies of the task change.
SavePlan(t, next) ==
    /\ plan' = [plan EXCEPT ![t] = next]
    /\ saved' = [saved EXCEPT ![t] = next]

NewJob(t, j, status) == [id |-> j, status |-> status, previous |-> plan[t].text, result |-> Empty]

-----------------------------------------------------------------------------
\* prepare_task_plan
MayPlan(t) ==
    /\ ~Running(t)
    /\ Cardinality({u \in PlanTasks : Running(u)}) < PlanLimit

\* launch_task_plan: a thread that cannot be started finishes the job at once.
LaunchPlan(t, j) ==
    \/ /\ SavePlan(t, [plan[t] EXCEPT !.job = NewJob(t, j, "running")])
       /\ planner' = [planner EXCEPT ![j] = "run"]
    \/ /\ SavePlan(t, [plan[t] EXCEPT !.job = NewJob(t, j, "failed")])
       /\ planner' = [planner EXCEPT ![j] = "over"]

GeneratePlan(t, j) ==
    /\ Editable(t) /\ MayPlan(t)
    /\ LaunchPlan(t, j)
    /\ UNCHANGED reloads

\* prepare_automatic_task_plan, on the way from Backlog to Todo: only a missing plan is
\* generated, and a job that cannot start is kept as failed.
AutoPlan(t, j) ==
    /\ Editable(t) /\ plan[t].text = Empty /\ ~Running(t) /\ plan[t].job.result = Empty
    /\ \/ MayPlan(t) /\ LaunchPlan(t, j)
       \/ /\ SavePlan(t, [plan[t] EXCEPT !.job = NewJob(t, j, "failed")])
          /\ planner' = [planner EXCEPT ![j] = "over"]
    /\ UNCHANGED reloads

\* CancelPlan, whatever place the task has.
CancelPlan(t) ==
    /\ Running(t)
    /\ SavePlan(t, [plan[t] EXCEPT !.job.status = "canceled"])
    /\ UNCHANGED <<planner, reloads>>

\* UpdateDescription: the client saw the current plan.
EditPlan(t, text) ==
    /\ Editable(t) /\ text # plan[t].text
    /\ SavePlan(t, [plan[t] EXCEPT !.text = text])
    /\ UNCHANGED <<planner, reloads>>

\* The board moves the task: it starts, ends, is archived or reopened.
MoveTask(t, place) ==
    /\ plan[t].place # "deleted" /\ place # plan[t].place
    /\ SavePlan(t, [plan[t] EXCEPT !.place = place])
    /\ UNCHANGED <<planner, reloads>>

DeleteTask(t) ==
    /\ Editable(t)
    /\ SavePlan(t, [place |-> "deleted", text |-> Empty, job |-> NoJob])
    /\ UNCHANGED <<planner, reloads>>

-----------------------------------------------------------------------------
\* Mutant: the job is not looked up by its id.
OwnsAnyJob(t, j) == Running(t)

\* finish_task_plan only touches its own job, if it still runs.
OwnsJob(t, j) == Running(t) /\ plan[t].job.id = j

Finished(t, j, ok) ==
    LET status == IF ok THEN "completed" ELSE "failed" IN
    [plan[t] EXCEPT
        !.job.status = status,
        !.job.result = IF ok THEN j ELSE @,
        !.text = IF ok /\ Editable(t) /\ @ = plan[t].job.previous THEN j ELSE @]

\* The result cannot be saved: it is shown, but the plan stays as it was.
KeepUnsaved(t, j, ok) ==
    /\ plan' = [plan EXCEPT ![t].job.status = "failed",
                            ![t].job.result = IF ok THEN j ELSE @]
    /\ UNCHANGED saved

\* generate ends with a plan, with an error or a deadline, or because the job is not
\* active any more; then its result is applied.
FinishPlan(j) ==
    /\ planner[j] = "run"
    /\ planner' = [planner EXCEPT ![j] = "over"]
    /\ \E ok \in BOOLEAN :
         IF \E t \in PlanTasks : OwnsJob(t, j)
         THEN \E t \in PlanTasks :
                /\ OwnsJob(t, j)
                /\ SavePlan(t, Finished(t, j, ok)) \/ KeepUnsaved(t, j, ok)
         ELSE UNCHANGED <<plan, saved>>
    /\ UNCHANGED reloads

\* Mutant: a restart keeps the jobs as they were.
Reload(t) == saved[t]

\* RuntimeState::new: a job that ran is interrupted.
Interrupted(t) ==
    IF saved[t].job.status = "running" THEN [saved[t] EXCEPT !.job.status = "interrupted"]
    ELSE saved[t]

RestartDaemon ==
    /\ reloads < MaxReload /\ reloads' = reloads + 1
    /\ plan' = [t \in PlanTasks |-> Interrupted(t)]
    /\ saved' = [t \in PlanTasks |-> Interrupted(t)]
    /\ planner' = [j \in Jobs |-> IF planner[j] = "run" THEN "over" ELSE planner[j]]

-----------------------------------------------------------------------------
PlanNext ==
    \/ \E t \in PlanTasks :
         \/ \E j \in NextJobs : GeneratePlan(t, j) \/ AutoPlan(t, j)
         \/ CancelPlan(t) \/ DeleteTask(t)
         \/ \E text \in Edits : EditPlan(t, text)
         \/ \E place \in {"open", "busy"} : MoveTask(t, place)
    \/ \E j \in Jobs : FinishPlan(j)
    \/ RestartDaemon

\* A planner has a deadline.
PlanFairness == \A j \in Jobs : WF_planVars(FinishPlan(j))

PlanSpec == PlanInit /\ [][PlanNext]_planVars /\ PlanFairness

-----------------------------------------------------------------------------
\* What a step may do to plans, and the property that every step does no more:
\* a generated plan enters a task only from the job the user waits for: not from a
\* canceled or replaced one, not while the task is at work or ended, and never over an
\* edit made since that job began (finish_task_plan).
EntersWanted ==
    \A t \in PlanTasks :
        plan'[t].text \in Jobs /\ plan'[t].text # plan[t].text /\ reloads' = reloads =>
            /\ Running(t) /\ plan[t].job.id = plan'[t].text
            /\ Editable(t)
            /\ plan[t].text = plan[t].job.previous

PlanEntersWanted == [][EntersWanted]_planVars

\* Every plan that is started ends, though a restart or an error of the store intervenes
\* (finish_task_plan, RuntimeState::new).
PlanSettles == \A t \in PlanTasks : Running(t) ~> ~Running(t)
=============================================================================
