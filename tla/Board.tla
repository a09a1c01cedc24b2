-------------------------------- MODULE Board --------------------------------
(***************************************************************************)
(* The task board of one daemon: runtime, queue and acceptance loops       *)
(* composed with the card requests of crates/ditchd/src/task_runtime.rs    *)
(* and with a crash and restart of the daemon.                             *)
(***************************************************************************)
EXTENDS AcceptanceLoop

\* prepare_task_request for a Transition or a Move between columns.  A task that
\* returns to Todo leaves the queue and keeps its last real conversation.
CardTransition(t, action) ==
    LET tk       == task[t]
        next     == Transition(tk, action)
        last     == Or(tk.qagent, Or(tk.cont, tk.assigned))
        selected == IF last # None /\ HasRecord(last) THEN last ELSE None
    IN  /\ action \in Ops
        /\ NothingToReap
        /\ ~TaskLive(t)
        /\ MayTransition(tk, action)
        /\ task' = [task EXCEPT ![t] =
             IF tk.queued /\ Column(next) = "Todo"
             THEN [Unqueued(next) EXCEPT !.cont = selected, !.assigned = selected, !.cond = "Idle"]
             ELSE IF WaitingInQueue(tk) /\ Column(next) # "InProgress"
             THEN [Unqueued(next) EXCEPT !.cond = "Idle"]
             ELSE next]
        /\ Touch({t})
        /\ UNCHANGED <<agent, child, lease, group, orphan, control, launch, boardVars>> /\ Locked

\* Start: a task outside the queue is launched with an agent of its own.
Start(t, a) ==
    /\ "start" \in Ops
    /\ NothingToReap
    /\ ~TaskLive(t)
    /\ ~task[t].queued /\ task[t].cont = None
    /\ MayTransition(task[t], "Start")
    /\ Fresh(a)
    /\ task' = [task EXCEPT ![t] =
         [Transition(@, "Start") EXCEPT !.assigned = a, !.cond = "Queued"]]
    /\ launch' = launch \cup {[task |-> t, agent |-> a, vonly |-> FALSE,
                               stage |-> "claimed", reuse |-> FALSE]}
    /\ Touch({t})
    /\ UNCHANGED <<agent, child, lease, group, orphan, control, boardVars>> /\ Locked

\* Mutant: interrupted executions stay as they are.
ReconciledInPlace(tk) == tk

\* Mutant: interrupted executions are queued again.
ReconciledRequeued(tk) ==
    IF tk.cond \in ActiveConditions THEN [tk EXCEPT !.cond = "Queued", !.assigned = None] ELSE tk

\* reconcile_tasks: interrupted executions become blocked, waiting ones survive.
Reconciled(tk) ==
    IF WaitingInQueue(tk) \/ tk.cond \notin ActiveConditions THEN tk
    ELSE [tk EXCEPT !.cond = "Blocked", !.state = "Running", !.sub = None]

\* The daemon dies and RuntimeState::new runs: what was not persisted is gone,
\* and a reservation survives exactly when its process group does.
CrashRestart ==
    LET surviving == {a \in group : lease[a] \in {"worker", "validator"}} IN
    /\ "crash" \in Ops
    /\ task' = [t \in Tasks |-> Reconciled(task[t])]
    /\ agent' = [a \in Agents |-> IF AgentActive(a) THEN [agent[a] EXCEPT !.st = "Interrupted"]
                                                    ELSE agent[a]]
    /\ child' = [a \in Agents |-> "none"]
    /\ lease' = [a \in Agents |-> IF a \in surviving THEN lease[a] ELSE "none"]
    /\ orphan' = surviving
    /\ control' = [t \in Tasks |-> NoLoop]
    /\ launch' = {}
    /\ review' = {}
    /\ stops' = {}
    /\ poisoned' = FALSE
    /\ UNCHANGED <<group, paused, planned, ws>>

-----------------------------------------------------------------------------
Init ==
    /\ task = [t \in Tasks |-> NewTask]
    /\ agent = [a \in Agents |-> [st |-> "none", link |-> None]]
    /\ child = [a \in Agents |-> "none"]
    /\ lease = [a \in Agents |-> "none"]
    /\ group = {} /\ orphan = {}
    /\ control = [t \in Tasks |-> NoLoop]
    /\ launch = {} /\ review = {}
    /\ paused = [p \in Projects |-> FALSE]
    /\ planned = Tasks
    /\ stops = {}
    /\ ws \in Fingerprints
    /\ poisoned = FALSE

\* Steps of the thread that launches task l.task or prompts l.agent.
LaunchStep(l) == \/ LaunchAcquire(l) \/ LaunchControl(l)
                 \/ PromptPanics(l) \/ PromptSpawns(l)
                 \/ PromptRegisters(l) \/ PromptFails(l)

\* Steps of the acceptance thread of t.
LoopStep(t) == \/ Preflight(t) \/ AdmitWorker(t) \/ SpawnWorker(t) \/ LaunchFails(t)
               \/ RegisterWorker(t) \/ StopWorker(t) \/ WorkerExited(t) \/ StartValidator(t)
               \/ ValidatorEnds(t) \/ Judge(t) \/ LoopError(t) \/ BlockLoop(t) \/ EndLoop(t)

ReviewStep(r) == \/ CommitAccept(r) \/ CommitRelease(r)
                 \/ \E a \in Agents : CommitLaunch(r, a)

\* Requests of the user.
UserStep ==
    \/ \E t \in Tasks :
         \/ Enqueue(t) \/ RequestChangesQueued(t) \/ CancelLoop(t) \/ PlanChanges(t)
         \/ \E choice \in MaybeAgent : SelectAgent(t, choice)
         \/ \E before \in Tasks \cup {None} : ReorderQueue(t, before)
         \/ \E op \in ReviewOps : BeginReview(t, op)
         \/ \E action \in CardActions : CardTransition(t, action)
         \/ \E a \in Agents : Start(t, a)
    \/ \E p \in Projects : SetPaused(p)
    \/ \E a \in Agents : DirectPrompt(a) \/ StopAgent(a) \/ StopCancelled(a) \/ DeleteAgent(a)

\* One project's turn of the queue's timer.
QueueStep == \/ ReapOrphanWriters
             \/ \E t \in Tasks : ClaimBlocked(t) \/ \E a \in Agents : Claim(t, a)

Next ==
    \/ UserStep
    \/ QueueStep
    \/ \E l \in launch : LaunchStep(l)
    \/ \E t \in Tasks : LoopStep(t)
    \/ \E r \in review : ReviewStep(r)
    \/ \E a \in Agents : TurnCompletes(a) \/ FinishAgent(a) \/ GroupExits(a)
    \/ EditWorkspace
    \/ CrashRestart

Spec == Init /\ [][Next]_vars

-----------------------------------------------------------------------------
\* What the threads of the daemon guarantee: each one that can run does.  Loops and
\* launches have deadlines, so none of their waits is unbounded; the queue's timer
\* reaps and claims every second; a completed turn closes its server.
DaemonFairness ==
    /\ WF_vars(ReapOrphanWriters)
    /\ \A t \in Tasks :
         /\ WF_vars(LoopStep(t))
         /\ WF_vars(ClaimBlocked(t) \/ \E a \in Agents : Claim(t, a))
         /\ WF_vars(\E r \in review : r.task = t /\ ReviewStep(r))
    /\ \A a \in Agents :
         /\ WF_vars(\E l \in launch : l.agent = a /\ LaunchStep(l))
         /\ WF_vars(child[a] = "closing" /\ FinishAgent(a))
         /\ WF_vars(a \notin group /\ FinishAgent(a))

\* What the operating system is assumed to do: a group that is being stopped dies of
\* SIGKILL, and one without a supervisor ends by itself.
GroupFairness ==
    \A a \in Agents : WF_vars((a \in orphan \/ agent[a].st = "Stopping") /\ GroupExits(a))

FairSpec == Spec /\ DaemonFairness /\ GroupFairness

-----------------------------------------------------------------------------
\* Cards are task records and queue positions stay within their bound.
TaskType ==
    /\ task \in [Tasks -> TaskRecords]
    /\ \A t \in Tasks : task[t].pos <= MaxPos

\* Conversations and their children.
AgentType ==
    /\ agent \in [Agents -> [st : AgentStates, link : Tasks \cup {None}]]
    /\ child \in [Agents -> ChildStates]

\* Reservations and process groups.
LeaseType ==
    /\ lease \in [Agents -> LeaseStates]
    /\ group \subseteq Agents /\ orphan \subseteq Agents

\* Acceptance loops, each of which has an owner.
LoopType ==
    /\ control \in [Tasks -> Loops]
    /\ \A t \in Tasks : HasLoop(t) => control[t].owner \in Agents

\* Threads between two critical sections.
ThreadType ==
    /\ LoopType
    /\ launch \subseteq Launches
    /\ review \subseteq Reviews

\* Settings, plans, files and the mutex.
WorldType ==
    /\ paused \in [Projects -> BOOLEAN]
    /\ planned \subseteq Tasks
    /\ stops \subseteq Agents
    /\ ws \in Fingerprints
    /\ poisoned \in BOOLEAN

\* The type invariant.
TypeOK == TaskType /\ AgentType /\ LeaseType /\ ThreadType /\ WorldType

=============================================================================
