----------------------------- MODULE BoardQueue -----------------------------
(***************************************************************************)
(* The durable, project-local execution queue of the board                 *)
(* (crates/ditchd/src/task_queue_runtime.rs): agent selection, admission   *)
(* to the queue, reordering, pausing, and the claim by which the queue's   *)
(* thread consumes a launch authorization.                                 *)
(***************************************************************************)
EXTENDS RuntimeState, FiniteSetsExt

CONSTANTS MaxPos      \* bound on queue positions (a u64 in the code)

ASSUME MaxPosAssumption == MaxPos \in Nat

\* AgentId::new(): an identity nothing refers to.
Fresh(a) ==
    /\ agent[a].st = "none" /\ child[a] = "none" /\ lease[a] = "none"
    /\ a \notin group \cup orphan \cup AcceptanceOwners
    /\ \A t \in Tasks : a \notin {task[t].assigned, task[t].qagent, task[t].cont, task[t].worker}
    /\ a \notin stops /\ \A l \in launch : l.agent # a

\* Mutant: the task keeps its entry in the queue.
UnqueuedInPlace(tk) == [tk EXCEPT !.qagent = None]

\* Task::execution_queue = None.
Unqueued(tk) == [tk EXCEPT !.queued = FALSE, !.qagent = None, !.pos = 0]

\* Mutant: only waiting tasks count.
NextWaitingPosition(p) ==
    1 + Max({0} \cup {task[t].pos : t \in {u \in Tasks : ProjectOf[u] = p /\ WaitingInQueue(task[u])}})

\* The tail of a project's queue, whatever column its tasks are in.
NextPosition(p) ==
    1 + Max({0} \cup {task[t].pos : t \in {u \in Tasks : ProjectOf[u] = p /\ task[u].queued}})

-----------------------------------------------------------------------------
\* Mutant: the task that had selected the agent keeps it.
DetachedNever(t, choice) == {}

\* The other task that an agent is taken from when it is chosen for t.
Detached(t, choice) ==
    {u \in Tasks \ {t} : choice # None /\ agent[choice].link = u}

\* SelectAgent for a Todo task.  Choosing an agent takes it from the Todo task it
\* was linked to; the agent chosen before, or the removed one, loses its link.
SelectAgent(t, choice) ==
    LET previous == Or(task[t].cont, task[t].assigned)
        detached == Detached(t, choice)
    IN  /\ "select" \in Ops
        /\ ~task[t].archived /\ ~TaskLive(t)
        /\ Column(task[t]) = "Todo"
        /\ previous # None /\ HasRecord(previous) => AgentIdle(previous)
        /\ choice # None => AgentIdle(choice)
        /\ \A u \in detached :
             Column(task[u]) = "Todo" /\ ~task[u].archived /\ ~TaskLive(u)
        /\ task' = [u \in Tasks |->
             IF u = t THEN [Unqueued(task[u]) EXCEPT !.assigned = choice, !.cont = choice]
             ELSE IF u \in detached
             THEN [Unqueued(task[u]) EXCEPT !.assigned = None, !.cont = None]
             ELSE task[u]]
        /\ agent' = [a \in Agents |->
             IF a = choice THEN [agent[a] EXCEPT !.link = t]
             ELSE IF a = previous /\ agent[a].link = t THEN [agent[a] EXCEPT !.link = None]
             ELSE agent[a]]
        /\ Touch({t} \cup detached)
        /\ UNCHANGED <<child, lease, group, orphan, control, launch, boardVars>> /\ Locked

\* The agent a queued task will continue with.
QueueAgent(tk) ==
    IF Column(tk) = "Todo" THEN Or(tk.cont, tk.assigned)
                           ELSE Or(tk.qagent, Or(tk.cont, tk.assigned))

\* A task that waits at position pos for its launch.
Waiting(tk, pos) ==
    [tk EXCEPT !.queued = TRUE, !.qagent = QueueAgent(tk), !.pos = pos,
               !.state = "Running", !.cond = "Queued", !.assigned = None, !.sub = None]

\* Enqueue: a Todo task enters the queue, or an idle one of In Progress retries.
Enqueue(t) ==
    LET pos == NextPosition(ProjectOf[t]) IN
    /\ ~task[t].archived /\ ~TaskLive(t)
    /\ Column(task[t]) \in {"Todo", "InProgress"}
    /\ ~WaitingInQueue(task[t])
    /\ pos \in 1 .. MaxPos
    /\ task' = [task EXCEPT ![t] = Waiting(@, pos)]
    /\ Touch({t})
    /\ UNCHANGED <<agent, child, lease, group, orphan, control, launch, boardVars>> /\ Locked

\* RequestChanges of a queued task goes back to the tail of the queue.
RequestChangesQueued(t) ==
    LET pos == NextPosition(ProjectOf[t]) IN
    /\ "RequestChanges" \in Ops
    /\ task[t].queued /\ ~task[t].archived /\ ~TaskLive(t)
    /\ MayTransition(task[t], "RequestChanges")
    /\ pos \in 1 .. MaxPos
    /\ task' = [task EXCEPT ![t] = Waiting(@, pos)]
    /\ Touch({t})
    /\ UNCHANGED <<agent, child, lease, group, orphan, control, launch, boardVars>> /\ Locked

\* ReorderQueue: t moves before another waiting task, or to the end; the waiting
\* tasks are renumbered after the highest position that is not waiting.
ReorderQueue(t, before) ==
    LET p       == ProjectOf[t]
        pending == {u \in Tasks \ {t} : ProjectOf[u] = p /\ WaitingInQueue(task[u])}
        base    == Max({0} \cup {task[u].pos : u \in {v \in Tasks : /\ ProjectOf[v] = p
                                                                   /\ task[v].queued
                                                                   /\ ~WaitingInQueue(task[v])}})
        ahead(u) == before = None \/ task[u].pos < task[before].pos
        rank(u)  == IF u = t
                    THEN 1 + Cardinality({v \in pending : ahead(v)})
                    ELSE 1 + Cardinality({v \in pending : task[v].pos < task[u].pos})
                           + IF ahead(u) THEN 0 ELSE 1
    IN  /\ "reorder" \in Ops
        /\ ~task[t].archived /\ WaitingInQueue(task[t])
        /\ before \in pending \cup {None}
        /\ \A u \in pending \cup {t} : base + rank(u) \in 1 .. MaxPos
        /\ task' = [u \in Tasks |-> IF u \in pending \cup {t}
                                    THEN [task[u] EXCEPT !.pos = base + rank(u)] ELSE task[u]]
        /\ Touch({t} \cup {u \in pending : task'[u] # task[u]})
        /\ UNCHANGED <<agent, child, lease, group, orphan, control, launch, boardVars>> /\ Locked

\* BoardExecution pauses or resumes the dispatch of one project.
SetPaused(p) ==
    /\ "pause" \in Ops
    /\ paused' = [paused EXCEPT ![p] = ~@]
    /\ UNCHANGED <<task, agent, child, lease, group, orphan, control, launch, review, planned, stops>> /\ Locked

\* A plan is saved, cleared or generated (task_planning_runtime.rs).
PlanChanges(t) ==
    /\ "plan" \in Ops
    /\ planned' = IF t \in planned THEN planned \ {t} ELSE planned \cup {t}
    /\ Touch({t})
    /\ UNCHANGED <<task, agent, child, lease, group, orphan, control, launch, paused, stops>> /\ Locked

-----------------------------------------------------------------------------
\* claim_board_task picks the waiting task of lowest position and no other.
HeadOfQueue(p) ==
    {t \in Tasks : /\ ProjectOf[t] = p /\ WaitingInQueue(task[t])
                   /\ \A u \in Tasks : ProjectOf[u] = p /\ WaitingInQueue(task[u])
                                       => task[t].pos <= task[u].pos}

\* The claim waits: the selected agent or the board is busy, or the plan missing.
Claimable(t) ==
    LET selected == Or(task[t].qagent, task[t].cont) IN
    /\ ~paused[ProjectOf[t]]
    /\ selected # None /\ HasRecord(selected) => AgentIdle(selected)
    /\ ~ExecutionBusy(ProjectOf[t], None)
    /\ t \in planned

\* The authorization is consumed: the owner is stored before any process exists
\* and a thread is started for the launch.
Claim(t, owner) ==
    LET chosen == Or(task[t].qagent, task[t].cont)
        resume == HasRecord(owner) \/ task[t].cont = owner   \* board_agent_thread is asked
    IN  /\ NothingToReap
        /\ t \in HeadOfQueue(ProjectOf[t]) /\ Claimable(t)
        /\ IF chosen = None THEN Fresh(owner) ELSE owner = chosen
        /\ resume => HasRecord(owner) /\ agent[owner].link \in {None, t}
        /\ \E cont \in {owner, task[t].cont} :
             /\ cont = owner => resume
             /\ resume /\ task[t].cont # None => cont = owner
             /\ task' = [task EXCEPT ![t].qagent = owner, ![t].assigned = owner, ![t].cont = cont]
        /\ launch' = launch \cup {[task |-> t, agent |-> owner, vonly |-> FALSE,
                                   stage |-> "claimed", reuse |-> FALSE]}
        /\ Touch({t})
        /\ UNCHANGED <<agent, child, lease, group, orphan, control, boardVars>> /\ Locked

\* The selected conversation cannot be resumed: it is gone, linked to another
\* task, or (unresumable) without a thread of the current account.
ClaimBlocked(t) ==
    LET owner == Or(task[t].qagent, task[t].cont) IN
    /\ NothingToReap
    /\ t \in HeadOfQueue(ProjectOf[t]) /\ Claimable(t)
    /\ owner # None
    /\ \/ ~HasRecord(owner) /\ task[t].cont = owner
       \/ HasRecord(owner) /\ agent[owner].link \notin {None, t}
       \/ HasRecord(owner) /\ "unresumable" \in Ops
    /\ task' = [task EXCEPT ![t].cond = "Blocked"]
    /\ Touch({t})
    /\ UNCHANGED <<agent, child, lease, group, orphan, control, launch, boardVars>> /\ Locked

=============================================================================
