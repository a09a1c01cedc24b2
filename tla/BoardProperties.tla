--------------------------- MODULE BoardProperties ---------------------------
(***************************************************************************)
(* What makes the task board correct.  In the code a stop that reaches an  *)
(* agent between its admission and its spawn (operation "stop_launch") can *)
(* break all of it that speaks about executions: the reservation of the    *)
(* launch is released and its task marked failed while the launch goes on. *)
(* The run stop_during_launch shows it; the other runs and the theorems    *)
(* that need QuietOps leave that operation out and no other stop.          *)
(***************************************************************************)
EXTENDS Board

SameRoot(t, u) == RootOf[ProjectOf[t]] = RootOf[ProjectOf[u]]

\* A queued task occupies its workspace while its loop runs or a process is left of the
\* agent it was launched with.  A conversation of the task that the user resumed before
\* the task was queued may run beside the queue.
Occupies(t) == task[t].queued /\ (HasLoop(t) \/ task[t].assigned \in group)

\* Queued tasks of one workspace are serialized, the cleanup after a loop included, also
\* when two projects share the workspace (board_execution_busy).
SerialExecution ==
    \A t, u \in Tasks : t # u /\ SameRoot(t, u) => ~(Occupies(t) /\ Occupies(u))

\* A process group of an agent exists only under a durable reservation that names
\* it, so the same agent is never launched beside it, not even after a restart
\* (WriterGuard, release_writer, orphan_writer_groups).
ReservationCoversGroup ==
    \A a \in group \cup orphan : lease[a] \in {"worker", "validator"}

\* A task that is shown as executing has somebody who will settle it: its loop, the
\* thread launching it, or the child, prompt or surviving group of its own agent
\* (acceptance_block, sync_agent_task, reconcile_tasks).
ActiveTaskHasActor ==
    \A t \in Tasks :
        LET a == task[t].assigned IN
        task[t].cond \in ActiveConditions /\ ~WaitingInQueue(task[t]) =>
          \/ HasLoop(t)
          \/ \E l \in launch : l.task = t
          \/ /\ a # None /\ HasRecord(a) /\ agent[a].link = t
             /\ child[a] # "none" \/ a \in orphan \/ \E l \in launch : l.agent = a

\* No conversation is selected by two queued tasks (SelectAgent, Claim).
LockExclusive ==
    \A t, u \in Tasks : t # u /\ task[t].queued /\ task[u].queued /\ task[t].qagent # None
        => task[t].qagent # task[u].qagent

\* Only tasks that left Todo are in the queue (Enqueue, prepare_task_request).
QueuedColumns == \A t \in Tasks : task[t].queued => Column(task[t]) \notin {"Backlog", "Todo"}

\* The order of a project's queue is total (ReorderQueue, Enqueue).
DistinctPositions ==
    \A t, u \in Tasks : t # u /\ ProjectOf[t] = ProjectOf[u] /\ task[t].queued /\ task[u].queued
        => task[t].pos # task[u].pos

\* An accepted task carries the evidence it was validated with (acceptance_request).
AcceptedHasEvidence ==
    \A t \in Tasks : task[t].state = "Accepted" => task[t].sub # None

\* A request to accept is in flight only for a reviewed task with evidence.
ReviewBacked ==
    \A r \in review : r.op \in {"Accept", "AcceptRelease"} =>
        task[r.task].state = "InReview" /\ task[r.task].sub # None

-----------------------------------------------------------------------------
\* A task enters review only once the processes of its agent are gone
\* (sync_agent_task, acceptance_cycle).
ReviewOnlyAfterExit ==
    [][\A t \in Tasks :
         Column(task[t]) = "InProgress" /\ Column(task'[t]) = "InReview" =>
           LET a == task[t].assigned
           IN  a # None /\ child'[a] = "none" /\ a \notin group']_vars

\* A card leaves Todo for In Progress only on request: to be launched, or moved by
\* hand with nothing executing.  No failing launch pulls it out of Todo
\* (acceptance_block, prepare_task_request).
TodoLeavesByRequest ==
    [][\A t \in Tasks :
         Column(task[t]) = "Todo" /\ Column(task'[t]) = "InProgress" => task'[t].cond \in {"Idle", "Queued"}]_vars

\* A task that is executing is not accepted (release_request's second check).
AcceptsIdle ==
    [][\A t \in Tasks : task[t].state # "Accepted" /\ task'[t].state = "Accepted" => ~TaskLive(t)]_vars

\* A cancelled loop does not submit its task to review (CancelLoop).
CancelledNotSubmitted ==
    [][\A t \in Tasks : control[t].cancel =>
         ~(Column(task[t]) = "InProgress" /\ Column(task'[t]) = "InReview")]_vars

\* No thread panics while it holds the mutex of the runtime.
LockHealthy == ~poisoned

-----------------------------------------------------------------------------
\* The phase of a task in the abstract queue.
Phase(t) ==
    IF ~task[t].queued THEN "idle"
    ELSE IF HasLoop(t) THEN IF control[t].vonly THEN "validating" ELSE "executing"
    ELSE IF WaitingInQueue(task[t]) THEN "waiting"
    ELSE IF \E l \in launch : l.task = t /\ ~l.vonly THEN "authorized"
    ELSE "idle"

Slot == INSTANCE SerialSlot WITH
            Root  <- [t \in Tasks |-> RootOf[ProjectOf[t]]],
            phase <- [t \in Tasks |-> Phase(t)]

\* The board implements one slot per workspace with single-use authorizations
\* (claim_board_task, begin_acceptance, reconcile_tasks).
SlotSpec == Slot!Spec

-----------------------------------------------------------------------------
\* No acceptance loop lasts for ever (its deadline covers each of its waits).
LoopsEnd == \A t \in Tasks : []<>~HasLoop(t)

\* No task waits for ever: it is launched, blocked or taken back (start_board_queue).
WaitingAdvances == \A t \in Tasks : []<>~WaitingInQueue(task[t])

\* No surviving process group keeps its agent for ever: it is cleaned up and the agent
\* can be used again (reap_orphan_writers).
OrphansReaped == \A a \in Agents : []<>(a \notin orphan)

=============================================================================
