---------------------------- MODULE RuntimeState ----------------------------
(***************************************************************************)
(* The state one daemon keeps behind its mutex for the boards of its       *)
(* projects, and the part of it that owns agent processes: writer          *)
(* reservations, children, orphaned process groups and the task that       *)
(* follows its linked agent (crates/ditchd/src/task_runtime.rs and         *)
(* runtime_shared.rs).                                                     *)
(*                                                                         *)
(* One action is one critical section of the daemon's mutex.  A handler    *)
(* that unlocks between two sections is as many actions, and its progress  *)
(* is a record in "launch", "review" or "control".                         *)
(*                                                                         *)
(* Handlers that begin with reap_orphan_writers are enabled only when      *)
(* nothing is left to reap (NothingToReap): ReapOrphanWriters is the first *)
(* half of the handler, and the queue's timer also takes it alone.         *)
(*                                                                         *)
(* A request carries the revision it read and is refused when the task was *)
(* touched since.  A request in "review" whose task is touched can only be *)
(* refused, so Touch removes it: no revision counter is needed.            *)
(***************************************************************************)
EXTENDS TaskWorkflow, FiniteSets

CONSTANTS
    Tasks,
    Projects,
    ProjectOf,   \* [Tasks -> Projects]
    RootOf,      \* [Projects -> workspace]: board_workspace's canonical root
    Ops          \* the user operations and faults this instance exercises

ASSUME BoardAssumption ==
    /\ None \notin Tasks
    /\ ProjectOf \in [Tasks -> Projects]
    /\ DOMAIN RootOf = Projects

VARIABLES
    task,     \* [Tasks -> TaskRecords], persisted before it is published
    agent,    \* [Agents -> record]: st is "none" without a record; link is run.task_id
    child,    \* [Agents -> ChildStates]: children; "closing" once the turn completed
    lease,    \* [Agents -> LeaseStates]: durable writer reservation and its lease
    group,    \* process groups that exist in the operating system
    orphan,   \* orphan_writer_groups
    control,  \* [Tasks -> Loops]: acceptance_controls and the thread of that loop
    launch,   \* launching threads that hold no control yet
    review,   \* review requests between their checks and their commit
    paused,   \* [Projects -> BOOLEAN]: BoardExecutionState.paused
    planned,  \* tasks with a saved plan and no planning job running
    stops,    \* agents that a CancelLoop under way is about to stop
    ws,       \* fingerprint of the working files
    poisoned  \* a thread has panicked while it held the mutex

\* What only a request of its own changes; the world of the daemon; everything.
boardVars == <<paused, planned, stops>>
world == <<ws, poisoned>>
vars == <<task, agent, child, lease, group, orphan, control, launch, review, boardVars, world>>

\* One critical section of the mutex that returns normally: a lock that a panic has
\* poisoned is never acquired again.
Locked == ~poisoned /\ UNCHANGED world

AgentStates == {"none", "Working", "Stopping", "Completed", "Failed", "Interrupted"}
ChildStates == {"none", "open", "closing"}
\* "reserved" has no process group; the others name the group they persist.
LeaseStates == {"none", "reserved", "worker", "validator"}

LoopStages == {"none", "preflight", "launch", "launching", "spawned", "working",
               "validating", "checking", "checked", "failed", "ending"}

Loops == [pc      : LoopStages,
          owner   : MaybeAgent,
          vonly   : BOOLEAN,                     \* validation_only
          cancel  : BOOLEAN,
          ordinal : Nat,
          att     : BOOLEAN,                     \* the current attempt has no result yet
          reuse   : BOOLEAN,                     \* the guard of the launch is retained
          fp      : Fingerprints \cup {None}]    \* evidence captured after the work

NoLoop == [pc |-> "none", owner |-> None, vonly |-> FALSE, cancel |-> FALSE,
           ordinal |-> 0, att |-> FALSE, reuse |-> FALSE, fp |-> None]

LaunchStages == {"claimed", "acquired", "spawned"}
\* task = None is a direct prompt to a conversation.
Launches == [task  : Tasks \cup {None}, agent : Agents, vonly : BOOLEAN,
             stage : LaunchStages, reuse : BOOLEAN]

ReviewOps == {"Accept", "AcceptRelease", "Revalidate", "RequestChanges"}
Reviews   == [task : Tasks, op : ReviewOps]

-----------------------------------------------------------------------------
HasLoop(t)    == control[t].pc # "none"
OwnersIn(ctl) == {ctl[t].owner : t \in Tasks} \ {None}
\* acceptance_owners is filled and emptied together with acceptance_controls.
AcceptanceOwners == OwnersIn(control)

HasRecord(a)   == agent[a].st # "none"
AgentActive(a) == agent[a].st \in {"Working", "Stopping"}   \* can_stop or a live state

\* Mutant: only a conversation that ended well counts as idle.
AgentIdleOnSuccess(a) ==
    /\ child[a] = "none" /\ lease[a] = "none" /\ a \notin AcceptanceOwners
    /\ agent[a].st = "Completed"

AgentIdle(a) ==   \* board_agent_idle
    /\ child[a] = "none"
    /\ lease[a] = "none"
    /\ a \notin AcceptanceOwners
    /\ HasRecord(a) /\ ~AgentActive(a)

TaskOwnsAgent(t, a) ==   \* board_task_owns_agent
    /\ task[t].queued
    /\ \/ task[t].assigned = a
       \/ task[t].qagent = a
       \/ HasRecord(a) /\ agent[a].link = t
       \/ control[t].owner = a

AgentOwned(a) == \E t \in Tasks : TaskOwnsAgent(t, a)   \* board_agent_owned

\* Mutant: projects are compared instead of the directories they share.
SameProject(p, q) == p = q

SameWorkspace(p, q) == RootOf[p] = RootOf[q]   \* board_workspace

\* Mutant: a task that is not executing any more leaves nothing behind.
ExecutionBusyByCondition(p, except) ==
    \E t \in Tasks : /\ task[t].queued /\ SameWorkspace(ProjectOf[t], p)
                     /\ Column(task[t]) = "InProgress" /\ task[t].cond \in ActiveConditions
                     /\ task[t].assigned \notin {None, except}

\* board_execution_busy: some board task of this workspace, other than through
\* the agent "except", is executing or still owns a process.
ExecutionBusy(p, except) ==
    \E t \in Tasks :
        /\ task[t].queued
        /\ SameWorkspace(ProjectOf[t], p)
        /\ \/ /\ Column(task[t]) = "InProgress" /\ ~task[t].archived
              /\ task[t].assigned \notin {None, except}
              /\ task[t].cond \in ActiveConditions
           \/ HasLoop(t) /\ control[t].owner # except
           \/ \E a \in Agents \ {except} :
                /\ TaskOwnsAgent(t, a)
                /\ \/ a \in AcceptanceOwners
                   \/ lease[a] # "none"
                   \/ child[a] # "none"
                   \/ AgentActive(a)

\* Mutant: a launch that has no process yet is not noticed.
TaskLiveByProcess(t) ==
    /\ task[t].assigned # None
    /\ child[task[t].assigned] # "none" \/ lease[task[t].assigned] # "none"

TaskLive(t) ==   \* task_live
    LET tk == task[t] IN
    /\ ~WaitingInQueue(tk)
    /\ \/ HasLoop(t)
       \/ /\ tk.assigned # None
          /\ HasRecord(tk.assigned) => agent[tk.assigned].link = t
          /\ child[tk.assigned] # "none" \/ lease[tk.assigned] # "none"
       \/ tk.cond \in ActiveConditions

-----------------------------------------------------------------------------
\* Task::touch: requests that read an older revision will be refused.
Touch(ts) == review' = {r \in review : r.task \notin ts}

\* Mutant: the reservation goes although its process group is alive.
ReleasedEarly(a, owners) ==
    [lease |-> IF a \in owners THEN lease ELSE [lease EXCEPT ![a] = "none"], orphan |-> orphan \ {a}]

\* release_writer: an owner keeps its lease; a surviving group keeps the
\* reservation and becomes an orphan; otherwise the reservation goes.
Released(a, owners) ==
    IF a \in owners
    THEN [lease |-> lease, orphan |-> orphan]
    ELSE IF lease[a] \in {"worker", "validator"} /\ a \in group
         THEN [lease |-> lease, orphan |-> orphan \cup {a}]
         ELSE [lease |-> [lease EXCEPT ![a] = "none"], orphan |-> orphan \ {a}]

\* Mutant: the outcome of the turn counts before its process has exited.
SyncedEagerly(tk, st, live, summary) ==
    IF Column(tk) = "InProgress" /\ st = "Completed" /\ summary /\ MayTransition(tk, "Submit")
    THEN Transition(tk, "Submit") ELSE tk

\* sync_agent_task for one task: what the state st of its agent makes of it.
\* "live" is a child, can_stop or an orphaned group; "summary" tells whether
\* the conversation ends with an assistant message.
Synced(tk, st, live, summary) ==
    LET completed == ~live /\ st = "Completed"
    IN  IF \/ tk.archived
           \/ Column(tk) # "InProgress"
           \/ completed /\ tk.cond \notin ActiveConditions
        THEN tk
        ELSE IF completed /\ summary
        THEN IF MayTransition(tk, "Submit") THEN Transition(tk, "Submit") ELSE tk
        ELSE [tk EXCEPT !.cond = IF completed THEN "Blocked"
                                 ELSE IF live THEN "Running"
                                 ELSE IF st \in {"Failed", "Interrupted"} THEN "Failed"
                                 ELSE "Idle"]

\* The tasks after sync_agent_task(a), for the new agents ag, children ch and orphans orph.
SyncedTasks(a, ag, ch, orph, owners, summary) ==
    [t \in Tasks |->
        IF /\ a \notin owners
           /\ ag[a].st # "none" /\ ag[a].link = t
           /\ task[t].assigned = a
        THEN Synced(task[t], ag[a].st,
                    ch[a] # "none" \/ ag[a].st = "Working" \/ a \in orph, summary)
        ELSE task[t]]

\* broadcast(AgentChanged): a stopped agent gives up its reservation, then its
\* task follows.  ag and ch are the agents and children just stored.
BroadcastAgent(a, ag, ch) ==
    LET stopped == ch[a] = "none" /\ ag[a].st \notin {"Working", "Stopping"}
        rel     == IF stopped THEN Released(a, AcceptanceOwners)
                              ELSE [lease |-> lease, orphan |-> orphan]
    IN  /\ agent' = ag
        /\ child' = ch
        /\ lease' = rel.lease
        /\ orphan' = rel.orphan
        /\ \E summary \in BOOLEAN :
             task' = SyncedTasks(a, ag, ch, rel.orphan, AcceptanceOwners, summary)
        /\ Touch({t \in Tasks : task'[t] # task[t]})

-----------------------------------------------------------------------------
\* Mutant: a group whose conversation still exists is forgotten.
ReapableWithoutRecord == {a \in orphan \ group : ~HasRecord(a)}

\* The orphaned groups that have exited.
Reapable == orphan \ (group \cup AcceptanceOwners)

\* Precondition of every handler that reaps before it decides.
NothingToReap == Reapable = {}

\* reap_orphan_writers for one group that has exited.
ReapOrphanWriters ==
    \E a \in Reapable :
      LET rel == Released(a, AcceptanceOwners) IN
      /\ lease' = rel.lease
      /\ orphan' = rel.orphan
      /\ \E summary \in BOOLEAN :
           task' = SyncedTasks(a, agent, child, rel.orphan, AcceptanceOwners, summary)
      /\ Touch({t \in Tasks : task'[t] # task[t]})
      /\ UNCHANGED <<agent, child, group, control, launch, boardVars>> /\ Locked

-----------------------------------------------------------------------------
\* WriterGuard::acquire_with_intent.  The result is "reuse" (the retained lease
\* of an acceptance owner), "grant" or "reject".
Admission(a, p, direct) ==
    LET pending == {t \in Tasks : task[t].assigned = a /\ task[t].cond = "Queued"}
        linked  == IF pending # {} THEN pending
                   ELSE IF HasRecord(a) /\ agent[a].link # None THEN {agent[a].link} ELSE {}
        promised == \E t \in Tasks :       \* to a launch of the board
            /\ task[t].cond = "Queued"
            /\ \/ task[t].assigned = a
               \/ task[t].queued /\ a \in {task[t].qagent, task[t].cont}
        misfit(t) ==                      \* the task is not the one to launch a for
            \/ ProjectOf[t] # p
            \/ /\ ~direct
               /\ \/ Column(task[t]) # "InProgress"
                  \/ task[t].archived
                  \/ task[t].assigned # a
    IN  IF \/ direct /\ (a \in AcceptanceOwners \/ promised)
           \/ AgentOwned(a) /\ ExecutionBusy(p, a)
        THEN "reject"
        ELSE IF a \in AcceptanceOwners /\ lease[a] # "none" /\ child[a] = "none"
        THEN "reuse"
        ELSE IF \/ child[a] # "none" \/ agent[a].st = "Working" \/ lease[a] # "none"
                \/ \E t \in linked : misfit(t)
        THEN "reject"
        ELSE "grant"

\* WriterGuard::started: the group is persisted, if the reservation is still there.
RecordGroup(a, kind) ==
    lease' = [lease EXCEPT ![a] = IF @ = "none" THEN "none" ELSE kind]

\* Drop of a guard that was not retained.
Dropped(a) ==
    IF a \in group THEN [lease |-> lease, orphan |-> orphan \cup {a}]
                   ELSE Released(a, AcceptanceOwners)

-----------------------------------------------------------------------------
\* prompt_app_server_agent: admission of a turn typed into a conversation.
\* Only conversations that some task refers to are tracked; any other agent
\* is part of EditWorkspace.
DirectPrompt(a) ==
    /\ "prompt" \in Ops
    /\ NothingToReap
    /\ HasRecord(a) /\ child[a] = "none"
    /\ ~\E l \in launch : l.agent = a /\ l.task = None    \* remote_launching
    /\ agent[a].link # None
    /\ Admission(a, ProjectOf[agent[a].link], TRUE) = "grant"
    /\ lease' = [lease EXCEPT ![a] = "reserved"]
    /\ launch' = launch \cup {[task |-> None, agent |-> a, vonly |-> FALSE,
                               stage |-> "acquired", reuse |-> FALSE]}
    /\ UNCHANGED <<task, agent, child, group, orphan, control, review, boardVars>> /\ Locked

\* The skills of a conversation that was deleted meanwhile are read by indexing
\* the map of agents: the thread panics and the mutex is poisoned.
PromptPanics(l) ==
    /\ l.task = None /\ l.stage = "acquired"
    /\ ~HasRecord(l.agent)
    /\ ~poisoned /\ poisoned' = TRUE
    /\ UNCHANGED <<task, agent, child, lease, group, orphan, control, launch, review, boardVars, ws>>

\* spawn_turn: the group is recorded before the launch gate opens.
PromptSpawns(l) ==
    /\ l.task = None /\ l.stage = "acquired"
    /\ HasRecord(l.agent)
    /\ group' = group \cup {l.agent}
    /\ RecordGroup(l.agent, "worker")
    /\ launch' = (launch \ {l}) \cup {[l EXCEPT !.stage = "spawned"]}
    /\ UNCHANGED <<task, agent, child, orphan, control, review, boardVars>> /\ Locked

\* The turn is registered; its agent may have been deleted meanwhile.
PromptRegisters(l) ==
    /\ l.task = None /\ l.stage = "spawned"
    /\ launch' = launch \ {l}
    /\ IF HasRecord(l.agent)
       THEN BroadcastAgent(l.agent, [agent EXCEPT ![l.agent].st = "Working"],
                           [child EXCEPT ![l.agent] = "open"])
       ELSE /\ lease' = Dropped(l.agent).lease
            /\ orphan' = Dropped(l.agent).orphan
            /\ UNCHANGED <<task, agent, child, review>>
    /\ UNCHANGED <<group, control, boardVars>> /\ Locked

\* The binary, a skill or the handshake fails: the guard is dropped, and a
\* failed spawn marks the conversation as failed without an event.
PromptFails(l) ==
    /\ l.task = None
    /\ launch' = launch \ {l}
    /\ lease' = Dropped(l.agent).lease
    /\ orphan' = Dropped(l.agent).orphan
    /\ \/ UNCHANGED agent
       \/ /\ HasRecord(l.agent) /\ agent[l.agent].st # "Stopping"
          /\ agent' = [agent EXCEPT ![l.agent].st = "Failed"]
    /\ UNCHANGED <<task, child, group, control, review, boardVars>> /\ Locked

-----------------------------------------------------------------------------
\* Event::TurnCompleted: the outcome is visible before the process has exited.
TurnCompletes(a) ==
    /\ child[a] = "open"
    /\ \E st \in {"Completed", "Failed", "Interrupted"} :
         BroadcastAgent(a, [agent EXCEPT ![a].st = IF HasRecord(a) THEN st ELSE @],
                        [child EXCEPT ![a] = "closing"])
    /\ UNCHANGED <<group, control, launch, boardVars>> /\ Locked

\* finish_agent (and finalize_stopped_run): the watcher saw the leader exit.
FinishAgent(a) ==
    /\ child[a] # "none"
    /\ BroadcastAgent(a,
         [agent EXCEPT ![a].st =
             IF @ = "Stopping" THEN "Interrupted"
             ELSE IF @ = "Working" THEN "Failed" ELSE @],
         [child EXCEPT ![a] = "none"])
    /\ UNCHANGED <<group, control, launch, boardVars>> /\ Locked

\* stop_agent up to its first unlock: a loop owned by the agent is cancelled.
StopEffect(a) ==
    BroadcastAgent(a,
        [agent EXCEPT ![a].st = IF child[a] # "none" THEN "Stopping" ELSE "Interrupted"], child)

\* Mutant: a cancelled loop loses its owner at once, not when its thread ends.
DisownedLoops(a) ==
    [t \in Tasks |-> IF control[t].owner = a THEN [control[t] EXCEPT !.cancel = TRUE, !.owner = None]
                                             ELSE control[t]]

CancelledLoops(a) ==
    [t \in Tasks |-> IF control[t].owner = a THEN [control[t] EXCEPT !.cancel = TRUE]
                                             ELSE control[t]]

\* stop_agent, whoever calls it.  Without a record only the loop is told.  The code does
\* not ask whether a thread that has no control yet is launching the agent; only
\* instances with "stop_launch" let a stop come at that moment.
Stops(a) ==
    /\ child[a] = "none" /\ (\E l \in launch : l.agent = a) => "stop_launch" \in Ops
    /\ IF HasRecord(a) THEN StopEffect(a)
                       ELSE UNCHANGED <<task, agent, child, lease, orphan, review>>
    /\ control' = CancelledLoops(a)
    /\ UNCHANGED <<group, launch>> /\ Locked

\* Stop, whether the agent executes or not.
StopAgent(a) == "stop" \in Ops /\ Stops(a) /\ UNCHANGED boardVars

\* The second half of CancelLoop, in a critical section of its own: the owner that the
\* first half read is stopped, whatever it does by now.
StopCancelled(a) ==
    /\ a \in stops
    /\ stops' = stops \ {a}
    /\ Stops(a)
    /\ UNCHANGED <<paused, planned>>

\* delete_agent: refused while the agent works or has a child.
DeleteAgent(a) ==
    /\ "delete" \in Ops
    /\ HasRecord(a) /\ ~AgentActive(a) /\ child[a] = "none"
    /\ agent' = [agent EXCEPT ![a] = [st |-> "none", link |-> None]]
    /\ UNCHANGED <<task, child, lease, group, orphan, control, launch, review, boardVars>> /\ Locked

\* The operating system: a process group is gone.
GroupExits(a) ==
    /\ a \in group
    /\ group' = group \ {a}
    /\ UNCHANGED <<task, agent, child, lease, orphan, control, launch, review, boardVars, world>>

\* Agents, manual agents included, and the user change the working files.
EditWorkspace ==
    /\ "edit" \in Ops
    /\ ws' \in Fingerprints \ {ws}
    /\ UNCHANGED <<task, agent, child, lease, group, orphan, control, launch, review, boardVars, poisoned>>

=============================================================================
