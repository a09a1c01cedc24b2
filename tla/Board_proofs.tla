---------------------------- MODULE Board_proofs ----------------------------
(***************************************************************************)
(* Proofs about the board, for every number of tasks, agents and projects, *)
(* every workspace layout and every set of operations.                     *)
(***************************************************************************)
EXTENDS BoardProperties, TLAPS

\* What the pure functions on a card make of a card: again a card.  Task::transition.
LEMMA TransitionType ==
    ASSUME NEW tk \in TaskRecords, NEW action
    PROVE  Transition(tk, action) \in TaskRecords
  BY DEF Transition, TaskRecords, States, Conditions

\* A transition leaves the position of the card in the queue alone.
LEMMA TransitionPos ==
    ASSUME NEW tk \in TaskRecords, NEW action
    PROVE  Transition(tk, action).pos = tk.pos
  BY DEF Transition, TaskRecords, States, Conditions

\* A card that leaves the queue is a card without a position.  Task::execution_queue = None.
LEMMA UnqueuedType ==
    ASSUME NEW tk \in TaskRecords
    PROVE  Unqueued(tk) \in TaskRecords /\ Unqueued(tk).pos = 0
  BY DEF Unqueued, TaskRecords, MaybeAgent

\* A card that follows its agent is a card at the same position.  sync_agent_task.
LEMMA SyncedType ==
    ASSUME NEW tk \in TaskRecords, NEW st, NEW live \in BOOLEAN, NEW summary \in BOOLEAN
    PROVE  Synced(tk, st, live, summary) \in TaskRecords /\ Synced(tk, st, live, summary).pos = tk.pos
  <1>1. Transition(tk, "Submit") \in TaskRecords /\ Transition(tk, "Submit").pos = tk.pos
    BY TransitionType, TransitionPos
  <1>2. \A c \in Conditions : [tk EXCEPT !.cond = c] \in TaskRecords /\ [tk EXCEPT !.cond = c].pos = tk.pos
    BY DEF TaskRecords
  <1> QED BY <1>1, <1>2 DEF Synced, Conditions

\* The agent a queued task continues with is an agent or none.
LEMMA QueueAgentType ==
    ASSUME NEW tk \in TaskRecords
    PROVE  QueueAgent(tk) \in MaybeAgent
  BY DEF QueueAgent, Or, TaskRecords

\* A card that is queued is a card at the position it was given.  Enqueue.
LEMMA WaitingType ==
    ASSUME NEW tk \in TaskRecords, NEW pos \in Nat
    PROVE  Waiting(tk, pos) \in TaskRecords /\ Waiting(tk, pos).pos = pos
  BY QueueAgentType DEF Waiting, TaskRecords, States, Conditions, MaybeAgent

\* A blocked card is a card at the same position.  acceptance_block.
LEMMA BlockedType ==
    ASSUME NEW tk \in TaskRecords
    PROVE  BlockedTask(tk) \in TaskRecords /\ BlockedTask(tk).pos = tk.pos
  BY ZenonT(60) DEF BlockedTask, TaskRecords, States, Conditions, MaybeAgent

\* A card after a restart is a card at the same position.  reconcile_tasks.
LEMMA ReconciledType ==
    ASSUME NEW tk \in TaskRecords
    PROVE  Reconciled(tk) \in TaskRecords /\ Reconciled(tk).pos = tk.pos
  BY DEF Reconciled, TaskRecords, States, Conditions

-----------------------------------------------------------------------------
\* Giving up a reservation leaves reservations and orphans well typed.  release_writer.
LEMMA ReleasedType ==
    ASSUME LeaseType, NEW a \in Agents, NEW owners
    PROVE  /\ Released(a, owners).lease \in [Agents -> LeaseStates]
           /\ Released(a, owners).orphan \subseteq Agents
  BY DEF LeaseType, Released, LeaseStates

\* So does dropping a guard.  WriterGuard::drop.
LEMMA DroppedType ==
    ASSUME LeaseType, NEW a \in Agents
    PROVE  /\ Dropped(a).lease \in [Agents -> LeaseStates]
           /\ Dropped(a).orphan \subseteq Agents
  BY ReleasedType DEF LeaseType, Dropped

\* All cards after sync_agent_task.
LEMMA SyncedTasksType ==
    ASSUME TaskType, NEW a, NEW ag, NEW ch, NEW orph, NEW owners, NEW summary \in BOOLEAN,
           task' = SyncedTasks(a, ag, ch, orph, owners, summary)
    PROVE  TaskType'
  <1> DEFINE live == ch[a] # "none" \/ ag[a].st = "Working" \/ a \in orph
             new(t) == Synced(task[t], ag[a].st, live, summary)
  <1>1. \A t \in Tasks : new(t) \in TaskRecords /\ new(t).pos = task[t].pos
    BY SyncedType DEF TaskType
  <1> HIDE DEF new
  <1>2. \A t \in Tasks : task'[t] \in {task[t], new(t)}
    BY DEF SyncedTasks, new
  <1>3. DOMAIN task' = Tasks /\ task' = [t \in Tasks |-> task'[t]]
    BY DEF SyncedTasks
  <1> QED BY <1>1, <1>2, <1>3 DEF TaskType

\* Refusing outdated requests leaves requests.  Task::touch.
LEMMA TouchType ==
    ASSUME ThreadType, NEW ts, Touch(ts)
    PROVE  review' \subseteq Reviews
  BY DEF ThreadType, LoopType, HasLoop, Touch

\* What broadcast(AgentChanged) stores is well typed.
LEMMA BroadcastType ==
    ASSUME TypeOK, NEW a \in Agents,
           NEW ag \in [Agents -> [st : AgentStates, link : Tasks \cup {None}]],
           NEW ch \in [Agents -> ChildStates],
           BroadcastAgent(a, ag, ch)
    PROVE  /\ TaskType' /\ AgentType'
           /\ lease' \in [Agents -> LeaseStates] /\ orphan' \subseteq Agents
           /\ review' \subseteq Reviews
  <1>1. AgentType'
    BY DEF BroadcastAgent, AgentType
  <1>2. lease' \in [Agents -> LeaseStates] /\ orphan' \subseteq Agents
    BY ReleasedType DEF BroadcastAgent, TypeOK, LeaseType
  <1>3. TaskType'
    BY SyncedTasksType DEF BroadcastAgent, TypeOK
  <1>4. review' \subseteq Reviews
    BY TouchType DEF BroadcastAgent, TypeOK
  <1> QED BY <1>1, <1>2, <1>3, <1>4

\* One card of the board is replaced.
LEMMA ReplaceCard ==
    ASSUME TaskType, NEW t \in Tasks, NEW tk \in TaskRecords, tk.pos <= MaxPos,
           task' = [task EXCEPT ![t] = tk]
    PROVE  TaskType'
  BY DEF TaskType

\* A thread that starts to launch or to prompt.
LEMMA NewLaunchType ==
    ASSUME NEW t \in Tasks \cup {None}, NEW a \in Agents, NEW v \in BOOLEAN, NEW s \in LaunchStages
    PROVE  [task |-> t, agent |-> a, vonly |-> v, stage |-> s, reuse |-> FALSE] \in Launches
  BY DEF Launches

\* stop_agent up to its first unlock.
LEMMA StopEffectType ==
    ASSUME TypeOK, NEW a \in Agents, StopEffect(a)
    PROVE  /\ TaskType' /\ AgentType'
           /\ lease' \in [Agents -> LeaseStates] /\ orphan' \subseteq Agents
           /\ review' \subseteq Reviews
  <1> DEFINE ag == [agent EXCEPT ![a].st = IF child[a] # "none" THEN "Stopping" ELSE "Interrupted"]
  <1>1. ag \in [Agents -> [st : AgentStates, link : Tasks \cup {None}]] /\ child \in [Agents -> ChildStates]
    BY DEF TypeOK, AgentType, AgentStates
  <1>2. BroadcastAgent(a, ag, child)
    BY DEF StopEffect
  <1> HIDE DEF ag
  <1> QED BY <1>1, <1>2, BroadcastType

-----------------------------------------------------------------------------
\* Everything but the cards, the conversations' reservations and the threads is left alone.
LEMMA WorldFrame ==
    ASSUME TypeOK, UNCHANGED boardVars /\ Locked
    PROVE  WorldType'
  BY DEF TypeOK, WorldType, boardVars, Locked, world

\* The actions of RuntimeState preserve the types.
LEMMA RuntimeTypes ==
    ASSUME TypeOK
    PROVE  /\ ReapOrphanWriters => TypeOK'
           /\ EditWorkspace => TypeOK'
           /\ \A a \in Agents :
                DirectPrompt(a) \/ TurnCompletes(a) \/ FinishAgent(a) \/ StopAgent(a) \/ StopCancelled(a)
                  \/ DeleteAgent(a) \/ GroupExits(a) => TypeOK'
           /\ \A l \in launch :
                PromptPanics(l) \/ PromptSpawns(l) \/ PromptRegisters(l) \/ PromptFails(l) => TypeOK'
  <1>1. ASSUME ReapOrphanWriters PROVE TypeOK'
    <2>1. PICK a \in Reapable :
            /\ lease' = Released(a, AcceptanceOwners).lease
            /\ orphan' = Released(a, AcceptanceOwners).orphan
            /\ \E summary \in BOOLEAN :
                 task' = SyncedTasks(a, agent, child, Released(a, AcceptanceOwners).orphan,
                                     AcceptanceOwners, summary)
      BY <1>1 DEF ReapOrphanWriters
    <2>2. a \in Agents
      BY DEF Reapable, TypeOK, LeaseType
    <2>3. LeaseType'
      BY <1>1, <2>1, <2>2, ReleasedType DEF ReapOrphanWriters, TypeOK, LeaseType
    <2>4. TaskType'
      BY <2>1, SyncedTasksType DEF TypeOK
    <2>5. ThreadType'
      BY <1>1, TouchType DEF ReapOrphanWriters, TypeOK, ThreadType, LoopType, HasLoop
    <2> QED BY <1>1, <2>3, <2>4, <2>5, WorldFrame DEF ReapOrphanWriters, TypeOK, AgentType
  <1>2. ASSUME EditWorkspace PROVE TypeOK'
    BY <1>2 DEF EditWorkspace, TypeOK, TaskType, AgentType, LeaseType, ThreadType, LoopType, HasLoop, WorldType, boardVars
  <1>3. ASSUME NEW a \in Agents, DirectPrompt(a) PROVE TypeOK'
    <2>1. LeaseType'
      BY <1>3 DEF DirectPrompt, TypeOK, LeaseType, LeaseStates
    <2>2. ThreadType'
      BY <1>3, NewLaunchType DEF DirectPrompt, TypeOK, ThreadType, LoopType, HasLoop, LaunchStages
    <2> QED BY <1>3, <2>1, <2>2, WorldFrame DEF DirectPrompt, TypeOK, TaskType, AgentType
  <1>4. ASSUME NEW a \in Agents, TurnCompletes(a) PROVE TypeOK'
    <2>1. PICK st \in {"Completed", "Failed", "Interrupted"} :
            BroadcastAgent(a, [agent EXCEPT ![a].st = IF HasRecord(a) THEN st ELSE @],
                           [child EXCEPT ![a] = "closing"])
      BY <1>4 DEF TurnCompletes
    <2>2. /\ [agent EXCEPT ![a].st = IF HasRecord(a) THEN st ELSE @]
               \in [Agents -> [st : AgentStates, link : Tasks \cup {None}]]
          /\ [child EXCEPT ![a] = "closing"] \in [Agents -> ChildStates]
      BY DEF TypeOK, AgentType, AgentStates, ChildStates
    <2> QED BY <1>4, <2>1, <2>2, BroadcastType, WorldFrame
            DEF TurnCompletes, TypeOK, LeaseType, ThreadType, LoopType, HasLoop
  <1>5. ASSUME NEW a \in Agents, FinishAgent(a) PROVE TypeOK'
    <2> DEFINE ag == [agent EXCEPT ![a].st = IF @ = "Stopping" THEN "Interrupted"
                                             ELSE IF @ = "Working" THEN "Failed" ELSE @]
               ch == [child EXCEPT ![a] = "none"]
    <2>1. ag \in [Agents -> [st : AgentStates, link : Tasks \cup {None}]] /\ ch \in [Agents -> ChildStates]
      BY DEF TypeOK, AgentType, AgentStates, ChildStates
    <2>2. BroadcastAgent(a, ag, ch)
      BY <1>5 DEF FinishAgent
    <2> HIDE DEF ag, ch
    <2> QED BY <1>5, <2>1, <2>2, BroadcastType, WorldFrame
            DEF FinishAgent, TypeOK, LeaseType, ThreadType, LoopType, HasLoop
  <1>6. ASSUME NEW a \in Agents, StopAgent(a) \/ StopCancelled(a) PROVE TypeOK'
    <2>0. Stops(a)
      BY <1>6 DEF StopAgent, StopCancelled
    <2>1. /\ TaskType' /\ AgentType' /\ lease' \in [Agents -> LeaseStates]
          /\ orphan' \subseteq Agents /\ review' \subseteq Reviews
      BY <2>0, StopEffectType DEF Stops, TypeOK, TaskType, AgentType, LeaseType, ThreadType
    <2>2. LoopType'
      <3>1. control' = CancelledLoops(a)
        BY <2>0 DEF Stops
      <3> QED BY <3>1 DEF CancelledLoops, TypeOK, ThreadType, LoopType, HasLoop, Loops
    <2>3. WorldType'
      BY <1>6, <2>0 DEF StopAgent, StopCancelled, Stops, Locked, world, boardVars, TypeOK, WorldType
    <2> QED BY <2>0, <2>1, <2>2, <2>3 DEF Stops, TypeOK, LeaseType, ThreadType, LoopType, HasLoop
  <1>7. ASSUME NEW a \in Agents, DeleteAgent(a) PROVE TypeOK'
    <2>1. AgentType'
      BY <1>7 DEF DeleteAgent, TypeOK, AgentType, AgentStates
    <2> QED BY <1>7, <2>1, WorldFrame DEF DeleteAgent, TypeOK, TaskType, LeaseType, ThreadType, LoopType, HasLoop
  <1>8. ASSUME NEW a \in Agents, GroupExits(a) PROVE TypeOK'
    BY <1>8 DEF GroupExits, TypeOK, TaskType, AgentType, LeaseType, ThreadType, LoopType, HasLoop, WorldType, boardVars, world
  <1>9. ASSUME NEW l \in launch, PromptPanics(l) PROVE TypeOK'
    BY <1>9 DEF PromptPanics, TypeOK, TaskType, AgentType, LeaseType, ThreadType, LoopType, HasLoop, WorldType, boardVars
  <1>10. \A l \in launch : /\ l.agent \in Agents
                           /\ \A s \in LaunchStages : (launch \ {l}) \cup {[l EXCEPT !.stage = s]} \subseteq Launches
    BY DEF TypeOK, ThreadType, LoopType, HasLoop, Launches
  <1>11. ASSUME NEW l \in launch, PromptSpawns(l) PROVE TypeOK'
    <2>1. LeaseType'
      BY <1>10, <1>11 DEF PromptSpawns, RecordGroup, TypeOK, LeaseType, LeaseStates
    <2>2. ThreadType'
      BY <1>10, <1>11 DEF PromptSpawns, TypeOK, ThreadType, LoopType, HasLoop, LaunchStages
    <2> QED BY <1>11, <2>1, <2>2, WorldFrame DEF PromptSpawns, TypeOK, TaskType, AgentType
  <1>12. ASSUME NEW l \in launch, PromptRegisters(l) PROVE TypeOK'
    <2> DEFINE a == l.agent
               ag == [agent EXCEPT ![a].st = "Working"]
               ch == [child EXCEPT ![a] = "open"]
    <2>1. a \in Agents
      BY <1>10
    <2>2. ag \in [Agents -> [st : AgentStates, link : Tasks \cup {None}]] /\ ch \in [Agents -> ChildStates]
      BY <2>1 DEF TypeOK, AgentType, AgentStates, ChildStates
    <2>3. CASE HasRecord(a)
      <3>1. BroadcastAgent(a, ag, ch)
        BY <1>12, <2>3 DEF PromptRegisters
      <3> HIDE DEF ag, ch
      <3> QED BY <1>12, <2>1, <2>2, <3>1, BroadcastType, WorldFrame
              DEF PromptRegisters, TypeOK, LeaseType, ThreadType, LoopType, HasLoop
    <2>4. CASE ~HasRecord(a)
      BY <1>12, <2>1, <2>4, DroppedType, WorldFrame
         DEF PromptRegisters, TypeOK, TaskType, AgentType, LeaseType, ThreadType, LoopType, HasLoop
    <2> QED BY <2>3, <2>4
  <1>13. ASSUME NEW l \in launch, PromptFails(l) PROVE TypeOK'
    <2>1. LeaseType' /\ ThreadType'
      BY <1>10, <1>13, DroppedType DEF PromptFails, TypeOK, LeaseType, ThreadType, LoopType, HasLoop
    <2>2. AgentType'
      BY <1>10, <1>13 DEF PromptFails, TypeOK, AgentType, AgentStates
    <2> QED BY <1>13, <2>1, <2>2, WorldFrame DEF PromptFails, TypeOK, TaskType
  <1> QED BY <1>1, <1>2, <1>3, <1>4, <1>5, <1>6, <1>7, <1>8, <1>9, <1>11, <1>12, <1>13

-----------------------------------------------------------------------------
\* A request that changes cards only.
LEMMA CardsOnly ==
    ASSUME TypeOK, TaskType', NEW ts, Touch(ts), UNCHANGED boardVars /\ Locked,
           UNCHANGED <<agent, child, lease, group, orphan, control, launch>>
    PROVE  TypeOK'
  BY TouchType, WorldFrame DEF TypeOK, AgentType, LeaseType, ThreadType, LoopType, HasLoop

\* A card that names another conversation is a card.
LEMMA SelectedType ==
    ASSUME NEW tk \in TaskRecords, NEW c \in MaybeAgent
    PROVE  /\ [tk EXCEPT !.assigned = c, !.cont = c] \in TaskRecords
           /\ [tk EXCEPT !.assigned = c, !.cont = c].pos = tk.pos
  BY DEF TaskRecords

\* Every card is replaced by a card.
LEMMA ReplaceCards ==
    ASSUME task' = [u \in Tasks |-> task'[u]],
           \A u \in Tasks : task'[u] \in TaskRecords /\ task'[u].pos <= MaxPos
    PROVE  TaskType'
  BY DEF TaskType

\* The actions of BoardQueue preserve the types.
LEMMA QueueTypes ==
    ASSUME TypeOK
    PROVE  /\ \A t \in Tasks :
                Enqueue(t) \/ RequestChangesQueued(t) \/ PlanChanges(t) \/ ClaimBlocked(t) => TypeOK'
           /\ \A t \in Tasks, choice \in MaybeAgent : SelectAgent(t, choice) => TypeOK'
           /\ \A t \in Tasks, before \in Tasks \cup {None} : ReorderQueue(t, before) => TypeOK'
           /\ \A t \in Tasks, a \in Agents : Claim(t, a) => TypeOK'
           /\ \A p \in Projects : SetPaused(p) => TypeOK'
  <1>1. ASSUME NEW t \in Tasks, Enqueue(t) \/ RequestChangesQueued(t) PROVE TypeOK'
    <2>1. PICK pos \in 1 .. MaxPos : task' = [task EXCEPT ![t] = Waiting(task[t], pos)]
      BY <1>1 DEF Enqueue, RequestChangesQueued, TypeOK, TaskType
    <2>2. TaskType'
      BY <2>1, WaitingType, ReplaceCard, MaxPosAssumption DEF TypeOK, TaskType
    <2> QED BY <1>1, <2>2, CardsOnly DEF Enqueue, RequestChangesQueued
  <1>2. ASSUME NEW t \in Tasks, PlanChanges(t) PROVE TypeOK'
    BY <1>2, TouchType DEF PlanChanges, TypeOK, TaskType, AgentType, LeaseType, ThreadType, LoopType, HasLoop, WorldType,
                           Locked, world
  <1>3. ASSUME NEW t \in Tasks, ClaimBlocked(t) PROVE TypeOK'
    <2>1. [task[t] EXCEPT !.cond = "Blocked"] \in TaskRecords
      BY DEF TypeOK, TaskType, TaskRecords, Conditions
    <2>2. TaskType'
      BY <1>3, <2>1, ReplaceCard DEF ClaimBlocked, TypeOK, TaskType, TaskRecords
    <2> QED BY <1>3, <2>2, CardsOnly DEF ClaimBlocked
  <1>4. ASSUME NEW t \in Tasks, NEW choice \in MaybeAgent, SelectAgent(t, choice) PROVE TypeOK'
    <2>2. \A u \in Tasks : \/ task'[u] = task[u]
                           \/ \E c \in MaybeAgent :
                                task'[u] = [Unqueued(task[u]) EXCEPT !.assigned = c, !.cont = c]
      BY <1>4 DEF SelectAgent, MaybeAgent
    <2>3. task' = [u \in Tasks |-> task'[u]]
      BY <1>4 DEF SelectAgent
    <2>4. ASSUME NEW u \in Tasks PROVE task'[u] \in TaskRecords /\ task'[u].pos <= MaxPos
      <3>1. CASE task'[u] = task[u]
        BY <3>1 DEF TypeOK, TaskType
      <3>2. ASSUME NEW c \in MaybeAgent, task'[u] = [Unqueued(task[u]) EXCEPT !.assigned = c, !.cont = c]
            PROVE  task'[u] \in TaskRecords /\ task'[u].pos <= MaxPos
        <4>1. Unqueued(task[u]) \in TaskRecords /\ Unqueued(task[u]).pos = 0
          BY UnqueuedType DEF TypeOK, TaskType
        <4>2. task'[u] \in TaskRecords /\ task'[u].pos = 0
          BY <3>2, <4>1, SelectedType
        <4> QED BY <4>2, MaxPosAssumption
      <3> QED BY <2>2, <3>1, <3>2
    <2>5. TaskType'
      BY <2>3, <2>4, ReplaceCards
    <2>6. AgentType'
      BY <1>4 DEF SelectAgent, TypeOK, AgentType
    <2> QED BY <1>4, <2>5, <2>6, TouchType, WorldFrame DEF SelectAgent, TypeOK, LeaseType, ThreadType, LoopType, HasLoop
  <1>5. ASSUME NEW t \in Tasks, NEW before \in Tasks \cup {None}, ReorderQueue(t, before) PROVE TypeOK'
    <2>1. \A u \in Tasks, n \in 1 .. MaxPos : /\ [task[u] EXCEPT !.pos = n] \in TaskRecords
                                             /\ [task[u] EXCEPT !.pos = n].pos = n
      BY MaxPosAssumption DEF TypeOK, TaskType, TaskRecords
    <2>2. \A u \in Tasks : \/ task'[u] = task[u]
                           \/ \E n \in 1 .. MaxPos : task'[u] = [task[u] EXCEPT !.pos = n]
      BY <1>5 DEF ReorderQueue
    <2>3. task' = [u \in Tasks |-> task'[u]]
      BY <1>5 DEF ReorderQueue
    <2>4. ASSUME NEW u \in Tasks PROVE task'[u] \in TaskRecords /\ task'[u].pos <= MaxPos
      <3>1. CASE task'[u] = task[u]
        BY <3>1 DEF TypeOK, TaskType
      <3>2. ASSUME NEW n \in 1 .. MaxPos, task'[u] = [task[u] EXCEPT !.pos = n]
            PROVE  task'[u] \in TaskRecords /\ task'[u].pos <= MaxPos
        BY <2>1, <3>2, MaxPosAssumption
      <3> QED BY <2>2, <3>1, <3>2
    <2>5. TaskType'
      BY <2>3, <2>4, ReplaceCards
    <2> QED BY <1>5, <2>5, TouchType, WorldFrame DEF ReorderQueue, TypeOK, AgentType, LeaseType, ThreadType, LoopType, HasLoop
  <1>6. ASSUME NEW t \in Tasks, NEW a \in Agents, Claim(t, a) PROVE TypeOK'
    <2>1. PICK cont \in {a, task[t].cont} :
            task' = [task EXCEPT ![t].qagent = a, ![t].assigned = a, ![t].cont = cont]
      BY <1>6 DEF Claim
    <2>2. cont \in MaybeAgent
      BY DEF TypeOK, TaskType, TaskRecords, MaybeAgent
    <2>3. /\ [task[t] EXCEPT !.qagent = a, !.assigned = a, !.cont = cont] \in TaskRecords
          /\ [task[t] EXCEPT !.qagent = a, !.assigned = a, !.cont = cont].pos = task[t].pos
      BY <2>2 DEF TypeOK, TaskType, TaskRecords, MaybeAgent
    <2>4. TaskType'
      BY <2>1, <2>3, ReplaceCard DEF TypeOK, TaskType
    <2>5. launch' \subseteq Launches
      BY <1>6, NewLaunchType DEF Claim, TypeOK, ThreadType, LoopType, HasLoop, LaunchStages
    <2> QED BY <1>6, <2>4, <2>5, TouchType, WorldFrame DEF Claim, TypeOK, AgentType, LeaseType, ThreadType, LoopType, HasLoop
  <1>7. ASSUME NEW p \in Projects, SetPaused(p) PROVE TypeOK'
    BY <1>7 DEF SetPaused, TypeOK, TaskType, AgentType, LeaseType, ThreadType, LoopType, HasLoop, WorldType, Locked, world
  <1> QED BY <1>1, <1>2, <1>3, <1>4, <1>5, <1>6, <1>7

-----------------------------------------------------------------------------
\* A loop that moves on is a loop.
LEMMA GotoType ==
    ASSUME ThreadType, NEW t \in Tasks, HasLoop(t), NEW pc \in LoopStages, Goto(t, pc)
    PROVE  LoopType'
  BY DEF ThreadType, LoopType, HasLoop, Goto, Loops

\* acceptance_block.
LEMMA BlockTaskType ==
    ASSUME TypeOK, NEW t \in Tasks, NEW pc \in LoopStages, BlockTask(t, pc),
           pc # "none" => HasLoop(t)
    PROVE  TaskType' /\ LoopType' /\ review' \subseteq Reviews
  <1>1. TaskType'
    BY BlockedType, ReplaceCard DEF BlockTask, TypeOK, TaskType
  <1>2. LoopType'
    BY ZenonT(60) DEF BlockTask, TypeOK, ThreadType, LoopType, HasLoop, Loops
  <1> QED BY <1>1, <1>2, TouchType DEF BlockTask, TypeOK

\* A condition is stored on one card.
LEMMA ConditionType ==
    ASSUME TaskType, NEW t \in Tasks, NEW c \in Conditions, task' = [task EXCEPT ![t].cond = c]
    PROVE  TaskType'
  <1>1. [task[t] EXCEPT !.cond = c] \in TaskRecords /\ [task[t] EXCEPT !.cond = c].pos = task[t].pos
    BY DEF TaskType, TaskRecords
  <1> QED BY <1>1, ReplaceCard DEF TaskType

\* The steps of a launching thread preserve the types.
LEMMA LaunchTypes ==
    ASSUME TypeOK, NEW l \in launch, LaunchAcquire(l) \/ LaunchControl(l)
    PROVE  TypeOK'
  <1>1. /\ l.agent \in Agents /\ l.vonly \in BOOLEAN /\ l.task \in Tasks
        /\ \A b \in BOOLEAN : [l EXCEPT !.stage = "acquired", !.reuse = b] \in Launches
    BY DEF TypeOK, ThreadType, LoopType, HasLoop, Launches, LaunchStages, LaunchAcquire, LaunchControl
  <1>2. CASE LaunchAcquire(l)
    <2> DEFINE verdict == Admission(l.agent, ProjectOf[l.task], FALSE)
    <2>1. CASE verdict = "reject"
      <3>1. control[l.task].pc \in LoopStages
        BY <1>1 DEF TypeOK, ThreadType, LoopType, Loops
      <3>2. /\ BlockTask(l.task, control[l.task].pc) /\ launch' = launch \ {l}
            /\ UNCHANGED <<lease, agent, child, group, orphan, boardVars>> /\ Locked
        BY <1>2, <2>1 DEF LaunchAcquire
      <3> QED BY <1>1, <3>1, <3>2, BlockTaskType, WorldFrame
              DEF HasLoop, TypeOK, AgentType, LeaseType, ThreadType, LoopType, HasLoop
    <2>2. CASE verdict # "reject"
      <3> DEFINE b == verdict = "reuse"
      <3>1. /\ launch' = (launch \ {l}) \cup {[l EXCEPT !.stage = "acquired", !.reuse = b]}
            /\ lease' = IF verdict = "grant" THEN [lease EXCEPT ![l.agent] = "reserved"] ELSE lease
            /\ UNCHANGED <<task, control, review, agent, child, group, orphan, boardVars>> /\ Locked
        BY <1>2, <2>2 DEF LaunchAcquire
      <3> HIDE DEF verdict
      <3>2. launch' \subseteq Launches
        BY <1>1, <3>1 DEF TypeOK, ThreadType, LoopType, HasLoop
      <3>3. LeaseType'
        BY <1>1, <3>1 DEF TypeOK, LeaseType, LeaseStates
      <3> QED BY <3>1, <3>2, <3>3, WorldFrame DEF TypeOK, TaskType, AgentType, ThreadType, LoopType, HasLoop
    <2> QED BY <2>1, <2>2
  <1>3. CASE LaunchControl(l)
    <2>1. lease' \in [Agents -> LeaseStates] /\ orphan' \subseteq Agents
      BY <1>1, <1>3, ReleasedType, ZenonT(60) DEF LaunchControl, TypeOK, LeaseType
    <2>2. [NoLoop EXCEPT !.pc = "preflight", !.owner = l.agent, !.vonly = l.vonly, !.ordinal = 1] \in Loops
      BY <1>1 DEF NoLoop, Loops, LoopStages, MaybeAgent
    <2>3. LoopType'
      BY <1>1, <1>3, <2>2, ZenonT(60) DEF LaunchControl, TypeOK, ThreadType, LoopType, HasLoop, NoLoop
    <2> QED BY <1>3, <2>1, <2>3, WorldFrame
            DEF LaunchControl, TypeOK, TaskType, AgentType, LeaseType, ThreadType, LoopType, HasLoop
  <1> QED BY <1>2, <1>3

\* The steps of an acceptance loop, and its cancellation, preserve the types.
LEMMA LoopTypes ==
    ASSUME TypeOK, NEW t \in Tasks, LoopStep(t) \/ CancelLoop(t)
    PROVE  TypeOK'
  <1> DEFINE c == control[t]
  <1>1. HasLoop(t) /\ c \in Loops /\ c.owner \in Agents
    BY DEF LoopStep, Preflight, AdmitWorker, SpawnWorker, LaunchFails, RegisterWorker, StopWorker, WorkerExited,
           StartValidator, ValidatorEnds, Judge, LoopError, BlockLoop, EndLoop, CancelLoop,
           HasLoop, TypeOK, ThreadType, LoopType
  <1>2. CASE Preflight(t)
    <2>1. PICK new \in Agents :
            /\ lease' \in {lease, [lease EXCEPT ![new] = lease[c.owner], ![c.owner] = "none"]}
            /\ task' = [task EXCEPT
                 ![t].assigned = IF c.ordinal > 1 /\ ~task[t].queued THEN new ELSE @,
                 ![t].worker   = IF c.vonly THEN @ ELSE new,
                 ![t].cond     = IF c.vonly THEN "Running" ELSE "Queued"]
            /\ control' = [control EXCEPT ![t] =
                 [c EXCEPT !.owner = new, !.att = TRUE,
                           !.pc = IF c.vonly THEN "validating" ELSE "launch",
                           !.fp = IF c.vonly THEN ws ELSE None]]
      BY <1>2 DEF Preflight
    <2>2. LeaseType'
      BY <1>1, <1>2, <2>1 DEF Preflight, TypeOK, LeaseType, LeaseStates
    <2>3. \A x \in {new, task[t].assigned}, y \in {new, task[t].worker}, z \in {"Running", "Queued"} :
            /\ [task[t] EXCEPT !.assigned = x, !.worker = y, !.cond = z] \in TaskRecords
            /\ [task[t] EXCEPT !.assigned = x, !.worker = y, !.cond = z].pos = task[t].pos
      BY ZenonT(60) DEF TypeOK, TaskType, TaskRecords, MaybeAgent, Conditions
    <2>4. TaskType'
      BY <2>1, <2>3, ReplaceCard DEF TypeOK, TaskType
    <2>5. LoopType'
      BY <1>1, <2>1 DEF TypeOK, ThreadType, LoopType, HasLoop, WorldType, Loops, LoopStages, MaybeAgent
    <2> QED BY <1>2, <2>2, <2>4, <2>5, TouchType, WorldFrame DEF Preflight, TypeOK, AgentType, ThreadType, LoopType, HasLoop
  <1>3. CASE AdmitWorker(t)
    <2>1. LoopType'
      BY <1>1, <1>3 DEF AdmitWorker, TypeOK, ThreadType, LoopType, HasLoop, Loops, LoopStages
    <2>2. LeaseType'
      BY <1>1, <1>3 DEF AdmitWorker, TypeOK, LeaseType, LeaseStates
    <2> QED BY <1>3, <2>1, <2>2, WorldFrame DEF AdmitWorker, TypeOK, TaskType, AgentType, ThreadType, LoopType, HasLoop
  <1>4. CASE SpawnWorker(t) \/ StartValidator(t)
    <2>1. LeaseType'
      BY <1>1, <1>4 DEF SpawnWorker, StartValidator, RecordGroup, TypeOK, LeaseType, LeaseStates
    <2>2. LoopType'
      BY <1>1, <1>4, GotoType DEF SpawnWorker, StartValidator, TypeOK, LoopStages
    <2> QED BY <1>4, <2>1, <2>2, WorldFrame
            DEF SpawnWorker, StartValidator, TypeOK, TaskType, AgentType, ThreadType
  <1>5. CASE LaunchFails(t)
    <2>1. LeaseType'
      BY <1>1, <1>5, DroppedType DEF LaunchFails, TypeOK, LeaseType
    <2>2. LoopType'
      BY <1>1, <1>5, GotoType DEF LaunchFails, TypeOK, LoopStages
    <2>3. AgentType'
      BY <1>1, <1>5 DEF LaunchFails, TypeOK, AgentType, AgentStates
    <2> QED BY <1>5, <2>1, <2>2, <2>3, WorldFrame DEF LaunchFails, TypeOK, TaskType, ThreadType
  <1>6. CASE RegisterWorker(t)
    <2>1. AgentType'
      BY <1>1, <1>6 DEF RegisterWorker, TypeOK, AgentType, AgentStates, ChildStates
    <2>2. TaskType' /\ review' \subseteq Reviews
      BY <1>6, ConditionType, TouchType DEF RegisterWorker, TypeOK, TaskType, ThreadType, Conditions
    <2>3. LoopType'
      BY <1>1, <1>6, GotoType DEF RegisterWorker, TypeOK, LoopStages
    <2> QED BY <1>6, <2>1, <2>2, <2>3, WorldFrame DEF RegisterWorker, TypeOK, LeaseType, ThreadType
  <1>7. CASE StopWorker(t)
    <2>1. /\ TaskType' /\ AgentType' /\ lease' \in [Agents -> LeaseStates]
          /\ orphan' \subseteq Agents /\ review' \subseteq Reviews
      BY <1>1, <1>7, StopEffectType DEF StopWorker, TypeOK, TaskType, AgentType, LeaseType, ThreadType
    <2>2. LoopType'
      BY <1>1, <1>7 DEF StopWorker, TypeOK, ThreadType, LoopType, HasLoop, Loops, LoopStages
    <2> QED BY <1>7, <2>1, <2>2, WorldFrame DEF StopWorker, TypeOK, LeaseType, ThreadType
  <1>8. CASE WorkerExited(t)
    <2>1. LeaseType'
      BY <1>1, <1>8 DEF WorkerExited, TypeOK, LeaseType, LeaseStates
    <2>2. TaskType' /\ review' \subseteq Reviews
      BY <1>8, ConditionType, TouchType DEF WorkerExited, TypeOK, TaskType, ThreadType, Conditions
    <2>3. LoopType'
      BY <1>1, <1>8 DEF WorkerExited, Goto, TypeOK, ThreadType, LoopType, HasLoop, Loops, LoopStages, WorldType
    <2> QED BY <1>8, <2>1, <2>2, <2>3, WorldFrame DEF WorkerExited, TypeOK, AgentType, ThreadType
  <1>9. CASE ValidatorEnds(t)
    <2>1. LoopType' /\ group' \subseteq Agents
      BY <1>1, <1>9, GotoType DEF ValidatorEnds, TypeOK, LeaseType, LoopStages
    <2> QED BY <1>9, <2>1, WorldFrame DEF ValidatorEnds, TypeOK, TaskType, AgentType, LeaseType, ThreadType
  <1>10. CASE Judge(t)
    <2>1. LeaseType'
      BY <1>1, <1>10 DEF Judge, TypeOK, LeaseType, LeaseStates
    <2>2. review' \subseteq Reviews
      BY <1>10, TouchType DEF Judge, TypeOK
    <2>3. LoopType'
      BY <1>1, <1>10 DEF Judge, TypeOK, ThreadType, LoopType, HasLoop, Loops, LoopStages
    <2>4. \A x \in {task[t].worker, task[t].assigned} :
            /\ [task[t] EXCEPT !.sub = ws, !.state = "InReview", !.cond = "Idle", !.assigned = x] \in TaskRecords
            /\ [task[t] EXCEPT !.sub = ws, !.state = "InReview", !.cond = "Idle", !.assigned = x].pos = task[t].pos
      BY ZenonT(60) DEF TypeOK, TaskType, WorldType, TaskRecords, States, Conditions
    <2>5. CASE task' = task
      BY <1>10, <2>1, <2>2, <2>3, <2>5, WorldFrame DEF Judge, TypeOK, TaskType, AgentType, ThreadType
    <2>6. CASE task' # task
      <3>1. PICK x \in {task[t].worker, task[t].assigned} :
              task' = [task EXCEPT ![t] = [task[t] EXCEPT !.sub = ws, !.state = "InReview", !.cond = "Idle",
                                                         !.assigned = x]]
        BY <1>10, <2>6 DEF Judge, TypeOK, TaskType
      <3>2. TaskType'
        BY <2>4, <3>1, ReplaceCard DEF TypeOK, TaskType
      <3> QED BY <1>10, <2>1, <2>2, <2>3, <3>2, WorldFrame DEF Judge, TypeOK, AgentType, ThreadType
    <2> QED BY <2>5, <2>6
  <1>11. CASE LoopError(t)
    <2>1. LoopType'
      BY <1>1, <1>11, GotoType DEF LoopError, TypeOK, LoopStages
    <2> QED BY <1>11, <2>1, WorldFrame DEF LoopError, TypeOK, TaskType, AgentType, LeaseType, ThreadType
  <1>12. CASE BlockLoop(t)
    BY <1>1, <1>12, BlockTaskType, WorldFrame
       DEF BlockLoop, TypeOK, AgentType, LeaseType, ThreadType, LoopStages
  <1>13. CASE EndLoop(t)
    <2>1. LoopType'
      BY <1>13 DEF EndLoop, NoLoop, TypeOK, ThreadType, LoopType, HasLoop, Loops, LoopStages, MaybeAgent
    <2>2. LeaseType'
      BY <1>1, <1>13, ReleasedType DEF EndLoop, TypeOK, LeaseType
    <2> QED BY <1>13, <2>1, <2>2, WorldFrame DEF EndLoop, TypeOK, TaskType, AgentType, ThreadType
  <1>14. CASE CancelLoop(t)
    <2>1. LoopType'
      BY <1>1, <1>14 DEF CancelLoop, TypeOK, ThreadType, LoopType, HasLoop, Loops
    <2>2. WorldType'
      BY <1>1, <1>14 DEF CancelLoop, Locked, world, TypeOK, WorldType
    <2> QED BY <1>14, <2>1, <2>2, TouchType DEF CancelLoop, TypeOK, TaskType, AgentType, LeaseType, ThreadType
  <1> QED BY <1>2, <1>3, <1>4, <1>5, <1>6, <1>7, <1>8, <1>9, <1>10, <1>11, <1>12, <1>13, <1>14 DEF LoopStep

-----------------------------------------------------------------------------
\* The review requests preserve the types.
LEMMA ReviewTypes ==
    ASSUME TypeOK
    PROVE  /\ \A t \in Tasks, op \in ReviewOps : BeginReview(t, op) => TypeOK'
           /\ \A r \in review : ReviewStep(r) => TypeOK'
  <1>1. ASSUME NEW t \in Tasks, NEW op \in ReviewOps, BeginReview(t, op) PROVE TypeOK'
    <2>1. review' \subseteq Reviews
      BY <1>1 DEF BeginReview, TypeOK, ThreadType, Reviews
    <2> QED BY <1>1, <2>1, WorldFrame
            DEF BeginReview, TypeOK, TaskType, AgentType, LeaseType, ThreadType, LoopType, HasLoop
  <1>2. ASSUME NEW r \in review PROVE r.task \in Tasks
    BY DEF TypeOK, ThreadType, Reviews
  <1>3. ASSUME NEW r \in review, CommitAccept(r) \/ CommitRelease(r) PROVE TypeOK'
    <2>1. CASE task' = task
      BY <1>2, <1>3, <2>1, TouchType, WorldFrame
         DEF CommitAccept, CommitRelease, TypeOK, TaskType, AgentType, LeaseType, ThreadType, LoopType, HasLoop
    <2>2. CASE task' # task
      <3>1. task' = [task EXCEPT ![r.task] = Transition(task[r.task], "Accept")] /\ Touch({r.task})
        BY <1>2, <1>3, <2>2 DEF CommitAccept, CommitRelease, TypeOK, TaskType
      <3>2. TaskType'
        BY <1>2, <3>1, TransitionType, TransitionPos, ReplaceCard DEF TypeOK, TaskType
      <3> QED BY <1>3, <3>1, <3>2, CardsOnly DEF CommitAccept, CommitRelease
    <2> QED BY <2>1, <2>2
  <1>4. ASSUME NEW r \in review, NEW a \in Agents, CommitLaunch(r, a) PROVE TypeOK'
    <2> DEFINE old == task[r.task]
    <2>1. old \in TaskRecords /\ Transition(old, "RequestChanges") \in TaskRecords
          /\ Transition(old, "RequestChanges").pos = old.pos
      BY <1>2, TransitionType, TransitionPos DEF TypeOK, TaskType
    <2>2. PICK tk \in {[old EXCEPT !.assigned = a, !.cond = "Queued"],
                      [Transition(old, "RequestChanges") EXCEPT !.assigned = a, !.cond = "Queued", !.sub = None]} :
            task' = [task EXCEPT ![r.task] = tk]
      BY <1>4, <1>2 DEF CommitLaunch, TypeOK, TaskType
    <2>3. ASSUME NEW x \in TaskRecords
          PROVE  /\ [x EXCEPT !.assigned = a, !.cond = "Queued"] \in TaskRecords
                 /\ [x EXCEPT !.assigned = a, !.cond = "Queued"].pos = x.pos
                 /\ [x EXCEPT !.assigned = a, !.cond = "Queued", !.sub = None] \in TaskRecords
                 /\ [x EXCEPT !.assigned = a, !.cond = "Queued", !.sub = None].pos = x.pos
      BY DEF TaskRecords, Conditions, MaybeAgent
    <2>4. tk \in TaskRecords /\ tk.pos = old.pos
      BY <2>1, <2>2, <2>3
    <2> HIDE DEF old
    <2>5. TaskType'
      BY <1>2, <2>2, <2>4, ReplaceCard DEF TypeOK, TaskType, old
    <2>6. launch' \subseteq Launches
      <3> DEFINE v == r.op = "Revalidate"
      <3>1. launch' = launch \cup {[task |-> r.task, agent |-> a, vonly |-> v, stage |-> "claimed", reuse |-> FALSE]}
        BY <1>4 DEF CommitLaunch
      <3>2. v \in BOOLEAN
        OBVIOUS
      <3> HIDE DEF v
      <3>3. [task |-> r.task, agent |-> a, vonly |-> v, stage |-> "claimed", reuse |-> FALSE] \in Launches
        BY <1>2, <3>2 DEF Launches, LaunchStages
      <3> QED BY <3>1, <3>3 DEF TypeOK, ThreadType
    <2> QED BY <1>4, <2>5, <2>6, TouchType, WorldFrame
            DEF CommitLaunch, TypeOK, AgentType, LeaseType, ThreadType, LoopType, HasLoop
  <1> QED BY <1>1, <1>3, <1>4 DEF ReviewStep

\* The requests on cards, and a restart, preserve the types.
LEMMA CardTypes ==
    ASSUME TypeOK
    PROVE  /\ \A t \in Tasks, action \in CardActions : CardTransition(t, action) => TypeOK'
           /\ \A t \in Tasks, a \in Agents : Start(t, a) => TypeOK'
           /\ CrashRestart => TypeOK'
  <1>1. ASSUME NEW t \in Tasks, NEW action \in CardActions, CardTransition(t, action) PROVE TypeOK'
    <2> DEFINE next == Transition(task[t], action)
    <2>1. /\ next \in TaskRecords /\ next.pos = task[t].pos
          /\ Unqueued(next) \in TaskRecords /\ Unqueued(next).pos = 0
      BY TransitionType, TransitionPos, UnqueuedType DEF TypeOK, TaskType
    <2>2. ASSUME NEW x \in TaskRecords, NEW s \in MaybeAgent
          PROVE  /\ [x EXCEPT !.cont = s, !.assigned = s, !.cond = "Idle"] \in TaskRecords
                 /\ [x EXCEPT !.cont = s, !.assigned = s, !.cond = "Idle"].pos = x.pos
                 /\ [x EXCEPT !.cond = "Idle"] \in TaskRecords
                 /\ [x EXCEPT !.cond = "Idle"].pos = x.pos
      BY DEF TaskRecords, Conditions
    <2> DEFINE last == Or(task[t].qagent, Or(task[t].cont, task[t].assigned))
               kept == IF last # None /\ HasRecord(last) THEN last ELSE None
    <2>3. kept \in MaybeAgent
      BY DEF TypeOK, TaskType, TaskRecords, MaybeAgent, Or
    <2>6. \/ task' = [task EXCEPT ![t] = [Unqueued(next) EXCEPT !.cont = kept, !.assigned = kept, !.cond = "Idle"]]
          \/ task' = [task EXCEPT ![t] = [Unqueued(next) EXCEPT !.cond = "Idle"]]
          \/ task' = [task EXCEPT ![t] = next]
      <3>1. CASE task[t].queued /\ Column(next) = "Todo"
        BY <1>1, <3>1 DEF CardTransition
      <3>2. CASE ~(task[t].queued /\ Column(next) = "Todo") /\ WaitingInQueue(task[t]) /\ Column(next) # "InProgress"
        BY <1>1, <3>2 DEF CardTransition
      <3>3. CASE /\ ~(task[t].queued /\ Column(next) = "Todo")
                 /\ ~(WaitingInQueue(task[t]) /\ Column(next) # "InProgress")
        BY <1>1, <3>3 DEF CardTransition
      <3> QED BY <3>1, <3>2, <3>3
    <2>4. PICK tk \in TaskRecords : tk.pos \in {0, task[t].pos} /\ task' = [task EXCEPT ![t] = tk]
      <3> HIDE DEF next, kept
      <3> QED BY <2>1, <2>2, <2>3, <2>6
    <2>5. TaskType'
      BY <2>4, ReplaceCard, MaxPosAssumption DEF TypeOK, TaskType
    <2> QED BY <1>1, <2>5, CardsOnly DEF CardTransition
  <1>2. ASSUME NEW t \in Tasks, NEW a \in Agents, Start(t, a) PROVE TypeOK'
    <2> DEFINE next == Transition(task[t], "Start")
    <2>1. next \in TaskRecords /\ next.pos = task[t].pos
      BY TransitionType, TransitionPos DEF TypeOK, TaskType
    <2>2. task' = [task EXCEPT ![t] = [next EXCEPT !.assigned = a, !.cond = "Queued"]]
      BY <1>2 DEF Start, TypeOK, TaskType
    <2> HIDE DEF next
    <2>3. /\ [next EXCEPT !.assigned = a, !.cond = "Queued"] \in TaskRecords
          /\ [next EXCEPT !.assigned = a, !.cond = "Queued"].pos = next.pos
      BY <2>1 DEF TaskRecords, Conditions, MaybeAgent
    <2>4. TaskType'
      BY <2>1, <2>2, <2>3, ReplaceCard DEF TypeOK, TaskType
    <2>5. launch' \subseteq Launches
      BY <1>2, NewLaunchType DEF Start, TypeOK, ThreadType, LaunchStages
    <2> QED BY <1>2, <2>4, <2>5, TouchType, WorldFrame
            DEF Start, TypeOK, AgentType, LeaseType, ThreadType, LoopType, HasLoop
  <1>3. ASSUME CrashRestart PROVE TypeOK'
    <2>1. TaskType'
      BY <1>3, ReconciledType DEF CrashRestart, TypeOK, TaskType
    <2>2. AgentType'
      BY <1>3 DEF CrashRestart, TypeOK, AgentType, AgentStates, ChildStates
    <2>3. LeaseType'
      BY <1>3 DEF CrashRestart, TypeOK, LeaseType, LeaseStates
    <2>4. ThreadType'
      BY <1>3 DEF CrashRestart, TypeOK, ThreadType, LoopType, HasLoop, NoLoop, Loops, LoopStages, MaybeAgent
    <2>5. WorldType'
      BY <1>3 DEF CrashRestart, TypeOK, WorldType, boardVars
    <2> QED BY <2>1, <2>2, <2>3, <2>4, <2>5 DEF TypeOK
  <1> QED BY <1>1, <1>2, <1>3

\* The board starts well typed.
LEMMA InitType == Init => TypeOK
  <1> SUFFICES ASSUME Init PROVE TypeOK
    OBVIOUS
  <1>1. NewTask \in TaskRecords /\ NewTask.pos = 0
    BY DEF NewTask, TaskRecords, States, Conditions, MaybeAgent
  <1>2. TaskType
    BY <1>1, MaxPosAssumption DEF Init, TaskType
  <1>3. AgentType /\ LeaseType
    BY DEF Init, AgentType, LeaseType, AgentStates, ChildStates, LeaseStates
  <1>4. ThreadType
    BY DEF Init, ThreadType, LoopType, HasLoop, NoLoop, Loops, LoopStages, MaybeAgent
  <1>5. WorldType
    BY DEF Init, WorldType
  <1> QED BY <1>2, <1>3, <1>4, <1>5 DEF TypeOK

\* A step that changes no variable preserves the types.
LEMMA StutterType == TypeOK /\ UNCHANGED vars => TypeOK'
  BY DEF TypeOK, TaskType, AgentType, LeaseType, ThreadType, LoopType, HasLoop, WorldType, vars, boardVars, world

\* Every step of the daemon, its users and the operating system preserves the types.
LEMMA NextType == TypeOK /\ Next => TypeOK'
  <1> SUFFICES ASSUME TypeOK, Next PROVE TypeOK'
    OBVIOUS
  <1>1. CASE UserStep
    BY <1>1, RuntimeTypes, QueueTypes, LoopTypes, ReviewTypes, CardTypes DEF UserStep
  <1>2. CASE QueueStep
    BY <1>2, RuntimeTypes, QueueTypes DEF QueueStep
  <1>3. ASSUME NEW l \in launch, LaunchStep(l) PROVE TypeOK'
    BY <1>3, RuntimeTypes, LaunchTypes DEF LaunchStep
  <1>4. ASSUME NEW t \in Tasks, LoopStep(t) PROVE TypeOK'
    BY <1>4, LoopTypes
  <1>5. ASSUME NEW r \in review, ReviewStep(r) PROVE TypeOK'
    BY <1>5, ReviewTypes
  <1>6. ASSUME NEW a \in Agents, TurnCompletes(a) \/ FinishAgent(a) \/ GroupExits(a) PROVE TypeOK'
    BY <1>6, RuntimeTypes
  <1>7. CASE EditWorkspace \/ CrashRestart
    BY <1>7, RuntimeTypes, CardTypes
  <1> QED BY <1>1, <1>2, <1>3, <1>4, <1>5, <1>6, <1>7 DEF Next

\* Whatever the users, the threads of the daemon, the operating system and restarts
\* do, the records of the board stay well formed: in particular every acceptance loop
\* has an owner, queue positions stay in their range and no thread refers to a task
\* or agent that does not exist.
THEOREM TypeCorrect == Spec => []TypeOK
  <1>1. TypeOK /\ [Next]_vars => TypeOK'
    BY NextType, StutterType
  <1> QED BY <1>1, InitType, PTL DEF Spec

=============================================================================
