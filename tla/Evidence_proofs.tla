--------------------------- MODULE Evidence_proofs ---------------------------
(***************************************************************************)
(* Every accepted task carries evidence, and only tasks that left Todo are *)
(* in the queue.  Neither fact is inductive by itself: a request to accept *)
(* is checked in one critical section and committed in a later one, so the *)
(* invariant also says what stays true of a task while such a request is   *)
(* in flight.  It does because every step that changes a card touches it   *)
(* (Task::touch), and a touched card refuses the request.                  *)
(***************************************************************************)
EXTENDS Board_proofs

\* A card is accepted only with evidence and queued only outside Backlog and Todo.
Sound(tk) == /\ tk.state = "Accepted" => tk.sub # None
             /\ tk.queued => tk.state \notin {"Backlog", "Ready"}

\* The inductive invariant.
EvidenceInv == TypeOK /\ (\A t \in Tasks : Sound(task[t])) /\ ReviewBacked

\* A request to accept that is in flight was so before the step, and the step left
\* its card alone.
Carried == \A r \in review' : r.op \in {"Accept", "AcceptRelease"} =>
               r \in review /\ task'[r.task] = task[r.task]

\* What a step has to show.
LEMMA Preserved ==
    ASSUME EvidenceInv, TypeOK', Carried, \A t \in Tasks : Sound(task'[t])
    PROVE  EvidenceInv'
  BY DEF EvidenceInv, Carried, ReviewBacked, Sound

\* Requests survive only on cards that are not touched.
LEMMA TouchCarries ==
    ASSUME TypeOK, NEW ts, Touch(ts), \A u \in Tasks \ ts : task'[u] = task[u]
    PROVE  Carried
  BY DEF Touch, Carried, TypeOK, ThreadType, Reviews

\* A step that changes no card and adds no request.
LEMMA NoCard ==
    ASSUME EvidenceInv, TypeOK', task' = task, review' \subseteq review
    PROVE  EvidenceInv'
  <1>1. Carried
    BY DEF Carried
  <1> QED BY <1>1, Preserved DEF EvidenceInv

\* A step that changes one card and touches it.
LEMMA OneCard ==
    ASSUME EvidenceInv, TypeOK', NEW t \in Tasks, Touch({t}), Sound(task'[t]),
           \A u \in Tasks \ {t} : task'[u] = task[u]
    PROVE  EvidenceInv'
  <1>1. Carried
    BY TouchCarries DEF EvidenceInv
  <1>2. \A u \in Tasks : Sound(task'[u])
    BY DEF EvidenceInv
  <1> QED BY <1>1, <1>2, Preserved

\* A card that follows its agent: its condition changes, or it enters review.
LEMMA SyncedSound ==
    ASSUME NEW tk \in TaskRecords, Sound(tk), NEW st, NEW live \in BOOLEAN, NEW summary \in BOOLEAN
    PROVE  Sound(Synced(tk, st, live, summary))
  <1>1. Sound(Transition(tk, "Submit"))
    BY DEF Transition, Sound, TaskRecords
  <1>2. \A c \in Conditions : Sound([tk EXCEPT !.cond = c])
    BY DEF Sound, TaskRecords
  <1> QED BY <1>1, <1>2 DEF Synced, Conditions

\* sync_agent_task: the cards of one agent follow it, and each that changes is touched.
LEMMA FollowedSound ==
    ASSUME EvidenceInv, TypeOK', NEW a, NEW ag, NEW ch, NEW orph, NEW owners, NEW summary \in BOOLEAN,
           task' = SyncedTasks(a, ag, ch, orph, owners, summary),
           Touch({t \in Tasks : task'[t] # task[t]})
    PROVE  EvidenceInv'
  <1> DEFINE live == ch[a] # "none" \/ ag[a].st = "Working" \/ a \in orph
             new(t) == Synced(task[t], ag[a].st, live, summary)
  <1>1. \A t \in Tasks : Sound(new(t))
    BY SyncedSound DEF EvidenceInv, TypeOK, TaskType
  <1> HIDE DEF new
  <1>2. \A t \in Tasks : task'[t] \in {task[t], new(t)}
    BY DEF SyncedTasks, new
  <1>3. \A t \in Tasks : Sound(task'[t])
    BY <1>1, <1>2 DEF EvidenceInv
  <1>4. Carried
    BY TouchCarries DEF EvidenceInv
  <1> QED BY <1>3, <1>4, Preserved

\* broadcast(AgentChanged).
LEMMA BroadcastSound ==
    ASSUME EvidenceInv, TypeOK', NEW a, NEW ag, NEW ch, BroadcastAgent(a, ag, ch)
    PROVE  EvidenceInv'
  <1> DEFINE stopped == ch[a] = "none" /\ ag[a].st \notin {"Working", "Stopping"}
             rel == IF stopped THEN Released(a, AcceptanceOwners) ELSE [lease |-> lease, orphan |-> orphan]
             orph == rel.orphan
  <1>1. PICK summary \in BOOLEAN : task' = SyncedTasks(a, ag, ch, orph, AcceptanceOwners, summary)
    BY DEF BroadcastAgent
  <1>2. Touch({t \in Tasks : task'[t] # task[t]})
    BY DEF BroadcastAgent
  <1> HIDE DEF orph
  <1> QED BY <1>1, <1>2, FollowedSound

-----------------------------------------------------------------------------
\* The actions of RuntimeState preserve the invariant.
LEMMA RuntimeSound ==
    ASSUME EvidenceInv, TypeOK'
    PROVE  /\ ReapOrphanWriters => EvidenceInv'
           /\ EditWorkspace => EvidenceInv'
           /\ \A a \in Agents :
                DirectPrompt(a) \/ TurnCompletes(a) \/ FinishAgent(a) \/ StopAgent(a) \/ StopCancelled(a)
                  \/ DeleteAgent(a) \/ GroupExits(a) => EvidenceInv'
           /\ \A l \in launch :
                PromptPanics(l) \/ PromptSpawns(l) \/ PromptRegisters(l) \/ PromptFails(l) => EvidenceInv'
  <1>1. ASSUME ReapOrphanWriters PROVE EvidenceInv'
    <2>1. PICK a \in Reapable :
            /\ \E summary \in BOOLEAN :
                 task' = SyncedTasks(a, agent, child, Released(a, AcceptanceOwners).orphan,
                                     AcceptanceOwners, summary)
            /\ Touch({t \in Tasks : task'[t] # task[t]})
      BY <1>1 DEF ReapOrphanWriters
    <2> QED BY <2>1, FollowedSound
  <1>2. ASSUME EditWorkspace PROVE EvidenceInv'
    BY <1>2, NoCard DEF EditWorkspace
  <1>3. ASSUME NEW a \in Agents, DirectPrompt(a) \/ DeleteAgent(a) \/ GroupExits(a) PROVE EvidenceInv'
    BY <1>3, NoCard DEF DirectPrompt, DeleteAgent, GroupExits
  <1>4. ASSUME NEW a \in Agents, TurnCompletes(a) \/ FinishAgent(a) \/ StopAgent(a) \/ StopCancelled(a) PROVE EvidenceInv'
    <2>0. TurnCompletes(a) \/ FinishAgent(a) \/ Stops(a)
      BY <1>4 DEF StopAgent, StopCancelled
    <2>1. CASE Stops(a) /\ ~HasRecord(a)
      BY <2>1, NoCard DEF Stops
    <2>2. CASE ~(Stops(a) /\ ~HasRecord(a))
      <3>1. PICK ag, ch : BroadcastAgent(a, ag, ch)
        BY <2>0, <2>2 DEF TurnCompletes, FinishAgent, Stops, StopEffect
      <3> QED BY <3>1, BroadcastSound
    <2> QED BY <2>1, <2>2
  <1>5. ASSUME NEW l \in launch, PromptPanics(l) \/ PromptSpawns(l) \/ PromptFails(l) PROVE EvidenceInv'
    BY <1>5, NoCard DEF PromptPanics, PromptSpawns, PromptFails
  <1>6. ASSUME NEW l \in launch, PromptRegisters(l) PROVE EvidenceInv'
    <2>1. CASE HasRecord(l.agent)
      BY <1>6, <2>1, BroadcastSound DEF PromptRegisters
    <2>2. CASE ~HasRecord(l.agent)
      BY <1>6, <2>2, NoCard DEF PromptRegisters
    <2> QED BY <2>1, <2>2
  <1> QED BY <1>1, <1>2, <1>3, <1>4, <1>5, <1>6

\* The actions of BoardQueue preserve the invariant.
LEMMA QueueSound ==
    ASSUME EvidenceInv, TypeOK'
    PROVE  /\ \A t \in Tasks :
                Enqueue(t) \/ RequestChangesQueued(t) \/ PlanChanges(t) \/ ClaimBlocked(t) => EvidenceInv'
           /\ \A t \in Tasks, choice \in MaybeAgent : SelectAgent(t, choice) => EvidenceInv'
           /\ \A t \in Tasks, before \in Tasks \cup {None} : ReorderQueue(t, before) => EvidenceInv'
           /\ \A t \in Tasks, a \in Agents : Claim(t, a) => EvidenceInv'
           /\ \A p \in Projects : SetPaused(p) => EvidenceInv'
  <1> USE DEF EvidenceInv, TypeOK, TaskType
  <1>1. ASSUME NEW t \in Tasks, Enqueue(t) \/ RequestChangesQueued(t) PROVE EvidenceInv'
    <2>1. ASSUME NEW pos PROVE Sound(Waiting(task[t], pos))
      BY DEF Waiting, Sound, TaskRecords
    <2>2. Sound(task'[t]) /\ \A u \in Tasks \ {t} : task'[u] = task[u]
      BY <1>1, <2>1 DEF Enqueue, RequestChangesQueued
    <2> QED BY <1>1, <2>2, OneCard DEF Enqueue, RequestChangesQueued
  <1>2. ASSUME NEW t \in Tasks, PlanChanges(t) PROVE EvidenceInv'
    BY <1>2, NoCard DEF PlanChanges, Touch
  <1>3. ASSUME NEW t \in Tasks, ClaimBlocked(t) PROVE EvidenceInv'
    <2>1. Sound(task'[t]) /\ \A u \in Tasks \ {t} : task'[u] = task[u]
      BY <1>3 DEF ClaimBlocked, Sound, TaskRecords
    <2> QED BY <1>3, <2>1, OneCard DEF ClaimBlocked
  <1>4. ASSUME NEW t \in Tasks, NEW choice \in MaybeAgent, SelectAgent(t, choice) PROVE EvidenceInv'
    <2> DEFINE moved == {t} \cup Detached(t, choice)
    <2>1. \A u \in Tasks : u \in moved => \E c \in MaybeAgent :
                             task'[u] = [Unqueued(task[u]) EXCEPT !.assigned = c, !.cont = c]
      BY <1>4 DEF SelectAgent, MaybeAgent
    <2>2. Touch(moved) /\ \A u \in Tasks \ moved : task'[u] = task[u]
      BY <1>4 DEF SelectAgent
    <2>3. ASSUME NEW u \in Tasks, NEW c PROVE Sound([Unqueued(task[u]) EXCEPT !.assigned = c, !.cont = c])
      BY DEF Unqueued, Sound, TaskRecords
    <2> HIDE DEF moved
    <2>4. ASSUME NEW u \in Tasks PROVE Sound(task'[u])
      <3>1. CASE u \notin moved
        BY <2>2, <3>1
      <3>2. CASE u \in moved
        <4>1. PICK c \in MaybeAgent : task'[u] = [Unqueued(task[u]) EXCEPT !.assigned = c, !.cont = c]
          BY <2>1, <3>2
        <4> QED BY <2>3, <4>1, Zenon
      <3> QED BY <3>1, <3>2
    <2> QED BY <2>2, <2>4, TouchCarries, Preserved
  <1>5. ASSUME NEW t \in Tasks, NEW before \in Tasks \cup {None}, ReorderQueue(t, before) PROVE EvidenceInv'
    <2>1. ASSUME NEW u \in Tasks, NEW n PROVE Sound([task[u] EXCEPT !.pos = n])
      BY DEF Sound, TaskRecords
    <2>2. \A u \in Tasks : task'[u] = task[u] \/ \E n : task'[u] = [task[u] EXCEPT !.pos = n]
      BY <1>5 DEF ReorderQueue
    <2>3. ASSUME NEW u \in Tasks PROVE Sound(task'[u])
      <3>1. CASE task'[u] = task[u]
        BY <3>1
      <3>2. ASSUME NEW n, task'[u] = [task[u] EXCEPT !.pos = n] PROVE Sound(task'[u])
        BY <2>1, <3>2, Zenon
      <3> QED BY <2>2, <3>1, <3>2
    <2> DEFINE pending == {u \in Tasks \ {t} : ProjectOf[u] = ProjectOf[t] /\ WaitingInQueue(task[u])}
               ts == {t} \cup {u \in pending : task'[u] # task[u]}
    <2>4. Touch(ts) /\ \A u \in Tasks \ ts : task'[u] = task[u]
      <3>1. Touch(ts) /\ \A u \in Tasks : u \notin pending \cup {t} => task'[u] = task[u]
        BY <1>5 DEF ReorderQueue
      <3> HIDE DEF pending
      <3> QED BY <3>1
    <2> HIDE DEF ts
    <2> QED BY <2>3, <2>4, TouchCarries, Preserved
  <1>6. ASSUME NEW t \in Tasks, NEW a \in Agents, Claim(t, a) PROVE EvidenceInv'
    <2>1. PICK cont : task' = [task EXCEPT ![t].qagent = a, ![t].assigned = a, ![t].cont = cont]
      BY <1>6 DEF Claim
    <2>2. Sound(task'[t]) /\ \A u \in Tasks \ {t} : task'[u] = task[u]
      BY <2>1 DEF Sound, TaskRecords
    <2> QED BY <1>6, <2>2, OneCard DEF Claim
  <1>7. ASSUME NEW p \in Projects, SetPaused(p) PROVE EvidenceInv'
    BY <1>7, NoCard DEF SetPaused
  <1> QED BY <1>1, <1>2, <1>3, <1>4, <1>5, <1>6, <1>7

-----------------------------------------------------------------------------
\* acceptance_block: a blocked card is in progress.
LEMMA BlockTaskSound ==
    ASSUME EvidenceInv, TypeOK', NEW t \in Tasks, NEW pc, BlockTask(t, pc)
    PROVE  EvidenceInv'
  <1>1. Sound(BlockedTask(task[t]))
    BY DEF EvidenceInv, TypeOK, TaskType, TaskRecords, BlockedTask, Sound
  <1>2. Sound(task'[t]) /\ \A u \in Tasks \ {t} : task'[u] = task[u]
    BY <1>1 DEF BlockTask, EvidenceInv, TypeOK, TaskType
  <1> QED BY <1>2, OneCard DEF BlockTask

\* The steps of a launching thread preserve the invariant.
LEMMA LaunchSound ==
    ASSUME EvidenceInv, TypeOK', NEW l \in launch, LaunchAcquire(l) \/ LaunchControl(l)
    PROVE  EvidenceInv'
  <1>1. CASE LaunchAcquire(l) /\ BlockTask(l.task, control[l.task].pc)
    <2>1. l.task \in Tasks
      BY <1>1 DEF LaunchAcquire, EvidenceInv, TypeOK, ThreadType, Launches
    <2> QED BY <1>1, <2>1, BlockTaskSound
  <1>2. CASE LaunchAcquire(l) /\ ~BlockTask(l.task, control[l.task].pc)
    BY <1>2, NoCard DEF LaunchAcquire
  <1>3. CASE LaunchControl(l)
    BY <1>3, NoCard DEF LaunchControl
  <1> QED BY <1>1, <1>2, <1>3

\* The steps of an acceptance loop, and its cancellation, preserve the invariant.
LEMMA LoopSound ==
    ASSUME EvidenceInv, TypeOK', NEW t \in Tasks, LoopStep(t) \/ CancelLoop(t)
    PROVE  EvidenceInv'
  <1> USE DEF EvidenceInv, TypeOK, TaskType
  <1>1. CASE AdmitWorker(t) \/ SpawnWorker(t) \/ LaunchFails(t) \/ StartValidator(t)
             \/ ValidatorEnds(t) \/ LoopError(t) \/ EndLoop(t)
    BY <1>1, NoCard DEF AdmitWorker, SpawnWorker, LaunchFails, StartValidator, ValidatorEnds, LoopError, EndLoop
  <1>2. CASE Preflight(t)
    <2> DEFINE c == control[t]
    <2>1. PICK new \in Agents :
            task' = [task EXCEPT ![t].assigned = IF c.ordinal > 1 /\ ~task[t].queued THEN new ELSE @,
                                 ![t].worker   = IF c.vonly THEN @ ELSE new,
                                 ![t].cond     = IF c.vonly THEN "Running" ELSE "Queued"]
      BY <1>2 DEF Preflight
    <2>2. Sound(task'[t]) /\ \A u \in Tasks \ {t} : task'[u] = task[u]
      BY <2>1 DEF Sound, TaskRecords
    <2> QED BY <1>2, <2>2, OneCard DEF Preflight
  <1>3. ASSUME task' = [task EXCEPT ![t].cond = "Running"], Touch({t}) PROVE EvidenceInv'
    <2>1. Sound(task'[t]) /\ \A u \in Tasks \ {t} : task'[u] = task[u]
      BY <1>3 DEF Sound, TaskRecords
    <2> QED BY <1>3, <2>1, OneCard
  <1>4. CASE RegisterWorker(t)
    <2>1. CASE control[t].att
      BY <1>3, <1>4, <2>1 DEF RegisterWorker
    <2>2. CASE ~control[t].att
      BY <1>4, <2>2, NoCard DEF RegisterWorker
    <2> QED BY <2>1, <2>2
  <1>5. CASE WorkerExited(t)
    <2> DEFINE ok == control[t].att /\ agent[control[t].owner].st = "Completed"
    <2>1. CASE ok
      BY <1>3, <1>5, <2>1 DEF WorkerExited
    <2>2. CASE ~ok
      BY <1>5, <2>2, NoCard DEF WorkerExited
    <2> QED BY <2>1, <2>2
  <1>6. CASE StopWorker(t)
    <2>1. CASE HasRecord(control[t].owner)
      BY <1>6, <2>1, BroadcastSound DEF StopWorker, StopEffect
    <2>2. CASE ~HasRecord(control[t].owner)
      BY <1>6, <2>2, NoCard DEF StopWorker
    <2> QED BY <2>1, <2>2
  <1>7. CASE Judge(t)
    <2>1. CASE task' = task
      BY <1>7, <2>1, NoCard DEF Judge, Touch
    <2>2. CASE task' # task
      <3>1. PICK x : task' = [task EXCEPT ![t].sub = ws, ![t].state = "InReview", ![t].cond = "Idle", ![t].assigned = x]
        BY <1>7, <2>2 DEF Judge
      <3>2. Sound(task'[t]) /\ \A u \in Tasks \ {t} : task'[u] = task[u]
        BY <3>1 DEF Sound, TaskRecords
      <3> QED BY <1>7, <3>2, OneCard DEF Judge
    <2> QED BY <2>1, <2>2
  <1>8. CASE BlockLoop(t)
    BY <1>8, BlockTaskSound DEF BlockLoop
  <1>9. CASE CancelLoop(t)
    BY <1>9, NoCard DEF CancelLoop, Touch
  <1> QED BY <1>1, <1>2, <1>4, <1>5, <1>6, <1>7, <1>8, <1>9 DEF LoopStep

-----------------------------------------------------------------------------
\* The review requests preserve the invariant: this is where the evidence is compared,
\* in one critical section, and relied upon, in another.
LEMMA ReviewSound ==
    ASSUME EvidenceInv, TypeOK'
    PROVE  /\ \A t \in Tasks, op \in ReviewOps : BeginReview(t, op) => EvidenceInv'
           /\ \A r \in review : ReviewStep(r) => EvidenceInv'
  <1> USE DEF EvidenceInv, TypeOK, TaskType
  <1>1. ASSUME NEW t \in Tasks, NEW op \in ReviewOps, BeginReview(t, op) PROVE EvidenceInv'
    <2>1. op \in {"Accept", "AcceptRelease"} => task[t].state = "InReview" /\ task[t].sub # None
      <3>1. ASSUME op \in {"Accept", "AcceptRelease"} PROVE MayTransition(task[t], "Accept") /\ EvidenceCurrent(t)
        BY <1>1, <3>1 DEF BeginReview
      <3>2. EvidenceCurrent(t) => task[t].sub # None
        BY NoneAssumption DEF EvidenceCurrent, WorldType
      <3>3. MayTransition(task[t], "Accept") => task[t].state = "InReview"
        BY DEF MayTransition, InWorkflow, Column, TaskRecords, States
      <3> QED BY <3>1, <3>2, <3>3
    <2>2. task' = task /\ review' = review \cup {[task |-> t, op |-> op]}
      BY <1>1 DEF BeginReview
    <2> QED BY <2>1, <2>2 DEF ReviewBacked
  <1>2. ASSUME NEW r \in review PROVE r.task \in Tasks
    BY DEF ThreadType, Reviews
  <1>3. ASSUME NEW r \in review, CommitAccept(r) \/ CommitRelease(r) PROVE EvidenceInv'
    <2>1. CASE task' = task /\ review' \subseteq review
      BY <2>1, NoCard
    <2>2. CASE task' = [task EXCEPT ![r.task] = Transition(@, "Accept")] /\ Touch({r.task})
      <3>1. task[r.task].sub # None /\ task[r.task].state = "InReview"
        BY <1>3 DEF ReviewBacked, CommitAccept, CommitRelease
      <3>2. Sound(Transition(task[r.task], "Accept"))
        BY <1>2, <3>1 DEF Transition, Sound, TaskRecords
      <3>3. Sound(task'[r.task]) /\ \A u \in Tasks \ {r.task} : task'[u] = task[u]
        BY <1>2, <2>2, <3>2
      <3> QED BY <1>2, <2>2, <3>3, OneCard
    <2> QED BY <1>3, <2>1, <2>2 DEF CommitAccept, CommitRelease
  <1>4. ASSUME NEW r \in review, NEW a \in Agents, CommitLaunch(r, a) PROVE EvidenceInv'
    <2> DEFINE old == task[r.task]
    <2>1. Sound([old EXCEPT !.assigned = a, !.cond = "Queued"])
      BY <1>2 DEF Sound, TaskRecords
    <2>2. Sound([Transition(old, "RequestChanges") EXCEPT !.assigned = a, !.cond = "Queued", !.sub = None])
      BY <1>2, ZenonT(60) DEF Sound, TaskRecords, Transition
    <2>3. Sound(task'[r.task]) /\ \A u \in Tasks \ {r.task} : task'[u] = task[u]
      BY <1>2, <1>4, <2>1, <2>2 DEF CommitLaunch
    <2> QED BY <1>2, <1>4, <2>3, OneCard DEF CommitLaunch
  <1> QED BY <1>1, <1>3, <1>4 DEF ReviewStep

\* A card reaches Backlog only from Backlog or To Do (Task::transition).
LEMMA BacklogFromTodo ==
    ASSUME NEW tk \in TaskRecords, NEW action \in CardActions, MayTransition(tk, action),
           Transition(tk, action).state = "Backlog"
    PROVE  tk.state \in {"Backlog", "Ready"}
  <1>1. CASE action = "ReturnToBacklog"
    <2>1. Column(tk) = "Todo"
      BY <1>1 DEF MayTransition
    <2> QED BY <2>1 DEF Column
  <1>2. CASE action = "Cancel"
    <2>1. Transition(tk, action).state = tk.state
      BY <1>2 DEF Transition, TaskRecords
    <2> QED BY <2>1
  <1>3. CASE action \in {"Prioritize", "Start", "ReturnToTodo", "Reopen"}
    <2>1. Transition(tk, action).state \in {"Ready", "Running"}
      BY <1>3 DEF Transition, TaskRecords
    <2> QED BY <2>1
  <1> QED BY <1>1, <1>2, <1>3 DEF CardActions

\* The requests on cards, and a restart, preserve the invariant.
LEMMA CardSound ==
    ASSUME EvidenceInv, TypeOK'
    PROVE  /\ \A t \in Tasks, action \in CardActions : CardTransition(t, action) => EvidenceInv'
           /\ \A t \in Tasks, a \in Agents : Start(t, a) => EvidenceInv'
           /\ CrashRestart => EvidenceInv'
  <1> USE DEF EvidenceInv, TypeOK, TaskType
  <1>1. ASSUME NEW t \in Tasks, NEW action \in CardActions, CardTransition(t, action) PROVE EvidenceInv'
    <2> DEFINE next == Transition(task[t], action)
    <2>1. next \in TaskRecords
      BY TransitionType
    <2>2. next.state = "Accepted" => next.sub # None
      BY DEF Transition, CardActions, Sound, TaskRecords
    <2>3. next.queued = task[t].queued
      BY DEF Transition, TaskRecords
    <2>4. CASE task[t].queued /\ Column(next) = "Todo"
      <3>1. PICK s : task' = [task EXCEPT ![t] = [Unqueued(next) EXCEPT !.cont = s, !.assigned = s, !.cond = "Idle"]]
        BY <1>1, <2>4 DEF CardTransition
      <3> HIDE DEF next
      <3>2. Sound(task'[t]) /\ \A u \in Tasks \ {t} : task'[u] = task[u]
        BY <2>1, <2>2, <3>1 DEF Unqueued, Sound, TaskRecords
      <3> QED BY <1>1, <3>2, OneCard DEF CardTransition
    <2>5. CASE ~(task[t].queued /\ Column(next) = "Todo") /\ WaitingInQueue(task[t]) /\ Column(next) # "InProgress"
      <3>1. task' = [task EXCEPT ![t] = [Unqueued(next) EXCEPT !.cond = "Idle"]]
        BY <1>1, <2>5 DEF CardTransition
      <3> HIDE DEF next
      <3>2. Sound(task'[t]) /\ \A u \in Tasks \ {t} : task'[u] = task[u]
        BY <2>1, <2>2, <3>1 DEF Unqueued, Sound, TaskRecords
      <3> QED BY <1>1, <3>2, OneCard DEF CardTransition
    <2>6. CASE /\ ~(task[t].queued /\ Column(next) = "Todo")
               /\ ~(WaitingInQueue(task[t]) /\ Column(next) # "InProgress")
      <3>1. task' = [task EXCEPT ![t] = next] /\ MayTransition(task[t], action)
        BY <1>1, <2>6 DEF CardTransition
      <3>2. task[t].queued => next.state # "Backlog"
        BY <3>1, BacklogFromTodo DEF Sound
      <3>3. task[t].queued => next.state # "Ready"
        BY <2>1, <2>6 DEF Column, TaskRecords, States
      <3> HIDE DEF next
      <3>4. Sound(task'[t]) /\ \A u \in Tasks \ {t} : task'[u] = task[u]
        BY <2>2, <2>3, <3>1, <3>2, <3>3 DEF Sound
      <3> QED BY <1>1, <3>4, OneCard DEF CardTransition
    <2> QED BY <2>4, <2>5, <2>6
  <1>2. ASSUME NEW t \in Tasks, NEW a \in Agents, Start(t, a) PROVE EvidenceInv'
    <2>1. Sound([Transition(task[t], "Start") EXCEPT !.assigned = a, !.cond = "Queued"])
      BY DEF Transition, Sound, TaskRecords
    <2>2. Sound(task'[t]) /\ \A u \in Tasks \ {t} : task'[u] = task[u]
      BY <1>2, <2>1 DEF Start
    <2> QED BY <1>2, <2>2, OneCard DEF Start
  <1>3. ASSUME CrashRestart PROVE EvidenceInv'
    <2>1. ASSUME NEW t \in Tasks PROVE Sound(Reconciled(task[t]))
      BY DEF Reconciled, Sound, TaskRecords
    <2>2. \A t \in Tasks : Sound(task'[t])
      BY <1>3, <2>1 DEF CrashRestart
    <2> QED BY <1>3, <2>2, Preserved DEF CrashRestart, Carried
  <1> QED BY <1>1, <1>2, <1>3

-----------------------------------------------------------------------------
\* The invariant holds of every state of the board.
THEOREM EvidenceInvariant == Spec => []EvidenceInv
  <1>1. Init => EvidenceInv
    <2>1. Sound(NewTask)
      BY DEF NewTask, Sound
    <2> QED BY <2>1, InitType DEF Init, EvidenceInv, ReviewBacked
  <1>2. ASSUME EvidenceInv, [Next]_vars PROVE EvidenceInv'
    <2>0. TypeOK'
      BY <1>2, NextType, StutterType DEF EvidenceInv
    <2>1. CASE UserStep
      BY <1>2, <2>0, <2>1, RuntimeSound, QueueSound, LoopSound, ReviewSound, CardSound DEF UserStep
    <2>2. CASE QueueStep
      BY <1>2, <2>0, <2>2, RuntimeSound, QueueSound DEF QueueStep
    <2>3. ASSUME NEW l \in launch, LaunchStep(l) PROVE EvidenceInv'
      BY <1>2, <2>0, <2>3, RuntimeSound, LaunchSound DEF LaunchStep
    <2>4. ASSUME NEW t \in Tasks, LoopStep(t) PROVE EvidenceInv'
      BY <1>2, <2>0, <2>4, LoopSound
    <2>5. ASSUME NEW r \in review, ReviewStep(r) PROVE EvidenceInv'
      BY <1>2, <2>0, <2>5, ReviewSound
    <2>6. ASSUME NEW a \in Agents, TurnCompletes(a) \/ FinishAgent(a) \/ GroupExits(a) PROVE EvidenceInv'
      BY <1>2, <2>0, <2>6, RuntimeSound
    <2>7. CASE EditWorkspace \/ CrashRestart
      BY <1>2, <2>0, <2>7, RuntimeSound, CardSound
    <2>8. CASE UNCHANGED vars
      BY <1>2, <2>0, <2>8, NoCard DEF vars
    <2> QED BY <1>2, <2>1, <2>2, <2>3, <2>4, <2>5, <2>6, <2>7, <2>8 DEF Next
  <1> QED BY <1>1, <1>2, PTL DEF Spec

\* No task is accepted without a submission whose evidence was compared with the
\* workspace, whatever happens between that comparison and the commit: new launches,
\* prompts, edits of the queue, restarts (acceptance_request, release_request).
THEOREM AcceptedTasksHaveEvidence == Spec => []AcceptedHasEvidence
  <1>1. EvidenceInv => AcceptedHasEvidence
    BY DEF EvidenceInv, Sound, AcceptedHasEvidence
  <1> QED BY <1>1, EvidenceInvariant, PTL

\* The queue never holds a card of Backlog or Todo, on whatever way the card got there
\* (Enqueue, prepare_task_request, reconcile_tasks).
THEOREM QueueHoldsStartedTasks == Spec => []QueuedColumns
  <1>1. EvidenceInv => QueuedColumns
    BY DEF EvidenceInv, TypeOK, TaskType, TaskRecords, States, Sound, Column, QueuedColumns
  <1> QED BY <1>1, EvidenceInvariant, PTL

=============================================================================
