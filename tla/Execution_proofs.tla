-------------------------- MODULE Execution_proofs --------------------------
(***************************************************************************)
(* Theorems about execution on the board: the order of the queue is total, *)
(* no two tasks have a claim on one agent, a process group is covered by a *)
(* reservation, cards move only as the requests and the loops say, a task  *)
(* that is shown as executing has somebody who will settle it, and the     *)
(* board implements one slot per workspace.                                *)
(***************************************************************************)
EXTENDS Evidence_proofs, FiniteSetTheorems, WellFoundedInduction

-----------------------------------------------------------------------------
(* The order of the queue. *)

\* The order of the natural numbers as a relation.
LessNat == {ss \in Nat \X Nat : ss[1] < ss[2]}

\* Membership in the relation is the order.
LEMMA LessNatIsLess == \A x, y \in Nat : <<x, y>> \in LessNat <=> x < y
  BY DEF LessNat

\* A bounded set of natural numbers that is not empty has a greatest element, and
\* Max names it.
LEMMA MaxIsUpper ==
    ASSUME NEW n \in Nat, NEW S \in SUBSET (0 .. n), S # {}
    PROVE  Max(S) \in S /\ \A y \in S : y <= Max(S)
  <1> DEFINE T == {n - x : x \in S}
  <1>1. T \subseteq Nat /\ T # {}
    OBVIOUS
  <1>2. IsWellFoundedOn(LessNat, Nat)
    BY NatLessThanWellFounded DEF OpToRel, LessNat
  <1>3. PICK m \in T : \A y \in T : ~(<<y, m>> \in LessNat)
    BY <1>1, <1>2, WFMin
  <1>4. PICK x \in S : m = n - x
    BY <1>3
  <1>5. ASSUME NEW y \in S PROVE y <= x
    <2>1. n - y \in T /\ n - y \in Nat /\ m \in Nat
      BY <1>1, <1>3
    <2>2. ~(n - y < m)
      BY <1>3, <2>1, LessNatIsLess
    <2> QED BY <1>4, <2>1, <2>2
  <1>6. \E z \in S : \A y \in S : z >= y
    BY <1>4, <1>5
  <1> QED BY <1>6 DEF Max

\* The inductive invariant.
QueueInv == TypeOK /\ DistinctPositions

\* The card is queued only if it was before, and then at the same position.
Kept(old, new) == new.queued => old.queued /\ new.pos = old.pos

\* So is every card of the board.
PlacesKept == \A t \in Tasks : Kept(task[t], task'[t])

\* Such a step keeps the order.
LEMMA KeptOrder ==
    ASSUME QueueInv, TypeOK', PlacesKept
    PROVE  QueueInv'
  BY DEF QueueInv, PlacesKept, Kept, DistinctPositions

\* The tail of the queue lies behind every queued task.
LEMMA TailIsFree ==
    ASSUME TypeOK, NEW p \in Projects
    PROVE  \A t \in Tasks : ProjectOf[t] = p /\ task[t].queued => task[t].pos < NextPosition(p)
  <1> DEFINE S == {0} \cup {task[t].pos : t \in {u \in Tasks : ProjectOf[u] = p /\ task[u].queued}}
  <1>1. S \in SUBSET (0 .. MaxPos) /\ S # {}
    BY MaxPosAssumption DEF TypeOK, TaskType, TaskRecords
  <1>2. Max(S) \in S /\ \A y \in S : y <= Max(S)
    BY <1>1, MaxPosAssumption, MaxIsUpper
  <1>3. NextPosition(p) = 1 + Max(S)
    BY DEF NextPosition
  <1>4. PICK m \in Nat : m = Max(S)
    <2> HIDE DEF S
    <2>1. Max(S) \in 0 .. MaxPos
      BY <1>1, <1>2
    <2> QED BY <2>1, MaxPosAssumption
  <1>5. ASSUME NEW t \in Tasks, ProjectOf[t] = p, task[t].queued PROVE task[t].pos < 1 + m
    <2>1. task[t].pos \in S /\ task[t].pos \in Nat
      BY <1>5 DEF TypeOK, TaskType, TaskRecords
    <2>2. task[t].pos <= m
      BY <1>2, <1>4, <2>1
    <2> QED BY <2>1, <2>2
  <1> QED BY <1>3, <1>4, <1>5


\* An element of the larger of two subsets that the smaller one lacks makes it larger.
LEMMA StrictlyLarger ==
    ASSUME NEW A, NEW B, NEW x, IsFiniteSet(B), A \subseteq B, x \in B, x \notin A
    PROVE  Cardinality(A) \in Nat /\ Cardinality(B) \in Nat /\ Cardinality(A) < Cardinality(B)
  <1>1. IsFiniteSet(A) /\ Cardinality(A) <= Cardinality(B) /\ (Cardinality(B) = Cardinality(A) => B = A)
    BY FS_Subset
  <1>2. Cardinality(A) \in Nat /\ Cardinality(B) \in Nat
    BY <1>1, FS_CardinalityType
  <1> QED BY <1>1, <1>2

\* A set of tasks with distinct positions is finite, since positions are bounded.
LEMMA DistinctIsFinite ==
    ASSUME TypeOK, NEW S \in SUBSET Tasks, \A t, u \in S : t # u => task[t].pos # task[u].pos
    PROVE  IsFiniteSet(S)
  <1> DEFINE f == [t \in S |-> task[t].pos]
  <1>1. f \in Injection(S, 0 .. MaxPos)
    BY MaxPosAssumption DEF TypeOK, TaskType, TaskRecords, Injection, IsInjective
  <1>2. IsFiniteSet(0 .. MaxPos)
    BY FS_Interval, MaxPosAssumption
  <1> HIDE DEF f
  <1> QED BY <1>1, <1>2, FS_Injection

\* ReorderQueue: the waiting tasks get new positions, all different and all behind
\* the tasks that left the queue's waiting part.
LEMMA ReorderedOrder ==
    ASSUME QueueInv, NEW t \in Tasks, NEW before \in Tasks \cup {None}, ReorderQueue(t, before)
    PROVE  DistinctPositions'
  <1> DEFINE p       == ProjectOf[t]
             pending == {u \in Tasks \ {t} : ProjectOf[u] = p /\ WaitingInQueue(task[u])}
             rest    == {v \in Tasks : ProjectOf[v] = p /\ task[v].queued /\ ~WaitingInQueue(task[v])}
             S       == {0} \cup {task[u].pos : u \in rest}
             ahead(u) == before = None \/ task[u].pos < task[before].pos
             below(u) == {v \in pending : task[v].pos < task[u].pos}
             front    == {v \in pending : ahead(v)}
             rank(u)  == IF u = t THEN 1 + Cardinality(front)
                         ELSE 1 + Cardinality(below(u)) + IF ahead(u) THEN 0 ELSE 1
  <1>1. /\ before \in pending \cup {None}
        /\ task' = [u \in Tasks |-> IF u \in pending \cup {t}
                                    THEN [task[u] EXCEPT !.pos = Max(S) + rank(u)] ELSE task[u]]
        /\ WaitingInQueue(task[t])
    BY DEF ReorderQueue
  <1>2. task \in [Tasks -> TaskRecords] /\ \A u \in Tasks : task[u].pos \in 0 .. MaxPos
    BY DEF QueueInv, TypeOK, TaskType, TaskRecords
  <1>3. \A u, v \in pending : u # v => task[u].pos # task[v].pos
    BY DEF QueueInv, DistinctPositions, WaitingInQueue
  <1>4. IsFiniteSet(pending)
    BY <1>3, DistinctIsFinite DEF QueueInv
  <1>5. PICK base \in Nat : base = Max(S) /\ \A u \in rest : task[u].pos <= base
    <2>1. S \in SUBSET (0 .. MaxPos) /\ S # {}
      BY <1>2, MaxPosAssumption
    <2>2. Max(S) \in S /\ \A y \in S : y <= Max(S)
      BY <2>1, MaxPosAssumption, MaxIsUpper
    <2>3. \A u \in rest : task[u].pos \in S
      OBVIOUS
    <2> HIDE DEF S, rest
    <2>4. Max(S) \in 0 .. MaxPos
      BY <2>1, <2>2
    <2>5. PICK m \in Nat : m = Max(S)
      BY <2>4, MaxPosAssumption
    <2> QED BY <2>2, <2>3, <2>5
  <1>6. /\ IsFiniteSet(front) /\ Cardinality(front) \in Nat
        /\ \A u \in pending : IsFiniteSet(below(u)) /\ Cardinality(below(u)) \in Nat
    BY <1>4, FS_Subset, FS_CardinalityType
  <1>7. ASSUME NEW u \in pending \cup {t} PROVE rank(u) \in Nat /\ rank(u) >= 1
    BY <1>6
  <1>8. ASSUME NEW u \in pending, NEW v \in pending, task[u].pos < task[v].pos PROVE rank(u) < rank(v)
    <2>1. below(u) \subseteq below(v) /\ u \in below(v) /\ u \notin below(u)
      BY <1>2, <1>8, MaxPosAssumption
    <2>2. Cardinality(below(u)) < Cardinality(below(v))
      BY <1>6, <2>1, StrictlyLarger
    <2>3. ahead(v) => ahead(u)
      BY <1>1, <1>2, <1>8, MaxPosAssumption
    <2>4. u # t /\ v # t
      OBVIOUS
    <2> HIDE DEF below, ahead, front, pending
    <2> QED BY <1>6, <2>2, <2>3, <2>4
  <1>9. ASSUME NEW u \in pending PROVE rank(u) # rank(t)
    <2>1. u # t
      OBVIOUS
    <2>2. CASE ahead(u)
      <3>1. below(u) \subseteq front /\ u \in front /\ u \notin below(u)
        BY <1>1, <1>2, <2>2, MaxPosAssumption
      <3>2. Cardinality(below(u)) < Cardinality(front)
        BY <1>6, <3>1, StrictlyLarger
      <3> HIDE DEF below, front, ahead, pending
      <3> QED BY <1>6, <2>1, <2>2, <3>2
    <2>3. CASE ~ahead(u)
      <3>1. front \subseteq below(u)
        BY <1>1, <1>2, <2>3, MaxPosAssumption
      <3>2. Cardinality(front) <= Cardinality(below(u))
        BY <1>6, <3>1, FS_Subset
      <3> HIDE DEF below, front, ahead, pending
      <3> QED BY <1>6, <2>1, <2>3, <3>2
    <2> QED BY <2>2, <2>3
  <1>10. \A u, v \in pending \cup {t} : u # v => rank(u) # rank(v)
    <2> SUFFICES ASSUME NEW u \in pending \cup {t}, NEW v \in pending \cup {t}, u # v PROVE rank(u) # rank(v)
      OBVIOUS
    <2>1. CASE u \in pending /\ v \in pending
      <3>1. task[u].pos < task[v].pos \/ task[v].pos < task[u].pos
        BY <1>2, <1>3, <2>1, MaxPosAssumption
      <3>2. rank(u) < rank(v) \/ rank(v) < rank(u)
        BY <1>8, <2>1, <3>1
      <3>3. rank(u) \in Nat /\ rank(v) \in Nat
        BY <1>7
      <3> HIDE DEF rank
      <3> QED BY <3>2, <3>3
    <2>2. CASE u = t \/ v = t
      BY <1>9, <2>2
    <2> QED BY <2>1, <2>2
  <1>11. \A u \in pending \cup {t} : task'[u].pos = base + rank(u) /\ task'[u].queued = task[u].queued
    <2> HIDE DEF rank, S
    <2> QED BY <1>1, <1>2, <1>5 DEF TaskRecords
  <1>12. \A u \in Tasks : u \notin pending \cup {t} => task'[u] = task[u]
    BY <1>1
  <1>13. \A u \in Tasks : u \notin pending \cup {t} /\ ProjectOf[u] = p /\ task[u].queued => u \in rest
    OBVIOUS
  <1>14. \A u \in pending \cup {t} : ProjectOf[u] = p /\ base < base + rank(u)
    <2>1. \A u \in pending \cup {t} : ProjectOf[u] = p
      OBVIOUS
    <2> HIDE DEF rank, pending
    <2> QED BY <1>5, <1>7, <2>1
  <1> HIDE DEF rank, pending, rest
  <1>15. ASSUME NEW u \in Tasks, NEW v \in Tasks, u # v, ProjectOf[u] = ProjectOf[v],
                task'[u].queued, task'[v].queued
         PROVE  task'[u].pos # task'[v].pos
    <2>1. CASE u \in pending \cup {t} /\ v \in pending \cup {t}
      BY <1>5, <1>7, <1>10, <1>11, <1>15, <2>1
    <2>2. CASE u \in pending \cup {t} /\ v \notin pending \cup {t}
      <3>1. task'[v] = task[v] /\ ProjectOf[v] = p /\ task[v].queued
        BY <1>12, <1>14, <1>15, <2>2
      <3>2. v \in rest
        BY <1>13, <2>2, <3>1
      <3>3. task[v].pos <= base /\ task[v].pos \in Nat
        BY <1>2, <1>5, <3>2
      <3>4. task'[u].pos = base + rank(u) /\ rank(u) \in Nat /\ rank(u) >= 1
        BY <1>7, <1>11, <2>2
      <3> QED BY <1>5, <3>1, <3>3, <3>4
    <2>3. CASE u \notin pending \cup {t} /\ v \in pending \cup {t}
      <3>1. task'[u] = task[u] /\ ProjectOf[u] = p /\ task[u].queued
        BY <1>12, <1>14, <1>15, <2>3
      <3>2. u \in rest
        BY <1>13, <2>3, <3>1
      <3>3. task[u].pos <= base /\ task[u].pos \in Nat
        BY <1>2, <1>5, <3>2
      <3>4. task'[v].pos = base + rank(v) /\ rank(v) \in Nat /\ rank(v) >= 1
        BY <1>7, <1>11, <2>3
      <3> QED BY <1>5, <3>1, <3>3, <3>4
    <2>4. CASE u \notin pending \cup {t} /\ v \notin pending \cup {t}
      BY <1>12, <1>15, <2>4 DEF QueueInv, DistinctPositions
    <2> QED BY <2>1, <2>2, <2>3, <2>4
  <1> QED BY <1>15 DEF DistinctPositions

-----------------------------------------------------------------------------
\* Steps that change one card, in any field but its entry in the queue.
LEMMA OnePlace ==
    ASSUME QueueInv, TypeOK', NEW t \in Tasks, Kept(task[t], task'[t]),
           \A u \in Tasks \ {t} : task'[u] = task[u]
    PROVE  QueueInv'
  <1>1. PlacesKept
    BY DEF PlacesKept, Kept
  <1> QED BY <1>1, KeptOrder

\* Steps that change no card.
LEMMA NoPlace ==
    ASSUME QueueInv, TypeOK', task' = task
    PROVE  QueueInv'
  <1>1. PlacesKept
    BY DEF PlacesKept, Kept
  <1> QED BY <1>1, KeptOrder

\* What the pure functions on a card do to its entry in the queue.
LEMMA CardPlaces ==
    ASSUME NEW tk \in TaskRecords
    PROVE  /\ \A action : Kept(tk, Transition(tk, action))
           /\ Kept(tk, BlockedTask(tk))
           /\ Kept(tk, Reconciled(tk))
           /\ \A st, live, summary : Kept(tk, Synced(tk, st, live, summary))
  <1>1. ASSUME NEW action PROVE Kept(tk, Transition(tk, action))
    BY DEF Kept, Transition, TaskRecords
  <1>2. Kept(tk, BlockedTask(tk))
    BY DEF Kept, BlockedTask, TaskRecords
  <1>3. Kept(tk, Reconciled(tk))
    BY DEF Kept, Reconciled, TaskRecords
  <1>4. ASSUME NEW st, NEW live, NEW summary PROVE Kept(tk, Synced(tk, st, live, summary))
    <2>1. \A c : Kept(tk, [tk EXCEPT !.cond = c])
      BY DEF Kept, TaskRecords
    <2>2. Kept(tk, tk)
      BY DEF Kept
    <2> QED BY <1>1, <2>1, <2>2 DEF Synced
  <1> QED BY <1>1, <1>2, <1>3, <1>4

\* sync_agent_task moves no task in the queue.
LEMMA FollowedPlaces ==
    ASSUME QueueInv, TypeOK', NEW a, NEW ag, NEW ch, NEW orph, NEW owners, NEW summary,
           task' = SyncedTasks(a, ag, ch, orph, owners, summary)
    PROVE  QueueInv'
  <1> DEFINE live == ch[a] # "none" \/ ag[a].st = "Working" \/ a \in orph
             new(t) == Synced(task[t], ag[a].st, live, summary)
  <1>1. \A t \in Tasks : Kept(task[t], new(t)) /\ Kept(task[t], task[t])
    BY CardPlaces DEF QueueInv, TypeOK, TaskType, Kept
  <1> HIDE DEF new
  <1>2. \A t \in Tasks : task'[t] \in {task[t], new(t)}
    BY DEF SyncedTasks, new
  <1>3. PlacesKept
    BY <1>1, <1>2 DEF PlacesKept
  <1> QED BY <1>3, KeptOrder

\* broadcast(AgentChanged) moves no task in the queue.
LEMMA BroadcastPlaces ==
    ASSUME QueueInv, TypeOK', NEW a, NEW ag, NEW ch, BroadcastAgent(a, ag, ch)
    PROVE  QueueInv'
  <1>1. PICK orph, summary : task' = SyncedTasks(a, ag, ch, orph, AcceptanceOwners, summary)
    BY DEF BroadcastAgent
  <1> QED BY <1>1, FollowedPlaces

\* acceptance_block moves no task in the queue.
LEMMA BlockPlaces ==
    ASSUME QueueInv, TypeOK', NEW t \in Tasks, NEW pc, BlockTask(t, pc)
    PROVE  QueueInv'
  <1>1. Kept(task[t], task'[t]) /\ \A u \in Tasks \ {t} : task'[u] = task[u]
    BY CardPlaces DEF BlockTask, QueueInv, TypeOK, TaskType
  <1> QED BY <1>1, OnePlace

-----------------------------------------------------------------------------
\* The actions of RuntimeState preserve the order.
LEMMA RuntimeOrder ==
    ASSUME QueueInv, TypeOK'
    PROVE  /\ ReapOrphanWriters => QueueInv'
           /\ EditWorkspace => QueueInv'
           /\ \A a \in Agents :
                DirectPrompt(a) \/ TurnCompletes(a) \/ FinishAgent(a) \/ Stops(a)
                  \/ DeleteAgent(a) \/ GroupExits(a) => QueueInv'
           /\ \A l \in launch :
                PromptPanics(l) \/ PromptSpawns(l) \/ PromptRegisters(l) \/ PromptFails(l) => QueueInv'
  <1>1. ASSUME ReapOrphanWriters PROVE QueueInv'
    <2>1. PICK a, orph, summary : task' = SyncedTasks(a, agent, child, orph, AcceptanceOwners, summary)
      BY <1>1 DEF ReapOrphanWriters
    <2> QED BY <2>1, FollowedPlaces
  <1>2. ASSUME EditWorkspace PROVE QueueInv'
    BY <1>2, NoPlace DEF EditWorkspace
  <1>3. ASSUME NEW a \in Agents, DirectPrompt(a) \/ DeleteAgent(a) \/ GroupExits(a) PROVE QueueInv'
    BY <1>3, NoPlace DEF DirectPrompt, DeleteAgent, GroupExits
  <1>4. ASSUME NEW a \in Agents, TurnCompletes(a) \/ FinishAgent(a) \/ Stops(a) PROVE QueueInv'
    <2>1. CASE Stops(a) /\ ~HasRecord(a)
      BY <2>1, NoPlace DEF Stops
    <2>2. CASE ~(Stops(a) /\ ~HasRecord(a))
      <3>1. PICK ag, ch : BroadcastAgent(a, ag, ch)
        BY <1>4, <2>2 DEF TurnCompletes, FinishAgent, Stops, StopEffect
      <3> QED BY <3>1, BroadcastPlaces
    <2> QED BY <2>1, <2>2
  <1>5. ASSUME NEW l \in launch, PromptPanics(l) \/ PromptSpawns(l) \/ PromptFails(l) PROVE QueueInv'
    BY <1>5, NoPlace DEF PromptPanics, PromptSpawns, PromptFails
  <1>6. ASSUME NEW l \in launch, PromptRegisters(l) PROVE QueueInv'
    <2>1. CASE HasRecord(l.agent)
      BY <1>6, <2>1, BroadcastPlaces DEF PromptRegisters
    <2>2. CASE ~HasRecord(l.agent)
      BY <1>6, <2>2, NoPlace DEF PromptRegisters
    <2> QED BY <2>1, <2>2
  <1> QED BY <1>1, <1>2, <1>3, <1>4, <1>5, <1>6

\* The actions of BoardQueue preserve the order: only here does a task get a place.
LEMMA QueueOrder ==
    ASSUME QueueInv, TypeOK'
    PROVE  /\ \A t \in Tasks :
                Enqueue(t) \/ RequestChangesQueued(t) \/ PlanChanges(t) \/ ClaimBlocked(t) => QueueInv'
           /\ \A t \in Tasks, choice \in MaybeAgent : SelectAgent(t, choice) => QueueInv'
           /\ \A t \in Tasks, before \in Tasks \cup {None} : ReorderQueue(t, before) => QueueInv'
           /\ \A t \in Tasks, a \in Agents : Claim(t, a) => QueueInv'
           /\ \A p \in Projects : SetPaused(p) => QueueInv'
  <1> USE DEF QueueInv, TypeOK, TaskType
  <1>1. ASSUME NEW t \in Tasks, Enqueue(t) \/ RequestChangesQueued(t) PROVE QueueInv'
    <2>1. ProjectOf[t] \in Projects
      BY BoardAssumption
    <2>2. PICK pos \in Nat : pos = NextPosition(ProjectOf[t]) /\ task' = [task EXCEPT ![t] = Waiting(task[t], pos)]
      BY <1>1 DEF Enqueue, RequestChangesQueued
    <2>3. \A u \in Tasks : ProjectOf[u] = ProjectOf[t] /\ task[u].queued => task[u].pos < pos
      BY <2>1, <2>2, TailIsFree
    <2>4. task'[t].pos = pos /\ \A u \in Tasks \ {t} : task'[u] = task[u]
      BY <2>2, WaitingType
    <2>5. \A u \in Tasks : task[u].pos \in Nat
      BY DEF TaskRecords
    <2> QED BY <2>2, <2>3, <2>4, <2>5 DEF DistinctPositions
  <1>2. ASSUME NEW t \in Tasks, PlanChanges(t) PROVE QueueInv'
    BY <1>2, NoPlace DEF PlanChanges
  <1>3. ASSUME NEW t \in Tasks, ClaimBlocked(t) PROVE QueueInv'
    <2>1. Kept(task[t], task'[t]) /\ \A u \in Tasks \ {t} : task'[u] = task[u]
      BY <1>3 DEF ClaimBlocked, Kept, TaskRecords
    <2> QED BY <2>1, OnePlace
  <1>4. ASSUME NEW t \in Tasks, NEW choice \in MaybeAgent, SelectAgent(t, choice) PROVE QueueInv'
    <2>1. \A u \in Tasks : task'[u] # task[u] =>
            \E c : task'[u] = [Unqueued(task[u]) EXCEPT !.assigned = c, !.cont = c]
      BY <1>4 DEF SelectAgent
    <2>2. ASSUME NEW u \in Tasks, NEW c PROVE ~[Unqueued(task[u]) EXCEPT !.assigned = c, !.cont = c].queued
      BY DEF Unqueued, TaskRecords
    <2>3. PlacesKept
      BY <2>1, <2>2, Zenon DEF PlacesKept, Kept
    <2> QED BY <2>3, KeptOrder
  <1>5. ASSUME NEW t \in Tasks, NEW before \in Tasks \cup {None}, ReorderQueue(t, before) PROVE QueueInv'
    BY <1>5, ReorderedOrder
  <1>6. ASSUME NEW t \in Tasks, NEW a \in Agents, Claim(t, a) PROVE QueueInv'
    <2>1. PICK cont : task' = [task EXCEPT ![t].qagent = a, ![t].assigned = a, ![t].cont = cont]
      BY <1>6 DEF Claim
    <2>2. Kept(task[t], task'[t]) /\ \A u \in Tasks \ {t} : task'[u] = task[u]
      BY <2>1 DEF Kept, TaskRecords
    <2> QED BY <2>2, OnePlace
  <1>7. ASSUME NEW p \in Projects, SetPaused(p) PROVE QueueInv'
    BY <1>7, NoPlace DEF SetPaused
  <1> QED BY <1>1, <1>2, <1>3, <1>4, <1>5, <1>6, <1>7

\* The steps of a launching thread, of an acceptance loop, and its cancellation.
LEMMA LoopOrder ==
    ASSUME QueueInv, TypeOK'
    PROVE  /\ \A l \in launch : LaunchAcquire(l) \/ LaunchControl(l) => QueueInv'
           /\ \A t \in Tasks : LoopStep(t) \/ CancelLoop(t) => QueueInv'
  <1> USE DEF QueueInv, TypeOK, TaskType
  <1>1. ASSUME NEW l \in launch, LaunchAcquire(l) \/ LaunchControl(l) PROVE QueueInv'
    <2>1. CASE LaunchAcquire(l) /\ BlockTask(l.task, control[l.task].pc)
      <3>1. l.task \in Tasks
        BY <2>1 DEF LaunchAcquire, ThreadType, Launches
      <3> QED BY <2>1, <3>1, BlockPlaces
    <2>2. CASE ~(LaunchAcquire(l) /\ BlockTask(l.task, control[l.task].pc))
      BY <1>1, <2>2, NoPlace DEF LaunchAcquire, LaunchControl
    <2> QED BY <2>1, <2>2
  <1>2. ASSUME NEW t \in Tasks, LoopStep(t) \/ CancelLoop(t) PROVE QueueInv'
    <2>1. CASE task' = task
      BY <2>1, NoPlace
    <2>2. CASE Preflight(t)
      <3> DEFINE c == control[t]
      <3>1. PICK new \in Agents :
              task' = [task EXCEPT ![t].assigned = IF c.ordinal > 1 /\ ~task[t].queued THEN new ELSE @,
                                   ![t].worker   = IF c.vonly THEN @ ELSE new,
                                   ![t].cond     = IF c.vonly THEN "Running" ELSE "Queued"]
        BY <2>2 DEF Preflight
      <3>2. Kept(task[t], task'[t]) /\ \A u \in Tasks \ {t} : task'[u] = task[u]
        BY <3>1 DEF Kept, TaskRecords
      <3> QED BY <3>2, OnePlace
    <2>3. ASSUME task' = [task EXCEPT ![t].cond = "Running"] PROVE QueueInv'
      <3>1. Kept(task[t], task'[t]) /\ \A u \in Tasks \ {t} : task'[u] = task[u]
        BY <2>3 DEF Kept, TaskRecords
      <3> QED BY <3>1, OnePlace
    <2>4. CASE RegisterWorker(t) \/ WorkerExited(t)
      BY <2>1, <2>3, <2>4 DEF RegisterWorker, WorkerExited
    <2>5. CASE StopWorker(t)
      BY <2>1, <2>5, BroadcastPlaces DEF StopWorker, StopEffect
    <2>6. ASSUME Judge(t), task' # task PROVE QueueInv'
      <3>1. PICK x : task' = [task EXCEPT ![t].sub = ws, ![t].state = "InReview", ![t].cond = "Idle", ![t].assigned = x]
        BY <2>6 DEF Judge
      <3>2. Kept(task[t], task'[t]) /\ \A u \in Tasks \ {t} : task'[u] = task[u]
        BY <3>1 DEF Kept, TaskRecords
      <3> QED BY <3>2, OnePlace
    <2>7. CASE BlockLoop(t)
      BY <2>7, BlockPlaces DEF BlockLoop
    <2>8. ASSUME AdmitWorker(t) \/ SpawnWorker(t) \/ LaunchFails(t) \/ StartValidator(t)
                 \/ ValidatorEnds(t) \/ LoopError(t) \/ EndLoop(t) \/ CancelLoop(t)
          PROVE  task' = task
      BY <2>8 DEF AdmitWorker, SpawnWorker, LaunchFails, StartValidator, ValidatorEnds, LoopError, EndLoop, CancelLoop
    <2> QED BY <1>2, <2>1, <2>2, <2>4, <2>5, <2>6, <2>7, <2>8 DEF LoopStep
  <1> QED BY <1>1, <1>2

\* The review requests, the requests on cards, and a restart.
LEMMA CardOrder ==
    ASSUME QueueInv, TypeOK'
    PROVE  /\ \A t \in Tasks, op \in ReviewOps : BeginReview(t, op) => QueueInv'
           /\ \A r \in review : ReviewStep(r) => QueueInv'
           /\ \A t \in Tasks, action \in CardActions : CardTransition(t, action) => QueueInv'
           /\ \A t \in Tasks, a \in Agents : Start(t, a) => QueueInv'
           /\ CrashRestart => QueueInv'
  <1> USE DEF QueueInv, TypeOK, TaskType
  <1>1. ASSUME NEW t \in Tasks, NEW op \in ReviewOps, BeginReview(t, op) PROVE QueueInv'
    BY <1>1, NoPlace DEF BeginReview
  <1>2. ASSUME NEW r \in review PROVE r.task \in Tasks
    BY DEF ThreadType, Reviews
  <1>3. ASSUME NEW t \in Tasks, NEW action PROVE /\ Transition(task[t], action) \in TaskRecords
                                                /\ Kept(task[t], Transition(task[t], action))
    BY CardPlaces, TransitionType
  <1>4. ASSUME NEW r \in review, CommitAccept(r) \/ CommitRelease(r) PROVE QueueInv'
    <2>1. CASE task' = task
      BY <2>1, NoPlace
    <2>2. CASE task' = [task EXCEPT ![r.task] = Transition(task[r.task], "Accept")]
      <3>1. Kept(task[r.task], task'[r.task]) /\ \A u \in Tasks \ {r.task} : task'[u] = task[u]
        BY <1>2, <1>3, <2>2
      <3> QED BY <1>2, <3>1, OnePlace
    <2> QED BY <1>4, <2>1, <2>2 DEF CommitAccept, CommitRelease
  <1>5. ASSUME NEW old, NEW tk \in TaskRecords, Kept(old, tk), NEW s
        PROVE  /\ \A c : Kept(old, [tk EXCEPT !.assigned = s, !.cond = c])
               /\ \A c, b : Kept(old, [tk EXCEPT !.assigned = s, !.cond = c, !.sub = b])
    BY <1>5 DEF Kept, TaskRecords
  <1>6. ASSUME NEW r \in review, NEW a \in Agents, CommitLaunch(r, a) PROVE QueueInv'
    <2> DEFINE old == task[r.task]
               changed == Transition(old, "RequestChanges")
    <2>1. old \in TaskRecords /\ Kept(old, old) /\ changed \in TaskRecords /\ Kept(old, changed)
      BY <1>2, <1>3 DEF Kept
    <2>2. PICK tk \in {[old EXCEPT !.assigned = a, !.cond = "Queued"],
                       [changed EXCEPT !.assigned = a, !.cond = "Queued", !.sub = None]} :
            task' = [task EXCEPT ![r.task] = tk]
      BY <1>2, <1>6 DEF CommitLaunch
    <2> HIDE DEF old, changed
    <2>3. Kept(old, tk)
      <3>1. Kept(old, [old EXCEPT !.assigned = a, !.cond = "Queued"])
        BY <1>5, <2>1
      <3>2. Kept(old, [changed EXCEPT !.assigned = a, !.cond = "Queued", !.sub = None])
        BY <1>5, <2>1
      <3> QED BY <2>2, <3>1, <3>2
    <2>4. Kept(task[r.task], task'[r.task]) /\ \A u \in Tasks \ {r.task} : task'[u] = task[u]
      BY <1>2, <2>2, <2>3 DEF old
    <2> QED BY <1>2, <2>4, OnePlace
  <1>7. ASSUME NEW t \in Tasks, NEW action \in CardActions, CardTransition(t, action) PROVE QueueInv'
    <2> DEFINE next == Transition(task[t], action)
    <2>1. next \in TaskRecords /\ Kept(task[t], next)
      BY <1>3
    <2>2. \/ \E s : task' = [task EXCEPT ![t] = [Unqueued(next) EXCEPT !.cont = s, !.assigned = s, !.cond = "Idle"]]
          \/ task' = [task EXCEPT ![t] = [Unqueued(next) EXCEPT !.cond = "Idle"]]
          \/ task' = [task EXCEPT ![t] = next]
      <3>1. CASE task[t].queued /\ Column(next) = "Todo"
        BY <1>7, <3>1 DEF CardTransition
      <3>2. CASE ~(task[t].queued /\ Column(next) = "Todo") /\ WaitingInQueue(task[t]) /\ Column(next) # "InProgress"
        BY <1>7, <3>2 DEF CardTransition
      <3>3. CASE /\ ~(task[t].queued /\ Column(next) = "Todo")
                 /\ ~(WaitingInQueue(task[t]) /\ Column(next) # "InProgress")
        BY <1>7, <3>3 DEF CardTransition
      <3> QED BY <3>1, <3>2, <3>3
    <2> HIDE DEF next
    <2>3. /\ \A s : Kept(task[t], [Unqueued(next) EXCEPT !.cont = s, !.assigned = s, !.cond = "Idle"])
          /\ Kept(task[t], [Unqueued(next) EXCEPT !.cond = "Idle"])
      BY <2>1 DEF Kept, Unqueued, TaskRecords
    <2>4. Kept(task[t], task'[t]) /\ \A u \in Tasks \ {t} : task'[u] = task[u]
      BY <2>1, <2>2, <2>3
    <2> QED BY <2>4, OnePlace
  <1>8. ASSUME NEW t \in Tasks, NEW a \in Agents, Start(t, a) PROVE QueueInv'
    <2> DEFINE next == Transition(task[t], "Start")
    <2>1. next \in TaskRecords /\ Kept(task[t], next)
      BY <1>3
    <2>2. task' = [task EXCEPT ![t] = [next EXCEPT !.assigned = a, !.cond = "Queued"]]
      BY <1>8 DEF Start
    <2> HIDE DEF next
    <2>3. Kept(task[t], [next EXCEPT !.assigned = a, !.cond = "Queued"])
      BY <1>5, <2>1
    <2>4. Kept(task[t], task'[t]) /\ \A u \in Tasks \ {t} : task'[u] = task[u]
      BY <2>2, <2>3
    <2> QED BY <2>4, OnePlace
  <1>9. ASSUME CrashRestart PROVE QueueInv'
    <2>1. PlacesKept
      BY <1>9, CardPlaces DEF CrashRestart, PlacesKept
    <2> QED BY <2>1, KeptOrder
  <1> QED BY <1>1, <1>4, <1>6, <1>7, <1>8, <1>9 DEF ReviewStep

-----------------------------------------------------------------------------
\* The order of a project's queue is total whatever users, loops and restarts do, so
\* that claim_board_task has one head to look at: tasks enter behind every queued
\* task, whatever its column, and ReorderQueue numbers the waiting ones anew behind
\* those that are not waiting any more, without a collision.
THEOREM QueueIsTotallyOrdered == Spec => []DistinctPositions
  <1>1. Init => QueueInv
    <2>1. Init => DistinctPositions
      BY DEF Init, NewTask, DistinctPositions
    <2> QED BY <2>1, InitType DEF QueueInv
  <1>2. ASSUME QueueInv, [Next]_vars PROVE QueueInv'
    <2>0. TypeOK'
      BY <1>2, NextType, StutterType DEF QueueInv
    <2>1. CASE UserStep
      BY <1>2, <2>0, <2>1, RuntimeOrder, QueueOrder, LoopOrder, CardOrder DEF UserStep, StopAgent, StopCancelled
    <2>2. CASE QueueStep
      BY <1>2, <2>0, <2>2, RuntimeOrder, QueueOrder DEF QueueStep
    <2>3. ASSUME NEW l \in launch, LaunchStep(l) PROVE QueueInv'
      BY <1>2, <2>0, <2>3, RuntimeOrder, LoopOrder DEF LaunchStep
    <2>4. ASSUME NEW t \in Tasks, LoopStep(t) PROVE QueueInv'
      BY <1>2, <2>0, <2>4, LoopOrder
    <2>5. ASSUME NEW r \in review, ReviewStep(r) PROVE QueueInv'
      BY <1>2, <2>0, <2>5, CardOrder
    <2>6. ASSUME NEW a \in Agents, TurnCompletes(a) \/ FinishAgent(a) \/ GroupExits(a) PROVE QueueInv'
      BY <1>2, <2>0, <2>6, RuntimeOrder
    <2>7. CASE EditWorkspace \/ CrashRestart
      BY <1>2, <2>0, <2>7, RuntimeOrder, CardOrder
    <2>8. CASE UNCHANGED vars
      BY <1>2, <2>0, <2>8, NoPlace DEF vars
    <2> QED BY <1>2, <2>1, <2>2, <2>3, <2>4, <2>5, <2>6, <2>7, <2>8 DEF Next
  <1>3. QueueInv => DistinctPositions
    BY DEF QueueInv
  <1> QED BY <1>1, <1>2, <1>3, PTL DEF Spec

-----------------------------------------------------------------------------
(* Claims on agents. *)

\* Operations under which no launch outlives its task and no agent has two.  A stop that
\* reaches an agent between its admission and its spawn, whether it is Stop or the late
\* half of CancelLoop, leaves a launch behind (stop_agent without a child).
\* Where users select agents and also validate again, a worker that was selected for a
\* second task can be restored to the first one.
QuietOps == "stop_launch" \notin Ops /\ ("select" \notin Ops \/ "Revalidate" \notin Ops)

\* The conversations a card refers to.
Kin(tk) == {tk.assigned, tk.qagent, tk.cont} \cup (IF "select" \in Ops THEN {} ELSE {tk.worker})

\* The task has a claim on the agent.
Holds(t, a) == a \in Kin(task[t]) \/ control[t].owner = a

\* No two tasks have a claim on one agent, and its conversation is linked to the task.
KinInv ==
    /\ \A a \in Agents, t, u \in Tasks : Holds(t, a) /\ Holds(u, a) => t = u
    /\ \A a \in Agents, t \in Tasks : Holds(t, a) /\ HasRecord(a) => agent[a].link = t

\* A thread that launches or prompts works with an agent that nobody else uses: its
\* reservation is the thread's own.
LaunchHeld(l) ==
    /\ child[l.agent] = "none" /\ l.agent \notin orphan
    /\ \A u \in Tasks : control[u].owner # l.agent
    /\ l.vonly => "select" \notin Ops
    /\ ~l.reuse
    /\ l.stage = "acquired" => lease[l.agent] = "reserved"
    /\ IF l.task = None
       THEN l.stage # "claimed" /\ (l.stage = "spawned" => lease[l.agent] = "worker")
       ELSE /\ l.stage # "spawned"
            /\ l.stage = "claimed" => lease[l.agent] = "none"
            /\ task[l.task].cond = "Queued"
            /\ task[l.task].assigned = l.agent
            /\ task[l.task].state \in {"Running", "InReview"}
            /\ ~HasLoop(l.task)

\* The stages of a loop in which its owner has no process and in which it has a worker
\* or a validator.
Quiet   == {"preflight", "launch", "launching", "validating"}
Worker  == {"spawned", "working"}
Checker == {"checking", "checked"}

\* A loop holds the reservation of its owner in the form its stage needs.
LoopHeld(t) ==
    LET c == control[t]
        a == c.owner
    IN  IF c.pc = "none" THEN a = None
        ELSE /\ a \notin orphan
             /\ lease[a] # "none"
             /\ c.vonly => "select" \notin Ops
             /\ c.pc \in Quiet => lease[a] = "reserved"
             /\ c.pc \in Worker => lease[a] = "worker"
             /\ c.pc \in Checker => lease[a] = "validator"
             /\ c.pc \in Quiet \cup Checker \cup {"spawned"} => child[a] = "none"
             /\ c.pc \in {"launching", "spawned"} => c.reuse
             /\ c.pc = "checked" => a \notin group
             /\ task[t].state \in {"Running", "InReview"}
             /\ IF c.pc = "ending"
                THEN /\ task[t].cond \notin ActiveConditions
                     /\ task[t].state = "InReview" \/ task[t].assigned \in {None, a}
                ELSE task[t].cond \in ActiveConditions /\ task[t].assigned = a

\* A review request is in flight only while nothing executes its task.
ReviewIdle(r) ==
    /\ task[r.task].state \in {"Running", "InReview"}
    /\ ~HasLoop(r.task)
    /\ \A l \in launch : l.task # r.task
    /\ WaitingInQueue(task[r.task]) \/ task[r.task].cond \notin ActiveConditions
    /\ r.op \in Ops

\* Only a task that was started is shown as executing.
ActiveStarted(t) == task[t].cond \in ActiveConditions => task[t].state \in {"Running", "InReview"}

\* A reservation names the process group, or no group exists.
Covered(a) == a \in group \cup orphan => lease[a] \in {"worker", "validator"}

ThreadInv ==
    /\ \A l, m \in launch : l.agent = m.agent => l = m
    /\ \A l \in launch : LaunchHeld(l)
    /\ \A t \in Tasks : LoopHeld(t)
    /\ \A r \in review : ReviewIdle(r)
    /\ \A t \in Tasks : ActiveStarted(t)
    /\ \A a \in Agents : Covered(a)

\* The inductive invariant.
ExecInv == QuietOps /\ EvidenceInv /\ KinInv /\ ThreadInv

-----------------------------------------------------------------------------
\* What threads see of an agent, of a loop and of a card.
AgentKept(a)   == /\ child'[a] = child[a] /\ lease'[a] = lease[a]
                  /\ a \in orphan' => a \in orphan
                  /\ a \in group' => a \in group
ControlKept(t) == /\ control'[t].pc = control[t].pc /\ control'[t].owner = control[t].owner
                  /\ control'[t].vonly = control[t].vonly /\ control'[t].reuse = control[t].reuse
CardKept(t)    == /\ task'[t].cond = task[t].cond /\ task'[t].assigned = task[t].assigned
                  /\ task'[t].state = task[t].state /\ task'[t].queued = task[t].queued
                  /\ task'[t].archived = task[t].archived

\* A step that touches the agents As and the tasks Ts only: what is left to show is
\* about them.
LEMMA Frame ==
    ASSUME ExecInv, TypeOK', NEW As \in SUBSET Agents, NEW Ts \in SUBSET Tasks,
           \A a \in Agents \ As : AgentKept(a),
           \A t \in Tasks \ Ts : ControlKept(t) /\ CardKept(t),
           \A t \in Ts : control'[t].owner \in As \cup {None, control[t].owner},
           \A l, m \in launch' : l.agent = m.agent => l = m,
           \A l \in launch' : LaunchHeld(l)' \/ (l \in launch /\ l.agent \notin As /\ l.task \notin Ts),
           \A t \in Ts : LoopHeld(t)' /\ ActiveStarted(t)',
           \A t \in Tasks \ Ts : control[t].owner \notin As \/ LoopHeld(t)',
           \A r \in review' : ReviewIdle(r)' \/
               (r \in review /\ r.task \notin Ts /\ \A l \in launch' : l \in launch \/ l.task # r.task),
           \A a \in As : Covered(a)'
    PROVE  ThreadInv'
  <1>1. ASSUME NEW l \in launch' PROVE LaunchHeld(l)'
    <2>1. CASE l \in launch /\ l.agent \notin As /\ l.task \notin Ts
      <3>1. LaunchHeld(l) /\ l.agent \in Agents /\ l.task \in Tasks \cup {None}
        BY <2>1 DEF ExecInv, ThreadInv, EvidenceInv, TypeOK, ThreadType, Launches
      <3>2. AgentKept(l.agent)
        BY <2>1, <3>1
      <3>3. l.task # None => ControlKept(l.task) /\ CardKept(l.task)
        BY <2>1, <3>1
      <3>4. ASSUME NEW u \in Tasks PROVE control'[u].owner # l.agent
        <4>1. CASE u \in Ts
          BY <2>1, <3>1, <4>1, NoneAssumption DEF LaunchHeld
        <4>2. CASE u \notin Ts
          BY <3>1, <4>2 DEF LaunchHeld, ControlKept
        <4> QED BY <4>1, <4>2
      <3> QED BY <3>1, <3>2, <3>3, <3>4 DEF LaunchHeld, AgentKept, ControlKept, CardKept, HasLoop
    <2> QED BY <2>1
  <1>2. ASSUME NEW t \in Tasks PROVE LoopHeld(t)'
    <2>1. CASE t \notin Ts /\ control[t].owner \notin As
      <3>1. LoopHeld(t) /\ ControlKept(t) /\ CardKept(t)
        BY <2>1 DEF ExecInv, ThreadInv
      <3>2. control[t].pc # "none" => control[t].owner \in Agents
        BY DEF ExecInv, EvidenceInv, TypeOK, ThreadType, LoopType, HasLoop
      <3>3. control[t].pc # "none" => AgentKept(control[t].owner)
        BY <2>1, <3>2
      <3> QED BY <3>1, <3>3 DEF LoopHeld, ControlKept, CardKept, AgentKept
    <2> QED BY <2>1
  <1>3. ASSUME NEW r \in review' PROVE ReviewIdle(r)'
    <2>1. CASE r \in review /\ r.task \notin Ts /\ \A l \in launch' : l \in launch \/ l.task # r.task
      <3>1. ReviewIdle(r) /\ r.task \in Tasks
        BY <2>1 DEF ExecInv, ThreadInv, EvidenceInv, TypeOK, ThreadType, Reviews
      <3>2. ControlKept(r.task) /\ CardKept(r.task)
        BY <2>1, <3>1
      <3>3. WaitingInQueue(task[r.task]) => WaitingInQueue(task'[r.task])
        BY <3>2 DEF CardKept, WaitingInQueue, Column
      <3> QED BY <2>1, <3>1, <3>2, <3>3 DEF ReviewIdle, ControlKept, CardKept, HasLoop
    <2> QED BY <2>1
  <1>4. ASSUME NEW t \in Tasks PROVE ActiveStarted(t)'
    BY DEF ExecInv, ThreadInv, ActiveStarted, CardKept
  <1>5. ASSUME NEW a \in Agents PROVE Covered(a)'
    BY DEF ExecInv, ThreadInv, Covered, AgentKept
  <1> QED BY <1>1, <1>2, <1>3, <1>4, <1>5 DEF ThreadInv

\* A step that leaves agents, loops and cards as the threads see them and starts nothing.
LEMMA ThreadsKept ==
    ASSUME ExecInv, TypeOK', \A a \in Agents : AgentKept(a), \A t \in Tasks : ControlKept(t) /\ CardKept(t),
           launch' = launch, review' \subseteq review
    PROVE  ThreadInv'
  <1> DEFINE As == {}
             Ts == {}
  <1>1. /\ As \in SUBSET Agents /\ Ts \in SUBSET Tasks
        /\ \A a \in Agents \ As : AgentKept(a)
        /\ \A u \in Tasks \ Ts : ControlKept(u) /\ CardKept(u)
        /\ \A u \in Ts : control'[u].owner \in As \cup {None, control[u].owner}
        /\ \A k, m \in launch' : k.agent = m.agent => k = m
        /\ \A m \in launch' : LaunchHeld(m)' \/ (m \in launch /\ m.agent \notin As /\ m.task \notin Ts)
        /\ \A u \in Ts : LoopHeld(u)' /\ ActiveStarted(u)'
        /\ \A u \in Tasks \ Ts : control[u].owner \notin As \/ LoopHeld(u)'
        /\ \A r \in review' : ReviewIdle(r)' \/
               (r \in review /\ r.task \notin Ts /\ \A m \in launch' : m \in launch \/ m.task # r.task)
        /\ \A a \in As : Covered(a)'
    BY DEF ExecInv, ThreadInv, AgentKept, ControlKept, CardKept
  <1> HIDE DEF As, Ts
  <1> QED BY <1>1, Frame

\* Nothing executes a task that is not live.  task_live.
LEMMA NotLive ==
    ASSUME ExecInv, NEW t \in Tasks, ~TaskLive(t)
    PROVE  /\ ~HasLoop(t)
           /\ \A l \in launch : l.task # t
           /\ WaitingInQueue(task[t]) \/ task[t].cond \notin ActiveConditions
  <1>1. HasLoop(t) => ~WaitingInQueue(task[t])
    BY NoneAssumption DEF ExecInv, ThreadInv, EvidenceInv, TypeOK, ThreadType, LoopType, HasLoop, LoopHeld,
       WaitingInQueue, ActiveConditions
  <1>2. ASSUME NEW l \in launch, l.task = t PROVE ~WaitingInQueue(task[t]) /\ task[t].cond \in ActiveConditions
    <2>1. LaunchHeld(l) /\ l.agent \in Agents /\ l.task # None
      BY <1>2, BoardAssumption DEF ExecInv, ThreadInv, EvidenceInv, TypeOK, ThreadType, Launches
    <2> QED BY <1>2, <2>1, NoneAssumption DEF LaunchHeld, WaitingInQueue, ActiveConditions
  <1> QED BY <1>1, <1>2 DEF TaskLive

\* A request that changes the card of a task that nothing executes.
LEMMA CardStep ==
    ASSUME ExecInv, TypeOK', NEW t \in Tasks, ~HasLoop(t), \A l \in launch : l.task # t,
           \A u \in Tasks \ {t} : task'[u] = task[u], Touch({t}), ActiveStarted(t)',
           UNCHANGED <<child, lease, group, orphan, control, launch>>
    PROVE  ThreadInv'
  <1>1. LoopHeld(t)'
    BY DEF ExecInv, ThreadInv, LoopHeld, HasLoop
  <1> DEFINE As == {}
             Ts == {t}
  <1>2. /\ As \in SUBSET Agents /\ Ts \in SUBSET Tasks
        /\ \A a \in Agents \ As : AgentKept(a)
        /\ \A u \in Tasks \ Ts : ControlKept(u) /\ CardKept(u)
        /\ \A u \in Ts : control'[u].owner \in As \cup {None, control[u].owner}
        /\ \A k, m \in launch' : k.agent = m.agent => k = m
        /\ \A m \in launch' : LaunchHeld(m)' \/ (m \in launch /\ m.agent \notin As /\ m.task \notin Ts)
        /\ \A u \in Ts : LoopHeld(u)' /\ ActiveStarted(u)'
        /\ \A u \in Tasks \ Ts : control[u].owner \notin As \/ LoopHeld(u)'
        /\ \A r \in review' : ReviewIdle(r)' \/
               (r \in review /\ r.task \notin Ts /\ \A m \in launch' : m \in launch \/ m.task # r.task)
        /\ \A a \in As : Covered(a)'
    BY <1>1 DEF ExecInv, ThreadInv, AgentKept, ControlKept, CardKept, Touch
  <1> HIDE DEF As, Ts
  <1> QED BY <1>2, Frame

\* A thread starts to launch t with an agent that is free.
LEMMA NewLaunch ==
    ASSUME ExecInv, TypeOK', NEW t \in Tasks, NEW l, l.task = t, l.agent \in Agents, l.stage = "claimed", ~l.reuse,
           l.vonly => "select" \notin Ops,
           ~HasLoop(t), \A m \in launch : m.task # t /\ m.agent # l.agent,
           child[l.agent] = "none", lease[l.agent] = "none", \A u \in Tasks : control[u].owner # l.agent,
           launch' = launch \cup {l}, Touch({t}),
           task'[t].cond = "Queued", task'[t].assigned = l.agent, task'[t].state \in {"Running", "InReview"},
           \A u \in Tasks \ {t} : task'[u] = task[u],
           UNCHANGED <<child, lease, group, orphan, control>>
    PROVE  ThreadInv'
  <1>1. l.agent \notin orphan
    BY DEF ExecInv, ThreadInv, Covered
  <1>2. LaunchHeld(l)'
    BY <1>1, BoardAssumption DEF LaunchHeld, HasLoop
  <1>3. LoopHeld(t)' /\ ActiveStarted(t)'
    BY DEF ExecInv, ThreadInv, LoopHeld, HasLoop, ActiveStarted
  <1> DEFINE As == {}
             Ts == {t}
  <1>4. /\ As \in SUBSET Agents /\ Ts \in SUBSET Tasks
        /\ \A a \in Agents \ As : AgentKept(a)
        /\ \A u \in Tasks \ Ts : ControlKept(u) /\ CardKept(u)
        /\ \A u \in Ts : control'[u].owner \in As \cup {None, control[u].owner}
        /\ \A k, m \in launch' : k.agent = m.agent => k = m
        /\ \A m \in launch' : LaunchHeld(m)' \/ (m \in launch /\ m.agent \notin As /\ m.task \notin Ts)
        /\ \A u \in Ts : LoopHeld(u)' /\ ActiveStarted(u)'
        /\ \A u \in Tasks \ Ts : control[u].owner \notin As \/ LoopHeld(u)'
        /\ \A r \in review' : ReviewIdle(r)' \/
               (r \in review /\ r.task \notin Ts /\ \A m \in launch' : m \in launch \/ m.task # r.task)
        /\ \A a \in As : Covered(a)'
    BY <1>2, <1>3 DEF ExecInv, ThreadInv, AgentKept, ControlKept, CardKept, Touch
  <1> HIDE DEF As, Ts
  <1> QED BY <1>4, Frame

\* An identity nothing refers to.  AgentId::new.
LEMMA FreshFree ==
    ASSUME ExecInv, NEW a \in Agents, Fresh(a)
    PROVE  /\ \A t \in Tasks : ~Holds(t, a) /\ control[t].owner # a
           /\ ~HasRecord(a) /\ child[a] = "none" /\ lease[a] = "none" /\ a \notin group \cup orphan
           /\ \A l \in launch : l.agent # a
  BY NoneAssumption DEF Fresh, Holds, Kin, AcceptanceOwners, OwnersIn, HasRecord

-----------------------------------------------------------------------------
\* Claims stay unique when no task gets a new claim and records are linked to the task
\* that has one.
LEMMA ClaimsKept ==
    ASSUME KinInv, \A t \in Tasks, a \in Agents : Holds(t, a)' => Holds(t, a),
           \A a \in Agents : HasRecord(a)' => \/ HasRecord(a) /\ agent'[a].link = agent[a].link
                                              \/ \E t \in Tasks : Holds(t, a) /\ agent'[a].link = t
    PROVE  KinInv'
  BY DEF KinInv

\* They do when one task gets a claim on an identity nothing refers to.
LEMMA ClaimsFresh ==
    ASSUME KinInv, NEW a \in Agents, \A t \in Tasks : ~Holds(t, a), ~HasRecord(a), NEW t \in Tasks,
           \A u \in Tasks, b \in Agents : Holds(u, b)' => Holds(u, b) \/ (u = t /\ b = a),
           agent' = agent
    PROVE  KinInv'
  BY DEF KinInv, HasRecord

\* A step that changes neither claims nor records.
LEMMA ClaimsUnchanged ==
    ASSUME KinInv, \A t \in Tasks : Kin(task'[t]) \subseteq Kin(task[t]),
           \A t \in Tasks : control'[t].owner \in {None, control[t].owner},
           \A a \in Agents : HasRecord(a)' => HasRecord(a) /\ agent'[a].link = agent[a].link
    PROVE  KinInv'
  <1>1. \A t \in Tasks, a \in Agents : Holds(t, a)' => Holds(t, a)
    BY NoneAssumption DEF Holds, Kin
  <1> QED BY <1>1, ClaimsKept

-----------------------------------------------------------------------------
\* A step of the thread that owns t and the agents As.
LEMMA OwnerStep ==
    ASSUME ExecInv, TypeOK', NEW t \in Tasks, NEW As \in SUBSET Agents,
           \A a \in Agents \ As : AgentKept(a),
           \A u \in Tasks \ {t} : ControlKept(u) /\ CardKept(u) /\ control[u].owner \notin As,
           control'[t].owner \in As \cup {None, control[t].owner},
           launch' \subseteq launch, \A l \in launch' : l.task # t /\ l.agent \notin As,
           LoopHeld(t)', ActiveStarted(t)', \A a \in As : Covered(a)',
           \A r \in review' : r \in review /\ r.task # t
    PROVE  ThreadInv'
  <1> DEFINE Ts == {t}
  <1>1. /\ Ts \in SUBSET Tasks
        /\ \A u \in Tasks \ Ts : ControlKept(u) /\ CardKept(u)
        /\ \A u \in Ts : control'[u].owner \in As \cup {None, control[u].owner}
        /\ \A k, m \in launch' : k.agent = m.agent => k = m
        /\ \A m \in launch' : LaunchHeld(m)' \/ (m \in launch /\ m.agent \notin As /\ m.task \notin Ts)
        /\ \A u \in Ts : LoopHeld(u)' /\ ActiveStarted(u)'
        /\ \A u \in Tasks \ Ts : control[u].owner \notin As \/ LoopHeld(u)'
        /\ \A r \in review' : ReviewIdle(r)' \/
               (r \in review /\ r.task \notin Ts /\ \A m \in launch' : m \in launch \/ m.task # r.task)
    BY DEF ExecInv, ThreadInv
  <1> HIDE DEF Ts
  <1> QED BY <1>1, Frame

\* Nobody but its loop works for a task or with its owner.
LEMMA LoopAlone ==
    ASSUME ExecInv, NEW t \in Tasks, HasLoop(t)
    PROVE  /\ control[t].owner \in Agents /\ control[t].owner \in AcceptanceOwners
           /\ \A l \in launch : l.task # t /\ l.agent # control[t].owner
           /\ \A u \in Tasks \ {t} : control[u].owner # control[t].owner
           /\ \A r \in review : r.task # t
  <1>1. control[t].owner \in Agents /\ control[t].owner \in AcceptanceOwners
    BY NoneAssumption DEF ExecInv, EvidenceInv, TypeOK, ThreadType, LoopType, AcceptanceOwners, OwnersIn
  <1>2. \A l \in launch : l.task # t /\ l.agent # control[t].owner
    <2> SUFFICES ASSUME NEW l \in launch PROVE l.task # t /\ l.agent # control[t].owner
      OBVIOUS
    <2>1. LaunchHeld(l)
      BY DEF ExecInv, ThreadInv
    <2> QED BY <2>1, BoardAssumption DEF LaunchHeld
  <1>3. \A u \in Tasks \ {t} : control[u].owner # control[t].owner
    BY <1>1 DEF ExecInv, KinInv, Holds
  <1>4. \A r \in review : r.task # t
    BY DEF ExecInv, ThreadInv, ReviewIdle
  <1> QED BY <1>1, <1>2, <1>3, <1>4

\* A step of a loop that works with its owner.
LEMMA LoopFrame ==
    ASSUME ExecInv, TypeOK', NEW t \in Tasks, HasLoop(t), NEW a, a = control[t].owner,
           \A b \in Agents \ {a} : AgentKept(b),
           \A u \in Tasks \ {t} : control'[u] = control[u] /\ task'[u] = task[u],
           control'[t].owner \in {None, a},
           launch' = launch, review' \subseteq review,
           LoopHeld(t)', ActiveStarted(t)', Covered(a)'
    PROVE  ThreadInv'
  <1> DEFINE As == {a}
  <1>1. /\ As \in SUBSET Agents
        /\ \A b \in Agents \ As : AgentKept(b)
        /\ \A u \in Tasks \ {t} : ControlKept(u) /\ CardKept(u) /\ control[u].owner \notin As
        /\ control'[t].owner \in As \cup {None, control[t].owner}
        /\ launch' \subseteq launch /\ \A l \in launch' : l.task # t /\ l.agent \notin As
        /\ \A r \in review' : r \in review /\ r.task # t
    BY LoopAlone DEF ControlKept, CardKept
  <1>2. \A b \in As : Covered(b)'
    OBVIOUS
  <1> HIDE DEF As
  <1> QED BY <1>1, <1>2, OwnerStep

\* Giving up a reservation keeps every process group covered.  release_writer.
LEMMA ReleasedCovers ==
    ASSUME TypeOK, NEW a \in Agents, Covered(a), NEW owners, group' = group,
           lease' = Released(a, owners).lease, orphan' = Released(a, owners).orphan
    PROVE  /\ Covered(a)'
           /\ \A b \in Agents \ {a} : lease'[b] = lease[b] /\ (b \in orphan' <=> b \in orphan)
           /\ a \in owners => lease' = lease /\ orphan' = orphan
           /\ a \notin owners => \/ a \in orphan' /\ lease' = lease
                                 \/ a \notin orphan' /\ a \notin group /\ lease'[a] = "none"
  BY DEF Released, Covered, TypeOK, LeaseType

\* So does dropping a guard.  WriterGuard::drop.
LEMMA DroppedCovers ==
    ASSUME TypeOK, NEW a \in Agents, Covered(a), a \notin AcceptanceOwners, group' = group,
           lease' = Dropped(a).lease, orphan' = Dropped(a).orphan
    PROVE  /\ Covered(a)'
           /\ \A b \in Agents \ {a} : lease'[b] = lease[b] /\ (b \in orphan' <=> b \in orphan)
  BY ReleasedCovers DEF Dropped, Covered

\* broadcast(AgentChanged) for the owner of a loop only stores the agent and its child:
\* the loop keeps the reservation and settles the task.
LEMMA OwnerBroadcast ==
    ASSUME TypeOK, NEW a \in AcceptanceOwners, NEW ag, NEW ch, BroadcastAgent(a, ag, ch)
    PROVE  agent' = ag /\ child' = ch /\ lease' = lease /\ orphan' = orphan /\ task' = task /\ review' = review
  <1>1. Released(a, AcceptanceOwners) = [lease |-> lease, orphan |-> orphan]
    BY DEF Released
  <1>2. lease' = lease /\ orphan' = orphan
    BY <1>1 DEF BroadcastAgent
  <1>3. task' = task
    BY DEF BroadcastAgent, SyncedTasks, TypeOK, TaskType
  <1>4. review' = review
    BY <1>3 DEF BroadcastAgent, Touch
  <1> QED BY <1>2, <1>3, <1>4 DEF BroadcastAgent

\* The admission of a worker by the loop that holds its reservation.
LEMMA OwnerAdmission ==
    ASSUME NEW a \in AcceptanceOwners, NEW p, lease[a] # "none", child[a] = "none"
    PROVE  Admission(a, p, FALSE) \in {"reject", "reuse"}
  BY DEF Admission

-----------------------------------------------------------------------------
\* The steps of an acceptance loop keep the threads sound.
LEMMA LoopThreads ==
    ASSUME ExecInv, TypeOK', NEW t \in Tasks, LoopStep(t) \/ CancelLoop(t)
    PROVE  ThreadInv'
  <1>0. HasLoop(t)
    BY DEF LoopStep, CancelLoop, HasLoop, Preflight, AdmitWorker, SpawnWorker, LaunchFails, RegisterWorker,
           StopWorker, WorkerExited, StartValidator, ValidatorEnds, Judge, LoopError, BlockLoop, EndLoop
  <1>1. PICK a \in Agents : a = control[t].owner
    BY <1>0, LoopAlone
  <1>2. /\ TypeOK /\ task \in [Tasks -> TaskRecords] /\ control \in [Tasks -> Loops]
        /\ lease \in [Agents -> LeaseStates] /\ child \in [Agents -> ChildStates]
        /\ LoopHeld(t) /\ ActiveStarted(t) /\ Covered(a) /\ a \in AcceptanceOwners
    BY <1>0, <1>1, LoopAlone DEF ExecInv, ThreadInv, EvidenceInv, TypeOK, TaskType, AgentType, LeaseType, ThreadType, LoopType
  <1> DEFINE Rest == /\ \A u \in Tasks \ {t} : control'[u] = control[u] /\ task'[u] = task[u]
                     /\ \A b \in Agents \ {a} : AgentKept(b)
                     /\ launch' = launch /\ review' \subseteq review
                     /\ control'[t].owner \in {None, a}
  <1>3. ASSUME Rest, LoopHeld(t)', ActiveStarted(t)', Covered(a)' PROVE ThreadInv'
    BY <1>0, <1>1, <1>3, LoopFrame
  <1>4. ASSUME UNCHANGED <<task, child, lease, group, orphan, launch>>, Goto(t, "failed"), review' \subseteq review,
               control[t].pc # "ending"
        PROVE  ThreadInv'
    <2>1. Rest
      BY <1>1, <1>2, <1>4 DEF Goto, AgentKept
    <2>2. LoopHeld(t)' /\ ActiveStarted(t)' /\ Covered(a)'
      BY <1>0, <1>1, <1>2, <1>4 DEF Goto, LoopHeld, ActiveStarted, Covered, HasLoop, Quiet, Worker, Checker, Loops
    <2> QED BY <1>3, <2>1, <2>2
  <1>5. CASE AdmitWorker(t)
    <2> DEFINE verdict == Admission(a, ProjectOf[t], FALSE)
    <2>1. lease[a] = "reserved" /\ child[a] = "none" /\ control[t].pc = "launch"
      BY <1>1, <1>2, <1>5 DEF AdmitWorker, LoopHeld, Quiet
    <2>2. verdict \in {"reject", "reuse"}
      BY <1>2, <2>1, OwnerAdmission
    <2>3. /\ control' = [control EXCEPT ![t].pc    = IF verdict = "reject" THEN "failed" ELSE "launching",
                                        ![t].reuse = verdict = "reuse"]
          /\ lease' = IF verdict = "grant" THEN [lease EXCEPT ![a] = "reserved"] ELSE lease
      BY <1>1, <1>5 DEF AdmitWorker
    <2>4. UNCHANGED <<task, child, group, orphan, launch, review>>
      BY <1>5 DEF AdmitWorker
    <2> HIDE DEF verdict
    <2>5. PICK re \in BOOLEAN : /\ control' = [control EXCEPT ![t].pc = IF re THEN "launching" ELSE "failed", ![t].reuse = re]
                                /\ lease' = lease
      <3>1. CASE verdict = "reject"
        BY <2>3, <3>1
      <3>2. CASE verdict = "reuse"
        BY <2>3, <3>2
      <3> QED BY <2>2, <3>1, <3>2
    <2>6. Rest
      BY <1>1, <1>2, <2>4, <2>5 DEF AgentKept, Loops
    <2>7. LoopHeld(t)' /\ ActiveStarted(t)' /\ Covered(a)'
      BY <1>1, <1>2, <2>1, <2>4, <2>5 DEF LoopHeld, ActiveStarted, Covered, Quiet, Worker, Checker, Loops
    <2> QED BY <1>3, <2>6, <2>7
  <1>6. ASSUME NEW kind \in {"worker", "validator"}, NEW pc, RecordGroup(a, kind), Goto(t, pc), group' = group \cup {a},
               control[t].pc \in Quiet, pc = IF kind = "worker" THEN "spawned" ELSE "checking",
               kind = "worker" => control[t].reuse,
               UNCHANGED <<task, child, orphan, launch, review>>
        PROVE  ThreadInv'
    <2>1. control' = [control EXCEPT ![t].pc = pc] /\ lease[a] = "reserved" /\ lease' = [lease EXCEPT ![a] = kind]
      BY <1>1, <1>2, <1>6 DEF RecordGroup, Goto, LoopHeld, Quiet
    <2>2. Rest
      BY <1>1, <1>2, <1>6, <2>1 DEF AgentKept, Loops
    <2>3. LoopHeld(t)' /\ ActiveStarted(t)' /\ Covered(a)'
      BY <1>1, <1>2, <1>6, <2>1 DEF LoopHeld, ActiveStarted, Covered, Quiet, Worker, Checker, Loops
    <2> QED BY <1>3, <2>2, <2>3
  <1>18. CASE SpawnWorker(t) \/ StartValidator(t)
    BY <1>1, <1>2, <1>6, <1>18 DEF SpawnWorker, StartValidator, Quiet, LoopHeld
  <1>7. CASE LaunchFails(t)
    <2>1. control[t].reuse
      BY <1>2, <1>7 DEF LaunchFails, LoopHeld
    <2>2. lease' = lease /\ orphan' = orphan
      BY <1>7, <2>1 DEF LaunchFails
    <2> QED BY <1>4, <1>7, <2>2 DEF LaunchFails
  <1>8. CASE RegisterWorker(t)
    <2>1. Rest
      BY <1>1, <1>2, <1>8 DEF RegisterWorker, Goto, AgentKept, Loops, Touch
    <2>2. LoopHeld(t)' /\ ActiveStarted(t)' /\ Covered(a)'
      BY <1>1, <1>2, <1>8, SMTT(60) DEF RegisterWorker, Goto, LoopHeld, ActiveStarted, Covered, ActiveConditions,
                              Quiet, Worker, Checker, Loops, TaskRecords
    <2> QED BY <1>3, <2>1, <2>2
  <1>9. CASE StopWorker(t)
    <2>1. child' = child /\ lease' = lease /\ orphan' = orphan /\ task' = task /\ review' = review
      BY <1>1, <1>2, <1>9, OwnerBroadcast DEF StopWorker, StopEffect
    <2>2. Rest
      BY <1>1, <1>2, <1>9, <2>1 DEF StopWorker, AgentKept, Loops
    <2>3. LoopHeld(t)' /\ ActiveStarted(t)' /\ Covered(a)'
      BY <1>1, <1>2, <1>9, <2>1 DEF StopWorker, LoopHeld, ActiveStarted, Covered, Quiet, Worker, Checker, Loops
    <2> QED BY <1>3, <2>2, <2>3
  <1>10. CASE WorkerExited(t)
    <2>1. Rest
      BY <1>1, <1>2, <1>10 DEF WorkerExited, Goto, AgentKept, Loops, Touch
    <2>2. LoopHeld(t)' /\ ActiveStarted(t)' /\ Covered(a)'
      BY <1>1, <1>2, <1>10 DEF WorkerExited, Goto, LoopHeld, ActiveStarted, Covered, ActiveConditions,
                              Quiet, Worker, Checker, Loops, TaskRecords
    <2> QED BY <1>3, <2>1, <2>2
  <1>11. CASE ValidatorEnds(t)
    <2>1. Rest
      BY <1>1, <1>2, <1>11 DEF ValidatorEnds, Goto, AgentKept, Loops
    <2>2. LoopHeld(t)' /\ ActiveStarted(t)' /\ Covered(a)'
      BY <1>1, <1>2, <1>11 DEF ValidatorEnds, Goto, LoopHeld, ActiveStarted, Covered, Quiet, Worker, Checker, Loops
    <2> QED BY <1>3, <2>1, <2>2
  <1>12. CASE Judge(t)
    <2>1. Rest
      BY <1>1, <1>2, <1>12 DEF Judge, AgentKept, Loops, Touch
    <2>2. LoopHeld(t)' /\ ActiveStarted(t)' /\ Covered(a)'
      BY <1>1, <1>2, <1>12 DEF Judge, LoopHeld, ActiveStarted, Covered, ActiveConditions,
                              Quiet, Worker, Checker, Loops, TaskRecords
    <2> QED BY <1>3, <2>1, <2>2
  <1>13. CASE LoopError(t)
    BY <1>4, <1>13 DEF LoopError
  <1>14. CASE BlockLoop(t)
    <2>1. Rest
      BY <1>1, <1>2, <1>14 DEF BlockLoop, BlockTask, AgentKept, Loops, Touch
    <2>2. LoopHeld(t)' /\ ActiveStarted(t)' /\ Covered(a)'
      BY <1>1, <1>2, <1>14 DEF BlockLoop, BlockTask, BlockedTask, LoopHeld, ActiveStarted, Covered, ActiveConditions,
                              Quiet, Worker, Checker, Loops, TaskRecords
    <2> QED BY <1>3, <2>1, <2>2
  <1>15. CASE EndLoop(t)
    <2> DEFINE gone == [control EXCEPT ![t] = NoLoop]
    <2>1. /\ control' = gone /\ lease' = Released(a, OwnersIn(gone)).lease
          /\ orphan' = Released(a, OwnersIn(gone)).orphan /\ group' = group
      BY <1>1, <1>15 DEF EndLoop
    <2>2. Covered(a)' /\ \A b \in Agents \ {a} : lease'[b] = lease[b] /\ (b \in orphan' <=> b \in orphan)
      BY <1>2, <2>1, ReleasedCovers
    <2>5. control'[t].owner = None /\ \A u \in Tasks \ {t} : control'[u] = control[u]
      BY <1>2, <2>1 DEF NoLoop
    <2>3. Rest
      <3> HIDE DEF gone
      <3> QED BY <1>15, <2>2, <2>5 DEF EndLoop, AgentKept
    <2>4. LoopHeld(t)' /\ ActiveStarted(t)'
      BY <1>2, <1>15, <2>1 DEF EndLoop, NoLoop, LoopHeld, ActiveStarted
    <2> QED BY <1>3, <2>2, <2>3, <2>4
  <1>16. CASE CancelLoop(t)
    <2>1. \A u \in Tasks : ControlKept(u) /\ CardKept(u)
      BY <1>2, <1>16 DEF CancelLoop, ControlKept, CardKept, Loops
    <2>2. \A b \in Agents : AgentKept(b)
      BY <1>16 DEF CancelLoop, AgentKept
    <2> QED BY <1>16, <2>1, <2>2, ThreadsKept DEF CancelLoop, Touch
  <1>17. CASE Preflight(t)
    <2> DEFINE c == control[t]
               moves == c.ordinal > 1 /\ ~task[t].queued
    <2>1. PICK new \in Agents :
            /\ IF moves THEN Fresh(new) /\ lease[a] # "none" ELSE new = a
            /\ lease' = IF moves THEN [lease EXCEPT ![new] = lease[a], ![a] = "none"] ELSE lease
            /\ task' = [task EXCEPT ![t].assigned = IF moves THEN new ELSE @,
                                    ![t].worker   = IF c.vonly THEN @ ELSE new,
                                    ![t].cond     = IF c.vonly THEN "Running" ELSE "Queued"]
            /\ control' = [control EXCEPT ![t] =
                 [c EXCEPT !.owner = new, !.att = TRUE, !.pc = IF c.vonly THEN "validating" ELSE "launch",
                           !.fp = IF c.vonly THEN ws ELSE None]]
      BY <1>1, <1>17 DEF Preflight
    <2>2. /\ c.pc = "preflight" /\ lease[a] = "reserved" /\ child[a] = "none" /\ a \notin group \cup orphan
          /\ task[t].assigned = a /\ task[t].state \in {"Running", "InReview"} /\ c.vonly \in BOOLEAN
          /\ c.vonly => "select" \notin Ops
      BY <1>1, <1>2, <1>17 DEF Preflight, LoopHeld, Quiet, Covered, Loops
    <2>3. /\ UNCHANGED <<child, group, orphan, launch>> /\ review' \subseteq review
      BY <1>17 DEF Preflight, Touch
    <2> HIDE DEF moves
    <2>4. /\ control'[t].owner = new /\ control'[t].pc = (IF c.vonly THEN "validating" ELSE "launch")
          /\ control'[t].vonly = c.vonly
          /\ \A u \in Tasks \ {t} : control'[u] = control[u] /\ task'[u] = task[u]
          /\ task'[t].assigned = new /\ task'[t].cond \in ActiveConditions /\ task'[t].state = task[t].state
      BY <1>2, <2>1, <2>2 DEF Loops, TaskRecords, ActiveConditions
    <2>5. CASE moves
      <3>1. /\ \A u \in Tasks : control[u].owner # new
            /\ new # a /\ child[new] = "none" /\ new \notin group \cup orphan /\ \A l \in launch : l.agent # new
        BY <1>2, <2>1, <2>2, <2>5, FreshFree
      <3>2. lease'[new] = "reserved" /\ lease'[a] = "none" /\ \A b \in Agents \ {a, new} : lease'[b] = lease[b]
        BY <1>2, <2>1, <2>2, <2>5, <3>1
      <3>3. LoopHeld(t)' /\ ActiveStarted(t)' /\ Covered(a)' /\ Covered(new)'
        BY <2>2, <2>3, <2>4, <3>1, <3>2 DEF LoopHeld, ActiveStarted, Covered, Quiet, Worker, Checker
      <3> DEFINE As == {a, new}
      <3>4. /\ As \in SUBSET Agents
            /\ \A b \in Agents \ As : AgentKept(b)
            /\ \A u \in Tasks \ {t} : ControlKept(u) /\ CardKept(u) /\ control[u].owner \notin As
            /\ control'[t].owner \in As \cup {None, control[t].owner}
            /\ launch' \subseteq launch /\ \A l \in launch' : l.task # t /\ l.agent \notin As
            /\ \A b \in As : Covered(b)'
            /\ \A r \in review' : r \in review /\ r.task # t
        BY <1>0, <1>1, <2>3, <2>4, <3>1, <3>2, <3>3, LoopAlone DEF AgentKept, ControlKept, CardKept
      <3> HIDE DEF As
      <3> QED BY <3>3, <3>4, OwnerStep
    <2>6. CASE ~moves
      <3>1. new = a /\ lease' = lease
        BY <2>1, <2>6
      <3>2. LoopHeld(t)' /\ ActiveStarted(t)' /\ Covered(a)'
        BY <1>2, <2>2, <2>3, <2>4, <3>1 DEF LoopHeld, ActiveStarted, Covered, Quiet, Worker, Checker
      <3>3. Rest
        BY <1>1, <2>3, <2>4, <3>1 DEF AgentKept
      <3> QED BY <1>3, <3>2, <3>3
    <2> QED BY <2>5, <2>6
  <1> QED BY <1>5, <1>18, <1>7, <1>8, <1>9, <1>10, <1>11, <1>12, <1>13, <1>14, <1>15, <1>16, <1>17 DEF LoopStep

\* The steps of an acceptance loop keep claims unique and conversations linked.
LEMMA LoopClaims ==
    ASSUME ExecInv, TypeOK', NEW t \in Tasks, LoopStep(t) \/ CancelLoop(t)
    PROVE  KinInv'
  <1>0. HasLoop(t)
    BY DEF LoopStep, CancelLoop, HasLoop, Preflight, AdmitWorker, SpawnWorker, LaunchFails, RegisterWorker,
           StopWorker, WorkerExited, StartValidator, ValidatorEnds, Judge, LoopError, BlockLoop, EndLoop
  <1>1. PICK a \in Agents : a = control[t].owner
    BY <1>0, LoopAlone
  <1>2. /\ TypeOK /\ task \in [Tasks -> TaskRecords] /\ control \in [Tasks -> Loops]
        /\ agent \in [Agents -> [st : AgentStates, link : Tasks \cup {None}]]
        /\ KinInv /\ Holds(t, a) /\ a \in AcceptanceOwners
        /\ control[t].vonly => "select" \notin Ops
    BY <1>0, <1>1, LoopAlone DEF ExecInv, ThreadInv, LoopHeld, HasLoop, EvidenceInv, TypeOK, TaskType, AgentType, ThreadType, LoopType, Holds
  <1> DEFINE Owners == \A u \in Tasks : control'[u].owner \in {None, control[u].owner}
             Records == \A b \in Agents : HasRecord(b)' => \/ HasRecord(b) /\ agent'[b].link = agent[b].link
                                                           \/ b = a /\ agent'[b].link = t
  <1>3. ASSUME Owners, Records, \A u \in Tasks : Kin(task'[u]) \subseteq Kin(task[u]) PROVE KinInv'
    <2>1. \A u \in Tasks, b \in Agents : Holds(u, b)' => Holds(u, b)
      BY <1>3, NoneAssumption DEF Holds, Kin
    <2>2. \A b \in Agents : HasRecord(b)' => \/ HasRecord(b) /\ agent'[b].link = agent[b].link
                                             \/ \E u \in Tasks : Holds(u, b) /\ agent'[b].link = u
      BY <1>2, <1>3
    <2> QED BY <1>2, <2>1, <2>2, ClaimsKept
  <1>4. ASSUME agent' = agent PROVE Records
    BY <1>4 DEF HasRecord
  <1>5. CASE AdmitWorker(t) \/ SpawnWorker(t) \/ StartValidator(t) \/ ValidatorEnds(t) \/ LoopError(t) \/ EndLoop(t)
    <2>1. Owners /\ Records /\ task' = task
      <3>1. agent' = agent /\ task' = task
        BY <1>5 DEF AdmitWorker, SpawnWorker, StartValidator, ValidatorEnds, LoopError, EndLoop
      <3>2. CASE AdmitWorker(t)
        <4>1. PICK x, y : control' = [control EXCEPT ![t].pc = x, ![t].reuse = y]
          BY <3>2 DEF AdmitWorker
        <4> QED BY <1>2, <1>4, <3>1, <4>1 DEF Loops
      <3>3. CASE ~AdmitWorker(t)
        BY <1>2, <1>4, <1>5, <3>1, <3>3 DEF SpawnWorker, StartValidator, ValidatorEnds, LoopError, EndLoop, Goto, Loops, NoLoop
      <3> QED BY <3>2, <3>3
    <2> QED BY <1>3, <2>1
  <1>6. CASE LaunchFails(t)
    <2>1. Owners /\ task' = task
      BY <1>2, <1>6 DEF LaunchFails, Goto, Loops
    <2>2. Records
      BY <1>1, <1>2, <1>4, <1>6 DEF LaunchFails, HasRecord
    <2> QED BY <1>3, <2>1, <2>2
  <1>7. CASE RegisterWorker(t)
    <2>1. Owners
      BY <1>2, <1>7, SMTT(60) DEF RegisterWorker, Goto, Loops
    <2>2. Records
      BY <1>1, <1>2, <1>7 DEF RegisterWorker, HasRecord
    <2>3. \A u \in Tasks : Kin(task'[u]) \subseteq Kin(task[u])
      <3>1. task' = task \/ task' = [task EXCEPT ![t].cond = "Running"]
        BY <1>7 DEF RegisterWorker
      <3> QED BY <1>2, <3>1 DEF Kin, TaskRecords
    <2> QED BY <1>3, <2>1, <2>2, <2>3
  <1>8. CASE StopWorker(t)
    <2>1. Owners
      BY <1>2, <1>8 DEF StopWorker, Loops
    <2>2. CASE HasRecord(a)
      <3>1. /\ agent' = [agent EXCEPT ![a].st = IF child[a] # "none" THEN "Stopping" ELSE "Interrupted"]
            /\ task' = task
        BY <1>1, <1>2, <1>8, <2>2, OwnerBroadcast DEF StopWorker, StopEffect
      <3>2. Records
        BY <1>2, <2>2, <3>1 DEF HasRecord
      <3> QED BY <1>3, <2>1, <3>1, <3>2
    <2>3. CASE ~HasRecord(a)
      BY <1>1, <1>3, <1>4, <1>8, <2>1, <2>3 DEF StopWorker
    <2> QED BY <2>2, <2>3
  <1>9. CASE WorkerExited(t)
    <2>1. Owners /\ Records
      BY <1>2, <1>4, <1>9 DEF WorkerExited, Goto, Loops
    <2>2. \A u \in Tasks : Kin(task'[u]) \subseteq Kin(task[u])
      BY <1>2, <1>9 DEF WorkerExited, Kin, TaskRecords
    <2> QED BY <1>3, <2>1, <2>2
  <1>10. CASE Judge(t)
    <2>1. Owners /\ Records
      BY <1>2, <1>4, <1>10 DEF Judge, Loops
    <2>2. \A u \in Tasks : Kin(task'[u]) \subseteq Kin(task[u])
      <3>1. CASE task' = task
        BY <3>1
      <3>2. CASE task' # task
        <4>1. PICK x : /\ x = IF control[t].vonly THEN task[t].worker ELSE task[t].assigned
                       /\ task' = [task EXCEPT ![t].sub = ws, ![t].state = "InReview", ![t].cond = "Idle", ![t].assigned = x]
          BY <1>10, <3>2 DEF Judge
        <4>2. x \in Kin(task[t])
          BY <1>2, <4>1 DEF Kin
        <4> QED BY <1>2, <4>1, <4>2 DEF Kin, TaskRecords
      <3> QED BY <3>1, <3>2
    <2> QED BY <1>3, <2>1, <2>2
  <1>11. CASE BlockLoop(t)
    <2>1. Owners /\ Records
      BY <1>2, <1>4, <1>11 DEF BlockLoop, BlockTask, Loops
    <2>2. \A u \in Tasks, b \in Agents : b \in Kin(task'[u]) => b \in Kin(task[u])
      BY <1>2, <1>11, NoneAssumption DEF BlockLoop, BlockTask, BlockedTask, Kin, TaskRecords
    <2>3. \A u \in Tasks, b \in Agents : Holds(u, b)' => Holds(u, b)
      BY <2>1, <2>2, NoneAssumption DEF Holds
    <2>4. \A b \in Agents : HasRecord(b)' => \/ HasRecord(b) /\ agent'[b].link = agent[b].link
                                             \/ \E u \in Tasks : Holds(u, b) /\ agent'[b].link = u
      BY <1>2, <2>1
    <2> QED BY <1>2, <2>3, <2>4, ClaimsKept
  <1>12. CASE CancelLoop(t)
    <2>1. Owners /\ task' = task
      BY <1>2, <1>12 DEF CancelLoop, Loops
    <2>2. Records
      BY <1>1, <1>2, <1>4, <1>12 DEF CancelLoop, HasRecord
    <2> QED BY <1>3, <2>1, <2>2
  <1>13. CASE Preflight(t)
    <2> DEFINE c == control[t]
               moves == c.ordinal > 1 /\ ~task[t].queued
    <2>1. PICK new \in Agents :
            /\ IF moves THEN Fresh(new) /\ lease[a] # "none" ELSE new = a
            /\ task' = [task EXCEPT ![t].assigned = IF moves THEN new ELSE @,
                                    ![t].worker   = IF c.vonly THEN @ ELSE new,
                                    ![t].cond     = IF c.vonly THEN "Running" ELSE "Queued"]
            /\ control' = [control EXCEPT ![t] =
                 [c EXCEPT !.owner = new, !.att = TRUE, !.pc = IF c.vonly THEN "validating" ELSE "launch",
                           !.fp = IF c.vonly THEN ws ELSE None]]
      BY <1>1, <1>13 DEF Preflight
    <2> HIDE DEF moves
    <2>2. \A u \in Tasks, b \in Agents : Holds(u, b)' => Holds(u, b) \/ (u = t /\ b = new)
      BY <1>2, <2>1 DEF Holds, Kin, TaskRecords, Loops
    <2>3. agent' = agent
      BY <1>13 DEF Preflight
    <2>4. CASE moves
      <3>1. (\A u \in Tasks : ~Holds(u, new)) /\ ~HasRecord(new)
        BY <2>1, <2>4, FreshFree
      <3> QED BY <1>2, <2>2, <2>3, <3>1, ClaimsFresh
    <2>5. CASE ~moves
      <3>1. \A u \in Tasks, b \in Agents : Holds(u, b)' => Holds(u, b)
        BY <1>2, <2>1, <2>2, <2>5
      <3> QED BY <1>2, <2>3, <3>1, ClaimsKept DEF HasRecord
    <2> QED BY <2>4, <2>5
  <1> QED BY <1>5, <1>6, <1>7, <1>8, <1>9, <1>10, <1>11, <1>12, <1>13 DEF LoopStep

-----------------------------------------------------------------------------
\* A step of the thread that works with agent a and has no loop.
LEMMA LaunchFrame ==
    ASSUME ExecInv, TypeOK', NEW a \in Agents, \A b \in Agents \ {a} : AgentKept(b),
           \A u \in Tasks : ControlKept(u) /\ CardKept(u) /\ control[u].owner # a,
           \A k, m \in launch' : k.agent = m.agent => k = m,
           \A m \in launch' : LaunchHeld(m)' \/ (m \in launch /\ m.agent # a),
           review' \subseteq review,
           \A r \in review' : \A m \in launch' : m \in launch \/ m.task # r.task,
           Covered(a)'
    PROVE  ThreadInv'
  <1> DEFINE As == {a}
             Ts == {}
  <1>1. /\ As \in SUBSET Agents /\ Ts \in SUBSET Tasks
        /\ \A b \in Agents \ As : AgentKept(b)
        /\ \A u \in Tasks \ Ts : ControlKept(u) /\ CardKept(u)
        /\ \A u \in Ts : control'[u].owner \in As \cup {None, control[u].owner}
        /\ \A m \in launch' : LaunchHeld(m)' \/ (m \in launch /\ m.agent \notin As /\ m.task \notin Ts)
        /\ \A u \in Ts : LoopHeld(u)' /\ ActiveStarted(u)'
        /\ \A u \in Tasks \ Ts : control[u].owner \notin As \/ LoopHeld(u)'
        /\ \A r \in review' : ReviewIdle(r)' \/
               (r \in review /\ r.task \notin Ts /\ \A m \in launch' : m \in launch \/ m.task # r.task)
        /\ \A b \in As : Covered(b)'
    OBVIOUS
  <1> HIDE DEF As, Ts
  <1> QED BY <1>1, Frame

\* A launch is the only one of its task, which no loop executes and no request reviews.
LEMMA LaunchAlone ==
    ASSUME ExecInv, NEW l \in launch
    PROVE  /\ l.agent \in Agents /\ LaunchHeld(l) /\ l.agent \notin AcceptanceOwners
           /\ \A m \in launch \ {l} : m.agent # l.agent
           /\ l.task # None => /\ l.task \in Tasks
                               /\ \A m \in launch \ {l} : m.task # l.task
                               /\ \A r \in review : r.task # l.task
  <1>1. /\ l.agent \in Agents /\ LaunchHeld(l) /\ l.task \in Tasks \cup {None}
        /\ \A m \in launch \ {l} : m.agent # l.agent /\ LaunchHeld(m)
    BY DEF ExecInv, ThreadInv, EvidenceInv, TypeOK, ThreadType, Launches
  <1>2. l.agent \notin AcceptanceOwners
    BY <1>1 DEF LaunchHeld, AcceptanceOwners, OwnersIn
  <1>3. l.task # None => \A m \in launch \ {l} : m.task # l.task
    BY <1>1 DEF LaunchHeld
  <1>4. l.task # None => \A r \in review : r.task # l.task
    BY DEF ExecInv, ThreadInv, ReviewIdle
  <1> QED BY <1>1, <1>2, <1>3, <1>4

\* The two sections of a launch keep the invariant.
LEMMA LaunchExec ==
    ASSUME ExecInv, TypeOK', NEW l \in launch, LaunchAcquire(l) \/ LaunchControl(l)
    PROVE  KinInv' /\ ThreadInv'
  <1>0. PICK t \in Tasks, a \in Agents : t = l.task /\ a = l.agent
    BY LaunchAlone DEF LaunchAcquire, LaunchControl
  <1>1. /\ TypeOK /\ task \in [Tasks -> TaskRecords] /\ control \in [Tasks -> Loops]
        /\ lease \in [Agents -> LeaseStates] /\ launch \subseteq Launches
        /\ KinInv /\ LoopHeld(t) /\ ActiveStarted(t) /\ Covered(a)
    BY DEF ExecInv, ThreadInv, EvidenceInv, TypeOK, TaskType, LeaseType, ThreadType, LoopType
  <1>2. /\ LaunchHeld(l) /\ a \notin AcceptanceOwners /\ l.task # None
        /\ \A m \in launch \ {l} : m.agent # a /\ m.task # t
        /\ \A r \in review : r.task # t
        /\ \A u \in Tasks : control[u].owner # a
        /\ control[t].pc = "none" /\ control[t].owner = None
        /\ Holds(t, a)
    BY <1>0, <1>1, LaunchAlone, BoardAssumption DEF LaunchHeld, LoopHeld, HasLoop, Holds, Kin
  <1>3. CASE LaunchAcquire(l)
    <2> DEFINE verdict == Admission(a, ProjectOf[t], FALSE)
    <2>1. /\ lease[a] = "none" /\ child[a] = "none" /\ a \notin group \cup orphan
          /\ task[t].cond = "Queued" /\ task[t].assigned = a /\ l.stage = "claimed"
          /\ task[t].state \in {"Running", "InReview"} /\ (l.vonly => "select" \notin Ops)
      BY <1>0, <1>1, <1>2, <1>3 DEF LaunchAcquire, LaunchHeld, Covered
    <2>2. /\ UNCHANGED <<agent, child, group, orphan>>
          /\ IF verdict = "reject"
             THEN BlockTask(t, control[t].pc) /\ launch' = launch \ {l} /\ UNCHANGED lease
             ELSE /\ lease' = IF verdict = "grant" THEN [lease EXCEPT ![a] = "reserved"] ELSE lease
                  /\ launch' = (launch \ {l}) \cup {[l EXCEPT !.stage = "acquired", !.reuse = verdict = "reuse"]}
                  /\ UNCHANGED <<task, control, review>>
      BY <1>0, <1>3 DEF LaunchAcquire
    <2>3. verdict \in {"reject", "grant"}
      BY <1>2 DEF Admission
    <2> HIDE DEF verdict
    <2>4. CASE verdict = "reject"
      <3>1. /\ task' = [task EXCEPT ![t] = BlockedTask(task[t])] /\ Touch({t})
            /\ control' = [control EXCEPT ![t].att = FALSE, ![t].pc = control[t].pc]
            /\ launch' = launch \ {l} /\ lease' = lease
        BY <2>2, <2>4 DEF BlockTask
      <3>2. /\ \A u \in Tasks \ {t} : control'[u] = control[u] /\ task'[u] = task[u]
            /\ control'[t].pc = "none" /\ control'[t].owner = None
            /\ task'[t] = BlockedTask(task[t])
        BY <1>1, <1>2, <3>1 DEF Loops
      <3>3. /\ task'[t].cond = "Blocked"
            /\ \A b \in Agents : b \in Kin(task'[t]) => b \in Kin(task[t])
        BY <1>1, <3>2, NoneAssumption DEF BlockedTask, TaskRecords, Kin
      <3>4. LoopHeld(t)' /\ ActiveStarted(t)'
        BY <3>2, <3>3 DEF LoopHeld, ActiveStarted, ActiveConditions
      <3> DEFINE As == {}
      <3>5. /\ As \in SUBSET Agents
            /\ \A b \in Agents \ As : AgentKept(b)
            /\ \A u \in Tasks \ {t} : ControlKept(u) /\ CardKept(u) /\ control[u].owner \notin As
            /\ control'[t].owner \in As \cup {None, control[t].owner}
            /\ launch' \subseteq launch /\ \A m \in launch' : m.task # t /\ m.agent \notin As
            /\ \A b \in As : Covered(b)'
            /\ \A r \in review' : r \in review /\ r.task # t
        BY <1>2, <2>2, <3>1, <3>2 DEF AgentKept, ControlKept, CardKept, Touch
      <3> HIDE DEF As
      <3>6. ThreadInv'
        BY <3>4, <3>5, OwnerStep
      <3>7. \A u \in Tasks, b \in Agents : Holds(u, b)' => Holds(u, b)
        BY <3>2, <3>3, NoneAssumption DEF Holds
      <3>8. KinInv'
        BY <1>1, <2>2, <3>7, ClaimsKept DEF HasRecord
      <3> QED BY <3>6, <3>8
    <2>5. CASE verdict = "grant"
      <3> DEFINE k == [l EXCEPT !.stage = "acquired", !.reuse = FALSE]
      <3>1. /\ lease' = [lease EXCEPT ![a] = "reserved"] /\ launch' = (launch \ {l}) \cup {k}
            /\ UNCHANGED <<task, control, review>>
        BY <2>2, <2>5
      <3>2. k.task = t /\ k.agent = a /\ k.stage = "acquired" /\ ~k.reuse /\ k.vonly = l.vonly
        BY <1>0, <1>1 DEF Launches
      <3> HIDE DEF k
      <3>3. LaunchHeld(k)'
        BY <1>1, <1>2, <2>1, <2>2, <3>1, <3>2, BoardAssumption DEF LaunchHeld, HasLoop
      <3>4. /\ \A b \in Agents \ {a} : AgentKept(b)
            /\ \A u \in Tasks : ControlKept(u) /\ CardKept(u) /\ control[u].owner # a
            /\ \A x, m \in launch' : x.agent = m.agent => x = m
            /\ \A m \in launch' : LaunchHeld(m)' \/ (m \in launch /\ m.agent # a)
            /\ review' \subseteq review
            /\ \A r \in review' : \A m \in launch' : m \in launch \/ m.task # r.task
        BY <1>1, <1>2, <2>2, <3>1, <3>2, <3>3 DEF AgentKept, ControlKept, CardKept, ExecInv, ThreadInv
      <3>5. Covered(a)'
        BY <2>1, <2>2 DEF Covered
      <3>6. ThreadInv'
        BY <3>4, <3>5, LaunchFrame
      <3>7. KinInv'
        BY <1>1, <2>2, <3>1 DEF KinInv, Holds, HasRecord
      <3> QED BY <3>6, <3>7
    <2> QED BY <2>3, <2>4, <2>5
  <1>4. CASE LaunchControl(l)
    <2>1. /\ lease[a] = "reserved" /\ child[a] = "none" /\ a \notin group \cup orphan
          /\ task[t].cond = "Queued" /\ task[t].assigned = a
          /\ task[t].state \in {"Running", "InReview"} /\ (l.vonly => "select" \notin Ops)
      BY <1>0, <1>1, <1>2, <1>4 DEF LaunchControl, LaunchHeld, Covered
    <2>2. /\ launch' = launch \ {l}
          /\ control' = [control EXCEPT ![t] = [NoLoop EXCEPT !.pc = "preflight", !.owner = a, !.vonly = l.vonly, !.ordinal = 1]]
          /\ UNCHANGED <<lease, orphan, task, agent, child, group, review>>
      BY <1>0, <1>2, <1>4 DEF LaunchControl, HasLoop
    <2>3. /\ control'[t].pc = "preflight" /\ control'[t].owner = a /\ control'[t].vonly = l.vonly
          /\ \A u \in Tasks \ {t} : control'[u] = control[u]
      BY <1>1, <2>2 DEF NoLoop
    <2>4. LoopHeld(t)' /\ ActiveStarted(t)'
      BY <2>1, <2>2, <2>3 DEF LoopHeld, ActiveStarted, Quiet, Worker, Checker, ActiveConditions
    <2> DEFINE As == {a}
    <2>5. /\ As \in SUBSET Agents
          /\ \A b \in Agents \ As : AgentKept(b)
          /\ \A u \in Tasks \ {t} : ControlKept(u) /\ CardKept(u) /\ control[u].owner \notin As
          /\ control'[t].owner \in As \cup {None, control[t].owner}
          /\ launch' \subseteq launch /\ \A m \in launch' : m.task # t /\ m.agent \notin As
          /\ \A b \in As : Covered(b)'
          /\ \A r \in review' : r \in review /\ r.task # t
      BY <1>1, <1>2, <2>2, <2>3 DEF AgentKept, ControlKept, CardKept, Covered
    <2> HIDE DEF As
    <2>6. ThreadInv'
      BY <2>4, <2>5, OwnerStep
    <2>7. \A u \in Tasks, b \in Agents : Holds(u, b)' => Holds(u, b)
      BY <1>2, <2>2, <2>3 DEF Holds
    <2>8. KinInv'
      BY <1>1, <2>2, <2>7, ClaimsKept DEF HasRecord
    <2> QED BY <2>6, <2>8
  <1> QED BY <1>3, <1>4

\* Which column shows which state.
LEMMA ColumnOf ==
    ASSUME NEW tk \in TaskRecords
    PROVE  /\ Column(tk) = "Todo" <=> tk.state = "Ready"
           /\ Column(tk) = "InProgress" <=> tk.state = "Running"
           /\ Column(tk) = "InReview" <=> tk.state = "InReview"
           /\ Column(tk) = "Done" <=> tk.state = "Accepted"
  BY DEF Column, TaskRecords, States

\* What an action of the workflow leaves of a card.
LEMMA TransitionKeeps ==
    ASSUME NEW tk \in TaskRecords, NEW action
    PROVE  LET new == Transition(tk, action)
           IN  /\ new.assigned = tk.assigned /\ new.qagent = tk.qagent /\ new.cont = tk.cont
               /\ new.worker = tk.worker /\ new.queued = tk.queued
  BY DEF Transition, TaskRecords

\* The start of a review request keeps the invariant.
LEMMA BeginExec ==
    ASSUME ExecInv, TypeOK', NEW t \in Tasks, NEW op \in ReviewOps, BeginReview(t, op)
    PROVE  KinInv' /\ ThreadInv'
  <1>1. task[t] \in TaskRecords /\ KinInv
    BY DEF ExecInv, EvidenceInv, TypeOK, TaskType
  <1>2. /\ op \in Ops /\ ~TaskLive(t)
        /\ review' = review \cup {[task |-> t, op |-> op]}
        /\ UNCHANGED <<task, agent, child, lease, group, orphan, control, launch>>
    BY DEF BeginReview
  <1>3. task[t].state \in {"Running", "InReview"}
    <2>1. MayTransition(task[t], "Accept") \/ MayTransition(task[t], "RequestChanges") => task[t].state = "InReview"
      BY <1>1, ColumnOf DEF MayTransition, InWorkflow
    <2>2. \/ MayTransition(task[t], "Accept") \/ MayTransition(task[t], "RequestChanges")
          \/ Column(task[t]) \in {"InProgress", "InReview"}
      BY DEF BeginReview, ReviewOps
    <2> QED BY <1>1, <2>1, <2>2, ColumnOf
  <1>4. /\ ~HasLoop(t) /\ \A l \in launch : l.task # t
        /\ WaitingInQueue(task[t]) \/ task[t].cond \notin ActiveConditions
    BY <1>2, NotLive
  <1> DEFINE new == [task |-> t, op |-> op]
  <1>5. ReviewIdle(new)'
    BY <1>2, <1>3, <1>4 DEF ReviewIdle, HasLoop
  <1> HIDE DEF new
  <1> DEFINE As == {}
             Ts == {}
  <1>6. /\ As \in SUBSET Agents /\ Ts \in SUBSET Tasks
        /\ \A a \in Agents \ As : AgentKept(a)
        /\ \A u \in Tasks \ Ts : ControlKept(u) /\ CardKept(u)
        /\ \A u \in Ts : control'[u].owner \in As \cup {None, control[u].owner}
        /\ \A k, m \in launch' : k.agent = m.agent => k = m
        /\ \A m \in launch' : LaunchHeld(m)' \/ (m \in launch /\ m.agent \notin As /\ m.task \notin Ts)
        /\ \A u \in Ts : LoopHeld(u)' /\ ActiveStarted(u)'
        /\ \A u \in Tasks \ Ts : control[u].owner \notin As \/ LoopHeld(u)'
        /\ \A a \in As : Covered(a)'
    BY <1>2 DEF ExecInv, ThreadInv, AgentKept, ControlKept, CardKept
  <1>7. \A r \in review' : ReviewIdle(r)' \/
               (r \in review /\ r.task \notin Ts /\ \A m \in launch' : m \in launch \/ m.task # r.task)
    BY <1>2, <1>5 DEF new
  <1> HIDE DEF As, Ts
  <1>8. ThreadInv'
    BY <1>6, <1>7, Frame
  <1>9. KinInv'
    BY <1>1, <1>2 DEF KinInv, Holds, HasRecord
  <1> QED BY <1>8, <1>9

\* The commits of review requests keep the invariant.
LEMMA ReviewExec ==
    ASSUME ExecInv, TypeOK', NEW r \in review, ReviewStep(r)
    PROVE  KinInv' /\ ThreadInv'
  <1>0. PICK t \in Tasks : t = r.task
    BY DEF ExecInv, EvidenceInv, TypeOK, ThreadType, Reviews
  <1>1. /\ task \in [Tasks -> TaskRecords] /\ task[t] \in TaskRecords /\ KinInv /\ ReviewIdle(r) /\ ReviewBacked
        /\ QuietOps
    BY <1>0 DEF ExecInv, EvidenceInv, TypeOK, TaskType, ThreadInv
  <1>2. CASE CommitAccept(r) \/ CommitRelease(r)
    <2>1. r.op \in {"Accept", "AcceptRelease"} /\ UNCHANGED <<agent, child, lease, group, orphan, control, launch>>
      BY <1>2 DEF CommitAccept, CommitRelease
    <2>2. task[t].state = "InReview" /\ task[t].cond \notin ActiveConditions
      BY <1>0, <1>1, <2>1, ColumnOf DEF ReviewBacked, ReviewIdle, WaitingInQueue
    <2>3. CASE task' = task /\ review' = review \ {r}
      <3>1. /\ \A a \in Agents : AgentKept(a)
            /\ \A u \in Tasks : ControlKept(u) /\ CardKept(u)
            /\ launch' = launch /\ review' \subseteq review
        BY <2>1, <2>3 DEF AgentKept, ControlKept, CardKept
      <3>2. ThreadInv'
        BY <3>1, ThreadsKept
      <3> QED BY <1>1, <2>1, <2>3, <3>2 DEF KinInv, Holds, HasRecord
    <2>4. CASE task' = [task EXCEPT ![t] = Transition(@, "Accept")] /\ Touch({t})
      <3>1. task'[t] = Transition(task[t], "Accept") /\ \A u \in Tasks \ {t} : task'[u] = task[u]
        BY <1>1, <2>4
      <3>2. task'[t].cond = task[t].cond
        BY <1>1, <3>1 DEF Transition, TaskRecords
      <3>3. ActiveStarted(t)'
        BY <2>2, <3>2 DEF ActiveStarted
      <3>4. ThreadInv'
        BY <1>0, <1>1, <2>1, <2>4, <3>1, <3>3, CardStep DEF ReviewIdle
      <3>5. \A u \in Tasks : Kin(task'[u]) \subseteq Kin(task[u])
        BY <1>1, <3>1, TransitionKeeps DEF Kin
      <3> QED BY <1>1, <2>1, <3>4, <3>5, ClaimsUnchanged DEF HasRecord
    <2> QED BY <1>0, <1>2, <2>3, <2>4 DEF CommitAccept, CommitRelease
  <1>3. ASSUME NEW a \in Agents, CommitLaunch(r, a) PROVE KinInv' /\ ThreadInv'
    <2> DEFINE l == [task |-> t, agent |-> a, vonly |-> r.op = "Revalidate", stage |-> "claimed", reuse |-> FALSE]
               moved == Transition(task[t], "RequestChanges")
    <2>1. /\ Fresh(a) /\ launch' = launch \cup {l} /\ Touch({t})
          /\ UNCHANGED <<agent, child, lease, group, orphan, control>>
          /\ r.op \in {"Revalidate", "RequestChanges"}
          /\ task' = [task EXCEPT ![t] =
                IF r.op = "Revalidate" THEN [task[t] EXCEPT !.assigned = a, !.cond = "Queued"]
                ELSE [moved EXCEPT !.assigned = a, !.cond = "Queued", !.sub = None]]
      BY <1>0, <1>3 DEF CommitLaunch
    <2>2. /\ l.task = t /\ l.agent = a /\ l.stage = "claimed" /\ ~l.reuse
          /\ l.vonly => "select" \notin Ops
      BY <1>1 DEF ReviewIdle, QuietOps
    <2>3. moved \in TaskRecords /\ moved.state = "Running"
      BY <1>1, TransitionType DEF Transition, TaskRecords
    <2>4. moved.qagent = task[t].qagent /\ moved.cont = task[t].cont /\ moved.worker = task[t].worker
      BY <1>1, TransitionKeeps
    <2> HIDE DEF moved, l
    <2>5. /\ task'[t].cond = "Queued" /\ task'[t].assigned = a /\ task'[t].state \in {"Running", "InReview"}
          /\ task'[t].qagent = task[t].qagent /\ task'[t].cont = task[t].cont /\ task'[t].worker = task[t].worker
          /\ \A u \in Tasks \ {t} : task'[u] = task[u]
      <3>1. CASE r.op = "Revalidate"
        BY <1>0, <1>1, <2>1, <3>1 DEF TaskRecords, ReviewIdle
      <3>2. CASE r.op # "Revalidate"
        BY <1>1, <2>1, <2>3, <2>4, <3>2 DEF TaskRecords
      <3> QED BY <3>1, <3>2
    <2>6. /\ \A u \in Tasks : ~Holds(u, a) /\ control[u].owner # a
          /\ ~HasRecord(a) /\ child[a] = "none" /\ lease[a] = "none"
          /\ \A m \in launch : m.agent # a
      BY <2>1, FreshFree
    <2>7. ~HasLoop(t) /\ \A m \in launch : m.task # t
      BY <1>0, <1>1 DEF ReviewIdle
    <2>8. ThreadInv'
      BY <2>1, <2>2, <2>5, <2>6, <2>7, NewLaunch
    <2>9. \A u \in Tasks, b \in Agents : Holds(u, b)' => Holds(u, b) \/ (u = t /\ b = a)
      BY <2>1, <2>5 DEF Holds, Kin
    <2> QED BY <1>1, <2>1, <2>6, <2>8, <2>9, ClaimsFresh
  <1> QED BY <1>2, <1>3 DEF ReviewStep

\* A card that is moved by hand is not shown as executing.
LEMMA MovedIdle ==
    ASSUME NEW tk \in TaskRecords, NEW action \in CardActions, MayTransition(tk, action),
           WaitingInQueue(tk) \/ tk.cond \notin ActiveConditions
    PROVE  Transition(tk, action).cond \notin ActiveConditions
  <1>1. CASE action \in {"Prioritize", "ReturnToBacklog"}
    <2>1. Column(tk) # "InProgress"
      BY <1>1 DEF MayTransition
    <2> QED BY <1>1, <2>1 DEF Transition, WaitingInQueue, TaskRecords
  <1>2. CASE action \notin {"Prioritize", "ReturnToBacklog"}
    BY <1>2 DEF CardActions, Transition, ActiveConditions, TaskRecords
  <1> QED BY <1>1, <1>2

\* Card requests keep the invariant.
LEMMA CardExec ==
    ASSUME ExecInv, TypeOK', NEW t \in Tasks
    PROVE  /\ \A action \in CardActions : CardTransition(t, action) => KinInv' /\ ThreadInv'
           /\ \A a \in Agents : Start(t, a) => KinInv' /\ ThreadInv'
  <1>0. task \in [Tasks -> TaskRecords] /\ task[t] \in TaskRecords /\ KinInv
    BY DEF ExecInv, EvidenceInv, TypeOK, TaskType
  <1>1. ASSUME NEW action \in CardActions, CardTransition(t, action) PROVE KinInv' /\ ThreadInv'
    <2> DEFINE tk == task[t]
               next == Transition(tk, action)
               last == Or(tk.qagent, Or(tk.cont, tk.assigned))
               selected == IF last # None /\ HasRecord(last) THEN last ELSE None
    <2>1. /\ ~TaskLive(t) /\ MayTransition(tk, action) /\ Touch({t})
          /\ UNCHANGED <<agent, child, lease, group, orphan, control, launch>>
          /\ task' = [task EXCEPT ![t] =
               IF tk.queued /\ Column(next) = "Todo"
               THEN [Unqueued(next) EXCEPT !.cont = selected, !.assigned = selected, !.cond = "Idle"]
               ELSE IF WaitingInQueue(tk) /\ Column(next) # "InProgress"
               THEN [Unqueued(next) EXCEPT !.cond = "Idle"]
               ELSE next]
      BY <1>1 DEF CardTransition
    <2>2. ~HasLoop(t) /\ (\A l \in launch : l.task # t) /\ (WaitingInQueue(tk) \/ tk.cond \notin ActiveConditions)
      BY <2>1, NotLive
    <2>3. next.cond \notin ActiveConditions /\ next \in TaskRecords
      BY <1>0, <2>1, <2>2, MovedIdle, TransitionType
    <2>4. /\ next.assigned = tk.assigned /\ next.qagent = tk.qagent /\ next.cont = tk.cont /\ next.worker = tk.worker
      BY <1>0, TransitionKeeps
    <2>5. selected \in {tk.qagent, tk.cont, tk.assigned, None}
      BY DEF Or
    <2> HIDE DEF next, selected
    <2>6. \A u \in Tasks \ {t} : task'[u] = task[u]
      BY <1>0, <2>1
    <2>7. /\ task'[t].cond \notin ActiveConditions
          /\ \A b \in Agents : b \in Kin(task'[t]) => b \in Kin(tk)
      <3>1. CASE task'[t] = [Unqueued(next) EXCEPT !.cont = selected, !.assigned = selected, !.cond = "Idle"]
        <4>1. /\ task'[t].cond = "Idle" /\ task'[t].cont = selected /\ task'[t].assigned = selected
              /\ task'[t].qagent = None /\ task'[t].worker = next.worker
          BY <2>3, <3>1 DEF Unqueued, TaskRecords
        <4> QED BY <2>4, <2>5, <4>1, NoneAssumption DEF Kin, ActiveConditions
      <3>2. CASE task'[t] = [Unqueued(next) EXCEPT !.cond = "Idle"]
        <4>1. /\ task'[t].cond = "Idle" /\ task'[t].cont = next.cont /\ task'[t].assigned = next.assigned
              /\ task'[t].qagent = None /\ task'[t].worker = next.worker
          BY <2>3, <3>2 DEF Unqueued, TaskRecords
        <4> QED BY <2>4, <4>1, NoneAssumption DEF Kin, ActiveConditions
      <3>3. CASE task'[t] = next
        BY <2>3, <2>4, <3>3 DEF Kin
      <3> QED BY <1>0, <2>1, <3>1, <3>2, <3>3
    <2>8. ActiveStarted(t)'
      BY <2>7 DEF ActiveStarted
    <2>9. ThreadInv'
      BY <2>1, <2>2, <2>6, <2>8, CardStep
    <2>10. \A u \in Tasks, b \in Agents : Holds(u, b)' => Holds(u, b)
      BY <2>1, <2>6, <2>7 DEF Holds
    <2>11. KinInv'
      BY <1>0, <2>1, <2>10, ClaimsKept DEF HasRecord
    <2> QED BY <2>9, <2>11
  <1>2. ASSUME NEW a \in Agents, Start(t, a) PROVE KinInv' /\ ThreadInv'
    <2> DEFINE l == [task |-> t, agent |-> a, vonly |-> FALSE, stage |-> "claimed", reuse |-> FALSE]
               moved == Transition(task[t], "Start")
    <2>1. /\ ~TaskLive(t) /\ Fresh(a) /\ launch' = launch \cup {l} /\ Touch({t})
          /\ UNCHANGED <<agent, child, lease, group, orphan, control>>
          /\ task' = [task EXCEPT ![t] = [moved EXCEPT !.assigned = a, !.cond = "Queued"]]
      BY <1>2 DEF Start
    <2>2. l.task = t /\ l.agent = a /\ l.stage = "claimed" /\ ~l.reuse /\ ~l.vonly
      OBVIOUS
    <2>3. moved \in TaskRecords /\ moved.state = "Running"
      BY <1>0, TransitionType DEF Transition, TaskRecords, CardActions
    <2>4. moved.qagent = task[t].qagent /\ moved.cont = task[t].cont /\ moved.worker = task[t].worker
      BY <1>0, TransitionKeeps
    <2> HIDE DEF moved, l
    <2>5. /\ task'[t].cond = "Queued" /\ task'[t].assigned = a /\ task'[t].state \in {"Running", "InReview"}
          /\ task'[t].qagent = task[t].qagent /\ task'[t].cont = task[t].cont /\ task'[t].worker = task[t].worker
          /\ \A u \in Tasks \ {t} : task'[u] = task[u]
      BY <1>0, <2>1, <2>3, <2>4 DEF TaskRecords
    <2>6. /\ \A u \in Tasks : ~Holds(u, a) /\ control[u].owner # a
          /\ ~HasRecord(a) /\ child[a] = "none" /\ lease[a] = "none"
          /\ \A m \in launch : m.agent # a
      BY <2>1, FreshFree
    <2>7. ~HasLoop(t) /\ \A m \in launch : m.task # t
      BY <2>1, NotLive
    <2>8. ThreadInv'
      BY <2>1, <2>2, <2>5, <2>6, <2>7, NewLaunch
    <2>9. \A u \in Tasks, b \in Agents : Holds(u, b)' => Holds(u, b) \/ (u = t /\ b = a)
      BY <2>1, <2>5 DEF Holds, Kin
    <2> QED BY <1>0, <2>1, <2>6, <2>8, <2>9, ClaimsFresh
  <1> QED BY <1>1, <1>2

\* A crash ends every thread, and a reservation survives with its process group.
LEMMA CrashExec ==
    ASSUME ExecInv, TypeOK', CrashRestart
    PROVE  KinInv' /\ ThreadInv'
  <1>0. task \in [Tasks -> TaskRecords] /\ KinInv /\ \A t \in Tasks : task[t] \in TaskRecords
    BY DEF ExecInv, EvidenceInv, TypeOK, TaskType
  <1>1. /\ \A t \in Tasks : task'[t] = Reconciled(task[t])
        /\ \A t \in Tasks : control'[t] = NoLoop
        /\ launch' = {} /\ review' = {} /\ group' = group
    BY DEF CrashRestart
  <1>2. ASSUME NEW t \in Tasks PROVE Kin(task'[t]) = Kin(task[t]) /\ ActiveStarted(t)'
    <2>1. CASE WaitingInQueue(task[t]) \/ task[t].cond \notin ActiveConditions
      <3>1. task'[t] = task[t]
        BY <1>1, <2>1 DEF Reconciled
      <3> QED BY <3>1 DEF ExecInv, ThreadInv, ActiveStarted
    <2>2. CASE ~(WaitingInQueue(task[t]) \/ task[t].cond \notin ActiveConditions)
      <3>1. task'[t] = [task[t] EXCEPT !.cond = "Blocked", !.state = "Running", !.sub = None]
        BY <1>1, <2>2 DEF Reconciled
      <3> QED BY <1>0, <3>1 DEF TaskRecords, Kin, ActiveStarted
    <2> QED BY <2>1, <2>2
  <1>3. \A t \in Tasks : LoopHeld(t)'
    BY <1>1 DEF LoopHeld, NoLoop
  <1>4. \A a \in Agents : Covered(a)'
    <2> SUFFICES ASSUME NEW a \in Agents, a \in group' \cup orphan' PROVE lease'[a] \in {"worker", "validator"}
      BY DEF Covered
    <2>1. a \in group /\ lease[a] \in {"worker", "validator"}
      BY DEF CrashRestart, ExecInv, ThreadInv, Covered
    <2> QED BY <2>1 DEF CrashRestart
  <1>5. ThreadInv'
    BY <1>1, <1>2, <1>3, <1>4 DEF ThreadInv
  <1>6. \A a \in Agents : HasRecord(a)' => HasRecord(a) /\ agent'[a].link = agent[a].link
    BY DEF CrashRestart, HasRecord, AgentActive, ExecInv, EvidenceInv, TypeOK, AgentType
  <1>7. KinInv'
    BY <1>0, <1>1, <1>2, <1>6, ClaimsUnchanged DEF NoLoop
  <1> QED BY <1>5, <1>7

\* A task that waits is not live.
LEMMA WaitingNotLive ==
    ASSUME ExecInv, NEW t \in Tasks, WaitingInQueue(task[t])
    PROVE  ~HasLoop(t) /\ \A l \in launch : l.task # t
  BY NotLive DEF TaskLive

\* The conversation that a waiting task continues is free.  claim_board_task.
LEMMA ChosenFree ==
    ASSUME ExecInv, NEW t \in Tasks, NEW a \in Agents, WaitingInQueue(task[t]), Claimable(t),
           a = Or(task[t].qagent, task[t].cont), HasRecord(a) \/ task[t].cont # a
    PROVE  /\ Holds(t, a) /\ child[a] = "none" /\ lease[a] = "none"
           /\ \A u \in Tasks : control[u].owner # a
           /\ \A l \in launch : l.agent # a
  <1>1. ~HasLoop(t) /\ \A l \in launch : l.task # t
    BY WaitingNotLive
  <1>2. Holds(t, a) /\ KinInv /\ LoopHeld(t)
    BY DEF Holds, Kin, Or, ExecInv, ThreadInv
  <1>3. ASSUME NEW u \in Tasks PROVE control[u].owner # a
    BY <1>1, <1>2, NoneAssumption DEF KinInv, Holds, LoopHeld, HasLoop
  <1>4. child[a] = "none" /\ lease[a] = "none"
    <2>1. CASE HasRecord(a)
      BY <2>1, NoneAssumption DEF Claimable, AgentIdle
    <2>2. CASE ~HasRecord(a)
      <3>1. task[t].qagent = a /\ task[t].queued
        BY <2>2 DEF Or, WaitingInQueue
      <3>2. TaskOwnsAgent(t, a) /\ SameWorkspace(ProjectOf[t], ProjectOf[t]) /\ a \in Agents \ {None}
        BY <3>1, NoneAssumption DEF TaskOwnsAgent, SameWorkspace
      <3>3. ~ExecutionBusy(ProjectOf[t], None)
        BY DEF Claimable
      <3> QED BY <3>1, <3>2, <3>3 DEF ExecutionBusy
    <2> QED BY <2>1, <2>2
  <1>5. ASSUME NEW l \in launch, l.agent = a PROVE FALSE
    <2>1. LaunchHeld(l) /\ l.task \in Tasks \cup {None} /\ l.stage \in LaunchStages
      BY DEF ExecInv, ThreadInv, EvidenceInv, TypeOK, ThreadType, Launches
    <2>2. l.task # None
      BY <1>4, <1>5, <2>1 DEF LaunchHeld, LaunchStages
    <2>3. Holds(l.task, a)
      BY <1>5, <2>1, <2>2 DEF LaunchHeld, Holds, Kin
    <2> QED BY <1>1, <1>2, <2>1, <2>2, <2>3 DEF KinInv
  <1> QED BY <1>2, <1>3, <1>4, <1>5

\* A queue request about one task that is not executed.
LEMMA QueueCard ==
    ASSUME ExecInv, TypeOK', NEW t \in Tasks, ~HasLoop(t), \A l \in launch : l.task # t,
           \A u \in Tasks \ {t} : task'[u] = task[u], Touch({t}), ActiveStarted(t)',
           \A a \in Agents : a \in Kin(task'[t]) => a \in Kin(task[t]),
           UNCHANGED <<agent, child, lease, group, orphan, control, launch>>
    PROVE  KinInv' /\ ThreadInv'
  <1>1. ThreadInv'
    BY CardStep
  <1>2. \A u \in Tasks, b \in Agents : Holds(u, b)' => Holds(u, b)
    BY DEF Holds
  <1>3. KinInv'
    BY <1>2, ClaimsKept DEF HasRecord, ExecInv
  <1> QED BY <1>1, <1>3

\* Choosing an agent for a Todo task takes it from the task that had it.
LEMMA SelectExec ==
    ASSUME ExecInv, TypeOK', NEW t \in Tasks, NEW choice \in MaybeAgent, SelectAgent(t, choice)
    PROVE  KinInv' /\ ThreadInv'
  <1>0. /\ task \in [Tasks -> TaskRecords] /\ KinInv /\ ThreadInv /\ (\A u \in Tasks : task[u] \in TaskRecords)
        /\ agent \in [Agents -> [st : AgentStates, link : Tasks \cup {None}]]
    BY DEF ExecInv, EvidenceInv, TypeOK, TaskType, AgentType
  <1> DEFINE previous == Or(task[t].cont, task[t].assigned)
             Ts == {t} \cup Detached(t, choice)
             As == {}
  <1>1. /\ "select" \in Ops /\ (choice # None => AgentIdle(choice))
        /\ (\A u \in Ts : ~TaskLive(u) /\ task[u].state = "Ready")
        /\ Touch(Ts) /\ UNCHANGED <<child, lease, group, orphan, control, launch>>
        /\ Ts \subseteq Tasks
    BY <1>0, ColumnOf DEF SelectAgent, Detached
  <1>2. \A u \in Tasks : task'[u] = IF u = t THEN [Unqueued(task[u]) EXCEPT !.assigned = choice, !.cont = choice]
                                    ELSE IF u \in Ts THEN [Unqueued(task[u]) EXCEPT !.assigned = None, !.cont = None]
                                    ELSE task[u]
    BY DEF SelectAgent
  <1>3. \A a \in Agents : agent'[a] = IF a = choice THEN [agent[a] EXCEPT !.link = t]
                                      ELSE IF a = previous /\ agent[a].link = t THEN [agent[a] EXCEPT !.link = None]
                                      ELSE agent[a]
    BY DEF SelectAgent
  <1>4. \A u \in Tasks \ {t} : choice # None /\ agent[choice].link = u => u \in Ts
    BY DEF Detached
  <1> HIDE DEF Ts, previous
  <1>5. \A u \in Ts : ~HasLoop(u) /\ \A l \in launch : l.task # u
    BY <1>1, NotLive
  <1>6. \A u \in Ts : /\ task'[u].cond = task[u].cond /\ task'[u].state = task[u].state
                      /\ Kin(task'[u]) \subseteq (IF u = t THEN {None, choice} ELSE {None})
    <2> SUFFICES ASSUME NEW u \in Ts
                 PROVE  /\ task'[u].cond = task[u].cond /\ task'[u].state = task[u].state
                        /\ Kin(task'[u]) \subseteq (IF u = t THEN {None, choice} ELSE {None})
      OBVIOUS
    <2>1. PICK c : /\ c = IF u = t THEN choice ELSE None
                   /\ task'[u] = [Unqueued(task[u]) EXCEPT !.assigned = c, !.cont = c]
      BY <1>1, <1>2
    <2>2. task[u] \in TaskRecords
      BY <1>0, <1>1
    <2>3. /\ task'[u].cond = task[u].cond /\ task'[u].state = task[u].state
          /\ task'[u].assigned = c /\ task'[u].cont = c /\ task'[u].qagent = None
      BY <2>1, <2>2 DEF Unqueued, TaskRecords
    <2> QED BY <1>1, <2>1, <2>3 DEF Kin
  <1>7. t \in Ts
    BY DEF Ts
  <1>8. ThreadInv'
    <2>1. \A u \in Ts : LoopHeld(u)' /\ ActiveStarted(u)'
      BY <1>0, <1>1, <1>5, <1>6 DEF ThreadInv, LoopHeld, HasLoop, ActiveStarted
    <2>2. \A u \in Tasks \ Ts : task'[u] = task[u]
      BY <1>2, <1>7
    <2>3. /\ As \in SUBSET Agents /\ Ts \in SUBSET Tasks
          /\ \A a \in Agents \ As : AgentKept(a)
          /\ \A u \in Tasks \ Ts : ControlKept(u) /\ CardKept(u)
          /\ \A u \in Ts : control'[u].owner \in As \cup {None, control[u].owner}
          /\ \A k, m \in launch' : k.agent = m.agent => k = m
          /\ \A m \in launch' : LaunchHeld(m)' \/ (m \in launch /\ m.agent \notin As /\ m.task \notin Ts)
          /\ \A u \in Tasks \ Ts : control[u].owner \notin As \/ LoopHeld(u)'
          /\ \A r \in review' : ReviewIdle(r)' \/
               (r \in review /\ r.task \notin Ts /\ \A m \in launch' : m \in launch \/ m.task # r.task)
          /\ \A a \in As : Covered(a)'
      BY <1>0, <1>1, <1>5, <2>2 DEF ThreadInv, AgentKept, ControlKept, CardKept, Touch
    <2> HIDE DEF As
    <2> QED BY <2>1, <2>3, Frame
  <1>9. ASSUME NEW u \in Tasks, NEW a \in Agents, Holds(u, a)'
        PROVE  (a = choice /\ u = t) \/ (a # choice /\ Holds(u, a) /\ (u \in Ts => control[u].owner = a))
    <2>1. CASE a = choice
      <3>1. HasRecord(a) /\ a \notin AcceptanceOwners
        BY <1>1, <2>1, NoneAssumption DEF AgentIdle
      <3>2. control[u].owner # a
        BY <3>1, NoneAssumption DEF AcceptanceOwners, OwnersIn
      <3>3. a \in Kin(task'[u])
        BY <1>1, <1>9, <3>2 DEF Holds
      <3>4. u \in Ts => u = t
        BY <1>6, <3>3, NoneAssumption
      <3>5. ASSUME u \notin Ts PROVE FALSE
        <4>1. Holds(u, a) /\ u # t
          BY <1>2, <1>7, <3>3, <3>5 DEF Holds
        <4> QED BY <1>0, <1>4, <2>1, <3>1, <3>5, <4>1, NoneAssumption DEF KinInv
      <3> QED BY <2>1, <3>4, <3>5
    <2>2. CASE a # choice
      <3>1. CASE u \in Ts
        BY <1>1, <1>6, <1>9, <2>2, <3>1, NoneAssumption DEF Holds
      <3>2. CASE u \notin Ts
        BY <1>1, <1>2, <1>7, <1>9, <2>2, <3>2 DEF Holds
      <3> QED BY <2>2, <3>1, <3>2
    <2> QED BY <2>1, <2>2
  <1>10. ASSUME NEW u \in Tasks, NEW a \in Agents, Holds(u, a)', HasRecord(a)' PROVE agent'[a].link = u
    <2>1. CASE a = choice /\ u = t
      BY <1>0, <1>3, <2>1
    <2>2. CASE a # choice /\ Holds(u, a) /\ (u \in Ts => control[u].owner = a)
      <3>1. HasRecord(a)
        BY <1>0, <1>3, <1>10, <2>2 DEF HasRecord
      <3>2. agent[a].link = u
        BY <1>0, <2>2, <3>1 DEF KinInv
      <3>3. u # t
        <4>1. LoopHeld(t) /\ ~HasLoop(t)
          BY <1>0, <1>5, <1>7 DEF ThreadInv
        <4> QED BY <1>7, <2>2, <4>1, NoneAssumption DEF LoopHeld, HasLoop
      <3> QED BY <1>0, <1>3, <2>2, <3>2, <3>3
    <2> QED BY <1>9, <1>10, <2>1, <2>2
  <1>11. \A a \in Agents, u, v \in Tasks : Holds(u, a)' /\ Holds(v, a)' => u = v
    BY <1>0, <1>9 DEF KinInv
  <1>12. KinInv'
    BY <1>10, <1>11 DEF KinInv
  <1> QED BY <1>8, <1>12

\* The queue's operations keep the invariant.
LEMMA QueueExec ==
    ASSUME ExecInv, TypeOK', NEW t \in Tasks
    PROVE  /\ Enqueue(t) \/ RequestChangesQueued(t) \/ PlanChanges(t) \/ ClaimBlocked(t) => KinInv' /\ ThreadInv'
           /\ \A before \in Tasks \cup {None} : ReorderQueue(t, before) => KinInv' /\ ThreadInv'
           /\ \A a \in Agents : Claim(t, a) => KinInv' /\ ThreadInv'
  <1>0. /\ task \in [Tasks -> TaskRecords] /\ task[t] \in TaskRecords /\ KinInv /\ ThreadInv
        /\ \A u \in Tasks : task[u] \in TaskRecords
    BY DEF ExecInv, EvidenceInv, TypeOK, TaskType
  <1>1. ASSUME Enqueue(t) \/ RequestChangesQueued(t) PROVE KinInv' /\ ThreadInv'
    <2>1. PICK pos : task' = [task EXCEPT ![t] = Waiting(@, pos)]
      BY <1>1 DEF Enqueue, RequestChangesQueued
    <2>2. ~TaskLive(t) /\ Touch({t}) /\ UNCHANGED <<agent, child, lease, group, orphan, control, launch>>
      BY <1>1 DEF Enqueue, RequestChangesQueued
    <2>3. /\ task'[t].state = "Running" /\ task'[t].assigned = None /\ task'[t].cont = task[t].cont
          /\ task'[t].worker = task[t].worker /\ task'[t].qagent = QueueAgent(task[t])
          /\ \A u \in Tasks \ {t} : task'[u] = task[u]
      BY <1>0, <2>1 DEF Waiting, TaskRecords
    <2>4. QueueAgent(task[t]) \in {task[t].qagent, task[t].cont, task[t].assigned, None}
      BY DEF QueueAgent, Or
    <2>5. \A a \in Agents : a \in Kin(task'[t]) => a \in Kin(task[t])
      BY <2>3, <2>4, NoneAssumption DEF Kin
    <2>6. ActiveStarted(t)'
      BY <2>3 DEF ActiveStarted
    <2>7. ~HasLoop(t) /\ \A l \in launch : l.task # t
      BY <2>2, NotLive
    <2> QED BY <2>2, <2>3, <2>5, <2>6, <2>7, QueueCard
  <1>2. ASSUME PlanChanges(t) PROVE KinInv' /\ ThreadInv'
    <2>1. UNCHANGED <<task, agent, child, lease, group, orphan, control, launch>> /\ review' \subseteq review
      BY <1>2 DEF PlanChanges, Touch
    <2>2. /\ \A a \in Agents : AgentKept(a)
          /\ \A u \in Tasks : ControlKept(u) /\ CardKept(u)
      BY <2>1 DEF AgentKept, ControlKept, CardKept
    <2>3. ThreadInv'
      BY <2>1, <2>2, ThreadsKept
    <2> QED BY <1>0, <2>1, <2>3 DEF KinInv, Holds, HasRecord
  <1>3. ASSUME ClaimBlocked(t) PROVE KinInv' /\ ThreadInv'
    <2>1. /\ WaitingInQueue(task[t]) /\ task' = [task EXCEPT ![t].cond = "Blocked"] /\ Touch({t})
          /\ UNCHANGED <<agent, child, lease, group, orphan, control, launch>>
      BY <1>3 DEF ClaimBlocked, HeadOfQueue
    <2>2. /\ task'[t].cond = "Blocked" /\ Kin(task'[t]) = Kin(task[t])
          /\ \A u \in Tasks \ {t} : task'[u] = task[u]
      BY <1>0, <2>1 DEF TaskRecords, Kin
    <2>3. ActiveStarted(t)'
      BY <2>2 DEF ActiveStarted, ActiveConditions
    <2>4. ~HasLoop(t) /\ \A l \in launch : l.task # t
      BY <2>1, WaitingNotLive
    <2> QED BY <2>1, <2>2, <2>3, <2>4, QueueCard
  <1>4. ASSUME NEW before \in Tasks \cup {None}, ReorderQueue(t, before) PROVE KinInv' /\ ThreadInv'
    <2>1. /\ \A u \in Tasks : task'[u] = task[u] \/ \E n : task'[u] = [task[u] EXCEPT !.pos = n]
          /\ UNCHANGED <<agent, child, lease, group, orphan, control, launch>> /\ review' \subseteq review
      BY <1>4 DEF ReorderQueue, Touch
    <2>2. ASSUME NEW u \in Tasks PROVE CardKept(u) /\ Kin(task'[u]) = Kin(task[u])
      <3>1. CASE task'[u] = task[u]
        BY <3>1 DEF CardKept
      <3>2. ASSUME NEW n, task'[u] = [task[u] EXCEPT !.pos = n] PROVE CardKept(u) /\ Kin(task'[u]) = Kin(task[u])
        BY <1>0, <3>2 DEF CardKept, Kin, TaskRecords
      <3> QED BY <2>1, <3>1, <3>2
    <2>3. /\ \A a \in Agents : AgentKept(a)
          /\ \A u \in Tasks : ControlKept(u) /\ CardKept(u)
      BY <2>1, <2>2 DEF AgentKept, ControlKept
    <2>4. ThreadInv'
      BY <2>1, <2>3, ThreadsKept
    <2> QED BY <1>0, <2>1, <2>2, <2>4, ClaimsUnchanged DEF HasRecord
  <1>5. ASSUME NEW a \in Agents, Claim(t, a) PROVE KinInv' /\ ThreadInv'
    <2> DEFINE l == [task |-> t, agent |-> a, vonly |-> FALSE, stage |-> "claimed", reuse |-> FALSE]
               chosen == Or(task[t].qagent, task[t].cont)
    <2>1. /\ WaitingInQueue(task[t]) /\ Claimable(t) /\ launch' = launch \cup {l} /\ Touch({t})
          /\ UNCHANGED <<agent, child, lease, group, orphan, control>>
          /\ IF chosen = None THEN Fresh(a) ELSE a = chosen
          /\ task[t].cont = a => HasRecord(a)
      BY <1>5 DEF Claim, HeadOfQueue
    <2>2. PICK cont \in {a, task[t].cont} :
            task' = [task EXCEPT ![t].qagent = a, ![t].assigned = a, ![t].cont = cont]
      BY <1>5 DEF Claim
    <2>3. l.task = t /\ l.agent = a /\ l.stage = "claimed" /\ ~l.reuse /\ ~l.vonly
      OBVIOUS
    <2> HIDE DEF l
    <2>4. /\ task'[t].cond = "Queued" /\ task'[t].assigned = a /\ task'[t].state \in {"Running", "InReview"}
          /\ task'[t].qagent = a /\ task'[t].cont = cont /\ task'[t].worker = task[t].worker
          /\ \A u \in Tasks \ {t} : task'[u] = task[u]
      BY <1>0, <2>1, <2>2, ColumnOf DEF TaskRecords, WaitingInQueue
    <2>5. ~HasLoop(t) /\ \A m \in launch : m.task # t
      BY <2>1, WaitingNotLive
    <2>6. /\ child[a] = "none" /\ lease[a] = "none"
          /\ \A u \in Tasks : control[u].owner # a
          /\ \A m \in launch : m.agent # a
          /\ Holds(t, a) \/ (~HasRecord(a) /\ \A u \in Tasks : ~Holds(u, a))
      <3>1. CASE chosen = None
        BY <2>1, <3>1, FreshFree
      <3>2. CASE chosen # None
        BY <2>1, <3>2, ChosenFree
      <3> QED BY <3>1, <3>2
    <2>7. ThreadInv'
      BY <2>1, <2>3, <2>4, <2>5, <2>6, NewLaunch
    <2>8. \A u \in Tasks, b \in Agents : Holds(u, b)' => Holds(u, b) \/ (u = t /\ b = a)
      BY <2>1, <2>4 DEF Holds, Kin
    <2>9. CASE Holds(t, a)
      <3>1. \A u \in Tasks, b \in Agents : Holds(u, b)' => Holds(u, b)
        BY <2>8, <2>9
      <3>2. KinInv'
        BY <1>0, <2>1, <3>1, ClaimsKept DEF HasRecord
      <3> QED BY <2>7, <3>2
    <2>10. CASE ~HasRecord(a) /\ \A u \in Tasks : ~Holds(u, a)
      BY <1>0, <2>1, <2>7, <2>8, <2>10, ClaimsFresh
    <2> QED BY <2>6, <2>9, <2>10
  <1> QED BY <1>1, <1>2, <1>3, <1>4, <1>5

\* What following its agent can make of a card.
LEMMA SyncedShape ==
    ASSUME NEW tk \in TaskRecords, NEW st, NEW live, NEW summary, NEW new, new = Synced(tk, st, live, summary), new # tk
    PROVE  /\ tk.state = "Running" /\ new.state \in {"Running", "InReview"}
           /\ new.assigned = tk.assigned /\ Kin(new) = Kin(tk)
  <1>1. tk.state = "Running"
    BY ColumnOf DEF Synced
  <1>2. new = Transition(tk, "Submit") \/ \E c : new = [tk EXCEPT !.cond = c]
    BY DEF Synced
  <1>3. CASE new = Transition(tk, "Submit")
    BY <1>1, <1>3 DEF Transition, TaskRecords, Kin
  <1>4. ASSUME NEW c, new = [tk EXCEPT !.cond = c]
        PROVE  new.state = tk.state /\ new.assigned = tk.assigned /\ Kin(new) = Kin(tk)
    BY <1>4 DEF TaskRecords, Kin
  <1> QED BY <1>1, <1>2, <1>3, <1>4

\* A step in which the task of agent a follows it.  sync_agent_task.
LEMMA SyncStep ==
    ASSUME ExecInv, TypeOK', NEW a \in Agents, NEW ag, NEW ch, NEW orph, NEW summary,
           task' = SyncedTasks(a, ag, ch, orph, AcceptanceOwners, summary),
           Touch({t \in Tasks : task'[t] # task[t]}),
           \A b \in Agents \ {a} : AgentKept(b), \A u \in Tasks : ControlKept(u),
           \A b \in Agents : HasRecord(b)' => HasRecord(b) /\ agent'[b].link = agent[b].link,
           launch' \subseteq launch, \A l \in launch' : l.agent # a,
           Covered(a)', \A u \in Tasks : control[u].owner = a => LoopHeld(u)'
    PROVE  KinInv' /\ ThreadInv'
  <1>0. /\ KinInv /\ ThreadInv /\ \A u \in Tasks : task[u] \in TaskRecords
    BY DEF ExecInv, EvidenceInv, TypeOK, TaskType
  <1> DEFINE As == {a}
             Ts == {t \in Tasks : task'[t] # task[t]}
             live == ch[a] # "none" \/ ag[a].st = "Working" \/ a \in orph
             new(t) == Synced(task[t], ag[a].st, live, summary)
  <1>1. \A t \in Ts : /\ a \notin AcceptanceOwners /\ task[t].assigned = a
                      /\ task'[t] = new(t) /\ new(t) # task[t]
    BY DEF SyncedTasks
  <1>2. \A t \in Ts : /\ task[t].state = "Running" /\ task'[t].state \in {"Running", "InReview"}
                      /\ Kin(task'[t]) = Kin(task[t])
    BY <1>0, <1>1, SyncedShape
  <1> HIDE DEF new, live
  <1>3. \A t \in Ts : ~HasLoop(t)
    <2> SUFFICES ASSUME NEW t \in Ts, HasLoop(t) PROVE FALSE
      OBVIOUS
    <2>1. control[t].owner \in AcceptanceOwners
      BY LoopAlone
    <2>2. LoopHeld(t)
      BY <1>0 DEF ThreadInv
    <2> QED BY <1>1, <1>2, <2>1, <2>2, NoneAssumption DEF LoopHeld, HasLoop
  <1>4. \A t \in Ts : LoopHeld(t)' /\ ActiveStarted(t)'
    BY <1>0, <1>2, <1>3 DEF ThreadInv, LoopHeld, HasLoop, ActiveStarted, ControlKept
  <1>5. \A l \in launch' : l.task \notin Ts
    BY <1>0, <1>1, BoardAssumption DEF ThreadInv, LaunchHeld
  <1>6. \A u \in Tasks \ Ts : task'[u] = task[u]
    OBVIOUS
  <1>7. Touch(Ts) /\ Ts \in SUBSET Tasks
    OBVIOUS
  <1> HIDE DEF Ts
  <1>8. /\ As \in SUBSET Agents /\ Ts \in SUBSET Tasks
        /\ \A b \in Agents \ As : AgentKept(b)
        /\ \A u \in Tasks \ Ts : ControlKept(u) /\ CardKept(u)
        /\ \A u \in Ts : control'[u].owner \in As \cup {None, control[u].owner}
        /\ \A k, m \in launch' : k.agent = m.agent => k = m
        /\ \A m \in launch' : LaunchHeld(m)' \/ (m \in launch /\ m.agent \notin As /\ m.task \notin Ts)
        /\ \A u \in Ts : LoopHeld(u)' /\ ActiveStarted(u)'
        /\ \A u \in Tasks \ Ts : control[u].owner \notin As \/ LoopHeld(u)'
        /\ \A r \in review' : ReviewIdle(r)' \/
             (r \in review /\ r.task \notin Ts /\ \A m \in launch' : m \in launch \/ m.task # r.task)
        /\ \A b \in As : Covered(b)'
    BY <1>0, <1>4, <1>5, <1>6, <1>7 DEF ThreadInv, CardKept, ControlKept, Touch
  <1> HIDE DEF As
  <1>9. ThreadInv'
    BY <1>8, Frame
  <1>10. /\ \A u \in Tasks : Kin(task'[u]) \subseteq Kin(task[u])
         /\ \A u \in Tasks : control'[u].owner \in {None, control[u].owner}
    BY <1>2, <1>6 DEF ControlKept
  <1>11. KinInv'
    BY <1>0, <1>10, ClaimsUnchanged
  <1> QED BY <1>9, <1>11

\* broadcast(AgentChanged) for an agent that has a child or that no loop owns.
LEMMA BroadcastExec ==
    ASSUME ExecInv, TypeOK', NEW a \in Agents, NEW ag, NEW ch, BroadcastAgent(a, ag, ch),
           child[a] # "none" \/ a \notin AcceptanceOwners,
           \A b \in Agents \ {a} : ch[b] = child[b],
           \A b \in Agents : ag[b].st # "none" => HasRecord(b) /\ ag[b].link = agent[b].link,
           \A u \in Tasks : ControlKept(u), group' = group,
           launch' \subseteq launch, \A l \in launch' : l.agent # a
    PROVE  KinInv' /\ ThreadInv'
  <1>0. TypeOK /\ Covered(a) /\ ThreadInv
    BY DEF ExecInv, EvidenceInv, ThreadInv
  <1> DEFINE stopped == ch[a] = "none" /\ ag[a].st \notin {"Working", "Stopping"}
             rel == IF stopped THEN Released(a, AcceptanceOwners) ELSE [lease |-> lease, orphan |-> orphan]
             orph == rel.orphan
  <1>1. /\ agent' = ag /\ child' = ch /\ lease' = rel.lease /\ orphan' = rel.orphan
        /\ Touch({t \in Tasks : task'[t] # task[t]})
    BY DEF BroadcastAgent
  <1>2. PICK summary : task' = SyncedTasks(a, ag, ch, orph, AcceptanceOwners, summary)
    BY DEF BroadcastAgent
  <1>3. Covered(a)' /\ \A b \in Agents \ {a} : lease'[b] = lease[b] /\ (b \in orphan' <=> b \in orphan)
    <2>1. CASE stopped
      BY <1>0, <1>1, <2>1, ReleasedCovers
    <2>2. CASE ~stopped
      BY <1>0, <1>1, <2>2 DEF Covered
    <2> QED BY <2>1, <2>2
  <1> HIDE DEF orph, rel, stopped
  <1>4. \A b \in Agents \ {a} : AgentKept(b)
    BY <1>1, <1>3 DEF AgentKept
  <1>5. \A b \in Agents : HasRecord(b)' => HasRecord(b) /\ agent'[b].link = agent[b].link
    BY <1>1 DEF HasRecord
  <1>6. ASSUME NEW u \in Tasks, control[u].owner = a PROVE LoopHeld(u)'
    <2>1. a \in AcceptanceOwners
      BY <1>6, NoneAssumption DEF AcceptanceOwners, OwnersIn
    <2>2. lease' = lease /\ orphan' = orphan /\ task' = task
      BY <1>0, <2>1, OwnerBroadcast
    <2>3. LoopHeld(u) /\ ControlKept(u) /\ child[a] # "none"
      BY <1>0, <2>1 DEF ThreadInv
    <2> QED BY <1>6, <2>2, <2>3 DEF LoopHeld, ControlKept
  <1> QED BY <1>1, <1>2, <1>3, <1>4, <1>5, <1>6, SyncStep

\* What an admission of a direct prompt has checked.
LEMMA DirectGrant ==
    ASSUME NEW a \in Agents, NEW p, Admission(a, p, TRUE) = "grant"
    PROVE  /\ a \notin AcceptanceOwners /\ lease[a] = "none"
           /\ \A t \in Tasks : task[t].cond = "Queued" => task[t].assigned # a
  BY DEF Admission

\* Turns typed into a conversation keep the invariant.
LEMMA PromptExec ==
    ASSUME ExecInv, TypeOK'
    PROVE  /\ \A a \in Agents : DirectPrompt(a) => KinInv' /\ ThreadInv'
           /\ \A l \in launch : PromptPanics(l) \/ PromptSpawns(l) \/ PromptRegisters(l) \/ PromptFails(l)
                                  => KinInv' /\ ThreadInv'
  <1>0. /\ TypeOK /\ KinInv /\ ThreadInv /\ launch \subseteq Launches /\ review \subseteq Reviews
        /\ agent \in [Agents -> [st : AgentStates, link : Tasks \cup {None}]]
        /\ lease \in [Agents -> LeaseStates] /\ child \in [Agents -> ChildStates]
    BY DEF ExecInv, EvidenceInv, TypeOK, ThreadType, AgentType, LeaseType
  <1>1. ASSUME NEW a \in Agents, DirectPrompt(a) PROVE KinInv' /\ ThreadInv'
    <2> DEFINE k == [task |-> None, agent |-> a, vonly |-> FALSE, stage |-> "acquired", reuse |-> FALSE]
    <2>1. /\ child[a] = "none" /\ (\A l \in launch : l.agent = a => l.task # None)
          /\ lease' = [lease EXCEPT ![a] = "reserved"] /\ launch' = launch \cup {k}
          /\ UNCHANGED <<task, agent, child, group, orphan, control, review>>
          /\ Admission(a, ProjectOf[agent[a].link], TRUE) = "grant"
      BY <1>1 DEF DirectPrompt
    <2>2. /\ a \notin AcceptanceOwners /\ lease[a] = "none"
          /\ \A t \in Tasks : task[t].cond = "Queued" => task[t].assigned # a
      BY <2>1, DirectGrant
    <2>3. k.task = None /\ k.agent = a /\ k.stage = "acquired" /\ ~k.reuse /\ ~k.vonly
      OBVIOUS
    <2> HIDE DEF k
    <2>4. \A l \in launch : l.agent # a
      <3> SUFFICES ASSUME NEW l \in launch, l.agent = a PROVE FALSE
        OBVIOUS
      <3>1. l.task \in Tasks /\ LaunchHeld(l) /\ l.task # None
        BY <1>0, <2>1 DEF Launches, ThreadInv
      <3> QED BY <2>2, <3>1 DEF LaunchHeld
    <2>5. /\ a \notin group \cup orphan /\ \A u \in Tasks : control[u].owner # a
      BY <1>0, <2>2, NoneAssumption DEF ThreadInv, Covered, AcceptanceOwners, OwnersIn
    <2>6. LaunchHeld(k)'
      BY <1>0, <2>1, <2>3, <2>5 DEF LaunchHeld
    <2>7. /\ \A b \in Agents \ {a} : AgentKept(b)
          /\ \A u \in Tasks : ControlKept(u) /\ CardKept(u) /\ control[u].owner # a
          /\ \A x, m \in launch' : x.agent = m.agent => x = m
          /\ \A m \in launch' : LaunchHeld(m)' \/ (m \in launch /\ m.agent # a)
          /\ review' \subseteq review
          /\ \A r \in review' : \A m \in launch' : m \in launch \/ m.task # r.task
          /\ Covered(a)'
      BY <1>0, <2>1, <2>3, <2>4, <2>5, <2>6, BoardAssumption
      DEF ThreadInv, AgentKept, ControlKept, CardKept, Covered, Reviews
    <2>8. ThreadInv'
      BY <2>7, LaunchFrame
    <2>9. KinInv'
      BY <1>0, <2>1 DEF KinInv, Holds, HasRecord
    <2> QED BY <2>8, <2>9
  <1>2. ASSUME NEW l \in launch, PromptPanics(l) PROVE KinInv' /\ ThreadInv'
    <2>1. UNCHANGED <<task, agent, child, lease, group, orphan, control, launch, review>>
      BY <1>2 DEF PromptPanics
    <2>2. /\ \A a \in Agents : AgentKept(a)
          /\ \A u \in Tasks : ControlKept(u) /\ CardKept(u)
          /\ review' \subseteq review
      BY <2>1 DEF AgentKept, ControlKept, CardKept
    <2>3. ThreadInv'
      BY <2>1, <2>2, ThreadsKept
    <2> QED BY <1>0, <2>1, <2>3 DEF KinInv, Holds, HasRecord
  <1>3. ASSUME NEW l \in launch, PromptSpawns(l) PROVE KinInv' /\ ThreadInv'
    <2>0. PICK a \in Agents : a = l.agent
      BY LaunchAlone
    <2> DEFINE k == [l EXCEPT !.stage = "spawned"]
    <2>1. /\ l.task = None /\ l.stage = "acquired"
          /\ group' = group \cup {a} /\ lease' = [lease EXCEPT ![a] = IF @ = "none" THEN "none" ELSE "worker"]
          /\ launch' = (launch \ {l}) \cup {k}
          /\ UNCHANGED <<task, agent, child, orphan, control, review>>
      BY <1>3, <2>0 DEF PromptSpawns, RecordGroup
    <2>2. /\ LaunchHeld(l) /\ (\A m \in launch \ {l} : m.agent # a)
      BY <2>0, LaunchAlone
    <2>3. k.task = None /\ k.agent = a /\ k.stage = "spawned" /\ k.reuse = l.reuse /\ k.vonly = l.vonly
      BY <1>0, <2>0, <2>1 DEF Launches
    <2> HIDE DEF k
    <2>4. /\ lease'[a] = "worker" /\ \A u \in Tasks : control[u].owner # a
      BY <1>0, <2>0, <2>1, <2>2 DEF LaunchHeld
    <2>5. LaunchHeld(k)'
      BY <2>0, <2>1, <2>2, <2>3, <2>4 DEF LaunchHeld
    <2>6. /\ \A b \in Agents \ {a} : AgentKept(b)
          /\ \A u \in Tasks : ControlKept(u) /\ CardKept(u) /\ control[u].owner # a
          /\ \A x, m \in launch' : x.agent = m.agent => x = m
          /\ \A m \in launch' : LaunchHeld(m)' \/ (m \in launch /\ m.agent # a)
          /\ review' \subseteq review
          /\ \A r \in review' : \A m \in launch' : m \in launch \/ m.task # r.task
          /\ Covered(a)'
      BY <1>0, <2>1, <2>2, <2>3, <2>4, <2>5, BoardAssumption
      DEF ThreadInv, AgentKept, ControlKept, CardKept, Covered, Reviews
    <2>7. ThreadInv'
      BY <2>6, LaunchFrame
    <2>8. KinInv'
      BY <1>0, <2>1 DEF KinInv, Holds, HasRecord
    <2> QED BY <2>7, <2>8
  <1>4. ASSUME NEW l \in launch, PromptFails(l) \/ (PromptRegisters(l) /\ ~HasRecord(l.agent)) PROVE KinInv' /\ ThreadInv'
    <2>0. PICK a \in Agents : a = l.agent
      BY LaunchAlone
    <2>1. /\ l.task = None /\ launch' = launch \ {l}
          /\ lease' = Dropped(a).lease /\ orphan' = Dropped(a).orphan
          /\ UNCHANGED <<task, child, group, control, review>>
          /\ agent' = agent \/ (HasRecord(a) /\ agent' = [agent EXCEPT ![a].st = "Failed"])
      BY <1>4, <2>0 DEF PromptFails, PromptRegisters
    <2>2. /\ LaunchHeld(l) /\ a \notin AcceptanceOwners /\ (\A m \in launch \ {l} : m.agent # a)
      BY <2>0, LaunchAlone
    <2>3. /\ Covered(a)'
          /\ \A b \in Agents \ {a} : lease'[b] = lease[b] /\ (b \in orphan' <=> b \in orphan)
      BY <1>0, <2>1, <2>2, DroppedCovers DEF ThreadInv
    <2>4. /\ \A b \in Agents \ {a} : AgentKept(b)
          /\ \A u \in Tasks : ControlKept(u) /\ CardKept(u) /\ control[u].owner # a
          /\ \A x, m \in launch' : x.agent = m.agent => x = m
          /\ \A m \in launch' : LaunchHeld(m)' \/ (m \in launch /\ m.agent # a)
          /\ review' \subseteq review
          /\ \A r \in review' : \A m \in launch' : m \in launch \/ m.task # r.task
      BY <1>0, <2>0, <2>1, <2>2, <2>3 DEF ThreadInv, AgentKept, ControlKept, CardKept, LaunchHeld
    <2>5. ThreadInv'
      BY <2>3, <2>4, LaunchFrame
    <2>6. \A b \in Agents : HasRecord(b)' => HasRecord(b) /\ agent'[b].link = agent[b].link
      BY <1>0, <2>1 DEF HasRecord
    <2>7. KinInv'
      BY <1>0, <2>1, <2>6, ClaimsUnchanged
    <2> QED BY <2>5, <2>7
  <1>5. ASSUME NEW l \in launch, PromptRegisters(l), HasRecord(l.agent) PROVE KinInv' /\ ThreadInv'
    <2>0. PICK a \in Agents : a = l.agent
      BY LaunchAlone
    <2> DEFINE ag == [agent EXCEPT ![a].st = "Working"]
               ch == [child EXCEPT ![a] = "open"]
    <2>1. BroadcastAgent(a, ag, ch) /\ launch' = launch \ {l} /\ group' = group /\ control' = control
      BY <1>5, <2>0 DEF PromptRegisters
    <2>2. /\ a \notin AcceptanceOwners /\ (\A m \in launch \ {l} : m.agent # a)
      BY <2>0, LaunchAlone
    <2>3. /\ \A b \in Agents \ {a} : ch[b] = child[b]
          /\ \A b \in Agents : ag[b].st # "none" => HasRecord(b) /\ ag[b].link = agent[b].link
      BY <1>0, <1>5, <2>0 DEF HasRecord
    <2> HIDE DEF ag, ch
    <2>4. /\ \A u \in Tasks : ControlKept(u)
          /\ launch' \subseteq launch /\ \A m \in launch' : m.agent # a
      BY <2>1, <2>2 DEF ControlKept
    <2> QED BY <2>1, <2>2, <2>3, <2>4, BroadcastExec
  <1> QED BY <1>1, <1>2, <1>3, <1>4, <1>5

\* What happens to agents and their processes keeps the invariant.
LEMMA RuntimeExec ==
    ASSUME ExecInv, TypeOK'
    PROVE  /\ ReapOrphanWriters \/ EditWorkspace => KinInv' /\ ThreadInv'
           /\ \A p \in Projects : SetPaused(p) => KinInv' /\ ThreadInv'
           /\ \A a \in Agents : TurnCompletes(a) \/ FinishAgent(a) \/ Stops(a) \/ DeleteAgent(a) \/ GroupExits(a)
                                  => KinInv' /\ ThreadInv'
  <1>0. /\ TypeOK /\ KinInv /\ ThreadInv /\ launch \subseteq Launches /\ QuietOps
        /\ agent \in [Agents -> [st : AgentStates, link : Tasks \cup {None}]]
        /\ child \in [Agents -> ChildStates] /\ control \in [Tasks -> Loops] /\ orphan \subseteq Agents
    BY DEF ExecInv, EvidenceInv, TypeOK, ThreadType, LoopType, AgentType, LeaseType
  <1>1. ASSUME ReapOrphanWriters PROVE KinInv' /\ ThreadInv'
    <2>1. PICK a \in Reapable, summary \in BOOLEAN :
            /\ lease' = Released(a, AcceptanceOwners).lease
            /\ orphan' = Released(a, AcceptanceOwners).orphan
            /\ task' = SyncedTasks(a, agent, child, Released(a, AcceptanceOwners).orphan, AcceptanceOwners, summary)
            /\ Touch({t \in Tasks : task'[t] # task[t]})
            /\ UNCHANGED <<agent, child, group, control, launch>>
      BY <1>1 DEF ReapOrphanWriters
    <2>2. a \in Agents /\ a \in orphan /\ a \notin AcceptanceOwners
      BY <1>0 DEF Reapable
    <2>3. /\ Covered(a)'
          /\ \A b \in Agents \ {a} : lease'[b] = lease[b] /\ (b \in orphan' <=> b \in orphan)
      BY <1>0, <2>1, <2>2, ReleasedCovers DEF ThreadInv
    <2> DEFINE orph == Released(a, AcceptanceOwners).orphan
    <2>4. task' = SyncedTasks(a, agent, child, orph, AcceptanceOwners, summary)
      BY <2>1
    <2> HIDE DEF orph
    <2>5. /\ \A b \in Agents \ {a} : AgentKept(b)
          /\ \A u \in Tasks : ControlKept(u)
          /\ \A b \in Agents : HasRecord(b)' => HasRecord(b) /\ agent'[b].link = agent[b].link
          /\ launch' \subseteq launch /\ \A l \in launch' : l.agent # a
      BY <1>0, <2>1, <2>2, <2>3 DEF ThreadInv, LaunchHeld, AgentKept, ControlKept, HasRecord
    <2>6. \A u \in Tasks : control[u].owner = a => LoopHeld(u)'
      BY <2>2, NoneAssumption DEF AcceptanceOwners, OwnersIn
    <2> QED BY <2>1, <2>2, <2>3, <2>4, <2>5, <2>6, SyncStep
  <1>2. ASSUME /\ UNCHANGED <<task, child, lease, orphan, control, launch, review>> /\ group' \subseteq group
               /\ \A b \in Agents : HasRecord(b)' => HasRecord(b) /\ agent'[b].link = agent[b].link
        PROVE  KinInv' /\ ThreadInv'
    <2>1. /\ \A a \in Agents : AgentKept(a)
          /\ \A u \in Tasks : ControlKept(u) /\ CardKept(u)
          /\ review' \subseteq review
      BY <1>2 DEF AgentKept, ControlKept, CardKept
    <2>2. ThreadInv'
      BY <1>2, <2>1, ThreadsKept
    <2> QED BY <1>0, <1>2, <2>2, ClaimsUnchanged
  <1>3. EditWorkspace => KinInv' /\ ThreadInv'
    BY <1>2 DEF EditWorkspace, HasRecord
  <1>4. ASSUME NEW p \in Projects, SetPaused(p) PROVE KinInv' /\ ThreadInv'
    BY <1>2, <1>4 DEF SetPaused, HasRecord
  <1>5. ASSUME NEW a \in Agents, DeleteAgent(a) \/ GroupExits(a) PROVE KinInv' /\ ThreadInv'
    <2>1. CASE DeleteAgent(a)
      BY <1>0, <1>2, <2>1 DEF DeleteAgent, HasRecord
    <2>2. CASE GroupExits(a)
      BY <1>2, <2>2 DEF GroupExits, HasRecord
    <2> QED BY <1>5, <2>1, <2>2
  <1>6. ASSUME NEW a \in Agents, NEW st, NEW c, child[a] # "none", HasRecord(a) \/ st = agent[a].st,
               BroadcastAgent(a, [agent EXCEPT ![a].st = st], [child EXCEPT ![a] = c]),
               \A u \in Tasks : ControlKept(u), group' = group, launch' = launch
        PROVE  KinInv' /\ ThreadInv'
    <2> DEFINE ag == [agent EXCEPT ![a].st = st]
               ch == [child EXCEPT ![a] = c]
    <2>1. BroadcastAgent(a, ag, ch)
      BY <1>6
    <2>2. /\ \A b \in Agents \ {a} : ch[b] = child[b]
          /\ \A b \in Agents : ag[b].st # "none" => HasRecord(b) /\ ag[b].link = agent[b].link
      BY <1>0, <1>6 DEF HasRecord
    <2> HIDE DEF ag, ch
    <2>3. launch' \subseteq launch /\ \A l \in launch' : l.agent # a
      BY <1>0, <1>6 DEF ThreadInv, LaunchHeld
    <2> QED BY <1>6, <2>1, <2>2, <2>3, BroadcastExec
  <1>7. ASSUME NEW a \in Agents, TurnCompletes(a) PROVE KinInv' /\ ThreadInv'
    <2>1. PICK st : BroadcastAgent(a, [agent EXCEPT ![a].st = IF HasRecord(a) THEN st ELSE @], [child EXCEPT ![a] = "closing"])
      BY <1>7 DEF TurnCompletes
    <2>2. PICK x : x = IF HasRecord(a) THEN st ELSE agent[a].st
      OBVIOUS
    <2>3. BroadcastAgent(a, [agent EXCEPT ![a].st = x], [child EXCEPT ![a] = "closing"])
      BY <2>1, <2>2
    <2>4. child[a] # "none" /\ (\A u \in Tasks : ControlKept(u)) /\ group' = group /\ launch' = launch
      BY <1>7 DEF TurnCompletes, ControlKept
    <2> QED BY <1>6, <2>2, <2>3, <2>4
  <1>8. ASSUME NEW a \in Agents, FinishAgent(a) PROVE KinInv' /\ ThreadInv'
    <2>1. PICK x : x = IF agent[a].st = "Stopping" THEN "Interrupted"
                       ELSE IF agent[a].st = "Working" THEN "Failed" ELSE agent[a].st
      OBVIOUS
    <2>2. BroadcastAgent(a, [agent EXCEPT ![a].st = x], [child EXCEPT ![a] = "none"])
      BY <1>0, <1>8, <2>1 DEF FinishAgent
    <2>3. child[a] # "none" /\ (\A u \in Tasks : ControlKept(u)) /\ group' = group /\ launch' = launch
      BY <1>8 DEF FinishAgent, ControlKept
    <2>4. HasRecord(a) \/ x = agent[a].st
      BY <2>1 DEF HasRecord
    <2> QED BY <1>6, <2>2, <2>3, <2>4
  <1>9. ASSUME NEW a \in Agents, Stops(a) PROVE KinInv' /\ ThreadInv'
    <2>1. /\ child[a] = "none" => \A l \in launch : l.agent # a
          /\ group' = group /\ launch' = launch /\ control' = CancelledLoops(a)
      BY <1>0, <1>9 DEF Stops, QuietOps
    <2>2. \A u \in Tasks : ControlKept(u)
      BY <1>0, <2>1 DEF CancelledLoops, ControlKept, Loops
    <2>3. ASSUME UNCHANGED <<task, child, lease, orphan, review>>,
                 \A b \in Agents : HasRecord(b)' => HasRecord(b) /\ agent'[b].link = agent[b].link
          PROVE  KinInv' /\ ThreadInv'
      <3>1. (\A b \in Agents : AgentKept(b)) /\ (\A u \in Tasks : CardKept(u)) /\ review' \subseteq review
        BY <2>1, <2>3 DEF AgentKept, CardKept
      <3>2. ThreadInv'
        BY <2>1, <2>2, <3>1, ThreadsKept
      <3> QED BY <1>0, <2>2, <2>3, <3>2, ClaimsUnchanged DEF ControlKept
    <2>4. CASE HasRecord(a)
      <3> DEFINE st == IF child[a] # "none" THEN "Stopping" ELSE "Interrupted"
                 ag == [agent EXCEPT ![a].st = st]
      <3>1. BroadcastAgent(a, ag, child)
        BY <1>9, <2>4 DEF Stops, StopEffect
      <3>2. \A b \in Agents : ag[b].st # "none" => HasRecord(b) /\ ag[b].link = agent[b].link
        BY <1>0, <2>4 DEF HasRecord
      <3> HIDE DEF ag
      <3>3. CASE child[a] # "none" \/ a \notin AcceptanceOwners
        <4>1. launch' \subseteq launch /\ \A l \in launch' : l.agent # a
          BY <1>0, <2>1 DEF ThreadInv, LaunchHeld
        <4> QED BY <2>1, <2>2, <3>1, <3>2, <3>3, <4>1, BroadcastExec
      <3>4. CASE a \in AcceptanceOwners
        <4>1. UNCHANGED <<task, child, lease, orphan, review>> /\ agent' = ag
          BY <1>0, <3>1, <3>4, OwnerBroadcast
        <4> QED BY <2>3, <3>2, <4>1 DEF HasRecord
      <3> QED BY <3>3, <3>4
    <2>5. CASE ~HasRecord(a)
      BY <1>9, <2>3, <2>5 DEF Stops, HasRecord
    <2> QED BY <2>4, <2>5
  <1> QED BY <1>1, <1>3, <1>4, <1>5, <1>7, <1>8, <1>9

\* Initially nobody has a claim and no thread runs.
LEMMA InitExec == QuietOps /\ Init /\ EvidenceInv => ExecInv
  <1> SUFFICES ASSUME QuietOps, Init, EvidenceInv PROVE ExecInv
    OBVIOUS
  <1>1. /\ \A t \in Tasks : task[t] = NewTask /\ control[t] = NoLoop
        /\ \A a \in Agents : agent[a].st = "none"
        /\ launch = {} /\ review = {} /\ group = {} /\ orphan = {}
    BY DEF Init
  <1>2. KinInv
    BY <1>1, NoneAssumption DEF KinInv, Holds, Kin, NewTask, NoLoop
  <1>3. ThreadInv
    BY <1>1 DEF ThreadInv, LoopHeld, NoLoop, ActiveStarted, NewTask, ActiveConditions, Covered
  <1> QED BY <1>2, <1>3 DEF ExecInv

\* Every step keeps claims exclusive and threads sound.
LEMMA NextExec == ExecInv /\ EvidenceInv' /\ [Next]_vars => ExecInv'
  <1> SUFFICES ASSUME ExecInv, EvidenceInv', [Next]_vars PROVE KinInv' /\ ThreadInv'
    BY DEF ExecInv, QuietOps
  <1>0. TypeOK'
    BY DEF EvidenceInv
  <1>1. CASE UserStep
    <2>1. ASSUME NEW t \in Tasks, \/ Enqueue(t) \/ RequestChangesQueued(t) \/ CancelLoop(t) \/ PlanChanges(t)
                                  \/ \E choice \in MaybeAgent : SelectAgent(t, choice)
                                  \/ \E before \in Tasks \cup {None} : ReorderQueue(t, before)
                                  \/ \E op \in ReviewOps : BeginReview(t, op)
                                  \/ \E action \in CardActions : CardTransition(t, action)
                                  \/ \E a \in Agents : Start(t, a)
          PROVE KinInv' /\ ThreadInv'
      BY <1>0, <2>1, QueueExec, SelectExec, BeginExec, CardExec, LoopThreads, LoopClaims
    <2>2. ASSUME NEW p \in Projects, SetPaused(p) PROVE KinInv' /\ ThreadInv'
      BY <1>0, <2>2, RuntimeExec
    <2>3. ASSUME NEW a \in Agents, DirectPrompt(a) \/ Stops(a) \/ DeleteAgent(a) PROVE KinInv' /\ ThreadInv'
      BY <1>0, <2>3, PromptExec, RuntimeExec
    <2> QED BY <1>1, <2>1, <2>2, <2>3 DEF UserStep, StopAgent, StopCancelled
  <1>2. CASE QueueStep
    BY <1>0, <1>2, RuntimeExec, QueueExec DEF QueueStep
  <1>3. ASSUME NEW l \in launch, LaunchStep(l) PROVE KinInv' /\ ThreadInv'
    BY <1>0, <1>3, PromptExec, LaunchExec DEF LaunchStep
  <1>4. ASSUME NEW t \in Tasks, LoopStep(t) PROVE KinInv' /\ ThreadInv'
    BY <1>0, <1>4, LoopThreads, LoopClaims
  <1>5. ASSUME NEW r \in review, ReviewStep(r) PROVE KinInv' /\ ThreadInv'
    BY <1>0, <1>5, ReviewExec
  <1>6. ASSUME NEW a \in Agents, TurnCompletes(a) \/ FinishAgent(a) \/ GroupExits(a) PROVE KinInv' /\ ThreadInv'
    BY <1>0, <1>6, RuntimeExec
  <1>7. CASE EditWorkspace \/ CrashRestart
    BY <1>0, <1>7, RuntimeExec, CrashExec
  <1>8. CASE UNCHANGED vars
    <2>1. /\ \A a \in Agents : AgentKept(a)
          /\ \A u \in Tasks : ControlKept(u) /\ CardKept(u)
          /\ launch' = launch /\ review' \subseteq review
          /\ task' = task /\ agent' = agent /\ control' = control
      BY <1>8 DEF vars, AgentKept, ControlKept, CardKept
    <2>2. ThreadInv'
      BY <1>0, <2>1, ThreadsKept
    <2> QED BY <2>1, <2>2 DEF ExecInv, KinInv, Holds, HasRecord
  <1> QED BY <1>1, <1>2, <1>3, <1>4, <1>5, <1>6, <1>7, <1>8 DEF Next

\* No two tasks come to have a claim on one agent, and every thread that launches, loops
\* or reviews holds what its stage needs, through every unlock of the runtime's mutex
\* (claim_board_task, WriterGuard, acceptance_cycle, acceptance_request).  A cancellation
\* stops the owner of its loop in a later step, whatever that agent does by then; as in all
\* theorems about QuietOps, only a stop between an admission and its spawn is left out.
THEOREM ExecutionInvariant == QuietOps /\ Spec => []ExecInv
  BY EvidenceInvariant, InitExec, NextExec, PTL DEF Spec

\* A process group, also one that survived a restart, exists only under a reservation
\* that names it (WriterGuard, release_writer, orphan_writer_groups), as long as no Stop and
\* no late stop of a cancelled loop comes between the admission of an agent and its spawn.
THEOREM GroupsAreReserved == QuietOps /\ Spec => []ReservationCoversGroup
  <1>1. ExecInv => ReservationCoversGroup
    BY DEF ExecInv, EvidenceInv, TypeOK, LeaseType, ThreadInv, Covered, ReservationCoversGroup
  <1> QED BY <1>1, ExecutionInvariant, PTL

\* No conversation is selected by two queued tasks, for any number of tasks and agents
\* (SelectAgent, claim_board_task), if no stop leaves a launch behind that relinks its agent.
THEOREM SelectionIsExclusive == QuietOps /\ Spec => []LockExclusive
  <1>1. ExecInv => LockExclusive
    BY DEF ExecInv, EvidenceInv, TypeOK, TaskType, TaskRecords, MaybeAgent, KinInv, Holds, Kin, LockExclusive
  <1> QED BY <1>1, ExecutionInvariant, PTL

-----------------------------------------------------------------------------
(* How cards move. *)

\* How a step may change the state of a card: it enters review when the processes of
\* its agent are gone, Done when nothing executes it, and In Progress from Todo or
\* Backlog by a request.
Moved(t) ==
    \/ task'[t].state = task[t].state
    \/ task'[t].state \in {"Backlog", "Ready"}
    \/ task'[t].state = "Running" /\ (task[t].state \in {"Running", "InReview"} \/ task'[t].cond \in {"Idle", "Queued"})
    \/ /\ task'[t].state = "InReview"
       /\ \E a \in Agents : task[t].assigned = a /\ child'[a] = "none" /\ a \notin group'
    \/ task'[t].state = "Accepted" /\ (~TaskLive(t) \/ "Accept" \in Ops)

\* A step that leaves the cards alone.
LEMMA StatesKept ==
    ASSUME task' = task
    PROVE  \A t \in Tasks : Moved(t)
  BY DEF Moved

\* A card enters review by following an agent that completed and has no process left.
LEMMA SyncMoves ==
    ASSUME TypeOK, NEW a \in Agents, NEW ag, NEW ch, NEW orph, NEW summary,
           task' = SyncedTasks(a, ag, ch, orph, AcceptanceOwners, summary),
           child' = ch, ch[a] = "none" /\ ag[a].st = "Completed" /\ a \notin orph /\ a \notin AcceptanceOwners => a \notin group'
    PROVE  \A t \in Tasks : Moved(t)
  <1> SUFFICES ASSUME NEW t \in Tasks PROVE Moved(t)
    OBVIOUS
  <1> DEFINE live == ch[a] # "none" \/ ag[a].st = "Working" \/ a \in orph
             new == Synced(task[t], ag[a].st, live, summary)
  <1>1. task[t] \in TaskRecords
    BY DEF TypeOK, TaskType
  <1>2. CASE task'[t] = task[t]
    BY <1>2 DEF Moved
  <1>3. CASE task'[t] # task[t]
    <2>1. a \notin AcceptanceOwners /\ task[t].assigned = a /\ task'[t] = new
      BY <1>3 DEF SyncedTasks
    <2>2. \/ new = Transition(task[t], "Submit") /\ ~live /\ ag[a].st = "Completed"
          \/ \E c : new = [task[t] EXCEPT !.cond = c]
      BY <1>3, <2>1 DEF Synced
    <2> HIDE DEF new
    <2>3. CASE new = Transition(task[t], "Submit") /\ ~live /\ ag[a].st = "Completed"
      <3>1. task'[t].state = "InReview"
        BY <1>1, <2>1, <2>3, ZenonT(60) DEF Transition, TaskRecords
      <3> QED BY <2>1, <2>3, <3>1 DEF Moved
    <2>4. ASSUME NEW c, new = [task[t] EXCEPT !.cond = c] PROVE Moved(t)
      BY <1>1, <2>1, <2>4 DEF Moved, TaskRecords
    <2> QED BY <2>2, <2>3, <2>4
  <1> QED BY <1>2, <1>3

\* broadcast(AgentChanged): a stopped agent whose group survives is an orphan.
LEMMA BroadcastMoves ==
    ASSUME ExecInv, NEW a \in Agents, NEW ag, NEW ch, BroadcastAgent(a, ag, ch), group' = group
    PROVE  \A t \in Tasks : Moved(t)
  <1>0. TypeOK /\ Covered(a)
    BY DEF ExecInv, EvidenceInv, ThreadInv
  <1> DEFINE stopped == ch[a] = "none" /\ ag[a].st \notin {"Working", "Stopping"}
             rel == IF stopped THEN Released(a, AcceptanceOwners) ELSE [lease |-> lease, orphan |-> orphan]
             orph == rel.orphan
  <1>1. child' = ch /\ lease' = rel.lease /\ orphan' = orph
    BY DEF BroadcastAgent
  <1>2. PICK summary : task' = SyncedTasks(a, ag, ch, orph, AcceptanceOwners, summary)
    BY DEF BroadcastAgent
  <1>3. ASSUME ch[a] = "none", ag[a].st = "Completed", a \notin orph, a \notin AcceptanceOwners PROVE a \notin group'
    <2>1. lease' = Released(a, AcceptanceOwners).lease /\ orphan' = Released(a, AcceptanceOwners).orphan
      BY <1>1, <1>3
    <2> QED BY <1>0, <1>1, <1>3, <2>1, ReleasedCovers
  <1> HIDE DEF orph
  <1> QED BY <1>0, <1>1, <1>2, <1>3, SyncMoves

\* What happens to agents and prompts.
LEMMA RuntimeMoves ==
    ASSUME ExecInv
    PROVE  /\ ReapOrphanWriters \/ EditWorkspace => \A t \in Tasks : Moved(t)
           /\ \A a \in Agents : \/ DirectPrompt(a) \/ TurnCompletes(a) \/ FinishAgent(a) \/ Stops(a)
                                \/ DeleteAgent(a) \/ GroupExits(a)
                                => \A t \in Tasks : Moved(t)
           /\ \A l \in launch : PromptPanics(l) \/ PromptSpawns(l) \/ PromptRegisters(l) \/ PromptFails(l)
                                => \A t \in Tasks : Moved(t)
  <1>1. ASSUME ReapOrphanWriters PROVE \A t \in Tasks : Moved(t)
    <2>1. PICK a \in Reapable, summary \in BOOLEAN :
            /\ task' = SyncedTasks(a, agent, child, Released(a, AcceptanceOwners).orphan, AcceptanceOwners, summary)
            /\ UNCHANGED <<child, group>>
      BY <1>1 DEF ReapOrphanWriters
    <2>2. a \in Agents /\ a \notin group' /\ TypeOK
      BY <2>1 DEF Reapable, ExecInv, EvidenceInv, TypeOK, LeaseType
    <2> DEFINE orph == Released(a, AcceptanceOwners).orphan
    <2>3. task' = SyncedTasks(a, agent, child, orph, AcceptanceOwners, summary) /\ child' = child
      BY <2>1
    <2> HIDE DEF orph
    <2> QED BY <2>2, <2>3, SyncMoves
  <1>2. ASSUME EditWorkspace PROVE \A t \in Tasks : Moved(t)
    BY <1>2, StatesKept DEF EditWorkspace
  <1>3. ASSUME NEW a \in Agents, DirectPrompt(a) \/ DeleteAgent(a) \/ GroupExits(a) PROVE \A t \in Tasks : Moved(t)
    BY <1>3, StatesKept DEF DirectPrompt, DeleteAgent, GroupExits
  <1>4. ASSUME NEW a \in Agents, TurnCompletes(a) \/ FinishAgent(a) \/ Stops(a) PROVE \A t \in Tasks : Moved(t)
    <2>1. CASE Stops(a) /\ ~HasRecord(a)
      BY <2>1, StatesKept DEF Stops
    <2>2. CASE ~(Stops(a) /\ ~HasRecord(a))
      <3>1. (\E ag, ch : BroadcastAgent(a, ag, ch)) /\ group' = group
        BY <1>4, <2>2 DEF TurnCompletes, FinishAgent, Stops, StopEffect
      <3> QED BY <3>1, BroadcastMoves
    <2> QED BY <2>1, <2>2
  <1>5. ASSUME NEW l \in launch, PromptPanics(l) \/ PromptSpawns(l) \/ PromptFails(l) PROVE \A t \in Tasks : Moved(t)
    BY <1>5, StatesKept DEF PromptPanics, PromptSpawns, PromptFails
  <1>6. ASSUME NEW l \in launch, PromptRegisters(l) PROVE \A t \in Tasks : Moved(t)
    <2>1. CASE HasRecord(l.agent)
      <3>1. (\E ag, ch : BroadcastAgent(l.agent, ag, ch)) /\ group' = group
        BY <1>6, <2>1 DEF PromptRegisters
      <3> QED BY <3>1, BroadcastMoves, LaunchAlone
    <2>2. CASE ~HasRecord(l.agent)
      BY <1>6, <2>2, StatesKept DEF PromptRegisters
    <2> QED BY <2>1, <2>2
  <1> QED BY <1>1, <1>2, <1>3, <1>4, <1>5, <1>6

\* The operations of the queue.
LEMMA QueueMoves ==
    ASSUME ExecInv, NEW t \in Tasks
    PROVE  /\ Enqueue(t) \/ RequestChangesQueued(t) \/ PlanChanges(t) \/ ClaimBlocked(t) => \A u \in Tasks : Moved(u)
           /\ \A choice \in MaybeAgent : SelectAgent(t, choice) => \A u \in Tasks : Moved(u)
           /\ \A before \in Tasks \cup {None} : ReorderQueue(t, before) => \A u \in Tasks : Moved(u)
           /\ \A a \in Agents : Claim(t, a) => \A u \in Tasks : Moved(u)
  <1>0. task \in [Tasks -> TaskRecords] /\ \A u \in Tasks : task[u] \in TaskRecords
    BY DEF ExecInv, EvidenceInv, TypeOK, TaskType
  <1>1. ASSUME Enqueue(t) \/ RequestChangesQueued(t) PROVE \A u \in Tasks : Moved(u)
    <2>1. PICK pos : task' = [task EXCEPT ![t] = Waiting(@, pos)]
      BY <1>1 DEF Enqueue, RequestChangesQueued
    <2>2. task'[t].state = "Running" /\ task'[t].cond = "Queued" /\ \A u \in Tasks \ {t} : task'[u] = task[u]
      BY <1>0, <2>1 DEF Waiting, TaskRecords
    <2> QED BY <2>2 DEF Moved
  <1>2. ASSUME PlanChanges(t) PROVE \A u \in Tasks : Moved(u)
    BY <1>2, StatesKept DEF PlanChanges
  <1>3. ASSUME ClaimBlocked(t) PROVE \A u \in Tasks : Moved(u)
    BY <1>0, <1>3 DEF ClaimBlocked, Moved, TaskRecords
  <1>4. ASSUME NEW choice \in MaybeAgent, SelectAgent(t, choice) PROVE \A u \in Tasks : Moved(u)
    <2>1. \A u \in Tasks : task'[u] = task[u] \/ \E c : task'[u] = [Unqueued(task[u]) EXCEPT !.assigned = c, !.cont = c]
      BY <1>4 DEF SelectAgent
    <2>2. ASSUME NEW u \in Tasks, NEW c, task'[u] = [Unqueued(task[u]) EXCEPT !.assigned = c, !.cont = c]
          PROVE  task'[u].state = task[u].state
      BY <1>0, <2>2 DEF Unqueued, TaskRecords
    <2>3. \A u \in Tasks : task'[u].state = task[u].state
      BY <2>1, <2>2
    <2> QED BY <2>3 DEF Moved
  <1>5. ASSUME NEW before \in Tasks \cup {None}, ReorderQueue(t, before) PROVE \A u \in Tasks : Moved(u)
    <2>1. \A u \in Tasks : task'[u] = task[u] \/ \E n : task'[u] = [task[u] EXCEPT !.pos = n]
      BY <1>5 DEF ReorderQueue
    <2>2. ASSUME NEW u \in Tasks, NEW n, task'[u] = [task[u] EXCEPT !.pos = n]
          PROVE  task'[u].state = task[u].state
      BY <1>0, <2>2 DEF TaskRecords
    <2>3. \A u \in Tasks : task'[u].state = task[u].state
      BY <2>1, <2>2
    <2> QED BY <2>3 DEF Moved
  <1>6. ASSUME NEW a \in Agents, Claim(t, a) PROVE \A u \in Tasks : Moved(u)
    <2>1. PICK cont : task' = [task EXCEPT ![t].qagent = a, ![t].assigned = a, ![t].cont = cont]
      BY <1>6 DEF Claim
    <2>2. \A u \in Tasks : task'[u].state = task[u].state
      BY <1>0, <2>1 DEF TaskRecords
    <2> QED BY <2>2 DEF Moved
  <1> QED BY <1>1, <1>2, <1>3, <1>4, <1>5, <1>6

\* A failed launch or loop blocks a task that was started.  acceptance_block.
LEMMA BlockMoves ==
    ASSUME ExecInv, NEW t \in Tasks, NEW pc, BlockTask(t, pc), task[t].state \in {"Running", "InReview"}
    PROVE  \A u \in Tasks : Moved(u)
  <1>0. task \in [Tasks -> TaskRecords] /\ task[t] \in TaskRecords
    BY DEF ExecInv, EvidenceInv, TypeOK, TaskType
  <1>1. task'[t] = BlockedTask(task[t]) /\ \A u \in Tasks \ {t} : task'[u] = task[u]
    BY <1>0 DEF BlockTask
  <1>2. task'[t].state = "Running"
    BY <1>0, <1>1 DEF BlockedTask, TaskRecords
  <1> QED BY <1>1, <1>2 DEF Moved

\* Launches and loops.
LEMMA LoopMoves ==
    ASSUME ExecInv
    PROVE  /\ \A l \in launch : LaunchAcquire(l) \/ LaunchControl(l) => \A u \in Tasks : Moved(u)
           /\ \A t \in Tasks : LoopStep(t) \/ CancelLoop(t) => \A u \in Tasks : Moved(u)
  <1>0. task \in [Tasks -> TaskRecords] /\ \A u \in Tasks : task[u] \in TaskRecords
    BY DEF ExecInv, EvidenceInv, TypeOK, TaskType
  <1>1. ASSUME NEW l \in launch, LaunchAcquire(l) \/ LaunchControl(l) PROVE \A u \in Tasks : Moved(u)
    <2>1. CASE LaunchAcquire(l) /\ BlockTask(l.task, control[l.task].pc)
      <3>1. l.task \in Tasks /\ task[l.task].state \in {"Running", "InReview"}
        BY <2>1, LaunchAlone DEF LaunchAcquire, LaunchHeld
      <3> QED BY <2>1, <3>1, BlockMoves
    <2>2. CASE ~(LaunchAcquire(l) /\ BlockTask(l.task, control[l.task].pc))
      BY <1>1, <2>2, StatesKept DEF LaunchAcquire, LaunchControl
    <2> QED BY <2>1, <2>2
  <1>2. ASSUME NEW t \in Tasks, LoopStep(t) \/ CancelLoop(t) PROVE \A u \in Tasks : Moved(u)
    <2>1. CASE \/ AdmitWorker(t) \/ SpawnWorker(t) \/ LaunchFails(t) \/ StartValidator(t) \/ ValidatorEnds(t)
               \/ LoopError(t) \/ EndLoop(t) \/ CancelLoop(t)
      <3>1. task' = task
        BY <2>1 DEF AdmitWorker, SpawnWorker, LaunchFails, StartValidator, ValidatorEnds, LoopError, EndLoop, CancelLoop
      <3> QED BY <3>1, StatesKept
    <2>2. CASE Preflight(t)
      <3>1. PICK new \in Agents :
              task' = [task EXCEPT ![t].assigned = IF control[t].ordinal > 1 /\ ~task[t].queued THEN new ELSE @,
                                   ![t].worker   = IF control[t].vonly THEN @ ELSE new,
                                   ![t].cond     = IF control[t].vonly THEN "Running" ELSE "Queued"]
        BY <2>2 DEF Preflight
      <3>2. \A u \in Tasks : task'[u].state = task[u].state
        BY <1>0, <3>1 DEF TaskRecords
      <3> QED BY <3>2 DEF Moved
    <2>3. CASE RegisterWorker(t) \/ WorkerExited(t)
      <3>1. task' = task \/ task' = [task EXCEPT ![t].cond = "Running"]
        BY <2>3 DEF RegisterWorker, WorkerExited
      <3>2. \A u \in Tasks : task'[u].state = task[u].state
        BY <1>0, <3>1 DEF TaskRecords
      <3> QED BY <3>2 DEF Moved
    <2>4. CASE StopWorker(t)
      <3>1. CASE HasRecord(control[t].owner)
        <4>1. /\ \E ag, ch : BroadcastAgent(control[t].owner, ag, ch)
              /\ group' = group /\ HasLoop(t)
          BY <2>4, <3>1 DEF StopWorker, StopEffect, HasLoop
        <4> QED BY <4>1, LoopAlone, BroadcastMoves
      <3>2. CASE ~HasRecord(control[t].owner)
        BY <2>4, <3>2, StatesKept DEF StopWorker
      <3> QED BY <3>1, <3>2
    <2>5. CASE Judge(t)
      <3>0. HasLoop(t) /\ LoopHeld(t) /\ control[t].pc \in {"validating", "checked"} /\ control[t].owner \notin group
        BY <2>5 DEF Judge, HasLoop, ExecInv, ThreadInv
      <3>1. CASE task' = task
        BY <3>1, StatesKept
      <3>2. CASE task' # task
        <4>1. PICK x : task' = [task EXCEPT ![t].sub = ws, ![t].state = "InReview", ![t].cond = "Idle", ![t].assigned = x]
          BY <2>5, <3>2 DEF Judge
        <4>2. UNCHANGED <<child, group>>
          BY <2>5 DEF Judge
        <4>3. PICK a \in Agents : a = control[t].owner
          BY <3>0, LoopAlone
        <4>4. task[t].assigned = a /\ child[a] = "none"
          BY <3>0, <4>3 DEF LoopHeld, Quiet, Checker
        <4>5. task'[t].state = "InReview" /\ \A u \in Tasks \ {t} : task'[u] = task[u]
          BY <1>0, <4>1 DEF TaskRecords
        <4> QED BY <3>0, <4>2, <4>3, <4>4, <4>5 DEF Moved
      <3> QED BY <3>1, <3>2
    <2>6. CASE BlockLoop(t)
      <3>1. BlockTask(t, "ending") /\ HasLoop(t) /\ LoopHeld(t)
        BY <2>6 DEF BlockLoop, HasLoop, ExecInv, ThreadInv
      <3> QED BY <3>1, BlockMoves DEF LoopHeld, HasLoop
    <2> QED BY <1>2, <2>1, <2>2, <2>3, <2>4, <2>5, <2>6 DEF LoopStep
  <1> QED BY <1>1, <1>2

\* Review requests, cards and restarts.
LEMMA CardMoves ==
    ASSUME ExecInv
    PROVE  /\ \A r \in review : ReviewStep(r) => \A u \in Tasks : Moved(u)
           /\ \A t \in Tasks, action \in CardActions : CardTransition(t, action) => \A u \in Tasks : Moved(u)
           /\ \A t \in Tasks, a \in Agents : Start(t, a) => \A u \in Tasks : Moved(u)
           /\ CrashRestart => \A u \in Tasks : Moved(u)
  <1>0. task \in [Tasks -> TaskRecords] /\ \A u \in Tasks : task[u] \in TaskRecords
    BY DEF ExecInv, EvidenceInv, TypeOK, TaskType
  <1>1. ASSUME NEW r \in review, ReviewStep(r) PROVE \A u \in Tasks : Moved(u)
    <2>0. PICK t \in Tasks : t = r.task
      BY DEF ExecInv, EvidenceInv, TypeOK, ThreadType, Reviews
    <2>1. CASE CommitAccept(r) \/ CommitRelease(r)
      <3>1. CASE task' = task
        BY <3>1, StatesKept
      <3>2. CASE task' # task
        <4>1. /\ task' = [task EXCEPT ![t] = Transition(@, "Accept")]
              /\ ~TaskLive(t) \/ r.op = "Accept"
          BY <2>0, <2>1, <3>2 DEF CommitAccept, CommitRelease
        <4>2. task'[t].state = "Accepted" /\ \A u \in Tasks \ {t} : task'[u] = task[u]
          BY <1>0, <4>1 DEF Transition, TaskRecords
        <4>3. r.op \in Ops
          BY DEF ExecInv, ThreadInv, ReviewIdle
        <4> QED BY <4>1, <4>2, <4>3 DEF Moved
      <3> QED BY <3>1, <3>2
    <2>2. ASSUME NEW a \in Agents, CommitLaunch(r, a) PROVE \A u \in Tasks : Moved(u)
      <3> DEFINE moved == Transition(task[t], "RequestChanges")
      <3>1. task' = [task EXCEPT ![t] =
                IF r.op = "Revalidate" THEN [task[t] EXCEPT !.assigned = a, !.cond = "Queued"]
                ELSE [moved EXCEPT !.assigned = a, !.cond = "Queued", !.sub = None]]
        BY <2>0, <2>2 DEF CommitLaunch
      <3>2. moved \in TaskRecords /\ moved.state = "Running"
        BY <1>0, TransitionType, ZenonT(60) DEF Transition, TaskRecords
      <3> HIDE DEF moved
      <3>3. /\ task'[t].cond = "Queued" /\ (task'[t].state = task[t].state \/ task'[t].state = "Running")
            /\ \A u \in Tasks \ {t} : task'[u] = task[u]
        <4>1. CASE r.op = "Revalidate"
          BY <1>0, <3>1, <4>1 DEF TaskRecords
        <4>2. CASE r.op # "Revalidate"
          BY <1>0, <3>1, <3>2, <4>2 DEF TaskRecords
        <4> QED BY <4>1, <4>2
      <3> QED BY <3>3 DEF Moved
    <2> QED BY <1>1, <2>1, <2>2 DEF ReviewStep
  <1>2. ASSUME NEW t \in Tasks, NEW action \in CardActions, CardTransition(t, action) PROVE \A u \in Tasks : Moved(u)
    <2> DEFINE next == Transition(task[t], action)
    <2>1. /\ task'[t] = next \/ (\E c, d : task'[t] = [Unqueued(next) EXCEPT !.cont = c, !.assigned = d, !.cond = "Idle"])
          /\ \A u \in Tasks \ {t} : task'[u] = task[u]
      <3>1. PICK x : task' = [task EXCEPT ![t] = x] /\ \/ x = next
                                                       \/ (\E c : x = [Unqueued(next) EXCEPT !.cont = c, !.assigned = c, !.cond = "Idle"])
                                                       \/ x = [Unqueued(next) EXCEPT !.cond = "Idle"]
        BY <1>2 DEF CardTransition
      <3>2. next \in TaskRecords
        BY <1>0, TransitionType
      <3> HIDE DEF next
      <3>3. [Unqueued(next) EXCEPT !.cond = "Idle"] =
            [Unqueued(next) EXCEPT !.cont = next.cont, !.assigned = next.assigned, !.cond = "Idle"]
        BY <3>2 DEF Unqueued, TaskRecords
      <3> QED BY <1>0, <3>1, <3>3
    <2>2. /\ next.state \in {task[t].state, "Backlog", "Ready"} \/ (next.state = "Running" /\ next.cond = "Idle")
      BY <1>0 DEF Transition, CardActions, TaskRecords
    <2>3. next \in TaskRecords
      BY <1>0, TransitionType
    <2> HIDE DEF next
    <2>4. task'[t].state = next.state /\ (task'[t].cond = next.cond \/ task'[t].cond = "Idle")
      <3>1. ASSUME NEW c, NEW d, task'[t] = [Unqueued(next) EXCEPT !.cont = c, !.assigned = d, !.cond = "Idle"]
            PROVE  task'[t].state = next.state /\ task'[t].cond = "Idle"
        BY <2>3, <3>1 DEF Unqueued, TaskRecords
      <3> QED BY <2>1, <3>1
    <2> QED BY <2>1, <2>2, <2>4 DEF Moved
  <1>3. ASSUME NEW t \in Tasks, NEW a \in Agents, Start(t, a) PROVE \A u \in Tasks : Moved(u)
    <2> DEFINE moved == Transition(task[t], "Start")
    <2>1. task' = [task EXCEPT ![t] = [moved EXCEPT !.assigned = a, !.cond = "Queued"]]
      BY <1>3 DEF Start
    <2>2. moved \in TaskRecords /\ moved.state = "Running"
      BY <1>0, TransitionType, ZenonT(60) DEF Transition, TaskRecords
    <2> HIDE DEF moved
    <2>3. task'[t].state = "Running" /\ task'[t].cond = "Queued" /\ \A u \in Tasks \ {t} : task'[u] = task[u]
      BY <1>0, <2>1, <2>2 DEF TaskRecords
    <2> QED BY <2>3 DEF Moved
  <1>4. ASSUME CrashRestart PROVE \A u \in Tasks : Moved(u)
    <2> SUFFICES ASSUME NEW u \in Tasks PROVE Moved(u)
      OBVIOUS
    <2>1. task'[u] = Reconciled(task[u])
      BY <1>4 DEF CrashRestart
    <2>2. CASE WaitingInQueue(task[u]) \/ task[u].cond \notin ActiveConditions
      BY <2>1, <2>2 DEF Reconciled, Moved
    <2>3. CASE ~(WaitingInQueue(task[u]) \/ task[u].cond \notin ActiveConditions)
      <3>1. task'[u] = [task[u] EXCEPT !.cond = "Blocked", !.state = "Running", !.sub = None]
        BY <2>1, <2>3 DEF Reconciled
      <3>2. task[u].state \in {"Running", "InReview"}
        BY <2>3 DEF ExecInv, ThreadInv, ActiveStarted
      <3> QED BY <1>0, <3>1, <3>2 DEF Moved, TaskRecords
    <2> QED BY <2>2, <2>3
  <1> QED BY <1>1, <1>2, <1>3, <1>4

\* Every step.
LEMMA NextMoves == ExecInv /\ [Next]_vars => \A t \in Tasks : Moved(t)
  <1> SUFFICES ASSUME ExecInv, [Next]_vars PROVE \A t \in Tasks : Moved(t)
    OBVIOUS
  <1>1. CASE UserStep
    <2>1. ASSUME NEW p \in Projects, SetPaused(p) PROVE \A t \in Tasks : Moved(t)
      BY <2>1, StatesKept DEF SetPaused
    <2>2. ASSUME NEW t \in Tasks, NEW op \in ReviewOps, BeginReview(t, op) PROVE \A u \in Tasks : Moved(u)
      BY <2>2, StatesKept DEF BeginReview
    <2> QED BY <1>1, <2>1, <2>2, QueueMoves, LoopMoves, CardMoves, RuntimeMoves DEF UserStep, StopAgent, StopCancelled
  <1>2. CASE QueueStep
    BY <1>2, RuntimeMoves, QueueMoves DEF QueueStep
  <1>3. ASSUME NEW l \in launch, LaunchStep(l) PROVE \A t \in Tasks : Moved(t)
    BY <1>3, RuntimeMoves, LoopMoves DEF LaunchStep
  <1>4. CASE UNCHANGED vars
    BY <1>4, StatesKept DEF vars
  <1> QED BY <1>1, <1>2, <1>3, <1>4, RuntimeMoves, LoopMoves, CardMoves DEF Next

\* No failing launch pulls a card out of Todo (acceptance_block, prepare_task_request), if
\* no stop marked the task of that launch failed before, so that its card could be moved.
THEOREM TodoIsLeftByRequest == QuietOps /\ Spec => TodoLeavesByRequest
  <1>1. ASSUME ExecInv, TypeOK', [Next]_vars, NEW t \in Tasks, Column(task[t]) = "Todo", Column(task'[t]) = "InProgress"
        PROVE  task'[t].cond \in {"Idle", "Queued"}
    <2>1. Moved(t) /\ task[t] \in TaskRecords /\ task'[t] \in TaskRecords
      BY <1>1, NextMoves DEF ExecInv, EvidenceInv, TypeOK, TaskType
    <2> QED BY <1>1, <2>1, ColumnOf DEF Moved
  <1>2. ExecInv /\ TypeOK' /\ [Next]_vars =>
          [\A t \in Tasks : Column(task[t]) = "Todo" /\ Column(task'[t]) = "InProgress" => task'[t].cond \in {"Idle", "Queued"}]_vars
    BY <1>1
  <1> QED BY <1>2, ExecutionInvariant, TypeCorrect, PTL DEF Spec, TodoLeavesByRequest

\* A task enters review only when the processes of its agent are gone
\* (sync_agent_task, acceptance_cycle), if no stop released the reservation of a prompt
\* under way.
THEOREM ReviewFollowsExit == QuietOps /\ Spec => ReviewOnlyAfterExit
  <1>1. ASSUME ExecInv, TypeOK', [Next]_vars, NEW t \in Tasks, Column(task[t]) = "InProgress", Column(task'[t]) = "InReview"
        PROVE  LET a == task[t].assigned IN a # None /\ child'[a] = "none" /\ a \notin group'
    <2>1. Moved(t) /\ task[t] \in TaskRecords /\ task'[t] \in TaskRecords
      BY <1>1, NextMoves DEF ExecInv, EvidenceInv, TypeOK, TaskType
    <2> QED BY <1>1, <2>1, ColumnOf, NoneAssumption DEF Moved
  <1>2. ExecInv /\ TypeOK' /\ [Next]_vars =>
          [\A t \in Tasks :
             Column(task[t]) = "InProgress" /\ Column(task'[t]) = "InReview" =>
               LET a == task[t].assigned
               IN  a # None /\ child'[a] = "none" /\ a \notin group']_vars
    BY <1>1
  <1> QED BY <1>2, ExecutionInvariant, TypeCorrect, PTL DEF Spec, ReviewOnlyAfterExit

\* Without the Accept of a single task, whose commit does not ask again, no task is
\* accepted while it is live (release_request).
THEOREM ReleasesAcceptIdleTasks == QuietOps /\ "Accept" \notin Ops /\ Spec => AcceptsIdle
  <1>1. ASSUME ExecInv, [Next]_vars, "Accept" \notin Ops, NEW t \in Tasks,
               task[t].state # "Accepted", task'[t].state = "Accepted"
        PROVE  ~TaskLive(t)
    BY <1>1, NextMoves DEF Moved
  <1>2. "Accept" \notin Ops /\ ExecInv /\ [Next]_vars =>
          [\A t \in Tasks : task[t].state # "Accepted" /\ task'[t].state = "Accepted" => ~TaskLive(t)]_vars
    BY <1>1
  <1>3. ASSUME "Accept" \notin Ops PROVE QuietOps /\ Spec => AcceptsIdle
    BY <1>2, <1>3, ExecutionInvariant, PTL DEF Spec, AcceptsIdle
  <1> QED BY <1>3, Zenon

-----------------------------------------------------------------------------
(* Who settles a task. *)

\* The task's own agent has a process left that will settle it.
Served(t) ==
    /\ task[t].state = "Running" /\ ~task[t].archived
    /\ \E a \in Agents : /\ task[t].assigned = a /\ HasRecord(a) /\ agent[a].link = t
                         /\ child[a] # "none" \/ a \in orphan

\* Somebody will settle an executing task.
Actor(t) ==
    task[t].cond \in ActiveConditions =>
      WaitingInQueue(task[t]) \/ HasLoop(t) \/ (\E l \in launch : l.task = t) \/ Served(t)

\* A conversation that works has a child.
WorksWithChild(a) == AgentActive(a) => child[a] # "none"

\* Every executing task has an actor.  Conversations are not deleted: delete_agent does
\* not look at a surviving process group, whose task then waits for ever.
ActorInv ==
    /\ "delete" \notin Ops
    /\ \A t \in Tasks : Actor(t)
    /\ \A a \in Agents : WorksWithChild(a)

\* An agent that has a process keeps it, and its link.
Stays(a) ==
    HasRecord(a) /\ (child[a] # "none" \/ a \in orphan) =>
        HasRecord(a)' /\ agent'[a].link = agent[a].link /\ (child'[a] # "none" \/ a \in orphan')

\* A step that touches the tasks Ts only.
LEMMA ActorsFrame ==
    ASSUME ActorInv, NEW Ts, \A t \in Tasks \ Ts : ControlKept(t) /\ CardKept(t),
           \A t \in Tasks \ Ts : (\E l \in launch : l.task = t) => (\E l \in launch' : l.task = t),
           \A t \in Tasks \ Ts, a \in Agents : agent[a].link = t => Stays(a),
           \A t \in Tasks : t \in Ts => Actor(t)',
           \A a \in Agents : WorksWithChild(a)'
    PROVE  ActorInv'
  <1>1. ASSUME NEW t \in Tasks, t \notin Ts PROVE Actor(t)'
    <2>1. ControlKept(t) /\ CardKept(t) /\ Actor(t)
      BY <1>1 DEF ActorInv
    <2>2. /\ HasLoop(t) => HasLoop(t)'
          /\ WaitingInQueue(task[t]) => WaitingInQueue(task'[t])
      BY <2>1 DEF ControlKept, CardKept, HasLoop, WaitingInQueue, Column
    <2>3. Served(t) => Served(t)'
      <3> SUFFICES ASSUME Served(t) PROVE Served(t)'
        OBVIOUS
      <3>1. PICK a \in Agents : /\ task[t].assigned = a /\ HasRecord(a) /\ agent[a].link = t
                                /\ child[a] # "none" \/ a \in orphan
        BY DEF Served
      <3>2. Stays(a)
        BY <1>1, <3>1
      <3> QED BY <2>1, <3>1, <3>2 DEF Served, Stays, CardKept
    <2> QED BY <1>1, <2>1, <2>2, <2>3 DEF Actor, CardKept
  <1> QED BY <1>1 DEF ActorInv

\* A step that changes no agent that has a process.
LEMMA ActorsCard ==
    ASSUME ActorInv, NEW t \in Tasks, \A u \in Tasks \ {t} : task'[u] = task[u] /\ control'[u] = control[u],
           UNCHANGED <<agent, child, orphan>>,
           \A l \in launch : l.task # t => l \in launch',
           Actor(t)'
    PROVE  ActorInv'
  <1> DEFINE Ts == {t}
  <1>1. /\ \A u \in Tasks \ Ts : ControlKept(u) /\ CardKept(u)
        /\ \A u \in Tasks \ Ts : (\E l \in launch : l.task = u) => (\E l \in launch' : l.task = u)
        /\ \A u \in Tasks \ Ts, a \in Agents : agent[a].link = u => Stays(a)
        /\ \A u \in Tasks : u \in Ts => Actor(u)'
        /\ \A a \in Agents : WorksWithChild(a)'
    BY DEF ControlKept, CardKept, Stays, HasRecord, ActorInv, WorksWithChild, AgentActive
  <1> HIDE DEF Ts
  <1> QED BY <1>1, ActorsFrame

\* A step that changes neither cards nor loops nor agents.
LEMMA ActorsKept ==
    ASSUME ActorInv, \A u \in Tasks : ControlKept(u) /\ CardKept(u),
           \A l \in launch : l.task # None => \E m \in launch' : m.task = l.task,
           \A a \in Agents : Stays(a) /\ WorksWithChild(a)'
    PROVE  ActorInv'
  <1> DEFINE Ts == {}
  <1>1. /\ \A u \in Tasks \ Ts : ControlKept(u) /\ CardKept(u)
        /\ \A u \in Tasks \ Ts : (\E l \in launch : l.task = u) => (\E l \in launch' : l.task = u)
        /\ \A u \in Tasks \ Ts, a \in Agents : agent[a].link = u => Stays(a)
        /\ \A u \in Tasks : u \in Ts => Actor(u)'
        /\ \A a \in Agents : WorksWithChild(a)'
    BY BoardAssumption
  <1> HIDE DEF Ts
  <1> QED BY <1>1, ActorsFrame

\* Agents as they were.
LEMMA AgentsStay ==
    ASSUME ActorInv, UNCHANGED <<agent, child, orphan>>
    PROVE  \A a \in Agents : Stays(a) /\ WorksWithChild(a)'
  BY DEF Stays, HasRecord, ActorInv, WorksWithChild, AgentActive

\* The task of agent a follows it: it is shown as executing while the agent has a
\* process.  sync_agent_task.
LEMMA SyncActors ==
    ASSUME ExecInv, ActorInv, NEW a \in Agents, NEW summary,
           task' = SyncedTasks(a, agent', child', orphan', AcceptanceOwners, summary),
           \A b \in Agents \ {a} : Stays(b),
           HasRecord(a)' <=> HasRecord(a), HasRecord(a) => agent'[a].link = agent[a].link,
           \A u \in Tasks : ControlKept(u),
           \A l \in launch : l.task # None => l \in launch',
           \A b \in Agents : WorksWithChild(b)'
    PROVE  ActorInv'
  <1>0. /\ KinInv /\ ThreadInv /\ \A u \in Tasks : task[u] \in TaskRecords
    BY DEF ExecInv, EvidenceInv, TypeOK, TaskType
  <1> SUFFICES ASSUME NEW t \in Tasks, task'[t].cond \in ActiveConditions,
                      ~HasLoop(t)', \A l \in launch' : l.task # t, ~WaitingInQueue(task'[t])
               PROVE  Served(t)'
    BY DEF ActorInv, Actor
  <1>1. ~HasLoop(t) /\ \A l \in launch : l.task # t
    BY BoardAssumption DEF ControlKept, HasLoop
  <1> DEFINE mine == /\ a \notin AcceptanceOwners
                     /\ agent'[a].st # "none" /\ agent'[a].link = t
                     /\ task[t].assigned = a
             live == child'[a] # "none" \/ agent'[a].st = "Working" \/ a \in orphan'
             new == Synced(task[t], agent'[a].st, live, summary)
  <1>2. task'[t] = IF mine THEN new ELSE task[t]
    BY DEF SyncedTasks
  <1>3. ASSUME task'[t] = task[t] PROVE Served(t)
    <2>1. Actor(t)
      BY DEF ActorInv
    <2> QED BY <1>1, <1>3, <2>1 DEF Actor
  <1>4. CASE mine
    <2>1. CASE task'[t] = task[t]
      <3>1. task[t].state = "Running" /\ ~task[t].archived /\ task[t].cond \in ActiveConditions
        BY <1>3, <2>1 DEF Served
      <3>2. Column(task[t]) = "InProgress" /\ MayTransition(task[t], "Submit")
        BY <1>0, <3>1, ColumnOf DEF MayTransition, InWorkflow, ActiveConditions
      <3>3. new.cond = "Running" /\ live
        <4>1. new.cond \in ActiveConditions /\ new = task[t]
          BY <1>2, <1>4, <2>1
        <4>2. Transition(task[t], "Submit").cond = "Idle"
          BY <1>0 DEF Transition, TaskRecords
        <4>3. \A c : [task[t] EXCEPT !.cond = c].cond = c
          BY <1>0 DEF TaskRecords
        <4> QED BY <3>1, <3>2, <4>1, <4>2, <4>3 DEF Synced, ActiveConditions
      <3>4. child'[a] # "none" \/ a \in orphan'
        BY <3>3 DEF WorksWithChild, AgentActive
      <3> QED BY <1>4, <2>1, <3>1, <3>4 DEF Served, HasRecord
    <2>2. CASE task'[t] # task[t]
      <3>1. new # task[t] /\ task'[t] = new
        BY <1>2, <1>4, <2>2
      <3>2. ~task[t].archived /\ task[t].state = "Running"
        BY <1>0, <3>1, ColumnOf DEF Synced
      <3>3. Transition(task[t], "Submit").cond = "Idle"
        BY <1>0 DEF Transition, TaskRecords
      <3>4. PICK c : new = [task[t] EXCEPT !.cond = c] /\ (c \in ActiveConditions => live)
        BY <3>1, <3>3 DEF Synced, ActiveConditions
      <3> HIDE DEF new
      <3>5. new.cond = c /\ new.state = "Running" /\ ~new.archived /\ new.assigned = a
        BY <1>0, <1>4, <3>2, <3>4 DEF TaskRecords
      <3>6. child'[a] # "none" \/ a \in orphan'
        BY <3>1, <3>4, <3>5 DEF WorksWithChild, AgentActive
      <3> QED BY <1>4, <3>1, <3>5, <3>6 DEF Served, HasRecord
    <2> QED BY <2>1, <2>2
  <1>5. CASE ~mine
    <2>1. task'[t] = task[t] /\ Served(t)
      BY <1>2, <1>3, <1>5
    <2>2. PICK b \in Agents : /\ task[t].assigned = b /\ HasRecord(b) /\ agent[b].link = t
                              /\ child[b] # "none" \/ b \in orphan
      BY <2>1 DEF Served
    <2>3. b # a
      <3> SUFFICES ASSUME b = a PROVE FALSE
        OBVIOUS
      <3>1. a \in AcceptanceOwners
        BY <1>5, <2>2 DEF HasRecord
      <3>2. PICK v \in Tasks : control[v].owner = a
        BY <3>1 DEF AcceptanceOwners, OwnersIn
      <3>3. v = t
        BY <1>0, <2>2, <3>2 DEF KinInv, Holds
      <3> QED BY <1>0, <1>1, <3>2, <3>3, NoneAssumption DEF ThreadInv, LoopHeld, HasLoop
    <2>4. Stays(b)
      BY <2>3
    <2> QED BY <2>1, <2>2, <2>4 DEF Served, Stays
  <1> QED BY <1>4, <1>5

\* broadcast(AgentChanged).
LEMMA BroadcastActors ==
    ASSUME ExecInv, ActorInv, NEW a \in Agents, NEW st, NEW c,
           BroadcastAgent(a, [agent EXCEPT ![a].st = st], [child EXCEPT ![a] = c]),
           group' = group, st # "none" <=> HasRecord(a), st \in {"Working", "Stopping"} => c # "none",
           \A u \in Tasks : ControlKept(u),
           \A l \in launch : l.task # None => l \in launch'
    PROVE  ActorInv'
  <1>0. /\ TypeOK /\ Covered(a) /\ agent \in [Agents -> [st : AgentStates, link : Tasks \cup {None}]]
        /\ child \in [Agents -> ChildStates]
    BY DEF ExecInv, EvidenceInv, ThreadInv, TypeOK, AgentType
  <1> DEFINE ag == [agent EXCEPT ![a].st = st]
             ch == [child EXCEPT ![a] = c]
             stopped == ch[a] = "none" /\ ag[a].st \notin {"Working", "Stopping"}
             rel == IF stopped THEN Released(a, AcceptanceOwners) ELSE [lease |-> lease, orphan |-> orphan]
  <1>1. agent' = ag /\ child' = ch /\ lease' = rel.lease /\ orphan' = rel.orphan
    BY DEF BroadcastAgent
  <1>2. PICK summary : task' = SyncedTasks(a, agent', child', orphan', AcceptanceOwners, summary)
    BY <1>1 DEF BroadcastAgent
  <1>3. \A b \in Agents \ {a} : b \in orphan' <=> b \in orphan
    <2>1. CASE stopped
      BY <1>0, <1>1, <2>1, ReleasedCovers
    <2>2. CASE ~stopped
      BY <1>1, <2>2
    <2> QED BY <2>1, <2>2
  <1> HIDE DEF rel, stopped
  <1>4. /\ \A b \in Agents \ {a} : agent'[b] = agent[b] /\ child'[b] = child[b]
        /\ agent'[a].st = st /\ agent'[a].link = agent[a].link /\ child'[a] = c
    BY <1>0, <1>1
  <1>5. \A b \in Agents \ {a} : Stays(b)
    BY <1>3, <1>4 DEF Stays, HasRecord
  <1>6. \A b \in Agents : WorksWithChild(b)'
    BY <1>4 DEF ActorInv, WorksWithChild, AgentActive
  <1>7. (HasRecord(a)' <=> HasRecord(a)) /\ (HasRecord(a) => agent'[a].link = agent[a].link)
    BY <1>4 DEF HasRecord
  <1> QED BY <1>2, <1>5, <1>6, <1>7, SyncActors

-----------------------------------------------------------------------------
\* A step of a loop changes its own task and owner only.
LEMMA LoopLocal ==
    ASSUME ExecInv, ActorInv, NEW t \in Tasks, LoopStep(t) \/ CancelLoop(t), NEW a, a = control[t].owner
    PROVE  /\ \A u \in Tasks \ {t} : task'[u] = task[u] /\ control'[u] = control[u]
           /\ \A b \in Agents \ {a} : agent'[b] = agent[b] /\ child'[b] = child[b] /\ (b \in orphan => b \in orphan')
           /\ WorksWithChild(a)' /\ launch' = launch
           /\ HasLoop(t)' \/ task'[t].cond \notin ActiveConditions
  <1>0. HasLoop(t)
    BY DEF LoopStep, CancelLoop, HasLoop, Preflight, AdmitWorker, SpawnWorker, LaunchFails, RegisterWorker,
           StopWorker, WorkerExited, StartValidator, ValidatorEnds, Judge, LoopError, BlockLoop, EndLoop
  <1>1. /\ TypeOK /\ task \in [Tasks -> TaskRecords] /\ control \in [Tasks -> Loops] /\ a \in Agents
        /\ agent \in [Agents -> [st : AgentStates, link : Tasks \cup {None}]] /\ child \in [Agents -> ChildStates]
        /\ LoopHeld(t) /\ WorksWithChild(a) /\ a \in AcceptanceOwners /\ Covered(a) /\ control[t].pc # "none"
    BY <1>0, LoopAlone DEF ExecInv, ThreadInv, EvidenceInv, TypeOK, TaskType, AgentType, ThreadType, LoopType, ActorInv, HasLoop
  <1>2. ASSUME UNCHANGED <<agent, child>> PROVE WorksWithChild(a)'
    BY <1>1, <1>2 DEF WorksWithChild, AgentActive
  <1>3. CASE Preflight(t)
    <2>1. PICK new \in Agents :
            /\ task' = [task EXCEPT ![t].assigned = IF control[t].ordinal > 1 /\ ~task[t].queued THEN new ELSE @,
                                    ![t].worker   = IF control[t].vonly THEN @ ELSE new,
                                    ![t].cond     = IF control[t].vonly THEN "Running" ELSE "Queued"]
            /\ control' = [control EXCEPT ![t] =
                 [control[t] EXCEPT !.owner = new, !.att = TRUE, !.pc = IF control[t].vonly THEN "validating" ELSE "launch",
                           !.fp = IF control[t].vonly THEN ws ELSE None]]
      BY <1>3 DEF Preflight
    <2>2. UNCHANGED <<agent, child, orphan, launch>>
      BY <1>3 DEF Preflight
    <2>3. HasLoop(t)'
      BY <1>1, <2>1 DEF HasLoop, Loops
    <2> QED BY <1>1, <1>2, <2>1, <2>2, <2>3
  <1>4. CASE AdmitWorker(t)
    <2>1. PICK x \in {"failed", "launching"} : \E y : control' = [control EXCEPT ![t].pc = x, ![t].reuse = y]
      BY <1>4 DEF AdmitWorker
    <2>2. UNCHANGED <<task, agent, child, orphan, launch>>
      BY <1>4 DEF AdmitWorker
    <2>3. HasLoop(t)' /\ \A u \in Tasks \ {t} : control'[u] = control[u]
      BY <1>1, <2>1 DEF HasLoop, Loops
    <2> QED BY <1>2, <2>2, <2>3
  <1>5. CASE SpawnWorker(t) \/ StartValidator(t) \/ ValidatorEnds(t) \/ LoopError(t)
    <2>1. UNCHANGED <<task, agent, child, orphan, launch>>
      BY <1>5 DEF SpawnWorker, StartValidator, ValidatorEnds, LoopError
    <2>2. PICK x \in {"spawned", "checking", "checked", "failed"} : control' = [control EXCEPT ![t].pc = x]
      BY <1>5 DEF SpawnWorker, StartValidator, ValidatorEnds, LoopError, Goto
    <2>3. HasLoop(t)' /\ \A u \in Tasks \ {t} : control'[u] = control[u]
      BY <1>1, <2>2 DEF HasLoop, Loops
    <2> QED BY <1>2, <2>1, <2>3
  <1>6. CASE LaunchFails(t)
    <2>1. /\ UNCHANGED <<task, child, launch>> /\ control' = [control EXCEPT ![t].pc = "failed"]
          /\ agent' = agent \/ agent' = [agent EXCEPT ![a] = [st |-> "Failed", link |-> t]]
      BY <1>6 DEF LaunchFails, Goto
    <2>2. orphan' = orphan
      BY <1>1, <1>6 DEF LaunchFails, LoopHeld
    <2>3. HasLoop(t)' /\ \A u \in Tasks \ {t} : control'[u] = control[u]
      BY <1>1, <2>1 DEF HasLoop, Loops
    <2>4. WorksWithChild(a)'
      BY <1>1, <2>1 DEF WorksWithChild, AgentActive
    <2> QED BY <1>1, <2>1, <2>2, <2>3, <2>4
  <1>7. CASE RegisterWorker(t)
    <2>1. /\ agent' = [agent EXCEPT ![a] = [st |-> "Working", link |-> t]] /\ child' = [child EXCEPT ![a] = "open"]
          /\ UNCHANGED <<orphan, launch>>
          /\ task' = task \/ task' = [task EXCEPT ![t].cond = "Running"]
      BY <1>7 DEF RegisterWorker
    <2>2. PICK x \in {"working", "failed"} : control' = [control EXCEPT ![t].pc = x]
      BY <1>7 DEF RegisterWorker, Goto
    <2>3. HasLoop(t)' /\ \A u \in Tasks \ {t} : control'[u] = control[u]
      BY <1>1, <2>2 DEF HasLoop, Loops
    <2>4. WorksWithChild(a)'
      BY <1>1, <2>1 DEF WorksWithChild
    <2> QED BY <1>1, <2>1, <2>3, <2>4
  <1>8. CASE StopWorker(t)
    <2>1. launch' = launch /\ control' = [control EXCEPT ![t].pc = "failed", ![t].cancel = TRUE]
      BY <1>8 DEF StopWorker
    <2>2. HasLoop(t)' /\ \A u \in Tasks \ {t} : control'[u] = control[u]
      BY <1>1, <2>1 DEF HasLoop, Loops
    <2>3. CASE HasRecord(a)
      <3>1. /\ agent' = [agent EXCEPT ![a].st = IF child[a] # "none" THEN "Stopping" ELSE "Interrupted"]
            /\ child' = child /\ orphan' = orphan /\ task' = task
        BY <1>1, <1>8, <2>3, OwnerBroadcast DEF StopWorker, StopEffect
      <3>2. WorksWithChild(a)'
        BY <1>1, <3>1 DEF WorksWithChild, AgentActive
      <3> QED BY <1>1, <2>1, <2>2, <3>1, <3>2
    <2>4. CASE ~HasRecord(a)
      <3>1. UNCHANGED <<task, agent, child, orphan>>
        BY <1>8, <2>4 DEF StopWorker
      <3> QED BY <1>2, <2>1, <2>2, <3>1
    <2> QED BY <2>3, <2>4
  <1>9. CASE WorkerExited(t)
    <2>1. /\ UNCHANGED <<agent, child, orphan, launch>>
          /\ task' = task \/ task' = [task EXCEPT ![t].cond = "Running"]
      BY <1>9 DEF WorkerExited
    <2>2. control' = [control EXCEPT ![t].pc = "validating", ![t].fp = ws] \/ control' = [control EXCEPT ![t].pc = "failed"]
      BY <1>9 DEF WorkerExited, Goto
    <2>3. HasLoop(t)' /\ \A u \in Tasks \ {t} : control'[u] = control[u]
      BY <1>1, <2>2 DEF HasLoop, Loops
    <2> QED BY <1>1, <1>2, <2>1, <2>3
  <1>10. CASE Judge(t)
    <2>1. UNCHANGED <<agent, child, orphan, launch>>
      BY <1>10 DEF Judge
    <2>2. \/ control' = [control EXCEPT ![t].att = FALSE, ![t].pc = "ending"]
          \/ control' = [control EXCEPT ![t].att = FALSE, ![t].pc = "preflight", ![t].ordinal = @ + 1]
      BY <1>10 DEF Judge
    <2>3. HasLoop(t)' /\ \A u \in Tasks \ {t} : control'[u] = control[u]
      BY <1>1, <2>2 DEF HasLoop, Loops
    <2>4. \A u \in Tasks \ {t} : task'[u] = task[u]
      BY <1>1, <1>10 DEF Judge
    <2> QED BY <1>2, <2>1, <2>3, <2>4
  <1>11. CASE BlockLoop(t)
    <2>1. /\ UNCHANGED <<agent, child, orphan, launch>> /\ control' = [control EXCEPT ![t].att = FALSE, ![t].pc = "ending"]
          /\ \A u \in Tasks \ {t} : task'[u] = task[u]
      BY <1>1, <1>11 DEF BlockLoop, BlockTask
    <2>2. HasLoop(t)' /\ \A u \in Tasks \ {t} : control'[u] = control[u]
      BY <1>1, <2>1 DEF HasLoop, Loops
    <2> QED BY <1>2, <2>1, <2>2
  <1>12. CASE EndLoop(t)
    <2> DEFINE owners == OwnersIn([control EXCEPT ![t] = NoLoop])
    <2>1. /\ UNCHANGED <<task, agent, child, group, launch>> /\ control' = [control EXCEPT ![t] = NoLoop]
          /\ lease' = Released(a, owners).lease /\ orphan' = Released(a, owners).orphan
          /\ control[t].pc = "ending"
      BY <1>12 DEF EndLoop
    <2> HIDE DEF owners
    <2>2. \A b \in Agents \ {a} : b \in orphan => b \in orphan'
      BY <1>1, <2>1, ReleasedCovers
    <2>3. task'[t].cond \notin ActiveConditions
      BY <1>1, <2>1 DEF LoopHeld
    <2> QED BY <1>1, <1>2, <2>1, <2>2, <2>3
  <1>13. CASE CancelLoop(t)
    <2>1. UNCHANGED <<task, agent, child, orphan, launch>> /\ control' = [control EXCEPT ![t].cancel = TRUE]
      BY <1>13 DEF CancelLoop
    <2>2. HasLoop(t)' /\ \A u \in Tasks \ {t} : control'[u] = control[u]
      BY <1>1, <2>1 DEF HasLoop, Loops
    <2>3. WorksWithChild(a)'
      BY <1>2, <2>1
    <2> QED BY <1>1, <2>1, <2>2, <2>3
  <1> QED BY <1>3, <1>4, <1>5, <1>6, <1>7, <1>8, <1>9, <1>10, <1>11, <1>12, <1>13 DEF LoopStep

\* The steps of loops keep an actor for every task.
LEMMA LoopActors ==
    ASSUME ExecInv, ActorInv, NEW t \in Tasks, LoopStep(t) \/ CancelLoop(t)
    PROVE  ActorInv'
  <1>1. PICK a : a = control[t].owner
    OBVIOUS
  <1>2. /\ \A u \in Tasks \ {t} : task'[u] = task[u] /\ control'[u] = control[u]
        /\ \A b \in Agents \ {a} : agent'[b] = agent[b] /\ child'[b] = child[b] /\ (b \in orphan => b \in orphan')
        /\ WorksWithChild(a)' /\ launch' = launch
        /\ HasLoop(t)' \/ task'[t].cond \notin ActiveConditions
    BY <1>1, LoopLocal
  <1> DEFINE Ts == {t}
  <1>3. \A u \in Tasks \ Ts, b \in Agents : agent[b].link = u => Stays(b)
    <2> SUFFICES ASSUME NEW b \in Agents, agent[b].link # t PROVE Stays(b)
      OBVIOUS
    <2>1. HasRecord(b) => b # a
      BY <1>1 DEF ExecInv, KinInv, Holds
    <2> QED BY <1>2, <2>1 DEF Stays, HasRecord
  <1>4. /\ \A u \in Tasks \ Ts : ControlKept(u) /\ CardKept(u)
        /\ \A u \in Tasks \ Ts : (\E l \in launch : l.task = u) => (\E l \in launch' : l.task = u)
        /\ \A u \in Tasks : u \in Ts => Actor(u)'
        /\ \A b \in Agents : WorksWithChild(b)'
    BY <1>2 DEF ControlKept, CardKept, Actor, ActorInv, WorksWithChild, AgentActive
  <1> HIDE DEF Ts
  <1> QED BY <1>3, <1>4, ActorsFrame

\* Launches and prompts keep an actor for every task.
LEMMA LaunchActors ==
    ASSUME ExecInv, ActorInv, NEW l \in launch, LaunchStep(l)
    PROVE  ActorInv'
  <1>0. PICK a \in Agents : /\ a = l.agent /\ LaunchHeld(l) /\ a \notin AcceptanceOwners
                            /\ (l.task # None => l.task \in Tasks /\ \A m \in launch \ {l} : m.task # l.task)
    BY LaunchAlone
  <1>1. /\ TypeOK /\ task \in [Tasks -> TaskRecords] /\ control \in [Tasks -> Loops] /\ launch \subseteq Launches
        /\ agent \in [Agents -> [st : AgentStates, link : Tasks \cup {None}]] /\ child \in [Agents -> ChildStates]
        /\ Covered(a) /\ \A b \in Agents : WorksWithChild(b)
    BY DEF ExecInv, ThreadInv, EvidenceInv, TypeOK, TaskType, AgentType, ThreadType, LoopType, ActorInv
  <1>2. CASE LaunchAcquire(l)
    <2>1. PICK t \in Tasks : t = l.task
      BY <1>0, <1>2 DEF LaunchAcquire
    <2>2. UNCHANGED <<agent, child, orphan>>
      BY <1>2 DEF LaunchAcquire
    <2>3. CASE BlockTask(t, control[t].pc) /\ launch' = launch \ {l}
      <3>1. /\ task'[t] = BlockedTask(task[t])
            /\ \A u \in Tasks \ {t} : task'[u] = task[u] /\ control'[u] = control[u]
        BY <1>1, <2>3 DEF BlockTask
      <3>2. task'[t].cond = "Blocked"
        BY <1>1, <3>1 DEF BlockedTask, TaskRecords
      <3>3. Actor(t)'
        BY <3>2 DEF Actor, ActiveConditions
      <3> QED BY <2>1, <2>2, <2>3, <3>1, <3>3, ActorsCard
    <2>4. CASE ~(BlockTask(t, control[t].pc) /\ launch' = launch \ {l})
      <3>1. PICK x : /\ launch' = (launch \ {l}) \cup {[l EXCEPT !.stage = "acquired", !.reuse = x]}
                     /\ UNCHANGED <<task, control>>
        BY <1>2, <2>1, <2>4 DEF LaunchAcquire
      <3>2. [l EXCEPT !.stage = "acquired", !.reuse = x].task = l.task
        BY <1>1 DEF Launches
      <3>3. \A m \in launch : m.task # None => \E k \in launch' : k.task = m.task
        BY <3>1, <3>2
      <3>4. \A u \in Tasks : ControlKept(u) /\ CardKept(u)
        BY <3>1 DEF ControlKept, CardKept
      <3> QED BY <2>2, <3>3, <3>4, AgentsStay, ActorsKept
    <2> QED BY <2>3, <2>4
  <1>3. CASE LaunchControl(l)
    <2>1. PICK t \in Tasks : t = l.task /\ ~HasLoop(t)
      BY <1>0, <1>3 DEF LaunchControl, LaunchHeld
    <2>2. /\ UNCHANGED <<task, agent, child, orphan>> /\ launch' = launch \ {l}
          /\ control' = [control EXCEPT ![t] = [NoLoop EXCEPT !.pc = "preflight", !.owner = a, !.vonly = l.vonly, !.ordinal = 1]]
      BY <1>0, <1>3, <2>1 DEF LaunchControl
    <2>3. control'[t].pc = "preflight" /\ \A u \in Tasks \ {t} : control'[u] = control[u]
      BY <1>1, <2>2 DEF NoLoop
    <2>4. Actor(t)'
      BY <2>3 DEF Actor, HasLoop
    <2> QED BY <2>1, <2>2, <2>3, <2>4, ActorsCard
  <1>4. CASE PromptPanics(l)
    <2>1. UNCHANGED <<task, agent, child, orphan, control, launch>>
      BY <1>4 DEF PromptPanics
    <2>2. \A u \in Tasks : ControlKept(u) /\ CardKept(u)
      BY <2>1 DEF ControlKept, CardKept
    <2> QED BY <2>1, <2>2, AgentsStay, ActorsKept
  <1>5. CASE PromptSpawns(l)
    <2>1. /\ l.task = None /\ UNCHANGED <<task, agent, child, orphan, control>>
          /\ \A m \in launch : m # l => m \in launch'
      BY <1>5 DEF PromptSpawns
    <2>2. \A u \in Tasks : ControlKept(u) /\ CardKept(u)
      BY <2>1 DEF ControlKept, CardKept
    <2>3. \A m \in launch : m.task # None => \E k \in launch' : k.task = m.task
      BY <2>1
    <2> QED BY <2>1, <2>2, <2>3, AgentsStay, ActorsKept
  <1>6. CASE PromptFails(l) \/ (PromptRegisters(l) /\ ~HasRecord(a))
    <2>1. /\ l.task = None /\ launch' = launch \ {l} /\ UNCHANGED <<task, child, group, control>>
          /\ lease' = Dropped(a).lease /\ orphan' = Dropped(a).orphan
          /\ agent' = agent \/ agent' = [agent EXCEPT ![a].st = "Failed"]
      BY <1>0, <1>6 DEF PromptFails, PromptRegisters
    <2>2. \A b \in Agents \ {a} : agent'[b] = agent[b] /\ (b \in orphan' <=> b \in orphan)
      BY <1>0, <1>1, <2>1, DroppedCovers
    <2>3. child[a] = "none" /\ a \notin orphan
      BY <1>0 DEF LaunchHeld
    <2>4. \A b \in Agents : Stays(b)
      BY <2>1, <2>2, <2>3 DEF Stays, HasRecord
    <2>5. \A b \in Agents : WorksWithChild(b)'
      BY <1>1, <2>1 DEF WorksWithChild, AgentActive
    <2>6. \A u \in Tasks : ControlKept(u) /\ CardKept(u)
      BY <2>1 DEF ControlKept, CardKept
    <2>7. \A m \in launch : m.task # None => \E k \in launch' : k.task = m.task
      BY <2>1
    <2> QED BY <2>4, <2>5, <2>6, <2>7, ActorsKept
  <1>7. CASE PromptRegisters(l) /\ HasRecord(a)
    <2>1. /\ BroadcastAgent(a, [agent EXCEPT ![a].st = "Working"], [child EXCEPT ![a] = "open"])
          /\ l.task = None /\ launch' = launch \ {l} /\ group' = group /\ control' = control
      BY <1>0, <1>7 DEF PromptRegisters
    <2>2. (\A u \in Tasks : ControlKept(u)) /\ \A m \in launch : m.task # None => m \in launch'
      BY <2>1 DEF ControlKept
    <2> QED BY <1>7, <2>1, <2>2, BroadcastActors
  <1> QED BY <1>2, <1>3, <1>4, <1>5, <1>6, <1>7 DEF LaunchStep

\* What happens to agents and their processes keeps an actor for every task.
LEMMA RuntimeActors ==
    ASSUME ExecInv, ActorInv
    PROVE  /\ ReapOrphanWriters \/ EditWorkspace => ActorInv'
           /\ \A p \in Projects : SetPaused(p) => ActorInv'
           /\ \A a \in Agents : \/ DirectPrompt(a) \/ TurnCompletes(a) \/ FinishAgent(a) \/ Stops(a)
                                \/ DeleteAgent(a) \/ GroupExits(a)
                                => ActorInv'
  <1>0. /\ TypeOK /\ QuietOps /\ child \in [Agents -> ChildStates] /\ control \in [Tasks -> Loops]
        /\ agent \in [Agents -> [st : AgentStates, link : Tasks \cup {None}]] /\ orphan \subseteq Agents
        /\ (\A a \in Agents : Covered(a) /\ WorksWithChild(a)) /\ "delete" \notin Ops
    BY DEF ExecInv, EvidenceInv, ThreadInv, TypeOK, AgentType, LeaseType, ThreadType, LoopType, ActorInv
  <1>1. ASSUME ReapOrphanWriters PROVE ActorInv'
    <2>1. PICK a \in Reapable, summary \in BOOLEAN :
            /\ lease' = Released(a, AcceptanceOwners).lease
            /\ orphan' = Released(a, AcceptanceOwners).orphan
            /\ task' = SyncedTasks(a, agent, child, orphan', AcceptanceOwners, summary)
            /\ UNCHANGED <<agent, child, group, control, launch>>
      BY <1>1 DEF ReapOrphanWriters
    <2>2. a \in Agents
      BY <1>0 DEF Reapable
    <2>3. \A b \in Agents \ {a} : b \in orphan' <=> b \in orphan
      BY <1>0, <2>1, <2>2, ReleasedCovers
    <2>4. /\ task' = SyncedTasks(a, agent', child', orphan', AcceptanceOwners, summary)
          /\ \A b \in Agents \ {a} : Stays(b)
          /\ (HasRecord(a)' <=> HasRecord(a)) /\ agent'[a].link = agent[a].link
          /\ \A u \in Tasks : ControlKept(u)
          /\ \A l \in launch : l.task # None => l \in launch'
          /\ \A b \in Agents : WorksWithChild(b)'
      BY <1>0, <2>1, <2>3 DEF Stays, HasRecord, ControlKept, WorksWithChild, AgentActive
    <2> QED BY <2>2, <2>4, SyncActors
  <1>2. ASSUME UNCHANGED <<task, agent, child, orphan, control>>, launch \subseteq launch' PROVE ActorInv'
    <2>1. \A u \in Tasks : ControlKept(u) /\ CardKept(u)
      BY <1>2 DEF ControlKept, CardKept
    <2> QED BY <1>2, <2>1, AgentsStay, ActorsKept
  <1>3. EditWorkspace => ActorInv'
    BY <1>2 DEF EditWorkspace
  <1>4. ASSUME NEW p \in Projects, SetPaused(p) PROVE ActorInv'
    BY <1>2, <1>4 DEF SetPaused
  <1>5. ASSUME NEW a \in Agents, DirectPrompt(a) \/ GroupExits(a) PROVE ActorInv'
    BY <1>2, <1>5 DEF DirectPrompt, GroupExits
  <1>6. ASSUME NEW a \in Agents, DeleteAgent(a) PROVE ActorInv'
    BY <1>0, <1>6 DEF DeleteAgent
  <1>7. ASSUME NEW a \in Agents, TurnCompletes(a) PROVE ActorInv'
    <2>1. PICK st \in {"Completed", "Failed", "Interrupted"} :
            BroadcastAgent(a, [agent EXCEPT ![a].st = IF HasRecord(a) THEN st ELSE @], [child EXCEPT ![a] = "closing"])
      BY <1>7 DEF TurnCompletes
    <2>2. PICK x : x = IF HasRecord(a) THEN st ELSE agent[a].st
      OBVIOUS
    <2>3. BroadcastAgent(a, [agent EXCEPT ![a].st = x], [child EXCEPT ![a] = "closing"])
      BY <2>1, <2>2
    <2>4. /\ \A u \in Tasks : ControlKept(u)
          /\ group' = group /\ \A l \in launch : l.task # None => l \in launch'
      BY <1>7 DEF TurnCompletes, ControlKept
    <2>5. x # "none" <=> HasRecord(a)
      BY <2>2 DEF HasRecord
    <2> QED BY <2>3, <2>4, <2>5, BroadcastActors, SMTT(60)
  <1>8. ASSUME NEW a \in Agents, FinishAgent(a) PROVE ActorInv'
    <2>1. PICK x : x = IF agent[a].st = "Stopping" THEN "Interrupted"
                       ELSE IF agent[a].st = "Working" THEN "Failed" ELSE agent[a].st
      OBVIOUS
    <2>2. BroadcastAgent(a, [agent EXCEPT ![a].st = x], [child EXCEPT ![a] = "none"])
      BY <1>0, <1>8, <2>1 DEF FinishAgent
    <2>3. /\ \A u \in Tasks : ControlKept(u)
          /\ group' = group /\ \A l \in launch : l.task # None => l \in launch'
      BY <1>8 DEF FinishAgent, ControlKept
    <2>4. (x # "none" <=> HasRecord(a)) /\ x \notin {"Working", "Stopping"}
      BY <2>1 DEF HasRecord
    <2> QED BY <2>2, <2>3, <2>4, BroadcastActors
  <1>9. ASSUME NEW a \in Agents, Stops(a) PROVE ActorInv'
    <2>1. group' = group /\ launch' = launch /\ control' = CancelledLoops(a)
      BY <1>9 DEF Stops
    <2>2. \A u \in Tasks : ControlKept(u)
      BY <1>0, <2>1 DEF CancelledLoops, ControlKept, Loops
    <2>3. CASE HasRecord(a)
      <3>1. PICK st : st = IF child[a] # "none" THEN "Stopping" ELSE "Interrupted"
        OBVIOUS
      <3>2. BroadcastAgent(a, [agent EXCEPT ![a].st = st], child)
        BY <1>9, <2>3, <3>1 DEF Stops, StopEffect
      <3>3. child = [child EXCEPT ![a] = child[a]]
        BY <1>0
      <3>4. BroadcastAgent(a, [agent EXCEPT ![a].st = st], [child EXCEPT ![a] = child[a]])
        BY <3>2, <3>3
      <3>5. /\ st # "none" <=> HasRecord(a)
            /\ st \in {"Working", "Stopping"} => child[a] # "none"
        BY <2>3, <3>1
      <3> QED BY <2>1, <2>2, <3>4, <3>5, BroadcastActors
    <2>4. CASE ~HasRecord(a)
      <3>1. UNCHANGED <<task, agent, child, orphan>>
        BY <1>9, <2>4 DEF Stops
      <3>2. \A u \in Tasks : CardKept(u)
        BY <3>1 DEF CardKept
      <3> QED BY <2>1, <2>2, <3>1, <3>2, AgentsStay, ActorsKept
    <2> QED BY <2>3, <2>4
  <1> QED BY <1>1, <1>3, <1>4, <1>5, <1>6, <1>7, <1>8, <1>9

\* The queue keeps an actor for every task.
LEMMA QueueActors ==
    ASSUME ExecInv, ActorInv, NEW t \in Tasks
    PROVE  /\ Enqueue(t) \/ RequestChangesQueued(t) \/ PlanChanges(t) \/ ClaimBlocked(t) => ActorInv'
           /\ \A choice \in MaybeAgent : SelectAgent(t, choice) => ActorInv'
           /\ \A before \in Tasks \cup {None} : ReorderQueue(t, before) => ActorInv'
           /\ \A a \in Agents : Claim(t, a) => ActorInv'
  <1>0. /\ task \in [Tasks -> TaskRecords] /\ \A u \in Tasks : task[u] \in TaskRecords
        /\ agent \in [Agents -> [st : AgentStates, link : Tasks \cup {None}]]
    BY DEF ExecInv, EvidenceInv, TypeOK, TaskType, AgentType
  <1>1. ASSUME Enqueue(t) \/ RequestChangesQueued(t) PROVE ActorInv'
    <2>1. PICK pos : task' = [task EXCEPT ![t] = Waiting(@, pos)]
      BY <1>1 DEF Enqueue, RequestChangesQueued
    <2>2. UNCHANGED <<agent, child, orphan, control, launch>> /\ ~task[t].archived
      BY <1>1 DEF Enqueue, RequestChangesQueued
    <2>3. /\ task'[t].queued /\ task'[t].state = "Running" /\ task'[t].cond = "Queued" /\ task'[t].assigned = None
          /\ task'[t].archived = task[t].archived
          /\ \A u \in Tasks \ {t} : task'[u] = task[u]
      BY <1>0, <2>1 DEF Waiting, TaskRecords
    <2>4. WaitingInQueue(task'[t])
      BY <2>2, <2>3 DEF WaitingInQueue, Column
    <2>5. Actor(t)'
      BY <2>4 DEF Actor
    <2> QED BY <2>2, <2>3, <2>5, ActorsCard
  <1>2. ASSUME PlanChanges(t) PROVE ActorInv'
    <2>1. UNCHANGED <<task, agent, child, orphan, control, launch>>
      BY <1>2 DEF PlanChanges
    <2>2. \A u \in Tasks : ControlKept(u) /\ CardKept(u)
      BY <2>1 DEF ControlKept, CardKept
    <2> QED BY <2>1, <2>2, AgentsStay, ActorsKept
  <1>3. ASSUME ClaimBlocked(t) PROVE ActorInv'
    <2>1. task' = [task EXCEPT ![t].cond = "Blocked"] /\ UNCHANGED <<agent, child, orphan, control, launch>>
      BY <1>3 DEF ClaimBlocked
    <2>2. task'[t].cond = "Blocked" /\ \A u \in Tasks \ {t} : task'[u] = task[u]
      BY <1>0, <2>1 DEF TaskRecords
    <2>3. Actor(t)'
      BY <2>2 DEF Actor, ActiveConditions
    <2> QED BY <2>1, <2>2, <2>3, ActorsCard
  <1>4. ASSUME NEW choice \in MaybeAgent, SelectAgent(t, choice) PROVE ActorInv'
    <2> DEFINE previous == Or(task[t].cont, task[t].assigned)
               Ts == {t} \cup Detached(t, choice)
    <2>1. /\ (choice # None => AgentIdle(choice)) /\ (previous # None /\ HasRecord(previous) => AgentIdle(previous))
          /\ (\A u \in Ts : u \in Tasks /\ task[u].state = "Ready")
          /\ UNCHANGED <<child, orphan, control, launch>>
      BY <1>0, <1>4, ColumnOf DEF SelectAgent, Detached
    <2>2. \A u \in Tasks : IF u \in Ts THEN \E c : task'[u] = [Unqueued(task[u]) EXCEPT !.assigned = c, !.cont = c]
                                       ELSE task'[u] = task[u]
      BY <1>4 DEF SelectAgent
    <2>3. \A a \in Agents : /\ a \notin {choice, previous} => agent'[a] = agent[a]
                            /\ agent'[a].st = agent[a].st
      BY <1>0, <1>4 DEF SelectAgent
    <2> HIDE DEF Ts, previous
    <2>4. ASSUME NEW u \in Tasks, u \in Ts PROVE Actor(u)'
      <3>1. PICK c : task'[u] = [Unqueued(task[u]) EXCEPT !.assigned = c, !.cont = c]
        BY <2>2, <2>4
      <3>2. task'[u].cond = task[u].cond
        BY <1>0, <3>1 DEF Unqueued, TaskRecords
      <3>3. task[u].cond \notin ActiveConditions
        BY <2>1, <2>4 DEF ExecInv, ThreadInv, ActiveStarted
      <3> QED BY <3>2, <3>3 DEF Actor
    <2>5. ASSUME NEW a \in Agents PROVE Stays(a)
      <3>1. CASE a \in {choice, previous}
        <4>1. HasRecord(a) => child[a] = "none" /\ lease[a] = "none"
          BY <2>1, <3>1, NoneAssumption DEF AgentIdle
        <4>2. lease[a] = "none" => a \notin orphan
          BY DEF ExecInv, ThreadInv, Covered
        <4> QED BY <4>1, <4>2 DEF Stays
      <3>2. CASE a \notin {choice, previous}
        BY <2>1, <2>3, <3>2 DEF Stays, HasRecord
      <3> QED BY <3>1, <3>2
    <2>6. /\ \A u \in Tasks \ Ts : ControlKept(u) /\ CardKept(u)
          /\ \A u \in Tasks \ Ts : (\E l \in launch : l.task = u) => (\E l \in launch' : l.task = u)
          /\ \A a \in Agents : WorksWithChild(a)'
      BY <2>1, <2>2, <2>3 DEF ControlKept, CardKept, ActorInv, WorksWithChild, AgentActive
    <2> QED BY <2>4, <2>5, <2>6, ActorsFrame
  <1>5. ASSUME NEW before \in Tasks \cup {None}, ReorderQueue(t, before) PROVE ActorInv'
    <2>1. /\ \A u \in Tasks : task'[u] = task[u] \/ \E n : task'[u] = [task[u] EXCEPT !.pos = n]
          /\ UNCHANGED <<agent, child, orphan, control, launch>>
      BY <1>5 DEF ReorderQueue
    <2>2. ASSUME NEW u \in Tasks PROVE CardKept(u) /\ ControlKept(u)
      <3>1. CASE task'[u] = task[u]
        BY <2>1, <3>1 DEF CardKept, ControlKept
      <3>2. ASSUME NEW n, task'[u] = [task[u] EXCEPT !.pos = n] PROVE CardKept(u) /\ ControlKept(u)
        BY <1>0, <2>1, <3>2 DEF CardKept, ControlKept, TaskRecords
      <3> QED BY <2>1, <3>1, <3>2
    <2> QED BY <2>1, <2>2, AgentsStay, ActorsKept
  <1>6. ASSUME NEW a \in Agents, Claim(t, a) PROVE ActorInv'
    <2>1. PICK cont : task' = [task EXCEPT ![t].qagent = a, ![t].assigned = a, ![t].cont = cont]
      BY <1>6 DEF Claim
    <2> DEFINE l == [task |-> t, agent |-> a, vonly |-> FALSE, stage |-> "claimed", reuse |-> FALSE]
    <2>5. UNCHANGED <<agent, child, orphan, control>> /\ launch' = launch \cup {l}
      BY <1>6 DEF Claim
    <2>6. l.task = t
      OBVIOUS
    <2> HIDE DEF l
    <2>2. launch \subseteq launch' /\ \E k \in launch' : k.task = t
      BY <2>5, <2>6
    <2>3. \A u \in Tasks \ {t} : task'[u] = task[u]
      BY <1>0, <2>1
    <2>4. Actor(t)'
      BY <2>2 DEF Actor
    <2> QED BY <2>5, <2>2, <2>3, <2>4, ActorsCard
  <1> QED BY <1>1, <1>2, <1>3, <1>4, <1>5, <1>6

\* Review requests, cards and restarts keep an actor for every task.
LEMMA CardActors ==
    ASSUME ExecInv, ActorInv
    PROVE  /\ \A t \in Tasks, op \in ReviewOps : BeginReview(t, op) => ActorInv'
           /\ \A r \in review : ReviewStep(r) => ActorInv'
           /\ \A t \in Tasks, action \in CardActions : CardTransition(t, action) => ActorInv'
           /\ \A t \in Tasks, a \in Agents : Start(t, a) => ActorInv'
           /\ CrashRestart => ActorInv'
  <1>0. task \in [Tasks -> TaskRecords] /\ \A u \in Tasks : task[u] \in TaskRecords
    BY DEF ExecInv, EvidenceInv, TypeOK, TaskType
  <1>1. ASSUME NEW t \in Tasks, NEW op \in ReviewOps, BeginReview(t, op) PROVE ActorInv'
    <2>1. UNCHANGED <<task, agent, child, orphan, control, launch>>
      BY <1>1 DEF BeginReview
    <2>2. \A u \in Tasks : ControlKept(u) /\ CardKept(u)
      BY <2>1 DEF ControlKept, CardKept
    <2> QED BY <2>1, <2>2, AgentsStay, ActorsKept
  <1>2. ASSUME NEW t \in Tasks, NEW new, task' = [task EXCEPT ![t] = new], new.cond \notin ActiveConditions,
               UNCHANGED <<agent, child, orphan, control, launch>>
        PROVE  ActorInv'
    <2>1. task'[t] = new /\ \A u \in Tasks \ {t} : task'[u] = task[u]
      BY <1>0, <1>2
    <2>2. Actor(t)'
      BY <1>2, <2>1 DEF Actor
    <2> QED BY <1>2, <2>1, <2>2, ActorsCard
  <1>3. ASSUME NEW t \in Tasks, NEW l, \A u \in Tasks \ {t} : task'[u] = task[u],
               UNCHANGED <<agent, child, orphan, control>>, launch' = launch \cup {l}, l.task = t
        PROVE  ActorInv'
    <2>1. launch \subseteq launch' /\ \E k \in launch' : k.task = t
      BY <1>3
    <2>2. Actor(t)'
      BY <2>1 DEF Actor
    <2> QED BY <1>3, <2>1, <2>2, ActorsCard
  <1>4. ASSUME NEW r \in review, ReviewStep(r) PROVE ActorInv'
    <2>0. PICK t \in Tasks : t = r.task
      BY DEF ExecInv, EvidenceInv, TypeOK, ThreadType, Reviews
    <2>1. CASE CommitAccept(r) \/ CommitRelease(r)
      <3>1. UNCHANGED <<agent, child, orphan, control, launch>>
        BY <2>1 DEF CommitAccept, CommitRelease
      <3>2. CASE task' = task
        <4>1. \A u \in Tasks : ControlKept(u) /\ CardKept(u)
          BY <3>1, <3>2 DEF ControlKept, CardKept
        <4> QED BY <3>1, <4>1, AgentsStay, ActorsKept
      <3>3. CASE task' # task
        <4> DEFINE new == Transition(task[t], "Accept")
        <4>1. task' = [task EXCEPT ![t] = new]
          BY <2>0, <2>1, <3>3 DEF CommitAccept, CommitRelease
        <4>2. task[t].state = "InReview" /\ ReviewIdle(r)
          BY <2>0, <2>1 DEF CommitAccept, CommitRelease, ExecInv, EvidenceInv, ReviewBacked, ThreadInv
        <4>3. task[t].cond \notin ActiveConditions
          BY <1>0, <2>0, <4>2, ColumnOf DEF ReviewIdle, WaitingInQueue
        <4>4. new.cond = task[t].cond
          BY <1>0 DEF Transition, TaskRecords
        <4> HIDE DEF new
        <4> QED BY <1>2, <3>1, <4>1, <4>3, <4>4
      <3> QED BY <3>2, <3>3
    <2>2. ASSUME NEW a \in Agents, CommitLaunch(r, a) PROVE ActorInv'
      <3> DEFINE l == [task |-> t, agent |-> a, vonly |-> r.op = "Revalidate", stage |-> "claimed", reuse |-> FALSE]
                 moved == Transition(task[t], "RequestChanges")
      <3>1. UNCHANGED <<agent, child, orphan, control>> /\ launch' = launch \cup {l}
        BY <2>0, <2>2 DEF CommitLaunch
      <3>2. task' = [task EXCEPT ![t] =
                IF r.op = "Revalidate" THEN [task[t] EXCEPT !.assigned = a, !.cond = "Queued"]
                ELSE [moved EXCEPT !.assigned = a, !.cond = "Queued", !.sub = None]]
        BY <2>0, <2>2 DEF CommitLaunch
      <3>3. l.task = t
        OBVIOUS
      <3> HIDE DEF l, moved
      <3>4. \A u \in Tasks \ {t} : task'[u] = task[u]
        BY <1>0, <3>2
      <3> QED BY <1>3, <3>1, <3>3, <3>4
    <2> QED BY <1>4, <2>1, <2>2 DEF ReviewStep
  <1>5. ASSUME NEW t \in Tasks, NEW action \in CardActions, CardTransition(t, action) PROVE ActorInv'
    <2> DEFINE next == Transition(task[t], action)
    <2>1. ~TaskLive(t) /\ MayTransition(task[t], action) /\ UNCHANGED <<agent, child, orphan, control, launch>>
      BY <1>5 DEF CardTransition
    <2>2. next.cond \notin ActiveConditions /\ next \in TaskRecords
      BY <1>0, <2>1, NotLive, MovedIdle, TransitionType
    <2>3. PICK x : task' = [task EXCEPT ![t] = x] /\ \/ x = next
                                                     \/ (\E c : x = [Unqueued(next) EXCEPT !.cont = c, !.assigned = c, !.cond = "Idle"])
                                                     \/ x = [Unqueued(next) EXCEPT !.cond = "Idle"]
      BY <1>5 DEF CardTransition
    <2> HIDE DEF next
    <2>4. x.cond \notin ActiveConditions
      <3>1. ASSUME NEW c, x = [Unqueued(next) EXCEPT !.cont = c, !.assigned = c, !.cond = "Idle"] PROVE x.cond = "Idle"
        BY <2>2, <3>1 DEF Unqueued, TaskRecords
      <3>2. ASSUME x = [Unqueued(next) EXCEPT !.cond = "Idle"] PROVE x.cond = "Idle"
        BY <2>2, <3>2 DEF Unqueued, TaskRecords
      <3> QED BY <2>2, <2>3, <3>1, <3>2 DEF ActiveConditions
    <2> QED BY <1>2, <2>1, <2>3, <2>4
  <1>6. ASSUME NEW t \in Tasks, NEW a \in Agents, Start(t, a) PROVE ActorInv'
    <2> DEFINE l == [task |-> t, agent |-> a, vonly |-> FALSE, stage |-> "claimed", reuse |-> FALSE]
               moved == Transition(task[t], "Start")
    <2>1. UNCHANGED <<agent, child, orphan, control>> /\ launch' = launch \cup {l}
      BY <1>6 DEF Start
    <2>2. task' = [task EXCEPT ![t] = [moved EXCEPT !.assigned = a, !.cond = "Queued"]]
      BY <1>6 DEF Start
    <2>3. l.task = t
      OBVIOUS
    <2> HIDE DEF l, moved
    <2>4. \A u \in Tasks \ {t} : task'[u] = task[u]
      BY <1>0, <2>2
    <2> QED BY <1>3, <2>1, <2>3, <2>4
  <1>7. ASSUME CrashRestart PROVE ActorInv'
    <2>1. ASSUME NEW u \in Tasks PROVE Actor(u)'
      <3>1. task'[u] = Reconciled(task[u])
        BY <1>7 DEF CrashRestart
      <3>2. WaitingInQueue(task'[u]) \/ task'[u].cond \notin ActiveConditions
        BY <1>0, <3>1 DEF Reconciled, ActiveConditions, TaskRecords
      <3> QED BY <3>2 DEF Actor
    <2>2. \A a \in Agents : WorksWithChild(a)'
      <3>1. agent \in [Agents -> [st : AgentStates, link : Tasks \cup {None}]]
        BY DEF ExecInv, EvidenceInv, TypeOK, AgentType
      <3> QED BY <1>7, <3>1 DEF CrashRestart, WorksWithChild, AgentActive
    <2> QED BY <2>1, <2>2 DEF ActorInv
  <1> QED BY <1>1, <1>4, <1>5, <1>6, <1>7

\* A task that is shown as executing waits in the queue or has somebody who will settle
\* it, also when launches fail and the daemon restarts (acceptance_block,
\* sync_agent_task, reconcile_tasks), if no conversation with a surviving process group
\* is deleted (delete_agent).
THEOREM ExecutingTasksHaveActors == QuietOps /\ "delete" \notin Ops /\ Spec => []ActiveTaskHasActor
  <1>1. "delete" \notin Ops /\ Init => ActorInv
    <2> SUFFICES ASSUME "delete" \notin Ops, Init PROVE ActorInv
      OBVIOUS
    <2>1. /\ \A t \in Tasks : task[t].cond = "Idle"
          /\ \A a \in Agents : agent[a].st = "none"
      BY DEF Init, NewTask
    <2> QED BY <2>1 DEF ActorInv, Actor, ActiveConditions, WorksWithChild, AgentActive
  <1>2. ExecInv /\ ActorInv /\ [Next]_vars => ActorInv'
    <2> SUFFICES ASSUME ExecInv, ActorInv, [Next]_vars PROVE ActorInv'
      OBVIOUS
    <2>1. CASE UserStep
      BY <2>1, QueueActors, LoopActors, CardActors, RuntimeActors DEF UserStep, StopAgent, StopCancelled
    <2>2. CASE QueueStep
      BY <2>2, QueueActors, RuntimeActors DEF QueueStep
    <2>3. CASE UNCHANGED vars
      <3>1. UNCHANGED <<task, agent, child, orphan, control, launch>>
        BY <2>3 DEF vars
      <3>2. \A u \in Tasks : ControlKept(u) /\ CardKept(u)
        BY <3>1 DEF ControlKept, CardKept
      <3> QED BY <3>1, <3>2, AgentsStay, ActorsKept
    <2> QED BY <2>1, <2>2, <2>3, LaunchActors, LoopActors, CardActors, RuntimeActors DEF Next
  <1>3. ActorInv => ActiveTaskHasActor
    BY NoneAssumption DEF ActorInv, Actor, Served, ActiveTaskHasActor
  <1> QED BY <1>1, <1>2, <1>3, ExecutionInvariant, PTL DEF Spec

-----------------------------------------------------------------------------
(* The slot of a workspace. *)

\* A queued task has the slot of its workspace from the reservation that its launch makes
\* until its loop has ended and the reservation of its agent is gone.
Engaged(t) == task[t].queued /\ (HasLoop(t) \/ \E a \in Agents : task[t].assigned = a /\ lease[a] # "none")

\* No other task has the slot of the workspace of t.
Vacant(t) == \A u \in Tasks \ {t} : SameRoot(t, u) => ~Engaged(u)

\* The inductive invariant, beside ExecInv: no two tasks have one slot, and changes are
\* requested outside the queue only of a task that is not in it.
SlotInv ==
    /\ \A t, u \in Tasks : t # u /\ SameRoot(t, u) => ~(Engaged(t) /\ Engaged(u))
    /\ \A r \in review : r.op = "RequestChanges" => ~task[r.task].queued

\* A thread launches the task with the authorization of the queue.
Launching(t) == \E l \in launch : l.task = t /\ ~l.vonly

\* What the slot and the phase of a task depend on.
Still(t) ==
    /\ task'[t].queued = task[t].queued /\ task'[t].assigned = task[t].assigned
    /\ WaitingInQueue(task'[t]) <=> WaitingInQueue(task[t])
    /\ HasLoop(t)' <=> HasLoop(t)
    /\ control'[t].vonly = control[t].vonly
    /\ Launching(t)' <=> Launching(t)

\* How the phase of a task may change.
PhaseMoves(t) ==
    \/ Phase(t)' = Phase(t)
    \/ Phase(t) = "idle" /\ Phase(t)' = "waiting"
    \/ Phase(t) = "waiting" /\ Phase(t)' \in {"idle", "authorized"}
    \/ Phase(t) \in {"authorized", "executing", "validating"} /\ Phase(t)' = "idle"
    \/ Phase(t) = "authorized" /\ Phase(t)' = "executing" /\ Vacant(t)
    \/ Phase(t) = "idle" /\ Phase(t)' = "validating" /\ Vacant(t)

\* What is shown of every step: the invariant is kept, and one task changes its phase, no
\* task does, or the daemon restarts.
SlotStep ==
    /\ SlotInv'
    /\ \/ \A t \in Tasks : Phase(t)' = Phase(t)
       \/ \E t \in Tasks : PhaseMoves(t) /\ \A u \in Tasks \ {t} : Phase(u)' = Phase(u)
       \/ \A t \in Tasks : Phase(t)' = IF Phase(t) = "waiting" THEN "waiting" ELSE "idle"

\* A task that nothing happens to keeps its phase.
LEMMA StillPhase ==
    ASSUME NEW t \in Tasks, Still(t)
    PROVE  Phase(t)' = Phase(t)
  BY DEF Still, Phase, Launching, HasLoop

\* It gets no slot, when its agent gets no reservation.
LEMMA StillEngaged ==
    ASSUME NEW t \in Tasks, Still(t), Engaged(t)',
           \A a \in Agents : task[t].assigned = a /\ lease'[a] # "none" => lease[a] # "none"
    PROVE  Engaged(t)
  BY DEF Still, Engaged

\* A step that changes one task.
LEMMA SlotFrame ==
    ASSUME SlotInv, TypeOK, NEW t \in Tasks, \A u \in Tasks \ {t} : Still(u),
           \A u \in Tasks \ {t}, a \in Agents : task[u].assigned = a /\ lease'[a] # "none" => lease[a] # "none",
           Engaged(t)' => Engaged(t) \/ Vacant(t),
           \A r \in review' : r \in review /\ (r.task = t /\ task'[t].queued => task[t].queued),
           PhaseMoves(t)
    PROVE  SlotStep
  <1>1. \A u \in Tasks \ {t} : Engaged(u)' => Engaged(u)
    BY StillEngaged
  <1>2. ASSUME NEW v \in Tasks, NEW u \in Tasks, v # u, SameRoot(v, u), Engaged(v)', Engaged(u)' PROVE FALSE
    <2>1. SameRoot(u, v)
      BY <1>2 DEF SameRoot
    <2> QED BY <1>1, <1>2, <2>1 DEF SlotInv, Vacant
  <1>3. ASSUME NEW r \in review', r.op = "RequestChanges" PROVE ~task'[r.task].queued
    <2>1. r \in review /\ r.task \in Tasks /\ ~task[r.task].queued
      BY <1>3 DEF SlotInv, TypeOK, ThreadType, Reviews
    <2> QED BY <2>1 DEF Still
  <1>4. SlotInv'
    BY <1>2, <1>3 DEF SlotInv, SameRoot
  <1> QED BY <1>4, StillPhase DEF SlotStep

\* A step that changes no task.
LEMMA SlotStill ==
    ASSUME SlotInv, TypeOK, \A u \in Tasks : Still(u),
           \A u \in Tasks, a \in Agents : task[u].assigned = a /\ lease'[a] # "none" => lease[a] # "none",
           review' \subseteq review
    PROVE  SlotStep
  <1>1. \A u \in Tasks : Engaged(u)' => Engaged(u)
    BY StillEngaged
  <1>2. ASSUME NEW r \in review', r.op = "RequestChanges" PROVE ~task'[r.task].queued
    <2>1. r \in review /\ r.task \in Tasks /\ ~task[r.task].queued
      BY <1>2 DEF SlotInv, TypeOK, ThreadType, Reviews
    <2> QED BY <2>1 DEF Still
  <1>3. SlotInv'
    BY <1>1, <1>2 DEF SlotInv, SameRoot
  <1> QED BY <1>3, StillPhase DEF SlotStep

\* A step that leaves cards, loops and launches as the queue sees them.
LEMMA SlotKept ==
    ASSUME SlotInv, TypeOK, task' = task, review' \subseteq review,
           \A u \in Tasks : (HasLoop(u)' <=> HasLoop(u)) /\ control'[u].vonly = control[u].vonly,
           \A l \in launch' : l.task \in Tasks => \E m \in launch : m.task = l.task /\ m.vonly = l.vonly,
           \A l \in launch : l.task \in Tasks => \E m \in launch' : m.task = l.task /\ m.vonly = l.vonly,
           \A a \in Agents : lease'[a] # "none" => lease[a] # "none"
    PROVE  SlotStep
  <1>1. \A u \in Tasks : Launching(u)' <=> Launching(u)
    BY DEF Launching
  <1>2. \A u \in Tasks : Still(u)
    BY <1>1 DEF Still
  <1> QED BY <1>2, SlotStill

-----------------------------------------------------------------------------
\* Turns, processes and prompts that leave cards alone.
LEMMA RuntimeKept ==
    ASSUME ExecInv, SlotInv
    PROVE  /\ EditWorkspace \/ UNCHANGED vars => SlotStep
           /\ \A p \in Projects : SetPaused(p) => SlotStep
           /\ \A t \in Tasks : PlanChanges(t) \/ CancelLoop(t) => SlotStep
           /\ \A a \in Agents : DeleteAgent(a) \/ GroupExits(a) => SlotStep
           /\ \A l \in launch : PromptPanics(l) \/ PromptSpawns(l) => SlotStep
  <1>0. TypeOK /\ control \in [Tasks -> Loops] /\ lease \in [Agents -> LeaseStates]
    BY DEF ExecInv, EvidenceInv, TypeOK, ThreadType, LoopType, LeaseType
  <1>1. ASSUME UNCHANGED <<task, lease, control, launch>>, review' \subseteq review PROVE SlotStep
    BY <1>0, <1>1, SlotKept DEF HasLoop
  <1>2. ASSUME EditWorkspace \/ UNCHANGED vars PROVE SlotStep
    BY <1>1, <1>2 DEF EditWorkspace, vars
  <1>3. ASSUME NEW p \in Projects, SetPaused(p) PROVE SlotStep
    BY <1>1, <1>3 DEF SetPaused
  <1>4. ASSUME NEW t \in Tasks, PlanChanges(t) PROVE SlotStep
    BY <1>1, <1>4 DEF PlanChanges, Touch
  <1>5. ASSUME NEW t \in Tasks, CancelLoop(t) PROVE SlotStep
    <2>1. \A u \in Tasks : (HasLoop(u)' <=> HasLoop(u)) /\ control'[u].vonly = control[u].vonly
      BY <1>0, <1>5 DEF CancelLoop, HasLoop, Loops
    <2>2. UNCHANGED <<task, lease, launch>> /\ review' \subseteq review
      BY <1>5 DEF CancelLoop, Touch
    <2> QED BY <1>0, <2>1, <2>2, SlotKept
  <1>6. ASSUME NEW a \in Agents, DeleteAgent(a) \/ GroupExits(a) PROVE SlotStep
    BY <1>1, <1>6 DEF DeleteAgent, GroupExits
  <1>7. ASSUME NEW l \in launch, PromptPanics(l) PROVE SlotStep
    BY <1>1, <1>7 DEF PromptPanics
  <1>8. ASSUME NEW l \in launch, PromptSpawns(l) PROVE SlotStep
    <2>1. l.task = None /\ l \in Launches /\ launch' = (launch \ {l}) \cup {[l EXCEPT !.stage = "spawned"]}
      BY <1>0, <1>8 DEF PromptSpawns, TypeOK, ThreadType
    <2>2. l.task \notin Tasks /\ [l EXCEPT !.stage = "spawned"].task \notin Tasks
      BY <2>1, BoardAssumption DEF Launches
    <2>3. UNCHANGED <<task, control, review>> /\ \A a \in Agents : lease'[a] # "none" => lease[a] # "none"
      BY <1>0, <1>8 DEF PromptSpawns, RecordGroup
    <2> QED BY <1>0, <2>1, <2>2, <2>3, SlotKept DEF HasLoop
  <1> QED BY <1>2, <1>3, <1>4, <1>5, <1>6, <1>7, <1>8

\* A card that follows its agent keeps its place in the queue.
LEMMA SyncedStill ==
    ASSUME NEW tk \in TaskRecords, NEW st, NEW live, NEW summary, NEW new, new = Synced(tk, st, live, summary)
    PROVE  new.queued = tk.queued /\ new.assigned = tk.assigned
  <1>1. new = tk \/ new = Transition(tk, "Submit") \/ \E c : new = [tk EXCEPT !.cond = c]
    BY DEF Synced
  <1>2. CASE new = Transition(tk, "Submit")
    BY <1>2 DEF Transition, TaskRecords
  <1>3. ASSUME NEW c, new = [tk EXCEPT !.cond = c] PROVE new.queued = tk.queued /\ new.assigned = tk.assigned
    BY <1>3 DEF TaskRecords
  <1> QED BY <1>1, <1>2, <1>3

\* A step in which the task of agent a follows it.  sync_agent_task.
LEMMA SyncSlot ==
    ASSUME ExecInv, SlotInv, NEW a \in Agents, NEW ag, NEW ch, NEW orph, NEW summary,
           task' = SyncedTasks(a, ag, ch, orph, AcceptanceOwners, summary),
           Touch({t \in Tasks : task'[t] # task[t]}),
           \A u \in Tasks : (HasLoop(u)' <=> HasLoop(u)) /\ control'[u].vonly = control[u].vonly,
           \A l \in launch : l \in launch' \/ l.task \notin Tasks, launch' \subseteq launch,
           \A b \in Agents : lease'[b] # "none" => lease[b] # "none"
    PROVE  SlotStep
  <1>0. TypeOK /\ \A u \in Tasks : task[u] \in TaskRecords
    BY DEF ExecInv, EvidenceInv, TypeOK, TaskType
  <1> DEFINE live == ch[a] # "none" \/ ag[a].st = "Working" \/ a \in orph
             new(t) == Synced(task[t], ag[a].st, live, summary)
  <1>1. \A t \in Tasks : task'[t] = task[t] \/ (task[t].assigned = a /\ task'[t] = new(t))
    BY DEF SyncedTasks
  <1> HIDE DEF live
  <1>2. \A t \in Tasks : new(t).queued = task[t].queued /\ new(t).assigned = task[t].assigned
    BY <1>0, SyncedStill
  <1> HIDE DEF new
  <1>3. ASSUME NEW t \in Tasks PROVE Still(t)
    <2>1. task'[t].queued = task[t].queued /\ task'[t].assigned = task[t].assigned
      BY <1>1, <1>2
    <2>2. WaitingInQueue(task'[t]) <=> WaitingInQueue(task[t])
      BY <1>1, <1>2, NoneAssumption DEF WaitingInQueue
    <2>3. Launching(t)' <=> Launching(t)
      BY DEF Launching
    <2> QED BY <2>1, <2>2, <2>3 DEF Still
  <1>4. review' \subseteq review
    BY DEF Touch
  <1> QED BY <1>0, <1>3, <1>4, SlotStill

\* broadcast(AgentChanged).
LEMMA BroadcastSlot ==
    ASSUME ExecInv, SlotInv, NEW a \in Agents, NEW ag, NEW ch, BroadcastAgent(a, ag, ch), group' = group,
           \A u \in Tasks : (HasLoop(u)' <=> HasLoop(u)) /\ control'[u].vonly = control[u].vonly,
           \A l \in launch : l \in launch' \/ l.task \notin Tasks, launch' \subseteq launch
    PROVE  SlotStep
  <1>0. TypeOK /\ Covered(a) /\ lease \in [Agents -> LeaseStates]
    BY DEF ExecInv, EvidenceInv, ThreadInv, TypeOK, LeaseType
  <1> DEFINE stopped == ch[a] = "none" /\ ag[a].st \notin {"Working", "Stopping"}
             rel == IF stopped THEN Released(a, AcceptanceOwners) ELSE [lease |-> lease, orphan |-> orphan]
             orph == rel.orphan
  <1>1. /\ lease' = rel.lease /\ orphan' = rel.orphan
        /\ Touch({t \in Tasks : task'[t] # task[t]})
    BY DEF BroadcastAgent
  <1>2. PICK summary : task' = SyncedTasks(a, ag, ch, orph, AcceptanceOwners, summary)
    BY DEF BroadcastAgent
  <1>3. \A b \in Agents : lease'[b] # "none" => lease[b] # "none"
    <2>1. CASE stopped
      BY <1>0, <1>1, <2>1 DEF Released
    <2>2. CASE ~stopped
      BY <1>1, <2>2
    <2> QED BY <2>1, <2>2
  <1> HIDE DEF orph
  <1> QED BY <1>1, <1>2, <1>3, SyncSlot

\* What happens to agents.
LEMMA AgentSlot ==
    ASSUME ExecInv, SlotInv
    PROVE  /\ ReapOrphanWriters => SlotStep
           /\ \A a \in Agents : TurnCompletes(a) \/ FinishAgent(a) \/ Stops(a) => SlotStep
           /\ \A l \in launch : PromptRegisters(l) \/ PromptFails(l) => SlotStep
           /\ \A t \in Tasks : StopWorker(t) => SlotStep
  <1>0. TypeOK /\ control \in [Tasks -> Loops] /\ lease \in [Agents -> LeaseStates]
    BY DEF ExecInv, EvidenceInv, TypeOK, ThreadType, LoopType, LeaseType
  <1>1. ASSUME ReapOrphanWriters PROVE SlotStep
    <2>1. PICK a \in Reapable, summary \in BOOLEAN :
            /\ task' = SyncedTasks(a, agent, child, Released(a, AcceptanceOwners).orphan, AcceptanceOwners, summary)
            /\ Touch({t \in Tasks : task'[t] # task[t]}) /\ UNCHANGED <<control, launch>>
            /\ lease' = Released(a, AcceptanceOwners).lease
      BY <1>1 DEF ReapOrphanWriters
    <2>2. a \in Agents /\ \A b \in Agents : lease'[b] # "none" => lease[b] # "none"
      BY <1>0, <2>1 DEF Reapable, TypeOK, LeaseType, Released
    <2> DEFINE orph == Released(a, AcceptanceOwners).orphan
    <2>3. task' = SyncedTasks(a, agent, child, orph, AcceptanceOwners, summary)
      BY <2>1
    <2> HIDE DEF orph
    <2> QED BY <2>1, <2>2, <2>3, SyncSlot DEF HasLoop
  <1>2. ASSUME NEW a \in Agents, TurnCompletes(a) \/ FinishAgent(a) \/ Stops(a) PROVE SlotStep
    <2>1. /\ \A u \in Tasks : (HasLoop(u)' <=> HasLoop(u)) /\ control'[u].vonly = control[u].vonly
          /\ launch' = launch /\ group' = group
      BY <1>0, <1>2 DEF TurnCompletes, FinishAgent, Stops, CancelledLoops, HasLoop, Loops
    <2>2. CASE Stops(a) /\ ~HasRecord(a)
      BY <1>0, <2>1, <2>2, SlotKept DEF Stops
    <2>3. CASE ~(Stops(a) /\ ~HasRecord(a))
      <3>1. \E ag, ch : BroadcastAgent(a, ag, ch)
        BY <1>2, <2>3 DEF TurnCompletes, FinishAgent, Stops, StopEffect
      <3> QED BY <2>1, <3>1, BroadcastSlot
    <2> QED BY <2>2, <2>3
  <1>3. ASSUME NEW l \in launch, PromptRegisters(l) \/ PromptFails(l) PROVE SlotStep
    <2>1. l.task \notin Tasks /\ launch' = launch \ {l} /\ UNCHANGED <<control, group>>
      BY <1>3, BoardAssumption DEF PromptRegisters, PromptFails
    <2>2. l.agent \in Agents
      BY LaunchAlone
    <2>3. CASE PromptRegisters(l) /\ HasRecord(l.agent)
      <3>1. \E ag, ch : BroadcastAgent(l.agent, ag, ch)
        BY <2>3 DEF PromptRegisters
      <3> QED BY <2>1, <2>2, <3>1, BroadcastSlot DEF HasLoop
    <2>4. CASE ~(PromptRegisters(l) /\ HasRecord(l.agent))
      <3>1. lease' = Dropped(l.agent).lease /\ UNCHANGED <<task, review>>
        BY <1>3, <2>4 DEF PromptRegisters, PromptFails
      <3>2. \A b \in Agents : lease'[b] # "none" => lease[b] # "none"
        BY <1>0, <2>2, <3>1 DEF Dropped, Released
      <3> QED BY <1>0, <2>1, <3>1, <3>2, SlotKept DEF HasLoop
    <2> QED BY <2>3, <2>4
  <1>4. ASSUME NEW t \in Tasks, StopWorker(t) PROVE SlotStep
    <2>1. /\ \A u \in Tasks : (HasLoop(u)' <=> HasLoop(u)) /\ control'[u].vonly = control[u].vonly
          /\ launch' = launch /\ group' = group
      BY <1>0, <1>4 DEF StopWorker, HasLoop, Loops
    <2>2. CASE HasRecord(control[t].owner)
      <3>1. (\E ag, ch : BroadcastAgent(control[t].owner, ag, ch)) /\ HasLoop(t)
        BY <1>4, <2>2 DEF StopWorker, StopEffect, HasLoop
      <3> QED BY <2>1, <3>1, LoopAlone, BroadcastSlot
    <2>3. CASE ~HasRecord(control[t].owner)
      BY <1>0, <1>4, <2>1, <2>3, SlotKept DEF StopWorker
    <2> QED BY <2>2, <2>3
  <1> QED BY <1>1, <1>2, <1>3, <1>4

-----------------------------------------------------------------------------
\* A step of a loop that goes on keeps the slot.
LEMMA LoopSlotFrame ==
    ASSUME SlotInv, TypeOK, NEW t \in Tasks, HasLoop(t), HasLoop(t)', control'[t].vonly = control[t].vonly,
           task'[t].queued = task[t].queued,
           \A u \in Tasks \ {t} : task'[u] = task[u] /\ control'[u] = control[u],
           \A u \in Tasks \ {t}, a \in Agents : task[u].assigned = a /\ lease'[a] # "none" => lease[a] # "none",
           launch' = launch, review' \subseteq review
    PROVE  SlotStep
  <1>1. \A u \in Tasks \ {t} : Still(u)
    BY DEF Still, HasLoop, Launching
  <1>2. Engaged(t)' => Engaged(t)
    BY DEF Engaged
  <1>3. PhaseMoves(t)
    BY DEF PhaseMoves, Phase
  <1> QED BY <1>1, <1>2, <1>3, SlotFrame

\* The steps of a loop that leave its card alone.
LEMMA LoopQuietSlot ==
    ASSUME ExecInv, SlotInv, NEW t \in Tasks,
           \/ AdmitWorker(t) \/ SpawnWorker(t) \/ LaunchFails(t) \/ StartValidator(t) \/ ValidatorEnds(t) \/ LoopError(t)
    PROVE  SlotStep
  <1>0. TypeOK /\ control \in [Tasks -> Loops] /\ lease \in [Agents -> LeaseStates]
    BY DEF ExecInv, EvidenceInv, TypeOK, ThreadType, LoopType, LeaseType
  <1>1. HasLoop(t) /\ LoopHeld(t) /\ task' = task /\ launch' = launch /\ review' = review
    BY DEF AdmitWorker, SpawnWorker, LaunchFails, StartValidator, ValidatorEnds, LoopError, HasLoop, ExecInv, ThreadInv
  <1>2. PICK a \in AcceptanceOwners \cap Agents : a = control[t].owner
    BY <1>1, LoopAlone
  <1>3. \A u \in Tasks : (HasLoop(u)' <=> HasLoop(u)) /\ control'[u].vonly = control[u].vonly
    <2>1. CASE AdmitWorker(t)
      BY <1>0, <2>1 DEF AdmitWorker, HasLoop, Loops
    <2>2. ASSUME NEW pc, Goto(t, pc), control[t].pc # "none", pc # "none"
          PROVE  \A u \in Tasks : (HasLoop(u)' <=> HasLoop(u)) /\ control'[u].vonly = control[u].vonly
      BY <1>0, <2>2 DEF Goto, HasLoop, Loops
    <2>3. CASE ~AdmitWorker(t)
      <3>1. \E pc \in LoopStages : Goto(t, pc) /\ pc # "none"
        BY <2>3 DEF SpawnWorker, LaunchFails, StartValidator, ValidatorEnds, LoopError, LoopStages
      <3> QED BY <1>1, <2>2, <3>1 DEF HasLoop
    <2> QED BY <2>1, <2>3
  <1>4. \A b \in Agents : lease'[b] # "none" => lease[b] # "none"
    <2>1. CASE AdmitWorker(t)
      <3>1. lease[a] # "none" /\ child[a] = "none" /\ a \in AcceptanceOwners
        BY <1>1, <1>2, <2>1 DEF AdmitWorker, LoopHeld, Quiet
      <3>2. Admission(a, ProjectOf[t], FALSE) \in {"reject", "reuse"}
        BY <3>1, OwnerAdmission
      <3>3. lease' = lease
        BY <1>2, <2>1, <3>2 DEF AdmitWorker
      <3> QED BY <3>3
    <2>2. CASE SpawnWorker(t) \/ StartValidator(t)
      BY <1>0, <1>2, <2>2 DEF SpawnWorker, StartValidator, RecordGroup
    <2>3. CASE LaunchFails(t)
      <3>1. lease' = lease \/ lease' = Dropped(a).lease
        BY <1>2, <2>3 DEF LaunchFails
      <3> QED BY <1>0, <1>2, <3>1 DEF Dropped, Released
    <2>4. CASE ValidatorEnds(t) \/ LoopError(t)
      BY <2>4 DEF ValidatorEnds, LoopError
    <2> QED BY <2>1, <2>2, <2>3, <2>4
  <1> QED BY <1>0, <1>1, <1>3, <1>4, SlotKept

\* Every step of a loop.
LEMMA LoopSlot ==
    ASSUME ExecInv, SlotInv, NEW t \in Tasks,
           \/ Preflight(t) \/ RegisterWorker(t) \/ WorkerExited(t) \/ Judge(t) \/ BlockLoop(t) \/ EndLoop(t)
    PROVE  SlotStep
  <1>0. /\ TypeOK /\ control \in [Tasks -> Loops] /\ lease \in [Agents -> LeaseStates]
        /\ task \in [Tasks -> TaskRecords] /\ \A u \in Tasks : task[u] \in TaskRecords
    BY DEF ExecInv, EvidenceInv, TypeOK, ThreadType, LoopType, LeaseType, TaskType
  <1>1. HasLoop(t) /\ LoopHeld(t) /\ launch' = launch
    BY DEF Preflight, RegisterWorker, WorkerExited, Judge, BlockLoop, EndLoop, HasLoop, ExecInv, ThreadInv
  <1>2. PICK a \in Agents : a = control[t].owner
    BY <1>1, LoopAlone
  <1>3. review' \subseteq review
    BY DEF Preflight, RegisterWorker, WorkerExited, Judge, BlockLoop, BlockTask, EndLoop, Touch
  <1>4. CASE Preflight(t)
    <2> DEFINE c == control[t]
               moves == c.ordinal > 1 /\ ~task[t].queued
    <2>1. PICK new \in Agents :
            /\ IF moves THEN Fresh(new) ELSE new = a
            /\ lease' = IF moves THEN [lease EXCEPT ![new] = lease[a], ![a] = "none"] ELSE lease
            /\ task' = [task EXCEPT
                 ![t].assigned = IF moves THEN new ELSE @,
                 ![t].worker   = IF c.vonly THEN @ ELSE new,
                 ![t].cond     = IF c.vonly THEN "Running" ELSE "Queued"]
            /\ control' = [control EXCEPT ![t] =
                 [c EXCEPT !.owner = new, !.att = TRUE,
                           !.pc = IF c.vonly THEN "validating" ELSE "launch",
                           !.fp = IF c.vonly THEN ws ELSE None]]
      BY <1>2, <1>4 DEF Preflight
    <2>2. task'[t].queued = task[t].queued /\ \A u \in Tasks \ {t} : task'[u] = task[u]
      BY <1>0, <2>1 DEF TaskRecords
    <2>3. HasLoop(t)' /\ control'[t].vonly = control[t].vonly /\ \A u \in Tasks \ {t} : control'[u] = control[u]
      <3>1. control[t] \in Loops
        BY <1>0
      <3> QED BY <1>0, <2>1, <3>1 DEF HasLoop, Loops
    <2>4. ASSUME NEW u \in Tasks \ {t}, NEW b \in Agents, task[u].assigned = b, lease'[b] # "none" PROVE lease[b] # "none"
      BY <1>0, <2>1, <2>4 DEF Fresh
    <2> QED BY <1>0, <1>1, <1>3, <2>2, <2>3, <2>4, LoopSlotFrame
  <1>5. CASE RegisterWorker(t) \/ WorkerExited(t)
    <2>1. task' = task \/ task' = [task EXCEPT ![t].cond = "Running"]
      BY <1>5 DEF RegisterWorker, WorkerExited
    <2>2. task'[t].queued = task[t].queued /\ \A u \in Tasks \ {t} : task'[u] = task[u]
      BY <1>0, <2>1 DEF TaskRecords
    <2>3. HasLoop(t)' /\ control'[t].vonly = control[t].vonly /\ \A u \in Tasks \ {t} : control'[u] = control[u]
      BY <1>0, <1>5 DEF RegisterWorker, WorkerExited, Goto, HasLoop, Loops
    <2>4. \A b \in Agents : lease'[b] # "none" => lease[b] # "none"
      BY <1>0, <1>2, <1>5 DEF RegisterWorker, WorkerExited
    <2> QED BY <1>0, <1>1, <1>3, <2>2, <2>3, <2>4, LoopSlotFrame
  <1>6. CASE Judge(t)
    <2>1. task' = task \/ \E x : task' = [task EXCEPT ![t].sub = ws, ![t].state = "InReview", ![t].cond = "Idle", ![t].assigned = x]
      BY <1>6 DEF Judge
    <2>2. task'[t].queued = task[t].queued /\ \A u \in Tasks \ {t} : task'[u] = task[u]
      BY <1>0, <2>1 DEF TaskRecords
    <2>3. HasLoop(t)' /\ control'[t].vonly = control[t].vonly /\ \A u \in Tasks \ {t} : control'[u] = control[u]
      BY <1>0, <1>6 DEF Judge, HasLoop, Loops
    <2>4. \A b \in Agents : lease'[b] # "none" => lease[b] # "none"
      BY <1>0, <1>2, <1>6 DEF Judge
    <2> QED BY <1>0, <1>1, <1>3, <2>2, <2>3, <2>4, LoopSlotFrame
  <1>7. CASE BlockLoop(t)
    <2>1. /\ task' = [task EXCEPT ![t] = BlockedTask(task[t])] /\ lease' = lease
          /\ control' = [control EXCEPT ![t].att = FALSE, ![t].pc = "ending"]
      BY <1>7 DEF BlockLoop, BlockTask
    <2>2. task'[t].queued = task[t].queued /\ \A u \in Tasks \ {t} : task'[u] = task[u]
      BY <1>0, <2>1 DEF BlockedTask, TaskRecords
    <2>3. HasLoop(t)' /\ control'[t].vonly = control[t].vonly /\ \A u \in Tasks \ {t} : control'[u] = control[u]
      BY <1>0, <2>1 DEF HasLoop, Loops
    <2> QED BY <1>0, <1>1, <1>3, <2>1, <2>2, <2>3, LoopSlotFrame
  <1>8. CASE EndLoop(t)
    <2>1. /\ control' = [control EXCEPT ![t] = NoLoop] /\ task' = task /\ control[t].pc = "ending"
          /\ \E owners : lease' = Released(a, owners).lease
      BY <1>2, <1>8 DEF EndLoop
    <2>2. ~HasLoop(t)' /\ \A u \in Tasks \ {t} : control'[u] = control[u]
      BY <1>0, <2>1 DEF HasLoop, NoLoop
    <2>3. \A b \in Agents : lease'[b] # "none" => lease[b] # "none"
      BY <1>0, <2>1 DEF Released
    <2>4. \A u \in Tasks \ {t} : Still(u)
      BY <1>1, <2>1, <2>2 DEF Still, HasLoop, Launching
    <2>5. Engaged(t)' => Engaged(t)
      BY <1>1, <2>1 DEF Engaged
    <2>6. ~WaitingInQueue(task[t])
      BY <1>1, <2>1 DEF LoopHeld, WaitingInQueue, ActiveConditions
    <2>7. ~Launching(t)'
      BY <1>1, LoopAlone DEF Launching
    <2>8. PhaseMoves(t)
      BY <1>1, <2>1, <2>2, <2>6, <2>7 DEF PhaseMoves, Phase, Launching
    <2> QED BY <1>0, <1>3, <2>1, <2>3, <2>4, <2>5, <2>8, SlotFrame
  <1> QED BY <1>4, <1>5, <1>6, <1>7, <1>8

-----------------------------------------------------------------------------
\* When the board is not busy but through the agent of t, the slot of t is free.
\* board_execution_busy.
LEMMA NotBusyVacant ==
    ASSUME ExecInv, NEW t \in Tasks, NEW a \in Agents, Holds(t, a), ~ExecutionBusy(ProjectOf[t], a)
    PROVE  Vacant(t)
  <1> SUFFICES ASSUME NEW u \in Tasks, u # t, SameRoot(t, u), Engaged(u) PROVE FALSE
    BY DEF Vacant
  <1>1. ~Holds(u, a)
    BY DEF ExecInv, KinInv
  <1>2. task[u].queued /\ SameWorkspace(ProjectOf[u], ProjectOf[t])
    BY DEF Engaged, SameRoot, SameWorkspace
  <1>3. CASE HasLoop(u)
    <2>1. control[u].owner # a
      BY <1>1 DEF Holds
    <2> QED BY <1>2, <1>3, <2>1 DEF ExecutionBusy
  <1>4. ASSUME NEW b \in Agents, task[u].assigned = b, lease[b] # "none" PROVE FALSE
    <2>1. b # a
      BY <1>1, <1>4 DEF Holds, Kin
    <2>2. TaskOwnsAgent(u, b)
      BY <1>2, <1>4 DEF TaskOwnsAgent
    <2> QED BY <1>2, <1>4, <2>1, <2>2 DEF ExecutionBusy
  <1> QED BY <1>3, <1>4 DEF Engaged

\* Admission of an agent that a queued task was launched with.
LEMMA AdmittedVacant ==
    ASSUME ExecInv, NEW t \in Tasks, NEW a \in Agents, task[t].queued, task[t].assigned = a, NEW direct,
           Admission(a, ProjectOf[t], direct) # "reject"
    PROVE  Vacant(t)
  <1>1. AgentOwned(a)
    BY DEF AgentOwned, TaskOwnsAgent
  <1>2. ~ExecutionBusy(ProjectOf[t], a)
    BY <1>1 DEF Admission
  <1>3. Holds(t, a)
    BY DEF Holds, Kin
  <1> QED BY <1>2, <1>3, NotBusyVacant

\* Admission of a turn typed into a conversation.
LEMMA PromptSlot ==
    ASSUME ExecInv, SlotInv, NEW a \in Agents, DirectPrompt(a)
    PROVE  SlotStep
  <1>0. TypeOK /\ lease \in [Agents -> LeaseStates] /\ KinInv
    BY DEF ExecInv, EvidenceInv, TypeOK, LeaseType
  <1>1. /\ UNCHANGED <<task, control, review>> /\ lease' = [lease EXCEPT ![a] = "reserved"]
        /\ launch' = launch \cup {[task |-> None, agent |-> a, vonly |-> FALSE, stage |-> "acquired", reuse |-> FALSE]}
        /\ HasRecord(a) /\ Admission(a, ProjectOf[agent[a].link], TRUE) = "grant"
    BY DEF DirectPrompt
  <1>2. \A u \in Tasks : Launching(u)' <=> Launching(u)
    BY <1>1, BoardAssumption DEF Launching
  <1>3. \A u \in Tasks : Still(u)
    BY <1>1, <1>2 DEF Still, HasLoop
  <1>4. CASE \A u \in Tasks : task[u].assigned # a
    BY <1>0, <1>1, <1>3, <1>4, SlotStill
  <1>5. ASSUME NEW t \in Tasks, task[t].assigned = a PROVE SlotStep
    <2>1. Holds(t, a) /\ agent[a].link = t
      BY <1>0, <1>1, <1>5 DEF Holds, Kin, KinInv
    <2>2. Engaged(t)' => Vacant(t)
      BY <1>1, <1>5, <2>1, AdmittedVacant DEF Engaged
    <2>3. \A u \in Tasks \ {t} : task[u].assigned # a
      BY <1>0, <2>1 DEF KinInv, Holds, Kin
    <2>4. PhaseMoves(t)
      BY <1>3, StillPhase DEF PhaseMoves
    <2> QED BY <1>0, <1>1, <1>3, <2>2, <2>3, <2>4, SlotFrame
  <1> QED BY <1>4, <1>5

\* The two sections of a launch.
LEMMA LaunchSlot ==
    ASSUME ExecInv, SlotInv, NEW l \in launch, LaunchAcquire(l) \/ LaunchControl(l)
    PROVE  SlotStep
  <1>0. /\ TypeOK /\ control \in [Tasks -> Loops] /\ lease \in [Agents -> LeaseStates]
        /\ task \in [Tasks -> TaskRecords] /\ \A u \in Tasks : task[u] \in TaskRecords
        /\ launch \subseteq Launches /\ KinInv
    BY DEF ExecInv, EvidenceInv, TypeOK, ThreadType, LoopType, LeaseType, TaskType
  <1>1. PICK t \in Tasks, a \in Agents : t = l.task /\ a = l.agent
    BY LaunchAlone DEF LaunchAcquire, LaunchControl
  <1>2. /\ LaunchHeld(l) /\ a \notin AcceptanceOwners /\ l.task # None
        /\ \A m \in launch \ {l} : m.task # t
        /\ task[t].assigned = a /\ ~HasLoop(t) /\ l \in Launches
    BY <1>0, <1>1, LaunchAlone, BoardAssumption DEF LaunchHeld
  <1>3. ~WaitingInQueue(task[t]) /\ Holds(t, a)
    BY <1>2, NoneAssumption DEF WaitingInQueue, Holds, Kin
  <1>4. \A u \in Tasks \ {t} : task[u].assigned # a
    BY <1>0, <1>3 DEF KinInv, Holds, Kin
  <1>5. Launching(t) <=> ~l.vonly
    BY <1>1, <1>2 DEF Launching
  <1>6. CASE LaunchAcquire(l)
    <2> DEFINE verdict == Admission(a, ProjectOf[t], FALSE)
    <2>1. verdict \in {"reject", "grant"}
      BY <1>2 DEF Admission
    <2>2. CASE verdict = "reject"
      <3>1. /\ task' = [task EXCEPT ![t] = BlockedTask(task[t])] /\ launch' = launch \ {l} /\ lease' = lease
            /\ control' = [control EXCEPT ![t].att = FALSE, ![t].pc = control[t].pc]
            /\ review' \subseteq review
        BY <1>1, <1>6, <2>2 DEF LaunchAcquire, BlockTask, Touch
      <3>2. /\ task'[t].queued = task[t].queued /\ task'[t].cond = "Blocked"
            /\ task'[t].assigned \in {None, task[t].assigned}
            /\ \A u \in Tasks \ {t} : task'[u] = task[u]
        BY <1>0, <3>1 DEF BlockedTask, TaskRecords
      <3>3. \A u \in Tasks : control'[u].pc = control[u].pc /\ control'[u].vonly = control[u].vonly
        BY <1>0, <3>1 DEF Loops
      <3>4. \A u \in Tasks \ {t} : Launching(u)' <=> Launching(u)
        BY <1>1, <3>1 DEF Launching
      <3>5. \A u \in Tasks \ {t} : Still(u)
        BY <3>2, <3>3, <3>4 DEF Still, HasLoop
      <3>6. ~Launching(t)' /\ ~WaitingInQueue(task'[t]) /\ ~HasLoop(t)'
        BY <1>1, <1>2, <3>1, <3>2, <3>3 DEF Launching, WaitingInQueue, HasLoop
      <3>7. PhaseMoves(t)
        BY <1>2, <1>3, <3>2, <3>6 DEF PhaseMoves, Phase, Launching
      <3>8. Engaged(t)' => Engaged(t)
        BY <3>1, <3>2, <3>6, NoneAssumption DEF Engaged
      <3> QED BY <1>0, <3>1, <3>2, <3>5, <3>7, <3>8, SlotFrame
    <2>3. CASE verdict = "grant"
      <3>1. /\ lease' = [lease EXCEPT ![a] = "reserved"] /\ UNCHANGED <<task, control, review>>
            /\ launch' = (launch \ {l}) \cup {[l EXCEPT !.stage = "acquired", !.reuse = FALSE]}
        BY <1>1, <1>6, <2>3 DEF LaunchAcquire
      <3>2. [l EXCEPT !.stage = "acquired", !.reuse = FALSE].task = l.task /\ [l EXCEPT !.stage = "acquired", !.reuse = FALSE].vonly = l.vonly
        BY <1>2 DEF Launches
      <3>3. \A u \in Tasks : Launching(u)' <=> Launching(u)
        BY <3>1, <3>2 DEF Launching
      <3>4. \A u \in Tasks : Still(u)
        BY <3>1, <3>3 DEF Still, HasLoop
      <3>5. Engaged(t)' => Vacant(t)
        BY <1>2, <2>3, <3>1, AdmittedVacant DEF Engaged
      <3>6. PhaseMoves(t)
        BY <3>4, StillPhase DEF PhaseMoves
      <3> QED BY <1>0, <1>4, <3>1, <3>4, <3>5, <3>6, SlotFrame
    <2> QED BY <2>1, <2>2, <2>3
  <1>7. CASE LaunchControl(l)
    <2> DEFINE loop == [NoLoop EXCEPT !.pc = "preflight", !.owner = a, !.vonly = l.vonly, !.ordinal = 1]
    <2>1. /\ control' = [control EXCEPT ![t] = loop] /\ launch' = launch \ {l}
          /\ UNCHANGED <<task, lease, review>> /\ l.stage = "acquired"
      BY <1>1, <1>2, <1>7 DEF LaunchControl, NoLoop
    <2>2. HasLoop(t)' /\ control'[t].vonly = l.vonly /\ \A u \in Tasks \ {t} : control'[u] = control[u]
      BY <1>0, <2>1 DEF HasLoop, NoLoop
    <2>3. \A u \in Tasks \ {t} : Launching(u)' <=> Launching(u)
      BY <1>1, <2>1 DEF Launching
    <2>4. \A u \in Tasks \ {t} : Still(u)
      BY <2>1, <2>2, <2>3 DEF Still, HasLoop
    <2>5. task[t].queued => Engaged(t)
      BY <1>1, <1>2, <2>1 DEF Engaged, LaunchHeld
    <2>6. Engaged(t)' => Engaged(t)
      BY <2>1, <2>5 DEF Engaged
    <2>7. Engaged(t) => Vacant(t)
      BY DEF SlotInv, Vacant
    <2>8. PhaseMoves(t)
      <3>1. CASE ~task[t].queued
        BY <2>1, <3>1 DEF PhaseMoves, Phase
      <3>2. CASE task[t].queued
        <4>1. Phase(t) = IF l.vonly THEN "idle" ELSE "authorized"
          BY <1>2, <1>3, <1>5, <3>2 DEF Phase, Launching
        <4>2. Phase(t)' = IF l.vonly THEN "validating" ELSE "executing"
          BY <2>1, <2>2, <3>2 DEF Phase
        <4> QED BY <2>5, <2>7, <3>2, <4>1, <4>2 DEF PhaseMoves
      <3> QED BY <3>1, <3>2
    <2> QED BY <1>0, <2>1, <2>4, <2>6, <2>8, SlotFrame
  <1> QED BY <1>6, <1>7

-----------------------------------------------------------------------------
\* A request about the card of t, which nothing executes, that makes no agent with a
\* reservation its own.
LEMMA CardSlotFrame ==
    ASSUME SlotInv, TypeOK, NEW t \in Tasks, ~HasLoop(t), UNCHANGED <<lease, control>>,
           \A u \in Tasks \ {t} : task'[u] = task[u] /\ (Launching(u)' <=> Launching(u)), Touch({t}),
           \A a \in Agents : task'[t].queued /\ task'[t].assigned = a /\ lease[a] # "none" =>
                             task[t].queued /\ task[t].assigned = a,
           PhaseMoves(t)
    PROVE  SlotStep
  <1>1. \A u \in Tasks \ {t} : Still(u)
    BY DEF Still, HasLoop
  <1>2. Engaged(t)' => Engaged(t)
    BY DEF Engaged, HasLoop
  <1>3. \A r \in review' : r \in review /\ r.task # t
    BY DEF Touch
  <1> QED BY <1>1, <1>2, <1>3, SlotFrame

\* The phase of a task that nothing executes.
LEMMA RestingPhase ==
    ASSUME NEW t \in Tasks, ~HasLoop(t), ~Launching(t)
    PROVE  Phase(t) = IF WaitingInQueue(task[t]) THEN "waiting" ELSE "idle"
  BY DEF Phase, Launching, WaitingInQueue

\* Requests that queue a task.
LEMMA EnqueueSlot ==
    ASSUME ExecInv, SlotInv, NEW t \in Tasks, Enqueue(t) \/ RequestChangesQueued(t)
    PROVE  SlotStep
  <1>0. TypeOK /\ task \in [Tasks -> TaskRecords] /\ task[t] \in TaskRecords
    BY DEF ExecInv, EvidenceInv, TypeOK, TaskType
  <1>1. PICK pos : task' = [task EXCEPT ![t] = Waiting(task[t], pos)]
    BY DEF Enqueue, RequestChangesQueued
  <1>2. ~HasLoop(t) /\ \A l \in launch : l.task # t
    BY NotLive DEF Enqueue, RequestChangesQueued
  <1>3. ~WaitingInQueue(task[t]) /\ ~task[t].archived
    BY <1>0, ColumnOf DEF Enqueue, RequestChangesQueued, MayTransition, WaitingInQueue
  <1>4. Touch({t}) /\ UNCHANGED <<lease, control, launch>>
    BY DEF Enqueue, RequestChangesQueued
  <1>5. /\ \A u \in Tasks \ {t} : task'[u] = task[u]
        /\ task'[t].queued /\ task'[t].assigned = None /\ WaitingInQueue(task'[t])
    BY <1>0, <1>1, <1>3 DEF Waiting, TaskRecords, WaitingInQueue, Column
  <1>6. ~Launching(t) /\ ~Launching(t)' /\ ~HasLoop(t)' /\ \A u \in Tasks : Launching(u)' <=> Launching(u)
    BY <1>2, <1>4 DEF Launching, HasLoop
  <1>7. Phase(t) = "idle" /\ Phase(t)' = "waiting"
    <2>1. Phase(t) = "idle"
      BY <1>2, <1>3, <1>6, RestingPhase
    <2>2. Phase(t)' = "waiting"
      BY <1>5, <1>6 DEF Phase
    <2> QED BY <2>1, <2>2
  <1> QED BY <1>0, <1>2, <1>4, <1>5, <1>6, <1>7, NoneAssumption, CardSlotFrame DEF PhaseMoves

\* The claim of the queue's thread.
LEMMA ClaimSlot ==
    ASSUME ExecInv, SlotInv, NEW t \in Tasks
    PROVE  /\ ClaimBlocked(t) => SlotStep
           /\ \A a \in Agents : Claim(t, a) => SlotStep
  <1>0. TypeOK /\ task \in [Tasks -> TaskRecords] /\ task[t] \in TaskRecords
    BY DEF ExecInv, EvidenceInv, TypeOK, TaskType
  <1>1. ASSUME ClaimBlocked(t) PROVE SlotStep
    <2>1. /\ WaitingInQueue(task[t]) /\ task' = [task EXCEPT ![t].cond = "Blocked"]
          /\ Touch({t}) /\ UNCHANGED <<lease, control, launch>>
      BY <1>1 DEF ClaimBlocked, HeadOfQueue
    <2>2. ~HasLoop(t) /\ \A l \in launch : l.task # t
      BY <2>1, WaitingNotLive
    <2>3. /\ \A u \in Tasks \ {t} : task'[u] = task[u]
          /\ task'[t].queued = task[t].queued /\ task'[t].assigned = task[t].assigned /\ ~WaitingInQueue(task'[t])
      BY <1>0, <2>1 DEF TaskRecords, WaitingInQueue
    <2>4. ~Launching(t) /\ ~Launching(t)' /\ ~HasLoop(t)' /\ \A u \in Tasks : Launching(u)' <=> Launching(u)
      BY <2>1, <2>2 DEF Launching, HasLoop
    <2>5. Phase(t) = "waiting"
      BY <2>1, <2>2, <2>4, RestingPhase
    <2>6. Phase(t)' = "idle"
      BY <2>3, <2>4 DEF Phase, Launching
    <2> QED BY <1>0, <2>1, <2>2, <2>3, <2>4, <2>5, <2>6, CardSlotFrame DEF PhaseMoves
  <1>2. ASSUME NEW a \in Agents, Claim(t, a) PROVE SlotStep
    <2> DEFINE l == [task |-> t, agent |-> a, vonly |-> FALSE, stage |-> "claimed", reuse |-> FALSE]
    <2>1. /\ WaitingInQueue(task[t]) /\ Claimable(t) /\ launch' = launch \cup {l}
          /\ Touch({t}) /\ UNCHANGED <<lease, control>>
          /\ IF Or(task[t].qagent, task[t].cont) = None THEN Fresh(a) ELSE a = Or(task[t].qagent, task[t].cont)
          /\ HasRecord(a) \/ task[t].cont = a => HasRecord(a)
      BY <1>2 DEF Claim, HeadOfQueue
    <2>2. PICK cont : task' = [task EXCEPT ![t].qagent = a, ![t].assigned = a, ![t].cont = cont]
      BY <1>2 DEF Claim
    <2>3. lease[a] = "none"
      <3>1. CASE Fresh(a)
        BY <3>1 DEF Fresh
      <3>2. CASE a = Or(task[t].qagent, task[t].cont)
        BY <2>1, <3>2, ChosenFree
      <3> QED BY <2>1, <3>1, <3>2
    <2>4. ~HasLoop(t) /\ \A m \in launch : m.task # t
      BY <2>1, WaitingNotLive
    <2>5. /\ \A u \in Tasks \ {t} : task'[u] = task[u]
          /\ task'[t].queued = task[t].queued /\ task'[t].assigned = a
      BY <1>0, <2>2 DEF TaskRecords
    <2>6. /\ ~Launching(t) /\ Launching(t)' /\ ~HasLoop(t)' /\ ~WaitingInQueue(task'[t])
          /\ \A u \in Tasks \ {t} : Launching(u)' <=> Launching(u)
      <3>1. l \in launch' /\ l.task = t /\ ~l.vonly /\ \A m \in launch' : m \in launch \/ m.task = t
        BY <2>1
      <3> HIDE DEF l
      <3>2. Launching(t)' /\ \A u \in Tasks \ {t} : Launching(u)' <=> Launching(u)
        BY <2>1, <3>1 DEF Launching
      <3> QED BY <2>1, <2>4, <2>5, <3>2, NoneAssumption DEF Launching, HasLoop, WaitingInQueue
    <2>7. Phase(t) = "waiting"
      BY <2>1, <2>4, <2>6, RestingPhase
    <2>8. Phase(t)' = "authorized"
      BY <2>1, <2>5, <2>6 DEF Phase, Launching, WaitingInQueue
    <2> QED BY <1>0, <2>1, <2>3, <2>4, <2>5, <2>6, <2>7, <2>8, CardSlotFrame DEF PhaseMoves
  <1> QED BY <1>1, <1>2

\* Selection and reordering leave the slots alone.
LEMMA ArrangeSlot ==
    ASSUME ExecInv, SlotInv, NEW t \in Tasks
    PROVE  /\ \A choice \in MaybeAgent : SelectAgent(t, choice) => SlotStep
           /\ \A before \in Tasks \cup {None} : ReorderQueue(t, before) => SlotStep
  <1>0. /\ TypeOK /\ task \in [Tasks -> TaskRecords] /\ \A u \in Tasks : task[u] \in TaskRecords
        /\ \A u \in Tasks : Column(task[u]) = "Todo" => ~task[u].queued
    BY ColumnOf DEF ExecInv, EvidenceInv, TypeOK, TaskType, Sound
  <1>1. ASSUME NEW choice \in MaybeAgent, SelectAgent(t, choice) PROVE SlotStep
    <2>1. /\ \A u \in Tasks : \/ task'[u] = task[u]
                              \/ /\ \E c : task'[u] = [Unqueued(task[u]) EXCEPT !.assigned = c, !.cont = c]
                                 /\ Column(task[u]) = "Todo"
          /\ UNCHANGED <<lease, control, launch>> /\ review' \subseteq review
      BY <1>1 DEF SelectAgent, Touch
    <2>2. ASSUME NEW u \in Tasks, Column(task[u]) = "Todo", NEW c, task'[u] = [Unqueued(task[u]) EXCEPT !.assigned = c, !.cont = c]
          PROVE  task[u].queued = FALSE /\ task'[u].queued = FALSE
      <3>1. task[u] \in TaskRecords /\ ~task[u].queued
        BY <1>0, <2>2
      <3> QED BY <2>2, <3>1 DEF Unqueued, TaskRecords
    <2>3. \A u \in Tasks : task'[u] = task[u] \/ (task[u].queued = FALSE /\ task'[u].queued = FALSE)
      BY <2>1, <2>2
    <2>4. \A u \in Tasks : Phase(u)' = Phase(u) /\ (Engaged(u)' => Engaged(u))
      BY <2>1, <2>3 DEF Phase, Engaged, HasLoop
    <2>5. SlotInv'
      <3>1. ASSUME NEW r \in review', r.op = "RequestChanges" PROVE ~task'[r.task].queued
        <4>1. r \in review /\ r.task \in Tasks /\ ~task[r.task].queued
          BY <1>0, <2>1, <3>1 DEF SlotInv, TypeOK, ThreadType, Reviews
        <4> QED BY <2>3, <4>1
      <3> QED BY <2>4, <3>1 DEF SlotInv, SameRoot
    <2> QED BY <2>4, <2>5 DEF SlotStep
  <1>2. ASSUME NEW before \in Tasks \cup {None}, ReorderQueue(t, before) PROVE SlotStep
    <2>1. /\ \A u \in Tasks : task'[u] = task[u] \/ \E n : task'[u] = [task[u] EXCEPT !.pos = n]
          /\ UNCHANGED <<lease, control, launch>> /\ review' \subseteq review
      BY <1>2 DEF ReorderQueue, Touch
    <2>2. ASSUME NEW u \in Tasks, NEW n, task'[u] = [task[u] EXCEPT !.pos = n]
          PROVE  CardKept(u)
      BY <1>0, <2>2 DEF TaskRecords, CardKept
    <2>3. \A u \in Tasks : CardKept(u)
      BY <2>1, <2>2 DEF CardKept
    <2>4. \A u \in Tasks : Still(u)
      BY <2>1, <2>3 DEF Still, CardKept, HasLoop, Launching, WaitingInQueue, Column
    <2> QED BY <1>0, <2>1, <2>4, SlotStill
  <1> QED BY <1>1, <1>2

-----------------------------------------------------------------------------
\* A step that leaves t outside the queue.
LEMMA UnqueuedPhase ==
    ASSUME NEW t \in Tasks, ~task[t].queued, ~task'[t].queued
    PROVE  PhaseMoves(t)
  BY DEF PhaseMoves, Phase

\* The start of a review request.
LEMMA BeginSlot ==
    ASSUME ExecInv, SlotInv, NEW t \in Tasks, NEW op \in ReviewOps, BeginReview(t, op)
    PROVE  SlotStep
  <1>1. /\ UNCHANGED <<task, lease, control, launch>> /\ review' = review \cup {[task |-> t, op |-> op]}
        /\ op = "RequestChanges" => ~task[t].queued
    BY DEF BeginReview
  <1>2. \A u \in Tasks : Phase(u)' = Phase(u) /\ (Engaged(u)' => Engaged(u))
    BY <1>1 DEF Phase, Engaged, HasLoop
  <1>3. SlotInv'
    BY <1>1, <1>2 DEF SlotInv, SameRoot
  <1> QED BY <1>2, <1>3 DEF SlotStep

\* The commit of a review request.
LEMMA ReviewSlot ==
    ASSUME ExecInv, SlotInv, NEW r \in review, ReviewStep(r)
    PROVE  SlotStep
  <1>0. TypeOK /\ task \in [Tasks -> TaskRecords] /\ ReviewIdle(r)
    BY DEF ExecInv, EvidenceInv, ThreadInv, TypeOK, TaskType
  <1>1. PICK t \in Tasks : t = r.task
    BY <1>0 DEF TypeOK, ThreadType, Reviews
  <1>2. ~HasLoop(t) /\ (\A l \in launch : l.task # t) /\ task[t] \in TaskRecords
    BY <1>0, <1>1 DEF ReviewIdle
  <1>3. ~Launching(t)
    BY <1>2 DEF Launching
  <1>4. CASE CommitAccept(r) \/ CommitRelease(r)
    <2>1. UNCHANGED <<lease, control, launch>>
      BY <1>4 DEF CommitAccept, CommitRelease
    <2>2. CASE task' = task
      <3>1. review' \subseteq review
        BY <1>4, <2>2 DEF CommitAccept, CommitRelease, Touch
      <3> QED BY <1>0, <2>1, <2>2, <3>1, SlotKept DEF HasLoop
    <2>3. CASE task' # task
      <3>1. /\ task' = [task EXCEPT ![t] = Transition(@, "Accept")] /\ Touch({t})
            /\ task[t].state = "InReview"
        BY <1>1, <1>4, <2>3 DEF CommitAccept, CommitRelease, ExecInv, EvidenceInv, ReviewBacked
      <3>2. /\ task'[t].queued = task[t].queued /\ task'[t].assigned = task[t].assigned /\ task'[t].state = "Accepted"
            /\ \A u \in Tasks \ {t} : task'[u] = task[u]
        BY <1>0, <1>2, <3>1 DEF Transition, TaskRecords
      <3>3. ~WaitingInQueue(task[t]) /\ ~WaitingInQueue(task'[t]) /\ ~HasLoop(t)'
        BY <1>2, <2>1, <3>1, <3>2 DEF WaitingInQueue, Column, HasLoop
      <3>4. PhaseMoves(t)
        BY <1>2, <2>1, <3>2, <3>3 DEF PhaseMoves, Phase
      <3> QED BY <1>0, <1>2, <2>1, <3>1, <3>2, <3>4, CardSlotFrame DEF Launching
    <2> QED BY <2>2, <2>3
  <1>5. ASSUME NEW a \in Agents, CommitLaunch(r, a) PROVE SlotStep
    <2> DEFINE moved == Transition(task[t], "RequestChanges")
               vonly == r.op = "Revalidate"
               l == [task |-> t, agent |-> a, vonly |-> vonly, stage |-> "claimed", reuse |-> FALSE]
    <2>1. task' = [task EXCEPT ![t] =
              IF vonly THEN [task[t] EXCEPT !.assigned = a, !.cond = "Queued"]
              ELSE [moved EXCEPT !.assigned = a, !.cond = "Queued", !.sub = None]]
      BY <1>1, <1>5 DEF CommitLaunch
    <2>2. /\ Touch({t}) /\ UNCHANGED <<lease, control>> /\ lease[a] = "none" /\ launch' = launch \cup {l}
          /\ r.op \in {"Revalidate", "RequestChanges"}
      BY <1>1, <1>5 DEF CommitLaunch, Fresh
    <2>3. moved \in TaskRecords /\ moved.queued = task[t].queued
      BY <1>2, TransitionType, TransitionKeeps
    <2> HIDE DEF moved
    <2>4. /\ task'[t].queued = task[t].queued /\ task'[t].assigned = a
          /\ \A u \in Tasks \ {t} : task'[u] = task[u]
      <3>1. CASE vonly
        BY <1>0, <1>2, <2>1, <3>1 DEF TaskRecords
      <3>2. CASE ~vonly
        BY <1>0, <1>2, <2>1, <2>3, <3>2 DEF TaskRecords
      <3> QED BY <3>1, <3>2
    <2>5. l \in launch' /\ l.task = t /\ l.vonly = vonly /\ \A m \in launch' : m \in launch \/ m = l
      BY <2>2
    <2> HIDE DEF l
    <2>6. \A u \in Tasks \ {t} : Launching(u)' <=> Launching(u)
      BY <2>2, <2>5 DEF Launching
    <2>7. PhaseMoves(t)
      <3>1. CASE vonly
        <4>1. ~Launching(t)' /\ ~HasLoop(t)' /\ ~WaitingInQueue(task'[t])
          BY <1>2, <2>2, <2>4, <2>5, <3>1, NoneAssumption DEF Launching, HasLoop, WaitingInQueue
        <4>2. Phase(t)' = "idle"
          BY <4>1 DEF Phase, Launching
        <4> QED BY <1>2, <1>3, <4>2, RestingPhase DEF PhaseMoves
      <3>2. CASE ~vonly
        <4>1. ~task[t].queued /\ ~task'[t].queued
          BY <1>1, <2>2, <2>4, <3>2 DEF SlotInv
        <4> QED BY <4>1, UnqueuedPhase
      <3> QED BY <3>1, <3>2
    <2> QED BY <1>0, <1>2, <2>2, <2>4, <2>6, <2>7, CardSlotFrame
  <1> QED BY <1>4, <1>5 DEF ReviewStep

\* Moves of a card.
LEMMA CardSlot ==
    ASSUME ExecInv, SlotInv, NEW t \in Tasks
    PROVE  /\ \A action \in CardActions : CardTransition(t, action) => SlotStep
           /\ \A a \in Agents : Start(t, a) => SlotStep
  <1>0. TypeOK /\ task \in [Tasks -> TaskRecords] /\ task[t] \in TaskRecords
    BY DEF ExecInv, EvidenceInv, TypeOK, TaskType
  <1>1. ASSUME NEW action \in CardActions, CardTransition(t, action) PROVE SlotStep
    <2> DEFINE next == Transition(task[t], action)
    <2>1. /\ Touch({t}) /\ UNCHANGED <<lease, control, launch>> /\ MayTransition(task[t], action)
          /\ ~HasLoop(t) /\ \A l \in launch : l.task # t
      BY <1>1, NotLive DEF CardTransition
    <2>2. PICK x : task' = [task EXCEPT ![t] = x] /\ \/ x = next
                                                     \/ \E c : x = [Unqueued(next) EXCEPT !.cont = c, !.assigned = c, !.cond = "Idle"]
                                                     \/ x = [Unqueued(next) EXCEPT !.cond = "Idle"]
      BY <1>1 DEF CardTransition
    <2>3. next \in TaskRecords /\ next.queued = task[t].queued /\ next.assigned = task[t].assigned
      BY <1>0, TransitionType, TransitionKeeps
    <2>4. next.cond # "Queued" \/ next.state \in {"Backlog", "Ready"}
      BY <1>0 DEF Transition, CardActions, TaskRecords
    <2> HIDE DEF next
    <2>5. /\ x.queued => x = next
          /\ x.queued \in BOOLEAN
      BY <2>2, <2>3 DEF Unqueued, TaskRecords
    <2>6. task'[t] = x /\ \A u \in Tasks \ {t} : task'[u] = task[u]
      BY <1>0, <2>2
    <2>7. ~Launching(t) /\ ~Launching(t)' /\ ~HasLoop(t)' /\ \A u \in Tasks : Launching(u)' <=> Launching(u)
      BY <2>1 DEF Launching, HasLoop
    <2>8. ~WaitingInQueue(task'[t])
      BY <2>3, <2>4, <2>5, <2>6, ColumnOf DEF WaitingInQueue
    <2>9. Phase(t)' = "idle"
      BY <2>7, <2>8 DEF Phase, Launching
    <2>10. PhaseMoves(t)
      BY <2>1, <2>7, <2>9, RestingPhase DEF PhaseMoves
    <2> QED BY <1>0, <2>1, <2>3, <2>5, <2>6, <2>7, <2>10, CardSlotFrame
  <1>2. ASSUME NEW a \in Agents, Start(t, a) PROVE SlotStep
    <2> DEFINE moved == Transition(task[t], "Start")
               l == [task |-> t, agent |-> a, vonly |-> FALSE, stage |-> "claimed", reuse |-> FALSE]
    <2>1. /\ task' = [task EXCEPT ![t] = [moved EXCEPT !.assigned = a, !.cond = "Queued"]]
          /\ Touch({t}) /\ UNCHANGED <<lease, control>> /\ launch' = launch \cup {l} /\ ~task[t].queued
          /\ ~HasLoop(t)
      BY <1>2, NotLive DEF Start
    <2>2. moved \in TaskRecords /\ moved.queued = task[t].queued
      BY <1>0, TransitionType, TransitionKeeps
    <2> HIDE DEF moved
    <2>3. ~task'[t].queued /\ \A u \in Tasks \ {t} : task'[u] = task[u]
      BY <1>0, <2>1, <2>2 DEF TaskRecords
    <2>4. l.task = t /\ \A m \in launch' : m \in launch \/ m = l
      BY <2>1
    <2> HIDE DEF l
    <2>5. \A u \in Tasks \ {t} : Launching(u)' <=> Launching(u)
      BY <2>1, <2>4 DEF Launching
    <2> QED BY <1>0, <2>1, <2>3, <2>5, UnqueuedPhase, CardSlotFrame
  <1> QED BY <1>1, <1>2

\* A restart keeps exactly the tasks that wait.  reconcile_tasks.
LEMMA CrashSlot ==
    ASSUME ExecInv, SlotInv, CrashRestart
    PROVE  SlotStep
  <1>0. \A t \in Tasks : task[t] \in TaskRecords
    BY DEF ExecInv, EvidenceInv, TypeOK, TaskType
  <1>1. /\ \A t \in Tasks : task'[t] = Reconciled(task[t]) /\ control'[t] = NoLoop
        /\ \A a \in Agents : lease'[a] # "none" => lease[a] # "none"
        /\ launch' = {} /\ review' = {}
    BY DEF CrashRestart
  <1>2. ASSUME NEW t \in Tasks
        PROVE  /\ task'[t].queued = task[t].queued /\ task'[t].assigned = task[t].assigned
               /\ WaitingInQueue(task'[t]) <=> WaitingInQueue(task[t])
    <2>1. CASE WaitingInQueue(task[t]) \/ task[t].cond \notin ActiveConditions
      BY <1>1, <2>1 DEF Reconciled
    <2>2. CASE ~(WaitingInQueue(task[t]) \/ task[t].cond \notin ActiveConditions)
      <3>1. task'[t] = [task[t] EXCEPT !.cond = "Blocked", !.state = "Running", !.sub = None]
        BY <1>1, <2>2 DEF Reconciled
      <3> QED BY <1>0, <2>2, <3>1 DEF TaskRecords, WaitingInQueue
    <2> QED BY <2>1, <2>2
  <1>3. \A t \in Tasks : ~HasLoop(t)' /\ ~Launching(t)'
    BY <1>1 DEF HasLoop, NoLoop, Launching
  <1>4. ASSUME NEW t \in Tasks PROVE Engaged(t)' => Engaged(t)
    BY <1>1, <1>2, <1>3 DEF Engaged
  <1>5. SlotInv'
    BY <1>1, <1>4 DEF SlotInv, SameRoot
  <1>6. ASSUME NEW t \in Tasks PROVE Phase(t)' = IF Phase(t) = "waiting" THEN "waiting" ELSE "idle"
    <2>1. Phase(t) = "waiting" <=> WaitingInQueue(task[t])
      BY WaitingNotLive DEF Phase, WaitingInQueue
    <2>2. Phase(t)' = IF WaitingInQueue(task'[t]) THEN "waiting" ELSE "idle"
      BY <1>3 DEF Phase, Launching, WaitingInQueue
    <2> QED BY <1>2, <2>1, <2>2
  <1> QED BY <1>5, <1>6 DEF SlotStep

-----------------------------------------------------------------------------
\* A task that executes has the slot.
LEMMA PhaseLoop ==
    ASSUME NEW u \in Tasks, Phase(u) \in {"executing", "validating"}
    PROVE  Engaged(u)
  BY DEF Phase, Engaged

\* Such a step is one of the abstract queue, or changes none of its phases.
LEMMA SlotSimulates ==
    ASSUME SlotStep
    PROVE  Slot!Next \/ UNCHANGED [t \in Tasks |-> Phase(t)]
  <1> DEFINE ph == [t \in Tasks |-> Phase(t)]
             new == [t \in Tasks |-> Phase(t)']
  <1>0. ph' = new
    OBVIOUS
  <1>1. CASE \A t \in Tasks : Phase(t)' = Phase(t)
    BY <1>1
  <1>2. ASSUME NEW t \in Tasks, PhaseMoves(t), \A u \in Tasks \ {t} : Phase(u)' = Phase(u)
        PROVE  Slot!Next \/ ph' = ph
    <2>1. ph' = [ph EXCEPT ![t] = Phase(t)'] /\ ph[t] = Phase(t)
      BY <1>2
    <2>2. Vacant(t) => Slot!SlotFree(t)
      BY PhaseLoop DEF Slot!SlotFree, Vacant, SameRoot
    <2>3. CASE Phase(t)' = Phase(t)
      BY <1>2, <2>3
    <2>4. CASE Phase(t)' # Phase(t)
      <3>1. \/ Slot!Wait(t) \/ Slot!Withdraw(t) \/ Slot!Authorize(t) \/ Slot!Refuse(t)
            \/ Slot!Execute(t) \/ Slot!Validate(t) \/ Slot!Finish(t)
        BY <1>2, <2>1, <2>2, <2>4 DEF PhaseMoves, Slot!Wait, Slot!Withdraw, Slot!Authorize, Slot!Refuse,
           Slot!Execute, Slot!Validate, Slot!Finish, Slot!Step
      <3> QED BY <3>1 DEF Slot!Next
    <2> QED BY <2>3, <2>4
  <1>3. CASE \A t \in Tasks : Phase(t)' = IF Phase(t) = "waiting" THEN "waiting" ELSE "idle"
    <2>1. Slot!Restart
      BY <1>3 DEF Slot!Restart
    <2> QED BY <2>1 DEF Slot!Next
  <1> QED BY <1>1, <1>2, <1>3 DEF SlotStep

\* No task has a slot at first.
LEMMA InitSlot == Init => SlotInv /\ Slot!Init
  BY DEF Init, SlotInv, Slot!Init, Engaged, NewTask, Phase

\* Every step keeps the invariant and moves at most one task.
LEMMA NextSlot == ExecInv /\ SlotInv /\ [Next]_vars => SlotStep
  <1> SUFFICES ASSUME ExecInv, SlotInv, [Next]_vars PROVE SlotStep
    OBVIOUS
  <1>1. CASE UserStep
    BY <1>1, RuntimeKept, AgentSlot, PromptSlot, EnqueueSlot, ArrangeSlot, BeginSlot, CardSlot
       DEF UserStep, StopAgent, StopCancelled
  <1>2. CASE QueueStep
    BY <1>2, AgentSlot, ClaimSlot DEF QueueStep
  <1>3. ASSUME NEW l \in launch, LaunchStep(l) PROVE SlotStep
    BY <1>3, RuntimeKept, AgentSlot, LaunchSlot DEF LaunchStep
  <1>4. ASSUME NEW t \in Tasks, LoopStep(t) PROVE SlotStep
    BY <1>4, AgentSlot, LoopQuietSlot, LoopSlot DEF LoopStep
  <1>5. ASSUME NEW a \in Agents, TurnCompletes(a) \/ FinishAgent(a) \/ GroupExits(a) PROVE SlotStep
    BY <1>5, RuntimeKept, AgentSlot
  <1>6. CASE EditWorkspace \/ UNCHANGED vars
    BY <1>6, RuntimeKept
  <1> QED BY <1>1, <1>2, <1>3, <1>4, <1>5, <1>6, ReviewSlot, CrashSlot DEF Next

\* The inductive invariant holds.
LEMMA SlotInvariant == QuietOps /\ Spec => [](ExecInv /\ SlotInv)
  <1>1. ExecInv /\ SlotInv /\ [Next]_vars => SlotInv'
    BY NextSlot DEF SlotStep
  <1> QED BY <1>1, InitSlot, ExecutionInvariant, PTL DEF Spec

\* Queued tasks of one workspace are serialized, the cleanup after a loop included, also
\* when two projects share the workspace (board_execution_busy), if no stop hides a launch
\* under way from the next claim.
THEOREM QueueIsSerial == QuietOps /\ Spec => []SerialExecution
  <1>1. ASSUME ExecInv, SlotInv PROVE SerialExecution
    <2>1. ASSUME NEW t \in Tasks, Occupies(t) PROVE Engaged(t)
      <3>1. \A a \in group : a \in Agents /\ lease[a] # "none"
        BY <1>1 DEF ExecInv, EvidenceInv, ThreadInv, Covered, TypeOK, LeaseType
      <3> QED BY <2>1, <3>1 DEF Occupies, Engaged
    <2> QED BY <1>1, <2>1 DEF SlotInv, SerialExecution
  <1> QED BY <1>1, SlotInvariant, PTL

\* The board implements one slot per workspace with single-use authorizations
\* (claim_board_task, begin_acceptance, reconcile_tasks), under the same condition.
THEOREM BoardImplementsSlot == QuietOps /\ Spec => SlotSpec
  <1>1. ExecInv /\ SlotInv /\ [Next]_vars => [Slot!Next]_([t \in Tasks |-> Phase(t)])
    BY NextSlot, SlotSimulates
  <1> QED BY <1>1, InitSlot, SlotInvariant, PTL DEF Spec, SlotSpec, Slot!Spec

=============================================================================
