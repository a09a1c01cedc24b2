----------------------------- MODULE Jobs_proofs -----------------------------
(***************************************************************************)
(* Proofs about the background jobs of the daemon: the names of sessions   *)
(* and the plans of tasks, for every number of sessions, faults, renames,  *)
(* tasks, jobs and restarts.                                               *)
(***************************************************************************)
EXTENDS SessionNames, TaskPlanning, TLAPS

-----------------------------------------------------------------------------
\* Session names.

Names == {NoName, "model", "codex"}
Receipts == [session : Nat, attempts : Nat, name : Names]
Jobbing == {"read", "ask", "keep", "look", "save", "apply"}

\* What the background thread carries from step to step.
NamerType ==
    \/ namer = Sleeping
    \/ namer \in [pc : {"found"}, session : Sessions, name : Names]
    \/ namer \in [pc : {"read"}, session : Sessions, receipt : Receipts]
    \/ namer \in [pc : Jobbing \ {"read"}, session : Sessions, receipt : Receipts,
                  name : Names, fresh : BOOLEAN]

\* The types of the variables.
NamesTypeOK ==
    /\ NamerType
    /\ session \in Sessions
    /\ titles \in [codex : Names, user : {NoName, "user"}]
    /\ codex \in [Sessions -> Names]
    /\ receipt \in Receipts
    /\ asked \in [Sessions -> Nat]
    /\ nameFaults \in Nat /\ renames \in Nat

\* The thread has an attempt under way, and has not asked the model yet.
Attempting == namer.pc \in Jobbing
ToAsk(s) == namer.pc \in {"read", "ask"} /\ namer.session = s

\* How often the model was asked for s, an attempt that is about to ask included.
Committed(s) == IF ToAsk(s) THEN asked[s] + 1 ELSE asked[s]

\* The attempt under way is the one in the store; no other attempt can be begun or
\* forgotten meanwhile.
AttemptIsStored ==
    Attempting => /\ ~failed
                  /\ namer.session = receipt.session
                  /\ namer.receipt.session = receipt.session
                  /\ namer.receipt.attempts = receipt.attempts

\* Every question is covered by an attempt in the store: at most two of the session of
\* the receipt, none of a session that had no receipt yet.
AttemptsCoverAsking ==
    /\ receipt.session <= session
    /\ receipt.attempts <= 2
    /\ \A s \in Sessions : /\ Committed(s) <= 2
                           /\ s = receipt.session => Committed(s) <= receipt.attempts
                           /\ s > receipt.session => Committed(s) = 0

NamesInv == NamesTypeOK /\ AttemptIsStored /\ AttemptsCoverAsking

\* The invariant holds at first: no session has a receipt (RuntimeState::new).
LEMMA NamesInitInv == NamesInit => NamesInv
  <1> SUFFICES ASSUME NamesInit PROVE NamesInv
    OBVIOUS
  <1> USE NamesAssumption DEF NamesInit, Sleeping, NoReceipt, NoSession, NoName
  <1>1. NamesTypeOK
    <2>1. session \in Sessions /\ nameFaults \in Nat /\ renames \in Nat
      BY DEF Sessions
    <2>2. titles \in [codex : Names, user : {NoName, "user"}] /\ receipt \in Receipts
      BY DEF Names, Receipts
    <2>3. codex \in [Sessions -> Names] /\ asked \in [Sessions -> Nat]
      BY DEF Names
    <2> QED BY <2>1, <2>2, <2>3 DEF NamesTypeOK, NamerType
  <1>2. AttemptIsStored
    BY DEF AttemptIsStored, Attempting, Jobbing
  <1>3. AttemptsCoverAsking
    BY DEF AttemptsCoverAsking, Committed, ToAsk, Sessions
  <1> QED BY <1>1, <1>2, <1>3 DEF NamesInv

\* A step of the thread, of a turn, of the user or a restart preserves the types.
LEMMA NamesStepType ==
    ASSUME NamesTypeOK, [NamesNext]_nameVars
    PROVE  NamesTypeOK'
  <1> USE DEF NamesTypeOK
  <1>1. CASE Refresh
    BY <1>1 DEF Refresh, NamerType
  <1>2. CASE RefreshApplies
    BY <1>2 DEF RefreshApplies, NamerType, Jobbing, Sleeping
  <1>3. CASE Claim
    BY <1>3 DEF Claim, NamerType, Reserved, OwnReceipt, NoReceipt, Receipts, Names, Sessions, NoSession
  <1>4. CASE ReadExisting
    BY <1>4 DEF ReadExisting, NamerType, Jobbing, Receipts, Sleeping
  <1>5. CASE AskModel
    <2>1. namer \in [pc : Jobbing \ {"read"}, session : Sessions, receipt : Receipts,
                     name : Names, fresh : BOOLEAN]
      BY <1>5 DEF AskModel, NamerType, Sleeping
    <2>2. [namer.receipt EXCEPT !.name = "model"] \in Receipts
      BY <2>1 DEF Receipts, Names
    <2>3. NamerType'
      BY <1>5, <2>1, <2>2 DEF AskModel, NamerType, Jobbing, Names
    <2> QED BY <1>5, <2>1, <2>3 DEF AskModel
  <1>6. CASE KeepAnswer
    BY <1>6 DEF KeepAnswer, NamerType, Jobbing, Sleeping
  <1>7. CASE LookAgain
    BY <1>7 DEF LookAgain, NamerType, Jobbing, Sleeping
  <1>8. CASE SaveName
    BY <1>8 DEF SaveName, NamerType, Jobbing, Sleeping
  <1>9. CASE ApplyName
    BY <1>9 DEF ApplyName, NamerType, Jobbing, Sleeping
  <1>10. CASE NamerFails
    BY <1>10 DEF NamerFails, GiveUpNaming, Fault, NamerType, Jobbing, Sleeping
  <1>11. CASE TitleEvent
    BY <1>11 DEF TitleEvent, NamerType
  <1>12. CASE NamerRestarts
    BY <1>12 DEF NamerRestarts, Fault, NamerType
  <1>13. ASSUME NEW s \in Sessions, CodexNames(s) PROVE NamesTypeOK'
    BY <1>13 DEF CodexNames, NamerType, Names
  <1>14. ASSUME NEW s \in Sessions, OtherSession(s) PROVE NamesTypeOK'
    BY <1>14 DEF OtherSession, NamerType
  <1>15. ASSUME NEW name \in {NoName, "user"}, RenameAgent(name) PROVE NamesTypeOK'
    BY <1>15 DEF RenameAgent, NamerType, NoReceipt, Receipts, Names, NoSession
  <1>16. CASE UNCHANGED nameVars
    BY <1>16 DEF nameVars, NamerType
  <1> QED BY <1>1, <1>2, <1>3, <1>4, <1>5, <1>6, <1>7, <1>8, <1>9, <1>10, <1>11, <1>12, <1>13,
             <1>14, <1>15, <1>16 DEF NamesNext, NamerStep

\* The count of questions is a number.
LEMMA CommittedType ==
    ASSUME NamesTypeOK
    PROVE  \A s \in Sessions : Committed(s) \in Nat
  BY DEF NamesTypeOK, Committed

\* The attempt under way stays the one in the store, and covers the question
\* (claim_session_name_job, store_session_name_receipt, rename_agent).
LEMMA NamesStepInv ==
    ASSUME NamesInv, [NamesNext]_nameVars
    PROVE  AttemptIsStored' /\ AttemptsCoverAsking'
  <1> USE DEF NamesInv, NamesTypeOK, NamerType, Sleeping, Jobbing, AttemptIsStored,
              AttemptsCoverAsking, Committed, ToAsk, Attempting
  <1>1. CASE Refresh
    BY <1>1 DEF Refresh
  <1>2. CASE RefreshApplies
    BY <1>2 DEF RefreshApplies
  <1>3. CASE Claim
    BY <1>3 DEF Claim, Reserved, OwnReceipt, NoReceipt, NoSession, Claimable, Receipts, Sessions
  <1>4. CASE ReadExisting
    <2>1. namer.pc = "read" /\ namer'.pc \in {"ask", "look"} /\ namer'.session = namer.session
          /\ namer'.receipt = namer.receipt
      BY <1>4 DEF ReadExisting
    <2>2. \A s \in Sessions : Committed(s)' \in Nat /\ Committed(s)' <= Committed(s)
      BY <1>4, <2>1 DEF ReadExisting
    <2>3. receipt' = receipt /\ session' = session /\ failed' = failed
      BY <1>4 DEF ReadExisting
    <2> HIDE DEF Committed, NamerType
    <2> QED BY <2>1, <2>2, <2>3, CommittedType DEF Receipts, Sessions
  <1>5. CASE AskModel
    BY <1>5 DEF AskModel, Receipts
  <1>6. CASE KeepAnswer
    BY <1>6 DEF KeepAnswer
  <1>7. CASE LookAgain
    BY <1>7 DEF LookAgain
  <1>8. CASE SaveName
    BY <1>8 DEF SaveName
  <1>9. CASE ApplyName
    BY <1>9 DEF ApplyName
  <1>10. CASE NamerFails
    <2>1. namer'.pc = "sleep"
      BY <1>10 DEF NamerFails
    <2>2. \A s \in Sessions : Committed(s)' \in Nat /\ Committed(s)' <= Committed(s)
      BY <1>10, <2>1 DEF NamerFails
    <2>3. receipt' = receipt /\ session' = session
      BY <1>10 DEF NamerFails
    <2> HIDE DEF Committed, NamerType
    <2> QED BY <2>1, <2>2, <2>3, CommittedType DEF Receipts, Sessions
  <1>11. CASE TitleEvent
    <2>1. ~failed => ~failed'
      BY <1>11, Zenon DEF TitleEvent
    <2> QED BY <1>11, <2>1 DEF TitleEvent
  <1>12. CASE NamerRestarts
    <2>1. namer'.pc = "sleep"
      BY <1>12 DEF NamerRestarts
    <2>2. \A s \in Sessions : Committed(s)' \in Nat /\ Committed(s)' <= Committed(s)
      BY <1>12, <2>1 DEF NamerRestarts
    <2>3. receipt' = receipt /\ session' = session
      BY <1>12 DEF NamerRestarts
    <2> HIDE DEF Committed, NamerType
    <2> QED BY <2>1, <2>2, <2>3, CommittedType DEF Receipts, Sessions
  <1>13. ASSUME NEW s \in Sessions, CodexNames(s) PROVE AttemptIsStored' /\ AttemptsCoverAsking'
    BY <1>13 DEF CodexNames
  <1>14. ASSUME NEW s \in Sessions, OtherSession(s) PROVE AttemptIsStored' /\ AttemptsCoverAsking'
    BY <1>14 DEF OtherSession, Sessions, Receipts
  <1>15. ASSUME NEW name \in {NoName, "user"}, RenameAgent(name)
         PROVE  AttemptIsStored' /\ AttemptsCoverAsking'
    BY <1>15 DEF RenameAgent, NoReceipt, NoSession, Sessions
  <1>16. CASE UNCHANGED nameVars
    BY <1>16 DEF nameVars
  <1> QED BY <1>1, <1>2, <1>3, <1>4, <1>5, <1>6, <1>7, <1>8, <1>9, <1>10, <1>11, <1>12, <1>13,
             <1>14, <1>15, <1>16 DEF NamesNext, NamerStep

\* The model is asked at most twice for a session until the user asks for a retry, for
\* every number of sessions, faults, restarts and renames (claim_session_name_job).
THEOREM ModelIsAskedTwice == NamesSpec => []ModelCallsBounded
  <1>1. NamesInv /\ [NamesNext]_nameVars => NamesInv'
    BY NamesStepType, NamesStepInv DEF NamesInv
  <1>2. NamesInv => ModelCallsBounded
    BY DEF NamesInv, NamesTypeOK, AttemptsCoverAsking, Committed, ModelCallsBounded
  <1> QED BY NamesInitInv, <1>1, <1>2, PTL DEF NamesSpec

-----------------------------------------------------------------------------
\* Plans of tasks.

Texts == {Empty} \cup Jobs \cup Edits
JobRecords == [id : {0} \cup Jobs,
               status : {"none", "running", "canceled", "completed", "failed", "interrupted"},
               previous : Texts, result : {Empty} \cup Jobs]
PlanRecords == [place : {"open", "busy", "deleted"}, text : Texts, job : JobRecords]

\* The types of the variables.
PlanTypeOK ==
    /\ plan \in [PlanTasks -> PlanRecords]
    /\ saved \in [PlanTasks -> PlanRecords]
    /\ planner \in [Jobs -> {"none", "run", "over"}]
    /\ reloads \in Nat

\* What finish_task_plan makes of a task is a task, with a new text only if the job is the
\* one the task waits for, the task can be edited and the text is the one it began with.
LEMMA FinishedPlan ==
    ASSUME PlanTypeOK, NEW t \in PlanTasks, NEW j \in Jobs, NEW ok \in BOOLEAN
    PROVE  /\ Finished(t, j, ok) \in PlanRecords
           /\ Finished(t, j, ok).text # plan[t].text =>
                /\ Finished(t, j, ok).text = j
                /\ Editable(t) /\ plan[t].text = plan[t].job.previous
  <1>1. plan[t] \in PlanRecords
    BY DEF PlanTypeOK
  <1> DEFINE status == IF ok THEN "completed" ELSE "failed"
             result == IF ok THEN j ELSE plan[t].job.result
             text == IF ok /\ Editable(t) /\ plan[t].text = plan[t].job.previous
                     THEN j ELSE plan[t].text
  <1>2. [plan[t].job EXCEPT !.status = status, !.result = result] \in JobRecords
    BY <1>1 DEF PlanRecords, JobRecords
  <1>3. text \in Texts
    BY <1>1 DEF PlanRecords, Texts
  <1>4. Finished(t, j, ok) = [plan[t] EXCEPT
           !.job = [plan[t].job EXCEPT !.status = status, !.result = result], !.text = text]
    BY <1>1 DEF Finished, PlanRecords, JobRecords
  <1> HIDE DEF status, result
  <1> QED BY <1>1, <1>2, <1>3, <1>4 DEF PlanRecords

\* A job is replaced by another status or result.
LEMMA JobStatusType ==
    ASSUME NEW r \in PlanRecords, NEW status \in {"canceled", "failed", "interrupted"},
           NEW result \in {Empty} \cup Jobs
    PROVE  /\ [r EXCEPT !.job.status = status] \in PlanRecords
           /\ [r EXCEPT !.job.status = status, !.job.result = result] \in PlanRecords
           /\ [r EXCEPT !.job.status = status].text = r.text
           /\ [r EXCEPT !.job.status = status, !.job.result = result].text = r.text
  <1>1. /\ [r.job EXCEPT !.status = status] \in JobRecords
        /\ [r.job EXCEPT !.status = status, !.result = result] \in JobRecords
    BY DEF PlanRecords, JobRecords
  <1> QED BY <1>1 DEF PlanRecords

\* A new job of a task.
LEMMA NewJobType ==
    ASSUME PlanTypeOK, NEW t \in PlanTasks, NEW j \in Jobs, NEW status \in {"running", "failed"}
    PROVE  /\ [plan[t] EXCEPT !.job = NewJob(t, j, status)] \in PlanRecords
           /\ [plan[t] EXCEPT !.job = NewJob(t, j, status)].text = plan[t].text
  <1>1. plan[t] \in PlanRecords
    BY DEF PlanTypeOK
  <1>2. NewJob(t, j, status) \in JobRecords
    BY <1>1 DEF NewJob, JobRecords, PlanRecords, Empty
  <1> QED BY <1>1, <1>2 DEF PlanRecords

\* Both copies of one task change to a task with the same text, or without a plan of a job.
LEMMA SavedPlan ==
    ASSUME PlanTypeOK, NEW t \in PlanTasks, NEW next \in PlanRecords, SavePlan(t, next),
           next.text = plan[t].text \/ next.text \notin Jobs
    PROVE  /\ plan' \in [PlanTasks -> PlanRecords] /\ saved' \in [PlanTasks -> PlanRecords]
           /\ EntersWanted
  BY DEF PlanTypeOK, SavePlan, EntersWanted

\* Every step preserves the types and lets only a wanted plan in.
LEMMA PlanStep ==
    ASSUME PlanTypeOK, [PlanNext]_planVars
    PROVE  PlanTypeOK' /\ [EntersWanted]_planVars
  <1>0. /\ \A t \in PlanTasks : plan[t] \in PlanRecords /\ saved[t] \in PlanRecords
        /\ Empty \notin Jobs /\ Edits \cap Jobs = {} /\ Empty \in Texts
    BY EditsAssumption DEF PlanTypeOK, Jobs, Empty, Texts
  <1>1. ASSUME NEW t \in PlanTasks, NEW j \in Jobs, GeneratePlan(t, j) \/ AutoPlan(t, j)
        PROVE  PlanTypeOK' /\ EntersWanted
    <2>1. PICK status \in {"running", "failed"} :
            SavePlan(t, [plan[t] EXCEPT !.job = NewJob(t, j, status)])
      BY <1>1 DEF GeneratePlan, AutoPlan, LaunchPlan
    <2>2. /\ plan' \in [PlanTasks -> PlanRecords] /\ saved' \in [PlanTasks -> PlanRecords]
          /\ EntersWanted
      BY <2>1, NewJobType, SavedPlan
    <2>3. planner' \in [Jobs -> {"none", "run", "over"}] /\ reloads' \in Nat
      BY <1>1 DEF GeneratePlan, AutoPlan, LaunchPlan, PlanTypeOK
    <2> QED BY <2>2, <2>3 DEF PlanTypeOK
  <1>2. ASSUME NEW t \in PlanTasks, CancelPlan(t) PROVE PlanTypeOK' /\ EntersWanted
    <2>1. /\ [plan[t] EXCEPT !.job.status = "canceled"] \in PlanRecords
          /\ [plan[t] EXCEPT !.job.status = "canceled"].text = plan[t].text
      BY <1>0, JobStatusType
    <2> QED BY <1>2, <2>1, SavedPlan DEF CancelPlan, PlanTypeOK
  <1>3. ASSUME NEW t \in PlanTasks, DeleteTask(t) PROVE PlanTypeOK' /\ EntersWanted
    <2>1. [place |-> "deleted", text |-> Empty, job |-> NoJob] \in PlanRecords
      BY <1>0 DEF PlanRecords, JobRecords, NoJob, Texts, Empty
    <2> QED BY <1>0, <1>3, <2>1, SavedPlan DEF DeleteTask, PlanTypeOK
  <1>4. ASSUME NEW t \in PlanTasks, NEW text \in Edits, EditPlan(t, text)
        PROVE  PlanTypeOK' /\ EntersWanted
    <2>1. [plan[t] EXCEPT !.text = text] \in PlanRecords /\ [plan[t] EXCEPT !.text = text].text = text
      BY <1>0 DEF PlanRecords, Texts
    <2> QED BY <1>0, <1>4, <2>1, SavedPlan DEF EditPlan, PlanTypeOK
  <1>5. ASSUME NEW t \in PlanTasks, NEW place \in {"open", "busy"}, MoveTask(t, place)
        PROVE  PlanTypeOK' /\ EntersWanted
    <2>1. /\ [plan[t] EXCEPT !.place = place] \in PlanRecords
          /\ [plan[t] EXCEPT !.place = place].text = plan[t].text
      BY <1>0 DEF PlanRecords
    <2> QED BY <1>5, <2>1, SavedPlan DEF MoveTask, PlanTypeOK
  <1>6. ASSUME NEW j \in Jobs, FinishPlan(j) PROVE PlanTypeOK' /\ EntersWanted
    <2>0. planner' \in [Jobs -> {"none", "run", "over"}] /\ reloads' \in Nat
      BY <1>6 DEF FinishPlan, PlanTypeOK
    <2>1. CASE UNCHANGED <<plan, saved>>
      BY <2>0, <2>1 DEF PlanTypeOK, EntersWanted
    <2>2. ASSUME NEW t \in PlanTasks, NEW ok \in BOOLEAN, OwnsJob(t, j),
                 SavePlan(t, Finished(t, j, ok))
          PROVE  PlanTypeOK' /\ EntersWanted
      <3> DEFINE next == Finished(t, j, ok)
      <3>1. next \in PlanRecords /\ (next.text # plan[t].text =>
              next.text = j /\ Editable(t) /\ plan[t].text = plan[t].job.previous)
        BY FinishedPlan
      <3> HIDE DEF next
      <3>2. /\ plan' \in [PlanTasks -> PlanRecords] /\ saved' \in [PlanTasks -> PlanRecords]
            /\ plan' = [plan EXCEPT ![t] = next]
        BY <2>2, <3>1 DEF SavePlan, PlanTypeOK, next
      <3>3. EntersWanted
        BY <2>2, <3>1, <3>2 DEF EntersWanted, OwnsJob, PlanTypeOK
      <3> QED BY <2>0, <3>2, <3>3 DEF PlanTypeOK
    <2>3. ASSUME NEW t \in PlanTasks, NEW ok \in BOOLEAN, KeepUnsaved(t, j, ok)
          PROVE  PlanTypeOK' /\ EntersWanted
      <3> DEFINE result == IF ok THEN j ELSE plan[t].job.result
                 next == [plan[t] EXCEPT !.job.status = "failed", !.job.result = result]
      <3>1. result \in {Empty} \cup Jobs
        BY <1>0 DEF PlanRecords, JobRecords
      <3>2. plan' = [plan EXCEPT ![t] = next] /\ saved' = saved
        BY <2>3, <1>0 DEF KeepUnsaved, PlanTypeOK, PlanRecords, JobRecords
      <3> HIDE DEF result
      <3>3. next \in PlanRecords /\ next.text = plan[t].text
        BY <1>0, <3>1, JobStatusType
      <3> HIDE DEF next
      <3> QED BY <2>0, <3>2, <3>3 DEF PlanTypeOK, EntersWanted
    <2> QED BY <1>6, <2>1, <2>2, <2>3 DEF FinishPlan
  <1>7. ASSUME RestartDaemon PROVE PlanTypeOK' /\ EntersWanted
    <2>1. \A t \in PlanTasks : Interrupted(t) \in PlanRecords
      BY <1>0, JobStatusType DEF Interrupted, Empty
    <2>2. reloads' # reloads
      BY <1>7 DEF RestartDaemon, PlanTypeOK
    <2> QED BY <1>7, <2>1, <2>2 DEF RestartDaemon, PlanTypeOK, EntersWanted
  <1>8. CASE UNCHANGED planVars
    BY <1>8 DEF planVars, PlanTypeOK
  <1> QED BY <1>1, <1>2, <1>3, <1>4, <1>5, <1>6, <1>7, <1>8 DEF PlanNext, NextJobs

\* A generated plan enters a task only from the job the user waits for and never over an
\* edit, for every number of tasks, jobs and restarts (finish_task_plan).
THEOREM OnlyWantedPlansEnter == PlanSpec => PlanEntersWanted
  <1>1. PlanInit => PlanTypeOK
    BY DEF PlanInit, PlanTypeOK, PlanRecords, JobRecords, Texts, NoJob, Empty
  <1>2. PlanTypeOK /\ [PlanNext]_planVars => PlanTypeOK' /\ [EntersWanted]_planVars
    BY PlanStep
  <1> QED BY <1>1, <1>2, PTL DEF PlanSpec, PlanEntersWanted

=============================================================================
