---------------------------- MODULE GitHub_proofs ----------------------------
(***************************************************************************)
(* Proofs about the GitHub integration: the issues and tasks of a project  *)
(* and the account connection, for every set of tasks, contents and        *)
(* accounts and every number of attempts, generations, losses and flags.   *)
(***************************************************************************)
EXTENDS GitHubIssues, GitHubConnection, FiniteSetTheorems, TLAPS

-----------------------------------------------------------------------------
\* Issues and tasks.

Issues == RequestIds \cup {NoIssue}
Publications == [rid : Issues, body : Bodies \cup {NoTask}, result : BOOLEAN]
Controls == [kind : {"none", "status", "connect", "disconnect"},
             step : {"idle", "ask", "save"}, value : Nat]
OpKinds == {"none", "publish", "create", "import"}
OpSteps == {"idle", "register", "repository", "reserve", "post", "refused", "result",
            "attach", "import"}
Operations == [kind : OpKinds, step : OpSteps, task : GTasks \cup {NoTask}, rid : Issues,
               body : Bodies \cup {NoTask}, gen : Nat, registered : BOOLEAN,
               cancel : BOOLEAN, dropped : BOOLEAN]

\* The types of the variables.
IssuesTypeOK ==
    /\ relay \in [gen : Nat, last : Nat, posted : SUBSET RequestIds]
    /\ stored \in Nat
    /\ seen \in Nat \cup {NoTask}
    /\ controlOp \in Controls
    /\ op \in Operations
    /\ pub \in [GTasks -> Publications]
    /\ source \in [GTasks -> Issues]
    /\ row \in [RequestIds -> GTasks \cup {NoTask}]
    /\ present \subseteq GTasks

\* A publication is saved under an id of its own task.
PubOfTask == \A t \in GTasks : pub[t] = NoPub \/ pub[t].rid \in {t} \X (1 .. MaxTry)

\* An issue of a task was posted under the id its saved publication has.
PostedIsSaved ==
    \A i \in relay.posted : i[1] \in GTasks => pub[i[1]].rid = i

\* What the operation under way carries: from the reservation on, a publication posts
\* under the saved id; a refused id was not posted.
OpBound ==
    /\ op.kind = "publish" => /\ op.task \in GTasks
                              /\ op.rid \in {op.task} \X (1 .. MaxTry)
    /\ op.kind = "create" => op.rid \in {NoTask} \X (1 .. MaxTry)
    /\ op.kind = "import" => op.rid \in RequestIds
    /\ op.step = "import" => op.kind \in {"create", "import"}
    /\ op.step = "post" => op.kind \in {"publish", "create"}
    /\ op.step \in {"register", "repository"} => op.kind # "none"
    /\ op.step \in {"reserve", "refused", "result", "attach"} => op.kind = "publish"
    /\ op.kind = "publish" /\ op.step \in {"post", "refused", "result"}
         => pub[op.task].rid = op.rid
    /\ op.step = "refused" => op.rid \notin relay.posted

\* The generations: the Relay's is the newest or none, an answer that was not saved yet
\* brings it, and a reconnection brings one that no operation has seen.
Generations ==
    /\ relay.gen \in {0, relay.last}
    /\ stored <= relay.last /\ op.gen <= relay.last
    /\ controlOp.step # "idle" => controlOp.kind # "none"
    /\ controlOp.step = "save" => controlOp.value = relay.gen
    /\ controlOp.step = "save" /\ controlOp.kind = "connect"
         => stored < relay.gen /\ op.gen < relay.gen
    /\ controlOp.step = "save" /\ controlOp.kind = "disconnect" => relay.gen = 0
    /\ op.step \notin {"idle", "register", "repository"} => op.gen # 0

\* An operation the user dropped has its flag set, or is of a generation that does not
\* come back.
DroppedCannotCommit ==
    op.dropped => \/ op.cancel
                  \/ op.gen = 0
                  \/ stored # op.gen /\ relay.gen # op.gen

PublishInv == PubOfTask /\ PostedIsSaved /\ OpBound
IssuesInv == IssuesTypeOK /\ PublishInv /\ IssueHasOneTask
DropInv == IssuesTypeOK /\ Generations /\ DroppedCannotCommit

-----------------------------------------------------------------------------
\* No issue is an id of a task: NoIssue is not a request id.
LEMMA NoIssueIsNone ==
    /\ NoIssue \notin RequestIds
    /\ \A t \in GTasks \cup {NoTask} : {t} \X (0 .. MaxTry) \subseteq RequestIds
    /\ \A t \in GTasks \cup {NoTask} : {t} \X (1 .. MaxTry) \subseteq RequestIds
  BY NoTaskAssumption, MaxTryAssumption DEF NoIssue, RequestIds

\* The constants that stand for nothing have their types.
LEMMA NothingTypes == NoOp \in Operations /\ NoPub \in Publications
  BY DEF NoOp, Operations, OpKinds, OpSteps, Issues, NoPub, Publications

\* The types hold at first (load, RuntimeState::new).
LEMMA IssuesInitType == IssuesInit => IssuesTypeOK
  BY NoTaskAssumption, MaxTryAssumption, NothingTypes, NoIssueIsNone
     DEF IssuesInit, IssuesTypeOK, NoControl, Controls, Issues, RequestIds

\* What the handlers do to an operation keeps its type.
LEMMA OpUpdates ==
    ASSUME NEW o \in Operations
    PROVE  /\ \A step \in OpSteps : [o EXCEPT !.step = step] \in Operations
           /\ \A step \in OpSteps, gen \in Nat :
                [o EXCEPT !.step = step, !.gen = gen] \in Operations
           /\ \A step \in OpSteps, b \in BOOLEAN :
                [o EXCEPT !.registered = b, !.step = step] \in Operations
           /\ \A step \in OpSteps, rid \in Issues :
                [o EXCEPT !.rid = rid, !.step = step] \in Operations
           /\ [o EXCEPT !.dropped = TRUE] \in Operations
           /\ Flagged(o) \in Operations
  BY DEF Operations, Flagged

\* An operation begins with the type of an operation.
LEMMA OpBegins ==
    /\ \A t \in GTasks, rid \in Issues, b \in Bodies :
         [NoOp EXCEPT !.kind = "publish", !.task = t, !.rid = rid, !.body = b] \in Operations
    /\ \A kind \in OpKinds, rid \in Issues :
         [NoOp EXCEPT !.kind = kind, !.rid = rid] \in Operations
  BY NothingTypes DEF Operations, OpKinds

\* What the handlers do to a control operation keeps its type.
LEMMA ControlUpdates ==
    /\ NoControl \in Controls
    /\ \A kind \in {"status", "connect", "disconnect"} :
         [NoControl EXCEPT !.kind = kind, !.step = "ask"] \in Controls
    /\ \A c \in Controls, gen \in Nat :
         [c EXCEPT !.step = "save", !.value = gen] \in Controls
  BY DEF NoControl, Controls

\* What the handlers do to a publication keeps its type.
LEMMA PubUpdates ==
    /\ \A p \in Publications, b \in BOOLEAN : [p EXCEPT !.result = b] \in Publications
    /\ \A rid \in Issues, b \in Bodies \cup {NoTask} :
         [rid |-> rid, body |-> b, result |-> FALSE] \in Publications
    /\ \A p \in Publications :
         p.rid \in Issues /\ p.body \in Bodies \cup {NoTask} /\ p.result \in BOOLEAN
  BY DEF Publications

\* An operation is read as it was written.
LEMMA OpFields ==
    ASSUME NEW o \in Operations
    PROVE  /\ o.kind \in OpKinds /\ o.step \in OpSteps /\ o.task \in GTasks \cup {NoTask}
           /\ o.rid \in Issues /\ o.body \in Bodies \cup {NoTask} /\ o.gen \in Nat
           /\ o.registered \in BOOLEAN /\ o.cancel \in BOOLEAN /\ o.dropped \in BOOLEAN
  BY DEF Operations

\* A step of an operation, of the control operations or a restart preserves the types.
LEMMA IssuesStepType ==
    ASSUME IssuesTypeOK, PubOfTask, OpBound, [IssuesNext]_issueVars
    PROVE  IssuesTypeOK'
  <1> USE NothingTypes DEF IssuesTypeOK
  <1>0. /\ op \in Operations
        /\ op.task \in GTasks \cup {NoTask} /\ op.rid \in Issues
        /\ op.body \in Bodies \cup {NoTask}
    BY OpFields
  <1> DEFINE Steps(o) == \A step \in OpSteps : [o EXCEPT !.step = step] \in Operations
  <1>a. /\ Steps(op)
        /\ \A step \in OpSteps : GoesTo(step) => op' \in Operations
    BY <1>0, OpUpdates DEF GoesTo
  <1>1. CASE BeginControl
    <2>1. op' \in Operations
      BY <1>1, <1>0, OpUpdates DEF BeginControl
    <2>2. controlOp' \in Controls
      BY <1>1, ControlUpdates DEF BeginControl
    <2> QED BY <1>1, <2>1, <2>2 DEF BeginControl
  <1>2. CASE RelayControl
    <2>1. PICK acts \in BOOLEAN, answers \in BOOLEAN :
            /\ relay' = [relay EXCEPT !.gen = RelayGeneration(acts),
                                      !.last = IF RelayGeneration(acts) > @
                                               THEN RelayGeneration(acts) ELSE @]
            /\ controlOp' = IF answers
                            THEN [controlOp EXCEPT !.step = "save",
                                                   !.value = RelayGeneration(acts)]
                            ELSE NoControl
      BY <1>2 DEF RelayControl
    <2>2. RelayGeneration(acts) \in Nat
      BY DEF RelayGeneration
    <2>3. controlOp' \in Controls
      BY <2>1, <2>2, ControlUpdates
    <2>4. relay' \in [gen : Nat, last : Nat, posted : SUBSET RequestIds]
      BY <2>1, <2>2
    <2> QED BY <1>2, <2>3, <2>4 DEF RelayControl
  <1>3. CASE SaveStatus
    <2>1. Flagged(op) \in Operations
      BY OpUpdates
    <2>2. /\ [op EXCEPT !.dropped = TRUE] \in Operations
          /\ [Flagged(op) EXCEPT !.dropped = TRUE] \in Operations
      BY <2>1, OpUpdates
    <2> QED BY <1>3, <2>1, <2>2, ControlUpdates DEF SaveStatus, Controls
  <1>4. CASE CancelIssueRead
    BY <1>4, OpUpdates DEF CancelIssueRead
  <1>5. ASSUME NEW o \in Operations, BeginOperation(o) PROVE IssuesTypeOK'
    <2>1. [o EXCEPT !.step = "register", !.gen = stored] \in Operations
      BY OpUpdates DEF OpSteps
    <2> QED BY <1>5, <2>1 DEF BeginOperation
  <1>6. CASE BeginPublish
    <2>1. PICK t \in present, n \in 1 .. MaxTry, b \in Bodies :
            BeginOperation([NoOp EXCEPT !.kind = "publish", !.task = t,
                                        !.rid = <<t, n>>, !.body = b])
      BY <1>6 DEF BeginPublish
    <2>2. <<t, n>> \in Issues
      BY MaxTryAssumption DEF Issues, RequestIds
    <2> QED BY <2>1, <2>2, <1>5, OpBegins
  <1>7. CASE BeginCreate
    <2>1. PICK n \in 1 .. MaxTry :
            BeginOperation([NoOp EXCEPT !.kind = "create", !.rid = <<NoTask, n>>])
      BY <1>7 DEF BeginCreate
    <2>2. <<NoTask, n>> \in Issues
      BY MaxTryAssumption DEF Issues, RequestIds
    <2> QED BY <2>1, <2>2, <1>5, OpBegins DEF OpKinds
  <1>8. CASE BeginImport
    <2>1. PICK i \in relay.posted :
            BeginOperation([NoOp EXCEPT !.kind = "import", !.rid = i])
      BY <1>8 DEF BeginImport
    <2>2. i \in Issues
      BY DEF Issues
    <2> QED BY <2>1, <2>2, <1>5, OpBegins DEF OpKinds
  <1>9. CASE RegisterFlag
    <2>1. (seen # NoTask) \in BOOLEAN
      OBVIOUS
    <2>2. op' \in Operations
      BY <1>9, <2>1, OpUpdates DEF RegisterFlag, OpSteps
    <2> QED BY <1>9, <2>2 DEF RegisterFlag
  <1>10. CASE ReadRepository
    <2>1. op' \in Operations
      <3>1. PICK next \in OpSteps : GoesTo(next)
        BY <1>10 DEF ReadRepository, AfterRead, OpSteps
      <3> QED BY <3>1, <1>a
    <2> QED BY <1>10, <2>1 DEF ReadRepository
  <1>11. CASE ReservePublication
    <2>0. op.task \in GTasks
      BY <1>11 DEF ReservePublication, Under, OpBound
    <2>1. /\ pub[op.task].rid \in Issues
          /\ [rid |-> op.rid, body |-> op.body, result |-> FALSE] \in Publications
      BY <1>0, <2>0, PubUpdates
    <2>2. pub' \in [GTasks -> Publications]
      BY <1>11, <2>0, <2>1 DEF ReservePublication
    <2>3. \A step \in OpSteps :
            [op EXCEPT !.rid = PostedUnder(pub[op.task]), !.step = step] \in Operations
      BY <2>1, OpUpdates DEF PostedUnder
    <2>4. op' \in Operations
      BY <1>11, <1>a, <2>3 DEF ReservePublication, OpSteps
    <2> QED BY <1>11, <2>2, <2>4 DEF ReservePublication
  <1>12. CASE PostIssue
    <2>1. op' \in Operations
      BY <1>12, <1>a DEF PostIssue, OpSteps
    <2>2. op.rid \in RequestIds
      BY <1>12, NoIssueIsNone DEF PostIssue, Under, OpBound
    <2>3. relay' \in [gen : Nat, last : Nat, posted : SUBSET RequestIds]
      BY <1>12, <2>2 DEF PostIssue
    <2> QED BY <1>12, <2>1, <2>3 DEF PostIssue
  <1>13. CASE ForgetRefused
    <2>1. pub' \in [GTasks -> Publications]
      BY <1>13 DEF ForgetRefused
    <2> QED BY <1>13, <1>a, <2>1 DEF ForgetRefused, OpSteps
  <1>14. CASE SaveResult
    <2>1. op' \in Operations
      BY <1>14, <1>a DEF SaveResult, OpSteps
    <2>2. op.task \in GTasks
      BY <1>14 DEF SaveResult, Under, OpBound
    <2>3. \A b \in BOOLEAN : [pub[op.task] EXCEPT !.result = b] \in Publications
      BY <2>2, PubUpdates
    <2>4. (pub[op.task].result \/ pub[op.task] # NoPub) \in BOOLEAN
      OBVIOUS
    <2>5. pub' \in [GTasks -> Publications]
      BY <1>14, <2>2, <2>3, <2>4 DEF SaveResult
    <2> QED BY <1>14, <2>1, <2>5 DEF SaveResult
  <1>15. CASE AttachSource
    <2>1. op.task \in GTasks
      BY <1>15 DEF AttachSource, Under, OpBound
    <2> QED BY <1>15, <1>0, <1>a, <2>1 DEF AttachSource, OpSteps
  <1>16. CASE ImportIssue
    BY <1>16, <1>0, <1>a DEF ImportIssue, OpSteps
  <1>17. CASE IssuesRestart
    BY <1>17, ControlUpdates DEF IssuesRestart
  <1>18. CASE UNCHANGED issueVars
    BY <1>18 DEF issueVars
  <1> QED BY <1>1, <1>2, <1>3, <1>4, <1>6, <1>7, <1>8, <1>9, <1>10, <1>11, <1>12, <1>13,
             <1>14, <1>15, <1>16, <1>17, <1>18 DEF IssuesNext

\* At first nothing is saved and only the issue without a request is there.
LEMMA IssuesInitInv == IssuesInit => IssuesInv /\ DropInv
  <1> SUFFICES ASSUME IssuesInit PROVE IssuesInv /\ DropInv
    OBVIOUS
  <1>1. IssuesTypeOK
    BY IssuesInitType
  <1>2. PublishInv
    BY NoTaskAssumption DEF IssuesInit, PublishInv, PubOfTask, PostedIsSaved, OpBound, NoOp
  <1>3. IssueHasOneTask
    BY DEF IssuesInit, IssueHasOneTask
  <1>4. Generations /\ DroppedCannotCommit
    BY DEF IssuesInit, Generations, DroppedCannotCommit, NoOp, NoControl
  <1> QED BY <1>1, <1>2, <1>3, <1>4 DEF IssuesInv, DropInv

\* A flag or a mark on the operation changes nothing it carries.
LEMMA FlagKeeps ==
    ASSUME NEW o \in Operations
    PROVE  LET f == Flagged(o)
           IN  /\ f.kind = o.kind /\ f.step = o.step /\ f.task = o.task /\ f.rid = o.rid
               /\ f.gen = o.gen /\ f.registered = o.registered
               /\ o.registered => f.cancel /\ f.dropped
               /\ ~o.registered => f = o
  BY DEF Operations, Flagged

\* The fields of an operation that has begun, and of one whose step has changed.
LEMMA BegunFields ==
    /\ \A t \in GTasks, rid \in Issues, b \in Bodies :
         LET o == [NoOp EXCEPT !.kind = "publish", !.task = t, !.rid = rid, !.body = b]
         IN  o.kind = "publish" /\ o.task = t /\ o.rid = rid /\ ~o.dropped
    /\ \A kind \in OpKinds, rid \in Issues :
         LET o == [NoOp EXCEPT !.kind = kind, !.rid = rid]
         IN  o.kind = kind /\ o.rid = rid /\ ~o.dropped
    /\ \A o \in Operations, gen \in Nat :
         LET p == [o EXCEPT !.step = "register", !.gen = gen]
         IN  /\ p.kind = o.kind /\ p.task = o.task /\ p.rid = o.rid /\ p.dropped = o.dropped
             /\ p.step = "register" /\ p.gen = gen
    /\ \A o \in Operations, step \in OpSteps :
         LET p == [o EXCEPT !.step = step]
         IN  /\ p.kind = o.kind /\ p.task = o.task /\ p.rid = o.rid /\ p.dropped = o.dropped
             /\ p.cancel = o.cancel /\ p.gen = o.gen /\ p.step = step
  BY NothingTypes DEF NoOp, Operations

\* A step that changes neither the issues, the publications nor the tasks, and leaves what
\* the operation carries alone or ends it.
SameOperation ==
    \/ op' = NoOp
    \/ op'.kind = op.kind /\ op'.step = op.step /\ op'.task = op.task /\ op'.rid = op.rid

\* The steps that leave issues, publications and tasks alone keep the invariant.
LEMMA QuietStep ==
    ASSUME IssuesInv, UNCHANGED <<pub, source, row>>, relay'.posted = relay.posted,
           SameOperation
    PROVE  PublishInv' /\ IssueHasOneTask'
  <1> USE DEF IssuesInv
  <1>1. PubOfTask' /\ PostedIsSaved' /\ IssueHasOneTask'
    BY DEF PublishInv, PubOfTask, PostedIsSaved, IssueHasOneTask
  <1>2. CASE op' = NoOp
    BY <1>1, <1>2 DEF PublishInv, OpBound, NoOp
  <1>3. CASE op'.kind = op.kind /\ op'.step = op.step /\ op'.task = op.task /\ op'.rid = op.rid
    BY <1>1, <1>3 DEF PublishInv, OpBound
  <1> QED BY <1>2, <1>3 DEF SameOperation

\* Every step keeps the publications, the issues and the rows consistent.
LEMMA IssuesStepInv ==
    ASSUME IssuesInv, [IssuesNext]_issueVars
    PROVE  IssuesInv'
  <1>t. IssuesTypeOK'
    BY IssuesStepType DEF IssuesInv, PublishInv
  <1>p. SUFFICES PublishInv' /\ IssueHasOneTask'
    BY <1>t DEF IssuesInv
  <1>f. /\ op \in Operations /\ op' \in Operations
        /\ op.kind \in OpKinds /\ op.step \in OpSteps /\ op.rid \in Issues
    BY <1>t, OpFields DEF IssuesInv, IssuesTypeOK
  <1>g. \A step \in OpSteps : GoesTo(step) =>
          \/ op' = NoOp
          \/ /\ op'.kind = op.kind /\ op'.task = op.task /\ op'.rid = op.rid
             /\ op'.step = step
    BY <1>f, BegunFields DEF GoesTo
  <1>1. CASE BeginControl
    BY <1>1, <1>f, FlagKeeps, QuietStep DEF BeginControl, SameOperation
  <1>2. CASE RelayControl
    BY <1>2, QuietStep DEF RelayControl, SameOperation, IssuesInv, IssuesTypeOK
  <1>3. CASE SaveStatus
    <2>1. Flagged(op) \in Operations
      BY <1>f, OpUpdates
    <2>2. \A o \in Operations :
            LET p == [o EXCEPT !.dropped = TRUE]
            IN  p.kind = o.kind /\ p.step = o.step /\ p.task = o.task /\ p.rid = o.rid
      BY DEF Operations
    <2> QED BY <1>3, <1>f, <2>1, <2>2, FlagKeeps, QuietStep DEF SaveStatus, SameOperation
  <1>4. CASE CancelIssueRead
    BY <1>4, <1>f, FlagKeeps, QuietStep DEF CancelIssueRead, SameOperation
  <1>5. ASSUME NEW o \in Operations, BeginOperation(o),
               \/ o.kind = "publish" /\ o.task \in GTasks /\ o.rid \in {o.task} \X (1 .. MaxTry)
               \/ o.kind = "create" /\ o.rid \in {NoTask} \X (1 .. MaxTry)
               \/ o.kind = "import" /\ o.rid \in RequestIds
        PROVE  PublishInv' /\ IssueHasOneTask'
    <2>1. /\ op'.kind = o.kind /\ op'.task = o.task /\ op'.rid = o.rid
          /\ op'.step = "register"
      BY <1>5, BegunFields DEF BeginOperation, IssuesInv, IssuesTypeOK
    <2>2. PubOfTask' /\ PostedIsSaved' /\ IssueHasOneTask'
      BY <1>5 DEF BeginOperation, IssuesInv, PublishInv, PubOfTask, PostedIsSaved, IssueHasOneTask
    <2>3. OpBound'
      BY <1>5, <2>1 DEF OpBound
    <2> QED BY <2>2, <2>3 DEF PublishInv
  <1>6. CASE BeginPublish
    <2>1. PICK t \in present, n \in 1 .. MaxTry, b \in Bodies :
            BeginOperation([NoOp EXCEPT !.kind = "publish", !.task = t,
                                        !.rid = <<t, n>>, !.body = b])
      BY <1>6 DEF BeginPublish
    <2>2. t \in GTasks /\ <<t, n>> \in Issues /\ <<t, n>> \in {t} \X (1 .. MaxTry)
      BY MaxTryAssumption DEF Issues, RequestIds, IssuesInv, IssuesTypeOK
    <2> DEFINE o == [NoOp EXCEPT !.kind = "publish", !.task = t, !.rid = <<t, n>>, !.body = b]
    <2>3. o \in Operations
      BY <2>2, OpBegins
    <2>4. o.kind = "publish" /\ o.task = t /\ o.rid = <<t, n>>
      BY <2>2 DEF NoOp
    <2> HIDE DEF o
    <2> QED BY <2>1, <2>2, <2>3, <2>4, <1>5 DEF o
  <1>7. CASE BeginCreate
    <2>1. PICK n \in 1 .. MaxTry :
            BeginOperation([NoOp EXCEPT !.kind = "create", !.rid = <<NoTask, n>>])
      BY <1>7 DEF BeginCreate
    <2>2. <<NoTask, n>> \in Issues /\ <<NoTask, n>> \in {NoTask} \X (1 .. MaxTry)
      BY MaxTryAssumption DEF Issues, RequestIds
    <2> DEFINE o == [NoOp EXCEPT !.kind = "create", !.rid = <<NoTask, n>>]
    <2>3. o \in Operations /\ o.kind = "create" /\ o.rid = <<NoTask, n>>
      BY <2>2, OpBegins, BegunFields DEF OpKinds
    <2> HIDE DEF o
    <2> QED BY <2>1, <2>2, <2>3, <1>5 DEF o
  <1>8. CASE BeginImport
    <2>1. PICK i \in relay.posted :
            BeginOperation([NoOp EXCEPT !.kind = "import", !.rid = i])
      BY <1>8 DEF BeginImport
    <2>2. i \in RequestIds /\ i \in Issues
      BY DEF Issues, IssuesInv, IssuesTypeOK
    <2> DEFINE o == [NoOp EXCEPT !.kind = "import", !.rid = i]
    <2>3. o \in Operations /\ o.kind = "import" /\ o.rid = i
      BY <2>2, OpBegins, BegunFields DEF OpKinds
    <2> HIDE DEF o
    <2> QED BY <2>1, <2>2, <2>3, <1>5 DEF o
  <1>9. CASE RegisterFlag
    <2>1. /\ op'.kind = op.kind /\ op'.task = op.task /\ op'.rid = op.rid
          /\ op'.step = "repository"
      BY <1>9, <1>f DEF RegisterFlag, Operations
    <2>2. PubOfTask' /\ PostedIsSaved' /\ IssueHasOneTask'
      BY <1>9 DEF RegisterFlag, IssuesInv, PublishInv, PubOfTask, PostedIsSaved, IssueHasOneTask
    <2>3. OpBound'
      BY <1>9, <2>1 DEF RegisterFlag, Under, OpBound, IssuesInv, PublishInv
    <2> QED BY <2>2, <2>3 DEF PublishInv
  <1>10. CASE ReadRepository
    <2>1. \/ op' = NoOp
          \/ /\ op'.kind = op.kind /\ op'.task = op.task /\ op'.rid = op.rid
             /\ op'.step = AfterRead
      <3>1. GoesTo("idle") \/ GoesTo(AfterRead)
        BY <1>10 DEF ReadRepository
      <3>2. AfterRead \in OpSteps
        BY DEF AfterRead, OpSteps
      <3> QED BY <3>1, <3>2, <1>g DEF GoesTo
    <2>2. PubOfTask' /\ PostedIsSaved' /\ IssueHasOneTask'
      BY <1>10 DEF ReadRepository, IssuesInv, PublishInv, PubOfTask, PostedIsSaved, IssueHasOneTask
    <2>3. CASE op' = NoOp
      BY <2>2, <2>3 DEF PublishInv, OpBound, NoOp
    <2>4. CASE op' # NoOp
      <3>1. OpBound'
        BY <1>10, <1>f, <2>1, <2>4 DEF ReadRepository, AfterRead, Under, OpBound, IssuesInv,
                                       PublishInv, OpKinds
      <3> QED BY <3>1, <2>2 DEF PublishInv
    <2> QED BY <2>3, <2>4
  <1>11. CASE ReservePublication
    <2>0. op.kind = "publish" /\ op.task \in GTasks /\ op.rid \in {op.task} \X (1 .. MaxTry)
      BY <1>11 DEF ReservePublication, Under, OpBound, IssuesInv, PublishInv
    <2>1. IssueHasOneTask'
      BY <1>11 DEF ReservePublication, IssuesInv, IssueHasOneTask
    <2>2. CASE op' = NoOp /\ UNCHANGED pub
      BY <1>11, <2>2, QuietStep DEF ReservePublication, SameOperation
    <2>3. CASE /\ pub[op.task] = NoPub
               /\ pub' = [pub EXCEPT ![op.task] = [rid |-> op.rid, body |-> op.body,
                                                   result |-> FALSE]]
               /\ GoesTo("post")
      <3>1. op'.kind = "publish" /\ op'.task = op.task /\ op'.rid = op.rid /\ op'.step = "post"
        BY <2>0, <2>3, <1>f, BegunFields DEF GoesTo, OpSteps
      <3>2. pub'[op.task].rid = op.rid /\ \A t \in GTasks \ {op.task} : pub'[t] = pub[t]
        BY <2>0, <2>3 DEF IssuesInv, IssuesTypeOK
      <3>3. PubOfTask'
        BY <2>0, <3>2 DEF PubOfTask, IssuesInv, PublishInv
      <3>4. \A i \in relay.posted : i[1] # op.task
        <4>1. NoPub.rid \notin RequestIds
          BY NoIssueIsNone DEF NoPub
        <4> QED BY <4>1, <2>0, <2>3 DEF IssuesInv, IssuesTypeOK, PublishInv, PostedIsSaved
      <3>5. PostedIsSaved'
        BY <1>11, <3>2, <3>4 DEF ReservePublication, PostedIsSaved, IssuesInv, PublishInv
      <3>6. OpBound'
        BY <2>0, <3>1, <3>2 DEF OpBound
      <3> QED BY <2>1, <3>3, <3>5, <3>6 DEF PublishInv
    <2>4. CASE /\ pub[op.task] # NoPub /\ UNCHANGED pub
               /\ \E step \in {"result", "post"} :
                    op' = [op EXCEPT !.rid = PostedUnder(pub[op.task]), !.step = step]
      <3>1. /\ op'.kind = "publish" /\ op'.task = op.task /\ op'.rid = pub[op.task].rid
            /\ op'.step \in {"result", "post"}
        BY <2>0, <2>4, <1>f DEF Operations, PostedUnder
      <3>2. PubOfTask' /\ PostedIsSaved'
        BY <1>11, <2>4 DEF ReservePublication, PubOfTask, PostedIsSaved, IssuesInv, PublishInv
      <3>3. OpBound'
        BY <2>0, <2>4, <3>1 DEF OpBound, PubOfTask, IssuesInv, PublishInv
      <3> QED BY <2>1, <3>2, <3>3 DEF PublishInv
    <2> QED BY <1>11, <2>2, <2>3, <2>4 DEF ReservePublication, GoesTo
  <1>12. CASE PostIssue
    <2>1. /\ op.step = "post" /\ op.kind \in {"publish", "create"} /\ op.rid \in RequestIds
          /\ op.kind = "publish" => op.task \in GTasks /\ pub[op.task].rid = op.rid
                                    /\ op.rid[1] = op.task
          /\ op.kind = "create" => op.rid[1] \notin GTasks
      BY <1>12, NoTaskAssumption, NoIssueIsNone
         DEF PostIssue, Under, OpBound, IssuesInv, PublishInv
    <2>2. relay'.posted \in {relay.posted, relay.posted \cup {op.rid}}
      BY <1>12 DEF PostIssue, IssuesInv, IssuesTypeOK
    <2>3. PubOfTask' /\ IssueHasOneTask'
      BY <1>12 DEF PostIssue, PubOfTask, IssueHasOneTask, IssuesInv, PublishInv
    <2>4. PostedIsSaved'
      BY <1>12, <2>1, <2>2 DEF PostIssue, PostedIsSaved, IssuesInv, PublishInv
    <2>5. \/ op' = NoOp
          \/ /\ op'.kind = op.kind /\ op'.task = op.task /\ op'.rid = op.rid
             /\ \/ op.kind = "publish" /\ op'.step = "result"
                \/ op.kind # "publish" /\ op'.step = "import"
                \/ op.kind = "publish" /\ op'.step = "refused" /\ op.rid \notin relay'.posted
      <3>1. \/ GoesTo("idle")
            \/ op.kind = "publish" /\ GoesTo("result")
            \/ op.kind # "publish" /\ GoesTo("import")
            \/ op.kind = "publish" /\ GoesTo("refused") /\ op.rid \notin relay'.posted
        BY <1>12 DEF PostIssue
      <3> QED BY <3>1, <1>g DEF OpSteps, GoesTo
    <2>6. OpBound'
      <3>1. CASE op' = NoOp
        BY <3>1 DEF OpBound, NoOp
      <3>2. CASE op' # NoOp
        BY <1>12, <2>1, <2>5, <3>2 DEF PostIssue, OpBound, IssuesInv, PublishInv
      <3> QED BY <3>1, <3>2
    <2> QED BY <2>3, <2>4, <2>6 DEF PublishInv
  <1>13. CASE ForgetRefused
    <2>1. /\ op.kind = "publish" /\ op.task \in GTasks /\ pub[op.task].rid = op.rid
          /\ op.rid \notin relay.posted /\ op' = NoOp
      BY <1>13 DEF ForgetRefused, Under, GoesTo, OpBound, IssuesInv, PublishInv
    <2>2. /\ pub'[op.task] \in {pub[op.task], NoPub}
          /\ \A t \in GTasks \ {op.task} : pub'[t] = pub[t]
      BY <1>13, <2>1 DEF ForgetRefused, IssuesInv, IssuesTypeOK
    <2>3. PubOfTask' /\ IssueHasOneTask'
      BY <1>13, <2>2 DEF ForgetRefused, PubOfTask, IssueHasOneTask, IssuesInv, PublishInv
    <2>4. PostedIsSaved'
      BY <1>13, <2>1, <2>2 DEF ForgetRefused, PostedIsSaved, IssuesInv, PublishInv
    <2>5. OpBound'
      BY <2>1 DEF OpBound, NoOp
    <2> QED BY <2>3, <2>4, <2>5 DEF PublishInv
  <1>14. CASE SaveResult
    <2>1. op.kind = "publish" /\ op.task \in GTasks /\ pub[op.task].rid = op.rid
      BY <1>14 DEF SaveResult, Under, OpBound, IssuesInv, PublishInv
    <2>2. \A t \in GTasks : pub'[t].rid = pub[t].rid
      BY <1>14, <2>1 DEF SaveResult, IssuesInv, IssuesTypeOK, Publications
    <2>3. \A t \in GTasks : pub[t] = NoPub => pub'[t] = NoPub
      <3>1. pub[op.task] # NoPub
        BY <2>1, <1>14, NoIssueIsNone
           DEF SaveResult, Under, IssuesInv, PublishInv, OpBound, NoPub
      <3> QED BY <1>14, <2>1, <3>1 DEF SaveResult, IssuesInv, IssuesTypeOK
    <2>4. PubOfTask' /\ IssueHasOneTask'
      BY <1>14, <2>2, <2>3 DEF SaveResult, PubOfTask, IssueHasOneTask, IssuesInv, PublishInv
    <2>5. PostedIsSaved'
      BY <1>14, <2>2 DEF SaveResult, PostedIsSaved, IssuesInv, PublishInv
    <2>6. \/ op' = NoOp
          \/ /\ op'.kind = op.kind /\ op'.task = op.task /\ op'.rid = op.rid
             /\ op'.step = "attach"
      <3>1. GoesTo("idle") \/ GoesTo("attach")
        BY <1>14 DEF SaveResult
      <3> QED BY <3>1, <1>g DEF OpSteps, GoesTo
    <2>7. OpBound'
      <3>1. CASE op' = NoOp
        BY <3>1 DEF OpBound, NoOp
      <3>2. CASE op' # NoOp
        BY <2>1, <2>6, <3>2 DEF OpBound, IssuesInv, PublishInv
      <3> QED BY <3>1, <3>2
    <2> QED BY <2>4, <2>5, <2>7 DEF PublishInv
  <1>15. CASE AttachSource
    <2>1. op.task \in GTasks /\ op.rid \in RequestIds /\ op' = NoOp
      BY <1>15, NoIssueIsNone DEF AttachSource, Under, GoesTo, OpBound, IssuesInv, PublishInv
    <2>2. IssueHasOneTask'
      BY <1>15, <2>1, NoTaskAssumption, NoIssueIsNone
         DEF AttachSource, Attachable, IssueHasOneTask, IssuesInv, IssuesTypeOK, Issues
    <2>3. PubOfTask' /\ PostedIsSaved'
      BY <1>15 DEF AttachSource, PubOfTask, PostedIsSaved, IssuesInv, PublishInv
    <2>4. OpBound'
      BY <2>1 DEF OpBound, NoOp
    <2> QED BY <2>2, <2>3, <2>4 DEF PublishInv
  <1>16. CASE ImportIssue
    <2>1. op.rid \in RequestIds /\ op' = NoOp
      BY <1>16, NoIssueIsNone DEF ImportIssue, Under, GoesTo, OpBound, IssuesInv, PublishInv
    <2>2. IssueHasOneTask'
      BY <1>16, <2>1, NoTaskAssumption, NoIssueIsNone
         DEF ImportIssue, IsNewIssue, IssueHasOneTask, IssuesInv, IssuesTypeOK, Issues
    <2>3. PubOfTask' /\ PostedIsSaved'
      BY <1>16 DEF ImportIssue, PubOfTask, PostedIsSaved, IssuesInv, PublishInv
    <2>4. OpBound'
      BY <2>1 DEF OpBound, NoOp
    <2> QED BY <2>2, <2>3, <2>4 DEF PublishInv
  <1>17. CASE IssuesRestart
    BY <1>17, QuietStep DEF IssuesRestart, SameOperation
  <1>18. CASE UNCHANGED issueVars
    BY <1>18, QuietStep DEF issueVars, SameOperation
  <1> QED BY <1>1, <1>2, <1>3, <1>4, <1>6, <1>7, <1>8, <1>9, <1>10, <1>11, <1>12, <1>13,
             <1>14, <1>15, <1>16, <1>17, <1>18 DEF IssuesNext

\* The issues of a task are its saved id at most, so there is one at most.
LEMMA SavedIsOnce == IssuesInv => PublishedOnce
  <1> SUFFICES ASSUME IssuesInv, NEW t \in GTasks
               PROVE  Cardinality({i \in relay.posted : i[1] = t}) <= 1
    BY DEF PublishedOnce
  <1> DEFINE I == {i \in relay.posted : i[1] = t}
  <1>1. I \subseteq {pub[t].rid}
    BY DEF IssuesInv, PublishInv, PostedIsSaved
  <1>2. IsFiniteSet({pub[t].rid}) /\ Cardinality({pub[t].rid}) = 1
    BY FS_Singleton
  <1>3. Cardinality(I) <= Cardinality({pub[t].rid})
    BY <1>1, <1>2, FS_Subset
  <1> QED BY <1>2, <1>3

\* A task is published as one issue, for every number of attempts, contents, lost answers,
\* restarts and reconnections: the id is saved before the POST and forgotten only after a
\* refusal that preceded it (create).
THEOREM TaskPublishedOnce == IssuesSpec => []PublishedOnce
  <1>1. IssuesInit => IssuesInv
    BY IssuesInitInv
  <1>2. IssuesInv /\ [IssuesNext]_issueVars => IssuesInv'
    BY IssuesStepInv
  <1>3. IssuesInv => PublishedOnce
    BY SavedIsOnce
  <1> QED BY <1>1, <1>2, <1>3, PTL DEF IssuesSpec

\* An issue is the source of at most one task and its row names that task, whatever
\* publications, creations and imports are interrupted (attach_source,
\* import_issues_with_kind).
THEOREM OneTaskPerIssue == IssuesSpec => []IssueHasOneTask
  <1>1. IssuesInit => IssuesInv
    BY IssuesInitInv
  <1>2. IssuesInv /\ [IssuesNext]_issueVars => IssuesInv'
    BY IssuesStepInv
  <1>3. IssuesInv => IssueHasOneTask
    BY DEF IssuesInv
  <1> QED BY <1>1, <1>2, <1>3, PTL DEF IssuesSpec

\* A step of the operation that leaves the connection alone keeps its generation and its
\* flags, or ends or begins it.
SameBinding ==
    \/ op' = NoOp
    \/ /\ op'.gen = op.gen /\ op'.dropped = op.dropped /\ op'.cancel = op.cancel
       /\ op.step \in {"idle", "register", "repository"}
          => op'.step \in {"idle", "register", "repository"}

\* A step that leaves the connection alone keeps the generations.
LEMMA BoundStep ==
    ASSUME DropInv, UNCHANGED <<stored, controlOp>>, relay'.gen = relay.gen,
           relay'.last = relay.last, SameBinding
    PROVE  Generations' /\ DroppedCannotCommit'
  <1>1. CASE op' = NoOp
    BY <1>1 DEF DropInv, IssuesTypeOK, Generations, DroppedCannotCommit, NoOp
  <1>2. CASE op' # NoOp
    BY <1>2 DEF SameBinding, DropInv, Generations, DroppedCannotCommit
  <1> QED BY <1>1, <1>2

\* Every step keeps the generations, and what was dropped cannot commit afterwards.
LEMMA DropStepInv ==
    ASSUME IssuesInv, DropInv, [IssuesNext]_issueVars
    PROVE  DropInv' /\ [DiscardsLateAnswer]_issueVars
  <1>t. IssuesTypeOK'
    BY IssuesStepType DEF IssuesInv, PublishInv
  <1>f. /\ op \in Operations /\ op' \in Operations /\ op.gen \in Nat
        /\ op.step \in OpSteps /\ op.dropped \in BOOLEAN /\ op.cancel \in BOOLEAN
        /\ op.registered \in BOOLEAN
        /\ relay.gen \in Nat /\ relay.last \in Nat /\ stored \in Nat
        /\ controlOp \in Controls
    BY <1>t, OpFields DEF DropInv, IssuesTypeOK
  <1>g. \A step \in OpSteps : GoesTo(step) =>
          \/ op' = NoOp
          \/ /\ op'.gen = op.gen /\ op'.dropped = op.dropped /\ op'.cancel = op.cancel
             /\ op'.step = step
    BY <1>f, BegunFields DEF GoesTo
  <1>q. ASSUME UNCHANGED <<pub, present>> PROVE DiscardsLateAnswer
    BY <1>q DEF DiscardsLateAnswer
  <1>1. CASE BeginControl
    <2>1. op' \in {op, Flagged(op)} /\ controlOp'.step = "ask" /\ controlOp'.kind # "none"
      BY <1>1 DEF BeginControl, NoControl
    <2>2. Generations' /\ DroppedCannotCommit'
      BY <1>1, <1>f, <2>1, FlagKeeps DEF BeginControl, DropInv, Generations, DroppedCannotCommit
    <2> QED BY <1>1, <1>t, <1>q, <2>2 DEF BeginControl, DropInv
  <1>2. CASE RelayControl
    <2>1. PICK acts \in BOOLEAN, answers \in BOOLEAN :
            /\ answers => acts
            /\ relay' = [relay EXCEPT !.gen = RelayGeneration(acts),
                                      !.last = IF RelayGeneration(acts) > @
                                               THEN RelayGeneration(acts) ELSE @]
            /\ controlOp' = IF answers
                            THEN [controlOp EXCEPT !.step = "save",
                                                   !.value = RelayGeneration(acts)]
                            ELSE NoControl
      BY <1>2 DEF RelayControl
    <2>2. RelayGeneration(acts) \in {relay.gen, relay.last + 1, 0}
      BY DEF RelayGeneration
    <2>3. /\ relay'.gen = RelayGeneration(acts)
          /\ relay'.last = IF RelayGeneration(acts) > relay.last
                           THEN RelayGeneration(acts) ELSE relay.last
      BY <2>1 DEF DropInv, IssuesTypeOK
    <2>4. /\ relay'.gen \in {0, relay'.last} /\ relay.last <= relay'.last
          /\ relay'.last \in {relay.last, relay.last + 1}
          /\ relay'.gen \in {relay.gen, 0, relay.last + 1}
      BY <1>f, <2>2, <2>3 DEF DropInv, Generations
    <2>9. controlOp'.step # "idle" => controlOp'.kind # "none"
      BY <1>2, <1>f, <2>1 DEF RelayControl, DropInv, Generations, Controls, NoControl
    <2>5. controlOp'.step = "save" => /\ answers /\ controlOp'.value = RelayGeneration(acts)
                                      /\ controlOp'.kind = controlOp.kind
      BY <1>f, <2>1 DEF Controls, NoControl
    <2>6. /\ controlOp'.step = "save" /\ controlOp'.kind = "connect"
              => relay'.gen = relay.last + 1
          /\ controlOp'.step = "save" /\ controlOp'.kind = "disconnect" => relay'.gen = 0
      BY <2>1, <2>3, <2>5 DEF RelayGeneration
    <2>7. Generations'
      BY <1>2, <1>f, <2>3, <2>4, <2>5, <2>6, <2>9 DEF RelayControl, DropInv, Generations
    <2>8. DroppedCannotCommit'
      BY <1>2, <1>f, <2>4 DEF RelayControl, DropInv, Generations, DroppedCannotCommit
    <2> QED BY <1>2, <1>t, <1>q, <2>7, <2>8 DEF RelayControl, DropInv
  <1>3. CASE SaveStatus
    <2>1. /\ op'.gen = op.gen /\ op'.step = op.step
          /\ op'.dropped => \/ op.dropped
                            \/ op'.cancel
                            \/ controlOp.kind # "status" /\ op.step # "idle"
          /\ op.cancel => op'.cancel
      <3>1. Flagged(op) \in Operations
        BY <1>f, OpUpdates
      <3>2. \A o \in Operations :
              LET p == [o EXCEPT !.dropped = TRUE]
              IN  p.gen = o.gen /\ p.step = o.step /\ p.cancel = o.cancel
        BY DEF Operations
      <3>3. /\ Flagged(op).gen = op.gen /\ Flagged(op).step = op.step
            /\ Flagged(op) = op \/ Flagged(op).cancel = TRUE
        BY <1>f, FlagKeeps, <3>1, OpFields
      <3>4. \/ op' \in {op, Flagged(op)}
            \/ /\ controlOp.kind # "status" /\ op.step # "idle"
               /\ \E o \in {op, Flagged(op)} : op' = [o EXCEPT !.dropped = TRUE]
        BY <1>3 DEF SaveStatus
      <3>5. CASE op' = op
        BY <3>5
      <3>6. CASE op' = Flagged(op)
        BY <3>6, <3>3
      <3>7. ASSUME NEW o \in {op, Flagged(op)}, op' = [o EXCEPT !.dropped = TRUE],
                   controlOp.kind # "status", op.step # "idle"
            PROVE  op'.gen = op.gen /\ op'.step = op.step /\ (op.cancel => op'.cancel)
        <4>1. op'.gen = o.gen /\ op'.step = o.step /\ op'.cancel = o.cancel
          BY <1>f, <3>1, <3>2, <3>7
        <4> QED BY <4>1, <3>3, <3>7
      <3> QED BY <3>4, <3>5, <3>6, <3>7
    <2>2. stored' = relay.gen /\ relay' = relay /\ controlOp'.step = "idle"
      BY <1>3 DEF SaveStatus, NoControl, DropInv, Generations
    <2>3. Generations'
      BY <1>3, <1>f, <2>1, <2>2 DEF DropInv, Generations
    <2>4. controlOp.kind # "status" => op.gen = 0 \/ relay.gen # op.gen
      BY <1>3, <1>f DEF SaveStatus, DropInv, Generations, Controls
    <2>5. DroppedCannotCommit'
      BY <1>3, <1>f, <2>1, <2>2, <2>4 DEF DropInv, Generations, DroppedCannotCommit
    <2> QED BY <1>3, <1>t, <1>q, <2>3, <2>5 DEF SaveStatus, DropInv
  <1>b. ASSUME UNCHANGED <<stored, controlOp>>, relay'.gen = relay.gen,
               relay'.last = relay.last, SameBinding
        PROVE  DropInv'
    BY <1>t, <1>b, BoundStep DEF DropInv
  <1>4. CASE CancelIssueRead
    <2>1. op' = Flagged(op) /\ op.registered
      BY <1>4 DEF CancelIssueRead
    <2>2. Generations' /\ DroppedCannotCommit'
      BY <1>4, <1>f, <2>1, FlagKeeps DEF CancelIssueRead, DropInv, Generations, DroppedCannotCommit
    <2> QED BY <1>4, <1>t, <1>q, <2>2 DEF CancelIssueRead, DropInv
  <1>5. ASSUME NEW o \in Operations, BeginOperation(o), o.dropped = FALSE
        PROVE  DropInv' /\ DiscardsLateAnswer
    <2>1. op'.gen = stored /\ op'.dropped = FALSE /\ op'.step = "register" /\ UNCHANGED controlOp
      BY <1>5, <1>f, BegunFields DEF BeginOperation
    <2>2. Generations'
      BY <1>5, <1>f, <2>1 DEF BeginOperation, DropInv, Generations
    <2>3. DroppedCannotCommit'
      BY <2>1 DEF DroppedCannotCommit
    <2> QED BY <1>5, <1>t, <1>q, <2>2, <2>3 DEF BeginOperation, DropInv
  <1>6. CASE BeginPublish
    <2>1. PICK t \in present, n \in 1 .. MaxTry, b \in Bodies :
            BeginOperation([NoOp EXCEPT !.kind = "publish", !.task = t,
                                        !.rid = <<t, n>>, !.body = b])
      BY <1>6 DEF BeginPublish
    <2> DEFINE o == [NoOp EXCEPT !.kind = "publish", !.task = t, !.rid = <<t, n>>, !.body = b]
    <2>2. t \in GTasks /\ <<t, n>> \in Issues
      BY MaxTryAssumption DEF Issues, RequestIds, IssuesInv, IssuesTypeOK
    <2>3. o \in Operations
      BY <2>2, OpBegins
    <2>4. o.dropped = FALSE
      BY DEF NoOp
    <2> HIDE DEF o
    <2> QED BY <2>1, <2>3, <2>4, <1>5 DEF o
  <1>7. CASE BeginCreate
    <2>1. PICK n \in 1 .. MaxTry :
            BeginOperation([NoOp EXCEPT !.kind = "create", !.rid = <<NoTask, n>>])
      BY <1>7 DEF BeginCreate
    <2> DEFINE o == [NoOp EXCEPT !.kind = "create", !.rid = <<NoTask, n>>]
    <2>2. <<NoTask, n>> \in Issues
      BY MaxTryAssumption DEF Issues, RequestIds
    <2>3. o \in Operations
      BY <2>2, OpBegins DEF OpKinds
    <2>4. o.dropped = FALSE
      BY DEF NoOp
    <2> HIDE DEF o
    <2> QED BY <2>1, <2>3, <2>4, <1>5 DEF o
  <1>8. CASE BeginImport
    <2>1. PICK i \in relay.posted :
            BeginOperation([NoOp EXCEPT !.kind = "import", !.rid = i])
      BY <1>8 DEF BeginImport
    <2> DEFINE o == [NoOp EXCEPT !.kind = "import", !.rid = i]
    <2>2. i \in Issues
      BY DEF Issues, IssuesInv, IssuesTypeOK
    <2>3. o \in Operations
      BY <2>2, OpBegins DEF OpKinds
    <2>4. o.dropped = FALSE
      BY DEF NoOp
    <2> HIDE DEF o
    <2> QED BY <2>1, <2>3, <2>4, <1>5 DEF o
  <1>9. CASE RegisterFlag
    <2>1. /\ op'.gen = op.gen /\ op'.dropped = op.dropped /\ op'.cancel = op.cancel
          /\ op'.step = "repository"
      BY <1>9, <1>f DEF RegisterFlag, Operations
    <2>2. DropInv'
      BY <1>9, <1>b, <2>1 DEF RegisterFlag, SameBinding
    <2> QED BY <1>9, <1>q, <2>2 DEF RegisterFlag
  <1>10. CASE ReadRepository
    <2>1. UNCHANGED <<relay, stored, controlOp, pub, present>>
      BY <1>10 DEF ReadRepository
    <2>2. \/ op' = NoOp
          \/ /\ op'.gen = op.gen /\ op'.dropped = op.dropped /\ op'.cancel = op.cancel
             /\ stored = op.gen /\ op.gen # 0 /\ op.cancel = FALSE
      <3>1. \/ GoesTo("idle")
            \/ GoesTo(AfterRead) /\ stored = op.gen /\ op.gen # 0 /\ ~op.cancel
        BY <1>10 DEF ReadRepository, MayCommitIssue, RelayAccepts
      <3>2. AfterRead \in OpSteps
        BY DEF AfterRead, OpSteps
      <3> QED BY <3>1, <3>2, <1>f, <1>g DEF GoesTo
    <2>3. CASE op' = NoOp
      BY <1>b, <1>q, <2>1, <2>3 DEF SameBinding
    <2>4. CASE op' # NoOp
      <3>1. Generations' /\ DroppedCannotCommit'
        BY <2>1, <2>2, <2>4 DEF DropInv, Generations, DroppedCannotCommit
      <3> QED BY <1>t, <1>q, <2>1, <3>1 DEF DropInv
    <2> QED BY <2>3, <2>4
  <1>s. ASSUME op.step \in {"reserve", "post", "result", "attach", "import", "refused"},
               \/ \E step \in OpSteps : GoesTo(step)
               \/ \E rid \in Issues, step \in OpSteps : op' = [op EXCEPT !.rid = rid, !.step = step]
        PROVE  SameBinding
    <2>1. CASE \E step \in OpSteps : GoesTo(step)
      BY <1>s, <1>g, <2>1 DEF SameBinding
    <2>2. CASE \E rid \in Issues, step \in OpSteps : op' = [op EXCEPT !.rid = rid, !.step = step]
      <3>1. op'.gen = op.gen /\ op'.dropped = op.dropped /\ op'.cancel = op.cancel
        BY <1>f, <2>2 DEF Operations
      <3> QED BY <1>s, <3>1 DEF SameBinding
    <2> QED BY <1>s, <2>1, <2>2
  <1>c. ASSUME op.step \in {"result", "import"}, op.dropped PROVE ~MayCommitIssue
    BY <1>c, <1>f DEF MayCommitIssue, DropInv, Generations, DroppedCannotCommit
  <1>11. CASE ReservePublication
    <2>0. op.task \in GTasks /\ op.step = "reserve"
      BY <1>11 DEF ReservePublication, Under, OpBound, IssuesInv, PublishInv
    <2>1. SameBinding
      <3>1. GoesTo("idle") \/ GoesTo("post") \/ op' = NoOp
            \/ \E step \in {"result", "post"} :
                 op' = [op EXCEPT !.rid = PostedUnder(pub[op.task]), !.step = step]
        BY <1>11 DEF ReservePublication
      <3>2. pub[op.task].rid \in Issues
        BY <2>0, PubUpdates DEF IssuesInv, IssuesTypeOK
      <3> QED BY <1>s, <2>0, <3>1, <3>2 DEF OpSteps, PostedUnder, SameBinding
    <2>2. DropInv'
      BY <1>11, <1>b, <2>1 DEF ReservePublication
    <2>3. \A t \in GTasks : pub'[t].result => pub[t].result
      BY <1>11, <2>0 DEF ReservePublication, IssuesInv, IssuesTypeOK
    <2> QED BY <1>11, <2>2, <2>3 DEF ReservePublication, DiscardsLateAnswer
  <1>12. CASE PostIssue
    <2>1. SameBinding
      <3>1. \E step \in OpSteps : GoesTo(step)
        BY <1>12 DEF PostIssue, OpSteps
      <3> QED BY <1>12, <1>s, <3>1 DEF PostIssue, Under
    <2>2. relay'.gen = relay.gen /\ relay'.last = relay.last
      BY <1>12 DEF PostIssue, IssuesInv, IssuesTypeOK
    <2> QED BY <1>12, <1>b, <1>q, <2>1, <2>2 DEF PostIssue
  <1>13. CASE ForgetRefused
    <2>1. SameBinding
      BY <1>13, <1>s DEF ForgetRefused, Under, OpSteps
    <2>2. \A t \in GTasks : pub'[t].result => pub[t].result
      BY <1>13 DEF ForgetRefused, IssuesInv, IssuesTypeOK, NoPub
    <2> QED BY <1>13, <1>b, <2>1, <2>2 DEF ForgetRefused, DiscardsLateAnswer
  <1>14. CASE SaveResult
    <2>1. SameBinding
      BY <1>14, <1>s DEF SaveResult, Under, OpSteps
    <2>2. op.dropped => UNCHANGED pub
      BY <1>14, <1>c DEF SaveResult, Under
    <2>3. DiscardsLateAnswer
      BY <1>14, <2>2 DEF SaveResult, DiscardsLateAnswer
    <2> QED BY <1>14, <1>b, <2>1, <2>3 DEF SaveResult
  <1>15. CASE AttachSource
    <2>1. SameBinding
      BY <1>15, <1>s DEF AttachSource, Under, OpSteps
    <2> QED BY <1>15, <1>b, <1>q, <2>1 DEF AttachSource
  <1>16. CASE ImportIssue
    <2>1. SameBinding
      BY <1>16, <1>s DEF ImportIssue, Under, OpSteps
    <2>2. op.dropped => UNCHANGED present
      BY <1>16, <1>c DEF ImportIssue, Under
    <2>3. DiscardsLateAnswer
      BY <1>16, <2>2 DEF ImportIssue, DiscardsLateAnswer
    <2> QED BY <1>16, <1>b, <2>1, <2>3 DEF ImportIssue
  <1>17. CASE IssuesRestart
    <2>1. controlOp'.step = "idle" /\ op' = NoOp
      BY <1>17 DEF IssuesRestart, NoControl
    <2>2. Generations' /\ DroppedCannotCommit'
      BY <1>17, <1>f, <2>1 DEF IssuesRestart, DropInv, Generations, DroppedCannotCommit, NoOp
    <2> QED BY <1>17, <1>t, <1>q, <2>2 DEF IssuesRestart, DropInv
  <1>18. CASE UNCHANGED issueVars
    <2>1. SameBinding
      BY <1>18 DEF issueVars, SameBinding
    <2> QED BY <1>18, <1>b, <2>1 DEF issueVars
  <1> QED BY <1>1, <1>2, <1>3, <1>4, <1>6, <1>7, <1>8, <1>9, <1>10, <1>11, <1>12, <1>13,
             <1>14, <1>15, <1>16, <1>17, <1>18 DEF IssuesNext

\* An operation that was under way when the user disconnected, reconnected or cancelled it
\* adds no task and saves no created issue, however late its answer comes (check_commit).
THEOREM LateAnswersAreDiscarded == IssuesSpec => LateAnswerDiscarded
  <1>1. IssuesInit => IssuesInv /\ DropInv
    BY IssuesInitInv
  <1>2. IssuesInv /\ DropInv /\ [IssuesNext]_issueVars
          => IssuesInv' /\ DropInv' /\ [DiscardsLateAnswer]_issueVars
    BY IssuesStepInv, DropStepInv
  <1> QED BY <1>1, <1>2, PTL DEF IssuesSpec, LateAnswerDiscarded

-----------------------------------------------------------------------------
\* The account connection.

JobSteps == {"idle", "version", "install", "installing", "authenticate", "login",
             "verify", "probe", "connect", "failed", "end"}
ReadSteps == {"idle", "verify", "account", "fetch", "commit", "committed"}
Phases == Transient \cup {"disconnected", "connected", "failed", "account_changed"}
SomeAccount == Accounts \cup {NoAccount}
Connections == [gen : Nat, phase : Phases, account : SomeAccount]
GhSessions == [gen : Nat, flag : Nat, running : BOOLEAN]
SignIns == [step : JobSteps, gen : Nat, flag : Nat, account : SomeAccount, dropped : BOOLEAN]
Reads == [step : ReadSteps, gen : Nat, flag : Nat, account : SomeAccount,
          round : {0, 1, 2}, dropped : BOOLEAN]

\* The types of the variables.
ConnTypeOK ==
    /\ conn \in Connections
    /\ ghSession \in GhSessions
    /\ cancelled \subseteq Nat
    /\ signIn \in SignIns
    /\ reading \in Reads
    /\ ghAccount \in SomeAccount
    /\ fresh \in Nat

\* No generation in use is newer than the last one handed out, and what runs has one.
Handed ==
    /\ conn.gen <= fresh /\ signIn.gen <= fresh /\ reading.gen <= fresh
    /\ conn.phase = "connected" => conn.gen # 0
    /\ signIn.step # "idle" => signIn.gen # 0
    /\ reading.step # "idle" => reading.gen # 0

\* A read of the current generation has the flag of the session.
ReadIsFlagged ==
    reading.step # "idle" /\ conn.gen = reading.gen
      => ghSession.gen = conn.gen /\ ghSession.flag = reading.flag

\* What the user withdrew is of a replaced generation, or its flag is set.
Withdrawn ==
    /\ signIn.dropped => conn.gen # signIn.gen
    /\ reading.dropped => conn.gen # reading.gen \/ reading.flag \in cancelled

ConnInv == ConnTypeOK /\ Handed /\ ReadIsFlagged /\ Withdrawn

\* The invariant holds at first: nothing is connected and nothing runs (status).
LEMMA ConnInitInv == ConnInit => ConnInv
  <1> SUFFICES ASSUME ConnInit PROVE ConnInv
    OBVIOUS
  <1>1. ConnTypeOK
    BY DEF ConnInit, ConnTypeOK, Connections, Phases, SomeAccount, GhSessions, NoGhSession,
           SignIns, IdleJob, JobSteps, Reads, IdleRead, ReadSteps
  <1>2. Handed /\ ReadIsFlagged /\ Withdrawn
    BY DEF ConnInit, Handed, ReadIsFlagged, Withdrawn, IdleJob, IdleRead
  <1> QED BY <1>1, <1>2 DEF ConnInv

\* A saved update leaves the generation alone, and makes the account connected only when
\* it asks for that and its generation is still current.
LEMMA UpdateKeeps ==
    ASSUME conn \in Connections, NEW gen \in Nat, NEW phase \in Phases,
           NEW account \in SomeAccount
    PROVE  LET c == Updated(gen, phase, account)
           IN  /\ c \in Connections /\ c.gen = conn.gen
               /\ c.phase = "connected" => \/ c = conn
                                           \/ phase = "connected" /\ conn.gen = gen
  BY DEF Updated, IsCurrentGeneration, Connections

\* What the handlers do to the thread and to the read keeps their types, and the mark of
\* the user nothing else.
LEMMA ConnUpdates ==
    /\ \A j \in SignIns, step \in JobSteps, a \in SomeAccount :
         /\ [j EXCEPT !.step = step] \in SignIns
         /\ [j EXCEPT !.step = step].gen = j.gen
         /\ [j EXCEPT !.step = step].dropped = j.dropped
         /\ [j EXCEPT !.step = step, !.account = a] \in SignIns
         /\ [j EXCEPT !.step = step, !.account = a].gen = j.gen
         /\ [j EXCEPT !.step = step, !.account = a].dropped = j.dropped
  BY DEF SignIns

\* No thread and no read.
LEMMA IdleFields ==
    /\ IdleJob \in SignIns /\ IdleJob.step = "idle" /\ IdleJob.gen = 0
    /\ IdleRead \in Reads /\ IdleRead.step = "idle" /\ IdleRead.gen = 0
    /\ IdleJob.dropped = FALSE /\ IdleRead.dropped = FALSE
  BY DEF SignIns, IdleJob, Reads, IdleRead, SomeAccount, JobSteps, ReadSteps

\* The thread as Connect starts it.
LEMMA StartedFields ==
    ASSUME NEW g \in Nat
    PROVE  LET j == [IdleJob EXCEPT !.step = "version", !.gen = g, !.flag = g]
           IN  j \in SignIns /\ j.gen = g /\ j.dropped = FALSE
  BY DEF SignIns, IdleJob, SomeAccount, JobSteps

\* A step of the sign-in thread: the generation of the connection and of the thread stay,
\* and only the last step of a current thread connects.
JobMoves ==
    /\ UNCHANGED <<cancelled, reading, fresh>>
    /\ ghSession' \in GhSessions
    /\ ghSession'.gen = ghSession.gen /\ ghSession'.flag = ghSession.flag
    /\ conn' \in Connections /\ conn'.gen = conn.gen
    /\ conn'.phase = "connected" => conn' = conn \/ conn.gen = signIn.gen
    /\ signIn' \in SignIns /\ signIn.step # "idle"
    /\ \/ signIn' = IdleJob
       \/ signIn'.gen = signIn.gen /\ signIn'.dropped = signIn.dropped
    /\ ghAccount' \in SomeAccount

LEMMA JobMovesOnly == ConnTypeOK /\ JobNext => JobMoves
  <1> SUFFICES ASSUME ConnTypeOK, JobNext PROVE JobMoves
    OBVIOUS
  <1>f. /\ conn \in Connections /\ signIn \in SignIns /\ ghSession \in GhSessions
        /\ ghAccount \in SomeAccount /\ signIn.gen \in Nat /\ signIn.account \in SomeAccount
    BY DEF ConnTypeOK, SignIns
  <1>a. NoAccount \in SomeAccount /\ \A a \in Accounts : a \in SomeAccount
    BY DEF SomeAccount
  <1>j. ASSUME NEW from \in JobSteps \ {"idle"}, NEW to \in JobSteps, JobStep(from, to),
               \/ UNCHANGED conn
               \/ \E phase \in Phases \ {"connected"} :
                    conn' = Updated(signIn.gen, phase, NoAccount)
               \/ conn' = Updated(signIn.gen, "connected", signIn.account),
               ghAccount' \in SomeAccount
        PROVE  JobMoves
    <2>1. /\ signIn' \in SignIns /\ signIn.step # "idle"
          /\ signIn'.gen = signIn.gen /\ signIn'.dropped = signIn.dropped
      BY <1>f, <1>j, ConnUpdates DEF JobStep
    <2>2. /\ conn' \in Connections /\ conn'.gen = conn.gen
          /\ conn'.phase = "connected" => conn' = conn \/ conn.gen = signIn.gen
      <3>1. CASE UNCHANGED conn
        BY <1>f, <3>1
      <3>2. CASE \E phase \in Phases \ {"connected"} :
                   conn' = Updated(signIn.gen, phase, NoAccount)
        BY <1>f, <1>a, <3>2, UpdateKeeps
      <3>3. CASE conn' = Updated(signIn.gen, "connected", signIn.account)
        <4>1. "connected" \in Phases
          BY DEF Phases
        <4> QED BY <1>f, <3>3, <4>1, UpdateKeeps
      <3> QED BY <1>j, <3>1, <3>2, <3>3
    <2> QED BY <1>f, <1>j, <2>1, <2>2 DEF JobStep, JobMoves
  <1>1. CASE VerifyVersion
    BY <1>1, <1>f, <1>a, <1>j DEF VerifyVersion, JobSteps, Phases, Transient
  <1>2. CASE InstallProgress
    BY <1>2, <1>f, <1>a, <1>j DEF InstallProgress, JobSteps, Phases, Transient
  <1>3. CASE InstallEnds
    BY <1>3, <1>f, <1>a, <1>j DEF InstallEnds, JobSteps, Phases, Transient
  <1>4. CASE Authenticate
    BY <1>4, <1>f, <1>a, <1>j DEF Authenticate, JobSteps, Phases, Transient
  <1>5. CASE Login
    BY <1>5, <1>f, <1>a, <1>j DEF Login, JobSteps, Phases, Transient
  <1>6. CASE Verifying
    BY <1>6, <1>f, <1>a, <1>j DEF Verifying, JobSteps, Phases, Transient
  <1>7. CASE ProbeAccount
    <2>1. signIn' \in SignIns /\ signIn.step # "idle"
          /\ signIn'.gen = signIn.gen /\ signIn'.dropped = signIn.dropped
      <3>1. \/ signIn' = [signIn EXCEPT !.step = "failed"]
            \/ signIn' = [signIn EXCEPT !.step = "connect", !.account = ghAccount]
        BY <1>7 DEF ProbeAccount
      <3>2. {"failed", "connect"} \subseteq JobSteps /\ signIn.step # "idle"
        BY <1>7 DEF ProbeAccount, JobSteps
      <3>3. CASE signIn' = [signIn EXCEPT !.step = "failed"]
        BY <1>f, <3>2, <3>3, ConnUpdates
      <3>4. CASE signIn' = [signIn EXCEPT !.step = "connect", !.account = ghAccount]
        BY <1>f, <3>2, <3>4, ConnUpdates
      <3> QED BY <3>1, <3>3, <3>4
    <2> QED BY <1>7, <1>f, <2>1 DEF ProbeAccount, JobMoves
  <1>8. CASE ConnectAccount
    BY <1>8, <1>f, <1>a, <1>j DEF ConnectAccount, JobSteps, Phases, Transient
  <1>9. CASE JobFails
    BY <1>9, <1>f, <1>a, <1>j DEF JobFails, JobSteps, Phases, Transient
  <1>10. CASE JobEnds
    <2>1. ghSession' \in GhSessions
          /\ ghSession'.gen = ghSession.gen /\ ghSession'.flag = ghSession.flag
      BY <1>10, <1>f DEF JobEnds, GhSessions
    <2> QED BY <1>10, <1>f, <2>1, IdleFields DEF JobEnds, JobMoves
  <1> QED BY <1>1, <1>2, <1>3, <1>4, <1>5, <1>6, <1>7, <1>8, <1>9, <1>10 DEF JobNext

\* A step of the bound read: it goes on or ends, and saves its result only when it may.
ReadMoves ==
    /\ UNCHANGED <<ghSession, signIn, ghAccount, fresh>>
    /\ cancelled' \subseteq Nat /\ cancelled \subseteq cancelled'
    /\ conn' \in Connections /\ conn'.gen = conn.gen
    /\ conn'.phase = "connected" => conn' = conn
    /\ reading' \in Reads /\ reading.step # "idle"
    /\ \/ reading' = IdleRead
       \/ /\ reading'.gen = reading.gen /\ reading'.flag = reading.flag
          /\ reading'.dropped = reading.dropped
          /\ reading'.step = "committed" => MayCommit

LEMMA ReadMovesOnly == ConnTypeOK /\ ReadNext => ReadMoves
  <1> SUFFICES ASSUME ConnTypeOK, ReadNext PROVE ReadMoves
    OBVIOUS
  <1>f. /\ conn \in Connections /\ reading \in Reads /\ cancelled \subseteq Nat
        /\ reading.gen \in Nat /\ reading.flag \in Nat /\ NoAccount \in SomeAccount
    BY DEF ConnTypeOK, Reads, SomeAccount
  <1>j. ASSUME NEW from \in ReadSteps \ {"idle"}, NEW to \in ReadSteps, ReadStep(from, to),
               to = "committed" => MayCommit,
               cancelled' \in {cancelled, cancelled \cup {reading.flag}},
               \/ UNCHANGED conn
               \/ \E phase \in Phases \ {"connected"} :
                    conn' = Updated(reading.gen, phase, NoAccount)
        PROVE  ReadMoves
    <2>1. /\ reading' \in Reads /\ reading.step # "idle"
          /\ \/ reading' = IdleRead
             \/ /\ reading'.gen = reading.gen /\ reading'.flag = reading.flag
                /\ reading'.dropped = reading.dropped
                /\ reading'.step = "committed" => MayCommit
      BY <1>f, <1>j, IdleFields DEF ReadStep, Reads
    <2>2. /\ conn' \in Connections /\ conn'.gen = conn.gen
          /\ conn'.phase = "connected" => conn' = conn
      BY <1>f, <1>j, UpdateKeeps
    <2> QED BY <1>f, <1>j, <2>1, <2>2 DEF ReadStep, ReadMoves
  <1>1. CASE VerifyRead
    BY <1>1, <1>j DEF VerifyRead, ReadSteps
  <1>2. CASE VerifyAccount
    BY <1>2, <1>j DEF VerifyAccount, ReadSteps, Phases
  <1>3. CASE FetchRead
    <2>1. CASE reading' = [reading EXCEPT !.step = "verify", !.round = 2]
      <3>1. /\ reading' \in Reads /\ reading'.gen = reading.gen
            /\ reading'.flag = reading.flag /\ reading'.dropped = reading.dropped
            /\ reading'.step = "verify"
        BY <1>f, <2>1 DEF Reads, ReadSteps
      <3> QED BY <1>3, <1>f, <3>1 DEF FetchRead, ReadStep, ReadMoves
    <2>2. CASE ReadStep("fetch", "idle") /\ UNCHANGED <<conn, cancelled>>
      BY <1>j, <2>2 DEF ReadSteps
    <2> QED BY <1>3, <2>1, <2>2 DEF FetchRead
  <1>4. CASE CommitRead
    BY <1>4, <1>j DEF CommitRead, ReadSteps
  <1>5. CASE EndRead
    BY <1>5, <1>j DEF EndRead, ReadSteps
  <1> QED BY <1>1, <1>2, <1>3, <1>4, <1>5 DEF ReadNext

\* Every step keeps the generations and flags in order, and what was withdrawn stays so.
LEMMA ConnStepInv ==
    ASSUME ConnInv, [ConnNext]_connVars
    PROVE  ConnInv' /\ [KeepsWithdrawn]_connVars
  <1> USE DEF ConnInv
  <1>f. /\ conn \in Connections /\ conn.gen \in Nat /\ signIn.gen \in Nat
        /\ reading.gen \in Nat /\ reading.flag \in Nat /\ fresh \in Nat
        /\ signIn \in SignIns /\ reading \in Reads /\ ghSession \in GhSessions
        /\ ghSession.gen \in Nat /\ ghSession.flag \in Nat
        /\ cancelled \subseteq Nat /\ NoAccount \in SomeAccount
        /\ conn.account \in SomeAccount
    BY DEF ConnTypeOK, Connections, SignIns, Reads, GhSessions, SomeAccount
  <1>m. /\ \A b \in BOOLEAN :
             LET j == [signIn EXCEPT !.dropped = b]
             IN  j \in SignIns /\ j.gen = signIn.gen /\ j.step = signIn.step /\ j.dropped = b
        /\ \A b \in BOOLEAN :
             LET r == [reading EXCEPT !.dropped = b]
             IN  /\ r \in Reads /\ r.gen = reading.gen /\ r.step = reading.step
                 /\ r.flag = reading.flag /\ r.dropped = b
                 /\ reading.dropped = b => r = reading
    BY <1>f DEF SignIns, Reads
  <1>1. CASE ConnStatus
    <2>1. conn' \in Connections /\ conn'.gen = conn.gen /\ conn'.phase = "disconnected"
      BY <1>1, <1>f DEF ConnStatus, Connections, Phases
    <2>2. ConnTypeOK'
      BY <1>1, <2>1 DEF ConnStatus, ConnTypeOK
    <2> QED BY <1>1, <2>1, <2>2 DEF ConnStatus, Handed, ReadIsFlagged, Withdrawn, KeepsWithdrawn
  <1>2. CASE Disconnect
    <2>1. /\ conn' \in Connections /\ conn'.gen = fresh + 1 /\ conn'.phase = "disconnected"
          /\ fresh' = fresh + 1 /\ cancelled' \subseteq Nat /\ cancelled \subseteq cancelled'
      BY <1>2, <1>f DEF Disconnect, Connections, Phases
    <2>2. /\ signIn' \in SignIns /\ signIn'.gen = signIn.gen /\ signIn'.step = signIn.step
          /\ reading' \in Reads /\ reading'.gen = reading.gen /\ reading'.step = reading.step
          /\ reading'.flag = reading.flag
          /\ reading.step # "idle" /\ reading.dropped => reading' = reading
      <3>1. (signIn.step # "idle") \in BOOLEAN /\ (reading.step # "idle") \in BOOLEAN
        OBVIOUS
      <3> QED BY <1>2, <1>m, <3>1 DEF Disconnect
    <2>3. ConnTypeOK'
      BY <1>2, <1>f, <2>1, <2>2 DEF Disconnect, ConnTypeOK
    <2>4. Handed' /\ ReadIsFlagged' /\ Withdrawn'
      BY <1>2, <1>f, <2>1, <2>2 DEF Disconnect, Handed, ReadIsFlagged, Withdrawn
    <2>5. KeepsWithdrawn
      BY <2>1, <2>2 DEF KeepsWithdrawn
    <2> QED BY <2>3, <2>4, <2>5
  <1>3. CASE CancelRead
    <2>1. /\ reading' \in Reads /\ reading'.gen = reading.gen /\ reading'.step = reading.step
          /\ reading'.flag = reading.flag
          /\ reading'.dropped = (reading.step # "idle")
          /\ reading.step # "idle" /\ reading.dropped => reading' = reading
      <3>1. (reading.step # "idle") \in BOOLEAN
        OBVIOUS
      <3> QED BY <1>3, <1>m, <3>1 DEF CancelRead
    <2>2. /\ UNCHANGED <<conn, ghSession, signIn, ghAccount, fresh>>
          /\ cancelled' \subseteq Nat /\ cancelled \subseteq cancelled'
          /\ ghSession.gen # 0 => ghSession.flag \in cancelled'
      BY <1>3, <1>f DEF CancelRead
    <2>3. ConnTypeOK'
      BY <2>1, <2>2 DEF ConnTypeOK
    <2>4. Handed' /\ ReadIsFlagged'
      BY <2>1, <2>2 DEF Handed, ReadIsFlagged
    <2>5. reading.step # "idle" /\ conn.gen = reading.gen => reading.flag \in cancelled'
      BY <1>3, <2>2 DEF CancelRead, Handed, ReadIsFlagged
    <2>6. Withdrawn'
      BY <2>1, <2>2, <2>5 DEF Withdrawn
    <2>7. KeepsWithdrawn
      BY <2>1, <2>2 DEF KeepsWithdrawn
    <2> QED BY <2>3, <2>4, <2>6, <2>7
  <1>4. CASE Connect
    <2>1. /\ conn' \in Connections /\ conn'.gen = fresh + 1 /\ conn'.phase = "checking"
          /\ fresh' = fresh + 1 /\ cancelled' \subseteq Nat /\ ghSession' \in GhSessions
      BY <1>4, <1>f DEF Connect, Connections, Phases, Transient, GhSessions
    <2>2. signIn' \in SignIns /\ signIn'.gen = fresh + 1 /\ signIn'.dropped = FALSE
      <3>1. fresh' \in Nat /\ fresh' = fresh + 1
        BY <1>4, <1>f DEF Connect
      <3>2. signIn' = [IdleJob EXCEPT !.step = "version", !.gen = fresh', !.flag = fresh']
        BY <1>4 DEF Connect
      <3> QED BY <3>1, <3>2, StartedFields
    <2>3. /\ reading' \in Reads /\ reading'.gen = reading.gen /\ reading'.step = reading.step
          /\ reading.step # "idle" /\ reading.dropped => reading' = reading
      <3>1. (reading.step # "idle") \in BOOLEAN
        OBVIOUS
      <3> QED BY <1>4, <1>m, <3>1 DEF Connect
    <2>4. ConnTypeOK'
      BY <1>4, <1>f, <2>1, <2>2, <2>3 DEF Connect, ConnTypeOK
    <2>5. Handed' /\ ReadIsFlagged' /\ Withdrawn'
      BY <1>f, <2>1, <2>2, <2>3 DEF Handed, ReadIsFlagged, Withdrawn
    <2>6. KeepsWithdrawn
      BY <2>1, <2>3 DEF KeepsWithdrawn
    <2> QED BY <2>4, <2>5, <2>6
  <1>5. CASE Capture
    <2>0. PICK flag \in Nat :
            /\ ghSession' = [ghSession EXCEPT !.gen = conn.gen, !.flag = flag]
            /\ reading' = [step |-> "verify", gen |-> conn.gen, flag |-> flag,
                           account |-> conn.account, round |-> 1, dropped |-> FALSE]
      <3> DEFINE reuse == ghSession.gen = conn.gen /\ ghSession.flag \notin cancelled
                 flag == IF reuse THEN ghSession.flag ELSE fresh + 1
      <3>1. flag \in Nat
        BY <1>f
      <3>2. /\ ghSession' = [ghSession EXCEPT !.gen = conn.gen, !.flag = flag]
            /\ reading' = [step |-> "verify", gen |-> conn.gen, flag |-> flag,
                           account |-> conn.account, round |-> 1, dropped |-> FALSE]
        BY <1>5 DEF Capture
      <3> HIDE DEF flag
      <3> QED BY <3>1, <3>2
    <2>1. /\ reading' \in Reads /\ reading'.gen = conn.gen /\ reading'.dropped = FALSE
          /\ reading'.step = "verify" /\ reading'.flag = flag
      BY <2>0, <1>f DEF Reads, ReadSteps
    <2>6. /\ ghSession' \in GhSessions
          /\ ghSession'.gen = conn.gen /\ ghSession'.flag = flag
      BY <2>0, <1>f DEF GhSessions
    <2>7. fresh' \in Nat /\ fresh <= fresh'
      BY <1>5, <1>f DEF Capture
    <2>2. UNCHANGED <<conn, cancelled, signIn, ghAccount>> /\ conn.phase = "connected"
      BY <1>5 DEF Capture
    <2>3. ConnTypeOK'
      BY <2>1, <2>2, <2>6, <2>7 DEF ConnTypeOK
    <2>4. Handed' /\ ReadIsFlagged' /\ Withdrawn'
      BY <1>f, <2>1, <2>2, <2>6, <2>7 DEF Handed, ReadIsFlagged, Withdrawn
    <2>5. KeepsWithdrawn
      BY <2>1, <2>2, <2>6, <2>7 DEF KeepsWithdrawn
    <2> QED BY <2>3, <2>4, <2>5
  <1>6. CASE JobNext
    <2>1. JobMoves
      BY <1>6, JobMovesOnly
    <2>2. ConnTypeOK'
      BY <2>1 DEF JobMoves, ConnTypeOK
    <2>5. ReadIsFlagged'
      BY <2>1 DEF JobMoves, ReadIsFlagged
    <2>6. ASSUME signIn' = IdleJob PROVE Handed' /\ Withdrawn'
      BY <1>f, <2>1, <2>6, IdleFields DEF JobMoves, Handed, Withdrawn
    <2>7. ASSUME signIn'.gen = signIn.gen, signIn'.dropped = signIn.dropped
          PROVE  Handed' /\ Withdrawn'
      BY <1>f, <2>1, <2>7 DEF JobMoves, Handed, Withdrawn
    <2>3. Handed' /\ Withdrawn'
      BY <2>1, <2>6, <2>7 DEF JobMoves
    <2>4. KeepsWithdrawn
      BY <2>1 DEF JobMoves, KeepsWithdrawn, Withdrawn
    <2> QED BY <2>2, <2>3, <2>4, <2>5
  <1>7. CASE ReadNext
    <2>1. ReadMoves
      BY <1>7, ReadMovesOnly
    <2>2. ConnTypeOK'
      BY <2>1 DEF ReadMoves, ConnTypeOK
    <2>5. ASSUME reading' = IdleRead PROVE Handed' /\ ReadIsFlagged' /\ Withdrawn'
      BY <1>f, <2>1, <2>5, IdleFields DEF ReadMoves, Handed, ReadIsFlagged, Withdrawn
    <2>6. ASSUME reading'.gen = reading.gen, reading'.flag = reading.flag,
                 reading'.dropped = reading.dropped
          PROVE  Handed' /\ ReadIsFlagged' /\ Withdrawn'
      BY <1>f, <2>1, <2>6 DEF ReadMoves, Handed, ReadIsFlagged, Withdrawn
    <2>3. Handed' /\ ReadIsFlagged' /\ Withdrawn'
      BY <2>1, <2>5, <2>6 DEF ReadMoves
    <2>4. KeepsWithdrawn
      BY <2>1, IdleFields DEF ReadMoves, KeepsWithdrawn, Withdrawn, MayCommit
    <2> QED BY <2>2, <2>3, <2>4
  <1>8. CASE AccountSwitch
    <2>1. UNCHANGED <<conn, ghSession, cancelled, signIn, reading, fresh>>
          /\ ghAccount' \in SomeAccount
      BY <1>8 DEF AccountSwitch, SomeAccount
    <2> QED BY <2>1 DEF ConnTypeOK, Handed, ReadIsFlagged, Withdrawn, KeepsWithdrawn
  <1>9. CASE ConnRestart
    <2>1. ConnTypeOK'
      BY <1>9, IdleFields DEF ConnRestart, ConnTypeOK, GhSessions, NoGhSession
    <2>2. Handed' /\ ReadIsFlagged' /\ Withdrawn'
      BY <1>9, <1>f, IdleFields DEF ConnRestart, Handed, ReadIsFlagged, Withdrawn
    <2>3. KeepsWithdrawn
      BY <1>9, IdleFields DEF ConnRestart, KeepsWithdrawn
    <2> QED BY <2>1, <2>2, <2>3
  <1>10. CASE UNCHANGED connVars
    BY <1>10 DEF connVars, ConnTypeOK, Handed, ReadIsFlagged, Withdrawn
  <1> QED BY <1>1, <1>2, <1>3, <1>4, <1>5, <1>6, <1>7, <1>8, <1>9, <1>10 DEF ConnNext

\* What the user withdrew stays withdrawn, for every set of accounts and every number of
\* generations, restarts and cancellations: a cancelled sign-in never connects, a withdrawn
\* read never saves its result (update, check_commit).
THEOREM NothingComesBack == ConnSpec => WithdrawnStaysWithdrawn
  <1>1. ConnInit => ConnInv
    BY ConnInitInv
  <1>2. ConnInv /\ [ConnNext]_connVars => ConnInv' /\ [KeepsWithdrawn]_connVars
    BY ConnStepInv
  <1> QED BY <1>1, <1>2, PTL DEF ConnSpec, WithdrawnStaysWithdrawn

=============================================================================
