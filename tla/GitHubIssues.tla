---------------------------- MODULE GitHubIssues ----------------------------
(***************************************************************************)
(* Issues and tasks of a project whose GitHub account is connected through *)
(* the GitHub App (crates/ditchd/src/github_app.rs, github.rs,             *)
(* github_publish.rs): publishing a task as a new issue, creating an issue *)
(* that becomes a task, importing an issue, and the control operations     *)
(* that connect, disconnect and cancel while one of those is under way.    *)
(* The Relay, which holds the credentials and posts to GitHub, is          *)
(* external: it is modelled from what the client relies on, that a request *)
(* with another generation is refused and that one request id posts at     *)
(* most one issue.                                                         *)
(*                                                                         *)
(* A request id is <<t, n>>: the n-th id the client made for publishing    *)
(* task t, or for creating an issue without a task when t is NoTask.  An   *)
(* issue is named by the request that created it; <<NoTask, 0>> was there  *)
(* before.  The project is one of this daemon, with its repository linked. *)
(***************************************************************************)
EXTENDS Naturals, FiniteSets

CONSTANTS GTasks,    \* every task there may be
          Drafts,    \* the tasks there are at first
          Bodies,    \* the contents a publication may be given
          NoTask,    \* no task
          MaxGen,    \* bound on the generations of the connection
          MaxTry,    \* bound on the request ids made for one task
          MaxLost    \* bound on lost answers and restarts

ASSUME NoTaskAssumption == Drafts \subseteq GTasks /\ NoTask \notin GTasks
ASSUME MaxTryAssumption == MaxTry \in Nat

VARIABLES relay,     \* external: the generation and the issues posted
          stored,    \* the saved generation: NoTask, or 0 for "disconnected"
          seen,      \* the generation of the session's status, NoTask: no session
          controlOp, \* the holder of CONTROL
          op,        \* the holder of OPERATION
          pub,       \* github_publications: task -> saved payload and result
          source,    \* the github_source of every task
          row,       \* github_sources: issue -> task
          present,   \* the tasks there are
          lost       \* answers lost and restarts so far

issueVars == <<relay, stored, seen, controlOp, op, pub, source, row, present, lost>>

RequestIds == (GTasks \cup {NoTask}) \X (0 .. MaxTry)
NoIssue == <<NoTask, MaxTry + 1>>
NoPub == [rid |-> NoIssue, body |-> NoTask, result |-> FALSE]
NoControl == [kind |-> "none", step |-> "idle", value |-> 0]
NoOp == [kind |-> "none", step |-> "idle", task |-> NoTask, rid |-> NoIssue,
         body |-> NoTask, gen |-> 0, registered |-> FALSE, cancel |-> FALSE,
         dropped |-> FALSE]

IssuesInit ==
  /\ relay = [gen |-> 1, last |-> 1, posted |-> {<<NoTask, 0>>}]
  /\ stored = 1
  /\ seen = NoTask
  /\ controlOp = NoControl
  /\ op = NoOp
  /\ pub = [t \in GTasks |-> NoPub]
  /\ source = [t \in GTasks |-> NoIssue]
  /\ row = [i \in RequestIds |-> NoTask]
  /\ present = Drafts
  /\ lost = 0

Under(step) == op.step = step
GoesTo(step) == op' = IF step = "idle" THEN NoOp ELSE [op EXCEPT !.step = step]

-----------------------------------------------------------------------------
\* Control operations, one at a time under CONTROL.

(* The flag of the session is the one of the operation that registered it. *)
Flagged(o) == IF o.registered THEN [o EXCEPT !.cancel = TRUE, !.dropped = TRUE] ELSE o

(* Status, Connect, Cancel and Disconnect take CONTROL; the last two set   *)
(* the flag before anything is sent.                                       *)
BeginControl ==
  /\ controlOp.step = "idle"
  /\ \E kind \in {"status", "connect", "disconnect"} :
       /\ controlOp' = [NoControl EXCEPT !.kind = kind, !.step = "ask"]
       /\ op' = IF kind = "disconnect" THEN Flagged(op) ELSE op
  /\ UNCHANGED <<relay, stored, seen, pub, source, row, present, lost>>

(* The generation after a control request the Relay acted upon, or not.    *)
RelayGeneration(acts) ==
  CASE ~acts                         -> relay.gen
    [] controlOp.kind = "connect"    -> relay.last + 1
    [] controlOp.kind = "disconnect" -> 0
    [] OTHER                         -> relay.gen

(* The Relay acts and answers with the generation that is current then; or *)
(* the answer is lost, whether or not it acted, and nothing is saved.      *)
RelayControl ==
  /\ controlOp.step = "ask"
  /\ \E acts, answers \in BOOLEAN :
       LET gen == RelayGeneration(acts)
       IN  /\ answers => acts
           /\ answers \/ lost < MaxLost
           /\ gen <= MaxGen
           /\ relay' = [relay EXCEPT !.gen = gen, !.last = IF gen > @ THEN gen ELSE @]
           /\ lost' = IF answers THEN lost ELSE lost + 1
           /\ controlOp' = IF answers
                         THEN [controlOp EXCEPT !.step = "save", !.value = gen]
                         ELSE NoControl
  /\ UNCHANGED <<stored, seen, op, pub, source, row, present>>

(* save_status: the generation is saved, and a session that showed another *)
(* one is cancelled.                                                       *)
SaveStatus ==
  /\ controlOp.step = "save"
  /\ stored' = controlOp.value
  /\ seen' = controlOp.value
  /\ op' = LET o == IF seen # controlOp.value /\ seen # NoTask THEN Flagged(op) ELSE op
           IN  IF controlOp.kind = "status" \/ op.step = "idle" THEN o
               ELSE [o EXCEPT !.dropped = TRUE]
  /\ controlOp' = NoControl
  /\ UNCHANGED <<relay, pub, source, row, present, lost>>

(* CancelRead takes no lock.                                               *)
CancelIssueRead ==
  /\ op.registered /\ ~op.cancel
  /\ op' = Flagged(op)
  /\ UNCHANGED <<relay, stored, seen, controlOp, pub, source, row, present, lost>>

-----------------------------------------------------------------------------
\* An operation: one at a time under OPERATION.

BeginOperation(o) ==
  /\ Under("idle")
  /\ stored # NoTask
  /\ op' = [o EXCEPT !.step = "register", !.gen = stored]
  /\ UNCHANGED <<relay, stored, seen, controlOp, pub, source, row, present, lost>>

(* CreateIssue for a task: the client sends what the user typed, under an  *)
(* id that may be new at every attempt.                                    *)
BeginPublish ==
  \E t \in present, n \in 1 .. MaxTry, b \in Bodies :
    BeginOperation([NoOp EXCEPT !.kind = "publish", !.task = t,
                                !.rid = <<t, n>>, !.body = b])

(* CreateIssue without a task.                                             *)
BeginCreate ==
  \E n \in 1 .. MaxTry :
    BeginOperation([NoOp EXCEPT !.kind = "create", !.rid = <<NoTask, n>>])

BeginImport ==
  \E i \in relay.posted :
    BeginOperation([NoOp EXCEPT !.kind = "import", !.rid = i])

(* The operation puts its own flag into the session, if there is one; the  *)
(* generation was read in an earlier critical section.                     *)
RegisterFlag ==
  /\ Under("register")
  /\ op' = [op EXCEPT !.registered = seen # NoTask, !.step = "repository"]
  /\ UNCHANGED <<relay, stored, seen, controlOp, pub, source, row, present, lost>>

\* Mutant: the flag is checked and the generation is not.
MayCommitUnbound == ~op.cancel

(* check_commit: neither cancelled nor of another generation.              *)
MayCommitIssue == ~op.cancel /\ stored = op.gen

(* The Relay refuses a request of a generation that is not current.        *)
RelayAccepts == op.gen = relay.gen /\ relay.gen # 0

AfterRead == CASE op.kind = "publish" -> "reserve"
               [] op.kind = "create"  -> "post"
               [] OTHER               -> "import"

(* verified_repository, and for an import the issue itself: read through   *)
(* the Relay, with check_commit before and after; it may fail.             *)
ReadRepository ==
  /\ Under("repository")
  /\ \E next \in {"idle"} \cup (IF MayCommitIssue /\ RelayAccepts THEN {AfterRead}
                                ELSE {}) :
       GoesTo(next)
  /\ UNCHANGED <<relay, stored, seen, controlOp, pub, source, row, present, lost>>

\* Mutant: a retry posts under the id of the attempt, not the saved one.
PostsUnder(saved) == op.rid

(* The id a retry posts under is the one saved with the first attempt.     *)
PostedUnder(saved) == saved.rid

(* The publication is saved before anything is posted.  A task that has a  *)
(* source and no publication is answered as it is; a saved publication is  *)
(* resumed, with its id and its result, by the same contents only.         *)
ReservePublication ==
  /\ Under("reserve")
  /\ LET t == op.task
         saved == pub[t]
         mine == [rid |-> op.rid, body |-> op.body, result |-> FALSE]
     IN  \/ /\ saved = NoPub /\ source[t] # NoIssue
            /\ GoesTo("idle")
            /\ UNCHANGED pub
         \/ /\ saved = NoPub /\ source[t] = NoIssue
            /\ pub' = [pub EXCEPT ![t] = mine]
            /\ GoesTo("post")
         \/ /\ saved # NoPub
            /\ op' = IF saved.body # op.body THEN NoOp
                     ELSE [op EXCEPT !.rid = PostedUnder(saved),
                                     !.step = IF saved.result THEN "result" ELSE "post"]
            /\ UNCHANGED pub
  /\ UNCHANGED <<relay, stored, seen, controlOp, source, row, present, lost>>

(* service.create.  The Relay posts once for an id and answers, or the     *)
(* answer is lost; before it reserves the id it may refuse the issue type. *)
PostIssue ==
  /\ Under("post")
  /\ \/ /\ MayCommitIssue /\ RelayAccepts
        /\ relay' = [relay EXCEPT !.posted = @ \cup {op.rid}]
        /\ GoesTo(IF op.kind = "publish" THEN "result" ELSE "import")
        /\ UNCHANGED lost
     \/ /\ MayCommitIssue /\ RelayAccepts /\ lost < MaxLost
        /\ relay' \in {relay, [relay EXCEPT !.posted = @ \cup {op.rid}]}
        /\ GoesTo("idle")
        /\ lost' = lost + 1
     \/ /\ MayCommitIssue /\ RelayAccepts /\ op.rid \notin relay.posted
        /\ GoesTo(IF op.kind = "publish" THEN "refused" ELSE "idle")
        /\ UNCHANGED <<relay, lost>>
     \/ /\ ~(MayCommitIssue /\ RelayAccepts)
        /\ GoesTo("idle")
        /\ UNCHANGED <<relay, lost>>
  /\ UNCHANGED <<stored, seen, controlOp, pub, source, row, present>>

(* Only that refusal forgets the publication, so that another type can be  *)
(* chosen.                                                                 *)
ForgetRefused ==
  /\ Under("refused")
  /\ pub' = [pub EXCEPT ![op.task] = IF @.result THEN @ ELSE NoPub]
  /\ GoesTo("idle")
  /\ UNCHANGED <<relay, stored, seen, controlOp, source, row, present, lost>>

(* The created issue is saved with the publication, if the connection is   *)
(* still the one it was created under.                                     *)
SaveResult ==
  /\ Under("result")
  /\ IF MayCommitIssue
     THEN /\ pub' = [pub EXCEPT ![op.task].result = @ \/ pub[op.task] # NoPub]
          /\ GoesTo("attach")
     ELSE /\ GoesTo("idle")
          /\ UNCHANGED pub
  /\ UNCHANGED <<relay, stored, seen, controlOp, source, row, present, lost>>

\* Mutant: the attachment does not look for another task of the issue.
AttachesAny(t, i) == source[t] = NoIssue

(* attach_source accepts an issue no other task has, for a task that has   *)
(* no other issue.                                                         *)
Attachable(t, i) == row[i] \in {NoTask, t} /\ source[t] = NoIssue

(* AttachGitHub, a task request of its own: it does not depend on the      *)
(* connection any more.  Task and row are saved in one transaction, so the *)
(* insert with which create ends finds the row there.                      *)
AttachSource ==
  /\ Under("attach")
  /\ IF Attachable(op.task, op.rid)
     THEN /\ source' = [source EXCEPT ![op.task] = op.rid]
          /\ row' = [row EXCEPT ![op.rid] = IF @ = NoTask THEN op.task ELSE @]
     ELSE UNCHANGED <<source, row>>
  /\ GoesTo("idle")
  /\ UNCHANGED <<relay, stored, seen, controlOp, pub, present, lost>>

(* An issue with a row is the task it already has.                         *)
IsNewIssue(i) == row[i] = NoTask

(* import_issues_with_kind: task, row and receipt in one transaction, after*)
(* check_commit.  A receipt answers with the tasks the rows still name.    *)
ImportIssue ==
  /\ Under("import")
  /\ \/ /\ MayCommitIssue /\ IsNewIssue(op.rid)
        /\ \E x \in GTasks \ present :
             /\ present' = present \cup {x}
             /\ source' = [source EXCEPT ![x] = op.rid]
             /\ row' = [row EXCEPT ![op.rid] = x]
     \/ /\ ~(MayCommitIssue /\ IsNewIssue(op.rid) /\ present # GTasks)
        /\ UNCHANGED <<present, source, row>>
  /\ GoesTo("idle")
  /\ UNCHANGED <<relay, stored, seen, controlOp, pub, lost>>

(* The daemon restarts: saved are the generation, the publications, the    *)
(* sources and the tasks.                                                  *)
IssuesRestart ==
  /\ lost < MaxLost
  /\ lost' = lost + 1
  /\ op' = NoOp
  /\ controlOp' = NoControl
  /\ seen' = NoTask
  /\ UNCHANGED <<relay, stored, pub, source, row, present>>

IssuesNext ==
  \/ BeginControl \/ RelayControl \/ SaveStatus \/ CancelIssueRead
  \/ BeginPublish \/ BeginCreate \/ BeginImport \/ RegisterFlag
  \/ ReadRepository \/ ReservePublication \/ PostIssue \/ ForgetRefused
  \/ SaveResult \/ AttachSource \/ ImportIssue \/ IssuesRestart

IssuesSpec == IssuesInit /\ [][IssuesNext]_issueVars

-----------------------------------------------------------------------------
(* A task is published as one issue, however often the publication is      *)
(* retried after a lost answer, a restart, a cancellation or a             *)
(* reconnection, and whatever id each attempt brings (create: the id is    *)
(* saved before the POST and only a refusal that precedes it forgets it).  *)
PublishedOnce ==
  \A t \in GTasks : Cardinality({i \in relay.posted : i[1] = t}) <= 1

(* An issue is the source of at most one task and the row of the issue     *)
(* names that task, also when a created issue is imported before its       *)
(* interrupted publication attaches it (attach_source,                     *)
(* import_issues_with_kind).                                               *)
IssueHasOneTask ==
  \A t \in GTasks : source[t] # NoIssue => row[source[t]] = t

DiscardsLateAnswer ==
  op.dropped => /\ present' = present
                /\ \A t \in GTasks : pub'[t].result => pub[t].result

(* An operation that was under way when the user disconnected, reconnected *)
(* or cancelled it adds no task and saves no created issue afterwards: its *)
(* late answer is discarded (check_commit).                                *)
LateAnswerDiscarded == [][DiscardsLateAnswer]_issueVars

=============================================================================
