--------------------------- MODULE AcceptanceLoop ---------------------------
(***************************************************************************)
(* The acceptance loop of one task and the review of its result            *)
(* (crates/ditchd/src/acceptance_runtime.rs): the launch thread that       *)
(* reserves the writer and registers a control, the loop that runs worker, *)
(* validators and retries, and the review requests.                        *)
(*                                                                         *)
(* A loop's deadline may pass at any moment; storage errors, retention     *)
(* limits, a moved HEAD and failed policy checks are LoopError.  A loop    *)
(* runs at most one command validator per attempt.                         *)
(***************************************************************************)
EXTENDS BoardQueue

CONSTANTS MaxAttempts   \* policy.max_attempts

ASSUME MaxAttemptsAssumption == MaxAttempts \in Nat \ {0}

\* acceptance_block.  A queued task must not advertise a conversation that was
\* never created.
BlockedTask(tk) ==
    [tk EXCEPT !.cond = "Blocked", !.state = "Running", !.sub = None,
               !.assigned = IF tk.queued /\ (@ = None \/ ~HasRecord(@)) THEN None ELSE @]

\* The control and the task after acceptance_block, which also ends the attempt.
BlockTask(t, pc) ==
    /\ task' = [task EXCEPT ![t] = BlockedTask(@)]
    /\ control' = [control EXCEPT ![t].att = FALSE, ![t].pc = pc]
    /\ Touch({t})

-----------------------------------------------------------------------------
\* begin_acceptance, first section: reserve the writer for the task's launch.
LaunchAcquire(l) ==
    LET verdict == Admission(l.agent, ProjectOf[l.task], FALSE) IN
    /\ l.task # None /\ l.stage = "claimed"
    /\ NothingToReap
    /\ IF verdict = "reject"
       THEN /\ BlockTask(l.task, control[l.task].pc)
            /\ launch' = launch \ {l}
            /\ UNCHANGED lease
       ELSE /\ lease' = IF verdict = "grant" THEN [lease EXCEPT ![l.agent] = "reserved"] ELSE lease
            /\ launch' = (launch \ {l}) \cup
                         {[l EXCEPT !.stage = "acquired", !.reuse = verdict = "reuse"]}
            /\ UNCHANGED <<task, control, review>>
    /\ UNCHANGED <<agent, child, group, orphan, boardVars>> /\ Locked

\* begin_acceptance, second section: register the control, which owns the lease
\* from here on; a second loop of the task is refused.
LaunchControl(l) ==
    LET rel == IF l.reuse THEN [lease |-> lease, orphan |-> orphan]
                          ELSE Released(l.agent, AcceptanceOwners)
    IN  /\ l.task # None /\ l.stage = "acquired"
        /\ launch' = launch \ {l}
        /\ IF HasLoop(l.task)
           THEN /\ lease' = rel.lease /\ orphan' = rel.orphan
                /\ UNCHANGED control
           ELSE /\ control' = [control EXCEPT ![l.task] =
                     [NoLoop EXCEPT !.pc = "preflight", !.owner = l.agent,
                                    !.vonly = l.vonly, !.ordinal = 1]]
                /\ UNCHANGED <<lease, orphan>>
        /\ UNCHANGED <<task, agent, child, group, review, boardVars>> /\ Locked

-----------------------------------------------------------------------------
\* The loop's step pc -> new, for steps that change nothing but the control.
Goto(t, new) == control' = [control EXCEPT ![t].pc = new]

\* A new attempt is recorded.  A retry needs the workspace its failure was found
\* in; outside the queue it also moves the lease to a new agent.
Preflight(t) ==
    LET c     == control[t]
        owner == c.owner
        moves == c.ordinal > 1 /\ ~task[t].queued
    IN  /\ c.pc = "preflight" /\ ~c.cancel
        /\ c.ordinal > 1 => ws = c.fp
        /\ \E new \in Agents :
             /\ IF moves THEN Fresh(new) /\ lease[owner] # "none" ELSE new = owner
             /\ lease' = IF moves THEN [lease EXCEPT ![new] = lease[owner], ![owner] = "none"]
                                  ELSE lease
             /\ task' = [task EXCEPT
                  ![t].assigned = IF moves THEN new ELSE @,
                  ![t].worker   = IF c.vonly THEN @ ELSE new,
                  ![t].cond     = IF c.vonly THEN "Running" ELSE "Queued"]
             /\ control' = [control EXCEPT ![t] =
                  [c EXCEPT !.owner = new, !.att = TRUE,
                            !.pc = IF c.vonly THEN "validating" ELSE "launch",
                            !.fp = IF c.vonly THEN ws ELSE None]]
        /\ Touch({t})
        /\ UNCHANGED <<agent, child, group, orphan, launch, boardVars>> /\ Locked

\* start_remote_app_server_session_linked: the admission of the worker itself.
AdmitWorker(t) ==
    LET owner   == control[t].owner
        verdict == Admission(owner, ProjectOf[t], FALSE)
    IN  /\ control[t].pc = "launch"
        /\ NothingToReap
        /\ lease' = IF verdict = "grant" THEN [lease EXCEPT ![owner] = "reserved"] ELSE lease
        /\ control' = [control EXCEPT
             ![t].pc    = IF verdict = "reject" THEN "failed" ELSE "launching",
             ![t].reuse = verdict = "reuse"]
        /\ UNCHANGED <<task, agent, child, group, orphan, launch, review, boardVars>> /\ Locked

\* WriterGuard::started persists the group before the turn is sent.
SpawnWorker(t) ==
    /\ control[t].pc = "launching"
    /\ group' = group \cup {control[t].owner}
    /\ RecordGroup(control[t].owner, "worker")
    /\ Goto(t, "spawned")
    /\ UNCHANGED <<task, agent, child, orphan, launch, review, boardVars>> /\ Locked

\* The launch fails, with or without a conversation to show for it.
LaunchFails(t) ==
    LET owner == control[t].owner
        rel   == IF control[t].reuse THEN [lease |-> lease, orphan |-> orphan] ELSE Dropped(owner)
    IN  /\ control[t].pc \in {"launching", "spawned"}
        /\ \/ UNCHANGED agent
           \/ agent' = [agent EXCEPT ![owner] = [st |-> "Failed", link |-> t]]
        /\ lease' = rel.lease /\ orphan' = rel.orphan
        /\ Goto(t, "failed")
        /\ UNCHANGED <<task, child, group, launch, review, boardVars>> /\ Locked

\* The worker is registered and its attempt is Working.
RegisterWorker(t) ==
    LET owner == control[t].owner IN
    /\ control[t].pc = "spawned"
    /\ agent' = [agent EXCEPT ![owner] = [st |-> "Working", link |-> t]]
    /\ child' = [child EXCEPT ![owner] = "open"]
    /\ IF control[t].att
       THEN task' = [task EXCEPT ![t].cond = "Running"] /\ Goto(t, "working") /\ Touch({t})
       ELSE Goto(t, "failed") /\ UNCHANGED <<task, review>>
    /\ UNCHANGED <<lease, group, orphan, launch, boardVars>> /\ Locked

\* Cancelled, or the deadline passed while the loop was awake: stop the worker.
StopWorker(t) ==
    LET owner == control[t].owner IN
    /\ control[t].pc = "working"
    /\ control' = [control EXCEPT ![t].pc = "failed", ![t].cancel = TRUE]
    /\ IF HasRecord(owner) THEN StopEffect(owner)
                           ELSE UNCHANGED <<task, agent, child, lease, orphan, review>>
    /\ UNCHANGED <<group, launch, boardVars>> /\ Locked

\* The worker has exited and none of its descendants is left: capture the
\* workspace and start validating.
WorkerExited(t) ==
    LET owner == control[t].owner
        ok    == control[t].att /\ agent[owner].st = "Completed"
    IN  /\ control[t].pc = "working" /\ ~control[t].cancel
        /\ child[owner] = "none" /\ owner \notin group
        /\ lease' = [lease EXCEPT ![owner] = IF @ = "none" THEN @ ELSE "reserved"]
        /\ IF ok THEN /\ control' = [control EXCEPT ![t].pc = "validating", ![t].fp = ws]
                      /\ task' = [task EXCEPT ![t].cond = "Running"]
                      /\ Touch({t})
                 ELSE Goto(t, "failed") /\ UNCHANGED <<task, review>>
        /\ UNCHANGED <<agent, child, group, orphan, launch, boardVars>> /\ Locked

\* A command validator runs in a process of its own, recorded before dispatch.
StartValidator(t) ==
    /\ control[t].pc = "validating" /\ ~control[t].cancel
    /\ group' = group \cup {control[t].owner}
    /\ RecordGroup(control[t].owner, "validator")
    /\ Goto(t, "checking")
    /\ UNCHANGED <<task, agent, child, orphan, launch, review, boardVars>> /\ Locked

\* The validator answered and its server was stopped, or it was abandoned.
ValidatorEnds(t) ==
    /\ control[t].pc = "checking"
    /\ \/ /\ control[t].att
          /\ group' = group \ {control[t].owner}
          /\ Goto(t, "checked")
       \/ Goto(t, "failed") /\ UNCHANGED group
    /\ UNCHANGED <<task, agent, child, lease, orphan, launch, review, boardVars>> /\ Locked

\* clear_attempt_group, the second capture and the verdict.  The cancel flag is
\* only looked at before each validator, so not at all when there is none.
Judge(t) ==
    LET c == control[t]
        Passed == /\ task' = [task EXCEPT ![t].sub = ws, ![t].state = "InReview", ![t].cond = "Idle",
                                          ![t].assigned = IF c.vonly THEN task[t].worker ELSE @]
                  /\ control' = [control EXCEPT ![t].att = FALSE, ![t].pc = "ending"]
                  /\ Touch({t})
        Retry  == /\ ~c.vonly /\ c.ordinal < MaxAttempts
                  /\ control' = [control EXCEPT ![t].att = FALSE, ![t].pc = "preflight",
                                                ![t].ordinal = @ + 1]
                  /\ Touch({t}) /\ UNCHANGED task
    IN  /\ c.pc \in {"validating", "checked"}
        /\ c.owner \notin group
        /\ c.att /\ c.fp = ws
        /\ Passed \/ Retry
        /\ lease' = [lease EXCEPT ![c.owner] = IF @ = "none" THEN @ ELSE "reserved"]
        /\ UNCHANGED <<agent, child, group, orphan, launch, boardVars>> /\ Locked

\* Any other end of the loop.  In "working" it is recv_timeout reaching the
\* deadline, which leaves the worker running.
LoopError(t) ==
    /\ control[t].pc \in {"preflight", "launch", "working", "validating", "checked"}
    /\ Goto(t, "failed")
    /\ UNCHANGED <<task, agent, child, lease, group, orphan, launch, review, boardVars>> /\ Locked

\* Mutant: the loop waits for a worker that nobody stops.
BlockLoopAfterExit(t) ==
    /\ control[t].pc = "failed" /\ control[t].owner \notin group
    /\ BlockTask(t, "ending")
    /\ UNCHANGED <<agent, child, lease, group, orphan, launch, boardVars>> /\ Locked

\* acceptance_block at the end of an unsuccessful loop.
BlockLoop(t) ==
    /\ control[t].pc = "failed"
    /\ BlockTask(t, "ending")
    /\ UNCHANGED <<agent, child, lease, group, orphan, launch, boardVars>> /\ Locked

\* The control is removed and the lease of its owner released.
EndLoop(t) ==
    LET gone == [control EXCEPT ![t] = NoLoop]
        rel  == Released(control[t].owner, OwnersIn(gone))
    IN  /\ control[t].pc = "ending"
        /\ control' = gone
        /\ lease' = rel.lease /\ orphan' = rel.orphan
        /\ UNCHANGED <<task, agent, child, group, launch, review, boardVars>> /\ Locked

-----------------------------------------------------------------------------
\* CancelLoop up to its unlock: the flag is set and the owner remembered, whom
\* StopCancelled stops later.  Two requests that are about to stop one agent are one.
CancelLoop(t) ==
    /\ "cancel" \in Ops
    /\ HasLoop(t)
    /\ control' = [control EXCEPT ![t].cancel = TRUE]
    /\ stops' = stops \cup {control[t].owner}
    /\ Touch({t})
    /\ UNCHANGED <<task, agent, child, lease, group, orphan, launch, paused, planned>> /\ Locked

\* Mutant: the evidence is not compared.
EvidenceUnchecked(t) == TRUE

\* The submission exists and was made for the present workspace.
EvidenceCurrent(t) == task[t].sub = ws

\* A review request: its checks, made before the workspace is read again.
\* "Revalidate" stands for Revalidate and for an explicit Submit.
BeginReview(t, op) ==
    /\ op \in Ops
    /\ ~TaskLive(t)
    /\ CASE op \in {"Accept", "AcceptRelease"} ->
                MayTransition(task[t], "Accept") /\ EvidenceCurrent(t)
         [] op = "Revalidate" ->
                ~task[t].archived /\ Column(task[t]) \in {"InProgress", "InReview"}
         [] op = "RequestChanges" -> ~task[t].queued /\ MayTransition(task[t], "RequestChanges")
    /\ review' = review \cup {[task |-> t, op |-> op]}
    /\ UNCHANGED <<task, agent, child, lease, group, orphan, control, launch, boardVars>> /\ Locked

\* The commit of Accept: the revision is checked again, liveness is not.
CommitAccept(r) ==
    /\ r.op = "Accept"
    /\ task' = [task EXCEPT ![r.task] = Transition(@, "Accept")]
    /\ Touch({r.task})
    /\ UNCHANGED <<agent, child, lease, group, orphan, control, launch, boardVars>> /\ Locked

\* Mutant: liveness is not checked again.
CommitReleaseUnchecked(r) ==
    /\ r.op = "AcceptRelease"
    /\ task' = [task EXCEPT ![r.task] = Transition(@, "Accept")]
    /\ Touch({r.task})
    /\ UNCHANGED <<agent, child, lease, group, orphan, control, launch, boardVars>> /\ Locked

\* The commit of a release batch also checks liveness again.
CommitRelease(r) ==
    /\ r.op = "AcceptRelease"
    /\ IF TaskLive(r.task)
       THEN review' = review \ {r} /\ UNCHANGED task
       ELSE /\ task' = [task EXCEPT ![r.task] = Transition(@, "Accept")]
            /\ Touch({r.task})
    /\ UNCHANGED <<agent, child, lease, group, orphan, control, launch, boardVars>> /\ Locked

\* The commit of Revalidate or RequestChanges launches a new loop.
CommitLaunch(r, a) ==
    /\ r.op \in {"Revalidate", "RequestChanges"}
    /\ Fresh(a)
    /\ task' = [task EXCEPT ![r.task] =
         IF r.op = "Revalidate" THEN [@ EXCEPT !.assigned = a, !.cond = "Queued"]
         ELSE [Transition(@, "RequestChanges") EXCEPT !.assigned = a, !.cond = "Queued", !.sub = None]]
    /\ launch' = launch \cup {[task |-> r.task, agent |-> a, vonly |-> r.op = "Revalidate",
                               stage |-> "claimed", reuse |-> FALSE]}
    /\ Touch({r.task})
    /\ UNCHANGED <<agent, child, lease, group, orphan, control, boardVars>> /\ Locked

=============================================================================
