------------------------------ MODULE AgentTurn ------------------------------
(***************************************************************************)
(* The turns of one agent with its Codex app server                        *)
(* (codex_app_server.rs, app_server_client.rs,                             *)
(* remote_app_server_runtime.rs, runtime_shared.rs).                       *)
(*                                                                         *)
(* A run has a process, a reader thread that turns lines of the process    *)
(* into events, and a watcher thread that applies the events to the state  *)
(* of the daemon.  The agent outlives its runs: the threads of an old run  *)
(* may still be at work when the next one has started.  Clients answer     *)
(* approval requests and stop the agent meanwhile.  One action is one      *)
(* critical section of the runtime mutex, or one line, or one message.     *)
(*                                                                         *)
(* What the process sends is external: any line the gate lets through may  *)
(* arrive at any time.  Model, title, usage, transcript and attention are  *)
(* left out, and so are failures without a text and the kind of a request, *)
(* which only refuses the operation that answers the other kind.           *)
(***************************************************************************)
EXTENDS Naturals, Sequences

CONSTANTS
    Requests,   \* ids of approval requests
    Answers,    \* what a client may answer
    MaxRun,     \* bound: the runs of the agent
    MaxStop,    \* bound: how often clients stop or kill the agent
    MaxEvents   \* bound: the events that wait for a watcher

ASSUME TurnBoundsAssumption == MaxRun \in Nat \ {0} /\ MaxStop \in Nat /\ MaxEvents \in Nat \ {0}

Runs == 1..MaxRun
NoRun == 0

VARIABLES
    agent,     \* AgentRun.state
    child,     \* the run of the entry in children, or NoRun
    control,   \* the run of the entry in app_server_turns, or NoRun
    shown,     \* pending_permissions: "no", "open" or "sent" (response_pending)
    run,       \* process, reader, watcher and events of every run
    entry,     \* ActiveTurn.pending: owner run, status and reserved answer
    written,   \* history: how often an answer was written to the process
    responder, \* a thread in respond_permission_for_target
    stopper    \* a thread in stop_agent or force_kill_agent

turnVars == <<agent, child, control, shown, run, entry, written, responder, stopper>>
clientVars == <<responder, stopper>>

FinishedStates == {"Completed", "Failed", "Interrupted"}
AgentStates == FinishedStates \cup {"Working", "AwaitingApproval", "Stopping"}

\* The exit code of a process is not kept: finish_agent finds any.
NewRun == [proc |-> "none", reader |-> "none", watcher |-> "none",
           events |-> <<>>]
\* A run after its watcher: nothing else of it matters.
OverRun == [proc |-> "exited", reader |-> "ended", watcher |-> "done", events |-> <<>>]
NoEntry == [run |-> NoRun, status |-> "none", answer |-> "none"]
IdleThread == [pc |-> "idle"]
IdleStopper == [pc |-> "idle", run |-> NoRun, stops |-> 0]

TurnInit ==
    /\ agent = "Completed"
    /\ child = NoRun
    /\ control = NoRun
    /\ shown = [q \in Requests |-> "no"]
    /\ run = [r \in Runs |-> NewRun]
    /\ entry = [q \in Requests |-> NoEntry]
    /\ written = [q \in Requests |-> 0]
    /\ responder = IdleThread
    /\ stopper = IdleStopper

Exited(r) == run[r].proc = "exited"

-----------------------------------------------------------------------------
\* The last section of prompt_app_server_agent: spawn_turn has sent thread/resume.
StartTurn(r) ==
    /\ child = NoRun
    /\ run[r].proc = "none" /\ \A s \in 1..(r - 1) : run[s].proc # "none"
    /\ agent' = "Working"
    /\ child' = r
    /\ control' = r
    /\ run' = [run EXCEPT ![r] = [NewRun EXCEPT !.proc = "live", !.reader = "thread",
                                                !.watcher = "live"]]
    /\ UNCHANGED <<shown, entry, written, clientVars>>

\* spawn_turn fails: no run is registered.
StartFails ==
    /\ child = NoRun /\ \E r \in Runs : run[r].proc = "none"
    /\ agent # "Stopping"
    /\ agent' = "Failed"
    /\ UNCHANGED <<child, control, shown, run, entry, written, clientVars>>

-----------------------------------------------------------------------------
\* The reader, one line at a time.  What an old run still reads is dropped by the checks
\* of is_current_run like the events it has sent, so only the current run reads on.
InLoop(r) == child = r /\ run[r].reader \in {"thread", "turn", "open"}

Reading(r) == InLoop(r) /\ Len(run[r].events) < MaxEvents

Send(r, events) == [run EXCEPT ![r].events = @ \o events]

SendOnly(r, kind) ==
    /\ run' = Send(r, <<[kind |-> kind]>>)
    /\ UNCHANGED <<agent, child, control, shown, entry, written, clientVars>>

\* The answer to thread/resume: turn/start is sent, or the answer is an error, or it
\* does not confirm the restricted profile or the skills.
ThreadReply(r) ==
    /\ Reading(r) /\ run[r].reader = "thread"
    /\ \/ run' = [run EXCEPT ![r].reader = "turn"]
       \/ run' = Send(r, <<[kind |-> "Failed"]>>)
       \/ run' = [Send(r, <<[kind |-> "Failed"]>>) EXCEPT ![r].reader = "turn"]
    /\ UNCHANGED <<agent, child, control, shown, entry, written, clientVars>>

TurnReply(r) ==
    /\ Reading(r) /\ run[r].reader = "turn"
    /\ \/ run' = [run EXCEPT ![r].reader = "open"]
       \/ run' = Send(r, <<[kind |-> "Failed"]>>)
    /\ UNCHANGED <<agent, child, control, shown, entry, written, clientVars>>

\* The status of a turn without an error is "completed" or "interrupted".
\* The gate drops notifications of a turn while the thread is not known.
TurnStartedLine(r) == Reading(r) /\ run[r].reader # "thread" /\ SendOnly(r, "TurnStarted")

TurnCompletedLine(r) ==
    /\ Reading(r) /\ run[r].reader # "thread"
    /\ \E status \in {"over", "failed"} :
         run' = Send(r, <<[kind |-> "TurnCompleted", status |-> status]>>)
    /\ UNCHANGED <<agent, child, control, shown, entry, written, clientVars>>

\* "error" without a retry, or a request the daemon does not support.
ErrorLine(r) == Reading(r) /\ SendOnly(r, "Failed")

\* queue_approval: the request gets a fresh id.
RequestLine(r, q) ==
    /\ Reading(r) /\ run[r].reader # "thread"
    /\ entry[q].status = "none"
    /\ entry' = [entry EXCEPT ![q] = [run |-> r, status |-> "waiting", answer |-> "none"]]
    /\ run' = Send(r, <<[kind |-> "ApprovalRequested", request |-> q]>>)
    /\ UNCHANGED <<agent, child, control, shown, written, clientVars>>

\* serverRequest/resolved or item/completed: the entry is removed.
ResolvedLine(r, q) ==
    /\ Reading(r)
    /\ entry[q].run = r /\ entry[q].status # "gone"
    /\ entry' = [entry EXCEPT ![q].status = "gone", ![q].answer = "none"]
    /\ run' = Send(r, <<[kind |-> "PermissionResolved", request |-> q]>>)
    /\ UNCHANGED <<agent, child, control, shown, written, clientVars>>

\* The reader leaves its loop; OutputClosed always follows.
EndReading(r, events) ==
    run' = [run EXCEPT ![r].reader = "ended",
                       ![r].events = @ \o events \o <<[kind |-> "OutputClosed"]>>]

\* Mutant: the age of an answer is not looked at.
StartupTooLong(r) == run[r].reader \in {"thread", "turn"}

\* An answer has waited 30 seconds, or a step of the startup 15 seconds.
TooLong(r) ==
    \/ run[r].reader \in {"thread", "turn"}
    \/ \E q \in Requests : entry[q].run = r /\ entry[q].status = "reserved"

ReaderTimesOut(r) ==
    /\ InLoop(r) /\ TooLong(r)
    /\ EndReading(r, <<[kind |-> "Failed"]>>)
    /\ UNCHANGED <<agent, child, control, shown, entry, written, clientVars>>

\* read_message: the output ends, or is cut or too long.
OutputEnds(r) ==
    /\ Reading(r)
    /\ \/ Exited(r) /\ EndReading(r, <<>>)
       \/ EndReading(r, <<[kind |-> "Failed"]>>)
    /\ UNCHANGED <<agent, child, control, shown, entry, written, clientVars>>

\* By itself, or killed half a second after the end of the turn (TurnCompleted).
ProcessExits(r) ==
    /\ run[r].proc = "live"
    /\ run' = [run EXCEPT ![r].proc = "exited"]
    /\ UNCHANGED <<agent, child, control, shown, entry, written, clientVars>>

-----------------------------------------------------------------------------
\* Mutant: the agent has a run, whichever it is.
HasChild(r) == child # NoRun

\* is_current_run
IsCurrent(r) == child = r

\* record_terminal_failure
FailTurn(r) == agent' = IF IsCurrent(r) /\ agent # "Stopping"
                    THEN "Failed" ELSE agent

Waits(shownAfter) == \E q \in Requests : shownAfter[q] # "no"

\* clear_agent_permissions: the requests shown all belong to this agent.
NoneShown == [q \in Requests |-> "no"]

Consume(r, watcher) == [run EXCEPT ![r].events = Tail(@), ![r].watcher = watcher]
Next1(r, kind) == run[r].watcher = "live" /\ run[r].events # <<>> /\ Head(run[r].events).kind = kind

\* start_agent_turn
HandleTurnStarted(r) ==
    /\ Next1(r, "TurnStarted")
    /\ agent' = IF IsCurrent(r) /\ agent # "Stopping"
                THEN "Working" ELSE agent
    /\ run' = Consume(r, "live")
    /\ UNCHANGED <<child, control, shown, entry, written, clientVars>>

HandleApprovalRequested(r) ==
    /\ Next1(r, "ApprovalRequested")
    /\ IF IsCurrent(r)
       THEN /\ shown' = [shown EXCEPT ![Head(run[r].events).request] = "open"]
            /\ agent' = "AwaitingApproval"
            /\ run' = Consume(r, "live")
       ELSE /\ run' = Consume(r, "terminal")
            /\ UNCHANGED <<shown, agent>>
    /\ UNCHANGED <<child, control, entry, written, clientVars>>

HandlePermissionResolved(r) ==
    /\ Next1(r, "PermissionResolved")
    /\ IF IsCurrent(r)
       THEN /\ shown' = [shown EXCEPT ![Head(run[r].events).request] = "no"]
            /\ agent' = IF agent = "AwaitingApproval" /\ ~Waits(shown') THEN "Working" ELSE agent
            /\ run' = Consume(r, "live")
       ELSE /\ run' = Consume(r, "terminal")
            /\ UNCHANGED <<shown, agent>>
    /\ UNCHANGED <<child, control, entry, written, clientVars>>

\* Failed and a failed TurnCompleted lock the state twice: first for the failure.
HandleFailed(r) ==
    /\ \/ Next1(r, "Failed") /\ run' = Consume(r, "failing")
       \/ Next1(r, "TurnCompleted") /\ Head(run[r].events).status = "failed"
          /\ run' = Consume(r, "completing")
    /\ FailTurn(r)
    /\ UNCHANGED <<child, control, shown, entry, written, clientVars>>

\* The second section, and a TurnCompleted without an error.
EndTurn(r, state) ==
    IF IsCurrent(r)
    THEN /\ control' = NoRun
         /\ shown' = NoneShown
         /\ agent' = state
    ELSE UNCHANGED <<control, shown, agent>>

HandleFailedEnd(r) ==
    /\ run[r].watcher = "failing"
    /\ EndTurn(r, agent)
    /\ run' = [run EXCEPT ![r].watcher = "terminal"]
    /\ UNCHANGED <<child, entry, written, clientVars>>

HandleTurnCompleted(r) ==
    \/ /\ Next1(r, "TurnCompleted") /\ Head(run[r].events).status # "failed"
       /\ \E state \in {"Completed", "Interrupted"} : EndTurn(r, state)
       /\ run' = Consume(r, "terminal")
       /\ UNCHANGED <<child, entry, written, clientVars>>
    \/ /\ run[r].watcher = "completing"
       /\ EndTurn(r, "Failed")
       /\ run' = [run EXCEPT ![r].watcher = "terminal"]
       /\ UNCHANGED <<child, entry, written, clientVars>>

\* attach_remote_app_server_turn: nothing is applied after the end of the turn.
DropEvent(r) ==
    /\ run[r].watcher = "terminal" /\ run[r].events # <<>>
    /\ Head(run[r].events).kind # "OutputClosed"
    /\ run' = Consume(r, "terminal")
    /\ UNCHANGED <<agent, child, control, shown, entry, written, clientVars>>

\* Output that ends before the turn is a failure, again in two sections.
HandleOutputClosed(r) ==
    /\ run[r].watcher \in {"live", "terminal"} /\ run[r].events # <<>>
    /\ Head(run[r].events).kind = "OutputClosed"
    /\ IF run[r].watcher = "live"
       THEN FailTurn(r) /\ run' = Consume(r, "disconnecting")
       ELSE agent' = agent /\ run' = Consume(r, "terminal")
    /\ UNCHANGED <<child, control, shown, entry, written, clientVars>>

HandleDisconnected(r) ==
    /\ run[r].watcher = "disconnecting"
    /\ control' = IF IsCurrent(r) THEN NoRun ELSE control
    /\ run' = [run EXCEPT ![r].watcher = "terminal"]
    /\ UNCHANGED <<agent, child, shown, entry, written, clientVars>>

-----------------------------------------------------------------------------
\* finish_agent.  terminal_failure is set with the state Failed, which stays.
FinishAgent(r) ==
    IF IsCurrent(r)
    THEN /\ child' = NoRun
         /\ control' = NoRun
         /\ shown' = NoneShown
         /\ agent' \in CASE agent = "Stopping" -> {"Interrupted"}
                        [] agent \in FinishedStates -> {agent}
                        [] OTHER -> {"Completed", "Failed"}
    ELSE UNCHANGED <<child, control, shown, agent>>

\* Mutant: the watcher waits for the end of the turn.
TurnIsOver(r) == run[r].watcher = "terminal"

\* The process left after its output was drained, or two seconds have passed since the
\* end of the turn or of the process.
MayFinish(r) == run[r].watcher = "terminal" \/ Exited(r)

\* A process that stays is killed.
WatcherFinishes(r) ==
    /\ run[r].watcher \in {"live", "terminal"}
    /\ MayFinish(r)
    /\ FinishAgent(r)
    /\ run' = [run EXCEPT ![r] = OverRun]
    /\ UNCHANGED <<entry, written, clientVars>>

-----------------------------------------------------------------------------
\* respond_permission_for_target: the control is looked up under the mutex...
RespondLook(q, a) ==
    /\ responder.pc = "idle" /\ shown[q] # "no" /\ control # NoRun
    /\ responder' = [pc |-> "write", request |-> q, answer |-> a, run |-> child]
    /\ UNCHANGED <<agent, child, control, shown, run, entry, written, stopper>>

\* Mutant: the answer is reserved when all of it was written.
ReserveAfterWrite(q, a) ==
    /\ \/ entry' = [entry EXCEPT ![q].status = "reserved", ![q].answer = a]
       \/ UNCHANGED entry
    /\ written' = [written EXCEPT ![q] = @ + 1]

ReserveAnswer(q, a) ==
    /\ entry' = [entry EXCEPT ![q].status = "reserved", ![q].answer = a]
    /\ written' = [written EXCEPT ![q] = @ + 1]

\* ...the answer is written outside it (send_approval_response): a write may fail, and
\* a denial interrupts the turn...
RespondWrite ==
    LET q == responder.request
        a == responder.answer
    IN  /\ responder.pc = "write"
        /\ \/ /\ entry[q].status = "waiting"
              /\ ReserveAnswer(q, a)
              /\ responder' \in {[responder EXCEPT !.pc = "mark"], IdleThread}
           \/ /\ entry[q].status = "reserved" /\ entry[q].answer = a
              /\ responder' = [responder EXCEPT !.pc = "mark"]
              /\ UNCHANGED <<entry, written>>
           \/ /\ \/ entry[q].status = "gone"
                 \/ entry[q].status = "reserved" /\ entry[q].answer # a
                 \/ a # "deny"    \* the writer reservation is missing
              /\ responder' = IdleThread
              /\ UNCHANGED <<entry, written>>
        /\ UNCHANGED <<agent, child, control, shown, run, stopper>>

\* ...and marked as sent if the request is still there.
RespondMark ==
    /\ responder.pc = "mark"
    /\ responder' = IdleThread
    /\ shown' = IF child = responder.run /\ shown[responder.request] # "no"
                THEN [shown EXCEPT ![responder.request] = "sent"] ELSE shown
    /\ UNCHANGED <<agent, child, control, run, entry, written, stopper>>

\* answer_agent_questions is one section.
AnswerQuestions(q, a) ==
    /\ shown[q] # "no" /\ control # NoRun
    /\ entry[q].status = "waiting"
    /\ ReserveAnswer(q, a)
    /\ shown' \in {shown, [shown EXCEPT ![q] = "sent"]}
    /\ UNCHANGED <<agent, child, control, run, clientVars>>

-----------------------------------------------------------------------------
\* stop_agent marks the agent, force_kill_agent does not, and a run is signalled.
MayStop == stopper.pc = "idle" /\ stopper.stops < MaxStop

StopChild == stopper' = [pc |-> "signal", run |-> child, stops |-> stopper.stops + 1]
StopReturns == stopper' = [stopper EXCEPT !.pc = "idle", !.run = NoRun]

StopMarks ==
    /\ MayStop
    /\ IF child = NoRun THEN agent' = "Interrupted" /\ UNCHANGED stopper
       ELSE agent' = "Stopping" /\ StopChild
    /\ UNCHANGED <<child, control, shown, run, entry, written, responder>>

ForceKill ==
    /\ MayStop /\ child # NoRun
    /\ StopChild
    /\ UNCHANGED <<agent, child, control, shown, run, entry, written, responder>>

\* The interrupt was enough, or the watcher was there in a second.
StopWaits ==
    /\ stopper.pc \in {"signal", "finalize"} /\ child # stopper.run
    /\ StopReturns
    /\ UNCHANGED <<agent, child, control, shown, run, entry, written, responder>>

\* Signals end the process group, or agent_stop_failed is returned.
StopSignals ==
    /\ stopper.pc = "signal"
    /\ \/ /\ run' = [run EXCEPT ![stopper.run].proc = "exited"]
          /\ stopper' = [stopper EXCEPT !.pc = "finalize"]
       \/ StopReturns /\ UNCHANGED run
    /\ UNCHANGED <<agent, child, control, shown, entry, written, responder>>

\* finalize_stopped_run
StopFinalizes ==
    /\ stopper.pc = "finalize" /\ IsCurrent(stopper.run)
    /\ StopReturns
    /\ child' = NoRun
    /\ control' = NoRun
    /\ shown' = NoneShown
    /\ agent' = "Interrupted"
    /\ run' = [run EXCEPT ![stopper.run].reader = "ended"]
    /\ UNCHANGED <<entry, written, responder>>

-----------------------------------------------------------------------------
Lines(r) ==
    \/ ThreadReply(r) \/ TurnReply(r) \/ TurnStartedLine(r) \/ TurnCompletedLine(r)
    \/ ErrorLine(r) \/ ProcessExits(r)
    \/ \E q \in Requests : RequestLine(r, q) \/ ResolvedLine(r, q)

ReaderSteps(r) == ReaderTimesOut(r) \/ OutputEnds(r)

WatcherSteps(r) ==
    \/ HandleTurnStarted(r) \/ HandleApprovalRequested(r) \/ HandlePermissionResolved(r)
    \/ HandleFailed(r) \/ HandleFailedEnd(r) \/ HandleTurnCompleted(r) \/ DropEvent(r)
    \/ HandleOutputClosed(r) \/ HandleDisconnected(r)

RespondSteps == RespondWrite \/ RespondMark

StopSteps == StopWaits \/ StopSignals \/ StopFinalizes

TurnNext ==
    \/ \E r \in Runs : \/ StartTurn(r) \/ Lines(r) \/ ReaderSteps(r) \/ WatcherSteps(r)
                       \/ WatcherFinishes(r)
    \/ StartFails \/ StopMarks \/ ForceKill \/ StopSteps \/ RespondSteps
    \/ \E q \in Requests, a \in Answers : RespondLook(q, a) \/ AnswerQuestions(q, a)

\* The reader looks at its clocks before every line and ten times a second, and the
\* watcher at its own after every event and forty times a second.
TurnFairness ==
    \A r \in Runs : /\ WF_turnVars(ReaderTimesOut(r))
                     /\ WF_turnVars(WatcherSteps(r)) /\ WF_turnVars(WatcherFinishes(r))

TurnSpec == TurnInit /\ [][TurnNext]_turnVars /\ TurnFairness

-----------------------------------------------------------------------------
\* An answer is written to the process at most once: a write that failed half way
\* through is never repeated, whoever answers again and with what (ActiveTurn::respond,
\* send_approval_response).
AnsweredOnce == \A q \in Requests : written[q] <= 1

\* What the user is asked can be answered: a request on show belongs to the run the agent
\* has now, the control that answers it is registered while the watcher of that run is at
\* work, and an agent that awaits approval shows what it waits for.  No end of a run, stop
\* or late event of an older run takes one of them away or brings an old request back
\* (is_current_run, finish_agent, respond_permission_for_target).
RequestsAnswerable ==
    /\ \A q \in Requests : shown[q] # "no" => child # NoRun /\ entry[q].run = child
    /\ child # NoRun /\ run[child].watcher = "live" => control = child
    /\ agent = "AwaitingApproval" => Waits(shown)

\* A request whose answer was sent does not stay on show for ever: it is resolved or,
\* without a confirmation, the turn fails (the clock of the reader in spawn_turn).
AnswerSettles == \A q \in Requests : shown[q] = "sent" ~> shown[q] # "sent"

\* A run whose process has left is finalized: the agent gets its slot back
\* (attach_remote_app_server_turn).
ExitFinalizes == \A r \in Runs : Exited(r) ~> child # r
=============================================================================
