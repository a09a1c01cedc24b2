------------------------------- MODULE Handoff -------------------------------
(***************************************************************************)
(* The handoff of a draft of the board to its SSH host                     *)
(* (remote_task_handoff.rs, task_runtime.rs, ssh_remote.rs).               *)
(*                                                                         *)
(* A task of a remote project is written on the Mac and stays there        *)
(* (remote_pending) until a request needs it on the host.  The request     *)
(* then transfers the task under a journaled request id, checks the copy,  *)
(* makes it the projection of the Mac, and is forwarded with the revision  *)
(* of the copy.  Answers may be lost and requests may arrive late, the     *)
(* daemon of the Mac may crash, the user may edit the draft and the host   *)
(* may change the copy meanwhile.                                          *)
(*                                                                         *)
(* Content stands for handoff_scope: all that the user approved.  A copy   *)
(* that is not active is transferable.  The forwarded request is a Start;  *)
(* the other requests that need the copy take the same way.                *)
(***************************************************************************)
EXTENDS Naturals, Sequences

CONSTANTS
    Callers,      \* requests of clients of the Mac
    MacContents,  \* contents the user writes on the Mac
    HostContents, \* contents other clients write on the host
    FirstContent, \* the content of the draft
    Null,         \* no value
    MaxRev,       \* bound: revisions
    MaxTransfer,  \* bound: transfer ids
    MaxLoss       \* bound: lost answers and crashes

ASSUME HandoffAssumption ==
    /\ FirstContent \in MacContents /\ MacContents \cap HostContents = {}
    /\ MaxRev \in Nat /\ MaxTransfer \in Nat /\ MaxLoss \in Nat
    /\ Null \notin [rev : Nat, content : MacContents \cup HostContents]
    /\ Null \notin [content : MacContents \cup HostContents, active : BOOLEAN, rev : Nat]

VARIABLES
    local,     \* the task on the Mac
    handoff,   \* the journal: setting board_handoff_v2:<task>, or Null
    remote,    \* the copy on the host, or Null
    receipts,  \* task_requests of the host: the answer to every transfer, or Null
    late,      \* requests whose answer was given up and that may still arrive
    caller,    \* the thread that serves a request
    wish,      \* what the client saw when it made its request, or Null
    forwarded, \* setting board_handoff_action:<request>: the revision, or Null
    applied,   \* the contents that every request started on the host
    used,      \* transfer ids in use
    losses,
    meddled    \* what other clients did to the copy on the host: "no", "changed", "deleted"

handoffVars == <<local, handoff, remote, receipts, late, caller, wish, forwarded, applied,
                 used, losses, meddled>>
macVars == <<local, handoff, wish, forwarded>>
hostTaskVars == <<remote, receipts, applied>>

IdleCaller == [pc |-> "idle"]

HandoffInit ==
    /\ local = [pending |-> TRUE, content |-> FirstContent, rev |-> 1]
    /\ handoff = Null /\ remote = Null
    /\ receipts = [i \in 1..MaxTransfer |-> Null]
    /\ late = {}
    /\ caller = [c \in Callers |-> IdleCaller]
    /\ wish = [c \in Callers |-> Null]
    /\ forwarded = [c \in Callers |-> Null]
    /\ applied = [c \in Callers |-> <<>>]
    /\ used = 0 /\ losses = 0 /\ meddled = "no"

\* The scope of a copy is the scope of the task, and the copy is not in use.
SameScope(copy, task) == copy.content = task.content
Transferable(copy) == ~copy.active

Goes(c, next) == caller' = [caller EXCEPT ![c] = next]

\* An error: the same request is made again, or the client refreshes and makes a new one,
\* with another id.
Fails(c) ==
    /\ Goes(c, IdleCaller)
    /\ \/ UNCHANGED <<wish, forwarded>>
       \/ /\ \A m \in late : m.kind = "start" => m.by # c
          /\ wish' = [wish EXCEPT ![c] = Null]
          /\ forwarded' = [forwarded EXCEPT ![c] = Null]

-----------------------------------------------------------------------------
\* The request of a client.  A request that was forwarded before is forwarded again as
\* it was (restore_remote_board_action).
Submit(c) ==
    /\ caller[c].pc = "idle" /\ applied[c] = <<>>
    /\ wish[c] # Null \/ ~(remote # Null /\ remote.active)
    /\ wish' = [wish EXCEPT ![c] = IF @ = Null THEN [rev |-> local.rev, content |-> local.content]
                                  ELSE @]
    /\ LET rev == IF forwarded[c] # Null THEN forwarded[c] ELSE wish'[c].rev IN
         Goes(c, [pc |-> IF local.pending THEN "look" ELSE "save", rev |-> rev])
    /\ UNCHANGED <<local, handoff, forwarded, hostTaskVars, late, used, losses, meddled>>

\* prepare_remote_board_task
Look(c) ==
    /\ caller[c].pc = "look"
    /\ IF ~local.pending
       THEN Goes(c, [pc |-> "save", rev |-> caller[c].rev]) /\ UNCHANGED <<wish, forwarded>>
       ELSE IF local.rev # caller[c].rev THEN Fails(c)
       ELSE Goes(c, [pc |-> "journal", task |-> local]) /\ UNCHANGED <<wish, forwarded>>
    /\ UNCHANGED <<local, handoff, hostTaskVars, late, used, losses, meddled>>

ReadJournal(c) ==
    /\ caller[c].pc = "journal"
    /\ Goes(c, IF handoff = Null THEN [pc |-> "get", task |-> caller[c].task]
               ELSE [pc |-> "transfer", task |-> caller[c].task, transfer |-> handoff, round |-> 1])
    /\ UNCHANGED <<macVars, hostTaskVars, late, used, losses, meddled>>

\* read_remote_board_task: a copy of another content, or in use, stops the handoff.
GetCopy(c) ==
    /\ caller[c].pc = "get"
    /\ IF remote # Null /\ ~(Transferable(remote) /\ SameScope(remote, caller[c].task))
       THEN Fails(c)
       ELSE /\ Goes(c, [pc |-> "persist", task |-> caller[c].task, expected |-> remote])
            /\ UNCHANGED <<wish, forwarded>>
    /\ UNCHANGED <<local, handoff, hostTaskVars, late, used, losses, meddled>>

\* Mutant: every transfer expects that the host has no copy.
FirstTransfer(task, expected) == [id |-> used + 1, task |-> task, expected |-> Null]

NewTransfer(task, expected) == [id |-> used + 1, task |-> task, expected |-> expected]

\* The journal of a concurrent request is taken over.
PersistJournal(c) ==
    /\ caller[c].pc = "persist"
    /\ IF handoff # Null THEN UNCHANGED <<handoff, used>>
       ELSE /\ used < MaxTransfer /\ used' = used + 1
            /\ handoff' = NewTransfer(caller[c].task, caller[c].expected)
    /\ Goes(c, [pc |-> "transfer", task |-> caller[c].task, transfer |-> handoff', round |-> 1])
    /\ UNCHANGED <<local, wish, forwarded, hostTaskVars, late, losses, meddled>>

-----------------------------------------------------------------------------
\* materialize_board_task on the host: a replay, a conflict, or the copy and its receipt.
LargerOf(a, b) == IF a > b THEN a ELSE b

\* Mutant: the copy is not compared with the one the transfer expects.
AcceptsAny(transfer) == receipts[transfer.id] = Null /\ (remote # Null => Transferable(remote))

AcceptsTransfer(transfer) ==
    /\ receipts[transfer.id] = Null
    /\ remote = transfer.expected /\ (remote # Null => Transferable(remote))

Materialize(transfer) ==
    IF AcceptsTransfer(transfer)
    THEN LET copy == [content |-> transfer.task.content, active |-> FALSE,
                      rev |-> IF remote = Null THEN transfer.task.rev
                              ELSE LargerOf(transfer.task.rev, remote.rev + 1)]
         IN /\ remote' = copy
            /\ receipts' = [receipts EXCEPT ![transfer.id] = copy]
    ELSE UNCHANGED <<remote, receipts>>

Transfer(c) ==
    /\ caller[c].pc = "transfer"
    /\ Materialize(caller[c].transfer)
    /\ IF receipts'[caller[c].transfer.id] = Null THEN Fails(c)
       ELSE /\ Goes(c, [pc |-> "verify", task |-> caller[c].task, round |-> caller[c].round,
                        transfer |-> caller[c].transfer,
                        receipt |-> receipts'[caller[c].transfer.id]])
            /\ UNCHANGED <<wish, forwarded>>
    /\ UNCHANGED <<local, handoff, applied, late, used, losses, meddled>>

\* The copy as it is now must be the one that was transferred.
Verify(c) ==
    /\ caller[c].pc = "verify"
    /\ LET me == caller[c]
           sound == remote # Null /\ Transferable(remote) /\ SameScope(remote, me.receipt)
       IN IF ~sound THEN Fails(c)
          ELSE /\ Goes(c, [pc |-> IF me.transfer.task = me.task THEN "commit" ELSE "replace",
                           task |-> me.task, round |-> me.round, current |-> remote])
               /\ UNCHANGED <<wish, forwarded>>
    /\ UNCHANGED <<local, handoff, hostTaskVars, late, used, losses, meddled>>

\* An earlier transfer is finished first; then the edits made meanwhile follow.
ReplaceJournal(c) ==
    /\ caller[c].pc = "replace"
    /\ used < MaxTransfer /\ used' = used + 1
    /\ handoff' = NewTransfer(caller[c].task, caller[c].current)
    /\ IF caller[c].round = 2 THEN Fails(c)
       ELSE /\ Goes(c, [pc |-> "transfer", task |-> caller[c].task, transfer |-> handoff',
                        round |-> 2])
            /\ UNCHANGED <<wish, forwarded>>
    /\ UNCHANGED <<local, hostTaskVars, late, losses, meddled>>

\* The copy becomes the task of the Mac.  The journal may stay behind.
CommitCopy(c) ==
    /\ caller[c].pc = "commit"
    /\ IF local # caller[c].task THEN Fails(c) /\ UNCHANGED <<local, handoff>>
       ELSE LET current == caller[c].current IN
            /\ local' = [pending |-> FALSE, content |-> current.content, rev |-> current.rev]
            /\ handoff' \in {Null, handoff}
            /\ Goes(c, [pc |-> "save", rev |-> current.rev])
            /\ UNCHANGED <<wish, forwarded>>
    /\ UNCHANGED <<hostTaskVars, late, used, losses, meddled>>

-----------------------------------------------------------------------------
\* The revision a request is forwarded with is kept before it is sent.
SaveAction(c) ==
    /\ caller[c].pc = "save"
    /\ forwarded' = [forwarded EXCEPT ![c] = IF caller[c].rev = wish[c].rev THEN @
                                            ELSE caller[c].rev]
    /\ Goes(c, [pc |-> "send", rev |-> caller[c].rev])
    /\ UNCHANGED <<local, handoff, wish, hostTaskVars, late, used, losses, meddled>>

\* Mutant: the host does not compare revisions.
StartableAny(c, rev) == applied[c] = <<>> /\ remote # Null /\ ~remote.active

\* Start on the host; a request that was served is replayed by its id.
Startable(c, rev) == applied[c] = <<>> /\ remote # Null /\ ~remote.active /\ remote.rev = rev

StartOnHost(c, rev) ==
    IF Startable(c, rev)
    THEN /\ applied' = [applied EXCEPT ![c] = Append(@, remote.content)]
         /\ remote' = [remote EXCEPT !.active = TRUE, !.rev = @ + 1]
    ELSE UNCHANGED <<applied, remote>>

ForwardStart(c) ==
    /\ caller[c].pc = "send"
    /\ StartOnHost(c, caller[c].rev)
    /\ IF applied'[c] = <<>> THEN Fails(c)
       ELSE Goes(c, IdleCaller) /\ UNCHANGED <<wish, forwarded>>
    /\ local' = IF applied'[c] # <<>> /\ ~local.pending /\ remote' # Null /\ local.rev <= remote'.rev
                THEN [pending |-> FALSE, content |-> remote'.content, rev |-> remote'.rev]
                ELSE local
    /\ UNCHANGED <<handoff, receipts, late, used, losses, meddled>>

-----------------------------------------------------------------------------
\* A request is given up: it did not reach the host, or it will, or its answer is lost.
InFlight(c) ==
    IF caller[c].pc = "transfer" THEN {[kind |-> "transfer", transfer |-> caller[c].transfer]}
    ELSE IF caller[c].pc = "send" THEN {[kind |-> "start", by |-> c, rev |-> caller[c].rev]}
    ELSE {}

GiveUp(c) ==
    /\ caller[c].pc \in {"look", "get", "transfer", "verify", "send"}
    /\ losses < MaxLoss /\ losses' = losses + 1
    /\ late' = late \cup InFlight(c)
    /\ Goes(c, IdleCaller)
    /\ UNCHANGED <<macVars, hostTaskVars, used, meddled>>

Arrive(m) ==
    /\ m \in late
    /\ late' = late \ {m}
    /\ IF m.kind = "transfer" THEN Materialize(m.transfer) /\ UNCHANGED applied
       ELSE StartOnHost(m.by, m.rev) /\ UNCHANGED receipts
    /\ UNCHANGED <<macVars, caller, used, losses, meddled>>

\* The daemon of the Mac restarts: settings and tasks are in the store.
MacCrashes ==
    /\ losses < MaxLoss /\ losses' = losses + 1
    /\ late' = late \cup UNION {InFlight(c) : c \in Callers}
    /\ caller' = [c \in Callers |-> IdleCaller]
    /\ UNCHANGED <<macVars, hostTaskVars, used, meddled>>

\* The user edits the draft; a request for an earlier revision is not repeated.
MacEdits(content) ==
    /\ local.pending /\ local.rev < MaxRev /\ content # local.content
    /\ local' = [local EXCEPT !.content = content, !.rev = @ + 1]
    /\ UNCHANGED <<handoff, wish, forwarded, hostTaskVars, late, caller, used, losses, meddled>>

\* An event of the host: the projection follows the copy.
Mirror ==
    /\ ~local.pending /\ remote # Null /\ local.rev < remote.rev
    /\ local' = [pending |-> FALSE, content |-> remote.content, rev |-> remote.rev]
    /\ UNCHANGED <<handoff, wish, forwarded, hostTaskVars, late, caller, used, losses, meddled>>

\* Other clients of the host edit, touch, start or delete the copy.
HostChanges ==
    /\ remote # Null /\ remote.rev < MaxRev
    /\ ~remote.active
    /\ \/ /\ \/ \E content \in HostContents \cup {remote.content} :
                 remote' = [remote EXCEPT !.content = content, !.rev = @ + 1]
             \/ remote' = [remote EXCEPT !.active = TRUE, !.rev = @ + 1]
          /\ meddled' = IF meddled = "no" THEN "changed" ELSE meddled
       \/ remote' = Null /\ meddled' = "deleted"
    /\ UNCHANGED <<macVars, receipts, applied, late, caller, used, losses>>

-----------------------------------------------------------------------------
CallerStep(c) ==
    \/ Look(c) \/ ReadJournal(c) \/ GetCopy(c) \/ PersistJournal(c) \/ Transfer(c)
    \/ Verify(c) \/ ReplaceJournal(c) \/ CommitCopy(c) \/ SaveAction(c) \/ ForwardStart(c)

HandoffNext ==
    \/ \E c \in Callers : Submit(c) \/ CallerStep(c) \/ GiveUp(c)
    \/ \E m \in late : Arrive(m)
    \/ \E content \in MacContents : MacEdits(content)
    \/ MacCrashes \/ Mirror \/ HostChanges

\* The client repeats a request that was not answered, every step has a deadline.
HandoffFairness == \A c \in Callers : WF_handoffVars(Submit(c)) /\ WF_handoffVars(CallerStep(c))

HandoffSpec == HandoffInit /\ [][HandoffNext]_handoffVars /\ HandoffFairness

-----------------------------------------------------------------------------
\* No work is lost on the way.  A copy in use, or with a content that was written on the
\* host, keeps its content and stays in use until the host itself changes it, whatever
\* transfers are repeated or arrive late; and the copy that replaces the draft on the Mac
\* has the content the draft has at that moment, edits made during the transfer included
\* (materialize_board_task, prepare_remote_board_task).
KeepsWork ==
    /\ remote # Null /\ remote' # Null /\ (remote.active \/ remote.content \in HostContents) =>
         /\ remote'.content \in {remote.content} \cup HostContents
         /\ remote.active => remote'.active
    /\ local.pending /\ ~local'.pending => local'.content = local.content

WorkSurvives == [][KeepsWork]_handoffVars

\* A request starts at most once, however often it is repeated, and what it starts is the
\* content the user saw when making it, unless the copy was deleted on the host: then its
\* revisions start again, and the revision of a request says nothing (Task::check_revision,
\* restore_remote_board_action).
StartsApprovedOnce ==
    \A c \in Callers : applied[c] # <<>> /\ meddled # "deleted" =>
        wish[c] # Null /\ applied[c] = <<wish[c].content>>

\* As long as nobody else changes the copy, a request that is repeated until it is
\* answered starts the task, or fails because the user edited the draft or another
\* request was faster: a lost answer, a late request or a crash never blocks the handoff (new_board_handoff
\* replaces a journal that cannot succeed).
RequestSettles ==
    \A c \in Callers :
        wish[c] # Null ~> \/ \E d \in Callers : applied[d] # <<>>
                          \/ wish[c] = Null \/ meddled # "no"
                          \/ local.pending /\ local.rev # wish[c].rev
=============================================================================
