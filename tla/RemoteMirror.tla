---------------------------- MODULE RemoteMirror ----------------------------
(***************************************************************************)
(* The copy of a remote daemon's state that the local daemon keeps for one *)
(* SSH host.  It is written by the poller with snapshots, by the event     *)
(* stream, and by whoever forwarded a request, with its answer: that of a  *)
(* task request and that of a started or resumed session                   *)
(* (runtime_shared.rs, ssh_remote.rs, task_runtime.rs).                    *)
(*                                                                         *)
(* One action is one critical section of the local mutex or one exchange   *)
(* with the remote daemon.  The projects of the host stay registered, and  *)
(* the task is not remote_pending.                                         *)
(***************************************************************************)
EXTENDS EventStream

CONSTANT Kinds   \* the changes that the remote daemon makes by itself

ASSUME KindsAssumption == Kinds \subseteq EventKinds

VARIABLES
    stream,  \* thread of stream_events: "off", "opening", "on" or "cancelled"
    last,    \* event_cursors of the connection manager: where a stream resumes
    cur,     \* remote_event_cursors: <<epoch, sequence>> of the mirror
    known,   \* remote_epochs
    gen,     \* remote_task_generation
    mirror,  \* the copies of the task, the agent and the rest
    tracked, \* history: the agent as the poller or the stream wrote it last
    poll,    \* the poller's thread
    rpc      \* a request forwarded to the remote daemon, one at a time

mirrorVars == <<cur, known, gen, mirror, tracked>>
vars == <<daemonVars, wireVars, stream, last, mirrorVars, poll, rpc>>

IdlePoll == [pc |-> "idle", gen |-> 0, epoch |-> 0, sequence |-> 0, view |-> NewView]
IdleRpc  == [pc |-> "idle", kind |-> "none", version |-> 0]
\* The event by which a request of either kind shows on the stream.
RpcKinds == {"TaskChanged", "AgentChanged"}

Mirrored(v) == [task |-> v.task, agent |-> v.agent, other |-> v.other]

Later(m, n) == IF m >= n THEN m ELSE n

-----------------------------------------------------------------------------
\* Mutant: a snapshot as old as the last event is refused too.
CursorNotBefore(e, s) == cur # None /\ cur[1] = e /\ cur[2] >= s

\* The mirror has seen more of this epoch than the snapshot.
CursorAfter(e, s) == cur # None /\ cur[1] = e /\ cur[2] > s

\* reconcile_remote_snapshot_locked.  A task that the snapshot lacks is dropped, one
\* it has is replaced unless the copy is newer (update_remote_task).
Reconcile(e, s, v, g) ==
    IF CursorAfter(e, s)
    THEN UNCHANGED <<cur, known, mirror, tracked>>
    ELSE /\ cur' = <<e, s>>
         /\ known' = e
         /\ tracked' = v.agent
         /\ mirror' = [Mirrored(v) EXCEPT !.task =
                         IF gen # g THEN mirror.task
                         ELSE IF @ = 0 THEN 0 ELSE Later(mirror.task, @)]

-----------------------------------------------------------------------------
\* start_remote_reconciler: one turn of the poller, section by section.
PollBegin ==
    /\ poll.pc = "idle"
    /\ poll' = [IdlePoll EXCEPT !.pc = "status", !.gen = gen]
    /\ UNCHANGED <<daemonVars, wireVars, stream, last, mirrorVars, rpc>>

PollStatus ==
    /\ poll.pc = "status"
    /\ poll' = [poll EXCEPT !.pc = "snapshot", !.epoch = epoch]
    /\ UNCHANGED <<daemonVars, wireVars, stream, last, mirrorVars, rpc>>

\* The snapshot is discarded when the daemon restarted since the status.
PollSnapshot ==
    /\ poll.pc = "snapshot"
    /\ poll' = IF poll.epoch # epoch THEN IdlePoll
               ELSE [poll EXCEPT !.pc = "received", !.sequence = sequence, !.view = view]
    /\ UNCHANGED <<daemonVars, wireVars, stream, last, mirrorVars, rpc>>

\* A failed poll is a no-op.
PollFails ==
    /\ poll.pc \in {"status", "snapshot"}
    /\ poll' = IdlePoll
    /\ UNCHANGED <<daemonVars, wireVars, stream, last, mirrorVars, rpc>>

\* disconnect sets the flag of a stream that has one.
PollChecksEpoch ==
    LET restarted == known # None /\ known # poll.epoch IN
    /\ poll.pc = "received"
    /\ poll' = [poll EXCEPT !.pc = IF restarted THEN "restarted" ELSE "reconcile"]
    /\ stream' = IF restarted /\ stream = "on" THEN "cancelled" ELSE stream
    /\ UNCHANGED <<daemonVars, wireVars, last, mirrorVars, rpc>>

PollForgetsCursor ==
    /\ poll.pc = "restarted"
    /\ cur' = None
    /\ poll' = [poll EXCEPT !.pc = "reconcile"]
    /\ UNCHANGED <<daemonVars, wireVars, stream, last, known, gen, mirror, tracked, rpc>>

PollReconcile ==
    /\ poll.pc = "reconcile"
    /\ Reconcile(poll.epoch, poll.sequence, poll.view, poll.gen)
    /\ poll' = [IdlePoll EXCEPT !.pc = "subscribe"]
    /\ UNCHANGED <<daemonVars, wireVars, stream, last, gen, rpc>>

\* ensure_remote_event_subscription: at most one stream.
EnsureSubscription == stream' = IF stream = "off" THEN "opening" ELSE stream

PollSubscribes ==
    /\ poll.pc = "subscribe"
    /\ poll' = IdlePoll
    /\ EnsureSubscription
    /\ UNCHANGED <<daemonVars, wireVars, last, mirrorVars, rpc>>

-----------------------------------------------------------------------------
\* stream_events: the bridge is spawned and subscribes from the last cursor, or fails.
StreamOpens ==
    /\ stream = "opening"
    /\ stream' = "on"
    /\ SubscribeSince(last)
    /\ UNCHANGED <<daemonVars, last, mirrorVars, poll, rpc>>

\* Mutant: the cursor of the mirror is not asked.
AcceptedByEpoch(line) == known = None \/ known = line.epoch

\* The first checks of the callback of ensure_remote_event_subscription.
Accepted(line) ==
    /\ known = None \/ known = line.epoch
    /\ ~(cur # None /\ cur[1] = line.epoch /\ cur[2] >= line.sequence)

\* forward_remote_event_locked.
Forward(line) ==
    /\ mirror' = CASE line.kind = "TaskChanged"  -> [mirror EXCEPT !.task = Later(@, line.view.task)]
                   [] line.kind = "TaskDeleted"  -> [mirror EXCEPT !.task = 0]
                   [] line.kind = "AgentChanged" -> [mirror EXCEPT !.agent = line.view.agent]
                   [] line.kind = "Other"        -> mirror
    /\ tracked' = IF line.kind = "AgentChanged" THEN line.view.agent ELSE tracked
    /\ gen' = IF line.kind \in {"TaskChanged", "TaskDeleted"} THEN gen + 1 ELSE gen
    /\ cur' = <<line.epoch, line.sequence>>
    /\ UNCHANGED known

OnEvent(line) ==
    IF ~Accepted(line) THEN UNCHANGED mirrorVars
    ELSE IF line.kind = "SnapshotReplaced"
         THEN Reconcile(line.epoch, line.sequence, line.view, gen) /\ UNCHANGED gen
         ELSE Forward(line)

\* The line does not follow the last one.
Gap(line) ==
    line.kind # "SnapshotReplaced" /\ last # None /\ <<line.epoch, line.sequence>> # <<last[1], last[2] + 1>>

\* A line is read and applied; the manager's cursor moves also when the callback
\* ignored it.  A gap ends the stream and forgets the cursor.  A cancelled stream
\* finishes the line it has in hand and ends.
Deliver ==
    LET line == Head(Wire) IN
    /\ stream \in {"on", "cancelled"} /\ Wire # <<>>
    /\ IF Gap(line) THEN last' = None /\ UNCHANGED mirrorVars
                    ELSE last' = <<line.epoch, line.sequence>> /\ OnEvent(line)
    /\ IF Gap(line) \/ stream = "cancelled" THEN stream' = "off" /\ Hangup
                                            ELSE ReadLine /\ UNCHANGED stream
    /\ UNCHANGED <<daemonVars, poll, rpc>>

\* The bridge fails to open, is cancelled, or the connection ends.
StreamEnds ==
    /\ stream # "off"
    /\ stream' = "off"
    /\ Hangup
    /\ UNCHANGED <<daemonVars, last, mirrorVars, poll, rpc>>

-----------------------------------------------------------------------------
\* handle_task_request, forward_remote_start and forward_remote_resume for a project of
\* the host: subscribe, ask, apply the answer.
RpcBegin ==
    /\ rpc.pc = "idle"
    /\ \E kind \in RpcKinds : rpc' = [rpc EXCEPT !.pc = "sent", !.kind = kind]
    /\ EnsureSubscription
    /\ UNCHANGED <<daemonVars, wireVars, last, mirrorVars, poll>>

\* A started or resumed session is an agent of its own, so the answer has its first version.
RpcServed ==
    /\ rpc.pc = "sent"
    /\ rpc.kind = "AgentChanged" => view.agent = 0
    /\ Broadcast(rpc.kind)
    /\ rpc' = [rpc EXCEPT !.pc = "answered",
                 !.version = IF rpc.kind = "TaskChanged" THEN view'.task ELSE view'.agent]
    /\ UNCHANGED <<stream, last, mirrorVars, poll>>

\* update_remote_task keeps a newer task, cache_remote_agent asks nothing; neither the
\* generation nor the cursor changes.
RpcAnswer ==
    /\ rpc.pc = "answered"
    /\ mirror' = IF rpc.kind = "TaskChanged" THEN [mirror EXCEPT !.task = Later(@, rpc.version)]
                                             ELSE [mirror EXCEPT !.agent = rpc.version]
    /\ rpc' = IdleRpc
    /\ UNCHANGED <<daemonVars, wireVars, stream, last, cur, known, gen, tracked, poll>>

\* The request or its answer is lost.
RpcFails ==
    /\ rpc.pc # "idle"
    /\ rpc' = IdleRpc
    /\ UNCHANGED <<daemonVars, wireVars, stream, last, mirrorVars, poll>>

-----------------------------------------------------------------------------
\* The remote daemon, with everything of the local one left alone.
RemoteStep ==
    /\ Restart \/ \E kind \in Kinds : Broadcast(kind)
    /\ UNCHANGED <<stream, last, mirrorVars, poll, rpc>>

PollStep == PollBegin \/ PollStatus \/ PollSnapshot \/ PollFails \/ PollChecksEpoch
            \/ PollForgetsCursor \/ PollReconcile \/ PollSubscribes

Next == \/ RemoteStep \/ PollStep
        \/ StreamOpens \/ Deliver \/ StreamEnds
        \/ RpcBegin \/ RpcServed \/ RpcAnswer \/ RpcFails

Init ==
    /\ StreamInit
    /\ stream = "off" /\ last = None /\ cur = None /\ known = None /\ gen = 0
    /\ mirror = Mirrored(NewView) /\ tracked = 0
    /\ poll = IdlePoll /\ rpc = IdleRpc

Spec == Init /\ [][Next]_vars

\* The poller's thread keeps running and the host answers again and again; nothing
\* is assumed of the stream.
PollFairness ==
    /\ WF_vars(PollBegin \/ PollChecksEpoch \/ PollForgetsCursor \/ PollReconcile \/ PollSubscribes)
    /\ SF_vars(PollStatus) /\ SF_vars(PollSnapshot)

FairSpec == Spec /\ PollFairness

-----------------------------------------------------------------------------
\* No event is lost on the way: what a stream resumes with, from the replay buffer
\* and then from its channel, follows the cursor line by line, so the gap check
\* never fires (subscribe_since, broadcast, stream_events).
StreamContiguous ==
    stream \in {"on", "cancelled"} =>
      /\ Wire # <<>> => ~Gap(Head(Wire))
      /\ \A i \in 1 .. Len(Wire) - 1 :
           /\ Wire[i + 1].epoch = Wire[i].epoch
           /\ Wire[i + 1].sequence = Wire[i].sequence + 1

\* Within an epoch neither the cursor nor the agent that the poller and the stream write
\* goes back, in whatever order snapshots and lines arrive ("Never roll its state back",
\* ensure_remote_event_subscription).  Nothing of the kind holds for answers:
\* cache_remote_agent writes the agent it was sent, and a later one is on show again only
\* with the next event or poll.
NeverRolledBack ==
    [][cur # None /\ cur' # None /\ cur[1] = cur'[1] => cur'[2] >= cur[2] /\ tracked' >= tracked]_vars

\* Once the remote daemon is quiet the mirror is what the daemon has, whatever was
\* lost, refused or applied out of order before (start_remote_reconciler).
MirrorConverges == <>[](mirror = Mirrored(view))

\* A poll that took its snapshot earlier does not take away a task that exists, nor
\* bring back an older one ("snapshot generations prevent an older poll from
\* replacing newer remote task state", docs/TASK_BOARD.md).
OlderPollKeepsTask ==
    [][PollReconcile /\ view.task > 0 => mirror'.task >= mirror.task]_vars

=============================================================================
