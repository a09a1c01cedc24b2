----------------------------- MODULE EventStream -----------------------------
(***************************************************************************)
(* The event stream of a daemon, as a second daemon reads it over SSH:     *)
(* sequenced broadcasts with a bounded replay buffer, a subscriber with a  *)
(* bounded channel, and resumption from a cursor                           *)
(* (crates/ditchd/src/runtime_shared.rs).                                  *)
(*                                                                         *)
(* What the daemon publishes is one task with its revision, one agent and  *)
(* "other", which stands for everything that subscribers learn from        *)
(* snapshots only (attention, deleted agents).  Versions stand for         *)
(* contents.  A change and its broadcast are one critical section.         *)
(* Heartbeats carry no information and are left out.                       *)
(***************************************************************************)
EXTENDS Naturals, Sequences, FiniteSets

CONSTANTS
    MaxEpoch,     \* bound: daemon instances
    MaxSequence,  \* bound: events of one instance
    ReplayLimit,  \* entries of event_replay (2048 in the code)
    ChannelLimit, \* entries of the subscriber's sync_channel (2048 in the code)
    None

ASSUME StreamAssumption ==
    /\ MaxEpoch \in Nat /\ MaxSequence \in Nat /\ None \notin Nat \cup (Nat \X Nat)
    /\ ReplayLimit \in Nat \ {0} /\ ChannelLimit \in Nat \ {0}

VARIABLES
    epoch,     \* instance_id
    sequence,  \* next_sequence - 1
    view,      \* what the daemon knows: versions of the task, the agent and the rest
    replay,    \* event_replay
    attached,  \* the channel of the subscriber is in "subscribers"
    initial,   \* lines computed by subscribe_since and not yet read
    channel    \* lines broadcast since and not yet read

daemonVars == <<epoch, sequence, view, replay>>
wireVars   == <<attached, initial, channel>>

\* Version 0 is a task or an agent that does not exist; a deleted task does not return.
Views == [task : Nat, deleted : BOOLEAN, agent : Nat, other : Nat]

NewView == [task |-> 0, deleted |-> FALSE, agent |-> 0, other |-> 0]

EventKinds == {"TaskChanged", "TaskDeleted", "AgentChanged", "Other"}

\* A line of the stream; a SnapshotReplaced line carries the view it replaces.
Line(kind, e, s, v) == [kind |-> kind, epoch |-> e, sequence |-> s, view |-> v]

\* The view after an event of this kind.
Changed(v, kind) ==
    CASE kind = "TaskChanged"  -> [v EXCEPT !.task = @ + 1]
      [] kind = "TaskDeleted"  -> [v EXCEPT !.task = 0, !.deleted = TRUE]
      [] kind = "AgentChanged" -> [v EXCEPT !.agent = @ + 1]
      [] kind = "Other"        -> [v EXCEPT !.other = @ + 1]

MayChange(v, kind) ==
    CASE kind = "TaskChanged" -> ~v.deleted
      [] kind = "TaskDeleted" -> v.task > 0
      [] OTHER                -> TRUE

-----------------------------------------------------------------------------
\* try_send: a subscriber whose channel is full is dropped.
Offer(line) ==
    IF attached /\ Len(channel) < ChannelLimit
    THEN channel' = Append(channel, line) /\ UNCHANGED attached
    ELSE attached' = FALSE /\ UNCHANGED channel

\* broadcast: the line enters the replay buffer, whose oldest lines go when it holds
\* too many lines or bytes, and the channel.
Broadcast(kind) ==
    LET line == Line(kind, epoch, sequence + 1, Changed(view, kind))
        all  == Append(replay, line)
    IN  /\ sequence < MaxSequence
        /\ MayChange(view, kind)
        /\ view' = line.view
        /\ sequence' = sequence + 1
        /\ \E keep \in 0 .. Len(all) :
             /\ keep <= ReplayLimit
             /\ replay' = SubSeq(all, Len(all) - keep + 1, Len(all))
        /\ Offer(line)
        /\ UNCHANGED <<epoch, initial>>

\* Mutant: off by one at the first line of the buffer.
CanReplayPastFirst(cursor) ==
    /\ cursor # None
    /\ cursor[1] = epoch /\ cursor[2] <= sequence
    /\ IF replay = <<>> THEN cursor[2] = sequence ELSE cursor[2] + 2 >= Head(replay).sequence

\* The cursor <<epoch, sequence>> of a subscriber can be served from the buffer.
CanReplay(cursor) ==
    /\ cursor # None
    /\ cursor[1] = epoch /\ cursor[2] <= sequence
    /\ IF replay = <<>> THEN cursor[2] = sequence ELSE cursor[2] + 1 >= Head(replay).sequence

\* The lines after sequence number n, in the order of the buffer.
LinesAfter(n) ==
    LET kept   == {i \in 1 .. Len(replay) : replay[i].sequence > n}
        nth(k) == CHOOSE i \in kept : Cardinality({j \in kept : j <= i}) = k
    IN  [k \in 1 .. Cardinality(kept) |-> replay[nth(k)]]

\* subscribe_since: the missing lines or a snapshot, and the channel attached in the
\* same critical section.
SubscribeSince(cursor) ==
    /\ initial' = IF CanReplay(cursor) THEN LinesAfter(cursor[2])
                  ELSE <<Line("SnapshotReplaced", epoch, sequence, view)>>
    /\ channel' = <<>>
    /\ attached' = TRUE

\* The lines still to be read, oldest first.
Wire == initial \o channel

\* One line is read.
ReadLine ==
    /\ Wire # <<>>
    /\ IF initial # <<>> THEN initial' = Tail(initial) /\ UNCHANGED channel
                         ELSE channel' = Tail(channel) /\ UNCHANGED initial
    /\ UNCHANGED attached

\* The connection is gone and with it whatever was not read.
Hangup == attached' = FALSE /\ initial' = <<>> /\ channel' = <<>>

\* The daemon restarts: a new instance, nothing to replay, an agent interrupted or
\* not.  Lines on their way can still be read.
Restart ==
    /\ epoch < MaxEpoch
    /\ epoch' = epoch + 1
    /\ sequence' = 0
    /\ replay' = <<>>
    /\ attached' = FALSE
    /\ view' \in {view, Changed(view, "AgentChanged")}
    /\ view.agent = 0 => view' = view
    /\ UNCHANGED <<initial, channel>>

StreamInit ==
    /\ epoch = 1 /\ sequence = 0 /\ view = NewView /\ replay = <<>>
    /\ attached = FALSE /\ initial = <<>> /\ channel = <<>>

=============================================================================
