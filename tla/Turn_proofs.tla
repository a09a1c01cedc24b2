----------------------------- MODULE Turn_proofs -----------------------------
(***************************************************************************)
(* Proofs about the turns of an agent, for every set of requests and       *)
(* answers and every number of runs, stops and waiting events.             *)
(***************************************************************************)
EXTENDS AgentTurn, SequenceTheorems, TLAPS

Approvals == {"ApprovalRequested", "PermissionResolved"}
Events == [kind : {"Failed", "TurnStarted", "OutputClosed"}]
          \cup [kind : {"TurnCompleted"}, status : {"over", "failed"}]
          \cup [kind : Approvals, request : Requests]
Watchers == {"none", "live", "failing", "completing", "disconnecting", "terminal", "done"}
RunRecords == [proc : {"none", "live", "exited"},
               reader : {"none", "thread", "turn", "open", "ended"},
               watcher : Watchers,
               events : Seq(Events)]
Statuses == {"none", "waiting", "reserved", "gone"}
Entries == [run : Runs \cup {NoRun}, status : Statuses, answer : Answers \cup {"none"}]

ResponderType ==
    \/ responder = IdleThread
    \/ responder \in [pc : {"write", "mark"}, request : Requests, answer : Answers,
                      run : Runs \cup {NoRun}]

\* The types of the variables.
TurnTypeOK ==
    /\ agent \in AgentStates
    /\ child \in Runs \cup {NoRun} /\ control \in Runs \cup {NoRun}
    /\ shown \in [Requests -> {"no", "open", "sent"}]
    /\ run \in [Runs -> RunRecords]
    /\ entry \in [Requests -> Entries]
    /\ written \in [Requests -> Nat]
    /\ ResponderType
    /\ stopper \in [pc : {"idle", "signal", "finalize"}, run : Runs \cup {NoRun}, stops : Nat]

\* An event about a request names a request the run made.
EventOf(en, r, e) == e.kind \in Approvals => e.request \in Requests /\ en[e.request].run = r

EventsOfRun == \A r \in Runs : \A i \in 1..Len(run[r].events) : EventOf(entry, r, run[r].events[i])

\* A request has a run from the moment it is made; an answer is written only as it leaves
\* the state in which it waits.
EntriesSettle ==
    \A q \in Requests : /\ entry[q].status = "none" => entry[q].run = NoRun
                        /\ entry[q].status \in {"none", "waiting"} => written[q] = 0
                        /\ written[q] <= 1

\* Between the two sections in which a failure is handled the agent has failed, or is
\* being stopped.
FailureIsMarked ==
    child # NoRun /\ run[child].watcher = "failing" => agent \in {"Failed", "Stopping"}

TurnInv == TurnTypeOK /\ EventsOfRun /\ EntriesSettle /\ FailureIsMarked /\ RequestsAnswerable

-----------------------------------------------------------------------------
\* A request keeps the run it was made by.
EntriesKeep == \A q \in Requests : entry[q].run # NoRun => entry'[q].run = entry[q].run

\* The events t of run r, after the step, were there before or belong to the run.
QueueGrows(r, t) ==
    /\ t \in Seq(Events)
    /\ \A i \in 1..Len(t) : \/ \E j \in 1..Len(run[r].events) : t[i] = run[r].events[j]
                            \/ EventOf(entry', r, t[i])

\* Of the runs, only r changes.
RunMoves(r) ==
    /\ run' \in [Runs -> RunRecords]
    /\ \A s \in Runs \ {r} : run'[s] = run[s]
    /\ QueueGrows(r, run'[r].events)

\* A run is numbered from 1.
LEMMA NoRunIsNone == NoRun \notin Runs
  BY TurnBoundsAssumption DEF NoRun, Runs

\* The parts of a run, and what is left of it when one of them changes.
LEMMA RunParts ==
    ASSUME TurnTypeOK, NEW r \in Runs
    PROVE  /\ run[r] \in RunRecords /\ run[r].events \in Seq(Events)
           /\ DOMAIN run = Runs
  BY DEF TurnTypeOK, RunRecords

\* The events of a run, all but the first of them, and none.
LEMMA QueueStays ==
    ASSUME TurnTypeOK, NEW r \in Runs
    PROVE  /\ QueueGrows(r, run[r].events) /\ QueueGrows(r, <<>>)
           /\ run[r].events # <<>> => QueueGrows(r, Tail(run[r].events))
           /\ run[r].events # <<>> => 1 \in 1..Len(run[r].events)
                                      /\ Head(run[r].events) = run[r].events[1]
  <1> DEFINE s == run[r].events
  <1>1. s \in Seq(Events)
    BY RunParts
  <1> HIDE DEF s
  <1>2. Len(s) \in Nat /\ <<>> \in Seq(Events) /\ Len(<<>>) = 0
    BY <1>1, LenProperties, EmptySeq
  <1>3. QueueGrows(r, s) /\ QueueGrows(r, <<>>)
    BY <1>1, <1>2 DEF QueueGrows, s
  <1>4. ASSUME s # <<>> PROVE QueueGrows(r, Tail(s)) /\ 1 \in 1..Len(s) /\ Head(s) = s[1]
    <2>1. Len(s) \in Nat \ {0}
      BY <1>1, <1>4, EmptySeq
    <2>2. /\ Tail(s) \in Seq(Events) /\ Len(Tail(s)) = Len(s) - 1
          /\ \A i \in 1..Len(Tail(s)) : Tail(s)[i] = s[i + 1]
      BY <1>1, <1>4, HeadTailProperties
    <2>3. \A i \in 1..Len(Tail(s)) : i + 1 \in 1..Len(s)
      BY <2>1, <2>2
    <2>4. QueueGrows(r, Tail(s))
      BY <2>2, <2>3 DEF QueueGrows, s
    <2> QED BY <1>1, <2>1, <2>4
  <1> QED BY <1>3, <1>4 DEF s

\* An event of the run is appended.
LEMMA QueueAppends ==
    ASSUME NEW r \in Runs, NEW t, QueueGrows(r, t), NEW e \in Events, EventOf(entry', r, e)
    PROVE  QueueGrows(r, t \o <<e>>)
  <1>1. t \in Seq(Events) /\ <<e>> \in Seq(Events) /\ Len(<<e>>) = 1 /\ <<e>>[1] = e
    BY DEF QueueGrows
  <1>2. /\ t \o <<e>> \in Seq(Events) /\ Len(t \o <<e>>) = Len(t) + 1 /\ Len(t) \in Nat
        /\ \A i \in 1..(Len(t) + 1) :
             (t \o <<e>>)[i] = IF i <= Len(t) THEN t[i] ELSE <<e>>[i - Len(t)]
    BY <1>1, ConcatProperties, LenProperties
  <1>3. \A i \in 1..(Len(t) + 1) : i \in 1..Len(t) \/ i = Len(t) + 1
    BY <1>2
  <1>4. (t \o <<e>>)[Len(t) + 1] = e /\ \A i \in 1..Len(t) : (t \o <<e>>)[i] = t[i]
    BY <1>1, <1>2
  <1> QED BY <1>2, <1>3, <1>4 DEF QueueGrows

\* The events a step may send, by their kind.
LEMMA EventShapes ==
    /\ \A k \in {"Failed", "TurnStarted", "OutputClosed"} :
         /\ [kind |-> k] \in Events
         /\ \A r \in Runs : EventOf(entry', r, [kind |-> k])
    /\ \A status \in {"over", "failed"} :
         /\ [kind |-> "TurnCompleted", status |-> status] \in Events
         /\ \A r \in Runs : EventOf(entry', r, [kind |-> "TurnCompleted", status |-> status])
    /\ \A k \in Approvals, q \in Requests :
         /\ [kind |-> k, request |-> q] \in Events
         /\ \A r \in Runs : entry'[q].run = r => EventOf(entry', r, [kind |-> k, request |-> q])
  BY DEF Events, Approvals, EventOf

\* A run is replaced by a record with events of its own.
LEMMA RunUpdate ==
    ASSUME TurnTypeOK, NEW r \in Runs, NEW rec \in RunRecords, QueueGrows(r, rec.events),
           run' = [run EXCEPT ![r] = rec]
    PROVE  RunMoves(r) /\ run'[r] = rec
  BY DEF TurnTypeOK, RunMoves

\* The watcher takes an event, or goes on without one.
LEMMA ConsumeMoves ==
    ASSUME TurnTypeOK, NEW r \in Runs, NEW watcher \in Watchers,
           \/ run[r].events # <<>> /\ run' = Consume(r, watcher)
           \/ run' = [run EXCEPT ![r].watcher = watcher]
    PROVE  RunMoves(r) /\ run'[r].watcher = watcher
  <1>1. run[r] \in RunRecords /\ DOMAIN run = Runs
    BY RunParts
  <1>2. CASE run[r].events # <<>> /\ run' = Consume(r, watcher)
    <2> DEFINE t == Tail(run[r].events)
               rec == [run[r] EXCEPT !.events = t, !.watcher = watcher]
    <2>1. QueueGrows(r, t)
      BY <1>2, QueueStays
    <2>2. t \in Seq(Events)
      BY <2>1 DEF QueueGrows
    <2>3. rec \in RunRecords /\ rec.events = t /\ rec.watcher = watcher
      BY <1>1, <2>2 DEF RunRecords, Watchers
    <2>4. run' = [run EXCEPT ![r] = rec]
      BY <1>1, <1>2 DEF Consume, RunRecords
    <2> HIDE DEF rec, t
    <2> QED BY <2>1, <2>3, <2>4, RunUpdate
  <1>3. CASE run' = [run EXCEPT ![r].watcher = watcher]
    <2> DEFINE rec == [run[r] EXCEPT !.watcher = watcher]
    <2>1. QueueGrows(r, run[r].events)
      BY QueueStays
    <2>2. rec \in RunRecords /\ rec.events = run[r].events /\ rec.watcher = watcher
      BY <1>1 DEF RunRecords, Watchers
    <2>3. run' = [run EXCEPT ![r] = rec]
      BY <1>1, <1>3
    <2> HIDE DEF rec
    <2> QED BY <2>1, <2>2, <2>3, RunUpdate
  <1> QED BY <1>2, <1>3

\* The reader sends an event of its run, goes on to its next phase, or does both.
LEMMA ReaderMoves ==
    ASSUME TurnTypeOK, NEW r \in Runs, NEW e \in Events, EventOf(entry', r, e),
           NEW reader \in {"turn", "open"},
           \/ run' = Send(r, <<e>>)
           \/ run' = [run EXCEPT ![r].reader = reader]
           \/ run' = [Send(r, <<e>>) EXCEPT ![r].reader = reader]
           \/ run' = [run EXCEPT ![r].proc = "exited"]
    PROVE  RunMoves(r) /\ run'[r].watcher = run[r].watcher
  <1>1. run[r] \in RunRecords /\ DOMAIN run = Runs /\ run[r].events \in Seq(Events)
    BY RunParts
  <1> DEFINE t == run[r].events \o <<e>>
  <1>2. QueueGrows(r, run[r].events) /\ QueueGrows(r, t)
    BY QueueStays, QueueAppends
  <1>3. t \in Seq(Events)
    BY <1>2 DEF QueueGrows
  <1> DEFINE rec1 == [run[r] EXCEPT !.events = t]
             rec2 == [run[r] EXCEPT !.reader = reader]
             rec3 == [run[r] EXCEPT !.reader = reader, !.events = t]
             rec4 == [run[r] EXCEPT !.proc = "exited"]
  <1>4. /\ rec1 \in RunRecords /\ rec1.events = t /\ rec1.watcher = run[r].watcher
        /\ rec2 \in RunRecords /\ rec2.events = run[r].events /\ rec2.watcher = run[r].watcher
        /\ rec3 \in RunRecords /\ rec3.events = t /\ rec3.watcher = run[r].watcher
        /\ rec4 \in RunRecords /\ rec4.events = run[r].events /\ rec4.watcher = run[r].watcher
    BY <1>1, <1>3 DEF RunRecords
  <1>5. \/ run' = [run EXCEPT ![r] = rec1]
        \/ run' = [run EXCEPT ![r] = rec2]
        \/ run' = [run EXCEPT ![r] = rec3]
        \/ run' = [run EXCEPT ![r] = rec4]
    <2>1. CASE run' = Send(r, <<e>>)
      BY <1>1, <2>1 DEF Send
    <2>2. CASE run' = [run EXCEPT ![r].reader = reader]
      BY <1>1, <2>2
    <2>3. CASE run' = [Send(r, <<e>>) EXCEPT ![r].reader = reader]
      BY <1>1, <2>3 DEF Send, RunRecords
    <2>4. CASE run' = [run EXCEPT ![r].proc = "exited"]
      BY <1>1, <2>4
    <2> QED BY <2>1, <2>2, <2>3, <2>4
  <1> HIDE DEF rec1, rec2, rec3, rec4, t
  <1> QED BY <1>2, <1>4, <1>5, RunUpdate

\* The reader leaves its loop.
LEMMA EndMoves ==
    ASSUME TurnTypeOK, NEW r \in Runs,
           EndReading(r, <<>>) \/ EndReading(r, <<[kind |-> "Failed"]>>)
    PROVE  RunMoves(r) /\ run'[r].watcher = run[r].watcher
  <1>1. run[r] \in RunRecords /\ DOMAIN run = Runs /\ run[r].events \in Seq(Events)
    BY RunParts
  <1> DEFINE closed == [kind |-> "OutputClosed"]
             failed == [kind |-> "Failed"]
  <1>2. /\ closed \in Events /\ EventOf(entry', r, closed)
        /\ failed \in Events /\ EventOf(entry', r, failed)
    BY EventShapes
  <1> HIDE DEF closed, failed
  <1>3. PICK s : /\ QueueGrows(r, s)
                 /\ run' = [run EXCEPT ![r].reader = "ended", ![r].events = s \o <<closed>>]
    <2>1. QueueGrows(r, run[r].events)
      BY QueueStays
    <2>2. QueueGrows(r, run[r].events \o <<failed>>)
      BY <1>2, <2>1, QueueAppends
    <2>3. run[r].events \o <<>> = run[r].events
      BY <1>1, ConcatEmptySeq
    <2>4. CASE EndReading(r, <<>>)
      BY <1>1, <2>1, <2>3, <2>4 DEF EndReading, closed, RunRecords
    <2>5. CASE EndReading(r, <<[kind |-> "Failed"]>>)
      BY <1>1, <2>2, <2>5 DEF EndReading, closed, failed, RunRecords
    <2> QED BY <2>4, <2>5
  <1> DEFINE t == s \o <<closed>>
             rec == [run[r] EXCEPT !.reader = "ended", !.events = t]
  <1>4. QueueGrows(r, t)
    BY <1>2, <1>3, QueueAppends
  <1>5. t \in Seq(Events)
    BY <1>4 DEF QueueGrows
  <1>6. rec \in RunRecords /\ rec.events = t /\ rec.watcher = run[r].watcher
    BY <1>1, <1>5 DEF RunRecords
  <1>7. run' = [run EXCEPT ![r] = rec]
    BY <1>1, <1>3 DEF RunRecords
  <1> HIDE DEF rec, t
  <1> QED BY <1>4, <1>6, <1>7, RunUpdate

-----------------------------------------------------------------------------
\* What the process and the reader do: only the run and the requests it makes change.
LineStep(r) ==
    /\ RunMoves(r) /\ run'[r].watcher = run[r].watcher
    /\ UNCHANGED <<agent, child, control, shown, written, clientVars>>
    /\ \/ entry' = entry
       \/ \E q \in Requests :
            /\ entry[q].status = "none"
            /\ entry' = [entry EXCEPT ![q] = [run |-> r, status |-> "waiting",
                                              answer |-> "none"]]
       \/ \E q \in Requests :
            entry' = [entry EXCEPT ![q].status = "gone", ![q].answer = "none"]

LEMMA LineSteps ==
    ASSUME TurnTypeOK, NEW r \in Runs, Lines(r) \/ ReaderSteps(r)
    PROVE  LineStep(r)
  <1>1. \A k \in {"Failed", "TurnStarted"} : [kind |-> k] \in Events /\ EventOf(entry', r, [kind |-> k])
    BY EventShapes
  <1>2. ASSUME NEW e \in Events, EventOf(entry', r, e), NEW reader \in {"turn", "open"},
               \/ run' = Send(r, <<e>>)
               \/ run' = [run EXCEPT ![r].reader = reader]
               \/ run' = [Send(r, <<e>>) EXCEPT ![r].reader = reader]
               \/ run' = [run EXCEPT ![r].proc = "exited"],
               UNCHANGED <<agent, child, control, shown, entry, written, clientVars>>
        PROVE  LineStep(r)
    <2>1. RunMoves(r) /\ run'[r].watcher = run[r].watcher
      BY <1>2, ReaderMoves
    <2> QED BY <1>2, <2>1 DEF LineStep
  <1>3. CASE ThreadReply(r)
    BY <1>1, <1>2, <1>3 DEF ThreadReply
  <1>4. CASE TurnReply(r)
    BY <1>1, <1>2, <1>4 DEF TurnReply
  <1>5. CASE TurnStartedLine(r)
    BY <1>1, <1>2, <1>5 DEF TurnStartedLine, SendOnly
  <1>6. CASE TurnCompletedLine(r)
    <2>1. PICK status \in {"over", "failed"} :
            run' = Send(r, <<[kind |-> "TurnCompleted", status |-> status]>>)
      BY <1>6 DEF TurnCompletedLine
    <2> DEFINE e == [kind |-> "TurnCompleted", status |-> status]
    <2>2. e \in Events /\ EventOf(entry', r, e)
      BY EventShapes
    <2>3. run' = Send(r, <<e>>)
      BY <2>1
    <2> HIDE DEF e
    <2> QED BY <1>2, <1>6, <2>2, <2>3 DEF TurnCompletedLine
  <1>7. CASE ErrorLine(r)
    BY <1>1, <1>2, <1>7 DEF ErrorLine, SendOnly
  <1>8. CASE ProcessExits(r)
    BY <1>1, <1>2, <1>8 DEF ProcessExits
  <1>9. ASSUME NEW q \in Requests, RequestLine(r, q) PROVE LineStep(r)
    <2> DEFINE e == [kind |-> "ApprovalRequested", request |-> q]
    <2>1. entry'[q].run = r
      BY <1>9 DEF RequestLine, TurnTypeOK
    <2>2. e \in Events /\ EventOf(entry', r, e)
      BY <2>1, EventShapes DEF Approvals
    <2>3. run' = Send(r, <<e>>)
      BY <1>9 DEF RequestLine
    <2> HIDE DEF e
    <2>4. RunMoves(r) /\ run'[r].watcher = run[r].watcher
      BY <2>2, <2>3, ReaderMoves
    <2> QED BY <1>9, <2>4 DEF RequestLine, LineStep
  <1>10. ASSUME NEW q \in Requests, ResolvedLine(r, q) PROVE LineStep(r)
    <2> DEFINE e == [kind |-> "PermissionResolved", request |-> q]
    <2>1. entry'[q].run = r
      BY <1>10 DEF ResolvedLine, TurnTypeOK, Entries
    <2>2. e \in Events /\ EventOf(entry', r, e)
      BY <2>1, EventShapes DEF Approvals
    <2>3. run' = Send(r, <<e>>)
      BY <1>10 DEF ResolvedLine
    <2> HIDE DEF e
    <2>4. RunMoves(r) /\ run'[r].watcher = run[r].watcher
      BY <2>2, <2>3, ReaderMoves
    <2> QED BY <1>10, <2>4 DEF ResolvedLine, LineStep
  <1>11. CASE ReaderSteps(r)
    <2>1. RunMoves(r) /\ run'[r].watcher = run[r].watcher
      BY <1>11, EndMoves DEF ReaderSteps, ReaderTimesOut, OutputEnds
    <2> QED BY <1>11, <2>1 DEF ReaderSteps, ReaderTimesOut, OutputEnds, LineStep
  <1> QED BY <1>3, <1>4, <1>5, <1>6, <1>7, <1>8, <1>9, <1>10, <1>11 DEF Lines

\* The events stay with their runs when one run changes and the requests keep theirs.
LEMMA EventsStay ==
    ASSUME TurnTypeOK, EventsOfRun, NEW r \in Runs, RunMoves(r), EntriesKeep
    PROVE  EventsOfRun'
  <1>1. ASSUME NEW s \in Runs, NEW e, EventOf(entry, s, e) PROVE EventOf(entry', s, e)
    BY <1>1, NoRunIsNone DEF EventOf, EntriesKeep
  <1>2. ASSUME NEW s \in Runs, NEW i \in 1..Len(run'[s].events)
        PROVE  EventOf(entry', s, run'[s].events[i])
    <2>1. CASE s # r
      <3>1. run'[s] = run[s]
        BY <2>1 DEF RunMoves
      <3>2. EventOf(entry, s, run[s].events[i])
        BY <1>2, <3>1 DEF EventsOfRun
      <3> QED BY <1>1, <3>1, <3>2
    <2>2. CASE s = r /\ \E j \in 1..Len(run[r].events) : run'[r].events[i] = run[r].events[j]
      <3>1. PICK j \in 1..Len(run[r].events) : run'[r].events[i] = run[r].events[j]
        BY <2>2
      <3>2. EventOf(entry, r, run[r].events[j])
        BY DEF EventsOfRun
      <3> QED BY <1>1, <2>2, <3>1, <3>2
    <2>3. CASE s = r /\ EventOf(entry', r, run'[r].events[i])
      BY <2>3
    <2> QED BY <1>2, <2>1, <2>2, <2>3 DEF RunMoves, QueueGrows
  <1> QED BY <1>2 DEF EventsOfRun

\* What is on show, and the marks of the agent and of its control.
ShownInv == FailureIsMarked /\ RequestsAnswerable

\* A step of the process or of the reader keeps the invariant.
LEMMA LineInv ==
    ASSUME TurnInv, NEW r \in Runs, LineStep(r)
    PROVE  TurnInv'
  <1> USE DEF TurnInv
  <1>1. EntriesKeep /\ entry' \in [Requests -> Entries] /\ EntriesSettle'
    <2>1. CASE entry' = entry
      BY <2>1 DEF LineStep, EntriesKeep, TurnTypeOK, EntriesSettle
    <2>2. ASSUME NEW q \in Requests, entry[q].status = "none",
                 entry' = [entry EXCEPT ![q] = [run |-> r, status |-> "waiting",
                                                answer |-> "none"]]
          PROVE  EntriesKeep /\ entry' \in [Requests -> Entries] /\ EntriesSettle'
      <3>1. /\ entry' \in [Requests -> Entries]
            /\ entry'[q].run = r /\ entry'[q].status = "waiting"
            /\ \A p \in Requests \ {q} : entry'[p] = entry[p]
        BY <2>2 DEF TurnTypeOK, Entries, Statuses
      <3>2. UNCHANGED written
        BY DEF LineStep
      <3> QED BY <2>2, <3>1, <3>2 DEF EntriesKeep, EntriesSettle
    <2>3. ASSUME NEW q \in Requests,
                 entry' = [entry EXCEPT ![q].status = "gone", ![q].answer = "none"]
          PROVE  EntriesKeep /\ entry' \in [Requests -> Entries] /\ EntriesSettle'
      <3>1. /\ entry' \in [Requests -> Entries]
            /\ entry'[q].run = entry[q].run /\ entry'[q].status = "gone"
            /\ \A p \in Requests \ {q} : entry'[p] = entry[p]
        BY <2>3 DEF TurnTypeOK, Entries, Statuses
      <3>2. UNCHANGED written
        BY DEF LineStep
      <3> QED BY <3>1, <3>2 DEF EntriesKeep, EntriesSettle
    <2> QED BY <2>1, <2>2, <2>3 DEF LineStep
  <1>2. TurnTypeOK'
    BY <1>1 DEF LineStep, RunMoves, TurnTypeOK, ResponderType, clientVars
  <1>3. EventsOfRun'
    BY <1>1, EventsStay DEF LineStep
  <1>4. \A s \in Runs : run'[s].watcher = run[s].watcher
    BY DEF LineStep, RunMoves
  <1>5. UNCHANGED <<agent, child, control, shown>>
    BY DEF LineStep
  <1>6. FailureIsMarked'
    BY <1>4, <1>5 DEF FailureIsMarked, TurnTypeOK
  <1>7. RequestsAnswerable'
    BY <1>1, <1>4, <1>5 DEF RequestsAnswerable, EntriesKeep, Waits, TurnTypeOK
  <1> QED BY <1>1, <1>2, <1>3, <1>6, <1>7

\* What the watcher of a run does: the requests and the clients are left alone.
WatchStep(r, watcher) ==
    /\ RunMoves(r) /\ run'[r].watcher = watcher
    /\ UNCHANGED <<entry, written, clientVars>>
    /\ agent' \in AgentStates /\ child' \in Runs \cup {NoRun} /\ control' \in Runs \cup {NoRun}
    /\ shown' \in [Requests -> {"no", "open", "sent"}]

\* A step of a watcher keeps the invariant when it keeps what is on show in order.
LEMMA WatchInv ==
    ASSUME TurnInv, NEW r \in Runs, NEW watcher \in Watchers, WatchStep(r, watcher), ShownInv'
    PROVE  TurnInv'
  <1> USE DEF TurnInv
  <1>1. EntriesKeep /\ EntriesSettle'
    BY DEF WatchStep, EntriesKeep, EntriesSettle
  <1>2. TurnTypeOK'
    BY DEF WatchStep, RunMoves, TurnTypeOK, ResponderType, clientVars
  <1>3. EventsOfRun'
    BY <1>1, EventsStay DEF WatchStep
  <1> QED BY <1>1, <1>2, <1>3 DEF ShownInv

\* The watcher of an old run changes nothing of the agent (is_current_run).
LEMMA OldWatcher ==
    ASSUME TurnInv, NEW r \in Runs, NEW watcher \in Watchers, RunMoves(r),
           run'[r].watcher = watcher,
           UNCHANGED <<agent, child, control, shown, entry, written, clientVars>>, child # r
    PROVE  TurnInv'
  <1>1. WatchStep(r, watcher)
    BY DEF WatchStep, TurnInv, TurnTypeOK
  <1>2. child # NoRun => run'[child] = run[child]
    BY DEF RunMoves, TurnInv, TurnTypeOK
  <1>3. ShownInv'
    BY <1>2 DEF ShownInv, FailureIsMarked, RequestsAnswerable, Waits, TurnInv
  <1> QED BY <1>1, <1>3, WatchInv

\* Each step of the watcher, of the run of the agent or of an old one, keeps the invariant.
LEMMA WatcherInv ==
    ASSUME TurnInv, NEW r \in Runs, WatcherSteps(r)
    PROVE  TurnInv'
  <1> USE DEF TurnInv
  <1>t. /\ agent \in AgentStates /\ child \in Runs \cup {NoRun} /\ control \in Runs \cup {NoRun}
        /\ shown \in [Requests -> {"no", "open", "sent"}] /\ NoRun \in Runs \cup {NoRun}
        /\ NoneShown \in [Requests -> {"no", "open", "sent"}] /\ r # NoRun
    BY NoRunIsNone DEF TurnTypeOK, NoneShown
  <1>w. \A k : Next1(r, k) => run[r].events # <<>> /\ run[r].watcher = "live"
    BY DEF Next1
  <1>c. ASSUME NEW watcher \in Watchers,
               \/ run[r].events # <<>> /\ run' = Consume(r, watcher)
               \/ run' = [run EXCEPT ![r].watcher = watcher]
        PROVE  RunMoves(r) /\ run'[r].watcher = watcher
    BY <1>c, ConsumeMoves
  <1>e. ASSUME run[r].events # <<>>, Head(run[r].events).kind \in Approvals
        PROVE  /\ Head(run[r].events).request \in Requests
               /\ entry[Head(run[r].events).request].run = r
    BY <1>e, QueueStays DEF EventsOfRun, EventOf
  <1>1. CASE HandleTurnStarted(r)
    <2>1. RunMoves(r) /\ run'[r].watcher = "live" /\ run[r].watcher = "live"
      BY <1>1, <1>w, <1>c DEF HandleTurnStarted, Watchers
    <2>2. CASE child # r
      BY <1>1, <2>1, <2>2, OldWatcher DEF HandleTurnStarted, IsCurrent, Watchers
    <2>3. CASE child = r
      <3>1. UNCHANGED <<child, control, shown, entry, written, clientVars>>
            /\ agent' \in {agent, "Working"}
        BY <1>1 DEF HandleTurnStarted
      <3>2. WatchStep(r, "live")
        BY <1>t, <2>1, <3>1 DEF WatchStep, AgentStates
      <3>3. ShownInv'
        BY <1>t, <2>1, <2>3, <3>1 DEF ShownInv, FailureIsMarked, RequestsAnswerable, Waits
      <3> QED BY <3>2, <3>3, WatchInv DEF Watchers
    <2> QED BY <2>2, <2>3
  <1>2. CASE HandleApprovalRequested(r)
    <2>1. CASE child # r
      <3>1. run[r].events # <<>> /\ run' = Consume(r, "terminal")
        BY <1>2, <1>w, <2>1 DEF HandleApprovalRequested, IsCurrent
      <3>2. RunMoves(r) /\ run'[r].watcher = "terminal"
        BY <3>1, <1>c DEF Watchers
      <3> QED BY <1>2, <2>1, <3>2, OldWatcher DEF HandleApprovalRequested, IsCurrent, Watchers
    <2>2. CASE child = r
      <3> DEFINE q == Head(run[r].events).request
      <3>1. run[r].events # <<>> /\ run' = Consume(r, "live") /\ run[r].watcher = "live"
        BY <1>2, <1>w, <2>2 DEF HandleApprovalRequested, IsCurrent
      <3>2. RunMoves(r) /\ run'[r].watcher = "live"
        BY <3>1, <1>c DEF Watchers
      <3>3. q \in Requests /\ entry[q].run = r
        BY <1>2, <1>e DEF HandleApprovalRequested, Next1, Approvals
      <3>4. /\ UNCHANGED <<child, control, entry, written, clientVars>>
            /\ agent' = "AwaitingApproval" /\ shown' = [shown EXCEPT ![q] = "open"]
        BY <1>2, <2>2 DEF HandleApprovalRequested, IsCurrent
      <3> HIDE DEF q
      <3>5. WatchStep(r, "live")
        BY <1>t, <3>2, <3>3, <3>4 DEF WatchStep, AgentStates
      <3>6. FailureIsMarked'
        BY <2>2, <3>2, <3>4 DEF FailureIsMarked
      <3>7. RequestsAnswerable'
        BY <1>t, <2>2, <3>1, <3>2, <3>3, <3>4 DEF RequestsAnswerable, Waits
      <3> QED BY <3>5, <3>6, <3>7, WatchInv DEF ShownInv, Watchers
    <2> QED BY <2>1, <2>2
  <1>3. CASE HandlePermissionResolved(r)
    <2>1. CASE child # r
      <3>1. run[r].events # <<>> /\ run' = Consume(r, "terminal")
        BY <1>3, <1>w, <2>1 DEF HandlePermissionResolved, IsCurrent
      <3>2. RunMoves(r) /\ run'[r].watcher = "terminal"
        BY <3>1, <1>c DEF Watchers
      <3> QED BY <1>3, <2>1, <3>2, OldWatcher DEF HandlePermissionResolved, IsCurrent, Watchers
    <2>2. CASE child = r
      <3> DEFINE q == Head(run[r].events).request
      <3>1. run[r].events # <<>> /\ run' = Consume(r, "live") /\ run[r].watcher = "live"
        BY <1>3, <1>w, <2>2 DEF HandlePermissionResolved, IsCurrent
      <3>2. RunMoves(r) /\ run'[r].watcher = "live"
        BY <3>1, <1>c DEF Watchers
      <3>3. /\ UNCHANGED <<child, control, entry, written, clientVars>>
            /\ shown' = [shown EXCEPT ![q] = "no"]
            /\ agent' = IF agent = "AwaitingApproval" /\ ~Waits(shown') THEN "Working" ELSE agent
        BY <1>3, <2>2 DEF HandlePermissionResolved, IsCurrent
      <3> HIDE DEF q
      <3>4. WatchStep(r, "live")
        BY <1>t, <3>2, <3>3 DEF WatchStep, AgentStates
      <3>5. FailureIsMarked'
        BY <2>2, <3>2, <3>3 DEF FailureIsMarked
      <3>6. RequestsAnswerable'
        <4>1. agent' = "AwaitingApproval" => Waits(shown')
          BY <3>3
        <4>2. \A p \in Requests : shown'[p] # "no" => shown[p] # "no"
          BY <1>t, <3>3
        <4>3. (agent = "AwaitingApproval" => Waits(shown))'
          BY <4>1 DEF Waits
        <4> QED BY <2>2, <3>1, <3>2, <3>3, <4>2, <4>3 DEF RequestsAnswerable
      <3> QED BY <3>4, <3>5, <3>6, WatchInv DEF ShownInv, Watchers
    <2> QED BY <2>1, <2>2
  <1>4. CASE HandleFailed(r)
    <2>1. PICK watcher \in {"failing", "completing"} : run' = Consume(r, watcher)
      BY <1>4 DEF HandleFailed
    <2>2. RunMoves(r) /\ run'[r].watcher = watcher
      BY <1>4, <1>w, <1>c, <2>1 DEF HandleFailed, Watchers
    <2>3. UNCHANGED <<child, control, shown, entry, written, clientVars>>
          /\ agent' = IF child = r /\ agent # "Stopping" THEN "Failed" ELSE agent
      BY <1>4 DEF HandleFailed, FailTurn, IsCurrent
    <2>4. CASE child # r
      BY <2>2, <2>3, <2>4, OldWatcher DEF Watchers
    <2>5. CASE child = r
      <3>1. WatchStep(r, watcher)
        BY <1>t, <2>2, <2>3 DEF WatchStep, AgentStates, FinishedStates
      <3>2. ShownInv'
        BY <1>t, <2>2, <2>3, <2>5 DEF ShownInv, FailureIsMarked, RequestsAnswerable, Waits
      <3> QED BY <3>1, <3>2, WatchInv DEF Watchers
    <2> QED BY <2>4, <2>5
  <1>x. ASSUME NEW state \in AgentStates, EndTurn(r, state), RunMoves(r),
               child = r => state # "AwaitingApproval",
               run'[r].watcher = "terminal", UNCHANGED <<child, entry, written, clientVars>>
        PROVE  TurnInv'
    <2>1. CASE child # r
      BY <1>x, <2>1, OldWatcher DEF EndTurn, IsCurrent, Watchers
    <2>2. CASE child = r
      <3>1. control' = NoRun /\ shown' = NoneShown /\ agent' = state
        BY <1>x, <2>2 DEF EndTurn, IsCurrent
      <3>2. WatchStep(r, "terminal")
        BY <1>t, <1>x, <3>1 DEF WatchStep
      <3>3. ShownInv'
        BY <1>t, <1>x, <2>2, <3>1 DEF ShownInv, FailureIsMarked, RequestsAnswerable, NoneShown
      <3> QED BY <3>2, <3>3, WatchInv DEF Watchers
    <2> QED BY <2>1, <2>2
  <1>5. CASE HandleFailedEnd(r)
    <2>1. RunMoves(r) /\ run'[r].watcher = "terminal"
      BY <1>5, <1>c DEF HandleFailedEnd, Watchers
    <2>2. child = r => agent # "AwaitingApproval"
      BY <1>5, <1>t DEF HandleFailedEnd, FailureIsMarked
    <2> QED BY <1>5, <1>t, <1>x, <2>1, <2>2 DEF HandleFailedEnd
  <1>6. CASE HandleTurnCompleted(r)
    <2>1. \/ run[r].events # <<>> /\ run' = Consume(r, "terminal")
          \/ run' = [run EXCEPT ![r].watcher = "terminal"]
      BY <1>6, <1>w DEF HandleTurnCompleted
    <2>2. RunMoves(r) /\ run'[r].watcher = "terminal"
      BY <1>c, <2>1 DEF Watchers
    <2>3. PICK state \in {"Completed", "Interrupted", "Failed"} : EndTurn(r, state)
      BY <1>6 DEF HandleTurnCompleted
    <2>4. state \in AgentStates /\ state # "AwaitingApproval"
      BY DEF AgentStates, FinishedStates
    <2> QED BY <1>6, <1>x, <2>2, <2>3, <2>4 DEF HandleTurnCompleted
  <1>7. CASE DropEvent(r)
    <2>1. RunMoves(r) /\ run'[r].watcher = "terminal" /\ run[r].watcher = "terminal"
      BY <1>7, <1>c DEF DropEvent, Watchers
    <2>2. WatchStep(r, "terminal")
      BY <1>7, <1>t, <2>1 DEF DropEvent, WatchStep
    <2>3. \A s \in Runs : run'[s].watcher = run[s].watcher
      BY <2>1 DEF RunMoves
    <2>4. ShownInv'
      BY <1>7, <1>t, <2>3 DEF DropEvent, ShownInv, FailureIsMarked, RequestsAnswerable, Waits
    <2> QED BY <2>2, <2>4, WatchInv DEF Watchers
  <1>8. CASE HandleOutputClosed(r)
    <2>1. /\ UNCHANGED <<child, control, shown, entry, written, clientVars>>
          /\ run[r].events # <<>>
          /\ \/ /\ run' = Consume(r, "disconnecting")
                /\ agent' = IF child = r /\ agent # "Stopping" THEN "Failed" ELSE agent
             \/ run' = Consume(r, "terminal") /\ agent' = agent
      BY <1>8 DEF HandleOutputClosed, FailTurn, IsCurrent
    <2>2. PICK watcher \in {"disconnecting", "terminal"} : run' = Consume(r, watcher)
      BY <2>1
    <2>3. RunMoves(r) /\ run'[r].watcher = watcher
      BY <1>c, <2>1, <2>2 DEF Watchers
    <2>4. CASE child # r
      BY <2>1, <2>3, <2>4, OldWatcher DEF Watchers
    <2>5. CASE child = r
      <3>1. WatchStep(r, watcher)
        BY <1>t, <2>1, <2>3 DEF WatchStep, AgentStates, FinishedStates
      <3>2. ShownInv'
        BY <1>t, <2>1, <2>3, <2>5 DEF ShownInv, FailureIsMarked, RequestsAnswerable, Waits
      <3> QED BY <3>1, <3>2, WatchInv DEF Watchers
    <2> QED BY <2>4, <2>5
  <1>9. CASE HandleDisconnected(r)
    <2>1. RunMoves(r) /\ run'[r].watcher = "terminal"
      BY <1>9, <1>c DEF HandleDisconnected, Watchers
    <2>2. CASE child # r
      BY <1>9, <2>1, <2>2, OldWatcher DEF HandleDisconnected, IsCurrent, Watchers
    <2>3. CASE child = r
      <3>1. UNCHANGED <<agent, child, shown, entry, written, clientVars>> /\ control' = NoRun
        BY <1>9, <2>3 DEF HandleDisconnected, IsCurrent
      <3>2. WatchStep(r, "terminal")
        BY <1>t, <2>1, <3>1 DEF WatchStep
      <3>3. ShownInv'
        BY <1>t, <2>1, <2>3, <3>1 DEF ShownInv, FailureIsMarked, RequestsAnswerable, Waits
      <3> QED BY <3>2, <3>3, WatchInv DEF Watchers
    <2> QED BY <2>2, <2>3
  <1> QED BY <1>1, <1>2, <1>3, <1>4, <1>5, <1>6, <1>7, <1>8, <1>9 DEF WatcherSteps

\* The end of a run by its watcher keeps the invariant (finish_agent).
LEMMA FinishInv ==
    ASSUME TurnInv, NEW r \in Runs, WatcherFinishes(r)
    PROVE  TurnInv'
  <1> USE DEF TurnInv
  <1>1. RunMoves(r) /\ run'[r] = OverRun
    <2>1. OverRun \in RunRecords /\ OverRun.events = <<>>
      BY EmptySeq DEF OverRun, RunRecords, Watchers
    <2>2. QueueGrows(r, <<>>)
      BY QueueStays
    <2> QED BY <2>1, <2>2, RunUpdate DEF WatcherFinishes
  <1>2. run'[r].watcher = "done"
    BY <1>1 DEF OverRun
  <1>3. CASE child # r
    BY <1>1, <1>2, <1>3, OldWatcher DEF WatcherFinishes, FinishAgent, IsCurrent, Watchers
  <1>4. CASE child = r
    <2>1. /\ child' = NoRun /\ control' = NoRun /\ shown' = NoneShown
          /\ UNCHANGED <<entry, written, clientVars>>
          /\ agent' \in {"Interrupted", "Completed", "Failed"}
      BY <1>4 DEF WatcherFinishes, FinishAgent, IsCurrent, FinishedStates
    <2>2. WatchStep(r, "done")
      BY <1>1, <1>2, <2>1 DEF WatchStep, NoneShown, AgentStates, FinishedStates
    <2>3. ShownInv'
      BY <2>1 DEF ShownInv, FailureIsMarked, RequestsAnswerable, NoneShown
    <2> QED BY <2>2, <2>3, WatchInv DEF Watchers
  <1> QED BY <1>3, <1>4

\* A new run keeps the invariant (prompt_app_server_agent).
LEMMA StartInv ==
    ASSUME TurnInv, NEW r \in Runs, StartTurn(r)
    PROVE  TurnInv'
  <1> USE DEF TurnInv
  <1> DEFINE rec == [NewRun EXCEPT !.proc = "live", !.reader = "thread", !.watcher = "live"]
  <1>1. rec \in RunRecords /\ rec.events = <<>> /\ rec.watcher = "live"
    BY EmptySeq DEF NewRun, RunRecords, Watchers
  <1>2. QueueGrows(r, <<>>)
    BY QueueStays
  <1>3. run' = [run EXCEPT ![r] = rec]
    BY DEF StartTurn
  <1> HIDE DEF rec
  <1>4. RunMoves(r) /\ run'[r].watcher = "live"
    BY <1>1, <1>2, <1>3, RunUpdate
  <1>5. /\ child = NoRun /\ child' = r /\ control' = r /\ agent' = "Working"
        /\ UNCHANGED <<shown, entry, written, clientVars>>
    BY DEF StartTurn
  <1>6. WatchStep(r, "live")
    BY <1>4, <1>5 DEF WatchStep, AgentStates, TurnTypeOK
  <1>7. ShownInv'
    BY <1>4, <1>5 DEF ShownInv, FailureIsMarked, RequestsAnswerable
  <1> QED BY <1>6, <1>7, WatchInv DEF Watchers

\* A step of a client that leaves the runs and the requests alone.
QuietClient ==
    /\ UNCHANGED <<child, control, shown, run, entry, written>>
    /\ agent' \in AgentStates
    /\ agent' \in {agent, "Failed", "Stopping", "Interrupted"}
    /\ agent' = "Interrupted" => child = NoRun \/ agent = "Interrupted"
    /\ ResponderType'
    /\ stopper' \in [pc : {"idle", "signal", "finalize"}, run : Runs \cup {NoRun}, stops : Nat]

LEMMA QuietClientInv == TurnInv /\ QuietClient => TurnInv'
  <1> SUFFICES ASSUME TurnInv, QuietClient PROVE TurnInv'
    OBVIOUS
  <1> USE DEF TurnInv, QuietClient
  <1>1. TurnTypeOK'
    BY DEF TurnTypeOK
  <1>2. EventsOfRun' /\ EntriesSettle'
    BY DEF EventsOfRun, EntriesSettle
  <1>3. FailureIsMarked'
    BY DEF FailureIsMarked
  <1>4. RequestsAnswerable'
    BY DEF RequestsAnswerable, Waits
  <1> QED BY <1>1, <1>2, <1>3, <1>4

\* The threads that stop the agent keep the invariant (stop_agent, force_kill_agent,
\* finalize_stopped_run).
LEMMA StopInv ==
    ASSUME TurnInv, StartFails \/ StopMarks \/ ForceKill \/ StopSteps
    PROVE  TurnInv'
  <1> USE DEF TurnInv
  <1> DEFINE Stoppers == [pc : {"idle", "signal", "finalize"}, run : Runs \cup {NoRun}, stops : Nat]
  <1>t. /\ stopper \in Stoppers /\ child \in Runs \cup {NoRun} /\ agent \in AgentStates
        /\ ResponderType /\ {"Failed", "Stopping", "Interrupted"} \subseteq AgentStates
    BY DEF TurnTypeOK, AgentStates, FinishedStates
  <1>s. /\ StopChild => stopper' \in Stoppers
        /\ StopReturns => stopper' \in Stoppers
    <2>1. StopChild => stopper' \in Stoppers
      BY <1>t DEF StopChild
    <2>2. StopReturns => stopper' \in Stoppers
      BY <1>t DEF StopReturns
    <2> QED BY <2>1, <2>2
  <1>r. UNCHANGED responder => ResponderType'
    BY <1>t DEF ResponderType
  <1>1. CASE StartFails
    BY <1>1, <1>t, <1>r, QuietClientInv DEF StartFails, QuietClient, clientVars
  <1>2. CASE StopMarks
    <2>1. stopper' \in Stoppers
      BY <1>2, <1>s, <1>t DEF StopMarks
    <2> QED BY <1>2, <1>t, <1>r, <2>1, QuietClientInv DEF StopMarks, QuietClient
  <1>3. CASE ForceKill
    BY <1>3, <1>t, <1>s, <1>r, QuietClientInv DEF ForceKill, QuietClient
  <1>4. CASE StopWaits
    BY <1>4, <1>t, <1>s, <1>r, QuietClientInv DEF StopWaits, QuietClient
  <1>5. CASE StopSignals
    <2>1. stopper' \in Stoppers
      BY <1>5, <1>s, <1>t DEF StopSignals
    <2>2. CASE UNCHANGED run
      BY <1>5, <1>t, <1>r, <2>1, <2>2, QuietClientInv DEF StopSignals, QuietClient
    <2>3. CASE run' = [run EXCEPT ![stopper.run].proc = "exited"]
      <3>1. \A s \in Runs : run'[s].watcher = run[s].watcher /\ run'[s].events = run[s].events
        BY <2>3 DEF TurnTypeOK, RunRecords
      <3>2. run' \in [Runs -> RunRecords]
        BY <2>3, ZenonT(60) DEF TurnTypeOK, RunRecords
      <3>3. UNCHANGED <<agent, child, control, shown, entry, written, responder>>
        BY <1>5 DEF StopSignals
      <3>4. TurnTypeOK'
        BY <1>r, <1>t, <2>1, <3>2, <3>3 DEF TurnTypeOK
      <3>5. EventsOfRun' /\ EntriesSettle'
        BY <3>1, <3>3 DEF EventsOfRun, EntriesSettle
      <3>6. FailureIsMarked' /\ RequestsAnswerable'
        BY <1>t, <3>1, <3>3 DEF FailureIsMarked, RequestsAnswerable, Waits
      <3> QED BY <3>4, <3>5, <3>6
    <2> QED BY <1>5, <2>2, <2>3 DEF StopSignals
  <1>6. CASE StopFinalizes
    <2>1. stopper' \in Stoppers
      BY <1>6, <1>s DEF StopFinalizes
    <2>2. /\ child' = NoRun /\ control' = NoRun /\ shown' = NoneShown /\ agent' = "Interrupted"
          /\ UNCHANGED <<entry, written, responder>>
      BY <1>6 DEF StopFinalizes
    <2>3. /\ run' \in [Runs -> RunRecords]
          /\ \A s \in Runs : run'[s].events = run[s].events
      BY <1>6, ZenonT(60) DEF StopFinalizes, TurnTypeOK, RunRecords
    <2>4. TurnTypeOK'
      BY <1>r, <1>t, <2>1, <2>2, <2>3 DEF TurnTypeOK, NoneShown
    <2>5. EventsOfRun' /\ EntriesSettle'
      BY <2>2, <2>3 DEF EventsOfRun, EntriesSettle
    <2>6. FailureIsMarked' /\ RequestsAnswerable'
      BY <2>2 DEF FailureIsMarked, RequestsAnswerable, NoneShown
    <2> QED BY <2>4, <2>5, <2>6
  <1> QED BY <1>1, <1>2, <1>3, <1>4, <1>5, <1>6 DEF StopSteps

\* The threads that answer keep the invariant (respond_permission_for_target,
\* send_approval_response, answer_agent_questions).
LEMMA AnswerInv ==
    ASSUME TurnInv,
           RespondSteps \/ \E q \in Requests, a \in Answers : RespondLook(q, a) \/ AnswerQuestions(q, a)
    PROVE  TurnInv'
  <1> USE DEF TurnInv
  <1>a. ASSUME NEW q \in Requests, NEW a \in Answers, entry[q].status = "waiting",
               ReserveAnswer(q, a)
        PROVE  /\ entry' \in [Requests -> Entries] /\ written' \in [Requests -> Nat]
               /\ EntriesSettle' /\ \A p \in Requests : entry'[p].run = entry[p].run
    <2>1. /\ entry' \in [Requests -> Entries]
          /\ entry'[q].run = entry[q].run /\ entry'[q].status = "reserved"
          /\ \A p \in Requests \ {q} : entry'[p] = entry[p]
      BY <1>a DEF ReserveAnswer, TurnTypeOK, Entries, Statuses
    <2>2. /\ written' \in [Requests -> Nat] /\ written'[q] = written[q] + 1
          /\ \A p \in Requests \ {q} : written'[p] = written[p]
      BY <1>a DEF ReserveAnswer, TurnTypeOK
    <2>3. written[q] = 0
      BY <1>a DEF EntriesSettle
    <2> QED BY <2>1, <2>2, <2>3 DEF EntriesSettle
  <1>b. ASSUME UNCHANGED <<agent, child, control, run>>,
               \A q \in Requests : shown'[q] # "no" <=> shown[q] # "no",
               \A q \in Requests : entry'[q].run = entry[q].run
        PROVE  EventsOfRun' /\ FailureIsMarked' /\ RequestsAnswerable'
    <2>1. EventsOfRun'
      BY <1>b DEF EventsOfRun, EventOf
    <2> QED BY <1>b, <2>1 DEF FailureIsMarked, RequestsAnswerable, Waits
  <1>1. ASSUME NEW q \in Requests, NEW a \in Answers, RespondLook(q, a) PROVE TurnInv'
    <2>1. ResponderType'
      BY <1>1 DEF RespondLook, ResponderType, TurnTypeOK
    <2> QED BY <1>1, <2>1, QuietClientInv DEF RespondLook, QuietClient, TurnTypeOK
  <1>2. ASSUME NEW q \in Requests, NEW a \in Answers, AnswerQuestions(q, a) PROVE TurnInv'
    <2>1. /\ entry' \in [Requests -> Entries] /\ written' \in [Requests -> Nat]
          /\ EntriesSettle' /\ \A p \in Requests : entry'[p].run = entry[p].run
      BY <1>2, <1>a DEF AnswerQuestions
    <2>2. /\ shown' \in [Requests -> {"no", "open", "sent"}]
          /\ \A p \in Requests : shown'[p] # "no" <=> shown[p] # "no"
      BY <1>2 DEF AnswerQuestions, TurnTypeOK
    <2>3. UNCHANGED <<agent, child, control, run, responder, stopper>>
      BY <1>2 DEF AnswerQuestions, clientVars
    <2>4. EventsOfRun' /\ FailureIsMarked' /\ RequestsAnswerable'
      BY <1>b, <2>1, <2>2, <2>3
    <2>5. TurnTypeOK'
      BY <2>1, <2>2, <2>3 DEF TurnTypeOK, ResponderType
    <2> QED BY <2>1, <2>4, <2>5
  <1>3. CASE RespondWrite
    <2>1. responder \in [pc : {"write", "mark"}, request : Requests, answer : Answers,
                         run : Runs \cup {NoRun}]
      BY <1>3 DEF RespondWrite, TurnTypeOK, ResponderType, IdleThread
    <2>2. responder.request \in Requests /\ responder.answer \in Answers
      BY <2>1
    <2>3. ResponderType' /\ UNCHANGED <<agent, child, control, shown, run, stopper>>
      BY <1>3, <2>1 DEF RespondWrite, ResponderType
    <2>4. CASE UNCHANGED <<entry, written>>
      BY <2>3, <2>4, QuietClientInv DEF QuietClient, TurnTypeOK
    <2>5. CASE /\ entry[responder.request].status = "waiting"
               /\ ReserveAnswer(responder.request, responder.answer)
      <3>1. /\ entry' \in [Requests -> Entries] /\ written' \in [Requests -> Nat]
            /\ EntriesSettle' /\ \A p \in Requests : entry'[p].run = entry[p].run
        BY <1>a, <2>2, <2>5
      <3>2. EventsOfRun' /\ FailureIsMarked' /\ RequestsAnswerable'
        BY <1>b, <2>3, <3>1
      <3>3. TurnTypeOK'
        BY <2>3, <3>1 DEF TurnTypeOK
      <3> QED BY <3>1, <3>2, <3>3
    <2> QED BY <1>3, <2>4, <2>5 DEF RespondWrite
  <1>4. CASE RespondMark
    <2>1. /\ shown' \in [Requests -> {"no", "open", "sent"}]
          /\ \A p \in Requests : shown'[p] # "no" <=> shown[p] # "no"
      BY <1>4 DEF RespondMark, TurnTypeOK
    <2>2. /\ UNCHANGED <<agent, child, control, run, entry, written, stopper>>
          /\ responder' = IdleThread
      BY <1>4 DEF RespondMark
    <2>3. EventsOfRun' /\ FailureIsMarked' /\ RequestsAnswerable'
      BY <1>b, <2>1, <2>2
    <2>4. TurnTypeOK' /\ EntriesSettle'
      BY <2>1, <2>2 DEF TurnTypeOK, ResponderType, EntriesSettle
    <2> QED BY <2>3, <2>4
  <1> QED BY <1>1, <1>2, <1>3, <1>4 DEF RespondSteps

\* The invariant holds before the first run.
LEMMA TurnInitInv == TurnInit => TurnInv
  <1> SUFFICES ASSUME TurnInit PROVE TurnInv
    OBVIOUS
  <1>1. NewRun \in RunRecords /\ Len(NewRun.events) = 0
    BY EmptySeq DEF NewRun, RunRecords, Watchers
  <1>2. TurnTypeOK
    BY <1>1 DEF TurnInit, TurnTypeOK, AgentStates, FinishedStates, NoEntry, Entries, Statuses,
                ResponderType, IdleStopper
  <1>3. EventsOfRun
    BY <1>1 DEF TurnInit, EventsOfRun
  <1>4. EntriesSettle /\ FailureIsMarked /\ RequestsAnswerable
    BY DEF TurnInit, EntriesSettle, FailureIsMarked, RequestsAnswerable, NoEntry
  <1> QED BY <1>2, <1>3, <1>4 DEF TurnInv

\* Every step keeps the invariant.
LEMMA TurnStepInv == TurnInv /\ [TurnNext]_turnVars => TurnInv'
  <1> SUFFICES ASSUME TurnInv, [TurnNext]_turnVars PROVE TurnInv'
    OBVIOUS
  <1>1. ASSUME NEW r \in Runs, \/ StartTurn(r) \/ Lines(r) \/ ReaderSteps(r) \/ WatcherSteps(r)
                               \/ WatcherFinishes(r)
        PROVE  TurnInv'
    <2>1. CASE Lines(r) \/ ReaderSteps(r)
      <3>1. LineStep(r)
        BY <2>1, LineSteps DEF TurnInv
      <3> QED BY <3>1, LineInv
    <2> QED BY <1>1, <2>1, StartInv, WatcherInv, FinishInv
  <1>2. CASE StartFails \/ StopMarks \/ ForceKill \/ StopSteps
    BY <1>2, StopInv
  <1>3. CASE RespondSteps \/ \E q \in Requests, a \in Answers : RespondLook(q, a) \/ AnswerQuestions(q, a)
    BY <1>3, AnswerInv
  <1>4. CASE UNCHANGED turnVars
    BY <1>4, QuietClientInv DEF turnVars, QuietClient, TurnInv, TurnTypeOK, ResponderType
  <1> QED BY <1>1, <1>2, <1>3, <1>4 DEF TurnNext

\* What the user is asked can be answered, for every number of runs, requests, stops and
\* waiting events: no end of a run, stop or late event of an older run takes away the
\* control of a request on show, or shows one of an older run (is_current_run, finish_agent,
\* respond_permission_for_target).
THEOREM RequestsStayAnswerable == TurnSpec => []RequestsAnswerable
  <1>1. TurnInv => RequestsAnswerable
    BY DEF TurnInv
  <1> QED BY <1>1, TurnInitInv, TurnStepInv, PTL DEF TurnSpec

\* An answer is written to the process at most once, whoever answers, how often and with
\* what (ActiveTurn::respond, send_approval_response).
THEOREM AnswersAreWrittenOnce == TurnSpec => []AnsweredOnce
  <1>1. TurnInv => AnsweredOnce
    BY DEF TurnInv, EntriesSettle, AnsweredOnce
  <1> QED BY <1>1, TurnInitInv, TurnStepInv, PTL DEF TurnSpec

=============================================================================
