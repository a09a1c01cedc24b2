----------------------------- MODULE SerialSlot -----------------------------
(***************************************************************************)
(* What the execution queue of the board promises, without agents,         *)
(* processes, reservations or threads.  Each workspace has one slot.  A    *)
(* queued task waits until its launch is authorized, and it executes at    *)
(* most once per authorization: neither a failed launch nor a restart of   *)
(* the daemon makes a task wait or execute again unless the user asks.     *)
(* A validation of finished work needs no authorization but takes the same *)
(* slot.                                                                   *)
(***************************************************************************)
CONSTANTS Tasks, Root   \* Root[t] is the workspace of t

VARIABLE phase

Phases == {"idle", "waiting", "authorized", "executing", "validating"}

\* The slot of the workspace of t is free for t.
SlotFree(t) ==
    \A u \in Tasks \ {t} : Root[u] = Root[t] => phase[u] \notin {"executing", "validating"}

Init == phase = [t \in Tasks |-> "idle"]

Step(t, from, to) == phase[t] \in from /\ phase' = [phase EXCEPT ![t] = to]

Wait(t)      == Step(t, {"idle"}, "waiting")          \* the user queues the task
Withdraw(t)  == Step(t, {"waiting"}, "idle")          \* the user takes it back, or it is refused
Authorize(t) == Step(t, {"waiting"}, "authorized")    \* the authorization is consumed
Refuse(t)    == Step(t, {"authorized"}, "idle")       \* the launch failed
Execute(t)   == SlotFree(t) /\ Step(t, {"authorized"}, "executing")
Validate(t)  == SlotFree(t) /\ Step(t, {"idle"}, "validating")
Finish(t)    == Step(t, {"executing", "validating"}, "idle")

\* A restart keeps exactly the tasks whose authorization was not consumed.
Restart == phase' = [t \in Tasks |-> IF phase[t] = "waiting" THEN "waiting" ELSE "idle"]

Next == \/ \E t \in Tasks : \/ Wait(t) \/ Withdraw(t) \/ Authorize(t) \/ Refuse(t)
                            \/ Execute(t) \/ Validate(t) \/ Finish(t)
        \/ Restart

Spec == Init /\ [][Next]_phase

=============================================================================
