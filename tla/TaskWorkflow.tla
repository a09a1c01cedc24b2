---------------------------- MODULE TaskWorkflow ----------------------------
(***************************************************************************)
(* The durable task card of the board and the workflow it obeys            *)
(* (crates/ditch_core/src/tasks.rs).  Everything here is a pure function   *)
(* of one task record; the runtime module keeps the records and decides    *)
(* when a function may be applied.                                         *)
(*                                                                         *)
(* Text (titles, reasons, summaries, feedback) is left out.  The condition *)
(* "Running" stands for Running and AwaitingApproval, which every guard    *)
(* of the daemon treats alike.  The serialized states Draft, Cancelled,    *)
(* Blocked and Rejected only occur in imported databases and share the     *)
(* column of Ready or Running, so they are not told apart here.            *)
(***************************************************************************)
EXTENDS Naturals

CONSTANTS
    Agents,        \* identities an AgentId can take
    Fingerprints,  \* digests of the workspace (acceptance_workspace)
    None           \* the absent Option

ASSUME NoneAssumption == None \notin Agents /\ None \notin Fingerprints

States     == {"Backlog", "Ready", "Running", "InReview", "Accepted"}
Conditions == {"Idle", "Queued", "Running", "Blocked", "Failed", "Cancelled"}

MaybeAgent == Agents \cup {None}

TaskRecords ==
    [state     : States,
     cond      : Conditions,
     archived  : BOOLEAN,
     queued    : BOOLEAN,          \* execution_queue.is_some()
     qagent    : MaybeAgent,       \* execution_queue.agent_id
     pos       : Nat,              \* execution_queue.position
     assigned  : MaybeAgent,       \* assigned_agent_id
     cont      : MaybeAgent,       \* continue_agent_id
     worker    : MaybeAgent,       \* agent of the last working attempt
     sub       : Fingerprints \cup {None}]  \* current_submission's evidence

\* Task::new: a fresh card of the To Do column.
NewTask ==
    [state |-> "Ready", cond |-> "Idle", archived |-> FALSE,
     queued |-> FALSE, qagent |-> None, pos |-> 0,
     assigned |-> None, cont |-> None, worker |-> None, sub |-> None]

Column(tk) ==
    CASE tk.state = "Backlog"  -> "Backlog"
      [] tk.state = "Ready"    -> "Todo"
      [] tk.state = "Running"  -> "InProgress"
      [] tk.state = "InReview" -> "InReview"
      [] OTHER                 -> "Done"

\* A queued task whose launch authorization has not been consumed yet.
WaitingInQueue(tk) ==
    /\ tk.queued
    /\ Column(tk) = "InProgress"
    /\ tk.cond = "Queued"
    /\ tk.assigned = None
    /\ ~tk.archived

\* Conditions under which a task is executing.
ActiveConditions == {"Queued", "Running"}

\* Neither archived nor cancelled: the card takes part in the workflow.
InWorkflow(tk) == ~tk.archived /\ tk.cond # "Cancelled"

\* Option::or
Or(x, y) == IF x # None THEN x ELSE y

-----------------------------------------------------------------------------
\* The actions of Task::transition that a user performs directly on a card.
\* "Start" here only moves the card: nothing is launched.
CardActions == {"Prioritize", "ReturnToBacklog", "Start", "ReturnToTodo", "Cancel", "Reopen"}

\* Which actions the workflow allows in which column.
MayTransition(tk, action) ==
    CASE action = "Prioritize"      -> InWorkflow(tk) /\ Column(tk) = "Backlog"
      [] action = "ReturnToBacklog" -> InWorkflow(tk) /\ Column(tk) = "Todo"
      [] action = "Start"           -> InWorkflow(tk) /\ Column(tk) \in {"Todo", "InProgress"}
      [] action = "Submit"          -> InWorkflow(tk) /\ Column(tk) = "InProgress"
      [] action = "RequestChanges"  -> InWorkflow(tk) /\ Column(tk) = "InReview"
      [] action = "Accept"          -> InWorkflow(tk) /\ Column(tk) = "InReview"
      [] action = "Cancel"          -> InWorkflow(tk) /\ Column(tk) # "Done"
      [] action = "Reopen"          -> Column(tk) = "Done" \/ ~InWorkflow(tk)
      [] action = "ReturnToTodo"    -> InWorkflow(tk) /\ Column(tk) = "InProgress"

\* The card an allowed action leaves behind.
Transition(tk, action) ==
    CASE action = "Prioritize"      -> [tk EXCEPT !.state = "Ready"]
      [] action = "ReturnToBacklog" -> [tk EXCEPT !.state = "Backlog"]
      [] action = "Submit"          -> [tk EXCEPT !.state = "InReview", !.cond = "Idle"]
      [] action = "Accept"          -> [tk EXCEPT !.state = "Accepted"]
      [] action = "Cancel"          -> [tk EXCEPT !.cond = "Cancelled", !.archived = TRUE]
      [] action = "Reopen"          -> [tk EXCEPT !.state = "Ready", !.cond = "Idle", !.archived = FALSE]
      [] action = "ReturnToTodo"    -> [tk EXCEPT !.state = "Ready", !.cond = "Idle"]
      [] OTHER                      -> [tk EXCEPT !.state = "Running", !.cond = "Idle"]

=============================================================================
