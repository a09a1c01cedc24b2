----------------------------- MODULE MCServices -----------------------------
(***************************************************************************)
(* The services around the board, for TLC.  They share no variable and no  *)
(* action, so a behaviour of all of them is an interleaving of behaviours  *)
(* of each, and what is said of one of them depends on its own behaviour   *)
(* only.  The product is therefore not explored: Init chooses the service  *)
(* that moves, and the others stay where they began.  The states are the   *)
(* disjoint union of the services' states.                                 *)
(***************************************************************************)
EXTENDS RemoteMirror, AgentTurn, HostUpgrade, Terminals, Handoff, ProjectClone,
        TaskPlanning, SessionNames, GitHubConnection, GitHubIssues

CONSTANTS Services,   \* the services of this run
          MaxAge      \* bound: restarts and events of the mirrored daemon together

VARIABLE focus        \* the service that moves

servicesVars ==
    <<focus, vars, turnVars, hostVars, terminalVars, handoffVars, cloneVars, planVars,
      nameVars, connVars, issueVars>>

\* A service that does not move begins in one of its initial states.
ServicesInit ==
    /\ focus \in Services
    /\ Init /\ TurnInit /\ HostInit /\ TerminalsInit /\ HandoffInit /\ CloneInit
    /\ PlanInit /\ NamesInit /\ ConnInit /\ IssuesInit
    /\ focus # "host" => ~host.legacy /\ ~host.managed
    /\ focus # "connection" => ghAccount = NoAccount

Only(service) == focus = service /\ UNCHANGED focus

ServicesNext ==
    \/ /\ Only("mirror") /\ Next /\ epoch' + sequence' <= MaxAge
       /\ UNCHANGED <<turnVars, hostVars, terminalVars, handoffVars, cloneVars, planVars,
                      nameVars, connVars, issueVars>>
    \/ /\ Only("turn") /\ TurnNext
       /\ UNCHANGED <<vars, hostVars, terminalVars, handoffVars, cloneVars, planVars,
                      nameVars, connVars, issueVars>>
    \/ /\ Only("host") /\ HostNext
       /\ UNCHANGED <<vars, turnVars, terminalVars, handoffVars, cloneVars, planVars,
                      nameVars, connVars, issueVars>>
    \/ /\ Only("terminals") /\ TerminalsNext
       /\ UNCHANGED <<vars, turnVars, hostVars, handoffVars, cloneVars, planVars,
                      nameVars, connVars, issueVars>>
    \/ /\ Only("handoff") /\ HandoffNext
       /\ UNCHANGED <<vars, turnVars, hostVars, terminalVars, cloneVars, planVars,
                      nameVars, connVars, issueVars>>
    \/ /\ Only("clone") /\ CloneNext
       /\ UNCHANGED <<vars, turnVars, hostVars, terminalVars, handoffVars, planVars,
                      nameVars, connVars, issueVars>>
    \/ /\ Only("plan") /\ PlanNext
       /\ UNCHANGED <<vars, turnVars, hostVars, terminalVars, handoffVars, cloneVars,
                      nameVars, connVars, issueVars>>
    \/ /\ Only("names") /\ NamesNext
       /\ UNCHANGED <<vars, turnVars, hostVars, terminalVars, handoffVars, cloneVars,
                      planVars, connVars, issueVars>>
    \/ /\ Only("connection") /\ ConnNext
       /\ UNCHANGED <<vars, turnVars, hostVars, terminalVars, handoffVars, cloneVars,
                      planVars, nameVars, issueVars>>
    \/ /\ Only("issues") /\ IssuesNext
       /\ UNCHANGED <<vars, turnVars, hostVars, terminalVars, handoffVars, cloneVars,
                      planVars, nameVars, connVars>>

ServicesSpec == ServicesInit /\ [][ServicesNext]_servicesVars

\* The fairness of the services, each asked of the service that moves.
ServicesFairness ==
    /\ WF_vars(focus = "mirror" /\ (PollBegin \/ PollChecksEpoch \/ PollForgetsCursor
                                    \/ PollReconcile \/ PollSubscribes))
    /\ SF_vars(focus = "mirror" /\ PollStatus) /\ SF_vars(focus = "mirror" /\ PollSnapshot)
    /\ \A r \in Runs :
         /\ WF_turnVars(focus = "turn" /\ ReaderTimesOut(r))
         /\ WF_turnVars(focus = "turn" /\ WatcherSteps(r))
         /\ WF_turnVars(focus = "turn" /\ WatcherFinishes(r))
    /\ WF_hostVars(focus = "host" /\ HelperSteps)
    /\ WF_hostVars(focus = "host" /\ WatchdogResumes)
    /\ \A c \in Callers :
         /\ WF_handoffVars(focus = "handoff" /\ Submit(c))
         /\ WF_handoffVars(focus = "handoff" /\ CallerStep(c))
    /\ \A o \in Clones : WF_cloneVars(focus = "clone" /\ CloneWorker(o))
    /\ \A j \in Jobs : WF_planVars(focus = "plan" /\ FinishPlan(j))

ServicesFairSpec == ServicesSpec /\ ServicesFairness

=============================================================================
