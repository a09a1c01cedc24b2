------------------------------ MODULE Terminals ------------------------------
(***************************************************************************)
(* Project terminals and setup terminals of the daemon of a host, and the  *)
(* maintenance that closes them before an upgrade (runtime_shared.rs,      *)
(* remote_maintenance.rs).                                                 *)
(*                                                                         *)
(* Every request runs in a thread of its own and holds a guard that counts *)
(* it as work of the daemon.  A shell is started outside the lock, so two  *)
(* requests for one project may both start one.  One action is one         *)
(* critical section, or one effect between two of them.                    *)
(*                                                                         *)
(* The bytes that are written to and read from terminals, and their sizes, *)
(* are left out.  A shell that is killed or loses its terminal exits.      *)
(***************************************************************************)
EXTENDS Naturals, FiniteSets

CONSTANTS
    Projects,  \* projects
    Shells,    \* ids of project terminals, each with its shell
    Setups,    \* ids of setup terminals, each with its command
    Threads,   \* threads that serve requests
    Tokens,    \* tokens of helpers that upgrade the daemon
    Free       \* no value

ASSUME TerminalsAssumption == Free \notin Projects \cup Shells \cup Tokens

VARIABLES
    projects,   \* projects that exist
    terminals,  \* the project of every registered terminal, or Free
    byProject,  \* terminal_by_project
    shell,      \* the process of every terminal: "unused", "live" or "exited"
    setup,      \* setup_terminals: "unused", "live", "exited" or "removed"
    thread,     \* what every thread does
    routed,     \* remote_terminal_hosts of the daemon of the user
    maint,      \* remote_maintenance: its token, and is its lease over
    locked,     \* a helper holds the upgrade lock
    owner       \* history: the token whose begin was accepted under this lock

terminalVars == <<projects, terminals, byProject, shell, setup, thread, routed, maint,
                  locked, owner>>
registry == <<terminals, byProject>>
upgradeVars == <<maint, locked, owner>>

IdleRequest == [pc |-> "idle"]
NoMaint == [token |-> Free, over |-> FALSE]

TerminalsInit ==
    /\ projects = Projects
    /\ terminals = [s \in Shells |-> Free]
    /\ byProject = [p \in Projects |-> Free]
    /\ shell = [s \in Shells |-> "unused"]
    /\ setup = [s \in Setups |-> "unused"]
    /\ thread = [h \in Threads |-> IdleRequest]
    /\ routed = {}
    /\ maint = NoMaint /\ locked = FALSE /\ owner = Free

Registered(s) == terminals[s] # Free

\* reap_project_terminals: terminals whose shell has exited leave the registry.
Reaped == {s \in Shells : Registered(s) /\ shell[s] = "exited"}
ReapedTerminals == [s \in Shells |-> IF s \in Reaped THEN Free ELSE terminals[s]]
ReapedByProject == [p \in Projects |-> IF byProject[p] \in Reaped THEN Free ELSE byProject[p]]
ReapedSetup == [s \in Setups |-> IF setup[s] = "exited" THEN "removed" ELSE setup[s]]

\* Mutant: the lease alone keeps the admission closed.
LeaseActive == maint.token # Free /\ ~maint.over

\* remote_maintenance_active
MaintActive == maint.token # Free /\ (~maint.over \/ locked)

Do(h, next) == thread' = [thread EXCEPT ![h] = next]
Done(h) == Do(h, IdleRequest)

\* RemoteMutationGuard: admission of a request, refused during maintenance.
Admit(h, request) == thread[h].pc = "idle" /\ ~MaintActive /\ Do(h, request)

-----------------------------------------------------------------------------
\* open_project_terminal, first section: the terminal of the project, if it has one.
OpenRequest(h, p) ==
    /\ Admit(h, [pc |-> "look", project |-> p])
    /\ UNCHANGED <<projects, registry, shell, setup, routed, upgradeVars>>

OpenLooks(h) ==
    /\ thread[h].pc = "look"
    /\ LET p == thread[h].project IN
         Do(h, IF p \notin projects THEN IdleRequest
               ELSE IF ReapedByProject[p] # Free THEN [pc |-> "answer", id |-> ReapedByProject[p]]
               ELSE [pc |-> "spawn", project |-> p])
    /\ terminals' = ReapedTerminals
    /\ byProject' = ReapedByProject
    /\ setup' = ReapedSetup
    /\ UNCHANGED <<projects, shell, routed, upgradeVars>>

\* Without the lock.  A shell that cannot be started, or whose terminal cannot be
\* attached, leaves nothing behind.
OpenSpawns(h) ==
    /\ thread[h].pc = "spawn"
    /\ \/ \E s \in Shells :
            /\ shell[s] = "unused"
            /\ shell' = [shell EXCEPT ![s] = "live"]
            /\ Do(h, [pc |-> "register", project |-> thread[h].project, id |-> s])
       \/ Done(h) /\ UNCHANGED shell
    /\ UNCHANGED <<projects, registry, setup, routed, upgradeVars>>

Register(h, p, s) ==
    /\ terminals' = [terminals EXCEPT ![s] = p]
    /\ byProject' = [byProject EXCEPT ![p] = s]
    /\ Do(h, [pc |-> "answer", id |-> s])

\* Mutant: the duplicate runs on.
RegistersLeaking(h) ==
    /\ thread[h].pc = "register"
    /\ LET p == thread[h].project IN
         IF byProject[p] # Free
         THEN Do(h, [pc |-> "answer", id |-> byProject[p]]) /\ UNCHANGED registry
         ELSE Register(h, p, thread[h].id)
    /\ UNCHANGED <<projects, shell, setup, routed, upgradeVars>>

\* Second section: another request may have been faster; its terminal is kept.
OpenRegisters(h) ==
    /\ thread[h].pc = "register"
    /\ LET p == thread[h].project
           s == thread[h].id
       IN IF byProject[p] # Free /\ Registered(byProject[p])
          THEN /\ shell' = [shell EXCEPT ![s] = "exited"]
               /\ Do(h, [pc |-> "answer", id |-> byProject[p]])
               /\ UNCHANGED registry
          ELSE Register(h, p, s) /\ UNCHANGED shell
    /\ UNCHANGED <<projects, setup, routed, upgradeVars>>

\* The answer reaches the daemon of the user, or is lost.
OpenAnswered(h) ==
    /\ thread[h].pc = "answer"
    /\ routed' \in {routed, routed \cup {thread[h].id}}
    /\ Done(h)
    /\ UNCHANGED <<projects, registry, shell, setup, upgradeVars>>

\* close_project_terminal_for_target forgets the host before it asks it; the request
\* may be lost or refused.
CloseRequest(s) ==
    /\ s \in routed
    /\ routed' = routed \ {s}
    /\ \/ \E h \in Threads : Admit(h, [pc |-> "close", id |-> s])
       \/ UNCHANGED thread
    /\ UNCHANGED <<projects, registry, shell, setup, upgradeVars>>

CloseRemoves(h) ==
    /\ thread[h].pc = "close"
    /\ LET s == thread[h].id IN
         IF Registered(s)
         THEN /\ byProject' = [byProject EXCEPT ![terminals[s]] = Free]
              /\ terminals' = [terminals EXCEPT ![s] = Free]
              /\ Do(h, [pc |-> "kill", id |-> s])
         ELSE Done(h) /\ UNCHANGED registry
    /\ UNCHANGED <<projects, shell, setup, routed, upgradeVars>>

CloseKills(h) ==
    /\ thread[h].pc = "kill"
    /\ shell' = [shell EXCEPT ![thread[h].id] = "exited"]
    /\ Done(h)
    /\ UNCHANGED <<projects, registry, setup, routed, upgradeVars>>

ShellExits(s) ==
    /\ shell[s] = "live"
    /\ shell' = [shell EXCEPT ![s] = "exited"]
    /\ UNCHANGED <<projects, registry, setup, thread, routed, upgradeVars>>

\* The daemon of the user restarts and knows no terminal of the host.
RoutesLost ==
    /\ routed # {}
    /\ routed' = {}
    /\ UNCHANGED <<projects, registry, shell, setup, thread, upgradeVars>>

\* delete_project: the terminal dies under the lock.
DeleteRequest(h, p) ==
    /\ Admit(h, [pc |-> "delete", project |-> p])
    /\ UNCHANGED <<projects, registry, shell, setup, routed, upgradeVars>>

DeleteProject(h) ==
    /\ thread[h].pc = "delete"
    /\ LET p == thread[h].project
           s == byProject[p]
       IN IF p \in projects
          THEN /\ projects' = projects \ {p}
               /\ byProject' = [byProject EXCEPT ![p] = Free]
               /\ terminals' = [x \in Shells |-> IF x = s THEN Free ELSE terminals[x]]
               /\ shell' = [x \in Shells |-> IF x = s THEN "exited" ELSE shell[x]]
          ELSE UNCHANGED <<projects, registry, shell>>
    /\ Done(h)
    /\ UNCHANGED <<setup, routed, upgradeVars>>

-----------------------------------------------------------------------------
\* open_setup_command: the command runs before it is registered.
SetupRequest(h, s) ==
    /\ setup[s] = "unused" /\ \A g \in Threads : thread[g] # [pc |-> "setup", id |-> s]
    /\ Admit(h, [pc |-> "setup", id |-> s])
    /\ UNCHANGED <<projects, registry, shell, setup, routed, upgradeVars>>

SetupOpens(h) ==
    /\ thread[h].pc = "setup"
    /\ \/ setup' = [setup EXCEPT ![thread[h].id] = "live"]
       \/ UNCHANGED setup
    /\ Done(h)
    /\ UNCHANGED <<projects, registry, shell, routed, upgradeVars>>

SetupExits(s) ==
    /\ setup[s] = "live"
    /\ setup' = [setup EXCEPT ![s] = "exited"]
    /\ UNCHANGED <<projects, registry, shell, thread, routed, upgradeVars>>

\* close_setup_terminal: removed and killed.
SetupCloses(s) ==
    /\ setup[s] \in {"live", "exited"} /\ ~MaintActive
    /\ setup' = [setup EXCEPT ![s] = "removed"]
    /\ UNCHANGED <<projects, registry, shell, thread, routed, upgradeVars>>

-----------------------------------------------------------------------------
\* remote_upgrade_busy after the reaping: requests in flight and setup terminals.
Busy == (\E h \in Threads : thread[h].pc # "idle") \/ (\E s \in Setups : ReapedSetup[s] = "live")

\* Requests of any helper, also of one that is gone, may arrive at any time.  The close
\* of the terminals may fail half way.
MaintBegin(k) ==
    /\ ~MaintActive \/ maint.token = k
    /\ setup' = ReapedSetup
    /\ IF Busy
       THEN /\ terminals' = ReapedTerminals /\ byProject' = ReapedByProject
            /\ UNCHANGED <<shell, maint, owner>>
       ELSE \/ /\ terminals' = [s \in Shells |-> Free]
               /\ byProject' = [p \in Projects |-> Free]
               /\ shell' = [s \in Shells |-> IF Registered(s) THEN "exited" ELSE shell[s]]
               /\ maint' = [token |-> k, over |-> FALSE]
               /\ owner' = IF locked THEN k ELSE owner
            \/ /\ terminals' = ReapedTerminals /\ byProject' = ReapedByProject
               /\ \E dead \in SUBSET {s \in Shells : shell[s] = "live" /\ Registered(s)} :
                    shell' = [s \in Shells |-> IF s \in dead THEN "exited" ELSE shell[s]]
               /\ maint' = NoMaint
               /\ owner' = Free
    /\ UNCHANGED <<projects, thread, routed, locked>>

MaintCancel(k) ==
    /\ MaintActive /\ maint.token = k
    /\ maint' = NoMaint
    /\ owner' = Free
    /\ UNCHANGED <<projects, registry, shell, setup, thread, routed, locked>>

LeaseEnds ==
    /\ maint.token # Free /\ ~maint.over
    /\ maint' = [maint EXCEPT !.over = TRUE]
    /\ UNCHANGED <<projects, registry, shell, setup, thread, routed, locked, owner>>

\* The lock of a helper, released also when it dies.
LockChanges ==
    /\ locked' = ~locked
    /\ owner' = Free
    /\ UNCHANGED <<projects, registry, shell, setup, thread, routed, maint>>

-----------------------------------------------------------------------------
ThreadStep(h) ==
    \/ OpenLooks(h) \/ OpenSpawns(h) \/ OpenRegisters(h) \/ OpenAnswered(h)
    \/ CloseRemoves(h) \/ CloseKills(h) \/ DeleteProject(h) \/ SetupOpens(h)

TerminalsNext ==
    \/ \E h \in Threads :
         \/ ThreadStep(h)
         \/ \E p \in Projects : OpenRequest(h, p) \/ DeleteRequest(h, p)
         \/ \E s \in Setups : SetupRequest(h, s)
    \/ \E s \in Shells : CloseRequest(s) \/ ShellExits(s)
    \/ \E s \in Setups : SetupExits(s) \/ SetupCloses(s)
    \/ \E k \in Tokens : MaintBegin(k) \/ MaintCancel(k)
    \/ RoutesLost \/ LeaseEnds \/ LockChanges

TerminalsSpec == TerminalsInit /\ [][TerminalsNext]_terminalVars

-----------------------------------------------------------------------------
\* A helper whose begin was accepted and that still holds the upgrade lock finds the
\* daemon at rest until it cancels, however long it takes and whatever late requests of
\* earlier helpers arrive: no request is in flight, no terminal of a project or of the
\* setup is open (remote_maintenance_request, RemoteMutationGuard).
MaintenanceIsQuiet ==
    owner # Free =>
        /\ \A h \in Threads : thread[h].pc = "idle"
        /\ \A s \in Shells : ~Registered(s) /\ shell[s] # "live"
        /\ \A s \in Setups : setup[s] # "live"

\* A project has one terminal and no shell is lost, whatever requests race to open it: the
\* two maps of open_project_terminal agree, and a shell that runs is registered, so that
\* close, delete and upgrade find it, or a request in flight is about to register or to
\* kill it.
OneTerminalPerProject ==
    /\ \A s \in Shells : Registered(s) => byProject[terminals[s]] = s
    /\ \A p \in Projects : byProject[p] # Free => terminals[byProject[p]] = p
    /\ \A s \in Shells : shell[s] = "live" =>
         \/ Registered(s)
         \/ \E h \in Threads : thread[h].pc \in {"register", "kill"} /\ thread[h].id = s
=============================================================================
