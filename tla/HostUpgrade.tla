----------------------------- MODULE HostUpgrade -----------------------------
(***************************************************************************)
(* The replacement of the daemon of an SSH host by another build           *)
(* (remote_lifecycle.rs, remote_maintenance.rs, remote_process.rs,         *)
(* runtime_shared.rs).                                                     *)
(*                                                                         *)
(* A helper holds the upgrade lock, writes a journal before every change,  *)
(* closes the admission of work, switches the link bin/current, stops the  *)
(* old daemon and starts the new one.  The helper may die at any step, the *)
(* daemon may crash, and a service manager may start it again.  The next   *)
(* helper recovers from the journal.                                       *)
(*                                                                         *)
(* One action is one exchange with the daemon or one change on disk.  A    *)
(* release was installed before, and "old" and "new" are of one edition    *)
(* and environment.  Tokens and instances are random: the model takes      *)
(* values that are not in use.                                             *)
(***************************************************************************)
EXTENDS Naturals

CONSTANTS
    MaxFault,  \* bound: failed steps and deaths of the helper
    MaxCrash   \* bound: crashes of the daemon

ASSUME HostBoundsAssumption == MaxFault \in Nat /\ MaxCrash \in Nat

VARIABLES
    host,     \* the kind of host: is the old build legacy, is there a manager
    daemon,   \* the daemon: its build, instance, maintenance lease and work
    link,     \* the release that bin/current selects
    journal,  \* runtime-upgrade.json
    helper,   \* the process that runs upgrade, and what it has seen
    watchdog, \* remote-handoff-watchdog is running
    faults, crashes

hostVars == <<host, daemon, link, journal, helper, watchdog, faults, crashes>>

Instances == 1..3
NoInstance == 0
NoToken == 0
NoJournal == [phase |-> "none", old |-> NoInstance, token |-> NoToken]
NotSeen == [inst |-> NoInstance, build |-> "none", busy |-> FALSE]
IdleHelper == [pc |-> "idle", seen |-> NotSeen, fresh |-> FALSE]

\* How a daemon starts: initial_maintenance closes the admission of a replacement.
Started(inst) ==
    [up |-> TRUE, build |-> link, inst |-> inst, work |-> 0, frozen |-> FALSE, over |-> FALSE,
     maint |-> IF link = "new" THEN journal.token ELSE NoToken, failed |-> FALSE]

HostInit ==
    /\ host \in [legacy : BOOLEAN, managed : BOOLEAN]
    /\ link = "old"
    /\ journal = NoJournal
    /\ daemon = [up |-> TRUE, build |-> "old", inst |-> 1, work |-> 0, frozen |-> FALSE,
                 over |-> FALSE, maint |-> NoToken, failed |-> FALSE]
    /\ helper = IdleHelper
    /\ watchdog = FALSE
    /\ faults = 0 /\ crashes = 0

LockHeld == helper.pc # "idle"
Modern(build) == build = "new" \/ ~host.legacy

\* Mutant: the lease alone closes the admission.
LeaseRuns == daemon.maint # NoToken /\ ~daemon.over

\* remote_maintenance_active: a slow helper keeps the admission closed by its lock.
MaintenanceActive == daemon.maint # NoToken /\ (~daemon.over \/ LockHeld)

Unused(values, used) == CHOOSE v \in values : v \notin used
NewInstance == Unused(Instances, {journal.old, helper.seen.inst})
NewToken == Unused(1..2, {daemon.maint})

-----------------------------------------------------------------------------
\* Work of the daemon: agents, pending operations and setup terminals.  A legacy daemon
\* knows no maintenance; the fence on its database keeps reservations out.
Fenced == helper.pc \in {"freeze", "drain", "halt"} /\ ~Modern(daemon.build)

WorkStarts ==
    /\ daemon.up /\ ~daemon.frozen /\ daemon.work = 0
    /\ ~MaintenanceActive /\ ~Fenced
    /\ daemon' = [daemon EXCEPT !.work = 1]
    /\ UNCHANGED <<host, link, journal, helper, watchdog, faults, crashes>>

WorkEnds ==
    /\ daemon.up /\ daemon.work = 1
    /\ daemon' = [daemon EXCEPT !.work = 0]
    /\ UNCHANGED <<host, link, journal, helper, watchdog, faults, crashes>>

LeaseElapses ==
    /\ daemon.maint # NoToken /\ ~daemon.over
    /\ daemon' = [daemon EXCEPT !.over = TRUE]
    /\ UNCHANGED <<host, link, journal, helper, watchdog, faults, crashes>>

DaemonCrashes ==
    /\ daemon.up /\ crashes < MaxCrash
    /\ daemon' = [daemon EXCEPT !.up = FALSE, !.failed = TRUE, !.work = 0, !.frozen = FALSE,
                                !.maint = NoToken]
    /\ crashes' = crashes + 1
    /\ UNCHANGED <<host, link, journal, helper, watchdog, faults>>

\* The manager starts a service that failed, or all services after a reboot.
ManagerRestarts ==
    /\ host.managed /\ ~daemon.up /\ daemon.failed
    /\ daemon' = Started(NewInstance)
    /\ UNCHANGED <<host, link, journal, helper, watchdog, faults, crashes>>

\* ensure_remote_daemon: a bridge starts a daemon unless an upgrade is under way or was
\* interrupted.
BridgeStarts ==
    /\ ~daemon.up /\ ~LockHeld /\ journal = NoJournal
    /\ daemon' = Started(NewInstance)
    /\ UNCHANGED <<host, link, journal, helper, watchdog, faults, crashes>>

-----------------------------------------------------------------------------
\* remote_maintenance_request
MayBegin(token) ==
    /\ daemon.up /\ ~daemon.frozen /\ daemon.inst = helper.seen.inst
    /\ ~MaintenanceActive \/ daemon.maint = token
    /\ daemon.work = 0

Begin(token) == daemon' = [daemon EXCEPT !.maint = token, !.over = FALSE]

Cancel(token) ==
    daemon' = IF daemon.up /\ MaintenanceActive /\ daemon.maint = token
              THEN [daemon EXCEPT !.maint = NoToken] ELSE daemon

Goto(pc) == helper' = [helper EXCEPT !.pc = pc]
Leave == helper' = IdleHelper

\* status: what the daemon answers now.
Status == IF daemon.up THEN [inst |-> daemon.inst, build |-> daemon.build, busy |-> daemon.work > 0]
          ELSE NotSeen

\* upgrade: the lock, and a journal left behind is recovered first.
LockUpgrade ==
    /\ helper.pc = "idle"
    /\ helper' = [IdleHelper EXCEPT !.pc = IF journal = NoJournal THEN "inspect" ELSE "recover",
                                    !.fresh = TRUE]
    /\ UNCHANGED <<host, daemon, link, journal, watchdog, faults, crashes>>

\* A daemon that is paused or not yet ready answers nothing: nothing is stopped.
Inspect ==
    /\ helper.pc = "inspect"
    /\ helper' = IF daemon.frozen \/ Status.build = "new" \/ Status.busy THEN IdleHelper
                 ELSE [helper EXCEPT !.pc = "journal", !.seen = Status]
    /\ UNCHANGED <<host, daemon, link, journal, watchdog, faults, crashes>>

\* handoff
WriteJournal ==
    /\ helper.pc = "journal"
    /\ journal' = [phase |-> "prepared", old |-> helper.seen.inst, token |-> NewToken]
    /\ Goto("prepare")
    /\ UNCHANGED <<host, daemon, link, watchdog, faults, crashes>>

Prepare ==
    /\ helper.pc = "prepare"
    /\ IF helper.seen # NotSeen /\ Modern(helper.seen.build)
       THEN MayBegin(journal.token) /\ Begin(journal.token)
       ELSE UNCHANGED daemon
    /\ Goto("switching")
    /\ UNCHANGED <<host, link, journal, watchdog, faults, crashes>>

\* The phases written to the journal, and what follows each of them.
PhaseAfter == [switching |-> "link", activated |-> "stop", stopped |-> "start"]

WritePhase ==
    /\ helper.pc \in DOMAIN PhaseAfter
    /\ journal' = [journal EXCEPT !.phase = helper.pc]
    /\ Goto(IF helper.pc = "activated" /\ helper.seen = NotSeen THEN "stopped"
            ELSE PhaseAfter[helper.pc])
    /\ UNCHANGED <<host, daemon, link, watchdog, faults, crashes>>

Activate ==
    /\ helper.pc = "link"
    /\ link' = "new"
    /\ Goto("activated")
    /\ UNCHANGED <<host, daemon, journal, watchdog, faults, crashes>>

\* stop: the same instance must still be there, and is asked to begin once more.
StopBegin ==
    /\ helper.pc = "stop"
    /\ daemon.up /\ ~daemon.frozen /\ daemon.inst = helper.seen.inst
    /\ IF Modern(daemon.build)
       THEN MayBegin(journal.token) /\ Begin(journal.token) /\ Goto("halt")
       ELSE UNCHANGED daemon /\ daemon.work = 0 /\ Goto("freeze")
    /\ UNCHANGED <<host, link, journal, watchdog, faults, crashes>>

\* Mutant: no watchdog is started.
FreezeUnwatched ==
    /\ helper.pc = "freeze" /\ daemon.up
    /\ daemon' = [daemon EXCEPT !.frozen = TRUE]
    /\ Goto("drain")
    /\ UNCHANGED <<host, link, journal, watchdog, faults, crashes>>

\* prepare_legacy, behind the fence: first the watchdog, then SIGSTOP.
StopFreezes ==
    /\ helper.pc = "freeze" /\ daemon.up
    /\ watchdog' = TRUE
    /\ daemon' = [daemon EXCEPT !.frozen = TRUE]
    /\ Goto("drain")
    /\ UNCHANGED <<host, link, journal, faults, crashes>>

\* Its terminals are closed and it has no other children.
StopDrains ==
    /\ helper.pc = "drain" /\ daemon.work = 0
    /\ Goto("halt")
    /\ UNCHANGED <<host, daemon, link, journal, watchdog, faults, crashes>>

\* The manager stops the service, or the daemon exits by itself after a last look at its
\* work, or the paused daemon gets SIGTERM; then its lock is free.
MayHalt == /\ daemon.up /\ daemon.inst = helper.seen.inst
           /\ host.managed \/ ~Modern(daemon.build) \/ daemon.work = 0

StopHalts ==
    /\ helper.pc = "halt" /\ MayHalt
    /\ daemon' = [daemon EXCEPT !.up = FALSE, !.failed = FALSE, !.work = 0, !.frozen = FALSE,
                                !.maint = NoToken]
    /\ Goto("stopped")
    /\ UNCHANGED <<host, link, journal, watchdog, faults, crashes>>

\* The lock of the daemon lets only one run.
StartDaemon ==
    /\ helper.pc = "start"
    /\ daemon' = IF daemon.up THEN daemon ELSE Started(NewInstance)
    /\ Goto("wait")
    /\ UNCHANGED <<host, link, journal, watchdog, faults, crashes>>

WaitBuild ==
    /\ helper.pc = "wait"
    /\ daemon.up /\ daemon.build = "new" /\ daemon.inst # journal.old
    /\ helper' = [helper EXCEPT !.pc = "release", !.seen = Status]
    /\ UNCHANGED <<host, daemon, link, journal, watchdog, faults, crashes>>

\* An expired lease is as good as a cancelled one.
ReleaseMaintenance ==
    /\ helper.pc = "release"
    /\ daemon.up /\ daemon.inst = helper.seen.inst
    /\ Cancel(journal.token)
    /\ Goto("clear")
    /\ UNCHANGED <<host, link, journal, watchdog, faults, crashes>>

ClearJournal ==
    /\ helper.pc = "clear"
    /\ journal' = NoJournal
    /\ Leave
    /\ UNCHANGED <<host, daemon, link, watchdog, faults, crashes>>

-----------------------------------------------------------------------------
\* recover: what the daemon answers decides.
Recover ==
    /\ helper.pc = "recover" /\ ~daemon.frozen
    /\ IF ~daemon.up THEN helper' = [helper EXCEPT !.pc = "restore", !.seen = Status]
       ELSE IF daemon.inst # journal.old
            THEN IF daemon.build = "new"
                 THEN helper' = [helper EXCEPT !.pc = "adopt", !.seen = Status]
                 ELSE Leave
            ELSE helper' = [helper EXCEPT !.pc = "retain", !.seen = Status]
    /\ UNCHANGED <<host, daemon, link, journal, watchdog, faults, crashes>>

\* The replacement runs already.
RecoverAdopts ==
    /\ helper.pc = "adopt"
    /\ daemon.up /\ daemon.inst = helper.seen.inst
    /\ Cancel(journal.token)
    /\ Goto("clear")
    /\ UNCHANGED <<host, link, journal, watchdog, faults, crashes>>

\* The old daemon is still there: its maintenance is cancelled as far as possible.
RecoverRetains ==
    /\ helper.pc = "retain"
    /\ \/ Cancel(journal.token) /\ UNCHANGED faults
       \/ faults < MaxFault /\ faults' = faults + 1 /\ UNCHANGED daemon
    /\ IF journal.phase = "prepared" THEN Goto("forget")
       ELSE IF helper.seen.busy THEN Leave ELSE Goto("unlink")
    /\ UNCHANGED <<host, link, journal, watchdog, crashes>>

RecoverUnlinks ==
    /\ helper.pc = "unlink"
    /\ link' = "old"
    /\ Goto("forget")
    /\ UNCHANGED <<host, daemon, journal, watchdog, faults, crashes>>

\* No daemon: the previous release is selected and started.
RecoverRestores ==
    /\ helper.pc = "restore"
    /\ link' = "old"
    /\ Goto("restart")
    /\ UNCHANGED <<host, daemon, journal, watchdog, faults, crashes>>

RecoverRestarts ==
    /\ helper.pc = "restart"
    /\ daemon' = IF daemon.up THEN daemon ELSE Started(NewInstance)
    /\ Goto("rewait")
    /\ UNCHANGED <<host, link, journal, watchdog, faults, crashes>>

RecoverWaits ==
    /\ helper.pc = "rewait" /\ daemon.up /\ daemon.build = "old"
    /\ Goto("forget")
    /\ UNCHANGED <<host, daemon, link, journal, watchdog, faults, crashes>>

\* clear_journal; the upgrade that found the journal goes on.
RecoverForgets ==
    /\ helper.pc = "forget"
    /\ journal' = NoJournal
    /\ helper' = IF helper.fresh THEN [helper EXCEPT !.pc = "inspect", !.seen = NotSeen]
                 ELSE IdleHelper
    /\ UNCHANGED <<host, daemon, link, watchdog, faults, crashes>>

-----------------------------------------------------------------------------
HandoffSteps == {"prepare", "switching", "link", "activated", "stop", "freeze", "drain", "halt",
            "stopped", "start", "wait", "release"}
RecoverySteps == {"recover", "adopt", "restart", "rewait"}

\* A step that cannot succeed as things are.
Refused ==
    \/ helper.pc = "prepare" /\ helper.seen # NotSeen /\ Modern(helper.seen.build)
       /\ ~MayBegin(journal.token)
    \/ helper.pc = "stop" /\ ~(daemon.up /\ ~daemon.frozen /\ daemon.inst = helper.seen.inst
                               /\ IF Modern(daemon.build) THEN MayBegin(journal.token)
                                  ELSE daemon.work = 0)
    \/ helper.pc = "freeze" /\ ~daemon.up
    \/ helper.pc = "drain" /\ daemon.work # 0
    \/ helper.pc = "halt" /\ ~MayHalt
    \/ helper.pc = "wait" /\ ~(daemon.up /\ daemon.build = "new" /\ daemon.inst # journal.old)
    \/ helper.pc \in {"release", "adopt"} /\ ~(daemon.up /\ daemon.inst = helper.seen.inst)
    \/ helper.pc = "recover" /\ daemon.frozen
    \/ helper.pc = "rewait" /\ ~(daemon.up /\ daemon.build = "old")

\* The error of a step of handoff leads to recover, the error of recover ends the helper.
\* The guard of a paused daemon resumes it on every way out.
AfterError ==
    /\ daemon' = IF helper.pc \in {"drain", "halt"} THEN [daemon EXCEPT !.frozen = FALSE]
                 ELSE daemon
    /\ helper' = IF helper.pc \in HandoffSteps THEN [IdleHelper EXCEPT !.pc = "recover"]
                 ELSE IdleHelper
    /\ UNCHANGED <<host, link, journal, watchdog, crashes>>

HelperRefused == helper.pc # "idle" /\ Refused /\ AfterError /\ UNCHANGED faults

HelperFails ==
    /\ helper.pc \in HandoffSteps \cup RecoverySteps \cup {"inspect", "journal"}
    /\ faults < MaxFault /\ faults' = faults + 1
    /\ AfterError

HelperDies ==
    /\ helper.pc # "idle"
    /\ faults < MaxFault /\ faults' = faults + 1
    /\ helper' = IdleHelper
    /\ UNCHANGED <<host, daemon, link, journal, watchdog, crashes>>

\* remote-handoff-watchdog: the helper is gone, or half a minute has passed.
WatchdogResumes ==
    /\ watchdog
    /\ watchdog' = FALSE
    /\ daemon' = [daemon EXCEPT !.frozen = FALSE]
    /\ UNCHANGED <<host, link, journal, helper, faults, crashes>>

-----------------------------------------------------------------------------
HelperSteps ==
    \/ Inspect \/ WriteJournal \/ Prepare \/ WritePhase \/ Activate \/ StopBegin
    \/ StopFreezes \/ StopDrains \/ StopHalts \/ StartDaemon \/ WaitBuild
    \/ ReleaseMaintenance \/ ClearJournal \/ Recover \/ RecoverAdopts \/ RecoverRetains
    \/ RecoverUnlinks \/ RecoverRestores \/ RecoverRestarts \/ RecoverWaits
    \/ RecoverForgets \/ HelperRefused

HostNext ==
    \/ LockUpgrade \/ HelperSteps \/ HelperFails \/ HelperDies \/ WatchdogResumes
    \/ WorkStarts \/ WorkEnds \/ LeaseElapses
    \/ DaemonCrashes \/ ManagerRestarts \/ BridgeStarts

\* Every step of the helper has a deadline, and the user, told to use Install / Repair,
\* uses it.  Work of a daemon ends, leases elapse, managers restart.
HostFairness ==
    /\ WF_hostVars(HelperSteps) /\ WF_hostVars(LockUpgrade) /\ WF_hostVars(WatchdogResumes)
    /\ WF_hostVars(ManagerRestarts) /\ WF_hostVars(LeaseElapses)
    /\ SF_hostVars(WorkEnds)

HostSpec == HostInit /\ [][HostNext]_hostVars
HostFairSpec == HostSpec /\ HostFairness

-----------------------------------------------------------------------------
\* An upgrade never ends work: a daemon that goes down without a crash has none, however
\* long the helper takes and whatever the lease does meanwhile (stop,
\* remote_maintenance_active).
SparesWork == daemon.up /\ ~daemon'.up /\ crashes' = crashes => daemon.work = 0

UpgradeSparesWork == [][SparesWork]_hostVars

\* A daemon paused for the handoff runs on or is replaced, even if the helper is killed
\* (Frozen, watchdog).
PausedResumes == daemon.frozen ~> ~daemon.frozen

\* A journal left behind is settled by Install / Repair, if it is used again and again,
\* unless the daemon has work (recover; bootstrap_lock says "Use Install / Repair to
\* recover it").
JournalSettles == journal # NoJournal ~> journal = NoJournal \/ daemon.work # 0
=============================================================================
