---------------------------- MODULE Remote_proofs ----------------------------
(***************************************************************************)
(* Proofs about the daemon of an SSH host: its replacement by another      *)
(* build, the handoff of drafts to it, and the copy of its state that      *)
(* follows its events, for every bound on faults, crashes, losses,         *)
(* revisions, transfers and events and every set of requests.              *)
(***************************************************************************)
EXTENDS HostUpgrade, Handoff, RemoteMirror, FiniteSetTheorems, SequenceTheorems, TLAPS

-----------------------------------------------------------------------------
\* The replacement of the daemon.

Daemons ==
    [up : BOOLEAN, build : {"old", "new"}, inst : Instances, work : Nat, frozen : BOOLEAN,
     over : BOOLEAN, maint : Nat, failed : BOOLEAN]

Helpers ==
    [pc : HandoffSteps \cup RecoverySteps \cup
          {"idle", "inspect", "journal", "clear", "retain", "unlink", "restore", "forget"},
     seen : [inst : {NoInstance} \cup Instances, build : {"none", "old", "new"}, busy : BOOLEAN],
     fresh : BOOLEAN]

\* The types of the variables.
HostTypeOK ==
    /\ host \in [legacy : BOOLEAN, managed : BOOLEAN]
    /\ daemon \in Daemons
    /\ link \in {"old", "new"}
    /\ journal \in [phase : {"none", "prepared", "switching", "activated", "stopped"},
                    old : {NoInstance} \cup Instances, token : Nat]
    /\ helper \in Helpers
    /\ watchdog \in BOOLEAN
    /\ faults \in Nat /\ crashes \in Nat

\* A helper that changes the host has a token in its journal.
JournalHasToken == helper.pc \in HandoffSteps => journal.token # NoToken

\* The daemon that the helper has asked.
SameDaemon == daemon.up = TRUE /\ daemon.inst = helper.seen.inst

\* A legacy daemon is paused, or about to be, as long as it is the one that was asked.
PausesLegacy == helper.pc \in {"freeze", "drain"} /\ SameDaemon => ~Modern(daemon.build)

\* A daemon about to be stopped has no work and gets none: its admission is closed, or it
\* is a legacy daemon behind the fence.
HaltsIdle ==
    helper.pc = "halt" /\ SameDaemon =>
        daemon.work = 0 /\ (Modern(daemon.build) => daemon.maint # NoToken)

HostInv == HostTypeOK /\ JournalHasToken /\ PausesLegacy /\ HaltsIdle

-----------------------------------------------------------------------------
LEMMA UnusedValues ==
    /\ NewInstance \in Instances /\ NewInstance # helper.seen.inst
    /\ NewToken \in 1..2
<1>1. ASSUME NEW a, NEW b
      PROVE  \E v \in Instances : v \notin {a, b}
  <2>1. 1 \in Instances /\ 2 \in Instances /\ 3 \in Instances
    BY DEF Instances
  <2> QED
    BY <2>1
<1>2. \E v \in Instances : v \notin {journal.old, helper.seen.inst}
  BY <1>1
<1>3. NewInstance \in Instances /\ NewInstance \notin {journal.old, helper.seen.inst}
  BY <1>2 DEF NewInstance, Unused
<1>4. \E v \in 1..2 : v \notin {daemon.maint}
  <2>1. 1 \in 1..2 /\ 2 \in 1..2
    OBVIOUS
  <2> QED
    BY <2>1
<1>5. NewToken \in 1..2
  BY <1>4 DEF NewToken, Unused
<1> QED
  BY <1>3, <1>5

\* The fields of a daemon that the actions write.
LEMMA DaemonFields ==
    ASSUME NEW d \in Daemons, NEW e, NEW f \in BOOLEAN, NEW w \in Nat,
           \/ e = [d EXCEPT !.work = w]
           \/ e = [d EXCEPT !.over = TRUE]
           \/ e = [d EXCEPT !.frozen = f]
    PROVE  /\ e \in Daemons /\ e.up = d.up /\ e.build = d.build /\ e.inst = d.inst
           /\ e.work \in {w, d.work} /\ e.maint = d.maint
<1>1. CASE e = [d EXCEPT !.work = w]
  BY <1>1 DEF Daemons
<1>2. CASE e = [d EXCEPT !.over = TRUE]
  BY <1>2 DEF Daemons
<1>3. CASE e = [d EXCEPT !.frozen = f]
  BY <1>3 DEF Daemons
<1> QED
  BY <1>1, <1>2, <1>3

LEMMA DaemonGone ==
    ASSUME NEW d \in Daemons, NEW e,
           \/ e = [d EXCEPT !.up = FALSE, !.failed = TRUE, !.work = 0, !.frozen = FALSE,
                            !.maint = NoToken]
           \/ e = [d EXCEPT !.up = FALSE, !.failed = FALSE, !.work = 0, !.frozen = FALSE,
                            !.maint = NoToken]
    PROVE  e \in Daemons /\ e.up = FALSE
<1>1. CASE e = [d EXCEPT !.up = FALSE, !.failed = TRUE, !.work = 0, !.frozen = FALSE,
                         !.maint = NoToken]
  BY <1>1 DEF Daemons, NoToken
<1>2. CASE e = [d EXCEPT !.up = FALSE, !.failed = FALSE, !.work = 0, !.frozen = FALSE,
                         !.maint = NoToken]
  BY <1>2 DEF Daemons, NoToken
<1> QED
  BY <1>1, <1>2

LEMMA DaemonMaintained ==
    ASSUME NEW d \in Daemons, NEW e, NEW k \in Nat,
           e = [d EXCEPT !.maint = k, !.over = FALSE] \/ e = [d EXCEPT !.maint = k]
    PROVE  /\ e \in Daemons /\ e.up = d.up /\ e.build = d.build /\ e.inst = d.inst
           /\ e.work = d.work /\ e.maint = k
<1>1. CASE e = [d EXCEPT !.maint = k, !.over = FALSE]
  BY <1>1 DEF Daemons
<1>2. CASE e = [d EXCEPT !.maint = k]
  BY <1>2 DEF Daemons
<1> QED
  BY <1>1, <1>2

LEMMA StartedDaemon ==
    ASSUME HostInv
    PROVE  /\ Started(NewInstance) \in Daemons /\ Started(NewInstance).up = TRUE
           /\ Started(NewInstance).inst # helper.seen.inst
<1>1. journal.token \in Nat /\ link \in {"old", "new"}
  BY DEF HostInv, HostTypeOK
<1>2. NewInstance \in Instances /\ NewInstance # helper.seen.inst
  BY UnusedValues
<1> DEFINE n == NewInstance
<1> HIDE DEF n
<1>3. n \in Instances => Started(n) \in Daemons /\ Started(n).up = TRUE /\ Started(n).inst = n
  BY <1>1 DEF Started, Daemons, NoToken
<1> QED
  BY <1>2, <1>3 DEF n

Places == HandoffSteps \cup RecoverySteps \cup
          {"idle", "inspect", "journal", "clear", "retain", "unlink", "restore", "forget"}

Seen == [inst : {NoInstance} \cup Instances, build : {"none", "old", "new"}, busy : BOOLEAN]

LEMMA HelperTypes ==
    ASSUME NEW h \in Helpers
    PROVE  h.pc \in Places /\ h.seen \in Seen /\ h.fresh \in BOOLEAN
  BY DEF Helpers, Places, Seen

LEMMA HelperGoes ==
    ASSUME NEW h \in Helpers, NEW pc \in Places, NEW g, g = [h EXCEPT !.pc = pc]
    PROVE  g \in Helpers /\ g.pc = pc /\ g.seen = h.seen
  BY DEF Helpers, Places

Sees(h, pc, seen) == [h EXCEPT !.pc = pc, !.seen = seen]

LEMMA HelperSees ==
    ASSUME NEW h \in Helpers, NEW pc \in Places, NEW seen \in Seen
    PROVE  Sees(h, pc, seen) \in Helpers /\ Sees(h, pc, seen).pc = pc
  BY DEF Helpers, Places, Seen, Sees

LEMMA IdleHelpers ==
    IdleHelper \in Helpers /\ IdleHelper.pc = "idle" /\ NotSeen \in Seen
  BY DEF IdleHelper, Helpers, NotSeen, NoInstance, Seen

LEMMA FreshHelper ==
    ASSUME NEW pc \in Places, NEW g, g = [IdleHelper EXCEPT !.pc = pc, !.fresh = TRUE]
    PROVE  g \in Helpers /\ g.pc = pc
  BY DEF IdleHelper, Helpers, NotSeen, NoInstance, Places

LEMMA StatusSeen ==
    ASSUME HostInv
    PROVE  Status \in Seen
<1>1. daemon.inst \in Instances /\ daemon.build \in {"old", "new"} /\ (daemon.work > 0) \in BOOLEAN
  BY DEF HostInv, HostTypeOK, Daemons
<1> QED
  BY <1>1, IdleHelpers DEF Status, Seen

\* A step after which the helper is not about to stop the daemon, and in which the daemon
\* does not go down.
Elsewhere ==
    /\ helper' \in Helpers /\ helper'.pc \notin {"freeze", "drain", "halt"}
    /\ daemon' \in Daemons /\ (daemon.up = TRUE => daemon'.up = TRUE)
    /\ journal' \in [phase : {"none", "prepared", "switching", "activated", "stopped"},
                     old : {NoInstance} \cup Instances, token : Nat]
    /\ helper'.pc \in HandoffSteps => journal'.token # NoToken
    /\ link' \in {"old", "new"} /\ host' = host /\ watchdog' = watchdog
    /\ faults' \in Nat /\ crashes' \in Nat

LEMMA ElsewhereKeeps ==
    ASSUME HostInv, Elsewhere
    PROVE  HostInv' /\ SparesWork
<1>1. HostTypeOK'
  BY DEF HostInv, HostTypeOK, Elsewhere
<1>2. JournalHasToken' /\ PausesLegacy' /\ HaltsIdle'
  BY DEF Elsewhere, JournalHasToken, PausesLegacy, HaltsIdle
<1>3. SparesWork
  BY DEF SparesWork, Elsewhere, HostInv, HostTypeOK, Daemons
<1> QED
  BY <1>1, <1>2, <1>3 DEF HostInv

\* The steps of the helper that only move it, and change the journal and the link.
LEMMA PaperSteps ==
    ASSUME HostInv,
           \/ LockUpgrade \/ Inspect \/ WriteJournal \/ WritePhase \/ Activate \/ WaitBuild
           \/ ClearJournal \/ Recover \/ RecoverUnlinks \/ RecoverRestores \/ RecoverWaits
           \/ RecoverForgets \/ HelperDies
    PROVE  Elsewhere
<1>1. /\ helper \in Helpers /\ daemon \in Daemons /\ link \in {"old", "new"}
      /\ journal \in [phase : {"none", "prepared", "switching", "activated", "stopped"},
                      old : {NoInstance} \cup Instances, token : Nat]
      /\ faults \in Nat /\ crashes \in Nat /\ JournalHasToken
  BY DEF HostInv, HostTypeOK
<1>2. helper.pc \in Places /\ helper.seen \in Seen /\ helper.fresh \in BOOLEAN
  BY <1>1, HelperTypes
<1>3. UNCHANGED <<host, daemon, watchdog, crashes>> /\ faults' \in Nat
  BY <1>1 DEF LockUpgrade, Inspect, WriteJournal, WritePhase, Activate, WaitBuild, ClearJournal,
     Recover, RecoverUnlinks, RecoverRestores, RecoverWaits, RecoverForgets, HelperDies
<1>4. CASE LockUpgrade
  <2>1. PICK pc \in {"inspect", "recover"} : helper' = [IdleHelper EXCEPT !.pc = pc, !.fresh = TRUE]
    BY <1>4 DEF LockUpgrade
  <2>2. pc \in Places /\ pc \notin HandoffSteps
    BY DEF Places, HandoffSteps, RecoverySteps
  <2>3. helper' \in Helpers /\ helper'.pc = pc
    BY <2>1, <2>2, FreshHelper
  <2> QED
    BY <1>1, <1>3, <1>4, <2>1, <2>2, <2>3 DEF LockUpgrade, Elsewhere
<1>5. CASE Inspect
  <2>1. helper' = IdleHelper \/ helper' = Sees(helper, "journal", Status)
    BY <1>5 DEF Inspect, Sees
  <2>2. "journal" \in Places /\ "journal" \notin HandoffSteps /\ "idle" \notin HandoffSteps
    BY DEF Places, HandoffSteps, RecoverySteps
  <2>3. helper' \in Helpers /\ helper'.pc \in {"idle", "journal"}
    BY <1>1, <2>1, <2>2, StatusSeen, HelperSees, IdleHelpers
  <2> QED
    BY <1>1, <1>3, <1>5, <2>2, <2>3 DEF Inspect, Elsewhere
<1>6. CASE WriteJournal
  <2>1. "prepare" \in Places /\ helper' = [helper EXCEPT !.pc = "prepare"]
    BY <1>6 DEF WriteJournal, Goto, Places, HandoffSteps
  <2>2. helper' \in Helpers /\ helper'.pc = "prepare"
    BY <1>1, <2>1, HelperGoes
  <2>3. NewToken \in Nat /\ NewToken # NoToken
    <3>1. NewToken \in 1..2
      BY UnusedValues
    <3> QED
      BY <3>1 DEF NoToken
  <2>4. helper.seen.inst \in {NoInstance} \cup Instances
    BY <1>2 DEF Seen
  <2>5. /\ journal' \in [phase : {"none", "prepared", "switching", "activated", "stopped"},
                         old : {NoInstance} \cup Instances, token : Nat]
        /\ journal'.token # NoToken
    BY <1>6, <2>3, <2>4 DEF WriteJournal
  <2> QED
    BY <1>1, <1>3, <1>6, <2>2, <2>5 DEF WriteJournal, Elsewhere
<1>7. CASE WritePhase
  <2>1. helper.pc \in {"switching", "activated", "stopped"}
    BY <1>7 DEF WritePhase, PhaseAfter
  <2>2. PICK pc \in {"link", "stop", "start", "stopped"} : helper' = [helper EXCEPT !.pc = pc]
    BY <1>7, <2>1 DEF WritePhase, PhaseAfter, Goto
  <2>3. pc \in Places
    BY DEF Places, HandoffSteps
  <2>4. helper' \in Helpers /\ helper'.pc = pc
    BY <1>1, <2>2, <2>3, HelperGoes
  <2>5. /\ journal' \in [phase : {"none", "prepared", "switching", "activated", "stopped"},
                         old : {NoInstance} \cup Instances, token : Nat]
        /\ journal'.token = journal.token
    BY <1>1, <1>7, <2>1 DEF WritePhase
  <2>6. journal.token # NoToken
    BY <1>1, <2>1 DEF JournalHasToken, HandoffSteps
  <2> QED
    BY <1>1, <1>3, <1>7, <2>4, <2>5, <2>6 DEF WritePhase, Elsewhere
<1>8. CASE Activate
  <2>1. "activated" \in Places /\ helper' = [helper EXCEPT !.pc = "activated"]
    BY <1>8 DEF Activate, Goto, Places, HandoffSteps
  <2>2. helper' \in Helpers /\ helper'.pc = "activated"
    BY <1>1, <2>1, HelperGoes
  <2>3. journal.token # NoToken
    BY <1>1, <1>8 DEF JournalHasToken, HandoffSteps, Activate
  <2> QED
    BY <1>1, <1>3, <1>8, <2>2, <2>3 DEF Activate, Elsewhere
<1>9. CASE WaitBuild
  <2>1. "release" \in Places /\ helper' = Sees(helper, "release", Status)
    BY <1>9 DEF WaitBuild, Sees, Places, HandoffSteps
  <2>2. helper' \in Helpers /\ helper'.pc = "release"
    BY <1>1, <2>1, StatusSeen, HelperSees
  <2>3. journal.token # NoToken
    BY <1>1, <1>9 DEF JournalHasToken, HandoffSteps, WaitBuild
  <2> QED
    BY <1>1, <1>3, <1>9, <2>2, <2>3 DEF WaitBuild, Elsewhere
<1>10. NoJournal \in [phase : {"none", "prepared", "switching", "activated", "stopped"},
                      old : {NoInstance} \cup Instances, token : Nat]
  BY DEF NoJournal, NoToken
<1>11. CASE ClearJournal
  BY <1>1, <1>3, <1>10, <1>11, IdleHelpers DEF ClearJournal, Leave, Elsewhere, HandoffSteps
<1>12. CASE Recover
  <2>1. helper' = IdleHelper \/ \E pc \in {"restore", "adopt", "retain"} :
           helper' = Sees(helper, pc, Status)
    BY <1>12 DEF Recover, Leave, Sees
  <2>2. \A pc \in {"restore", "adopt", "retain"} : pc \in Places /\ pc \notin HandoffSteps
    BY DEF Places, HandoffSteps, RecoverySteps
  <2>3. helper' \in Helpers /\ helper'.pc \in {"idle", "restore", "adopt", "retain"}
    <3>1. CASE helper' = IdleHelper
      BY <3>1, IdleHelpers
    <3>2. ASSUME NEW pc \in {"restore", "adopt", "retain"}, helper' = Sees(helper, pc, Status)
          PROVE  helper' \in Helpers /\ helper'.pc = pc
      BY <1>1, <2>2, <3>2, StatusSeen, HelperSees
    <3> QED
      BY <2>1, <3>1, <3>2
  <2> QED
    BY <1>1, <1>3, <1>12, <2>2, <2>3 DEF Recover, Elsewhere, HandoffSteps
<1>13. CASE RecoverUnlinks \/ RecoverRestores \/ RecoverWaits
  <2>1. PICK pc \in {"forget", "restart"} : helper' = [helper EXCEPT !.pc = pc]
    BY <1>13 DEF RecoverUnlinks, RecoverRestores, RecoverWaits, Goto
  <2>2. pc \in Places /\ pc \notin HandoffSteps
    BY DEF Places, HandoffSteps, RecoverySteps
  <2>3. helper' \in Helpers /\ helper'.pc = pc
    BY <1>1, <2>1, <2>2, HelperGoes
  <2> QED
    BY <1>1, <1>3, <1>13, <2>2, <2>3 DEF RecoverUnlinks, RecoverRestores, RecoverWaits, Elsewhere
<1>14. CASE RecoverForgets
  <2>1. helper' = IdleHelper \/ helper' = Sees(helper, "inspect", NotSeen)
    BY <1>14 DEF RecoverForgets, Sees
  <2>2. "inspect" \in Places /\ "inspect" \notin HandoffSteps /\ "idle" \notin HandoffSteps
    BY DEF Places, HandoffSteps, RecoverySteps
  <2>3. helper' \in Helpers /\ helper'.pc \in {"idle", "inspect"}
    BY <1>1, <2>1, <2>2, HelperSees, IdleHelpers
  <2> QED
    BY <1>1, <1>3, <1>10, <1>14, <2>2, <2>3 DEF RecoverForgets, Elsewhere
<1>15. CASE HelperDies
  BY <1>1, <1>3, <1>15, IdleHelpers DEF HelperDies, Elsewhere, HandoffSteps
<1> QED
  BY <1>4, <1>5, <1>6, <1>7, <1>8, <1>9, <1>11, <1>12, <1>13, <1>14, <1>15

\* The daemon after a cancel, or when it is started unless it runs.
LEMMA DaemonAnswers ==
    ASSUME HostInv,
           \/ UNCHANGED daemon
           \/ Cancel(journal.token)
           \/ Begin(journal.token)
           \/ daemon' = IF daemon.up THEN daemon ELSE Started(NewInstance)
           \/ daemon' = [daemon EXCEPT !.frozen = FALSE]
    PROVE  daemon' \in Daemons /\ (daemon.up = TRUE => daemon'.up = TRUE)
<1>1. daemon \in Daemons /\ journal.token \in Nat /\ NoToken \in Nat
  BY DEF HostInv, HostTypeOK, NoToken
<1>2. CASE UNCHANGED daemon
  BY <1>1, <1>2
<1>3. CASE Cancel(journal.token)
  BY <1>1, <1>3, DaemonMaintained DEF Cancel
<1>4. CASE Begin(journal.token)
  BY <1>1, <1>4, DaemonMaintained DEF Begin
<1>5. CASE daemon' = IF daemon.up THEN daemon ELSE Started(NewInstance)
  BY <1>1, <1>5, StartedDaemon
<1>6. CASE daemon' = [daemon EXCEPT !.frozen = FALSE]
  <2>1. 0 \in Nat /\ FALSE \in BOOLEAN
    OBVIOUS
  <2> QED
    BY <1>1, <1>6, <2>1, DaemonFields
<1> QED
  BY <1>2, <1>3, <1>4, <1>5, <1>6

\* The steps of the helper that ask the daemon, start it, or give up.
LEMMA DaemonSteps ==
    ASSUME HostInv,
           \/ Prepare \/ StartDaemon \/ ReleaseMaintenance \/ RecoverAdopts \/ RecoverRetains
           \/ RecoverRestarts \/ HelperRefused \/ HelperFails
    PROVE  Elsewhere
<1>1. /\ helper \in Helpers /\ daemon \in Daemons /\ link \in {"old", "new"}
      /\ journal \in [phase : {"none", "prepared", "switching", "activated", "stopped"},
                      old : {NoInstance} \cup Instances, token : Nat]
      /\ faults \in Nat /\ crashes \in Nat /\ JournalHasToken
  BY DEF HostInv, HostTypeOK
<1>2. UNCHANGED <<host, link, journal, watchdog, crashes>> /\ faults' \in Nat
  BY <1>1 DEF Prepare, StartDaemon, ReleaseMaintenance, RecoverAdopts, RecoverRetains, RecoverRestarts,
     HelperRefused, HelperFails, AfterError
<1>3. daemon' \in Daemons /\ (daemon.up = TRUE => daemon'.up = TRUE)
  BY DaemonAnswers DEF Prepare, StartDaemon, ReleaseMaintenance, RecoverAdopts, RecoverRetains,
     RecoverRestarts, HelperRefused, HelperFails, AfterError
<1>4. /\ helper' \in Helpers /\ helper'.pc \notin {"freeze", "drain", "halt"}
      /\ helper'.pc \in HandoffSteps => helper.pc \in HandoffSteps
  <2>1. \A pc \in {"switching", "wait", "clear", "forget", "unlink", "rewait", "recover"} : pc \in Places
    BY DEF Places, HandoffSteps, RecoverySteps
  <2>2. ASSUME NEW pc \in {"clear", "forget", "unlink", "rewait"}, Goto(pc)
        PROVE  <1>4
    <3>1. pc \notin HandoffSteps
      BY DEF HandoffSteps
    <3>2. helper' \in Helpers /\ helper'.pc = pc
      BY <1>1, <2>1, <2>2, HelperGoes DEF Goto
    <3> QED
      BY <3>1, <3>2
  <2>3. ASSUME NEW pc \in {"switching", "wait"}, Goto(pc), helper.pc \in HandoffSteps
        PROVE  <1>4
    BY <1>1, <2>1, <2>3, HelperGoes DEF Goto
  <2>4. ASSUME helper' = IdleHelper
        PROVE  <1>4
    BY <2>4, IdleHelpers DEF HandoffSteps
  <2>5. ASSUME helper' = [IdleHelper EXCEPT !.pc = "recover"]
        PROVE  <1>4
    BY <2>1, <2>5, IdleHelpers, HelperGoes DEF HandoffSteps
  <2>6. CASE Prepare \/ StartDaemon
    BY <2>3, <2>6 DEF Prepare, StartDaemon, HandoffSteps
  <2>7. CASE ReleaseMaintenance \/ RecoverAdopts \/ RecoverRestarts
    BY <2>2, <2>7 DEF ReleaseMaintenance, RecoverAdopts, RecoverRestarts
  <2>8. CASE RecoverRetains
    BY <2>2, <2>4, <2>8 DEF RecoverRetains, Leave
  <2>9. CASE HelperRefused \/ HelperFails
    BY <2>4, <2>5, <2>9 DEF HelperRefused, HelperFails, AfterError
  <2> QED
    BY <2>6, <2>7, <2>8, <2>9
<1> QED
  BY <1>1, <1>2, <1>3, <1>4 DEF Elsewhere, JournalHasToken

\* A daemon that changes while the helper stays where it is.
LEMMA DaemonChanges ==
    ASSUME HostInv, UNCHANGED <<host, link, journal, helper>>, watchdog' \in BOOLEAN, faults' = faults,
           crashes' \in Nat, daemon' \in Daemons,
           \/ daemon'.inst # helper.seen.inst
           \/ daemon'.up = FALSE
           \/ /\ daemon'.up = daemon.up /\ daemon'.inst = daemon.inst /\ daemon'.build = daemon.build
              /\ daemon'.maint = daemon.maint
              /\ \/ daemon'.work \in {0, daemon.work}
                 \/ ~MaintenanceActive /\ ~Fenced
    PROVE  HostInv'
<1>1. HostTypeOK' /\ JournalHasToken'
  BY DEF HostInv, HostTypeOK, JournalHasToken
<1>2. PausesLegacy'
  BY DEF HostInv, PausesLegacy, SameDaemon, Modern
<1>3. HaltsIdle'
  BY DEF HostInv, HaltsIdle, SameDaemon, Modern, MaintenanceActive, LockHeld, Fenced
<1> QED
  BY <1>1, <1>2, <1>3 DEF HostInv

LEMMA DaemonActs ==
    ASSUME HostInv,
           \/ WorkStarts \/ WorkEnds \/ LeaseElapses \/ DaemonCrashes \/ ManagerRestarts
           \/ BridgeStarts \/ WatchdogResumes
    PROVE  HostInv' /\ SparesWork
<1>1. daemon \in Daemons /\ crashes \in Nat /\ watchdog \in BOOLEAN
  BY DEF HostInv, HostTypeOK
<1>2. 0 \in Nat /\ 1 \in Nat /\ FALSE \in BOOLEAN
  OBVIOUS
<1>3. UNCHANGED <<host, link, journal, helper, faults>> /\ watchdog' \in BOOLEAN /\ crashes' \in Nat
  <2>1. /\ UNCHANGED <<host, link, journal, helper, faults>>
        /\ watchdog' = watchdog \/ watchdog' = FALSE
        /\ crashes' = crashes \/ crashes' = crashes + 1
    BY DEF WorkStarts, WorkEnds, LeaseElapses, DaemonCrashes, ManagerRestarts, BridgeStarts,
       WatchdogResumes
  <2>2. watchdog' \in BOOLEAN
    BY <1>1, <2>1
  <2>3. crashes' \in Nat
    BY <1>1, <2>1
  <2> QED
    BY <2>1, <2>2, <2>3
<1>4. CASE WorkStarts \/ WorkEnds \/ LeaseElapses \/ WatchdogResumes
  <2>1. /\ daemon' \in Daemons
        /\ daemon'.up = daemon.up /\ daemon'.inst = daemon.inst /\ daemon'.build = daemon.build
        /\ daemon'.maint = daemon.maint
        /\ \/ daemon'.work \in {0, daemon.work}
           \/ ~MaintenanceActive /\ ~Fenced
    <3>1. CASE WorkStarts
      BY <1>1, <1>2, <3>1, DaemonFields DEF WorkStarts
    <3>2. CASE WorkEnds
      BY <1>1, <1>2, <3>2, DaemonFields DEF WorkEnds
    <3>3. CASE LeaseElapses
      BY <1>1, <1>2, <3>3, DaemonFields DEF LeaseElapses
    <3>4. CASE WatchdogResumes
      BY <1>1, <1>2, <3>4, DaemonFields DEF WatchdogResumes
    <3> QED
      BY <1>4, <3>1, <3>2, <3>3, <3>4
  <2>2. SparesWork
    BY <2>1 DEF SparesWork
  <2> QED
    BY <1>3, <2>1, <2>2, DaemonChanges
<1>5. CASE DaemonCrashes
  <2>1. daemon' \in Daemons /\ daemon'.up = FALSE /\ crashes' # crashes
    <3>1. /\ daemon' = [daemon EXCEPT !.up = FALSE, !.failed = TRUE, !.work = 0, !.frozen = FALSE,
                                      !.maint = NoToken]
          /\ crashes' = crashes + 1
      BY <1>5 DEF DaemonCrashes
    <3>2. crashes' # crashes
      BY <1>1, <3>1
    <3>3. daemon' \in Daemons /\ daemon'.up = FALSE
      BY <1>1, <3>1, DaemonGone
    <3> QED
      BY <3>2, <3>3
  <2> QED
    BY <1>3, <2>1, DaemonChanges DEF SparesWork
<1>6. CASE ManagerRestarts \/ BridgeStarts
  <2>1. daemon' \in Daemons /\ daemon'.inst # helper.seen.inst /\ daemon'.up = TRUE
    BY <1>6, StartedDaemon DEF ManagerRestarts, BridgeStarts
  <2> QED
    BY <1>3, <2>1, DaemonChanges DEF SparesWork
<1> QED
  BY <1>4, <1>5, <1>6

\* stop: the steps that lead to the end of the daemon.
LEMMA StopSteps ==
    ASSUME HostInv, StopBegin \/ StopFreezes \/ StopDrains \/ StopHalts
    PROVE  HostInv' /\ SparesWork
<1>1. /\ helper \in Helpers /\ daemon \in Daemons /\ JournalHasToken /\ journal.token \in Nat
      /\ watchdog \in BOOLEAN
  BY DEF HostInv, HostTypeOK
<1>2. \A pc \in {"freeze", "drain", "halt", "stopped"} : pc \in Places /\ pc \in HandoffSteps
  BY DEF Places, HandoffSteps
<1>3. ASSUME NEW pc \in {"freeze", "drain", "halt", "stopped"}, Goto(pc),
             helper.pc \in {"stop", "freeze", "drain", "halt"}, daemon' \in Daemons,
             UNCHANGED <<host, link, journal, faults, crashes>>, watchdog' \in BOOLEAN
      PROVE  /\ helper'.pc = pc /\ helper'.seen = helper.seen
             /\ HostTypeOK' /\ JournalHasToken' /\ journal.token # NoToken
  <2>1. helper' \in Helpers /\ helper'.pc = pc /\ helper'.seen = helper.seen
    BY <1>1, <1>2, <1>3, HelperGoes DEF Goto
  <2>2. journal.token # NoToken
    BY <1>1, <1>3 DEF JournalHasToken, HandoffSteps
  <2>3. HostTypeOK'
    BY <1>3, <2>1 DEF HostInv, HostTypeOK
  <2> QED
    BY <1>3, <2>1, <2>2, <2>3 DEF JournalHasToken
<1>4. ASSUME StopBegin, Modern(daemon.build)
      PROVE  HostInv' /\ SparesWork
  <2>1. /\ helper.pc = "stop" /\ MayBegin(journal.token) /\ Begin(journal.token) /\ Goto("halt")
        /\ UNCHANGED <<host, link, journal, watchdog, faults, crashes>>
    BY <1>4 DEF StopBegin
  <2>2. /\ daemon' \in Daemons /\ daemon'.up = daemon.up /\ daemon'.work = daemon.work
        /\ daemon'.maint = journal.token
    BY <1>1, <2>1 DEF Begin, Daemons
  <2>3. /\ helper'.pc = "halt" /\ HostTypeOK' /\ JournalHasToken' /\ journal.token # NoToken
    BY <1>1, <1>3, <2>1, <2>2
  <2>4. daemon.work = 0
    BY <2>1 DEF MayBegin
  <2>5. PausesLegacy' /\ HaltsIdle' /\ SparesWork
    BY <2>2, <2>3, <2>4 DEF PausesLegacy, HaltsIdle, SparesWork
  <2> QED
    BY <2>3, <2>5 DEF HostInv
<1>5. ASSUME StopBegin, ~Modern(daemon.build)
      PROVE  HostInv' /\ SparesWork
  <2>1. /\ helper.pc = "stop" /\ Goto("freeze")
        /\ UNCHANGED <<host, daemon, link, journal, watchdog, faults, crashes>>
    BY <1>5 DEF StopBegin
  <2>2. helper'.pc = "freeze" /\ HostTypeOK' /\ JournalHasToken'
    BY <1>1, <1>3, <2>1
  <2>3. PausesLegacy' /\ HaltsIdle' /\ SparesWork
    BY <1>5, <2>1, <2>2 DEF PausesLegacy, HaltsIdle, SparesWork, Modern
  <2> QED
    BY <2>2, <2>3 DEF HostInv
<1>6. CASE StopFreezes
  <2>1. /\ helper.pc = "freeze" /\ Goto("drain") /\ daemon' = [daemon EXCEPT !.frozen = TRUE]
        /\ UNCHANGED <<host, link, journal, faults, crashes>> /\ watchdog' = TRUE
    BY <1>6 DEF StopFreezes
  <2>2. 0 \in Nat /\ TRUE \in BOOLEAN
    OBVIOUS
  <2>3. /\ daemon' \in Daemons /\ daemon'.up = daemon.up /\ daemon'.inst = daemon.inst
        /\ daemon'.build = daemon.build
    BY <1>1, <2>1, <2>2, DaemonFields
  <2>4. watchdog' \in BOOLEAN
    BY <2>1
  <2>5. /\ helper'.pc = "drain" /\ helper'.seen = helper.seen /\ HostTypeOK' /\ JournalHasToken'
    BY <1>3, <2>1, <2>3, <2>4
  <2>6. PausesLegacy' /\ HaltsIdle' /\ SparesWork
    BY <2>1, <2>3, <2>5 DEF HostInv, PausesLegacy, HaltsIdle, SparesWork, Modern, SameDaemon
  <2> QED
    BY <2>5, <2>6 DEF HostInv
<1>7. CASE StopDrains
  <2>1. /\ helper.pc = "drain" /\ Goto("halt") /\ daemon.work = 0
        /\ UNCHANGED <<host, daemon, link, journal, watchdog, faults, crashes>>
    BY <1>7 DEF StopDrains
  <2>2. /\ helper'.pc = "halt" /\ helper'.seen = helper.seen /\ HostTypeOK' /\ JournalHasToken'
    BY <1>1, <1>3, <2>1
  <2>3. PausesLegacy' /\ HaltsIdle' /\ SparesWork
    BY <2>1, <2>2 DEF HostInv, PausesLegacy, HaltsIdle, SparesWork, Modern, SameDaemon
  <2> QED
    BY <2>2, <2>3 DEF HostInv
<1>8. CASE StopHalts
  <2>1. /\ helper.pc = "halt" /\ Goto("stopped") /\ MayHalt
        /\ daemon' = [daemon EXCEPT !.up = FALSE, !.failed = FALSE, !.work = 0, !.frozen = FALSE,
                                    !.maint = NoToken]
        /\ UNCHANGED <<host, link, journal, watchdog, faults, crashes>>
    BY <1>8 DEF StopHalts
  <2>2. daemon' \in Daemons
    BY <1>1, <2>1, DaemonGone
  <2>3. helper'.pc = "stopped" /\ HostTypeOK' /\ JournalHasToken'
    BY <1>1, <1>3, <2>1, <2>2
  <2>4. SameDaemon
    BY <1>1, <2>1 DEF MayHalt, SameDaemon, Daemons
  <2>5. SparesWork
    BY <2>1, <2>4 DEF SparesWork, HostInv, HaltsIdle
  <2> QED
    BY <2>3, <2>5 DEF HostInv, PausesLegacy, HaltsIdle
<1> QED
  BY <1>4, <1>5, <1>6, <1>7, <1>8

LEMMA HostNextKeeps ==
    ASSUME HostInv, [HostNext]_hostVars
    PROVE  HostInv' /\ [SparesWork]_hostVars
<1>1. CASE UNCHANGED hostVars
  BY <1>1 DEF hostVars, HostInv, HostTypeOK, JournalHasToken, PausesLegacy, HaltsIdle, SameDaemon, Modern
<1>2. CASE HelperSteps \/ LockUpgrade \/ HelperFails \/ HelperDies
  BY <1>2, PaperSteps, DaemonSteps, ElsewhereKeeps, StopSteps DEF HelperSteps
<1>3. CASE \/ WorkStarts \/ WorkEnds \/ LeaseElapses \/ DaemonCrashes \/ ManagerRestarts
           \/ BridgeStarts \/ WatchdogResumes
  BY <1>3, DaemonActs
<1> QED
  BY <1>1, <1>2, <1>3 DEF HostNext

LEMMA HostInitially ==
    ASSUME HostInit
    PROVE  HostInv
<1>1. 1 \in Instances
  BY DEF Instances
<1>2. daemon \in Daemons
  BY <1>1 DEF HostInit, Daemons, NoToken
<1>3. journal \in [phase : {"none", "prepared", "switching", "activated", "stopped"},
                   old : {NoInstance} \cup Instances, token : Nat]
  BY DEF HostInit, NoJournal, NoToken
<1>4. HostTypeOK
  BY <1>2, <1>3, IdleHelpers DEF HostInit, HostTypeOK
<1>5. JournalHasToken /\ PausesLegacy /\ HaltsIdle
  BY IdleHelpers DEF HostInit, JournalHasToken, PausesLegacy, HaltsIdle, HandoffSteps
<1> QED
  BY <1>4, <1>5 DEF HostInv

\* An upgrade never ends work, for any number of failed steps, deaths of helpers and
\* crashes of the daemon, on hosts with or without a manager, from a legacy build or not.
THEOREM UpgradesSpareWork == HostSpec => UpgradeSparesWork
<1>1. HostInit => HostInv
  BY HostInitially
<1>2. HostInv /\ [HostNext]_hostVars => HostInv' /\ [SparesWork]_hostVars
  BY HostNextKeeps
<1> QED
  BY <1>1, <1>2, PTL DEF HostSpec, UpgradeSparesWork

-----------------------------------------------------------------------------
\* The handoff.

Contents == MacContents \cup HostContents
Copies == [content : Contents, active : BOOLEAN, rev : Nat]
DraftTasks == [pending : BOOLEAN, content : Contents, rev : Nat]
Transfers == [id : 1..MaxTransfer, task : DraftTasks, expected : Copies \cup {Null}]

CallerRecords ==
    {IdleCaller} \cup [pc : {"look", "save", "send"}, rev : Nat]
    \cup [pc : {"journal", "get"}, task : DraftTasks]
    \cup [pc : {"persist"}, task : DraftTasks, expected : Copies \cup {Null}]
    \cup [pc : {"transfer"}, task : DraftTasks, transfer : Transfers, round : {1, 2}]
    \cup [pc : {"verify"}, task : DraftTasks, round : {1, 2}, transfer : Transfers, receipt : Copies]
    \cup [pc : {"commit", "replace"}, task : DraftTasks, round : {1, 2}, current : Copies]

LateMessages ==
    [kind : {"transfer"}, transfer : Transfers] \cup [kind : {"start"}, by : Callers, rev : Nat]

\* The types of the variables.
HandoffTypeOK ==
    /\ local \in DraftTasks
    /\ handoff \in Transfers \cup {Null}
    /\ remote \in Copies \cup {Null}
    /\ receipts \in [1..MaxTransfer -> Copies \cup {Null}]
    /\ late \subseteq LateMessages
    /\ caller \in [Callers -> CallerRecords]
    /\ wish \in [Callers -> [rev : Nat, content : Contents] \cup {Null}]
    /\ forwarded \in [Callers -> Nat \cup {Null}]
    /\ applied \in [Callers -> Seq(Contents)]
    /\ used \in Nat
    /\ meddled \in {"no", "changed", "deleted"}

\* A transfer that the journal, a thread or the network has.
IsSent(t) ==
    \/ handoff # Null /\ t = handoff
    \/ \E c \in Callers : caller[c].pc \in {"transfer", "verify"} /\ caller[c].transfer = t
    \/ \E m \in late : m.kind = "transfer" /\ m.transfer = t

\* What is transferred is a draft written on the Mac, and the copy it expects has such a
\* content too.
SoundTransfer(t) ==
    /\ t.id <= used /\ t.task.pending = TRUE /\ t.task.content \in MacContents
    /\ t.expected # Null => t.expected.content \in MacContents
    /\ receipts[t.id] # Null =>
         receipts[t.id].content = t.task.content /\ t.task.rev <= receipts[t.id].rev

\* A transfer id stands for one task, and an id that is not in use has no receipt.
TransfersSound ==
    /\ \A t \in Transfers : IsSent(t) => SoundTransfer(t)
    /\ \A t, u \in Transfers : IsSent(t) /\ IsSent(u) /\ t.id = u.id => t.task = u.task
    /\ \A i \in 1..MaxTransfer : receipts[i] # Null => i <= used /\ receipts[i].content \in MacContents

\* Revision r of the copy on the host had this content: it still has, or has moved on.
Agrees(r, content) ==
    meddled # "deleted" =>
        /\ remote # Null
        /\ r <= remote.rev
        /\ r = remote.rev => content = remote.content

\* What a client saw is what the Mac has, or an earlier revision.
WishSound(w) ==
    /\ local.pending = TRUE => w.rev <= local.rev /\ (w.rev = local.rev => w.content = local.content)
    /\ local.pending = FALSE => Agrees(w.rev, w.content)

\* What a thread has in hand.
StageSound(c) ==
    LET me == caller[c] IN
    /\ me.pc = "look" => wish[c] # Null /\ me.rev = wish[c].rev
    /\ me.pc \in {"journal", "get", "persist", "transfer", "verify", "commit", "replace"} =>
         /\ wish[c] # Null /\ me.task.content = wish[c].content
         /\ me.task.pending = TRUE /\ me.task.content \in MacContents
    /\ me.pc = "persist" /\ me.expected # Null => me.expected.content \in MacContents
    /\ me.pc = "verify" =>
         /\ me.receipt.content = me.transfer.task.content
         /\ me.transfer.task.rev <= me.receipt.rev
         /\ meddled # "deleted" => remote # Null /\ me.receipt.rev <= remote.rev
    /\ me.pc \in {"commit", "replace"} => me.current.content \in MacContents
    /\ me.pc = "commit" =>
         /\ me.current.content = me.task.content
         /\ Agrees(me.current.rev, me.current.content)
         /\ meddled # "deleted" => me.task.rev <= me.current.rev
    /\ me.pc \in {"save", "send"} =>
         /\ local.pending = FALSE /\ wish[c] # Null
         /\ Agrees(me.rev, wish[c].content)

\* What was forwarded or has started was approved, and is not taken back.
RequestSound(c) ==
    /\ wish[c] # Null => WishSound(wish[c])
    /\ forwarded[c] # Null =>
         local.pending = FALSE /\ wish[c] # Null /\ Agrees(forwarded[c], wish[c].content)
    /\ applied[c] # <<>> =>
         /\ local.pending = FALSE /\ caller[c].pc \in {"idle", "save", "send"}
         /\ meddled # "deleted" => wish[c] # Null /\ applied[c] = <<wish[c].content>>

LateSound(m) ==
    m.kind = "start" =>
        /\ local.pending = FALSE /\ caller[m.by].pc \in {"idle", "save", "send"}
        /\ wish[m.by] # Null /\ Agrees(m.rev, wish[m.by].content)

\* The Mac and the receipts follow the copy.
CopyLeads ==
    /\ local.pending = TRUE => local.content \in MacContents
    /\ local.pending = FALSE => Agrees(local.rev, local.content)
    /\ meddled # "deleted" =>
         \A i \in 1..MaxTransfer : receipts[i] # Null =>
            remote # Null /\ receipts[i].rev <= remote.rev

HandoffInv ==
    /\ HandoffTypeOK /\ TransfersSound /\ CopyLeads
    /\ \A c \in Callers : StageSound(c) /\ RequestSound(c)
    /\ \A m \in late : LateSound(m)

-----------------------------------------------------------------------------
Wishes == [rev : Nat, content : Contents]

\* The fields of a thread, by what it does.
LEMMA CallerFields ==
    ASSUME NEW r \in CallerRecords
    PROVE  /\ r.pc \in {"idle", "look", "save", "send", "journal", "get", "persist", "transfer",
                        "verify", "commit", "replace"}
           /\ r.pc \in {"look", "save", "send"} => r.rev \in Nat
           /\ r.pc \in {"journal", "get", "persist", "transfer", "verify", "commit", "replace"} =>
                r.task \in DraftTasks
           /\ r.pc = "persist" => r.expected \in Copies \cup {Null}
           /\ r.pc \in {"transfer", "verify"} => r.transfer \in Transfers /\ r.round \in {1, 2}
           /\ r.pc = "verify" => r.receipt \in Copies
           /\ r.pc \in {"commit", "replace"} => r.current \in Copies /\ r.round \in {1, 2}
<1>1. CASE r = IdleCaller
  BY <1>1 DEF IdleCaller
<1>2. CASE r \in [pc : {"look", "save", "send"}, rev : Nat]
  BY <1>2
<1>3. CASE r \in [pc : {"journal", "get"}, task : DraftTasks]
  BY <1>3
<1>4. CASE r \in [pc : {"persist"}, task : DraftTasks, expected : Copies \cup {Null}]
  BY <1>4
<1>5. CASE r \in [pc : {"transfer"}, task : DraftTasks, transfer : Transfers, round : {1, 2}]
  BY <1>5
<1>6. CASE r \in [pc : {"verify"}, task : DraftTasks, round : {1, 2}, transfer : Transfers,
                  receipt : Copies]
  BY <1>6
<1>7. CASE r \in [pc : {"commit", "replace"}, task : DraftTasks, round : {1, 2}, current : Copies]
  BY <1>7
<1> QED
  BY <1>1, <1>2, <1>3, <1>4, <1>5, <1>6, <1>7 DEF CallerRecords

\* What the steps of a thread write.
LEMMA CallersWritten ==
    /\ IdleCaller \in CallerRecords /\ IdleCaller.pc = "idle"
    /\ \A pc \in {"look", "save", "send"}, rev \in Nat : [pc |-> pc, rev |-> rev] \in CallerRecords
    /\ \A task \in DraftTasks :
         /\ \A pc \in {"journal", "get"} : [pc |-> pc, task |-> task] \in CallerRecords
         /\ \A expected \in Copies \cup {Null} :
              [pc |-> "persist", task |-> task, expected |-> expected] \in CallerRecords
         /\ \A transfer \in Transfers, round \in {1, 2} :
              /\ [pc |-> "transfer", task |-> task, transfer |-> transfer, round |-> round]
                   \in CallerRecords
              /\ \A receipt \in Copies :
                   [pc |-> "verify", task |-> task, round |-> round, transfer |-> transfer,
                    receipt |-> receipt] \in CallerRecords
         /\ \A pc \in {"commit", "replace"}, round \in {1, 2}, current \in Copies :
              [pc |-> pc, task |-> task, round |-> round, current |-> current] \in CallerRecords
<1>1. IdleCaller \in CallerRecords /\ IdleCaller.pc = "idle"
  BY DEF CallerRecords, IdleCaller
<1>2. \A pc \in {"look", "save", "send"}, rev \in Nat : [pc |-> pc, rev |-> rev] \in CallerRecords
  BY DEF CallerRecords
<1>3. ASSUME NEW task \in DraftTasks
      PROVE  /\ \A pc \in {"journal", "get"} : [pc |-> pc, task |-> task] \in CallerRecords
             /\ \A expected \in Copies \cup {Null} :
                  [pc |-> "persist", task |-> task, expected |-> expected] \in CallerRecords
  BY DEF CallerRecords
<1>4. ASSUME NEW task \in DraftTasks, NEW transfer \in Transfers, NEW round \in {1, 2}
      PROVE  [pc |-> "transfer", task |-> task, transfer |-> transfer, round |-> round]
                \in CallerRecords
  BY DEF CallerRecords
<1>5. ASSUME NEW task \in DraftTasks, NEW transfer \in Transfers, NEW round \in {1, 2},
             NEW receipt \in Copies
      PROVE  [pc |-> "verify", task |-> task, round |-> round, transfer |-> transfer,
              receipt |-> receipt] \in CallerRecords
  BY DEF CallerRecords
<1>6. ASSUME NEW task \in DraftTasks, NEW pc \in {"commit", "replace"}, NEW round \in {1, 2},
             NEW current \in Copies
      PROVE  [pc |-> pc, task |-> task, round |-> round, current |-> current] \in CallerRecords
  BY DEF CallerRecords
<1> QED
  BY <1>1, <1>2, <1>3, <1>4, <1>5, <1>6

\* The copy on the host stays, or is the first, or has a later revision, or was deleted.
CopyGrows ==
    meddled' # "deleted" =>
        /\ meddled # "deleted"
        /\ remote' = remote \/ (remote' # Null /\ (remote # Null => remote.rev < remote'.rev))

AgreesNext(r, content) ==
    meddled' # "deleted" =>
        /\ remote' # Null
        /\ r <= remote'.rev
        /\ r = remote'.rev => content = remote'.content

LEMMA AgreesKept ==
    ASSUME HandoffInv, CopyGrows, remote' \in Copies \cup {Null}, NEW r \in Nat, NEW content,
           Agrees(r, content)
    PROVE  AgreesNext(r, content)
<1>1. CASE meddled' = "deleted"
  BY <1>1 DEF AgreesNext
<1>2. CASE meddled' # "deleted" /\ remote' = remote
  BY <1>2 DEF AgreesNext, Agrees, CopyGrows
<1>3. CASE meddled' # "deleted" /\ remote' # remote
  <2>1. remote # Null /\ remote' # Null /\ r <= remote.rev /\ remote.rev < remote'.rev
    BY <1>3 DEF Agrees, CopyGrows
  <2>2. remote.rev \in Nat /\ remote'.rev \in Nat
    BY <2>1 DEF HandoffInv, HandoffTypeOK, Copies
  <2> QED
    BY <2>1, <2>2 DEF AgreesNext
<1> QED
  BY <1>1, <1>2, <1>3

\* A wish stays sound.
WishNext(w) ==
    /\ local'.pending = TRUE =>
         w.rev <= local'.rev /\ (w.rev = local'.rev => w.content = local'.content)
    /\ local'.pending = FALSE => AgreesNext(w.rev, w.content)

WishesKept == \A w \in Wishes : WishSound(w) => WishNext(w)

LEMMA SameDraftKeepsWishes ==
    ASSUME HandoffInv, CopyGrows, remote' \in Copies \cup {Null}, local'.pending = local.pending,
           local' = local \/ local.pending = FALSE
    PROVE  WishesKept
<1> SUFFICES ASSUME NEW w \in Wishes, WishSound(w)
             PROVE  WishNext(w)
  BY DEF WishesKept
<1>1. w.rev \in Nat
  BY DEF Wishes
<1>2. CASE local.pending = TRUE
  BY <1>2 DEF WishSound, WishNext
<1>3. CASE local.pending = FALSE
  <2>1. AgreesNext(w.rev, w.content)
    BY <1>1, <1>3, AgreesKept DEF WishSound
  <2> QED
    BY <1>3, <2>1 DEF WishNext
<1> QED
  BY <1>2, <1>3 DEF HandoffInv, HandoffTypeOK, DraftTasks

-----------------------------------------------------------------------------
\* A thread that has no draft in hand: only its request can have started.
Resting == {"idle", "save", "send"}

\* What every step of the handoff does to the copy and to the wishes.
StepGrows ==
    /\ HandoffTypeOK' /\ CopyGrows /\ WishesKept
    /\ local.pending = FALSE => local'.pending = FALSE

\* A request that is not touched stays sound.
LEMMA RequestKept ==
    ASSUME HandoffInv, StepGrows, NEW d \in Callers, wish'[d] = wish[d],
           forwarded'[d] = forwarded[d], applied'[d] = applied[d],
           applied[d] # <<>> => caller'[d].pc \in Resting
    PROVE  RequestSound(d)'
<1>1. RequestSound(d)
  BY DEF HandoffInv
<1>2. wish[d] # Null => wish[d] \in Wishes
  BY DEF HandoffInv, HandoffTypeOK, Wishes
<1>3. wish'[d] # Null => WishSound(wish[d])'
  <2>1. wish[d] # Null => WishNext(wish[d])
    BY <1>1, <1>2 DEF StepGrows, WishesKept, RequestSound
  <2> QED
    BY <2>1 DEF WishNext, AgreesNext, WishSound, Agrees
<1>4. forwarded[d] # Null =>
        local'.pending = FALSE /\ wish[d] # Null /\ AgreesNext(forwarded[d], wish[d].content)
  <2>1. forwarded[d] # Null => forwarded[d] \in Nat
    BY DEF HandoffInv, HandoffTypeOK
  <2>2. remote' \in Copies \cup {Null}
    BY DEF StepGrows, HandoffTypeOK
  <2> QED
    BY <1>1, <2>1, <2>2, AgreesKept DEF RequestSound, StepGrows
<1>5. applied[d] # <<>> =>
        /\ local'.pending = FALSE
        /\ meddled' # "deleted" => wish[d] # Null /\ applied[d] = <<wish[d].content>>
  BY <1>1 DEF RequestSound, StepGrows, CopyGrows
<1> QED
  BY <1>3, <1>4, <1>5 DEF RequestSound, WishSound, Agrees, AgreesNext, Resting

\* So does a thread that does not move.
LEMMA StageKept ==
    ASSUME HandoffInv, StepGrows, NEW d \in Callers, wish'[d] = wish[d], caller'[d] = caller[d]
    PROVE  StageSound(d)'
<1> DEFINE me == caller[d]
<1>1. StageSound(d)
  BY DEF HandoffInv
<1>2. me \in CallerRecords /\ remote' \in Copies \cup {Null} /\ remote \in Copies \cup {Null}
  BY DEF HandoffInv, HandoffTypeOK, StepGrows
<1>3. me.pc = "commit" => AgreesNext(me.current.rev, me.current.content)
  <2>1. me.pc = "commit" => me.current.rev \in Nat
    BY <1>2, CallerFields DEF Copies
  <2> QED
    BY <1>1, <1>2, <2>1, AgreesKept DEF StageSound, StepGrows
<1>4. me.pc \in {"save", "send"} => AgreesNext(me.rev, wish[d].content)
  <2>1. me.pc \in {"save", "send"} => me.rev \in Nat
    BY <1>2, CallerFields
  <2> QED
    BY <1>1, <1>2, <2>1, AgreesKept DEF StageSound, StepGrows
<1>5. me.pc = "verify" /\ meddled' # "deleted" => remote' # Null /\ me.receipt.rev <= remote'.rev
  <2>1. SUFFICES ASSUME me.pc = "verify", meddled' # "deleted"
                 PROVE  remote' # Null /\ me.receipt.rev <= remote'.rev
    OBVIOUS
  <2>2. me.receipt.rev \in Nat
    BY <1>2, <2>1, CallerFields DEF Copies
  <2>3. remote # Null /\ me.receipt.rev <= remote.rev /\ remote.rev \in Nat
    BY <1>1, <1>2, <2>1 DEF StageSound, StepGrows, CopyGrows, Copies
  <2>4. remote' # Null /\ remote'.rev \in Nat /\ remote.rev <= remote'.rev
    BY <1>2, <2>1, <2>3 DEF StepGrows, CopyGrows, Copies
  <2> QED
    BY <2>2, <2>3, <2>4
<1>6. meddled' # "deleted" => meddled # "deleted"
  BY DEF StepGrows, CopyGrows
<1>7. me.pc \in {"save", "send"} => local'.pending = FALSE
  BY <1>1 DEF StageSound, StepGrows
<1> QED
  BY <1>1, <1>3, <1>4, <1>5, <1>6, <1>7 DEF StageSound, Agrees, AgreesNext

\* A late start stays sound as long as its thread rests and its wish stands.
LEMMA LateKept ==
    ASSUME HandoffInv, StepGrows, NEW m \in late,
           m.kind = "start" /\ local.pending = FALSE /\ caller[m.by].pc \in Resting =>
             wish'[m.by] = wish[m.by] /\ caller'[m.by].pc \in Resting
    PROVE  LateSound(m)'
<1> SUFFICES ASSUME m.kind = "start"
             PROVE  LateSound(m)'
  BY DEF LateSound
<1>1. LateSound(m)
  BY DEF HandoffInv
<1>2. m.rev \in Nat /\ remote' \in Copies \cup {Null}
  BY DEF HandoffInv, HandoffTypeOK, StepGrows, LateMessages
<1>3. AgreesNext(m.rev, wish[m.by].content)
  BY <1>1, <1>2, AgreesKept DEF LateSound, StepGrows
<1>4. local'.pending = FALSE /\ wish'[m.by] = wish[m.by] /\ caller'[m.by].pc \in Resting
      /\ wish[m.by] # Null
  BY <1>1 DEF LateSound, StepGrows, Resting
<1> QED
  BY <1>3, <1>4 DEF LateSound, Agrees, AgreesNext, Resting

AllSound ==
    /\ \A c \in Callers : StageSound(c) /\ RequestSound(c)
    /\ \A m \in late : LateSound(m)

\* One thread moves and the requests stay as they are.
LEMMA MoveKeeps ==
    ASSUME HandoffInv, StepGrows, NEW c \in Callers, NEW n, Goes(c, n),
           UNCHANGED <<wish, forwarded, applied>>, late' \subseteq late,
           local.pending = FALSE /\ caller[c].pc \in Resting => n.pc \in Resting,
           StageSound(c)'
    PROVE  AllSound'
<1>1. caller'[c] = n /\ \A d \in Callers : d # c => caller'[d] = caller[d]
  BY DEF Goes, HandoffInv, HandoffTypeOK
<1>2. ASSUME NEW d \in Callers
      PROVE  StageSound(d)' /\ RequestSound(d)'
  <2>1. applied[d] # <<>> => local.pending = FALSE /\ caller[d].pc \in Resting
    BY DEF HandoffInv, RequestSound, Resting
  <2>2. applied[d] # <<>> => caller'[d].pc \in Resting
    BY <1>1, <2>1
  <2>3. RequestSound(d)'
    BY <2>2, RequestKept
  <2>4. StageSound(d)'
    BY <1>1, StageKept
  <2> QED
    BY <2>3, <2>4
<1>3. ASSUME NEW m \in late'
      PROVE  LateSound(m)'
  <2>1. m \in late /\ (m.kind = "start" => m.by \in Callers)
    BY DEF HandoffInv, HandoffTypeOK, LateMessages
  <2> QED
    BY <1>1, <2>1, LateKept
<1> QED
  BY <1>2, <1>3 DEF AllSound

\* Nobody moves.
LEMMA StillKeeps ==
    ASSUME HandoffInv, StepGrows, UNCHANGED <<caller, wish, forwarded, applied>>,
           late' \subseteq late
    PROVE  AllSound'
<1>1. ASSUME NEW d \in Callers
      PROVE  StageSound(d)' /\ RequestSound(d)'
  <2>1. applied[d] # <<>> => caller'[d].pc \in Resting
    BY DEF HandoffInv, RequestSound, Resting
  <2> QED
    BY <2>1, RequestKept, StageKept
<1>2. ASSUME NEW m \in late'
      PROVE  LateSound(m)'
  BY LateKept
<1> QED
  BY <1>1, <1>2 DEF AllSound

\* A request fails that has not started.
LEMMA FailKeeps ==
    ASSUME HandoffInv, StepGrows, NEW c \in Callers, Fails(c), applied[c] = <<>>,
           UNCHANGED <<applied, late>>
    PROVE  AllSound'
<1>1. caller'[c] = IdleCaller /\ \A d \in Callers : d # c => caller'[d] = caller[d]
  BY DEF Fails, Goes, HandoffInv, HandoffTypeOK
<1>2. StageSound(c)'
  BY <1>1, CallersWritten DEF StageSound
<1>3. CASE UNCHANGED <<wish, forwarded>>
  BY <1>2, <1>3, MoveKeeps, CallersWritten DEF Fails, Resting
<1>4. CASE /\ \A m \in late : m.kind = "start" => m.by # c
           /\ wish' = [wish EXCEPT ![c] = Null]
           /\ forwarded' = [forwarded EXCEPT ![c] = Null]
  <2>1. /\ wish'[c] = Null /\ forwarded'[c] = Null
        /\ \A d \in Callers : d # c => wish'[d] = wish[d] /\ forwarded'[d] = forwarded[d]
    BY <1>4 DEF HandoffInv, HandoffTypeOK
  <2>2. RequestSound(c)'
    BY <2>1 DEF RequestSound
  <2>3. ASSUME NEW d \in Callers, d # c
        PROVE  StageSound(d)' /\ RequestSound(d)'
    <3>1. applied[d] # <<>> => caller'[d].pc \in Resting
      BY <1>1, <2>3 DEF HandoffInv, RequestSound, Resting
    <3> QED
      BY <1>1, <2>1, <2>3, <3>1, RequestKept, StageKept
  <2>4. ASSUME NEW m \in late'
        PROVE  LateSound(m)'
    <3>1. m \in late /\ (m.kind = "start" => m.by \in Callers)
      BY DEF HandoffInv, HandoffTypeOK, LateMessages
    <3> QED
      BY <1>1, <1>4, <2>1, <3>1, LateKept
  <2> QED
    BY <1>2, <2>2, <2>3, <2>4 DEF AllSound
<1> QED
  BY <1>3, <1>4 DEF Fails

-----------------------------------------------------------------------------
\* No thread, no message and no journal has a transfer that was not sent before.
LEMMA SentShrinks ==
    ASSUME handoff' \in {Null, handoff},
           \A d \in Callers : \/ caller'[d] = caller[d]
                              \/ caller'[d].pc \notin {"transfer", "verify"}
                              \/ IsSent(caller'[d].transfer),
           \A m \in late' : m \in late \/ m.kind # "transfer" \/ IsSent(m.transfer),
           NEW t, IsSent(t)'
    PROVE  IsSent(t)
<1>1. CASE handoff' # Null /\ t = handoff'
  BY <1>1 DEF IsSent
<1>2. CASE \E d \in Callers : caller'[d].pc \in {"transfer", "verify"} /\ caller'[d].transfer = t
  <2>1. PICK d \in Callers : caller'[d].pc \in {"transfer", "verify"} /\ caller'[d].transfer = t
    BY <1>2
  <2>2. CASE caller'[d] = caller[d]
    BY <2>1, <2>2 DEF IsSent
  <2>3. CASE caller'[d] # caller[d]
    BY <2>1, <2>3
  <2> QED
    BY <2>2, <2>3
<1>3. CASE \E m \in late' : m.kind = "transfer" /\ m.transfer = t
  <2>1. PICK m \in late' : m.kind = "transfer" /\ m.transfer = t
    BY <1>3
  <2>2. CASE m \in late
    BY <2>1, <2>2 DEF IsSent
  <2>3. CASE m \notin late
    BY <2>1, <2>3
  <2> QED
    BY <2>2, <2>3
<1> QED
  BY <1>1, <1>2, <1>3 DEF IsSent

\* What was sent stays sound when nothing is added.
LEMMA SentKept ==
    ASSUME HandoffInv, UNCHANGED <<receipts, used>>,
           \A t \in Transfers : IsSent(t)' => IsSent(t)
    PROVE  TransfersSound'
<1>1. ASSUME NEW t \in Transfers, IsSent(t)'
      PROVE  SoundTransfer(t)'
  <2>1. SoundTransfer(t)
    BY <1>1 DEF HandoffInv, TransfersSound
  <2> QED
    BY <2>1 DEF SoundTransfer
<1>2. \A t, u \in Transfers : IsSent(t)' /\ IsSent(u)' /\ t.id = u.id => t.task = u.task
  BY DEF HandoffInv, TransfersSound
<1>3. \A i \in 1..MaxTransfer :
        receipts'[i] # Null => i <= used' /\ receipts'[i].content \in MacContents
  BY DEF HandoffInv, TransfersSound
<1> QED
  BY <1>1, <1>2, <1>3 DEF TransfersSound

\* One new transfer, under the next id.
LEMMA SentNew ==
    ASSUME HandoffInv, UNCHANGED receipts, used' = used + 1, NEW n \in Transfers, n.id = used + 1,
           n.task.pending = TRUE, n.task.content \in MacContents,
           n.expected # Null => n.expected.content \in MacContents,
           \A t \in Transfers : IsSent(t)' => IsSent(t) \/ t = n
    PROVE  TransfersSound'
<1>1. used \in Nat /\ \A t \in Transfers : t.id \in Nat
  BY HandoffAssumption DEF HandoffInv, HandoffTypeOK, Transfers
<1>2. receipts[n.id] = Null
  <2>1. n.id \in 1..MaxTransfer
    BY DEF Transfers
  <2> QED
    BY <1>1, <2>1 DEF HandoffInv, TransfersSound
<1>3. ASSUME NEW t \in Transfers, IsSent(t)'
      PROVE  SoundTransfer(t)'
  <2>1. CASE t = n
    BY <1>1, <1>2, <2>1 DEF SoundTransfer
  <2>2. CASE t # n
    <3>1. SoundTransfer(t)
      BY <1>3, <2>2 DEF HandoffInv, TransfersSound
    <3> QED
      BY <1>1, <3>1 DEF SoundTransfer
  <2> QED
    BY <2>1, <2>2
<1>4. ASSUME NEW t \in Transfers, NEW u \in Transfers, IsSent(t)', IsSent(u)', t.id = u.id
      PROVE  t.task = u.task
  <2>1. \A v \in Transfers : IsSent(v) => v.id <= used
    BY DEF HandoffInv, TransfersSound, SoundTransfer
  <2>2. \A v \in Transfers : IsSent(v) => v.id # n.id
    BY <1>1, <2>1
  <2>3. CASE t = n \/ u = n
    BY <1>4, <2>2, <2>3
  <2>4. CASE t # n /\ u # n
    BY <1>4, <2>4 DEF HandoffInv, TransfersSound
  <2> QED
    BY <2>3, <2>4
<1>5. ASSUME NEW i \in 1..MaxTransfer, receipts'[i] # Null
      PROVE  i <= used' /\ receipts'[i].content \in MacContents
  <2>1. i <= used /\ receipts'[i].content \in MacContents
    BY <1>5 DEF HandoffInv, TransfersSound
  <2> QED
    BY <1>1, <2>1
<1> QED
  BY <1>3, <1>4, <1>5 DEF TransfersSound

\* The Mac and the receipts still follow the copy.
LEMMA CopyStillLeads ==
    ASSUME HandoffInv, StepGrows, UNCHANGED receipts,
           local'.pending = TRUE => local'.content \in MacContents,
           local'.pending = FALSE => AgreesNext(local'.rev, local'.content)
    PROVE  CopyLeads'
<1>1. ASSUME meddled' # "deleted", NEW i \in 1..MaxTransfer, receipts'[i] # Null
      PROVE  remote' # Null /\ receipts'[i].rev <= remote'.rev
  <2>1. meddled # "deleted" /\ receipts[i] # Null
    BY <1>1 DEF StepGrows, CopyGrows
  <2>2. remote # Null /\ receipts[i].rev <= remote.rev
    BY <2>1 DEF HandoffInv, CopyLeads
  <2>3. receipts[i].rev \in Nat /\ remote.rev \in Nat
    BY <2>1, <2>2 DEF HandoffInv, HandoffTypeOK, Copies
  <2>4. remote' # Null
    BY <1>1, <2>2 DEF StepGrows, CopyGrows
  <2>5. remote'.rev \in Nat /\ remote.rev <= remote'.rev
    BY <1>1, <2>2, <2>3, <2>4 DEF StepGrows, CopyGrows, HandoffTypeOK, Copies
  <2> QED
    BY <2>2, <2>3, <2>4, <2>5
<1> QED
  BY <1>1 DEF CopyLeads, Agrees, AgreesNext

LEMMA LocalStillLeads ==
    ASSUME HandoffInv, StepGrows, UNCHANGED local
    PROVE  /\ local'.pending = TRUE => local'.content \in MacContents
           /\ local'.pending = FALSE => AgreesNext(local'.rev, local'.content)
<1>1. remote' \in Copies \cup {Null} /\ local.rev \in Nat
  BY DEF StepGrows, HandoffTypeOK, HandoffInv, DraftTasks
<1>2. local.pending = FALSE => AgreesNext(local.rev, local.content)
  BY <1>1, AgreesKept DEF HandoffInv, CopyLeads, StepGrows
<1> QED
  BY <1>2 DEF HandoffInv, CopyLeads

\* A step that leaves the Mac and the host alone.
LEMMA QuietGrows ==
    ASSUME HandoffInv, UNCHANGED <<local, remote, meddled>>, HandoffTypeOK'
    PROVE  StepGrows
<1>1. CopyGrows /\ remote' \in Copies \cup {Null}
  BY DEF CopyGrows, HandoffTypeOK
<1>2. WishesKept
  BY <1>1, SameDraftKeepsWishes
<1> QED
  BY <1>1, <1>2 DEF StepGrows

\* What a failure writes.
LEMMA FailTypes ==
    ASSUME HandoffTypeOK, NEW c \in Callers, Fails(c)
    PROVE  /\ caller' \in [Callers -> CallerRecords]
           /\ wish' \in [Callers -> [rev : Nat, content : Contents] \cup {Null}]
           /\ forwarded' \in [Callers -> Nat \cup {Null}]
           /\ \A d \in Callers : caller'[d] = caller[d] \/ caller'[d].pc = "idle"
<1>1. caller' \in [Callers -> CallerRecords]
  BY CallersWritten DEF Fails, Goes, HandoffTypeOK
<1>2. \A d \in Callers : caller'[d] = caller[d] \/ caller'[d].pc = "idle"
  BY CallersWritten DEF Fails, Goes, HandoffTypeOK
<1> QED
  BY <1>1, <1>2 DEF Fails, HandoffTypeOK

\* What a move writes.
LEMMA MoveTypes ==
    ASSUME HandoffTypeOK, NEW c \in Callers, NEW n \in CallerRecords, Goes(c, n)
    PROVE  /\ caller' \in [Callers -> CallerRecords]
           /\ caller'[c] = n
           /\ \A d \in Callers : d # c => caller'[d] = caller[d]
BY DEF Goes, HandoffTypeOK

\* A failure that changes nothing else keeps the invariant.
LEMMA FailedKeepsInv ==
    ASSUME HandoffInv, NEW c \in Callers, Fails(c), applied[c] = <<>>,
           UNCHANGED <<local, handoff, hostTaskVars, late, used, meddled>>
    PROVE  HandoffInv'
<1>1. HandoffTypeOK'
  BY FailTypes DEF HandoffInv, HandoffTypeOK, hostTaskVars
<1>2. StepGrows
  BY <1>1, QuietGrows DEF hostTaskVars
<1>3. AllSound'
  BY <1>2, FailKeeps DEF hostTaskVars
<1>4. CopyLeads'
  BY <1>2, CopyStillLeads, LocalStillLeads DEF hostTaskVars
<1>5. ASSUME NEW t \in Transfers, IsSent(t)'
      PROVE  IsSent(t)
  BY <1>5, FailTypes, SentShrinks DEF HandoffInv
<1>6. TransfersSound'
  BY <1>5, SentKept DEF hostTaskVars
<1> QED
  BY <1>1, <1>3, <1>4, <1>6 DEF HandoffInv, AllSound

\* So does a move that changes nothing else.
LEMMA MovedKeepsInv ==
    ASSUME HandoffInv, NEW c \in Callers, NEW n \in CallerRecords, Goes(c, n),
           handoff' \in {Null, handoff},
           UNCHANGED <<local, hostTaskVars, wish, forwarded, late, used, meddled>>,
           local.pending = FALSE /\ caller[c].pc \in Resting => n.pc \in Resting,
           n.pc \in {"transfer", "verify"} => IsSent(n.transfer),
           StageSound(c)'
    PROVE  HandoffInv'
<1>1. HandoffTypeOK'
  BY MoveTypes DEF HandoffInv, HandoffTypeOK, hostTaskVars
<1>2. StepGrows
  BY <1>1, QuietGrows DEF hostTaskVars
<1>3. AllSound'
  BY <1>2, MoveKeeps DEF hostTaskVars
<1>4. CopyLeads'
  BY <1>2, CopyStillLeads, LocalStillLeads DEF hostTaskVars
<1>5. ASSUME NEW t \in Transfers, IsSent(t)'
      PROVE  IsSent(t)
  <2>1. \A d \in Callers : \/ caller'[d] = caller[d]
                           \/ caller'[d].pc \notin {"transfer", "verify"}
                           \/ IsSent(caller'[d].transfer)
    BY MoveTypes DEF HandoffInv
  <2> QED
    BY <1>5, <2>1, SentShrinks
<1>6. TransfersSound'
  BY <1>5, SentKept DEF hostTaskVars
<1> QED
  BY <1>1, <1>3, <1>4, <1>6 DEF HandoffInv, AllSound

-----------------------------------------------------------------------------
\* A thread with a draft in hand has started nothing.
LEMMA BusyHasNotStarted ==
    ASSUME HandoffInv, NEW c \in Callers, caller[c].pc \notin Resting
    PROVE  applied[c] = <<>>
BY DEF HandoffInv, RequestSound, Resting

LEMMA SubmitKeeps ==
    ASSUME HandoffInv, NEW c \in Callers, Submit(c)
    PROVE  HandoffInv'
<1> DEFINE seen == [rev |-> local.rev, content |-> local.content]
<1> DEFINE w == IF wish[c] = Null THEN seen ELSE wish[c]
<1> DEFINE rev == IF forwarded[c] # Null THEN forwarded[c] ELSE w.rev
<1> DEFINE n == [pc |-> IF local.pending THEN "look" ELSE "save", rev |-> rev]
<1>0. /\ caller[c].pc = "idle" /\ applied[c] = <<>>
      /\ UNCHANGED <<local, handoff, forwarded, hostTaskVars, late, used, losses, meddled>>
  BY DEF Submit
<1>1. seen \in Wishes /\ w \in Wishes /\ w # Null
  BY HandoffAssumption DEF HandoffInv, HandoffTypeOK, DraftTasks, Wishes, Contents
<1>2. wish' = [wish EXCEPT ![c] = w]
  BY DEF Submit, HandoffInv, HandoffTypeOK
<1>3. wish'[c] = w /\ \A d \in Callers : d # c => wish'[d] = wish[d]
  BY <1>2 DEF HandoffInv, HandoffTypeOK
<1>4. Goes(c, n)
  BY <1>3 DEF Submit
<1>5. rev \in Nat
  BY <1>1 DEF HandoffInv, HandoffTypeOK, Wishes
<1> HIDE DEF rev
<1>6. n \in CallerRecords
  BY <1>5, CallersWritten
<1>7. /\ caller' \in [Callers -> CallerRecords] /\ caller'[c] = n
      /\ \A d \in Callers : d # c => caller'[d] = caller[d]
  BY <1>4, <1>6, MoveTypes DEF HandoffInv
<1>8. HandoffTypeOK'
  BY <1>0, <1>1, <1>2, <1>7 DEF HandoffInv, HandoffTypeOK, hostTaskVars, Wishes
<1>9. StepGrows
  BY <1>0, <1>8, QuietGrows DEF hostTaskVars
<1>10. WishSound(w)
  <2>1. CASE wish[c] # Null
    BY <2>1 DEF HandoffInv, RequestSound
  <2>2. CASE wish[c] = Null
    <3>1. w.rev = local.rev /\ w.content = local.content
      BY <2>2
    <3> HIDE DEF w
    <3> QED
      BY <3>1 DEF HandoffInv, CopyLeads, WishSound, HandoffTypeOK, DraftTasks
  <2> QED
    BY <2>1, <2>2
<1> HIDE DEF w
<1>11. forwarded[c] # Null => local.pending = FALSE /\ wish[c] # Null /\ Agrees(forwarded[c], w.content)
  BY DEF HandoffInv, RequestSound, w
<1>12. local.pending \in BOOLEAN
  BY DEF HandoffInv, HandoffTypeOK, DraftTasks
<1>13. StageSound(c)'
  <2>1. CASE local.pending = TRUE
    <3>1. rev = w.rev
      BY <1>11, <2>1 DEF rev
    <3> QED
      BY <1>1, <1>3, <1>7, <2>1, <3>1 DEF StageSound
  <2>2. CASE local.pending = FALSE
    <3>1. Agrees(rev, w.content)
      BY <1>10, <1>11, <2>2 DEF rev, WishSound
    <3>2. caller'[c].pc = "save" /\ caller'[c].rev = rev
      BY <1>7, <2>2
    <3> QED
      BY <1>0, <1>1, <1>3, <2>2, <3>1, <3>2 DEF StageSound, Agrees, hostTaskVars
  <2> QED
    BY <1>12, <2>1, <2>2
<1>14. RequestSound(c)'
  BY <1>0, <1>1, <1>3, <1>10, <1>11 DEF RequestSound, WishSound, Agrees, hostTaskVars
<1>15. ASSUME NEW d \in Callers, d # c
       PROVE  StageSound(d)' /\ RequestSound(d)'
  <2>1. applied[d] # <<>> => caller'[d].pc \in Resting
    BY <1>7, <1>15 DEF HandoffInv, RequestSound, Resting
  <2> QED
    BY <1>0, <1>3, <1>7, <1>9, <1>15, <2>1, RequestKept, StageKept DEF hostTaskVars
<1>16. ASSUME NEW m \in late'
       PROVE  LateSound(m)'
  <2>1. m \in late /\ (m.kind = "start" => m.by \in Callers /\ wish[m.by] # Null)
    BY <1>0 DEF HandoffInv, HandoffTypeOK, LateMessages, LateSound
  <2>2. m.kind = "start" => wish'[m.by] = wish[m.by]
    BY <1>3, <2>1 DEF w
  <2>3. local.pending = FALSE => n.pc \in Resting
    BY DEF Resting
  <2> QED
    BY <1>7, <1>9, <2>1, <2>2, <2>3, LateKept
<1>17. CopyLeads'
  BY <1>0, <1>9, CopyStillLeads, LocalStillLeads DEF hostTaskVars
<1>18. ASSUME NEW t \in Transfers, IsSent(t)'
       PROVE  IsSent(t)
  <2>1. n.pc \notin {"transfer", "verify"}
    OBVIOUS
  <2> QED
    BY <1>0, <1>7, <1>18, <2>1, SentShrinks
<1>19. TransfersSound'
  BY <1>0, <1>18, SentKept DEF hostTaskVars
<1> QED
  BY <1>8, <1>13, <1>14, <1>15, <1>16, <1>17, <1>19 DEF HandoffInv

LEMMA LookKeeps ==
    ASSUME HandoffInv, NEW c \in Callers, Look(c)
    PROVE  HandoffInv'
<1> DEFINE me == caller[c]
<1>0. me.pc = "look" /\ UNCHANGED <<local, handoff, hostTaskVars, late, used, losses, meddled>>
  BY DEF Look
<1>1. me.rev \in Nat /\ wish[c] # Null /\ me.rev = wish[c].rev
  BY <1>0, CallerFields DEF HandoffInv, HandoffTypeOK, StageSound
<1>2. WishSound(wish[c])
  BY <1>1 DEF HandoffInv, RequestSound
<1>3. local \in DraftTasks /\ local.pending \in BOOLEAN
  BY DEF HandoffInv, HandoffTypeOK, DraftTasks
<1>4. CASE local.pending = FALSE
  <2> DEFINE n == [pc |-> "save", rev |-> me.rev]
  <2>1. Goes(c, n) /\ UNCHANGED <<wish, forwarded>>
    BY <1>4 DEF Look
  <2>2. n \in CallerRecords
    BY <1>1, CallersWritten
  <2>3. caller'[c] = n
    BY <2>1, <2>2, MoveTypes DEF HandoffInv
  <2>4. StageSound(c)'
    BY <1>0, <1>1, <1>2, <1>4, <2>1, <2>3 DEF StageSound, WishSound, Agrees, hostTaskVars
  <2> QED
    BY <1>0, <2>1, <2>2, <2>4, MovedKeepsInv DEF Resting
<1>5. CASE local.pending = TRUE /\ local.rev # me.rev
  <2>1. Fails(c)
    BY <1>5 DEF Look
  <2>2. applied[c] = <<>>
    BY <1>0, BusyHasNotStarted DEF Resting
  <2> QED
    BY <1>0, <2>1, <2>2, FailedKeepsInv
<1>6. CASE local.pending = TRUE /\ local.rev = me.rev
  <2> DEFINE n == [pc |-> "journal", task |-> local]
  <2>1. Goes(c, n) /\ UNCHANGED <<wish, forwarded>>
    BY <1>6 DEF Look
  <2>2. n \in CallerRecords
    BY <1>3, CallersWritten
  <2>3. caller'[c] = n
    BY <2>1, <2>2, MoveTypes DEF HandoffInv
  <2>4. local.content = wish[c].content /\ local.content \in MacContents
    BY <1>1, <1>2, <1>6 DEF WishSound, HandoffInv, CopyLeads
  <2>5. StageSound(c)'
    BY <1>1, <1>6, <2>1, <2>3, <2>4 DEF StageSound
  <2> QED
    BY <1>0, <2>1, <2>2, <2>5, MovedKeepsInv DEF Resting
<1> QED
  BY <1>3, <1>4, <1>5, <1>6

\* A thread that keeps its draft.
LEMMA DraftInHand ==
    ASSUME HandoffInv, NEW c \in Callers,
           caller[c].pc \in {"journal", "get", "persist", "transfer", "verify", "commit", "replace"}
    PROVE  /\ caller[c].task \in DraftTasks /\ caller[c].task.pending = TRUE
           /\ caller[c].task.content \in MacContents
           /\ wish[c] # Null /\ caller[c].task.content = wish[c].content
           /\ applied[c] = <<>>
BY CallerFields, BusyHasNotStarted DEF HandoffInv, HandoffTypeOK, StageSound, Resting

LEMMA ReadJournalKeeps ==
    ASSUME HandoffInv, NEW c \in Callers, ReadJournal(c)
    PROVE  HandoffInv'
<1> DEFINE me == caller[c]
<1>0. /\ me.pc = "journal"
      /\ UNCHANGED <<local, handoff, wish, forwarded, hostTaskVars, late, used, losses, meddled>>
  BY DEF ReadJournal, macVars
<1>1. /\ me.task \in DraftTasks /\ me.task.pending = TRUE /\ me.task.content \in MacContents
      /\ wish[c] # Null /\ me.task.content = wish[c].content
  BY <1>0, DraftInHand
<1>2. CASE handoff = Null
  <2> DEFINE n == [pc |-> "get", task |-> me.task]
  <2>1. Goes(c, n)
    BY <1>2 DEF ReadJournal
  <2>2. n \in CallerRecords
    BY <1>1, CallersWritten
  <2>3. caller'[c] = n
    BY <2>1, <2>2, MoveTypes DEF HandoffInv
  <2>4. StageSound(c)'
    BY <1>0, <1>1, <2>3 DEF StageSound
  <2> QED
    BY <1>0, <2>1, <2>2, <2>4, MovedKeepsInv DEF Resting
<1>3. CASE handoff # Null
  <2> DEFINE n == [pc |-> "transfer", task |-> me.task, transfer |-> handoff, round |-> 1]
  <2>1. Goes(c, n)
    BY <1>3 DEF ReadJournal
  <2>2. n \in CallerRecords
    BY <1>1, <1>3, CallersWritten DEF HandoffInv, HandoffTypeOK
  <2>3. caller'[c] = n
    BY <2>1, <2>2, MoveTypes DEF HandoffInv
  <2>4. StageSound(c)'
    BY <1>0, <1>1, <2>3 DEF StageSound
  <2>5. IsSent(n.transfer)
    BY <1>3 DEF IsSent
  <2> QED
    BY <1>0, <2>1, <2>2, <2>4, <2>5, MovedKeepsInv DEF Resting
<1> QED
  BY <1>2, <1>3

LEMMA GetCopyKeeps ==
    ASSUME HandoffInv, NEW c \in Callers, GetCopy(c)
    PROVE  HandoffInv'
<1> DEFINE me == caller[c]
<1>0. me.pc = "get" /\ UNCHANGED <<local, handoff, hostTaskVars, late, used, losses, meddled>>
  BY DEF GetCopy
<1>1. /\ me.task \in DraftTasks /\ me.task.pending = TRUE /\ me.task.content \in MacContents
      /\ wish[c] # Null /\ me.task.content = wish[c].content /\ applied[c] = <<>>
  BY <1>0, DraftInHand
<1>2. CASE remote # Null /\ ~(Transferable(remote) /\ SameScope(remote, me.task))
  <2>1. Fails(c)
    BY <1>2 DEF GetCopy
  <2> QED
    BY <1>0, <1>1, <2>1, FailedKeepsInv
<1>3. CASE ~(remote # Null /\ ~(Transferable(remote) /\ SameScope(remote, me.task)))
  <2> DEFINE n == [pc |-> "persist", task |-> me.task, expected |-> remote]
  <2>1. Goes(c, n) /\ UNCHANGED <<wish, forwarded>>
    BY <1>3 DEF GetCopy
  <2>2. n \in CallerRecords
    BY <1>1, CallersWritten DEF HandoffInv, HandoffTypeOK
  <2>3. caller'[c] = n
    BY <2>1, <2>2, MoveTypes DEF HandoffInv
  <2>4. remote # Null => remote.content \in MacContents
    BY <1>1, <1>3 DEF SameScope
  <2>5. StageSound(c)'
    BY <1>0, <1>1, <2>1, <2>3, <2>4 DEF StageSound
  <2> QED
    BY <1>0, <2>1, <2>2, <2>5, MovedKeepsInv DEF Resting
<1> QED
  BY <1>2, <1>3

LEMMA SaveActionKeeps ==
    ASSUME HandoffInv, NEW c \in Callers, SaveAction(c)
    PROVE  HandoffInv'
<1> DEFINE me == caller[c]
<1> DEFINE n == [pc |-> "send", rev |-> me.rev]
<1>0. /\ me.pc = "save" /\ Goes(c, n)
      /\ UNCHANGED <<local, handoff, wish, hostTaskVars, late, used, losses, meddled>>
  BY DEF SaveAction
<1>1. me.rev \in Nat /\ local.pending = FALSE /\ wish[c] # Null /\ Agrees(me.rev, wish[c].content)
  BY <1>0, CallerFields DEF HandoffInv, HandoffTypeOK, StageSound
<1>2. n \in CallerRecords
  BY <1>1, CallersWritten
<1>3. /\ caller' \in [Callers -> CallerRecords] /\ caller'[c] = n
      /\ \A d \in Callers : d # c => caller'[d] = caller[d]
  BY <1>0, <1>2, MoveTypes DEF HandoffInv
<1>4. /\ forwarded' \in [Callers -> Nat \cup {Null}]
      /\ forwarded'[c] \in {forwarded[c], me.rev}
      /\ \A d \in Callers : d # c => forwarded'[d] = forwarded[d]
  BY <1>1 DEF SaveAction, HandoffInv, HandoffTypeOK
<1>5. HandoffTypeOK'
  BY <1>0, <1>3, <1>4 DEF HandoffInv, HandoffTypeOK, hostTaskVars
<1>6. StepGrows
  BY <1>0, <1>5, QuietGrows DEF hostTaskVars
<1>7. StageSound(c)'
  BY <1>0, <1>1, <1>3 DEF StageSound, Agrees, hostTaskVars
<1>8. RequestSound(c)'
  <2>1. RequestSound(c)
    BY DEF HandoffInv
  <2>2. forwarded'[c] # Null => Agrees(forwarded'[c], wish[c].content)
    BY <1>1, <1>4, <2>1 DEF RequestSound
  <2>3. caller'[c].pc = "send"
    BY <1>3
  <2> QED
    BY <1>0, <1>1, <2>1, <2>2, <2>3 DEF RequestSound, WishSound, Agrees, hostTaskVars
<1>9. ASSUME NEW d \in Callers, d # c
      PROVE  StageSound(d)' /\ RequestSound(d)'
  <2>1. applied[d] # <<>> => caller'[d].pc \in Resting
    BY <1>3, <1>9 DEF HandoffInv, RequestSound, Resting
  <2> QED
    BY <1>0, <1>3, <1>4, <1>6, <1>9, <2>1, RequestKept, StageKept DEF hostTaskVars
<1>10. ASSUME NEW m \in late'
       PROVE  LateSound(m)'
  <2>1. m \in late /\ (m.kind = "start" => m.by \in Callers)
    BY <1>0 DEF HandoffInv, HandoffTypeOK, LateMessages
  <2>2. n.pc \in Resting
    BY DEF Resting
  <2> QED
    BY <1>0, <1>3, <1>6, <2>1, <2>2, LateKept
<1>11. CopyLeads'
  BY <1>0, <1>6, CopyStillLeads, LocalStillLeads DEF hostTaskVars
<1>12. ASSUME NEW t \in Transfers, IsSent(t)'
       PROVE  IsSent(t)
  <2>1. n.pc \notin {"transfer", "verify"}
    OBVIOUS
  <2> QED
    BY <1>0, <1>3, <1>12, <2>1, SentShrinks
<1>13. TransfersSound'
  BY <1>0, <1>12, SentKept DEF hostTaskVars
<1> QED
  BY <1>5, <1>7, <1>8, <1>9, <1>10, <1>11, <1>13 DEF HandoffInv

\* A new journal, that the thread may take up.
LEMMA JournalWritten ==
    ASSUME HandoffInv, NEW task \in DraftTasks, NEW expected \in Copies \cup {Null},
           task.pending = TRUE, task.content \in MacContents,
           expected # Null => expected.content \in MacContents,
           used < MaxTransfer, used' = used + 1, handoff' = NewTransfer(task, expected),
           UNCHANGED <<local, hostTaskVars, late, meddled>>,
           caller' \in [Callers -> CallerRecords],
           wish' \in [Callers -> [rev : Nat, content : Contents] \cup {Null}],
           forwarded' \in [Callers -> Nat \cup {Null}],
           \A d \in Callers : \/ caller'[d] = caller[d]
                              \/ caller'[d].pc \notin {"transfer", "verify"}
                              \/ caller'[d].transfer = handoff'
    PROVE  HandoffTypeOK' /\ TransfersSound' /\ CopyLeads' /\ StepGrows
<1> DEFINE n == NewTransfer(task, expected)
<1>1. used \in Nat
  BY DEF HandoffInv, HandoffTypeOK
<1>2. n \in Transfers
  BY <1>1, HandoffAssumption DEF NewTransfer, Transfers
<1>3. n.id = used + 1 /\ n.task = task /\ n.expected = expected
  BY DEF NewTransfer
<1> HIDE DEF n
<1>4. HandoffTypeOK'
  BY <1>1, <1>2 DEF HandoffInv, HandoffTypeOK, hostTaskVars, n
<1>5. StepGrows
  BY <1>4, QuietGrows DEF hostTaskVars
<1>6. CopyLeads'
  BY <1>5, CopyStillLeads, LocalStillLeads DEF hostTaskVars
<1>7. ASSUME NEW t \in Transfers, IsSent(t)', t # n
      PROVE  IsSent(t)
  <2>1. handoff' = n
    BY DEF n
  <2>2. CASE \E d \in Callers : caller'[d].pc \in {"transfer", "verify"} /\ caller'[d].transfer = t
    <3>1. PICK d \in Callers : caller'[d].pc \in {"transfer", "verify"} /\ caller'[d].transfer = t
      BY <2>2
    <3>2. caller'[d] = caller[d]
      BY <1>7, <2>1, <3>1
    <3> QED
      BY <3>1, <3>2 DEF IsSent
  <2>3. CASE \E m \in late' : m.kind = "transfer" /\ m.transfer = t
    BY <2>3 DEF IsSent
  <2> QED
    BY <1>7, <2>1, <2>2, <2>3 DEF IsSent
<1>8. TransfersSound'
  BY <1>2, <1>3, <1>7, SentNew DEF hostTaskVars
<1> QED
  BY <1>4, <1>5, <1>6, <1>8

LEMMA PersistJournalKeeps ==
    ASSUME HandoffInv, NEW c \in Callers, PersistJournal(c)
    PROVE  HandoffInv'
<1> DEFINE me == caller[c]
<1> DEFINE n == [pc |-> "transfer", task |-> me.task, transfer |-> handoff', round |-> 1]
<1>0. /\ me.pc = "persist" /\ Goes(c, n)
      /\ UNCHANGED <<local, wish, forwarded, hostTaskVars, late, losses, meddled>>
  BY DEF PersistJournal
<1>1. /\ me.task \in DraftTasks /\ me.task.pending = TRUE /\ me.task.content \in MacContents
      /\ wish[c] # Null /\ me.task.content = wish[c].content
  BY <1>0, DraftInHand
<1>2. me.expected \in Copies \cup {Null} /\ (me.expected # Null => me.expected.content \in MacContents)
  BY <1>0, CallerFields DEF HandoffInv, HandoffTypeOK, StageSound
<1>3. CASE handoff # Null
  <2>1. UNCHANGED <<handoff, used>>
    BY <1>3 DEF PersistJournal
  <2>2. n \in CallerRecords
    BY <1>1, <1>3, <2>1, CallersWritten DEF HandoffInv, HandoffTypeOK
  <2>3. caller'[c] = n
    BY <1>0, <2>2, MoveTypes DEF HandoffInv
  <2>4. StageSound(c)'
    BY <1>0, <1>1, <2>3 DEF StageSound
  <2>5. IsSent(n.transfer)
    BY <1>3, <2>1 DEF IsSent
  <2> QED
    BY <1>0, <2>1, <2>2, <2>4, <2>5, MovedKeepsInv DEF Resting
<1>4. CASE handoff = Null
  <2>1. /\ used < MaxTransfer /\ used' = used + 1
        /\ handoff' = NewTransfer(me.task, me.expected)
    BY <1>4 DEF PersistJournal
  <2>2. handoff' \in Transfers
    BY <1>1, <1>2, <2>1, HandoffAssumption DEF NewTransfer, Transfers, HandoffInv, HandoffTypeOK
  <2>3. n \in CallerRecords
    BY <1>1, <2>2, CallersWritten
  <2>4. /\ caller' \in [Callers -> CallerRecords] /\ caller'[c] = n
        /\ \A d \in Callers : d # c => caller'[d] = caller[d]
    BY <1>0, <2>3, MoveTypes DEF HandoffInv
  <2>5. /\ wish' \in [Callers -> [rev : Nat, content : Contents] \cup {Null}]
        /\ forwarded' \in [Callers -> Nat \cup {Null}]
    BY <1>0 DEF HandoffInv, HandoffTypeOK
  <2>6. n.transfer = handoff'
    OBVIOUS
  <2>7. HandoffTypeOK' /\ TransfersSound' /\ CopyLeads' /\ StepGrows
    BY <1>0, <1>1, <1>2, <2>1, <2>4, <2>5, <2>6, JournalWritten, ZenonT(60)
  <2>8. StageSound(c)'
    BY <1>0, <1>1, <2>4 DEF StageSound
  <2>9. AllSound'
    BY <1>0, <2>7, <2>8, MoveKeeps DEF Resting, hostTaskVars
  <2> QED
    BY <2>7, <2>9 DEF HandoffInv, AllSound
<1> QED
  BY <1>3, <1>4

LEMMA ReplaceJournalKeeps ==
    ASSUME HandoffInv, NEW c \in Callers, ReplaceJournal(c)
    PROVE  HandoffInv'
<1> DEFINE me == caller[c]
<1> DEFINE n == [pc |-> "transfer", task |-> me.task, transfer |-> handoff', round |-> 2]
<1>0. /\ me.pc = "replace" /\ used < MaxTransfer /\ used' = used + 1
      /\ handoff' = NewTransfer(me.task, me.current)
      /\ UNCHANGED <<local, hostTaskVars, late, losses, meddled>>
  BY DEF ReplaceJournal
<1>1. /\ me.task \in DraftTasks /\ me.task.pending = TRUE /\ me.task.content \in MacContents
      /\ wish[c] # Null /\ me.task.content = wish[c].content /\ applied[c] = <<>>
  BY <1>0, DraftInHand
<1>2. me.current \in Copies \cup {Null} /\ me.current.content \in MacContents
  BY <1>0, CallerFields DEF HandoffInv, HandoffTypeOK, StageSound
<1>3. CASE me.round = 2
  <2>1. Fails(c)
    BY <1>3 DEF ReplaceJournal
  <2>2. /\ caller' \in [Callers -> CallerRecords]
        /\ wish' \in [Callers -> [rev : Nat, content : Contents] \cup {Null}]
        /\ forwarded' \in [Callers -> Nat \cup {Null}]
        /\ \A d \in Callers : caller'[d] = caller[d] \/ caller'[d].pc = "idle"
    BY <2>1, FailTypes DEF HandoffInv
  <2>3. HandoffTypeOK' /\ TransfersSound' /\ CopyLeads' /\ StepGrows
    BY <1>0, <1>1, <1>2, <2>2, JournalWritten
  <2>4. AllSound'
    BY <1>0, <1>1, <2>1, <2>3, FailKeeps DEF hostTaskVars
  <2> QED
    BY <2>3, <2>4 DEF HandoffInv, AllSound
<1>4. CASE me.round # 2
  <2>1. Goes(c, n) /\ UNCHANGED <<wish, forwarded>>
    BY <1>4 DEF ReplaceJournal
  <2>2. handoff' \in Transfers
    BY <1>0, <1>1, <1>2, HandoffAssumption DEF NewTransfer, Transfers, HandoffInv, HandoffTypeOK
  <2>3. n \in CallerRecords
    BY <1>1, <2>2, CallersWritten
  <2>4. /\ caller' \in [Callers -> CallerRecords] /\ caller'[c] = n
        /\ \A d \in Callers : d # c => caller'[d] = caller[d]
    BY <2>1, <2>3, MoveTypes DEF HandoffInv
  <2>5. /\ wish' \in [Callers -> [rev : Nat, content : Contents] \cup {Null}]
        /\ forwarded' \in [Callers -> Nat \cup {Null}]
    BY <2>1 DEF HandoffInv, HandoffTypeOK
  <2>6. \A d \in Callers : caller'[d] = caller[d] \/ caller'[d].transfer = handoff'
    BY <2>4
  <2>7. HandoffTypeOK' /\ TransfersSound' /\ CopyLeads' /\ StepGrows
    <3> HIDE DEF n
    <3> QED
      BY <1>0, <1>1, <1>2, <2>4, <2>5, <2>6, JournalWritten
  <2>8. StageSound(c)'
    BY <1>0, <1>1, <2>1, <2>4 DEF StageSound
  <2>9. AllSound'
    BY <1>0, <2>1, <2>7, <2>8, MoveKeeps DEF Resting, hostTaskVars
  <2> QED
    BY <2>7, <2>9 DEF HandoffInv, AllSound
<1> QED
  BY <1>3, <1>4

LEMMA VerifyKeeps ==
    ASSUME HandoffInv, NEW c \in Callers, Verify(c)
    PROVE  HandoffInv'
<1> DEFINE me == caller[c]
<1> DEFINE sound == remote # Null /\ Transferable(remote) /\ SameScope(remote, me.receipt)
<1>0. me.pc = "verify" /\ UNCHANGED <<local, handoff, hostTaskVars, late, used, losses, meddled>>
  BY DEF Verify
<1>1. /\ me.task \in DraftTasks /\ me.task.pending = TRUE /\ me.task.content \in MacContents
      /\ wish[c] # Null /\ me.task.content = wish[c].content /\ applied[c] = <<>>
  BY <1>0, DraftInHand
<1>2. me.receipt \in Copies /\ me.transfer \in Transfers /\ me.round \in {1, 2}
  BY <1>0, CallerFields DEF HandoffInv, HandoffTypeOK
<1>3. /\ me.receipt.content = me.transfer.task.content
      /\ me.transfer.task.rev <= me.receipt.rev
      /\ meddled # "deleted" => remote # Null /\ me.receipt.rev <= remote.rev
  BY <1>0 DEF HandoffInv, StageSound
<1>4. CASE ~sound
  <2>1. Fails(c)
    BY <1>4 DEF Verify
  <2> QED
    BY <1>0, <1>1, <2>1, FailedKeepsInv
<1>5. CASE sound
  <2> DEFINE n == [pc |-> IF me.transfer.task = me.task THEN "commit" ELSE "replace",
                   task |-> me.task, round |-> me.round, current |-> remote]
  <2>1. Goes(c, n) /\ UNCHANGED <<wish, forwarded>>
    BY <1>5 DEF Verify
  <2>2. remote \in Copies /\ remote.content = me.receipt.content
    BY <1>5 DEF HandoffInv, HandoffTypeOK, SameScope
  <2>3. n \in CallerRecords
    BY <1>1, <1>2, <2>2, CallersWritten
  <2>4. caller'[c] = n
    BY <2>1, <2>3, MoveTypes DEF HandoffInv
  <2>5. remote.content \in MacContents
    <3>1. IsSent(me.transfer)
      BY <1>0 DEF IsSent
    <3> QED
      BY <1>2, <1>3, <2>2, <3>1 DEF HandoffInv, TransfersSound, SoundTransfer
  <2>6. me.transfer.task.rev \in Nat /\ me.receipt.rev \in Nat /\ remote.rev \in Nat
    BY <1>2, <2>2 DEF Transfers, DraftTasks, Copies
  <2>7. meddled # "deleted" => me.transfer.task.rev <= remote.rev
    BY <1>3, <2>6
  <2>8. Agrees(remote.rev, remote.content)
    BY <1>5, <2>6 DEF Agrees
  <2>9. StageSound(c)'
    <3>1. CASE me.transfer.task = me.task
      <4>1. caller'[c].pc = "commit" /\ caller'[c].task = me.task /\ caller'[c].current = remote
        BY <2>4, <3>1
      <4>2. remote.content = me.task.content
        BY <1>3, <2>2, <3>1
      <4> QED
        BY <1>0, <1>1, <2>1, <2>5, <2>7, <2>8, <3>1, <4>1, <4>2
        DEF StageSound, Agrees, hostTaskVars
    <3>2. CASE me.transfer.task # me.task
      <4>1. caller'[c].pc = "replace" /\ caller'[c].task = me.task /\ caller'[c].current = remote
        BY <2>4, <3>2
      <4> QED
        BY <1>0, <1>1, <2>1, <2>5, <4>1 DEF StageSound
    <3> QED
      BY <3>1, <3>2
  <2>10. n.pc \notin {"transfer", "verify"}
    OBVIOUS
  <2> HIDE DEF n
  <2> QED
    BY <1>0, <2>1, <2>3, <2>9, <2>10, MovedKeepsInv DEF Resting
<1> QED
  BY <1>4, <1>5

LEMMA CommitCopyKeeps ==
    ASSUME HandoffInv, NEW c \in Callers, CommitCopy(c)
    PROVE  HandoffInv' /\ KeepsWork
<1> DEFINE me == caller[c]
<1> DEFINE current == me.current
<1>0. me.pc = "commit" /\ UNCHANGED <<hostTaskVars, late, used, losses, meddled>>
  BY DEF CommitCopy
<1>1. /\ me.task \in DraftTasks /\ me.task.pending = TRUE /\ me.task.content \in MacContents
      /\ wish[c] # Null /\ me.task.content = wish[c].content /\ applied[c] = <<>>
  BY <1>0, DraftInHand
<1>2. /\ current \in Copies /\ current.content = me.task.content
      /\ Agrees(current.rev, current.content)
      /\ meddled # "deleted" => me.task.rev <= current.rev
  BY <1>0, CallerFields DEF HandoffInv, HandoffTypeOK, StageSound
<1>3. remote' = remote
  BY <1>0 DEF hostTaskVars
<1>4. CASE local # me.task
  <2>1. Fails(c) /\ UNCHANGED <<local, handoff>>
    BY <1>4 DEF CommitCopy
  <2>2. HandoffInv'
    BY <1>0, <1>1, <2>1, FailedKeepsInv
  <2> QED
    BY <1>3, <2>1, <2>2 DEF KeepsWork
<1>5. CASE local = me.task
  <2> DEFINE n == [pc |-> "save", rev |-> current.rev]
  <2>1. /\ local' = [pending |-> FALSE, content |-> current.content, rev |-> current.rev]
        /\ handoff' \in {Null, handoff} /\ Goes(c, n) /\ UNCHANGED <<wish, forwarded>>
    BY <1>5 DEF CommitCopy
  <2>2. current.rev \in Nat /\ current.content \in Contents /\ me.task.rev \in Nat
    BY <1>1, <1>2 DEF Copies, DraftTasks
  <2>3. local'.pending = FALSE /\ local'.content = current.content /\ local'.rev = current.rev
    BY <2>1
  <2>4. n \in CallerRecords
    BY <2>2, CallersWritten
  <2>5. /\ caller' \in [Callers -> CallerRecords] /\ caller'[c] = n
        /\ \A d \in Callers : d # c => caller'[d] = caller[d]
    BY <2>1, <2>4, MoveTypes DEF HandoffInv
  <2>6. local' \in DraftTasks
    BY <2>1, <2>2 DEF DraftTasks
  <2>7. HandoffTypeOK'
    BY <1>0, <2>1, <2>5, <2>6 DEF HandoffInv, HandoffTypeOK, hostTaskVars
  <2>8. CopyGrows
    BY <1>0, <1>3 DEF CopyGrows
  <2>9. WishesKept
    <3> SUFFICES ASSUME NEW w \in Wishes, WishSound(w)
                 PROVE  WishNext(w)
      BY DEF WishesKept
    <3>1. w.rev \in Nat
      BY DEF Wishes
    <3>2. w.rev <= local.rev /\ (w.rev = local.rev => w.content = local.content)
      BY <1>1, <1>5 DEF WishSound
    <3>3. ASSUME meddled # "deleted"
          PROVE  /\ remote # Null /\ w.rev <= remote.rev
                 /\ w.rev = remote.rev => w.content = remote.content
      <4>1. /\ remote # Null /\ current.rev <= remote.rev
            /\ current.rev = remote.rev => current.content = remote.content
        BY <1>2, <3>3 DEF Agrees
      <4>2. remote.rev \in Nat
        BY <4>1 DEF HandoffInv, HandoffTypeOK, Copies
      <4>3. w.rev <= me.task.rev /\ me.task.rev <= current.rev
        BY <1>2, <1>5, <3>2, <3>3
      <4>4. w.rev <= remote.rev
        BY <2>2, <3>1, <4>1, <4>2, <4>3
      <4>5. ASSUME w.rev = remote.rev
            PROVE  w.content = remote.content
        <5>1. w.rev = local.rev /\ current.rev = remote.rev
          BY <1>5, <2>2, <3>1, <4>1, <4>2, <4>3, <4>5
        <5> QED
          BY <1>2, <1>5, <3>2, <4>1, <5>1
      <4> QED
        BY <4>1, <4>4, <4>5
    <3> QED
      BY <1>0, <1>3, <2>3, <3>3 DEF WishNext, AgreesNext
  <2>10. StepGrows
    BY <2>3, <2>7, <2>8, <2>9 DEF StepGrows
  <2>11. StageSound(c)'
    <3>1. caller'[c].pc = "save" /\ caller'[c].rev = current.rev
      BY <2>5
    <3> QED
      BY <1>0, <1>1, <1>2, <1>3, <2>1, <2>3, <3>1 DEF StageSound, Agrees
  <2>12. n.pc = "save"
    OBVIOUS
  <2>13. AllSound'
    BY <1>0, <2>1, <2>10, <2>11, <2>12, MoveKeeps DEF Resting, hostTaskVars
  <2>14. CopyLeads'
    <3>1. AgreesNext(local'.rev, local'.content)
      BY <1>0, <1>2, <1>3, <2>3 DEF Agrees, AgreesNext
    <3> QED
      BY <1>0, <2>3, <2>10, <3>1, CopyStillLeads DEF hostTaskVars
  <2>15. ASSUME NEW t \in Transfers, IsSent(t)'
         PROVE  IsSent(t)
    BY <1>0, <2>1, <2>5, <2>12, <2>15, SentShrinks
  <2>16. TransfersSound'
    BY <1>0, <2>15, SentKept DEF hostTaskVars
  <2>17. KeepsWork
    BY <1>2, <1>3, <1>5, <2>3 DEF KeepsWork
  <2> QED
    BY <2>7, <2>13, <2>14, <2>16, <2>17 DEF HandoffInv, AllSound
<1> QED
  BY <1>4, <1>5

-----------------------------------------------------------------------------
\* The copy that a transfer makes.
NewCopy(t) == [content |-> t.task.content, active |-> FALSE,
               rev |-> IF remote = Null THEN t.task.rev ELSE LargerOf(t.task.rev, remote.rev + 1)]

LEMMA NewCopyType ==
    ASSUME HandoffInv, NEW t \in Transfers
    PROVE  /\ NewCopy(t) \in Copies /\ NewCopy(t).content = t.task.content
           /\ t.task.rev <= NewCopy(t).rev
           /\ remote # Null => remote.rev < NewCopy(t).rev
<1>1. t.task.rev \in Nat /\ t.task.content \in Contents
  BY DEF Transfers, DraftTasks
<1>2. remote # Null => remote.rev \in Nat
  BY DEF HandoffInv, HandoffTypeOK, Copies
<1> DEFINE r == IF remote = Null THEN t.task.rev ELSE LargerOf(t.task.rev, remote.rev + 1)
<1>3. r \in Nat /\ t.task.rev <= r /\ (remote # Null => remote.rev < r)
  BY <1>1, <1>2 DEF LargerOf
<1>4. NewCopy(t) = [content |-> t.task.content, active |-> FALSE, rev |-> r]
  BY DEF NewCopy
<1> HIDE DEF r
<1> QED
  BY <1>1, <1>3, <1>4 DEF Copies

\* What materialize_board_task does with a transfer that was sent.
LEMMA MaterializeEffect ==
    ASSUME HandoffInv, NEW t \in Transfers, IsSent(t), Materialize(t), UNCHANGED <<local, meddled>>
    PROVE  /\ remote' \in Copies \cup {Null} /\ receipts' \in [1..MaxTransfer -> Copies \cup {Null}]
           /\ CopyGrows /\ KeepsWork
           /\ \A i \in 1..MaxTransfer :
                \/ receipts'[i] = receipts[i]
                \/ /\ i = t.id /\ receipts'[i].content = t.task.content
                   /\ t.task.rev <= receipts'[i].rev
           /\ meddled' # "deleted" =>
                \A i \in 1..MaxTransfer : receipts'[i] # Null =>
                    remote' # Null /\ receipts'[i].rev <= remote'.rev
<1>1. t.id \in 1..MaxTransfer
  BY DEF Transfers
<1>2. CASE ~AcceptsTransfer(t)
  <2>1. UNCHANGED <<remote, receipts>>
    BY <1>2 DEF Materialize
  <2> QED
    BY <2>1 DEF HandoffInv, HandoffTypeOK, CopyGrows, KeepsWork, CopyLeads
<1>3. CASE AcceptsTransfer(t)
  <2> DEFINE copy == NewCopy(t)
  <2>1. remote' = copy /\ receipts' = [receipts EXCEPT ![t.id] = copy]
    BY <1>3 DEF Materialize, NewCopy
  <2>2. /\ copy \in Copies /\ copy.content = t.task.content /\ t.task.rev <= copy.rev
        /\ remote # Null => remote.rev < copy.rev
    BY NewCopyType
  <2> HIDE DEF copy
  <2>3. copy # Null
    BY <2>2, HandoffAssumption DEF Copies, Contents
  <2>4. receipts' \in [1..MaxTransfer -> Copies \cup {Null}]
    BY <2>1, <2>2 DEF HandoffInv, HandoffTypeOK
  <2>5. CopyGrows
    BY <2>1, <2>2, <2>3 DEF CopyGrows
  <2>6. KeepsWork
    <3>1. remote # Null => ~remote.active /\ remote.content \in MacContents
      BY <1>3 DEF AcceptsTransfer, Transferable, HandoffInv, TransfersSound, SoundTransfer
    <3> QED
      BY <3>1, HandoffAssumption DEF KeepsWork
  <2>7. receipts'[t.id] = copy /\ \A i \in 1..MaxTransfer : i # t.id => receipts'[i] = receipts[i]
    BY <1>1, <2>1 DEF HandoffInv, HandoffTypeOK
  <2>8. ASSUME meddled' # "deleted", NEW i \in 1..MaxTransfer, receipts'[i] # Null
        PROVE  receipts'[i].rev <= copy.rev
    <3>1. CASE i = t.id
      BY <2>2, <2>7, <3>1 DEF Copies
    <3>2. CASE i # t.id
      <4>1. receipts'[i] = receipts[i] /\ remote # Null /\ receipts[i].rev <= remote.rev
        BY <2>7, <2>8, <3>2 DEF HandoffInv, CopyLeads
      <4>2. receipts[i].rev \in Nat /\ remote.rev \in Nat /\ copy.rev \in Nat
        BY <2>2, <2>8, <4>1 DEF HandoffInv, HandoffTypeOK, Copies
      <4> QED
        BY <2>2, <4>1, <4>2
    <3> QED
      BY <3>1, <3>2
  <2> QED
    BY <2>1, <2>2, <2>3, <2>4, <2>5, <2>6, <2>7, <2>8
<1> QED
  BY <1>2, <1>3

\* Nothing new is sent and one transfer that was sent is materialized.
LEMMA MaterializedSound ==
    ASSUME HandoffInv, NEW t \in Transfers, IsSent(t), Materialize(t),
           UNCHANGED <<local, used, meddled>>, HandoffTypeOK',
           \A u \in Transfers : IsSent(u)' => IsSent(u)
    PROVE  TransfersSound' /\ CopyLeads' /\ StepGrows
<1>1. /\ remote' \in Copies \cup {Null} /\ CopyGrows
      /\ \A i \in 1..MaxTransfer :
           \/ receipts'[i] = receipts[i]
           \/ /\ i = t.id /\ receipts'[i].content = t.task.content
              /\ t.task.rev <= receipts'[i].rev
      /\ meddled' # "deleted" =>
           \A i \in 1..MaxTransfer : receipts'[i] # Null =>
               remote' # Null /\ receipts'[i].rev <= remote'.rev
  BY MaterializeEffect
<1>2. SoundTransfer(t)
  BY DEF HandoffInv, TransfersSound
<1>3. ASSUME NEW u \in Transfers, IsSent(u)'
      PROVE  SoundTransfer(u)'
  <2>1. SoundTransfer(u)
    BY <1>3 DEF HandoffInv, TransfersSound
  <2>2. u.id \in 1..MaxTransfer
    BY DEF Transfers
  <2>3. CASE receipts'[u.id] = receipts[u.id]
    BY <2>1, <2>3 DEF SoundTransfer
  <2>4. CASE receipts'[u.id] # receipts[u.id]
    <3>1. /\ u.id = t.id /\ receipts'[u.id].content = t.task.content
          /\ t.task.rev <= receipts'[u.id].rev
      BY <1>1, <2>2, <2>4
    <3>2. u.task = t.task
      BY <1>3, <3>1 DEF HandoffInv, TransfersSound
    <3> QED
      BY <2>1, <3>1, <3>2 DEF SoundTransfer
  <2> QED
    BY <2>3, <2>4
<1>4. \A v, u \in Transfers : IsSent(v)' /\ IsSent(u)' /\ v.id = u.id => v.task = u.task
  BY DEF HandoffInv, TransfersSound
<1>5. ASSUME NEW i \in 1..MaxTransfer, receipts'[i] # Null
      PROVE  i <= used' /\ receipts'[i].content \in MacContents
  BY <1>1, <1>2, <1>5 DEF HandoffInv, TransfersSound, SoundTransfer
<1>6. TransfersSound'
  BY <1>3, <1>4, <1>5 DEF TransfersSound
<1>7. WishesKept
  BY <1>1, SameDraftKeepsWishes
<1>8. StepGrows
  BY <1>1, <1>7 DEF StepGrows
<1>9. CopyLeads'
  BY <1>1, <1>8, LocalStillLeads DEF CopyLeads, Agrees, AgreesNext
<1> QED
  BY <1>6, <1>8, <1>9

LEMMA TransferKeeps ==
    ASSUME HandoffInv, NEW c \in Callers, Transfer(c)
    PROVE  HandoffInv' /\ KeepsWork
<1> DEFINE me == caller[c]
<1>0. /\ me.pc = "transfer" /\ Materialize(me.transfer)
      /\ UNCHANGED <<local, handoff, applied, late, used, losses, meddled>>
  BY DEF Transfer
<1>1. /\ me.task \in DraftTasks /\ me.task.pending = TRUE /\ me.task.content \in MacContents
      /\ wish[c] # Null /\ me.task.content = wish[c].content /\ applied[c] = <<>>
  BY <1>0, DraftInHand
<1>2. me.transfer \in Transfers /\ me.round \in {1, 2}
  BY <1>0, CallerFields DEF HandoffInv, HandoffTypeOK
<1>t. PICK t \in Transfers : t = me.transfer
  BY <1>2
<1> DEFINE receipt == receipts'[t.id]
<1>3. IsSent(t)
  BY <1>0, <1>t DEF IsSent
<1>4. /\ remote' \in Copies \cup {Null} /\ receipts' \in [1..MaxTransfer -> Copies \cup {Null}]
      /\ KeepsWork
  BY <1>0, <1>2, <1>t, <1>3, MaterializeEffect
<1>5. CASE receipt = Null
  <2>1. Fails(c)
    BY <1>5, <1>t DEF Transfer
  <2>2. HandoffTypeOK'
    BY <1>0, <1>4, <2>1, FailTypes DEF HandoffInv, HandoffTypeOK
  <2>3. ASSUME NEW u \in Transfers, IsSent(u)'
        PROVE  IsSent(u)
    BY <1>0, <2>1, <2>3, FailTypes, SentShrinks DEF HandoffInv
  <2>4. TransfersSound' /\ CopyLeads' /\ StepGrows
    BY <1>0, <1>2, <1>t, <1>3, <2>2, <2>3, MaterializedSound
  <2>5. AllSound'
    BY <1>0, <1>1, <2>1, <2>4, FailKeeps
  <2> QED
    BY <1>4, <2>2, <2>4, <2>5 DEF HandoffInv, AllSound
<1>6. CASE receipt # Null
  <2> DEFINE n == [pc |-> "verify", task |-> me.task, round |-> me.round, transfer |-> t,
                   receipt |-> receipt]
  <2>1. Goes(c, n) /\ UNCHANGED <<wish, forwarded>>
    BY <1>6, <1>t DEF Transfer
  <2>2. t.id \in 1..MaxTransfer /\ receipt \in Copies
    BY <1>2, <1>t, <1>4, <1>6 DEF Transfers
  <2>3. n \in CallerRecords
    BY <1>1, <1>2, <1>t, <2>2, CallersWritten
  <2>4. /\ caller' \in [Callers -> CallerRecords] /\ caller'[c] = n
        /\ \A d \in Callers : d # c => caller'[d] = caller[d]
    BY <2>1, <2>3, MoveTypes DEF HandoffInv
  <2>5. HandoffTypeOK'
    BY <1>0, <1>4, <2>1, <2>4 DEF HandoffInv, HandoffTypeOK
  <2>6. /\ caller'[c].pc = "verify" /\ caller'[c].transfer = t /\ caller'[c].task = me.task
        /\ caller'[c].receipt = receipt
    BY <2>4
  <2>7. ASSUME NEW u \in Transfers, IsSent(u)'
        PROVE  IsSent(u)
    <3>1. \A d \in Callers : \/ caller'[d] = caller[d]
                             \/ caller'[d].pc \notin {"transfer", "verify"}
                             \/ IsSent(caller'[d].transfer)
      BY <1>3, <2>4, <2>6
    <3> QED
      BY <1>0, <2>7, <3>1, SentShrinks
  <2>8. TransfersSound' /\ CopyLeads' /\ StepGrows
    BY <1>0, <1>2, <1>t, <1>3, <2>5, <2>7, MaterializedSound
  <2>9. IsSent(t)'
    BY <2>6 DEF IsSent
  <2>10. receipt.content = t.task.content /\ t.task.rev <= receipt.rev
    BY <1>2, <1>t, <1>6, <2>8, <2>9 DEF TransfersSound, SoundTransfer
  <2>11. meddled' # "deleted" => remote' # Null /\ receipt.rev <= remote'.rev
    BY <1>6, <2>2, <2>8 DEF CopyLeads
  <2>12. StageSound(c)'
    BY <1>1, <2>1, <2>6, <2>10, <2>11 DEF StageSound
  <2>13. AllSound'
    BY <1>0, <2>1, <2>8, <2>12, MoveKeeps DEF Resting
  <2> QED
    BY <1>4, <2>5, <2>8, <2>13 DEF HandoffInv, AllSound
<1> QED
  BY <1>5, <1>6

-----------------------------------------------------------------------------
\* A request that arrives on the host starts what its client saw, or nothing.
LEMMA StartEffect ==
    ASSUME HandoffInv, NEW c \in Callers, NEW rev \in Nat, wish[c] # Null,
           Agrees(rev, wish[c].content), StartOnHost(c, rev), UNCHANGED meddled
    PROVE  /\ remote' \in Copies \cup {Null} /\ applied' \in [Callers -> Seq(Contents)]
           /\ CopyGrows
           /\ remote # Null /\ remote' # Null =>
                remote'.content = remote.content /\ (remote.active => remote'.active)
           /\ \A d \in Callers : d # c => applied'[d] = applied[d]
           /\ \/ applied' = applied
              \/ /\ applied'[c] # <<>>
                 /\ meddled # "deleted" => applied'[c] = <<wish[c].content>>
<1>1. CASE ~Startable(c, rev)
  <2>1. UNCHANGED <<applied, remote>>
    BY <1>1 DEF StartOnHost
  <2> QED
    BY <2>1 DEF HandoffInv, HandoffTypeOK, CopyGrows
<1>2. CASE Startable(c, rev)
  <2>1. applied[c] = <<>> /\ remote # Null /\ ~remote.active /\ remote.rev = rev
    BY <1>2 DEF Startable
  <2>2. remote \in Copies /\ remote.content \in Contents /\ remote.rev \in Nat
    BY <2>1 DEF HandoffInv, HandoffTypeOK, Copies
  <2>3. remote' = [remote EXCEPT !.active = TRUE, !.rev = @ + 1]
    BY <1>2 DEF StartOnHost
  <2>4. remote' \in Copies /\ remote'.content = remote.content /\ remote'.rev = remote.rev + 1
    <3>1. PICK r \in Nat : r = remote.rev + 1
      BY <2>2
    <3>2. remote' = [remote EXCEPT !.active = TRUE, !.rev = r]
      BY <2>3, <3>1
    <3>3. remote' \in Copies /\ remote'.content = remote.content /\ remote'.rev = r
      BY <2>2, <3>2 DEF Copies
    <3> QED
      BY <3>1, <3>3
  <2>5. remote' # Null
    BY <2>4, HandoffAssumption DEF Copies, Contents
  <2>6. CopyGrows
    BY <2>2, <2>4, <2>5 DEF CopyGrows
  <2>7. applied' = [applied EXCEPT ![c] = Append(applied[c], remote.content)]
    BY <1>2 DEF StartOnHost
  <2>8. Append(applied[c], remote.content) = <<remote.content>>
    BY <2>1
  <2>9. <<remote.content>> \in Seq(Contents) /\ <<remote.content>> # <<>>
    BY <2>2
  <2>10. /\ applied' \in [Callers -> Seq(Contents)] /\ applied'[c] = <<remote.content>>
         /\ \A d \in Callers : d # c => applied'[d] = applied[d]
    BY <2>7, <2>8, <2>9 DEF HandoffInv, HandoffTypeOK
  <2>11. meddled # "deleted" => remote.content = wish[c].content
    BY <2>1 DEF Agrees
  <2> QED
    BY <2>1, <2>4, <2>5, <2>6, <2>9, <2>10, <2>11
<1> QED
  BY <1>1, <1>2

\* A request starts; its thread rests, or comes to rest.
LEMMA StartKeeps ==
    ASSUME HandoffInv, StepGrows, NEW c \in Callers, wish[c] # Null, local.pending = FALSE,
           caller[c].pc \in Resting, UNCHANGED <<wish, forwarded, meddled>>, late' \subseteq late,
           \A d \in Callers : caller'[d] = caller[d] \/ (d = c /\ caller'[d].pc = "idle"),
           \A d \in Callers : d # c => applied'[d] = applied[d],
           \/ applied' = applied
           \/ /\ applied'[c] # <<>>
              /\ meddled # "deleted" => applied'[c] = <<wish[c].content>>
    PROVE  AllSound'
<1>1. ASSUME NEW d \in Callers
      PROVE  StageSound(d)'
  <2>1. CASE caller'[d] = caller[d]
    BY <2>1, StageKept
  <2>2. CASE caller'[d].pc = "idle"
    BY <2>2 DEF StageSound
  <2> QED
    BY <2>1, <2>2
<1>2. caller'[c].pc \in Resting
  BY DEF Resting
<1>3. ASSUME NEW d \in Callers, applied'[d] = applied[d]
      PROVE  RequestSound(d)'
  <2>1. applied[d] # <<>> => caller'[d].pc \in Resting
    BY <1>2 DEF HandoffInv, RequestSound, Resting
  <2> QED
    BY <1>3, <2>1, RequestKept
<1>6. ASSUME NEW m \in late'
      PROVE  LateSound(m)'
  <2>1. m \in late /\ (m.kind = "start" => m.by \in Callers)
    BY DEF HandoffInv, HandoffTypeOK, LateMessages
  <2> QED
    BY <1>2, <2>1, LateKept
<1>4. CASE applied' # applied
  <2>1. RequestSound(c)
    BY DEF HandoffInv
  <2>2. wish[c] \in Wishes
    BY DEF HandoffInv, HandoffTypeOK, Wishes
  <2>3. WishNext(wish[c])
    BY <2>1, <2>2 DEF RequestSound, StepGrows, WishesKept
  <2>4. local'.pending = FALSE /\ remote' \in Copies \cup {Null} /\ CopyGrows
    BY DEF StepGrows, HandoffTypeOK
  <2>5. forwarded[c] # Null => AgreesNext(forwarded[c], wish[c].content)
    <3>1. forwarded[c] # Null => forwarded[c] \in Nat
      BY DEF HandoffInv, HandoffTypeOK
    <3> QED
      BY <2>1, <2>4, <3>1, AgreesKept DEF RequestSound
  <2>6. RequestSound(c)'
    BY <1>2, <1>4, <2>3, <2>4, <2>5
    DEF RequestSound, WishSound, WishNext, Agrees, AgreesNext, Resting
  <2> QED
    BY <1>1, <1>3, <1>6, <2>6 DEF AllSound
<1>5. CASE applied' = applied
  BY <1>1, <1>3, <1>5, <1>6 DEF AllSound
<1> QED
  BY <1>4, <1>5

LEMMA ForwardStartKeeps ==
    ASSUME HandoffInv, NEW c \in Callers, ForwardStart(c)
    PROVE  HandoffInv' /\ KeepsWork
<1> DEFINE me == caller[c]
<1> DEFINE mirrored == [pending |-> FALSE, content |-> remote'.content, rev |-> remote'.rev]
<1>0. /\ me.pc = "send" /\ StartOnHost(c, me.rev)
      /\ UNCHANGED <<handoff, receipts, late, used, losses, meddled>>
      /\ local' = local \/ (remote' # Null /\ local' = mirrored)
  BY DEF ForwardStart
<1>1. me.rev \in Nat /\ local.pending = FALSE /\ wish[c] # Null /\ Agrees(me.rev, wish[c].content)
  BY <1>0, CallerFields DEF HandoffInv, HandoffTypeOK, StageSound
<1>2. /\ remote' \in Copies \cup {Null} /\ applied' \in [Callers -> Seq(Contents)]
      /\ CopyGrows
      /\ remote # Null /\ remote' # Null =>
           remote'.content = remote.content /\ (remote.active => remote'.active)
      /\ \A d \in Callers : d # c => applied'[d] = applied[d]
      /\ \/ applied' = applied
         \/ /\ applied'[c] # <<>>
            /\ meddled # "deleted" => applied'[c] = <<wish[c].content>>
  BY <1>0, <1>1, StartEffect
<1>3. /\ Fails(c) /\ applied'[c] = <<>>
      \/ /\ Goes(c, IdleCaller) /\ UNCHANGED <<wish, forwarded>> /\ applied'[c] # <<>>
  BY DEF ForwardStart
<1>4. /\ caller' \in [Callers -> CallerRecords]
      /\ wish' \in [Callers -> [rev : Nat, content : Contents] \cup {Null}]
      /\ forwarded' \in [Callers -> Nat \cup {Null}]
      /\ \A d \in Callers : caller'[d] = caller[d] \/ caller'[d].pc = "idle"
  <2>1. CASE Fails(c)
    BY <2>1, FailTypes DEF HandoffInv
  <2>2. CASE Goes(c, IdleCaller) /\ UNCHANGED <<wish, forwarded>>
    BY <2>2, MoveTypes, CallersWritten DEF HandoffInv, HandoffTypeOK
  <2> QED
    BY <1>3, <2>1, <2>2
<1>5. local' \in DraftTasks /\ local'.pending = FALSE
  <2>1. remote' # Null => mirrored \in DraftTasks /\ mirrored.pending = FALSE
    BY <1>2 DEF Copies, DraftTasks
  <2>2. local \in DraftTasks
    BY DEF HandoffInv, HandoffTypeOK
  <2> HIDE DEF mirrored
  <2> QED
    BY <1>0, <1>1, <2>1, <2>2
<1>6. HandoffTypeOK'
  BY <1>0, <1>2, <1>4, <1>5 DEF HandoffInv, HandoffTypeOK
<1>7. StepGrows
  <2>1. WishesKept
    BY <1>1, <1>2, <1>5, SameDraftKeepsWishes
  <2> QED
    BY <1>2, <1>5, <1>6, <2>1 DEF StepGrows
<1>8. AllSound'
  <2>1. CASE Fails(c) /\ applied'[c] = <<>>
    <3>1. applied' = applied
      BY <1>2, <2>1
    <3> QED
      BY <1>0, <1>7, <2>1, <3>1, FailKeeps
  <2>2. CASE Goes(c, IdleCaller) /\ UNCHANGED <<wish, forwarded>>
    <3>1. \A d \in Callers : caller'[d] = caller[d] \/ (d = c /\ caller'[d].pc = "idle")
      BY <2>2, MoveTypes, CallersWritten DEF HandoffInv
    <3>2. caller[c].pc \in Resting
      BY <1>0 DEF Resting
    <3> QED
      BY <1>0, <1>1, <1>2, <1>7, <2>2, <3>1, <3>2, StartKeeps
  <2> QED
    BY <1>3, <2>1, <2>2
<1>9. CopyLeads'
  <2>1. CASE local' = local
    BY <1>0, <1>7, <2>1, CopyStillLeads, LocalStillLeads
  <2>2. CASE remote' # Null /\ local' = mirrored
    <3>1. local'.rev = remote'.rev /\ local'.content = remote'.content /\ remote'.rev \in Nat
      BY <1>2, <2>2 DEF Copies
    <3>2. AgreesNext(local'.rev, local'.content)
      BY <2>2, <3>1 DEF AgreesNext
    <3> QED
      BY <1>0, <1>5, <1>7, <3>2, CopyStillLeads
  <2> QED
    BY <1>0, <2>1, <2>2
<1>10. ASSUME NEW t \in Transfers, IsSent(t)'
       PROVE  IsSent(t)
  BY <1>0, <1>4, <1>10, SentShrinks
<1>11. TransfersSound'
  BY <1>0, <1>10, SentKept
<1>12. KeepsWork
  BY <1>1, <1>2 DEF KeepsWork
<1> QED
  BY <1>6, <1>8, <1>9, <1>11, <1>12 DEF HandoffInv, AllSound

LEMMA ArriveKeeps ==
    ASSUME HandoffInv, NEW m \in late, Arrive(m)
    PROVE  HandoffInv' /\ KeepsWork
<1>0. /\ late' = late \ {m} /\ UNCHANGED <<local, handoff, wish, forwarded, caller, used, meddled>>
  BY DEF Arrive, macVars
<1>1. m \in LateMessages
  BY DEF HandoffInv, HandoffTypeOK
<1>2. ASSUME NEW t \in Transfers, IsSent(t)'
      PROVE  IsSent(t)
  BY <1>0, <1>2, SentShrinks
<1>3. CASE m.kind = "transfer"
  <2>1. Materialize(m.transfer) /\ UNCHANGED applied
    BY <1>3 DEF Arrive
  <2>2. m.transfer \in Transfers /\ IsSent(m.transfer)
    BY <1>1, <1>3 DEF LateMessages, IsSent
  <2>3. /\ remote' \in Copies \cup {Null} /\ receipts' \in [1..MaxTransfer -> Copies \cup {Null}]
        /\ KeepsWork
    BY <1>0, <2>1, <2>2, MaterializeEffect
  <2>4. HandoffTypeOK'
    BY <1>0, <2>1, <2>3 DEF HandoffInv, HandoffTypeOK
  <2>5. TransfersSound' /\ CopyLeads' /\ StepGrows
    BY <1>0, <1>2, <2>1, <2>2, <2>4, MaterializedSound
  <2>6. AllSound'
    BY <1>0, <2>1, <2>5, StillKeeps
  <2> QED
    BY <2>3, <2>4, <2>5, <2>6 DEF HandoffInv, AllSound
<1>4. CASE m.kind # "transfer"
  <2>1. m.kind = "start" /\ m.by \in Callers /\ m.rev \in Nat
    BY <1>1, <1>4 DEF LateMessages
  <2>2. StartOnHost(m.by, m.rev) /\ UNCHANGED receipts
    BY <1>4 DEF Arrive
  <2>3. /\ local.pending = FALSE /\ caller[m.by].pc \in Resting
        /\ wish[m.by] # Null /\ Agrees(m.rev, wish[m.by].content)
    BY <2>1 DEF HandoffInv, LateSound, Resting
  <2>4. /\ remote' \in Copies \cup {Null} /\ applied' \in [Callers -> Seq(Contents)]
        /\ CopyGrows
        /\ remote # Null /\ remote' # Null =>
             remote'.content = remote.content /\ (remote.active => remote'.active)
        /\ \A d \in Callers : d # m.by => applied'[d] = applied[d]
        /\ \/ applied' = applied
           \/ /\ applied'[m.by] # <<>>
              /\ meddled # "deleted" => applied'[m.by] = <<wish[m.by].content>>
    BY <1>0, <2>1, <2>2, <2>3, StartEffect
  <2>5. HandoffTypeOK'
    BY <1>0, <2>2, <2>4 DEF HandoffInv, HandoffTypeOK
  <2>6. StepGrows
    BY <1>0, <2>4, <2>5, SameDraftKeepsWishes DEF StepGrows
  <2>7. AllSound'
    BY <1>0, <2>1, <2>3, <2>4, <2>6, StartKeeps
  <2>8. CopyLeads'
    BY <1>0, <2>2, <2>6, CopyStillLeads, LocalStillLeads
  <2>9. TransfersSound'
    BY <1>0, <1>2, <2>2, SentKept
  <2>10. KeepsWork
    BY <1>0, <2>4 DEF KeepsWork
  <2> QED
    BY <2>5, <2>7, <2>8, <2>9, <2>10 DEF HandoffInv, AllSound
<1> QED
  BY <1>3, <1>4

-----------------------------------------------------------------------------
\* What a thread that is given up leaves on the way.
LEMMA FlightSound ==
    ASSUME HandoffInv, NEW c \in Callers, NEW m \in InFlight(c)
    PROVE  /\ m \in LateMessages
           /\ m.kind = "transfer" => IsSent(m.transfer)
           /\ m.kind = "start" =>
                /\ m.by = c /\ m.rev \in Nat /\ local.pending = FALSE /\ wish[c] # Null
                /\ Agrees(m.rev, wish[c].content)
<1>1. CASE caller[c].pc = "transfer"
  <2>1. m = [kind |-> "transfer", transfer |-> caller[c].transfer]
    BY <1>1 DEF InFlight
  <2>2. caller[c].transfer \in Transfers
    BY <1>1, CallerFields DEF HandoffInv, HandoffTypeOK
  <2>3. IsSent(caller[c].transfer)
    BY <1>1 DEF IsSent
  <2> QED
    BY <2>1, <2>2, <2>3 DEF LateMessages
<1>2. CASE caller[c].pc = "send"
  <2>1. m = [kind |-> "start", by |-> c, rev |-> caller[c].rev]
    BY <1>2 DEF InFlight
  <2>2. /\ caller[c].rev \in Nat /\ local.pending = FALSE /\ wish[c] # Null
        /\ Agrees(caller[c].rev, wish[c].content)
    BY <1>2, CallerFields DEF HandoffInv, HandoffTypeOK, StageSound
  <2> QED
    BY <2>1, <2>2 DEF LateMessages
<1> QED
  BY <1>1, <1>2 DEF InFlight

\* Some threads are given up, with what they have on the way.
LEMMA AbandonKeeps ==
    ASSUME HandoffInv, NEW S \in SUBSET Callers,
           caller' \in [Callers -> CallerRecords],
           \A d \in Callers : IF d \in S THEN caller'[d] = IdleCaller ELSE caller'[d] = caller[d],
           late' = late \cup UNION {InFlight(d) : d \in S},
           UNCHANGED <<macVars, hostTaskVars, used, meddled>>
    PROVE  HandoffInv'
<1>0. UNCHANGED <<local, handoff, wish, forwarded, remote, receipts, applied>>
  BY DEF macVars, hostTaskVars
<1>1. ASSUME NEW m \in late', m \notin late
      PROVE  \E d \in S : m \in InFlight(d)
  BY <1>1
<1>2. late' \subseteq LateMessages
  <2> SUFFICES ASSUME NEW m \in late', m \notin late
               PROVE  m \in LateMessages
    BY DEF HandoffInv, HandoffTypeOK
  <2> QED
    BY <1>1, FlightSound
<1>3. HandoffTypeOK'
  BY <1>0, <1>2 DEF HandoffInv, HandoffTypeOK
<1>4. StepGrows
  BY <1>0, <1>3, QuietGrows
<1>5. \A d \in Callers : caller'[d] = caller[d] \/ caller'[d].pc = "idle"
  BY CallersWritten
<1>6. ASSUME NEW d \in Callers
      PROVE  StageSound(d)' /\ RequestSound(d)'
  <2>1. applied[d] # <<>> => caller'[d].pc \in Resting
    BY <1>5 DEF HandoffInv, RequestSound, Resting
  <2>2. RequestSound(d)'
    BY <1>0, <1>4, <2>1, RequestKept
  <2>3. CASE caller'[d] = caller[d]
    BY <1>0, <1>4, <2>2, <2>3, StageKept
  <2>4. CASE caller'[d].pc = "idle"
    BY <2>2, <2>4 DEF StageSound
  <2> QED
    BY <1>5, <2>3, <2>4
<1>7. ASSUME NEW m \in late'
      PROVE  LateSound(m)'
  <2>1. CASE m \in late
    <3>1. m.kind = "start" => m.by \in Callers
      BY <2>1 DEF HandoffInv, HandoffTypeOK, LateMessages
    <3> QED
      BY <1>0, <1>4, <1>5, <2>1, <3>1, LateKept DEF Resting
  <2>2. CASE m \notin late
    <3>1. PICK d \in S : m \in InFlight(d)
      BY <1>1, <2>2
    <3>2. m.kind = "start" => /\ m.by = d /\ local.pending = FALSE /\ wish[d] # Null
                              /\ Agrees(m.rev, wish[d].content)
      BY <3>1, FlightSound
    <3>3. caller'[d].pc = "idle"
      BY <3>1, CallersWritten
    <3> QED
      BY <1>0, <3>2, <3>3 DEF LateSound, Agrees
  <2> QED
    BY <2>1, <2>2
<1>8. CopyLeads'
  BY <1>0, <1>4, CopyStillLeads, LocalStillLeads
<1>9. ASSUME NEW t \in Transfers, IsSent(t)'
      PROVE  IsSent(t)
  <2>1. \A m \in late' : m \in late \/ m.kind # "transfer" \/ IsSent(m.transfer)
    BY <1>1, FlightSound
  <2> QED
    BY <1>0, <1>5, <1>9, <2>1, SentShrinks
<1>10. TransfersSound'
  BY <1>0, <1>9, SentKept
<1> QED
  BY <1>3, <1>6, <1>7, <1>8, <1>10 DEF HandoffInv

LEMMA GiveUpKeeps ==
    ASSUME HandoffInv, NEW c \in Callers, GiveUp(c)
    PROVE  HandoffInv'
<1>1. /\ caller' \in [Callers -> CallerRecords] /\ caller'[c] = IdleCaller
      /\ \A d \in Callers : d # c => caller'[d] = caller[d]
  BY MoveTypes, CallersWritten DEF GiveUp, HandoffInv
<1>2. UNION {InFlight(d) : d \in {c}} = InFlight(c)
  OBVIOUS
<1>3. \A d \in Callers : IF d \in {c} THEN caller'[d] = IdleCaller ELSE caller'[d] = caller[d]
  BY <1>1
<1>4. late' = late \cup UNION {InFlight(d) : d \in {c}}
      /\ UNCHANGED <<macVars, hostTaskVars, used, meddled>>
  BY <1>2 DEF GiveUp
<1>5. {c} \in SUBSET Callers
  OBVIOUS
<1> QED
  BY <1>1, <1>3, <1>4, <1>5, AbandonKeeps

LEMMA MacCrashesKeeps ==
    ASSUME HandoffInv, MacCrashes
    PROVE  HandoffInv'
<1>1. /\ late' = late \cup UNION {InFlight(c) : c \in Callers}
      /\ caller' = [c \in Callers |-> IdleCaller]
      /\ UNCHANGED <<macVars, hostTaskVars, used, meddled>>
  BY DEF MacCrashes
<1>2. caller' \in [Callers -> CallerRecords]
  BY <1>1, CallersWritten
<1>3. \A d \in Callers : IF d \in Callers THEN caller'[d] = IdleCaller ELSE caller'[d] = caller[d]
  BY <1>1
<1>4. Callers \in SUBSET Callers
  OBVIOUS
<1> QED
  BY <1>1, <1>2, <1>3, <1>4, AbandonKeeps

\* A step of the user, of the projection or of the host: no thread moves.
LEMMA OutsideKeeps ==
    ASSUME HandoffInv, HandoffTypeOK', CopyGrows, WishesKept,
           local.pending = FALSE => local'.pending = FALSE,
           UNCHANGED <<handoff, wish, forwarded, receipts, applied, late, caller, used>>,
           local'.pending = TRUE => local'.content \in MacContents,
           local'.pending = FALSE => AgreesNext(local'.rev, local'.content)
    PROVE  HandoffInv'
<1>1. StepGrows
  BY DEF StepGrows
<1>2. AllSound'
  BY <1>1, StillKeeps
<1>3. CopyLeads'
  BY <1>1, CopyStillLeads
<1>4. ASSUME NEW t \in Transfers, IsSent(t)'
      PROVE  IsSent(t)
  BY <1>4, SentShrinks
<1>5. TransfersSound'
  BY <1>4, SentKept
<1> QED
  BY <1>2, <1>3, <1>5 DEF HandoffInv, AllSound

LEMMA MacEditsKeeps ==
    ASSUME HandoffInv, NEW content \in MacContents, MacEdits(content)
    PROVE  HandoffInv' /\ KeepsWork
<1>0. /\ local.pending /\ local' = [local EXCEPT !.content = content, !.rev = @ + 1]
      /\ UNCHANGED <<handoff, wish, forwarded, receipts, remote, applied, late, caller, used, meddled>>
  BY DEF MacEdits, hostTaskVars
<1>1. local \in DraftTasks /\ local.pending = TRUE /\ local.rev \in Nat
  BY <1>0 DEF HandoffInv, HandoffTypeOK, DraftTasks
<1>2. PICK r \in Nat : r = local.rev + 1
  BY <1>1
<1>3. local' = [local EXCEPT !.content = content, !.rev = r]
  BY <1>0, <1>2
<1>4. content \in Contents
  BY DEF Contents
<1>5. local' \in DraftTasks /\ local'.pending = TRUE /\ local'.content = content /\ local'.rev = r
  BY <1>1, <1>3, <1>4 DEF DraftTasks
<1>6. HandoffTypeOK'
  BY <1>0, <1>5 DEF HandoffInv, HandoffTypeOK
<1>7. CopyGrows
  BY <1>0 DEF CopyGrows
<1>8. WishesKept
  <2> SUFFICES ASSUME NEW w \in Wishes, WishSound(w)
               PROVE  WishNext(w)
    BY DEF WishesKept
  <2>1. w.rev \in Nat /\ w.rev <= local.rev
    BY <1>1 DEF Wishes, WishSound
  <2> QED
    BY <1>1, <1>2, <1>5, <2>1 DEF WishNext
<1>9. HandoffInv'
  BY <1>0, <1>1, <1>5, <1>6, <1>7, <1>8, OutsideKeeps
<1> QED
  BY <1>0, <1>5, <1>9 DEF KeepsWork

LEMMA MirrorKeeps ==
    ASSUME HandoffInv, Mirror
    PROVE  HandoffInv' /\ KeepsWork
<1>0. /\ ~local.pending /\ remote # Null
      /\ local' = [pending |-> FALSE, content |-> remote.content, rev |-> remote.rev]
      /\ UNCHANGED <<handoff, wish, forwarded, receipts, remote, applied, late, caller, used, meddled>>
  BY DEF Mirror, hostTaskVars
<1>1. remote \in Copies /\ remote.content \in Contents /\ remote.rev \in Nat
  BY <1>0 DEF HandoffInv, HandoffTypeOK, Copies
<1>2. local.pending = FALSE
  BY <1>0 DEF HandoffInv, HandoffTypeOK, DraftTasks
<1>3. /\ local' \in DraftTasks /\ local'.pending = FALSE /\ local'.content = remote.content
      /\ local'.rev = remote.rev
  BY <1>0, <1>1 DEF DraftTasks
<1>4. HandoffTypeOK'
  BY <1>0, <1>3 DEF HandoffInv, HandoffTypeOK
<1>5. CopyGrows /\ remote' \in Copies \cup {Null}
  BY <1>0, <1>1 DEF CopyGrows
<1>6. WishesKept
  BY <1>2, <1>3, <1>5, SameDraftKeepsWishes
<1>7. AgreesNext(local'.rev, local'.content)
  BY <1>0, <1>1, <1>3 DEF AgreesNext
<1>8. HandoffInv'
  BY <1>0, <1>3, <1>4, <1>5, <1>6, <1>7, OutsideKeeps
<1> QED
  BY <1>0, <1>2, <1>8 DEF KeepsWork

LEMMA HostChangesKeeps ==
    ASSUME HandoffInv, HostChanges
    PROVE  HandoffInv' /\ KeepsWork
<1>0. /\ remote # Null /\ ~remote.active
      /\ UNCHANGED <<local, handoff, wish, forwarded, receipts, applied, late, caller, used>>
  BY DEF HostChanges, macVars
<1>1. remote \in Copies /\ remote.content \in Contents /\ remote.rev \in Nat
  BY <1>0 DEF HandoffInv, HandoffTypeOK, Copies
<1>2. PICK r \in Nat : r = remote.rev + 1
  BY <1>1
<1>3. /\ remote' \in Copies \cup {Null} /\ CopyGrows /\ meddled' \in {"no", "changed", "deleted"}
      /\ remote' # Null => remote'.content \in {remote.content} \cup HostContents
  <2>1. ASSUME NEW content \in HostContents \cup {remote.content},
               remote' = [remote EXCEPT !.content = content, !.rev = @ + 1],
               meddled' = IF meddled = "no" THEN "changed" ELSE meddled
        PROVE  <1>3
    <3>1. content \in Contents
      BY <1>1 DEF Contents
    <3>2. remote' = [remote EXCEPT !.content = content, !.rev = r]
      BY <1>2, <2>1
    <3>3. remote' \in Copies /\ remote'.content = content /\ remote'.rev = r
      BY <1>1, <3>1, <3>2 DEF Copies
    <3>4. remote' # Null
      BY <3>3, HandoffAssumption DEF Copies, Contents
    <3>5. /\ meddled' \in {"no", "changed", "deleted"}
          /\ meddled' # "deleted" => meddled # "deleted"
      BY <2>1 DEF HandoffInv, HandoffTypeOK
    <3> QED
      BY <1>1, <1>2, <3>3, <3>4, <3>5 DEF CopyGrows
  <2>2. ASSUME remote' = [remote EXCEPT !.active = TRUE, !.rev = @ + 1],
               meddled' = IF meddled = "no" THEN "changed" ELSE meddled
        PROVE  <1>3
    <3>1. remote' = [remote EXCEPT !.active = TRUE, !.rev = r]
      BY <1>2, <2>2
    <3>2. remote' \in Copies /\ remote'.content = remote.content /\ remote'.rev = r
      BY <1>1, <3>1 DEF Copies
    <3>3. remote' # Null
      BY <3>2, HandoffAssumption DEF Copies, Contents
    <3>4. /\ meddled' \in {"no", "changed", "deleted"}
          /\ meddled' # "deleted" => meddled # "deleted"
      BY <2>2 DEF HandoffInv, HandoffTypeOK
    <3> QED
      BY <1>1, <1>2, <3>2, <3>3, <3>4 DEF CopyGrows
  <2>3. ASSUME remote' = Null, meddled' = "deleted"
        PROVE  <1>3
    BY <2>3 DEF CopyGrows
  <2> QED
    BY <2>1, <2>2, <2>3 DEF HostChanges
<1>4. HandoffTypeOK'
  BY <1>0, <1>3 DEF HandoffInv, HandoffTypeOK
<1>5. WishesKept
  BY <1>0, <1>3, SameDraftKeepsWishes
<1>6. StepGrows
  BY <1>0, <1>3, <1>4, <1>5 DEF StepGrows
<1>7. HandoffInv'
  BY <1>0, <1>3, <1>4, <1>5, <1>6, LocalStillLeads, OutsideKeeps
<1> QED
  BY <1>0, <1>3, <1>7 DEF KeepsWork

-----------------------------------------------------------------------------
\* Every step keeps the invariant and the work.
LEMMA HandoffStep ==
    ASSUME HandoffInv, HandoffNext
    PROVE  HandoffInv' /\ KeepsWork
<1>1. ASSUME NEW c \in Callers, Submit(c) \/ CallerStep(c) \/ GiveUp(c)
      PROVE  HandoffInv' /\ KeepsWork
  <2>1. CASE Submit(c)
    BY <2>1, SubmitKeeps DEF Submit, hostTaskVars, KeepsWork
  <2>2. CASE Look(c)
    BY <2>2, LookKeeps DEF Look, hostTaskVars, KeepsWork
  <2>3. CASE ReadJournal(c)
    BY <2>3, ReadJournalKeeps DEF ReadJournal, macVars, hostTaskVars, KeepsWork
  <2>4. CASE GetCopy(c)
    BY <2>4, GetCopyKeeps DEF GetCopy, hostTaskVars, KeepsWork
  <2>5. CASE PersistJournal(c)
    BY <2>5, PersistJournalKeeps DEF PersistJournal, hostTaskVars, KeepsWork
  <2>6. CASE Transfer(c)
    BY <2>6, TransferKeeps
  <2>7. CASE Verify(c)
    BY <2>7, VerifyKeeps DEF Verify, hostTaskVars, KeepsWork
  <2>8. CASE ReplaceJournal(c)
    BY <2>8, ReplaceJournalKeeps DEF ReplaceJournal, hostTaskVars, KeepsWork
  <2>9. CASE CommitCopy(c)
    BY <2>9, CommitCopyKeeps
  <2>10. CASE SaveAction(c)
    BY <2>10, SaveActionKeeps DEF SaveAction, hostTaskVars, KeepsWork
  <2>11. CASE ForwardStart(c)
    BY <2>11, ForwardStartKeeps
  <2>12. CASE GiveUp(c)
    BY <2>12, GiveUpKeeps DEF GiveUp, macVars, hostTaskVars, KeepsWork
  <2> QED
    BY <1>1, <2>1, <2>2, <2>3, <2>4, <2>5, <2>6, <2>7, <2>8, <2>9, <2>10, <2>11, <2>12
    DEF CallerStep
<1>2. ASSUME NEW m \in late, Arrive(m)
      PROVE  HandoffInv' /\ KeepsWork
  BY <1>2, ArriveKeeps
<1>3. ASSUME NEW content \in MacContents, MacEdits(content)
      PROVE  HandoffInv' /\ KeepsWork
  BY <1>3, MacEditsKeeps
<1>4. CASE MacCrashes
  BY <1>4, MacCrashesKeeps DEF MacCrashes, macVars, hostTaskVars, KeepsWork
<1>5. CASE Mirror
  BY <1>5, MirrorKeeps
<1>6. CASE HostChanges
  BY <1>6, HostChangesKeeps
<1> QED
  BY <1>1, <1>2, <1>3, <1>4, <1>5, <1>6 DEF HandoffNext

LEMMA HandoffStutter ==
    ASSUME HandoffInv, UNCHANGED handoffVars
    PROVE  HandoffInv'
<1>0. UNCHANGED <<local, handoff, wish, forwarded, remote, receipts, applied, late, caller, used,
                  meddled>>
  BY DEF handoffVars
<1>1. HandoffTypeOK'
  BY <1>0 DEF HandoffInv, HandoffTypeOK
<1>2. StepGrows
  BY <1>0, <1>1, QuietGrows
<1> QED
  BY <1>0, <1>1, <1>2, LocalStillLeads, OutsideKeeps DEF StepGrows

LEMMA HandoffStarts ==
    ASSUME HandoffInit
    PROVE  HandoffInv
<1>1. /\ local.pending = TRUE /\ local.content = FirstContent /\ local.rev = 1
      /\ local \in DraftTasks
  BY HandoffAssumption DEF HandoffInit, DraftTasks, Contents
<1>2. /\ handoff = Null /\ remote = Null /\ late = {} /\ used = 0 /\ meddled = "no"
      /\ receipts = [i \in 1..MaxTransfer |-> Null]
      /\ caller = [c \in Callers |-> IdleCaller] /\ wish = [c \in Callers |-> Null]
      /\ forwarded = [c \in Callers |-> Null] /\ applied = [c \in Callers |-> <<>>]
  BY DEF HandoffInit
<1>3. HandoffTypeOK
  BY <1>1, <1>2, CallersWritten DEF HandoffTypeOK
<1>4. \A c \in Callers : caller[c].pc = "idle"
  BY <1>2, CallersWritten
<1>5. \A t : ~IsSent(t)
  BY <1>2, <1>4 DEF IsSent
<1>6. TransfersSound
  BY <1>2, <1>5 DEF TransfersSound
<1>7. CopyLeads
  BY <1>1, <1>2, HandoffAssumption DEF CopyLeads
<1>8. \A c \in Callers : StageSound(c) /\ RequestSound(c)
  BY <1>2, <1>4 DEF StageSound, RequestSound
<1> QED
  BY <1>2, <1>3, <1>6, <1>7, <1>8 DEF HandoffInv

\* A request starts at most once, and what it starts is what its client saw: for any number
\* of requests, transfers, losses and edits (Task::check_revision,
\* restore_remote_board_action).
THEOREM StartsAreApprovedOnce == HandoffSpec => []StartsApprovedOnce
<1>1. HandoffInit => HandoffInv
  BY HandoffStarts
<1>2. HandoffInv /\ [HandoffNext]_handoffVars => HandoffInv'
  BY HandoffStep, HandoffStutter
<1>3. HandoffInv => StartsApprovedOnce
  BY DEF HandoffInv, RequestSound, StartsApprovedOnce
<1> QED
  BY <1>1, <1>2, <1>3, PTL DEF HandoffSpec

\* No transfer, repeated or late, overwrites work on the host, and the projection that
\* replaces the draft has the content of the draft (materialize_board_task,
\* prepare_remote_board_task).
THEOREM HandoffKeepsWork == HandoffSpec => WorkSurvives
<1>1. HandoffInit => HandoffInv
  BY HandoffStarts
<1>2. HandoffInv /\ [HandoffNext]_handoffVars => HandoffInv'
  BY HandoffStep, HandoffStutter
<1>3. HandoffInv /\ [HandoffNext]_handoffVars => [KeepsWork]_handoffVars
  BY HandoffStep
<1> QED
  BY <1>1, <1>2, <1>3, PTL DEF HandoffSpec, WorkSurvives

-----------------------------------------------------------------------------
\* The stream of a remote daemon.

Lines   == [kind : EventKinds \cup {"SnapshotReplaced"}, epoch : Nat, sequence : Nat, view : Views]
Cursors == (Nat \X Nat) \cup {None}
Requests == {r \in [pc : {"idle", "sent", "answered"}, kind : RpcKinds \cup {"none"}, version : Nat] :
               r.pc = "sent" => r.kind \in RpcKinds}
PollStages == {"idle", "status", "snapshot", "received", "restarted", "reconcile", "subscribe"}

\* The types of the daemon, of the stream and of the mirror.
DaemonTypeOK == epoch \in Nat /\ sequence \in Nat /\ view \in Views /\ replay \in Seq(Lines)
WireTypeOK   == /\ attached \in BOOLEAN /\ initial \in Seq(Lines) /\ channel \in Seq(Lines)
                /\ stream \in {"off", "opening", "on", "cancelled"} /\ last \in Cursors
CopyTypeOK   ==
    /\ cur \in Cursors /\ known \in Nat \cup {None} /\ gen \in Nat
    /\ mirror \in [task : Nat, agent : Nat, other : Nat] /\ tracked \in Nat
    /\ poll \in [pc : PollStages, gen : Nat, epoch : Nat, sequence : Nat, view : Views]
    /\ rpc \in Requests
MirrorTypeOK == DaemonTypeOK /\ WireTypeOK /\ CopyTypeOK

\* The lines of w follow one another.
Runs(w) == \A i \in 1 .. Len(w) - 1 : w[i + 1].epoch = w[i].epoch /\ w[i + 1].sequence = w[i].sequence + 1

\* The replay buffer holds the latest lines of this epoch without a gap.
ReplayRuns == \A i \in 1 .. Len(replay) : replay[i].epoch = epoch /\ replay[i].sequence + Len(replay) = sequence + i

\* The lines on the wire begin where the stream is and, while it is attached, end where
\* the daemon is.
WireRuns ==
    /\ Runs(Wire)
    /\ stream \in {"off", "opening"} => ~attached /\ Wire = <<>>
    /\ stream \in {"on", "cancelled"} /\ Wire # <<>> => ~Gap(Wire[1])
    /\ attached => IF Wire = <<>> THEN last = <<epoch, sequence>>
                   ELSE Wire[Len(Wire)].epoch = epoch /\ Wire[Len(Wire)].sequence = sequence

\* The inductive invariant.
StreamInv == MirrorTypeOK /\ ReplayRuns /\ WireRuns

\* The views after an event.
LEMMA ChangedType ==
    ASSUME NEW v \in Views, NEW kind \in EventKinds
    PROVE  /\ Changed(v, kind) \in Views
           /\ Changed(v, kind).agent \in {v.agent, v.agent + 1}
  <1>1. CASE kind = "TaskChanged"
    BY <1>1 DEF Changed, Views
  <1>2. CASE kind = "TaskDeleted"
    BY <1>2 DEF Changed, Views
  <1>3. CASE kind = "AgentChanged"
    BY <1>3 DEF Changed, Views
  <1>4. CASE kind = "Other"
    BY <1>4 DEF Changed, Views
  <1> QED BY <1>1, <1>2, <1>3, <1>4 DEF EventKinds

\* Lines are well typed.
LEMMA LineType ==
    ASSUME NEW kind \in EventKinds \cup {"SnapshotReplaced"}, NEW e \in Nat, NEW s \in Nat, NEW v \in Views
    PROVE  /\ Line(kind, e, s, v) \in Lines
           /\ Line(kind, e, s, v).epoch = e /\ Line(kind, e, s, v).sequence = s
           /\ Line(kind, e, s, v).view = v /\ Line(kind, e, s, v).kind = kind
  BY DEF Line, Lines

\* The wire is a sequence of lines.
LEMMA WireType ==
    ASSUME WireTypeOK
    PROVE  Wire \in Seq(Lines)
  BY DEF WireTypeOK, Wire

\* The buffer from which a cursor is served gives exactly the lines that it lacks.
\* subscribe_since.
LEMMA MissingLines ==
    ASSUME DaemonTypeOK, ReplayRuns, NEW c \in Nat \X Nat, CanReplay(c)
    PROVE  /\ c[1] = epoch /\ c[2] \in Nat /\ c[2] <= sequence
           /\ LinesAfter(c[2]) \in Seq(Lines) /\ Len(LinesAfter(c[2])) = sequence - c[2]
           /\ \A k \in 1 .. sequence - c[2] :
                /\ LinesAfter(c[2])[k].epoch = epoch /\ LinesAfter(c[2])[k].sequence = c[2] + k
                /\ \E i \in 1 .. Len(replay) : LinesAfter(c[2])[k] = replay[i]
  <1> DEFINE n == c[2]
             L == Len(replay)
             kept == {i \in 1 .. L : replay[i].sequence > n}
             nth(k) == CHOOSE i \in kept : Cardinality({j \in kept : j <= i}) = k
  <1>1. /\ c # None /\ n \in Nat /\ L \in Nat /\ sequence \in Nat /\ c[1] = epoch /\ n <= sequence
        /\ \A i \in 1 .. L : replay[i] \in Lines /\ replay[i].sequence + L = sequence + i
    BY StreamAssumption, ElementOfSeq DEF DaemonTypeOK, ReplayRuns, CanReplay
  <1>2. n + L >= sequence
    <2>1. CASE replay = <<>>
      BY <1>1, <2>1 DEF CanReplay
    <2>2. CASE replay # <<>>
      <3>1. Head(replay) = replay[1] /\ L >= 1
        BY <1>1, <2>2, HeadTailProperties, EmptySeq DEF DaemonTypeOK
      <3>2. n + 1 >= replay[1].sequence /\ replay[1].sequence \in Nat
        BY <1>1, <2>2, <3>1 DEF CanReplay, Lines
      <3> QED BY <1>1, <3>1, <3>2
    <2> QED BY <2>1, <2>2
  <1>3. PICK m \in Nat : m = n + L - sequence
    BY <1>1, <1>2
  <1>4. kept = (m + 1) .. L /\ m <= L
    <2>1. \A i \in 1 .. L : replay[i].sequence \in Nat /\ (replay[i].sequence > n <=> i > m)
      BY <1>1, <1>3 DEF Lines
    <2> QED BY <1>1, <1>3, <2>1
  <1>5. Cardinality(kept) = sequence - n
    <2>1. m + 1 \in Int /\ L \in Int
      BY <1>1
    <2>2. Cardinality((m + 1) .. L) = IF m + 1 > L THEN 0 ELSE L - (m + 1) + 1
      BY <2>1, FS_Interval, Zenon
    <2>3. (IF m + 1 > L THEN 0 ELSE L - (m + 1) + 1) = sequence - n
      BY <1>1, <1>3, <1>4
    <2> QED BY <1>4, <2>2, <2>3, Zenon
  <1>6. \A i \in kept : Cardinality({j \in kept : j <= i}) = i - m
    <2> SUFFICES ASSUME NEW i \in kept PROVE Cardinality({j \in kept : j <= i}) = i - m
      OBVIOUS
    <2>1. {j \in kept : j <= i} = (m + 1) .. i /\ i \in Int /\ i >= m + 1
      <3> HIDE DEF kept, L
      <3> QED BY <1>1, <1>4
    <2>2. m + 1 \in Int /\ (IF m + 1 > i THEN 0 ELSE i - (m + 1) + 1) = i - m
      BY <2>1
    <2>3. Cardinality((m + 1) .. i) = IF m + 1 > i THEN 0 ELSE i - (m + 1) + 1
      BY <2>1, <2>2, FS_Interval, Zenon
    <2> QED BY <2>1, <2>2, <2>3, Zenon
  <1>7. ASSUME NEW k \in 1 .. sequence - n PROVE nth(k) = m + k /\ m + k \in 1 .. L
    <2> HIDE DEF kept
    <2>1. m + k \in kept /\ \A i \in kept : i \in Int
      BY <1>1, <1>3, <1>4
    <2>2. \A i \in kept : (Cardinality({j \in kept : j <= i}) = k) <=> (i = m + k)
      <3> TAKE i \in kept
      <3>1. Cardinality({j \in kept : j <= i}) = i - m
        BY <1>6
      <3>2. (i - m = k) <=> (i = m + k)
        BY <2>1
      <3> QED BY <3>1, <3>2
    <2>3. nth(k) = m + k
      BY <2>1, <2>2
    <2> QED BY <1>1, <1>4, <2>1, <2>3 DEF kept
  <1> HIDE DEF nth
  <1>8. LinesAfter(n) = [k \in 1 .. sequence - n |-> replay[nth(k)]]
    BY <1>5 DEF LinesAfter, nth
  <1>9. ASSUME NEW k \in 1 .. sequence - n
        PROVE  /\ LinesAfter(n)[k] = replay[m + k] /\ LinesAfter(n)[k] \in Lines /\ m + k \in 1 .. L
               /\ replay[m + k].epoch = epoch /\ replay[m + k].sequence = n + k
    <2>1. LinesAfter(n)[k] = replay[m + k] /\ m + k \in 1 .. L
      BY <1>7, <1>8
    <2>2. replay[m + k] \in Lines /\ replay[m + k].sequence + L = sequence + m + k /\ replay[m + k].epoch = epoch
      BY <1>1, <2>1 DEF ReplayRuns
    <2>3. replay[m + k].sequence \in Nat
      BY <2>2 DEF Lines
    <2>4. replay[m + k].sequence = n + k
      <3> DEFINE q == replay[m + k].sequence
      <3>1. q \in Nat /\ q + L = sequence + m + k /\ n \in Nat /\ L \in Nat /\ sequence \in Nat
        BY <1>1, <2>2, <2>3
      <3> HIDE DEF q, L, n
      <3>2. q = n + k
        BY <1>3, <3>1
      <3> QED BY <3>2 DEF q
    <2> QED BY <2>1, <2>2, <2>4
  <1>10. LinesAfter(n) \in Seq(Lines) /\ Len(LinesAfter(n)) = sequence - n
    <2>1. sequence - n \in Nat
      BY <1>1
    <2>2. LinesAfter(n) \in [1 .. sequence - n -> Lines]
      BY <1>8, <1>9
    <2> QED BY <2>1, <2>2, IsASeq, LenProperties
  <1> QED BY <1>1, <1>9, <1>10

\* The wire after another line was sent.
LEMMA WireAppended ==
    ASSUME WireTypeOK, NEW x \in Lines, channel' = Append(channel, x), initial' = initial
    PROVE  /\ channel' \in Seq(Lines)
           /\ Len(Wire') = Len(Wire) + 1 /\ Wire'[Len(Wire) + 1] = x
           /\ \A i \in 1 .. Len(Wire) : Wire'[i] = Wire[i]
  <1>1. /\ channel' \in Seq(Lines) /\ Len(channel') = Len(channel) + 1 /\ channel'[Len(channel) + 1] = x
        /\ \A i \in 1 .. Len(channel) : channel'[i] = channel[i]
    BY AppendProperties DEF WireTypeOK
  <1>2. Len(initial) \in Nat /\ Len(channel) \in Nat
    BY LenProperties DEF WireTypeOK
  <1>3. /\ Len(initial \o channel) = Len(initial) + Len(channel)
        /\ \A i \in 1 .. Len(initial) + Len(channel) :
             (initial \o channel)[i] = IF i <= Len(initial) THEN initial[i] ELSE channel[i - Len(initial)]
    BY ConcatProperties DEF WireTypeOK
  <1>4. /\ Len(initial \o channel') = Len(initial) + Len(channel')
        /\ \A i \in 1 .. Len(initial) + Len(channel') :
             (initial \o channel')[i] = IF i <= Len(initial) THEN initial[i] ELSE channel'[i - Len(initial)]
    BY <1>1, ConcatProperties DEF WireTypeOK
  <1>5. Wire' = initial \o channel' /\ Wire = initial \o channel
    BY DEF Wire
  <1>6. Len(Wire') = Len(Wire) + 1 /\ Wire'[Len(Wire) + 1] = x
    BY <1>1, <1>2, <1>3, <1>4, <1>5
  <1>7. \A i \in 1 .. Len(Wire) : Wire'[i] = Wire[i]
    BY <1>1, <1>2, <1>3, <1>4, <1>5
  <1> QED BY <1>1, <1>6, <1>7

\* The wire after a line was read.
LEMMA WireRead ==
    ASSUME WireTypeOK, ReadLine
    PROVE  /\ initial' \in Seq(Lines) /\ channel' \in Seq(Lines)
           /\ Len(Wire) \in Nat \ {0} /\ Len(Wire') = Len(Wire) - 1
           /\ \A i \in 1 .. Len(Wire) - 1 : Wire'[i] = Wire[i + 1]
  <1>0. Len(initial) \in Nat /\ Len(channel) \in Nat
    BY LenProperties DEF WireTypeOK
  <1>1. /\ Len(initial \o channel) = Len(initial) + Len(channel)
        /\ \A i \in 1 .. Len(initial) + Len(channel) :
             (initial \o channel)[i] = IF i <= Len(initial) THEN initial[i] ELSE channel[i - Len(initial)]
    BY ConcatProperties DEF WireTypeOK
  <1>2. Wire' = initial' \o channel' /\ Wire = initial \o channel
    BY DEF Wire
  <1>3. CASE initial # <<>>
    <2>1. /\ initial' \in Seq(Lines) /\ Len(initial') = Len(initial) - 1 /\ channel' = channel
          /\ \A i \in 1 .. Len(initial') : initial'[i] = initial[i + 1]
      BY <1>3, HeadTailProperties DEF WireTypeOK, ReadLine
    <2>2. Len(initial) # 0
      BY <1>3, EmptySeq DEF WireTypeOK
    <2>3. /\ Len(initial' \o channel) = Len(initial') + Len(channel)
          /\ \A i \in 1 .. Len(initial') + Len(channel) :
             (initial' \o channel)[i] = IF i <= Len(initial') THEN initial'[i] ELSE channel[i - Len(initial')]
      BY <2>1, ConcatProperties DEF WireTypeOK
    <2>4. Len(Wire) \in Nat \ {0} /\ Len(Wire') = Len(Wire) - 1
      BY <1>0, <1>1, <1>2, <2>1, <2>2, <2>3
    <2>5. \A i \in 1 .. Len(Wire) - 1 : Wire'[i] = Wire[i + 1]
      BY <1>0, <1>1, <1>2, <2>1, <2>2, <2>3
    <2> QED BY <2>1, <2>4, <2>5 DEF WireTypeOK
  <1>4. CASE initial = <<>>
    <2>0. Wire = channel /\ Wire' = channel' /\ initial' = initial /\ channel # <<>>
      <3>1. channel' = Tail(channel) /\ initial' = initial /\ Wire # <<>>
        BY <1>4 DEF ReadLine
      <3>2. Wire = channel
        BY <1>2, <1>4, ConcatEmptySeq DEF WireTypeOK
      <3>3. channel' \in Seq(Lines)
        BY <3>1, <3>2, HeadTailProperties DEF WireTypeOK
      <3>4. Wire' = channel'
        BY <1>2, <1>4, <3>1, <3>3, ConcatEmptySeq
      <3> QED BY <3>1, <3>2, <3>4
    <2>1. /\ channel' \in Seq(Lines) /\ Len(channel') = Len(channel) - 1
          /\ \A i \in 1 .. Len(channel') : channel'[i] = channel[i + 1]
      BY <1>4, <2>0, HeadTailProperties DEF WireTypeOK, ReadLine
    <2>2. Len(channel) # 0
      BY <2>0, EmptySeq DEF WireTypeOK
    <2> QED BY <1>0, <2>0, <2>1, <2>2 DEF WireTypeOK
  <1> QED BY <1>3, <1>4

\* The wire of a stream that was hung up.
LEMMA WireHungUp ==
    ASSUME Hangup
    PROVE  attached' = FALSE /\ initial' = <<>> /\ channel' = <<>> /\ Wire' = <<>>
  <1>1. initial' \o channel' = <<>>
    BY ConcatEmptySeq, EmptySeq DEF Hangup
  <1> QED BY <1>1 DEF Hangup, Wire

\* The last lines of a buffer.
LEMMA Trimmed ==
    ASSUME NEW S, NEW s \in Seq(S), NEW keep \in 0 .. Len(s), NEW t, t = SubSeq(s, Len(s) - keep + 1, Len(s))
    PROVE  /\ t \in Seq(S) /\ Len(t) = keep
           /\ \A i \in 1 .. keep : Len(s) - keep + i \in 1 .. Len(s) /\ t[i] = s[Len(s) - keep + i]
  <1>1. Len(s) \in Nat
    BY LenProperties
  <1>2. PICK b \in Int, e \in Int : b = Len(s) - keep + 1 /\ e = Len(s)
    <2>1. Len(s) - keep + 1 \in Int /\ Len(s) \in Int
      BY <1>1
    <2> QED BY <2>1, Zenon
  <1>3. \A i \in b .. e : s[i] \in S
    <2> TAKE i \in b .. e
    <2>1. i \in 1 .. Len(s)
      BY <1>1, <1>2
    <2> QED BY <2>1, ElementOfSeq
  <1>4. /\ t \in Seq(S) /\ Len(t) = IF b <= e THEN e - b + 1 ELSE 0
        /\ \A i \in 1 .. e - b + 1 : t[i] = s[b + i - 1]
    BY <1>2, <1>3, SubSeqProperties
  <1>5. e - b + 1 = keep /\ Len(t) = keep
    BY <1>1, <1>2, <1>4
  <1>6. ASSUME NEW i \in 1 .. keep
        PROVE  Len(s) - keep + i \in 1 .. Len(s) /\ b + i - 1 = Len(s) - keep + i
    BY <1>1, <1>2
  <1> QED BY <1>4, <1>5, <1>6

\* A broadcast adds the next line to the buffer.
LEMMA BroadcastReplay ==
    ASSUME DaemonTypeOK, ReplayRuns, NEW kind \in EventKinds, Broadcast(kind)
    PROVE  /\ DaemonTypeOK' /\ ReplayRuns'
           /\ epoch' = epoch /\ sequence' = sequence + 1 /\ view' = Changed(view, kind)
           /\ Line(kind, epoch, sequence + 1, view') \in Lines
           /\ \A i \in 1 .. Len(replay') :
                \/ replay'[i] = Line(kind, epoch, sequence + 1, view')
                \/ \E j \in 1 .. Len(replay) : replay'[i] = replay[j]
  <1>0. PICK line : line = Line(kind, epoch, sequence + 1, Changed(view, kind))
    OBVIOUS
  <1>1. epoch \in Nat /\ sequence \in Nat /\ view \in Views /\ replay \in Seq(Lines) /\ Len(replay) \in Nat
    BY LenProperties DEF DaemonTypeOK
  <1>2. Changed(view, kind) \in Views
    BY <1>1, ChangedType
  <1>3. /\ line \in Lines /\ line.epoch = epoch /\ line.sequence = sequence + 1
        /\ line.view = Changed(view, kind)
    <2>1. kind \in EventKinds \cup {"SnapshotReplaced"} /\ sequence + 1 \in Nat
      BY <1>1
    <2> QED BY <1>0, <1>1, <1>2, <2>1, LineType
  <1>4. epoch' = epoch /\ sequence' = sequence + 1 /\ view' = Changed(view, kind)
    BY <1>0, <1>3 DEF Broadcast
  <1>5. PICK all : all = Append(replay, line)
    OBVIOUS
  <1>6. PICK keep \in 0 .. Len(all) : replay' = SubSeq(all, Len(all) - keep + 1, Len(all))
    BY <1>0, <1>5 DEF Broadcast
  <1>7. /\ all \in Seq(Lines) /\ Len(all) = Len(replay) + 1 /\ all[Len(replay) + 1] = line
        /\ \A i \in 1 .. Len(replay) : all[i] = replay[i]
    BY <1>1, <1>3, <1>5, AppendProperties
  <1>8. PICK L \in Nat : L = Len(replay) /\ Len(all) = L + 1
    BY <1>1, <1>7
  <1>9. ASSUME NEW i \in 1 .. L + 1
        PROVE  /\ all[i].epoch = epoch /\ all[i].sequence \in Nat /\ all[i].sequence + L = sequence + i
               /\ all[i] = line \/ \E j \in 1 .. Len(replay) : all[i] = replay[j]
    <2>1. CASE i = L + 1
      BY <1>1, <1>3, <1>7, <1>8, <2>1
    <2>2. CASE i \in 1 .. L
      <3>1. all[i] = replay[i] /\ replay[i] \in Lines
        BY <1>1, <1>7, <1>8, <2>2, ElementOfSeq
      <3>2. replay[i].epoch = epoch /\ replay[i].sequence + L = sequence + i
        BY <1>8, <2>2 DEF ReplayRuns
      <3> QED BY <1>8, <2>2, <3>1, <3>2 DEF Lines
    <2> QED BY <1>1, <2>1, <2>2
  <1>10. /\ replay' \in Seq(Lines) /\ Len(replay') = keep
         /\ \A i \in 1 .. keep : L + 1 - keep + i \in 1 .. L + 1 /\ replay'[i] = all[L + 1 - keep + i]
    <2>1. /\ replay' \in Seq(Lines) /\ Len(replay') = keep
          /\ \A i \in 1 .. keep : Len(all) - keep + i \in 1 .. Len(all) /\ replay'[i] = all[Len(all) - keep + i]
      BY <1>6, <1>7, Trimmed
    <2>2. Len(all) = L + 1
      BY <1>8
    <2>3. ASSUME NEW i \in 1 .. keep PROVE L + 1 - keep + i \in 1 .. L + 1 /\ replay'[i] = all[L + 1 - keep + i]
      <3>1. Len(all) - keep + i \in 1 .. Len(all) /\ replay'[i] = all[Len(all) - keep + i]
        BY <2>1
      <3> QED BY <2>2, <3>1
    <2> QED BY <2>1, <2>3
  <1>11. ReplayRuns'
    <2> SUFFICES ASSUME NEW i \in 1 .. keep
                 PROVE  replay'[i].epoch = epoch /\ replay'[i].sequence + keep = sequence + 1 + i
      BY <1>4, <1>10 DEF ReplayRuns
    <2>1. PICK j \in 1 .. L + 1 : j = L + 1 - keep + i /\ replay'[i] = all[j]
      BY <1>10
    <2>2. PICK q \in Nat : q = all[j].sequence /\ q + L = sequence + j /\ all[j].epoch = epoch
      BY <1>9
    <2>3. q + keep = sequence + 1 + i
      <3>1. keep \in Nat /\ sequence \in Nat
        BY <1>1, <1>8
      <3>2. q + L = sequence + (L + 1 - keep + i)
        BY <2>1, <2>2
      <3> QED BY <3>1, <3>2, SMTT(60)
    <2> QED BY <2>1, <2>2, <2>3
  <1>12. DaemonTypeOK'
    BY <1>1, <1>2, <1>4, <1>10 DEF DaemonTypeOK
  <1>13. \A i \in 1 .. Len(replay') : \/ replay'[i] = line
                                      \/ \E j \in 1 .. Len(replay) : replay'[i] = replay[j]
    BY <1>9, <1>10
  <1> QED BY <1>0, <1>3, <1>4, <1>11, <1>12, <1>13

\* A broadcast continues the wire or drops the subscriber.
LEMMA BroadcastWire ==
    ASSUME DaemonTypeOK, WireTypeOK, WireRuns, NEW kind \in EventKinds, Broadcast(kind), UNCHANGED <<stream, last>>,
           epoch' = epoch, sequence' = sequence + 1, Line(kind, epoch, sequence + 1, view') \in Lines
    PROVE  /\ WireTypeOK' /\ WireRuns'
           /\ Wire' # Wire => Len(Wire') = Len(Wire) + 1 /\ Wire'[Len(Wire) + 1] = Line(kind, epoch, sequence + 1, view')
           /\ \A i \in 1 .. Len(Wire) : Wire'[i] = Wire[i]
  <1> DEFINE line == Line(kind, epoch, sequence + 1, view')
             w == Wire
  <1>1. view' = Changed(view, kind) /\ Offer(line) /\ initial' = initial
    BY DEF Broadcast, Line
  <1>2. line.epoch = epoch /\ line.sequence = sequence + 1 /\ line \in Lines
    BY DEF Line
  <1>3. Wire \in Seq(Lines) /\ Len(Wire) \in Nat /\ epoch \in Nat /\ sequence \in Nat
    BY WireType, LenProperties DEF DaemonTypeOK
  <1> HIDE DEF line
  <1>4. CASE attached' = FALSE /\ channel' = channel
    <2>1. Wire' = Wire
      BY <1>1, <1>4 DEF Wire
    <2>2. WireTypeOK'
      BY <1>1, <1>4 DEF WireTypeOK
    <2>3. WireRuns'
      BY <1>4, <2>1 DEF WireRuns, Runs, Gap
    <2> QED BY <2>1, <2>2, <2>3
  <1>5. CASE attached /\ attached' = attached /\ channel' = Append(channel, line)
    <2>1. /\ channel' \in Seq(Lines)
          /\ Len(Wire') = Len(Wire) + 1 /\ Wire'[Len(Wire) + 1] = line
          /\ \A i \in 1 .. Len(Wire) : Wire'[i] = Wire[i]
      BY <1>1, <1>2, <1>5, WireAppended
    <2>2. WireTypeOK'
      BY <1>1, <1>5, <2>1 DEF WireTypeOK
    <2>3. Wire' \in Seq(Lines) /\ Wire' # <<>>
      <3>1. Wire' \in Seq(Lines)
        BY <2>2 DEF WireTypeOK, Wire
      <3> QED BY <1>3, <2>1, <3>1, EmptySeq
    <2>4. stream \in {"on", "cancelled"}
      BY <1>5 DEF WireRuns, WireTypeOK
    <2>5. CASE Wire = <<>>
      <3>1. Len(Wire) = 0 /\ Wire'[1] = line /\ Len(Wire') = 1 /\ last = <<epoch, sequence>>
        BY <1>5, <2>1, <2>5, EmptySeq DEF WireRuns
      <3>2. ~Gap(Wire[1])'
        <4>1. last' = <<epoch, sequence>> /\ Wire'[1].epoch = epoch /\ Wire'[1].sequence = sequence + 1
          BY <1>2, <3>1
        <4> QED BY <4>1 DEF Gap
      <3>3. Runs(Wire')
        BY <3>1 DEF Runs
      <3>4. WireRuns'
        <4>1. Wire'[Len(Wire')].epoch = epoch' /\ Wire'[Len(Wire')].sequence = sequence'
          BY <1>2, <3>1
        <4> QED BY <2>3, <2>4, <3>2, <3>3, <4>1 DEF WireRuns
      <3> QED BY <2>1, <2>2, <3>4 DEF line
    <2>6. CASE Wire # <<>>
      <3>1. Len(Wire) >= 1 /\ Wire[Len(Wire)].epoch = epoch /\ Wire[Len(Wire)].sequence = sequence
        BY <1>3, <1>5, <2>6, EmptySeq DEF WireRuns
      <3>2. Runs(Wire')
        <4> SUFFICES ASSUME NEW i \in 1 .. Len(Wire)
                     PROVE  Wire'[i + 1].epoch = Wire'[i].epoch /\ Wire'[i + 1].sequence = Wire'[i].sequence + 1
          BY <1>3, <2>1 DEF Runs
        <4>1. CASE i = Len(Wire)
          BY <1>2, <2>1, <3>1, <4>1
        <4>2. CASE i \in 1 .. Len(Wire) - 1
          <5>1. Wire'[i] = Wire[i] /\ Wire'[i + 1] = Wire[i + 1]
            BY <1>3, <2>1, <4>2
          <5> QED BY <4>2, <5>1 DEF WireRuns, Runs
        <4> QED BY <1>3, <4>1, <4>2
      <3>3. Wire'[1] = Wire[1] /\ ~Gap(Wire[1])
        BY <1>3, <2>1, <2>4, <2>6, <3>1 DEF WireRuns
      <3>4. ~Gap(Wire[1])'
        BY <3>3 DEF Gap
      <3>5. WireRuns'
        <4>1. Wire'[Len(Wire')].epoch = epoch' /\ Wire'[Len(Wire')].sequence = sequence'
          BY <1>2, <2>1
        <4> QED BY <2>3, <2>4, <3>2, <3>4, <4>1 DEF WireRuns
      <3> QED BY <2>1, <2>2, <3>5 DEF line
    <2> QED BY <2>5, <2>6
  <1> QED BY <1>1, <1>4, <1>5 DEF Offer, line

\* A restart of the daemon leaves what is on the wire.
LEMMA RestartStream ==
    ASSUME StreamInv, Restart, UNCHANGED <<stream, last>>
    PROVE  DaemonTypeOK' /\ WireTypeOK' /\ ReplayRuns' /\ WireRuns' /\ Wire' = Wire
  <1>1. Wire' = Wire /\ attached' = FALSE
    BY DEF Restart, Wire
  <1>2. DaemonTypeOK' /\ ReplayRuns'
    <2>1. epoch \in Nat /\ view \in Views
      BY DEF StreamInv, MirrorTypeOK, DaemonTypeOK
    <2>2. view' \in Views
      BY <2>1, ChangedType DEF Restart, EventKinds
    <2>3. replay' = <<>> /\ epoch' = epoch + 1 /\ sequence' = 0
      BY DEF Restart
    <2>4. replay' \in Seq(Lines) /\ Len(replay') = 0
      BY <2>3, EmptySeq
    <2> QED BY <2>1, <2>2, <2>3, <2>4 DEF DaemonTypeOK, ReplayRuns
  <1>3. WireTypeOK'
    BY <1>1 DEF StreamInv, MirrorTypeOK, WireTypeOK, Restart
  <1>4. WireRuns'
    BY <1>1 DEF StreamInv, WireRuns, Runs, Gap
  <1> QED BY <1>1, <1>2, <1>3, <1>4

\* Steps that leave the daemon and the wire.
LEMMA StreamFrame ==
    ASSUME StreamInv, UNCHANGED <<daemonVars, wireVars, last>>,
           stream' = stream \/ {stream, stream'} \subseteq {"off", "opening"} \/ {stream, stream'} \subseteq {"on", "cancelled"}
    PROVE  DaemonTypeOK' /\ WireTypeOK' /\ ReplayRuns' /\ WireRuns' /\ Wire' = Wire
  <1>1. /\ epoch' = epoch /\ sequence' = sequence /\ view' = view /\ replay' = replay
        /\ attached' = attached /\ initial' = initial /\ channel' = channel /\ last' = last
    BY DEF daemonVars, wireVars
  <1>2. DaemonTypeOK' /\ ReplayRuns'
    BY <1>1 DEF StreamInv, MirrorTypeOK, DaemonTypeOK, ReplayRuns
  <1>3. Wire' = Wire
    BY <1>1 DEF Wire
  <1>4. WireTypeOK'
    BY <1>1 DEF StreamInv, MirrorTypeOK, WireTypeOK
  <1>5. Gap(Wire[1])' = Gap(Wire[1])
    BY <1>1, <1>3 DEF Gap
  <1>6. WireRuns'
    BY <1>1, <1>3, <1>5 DEF StreamInv, WireRuns, Runs
  <1> QED BY <1>2, <1>3, <1>4, <1>6

\* A stream that opens resumes after its last line, or with a snapshot.  stream_events.
LEMMA OpensStream ==
    ASSUME StreamInv, StreamOpens
    PROVE  /\ DaemonTypeOK' /\ WireTypeOK' /\ ReplayRuns' /\ WireRuns'
           /\ \A i \in 1 .. Len(Wire') :
                \/ Wire'[i] = Line("SnapshotReplaced", epoch, sequence, view)
                \/ CanReplay(last) /\ \E j \in 1 .. Len(replay) : Wire'[i] = replay[j]
           /\ \A i \in 1 .. Len(Wire') : Wire'[i].epoch = epoch
           /\ CanReplay(last) => last[1] = epoch /\ \A i \in 1 .. Len(Wire') : Wire'[i].sequence = last[2] + i
  <1>1. /\ epoch' = epoch /\ sequence' = sequence /\ view' = view /\ replay' = replay /\ last' = last
        /\ stream' = "on" /\ attached' = TRUE /\ channel' = <<>>
        /\ initial' = IF CanReplay(last) THEN LinesAfter(last[2])
                      ELSE <<Line("SnapshotReplaced", epoch, sequence, view)>>
    BY DEF StreamOpens, SubscribeSince, daemonVars
  <1>2. DaemonTypeOK' /\ ReplayRuns'
    BY <1>1 DEF StreamInv, MirrorTypeOK, DaemonTypeOK, ReplayRuns
  <1>3. epoch \in Nat /\ sequence \in Nat /\ view \in Views /\ last \in Cursors
    BY DEF StreamInv, MirrorTypeOK, DaemonTypeOK, WireTypeOK
  <1>4. channel' \in Seq(Lines)
    BY <1>1, EmptySeq
  <1>5. initial' \in Seq(Lines) => WireTypeOK' /\ Wire' = initial'
    <2>1. HAVE initial' \in Seq(Lines)
    <2>2. WireTypeOK'
      BY <1>1, <1>3, <1>4, <2>1 DEF WireTypeOK
    <2>3. initial' \o channel' = initial'
      BY <1>1, <2>1, ConcatEmptySeq
    <2> QED BY <2>2, <2>3 DEF Wire
  <1>6. CASE CanReplay(last)
    <2>1. last \in Nat \X Nat
      BY <1>3, <1>6 DEF CanReplay, Cursors
    <2>2. /\ last[1] = epoch /\ last[2] \in Nat /\ last[2] <= sequence
          /\ initial' \in Seq(Lines) /\ Len(initial') = sequence - last[2]
          /\ \A k \in 1 .. sequence - last[2] :
               /\ initial'[k].epoch = epoch /\ initial'[k].sequence = last[2] + k
               /\ \E i \in 1 .. Len(replay) : initial'[k] = replay[i]
      BY <1>1, <1>6, <2>1, MissingLines DEF StreamInv, MirrorTypeOK
    <2>3. WireTypeOK' /\ Wire' = initial'
      BY <1>5, <2>2
    <2>4. Runs(Wire')
      <3> SUFFICES ASSUME NEW i \in 1 .. sequence - last[2] - 1
                   PROVE  initial'[i + 1].epoch = initial'[i].epoch /\ initial'[i + 1].sequence = initial'[i].sequence + 1
        BY <2>2, <2>3 DEF Runs
      <3>1. i \in 1 .. sequence - last[2] /\ i + 1 \in 1 .. sequence - last[2] /\ last[2] + (i + 1) = last[2] + i + 1
        BY <1>3, <2>2
      <3> QED BY <2>2, <3>1
    <2>5. Wire' # <<>> => ~Gap(Wire[1])'
      <3> SUFFICES ASSUME Wire' # <<>> PROVE ~Gap(Wire[1])'
        OBVIOUS
      <3>1. Len(Wire') # 0 /\ Len(Wire') \in Nat
        BY <2>2, <2>3, EmptySeq
      <3>2. Wire'[1].epoch = epoch /\ Wire'[1].sequence = last[2] + 1
        BY <1>3, <2>2, <2>3, <3>1
      <3> QED BY <1>1, <2>2, <3>2 DEF Gap
    <2>6. IF Wire' = <<>> THEN last' = <<epoch, sequence>>
          ELSE Wire'[Len(Wire')].epoch = epoch /\ Wire'[Len(Wire')].sequence = sequence
      <3>1. CASE Wire' = <<>>
        <4>1. sequence - last[2] = 0
          BY <2>2, <2>3, <3>1, EmptySeq
        <4>2. last[2] = sequence
          BY <1>3, <2>2, <4>1
        <4> QED BY <1>1, <2>1, <2>2, <3>1, <4>2
      <3>2. CASE Wire' # <<>>
        <4>1. PICK n \in Nat \ {0} : n = Len(Wire') /\ n = sequence - last[2]
          BY <2>2, <2>3, <3>2, EmptySeq
        <4>2. n \in 1 .. sequence - last[2]
          BY <4>1
        <4>3. initial'[n].epoch = epoch /\ initial'[n].sequence = last[2] + n
          BY <2>2, <4>2
        <4> QED BY <1>3, <2>2, <2>3, <3>2, <4>1, <4>3
      <3> QED BY <3>1, <3>2
    <2>7. WireRuns'
      BY <1>1, <2>4, <2>5, <2>6 DEF WireRuns
    <2> QED BY <1>2, <1>6, <2>2, <2>3, <2>7
  <1>7. CASE ~CanReplay(last)
    <2>0. PICK x : x = Line("SnapshotReplaced", epoch, sequence, view)
      OBVIOUS
    <2>1. x \in Lines /\ x.epoch = epoch /\ x.sequence = sequence /\ x.kind = "SnapshotReplaced"
      BY <1>3, <2>0, LineType
    <2>2. initial' = <<x>>
      BY <1>1, <1>7, <2>0
    <2>3. initial' \in Seq(Lines) /\ Len(initial') = 1 /\ initial'[1] = x /\ initial' # <<>>
      BY <2>1, <2>2
    <2>4. WireTypeOK' /\ Wire' = initial'
      BY <1>5, <2>3
    <2>5. ~Gap(Wire[1])'
      BY <2>1, <2>3, <2>4 DEF Gap
    <2>6. WireRuns'
      BY <1>1, <2>1, <2>3, <2>4, <2>5 DEF WireRuns, Runs
    <2>7. ASSUME NEW i \in 1 .. Len(Wire') PROVE Wire'[i] = x
      <3>1. Len(Wire') = 1 /\ Wire'[1] = x
        BY <2>3, <2>4
      <3>2. i \in 1 .. 1
        BY <3>1
      <3> QED BY <3>1, <3>2
    <2> QED BY <1>2, <1>7, <2>0, <2>1, <2>4, <2>6, <2>7
  <1> QED BY <1>6, <1>7

\* A line that is delivered is the next one.
LEMMA DeliverStream ==
    ASSUME StreamInv, Deliver
    PROVE  /\ DaemonTypeOK' /\ WireTypeOK' /\ ReplayRuns' /\ WireRuns'
           /\ Wire # <<>> /\ Head(Wire) = Wire[1] /\ Wire[1] \in Lines /\ ~Gap(Wire[1])
           /\ last' = <<Wire[1].epoch, Wire[1].sequence>> /\ OnEvent(Wire[1])
           /\ \/ stream = "cancelled" /\ stream' = "off" /\ Wire' = <<>>
              \/ stream = "on" /\ stream' = "on" /\ Len(Wire') = Len(Wire) - 1 /\ \A i \in 1 .. Len(Wire) - 1 : Wire'[i] = Wire[i + 1]
  <1>1. stream \in {"on", "cancelled"} /\ Wire # <<>> /\ WireTypeOK /\ UNCHANGED daemonVars
    BY DEF Deliver, StreamInv, MirrorTypeOK
  <1>2. Wire \in Seq(Lines) /\ Len(Wire) \in Nat \ {0} /\ Head(Wire) = Wire[1]
    BY <1>1, WireType, EmptySeq, HeadTailProperties
  <1>3. Wire[1] \in Lines /\ ~Gap(Wire[1])
    BY <1>1, <1>2, ElementOfSeq DEF StreamInv, WireRuns
  <1>4. /\ last' = <<Wire[1].epoch, Wire[1].sequence>> /\ OnEvent(Wire[1])
        /\ IF stream = "cancelled" THEN stream' = "off" /\ Hangup ELSE ReadLine /\ stream' = stream
    BY <1>2, <1>3 DEF Deliver
  <1>5. DaemonTypeOK' /\ ReplayRuns' /\ epoch' = epoch /\ sequence' = sequence
    BY <1>1 DEF StreamInv, MirrorTypeOK, DaemonTypeOK, ReplayRuns, daemonVars
  <1>6. last' \in Cursors
    BY <1>3, <1>4 DEF Lines, Cursors
  <1>7. CASE stream = "cancelled"
    <2>1. /\ attached' = FALSE /\ initial' = <<>> /\ channel' = <<>> /\ Wire' = <<>> /\ stream' = "off"
          /\ Len(Wire') = 0
      BY <1>4, <1>7, WireHungUp, EmptySeq
    <2>2. WireTypeOK'
      BY <1>6, <2>1, EmptySeq DEF WireTypeOK
    <2>3. WireRuns'
      BY <2>1 DEF WireRuns, Runs
    <2> QED BY <1>1, <1>2, <1>3, <1>4, <1>5, <2>1, <2>2, <2>3
  <1>8. CASE stream = "on"
    <2>1. ReadLine /\ stream' = stream /\ attached' = attached
      BY <1>4, <1>8 DEF ReadLine
    <2>2. /\ initial' \in Seq(Lines) /\ channel' \in Seq(Lines)
          /\ Len(Wire') = Len(Wire) - 1 /\ \A i \in 1 .. Len(Wire) - 1 : Wire'[i] = Wire[i + 1]
      BY <1>1, <2>1, WireRead
    <2>3. WireTypeOK'
      BY <1>1, <1>6, <2>1, <2>2 DEF WireTypeOK
    <2>4. Wire' \in Seq(Lines)
      BY <2>3 DEF WireTypeOK, Wire
    <2>5. Runs(Wire')
      <3> SUFFICES ASSUME NEW i \in 1 .. Len(Wire) - 1 - 1
                   PROVE  Wire'[i + 1].epoch = Wire'[i].epoch /\ Wire'[i + 1].sequence = Wire'[i].sequence + 1
        BY <2>2 DEF Runs
      <3>1. /\ i \in 1 .. Len(Wire) - 1 /\ i + 1 \in 1 .. Len(Wire) - 1
        BY <1>2
      <3>2. Wire'[i] = Wire[i + 1] /\ Wire'[i + 1] = Wire[i + 1 + 1]
        BY <2>2, <3>1
      <3> QED BY <3>1, <3>2 DEF StreamInv, WireRuns, Runs
    <2>6. Wire' # <<>> => ~Gap(Wire[1])'
      <3> SUFFICES ASSUME Wire' # <<>> PROVE ~Gap(Wire[1])'
        OBVIOUS
      <3>1. Len(Wire) - 1 # 0 /\ 1 \in 1 .. Len(Wire) - 1
        BY <1>2, <2>2, <2>4, EmptySeq
      <3>2. Wire'[1] = Wire[2] /\ Wire[2].epoch = Wire[1].epoch /\ Wire[2].sequence = Wire[1].sequence + 1
        BY <2>2, <3>1 DEF StreamInv, WireRuns, Runs
      <3> QED BY <1>4, <3>2 DEF Gap
    <2>7. attached => IF Wire' = <<>> THEN last' = <<epoch, sequence>>
                      ELSE Wire'[Len(Wire')].epoch = epoch /\ Wire'[Len(Wire')].sequence = sequence
      <3> SUFFICES ASSUME attached
                   PROVE  IF Wire' = <<>> THEN last' = <<epoch, sequence>>
                          ELSE Wire'[Len(Wire')].epoch = epoch /\ Wire'[Len(Wire')].sequence = sequence
        OBVIOUS
      <3>1. Wire[Len(Wire)].epoch = epoch /\ Wire[Len(Wire)].sequence = sequence
        BY <1>1 DEF StreamInv, WireRuns
      <3>2. CASE Wire' = <<>>
        <4>1. Len(Wire) = 1
          BY <1>2, <2>2, <3>2, EmptySeq
        <4> QED BY <1>4, <3>1, <3>2, <4>1
      <3>3. CASE Wire' # <<>>
        <4>1. Len(Wire) - 1 \in 1 .. Len(Wire) - 1 /\ Len(Wire) - 1 + 1 = Len(Wire)
          BY <1>2, <2>2, <2>4, <3>3, EmptySeq
        <4>2. Wire'[Len(Wire')] = Wire[Len(Wire)]
          BY <2>2, <4>1
        <4> QED BY <3>1, <3>3, <4>2
      <3> QED BY <3>2, <3>3
    <2>8. WireRuns'
      BY <1>5, <1>8, <2>1, <2>5, <2>6, <2>7 DEF WireRuns
    <2> QED BY <1>1, <1>2, <1>3, <1>4, <1>5, <2>1, <2>2, <2>3, <2>8
  <1> QED BY <1>1, <1>7, <1>8

\* A stream that ends leaves nothing on the wire.
LEMMA EndsStream ==
    ASSUME StreamInv, StreamEnds
    PROVE  DaemonTypeOK' /\ WireTypeOK' /\ ReplayRuns' /\ WireRuns' /\ Wire' = <<>>
  <1>1. /\ attached' = FALSE /\ initial' = <<>> /\ channel' = <<>> /\ Wire' = <<>> /\ stream' = "off"
        /\ Len(Wire') = 0 /\ last' = last /\ UNCHANGED daemonVars
    BY WireHungUp, EmptySeq DEF StreamEnds
  <1>2. WireTypeOK'
    BY <1>1, EmptySeq DEF WireTypeOK, StreamInv, MirrorTypeOK
  <1>3. WireRuns'
    BY <1>1 DEF WireRuns, Runs
  <1>4. DaemonTypeOK' /\ ReplayRuns'
    BY <1>1 DEF StreamInv, MirrorTypeOK, DaemonTypeOK, ReplayRuns, daemonVars
  <1> QED BY <1>1, <1>2, <1>3, <1>4

\* The steps of the poller and of a request keep the types of the copy.
LEMMA CopyType ==
    ASSUME StreamInv, PollStep \/ RpcBegin \/ RpcAnswer \/ RpcFails
    PROVE  CopyTypeOK'
  <1>1. /\ epoch \in Nat /\ sequence \in Nat /\ view \in Views
        /\ cur \in Cursors /\ known \in Nat \cup {None} /\ gen \in Nat
        /\ mirror \in [task : Nat, agent : Nat, other : Nat] /\ tracked \in Nat
        /\ poll \in [pc : PollStages, gen : Nat, epoch : Nat, sequence : Nat, view : Views]
        /\ rpc \in Requests
    BY DEF StreamInv, MirrorTypeOK, DaemonTypeOK, CopyTypeOK
  <1>2. /\ IdlePoll \in [pc : PollStages, gen : Nat, epoch : Nat, sequence : Nat, view : Views]
        /\ IdleRpc \in Requests
    BY DEF IdlePoll, IdleRpc, Requests, PollStages, NewView, Views
  <1>3. CASE PollBegin
    BY <1>1, <1>2, <1>3 DEF PollBegin, CopyTypeOK, mirrorVars, PollStages, IdlePoll
  <1>4. CASE PollStatus
    BY <1>1, <1>4 DEF PollStatus, CopyTypeOK, mirrorVars, PollStages
  <1>5. CASE PollSnapshot
    BY <1>1, <1>2, <1>5 DEF PollSnapshot, CopyTypeOK, mirrorVars, PollStages
  <1>6. CASE PollFails
    BY <1>1, <1>2, <1>6 DEF PollFails, CopyTypeOK, mirrorVars
  <1>7. CASE PollChecksEpoch
    BY <1>1, <1>7 DEF PollChecksEpoch, CopyTypeOK, mirrorVars, PollStages
  <1>8. CASE PollForgetsCursor
    BY <1>1, <1>8 DEF PollForgetsCursor, CopyTypeOK, PollStages, Cursors
  <1>9. CASE PollReconcile
    <2>1. /\ cur' \in Cursors /\ known' \in Nat \cup {None} /\ mirror' \in [task : Nat, agent : Nat, other : Nat]
          /\ tracked' \in Nat
      BY <1>1, <1>9 DEF PollReconcile, Reconcile, Cursors, Mirrored, Later, Views
    <2>2. poll' = [IdlePoll EXCEPT !.pc = "subscribe"] /\ gen' = gen /\ rpc' = rpc
      BY <1>9 DEF PollReconcile
    <2>3. poll' \in [pc : PollStages, gen : Nat, epoch : Nat, sequence : Nat, view : Views]
      BY <1>2, <2>2 DEF PollStages
    <2> QED BY <1>1, <2>1, <2>2, <2>3 DEF CopyTypeOK
  <1>10. CASE PollSubscribes
    BY <1>1, <1>2, <1>10 DEF PollSubscribes, CopyTypeOK, mirrorVars
  <1>11. CASE RpcBegin
    BY <1>1, <1>11 DEF RpcBegin, CopyTypeOK, mirrorVars, Requests, RpcKinds
  <1>12. CASE RpcAnswer
    BY <1>1, <1>2, <1>12 DEF RpcAnswer, CopyTypeOK, Later, Requests
  <1>13. CASE RpcFails
    BY <1>1, <1>2, <1>13 DEF RpcFails, CopyTypeOK, mirrorVars
  <1> QED BY <1>3, <1>4, <1>5, <1>6, <1>7, <1>8, <1>9, <1>10, <1>11, <1>12, <1>13 DEF PollStep

\* A line that is applied keeps the types of the copy.
LEMMA EventType ==
    ASSUME CopyTypeOK, NEW line \in Lines, OnEvent(line), UNCHANGED <<poll, rpc>>
    PROVE  CopyTypeOK'
  <1>1. /\ line.epoch \in Nat /\ line.sequence \in Nat /\ line.view \in Views /\ line.kind \in EventKinds \cup {"SnapshotReplaced"}
        /\ cur \in Cursors /\ known \in Nat \cup {None} /\ gen \in Nat
        /\ mirror \in [task : Nat, agent : Nat, other : Nat] /\ tracked \in Nat
    BY DEF CopyTypeOK, Lines
  <1>2. CASE UNCHANGED mirrorVars
    BY <1>2 DEF mirrorVars, CopyTypeOK
  <1>3. CASE Reconcile(line.epoch, line.sequence, line.view, gen) /\ UNCHANGED gen
    <2>1. /\ cur' \in Cursors /\ known' \in Nat \cup {None} /\ mirror' \in [task : Nat, agent : Nat, other : Nat]
          /\ tracked' \in Nat
      BY <1>1, <1>3 DEF Reconcile, Cursors, Mirrored, Later, Views
    <2> QED BY <1>3, <2>1 DEF CopyTypeOK
  <1>4. CASE line.kind # "SnapshotReplaced" /\ Forward(line)
    <2>1. cur' \in Cursors /\ gen' \in Nat /\ known' = known /\ tracked' \in Nat
      BY <1>1, <1>4 DEF Forward, Cursors, Views
    <2>2. line.view.task \in Nat /\ line.view.agent \in Nat /\ line.kind \in EventKinds
      BY <1>1, <1>4 DEF Views
    <2>3. mirror' \in [task : Nat, agent : Nat, other : Nat]
      <3>1. CASE line.kind = "TaskChanged"
        BY <1>1, <1>4, <2>2, <3>1 DEF Forward, Later
      <3>2. CASE line.kind = "TaskDeleted"
        BY <1>1, <1>4, <2>2, <3>2 DEF Forward
      <3>3. CASE line.kind = "AgentChanged"
        BY <1>1, <1>4, <2>2, <3>3 DEF Forward
      <3>4. CASE line.kind = "Other"
        BY <1>1, <1>4, <2>2, <3>4 DEF Forward
      <3> QED BY <2>2, <3>1, <3>2, <3>3, <3>4 DEF EventKinds
    <2> QED BY <2>1, <2>3 DEF CopyTypeOK
  <1> QED BY <1>2, <1>3, <1>4 DEF OnEvent

\* The stream stays what it was, or is one of two that are alike.
LEMMA StreamAlike ==
    ASSUME StreamInv, PollStep \/ RpcBegin \/ RpcAnswer \/ RpcFails
    PROVE  /\ UNCHANGED <<daemonVars, wireVars, last>>
           /\ stream' = stream \/ (stream = "off" /\ stream' = "opening") \/ (stream = "on" /\ stream' = "cancelled")
  BY DEF PollStep, PollBegin, PollStatus, PollSnapshot, PollFails, PollChecksEpoch, PollForgetsCursor, PollReconcile,
         PollSubscribes, RpcBegin, RpcAnswer, RpcFails, EnsureSubscription

\* The initial state.
LEMMA InitStream ==
    ASSUME Init
    PROVE  StreamInv
  <1>1. Wire = <<>> /\ Len(replay) = 0 /\ Len(Wire) = 0 /\ <<>> \in Seq(Lines)
    BY ConcatEmptySeq, EmptySeq DEF Init, StreamInit, Wire
  <1>2. DaemonTypeOK /\ WireTypeOK /\ CopyTypeOK
    BY <1>1 DEF Init, StreamInit, DaemonTypeOK, WireTypeOK, CopyTypeOK, Cursors, PollStages, NewView, Views, Mirrored, IdlePoll, IdleRpc, Requests
  <1>3. ReplayRuns /\ WireRuns
    BY <1>1 DEF Init, StreamInit, ReplayRuns, WireRuns, Runs
  <1> QED BY <1>2, <1>3 DEF StreamInv, MirrorTypeOK

\* A broadcast keeps the invariant.
LEMMA BroadcastStream ==
    ASSUME StreamInv, NEW kind \in EventKinds, Broadcast(kind), UNCHANGED <<stream, last, mirrorVars, poll>>,
           rpc' \in Requests
    PROVE  StreamInv'
  <1>1. /\ DaemonTypeOK' /\ ReplayRuns' /\ epoch' = epoch /\ sequence' = sequence + 1
        /\ Line(kind, epoch, sequence + 1, view') \in Lines
    BY BroadcastReplay DEF StreamInv, MirrorTypeOK
  <1>2. WireTypeOK' /\ WireRuns'
    BY <1>1, BroadcastWire DEF StreamInv, MirrorTypeOK
  <1>3. CopyTypeOK'
    BY DEF StreamInv, MirrorTypeOK, CopyTypeOK, mirrorVars
  <1> QED BY <1>1, <1>2, <1>3 DEF StreamInv, MirrorTypeOK

\* Every step keeps the invariant.
LEMMA NextStream ==
    ASSUME StreamInv, [Next]_vars
    PROVE  StreamInv'
  <1>1. CASE PollStep \/ RpcBegin \/ RpcAnswer \/ RpcFails
    <2>1. CopyTypeOK'
      BY <1>1, CopyType
    <2>2. DaemonTypeOK' /\ WireTypeOK' /\ ReplayRuns' /\ WireRuns'
      BY <1>1, StreamAlike, StreamFrame
    <2> QED BY <2>1, <2>2 DEF StreamInv, MirrorTypeOK
  <1>2. CASE StreamOpens
    <2>1. CopyTypeOK'
      BY <1>2 DEF StreamInv, MirrorTypeOK, CopyTypeOK, StreamOpens, mirrorVars
    <2>2. DaemonTypeOK' /\ WireTypeOK' /\ ReplayRuns' /\ WireRuns'
      BY <1>2, OpensStream
    <2> QED BY <2>1, <2>2 DEF StreamInv, MirrorTypeOK
  <1>3. CASE Deliver
    <2>1. DaemonTypeOK' /\ WireTypeOK' /\ ReplayRuns' /\ WireRuns' /\ Wire[1] \in Lines /\ OnEvent(Wire[1])
      BY <1>3, DeliverStream
    <2>2. CopyTypeOK'
      BY <1>3, <2>1, EventType DEF StreamInv, MirrorTypeOK, Deliver
    <2> QED BY <2>1, <2>2 DEF StreamInv, MirrorTypeOK
  <1>4. CASE StreamEnds
    <2>1. CopyTypeOK'
      BY <1>4 DEF StreamInv, MirrorTypeOK, CopyTypeOK, StreamEnds, mirrorVars
    <2>2. DaemonTypeOK' /\ WireTypeOK' /\ ReplayRuns' /\ WireRuns'
      BY <1>4, EndsStream
    <2> QED BY <2>1, <2>2 DEF StreamInv, MirrorTypeOK
  <1>5. CASE RpcServed
    <2>1. Broadcast(rpc.kind) /\ UNCHANGED <<stream, last, mirrorVars, poll>> /\ rpc.kind \in EventKinds
      BY <1>5 DEF RpcServed, EventKinds, RpcKinds, Requests, StreamInv, MirrorTypeOK, CopyTypeOK
    <2>2. view' \in Views
      BY <2>1, BroadcastReplay DEF StreamInv, MirrorTypeOK, DaemonTypeOK
    <2>3. rpc' \in Requests
      BY <1>5, <2>2 DEF RpcServed, Views, Requests, StreamInv, MirrorTypeOK, CopyTypeOK
    <2> QED BY <2>1, <2>3, BroadcastStream
  <1>6. CASE RemoteStep
    <2>1. UNCHANGED <<stream, last, mirrorVars, poll, rpc>>
      BY <1>6 DEF RemoteStep
    <2>2. CASE Restart
      <3>1. CopyTypeOK'
        BY <2>1 DEF StreamInv, MirrorTypeOK, CopyTypeOK, mirrorVars
      <3> QED BY <2>1, <2>2, <3>1, RestartStream DEF StreamInv, MirrorTypeOK
    <2>3. CASE \E kind \in Kinds : Broadcast(kind)
      <3>1. PICK kind \in EventKinds : Broadcast(kind)
        BY <2>3, KindsAssumption
      <3>2. rpc' \in Requests
        BY <2>1 DEF StreamInv, MirrorTypeOK, CopyTypeOK
      <3> QED BY <2>1, <3>1, <3>2, BroadcastStream
    <2> QED BY <1>6, <2>2, <2>3 DEF RemoteStep
  <1>7. CASE UNCHANGED vars
    <2>1. CopyTypeOK'
      BY <1>7 DEF StreamInv, MirrorTypeOK, CopyTypeOK, vars, mirrorVars
    <2>2. UNCHANGED <<daemonVars, wireVars, last, stream>>
      BY <1>7 DEF vars
    <2> QED BY <2>1, <2>2, StreamFrame DEF StreamInv, MirrorTypeOK
  <1> QED BY <1>1, <1>2, <1>3, <1>4, <1>5, <1>6, <1>7 DEF Next

\* The invariant.
LEMMA StreamInvariant == Spec => []StreamInv
  <1>1. Init => StreamInv
    BY InitStream
  <1>2. StreamInv /\ [Next]_vars => StreamInv'
    BY NextStream
  <1> QED BY <1>1, <1>2, PTL DEF Spec

\* No event is lost on the way to a stream, for every bound on instances, events, buffer and
\* channel (subscribe_since, broadcast, stream_events).
THEOREM StreamHasNoGap == Spec => []StreamContiguous
  <1>1. StreamInv => StreamContiguous
    <2> SUFFICES ASSUME StreamInv PROVE StreamContiguous
      OBVIOUS
    <2>1. Wire # <<>> => Head(Wire) = Wire[1]
      BY WireType, HeadTailProperties DEF StreamInv, MirrorTypeOK
    <2> QED BY <2>1 DEF StreamContiguous, StreamInv, WireRuns, Runs
  <1> QED BY <1>1, StreamInvariant, PTL

-----------------------------------------------------------------------------
\* The mirror that follows the stream.

Positions == Nat \X Nat

\* Where the daemon is, and where a line or a snapshot was taken.
Now == <<epoch, sequence>>
PosOf(r) == <<r.epoch, r.sequence>>

\* Positions are ordered by the instance, then by the sequence number.
Before(p, q) == p[1] < q[1] \/ (p[1] = q[1] /\ p[2] <= q[2])

\* A history: the version of the agent at every position, which never decreases.
Ordered(h) == h \in [Positions -> Nat] /\ \A p, q \in Positions : Before(p, q) => h[p] <= h[q]

\* The record was taken from this history.
Saw(h, r) == Before(PosOf(r), Now) /\ h[PosOf(r)] = r.view.agent

\* The poller has a snapshot.
Holding == poll.pc \in {"received", "restarted", "reconcile"}

\* Everything that is known of the daemon is from its history.
Witnessed(h) ==
    /\ h[Now] = view.agent
    /\ \A i \in 1 .. Len(replay) : Saw(h, replay[i])
    /\ \A i \in 1 .. Len(Wire) : Saw(h, Wire[i])
    /\ Holding => Saw(h, poll)
    /\ last # None => Before(last, Now)
    /\ cur # None => Before(cur, Now)

\* The cursors of the stream and of the mirror.
CursorInv ==
    /\ known # None => known <= epoch
    /\ known = None => last = None /\ cur = None /\ tracked = 0
    /\ last = None /\ Wire # <<>> => Wire[1].kind = "SnapshotReplaced"
    /\ last # None /\ Wire # <<>> => Before(last, PosOf(Wire[1]))
    /\ cur # None => cur[1] = known

\* The lines of a stream that is not cancelled are not older than the snapshot in hand.
Fresh == stream = "on" => \A i \in 1 .. Len(Wire) : Wire[i].epoch >= poll.epoch

\* The cursor is missing only between its removal and the snapshot that follows.
PollInv ==
    /\ poll.pc \in {"snapshot", "received", "restarted", "reconcile"} => poll.epoch <= epoch
    /\ poll.pc = "restarted" => known # None /\ known # poll.epoch
    /\ known # None /\ cur = None => poll.pc = "reconcile" /\ known # poll.epoch
    /\ known # None /\ (poll.pc = "restarted" \/ cur = None) /\ known < poll.epoch => Fresh

\* An event of the old instance came after the removal: the cursor is behind the mirror
\* until the snapshot replaces both, and no further line is accepted.
Behind == poll.pc = "reconcile" /\ known < poll.epoch /\ stream # "cancelled" /\ Fresh

\* The mirror is never ahead of its cursor, nor, when the snapshot in hand is of an older
\* instance, ahead of the stream.
Leads(h) ==
    /\ known # None /\ Holding /\ known > poll.epoch => last # None /\ tracked <= h[last]
    /\ cur # None => tracked <= h[cur] \/ Behind

\* The inductive invariant: some history explains what every thread has in hand.
CopyInv(h) == Witnessed(h) /\ CursorInv /\ PollInv /\ Leads(h)

MirrorInv == StreamInv /\ \E h : Ordered(h) /\ CopyInv(h)

-----------------------------------------------------------------------------
\* Before is reflexive and transitive.
LEMMA BeforeOrder ==
    /\ \A p \in Positions : Before(p, p)
    /\ \A p, q, r \in Positions : Before(p, q) /\ Before(q, r) => Before(p, r)
  BY DEF Before, Positions

\* The position and the version of a line.
LEMMA LinePos ==
    ASSUME NEW x \in Lines
    PROVE  /\ PosOf(x) \in Positions /\ x.view.agent \in Nat /\ x.epoch \in Nat /\ x.sequence \in Nat
           /\ PosOf(x)[1] = x.epoch /\ PosOf(x)[2] = x.sequence
  BY DEF Lines, PosOf, Positions, Views

\* The types that the steps below use.
LEMMA CopyTypes ==
    ASSUME StreamInv
    PROVE  /\ Now \in Positions /\ Now[1] = epoch /\ Now[2] = sequence /\ epoch \in Nat /\ sequence \in Nat
           /\ view.agent \in Nat /\ tracked \in Nat
           /\ cur # None => cur \in Positions
           /\ last # None => last \in Positions
           /\ known # None => known \in Nat
           /\ PosOf(poll) \in Positions /\ poll.epoch \in Nat /\ poll.sequence \in Nat /\ poll.view.agent \in Nat
           /\ PosOf(poll)[1] = poll.epoch /\ PosOf(poll)[2] = poll.sequence
           /\ Len(Wire) \in Nat /\ (Wire = <<>> <=> Len(Wire) = 0)
           /\ \A i \in 1 .. Len(Wire) : Wire[i] \in Lines
           /\ \A i \in 1 .. Len(replay) : replay[i] \in Lines
  <1>1. /\ epoch \in Nat /\ sequence \in Nat /\ view \in Views /\ replay \in Seq(Lines)
        /\ last \in Cursors /\ cur \in Cursors /\ known \in Nat \cup {None}
        /\ tracked \in Nat
        /\ poll \in [pc : PollStages, gen : Nat, epoch : Nat, sequence : Nat, view : Views]
    BY DEF StreamInv, MirrorTypeOK, DaemonTypeOK, WireTypeOK, CopyTypeOK
  <1>2. Wire \in Seq(Lines)
    BY WireType DEF StreamInv, MirrorTypeOK
  <1>3. Len(Wire) \in Nat /\ (Wire = <<>> <=> Len(Wire) = 0)
    BY <1>2, EmptySeq, LenProperties
  <1>4. /\ \A i \in 1 .. Len(Wire) : Wire[i] \in Lines
        /\ \A i \in 1 .. Len(replay) : replay[i] \in Lines
    BY <1>1, <1>2, ElementOfSeq
  <1>5. /\ Now \in Positions /\ Now[1] = epoch /\ Now[2] = sequence
        /\ PosOf(poll) \in Positions /\ PosOf(poll)[1] = poll.epoch /\ PosOf(poll)[2] = poll.sequence
    BY <1>1 DEF Now, PosOf, Positions
  <1>6. view.agent \in Nat /\ tracked \in Nat /\ poll.view.agent \in Nat /\ poll.epoch \in Nat /\ poll.sequence \in Nat
    BY <1>1 DEF Views
  <1>7. (cur # None => cur \in Positions) /\ (last # None => last \in Positions)
    BY <1>1 DEF Cursors, Positions
  <1> QED BY <1>1, <1>3, <1>4, <1>5, <1>6, <1>7

\* The history that goes on with the value v after the position n.
Continued(h, n, v) == [p \in Positions |-> IF Before(p, n) THEN h[p] ELSE v]

\* It is a history that agrees with h up to n.
LEMMA HistoryGoesOn ==
    ASSUME NEW h, Ordered(h), NEW n \in Positions, NEW v \in Nat, h[n] <= v
    PROVE  /\ Ordered(Continued(h, n, v))
           /\ \A p \in Positions : Before(p, n) => Continued(h, n, v)[p] = h[p]
           /\ \A p \in Positions : ~Before(p, n) => Continued(h, n, v)[p] = v
  <1>1. \A p \in Positions : Continued(h, n, v)[p] = IF Before(p, n) THEN h[p] ELSE v
    BY DEF Continued
  <1>2. \A p \in Positions : h[p] \in Nat
    BY DEF Ordered
  <1>3. Continued(h, n, v) \in [Positions -> Nat]
    BY <1>2 DEF Continued
  <1>4. ASSUME NEW p \in Positions, NEW q \in Positions, Before(p, q)
        PROVE  Continued(h, n, v)[p] <= Continued(h, n, v)[q]
    <2>1. h[p] <= h[q]
      BY <1>4 DEF Ordered
    <2>2. CASE Before(q, n)
      <3>1. Before(p, n)
        BY <1>4, <2>2, BeforeOrder
      <3> QED BY <1>1, <2>1, <2>2, <3>1
    <2>3. CASE ~Before(q, n) /\ Before(p, n)
      <3>1. h[p] <= h[n] /\ h[p] \in Nat /\ h[n] \in Nat
        BY <1>2, <2>3 DEF Ordered
      <3>2. h[p] <= v
        BY <3>1
      <3> QED BY <1>1, <2>3, <3>2
    <2>4. CASE ~Before(q, n) /\ ~Before(p, n)
      BY <1>1, <2>4
    <2> QED BY <2>2, <2>3, <2>4
  <1> QED BY <1>1, <1>3, <1>4 DEF Ordered

\* The daemon goes to a later position; the wire is continued or left.
LEMMA DaemonMoves ==
    ASSUME StreamInv, NEW h, Ordered(h), CopyInv(h), DaemonTypeOK', WireTypeOK',
           UNCHANGED <<stream, last, mirrorVars, poll>>,
           Before(Now, Now'), ~Before(Now', Now), view'.agent >= view.agent,
           \A i \in 1 .. Len(replay') : \/ PosOf(replay'[i]) = Now' /\ replay'[i].view = view'
                                        \/ \E j \in 1 .. Len(replay) : replay'[i] = replay[j],
           Len(Wire) <= Len(Wire'), \A i \in 1 .. Len(Wire) : Wire'[i] = Wire[i],
           \A i \in 1 .. Len(Wire') : i \in 1 .. Len(Wire) \/ (PosOf(Wire'[i]) = Now' /\ Wire'[i].view = view'),
           Wire = <<>> /\ Wire' # <<>> => last # None
    PROVE  \E g : Ordered(g) /\ CopyInv(g)'
  <1>0. PICK v \in Nat : v = view'.agent
    BY DEF DaemonTypeOK, Views
  <1>1. /\ cur' = cur /\ known' = known /\ tracked' = tracked /\ poll' = poll /\ last' = last /\ stream' = stream
    BY DEF mirrorVars
  <1>2. /\ Now \in Positions /\ Now' \in Positions /\ Now[1] = epoch /\ Now'[1] = epoch' /\ epoch \in Nat /\ epoch' \in Nat
        /\ h[Now] = view.agent /\ view.agent <= v /\ view.agent \in Nat
    <2>1. Now' \in Positions /\ Now'[1] = epoch' /\ epoch' \in Nat
      BY DEF Now, Positions, DaemonTypeOK
    <2> QED BY <1>0, <2>1, CopyTypes DEF CopyInv, Witnessed
  <1>3. PICK g : /\ Ordered(g)
                 /\ \A p \in Positions : Before(p, Now) => g[p] = h[p]
                 /\ \A p \in Positions : ~Before(p, Now) => g[p] = v
    <2>1. PICK n \in Positions : n = Now
      BY <1>2
    <2>2. h[n] <= v
      BY <1>2, <2>1
    <2> DEFINE g == Continued(h, n, v)
    <2>3. /\ Ordered(g)
          /\ \A p \in Positions : Before(p, n) => g[p] = h[p]
          /\ \A p \in Positions : ~Before(p, n) => g[p] = v
      BY <2>2, HistoryGoesOn
    <2> HIDE DEF g
    <2> QED BY <2>1, <2>3
  <1>4. g[Now'] = view'.agent
    BY <1>0, <1>2, <1>3
  <1>5. ASSUME NEW p \in Positions, Before(p, Now) PROVE Before(p, Now') /\ g[p] = h[p]
    BY <1>2, <1>3, <1>5, BeforeOrder
  <1>6. ASSUME NEW x \in Lines, Saw(h, x) PROVE Before(PosOf(x), Now') /\ g[PosOf(x)] = x.view.agent
    BY <1>5, <1>6, LinePos DEF Saw
  <1>7. Before(Now', Now')
    BY <1>2, BeforeOrder
  <1>8. \A i \in 1 .. Len(replay') : Before(PosOf(replay'[i]), Now') /\ g[PosOf(replay'[i])] = replay'[i].view.agent
    <2> TAKE i \in 1 .. Len(replay')
    <2>1. CASE PosOf(replay'[i]) = Now' /\ replay'[i].view = view'
      BY <1>4, <1>7, <2>1
    <2>2. CASE \E j \in 1 .. Len(replay) : replay'[i] = replay[j]
      <3>1. PICK j \in 1 .. Len(replay) : replay'[i] = replay[j]
        BY <2>2
      <3>2. replay[j] \in Lines /\ Saw(h, replay[j])
        BY CopyTypes DEF CopyInv, Witnessed
      <3> QED BY <1>6, <3>1, <3>2
    <2> QED BY <2>1, <2>2
  <1>9. \A i \in 1 .. Len(Wire') : Before(PosOf(Wire'[i]), Now') /\ g[PosOf(Wire'[i])] = Wire'[i].view.agent
    <2> TAKE i \in 1 .. Len(Wire')
    <2>1. CASE PosOf(Wire'[i]) = Now' /\ Wire'[i].view = view'
      BY <1>4, <1>7, <2>1
    <2>2. CASE i \in 1 .. Len(Wire)
      <3>1. Wire'[i] = Wire[i] /\ Wire[i] \in Lines /\ Saw(h, Wire[i])
        BY <2>2, CopyTypes DEF CopyInv, Witnessed
      <3> QED BY <1>6, <3>1
    <2> QED BY <2>1, <2>2
  <1>10. Holding => Before(PosOf(poll), Now') /\ g[PosOf(poll)] = poll.view.agent
    BY <1>5, CopyTypes DEF CopyInv, Witnessed, Saw
  <1>11. (last # None => Before(last, Now')) /\ (cur # None => Before(cur, Now'))
    BY <1>5, CopyTypes DEF CopyInv, Witnessed
  <1>12. Witnessed(g)'
    <2>1. PosOf(poll)' = PosOf(poll) /\ Holding' = Holding
      BY <1>1 DEF PosOf, Holding
    <2> QED BY <1>1, <1>4, <1>8, <1>9, <1>10, <1>11, <2>1 DEF Witnessed, Saw, PosOf
  <1>13. epoch <= epoch'
    BY <1>2 DEF Before
  <1>14. CursorInv'
    <2>1. known # None => known <= epoch'
      BY <1>2, <1>13, CopyTypes DEF CopyInv, CursorInv
    <2>2. Wire' # <<>> => (Wire # <<>> /\ Wire'[1] = Wire[1]) \/ (last # None /\ PosOf(Wire'[1]) = Now')
      <3> SUFFICES ASSUME Wire' # <<>>, Wire = <<>> PROVE last # None /\ PosOf(Wire'[1]) = Now'
        <4>1. Wire # <<>> => 1 \in 1 .. Len(Wire)
          BY CopyTypes
        <4> QED BY <4>1
      <3>1. Wire' \in Seq(Lines)
        BY DEF WireTypeOK, Wire
      <3>2. 1 \in 1 .. Len(Wire') /\ 1 \notin 1 .. Len(Wire)
        BY <3>1, EmptySeq, CopyTypes
      <3> QED BY <3>2
    <2>3. last = None /\ Wire' # <<>> => Wire'[1].kind = "SnapshotReplaced"
      BY <2>2 DEF CopyInv, CursorInv
    <2>4. last # None /\ Wire' # <<>> => Before(last, PosOf(Wire'[1]))
      BY <1>11, <2>2 DEF CopyInv, CursorInv
    <2> QED BY <1>1, <2>1, <2>3, <2>4 DEF CopyInv, CursorInv, PosOf
  <1>15. Fresh /\ Holding => Fresh'
    <2> SUFFICES ASSUME Fresh, Holding, stream = "on", NEW i \in 1 .. Len(Wire') PROVE Wire'[i].epoch >= poll.epoch
      BY <1>1 DEF Fresh
    <2>1. CASE i \in 1 .. Len(Wire)
      BY <2>1 DEF Fresh
    <2>2. CASE PosOf(Wire'[i]) = Now'
      <3>1. Wire'[i].epoch = epoch'
        BY <2>2 DEF PosOf, Now
      <3>2. poll.epoch <= epoch /\ poll.epoch \in Nat
        BY CopyTypes DEF CopyInv, PollInv, Holding
      <3> QED BY <1>2, <1>13, <3>1, <3>2
    <2> QED BY <2>1, <2>2
  <1>17. PollInv'
    <2>2. poll.epoch <= epoch => poll.epoch <= epoch'
      BY <1>2, <1>13, CopyTypes
    <2>3. known # None /\ cur = None => Holding
      BY DEF CopyInv, PollInv, Holding
    <2>4. poll.pc = "restarted" => Holding
      BY DEF Holding
    <2> QED BY <1>1, <1>15, <2>2, <2>3, <2>4 DEF CopyInv, PollInv
  <1>16. Leads(g)'
    <2>1. (last # None => g[last] = h[last]) /\ (cur # None => g[cur] = h[cur])
      BY <1>5, CopyTypes DEF CopyInv, Witnessed
    <2>2. Holding' = Holding
      BY <1>1 DEF Holding
    <2>3. Behind => Behind'
      <3>1. Behind => Fresh'
        <4>1. Behind => Fresh /\ Holding
          BY DEF Behind, Holding
        <4> QED BY <1>15, <4>1
      <3> QED BY <1>1, <3>1 DEF Behind
    <2> QED BY <1>1, <2>1, <2>2, <2>3 DEF CopyInv, Leads
  <1> QED BY <1>3, <1>12, <1>14, <1>16, <1>17 DEF CopyInv

\* A broadcast or a restart of the daemon.
LEMMA RemoteMoves ==
    ASSUME StreamInv, NEW h, Ordered(h), CopyInv(h), UNCHANGED <<stream, last, mirrorVars, poll>>,
           Restart \/ \E kind \in EventKinds : Broadcast(kind)
    PROVE  \E g : Ordered(g) /\ CopyInv(g)'
  <1>0. /\ epoch \in Nat /\ sequence \in Nat /\ view \in Views /\ DaemonTypeOK /\ WireTypeOK /\ ReplayRuns /\ WireRuns
        /\ view.agent \in Nat /\ Len(Wire) \in Nat
    BY CopyTypes DEF StreamInv, MirrorTypeOK, DaemonTypeOK
  <1>1. CASE Restart
    <2>1. DaemonTypeOK' /\ WireTypeOK' /\ Wire' = Wire
      BY <1>1, RestartStream
    <2>2. Before(Now, Now') /\ ~Before(Now', Now)
      BY <1>0, <1>1 DEF Restart, Now, Before
    <2>3. view'.agent >= view.agent
      <3>1. Changed(view, "AgentChanged").agent \in {view.agent, view.agent + 1}
        BY <1>0, ChangedType DEF EventKinds
      <3> QED BY <1>0, <1>1, <3>1 DEF Restart
    <2>4. Len(replay') = 0
      BY <1>1, EmptySeq DEF Restart
    <2> QED BY <1>0, <2>1, <2>2, <2>3, <2>4, DaemonMoves
  <1>2. CASE \E kind \in EventKinds : Broadcast(kind)
    <2>0. PICK kind \in EventKinds : Broadcast(kind)
      BY <1>2
    <2>1. PICK x : x = Line(kind, epoch, sequence + 1, view')
      OBVIOUS
    <2>2. /\ DaemonTypeOK' /\ epoch' = epoch /\ sequence' = sequence + 1 /\ view' = Changed(view, kind) /\ x \in Lines
          /\ \A i \in 1 .. Len(replay') : replay'[i] = x \/ \E j \in 1 .. Len(replay) : replay'[i] = replay[j]
      BY <1>0, <2>0, <2>1, BroadcastReplay
    <2>3. /\ WireTypeOK'
          /\ Wire' # Wire => Len(Wire') = Len(Wire) + 1 /\ Wire'[Len(Wire) + 1] = x
          /\ \A i \in 1 .. Len(Wire) : Wire'[i] = Wire[i]
      BY <1>0, <2>0, <2>1, <2>2, BroadcastWire
    <2>4. PosOf(x) = Now' /\ x.view = view'
      BY <2>1, <2>2 DEF Line, PosOf, Now
    <2>5. Before(Now, Now') /\ ~Before(Now', Now)
      BY <1>0, <2>2 DEF Now, Before
    <2>6. view'.agent >= view.agent
      <3>1. Changed(view, kind).agent \in {view.agent, view.agent + 1}
        BY <1>0, ChangedType
      <3> QED BY <1>0, <2>2, <3>1
    <2>7. \A i \in 1 .. Len(Wire') : i \in 1 .. Len(Wire) \/ (PosOf(Wire'[i]) = Now' /\ Wire'[i].view = view')
      <3>1. CASE Wire' = Wire
        BY <3>1
      <3>2. CASE Wire' # Wire
        <4>1. \A i \in 1 .. Len(Wire') : i \in 1 .. Len(Wire) \/ i = Len(Wire) + 1
          BY <1>0, <2>3, <3>2
        <4> QED BY <2>3, <2>4, <3>2, <4>1
      <3> QED BY <3>1, <3>2
    <2>8. Len(Wire) <= Len(Wire')
      BY <1>0, <2>3
    <2>9. Wire = <<>> /\ Wire' # <<>> => last # None
      <3> SUFFICES ASSUME Wire = <<>>, Wire' # Wire PROVE last # None
        OBVIOUS
      <3>1. attached
        BY <2>0 DEF Broadcast, Offer, Wire
      <3>2. last = <<epoch, sequence>>
        BY <1>0, <3>1 DEF WireRuns
      <3> QED BY <1>0, <3>2, StreamAssumption
    <2>10. \A i \in 1 .. Len(replay') : \/ PosOf(replay'[i]) = Now' /\ replay'[i].view = view'
                                        \/ \E j \in 1 .. Len(replay) : replay'[i] = replay[j]
      BY <2>2, <2>4
    <2> QED BY <2>2, <2>3, <2>5, <2>6, <2>7, <2>8, <2>9, <2>10, DaemonMoves
  <1> QED BY <1>1, <1>2

\* What is left to show of a step that leaves the daemon and the wire.
LEMMA SeenFrame ==
    ASSUME StreamInv, NEW h, CopyInv(h), UNCHANGED <<daemonVars, wireVars, last>>
    PROVE  /\ Wire' = Wire /\ Now' = Now /\ epoch' = epoch /\ last' = last
           /\ (Holding' => Saw(h, poll)') /\ (cur' # None => Before(cur', Now)) => Witnessed(h)'
           /\ known' = known /\ tracked' = tracked /\ cur' \in {cur, None} /\ (known = None => cur' = cur)
                => CursorInv'
  <1>1. /\ Wire' = Wire /\ Now' = Now /\ epoch' = epoch /\ last' = last /\ replay' = replay /\ view' = view
    BY DEF daemonVars, wireVars, Wire, Now
  <1>2. (Holding' => Saw(h, poll)') /\ (cur' # None => Before(cur', Now)) => Witnessed(h)'
    BY <1>1 DEF CopyInv, Witnessed, Saw
  <1>3. known' = known /\ tracked' = tracked /\ cur' \in {cur, None} /\ (known = None => cur' = cur)
          => CursorInv'
    BY <1>1 DEF CopyInv, CursorInv
  <1> QED BY <1>1, <1>2, <1>3

\* The steps that leave the mirror and the snapshot in hand.
LEMMA QuietCopy ==
    ASSUME StreamInv, NEW h, CopyInv(h), UNCHANGED <<daemonVars, wireVars, last>>,
           cur' = cur, known' = known, tracked' = tracked,
           poll' = poll \/ (~Holding /\ ~Holding' /\ (poll'.pc = "snapshot" => poll'.epoch <= epoch)),
           stream' = stream \/ (stream = "off" /\ stream' = "opening")
    PROVE  CopyInv(h)'
  <1>1. Wire' = Wire /\ Now' = Now /\ epoch' = epoch /\ last' = last
    BY SeenFrame
  <1>2. Witnessed(h)'
    <2>1. Holding' => Saw(h, poll)'
      BY <1>1 DEF CopyInv, Witnessed, Saw, Holding
    <2>2. cur' # None => Before(cur', Now)
      BY DEF CopyInv, Witnessed
    <2> QED BY <2>1, <2>2, SeenFrame
  <1>3. CursorInv'
    BY SeenFrame
  <1>4. poll' = poll => (Fresh => Fresh') /\ Holding' = Holding
    BY <1>1 DEF Fresh, Holding
  <1>5. CASE poll' = poll
    <2>1. PollInv'
      BY <1>1, <1>4, <1>5 DEF CopyInv, PollInv
    <2>2. Leads(h)'
      BY <1>1, <1>4, <1>5 DEF CopyInv, Leads, Behind
    <2> QED BY <1>2, <1>3, <2>1, <2>2 DEF CopyInv
  <1>6. CASE ~Holding /\ ~Holding' /\ (poll'.pc = "snapshot" => poll'.epoch <= epoch)
    <2>1. PollInv'
      BY <1>1, <1>6 DEF CopyInv, PollInv, Holding
    <2>2. Leads(h)'
      BY <1>1, <1>6 DEF CopyInv, Leads, Behind, Holding
    <2> QED BY <1>2, <1>3, <2>1, <2>2 DEF CopyInv
  <1> QED BY <1>5, <1>6

\* Neither the poller nor the stream rolls the mirror back.
MovesOn ==
    cur # None /\ cur' # None /\ cur[1] = cur'[1] => cur'[2] >= cur[2] /\ tracked' >= tracked

\* Nothing moves.
LEMMA StillForward ==
    ASSUME StreamInv, cur' = cur, tracked' = tracked
    PROVE  MovesOn
  <1>1. cur # None => cur[2] \in Nat
    BY CopyTypes DEF Positions
  <1> QED BY <1>1, CopyTypes DEF MovesOn

\* The steps of the poller and of a request.
LEMMA PollCopy ==
    ASSUME StreamInv, NEW h, Ordered(h), CopyInv(h), PollStep \/ RpcBegin \/ RpcAnswer \/ RpcFails
    PROVE  CopyInv(h)' /\ MovesOn
  <1>0. /\ UNCHANGED <<daemonVars, wireVars, last>>
        /\ Wire' = Wire /\ Now' = Now /\ epoch' = epoch /\ last' = last
    BY StreamAlike, SeenFrame
  <1>1. poll \in [pc : PollStages, gen : Nat, epoch : Nat, sequence : Nat, view : Views]
    BY DEF StreamInv, MirrorTypeOK, CopyTypeOK
  <1>2. CASE PollBegin
    <2>1. poll.pc = "idle" /\ poll'.pc = "status" /\ cur' = cur /\ known' = known /\ tracked' = tracked /\ stream' = stream
      BY <1>2 DEF PollBegin, IdlePoll, mirrorVars
    <2> QED BY <1>0, <2>1, QuietCopy, StillForward DEF Holding
  <1>3. CASE PollStatus
    <2>1. /\ poll.pc = "status" /\ poll'.pc = "snapshot" /\ poll'.epoch = epoch /\ epoch \in Nat
          /\ cur' = cur /\ known' = known /\ tracked' = tracked /\ stream' = stream
      BY <1>1, <1>3, CopyTypes DEF PollStatus, mirrorVars
    <2> QED BY <1>0, <2>1, QuietCopy, StillForward DEF Holding
  <1>4. CASE PollFails
    <2>1. /\ poll.pc \in {"status", "snapshot"} /\ poll'.pc = "idle"
          /\ cur' = cur /\ known' = known /\ tracked' = tracked /\ stream' = stream
      BY <1>4 DEF PollFails, mirrorVars, IdlePoll
    <2> QED BY <1>0, <2>1, QuietCopy, StillForward DEF Holding
  <1>5. CASE PollSubscribes
    <2>1. /\ poll.pc = "subscribe" /\ poll'.pc = "idle" /\ cur' = cur /\ known' = known /\ tracked' = tracked
          /\ stream' = stream \/ (stream = "off" /\ stream' = "opening")
      BY <1>5 DEF PollSubscribes, mirrorVars, IdlePoll, EnsureSubscription
    <2> QED BY <1>0, <2>1, QuietCopy, StillForward DEF Holding
  <1>6. CASE RpcBegin \/ RpcAnswer \/ RpcFails
    <2>1. /\ poll' = poll /\ cur' = cur /\ known' = known /\ tracked' = tracked
          /\ stream' = stream \/ (stream = "off" /\ stream' = "opening")
      BY <1>6 DEF RpcBegin, RpcAnswer, RpcFails, mirrorVars, EnsureSubscription, StreamInv, MirrorTypeOK, CopyTypeOK
    <2> QED BY <1>0, <2>1, QuietCopy, StillForward
  <1>7. CASE PollSnapshot
    <2>1. /\ poll.pc = "snapshot" /\ cur' = cur /\ known' = known /\ tracked' = tracked /\ stream' = stream
      BY <1>7 DEF PollSnapshot, mirrorVars
    <2>2. CASE poll.epoch # epoch
      <3>1. poll'.pc = "idle"
        BY <1>7, <2>2 DEF PollSnapshot, IdlePoll
      <3> QED BY <1>0, <2>1, <3>1, QuietCopy, StillForward DEF Holding
    <2>3. CASE poll.epoch = epoch
      <3>1. poll'.pc = "received" /\ poll'.epoch = epoch /\ poll'.sequence = sequence /\ poll'.view = view
        BY <1>1, <1>7, <2>3 DEF PollSnapshot
      <3>2. Saw(h, poll)'
        <4>1. PosOf(poll)' = Now /\ Before(Now, Now)
          BY <3>1, BeforeOrder, CopyTypes DEF PosOf, Now
        <4> QED BY <1>0, <3>1, <4>1 DEF Saw, CopyInv, Witnessed
      <3>3. Witnessed(h)'
        BY <1>0, <2>1, <3>2, SeenFrame DEF CopyInv, Witnessed
      <3>4. CursorInv'
        BY <1>0, <2>1, SeenFrame
      <3>5. PollInv'
        BY <1>0, <2>1, <3>1, CopyTypes DEF CopyInv, PollInv
      <3>6. Leads(h)'
        <4>1. known # None => known <= epoch /\ known \in Nat /\ epoch \in Nat
          BY CopyTypes DEF CopyInv, CursorInv
        <4>2. known # None => ~(known > poll'.epoch)
          BY <3>1, <4>1
        <4> QED BY <1>0, <2>1, <4>2 DEF CopyInv, Leads, Behind
      <3> QED BY <2>1, <3>3, <3>4, <3>5, <3>6, StillForward DEF CopyInv
    <2> QED BY <2>2, <2>3
  <1>8. CASE PollChecksEpoch
    <2>1. /\ poll.pc = "received" /\ cur' = cur /\ known' = known /\ tracked' = tracked
          /\ poll'.pc = IF known # None /\ known # poll.epoch THEN "restarted" ELSE "reconcile"
          /\ poll'.epoch = poll.epoch /\ poll'.sequence = poll.sequence /\ poll'.view = poll.view
          /\ stream' = IF known # None /\ known # poll.epoch /\ stream = "on" THEN "cancelled" ELSE stream
      BY <1>1, <1>8 DEF PollChecksEpoch, mirrorVars
    <2>2. Witnessed(h)'
      <3>1. Saw(h, poll)'
        BY <1>0, <2>1 DEF CopyInv, Witnessed, Saw, PosOf, Holding
      <3> QED BY <1>0, <2>1, <3>1, SeenFrame DEF CopyInv, Witnessed
    <2>3. CursorInv'
      BY <1>0, <2>1, SeenFrame
    <2>4. PollInv'
      <3>1. known # None => cur # None
        BY <2>1 DEF CopyInv, PollInv
      <3>2. poll'.pc = "restarted" => stream' # "on"
        BY <2>1
      <3> QED BY <1>0, <2>1, <3>1, <3>2 DEF CopyInv, PollInv, Fresh
    <2>5. Leads(h)'
      BY <1>0, <2>1 DEF CopyInv, Leads, Behind, Holding
    <2> QED BY <2>1, <2>2, <2>3, <2>4, <2>5, StillForward DEF CopyInv
  <1>9. CASE PollForgetsCursor
    <2>1. /\ poll.pc = "restarted" /\ cur' = None /\ known' = known /\ tracked' = tracked /\ stream' = stream
          /\ poll'.pc = "reconcile"
          /\ poll'.epoch = poll.epoch /\ poll'.sequence = poll.sequence /\ poll'.view = poll.view
      BY <1>1, <1>9 DEF PollForgetsCursor
    <2>2. Witnessed(h)'
      <3>1. Saw(h, poll)'
        BY <1>0, <2>1 DEF CopyInv, Witnessed, Saw, PosOf, Holding
      <3> QED BY <1>0, <2>1, <3>1, SeenFrame
    <2>3. known # None /\ known # poll.epoch
      BY <2>1 DEF CopyInv, PollInv
    <2>4. CursorInv'
      BY <1>0, <2>1, <2>3, SeenFrame
    <2>5. PollInv'
      BY <1>0, <2>1, <2>3 DEF CopyInv, PollInv, Fresh
    <2>6. Leads(h)'
      BY <1>0, <2>1 DEF CopyInv, Leads, Behind, Holding
    <2> QED BY <2>1, <2>2, <2>4, <2>5, <2>6 DEF CopyInv, MovesOn
  <1>10. CASE PollReconcile
    <2>1. /\ poll.pc = "reconcile" /\ poll'.pc = "subscribe" /\ stream' = stream
          /\ Reconcile(poll.epoch, poll.sequence, poll.view, poll.gen)
      BY <1>10 DEF PollReconcile, IdlePoll
    <2>2. Saw(h, poll) /\ poll.epoch \in Nat /\ poll.sequence \in Nat /\ poll.view.agent \in Nat /\ PosOf(poll) \in Positions
      BY <2>1, CopyTypes DEF CopyInv, Witnessed, Holding
    <2>3. ~Holding'
      BY <2>1 DEF Holding
    <2>4. CASE CursorAfter(poll.epoch, poll.sequence)
      <3>1. cur' = cur /\ known' = known /\ tracked' = tracked /\ cur # None /\ cur[1] = poll.epoch
        BY <2>1, <2>4 DEF Reconcile, CursorAfter
      <3>2. Witnessed(h)' /\ CursorInv'
        BY <1>0, <2>3, <3>1, SeenFrame DEF CopyInv, Witnessed
      <3>3. PollInv'
        BY <2>1, <3>1 DEF PollInv
      <3>4. ~Behind
        BY <2>2, <3>1 DEF Behind, CopyInv, CursorInv
      <3>5. Leads(h)'
        BY <1>0, <2>3, <3>1, <3>4 DEF CopyInv, Leads
      <3> QED BY <3>1, <3>2, <3>3, <3>5, StillForward DEF CopyInv
    <2>5. CASE ~CursorAfter(poll.epoch, poll.sequence)
      <3>1. cur' = PosOf(poll) /\ known' = poll.epoch /\ tracked' = poll.view.agent
        BY <2>1, <2>5 DEF Reconcile, PosOf, Mirrored
      <3>2. cur' # None /\ known' # None /\ cur'[1] = poll.epoch /\ cur'[2] = poll.sequence
        BY <2>2, <3>1, StreamAssumption DEF PosOf
      <3>3. Witnessed(h)'
        BY <1>0, <2>2, <2>3, <3>1, SeenFrame DEF Saw
      <3>4. CursorInv'
        <4>1. poll.epoch <= epoch
          BY <2>1 DEF CopyInv, PollInv
        <4> QED BY <1>0, <3>1, <3>2, <4>1 DEF CopyInv, CursorInv
      <3>5. PollInv'
        BY <2>1, <3>2 DEF PollInv
      <3>6. tracked' = h[cur'] /\ tracked' \in Nat
        BY <2>2, <3>1 DEF Saw
      <3>7. Leads(h)'
        BY <2>3, <3>6 DEF Leads
      <3>8. MovesOn
        <4> SUFFICES ASSUME cur # None, cur[1] = cur'[1] PROVE cur'[2] >= cur[2] /\ tracked' >= tracked
          BY DEF MovesOn
        <4>1. cur \in Positions /\ cur[1] \in Nat /\ cur[2] \in Nat /\ tracked \in Nat
          BY CopyTypes DEF Positions
        <4>2. cur'[2] >= cur[2]
          BY <2>2, <2>5, <3>2, <4>1 DEF CursorAfter
        <4>3. h[cur] <= h[cur'] /\ h[cur] \in Nat
          BY <2>2, <3>1, <3>2, <4>1, <4>2 DEF Ordered, Before
        <4>4. tracked <= h[cur]
          BY <2>2, <3>2, <4>1 DEF CopyInv, Leads, Behind, CursorInv
        <4> QED BY <3>6, <4>1, <4>2, <4>3, <4>4
      <3> QED BY <3>3, <3>4, <3>5, <3>7, <3>8 DEF CopyInv
    <2> QED BY <2>4, <2>5
  <1> QED BY <1>2, <1>3, <1>4, <1>5, <1>6, <1>7, <1>8, <1>9, <1>10 DEF PollStep

\* What a line does to the mirror.
LEMMA EventOutcome ==
    ASSUME CopyTypeOK, NEW x \in Lines, OnEvent(x)
    PROVE  \/ ~Accepted(x) /\ cur' = cur /\ known' = known /\ tracked' = tracked
           \/ /\ Accepted(x) /\ cur' = PosOf(x)
              /\ known' = IF x.kind = "SnapshotReplaced" THEN x.epoch ELSE known
              /\ tracked' = x.view.agent \/ (tracked' = tracked /\ x.kind # "SnapshotReplaced")
  <1>1. CASE ~Accepted(x)
    BY <1>1 DEF OnEvent, mirrorVars
  <1>2. CASE Accepted(x) /\ x.kind = "SnapshotReplaced"
    <2>1. Reconcile(x.epoch, x.sequence, x.view, gen)
      BY <1>2 DEF OnEvent
    <2>2. ~CursorAfter(x.epoch, x.sequence)
      <3>1. cur # None => cur \in Nat \X Nat
        BY DEF CopyTypeOK, Cursors
      <3>2. x.sequence \in Nat
        BY DEF Lines
      <3> QED BY <1>2, <3>1, <3>2 DEF Accepted, CursorAfter
    <2> QED BY <1>2, <2>1, <2>2 DEF Reconcile, PosOf
  <1>3. CASE Accepted(x) /\ x.kind # "SnapshotReplaced"
    <2>1. Forward(x) /\ x.kind \in EventKinds
      BY <1>3 DEF OnEvent, Lines
    <2> QED BY <1>3, <2>1 DEF Forward, PosOf
  <1> QED BY <1>1, <1>2, <1>3

\* A line is delivered.
LEMMA DeliverCopy ==
    ASSUME StreamInv, NEW h, Ordered(h), CopyInv(h), Deliver
    PROVE  CopyInv(h)' /\ MovesOn
  <1>0. PICK x : x = Wire[1]
    OBVIOUS
  <1>1. /\ WireTypeOK' /\ Wire # <<>> /\ x \in Lines /\ last' = PosOf(x) /\ OnEvent(x) /\ Runs(Wire)
        /\ \/ stream = "cancelled" /\ stream' = "off" /\ Wire' = <<>>
           \/ stream = "on" /\ stream' = "on" /\ Len(Wire') = Len(Wire) - 1 /\ \A i \in 1 .. Len(Wire) - 1 : Wire'[i] = Wire[i + 1]
    BY <1>0, DeliverStream DEF PosOf, StreamInv, WireRuns
  <1>2. /\ epoch' = epoch /\ Now' = Now /\ replay' = replay /\ view' = view /\ poll' = poll
        /\ Holding' = Holding /\ PosOf(poll)' = PosOf(poll)
    BY DEF Deliver, daemonVars, Now, Holding, PosOf
  <1>3. /\ Len(Wire) \in Nat \ {0} /\ 1 \in 1 .. Len(Wire) /\ epoch \in Nat
        /\ tracked \in Nat /\ poll.epoch \in Nat
        /\ cur # None => cur \in Positions /\ cur[1] \in Nat /\ cur[2] \in Nat
        /\ last # None => last \in Positions
        /\ known # None => known \in Nat
    BY <1>1, CopyTypes DEF Positions
  <1>4. /\ Saw(h, x) /\ PosOf(x) \in Positions /\ x.epoch \in Nat /\ x.sequence \in Nat /\ x.view.agent \in Nat
        /\ PosOf(x)[1] = x.epoch /\ PosOf(x)[2] = x.sequence /\ x.epoch <= epoch /\ PosOf(x) # None
        /\ h[PosOf(x)] = x.view.agent /\ Before(PosOf(x), Now)
    <2>1. Saw(h, x) /\ PosOf(x) \in Positions /\ x.epoch \in Nat /\ x.sequence \in Nat /\ x.view.agent \in Nat
          /\ PosOf(x)[1] = x.epoch /\ PosOf(x)[2] = x.sequence
      BY <1>0, <1>1, <1>3, LinePos DEF CopyInv, Witnessed
    <2>2. x.epoch <= epoch
      BY <1>3, <2>1, CopyTypes DEF Saw, Before
    <2> QED BY <2>1, <2>2, StreamAssumption DEF Saw, Positions
  <1>5. \/ ~Accepted(x) /\ cur' = cur /\ known' = known /\ tracked' = tracked
        \/ /\ Accepted(x) /\ cur' = PosOf(x)
           /\ known' = IF x.kind = "SnapshotReplaced" THEN x.epoch ELSE known
           /\ tracked' = x.view.agent \/ (tracked' = tracked /\ x.kind # "SnapshotReplaced")
    BY <1>1, EventOutcome DEF StreamInv, MirrorTypeOK
  <1>6. known = None => Accepted(x) /\ x.kind = "SnapshotReplaced"
    BY <1>0, <1>1 DEF CopyInv, CursorInv, Accepted
  <1>7. /\ known' # None /\ (known # None => known' = known)
        /\ known' = known \/ known' = x.epoch
    <2>1. x.epoch # None
      BY <1>4, StreamAssumption
    <2> QED BY <1>5, <1>6, <2>1 DEF Accepted
  <1>8. last # None => h[last] <= h[PosOf(x)] /\ h[last] \in Nat
    BY <1>0, <1>1, <1>3, <1>4 DEF CopyInv, CursorInv, Ordered
  <1>9. \A i \in 1 .. Len(Wire') : \E j \in 1 .. Len(Wire) : Wire'[i] = Wire[j]
    <2>1. CASE Wire' = <<>>
      BY <2>1, EmptySeq
    <2>2. CASE Len(Wire') = Len(Wire) - 1 /\ \A i \in 1 .. Len(Wire) - 1 : Wire'[i] = Wire[i + 1]
      <3> TAKE i \in 1 .. Len(Wire')
      <3>1. i \in 1 .. Len(Wire) - 1 /\ i + 1 \in 1 .. Len(Wire)
        BY <1>3, <2>2
      <3> QED BY <2>2, <3>1
    <2> QED BY <1>1, <2>1, <2>2
  <1>10. Witnessed(h)'
    <2>1. \A i \in 1 .. Len(Wire') : Saw(h, Wire[i])'
      <3> TAKE i \in 1 .. Len(Wire')
      <3>1. PICK j \in 1 .. Len(Wire) : Wire'[i] = Wire[j]
        BY <1>9
      <3>2. Saw(h, Wire[j])
        BY DEF CopyInv, Witnessed
      <3> QED BY <1>2, <3>1, <3>2 DEF Saw, PosOf
    <2>2. (\A i \in 1 .. Len(replay) : Saw(h, replay[i])') /\ (Holding' => Saw(h, poll)')
      BY <1>2 DEF CopyInv, Witnessed, Saw, PosOf
    <2>3. cur' # None => Before(cur', Now')
      BY <1>2, <1>4, <1>5 DEF CopyInv, Witnessed
    <2>4. h[Now'] = view'.agent /\ Before(last', Now')
      BY <1>1, <1>2, <1>4 DEF CopyInv, Witnessed
    <2> QED BY <1>2, <2>1, <2>2, <2>3, <2>4 DEF Witnessed
  <1>11. CursorInv'
    <2>1. known' <= epoch'
      BY <1>2, <1>4, <1>7 DEF CopyInv, CursorInv
    <2>2. cur' # None => cur'[1] = known'
      BY <1>4, <1>5, <1>6, <1>7 DEF CopyInv, CursorInv, Accepted
    <2>3. Wire' # <<>> => Before(last', PosOf(Wire[1])')
      <3> SUFFICES ASSUME Wire' # <<>> PROVE Before(last', PosOf(Wire'[1]))
        BY DEF PosOf
      <3>1. Wire' \in Seq(Lines)
        BY <1>1 DEF WireTypeOK, Wire
      <3>2. 1 \in 1 .. Len(Wire) - 1 /\ Wire'[1] = Wire[2]
        BY <1>1, <1>3, <3>1, EmptySeq
      <3>3. Wire[2].epoch = x.epoch /\ Wire[2].sequence = x.sequence + 1
        BY <1>0, <1>1, <3>2 DEF Runs
      <3> QED BY <1>1, <1>4, <3>2, <3>3 DEF Before, PosOf
    <2> QED BY <1>1, <1>4, <1>7, <2>1, <2>2, <2>3 DEF CursorInv
  <1>12. Fresh => Fresh'
    <2> SUFFICES ASSUME Fresh, stream' = "on", NEW i \in 1 .. Len(Wire') PROVE Wire'[i].epoch >= poll.epoch
      BY <1>2 DEF Fresh
    <2>1. stream = "on"
      BY <1>1
    <2> QED BY <1>9, <2>1 DEF Fresh
  <1>13. Fresh /\ stream = "on" => x.epoch >= poll.epoch
    BY <1>0, <1>3 DEF Fresh
  <1>14. PollInv'
    <2>1. poll.pc = "restarted" => known # None /\ known' = known
      BY <1>7 DEF CopyInv, PollInv
    <2>2. cur' = None => cur = None /\ ~Accepted(x) /\ known' = known /\ known # None
      BY <1>4, <1>5, <1>6
    <2> QED BY <1>2, <1>12, <2>1, <2>2 DEF CopyInv, PollInv
  <1>15. known' # None /\ Holding /\ known' > poll.epoch => last' # None /\ tracked' <= h[last']
    <2> SUFFICES ASSUME Holding, known' > poll.epoch PROVE tracked' <= x.view.agent
      BY <1>1, <1>4
    <2>1. CASE tracked' = x.view.agent
      BY <1>4, <2>1
    <2>2. CASE tracked' = tracked /\ known # None
      <3>1. last # None /\ tracked <= h[last]
        BY <1>7, <2>2 DEF CopyInv, Leads
      <3> QED BY <1>3, <1>4, <1>8, <2>2, <3>1
    <2> QED BY <1>5, <1>6, <2>1, <2>2
  <1>16. ASSUME Accepted(x), cur # None PROVE tracked <= x.view.agent /\ cur[1] = x.epoch /\ cur[2] < x.sequence
    <2>1. known # None /\ cur[1] = known /\ known = x.epoch
      BY <1>16 DEF CopyInv, CursorInv, Accepted
    <2>2. cur[2] < x.sequence
      BY <1>3, <1>4, <1>16, <2>1 DEF Accepted
    <2>3. h[cur] <= h[PosOf(x)] /\ h[cur] \in Nat
      BY <1>3, <1>4, <1>16, <2>1, <2>2 DEF Ordered, Before
    <2>4. ~Behind
      BY <1>1, <1>3, <1>4, <1>13, <2>1 DEF Behind
    <2>5. tracked <= h[cur]
      BY <1>16, <2>4 DEF CopyInv, Leads
    <2> QED BY <1>3, <1>4, <2>1, <2>2, <2>3, <2>5
  <1>17. cur' # None => tracked' <= h[cur'] \/ Behind'
    <2> SUFFICES ASSUME cur' # None PROVE tracked' <= h[cur'] \/ Behind'
      OBVIOUS
    <2>1. CASE ~Accepted(x)
      <3>1. cur' = cur /\ known' = known /\ tracked' = tracked
        BY <1>5, <2>1
      <3>2. Behind => Behind'
        <4>1. stream # "cancelled" => stream' # "cancelled"
          BY <1>1
        <4> QED BY <1>2, <1>12, <3>1, <4>1 DEF Behind
      <3> QED BY <3>1, <3>2 DEF CopyInv, Leads
    <2>2. CASE Accepted(x) /\ tracked' = x.view.agent
      BY <1>4, <1>5, <2>2
    <2>3. CASE Accepted(x) /\ tracked' = tracked /\ x.kind # "SnapshotReplaced"
      <3>0. cur' = PosOf(x) /\ known # None /\ known' = known /\ known = x.epoch
        BY <1>5, <1>6, <2>3 DEF Accepted
      <3>1. CASE cur # None
        BY <1>4, <1>16, <2>3, <3>0, <3>1
      <3>2. CASE cur = None
        <4>1. poll.pc = "reconcile" /\ known # poll.epoch /\ (known < poll.epoch => Fresh)
          BY <3>0, <3>2 DEF CopyInv, PollInv
        <4>2. CASE known > poll.epoch
          <5>1. last # None /\ tracked <= h[last]
            BY <3>0, <4>1, <4>2 DEF CopyInv, Leads, Holding
          <5> QED BY <1>3, <1>4, <1>8, <2>3, <3>0, <5>1
        <4>3. CASE known < poll.epoch
          <5>1. stream # "on"
            BY <1>3, <1>4, <1>13, <3>0, <4>1, <4>3
          <5>2. stream' = "off"
            BY <1>1, <5>1
          <5> QED BY <1>2, <3>0, <4>1, <4>3, <5>2 DEF Behind, Fresh
        <4> QED BY <1>3, <3>0, <4>1, <4>2, <4>3
      <3> QED BY <3>1, <3>2
    <2> QED BY <1>5, <2>1, <2>2, <2>3
  <1>18. Leads(h)'
    BY <1>2, <1>15, <1>17 DEF Leads
  <1>19. MovesOn
    <2>1. CASE ~Accepted(x)
      BY <1>5, <2>1, StillForward
    <2>2. CASE Accepted(x)
      <3> SUFFICES ASSUME cur # None PROVE cur'[2] >= cur[2] /\ tracked' >= tracked
        BY DEF MovesOn
      <3> QED BY <1>3, <1>4, <1>5, <1>16, <2>2
    <2> QED BY <2>1, <2>2
  <1> QED BY <1>10, <1>11, <1>14, <1>18, <1>19 DEF CopyInv

\* A stream opens: every line on the wire is of the running instance.
LEMMA OpensCopy ==
    ASSUME StreamInv, NEW h, Ordered(h), CopyInv(h), StreamOpens
    PROVE  CopyInv(h)' /\ MovesOn
  <1>1. /\ WireTypeOK' /\ WireRuns'
        /\ \A i \in 1 .. Len(Wire') :
             \/ Wire'[i] = Line("SnapshotReplaced", epoch, sequence, view)
             \/ CanReplay(last) /\ \E j \in 1 .. Len(replay) : Wire'[i] = replay[j]
        /\ \A i \in 1 .. Len(Wire') : Wire'[i].epoch = epoch
        /\ CanReplay(last) => last[1] = epoch /\ \A i \in 1 .. Len(Wire') : Wire'[i].sequence = last[2] + i
    BY OpensStream
  <1>2. /\ epoch' = epoch /\ Now' = Now /\ replay' = replay /\ view' = view /\ poll' = poll /\ last' = last
        /\ cur' = cur /\ known' = known /\ tracked' = tracked /\ stream' = "on"
        /\ Holding' = Holding /\ PosOf(poll)' = PosOf(poll)
    BY DEF StreamOpens, daemonVars, mirrorVars, Now, Holding, PosOf
  <1>3. PICK x : x = Line("SnapshotReplaced", epoch, sequence, view)
    OBVIOUS
  <1>4. PosOf(x) = Now /\ x.view = view /\ x.kind = "SnapshotReplaced" /\ Saw(h, x)
    <2>1. PosOf(x) = Now /\ x.view = view /\ x.kind = "SnapshotReplaced"
      BY <1>3 DEF Line, PosOf, Now
    <2> QED BY <2>1, BeforeOrder, CopyTypes DEF Saw, CopyInv, Witnessed
  <1>5. Witnessed(h)'
    <2>1. \A i \in 1 .. Len(Wire') : Saw(h, Wire[i])'
      <3> TAKE i \in 1 .. Len(Wire')
      <3>1. Saw(h, Wire'[i])
        BY <1>1, <1>3, <1>4 DEF CopyInv, Witnessed
      <3> QED BY <1>2, <3>1 DEF Saw, PosOf
    <2>2. (\A i \in 1 .. Len(replay) : Saw(h, replay[i])') /\ (Holding' => Saw(h, poll)')
      BY <1>2 DEF CopyInv, Witnessed, Saw, PosOf
    <2> QED BY <1>2, <2>1, <2>2 DEF CopyInv, Witnessed
  <1>6. Holding => Fresh'
    <2>1. Holding => poll.epoch <= epoch /\ poll.epoch \in Nat /\ epoch \in Nat
      BY CopyTypes DEF CopyInv, PollInv, Holding
    <2> QED BY <1>1, <1>2, <2>1 DEF Fresh
  <1>7. CursorInv'
    <2> SUFFICES ASSUME Wire' # <<>>
                 PROVE  /\ last = None => Wire'[1].kind = "SnapshotReplaced"
                        /\ last # None => Before(last, PosOf(Wire'[1]))
      BY <1>2 DEF CopyInv, CursorInv, PosOf
    <2>1. 1 \in 1 .. Len(Wire')
      <3>1. Wire' \in Seq(Lines)
        BY <1>1 DEF WireTypeOK, Wire
      <3> QED BY <3>1, EmptySeq
    <2>2. CASE Wire'[1] = x
      BY <1>4, <2>2 DEF CopyInv, Witnessed
    <2>3. CASE CanReplay(last)
      <3>1. last # None /\ last \in Positions
        BY <2>3, CopyTypes DEF CanReplay
      <3>2. Wire'[1].epoch = last[1] /\ Wire'[1].sequence = last[2] + 1
        BY <1>1, <2>1, <2>3
      <3>3. last[2] \in Nat /\ last[1] \in Nat
        BY <3>1 DEF Positions
      <3> QED BY <3>1, <3>2, <3>3 DEF Before, PosOf
    <2> QED BY <1>1, <1>3, <2>1, <2>2, <2>3
  <1>8. PollInv'
    <2>1. known # None /\ cur = None => Holding
      BY DEF CopyInv, PollInv, Holding
    <2>2. poll.pc = "restarted" => Holding
      BY DEF Holding
    <2> QED BY <1>2, <1>6, <2>1, <2>2 DEF CopyInv, PollInv
  <1>9. Leads(h)'
    <2>1. Behind => Behind'
      <3>1. Behind => Holding
        BY DEF Behind, Holding
      <3> QED BY <1>2, <1>6, <3>1 DEF Behind
    <2> QED BY <1>2, <2>1 DEF CopyInv, Leads
  <1> QED BY <1>2, <1>5, <1>7, <1>8, <1>9, StillForward DEF CopyInv

\* A stream ends.
LEMMA EndsCopy ==
    ASSUME StreamInv, NEW h, CopyInv(h), StreamEnds
    PROVE  CopyInv(h)' /\ MovesOn
  <1>1. Wire' = <<>> /\ Len(Wire') = 0
    BY EndsStream, EmptySeq
  <1>2. /\ epoch' = epoch /\ Now' = Now /\ replay' = replay /\ view' = view /\ poll' = poll /\ last' = last
        /\ cur' = cur /\ known' = known /\ tracked' = tracked /\ stream' = "off"
        /\ Holding' = Holding /\ PosOf(poll)' = PosOf(poll)
    BY DEF StreamEnds, daemonVars, mirrorVars, Now, Holding, PosOf
  <1>3. Witnessed(h)'
    BY <1>1, <1>2 DEF CopyInv, Witnessed, Saw, PosOf
  <1>4. CursorInv'
    BY <1>1, <1>2 DEF CopyInv, CursorInv
  <1>5. PollInv' /\ Leads(h)'
    BY <1>2 DEF CopyInv, PollInv, Leads, Behind, Fresh
  <1> QED BY <1>2, <1>3, <1>4, <1>5, StillForward DEF CopyInv

\* The mirror starts empty.
LEMMA InitMirror ==
    ASSUME Init
    PROVE  MirrorInv
  <1>1. StreamInv
    BY InitStream
  <1>2. PICK h : h = [p \in Positions |-> 0]
    OBVIOUS
  <1>3. Ordered(h)
    BY <1>2 DEF Ordered
  <1>4. Wire = <<>> /\ Len(replay) = 0 /\ Len(Wire) = 0
    BY ConcatEmptySeq, EmptySeq DEF Init, StreamInit, Wire
  <1>5. view.agent = 0 /\ tracked = 0 /\ last = None /\ cur = None /\ known = None /\ poll.pc = "idle"
    BY DEF Init, StreamInit, NewView, Mirrored, IdlePoll
  <1>6. h[Now] = 0
    BY <1>1, <1>2, CopyTypes
  <1>7. CopyInv(h)
    BY <1>4, <1>5, <1>6 DEF CopyInv, Witnessed, CursorInv, PollInv, Leads, Holding
  <1> QED BY <1>1, <1>3, <1>7 DEF MirrorInv

\* Every step keeps the invariant, and neither the poller nor the stream rolls the mirror back.
LEMMA NextMirror ==
    ASSUME MirrorInv, [Next]_vars
    PROVE  MirrorInv' /\ MovesOn
  <1>0. PICK h : Ordered(h) /\ CopyInv(h)
    BY DEF MirrorInv
  <1>1. StreamInv /\ StreamInv'
    BY NextStream DEF MirrorInv
  <1>2. CASE PollStep \/ RpcBegin \/ RpcAnswer \/ RpcFails
    BY <1>0, <1>1, <1>2, PollCopy DEF MirrorInv
  <1>3. CASE StreamOpens
    BY <1>0, <1>1, <1>3, OpensCopy DEF MirrorInv
  <1>4. CASE Deliver
    BY <1>0, <1>1, <1>4, DeliverCopy DEF MirrorInv
  <1>5. CASE StreamEnds
    BY <1>0, <1>1, <1>5, EndsCopy DEF MirrorInv
  <1>6. CASE RpcServed \/ RemoteStep
    <2>1. UNCHANGED <<stream, last, mirrorVars, poll>>
      BY <1>6 DEF RpcServed, RemoteStep
    <2>2. Restart \/ \E kind \in EventKinds : Broadcast(kind)
      BY <1>1, <1>6, KindsAssumption DEF RpcServed, RemoteStep, EventKinds, RpcKinds, Requests, StreamInv, MirrorTypeOK, CopyTypeOK
    <2>3. cur' = cur /\ tracked' = tracked
      BY <2>1 DEF mirrorVars
    <2> QED BY <1>0, <1>1, <2>1, <2>2, <2>3, RemoteMoves, StillForward DEF MirrorInv
  <1>7. CASE UNCHANGED vars
    <2>1. /\ UNCHANGED <<daemonVars, wireVars, last>> /\ cur' = cur /\ known' = known /\ tracked' = tracked
          /\ poll' = poll /\ stream' = stream
      BY <1>7 DEF vars, mirrorVars
    <2> QED BY <1>0, <1>1, <2>1, QuietCopy, StillForward DEF MirrorInv
  <1> QED BY <1>2, <1>3, <1>4, <1>5, <1>6, <1>7 DEF Next

\* Within an epoch neither the cursor nor the agent that the poller and the stream write goes
\* back, whatever answers come between, for every bound on instances, events, buffer and
\* channel (ensure_remote_event_subscription, cache_remote_agent).
THEOREM MirrorMovesForward == Spec => NeverRolledBack
  <1>1. Init => MirrorInv
    BY InitMirror
  <1>2. MirrorInv /\ [Next]_vars => MirrorInv'
    BY NextMirror
  <1>3. MirrorInv /\ [Next]_vars =>
          [cur # None /\ cur' # None /\ cur[1] = cur'[1] => cur'[2] >= cur[2] /\ tracked' >= tracked]_vars
    BY NextMirror DEF MovesOn
  <1> QED BY <1>1, <1>2, <1>3, PTL DEF Spec, NeverRolledBack

=============================================================================
