----------------------------- MODULE ProjectClone -----------------------------
(***************************************************************************)
(* Clones of repositories into new projects (project_clone.rs).            *)
(*                                                                         *)
(* A clone reserves its destination by an exclusive mkdir, runs git,       *)
(* checks the result and registers it as a project.  Clients start it,     *)
(* cancel it and retry its registration; two clones may want the same      *)
(* destination, the user may change the destination, and the daemon may    *)
(* restart, which forgets all clones and leaves git running.               *)
(*                                                                         *)
(* One destination.  A directory is known by its inode; inodes are not     *)
(* used twice.  A worker that fails takes the lock of its operation, looks *)
(* at the destination and removes the path it has just looked at: the lock *)
(* keeps requests out in between, but nobody else.  Progress, percentages  *)
(* and the wording of errors are left out, and so is the limit of 256      *)
(* clones.                                                                 *)
(***************************************************************************)
EXTENDS Naturals

CONSTANTS
    Clones,      \* ids of clone operations
    MaxInode,    \* bound: directories made at the destination
    MaxRestart   \* bound: restarts of the daemon

ASSUME CloneBoundsAssumption == MaxInode \in Nat \ {0} /\ MaxRestart \in Nat

VARIABLES
    clone,     \* the operation: phase, cancelled, inode it owns, checkout_ready, worker
    dir,       \* what is at the destination
    inodes,    \* inodes in use
    git,       \* the process group of git of every clone: the inode it writes, or NoInode
    project,   \* the clone whose project was registered since the daemon started, or none
    restarts,
    swapped    \* history: the user removed the destination between a look and its removal

cloneVars == <<clone, dir, inodes, git, project, restarts, swapped>>

NoInode == 0
NoClone == "none"
NoDir == [inode |-> NoInode, kind |-> "none"]
Unknown == [phase |-> "unknown", cancelled |-> FALSE, owned |-> NoInode, ready |-> FALSE,
            worker |-> "none", verified |-> FALSE, leftover |-> FALSE]
TerminalPhases == {"Completed", "Failed", "Cancelled"}

CloneInit ==
    /\ clone = [o \in Clones |-> Unknown]
    /\ dir = NoDir /\ inodes = 0
    /\ git = [o \in Clones |-> NoInode]
    /\ project = NoClone
    /\ restarts = 0 /\ swapped = FALSE

Owns(o) == clone[o].owned # NoInode /\ clone[o].owned = dir.inode

-----------------------------------------------------------------------------
\* handle: StartProjectClone.  A repeated request only reads the status.
StartClone(o) ==
    /\ clone[o].phase = "unknown"
    /\ clone' = [clone EXCEPT ![o].phase = "Validating", ![o].worker = "validate"]
    /\ UNCHANGED <<dir, inodes, git, project, restarts, swapped>>

\* The request waits for the lock of the operation while its worker holds it.
CancelClone(o) ==
    /\ clone[o].phase \notin TerminalPhases \cup {"unknown"} /\ ~clone[o].cancelled
    /\ clone[o].worker # "remove"
    /\ clone' = [clone EXCEPT ![o].cancelled = TRUE]
    /\ UNCHANGED <<dir, inodes, git, project, restarts, swapped>>

\* RetryProjectCloneRegistration
RetryRegistration(o) ==
    /\ clone[o].phase \in {"Failed", "Cancelled"} /\ clone[o].ready
    /\ clone' = [clone EXCEPT ![o].cancelled = FALSE, ![o].phase = "Configuring",
                              ![o].worker = "finish"]
    /\ UNCHANGED <<dir, inodes, git, project, restarts, swapped>>

-----------------------------------------------------------------------------
\* An error of clone_checkout.
FailClone(o) == clone' = [clone EXCEPT ![o].worker = "fail"]

\* The clone has ended without a project; "left" is a directory it could not remove.
EndFailed(o, left) ==
    clone' = [clone EXCEPT ![o].phase = IF clone[o].cancelled THEN "Cancelled" ELSE "Failed",
                           ![o].worker = "none", ![o].leftover = left]

\* The worker locks its operation and asks owns_destination.
LookAtPartial(o) ==
    /\ clone[o].worker = "fail"
    /\ IF ~clone[o].ready /\ Owns(o) THEN clone' = [clone EXCEPT ![o].worker = "remove"]
                                     ELSE EndFailed(o, FALSE)
    /\ UNCHANGED <<dir, inodes, git, project, restarts, swapped>>

\* remove_dir_all of the path, whatever is there by now; it may fail.
RemovePartial(o) ==
    /\ clone[o].worker = "remove"
    /\ \E removed \in BOOLEAN :
         /\ removed => dir # NoDir
         /\ dir' = IF removed THEN NoDir ELSE dir
         /\ EndFailed(o, ~removed)
    /\ UNCHANGED <<inodes, git, project, restarts, swapped>>

\* validate_url and destination
Validate(o) ==
    /\ clone[o].worker = "validate"
    /\ clone' = [clone EXCEPT ![o].worker = "reserve"] \/ FailClone(o)
    /\ UNCHANGED <<dir, inodes, git, project, restarts, swapped>>

\* Mutant: a directory that is there already is adopted.
AdoptDestination(o) ==
    /\ clone[o].worker = "reserve"
    /\ \/ /\ ~clone[o].cancelled
          /\ inodes < MaxInode /\ inodes' = inodes + 1
          /\ dir' = IF dir = NoDir THEN [inode |-> inodes + 1, kind |-> "partial"] ELSE dir
          /\ clone' = [clone EXCEPT ![o].owned = dir'.inode, ![o].phase = "Cloning",
                                    ![o].worker = "spawn"]
       \/ FailClone(o) /\ UNCHANGED <<dir, inodes>>
    /\ UNCHANGED <<git, project, restarts, swapped>>

\* create_dir under the lock of the operation, unless it was cancelled.
ReserveDestination(o) ==
    /\ clone[o].worker = "reserve"
    /\ \/ /\ ~clone[o].cancelled /\ dir = NoDir
          /\ inodes < MaxInode /\ inodes' = inodes + 1
          /\ dir' = [inode |-> inodes + 1, kind |-> "partial"]
          /\ clone' = [clone EXCEPT ![o].owned = inodes + 1, ![o].phase = "Cloning",
                                    ![o].worker = "spawn"]
       \/ FailClone(o) /\ UNCHANGED <<dir, inodes>>
    /\ UNCHANGED <<git, project, restarts, swapped>>

\* run_git: the process group is killed on every way out, then the leader is reaped.
SpawnGit(o) ==
    /\ clone[o].worker = "spawn"
    /\ \/ /\ clone' = [clone EXCEPT ![o].worker = "clone"]
          /\ git' = [git EXCEPT ![o] = clone[o].owned]
       \/ FailClone(o) /\ UNCHANGED git
    /\ UNCHANGED <<dir, inodes, project, restarts, swapped>>

\* Mutant: git has no deadline.
GitEndsUntimed(o) ==
    /\ clone[o].worker = "clone"
    /\ git' = [git EXCEPT ![o] = NoInode]
    /\ IF clone[o].cancelled THEN FailClone(o)
       ELSE /\ dir.inode = git[o] /\ dir.kind = "repo"
            /\ clone' = [clone EXCEPT ![o].worker = "check"]
    /\ UNCHANGED <<dir, inodes, project, restarts, swapped>>

\* Git is done, or fails, or the clone is cancelled, or its time is over.
GitEnds(o) ==
    /\ clone[o].worker = "clone"
    /\ git' = [git EXCEPT ![o] = NoInode]
    /\ \/ clone' = [clone EXCEPT ![o].worker = "check"] /\ ~clone[o].cancelled
       \/ FailClone(o)
    /\ UNCHANGED <<dir, inodes, project, restarts, swapped>>

\* External: git completes the checkout in the directory it writes, if it is there.
GitWrites(o) ==
    /\ git[o] # NoInode /\ dir.inode = git[o] /\ dir.kind = "partial"
    /\ dir' = [dir EXCEPT !.kind = "repo"]
    /\ UNCHANGED <<clone, inodes, git, project, restarts, swapped>>

\* The checkout is complete and still ours: it is kept from now on.
Check(o) ==
    /\ clone[o].worker = "check"
    /\ IF Owns(o) /\ dir.kind = "repo"
       THEN clone' = [clone EXCEPT ![o].ready = TRUE, ![o].worker = "finish"]
       ELSE FailClone(o)
    /\ UNCHANGED <<dir, inodes, git, project, restarts, swapped>>

-----------------------------------------------------------------------------
\* finish_registration: the checkout is verified once more, without the lock.
VerifyCheckout(o) ==
    /\ clone[o].worker = "finish"
    /\ \E ok \in BOOLEAN :
         /\ ok => ~clone[o].cancelled
         /\ clone' = [clone EXCEPT ![o].phase = "Configuring", ![o].worker = "register",
                                   ![o].verified = ok]
    /\ UNCHANGED <<dir, inodes, git, project, restarts, swapped>>

\* Mutant: the checkout that was verified is registered without a look at its directory.
RegistersVerified(o) ==
    /\ clone[o].worker = "register"
    /\ \/ /\ ~clone[o].cancelled /\ clone[o].verified
          /\ project' = o
          /\ clone' = [clone EXCEPT ![o].phase = "Completed", ![o].worker = "none"]
       \/ /\ clone' = [clone EXCEPT ![o].worker = "none", ![o].phase = "Failed"]
          /\ UNCHANGED project
    /\ UNCHANGED <<dir, inodes, git, restarts, swapped>>

\* Cancellation and registration share the lock of the operation.
RegisterClone(o) ==
    /\ clone[o].worker = "register"
    /\ \/ /\ ~clone[o].cancelled /\ Owns(o) /\ dir.kind = "repo" /\ clone[o].verified
          /\ project' = o
          /\ clone' = [clone EXCEPT ![o].phase = "Completed", ![o].worker = "none"]
       \/ /\ clone' = [clone EXCEPT ![o].worker = "none",
                         ![o].phase = IF clone[o].cancelled THEN "Cancelled" ELSE "Failed"]
          /\ UNCHANGED project
    /\ UNCHANGED <<dir, inodes, git, restarts, swapped>>

-----------------------------------------------------------------------------
\* The user removes what is at the destination, or puts a directory there.  The project
\* of a removed directory is deleted by the user as well.
UserRemoves ==
    /\ dir # NoDir
    /\ dir' = NoDir /\ project' = NoClone
    /\ swapped' = (swapped \/ \E o \in Clones : clone[o].worker = "remove")
    /\ UNCHANGED <<clone, inodes, git, restarts>>

UserCreates ==
    /\ dir = NoDir /\ inodes < MaxInode
    /\ inodes' = inodes + 1
    /\ dir' = [inode |-> inodes + 1, kind |-> "user"]
    /\ UNCHANGED <<clone, git, project, restarts, swapped>>

\* The registry of clones is in memory only; git groups run on.  Projects are in the
\* store, but nothing ties them to a clone any more.
DaemonRestarts ==
    /\ restarts < MaxRestart
    /\ restarts' = restarts + 1
    /\ clone' = [o \in Clones |-> Unknown]
    /\ project' = NoClone
    /\ UNCHANGED <<dir, inodes, git, swapped>>

OrphanEnds(o) ==
    /\ git[o] # NoInode /\ clone[o].worker # "clone"
    /\ git' = [git EXCEPT ![o] = NoInode]
    /\ UNCHANGED <<clone, dir, inodes, project, restarts, swapped>>

-----------------------------------------------------------------------------
CloneWorker(o) ==
    \/ Validate(o) \/ ReserveDestination(o) \/ SpawnGit(o) \/ GitEnds(o) \/ Check(o)
    \/ LookAtPartial(o) \/ RemovePartial(o) \/ VerifyCheckout(o) \/ RegisterClone(o)

CloneNext ==
    \/ \E o \in Clones :
         \/ StartClone(o) \/ CancelClone(o) \/ RetryRegistration(o) \/ CloneWorker(o)
         \/ GitWrites(o) \/ OrphanEnds(o)
    \/ UserRemoves \/ UserCreates \/ DaemonRestarts

\* A worker is a thread, and every git has a deadline.
CloneFairness == \A o \in Clones : WF_cloneVars(CloneWorker(o))

CloneSpec == CloneInit /\ [][CloneNext]_cloneVars /\ CloneFairness

-----------------------------------------------------------------------------
\* The look at the destination and its removal are two steps.  Whatever another clone, a
\* git, a cancellation or a restart of the daemon does in between or before, what is removed
\* is a checkout that this clone made and did not complete, and no other clone has it: only
\* the user can put something else in its way (owns_destination, clone_worker_with_command).
RemovesOwnPartial ==
    \A o \in Clones :
        RemovePartial(o) /\ dir' # dir /\ ~swapped =>
            /\ Owns(o) /\ ~clone[o].ready
            /\ \A x \in Clones \ {o} : ~Owns(x)

OnlyPartialRemoved == [][RemovesOwnPartial]_cloneVars

\* The outcome the client sees is the outcome there is.  A registered project belongs to a
\* completed clone and to a complete checkout of that clone, and no late cancel relabels
\* it; a clone that has ended has no git process, and its destination holds no partial
\* checkout that the client was not told about, even after a cancel at any moment
\* (finish_registration, run_git).
OutcomeIsTrue ==
    /\ project # NoClone =>
         /\ clone[project].phase = "Completed"
         /\ ~swapped => dir.inode = clone[project].owned /\ dir.kind = "repo"
    /\ restarts = 0 =>
         \A o \in Clones : clone[o].phase \in TerminalPhases =>
            /\ git[o] = NoInode
            /\ Owns(o) => clone[o].ready \/ clone[o].leftover

\* Every clone that was started ends, and so does every retry of a registration
\* (the deadline of run_git).
CloneSettles ==
    \A o \in Clones :
        clone[o].phase = "Validating" \/ clone[o].phase = "Configuring" ~>
            clone[o].phase \in TerminalPhases \cup {"unknown"}
=============================================================================
