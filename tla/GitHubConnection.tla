-------------------------- MODULE GitHubConnection --------------------------
(***************************************************************************)
(* The account connection of the GitHub integration when it runs on the    *)
(* managed gh tool (crates/ditchd/src/github_auth.rs): the saved           *)
(* connection, the session with its cancellation flag, the background      *)
(* sign-in job started by Connect, and one read that was bound to the      *)
(* connection when it began and may commit long after the user has moved   *)
(* on.  gh keeps one active account for every tool of the Mac, so the      *)
(* account can change between any two steps.                               *)
(*                                                                         *)
(* A generation and a cancellation flag are fresh values: both are drawn   *)
(* from the counter `fresh`.                                               *)
(***************************************************************************)
EXTENDS Naturals

CONSTANTS Accounts,   \* the GitHub accounts gh may have signed in
          NoAccount,  \* no account
          MaxFresh    \* bound on generations and flags handed out

ASSUME NoAccountAssumption == NoAccount \notin Accounts

VARIABLES conn,       \* the saved Connection: generation, phase, account
          ghSession,  \* the Session of this data directory; generation 0: none
          cancelled,  \* the flags that have been set
          signIn,     \* the sign-in thread; step "idle": none
          reading,    \* the bound read that holds OPERATION; "idle": none
          ghAccount,  \* the active account of the shared gh configuration
          fresh       \* the last generation or flag handed out

connVars == <<conn, ghSession, cancelled, signIn, reading, ghAccount, fresh>>

Transient == {"installing", "checking", "authenticating", "verifying"}

IdleJob == [step |-> "idle", gen |-> 0, flag |-> 0, account |-> NoAccount,
            dropped |-> FALSE]

IdleRead == [step |-> "idle", gen |-> 0, flag |-> 0, account |-> NoAccount,
             round |-> 0, dropped |-> FALSE]

NoGhSession == [gen |-> 0, flag |-> 0, running |-> FALSE]

ConnInit ==
  /\ conn = [gen |-> 0, phase |-> "disconnected", account |-> NoAccount]
  /\ ghSession = NoGhSession
  /\ cancelled = {}
  /\ signIn = IdleJob
  /\ reading = IdleRead
  /\ ghAccount \in Accounts \cup {NoAccount}
  /\ fresh = 0

-----------------------------------------------------------------------------
\* The saved connection.

\* Mutant: the result of a replaced generation is saved all the same.
SavesAlways(gen) == TRUE

(* update accepts a result only from the generation that is still current. *)
IsCurrentGeneration(gen) == conn.gen = gen

(* A saved update of generation gen; unchanged when it was replaced.       *)
Updated(gen, phase, account) ==
  IF IsCurrentGeneration(gen)
  THEN [conn EXCEPT !.phase = phase, !.account = account]
  ELSE conn

(* Status: a transient phase without its running job is an attempt that    *)
(* ended, in this process or in an earlier one.                            *)
ConnStatus ==
  /\ conn.phase \in Transient
  /\ ~(ghSession.gen = conn.gen /\ ghSession.running)
  /\ conn' = [conn EXCEPT !.phase = "disconnected", !.account = NoAccount]
  /\ UNCHANGED <<ghSession, cancelled, signIn, reading, ghAccount, fresh>>

(* Disconnect and Cancel replace the generation and set the flag of the    *)
(* session.  What was under way has been dropped by the user.              *)
Disconnect ==
  /\ fresh < MaxFresh
  /\ fresh' = fresh + 1
  /\ conn' = [gen |-> fresh', phase |-> "disconnected", account |-> NoAccount]
  /\ cancelled' = cancelled \cup (IF ghSession.gen = 0 THEN {} ELSE {ghSession.flag})
  /\ signIn' = [signIn EXCEPT !.dropped = signIn.step # "idle"]
  /\ reading' = [reading EXCEPT !.dropped = reading.step # "idle"]
  /\ UNCHANGED <<ghSession, ghAccount>>

(* CancelRead leaves the connection alone and sets only the flag.          *)
CancelRead ==
  /\ conn.phase = "connected"
  /\ cancelled' = cancelled \cup (IF ghSession.gen = 0 THEN {} ELSE {ghSession.flag})
  /\ reading' = [reading EXCEPT !.dropped = reading.step # "idle"]
  /\ UNCHANGED <<conn, ghSession, signIn, ghAccount, fresh>>

-----------------------------------------------------------------------------
\* Connect and the thread it starts.

(* Connect is refused while a job runs; it cancels the previous session,   *)
(* takes a new generation and starts the thread.                           *)
Connect ==
  /\ ~ghSession.running
  /\ fresh < MaxFresh
  /\ fresh' = fresh + 1
  /\ conn' = [gen |-> fresh', phase |-> "checking", account |-> NoAccount]
  /\ cancelled' = cancelled \cup (IF ghSession.gen = 0 THEN {} ELSE {ghSession.flag})
  /\ ghSession' = [gen |-> fresh', flag |-> fresh', running |-> TRUE]
  /\ signIn' = [IdleJob EXCEPT !.step = "version", !.gen = fresh', !.flag = fresh']
  /\ reading' = [reading EXCEPT !.dropped = reading.step # "idle"]
  /\ UNCHANGED ghAccount

Stopped == signIn.flag \in cancelled

JobStep(from, to) ==
  /\ signIn.step = from
  /\ signIn' = [signIn EXCEPT !.step = to]
  /\ UNCHANGED <<ghSession, cancelled, reading, fresh>>

(* The tool is probed; a tool that is missing or of another version is     *)
(* installed unless the job was cancelled.                                 *)
VerifyVersion ==
  /\ \E to \in (IF Stopped THEN {"failed"} ELSE {"authenticate", "install"}) :
       JobStep("version", to)
  /\ UNCHANGED <<conn, ghAccount>>

(* install reports its progress through update and ignores the answer.     *)
InstallProgress ==
  /\ JobStep("install", IF Stopped THEN "failed" ELSE "installing")
  /\ conn' = IF Stopped THEN conn
             ELSE Updated(signIn.gen, "installing", NoAccount)
  /\ UNCHANGED ghAccount

InstallEnds ==
  /\ \E to \in {"failed"} \cup (IF Stopped THEN {} ELSE {"authenticate"}) :
       JobStep("installing", to)
  /\ UNCHANGED <<conn, ghAccount>>

(* A refused update ends the job.                                          *)
Authenticate ==
  /\ JobStep("authenticate",
             IF IsCurrentGeneration(signIn.gen) THEN "login" ELSE "failed")
  /\ conn' = Updated(signIn.gen, "authenticating", NoAccount)
  /\ UNCHANGED ghAccount

(* The browser flow: it signs an account in, fails or expires, and is      *)
(* killed once the flag is set.  The account stays signed in at gh when    *)
(* the cancellation comes after that.                                      *)
Login ==
  \/ /\ \E a \in Accounts : ghAccount' = a
     /\ JobStep("login", IF Stopped THEN "failed" ELSE "verify")
     /\ UNCHANGED conn
  \/ /\ JobStep("login", "failed")
     /\ UNCHANGED <<conn, ghAccount>>

Verifying ==
  /\ JobStep("verify",
             IF IsCurrentGeneration(signIn.gen) THEN "probe" ELSE "failed")
  /\ conn' = Updated(signIn.gen, "verifying", NoAccount)
  /\ UNCHANGED ghAccount

(* probe reads the account that is active now, if any; it fails when the   *)
(* job was cancelled, on a network error, or when the account changes      *)
(* under it.                                                               *)
ProbeAccount ==
  /\ signIn.step = "probe"
  /\ signIn' \in {[signIn EXCEPT !.step = "failed"]} \cup
       (IF Stopped \/ ghAccount = NoAccount THEN {}
        ELSE {[signIn EXCEPT !.step = "connect", !.account = ghAccount]})
  /\ UNCHANGED <<conn, ghSession, cancelled, reading, ghAccount, fresh>>

ConnectAccount ==
  /\ JobStep("connect", IF IsCurrentGeneration(signIn.gen) THEN "end" ELSE "failed")
  /\ conn' = Updated(signIn.gen, "connected", signIn.account)
  /\ UNCHANGED ghAccount

JobFails ==
  /\ JobStep("failed", "end")
  /\ conn' = Updated(signIn.gen, "failed", NoAccount)
  /\ UNCHANGED ghAccount

(* The session the thread ends is the one it was started for.              *)
ReleasesOwn == ghSession.gen = signIn.gen

JobEnds ==
  /\ signIn.step = "end"
  /\ signIn' = IdleJob
  /\ ghSession' = IF ReleasesOwn THEN [ghSession EXCEPT !.running = FALSE] ELSE ghSession
  /\ UNCHANGED <<conn, cancelled, reading, ghAccount, fresh>>

-----------------------------------------------------------------------------
\* A read bound to the connection.

(* Binding::capture, under OPERATION: it needs a connected account, and    *)
(* replaces a session of another generation or with a set flag.            *)
Capture ==
  /\ reading.step = "idle"
  /\ conn.phase = "connected"
  /\ LET reuse == ghSession.gen = conn.gen /\ ghSession.flag \notin cancelled
         flag  == IF reuse THEN ghSession.flag ELSE fresh + 1
     IN  /\ reuse \/ fresh < MaxFresh
         /\ fresh' = IF reuse THEN fresh ELSE fresh + 1
         /\ ghSession' = [ghSession EXCEPT !.gen = conn.gen, !.flag = flag]
         /\ reading' = [step |-> "verify", gen |-> conn.gen, flag |-> flag,
                     account |-> conn.account, round |-> 1, dropped |-> FALSE]
  /\ UNCHANGED <<conn, cancelled, signIn, ghAccount>>

(* check_commit: the flag, the phase, the generation and the account.      *)
MayCommit ==
  /\ reading.flag \notin cancelled
  /\ conn.phase = "connected"
  /\ conn.gen = reading.gen
  /\ conn.account = reading.account

ReadStep(from, to) ==
  /\ reading.step = from
  /\ reading' = IF to = "idle" THEN IdleRead ELSE [reading EXCEPT !.step = to]
  /\ UNCHANGED <<ghSession, signIn, ghAccount, fresh>>

(* verify, first half: the read may still commit.                          *)
VerifyRead ==
  /\ ReadStep("verify", IF MayCommit THEN "account" ELSE "idle")
  /\ UNCHANGED <<conn, cancelled>>

(* verify, second half: the probe finds the bound account, or another one, *)
(* which ends the connection for everybody, or credentials that are no     *)
(* longer good, or fails in a way that says nothing about the account.     *)
VerifyAccount ==
  \/ /\ ghAccount = reading.account
     /\ ReadStep("account", IF ~MayCommit THEN "idle"
                            ELSE IF reading.round = 1 THEN "fetch" ELSE "commit")
     /\ UNCHANGED <<conn, cancelled>>
  \/ /\ ghAccount # reading.account
     /\ ReadStep("account", "idle")
     /\ cancelled' = cancelled \cup {reading.flag}
     /\ conn' = Updated(reading.gen, "account_changed", NoAccount)
  \/ /\ ReadStep("account", "idle")
     /\ conn' \in {conn, Updated(reading.gen, "failed", NoAccount)}
     /\ UNCHANGED cancelled

(* GhCli::get: the answer arrives and is verified again, or it fails.      *)
FetchRead ==
  \/ /\ reading.step = "fetch"
     /\ reading.flag \notin cancelled
     /\ reading' = [reading EXCEPT !.step = "verify", !.round = 2]
     /\ UNCHANGED <<conn, ghSession, cancelled, signIn, ghAccount, fresh>>
  \/ /\ ReadStep("fetch", "idle")
     /\ UNCHANGED <<conn, cancelled>>

(* The result is saved under the runtime's lock, after check_commit; the   *)
(* deadline of the binding may have passed as well.                        *)
CommitRead ==
  /\ \E to \in {"idle"} \cup (IF MayCommit THEN {"committed"} ELSE {}) :
       ReadStep("commit", to)
  /\ UNCHANGED <<conn, cancelled>>

EndRead ==
  /\ ReadStep("committed", "idle")
  /\ UNCHANGED <<conn, cancelled>>

-----------------------------------------------------------------------------
(* Another tool signs in, switches or logs out of the shared account.      *)
AccountSwitch ==
  /\ \E a \in (Accounts \cup {NoAccount}) \ {ghAccount} : ghAccount' = a
  /\ reading.step # "idle" \/ signIn.step \in {"verify", "probe"}
  /\ UNCHANGED <<conn, ghSession, cancelled, signIn, reading, fresh>>

(* The daemon restarts: the connection is saved, the sessions are not.     *)
ConnRestart ==
  /\ ghSession # NoGhSession
  /\ ghSession' = NoGhSession
  /\ cancelled' = {}
  /\ signIn' = IdleJob
  /\ reading' = IdleRead
  /\ UNCHANGED <<conn, ghAccount, fresh>>

JobNext ==
  \/ VerifyVersion \/ InstallProgress \/ InstallEnds \/ Authenticate \/ Login
  \/ Verifying \/ ProbeAccount \/ ConnectAccount \/ JobFails \/ JobEnds

ReadNext ==
  VerifyRead \/ VerifyAccount \/ FetchRead \/ CommitRead \/ EndRead

ConnNext ==
  \/ ConnStatus \/ Disconnect \/ CancelRead \/ Connect \/ Capture
  \/ JobNext \/ ReadNext \/ AccountSwitch \/ ConnRestart

ConnSpec == ConnInit /\ [][ConnNext]_connVars

-----------------------------------------------------------------------------
KeepsWithdrawn ==
  /\ signIn.dropped => conn'.phase # "connected" \/ conn' = conn
  /\ reading.dropped => reading'.step # "committed" \/ reading' = reading

(* What the user withdrew stays withdrawn, however late it ends: a sign-in *)
(* that was cancelled or disconnected while it ran never makes the account *)
(* connected, and a read that was under way when the user cancelled it,    *)
(* disconnected or reconnected never saves its result (update,             *)
(* check_commit).                                                          *)
WithdrawnStaysWithdrawn == [][KeepsWithdrawn]_connVars

=============================================================================
