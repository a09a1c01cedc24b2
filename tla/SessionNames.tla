----------------------------- MODULE SessionNames -----------------------------
(***************************************************************************)
(* The names of agent sessions (session_names.rs, session_namer.rs,        *)
(* runtime_shared.rs, remote_app_server_runtime.rs).                       *)
(*                                                                         *)
(* A background thread looks for names that Codex has saved, and asks a    *)
(* model for the name of a session that has none.  It reserves an attempt  *)
(* in the store before it asks, so that restarts cannot make it ask again  *)
(* and again.  Turns of the agent, the user and restarts interfere.        *)
(*                                                                         *)
(* One agent of a local project, with a prompt.  A name is known by who    *)
(* made it; the delay between two attempts is left out.                    *)
(***************************************************************************)
EXTENDS Naturals

CONSTANTS
    MaxSession,   \* bound: sessions (Codex threads) of the agent
    MaxNameFault, \* bound: failing calls, and restarts of the daemon
    MaxRename     \* bound: renames by the user

ASSUME NamesAssumption == MaxSession \in Nat \ {0} /\ MaxNameFault \in Nat /\ MaxRename \in Nat

Sessions == 1..MaxSession
NoSession == 0

VARIABLES
    session,  \* native_session_id of the agent
    titles,   \* codex_title and user_title of the agent
    failed,   \* naming_failed
    codex,    \* the name of every session in the state of Codex
    receipt,  \* setting session-naming:<agent>
    namer,    \* the background thread
    asked,    \* how often the model was asked since the user last asked for a retry
    nameFaults, renames

nameVars == <<session, titles, failed, codex, receipt, namer, asked, nameFaults, renames>>

NoName == "none"
NoReceipt == [session |-> NoSession, attempts |-> 0, name |-> NoName]
Sleeping == [pc |-> "sleep"]

NamesInit ==
    /\ session = 1
    /\ titles = [codex |-> NoName, user |-> NoName]
    /\ failed = FALSE
    /\ codex = [s \in Sessions |-> NoName]
    /\ receipt = NoReceipt
    /\ namer = Sleeping
    /\ asked = [s \in Sessions |-> 0]
    /\ nameFaults = 0 /\ renames = 0

Fault == nameFaults < MaxNameFault /\ nameFaults' = nameFaults + 1

-----------------------------------------------------------------------------
\* refresh_session_names: the name is read without the lock.
Refresh ==
    /\ namer.pc = "sleep" /\ titles.codex = NoName
    /\ codex[session] # NoName
    /\ namer' = [pc |-> "found", session |-> session, name |-> codex[session]]
    /\ UNCHANGED <<session, titles, failed, codex, receipt, asked, nameFaults, renames>>

RefreshApplies ==
    /\ namer.pc = "found"
    /\ IF session = namer.session /\ titles.codex = NoName
       THEN titles' = [titles EXCEPT !.codex = namer.name] /\ failed' = FALSE
       ELSE UNCHANGED <<titles, failed>>
    /\ namer' = Sleeping
    /\ UNCHANGED <<session, codex, receipt, asked, nameFaults, renames>>

-----------------------------------------------------------------------------
\* claim_session_name_job: a receipt of another session does not count.
OwnReceipt == IF receipt.session = session THEN receipt ELSE [NoReceipt EXCEPT !.session = session]
Claimable == namer.pc = "sleep" /\ titles = [codex |-> NoName, user |-> NoName] /\ ~failed

\* Mutant: the attempt is only counted in memory.
Uncounted == OwnReceipt

\* The attempt is reserved in the store before the model is asked.
Reserved == [OwnReceipt EXCEPT !.attempts = @ + 1]

Claim ==
    /\ Claimable
    /\ IF OwnReceipt.attempts >= 2
       THEN failed' = TRUE /\ UNCHANGED <<namer, receipt>>
       ELSE /\ receipt' = Reserved
            /\ namer' = [pc |-> "read", session |-> session, receipt |-> Reserved]
            /\ UNCHANGED failed
    /\ UNCHANGED <<session, titles, codex, asked, nameFaults, renames>>

\* existing_name: the name in Codex, or the one generated before.
ReadExisting ==
    /\ namer.pc = "read"
    /\ LET existing == codex[namer.session]
           name == IF existing # NoName THEN existing ELSE namer.receipt.name
       IN namer' = [pc |-> IF name = NoName THEN "ask" ELSE "look", session |-> namer.session,
                    receipt |-> namer.receipt, name |-> name, fresh |-> existing = NoName]
    /\ UNCHANGED <<session, titles, failed, codex, receipt, asked, nameFaults, renames>>

AskModel ==
    /\ namer.pc = "ask"
    /\ asked' = [asked EXCEPT ![namer.session] = @ + 1]
    /\ namer' = [namer EXCEPT !.pc = "keep", !.name = "model", !.receipt.name = "model"]
    /\ UNCHANGED <<session, titles, failed, codex, receipt, nameFaults, renames>>

\* The answer is kept, so that a later attempt needs no model.
KeepAnswer ==
    /\ namer.pc = "keep"
    /\ IF session # namer.session THEN namer' = Sleeping /\ UNCHANGED receipt
       ELSE /\ receipt' = namer.receipt
            /\ namer' = [namer EXCEPT !.pc = "look"]
    /\ UNCHANGED <<session, titles, failed, codex, asked, nameFaults, renames>>

\* A name given meanwhile wins.
LookAgain ==
    /\ namer.pc = "look"
    /\ namer' = IF session # namer.session \/ titles.user # NoName \/ titles.codex # NoName
                THEN Sleeping
                ELSE [namer EXCEPT !.pc = IF namer.fresh THEN "save" ELSE "apply"]
    /\ UNCHANGED <<session, titles, failed, codex, receipt, asked, nameFaults, renames>>

SaveName ==
    /\ namer.pc = "save"
    /\ codex' = [codex EXCEPT ![namer.session] = namer.name]
    /\ namer' = [namer EXCEPT !.pc = "apply"]
    /\ UNCHANGED <<session, titles, failed, receipt, asked, nameFaults, renames>>

ApplyName ==
    /\ namer.pc = "apply"
    /\ IF session = namer.session /\ titles.codex = NoName
       THEN titles' = [titles EXCEPT !.codex = namer.name] /\ failed' = FALSE
       ELSE UNCHANGED <<titles, failed>>
    /\ namer' = Sleeping
    /\ UNCHANGED <<session, codex, receipt, asked, nameFaults, renames>>

\* process_session_name_job: the second failure is shown.
GiveUpNaming ==
    failed' = IF namer.receipt.attempts >= 2 /\ session = namer.session /\ titles.codex = NoName
              THEN TRUE ELSE failed

NamerFails ==
    /\ namer.pc \in {"read", "ask", "save"} /\ Fault
    /\ GiveUpNaming
    /\ asked' = IF namer.pc = "ask" THEN [asked EXCEPT ![namer.session] = @ + 1] ELSE asked
    /\ namer' = Sleeping
    /\ UNCHANGED <<session, titles, codex, receipt, renames>>

-----------------------------------------------------------------------------
\* Codex names a session by itself; a turn reports it (Title, ThreadReady, TurnCompleted).
CodexNames(s) ==
    /\ codex[s] = NoName
    /\ codex' = [codex EXCEPT ![s] = "codex"]
    /\ UNCHANGED <<session, titles, failed, receipt, namer, asked, nameFaults, renames>>

TitleEvent ==
    /\ codex[session] # NoName /\ codex[session] # titles.codex
    /\ titles' = [titles EXCEPT !.codex = codex[session]]
    /\ failed' \in {failed, FALSE}
    /\ UNCHANGED <<session, codex, receipt, namer, asked, nameFaults, renames>>

\* ThreadReady: the agent goes on in a new session, whose name it takes if it has one.
OtherSession(s) ==
    /\ s = session + 1
    /\ session' = s
    /\ titles' = IF codex[s] = NoName THEN titles ELSE [titles EXCEPT !.codex = codex[s]]
    /\ UNCHANGED <<failed, codex, receipt, namer, asked, nameFaults, renames>>

\* rename_agent: an empty title asks for another attempt.
RenameAgent(name) ==
    /\ renames < MaxRename /\ renames' = renames + 1
    /\ titles' = [titles EXCEPT !.user = name]
    /\ LET retry == name = NoName /\ failed IN
         /\ failed' = IF retry THEN FALSE ELSE failed
         /\ receipt' = IF retry THEN NoReceipt ELSE receipt
         /\ asked' = IF retry THEN [s \in Sessions |-> 0] ELSE asked
    /\ UNCHANGED <<session, codex, namer, nameFaults>>

\* RuntimeState::new reads the name from Codex again.
NamerRestarts ==
    /\ Fault
    /\ titles' = [titles EXCEPT !.codex = codex[session]]
    /\ namer' = Sleeping
    /\ UNCHANGED <<session, failed, codex, receipt, asked, renames>>

-----------------------------------------------------------------------------
NamerStep ==
    \/ Refresh \/ RefreshApplies \/ Claim \/ ReadExisting \/ AskModel \/ KeepAnswer
    \/ LookAgain \/ SaveName \/ ApplyName

NamesNext ==
    \/ NamerStep \/ NamerFails \/ TitleEvent \/ NamerRestarts
    \/ \E s \in Sessions : CodexNames(s) \/ OtherSession(s)
    \/ \E name \in {NoName, "user"} : RenameAgent(name)

NamesSpec == NamesInit /\ [][NamesNext]_nameVars

-----------------------------------------------------------------------------
\* The model is asked at most twice for a session, until the user asks for a retry,
\* whatever fails and however often the daemon restarts in the middle of an attempt
\* (claim_session_name_job).
ModelCallsBounded == \A s \in Sessions : asked[s] <= 2

=============================================================================
