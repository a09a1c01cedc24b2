--------------------------- MODULE Machine_proofs ---------------------------
(***************************************************************************)
(* Proofs about what the daemon keeps on its machine: the terminals of     *)
(* projects and the clones of repositories, for every set of projects,     *)
(* shells, threads, helpers and clones and every number of restarts.       *)
(***************************************************************************)
EXTENDS Terminals, ProjectClone, TLAPS

-----------------------------------------------------------------------------
\* Terminals.

RequestRecords ==
    {IdleRequest} \cup [pc : {"look", "spawn", "delete"}, project : Projects]
    \cup [pc : {"register"}, project : Projects, id : Shells]
    \cup [pc : {"answer", "close", "kill"}, id : Shells]
    \cup [pc : {"setup"}, id : Setups]

\* The types of the variables.
TerminalsTypeOK ==
    /\ projects \subseteq Projects
    /\ terminals \in [Shells -> Projects \cup {Free}]
    /\ byProject \in [Projects -> Shells \cup {Free}]
    /\ shell \in [Shells -> {"unused", "live", "exited"}]
    /\ setup \in [Setups -> {"unused", "live", "exited", "removed"}]
    /\ thread \in [Threads -> RequestRecords]
    /\ routed \subseteq Shells
    /\ maint \in [token : Tokens \cup {Free}, over : BOOLEAN]
    /\ locked \in BOOLEAN
    /\ owner \in Tokens \cup {Free}

\* A shell that a request is about to register is its own, and is not registered yet; one
\* that was not started is not registered.
RegistersOwn ==
    /\ \A h \in Threads : thread[h].pc = "register" =>
         /\ terminals[thread[h].id] = Free /\ shell[thread[h].id] # "unused"
         /\ \A g \in Threads : thread[g].pc = "register" /\ thread[g].id = thread[h].id => g = h
    /\ \A s \in Shells : shell[s] = "unused" => terminals[s] = Free

\* A helper whose begin was accepted under its lock keeps the admission closed.
OwnerHolds == owner # Free => locked /\ maint.token # Free

TerminalsInv ==
    /\ TerminalsTypeOK /\ RegistersOwn /\ OneTerminalPerProject
    /\ OwnerHolds /\ MaintenanceIsQuiet

-----------------------------------------------------------------------------
\* The fields of a request, by what it does.
LEMMA RequestFields ==
    ASSUME NEW r \in RequestRecords
    PROVE  /\ r.pc \in {"look", "spawn", "delete"} => r.project \in Projects
           /\ r.pc = "register" => r.project \in Projects /\ r.id \in Shells
           /\ r.pc \in {"answer", "close", "kill"} => r.id \in Shells
           /\ r.pc = "setup" => r.id \in Setups
<1>1. CASE r = IdleRequest
  BY <1>1 DEF IdleRequest
<1>2. CASE r \in [pc : {"look", "spawn", "delete"}, project : Projects]
  BY <1>2
<1>3. CASE r \in [pc : {"register"}, project : Projects, id : Shells]
  BY <1>3
<1>4. CASE r \in [pc : {"answer", "close", "kill"}, id : Shells]
  BY <1>4
<1>5. CASE r \in [pc : {"setup"}, id : Setups]
  BY <1>5
<1> QED
  BY <1>1, <1>2, <1>3, <1>4, <1>5 DEF RequestRecords

\* The requests that the actions write.
LEMMA RequestsWritten ==
    /\ IdleRequest \in RequestRecords /\ IdleRequest.pc = "idle"
    /\ \A p \in Projects :
         /\ [pc |-> "look", project |-> p] \in RequestRecords
         /\ [pc |-> "delete", project |-> p] \in RequestRecords
         /\ [pc |-> "spawn", project |-> p] \in RequestRecords
         /\ \A s \in Shells : [pc |-> "register", project |-> p, id |-> s] \in RequestRecords
    /\ \A s \in Shells :
         /\ [pc |-> "answer", id |-> s] \in RequestRecords
         /\ [pc |-> "close", id |-> s] \in RequestRecords
         /\ [pc |-> "kill", id |-> s] \in RequestRecords
    /\ \A s \in Setups : [pc |-> "setup", id |-> s] \in RequestRecords
  BY DEF RequestRecords, IdleRequest

\* While a request is in flight, or when one is admitted, no accepted helper waits.
LEMMA InFlight ==
    ASSUME TerminalsInv
    PROVE  /\ ~MaintActive => owner = Free
           /\ \A h \in Threads : thread[h].pc # "idle" => owner = Free
  BY DEF TerminalsInv, MaintenanceIsQuiet, OwnerHolds, MaintActive

\* A step that is not one of maintenance, when no accepted helper waits.
LEMMA NoOwner ==
    ASSUME TerminalsInv, owner = Free, UNCHANGED upgradeVars
    PROVE  OwnerHolds' /\ MaintenanceIsQuiet' /\ owner' \in Tokens \cup {Free}
  BY DEF upgradeVars, OwnerHolds, MaintenanceIsQuiet

\* What the lock holder sees of the registry after a reaping.
Reaping ==
    \/ UNCHANGED registry
    \/ terminals' = ReapedTerminals /\ byProject' = ReapedByProject

LEMMA ReapingTypes ==
    ASSUME TerminalsInv, Reaping
    PROVE  /\ terminals' \in [Shells -> Projects \cup {Free}]
           /\ byProject' \in [Projects -> Shells \cup {Free}]
           /\ \A s \in Shells : terminals'[s] = terminals[s]
                \/ (terminals'[s] = Free /\ shell[s] = "exited")
           /\ \A s \in Shells : terminals'[s] # Free => byProject'[terminals'[s]] = s
           /\ \A p \in Projects : byProject'[p] # Free => terminals'[byProject'[p]] = p
<1> USE TerminalsAssumption
<1>1. CASE UNCHANGED registry
  BY <1>1 DEF TerminalsInv, TerminalsTypeOK, registry, OneTerminalPerProject, Registered
<1>2. CASE terminals' = ReapedTerminals /\ byProject' = ReapedByProject
  <2> USE DEF TerminalsInv, TerminalsTypeOK
  <2>1. \A s \in Shells : terminals'[s] = IF s \in Reaped THEN Free ELSE terminals[s]
    BY <1>2 DEF ReapedTerminals
  <2>2. \A p \in Projects : byProject'[p] = IF byProject[p] \in Reaped THEN Free ELSE byProject[p]
    BY <1>2 DEF ReapedByProject
  <2>3. terminals' \in [Shells -> Projects \cup {Free}]
    BY <1>2 DEF ReapedTerminals
  <2>4. byProject' \in [Projects -> Shells \cup {Free}]
    BY <1>2 DEF ReapedByProject
  <2>5. \A s \in Shells : s \in Reaped => shell[s] = "exited"
    BY DEF Reaped
  <2>6. ASSUME NEW s \in Shells, terminals'[s] # Free
        PROVE  byProject'[terminals'[s]] = s
    BY <2>1, <2>2, <2>6 DEF OneTerminalPerProject, Registered
  <2>7. ASSUME NEW p \in Projects, byProject'[p] # Free
        PROVE  terminals'[byProject'[p]] = p
    BY <2>1, <2>2, <2>7 DEF OneTerminalPerProject, Registered
  <2> QED
    BY <2>1, <2>3, <2>4, <2>5, <2>6, <2>7
<1> QED
  BY <1>1, <1>2 DEF Reaping

\* A thread that neither registers nor kills a shell moves on, and does not come to
\* register one.
QuietMove(h, next) ==
    /\ thread[h].pc \notin {"register", "kill"}
    /\ next \in RequestRecords /\ next.pc # "register"
    /\ thread' = [thread EXCEPT ![h] = next]

\* Shells that run may exit.
ShellsExit == \A s \in Shells : shell'[s] = shell[s] \/ (shell[s] = "live" /\ shell'[s] = "exited")

LEMMA QuietMoveKeeps ==
    ASSUME TerminalsInv, Reaping, ShellsExit,
           \/ UNCHANGED thread
           \/ \E h \in Threads : \E next : QuietMove(h, next)
    PROVE  /\ thread' \in [Threads -> RequestRecords]
           /\ RegistersOwn' /\ OneTerminalPerProject'
<1> USE TerminalsAssumption
<1>1. /\ thread' \in [Threads -> RequestRecords]
      /\ \A h \in Threads :
           /\ thread'[h].pc = "register" => thread'[h] = thread[h]
           /\ thread[h].pc \in {"register", "kill"} => thread'[h] = thread[h]
  <2>1. CASE UNCHANGED thread
    BY <2>1 DEF TerminalsInv, TerminalsTypeOK
  <2>2. CASE \E h \in Threads : \E next : QuietMove(h, next)
    <3>1. PICK h \in Threads : \E next : QuietMove(h, next)
      BY <2>2
    <3>2. PICK next : QuietMove(h, next)
      BY <3>1
    <3> QED
      BY <3>2 DEF QuietMove, TerminalsInv, TerminalsTypeOK
  <2> QED
    BY <2>1, <2>2
<1>2. \A h \in Threads : thread[h].pc = "register" => thread[h].id \in Shells
  BY RequestFields DEF TerminalsInv, TerminalsTypeOK
<1>3. RegistersOwn'
  BY <1>1, <1>2, ReapingTypes DEF TerminalsInv, TerminalsTypeOK, RegistersOwn, ShellsExit
<1>4. \A s \in Shells : shell'[s] = "live" =>
         \/ terminals'[s] # Free
         \/ \E h \in Threads : thread'[h].pc \in {"register", "kill"} /\ thread'[h].id = s
  <2> SUFFICES ASSUME NEW s \in Shells, shell[s] = "live", terminals'[s] = Free
               PROVE  \E h \in Threads :
                        thread'[h].pc \in {"register", "kill"} /\ thread'[h].id = s
    BY DEF ShellsExit
  <2>1. terminals[s] = Free
    BY ReapingTypes
  <2>2. PICK h \in Threads : thread[h].pc \in {"register", "kill"} /\ thread[h].id = s
    BY <2>1 DEF TerminalsInv, OneTerminalPerProject, Registered
  <2> QED
    BY <1>1, <2>2
<1>5. OneTerminalPerProject'
  BY <1>4, ReapingTypes DEF OneTerminalPerProject, Registered
<1> QED
  BY <1>1, <1>3, <1>5

LEMMA SetupTypes ==
    ASSUME TerminalsInv
    PROVE  /\ ReapedSetup \in [Setups -> {"unused", "live", "exited", "removed"}]
           /\ \A s \in Setups : ReapedSetup[s] = "live" <=> setup[s] = "live"
           /\ \A s \in Setups : \A state \in {"live", "exited", "removed"} :
                [setup EXCEPT ![s] = state] \in [Setups -> {"unused", "live", "exited", "removed"}]
  BY DEF TerminalsInv, TerminalsTypeOK, ReapedSetup

\* Steps that leave the shells alone and admit, answer or drop a request.
LEMMA AdmitKeeps ==
    ASSUME TerminalsInv, NEW h \in Threads, NEW request \in RequestRecords,
           request.pc # "register", Admit(h, request), UNCHANGED <<registry, shell, upgradeVars>>,
           UNCHANGED <<projects, setup>>, routed' \subseteq routed
    PROVE  TerminalsInv'
<1>1. owner = Free
  BY InFlight DEF Admit
<1>2. QuietMove(h, request)
  BY DEF Admit, QuietMove, Do
<1>3. RegistersOwn' /\ OneTerminalPerProject' /\ thread' \in [Threads -> RequestRecords]
  BY <1>2, QuietMoveKeeps DEF Reaping, ShellsExit
<1>4. TerminalsTypeOK'
  BY <1>3 DEF TerminalsInv, TerminalsTypeOK, registry, upgradeVars
<1> QED
  BY <1>1, <1>3, <1>4, NoOwner DEF TerminalsInv

LEMMA RequestsKeep ==
    ASSUME TerminalsInv, NEW h \in Threads
    PROVE  /\ \A p \in Projects : OpenRequest(h, p) \/ DeleteRequest(h, p) => TerminalsInv'
           /\ \A s \in Setups : SetupRequest(h, s) => TerminalsInv'
<1>1. ASSUME NEW p \in Projects, OpenRequest(h, p)
      PROVE  TerminalsInv'
  BY <1>1, RequestsWritten, AdmitKeeps DEF OpenRequest
<1>2. ASSUME NEW p \in Projects, DeleteRequest(h, p)
      PROVE  TerminalsInv'
  BY <1>2, RequestsWritten, AdmitKeeps DEF DeleteRequest
<1>3. ASSUME NEW s \in Setups, SetupRequest(h, s)
      PROVE  TerminalsInv'
  BY <1>3, RequestsWritten, AdmitKeeps DEF SetupRequest
<1> QED
  BY <1>1, <1>2, <1>3

\* A thread that looks, answers, opens a setup terminal or gives up.
LEMMA ThreadEnds ==
    ASSUME TerminalsInv, NEW h \in Threads, thread[h].pc # "idle", NEW next, QuietMove(h, next),
           Reaping, UNCHANGED <<shell, upgradeVars, projects>>, routed' \subseteq Shells,
           setup' \in [Setups -> {"unused", "live", "exited", "removed"}]
    PROVE  TerminalsInv'
<1>1. owner = Free
  BY InFlight
<1>2. RegistersOwn' /\ OneTerminalPerProject' /\ thread' \in [Threads -> RequestRecords]
  BY QuietMoveKeeps DEF ShellsExit
<1>3. TerminalsTypeOK'
  BY <1>2, ReapingTypes DEF TerminalsInv, TerminalsTypeOK, upgradeVars
<1> QED
  BY <1>1, <1>2, <1>3, NoOwner DEF TerminalsInv

LEMMA OpenLooksKeeps ==
    ASSUME TerminalsInv, NEW h \in Threads, OpenLooks(h)
    PROVE  TerminalsInv'
<1> DEFINE p == thread[h].project
           next == IF p \notin projects THEN IdleRequest
                   ELSE IF ReapedByProject[p] # Free
                        THEN [pc |-> "answer", id |-> ReapedByProject[p]]
                        ELSE [pc |-> "spawn", project |-> p]
<1>1. p \in Projects
  BY RequestFields DEF OpenLooks, TerminalsInv, TerminalsTypeOK
<1>2. Reaping
  BY DEF OpenLooks, Reaping
<1>3. ReapedByProject[p] \in Shells \cup {Free}
  BY <1>1, <1>2, ReapingTypes DEF OpenLooks
<1>4. next \in RequestRecords /\ next.pc # "register"
  BY <1>1, <1>3, RequestsWritten
<1>5. thread' = [thread EXCEPT ![h] = next] /\ thread[h].pc = "look"
  BY DEF OpenLooks, Do
<1> HIDE DEF next
<1>6. QuietMove(h, next)
  BY <1>4, <1>5 DEF QuietMove
<1>7. setup' \in [Setups -> {"unused", "live", "exited", "removed"}] /\ routed' \subseteq Shells
  BY SetupTypes DEF OpenLooks, TerminalsInv, TerminalsTypeOK
<1> QED
  BY <1>2, <1>5, <1>6, <1>7, ThreadEnds DEF OpenLooks

LEMMA OpenAnsweredKeeps ==
    ASSUME TerminalsInv, NEW h \in Threads, OpenAnswered(h)
    PROVE  TerminalsInv'
<1>1. thread[h].id \in Shells /\ thread[h].pc = "answer"
  BY RequestFields DEF OpenAnswered, TerminalsInv, TerminalsTypeOK
<1>2. QuietMove(h, IdleRequest)
  BY <1>1, RequestsWritten DEF OpenAnswered, Done, Do, QuietMove
<1>3. routed' \subseteq Shells
  BY <1>1 DEF OpenAnswered, TerminalsInv, TerminalsTypeOK
<1>4. setup' \in [Setups -> {"unused", "live", "exited", "removed"}]
  BY DEF OpenAnswered, TerminalsInv, TerminalsTypeOK
<1> QED
  BY <1>1, <1>2, <1>3, <1>4, ThreadEnds DEF OpenAnswered, Reaping

LEMMA SetupOpensKeeps ==
    ASSUME TerminalsInv, NEW h \in Threads, SetupOpens(h)
    PROVE  TerminalsInv'
<1>1. thread[h].id \in Setups /\ thread[h].pc = "setup"
  BY RequestFields DEF SetupOpens, TerminalsInv, TerminalsTypeOK
<1>2. QuietMove(h, IdleRequest)
  BY <1>1, RequestsWritten DEF SetupOpens, Done, Do, QuietMove
<1>3. setup' \in [Setups -> {"unused", "live", "exited", "removed"}]
  BY <1>1, SetupTypes DEF SetupOpens, TerminalsInv, TerminalsTypeOK
<1>4. routed' \subseteq Shells
  BY DEF SetupOpens, TerminalsInv, TerminalsTypeOK
<1> QED
  BY <1>1, <1>2, <1>3, <1>4, ThreadEnds DEF SetupOpens, Reaping

\* A step of a thread that changes the shells or the registry: what it has to show.
LEMMA ThreadChanges ==
    ASSUME TerminalsInv, NEW h \in Threads, thread[h].pc # "idle",
           UNCHANGED <<setup, routed, upgradeVars>>, projects' \subseteq projects,
           NEW next \in RequestRecords, Do(h, next),
           terminals' \in [Shells -> Projects \cup {Free}],
           byProject' \in [Projects -> Shells \cup {Free}],
           shell' \in [Shells -> {"unused", "live", "exited"}],
           RegistersOwn', OneTerminalPerProject'
    PROVE  TerminalsInv'
<1>1. owner = Free
  BY InFlight
<1>2. thread' \in [Threads -> RequestRecords]
  BY DEF Do, TerminalsInv, TerminalsTypeOK
<1>3. TerminalsTypeOK'
  BY <1>2 DEF TerminalsInv, TerminalsTypeOK, upgradeVars
<1> QED
  BY <1>1, <1>3, NoOwner DEF TerminalsInv

LEMMA ThreadDoes ==
    ASSUME TerminalsInv, NEW h \in Threads, NEW next, Do(h, next)
    PROVE  thread'[h] = next /\ \A g \in Threads : g # h => thread'[g] = thread[g]
  BY DEF Do, TerminalsInv, TerminalsTypeOK

LEMMA RegisterIds ==
    ASSUME TerminalsInv
    PROVE  \A h \in Threads :
             /\ thread[h].pc = "register" => thread[h].id \in Shells /\ thread[h].project \in Projects
             /\ thread[h].pc \in {"close", "kill"} => thread[h].id \in Shells
             /\ thread[h].pc \in {"spawn", "delete"} => thread[h].project \in Projects
  BY RequestFields DEF TerminalsInv, TerminalsTypeOK

LEMMA OpenSpawnsKeeps ==
    ASSUME TerminalsInv, NEW h \in Threads, OpenSpawns(h)
    PROVE  TerminalsInv'
<1> DEFINE p == thread[h].project
<1>1. thread[h].pc = "spawn" /\ p \in Projects
  BY RegisterIds DEF OpenSpawns
<1>2. CASE Done(h) /\ UNCHANGED shell
  <2>1. QuietMove(h, IdleRequest)
    BY <1>1, <1>2, RequestsWritten DEF Done, Do, QuietMove
  <2>2. setup' \in [Setups -> {"unused", "live", "exited", "removed"}] /\ routed' \subseteq Shells
    BY DEF OpenSpawns, TerminalsInv, TerminalsTypeOK
  <2> QED
    BY <1>1, <1>2, <2>1, <2>2, ThreadEnds DEF OpenSpawns, Reaping
<1>3. ASSUME NEW s \in Shells, shell[s] = "unused", shell' = [shell EXCEPT ![s] = "live"],
             Do(h, [pc |-> "register", project |-> p, id |-> s])
      PROVE  TerminalsInv'
  <2> DEFINE next == [pc |-> "register", project |-> p, id |-> s]
  <2>1. next \in RequestRecords /\ next.pc = "register" /\ next.id = s
    BY <1>1, RequestsWritten
  <2> HIDE DEF next
  <2>2. Do(h, next)
    BY <1>3 DEF next
  <2>3. thread'[h] = next /\ \A g \in Threads : g # h => thread'[g] = thread[g]
    BY <2>2, ThreadDoes
  <2>4. UNCHANGED registry /\ terminals \in [Shells -> Projects \cup {Free}]
        /\ shell \in [Shells -> {"unused", "live", "exited"}]
        /\ byProject \in [Projects -> Shells \cup {Free}]
    BY DEF OpenSpawns, TerminalsInv, TerminalsTypeOK
  <2>5. terminals' = terminals /\ byProject' = byProject
    BY <2>4 DEF registry
  <2>6. \A x \in Shells : shell'[x] = IF x = s THEN "live" ELSE shell[x]
    BY <1>3, <2>4
  <2>7. RegistersOwn'
    BY <1>3, <2>1, <2>3, <2>5, <2>6, RegisterIds DEF RegistersOwn, TerminalsInv
  <2>8. OneTerminalPerProject'
    BY <1>1, <2>1, <2>3, <2>5, <2>6 DEF OneTerminalPerProject, Registered, TerminalsInv
  <2>9. shell' \in [Shells -> {"unused", "live", "exited"}]
    BY <1>3, <2>4
  <2> QED
    BY <1>1, <2>1, <2>2, <2>4, <2>5, <2>7, <2>8, <2>9, ThreadChanges DEF OpenSpawns
<1> QED
  BY <1>2, <1>3 DEF OpenSpawns

LEMMA OpenRegistersKeeps ==
    ASSUME TerminalsInv, NEW h \in Threads, OpenRegisters(h)
    PROVE  TerminalsInv'
<1> USE TerminalsAssumption
<1> DEFINE p == thread[h].project
           s == thread[h].id
<1>1. thread[h].pc = "register" /\ p \in Projects /\ s \in Shells
  BY RegisterIds DEF OpenRegisters
<1>2. /\ terminals \in [Shells -> Projects \cup {Free}]
      /\ byProject \in [Projects -> Shells \cup {Free}]
      /\ shell \in [Shells -> {"unused", "live", "exited"}]
  BY DEF TerminalsInv, TerminalsTypeOK
<1>3. terminals[s] = Free /\ shell[s] # "unused"
      /\ \A g \in Threads : thread[g].pc = "register" /\ thread[g].id = s => g = h
  BY <1>1 DEF TerminalsInv, RegistersOwn
<1>4. CASE byProject[p] # Free /\ Registered(byProject[p])
  <2> DEFINE next == [pc |-> "answer", id |-> byProject[p]]
  <2>1. next \in RequestRecords /\ next.pc = "answer"
    BY <1>1, <1>2, <1>4, RequestsWritten
  <2>2. Do(h, next) /\ shell' = [shell EXCEPT ![s] = "exited"] /\ UNCHANGED registry
    BY <1>4 DEF OpenRegisters
  <2> HIDE DEF next
  <2>3. thread'[h] = next /\ \A g \in Threads : g # h => thread'[g] = thread[g]
    BY <2>2, ThreadDoes
  <2>4. terminals' = terminals /\ byProject' = byProject
    BY <2>2 DEF registry
  <2>5. \A x \in Shells : shell'[x] = IF x = s THEN "exited" ELSE shell[x]
    BY <1>2, <2>2
  <2>6. RegistersOwn'
    BY <1>3, <2>1, <2>3, <2>4, <2>5, RegisterIds DEF RegistersOwn, TerminalsInv
  <2>7. OneTerminalPerProject'
    BY <1>3, <2>1, <2>3, <2>4, <2>5 DEF OneTerminalPerProject, Registered, TerminalsInv
  <2>8. shell' \in [Shells -> {"unused", "live", "exited"}]
    BY <1>2, <2>2
  <2> QED
    BY <1>1, <1>2, <2>1, <2>2, <2>4, <2>6, <2>7, <2>8, ThreadChanges DEF OpenRegisters
<1>5. CASE ~(byProject[p] # Free /\ Registered(byProject[p]))
  <2>1. byProject[p] = Free
    BY <1>1, <1>2, <1>5 DEF TerminalsInv, OneTerminalPerProject, Registered
  <2> DEFINE next == [pc |-> "answer", id |-> s]
  <2>2. next \in RequestRecords /\ next.pc = "answer"
    BY <1>1, RequestsWritten
  <2>3. /\ terminals' = [terminals EXCEPT ![s] = p]
        /\ byProject' = [byProject EXCEPT ![p] = s]
        /\ Do(h, next) /\ UNCHANGED shell
    BY <1>5 DEF OpenRegisters, Register
  <2> HIDE DEF next
  <2>4. thread'[h] = next /\ \A g \in Threads : g # h => thread'[g] = thread[g]
    BY <2>3, ThreadDoes
  <2>5. \A x \in Shells : terminals'[x] = IF x = s THEN p ELSE terminals[x]
    BY <1>2, <2>3
  <2>6. \A q \in Projects : byProject'[q] = IF q = p THEN s ELSE byProject[q]
    BY <1>2, <2>3
  <2>7. RegistersOwn'
    BY <1>1, <1>3, <2>2, <2>3, <2>4, <2>5, RegisterIds DEF RegistersOwn, TerminalsInv
  <2>8. \A x \in Shells : terminals'[x] # Free => byProject'[terminals'[x]] = x
    BY <1>1, <1>2, <2>1, <2>5, <2>6 DEF OneTerminalPerProject, Registered, TerminalsInv
  <2>9. \A q \in Projects : byProject'[q] # Free => terminals'[byProject'[q]] = q
    BY <1>1, <1>2, <1>3, <2>5, <2>6 DEF OneTerminalPerProject, Registered, TerminalsInv
  <2>10. \A x \in Shells : shell'[x] = "live" =>
           \/ terminals'[x] # Free
           \/ \E g \in Threads : thread'[g].pc \in {"register", "kill"} /\ thread'[g].id = x
    BY <1>1, <2>3, <2>4, <2>5 DEF OneTerminalPerProject, Registered, TerminalsInv
  <2>11. OneTerminalPerProject'
    BY <2>8, <2>9, <2>10 DEF OneTerminalPerProject, Registered
  <2>12. /\ terminals' \in [Shells -> Projects \cup {Free}]
         /\ byProject' \in [Projects -> Shells \cup {Free}]
    BY <1>1, <1>2, <2>3
  <2> QED
    BY <1>1, <1>2, <2>2, <2>3, <2>7, <2>11, <2>12, ThreadChanges DEF OpenRegisters
<1> QED
  BY <1>4, <1>5

LEMMA CloseRemovesKeeps ==
    ASSUME TerminalsInv, NEW h \in Threads, CloseRemoves(h)
    PROVE  TerminalsInv'
<1> USE TerminalsAssumption
<1> DEFINE s == thread[h].id
<1>1. thread[h].pc = "close" /\ s \in Shells
  BY RegisterIds DEF CloseRemoves
<1>2. /\ terminals \in [Shells -> Projects \cup {Free}]
      /\ byProject \in [Projects -> Shells \cup {Free}]
      /\ shell \in [Shells -> {"unused", "live", "exited"}]
  BY DEF TerminalsInv, TerminalsTypeOK
<1>3. UNCHANGED <<projects, shell, setup, routed, upgradeVars>>
  BY DEF CloseRemoves
<1>4. CASE ~Registered(s)
  <2>1. QuietMove(h, IdleRequest) /\ UNCHANGED registry
    BY <1>1, <1>4, RequestsWritten DEF CloseRemoves, Done, Do, QuietMove
  <2>2. setup' \in [Setups -> {"unused", "live", "exited", "removed"}] /\ routed' \subseteq Shells
    BY <1>3 DEF TerminalsInv, TerminalsTypeOK
  <2> QED
    BY <1>1, <1>3, <2>1, <2>2, ThreadEnds DEF Reaping
<1>5. CASE Registered(s)
  <2> DEFINE next == [pc |-> "kill", id |-> s]
             p == terminals[s]
  <2>1. next \in RequestRecords /\ next.pc = "kill" /\ next.id = s
    BY <1>1, RequestsWritten
  <2>2. /\ terminals' = [terminals EXCEPT ![s] = Free]
        /\ byProject' = [byProject EXCEPT ![p] = Free]
        /\ Do(h, next)
    BY <1>5 DEF CloseRemoves
  <2>3. p \in Projects /\ byProject[p] = s
    BY <1>1, <1>2, <1>5 DEF TerminalsInv, OneTerminalPerProject, Registered
  <2> HIDE DEF next, p
  <2>4. thread'[h] = next /\ \A g \in Threads : g # h => thread'[g] = thread[g]
    BY <2>2, ThreadDoes
  <2>5. \A x \in Shells : terminals'[x] = IF x = s THEN Free ELSE terminals[x]
    BY <1>2, <2>2
  <2>6. \A q \in Projects : byProject'[q] = IF q = p THEN Free ELSE byProject[q]
    BY <1>2, <2>2
  <2>7. RegistersOwn'
    BY <1>1, <1>3, <2>1, <2>4, <2>5, RegisterIds DEF RegistersOwn, TerminalsInv
  <2>8. \A x \in Shells : terminals'[x] # Free => byProject'[terminals'[x]] = x
    BY <1>1, <1>2, <2>3, <2>5, <2>6 DEF OneTerminalPerProject, Registered, TerminalsInv
  <2>9. \A q \in Projects : byProject'[q] # Free => terminals'[byProject'[q]] = q
    <3> SUFFICES ASSUME NEW q \in Projects, byProject'[q] # Free
                 PROVE  terminals'[byProject'[q]] = q
      OBVIOUS
    <3>1. q # p /\ byProject'[q] = byProject[q] /\ byProject[q] \in Shells
      BY <1>2, <2>6
    <3>2. terminals[byProject[q]] = q
      BY <3>1 DEF OneTerminalPerProject, TerminalsInv
    <3>3. byProject[q] # s
      BY <3>1, <3>2 DEF p
    <3> QED
      BY <2>5, <3>1, <3>2, <3>3
  <2>10. \A x \in Shells : shell'[x] = "live" =>
           \/ terminals'[x] # Free
           \/ \E g \in Threads : thread'[g].pc \in {"register", "kill"} /\ thread'[g].id = x
    BY <1>1, <1>3, <2>1, <2>4, <2>5 DEF OneTerminalPerProject, Registered, TerminalsInv
  <2>11. OneTerminalPerProject'
    BY <2>8, <2>9, <2>10 DEF OneTerminalPerProject, Registered
  <2>12. /\ terminals' \in [Shells -> Projects \cup {Free}]
         /\ byProject' \in [Projects -> Shells \cup {Free}]
    BY <1>1, <1>2, <2>2
  <2> QED
    BY <1>1, <1>2, <1>3, <2>1, <2>2, <2>7, <2>11, <2>12, ThreadChanges
<1> QED
  BY <1>4, <1>5

LEMMA CloseKillsKeeps ==
    ASSUME TerminalsInv, NEW h \in Threads, CloseKills(h)
    PROVE  TerminalsInv'
<1> DEFINE s == thread[h].id
<1>1. thread[h].pc = "kill" /\ s \in Shells
  BY RegisterIds DEF CloseKills
<1>2. /\ terminals \in [Shells -> Projects \cup {Free}]
      /\ byProject \in [Projects -> Shells \cup {Free}]
      /\ shell \in [Shells -> {"unused", "live", "exited"}]
  BY DEF TerminalsInv, TerminalsTypeOK
<1>3. UNCHANGED <<projects, registry, setup, routed, upgradeVars>> /\ Do(h, IdleRequest)
      /\ shell' = [shell EXCEPT ![s] = "exited"]
  BY DEF CloseKills, Done
<1>4. terminals' = terminals /\ byProject' = byProject
  BY <1>3 DEF registry
<1>5. thread'[h] = IdleRequest /\ \A g \in Threads : g # h => thread'[g] = thread[g]
  BY <1>3, ThreadDoes
<1>6. \A x \in Shells : shell'[x] = IF x = s THEN "exited" ELSE shell[x]
  BY <1>2, <1>3
<1>7. RegistersOwn'
  BY <1>4, <1>5, <1>6, RegisterIds, RequestsWritten DEF RegistersOwn, TerminalsInv
<1>8. OneTerminalPerProject'
  BY <1>4, <1>5, <1>6 DEF OneTerminalPerProject, Registered, TerminalsInv
<1>9. shell' \in [Shells -> {"unused", "live", "exited"}]
  BY <1>2, <1>3
<1> QED
  BY <1>1, <1>2, <1>3, <1>4, <1>7, <1>8, <1>9, RequestsWritten, ThreadChanges

LEMMA DeleteProjectKeeps ==
    ASSUME TerminalsInv, NEW h \in Threads, DeleteProject(h)
    PROVE  TerminalsInv'
<1> USE TerminalsAssumption
<1> DEFINE p == thread[h].project
           s == byProject[p]
<1>1. thread[h].pc = "delete" /\ p \in Projects
  BY RegisterIds DEF DeleteProject
<1>2. /\ terminals \in [Shells -> Projects \cup {Free}]
      /\ byProject \in [Projects -> Shells \cup {Free}]
      /\ shell \in [Shells -> {"unused", "live", "exited"}]
  BY DEF TerminalsInv, TerminalsTypeOK
<1>3. UNCHANGED <<setup, routed, upgradeVars>> /\ Do(h, IdleRequest)
  BY DEF DeleteProject, Done
<1>4. CASE p \notin projects
  <2>1. QuietMove(h, IdleRequest) /\ UNCHANGED <<projects, registry, shell>>
    BY <1>1, <1>3, <1>4, RequestsWritten DEF DeleteProject, Do, QuietMove
  <2>2. setup' \in [Setups -> {"unused", "live", "exited", "removed"}] /\ routed' \subseteq Shells
    BY <1>3 DEF TerminalsInv, TerminalsTypeOK
  <2> QED
    BY <1>1, <1>3, <2>1, <2>2, ThreadEnds DEF Reaping
<1>5. CASE p \in projects
  <2>1. /\ projects' \subseteq projects
        /\ byProject' = [byProject EXCEPT ![p] = Free]
        /\ terminals' = [x \in Shells |-> IF x = s THEN Free ELSE terminals[x]]
        /\ shell' = [x \in Shells |-> IF x = s THEN "exited" ELSE shell[x]]
    BY <1>5 DEF DeleteProject
  <2>2. thread'[h] = IdleRequest /\ \A g \in Threads : g # h => thread'[g] = thread[g]
    BY <1>3, ThreadDoes
  <2>3. \A x \in Shells : /\ terminals'[x] = IF x = s THEN Free ELSE terminals[x]
                          /\ shell'[x] = IF x = s THEN "exited" ELSE shell[x]
    BY <2>1
  <2>4. \A q \in Projects : byProject'[q] = IF q = p THEN Free ELSE byProject[q]
    BY <1>2, <2>1
  <2>5. s # Free => s \in Shells /\ terminals[s] = p
    BY <1>1, <1>2 DEF TerminalsInv, OneTerminalPerProject
  <2>6. \A q \in Projects : q # p /\ byProject[q] # Free => byProject[q] # s
    BY <1>1, <2>5 DEF TerminalsInv, OneTerminalPerProject
  <2> HIDE DEF s
  <2>7. RegistersOwn'
    BY <1>1, <2>2, <2>3, RegisterIds, RequestsWritten DEF RegistersOwn, TerminalsInv
  <2>8. \A x \in Shells : terminals'[x] # Free => byProject'[terminals'[x]] = x
    <3> SUFFICES ASSUME NEW x \in Shells, terminals'[x] # Free
                 PROVE  byProject'[terminals'[x]] = x
      OBVIOUS
    <3>1. x # s /\ terminals'[x] = terminals[x] /\ terminals[x] \in Projects
      BY <1>2, <2>3
    <3>2. byProject[terminals[x]] = x
      BY <3>1 DEF OneTerminalPerProject, Registered, TerminalsInv
    <3>3. terminals[x] # p
      BY <3>1, <3>2 DEF s
    <3> QED
      BY <2>4, <3>1, <3>2, <3>3
  <2>9. \A q \in Projects : byProject'[q] # Free => terminals'[byProject'[q]] = q
    BY <1>2, <2>3, <2>4, <2>6 DEF OneTerminalPerProject, TerminalsInv
  <2>10. \A x \in Shells : shell'[x] = "live" =>
           \/ terminals'[x] # Free
           \/ \E g \in Threads : thread'[g].pc \in {"register", "kill"} /\ thread'[g].id = x
    BY <1>1, <2>2, <2>3 DEF OneTerminalPerProject, Registered, TerminalsInv
  <2>11. OneTerminalPerProject'
    BY <2>8, <2>9, <2>10 DEF OneTerminalPerProject, Registered
  <2>12. /\ terminals' \in [Shells -> Projects \cup {Free}]
         /\ byProject' \in [Projects -> Shells \cup {Free}]
         /\ shell' \in [Shells -> {"unused", "live", "exited"}]
    BY <1>1, <1>2, <2>1
  <2> QED
    BY <1>1, <1>3, <2>1, <2>7, <2>11, <2>12, RequestsWritten, ThreadChanges
<1> QED
  BY <1>4, <1>5

\* Steps in which no thread moves and the registry is only reaped.
LEMMA NoThreadMoves ==
    ASSUME TerminalsInv, Reaping, ShellsExit, UNCHANGED <<thread, projects>>,
           routed' \subseteq Shells,
           setup' \in [Setups -> {"unused", "live", "exited", "removed"}],
           shell' \in [Shells -> {"unused", "live", "exited"}],
           maint' \in [token : Tokens \cup {Free}, over : BOOLEAN], locked' \in BOOLEAN,
           OwnerHolds',
           \/ owner' = Free
           \/ owner' = owner /\ \A s \in Setups : setup'[s] = "live" => setup[s] = "live"
    PROVE  TerminalsInv'
<1> USE TerminalsAssumption
<1>1. RegistersOwn' /\ OneTerminalPerProject' /\ thread' \in [Threads -> RequestRecords]
  BY QuietMoveKeeps
<1>2. TerminalsTypeOK'
  BY <1>1, ReapingTypes DEF TerminalsInv, TerminalsTypeOK
<1>3. CASE owner' = Free
  BY <1>1, <1>2, <1>3 DEF TerminalsInv, MaintenanceIsQuiet
<1>4. CASE owner' = owner /\ owner # Free /\ \A s \in Setups : setup'[s] = "live" => setup[s] = "live"
  <2>1. \A s \in Shells : terminals'[s] = Free /\ shell'[s] # "live"
    BY <1>4, ReapingTypes DEF TerminalsInv, MaintenanceIsQuiet, Registered, ShellsExit
  <2>2. MaintenanceIsQuiet'
    BY <1>4, <2>1 DEF TerminalsInv, MaintenanceIsQuiet, Registered
  <2> QED
    BY <1>1, <1>2, <2>2 DEF TerminalsInv
<1> QED
  BY <1>3, <1>4

LEMMA ShellExitsKeeps ==
    ASSUME TerminalsInv, NEW s \in Shells, ShellExits(s)
    PROVE  TerminalsInv'
<1>1. /\ UNCHANGED <<projects, registry, setup, thread, routed, upgradeVars>>
      /\ shell' = [shell EXCEPT ![s] = "exited"] /\ shell[s] = "live"
  BY DEF ShellExits
<1>2. shell' \in [Shells -> {"unused", "live", "exited"}] /\ ShellsExit
  BY <1>1 DEF TerminalsInv, TerminalsTypeOK, ShellsExit
<1>3. /\ routed' \subseteq Shells /\ setup' \in [Setups -> {"unused", "live", "exited", "removed"}]
      /\ maint' \in [token : Tokens \cup {Free}, over : BOOLEAN] /\ locked' \in BOOLEAN
      /\ OwnerHolds' /\ owner' = owner
  BY <1>1 DEF TerminalsInv, TerminalsTypeOK, upgradeVars, OwnerHolds
<1> QED
  BY <1>1, <1>2, <1>3, NoThreadMoves DEF Reaping

LEMMA CloseRequestKeeps ==
    ASSUME TerminalsInv, NEW s \in Shells, CloseRequest(s)
    PROVE  TerminalsInv'
<1>1. routed' \subseteq routed /\ UNCHANGED <<projects, registry, shell, setup, upgradeVars>>
  BY DEF CloseRequest
<1>2. ASSUME NEW h \in Threads, Admit(h, [pc |-> "close", id |-> s])
      PROVE  TerminalsInv'
  BY <1>1, <1>2, RequestsWritten, AdmitKeeps
<1>3. CASE UNCHANGED thread
  <2>1. /\ routed' \subseteq Shells /\ setup' \in [Setups -> {"unused", "live", "exited", "removed"}]
        /\ shell' \in [Shells -> {"unused", "live", "exited"}]
        /\ maint' \in [token : Tokens \cup {Free}, over : BOOLEAN] /\ locked' \in BOOLEAN
        /\ OwnerHolds' /\ owner' = owner
    BY <1>1 DEF TerminalsInv, TerminalsTypeOK, upgradeVars, OwnerHolds
  <2> QED
    BY <1>1, <1>3, <2>1, NoThreadMoves DEF Reaping, ShellsExit
<1> QED
  BY <1>2, <1>3 DEF CloseRequest

LEMMA SetupChangesKeep ==
    ASSUME TerminalsInv, NEW s \in Setups, SetupExits(s) \/ SetupCloses(s)
    PROVE  TerminalsInv'
<1>1. UNCHANGED <<projects, registry, shell, thread, routed, upgradeVars>>
  BY DEF SetupExits, SetupCloses
<1>2. PICK state \in {"exited", "removed"} : setup' = [setup EXCEPT ![s] = state]
  BY DEF SetupExits, SetupCloses
<1>3. /\ setup' \in [Setups -> {"unused", "live", "exited", "removed"}]
      /\ \A x \in Setups : setup'[x] = "live" => setup[x] = "live"
  BY <1>2 DEF TerminalsInv, TerminalsTypeOK
<1>4. /\ routed' \subseteq Shells /\ shell' \in [Shells -> {"unused", "live", "exited"}]
      /\ maint' \in [token : Tokens \cup {Free}, over : BOOLEAN] /\ locked' \in BOOLEAN
      /\ OwnerHolds' /\ owner' = owner
  BY <1>1 DEF TerminalsInv, TerminalsTypeOK, upgradeVars, OwnerHolds
<1> QED
  BY <1>1, <1>3, <1>4, NoThreadMoves DEF Reaping, ShellsExit

\* The routes are lost, the lease ends, a helper cancels, or the lock changes hands.
LEMMA UpgradeChangesKeep ==
    ASSUME TerminalsInv,
           \/ RoutesLost \/ LeaseEnds \/ LockChanges
           \/ \E k \in Tokens : MaintCancel(k)
    PROVE  TerminalsInv'
<1>1. /\ UNCHANGED <<projects, registry, shell, setup, thread>> /\ routed' \in {routed, {}}
      /\ \/ UNCHANGED upgradeVars
         \/ maint' = [maint EXCEPT !.over = TRUE] /\ UNCHANGED <<locked, owner>>
         \/ locked' = ~locked /\ owner' = Free /\ UNCHANGED maint
         \/ maint' = NoMaint /\ owner' = Free /\ UNCHANGED locked
  BY DEF RoutesLost, LeaseEnds, LockChanges, MaintCancel
<1>2. /\ NoMaint \in [token : Tokens \cup {Free}, over : BOOLEAN]
      /\ \A m \in [token : Tokens \cup {Free}, over : BOOLEAN] :
           /\ [m EXCEPT !.over = TRUE] \in [token : Tokens \cup {Free}, over : BOOLEAN]
           /\ [m EXCEPT !.over = TRUE].token = m.token
  BY DEF NoMaint
<1>3. maint \in [token : Tokens \cup {Free}, over : BOOLEAN] /\ locked \in BOOLEAN
  BY DEF TerminalsInv, TerminalsTypeOK
<1>4. maint' \in [token : Tokens \cup {Free}, over : BOOLEAN] /\ locked' \in BOOLEAN
  BY <1>1, <1>2, <1>3 DEF upgradeVars
<1>5. OwnerHolds' /\ (owner' = Free \/ owner' = owner)
  BY <1>1, <1>2, <1>3 DEF TerminalsInv, OwnerHolds, upgradeVars
<1>6. /\ routed' \subseteq Shells /\ shell' \in [Shells -> {"unused", "live", "exited"}]
      /\ setup' \in [Setups -> {"unused", "live", "exited", "removed"}]
  BY <1>1 DEF TerminalsInv, TerminalsTypeOK
<1> QED
  BY <1>1, <1>4, <1>5, <1>6, NoThreadMoves DEF Reaping, ShellsExit

LEMMA MaintBeginKeeps ==
    ASSUME TerminalsInv, NEW k \in Tokens, MaintBegin(k)
    PROVE  TerminalsInv'
<1> USE TerminalsAssumption
<1>1. /\ UNCHANGED <<projects, thread, routed, locked>> /\ setup' = ReapedSetup
      /\ routed' \subseteq Shells /\ locked' \in BOOLEAN
  BY DEF MaintBegin, TerminalsInv, TerminalsTypeOK
<1>2. /\ setup' \in [Setups -> {"unused", "live", "exited", "removed"}]
      /\ \A s \in Setups : setup'[s] = "live" => setup[s] = "live"
  BY <1>1, SetupTypes
<1>3. CASE UNCHANGED <<shell, maint, owner>> /\ Reaping
  <2>1. /\ shell' \in [Shells -> {"unused", "live", "exited"}]
        /\ maint' \in [token : Tokens \cup {Free}, over : BOOLEAN] /\ OwnerHolds'
    BY <1>1, <1>3 DEF TerminalsInv, TerminalsTypeOK, OwnerHolds
  <2> QED
    BY <1>1, <1>2, <1>3, <2>1, NoThreadMoves DEF ShellsExit
<1>4. ASSUME NEW dead \in SUBSET {s \in Shells : shell[s] = "live" /\ Registered(s)}, Reaping,
             shell' = [s \in Shells |-> IF s \in dead THEN "exited" ELSE shell[s]],
             maint' = NoMaint, owner' = Free
      PROVE  TerminalsInv'
  <2>1. shell' \in [Shells -> {"unused", "live", "exited"}] /\ ShellsExit
    BY <1>4 DEF TerminalsInv, TerminalsTypeOK, ShellsExit
  <2>2. maint' \in [token : Tokens \cup {Free}, over : BOOLEAN] /\ OwnerHolds'
    BY <1>4 DEF NoMaint, OwnerHolds
  <2> QED
    BY <1>1, <1>2, <1>4, <2>1, <2>2, NoThreadMoves
<1>5. ASSUME ~Busy, terminals' = [s \in Shells |-> Free], byProject' = [p \in Projects |-> Free],
             shell' = [s \in Shells |-> IF Registered(s) THEN "exited" ELSE shell[s]],
             maint' = [token |-> k, over |-> FALSE], owner' = IF locked THEN k ELSE owner
      PROVE  TerminalsInv'
  <2>1. \A h \in Threads : thread'[h] = thread[h] /\ thread[h].pc = "idle"
    BY <1>1, <1>5 DEF Busy
  <2>2. \A s \in Setups : setup'[s] # "live"
    BY <1>1, <1>5 DEF Busy
  <2>3. \A s \in Shells : terminals'[s] = Free /\ shell'[s] # "live"
    BY <1>5, <2>1 DEF TerminalsInv, OneTerminalPerProject
  <2>4. RegistersOwn'
    BY <2>1, <2>3 DEF RegistersOwn
  <2>5. OneTerminalPerProject'
    BY <1>5, <2>3 DEF OneTerminalPerProject, Registered
  <2>6. MaintenanceIsQuiet'
    BY <2>1, <2>2, <2>3 DEF MaintenanceIsQuiet, Registered
  <2>7. OwnerHolds' /\ owner' \in Tokens \cup {Free}
    BY <1>1, <1>5 DEF OwnerHolds, TerminalsInv, TerminalsTypeOK
  <2>8. /\ shell' \in [Shells -> {"unused", "live", "exited"}]
        /\ maint' \in [token : Tokens \cup {Free}, over : BOOLEAN]
    BY <1>5 DEF TerminalsInv, TerminalsTypeOK
  <2>9. TerminalsTypeOK'
    BY <1>1, <1>2, <1>5, <2>7, <2>8 DEF TerminalsInv, TerminalsTypeOK
  <2> QED
    BY <2>4, <2>5, <2>6, <2>7, <2>9 DEF TerminalsInv
<1> QED
  BY <1>3, <1>4, <1>5 DEF MaintBegin, Reaping

LEMMA TerminalsNextKeeps ==
    ASSUME TerminalsInv, [TerminalsNext]_terminalVars
    PROVE  TerminalsInv'
<1>1. CASE UNCHANGED terminalVars
  <2>1. /\ Reaping /\ ShellsExit /\ UNCHANGED <<thread, projects>> /\ owner' = owner
        /\ UNCHANGED <<setup, shell, routed, maint, locked>>
    BY <1>1 DEF terminalVars, Reaping, registry, ShellsExit
  <2>2. /\ routed' \subseteq Shells /\ shell' \in [Shells -> {"unused", "live", "exited"}]
        /\ setup' \in [Setups -> {"unused", "live", "exited", "removed"}]
        /\ maint' \in [token : Tokens \cup {Free}, over : BOOLEAN] /\ locked' \in BOOLEAN
        /\ OwnerHolds'
    BY <2>1 DEF TerminalsInv, TerminalsTypeOK, OwnerHolds
  <2> QED
    BY <2>1, <2>2, NoThreadMoves
<1>2. ASSUME NEW h \in Threads, ThreadStep(h)
      PROVE  TerminalsInv'
  BY <1>2, OpenLooksKeeps, OpenSpawnsKeeps, OpenRegistersKeeps, OpenAnsweredKeeps, CloseRemovesKeeps,
     CloseKillsKeeps, DeleteProjectKeeps, SetupOpensKeeps DEF ThreadStep
<1> QED
  BY <1>1, <1>2, RequestsKeep, CloseRequestKeeps, ShellExitsKeeps, SetupChangesKeep,
     MaintBeginKeeps, UpgradeChangesKeep DEF TerminalsNext

LEMMA TerminalsInitially ==
    ASSUME TerminalsInit
    PROVE  TerminalsInv
<1>1. TerminalsTypeOK
  BY RequestsWritten DEF TerminalsInit, TerminalsTypeOK, NoMaint
<1>2. \A h \in Threads : thread[h].pc = "idle"
  BY RequestsWritten DEF TerminalsInit
<1>3. RegistersOwn
  BY <1>2 DEF TerminalsInit, RegistersOwn
<1>4. OneTerminalPerProject
  BY DEF TerminalsInit, OneTerminalPerProject, Registered
<1>5. OwnerHolds /\ MaintenanceIsQuiet
  BY DEF TerminalsInit, OwnerHolds, MaintenanceIsQuiet
<1> QED
  BY <1>1, <1>3, <1>4, <1>5 DEF TerminalsInv

LEMMA TerminalsInvariant == TerminalsSpec => []TerminalsInv
  BY TerminalsInitially, TerminalsNextKeeps, PTL DEF TerminalsSpec

\* The two maps of open_project_terminal agree and no shell that runs is lost, for any
\* number of projects, shells and racing requests, and across maintenance that succeeds or
\* fails half way.
THEOREM ProjectsHaveOneTerminal == TerminalsSpec => []OneTerminalPerProject
  BY TerminalsInvariant, PTL DEF TerminalsInv

\* A helper whose begin was accepted under its lock finds the daemon at rest until it
\* cancels, for any number of helpers and of requests that arrive late.
THEOREM AcceptedHelpersFindRest == TerminalsSpec => []MaintenanceIsQuiet
  BY TerminalsInvariant, PTL DEF TerminalsInv

-----------------------------------------------------------------------------
\* Clones.

CloneRecords ==
    [phase : TerminalPhases \cup {"unknown", "Validating", "Cloning", "Configuring"},
     cancelled : BOOLEAN, owned : Nat, ready : BOOLEAN,
     worker : {"none", "validate", "reserve", "spawn", "clone", "check", "fail", "remove", "finish",
               "register"},
     verified : BOOLEAN, leftover : BOOLEAN]

\* The types of the variables.
CloneTypeOK ==
    /\ clone \in [Clones -> CloneRecords]
    /\ dir \in [inode : Nat, kind : {"none", "partial", "repo", "user"}]
    /\ inodes \in Nat /\ restarts \in Nat
    /\ git \in [Clones -> Nat]
    /\ project \in Clones \cup {NoClone}
    /\ swapped \in BOOLEAN

\* A clone that has ended, or is not known, has no worker, and a checkout that is kept is in
\* the hands of its registration or of nobody.
Stage(c) ==
    /\ c.phase \in TerminalPhases \cup {"unknown"} => c.worker = "none"
    /\ c.phase = "unknown" => c.ready = FALSE
    /\ c.ready = TRUE => c.worker \in {"none", "finish", "register"}
    /\ c.worker \in {"finish", "register"} => c.ready = TRUE

Stages == \A o \in Clones : Stage(clone[o])

\* Inodes are used once, and two clones never own the same one.
InodesOwned ==
    /\ dir.inode <= inodes
    /\ \A o \in Clones : clone[o].owned <= inodes
    /\ \A o, x \in Clones : clone[o].owned # NoInode /\ clone[o].owned = clone[x].owned => o = x

\* A git group outlives its worker only when the daemon has restarted.
GitHasWorker ==
    restarts = 0 => \A o \in Clones : git[o] # NoInode => clone[o].worker = "clone"

\* A worker about to remove the destination still owns it, unless the user was faster.
RemovalInv == swapped = FALSE => \A o \in Clones : clone[o].worker = "remove" => Owns(o)

CloneInv == CloneTypeOK /\ Stages /\ InodesOwned /\ GitHasWorker /\ RemovalInv /\ OutcomeIsTrue

-----------------------------------------------------------------------------
LEMMA UnknownClone ==
    /\ Unknown \in CloneRecords /\ Stage(Unknown)
    /\ Unknown.phase = "unknown" /\ Unknown.owned = NoInode /\ Unknown.worker = "none"
    /\ NoDir \in [inode : Nat, kind : {"none", "partial", "repo", "user"}]
    /\ NoDir.inode = NoInode /\ NoDir.kind = "none"
  BY DEF Unknown, CloneRecords, Stage, NoDir, NoInode, TerminalPhases

\* One operation changes, and nothing else but its own git and, once its worker has looked
\* at it, the directory.
Moves(o) ==
    /\ clone' \in [Clones -> CloneRecords]
    /\ \A x \in Clones : x # o => clone'[x] = clone[x]
    /\ clone'[o].owned = clone[o].owned
    /\ clone[o].phase # "Completed"
    /\ Stage(clone'[o])
    /\ dir' = dir \/ (dir' = NoDir /\ clone[o].worker = "remove")
    /\ clone'[o].worker = "remove" => Owns(o) /\ dir' = dir
    /\ git' \in [Clones -> Nat] /\ \A x \in Clones : x # o => git'[x] = git[x]
    /\ restarts = 0 /\ git'[o] # NoInode => clone'[o].worker = "clone"
    /\ clone'[o].phase \in TerminalPhases =>
         \/ clone'[o].ready = TRUE \/ clone'[o].leftover = TRUE
         \/ clone'[o].owned = NoInode \/ clone'[o].owned # dir'.inode
    /\ UNCHANGED <<inodes, project, restarts, swapped>>

LEMMA MovesKeeps ==
    ASSUME CloneInv, NEW o \in Clones, Moves(o)
    PROVE  CloneInv'
<1>1. /\ dir' \in [inode : Nat, kind : {"none", "partial", "repo", "user"}]
      /\ dir'.inode <= inodes
  BY UnknownClone DEF CloneInv, CloneTypeOK, InodesOwned, Moves, NoInode
<1>2. CloneTypeOK'
  BY <1>1 DEF CloneInv, CloneTypeOK, Moves
<1>3. Stages'
  BY DEF CloneInv, Stages, Moves
<1>4. \A x \in Clones : clone'[x].owned = clone[x].owned
  BY DEF Moves
<1>5. InodesOwned'
  BY <1>1, <1>4 DEF CloneInv, InodesOwned, Moves
<1>6. GitHasWorker'
  BY DEF CloneInv, GitHasWorker, Moves
<1>7. project # NoClone =>
        /\ clone'[project].phase = "Completed"
        /\ swapped = FALSE => dir'.inode = clone'[project].owned /\ dir'.kind = "repo"
  <2> SUFFICES ASSUME project # NoClone
               PROVE  /\ clone'[project].phase = "Completed"
                      /\ swapped = FALSE =>
                           dir'.inode = clone'[project].owned /\ dir'.kind = "repo"
    OBVIOUS
  <2>1. /\ project \in Clones /\ clone[project].phase = "Completed"
        /\ swapped = FALSE => dir.inode = clone[project].owned /\ dir.kind = "repo"
    BY DEF CloneInv, CloneTypeOK, OutcomeIsTrue
  <2>2. project # o /\ clone'[project] = clone[project]
    BY <2>1 DEF Moves
  <2>3. swapped = FALSE => clone[o].worker # "remove"
    BY <2>1, <2>2 DEF Owns, CloneInv, InodesOwned, RemovalInv
  <2> QED
    BY <2>1, <2>2, <2>3 DEF Moves
<1>8. ASSUME restarts = 0, NEW x \in Clones, clone'[x].phase \in TerminalPhases
      PROVE  /\ git'[x] = NoInode
             /\ clone'[x].owned # NoInode /\ clone'[x].owned = dir'.inode =>
                  clone'[x].ready \/ clone'[x].leftover
  <2>1. CASE x = o
    BY <1>8, <2>1 DEF Moves, Stage
  <2>2. CASE x # o
    <3>1. clone'[x] = clone[x] /\ git'[x] = git[x]
      BY <2>2 DEF Moves
    <3>2. clone[x].owned # NoInode /\ clone[x].owned = dir'.inode => clone[x].owned = dir.inode
      BY UnknownClone DEF Moves
    <3> QED
      BY <1>8, <3>1, <3>2 DEF CloneInv, OutcomeIsTrue, Owns
  <2> QED
    BY <2>1, <2>2
<1>9. OutcomeIsTrue'
  BY <1>7, <1>8 DEF OutcomeIsTrue, Owns, Moves, CloneInv, CloneTypeOK
<1>10. ASSUME swapped = FALSE, NEW x \in Clones, clone'[x].worker = "remove"
       PROVE  clone'[x].owned # NoInode /\ clone'[x].owned = dir'.inode
  <2>1. CASE x = o
    BY <1>4, <1>10, <2>1 DEF Moves, Owns
  <2>2. CASE x # o
    <3>1. clone[x].worker = "remove" /\ Owns(x)
      BY <1>10, <2>2 DEF Moves, CloneInv, RemovalInv
    <3>2. clone[o].worker # "remove"
      BY <1>10, <2>2, <3>1 DEF CloneInv, RemovalInv, InodesOwned, Owns
    <3> QED
      BY <1>4, <3>1, <3>2 DEF Moves, Owns
  <2> QED
    BY <2>1, <2>2
<1>11. RemovalInv'
  BY <1>10 DEF RemovalInv, Owns, Moves
<1> QED
  BY <1>2, <1>3, <1>5, <1>6, <1>9, <1>11 DEF CloneInv

\* What is removed before the user has meddled is the clone's own partial checkout.
LEMMA RemovalIsOwn ==
    ASSUME CloneInv
    PROVE  RemovesOwnPartial
<1> SUFFICES ASSUME NEW o \in Clones, RemovePartial(o), ~swapped
             PROVE  Owns(o) /\ ~clone[o].ready /\ \A x \in Clones \ {o} : ~Owns(x)
  BY DEF RemovesOwnPartial
<1>1. clone[o].worker = "remove"
  BY DEF RemovePartial
<1>2. Owns(o)
  BY <1>1 DEF CloneInv, CloneTypeOK, RemovalInv
<1>3. clone[o] \in CloneRecords /\ Stage(clone[o])
  BY DEF CloneInv, CloneTypeOK, Stages
<1>4. ~clone[o].ready
  BY <1>1, <1>3 DEF CloneRecords, Stage
<1> QED
  BY <1>2, <1>4 DEF CloneInv, InodesOwned, Owns

\* A worker belongs to a clone that has not ended.
LEMMA WorkerRuns ==
    ASSUME CloneInv, NEW o \in Clones
    PROVE  /\ clone[o] \in CloneRecords /\ Stage(clone[o])
           /\ clone[o].worker # "none" => clone[o].phase \notin TerminalPhases \cup {"unknown"}
  BY DEF CloneInv, CloneTypeOK, Stages, Stage

\* A worker that failed ends: the directory it was made for is gone, or it is told.
LEMMA EndFailedMoves ==
    ASSUME CloneInv, NEW o \in Clones, NEW left \in BOOLEAN, EndFailed(o, left),
           UNCHANGED <<inodes, git, project, restarts, swapped>>,
           clone[o].worker \in {"fail", "remove"},
           dir' = dir \/ (dir' = NoDir /\ clone[o].worker = "remove"),
           left \/ dir' = NoDir \/ ~Owns(o)
    PROVE  Moves(o)
<1> DEFINE phase == IF clone[o].cancelled THEN "Cancelled" ELSE "Failed"
           rec == [clone[o] EXCEPT !.phase = phase, !.worker = "none", !.leftover = left]
<1>2. phase \in {"Cancelled", "Failed"}
  OBVIOUS
<1>3. clone' = [clone EXCEPT ![o] = rec]
  BY DEF EndFailed
<1>4. clone[o] \in CloneRecords /\ Stage(clone[o]) /\ clone[o].phase # "Completed"
      /\ clone[o].ready = FALSE
  <2>1. clone[o] \in CloneRecords /\ Stage(clone[o]) /\ clone[o].phase # "Completed"
    BY WorkerRuns DEF TerminalPhases
  <2> QED
    BY <2>1 DEF Stage, CloneRecords
<1> HIDE DEF phase
<1>6. rec \in CloneRecords /\ rec.owned = clone[o].owned /\ rec.worker = "none"
      /\ rec.phase \in {"Cancelled", "Failed"} /\ rec.leftover = left /\ rec.ready = FALSE
  BY <1>2, <1>4 DEF CloneRecords, TerminalPhases
<1> HIDE DEF rec
<1>7. Stage(rec)
  BY <1>6 DEF Stage
<1>8. /\ clone' \in [Clones -> CloneRecords] /\ clone'[o] = rec
      /\ \A x \in Clones : x # o => clone'[x] = clone[x]
  BY <1>3, <1>6 DEF CloneInv, CloneTypeOK
<1>10. \/ rec.leftover = TRUE \/ rec.owned = NoInode \/ rec.owned # dir'.inode
  <2>1. CASE dir' = NoDir
    BY <1>6, <2>1, UnknownClone
  <2>2. CASE dir' = dir /\ ~Owns(o)
    BY <1>6, <2>2 DEF Owns
  <2>3. CASE left
    BY <1>6, <2>3
  <2> QED
    BY <2>1, <2>2, <2>3
<1>11. git' \in [Clones -> Nat] /\ (restarts = 0 => git'[o] = NoInode)
  BY DEF CloneInv, CloneTypeOK, GitHasWorker
<1> QED
  BY <1>4, <1>6, <1>7, <1>8, <1>10, <1>11 DEF Moves

\* A step of an operation that leaves the directory alone.
LEMMA RecordMoves ==
    ASSUME CloneInv, NEW o \in Clones, NEW rec \in CloneRecords, clone' = [clone EXCEPT ![o] = rec],
           UNCHANGED <<dir, inodes, project, restarts, swapped>>,
           rec.worker = "remove" => Owns(o),
           git' \in [Clones -> Nat], \A x \in Clones : x # o => git'[x] = git[x],
           restarts = 0 /\ git'[o] # NoInode => rec.worker = "clone",
           clone[o].phase # "Completed", Stage(rec), rec.owned = clone[o].owned,
           rec.phase \in TerminalPhases => rec.ready = TRUE
    PROVE  Moves(o)
<1>1. /\ clone' \in [Clones -> CloneRecords] /\ clone'[o] = rec
      /\ \A x \in Clones : x # o => clone'[x] = clone[x]
  BY DEF CloneInv, CloneTypeOK
<1> QED
  BY <1>1 DEF Moves

\* The fields that the steps of an operation write.
LEMMA CloneFields ==
    ASSUME NEW c \in CloneRecords
    PROVE  /\ LET d == [c EXCEPT !.phase = "Validating", !.worker = "validate"] IN
                /\ d \in CloneRecords /\ d.phase = "Validating" /\ d.worker = "validate"
                /\ d.ready = c.ready /\ d.owned = c.owned
           /\ LET d == [c EXCEPT !.cancelled = TRUE] IN
                /\ d \in CloneRecords /\ d.phase = c.phase /\ d.worker = c.worker
                /\ d.ready = c.ready /\ d.owned = c.owned
           /\ LET d == [c EXCEPT !.cancelled = FALSE, !.phase = "Configuring", !.worker = "finish"] IN
                /\ d \in CloneRecords /\ d.phase = "Configuring" /\ d.worker = "finish"
                /\ d.ready = c.ready /\ d.owned = c.owned
           /\ LET d == [c EXCEPT !.ready = TRUE, !.worker = "finish"] IN
                /\ d \in CloneRecords /\ d.phase = c.phase /\ d.worker = "finish"
                /\ d.ready = TRUE /\ d.owned = c.owned
  BY DEF CloneRecords, TerminalPhases

LEMMA CloneWorkerField ==
    ASSUME NEW c \in CloneRecords, NEW w \in {"reserve", "spawn", "clone", "check", "fail", "remove"},
           NEW d, d = [c EXCEPT !.worker = w]
    PROVE  /\ d \in CloneRecords /\ d.phase = c.phase /\ d.worker = w /\ d.ready = c.ready
           /\ d.owned = c.owned
  BY DEF CloneRecords, TerminalPhases

LEMMA CloneVerifiedField ==
    ASSUME NEW c \in CloneRecords, NEW ok \in BOOLEAN,
           NEW d, d = [c EXCEPT !.phase = "Configuring", !.worker = "register", !.verified = ok]
    PROVE  /\ d \in CloneRecords /\ d.phase = "Configuring" /\ d.worker = "register"
           /\ d.ready = c.ready /\ d.owned = c.owned
  BY DEF CloneRecords, TerminalPhases

LEMMA GitAtRest ==
    ASSUME CloneInv, NEW o \in Clones
    PROVE  /\ git \in [Clones -> Nat]
           /\ clone[o].worker # "clone" /\ restarts = 0 => git[o] = NoInode
  BY DEF CloneInv, CloneTypeOK, GitHasWorker

\* The requests of a client.
LEMMA ClientMoves ==
    ASSUME CloneInv, NEW o \in Clones, StartClone(o) \/ CancelClone(o) \/ RetryRegistration(o)
    PROVE  Moves(o)
<1>1. clone[o] \in CloneRecords /\ Stage(clone[o])
  BY WorkerRuns
<1>2. UNCHANGED <<dir, inodes, git, project, restarts, swapped>>
  BY DEF StartClone, CancelClone, RetryRegistration
<1>3. CASE StartClone(o)
  <2> DEFINE rec == [clone[o] EXCEPT !.phase = "Validating", !.worker = "validate"]
  <2>1. clone' = [clone EXCEPT ![o] = rec] /\ clone[o].phase = "unknown"
    BY <1>3 DEF StartClone
  <2>2. /\ rec \in CloneRecords /\ rec.phase = "Validating" /\ rec.worker = "validate"
        /\ rec.ready = clone[o].ready /\ rec.owned = clone[o].owned
    BY <1>1, CloneFields
  <2> HIDE DEF rec
  <2>3. clone[o].worker = "none" /\ (restarts = 0 => git[o] = NoInode) /\ git' \in [Clones -> Nat]
    BY <1>1, <1>2, <2>1, GitAtRest DEF Stage
  <2>4. Stage(rec)
    BY <1>1, <2>1, <2>2 DEF Stage, TerminalPhases
  <2> QED
    BY <1>2, <2>1, <2>2, <2>3, <2>4, RecordMoves DEF TerminalPhases
<1>4. CASE CancelClone(o)
  <2> DEFINE rec == [clone[o] EXCEPT !.cancelled = TRUE]
  <2>1. /\ clone' = [clone EXCEPT ![o] = rec] /\ clone[o].phase \notin TerminalPhases
        /\ clone[o].worker # "remove"
    BY <1>4 DEF CancelClone
  <2>2. /\ rec \in CloneRecords /\ rec.phase = clone[o].phase /\ rec.worker = clone[o].worker
        /\ rec.ready = clone[o].ready /\ rec.owned = clone[o].owned
    BY <1>1, CloneFields
  <2> HIDE DEF rec
  <2>3. Stage(rec)
    BY <1>1, <2>2 DEF Stage
  <2> QED
    BY <1>2, <2>1, <2>2, <2>3, GitAtRest, RecordMoves DEF TerminalPhases
<1>5. CASE RetryRegistration(o)
  <2> DEFINE rec == [clone[o] EXCEPT !.cancelled = FALSE, !.phase = "Configuring",
                                     !.worker = "finish"]
  <2>1. /\ clone' = [clone EXCEPT ![o] = rec] /\ clone[o].phase \in {"Failed", "Cancelled"}
        /\ clone[o].ready = TRUE
    BY <1>1, <1>5 DEF RetryRegistration, CloneRecords
  <2>2. /\ rec \in CloneRecords /\ rec.phase = "Configuring" /\ rec.worker = "finish"
        /\ rec.ready = clone[o].ready /\ rec.owned = clone[o].owned
    BY <1>1, CloneFields
  <2> HIDE DEF rec
  <2>3. Stage(rec)
    BY <2>1, <2>2 DEF Stage, TerminalPhases
  <2>4. clone[o].worker = "none"
    BY <1>1, <2>1 DEF Stage, TerminalPhases
  <2> QED
    BY <1>2, <2>1, <2>2, <2>3, <2>4, GitAtRest, RecordMoves DEF TerminalPhases
<1> QED
  BY <1>3, <1>4, <1>5

\* The steps of a worker that leave the registered project alone, but for the mkdir.
LEMMA WorkerMoves ==
    ASSUME CloneInv, NEW o \in Clones,
           \/ Validate(o) \/ SpawnGit(o) \/ GitEnds(o) \/ Check(o) \/ VerifyCheckout(o)
           \/ LookAtPartial(o) \/ RemovePartial(o)
           \/ ReserveDestination(o) /\ FailClone(o) /\ UNCHANGED <<dir, inodes>>
           \/ RegisterClone(o) /\ UNCHANGED project /\ clone'[o].phase # "Completed"
    PROVE  Moves(o)
<1>1. /\ clone[o] \in CloneRecords /\ Stage(clone[o]) /\ git \in [Clones -> Nat]
      /\ clone[o].worker # "none" => clone[o].phase \notin TerminalPhases \cup {"unknown"}
  BY WorkerRuns, GitAtRest
<1> DEFINE to(w) == [clone[o] EXCEPT !.worker = w]
<1>2. ASSUME NEW w \in {"reserve", "clone", "check", "fail", "remove"},
             clone' = [clone EXCEPT ![o].worker = w],
             clone[o].worker \in {"validate", "reserve", "spawn", "clone", "check", "fail"},
             UNCHANGED <<dir, inodes, project, restarts, swapped>>,
             w = "remove" => Owns(o),
             git' \in [Clones -> Nat], \A x \in Clones : x # o => git'[x] = git[x],
             restarts = 0 /\ git'[o] # NoInode => w = "clone"
      PROVE  Moves(o)
  <2> DEFINE rec == to(w)
  <2>1. /\ rec \in CloneRecords /\ rec.phase = clone[o].phase /\ rec.worker = w
        /\ rec.ready = clone[o].ready /\ rec.owned = clone[o].owned
    BY <1>1, CloneWorkerField
  <2>2. clone' = [clone EXCEPT ![o] = rec]
    BY <1>2
  <2> HIDE DEF rec, to
  <2>3. Stage(rec) /\ rec.phase \notin TerminalPhases /\ clone[o].phase # "Completed"
    BY <1>1, <1>2, <2>1 DEF Stage, TerminalPhases
  <2> QED
    BY <1>2, <2>1, <2>2, <2>3, RecordMoves
<1> HIDE DEF to
<1>12. ASSUME FailClone(o), UNCHANGED <<dir, inodes, project, restarts, swapped>>,
              clone[o].worker \in {"validate", "reserve", "spawn", "clone", "check"},
              git' \in [Clones -> Nat], \A x \in Clones : x # o => git'[x] = git[x],
              restarts = 0 => git'[o] = NoInode
       PROVE  Moves(o)
  BY <1>2, <1>12 DEF FailClone
<1>3. CASE Validate(o)
  <2>1. /\ clone[o].worker = "validate"
        /\ UNCHANGED <<dir, inodes, git, project, restarts, swapped>>
    BY <1>3 DEF Validate
  <2>2. CASE clone' = [clone EXCEPT ![o].worker = "reserve"]
    BY <1>1, <1>2, <2>1, <2>2, GitAtRest
  <2>3. CASE FailClone(o)
    BY <1>1, <1>12, <2>1, <2>3, GitAtRest
  <2> QED
    BY <1>3, <2>2, <2>3 DEF Validate
<1>4. CASE SpawnGit(o)
  <2>1. clone[o].worker = "spawn" /\ UNCHANGED <<dir, inodes, project, restarts, swapped>>
    BY <1>4 DEF SpawnGit
  <2>2. CASE /\ clone' = [clone EXCEPT ![o].worker = "clone"]
             /\ git' = [git EXCEPT ![o] = clone[o].owned]
    <3>2. clone[o].owned \in Nat
      BY <1>1 DEF CloneRecords
    <3>3. git' \in [Clones -> Nat] /\ \A x \in Clones : x # o => git'[x] = git[x]
      BY <1>1, <2>2, <3>2
    <3> QED
      BY <1>2, <2>1, <2>2, <3>3
  <2>3. CASE FailClone(o) /\ UNCHANGED git
    BY <1>1, <1>12, <2>1, <2>3, GitAtRest
  <2> QED
    BY <1>4, <2>2, <2>3 DEF SpawnGit
<1>5. CASE GitEnds(o)
  <2>1. /\ clone[o].worker = "clone" /\ UNCHANGED <<dir, inodes, project, restarts, swapped>>
        /\ git' = [git EXCEPT ![o] = NoInode]
    BY <1>5 DEF GitEnds
  <2>2. git' \in [Clones -> Nat] /\ git'[o] = NoInode /\ \A x \in Clones : x # o => git'[x] = git[x]
    BY <1>1, <2>1 DEF NoInode
  <2>3. CASE clone' = [clone EXCEPT ![o].worker = "check"]
    BY <1>2, <2>1, <2>2, <2>3
  <2>4. CASE FailClone(o)
    BY <1>12, <2>1, <2>2, <2>4
  <2> QED
    BY <1>5, <2>3, <2>4 DEF GitEnds
<1>6. CASE Check(o)
  <2>1. clone[o].worker = "check" /\ UNCHANGED <<dir, inodes, git, project, restarts, swapped>>
    BY <1>6 DEF Check
  <2>2. CASE clone' = [clone EXCEPT ![o].ready = TRUE, ![o].worker = "finish"]
    <3> DEFINE rec == [clone[o] EXCEPT !.ready = TRUE, !.worker = "finish"]
    <3>1. clone' = [clone EXCEPT ![o] = rec]
      BY <2>2
    <3>2. /\ rec \in CloneRecords /\ rec.phase = clone[o].phase /\ rec.worker = "finish"
          /\ rec.ready = TRUE /\ rec.owned = clone[o].owned
      BY <1>1, CloneFields
    <3> HIDE DEF rec
    <3>3. Stage(rec) /\ clone[o].phase # "Completed"
      BY <1>1, <2>1, <3>2 DEF Stage, TerminalPhases
    <3> QED
      BY <1>1, <2>1, <2>2, <3>1, <3>2, <3>3, GitAtRest, RecordMoves
  <2>3. CASE FailClone(o)
    BY <1>1, <1>12, <2>1, <2>3, GitAtRest
  <2> QED
    BY <1>6, <2>2, <2>3 DEF Check
<1>10. CASE LookAtPartial(o)
  <2>1. clone[o].worker = "fail" /\ UNCHANGED <<dir, inodes, git, project, restarts, swapped>>
    BY <1>10 DEF LookAtPartial
  <2>2. CASE clone' = [clone EXCEPT ![o].worker = "remove"] /\ Owns(o)
    BY <1>1, <1>2, <2>1, <2>2, GitAtRest
  <2>3. CASE EndFailed(o, FALSE) /\ ~Owns(o)
    BY <2>1, <2>3, EndFailedMoves
  <2>4. clone[o].ready = FALSE
    BY <1>1, <2>1 DEF Stage, CloneRecords
  <2> QED
    BY <1>10, <2>2, <2>3, <2>4 DEF LookAtPartial
<1>11. CASE RemovePartial(o)
  <2>1. clone[o].worker = "remove" /\ UNCHANGED <<inodes, git, project, restarts, swapped>>
    BY <1>11 DEF RemovePartial
  <2>2. PICK removed \in BOOLEAN :
          dir' = (IF removed THEN NoDir ELSE dir) /\ EndFailed(o, ~removed)
    BY <1>11 DEF RemovePartial
  <2>3. (~removed) \in BOOLEAN /\ (~removed \/ dir' = NoDir) /\ (dir' = dir \/ dir' = NoDir)
    BY <2>2
  <2> QED
    BY <2>1, <2>2, <2>3, EndFailedMoves
<1>7. CASE VerifyCheckout(o)
  <2>1. clone[o].worker = "finish" /\ UNCHANGED <<dir, inodes, git, project, restarts, swapped>>
    BY <1>7 DEF VerifyCheckout
  <2>2. PICK ok \in BOOLEAN :
          clone' = [clone EXCEPT ![o].phase = "Configuring", ![o].worker = "register",
                                 ![o].verified = ok]
    BY <1>7 DEF VerifyCheckout
  <2> DEFINE rec == [clone[o] EXCEPT !.phase = "Configuring", !.worker = "register",
                                     !.verified = ok]
  <2>3. clone' = [clone EXCEPT ![o] = rec]
    BY <2>2
  <2>4. /\ rec \in CloneRecords /\ rec.phase = "Configuring" /\ rec.worker = "register"
        /\ rec.ready = clone[o].ready /\ rec.owned = clone[o].owned
    BY <1>1, CloneVerifiedField
  <2> HIDE DEF rec
  <2>5. Stage(rec) /\ clone[o].phase # "Completed"
    BY <1>1, <2>1, <2>4 DEF Stage, TerminalPhases
  <2> QED
    BY <1>1, <2>1, <2>3, <2>4, <2>5, GitAtRest, RecordMoves DEF TerminalPhases
<1>8. CASE ReserveDestination(o) /\ FailClone(o) /\ UNCHANGED <<dir, inodes>>
  <2>1. clone[o].worker = "reserve" /\ UNCHANGED <<git, project, restarts, swapped>>
    BY <1>8 DEF ReserveDestination
  <2> QED
    BY <1>1, <1>8, <1>12, <2>1, GitAtRest
<1>9. CASE RegisterClone(o) /\ UNCHANGED project /\ clone'[o].phase # "Completed"
  <2>1. clone[o].worker = "register" /\ UNCHANGED <<dir, inodes, git, project, restarts, swapped>>
    BY <1>9 DEF RegisterClone
  <2>2. PICK phase \in {"Cancelled", "Failed"} :
          clone' = [clone EXCEPT ![o].worker = "none", ![o].phase = phase]
    <3>1. CASE clone' = [clone EXCEPT ![o].phase = "Completed", ![o].worker = "none"]
      <4>1. clone'[o].phase = "Completed"
        BY <1>1, <3>1 DEF CloneInv, CloneTypeOK, CloneRecords
      <4> QED
        BY <1>9, <4>1
    <3> QED
      BY <1>9, <3>1 DEF RegisterClone
  <2> DEFINE rec == [clone[o] EXCEPT !.worker = "none", !.phase = phase]
  <2>3. clone' = [clone EXCEPT ![o] = rec]
    BY <2>2
  <2>5. /\ rec \in CloneRecords /\ rec.phase = phase /\ rec.worker = "none"
        /\ rec.ready = clone[o].ready /\ rec.owned = clone[o].owned
    BY <1>1 DEF CloneRecords, TerminalPhases
  <2> HIDE DEF rec
  <2>6. Stage(rec) /\ clone[o].phase # "Completed" /\ rec.ready = TRUE
    BY <1>1, <2>1, <2>5 DEF Stage, TerminalPhases
  <2> QED
    BY <1>1, <2>1, <2>3, <2>5, <2>6, GitAtRest, RecordMoves
<1> QED
  BY <1>3, <1>4, <1>5, <1>6, <1>7, <1>8, <1>9, <1>10, <1>11

\* The mkdir: the new inode belongs to this clone alone.
LEMMA ReserveKeeps ==
    ASSUME CloneInv, NEW o \in Clones, clone[o].worker = "reserve", dir = NoDir,
           inodes' = inodes + 1, dir' = [inode |-> inodes + 1, kind |-> "partial"],
           NEW rec, clone' = [clone EXCEPT ![o] = rec],
           rec = [clone[o] EXCEPT !.owned = inodes + 1, !.phase = "Cloning", !.worker = "spawn"],
           UNCHANGED <<git, project, restarts, swapped>>
    PROVE  CloneInv'
<1>2. clone[o] \in CloneRecords /\ Stage(clone[o]) /\ inodes \in Nat /\ inodes + 1 \in Nat
  BY WorkerRuns DEF CloneInv, CloneTypeOK
<1>3. /\ rec \in CloneRecords /\ rec.phase = "Cloning" /\ rec.worker = "spawn"
      /\ rec.ready = clone[o].ready /\ rec.owned = inodes + 1
  BY <1>2 DEF CloneRecords, TerminalPhases
<1>4. /\ clone' \in [Clones -> CloneRecords] /\ clone'[o] = rec
      /\ \A x \in Clones : x # o => clone'[x] = clone[x]
  BY <1>3 DEF CloneInv, CloneTypeOK
<1>5. dir' \in [inode : Nat, kind : {"none", "partial", "repo", "user"}] /\ dir'.inode = inodes + 1
  BY <1>2
<1>6. CloneTypeOK'
  BY <1>2, <1>4, <1>5 DEF CloneInv, CloneTypeOK
<1>7. Stages'
  BY <1>2, <1>3, <1>4 DEF CloneInv, Stages, Stage, TerminalPhases
<1>8. \A x \in Clones : clone[x].owned \in Nat /\ clone[x].owned <= inodes
  BY DEF CloneInv, CloneTypeOK, CloneRecords, InodesOwned
<1>9. InodesOwned'
  BY <1>2, <1>3, <1>4, <1>5, <1>8 DEF CloneInv, InodesOwned
<1>10. GitHasWorker'
  BY <1>4 DEF CloneInv, GitHasWorker
<1>11. project # NoClone => clone'[project].phase = "Completed" /\ swapped # FALSE
  <2>1. clone[o].phase # "Completed"
    BY WorkerRuns DEF TerminalPhases
  <2>2. project # NoClone =>
          project \in Clones /\ clone[project].phase = "Completed" /\ swapped # FALSE
    BY UnknownClone DEF CloneInv, CloneTypeOK, OutcomeIsTrue
  <2> QED
    BY <1>4, <2>1, <2>2
<1>12. ASSUME restarts = 0, NEW x \in Clones, clone'[x].phase \in TerminalPhases
       PROVE  git[x] = NoInode /\ clone'[x].owned # dir'.inode
  <2>1. x # o /\ clone'[x] = clone[x]
    BY <1>3, <1>4, <1>12 DEF TerminalPhases
  <2> QED
    BY <1>2, <1>5, <1>8, <1>12, <2>1 DEF CloneInv, OutcomeIsTrue
<1>13. OutcomeIsTrue'
  BY <1>11, <1>12 DEF OutcomeIsTrue, Owns, CloneInv, CloneTypeOK
<1>14. RemovalInv'
  <2>1. swapped = FALSE => \A x \in Clones : clone[x].worker # "remove"
    BY UnknownClone DEF CloneInv, RemovalInv, Owns
  <2> QED
    BY <1>3, <1>4, <2>1 DEF RemovalInv
<1> QED
  BY <1>6, <1>7, <1>9, <1>10, <1>13, <1>14 DEF CloneInv

\* The registration that succeeds.
LEMMA RegisterKeeps ==
    ASSUME CloneInv, NEW o \in Clones, clone[o].worker = "register", Owns(o), dir.kind = "repo",
           project' = o,
           clone' = [clone EXCEPT ![o].phase = "Completed", ![o].worker = "none"],
           UNCHANGED <<dir, inodes, git, restarts, swapped>>
    PROVE  CloneInv'
<1> DEFINE rec == [clone[o] EXCEPT !.phase = "Completed", !.worker = "none"]
<1>1. clone' = [clone EXCEPT ![o] = rec]
  OBVIOUS
<1>2. clone[o] \in CloneRecords /\ clone[o].ready = TRUE
  BY WorkerRuns DEF Stage
<1>3. /\ rec \in CloneRecords /\ rec.phase = "Completed" /\ rec.worker = "none"
      /\ rec.ready = clone[o].ready /\ rec.owned = clone[o].owned
  BY <1>2 DEF CloneRecords, TerminalPhases
<1> HIDE DEF rec
<1>4. /\ clone' \in [Clones -> CloneRecords] /\ clone'[o] = rec
      /\ \A x \in Clones : x # o => clone'[x] = clone[x]
  BY <1>1, <1>3 DEF CloneInv, CloneTypeOK
<1>5. CloneTypeOK'
  BY <1>4 DEF CloneInv, CloneTypeOK
<1>6. Stages'
  BY <1>2, <1>3, <1>4 DEF CloneInv, Stages, Stage
<1>7. \A x \in Clones : clone'[x].owned = clone[x].owned
  BY <1>3, <1>4
<1>8. InodesOwned'
  BY <1>7, ZenonT(60) DEF CloneInv, InodesOwned
<1>9. restarts = 0 => git[o] = NoInode
  BY GitAtRest
<1>10. GitHasWorker'
  BY <1>4, <1>9 DEF CloneInv, GitHasWorker
<1>11. OutcomeIsTrue'
  <2>1. /\ clone'[project'].phase = "Completed"
        /\ dir'.inode = clone'[project'].owned /\ dir'.kind = "repo"
    BY <1>3, <1>4 DEF Owns
  <2>2. ASSUME restarts = 0, NEW x \in Clones, clone'[x].phase \in TerminalPhases
        PROVE  /\ git[x] = NoInode
               /\ clone'[x].owned # NoInode /\ clone'[x].owned = dir.inode =>
                    clone'[x].ready \/ clone'[x].leftover
    <3>1. CASE x = o
      BY <1>2, <1>3, <1>4, <1>9, <2>2, <3>1
    <3>2. CASE x # o
      BY <1>4, <2>2, <3>2 DEF CloneInv, OutcomeIsTrue, Owns
    <3> QED
      BY <3>1, <3>2
  <2> QED
    BY <2>1, <2>2 DEF OutcomeIsTrue, Owns
<1>12. RemovalInv'
  BY <1>3, <1>4, <1>7 DEF CloneInv, RemovalInv, Owns
<1> QED
  BY <1>5, <1>6, <1>8, <1>10, <1>11, <1>12 DEF CloneInv

\* What happens at the destination without the daemon: git, or the user.
LEMMA OutsideKeeps ==
    ASSUME CloneInv,
           \/ \E o \in Clones : GitWrites(o) \/ OrphanEnds(o)
           \/ UserRemoves \/ UserCreates
    PROVE  CloneInv'
<1>1. UNCHANGED <<clone, restarts>>
  BY DEF GitWrites, OrphanEnds, UserRemoves, UserCreates
<1>2. /\ git' \in [Clones -> Nat]
      /\ \A x \in Clones : git'[x] \in {git[x], NoInode}
  BY DEF GitWrites, OrphanEnds, UserRemoves, UserCreates, CloneInv, CloneTypeOK, NoInode
<1>3. /\ dir' \in [inode : Nat, kind : {"none", "partial", "repo", "user"}]
      /\ inodes' \in Nat /\ inodes <= inodes' /\ dir'.inode <= inodes'
      /\ dir'.inode = NoInode \/ dir'.inode = dir.inode \/ inodes < dir'.inode
  <2>1. /\ dir \in [inode : Nat, kind : {"none", "partial", "repo", "user"}]
        /\ dir.inode <= inodes /\ inodes \in Nat
    BY DEF CloneInv, CloneTypeOK, InodesOwned
  <2>2. ASSUME NEW o \in Clones, GitWrites(o)
        PROVE  <1>3!:
    BY <2>1, <2>2 DEF GitWrites
  <2>3. ASSUME NEW o \in Clones, OrphanEnds(o)
        PROVE  <1>3!:
    BY <2>1, <2>3 DEF OrphanEnds
  <2>4. CASE UserRemoves
    BY <2>1, <2>4, UnknownClone DEF UserRemoves, NoInode
  <2>5. CASE UserCreates
    BY <2>1, <2>5 DEF UserCreates
  <2> QED
    BY <2>2, <2>3, <2>4, <2>5
<1>4. /\ project' \in {project, NoClone}
      /\ project' # NoClone /\ swapped' = FALSE => dir' = dir
      /\ swapped' \in BOOLEAN /\ (swapped' = FALSE => swapped = FALSE)
  <2>1. /\ project # NoClone /\ swapped = FALSE => dir.kind = "repo"
        /\ swapped \in BOOLEAN
    BY DEF CloneInv, CloneTypeOK, OutcomeIsTrue
  <2> QED
    BY <2>1, UnknownClone DEF GitWrites, OrphanEnds, UserRemoves, UserCreates
<1>5. CloneTypeOK'
  BY <1>1, <1>2, <1>3, <1>4 DEF CloneInv, CloneTypeOK
<1>6. Stages'
  BY <1>1 DEF CloneInv, Stages
<1>7. \A x \in Clones : clone[x].owned \in Nat /\ clone[x].owned <= inodes /\ inodes \in Nat
  BY DEF CloneInv, CloneTypeOK, CloneRecords, InodesOwned
<1>8. InodesOwned'
  BY <1>1, <1>3, <1>7 DEF CloneInv, InodesOwned
<1>9. GitHasWorker'
  BY <1>1, <1>2 DEF CloneInv, GitHasWorker
<1>10. \A x \in Clones :
         clone[x].owned # NoInode /\ clone[x].owned = dir'.inode => clone[x].owned = dir.inode
  BY <1>3, <1>7
<1>11. OutcomeIsTrue'
  BY <1>1, <1>2, <1>4, <1>10 DEF CloneInv, CloneTypeOK, OutcomeIsTrue, Owns
<1>12. RemovalInv'
  <2>1. ASSUME swapped' = FALSE, NEW x \in Clones, clone[x].worker = "remove"
        PROVE  clone[x].owned # NoInode /\ clone[x].owned = dir'.inode
    <3>1. Owns(x) /\ dir # NoDir
      BY <1>4, <2>1, UnknownClone DEF CloneInv, RemovalInv, Owns
    <3>2. dir'.inode = dir.inode
      BY <2>1, <3>1 DEF GitWrites, OrphanEnds, UserRemoves, UserCreates, CloneInv, CloneTypeOK
    <3> QED
      BY <3>1, <3>2 DEF Owns
  <2> QED
    BY <1>1, <2>1 DEF RemovalInv, Owns
<1> QED
  BY <1>5, <1>6, <1>8, <1>9, <1>11, <1>12 DEF CloneInv

LEMMA RestartKeeps ==
    ASSUME CloneInv, DaemonRestarts
    PROVE  CloneInv'
<1>1. /\ restarts' = restarts + 1 /\ restarts \in Nat
      /\ \A o \in Clones : clone'[o] = Unknown
      /\ clone' = [o \in Clones |-> Unknown] /\ project' = NoClone
      /\ UNCHANGED <<dir, inodes, git, swapped>>
  BY DEF DaemonRestarts, CloneInv, CloneTypeOK
<1>2. CloneTypeOK'
  BY <1>1, UnknownClone DEF CloneInv, CloneTypeOK
<1>3. Stages'
  BY <1>1, UnknownClone DEF Stages
<1>4. InodesOwned'
  BY <1>1, <1>2, UnknownClone DEF CloneInv, InodesOwned, NoInode, CloneTypeOK
<1>5. restarts' # 0
  BY <1>1
<1>6. GitHasWorker' /\ OutcomeIsTrue'
  BY <1>1, <1>5 DEF GitHasWorker, OutcomeIsTrue
<1>7. RemovalInv'
  BY <1>1, UnknownClone DEF RemovalInv
<1> QED
  BY <1>2, <1>3, <1>4, <1>6, <1>7 DEF CloneInv

LEMMA CloneNextKeeps ==
    ASSUME CloneInv, [CloneNext]_cloneVars
    PROVE  CloneInv'
<1>1. CASE UNCHANGED cloneVars
  BY <1>1 DEF cloneVars, CloneInv, CloneTypeOK, Stages, InodesOwned, GitHasWorker, RemovalInv,
              OutcomeIsTrue, Owns
<1>2. ASSUME NEW o \in Clones, StartClone(o) \/ CancelClone(o) \/ RetryRegistration(o)
      PROVE  CloneInv'
  BY <1>2, ClientMoves, MovesKeeps
<1>3. ASSUME NEW o \in Clones, ReserveDestination(o)
      PROVE  CloneInv'
  <2>1. CASE FailClone(o) /\ UNCHANGED <<dir, inodes>>
    BY <1>3, <2>1, WorkerMoves, MovesKeeps
  <2>2. CASE /\ dir = NoDir /\ inodes' = inodes + 1
             /\ dir' = [inode |-> inodes + 1, kind |-> "partial"]
             /\ clone' = [clone EXCEPT ![o].owned = inodes + 1, ![o].phase = "Cloning",
                                       ![o].worker = "spawn"]
    <3> DEFINE rec == [clone[o] EXCEPT !.owned = inodes + 1, !.phase = "Cloning",
                                       !.worker = "spawn"]
    <3>1. clone' = [clone EXCEPT ![o] = rec]
      BY <2>2
    <3>2. clone[o].worker = "reserve" /\ UNCHANGED <<git, project, restarts, swapped>>
      BY <1>3 DEF ReserveDestination
    <3> QED
      BY <2>2, <3>1, <3>2, ReserveKeeps
  <2> QED
    BY <1>3, <2>1, <2>2 DEF ReserveDestination
<1>4. ASSUME NEW o \in Clones, RegisterClone(o)
      PROVE  CloneInv'
  <2>1. CASE UNCHANGED project /\ clone'[o].phase # "Completed"
    BY <1>4, <2>1, WorkerMoves, MovesKeeps
  <2>2. CASE /\ clone' = [clone EXCEPT ![o].worker = "none",
                            ![o].phase = IF clone[o].cancelled THEN "Cancelled" ELSE "Failed"]
             /\ UNCHANGED project
    <3>1. clone'[o].phase # "Completed"
      BY <2>2 DEF CloneInv, CloneTypeOK, CloneRecords
    <3> QED
      BY <2>1, <2>2, <3>1
  <2> QED
    BY <1>4, <2>2, RegisterKeeps DEF RegisterClone
<1>5. ASSUME NEW o \in Clones, CloneWorker(o)
      PROVE  CloneInv'
  BY <1>3, <1>4, <1>5, WorkerMoves, MovesKeeps DEF CloneWorker
<1> QED
  BY <1>1, <1>2, <1>5, OutsideKeeps, RestartKeeps DEF CloneNext

LEMMA CloneInitially ==
    ASSUME CloneInit
    PROVE  CloneInv
<1>1. CloneTypeOK
  BY UnknownClone DEF CloneInit, CloneTypeOK, NoInode
<1>2. \A o \in Clones : clone[o] = Unknown
  BY DEF CloneInit
<1>3. Stages
  BY <1>2, UnknownClone DEF Stages
<1>4. InodesOwned
  BY <1>2, UnknownClone DEF InodesOwned, CloneInit, NoInode
<1>5. GitHasWorker
  BY DEF GitHasWorker, CloneInit
<1>6. OutcomeIsTrue
  BY <1>2, UnknownClone DEF OutcomeIsTrue, CloneInit, TerminalPhases
<1>7. RemovalInv
  BY <1>2, UnknownClone DEF RemovalInv
<1> QED
  BY <1>1, <1>3, <1>4, <1>5, <1>6, <1>7 DEF CloneInv

\* What the client is told of a clone is true, for any number of clones that race for a
\* destination, cancels, retries, restarts of the daemon and changes by the user.
THEOREM OutcomesAreTrue == CloneSpec => []OutcomeIsTrue
<1>1. CloneInit => CloneInv
  BY CloneInitially
<1>2. CloneInv /\ [CloneNext]_cloneVars => CloneInv'
  BY CloneNextKeeps
<1>3. CloneInv => OutcomeIsTrue
  BY DEF CloneInv
<1> QED
  BY <1>1, <1>2, <1>3, PTL DEF CloneSpec

\* What a failing clone removes is its own partial checkout and no other clone's, for any
\* number of clones, cancels, restarts and retries, as long as the user does not remove the
\* destination between the look at it and the removal.
THEOREM NothingElseRemoved == CloneSpec => OnlyPartialRemoved
<1>1. CloneInit => CloneInv
  BY CloneInitially
<1>2. CloneInv /\ [CloneNext]_cloneVars => CloneInv'
  BY CloneNextKeeps
<1>3. CloneInv => RemovesOwnPartial
  BY RemovalIsOwn
<1> QED
  BY <1>1, <1>2, <1>3, PTL DEF CloneSpec, OnlyPartialRemoved

=============================================================================
