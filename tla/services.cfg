SPECIFICATION ServicesSpec
CONSTANTS
    Services = {"mirror", "turn", "host", "terminals", "handoff", "clone", "plan", "names", "connection", "issues"}
    None = None
    MaxEpoch = 2
    MaxSequence = 2
    MaxAge = 3
    ReplayLimit = 1
    ChannelLimit = 1
    Kinds = {"AgentChanged"}
    Requests = {q1}
    Answers = {"approve", "deny"}
    MaxRun = 2
    MaxStop = 1
    MaxEvents = 1
    MaxFault = 2
    MaxCrash = 1
    Projects = {p1}
    Shells = {s1, s2}
    Setups = {u1}
    Threads = {h1, h2}
    Tokens = {k1, k2}
    Free = Free
    Callers = {c1, c2}
    MacContents = {"draft", "mac"}
    HostContents = {"host"}
    FirstContent = "draft"
    Null = Null
    MaxRev = 3
    MaxTransfer = 2
    MaxLoss = 1
    Clones = {o1, o2}
    MaxInode = 3
    MaxRestart = 1
    PlanTasks = {t1, t2}
    Edits = {0, 10}
    PlanLimit = 1
    MaxJob = 2
    MaxReload = 1
    MaxSession = 2
    MaxNameFault = 3
    MaxRename = 2
    Accounts = {a1, a2}
    NoAccount = NoAccount
    MaxFresh = 4
    GTasks = {g1, g2}
    Drafts = {g1}
    Bodies = {b1}
    NoTask = NoTask
    MaxGen = 2
    MaxTry = 2
    MaxLost = 1
INVARIANTS
    StreamContiguous AnsweredOnce RequestsAnswerable MaintenanceIsQuiet OneTerminalPerProject
    StartsApprovedOnce OutcomeIsTrue ModelCallsBounded PublishedOnce IssueHasOneTask
PROPERTIES
    NeverRolledBack UpgradeSparesWork WorkSurvives OnlyPartialRemoved PlanEntersWanted
    WithdrawnStaysWithdrawn LateAnswerDiscarded
CHECK_DEADLOCK FALSE
