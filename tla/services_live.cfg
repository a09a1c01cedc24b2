SPECIFICATION ServicesFairSpec
CONSTANTS
    Services = {"mirror", "turn", "host", "handoff", "clone", "plan"}
    None = None
    MaxEpoch = 2
    MaxSequence = 1
    MaxAge = 3
    ReplayLimit = 1
    ChannelLimit = 1
    Kinds = {"TaskChanged", "TaskDeleted"}
    Requests = {q1}
    Answers = {"approve"}
    MaxRun = 1
    MaxStop = 1
    MaxEvents = 1
    MaxFault = 1
    MaxCrash = 1
    Projects = {p1}
    Shells = {s1}
    Setups = {u1}
    Threads = {h1}
    Tokens = {k1}
    Free = Free
    Callers = {c1}
    MacContents = {"draft", "mac"}
    HostContents = {"host"}
    FirstContent = "draft"
    Null = Null
    MaxRev = 3
    MaxTransfer = 5
    MaxLoss = 2
    Clones = {o1, o2}
    MaxInode = 2
    MaxRestart = 1
    PlanTasks = {t1}
    Edits = {0, 10}
    PlanLimit = 1
    MaxJob = 2
    MaxReload = 1
    MaxSession = 1
    MaxNameFault = 0
    MaxRename = 0
    Accounts = {a1}
    NoAccount = NoAccount
    MaxFresh = 0
    GTasks = {g1}
    Drafts = {g1}
    Bodies = {b1}
    NoTask = NoTask
    MaxGen = 1
    MaxTry = 1
    MaxLost = 0
PROPERTIES
    MirrorConverges AnswerSettles ExitFinalizes PausedResumes RequestSettles
    CloneSettles PlanSettles
CHECK_DEADLOCK FALSE
