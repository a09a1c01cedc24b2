SPECIFICATION FairSpec
CONSTANTS
    t1 = t1
    t2 = t2
    p1 = p1
    p2 = p2
    root = root
    None = None
    Tasks = {t1, t2}
    Agents = {a1, a2}
    Projects = {p1, p2}
    Fingerprints = {f1}
    ProjectOf <- MCTwoProjects
    RootOf <- MCRootOf
    MaxPos = 2
    MaxAttempts = 1
    Ops = {"crash", "stop", "cancel", "RequestChanges", "unresumable"}
INVARIANTS SerialExecution
PROPERTIES LoopsEnd WaitingAdvances OrphansReaped
CHECK_DEADLOCK FALSE
