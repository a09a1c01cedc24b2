SPECIFICATION Spec
CONSTANTS
    t1 = t1
    t2 = t2
    p1 = p1
    p2 = p2
    root = root
    None = None
    Tasks = {t1, t2}
    Agents = {a1, a2}
    Projects = {p1}
    Fingerprints = {f1, f2}
    ProjectOf <- MCOneProject
    RootOf <- MCRootOf
    MaxPos = 1
    MaxAttempts = 2
    Ops = {"AcceptRelease", "Revalidate", "RequestChanges", "edit", "cancel", "prompt", "delete", "pause", "ReturnToTodo"}
SYMMETRY BoardSymmetry
INVARIANTS AcceptedHasEvidence
PROPERTIES AcceptsIdle ReviewOnlyAfterExit
CHECK_DEADLOCK FALSE
