SPECIFICATION Spec
CONSTANTS
    t1 = t1
    t2 = t2
    p1 = p1
    p2 = p2
    root = root
    None = None
    Tasks = {t1, t2}
    Agents = {a1, a2}
    Projects = {p1}
    Fingerprints = {f1}
    ProjectOf <- MCOneProject
    RootOf <- MCRootOf
    MaxPos = 1
    MaxAttempts = 1
    Ops = {"prompt", "Accept"}
SYMMETRY BoardSymmetry
PROPERTIES AcceptsIdle
CHECK_DEADLOCK FALSE
