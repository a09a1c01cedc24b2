SPECIFICATION Spec
CONSTANTS
    t1 = t1
    t2 = t2
    p1 = p1
    p2 = p2
    root = root
    None = None
    Tasks = {t1, t2}
    Agents = {a1, a2}
    Projects = {p1}
    Fingerprints = {f1}
    ProjectOf <- MCOneProject
    RootOf <- MCRootOf
    MaxPos = 2
    MaxAttempts = 1
    Ops = {"crash", "prompt", "stop", "start", "Start", "unresumable"}
SYMMETRY BoardSymmetry
INVARIANTS TypeOK SerialExecution ReservationCoversGroup ActiveTaskHasActor
PROPERTIES SlotSpec
CHECK_DEADLOCK FALSE
