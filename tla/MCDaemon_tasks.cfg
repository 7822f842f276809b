SPECIFICATION Spec
CONSTANTS
    t1 = t1
    t2 = t2
    t3 = t3
    s1 = s1
    s2 = s2
    d1 = d1
    u1 = u1
    AutoLoop = AutoLoop
    NoTask = NoTask
    NoDir = NoDir
    Task = {t1, t2, t3}
    Slot = {s1, s2}
    Dir = {d1}
    Updater = {AutoLoop, u1}
    DirOf <- SharedDirectory
    MaxPhantoms = 1
    MaxLaggards = 1
INVARIANTS TypeOK OneRunPerDirectory HolderIsShown UpdateRunsAlone SlotsConserved OneAgentPerTask NothingAbandoned
SYMMETRY Alike
CHECK_DEADLOCK FALSE
