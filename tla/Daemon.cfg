\* Three processes, four starts, a command at a time.
CONSTANTS
    Proc = {p1, p2, p3}
    Inode = {n1, n2, n3, n4}
    None = None
    MaxStarts = 4
SPECIFICATION FairSpec
INVARIANTS
    TypeOK
    OneDaemonUnlessRaced
    ReachableUnlessRaced
PROPERTY
    StopEnds
CHECK_DEADLOCK FALSE
