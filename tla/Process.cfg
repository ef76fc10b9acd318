\* Two goroutines with lists of up to two texts.
CONSTANTS
    Task = {t1, t2}
    GoodText = {a}
    BadText = {x}
    None = None
    MaxTexts = 2
    MaxSize = 2
    Archsize = {0, 2}
SPECIFICATION FairSpec
INVARIANTS
    TypeOK
    ParsedRight
    RestingOpen
PROPERTIES
    WarmStaysSafe
    Archived
CHECK_DEADLOCK FALSE
