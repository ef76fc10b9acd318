\* One session after another to one device, version 2c and 3, two packets under
\* way at a time.
CONSTANTS
    Oid = {p}
    None = None
    Version = {"v2c", "noAuthNoPriv", "authNoPriv"}
    Retry <- SomeRetries
    DefaultRetry = 0
    Width = 4
    RequestId = {1, 2, 3}
    MaxNet = 2
    MaxClock = 1
    MaxRestarts = 2
SPECIFICATION FairSpec
INVARIANTS
    TypeOK
PROPERTIES
    ReadingIsOwn
    RestartCost
    StaleNeedsLateAnswer
    Returns
CHECK_DEADLOCK FALSE
