\* Two requests at a time for one address with two slots, with and without a
\* negative number of retries.
CONSTANTS
    a = a  b = b  c = c  x = x  y = y
    IP = {a}
    Req = {r1, r2}
    SNMP = {s1, s2, m1}
    Mute = {m1}
    Nil = Nil
    MaxIdleSess = 2
    Maxlifetime = 0
    Arg = {x, y}
    Negative = {y}
    V6 = {}
    MaxTasks = 1
    MaxCount = 1
    Input <- OneAddressMute
    Limits = {2}
    MaxLimit = 2
SPECIFICATION Spec
SYMMETRY Symmetry
INVARIANTS
    TypeOK
    OneSlotPerSession
    CachedOpen
    SweepUndisturbed
    SerialUnlessDisturbed
    DeathNeedsDisturbance
PROPERTIES
    PoolSpec
CHECK_DEADLOCK FALSE
