\* Two requests at a time for one address with two slots.
CONSTANTS
    a = a  b = b  c = c  x = x  y = y
    IP = {a}
    Req = {r1, r2}
    SNMP = {s1, s2, s3}
    Mute = {}
    Nil = Nil
    MaxIdleSess = 2
    Maxlifetime = 0
    Arg = {x, y}
    Negative = {}
    V6 = {}
    MaxTasks = 1
    MaxCount = 1
    Input <- OneAddress
    Limits = {2}
    MaxLimit = 2
SPECIFICATION Spec
INVARIANTS
    SerialUse
CHECK_DEADLOCK FALSE
