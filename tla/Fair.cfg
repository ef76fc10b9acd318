\* Two requests for one address under fair scheduling.
CONSTANTS
    a = a  b = b  c = c  x = x  y = y
    IP = {a}
    Req = {r1, r2}
    SNMP = {s1, s2}
    Mute = {}
    Nil = Nil
    MaxIdleSess = 1
    Maxlifetime = 0
    Arg = {x}
    Negative = {}
    V6 = {}
    MaxTasks = 1
    MaxCount = 1
    Input <- OneAddress
    Limits = {2}
    MaxLimit = 2
SPECIFICATION FairSpec
PROPERTIES
    Answered
    Drained
CHECK_DEADLOCK FALSE
