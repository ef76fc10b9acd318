\* Two requests one after the other and a limit of one session.
CONSTANTS
    a = a  b = b  c = c  x = x  y = y
    IP = {a}
    Req = {r1, r2}
    SNMP = {s1, s2}
    Mute = {}
    Nil = Nil
    MaxIdleSess = 1
    Maxlifetime = 0
    Arg = {x, y}
    Negative = {}
    V6 = {}
    MaxTasks = 1
    MaxCount = 1
    Input <- OneAddress
    Limits = {1}
    MaxLimit = 1
SPECIFICATION Spec
PROPERTIES
    RefusalMeansFull
CHECK_DEADLOCK FALSE
