\* Two requests for two addresses, one an IPv6 literal, and a changing limit.
CONSTANTS
    a = a  b = b  c = c  x = x  y = y
    IP = {a, b}
    Req = {r1, r2}
    SNMP = {s1, s2}
    Mute = {}
    Nil = Nil
    MaxIdleSess = 1
    Maxlifetime = 0
    Arg = {x}
    Negative = {}
    V6 = {b}
    MaxTasks = 1
    MaxCount = 1
    Input <- TwoAddresses
    Limits = {1, 2}
    MaxLimit = 2
SPECIFICATION Spec
SYMMETRY Symmetry
INVARIANTS
    OwnHost
CHECK_DEADLOCK FALSE
