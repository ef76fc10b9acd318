\* Two requests at a time for three addresses that pass the same limit check, and
\* a limit that changes while they run.
CONSTANTS
    a = a  b = b  c = c  x = x  y = y
    IP = {a, b, c}
    Req = {r1, r2}
    SNMP = {s1, s2}
    Mute = {}
    Nil = Nil
    MaxIdleSess = 1
    Maxlifetime = 0
    Arg = {x}
    Negative = {}
    V6 = {}
    MaxTasks = 1
    MaxCount = 1
    Input <- ThreeAddresses
    Limits = {0, 1}
    MaxLimit = 1
SPECIFICATION Spec
SYMMETRY LimitSymmetry
INVARIANTS
    KeyBound
CHECK_DEADLOCK FALSE
