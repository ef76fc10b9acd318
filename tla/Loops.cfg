\* Two requests with several repetitions or segments for one address.
CONSTANTS
    a = a  b = b  c = c  x = x  y = y
    IP = {a}
    Req = {r1, r2}
    SNMP = {s1, s2}
    Mute = {}
    Nil = Nil
    MaxIdleSess = 1
    Maxlifetime = 0
    Arg = {x}
    Negative = {}
    V6 = {}
    MaxTasks = 2
    MaxCount = 2
    Input <- Loops
    Limits = {2}
    MaxLimit = 2
SPECIFICATION Spec
SYMMETRY Symmetry
INVARIANTS
    SerialUnlessDisturbed
    CleanAnswerIsComplete
    NoneStranded
CHECK_DEADLOCK FALSE
