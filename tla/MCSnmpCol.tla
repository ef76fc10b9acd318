----------------------------- MODULE MCSnmpCol -----------------------------
(* Small instances of SnmpCol: the sets of requests that may arrive.       *)
EXTENDS SnmpCol, TLC

CONSTANTS a, b, c, x, y  \* addresses and SNMP arguments

Simple(ip, arg) == [ip |-> ip, arg |-> arg, tasks |-> 1, count |-> 1, bad |-> 0]

\* One segment, once, for one address.
OneAddress == {Simple(a, x)}

\* With arguments x or y, of which a run may make one negative in its retries.
OneAddressMute == {Simple(a, x), Simple(a, y)}

TwoAddresses == {Simple(a, x), Simple(b, x)}

\* No repetition at all: the session is fetched, held and freed.
ThreeAddresses == {[Simple(ip, x) EXCEPT !.count = 0] : ip \in {a, b, c}}

\* Two repetitions, two segments, a malformed segment.
Loop(n, m, k) == [ip |-> a, arg |-> x, tasks |-> m, count |-> n, bad |-> k]

Loops == {Loop(2, 1, 0), Loop(1, 2, 0), Loop(1, 2, 2)}

Symmetry ==
    Permutations(Req) \cup Permutations(SNMP \ Mute) \cup Permutations(Mute)

LimitSymmetry == Symmetry \cup Permutations({a, b, c})
=============================================================================
