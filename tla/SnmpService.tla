---------------------------- MODULE SnmpService ----------------------------
(***************************************************************************)
(* What a caller of an SNMP client may rely on.  It asks one question at a *)
(* time and gets an error or a reading of the variable it asked for, taken *)
(* between the question and the reply: never the reading of another        *)
(* variable and never one from before the question.                        *)
(***************************************************************************)
EXTENDS Integers

CONSTANTS Oid, None

VARIABLES
    clock,   \* the device's time, which tells its readings apart
    want,    \* the variable asked for, None between two questions
    since,   \* the device's time when it was asked, 0 between two questions
    result,  \* how the last question ended: "none", "ok", "error"
    pdu      \* the reading it returned

vars == <<clock, want, since, result, pdu>>

NoReading == [oid |-> None, at |-> 0]

Init ==
    /\ clock = 0 /\ since = 0
    /\ want = None
    /\ result = "none"
    /\ pdu = NoReading

Change ==
    /\ clock' = clock + 1
    /\ UNCHANGED <<want, since, result, pdu>>

Ask ==
    /\ want = None
    /\ want' \in Oid
    /\ since' = clock
    /\ result' = "none" /\ pdu' = NoReading
    /\ UNCHANGED clock

Reply ==
    /\ want # None
    /\ want' = None /\ since' = 0
    /\ \/ /\ result' = "ok"
          /\ \E t \in since .. clock : pdu' = [oid |-> want, at |-> t]
       \/ result' = "error" /\ UNCHANGED pdu
    /\ UNCHANGED clock

\* The question ends in the step that asks it, with an error.
Refuse ==
    /\ want = None
    /\ result' = "error" /\ pdu' = NoReading
    /\ UNCHANGED <<clock, want, since>>

Next == Change \/ Ask \/ Reply \/ Refuse

Spec == Init /\ [][Next]_vars
=============================================================================
