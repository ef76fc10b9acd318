----------------------------- MODULE SnmpClient -----------------------------
(***************************************************************************)
(* One SNMP session from the agent's side: NewSNMP, Open, GetRequest and   *)
(* Close of snmpgo, with its retry loop, its request and message ids and   *)
(* the discovery and time synchronisation of version 3, over a network     *)
(* that loses, delays, reorders and duplicates packets, to a device that   *)
(* may restart.                                                            *)
(*                                                                         *)
(* The session is used by one caller at a time.  A request is made by      *)
(* SnmpGet: if it fails, Kick closes the session, provided the session is  *)
(* cached under a key that Kick finds; otherwise it stays open.            *)
(***************************************************************************)
EXTENDS Integers, FiniteSets

CONSTANTS
    Oid, None,
    Version,      \* "v2c", "noAuthNoPriv" and "authNoPriv" (the last two v3)
    Retry,        \* the values of the parameter retry; None if not an integer
    DefaultRetry, \* config.Cfg.Retry
    Width,        \* the width of int and uint in bits
    RequestId,    \* names for request ids
    MaxNet,       \* most packets under way: more are lost
    MaxClock,     \* bound of the device's time
    MaxRestarts   \* bound of the number of restarts of the device

ASSUME ClientAssumption ==
    /\ None \notin Oid \cup RequestId
    /\ Retry \subseteq Int \cup {None} /\ DefaultRetry \in Int
    /\ Width \in Nat \ {0}
    /\ MaxNet \in Nat /\ IsFiniteSet(RequestId) /\ Cardinality(RequestId) > MaxNet
    /\ MaxClock \in Nat /\ MaxRestarts \in Nat

VARIABLES
    up,       \* the process has not died
    client,   \* the session's arguments: version, Retries, cached
    conn,     \* whether it has a connection
    usm,      \* DiscoveryStatus and AuthEngineBoots of its version 3 engine
    cur,      \* the pdu being sent: "none", "engineId", "sync" or "get"
    want,     \* the variable asked for
    i,        \* the retry counter of sendPdu
    rid,      \* the request id in use, None between two requests
    net,      \* the packets under way on this connection
    dev,      \* the device: how often restarted, its engine boots, and the last
              \* restart at which it lost their count (0 if none)
    clock, since, outcome, pdu,  \* as in SnmpService
    late,     \* history: a try of this connection ended before its answer came
    known     \* history: restarts of the device the client had learned of
              \* when the request began

deviceVars == <<dev, clock>>

callVars == <<cur, i, rid>>

resultVars == <<want, since, outcome, pdu>>

vars == <<up, client, conn, usm, callVars, net, deviceVars, resultVars, late, known>>

Failure == {"timeout", "stale", "untimely", "window", "io"}

NewEngine == [status |-> "noDiscovered", boots |-> 0]

NoClient == [version |-> "v2c", Retries |-> 0, cached |-> FALSE]

NoReading == [oid |-> None, at |-> 0]

Init ==
    /\ up = TRUE
    /\ client = NoClient
    /\ conn = FALSE
    /\ usm = NewEngine
    /\ cur = "none" /\ i = 0 /\ rid = None
    /\ net = {}
    /\ dev = [restarts |-> 0, boots |-> 2, lost |-> 0]
    /\ clock = 0 /\ since = 0 /\ want = None
    /\ outcome = "none" /\ pdu = NoReading
    /\ late = FALSE /\ known = 0

-----------------------------------------------------------------------------
(* The number of retries, from the form to the loop.                       *)

Getretry(ru, rs) == IF ru = None THEN rs ELSE ru

\* int to uint in SnmpCol and back in snmpgo.
uint(n) == n % 2^Width

int(u) == IF u >= 2^(Width - 1) THEN u - 2^Width ELSE u

\* The loop "i := 0; i <= Retries" does nothing at all.
NoTry(n) == n < 0

-----------------------------------------------------------------------------
(* Sending.                                                                *)

V3 == client.version # "v2c"

\* The id of a new request is not that of an answer still under way; with 31
\* random bits it is not.
NewRequestId == CHOOSE id \in RequestId : \A m \in net : m.rid # id

\* PrepareOutgoingMessage, GenerateRequestMessage and Write of try n, for a
\* client c with engine u.  A version 3 try has a message id of its own.
Packet(c, u, p, oid, n, id) ==
    [type |-> "request", op |-> p, oid |-> IF p = "get" THEN oid ELSE None, rid |-> id,
     try |-> IF c.version = "v2c" THEN 0 ELSE n,
     auth |-> c.version = "authNoPriv" /\ p # "engineId",
     boots |-> IF u.status = "discovered" THEN u.boots ELSE 0,
     at |-> 0, restarts |-> 0]

Put(ms, m) == IF Cardinality(ms) < MaxNet THEN ms \cup {m} ELSE ms

SendPdu(c, u, ms, p, oid, n, id) ==
    /\ cur' = p /\ i' = n /\ rid' = id
    /\ net' = Put(ms, Packet(c, u, p, oid, n, id))

\* sendPdu is called with a new pdu.
Start(c, u, ms, p, oid) == SendPdu(c, u, ms, p, oid, 0, NewRequestId)

\* Send the same pdu again.
Resend(u, ms) == SendPdu(client, u, ms, cur, want, i + 1, rid)

-----------------------------------------------------------------------------
(* Returning.                                                              *)

\* The call is over.
Over == want' = None /\ since' = 0 /\ cur' = "none" /\ i' = 0 /\ rid' = None

\* Faulty variant of Close: what is under way finds the next connection.
CloseLeavesPackets ==
    /\ client' = NoClient /\ conn' = FALSE /\ usm' = NewEngine /\ net' = net
    /\ late' = FALSE /\ known' = 0

\* Close drops the socket and with it all packets under way to it; the client
\* is not used again.
Close ==
    /\ client' = NoClient /\ conn' = FALSE /\ usm' = NewEngine /\ net' = {}
    /\ late' = FALSE /\ known' = 0

\* The request fails with outcome o.  A failed Open closes the connection, and
\* so does Kick, if it finds the session.
Fail(o, u, ms) ==
    /\ outcome' = o
    /\ Over
    /\ IF cur # "get" \/ client.cached
       THEN Close
       ELSE usm' = u /\ net' = ms /\ late' = TRUE /\ UNCHANGED <<client, conn, known>>
    /\ UNCHANGED <<up, deviceVars, pdu>>

-----------------------------------------------------------------------------
(* The caller's side: Open and GetRequest.                                 *)

Ask(q) ==
    /\ want' = q /\ since' = clock /\ outcome' = "none" /\ pdu' = NoReading
    /\ UNCHANGED deviceVars

\* A request on the open session.
Get(q) ==
    /\ up /\ cur = "none" /\ conn
    /\ Ask(q)
    /\ Start(client, usm, net, "get", q)
    /\ UNCHANGED <<up, client, conn, usm, late, known>>

\* A request on a new client: Dial may fail, version 3 begins with Discover.
\* If the loop of Open does not run, the connection stays nil without an error:
\* version 2c goes on to a nil pdu, which SnmpGet dereferences; Discover of
\* version 3 calls Open again, without end.
Connect(q) ==
    \E v \in Version, ru \in Retry, cached \in BOOLEAN :
        LET c == [version |-> v, cached |-> cached,
                  Retries |-> int(uint(Getretry(ru, DefaultRetry)))]
        IN  /\ up /\ cur = "none" /\ ~conn
            /\ UNCHANGED <<usm, late, known>>
            /\ \/ /\ NoTry(c.Retries)
                  /\ up' = FALSE /\ client' = c
                  /\ Ask(q)
                  /\ UNCHANGED <<conn, callVars, net>>
               \/ /\ ~NoTry(c.Retries)
                  /\ outcome' = "io" /\ pdu' = NoReading
                  /\ UNCHANGED <<up, client, conn, callVars, net, want, since, deviceVars>>
               \/ /\ ~NoTry(c.Retries)
                  /\ conn' = TRUE /\ client' = c
                  /\ Ask(q)
                  /\ Start(c, NewEngine, net, IF v = "v2c" THEN "get" ELSE "engineId", q)
                  /\ UNCHANGED up

\* The pool closes a session that is not in use.
Drop ==
    /\ up /\ cur = "none" /\ conn
    /\ Close
    /\ UNCHANGED <<up, callVars, deviceVars, resultVars>>

\* Faulty variant of TryAgain: one try too many.
TryAgainOnceMore(o, u, ms, l) ==
    \/ /\ i <= client.Retries
       /\ Resend(u, ms) /\ usm' = u /\ late' = l
       /\ UNCHANGED <<up, client, conn, deviceVars, resultVars, known>>
    \/ i > client.Retries /\ Fail(o, u, ms)

\* Faulty variant of TryAgain: the try does not count.
TryAgainUncounted(o, u, ms, l) ==
    \/ /\ client.Retries > 0
       /\ SendPdu(client, u, ms, cur, want, i, rid) /\ usm' = u /\ late' = l
       /\ UNCHANGED <<up, client, conn, deviceVars, resultVars, known>>
    \/ client.Retries <= 0 /\ Fail(o, u, ms)

\* The error of a try is one that is retried: next round of the loop, or
\* give up.  l is the next value of late.  (For the greatest integer i would
\* wrap around instead, after as many timeouts.)
TryAgain(o, u, ms, l) ==
    \/ /\ i < client.Retries
       /\ Resend(u, ms) /\ usm' = u /\ late' = l
       /\ UNCHANGED <<up, client, conn, deviceVars, resultVars, known>>
    \/ i = client.Retries /\ Fail(o, u, ms)

\* Read meets its deadline.
Timeout ==
    /\ up /\ cur # "none"
    /\ TryAgain("timeout", usm, net, TRUE)

\* Write or Read fails otherwise, as when the port is unreachable.
IOError ==
    /\ up /\ cur # "none"
    /\ Fail("io", usm, net)

-----------------------------------------------------------------------------
(* Receiving.                                                              *)

\* Faulty variant of Own: any answer will do.
AnyAnswer(m) == TRUE

\* The checks of the request id and, in version 3, of the message id.
Own(m) == m.rid = rid /\ (V3 => m.try = i)

\* Faulty variant of Synchronized: the boots of the answer are not taken over.
SynchronizedOnce(m) ==
    CASE usm.status = "noDiscovered" -> [usm EXCEPT !.status = "noSynchronized"]
      [] usm.status = "noSynchronized" /\ m.auth -> [status |-> "discovered", boots |-> m.boots]
      [] OTHER -> usm

\* The engine after ProcessIncomingMessage of m.
Synchronized(m) ==
    CASE usm.status = "noDiscovered" -> [usm EXCEPT !.status = "noSynchronized"]
      [] usm.status = "discovered" /\ m.auth /\ m.boots < usm.boots ->
            [status |-> "noSynchronized", boots |-> 0]
      [] usm.status # "noDiscovered" /\ m.auth -> [status |-> "discovered", boots |-> m.boots]
      [] OTHER -> usm

\* Faulty variant of Untimely: any other boots will not do.
UntimelyOther(m) == usm.status = "discovered" /\ m.auth /\ m.boots # usm.boots

\* CheckTimeliness: the answer is older than what the client knows.  Of equal
\* boots it compares the engine's time, with 150s of tolerance; see Restart.
Untimely(m) == usm.status = "discovered" /\ m.auth /\ m.boots < usm.boots

\* The answer to an empty pdu of Discover, whatever it says, is followed by the
\* next pdu.
Discovered(m, u, ms) ==
    /\ Start(client, u, ms,
             IF cur = "engineId" /\ client.version = "authNoPriv" THEN "sync" ELSE "get", want)
    /\ usm' = u
    /\ known' = IF m.auth THEN m.restarts ELSE known
    /\ UNCHANGED <<up, client, conn, deviceVars, resultVars, late>>

Succeed(m, u, ms) ==
    /\ outcome' = "ok" /\ pdu' = [oid |-> m.oid, at |-> m.at]
    /\ Over
    /\ usm' = u /\ net' = ms
    /\ known' = IF m.auth THEN m.restarts ELSE known
    /\ UNCHANGED <<up, client, conn, deviceVars, late>>

\* Read returns packet m: PrepareDataElements and checkPdu.
Read(m) ==
    LET ms == net \ {m}
        u == IF V3 THEN Synchronized(m) ELSE usm
    IN  /\ up /\ cur # "none" /\ m.type # "request"
        /\ CASE ~Own(m) -> Fail("stale", usm, ms)
             [] Own(m) /\ V3 /\ Untimely(m) -> Fail("untimely", u, ms)
             [] Own(m) /\ ~(V3 /\ Untimely(m)) /\ cur # "get" -> Discovered(m, u, ms)
             [] Own(m) /\ ~(V3 /\ Untimely(m)) /\ cur = "get" /\ m.type = "response" ->
                   Succeed(m, u, ms)
             [] OTHER -> TryAgain("window", u, ms, late)

-----------------------------------------------------------------------------
(* The network and the device (external).                                  *)

\* The device answers request m: it reports an unknown engine id, reports that
\* the request is outside of the time window, or reads the variable.  The
\* request may come again, duplicated by the network.
Respond(m) ==
    LET type == CASE m.op = "engineId" -> "report"
                  [] m.op # "engineId" /\ m.auth /\ m.boots # dev.boots -> "window"
                  [] OTHER -> "response"
        a == [m EXCEPT !.type = type, !.at = clock,
                       !.boots = dev.boots, !.restarts = dev.restarts]
    IN  /\ m.type = "request"
        /\ \/ net' = Put(net \ {m}, a) /\ UNCHANGED late
           \/ net' = Put(net, a) /\ late' = TRUE
        /\ UNCHANGED <<up, client, conn, usm, callVars, deviceVars, resultVars, known>>

Lose(m) ==
    /\ net' = net \ {m}
    /\ UNCHANGED <<up, client, conn, usm, callVars, deviceVars, resultVars, late, known>>

Change ==
    /\ clock < MaxClock
    /\ clock' = clock + 1
    /\ UNCHANGED <<up, client, conn, usm, callVars, net, dev, resultVars, late, known>>

\* The device restarts and counts its boots, or has lost the count.  The number
\* boots stands for the pair of boots and time of the engine as far as the time
\* window tells it apart: a device that comes back with the boots it had is seen
\* as one with the same number within the 150s, and else as one with a smaller.
Restart ==
    /\ dev.restarts < MaxRestarts
    /\ \E b \in 1 .. dev.boots + 1 :
          dev' = [restarts |-> dev.restarts + 1, boots |-> b,
                  lost |-> IF b > dev.boots THEN dev.lost ELSE dev.restarts + 1]
    /\ UNCHANGED <<up, client, conn, usm, callVars, net, clock, resultVars, late, known>>

Next ==
    \/ \E q \in Oid : Get(q) \/ Connect(q)
    \/ Drop \/ Timeout \/ IOError
    \/ \E m \in net : Read(m) \/ Respond(m) \/ Lose(m)
    \/ Change \/ Restart

Spec == Init /\ [][Next]_vars

\* Every Read has a deadline (SetDeadline); nothing else is certain.
FairSpec == Spec /\ WF_vars(Timeout)

-----------------------------------------------------------------------------
(* Properties.                                                             *)

\* The types; a request is never sent more than Retries times again.
TypeOK ==
    /\ up \in BOOLEAN /\ conn \in BOOLEAN /\ late \in BOOLEAN
    /\ client.version \in Version \cup {"v2c"} /\ client.cached \in BOOLEAN
    /\ client.Retries \in -(2^(Width - 1)) .. 2^(Width - 1) - 1
    /\ usm.status \in {"noDiscovered", "noSynchronized", "discovered"}
    /\ usm.boots \in Nat
    /\ cur \in {"none", "engineId", "sync", "get"}
    /\ cur # "none" => conn /\ want \in Oid /\ i \in 0 .. client.Retries
    /\ rid \in RequestId \cup {None} /\ (rid = None <=> cur = "none")
    /\ Cardinality(net) <= MaxNet
    /\ outcome \in {"none", "ok"} \cup Failure
    /\ known \in 0 .. dev.restarts

Service ==
    INSTANCE SnmpService WITH result <- IF outcome \in Failure THEN "error" ELSE outcome

\* Whatever the network does, a reading that is returned is one of the variable
\* asked for, made after it was asked for: retries that use one request id,
\* late answers and duplicates never mix up two requests (mprocessing.go:87).
ReadingIsOwn == Service!Spec

\* A request fails over an answer that is not its own only if an earlier try on
\* this very connection was given up or duplicated: on a session that Kick finds
\* one late answer costs one request, because closing the session (snmp.go:123)
\* gets rid of the others.
StaleNeedsLateAnswer == [][outcome # "stale" /\ outcome' = "stale" => late]_vars

\* What a restart of the device costs if no packet is late.  One that counts its
\* boots costs no request that may be retried: a report synchronises the client
\* for the next try (engine.go:73), so that the request only fails when the device
\* restarts again before every try.  A report with boots that went backwards is
\* not retried but fails the request at once (CheckTimeliness, security.go:265):
\* that happens only if the count was lost since the client last learned it.
RestartCost ==
    [][~late =>
          /\ outcome # "window" /\ outcome' = "window" =>
                dev.restarts - known > client.Retries
          /\ outcome # "untimely" /\ outcome' = "untimely" => dev.lost > known]_vars

\* Every request returns, whatever comes and does not come back.
Returns == cur # "none" ~> cur = "none"
=============================================================================
