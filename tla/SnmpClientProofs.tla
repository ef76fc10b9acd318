-------------------------- MODULE SnmpClientProofs --------------------------
(***************************************************************************)
(* Safety of one SNMP session for every set of variables, request ids and  *)
(* retries, every width of int and every size of the network: a reading    *)
(* that is returned answers the question that was asked, and what the      *)
(* failures of a request need.                                             *)
(*                                                                         *)
(* The invariant follows the packets.  A packet with the request id in use *)
(* was sent for the pdu in use, and its answer was made since the question *)
(* was asked (Answers).  As long as no try was given up or duplicated the  *)
(* network holds one packet, of the try under way (Punctual), and the      *)
(* client knows the device's boots unless the device restarted once more   *)
(* than the request was tried again (Synchronous).  What it knows of them  *)
(* is not ahead of the device unless the device lost the count (Orderly).  *)
(***************************************************************************)
EXTENDS SnmpClient, FiniteSetTheorems, TLAPS

PacketType ==
    [type : {"request", "report", "window", "response"}, op : {"engineId", "sync", "get"},
     oid : Oid \cup {None}, rid : RequestId, try : Nat, auth : BOOLEAN,
     boots : Nat, at : Nat, restarts : Nat]

Int_w == -(2^(Width - 1)) .. 2^(Width - 1) - 1

ClientType == [version : Version \cup {"v2c"}, Retries : Int_w, cached : BOOLEAN]

EngineType == [status : {"noDiscovered", "noSynchronized", "discovered"}, boots : Nat]

\* The types of the state.
Types ==
    /\ up \in BOOLEAN /\ conn \in BOOLEAN /\ late \in BOOLEAN
    /\ client \in ClientType /\ usm \in EngineType
    /\ cur \in {"none", "engineId", "sync", "get"} /\ i \in Nat
    /\ rid \in RequestId \cup {None} /\ want \in Oid \cup {None}
    /\ net \in SUBSET PacketType /\ IsFiniteSet(net) /\ Cardinality(net) <= MaxNet
    /\ dev \in [restarts : Nat, boots : Nat, lost : Nat] /\ dev.lost <= dev.restarts
    /\ clock \in Nat /\ since \in 0 .. clock
    /\ outcome \in {"none", "ok"} \cup Failure
    /\ known \in 0 .. dev.restarts

\* Where the call is; a client without a connection is a new one.
Phase ==
    /\ IF cur = "none" THEN i = 0 /\ rid = None ELSE i <= client.Retries /\ rid # None
    /\ cur # "none" => up /\ conn /\ want # None
    /\ cur = "none" /\ up => want = None
    /\ IF conn THEN client.Retries >= 0 ELSE usm = NewEngine /\ net = {} /\ ~late /\ known = 0
    /\ ~up => ~conn /\ client.Retries < 0
    /\ cur = "sync" => usm.status # "noDiscovered"

\* What every packet says of its sender and of the device.
Packets ==
    \A m \in net :
        /\ m.auth <=> client.version = "authNoPriv" /\ m.op # "engineId"
        /\ m.type = "report" => m.op = "engineId"
        /\ m.type = "window" => m.auth
        /\ m.restarts <= dev.restarts
        /\ m.type # "request" /\ m.restarts = dev.restarts => m.boots = dev.boots
        /\ m.type # "request" /\ dev.lost <= m.restarts => m.boots <= dev.boots

\* A packet with the request id in use is one for the pdu in use, and an answer
\* was made after the question.
Answers ==
    \A m \in net :
        m.rid = rid =>
            /\ m.op = cur
            /\ cur = "get" => m.oid = want
            /\ m.type # "request" => m.at \in since .. clock

\* If no try was given up or duplicated, at most one packet is under way, and it
\* is one of the try under way.
Punctual ==
    ~late => /\ cur = "none" => net = {}
             /\ \A m \in net : Own(m)
             /\ \A m, n \in net : m = n

\* Then a device that wants authentication has restarted once per try, or the
\* client knows its boots.
Synchronous ==
    ~late /\ client.version = "authNoPriv" =>
        /\ conn /\ cur \in {"none", "get"} =>
              /\ usm.status = "discovered" /\ known + i <= dev.restarts
              /\ known + i = dev.restarts => usm.boots = dev.boots
        /\ cur = "get" =>
              \A m \in net : /\ m.type = "request" => m.boots = usm.boots
                             /\ m.type = "window" => m.restarts > known + i

\* And then neither the device nor its answer is behind what the client knows,
\* unless the count of the boots was lost since.
Orderly ==
    ~late /\ client.version = "authNoPriv" /\ usm.status = "discovered" /\ dev.lost <= known =>
        /\ usm.boots <= dev.boots
        /\ \A m \in net : m.type # "request" => usm.boots <= m.boots

\* The inductive invariant.
ClientInv == Types /\ Phase /\ Packets /\ Answers /\ Punctual /\ Synchronous /\ Orderly
-----------------------------------------------------------------------------
(* Powers of two: the subsets of 1 .. w are counted.                       *)

\* A power of two is positive.
LEMMA PowerPositive ==
    ASSUME NEW w \in Nat
    PROVE  2^w \in Nat \ {0}
<1>1. IsFiniteSet(1 .. w) /\ Cardinality(1 .. w) = w
  BY FS_Interval
<1>2. IsFiniteSet(SUBSET (1 .. w)) /\ Cardinality(SUBSET (1 .. w)) = 2^w
  BY <1>1, FS_SUBSET
<1>3. Cardinality(SUBSET (1 .. w)) \in Nat
  BY <1>2, FS_CardinalityType
<1>4. SUBSET (1 .. w) # {}
  OBVIOUS
<1>5. Cardinality(SUBSET (1 .. w)) # 0
  BY <1>2, <1>4, FS_EmptySet
<1>6. QED
  BY <1>2, <1>3, <1>5

\* One bit more doubles it.
LEMMA PowerDouble ==
    ASSUME NEW w \in Nat
    PROVE  2^(w + 1) = 2^w + 2^w
<1> DEFINE S == SUBSET (1 .. w)
           T == {X \cup {w + 1} : X \in S}
           f == [X \in S |-> X \cup {w + 1}]
<1>1. IsFiniteSet(S) /\ Cardinality(S) = 2^w /\ Cardinality(S) \in Nat
  <2>1. IsFiniteSet(1 .. w) /\ Cardinality(1 .. w) = w
    BY FS_Interval
  <2>2. QED
    BY <2>1, FS_SUBSET, FS_CardinalityType
<1>2. Cardinality(SUBSET (1 .. w + 1)) = 2^(w + 1)
  <2>1. IsFiniteSet(1 .. w + 1) /\ Cardinality(1 .. w + 1) = w + 1
    BY FS_Interval
  <2>2. QED
    BY <2>1, FS_SUBSET
<1>3. \A X \in S : w + 1 \notin X
  OBVIOUS
<1>4. f \in Bijection(S, T)
  <2>1. f \in [S -> T] /\ \A t \in T : \E X \in S : f[X] = t
    OBVIOUS
  <2>2. ASSUME NEW X \in S, NEW Y \in S, f[X] = f[Y]
        PROVE  X = Y
    <3>1. w + 1 \notin X /\ w + 1 \notin Y
      BY <1>3
    <3>2. X \cup {w + 1} = Y \cup {w + 1}
      BY <2>2
    <3>3. X = (X \cup {w + 1}) \ {w + 1} /\ Y = (Y \cup {w + 1}) \ {w + 1}
      BY <3>1
    <3>4. QED
      BY <3>2, <3>3
  <2> HIDE DEF S, T, f
  <2>3. QED
    BY <2>1, <2>2 DEF Bijection, Injection, Surjection, IsInjective
<1>5. S \cap T = {}
  BY <1>3
<1>6. SUBSET (1 .. w + 1) = S \cup T
  <2>1. ASSUME NEW X \in SUBSET (1 .. w + 1)
        PROVE  X \in S \cup T
    <3>1. CASE w + 1 \notin X
      BY <3>1
    <3>2. CASE w + 1 \in X
      <4>1. X \ {w + 1} \in S /\ X = (X \ {w + 1}) \cup {w + 1}
        BY <3>2
      <4>2. QED
        BY <4>1
    <3>3. QED
      BY <3>1, <3>2
  <2>2. ASSUME NEW X \in S \cup T
        PROVE  X \in SUBSET (1 .. w + 1)
    OBVIOUS
  <2>3. QED
    BY <2>1, <2>2
<1> HIDE DEF S, T, f
<1>7. IsFiniteSet(T) /\ Cardinality(T) = Cardinality(S)
  BY <1>1, <1>4, FS_Bijection DEF ExistsBijection
<1>8. Cardinality(S \cup T) = Cardinality(S) + Cardinality(T)
  BY <1>1, <1>5, <1>7, FS_Union, FS_EmptySet
<1>9. QED
  BY <1>1, <1>2, <1>6, <1>7, <1>8

\* Whatever integer the form holds, the conversion to uint and back is an int of
\* the machine.
LEMMA RetriesType ==
    ASSUME NEW n \in Int
    PROVE  int(uint(n)) \in Int_w
<1> DEFINE h == 2^(Width - 1)
<1>1. h \in Nat \ {0} /\ 2^Width = h + h
  <2>1. Width - 1 \in Nat /\ (Width - 1) + 1 = Width
    BY ClientAssumption
  <2>2. QED
    BY <2>1, PowerPositive, PowerDouble
<1> HIDE DEF h
<1>2. n % (h + h) \in 0 .. h + h - 1
  BY <1>1
<1>3. QED
  BY <1>1, <1>2 DEF int, uint, Int_w, h

\* The retries of a client are an integer.
LEMMA RetriesInt ==
    ASSUME NEW c \in ClientType
    PROVE  c.Retries \in Int
<1>1. c.Retries \in Int_w
  BY DEF ClientType
<1>2. 2^(Width - 1) \in Nat
  BY PowerPositive, ClientAssumption
<1>3. QED
  BY <1>1, <1>2 DEF Int_w

-----------------------------------------------------------------------------
(* Packets.                                                                *)

\* Some of the packets under way are still no more than fit.
LEMMA FewerPackets ==
    ASSUME Types, NEW ms \in SUBSET net
    PROVE  ms \in SUBSET PacketType /\ IsFiniteSet(ms) /\ Cardinality(ms) <= MaxNet
<1>1. net \in SUBSET PacketType /\ IsFiniteSet(net) /\ Cardinality(net) <= MaxNet
  BY DEF Types
<1>2. IsFiniteSet(ms) /\ Cardinality(ms) <= Cardinality(net)
  BY <1>1, FS_Subset
<1>3. Cardinality(ms) \in Nat /\ Cardinality(net) \in Nat
  BY <1>1, <1>2, FS_CardinalityType
<1>4. QED
  BY <1>1, <1>2, <1>3, ClientAssumption

\* A packet that does not fit is lost, nothing else is.
LEMMA PutType ==
    ASSUME NEW ms \in SUBSET PacketType, IsFiniteSet(ms), Cardinality(ms) <= MaxNet,
           NEW m \in PacketType
    PROVE  /\ Put(ms, m) \in SUBSET PacketType /\ Put(ms, m) \subseteq ms \cup {m}
           /\ IsFiniteSet(Put(ms, m)) /\ Cardinality(Put(ms, m)) <= MaxNet
<1>1. Cardinality(ms) \in Nat
  BY FS_CardinalityType
<1>2. IsFiniteSet(ms \cup {m}) /\ Cardinality(ms \cup {m}) <= Cardinality(ms) + 1
  <2>1. /\ IsFiniteSet(ms \cup {m})
        /\ Cardinality(ms \cup {m}) = IF m \in ms THEN Cardinality(ms) ELSE Cardinality(ms) + 1
    BY FS_AddElement
  <2>2. QED
    BY <1>1, <2>1
<1>3. Cardinality(ms \cup {m}) \in Nat
  BY <1>2, FS_CardinalityType
<1>4. CASE Cardinality(ms) < MaxNet
  <2>1. Put(ms, m) = ms \cup {m} /\ Cardinality(ms) + 1 <= MaxNet
    BY <1>1, <1>4, ClientAssumption DEF Put
  <2>2. Cardinality(ms \cup {m}) <= MaxNet
    BY <1>1, <1>2, <1>3, <2>1, ClientAssumption
  <2>3. QED
    BY <1>2, <2>1, <2>2
<1>5. CASE ~(Cardinality(ms) < MaxNet)
  BY <1>5 DEF Put
<1>6. QED
  BY <1>4, <1>5

\* A request that is sent, field by field.
LEMMA PacketFields ==
    ASSUME NEW c \in ClientType, NEW u \in EngineType, NEW p \in {"engineId", "sync", "get"},
           NEW q \in Oid, NEW n \in Nat, NEW id \in RequestId
    PROVE  LET m == Packet(c, u, p, q, n, id)
           IN  /\ m \in PacketType
               /\ m.type = "request" /\ m.op = p /\ m.rid = id
               /\ p = "get" => m.oid = q
               /\ c.version # "v2c" => m.try = n
               /\ m.auth <=> c.version = "authNoPriv" /\ p # "engineId"
               /\ u.status = "discovered" => m.boots = u.boots
               /\ m.restarts = 0
BY DEF Packet, PacketType, EngineType, ClientType

\* There are more request ids than packets, so a new one is not under way.
LEMMA FreshId ==
    ASSUME Types
    PROVE  NewRequestId \in RequestId /\ \A m \in net : m.rid # NewRequestId
<1> DEFINE Used == {m.rid : m \in net}
<1>1. IsFiniteSet(net) /\ Cardinality(net) <= MaxNet
  BY DEF Types
<1>2. IsFiniteSet(Used) /\ Cardinality(Used) <= Cardinality(net)
  <2>1. [m \in net |-> m.rid] \in Surjection(net, Used)
    BY DEF Surjection
  <2> HIDE DEF Used
  <2>2. QED
    BY <1>1, <2>1, FS_Surjection
<1>3. ~(RequestId \subseteq Used)
  <2> SUFFICES ASSUME RequestId \subseteq Used
               PROVE  FALSE
    OBVIOUS
  <2> HIDE DEF Used
  <2>1. Cardinality(RequestId) <= Cardinality(Used)
    BY <1>2, FS_Subset
  <2>2. /\ Cardinality(RequestId) \in Nat /\ Cardinality(Used) \in Nat /\ Cardinality(net) \in Nat
        /\ MaxNet \in Nat /\ Cardinality(RequestId) > MaxNet
    BY <1>1, <1>2, FS_CardinalityType, ClientAssumption
  <2>3. QED
    BY <1>1, <1>2, <2>1, <2>2
<1>4. \E id \in RequestId : \A m \in net : m.rid # id
  BY <1>3
<1>5. QED
  BY <1>4 DEF NewRequestId

-----------------------------------------------------------------------------
(* Sending.                                                                *)

\* A pdu is sent for the first time or again: packets under way are either not of
\* its request id or of its pdu, and if none is late there is no other one.
LEMMA SendKeeps ==
    ASSUME ClientInv, up, NEW ms \in SUBSET net,
           net' = Put(ms, Packet(client', usm', cur', want', i', rid')),
           client' \in ClientType, usm' \in EngineType, cur' \in {"engineId", "sync", "get"},
           want' \in Oid, i' \in Nat, i' <= client'.Retries, rid' \in RequestId,
           conn', conn' \in BOOLEAN, UNCHANGED <<up, dev, clock>>,
           since' \in 0 .. clock, late' \in BOOLEAN, known' \in 0 .. dev.restarts,
           outcome' \in {"none", "ok"} \cup Failure,
           ms # {} => client'.version = client.version,
           cur' = "sync" => usm'.status # "noDiscovered",
           \A m \in ms : m.rid = rid' =>
               /\ m.op = cur'
               /\ cur' = "get" => m.oid = want'
               /\ m.type # "request" => m.at \in since' .. clock,
           ~late' => ms = {},
           ~late' /\ client'.version = "authNoPriv" /\ cur' = "get" =>
               /\ usm'.status = "discovered" /\ known' + i' <= dev.restarts
               /\ known' + i' = dev.restarts => usm'.boots = dev.boots,
           ~late' /\ client'.version = "authNoPriv" /\ usm'.status = "discovered"
               /\ dev.lost <= known' => usm'.boots <= dev.boots
    PROVE  ClientInv'
<1> DEFINE pkt == Packet(client', usm', cur', want', i', rid')
<1>1. Types /\ Phase /\ Packets
  BY DEF ClientInv
<1>2. /\ pkt \in PacketType
      /\ pkt.type = "request" /\ pkt.op = cur' /\ pkt.rid = rid'
      /\ cur' = "get" => pkt.oid = want'
      /\ client'.version # "v2c" => pkt.try = i'
      /\ pkt.auth <=> client'.version = "authNoPriv" /\ cur' # "engineId"
      /\ usm'.status = "discovered" => pkt.boots = usm'.boots
      /\ pkt.restarts = 0
  BY PacketFields
<1> HIDE DEF pkt
<1>3. ms \in SUBSET PacketType /\ IsFiniteSet(ms) /\ Cardinality(ms) <= MaxNet
  BY <1>1, FewerPackets
<1>4. /\ net' \in SUBSET PacketType /\ net' \subseteq ms \cup {pkt}
      /\ IsFiniteSet(net') /\ Cardinality(net') <= MaxNet
  <2>1. net' = Put(ms, pkt)
    BY DEF pkt
  <2>2. QED
    BY <1>2, <1>3, <2>1, PutType
<1>5. dev' = dev /\ dev.restarts \in Nat /\ dev.boots \in Nat /\ clock' = clock /\ up'
  BY <1>1 DEF Types
<1>6. Types'
  BY <1>1, <1>4, <1>5 DEF Types
<1>7. Phase'
  <2>1. client'.Retries >= 0
    BY RetriesInt
  <2>2. QED
    BY <1>5, <2>1, ClientAssumption DEF Phase
<1>8. Packets'
  <2> SUFFICES ASSUME NEW m \in net'
               PROVE  /\ m.auth <=> client'.version = "authNoPriv" /\ m.op # "engineId"
                      /\ m.type = "report" => m.op = "engineId"
                      /\ m.type = "window" => m.auth
                      /\ m.restarts <= dev.restarts
                      /\ m.type # "request" /\ m.restarts = dev.restarts => m.boots = dev.boots
                      /\ m.type # "request" /\ dev.lost <= m.restarts => m.boots <= dev.boots
    BY <1>5 DEF Packets
  <2>1. CASE m = pkt
    BY <1>2, <1>5, <2>1
  <2>2. CASE m \in ms
    BY <1>1, <2>2 DEF Packets
  <2>3. QED
    BY <1>4, <2>1, <2>2
<1>9. Answers'
  BY <1>2, <1>4, <1>5 DEF Answers
<1>10. Punctual'
  BY <1>2, <1>4 DEF Punctual, Own, V3
<1>11. Synchronous'
  BY <1>2, <1>4, <1>5 DEF Synchronous
<1>12. Orderly'
  BY <1>2, <1>4, <1>5 DEF Orderly
<1>13. QED
  BY <1>6, <1>7, <1>8, <1>9, <1>10, <1>11, <1>12 DEF ClientInv

-----------------------------------------------------------------------------
(* Returning.                                                              *)

\* A client that has not been made.
LEMMA NewTypes == NoClient \in ClientType /\ NewEngine \in EngineType
<1>1. 2^(Width - 1) \in Nat \ {0}
  BY PowerPositive, ClientAssumption
<1>2. 0 \in Int_w
  BY <1>1 DEF Int_w
<1>3. QED
  BY <1>2 DEF NoClient, NewEngine, ClientType, EngineType

\* The call is over and the session closed: nothing of it is left.
LEMMA CloseKeeps ==
    ASSUME ClientInv, up, Close, cur' = "none", i' = 0, rid' = None, want' = None,
           since' \in 0 .. clock,
           outcome' \in {"none", "ok"} \cup Failure, UNCHANGED <<up, dev, clock>>
    PROVE  ClientInv'
<1>1. Types
  BY DEF ClientInv
<1>2. /\ client' = NoClient /\ conn' = FALSE /\ usm' = NewEngine /\ net' = {}
      /\ late' = FALSE /\ known' = 0
  BY DEF Close
<1>3. IsFiniteSet({}) /\ Cardinality({}) <= MaxNet
  BY FS_EmptySet, ClientAssumption
<1>4. dev.restarts \in Nat /\ clock \in Nat
  BY <1>1 DEF Types
<1>5. Types'
  <2>1. net' \in SUBSET PacketType /\ IsFiniteSet(net') /\ Cardinality(net') <= MaxNet
    BY <1>2, <1>3
  <2>2. client' \in ClientType /\ usm' \in EngineType
    BY <1>2, NewTypes
  <2>3. dev' = dev /\ clock' = clock /\ known' \in 0 .. dev'.restarts
    BY <1>2, <1>4
  <2>4. QED
    BY <1>1, <1>2, <2>1, <2>2, <2>3 DEF Types
<1>6. Phase'
  BY <1>2 DEF Phase
<1>7. Packets' /\ Answers' /\ Punctual' /\ Synchronous' /\ Orderly'
  BY <1>2 DEF Packets, Answers, Punctual, Synchronous, Orderly, NoClient
<1>8. QED
  BY <1>5, <1>6, <1>7 DEF ClientInv

\* The call is over and the session stays open: what is under way has no request
\* id that is in use.
LEMMA StayKeeps ==
    ASSUME ClientInv, up, conn, NEW u \in EngineType, NEW ms \in SUBSET net,
           usm' = u, net' = ms, cur' = "none", i' = 0, rid' = None, want' = None, since' = 0,
           outcome' \in {"none", "ok"} \cup Failure, UNCHANGED <<up, client, conn, dev, clock>>,
           late' \in BOOLEAN, known' \in 0 .. dev.restarts,
           ~late' => /\ ms = {}
                     /\ client.version = "authNoPriv" =>
                           /\ u.status = "discovered"
                           /\ known' = dev.restarts => u.boots = dev.boots
                           /\ dev.lost <= known' => u.boots <= dev.boots
    PROVE  ClientInv'
<1>1. Types /\ Phase /\ Packets
  BY DEF ClientInv
<1>2. ms \in SUBSET PacketType /\ IsFiniteSet(ms) /\ Cardinality(ms) <= MaxNet
  BY <1>1, FewerPackets
<1>3. dev.restarts \in Nat /\ clock \in Nat
  BY <1>1 DEF Types
<1>4. Types'
  BY <1>1, <1>2, <1>3 DEF Types
<1>5. Phase'
  BY <1>1 DEF Phase
<1>6. Packets'
  BY <1>1 DEF Packets
<1>7. Answers'
  BY <1>2, ClientAssumption DEF Answers, PacketType
<1>8. Punctual' /\ Synchronous' /\ Orderly'
  BY <1>3 DEF Punctual, Synchronous, Orderly
<1>9. QED
  BY <1>4, <1>5, <1>6, <1>7, <1>8 DEF ClientInv

\* A request fails: Open and Kick close the session, or an answer may be late.
LEMMA FailKeeps ==
    ASSUME ClientInv, cur # "none", NEW o \in Failure, NEW u \in EngineType,
           NEW ms \in SUBSET net, Fail(o, u, ms)
    PROVE  ClientInv'
<1>1. Types /\ up /\ conn
  BY DEF ClientInv, Phase
<1>2. /\ outcome' \in {"none", "ok"} \cup Failure /\ UNCHANGED <<up, dev, clock>>
      /\ want' = None /\ since' = 0 /\ cur' = "none" /\ i' = 0 /\ rid' = None
  BY DEF Fail, Over, deviceVars
<1>3. since' \in 0 .. clock /\ known \in 0 .. dev.restarts
  BY <1>1, <1>2 DEF Types
<1>4. CASE Close
  BY <1>1, <1>2, <1>3, <1>4, CloseKeeps
<1>5. CASE usm' = u /\ net' = ms /\ late' = TRUE /\ UNCHANGED <<client, conn, known>>
  BY <1>1, <1>2, <1>3, <1>5, StayKeeps
<1>6. QED
  BY <1>4, <1>5 DEF Fail

-----------------------------------------------------------------------------
(* Receiving.                                                              *)

\* What the engine learns from a packet has its type; an untimely packet aside it
\* never forgets that it was discovered.
LEMMA SynchronizedType ==
    ASSUME Types, NEW m \in PacketType
    PROVE  /\ Synchronized(m) \in EngineType
           /\ Synchronized(m).status # "noDiscovered"
           /\ usm.status # "noDiscovered" /\ m.auth /\ ~Untimely(m) =>
                 Synchronized(m) = [status |-> "discovered", boots |-> m.boots]
BY DEF Synchronized, Untimely, Types, EngineType, PacketType

\* The cases of Read.
LEMMA ReadCases ==
    ASSUME NEW m, Read(m)
    PROVE  LET ms == net \ {m}
               u == IF V3 THEN Synchronized(m) ELSE usm
           IN  /\ up /\ cur # "none" /\ m.type # "request"
               /\ \/ ~Own(m) /\ Fail("stale", usm, ms)
                  \/ Own(m) /\ V3 /\ Untimely(m) /\ Fail("untimely", u, ms)
                  \/ Own(m) /\ ~(V3 /\ Untimely(m)) /\ cur # "get" /\ Discovered(m, u, ms)
                  \/ /\ Own(m) /\ ~(V3 /\ Untimely(m)) /\ cur = "get" /\ m.type = "response"
                     /\ Succeed(m, u, ms)
                  \/ /\ Own(m) /\ ~(V3 /\ Untimely(m)) /\ cur = "get" /\ m.type # "response"
                     /\ TryAgain("window", u, ms, late)
BY DEF Read

\* A try is followed by another one, or the request fails.
LEMMA TryAgainKeeps ==
    ASSUME ClientInv, cur # "none", NEW o \in Failure, NEW u \in EngineType,
           NEW ms \in SUBSET net, NEW l \in BOOLEAN, TryAgain(o, u, ms, l),
           cur = "sync" => u.status # "noDiscovered",
           ~l => ms = {},
           ~l /\ client.version = "authNoPriv" /\ cur = "get" =>
               /\ u.status = "discovered" /\ known + i + 1 <= dev.restarts
               /\ known + i + 1 = dev.restarts => u.boots = dev.boots,
           ~l /\ client.version = "authNoPriv" /\ dev.lost <= known => u.boots <= dev.boots
    PROVE  ClientInv'
<1>1. Types /\ Phase /\ Answers
  BY DEF ClientInv
<1>2. CASE Fail(o, u, ms)
  BY <1>2, FailKeeps
<1>3. CASE /\ i < client.Retries
           /\ Resend(u, ms) /\ usm' = u /\ late' = l
           /\ UNCHANGED <<up, client, conn, deviceVars, resultVars, known>>
  <2>1. /\ up /\ conn /\ want \in Oid /\ rid \in RequestId /\ client \in ClientType
        /\ cur \in {"engineId", "sync", "get"} /\ i \in Nat /\ dev.restarts \in Nat /\ known \in Nat
    BY <1>1 DEF Types, Phase
  <2>2. i + 1 \in Nat /\ i + 1 <= client.Retries /\ known + (i + 1) = known + i + 1
    <3>1. client.Retries \in Int
      BY <2>1, RetriesInt
    <3>2. QED
      BY <1>3, <2>1, <3>1
  <2>3. /\ cur' = cur /\ i' = i + 1 /\ rid' = rid /\ client' = client /\ usm' = u /\ want' = want
        /\ net' = Put(ms, Packet(client', usm', cur', want', i', rid'))
    BY <1>3 DEF Resend, SendPdu, resultVars
  <2>4. /\ conn' /\ conn' \in BOOLEAN /\ UNCHANGED <<up, dev, clock>>
        /\ since' \in 0 .. clock /\ late' \in BOOLEAN /\ known' \in 0 .. dev.restarts
        /\ known' = known /\ since' = since
        /\ outcome' \in {"none", "ok"} \cup Failure
    BY <1>1, <1>3, <2>1 DEF Types, deviceVars, resultVars
  <2>5. \A m \in ms : m.rid = rid =>
            /\ m.op = cur
            /\ cur = "get" => m.oid = want
            /\ m.type # "request" => m.at \in since' .. clock
    BY <1>1, <2>4 DEF Answers
  <2>6. ~late' => ms = {}
    BY <1>3
  <2>7. ~late' /\ client.version = "authNoPriv" /\ cur = "get" =>
            /\ u.status = "discovered" /\ known' + (i + 1) <= dev.restarts
            /\ known' + (i + 1) = dev.restarts => u.boots = dev.boots
    BY <1>3, <2>2, <2>4
  <2>8. ~late' /\ client.version = "authNoPriv" /\ dev.lost <= known' => u.boots <= dev.boots
    BY <1>3, <2>4
  <2>9. QED
    BY <2>1, <2>2, <2>3, <2>4, <2>5, <2>6, <2>7, <2>8, SendKeeps
<1>4. QED
  BY <1>2, <1>3 DEF TryAgain

\* Read: an answer that is not its own fails the request, its own one ends a step of
\* Discover, the request, or the try.
LEMMA ReadKeeps ==
    ASSUME ClientInv, NEW m \in net, Read(m)
    PROVE  ClientInv'
<1> DEFINE ms == net \ {m}
           u == IF V3 THEN Synchronized(m) ELSE usm
<1>1. Types /\ Phase /\ Packets /\ Answers /\ Punctual /\ Synchronous /\ Orderly
  BY DEF ClientInv
<1>2. up /\ cur # "none" /\ m.type # "request" /\ m \in PacketType /\ ms \in SUBSET net
  BY <1>1, ReadCases DEF Types
<1>3. u \in EngineType /\ usm \in EngineType /\ dev.restarts \in Nat
  BY <1>1, <1>2, SynchronizedType DEF Types
<1>4. ~late => ms = {}
  BY <1>1 DEF Punctual
<1>5. cur = "sync" => u.status # "noDiscovered"
  BY <1>1, <1>2, SynchronizedType DEF Phase
<1>6. /\ m.restarts \in 0 .. dev.restarts /\ m.boots \in Nat
      /\ m.restarts = dev.restarts => m.boots = dev.boots
      /\ dev.lost <= m.restarts => m.boots <= dev.boots
      /\ m.auth \in BOOLEAN
  BY <1>1, <1>2, <1>3 DEF Packets, PacketType
<1>7. ASSUME Own(m)
      PROVE  m.op = cur /\ m.auth = (client.version = "authNoPriv" /\ cur # "engineId")
  BY <1>1, <1>2, <1>6, <1>7 DEF Own, Answers, Packets
<1> HIDE DEF ms
<1>8. CASE ~Own(m) /\ Fail("stale", usm, ms)
  BY <1>2, <1>3, <1>8, FailKeeps DEF Failure
<1>9. CASE Own(m) /\ V3 /\ Untimely(m) /\ Fail("untimely", u, ms)
  <2> HIDE DEF u
  <2>1. QED
    BY <1>2, <1>3, <1>9, FailKeeps DEF Failure
\* From here on the packet is the answer to the try under way and timely.
<1>10. ASSUME Own(m), ~(V3 /\ Untimely(m)), client.version = "authNoPriv", cur \in {"sync", "get"},
              cur = "get" => usm.status # "noDiscovered"
       PROVE  u.status = "discovered" /\ u.boots = m.boots
  <2>1. V3 /\ ~Untimely(m)
    BY <1>10 DEF V3
  <2>2. m.auth
    BY <1>7, <1>10
  <2>3. usm.status # "noDiscovered"
    BY <1>1, <1>10 DEF Phase
  <2>4. u = [status |-> "discovered", boots |-> m.boots]
    BY <1>1, <1>2, <2>1, <2>2, <2>3, SynchronizedType
  <2>5. QED
    BY <2>4
<1>11. CASE Own(m) /\ ~(V3 /\ Untimely(m)) /\ cur # "get" /\ Discovered(m, u, ms)
  <2> DEFINE p == IF cur = "engineId" /\ client.version = "authNoPriv" THEN "sync" ELSE "get"
  <2>1. /\ net' = Put(ms, Packet(client', usm', cur', want', i', rid'))
        /\ cur' = p /\ i' = 0 /\ rid' = NewRequestId
        /\ client' = client /\ usm' = u /\ want' = want /\ UNCHANGED <<up, dev, clock>>
        /\ conn' = conn /\ late' = late /\ since' = since /\ outcome' = outcome
        /\ known' = IF m.auth THEN m.restarts ELSE known
    BY <1>11 DEF Discovered, Start, SendPdu, deviceVars, resultVars
  <2>2. NewRequestId \in RequestId /\ \A n \in ms : n.rid # NewRequestId
    BY <1>1, <1>2, FreshId
  <2>3. /\ client \in ClientType /\ want \in Oid /\ 0 <= client.Retries /\ conn' /\ conn' \in BOOLEAN
        /\ since' \in 0 .. clock /\ late' \in BOOLEAN /\ known' \in 0 .. dev.restarts
        /\ outcome' \in {"none", "ok"} \cup Failure
    <3>1. 0 <= client.Retries
      BY <1>1, <1>2, RetriesInt DEF Types, Phase
    <3>2. QED
      BY <1>1, <1>2, <1>6, <2>1, <3>1 DEF Types, Phase
  <2>4. p \in {"engineId", "sync", "get"} /\ (p = "sync" => u.status # "noDiscovered")
    <3>1. p = "sync" => V3
      BY DEF V3
    <3>2. QED
      BY <1>1, <1>2, <3>1, SynchronizedType
  <2>5. ASSUME client.version = "authNoPriv", p = "get"
        PROVE  /\ u.status = "discovered" /\ known' + 0 <= dev.restarts
               /\ known' + 0 = dev.restarts => u.boots = dev.boots
    <3>1. cur = "sync"
      BY <1>1, <1>2, <1>11, <2>5 DEF Types
    <3>2. m.auth /\ known' = m.restarts
      BY <1>7, <1>11, <2>1, <2>5, <3>1
    <3>3. u.status = "discovered" /\ u.boots = m.boots
      BY <1>10, <1>11, <2>5, <3>1
    <3>4. QED
      BY <1>3, <1>6, <3>2, <3>3
  <2>6. ASSUME ~late, client.version = "authNoPriv", u.status = "discovered", dev.lost <= known'
        PROVE  u.boots <= dev.boots
    <3>1. CASE cur = "sync"
      <4>1. m.auth /\ known' = m.restarts
        BY <1>7, <1>11, <2>1, <2>6, <3>1
      <4>2. u.boots = m.boots
        BY <1>10, <1>11, <2>6, <3>1
      <4>3. QED
        BY <1>6, <2>6, <4>1, <4>2
    <3>2. CASE cur = "engineId"
      <4>1. ~m.auth /\ known' = known
        BY <1>7, <1>11, <2>1, <3>2
      <4>2. u = usm
        BY <2>6, <4>1 DEF Synchronized
      <4>3. QED
        BY <1>1, <2>6, <4>1, <4>2 DEF Orderly
    <3>3. QED
      BY <1>1, <1>2, <1>11, <3>1, <3>2 DEF Types
  <2> HIDE DEF p, u
  <2>7. QED
    BY <1>2, <1>3, <1>4, <2>1, <2>2, <2>3, <2>4, <2>5, <2>6, SendKeeps
<1>12. ASSUME cur = "get", ~late, client.version = "authNoPriv"
       PROVE  /\ usm.status = "discovered"
              /\ m.type = "window" => m.restarts > known + i
  BY <1>1, <1>12 DEF Synchronous, Phase
<1>13. CASE /\ Own(m) /\ ~(V3 /\ Untimely(m)) /\ cur = "get" /\ m.type = "response"
            /\ Succeed(m, u, ms)
  <2>1. /\ usm' = u /\ net' = ms /\ cur' = "none" /\ i' = 0 /\ rid' = None /\ want' = None
        /\ since' = 0 /\ outcome' = "ok" /\ UNCHANGED <<up, client, conn, dev, clock, late>>
        /\ known' = IF m.auth THEN m.restarts ELSE known
    BY <1>13 DEF Succeed, Over, deviceVars
  <2>2. conn /\ known' \in 0 .. dev.restarts /\ late' \in BOOLEAN
    BY <1>1, <1>2, <1>6, <2>1 DEF Types, Phase
  <2>3. ASSUME ~late, client.version = "authNoPriv"
        PROVE  /\ u.status = "discovered"
               /\ known' = dev.restarts => u.boots = dev.boots
               /\ dev.lost <= known' => u.boots <= dev.boots
    <3>1. m.auth /\ known' = m.restarts
      BY <1>7, <1>13, <2>1, <2>3
    <3>2. u.status = "discovered" /\ u.boots = m.boots
      BY <1>10, <1>12, <1>13, <2>3
    <3>3. QED
      BY <1>6, <3>1, <3>2
  <2> HIDE DEF u
  <2>4. QED
    BY <1>2, <1>3, <1>4, <2>1, <2>2, <2>3, StayKeeps
<1>14. CASE /\ Own(m) /\ ~(V3 /\ Untimely(m)) /\ cur = "get" /\ m.type # "response"
            /\ TryAgain("window", u, ms, late)
  <2>1. ASSUME ~late, client.version = "authNoPriv"
        PROVE  /\ u.status = "discovered" /\ known + i + 1 <= dev.restarts
               /\ known + i + 1 = dev.restarts => u.boots = dev.boots
               /\ dev.lost <= known => u.boots <= dev.boots
    <3>1. u.status = "discovered" /\ u.boots = m.boots
      BY <1>10, <1>12, <1>14, <2>1
    <3>2. m.type = "window"
      BY <1>1, <1>2, <1>7, <1>14 DEF Packets, PacketType
    <3>3. m.restarts > known + i
      BY <1>12, <1>14, <2>1, <3>2
    <3>4. known \in Nat /\ i \in Nat /\ dev.lost \in Nat
      BY <1>1 DEF Types
    <3>5. QED
      BY <1>3, <1>6, <3>1, <3>3, <3>4
  <2>2. late \in BOOLEAN
    BY <1>1 DEF Types
  <2> HIDE DEF u
  <2>3. QED
    BY <1>2, <1>3, <1>4, <1>5, <1>14, <2>1, <2>2, TryAgainKeeps DEF Failure
<1>15. QED
  BY <1>8, <1>9, <1>11, <1>13, <1>14, ReadCases DEF ms

-----------------------------------------------------------------------------
(* The caller's side.                                                      *)

\* Timeout gives up the try, so that its answer may be late; IOError the request.
LEMMA GiveUpKeeps ==
    ASSUME ClientInv, Timeout \/ IOError
    PROVE  ClientInv'
<1>1. Types /\ Phase /\ cur # "none" /\ usm \in EngineType
  BY DEF ClientInv, Timeout, IOError, Types
<1>2. CASE TryAgain("timeout", usm, net, TRUE)
  BY <1>1, <1>2, TryAgainKeeps DEF Failure, Phase
<1>3. CASE Fail("io", usm, net)
  BY <1>1, <1>3, FailKeeps DEF Failure
<1>4. QED
  BY <1>2, <1>3 DEF Timeout, IOError

\* A request on the open session.
LEMMA GetKeeps ==
    ASSUME ClientInv, NEW q \in Oid, Get(q)
    PROVE  ClientInv'
<1>1. Types /\ Phase /\ Punctual /\ Synchronous /\ Orderly /\ up /\ cur = "none" /\ conn
  BY DEF ClientInv, Get
<1>2. /\ net' = Put(net, Packet(client', usm', cur', want', i', rid'))
      /\ cur' = "get" /\ i' = 0 /\ rid' = NewRequestId /\ want' = q /\ since' = clock
      /\ outcome' = "none" /\ UNCHANGED <<up, client, conn, usm, dev, clock, late, known>>
  BY DEF Get, Ask, Start, SendPdu, deviceVars
<1>3. NewRequestId \in RequestId /\ \A m \in net : m.rid # NewRequestId
  BY <1>1, FreshId
<1>4. /\ client' \in ClientType /\ usm' \in EngineType /\ conn' /\ conn' \in BOOLEAN
      /\ i' <= client'.Retries /\ i' \in Nat
      /\ since' \in 0 .. clock /\ late' \in BOOLEAN /\ known' \in 0 .. dev.restarts
  BY <1>1, <1>2, RetriesInt DEF Types, Phase
<1>5. ~late' => net = {}
  BY <1>1, <1>2 DEF Punctual
<1>6. ~late' /\ client'.version = "authNoPriv" =>
          /\ usm'.status = "discovered" /\ known' + i' <= dev.restarts
          /\ known' + i' = dev.restarts => usm'.boots = dev.boots
  BY <1>1, <1>2 DEF Synchronous, Phase
<1>7. ~late' /\ client'.version = "authNoPriv" /\ usm'.status = "discovered"
          /\ dev.lost <= known' => usm'.boots <= dev.boots
  BY <1>1, <1>2 DEF Orderly
<1>8. QED
  BY <1>1, <1>2, <1>3, <1>4, <1>5, <1>6, <1>7, SendKeeps

\* A request on a new client: without a try the process is gone, without a
\* connection nothing has happened.
LEMMA ConnectKeeps ==
    ASSUME ClientInv, NEW q \in Oid, Connect(q)
    PROVE  ClientInv'
<1>1. Types /\ Phase
  BY DEF ClientInv
<1>2. PICK v \in Version, ru \in Retry, cached \in BOOLEAN :
          LET c == [version |-> v, cached |-> cached,
                    Retries |-> int(uint(Getretry(ru, DefaultRetry)))]
          IN  /\ up /\ cur = "none" /\ ~conn
              /\ UNCHANGED <<usm, late, known>>
              /\ \/ /\ NoTry(c.Retries)
                    /\ up' = FALSE /\ client' = c
                    /\ Ask(q)
                    /\ UNCHANGED <<conn, callVars, net>>
                 \/ /\ ~NoTry(c.Retries)
                    /\ outcome' = "io" /\ pdu' = NoReading
                    /\ UNCHANGED <<up, client, conn, callVars, net, want, since, deviceVars>>
                 \/ /\ ~NoTry(c.Retries)
                    /\ conn' = TRUE /\ client' = c
                    /\ Ask(q)
                    /\ Start(c, NewEngine, net, IF v = "v2c" THEN "get" ELSE "engineId", q)
                    /\ UNCHANGED up
  BY Zenon DEF Connect
<1> DEFINE c == [version |-> v, cached |-> cached,
                 Retries |-> int(uint(Getretry(ru, DefaultRetry)))]
<1>3. up /\ cur = "none" /\ ~conn /\ usm' = usm /\ late' = late /\ known' = known
  BY <1>2
<1>4. /\ i = 0 /\ rid = None /\ usm = NewEngine /\ net = {} /\ ~late /\ known = 0
      /\ dev.restarts \in Nat /\ clock \in Nat /\ late' \in BOOLEAN
  BY <1>1, <1>3 DEF Phase, Types
<1>5. c \in ClientType /\ c.version = v /\ c.Retries \in Int
  <2>1. Getretry(ru, DefaultRetry) \in Int
    BY ClientAssumption DEF Getretry
  <2>2. int(uint(Getretry(ru, DefaultRetry))) \in Int_w
    BY <2>1, RetriesType
  <2>3. c \in ClientType /\ c.version = v
    BY <2>2 DEF ClientType
  <2>4. QED
    BY <2>3, RetriesInt
<1> HIDE DEF c
<1>6. CASE /\ NoTry(c.Retries)
           /\ up' = FALSE /\ client' = c
           /\ Ask(q)
           /\ UNCHANGED <<conn, callVars, net>>
  <2>1. /\ want' = q /\ since' = clock /\ outcome' = "none" /\ UNCHANGED <<conn, cur, i, rid, net, dev, clock>>
    BY <1>6 DEF Ask, callVars, deviceVars
  <2>2. Types'
    <3>1. up' \in BOOLEAN
      BY <1>6
    <3>2. since' \in 0 .. clock' /\ known' \in 0 .. dev'.restarts
      BY <1>3, <1>4, <2>1
    <3>3. net' = net /\ client' \in ClientType
      BY <1>5, <1>6, <2>1
    <3>4. QED
      BY <1>1, <1>3, <1>4, <2>1, <3>1, <3>2, <3>3 DEF Types
  <2>3. Phase'
    BY <1>3, <1>4, <1>5, <1>6, <2>1 DEF Phase, NoTry
  <2>4. Packets' /\ Answers' /\ Punctual' /\ Synchronous' /\ Orderly'
    BY <1>3, <1>4, <2>1 DEF Packets, Answers, Punctual, Synchronous, Orderly, NewEngine
  <2>5. QED
    BY <2>2, <2>3, <2>4 DEF ClientInv
<1>7. CASE /\ outcome' = "io"
           /\ UNCHANGED <<up, client, conn, callVars, net, want, since, deviceVars>>
  <2>1. UNCHANGED <<up, client, conn, usm, cur, i, rid, net, want, since, dev, clock, late, known>>
    BY <1>3, <1>7 DEF callVars, deviceVars
  <2>2. outcome' \in {"none", "ok"} \cup Failure
    BY <1>7 DEF Failure
  <2>3. QED
    BY <2>1, <2>2 DEF ClientInv, Types, Phase, Packets, Answers, Punctual, Synchronous,
                         Orderly, Own, V3
<1>8. CASE /\ ~NoTry(c.Retries)
           /\ conn' = TRUE /\ client' = c
           /\ Ask(q)
           /\ Start(c, NewEngine, net, IF v = "v2c" THEN "get" ELSE "engineId", q)
           /\ UNCHANGED up
  <2>1. /\ net' = Put(net, Packet(client', usm', cur', want', i', rid'))
        /\ cur' = IF v = "v2c" THEN "get" ELSE "engineId"
        /\ i' = 0 /\ rid' = NewRequestId /\ want' = q /\ since' = clock
        /\ outcome' = "none" /\ UNCHANGED <<up, dev, clock>>
    BY <1>3, <1>4, <1>8 DEF Ask, Start, SendPdu, deviceVars
  <2>2. NewRequestId \in RequestId
    BY <1>1, FreshId
  <2>3. /\ client' \in ClientType /\ usm' \in EngineType /\ conn' /\ conn' \in BOOLEAN
        /\ i' <= client'.Retries /\ i' \in Nat
        /\ since' \in 0 .. clock /\ known' \in 0 .. dev.restarts
    BY <1>1, <1>3, <1>4, <1>5, <1>8, <2>1 DEF NoTry, Types
  <2>4. cur' = "get" => client'.version # "authNoPriv"
    BY <1>5, <1>8, <2>1
  <2>5. cur' \in {"engineId", "get"}
    BY <2>1
  <2>6. usm'.status # "discovered"
    BY <1>3, <1>4 DEF NewEngine
  <2>7. QED
    BY <1>3, <1>4, <2>1, <2>2, <2>3, <2>4, <2>5, <2>6, SendKeeps
<1>9. QED
  BY <1>2, <1>6, <1>7, <1>8 DEF c

\* The pool closes a session that is not in use.
LEMMA DropKeeps ==
    ASSUME ClientInv, Drop
    PROVE  ClientInv'
<1>1. Types /\ Phase /\ up /\ cur = "none" /\ Close
  BY DEF ClientInv, Drop
<1>2. UNCHANGED <<up, cur, i, rid, dev, clock, want, since, outcome>>
  BY DEF Drop, callVars, deviceVars, resultVars
<1>3. /\ cur' = "none" /\ i' = 0 /\ rid' = None /\ want' = None /\ since' \in 0 .. clock
      /\ outcome' \in {"none", "ok"} \cup Failure
  BY <1>1, <1>2 DEF Phase, Types
<1>4. QED
  BY <1>1, <1>2, <1>3, CloseKeeps

-----------------------------------------------------------------------------
(* The network and the device.                                             *)

\* A step that only takes packets away.
LEMMA LoseKeeps ==
    ASSUME ClientInv, NEW m \in net, Lose(m)
    PROVE  ClientInv'
<1>1. Types /\ Phase /\ Packets /\ Answers /\ Punctual /\ Synchronous /\ Orderly
  BY DEF ClientInv
<1>2. /\ net' = net \ {m}
      /\ UNCHANGED <<up, client, conn, usm, cur, i, rid, want, since, outcome, dev, clock, late, known>>
  BY DEF Lose, callVars, deviceVars, resultVars
<1>3. net' \in SUBSET PacketType /\ IsFiniteSet(net') /\ Cardinality(net') <= MaxNet
  BY <1>1, <1>2, FewerPackets
<1>4. Types'
  BY <1>1, <1>2, <1>3 DEF Types
<1>5. Phase'
  BY <1>1, <1>2 DEF Phase
<1>6. Packets' /\ Answers'
  BY <1>1, <1>2 DEF Packets, Answers
<1>7. Punctual' /\ Synchronous' /\ Orderly'
  BY <1>1, <1>2 DEF Punctual, Synchronous, Orderly, Own, V3
<1>8. QED
  BY <1>4, <1>5, <1>6, <1>7 DEF ClientInv

\* The device answers: with its boots and restarts of now, to the pdu it was sent.
\* A report that the request is outside of the time window means that it has
\* restarted since the client learned its boots.
LEMMA RespondKeeps ==
    ASSUME ClientInv, NEW m \in net, Respond(m)
    PROVE  ClientInv'
<1> DEFINE type == CASE m.op = "engineId" -> "report"
                     [] m.op # "engineId" /\ m.auth /\ m.boots # dev.boots -> "window"
                     [] OTHER -> "response"
           a == [m EXCEPT !.type = type, !.at = clock,
                          !.boots = dev.boots, !.restarts = dev.restarts]
<1>1. Types /\ Phase /\ Packets /\ Answers /\ Punctual /\ Synchronous /\ Orderly
  BY DEF ClientInv
<1>2. /\ m.type = "request"
      /\ \/ net' = Put(net \ {m}, a) /\ late' = late
         \/ net' = Put(net, a) /\ late' = TRUE
      /\ UNCHANGED <<up, client, conn, usm, cur, i, rid, want, since, outcome, dev, clock, known>>
  BY DEF Respond, callVars, deviceVars, resultVars
<1>3. m \in PacketType /\ dev.boots \in Nat /\ dev.restarts \in Nat /\ clock \in Nat
  BY <1>1 DEF Types
<1>4. /\ type \in {"report", "window", "response"}
      /\ type = "report" => m.op = "engineId"
      /\ type = "window" => m.auth /\ m.boots # dev.boots
  BY <1>3 DEF PacketType
<1> HIDE DEF type
<1>5. /\ a \in PacketType /\ a.type = type /\ a.op = m.op /\ a.oid = m.oid /\ a.rid = m.rid
      /\ a.try = m.try /\ a.auth = m.auth /\ a.at = clock /\ a.boots = dev.boots
      /\ a.restarts = dev.restarts
  BY <1>3, <1>4 DEF PacketType
<1> HIDE DEF a
<1>6. PICK ms \in SUBSET net : net' = Put(ms, a) /\ late' \in BOOLEAN
                               /\ (~late' => ms = net \ {m} /\ ~late)
  <2>1. late \in BOOLEAN
    BY <1>1 DEF Types
  <2>2. CASE net' = Put(net \ {m}, a) /\ late' = late
    BY <2>1, <2>2
  <2>3. CASE net' = Put(net, a) /\ late' = TRUE
    BY <2>3
  <2>4. QED
    BY <1>2, <2>2, <2>3
<1>7. ms \in SUBSET PacketType /\ IsFiniteSet(ms) /\ Cardinality(ms) <= MaxNet
  BY <1>1, FewerPackets
<1>8. /\ net' \in SUBSET PacketType /\ net' \subseteq ms \cup {a}
      /\ IsFiniteSet(net') /\ Cardinality(net') <= MaxNet
  BY <1>5, <1>6, <1>7, PutType
<1>9. Types'
  BY <1>1, <1>2, <1>6, <1>8 DEF Types
<1>10. Phase'
  BY <1>1, <1>2 DEF Phase
<1>11. Packets'
  <2> SUFFICES ASSUME NEW n \in net'
               PROVE  /\ n.auth <=> client.version = "authNoPriv" /\ n.op # "engineId"
                      /\ n.type = "report" => n.op = "engineId"
                      /\ n.type = "window" => n.auth
                      /\ n.restarts <= dev.restarts
                      /\ n.type # "request" /\ n.restarts = dev.restarts => n.boots = dev.boots
                      /\ n.type # "request" /\ dev.lost <= n.restarts => n.boots <= dev.boots
    BY <1>2 DEF Packets
  <2>1. CASE n \in net
    BY <1>1, <2>1 DEF Packets
  <2>2. CASE n = a
    <3>1. m.auth <=> client.version = "authNoPriv" /\ m.op # "engineId"
      BY <1>1 DEF Packets
    <3>2. QED
      BY <1>3, <1>4, <1>5, <2>2, <3>1
  <2>3. QED
    BY <1>8, <2>1, <2>2
<1>12. Answers'
  <2> SUFFICES ASSUME NEW n \in net', n.rid = rid
               PROVE  /\ n.op = cur
                      /\ cur = "get" => n.oid = want
                      /\ n.type # "request" => n.at \in since .. clock
    BY <1>2 DEF Answers
  <2>1. CASE n \in net
    BY <1>1, <2>1 DEF Answers
  <2>2. CASE n = a
    <3>1. m.op = cur /\ (cur = "get" => m.oid = want)
      BY <1>1, <1>5, <2>2 DEF Answers
    <3>2. clock \in since .. clock
      BY <1>1 DEF Types
    <3>3. QED
      BY <1>5, <2>2, <3>1, <3>2
  <2>3. QED
    BY <1>8, <2>1, <2>2
<1>13. ASSUME ~late'
       PROVE  /\ ~late /\ cur # "none" /\ Own(m) /\ net' \subseteq {a}
  BY <1>1, <1>6, <1>8, <1>13 DEF Punctual
<1>14. Punctual'
  <2>1. Own(m) => Own(a)
    BY <1>5 DEF Own
  <2>2. ASSUME ~late'
        PROVE  \A n \in net' : n.rid = rid /\ (client.version # "v2c" => n.try = i)
    BY <1>13, <2>1, <2>2 DEF Own, V3
  <2>3. UNCHANGED <<rid, client, i>> /\ cur' = cur
    BY <1>2
  <2>4. QED
    BY <1>13, <2>2, <2>3 DEF Punctual, Own, V3
<1>15. Synchronous'
  <2> SUFFICES ASSUME ~late', client.version = "authNoPriv"
               PROVE  /\ conn /\ cur \in {"none", "get"} =>
                            /\ usm.status = "discovered" /\ known + i <= dev.restarts
                            /\ known + i = dev.restarts => usm.boots = dev.boots
                      /\ cur = "get" =>
                            \A n \in net' : /\ n.type = "request" => n.boots = usm.boots
                                            /\ n.type = "window" => n.restarts > known + i
    BY <1>2 DEF Synchronous
  <2>1. /\ conn /\ cur \in {"none", "get"} =>
              /\ usm.status = "discovered" /\ known + i <= dev.restarts
              /\ known + i = dev.restarts => usm.boots = dev.boots
        /\ cur = "get" => m.boots = usm.boots
    BY <1>1, <1>2, <1>13 DEF Synchronous
  <2>2. conn /\ known \in Nat /\ i \in Nat
    BY <1>1, <1>13 DEF Phase, Types
  <2>3. ASSUME cur = "get", NEW n \in net'
        PROVE  n.type # "request" /\ (n.type = "window" => n.restarts > known + i)
    <3>1. n = a
      BY <1>13, <2>3
    <3>2. QED
      BY <1>3, <1>4, <1>5, <2>1, <2>2, <2>3, <3>1
  <2>4. QED
    BY <2>1, <2>3
<1>16. Orderly'
  BY <1>1, <1>2, <1>5, <1>13 DEF Orderly
<1>17. QED
  BY <1>9, <1>10, <1>11, <1>12, <1>14, <1>15, <1>16 DEF ClientInv

\* Time passes, or the device restarts: an answer made before is still one since the
\* question, and its boots are those of an earlier restart.
LEMMA DeviceKeeps ==
    ASSUME ClientInv, Change \/ Restart
    PROVE  ClientInv'
<1>1. Types /\ Phase /\ Packets /\ Answers /\ Punctual /\ Synchronous /\ Orderly
  BY DEF ClientInv
<1>2. UNCHANGED <<up, client, conn, usm, cur, i, rid, net, want, since, outcome, late, known>>
  BY DEF Change, Restart, callVars, resultVars
<1>3. dev.restarts \in Nat /\ dev.boots \in Nat /\ dev.lost \in 0 .. dev.restarts
  BY <1>1 DEF Types
<1>4. /\ clock' \in Nat /\ clock' >= clock /\ dev' \in [restarts : Nat, boots : Nat, lost : Nat] /\ dev'.lost <= dev'.restarts
       /\ \/ dev' = dev
          \/ /\ dev'.restarts = dev.restarts + 1
             /\ \/ dev'.lost = dev.lost /\ dev'.boots >= dev.boots
                \/ dev'.lost = dev.restarts + 1
  <2>1. CASE Change
    BY <1>1, <1>3, <2>1 DEF Change, Types
  <2>2. CASE Restart
    <3>1. PICK b \in 1 .. dev.boots + 1 :
             dev' = [restarts |-> dev.restarts + 1, boots |-> b,
                     lost |-> IF b > dev.boots THEN dev.lost ELSE dev.restarts + 1]
      BY <2>2 DEF Restart
    <3>2. clock' = clock /\ clock \in Nat
      BY <1>1, <2>2 DEF Restart, Types
    <3>3. QED
      BY <1>3, <3>1, <3>2
  <2>3. QED
    BY <2>1, <2>2
<1>5. Types'
  BY <1>1, <1>2, <1>4 DEF Types
<1>6. Phase'
  BY <1>1, <1>2 DEF Phase
<1>7. \A m \in net : m.restarts \in Nat /\ m.at \in Nat /\ m.boots \in Nat
  BY <1>1 DEF Types, PacketType
<1>8. clock \in Nat /\ known \in 0 .. dev.restarts /\ i \in Nat /\ since \in Nat
  BY <1>1 DEF Types
<1>9. Packets'
  BY <1>1, <1>2, <1>3, <1>4, <1>7, <1>8 DEF Packets
<1>10. Answers'
  BY <1>1, <1>2, <1>3, <1>4, <1>7, <1>8 DEF Answers
<1>11. Punctual'
  BY <1>1, <1>2 DEF Punctual, Own, V3
<1>12. Synchronous'
  BY <1>1, <1>2, <1>3, <1>4, <1>7, <1>8 DEF Synchronous
<1>13. Orderly'
  <2>1. usm.boots \in Nat
    BY <1>1 DEF Types, EngineType
  <2>2. QED
    BY <1>1, <1>2, <1>3, <1>4, <1>7, <1>8, <2>1 DEF Orderly
<1>14. QED
  BY <1>5, <1>6, <1>9, <1>10, <1>11, <1>12, <1>13 DEF ClientInv

-----------------------------------------------------------------------------
(* The theorems.                                                           *)

\* The invariant holds before the first request.
LEMMA InitInv == Init => ClientInv
<1> SUFFICES ASSUME Init
             PROVE  ClientInv
  OBVIOUS
<1>1. IsFiniteSet(net) /\ Cardinality(net) <= MaxNet
  BY FS_EmptySet, ClientAssumption DEF Init
<1>2. dev = [restarts |-> 0, boots |-> 2, lost |-> 0] /\ up \in BOOLEAN /\ conn \in BOOLEAN /\ late \in BOOLEAN
  BY DEF Init
<1>3. dev \in [restarts : Nat, boots : Nat, lost : Nat] /\ dev.restarts = 0 /\ dev.lost = 0
  BY <1>2
<1>4. Types
  BY <1>1, <1>2, <1>3, NewTypes DEF Init, Types
<1>5. Phase
  BY DEF Init, Phase
<1>6. Packets /\ Answers /\ Punctual /\ Synchronous /\ Orderly
  BY DEF Init, Packets, Answers, Punctual, Synchronous, Orderly, NewEngine
<1>7. QED
  BY <1>4, <1>5, <1>6 DEF ClientInv

\* Every step keeps the invariant.
LEMMA NextKeeps == ClientInv /\ [Next]_vars => ClientInv'
<1>1. ClientInv /\ UNCHANGED vars => ClientInv'
  BY DEF ClientInv, vars, callVars, deviceVars, resultVars, Types, Phase, Packets, Answers,
         Punctual, Synchronous, Orderly, Own, V3
<1>2. ClientInv /\ Next => ClientInv'
  BY GetKeeps, ConnectKeeps, DropKeeps, GiveUpKeeps, ReadKeeps, RespondKeeps, LoseKeeps,
     DeviceKeeps DEF Next
<1>3. QED
  BY <1>1, <1>2

\* The inductive invariant holds in every reachable state.
THEOREM ClientInvariant == Spec => []ClientInv
BY InitInv, NextKeeps, PTL DEF Spec

\* Type correctness: the retries are an int of the machine whatever the form holds,
\* and a request is never sent more than Retries times again.
THEOREM TypeCorrect == Spec => []TypeOK
<1>1. ClientInv => TypeOK
  <2> SUFFICES ASSUME Types, Phase
               PROVE  TypeOK
    BY DEF ClientInv
  <2>1. client.Retries \in Int
    BY RetriesInt DEF Types
  <2>2. cur # "none" => conn /\ want \in Oid /\ i \in 0 .. client.Retries
    BY <2>1 DEF Types, Phase
  <2>3. QED
    BY <2>2 DEF Types, Phase, TypeOK, ClientType, EngineType, Int_w
<1>2. QED
  BY <1>1, ClientInvariant, PTL

\* Which step ends a request, and how.
LEMMA OutcomeOf ==
    ASSUME Next, outcome' # outcome
    PROVE  \/ outcome' \in {"none", "io", "timeout", "ok"}
           \/ \E m \in net : Read(m)
<1>1. CASE \E q \in Oid : Get(q) \/ Connect(q)
  <2>1. ASSUME NEW q \in Oid, Get(q)
        PROVE  outcome' = "none"
    BY <2>1 DEF Get, Ask
  <2>2. ASSUME NEW q \in Oid, Connect(q)
        PROVE  outcome' \in {"none", "io"}
    BY <2>2 DEF Connect, Ask
  <2>3. QED
    BY <1>1, <2>1, <2>2
<1>2. CASE Drop \/ Change \/ Restart
  BY <1>2 DEF Drop, Change, Restart, resultVars
<1>3. CASE Timeout \/ IOError
  BY <1>3 DEF Timeout, IOError, TryAgain, Fail, resultVars
<1>4. CASE \E m \in net : Respond(m) \/ Lose(m)
  BY <1>4 DEF Respond, Lose, resultVars
<1>5. QED
  BY <1>1, <1>2, <1>3, <1>4 DEF Next

\* A request fails over an answer that is not its own only if a try on this very
\* connection was given up or duplicated before (mprocessing.go:87).
THEOREM StaleOnlyAfterLate == Spec => StaleNeedsLateAnswer
<1>1. ASSUME ClientInv, [Next]_vars, outcome # "stale", outcome' = "stale", ~late
      PROVE  FALSE
  <2>1. Next
    BY <1>1 DEF vars, resultVars
  <2>2. PICK m \in net : Read(m)
    BY <1>1, <2>1, OutcomeOf
  <2>3. Own(m)
    BY <1>1 DEF ClientInv, Punctual
  <2>4. QED
    BY <1>1, <2>2, <2>3, ReadCases DEF Fail, Discovered, Succeed, TryAgain, resultVars
<1>2. ClientInv /\ [Next]_vars => [outcome # "stale" /\ outcome' = "stale" => late]_vars
  BY <1>1
<1>3. QED
  BY <1>2, ClientInvariant, PTL DEF Spec, StaleNeedsLateAnswer

\* What a restart costs if no packet is late: the time window fails a request only
\* if the device restarted before every single try (engine.go:73), and boots that
\* went backwards only if the device lost their count since the client last
\* learned it (security.go:265).
THEOREM RestartsCostNoMore == Spec => RestartCost
<1>1. ASSUME ClientInv, [Next]_vars, outcome # "window", outcome' = "window", ~late
      PROVE  dev.restarts - known > client.Retries
  <2>1. Next
    BY <1>1 DEF vars, resultVars
  <2>2. PICK m \in net : Read(m)
    BY <1>1, <2>1, OutcomeOf
  <2>3. /\ cur = "get" /\ Own(m) /\ m.type \notin {"request", "response"}
        /\ TryAgain("window", IF V3 THEN Synchronized(m) ELSE usm, net \ {m}, late)
    BY <1>1, <2>2, ReadCases DEF Fail, Discovered, Succeed, resultVars
  <2>4. i = client.Retries
    BY <1>1, <2>3 DEF TryAgain, resultVars
  <2>5. m \in PacketType /\ m.op = "get"
    BY <1>1, <2>3 DEF ClientInv, Types, Answers, Own
  <2>6. m.type = "window" /\ client.version = "authNoPriv"
    BY <1>1, <2>3, <2>5 DEF ClientInv, Packets, PacketType
  <2>7. m.restarts > known + i /\ m.restarts <= dev.restarts
    BY <1>1, <2>3, <2>6 DEF ClientInv, Packets, Synchronous
  <2>8. known \in Nat /\ i \in Nat /\ m.restarts \in Nat /\ dev.restarts \in Nat
    BY <1>1, <2>5 DEF ClientInv, Types, PacketType
  <2>9. QED
    BY <2>4, <2>7, <2>8
<1>2. ASSUME ClientInv, [Next]_vars, outcome # "untimely", outcome' = "untimely", ~late
      PROVE  dev.lost > known
  <2>1. Next
    BY <1>2 DEF vars, resultVars
  <2>2. PICK m \in net : Read(m)
    BY <1>2, <2>1, OutcomeOf
  <2>3. m.type # "request" /\ Untimely(m)
    BY <1>2, <2>2, ReadCases DEF Fail, Discovered, Succeed, TryAgain, resultVars
  <2>4. /\ m \in PacketType /\ usm \in EngineType /\ dev.lost \in Nat /\ known \in Nat
        /\ client.version = "authNoPriv"
    BY <1>2, <2>3 DEF ClientInv, Types, Packets, Untimely
  <2>5. usm.status = "discovered" /\ ~(usm.boots <= m.boots)
    BY <2>3, <2>4 DEF Untimely, PacketType, EngineType
  <2>6. ~(dev.lost <= known)
    BY <1>2, <2>3, <2>4, <2>5 DEF ClientInv, Orderly
  <2>7. QED
    BY <2>4, <2>6
<1>3. ClientInv /\ [Next]_vars =>
          [~late =>
              /\ outcome # "window" /\ outcome' = "window" =>
                    dev.restarts - known > client.Retries
              /\ outcome # "untimely" /\ outcome' = "untimely" => dev.lost > known]_vars
  BY <1>1, <1>2
<1>4. QED
  BY <1>3, ClientInvariant, PTL DEF Spec, RestartCost

-----------------------------------------------------------------------------
(* Refinement of SnmpService.                                              *)

\* A request that fails is an answer of the service, an error.
LEMMA FailReplies ==
    ASSUME ClientInv, cur # "none", NEW o \in Failure, NEW u, NEW ms, Fail(o, u, ms)
    PROVE  Service!Reply
<1>1. want # None
  BY DEF ClientInv, Phase
<1>2. outcome' = o /\ want' = None /\ since' = 0 /\ pdu' = pdu /\ clock' = clock
  BY DEF Fail, Over, deviceVars
<1>3. QED
  BY <1>1, <1>2 DEF Service!Reply

\* Another try is nothing to the caller.
LEMMA TryAgainReplies ==
    ASSUME ClientInv, cur # "none", NEW o \in Failure, NEW u, NEW ms, NEW l,
           TryAgain(o, u, ms, l)
    PROVE  Service!Reply \/ UNCHANGED Service!vars
<1>1. CASE Fail(o, u, ms)
  BY <1>1, FailReplies
<1>2. CASE UNCHANGED <<up, client, conn, deviceVars, resultVars, known>>
  BY <1>2 DEF deviceVars, resultVars, Service!vars
<1>3. QED
  BY <1>1, <1>2 DEF TryAgain

\* An answer that is taken is a reading of the variable asked for, made since.
LEMMA ReadReplies ==
    ASSUME ClientInv, NEW m \in net, Read(m)
    PROVE  Service!Reply \/ UNCHANGED Service!vars
<1> DEFINE ms == net \ {m}
           u == IF V3 THEN Synchronized(m) ELSE usm
<1>1. cur # "none" /\ want # None /\ m.type # "request"
  BY ReadCases DEF ClientInv, Phase
<1> HIDE DEF ms, u
<1>2. CASE Fail("stale", usm, ms) \/ Fail("untimely", u, ms)
  BY <1>1, <1>2, FailReplies DEF Failure
<1>3. CASE Discovered(m, u, ms)
  BY <1>3 DEF Discovered, deviceVars, resultVars, Service!vars
<1>4. CASE Own(m) /\ cur = "get" /\ Succeed(m, u, ms)
  <2>1. m.oid = want /\ m.at \in since .. clock
    BY <1>1, <1>4 DEF ClientInv, Answers, Own
  <2>2. /\ outcome' = "ok" /\ pdu' = [oid |-> m.oid, at |-> m.at]
        /\ want' = None /\ since' = 0 /\ clock' = clock
    BY <1>4 DEF Succeed, Over, deviceVars
  <2>3. QED
    BY <1>1, <2>1, <2>2 DEF Service!Reply, Failure
<1>5. CASE TryAgain("window", u, ms, late)
  BY <1>1, <1>5, TryAgainReplies DEF Failure
<1>6. QED
  BY <1>2, <1>3, <1>4, <1>5, ReadCases DEF ms, u

\* A question is asked, or refused at once.
LEMMA AskAsks ==
    ASSUME ClientInv, NEW q \in Oid, Get(q) \/ Connect(q)
    PROVE  Service!Ask \/ Service!Refuse
<1>1. want = None
  BY DEF ClientInv, Phase, Get, Connect
<1>2. CASE Ask(q)
  BY <1>1, <1>2 DEF Ask, deviceVars, Service!Ask, Failure, NoReading, Service!NoReading
<1>3. CASE outcome' = "io" /\ pdu' = NoReading /\ UNCHANGED <<want, since, clock>>
  BY <1>1, <1>3 DEF Service!Refuse, Failure, NoReading, Service!NoReading
<1>4. QED
  BY <1>2, <1>3 DEF Get, Connect, deviceVars

\* The session implements SnmpService: whatever the network loses, delays and
\* duplicates and however often the device restarts, a reading that is returned is
\* one of the variable asked for, made after it was asked for.
THEOREM ImplementsService == Spec => ReadingIsOwn
<1>1. Init => Service!Init
  BY DEF Init, Service!Init, NoReading, Service!NoReading, Failure
<1>2. ASSUME ClientInv, [Next]_vars
      PROVE  [Service!Next]_(Service!vars)
  <2>1. CASE UNCHANGED vars
    BY <2>1 DEF vars, deviceVars, resultVars, Service!vars
  <2>2. CASE \E q \in Oid : Get(q) \/ Connect(q)
    BY <1>2, <2>2, AskAsks DEF Service!Next
  <2>3. CASE Timeout \/ IOError
    BY <1>2, <2>3, TryAgainReplies, FailReplies DEF Timeout, IOError, Service!Next, Failure
  <2>4. CASE \E m \in net : Read(m)
    BY <1>2, <2>4, ReadReplies DEF Service!Next
  <2>5. CASE Drop \/ Restart \/ \E m \in net : Respond(m) \/ Lose(m)
    BY <2>5 DEF Drop, Restart, Respond, Lose, deviceVars, resultVars, Service!vars
  <2>6. CASE Change
    BY <2>6 DEF Change, resultVars, Service!Change, Service!Next
  <2>7. QED
    BY <1>2, <2>1, <2>2, <2>3, <2>4, <2>5, <2>6 DEF Next
<1>3. QED
  BY <1>1, <1>2, ClientInvariant, PTL DEF Spec, ReadingIsOwn, Service!Spec
=============================================================================
