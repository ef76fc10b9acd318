--------------------------- MODULE SnmpColProofs ---------------------------
(***************************************************************************)
(* Safety of SNMP collection for every number of requests, addresses,      *)
(* clients, slots, segments and repetitions: the types, that the agent     *)
(* uses the pool only as PoolSpec allows (so that the pool's invariants    *)
(* hold under it), that a request is served by a session to its own        *)
(* address, and the bound on the rows of the pool's map.                   *)
(*                                                                         *)
(* The inductive invariant says who may refer to which client: a handler   *)
(* or goroutine that uses one uses one to its own address, a client that   *)
(* has been made and not yet saved is known to its maker only, and a row   *)
(* of the pool holds clients to the row's address.                         *)
(***************************************************************************)
EXTENDS SnmpCol, SessionPoolProofs, FiniteSetTheorems

\* Handler points before the request has a client.
Early == {"limit", "lookup", "create"}

\* r, or a goroutine of it, has a client in hand.
Holds(r) == pc[r] \in {"save", "loop", "recv", "panic"} \/ Running(r) # {}

\* Who holds which client, and what the client's arguments are.
Ownership ==
    /\ \A r \in Req : Holds(r) => /\ snmpsess[r] \in SNMP
                                  /\ args[snmpsess[r]] \in Arguments
                                  /\ args[snmpsess[r]].ip = req[r].ip
    /\ \A r \in Req : pc[r] \in Early => snmpsess[r] = Nil
    /\ \A r \in Req : pc[r] \in Early \cup {"new", "save"} => Running(r) = {}
    /\ \A r \in Req : pc[r] = "save" =>
          /\ snmpsess[r] \notin Cached
          /\ \A q \in Req : q # r /\ Holds(q) => snmpsess[q] # snmpsess[r]
    /\ \A p \in Filled : /\ args[At(p).Sess] \in Arguments
                         /\ args[At(p).Sess].ip = p[1]

\* The inductive invariant of SNMP collection.
ColInv == PoolInv /\ TypeOK /\ Ownership

-----------------------------------------------------------------------------
(* What the pool's actions do to the set of cached sessions.               *)

\* No session is added to the cache.
Kept == \A p \in Filled' : p \in Filled /\ At(p)'.Sess = At(p).Sess

\* At most client s is added to the cache, in the row of ip.
Added(ip, s) ==
    \A p \in Filled' : \/ p \in Filled /\ At(p)'.Sess = At(p).Sess
                       \/ p[1] = ip /\ At(p)'.Sess = s

\* A filled place holds a session with a client.
LEMMA FilledType ==
    ASSUME PoolTypeOK, NEW p \in Filled
    PROVE  At(p) \in Session /\ At(p).Sess \in SNMP
<1>1. p[1] \in IP /\ p[2] \in Slot /\ At(p) # Nil
  BY DEF Filled, Place
<1>2. Sessions[p[1]] \in Row
  BY <1>1 DEF PoolTypeOK
<1>3. At(p) \in Session
  BY <1>1, <1>2 DEF Row, At
<1>4. QED
  BY <1>3 DEF Session

\* Marking sessions adds none to the cache.
LEMMA MarkedKept ==
    ASSUME Marked
    PROVE  Kept
BY DEF Marked, Kept, Filled, At, Place

\* A step that leaves Sessions alone adds none to the cache.
LEMMA UnchangedKept ==
    ASSUME UNCHANGED Sessions
    PROVE  Kept
BY DEF Kept, Filled, At, Place

\* Emptying a slot adds no session to the cache.
LEMMA EvictKept ==
    ASSUME PoolTypeOK, NEW p \in Place, Evict(p[1], p[2])
    PROVE  Kept
<1>1. p[1] \in IP /\ p[2] \in Slot
  BY DEF Place
<1>2. ASSUME NEW q \in Place
      PROVE  At(q)' \in {Nil, At(q)}
  BY <1>1 DEF Evict, PoolTypeOK, Row, At, Place
<1>3. QED
  BY <1>2 DEF Kept, Filled

\* Kick adds no session to the cache.
LEMMA KickKept ==
    ASSUME PoolTypeOK, NEW ip \in IP, NEW i \in Slot, Kick(ip, i)
    PROVE  Kept
<1>1. CASE Evict(ip, i)
  <2>1. <<ip, i>> \in Place /\ <<ip, i>>[1] = ip /\ <<ip, i>>[2] = i
    BY DEF Place
  <2>2. QED
    BY <1>1, <2>1, EvictKept
<1>2. CASE UNCHANGED Sessions
  BY <1>2, UnchangedKept
<1>3. QED
  BY <1>1, <1>2 DEF Kick

\* The cleaner adds no session to the cache.
LEMMA CleanerKept ==
    ASSUME PoolTypeOK, Cleaner
    PROVE  Kept
<1>1. ASSUME NEW p \in Place, CleanerExpire(p)
      PROVE  Kept
  BY <1>1, EvictKept DEF CleanerExpire
<1>2. ASSUME NEW ok \in BOOLEAN, CleanerProbed(ok)
      PROVE  Kept
  <2>1. CASE ok
    BY <1>2, <2>1, UnchangedKept DEF CleanerProbed
  <2>2. CASE ~ok
    <3>1. probe \in Place /\ Evict(probe[1], probe[2])
      BY <1>2, <2>2 DEF CleanerProbed, PoolTypeOK
    <3>2. QED
      BY <3>1, EvictKept
  <2>3. QED
    BY <2>1, <2>2
<1>3. CASE UNCHANGED Sessions
  BY <1>3, UnchangedKept
<1>4. QED
  BY <1>1, <1>2, <1>3 DEF Cleaner, CleanerLock, CleanerSkip, CleanerProbe,
                          CleanerUnlock

\* Save adds its own client to the row of its address and nothing else.
LEMMA SaveAdds ==
    ASSUME PoolTypeOK, NEW ip \in IP, NEW s \in SNMP, NEW i \in Slot,
           OpenAndSave(ip, s, i)
    PROVE  Added(ip, s)
<1> DEFINE new == MkSession(s, FALSE, 0)
<1>1. new.Sess = s
  BY DEF MkSession
<1>2. \/ Sessions' = [Sessions EXCEPT ![ip][i] = new]
      \/ Sessions' = [Sessions EXCEPT
                ![ip] = [j \in Slot |-> IF j = 0 THEN new ELSE Nil]]
  BY DEF OpenAndSave, Save
<1> HIDE DEF new
<1>3. ASSUME NEW p \in Filled'
      PROVE  (p \in Filled /\ At(p)' = At(p)) \/ (p[1] = ip /\ At(p)' = new)
  <2>1. p \in Place /\ p[1] \in IP /\ p[2] \in Slot /\ At(p)' # Nil
    BY DEF Filled, Place
  <2>2. At(p)' = At(p) \/ At(p)' = Nil \/ (p[1] = ip /\ At(p)' = new)
    BY <1>2, <2>1 DEF PoolTypeOK, Row, At
  <2>3. QED
    BY <2>1, <2>2 DEF Filled
<1>4. QED
  BY <1>1, <1>3 DEF Added

-----------------------------------------------------------------------------
(* Every step of the agent is a step of the pool or leaves the pool alone. *)

\* A handler that is past its start has a request.
LEMMA RequestType ==
    ASSUME ColInv, NEW r \in Req, pc[r] # "new"
    PROVE  /\ req[r] \in Request
           /\ req[r].ip \in IP
           /\ req[r].count \in 0 .. MaxCount
           /\ req[r].tasks \in Task
           /\ req[r].arg \in Arg
BY DEF ColInv, TypeOK, Request

\* A goroutine of SnmpGet has a client to the address of its request, and
\* its handler is past Save.
LEMMA GoroutineHasClient ==
    ASSUME ColInv, NEW r \in Req, NEW g \in Gid, gpc[r][g] # "none"
    PROVE  /\ pc[r] \notin Early \cup {"new", "save"}
           /\ Holds(r)
           /\ snmpsess[r] \in SNMP
           /\ args[snmpsess[r]].ip = req[r].ip
BY DEF ColInv, Ownership, Holds, Running

\* A step of a handler is a step of PoolSpec or leaves the pool alone: what
\* Save stores is in no slot yet.
LEMMA HandlerRefines ==
    ASSUME ColInv, NEW r \in Req, Arrive(r) \/ Handler(r)
    PROVE  [PoolNext]_poolVars
<1>1. CASE Arrive(r) \/ CheckLimit(r) \/ Spawn(r)
  BY <1>1 DEF Arrive, CheckLimit, Spawn
<1>2. CASE Lookup(r)
  <2>1. req[r].ip \in IP
    BY <1>2, RequestType DEF Lookup
  <2>2. \/ UNCHANGED poolVars
        \/ \E i \in Slot : GetCacheSess(req[r].ip, i)
    BY <1>2 DEF Lookup
  <2>3. QED
    BY <2>1, <2>2 DEF PoolNext
<1>3. CASE Create(r)
  BY <1>3 DEF Create, PoolNext
<1>4. CASE SaveNew(r)
  <2>1. /\ req[r].ip \in IP
        /\ snmpsess[r] \in SNMP /\ snmpsess[r] \notin Cached
    BY <1>4, RequestType DEF SaveNew, ColInv, Ownership, Holds
  <2>2. \/ UNCHANGED poolVars
        \/ Crash(snmpsess[r])
        \/ \E i \in Slot : OpenAndSave(req[r].ip, snmpsess[r], i)
    BY <1>4 DEF SaveNew
  <2>3. QED
    BY <2>1, <2>2 DEF PoolNext
<1>5. CASE FreeHeld(r)
  <2>1. req[r].ip \in IP
    BY <1>5, RequestType DEF FreeHeld
  <2>2. slotc[r] < 0 \/ slotc[r] \in Slot
    <3>1. slotc[r] \in Slot \cup {-1}
      BY DEF ColInv, TypeOK
    <3>2. QED
      BY <3>1
  <2>3. \/ UNCHANGED poolVars
        \/ slotc[r] \in Slot /\ Free(req[r].ip, slotc[r])
    BY <1>5, <2>2 DEF FreeHeld
  <2>4. QED
    BY <2>1, <2>3 DEF PoolNext
<1>6. QED
  BY <1>1, <1>2, <1>3, <1>4, <1>5 DEF Handler

\* A step of SnmpGet is a step of PoolSpec or leaves the pool alone.
LEMMA SnmpGetRefines ==
    ASSUME ColInv, NEW r \in Req, NEW g \in Gid, SnmpGet(r, g)
    PROVE  [PoolNext]_poolVars
<1>1. gpc[r][g] # "none"
  BY DEF SnmpGet, Begin, Return, Interrupted, Deliver, Receive, ReadFlag,
         KickHeld, Outcome
<1>2. snmpsess[r] \in SNMP /\ args[snmpsess[r]].ip = req[r].ip /\ req[r].ip \in IP
  BY <1>1, GoroutineHasClient, RequestType
<1>3. CASE Begin(r, g)
  <2>1. UNCHANGED poolVars \/ Open(snmpsess[r]) \/ Crash(snmpsess[r])
    BY <1>3 DEF Begin
  <2>2. QED
    BY <1>2, <2>1 DEF PoolNext
<1>4. CASE Interrupted(r, g)
  <2>1. Open(snmpsess[r]) \/ Crash(snmpsess[r])
    BY <1>4 DEF Interrupted
  <2>2. QED
    BY <1>2, <2>1 DEF PoolNext
<1>5. CASE Return(r, g) \/ Deliver(r, g) \/ ReadFlag(r, g)
  BY <1>5 DEF Return, Deliver, Receive, ReadFlag
<1>6. CASE KickHeld(r, g)
  <2>1. karg[r][g] < 0 \/ karg[r][g] \in Slot
    <3>1. karg[r][g] \in Slot \cup {-1}
      BY DEF ColInv, TypeOK
    <3>2. QED
      BY <3>1
  <2>2. \/ UNCHANGED poolVars
        \/ karg[r][g] \in Slot /\ Kick(req[r].ip, karg[r][g])
    BY <1>2, <1>6, <2>1 DEF KickHeld
  <2>3. QED
    BY <1>2, <2>2 DEF PoolNext
<1>7. QED
  BY <1>3, <1>4, <1>5, <1>6 DEF SnmpGet

\* Every step of SNMP collection is a step of PoolSpec or leaves the pool
\* alone.
LEMMA StepRefines ==
    ColInv /\ [Next]_vars => [PoolNext]_poolVars
<1> SUFFICES ASSUME ColInv, [Next]_vars
             PROVE  [PoolNext]_poolVars
  OBVIOUS
<1>1. ASSUME NEW r \in Req, Arrive(r) \/ Handler(r)
      PROVE  [PoolNext]_poolVars
  BY <1>1, HandlerRefines
<1>2. ASSUME NEW r \in Req, NEW g \in Gid, SnmpGet(r, g)
      PROVE  [PoolNext]_poolVars
  BY <1>2, SnmpGetRefines
<1>3. CASE Clean
  BY <1>3 DEF Clean, PoolNext
<1>4. CASE Time
  BY <1>4 DEF Time, PoolNext
<1>5. CASE Reload
  BY <1>5 DEF Reload
<1>6. CASE UNCHANGED vars
  BY <1>6 DEF vars
<1>7. QED
  BY <1>1, <1>2, <1>3, <1>4, <1>5, <1>6 DEF Next

-----------------------------------------------------------------------------
(* Types.                                                                  *)

\* The history variable is a set of addresses.
LEMMA DisturbType ==
    ASSUME TypeOK, NEW ips \in SUBSET IP, Disturb(ips)
    PROVE  tainted' \subseteq IP
BY DEF TypeOK, Disturb

\* The handler moves, and its answer keeps its type.
PcStep ==
    /\ pc' \in [Req -> PC]
    /\ \A q \in Req : pc'[q] = "new" <=> pc[q] = "new"
    /\ data' \in [Req -> Nat]
    /\ error' \in [Req -> {"", "err", "refused", "500"}]

HoldStep ==
    /\ snmpsess' \in [Req -> SNMP \cup {Nil}]
    /\ slotc' \in [Req -> Slot \cup {-1}]
    /\ cacheflag' \in [Req -> Slot \cup {-1}]

\* Goto keeps the types of the handler's point and answer.
LEMMA GotoTypes ==
    ASSUME TypeOK, NEW r \in Req, pc[r] # "new",
           NEW l \in PC \ {"new"}, Goto(r, l)
    PROVE  PcStep
BY DEF TypeOK, Goto, PcStep, answerVars

\* Fail keeps the types of the handler's point and answer.
LEMMA FailTypes ==
    ASSUME TypeOK, NEW r \in Req, pc[r] # "new",
           NEW e \in {"err", "refused", "500"}, Fail(r, e)
    PROVE  PcStep
BY DEF TypeOK, Fail, PcStep, PC

\* Hold keeps the types of what it assigns.
LEMMA HoldTypes ==
    ASSUME TypeOK, NEW r \in Req, pc[r] # "new",
           NEW s \in SNMP, NEW i \in Slot \cup {-1}, Hold(r, s, i)
    PROVE  PcStep /\ HoldStep
<1>1. PcStep
  BY GotoTypes DEF Hold, PC
<1>2. HoldStep
  BY DEF TypeOK, Hold, HoldStep
<1>3. QED
  BY <1>1, <1>2

\* What a handler holds keeps its type if it does not change.
LEMMA SameHold ==
    ASSUME TypeOK, UNCHANGED holdVars
    PROVE  HoldStep
BY DEF TypeOK, HoldStep, holdVars

\* The types of the parts make up the type invariant.
LEMMA TypesAssemble ==
    ASSUME TypeOK, PoolTypeOK', PcStep, HoldStep, UNCHANGED req,
           Maxsesspool' \in Limits,
           args' \in [SNMP -> Arguments \cup {Nil}],
           iter' \in [Req -> 0 .. MaxCount],
           got' \in [Req -> Nat],
           gpc' \in [Req -> [Gid -> GPC]],
           karg' \in [Req -> [Gid -> Slot \cup {-1}]],
           async_c' \in [Req -> [Iter -> BOOLEAN]],
           tainted' \subseteq IP
    PROVE  TypeOK'
BY DEF TypeOK, PcStep, HoldStep

\* A step of a handler keeps the types.
LEMMA HandlerTypes ==
    ASSUME ColInv, PoolTypeOK', NEW r \in Req, Arrive(r) \/ Handler(r)
    PROVE  TypeOK'
<1> USE DEF ColInv
<1>0. -1 \in Slot \cup {-1} /\ 0 \in 0 .. MaxCount /\ 0 \in Nat
  BY ColAssumption
<1>00. ASSUME UNCHANGED goVars
       PROVE  /\ gpc' \in [Req -> [Gid -> GPC]]
              /\ karg' \in [Req -> [Gid -> Slot \cup {-1}]]
              /\ async_c' \in [Req -> [Iter -> BOOLEAN]]
  BY <1>00 DEF TypeOK, goVars
<1>1. CASE Arrive(r)
  <2>1. tainted' \subseteq IP
    BY <1>1, DisturbType DEF Arrive
  <2>2. PICK in \in Input : req' = [req EXCEPT ![r] = in]
    BY <1>1 DEF Arrive
  <2>3. in \in Request /\ in # Nil
    BY ColAssumption
  <2>4. req' \in [Req -> Request \cup {Nil}] /\ req'[r] # Nil
        /\ \A q \in Req : q # r => req'[q] = req[q]
    BY <2>2, <2>3 DEF TypeOK
  <2>5. pc' \in [Req -> PC] /\ pc'[r] # "new"
        /\ \A q \in Req : q # r => pc'[q] = pc[q]
    BY <1>1 DEF Arrive, TypeOK, PC
  <2>6. \A q \in Req : req'[q] = Nil <=> pc'[q] = "new"
    BY <2>4, <2>5 DEF TypeOK
  <2>7. /\ error' \in [Req -> {"", "err", "refused", "500"}]
        /\ data' \in [Req -> Nat] /\ iter' \in [Req -> 0 .. MaxCount]
        /\ got' \in [Req -> Nat]
    <3>1. error' \in [Req -> {"", "err", "refused", "500"}]
      BY <1>1 DEF Arrive, TypeOK
    <3>2. data' = [data EXCEPT ![r] = 0] /\ iter' = [iter EXCEPT ![r] = 0] /\ got' = got
      BY <1>1 DEF Arrive
    <3>3. 0 \in Nat /\ 0 \in 0 .. MaxCount
      BY ColAssumption
    <3>4. QED
      BY <3>1, <3>2, <3>3 DEF TypeOK
  <2>8. /\ snmpsess' \in [Req -> SNMP \cup {Nil}]
        /\ slotc' \in [Req -> Slot \cup {-1}]
        /\ cacheflag' \in [Req -> Slot \cup {-1}]
        /\ args' \in [SNMP -> Arguments \cup {Nil}]
        /\ Maxsesspool' \in Limits
    BY <1>0, <1>1 DEF Arrive, TypeOK
  <2>9. UNCHANGED goVars
    BY <1>1 DEF Arrive
  <2>10. QED
    BY <1>00, <2>1, <2>4, <2>5, <2>6, <2>7, <2>8, <2>9 DEF TypeOK
<1>2. CASE CheckLimit(r)
  <2>1. tainted' \subseteq IP
    BY <1>2, DisturbType DEF CheckLimit
  <2>2. PcStep
    BY <1>2, FailTypes, GotoTypes DEF CheckLimit, PC
  <2>3. QED
    BY <1>00, <1>2, <2>1, <2>2, SameHold, TypesAssemble DEF CheckLimit, TypeOK
<1>3. CASE Lookup(r)
  <2>1. tainted' \subseteq IP
    BY <1>3, DisturbType DEF Lookup
  <2>2. req[r].ip \in IP
    BY <1>3, RequestType DEF Lookup
  <2>3. ASSUME NEW i \in Slot, GetCacheSess(req[r].ip, i)
        PROVE  Sessions[req[r].ip][i].Sess \in SNMP
    <3>1. Sessions[req[r].ip][i] # Nil
      BY <2>3 DEF GetCacheSess, First, IdleSlots
    <3>2. Sessions[req[r].ip] \in Row
      BY <2>2 DEF TypeOK, PoolTypeOK
    <3>3. Sessions[req[r].ip][i] \in Session
      BY <3>1, <3>2 DEF Row
    <3>4. QED
      BY <3>3 DEF Session
  <2>4. PcStep /\ HoldStep
    BY <1>3, <2>3, HoldTypes, GotoTypes, SameHold DEF Lookup, PC
  <2>5. QED
    BY <1>00, <1>3, <2>1, <2>4, TypesAssemble DEF Lookup, TypeOK
<1>4. CASE Create(r)
  <2>1. tainted' \subseteq IP
    BY <1>4, DisturbType DEF Create
  <2>2. [ip |-> req[r].ip, arg |-> req[r].arg] \in Arguments
    BY <1>4, RequestType DEF Create, Arguments
  <2>3. args' \in [SNMP -> Arguments \cup {Nil}]
    BY <1>4, <2>2 DEF Create, TypeOK
  <2>4. PcStep /\ HoldStep
    <3>1. CASE Fail(r, "err") /\ UNCHANGED holdVars
      BY <1>4, <3>1, FailTypes, SameHold DEF Create
    <3>2. ASSUME NEW s \in SNMP, snmpsess' = [snmpsess EXCEPT ![r] = s],
                 Goto(r, "save"), UNCHANGED <<slotc, cacheflag>>
          PROVE  PcStep /\ HoldStep
      BY <1>4, <3>2, GotoTypes DEF Create, TypeOK, HoldStep, PC
    <3>3. ASSUME NEW s \in SNMP, Hold(r, s, -1)
          PROVE  PcStep /\ HoldStep
      BY <1>0, <1>4, <3>3, HoldTypes DEF Create
    <3>4. QED
      BY <1>4, <3>1, <3>2, <3>3 DEF Create
  <2>5. QED
    BY <1>00, <1>4, <2>1, <2>3, <2>4, TypesAssemble DEF Create, TypeOK
<1>5. CASE SaveNew(r)
  <2>1. req[r].ip \in IP /\ snmpsess[r] \in SNMP
    BY <1>5, RequestType DEF SaveNew, Ownership, Holds
  <2>2. tainted' \subseteq IP
    BY <1>5, <2>1, DisturbType DEF SaveNew
  <2>3. CASE UNCHANGED <<pc, answerVars, holdVars>>
    <3>1. PcStep /\ HoldStep
      BY <2>3, SameHold DEF TypeOK, PcStep, answerVars
    <3>2. QED
      BY <1>00, <1>5, <2>2, <3>1, TypesAssemble DEF SaveNew, TypeOK
  <2>4. CASE ~(UNCHANGED <<pc, answerVars, holdVars>>)
    <3>1. PcStep /\ HoldStep
      BY <1>5, <2>1, <2>4, FailTypes, HoldTypes, SameHold DEF SaveNew
    <3>2. QED
      BY <1>00, <1>5, <2>2, <3>1, TypesAssemble DEF SaveNew, TypeOK
  <2>5. QED
    BY <2>3, <2>4
<1>6. CASE Spawn(r)
  <2>1. req[r].ip \in IP /\ req[r].count \in 0 .. MaxCount
    BY <1>6, RequestType DEF Spawn
  <2>2. tainted' \subseteq IP
    BY <1>6, <2>1, DisturbType DEF Spawn
  <2>3. iter' \in [Req -> 0 .. MaxCount]
    <3>1. iter[r] \in 0 .. MaxCount /\ iter[r] < req[r].count
      BY <1>6 DEF Spawn, TypeOK
    <3>2. iter[r] + 1 \in 0 .. MaxCount
      BY <2>1, <3>1, ColAssumption
    <3>3. QED
      BY <1>6, <3>2 DEF Spawn, TypeOK
  <2>4. gpc' \in [Req -> [Gid -> GPC]]
    BY <1>6 DEF Spawn, TypeOK, GPC
  <2>5. PcStep
    BY <1>6, GotoTypes DEF Spawn, PC
  <2>6. got' \in [Req -> Nat]
    BY <1>6 DEF Spawn, TypeOK
  <2>7. QED
    BY <1>6, <2>2, <2>3, <2>4, <2>5, <2>6, SameHold, TypesAssemble
    DEF Spawn, TypeOK
<1>7. CASE FreeHeld(r)
  <2>1. tainted' \subseteq IP
    BY <1>7, DisturbType DEF FreeHeld
  <2>2. PcStep
    BY <1>7, FailTypes, GotoTypes DEF FreeHeld, PC
  <2>3. HoldStep /\ got' \in [Req -> Nat]
    BY <1>0, <1>7 DEF FreeHeld, TypeOK, HoldStep
  <2>4. QED
    BY <1>00, <1>7, <2>1, <2>2, <2>3, TypesAssemble DEF FreeHeld, TypeOK
<1>8. QED
  BY <1>1, <1>2, <1>3, <1>4, <1>5, <1>6, <1>7 DEF Handler

\* Counting up stays within the natural numbers.
LEMMA Successor ==
    ASSUME NEW n \in Nat
    PROVE  n + 1 \in Nat
OBVIOUS

\* A step of SnmpGet keeps the types.
LEMMA SnmpGetTypes ==
    ASSUME ColInv, PoolTypeOK', NEW r \in Req, NEW g \in Gid, SnmpGet(r, g)
    PROVE  TypeOK'
<1> USE DEF ColInv
<1>0. gpc[r][g] # "none" /\ g[1] \in Iter /\ -1 \in Slot \cup {-1}
  BY DEF SnmpGet, Begin, Return, Interrupted, Deliver, Receive, ReadFlag,
         KickHeld, Outcome, Gid
<1>1. req[r].ip \in IP /\ pc[r] # "new"
  BY <1>0, GoroutineHasClient, RequestType
<1>2. ASSUME NEW l \in GPC, Move(r, g, l)
      PROVE  gpc' \in [Req -> [Gid -> GPC]]
  BY <1>2 DEF Move, TypeOK
<1>3. ASSUME NEW o \in Outcome, Finish(r, g, o)
      PROVE  gpc' \in [Req -> [Gid -> GPC]] /\ tainted' \subseteq IP
  BY <1>1, <1>2, <1>3, DisturbType DEF Finish, GPC
<1>4. ASSUME UNCHANGED <<pc, answerVars>>
      PROVE  PcStep
  BY <1>4 DEF TypeOK, PcStep, answerVars
<1>5. CASE Begin(r, g)
  <2>1. gpc' \in [Req -> [Gid -> GPC]] /\ tainted' \subseteq IP
    BY <1>2, <1>3, <1>5, DisturbType DEF Begin, GPC, Outcome, TypeOK
  <2>2. async_c' \in [Req -> [Iter -> BOOLEAN]]
    BY <1>0, <1>5 DEF Begin, TypeOK
  <2>3. QED
    BY <1>4, <1>5, <2>1, <2>2, SameHold, TypesAssemble DEF Begin, TypeOK
<1>6. CASE Return(r, g)
  <2>1. gpc' \in [Req -> [Gid -> GPC]] /\ tainted' \subseteq IP
    BY <1>3, <1>6 DEF Return
  <2>2. QED
    BY <1>4, <1>6, <2>1, SameHold, TypesAssemble DEF Return, TypeOK
<1>7. CASE Interrupted(r, g)
  <2>1. tainted' \subseteq IP
    BY <1>7, DisturbType DEF Interrupted
  <2>2. QED
    BY <1>4, <1>7, <2>1, SameHold, TypesAssemble DEF Interrupted, TypeOK, goVars
<1>8. CASE Deliver(r, g)
  <2>0. /\ got \in [Req -> Nat] /\ data \in [Req -> Nat]
        /\ got[r] + 1 \in Nat /\ data[r] + 1 \in Nat
    <3>1. got[r] \in Nat /\ data[r] \in Nat
      BY DEF TypeOK
    <3>2. QED
      BY <3>1, Successor DEF TypeOK
  <2>1. PICK last \in BOOLEAN, e \in {"", "err", "refused", "500"},
             kick \in BOOLEAN : Receive(r, g, last, e, kick)
    <3>1. FirstError(r, g) \in {"", "err", "refused", "500"}
      BY DEF FirstError, TypeOK
    <3>2. /\ (got[r] + 1 = req[r].tasks) \in BOOLEAN
          /\ (gpc[r][g] = "ioerr") \in BOOLEAN
      OBVIOUS
    <3>3. QED
      BY <1>8, <3>1, <3>2 DEF Deliver
  <2>2. tainted' \subseteq IP
    BY <2>1, DisturbType DEF Receive
  <2>3. gpc' \in [Req -> [Gid -> GPC]]
    BY <1>2, <2>1 DEF Receive, GPC
  <2>4. async_c' \in [Req -> [Iter -> BOOLEAN]]
    BY <1>0, <2>1 DEF Receive, TypeOK
  <2>5. got' \in [Req -> Nat] /\ data' \in [Req -> Nat]
    BY <2>0, <2>1 DEF Receive
  <2>6. PcStep
    BY <1>1, <2>1, <2>5 DEF Receive, TypeOK, PcStep, PC
  <2>7. QED
    BY <2>1, <2>2, <2>3, <2>4, <2>5, <2>6, SameHold, TypesAssemble
    DEF Receive, TypeOK
<1>9. CASE ReadFlag(r, g)
  <2>1. gpc' \in [Req -> [Gid -> GPC]] /\ tainted' \subseteq IP
    BY <1>2, <1>9, DisturbType DEF ReadFlag, GPC
  <2>2. karg' \in [Req -> [Gid -> Slot \cup {-1}]]
    BY <1>9 DEF ReadFlag, TypeOK
  <2>3. QED
    BY <1>4, <1>9, <2>1, <2>2, SameHold, TypesAssemble DEF ReadFlag, TypeOK
<1>10. CASE KickHeld(r, g)
  <2>1. gpc' \in [Req -> [Gid -> GPC]] /\ tainted' \subseteq IP
    BY <1>2, <1>10, DisturbType DEF KickHeld, GPC
  <2>2. karg' \in [Req -> [Gid -> Slot \cup {-1}]]
    BY <1>0, <1>10 DEF KickHeld, TypeOK
  <2>3. async_c' \in [Req -> [Iter -> BOOLEAN]]
    BY <1>0, <1>10 DEF KickHeld, TypeOK
  <2>4. HoldStep
    BY <1>0, <1>10 DEF KickHeld, TypeOK, HoldStep
  <2>5. PcStep
    BY <1>4, <1>10 DEF KickHeld
  <2>6. QED
    BY <1>10, <2>1, <2>2, <2>3, <2>4, <2>5, TypesAssemble DEF KickHeld, TypeOK
<1>11. QED
  BY <1>5, <1>6, <1>7, <1>8, <1>9, <1>10 DEF SnmpGet

\* Every step keeps the types.
LEMMA StepTypes ==
    ASSUME ColInv, PoolTypeOK', [Next]_vars
    PROVE  TypeOK'
<1> USE DEF ColInv
<1>1. ASSUME UNCHANGED <<pc, answerVars>>
      PROVE  PcStep
  BY <1>1 DEF TypeOK, PcStep, answerVars
<1>2. CASE Clean
  <2>1. {p[1] : p \in {q \in Filled : At(q)' = Nil /\ ~At(q).Idle}} \subseteq IP
    BY DEF Filled, Place
  <2>2. tainted' \subseteq IP
    BY <1>2, <2>1, DisturbType DEF Clean
  <2>3. QED
    BY <1>1, <1>2, <2>2, SameHold, TypesAssemble DEF Clean, TypeOK, goVars
<1>3. CASE Time
  <2>1. tainted' \subseteq IP
    BY <1>3, DisturbType DEF Time
  <2>2. QED
    BY <1>1, <1>3, <2>1, SameHold, TypesAssemble DEF Time, TypeOK, goVars
<1>4. CASE Reload
  <2>1. tainted' \subseteq IP
    BY <1>4, DisturbType DEF Reload
  <2>2. QED
    BY <1>1, <1>4, <2>1, SameHold, TypesAssemble DEF Reload, TypeOK, goVars
<1>5. CASE UNCHANGED vars
  BY <1>1, <1>5, SameHold, TypesAssemble DEF vars, colVars, TypeOK, goVars
<1>6. QED
  BY <1>2, <1>3, <1>4, <1>5, HandlerTypes, SnmpGetTypes DEF Next

-----------------------------------------------------------------------------
(* Who holds which client.                                                 *)

\* A step that adds no session to the cache, makes no client and after which
\* r holds a client only if it did before.
LEMMA QuietOwnership ==
    ASSUME ColInv, Kept, UNCHANGED <<args, snmpsess, req>>, NEW r \in Req,
           \A q \in Req \ {r} : pc'[q] = pc[q] /\ gpc'[q] = gpc[q],
           Holds(r)' => Holds(r),
           \/ pc'[r] \notin Early \cup {"new", "save"}
           \/ pc[r] \in Early /\ pc'[r] \in Early /\ gpc'[r] = gpc[r]
           \/ pc'[r] = pc[r] /\ gpc'[r] = gpc[r]
    PROVE  Ownership'
<1> USE DEF ColInv
<1>1. ASSUME NEW q \in Req, q # r
      PROVE  (Holds(q)' <=> Holds(q)) /\ Running(q)' = Running(q)
  <2>1. pc'[q] = pc[q] /\ gpc'[q] = gpc[q]
    BY <1>1
  <2>2. Running(q)' = Running(q)
    BY <2>1 DEF Running
  <2>3. QED
    BY <2>1, <2>2 DEF Holds
<1>2. \A q \in Req : Holds(q)' => Holds(q)
  BY <1>1
<1>3. Cached' \subseteq Cached
  BY DEF Cached, Kept
<1>4. \A q \in Req : pc'[q] \in Early => pc[q] \in Early
  BY DEF Early
<1>5. \A q \in Req : pc'[q] = "save" => pc[q] = "save"
  BY DEF Early
<1>6. \A q \in Req : pc'[q] \in Early \cup {"new", "save"} => Running(q)' = {}
  <2>1. gpc'[r] = gpc[r] => Running(r)' = Running(r)
    BY DEF Running
  <2>2. QED
    BY <1>1, <2>1 DEF Ownership
<1>7. \A p \in Filled' : /\ args'[At(p)'.Sess] \in Arguments
                         /\ args'[At(p)'.Sess].ip = p[1]
  BY DEF Kept, Ownership
<1>8. QED
  BY <1>2, <1>3, <1>4, <1>5, <1>6, <1>7 DEF Ownership

\* The pool is left alone or used without adding to the cache.
LEMMA PoolUseKept ==
    ASSUME PoolTypeOK,
           \/ UNCHANGED poolVars
           \/ \E ip \in IP, i \in Slot : GetCacheSess(ip, i) \/ Free(ip, i)
                                         \/ Kick(ip, i)
           \/ \E s \in SNMP : NewSNMP(s) \/ Open(s) \/ Crash(s)
           \/ Cleaner
           \/ Tick
    PROVE  Kept
<1>1. CASE UNCHANGED poolVars
  BY <1>1, UnchangedKept DEF poolVars
<1>2. CASE \E ip \in IP, i \in Slot : GetCacheSess(ip, i) \/ Free(ip, i)
                                      \/ Kick(ip, i)
  BY <1>2, GetIsMarked, FreeIsMarked, MarkedKept, KickKept
<1>3. CASE \E s \in SNMP : NewSNMP(s) \/ Open(s) \/ Crash(s)
  BY <1>3, UnchangedKept DEF NewSNMP, Open, Crash
<1>4. CASE Cleaner
  BY <1>4, CleanerKept
<1>5. CASE Tick
  BY <1>5, TickIsMarked, MarkedKept
<1>6. QED
  BY <1>1, <1>2, <1>3, <1>4, <1>5

\* The handler takes client s, which is one of its address and which nobody
\* else has made and not yet saved.
LEMMA TakeOwnership ==
    ASSUME ColInv, UNCHANGED <<args, req, gpc>>, NEW r \in Req, NEW s \in SNMP,
           pc' = [pc EXCEPT ![r] = "loop"],
           snmpsess' = [snmpsess EXCEPT ![r] = s],
           args[s] \in Arguments, args[s].ip = req[r].ip,
           \A q \in Req \ {r} : pc[q] = "save" =>
               snmpsess[q] # s /\ snmpsess[q] \notin Cached',
           \A p \in Filled' : \/ p \in Filled /\ At(p)'.Sess = At(p).Sess
                              \/ p[1] = req[r].ip /\ At(p)'.Sess = s
    PROVE  Ownership'
<1> USE DEF ColInv
<1>1. \A q \in Req \ {r} : /\ pc'[q] = pc[q] /\ snmpsess'[q] = snmpsess[q]
                           /\ Holds(q)' <=> Holds(q)
  BY DEF TypeOK, Holds, Running
<1>2. \A q \in Req : Running(q)' = Running(q)
  BY DEF Running
<1>3. pc'[r] = "loop" /\ snmpsess'[r] = s
  BY DEF TypeOK
<1>4. \A q \in Req : Holds(q)' => /\ snmpsess'[q] \in SNMP
                                  /\ args'[snmpsess'[q]] \in Arguments
                                  /\ args'[snmpsess'[q]].ip = req'[q].ip
  BY <1>1, <1>3 DEF Ownership
<1>5. \A q \in Req : /\ pc'[q] \in Early => snmpsess'[q] = Nil
                     /\ pc'[q] \in Early \cup {"new", "save"} => Running(q)' = {}
  BY <1>1, <1>2, <1>3 DEF Ownership, Early
<1>6. ASSUME NEW q \in Req, pc'[q] = "save"
      PROVE  /\ snmpsess'[q] \notin Cached'
             /\ \A t \in Req : t # q /\ Holds(t)' => snmpsess'[t] # snmpsess'[q]
  BY <1>1, <1>3, <1>6 DEF Ownership
<1>7. \A p \in Filled' : /\ args'[At(p)'.Sess] \in Arguments
                         /\ args'[At(p)'.Sess].ip = p[1]
  BY DEF Ownership
<1>8. QED
  BY <1>4, <1>5, <1>6, <1>7 DEF Ownership

\* A new client is one that nobody holds and no slot contains.
LEMMA CreateOwnership ==
    ASSUME ColInv, NEW r \in Req, NEW s \in SNMP, pc[r] = "create",
           Unreferenced(s), UNCHANGED <<Sessions, req, gpc>>,
           args' = [args EXCEPT ![s] = [ip |-> req[r].ip, arg |-> req[r].arg]],
           snmpsess' = [snmpsess EXCEPT ![r] = s],
           NEW l \in {"save", "loop"}, pc' = [pc EXCEPT ![r] = l]
    PROVE  Ownership'
<1> USE DEF ColInv
<1>1. \A q \in Req \ {r} : /\ pc'[q] = pc[q] /\ snmpsess'[q] = snmpsess[q]
                           /\ Holds(q)' <=> Holds(q)
  BY DEF TypeOK, Holds, Running
<1>2. \A q \in Req : Running(q)' = Running(q)
  BY DEF Running
<1>3. pc'[r] = l /\ snmpsess'[r] = s /\ Running(r) = {}
  BY DEF TypeOK, Ownership, Early
<1>4. /\ args'[s] \in Arguments /\ args'[s].ip = req[r].ip
      /\ \A t \in SNMP : t # s => args'[t] = args[t]
  <2>1. [ip |-> req[r].ip, arg |-> req[r].arg] \in Arguments
    BY RequestType DEF Arguments
  <2>2. args'[s] = [ip |-> req[r].ip, arg |-> req[r].arg]
    BY DEF TypeOK
  <2>3. QED
    BY <2>1, <2>2 DEF TypeOK
<1>5. \A q \in Req : Holds(q) => snmpsess[q] # s
  BY DEF Unreferenced, InFlight, Holds
<1>6. /\ Cached' = Cached /\ s \notin Cached
      /\ Filled' = Filled /\ \A p \in Filled : At(p)' = At(p)
  BY DEF Unreferenced, Cached, Filled, At
<1>7. \A q \in Req : Holds(q)' => /\ snmpsess'[q] \in SNMP
                                  /\ args'[snmpsess'[q]] \in Arguments
                                  /\ args'[snmpsess'[q]].ip = req'[q].ip
  <2>1. \A q \in Req \ {r} : Holds(q)' => /\ snmpsess'[q] \in SNMP
                                  /\ args'[snmpsess'[q]] \in Arguments
                                  /\ args'[snmpsess'[q]].ip = req'[q].ip
    BY <1>1, <1>4, <1>5 DEF Ownership
  <2>2. QED
    BY <1>3, <1>4, <2>1
<1>8. \A q \in Req : /\ pc'[q] \in Early => snmpsess'[q] = Nil
                     /\ pc'[q] \in Early \cup {"new", "save"} => Running(q)' = {}
  BY <1>1, <1>2, <1>3 DEF Ownership, Early
<1>9. ASSUME NEW q \in Req, pc'[q] = "save"
      PROVE  /\ snmpsess'[q] \notin Cached'
             /\ \A t \in Req : t # q /\ Holds(t)' => snmpsess'[t] # snmpsess'[q]
  <2>1. CASE q = r
    BY <1>1, <1>3, <1>5, <1>6, <2>1
  <2>2. CASE q # r
    <3>1. pc[q] = "save" /\ snmpsess'[q] = snmpsess[q] /\ Holds(q)
      BY <1>1, <1>9, <2>2 DEF Holds
    <3>2. QED
      BY <1>1, <1>3, <1>5, <1>6, <3>1 DEF Ownership
  <2>3. QED
    BY <2>1, <2>2
<1>10. \A p \in Filled' : /\ args'[At(p)'.Sess] \in Arguments
                          /\ args'[At(p)'.Sess].ip = p[1]
  <2>1. \A p \in Filled : At(p).Sess # s /\ At(p).Sess \in SNMP
    BY <1>6, FilledType DEF Cached, TypeOK
  <2>2. QED
    BY <1>4, <1>6, <2>1 DEF Ownership
<1>11. QED
  BY <1>7, <1>8, <1>9, <1>10 DEF Ownership

\* A step of a handler keeps Ownership.
LEMMA HandlerOwnership ==
    ASSUME ColInv, NEW r \in Req, Arrive(r) \/ Handler(r)
    PROVE  Ownership'
<1> USE DEF ColInv
<1>0. PoolTypeOK
  BY DEF TypeOK
<1>1. CASE Arrive(r)
  <2>1. /\ UNCHANGED <<poolVars, args, gpc>> /\ Running(r) = {}
        /\ pc' = [pc EXCEPT ![r] = pc'[r]] /\ pc'[r] \in {"limit", "done"}
        /\ snmpsess' = [snmpsess EXCEPT ![r] = Nil]
        /\ \A q \in Req \ {r} : req'[q] = req[q]
    BY <1>1 DEF Arrive, TypeOK, goVars
  <2>2. Filled' = Filled /\ Cached' = Cached /\ \A p \in Filled : At(p)' = At(p)
    BY <2>1 DEF poolVars, Filled, Cached, At
  <2>3. \A q \in Req : Running(q)' = Running(q)
    BY <2>1 DEF Running
  <2>4. \A q \in Req \ {r} : /\ pc'[q] = pc[q] /\ snmpsess'[q] = snmpsess[q]
                             /\ Holds(q)' <=> Holds(q)
    BY <2>1, <2>3 DEF TypeOK, Holds
  <2>5. ~Holds(r)' /\ snmpsess'[r] = Nil
    BY <2>1, <2>3 DEF Holds, TypeOK
  <2>6. QED
    BY <2>1, <2>2, <2>3, <2>4, <2>5 DEF Ownership, Early
<1>2. CASE CheckLimit(r)
  <2>1. UNCHANGED <<poolVars, args, snmpsess, req, gpc>>
    BY <1>2 DEF CheckLimit, holdVars, goVars
  <2>2. Kept
    BY <1>0, <2>1, PoolUseKept
  <2>3. pc' = [pc EXCEPT ![r] = pc'[r]] /\ pc'[r] \in {"done", "lookup"}
    BY <1>2 DEF CheckLimit, Fail, Goto, TypeOK
  <2>4. Holds(r)' => Holds(r)
    BY <2>1, <2>3 DEF Holds, Running
  <2>5. pc[r] \in Early
    BY <1>2 DEF CheckLimit, Early
  <2>6. \A q \in Req \ {r} : pc'[q] = pc[q] /\ gpc'[q] = gpc[q]
    BY <2>1, <2>3 DEF TypeOK
  <2>7. QED
    BY <2>1, <2>2, <2>3, <2>4, <2>5, <2>6, QuietOwnership DEF Early
<1>3. CASE Lookup(r)
  <2>0. req[r].ip \in IP /\ pc[r] = "lookup" /\ UNCHANGED <<args, req, gpc>>
    BY <1>3, RequestType DEF Lookup, goVars
  <2>1. ASSUME NEW i \in Slot, GetCacheSess(req[r].ip, i),
               Hold(r, Sessions[req[r].ip][i].Sess, i)
        PROVE  Ownership'
    <3> DEFINE s == Sessions[req[r].ip][i].Sess
               p == <<req[r].ip, i>>
    <3>1. p \in Filled /\ At(p).Sess = s /\ p[1] = req[r].ip
      BY <2>0, <2>1 DEF GetCacheSess, First, IdleSlots, Filled, At, Place
    <3>2. s \in SNMP /\ s \in Cached
      BY <1>0, <3>1, FilledType DEF Cached
    <3>3. args[s] \in Arguments /\ args[s].ip = req[r].ip
      BY <3>1 DEF Ownership
    <3>4. Kept
      BY <1>0, <2>0, <2>1, PoolUseKept
    <3>5. Cached' \subseteq Cached
      BY <3>4 DEF Kept, Cached
    <3>6. \A q \in Req \ {r} : pc[q] = "save" =>
             snmpsess[q] # s /\ snmpsess[q] \notin Cached'
      BY <3>2, <3>5 DEF Ownership
    <3>7. /\ snmpsess' = [snmpsess EXCEPT ![r] = s]
          /\ pc' = [pc EXCEPT ![r] = "loop"]
      BY <2>1 DEF Hold, Goto
    <3> HIDE DEF s, p
    <3>8. QED
      BY <2>0, <3>2, <3>3, <3>4, <3>6, <3>7, TakeOwnership DEF Kept
  <2>2. CASE Goto(r, "create") /\ UNCHANGED <<poolVars, holdVars>>
    <3>1. Kept
      BY <1>0, <2>2, PoolUseKept
    <3>2. pc' = [pc EXCEPT ![r] = "create"] /\ pc'[r] = "create"
      BY <2>2 DEF Goto, TypeOK
    <3>3. Holds(r)' => Holds(r)
      BY <2>0, <3>2 DEF Holds, Running
    <3>4. \A q \in Req \ {r} : pc'[q] = pc[q] /\ gpc'[q] = gpc[q]
      BY <2>0, <3>2 DEF TypeOK
    <3>5. UNCHANGED <<args, snmpsess, req>> /\ gpc'[r] = gpc[r]
      BY <2>0, <2>2 DEF holdVars
    <3>6. QED
      BY <2>0, <3>1, <3>2, <3>3, <3>4, <3>5, QuietOwnership DEF Early
  <2>3. QED
    BY <1>3, <2>1, <2>2 DEF Lookup
<1>4. CASE Create(r)
  <2>0. pc[r] = "create" /\ UNCHANGED <<req, gpc>>
    BY <1>4 DEF Create, goVars
  <2>1. CASE Fail(r, "err") /\ UNCHANGED <<poolVars, args, holdVars>>
    <3>1. Kept
      BY <1>0, <2>1, PoolUseKept
    <3>2. pc' = [pc EXCEPT ![r] = "done"] /\ pc'[r] = "done"
      BY <2>1 DEF Fail, TypeOK
    <3>3. Holds(r)' => Holds(r)
      BY <2>0, <3>2 DEF Holds, Running
    <3>4. \A q \in Req \ {r} : pc'[q] = pc[q] /\ gpc'[q] = gpc[q]
      BY <2>0, <3>2 DEF TypeOK
    <3>5. UNCHANGED <<args, snmpsess, req>>
      BY <2>0, <2>1 DEF holdVars
    <3>6. QED
      BY <3>1, <3>2, <3>3, <3>4, <3>5, QuietOwnership DEF Early
  <2>2. ASSUME NEW s \in SNMP, Unreferenced(s), NewSNMP(s),
               args' = [args EXCEPT ![s] = [ip |-> req[r].ip, arg |-> req[r].arg]],
               NEW l \in {"save", "loop"}, Goto(r, l),
               snmpsess' = [snmpsess EXCEPT ![r] = s]
        PROVE  Ownership'
    BY <2>0, <2>2, CreateOwnership DEF NewSNMP, Goto
  <2>3. QED
    BY <1>4, <2>1, <2>2 DEF Create, Hold
<1>5. CASE SaveNew(r)
  <2>0. /\ pc[r] = "save" /\ UNCHANGED <<args, req, gpc>>
        /\ Holds(r) /\ req[r].ip \in IP
    BY <1>5, RequestType DEF SaveNew, goVars, Holds
  <2>1. CASE Fail(r, "err") /\ UNCHANGED <<poolVars, holdVars>>
    <3>1. Kept
      BY <1>0, <2>1, PoolUseKept
    <3>2. pc' = [pc EXCEPT ![r] = "done"] /\ pc'[r] = "done"
      BY <2>1 DEF Fail, TypeOK
    <3>3. \A q \in Req \ {r} : pc'[q] = pc[q] /\ gpc'[q] = gpc[q]
      BY <2>0, <3>2 DEF TypeOK
    <3>4. UNCHANGED <<args, snmpsess, req>>
      BY <2>0, <2>1 DEF holdVars
    <3>5. QED
      BY <2>0, <3>1, <3>2, <3>3, <3>4, QuietOwnership DEF Early
  <2>2. ASSUME NEW i \in Slot, OpenAndSave(req[r].ip, snmpsess[r], i),
               Hold(r, snmpsess[r], i)
        PROVE  Ownership'
    <3> DEFINE s == snmpsess[r]
    <3>1. /\ s \in SNMP /\ args[s] \in Arguments /\ args[s].ip = req[r].ip
          /\ \A q \in Req \ {r} : Holds(q) => snmpsess[q] # s
      BY <2>0 DEF Ownership
    <3>2. Added(req[r].ip, s)
      BY <1>0, <2>0, <2>2, <3>1, SaveAdds
    <3>3. Cached' \subseteq Cached \cup {s}
      BY <3>2 DEF Added, Cached
    <3>4. \A q \in Req \ {r} : pc[q] = "save" =>
             snmpsess[q] # s /\ snmpsess[q] \notin Cached'
      BY <3>1, <3>3 DEF Ownership, Holds
    <3>5. /\ snmpsess' = [snmpsess EXCEPT ![r] = s]
          /\ pc' = [pc EXCEPT ![r] = "loop"]
      BY <2>2 DEF Hold, Goto
    <3> HIDE DEF s
    <3>6. QED
      BY <2>0, <3>1, <3>2, <3>4, <3>5, TakeOwnership DEF Added
  <2>3. CASE Crash(snmpsess[r]) /\ UNCHANGED <<pc, holdVars>>
    <3>1. snmpsess[r] \in SNMP
      BY <2>0 DEF Ownership
    <3>2. Kept
      BY <1>0, <2>3, <3>1, PoolUseKept
    <3>3. UNCHANGED <<args, snmpsess, req, pc, gpc>>
      BY <2>0, <2>3 DEF holdVars
    <3>4. QED
      BY <2>0, <3>2, <3>3, QuietOwnership
  <2>4. QED
    BY <1>5, <2>1, <2>2, <2>3 DEF SaveNew
<1>6. CASE Spawn(r)
  <2>1. /\ UNCHANGED <<poolVars, args, snmpsess, req>> /\ Holds(r)
        /\ pc' = [pc EXCEPT ![r] = pc'[r]] /\ pc'[r] \in {"recv", "panic"}
        /\ \A q \in Req \ {r} : gpc'[q] = gpc[q]
    BY <1>6 DEF Spawn, Goto, TypeOK, Holds, holdVars
  <2>2. Kept
    BY <1>0, <2>1, PoolUseKept
  <2>3. QED
    BY <2>1, <2>2, QuietOwnership DEF Early, TypeOK
<1>7. CASE FreeHeld(r)
  <2>1. /\ UNCHANGED <<args, snmpsess, req, gpc>> /\ Holds(r)
        /\ pc' = [pc EXCEPT ![r] = "done"] /\ pc'[r] = "done"
    BY <1>7 DEF FreeHeld, Fail, Goto, TypeOK, Holds, goVars
  <2>2. req[r].ip \in IP /\ slotc[r] \in Slot \cup {-1}
    BY <1>7, RequestType DEF FreeHeld, TypeOK
  <2>3. \/ UNCHANGED poolVars
        \/ slotc[r] \in Slot /\ Free(req[r].ip, slotc[r])
    BY <1>7, <2>2 DEF FreeHeld
  <2>4. Kept
    BY <1>0, <2>2, <2>3, PoolUseKept
  <2>5. QED
    BY <2>1, <2>4, QuietOwnership DEF Early, TypeOK
<1>8. QED
  BY <1>1, <1>2, <1>3, <1>4, <1>5, <1>6, <1>7 DEF Handler

\* A step of SnmpGet keeps Ownership: it takes no client and adds none to
\* the cache.
LEMMA SnmpGetOwnership ==
    ASSUME ColInv, NEW r \in Req, NEW g \in Gid, SnmpGet(r, g)
    PROVE  Ownership'
<1> USE DEF ColInv
<1>0. PoolTypeOK
  BY DEF TypeOK
<1>1. gpc[r][g] # "none"
  BY DEF SnmpGet, Begin, Return, Interrupted, Deliver, Receive, ReadFlag,
         KickHeld, Outcome
<1>2. /\ pc[r] \notin Early \cup {"new", "save"} /\ Holds(r)
      /\ snmpsess[r] \in SNMP /\ args[snmpsess[r]].ip = req[r].ip
      /\ req[r].ip \in IP
  BY <1>1, GoroutineHasClient, RequestType
<1>3. UNCHANGED <<args, snmpsess, req>>
  BY DEF SnmpGet, Begin, Return, Interrupted, Deliver, Receive, ReadFlag,
         KickHeld, holdVars
<1>4. \A q \in Req \ {r} : pc'[q] = pc[q] /\ gpc'[q] = gpc[q]
  BY DEF SnmpGet, Begin, Return, Interrupted, Deliver, Receive, ReadFlag,
         KickHeld, Finish, Move, TypeOK, goVars
<1>5. pc'[r] \in {pc[r], "loop"}
  BY DEF SnmpGet, Begin, Return, Interrupted, Deliver, Receive, ReadFlag,
         KickHeld, TypeOK
<1>6. Kept
  <2>1. karg[r][g] \in Slot \cup {-1}
    BY DEF TypeOK
  <2>2. \/ UNCHANGED poolVars
        \/ Open(snmpsess[r]) \/ Crash(snmpsess[r])
        \/ karg[r][g] \in Slot /\ Kick(req[r].ip, karg[r][g])
    BY <1>2, <2>1 DEF SnmpGet, Begin, Return, Interrupted, Deliver, Receive,
                      ReadFlag, KickHeld
  <2>3. QED
    BY <1>0, <1>2, <2>2, PoolUseKept
<1>7. QED
  BY <1>2, <1>3, <1>4, <1>5, <1>6, QuietOwnership DEF Early

\* Every step keeps Ownership.
LEMMA StepOwnership ==
    ASSUME ColInv, [Next]_vars
    PROVE  Ownership'
<1> USE DEF ColInv
<1>1. CASE Clean \/ Time \/ Reload \/ UNCHANGED vars
  <2>1. UNCHANGED <<args, snmpsess, req, pc, gpc>>
    BY <1>1 DEF Clean, Time, Reload, vars, colVars, holdVars, goVars
  <2>2. Kept
    <3>1. UNCHANGED poolVars \/ Cleaner \/ Tick
      BY <1>1 DEF Clean, Time, Reload, vars
    <3>2. QED
      BY <3>1, PoolUseKept DEF TypeOK
  <2>3. PICK r \in Req : TRUE
    BY ColAssumption
  <2>4. Holds(r)' = Holds(r)
    BY <2>1 DEF Holds, Running
  <2>5. QED
    BY <2>1, <2>2, <2>4, QuietOwnership
<1>2. QED
  BY <1>1, HandlerOwnership, SnmpGetOwnership DEF Next

-----------------------------------------------------------------------------
(* The theorems.                                                           *)

\* Before the first request the invariant holds.
LEMMA InitEstablishesColInv ==
    Init => ColInv
<1> SUFFICES ASSUME Init
             PROVE  ColInv
  OBVIOUS
<1>1. PoolInv
  BY InitEstablishesInv DEF Init
<1>2. TypeOK
  <2>1. PoolTypeOK
    BY <1>1 DEF PoolInv
  <2>2. -1 \in Slot \cup {-1} /\ 0 \in 0 .. MaxCount
    BY ColAssumption
  <2>3. QED
    BY <2>1, <2>2 DEF Init, TypeOK, PC, GPC
<1>3. Filled = {}
  BY DEF Init, PoolInit, Filled, At, Place
<1>4. \A r \in Req : pc[r] = "new" /\ Running(r) = {} /\ ~Holds(r)
  BY DEF Init, Running, Holds
<1>5. Ownership
  BY <1>3, <1>4 DEF Ownership, Early
<1>6. QED
  BY <1>1, <1>2, <1>5 DEF ColInv

\* Every step keeps the inductive invariant.
LEMMA StepKeepsColInv ==
    ColInv /\ [Next]_vars => ColInv'
<1> SUFFICES ASSUME ColInv, [Next]_vars
             PROVE  ColInv'
  OBVIOUS
<1>1. PoolInv'
  BY StepRefines, StepKeepsInv DEF ColInv
<1>2. TypeOK'
  BY <1>1, StepTypes DEF PoolInv
<1>3. Ownership'
  BY StepOwnership
<1>4. QED
  BY <1>1, <1>2, <1>3 DEF ColInv

\* The inductive invariant: the pool's promises, the types, and who holds
\* which client.
THEOREM ColInvariant == Spec => []ColInv
<1>1. Init => ColInv
  BY InitEstablishesColInv
<1>2. ColInv /\ [Next]_vars => ColInv'
  BY StepKeepsColInv
<1>3. QED
  BY <1>1, <1>2, PTL DEF Spec

\* All variables of SNMP collection keep their types.
THEOREM TypeCorrect == Spec => []TypeOK
BY ColInvariant, PTL DEF ColInv

\* SnmpCol and SnmpGet call the pool only as PoolSpec allows: in particular
\* Get saves a client that it has called Open on, which has no connection if its
\* number of retries is negative (pool.go:60), and that no slot holds.
THEOREM RefinesPool == Spec => PoolSpec
<1>1. Init => PoolInit
  BY DEF Init
<1>2. ColInv /\ [Next]_vars => [PoolNext]_poolVars
  BY StepRefines
<1>3. QED
  BY <1>1, <1>2, ColInvariant, PTL DEF Spec, PoolSpec

\* A request works with a session to the address it asked for, however slots
\* are reused, rows replaced and indexes gone stale.
THEOREM OwnHostHolds == Spec => []OwnHost
<1>1. ColInv => OwnHost
  <2> SUFFICES ASSUME ColInv, NEW r \in Req, InFlight(r), snmpsess[r] # Nil
               PROVE  args[snmpsess[r]].ip = req[r].ip
    BY DEF OwnHost
  <2>1. Holds(r)
    <3>1. pc[r] \in PC
      BY DEF ColInv, TypeOK
    <3>2. pc[r] \notin Early
      BY DEF ColInv, Ownership
    <3>3. CASE Running(r) # {}
      BY <3>3 DEF Holds
    <3>4. CASE pc[r] \notin {"new", "done"}
      BY <3>1, <3>2, <3>4 DEF PC, Early, Holds
    <3>5. QED
      BY <3>3, <3>4 DEF InFlight
  <2>2. QED
    BY <2>1 DEF ColInv, Ownership
<1>2. QED
  BY <1>1, ColInvariant, PTL

-----------------------------------------------------------------------------
(* The bound on the rows of the map.                                       *)

\* The requests that have passed the second limit check and will save.
Saving == {r \in Req : pc[r] = "save"}

\* A request counts from the moment it passes the check, when the rows are
\* fewer than the limit and at most all requests are on their way to Save.
RowsInv ==
    Cardinality(keys) + Cardinality(Saving) <= MaxLimit + Cardinality(Req) - 1

\* The rows and the requests about to save are finitely many.
LEMMA RowsFinite ==
    ASSUME TypeOK
    PROVE  /\ IsFiniteSet(keys) /\ Cardinality(keys) \in Nat
           /\ IsFiniteSet(Saving) /\ Cardinality(Saving) \in Nat
           /\ Cardinality(Req) \in Nat /\ Cardinality(Saving) <= Cardinality(Req)
<1>1. IsFiniteSet(keys)
  BY FS_Subset, PoolAssumption DEF TypeOK, PoolTypeOK
<1>2. IsFiniteSet(Req) /\ Saving \subseteq Req
  BY ColAssumption DEF Saving
<1>3. IsFiniteSet(Saving) /\ Cardinality(Saving) <= Cardinality(Req)
  BY <1>2, FS_Subset
<1>4. QED
  BY <1>1, <1>2, <1>3, FS_CardinalityType

\* A step that adds no row and lets no request pass the check keeps the
\* bound.
LEMMA QuietRows ==
    ASSUME TypeOK, RowsInv, keys' = keys, Saving' \subseteq Saving
    PROVE  RowsInv'
<1>1. IsFiniteSet(Saving)
  BY RowsFinite
<1>2. IsFiniteSet(Saving') /\ Cardinality(Saving') <= Cardinality(Saving)
  BY <1>1, FS_Subset
<1>3. Cardinality(Saving') \in Nat
  BY <1>2, FS_CardinalityType
<1>4. QED
  BY <1>2, <1>3, RowsFinite, ColAssumption DEF RowsInv

\* A request that passes the second PoolLen (Get) keeps the bound: there are
\* fewer rows than MaxLimit then.
LEMMA CreateRows ==
    ASSUME TypeOK, TypeOK', keys' = keys, PoolLen < Maxsesspool
    PROVE  RowsInv'
<1>1. Cardinality(keys) < MaxLimit
  <2>1. Maxsesspool \in Int /\ Maxsesspool <= MaxLimit
    BY ColAssumption DEF TypeOK
  <2>2. QED
    BY <2>1, RowsFinite, ColAssumption DEF PoolLen
<1>2. Saving' \subseteq Req
  BY DEF Saving
<1>3. Cardinality(Saving') \in Nat /\ Cardinality(Saving') <= Cardinality(Req)
  BY <1>2, FS_Subset, FS_CardinalityType, ColAssumption
<1>4. QED
  BY <1>1, <1>3, RowsFinite, ColAssumption DEF RowsInv

\* Save adds at most one row and its request no longer counts.
LEMMA SaveRows ==
    ASSUME TypeOK, RowsInv, NEW r \in Req, pc[r] = "save",
           NEW ip, keys' = keys \cup {ip},
           pc' = [pc EXCEPT ![r] = "loop"]
    PROVE  RowsInv'
<1>1. Saving' = Saving \ {r} /\ r \in Saving
  BY DEF Saving, TypeOK
<1>2. /\ Cardinality(Saving') = Cardinality(Saving) - 1
      /\ Cardinality(Saving') \in Nat
  BY <1>1, RowsFinite, FS_RemoveElement, FS_CardinalityType
<1>3. /\ Cardinality(keys') <= Cardinality(keys) + 1
      /\ Cardinality(keys') \in Nat
  <2>1. /\ IsFiniteSet(keys \cup {ip})
        /\ Cardinality(keys \cup {ip}) = IF ip \in keys THEN Cardinality(keys)
                                         ELSE Cardinality(keys) + 1
    BY RowsFinite, FS_AddElement
  <2>2. QED
    BY <2>1, RowsFinite
<1>4. QED
  BY <1>2, <1>3, RowsFinite, ColAssumption DEF RowsInv

\* A handler that goes anywhere but to Save is not about to save.
LEMMA NotSaving ==
    ASSUME TypeOK, NEW r \in Req, NEW l, l # "save", pc' = [pc EXCEPT ![r] = l]
    PROVE  \A q \in Req : pc'[q] = "save" => pc[q] = "save"
BY DEF TypeOK

\* Every step keeps the bound.
LEMMA StepKeepsRows ==
    ColInv /\ ColInv' /\ RowsInv /\ [Next]_vars => RowsInv'
<1> SUFFICES ASSUME ColInv, ColInv', RowsInv, [Next]_vars
             PROVE  RowsInv'
  OBVIOUS
<1> USE DEF ColInv
<1>1. ASSUME NEW r \in Req, Arrive(r) \/ Handler(r)
      PROVE  RowsInv'
  <2>1. CASE Arrive(r) \/ CheckLimit(r) \/ Lookup(r) \/ Spawn(r) \/ FreeHeld(r)
    <3>1. keys' = keys
      BY <2>1 DEF Arrive, CheckLimit, Lookup, Spawn, FreeHeld, GetCacheSess,
                  Free, poolVars
    <3>2. \A q \in Req : pc'[q] = "save" => pc[q] = "save"
      <4> SUFFICES \E l : l # "save" /\ pc' = [pc EXCEPT ![r] = l]
        BY NotSaving
      <4>1. CASE Arrive(r)
        <5>1. PICK e \in {"", "err"} :
                pc' = [pc EXCEPT ![r] = IF e = "" THEN "limit" ELSE "done"]
          BY <4>1 DEF Arrive
        <5>2. QED
          BY <5>1
      <4>2. CASE CheckLimit(r)
        BY <4>2 DEF CheckLimit, Fail, Goto
      <4>3. CASE Lookup(r)
        BY <4>3 DEF Lookup, Hold, Goto
      <4>4. CASE Spawn(r)
        BY <4>4 DEF Spawn, Goto
      <4>5. CASE FreeHeld(r)
        BY <4>5 DEF FreeHeld, Fail, Goto
      <4>6. QED
        BY <2>1, <4>1, <4>2, <4>3, <4>4, <4>5
    <3>3. QED
      BY <3>1, <3>2, QuietRows DEF Saving
  <2>2. CASE Create(r)
    <3>1. keys' = keys
      BY <2>2 DEF Create, NewSNMP, poolVars
    <3>2. CASE PoolLen < Maxsesspool
      BY <3>1, <3>2, CreateRows
    <3>3. CASE ~(PoolLen < Maxsesspool)
      <4>1. \A q \in Req : pc'[q] = "save" => pc[q] = "save"
        <5>1. \E l : l # "save" /\ pc' = [pc EXCEPT ![r] = l]
          BY <2>2, <3>3 DEF Create, Hold, Fail, Goto
        <5>2. QED
          BY <5>1, NotSaving
      <4>2. QED
        BY <3>1, <4>1, QuietRows DEF Saving
    <3>4. QED
      BY <3>2, <3>3
  <2>3. CASE SaveNew(r)
    <3>1. CASE Fail(r, "err") /\ UNCHANGED poolVars
      <4>1. \A q \in Req : pc'[q] = "save" => pc[q] = "save"
        BY <3>1, NotSaving DEF Fail
      <4>2. QED
        BY <3>1, <4>1, QuietRows DEF Saving, poolVars
    <3>2. ASSUME NEW i \in Slot, OpenAndSave(req[r].ip, snmpsess[r], i),
                 Hold(r, snmpsess[r], i)
          PROVE  RowsInv'
      BY <2>3, <3>2, SaveRows DEF SaveNew, OpenAndSave, Save, Hold, Goto
    <3>3. CASE Crash(snmpsess[r]) /\ UNCHANGED pc
      BY <3>3, QuietRows DEF Crash, Saving
    <3>4. QED
      BY <2>3, <3>1, <3>2, <3>3 DEF SaveNew
  <2>4. QED
    BY <1>1, <2>1, <2>2, <2>3 DEF Handler
<1>2. ASSUME NEW r \in Req, NEW g \in Gid, SnmpGet(r, g)
      PROVE  RowsInv'
  <2>1. keys' = keys
    BY <1>2 DEF SnmpGet, Begin, Return, Interrupted, Deliver, Receive, ReadFlag,
                KickHeld, Open, Crash, Kick, poolVars
  <2>2. \A q \in Req : pc'[q] = "save" => pc[q] = "save"
    BY <1>2 DEF SnmpGet, Begin, Return, Interrupted, Deliver, Receive, ReadFlag,
                KickHeld, TypeOK
  <2>3. QED
    BY <2>1, <2>2, QuietRows DEF Saving
<1>3. CASE Clean \/ Time \/ Reload \/ UNCHANGED vars
  <2>1. keys' = keys /\ pc' = pc
    BY <1>3 DEF Clean, Time, Reload, vars, colVars, poolVars, Tick, Cleaner,
                CleanerLock, CleanerExpire, CleanerSkip, CleanerProbe,
                CleanerProbed, CleanerUnlock
  <2>2. QED
    BY <2>1, QuietRows DEF Saving
<1>4. QED
  BY <1>1, <1>2, <1>3 DEF Next

\* The pool's map never has more rows than maxsesspool and the requests that
\* can pass its two limit checks (Get) at the same time allow.
THEOREM KeyBoundHolds == Spec => []KeyBound
<1>1. Init => RowsInv
  <2> SUFFICES ASSUME Init
               PROVE  RowsInv
    OBVIOUS
  <2>1. keys = {} /\ Saving = {}
    BY DEF Init, PoolInit, Saving
  <2>2. Cardinality({}) = 0 /\ Cardinality(Req) \in Nat
    BY FS_EmptySet, FS_CardinalityType, ColAssumption
  <2>3. QED
    BY <2>1, <2>2, ColAssumption DEF RowsInv
<1>2. ColInv /\ ColInv' /\ RowsInv /\ [Next]_vars => RowsInv'
  BY StepKeepsRows
<1>3. ColInv /\ RowsInv => KeyBound
  BY RowsFinite, ColAssumption DEF ColInv, RowsInv, KeyBound
<1>4. QED
  BY <1>1, <1>2, <1>3, ColInvariant, PTL DEF Spec
=============================================================================
