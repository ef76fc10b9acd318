------------------------- MODULE SessionPoolProofs -------------------------
(***************************************************************************)
(* What SessionPool promises holds for every number of addresses, clients  *)
(* and slots and every lifetime.  The four invariants are proved together: *)
(* that a cached session is open after another one has been evicted needs  *)
(* that the two slots hold different clients, and that the cleaner evicts  *)
(* a session at all needs that its slot has not been emptied under it.     *)
(***************************************************************************)
EXTENDS SessionPool, TLAPS

\* The inductive invariant: the four invariants of the pool together.
PoolInv ==
    /\ PoolTypeOK
    /\ OneSlotPerSession
    /\ CachedOpen
    /\ SweepUndisturbed

-----------------------------------------------------------------------------
\* A session made of a client and marks is a session, is not nil and has
\* that client.
LEMMA MkSessionType ==
    ASSUME NEW s \in SNMP, NEW idle \in BOOLEAN, NEW age \in 0 .. Maxlifetime + 1
    PROVE  /\ MkSession(s, idle, age) \in Session
           /\ MkSession(s, idle, age) # Nil
           /\ MkSession(s, idle, age).Sess = s
BY NilAssumption DEF MkSession, Session

(* The ways in which an action changes the slots.                          *)

\* Every slot keeps its client: sessions are only stamped or marked.
Marked ==
    /\ Sessions' \in [IP -> Row]
    /\ \A ip \in IP, i \in Slot :
          /\ Sessions'[ip][i] = Nil <=> Sessions[ip][i] = Nil
          /\ Sessions[ip][i] # Nil => Sessions'[ip][i].Sess = Sessions[ip][i].Sess
    /\ UNCHANGED <<keys, conn, mLock, todo, probe>>

\* GetCacheSess, Free, Unavailable and Tick, with the cases in which Free and
\* Unavailable find nothing, are of the first kind.
LEMMA MarkIsMarked ==
    ASSUME PoolTypeOK,
           NEW ip \in IP, NEW i \in Slot, <<ip, i>> \in Filled,
           NEW idle \in BOOLEAN, NEW age \in 0 .. Maxlifetime + 1,
           Sessions' = [Sessions EXCEPT ![ip][i] = MkSession(@.Sess, idle, age)],
           UNCHANGED <<keys, conn, mLock, todo, probe>>
    PROVE  Marked
<1> DEFINE new == MkSession(Sessions[ip][i].Sess, idle, age)
<1>1. Sessions[ip][i] \in Session
  BY DEF PoolTypeOK, Row, Filled, At
<1>2. new \in Session /\ new # Nil /\ new.Sess = Sessions[ip][i].Sess
  BY <1>1, MkSessionType DEF Session
<1>3. Sessions' = [Sessions EXCEPT ![ip][i] = new]
  OBVIOUS
<1> HIDE DEF new
<1>4. Sessions' \in [IP -> Row]
  BY <1>2, <1>3 DEF PoolTypeOK, Row
<1>5. ASSUME NEW jp \in IP, NEW j \in Slot
      PROVE  Sessions'[jp][j] = IF jp = ip /\ j = i THEN new ELSE Sessions[jp][j]
  BY <1>3 DEF PoolTypeOK, Row
<1>6. QED
  BY <1>1, <1>2, <1>4, <1>5, NilAssumption DEF Marked

\* GetCacheSess only marks the session it hands out as busy.
LEMMA GetIsMarked ==
    ASSUME PoolTypeOK, NEW ip \in IP, NEW i \in Slot, GetCacheSess(ip, i)
    PROVE  Marked
<1>1. <<ip, i>> \in Filled
  BY DEF GetCacheSess, First, IdleSlots, Filled, At, Place
<1>2. 0 \in 0 .. Maxlifetime + 1
  BY PoolAssumption
<1>3. QED
  BY <1>1, <1>2, MarkIsMarked DEF GetCacheSess

\* A step that changes no session marks none.
LEMMA UnchangedIsMarked ==
    ASSUME PoolTypeOK, UNCHANGED <<Sessions, keys, conn, mLock, todo, probe>>
    PROVE  Marked
BY DEF PoolTypeOK, Marked

\* Free only marks the session it finds, if any, as idle.
LEMMA FreeIsMarked ==
    ASSUME PoolTypeOK, NEW ip \in IP, NEW i \in Slot, Free(ip, i)
    PROVE  Marked
<1>1. 0 \in 0 .. Maxlifetime + 1
  BY PoolAssumption
<1>2. CASE <<ip, i>> \in Filled
  BY <1>1, <1>2, MarkIsMarked DEF Free
<1>3. CASE <<ip, i>> \notin Filled
  BY <1>3, UnchangedIsMarked DEF Free
<1>4. QED
  BY <1>2, <1>3

\* Unavailable only marks the session it finds, if any, as busy.
LEMMA UnavailableIsMarked ==
    ASSUME PoolTypeOK, NEW ip \in IP, NEW i \in Slot, Unavailable(ip, i)
    PROVE  Marked
<1>1. CASE <<ip, i>> \in Filled
  <2>1. Sessions[ip][i] \in Session
    BY <1>1 DEF PoolTypeOK, Row, Filled, At
  <2>2. Sessions[ip][i].Age \in 0 .. Maxlifetime + 1
    BY <2>1 DEF Session
  <2>3. QED
    BY <1>1, <2>2, MarkIsMarked DEF Unavailable
<1>2. CASE <<ip, i>> \notin Filled
  BY <1>2, UnchangedIsMarked DEF Unavailable
<1>3. QED
  BY <1>1, <1>2

\* The clock only changes the ages of sessions.
LEMMA TickIsMarked ==
    ASSUME PoolTypeOK, Tick
    PROVE  Marked
<1>1. ASSUME NEW session \in Session
      PROVE  Older(session) \in Session /\ Older(session).Sess = session.Sess
  BY NilAssumption, PoolAssumption DEF Older, MkSession, Session, Expired
<1>2. Older(Nil) = Nil
  BY DEF Older
<1>3. ASSUME NEW ip \in IP, NEW i \in Slot
      PROVE  /\ Older(Sessions[ip][i]) \in Session \cup {Nil}
             /\ Older(Sessions[ip][i]) = Nil <=> Sessions[ip][i] = Nil
             /\ Sessions[ip][i] # Nil =>
                  Older(Sessions[ip][i]).Sess = Sessions[ip][i].Sess
  <2>1. Sessions[ip][i] \in Session \cup {Nil}
    BY DEF PoolTypeOK, Row
  <2>2. QED
    BY <1>1, <1>2, <2>1, NilAssumption
<1>4. Sessions' = [ip \in IP |-> [i \in Slot |-> Older(Sessions[ip][i])]]
  BY DEF Tick
<1>5. Sessions' \in [IP -> Row]
  BY <1>3, <1>4 DEF Row
<1>6. QED
  BY <1>3, <1>4, <1>5 DEF Marked, Tick

\* Changing marks and ages keeps the invariant, which speaks of clients
\* only.
LEMMA MarkedKeepsInv ==
    ASSUME PoolInv, Marked, up' \in BOOLEAN
    PROVE  PoolInv'
<1> USE DEF PoolInv, Marked
<1>1. PoolTypeOK'
  BY DEF PoolTypeOK
<1>2. ASSUME NEW p \in Place
      PROVE  /\ p \in Filled' <=> p \in Filled
             /\ p \in Filled => At(p)'.Sess = At(p).Sess
  BY DEF Filled, At, Place
<1>3. Filled' = Filled
  BY <1>2 DEF Filled
<1>4. OneSlotPerSession'
  BY <1>2, <1>3 DEF OneSlotPerSession, Filled
<1>5. CachedOpen'
  BY <1>2, <1>3 DEF CachedOpen, Filled
<1>6. SweepUndisturbed'
  BY <1>3 DEF SweepUndisturbed
<1>7. QED
  BY <1>1, <1>4, <1>5, <1>6

-----------------------------------------------------------------------------

\* A place is emptied and its client closed (Kick, CleanerExpire and a failed
\* CleanerProbed).  The other slots keep their sessions, which have other
\* clients.
LEMMA EvictKeepsInv ==
    ASSUME PoolInv, NEW p \in Filled, Evict(p[1], p[2]),
           todo' \subseteq todo, p \notin todo', probe' = Nil,
           mLock' = mLock, keys' = keys, up' \in BOOLEAN
    PROVE  PoolInv'
<1> USE DEF PoolInv
<1>1. p \in Place /\ p[1] \in IP /\ p[2] \in Slot /\ p = <<p[1], p[2]>>
  BY DEF Filled, Place
<1>2. At(p) \in Session /\ At(p).Sess \in SNMP
  BY <1>1 DEF PoolTypeOK, Row, Session, Filled, At
<1>3. /\ Sessions' = [Sessions EXCEPT ![p[1]][p[2]] = Nil]
      /\ conn' = [conn EXCEPT ![At(p).Sess] = FALSE]
  BY DEF Evict, At
<1>4. PoolTypeOK'
  BY <1>1, <1>2, <1>3 DEF PoolTypeOK, Row
<1>5. ASSUME NEW q \in Place
      PROVE  At(q)' = IF q = p THEN Nil ELSE At(q)
  <2>1. q[1] \in IP /\ q[2] \in Slot /\ q = <<q[1], q[2]>>
    BY DEF Place
  <2>2. Sessions'[q[1]][q[2]] =
           IF q[1] = p[1] /\ q[2] = p[2] THEN Nil ELSE Sessions[q[1]][q[2]]
    BY <1>1, <1>3, <2>1 DEF PoolTypeOK, Row
  <2>3. QED
    BY <1>1, <2>1, <2>2 DEF At
<1>6. Filled' = Filled \ {p}
  BY <1>1, <1>5 DEF Filled
<1>7. \A q \in Filled' : q \in Filled /\ q # p /\ At(q)' = At(q)
  BY <1>5, <1>6 DEF Filled
<1>8. OneSlotPerSession'
  BY <1>7 DEF OneSlotPerSession
<1>9. CachedOpen'
  <2> SUFFICES ASSUME NEW q \in Filled'
               PROVE  conn'[At(q)'.Sess] <=> At(q)'.Sess \notin Mute
    BY DEF CachedOpen
  <2>1. q \in Filled /\ q # p /\ At(q)' = At(q)
    BY <1>7
  <2>2. /\ At(q).Sess # At(p).Sess
        /\ conn[At(q).Sess] <=> At(q).Sess \notin Mute
    BY <2>1 DEF OneSlotPerSession, CachedOpen
  <2>3. At(q).Sess \in SNMP
    BY <2>1 DEF PoolTypeOK, Row, Session, Filled, At, Place
  <2>4. QED
    BY <1>2, <1>3, <2>1, <2>2, <2>3 DEF PoolTypeOK
<1>10. SweepUndisturbed'
  BY <1>6 DEF SweepUndisturbed
<1>11. QED
  BY <1>4, <1>8, <1>9, <1>10

\* Save keeps the other rows and puts a client no slot holds, and no slot of
\* the row that it may replace, into one slot.
LEMMA SaveKeepsInv ==
    ASSUME PoolInv,
           NEW ip \in IP, NEW s \in SNMP, NEW i \in Slot,
           s \notin Cached, OpenAndSave(ip, s, i)
    PROVE  PoolInv'
<1> DEFINE new == MkSession(s, FALSE, 0)
<1> USE DEF PoolInv
<1>1. new \in Session /\ new # Nil /\ new.Sess = s
  <2>1. 0 \in 0 .. Maxlifetime + 1
    BY PoolAssumption
  <2>2. QED
    BY <2>1, MkSessionType
<1>2. /\ ~mLock /\ keys' = keys \cup {ip}
      /\ conn' = [conn EXCEPT ![s] = s \notin Mute]
      /\ mLock' = mLock /\ todo' = todo /\ probe' = probe /\ up' = up
  BY DEF OpenAndSave, Save
<1>3. \/ Sessions' = [Sessions EXCEPT ![ip][i] = new]
      \/ /\ i = 0
         /\ Sessions' = [Sessions EXCEPT
                ![ip] = [j \in Slot |-> IF j = 0 THEN new ELSE Nil]]
  BY DEF OpenAndSave, Save
<1> HIDE DEF new
<1>4. PoolTypeOK'
  <2>1. Sessions' \in [IP -> Row]
    <3>1. [j \in Slot |-> IF j = 0 THEN new ELSE Nil] \in Row
      BY <1>1 DEF Row
    <3>2. [Sessions[ip] EXCEPT ![i] = new] \in Row
      BY <1>1 DEF PoolTypeOK, Row
    <3>3. QED
      BY <1>3, <3>1, <3>2 DEF PoolTypeOK
  <2>2. QED
    BY <1>2, <2>1 DEF PoolTypeOK
<1>5. ASSUME NEW jp \in IP, NEW j \in Slot
      PROVE  \/ jp = ip /\ j = i /\ Sessions'[jp][j] = new
             \/ <<jp, j>> # <<ip, i>> /\ Sessions'[jp][j] \in {Nil, Sessions[jp][j]}
  BY <1>3 DEF PoolTypeOK, Row
<1>6. ASSUME NEW q \in Filled'
      PROVE  /\ q[1] \in IP /\ q[2] \in Slot
             /\ \/ q = <<ip, i>> /\ At(q)' = new
                \/ q # <<ip, i>> /\ q \in Filled /\ At(q)' = At(q)
  <2>1. q \in Place /\ q[1] \in IP /\ q[2] \in Slot /\ q = <<q[1], q[2]>>
    BY DEF Filled, Place
  <2>2. At(q)' # Nil /\ At(q)' = Sessions'[q[1]][q[2]]
    BY DEF Filled, At
  <2>3. QED
    BY <1>5, <2>1, <2>2 DEF Filled, At
<1>7. OneSlotPerSession'
  <2>1. \A q \in Filled : At(q).Sess # s
    BY DEF Cached
  <2>2. \A q \in Filled' : q[1] \in keys'
    BY <1>2, <1>6 DEF OneSlotPerSession
  <2>3. ASSUME NEW q \in Filled', NEW t \in Filled', At(q)'.Sess = At(t)'.Sess
        PROVE  q = t
    BY <1>1, <1>6, <2>1, <2>3 DEF OneSlotPerSession
  <2>4. QED
    BY <2>2, <2>3 DEF OneSlotPerSession
<1>8. CachedOpen'
  <2> SUFFICES ASSUME NEW q \in Filled'
               PROVE  conn'[At(q)'.Sess] <=> At(q)'.Sess \notin Mute
    BY DEF CachedOpen
  <2>1. CASE At(q)' = new
    BY <1>1, <1>2, <2>1 DEF PoolTypeOK
  <2>2. CASE q \in Filled /\ At(q)' = At(q)
    <3>1. At(q).Sess \in SNMP
      BY <2>2 DEF PoolTypeOK, Row, Session, Filled, At, Place
    <3>2. QED
      BY <1>2, <2>2, <3>1 DEF PoolTypeOK, CachedOpen
  <2>3. QED
    BY <1>6, <2>1, <2>2
<1>9. SweepUndisturbed'
  BY <1>2 DEF SweepUndisturbed
<1>10. QED
  BY <1>4, <1>7, <1>8, <1>9

-----------------------------------------------------------------------------
(* The inductive step, one case per action.                                *)

\* The empty pool satisfies the invariant.
LEMMA InitEstablishesInv ==
    PoolInit => PoolInv
<1> SUFFICES ASSUME PoolInit
             PROVE  PoolInv
  OBVIOUS
<1>1. Filled = {}
  BY DEF PoolInit, Filled, At, Place
<1>2. PoolTypeOK
  BY DEF PoolInit, PoolTypeOK, Row
<1>3. QED
  BY <1>1, <1>2 DEF PoolInv, PoolInit, OneSlotPerSession, CachedOpen,
                    SweepUndisturbed

\* Kick keeps the invariant: it finds no row, kills the process, or evicts
\* while no sweep is under way.
LEMMA KickKeepsInv ==
    ASSUME PoolInv, NEW ip \in IP, NEW i \in Slot, Kick(ip, i)
    PROVE  PoolInv'
<1>1. CASE <<ip, i>> \in Filled /\ Evict(ip, i) /\ UNCHANGED up
  <2>1. todo = {} /\ probe = Nil
    BY DEF PoolInv, SweepUndisturbed, Kick
  <2>2. <<ip, i>>[1] = ip /\ <<ip, i>>[2] = i
    OBVIOUS
  <2>3. QED
    BY <1>1, <2>1, <2>2, EvictKeepsInv DEF Kick, PoolInv, PoolTypeOK
<1>2. CASE UNCHANGED <<Sessions, conn>> /\ up' \in BOOLEAN
  BY <1>2, UnchangedIsMarked, MarkedKeepsInv DEF Kick, PoolInv
<1>3. QED
  BY <1>1, <1>2 DEF Kick, PoolInv, PoolTypeOK

\* Every step of the cleaner keeps the invariant: it evicts only what it has
\* just taken from todo or has just tested.
LEMMA CleanerKeepsInv ==
    ASSUME PoolInv, Cleaner
    PROVE  PoolInv'
<1> USE DEF PoolInv
<1>1. CASE CleanerLock
  BY <1>1 DEF CleanerLock, PoolTypeOK, OneSlotPerSession, CachedOpen,
              SweepUndisturbed, Filled, Cached, At
<1>2. ASSUME NEW p \in Place, CleanerExpire(p)
      PROVE  PoolInv'
  <2>1. p \in Filled
    BY <1>2 DEF CleanerExpire, Visit, SweepUndisturbed
  <2>2. /\ todo' = todo \ {p} /\ probe' = Nil /\ Evict(p[1], p[2])
        /\ UNCHANGED <<keys, mLock, up>>
    BY <1>2 DEF CleanerExpire, Visit
  <2>3. QED
    BY <2>1, <2>2, EvictKeepsInv DEF PoolTypeOK
<1>3. ASSUME NEW p \in Place, CleanerSkip(p)
      PROVE  PoolInv'
  BY <1>3 DEF CleanerSkip, Visit, PoolTypeOK, OneSlotPerSession, CachedOpen,
              SweepUndisturbed, Filled, At
<1>4. ASSUME NEW p \in Place, CleanerProbe(p)
      PROVE  PoolInv'
  BY <1>4 DEF CleanerProbe, Visit, PoolTypeOK, OneSlotPerSession, CachedOpen,
              SweepUndisturbed, Filled, At
<1>5. ASSUME NEW ok \in BOOLEAN, CleanerProbed(ok)
      PROVE  PoolInv'
  <2>1. /\ mLock /\ probe \in Filled \ todo /\ probe' = Nil
        /\ UNCHANGED <<keys, mLock, todo, up>>
    BY <1>5 DEF CleanerProbed, SweepUndisturbed
  <2>2. CASE ok
    BY <1>5, <2>1, <2>2 DEF CleanerProbed, PoolTypeOK, OneSlotPerSession,
                            CachedOpen, SweepUndisturbed, Filled, At
  <2>3. CASE ~ok
    <3>1. Evict(probe[1], probe[2])
      BY <1>5, <2>3 DEF CleanerProbed
    <3>2. QED
      BY <2>1, <3>1, EvictKeepsInv DEF PoolTypeOK
  <2>4. QED
    BY <2>2, <2>3
<1>6. CASE CleanerUnlock
  BY <1>6 DEF CleanerUnlock, PoolTypeOK, OneSlotPerSession, CachedOpen,
              SweepUndisturbed, Filled, At
<1>7. QED
  BY <1>1, <1>2, <1>3, <1>4, <1>5, <1>6 DEF Cleaner

\* Every step of the pool keeps the invariant.
LEMMA StepKeepsInv ==
    PoolInv /\ [PoolNext]_poolVars => PoolInv'
<1> SUFFICES ASSUME PoolInv, [PoolNext]_poolVars
             PROVE  PoolInv'
  OBVIOUS
<1> USE DEF PoolInv
<1>1. ASSUME NEW ip \in IP, NEW i \in Slot, GetCacheSess(ip, i)
      PROVE  PoolInv'
  BY <1>1, GetIsMarked, MarkedKeepsInv DEF GetCacheSess, PoolTypeOK
<1>2. ASSUME NEW ip \in IP, NEW i \in Slot, Free(ip, i)
      PROVE  PoolInv'
  BY <1>2, FreeIsMarked, MarkedKeepsInv DEF Free, PoolTypeOK
<1>3. ASSUME NEW ip \in IP, NEW i \in Slot, Unavailable(ip, i)
      PROVE  PoolInv'
  BY <1>3, UnavailableIsMarked, MarkedKeepsInv DEF Unavailable, PoolTypeOK
<1>4. ASSUME NEW ip \in IP, NEW i \in Slot, Kick(ip, i)
      PROVE  PoolInv'
  BY <1>4, KickKeepsInv
<1>5. ASSUME NEW ip \in IP, NEW i \in Slot, NEW s \in SNMP,
             s \notin Cached, OpenAndSave(ip, s, i)
      PROVE  PoolInv'
  BY <1>5, SaveKeepsInv
<1>6. ASSUME NEW s \in SNMP, NewSNMP(s) \/ Open(s)
      PROVE  PoolInv'
  <2>1. /\ UNCHANGED <<keys, Sessions, mLock, todo, probe, up>>
        /\ conn' \in [SNMP -> BOOLEAN]
    BY <1>6 DEF NewSNMP, Open, PoolTypeOK
  <2>2. Filled' = Filled /\ \A q \in Filled : At(q)' = At(q)
    BY <2>1 DEF Filled, At
  <2>3. PoolTypeOK' /\ OneSlotPerSession' /\ SweepUndisturbed'
    BY <2>1, <2>2 DEF PoolTypeOK, OneSlotPerSession, SweepUndisturbed
  <2>4. ASSUME NEW q \in Filled
        PROVE  conn'[At(q).Sess] <=> At(q).Sess \notin Mute
    <3>1. At(q) \in Session
      BY DEF PoolTypeOK, Row, Filled, At, Place
    <3>2. At(q).Sess \in SNMP
      BY <3>1 DEF Session
    <3>3. /\ At(q).Sess \in Cached
          /\ conn[At(q).Sess] <=> At(q).Sess \notin Mute
      BY DEF Cached, CachedOpen
    <3>4. QED
      BY <1>6, <3>2, <3>3 DEF NewSNMP, Open, PoolTypeOK
  <2>5. CachedOpen'
    BY <2>2, <2>4 DEF CachedOpen
  <2>6. QED
    BY <2>3, <2>5
<1>7. ASSUME NEW s \in SNMP, Crash(s)
      PROVE  PoolInv'
  BY <1>7, UnchangedIsMarked, MarkedKeepsInv DEF Crash
<1>8. CASE Cleaner
  BY <1>8, CleanerKeepsInv
<1>9. CASE Tick
  BY <1>9, TickIsMarked, MarkedKeepsInv DEF Tick, PoolTypeOK
<1>10. CASE UNCHANGED poolVars
  BY <1>10, UnchangedIsMarked, MarkedKeepsInv DEF poolVars, PoolTypeOK
<1>11. QED
  BY <1>1, <1>2, <1>3, <1>4, <1>5, <1>6, <1>7, <1>8, <1>9, <1>10 DEF PoolNext

\* The pool keeps its promises whatever order its methods are called in: the
\* types of its variables, one slot per client, no closed session in a slot
\* (without a connection are just those that have no tries to connect with),
\* and no slot emptied under the cleaner's sweep.
THEOREM PoolInvariant == PoolSpec => []PoolInv
<1>1. PoolInit => PoolInv
  BY InitEstablishesInv
<1>2. PoolInv /\ [PoolNext]_poolVars => PoolInv'
  BY StepKeepsInv
<1>3. QED
  BY <1>1, <1>2, PTL DEF PoolSpec

\* The variables of the pool keep their types.
THEOREM PoolTypeCorrect == PoolSpec => []PoolTypeOK
BY PoolInvariant, PTL DEF PoolInv

\* No two slots hold the same client (Save, and Kick and remove emptying slots).
THEOREM OneSlotPerSessionHolds == PoolSpec => []OneSlotPerSession
BY PoolInvariant, PTL DEF PoolInv

\* GetCacheSess never hands out a session that Kick or remove has closed: those
\* it finds without a connection are the ones Save stored so, whose number of
\* retries is negative.
THEOREM CachedOpenHolds == PoolSpec => []CachedOpen
BY PoolInvariant, PTL DEF PoolInv

\* The cleaner's sweep works on sessions that are still in their slots.
THEOREM SweepUndisturbedHolds == PoolSpec => []SweepUndisturbed
BY PoolInvariant, PTL DEF PoolInv
=============================================================================
