---------------------------- MODULE SessionPool ----------------------------
(***************************************************************************)
(* The SNMP session cache of util/pool.go, seen from its callers: one row  *)
(* of MaxIdleSess slots per target ip, each slot nil or a pointer to a     *)
(* cached session, all of it behind the mutex mLock.                       *)
(*                                                                         *)
(* Every method of SessionPool locks mLock, does its work and unlocks, so  *)
(* it is one action here.  Only the cleaner keeps the mutex over several   *)
(* steps: it sends an SNMP test request on every idle session while it     *)
(* holds it.  The variable mLock is TRUE during such a sweep and every     *)
(* other method waits for it.                                              *)
(*                                                                         *)
(* PoolSpec lets the methods be called in any order and with any index, as *)
(* Go's types allow; SnmpCol restricts the calls to those the agent makes. *)
(***************************************************************************)
EXTENDS Integers, FiniteSets

CONSTANTS
    IP,           \* the target addresses, keys of the map Sessions
    SNMP,         \* the snmpgo client objects that may be created
    Mute,         \* those made with a negative number of retries (see Open)
    Nil,          \* Go's nil
    MaxIdleSess,  \* slots per row (5 in pool.go)
    Maxlifetime   \* ticks after which an untouched session has expired

ASSUME PoolAssumption ==
    /\ IsFiniteSet(IP)
    /\ IsFiniteSet(SNMP) /\ Mute \subseteq SNMP
    /\ MaxIdleSess \in Nat \ {0}
    /\ Maxlifetime \in Nat

Slot == 0 .. MaxIdleSess - 1

\* A cached session: its SNMP client, whether it is idle, and the time since
\* its field Atime, saturated when it has expired.
Session == [Sess : SNMP, Idle : BOOLEAN, Age : 0 .. Maxlifetime + 1]

ASSUME NilAssumption == Nil \notin SNMP /\ Nil \notin Session

MkSession(s, idle, age) == [Sess |-> s, Idle |-> idle, Age |-> age]

Row == [Slot -> Session \cup {Nil}]

Place == IP \X Slot

ASSUME PlaceAssumption == Nil \notin Place

VARIABLES
    keys,      \* the keys present in the map Sessions
    Sessions,  \* Sessions[ip][i]; a row of nils when ip is not a key
    conn,      \* which SNMP clients have an open connection
    mLock,     \* TRUE while the cleaner holds the mutex
    todo,      \* places the running sweep has still to visit
    probe,     \* the place whose session snmptest is testing, or Nil
    up         \* FALSE once a goroutine has panicked: the process is gone

poolVars == <<keys, Sessions, conn, mLock, todo, probe, up>>

-----------------------------------------------------------------------------

At(p) == Sessions[p[1]][p[2]]

\* The places that hold a session, and the clients they hold.
Filled == {p \in Place : At(p) # Nil}

Cached == {At(p).Sess : p \in Filled}

\* Faulty variant: counts the sessions although it is the rows that stay.
PoolLenSessions == Cardinality(Filled)

PoolLen == Cardinality(keys)

Expired(session) == session.Age > Maxlifetime

IdleSlots(ip) == {i \in Slot : Sessions[ip][i] # Nil /\ Sessions[ip][i].Idle}

NilSlots(ip) == {i \in Slot : ip \in keys /\ Sessions[ip][i] = Nil}

\* i is where a loop over the slots that stops at the first member of S stops.
First(i, S) == i \in S /\ \A j \in S : i <= j

PoolInit ==
    /\ keys = {}
    /\ Sessions = [ip \in IP |-> [i \in Slot |-> Nil]]
    /\ conn = [s \in SNMP |-> FALSE]
    /\ mLock = FALSE
    /\ todo = {}
    /\ probe = Nil
    /\ up = TRUE

-----------------------------------------------------------------------------
(* Get and return a cached session.                                        *)

\* Faulty variant: the session is handed out without being marked busy.
GetCacheSessShared(ip, i) ==
    /\ up /\ ~mLock
    /\ First(i, IdleSlots(ip))
    /\ Sessions' = [Sessions EXCEPT ![ip][i] = MkSession(@.Sess, TRUE, 0)]
    /\ UNCHANGED <<keys, conn, mLock, todo, probe, up>>

\* Hand out the first idle session of the row: it is stamped and marked busy.
GetCacheSess(ip, i) ==
    /\ up /\ ~mLock
    /\ First(i, IdleSlots(ip))
    /\ Sessions' = [Sessions EXCEPT ![ip][i] = MkSession(@.Sess, FALSE, 0)]
    /\ UNCHANGED <<keys, conn, mLock, todo, probe, up>>

\* NewSNMP: the name of a client nobody refers to stands for a new one, which
\* has no connection yet.
NewSNMP(s) ==
    /\ up /\ s \notin Cached
    /\ conn' = [conn EXCEPT ![s] = FALSE]
    /\ UNCHANGED <<keys, Sessions, mLock, todo, probe, up>>

\* snmpgo's Open: every request on a client opens its connection if it has
\* none, so callers may open a client at any time.  With a negative number of
\* retries the loop that connects does not run at all: Open returns without an
\* error and without a connection.
Open(s) ==
    /\ up
    /\ conn' = [conn EXCEPT ![s] = s \notin Mute]
    /\ UNCHANGED <<keys, Sessions, mLock, todo, probe, up>>

\* An operation on a client without a connection ends the process.  A client
\* that is closed under an operation has a nil connection, which it may read.
\* Without tries a request has a nil pdu, which its caller reads, and Open and
\* Discover of version 3 call each other without end.  No goroutine but the
\* handlers recovers a panic, and nobody recovers an overflow of the stack.
Crash(s) ==
    /\ up /\ ~conn[s]
    /\ up' = FALSE
    /\ UNCHANGED <<keys, Sessions, conn, mLock, todo, probe>>

\* All slots of an existing row are taken: Save replaces the whole row.
Overflow(ip) == ip \in keys /\ NilSlots(ip) = {}

\* Faulty variant: the loop over the slots goes on after it has stored.
SaveEverywhere(ip, s, i) ==
    LET session == MkSession(s, FALSE, 0)
    IN  /\ up /\ ~mLock
        /\ i = 0
        /\ Sessions' = [Sessions EXCEPT ![ip] = [j \in Slot |->
                IF Sessions[ip][j] = Nil THEN session ELSE Sessions[ip][j]]]
        /\ keys' = keys \cup {ip}
        /\ UNCHANGED <<mLock, todo, probe, up>>

\* Store a new session, busy, in the first nil slot.  Without a row, or
\* without a nil slot in it, the map gets a fresh row with the session in
\* slot 0.  i is the index Save returns.
Save(ip, s, i) ==
    LET session == MkSession(s, FALSE, 0)
    IN  /\ up /\ ~mLock
        /\ IF NilSlots(ip) # {}
           THEN /\ First(i, NilSlots(ip))
                /\ Sessions' = [Sessions EXCEPT ![ip][i] = session]
           ELSE /\ i = 0
                /\ Sessions' = [Sessions EXCEPT
                        ![ip] = [j \in Slot |-> IF j = 0 THEN session ELSE Nil]]
        /\ keys' = keys \cup {ip}
        /\ UNCHANGED <<mLock, todo, probe, up>>

\* The end of Get: open a new client, which nobody else knows yet, and Save
\* its session, also if Open returned without a connection.
OpenAndSave(ip, s, i) ==
    /\ Save(ip, s, i)
    /\ conn' = [conn EXCEPT ![s] = s \notin Mute]

\* Whatever session is in the slot now becomes idle.
Free(ip, i) ==
    /\ up /\ ~mLock
    /\ IF <<ip, i>> \in Filled
       THEN Sessions' = [Sessions EXCEPT ![ip][i] = MkSession(@.Sess, TRUE, 0)]
       ELSE UNCHANGED Sessions
    /\ UNCHANGED <<keys, conn, mLock, todo, probe, up>>

Unavailable(ip, i) ==
    /\ up /\ ~mLock
    /\ IF <<ip, i>> \in Filled
       THEN Sessions' = [Sessions EXCEPT ![ip][i] = MkSession(@.Sess, FALSE, @.Age)]
       ELSE UNCHANGED Sessions
    /\ UNCHANGED <<keys, conn, mLock, todo, probe, up>>

-----------------------------------------------------------------------------
(* Take a session out of the cache.                                        *)

\* Faulty variant: the slot keeps the closed session.
EvictKeepsSlot(ip, i) ==
    /\ conn' = [conn EXCEPT ![Sessions[ip][i].Sess] = FALSE]
    /\ UNCHANGED Sessions

\* Close the session of a filled place and empty the slot; the row stays.
Evict(ip, i) ==
    /\ conn' = [conn EXCEPT ![Sessions[ip][i].Sess] = FALSE]
    /\ Sessions' = [Sessions EXCEPT ![ip][i] = Nil]

\* Faulty variant: Kick does not take the mutex.
KickUnlocked(ip, i) ==
    /\ up /\ <<ip, i>> \in Filled
    /\ Evict(ip, i)
    /\ UNCHANGED <<keys, mLock, todo, probe, up>>

\* Kick does not test the slot for nil: closing a nil session panics in a
\* goroutine nobody recovers, which ends the process.
Kick(ip, i) ==
    /\ up /\ ~mLock
    /\ \/ /\ ip \notin keys
          /\ UNCHANGED <<Sessions, conn, up>>
       \/ /\ ip \in keys /\ Sessions[ip][i] = Nil
          /\ up' = FALSE
          /\ UNCHANGED <<Sessions, conn>>
       \/ /\ <<ip, i>> \in Filled
          /\ Evict(ip, i)
          /\ UNCHANGED up
    /\ UNCHANGED <<keys, mLock, todo, probe>>

-----------------------------------------------------------------------------
(* The cleaner: a sweep over all sessions under the mutex, every 10s.      *)

\* Faulty variant of CleanerLock: the sweep looks at busy sessions only.
CleanerLockBusy ==
    /\ up /\ ~mLock
    /\ mLock' = TRUE
    /\ todo' = {p \in Filled : ~At(p).Idle}
    /\ UNCHANGED <<keys, Sessions, conn, probe, up>>

\* The timer fires and the cleaner takes the mutex.  No other method can
\* change a slot until it lets go, so the nil slots are skipped here.
CleanerLock ==
    /\ up /\ ~mLock
    /\ mLock' = TRUE
    /\ todo' = Filled
    /\ UNCHANGED <<keys, Sessions, conn, probe, up>>

\* The rows come in any order, the slots of a row in theirs.
Visit(p) ==
    /\ up /\ mLock /\ probe = Nil
    /\ p \in todo /\ \A q \in todo : q[1] = p[1] => p[2] <= q[2]
    /\ todo' = todo \ {p}

\* An expired session is removed, busy or not.
CleanerExpire(p) ==
    /\ Visit(p)
    /\ Expired(At(p))
    /\ Evict(p[1], p[2])
    /\ UNCHANGED <<keys, mLock, probe, up>>

\* A session in use is left alone.
CleanerSkip(p) ==
    /\ Visit(p)
    /\ ~Expired(At(p)) /\ ~At(p).Idle
    /\ UNCHANGED <<keys, Sessions, conn, mLock, probe, up>>

\* An idle session is tested with a GetRequest.  Its connection is open or
\* cannot be opened (CachedOpen), so the Open inside GetRequest does nothing.
CleanerProbe(p) ==
    /\ Visit(p)
    /\ ~Expired(At(p)) /\ At(p).Idle
    /\ probe' = p
    /\ UNCHANGED <<keys, Sessions, conn, mLock, up>>

\* snmptest returns: the session stays if the test passed, else it is removed.
\* A nil pdu is no success.
CleanerProbed(ok) ==
    /\ up /\ mLock /\ probe # Nil
    /\ ok => At(probe).Sess \notin Mute
    /\ probe' = Nil
    /\ IF ok THEN UNCHANGED <<Sessions, conn>> ELSE Evict(probe[1], probe[2])
    /\ UNCHANGED <<keys, mLock, todo, up>>

CleanerUnlock ==
    /\ up /\ mLock /\ todo = {} /\ probe = Nil
    /\ mLock' = FALSE
    /\ UNCHANGED <<keys, Sessions, conn, todo, probe, up>>

Cleaner ==
    \/ CleanerLock
    \/ \E p \in Place : CleanerExpire(p) \/ CleanerSkip(p) \/ CleanerProbe(p)
    \/ \E ok \in BOOLEAN : CleanerProbed(ok)
    \/ CleanerUnlock

Older(session) ==
    IF session = Nil \/ Expired(session) THEN session
    ELSE MkSession(session.Sess, session.Idle, session.Age + 1)

\* Time passes for all cached sessions alike.
Tick ==
    /\ up
    /\ Sessions' = [ip \in IP |-> [i \in Slot |-> Older(Sessions[ip][i])]]
    /\ UNCHANGED <<keys, conn, mLock, todo, probe, up>>

-----------------------------------------------------------------------------
(* The pool with callers that use it in any order.  A caller saves only a  *)
(* client that it has just called Open on and that no slot holds.          *)

PoolNext ==
    \/ \E ip \in IP, i \in Slot :
          \/ GetCacheSess(ip, i)
          \/ Free(ip, i)
          \/ Unavailable(ip, i)
          \/ Kick(ip, i)
          \/ \E s \in SNMP : s \notin Cached /\ OpenAndSave(ip, s, i)
    \/ \E s \in SNMP : NewSNMP(s) \/ Open(s) \/ Crash(s)
    \/ Cleaner
    \/ Tick

PoolSpec == PoolInit /\ [][PoolNext]_poolVars

-----------------------------------------------------------------------------
(* What the pool promises whatever its callers do.                         *)

PoolTypeOK ==
    /\ keys \subseteq IP
    /\ Sessions \in [IP -> Row]
    /\ conn \in [SNMP -> BOOLEAN]
    /\ mLock \in BOOLEAN
    /\ todo \subseteq Place
    /\ probe \in Place \cup {Nil}
    /\ up \in BOOLEAN

\* Only rows of the map hold sessions, and a client is in at most one slot:
\* callers that hold different places hold different clients.
OneSlotPerSession ==
    /\ \A p \in Filled : p[1] \in keys
    /\ \A p, q \in Filled : At(p).Sess = At(q).Sess => p = q

\* A cached session is open unless it was made with a negative number of retries:
\* pool.go closes a session only together with emptying its slot (Kick, remove),
\* so Get never hands out a closed one.  One that Open left without a connection
\* (pool.go:60) stays in the cache like the others.
CachedOpen == \A p \in Filled : conn[At(p).Sess] <=> At(p).Sess \notin Mute

\* remove needs the mutex (pool.go:154): while the cleaner sweeps, what it
\* has still to visit and what it is testing stays in its slot.
SweepUndisturbed ==
    /\ todo \subseteq Filled
    /\ probe # Nil => mLock /\ probe \in Filled \ todo
    /\ ~mLock => todo = {}
=============================================================================
