------------------------------ MODULE SnmpCol ------------------------------
(***************************************************************************)
(* An SNMP collection request from route/snmpagent.go and route/snmp.go on *)
(* top of the session pool: the handler goroutine runs SnmpAgent, SnmpCol  *)
(* and SessionPool.Get; for every "method:oids" segment of the request and *)
(* every repetition (count) it starts a goroutine SnmpGet.                 *)
(*                                                                         *)
(* Req is a set of places for requests that are served at the same time;   *)
(* each serves one request after another, without end.  Goroutine <<i, k>> *)
(* of r runs segment k of repetition i.  Within one repetition the         *)
(* goroutines take turns through the channel async_c (capacity 1) and hand *)
(* their results to the handler over the unbuffered channel data_c; both   *)
(* channels are made anew for every repetition.                            *)
(***************************************************************************)
EXTENDS SessionPool

CONSTANTS
    Req,       \* the requests served at the same time
    Arg,       \* SNMP arguments of a request: timeout, retries, credentials
    Negative,  \* those with a negative number of retries
    V6,        \* addresses in IPv6 literal form, "[...]"
    MaxTasks,  \* most segments in one request
    MaxCount,  \* most repetitions of one request
    Input,     \* the requests that may arrive
    Limits,    \* the values of maxsesspool the configuration may hold
    MaxLimit   \* an upper bound of Limits

Iter == 1 .. MaxCount

Task == 1 .. MaxTasks

Gid == Iter \X Task

\* What SnmpCol gets to see of a request: the segments number tasks; segment
\* bad, if not 0, is a method without ":oids", which ParameterCheck accepts.
Request == [ip : IP, arg : Arg, tasks : Task, count : 0 .. MaxCount,
            bad : 0 .. MaxTasks]

\* The part of a client's SNMPArguments that matters here: the ip in its
\* Address, and the rest.
Arguments == [ip : IP, arg : Arg]

ASSUME ColAssumption ==
    /\ IsFiniteSet(Req) /\ Req # {}
    /\ V6 \subseteq IP /\ Negative \subseteq Arg
    /\ MaxTasks \in Nat /\ MaxCount \in Nat
    /\ Input \subseteq Request
    /\ \A in \in Input : in.bad <= in.tasks
    /\ Nil \notin Request /\ Nil \notin Arguments
    /\ MaxLimit \in Nat \ {0}
    /\ Limits \subseteq Int /\ Limits # {} /\ \A m \in Limits : m <= MaxLimit

VARIABLES
    Maxsesspool,  \* config.Cfg.Maxsesspool
    args,         \* the arguments of each client, Nil before it is made
    req,          \* the request being served, Nil before the first arrives
    pc,           \* where its handler goroutine is
    snmpsess,     \* the client it works with, Nil if none
    slotc,        \* the index its deferred Free was given, -1 if not cached
    cacheflag,    \* the variable its SnmpGet goroutines share through cflag
    iter,         \* the current repetition
    got,          \* results received in it
    data,         \* results with varbinds in the answer's Data
    error,        \* field Error of the answer, "500" after a panic
    gpc,          \* where each SnmpGet goroutine is
    karg,         \* the index it read from *cflag for Kick
    async_c,      \* whether the turn of a repetition is taken
    tainted       \* history: addresses with a disturbance (see Disturb)

holdVars == <<snmpsess, slotc, cacheflag>>

answerVars == <<data, error>>

goVars == <<gpc, karg, async_c>>

colVars == <<Maxsesspool, args, req, pc, holdVars, iter, got, answerVars, goVars,
             tainted>>

vars == <<poolVars, colVars>>

-----------------------------------------------------------------------------
(* The handler's and the goroutines' program points.                       *)

PC == {"new",     \* no request yet
       "limit",   \* in Get, before the first PoolLen
       "lookup",  \* before GetCacheSess
       "create",  \* before NewSNMP and the second PoolLen
       "save",    \* before Open and Save
       "loop",    \* at the head of the repetition loop
       "recv",    \* receiving from data_c
       "panic",   \* unwinding, before the deferred Free
       "done"}    \* answered; the next request may come

Outcome == {"ok", "err", "ioerr"}

GPC == {"none",   \* not started, or returned
        "wait",   \* before sending to async_c
        "io",     \* in GetRequest or GetBulkWalk
        "arg",    \* before reading *cflag
        "kick"}   \* before Kick
       \cup Outcome  \* before sending that outcome to data_c

\* The goroutines of r that may still touch a session, the pool or a channel.
Running(r) == {g \in Gid : gpc[r][g] # "none"}

InFlight(r) == pc[r] \notin {"new", "done"} \/ Running(r) # {}

\* Nothing in the program refers to client s: the name may stand for a new one.
Unreferenced(s) == s \notin Cached /\ \A r \in Req : InFlight(r) => snmpsess[r] # s

Busy(ip) == \E r \in Req : req[r] # Nil /\ req[r].ip = ip /\ InFlight(r)

(***************************************************************************)
(* The history variable tainted.  A slot index means what its holder takes *)
(* it to mean until one of these disturbances happens to its address: an   *)
(* SNMP operation on a cached session fails, a full row is replaced, a     *)
(* busy session expires, or a handler panics with goroutines running.  The *)
(* disturbance lasts until no request on the address is in flight, and to  *)
(* the end if the process dies of it.                                      *)
(***************************************************************************)
Disturb(ips) == tainted' = {ip \in tainted \cup ips : Busy(ip)' \/ ~up'}

Init ==
    /\ PoolInit
    /\ Maxsesspool \in Limits
    /\ args = [s \in SNMP |-> Nil]
    /\ req = [r \in Req |-> Nil]
    /\ pc = [r \in Req |-> "new"]
    /\ snmpsess = [r \in Req |-> Nil]
    /\ slotc = [r \in Req |-> -1]
    /\ cacheflag = [r \in Req |-> -1]
    /\ iter = [r \in Req |-> 0]
    /\ got = [r \in Req |-> 0]
    /\ data = [r \in Req |-> 0]
    /\ error = [r \in Req |-> ""]
    /\ gpc = [r \in Req |-> [g \in Gid |-> "none"]]
    /\ karg = [r \in Req |-> [g \in Gid |-> -1]]
    /\ async_c = [r \in Req |-> [i \in Iter |-> FALSE]]
    /\ tainted = {}

-----------------------------------------------------------------------------
(* SnmpAgent and SessionPool.Get.                                          *)

Goto(r, l) == pc' = [pc EXCEPT ![r] = l] /\ UNCHANGED answerVars

\* Return from the handler early with an error.
Fail(r, e) ==
    /\ pc' = [pc EXCEPT ![r] = "done"]
    /\ error' = [error EXCEPT ![r] = e]
    /\ UNCHANGED data

\* The request passes ParameterCheck and its version is usable, or it is
\* answered with an error before the pool is asked for a session.
Arrive(r) ==
    /\ up /\ pc[r] \in {"new", "done"} /\ Running(r) = {}
    /\ \E in \in Input : req' = [req EXCEPT ![r] = in]
    /\ \E e \in {"", "err"} :
          /\ error' = [error EXCEPT ![r] = e]
          /\ pc' = [pc EXCEPT ![r] = IF e = "" THEN "limit" ELSE "done"]
    /\ data' = [data EXCEPT ![r] = 0]
    /\ iter' = [iter EXCEPT ![r] = 0]
    /\ snmpsess' = [snmpsess EXCEPT ![r] = Nil]
    /\ cacheflag' = [cacheflag EXCEPT ![r] = -1]
    /\ UNCHANGED <<poolVars, Maxsesspool, args, slotc, got, goVars>>
    /\ Disturb({})

\* First PoolLen: with maxsesspool rows in the map every request is refused.
CheckLimit(r) ==
    /\ up /\ pc[r] = "limit" /\ ~mLock
    /\ IF PoolLen >= Maxsesspool THEN Fail(r, "refused") ELSE Goto(r, "lookup")
    /\ UNCHANGED <<poolVars, Maxsesspool, args, req, holdVars, iter, got, goVars>>
    /\ Disturb({})

\* Faulty variant: indexes counted from 1.
HoldFromOne(r, s, i) ==
    /\ snmpsess' = [snmpsess EXCEPT ![r] = s]
    /\ slotc' = [slotc EXCEPT ![r] = i + 1]
    /\ cacheflag' = [cacheflag EXCEPT ![r] = i + 1]
    /\ Goto(r, "loop")

\* The handler goes on with client s and index i.
Hold(r, s, i) ==
    /\ snmpsess' = [snmpsess EXCEPT ![r] = s]
    /\ slotc' = [slotc EXCEPT ![r] = i]
    /\ cacheflag' = [cacheflag EXCEPT ![r] = i]
    /\ Goto(r, "loop")

\* Faulty variant: an idle session of any row will do.
LookupAnyRow(r) ==
    /\ up /\ pc[r] = "lookup"
    /\ \/ \E ip \in IP, i \in Slot :
             GetCacheSess(ip, i) /\ Hold(r, Sessions[ip][i].Sess, i)
       \/ /\ ~mLock /\ \A ip \in IP : IdleSlots(ip) = {}
          /\ Goto(r, "create")
          /\ UNCHANGED <<poolVars, holdVars>>
    /\ UNCHANGED <<Maxsesspool, args, req, iter, got, goVars>>
    /\ Disturb({})

Lookup(r) ==
    /\ up /\ pc[r] = "lookup"
    /\ LET ip == req[r].ip IN
       \/ \E i \in Slot :
             GetCacheSess(ip, i) /\ Hold(r, Sessions[ip][i].Sess, i)
       \/ /\ ~mLock /\ IdleSlots(ip) = {}
          /\ Goto(r, "create")
          /\ UNCHANGED <<poolVars, holdVars>>
    /\ UNCHANGED <<Maxsesspool, args, req, iter, got, goVars>>
    /\ Disturb({})

\* NewSNMP may reject the arguments; the second PoolLen decides whether the
\* new client will be cached.  One that is not is used unopened.
Create(r) ==
    /\ up /\ pc[r] = "create" /\ ~mLock
    /\ \/ Fail(r, "err") /\ UNCHANGED <<poolVars, args, holdVars>>
       \/ \E s \in SNMP :
             /\ Unreferenced(s) /\ (s \in Mute <=> req[r].arg \in Negative)
             /\ NewSNMP(s)
             /\ args' = [args EXCEPT ![s] = [ip |-> req[r].ip, arg |-> req[r].arg]]
             /\ IF PoolLen < Maxsesspool
                THEN /\ snmpsess' = [snmpsess EXCEPT ![r] = s]
                     /\ Goto(r, "save")
                     /\ UNCHANGED <<slotc, cacheflag>>
                ELSE Hold(r, s, -1)
    /\ UNCHANGED <<Maxsesspool, req, iter, got, goVars>>
    /\ Disturb({})

\* Faulty variant: the client is cached without a connection.
SaveUnopened(r) ==
    /\ up /\ pc[r] = "save"
    /\ UNCHANGED <<conn, Maxsesspool, args, req, iter, got, goVars>>
    /\ \E i \in Slot : /\ Save(req[r].ip, snmpsess[r], i)
                      /\ Hold(r, snmpsess[r], i)
    /\ Disturb(IF Overflow(req[r].ip) THEN {req[r].ip} ELSE {})

\* Open fails, or the client is saved; without tries Open does not fail, but in
\* version 3 it does not return either.
SaveNew(r) ==
    /\ up /\ pc[r] = "save"
    /\ UNCHANGED <<Maxsesspool, args, req, iter, got, goVars>>
    /\ \/ /\ snmpsess[r] \notin Mute
          /\ Fail(r, "err")
          /\ UNCHANGED <<poolVars, holdVars>>
          /\ Disturb({})
       \/ /\ snmpsess[r] \in Mute
          /\ Crash(snmpsess[r])
          /\ UNCHANGED <<pc, answerVars, holdVars>>
          /\ Disturb({})
       \/ /\ \E i \in Slot : /\ OpenAndSave(req[r].ip, snmpsess[r], i)
                            /\ Hold(r, snmpsess[r], i)
          /\ Disturb(IF Overflow(req[r].ip) THEN {req[r].ip} ELSE {})

-----------------------------------------------------------------------------
(* The repetition loop of SnmpCol and its deferred Free.                   *)

\* Start the goroutines of the next repetition.  Indexing the missing part of
\* segment bad panics after the goroutines before it have been started.
Spawn(r) ==
    LET in == req[r]
        started == {k \in Task : k <= in.tasks /\ (in.bad = 0 \/ k < in.bad)}
    IN  /\ up /\ pc[r] = "loop" /\ iter[r] < in.count
        /\ iter' = [iter EXCEPT ![r] = @ + 1]
        /\ got' = [got EXCEPT ![r] = 0]
        /\ gpc' = [gpc EXCEPT ![r] = [g \in Gid |->
                     IF g[1] = iter[r] + 1 /\ g[2] \in started
                     THEN "wait" ELSE gpc[r][g]]]
        /\ Goto(r, IF in.bad = 0 THEN "recv" ELSE "panic")
        /\ UNCHANGED <<poolVars, Maxsesspool, args, req, holdVars, karg, async_c>>
        /\ Disturb(IF in.bad > 1 THEN {in.ip} ELSE {})

\* SnmpCol returns, or unwinds and martini answers 500.  The deferred Free got
\* its index at the defer statement: a Kick since then has not changed it.
FreeHeld(r) ==
    /\ up /\ (pc[r] = "panic" \/ (pc[r] = "loop" /\ iter[r] = req[r].count))
    /\ IF slotc[r] < 0 THEN UNCHANGED poolVars ELSE Free(req[r].ip, slotc[r])
    /\ slotc' = [slotc EXCEPT ![r] = -1]
    /\ got' = [got EXCEPT ![r] = 0]
    /\ IF pc[r] = "panic" THEN Fail(r, "500") ELSE Goto(r, "done")
    /\ UNCHANGED <<Maxsesspool, args, req, snmpsess, cacheflag, iter, goVars>>
    /\ Disturb({})

-----------------------------------------------------------------------------
(* SnmpGet.                                                                *)

Move(r, g, l) == gpc' = [gpc EXCEPT ![r][g] = l]

\* The operation ends with outcome o and its result waits to be received.
Finish(r, g, o) ==
    /\ Move(r, g, o)
    /\ Disturb(IF o = "ioerr" /\ slotc[r] >= 0 THEN {req[r].ip} ELSE {})

\* Faulty variant: the goroutines of a repetition do not take turns.
BeginAtOnce(r, g) ==
    /\ gpc[r][g] = "wait"
    /\ UNCHANGED <<Maxsesspool, args, req, pc, holdVars, iter, got, answerVars,
                   karg, async_c>>
    /\ Open(snmpsess[r]) /\ Move(r, g, "io") /\ Disturb({})

\* It is g's turn.  The oids may not parse; GetBulkWalk fails at once for v1,
\* and the Open that starts an SNMP operation may fail to connect.  A request
\* without tries gets a nil pdu or does not return from Open.
Begin(r, g) ==
    /\ up /\ gpc[r][g] = "wait" /\ ~async_c[r][g[1]]
    /\ async_c' = [async_c EXCEPT ![r][g[1]] = TRUE]
    /\ UNCHANGED <<Maxsesspool, args, req, pc, holdVars, iter, got, answerVars, karg>>
    /\ \/ Finish(r, g, "err") /\ UNCHANGED poolVars
       \/ Finish(r, g, "ioerr") /\ UNCHANGED poolVars
       \/ /\ snmpsess[r] \notin Mute
          /\ Open(snmpsess[r]) /\ Move(r, g, "io") /\ Disturb({})
       \/ /\ snmpsess[r] \in Mute
          /\ Crash(snmpsess[r]) /\ UNCHANGED gpc /\ Disturb({})

\* The operation returns: varbinds, an error status from the device, or an
\* error (timeout, closed connection, unexpected answer).
Return(r, g) ==
    /\ up /\ gpc[r][g] = "io"
    /\ UNCHANGED <<poolVars, Maxsesspool, args, req, pc, holdVars, iter, got,
                   answerVars, karg, async_c>>
    /\ \E o \in Outcome : Finish(r, g, o)

\* Somebody closed the client under the operation.  A walk's next request
\* opens it again, or the nil connection is dereferenced.
Interrupted(r, g) ==
    /\ gpc[r][g] = "io" /\ ~conn[snmpsess[r]]
    /\ Open(snmpsess[r]) \/ Crash(snmpsess[r])
    /\ UNCHANGED <<Maxsesspool, args, req, pc, holdVars, iter, got, answerVars, goVars>>
    /\ Disturb({})

\* The handler receives the result of g: it ends its repetition if last, the
\* answer's error becomes e, and g goes on to kick its session or returns.
Receive(r, g, last, e, kick) ==
    /\ up /\ gpc[r][g] \in Outcome /\ pc[r] = "recv" /\ g[1] = iter[r]
    /\ got' = [got EXCEPT ![r] = @ + 1]
    /\ data' = [data EXCEPT ![r] = IF gpc[r][g] = "ok" THEN @ + 1 ELSE @]
    /\ error' = [error EXCEPT ![r] = e]
    /\ pc' = [pc EXCEPT ![r] = IF last THEN "loop" ELSE @]
    /\ Move(r, g, IF kick THEN "arg" ELSE "none")
    /\ async_c' = [async_c EXCEPT ![r][g[1]] = kick]
    /\ UNCHANGED <<poolVars, Maxsesspool, args, req, holdVars, iter, karg>>
    /\ Disturb({})

FirstError(r, g) ==
    IF error[r] = "" /\ gpc[r][g] # "ok" THEN "err" ELSE error[r]

\* Faulty variants: the last error wins; the handler stops at an error, or
\* waits for one result too many; every error kicks the session.
DeliverLastError(r, g) ==
    Receive(r, g, got[r] + 1 = req[r].tasks,
            IF gpc[r][g] = "ok" THEN "" ELSE "err", gpc[r][g] = "ioerr")

DeliverUntilError(r, g) ==
    Receive(r, g, got[r] + 1 = req[r].tasks \/ gpc[r][g] # "ok",
            FirstError(r, g), gpc[r][g] = "ioerr")

DeliverOneMore(r, g) ==
    Receive(r, g, got[r] = req[r].tasks, FirstError(r, g), gpc[r][g] = "ioerr")

DeliverKickAll(r, g) ==
    Receive(r, g, got[r] + 1 = req[r].tasks, FirstError(r, g),
            gpc[r][g] # "ok")

\* data_c: the handler receives g's result and keeps the first error.  Then g
\* returns, which frees the turn, unless it has to kick the session.
Deliver(r, g) ==
    Receive(r, g, got[r] + 1 = req[r].tasks, FirstError(r, g), gpc[r][g] = "ioerr")

ReadFlag(r, g) ==
    /\ up /\ gpc[r][g] = "arg"
    /\ karg' = [karg EXCEPT ![r][g] = cacheflag[r]]
    /\ Move(r, g, "kick")
    /\ UNCHANGED <<poolVars, Maxsesspool, args, req, pc, holdVars, iter, got,
                   answerVars, async_c>>
    /\ Disturb({})

\* Kick looks up the address up to its first colon: "[" for an IPv6 literal,
\* which is never a key.  Then *cflag becomes -1 and g returns.
KickHeld(r, g) ==
    LET ip == args[snmpsess[r]].ip IN
    /\ up /\ gpc[r][g] = "kick"
    /\ IF karg[r][g] < 0
       THEN UNCHANGED poolVars
       ELSE IF ip \in V6
            THEN ~mLock /\ UNCHANGED poolVars
            ELSE Kick(ip, karg[r][g])
    /\ cacheflag' = [cacheflag EXCEPT ![r] = -1]
    /\ karg' = [karg EXCEPT ![r][g] = -1]
    /\ async_c' = [async_c EXCEPT ![r][g[1]] = FALSE]
    /\ Move(r, g, "none")
    /\ UNCHANGED <<Maxsesspool, args, req, pc, snmpsess, slotc, iter, got, answerVars>>
    /\ Disturb({})

-----------------------------------------------------------------------------
(* The rest of the process.                                                *)

\* The cleaner; it disturbs an address when it removes a busy session.
Clean ==
    /\ Cleaner
    /\ UNCHANGED <<Maxsesspool, args, req, pc, holdVars, iter, got, answerVars, goVars>>
    /\ Disturb({p[1] : p \in {q \in Filled : At(q)' = Nil /\ ~At(q).Idle}})

Time ==
    /\ Tick
    /\ UNCHANGED <<Maxsesspool, args, req, pc, holdVars, iter, got, answerVars, goVars>>
    /\ Disturb({})

\* SIGHUP: Loadconfig reads maxsesspool again.
Reload ==
    /\ up
    /\ Maxsesspool' \in Limits
    /\ UNCHANGED <<poolVars, args, req, pc, holdVars, iter, got, answerVars, goVars>>
    /\ Disturb({})

Handler(r) ==
    \/ CheckLimit(r) \/ Lookup(r) \/ Create(r) \/ SaveNew(r)
    \/ Spawn(r) \/ FreeHeld(r)

SnmpGet(r, g) ==
    \/ Begin(r, g) \/ Return(r, g) \/ Interrupted(r, g) \/ Deliver(r, g)
    \/ ReadFlag(r, g) \/ KickHeld(r, g)

Next ==
    \/ \E r \in Req : Arrive(r) \/ Handler(r) \/ \E g \in Gid : SnmpGet(r, g)
    \/ Clean
    \/ Time
    \/ Reload

Spec == Init /\ [][Next]_vars

(***************************************************************************)
(* Fairness.  Goroutines that can run do run, and an SNMP operation ends:  *)
(* every read has a deadline and the retries are bounded.  A goroutine     *)
(* that waits for mLock or for its turn gets it although others take it in *)
(* between (strong fairness): the cleaner sleeps 10s between two sweeps    *)
(* and a goroutine takes its turn once.  Nothing makes a request arrive.   *)
(***************************************************************************)
FairSpec ==
    /\ Spec
    /\ \A r \in Req : SF_vars(Handler(r)) /\ \A g \in Gid : SF_vars(SnmpGet(r, g))
    /\ WF_vars(Clean)
    /\ WF_vars(Time)

-----------------------------------------------------------------------------
(* Properties.                                                             *)

TypeOK ==
    /\ PoolTypeOK
    /\ Maxsesspool \in Limits
    /\ args \in [SNMP -> Arguments \cup {Nil}]
    /\ req \in [Req -> Request \cup {Nil}]
    /\ pc \in [Req -> PC]
    /\ \A r \in Req : req[r] = Nil <=> pc[r] = "new"
    /\ snmpsess \in [Req -> SNMP \cup {Nil}]
    /\ slotc \in [Req -> Slot \cup {-1}]
    /\ cacheflag \in [Req -> Slot \cup {-1}]
    /\ iter \in [Req -> 0 .. MaxCount]
    /\ got \in [Req -> Nat]
    /\ data \in [Req -> Nat]
    /\ error \in [Req -> {"", "err", "refused", "500"}]
    /\ gpc \in [Req -> [Gid -> GPC]]
    /\ karg \in [Req -> [Gid -> Slot \cup {-1}]]
    /\ async_c \in [Req -> [Iter -> BOOLEAN]]
    /\ tainted \subseteq IP

\* The goroutines that are sending on client s and reading its answers.
Users(s) == {u \in Req \X Gid : gpc[u[1]][u[2]] = "io" /\ snmpsess[u[1]] = s}

Serial(s) ==
    /\ \A u, v \in Users(s) : u = v
    /\ probe # Nil /\ At(probe).Sess = s => Users(s) = {}

\* Requests on one session never overlap (snmp.go:62), neither those of one
\* request nor those of two, and the cleaner tests no session in use, as long
\* as nothing has disturbed the address since it was last at rest.
SerialUnlessDisturbed ==
    \A s \in SNMP : args[s] # Nil /\ args[s].ip \notin tainted => Serial(s)

\* The process dies of a nil session in Kick or of a connection closed under
\* an operation only after a disturbance, and of a nil pdu only while a client
\* with a negative number of retries is in use or, left behind by a request that
\* sent nothing, in the cache: plain concurrent traffic, hits, misses, refusals
\* and sweeps of idle sessions, such clients among them, never kill it.
DeathNeedsDisturbance == up \/ tainted # {} \/ \E s \in Mute : ~Unreferenced(s)

\* A request is served by a session to the address it asked for: slots are
\* reused, rows replaced and indexes go stale only within one address.
OwnHost ==
    \A r \in Req : InFlight(r) /\ snmpsess[r] # Nil =>
        args[snmpsess[r]].ip = req[r].ip

\* The limit check and the Save it guards are apart, so the map outgrows
\* maxsesspool, but only by the requests that pass the check together:
\* however many requests are served, rows of the map stay bounded.
KeyBound == Cardinality(keys) <= MaxLimit + Cardinality(Req) - 1

\* An answer without an error is complete: it holds the varbinds of every
\* segment of every repetition, although they arrive in any order from
\* goroutines of which one may have failed and kicked the session.
CleanAnswerIsComplete ==
    \A r \in Req : pc[r] = "done" /\ error[r] = "" =>
        data[r] = req[r].count * req[r].tasks

\* A handler that has not panicked leaves no goroutine behind that waits for
\* its turn or for somebody to receive its result.
NoneStranded ==
    \A r \in Req : pc[r] = "done" /\ error[r] # "500" =>
        \A g \in Gid : gpc[r][g] \notin {"wait", "io"} \cup Outcome

\* Every request that reaches the pool is answered unless the process dies:
\* neither the mutex, held by the cleaner over its tests, nor the channels
\* block a handler for ever.
Answered == \A r \in Req : pc[r] = "limit" ~> pc[r] = "done" \/ ~up

\* Once requests stop coming the cleaner empties the cache: no session keeps
\* its slot because its busy mark was never taken back.
Drained == <>[](\A r \in Req : ~InFlight(r)) => <>[](up => Filled = {})

-----------------------------------------------------------------------------
(* What comments and documentation say and the code does not keep.         *)

\* The sessions that are open and that somebody can still use.
OpenSessions == {s \in SNMP : conn[s] /\ ~Unreferenced(s)}

\* pool.go:13: a refused request finds "max snmp connections" reached.
RefusalMeansFull ==
    [][\A r \in Req : error[r] # "refused" /\ error'[r] = "refused" =>
          Cardinality(OpenSessions) >= Maxsesspool]_vars

\* snmp.go:62: requests on one session do not run side by side.
SerialUse == \A s \in SNMP : \A u, v \in Users(s) : u = v
=============================================================================
