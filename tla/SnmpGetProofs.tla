--------------------------- MODULE SnmpGetProofs ---------------------------
(***************************************************************************)
(* The goroutines of SNMP collection, for every number of requests,        *)
(* segments, repetitions and clients: an answer without an error is        *)
(* complete, no goroutine is left behind, requests on one session never    *)
(* overlap and the process does not die, unless the address was disturbed. *)
(*                                                                         *)
(* The answer is right because handler and goroutines count alike: results *)
(* still owed and results received make up the segments (AnswerOf).  Use   *)
(* is serial because on an address at rest every index means what its      *)
(* holder takes it to mean: the slot holds the holder's own session, busy, *)
(* and no two holders have the same slot (Mine, Apart), a client that was  *)
(* not cached is known to one request only (Private), the goroutines of a  *)
(* repetition take turns (Turns), and whoever is left over or kicks did    *)
(* disturb the address (Orphans, Kicks).                                   *)
(***************************************************************************)
EXTENDS SnmpColProofs

\* Points of a goroutine whose result has not been received.
Owing == {"wait", "io"} \cup Outcome

Unsent(r) == {g \in Gid : gpc[r][g] \in Owing}

\* The results owed and received, and the varbinds of an answer without an error.
AnswerOf(r) ==
    /\ Unsent(r) # {} => \/ pc[r] \in {"recv", "panic"}
                         \/ pc[r] = "done" /\ error[r] = "500"
    /\ pc[r] = "recv" => /\ Cardinality(Unsent(r)) + got[r] = req[r].tasks
                         /\ \A g \in Unsent(r) : g[1] = iter[r]
    /\ pc[r] \in Early \cup {"save"} => iter[r] = 0 /\ data[r] = 0
    /\ error[r] = "" =>
          /\ pc[r] = "loop" => data[r] = iter[r] * req[r].tasks
          /\ pc[r] = "recv" => data[r] = (iter[r] - 1) * req[r].tasks + got[r]
          /\ pc[r] = "done" => data[r] = req[r].count * req[r].tasks

AnswerInv == \A r \in Req : AnswerOf(r)

\* Points of a handler that works with a client.
Using == {"loop", "recv", "panic"}

\* Points of a goroutine whose turn it is.
Taking == {"io", "arg", "kick"} \cup Outcome

\* Only a handler at work holds an index, and it shares it with its goroutines.
FlagsOf(r) == /\ slotc[r] >= 0 => pc[r] \in Using
              /\ pc[r] \in Using => cacheflag[r] \in {slotc[r], -1}

Flags == \A r \in Req : FlagsOf(r)

Held(r) == <<req[r].ip, slotc[r]>>

\* At an address at rest the slot of a handler holds its session, busy.
MineOf(r) == Held(r) \in Filled /\ At(Held(r)).Sess = snmpsess[r] /\ ~At(Held(r)).Idle

Mine == \A r \in Req : slotc[r] >= 0 /\ req[r].ip \notin tainted => MineOf(r)

\* No two handlers hold one slot of such an address.
Apart ==
    \A r, q \in Req :
        r # q /\ slotc[r] >= 0 /\ slotc[q] >= 0 /\ req[r].ip \notin tainted => Held(r) # Held(q)

\* A client that is not cached is known to one request only, which keeps it open
\* if it has tries to open it with.
Private ==
    \A r \in Req : pc[r] \in Using /\ slotc[r] = -1 =>
        /\ snmpsess[r] \notin Cached
        /\ \A q \in Req : q # r /\ Holds(q) => snmpsess[q] # snmpsess[r]
        /\ \A g \in Gid :
              gpc[r][g] = "io" /\ snmpsess[r] \notin Mute => conn[snmpsess[r]]

\* The goroutines of a repetition take turns.
TurnsOf(r) ==
    \A g \in Gid : gpc[r][g] \in Taking =>
        /\ async_c[r][g[1]]
        /\ \A h \in Gid : h[1] = g[1] /\ gpc[r][h] \in Taking => h = g

Turns == \A r \in Req : TurnsOf(r)

\* A goroutine that nobody will receive from is a disturbance.
Orphans ==
    \A r \in Req : Unsent(r) # {} /\ pc[r] \in {"panic", "done"} => req[r].ip \in tainted

\* At an address at rest whoever kicks has nothing to kick.
KicksOf(r, g) ==
    req[r].ip \notin tainted =>
        /\ gpc[r][g] \in {"ioerr", "arg", "kick"} => cacheflag[r] = -1
        /\ gpc[r][g] = "kick" => karg[r][g] = -1

Kicks == \A r \in Req, g \in Gid : KicksOf(r, g)

\* The cleaner tests idle sessions only.
Probing == probe # Nil => At(probe).Idle

\* Who uses which session, and when.
UseInv ==
    /\ Flags /\ Mine /\ Apart /\ Private /\ Turns /\ Orphans /\ Kicks /\ Probing
    /\ DeathNeedsDisturbance

-----------------------------------------------------------------------------
(* A step of one request leaves the others alone.                          *)

\* Nothing of request q changes.
Still(q) ==
    /\ req'[q] = req[q] /\ pc'[q] = pc[q]
    /\ snmpsess'[q] = snmpsess[q] /\ slotc'[q] = slotc[q] /\ cacheflag'[q] = cacheflag[q]
    /\ iter'[q] = iter[q] /\ got'[q] = got[q] /\ data'[q] = data[q] /\ error'[q] = error[q]
    /\ gpc'[q] = gpc[q] /\ karg'[q] = karg[q] /\ async_c'[q] = async_c[q]

\* A step of a handler leaves every other request alone.
LEMMA HandlerStill ==
    ASSUME TypeOK, NEW r \in Req, Arrive(r) \/ Handler(r), NEW q \in Req \ {r}
    PROVE  Still(q)
<1>1. CASE Arrive(r)
  BY <1>1 DEF Arrive, TypeOK, Still, goVars
<1>2. CASE CheckLimit(r)
  BY <1>2 DEF CheckLimit, Fail, Goto, answerVars, holdVars, TypeOK, Still, goVars
<1>3. CASE Lookup(r)
  BY <1>3 DEF Lookup, Hold, Goto, answerVars, holdVars, TypeOK, Still, goVars
<1>4. CASE Create(r)
  BY <1>4 DEF Create, Hold, Fail, Goto, answerVars, holdVars, TypeOK, Still, goVars
<1>5. CASE SaveNew(r)
  BY <1>5 DEF SaveNew, Hold, Fail, Goto, answerVars, holdVars, TypeOK, Still, goVars
<1>6. CASE Spawn(r)
  BY <1>6 DEF Spawn, Goto, answerVars, holdVars, TypeOK, Still
<1>7. CASE FreeHeld(r)
  BY <1>7 DEF FreeHeld, Fail, Goto, answerVars, holdVars, TypeOK, Still, goVars
<1>8. QED
  BY <1>1, <1>2, <1>3, <1>4, <1>5, <1>6, <1>7 DEF Handler

\* A step of a goroutine leaves every other request alone.
LEMMA SnmpGetStill ==
    ASSUME TypeOK, NEW r \in Req, NEW g \in Gid, SnmpGet(r, g), NEW q \in Req \ {r}
    PROVE  Still(q)
<1>1. CASE Begin(r, g)
  BY <1>1 DEF Begin, Finish, Move, answerVars, holdVars, TypeOK, Still
<1>2. CASE Return(r, g)
  BY <1>2 DEF Return, Finish, Move, answerVars, holdVars, TypeOK, Still
<1>3. CASE Interrupted(r, g)
  BY <1>3 DEF Interrupted, answerVars, holdVars, TypeOK, Still, goVars
<1>4. CASE Deliver(r, g)
  BY <1>4 DEF Deliver, Receive, Move, answerVars, holdVars, TypeOK, Still
<1>5. CASE ReadFlag(r, g)
  BY <1>5 DEF ReadFlag, Move, answerVars, holdVars, TypeOK, Still
<1>6. CASE KickHeld(r, g)
  BY <1>6 DEF KickHeld, Move, answerVars, holdVars, TypeOK, Still
<1>7. QED
  BY <1>1, <1>2, <1>3, <1>4, <1>5, <1>6 DEF SnmpGet

\* The cleaner, time and a reload leave all requests alone.
LEMMA RestStill ==
    ASSUME Clean \/ Time \/ Reload \/ UNCHANGED vars, NEW q \in Req
    PROVE  Still(q)
BY DEF Clean, Time, Reload, vars, colVars, answerVars, holdVars, goVars, Still

-----------------------------------------------------------------------------
(* The answer.                                                             *)

\* What is owed and received stays right for a request that does not move.
LEMMA StillAnswer ==
    ASSUME NEW q \in Req, AnswerOf(q), Still(q)
    PROVE  AnswerOf(q)'
BY DEF AnswerOf, Still, Unsent

\* A request has finitely many goroutines.
LEMMA UnsentFinite ==
    ASSUME NEW r \in Req
    PROVE  /\ IsFiniteSet(Unsent(r)) /\ Cardinality(Unsent(r)) \in Nat
           /\ Unsent(r) = {} <=> Cardinality(Unsent(r)) = 0
<1>1. IsFiniteSet(Iter) /\ IsFiniteSet(Task)
  BY FS_Interval, ColAssumption DEF Iter, Task
<1>2. IsFiniteSet(Gid)
  BY <1>1, FS_Product DEF Gid
<1>3. Unsent(r) \subseteq Gid
  BY DEF Unsent
<1>4. QED
  BY <1>2, <1>3, FS_Subset, FS_CardinalityType, FS_EmptySet

\* A handler that starts, looks for a client or returns early keeps the
\* answer right: no goroutine of it runs.
LEMMA EarlyAnswer ==
    ASSUME ColInv, NEW r \in Req, AnswerOf(r),
           \/ Arrive(r) \/ CheckLimit(r) \/ Lookup(r) \/ Create(r) \/ SaveNew(r)
    PROVE  AnswerOf(r)'
<1> USE DEF ColInv
<1>1. Unsent(r)' = {}
  <2>1. Running(r) = {} /\ gpc' = gpc
    BY DEF Arrive, CheckLimit, Lookup, Create, SaveNew, goVars, Ownership, Early
  <2>2. QED
    BY <2>1 DEF Running, Unsent, Owing, Outcome
<1>2. CASE Arrive(r)
  <2>1. iter'[r] = 0 /\ data'[r] = 0 /\ pc'[r] \in {"limit", "done"}
        /\ (pc'[r] = "done" => error'[r] = "err")
    BY <1>2 DEF Arrive, TypeOK
  <2>2. QED
    BY <1>1, <2>1 DEF AnswerOf
<1>3. CASE pc[r] \in Early \cup {"save"}
  <2>1. UNCHANGED <<iter, data, req>> /\ pc'[r] \in Early \cup {"save", "loop", "done"}
        /\ (pc'[r] = "done" => error'[r] # "")
    BY <1>3 DEF Arrive, CheckLimit, Lookup, Create, SaveNew, Fail, Goto, Hold, Early,
                answerVars, TypeOK
  <2>2. iter[r] = 0 /\ data[r] = 0
    BY <1>3 DEF AnswerOf
  <2>3. req[r].tasks \in Nat
    BY <1>3, RequestType, ColAssumption DEF Early, Task
  <2>4. 0 * req[r].tasks = 0
    BY <2>3
  <2>5. iter'[r] = 0 /\ data'[r] = 0 /\ req'[r] = req[r]
    BY <2>1, <2>2
  <2>6. QED
    BY <1>1, <2>1, <2>4, <2>5 DEF AnswerOf, Early
<1>4. QED
  BY <1>2, <1>3 DEF CheckLimit, Lookup, Create, SaveNew, Early

\* Spawn starts one goroutine for every segment, or none but orphans.
LEMMA SpawnAnswer ==
    ASSUME ColInv, NEW r \in Req, AnswerOf(r), Spawn(r)
    PROVE  AnswerOf(r)'
<1> USE DEF ColInv
<1>1. /\ pc[r] = "loop" /\ iter[r] < req[r].count /\ Unsent(r) = {}
      /\ req'[r] = req[r] /\ iter'[r] = iter[r] + 1 /\ got'[r] = 0
      /\ data'[r] = data[r] /\ error'[r] = error[r]
      /\ pc'[r] = IF req[r].bad = 0 THEN "recv" ELSE "panic"
  <2>1. pc[r] = "loop" /\ iter[r] < req[r].count /\ req'[r] = req[r]
    BY DEF Spawn
  <2>2. Unsent(r) = {}
    BY <2>1 DEF AnswerOf
  <2>3. /\ iter'[r] = iter[r] + 1 /\ got'[r] = 0
        /\ data'[r] = data[r] /\ error'[r] = error[r]
    BY DEF Spawn, Goto, answerVars, TypeOK
  <2>4. pc'[r] = IF req[r].bad = 0 THEN "recv" ELSE "panic"
    BY DEF Spawn, Goto, TypeOK
  <2>5. QED
    BY <2>1, <2>2, <2>3, <2>4
<1>2. /\ req[r].count \in 0 .. MaxCount /\ req[r].tasks \in Task /\ iter[r] \in Nat
      /\ MaxCount \in Nat /\ MaxTasks \in Nat /\ data[r] \in Nat
  <2>1. req[r].count \in 0 .. MaxCount /\ req[r].tasks \in Task
    BY <1>1, RequestType
  <2>2. iter[r] \in 0 .. MaxCount /\ data[r] \in Nat
    BY DEF TypeOK
  <2>3. QED
    BY <2>1, <2>2, ColAssumption
<1>3. CASE req[r].bad # 0
  BY <1>1, <1>3 DEF AnswerOf, Early
<1>4. CASE req[r].bad = 0
  <2> DEFINE n == req[r].tasks
             i == iter[r] + 1
  <2>1. i \in Iter /\ n \in Task
    BY <1>1, <1>2 DEF Iter
  <2>2. \A g \in Gid : gpc'[r][g] = IF g[1] = i /\ g[2] <= n THEN "wait" ELSE gpc[r][g]
    <3>1. \A g \in Gid : g[2] \in Task
      BY DEF Gid
    <3>2. QED
      BY <1>4, <3>1 DEF Spawn, TypeOK
  <2>3. \A g \in Gid : g \in Unsent(r)' <=> g[1] = i /\ g[2] <= n
    BY <1>1, <2>2 DEF Unsent, Owing
  <2>4. Cardinality(Unsent(r)') = n
    <3> DEFINE f == [k \in 1 .. n |-> <<i, k>>]
    <3>1. \A k \in 1 .. n : k \in Task
      BY <2>1, <1>2 DEF Task
    <3>2. \A k \in 1 .. n : f[k] \in Gid /\ f[k][1] = i /\ f[k][2] = k
      BY <2>1, <3>1 DEF Gid
    <3>3. \A k \in 1 .. n : f[k] \in Unsent(r)'
      BY <2>3, <3>2
    <3>4. \A g \in Unsent(r)' : g[2] \in 1 .. n /\ f[g[2]] = g
      <4> TAKE g \in Unsent(r)'
      <4>1. g \in Gid /\ g[1] = i /\ g[2] <= n
        BY <2>3 DEF Unsent
      <4>2. g[2] \in 1 .. n /\ g = <<g[1], g[2]>>
        BY <1>2, <4>1 DEF Gid, Task
      <4>3. QED
        BY <4>1, <4>2
    <3>5. f \in Bijection(1 .. n, Unsent(r)')
      <4>0. \A k \in 1 .. n : f[k][2] = k
        BY <3>2
      <4> HIDE DEF i, n
      <4>1. f \in [1 .. n -> Unsent(r)']
        BY <3>3
      <4> HIDE DEF f
      <4>2. \A k, l \in 1 .. n : f[k] = f[l] => k = l
        BY <4>0
      <4>3. \A g \in Unsent(r)' : \E k \in 1 .. n : f[k] = g
        BY <3>4
      <4>4. QED
        BY <4>1, <4>2, <4>3 DEF Bijection, Injection, Surjection, IsInjective
    <3>6. IsFiniteSet(1 .. n) /\ Cardinality(1 .. n) = n
      <4>1. n \in Nat /\ 1 \in Int
        BY <1>2 DEF Task
      <4> HIDE DEF n
      <4>2. QED
        BY <4>1, FS_Interval
    <3>7. ExistsBijection(1 .. n, Unsent(r)')
      <4> HIDE DEF f, n
      <4>1. QED
        BY <3>5 DEF ExistsBijection
    <3> HIDE DEF n, f
    <3> DEFINE S == 1 .. n
               T == Unsent(r)'
    <3>8. IsFiniteSet(S) /\ ExistsBijection(S, T) /\ Cardinality(S) = n
      BY <3>6, <3>7
    <3> HIDE DEF S, T
    <3>9. Cardinality(T) = n
      BY <3>8, FS_Bijection
    <3>10. QED
      BY <3>9 DEF T
  <2>5. i - 1 = iter[r]
    BY <1>2
  <2>6. /\ pc'[r] = "recv" /\ iter'[r] = i /\ got'[r] = 0 /\ req'[r].tasks = n
        /\ data'[r] = data[r] /\ error'[r] = error[r]
        /\ error[r] = "" => data[r] = iter[r] * n
    BY <1>1, <1>4 DEF AnswerOf
  <2>7. n \in Nat /\ i \in Nat /\ (i - 1) * n \in Int
    BY <1>2 DEF Task
  <2> HIDE DEF n, i
  <2>8. \A g \in Unsent(r)' : g[1] = i
    BY <2>3 DEF Unsent
  <2>9. error'[r] = "" => data'[r] = (i - 1) * n + 0
    <3>1. error'[r] = "" => data'[r] = (i - 1) * n
      BY <2>5, <2>6
    <3> DEFINE m == (i - 1) * n
    <3>2. m + 0 = m
      <4>1. m \in Int
        BY <2>7
      <4> HIDE DEF m
      <4>2. QED
        BY <4>1
    <3>3. QED
      BY <3>1, <3>2
  <2>10. Cardinality(Unsent(r)') + 0 = n
    BY <2>4, <2>7
  <2>11. QED
    BY <2>6, <2>8, <2>9, <2>10 DEF AnswerOf, Early
<1>5. QED
  BY <1>3, <1>4

\* The answer of a handler that returns is complete or has an error.
LEMMA FreeAnswer ==
    ASSUME ColInv, NEW r \in Req, AnswerOf(r), FreeHeld(r)
    PROVE  AnswerOf(r)'
<1> USE DEF ColInv
<1>1. /\ req'[r] = req[r] /\ iter'[r] = iter[r] /\ data'[r] = data[r]
      /\ pc'[r] = "done" /\ Unsent(r)' = Unsent(r)
      /\ \/ pc[r] = "panic" /\ error'[r] = "500"
         \/ pc[r] = "loop" /\ iter[r] = req[r].count /\ error'[r] = error[r]
  BY DEF FreeHeld, Fail, Goto, goVars, answerVars, TypeOK, Unsent
<1>2. QED
  BY <1>1 DEF AnswerOf, Early

\* Move moves one goroutine.
LEMMA MoveOne ==
    ASSUME TypeOK, NEW r \in Req, NEW g \in Gid, NEW l, Move(r, g, l)
    PROVE  /\ gpc'[r][g] = l
           /\ \A h \in Gid \ {g} : gpc'[r][h] = gpc[r][h]
BY DEF Move, TypeOK

\* Where a goroutine goes.
LEMMA Moves ==
    ASSUME TypeOK, NEW r \in Req, NEW g \in Gid
    PROVE  /\ Begin(r, g) => gpc'[r][g] \in {"wait", "err", "ioerr", "io"}
           /\ Return(r, g) => gpc'[r][g] \in Outcome
           /\ ReadFlag(r, g) => gpc'[r][g] = "kick"
           /\ KickHeld(r, g) => gpc'[r][g] = "none"
           /\ Deliver(r, g) => gpc'[r][g] = IF gpc[r][g] = "ioerr" THEN "arg" ELSE "none"
           /\ Begin(r, g) \/ Return(r, g) \/ ReadFlag(r, g) \/ KickHeld(r, g) \/ Deliver(r, g)
                 => \A h \in Gid \ {g} : gpc'[r][h] = gpc[r][h]
<1>1. ASSUME Begin(r, g)
      PROVE  \/ gpc[r][g] = "wait" /\ gpc' = gpc
             \/ \E l \in {"err", "ioerr", "io"} : Move(r, g, l)
  BY <1>1 DEF Begin, Finish
<1>2. QED
  BY <1>1, MoveOne DEF Return, ReadFlag, KickHeld, Deliver, Receive, Finish

\* A goroutine that gets its turn, works, or kicks owes what it owed.
LEMMA WorkAnswer ==
    ASSUME ColInv, NEW r \in Req, NEW g \in Gid, AnswerOf(r),
           \/ Begin(r, g) \/ Return(r, g) \/ Interrupted(r, g) \/ ReadFlag(r, g)
           \/ KickHeld(r, g)
    PROVE  AnswerOf(r)'
<1> USE DEF ColInv
<1>1. UNCHANGED <<req, pc, iter, got, data, error>>
  BY DEF Begin, Return, Interrupted, ReadFlag, KickHeld, answerVars
<1>2. \A h \in Gid : gpc'[r][h] \in Owing <=> gpc[r][h] \in Owing
  <2>0. \A h \in Gid \ {g} : gpc'[r][h] = gpc[r][h]
    BY Moves DEF Interrupted, goVars
  <2>1. CASE Interrupted(r, g)
    BY <2>1 DEF Interrupted, goVars
  <2>2. CASE Begin(r, g) \/ Return(r, g)
    <3>1. gpc[r][g] \in {"wait", "io"}
      BY <2>2 DEF Begin, Return
    <3>2. gpc'[r][g] \in Outcome \cup {"wait", "io"}
      BY <2>2, Moves DEF Outcome
    <3>3. QED
      BY <2>0, <3>1, <3>2 DEF Owing, Outcome
  <2>3. CASE ReadFlag(r, g) \/ KickHeld(r, g)
    <3>1. gpc[r][g] \in {"arg", "kick"}
      BY <2>3 DEF ReadFlag, KickHeld
    <3>2. gpc'[r][g] \in {"kick", "none"}
      BY <2>3, Moves
    <3>3. QED
      BY <2>0, <3>1, <3>2 DEF Owing, Outcome
  <2>4. QED
    BY <2>1, <2>2, <2>3
<1>3. Unsent(r)' = Unsent(r)
  BY <1>2 DEF Unsent
<1>4. QED
  BY <1>1, <1>3 DEF AnswerOf

\* The handler receives one of the results owed, and ends the repetition with
\* the last.
LEMMA DeliverAnswer ==
    ASSUME ColInv, NEW r \in Req, NEW g \in Gid, AnswerOf(r), Deliver(r, g)
    PROVE  AnswerOf(r)'
<1> USE DEF ColInv
<1>1. /\ pc[r] = "recv" /\ gpc[r][g] \in Outcome /\ g[1] = iter[r]
      /\ req'[r] = req[r] /\ iter'[r] = iter[r] /\ got'[r] = got[r] + 1
      /\ pc'[r] = IF got[r] + 1 = req[r].tasks THEN "loop" ELSE "recv"
  BY DEF Deliver, Receive, TypeOK
<1>2. error'[r] = "" => error[r] = "" /\ data'[r] = data[r] + 1
  <2>1. error'[r] = FirstError(r, g)
    BY DEF Deliver, Receive, TypeOK
  <2>2. data'[r] = IF gpc[r][g] = "ok" THEN data[r] + 1 ELSE data[r]
    BY DEF Deliver, Receive, TypeOK
  <2>3. QED
    BY <2>1, <2>2 DEF FirstError
<1>3. g \in Unsent(r) /\ Unsent(r)' = Unsent(r) \ {g}
  <2>1. \A h \in Gid \ {g} : gpc'[r][h] = gpc[r][h]
    BY DEF Deliver, Receive, Move, TypeOK
  <2>2. gpc'[r][g] \in {"none", "arg"}
    BY DEF Deliver, Receive, Move, TypeOK
  <2>3. QED
    BY <1>1, <2>1, <2>2 DEF Unsent, Owing, Outcome
<1>4. /\ Cardinality(Unsent(r)') = Cardinality(Unsent(r)) - 1
      /\ Cardinality(Unsent(r)') \in Nat
      /\ Unsent(r)' = {} <=> Cardinality(Unsent(r)') = 0
  <2>1. IsFiniteSet(Unsent(r))
    BY UnsentFinite
  <2>2. QED
    BY <1>3, <2>1, FS_RemoveElement, FS_CardinalityType, FS_EmptySet
<1>5. /\ Cardinality(Unsent(r)) + got[r] = req[r].tasks
      /\ \A h \in Unsent(r) : h[1] = iter[r]
  BY <1>1 DEF AnswerOf
<1>6. /\ req[r].tasks \in Nat /\ iter[r] \in Nat /\ got[r] \in Nat /\ data[r] \in Nat
      /\ Cardinality(Unsent(r)) \in Nat
  <2>1. req[r].tasks \in Task /\ Cardinality(Unsent(r)) \in Nat
    BY <1>1, RequestType, UnsentFinite
  <2>2. iter[r] \in 0 .. MaxCount /\ data[r] \in Nat /\ got[r] \in Nat
    BY DEF TypeOK
  <2>3. QED
    BY <2>1, <2>2, ColAssumption DEF Task
<1>7. (iter[r] - 1) * req[r].tasks + req[r].tasks = iter[r] * req[r].tasks
  <2> DEFINE i == iter[r]
             n == req[r].tasks
  <2>1. i \in Int /\ n \in Int
    BY <1>6
  <2> HIDE DEF i, n
  <2>2. (i - 1) * n + n = i * n
    BY <2>1
  <2>3. QED
    BY <2>2 DEF i, n
<1>8. (iter[r] - 1) * req[r].tasks \in Int
  BY <1>6
<1> DEFINE m == (iter[r] - 1) * req[r].tasks
<1>9. error'[r] = "" => data'[r] = m + got'[r]
  <2>1. m \in Int
    BY <1>8
  <2>2. error[r] = "" => data[r] = m + got[r]
    BY <1>1 DEF AnswerOf
  <2>3. got'[r] = got[r] + 1 /\ got[r] \in Nat
    BY <1>1, <1>6
  <2> HIDE DEF m
  <2>4. m + got[r] + 1 = m + (got[r] + 1)
    BY <2>1, <2>3
  <2>5. QED
    BY <1>2, <2>2, <2>3, <2>4
<1>10. CASE got[r] + 1 = req[r].tasks
  <2>1. pc'[r] = "loop" /\ Unsent(r)' = {}
    <3>1. pc'[r] = "loop"
      BY <1>1, <1>10
    <3>2. Cardinality(Unsent(r)) = 1
      BY <1>5, <1>6, <1>10
    <3>3. Cardinality(Unsent(r)') = 0
      BY <1>4, <3>2
    <3>4. QED
      BY <1>4, <3>1, <3>3
  <2>2. error'[r] = "" => data'[r] = m + req[r].tasks
    BY <1>1, <1>9, <1>10
  <2>3. error'[r] = "" => data'[r] = iter[r] * req[r].tasks
    BY <1>7, <2>2
  <2>4. QED
    BY <1>1, <2>1, <2>3 DEF AnswerOf, Early
<1>11. CASE got[r] + 1 # req[r].tasks
  <2>1. pc'[r] = "recv"
    BY <1>1, <1>11
  <2>2. Cardinality(Unsent(r)') + got'[r] = req'[r].tasks
    <3>1. got'[r] = got[r] + 1 /\ req'[r] = req[r]
      BY <1>1
    <3>2. QED
      BY <1>4, <1>5, <1>6, <3>1
  <2>3. \A h \in Unsent(r)' : h[1] = iter'[r]
    BY <1>1, <1>3, <1>5
  <2>4. error'[r] = "" => data'[r] = (iter'[r] - 1) * req'[r].tasks + got'[r]
    BY <1>1, <1>9
  <2>5. QED
    BY <2>1, <2>2, <2>3, <2>4 DEF AnswerOf, Early
<1>12. QED
  BY <1>10, <1>11

\* Every step keeps what is owed and received right, for every request.
LEMMA StepKeepsAnswer ==
    ColInv /\ AnswerInv /\ [Next]_vars => AnswerInv'
<1> SUFFICES ASSUME ColInv, AnswerInv, [Next]_vars, NEW q \in Req
             PROVE  AnswerOf(q)'
  BY DEF AnswerInv
<1>0. AnswerOf(q) /\ TypeOK
  BY DEF AnswerInv, ColInv
<1>1. ASSUME NEW r \in Req, Arrive(r) \/ Handler(r)
      PROVE  AnswerOf(q)'
  <2>1. CASE q # r
    BY <1>0, <1>1, <2>1, HandlerStill, StillAnswer
  <2>2. CASE q = r
    BY <1>0, <1>1, <2>2, EarlyAnswer, SpawnAnswer, FreeAnswer DEF Handler
  <2>3. QED
    BY <2>1, <2>2
<1>2. ASSUME NEW r \in Req, NEW g \in Gid, SnmpGet(r, g)
      PROVE  AnswerOf(q)'
  <2>1. CASE q # r
    BY <1>0, <1>2, <2>1, SnmpGetStill, StillAnswer
  <2>2. CASE q = r
    BY <1>0, <1>2, <2>2, WorkAnswer, DeliverAnswer DEF SnmpGet
  <2>3. QED
    BY <2>1, <2>2
<1>3. CASE Clean \/ Time \/ Reload \/ UNCHANGED vars
  BY <1>0, <1>3, RestStill, StillAnswer
<1>4. QED
  BY <1>1, <1>2, <1>3 DEF Next

\* Results owed and received make up the segments of a repetition, always.
THEOREM AnswerInvariant == Spec => []AnswerInv
<1>1. Init => AnswerInv
  <2> SUFFICES ASSUME Init, NEW r \in Req
               PROVE  AnswerOf(r)
    BY DEF AnswerInv
  <2>1. pc[r] = "new" /\ \A g \in Gid : gpc[r][g] = "none"
    BY DEF Init
  <2>2. Unsent(r) = {}
    BY <2>1 DEF Unsent, Owing, Outcome
  <2>3. QED
    BY <2>1, <2>2 DEF AnswerOf, Early
<1>2. ColInv /\ AnswerInv /\ [Next]_vars => AnswerInv'
  BY StepKeepsAnswer
<1>3. QED
  BY <1>1, <1>2, ColInvariant, PTL DEF Spec

\* An answer of SnmpCol without an error holds the varbinds of every segment
\* of every repetition.
THEOREM CleanAnswersAreComplete == Spec => []CleanAnswerIsComplete
<1>1. AnswerInv => CleanAnswerIsComplete
  BY DEF AnswerInv, AnswerOf, CleanAnswerIsComplete
<1>2. QED
  BY <1>1, AnswerInvariant, PTL

\* A handler that has not panicked leaves no goroutine of SnmpGet waiting for
\* its turn or for a receiver.
THEOREM NobodyIsStranded == Spec => []NoneStranded
<1>1. AnswerInv => NoneStranded
  <2> SUFFICES ASSUME AnswerInv, NEW r \in Req, pc[r] = "done", error[r] # "500",
                      NEW g \in Gid
               PROVE  gpc[r][g] \notin Owing
    BY DEF NoneStranded, Owing
  <2>1. Unsent(r) = {}
    BY DEF AnswerInv, AnswerOf
  <2>2. QED
    BY <2>1 DEF Unsent
<1>2. QED
  BY <1>1, AnswerInvariant, PTL

-----------------------------------------------------------------------------
(* Disturbances.                                                           *)

\* An address with a request in flight was at rest before the step if it is
\* after it.
LEMMA RestBefore ==
    ASSUME NEW ips, Disturb(ips), NEW r \in Req, InFlight(r)', req'[r] # Nil,
           req'[r].ip \in IP, req'[r].ip \notin tainted'
    PROVE  req'[r].ip \notin tainted /\ req'[r].ip \notin ips
BY DEF Disturb, Busy

\* The addresses that a step disturbs.
LEMMA StepDisturbs ==
    ASSUME [Next]_vars, ~(UNCHANGED vars)
    PROVE  \E ips : Disturb(ips)
<1>1. ASSUME NEW r \in Req, Arrive(r) \/ Handler(r)
      PROVE  \E ips : Disturb(ips)
  BY <1>1 DEF Handler, Arrive, CheckLimit, Lookup, Create, SaveNew, Spawn, FreeHeld
<1>2. ASSUME NEW r \in Req, NEW g \in Gid, SnmpGet(r, g)
      PROVE  \E ips : Disturb(ips)
  BY <1>2 DEF SnmpGet, Begin, Return, Interrupted, Deliver, Receive, ReadFlag, KickHeld,
              Finish
<1>3. CASE Clean \/ Time \/ Reload
  BY <1>3 DEF Clean, Time, Reload
<1>4. QED
  BY <1>1, <1>2, <1>3 DEF Next

\* A request in flight at an address at rest was there at rest before.
LEMMA StepRest ==
    ASSUME [Next]_vars, NEW r \in Req, InFlight(r)', req'[r] # Nil, req'[r].ip \in IP,
           req'[r].ip \notin tainted'
    PROVE  req'[r].ip \notin tainted
<1>1. CASE UNCHANGED vars
  BY <1>1 DEF vars, colVars
<1>2. CASE ~(UNCHANGED vars)
  BY <1>2, StepDisturbs, RestBefore
<1>3. QED
  BY <1>1, <1>2

-----------------------------------------------------------------------------
(* Indexes and turns.                                                      *)

\* The points of a handler that has no client yet, or none any more.
LEMMA NotUsing ==
    ASSUME TypeOK, NEW r \in Req
    PROVE  pc[r] \in Using <=> pc[r] \notin Early \cup {"new", "save", "done"}
BY DEF TypeOK, PC, Using, Early

\* Every step keeps indexes with handlers at work.
LEMMA StepKeepsFlags ==
    ASSUME ColInv, Flags, [Next]_vars
    PROVE  Flags'
<1> SUFFICES ASSUME NEW q \in Req
             PROVE  FlagsOf(q)'
  BY DEF Flags, FlagsOf
<1> USE DEF ColInv
<1>0. FlagsOf(q) /\ slotc[q] \in Slot \cup {-1}
  BY DEF Flags, FlagsOf, TypeOK
<1>1. CASE Still(q)
  BY <1>0, <1>1 DEF Still, FlagsOf
<1>2. ASSUME Arrive(q) \/ Handler(q)
      PROVE  FlagsOf(q)'
  <2>1. CASE Arrive(q)
    <3>1. slotc' = slotc /\ pc[q] \notin Using
      BY <2>1 DEF Arrive, Using
    <3>2. pc'[q] \in {"limit", "done"}
      BY <2>1 DEF Arrive, TypeOK
    <3>3. QED
      BY <1>0, <3>1, <3>2 DEF FlagsOf, Using
  <2>2. ASSUME NEW s, NEW i \in Slot \cup {-1}, Hold(q, s, i)
        PROVE  FlagsOf(q)'
    <3>1. pc'[q] = "loop" /\ slotc'[q] = i /\ cacheflag'[q] = i
      BY <2>2 DEF Hold, Goto, TypeOK
    <3>2. QED
      BY <3>1 DEF FlagsOf, Using
  <2>3. ASSUME UNCHANGED <<slotc, cacheflag>>, pc[q] \notin Using, pc'[q] \notin Using
        PROVE  FlagsOf(q)'
    BY <1>0, <2>3 DEF FlagsOf
  <2>4. CASE CheckLimit(q)
    <3>1. pc[q] = "limit" /\ pc'[q] \in {"done", "lookup"} /\ UNCHANGED <<slotc, cacheflag>>
      BY <2>4 DEF CheckLimit, Fail, Goto, TypeOK, holdVars
    <3>2. QED
      BY <2>3, <3>1 DEF Using
  <2>5. CASE Lookup(q)
    <3>1. CASE Goto(q, "create") /\ UNCHANGED holdVars
      <4>1. pc[q] = "lookup" /\ pc'[q] = "create"
        BY <2>5, <3>1 DEF Lookup, Goto, TypeOK
      <4>2. QED
        BY <2>3, <3>1, <4>1 DEF Using, holdVars
    <3>2. QED
      BY <2>2, <2>5, <3>1 DEF Lookup
  <2>6. CASE Create(q)
    <3>1. pc[q] = "create"
      BY <2>6 DEF Create
    <3>2. CASE Fail(q, "err") /\ UNCHANGED holdVars
      BY <2>3, <3>1, <3>2 DEF Fail, TypeOK, Using, holdVars
    <3>3. CASE Goto(q, "save") /\ UNCHANGED <<slotc, cacheflag>>
      BY <2>3, <3>1, <3>3 DEF Goto, TypeOK, Using
    <3>4. QED
      BY <2>2, <2>6, <3>2, <3>3 DEF Create
  <2>7. CASE SaveNew(q)
    <3>1. CASE (Fail(q, "err") /\ UNCHANGED holdVars) \/ UNCHANGED <<pc, holdVars>>
      BY <2>3, <2>7, <3>1 DEF SaveNew, Fail, TypeOK, Using, holdVars
    <3>2. QED
      BY <2>2, <2>7, <3>1 DEF SaveNew
  <2>8. CASE Spawn(q)
    <3>1. pc[q] \in Using /\ pc'[q] \in Using /\ UNCHANGED <<slotc, cacheflag>>
      BY <2>8 DEF Spawn, Goto, TypeOK, holdVars, Using
    <3>2. QED
      BY <1>0, <3>1 DEF FlagsOf
  <2>9. CASE FreeHeld(q)
    <3>1. pc'[q] = "done" /\ slotc'[q] = -1
      BY <2>9 DEF FreeHeld, Fail, Goto, TypeOK
    <3>2. QED
      BY <3>1 DEF FlagsOf, Using
  <2>10. QED
    BY <1>2, <2>1, <2>4, <2>5, <2>6, <2>7, <2>8, <2>9 DEF Handler
<1>3. ASSUME NEW g \in Gid, SnmpGet(q, g)
      PROVE  FlagsOf(q)'
  <2>1. slotc' = slotc
    BY <1>3 DEF SnmpGet, Begin, Return, Interrupted, Deliver, Receive, ReadFlag, KickHeld,
                holdVars
  <2>2. cacheflag'[q] \in {cacheflag[q], -1}
    BY <1>3 DEF SnmpGet, Begin, Return, Interrupted, Deliver, Receive, ReadFlag, KickHeld,
                holdVars, TypeOK
  <2>3. pc'[q] = pc[q] \/ (pc[q] \in Using /\ pc'[q] \in Using)
    <3>1. CASE Deliver(q, g)
      BY <3>1 DEF Deliver, Receive, TypeOK, Using
    <3>2. QED
      BY <1>3, <3>1 DEF SnmpGet, Begin, Return, Interrupted, ReadFlag, KickHeld
  <2>4. QED
    BY <1>0, <2>1, <2>2, <2>3 DEF FlagsOf
<1>4. QED
  BY <1>1, <1>2, <1>3, HandlerStill, SnmpGetStill, RestStill DEF Next

\* A handler takes no turn.
LEMMA HandlerTurns ==
    ASSUME ColInv, NEW r \in Req, TurnsOf(r), Arrive(r) \/ Handler(r)
    PROVE  TurnsOf(r)'
<1> USE DEF ColInv
<1>1. async_c' = async_c
  BY DEF Handler, Arrive, CheckLimit, Lookup, Create, SaveNew, Spawn, FreeHeld, goVars
<1>2. \A g \in Gid : gpc'[r][g] = gpc[r][g] \/ gpc'[r][g] = "wait"
  <2>1. CASE Spawn(r)
    BY <2>1 DEF Spawn, TypeOK
  <2>2. QED
    BY <2>1 DEF Handler, Arrive, CheckLimit, Lookup, Create, SaveNew, FreeHeld, goVars
<1>3. QED
  BY <1>1, <1>2 DEF TurnsOf, Taking, Outcome

\* A goroutine takes the turn when nobody has it and gives it back when it
\* returns.
LEMMA SnmpGetTurns ==
    ASSUME ColInv, NEW r \in Req, NEW g \in Gid, TurnsOf(r), SnmpGet(r, g)
    PROVE  TurnsOf(r)'
<1> USE DEF ColInv
<1>0. g[1] \in Iter /\ \A h \in Gid : h[1] \in Iter
  BY DEF Gid
<1>1. CASE Begin(r, g)
  <2>1. ~async_c[r][g[1]]
    BY <1>1 DEF Begin
  <2>2. \A h \in Gid : h[1] = g[1] => gpc[r][h] \notin Taking
    BY <2>1 DEF TurnsOf
  <2>3. /\ async_c'[r][g[1]]
        /\ \A i \in Iter \ {g[1]} : async_c'[r][i] = async_c[r][i]
    BY <1>0, <1>1 DEF Begin, TypeOK
  <2>4. \A h \in Gid \ {g} : gpc'[r][h] = gpc[r][h]
    BY <1>1, Moves
  <2>5. QED
    BY <1>0, <2>2, <2>3, <2>4 DEF TurnsOf
<1>2. CASE Return(r, g) \/ ReadFlag(r, g) \/ Interrupted(r, g)
  <2>1. async_c' = async_c
    BY <1>2 DEF Return, ReadFlag, Interrupted, goVars
  <2>2. gpc[r][g] \in Taking
    BY <1>2 DEF Return, ReadFlag, Interrupted, Taking
  <2>3. \A h \in Gid \ {g} : gpc'[r][h] = gpc[r][h]
    BY <1>2, Moves DEF Interrupted, goVars
  <2>4. QED
    BY <2>1, <2>2, <2>3 DEF TurnsOf
<1>3. CASE Deliver(r, g) \/ KickHeld(r, g)
  <2>1. gpc[r][g] \in Taking
    BY <1>3 DEF Deliver, Receive, KickHeld, Taking
  <2>2. /\ \A h \in Gid \ {g} : gpc'[r][h] = gpc[r][h]
        /\ gpc'[r][g] = "none" \/ (gpc'[r][g] = "arg" /\ Deliver(r, g) /\ gpc[r][g] = "ioerr")
    BY <1>3, Moves
  <2>3. \/ gpc'[r][g] = "arg" /\ async_c' = [async_c EXCEPT ![r][g[1]] = TRUE]
        \/ gpc'[r][g] = "none" /\ async_c' = [async_c EXCEPT ![r][g[1]] = FALSE]
    <3>1. CASE Deliver(r, g) /\ gpc[r][g] = "ioerr"
      <4>1. (gpc[r][g] = "ioerr") = TRUE
        BY <3>1
      <4>2. async_c' = [async_c EXCEPT ![r][g[1]] = (gpc[r][g] = "ioerr")]
        BY <3>1 DEF Deliver, Receive
      <4>3. QED
        BY <3>1, <4>1, <4>2, Moves
    <3>2. CASE Deliver(r, g) /\ gpc[r][g] # "ioerr"
      <4>1. (gpc[r][g] = "ioerr") = FALSE
        BY <3>2
      <4>2. async_c' = [async_c EXCEPT ![r][g[1]] = (gpc[r][g] = "ioerr")]
        BY <3>2 DEF Deliver, Receive
      <4>3. QED
        BY <3>2, <4>1, <4>2, Moves
    <3>3. CASE KickHeld(r, g)
      BY <3>3, Moves DEF KickHeld
    <3>4. QED
      BY <1>3, <3>1, <3>2, <3>3
  <2>4. /\ gpc'[r][g] # "none" => async_c'[r][g[1]]
        /\ \A i \in Iter \ {g[1]} : async_c'[r][i] = async_c[r][i]
    <3>0. async_c \in [Req -> [Iter -> BOOLEAN]]
      BY DEF TypeOK
    <3>1. CASE gpc'[r][g] = "arg" /\ async_c' = [async_c EXCEPT ![r][g[1]] = TRUE]
      BY <1>0, <3>0, <3>1
    <3>2. CASE gpc'[r][g] = "none" /\ async_c' = [async_c EXCEPT ![r][g[1]] = FALSE]
      BY <1>0, <3>0, <3>2
    <3>3. QED
      BY <2>3, <3>1, <3>2
  <2>5. \A h \in Gid \ {g} : h[1] = g[1] => gpc[r][h] \notin Taking
    BY <2>1 DEF TurnsOf
  <2>6. "none" \notin Taking
    BY DEF Taking, Outcome
  <2>7. QED
    <3>1. gpc'[r][g] \in Taking => async_c'[r][g[1]]
      BY <2>4, <2>6
    <3>2. QED
      BY <1>0, <2>2, <2>4, <2>5, <3>1 DEF TurnsOf
<1>4. QED
  BY <1>1, <1>2, <1>3 DEF SnmpGet

\* Every step keeps the turns.
LEMMA StepKeepsTurns ==
    ASSUME ColInv, Turns, [Next]_vars
    PROVE  Turns'
<1> SUFFICES ASSUME NEW q \in Req
             PROVE  TurnsOf(q)'
  BY DEF Turns, TurnsOf
<1>0. TurnsOf(q) /\ TypeOK
  BY DEF Turns, TurnsOf, ColInv
<1>1. CASE Still(q)
  BY <1>0, <1>1 DEF Still, TurnsOf
<1>2. QED
  BY <1>0, <1>1, HandlerTurns, SnmpGetTurns, HandlerStill, SnmpGetStill, RestStill DEF Next

-----------------------------------------------------------------------------
(* What the pool's actions leave alone.                                    *)

\* The place holds the session it held, and its mark.
Untouched(p) == /\ p \in Filled'
                /\ At(p)'.Sess = At(p).Sess /\ At(p)'.Idle = At(p).Idle

\* A step that leaves Sessions alone touches no place.
LEMMA SameUntouched ==
    ASSUME UNCHANGED Sessions, NEW p \in Filled
    PROVE  Untouched(p)
BY DEF Untouched, Filled, At

\* GetCacheSess takes an idle session and marks it; it touches no busy one.
LEMMA TakeTouches ==
    ASSUME PoolTypeOK, NEW ip \in IP, NEW i \in Slot, GetCacheSess(ip, i)
    PROVE  /\ <<ip, i>> \in Filled /\ At(<<ip, i>>).Idle
           /\ <<ip, i>> \in Filled' /\ At(<<ip, i>>)'.Sess = Sessions[ip][i].Sess
           /\ ~At(<<ip, i>>)'.Idle
           /\ \A p \in Filled : ~At(p).Idle => Untouched(p)
<1> DEFINE s == Sessions[ip][i]
           new == MkSession(s.Sess, FALSE, 0)
<1>1. /\ s # Nil /\ s.Idle /\ Sessions' = [Sessions EXCEPT ![ip][i] = new]
  BY DEF GetCacheSess, First, IdleSlots
<1>2. new.Sess = s.Sess /\ new.Idle = FALSE /\ new # Nil
  <2>1. s \in Session
    BY <1>1 DEF PoolTypeOK, Row
  <2>2. s.Sess \in SNMP /\ FALSE \in BOOLEAN /\ 0 \in 0 .. Maxlifetime + 1
    BY <2>1, PoolAssumption DEF Session
  <2>3. new \in Session
    BY <2>2, MkSessionType
  <2>4. QED
    BY <2>3, NilAssumption DEF MkSession
<1> HIDE DEF new
<1>3. Sessions'[ip][i] = new
  BY <1>1 DEF PoolTypeOK, Row
<1>4. \A p \in Place : p # <<ip, i>> => At(p)' = At(p)
  BY <1>1 DEF PoolTypeOK, Row, At, Place
<1>5. <<ip, i>> \in Filled /\ At(<<ip, i>>).Idle
  BY <1>1 DEF Filled, Place, At
<1>6. /\ <<ip, i>> \in Filled' /\ At(<<ip, i>>)'.Sess = s.Sess
      /\ ~At(<<ip, i>>)'.Idle
  BY <1>2, <1>3 DEF Filled, Place, At
<1>7. ASSUME NEW p \in Filled, ~At(p).Idle
      PROVE  Untouched(p)
  <2>1. p # <<ip, i>> /\ p \in Place /\ At(p) # Nil
    BY <1>5, <1>7 DEF Filled
  <2>2. At(p)' = At(p)
    BY <1>4, <2>1
  <2>3. QED
    BY <2>1, <2>2 DEF Untouched, Filled
<1>8. QED
  BY <1>5, <1>6, <1>7

\* Free touches its own slot only.
LEMMA FreeTouches ==
    ASSUME PoolTypeOK, NEW ip \in IP, NEW i \in Slot, Free(ip, i),
           NEW p \in Filled, p # <<ip, i>>
    PROVE  Untouched(p)
<1>1. p \in Place /\ At(p) # Nil
  BY DEF Filled
<1>2. At(p)' = At(p)
  <2> DEFINE new == MkSession(Sessions[ip][i].Sess, TRUE, 0)
  <2>1. \/ Sessions' = Sessions
        \/ Sessions' = [Sessions EXCEPT ![ip][i] = new]
    BY DEF Free
  <2> HIDE DEF new
  <2>2. p[1] \in IP /\ p[2] \in Slot /\ (p[1] # ip \/ p[2] # i)
    BY <1>1 DEF Place
  <2>3. QED
    BY <2>1, <2>2 DEF PoolTypeOK, Row, At
<1>3. QED
  BY <1>1, <1>2 DEF Untouched, Filled

\* Kick touches the row of its address only.
LEMMA KickTouches ==
    ASSUME PoolTypeOK, NEW ip \in IP, NEW i \in Slot, Kick(ip, i),
           NEW p \in Filled, p[1] # ip
    PROVE  Untouched(p)
<1>1. p \in Place /\ At(p) # Nil
  BY DEF Filled
<1>2. At(p)' = At(p)
  BY <1>1 DEF Kick, Evict, PoolTypeOK, Row, At, Place
<1>3. QED
  BY <1>1, <1>2 DEF Untouched, Filled

\* Save puts its client in a slot of its own; unless it replaces a full row it
\* touches no other.
LEMMA SaveTouches ==
    ASSUME PoolTypeOK, OneSlotPerSession, NEW ip \in IP, NEW s \in SNMP, NEW i \in Slot,
           OpenAndSave(ip, s, i)
    PROVE  /\ <<ip, i>> \in Filled' /\ At(<<ip, i>>)'.Sess = s /\ ~At(<<ip, i>>)'.Idle
           /\ \A p \in Filled : ~Overflow(ip) \/ p[1] # ip => p # <<ip, i>> /\ Untouched(p)
<1> DEFINE new == MkSession(s, FALSE, 0)
<1>1. \/ /\ i \in NilSlots(ip)
         /\ Sessions' = [Sessions EXCEPT ![ip][i] = new]
      \/ /\ NilSlots(ip) = {} /\ i = 0
         /\ Sessions' = [Sessions EXCEPT
                ![ip] = [j \in Slot |-> IF j = 0 THEN new ELSE Nil]]
  BY DEF OpenAndSave, Save, First
<1>2. new.Sess = s /\ new.Idle = FALSE /\ new # Nil
  <2>1. FALSE \in BOOLEAN /\ 0 \in 0 .. Maxlifetime + 1
    BY PoolAssumption
  <2>2. new \in Session
    BY <2>1, MkSessionType
  <2>3. QED
    BY <2>2, NilAssumption DEF MkSession
<1> HIDE DEF new
<1>3. Sessions'[ip][i] = new
  BY <1>1 DEF PoolTypeOK, Row
<1>4. <<ip, i>> \in Filled' /\ At(<<ip, i>>)'.Sess = s /\ ~At(<<ip, i>>)'.Idle
  BY <1>2, <1>3 DEF Filled, Place, At
<1>5. ASSUME NEW p \in Filled, ~Overflow(ip) \/ p[1] # ip
      PROVE  p # <<ip, i>> /\ Untouched(p)
  <2>1. p \in Place /\ At(p) # Nil /\ p[1] \in keys
    BY DEF Filled, OneSlotPerSession
  <2>2. CASE p[1] # ip
    <3>1. At(p)' = At(p)
      BY <1>1, <2>1, <2>2 DEF PoolTypeOK, Row, At, Place
    <3>2. QED
      BY <2>1, <2>2, <3>1 DEF Untouched, Filled
  <2>3. CASE p[1] = ip
    <3>1. NilSlots(ip) # {}
      BY <1>5, <2>1, <2>3 DEF Overflow
    <3>2. i \in NilSlots(ip) /\ Sessions' = [Sessions EXCEPT ![ip][i] = new]
      BY <1>1, <3>1
    <3>3. p # <<ip, i>>
      BY <2>1, <3>2 DEF NilSlots, At
    <3>4. At(p)' = At(p)
      BY <2>1, <3>2, <3>3 DEF PoolTypeOK, Row, At, Place
    <3>5. QED
      BY <2>1, <3>3, <3>4 DEF Untouched, Filled
  <2>4. QED
    BY <2>2, <2>3
<1>6. QED
  BY <1>4, <1>5

\* Time touches no place: sessions only grow older.
LEMMA TickTouches ==
    ASSUME PoolTypeOK, Tick, NEW p \in Filled
    PROVE  Untouched(p)
<1>1. p \in Place /\ p[1] \in IP /\ p[2] \in Slot /\ At(p) # Nil
  BY DEF Filled, Place
<1>2. At(p)' = Older(At(p)) /\ At(p) \in Session
  BY <1>1 DEF Tick, At, PoolTypeOK, Row
<1>3. CASE Expired(At(p))
  BY <1>1, <1>2, <1>3 DEF Older, Untouched, Filled
<1>4. CASE ~Expired(At(p))
  <2> DEFINE new == MkSession(At(p).Sess, At(p).Idle, At(p).Age + 1)
  <2>1. At(p)' = new
    BY <1>1, <1>2, <1>4 DEF Older
  <2>2. new.Sess = At(p).Sess /\ new.Idle = At(p).Idle
    BY DEF MkSession
  <2>3. new \in Session
    <3>1. At(p).Sess \in SNMP /\ At(p).Idle \in BOOLEAN /\ At(p).Age \in 0 .. Maxlifetime + 1
      BY <1>2 DEF Session
    <3>2. At(p).Age + 1 \in 0 .. Maxlifetime + 1
      BY <1>4, <3>1, PoolAssumption DEF Expired
    <3>3. QED
      BY <3>1, <3>2, MkSessionType
  <2> HIDE DEF new
  <2>4. QED
    BY <1>1, <2>1, <2>2, <2>3, NilAssumption DEF Untouched, Filled
<1>5. QED
  BY <1>3, <1>4

\* The cleaner touches a busy session only to remove it.
LEMMA CleanerTouches ==
    ASSUME PoolTypeOK, Cleaner, NEW p \in Filled, ~At(p).Idle, At(p)' # Nil
    PROVE  Untouched(p)
<1>1. p \in Place /\ At(p) # Nil
  BY DEF Filled
<1>2. ASSUME NEW q \in Place, Evict(q[1], q[2])
      PROVE  Untouched(p)
  <2>1. At(p)' = At(p)
    BY <1>1, <1>2 DEF Evict, PoolTypeOK, Row, At, Place
  <2>2. QED
    BY <1>1, <2>1 DEF Untouched, Filled
<1>3. CASE UNCHANGED Sessions
  BY <1>3, SameUntouched
<1>4. ASSUME NEW ok \in BOOLEAN, CleanerProbed(ok)
      PROVE  Untouched(p)
  BY <1>2, <1>3, <1>4 DEF CleanerProbed, PoolTypeOK
<1>5. QED
  BY <1>2, <1>3, <1>4 DEF Cleaner, CleanerLock, CleanerExpire, CleanerSkip, CleanerProbe,
                          CleanerUnlock

-----------------------------------------------------------------------------
(* Slots and their holders.                                                *)

SameHeld(q) == req'[q] = req[q] /\ slotc'[q] = slotc[q] /\ snmpsess'[q] = snmpsess[q]

\* q holds a slot of an address that is at rest and outside ips.
Resting(q, ips) == slotc[q] >= 0 /\ req[q].ip \notin tainted \cup ips

\* A step that disturbs ips: whoever comes to hold a slot gets one that nobody
\* else holds, and the slots of the others are not touched.
HeldStep(ips) ==
    /\ \A q \in Req :
          \/ SameHeld(q)
          \/ slotc'[q] < 0
          \/ /\ MineOf(q)'
             /\ \A p \in Req \ {q} : /\ SameHeld(p)
                                     /\ Resting(p, ips) => Held(p) # Held(q)'
    /\ \A q \in Req, p \in Filled :
          SameHeld(q) /\ Resting(q, ips) /\ p = Held(q) => Untouched(p)

\* Such a step keeps every holder's slot its own.
LEMMA HeldStepKeeps ==
    ASSUME ColInv', Flags', Mine, Apart, NEW ips, Disturb(ips), HeldStep(ips)
    PROVE  Mine' /\ Apart'
<1>0. \A q \in Req : slotc'[q] >= 0 => ~(slotc'[q] < 0)
  <2>1. \A q \in Req : slotc'[q] \in Slot \cup {-1}
    BY DEF ColInv, TypeOK
  <2>2. \A i \in Slot \cup {-1} : i \in Int
    BY DEF Slot
  <2>3. \A i \in Int : i >= 0 => ~(i < 0)
    OBVIOUS
  <2>4. QED
    BY <2>1, <2>2, <2>3
<1>1. ASSUME NEW q \in Req, slotc'[q] >= 0, req'[q].ip \notin tainted'
      PROVE  req'[q].ip \notin tainted /\ req'[q].ip \notin ips
  <2>1. pc'[q] \in Using
    BY <1>1 DEF Flags, FlagsOf
  <2>2. InFlight(q)' /\ pc'[q] # "new"
    BY <2>1 DEF InFlight, Using
  <2>3. req'[q] # Nil /\ req'[q].ip \in IP
    BY <2>2 DEF ColInv, TypeOK, Request
  <2>4. QED
    BY <1>1, <2>2, <2>3, RestBefore
<1>2. ASSUME NEW q \in Req, slotc'[q] >= 0, req'[q].ip \notin tainted'
      PROVE  MineOf(q)'
  <2>1. CASE SameHeld(q)
    <3>1. Resting(q, ips)
      BY <1>1, <1>2, <2>1 DEF Resting, SameHeld
    <3>2. Held(q) \in Filled /\ At(Held(q)).Sess = snmpsess[q] /\ ~At(Held(q)).Idle
      BY <3>1 DEF Resting, Mine, MineOf
    <3>3. PICK p \in Filled : p = Held(q)
      BY <3>2
    <3>4. Untouched(p)
      BY <2>1, <3>1, <3>3 DEF HeldStep
    <3>5. p = Held(q)'
      BY <2>1, <3>3 DEF SameHeld, Held
    <3>6. At(p).Sess = snmpsess[q] /\ ~At(p).Idle
      BY <3>2, <3>3
    <3>7. p \in Filled' /\ At(p)'.Sess = snmpsess'[q] /\ ~At(p)'.Idle
      <4>1. p \in Filled' /\ At(p)'.Sess = At(p).Sess /\ At(p)'.Idle = At(p).Idle
        BY <3>4 DEF Untouched
      <4>2. QED
        BY <2>1, <3>6, <4>1 DEF SameHeld
    <3>8. QED
      BY <3>5, <3>7 DEF MineOf, At
  <2>2. QED
    BY <1>0, <1>2, <2>1 DEF HeldStep
<1>3. ASSUME NEW q \in Req, NEW r \in Req \ {q}, slotc'[q] >= 0, slotc'[r] >= 0,
             req'[q].ip \notin tainted', req'[r].ip \notin tainted', ~SameHeld(q)
      PROVE  Held(q)' # Held(r)'
  <2>1. SameHeld(r) /\ (Resting(r, ips) => Held(r) # Held(q)')
    <3>1. ~(slotc'[q] < 0)
      BY <1>0, <1>3
    <3>2. QED
      BY <1>3, <3>1 DEF HeldStep
  <2>2. Resting(r, ips) /\ Held(r)' = Held(r)
    BY <1>1, <1>3, <2>1 DEF SameHeld, Resting, Held
  <2>3. QED
    BY <2>1, <2>2
<1>4. ASSUME NEW q \in Req, NEW r \in Req, q # r, slotc'[q] >= 0, slotc'[r] >= 0,
             req'[q].ip \notin tainted'
      PROVE  Held(q)' # Held(r)'
  <2>1. CASE req'[r].ip # req'[q].ip
    BY <2>1 DEF Held
  <2>2. CASE req'[r].ip = req'[q].ip /\ ~(SameHeld(q) /\ SameHeld(r))
    BY <1>3, <1>4, <2>2
  <2>3. CASE SameHeld(q) /\ SameHeld(r)
    BY <1>1, <1>4, <2>3 DEF SameHeld, Apart, Held
  <2>4. QED
    BY <2>1, <2>2, <2>3
<1>5. Mine'
  BY <1>2 DEF Mine, MineOf
<1>6. Apart'
  BY <1>4 DEF Apart
<1>7. QED
  BY <1>5, <1>6

\* A step that does not touch the slots and takes none.
LEMMA QuietHeldStep ==
    ASSUME UNCHANGED Sessions, \A q \in Req : SameHeld(q) \/ slotc'[q] < 0
    PROVE  \A ips : HeldStep(ips)
BY SameUntouched DEF HeldStep

\* Every step of a handler, with the addresses it disturbs.
LEMMA HandlerHeldStep ==
    ASSUME ColInv, Mine, Apart, Flags, Flags', NEW r \in Req, Arrive(r) \/ Handler(r)
    PROVE  \E ips : Disturb(ips) /\ HeldStep(ips)
<1> USE DEF ColInv
<1>0. /\ PoolTypeOK /\ \A q \in Req \ {r} : SameHeld(q)
      /\ slotc[r] \in Slot \cup {-1}
  BY HandlerStill DEF TypeOK, Still, SameHeld
<1>1. ASSUME UNCHANGED Sessions, SameHeld(r) \/ slotc'[r] < 0
      PROVE  \A ips : HeldStep(ips)
  BY <1>0, <1>1, QuietHeldStep
<1>2. ASSUME UNCHANGED slotc, pc[r] \notin Using
      PROVE  slotc'[r] < 0
  BY <1>0, <1>2 DEF Flags, FlagsOf, Slot
<1>3. CASE Arrive(r)
  BY <1>1, <1>2, <1>3 DEF Arrive, Using, poolVars
<1>4. CASE CheckLimit(r)
  BY <1>1, <1>2, <1>4 DEF CheckLimit, Using, holdVars, poolVars
<1>5. CASE Lookup(r)
  <2>0. Disturb({}) /\ req' = req /\ pc[r] = "lookup" /\ req[r].ip \in IP
    BY <1>5, RequestType DEF Lookup
  <2>1. CASE UNCHANGED <<poolVars, holdVars>>
    BY <1>1, <1>2, <2>0, <2>1 DEF Using, holdVars, poolVars
  <2>2. ASSUME NEW i \in Slot, GetCacheSess(req[r].ip, i),
               Hold(r, Sessions[req[r].ip][i].Sess, i)
        PROVE  HeldStep({})
    <3> DEFINE ip == req[r].ip
    <3>1. PICK x \in Place : x = <<ip, i>>
      BY <2>0 DEF Place
    <3>2. /\ x \in Filled /\ At(x).Idle
          /\ x \in Filled' /\ At(x)'.Sess = Sessions[ip][i].Sess /\ ~At(x)'.Idle
          /\ \A p \in Filled : ~At(p).Idle => Untouched(p)
      BY <1>0, <2>0, <2>2, <3>1, TakeTouches
    <3>3. /\ slotc'[r] = i /\ snmpsess'[r] = Sessions[ip][i].Sess /\ req'[r] = req[r]
      BY <2>0, <2>2 DEF Hold, TypeOK
    <3>4. x = Held(r)'
      BY <3>1, <3>3 DEF Held
    <3>5. MineOf(r)'
      BY <3>2, <3>3, <3>4 DEF MineOf, At
    <3>6. \A q \in Req : Resting(q, {}) => Held(q) \in Filled /\ ~At(Held(q)).Idle
      BY DEF Resting, Mine, MineOf
    <3>7. \A q \in Req : Resting(q, {}) => Held(q) # x
      BY <3>2, <3>6
    <3>8. \A q \in Req, p \in Filled : Resting(q, {}) /\ p = Held(q) => Untouched(p)
      BY <3>2, <3>6
    <3>9. QED
      BY <1>0, <3>4, <3>5, <3>7, <3>8 DEF HeldStep
  <2>3. QED
    BY <1>5, <2>0, <2>1, <2>2 DEF Lookup
<1>6. CASE Create(r)
  <2>0. UNCHANGED Sessions /\ Disturb({}) /\ pc[r] \notin Using
    BY <1>6 DEF Create, NewSNMP, poolVars, Using
  <2>1. UNCHANGED slotc \/ slotc'[r] = -1
    BY <1>6 DEF Create, holdVars, Hold, TypeOK
  <2>2. QED
    BY <1>1, <1>2, <2>0, <2>1
<1>7. CASE SaveNew(r)
  <2>0. req' = req /\ pc[r] = "save" /\ req[r].ip \in IP /\ snmpsess[r] \in SNMP
    BY <1>7, RequestType DEF SaveNew, Ownership, Holds
  <2>1. CASE UNCHANGED <<Sessions, holdVars>> /\ Disturb({})
    BY <1>1, <1>2, <2>0, <2>1 DEF Using, holdVars
  <2>2. ASSUME NEW i \in Slot, OpenAndSave(req[r].ip, snmpsess[r], i),
               Hold(r, snmpsess[r], i)
        PROVE  HeldStep(IF Overflow(req[r].ip) THEN {req[r].ip} ELSE {})
    <3> DEFINE ip == req[r].ip
               ips == IF Overflow(ip) THEN {ip} ELSE {}
    <3>1. PICK x \in Place : x = <<ip, i>>
      BY <2>0 DEF Place
    <3>2. /\ x \in Filled' /\ At(x)'.Sess = snmpsess[r] /\ ~At(x)'.Idle
          /\ \A p \in Filled : ~Overflow(ip) \/ p[1] # ip => p # x /\ Untouched(p)
      BY <1>0, <2>0, <2>2, <3>1, SaveTouches DEF PoolInv
    <3>3. /\ slotc'[r] = i /\ snmpsess'[r] = snmpsess[r] /\ req'[r] = req[r]
      BY <2>0, <2>2 DEF Hold, TypeOK
    <3>4. x = Held(r)'
      BY <3>1, <3>3 DEF Held
    <3>5. MineOf(r)'
      BY <3>2, <3>3, <3>4 DEF MineOf, At
    <3>6. \A q \in Req : Resting(q, ips) => Held(q) \in Filled
      BY DEF Resting, Mine, MineOf
    <3>7. \A q \in Req, p \in Filled :
             Resting(q, ips) /\ p = Held(q) => ~Overflow(ip) \/ p[1] # ip
      BY DEF Resting, Held
    <3> HIDE DEF ips, ip
    <3>8. \A q \in Req, p \in Filled :
             Resting(q, ips) /\ p = Held(q) => p # x /\ Untouched(p)
      BY <3>2, <3>7
    <3>9. HeldStep(ips)
      BY <1>0, <3>4, <3>5, <3>6, <3>8 DEF HeldStep
    <3>10. QED
      BY <3>9 DEF ips, ip
  <2>3. QED
    BY <1>7, <2>1, <2>2 DEF SaveNew, Crash, poolVars
<1>8. CASE Spawn(r)
  <2>1. UNCHANGED Sessions /\ SameHeld(r)
    BY <1>8 DEF Spawn, poolVars, holdVars, SameHeld
  <2>2. \E ips : Disturb(ips)
    BY <1>8 DEF Spawn
  <2>3. QED
    BY <1>1, <2>1, <2>2
<1>9. CASE FreeHeld(r)
  <2>0. Disturb({}) /\ slotc'[r] = -1 /\ req[r].ip \in IP
    BY <1>9, RequestType DEF FreeHeld, TypeOK
  <2>1. CASE UNCHANGED poolVars
    BY <1>1, <2>0, <2>1 DEF poolVars
  <2>2. CASE slotc[r] \in Slot /\ Free(req[r].ip, slotc[r])
    <3>1. slotc[r] >= 0
      BY <2>2 DEF Slot
    <3>2. \A q \in Req \ {r} : Resting(q, {}) => Held(q) # Held(r)
      BY <3>1 DEF Resting, Apart
    <3>3. \A p \in Filled : p # <<req[r].ip, slotc[r]>> => Untouched(p)
      BY <1>0, <2>0, <2>2, FreeTouches
    <3>4. ASSUME NEW q \in Req, NEW p \in Filled, SameHeld(q), Resting(q, {}), p = Held(q)
          PROVE  Untouched(p)
      <4>1. q # r
        BY <2>0, <3>1, <3>4 DEF SameHeld
      <4>2. p # <<req[r].ip, slotc[r]>>
        BY <3>2, <3>4, <4>1 DEF Held
      <4>3. QED
        BY <3>3, <4>2
    <3>5. slotc'[r] < 0
      BY <2>0
    <3>6. QED
      BY <1>0, <2>0, <3>4, <3>5 DEF HeldStep
  <2>3. QED
    BY <1>0, <1>9, <2>1, <2>2 DEF FreeHeld
<1>10. QED
  BY <1>3, <1>4, <1>5, <1>6, <1>7, <1>8, <1>9 DEF Handler

\* Every step of a goroutine: who kicks a session kicks at a disturbed address.
LEMMA SnmpGetHeldStep ==
    ASSUME ColInv, Kicks, NEW r \in Req, NEW g \in Gid, SnmpGet(r, g)
    PROVE  \E ips : Disturb(ips) /\ HeldStep(ips)
<1> USE DEF ColInv
<1>0. PoolTypeOK /\ \A q \in Req : SameHeld(q)
  BY DEF SnmpGet, Begin, Return, Interrupted, Deliver, Receive, ReadFlag, KickHeld,
         holdVars, SameHeld, TypeOK
<1>1. CASE UNCHANGED Sessions
  <2>1. \E ips : Disturb(ips)
    BY DEF SnmpGet, Begin, Return, Interrupted, Deliver, Receive, ReadFlag, KickHeld, Finish
  <2>2. QED
    BY <1>0, <1>1, <2>1, QuietHeldStep
<1>2. CASE KickHeld(r, g) /\ ~(UNCHANGED Sessions)
  <2>1. /\ gpc[r][g] = "kick" /\ Disturb({})
        /\ ~(karg[r][g] < 0) /\ Kick(args[snmpsess[r]].ip, karg[r][g])
    BY <1>2 DEF KickHeld, poolVars
  <2>2. args[snmpsess[r]].ip = req[r].ip /\ req[r].ip \in IP
    BY <2>1, GoroutineHasClient, RequestType
  <2>3. karg[r][g] \in Slot /\ karg[r][g] # -1
    <3>1. karg[r][g] \in Slot \cup {-1}
      BY DEF TypeOK
    <3>2. QED
      BY <2>1, <3>1
  <2>4. req[r].ip \in tainted
    BY <2>1, <2>3 DEF Kicks, KicksOf
  <2>5. \A p \in Filled : p[1] # req[r].ip => Untouched(p)
    BY <1>0, <2>1, <2>2, <2>3, KickTouches
  <2>6. \A q \in Req, p \in Filled : Resting(q, {}) /\ p = Held(q) => Untouched(p)
    BY <2>4, <2>5 DEF Resting, Held
  <2>7. QED
    BY <1>0, <2>1, <2>6 DEF HeldStep
<1>3. QED
  BY <1>1, <1>2 DEF SnmpGet, Begin, Return, Interrupted, Deliver, Receive, ReadFlag,
                    Open, Crash, poolVars

\* The rest of the process: when the cleaner removes a busy session it
\* disturbs the address.
LEMMA RestHeldStep ==
    ASSUME ColInv, Mine, Clean \/ Time \/ Reload
    PROVE  \E ips : Disturb(ips) /\ HeldStep(ips)
<1> USE DEF ColInv
<1>0. PoolTypeOK /\ \A q \in Req : SameHeld(q)
  BY DEF Clean, Time, Reload, holdVars, SameHeld, TypeOK
<1>1. CASE Reload
  BY <1>0, <1>1, QuietHeldStep DEF Reload, poolVars
<1>2. CASE Time
  <2>1. \A p \in Filled : Untouched(p)
    BY <1>0, <1>2, TickTouches DEF Time
  <2>2. Disturb({})
    BY <1>2 DEF Time
  <2>3. QED
    BY <1>0, <2>1, <2>2 DEF HeldStep
<1>3. CASE Clean
  <2> DEFINE ips == {p[1] : p \in {q \in Filled : At(q)' = Nil /\ ~At(q).Idle}}
  <2>1. Disturb(ips) /\ Cleaner
    BY <1>3 DEF Clean
  <2>2. ASSUME NEW q \in Req, NEW p \in Filled, Resting(q, ips), p = Held(q)
        PROVE  Untouched(p)
    <3>1. ~At(p).Idle
      BY <2>2 DEF Resting, Mine, MineOf
    <3>2. p[1] \notin ips
      BY <2>2 DEF Resting, Held
    <3>3. At(p)' # Nil
      BY <3>1, <3>2
    <3>4. QED
      BY <1>0, <2>1, <3>1, <3>3, CleanerTouches
  <2> HIDE DEF ips
  <2>3. HeldStep(ips)
    BY <1>0, <2>2 DEF HeldStep
  <2>4. QED
    BY <2>1, <2>3
<1>4. QED
  BY <1>1, <1>2, <1>3

\* Every step keeps the slots of an address at rest with their holders.
LEMMA StepKeepsHeld ==
    ASSUME ColInv, ColInv', UseInv, Flags', [Next]_vars
    PROVE  Mine' /\ Apart'
<1>1. CASE UNCHANGED vars
  <2>1. Mine'
    BY <1>1 DEF UseInv, Mine, MineOf, vars, colVars, holdVars, poolVars, Held, Filled, At
  <2>2. Apart'
    BY <1>1 DEF UseInv, Apart, vars, colVars, holdVars, poolVars, Held
  <2>3. QED
    BY <2>1, <2>2
<1>2. CASE ~(UNCHANGED vars)
  <2>1. \E ips : Disturb(ips) /\ HeldStep(ips)
    BY <1>2, HandlerHeldStep, SnmpGetHeldStep, RestHeldStep DEF Next, UseInv
  <2>2. QED
    BY <2>1, HeldStepKeeps DEF UseInv
<1>3. QED
  BY <1>1, <1>2

\* Nobody but the cleaner changes a slot while a session is tested.
LEMMA StepKeepsProbing ==
    ASSUME ColInv, ColInv', Probing, [Next]_vars
    PROVE  Probing'
<1> USE DEF ColInv
<1> SUFFICES ASSUME probe' # Nil
             PROVE  At(probe)'.Idle
  BY DEF Probing
<1>0. PoolTypeOK /\ PoolTypeOK' /\ (probe # Nil => mLock /\ probe \in Filled)
  BY DEF TypeOK, PoolInv, SweepUndisturbed
<1>1. CASE probe' = probe /\ UNCHANGED Sessions
  BY <1>1 DEF Probing, At
<1>2. CASE Tick
  <2>1. probe' = probe /\ probe # Nil
    BY <1>2 DEF Tick
  <2>2. PICK p \in Filled : p = probe
    BY <1>0, <2>1
  <2>3. Untouched(p)
    BY <1>0, <1>2, TickTouches
  <2>4. At(p)'.Idle = At(p).Idle /\ At(p).Idle
    BY <2>1, <2>2, <2>3 DEF Untouched, Probing
  <2>5. QED
    BY <2>1, <2>2, <2>4 DEF At
<1>3. CASE Cleaner
  <2>1. ASSUME NEW p \in Place, CleanerProbe(p)
        PROVE  At(probe)'.Idle
    <3>1. probe' = p /\ Sessions' = Sessions /\ At(p).Idle
      BY <2>1 DEF CleanerProbe
    <3>2. QED
      BY <3>1 DEF At
  <2>2. ASSUME NEW p \in Place, CleanerExpire(p)
        PROVE  FALSE
    BY <2>2 DEF CleanerExpire, Visit
  <2>3. ASSUME NEW ok \in BOOLEAN, CleanerProbed(ok)
        PROVE  FALSE
    BY <2>3 DEF CleanerProbed
  <2>4. QED
    BY <1>1, <1>3, <2>1, <2>2, <2>3 DEF Cleaner, CleanerLock, CleanerSkip, CleanerUnlock
<1>4. CASE mLock /\ ~Tick /\ ~Cleaner
  <2>1. [PoolNext]_poolVars
    BY StepRefines
  <2>2. probe' = probe /\ UNCHANGED Sessions
    BY <1>4, <2>1 DEF PoolNext, poolVars, GetCacheSess, Free, Unavailable, Kick, OpenAndSave,
                      Save, NewSNMP, Open, Crash
  <2>3. QED
    BY <1>1, <2>2
<1>5. CASE ~mLock /\ ~Tick /\ ~Cleaner
  <2>1. [PoolNext]_poolVars
    BY StepRefines
  <2>2. probe' = probe
    BY <1>5, <2>1 DEF PoolNext, poolVars, GetCacheSess, Free, Unavailable, Kick, OpenAndSave,
                      Save, NewSNMP, Open, Crash
  <2>3. QED
    BY <1>0, <1>5, <2>2
<1>6. QED
  BY <1>2, <1>3, <1>4, <1>5

-----------------------------------------------------------------------------
(* Clients that are not cached.                                            *)

\* r works with a client that is not cached.
Alone(r) == pc[r] \in Using /\ slotc[r] = -1

\* No client outside the cache is closed, those aside that are never open.
StaysOpen == \A s \in SNMP \ (Cached \cup Mute) : conn[s] => conn'[s]

\* What the cleaner and Kick close is cached.
LEMMA OnlyCachedCloses ==
    ASSUME PoolInv,
           \/ UNCHANGED poolVars
           \/ \E ip \in IP, i \in Slot :
                 \/ GetCacheSess(ip, i) \/ Free(ip, i) \/ Kick(ip, i)
                 \/ \E s \in SNMP : OpenAndSave(ip, s, i)
           \/ \E s \in SNMP : Open(s) \/ Crash(s)
           \/ Cleaner
           \/ Tick
    PROVE  StaysOpen
<1>0. PoolTypeOK /\ todo \subseteq Filled /\ (probe # Nil => probe \in Filled)
  BY DEF PoolInv, SweepUndisturbed
<1>1. ASSUME NEW p \in Filled, Evict(p[1], p[2])
      PROVE  StaysOpen
  <2>1. At(p).Sess \in Cached /\ conn' = [conn EXCEPT ![At(p).Sess] = FALSE]
    BY <1>1 DEF Cached, Evict, At
  <2>2. QED
    BY <1>0, <2>1 DEF StaysOpen, PoolTypeOK
<1>2. CASE UNCHANGED conn
  BY <1>2 DEF StaysOpen
<1>3. ASSUME NEW s \in SNMP, conn' = [conn EXCEPT ![s] = s \notin Mute]
      PROVE  StaysOpen
  BY <1>0, <1>3 DEF StaysOpen, PoolTypeOK
<1>4. ASSUME NEW ip \in IP, NEW i \in Slot, Kick(ip, i)
      PROVE  StaysOpen
  <2>1. CASE <<ip, i>> \in Filled /\ Evict(ip, i)
    <3>1. PICK p \in Filled : p = <<ip, i>>
      BY <2>1
    <3>2. p[1] = ip /\ p[2] = i
      BY <3>1
    <3>3. QED
      BY <1>1, <2>1, <3>2
  <2>2. QED
    BY <1>2, <1>4, <2>1 DEF Kick
<1>5. CASE Cleaner
  <2>1. ASSUME NEW p \in Place, CleanerExpire(p)
        PROVE  StaysOpen
    BY <1>0, <1>1, <2>1 DEF CleanerExpire, Visit
  <2>2. ASSUME NEW ok \in BOOLEAN, CleanerProbed(ok)
        PROVE  StaysOpen
    BY <1>0, <1>1, <1>2, <2>2 DEF CleanerProbed
  <2>3. QED
    BY <1>2, <1>5, <2>1, <2>2 DEF Cleaner, CleanerLock, CleanerSkip, CleanerProbe,
                                  CleanerUnlock
<1>6. QED
  BY <1>2, <1>3, <1>4, <1>5 DEF Tick, Open, Crash, GetCacheSess, Free, OpenAndSave,
                                poolVars

\* A step that makes no client keeps private clients private.
LEMMA QuietPrivate ==
    ASSUME ColInv, Private, StaysOpen,
           \A q \in Req : Alone(q)' => Alone(q) /\ snmpsess'[q] = snmpsess[q],
           \A q \in Req : Alone(q) => snmpsess[q] \notin Cached',
           \A p \in Req : Holds(p)' => \/ Holds(p) /\ snmpsess'[p] = snmpsess[p]
                                       \/ snmpsess'[p] \in Cached,
           \A q \in Req, g \in Gid : gpc'[q][g] = "io" =>
               gpc[q][g] = "io" \/ conn'[snmpsess[q]]
    PROVE  Private'
<1> SUFFICES ASSUME NEW r \in Req, Alone(r)'
             PROVE  /\ snmpsess'[r] \notin Cached'
                    /\ \A q \in Req : q # r /\ Holds(q)' => snmpsess'[q] # snmpsess'[r]
                    /\ \A g \in Gid : gpc'[r][g] = "io" /\ snmpsess'[r] \notin Mute
                          => conn'[snmpsess'[r]]
  BY DEF Private, Alone
<1>1. Alone(r) /\ snmpsess'[r] = snmpsess[r]
  OBVIOUS
<1>2. /\ snmpsess[r] \notin Cached
      /\ \A q \in Req : q # r /\ Holds(q) => snmpsess[q] # snmpsess[r]
      /\ \A g \in Gid :
            gpc[r][g] = "io" /\ snmpsess[r] \notin Mute => conn[snmpsess[r]]
  BY <1>1 DEF Private, Alone
<1>3. snmpsess[r] \in SNMP
  BY <1>1 DEF Alone, Using, ColInv, Ownership, Holds
<1>4. \A g \in Gid :
         gpc'[r][g] = "io" /\ snmpsess[r] \notin Mute => conn'[snmpsess[r]]
  BY <1>2, <1>3 DEF StaysOpen
<1>5. QED
  BY <1>1, <1>2, <1>4

\* A new client is private to its maker.
LEMMA CreatePrivate ==
    ASSUME ColInv, Private, NEW r \in Req, pc[r] = "create", NEW s \in SNMP, Unreferenced(s),
           UNCHANGED <<Sessions, gpc>>, conn' = [conn EXCEPT ![s] = FALSE],
           snmpsess' = [snmpsess EXCEPT ![r] = s],
           \A q \in Req \ {r} : pc'[q] = pc[q] /\ slotc'[q] = slotc[q]
    PROVE  Private'
<1> USE DEF ColInv
<1>0. Cached' = Cached /\ \A q \in Req : Running(q)' = Running(q)
  BY DEF Cached, Filled, At, Running
<1>1. s \notin Cached /\ \A q \in Req \ {r} : Holds(q) => snmpsess[q] # s
  BY DEF Unreferenced, Holds, InFlight
<1>2. snmpsess'[r] = s /\ \A q \in Req \ {r} : snmpsess'[q] = snmpsess[q]
  BY DEF TypeOK
<1>3. \A q \in Req \ {r} : Holds(q)' <=> Holds(q)
  BY <1>0 DEF Holds
<1>4. \A g \in Gid : gpc'[r][g] # "io"
  BY DEF Ownership, Early, Running
<1>5. \A t \in SNMP \ {s} : conn'[t] = conn[t]
  BY DEF TypeOK, PoolTypeOK
<1>6. ASSUME NEW q \in Req, Alone(q)'
      PROVE  /\ snmpsess'[q] \notin Cached'
             /\ \A p \in Req : p # q /\ Holds(p)' => snmpsess'[p] # snmpsess'[q]
             /\ \A g \in Gid :
                   gpc'[q][g] = "io" /\ snmpsess'[q] \notin Mute => conn'[snmpsess'[q]]
  <2>1. CASE q = r
    BY <1>0, <1>1, <1>2, <1>3, <1>4, <2>1
  <2>2. CASE q # r
    <3>1. Alone(q) /\ Holds(q) /\ snmpsess[q] \in SNMP \ {s}
      BY <1>1, <1>6, <2>2 DEF Alone, Using, Holds, Ownership
    <3>2. /\ snmpsess[q] \notin Cached
          /\ \A p \in Req : p # q /\ Holds(p) => snmpsess[p] # snmpsess[q]
          /\ \A g \in Gid :
                gpc[q][g] = "io" /\ snmpsess[q] \notin Mute => conn[snmpsess[q]]
      BY <3>1 DEF Private, Alone
    <3>3. \A p \in Req : p # q /\ Holds(p)' => snmpsess'[p] # snmpsess'[q]
      BY <1>2, <1>3, <2>2, <3>1, <3>2
    <3>4. \A g \in Gid :
             gpc'[q][g] = "io" /\ snmpsess'[q] \notin Mute => conn'[snmpsess'[q]]
      BY <1>2, <1>5, <2>2, <3>1, <3>2
    <3>5. QED
      BY <1>0, <1>2, <2>2, <3>2, <3>3, <3>4
  <2>3. QED
    BY <2>1, <2>2
<1>7. QED
  BY <1>6 DEF Private, Alone

\* A step that adds no session to the cache leaves private clients out of it.
LEMMA KeptOutside ==
    ASSUME Kept
    PROVE  Cached' \subseteq Cached
BY DEF Kept, Cached

\* A handler keeps private clients private: what it takes from the cache, or
\* puts there, is nobody's private client.
LEMMA HandlerPrivate ==
    ASSUME ColInv, Private, NEW r \in Req, Arrive(r) \/ Handler(r)
    PROVE  Private'
<1> USE DEF ColInv
<1>0. PoolTypeOK /\ \A q \in Req \ {r} : Still(q)
  BY HandlerStill DEF TypeOK
<1>1. \A q \in Req \ {r} : /\ Alone(q)' <=> Alone(q)
                           /\ Holds(q)' <=> Holds(q)
                           /\ snmpsess'[q] = snmpsess[q] /\ gpc'[q] = gpc[q]
  BY <1>0 DEF Still, Alone, Holds, Running
<1>2. \A q \in Req : Alone(q) => snmpsess[q] \notin Cached /\ Holds(q)
  BY DEF Private, Alone, Using, Holds
<1>3. ASSUME StaysOpen, Cached' \subseteq Cached, gpc' = gpc,
             Alone(r)' => Alone(r) /\ snmpsess'[r] = snmpsess[r],
             Holds(r)' => \/ Holds(r) /\ snmpsess'[r] = snmpsess[r]
                          \/ snmpsess'[r] \in Cached
      PROVE  Private'
  BY <1>1, <1>2, <1>3, QuietPrivate
<1>4. ASSUME UNCHANGED poolVars
      PROVE  StaysOpen /\ Cached' \subseteq Cached
  BY <1>4 DEF StaysOpen, poolVars, Cached, Filled, At
<1>5. CASE Arrive(r) \/ CheckLimit(r)
  <2>1. UNCHANGED poolVars /\ gpc' = gpc /\ Running(r) = {}
    BY <1>5 DEF Arrive, CheckLimit, goVars, Ownership, Early
  <2>2. pc'[r] \in {"limit", "lookup", "done"}
    BY <1>5 DEF Arrive, CheckLimit, Fail, Goto, TypeOK
  <2>3. ~Alone(r)' /\ ~Holds(r)'
    BY <2>1, <2>2 DEF Alone, Holds, Running, Using
  <2>4. QED
    BY <1>3, <1>4, <2>1, <2>3
<1>6. CASE Lookup(r)
  <2>0. pc[r] = "lookup" /\ gpc' = gpc /\ Running(r) = {} /\ req[r].ip \in IP
    BY <1>6, RequestType DEF Lookup, goVars, Ownership, Early
  <2>1. CASE UNCHANGED poolVars /\ Goto(r, "create")
    <3>1. pc'[r] = "create"
      BY <2>1 DEF Goto, TypeOK
    <3>2. ~Alone(r)' /\ ~Holds(r)'
      BY <2>0, <3>1 DEF Alone, Holds, Running, Using
    <3>3. QED
      BY <1>3, <1>4, <2>0, <2>1, <3>2
  <2>2. ASSUME NEW i \in Slot, GetCacheSess(req[r].ip, i),
               Hold(r, Sessions[req[r].ip][i].Sess, i)
        PROVE  Private'
    <3>1. slotc'[r] = i /\ snmpsess'[r] = Sessions[req[r].ip][i].Sess
      BY <2>2 DEF Hold, TypeOK
    <3>2. ~Alone(r)'
      BY <3>1 DEF Alone, Slot
    <3>3. snmpsess'[r] \in Cached
      <4>1. PICK p \in Filled : p = <<req[r].ip, i>>
        BY <1>0, <2>0, <2>2, TakeTouches
      <4>2. snmpsess'[r] = At(p).Sess
        BY <3>1, <4>1 DEF At
      <4>3. QED
        BY <4>2 DEF Cached
    <3>5. StaysOpen
      BY <2>0, <2>2, OnlyCachedCloses
    <3>6. Cached' \subseteq Cached
      BY <1>0, <2>0, <2>2, PoolUseKept, KeptOutside
    <3>7. QED
      BY <1>3, <2>0, <3>2, <3>3, <3>5, <3>6
  <2>3. QED
    BY <1>6, <2>1, <2>2 DEF Lookup
<1>7. CASE Create(r)
  <2>0. pc[r] = "create" /\ gpc' = gpc /\ Running(r) = {}
    BY <1>7 DEF Create, goVars, Ownership, Early
  <2>1. CASE Fail(r, "err") /\ UNCHANGED poolVars
    <3>1. pc'[r] = "done"
      BY <2>1 DEF Fail, TypeOK
    <3>2. ~Alone(r)' /\ ~Holds(r)'
      BY <2>0, <3>1 DEF Alone, Holds, Running, Using
    <3>3. QED
      BY <1>3, <1>4, <2>0, <2>1, <3>2
  <2>2. ASSUME NEW s \in SNMP, Unreferenced(s), NewSNMP(s),
               snmpsess' = [snmpsess EXCEPT ![r] = s]
        PROVE  Private'
    BY <1>0, <2>0, <2>2, CreatePrivate DEF NewSNMP, Still
  <2>3. QED
    BY <1>7, <2>1, <2>2 DEF Create, Hold
<1>8. CASE SaveNew(r)
  <2>0. pc[r] = "save" /\ gpc' = gpc /\ Running(r) = {} /\ req[r].ip \in IP
        /\ snmpsess[r] \in SNMP
    BY <1>8, RequestType DEF SaveNew, goVars, Ownership, Early, Holds
  <2>1. CASE Fail(r, "err") /\ UNCHANGED poolVars
    <3>1. pc'[r] = "done"
      BY <2>1 DEF Fail, TypeOK
    <3>2. ~Alone(r)' /\ ~Holds(r)'
      BY <2>0, <3>1 DEF Alone, Holds, Running, Using
    <3>3. QED
      BY <1>3, <1>4, <2>0, <2>1, <3>2
  <2>2. ASSUME NEW i \in Slot, OpenAndSave(req[r].ip, snmpsess[r], i),
               Hold(r, snmpsess[r], i)
        PROVE  Private'
    <3> DEFINE s == snmpsess[r]
    <3>1. slotc'[r] = i /\ snmpsess'[r] = s
      BY <2>2 DEF Hold, TypeOK
    <3>2. ~Alone(r)' /\ ~Alone(r) /\ Holds(r)
      BY <2>0, <3>1 DEF Alone, Slot, Using, Holds
    <3>3. StaysOpen
      BY <2>0, <2>2, OnlyCachedCloses
    <3>4. Added(req[r].ip, s)
      BY <1>0, <2>0, <2>2, SaveAdds
    <3>5. Cached' \subseteq Cached \cup {s}
      BY <3>4 DEF Added, Cached
    <3>6. \A q \in Req \ {r} : Holds(q) => snmpsess[q] # s
      BY <2>0 DEF Ownership
    <3>7. \A q \in Req : Alone(q) => snmpsess[q] \notin Cached'
      BY <1>2, <3>2, <3>5, <3>6
    <3> HIDE DEF s
    <3>8. snmpsess'[r] = snmpsess[r]
      BY <3>1 DEF s
    <3>9. QED
      BY <1>1, <2>0, <3>2, <3>3, <3>7, <3>8, QuietPrivate
  <2>3. QED
    <3>1. CASE Crash(snmpsess[r]) /\ UNCHANGED <<pc, holdVars>>
      <4>1. UNCHANGED <<Sessions, conn, pc, snmpsess, slotc>>
        BY <3>1 DEF Crash, holdVars
      <4>2. StaysOpen /\ Cached' \subseteq Cached
        BY <4>1 DEF StaysOpen, Cached, Filled, At
      <4>3. (Alone(r)' => Alone(r)) /\ Holds(r)
        BY <2>0, <4>1 DEF Alone, Holds
      <4>4. QED
        BY <1>3, <2>0, <4>1, <4>2, <4>3
    <3>2. QED
      BY <1>8, <2>1, <2>2, <3>1 DEF SaveNew
<1>9. CASE Spawn(r)
  <2>1. UNCHANGED <<poolVars, snmpsess, slotc>> /\ Holds(r) /\ pc[r] \in Using
    BY <1>9 DEF Spawn, holdVars, Holds, Using
  <2>2. Alone(r)' => Alone(r)
    BY <2>1 DEF Alone
  <2>3. \A g \in Gid : gpc'[r][g] = "io" => gpc[r][g] = "io"
    BY <1>9 DEF Spawn, TypeOK
  <2>4. QED
    BY <1>1, <1>2, <1>4, <2>1, <2>2, <2>3, QuietPrivate
<1>10. CASE FreeHeld(r)
  <2>0. /\ gpc' = gpc /\ snmpsess' = snmpsess /\ pc'[r] = "done" /\ Holds(r)
        /\ req[r].ip \in IP /\ snmpsess[r] \in SNMP
    BY <1>10, RequestType DEF FreeHeld, Fail, Goto, TypeOK, goVars, Holds, Ownership
  <2>1. ~Alone(r)'
    BY <2>0 DEF Alone, Using
  <2>2. slotc[r] \in Slot \cup {-1}
    BY DEF TypeOK
  <2>3. \/ UNCHANGED poolVars
        \/ slotc[r] \in Slot /\ Free(req[r].ip, slotc[r])
    BY <1>10, <2>2 DEF FreeHeld
  <2>4. StaysOpen /\ Cached' \subseteq Cached
    BY <1>0, <1>4, <2>0, <2>3, OnlyCachedCloses, PoolUseKept, KeptOutside
  <2>5. QED
    BY <1>3, <2>0, <2>1, <2>4
<1>11. QED
  BY <1>5, <1>6, <1>7, <1>8, <1>9, <1>10 DEF Handler

\* A goroutine keeps private clients private: what it kicks is cached.
LEMMA SnmpGetPrivate ==
    ASSUME ColInv, Private, NEW r \in Req, NEW g \in Gid, SnmpGet(r, g)
    PROVE  Private'
<1> USE DEF ColInv
<1>0. PoolTypeOK /\ \A q \in Req \ {r} : Still(q)
  BY SnmpGetStill DEF TypeOK
<1>1. gpc[r][g] # "none"
  BY DEF SnmpGet, Begin, Return, Interrupted, Deliver, Receive, ReadFlag,
         KickHeld, Outcome
<1>2. /\ Holds(r) /\ snmpsess[r] \in SNMP /\ args[snmpsess[r]].ip = req[r].ip
      /\ req[r].ip \in IP
  BY <1>1, GoroutineHasClient, RequestType
<1>3. UNCHANGED <<snmpsess, slotc>> /\ (pc'[r] = pc[r] \/ pc[r] \in Using)
  <2>1. UNCHANGED <<snmpsess, slotc>>
    BY DEF SnmpGet, Begin, Return, Interrupted, Deliver, Receive, ReadFlag, KickHeld,
           holdVars
  <2>2. pc' = pc \/ pc[r] = "recv"
    BY DEF SnmpGet, Begin, Return, Interrupted, Deliver, Receive, ReadFlag, KickHeld
  <2>3. QED
    BY <2>1, <2>2 DEF Using
<1>4. karg[r][g] \in Slot \cup {-1}
  BY DEF TypeOK
<1>5. \/ UNCHANGED poolVars
      \/ Open(snmpsess[r]) \/ Crash(snmpsess[r])
      \/ karg[r][g] \in Slot /\ Kick(req[r].ip, karg[r][g])
  BY <1>2, <1>4 DEF SnmpGet, Begin, Return, Interrupted, Deliver, Receive, ReadFlag, KickHeld
<1>6. 0 \in Slot
  BY PoolAssumption DEF Slot
<1>7. StaysOpen /\ Cached' \subseteq Cached
  BY <1>0, <1>2, <1>5, <1>6, OnlyCachedCloses, PoolUseKept, KeptOutside
<1>8. \A q \in Req : Alone(q)' => Alone(q) /\ snmpsess'[q] = snmpsess[q]
  BY <1>0, <1>3 DEF Alone, Still
<1>9. \A q \in Req : Holds(q)' => Holds(q) /\ snmpsess'[q] = snmpsess[q]
  BY <1>0, <1>2, <1>3 DEF Holds, Still, Running
<1>10. ASSUME NEW q \in Req, NEW h \in Gid, gpc'[q][h] = "io", gpc[q][h] # "io"
       PROVE  conn'[snmpsess[q]]
  <2>1. q = r
    BY <1>0, <1>10 DEF Still
  <2>2. CASE h # g
    BY <1>10, <2>1, <2>2, Moves DEF SnmpGet, Interrupted, goVars
  <2>3. CASE h = g
    <3>1. Begin(r, g)
      BY <1>10, <2>1, <2>3, Moves DEF SnmpGet, Interrupted, goVars, Outcome
    <3>2. gpc'[r][g] = "io"
      BY <1>10, <2>1, <2>3
    <3>3. Open(snmpsess[r]) /\ snmpsess[r] \notin Mute
      BY <1>10, <2>1, <2>3, <3>1, <3>2, MoveOne DEF Begin, Finish
    <3>4. QED
      BY <1>0, <1>2, <2>1, <3>3 DEF Open, PoolTypeOK
  <2>4. QED
    BY <2>2, <2>3
<1>11. \A q \in Req : Alone(q) => snmpsess[q] \notin Cached'
  BY <1>7 DEF Private, Alone
<1>12. QED
  BY <1>7, <1>8, <1>9, <1>10, <1>11, QuietPrivate

\* Every step keeps private clients private.
LEMMA StepKeepsPrivate ==
    ASSUME ColInv, Private, [Next]_vars
    PROVE  Private'
<1> USE DEF ColInv
<1>1. CASE Clean \/ Time \/ Reload \/ UNCHANGED vars
  <2>1. UNCHANGED <<snmpsess, slotc, pc, gpc>>
    BY <1>1 DEF Clean, Time, Reload, vars, colVars, holdVars, goVars
  <2>2. UNCHANGED poolVars \/ Cleaner \/ Tick
    BY <1>1 DEF Clean, Time, Reload, vars
  <2>3. Cached' \subseteq Cached
    BY <2>2, PoolUseKept, KeptOutside DEF TypeOK
  <2>4. \A q \in Req : (Alone(q)' <=> Alone(q)) /\ (Holds(q)' <=> Holds(q))
    BY <2>1 DEF Alone, Holds, Running
  <2>5. \A q \in Req : Alone(q) => snmpsess[q] \notin Cached'
    BY <2>3 DEF Private, Alone
  <2>6. StaysOpen
    BY <2>2, OnlyCachedCloses
  <2>7. QED
    BY <2>1, <2>4, <2>5, <2>6, QuietPrivate
<1>2. QED
  BY <1>1, HandlerPrivate, SnmpGetPrivate DEF Next

-----------------------------------------------------------------------------
(* Goroutines that are left over, and those that kick.                     *)

\* A goroutine keeps its request in flight.
LEMMA RunningRests ==
    ASSUME ColInv', [Next]_vars, NEW r \in Req, NEW g \in Gid, gpc'[r][g] # "none",
           req'[r].ip \notin tainted'
    PROVE  /\ InFlight(r)' /\ req'[r] # Nil /\ req'[r].ip \in IP
           /\ req'[r].ip \notin tainted
<1>1. Running(r)' # {}
  BY DEF Running
<1>2. InFlight(r)' /\ pc'[r] # "new"
  BY <1>1 DEF InFlight, ColInv, Ownership
<1>3. req'[r] # Nil /\ req'[r].ip \in IP
  BY <1>2 DEF ColInv, TypeOK, Request
<1>4. QED
  BY <1>2, <1>3, StepRest

\* A handler before its loop has no goroutines, and gets none.
LEMMA EarlyAlone ==
    ASSUME ColInv, NEW r \in Req,
           \/ Arrive(r) \/ CheckLimit(r) \/ Lookup(r) \/ Create(r) \/ SaveNew(r)
    PROVE  gpc' = gpc /\ karg' = karg /\ \A g \in Gid : gpc[r][g] = "none"
<1>1. Running(r) = {} /\ gpc' = gpc /\ karg' = karg
  BY DEF Arrive, CheckLimit, Lookup, Create, SaveNew, goVars, ColInv, Ownership, Early
<1>2. QED
  BY <1>1 DEF Running

\* Every step keeps it true that a goroutine nobody receives from is a
\* disturbance.
LEMMA StepKeepsOrphans ==
    ASSUME ColInv, ColInv', AnswerInv, Orphans, [Next]_vars
    PROVE  Orphans'
<1> USE DEF ColInv
<1> SUFFICES ASSUME NEW q \in Req, Unsent(q)' # {}, pc'[q] \in {"panic", "done"},
                    req'[q].ip \notin tainted'
             PROVE  FALSE
  BY DEF Orphans
<1>0. PICK g \in Gid : gpc'[q][g] \in Owing
  BY DEF Unsent
<1>1. gpc'[q][g] # "none"
  BY <1>0 DEF Owing, Outcome
<1>2. InFlight(q)' /\ req'[q] # Nil /\ req'[q].ip \in IP /\ req'[q].ip \notin tainted
  BY <1>1, RunningRests
<1>3. ASSUME req'[q] = req[q], pc[q] \in {"panic", "done"}, gpc[q][g] \in Owing
      PROVE  FALSE
  BY <1>2, <1>3 DEF Orphans, Unsent
<1>4. CASE Still(q)
  BY <1>0, <1>3, <1>4 DEF Still
<1>5. CASE Arrive(q) \/ CheckLimit(q) \/ Lookup(q) \/ Create(q) \/ SaveNew(q)
  BY <1>1, <1>5, EarlyAlone
<1>6. CASE Spawn(q)
  <2>0. pc[q] = "loop" /\ req' = req
    BY <1>6 DEF Spawn
  <2>1. Unsent(q) = {}
    BY <2>0 DEF AnswerInv, AnswerOf
  <2>2. pc'[q] = IF req[q].bad = 0 THEN "recv" ELSE "panic"
    BY <1>6 DEF Spawn, Goto, TypeOK
  <2>3. req[q].bad # 0
    BY <2>2
  <2>4. gpc[q][g] \notin Owing
    BY <2>1 DEF Unsent
  <2>5. g[2] \in Task /\ g[2] < req[q].bad
    <3>1. g[2] \in Task
      BY DEF Gid
    <3>2. gpc'[q][g] # gpc[q][g]
      BY <1>0, <2>4
    <3>3. QED
      BY <1>6, <2>3, <3>1, <3>2 DEF Spawn, TypeOK
  <2>6. req[q].bad \in Nat
    BY <2>0, RequestType DEF Request
  <2>7. req[q].bad > 1
    BY <2>5, <2>6 DEF Task
  <2>8. Disturb({req[q].ip})
    BY <1>6, <2>7 DEF Spawn
  <2>9. QED
    BY <1>2, <2>0, <2>8, RestBefore
<1>7. CASE FreeHeld(q)
  <2>1. gpc' = gpc /\ req' = req /\ (pc[q] = "panic" \/ pc[q] = "loop")
    BY <1>7 DEF FreeHeld, goVars
  <2>2. gpc[q][g] \in Owing
    BY <1>0, <2>1
  <2>3. pc[q] # "loop"
    BY <2>2 DEF AnswerInv, AnswerOf, Unsent
  <2>4. QED
    BY <1>3, <2>1, <2>2, <2>3
<1>8. ASSUME NEW h \in Gid, SnmpGet(q, h)
      PROVE  FALSE
  <2>1. req'[q] = req[q]
    BY <1>8 DEF SnmpGet, Begin, Return, Interrupted, Deliver, Receive, ReadFlag, KickHeld
  <2>2. pc[q] \in {"panic", "done"} /\ ~Deliver(q, h)
    <3>1. CASE Deliver(q, h)
      BY <3>1 DEF Deliver, Receive, TypeOK
    <3>2. QED
      BY <1>8, <3>1 DEF SnmpGet, Begin, Return, Interrupted, ReadFlag, KickHeld
  <2>3. gpc[q][g] \in Owing
    <3>1. CASE h # g
      BY <1>0, <1>8, <3>1, Moves DEF SnmpGet, Interrupted, goVars
    <3>2. CASE h = g
      <4>1. CASE Begin(q, g) \/ Return(q, g) \/ Interrupted(q, g)
        BY <4>1 DEF Begin, Return, Interrupted, Owing
      <4>2. CASE ReadFlag(q, g) \/ KickHeld(q, g)
        BY <1>0, <4>2, Moves DEF Owing, Outcome
      <4>3. QED
        BY <1>8, <2>2, <3>2, <4>1, <4>2 DEF SnmpGet
    <3>3. QED
      BY <3>1, <3>2
  <2>4. QED
    BY <1>3, <2>1, <2>2, <2>3
<1>9. QED
  BY <1>4, <1>5, <1>6, <1>7, <1>8, HandlerStill, SnmpGetStill, RestStill DEF Next, Handler

\* A goroutine at an address at rest whose operation fails has a client that
\* is not cached.
LEMMA FailureHasNoSlot ==
    ASSUME ColInv, AnswerInv, Flags, Orphans, NEW r \in Req, NEW g \in Gid,
           gpc[r][g] \in Owing, req[r].ip \notin tainted
    PROVE  pc[r] \in Using /\ (slotc[r] < 0 => cacheflag[r] = -1)
<1>1. Unsent(r) # {}
  BY DEF Unsent
<1>2. pc[r] \in {"recv", "panic", "done"}
  BY <1>1 DEF AnswerInv, AnswerOf
<1>3. pc[r] \in Using
  BY <1>1, <1>2 DEF Orphans, Using
<1>4. slotc[r] \in Slot \cup {-1}
  BY DEF ColInv, TypeOK
<1>5. slotc[r] < 0 => slotc[r] = -1
  BY <1>4 DEF Slot
<1>6. QED
  BY <1>3, <1>5 DEF Flags, FlagsOf

\* Every step keeps those who kick at an address at rest without an index.
LEMMA StepKeepsKicks ==
    ASSUME ColInv, ColInv', AnswerInv, Flags, Orphans, Kicks, [Next]_vars
    PROVE  Kicks'
<1> USE DEF ColInv
<1> SUFFICES ASSUME NEW q \in Req, NEW h \in Gid
             PROVE  KicksOf(q, h)'
  BY DEF Kicks, KicksOf
<1>0. KicksOf(q, h)
  BY DEF Kicks, KicksOf
<1>1. ASSUME req'[q] = req[q], gpc'[q][h] = gpc[q][h], karg'[q][h] = karg[q][h],
             cacheflag'[q] \in {cacheflag[q], -1}
      PROVE  KicksOf(q, h)'
  <2>1. gpc'[q][h] \in {"ioerr", "arg", "kick"} /\ req'[q].ip \notin tainted'
           => req[q].ip \notin tainted
    BY <1>1, RunningRests
  <2>2. QED
    BY <1>0, <1>1, <2>1 DEF KicksOf
<1>2. CASE Still(q)
  BY <1>1, <1>2 DEF Still
<1>3. CASE Arrive(q) \/ CheckLimit(q) \/ Lookup(q) \/ Create(q) \/ SaveNew(q)
  BY <1>0, <1>3, EarlyAlone DEF KicksOf
<1>4. CASE Spawn(q)
  <2>1. req' = req /\ karg' = karg /\ cacheflag' = cacheflag
    BY <1>4 DEF Spawn, holdVars
  <2>2. CASE gpc'[q][h] = gpc[q][h]
    BY <1>1, <2>1, <2>2
  <2>3. CASE gpc'[q][h] # gpc[q][h]
    <3>1. gpc'[q][h] = "wait"
      BY <1>4, <2>3 DEF Spawn, TypeOK
    <3>2. QED
      BY <3>1 DEF KicksOf
  <2>4. QED
    BY <2>2, <2>3
<1>5. CASE FreeHeld(q)
  BY <1>1, <1>5 DEF FreeHeld, goVars
<1>6. ASSUME NEW g \in Gid, SnmpGet(q, g)
      PROVE  KicksOf(q, h)'
  <2>0. req'[q] = req[q]
    BY <1>6 DEF SnmpGet, Begin, Return, Interrupted, Deliver, Receive, ReadFlag, KickHeld
  <2>1. cacheflag'[q] \in {cacheflag[q], -1}
    BY <1>6 DEF SnmpGet, Begin, Return, Interrupted, Deliver, Receive, ReadFlag, KickHeld,
                holdVars, TypeOK
  <2>2. CASE h # g
    <3>1. gpc'[q][h] = gpc[q][h]
      BY <1>6, <2>2, Moves DEF SnmpGet, Interrupted, goVars
    <3>2. karg'[q][h] = karg[q][h]
      <4>1. \/ karg' = karg
            \/ \E k : karg' = [karg EXCEPT ![q][g] = k]
        BY <1>6 DEF SnmpGet, Begin, Return, Interrupted, Deliver, Receive, ReadFlag,
                    KickHeld, goVars
      <4>2. ASSUME NEW k, karg' = [karg EXCEPT ![q][g] = k]
            PROVE  karg'[q][h] = karg[q][h]
        <5>1. karg[q] \in [Gid -> Slot \cup {-1}] /\ DOMAIN karg = Req
          BY DEF TypeOK
        <5>2. karg'[q] = [karg[q] EXCEPT ![g] = k]
          BY <4>2, <5>1
        <5>3. QED
          BY <2>2, <5>1, <5>2
      <4>3. QED
        BY <4>1, <4>2
    <3>3. QED
      BY <1>1, <2>0, <2>1, <3>1, <3>2
  <2>3. CASE h = g
    <3>1. CASE Interrupted(q, g)
      BY <1>1, <2>0, <2>1, <3>1 DEF Interrupted, goVars
    <3>2. CASE Begin(q, g) \/ Return(q, g)
      <4>1. gpc[q][g] \in {"wait", "io"} /\ cacheflag' = cacheflag
        BY <3>2 DEF Begin, Return, holdVars
      <4>3. gpc'[q][g] \in Outcome \cup {"wait", "io"}
        BY <3>2, Moves DEF Outcome
      <4>4. ASSUME gpc'[q][g] = "ioerr", req'[q].ip \notin tainted'
            PROVE  cacheflag'[q] = -1
        <5>1. /\ InFlight(q)' /\ req'[q] # Nil /\ req'[q].ip \in IP
              /\ req'[q].ip \notin tainted
          BY <4>4, RunningRests
        <5>2. Finish(q, g, "ioerr")
          <6>1. \/ \E o \in Outcome : Finish(q, g, o)
                \/ Move(q, g, "io")
            BY <3>2, <4>1, <4>4 DEF Begin, Return, Outcome
          <6>2. ~Move(q, g, "io")
            BY <4>4, MoveOne
          <6>3. PICK o \in Outcome : Finish(q, g, o)
            BY <6>1, <6>2
          <6>4. gpc'[q][g] = o
            BY <6>3, MoveOne DEF Finish
          <6>5. QED
            BY <4>4, <6>3, <6>4
        <5>3. slotc[q] >= 0 => Disturb({req[q].ip})
          BY <5>2 DEF Finish
        <5>4. ~(slotc[q] >= 0)
          BY <2>0, <4>4, <5>1, <5>3, RestBefore
        <5>5. slotc[q] < 0
          <6>1. slotc[q] \in Slot \cup {-1}
            BY DEF TypeOK
          <6>2. QED
            BY <5>4, <6>1 DEF Slot
        <5>6. QED
          BY <2>0, <4>1, <5>1, <5>5, FailureHasNoSlot DEF Owing
      <4>5. QED
        BY <2>3, <4>3, <4>4 DEF KicksOf, Outcome
    <3>3. CASE Deliver(q, g)
      <4>1. karg' = karg /\ cacheflag' = cacheflag /\ gpc[q][g] \in Outcome
        BY <3>3 DEF Deliver, Receive, holdVars
      <4>2. gpc'[q][g] = IF gpc[q][g] = "ioerr" THEN "arg" ELSE "none"
        BY <3>3, Moves
      <4>3. gpc'[q][g] # "none" /\ req'[q].ip \notin tainted' => req[q].ip \notin tainted
        BY <2>0, RunningRests
      <4>4. QED
        BY <1>0, <2>0, <2>3, <4>1, <4>2, <4>3 DEF KicksOf, Outcome
    <3>4. CASE ReadFlag(q, g)
      <4>1. cacheflag' = cacheflag /\ gpc[q][g] = "arg" /\ karg'[q][g] = cacheflag[q]
        BY <3>4 DEF ReadFlag, holdVars, TypeOK
      <4>2. gpc'[q][g] = "kick"
        BY <3>4, Moves
      <4>3. req'[q].ip \notin tainted' => req[q].ip \notin tainted
        BY <2>0, <4>2, RunningRests
      <4>4. QED
        BY <1>0, <2>0, <2>3, <4>1, <4>2, <4>3 DEF KicksOf
    <3>5. CASE KickHeld(q, g)
      <4>1. gpc'[q][g] = "none"
        BY <3>5, Moves
      <4>2. QED
        BY <2>3, <4>1 DEF KicksOf
    <3>6. QED
      BY <1>6, <3>1, <3>2, <3>3, <3>4, <3>5 DEF SnmpGet
  <2>4. QED
    BY <2>2, <2>3
<1>7. QED
  BY <1>2, <1>3, <1>4, <1>5, <1>6, HandlerStill, SnmpGetStill, RestStill DEF Next, Handler

-----------------------------------------------------------------------------
(* The theorems.                                                           *)

\* A goroutine in an operation at an address at rest: its handler works, in
\* the goroutine's repetition, with a slot of its own or a private client.
LEMMA WorkerAtRest ==
    ASSUME ColInv, AnswerInv, UseInv, NEW r \in Req, NEW g \in Gid, gpc[r][g] = "io",
           req[r].ip \notin tainted
    PROVE  /\ pc[r] = "recv" /\ g[1] = iter[r] /\ Holds(r)
           /\ \/ /\ Held(r) \in Filled /\ At(Held(r)).Sess = snmpsess[r]
                 /\ ~At(Held(r)).Idle /\ slotc[r] >= 0
              \/ Alone(r) /\ snmpsess[r] \notin Cached
<1>1. g \in Unsent(r)
  BY DEF Unsent, Owing
<1>2. pc[r] = "recv" /\ g[1] = iter[r]
  BY <1>1 DEF AnswerInv, AnswerOf, UseInv, Orphans
<1>3. Holds(r) /\ pc[r] \in Using
  BY <1>2 DEF Holds, Using
<1>4. slotc[r] \in Slot \cup {-1}
  BY DEF ColInv, TypeOK
<1>5. CASE slotc[r] = -1
  BY <1>2, <1>3, <1>5 DEF UseInv, Private, Alone
<1>6. CASE slotc[r] \in Slot
  <2>1. slotc[r] >= 0
    BY <1>6 DEF Slot
  <2>2. QED
    BY <1>2, <1>3, <2>1 DEF UseInv, Mine, MineOf
<1>7. QED
  BY <1>4, <1>5, <1>6

\* Nothing happens in a process that is gone.
LEMMA StepNeedsProcess ==
    ASSUME Next
    PROVE  up
<1>1. ASSUME NEW r \in Req, Arrive(r) \/ Handler(r)
      PROVE  up
  BY <1>1 DEF Handler, Arrive, CheckLimit, Lookup, Create, SaveNew, Spawn, FreeHeld
<1>2. ASSUME NEW r \in Req, NEW g \in Gid, SnmpGet(r, g)
      PROVE  up
  BY <1>2 DEF SnmpGet, Begin, Return, Interrupted, Deliver, Receive, ReadFlag, KickHeld,
              Open, Crash
<1>3. CASE Clean \/ Time \/ Reload
  BY <1>3 DEF Clean, Time, Reload, Tick, Cleaner, CleanerLock, CleanerExpire, CleanerSkip,
              CleanerProbe, CleanerProbed, CleanerUnlock, Visit
<1>4. QED
  BY <1>1, <1>2, <1>3 DEF Next

\* No step kills the process while all addresses are at rest and every client
\* that somebody can use has tries.
LEMMA StepKeepsAlive ==
    ASSUME ColInv, AnswerInv, UseInv, [Next]_vars
    PROVE  DeathNeedsDisturbance'
<1>0. CASE UNCHANGED vars
  <2>1. Cached' = Cached /\ \A r \in Req : InFlight(r)' <=> InFlight(r)
    BY <1>0 DEF vars, poolVars, colVars, goVars, Cached, Filled, At, InFlight, Running
  <2>2. up' = up /\ tainted' = tainted /\ snmpsess' = snmpsess
    BY <1>0 DEF vars, poolVars, colVars, holdVars
  <2>3. \A s \in Mute : Unreferenced(s)' <=> Unreferenced(s)
    BY <2>1, <2>2 DEF Unreferenced
  <2>4. QED
    BY <2>2, <2>3 DEF UseInv, DeathNeedsDisturbance
<1>1. CASE Next /\ ~(UNCHANGED vars)
  <2> SUFFICES ASSUME ~up', tainted' = {}, \A s \in Mute : Unreferenced(s)'
               PROVE  FALSE
    BY DEF DeathNeedsDisturbance
  <2>0. up /\ tainted = {}
    <3>1. PICK ips : Disturb(ips)
      BY <1>1, StepDisturbs
    <3>2. QED
      BY <1>1, <3>1, StepNeedsProcess DEF Disturb
  <2>1. ASSUME NEW r \in Req, InFlight(r)', snmpsess' = snmpsess, snmpsess[r] \in Mute
        PROVE  FALSE
    BY <2>1 DEF Unreferenced
  <2>2. ASSUME NEW r \in Req, NEW g \in Gid, Interrupted(r, g)
        PROVE  FALSE
    <3>1. gpc[r][g] = "io" /\ ~conn[snmpsess[r]] /\ snmpsess' = snmpsess /\ gpc' = gpc
      BY <2>2 DEF Interrupted, holdVars, goVars
    <3>2. InFlight(r)'
      BY <3>1 DEF InFlight, Running
    <3>3. snmpsess[r] \notin Mute
      BY <2>1, <3>1, <3>2
    <3>4. CASE Alone(r)
      BY <3>1, <3>3, <3>4 DEF UseInv, Private, Alone
    <3>5. CASE Held(r) \in Filled /\ At(Held(r)).Sess = snmpsess[r]
      BY <3>1, <3>3, <3>5 DEF ColInv, PoolInv, CachedOpen
    <3>6. QED
      BY <2>0, <3>1, <3>4, <3>5, WorkerAtRest
  <2>3. ASSUME NEW r \in Req, NEW g \in Gid, KickHeld(r, g)
        PROVE  FALSE
    <3>1. karg[r][g] = -1
      BY <2>0, <2>3 DEF KickHeld, UseInv, Kicks, KicksOf
    <3>2. up' = up
      BY <2>3, <3>1 DEF KickHeld, poolVars
    <3>3. QED
      BY <2>0, <3>2
  <2>4. ASSUME NEW r \in Req, NEW g \in Gid, Begin(r, g)
        PROVE  FALSE
    <3>1. /\ snmpsess[r] \in Mute /\ snmpsess' = snmpsess
          /\ gpc[r][g] = "wait" /\ gpc' = gpc
      BY <2>0, <2>4 DEF Begin, Open, holdVars, poolVars
    <3>2. InFlight(r)'
      BY <3>1 DEF InFlight, Running
    <3>3. QED
      BY <2>1, <3>1, <3>2
  <2>5. ASSUME NEW r \in Req, NEW g \in Gid, SnmpGet(r, g)
        PROVE  FALSE
    BY <2>0, <2>2, <2>3, <2>4, <2>5 DEF SnmpGet, Return, Deliver, Receive, ReadFlag, poolVars
  <2>6. ASSUME NEW r \in Req, SaveNew(r)
        PROVE  FALSE
    <3>1. /\ snmpsess[r] \in Mute /\ snmpsess' = snmpsess
          /\ pc[r] = "save" /\ pc' = pc
      BY <2>0, <2>6 DEF SaveNew, OpenAndSave, Save, holdVars, poolVars
    <3>2. InFlight(r)'
      BY <3>1 DEF InFlight
    <3>3. QED
      BY <2>1, <3>1, <3>2
  <2>7. ASSUME NEW r \in Req, Arrive(r) \/ Handler(r)
        PROVE  FALSE
    BY <2>0, <2>6, <2>7 DEF Handler, Arrive, CheckLimit, Lookup, Create, Spawn, FreeHeld,
                            GetCacheSess, NewSNMP, Free, poolVars
  <2>8. CASE Clean \/ Time \/ Reload
    BY <2>0, <2>8 DEF Clean, Time, Reload, poolVars, Tick, Cleaner, CleanerLock,
                      CleanerExpire, CleanerSkip, CleanerProbe, CleanerProbed, CleanerUnlock
  <2>9. QED
    BY <1>1, <2>5, <2>7, <2>8 DEF Next
<1>2. QED
  BY <1>0, <1>1

\* Every step keeps who uses which session, and when.
LEMMA StepKeepsUse ==
    ColInv /\ ColInv' /\ AnswerInv /\ UseInv /\ [Next]_vars => UseInv'
<1> SUFFICES ASSUME ColInv, ColInv', AnswerInv, UseInv, [Next]_vars
             PROVE  UseInv'
  OBVIOUS
<1>1. Flags'
  BY StepKeepsFlags DEF UseInv
<1>2. Mine' /\ Apart'
  BY <1>1, StepKeepsHeld
<1>3. Private'
  BY StepKeepsPrivate DEF UseInv
<1>4. Turns'
  BY StepKeepsTurns DEF UseInv
<1>5. Orphans' /\ Kicks'
  BY StepKeepsOrphans, StepKeepsKicks DEF UseInv
<1>6. Probing'
  BY StepKeepsProbing DEF UseInv
<1>7. DeathNeedsDisturbance'
  BY StepKeepsAlive
<1>8. QED
  BY <1>1, <1>2, <1>3, <1>4, <1>5, <1>6, <1>7 DEF UseInv

\* At an address at rest every index means what its holder takes it to mean,
\* always.
THEOREM UseInvariant == Spec => []UseInv
<1>1. Init => UseInv
  <2> SUFFICES ASSUME Init
               PROVE  UseInv
    OBVIOUS
  <2>1. \A r \in Req : /\ pc[r] = "new" /\ slotc[r] = -1
                       /\ \A g \in Gid : gpc[r][g] = "none"
    BY DEF Init
  <2>2. probe = Nil /\ up
    BY DEF Init, PoolInit
  <2>3. \A r \in Req : Unsent(r) = {}
    BY <2>1 DEF Unsent, Owing, Outcome
  <2>4. Flags /\ Mine /\ Apart /\ Private
    BY <2>1 DEF Flags, FlagsOf, Mine, MineOf, Apart, Private, Using
  <2>5. Turns /\ Orphans /\ Kicks
    BY <2>1, <2>3 DEF Turns, TurnsOf, Orphans, Kicks, KicksOf, Taking, Outcome
  <2>6. Probing /\ DeathNeedsDisturbance
    BY <2>2 DEF Probing, DeathNeedsDisturbance
  <2>7. QED
    BY <2>4, <2>5, <2>6 DEF UseInv
<1>2. ColInv /\ ColInv' /\ AnswerInv /\ UseInv /\ [Next]_vars => UseInv'
  BY StepKeepsUse
<1>3. QED
  BY <1>1, <1>2, ColInvariant, AnswerInvariant, PTL DEF Spec

\* The process dies of a nil session in Kick, of a connection closed under an
\* operation or of a nil pdu only after a disturbance, or while a client with a
\* negative number of retries is in use or in the cache (pool.go:60).
THEOREM AliveUnlessDisturbed == Spec => []DeathNeedsDisturbance
BY UseInvariant, PTL DEF UseInv

\* Requests on one session never overlap, and the cleaner tests no session in
\* use, as long as nothing has disturbed the address.
THEOREM UseIsSerial == Spec => []SerialUnlessDisturbed
<1>1. ColInv /\ AnswerInv /\ UseInv => SerialUnlessDisturbed
  <2> SUFFICES ASSUME ColInv, AnswerInv, UseInv, NEW s \in SNMP, args[s] # Nil,
                      args[s].ip \notin tainted
               PROVE  Serial(s)
    BY DEF SerialUnlessDisturbed
  <2>1. ASSUME NEW r \in Req, NEW g \in Gid, gpc[r][g] = "io", snmpsess[r] = s
        PROVE  /\ req[r].ip \notin tainted
               /\ pc[r] = "recv" /\ g[1] = iter[r] /\ Holds(r)
               /\ \/ /\ Held(r) \in Filled /\ At(Held(r)).Sess = s
                     /\ ~At(Held(r)).Idle /\ slotc[r] >= 0
                  \/ Alone(r) /\ s \notin Cached
    <3>1. req[r].ip \notin tainted
      BY <2>1, GoroutineHasClient
    <3>2. QED
      BY <2>1, <3>1, WorkerAtRest
  <2>2. ASSUME NEW r \in Req, NEW g \in Gid, gpc[r][g] = "io", snmpsess[r] = s,
               NEW q \in Req, NEW h \in Gid, gpc[q][h] = "io", snmpsess[q] = s
        PROVE  r = q /\ g = h
    <3>1. CASE r = q
      <4>1. g[1] = h[1] /\ gpc[r][g] \in Taking /\ gpc[r][h] \in Taking
        BY <2>1, <2>2, <3>1 DEF Taking
      <4>2. QED
        BY <3>1, <4>1 DEF UseInv, Turns, TurnsOf
    <3>2. CASE r # q /\ (Alone(r) \/ Alone(q))
      <4>1. Holds(r) /\ Holds(q)
        BY <2>1, <2>2
      <4>2. QED
        BY <2>2, <3>2, <4>1 DEF UseInv, Private, Alone
    <3>3. CASE r # q /\ ~Alone(r) /\ ~Alone(q)
      <4>1. /\ Held(r) \in Filled /\ At(Held(r)).Sess = s /\ slotc[r] >= 0
            /\ Held(q) \in Filled /\ At(Held(q)).Sess = s /\ slotc[q] >= 0
            /\ req[r].ip \notin tainted
        BY <2>1, <2>2, <3>3
      <4>2. Held(r) = Held(q)
        BY <4>1 DEF ColInv, PoolInv, OneSlotPerSession
      <4>3. QED
        BY <3>3, <4>1, <4>2 DEF UseInv, Apart
    <3>4. QED
      BY <3>1, <3>2, <3>3
  <2>3. ASSUME probe # Nil, At(probe).Sess = s,
               NEW r \in Req, NEW g \in Gid, gpc[r][g] = "io", snmpsess[r] = s
        PROVE  FALSE
    <3>1. probe \in Filled /\ At(probe).Idle
      BY <2>3 DEF ColInv, PoolInv, SweepUndisturbed, UseInv, Probing
    <3>2. s \in Cached
      BY <2>3, <3>1 DEF Cached
    <3>3. Held(r) \in Filled /\ At(Held(r)).Sess = s /\ ~At(Held(r)).Idle
      BY <2>1, <2>3, <3>2
    <3>4. Held(r) = probe
      BY <2>3, <3>1, <3>3 DEF ColInv, PoolInv, OneSlotPerSession
    <3>5. QED
      BY <3>1, <3>3, <3>4
  <2>4. \A u \in Users(s) : /\ u[1] \in Req /\ u[2] \in Gid /\ u = <<u[1], u[2]>>
                            /\ gpc[u[1]][u[2]] = "io" /\ snmpsess[u[1]] = s
    BY DEF Users
  <2>5. \A u, v \in Users(s) : u = v
    BY <2>2, <2>4
  <2>6. probe # Nil /\ At(probe).Sess = s => Users(s) = {}
    BY <2>3, <2>4
  <2>7. QED
    BY <2>5, <2>6 DEF Serial
<1>2. QED
  BY <1>1, ColInvariant, AnswerInvariant, UseInvariant, PTL
=============================================================================
