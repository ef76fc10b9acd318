---------------------------- MODULE ProcessProofs ----------------------------
(***************************************************************************)
(* Safety of what the requests share, for any number of goroutines, any    *)
(* oids, any length of the lists and any size of the log.                  *)
(*                                                                         *)
(* Oid cache: the map holds accepted texts only, and what a call has       *)
(* returned so far are the oids of the texts before Cur, all of them       *)
(* accepted, unless a read of the call overlapped with a write.            *)
(*                                                                         *)
(* Log: while logmonitor is between Close and SetLogfile the handle is     *)
(* closed and nothing has failed yet.                                      *)
(***************************************************************************)
EXTENDS Process, TLAPS

\* What a goroutine is doing.
TaskType ==
    [pc : {"idle", "call", "read", "torn", "parse", "put", "write", "done", "failed"},
     texts : Seq(Text), oids : Seq(Text \cup {None}), torn : BOOLEAN]

\* The texts before Cur were returned as they are and accepted.
Exact(r) == \A k \in 1 .. Len(r.oids) : r.oids[k] = r.texts[k] /\ r.texts[k] \in GoodText

\* Where a call is, and what it knows of the text whose turn it is.
TaskInv(r) ==
    /\ Len(r.texts) <= MaxTexts
    /\ r.pc = "idle" => r = Idle
    /\ r.pc = "done" => Len(r.oids) = Len(r.texts)
    /\ r.pc \notin {"idle", "done"} => Len(r.oids) < Len(r.texts)
    /\ r.pc \in {"put", "write"} => r.texts[Len(r.oids) + 1] \in GoodText
    /\ r.pc = "failed" => r.texts[Len(r.oids) + 1] \in BadText
    /\ ~r.torn => r.pc # "torn" /\ Exact(r)

\* The inductive invariant of the oid cache: only accepted texts are stored, and
\* only the holder of pLock writes.
OidInv ==
    /\ up \in BOOLEAN /\ oid \subseteq GoodText /\ pLock \in Task \cup {None}
    /\ task \in [Task -> TaskType]
    /\ \A t \in Task : TaskInv(task[t]) /\ (task[t].pc = "write" <=> pLock = t)

\* The inductive invariant of the log.
LogInv ==
    /\ LogTypeOK /\ RestingOpen
    /\ mon \in {"rename", "reopen"} => handle = "closed" /\ ~failed

-----------------------------------------------------------------------------
(* Steps of one call.                                                      *)

\* The text whose turn it is.
LEMMA CurType ==
    ASSUME NEW r \in TaskType, Len(r.oids) < Len(r.texts)
    PROVE  r.texts[Len(r.oids) + 1] \in Text
<1>1. r.texts \in Seq(Text) /\ Len(r.oids) \in Nat /\ Len(r.texts) \in Nat
  BY DEF TaskType
<1>2. QED
  BY <1>1

\* GetParseOid returns an oid: the call is still a call, and exact if the oid is
\* the text itself and the text was accepted.
LEMMA ReturnInv ==
    ASSUME NEW r \in TaskType, TaskInv(r), r.pc \notin {"idle", "done"},
           NEW o \in Text \cup {None},
           ~r.torn => o = r.texts[Len(r.oids) + 1] /\ o \in GoodText
    PROVE  LET oids == Append(r.oids, o)
               s == [r EXCEPT !.oids = oids,
                              !.pc = IF Len(oids) = Len(r.texts) THEN "done" ELSE "call"]
           IN  s \in TaskType /\ TaskInv(s)
<1> DEFINE oids == Append(r.oids, o)
<1> DEFINE s == [r EXCEPT !.oids = oids,
                          !.pc = IF Len(oids) = Len(r.texts) THEN "done" ELSE "call"]
<1>1. /\ r.texts \in Seq(Text) /\ r.oids \in Seq(Text \cup {None}) /\ r.torn \in BOOLEAN
      /\ Len(r.oids) < Len(r.texts) /\ Len(r.texts) <= MaxTexts
  BY DEF TaskType, TaskInv
<1>2. /\ oids \in Seq(Text \cup {None}) /\ Len(oids) = Len(r.oids) + 1
      /\ Len(r.oids) \in Nat /\ Len(r.texts) \in Nat
      /\ \A k \in 1 .. Len(r.oids) : oids[k] = r.oids[k]
      /\ oids[Len(r.oids) + 1] = o
  BY <1>1
<1> HIDE DEF oids
<1>3. /\ s.texts = r.texts /\ s.oids = oids /\ s.torn = r.torn
      /\ s.pc = IF Len(oids) = Len(r.texts) THEN "done" ELSE "call"
  BY DEF TaskType
<1>4. s \in TaskType
  BY <1>1, <1>2 DEF TaskType
<1> HIDE DEF s
<1>5. ~s.torn => Exact(s)
  BY <1>1, <1>2, <1>3 DEF TaskInv, Exact
<1>6. TaskInv(s)
  BY <1>1, <1>2, <1>3, <1>5 DEF TaskInv
<1>7. QED
  BY <1>4, <1>6 DEF s, oids

\* Another point of the call: what the point demands is all there is to show.
LEMMA GotoInv ==
    ASSUME NEW r \in TaskType, TaskInv(r), r.pc \notin {"idle", "done"},
           NEW to \in {"read", "parse", "put", "write", "failed"},
           to \in {"put", "write"} => r.texts[Len(r.oids) + 1] \in GoodText,
           to = "failed" => r.texts[Len(r.oids) + 1] \in BadText
    PROVE  /\ [r EXCEPT !.pc = to] \in TaskType /\ TaskInv([r EXCEPT !.pc = to])
           /\ [r EXCEPT !.pc = to].pc = to
BY DEF TaskType, TaskInv, Exact

\* A read that overlaps with a write promises nothing.
LEMMA TornInv ==
    ASSUME NEW r \in TaskType, TaskInv(r), r.pc \notin {"idle", "done"}
    PROVE  LET s == [r EXCEPT !.pc = "torn", !.torn = TRUE]
           IN  s \in TaskType /\ TaskInv(s) /\ s.pc = "torn"
BY DEF TaskType, TaskInv

\* A step of one goroutine that does not enter or leave PutParseOid.
LEMMA TaskStep ==
    ASSUME OidInv, NEW t \in Task, NEW r \in TaskType, TaskInv(r), Set(t, r),
           task[t].pc # "write", r.pc # "write", UNCHANGED <<up, oid, pLock>>
    PROVE  OidInv'
BY DEF OidInv, Set

-----------------------------------------------------------------------------
(* The steps of the oid cache.                                             *)

\* A process that starts has cached nothing.
LEMMA OidInitInv == up = TRUE /\ OidInit => OidInv
BY OidPoolAssumption DEF OidInit, OidInv, TaskType, TaskInv, Exact, Idle

\* A call of GetParseOids and its end.
LEMMA CallKeeps ==
    ASSUME OidInv, NEW t \in Task,
           (\E texts \in Lists : GetParseOids(t, texts)) \/ Leave(t)
    PROVE  OidInv'
<1>1. CASE Leave(t)
  <2>1. Idle \in TaskType /\ TaskInv(Idle) /\ Idle.pc = "idle"
    BY OidPoolAssumption DEF TaskType, TaskInv, Exact, Idle
  <2>2. QED
    BY <1>1, <2>1, TaskStep DEF Leave
<1>2. CASE \E texts \in Lists : GetParseOids(t, texts)
  <2>1. PICK texts \in Lists : GetParseOids(t, texts)
    BY <1>2
  <2>2. PICK n \in 1 .. MaxTexts : texts \in [1 .. n -> Text]
    BY <2>1 DEF Lists
  <2>3. texts \in Seq(Text) /\ Len(texts) = n /\ n <= MaxTexts /\ n > 0
    BY <2>2, OidPoolAssumption
  <2> DEFINE r == [Idle EXCEPT !.pc = "call", !.texts = texts]
  <2>4. r.pc = "call" /\ r.texts = texts /\ r.oids = <<>> /\ r.torn = FALSE /\ r \in TaskType
    <3>1. Idle \in TaskType /\ Idle.oids = <<>> /\ Idle.torn = FALSE
      BY DEF Idle, TaskType
    <3>2. QED
      BY <2>3, <3>1 DEF TaskType
  <2> HIDE DEF r
  <2>5. TaskInv(r)
    BY <2>3, <2>4 DEF TaskInv, Exact
  <2>6. Set(t, r) /\ task[t].pc = "idle" /\ UNCHANGED <<up, oid, pLock>>
    BY <2>1 DEF GetParseOids, r
  <2>7. QED
    BY <2>4, <2>5, <2>6, TaskStep
<1>3. QED
  BY <1>1, <1>2

\* GetParseOid reads the map.
LEMMA ReadKeeps ==
    ASSUME OidInv, NEW t \in Task,
           BeginRead(t) \/ Hit(t) \/ Miss(t) \/ HalfHit(t)
    PROVE  OidInv'
<1>1. task[t] \in TaskType /\ TaskInv(task[t])
  BY DEF OidInv
<1>2. CASE BeginRead(t)
  <2>1. task[t].pc = "call"
    BY <1>2 DEF BeginRead
  <2>2. CASE Clash
    BY <2>2 DEF Clash, OidInv
  <2>3. CASE Set(t, [task[t] EXCEPT !.pc = "read"]) /\ UNCHANGED <<up, oid, pLock>>
    BY <1>1, <2>1, <2>3, GotoInv, TaskStep
  <2>4. CASE Set(t, Torn(t)) /\ UNCHANGED <<up, oid, pLock>>
    BY <1>1, <2>1, <2>4, TornInv, TaskStep DEF Torn
  <2>5. QED
    BY <1>2, <2>2, <2>3, <2>4 DEF BeginRead
<1>3. ASSUME NEW o \in Text \cup {None}, Return(t, o), task[t].pc \in {"read", "torn"},
             ~task[t].torn => o = Cur(t) /\ o \in GoodText,
             UNCHANGED <<up, oid, pLock>>
      PROVE  OidInv'
  <2> DEFINE oids == Append(task[t].oids, o)
             r == [task[t] EXCEPT !.oids = oids,
                        !.pc = IF Len(oids) = Len(task[t].texts) THEN "done" ELSE "call"]
  <2>1. r \in TaskType /\ TaskInv(r)
    BY <1>1, <1>3, ReturnInv DEF Cur
  <2>2. Set(t, r)
    BY <1>3 DEF Return
  <2>3. r.pc # "write"
    BY <1>1 DEF TaskType
  <2> HIDE DEF r
  <2>4. QED
    BY <1>3, <2>1, <2>2, <2>3, TaskStep
<1>4. CASE Hit(t)
  <2>1. Cur(t) \in GoodText
    BY <1>4 DEF Hit, OidInv
  <2>2. QED
    BY <1>3, <1>4, <2>1 DEF Hit, Text
<1>5. CASE HalfHit(t)
  <2>1. task[t].torn
    BY <1>1, <1>5 DEF HalfHit, TaskInv
  <2>2. QED
    BY <1>3, <1>5, <2>1 DEF HalfHit
<1>6. CASE Miss(t)
  BY <1>1, <1>6, GotoInv, TaskStep DEF Miss, Goto
<1>7. QED
  BY <1>2, <1>4, <1>5, <1>6

\* NewOid accepts or refuses the text.
LEMMA NewOidKeeps ==
    ASSUME OidInv, NEW t \in Task, NewOid(t)
    PROVE  OidInv'
<1>1. task[t] \in TaskType /\ TaskInv(task[t])
  BY DEF OidInv
<1>2. QED
  BY <1>1, GotoInv, TaskStep DEF NewOid, Goto, Cur

\* PutParseOid begins: every read under way is torn from now on.
LEMMA BeginPutKeeps ==
    ASSUME OidInv, NEW t \in Task, BeginPut(t)
    PROVE  OidInv'
<1>1. \A s \in Task : task[s] \in TaskType /\ TaskInv(task[s]) /\ task[s].pc # "write"
  BY OidPoolAssumption DEF OidInv, BeginPut
<1>2. task[t].pc = "put" /\ UNCHANGED <<up, oid>> /\ pLock' = t /\ pLock = None
  BY DEF BeginPut
<1>3. ASSUME NEW s \in Task
      PROVE  /\ task'[s] \in TaskType /\ TaskInv(task'[s])
             /\ task'[s].pc = "write" <=> s = t
  <2>1. CASE s = t
    <3>1. task'[s] = [task[t] EXCEPT !.pc = "write"]
      BY <2>1 DEF BeginPut
    <3>2. task[t].texts[Len(task[t].oids) + 1] \in GoodText
      BY <1>1, <1>2 DEF TaskInv
    <3> DEFINE r == [task[t] EXCEPT !.pc = "write"]
    <3>3. r \in TaskType /\ TaskInv(r) /\ r.pc = "write"
      BY <1>1, <1>2, <3>2, GotoInv
    <3> HIDE DEF r
    <3>4. QED
      BY <2>1, <3>1, <3>3 DEF r
  <2>2. CASE s # t /\ task[s].pc = "read"
    <3>1. task'[s] = [task[s] EXCEPT !.pc = "torn", !.torn = TRUE]
      BY <2>2 DEF BeginPut, Torn
    <3>2. QED
      BY <1>1, <2>2, <3>1, TornInv
  <2>3. CASE s # t /\ task[s].pc # "read"
    <3>1. task'[s] = task[s]
      BY <2>3 DEF BeginPut
    <3>2. QED
      BY <1>1, <2>3, <3>1
  <2>4. QED
    BY <2>1, <2>2, <2>3
<1>4. task' = [s \in Task |-> task'[s]]
  BY DEF BeginPut
<1>5. task' \in [Task -> TaskType]
  BY <1>3, <1>4
<1>6. QED
  BY <1>2, <1>3, <1>5 DEF OidInv

\* It ends: the text it stores was accepted.
LEMMA EndPutKeeps ==
    ASSUME OidInv, NEW t \in Task, EndPut(t)
    PROVE  OidInv'
<1>1. task[t] \in TaskType /\ TaskInv(task[t]) /\ task[t].pc = "write" /\ pLock = t
  BY DEF OidInv, EndPut
<1>2. Cur(t) \in GoodText
  BY <1>1 DEF TaskInv, Cur
<1> DEFINE oids == Append(task[t].oids, Cur(t))
           r == [task[t] EXCEPT !.oids = oids,
                      !.pc = IF Len(oids) = Len(task[t].texts) THEN "done" ELSE "call"]
<1>3. r \in TaskType /\ TaskInv(r)
  BY <1>1, <1>2, ReturnInv DEF Cur, Text
<1>4. r.pc # "write"
  BY <1>1 DEF TaskType
<1>5. task' = [task EXCEPT ![t] = r]
  BY DEF EndPut, Return, Set
<1> HIDE DEF r
<1>6. oid' \subseteq GoodText /\ pLock' = None /\ up' = up
  BY <1>2 DEF EndPut, OidInv
<1>7. QED
  BY <1>1, <1>3, <1>4, <1>5, <1>6, OidPoolAssumption DEF OidInv

-----------------------------------------------------------------------------
(* The steps of the log.                                                   *)

\* The first opening succeeds or has failed.
LEMMA LogInitInv == LogInit /\ logarchsize \in Archsize => LogInv
<1> SUFFICES ASSUME LogInit, logarchsize \in Archsize
             PROVE  LogInv
  OBVIOUS
<1>1. \/ handle = "open" /\ present /\ ~failed
      \/ handle = "nil" /\ failed
  <2>1. CASE handle = "open" /\ present = TRUE /\ failed = FALSE
    BY <2>1
  <2>2. CASE handle = "nil" /\ failed = TRUE
    BY <2>2
  <2>3. QED
    BY <2>1, <2>2 DEF LogInit
<1>2. present \in BOOLEAN /\ failed \in BOOLEAN /\ mon = "sleep"
  BY DEF LogInit
<1>3. size \in 0 .. MaxSize /\ (size > 0 => present)
  BY LoggerAssumption DEF LogInit
<1>4. LogTypeOK
  BY <1>1, <1>2, <1>3, ProcessAssumption DEF LogTypeOK
<1>5. RestingOpen
  BY <1>1 DEF RestingOpen
<1>6. QED
  BY <1>2, <1>4, <1>5 DEF LogInv

\* A line, and a reload, which may change what size is too big.
LEMMA LineKeeps ==
    ASSUME LogInv, size' = Grown, logarchsize' \in Int,
           UNCHANGED <<handle, present, mon, failed>>
    PROVE  LogInv'
<1>1. Grown \in 0 .. MaxSize /\ (Grown > 0 => present)
  BY LoggerAssumption DEF LogInv, LogTypeOK, RestingOpen, Grown
<1>2. QED
  BY <1>1 DEF LogInv, LogTypeOK, RestingOpen

\* A step of logmonitor, failing or not.
LEMMA MonitorKeeps ==
    ASSUME LogInv, Wake \/ Close \/ Rename \/ SetLogfile
    PROVE  LogInv'
<1>1. CASE Wake
  BY <1>1 DEF Wake, LogInv, LogTypeOK, RestingOpen
<1>2. CASE Close
  <2>1. mon = "close" /\ handle' # "open" /\ handle' \in {"closed", "nil"}
    BY <1>2 DEF Close, LogInv, LogTypeOK
  <2>2. CASE handle = "open" /\ mon' = "rename" /\ UNCHANGED failed
    <3>1. ~failed' /\ handle' = "closed"
      BY <1>2, <2>1, <2>2 DEF Close, LogInv, RestingOpen
    <3>2. QED
      BY <1>2, <2>1, <2>2, <3>1 DEF Close, LogInv, LogTypeOK, RestingOpen
  <2>3. CASE mon' = "sleep" /\ failed' = TRUE
    BY <1>2, <2>1, <2>3 DEF Close, LogInv, LogTypeOK, RestingOpen
  <2>4. QED
    BY <1>2, <2>2, <2>3 DEF Close
<1>3. CASE Rename
  <2>1. mon = "rename" /\ handle = "closed" /\ handle' = "closed" /\ ~failed
    BY <1>3 DEF Rename, LogInv
  <2>2. CASE mon' = "reopen" /\ present' = FALSE /\ size' = 0 /\ UNCHANGED failed
    <3>1. size' \in 0 .. MaxSize /\ ~(size' > 0)
      BY <2>2, LoggerAssumption
    <3>2. present' \in BOOLEAN /\ failed' \in BOOLEAN /\ ~failed' /\ logarchsize' \in Int
      BY <1>3, <2>1, <2>2 DEF Rename, LogInv, LogTypeOK
    <3>3. QED
      BY <2>1, <2>2, <3>1, <3>2 DEF LogInv, LogTypeOK, RestingOpen
  <2>3. CASE mon' = "sleep" /\ failed' = TRUE /\ UNCHANGED <<present, size>>
    BY <1>3, <2>1, <2>3 DEF Rename, LogInv, LogTypeOK, RestingOpen
  <2>4. QED
    BY <1>3, <2>2, <2>3 DEF Rename
<1>4. CASE SetLogfile
  <2>1. mon = "reopen" /\ mon' = "sleep" /\ ~failed
    BY <1>4 DEF SetLogfile, LogInv
  <2>2. CASE handle' = "open" /\ present' = TRUE /\ UNCHANGED failed
    BY <1>4, <2>1, <2>2 DEF SetLogfile, LogInv, LogTypeOK, RestingOpen
  <2>3. CASE handle' = "nil" /\ failed' = TRUE /\ UNCHANGED present
    BY <1>4, <2>1, <2>3 DEF SetLogfile, LogInv, LogTypeOK, RestingOpen
  <2>4. QED
    BY <1>4, <2>2, <2>3 DEF SetLogfile
<1>5. QED
  BY <1>1, <1>2, <1>3, <1>4

-----------------------------------------------------------------------------
(* The process.                                                            *)

\* A step of a goroutine is one of the steps of the oid cache above.
LEMMA GoroutineKeeps ==
    ASSUME OidInv, NEW t \in Task, Logged(t) \/ Silent(t)
    PROVE  OidInv'
BY CallKeeps, ReadKeeps, NewOidKeeps, BeginPutKeeps, EndPutKeeps DEF Logged, Silent

\* Every step keeps both invariants.
LEMMA NextKeeps == OidInv /\ LogInv /\ [Next]_vars => OidInv' /\ LogInv'
<1> SUFFICES ASSUME OidInv, LogInv, [Next]_vars
             PROVE  OidInv' /\ LogInv'
  OBVIOUS
<1>1. UNCHANGED oidVars => OidInv'
  BY DEF OidInv, oidVars
<1>2. UNCHANGED logVars => LogInv'
  BY DEF LogInv, LogTypeOK, RestingOpen, logVars
<1>3. UNCHANGED logarchsize => logarchsize' \in Int
  BY DEF LogInv, LogTypeOK
<1>4. CASE UNCHANGED vars
  BY <1>1, <1>2, <1>4 DEF vars
<1>5. ASSUME NEW t \in Task, Logged(t)
      PROVE  OidInv' /\ LogInv'
  BY <1>3, <1>5, GoroutineKeeps, LineKeeps DEF Logged, Println
<1>6. ASSUME NEW t \in Task, Silent(t)
      PROVE  OidInv' /\ LogInv'
  BY <1>2, <1>6, GoroutineKeeps DEF Silent
<1>7. CASE Monitor
  BY <1>1, <1>7, MonitorKeeps DEF Monitor
<1>8. CASE Reload
  BY <1>1, <1>8, LineKeeps, ProcessAssumption DEF Reload
<1>9. QED
  BY <1>4, <1>5, <1>6, <1>7, <1>8 DEF Next

\* The inductive invariants hold in every reachable state.
THEOREM ProcessInvariant == Spec => [](OidInv /\ LogInv)
<1>1. Init => OidInv /\ LogInv
  BY OidInitInv, LogInitInv DEF Init
<1>2. QED
  BY <1>1, NextKeeps, PTL DEF Spec

\* Type correctness of what the requests share; pLock is held exactly by the
\* goroutine that writes the map.
THEOREM TypeCorrect == Spec => []TypeOK
<1>1. OidInv => OidTypeOK
  <2> SUFFICES ASSUME OidInv
               PROVE  OidTypeOK
    OBVIOUS
  <2>1. ASSUME NEW t \in Task
        PROVE  /\ task[t].pc \in {"idle", "call", "read", "torn", "parse", "put", "write", "done", "failed"}
               /\ Len(task[t].oids) <= Len(task[t].texts) /\ Len(task[t].texts) <= MaxTexts
    <3>1. task[t] \in TaskType /\ TaskInv(task[t])
      BY DEF OidInv
    <3>2. Len(task[t].oids) \in Nat /\ Len(task[t].texts) \in Nat
      BY <3>1 DEF TaskType
    <3>3. task[t].pc = "idle" => Len(task[t].oids) = 0
      BY <3>1 DEF TaskInv, Idle
    <3>4. QED
      BY <3>1, <3>2, <3>3 DEF TaskInv, TaskType
  <2>2. QED
    BY <2>1 DEF OidInv, OidTypeOK, Text
<1>2. LogInv => LogTypeOK
  BY DEF LogInv
<1>3. QED
  BY <1>1, <1>2, ProcessInvariant, PTL DEF TypeOK

\* A call of GetParseOids that no write disturbed returns exactly the oids of its
\* texts, and fails exactly if one of them is refused, whatever other calls cached
\* in whatever order (oidpool.go).
THEOREM UndisturbedCallIsRight == Spec => []ParsedRight
<1>1. OidInv => ParsedRight
  <2> SUFFICES ASSUME OidInv, NEW t \in Task, ~task[t].torn
               PROVE  LET bad == {k \in DOMAIN task[t].texts : task[t].texts[k] \in BadText}
                      IN  /\ task[t].pc = "done" => task[t].oids = task[t].texts /\ bad = {}
                          /\ task[t].pc = "failed" => bad # {}
    BY DEF ParsedRight
  <2> DEFINE texts == task[t].texts
             oids == task[t].oids
  <2>1. texts \in Seq(Text) /\ oids \in Seq(Text \cup {None})
    BY DEF OidInv, TaskType
  <2>2. \A k \in 1 .. Len(oids) : oids[k] = texts[k] /\ texts[k] \in GoodText
    BY DEF OidInv, TaskInv, Exact
  <2>3. task[t].pc = "done" => Len(oids) = Len(texts)
    BY DEF OidInv, TaskInv
  <2>4. task[t].pc = "failed" => Len(oids) < Len(texts) /\ texts[Len(oids) + 1] \in BadText
    BY DEF OidInv, TaskInv
  <2> HIDE DEF texts, oids
  <2>5. ASSUME task[t].pc = "done"
        PROVE  oids = texts /\ {k \in DOMAIN texts : texts[k] \in BadText} = {}
    BY <2>1, <2>2, <2>3, <2>5, OidPoolAssumption
  <2>6. ASSUME task[t].pc = "failed"
        PROVE  {k \in DOMAIN texts : texts[k] \in BadText} # {}
    <3>1. Len(oids) + 1 \in DOMAIN texts
      BY <2>1, <2>4, <2>6
    <3>2. QED
      BY <2>4, <2>6, <3>1
  <2>7. QED
    BY <2>5, <2>6 DEF texts, oids
<1>2. QED
  BY <1>1, ProcessInvariant, PTL

\* Between two rotations the log goes to the file that is looked at exactly as long
\* as no step of a rotation failed (logger.go:119).
THEOREM LogOpenUnlessFailed == Spec => []RestingOpen
<1>1. LogInv => RestingOpen
  BY DEF LogInv
<1>2. QED
  BY <1>1, ProcessInvariant, PTL

\* Once all oids in use are cached no step writes the map again or ends the
\* process: the race of a read with a write is one of a cold cache.
THEOREM WarmCacheIsSafe == Spec => WarmStaysSafe
<1>1. ASSUME OidInv, [Next]_vars, Warm
      PROVE  (Warm' /\ up' = up) \/ UNCHANGED oidVars
  <2>1. pLock = None
    BY <1>1 DEF OidInv, Warm
  <2>2. ASSUME NEW t \in Task, NEW r, Set(t, r), UNCHANGED <<up, oid, pLock>>,
               r.pc \notin {"torn", "put", "write"},
               r.pc = "parse" => r.texts[Len(r.oids) + 1] \in BadText
        PROVE  Warm' /\ up' = up
    <3>1. task' = [task EXCEPT ![t] = r] /\ task \in [Task -> TaskType]
      BY <1>1, <2>2 DEF Set, OidInv
    <3>2. QED
      BY <1>1, <2>2, <3>1 DEF Warm, Cur
  <2>3. ASSUME NEW t \in Task, Logged(t) \/ Silent(t)
        PROVE  Warm' /\ up' = up
    <3>1. task[t] \in TaskType /\ TaskInv(task[t]) /\ task[t].pc \notin {"torn", "put", "write"}
      BY <1>1 DEF OidInv, Warm
    <3>2. CASE \E texts \in Lists : GetParseOids(t, texts)
      <4>1. PICK texts \in Lists : GetParseOids(t, texts)
        BY <3>2
      <4>2. [Idle EXCEPT !.pc = "call", !.texts = texts].pc = "call"
        BY DEF Idle
      <4>3. QED
        BY <2>2, <4>1, <4>2 DEF GetParseOids
    <3>3. CASE Leave(t)
      BY <2>2, <3>3 DEF Leave, Idle
    <3>4. CASE BeginRead(t)
      <4>1. Set(t, [task[t] EXCEPT !.pc = "read"]) /\ UNCHANGED <<up, oid, pLock>>
        BY <2>1, <3>4 DEF BeginRead
      <4>2. [task[t] EXCEPT !.pc = "read"].pc = "read"
        BY <3>1 DEF TaskType
      <4>3. QED
        BY <2>2, <4>1, <4>2
    <3>5. CASE Hit(t)
      <4> DEFINE l == Append(task[t].oids, Cur(t))
                 r == [task[t] EXCEPT !.oids = l,
                          !.pc = IF Len(l) = Len(task[t].texts) THEN "done" ELSE "call"]
      <4>1. Set(t, r) /\ UNCHANGED <<up, oid, pLock>>
        BY <3>5 DEF Hit, Return
      <4>2. r.pc \in {"done", "call"}
        BY <3>1 DEF TaskType
      <4> HIDE DEF r
      <4>3. QED
        BY <2>2, <4>1, <4>2
    <3>6. CASE Miss(t)
      <4> DEFINE r == [task[t] EXCEPT !.pc = "parse"]
      <4>1. Set(t, r) /\ Cur(t) \notin oid /\ UNCHANGED <<up, oid, pLock>> /\ task[t].pc = "read"
        BY <3>1, <3>6 DEF Miss, Goto
      <4>2. Cur(t) \in BadText
        <5>1. Cur(t) \in Text
          BY <3>1, <4>1, CurType DEF TaskInv, Cur
        <5>2. QED
          BY <1>1, <4>1, <5>1 DEF Text, Warm
      <4>3. r.pc = "parse" /\ r.texts[Len(r.oids) + 1] = Cur(t)
        BY <3>1 DEF TaskType, Cur
      <4> HIDE DEF r
      <4>4. QED
        BY <2>2, <4>1, <4>2, <4>3
    <3>7. CASE NewOid(t)
      <4> DEFINE r == [task[t] EXCEPT !.pc = "failed"]
      <4>1. Set(t, r) /\ UNCHANGED <<up, oid, pLock>>
        BY <1>1, <3>7, OidPoolAssumption DEF NewOid, Goto, Warm
      <4>2. r.pc = "failed"
        BY <3>1 DEF TaskType
      <4> HIDE DEF r
      <4>3. QED
        BY <2>2, <4>1, <4>2
    <3>8. QED
      BY <2>3, <3>1, <3>2, <3>3, <3>4, <3>5, <3>6, <3>7
      DEF Logged, Silent, HalfHit, BeginPut, EndPut
  <2>4. QED
    BY <1>1, <2>3 DEF Next, vars, Monitor, Reload
<1>2. OidInv /\ [Next]_vars => [Warm => Warm' /\ up' = up]_oidVars
  BY <1>1
<1>3. QED
  BY <1>2, ProcessInvariant, PTL DEF Spec, WarmStaysSafe
=============================================================================
