---------------------------- MODULE DaemonProofs ----------------------------
(***************************************************************************)
(* Safety of the daemon's life for any number of processes, files and      *)
(* starts, with crashes anywhere: at most one daemon runs and the pid file *)
(* names it, unless another process removed the file under it.             *)
(*                                                                         *)
(* The inductive invariant ties three things together: a process between   *)
(* Lock and Unlock holds the lock of the file it has open (Locked), a      *)
(* process nobody raced has the file open that has the name (Named), and   *)
(* a daemon's file contains its pid (Written).                             *)
(***************************************************************************)
EXTENDS Daemon, FiniteSetTheorems, TLAPS

\* The points of a process between Lock and Unlock.
Held == {"locked", "born", "written", "main", "serving", "removing"}

\* Who holds a lock is between Lock and Unlock, and the other way round.
Locked ==
    /\ \A n \in Inode : lock[n] # None => pc[lock[n]] \in Held
    /\ \A p \in Proc : pc[p] \in Held => lock[fd[p]] = p

\* A process that nobody raced has the file open that has the name.
Named == \A p \in Proc \ raced : pc[p] # "off" => fd[p] = path

\* Nobody writes into the file of a daemon but itself, and it is not gone.
Written == \A p \in Proc : pc[p] \in {"written", "main", "serving"} => text[fd[p]] = p

\* The inductive invariant.
DaemonInv == TypeOK /\ Locked /\ Named /\ Written

-----------------------------------------------------------------------------
(* What every process can rely on.                                         *)

\* There are more files than processes, so one is always free for a new name.
LEMMA FreeFile ==
    ASSUME TypeOK, path = None
    PROVE  \E n \in Inode : n \in Free
<1> DEFINE Open == {fd[q] : q \in Proc}
<1>1. IsFiniteSet(Proc) /\ IsFiniteSet(Inode) /\ Cardinality(Inode) > Cardinality(Proc)
  BY DaemonAssumption
<1>2. IsFiniteSet(Open) /\ Cardinality(Open) <= Cardinality(Proc)
  <2>1. [q \in Proc |-> fd[q]] \in Surjection(Proc, Open)
    BY DEF Surjection
  <2> HIDE DEF Open
  <2>2. QED
    BY <1>1, <2>1, FS_Surjection
<1>3. ~(Inode \subseteq Open)
  <2> SUFFICES ASSUME Inode \subseteq Open
               PROVE  FALSE
    OBVIOUS
  <2>1. Cardinality(Inode) <= Cardinality(Open)
    BY <1>2, FS_Subset
  <2>2. Cardinality(Inode) \in Nat /\ Cardinality(Open) \in Nat /\ Cardinality(Proc) \in Nat
    BY <1>1, <1>2, FS_CardinalityType
  <2> HIDE DEF Open
  <2>3. QED
    BY <1>1, <1>2, <2>1, <2>2
<1>4. PICK n \in Inode : n \notin Open
  BY <1>3
<1>5. n # path
  BY DaemonAssumption
<1>6. QED
  BY <1>4, <1>5 DEF Free

\* A process that runs has a file open.
LEMMA RunningHasFile ==
    ASSUME TypeOK, NEW p \in Proc, pc[p] # "off"
    PROVE  fd[p] \in Inode
BY DEF TypeOK

\* Two processes between Lock and Unlock have different files open.
LEMMA LockExcludes ==
    ASSUME TypeOK, Locked, NEW p \in Proc, NEW q \in Proc,
           pc[p] \in Held, pc[q] \in Held, fd[p] = fd[q]
    PROVE  p = q
<1>1. lock[fd[p]] = p
  BY DEF Locked
<1>2. lock[fd[q]] = q
  BY DEF Locked
<1>3. QED
  BY <1>1, <1>2
-----------------------------------------------------------------------------
(* The steps.                                                              *)

\* Before the first start nothing is open, locked or named.
LEMMA InitInv == Init => DaemonInv
<1> SUFFICES ASSUME Init
             PROVE  DaemonInv
  OBVIOUS
<1>1. TypeOK
  BY DaemonAssumption DEF Init, TypeOK
<1>2. Locked /\ Named /\ Written
  BY DEF Init, Locked, Named, Written, Held
<1>3. QED
  BY <1>1, <1>2 DEF DaemonInv

\* A new start opens the file that has the name, or gives it to a free one.
LEMMA OpenKeeps ==
    ASSUME DaemonInv, NEW p \in Proc, OpenLockFile(p)
    PROVE  DaemonInv'
<1> DEFINE n == IF path = None THEN CHOOSE f \in Free : TRUE ELSE path
<1>1. TypeOK /\ Locked /\ Named /\ Written
  BY DEF DaemonInv
<1>2. n \in Inode /\ (path # None => n = path)
  <2>1. CASE path = None
    <3>1. \E f : f \in Free
      BY <1>1, <2>1, FreeFile
    <3>2. n \in Free
      BY <2>1, <3>1
    <3>3. QED
      BY <2>1, <3>2 DEF Free
  <2>2. CASE path # None
    BY <1>1, <2>2 DEF TypeOK
  <2>3. QED
    BY <2>1, <2>2
<1>3. /\ pc[p] = "off" /\ pc' = [pc EXCEPT ![p] = "opened"]
      /\ path' = n /\ fd' = [fd EXCEPT ![p] = n]
      /\ starts < MaxStarts /\ starts' = starts + 1
      /\ UNCHANGED <<text, lock, http, sig, cmd, raced>>
  BY DEF OpenLockFile, At
<1> HIDE DEF n
<1>4. fd[p] = None /\ \A f \in Inode : lock[f] # p
  BY <1>1, <1>3, DaemonAssumption DEF TypeOK
<1>5. TypeOK'
  BY <1>1, <1>2, <1>3, <1>4, DaemonAssumption DEF TypeOK
<1>6. Locked'
  BY <1>1, <1>3, <1>4 DEF TypeOK, Locked, Held
<1>7. Named'
  BY <1>1, <1>2, <1>3, DaemonAssumption DEF TypeOK, Named
<1>8. Written'
  BY <1>1, <1>3 DEF TypeOK, Written
<1>9. QED
  BY <1>5, <1>6, <1>7, <1>8 DEF DaemonInv

\* The end of a process takes its own lock and its own file, and nobody else's.
LEMMA FatalKeeps ==
    ASSUME DaemonInv, NEW p \in Proc, Fatal(p), cmd' \in Proc \cup {None}, UNCHANGED starts
    PROVE  DaemonInv'
<1>1. TypeOK /\ Locked /\ Named /\ Written
  BY DEF DaemonInv
<1>2. /\ lock' = [n \in Inode |-> IF lock[n] = p THEN None ELSE lock[n]]
      /\ pc' = [pc EXCEPT ![p] = "off"] /\ fd' = [fd EXCEPT ![p] = None]
      /\ http' = [http EXCEPT ![p] = "none"] /\ sig' = [sig EXCEPT ![p] = {}]
      /\ path' = path /\ raced' = raced \ {p}
  BY DEF Fatal, End, Unlocked
<1>3. text' = Kept(p)
  BY DEF Fatal, End
<1>4. text' \in [Inode -> Proc \cup {None}]
  BY <1>1, <1>3 DEF TypeOK, Kept
<1>5. TypeOK'
  BY <1>1, <1>2, <1>4, DaemonAssumption DEF TypeOK
<1>6. Locked'
  BY <1>1, <1>2, DaemonAssumption DEF TypeOK, Locked, Held
<1>7. Named'
  BY <1>1, <1>2 DEF TypeOK, Named
<1>8. Written'
  <2> SUFFICES ASSUME NEW q \in Proc, pc'[q] \in {"written", "main", "serving"}
               PROVE  text'[fd'[q]] = q
    BY DEF Written
  <2>1. q # p /\ pc[q] = pc'[q] /\ fd'[q] = fd[q]
    BY <1>1, <1>2 DEF TypeOK
  <2>2. fd[q] \in Inode /\ text[fd[q]] = q
    BY <1>1, <2>1, RunningHasFile DEF Written
  <2>3. QED
    BY <1>3, <2>1, <2>2 DEF Kept
<1>9. QED
  BY <1>5, <1>6, <1>7, <1>8 DEF DaemonInv

\* A step between Lock and Unlock that leaves the files alone.
LEMMA HeldKeeps ==
    ASSUME DaemonInv, NEW p \in Proc, pc[p] \in Held, NEW to \in Held,
           pc' = [pc EXCEPT ![p] = to],
           to \in {"written", "main", "serving"} => pc[p] \in {"written", "main", "serving"},
           http' \in [Proc -> {"none", "starting", "listening"}],
           sig' \in [Proc -> SUBSET Signal],
           UNCHANGED <<fileVars, fd, cmd, starts, raced>>
    PROVE  DaemonInv'
<1>1. TypeOK /\ Locked /\ Named /\ Written
  BY DEF DaemonInv
<1>2. UNCHANGED <<path, text, lock, fd, cmd, starts, raced>>
  BY DEF fileVars
<1>3. TypeOK'
  BY <1>1, <1>2 DEF TypeOK, Held
<1>4. Locked'
  BY <1>1, <1>2 DEF TypeOK, Locked, Held
<1>5. Named'
  BY <1>1, <1>2 DEF TypeOK, Named, Held
<1>6. Written'
  BY <1>1, <1>2 DEF TypeOK, Written, Held
<1>7. QED
  BY <1>3, <1>4, <1>5, <1>6 DEF DaemonInv

\* Lock: the file was free, so nobody else has it locked, or the start ends.
LEMMA LockKeeps ==
    ASSUME DaemonInv, NEW p \in Proc, Lock(p), UNCHANGED starts
    PROVE  DaemonInv'
<1>1. TypeOK /\ Locked /\ Named /\ Written
  BY DEF DaemonInv
<1>2. CASE /\ pc[p] = "opened" /\ pc' = [pc EXCEPT ![p] = "locked"]
           /\ lock[fd[p]] = None
           /\ lock' = [lock EXCEPT ![fd[p]] = p]
           /\ UNCHANGED <<path, text, fd, http, sig, cmd, raced>>
  <2>1. fd[p] \in Inode
    BY <1>1, <1>2, RunningHasFile
  <2>2. TypeOK'
    BY <1>1, <1>2, <2>1 DEF TypeOK
  <2>3. Locked'
    <3>1. \A n \in Inode : lock'[n] # None => pc'[lock'[n]] \in Held
      BY <1>1, <1>2, <2>1 DEF TypeOK, Locked, Held
    <3>2. ASSUME NEW q \in Proc, pc'[q] \in Held
          PROVE  lock'[fd'[q]] = q
      <4>1. CASE q = p
        BY <1>1, <1>2, <2>1, <4>1 DEF TypeOK
      <4>2. CASE q # p
        <5>1. pc[q] \in Held /\ lock[fd[q]] = q
          BY <1>1, <1>2, <3>2, <4>2 DEF TypeOK, Locked
        <5>2. fd[q] # fd[p] /\ fd[q] \in Inode
          BY <1>1, <1>2, <5>1, RunningHasFile, DaemonAssumption DEF Held
        <5>3. QED
          BY <1>1, <1>2, <2>1, <5>1, <5>2 DEF TypeOK
      <4>3. QED
        BY <4>1, <4>2
    <3>3. QED
      BY <3>1, <3>2 DEF Locked
  <2>4. Named' /\ Written'
    BY <1>1, <1>2 DEF TypeOK, Named, Written
  <2>5. QED
    BY <2>2, <2>3, <2>4 DEF DaemonInv
<1>3. CASE Fatal(p) /\ UNCHANGED cmd
  BY <1>1, <1>3, FatalKeeps DEF TypeOK
<1>4. QED
  BY <1>2, <1>3 DEF Lock, At

\* WritePid: the lock keeps every other daemon's file apart.
LEMMA WritePidKeeps ==
    ASSUME DaemonInv, NEW p \in Proc, WritePid(p), UNCHANGED starts
    PROVE  DaemonInv'
<1>1. TypeOK /\ Locked /\ Named /\ Written
  BY DEF DaemonInv
<1>2. CASE /\ pc[p] = "born" /\ pc' = [pc EXCEPT ![p] = "written"]
           /\ text' = [text EXCEPT ![fd[p]] = p]
           /\ UNCHANGED <<path, lock, fd, http, sig, cmd, raced>>
  <2>1. fd[p] \in Inode
    BY <1>1, <1>2, RunningHasFile
  <2>2. TypeOK'
    BY <1>1, <1>2, <2>1 DEF TypeOK
  <2>3. Locked' /\ Named'
    BY <1>1, <1>2 DEF TypeOK, Locked, Named, Held
  <2>4. Written'
    <3> SUFFICES ASSUME NEW q \in Proc, pc'[q] \in {"written", "main", "serving"}
                 PROVE  text'[fd'[q]] = q
      BY DEF Written
    <3>1. CASE q = p
      BY <1>1, <1>2, <2>1, <3>1 DEF TypeOK
    <3>2. CASE q # p
      <4>1. pc[q] \in {"written", "main", "serving"} /\ text[fd[q]] = q
        BY <1>1, <1>2, <3>2 DEF TypeOK, Written
      <4>2. fd[q] # fd[p] /\ fd[q] \in Inode
        BY <1>1, <1>2, <3>2, <4>1, LockExcludes, RunningHasFile DEF Held
      <4>3. QED
        BY <1>1, <1>2, <2>1, <4>1, <4>2 DEF TypeOK
    <3>3. QED
      BY <3>1, <3>2
  <2>5. QED
    BY <2>2, <2>3, <2>4 DEF DaemonInv
<1>3. CASE Fatal(p) /\ UNCHANGED cmd
  BY <1>1, <1>3, FatalKeeps DEF TypeOK
<1>4. QED
  BY <1>2, <1>3 DEF WritePid, At

\* Unlock and GetFdName: the lock is given up, the file stays open and named.
LEMMA UnlockKeeps ==
    ASSUME DaemonInv, NEW p \in Proc, Unlock(p) \/ GetFdName(p), UNCHANGED starts
    PROVE  DaemonInv'
<1>1. TypeOK /\ Locked /\ Named /\ Written
  BY DEF DaemonInv
<1>2. CASE Unlock(p)
  <2>1. /\ pc[p] = "removing" /\ pc' = [pc EXCEPT ![p] = "unlocked"]
        /\ lock' = [n \in Inode |-> IF lock[n] = p THEN None ELSE lock[n]]
        /\ UNCHANGED <<path, text, fd, http, sig, cmd, raced, starts>>
    BY <1>2 DEF Unlock, Unlocked, At
  <2>2. TypeOK'
    BY <1>1, <2>1 DEF TypeOK
  <2>3. Locked'
    BY <1>1, <2>1, DaemonAssumption DEF TypeOK, Locked, Held
  <2>4. Named' /\ Written'
    BY <1>1, <2>1 DEF TypeOK, Named, Written
  <2>5. QED
    BY <2>2, <2>3, <2>4 DEF DaemonInv
<1>3. CASE /\ pc[p] = "unlocked" /\ pc' = [pc EXCEPT ![p] = "named"]
           /\ UNCHANGED <<path, text, lock, fd, http, sig, cmd, raced>>
  <2>1. TypeOK'
    BY <1>1, <1>3 DEF TypeOK
  <2>2. Locked' /\ Named' /\ Written'
    BY <1>1, <1>3 DEF TypeOK, Locked, Named, Written, Held
  <2>3. QED
    BY <2>1, <2>2 DEF DaemonInv
<1>4. CASE Fatal(p) /\ UNCHANGED cmd
  BY <1>1, <1>4, FatalKeeps DEF TypeOK
<1>5. QED
  BY <1>2, <1>3, <1>4 DEF GetFdName, At, fileVars

\* Unlink: every process that has the removed file open is raced from now on,
\* and nobody else had a name to lose.
LEMMA UnlinkKeeps ==
    ASSUME DaemonInv, NEW p \in Proc, Unlink(p), UNCHANGED starts
    PROVE  DaemonInv'
<1>1. TypeOK /\ Locked /\ Named /\ Written
  BY DEF DaemonInv
<1>2. /\ lock' = [n \in Inode |-> IF lock[n] = p THEN None ELSE lock[n]]
      /\ pc' = [pc EXCEPT ![p] = "off"] /\ fd' = [fd EXCEPT ![p] = None]
      /\ http' = [http EXCEPT ![p] = "none"] /\ sig' = [sig EXCEPT ![p] = {}]
      /\ path' = None /\ cmd' = cmd
      /\ raced' = (raced \cup {q \in Proc : path # None /\ fd[q] = path}) \ {p}
  BY DEF Unlink, End, Unlocked
<1>3. text' = Kept(p)
  BY DEF Unlink, End
<1>4. text' \in [Inode -> Proc \cup {None}]
  BY <1>1, <1>3 DEF TypeOK, Kept
<1>5. TypeOK'
  BY <1>1, <1>2, <1>4, DaemonAssumption DEF TypeOK
<1>6. Locked'
  BY <1>1, <1>2, DaemonAssumption DEF TypeOK, Locked, Held
<1>7. Named'
  <2> SUFFICES ASSUME NEW q \in Proc \ raced', pc'[q] # "off"
               PROVE  FALSE
    BY DEF Named
  <2>1. q # p /\ pc[q] # "off" /\ q \notin raced
    BY <1>1, <1>2 DEF TypeOK
  <2>2. fd[q] = path /\ fd[q] \in Inode
    BY <1>1, <2>1, RunningHasFile DEF Named
  <2>3. QED
    BY <1>2, <2>1, <2>2, DaemonAssumption
<1>8. Written'
  <2> SUFFICES ASSUME NEW q \in Proc, pc'[q] \in {"written", "main", "serving"}
               PROVE  text'[fd'[q]] = q
    BY DEF Written
  <2>1. q # p /\ pc[q] = pc'[q] /\ fd'[q] = fd[q]
    BY <1>1, <1>2 DEF TypeOK
  <2>2. fd[q] \in Inode /\ text[fd[q]] = q
    BY <1>1, <2>1, RunningHasFile DEF Written
  <2>3. QED
    BY <1>3, <2>1, <2>2 DEF Kept
<1>9. QED
  BY <1>5, <1>6, <1>7, <1>8 DEF DaemonInv

\* A step that moves no process and touches no file.
LEMMA QuietKeeps ==
    ASSUME DaemonInv, UNCHANGED <<fileVars, pc, fd, starts, raced>>,
           http' \in [Proc -> {"none", "starting", "listening"}],
           sig' \in [Proc -> SUBSET Signal],
           cmd' \in Proc \cup {None}
    PROVE  DaemonInv'
BY DEF DaemonInv, TypeOK, Locked, Named, Written, fileVars

\* The steps of the service: httpservice, Notify and the signal handlers.
LEMMA ServiceKeeps ==
    ASSUME DaemonInv, NEW p \in Proc, UNCHANGED starts,
           httpservice(p) \/ Notify(p) \/ \E s \in Signal : Handle(p, s)
    PROVE  DaemonInv'
<1>1. TypeOK
  BY DEF DaemonInv
<1>2. CASE httpservice(p)
  <2>1. CASE /\ http' = [http EXCEPT ![p] = "listening"]
             /\ UNCHANGED <<fileVars, pc, fd, sig, cmd, raced>>
    BY <1>1, <2>1, QuietKeeps DEF TypeOK
  <2>2. CASE Fatal(p) /\ UNCHANGED cmd
    BY <1>1, <2>2, FatalKeeps DEF TypeOK
  <2>3. QED
    BY <1>2, <2>1, <2>2 DEF httpservice
<1>3. CASE Notify(p)
  BY <1>1, <1>3, HeldKeeps DEF Notify, At, Held, TypeOK
<1>4. CASE \E s \in Signal : Handle(p, s)
  <2>1. PICK s \in Signal : Handle(p, s)
    BY <1>4
  <2>2. CASE /\ pc[p] = "serving" /\ pc' = [pc EXCEPT ![p] = "removing"]
             /\ sig' = [sig EXCEPT ![p] = {}]
             /\ UNCHANGED <<fileVars, fd, http, cmd, raced>>
    <3>1. sig' \in [Proc -> SUBSET Signal]
      BY <1>1, <2>2 DEF TypeOK
    <3>2. QED
      BY <1>1, <2>2, <3>1, HeldKeeps DEF Held, TypeOK
  <2>3. CASE /\ sig' = [sig EXCEPT ![p] = @ \ {s}]
             /\ UNCHANGED <<fileVars, pc, fd, http, cmd, raced>>
    <3>1. sig' \in [Proc -> SUBSET Signal]
      BY <1>1, <2>3 DEF TypeOK
    <3>2. QED
      BY <1>1, <2>3, <3>1, QuietKeeps DEF TypeOK
  <2>4. QED
    BY <2>1, <2>2, <2>3 DEF Handle, At
<1>5. QED
  BY <1>2, <1>3, <1>4

\* httpagent -s: reading the pid file changes nothing, a signal is queued or ends
\* the process.
LEMMA CommandKeeps ==
    ASSUME DaemonInv, Command
    PROVE  DaemonInv'
<1>1. TypeOK /\ UNCHANGED starts
  BY DEF DaemonInv, Command
<1>2. CASE search
  <2>1. cmd' \in Proc \cup {None}
    BY <1>1, <1>2 DEF search, TypeOK
  <2>2. QED
    BY <1>1, <1>2, <2>1, QuietKeeps DEF search, TypeOK
<1>3. CASE \E s \in Signal : SendCommands(s)
  <2>1. PICK s \in Signal : SendCommands(s)
    BY <1>3
  <2>2. cmd \in Proc /\ cmd' = None
    BY <1>1, <2>1 DEF SendCommands, TypeOK
  <2>3. CASE /\ sig' = [sig EXCEPT ![cmd] = @ \cup {s}]
             /\ UNCHANGED <<fileVars, pc, fd, http, raced>>
    <3>1. sig' \in [Proc -> SUBSET Signal]
      BY <1>1, <2>2, <2>3 DEF TypeOK
    <3>2. QED
      BY <1>1, <2>2, <2>3, <3>1, QuietKeeps DEF TypeOK
  <2>4. CASE UNCHANGED <<fileVars, pc, fd, http, sig, raced>>
    BY <1>1, <2>2, <2>4, QuietKeeps DEF TypeOK
  <2>5. CASE Fatal(cmd)
    BY <1>1, <2>2, <2>5, FatalKeeps
  <2>6. QED
    BY <2>1, <2>3, <2>4, <2>5 DEF SendCommands
<1>4. QED
  BY <1>2, <1>3 DEF Command

\* StartProcess and child: between Lock and Unlock, files untouched.
LEMMA BirthKeeps ==
    ASSUME DaemonInv, NEW p \in Proc, StartProcess(p) \/ child(p), UNCHANGED starts
    PROVE  DaemonInv'
<1>1. TypeOK
  BY DEF DaemonInv
<1>2. ASSUME StartProcess(p)
      PROVE  DaemonInv'
  BY <1>1, <1>2, HeldKeeps DEF StartProcess, At, Held, TypeOK
<1>3. ASSUME child(p)
      PROVE  DaemonInv'
  <2>1. http' \in [Proc -> {"none", "starting", "listening"}]
    BY <1>1, <1>3 DEF child, TypeOK
  <2>2. QED
    BY <1>1, <1>3, <2>1, HeldKeeps DEF child, At, Held, TypeOK
<1>4. QED
  BY <1>2, <1>3

\* Every step keeps the invariant.
LEMMA NextKeeps == DaemonInv /\ [Next]_vars => DaemonInv'
<1> SUFFICES ASSUME DaemonInv, [Next]_vars
             PROVE  DaemonInv'
  OBVIOUS
<1>1. TypeOK
  BY DEF DaemonInv
<1>2. CASE UNCHANGED vars
  BY <1>1, <1>2, QuietKeeps DEF vars, TypeOK
<1>3. ASSUME NEW p \in Proc, Step(p)
      PROVE  DaemonInv'
  <2>1. CASE Crash(p)
    BY <1>1, <1>3, <2>1, FatalKeeps DEF Crash, Step, TypeOK
  <2>2. QED
    BY <1>3, <2>1, LockKeeps, BirthKeeps, WritePidKeeps, ServiceKeeps, UnlockKeeps, UnlinkKeeps
    DEF Step
<1>4. QED
  BY <1>2, <1>3, OpenKeeps, CommandKeeps DEF Next

-----------------------------------------------------------------------------
(* The theorems.                                                           *)

\* The inductive invariant holds in every reachable state.
THEOREM DaemonInvariant == Spec => []DaemonInv
BY InitInv, NextKeeps, PTL DEF Spec

\* Type correctness; only a process that has a file open has it locked, whatever
\* crashes and whoever starts.
THEOREM TypeCorrect == Spec => []TypeOK
<1>1. DaemonInv => TypeOK
  BY DEF DaemonInv
<1>2. QED
  BY <1>1, DaemonInvariant, PTL

\* A daemon that serves, and whose file nobody removed under it, is the one the
\* pid file names: stop, quit and reload reach it (daemon.go, lock_file.go).
THEOREM ServingIsReachable == Spec => []ReachableUnlessRaced
<1>1. DaemonInv => ReachableUnlessRaced
  <2> SUFFICES ASSUME DaemonInv, NEW p \in Proc \ raced, pc[p] \in InService
               PROVE  path = fd[p] /\ text[path] = p
    BY DEF ReachableUnlessRaced
  <2>1. path = fd[p]
    BY DEF DaemonInv, Named, InService
  <2>2. text[fd[p]] = p
    BY DEF DaemonInv, Written, InService
  <2>3. QED
    BY <2>1, <2>2
<1>2. QED
  BY <1>1, DaemonInvariant, PTL

\* At most one daemon runs, for any number of concurrent starts, crashes and stops,
\* unless its pid file was removed between Unlock and Unlink of another one.
THEOREM AtMostOneDaemon == Spec => []OneDaemonUnlessRaced
<1>1. DaemonInv => OneDaemonUnlessRaced
  <2> SUFFICES ASSUME DaemonInv
               PROVE  Cardinality(Running \ raced) <= 1
    BY DEF OneDaemonUnlessRaced
  <2> DEFINE R == Running \ raced
  <2>1. ASSUME NEW p \in R
        PROVE  pc[p] \in Held /\ fd[p] = path /\ p \in Proc
    BY DEF DaemonInv, TypeOK, Named, Running, Held
  <2>2. ASSUME NEW p \in R, NEW q \in R
        PROVE  p = q
    <3>1. pc[p] \in Held /\ fd[p] = path /\ p \in Proc
      BY <2>1
    <3>2. pc[q] \in Held /\ fd[q] = path /\ q \in Proc
      BY <2>1
    <3>3. QED
      BY <3>1, <3>2, LockExcludes DEF DaemonInv
  <2> HIDE DEF R
  <2>3. CASE R = {}
    BY <2>3, FS_EmptySet DEF R
  <2>4. CASE R # {}
    <3>1. PICK p : R = {p}
      BY <2>2, <2>4
    <3>2. QED
      BY <3>1, FS_Singleton DEF R
  <2>5. QED
    BY <2>3, <2>4
<1>2. QED
  BY <1>1, DaemonInvariant, PTL
=============================================================================
