------------------------------- MODULE Daemon -------------------------------
(***************************************************************************)
(* The life of the daemon: "httpagent -daemon" opens and locks the pid     *)
(* file, is reborn, writes its pid, serves HTTP and signals, and removes   *)
(* the pid file when it stops; "httpagent -s stop" (or quit, or reload)    *)
(* reads the pid file and sends a signal.  Any number of them run at any   *)
(* time, and any of them may crash.                                        *)
(*                                                                         *)
(* Parent and child are one process here, under the child's pid: the child *)
(* inherits the open pid file and with it the lock, and the parent does    *)
(* nothing but exit.  A pid is used again once its process is gone.        *)
(***************************************************************************)
EXTENDS Naturals, FiniteSets

CONSTANTS
    Proc,   \* process ids
    Inode,  \* files that have been or are the pid file
    None,
    MaxStarts  \* bound of the number of starts

ASSUME DaemonAssumption ==
    /\ None \notin Proc \cup Inode
    /\ IsFiniteSet(Proc) /\ IsFiniteSet(Inode) /\ Cardinality(Inode) > Cardinality(Proc)
    /\ MaxStarts \in Nat

VARIABLES
    path,  \* the file with the name of the pid file, None if there is none
    text,  \* the pid in each file
    lock,  \* who holds the lock of each file (flock)
    pc,    \* where each process is
    fd,    \* the pid file each process has open
    http,  \* httpservice of each process: "none", "starting", "listening"
    sig,   \* the signals in the channel of ServeSignals
    cmd,   \* the pid that "httpagent -s" has read, None if it has not
    starts, \* how many there were
    raced  \* history: the processes whose pid file another one has removed

fileVars == <<path, text, lock>>

vars == <<fileVars, pc, fd, http, sig, cmd, starts, raced>>

Signal == {"stop", "reload"}

Init ==
    /\ path = None
    /\ text = [n \in Inode |-> None] /\ lock = [n \in Inode |-> None]
    /\ pc = [p \in Proc |-> "off"] /\ fd = [p \in Proc |-> None]
    /\ http = [p \in Proc |-> "none"] /\ sig = [p \in Proc |-> {}]
    /\ cmd = None
    /\ starts = 0
    /\ raced = {}

At(p, from, to) == pc[p] = from /\ pc' = [pc EXCEPT ![p] = to]

-----------------------------------------------------------------------------
(* The end of a process, by return, log.Fatalln or a signal: the kernel    *)
(* closes its files, which unlocks them.                                   *)

Unlocked(p) == [n \in Inode |-> IF lock[n] = p THEN None ELSE lock[n]]

\* A file is gone when it has no name and nobody has it open.
Kept(p) ==
    [n \in Inode |-> IF n = path' \/ \E q \in Proc \ {p} : fd[q] = n THEN text[n] ELSE None]

\* Faulty variant of End: the lock outlives the process.
EndLocked(p) ==
    /\ lock' = lock /\ text' = text
    /\ pc' = [pc EXCEPT ![p] = "off"] /\ fd' = [fd EXCEPT ![p] = None]
    /\ http' = [http EXCEPT ![p] = "none"] /\ sig' = [sig EXCEPT ![p] = {}]

End(p) ==
    /\ lock' = Unlocked(p) /\ text' = Kept(p)
    /\ pc' = [pc EXCEPT ![p] = "off"] /\ fd' = [fd EXCEPT ![p] = None]
    /\ http' = [http EXCEPT ![p] = "none"] /\ sig' = [sig EXCEPT ![p] = {}]

\* It ends without Release.
Fatal(p) == UNCHANGED path /\ End(p) /\ raced' = raced \ {p}

-----------------------------------------------------------------------------
(* Start.                                                                  *)

\* Files without a name that nobody has open.
Free == {n \in Inode : n # path /\ \A q \in Proc : fd[q] # n}

OpenLockFile(p) ==
    LET n == IF path = None THEN CHOOSE f \in Free : TRUE ELSE path
    IN  /\ starts < MaxStarts /\ starts' = starts + 1
        /\ At(p, "off", "opened")
        /\ path' = n /\ fd' = [fd EXCEPT ![p] = n]
        /\ UNCHANGED <<text, lock, http, sig, cmd, raced>>

\* Faulty variant of Lock: a refusal is not noticed.
LockIgnored(p) ==
    /\ At(p, "opened", "locked")
    /\ lock' = [lock EXCEPT ![fd[p]] = IF @ = None THEN p ELSE @]
    /\ UNCHANGED <<path, text, fd, http, sig, cmd, raced>>

\* Lock, not waiting for it; without it the start has failed.
Lock(p) ==
    \/ /\ At(p, "opened", "locked")
       /\ lock[fd[p]] = None
       /\ lock' = [lock EXCEPT ![fd[p]] = p]
       /\ UNCHANGED <<path, text, fd, http, sig, cmd, raced>>
    \/ /\ pc[p] = "opened" /\ lock[fd[p]] # None
       /\ Fatal(p) /\ UNCHANGED cmd

\* StartProcess; the parent removes the pid file if it fails.
StartProcess(p) ==
    /\ At(p, "locked", "born") \/ At(p, "locked", "removing")
    /\ UNCHANGED <<fileVars, fd, http, sig, cmd, raced>>

\* Faulty variant of WritePid: the pid is not written.
WritePidSkipped(p) ==
    /\ At(p, "born", "written")
    /\ UNCHANGED <<fileVars, fd, http, sig, cmd, raced>>

\* WritePid of the child; if it fails the child ends and leaves the file.
WritePid(p) ==
    \/ /\ At(p, "born", "written")
       /\ text' = [text EXCEPT ![fd[p]] = p]
       /\ UNCHANGED <<path, lock, fd, http, sig, cmd, raced>>
    \/ pc[p] = "born" /\ Fatal(p) /\ UNCHANGED cmd

\* The rest of child: it takes over its context from the parent and goes on to
\* main, or removes the pid file if that fails.
child(p) ==
    /\ \/ At(p, "written", "main") /\ http' = [http EXCEPT ![p] = "starting"]
       \/ At(p, "written", "removing") /\ UNCHANGED http
    /\ UNCHANGED <<fileVars, fd, sig, cmd, raced>>

-----------------------------------------------------------------------------
(* Service.                                                                *)

\* httpservice in its goroutine: if the port is taken martini's Run ends the
\* process with Fatalln.
httpservice(p) ==
    /\ http[p] = "starting"
    /\ UNCHANGED cmd
    /\ \/ /\ \A q \in Proc : http[q] # "listening"
          /\ http' = [http EXCEPT ![p] = "listening"]
          /\ UNCHANGED <<fileVars, pc, fd, sig, raced>>
       \/ /\ \E q \in Proc : http[q] = "listening"
          /\ Fatal(p)

\* ServeSignals: Notify.
Notify(p) ==
    /\ At(p, "main", "serving")
    /\ UNCHANGED <<fileVars, fd, http, sig, cmd, raced>>

\* Faulty variant of Handle: the handler does not return ErrStop.
HandleAll(p, s) ==
    /\ pc[p] = "serving" /\ s \in sig[p]
    /\ sig' = [sig EXCEPT ![p] = @ \ {s}]
    /\ UNCHANGED <<fileVars, pc, fd, http, cmd, raced>>

\* termHandler ends the loop of ServeSignals and Stop forgets what is left in
\* the channel; reloadHandler loads the configuration.
Handle(p, s) ==
    /\ s \in sig[p]
    /\ \/ s = "stop" /\ At(p, "serving", "removing") /\ sig' = [sig EXCEPT ![p] = {}]
       \/ /\ s = "reload" /\ pc[p] = "serving" /\ UNCHANGED pc
          /\ sig' = [sig EXCEPT ![p] = @ \ {s}]
    /\ UNCHANGED <<fileVars, fd, http, cmd, raced>>

-----------------------------------------------------------------------------
(* Remove: unlock, get the name of the open file, unlink that name.        *)

Unlock(p) ==
    /\ At(p, "removing", "unlocked")
    /\ lock' = Unlocked(p)
    /\ UNCHANGED <<path, text, fd, http, sig, cmd, raced>>

\* The name of a file that has been removed ends in "(deleted)": Unlink fails.
GetFdName(p) ==
    \/ /\ fd[p] = path
       /\ At(p, "unlocked", "named")
       /\ UNCHANGED <<fileVars, fd, http, sig, cmd, raced>>
    \/ fd[p] # path /\ pc[p] = "unlocked" /\ Fatal(p) /\ UNCHANGED cmd

\* Unlink, and the process is at its end.  What has the name now is removed.
Unlink(p) ==
    /\ pc[p] = "named"
    /\ path' = None
    /\ raced' = (raced \cup {q \in Proc : path # None /\ fd[q] = path}) \ {p}
    /\ End(p)
    /\ UNCHANGED cmd

-----------------------------------------------------------------------------
(* httpagent -s.                                                           *)

\* search: ReadPidFile.
search ==
    /\ cmd = None
    /\ path # None /\ text[path] # None
    /\ cmd' = text[path]
    /\ UNCHANGED <<fileVars, pc, fd, http, sig, raced>>

\* A signal outside of ServeSignals ends a process.  A process that has not been
\* born has no such pid.
SendCommands(s) ==
    LET p == cmd
    IN  /\ cmd # None
        /\ cmd' = None
        /\ \/ /\ pc[p] = "serving"
              /\ sig' = [sig EXCEPT ![p] = @ \cup {s}]
              /\ UNCHANGED <<fileVars, pc, fd, http, raced>>
           \/ /\ pc[p] \in {"off", "opened", "locked"}
              /\ UNCHANGED <<fileVars, pc, fd, http, sig, raced>>
           \/ /\ pc[p] \notin {"serving", "off", "opened", "locked"}
              /\ Fatal(p)

Crash(p) == pc[p] # "off" /\ Fatal(p) /\ UNCHANGED cmd

-----------------------------------------------------------------------------

Step(p) ==
    /\ \/ Lock(p) \/ StartProcess(p) \/ WritePid(p) \/ child(p)
       \/ httpservice(p) \/ Notify(p)
       \/ \E s \in Signal : Handle(p, s)
       \/ Unlock(p) \/ GetFdName(p) \/ Unlink(p) \/ Crash(p)
    /\ UNCHANGED starts

Command == (search \/ \E s \in Signal : SendCommands(s)) /\ UNCHANGED starts

Next == (\E p \in Proc : OpenLockFile(p) \/ Step(p)) \/ Command

Spec == Init /\ [][Next]_vars

\* Processes that run go on; nobody has to start one or send it a signal.
FairSpec ==
    /\ Spec
    /\ \A p \in Proc : /\ WF_vars(Handle(p, "stop") /\ UNCHANGED starts)
                       /\ WF_vars((Unlock(p) \/ GetFdName(p) \/ Unlink(p)) /\ UNCHANGED starts)

-----------------------------------------------------------------------------
(* Properties.                                                             *)

InService == {"main", "serving"}

\* The processes between Lock and Unlock.
Running == {p \in Proc : pc[p] \notin {"off", "opened", "unlocked", "named"}}

\* The types; only a process that has a file open has it locked.
TypeOK ==
    /\ path \in Inode \cup {None}
    /\ text \in [Inode -> Proc \cup {None}]
    /\ lock \in [Inode -> Proc \cup {None}]
    /\ \A n \in Inode : lock[n] # None => fd[lock[n]] = n
    /\ pc \in [Proc -> {"off", "opened", "locked", "born", "written", "main", "serving",
                        "removing", "unlocked", "named"}]
    /\ fd \in [Proc -> Inode \cup {None}]
    /\ \A p \in Proc : fd[p] = None <=> pc[p] = "off"
    /\ http \in [Proc -> {"none", "starting", "listening"}]
    /\ sig \in [Proc -> SUBSET Signal]
    /\ cmd \in Proc \cup {None}
    /\ starts \in 0 .. MaxStarts /\ raced \in SUBSET Proc

\* A daemon that serves is the one the pid file names, so that stop and reload
\* reach it, whatever crashed before and left its file, unless another process
\* removed the file under it: Remove gives up the lock before it unlinks
\* (lock_file.go:105), and a start in between locks a file that goes away.
ReachableUnlessRaced ==
    \A p \in Proc \ raced :
        pc[p] \in InService => path = fd[p] /\ text[path] = p

\* At most one daemon runs, with the same exception.
OneDaemonUnlessRaced == Cardinality(Running \ raced) <= 1

\* A stop that a daemon was sent ends it, with reloads in between or not.
StopEnds == \A p \in Proc : "stop" \in sig[p] ~> pc[p] = "off"
=============================================================================
