------------------------------- MODULE Process -------------------------------
(***************************************************************************)
(* What all requests of the process share besides the session pool: the    *)
(* cache of oids, the log and the configuration.  SnmpGet goroutines parse *)
(* their oids and log while the log is rotated and the configuration is    *)
(* loaded again; a fatal error in one of them ends all.                    *)
(***************************************************************************)
EXTENDS OidPool, Logger

CONSTANT Archsize  \* the values of log.logarchsize

ASSUME ProcessAssumption == Archsize \subseteq Int

vars == <<oidVars, logVars>>

Init ==
    /\ up = TRUE
    /\ OidInit
    /\ LogInit
    /\ logarchsize \in Archsize

Lists == UNION {[1 .. n -> Text] : n \in 1 .. MaxTexts}

\* The steps of a goroutine that are logged: Info of the handler, Debug if
\* config.Cfg.Debug is set, which a reload may change at any time, and Error.
Logged(t) ==
    /\ \/ \E texts \in Lists : GetParseOids(t, texts)
       \/ Hit(t)
       \/ task[t].pc = "failed" /\ Leave(t)
    /\ Println

Silent(t) ==
    /\ \/ BeginRead(t)
       \/ Hit(t)
       \/ HalfHit(t) \/ Miss(t) \/ NewOid(t) \/ BeginPut(t) \/ EndPut(t)
       \/ task[t].pc = "done" /\ Leave(t)
    /\ UNCHANGED logVars

\* A step of logmonitor.
Monitor == (Wake \/ Close \/ Rename \/ SetLogfile) /\ UNCHANGED oidVars

\* reloadHandler: Loadconfig and a line of the log.
Reload ==
    /\ logarchsize' \in Archsize
    /\ size' = Grown
    /\ UNCHANGED <<oidVars, handle, present, mon, failed>>

Next ==
    /\ up
    /\ \/ \E t \in Task : Logged(t) \/ Silent(t)
       \/ Monitor
       \/ Reload

Spec == Init /\ [][Next]_vars

\* The timer of logmonitor fires and its goroutine runs.
FairSpec == Spec /\ WF_vars(up /\ Monitor)

-----------------------------------------------------------------------------
(* Properties.                                                             *)

\* The types; a goroutine holds pLock exactly while it writes the map, and a file
\* that is not there has no size.
TypeOK == OidTypeOK /\ LogTypeOK

\* A file that is too big is archived as long as the process lives and no step
\* of a rotation has failed, whatever is logged and reloaded meanwhile
\* (logger.go:117).
Archived ==
    mon = "sleep" /\ fileswitch ~> mon = "reopen" \/ failed \/ ~fileswitch \/ ~up
=============================================================================
