------------------------------- MODULE Logger -------------------------------
(***************************************************************************)
(* The log: lines written by everybody through package log, and the        *)
(* goroutine that looks at the file every ten seconds and, when it is too  *)
(* big, closes it, renames it and opens a new one, each of which may fail. *)
(* Writers do not take the logger's lock.                                  *)
(***************************************************************************)
EXTENDS Integers

CONSTANT MaxSize  \* bound of the size of the file, in lines

ASSUME LoggerAssumption == MaxSize \in Nat

VARIABLES
    logarchsize, \* config.Cfg.Logarchsize
    handle,      \* Loghandle: "open", "closed", or "nil" if the file was not opened
    present,     \* there is a file named Logfile; an open handle is that file
    size,        \* its size
    mon,         \* where logmonitor is: "sleep", "close", "rename", "reopen"
    failed       \* history: a step of a rotation failed, or the first opening

logVars == <<logarchsize, handle, present, size, mon, failed>>

\* init: SetLogfile, to a file that may be there already, and logmonitor starts.
LogInit ==
    /\ \/ handle = "open" /\ present = TRUE /\ failed = FALSE
       \/ handle = "nil" /\ present \in BOOLEAN /\ failed = TRUE
    /\ size \in 0 .. IF present THEN MaxSize ELSE 0
    /\ mon = "sleep"

\* The size after a line.  A write that fails is not noticed.
Grown == IF handle = "open" /\ size < MaxSize THEN size + 1 ELSE size

\* Debug, Info, Warn and Error.
Println ==
    /\ size' = Grown
    /\ UNCHANGED <<logarchsize, handle, present, mon, failed>>

\* 0 if there is no file.
filesize == IF present THEN size ELSE 0

fileswitch == filesize >= logarchsize

\* Faulty variant of Wake: a file that just has the size is left alone.
WakeGreater ==
    /\ mon = "sleep" /\ filesize > logarchsize
    /\ mon' = "close"
    /\ UNCHANGED <<logarchsize, handle, present, size, failed>>

\* The timer of logmonitor has fired.
Wake ==
    /\ mon = "sleep" /\ fileswitch
    /\ mon' = "close"
    /\ UNCHANGED <<logarchsize, handle, present, size, failed>>

\* Close of a handle that is not open is an error; that of an open one may be,
\* and closes it all the same.
Close ==
    /\ mon = "close"
    /\ \/ handle = "open" /\ mon' = "rename" /\ UNCHANGED failed
       \/ mon' = "sleep" /\ failed' = TRUE
    /\ handle' = IF handle = "open" THEN "closed" ELSE handle
    /\ UNCHANGED <<logarchsize, present, size>>

Rename ==
    /\ mon = "rename"
    /\ \/ present /\ mon' = "reopen" /\ present' = FALSE /\ size' = 0 /\ UNCHANGED failed
       \/ mon' = "sleep" /\ failed' = TRUE /\ UNCHANGED <<present, size>>
    /\ UNCHANGED <<logarchsize, handle>>

\* Faulty variant of SetLogfile: the new handle is not kept.
SetLogfileDropped ==
    /\ mon = "reopen" /\ mon' = "sleep"
    /\ present' = TRUE
    /\ UNCHANGED <<logarchsize, handle, size, failed>>

\* SetLogfile and OpenFile: Loghandle is nil if the file cannot be opened.
SetLogfile ==
    /\ mon = "reopen" /\ mon' = "sleep"
    /\ \/ handle' = "open" /\ present' = TRUE /\ UNCHANGED failed
       \/ handle' = "nil" /\ failed' = TRUE /\ UNCHANGED present
    /\ UNCHANGED <<logarchsize, size>>

-----------------------------------------------------------------------------
(* Properties.                                                             *)

LogTypeOK ==
    /\ logarchsize \in Int
    /\ handle \in {"open", "closed", "nil"}
    /\ present \in BOOLEAN /\ size \in 0 .. MaxSize /\ (size > 0 => present)
    /\ mon \in {"sleep", "close", "rename", "reopen"}
    /\ failed \in BOOLEAN

\* Between two rotations the log goes to the file that is looked at, exactly
\* until a step of a rotation, or the first opening, fails: one failure and it
\* goes nowhere for good, since a handle that is not open cannot be closed and
\* so is never replaced (logger.go:119).
RestingOpen ==
    mon \in {"sleep", "close"} =>
        /\ handle = "open" <=> ~failed
        /\ handle = "open" => present
=============================================================================
