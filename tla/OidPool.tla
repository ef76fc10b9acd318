------------------------------- MODULE OidPool -------------------------------
(***************************************************************************)
(* The cache of parsed oids, used by the SnmpGet goroutines of all         *)
(* requests.  PutParseOid writes the map under pLock; GetParseOid reads it *)
(* without.  A read takes time, so that it may overlap with a write: Go    *)
(* then ends the process if it notices, and if it does not the read        *)
(* returns what it happens to see.                                         *)
(***************************************************************************)
EXTENDS Naturals, Sequences, FiniteSets

CONSTANTS
    Task,      \* SnmpGet goroutines
    GoodText,  \* texts that NewOid accepts
    BadText,   \* texts that it refuses
    None,
    MaxTexts   \* bound of the number of texts in a list

ASSUME OidPoolAssumption ==
    /\ None \notin Task /\ GoodText \cap BadText = {} /\ MaxTexts \in Nat

VARIABLES
    up,     \* the process has not died
    oid,    \* the texts in the map
    pLock,  \* who is in PutParseOid
    task    \* what each goroutine is doing

oidVars == <<up, oid, pLock, task>>

Text == GoodText \cup BadText

\* texts: the argument of GetParseOids; oids: its result so far; torn: history,
\* a read of this call overlapped with a write.  It overlaps at pc "torn".
Idle == [pc |-> "idle", texts |-> <<>>, oids |-> <<>>, torn |-> FALSE]

OidInit ==
    /\ oid = {}
    /\ pLock = None
    /\ task = [t \in Task |-> Idle]

\* The text whose turn it is.
Cur(t) == task[t].texts[Len(task[t].oids) + 1]

Set(t, r) == task' = [task EXCEPT ![t] = r]

Goto(t, from, to) ==
    task[t].pc = from /\ Set(t, [task[t] EXCEPT !.pc = to])

\* GetParseOid returns o: to the next text, or out of GetParseOids.
Return(t, o) ==
    LET oids == Append(task[t].oids, o)
    IN  Set(t, [task[t] EXCEPT !.oids = oids,
                               !.pc = IF Len(oids) = Len(task[t].texts) THEN "done" ELSE "call"])

-----------------------------------------------------------------------------

Torn(t) == [task[t] EXCEPT !.pc = "torn", !.torn = TRUE]

\* SnmpGet calls GetParseOids.
GetParseOids(t, texts) ==
    /\ task[t].pc = "idle"
    /\ Set(t, [Idle EXCEPT !.pc = "call", !.texts = texts])
    /\ UNCHANGED <<up, oid, pLock>>

\* It has returned, and the goroutine goes on.
Leave(t) ==
    /\ task[t].pc \in {"done", "failed"}
    /\ Set(t, Idle)
    /\ UNCHANGED <<up, oid, pLock>>

\* A map access begins while the other one is under way: Go may end the process.
Clash == up' = FALSE /\ UNCHANGED <<oid, pLock, task>>

\* GetParseOid begins to read the map.
BeginRead(t) ==
    /\ task[t].pc = "call"
    /\ \/ /\ Set(t, IF pLock = None THEN [task[t] EXCEPT !.pc = "read"] ELSE Torn(t))
          /\ UNCHANGED <<up, oid, pLock>>
       \/ pLock # None /\ Clash

\* Faulty variant of Hit: a text that was found is stored again.
HitStores(t) ==
    /\ task[t].pc \in {"read", "torn"} /\ Cur(t) \in oid
    /\ Set(t, [task[t] EXCEPT !.pc = "put"])
    /\ UNCHANGED <<up, oid, pLock>>

\* The text is in the map.
Hit(t) ==
    /\ task[t].pc \in {"read", "torn"} /\ Cur(t) \in oid
    /\ Return(t, Cur(t))
    /\ UNCHANGED <<up, oid, pLock>>

\* It is not, or a write kept the read from seeing it.
Miss(t) ==
    /\ Goto(t, "torn", "parse") \/ (Goto(t, "read", "parse") /\ Cur(t) \notin oid)
    /\ UNCHANGED <<up, oid, pLock>>

\* The key of a write under way was seen, and not yet its value.
HalfHit(t) ==
    /\ task[t].pc = "torn" /\ Cur(t) \in GoodText
    /\ Return(t, None)
    /\ UNCHANGED <<up, oid, pLock>>

\* Faulty variant of NewOid: the error is looked at after the text was stored.
NewOidLate(t) ==
    /\ Goto(t, "parse", "put")
    /\ UNCHANGED <<up, oid, pLock>>

NewOid(t) ==
    /\ \/ Goto(t, "parse", "put") /\ Cur(t) \in GoodText
       \/ Goto(t, "parse", "failed") /\ Cur(t) \in BadText
    /\ UNCHANGED <<up, oid, pLock>>

\* PutParseOid: from here on the map is being written.
BeginPut(t) ==
    /\ pLock = None
    /\ pLock' = t
    /\ task[t].pc = "put"
    /\ task' = [s \in Task |->
                   CASE s = t -> [task[s] EXCEPT !.pc = "write"]
                     [] s # t /\ task[s].pc = "read" -> Torn(s)
                     [] OTHER -> task[s]]
    /\ UNCHANGED <<up, oid>>

\* Faulty variant of EndPut: pLock is not released.
EndPutLocked(t) ==
    /\ task[t].pc = "write"
    /\ oid' = oid \cup {Cur(t)}
    /\ Return(t, Cur(t))
    /\ UNCHANGED <<up, pLock>>

EndPut(t) ==
    /\ task[t].pc = "write"
    /\ oid' = oid \cup {Cur(t)}
    /\ pLock' = None
    /\ Return(t, Cur(t))
    /\ UNCHANGED up

-----------------------------------------------------------------------------
(* Properties.                                                             *)

OidTypeOK ==
    /\ up \in BOOLEAN
    /\ oid \subseteq Text
    /\ pLock \in Task \cup {None}
    /\ \A t \in Task :
          /\ task[t].pc \in {"idle", "call", "read", "torn", "parse", "put", "write", "done", "failed"}
          /\ task[t].pc = "write" <=> pLock = t
          /\ Len(task[t].oids) <= Len(task[t].texts) /\ Len(task[t].texts) <= MaxTexts

\* Whatever was cached before, by whom, GetParseOids returns the oids of its
\* texts in their order, and an error exactly if one of them is not an oid,
\* unless a read of this call overlapped with a write (oidpool.go:30).
ParsedRight ==
    \A t \in Task :
        LET bad == {k \in DOMAIN task[t].texts : task[t].texts[k] \in BadText}
        IN  ~task[t].torn =>
                /\ task[t].pc = "done" => task[t].oids = task[t].texts /\ bad = {}
                /\ task[t].pc = "failed" => bad # {}

\* All oids are cached, and nobody is about to cache one again.
Warm ==
    /\ GoodText \subseteq oid
    /\ \A t \in Task : /\ task[t].pc \notin {"torn", "put", "write"}
                       /\ task[t].pc = "parse" => Cur(t) \in BadText

\* The race of reads with writes is one of a cold cache: once all oids in use
\* are cached nothing writes the map any more and nothing in it ends the
\* process, with texts that are refused and cached by nobody too (oidpool.go:36).
WarmStaysSafe == [][Warm => Warm' /\ up' = up]_oidVars
=============================================================================
