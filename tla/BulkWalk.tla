------------------------------ MODULE BulkWalk ------------------------------
(***************************************************************************)
(* GetBulkWalk of snmpgo as SnmpGet calls it for a "table" segment, with   *)
(* no non-repeaters and one repetition: the subtrees asked for are walked  *)
(* side by side, one row of all of them per request, on a device whose     *)
(* rows come and go meanwhile, that may cut an answer short, and that may  *)
(* not follow the protocol at all.                                         *)
(*                                                                         *)
(* An oid is the sequence of its numbers.  Of a varbind the walk looks at  *)
(* the oid and at whether it is an exception (noSuchObject,                *)
(* noSuchInstance, endOfMibView).                                          *)
(***************************************************************************)
EXTENDS Naturals, SequencesExt

CONSTANTS
    Name,         \* the oids of this world
    MaxRequested, \* bound of the number of oids asked for
    MaxChanges    \* bound of the number of changes on the device

ASSUME WalkAssumption ==
    /\ Name \subseteq Seq(Nat) /\ IsFiniteSet(Name)
    /\ MaxRequested \in Nat /\ MaxChanges \in Nat

VARIABLES
    requested, \* the oids asked for, as parsed
    cols,      \* reqOids[i] for the subtrees oids[i] that are not completed
    resBinds,  \* the oids of the rows found
    outcome,   \* "none" while it runs, then "ok", "status" or "error"
    honest,    \* the device follows the protocol
    mib,       \* the rows of the device
    changes,   \* how often they have changed
    stable,    \* history: rows present since the walk began
    ever,      \* history: rows present at some time since then
    cut        \* history: an answer was cut short

deviceVars == <<honest, mib, changes, stable, ever>>

vars == <<requested, cols, resBinds, outcome, deviceVars, cut>>

-----------------------------------------------------------------------------
(* Oids.                                                                   *)

\* v.Compare(o) = -1
Less(v, o) ==
    \/ IsStrictPrefix(v, o)
    \/ \E k \in 1 .. Len(v) : /\ k <= Len(o) /\ v[k] < o[k]
                              /\ \A j \in 1 .. k - 1 : v[j] = o[j]

\* v.Contains(o)
ContainsOid(v, o) == IsPrefix(o, v)

Greatest(S) == CHOOSE v \in S : \A o \in S : o = v \/ Less(o, v)

\* What sort.Sort may leave of the list s, which has equal oids in any order.
Sort(s) ==
    {t \in {[k \in DOMAIN s |-> s[f[k]]] : f \in Bijection(DOMAIN s, DOMAIN s)} :
        \A j, k \in DOMAIN t : j < k => ~Less(t[k], t[j])}

\* Faulty variant of Dropped: the arguments of Contains are swapped.
DroppedSwapped(s, K, k) ==
    \E j \in K : j < k /\ (\A m \in K : m < k => m <= j) /\ ContainsOid(s[j], s[k])

\* s[k] is below the oid before, which the loop of uniq has kept last of K.
Dropped(s, K, k) ==
    \E j \in K : j < k /\ (\A m \in K : m < k => m <= j) /\ ContainsOid(s[k], s[j])

\* The oids that the loop keeps of the sorted list s, which keep its order.
UniqBase(s) ==
    LET kept == CHOOSE K \in SUBSET DOMAIN s : \A k \in DOMAIN s : k \in K <=> ~Dropped(s, K, k)
    IN  {s[k] : k \in kept}

\* Uniq of a sorted list of varbinds: of those with one oid any may come first.
Uniq(bs) == {u \in SUBSET bs : \A v \in bs : \E w \in u : \A x \in u : x.oid = v.oid <=> x = w}

-----------------------------------------------------------------------------

Init ==
    /\ requested \in SeqOf(Name, MaxRequested) \ {<<>>}
    /\ \E s \in Sort(requested) : cols = [b \in UniqBase(s) |-> b]
    /\ resBinds = {}
    /\ outcome = "none"
    /\ honest \in BOOLEAN
    /\ mib \in IF honest THEN SUBSET Name ELSE {{}}
    /\ changes = 0
    /\ stable = mib /\ ever = mib
    /\ cut = FALSE

\* The varbind of an honest device for oid o (external).
GetNext(o) ==
    LET after == {n \in mib : Less(o, n)}
    IN  IF after = {} THEN [oid |-> o, exception |-> TRUE]
        ELSE [oid |-> CHOOSE n \in after : \A m \in after : m = n \/ Less(n, m),
              exception |-> FALSE]

Varbind == [oid : Name, exception : BOOLEAN]

MatchBaseOids(bs, base) == {v \in bs : ContainsOid(v.oid, base)}

\* Faulty variant of Nothing: rows that were seen before are taken again.
NothingMatched(matched) == matched = {}

\* Faulty variant of Nothing: the first row is looked up instead of the last.
NothingFirst(matched) ==
    \/ matched = {}
    \/ \E v \in matched : v.oid \in resBinds /\ \A w \in matched : ~Less(w.oid, v.oid)

\* No row of the subtree, or the last one was seen before.
Nothing(matched) ==
    \/ matched = {}
    \/ Greatest({v.oid : v \in matched}) \in resBinds

\* Faulty variant of Values: exceptions are taken for rows.
ValuesAll(matched) == {v.oid : v \in matched}

Values(matched) == {v.oid : v \in {w \in matched : ~w.exception}}

Completed(matched) == Nothing(matched) \/ \E v \in matched : v.exception

\* What the walk does with the sorted varbinds bs of a response.  The subtrees
\* are disjoint, so that none of them depends on what another one found.
Advance(bs) ==
    LET matched(b) == MatchBaseOids(bs, b)
        open == {b \in DOMAIN cols : ~Completed(matched(b))}
    IN  /\ resBinds' = resBinds \cup
              UNION {Values(matched(b)) : b \in {c \in DOMAIN cols : ~Nothing(matched(c))}}
        /\ cols' = [b \in open |-> Greatest(Values(matched(b)))]
        /\ outcome' = IF open = {} THEN "ok" ELSE "none"

\* A request and its response.  An honest device answers for every column, or
\* for the first of them if the others do not fit in the message; another one
\* answers whatever it likes, if with no more varbinds than columns.
Round ==
    /\ outcome = "none"
    /\ \E B \in SUBSET DOMAIN cols :
          \/ /\ honest /\ B # {}
             /\ \A b \in B, c \in DOMAIN cols \ B : Less(b, c)
             /\ \E bs \in Uniq({GetNext(cols[b]) : b \in B}) : Advance(bs)
             /\ cut' = (cut \/ B # DOMAIN cols)
          \/ /\ ~honest
             /\ \E answer \in [B -> Varbind] :
                   \E bs \in Uniq({answer[b] : b \in B}) : Advance(bs)
             /\ UNCHANGED cut
    /\ UNCHANGED <<requested, deviceVars>>

\* The request fails, or its response has an error status: the rows found so
\* far are dropped.
GiveUp ==
    /\ outcome = "none"
    /\ outcome' \in {"error", "status"}
    /\ resBinds' = {} /\ cols' = [b \in {} |-> b]
    /\ UNCHANGED <<requested, deviceVars, cut>>

\* A row comes or goes (external).
Change ==
    /\ outcome = "none" /\ honest /\ changes < MaxChanges
    /\ \E n \in Name :
          /\ mib' = IF n \in mib THEN mib \ {n} ELSE mib \cup {n}
          /\ stable' = stable \ {n} /\ ever' = ever \cup {n}
    /\ changes' = changes + 1
    /\ UNCHANGED <<requested, cols, resBinds, outcome, honest, cut>>

Next == Round \/ GiveUp \/ Change

Spec == Init /\ [][Next]_vars

\* Every request returns: see Returns of SnmpClient.
FairSpec == Spec /\ WF_vars(Round)

-----------------------------------------------------------------------------
(* Properties.                                                             *)

\* The types; the subtrees being walked are disjoint, which Advance relies on.
TypeOK ==
    /\ requested \in SeqOf(Name, MaxRequested)
    /\ DOMAIN cols \subseteq ToSet(requested)
    /\ \A b \in DOMAIN cols :
          /\ cols[b] \in Name
          /\ \A c \in DOMAIN cols : c # b => ~ContainsOid(c, b)
    /\ resBinds \subseteq Name
    /\ outcome \in {"none", "ok", "status", "error"} /\ (outcome = "none" <=> DOMAIN cols # {})
    /\ stable \subseteq mib /\ mib \subseteq ever /\ changes \in 0 .. MaxChanges

\* A walk that succeeds has every row below every oid asked for that was there
\* throughout, whatever rows came and went, in whatever order and how often the
\* oids were given, and although a column that ends runs into the next one
\* (client.go:232), unless the device cut an answer short: the columns that got
\* no varbind then count as completed (client.go:236).
WalkComplete ==
    outcome = "ok" /\ honest /\ ~cut =>
        \A r \in stable, q \in ToSet(requested) : IsStrictPrefix(q, r) => r \in resBinds

\* A row returned is below an oid asked for, whatever the device sends, and an
\* honest device had it.
WalkSound ==
    outcome = "ok" =>
        /\ \A r \in resBinds : \E q \in ToSet(requested) : ContainsOid(r, q)
        /\ honest => resBinds \subseteq ever

\* A column that stays open after a round has found a row that no column had
\* found before, and asks for what follows that row, even on a device that returns
\* rows again or out of order (client.go:235).
RoundFindsRows ==
    [][changes' = changes => \A b \in DOMAIN cols' : cols'[b] \in resBinds' \ resBinds]_vars

\* A walk ends even on a device that returns rows again or out of order: every
\* round finds a new row or completes all columns (client.go:235).
WalkEnds == <>(outcome # "none")
=============================================================================
