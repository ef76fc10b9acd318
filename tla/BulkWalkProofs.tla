-------------------------- MODULE BulkWalkProofs ---------------------------
(***************************************************************************)
(* Safety of GetBulkWalk for every list of oids, every finite set of oids  *)
(* in the world, any changes on the device and any answers of a device     *)
(* that does not follow the protocol: the types with the disjointness of   *)
(* the subtrees, that a row returned was asked for, and that no row that   *)
(* was there throughout is missing.                                        *)
(*                                                                         *)
(* Oids are in lexicographic order, in which the oids of a subtree lie     *)
(* side by side (Convex).  So the next row of the device after the last    *)
(* one of a subtree is in the subtree as long as a row is missing there,   *)
(* and what other columns run into comes before it.                        *)
(***************************************************************************)
EXTENDS BulkWalk, TLAPS, FiniteSetTheorems, SequenceTheorems, WellFoundedInduction

\* A request asks for what follows an oid of its own subtree.
Rooted == \A b \in DOMAIN cols : IsPrefix(b, cols[b])

\* The rows found are below oids asked for, and an honest device had them.
Found ==
    /\ \A r \in resBinds : \E q \in ToSet(requested) : ContainsOid(r, q)
    /\ honest => resBinds \subseteq ever

\* The column of subtree b has still to come to row r, and no row of b that
\* is behind its last request will stop it.
Ahead(b, r) ==
    /\ IsPrefix(b, r) /\ Less(cols[b], r)
    /\ \A x \in resBinds : IsPrefix(b, x) => x = cols[b] \/ Less(x, cols[b])

\* A row that was there throughout and is missing is ahead of a column.
Owed ==
    honest /\ ~cut /\ outcome \in {"none", "ok"} =>
        \A r \in stable, q \in ToSet(requested) :
            IsStrictPrefix(q, r) /\ r \notin resBinds => \E b \in DOMAIN cols : Ahead(b, r)

\* The inductive invariant of a walk.
WalkInv == TypeOK /\ ever \subseteq Name /\ Rooted /\ Found /\ Owed

-----------------------------------------------------------------------------
(* The order of oids.                                                      *)

Oid == Seq(Nat)

\* A sequence of numbers is a function on an interval from 1.
LEMMA OidIs ==
    ASSUME NEW v \in Oid
    PROVE  Len(v) \in Nat /\ DOMAIN v = 1 .. Len(v) /\ \A j \in 1 .. Len(v) : v[j] \in Nat
<1>1. Len(v) \in Nat /\ v \in [1 .. Len(v) -> Nat] /\ DOMAIN v = 1 .. Len(v)
    BY LenProperties DEF Oid
<1> QED
    BY <1>1

\* Oids that agree at all positions are equal.
LEMMA SameOid ==
    ASSUME NEW v \in Oid, NEW o \in Oid, Len(v) = Len(o), \A j \in 1 .. Len(v) : v[j] = o[j]
    PROVE  v = o
    BY SeqEqual DEF Oid

\* A prefix, position by position.
LEMMA PrefixIs ==
    ASSUME NEW v \in Oid, NEW o \in Oid
    PROVE  IsPrefix(v, o) <=> Len(v) <= Len(o) /\ \A j \in 1 .. Len(v) : v[j] = o[j]
<1>1. /\ Len(v) \in Nat /\ \A j \in 1 .. Len(v) : v[j] \in Nat
      /\ Len(o) \in Nat /\ \A j \in 1 .. Len(o) : o[j] \in Nat
    BY OidIs
<1> SUFFICES ASSUME Len(v) <= Len(o)
             PROVE  SubSeq(v, 1, Len(v)) = SubSeq(o, 1, Len(v)) <=> \A j \in 1 .. Len(v) : v[j] = o[j]
    BY DEF IsPrefix
<1>2. SubSeq(v, 1, Len(v)) = v
    BY SubSeqFull DEF Oid
<1>3. PICK b : b = SubSeq(o, 1, Len(v))
    OBVIOUS
<1>4. /\ b \in Seq(Nat) /\ Len(b) = Len(v)
      /\ \A j \in 1 .. Len(v) : b[j] = o[j]
  <2>1. \A j \in 1 .. Len(v) : o[j] \in Nat
      BY <1>1
  <2>2. /\ b \in Seq(Nat)
        /\ Len(b) = IF 1 <= Len(v) THEN Len(v) - 1 + 1 ELSE 0
        /\ \A j \in 1 .. Len(v) - 1 + 1 : b[j] = o[1 + j - 1]
      BY <1>1, <1>3, <2>1, SubSeqProperties
  <2> QED
      BY <1>1, <2>2
<1>5. v = b <=> \A j \in 1 .. Len(v) : v[j] = b[j]
    BY <1>4, SameOid DEF Oid
<1> QED
    BY <1>2, <1>3, <1>4, <1>5

\* v and o agree before k, where v ends or has the smaller number.
Differ(v, o, k) ==
    /\ \A j \in 1 .. k - 1 : v[j] = o[j]
    /\ \/ k = Len(v) + 1
       \/ k <= Len(v) /\ v[k] < o[k]

\* The order by the first position that differs.
LEMMA LessIs ==
    ASSUME NEW v \in Oid, NEW o \in Oid
    PROVE  Less(v, o) <=> \E k \in 1 .. Len(o) : Differ(v, o, k)
<1>1. /\ Len(v) \in Nat /\ Len(o) \in Nat
    BY OidIs
<1>2. ASSUME IsStrictPrefix(v, o) PROVE Differ(v, o, Len(v) + 1) /\ Len(v) + 1 \in 1 .. Len(o)
  <2>1. Len(v) <= Len(o) /\ (\A j \in 1 .. Len(v) : v[j] = o[j]) /\ v # o
      BY <1>2, PrefixIs DEF IsStrictPrefix
  <2>2. Len(v) # Len(o)
      BY <2>1, SameOid
  <2> QED
      BY <1>1, <2>1, <2>2 DEF Differ
<1>3. ASSUME NEW k \in 1 .. Len(o), Differ(v, o, k), k = Len(v) + 1 PROVE IsStrictPrefix(v, o)
  <2>1. Len(v) <= Len(o) /\ Len(v) # Len(o) /\ \A j \in 1 .. Len(v) : v[j] = o[j]
      BY <1>1, <1>3 DEF Differ
  <2> QED
      BY <2>1, PrefixIs DEF IsStrictPrefix
<1> QED
    BY <1>1, <1>2, <1>3 DEF Less, Differ

\* No oid is less than itself.
LEMMA LessIrreflexive ==
    ASSUME NEW v \in Oid
    PROVE  ~Less(v, v)
<1>1. Len(v) \in Nat /\ \A j \in 1 .. Len(v) : v[j] \in Nat
    BY OidIs
<1> QED
    BY <1>1, LessIs DEF Differ

\* The order is transitive.
LEMMA LessTransitive ==
    ASSUME NEW x \in Oid, NEW y \in Oid, NEW z \in Oid, Less(x, y), Less(y, z)
    PROVE  Less(x, z)
<1>1. /\ Len(x) \in Nat /\ \A j \in 1 .. Len(x) : x[j] \in Nat
      /\ Len(y) \in Nat /\ \A j \in 1 .. Len(y) : y[j] \in Nat
      /\ Len(z) \in Nat /\ \A j \in 1 .. Len(z) : z[j] \in Nat
    BY OidIs
<1>2. PICK k \in 1 .. Len(y) : Differ(x, y, k)
    BY LessIs
<1>3. PICK m \in 1 .. Len(z) : Differ(y, z, m)
    BY LessIs
<1>4. CASE k < m
  <2>1. k \in 1 .. Len(z) /\ y[k] = z[k]
      BY <1>1, <1>2, <1>3, <1>4 DEF Differ
  <2>2. Differ(x, z, k)
      BY <1>1, <1>2, <1>3, <1>4, <2>1 DEF Differ
  <2> QED
      BY <2>1, <2>2, LessIs
<1>5. CASE m <= k
  <2>1. m <= Len(y) /\ y[m] < z[m]
      BY <1>1, <1>2, <1>3, <1>5 DEF Differ
  <2>2. \A j \in 1 .. m - 1 : x[j] = z[j]
      BY <1>1, <1>2, <1>3, <1>5 DEF Differ
  <2>3. m = Len(x) + 1 \/ (m <= Len(x) /\ x[m] < z[m])
    <3>1. CASE m < k
      <4>1. x[m] = y[m] /\ m <= Len(x)
          BY <1>1, <1>2, <1>3, <3>1 DEF Differ
      <4> QED
          BY <4>1, <2>1
    <3>2. CASE m = k /\ k <= Len(x)
      <4>1. x[m] < y[m] /\ m \in 1 .. Len(x) /\ m \in 1 .. Len(y)
          BY <1>1, <1>2, <1>3, <3>2 DEF Differ
      <4> QED
          BY <1>1, <1>3, <2>1, <4>1
    <3>3. CASE m = k /\ k = Len(x) + 1
        BY <3>3
    <3> QED
        BY <1>1, <1>2, <1>5, <3>1, <3>2, <3>3 DEF Differ
  <2> QED
      BY <2>2, <2>3, LessIs DEF Differ
<1> QED
    BY <1>1, <1>2, <1>3, <1>4, <1>5

\* A set of positions that is not empty has a first one.
LEMMA FirstPosition ==
    ASSUME NEW S, S \subseteq Nat, S # {}
    PROVE  \E p \in S : \A q \in S : p <= q
<1> DEFINE R == OpToRel(<, Nat)
<1>1. IsWellFoundedOn(R, Nat)
    BY NatLessThanWellFounded
<1>2. PICK m \in S : \A k \in S : ~(<<k, m>> \in R)
    BY <1>1, WFMin
<1>3. \A k \in S : ~(k < m)
    BY <1>2 DEF OpToRel
<1> QED
    BY <1>3

\* The order is total.
LEMMA LessTotal ==
    ASSUME NEW x \in Oid, NEW y \in Oid, x # y
    PROVE  Less(x, y) \/ Less(y, x)
<1>1. /\ Len(x) \in Nat /\ \A j \in 1 .. Len(x) : x[j] \in Nat
      /\ Len(y) \in Nat /\ \A j \in 1 .. Len(y) : y[j] \in Nat
    BY OidIs
<1> DEFINE D == {j \in 1 .. Len(x) : j <= Len(y) /\ x[j] # y[j]}
<1>2. CASE D = {}
  <2>1. Len(x) # Len(y)
      BY <1>1, <1>2, SameOid
  <2>2. CASE Len(x) < Len(y)
    <3>1. Differ(x, y, Len(x) + 1) /\ Len(x) + 1 \in 1 .. Len(y)
        BY <1>1, <1>2, <2>2 DEF Differ
    <3> QED
        BY <3>1, LessIs
  <2>3. CASE Len(y) < Len(x)
    <3>1. Differ(y, x, Len(y) + 1) /\ Len(y) + 1 \in 1 .. Len(x)
        BY <1>1, <1>2, <2>3 DEF Differ
    <3> QED
        BY <3>1, LessIs
  <2> QED
      BY <1>1, <2>1, <2>2, <2>3
<1>3. CASE D # {}
  <2>1. PICK k \in D : \A q \in D : k <= q
    <3>1. D \subseteq Nat
        OBVIOUS
    <3> HIDE DEF D
    <3> QED
        BY <1>3, <3>1, FirstPosition
  <2>2. k \in 1 .. Len(x) /\ k \in 1 .. Len(y) /\ x[k] # y[k]
      BY <1>1
  <2>3. \A j \in 1 .. k - 1 : x[j] = y[j]
      BY <1>1, <2>1, <2>2
  <2>4. x[k] < y[k] \/ y[k] < x[k]
      BY <1>1, <2>2
  <2>5. Differ(x, y, k) \/ Differ(y, x, k)
      BY <2>2, <2>3, <2>4 DEF Differ
  <2> QED
      BY <2>2, <2>5, LessIs
<1> QED
    BY <1>2, <1>3

\* Two oids are not less than each other.
LEMMA LessAsymmetric ==
    ASSUME NEW x \in Oid, NEW y \in Oid, Less(x, y), Less(y, x)
    PROVE  FALSE
    BY LessTransitive, LessIrreflexive

\* An oid is the first one of its subtree.
LEMMA PrefixLess ==
    ASSUME NEW b \in Oid, NEW x \in Oid, IsPrefix(b, x)
    PROVE  b = x \/ Less(b, x)
    BY DEF Less, IsStrictPrefix

\* Every oid is in its own subtree.
LEMMA PrefixReflexive ==
    ASSUME NEW x \in Oid
    PROVE  IsPrefix(x, x)
    BY DEF IsPrefix, Oid

\* Subtrees are nested like their oids.
LEMMA PrefixTransitive ==
    ASSUME NEW x \in Oid, NEW y \in Oid, NEW z \in Oid, IsPrefix(x, y), IsPrefix(y, z)
    PROVE  IsPrefix(x, z)
<1>1. Len(x) \in Nat /\ Len(y) \in Nat /\ Len(z) \in Nat
    BY OidIs
<1>2. /\ Len(x) <= Len(y) /\ \A j \in 1 .. Len(x) : x[j] = y[j]
      /\ Len(y) <= Len(z) /\ \A j \in 1 .. Len(y) : y[j] = z[j]
    BY PrefixIs
<1>3. Len(x) <= Len(z) /\ \A j \in 1 .. Len(x) : x[j] = z[j]
    BY <1>1, <1>2
<1> QED
    BY <1>3, PrefixIs

\* Subtrees that have an oid in common are nested.
LEMMA Nested ==
    ASSUME NEW a \in Oid, NEW b \in Oid, NEW x \in Oid, IsPrefix(a, x), IsPrefix(b, x)
    PROVE  IsPrefix(a, b) \/ IsPrefix(b, a)
<1>1. Len(a) \in Nat /\ Len(b) \in Nat /\ Len(x) \in Nat
    BY OidIs
<1>2. /\ Len(a) <= Len(x) /\ \A j \in 1 .. Len(a) : a[j] = x[j]
      /\ Len(b) <= Len(x) /\ \A j \in 1 .. Len(b) : b[j] = x[j]
    BY PrefixIs
<1>3. CASE Len(a) <= Len(b)
  <2>1. \A j \in 1 .. Len(a) : a[j] = b[j]
      BY <1>1, <1>2, <1>3
  <2> QED
      BY <1>3, <2>1, PrefixIs
<1>4. CASE Len(b) <= Len(a)
  <2>1. \A j \in 1 .. Len(b) : b[j] = a[j]
      BY <1>1, <1>2, <1>4
  <2> QED
      BY <1>4, <2>1, PrefixIs
<1> QED
    BY <1>1, <1>3, <1>4

\* The oids of a subtree lie side by side.
LEMMA Convex ==
    ASSUME NEW b \in Oid, NEW x \in Oid, NEW y \in Oid, NEW z \in Oid,
           IsPrefix(b, x), IsPrefix(b, z), Less(x, y), Less(y, z)
    PROVE  IsPrefix(b, y)
<1>1. /\ Len(x) \in Nat /\ \A j \in 1 .. Len(x) : x[j] \in Nat
      /\ Len(y) \in Nat /\ \A j \in 1 .. Len(y) : y[j] \in Nat
      /\ Len(z) \in Nat /\ \A j \in 1 .. Len(z) : z[j] \in Nat
      /\ Len(b) \in Nat
    BY OidIs
<1>2. /\ Len(b) <= Len(x) /\ \A j \in 1 .. Len(b) : b[j] = x[j]
      /\ Len(b) <= Len(z) /\ \A j \in 1 .. Len(b) : b[j] = z[j]
    BY PrefixIs
<1>3. PICK k \in 1 .. Len(y) : Differ(x, y, k)
    BY LessIs
<1>4. PICK m \in 1 .. Len(z) : Differ(y, z, m)
    BY LessIs
<1>5. CASE k > Len(b)
  <2>1. Len(b) <= Len(y) /\ \A j \in 1 .. Len(b) : b[j] = y[j]
      BY <1>1, <1>2, <1>3, <1>5 DEF Differ
  <2> QED
      BY <2>1, PrefixIs
<1>6. CASE k <= Len(b)
  <2>1. x[k] < y[k] /\ b[k] = x[k] /\ b[k] = z[k]
      BY <1>1, <1>2, <1>3, <1>6 DEF Differ
  <2>2. CASE k < m
    <3>1. y[k] = z[k]
        BY <1>1, <1>3, <1>4, <2>2 DEF Differ
    <3> QED
        BY <1>1, <1>2, <1>3, <1>6, <2>1, <3>1
  <2>3. CASE m = k
    <3>1. y[k] < z[k]
        BY <1>1, <1>3, <1>4, <2>3 DEF Differ
    <3> QED
        BY <1>1, <1>2, <1>3, <1>6, <2>1, <3>1
  <2>4. CASE m < k
    <3>1. y[m] < z[m] /\ x[m] = y[m]
        BY <1>1, <1>3, <1>4, <2>4 DEF Differ
    <3>2. b[m] = x[m] /\ b[m] = z[m] /\ m \in 1 .. Len(y)
        BY <1>1, <1>2, <1>3, <1>4, <1>6, <2>4
    <3> QED
        BY <1>1, <1>2, <1>4, <3>1, <3>2
  <2> QED
      BY <1>1, <1>3, <1>4, <2>2, <2>3, <2>4
<1> QED
    BY <1>1, <1>3, <1>5, <1>6

\* A finite set of oids has a greatest and a least one: otherwise a smallest
\* subset without one would have one more element than another.
LEMMA Extremes ==
    ASSUME NEW S, IsFiniteSet(S), S \subseteq Oid, S # {}
    PROVE  /\ \E v \in S : \A o \in S : o = v \/ Less(o, v)
           /\ \E v \in S : \A o \in S : o = v \/ Less(v, o)
<1> DEFINE Good(U) == /\ \E v \in U : \A o \in U : o = v \/ Less(o, v)
                      /\ \E v \in U : \A o \in U : o = v \/ Less(v, o)
           T == {U \in FiniteSubsetsOf(S) : U # {} /\ ~Good(U)}
           R == StrictSubsetOrdering(S)
<1>1. IsWellFoundedOn(R, FiniteSubsetsOf(S))
    BY FS_StrictSubsetOrderingWellFounded
<1>2. SUFFICES ASSUME T # {} PROVE FALSE
  <2>1. S \in FiniteSubsetsOf(S)
      BY DEF FiniteSubsetsOf
  <2> QED
      BY <2>1
<1>3. PICK U \in T : \A V \in T : ~(<<V, U>> \in R)
  <2>1. T \subseteq FiniteSubsetsOf(S)
      OBVIOUS
  <2> HIDE DEF T, R
  <2> QED
      BY <1>1, <1>2, <2>1, WFMin
<1>4. U \subseteq S /\ IsFiniteSet(U) /\ U # {} /\ ~Good(U)
    BY DEF FiniteSubsetsOf
<1>5. PICK u \in U : TRUE
    BY <1>4
<1>6. PICK V : V = U \ {u}
    OBVIOUS
<1>7. V \subseteq S /\ V # U /\ V \subseteq U /\ u \in Oid /\ V \subseteq Oid
    BY <1>4, <1>5, <1>6
<1>8. V \in FiniteSubsetsOf(S)
    BY <1>4, <1>6, <1>7, FS_RemoveElement DEF FiniteSubsetsOf
<1>9. <<V, U>> \in R
    BY <1>4, <1>7 DEF StrictSubsetOrdering
<1>10. V = {} \/ Good(V)
    BY <1>3, <1>8, <1>9
<1>11. CASE V = {}
  <2>1. U = {u}
      BY <1>5, <1>6, <1>11
  <2> QED
      BY <1>4, <2>1
<1>12. CASE Good(V)
  <2>1. PICK v \in V : \A o \in V : o = v \/ Less(o, v)
      BY <1>12
  <2>2. PICK w \in V : \A o \in V : o = w \/ Less(w, o)
      BY <1>12
  <2>3. U = V \cup {u} /\ u \notin V /\ v \in Oid /\ w \in Oid
      BY <1>5, <1>6, <1>7
  <2>4. \E g \in U : \A o \in U : o = g \/ Less(o, g)
    <3>1. CASE Less(u, v)
        BY <2>1, <2>3, <3>1
    <3>2. CASE Less(v, u)
      <4>1. \A o \in V : Less(o, u)
          BY <2>1, <2>3, <3>2, <1>7, LessTransitive
      <4> QED
          BY <2>3, <4>1
    <3> QED
        BY <2>3, <3>1, <3>2, <1>7, LessTotal
  <2>5. \E g \in U : \A o \in U : o = g \/ Less(g, o)
    <3>1. CASE Less(w, u)
        BY <2>2, <2>3, <3>1
    <3>2. CASE Less(u, w)
      <4>1. \A o \in V : Less(u, o)
          BY <2>2, <2>3, <3>2, <1>7, LessTransitive
      <4> QED
          BY <2>3, <4>1
    <3> QED
        BY <2>3, <3>1, <3>2, <1>7, LessTotal
  <2> QED
      BY <1>4, <2>4, <2>5
<1> QED
    BY <1>10, <1>11, <1>12

\* The greatest oid is the one that Greatest returns.
LEMMA GreatestIs ==
    ASSUME NEW S, S \subseteq Oid, NEW n \in S, \A o \in S : o = n \/ Less(o, n)
    PROVE  Greatest(S) = n
<1>1. \E v \in S : \A o \in S : o = v \/ Less(o, v)
    OBVIOUS
<1>2. Greatest(S) \in S /\ \A o \in S : o = Greatest(S) \/ Less(o, Greatest(S))
    BY <1>1 DEF Greatest
<1> QED
    BY <1>2, LessAsymmetric

-----------------------------------------------------------------------------
(* The subtrees that are walked.                                           *)

\* The loop of UniqBase has a result, by induction on the number of rounds.
LEMMA KeptExists ==
    ASSUME NEW n \in Nat, NEW s
    PROVE  \E K \in SUBSET (1 .. n) : \A k \in 1 .. n : k \in K <=> ~Dropped(s, K, k)
<1> DEFINE Good(m) == \E K \in SUBSET (1 .. m) : \A k \in 1 .. m : k \in K <=> ~Dropped(s, K, k)
           T == {m \in Nat : ~Good(m)}
<1> SUFFICES ASSUME ~Good(n) PROVE FALSE
    OBVIOUS
<1>1. T # {} /\ T \subseteq Nat
    OBVIOUS
<1>2. PICK m \in T : \A q \in T : m <= q
  <2> HIDE DEF T
  <2> QED
      BY <1>1, FirstPosition
<1>3. m \in Nat /\ ~Good(m) /\ \A q \in Nat : q < m => Good(q)
    BY <1>2
<1>4. CASE m = 0
  <2>1. 1 .. m = {}
      BY <1>4
  <2> QED
      BY <1>3, <2>1
<1>5. CASE m # 0
  <2>1. m - 1 \in Nat /\ m - 1 < m /\ m \notin 1 .. m - 1 /\ 1 .. m = 1 .. (m - 1) \cup {m}
      BY <1>3, <1>5
  <2>2. PICK J \in SUBSET (1 .. m - 1) : \A k \in 1 .. m - 1 : k \in J <=> ~Dropped(s, J, k)
      BY <1>3, <2>1
  <2>3. PICK K : K = IF Dropped(s, J, m) THEN J ELSE J \cup {m}
      OBVIOUS
  <2>4. K \in SUBSET (1 .. m) /\ \A k \in 1 .. m - 1 : k \in K <=> k \in J
      BY <2>1, <2>2, <2>3
  <2>5. ASSUME NEW k \in 1 .. m PROVE Dropped(s, K, k) <=> Dropped(s, J, k)
    <3>1. \A j : j \in K /\ j < k <=> j \in J /\ j < k
        BY <1>3, <2>1, <2>2, <2>3, <2>4
    <3> QED
        BY <3>1 DEF Dropped
  <2>6. \A k \in 1 .. m : k \in K <=> ~Dropped(s, K, k)
      BY <2>1, <2>2, <2>3, <2>4, <2>5
  <2> QED
      BY <1>3, <2>4, <2>6
<1> QED
    BY <1>4, <1>5

\* What is left of the oids asked for: disjoint subtrees that cover them all.
LEMMA BasesOf ==
    ASSUME NEW req \in SeqOf(Name, MaxRequested), req # <<>>, NEW s \in Sort(req),
           NEW B, B = UniqBase(s)
    PROVE  /\ B \subseteq ToSet(req) /\ B # {} /\ ToSet(req) \subseteq Name
           /\ \A b, c \in B : c # b => ~IsPrefix(b, c)
           /\ \A q \in ToSet(req) : \E b \in B : IsPrefix(b, q)
<1>1. Name \subseteq Oid /\ MaxRequested \in Nat
    BY WalkAssumption DEF Oid
<1>2. PICK n \in Nat : req \in [1 .. n -> Name]
    BY <1>1 DEF SeqOf
<1>3. n # 0
  <2>1. ASSUME n = 0 PROVE req = <<>>
    <3>1. 1 .. n = {}
        BY <2>1
    <3> QED
        BY <3>1, <1>2
  <2> QED
      BY <2>1
<1>4. PICK f \in Bijection(1 .. n, 1 .. n) : s = [k \in 1 .. n |-> req[f[k]]]
    BY <1>2 DEF Sort
<1>5. /\ DOMAIN s = 1 .. n
      /\ \A j, k \in 1 .. n : j < k => ~Less(s[k], s[j])
    BY <1>4 DEF Sort
<1>6. f \in [1 .. n -> 1 .. n] /\ \A k \in 1 .. n : \E j \in 1 .. n : f[j] = k
    BY DEF Bijection, Surjection
<1>7. \A k \in 1 .. n : s[k] \in Name /\ s[k] \in Oid
    BY <1>1, <1>2, <1>4, <1>6
<1>8. ToSet(req) = {s[k] : k \in 1 .. n} /\ ToSet(req) \subseteq Name
    BY <1>2, <1>4, <1>6 DEF ToSet
<1> DEFINE P(L) == \A k \in DOMAIN s : k \in L <=> ~Dropped(s, L, k)
           K == CHOOSE L \in SUBSET DOMAIN s : P(L)
<1>9. \E L \in SUBSET DOMAIN s : P(L)
    BY <1>5, KeptExists
<1>10. K \in SUBSET DOMAIN s /\ P(K)
    BY <1>9
<1>11. B = {s[k] : k \in K}
    BY DEF UniqBase
<1> HIDE DEF K
<1>12. K \subseteq 1 .. n /\ \A k \in 1 .. n : k \in K <=> ~Dropped(s, K, k)
    BY <1>5, <1>10
<1>13. B \subseteq ToSet(req)
    BY <1>8, <1>11, <1>12
<1>14. B # {}
  <2>1. 1 \in 1 .. n
      BY <1>3
  <2>2. ~Dropped(s, K, 1)
      BY <1>12 DEF Dropped
  <2> QED
      BY <2>1, <2>2, <1>11, <1>12
<1>15. ASSUME NEW q \in ToSet(req) PROVE \E b \in B : IsPrefix(b, q)
  <2>1. PICK k \in 1 .. n : q = s[k]
      BY <1>8
  <2>2. CASE k \in K
      BY <2>1, <2>2, <1>7, <1>11, PrefixReflexive
  <2>3. CASE k \notin K
      BY <2>1, <2>3, <1>11, <1>12 DEF Dropped, ContainsOid
  <2> QED
      BY <2>2, <2>3
<1>16. ASSUME NEW j \in K, NEW k \in K, j < k, IsPrefix(s[j], s[k]) PROVE FALSE
  <2> DEFINE A == {m \in K : j < m}
  <2>1. A \subseteq Nat /\ k \in A
    <3>1. K \subseteq Nat
        BY <1>12
    <3>2. A \subseteq K
        OBVIOUS
    <3>3. k \in A
        BY <1>16
    <3> QED
        BY <3>1, <3>2, <3>3
  <2>2. PICK m \in A : \A q \in A : m <= q
    <3> HIDE DEF A
    <3> QED
        BY <2>1, FirstPosition
  <2>3. m \in K /\ j < m /\ m <= k /\ \A q \in K : q < m => q <= j
      BY <1>12, <2>1, <2>2
  <2>4. /\ s[j] \in Oid /\ s[m] \in Oid /\ s[k] \in Oid
        /\ ~Less(s[m], s[j]) /\ (m # k => ~Less(s[k], s[m]))
      BY <1>5, <1>7, <1>12, <2>3
  <2>5. IsPrefix(s[j], s[m])
    <3>1. CASE s[m] = s[j]
        BY <3>1, <2>4, PrefixReflexive
    <3>2. CASE s[m] = s[k]
        BY <3>2, <1>16
    <3>3. CASE s[m] # s[j] /\ s[m] # s[k]
      <4>1. Less(s[j], s[m]) /\ Less(s[m], s[k])
          BY <2>4, <3>3, LessTotal
      <4>2. IsPrefix(s[j], s[j])
          BY <2>4, PrefixReflexive
      <4> QED
          BY <2>4, <4>1, <4>2, <1>16, Convex
    <3> QED
        BY <3>1, <3>2, <3>3
  <2>6. Dropped(s, K, m)
      BY <2>3, <2>5, <1>12 DEF Dropped, ContainsOid
  <2> QED
      BY <2>3, <2>6, <1>12
<1>17. ASSUME NEW b \in B, NEW c \in B, c # b PROVE ~IsPrefix(b, c)
  <2> SUFFICES ASSUME IsPrefix(b, c) PROVE FALSE
      OBVIOUS
  <2>1. PICK j \in K : b = s[j]
      BY <1>11
  <2>2. PICK k \in K : c = s[k]
      BY <1>11
  <2>3. b \in Oid /\ c \in Oid /\ j \in Nat /\ k \in Nat
      BY <2>1, <2>2, <1>7, <1>12
  <2>4. CASE j < k
      BY <2>1, <2>2, <2>4, <1>16
  <2>5. CASE k < j
    <3>1. ~Less(b, c)
        BY <2>1, <2>2, <2>5, <1>5, <1>12
    <3> QED
        BY <3>1, <2>3, <1>17, PrefixLess
  <2> QED
      BY <2>1, <2>2, <2>3, <2>4, <2>5, <1>17
<1> QED
    BY <1>8, <1>13, <1>14, <1>15, <1>17

-----------------------------------------------------------------------------
(* The steps of the walk.                                                  *)

\* The device's rows, and all oids of the invariant, are oids.
LEMMA NameIs == Name \subseteq Oid /\ IsFiniteSet(Name)
    BY WalkAssumption DEF Oid

\* At the start every row is ahead of the column it belongs to.
LEMMA InitInv ==
    ASSUME Init
    PROVE  WalkInv
<1>1. requested \in SeqOf(Name, MaxRequested) /\ requested # <<>>
    BY DEF Init
<1>2. PICK s \in Sort(requested) : cols = [b \in UniqBase(s) |-> b]
    BY DEF Init
<1>3. PICK B : B = UniqBase(s)
    OBVIOUS
<1>4. /\ B \subseteq ToSet(requested) /\ B # {} /\ ToSet(requested) \subseteq Name
      /\ \A b, c \in B : c # b => ~IsPrefix(b, c)
      /\ \A q \in ToSet(requested) : \E b \in B : IsPrefix(b, q)
    BY <1>1, <1>3, BasesOf
<1>5. DOMAIN cols = B /\ \A b \in B : cols[b] = b
    BY <1>2, <1>3
<1>6. mib \subseteq Name /\ stable = mib /\ ever = mib /\ resBinds = {} /\ outcome = "none"
    BY DEF Init
<1>7. B \subseteq Oid
    BY <1>4, NameIs
<1>8. TypeOK
  <2>1. changes \in 0 .. MaxChanges
      BY WalkAssumption DEF Init
  <2> QED
      BY <1>1, <1>4, <1>5, <1>6, <2>1 DEF TypeOK, ContainsOid
<1>9. Rooted
    BY <1>5, <1>7, PrefixReflexive DEF Rooted
<1>10. Found
    BY <1>6 DEF Found
<1>11. ASSUME NEW r \in stable, NEW q \in ToSet(requested), IsStrictPrefix(q, r)
       PROVE  \E b \in DOMAIN cols : Ahead(b, r)
  <2>1. PICK b \in B : IsPrefix(b, q)
      BY <1>4
  <2>2. b \in Oid /\ q \in Oid /\ r \in Oid
      BY <1>4, <1>6, <1>7, NameIs
  <2>3. IsPrefix(q, r) /\ q # r
      BY <1>11 DEF IsStrictPrefix
  <2>4. IsPrefix(b, r)
      BY <2>1, <2>2, <2>3, PrefixTransitive
  <2>5. b # r
    <3> SUFFICES ASSUME b = r PROVE FALSE
        OBVIOUS
    <3>1. Less(q, r) /\ (r = q \/ Less(r, q))
        BY <1>11, <2>1, <2>2, <2>3, PrefixLess
    <3> QED
        BY <3>1, <2>2, <2>3, LessAsymmetric
  <2>6. Less(b, r)
      BY <2>2, <2>4, <2>5, PrefixLess
  <2> QED
      BY <2>4, <2>6, <1>5, <1>6 DEF Ahead
<1>12. Owed
    BY <1>11 DEF Owed
<1> QED
    BY <1>6, <1>8, <1>9, <1>10, <1>12 DEF WalkInv

\* The answer of an honest device: the next row, or an exception at the end.
LEMMA GetNextIs ==
    ASSUME mib \subseteq Name, NEW o \in Name, NEW v, v = GetNext(o)
    PROVE  /\ v \in Varbind
           /\ v.exception => v.oid = o /\ \A m \in mib : ~Less(o, m)
           /\ ~v.exception => /\ v.oid \in mib /\ Less(o, v.oid)
                              /\ \A m \in mib : Less(o, m) => m = v.oid \/ Less(v.oid, m)
<1> DEFINE after == {n \in mib : Less(o, n)}
           First == CHOOSE n \in after : \A m \in after : m = n \/ Less(n, m)
<1>1. CASE after = {}
  <2>1. v = [oid |-> o, exception |-> TRUE]
      BY <1>1 DEF GetNext
  <2>2. v \in Varbind /\ v.exception = TRUE /\ v.oid = o
      BY <2>1 DEF Varbind
  <2> QED
      BY <1>1, <2>2
<1>2. CASE after # {}
  <2>1. v = [oid |-> First, exception |-> FALSE]
      BY <1>2 DEF GetNext
  <2>2. IsFiniteSet(after) /\ after \subseteq Oid
      BY NameIs, FS_Subset
  <2>3. \E n \in after : \A m \in after : m = n \/ Less(n, m)
    <3> HIDE DEF after
    <3> QED
        BY <1>2, <2>2, Extremes
  <2>4. First \in after /\ \A m \in after : m = First \/ Less(First, m)
      BY <2>3
  <2> HIDE DEF First
  <2>5. v \in Varbind /\ v.exception = FALSE /\ v.oid = First
      BY <2>1, <2>4 DEF Varbind
  <2> QED
      BY <2>4, <2>5
<1> QED
    BY <1>1, <1>2

\* What Advance does, whoever has sent the varbinds.
LEMMA AdvanceStep ==
    ASSUME NEW bs \in SUBSET Varbind, Advance(bs)
    PROVE  /\ DOMAIN cols' = {b \in DOMAIN cols : ~Completed(MatchBaseOids(bs, b))}
           /\ \A b \in DOMAIN cols' :
                 /\ cols'[b] = Greatest(Values(MatchBaseOids(bs, b)))
                 /\ cols'[b] \in Name /\ IsPrefix(b, cols'[b])
           /\ resBinds \subseteq resBinds'
           /\ \A x \in resBinds' : x \in resBinds \/
                 \E b \in DOMAIN cols : x \in Values(MatchBaseOids(bs, b))
           /\ \A b \in DOMAIN cols' : Values(MatchBaseOids(bs, b)) \subseteq resBinds'
           /\ outcome' \in {"none", "ok"} /\ (outcome' = "none" <=> DOMAIN cols' # {})
<1> DEFINE matched(b) == MatchBaseOids(bs, b)
           open == {b \in DOMAIN cols : ~Completed(matched(b))}
<1>1. /\ resBinds' = resBinds \cup
            UNION {Values(matched(b)) : b \in {c \in DOMAIN cols : ~Nothing(matched(c))}}
      /\ cols' = [b \in open |-> Greatest(Values(matched(b)))]
      /\ outcome' = IF open = {} THEN "ok" ELSE "none"
    BY DEF Advance
<1>2. DOMAIN cols' = open /\ \A b \in open : cols'[b] = Greatest(Values(matched(b)))
    BY <1>1
<1>3. ASSUME NEW b \in open PROVE Greatest(Values(matched(b))) \in Values(matched(b))
  <2>1. matched(b) # {} /\ \A v \in matched(b) : ~v.exception
      BY DEF Completed, Nothing
  <2>2. \A v \in matched(b) : v.oid \in Name
      BY DEF MatchBaseOids, Varbind
  <2>3. PICK S : S = Values(matched(b))
      OBVIOUS
  <2>4. S # {} /\ S \subseteq Name
      BY <2>1, <2>2, <2>3 DEF Values
  <2>5. IsFiniteSet(S) /\ S \subseteq Oid
      BY <2>4, NameIs, FS_Subset
  <2>6. \E v \in S : \A o \in S : o = v \/ Less(o, v)
      BY <2>4, <2>5, Extremes
  <2>7. Greatest(S) \in S
      BY <2>6 DEF Greatest
  <2> QED
      BY <2>3, <2>7
<1>4. \A b : \A x \in Values(matched(b)) : x \in Name /\ IsPrefix(b, x)
    BY DEF Values, MatchBaseOids, Varbind, ContainsOid
<1>5. \A b \in open : ~Nothing(matched(b)) /\ b \in DOMAIN cols
    BY DEF Completed
<1> QED
    BY <1>1, <1>2, <1>3, <1>4, <1>5

\* What an answer adds is below the oids of the columns.
LEMMA ValuesAre ==
    ASSUME NEW bs \in SUBSET Varbind, NEW b, NEW x \in Values(MatchBaseOids(bs, b))
    PROVE  x \in Name /\ IsPrefix(b, x) /\ \E v \in bs : v.oid = x /\ ~v.exception
    BY DEF Values, MatchBaseOids, Varbind, ContainsOid

\* What the invariant says of the columns: their oids, and that no two
\* subtrees have an oid in common.
LEMMA ColumnsAre ==
    ASSUME WalkInv
    PROVE  /\ DOMAIN cols \subseteq Name /\ DOMAIN cols \subseteq ToSet(requested)
           /\ \A b \in DOMAIN cols : cols[b] \in Name /\ IsPrefix(b, cols[b])
           /\ \A b, c \in DOMAIN cols : \A x \in Name : IsPrefix(b, x) /\ IsPrefix(c, x) => b = c
<1>1. /\ requested \in SeqOf(Name, MaxRequested) /\ DOMAIN cols \subseteq ToSet(requested)
      /\ \A b \in DOMAIN cols : cols[b] \in Name /\ \A c \in DOMAIN cols : c # b => ~IsPrefix(b, c)
    BY DEF WalkInv, TypeOK, ContainsOid
<1>2. ToSet(requested) \subseteq Name
    BY <1>1 DEF SeqOf, ToSet
<1>3. \A b \in DOMAIN cols : IsPrefix(b, cols[b])
    BY DEF WalkInv, Rooted
<1>4. ASSUME NEW b \in DOMAIN cols, NEW c \in DOMAIN cols, NEW x \in Name, IsPrefix(b, x), IsPrefix(c, x)
      PROVE  b = c
  <2>1. b \in Oid /\ c \in Oid /\ x \in Oid
      BY <1>1, <1>2, NameIs
  <2>2. IsPrefix(b, c) \/ IsPrefix(c, b)
      BY <1>4, <2>1, Nested
  <2> QED
      BY <1>1, <2>2
<1> QED
    BY <1>1, <1>2, <1>3, <1>4

\* An honest device that answers for all columns: as long as row r is ahead
\* of column c, the column goes on to a row n that was not seen before, not
\* after r, and greatest of all that the answer has for the subtree.
LEMMA NextRow ==
    ASSUME WalkInv, NEW bs \in Uniq({GetNext(cols[b]) : b \in DOMAIN cols}),
           NEW c \in DOMAIN cols, NEW r \in stable, Ahead(c, r)
    PROVE  LET matched == MatchBaseOids(bs, c)
           IN  /\ ~Completed(matched)
               /\ \E n \in Values(matched) :
                     /\ Less(cols[c], n) /\ (n = r \/ Less(n, r))
                     /\ \A o \in Values(matched) : o = n \/ Less(o, n)
<1> DEFINE matched == MatchBaseOids(bs, c)
<1>1. stable \subseteq mib /\ mib \subseteq Name /\ r \in mib /\ r \in Oid
    BY NameIs DEF WalkInv, TypeOK
<1>2. /\ DOMAIN cols \subseteq Name
      /\ \A b \in DOMAIN cols : cols[b] \in Name /\ IsPrefix(b, cols[b])
      /\ \A b, d \in DOMAIN cols : \A x \in Name : IsPrefix(b, x) /\ IsPrefix(d, x) => b = d
    BY ColumnsAre
<1>3. c \in Oid /\ cols[c] \in Oid /\ cols[c] \in Name
    BY <1>2, NameIs
<1>4. /\ IsPrefix(c, r) /\ Less(cols[c], r)
      /\ \A x \in resBinds : IsPrefix(c, x) => x = cols[c] \/ Less(x, cols[c])
    BY DEF Ahead
<1>5. PICK v : v = GetNext(cols[c])
    OBVIOUS
<1>6. /\ v \in Varbind
      /\ v.exception => v.oid = cols[c] /\ \A m \in mib : ~Less(cols[c], m)
      /\ ~v.exception => /\ v.oid \in mib /\ Less(cols[c], v.oid)
                         /\ \A m \in mib : Less(cols[c], m) => m = v.oid \/ Less(v.oid, m)
    BY <1>1, <1>3, <1>5, GetNextIs
<1>7. ~v.exception
    BY <1>1, <1>4, <1>6
<1>8. PICK n : n = v.oid
    OBVIOUS
<1>9. /\ n \in mib /\ n \in Name /\ n \in Oid /\ Less(cols[c], n) /\ (n = r \/ Less(n, r))
    BY <1>1, <1>4, <1>6, <1>7, <1>8, NameIs
<1>10. IsPrefix(c, n)
  <2>1. CASE n = r
      BY <2>1, <1>4
  <2>2. CASE Less(n, r)
      BY <2>2, <1>1, <1>2, <1>3, <1>4, <1>9, Convex
  <2> QED
      BY <1>9, <2>1, <2>2
<1>11. n \notin resBinds
  <2> SUFFICES ASSUME n \in resBinds PROVE FALSE
      OBVIOUS
  <2>1. n = cols[c] \/ Less(n, cols[c])
      BY <1>4, <1>10
  <2> QED
      BY <2>1, <1>3, <1>9, LessAsymmetric, LessIrreflexive
\* A varbind for the subtree comes from c's own column, or from one that ran
\* into the subtree and then comes not after n.
<1>12. ASSUME NEW w \in matched
       PROVE  ~w.exception /\ w.oid \in Name /\ (w.oid = n \/ Less(w.oid, n))
  <2>1. w \in bs /\ IsPrefix(c, w.oid)
      BY DEF MatchBaseOids, ContainsOid
  <2>2. PICK d \in DOMAIN cols : w = GetNext(cols[d])
      BY <2>1 DEF Uniq
  <2>3. /\ w \in Varbind
        /\ w.exception => w.oid = cols[d] /\ \A m \in mib : ~Less(cols[d], m)
        /\ ~w.exception => /\ w.oid \in mib /\ Less(cols[d], w.oid)
                           /\ \A m \in mib : Less(cols[d], m) => m = w.oid \/ Less(w.oid, m)
      BY <1>1, <1>2, <2>2, GetNextIs
  <2>4. w.oid \in Name /\ w.oid \in Oid /\ cols[d] \in Oid /\ cols[d] \in Name
      BY <2>3, <1>2, NameIs DEF Varbind
  <2>5. CASE d = c
      BY <2>2, <2>4, <2>5, <1>5, <1>7, <1>8
  <2>6. CASE d # c
    <3>1. ~IsPrefix(c, cols[d])
        BY <2>4, <2>6, <1>2
    <3>2. ~w.exception
        BY <2>1, <2>3, <3>1
    <3>3. ~Less(n, w.oid)
      <4> SUFFICES ASSUME Less(n, w.oid) PROVE FALSE
          OBVIOUS
      <4>1. ~Less(cols[d], n)
        <5> SUFFICES ASSUME Less(cols[d], n) PROVE FALSE
            OBVIOUS
        <5>1. n = w.oid \/ Less(w.oid, n)
            BY <2>3, <3>2, <1>9
        <5> QED
            BY <5>1, <2>4, <1>9, LessAsymmetric, LessIrreflexive
      <4>2. n # cols[d]
          BY <3>1, <1>10
      <4>3. Less(n, cols[d])
          BY <4>1, <4>2, <2>4, <1>9, LessTotal
      <4>4. Less(cols[d], w.oid)
          BY <2>3, <3>2
      <4> QED
          BY <4>3, <4>4, <3>1, <2>1, <2>4, <1>3, <1>9, <1>10, Convex
    <3> QED
        BY <3>2, <3>3, <2>4, <1>9, LessTotal
  <2> QED
      BY <2>5, <2>6
<1>13. PICK w \in bs : w.oid = n
  <2>1. v \in {GetNext(cols[b]) : b \in DOMAIN cols}
      BY <1>5
  <2> QED
      BY <2>1, <1>8 DEF Uniq
<1>14. w \in matched
    BY <1>10, <1>13 DEF MatchBaseOids, ContainsOid
<1>15. n \in Values(matched) /\ \A o \in Values(matched) : o = n \/ Less(o, n)
    BY <1>12, <1>13, <1>14 DEF Values
<1>16. Greatest({x.oid : x \in matched}) = n
  <2>1. PICK S : S = {x.oid : x \in matched}
      OBVIOUS
  <2>2. S \subseteq Oid /\ n \in S /\ \A o \in S : o = n \/ Less(o, n)
      BY <2>1, <1>12, <1>13, <1>14, NameIs
  <2> QED
      BY <2>1, <2>2, GreatestIs
<1>17. ~Completed(matched)
    BY <1>11, <1>12, <1>14, <1>16 DEF Completed, Nothing
<1> QED
    BY <1>9, <1>15, <1>17

\* A round with any varbinds keeps the types and what was found.
LEMMA AdvanceInv ==
    ASSUME WalkInv, outcome = "none", NEW bs \in SUBSET Varbind, Advance(bs),
           honest => \A v \in bs : ~v.exception => v.oid \in ever,
           UNCHANGED <<requested, deviceVars>>
    PROVE  TypeOK' /\ (ever \subseteq Name)' /\ Rooted' /\ Found'
<1>1. UNCHANGED <<requested, honest, mib, changes, stable, ever>>
    BY DEF deviceVars
<1>2. /\ DOMAIN cols' = {b \in DOMAIN cols : ~Completed(MatchBaseOids(bs, b))}
      /\ \A b \in DOMAIN cols' : cols'[b] \in Name /\ IsPrefix(b, cols'[b])
      /\ \A x \in resBinds' : x \in resBinds \/
            \E b \in DOMAIN cols : x \in Values(MatchBaseOids(bs, b))
      /\ outcome' \in {"none", "ok"} /\ (outcome' = "none" <=> DOMAIN cols' # {})
    BY AdvanceStep
<1>3. DOMAIN cols' \subseteq DOMAIN cols
    BY <1>2
<1>4. \A x \in resBinds' : x \in resBinds \/
         (x \in Name /\ \E b \in DOMAIN cols : IsPrefix(b, x) /\ \E v \in bs : v.oid = x /\ ~v.exception)
    BY <1>2, ValuesAre
<1>5. TypeOK'
    BY <1>1, <1>2, <1>3, <1>4 DEF WalkInv, TypeOK
<1>6. Rooted'
    BY <1>2 DEF Rooted
<1>7. Found'
  <2>1. DOMAIN cols \subseteq ToSet(requested)
      BY ColumnsAre
  <2> QED
      BY <1>1, <1>4, <2>1 DEF WalkInv, Found, ContainsOid
<1> QED
    BY <1>1, <1>5, <1>6, <1>7 DEF WalkInv

\* A round with the answers of an honest device for all columns owes no more.
LEMMA OwedStep ==
    ASSUME WalkInv, outcome = "none", honest, ~cut,
           NEW bs \in Uniq({GetNext(cols[b]) : b \in DOMAIN cols}), bs \subseteq Varbind,
           Advance(bs), UNCHANGED <<requested, deviceVars>>
    PROVE  Owed'
<1> SUFFICES ASSUME NEW r \in stable', NEW q \in ToSet(requested'), IsStrictPrefix(q, r), r \notin resBinds'
             PROVE  \E b \in DOMAIN cols' : Ahead(b, r)'
    BY DEF Owed
<1>1. r \in stable /\ q \in ToSet(requested)
    BY DEF deviceVars
<1>2. /\ DOMAIN cols' = {b \in DOMAIN cols : ~Completed(MatchBaseOids(bs, b))}
      /\ \A b \in DOMAIN cols' : cols'[b] = Greatest(Values(MatchBaseOids(bs, b)))
      /\ resBinds \subseteq resBinds'
      /\ \A x \in resBinds' : x \in resBinds \/
            \E b \in DOMAIN cols : x \in Values(MatchBaseOids(bs, b))
      /\ \A b \in DOMAIN cols' : Values(MatchBaseOids(bs, b)) \subseteq resBinds'
    BY AdvanceStep
<1>3. PICK c \in DOMAIN cols : Ahead(c, r)
    BY <1>1, <1>2 DEF WalkInv, Owed
<1>4. PICK V : V = Values(MatchBaseOids(bs, c))
    OBVIOUS
<1>5. ~Completed(MatchBaseOids(bs, c)) /\
      \E n \in V : /\ Less(cols[c], n) /\ (n = r \/ Less(n, r))
                   /\ \A o \in V : o = n \/ Less(o, n)
    BY <1>1, <1>3, <1>4, NextRow
<1>6. PICK n \in V : /\ Less(cols[c], n) /\ (n = r \/ Less(n, r))
                     /\ \A o \in V : o = n \/ Less(o, n)
    BY <1>5
<1>7. c \in DOMAIN cols' /\ V \subseteq resBinds'
    BY <1>2, <1>4, <1>5
<1>8. n # r /\ Less(n, r)
    BY <1>6, <1>7
<1>9. V \subseteq Name /\ V \subseteq Oid /\ \A x \in V : IsPrefix(c, x)
    BY <1>4, NameIs, ValuesAre
<1>10. cols'[c] = n
    BY <1>2, <1>4, <1>6, <1>7, <1>9, GreatestIs
<1>11. ASSUME NEW x \in resBinds', IsPrefix(c, x) PROVE x = n \/ Less(x, n)
  <2>1. CASE x \in resBinds
    <3>1. x = cols[c] \/ Less(x, cols[c])
        BY <1>3, <1>11, <2>1 DEF Ahead
    <3>2. x \in Oid /\ cols[c] \in Oid /\ n \in Oid
        BY <1>9, <2>1, NameIs, ColumnsAre DEF WalkInv, TypeOK
    <3> QED
        BY <3>1, <3>2, <1>6, LessTransitive
  <2>2. CASE \E b \in DOMAIN cols : x \in Values(MatchBaseOids(bs, b))
    <3>1. PICK b \in DOMAIN cols : x \in Values(MatchBaseOids(bs, b))
        BY <2>2
    <3>2. x \in Name /\ IsPrefix(b, x)
        BY <3>1, ValuesAre
    <3>3. b = c
        BY <3>2, <1>11, ColumnsAre
    <3> QED
        BY <3>1, <3>3, <1>4, <1>6
  <2> QED
      BY <1>2, <2>1, <2>2
<1>12. IsPrefix(c, r)
    BY <1>3 DEF Ahead
<1>13. Ahead(c, r)'
    BY <1>8, <1>10, <1>11, <1>12 DEF Ahead
<1> QED
    BY <1>7, <1>13

\* A request and its response.
LEMMA RoundInv ==
    ASSUME WalkInv, Round
    PROVE  WalkInv'
<1>1. outcome = "none" /\ UNCHANGED <<requested, deviceVars>>
    BY DEF Round
<1>2. mib \subseteq Name /\ mib \subseteq ever /\ honest' = honest
    BY <1>1 DEF WalkInv, TypeOK, deviceVars
<1>3. \A b \in DOMAIN cols : cols[b] \in Name
    BY ColumnsAre
<1>4. PICK B \in SUBSET DOMAIN cols :
          \/ /\ honest
             /\ \E bs \in Uniq({GetNext(cols[b]) : b \in B}) : Advance(bs)
             /\ cut' = (cut \/ B # DOMAIN cols)
          \/ /\ ~honest
             /\ \E answer \in [B -> Varbind] :
                   \E bs \in Uniq({answer[b] : b \in B}) : Advance(bs)
    BY DEF Round
<1>5. CASE honest
  <2>1. PICK bs \in Uniq({GetNext(cols[b]) : b \in B}) : Advance(bs)
      BY <1>4, <1>5
  <2>2. cut' = (cut \/ B # DOMAIN cols)
      BY <1>4, <1>5
  <2>3. \A v \in bs : v \in Varbind /\ (~v.exception => v.oid \in ever)
    <3>1. ASSUME NEW v \in bs PROVE v \in Varbind /\ (~v.exception => v.oid \in ever)
      <4>1. PICK b \in B : v = GetNext(cols[b])
          BY DEF Uniq
      <4>2. v \in Varbind /\ (~v.exception => v.oid \in mib)
          BY <4>1, <1>2, <1>3, GetNextIs
      <4> QED
          BY <4>2, <1>2
    <3> QED
        BY <3>1
  <2>4. bs \in SUBSET Varbind
      BY <2>3
  <2>5. TypeOK' /\ (ever \subseteq Name)' /\ Rooted' /\ Found'
      BY <1>1, <2>1, <2>3, <2>4, AdvanceInv
  <2>6. Owed'
    <3>1. CASE cut'
        BY <3>1 DEF Owed
    <3>2. CASE ~cut'
      <4>1. ~cut /\ B = DOMAIN cols
          BY <2>2, <3>2
      <4>2. bs \in Uniq({GetNext(cols[b]) : b \in DOMAIN cols})
          BY <4>1, <2>1
      <4> QED
          BY <1>1, <1>5, <2>1, <2>4, <4>1, <4>2, OwedStep
    <3> QED
        BY <3>1, <3>2
  <2> QED
      BY <2>5, <2>6 DEF WalkInv
<1>6. CASE ~honest
  <2>1. PICK answer \in [B -> Varbind] : \E bs \in Uniq({answer[b] : b \in B}) : Advance(bs)
      BY <1>4, <1>6
  <2>2. PICK bs \in Uniq({answer[b] : b \in B}) : Advance(bs)
      BY <2>1
  <2>3. bs \in SUBSET Varbind
      BY DEF Uniq
  <2>4. TypeOK' /\ (ever \subseteq Name)' /\ Rooted' /\ Found'
      BY <1>1, <1>6, <2>2, <2>3, AdvanceInv
  <2>5. Owed'
      BY <1>2, <1>6 DEF Owed
  <2> QED
      BY <2>4, <2>5 DEF WalkInv
<1> QED
    BY <1>5, <1>6

\* The walk gives up.
LEMMA GiveUpInv ==
    ASSUME WalkInv, GiveUp
    PROVE  WalkInv'
<1>1. /\ outcome' \in {"error", "status"} /\ resBinds' = {} /\ DOMAIN cols' = {}
      /\ UNCHANGED <<requested, honest, mib, changes, stable, ever>>
    BY DEF GiveUp, deviceVars
<1> QED
    BY <1>1 DEF WalkInv, TypeOK, Rooted, Found, Owed

\* A row comes or goes: it does not count as one that was there throughout.
LEMMA ChangeInv ==
    ASSUME WalkInv, Change
    PROVE  WalkInv'
<1>1. PICK n \in Name :
          /\ mib' = IF n \in mib THEN mib \ {n} ELSE mib \cup {n}
          /\ stable' = stable \ {n} /\ ever' = ever \cup {n}
    BY DEF Change
<1>2. UNCHANGED <<requested, cols, resBinds, outcome, honest, cut>>
    BY DEF Change
<1>3. TypeOK' /\ (ever \subseteq Name)'
  <2>1. MaxChanges \in Nat /\ changes \in 0 .. MaxChanges
      BY WalkAssumption DEF WalkInv, TypeOK
  <2>2. changes' \in 0 .. MaxChanges
      BY <2>1 DEF Change
  <2> QED
      BY <1>1, <1>2, <2>2 DEF WalkInv, TypeOK
<1>4. Rooted' /\ Found'
    BY <1>1, <1>2 DEF WalkInv, Rooted, Found
<1>5. \A b, r : Ahead(b, r)' <=> Ahead(b, r)
    BY <1>2 DEF Ahead
<1>6. Owed'
    BY <1>1, <1>2, <1>5 DEF WalkInv, Owed
<1> QED
    BY <1>3, <1>4, <1>6 DEF WalkInv

\* Nothing changes.
LEMMA StutterInv ==
    ASSUME WalkInv, UNCHANGED vars
    PROVE  WalkInv'
<1>1. UNCHANGED <<requested, cols, resBinds, outcome, honest, mib, changes, stable, ever, cut>>
    BY DEF vars, deviceVars
<1>2. \A b, r : Ahead(b, r)' <=> Ahead(b, r)
    BY <1>1 DEF Ahead
<1> QED
    BY <1>1, <1>2 DEF WalkInv, TypeOK, Rooted, Found, Owed

-----------------------------------------------------------------------------
(* The theorems.                                                           *)

\* Every step of a walk keeps its columns in their subtrees and owes no row
\* that is not ahead of a column.
THEOREM WalkInvariant == Spec => []WalkInv
<1>1. Init => WalkInv
    BY InitInv
<1>2. WalkInv /\ [Next]_vars => WalkInv'
    BY RoundInv, GiveUpInv, ChangeInv, StutterInv DEF Next
<1> QED
    BY <1>1, <1>2, PTL DEF Spec

\* Type correctness of GetBulkWalk; UniqBase after Sort leaves subtrees that
\* are disjoint, for every list of oids in every order.
THEOREM TypeCorrect == Spec => []TypeOK
<1>1. WalkInv => TypeOK
    BY DEF WalkInv
<1> QED
    BY <1>1, WalkInvariant, PTL

\* A row that GetBulkWalk returns is below an oid asked for, whatever the
\* device sends, and an honest device had it.
THEOREM WalkIsSound == Spec => []WalkSound
<1>1. WalkInv => WalkSound
    BY DEF WalkInv, Found, WalkSound
<1> QED
    BY <1>1, WalkInvariant, PTL

\* A walk that succeeds on an honest device that cut no answer short has
\* every row that was there throughout, whatever came and went meanwhile.
THEOREM WalkIsComplete == Spec => []WalkComplete
<1>1. WalkInv => WalkComplete
  <2> SUFFICES ASSUME WalkInv, outcome = "ok", honest, ~cut, NEW r \in stable,
                      NEW q \in ToSet(requested), IsStrictPrefix(q, r)
               PROVE  r \in resBinds
      BY DEF WalkComplete
  <2>1. DOMAIN cols = {}
      BY DEF WalkInv, TypeOK
  <2> QED
      BY <2>1 DEF WalkInv, Owed
<1> QED
    BY <1>1, WalkInvariant, PTL

\* What a round processes are varbinds, whoever has sent them.
LEMMA RoundAdvances ==
    ASSUME WalkInv, Round
    PROVE  \E bs \in SUBSET Varbind : Advance(bs)
<1>1. mib \subseteq Name /\ \A b \in DOMAIN cols : cols[b] \in Name
    BY ColumnsAre DEF WalkInv, TypeOK
<1>2. PICK B \in SUBSET DOMAIN cols :
          \/ \E bs \in Uniq({GetNext(cols[b]) : b \in B}) : Advance(bs)
          \/ \E answer \in [B -> Varbind] :
                \E bs \in Uniq({answer[b] : b \in B}) : Advance(bs)
    BY DEF Round
<1>3. ASSUME NEW bs \in Uniq({GetNext(cols[b]) : b \in B}) PROVE bs \in SUBSET Varbind
  <2>1. ASSUME NEW v \in bs PROVE v \in Varbind
    <3>1. PICK b \in B : v = GetNext(cols[b])
        BY DEF Uniq
    <3> QED
        BY <3>1, <1>1, GetNextIs
  <2> QED
      BY <2>1
<1>4. ASSUME NEW answer \in [B -> Varbind], NEW bs \in Uniq({answer[b] : b \in B})
      PROVE  bs \in SUBSET Varbind
    BY DEF Uniq
<1> QED
    BY <1>2, <1>3, <1>4

\* Every round that does not end the walk brings a new row to every column that
\* stays open (client.go:235), whatever the device sends.  There are finitely many
\* names: with the fairness of Round this is why a walk ends (WalkEnds).
THEOREM EveryRoundFindsRows == Spec => RoundFindsRows
<1>1. ASSUME WalkInv, Round, NEW b \in DOMAIN cols'
      PROVE  cols'[b] \in resBinds' \ resBinds
  <2>1. PICK bs \in SUBSET Varbind : Advance(bs)
      BY <1>1, RoundAdvances
  <2> DEFINE matched == MatchBaseOids(bs, b)
  <2>2. b \in DOMAIN cols /\ ~Completed(matched) /\ cols'[b] = Greatest(Values(matched))
      BY <1>1, <2>1, AdvanceStep
  <2>3. matched # {} /\ (\A v \in matched : ~v.exception)
        /\ Greatest({v.oid : v \in matched}) \notin resBinds
      BY <2>2 DEF Completed, Nothing
  <2>4. Values(matched) = {v.oid : v \in matched}
      BY <2>3 DEF Values
  <2>5. Values(matched) # {} /\ Values(matched) \subseteq Name
      BY <2>3, <2>4 DEF MatchBaseOids, Varbind
  <2>6. Values(matched) \subseteq Oid /\ IsFiniteSet(Values(matched))
      BY <2>5, NameIs, FS_Subset
  <2>7. \E v \in Values(matched) : \A o \in Values(matched) : o = v \/ Less(o, v)
      BY <2>5, <2>6, Extremes
  <2>8. Greatest(Values(matched)) \in Values(matched)
      BY <2>7 DEF Greatest
  <2>9. Values(matched) \subseteq resBinds'
      BY <1>1, <2>1, AdvanceStep
  <2> QED
      BY <2>2, <2>3, <2>4, <2>8, <2>9
<1>2. ASSUME WalkInv, Next, changes' = changes, NEW b \in DOMAIN cols'
      PROVE  cols'[b] \in resBinds' \ resBinds
  <2>1. CASE Round
      BY <1>1, <1>2, <2>1
  <2>2. CASE GiveUp
      BY <1>2, <2>2 DEF GiveUp
  <2>3. CASE Change
    <3>1. changes \in Int
        BY <1>2 DEF WalkInv, TypeOK
    <3> QED
        BY <1>2, <2>3, <3>1 DEF Change
  <2> QED
      BY <1>2, <2>1, <2>2, <2>3 DEF Next
<1>3. WalkInv /\ [Next]_vars =>
          [changes' = changes => \A b \in DOMAIN cols' : cols'[b] \in resBinds' \ resBinds]_vars
    BY <1>2
<1> QED
    BY <1>3, WalkInvariant, PTL DEF Spec, RoundFindsRows
=============================================================================
