-------------------------- MODULE PingAgentProofs --------------------------
(***************************************************************************)
(* Safety of batch ping for every list of addresses, every number of       *)
(* retries and every limit: the types, that the answer has one result for  *)
(* every element of the list, that a result says 1 exactly if its address  *)
(* answered, and that an address called unreachable was pinged retry times *)
(* again.                                                                  *)
(*                                                                         *)
(* The results of a call of doping and its goroutines are matched one to   *)
(* one (Paired): a result belongs to a goroutine that has returned.  When  *)
(* there are as many results as elements, every goroutine has returned and *)
(* the results of the first call match the list of the request; the        *)
(* retries write into them by position and change no address.              *)
(***************************************************************************)
EXTENDS PingAgent, TLAPS, FiniteSetTheorems, SequenceTheorems, WellFoundedInduction

\* The goroutines of the call that have returned.
Done(r) == {k \in DOMAIN list[r] : task[r][k] = "none"}

\* The results s match the positions D of the list l one to one.
Paired(s, l, D) ==
    \E f \in [DOMAIN s -> D] :
        /\ \A p, q \in DOMAIN s : f[p] = f[q] => p = q
        /\ \A k \in D : \E p \in DOMAIN s : f[p] = k
        /\ \A p \in DOMAIN s : s[p].IP = l[f[p]]

\* s has a result that says ip answered.
Up(s, ip) == \E p \in DOMAIN s : s[p].IP = ip /\ s[p].Status = 1

\* The addresses with a result that says they did not.
Down(s) == {s[p].IP : p \in {q \in DOMAIN s : s[q].Status = 0}}

\* The functions are defined for all requests.
Total == /\ DOMAIN Data = Req /\ DOMAIN tmp = Req /\ DOMAIN list = Req
         /\ DOMAIN task = Req /\ DOMAIN ippos = Req

\* Results and goroutines match; a retry pings the addresses that are down.
CallOf(r) ==
    /\ pc[r] # "doping" => \A k \in DOMAIN task[r] : task[r][k] = "none"
    /\ pc[r] = "doping" => Paired(tmp[r], list[r], Done(r))
    /\ pc[r] = "doping" /\ i[r] = 0 => list[r] = ips[r] /\ Data[r] = <<>>
    /\ pc[r] = "doping" /\ i[r] # 0 =>
          /\ Paired(Data[r], ips[r], DOMAIN ips[r])
          /\ Elements(list[r]) = DOMAIN ippos[r] /\ DOMAIN ippos[r] = Down(Data[r])
          /\ \A ip \in DOMAIN ippos[r] : Data[r][ippos[r][ip]].IP = ip
    /\ i[r] = 0 => ippos[r] = <<>>
    /\ Complete(r) => Paired(Data[r], ips[r], DOMAIN ips[r])

\* A result of the request, of the call, or about to be sent says 1 only for
\* an address that answered, and for such an address one of them does.
AnswersOf(r) ==
    /\ pc[r] = "doping" =>
          /\ \A ip \in IP : Up(Data[r], ip) \/ Up(tmp[r], ip) => ip \in answered[r]
          /\ \A k \in DOMAIN task[r] : task[r][k] = "1" => list[r][k] \in answered[r]
          /\ \A ip \in answered[r] :
                \/ Up(Data[r], ip) \/ Up(tmp[r], ip)
                \/ \E k \in DOMAIN task[r] : task[r][k] = "1" /\ list[r][k] = ip
    /\ Complete(r) => \A ip \in IP : Up(Data[r], ip) <=> ip \in answered[r]

\* The retries that are due.
Times(r) == IF retry[r] > 0 THEN retry[r] ELSE 0

\* The addresses of the running call have been in all calls so far.
RetriesOf(r) ==
    /\ pc[r] = "doping" => /\ i[r] <= Times(r)
                           /\ \A ip \in Elements(list[r]) : tried[r][ip] = 1 + i[r]
    /\ Complete(r) => \A ip \in Down(Data[r]) : tried[r][ip] = 1 + Times(r)

\* The inductive invariant of batch ping.
PingInv ==
    /\ TypeOK /\ Total
    /\ \A r \in Req : CallOf(r) /\ AnswersOf(r) /\ RetriesOf(r)

-----------------------------------------------------------------------------
(* Sequences, and the positions of the addresses that are down.            *)

\* A sequence is a function on an interval from 1.
LEMMA SeqIsFunction ==
    ASSUME NEW S, NEW s \in Seq(S)
    PROVE  /\ Len(s) \in Nat /\ DOMAIN s = 1 .. Len(s)
           /\ \A p \in DOMAIN s : s[p] \in S
           /\ IsFiniteSet(DOMAIN s) /\ Cardinality(DOMAIN s) = Len(s)
<1>1. Len(s) \in Nat /\ DOMAIN s = 1 .. Len(s) /\ s \in [1 .. Len(s) -> S]
    BY LenProperties
<1>2. \A p \in DOMAIN s : s[p] \in S
    BY <1>1
<1>3. IsFiniteSet(1 .. Len(s)) /\ Cardinality(1 .. Len(s)) = IF 1 > Len(s) THEN 0 ELSE Len(s) - 1 + 1
    BY <1>1, FS_Interval
<1>4. Cardinality(1 .. Len(s)) = Len(s)
    BY <1>1, <1>3
<1> QED
    BY <1>1, <1>2, <1>3, <1>4

\* And conversely.
LEMMA FunctionIsSeq ==
    ASSUME NEW S, NEW n \in Nat, NEW s \in [1 .. n -> S]
    PROVE  s \in Seq(S) /\ Len(s) = n
    OBVIOUS

\* A set of positions that is not empty has a last one.
LEMMA LastPosition ==
    ASSUME NEW n \in Nat, NEW S, S \subseteq 1 .. n, S # {}
    PROVE  \E p \in S : \A q \in S : q <= p
<1> DEFINE R == OpToRel(<, Nat)
           T == {m \in Nat : n - m \in S}
<1>1. IsWellFoundedOn(R, Nat)
    BY NatLessThanWellFounded
<1>2. PICK q \in S : TRUE
    OBVIOUS
<1>3. q \in Int /\ n - q \in Nat /\ n - (n - q) = q
    BY <1>2
<1>4. T # {} /\ T \subseteq Nat
    BY <1>2, <1>3
<1> HIDE DEF T
<1>5. PICK m \in T : \A k \in T : ~(<<k, m>> \in R)
    BY <1>1, <1>4, WFMin
<1>6. \A k \in T : ~(k < m)
    BY <1>4, <1>5 DEF OpToRel
<1> USE DEF T
<1>7. n - m \in S /\ m \in Nat
    BY <1>5
<1>8. ASSUME NEW k \in S PROVE k <= n - m
  <2>1. k \in Int /\ n - k \in Nat /\ n - (n - k) = k
      OBVIOUS
  <2>2. n - k \in T
      BY <2>1
  <2>3. ~(n - k < m)
      BY <2>2, <1>6
  <2> QED
      BY <2>1, <2>3, <1>7
<1> QED
    BY <1>7, <1>8

\* What unreachableip returns: a position with status 0 for every address
\* that has one.
LEMMA UnreachablePositions ==
    ASSUME NEW d \in Seq(PingUnit), NEW pos, pos = unreachableip(d)
    PROVE  /\ DOMAIN pos = Down(d) /\ DOMAIN pos \subseteq IP
           /\ \A ip \in DOMAIN pos : pos[ip] \in DOMAIN d /\ d[pos[ip]].IP = ip
<1> DEFINE down == {p \in DOMAIN d : d[p].Status = 0}
           Last(ip) == CHOOSE p \in down : d[p].IP = ip /\ \A q \in down : d[q].IP = ip => q <= p
<1>1. pos = [ip \in {d[p].IP : p \in down} |-> Last(ip)]
    BY DEF unreachableip
<1>2. Len(d) \in Nat /\ DOMAIN d = 1 .. Len(d) /\ \A p \in DOMAIN d : d[p] \in PingUnit
    BY SeqIsFunction
<1>3. DOMAIN pos = Down(d)
    BY <1>1 DEF Down
<1>4. DOMAIN pos \subseteq IP
    BY <1>1, <1>2 DEF PingUnit
<1>5. ASSUME NEW ip \in DOMAIN pos PROVE pos[ip] \in DOMAIN d /\ d[pos[ip]].IP = ip
  <2> DEFINE S == {p \in down : d[p].IP = ip}
  <2>1. S # {} /\ S \subseteq 1 .. Len(d)
      BY <1>1, <1>2
  <2>2. \E p \in S : \A q \in S : q <= p
    <3> HIDE DEF S
    <3> QED
        BY <2>1, <1>2, LastPosition
  <2>3. \E p \in down : d[p].IP = ip /\ \A q \in down : d[q].IP = ip => q <= p
      BY <2>2
  <2>4. Last(ip) \in down /\ d[Last(ip)].IP = ip
      BY <2>3
  <2>5. pos[ip] = Last(ip)
      BY <1>1
  <2> QED
      BY <2>4, <2>5
<1> QED
    BY <1>3, <1>4, <1>5

\* What ipjoin returns: the keys as a sequence.
LEMMA JoinIsSeq ==
    ASSUME NEW d \in Seq(PingUnit), NEW pos, pos = unreachableip(d), NEW l \in ipjoin(pos)
    PROVE  l \in Seq(IP) /\ Elements(l) = DOMAIN pos
<1>1. /\ DOMAIN pos = Down(d) /\ DOMAIN pos \subseteq IP
    BY UnreachablePositions
<1>2. IsFiniteSet(DOMAIN d)
    BY SeqIsFunction
<1> DEFINE D == {p \in DOMAIN d : d[p].Status = 0}
           f == [p \in D |-> d[p].IP]
<1>3. IsFiniteSet(D)
    BY <1>2, FS_Subset
<1>4. f \in Surjection(D, Down(d))
    BY DEF Down, Surjection
<1>5. IsFiniteSet(Down(d))
  <2> HIDE DEF f, D
  <2> QED
      BY <1>3, <1>4, FS_Surjection
<1>6. Cardinality(DOMAIN pos) \in Nat
    BY <1>1, <1>5, FS_CardinalityType
<1>7. l \in [1 .. Cardinality(DOMAIN pos) -> DOMAIN pos] /\ Elements(l) = DOMAIN pos
    BY DEF ipjoin
<1>8. l \in [1 .. Cardinality(DOMAIN pos) -> IP]
    BY <1>1, <1>7
<1> QED
    BY <1>6, <1>7, <1>8, FunctionIsSeq

-----------------------------------------------------------------------------
(* Matched results.                                                        *)

\* A call that has begun has no results.
LEMMA PairedEmpty ==
    ASSUME NEW l
    PROVE  Paired(<<>>, l, {})
<1> DEFINE f == [p \in {} |-> 0]
<1>1. DOMAIN <<>> = {}
    OBVIOUS
<1>2. f \in [{} -> {}]
    OBVIOUS
<1> QED
    BY <1>1, <1>2 DEF Paired

\* The result of another goroutine is matched with that goroutine.
LEMMA PairedMore ==
    ASSUME NEW s \in Seq(PingUnit), NEW l, NEW D, NEW k, k \notin D,
           NEW pu \in PingUnit, pu.IP = l[k], Paired(s, l, D)
    PROVE  Paired(Append(s, pu), l, D \cup {k})
<1> DEFINE t == Append(s, pu)
           n == Len(s) + 1
<1>1. Len(s) \in Nat /\ DOMAIN s = 1 .. Len(s)
    BY SeqIsFunction
<1>2. t \in Seq(PingUnit) /\ Len(t) = n
    OBVIOUS
<1>3. DOMAIN t = 1 .. n
    BY <1>2, SeqIsFunction
<1>4. t[n] = pu /\ \A p \in DOMAIN s : t[p] = s[p]
    BY <1>1
<1>5. DOMAIN t = DOMAIN s \cup {n} /\ n \notin DOMAIN s
    BY <1>1, <1>3
<1>6. PICK f \in [DOMAIN s -> D] :
          /\ \A p, q \in DOMAIN s : f[p] = f[q] => p = q
          /\ \A j \in D : \E p \in DOMAIN s : f[p] = j
          /\ \A p \in DOMAIN s : s[p].IP = l[f[p]]
    BY DEF Paired
<1> DEFINE g == [p \in DOMAIN t |-> IF p = n THEN k ELSE f[p]]
<1> HIDE DEF t, n
<1>7. g \in [DOMAIN t -> D \cup {k}] /\ g[n] = k /\ \A p \in DOMAIN s : g[p] = f[p]
    BY <1>5, <1>6
<1> HIDE DEF g
<1>8. \A p, q \in DOMAIN t : g[p] = g[q] => p = q
    BY <1>5, <1>6, <1>7
<1>9. \A j \in D \cup {k} : \E p \in DOMAIN t : g[p] = j
    BY <1>5, <1>6, <1>7
<1>10. \A p \in DOMAIN t : t[p].IP = l[g[p]]
    BY <1>4, <1>5, <1>6, <1>7
<1>11. Paired(t, l, D \cup {k})
    BY <1>7, <1>8, <1>9, <1>10 DEF Paired
<1> QED
    BY <1>11 DEF t

\* When there are as many results as elements, every goroutine has returned.
LEMMA PairedFull ==
    ASSUME NEW s \in Seq(PingUnit), NEW l \in Seq(IP), NEW D, D \subseteq DOMAIN l,
           Paired(s, l, D), Len(s) = Len(l)
    PROVE  D = DOMAIN l
<1>1. /\ IsFiniteSet(DOMAIN s) /\ Cardinality(DOMAIN s) = Len(s)
      /\ IsFiniteSet(DOMAIN l) /\ Cardinality(DOMAIN l) = Len(l)
    BY SeqIsFunction
<1>2. PICK f \in [DOMAIN s -> D] :
          /\ \A p, q \in DOMAIN s : f[p] = f[q] => p = q
          /\ \A j \in D : \E p \in DOMAIN s : f[p] = j
    BY DEF Paired
<1>3. f \in Bijection(DOMAIN s, D)
    BY <1>2 DEF Bijection, Injection, Surjection, IsInjective
<1>4. Cardinality(D) = Cardinality(DOMAIN s)
    BY <1>1, <1>3, FS_Bijection DEF ExistsBijection
<1> QED
    BY <1>1, <1>4, FS_Subset

\* Matched results are of addresses of the list.
LEMMA PairedElements ==
    ASSUME NEW s, NEW l, NEW D, D \subseteq DOMAIN l, Paired(s, l, D), NEW p \in DOMAIN s
    PROVE  s[p].IP \in Elements(l)
    BY DEF Paired, Elements

\* Writing a status matches what was matched.
LEMMA PairedSame ==
    ASSUME NEW s, NEW t, NEW l, NEW D, Paired(s, l, D), DOMAIN t = DOMAIN s,
           \A p \in DOMAIN s : t[p].IP = s[p].IP
    PROVE  Paired(t, l, D)
    BY DEF Paired

\* Every address has as many results as places in the list.
LEMMA PairedCount ==
    ASSUME NEW s, NEW l \in Seq(IP), Paired(s, l, DOMAIN l), NEW ip
    PROVE  Count([p \in DOMAIN s |-> s[p].IP], ip) = Count(l, ip)
<1> DEFINE h == [p \in DOMAIN s |-> s[p].IP]
           A == {p \in DOMAIN h : h[p] = ip}
           B == {k \in DOMAIN l : l[k] = ip}
<1>1. PICK f \in [DOMAIN s -> DOMAIN l] :
          /\ \A p, q \in DOMAIN s : f[p] = f[q] => p = q
          /\ \A j \in DOMAIN l : \E p \in DOMAIN s : f[p] = j
          /\ \A p \in DOMAIN s : s[p].IP = l[f[p]]
    BY DEF Paired
<1> DEFINE g == [k \in B |-> CHOOSE p \in DOMAIN s : f[p] = k]
<1>2. \A k \in B : g[k] \in DOMAIN s /\ f[g[k]] = k
    BY <1>1
<1>3. A = {p \in DOMAIN s : s[p].IP = ip}
    OBVIOUS
<1>4. g \in [B -> A]
    BY <1>1, <1>2, <1>3
<1>5. \A k, j \in B : g[k] = g[j] => k = j
    BY <1>2
<1>6. ASSUME NEW p \in A PROVE \E k \in B : g[k] = p
  <2>1. p \in DOMAIN s /\ f[p] \in B
      BY <1>1, <1>3
  <2> QED
      BY <2>1, <1>1, <1>2
<1>7. g \in Bijection(B, A)
  <2> HIDE DEF g, A, B
  <2> QED
      BY <1>4, <1>5, <1>6 DEF Bijection, Injection, Surjection, IsInjective
<1>8. IsFiniteSet(B)
    BY SeqIsFunction, FS_Subset
<1>9. Cardinality(A) = Cardinality(B)
  <2> HIDE DEF g, A, B
  <2> QED
      BY <1>7, <1>8, FS_Bijection DEF ExistsBijection
<1> QED
    BY <1>9 DEF Count

\* An address that is once in the list has one result.
LEMMA PairedOnce ==
    ASSUME NEW s, NEW l \in Seq(IP), Paired(s, l, DOMAIN l), NEW ip, Count(l, ip) = 1,
           NEW p \in DOMAIN s, NEW q \in DOMAIN s, s[p].IP = ip, s[q].IP = ip
    PROVE  p = q
<1> DEFINE B == {k \in DOMAIN l : l[k] = ip}
<1>1. PICK f \in [DOMAIN s -> DOMAIN l] :
          /\ \A a, b \in DOMAIN s : f[a] = f[b] => a = b
          /\ \A a \in DOMAIN s : s[a].IP = l[f[a]]
    BY DEF Paired
<1>2. f[p] \in B /\ f[q] \in B
    BY <1>1
<1>3. IsFiniteSet(B)
    BY SeqIsFunction, FS_Subset
<1>4. \E k : B = {k}
  <2>1. Cardinality(B) = 1
      BY DEF Count
  <2> HIDE DEF B
  <2> QED
      BY <1>3, <2>1, FS_Singleton
<1> QED
    BY <1>1, <1>2, <1>4

-----------------------------------------------------------------------------
(* What a call of doping returns to batchping.                             *)

\* Merged keeps the results and their addresses; a status becomes 1 exactly
\* for the addresses that answered in the retry.
LEMMA MergedResults ==
    ASSUME NEW r \in Req, Data[r] \in Seq(PingUnit), tmp[r] \in Seq(PingUnit),
           \A ip \in DOMAIN ippos[r] : ippos[r][ip] \in DOMAIN Data[r] /\ Data[r][ippos[r][ip]].IP = ip,
           \A p \in DOMAIN tmp[r] : tmp[r][p].IP \in DOMAIN ippos[r],
           NEW d, d = Merged(r)
    PROVE  /\ d \in Seq(PingUnit) /\ DOMAIN d = DOMAIN Data[r]
           /\ \A p \in DOMAIN d : d[p].IP = Data[r][p].IP
           /\ \A ip : Up(d, ip) <=> Up(Data[r], ip) \/ Up(tmp[r], ip)
           /\ Down(d) \subseteq Down(Data[r])
<1> DEFINE up == {pu.IP : pu \in {t \in Elements(tmp[r]) : t.Status = 1}}
           hit(p) == \E ip \in up \cap DOMAIN ippos[r] : ippos[r][ip] = p
<1>1. \A ip : ip \in up <=> Up(tmp[r], ip)
    BY DEF Up, Elements
<1>2. d = [p \in DOMAIN Data[r] |->
             IF hit(p) THEN [Data[r][p] EXCEPT !.Status = 1] ELSE Data[r][p]]
    BY DEF Merged
<1>3. /\ Len(Data[r]) \in Nat /\ DOMAIN Data[r] = 1 .. Len(Data[r])
      /\ \A p \in DOMAIN Data[r] : Data[r][p] \in PingUnit
    BY SeqIsFunction
<1> HIDE DEF up
<1>4. ASSUME NEW p \in DOMAIN Data[r]
      PROVE  /\ d[p] \in PingUnit /\ d[p].IP = Data[r][p].IP
             /\ d[p].Status = 1 <=> hit(p) \/ Data[r][p].Status = 1
             /\ d[p].Status = 0 <=> ~hit(p) /\ Data[r][p].Status = 0
  <2>1. Data[r][p] \in [IP : IP, Status : {0, 1}]
      BY <1>3 DEF PingUnit
  <2>2. CASE hit(p)
    <3>1. d[p] = [Data[r][p] EXCEPT !.Status = 1]
        BY <1>2, <2>2
    <3> QED
        BY <3>1, <2>1, <2>2 DEF PingUnit
  <2>3. CASE ~hit(p)
    <3>1. d[p] = Data[r][p]
        BY <1>2, <2>3
    <3> QED
        BY <3>1, <2>1, <2>3 DEF PingUnit
  <2> QED
      BY <2>2, <2>3
<1>5. DOMAIN d = DOMAIN Data[r]
    BY <1>2
<1>6. d \in Seq(PingUnit)
  <2>1. d \in [1 .. Len(Data[r]) -> PingUnit]
      BY <1>2, <1>3, <1>4, <1>5
  <2> QED
      BY <2>1, <1>3, FunctionIsSeq
<1>7. ASSUME NEW ip, Up(d, ip) PROVE Up(Data[r], ip) \/ Up(tmp[r], ip)
  <2>1. PICK p \in DOMAIN Data[r] : d[p].IP = ip /\ d[p].Status = 1
      BY <1>5, <1>7 DEF Up
  <2>2. CASE hit(p)
    <3>1. PICK a \in up \cap DOMAIN ippos[r] : ippos[r][a] = p
        BY <2>2
    <3>2. Data[r][p].IP = a
        BY <3>1
    <3>3. a = ip
        BY <3>2, <2>1, <1>4
    <3> QED
        BY <3>1, <3>3, <1>1
  <2>3. CASE Data[r][p].Status = 1
      BY <2>1, <2>3, <1>4 DEF Up
  <2> QED
      BY <2>1, <2>2, <2>3, <1>4
<1>8. ASSUME NEW ip, Up(Data[r], ip) PROVE Up(d, ip)
    BY <1>8, <1>4, <1>5 DEF Up
<1>9. ASSUME NEW ip, Up(tmp[r], ip) PROVE Up(d, ip)
  <2>1. ip \in DOMAIN ippos[r]
      BY <1>9 DEF Up
  <2> DEFINE p == ippos[r][ip]
  <2>2. p \in DOMAIN Data[r] /\ Data[r][p].IP = ip
      BY <2>1
  <2>3. hit(p)
      BY <2>1, <1>1, <1>9
  <2>4. d[p].IP = ip /\ d[p].Status = 1
      BY <2>2, <2>3, <1>4
  <2> QED
      BY <2>2, <2>4, <1>5 DEF Up
<1>10. Down(d) \subseteq Down(Data[r])
    BY <1>4, <1>5 DEF Down
<1> QED
    BY <1>4, <1>5, <1>6, <1>7, <1>8, <1>9, <1>10

\* When doping returns, all its goroutines have returned, and the results
\* match the list of the request, say 1 exactly for the addresses that
\* answered, and 0 only for addresses that were in all calls so far.
LEMMA ReturnedResults ==
    ASSUME PingInv, NEW r \in Req, pc[r] = "doping", Len(tmp[r]) = Len(list[r]),
           NEW d, d = IF i[r] = 0 THEN tmp[r] ELSE Merged(r)
    PROVE  /\ \A k \in DOMAIN task[r] : task[r][k] = "none"
           /\ d \in Seq(PingUnit) /\ Paired(d, ips[r], DOMAIN ips[r])
           /\ \A ip \in IP : Up(d, ip) <=> ip \in answered[r]
           /\ \A ip \in Down(d) : tried[r][ip] = 1 + i[r]
           /\ \A ip \in DOMAIN ippos[r] : ippos[r][ip] \in DOMAIN d
<1>1. /\ Data[r] \in Seq(PingUnit) /\ tmp[r] \in Seq(PingUnit) /\ list[r] \in Seq(IP)
      /\ DOMAIN task[r] = DOMAIN list[r] /\ answered[r] \subseteq IP
      /\ \A ip \in DOMAIN ippos[r] : ippos[r][ip] \in DOMAIN Data[r]
    BY DEF PingInv, TypeOK
<1>2. CallOf(r) /\ AnswersOf(r) /\ RetriesOf(r)
    BY DEF PingInv
<1>3. Done(r) = DOMAIN list[r]
  <2>1. Paired(tmp[r], list[r], Done(r)) /\ Done(r) \subseteq DOMAIN list[r]
      BY <1>2 DEF CallOf, Done
  <2> QED
      BY <2>1, <1>1, PairedFull
<1>4. \A k \in DOMAIN task[r] : task[r][k] = "none"
    BY <1>1, <1>3 DEF Done
<1>5. Paired(tmp[r], list[r], DOMAIN list[r])
    BY <1>2, <1>3 DEF CallOf
<1>6. \A p \in DOMAIN tmp[r] : tmp[r][p].IP \in Elements(list[r])
    BY <1>5, PairedElements
<1>7. \A ip \in Elements(list[r]) : tried[r][ip] = 1 + i[r]
    BY <1>2 DEF RetriesOf
<1>8. \A ip \in IP : (Up(Data[r], ip) \/ Up(tmp[r], ip)) <=> ip \in answered[r]
    BY <1>2, <1>4 DEF AnswersOf
<1>9. CASE i[r] = 0
  <2>1. d = tmp[r] /\ list[r] = ips[r] /\ Data[r] = <<>> /\ ippos[r] = <<>>
      BY <1>2, <1>9 DEF CallOf
  <2>2. \A ip : ~Up(Data[r], ip)
      BY <2>1 DEF Up
  <2>3. Down(d) \subseteq Elements(list[r])
      BY <2>1, <1>6 DEF Down
  <2>4. DOMAIN ippos[r] = {}
      BY <2>1
  <2> QED
      BY <1>1, <1>4, <1>5, <1>7, <1>8, <2>1, <2>2, <2>3, <2>4
<1>10. CASE i[r] # 0
  <2>1. /\ Paired(Data[r], ips[r], DOMAIN ips[r])
        /\ Elements(list[r]) = DOMAIN ippos[r] /\ DOMAIN ippos[r] = Down(Data[r])
        /\ \A ip \in DOMAIN ippos[r] : Data[r][ippos[r][ip]].IP = ip
      BY <1>2, <1>10 DEF CallOf
  <2>2. d = Merged(r)
      BY <1>10
  <2>3. /\ d \in Seq(PingUnit) /\ DOMAIN d = DOMAIN Data[r]
        /\ \A p \in DOMAIN d : d[p].IP = Data[r][p].IP
        /\ \A ip : Up(d, ip) <=> Up(Data[r], ip) \/ Up(tmp[r], ip)
        /\ Down(d) \subseteq Down(Data[r])
      BY <1>1, <1>6, <2>1, <2>2, MergedResults
  <2>4. Paired(d, ips[r], DOMAIN ips[r])
      BY <2>1, <2>3, PairedSame
  <2> QED
      BY <1>1, <1>4, <1>7, <1>8, <2>1, <2>3, <2>4
<1> QED
    BY <1>9, <1>10

-----------------------------------------------------------------------------
(* A step concerns one request.                                            *)

\* What TypeOK and Total say of the functions as such.
CallShape ==
    /\ pc \in [Req -> {"new", "doping", "done"}] /\ error \in [Req -> {"", "err", "500"}]
    /\ size \in [Req -> Int]
    /\ DOMAIN list = Req /\ DOMAIN task = Req /\ DOMAIN tmp = Req

RequestShape ==
    /\ ips \in [Req -> Seq(IP)] /\ retry \in [Req -> Retries \cup {0}] /\ i \in [Req -> Nat]
    /\ DOMAIN Data = Req /\ DOMAIN ippos = Req
    /\ tried \in [Req -> [IP -> Nat]] /\ answered \in [Req -> SUBSET IP]

\* What TypeOK says of a request.
SeqsOf(r) ==
    /\ Data[r] \in Seq(PingUnit) /\ tmp[r] \in Seq(PingUnit) /\ list[r] \in Seq(IP)
    /\ DOMAIN task[r] = DOMAIN list[r]
    /\ DOMAIN ippos[r] \subseteq IP
    /\ \A ip \in DOMAIN ippos[r] : ippos[r][ip] \in DOMAIN Data[r]

\* The step leaves the call, or the rest, of request r alone.
CallKept(r) ==
    /\ pc'[r] = pc[r] /\ error'[r] = error[r]
    /\ list'[r] = list[r] /\ task'[r] = task[r] /\ tmp'[r] = tmp[r]

RequestKept(r) ==
    /\ ips'[r] = ips[r] /\ retry'[r] = retry[r] /\ i'[r] = i[r] /\ Data'[r] = Data[r]
    /\ ippos'[r] = ippos[r] /\ tried'[r] = tried[r] /\ answered'[r] = answered[r]

\* What the invariant says of a request.
Of(r) == SeqsOf(r) /\ CallOf(r) /\ AnswersOf(r) /\ RetriesOf(r)

\* PingInv in these terms.
LEMMA PingInvParts ==
    PingInv <=> /\ Maxconcurrency \in Concurrency /\ CallShape /\ RequestShape
                /\ \A r \in Req : Of(r)
    BY DEF PingInv, TypeOK, Total, CallShape, RequestShape, Of, SeqsOf

\* A request that is left alone keeps its part of the invariant.
LEMMA KeptOf ==
    ASSUME NEW r \in Req, Of(r), CallKept(r), RequestKept(r)
    PROVE  Of(r)'
<1> USE DEF CallKept, RequestKept
<1>1. SeqsOf(r)'
    BY DEF Of, SeqsOf
<1>2. Done(r)' = Done(r) /\ (Complete(r)' <=> Complete(r)) /\ Times(r)' = Times(r)
    BY DEF Done, Complete, Times
<1>3. CallOf(r)'
    BY <1>2 DEF Of, CallOf
<1>4. AnswersOf(r)'
    BY <1>2 DEF Of, AnswersOf
<1>5. RetriesOf(r)'
    BY <1>2 DEF Of, RetriesOf
<1> QED
    BY <1>1, <1>3, <1>4, <1>5 DEF Of

\* So it is enough to look at the request that takes the step.
LEMMA OneRequest ==
    ASSUME PingInv, NEW r \in Req, Maxconcurrency' \in Concurrency,
           CallShape', RequestShape', Of(r)',
           \A q \in Req \ {r} : CallKept(q) /\ RequestKept(q)
    PROVE  PingInv'
<1>1. \A q \in Req : Of(q)
    BY PingInvParts
<1>2. \A q \in Req \ {r} : Of(q)'
    BY <1>1, KeptOf
<1>3. \A q \in Req : Of(q)'
    BY <1>2
<1> QED
    BY <1>3 DEF PingInv, TypeOK, Total, CallShape, RequestShape, Of, SeqsOf

\* The request has got an answer that is an error.
LEMMA ErrorOf ==
    ASSUME NEW r \in Req, SeqsOf(r)', pc'[r] = "done", error'[r] # "",
           \A k \in DOMAIN task'[r] : task'[r][k] = "none",
           (i'[r] = 0 => ippos'[r] = <<>>)
    PROVE  Of(r)'
<1>1. ~Complete(r)'
    BY DEF Complete
<1>2. CallOf(r)'
    BY <1>1 DEF CallOf
<1>3. AnswersOf(r)' /\ RetriesOf(r)'
    BY <1>1 DEF AnswersOf, RetriesOf
<1> QED
    BY <1>2, <1>3 DEF Of

\* Answer(r, e).
LEMMA AnswerStep ==
    ASSUME CallShape, NEW r \in Req, NEW e \in {"", "err", "500"}, Answer(r, e)
    PROVE  /\ CallShape' /\ \A q \in Req \ {r} : CallKept(q)
           /\ pc'[r] = "done" /\ error'[r] = e
           /\ list'[r] = list[r] /\ task'[r] = task[r] /\ tmp'[r] = tmp[r]
    BY DEF CallShape, CallKept, Answer, callVars

\* Doping(r, l): 500, or a call that has just begun.
LEMMA DopingStep ==
    ASSUME CallShape, NEW r \in Req, NEW l, Doping(r, l), Maxconcurrency \in Concurrency
    PROVE  /\ CallShape' /\ \A q \in Req \ {r} : CallKept(q)
           /\ \/ /\ pc'[r] = "done" /\ error'[r] = "500"
                 /\ list'[r] = list[r] /\ task'[r] = task[r] /\ tmp'[r] = tmp[r]
              \/ /\ pc'[r] = "doping" /\ list'[r] = l /\ tmp'[r] = <<>>
                 /\ task'[r] = [k \in DOMAIN l |-> "wait"]
<1>1. CASE Maxconcurrency < 0
    BY <1>1, AnswerStep DEF Doping
<1>2. CASE ~(Maxconcurrency < 0)
  <2>1. Maxconcurrency \in Int
      BY PingAssumption
  <2>2. /\ pc' = [pc EXCEPT ![r] = "doping"] /\ error' = [error EXCEPT ![r] = ""]
        /\ list' = [list EXCEPT ![r] = l] /\ size' = [size EXCEPT ![r] = Maxconcurrency]
        /\ task' = [task EXCEPT ![r] = [k \in DOMAIN l |-> "wait"]]
        /\ tmp' = [tmp EXCEPT ![r] = <<>>]
      BY <1>2 DEF Doping
  <2>3. CallShape'
      BY <2>1, <2>2 DEF CallShape
  <2>4. \A q \in Req \ {r} : CallKept(q)
      BY <2>2 DEF CallShape, CallKept
  <2>5. /\ pc'[r] = "doping" /\ list'[r] = l /\ tmp'[r] = <<>>
        /\ task'[r] = [k \in DOMAIN l |-> "wait"]
      BY <2>2 DEF CallShape
  <2> QED
      BY <2>3, <2>4, <2>5
<1> QED
    BY <1>1, <1>2

\* A call that has just begun: no results, and no goroutine has returned.
LEMMA BegunCall ==
    ASSUME NEW r \in Req, NEW l, list'[r] = l, tmp'[r] = <<>>, task'[r] = [k \in DOMAIN l |-> "wait"]
    PROVE  /\ Paired(tmp[r], list[r], Done(r))'
           /\ \A ip : ~Up(tmp'[r], ip)
           /\ \A k \in DOMAIN task'[r] : task'[r][k] # "1"
<1>1. \A k \in DOMAIN l : task'[r][k] = "wait"
    OBVIOUS
<1>2. Done(r)' = {}
    BY <1>1 DEF Done
<1>3. Paired(<<>>, l, {})
    BY PairedEmpty
<1>4. Paired(tmp[r], list[r], Done(r))'
    BY <1>2, <1>3
<1>5. \A ip : ~Up(tmp'[r], ip)
    BY DEF Up
<1> QED
    BY <1>1, <1>4, <1>5

-----------------------------------------------------------------------------
(* The steps of batchping.                                                 *)

\* A request arrives.
LEMMA ArriveInv ==
    ASSUME PingInv, NEW r \in Req, Arrive(r)
    PROVE  PingInv'
<1>1. /\ Maxconcurrency \in Concurrency /\ CallShape /\ RequestShape /\ Of(r)
    BY PingInvParts
<1>2. pc[r] \in {"new", "done"} /\ Maxconcurrency' = Maxconcurrency
    BY DEF Arrive
<1>3. PICK l \in Lists, n \in Retries :
          /\ ips' = [ips EXCEPT ![r] = l] /\ retry' = [retry EXCEPT ![r] = n]
          /\ tried' = [tried EXCEPT ![r] = Once(l)]
          /\ Doping(r, l) \/ Answer(r, "err")
    BY DEF Arrive
<1>4. /\ i' = [i EXCEPT ![r] = 0] /\ Data' = [Data EXCEPT ![r] = <<>>]
      /\ ippos' = [ippos EXCEPT ![r] = <<>>] /\ answered' = [answered EXCEPT ![r] = {}]
    BY DEF Arrive
<1>5. l \in Seq(IP) /\ n \in Int
    BY PingAssumption
<1>6. Once(l) \in [IP -> Nat] /\ \A ip \in Elements(l) \cap IP : Once(l)[ip] = 1
    BY DEF Once
<1>7. Elements(l) \subseteq IP
    BY <1>5, SeqIsFunction DEF Elements
<1>8. RequestShape'
    BY <1>1, <1>3, <1>4, <1>5, <1>6 DEF RequestShape
<1>9. \A q \in Req \ {r} : RequestKept(q)
    BY <1>1, <1>3, <1>4 DEF RequestShape, RequestKept
<1>10. /\ ips'[r] = l /\ retry'[r] = n /\ tried'[r] = Once(l) /\ i'[r] = 0
       /\ Data'[r] = <<>> /\ ippos'[r] = <<>> /\ answered'[r] = {}
    BY <1>1, <1>3, <1>4 DEF RequestShape
<1>11. \A k \in DOMAIN task[r] : task[r][k] = "none"
    BY <1>1, <1>2 DEF Of, CallOf
<1>12. /\ CallShape' /\ \A q \in Req \ {r} : CallKept(q)
       /\ \/ /\ pc'[r] = "done" /\ error'[r] \in {"err", "500"}
             /\ list'[r] = list[r] /\ task'[r] = task[r] /\ tmp'[r] = tmp[r]
          \/ /\ pc'[r] = "doping" /\ list'[r] = l /\ tmp'[r] = <<>>
             /\ task'[r] = [k \in DOMAIN l |-> "wait"]
    BY <1>1, <1>3, AnswerStep, DopingStep
<1>13. Of(r)'
  <2>1. CASE /\ pc'[r] = "done" /\ error'[r] \in {"err", "500"}
             /\ list'[r] = list[r] /\ task'[r] = task[r] /\ tmp'[r] = tmp[r]
    <3>1. SeqsOf(r)'
        BY <2>1, <1>1, <1>10 DEF Of, SeqsOf
    <3> QED
        BY <2>1, <3>1, <1>10, <1>11, ErrorOf
  <2>2. CASE /\ pc'[r] = "doping" /\ list'[r] = l /\ tmp'[r] = <<>>
             /\ task'[r] = [k \in DOMAIN l |-> "wait"]
    <3>1. SeqsOf(r)'
        BY <2>2, <1>5, <1>10 DEF SeqsOf
    <3>2. /\ Paired(tmp[r], list[r], Done(r))'
          /\ \A ip : ~Up(tmp'[r], ip)
          /\ \A k \in DOMAIN task'[r] : task'[r][k] # "1"
        BY <2>2, BegunCall
    <3>3. ~Complete(r)'
        BY <2>2 DEF Complete
    <3>4. CallOf(r)'
        BY <2>2, <3>2, <3>3, <1>10 DEF CallOf
    <3>5. \A ip : ~Up(Data'[r], ip)
        BY <1>10 DEF Up
    <3>6. AnswersOf(r)'
        BY <2>2, <3>2, <3>3, <3>5, <1>10 DEF AnswersOf
    <3>7. i'[r] <= Times(r)'
        BY <1>5, <1>10 DEF Times
    <3>8. \A ip \in Elements(list'[r]) : tried'[r][ip] = 1 + i'[r]
        BY <2>2, <1>6, <1>7, <1>10
    <3>9. RetriesOf(r)'
        BY <3>3, <3>7, <3>8 DEF RetriesOf
    <3> QED
        BY <3>1, <3>4, <3>6, <3>9 DEF Of
  <2> QED
      BY <1>12, <2>1, <2>2
<1> QED
    BY <1>1, <1>2, <1>8, <1>9, <1>12, <1>13, OneRequest

\* A call of doping returns to batchping.
LEMMA ReturnInv ==
    ASSUME PingInv, NEW r \in Req, Return(r)
    PROVE  PingInv'
<1>1. /\ Maxconcurrency \in Concurrency /\ CallShape /\ RequestShape /\ Of(r)
    BY PingInvParts
<1>2. PICK d : d = IF i[r] = 0 THEN tmp[r] ELSE Merged(r)
    OBVIOUS
<1>3. PICK pos : pos = unreachableip(d)
    OBVIOUS
<1>4. /\ pc[r] = "doping" /\ Len(tmp[r]) = Len(list[r])
      /\ Data' = [Data EXCEPT ![r] = d]
      /\ \/ More(r, pos) /\ Retry(r, pos)
         \/ ~More(r, pos) /\ Answer(r, "") /\ UNCHANGED <<i, ippos, tried>>
      /\ UNCHANGED <<Maxconcurrency, ips, retry, answered>>
    BY <1>2, <1>3 DEF Return
<1>5. /\ \A k \in DOMAIN task[r] : task[r][k] = "none"
      /\ d \in Seq(PingUnit) /\ Paired(d, ips[r], DOMAIN ips[r])
      /\ \A ip \in IP : Up(d, ip) <=> ip \in answered[r]
      /\ \A ip \in Down(d) : tried[r][ip] = 1 + i[r]
      /\ \A ip \in DOMAIN ippos[r] : ippos[r][ip] \in DOMAIN d
    BY <1>2, <1>4, ReturnedResults
<1>6. /\ DOMAIN pos = Down(d) /\ DOMAIN pos \subseteq IP
      /\ \A ip \in DOMAIN pos : pos[ip] \in DOMAIN d /\ d[pos[ip]].IP = ip
    BY <1>3, <1>5, UnreachablePositions
<1>7. /\ Data'[r] = d /\ ips'[r] = ips[r] /\ retry'[r] = retry[r] /\ answered'[r] = answered[r]
    BY <1>1, <1>4 DEF RequestShape
<1>8. i[r] \in Nat /\ retry[r] \in Int /\ i[r] <= Times(r) /\ answered[r] \subseteq IP
  <2>1. i[r] \in Nat /\ retry[r] \in Retries \cup {0} /\ answered[r] \in SUBSET IP
      BY <1>1 DEF RequestShape
  <2>2. i[r] <= Times(r)
      BY <1>1, <1>4 DEF Of, RetriesOf
  <2>3. Retries \subseteq Int
      BY PingAssumption
  <2>4. retry[r] \in Int
    <3>1. CASE retry[r] \in Retries
        BY <2>3, <3>1
    <3>2. CASE retry[r] = 0
        BY <3>2
    <3> QED
        BY <2>1, <3>1, <3>2
  <2> QED
      BY <2>1, <2>2, <2>4
<1>9. Times(r)' = Times(r)
    BY <1>7 DEF Times
<1>10. CASE ~More(r, pos) /\ Answer(r, "") /\ UNCHANGED <<i, ippos, tried>>
  <2>1. /\ CallShape' /\ \A q \in Req \ {r} : CallKept(q)
        /\ pc'[r] = "done" /\ error'[r] = ""
        /\ list'[r] = list[r] /\ task'[r] = task[r] /\ tmp'[r] = tmp[r]
      BY <1>1, <1>10, AnswerStep
  <2>2. RequestShape' /\ \A q \in Req \ {r} : RequestKept(q)
      BY <1>1, <1>4, <1>10 DEF RequestShape, RequestKept
  <2>3. i'[r] = i[r] /\ ippos'[r] = ippos[r] /\ tried'[r] = tried[r]
      BY <1>10
  <2>4. SeqsOf(r)'
      BY <2>1, <2>3, <1>1, <1>5, <1>7 DEF Of, SeqsOf
  <2>5. CallOf(r)'
      BY <2>1, <2>3, <1>1, <1>5, <1>7 DEF Of, CallOf
  <2>6. AnswersOf(r)'
      BY <2>1, <1>5, <1>7 DEF AnswersOf
  <2>7. ASSUME NEW ip \in Down(d) PROVE tried[r][ip] = 1 + Times(r)
    <3>1. DOMAIN pos # {}
        BY <1>6
    <3>2. ~(i[r] < retry[r])
        BY <3>1, <1>10 DEF More
    <3>3. i[r] = Times(r)
        BY <3>2, <1>8 DEF Times
    <3> QED
        BY <3>3, <1>5
  <2>8. RetriesOf(r)'
      BY <2>1, <2>3, <2>7, <1>7, <1>9 DEF RetriesOf
  <2> QED
      BY <1>1, <1>4, <2>1, <2>2, <2>4, <2>5, <2>6, <2>8, OneRequest DEF Of
<1>11. CASE More(r, pos) /\ Retry(r, pos)
  <2>1. PICK l \in ipjoin(pos) : Doping(r, l)
      BY <1>11 DEF Retry
  <2>2. l \in Seq(IP) /\ Elements(l) = DOMAIN pos
      BY <1>3, <1>5, JoinIsSeq
  <2>3. /\ CallShape' /\ \A q \in Req \ {r} : CallKept(q)
        /\ \/ /\ pc'[r] = "done" /\ error'[r] = "500"
              /\ list'[r] = list[r] /\ task'[r] = task[r] /\ tmp'[r] = tmp[r]
           \/ /\ pc'[r] = "doping" /\ list'[r] = l /\ tmp'[r] = <<>>
              /\ task'[r] = [k \in DOMAIN l |-> "wait"]
      BY <1>1, <2>1, DopingStep
  <2> DEFINE more == [ip \in IP |-> tried[r][ip] + (IF ip \in DOMAIN pos THEN 1 ELSE 0)]
  <2>4. /\ i' = [i EXCEPT ![r] = i[r] + 1] /\ ippos' = [ippos EXCEPT ![r] = pos]
        /\ tried' = [tried EXCEPT ![r] = more]
      BY <1>11 DEF Retry
  <2>5. tried[r] \in [IP -> Nat]
      BY <1>1 DEF RequestShape
  <2>6. more \in [IP -> Nat] /\ \A ip \in DOMAIN pos : more[ip] = tried[r][ip] + 1
      BY <2>5, <1>6
  <2> HIDE DEF more
  <2>7. RequestShape' /\ \A q \in Req \ {r} : RequestKept(q)
    <3>1. i[r] + 1 \in Nat
        BY <1>8
    <3>2. RequestShape'
        BY <3>1, <1>1, <1>4, <2>4, <2>6 DEF RequestShape
    <3> QED
        BY <3>2, <1>1, <1>4, <2>4 DEF RequestShape, RequestKept
  <2>8. i'[r] = i[r] + 1 /\ ippos'[r] = pos /\ tried'[r] = more
      BY <2>4, <1>1 DEF RequestShape
  <2>9. i'[r] # 0
      BY <2>8, <1>8
  <2>10. Of(r)'
    <3>1. CASE /\ pc'[r] = "done" /\ error'[r] = "500"
               /\ list'[r] = list[r] /\ task'[r] = task[r] /\ tmp'[r] = tmp[r]
      <4>1. SeqsOf(r)'
          BY <3>1, <2>8, <1>1, <1>5, <1>6, <1>7 DEF Of, SeqsOf
      <4> QED
          BY <3>1, <4>1, <2>9, <1>5, ErrorOf
    <3>2. CASE /\ pc'[r] = "doping" /\ list'[r] = l /\ tmp'[r] = <<>>
               /\ task'[r] = [k \in DOMAIN l |-> "wait"]
      <4>1. SeqsOf(r)'
          BY <3>2, <2>2, <2>8, <1>5, <1>6, <1>7 DEF SeqsOf
      <4>2. /\ Paired(tmp[r], list[r], Done(r))'
            /\ \A ip : ~Up(tmp'[r], ip)
            /\ \A k \in DOMAIN task'[r] : task'[r][k] # "1"
          BY <3>2, BegunCall
      <4>3. ~Complete(r)'
          BY <3>2 DEF Complete
      <4>4. CallOf(r)'
          BY <3>2, <4>2, <4>3, <2>2, <2>8, <2>9, <1>5, <1>6, <1>7 DEF CallOf
      <4>5. AnswersOf(r)'
          BY <3>2, <4>2, <4>3, <1>5, <1>7, <1>8 DEF AnswersOf
      <4>6. i'[r] <= Times(r)'
          BY <2>8, <1>8, <1>9, <1>11 DEF More, Times
      <4>7. \A ip \in Elements(list'[r]) : tried'[r][ip] = 1 + i'[r]
        <5>1. ASSUME NEW ip \in DOMAIN pos PROVE more[ip] = 1 + (i[r] + 1)
          <6>1. more[ip] = tried[r][ip] + 1 /\ tried[r][ip] = 1 + i[r]
              BY <2>6, <1>5, <1>6
          <6> QED
              BY <6>1, <1>8
        <5> QED
            BY <5>1, <3>2, <2>2, <2>8
      <4>8. RetriesOf(r)'
          BY <4>3, <4>6, <4>7 DEF RetriesOf
      <4> QED
          BY <4>1, <4>4, <4>5, <4>8 DEF Of
    <3> QED
        BY <2>3, <3>1, <3>2
  <2> QED
      BY <1>1, <1>4, <2>3, <2>7, <2>10, OneRequest
<1> QED
    BY <1>4, <1>10, <1>11

-----------------------------------------------------------------------------
(* The steps of PingAddr.                                                  *)

\* A step of goroutine k of request r, seen from the functions.
LEMMA MoveStep ==
    ASSUME CallShape, NEW r \in Req, NEW k \in DOMAIN task[r], NEW x, Move(r, k, x)
    PROVE  /\ DOMAIN task' = Req /\ \A q \in Req \ {r} : task'[q] = task[q]
           /\ DOMAIN task'[r] = DOMAIN task[r] /\ task'[r][k] = x
           /\ \A j \in DOMAIN task[r] \ {k} : task'[r][j] = task[r][j]
<1>1. task' = [task EXCEPT ![r] = [task[r] EXCEPT ![k] = x]]
    BY DEF Move
<1>2. task'[r] = [task[r] EXCEPT ![k] = x]
    BY <1>1 DEF CallShape
<1> QED
    BY <1>1, <1>2 DEF CallShape

\* A goroutine gets its token.
LEMMA BeginInv ==
    ASSUME PingInv, NEW r \in Req, NEW k \in DOMAIN task[r], Begin(r, k)
    PROVE  PingInv'
<1>1. /\ Maxconcurrency \in Concurrency /\ CallShape /\ RequestShape /\ Of(r)
    BY PingInvParts
<1>2. task[r][k] = "wait" /\ Move(r, k, "ping")
      /\ UNCHANGED <<Maxconcurrency, pc, ips, retry, i, Data, error, ippos, list, size, tmp, tried, answered>>
    BY DEF Begin, requestVars, historyVars
<1>3. /\ DOMAIN task' = Req /\ \A q \in Req \ {r} : task'[q] = task[q]
      /\ DOMAIN task'[r] = DOMAIN task[r] /\ task'[r][k] = "ping"
      /\ \A j \in DOMAIN task[r] \ {k} : task'[r][j] = task[r][j]
    BY <1>1, <1>2, MoveStep
<1>4. CallShape' /\ RequestShape' /\ \A q \in Req \ {r} : CallKept(q) /\ RequestKept(q)
    BY <1>1, <1>2, <1>3 DEF CallShape, RequestShape, CallKept, RequestKept
<1>5. pc[r] = "doping" /\ ~Complete(r)'
    BY <1>1, <1>2 DEF Of, CallOf, Complete
<1>6. SeqsOf(r)'
    BY <1>1, <1>2, <1>3 DEF Of, SeqsOf
<1>7. Done(r)' = Done(r)
    BY <1>1, <1>2, <1>3 DEF Done, Of, SeqsOf
<1>8. CallOf(r)'
    BY <1>1, <1>2, <1>5, <1>7 DEF Of, CallOf
<1>9. AnswersOf(r)'
  <2>1. \A j \in DOMAIN task[r] : task'[r][j] = "1" <=> task[r][j] = "1"
      BY <1>2, <1>3
  <2> QED
      BY <2>1, <1>1, <1>2, <1>3, <1>5 DEF Of, AnswersOf
<1>10. RetriesOf(r)'
    BY <1>1, <1>2, <1>5 DEF Of, RetriesOf, Times
<1> QED
    BY <1>1, <1>2, <1>4, <1>6, <1>8, <1>9, <1>10, OneRequest DEF Of

\* ping has returned s.
LEMMA PingStepInv ==
    ASSUME PingInv, NEW r \in Req, NEW k \in DOMAIN task[r], NEW s \in Send, Ping(r, k, s)
    PROVE  PingInv'
<1>1. /\ Maxconcurrency \in Concurrency /\ CallShape /\ RequestShape /\ Of(r)
    BY PingInvParts
<1>2. task[r][k] = "ping" /\ Move(r, k, s)
      /\ UNCHANGED <<Maxconcurrency, pc, ips, retry, i, Data, error, ippos, list, size, tmp, tried>>
    BY DEF Ping, requestVars
<1> DEFINE a == IF s = "1" THEN answered[r] \cup {list[r][k]} ELSE answered[r]
<1>3. answered' = [answered EXCEPT ![r] = a]
    BY DEF Ping
<1>4. list[r][k] \in IP /\ k \in DOMAIN list[r] /\ answered[r] \in SUBSET IP
    BY <1>1, SeqIsFunction DEF Of, SeqsOf, RequestShape
<1>5. a \in SUBSET IP /\ answered[r] \subseteq a
    BY <1>4
<1>6. answered'[r] = a
    BY <1>1, <1>3 DEF RequestShape
<1>7. /\ DOMAIN task' = Req /\ \A q \in Req \ {r} : task'[q] = task[q]
      /\ DOMAIN task'[r] = DOMAIN task[r] /\ task'[r][k] = s
      /\ \A j \in DOMAIN task[r] \ {k} : task'[r][j] = task[r][j]
    BY <1>1, <1>2, MoveStep
<1>8. CallShape' /\ RequestShape' /\ \A q \in Req \ {r} : CallKept(q) /\ RequestKept(q)
  <2> HIDE DEF a
  <2> QED
      BY <1>1, <1>2, <1>3, <1>5, <1>7 DEF CallShape, RequestShape, CallKept, RequestKept
<1>9. pc[r] = "doping" /\ ~Complete(r)'
    BY <1>1, <1>2 DEF Of, CallOf, Complete
<1>10. SeqsOf(r)'
    BY <1>1, <1>2, <1>7 DEF Of, SeqsOf
<1>11. Done(r)' = Done(r)
    BY <1>1, <1>2, <1>7 DEF Done, Of, SeqsOf, Send
<1>12. CallOf(r)'
    BY <1>1, <1>2, <1>9, <1>11 DEF Of, CallOf
<1>13. AnswersOf(r)'
  <2>1. /\ \A ip \in IP : Up(Data[r], ip) \/ Up(tmp[r], ip) => ip \in answered[r]
        /\ \A j \in DOMAIN task[r] : task[r][j] = "1" => list[r][j] \in answered[r]
        /\ \A ip \in answered[r] :
              \/ Up(Data[r], ip) \/ Up(tmp[r], ip)
              \/ \E j \in DOMAIN task[r] : task[r][j] = "1" /\ list[r][j] = ip
      BY <1>1, <1>9 DEF Of, AnswersOf
  <2>2. \A ip \in IP : Up(Data'[r], ip) \/ Up(tmp'[r], ip) => ip \in a
      BY <2>1, <1>2, <1>5
  <2>3. \A j \in DOMAIN task'[r] : task'[r][j] = "1" => list'[r][j] \in a
      BY <2>1, <1>2, <1>5, <1>7
  <2>4. ASSUME NEW ip \in a
        PROVE  \/ Up(Data'[r], ip) \/ Up(tmp'[r], ip)
               \/ \E j \in DOMAIN task'[r] : task'[r][j] = "1" /\ list'[r][j] = ip
    <3>1. CASE s = "1" /\ ip = list[r][k]
        BY <3>1, <1>2, <1>7
    <3>2. CASE ip \in answered[r]
      <4>1. CASE Up(Data[r], ip) \/ Up(tmp[r], ip)
          BY <4>1, <1>2
      <4>2. CASE \E j \in DOMAIN task[r] : task[r][j] = "1" /\ list[r][j] = ip
        <5>1. PICK j \in DOMAIN task[r] : task[r][j] = "1" /\ list[r][j] = ip
            BY <4>2
        <5>2. j # k
            BY <5>1, <1>2
        <5> QED
            BY <5>1, <5>2, <1>2, <1>7
      <4> QED
          BY <2>1, <3>2, <4>1, <4>2
    <3> QED
        BY <3>1, <3>2
  <2> QED
      BY <2>2, <2>3, <2>4, <1>2, <1>6, <1>9 DEF AnswersOf
<1>14. RetriesOf(r)'
    BY <1>1, <1>2, <1>9 DEF Of, RetriesOf, Times
<1> QED
    BY <1>1, <1>2, <1>8, <1>10, <1>12, <1>13, <1>14, OneRequest DEF Of

\* doping receives the result of a goroutine.
LEMMA DeliverInv ==
    ASSUME PingInv, NEW r \in Req, NEW k \in DOMAIN task[r], Deliver(r, k)
    PROVE  PingInv'
<1>1. /\ Maxconcurrency \in Concurrency /\ CallShape /\ RequestShape /\ Of(r)
    BY PingInvParts
<1>2. pc[r] = "doping" /\ task[r][k] \in Send /\ Move(r, k, "none")
      /\ UNCHANGED <<Maxconcurrency, pc, ips, retry, i, Data, error, ippos, list, size, tried, answered>>
    BY DEF Deliver, requestVars, historyVars
<1>3. PICK pu : pu = [IP |-> list[r][k], Status |-> IF task[r][k] = "1" THEN 1 ELSE 0]
    OBVIOUS
<1>4. tmp' = [tmp EXCEPT ![r] = Append(tmp[r], pu)]
    BY <1>3 DEF Deliver
<1>5. /\ list[r][k] \in IP /\ k \in DOMAIN list[r] /\ tmp[r] \in Seq(PingUnit)
      /\ DOMAIN task[r] = DOMAIN list[r]
    BY <1>1, SeqIsFunction DEF Of, SeqsOf
<1>6. /\ pu \in PingUnit /\ pu.IP = list[r][k] /\ (pu.Status = 1 <=> task[r][k] = "1")
    BY <1>3, <1>5 DEF PingUnit
<1>7. tmp'[r] = Append(tmp[r], pu)
    BY <1>1, <1>4 DEF CallShape
<1>8. /\ DOMAIN task' = Req /\ \A q \in Req \ {r} : task'[q] = task[q]
      /\ DOMAIN task'[r] = DOMAIN task[r] /\ task'[r][k] = "none"
      /\ \A j \in DOMAIN task[r] \ {k} : task'[r][j] = task[r][j]
    BY <1>1, <1>2, MoveStep
<1>9. CallShape' /\ RequestShape' /\ \A q \in Req \ {r} : CallKept(q) /\ RequestKept(q)
    BY <1>1, <1>2, <1>4, <1>8 DEF CallShape, RequestShape, CallKept, RequestKept
<1>10. ~Complete(r)'
    BY <1>2 DEF Complete
<1>11. SeqsOf(r)'
  <2>1. tmp'[r] \in Seq(PingUnit)
      BY <1>5, <1>6, <1>7
  <2> QED
      BY <2>1, <1>1, <1>2, <1>8 DEF Of, SeqsOf
<1>12. CallOf(r)'
  <2>1. Done(r)' = Done(r) \cup {k} /\ k \notin Done(r)
      BY <1>2, <1>5, <1>8 DEF Done, Send
  <2>2. Paired(tmp[r], list[r], Done(r))
      BY <1>1, <1>2 DEF Of, CallOf
  <2>3. Paired(Append(tmp[r], pu), list[r], Done(r) \cup {k})
      BY <2>1, <2>2, <1>5, <1>6, PairedMore
  <2>4. Paired(tmp[r], list[r], Done(r))'
      BY <2>1, <2>3, <1>2, <1>7
  <2> QED
      BY <2>4, <1>1, <1>2, <1>10 DEF Of, CallOf
<1>13. \A ip : Up(tmp'[r], ip) <=> Up(tmp[r], ip) \/ (list[r][k] = ip /\ task[r][k] = "1")
  <2> DEFINE n == Len(tmp[r]) + 1
  <2>1. Len(tmp[r]) \in Nat /\ DOMAIN tmp[r] = 1 .. Len(tmp[r])
      BY <1>5, SeqIsFunction
  <2>2. tmp'[r] \in Seq(PingUnit) /\ Len(tmp'[r]) = n
      BY <1>5, <1>6, <1>7
  <2>3. DOMAIN tmp'[r] = 1 .. n
      BY <2>2, SeqIsFunction
  <2>4. DOMAIN tmp'[r] = DOMAIN tmp[r] \cup {n}
      BY <2>1, <2>3
  <2>5. tmp'[r][n] = pu /\ \A p \in DOMAIN tmp[r] : tmp'[r][p] = tmp[r][p]
      BY <2>1, <1>5, <1>6, <1>7
  <2> HIDE DEF n
  <2> QED
      BY <2>4, <2>5, <1>6 DEF Up
<1>14. AnswersOf(r)'
  <2>1. /\ \A ip \in IP : Up(Data[r], ip) \/ Up(tmp[r], ip) => ip \in answered[r]
        /\ \A j \in DOMAIN task[r] : task[r][j] = "1" => list[r][j] \in answered[r]
        /\ \A ip \in answered[r] :
              \/ Up(Data[r], ip) \/ Up(tmp[r], ip)
              \/ \E j \in DOMAIN task[r] : task[r][j] = "1" /\ list[r][j] = ip
      BY <1>1, <1>2 DEF Of, AnswersOf
  <2>2. \A ip \in IP : Up(Data'[r], ip) \/ Up(tmp'[r], ip) => ip \in answered'[r]
      BY <2>1, <1>2, <1>13
  <2>3. \A j \in DOMAIN task'[r] : task'[r][j] = "1" => list'[r][j] \in answered'[r]
      BY <2>1, <1>2, <1>8
  <2>4. ASSUME NEW ip \in answered'[r]
        PROVE  \/ Up(Data'[r], ip) \/ Up(tmp'[r], ip)
               \/ \E j \in DOMAIN task'[r] : task'[r][j] = "1" /\ list'[r][j] = ip
    <3>1. CASE Up(Data[r], ip) \/ Up(tmp[r], ip)
        BY <3>1, <1>2, <1>13
    <3>2. CASE \E j \in DOMAIN task[r] : task[r][j] = "1" /\ list[r][j] = ip
      <4>1. PICK j \in DOMAIN task[r] : task[r][j] = "1" /\ list[r][j] = ip
          BY <3>2
      <4>2. CASE j = k
          BY <4>1, <4>2, <1>13
      <4>3. CASE j # k
          BY <4>1, <4>3, <1>2, <1>8
      <4> QED
          BY <4>2, <4>3
    <3> QED
        BY <2>1, <2>4, <1>2, <3>1, <3>2
  <2> QED
      BY <2>2, <2>3, <2>4, <1>10 DEF AnswersOf
<1>15. RetriesOf(r)'
    BY <1>1, <1>2, <1>10 DEF Of, RetriesOf, Times
<1> QED
    BY <1>1, <1>2, <1>9, <1>11, <1>12, <1>14, <1>15, OneRequest DEF Of

\* SIGHUP, and the steps that change nothing.
LEMMA ReloadInv ==
    ASSUME PingInv, \/ Reload
                    \/ UNCHANGED vars
    PROVE  PingInv'
<1>1. /\ Maxconcurrency \in Concurrency /\ CallShape /\ RequestShape /\ \A r \in Req : Of(r)
    BY PingInvParts
<1>2. UNCHANGED <<pc, ips, retry, i, Data, error, ippos, list, size, task, tmp, tried, answered>>
    BY DEF Reload, vars, requestVars, callVars, historyVars
<1>3. Maxconcurrency' \in Concurrency
    BY <1>1 DEF Reload, vars
<1>4. CallShape' /\ RequestShape'
    BY <1>1, <1>2 DEF CallShape, RequestShape
<1>5. \A r \in Req : Of(r)'
    BY <1>1, <1>2, KeptOf DEF CallKept, RequestKept
<1> QED
    BY <1>3, <1>4, <1>5 DEF PingInv, TypeOK, Total, CallShape, RequestShape, Of, SeqsOf

\* At the start.
LEMMA InitInv ==
    ASSUME Init
    PROVE  PingInv
<1>1. Maxconcurrency \in Concurrency /\ CallShape
  <2>1. size \in [Req -> Int]
    <3>1. size = [r \in Req |-> 0]
        BY Zenon DEF Init
    <3> QED
        BY <3>1
  <2>2. pc \in [Req -> {"new", "doping", "done"}] /\ error \in [Req -> {"", "err", "500"}]
    <3>1. pc = [r \in Req |-> "new"] /\ error = [r \in Req |-> ""]
        BY DEF Init
    <3> QED
        BY <3>1
  <2>3. Maxconcurrency \in Concurrency /\ DOMAIN list = Req /\ DOMAIN task = Req /\ DOMAIN tmp = Req
      BY DEF Init
  <2> QED
      BY <2>1, <2>2, <2>3 DEF CallShape
<1>2. RequestShape
  <2>1. ips \in [Req -> Seq(IP)]
    <3>1. <<>> \in Seq(IP)
        OBVIOUS
    <3>2. ips = [r \in Req |-> <<>>]
        BY Zenon DEF Init
    <3> QED
        BY <3>1, <3>2
  <2>2. tried \in [Req -> [IP -> Nat]]
    <3>1. [ip \in IP |-> 0] \in [IP -> Nat]
        OBVIOUS
    <3> QED
        BY <3>1 DEF Init
  <2>3. answered \in [Req -> SUBSET IP]
      BY DEF Init
  <2>4. retry \in [Req -> Retries \cup {0}] /\ i \in [Req -> Nat]
      BY DEF Init
  <2>5. DOMAIN Data = Req /\ DOMAIN ippos = Req
      BY DEF Init
  <2> QED
      BY <2>1, <2>2, <2>3, <2>4, <2>5 DEF RequestShape
<1>3. ASSUME NEW r \in Req PROVE Of(r)
  <2>1. /\ pc[r] = "new" /\ Data[r] = <<>> /\ ippos[r] = <<>> /\ list[r] = <<>>
        /\ task[r] = <<>> /\ tmp[r] = <<>>
      BY DEF Init
  <2>2. ~Complete(r)
      BY <2>1 DEF Complete
  <2>3. SeqsOf(r)
      BY <2>1 DEF SeqsOf
  <2> QED
      BY <2>1, <2>2, <2>3 DEF Of, CallOf, AnswersOf, RetriesOf
<1> QED
    BY <1>1, <1>2, <1>3, PingInvParts

-----------------------------------------------------------------------------
(* The theorems.                                                           *)

\* Every step of batch ping, of any request and any goroutine, keeps the
\* matching of results and goroutines and what it says about the answers.
THEOREM PingInvariant == Spec => []PingInv
<1>1. Init => PingInv
    BY InitInv
<1>2. PingInv /\ [Next]_vars => PingInv'
  <2> SUFFICES ASSUME PingInv, [Next]_vars PROVE PingInv'
      OBVIOUS
  <2>1. CASE \E r \in Req : Arrive(r)
      BY <2>1, ArriveInv
  <2>2. CASE \E r \in Req : Return(r)
      BY <2>2, ReturnInv
  <2>3. CASE \E r \in Req : \E k \in DOMAIN task[r] : PingAddr(r, k)
      BY <2>3, BeginInv, PingStepInv, DeliverInv DEF PingAddr
  <2>4. CASE Reload \/ UNCHANGED vars
      BY <2>4, ReloadInv
  <2> QED
      BY <2>1, <2>2, <2>3, <2>4 DEF Next
<1> QED
    BY <1>1, <1>2, PTL DEF Spec

\* Type correctness of batch ping; in particular a retry writes only to
\* positions that the list of results has.
THEOREM TypeCorrect == Spec => []TypeOK
<1>1. PingInv => TypeOK
    BY DEF PingInv
<1> QED
    BY <1>1, PingInvariant, PTL

\* The answer of batchping has one result for every element of the requested
\* list, for every list, every order of arrival and any number of retries.
THEOREM OneResultForEach == Spec => []OneResultEach
<1>1. PingInv => OneResultEach
  <2> SUFFICES ASSUME PingInv, NEW r \in Req, Complete(r), NEW ip \in IP
               PROVE  Count([p \in DOMAIN Data[r] |-> Data[r][p].IP], ip) = Count(ips[r], ip)
      BY DEF OneResultEach
  <2>1. ips[r] \in Seq(IP) /\ Paired(Data[r], ips[r], DOMAIN ips[r])
      BY DEF PingInv, TypeOK, CallOf
  <2> QED
      BY <2>1, PairedCount
<1> QED
    BY <1>1, PingInvariant, PTL

\* A result of batchping says 1 only for an address that answered one of the
\* pings of its request.
THEOREM UpIsDeserved == Spec => []UpMeansAnswered
<1>1. PingInv => UpMeansAnswered
    BY DEF PingInv, AnswersOf, UpMeansAnswered, Up
<1> QED
    BY <1>1, PingInvariant, PTL

\* And for an address that is once in the list it says 1 if it answered any.
THEOREM AnswerIsReported == Spec => []AnsweredMeansUp
<1>1. PingInv => AnsweredMeansUp
  <2> SUFFICES ASSUME PingInv, NEW r \in Req, NEW ip \in IP, Complete(r),
                      Count(ips[r], ip) = 1, ip \in answered[r],
                      NEW p \in DOMAIN Data[r], Data[r][p].IP = ip
               PROVE  Data[r][p].Status = 1
      BY DEF AnsweredMeansUp
  <2>1. ips[r] \in Seq(IP) /\ Paired(Data[r], ips[r], DOMAIN ips[r])
      BY DEF PingInv, TypeOK, CallOf
  <2>2. PICK q \in DOMAIN Data[r] : Data[r][q].IP = ip /\ Data[r][q].Status = 1
      BY DEF PingInv, AnswersOf, Up
  <2>3. p = q
      BY <2>1, <2>2, PairedOnce
  <2> QED
      BY <2>2, <2>3
<1> QED
    BY <1>1, PingInvariant, PTL

\* An address that the answer of batchping calls unreachable was pinged once
\* and then again as often as the parameter retry says.
THEOREM UnreachableWasRetried == Spec => []RetriedEnough
<1>1. PingInv => RetriedEnough
  <2> SUFFICES ASSUME PingInv, NEW r \in Req, Complete(r),
                      NEW p \in DOMAIN Data[r], Data[r][p].Status = 0
               PROVE  tried[r][Data[r][p].IP] = 1 + IF retry[r] > 0 THEN retry[r] ELSE 0
      BY DEF RetriedEnough
  <2>1. Data[r][p].IP \in Down(Data[r])
      BY DEF Down
  <2> QED
      BY <2>1 DEF PingInv, RetriesOf, Times
<1> QED
    BY <1>1, PingInvariant, PTL
=============================================================================
