----------------------------- MODULE PingAgent -----------------------------
(***************************************************************************)
(* Batch ping from route/pingagent.go.  A request names a list of          *)
(* addresses; doping starts one goroutine PingAddr per element and         *)
(* collects the results in the order in which they arrive; batchping then  *)
(* pings the addresses that did not answer again, up to retry times, and   *)
(* writes the answers into the first list of results by position.          *)
(*                                                                         *)
(* The goroutines of one doping call share the channel async_c, whose      *)
(* capacity is the value of maxconcurrency at that moment.  Req is a set   *)
(* of places for requests that are served at the same time, each serving   *)
(* one request after another.                                              *)
(***************************************************************************)
EXTENDS Integers, Sequences, FiniteSets

CONSTANTS
    Req,         \* the requests served at the same time
    IP,          \* the addresses
    Lists,       \* the lists of addresses that may be requested
    Retries,     \* the values the parameter retry may have
    Concurrency  \* the values of maxconcurrency the configuration may hold

ASSUME PingAssumption ==
    /\ Lists \subseteq Seq(IP) /\ \A l \in Lists : l # <<>>
    /\ Retries \subseteq Int
    /\ Concurrency \subseteq Int

PingUnit == [IP : IP, Status : {0, 1}]

VARIABLES
    Maxconcurrency,  \* config.Cfg.Maxconcurrency
    pc,        \* "new", "doping" while doping runs, "done" when answered
    ips,       \* the requested list
    retry,     \* how often to retry
    i,         \* the retries begun
    Data,      \* the results of the request
    error,     \* field Error of the answer, "500" after a panic
    ippos,     \* in a retry: the position in Data of each address to ping
    list,      \* the addresses of the running doping call
    size,      \* the capacity of its channel async_c
    task,      \* its goroutines: "wait", "ping", the status to send, "none"
    tmp,       \* the results it has collected
    tried,     \* history: in how many doping calls each address was pinged
    answered   \* history: the addresses for which ping has returned 1

callVars == <<list, size, task, tmp>>

requestVars == <<pc, ips, retry, i, Data, error, ippos>>

historyVars == <<tried, answered>>

vars == <<Maxconcurrency, requestVars, callVars, historyVars>>

Elements(s) == {s[k] : k \in DOMAIN s}

Init ==
    /\ Maxconcurrency \in Concurrency
    /\ pc = [r \in Req |-> "new"]
    /\ ips = [r \in Req |-> <<>>]
    /\ retry = [r \in Req |-> 0]
    /\ i = [r \in Req |-> 0]
    /\ Data = [r \in Req |-> <<>>]
    /\ error = [r \in Req |-> ""]
    /\ ippos = [r \in Req |-> <<>>]
    /\ list = [r \in Req |-> <<>>]
    /\ size = [r \in Req |-> 0]
    /\ task = [r \in Req |-> <<>>]
    /\ tmp = [r \in Req |-> <<>>]
    /\ tried = [r \in Req |-> [ip \in IP |-> 0]]
    /\ answered = [r \in Req |-> {}]

-----------------------------------------------------------------------------
(* batchping.                                                              *)

\* The answer is sent.
Answer(r, e) ==
    /\ pc' = [pc EXCEPT ![r] = "done"]
    /\ error' = [error EXCEPT ![r] = e]
    /\ UNCHANGED callVars

\* doping starts a goroutine per element of l.  A negative capacity panics;
\* martini recovers the handler and answers 500.
Doping(r, l) ==
    IF Maxconcurrency < 0
    THEN Answer(r, "500")
    ELSE /\ pc' = [pc EXCEPT ![r] = "doping"]
         /\ error' = [error EXCEPT ![r] = ""]
         /\ list' = [list EXCEPT ![r] = l]
         /\ size' = [size EXCEPT ![r] = Maxconcurrency]
         /\ task' = [task EXCEPT ![r] = [k \in DOMAIN l |-> "wait"]]
         /\ tmp' = [tmp EXCEPT ![r] = <<>>]

Once(l) == [ip \in IP |-> IF ip \in Elements(l) THEN 1 ELSE 0]

\* A request arrives; ParameterCheckPing refuses it or batchping pings its list.
Arrive(r) ==
    /\ pc[r] \in {"new", "done"}
    /\ \E l \in Lists, n \in Retries :
          /\ ips' = [ips EXCEPT ![r] = l]
          /\ retry' = [retry EXCEPT ![r] = n]
          /\ tried' = [tried EXCEPT ![r] = Once(l)]
          /\ Doping(r, l) \/ Answer(r, "err")
    /\ i' = [i EXCEPT ![r] = 0]
    /\ Data' = [Data EXCEPT ![r] = <<>>]
    /\ ippos' = [ippos EXCEPT ![r] = <<>>]
    /\ answered' = [answered EXCEPT ![r] = {}]
    /\ UNCHANGED Maxconcurrency

\* Faulty variant of unreachableip: positions counted from 0.
unreachableipFromZero(d) ==
    [ip \in {pu.IP : pu \in {t \in Elements(d) : t.Status = 0}} |->
        (CHOOSE p \in DOMAIN d : d[p].IP = ip /\ d[p].Status = 0) - 1]

\* For every address with a result of status 0 the last position of one.
unreachableip(d) ==
    LET down == {p \in DOMAIN d : d[p].Status = 0}
    IN  [ip \in {d[p].IP : p \in down} |->
            CHOOSE p \in down : d[p].IP = ip /\ \A q \in down : d[q].IP = ip => q <= p]

\* ipjoin lists the keys in the order of a map, which is any order.
ipjoin(pos) ==
    LET keys == DOMAIN pos
    IN  {l \in [1 .. Cardinality(keys) -> keys] : Elements(l) = keys}

\* Faulty variants of Merged: the results of the retry are appended, as those
\* of the first call are; the test of the status is missing; only the
\* last answer is written.
MergedAppended(r) == Data[r] \o tmp[r]

MergedUntested(r) ==
    [p \in DOMAIN Data[r] |->
        IF \E ip \in DOMAIN ippos[r] : ippos[r][ip] = p
        THEN [Data[r][p] EXCEPT !.Status = 1]
        ELSE Data[r][p]]

MergedLast(r) ==
    LET pu == tmp[r][Len(tmp[r])]
    IN  IF pu.Status = 1 THEN [Data[r] EXCEPT ![ippos[r][pu.IP]].Status = 1] ELSE Data[r]

\* The results after the retry: an answer is written where ippos says.
Merged(r) ==
    LET up == {pu.IP : pu \in {t \in Elements(tmp[r]) : t.Status = 1}}
    IN  [p \in DOMAIN Data[r] |->
           IF \E ip \in up \cap DOMAIN ippos[r] : ippos[r][ip] = p
           THEN [Data[r][p] EXCEPT !.Status = 1]
           ELSE Data[r][p]]

\* The request pings the addresses of pos again.
Retry(r, pos) ==
    /\ i' = [i EXCEPT ![r] = @ + 1]
    /\ ippos' = [ippos EXCEPT ![r] = pos]
    /\ \E l \in ipjoin(pos) : Doping(r, l)
    /\ tried' = [tried EXCEPT ![r] = [ip \in IP |->
                   @[ip] + (IF ip \in DOMAIN pos THEN 1 ELSE 0)]]

\* The condition of the loop of retries, which does nothing once all answered.
More(r, pos) == i[r] < retry[r] /\ DOMAIN pos # {}

\* Faulty variant of Return: the first call counts as one of the retries.
ReturnEarly(r) ==
    LET d == IF i[r] = 0 THEN tmp[r] ELSE Merged(r)
        pos == unreachableip(d)
    IN  /\ pc[r] = "doping" /\ Len(tmp[r]) = Len(list[r])
        /\ Data' = [Data EXCEPT ![r] = d]
        /\ \/ i[r] + 1 < retry[r] /\ DOMAIN pos # {} /\ Retry(r, pos)
           \/ i[r] + 1 >= retry[r] /\ Answer(r, "") /\ UNCHANGED <<i, ippos, tried>>
        /\ UNCHANGED <<Maxconcurrency, ips, retry, answered>>

\* doping has collected all results and returns.  batchping takes them over
\* and pings the addresses again that have not answered, or is done.
Return(r) ==
    LET d == IF i[r] = 0 THEN tmp[r] ELSE Merged(r)
        pos == unreachableip(d)
    IN  /\ pc[r] = "doping" /\ Len(tmp[r]) = Len(list[r])
        /\ Data' = [Data EXCEPT ![r] = d]
        /\ \/ More(r, pos) /\ Retry(r, pos)
           \/ ~More(r, pos) /\ Answer(r, "") /\ UNCHANGED <<i, ippos, tried>>
        /\ UNCHANGED <<Maxconcurrency, ips, retry, answered>>

-----------------------------------------------------------------------------
(* PingAddr.                                                               *)

Move(r, k, l) == task' = [task EXCEPT ![r][k] = l]

Send == {"0", "1"}

\* Faulty variant of InChannel: nobody takes its token back.
InChannelForever(r) == {k \in DOMAIN task[r] : task[r][k] # "wait"}

\* The goroutines that have put their token into async_c.
InChannel(r) == {k \in DOMAIN task[r] : task[r][k] \in {"ping"} \cup Send}

Begin(r, k) ==
    /\ task[r][k] = "wait" /\ Cardinality(InChannel(r)) < size[r]
    /\ Move(r, k, "ping")
    /\ UNCHANGED <<Maxconcurrency, requestVars, list, size, tmp, historyVars>>

\* ping returns 1 if an answer came within a second, and 0 if none did, the
\* address could not be resolved or the socket not be used.
Ping(r, k, s) ==
    /\ task[r][k] = "ping"
    /\ Move(r, k, s)
    /\ answered' = [answered EXCEPT
                      ![r] = IF s = "1" THEN @ \cup {list[r][k]} ELSE @]
    /\ UNCHANGED <<Maxconcurrency, requestVars, list, size, tmp, tried>>

\* data_c: doping receives the result, and the goroutine leaves async_c (only
\* goroutines of the same call of doping could tell if it left later).
Deliver(r, k) ==
    /\ pc[r] = "doping" /\ task[r][k] \in Send
    /\ tmp' = [tmp EXCEPT ![r] = Append(@,
          [IP |-> list[r][k], Status |-> IF task[r][k] = "1" THEN 1 ELSE 0])]
    /\ Move(r, k, "none")
    /\ UNCHANGED <<Maxconcurrency, requestVars, list, size, historyVars>>

PingAddr(r, k) == Begin(r, k) \/ (\E s \in Send : Ping(r, k, s)) \/ Deliver(r, k)

\* SIGHUP: Loadconfig reads maxconcurrency again.
Reload ==
    /\ Maxconcurrency' \in Concurrency
    /\ UNCHANGED <<requestVars, callVars, historyVars>>

Next ==
    \/ \E r \in Req : Arrive(r) \/ Return(r) \/ \E k \in DOMAIN task[r] : PingAddr(r, k)
    \/ Reload

Spec == Init /\ [][Next]_vars

\* Goroutines that can run do run; a ping ends within a second (MaxRTT).
FairSpec ==
    /\ Spec
    /\ \A r \in Req :
          /\ WF_vars(Return(r))
          /\ WF_vars(\E k \in DOMAIN task[r] : PingAddr(r, k))

-----------------------------------------------------------------------------
(* Properties.                                                             *)

TypeOK ==
    /\ Maxconcurrency \in Concurrency
    /\ pc \in [Req -> {"new", "doping", "done"}]
    /\ ips \in [Req -> Seq(IP)]
    /\ retry \in [Req -> Retries \cup {0}]
    /\ i \in [Req -> Nat]
    /\ error \in [Req -> {"", "err", "500"}]
    /\ \A r \in Req :
          /\ Data[r] \in Seq(PingUnit)
          /\ tmp[r] \in Seq(PingUnit)
          /\ list[r] \in Seq(IP)
          /\ DOMAIN task[r] = DOMAIN list[r]
          /\ DOMAIN ippos[r] \subseteq IP
          /\ \A ip \in DOMAIN ippos[r] : ippos[r][ip] \in DOMAIN Data[r]
    /\ size \in [Req -> Int]
    /\ tried \in [Req -> [IP -> Nat]]
    /\ answered \in [Req -> SUBSET IP]

Complete(r) == pc[r] = "done" /\ error[r] = ""

\* How often x occurs in the sequence s.
Count(s, x) == Cardinality({k \in DOMAIN s : s[k] = x})

\* The answer has exactly one result per element of the requested list,
\* repeated addresses included, although the results arrive in any order and
\* the retries collect theirs into lists of their own.
OneResultEach ==
    \A r \in Req : Complete(r) =>
        \A ip \in IP : Count([p \in DOMAIN Data[r] |-> Data[r][p].IP], ip)
                         = Count(ips[r], ip)

\* A result says 1 only if its address has answered a ping of this request:
\* an answer that came in a retry is never credited to another address.
UpMeansAnswered ==
    \A r \in Req, ip \in IP : Complete(r) =>
        \A p \in DOMAIN Data[r] :
            Data[r][p].IP = ip /\ Data[r][p].Status = 1 => ip \in answered[r]

\* If no address is repeated in the list, no answer gets lost either.
AnsweredMeansUp ==
    \A r \in Req, ip \in IP : Complete(r) /\ Count(ips[r], ip) = 1 /\ ip \in answered[r] =>
        \A p \in DOMAIN Data[r] : Data[r][p].IP = ip => Data[r][p].Status = 1

\* An address the answer calls unreachable has been pinged again retry times
\* (README.md:26); one that answered is not pinged again for itself.
RetriedEnough ==
    \A r \in Req : Complete(r) =>
        \A p \in DOMAIN Data[r] : Data[r][p].Status = 0 =>
            tried[r][Data[r][p].IP] = 1 + IF retry[r] > 0 THEN retry[r] ELSE 0

\* Every request is answered, unless maxconcurrency was 0 when one of its
\* calls of doping made its channel: then nobody ever gets to ping.
Answered == \A r \in Req : pc[r] = "doping" ~> pc[r] = "done" \/ size[r] = 0
=============================================================================
