# Verification of httpagent

httpagent is an HTTP agent that collects SNMP data from devices and pings
lists of addresses. Requests are served by concurrent goroutines that share a
cache of SNMP sessions, a cache of parsed oids, the configuration and the log.
This directory holds TLA+ modules that model its core, TLC configurations that
check them on small instances, and TLAPS proofs for instances of every size.

Paths below are relative to the repository; `pool.go`, `oidpool.go` and
`logger.go` are in `src/httpagent/util`, `snmp.go`, `snmpagent.go`,
`pingagent.go`, `common.go` and `response.go` in `src/httpagent/route`,
`config.go` in `src/config`. `client.go`, `engine.go`, `mprocessing.go`,
`security.go`, `util.go`, `variables.go` and `pdu.go` are those of
`src/github.com/k-sone/snmpgo`; `daemon_unix.go`, `lock_file.go`, `signal.go` and
`command.go` those of `src/github.com/sevlyar/go-daemon`. Both are vendored; the agent's
behaviour under faults is decided in them, so the parts it calls are modelled too.

## The system

| Component | State | Operations | Works with |
|---|---|---|---|
| Session pool (`pool.go`) | map from ip to a row of 5 session slots, mutex, cleaner goroutine | `Get`, `GetCacheSess`, `Save`, `Free`, `Unavailable`, `Kick`, `PoolLen`, `cleaner` | called by SNMP collection; uses snmpgo |
| SNMP collection (`snmpagent.go`, `snmp.go`) | per request: session, slot index shared by goroutines, two channels per repetition, result | `SnmpAgent`, `SnmpCol`, `SnmpGet` | pool, oid cache, configuration |
| SNMP client (snmpgo) | per session: connection, engine with discovery status and boots; per request: request id, try | `NewSNMP`, `Open`, `Close`, `GetRequest`, `GetBulkWalk` | called by SNMP collection and the pool's cleaner |
| Batch ping (`pingagent.go`) | per request: results, positions of unreachable addresses; per call of `doping` two channels | `PingAgent`, `batchping`, `doping`, `PingAddr`, `ping` | fastping, configuration |
| Parameters (`common.go`, `ParameterCheck*`) | none | check and parse form values | configuration defaults |
| Oid cache (`oidpool.go`) | map from text to parsed oid, mutex | `GetParseOids`, `GetParseOid`, `PutParseOid` | called by `SnmpGet` |
| Configuration (`config.go`) | `Cfg` | `Loadconfig`, `GetKey`, `GetValue`, flags in `init` | read by everybody, reloaded on SIGHUP |
| Logger (`logger.go`) | log file handle, mutex | `SetLogfile`, `logmonitor`, writers | called by everybody |
| Daemon and HTTP service (`httpagent.go`, go-daemon) | processes, pid file and its lock, signals | `main`, `httpservice`, `termHandler`, `reloadHandler` | martini, go-daemon |
| Response (`response.go`) | none | `RouteJson` | |

What is hard in it:

* Handlers of different requests and the cleaner share the pool. A slot is
  named by an index that its holder keeps over network operations, while
  `Kick`, `remove` and an overflowing `Save` change what the slot contains.
* The limit is checked in one critical section and used in another.
* `SnmpGet` hands over its result before it kicks its session, and shares the
  variable `cacheflag` with the goroutines of its own and later repetitions.
* A panic in a handler is recovered by martini; a panic in a goroutine of
  `SnmpGet` or in the cleaner ends the process.
* The cleaner holds the mutex while it tests sessions over the network.
* Ping results arrive in any order and are merged by position over retries.
* A reload changes limits under running requests.
* Answers of a device come late, twice, out of order or not at all, and a device
  restarts; rows of a table change while it is walked.
* The oid map is read without the lock under which it is written.
* Rotation of the log has three steps that may fail, beside writers without a lock.
* Daemons are started, stopped and killed at any time, and agree through a pid file.

The list of hazards with their lines and the properties that watch them is in
`PROJECT.json`.

What makes each component correct: in the pool, no client is in two slots,
what is cached has a connection if it can have one, the sweep is not disturbed and expired sessions leave;
in SNMP collection, a session is used by one goroutine at a time, belongs to the
address asked for, answers are complete or carry an error, every request is
answered, and the pool stays bounded; in batch ping, every element gets one
result, with the right status, after the right number of retries; in the SNMP
client, a reading is one of the variable asked for and not older than the question, a
walk has all rows and no others, and both come to an end; in the oid cache, no
concurrent access to the map; in the configuration, the precedence of flags, file and
request; in the logger, that logging resumes after a rotation; in the daemon, that one
runs and that the pid file names it.

## Modules

### SessionPool

The pool as seen by its callers. `Sessions` is the map with its rows (`keys` the
ips that are in it), `conn` says which snmpgo clients have a connection, `mLock`
whether the cleaner holds the mutex, `todo` and `probe` how far its sweep is, and
`up` is false once a goroutine has panicked. Each method is one action because it
runs under the mutex; only the cleaner keeps the mutex over several steps
(`CleanerLock`, `CleanerExpire`, `CleanerSkip`, `CleanerProbe`, `CleanerProbed`,
`CleanerUnlock`). `Kick` on a nil slot kills the process, as in the code. `Save`
into a full row replaces it. Time is a tick that ages all sessions up to
`Maxlifetime + 1`, which stands for expired.

`PoolSpec` lets any caller call any method with any index at any time. It is the
abstract specification that SNMP collection is shown to implement. Three
definitions say what the pool needs of snmpgo: `NewSNMP`, `Open` and `Crash`, an
operation on a client without a connection. There are two ways to come by such a client.
Somebody else has closed it, and the operation reads a nil connection. Or it was made with
a negative number of retries (`Mute`): the loop of `Open` (client.go:133) then does not
run, `Open` returns without an error and without a connection, and `Get` caches the client
all the same (pool.go:60). A request on it has a nil pdu, which its caller reads; in
version 3 `Open` and `Discover` call each other without end. The cleaner's test of such a
session does not succeed, and it is removed.

### SnmpCol

Handlers and goroutines on top of the pool. `Req` is the set of requests that are
served at the same time; each element serves one request after another. A handler
goes through `CheckLimit`, `Lookup`, `Create`, `SaveNew` (these four are
`SessionPool.Get`), then for every repetition `Spawn` and one `Deliver` per
segment, then `FreeHeld`. A goroutine of `SnmpGet` goes through `Begin` (its turn
in `async_c`, parsing, opening the connection), `Return` or `Interrupted`,
`Deliver` (the unbuffered channel `data_c`), and after an error `ReadFlag` and
`KickHeld`. The index for the deferred `Free` is `slotc`, fixed at the `defer`
statement; `cacheflag` is the variable the goroutines share.

A segment without `:oids` passes `ParameterCheck` and panics in `SnmpCol`
(`Spawn` with `bad`). `Negative` are the SNMP arguments with a negative number of retries;
`Create` makes a client in `Mute` for them, `SaveNew` saves it without a connection or dies
of it in version 3, and `Begin` dies of it unless the oids do not parse. Names of clients that nothing refers to are used again for
new clients, so requests go on for ever in a finite model.

`tainted` is a history variable. It records the addresses on which a disturbance
has happened since they were last at rest: an SNMP operation on a cached session
failed, a full row was replaced, a busy session expired, or a handler panicked
with goroutines running. What the code guarantees without a disturbance and what
it loses with one are different properties below.

### PingAgent

`Arrive` and `Return` are `batchping`: the first call of `doping`, then one call
per retry on the addresses that `unreachableip` finds, merged by position
(`Merged`). `Begin`, `Ping` and `Deliver` are the goroutines `PingAddr`; `size` is
the capacity of the channel of the running call, fixed when it was made. A
negative capacity panics and is answered with 500. The text of the lag is left
out. That a goroutine leaves `async_c` is part of `Deliver`: only goroutines of
the same call can see the difference, and for them it is a delay.

### SnmpService and SnmpClient

`SnmpService` is what the agent relies on when it asks a device: a question ends with
an error or with a reading of the variable asked for, made between the question and the
reply. `clock` is the device's time, which tells readings apart.

`SnmpClient` is one session of snmpgo from `NewSNMP` to `Close`. `Connect` is `Open` on
a new client with the first request, `Get` a request on an open one; `cur` is the pdu
that `sendPdu` is sending (`"engineId"` and `"sync"` are the two of `Discover`), `i` its
retry counter. `Timeout`, `IOError` and `Read` are the three ways a try ends; `Read`
makes the checks of `PrepareDataElements` and `checkPdu` in their order and returns,
fails or goes to the next try. `Fail` closes the session as `SnmpGet` does through
`Kick`, unless `cached` is false: then `Kick` does not find it (an IPv6 literal, or a
client that the pool did not take) and the session is used again. `Getretry`, `uint` and
`int` carry the parameter `retry` to the loop, with the width of the integers.

The network is a set of packets: it loses, delays, reorders and duplicates them. The
device reads, reports, changes and restarts, with its count of boots kept or lost. These
are external. A new request id differs from those still under way, which 31 random bits
make certain enough; a message id is named by its request and try. `late` and `known`
are history variables of the properties, and so is the field `lost` of the device.

`ReadingIsOwn` is the refinement: `SnmpClient` implements `SnmpService`, every failure
mapped to `"error"`.

### BulkWalk

`GetBulkWalk` as `SnmpGet` calls it, with no non-repeaters and one repetition. `cols` is
the pair of lists `oids` and `reqOids`, as a function: from the subtrees that are still
walked to the oid the next request asks for. The lists are sorted and have no equal
elements, so the order is that of the oids. `Round` is one request with its response and
the processing of it, `GiveUp` a failure or an error status. `Less` is `Compare`, number
by number. `Sort` is the set of arrangements that `sort.Sort` may leave, `UniqBase` what
the loop of `uniq` keeps of one of them: an oid is dropped if it is below the one kept
last (`Dropped`). Sorting varbinds with equal oids is not stable, so `Uniq` leaves open
which of them stays. An honest device answers with the next row of each column, or of the
first columns if the others do not fit; another device answers with any varbinds, as many
as there are columns or fewer.

### Daemon

Processes that are started with `-daemon`, and the command `httpagent -s`. A file is an
inode, so that a pid file that was removed while somebody has it open is different from
the one that has the name now. Parent and child are one process: the lock goes with the
inherited descriptor and the parent does nothing more. `Unlock`, `GetFdName` and
`Unlink` are the three steps of `Remove`. A signal to a process that is not in
`ServeSignals` kills it; a pid is used again when its process is gone. `quit` and
`stop` have the same handler and are one signal here. `raced` is a history variable: the
processes under which another one has removed the pid file.

### OidPool, Logger and Process

`OidPool` splits the read of the map in `GetParseOid` and the write in `PutParseOid`
into a begin and an end. When they overlap, Go may notice and end the process (`Clash`),
or the read sees the entry, does not see it or sees a key without its value (`HalfHit`).
`Logger` has the writers and the goroutine `logmonitor` with a step for each call that
may fail; a handle that is closed or nil swallows what is written to it. `Process`
composes the two with the configuration: goroutines of `SnmpGet` log while the file is
rotated and reloads change `logarchsize`, and a fatal error in one ends all.

### MC modules and proof modules

`MCSnmpCol` and `MCPingAgent` define the sets of requests and the symmetries of the
instances, `MCSnmpClient` the values of `retry` and `MCBulkWalk` the oids; Daemon and
Process need no definitions for their runs. The theorems are in `SessionPoolProofs`,
`SnmpColProofs` (who holds which client, the refinement, the bound on rows),
`SnmpGetProofs` (the goroutines on top of that), `SnmpClientProofs`, `BulkWalkProofs`,
`PingAgentProofs`, `DaemonProofs` and `ProcessProofs` (oid cache and logger in one
process). Definitions called "faulty variant" in the modules are seeded faults:
each replaces the definition that follows it to confirm that a property notices.
They are used by no specification.

## Runs

All runs use breadth-first search of the whole state space of the instance.
Deadlock is not checked where the system may stop: a process that has died, a walk that
has returned, daemons that nobody starts again. Requests for pings share only the
configuration, so one at a time is enough for their properties.

| Run | Instance | Shows |
|---|---|---|
| SnmpCol | 2 requests at a time, 1 address, 2 slots, 2 clients and 1 with negative retries | `TypeOK`, `SerialUnlessDisturbed`, `DeathNeedsDisturbance`, SnmpCol implements `PoolSpec`, and of the pool in use `OneSlotPerSession`, `CachedOpen`, `SweepUndisturbed` |
| Loops | 2 requests, up to 2 segments, 2 repetitions, a malformed segment | `SerialUnlessDisturbed`, `CleanAnswerIsComplete`, `NoneStranded` |
| Limit | 2 requests, 3 addresses, limit 0 or 1, reloads | `KeyBound` |
| Hosts | 2 requests, an IPv4 and an IPv6 address, limit 1 or 2, reloads | `OwnHost` |
| Fair | 2 requests, 1 address, 1 slot | `Answered`, `Drained` |
| PingAgent | 1 request after another, 2 addresses, one repeated, up to 2 retries, capacity -1, 0, 1 or 2 with reloads | `TypeOK`, `OneResultEach`, `UpMeansAnswered`, `AnsweredMeansUp`, `RetriedEnough`, `Answered` |
| SnmpClient | 1 session after another, versions 2c and 3 with and without authentication, retry absent, -1, 0 or 1, 2 packets under way, 2 restarts, integers of 4 bits | `TypeOK`, `ReadingIsOwn`, `StaleNeedsLateAnswer`, `RestartCost`, `Returns` |
| BulkWalk | every list of 1 or 2 oids out of 6, every set of rows, 2 changes, honest and other devices | `TypeOK`, `WalkComplete`, `WalkSound`, `RoundFindsRows`, `WalkEnds` |
| Daemon | 3 process ids, 4 starts, one command at a time, crashes anywhere | `TypeOK`, `OneDaemonUnlessRaced`, `ReachableUnlessRaced`, `StopEnds` |
| Process | 2 goroutines, lists of up to 2 texts, one good and one bad, file of up to 2 lines, logarchsize 0 or 2 | `TypeOK`, `ParsedRight`, `WarmStaysSafe`, `RestingOpen`, `Archived` |

Why the bounds are enough: the interesting cases need two holders of one slot, so
two requests at a time, and each serves further requests; a third owner of a slot
appears that way. Two slots make "first idle" and "first nil" differ, one slot
makes every second session overflow. In run SnmpCol one client
with negative retries is enough to be made, saved, left behind by a request whose oids do
not parse, and taken by the next one; it fills a slot beside two others. Names of clients
are few there and in Hosts, so that `Create` waits in the states in which all of a kind
are in use elsewhere. A lifetime of
0 makes a session expire at the next tick after its last use. Two repetitions let
a goroutine that is still kicking run beside one of the next repetition. In Limit
the number of rows reaches 2 with a limit of 1, which is the proved bound.

In SnmpClient one retry gives every request two tries; two packets are an answer that is
late and the one that is waited for; the device starts with 2 boots, so that it may come
back with more, as many or fewer; the reading of an earlier question is told from
that of this one by `clock`, so one variable is enough; two restarts exceed one retry.
Three request ids are one more than the packets under way. In BulkWalk the six oids
are two tables with two rows each and every part of them, so that oids asked for may
contain each other, be rows or be equal; with two changes a row may go and come back.
In Daemon three processes are one that stops, one that starts under it and one that
finds no file; the fourth start uses a pid again. In Process two goroutines are a reader
and a writer; a file of 0, 1 or 2 lines is below, at and above both sizes. One good text
does not tell the order of the oids apart, which `ParsedRight` also speaks of; that
part rests on the proof (two good texts make the check of `Archived` too long).

What some of the properties say and do not say:

* `CachedOpen` does not say that `Get` returns usable sessions only: clients with a
  negative number of retries are cached without a connection. `DeathNeedsDisturbance`
  allows the deaths they cause and no others; that a request with valid parameters may die
  of one that an earlier request left is among the remarks below.
* `StaleNeedsLateAnswer` and `RestartCost` bound the damage of a late answer and of a
  restart. A restart that counts its boots costs no request that may be retried. One that
  loses their count does: the report has boots below those the client knows, is taken for
  an old one and fails the request at once, whatever its retries (security.go:265). In version 3 an answer to the first try that arrives during the
  second fails the request, because the message id is that of the second.
* `WalkEnds` rests on the finite set of names: after a round every column that is still
  open has a row nobody had found before (the
  theorem `EveryRoundFindsRows`). A device that invents new oids for ever keeps a walk going for ever.
* `ReachableUnlessRaced` and `OneDaemonUnlessRaced` hold for processes whose file
  nobody else removed. `Remove` gives up the lock before it unlinks, so a daemon that
  starts in between is not reached by `-s` and a second one may start beside it; it then
  ends, because the port is taken.
* `RestingOpen` says that one failing step of a rotation ends logging for good.

### Where the code differs from what it says

Two runs each check one statement of a comment or of a message, and TLC finds a
counterexample.

| Run | Statement | Counterexample |
|---|---|---|
| RefusalMeansFull | pool.go:13: refused because the connections have reached the maximum | the only session has expired, its empty row still counts |
| SerialUse | snmp.go:62: requests on one session do not run in parallel | r1 fails and kicks its session; r2 saves one into the same slot; r1's deferred `Free` makes it idle; a third request gets it |

More was met while reading and modelling and has no run of its own:

* `Kick` may close the session of another request (against snmp.go:122) if the session
  expires between the read of `*cflag` and `Kick` and the slot is filled again.
* A request that hits the cache is sent with the timeout, retries and credentials of the
  request that made the session (README.md:79, 80: timeout and retry per request).
* Every call of `doping` makes a channel of its own, so requests ping
  `maxconcurrency` addresses each (README.md:89: greatest number of concurrent pings).
* The number of sessions is not limited by `maxsesspool` (README.md:81) because
  `PoolLen` counts addresses and is read before `Save`; run Limit shows the part that
  holds, the bound on rows.
* A request with a negative number of retries whose oids do not parse, or with `count` 0,
  leaves a client without a connection in the cache (pool.go:60). The next request to the
  address, with whatever retries, takes it and ends the process.
* The cleaner may test a session in use (against pool.go:182) once a stale `Free` has
  marked it idle as in SerialUse.
* A walk over several oids takes an answer that was cut short for the end of the
  columns that are missing in it (client.go:236); rows are then missing without an error.
* The logger that httpagent.go:63 gives to martini keeps the handle of the start, so
  access lines are lost after the first rotation.
* A reload replaces values that were given by command-line flags with those of the file
  (config.go:36-105), except for those the file does not mention; `debug` is reset even
  then.
* `quit - graceful shutdown` (config.go:121) is handled by the same function as `stop`.

### Fairness

`FairSpec` of SnmpCol
assumes that goroutines that can run do run and that an SNMP operation ends, which
snmpgo's deadlines and bounded retries give; a handler or goroutine that waits for
the mutex or its turn gets it although others take it in between (strong
fairness), which Go's mutex and the ten seconds between two sweeps justify.
Requests need not arrive. `FairSpec` of PingAgent needs weak fairness only: `ping`
ends after `MaxRTT`, one second. That of SnmpClient assumes only that a read meets its
deadline, which `SetDeadline` (engine.go:32) ensures: nothing is assumed of the network
or the device. That of BulkWalk assumes that a request returns, which is `Returns` of
SnmpClient. That of Daemon assumes that a process handles a stop that is in its channel
and carries out the steps of `Remove`; nobody needs to start a process, send a signal or
deliver a reload. That of Process assumes that the timer of `logmonitor` fires and its
goroutine runs.

## Proofs

Every invariant, every action property and both refinements that the passing runs check
are also proved, for all values of the constants that the assumptions allow. Each proof
module has its inductive invariant at the top, one lemma per action or kind of action,
and the theorems at the end.

**SessionPoolProofs** proves `PoolSpec => []PoolInv`, where `PoolInv` is the conjunction
of the four invariants of the pool, for any set `Mute` of clients that `Open` leaves
without a connection. They are inductive only together: that what is cached
keeps its connection when another session is evicted needs that the two slots hold different
clients; that the cleaner finds a session where it evicts needs that nobody emptied the
slot during the sweep. The actions fall into three kinds: marking (`Marked`), evicting and
saving, with one lemma for each kind.

**SnmpColProofs** proves `Spec => []ColInv`. `ColInv` adds `Ownership` to the types and to
`PoolInv`: whoever holds a client holds one to the address of its request; a client that
has been made and not yet saved is known to its maker alone; a row holds clients to its
own address. Freshness is what refinement needs, because `PoolSpec` lets a caller save
only a client that no slot holds. From it follow

* `RefinesPool`: `Spec => PoolSpec`, requests with negative retries included, so all that is
  proved of the pool holds in the agent;
* `TypeCorrect` and `OwnHostHolds`;
* `KeyBoundHolds`, with the strengthening `RowsInv`: rows plus requests between the second
  limit check and `Save` are at most `MaxLimit + Cardinality(Req) - 1`.

**SnmpGetProofs** builds on `ColInv` with two more invariants.

* `AnswerInv` counts: while a handler receives, the results its goroutines still owe and
  those it has received are as many as the segments, and what it has collected is that of
  the repetitions before and of the results received. `CleanAnswersAreComplete` and
  `NobodyIsStranded` follow: when the last result is in, nobody owes one.
* `UseInv` says what an index means on an address at rest, that is one that is not in
  `tainted`. The slot of a handler contains its own session, busy (`Mine`); no two
  handlers have the same slot (`Apart`); a client that was not cached is known to one
  request (`Private`); the goroutines of a repetition take turns (`Turns`); a goroutine
  nobody receives from, or one that kicks, means that the address was disturbed (`Orphans`,
  `Kicks`); the cleaner tests idle sessions (`Probing`). Each of these is needed for the
  next: `Save` finds a free slot and not one in use only because of `Mine`, `Free` idles
  nobody else's session only because of `Apart`, and the deferred `Free` of a request
  comes after the last turn only because of the counts of `AnswerInv`. A process dies in a
  step of a goroutine only if its client has no connection, which on an address at rest
  means that it is in `Mute`. `UseIsSerial` and
  `AliveUnlessDisturbed` are its consequences. What happens after a disturbance is run
  SerialUse.

**SnmpClientProofs** proves `ClientInv`, which follows the packets. `Answers`: a packet with
the request id in use was sent for the pdu in use, and its answer was made since the
question; this gives `ImplementsService`, the refinement of `SnmpService`. `Punctual`: as
long as no try was given up or duplicated, one packet is under way, of the try under way;
this gives `StaleOnlyAfterLate`. `Synchronous`: until then the client knows the device's
boots unless the device restarted once per try; `Orderly`: unless the device lost their
count since, it has no fewer boots than the client knows, and neither has an answer under
way. Both together give `RestartsCostNoMore`. `Phase` keeps the retries of an open client
from being negative; the conversions of `retry` are shown to stay within the width of the
integers, with two lemmas on powers of two.

**BulkWalkProofs** proves `WalkInv`. Of the order of oids it needs that it is total and that a
subtree is convex (`Convex`): what lies between two oids of a subtree is in it. That
`UniqBase` leaves disjoint subtrees rests on this, and that the loop keeps something at all
(`KeptExists`) is shown for the least list position at which it could fail. `Owed` says
that a row that is missing is ahead of a column. "Ahead" has a second half that the first
attempt lacked: no row found in the subtree lies beyond the column's last request. Without
it a column that another column ran past could find its row known already and stop
(client.go:235) with rows still ahead. `WalkIsComplete` and `WalkIsSound` follow, and
`EveryRoundFindsRows`, the action property `RoundFindsRows`, from the steps.

**PingAgentProofs** proves `PingInv`. The results of a call of `doping` and its goroutines
that have returned are matched one to one (`Paired`, a bijection, because counting alone
does not say which address a result is for). The call returns when there are as many
results as elements, so all have returned; the retries write by position and change no
address, so the matching with the list of the request stays. `OneResultForEach`,
`UpIsDeserved`, `AnswerIsReported` and `UnreachableWasRetried` follow.

**DaemonProofs** proves `DaemonInv`: a process between `Lock` and `Unlock` holds the lock of
the file it has open and nobody else does (`Locked`), a process that was not raced has the
file open that has the name (`Named`), and a daemon's file contains its pid (`Written`).
Two daemons that were not raced would hold one lock, hence `AtMostOneDaemon`;
`ServingIsReachable` is `Named` and `Written`.

**ProcessProofs** proves `OidInv` and `LogInv`, which are about different variables, so the
steps of the one leave the other alone. `OidInv`: the map contains accepted texts only, and
the oids a call has collected are those of its texts so far unless a read of it was torn.
`LogInv`: between `Close` and `SetLogfile` the handle is closed and nothing has failed.
`UndisturbedCallIsRight`, `WarmCacheIsSafe` and `LogOpenUnlessFailed` follow.

Assumptions are those on the constants, evaluated by TLC in every run. `Nil` and `None`
differ from everything else. SnmpCol: finite sets of addresses, clients and requests, at
least one slot and one request, and `MaxLimit`, which bounds the limits a configuration may
hold, at least 1. SnmpClient: integers of at least one bit, and more request ids than
packets under way, which stands for the 31 random bits of an id. BulkWalk: a finite set of
oids. PingAgent: lists are not empty (the handler refuses an empty one). Daemon: more
inodes than processes. Process: an oid text is accepted or refused, not both. The bounds
of the instances (packets, changes, starts, sizes) are constants in the proofs and may have
any value.

Only model-checked are the liveness properties, because the prover has no rules for
fairness and `ENABLED`: `Answered` and `Drained` of SnmpCol, `Answered` of PingAgent,
`Returns`, `WalkEnds`, `StopEnds` and `Archived`. Of `WalkEnds` the safety half is proved:
rounds that do not end the walk find new rows, of which there are finitely many. The two runs that end in a counterexample
have nothing to prove.

## Not modelled

Of the agent: the text of answers, logs and errors; the regrouping of values for
`count > 1`; the parsing of parameters other than `retry` and of the YAML file (its
outcomes are nondeterministic); the pause between repetitions; file descriptors of
clients nobody closes; the foreground mode, which has no pid file; `RouteJson`, which
only formats. `Kick`, the assignment to `*cflag` and the leaving of `async_c` after it
(snmp.go:123, 124) are one step.

Of snmpgo: BER encoding and decoding, authentication, encryption, the engine time
within one boot (a restart that comes back with the boots it had counts as one with fewer
if the time window notices), the wrap-around of the retry counter at the greatest integer, walks with non-repeaters or more than one
repetition, and the trap and server side, which the agent does not use.

Of go-daemon: the channel of eight signals, which drops those that find it full
(signal.go:32; `StopEnds` is about a signal that was delivered), and the steps within
`WritePid` (lock_file.go:77-87).

Of the rest of the vendored code: martini, yaml, fastping, osext and golang.org/x. They
are by far the largest part of the repository by lines; http2, html, idna, publicsuffix
and webdav among them are not reachable from `main` at all, and tables, scanners and
parsers keep no state that the properties of the agent depend on. What the agent needs of
the ones it calls (a panic in a handler is recovered, a listening port that is taken ends
the process, a ping ends within a second) is stated where it is used.

## Plan

1. SessionPool, SnmpCol, PingAgent with their runs; proofs of the pool, of the
   refinement and of the bounds (done).
2. OidPool, Logger and Process; Daemon; SnmpService, SnmpClient and BulkWalk with the
   conversions of `retry` and the sessions that `Kick` misses (done).
3. Proofs for SNMP collection and batch ping: `SerialUnlessDisturbed`,
   `DeathNeedsDisturbance`, `NoneStranded`, `CleanAnswerIsComplete`, all of PingAgent
   (done).
4. Proofs of SnmpClient with its refinement, BulkWalk, Daemon, OidPool and Logger (done).
   Left is to prove more action properties, such as what a step of one request may do to
   the slots of another, and the safety halves of the other liveness properties.
5. Params and Config: `ParameterCheck`, `Gettimeout`, `GetparaStrtoInt`, `GetKey`,
   `GetValue`, the precedence of flags and the grouping of snmpagent.go:99-115 as pure
   operators against reference definitions.
