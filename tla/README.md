# Verification of the ClawNexus daemon

TLA+ models of the ClawNexus daemon (`src/packages/daemon/src`), the TLC runs that check
them on small instances, and proofs, checked by TLAPS, of the invariants that matter most.
Paths below are relative to `src/packages/daemon/src` unless they start with `docs/` or
`test/` (`src/packages/daemon/test`).

## 1. The system

ClawNexus is a daemon that discovers AI agents on a network, keeps them in a registry,
and lets agents propose tasks to each other through an encrypted relay ("Layer B"). It is
one Node.js process, one event loop: callbacks (timers, socket events, HTTP routes, relay
messages, file operations) never run in parallel, but they interleave wherever a handler
awaits. What persists is three JSON files written by a debounced write-then-rename.

| component | state | operations | talks to |
|---|---|---|---|
| task table `agent/tasks.ts` | map of task records, dirty flag, flush timer, timeout checker | create, updateState, handleResponse, cancelTask, timeout tick, archive, init, close | emits stateChange to the executor; called by router, API, executor |
| executor `agent/executor.ts` | queue, executing map (slots, timers), draining flag, gwState, gwConn, reconnect timer | enqueue, drainQueue, executeTask, final, error, timeout, close | gateway over WebSocket; reports through the router |
| gateway client `agent/gateway.ts` | one pending promise per handshake | connectGateway | the OpenClaw Gateway |
| router `agent/router.ts` | inbox, current connector | propose, handleData, accept/deny, sendReport, setConnector | relay connector, policy engine, task table |
| policy engine `agent/engine.ts` | policy file, rate windows | evaluate, incrementRate, saveConfig | reads the task table |
| skills registry `agent/services.ts` | list of skills, refresh timer | start, refresh, getCapabilities | gateway |
| relay connector `relay/connector.ts` | socket, state, rooms with session keys, lastJoinTarget, reconnect timer | connect, join, sendData, handleMessage, cleanup | relay server |
| A2A handler `a2a/handler.ts`, `a2a/store.ts` | gateway connection, active task count, sessions, stored tasks | tasks/send, get, connect, reconnect, put, close | gateway |
| registry store `registry/store.ts` | map address:port -> instance, dirty flag, flush timer | upsert, merge, setAlias, remove, resolve, init, close | written by every discovery component |
| discovery: `mdns/`, `discovery/`, `scanner/`, `local/`, `adapter/`, `registry/discovery.ts` | seen keys, scanning flag and queue, probe timer | probe, identify and upsert | registry store |
| health checker `health/checker.ts`, card fetcher `a2a/fetcher.ts` | timers, pending keys | check/fetch, await, upsert | registry store, by reference |
| identity and registration `crypto/keys.ts`, `registry/client.ts`, `registry/auto-register.ts` | key files, registered name, heartbeat timer | loadOrCreateKeys, tryRegister | public registry |
| API server `api/server.ts` | all of the above, relay start and token refresh | HTTP routes, shutdown | everything |
| CLI `cli/index.ts` | PID file | start, stop: SIGTERM makes the daemon `process.exit` | the API |

What makes each correct, and what is hard:

* task table: terminal is final; every task ends. Six callers drive one record.
* executor: the slot limit, one chat and one report per task, a report that agrees with the
  record, no task forgotten, no lost wake-up, close. Hard: the handshake is awaited in the
  middle of the drain, and five callbacks can end a task.
* stores: a crash leaves an older whole version; every change is saved. Hard: the map
  changes during a flush; two flushes may overlap; `process.exit` at any point.
* restart: what is loaded is the past of the same tasks; nothing is redone without bound.
* registry: one record per address, names and aliases unique, user fields survive. Hard:
  every writer awaits the network between reading and writing.
* discovery: what the registry shows follows what runs. Hard: six writers with their own
  idea of what proves that something runs, requests that end late, and requests that start
  requests.
* policy: the rate limit, and a policy that survives. Hard: window boundaries, overlapping
  requests, a crash while the file is written.
* router: both ends of a proposal agree as far as messages get through. Hard: lost and late
  messages, restarts of either end.
* relay connector: one socket, one registration, reconnection. Hard: events of former
  sockets, and the token refresh that runs two connectors side by side.
* A2A handler: a bounded number of tasks, each answered. Hard: one connection shared by all,
  its reconnect timer.
* process and registration: one daemon per machine, one identity, names of its own. Hard: the pid
  file is looked at and written by several processes, keys are two files, registrations
  overlap and their answers get lost.

`PROJECT.json` lists the hazards line by line, with the properties that cover each.

## 2. The modules

### TaskLifecycle: what the task table promises

`state[t]` is the state of t's record. Actions: `Create`, and `UpdateStates` for one or
several `updateState` calls in one callback, each guarded by `TRANSITIONS` as in the code (an
invalid one has no effect). A terminal record leaves the in-memory map in the same
synchronous call, so `InMap` is "active". This is the abstract specification:
`TaskExecutor` implements it (`LifecycleSpec`).

### TaskExecutor: the executor and its gateway

| variable | code |
|---|---|
| `queue`, `executing`, `closed` | the fields of the same name |
| `drainPc` | `draining`, cut at its one suspension: `"loop"` a turn of the while loop is due, `"await"` suspended in `ensureConnection` |
| `drainTask`, `drainOn` | the record `executeTask` captured, and the handshake it waits for (`NoConn`: the `gw:ready`/`gw:error` events of one under way) |
| `gwState`, `gwConn`, `reconnect` | `gwState`, `gwConn`, `reconnectTimer` |
| `sock` | each socket: handshake, open, closing (close handshake begun, `close` event not delivered) |
| `chats`, `reports` | what went to the gateway and to the proposer |

One action per callback: `AcceptInbound` (router), `ProposeOutbound`, `PeerResponse`,
`CancelTask`, `TimeoutCheck` (task table), `ConnectOk`, `ConnectFail`, `ConnectDropped`,
`SocketClosing`, `SocketClosed`, `GwFinal`, `GwError` (gateway), `ReconnectFires`,
`ExecTimeout`, `Close`. Callbacks are enabled when no microtask is pending (`Quiet`);
`DrainLoop` is one turn of the loop. The continuation of a handshake runs in the same step
as the handshake's end, since nothing but microtasks comes between.

Abstracted: payloads, session keys (one per task), heartbeats, the time of the timers (a
timer may fire at any moment after it is armed). Assumed: peers answer only proposals made
to them (a peer's accept or report names an outbound task), and every inbound record has a
room and a proposer, as `acceptProposal` gives it.

### TaskRestart: the executor over successive processes

`TaskExecutor` with `disk` (active.json), `history` and `restarts`: `Archive` (the history
line, which may never be written), `Save` (the flush, one step: see below), `Restart` (the
process ends anywhere; `init` and `start` of the next one).

### DebouncedStore: the persistence of the three stores

The map is a version number; files are inodes with names, so that a rename over a file
another flush still has open behaves as on a POSIX file system. `flushNow` is four steps
(serialise, open, write, rename), the timer's flush and `close()`'s flush may overlap, the
process may end between any two, and a flush may fail. `awaits` tells A2ATaskStore, whose
`close()` waits for the timer's flush, from the two others. `ReplacedByNewer` is what lets
`TaskRestart` treat a save as one step.

### Registry: the map of instances and its writers

| variable | code |
|---|---|
| `instances` | the map of `RegistryStore`, from address:port to an object |
| `heap` | the fields of the objects; an unreachable one is `Blank` and its identity free |
| `checking` | the objects held by `checkOne` calls that await the network |
| `seen` | `MdnsListener.seen` |
| `probing`, `noted` | a `probe()` under way and its `previousSelfKeys` |

Objects have an identity because `getAll()` hands out the map's own, and `checkOne` changes
and upserts, after its await, the one it was given. The other writers build a new object in
the callback that upserts it. `Upsert` is the whole of `upsert`: `Update` of a known key,
`Merge` with the same machine found on another interface, or `Insert` with an automatic
name. Abstracted: a key is a place, and a place has one port; normalised names are a base
and a suffix; labels, cards, connectivity and timestamps are left out. `Scanned` is what
the scans and their explicit targets reach. What the registry shows of what runs, and
the card fetcher, is Discovery's subject; merging and names are this module's.

### Delegation, AgentRouter: two daemons that delegate tasks

`Delegation` is what the two ends promise each other about a task: `view[t]`, the proposer's
record, only ever moves to something the executor decided or did (`fate[t]`), to `cancelled`
or `timeout` by the proposer's own hand, or back along its own life by a restart. The
executor decides once, and ends only what it accepted. `AgentRouter` implements it:
`Delegated == INSTANCE Delegation WITH view <- rec, fate <- fate`, checked as the property
`Delegates`.

| variable | code |
|---|---|
| `rec`, `job` | the task's record in the proposer's and in the executor's table (`TaskLifecycle` instantiated twice) |
| `inbox`, `running` | the router's inbox; tasks the executor has sent to its gateway |
| `known`, `chan` | each end's view of a room, and the messages in it on their way to an end |
| `skewed` | ends whose clock makes every message look expired |
| `answers`, `fate` | history |

One action per callback of either end: `Receive` is `handleData` (propose with any verdict of
the policy, accept, reject, reports; malformed and expired messages are dropped), then the
routes `Propose`, `ApproveInbox`, `DenyInbox`, `CancelTask`, the timeout checker, and the
executor reduced to what TaskExecutor shows of it. `LoseRooms` is a closed socket, a peer that
left or a replaced connector: what was on its way to that end is lost and of what it had sent
a prefix arrives. `Restart` loads each record as any earlier state of its life, which is what
TaskRestart and DebouncedStore allow. A room delivers in order: it is one WebSocket to the
relay and one from it.

### PolicyEngine

`Evaluate` is `evaluate()` with its rate limiter in the code's order; `Tick` is time, counted
down in each counter, so that it is unbounded; `recent` is the history of what passed in the last minute,
each proposal with the counts it brought its two counters to. A policy request is `ChangePolicy` (the policy
is in force at once) followed by `OpenTmp`, `WriteTmp` and `Rename`, between which another
request or a `Restart` may come; `fd` follows the inode another rename may have moved.

### RelayConnector

Connectors are numbered as the daemon makes them: the first, and one more for each token
refresh. `conn[c]` is the object (`state`, `closed`, `ws`, `rooms`, `target` for
`lastJoinTarget`, `timer`), `sock[s]` a WebSocket and its owner, `inq`/`outq` what it carries,
`at` and `hub` the relay's registration and rooms. Actions: socket events (`Open`, `Close`,
`ConnectFails`, `Drop`, `FrameError`), `Receive` for `handleMessage`, `Reconnect`, the daemon's
`NewConnector`, `AskJoin`/`JoinAsked` (the route awaits a token in between), `DisconnectRoom`, the
relay and the peers. The relay (a program of its own) is modelled from how the code uses it: it
registers the last socket that asks, ends the former one, and answers every request.
Package ws may wait 30 s with the close event of a socket that has reported an error, the
reconnect timer 3 s (`relay/connector.ts:7`): the event may come when there is a new socket, and cleans up
that one's state (disagreement 13). `hit` is the history of the connectors it has happened to; OneSocket and
Recovers name them as their exception, RoomsDieWithSocket and StaysClosed have none.

### Gateway, A2AHandler

`Gateway` is one attempt of `connectGateway`, with its phases; `A2AHandler` composes it with the
requests that share a connection. `Connected`, `ConnectFailed` and `Closed` settle promises, so the
requests that await them go on in the same step. `retries` counts the timers of
`scheduleReconnect`, which only forget the attempt under way (`ForgetAttempt`).

### Discovery

A kind of server is the set of things it answers, what it declares, whether it runs here and
how it is reached. The operators of the second part (`IsOpenClaw` ... `HealthOk`) are the probes
and health checks of each adapter, of the fingerprint and of the checker as functions of that
set. `entry` is the registry's entry of each host, `held`/`live` the object a health check holds
and whether it is still the map's (as in Registry), `pending`/`fetches` the card fetcher,
`scanning`/`todo`/`reply` a scan under way. `UpsertNew` is an upsert of a new object and the
card fetcher's reaction to it. MCDiscovery enumerates 18 kinds, all that the code tells apart
in some branch, and asserts which of them flap (`FlappingKinds`): kinds that some discovery
finds and whose health check then says offline.

Abstracted: one entry per host (merging is Registry's), ports (everything listens on a scanned
one), the text of identities, labels and display names. `checkOne` has a branch for relay
instances that asks a `relayChecker`; nothing in the product ever sets one, so the branch is
dead and left out.

### Daemon

`stage[p]` is how far a process is between the fork and `app.listen`, `mine[p]` its keys in memory;
`pidFile`, `priv`, `pub` the files; `owner` the public registry. The parent's `Start`, the child's
`ChildChecks` and `WritePid`, `Stop`, `Terminate` (the signal handler) and `Crash`; `LookForKeys` to
`WritePub` for `loadOrCreateKeys`, file operation by file operation; then, in the process that
listens, `Probe`, `InitialTimer` and `Heartbeat` start calls of `tryRegister`, which overlap
(`attempt`) and are answered by `Registered`, `Taken` (409), `Refused` (other 4xx) or `NoReply` (the
request may have been handled all the same); `Token` and `Refresh` are the relay's start and the
token refresh of `startDaemon`. The attempts of one call are left open in number (`MAX_RETRIES`).

Assumed: a registration is only started by a process that listens (the timers take seconds, a
refused port ends the process at once). Records of the registry expire (`registry/client.ts:33`): any name
may lapse, the one in use too, which nothing renews while no agent id is known
(`registry/auto-register.ts:71`). `lapses` counts that since the process began to listen; `lapsed` is the
daemon's own names that have, each until an answer gives it back.

## 3. The runs

| run | question | bounds | result |
|---|---|---|---|
| TaskExecutorSafety | can any interleaving break the executor? | 3 inbound tasks, 2 slots, 2 sockets | holds |
| TaskExecutorLiveness | does every task end, does the queue move, is the task table obeyed? | 2 inbound tasks, 1 outbound, 1 slot, 2 sockets | holds |
| DebouncedStore | is the file always an older whole version, is every change saved? | 3 changes, 2 flushes, 3 inodes | holds |
| TaskRestart | what can a crash redo? | 2 tasks, 1 slot, 1 socket, 1 restart | holds |
| Registry | do keys, names and aliases survive every order of writers? | 3 places, 1 agent, 3 objects, suffixes 1-2 | holds |
| Discovery | does the registry show what runs, and its card? | 18 kinds of server, 1 host, 2 cards | holds |
| PolicyEngine | what does a minute let through, which policy survives? | 2 peers, 2 requests at a time, 2 changes, windows of 2 ticks | holds |
| AgentRouter | do two daemons keep what Delegation promises? | 2 tasks, one each way, 1 room, 1 restart | holds |
| RelayConnector | does the connector in use end up registered, alone, with one socket? | 2 connectors, 3 sockets, 1 fault, 1 peer, 1 room, no more peers after a late close event | holds |
| RelayRejoin | does a refresh remember every peer (`api/server.ts:856`)? | 2 connectors, 2 peers, 2 rooms, no fault | violated |
| A2AHandler | does every slot come back, is what was sent answered? | 3 requests, 2 slots, 3 sockets | holds |
| Daemon | one daemon, one identity, names of its own, one relay connector? | 2 processes, 2 starts, 2 key pairs, 1 agent id, suffixes 0-1, 2 attempts, 1 lapse while a process listens | holds |

What each run checks:

* TaskExecutorSafety: the slot limit across the await (`ConcurrencyBound`), one chat and one report
  (`OnceEach`) that agree with the record (`ReportsAgree`), no task forgotten, no wake-up lost, and
  what close() leaves. TaskExecutorLiveness: that the executor implements TaskLifecycle
  (`LifecycleSpec`), and that tasks end and the queue moves.
* DebouncedStore: each change of the file, by a crash too, is to a newer version; every
  change is saved in the end. TaskRestart: effects are made at most once per process, and not at
  all for what the file shows executing.
* Registry: keys, names and aliases.
* Discovery: no instance has two card requests under way (`OneFetch`); what runs for good is
  shown online for good and what has stopped is not, and the card last served is shown
  (`UpIsShown`, `DownIsShown`, `CardsCatchUp`); a scan that ends shows every target that ran
  throughout (`ScanShows`). With `Flapping = {}` UpIsShown fails: section 5.
* PolicyEngine: less than twice each limit in any minute (`RateBound`); a crash leaves a file that can be read, and an answered request is in it, unless
  two requests overlapped.
* AgentRouter: the refinement `Delegates`; a report that arrived has ended the record
  (`ReportsEndRecords`); a proposal is answered once (`AnsweredOnce`).
* RelayConnector: one live socket per connector, rooms only on it, no return of the connector that
  was replaced, and a registered connector in the end. The first and the last except a connector
  that a late close event has hit, and nothing else; without that exception both fail with one connector and one
  fault (Recovers within 2,670 states, with four sockets). With three connectors Recovers is
  violated: after a refresh that comes before the former one is registered nobody disconnects the
  connector before it, and the two replace each other as long as both tokens are accepted. Refreshes are 55
  minutes apart and a token lives five, hence two.
* A2AHandler: every slot comes back once, and what was sent is answered.
* Daemon: the pid file names the daemon and its identity stays, unless starts overlap; the names it
  goes by are its own, each but for the time it has lapsed (`NamesAreOurs`); while none lapses it takes no further name of a base it has
  one of (`NoSecondName`); one relay connector; and it is registered in the end (`Registers`). After a
  lapse an identity may hold two names for a while, and the router goes on using one that may be
  another's by now: section 5.

Why the bounds are enough. Three tasks and two slots give a full executor with a task
waiting and one held by the drain; two sockets give an old socket whose close event comes
after a new one opened. Three changes give one before, one during and one after a flush;
three inodes are the renamed file, the current `.tmp` and one a slow flush still holds.
One restart relates two processes, and every property of TaskRestart relates two.
In Registry, loopback, a VPN address
and ":0" give each network scope, so that a merge may keep or move the key; three objects
are two instances and one a health check still holds. `MaxSuffix` bounds `ensureUnique`
(999 in the code): an insertion that would need more is not taken. Objects are
symmetric. An object that only a check holds keeps no status, because the check overwrites
it before anyone reads it. In Discovery hosts meet only in the scan, whose queue
treats them one by one, so one host under every kind is the whole variety; two cards give an old
and a new one. In PolicyEngine a window of two ticks has a boundary inside a minute. In
AgentRouter each daemon is proposer of one task and executor of the other, in the same room. In
RelayConnector two connectors are one refresh; three sockets are the old one, its reconnection and
the new one. `PeersAfterHit = FALSE` (a peer asks for no room once a late close event has hit a
connector, when the sockets replace each other for ever) keeps the run small: without that bound the safety properties hold
too (4.1 million states), Recovers with two faults and no rooms (1.2 million), and the proofs do not assume it. Which
free slot a new socket takes (`Slot`) is fixed: slots differ in nothing. In A2AHandler three requests fill two slots and have one refused, and each socket may
close under a later one. In Daemon two processes are one that stops or crashes and
one that starts, or two that start together; two key pairs are an identity and one that would
replace it; two attempts overlap; two suffixes give a name that is taken and the next. That the
agent id and the fallback are the same name (`AutoName = x`), and that names lapse and starts
overlap in different runs (`MaxRacedLapses = 0`), keep the run small; with a fallback of its
own (4.7 million states) and with three starts (2.2 million) the safety properties were checked
too, without lapses, and the proofs assume neither bound.

Fairness. Microtasks run; armed timers fire; a handshake answers, since connectGateway arms a
10 s timeout (`agent/gateway.ts:187`) - except when the socket closes first, which `SilentClose`
admits, so TaskExecutorLiveness excludes it; a closing socket closes; the timeout checker ticks
every 30 s past every task's age; file operations end, one way or the other. In RelayConnector timers fire,
sockets settle and the relay works through what it is sent; in Discovery the sweeps, the probe
and the card timer come again and every request ends (each has a timeout); in A2AHandler the connect
timeout and the session timers fire. In Daemon the probe and the heartbeat come again and again, and of requests made
again and again one is answered (strong fairness: the registry is up now and then). Nothing is assumed of the
gateway's answers, of peers or of users, and nothing at all in AgentRouter and Registry, which state no liveness.

`SlowDisk = FALSE` says that a flush ends before the next 500 ms debounce; `Exposed` names
the other case in which two flushes share a `.tmp` name, `close()` of the two stores that
do not wait. `raced` in Daemon says that a process was started while another was starting or stopping, and
`overlapped` in PolicyEngine that two requests saved at once. Inside those exceptions nothing is claimed.

Deadlock is checked except where the system may stop: a daemon past its bound of starts, a
handler that was closed, a policy engine past its changes, two daemons whose tasks have all
ended, a relay client at rest.

## 4. The proofs

`TaskExecutorProofs`, for every finite set of tasks, every `MaxConcurrent` in Nat \ {0} and
every set of sockets, from the assumptions named in the modules (`InboundAssumption`,
`ExecutorAssumption`):

* `TypeCorrect`: TypeOK is inductive by itself.
* `Concurrency`: ConcurrencyBound is inductive with TypeOK. Its second conjunct is the
  strengthening: the drain that adds a slot after its await found one free before it, and
  while it is suspended nobody else adds one, because `draining` admits one drain.
* `Wakeup`: NoLostWakeup is inductive: every step that frees a slot or lengthens the queue
  starts a drain or finds one under way.
* `AfterClose`: CloseLeavesOne, on top of TypeOK.
* `InOnePlace`, `AtMostOnce`: by `Placement(0)`, `Placement(k) == OnePlace /\ Accounts(k)`. Neither
  is inductive alone. k is what former processes may have done of each task (0 here). `Held` is where the executor keeps a task (queue, drain, executing);
  `Accounts` ties the counters to it: a task in the queue or held by the drain has no chat
  and no report, an executing one has no report, and one without a record has
  nothing. A step that makes a chat or a report moves the task out of the part of `Held`
  where the counter had to be 0.
* `Remembering`: NothingForgotten, on top of Placement and CloseLeavesOne.
* `Telling`: ReportsAgree, with `HeldAlive`: a task that is queued, held or executing has a record that
  was accepted and has not completed, and an executing one is past "accepted". `Tells` says what a step may do
  to one task's record and reports; every callback is one of its four cases.
* `Implements`: Spec => LifecycleSpec, a refinement under the identity mapping.

The same module goes on to TaskRestart, for any number of restarts (`RestartSpec`); a step of it is one of
the executor's, a file operation, or a new process that starts from a table the former one has had:

* `RestartTypeCorrect`, and `RestartKeeps`: what holds in one process (ConcurrencyBound, NoLostWakeup,
  CloseLeavesOne) holds in each, from any table it may load.
* `OncePerRestart`: RedoneAtMostOncePerRestart, by `Redone(restarts)`: `Placement(restarts)`, and `Recorded`
  says of the outcomes in the history what `Accounts` says of chats and reports.
* `SavedOnce`: SavedExecutingNotRedone, with `NotSavedYet`: the file never runs ahead of the table, and the
  task whose handshake is awaited is shown executing by neither.

`RegistryProofs`, for every set of places, agents, hosts, aliases and objects, from
`RegistryAssumption`:

* `Keyed`: TypeOK and KeyedByAddress are inductive together; KeyedByAddress also says that
  no object is stored under two keys, which is what an update in place needs.
* `NamesKept`, `NamesDiffer`, `AliasesKept`: the three action properties, on that invariant.
  `UpsertMoves` says once what the three branches of `upsert` have in common (at most one
  instance moves, and takes its name and alias along; every other stays), and `NextWrites`
  that every step is such an upsert, a step of the user, or leaves the map alone.

`A2AHandlerProofs`, for every finite set of requests and sockets and every number of slots, from
`A2AAssumption`:

* `Slots` (SlotsComeBack) and `OpenSessions`, from one invariant: the count is that of the requests under way,
  and the sessions are the requests that are sent and not answered.
* `NobodyLeft`: the safety half of SentRequestsEnd. A request that waits for its connection waits on an attempt
  that can still settle, or on one closed before its challenge (disagreement 3), and one that is sent is on a
  connection that has not ended (`Attached`), however attempts fail and timers forget them. A socket that
  settles or ends takes everybody on it along, and no more reconnect timers are armed than sockets are gone.

At the end of `A2AHandlerProofs`, for the store that keeps the tasks
and the two others like it, any number of flushes, inodes and changes: `Atomic` (ReplacedByNewer), by
`OneFlush`: until two flushes may overlap there is one, what it serialised is no older than the file, and it
alone has the tmp file open, which is never the file itself. Restart re-establishes it whatever two
overlapping flushes have left. `StoreTypes`: the files and the flushes stay well typed.

`DiscoveryProofs`, for every set of hosts, kinds of server and cards, from `DiscoveryAssumption`:

* `AskedOnce`: OneFetch, inductive once `fetches` is known to be a function.
* `ScanFinds`: ScanShows, from TypeOK (inductive) and `ScanInv`: a target that has run since the
  scan began is in the queue, or its first answer is kept and still what it would answer, or it is
  known, or nothing tells what it is. Everything but the scan changes none of that, since what
  forgets or stops a host takes it out of `steady`.

`DaemonProofs`, for every set of processes, keys and agents and every number of suffixes,
attempts and lapses, from `DaemonAssumption`. One invariant serves the last three theorems: TypeOK; one
process listens at most (`OneUp`); a token is asked for once, before there is a connector
(`Relay`); attempts are at one of their candidates, and the candidates before it belong to others as long
as no name lapses (`Trying`, `Tried`); the names in use and in the making are ours but for those that have
lapsed (`Going`): an answer that makes a name ours takes it out of `lapsed`.

Processes and files have an invariant of their own, `Alone`: while no start has overlapped with another or with
a stop, one process is alive, the pid file names it once it has written it (`Lone`), and who writes
keys has found none (`Unwritten`).

* `Named`, `Kept`: PidNamesDaemon and IdentityStays, by `Alone`.
* `OneRelay`: OneConnector, by `Relay`.
* `OwnNames`: NamesAreOurs, by `Going`.
* `InOrder`: NoSecondName. A step that takes a name is an attempt at its candidate, and `Tried` says who
  owns those before it.

A step of a process ends the one that listens and its memory, or happens while none does, or is
nothing to it (`ProcessEffect`); that is why the thirteen actions of processes and keys need
no case each.

`AgentRouterProofs`, for every set of tasks and rooms, any two daemons and any number of restarts,
from `RouterAssumption`:

* `Promise`: Spec => Delegates, a refinement whose mapping takes the proposer's records as `view`
  and the history of the executor's decisions as `fate`. The invariant says what the channels hold: a reply tells
  what the executor did (`Honest`), a proposal is on its way at most once (`Once`), and then neither
  queued nor answered (`Life`). Taking a message, losing a room and restarting leave a part of each channel
  (`Part`), and `PartKeeps` says once that a part keeps all this; `Sends` says it of a message sent or lost.
* `OneAnswer`: AnsweredOnce, with `Stage`: until a restart, what runs or may yet run has no outcome.
* `ReportsArrive`: ReportsEndRecords, with `InOrder`: while nobody restarts or loses the room, what the
  executor has told is on its way or has reached the record, and a report has the accept before it
  (`Good`); a proposal is only ever on its way to its executor (`Placed`), who then has the room (`Linked`).

`RelayConnectorProofs`, for every number of connectors, sockets, rooms and faults and every finite set of peers, from
`RelayAssumption`, however late close events come. `Retired` (StaysClosed): a connector that was
disconnected has no timer and does not connect (`Rests`), one that is not made yet is neither (`Made`), and
every socket in use belongs to one that is made (`Owned`), so that the refresh, the only step that
connects without a timer, never meets a disconnected one. `RoomsEnd` (RoomsDieWithSocket): each way a socket
ends clears its connector's rooms. `Single` (OneSocket): the socket a connector knows is its own (`Known`), and
unless the connector was hit, the state of each socket says what its connector knows of it (`Fit`): one that
may still report its end is the one that is known, or its connector was disconnected, or its error is known. In
that last case a new socket may exist when the close event comes, and then the connector counts as hit (`Hits`).
`TypeCorrect` also says that a connector's table holds a room once, whatever INCOMING and JOINED follow each
other: the routes take a room by its id.

`PolicyEngineProofs`, for all policies, patches and requests: `FileWhole` (CrashKeepsPolicy) and
`PolicyLasts` (AnsweredPolicyKept), by `Ordered`: without overlap there is one save under way, it is of the policy in
force, and what it has written is nothing, an empty tmp file or that policy. `RateHolds` (RateBound), for any peers,
window and limits: `AllLimited` says that every policy in force, saved or stored has limits of one that was
sent, and `Counted(k)` how the last minute's proposals divide by k's counter: those of the open window are
numbered from 1 to the count, the first being as old as the window; those of one before it from 2 at most to
a limit, since the first has left the minute with its window. Two sets numbered apart have no more members
than numbers (`CountedSize`). `EachCounted`: no two proposals are one member of the history `recent`. The
bodies of policy requests are assumed to be of their declared types (`LimitsAssumption`); the routes do not look, and a
limit that is missing or no number would never be reached.

`TypeCorrect` in each proof module is the type invariant of its component, for every value of the constants
(RegistryProofs has it in `Keyed`, A2AHandlerProofs in `NobodyLeft`).

Lemmas on the queue (`PermutationOf`, `Pushed`, `Shifted`) and on sets of slots (`Slots`)
are stated once. Every safety property that a run finds to hold is thus proved. Only model-checked is liveness
(EveryTaskEnds, QueueMoves, EveryChangeSaved, UpIsShown, DownIsShown, CardsCatchUp, Recovers, SentRequestsEnd,
Registers): it needs fairness and ENABLED, which are out of the prover's reach. The counterexample of RelayRejoin is TLC's.

## 5. Where the code and its documents disagree

RelayRejoin shows one disagreement as a run:

1. `relay/connector.ts:88`: one `lastJoinTarget` for all joins. With two joins under way, the room of the
   first to be answered is attributed to the second peer, and a token refresh joins the wrong
   peers again (`api/server.ts:856`, :879).

Others were found by checking a stronger property than the module now states; the models
keep the behaviour, and the properties name it as their exception:

2. `agent/executor.ts:357`: after awaiting the gateway, the task is started without looking
   at it again; cancelled or timed out in the meantime, it is executed, its slot and session
   stay taken until the gateway answers or the task's timer fires.
   `test/agent/executor-extended.test.ts:487` means to show that it is skipped.
3. `agent/gateway.ts:197`: a gateway that closes the socket before its challenge leaves the promise
   unsettled: the drain is suspended for ever, and no task is executed until the daemon is
   restarted; an A2A request waits for ever and keeps its slot (`docs/api.md:558` says a
   60 s timeout). `test/agent/gateway.test.ts:262` covers the close after the challenge only.
4. `a2a/store.ts:110`, `agent/tasks.ts:300`, `registry/store.ts:367`: `dirty = false` after
   the awaits of a flush hides a change made during it from `close()`
   (`test/a2a/store.test.ts:165` "flushes dirty data immediately").
5. `cli/index.ts:236`: stopping the daemon undoes what happened in the last 500 ms; an ended
   task is active again and, if it was accepted, executed again (`docs/blog/article_6`:65 "Terminal states are final").
6. `health/checker.ts:118`: a health check re-inserts an instance deleted during its await,
   with its old alias and name, so that aliases are not unique (`docs/blog/article_1`:93). `AliasesSurvive`
   and `NamesStayUnique` hold whenever no check holds an instance that has left the map
   (`Stale = {}`). A lookup also brings a name of its own, used or not, and the next lookup replaces it under the key ":0".
7. `local/probe.ts:63`: stale self instances are marked offline at 127.0.0.1 whatever their
   address; one merged to its LAN address stays online, and no health check looks at it
   (the comment at line 60 says any is marked).
8. `health/checker.ts:164`, `adapter/openfang.ts:84` against :78, `adapter/nanobot.ts:93` against :38: some
   kinds pass a probe and fail the health check (ZeroClaw and PicoClaw without a root page, NanoBot known by
   /api/health only, a degraded OpenFang); they flap between online and offline.
9. `a2a/handler.ts:207`: the reconnect timer forgets an attempt under way, so that two
   connections may be made (`docs/api.md:557` says a single one).
10. `api/server.ts:806`: when the first relay token cannot be had, `relayInitializing` stays true and
    there is no relay until the daemon is restarted. Line 974: the router keeps the name it was made with when
    a later registration changes it; the daemon no longer renews that name, which may lapse and
    become another's.
11. `crypto/keys.ts:46`: a crash while identity.pub is written leaves an empty or mismatched identity that
    every later process takes as it is; the registry then refuses it for ever (`Signs` in Registers).
    Starts that overlap may mix two key pairs, and leave a pid file that names a process that has ended.
12. `api/server.ts:761`: the first `local:discovered` event is emitted before anybody listens, so the card
    fetcher and the skills start only at the second probe.
13. `relay/connector.ts:64`: the close event of a socket in error may come up to 30 s after the error, when the
    reconnect timer (3 s) has made a new one. It runs `cleanup()` on the state of that one: the
    connector forgets it, though it lives on, and makes another. When that one registers, the relay ends the
    forgotten one under the same name, whose close event makes the connector forget the next in turn, and so on every 3 s.
    This goes on as long as the token is accepted; then the connector is not registered, until the refresh replaces it.
    `docs/blog/article_4_encrypted_relay.md:28` says "If the WebSocket drops, the daemon reconnects and re-registers
    without user intervention". Exception of OneSocket and Recovers.
14. `api/server.ts:847`: the token is refreshed every 55 minutes, on the ground that the relay keeps the WebSocket alive,
    but is good for five (`api/server.ts:67`); `docs/architecture.md:76` says every 4 minutes. A connector that reconnects in
    between is refused and is not registered until the refresh (`docs/blog/article_4`:28 again).
    Recovers is about what the refresh brings.
15. `agent/engine.ts:177`: the rate limit counts in windows that begin with a proposal, so that up to twice the limit
    less one passes in a minute, and one proposal for a limit of 0 (the counter is looked at only once it exists).
    `docs/blog/article_6_layer_b_agent_autonomy.md:49` says "10 proposals/minute globally, 3 per peer". RateBound states the bound that holds.
16. `registry/auto-register.ts:71`: while no local OpenClaw answers (`local/probe.ts:179`) a heartbeat registers nothing, so
    that the name in use may lapse and become another's, and the daemon goes on by it (the comment at line 2 says "registers
    and heartbeats every 5 minutes"). Exception of NamesAreOurs.

## 6. Not modelled, and the plan

Not modelled, because there is no state whose change anything decides by: the skills registry, the pricing
collector and the agent card (what their timers and failures do wrong is in the hazards), relay
encryption and signatures (primitives, taken as perfect), the CLI's other commands, the SDK, MCP
server, plugins and dashboard (clients of the HTTP API that print or forward). Of the modelled parts the following
is left out: routes that only read, `resolve`, the list of unreachable mDNS hosts, text
normalisation, labels, connectivity, and socket and subnet arithmetic.

Next: the safety halves of the liveness properties that have none yet (what must hold for Recovers,
Registers and QueueMoves in every state), a refinement of an atomic file by DebouncedStore, and shorter proofs.
