# Formal models of Hiddify-Custom-SingBox

This directory is a verification project for the proxy core in `src/`: TLA+
modules that model its concurrent components, TLC configurations that check
them on small instances, and TLAPS proofs of the safety properties that matter
most, for every value of the constants.  `PROJECT.json` lists the components,
the runs, the source lines behind every definition, the hazards and the
theorems.

1. [The system](#1-the-system)
2. [The modules](#2-the-modules-and-the-code)
3. [The runs](#3-the-runs)
4. [Fairness](#4-fairness)
5. [The proofs](#5-the-proofs)
6. [What is only model-checked](#6-what-is-only-model-checked)
7. [Where the code and its comments disagree](#7-where-the-code-and-its-comments-disagree)
8. [What is not modelled](#8-what-is-not-modelled)

## 1. The system

The program is a proxy platform (a fork of sing-box).  A `Box` (`box.go`)
creates managers and services and starts them in stages (`Initialize`, `Start`,
`PostStart`, `Started`).  Inbounds accept connections, the router (`route/`)
picks an outbound for each by rule, and the connection manager
(`route/conn.go`) copies the bytes.  Names are resolved by the DNS router and
client (`dns/`) over DNS transports (`dns/transport/`).  Groups
(`protocol/group/`: selector, urltest, balancer) choose one outbound among
several, from the delays that the outbound monitor (`common/monitoring/`, this
fork's own component) or the urltest group measures.  State that survives a
restart is in the cache file (`experimental/cachefile/`).  On phones and
desktops the whole `Box` is started, reloaded and stopped through
`daemon/started_service.go`.

| Part | Source | State | Operations | What is hard about it |
|---|---|---|---|---|
| Service control | `daemon/started_service.go`, `daemon/instance.go`, `box.go` | status, current instance, lock, `s.done` | `startOrReloadServiceImp`, `CloseService`, `SetError`, `Box.Start`, `Box.Close` | the lock is given up while an instance closes or starts |
| Outbound monitor, scheduling | `common/monitoring/outbound_monitoring.go` | flags per outbound, two bounded queues, cycle number, put-off tasks | `TestNow`, `InvalidateTest`, workers, cycle | flags set before a send that may fail; a stage that counts replies |
| Outbound monitor, timer | same file | ticker, pause callback, `workersRunning`, wait group | `Touch`, `startTimerWorkers`, `stopTimerWorkers`, `scheduleLoop`, `Close` | stop runs without the lock that start holds |
| Group notification | same file, `protocol/group/balancer/balancer.go`, `protocol/group/selector.go` | token, debounce timer, subscriptions | `applyResult`, `SignalChange`, notifier loop, balancer worker | every stage may drop an event |
| Broadcaster | `common/monitoring/brodcaster.go` | subscribers, buffers, context | `Subscribe`, `Unsubscribe`, `Publish`, `Close` | two parties close the same channels |
| DNS transport base | `dns/transport/base.go` | life-cycle state, queries in flight | `SetStarted`, `BeginQuery`, `EndQuery`, `Shutdown` | a query that begins while `Shutdown` does |
| DNS connector | `dns/transport/connector.go` | cached connection, dial in progress | `Get`, `Reset`, `Close` | one dial for many callers, each of which may be cancelled |
| DNS over TLS | `dns/transport/tls.go` | idle connections | `Exchange`, `Reset`, `Close` | a connection given back while `Close` is between its two halves |
| DNS over UDP | `dns/transport/udp.go` | query ids, callbacks | `Exchange`, `recvLoop`, `Reset`, `Close` | ids are reused while answers are on the way |
| Monitor's history | `outbound_monitoring.go`, `experimental/cachefile/cache.go` | history per outbound, `cacheDirty`, the saved copy | `applyResult`, `saveHistory`, `loadHistory` | two savers; results applied while one reads |
| Balancer | `protocol/group/balancer/` | histories of the last update, round-robin index, sticky sessions, registered connections | `UpdateOutboundsInfo`, `Select`, `DialContext` | state that outlives the list it points into; delays in 16 bits |
| URL test group | `protocol/group/urltest.go` | selected outbound per network, shared histories, registered connections | `urlTest`, `Select`, `performUpdateCheck`, `DialContext` | the selection is read and written without a lock; histories change under a scan; tolerance in 16 bits |
| Selector | `protocol/group/selector.go`, `common/interrupt/` | selection, its stored copy, registered connections | `SelectOutbound`, `DialContext`, `Start` | swap, store and interruption are three steps |
| Connection manager | `route/conn.go` | list of connections, one flag per connection | `NewConnection`, `NewPacketConnection`, `Close` | who ends last, and who calls `onClose` |
| DNS client, rejected responses | `dns/client.go`, `experimental/cachefile/rdrc.go` | answer cache, one lock per question, marks, saved rejections | `Exchange`, `LoadRDRC`, `SaveRDRCAsync` | identical queries share one exchange |
| FakeIP | `dns/transport/fakeip/`, `experimental/cachefile/fakeip.go` | two maps, the place in each range, pending metadata | `Start`, `Create`, `Close`, flush | wrap-around; a crash between two saves; changed ranges |
| Remote rule set | `route/rule/rule_set_remote.go` | rules, Etag, saved copy | `StartContext`, `fetch`, `Cleanup`, `Close` | Etag and content must not drift apart |
| xhttp upload | `transport/v2rayxhttp/` | POSTs under way, sessions, upload queue | `DialContext`, `PostPacket`, `ServeHTTP`, `Push`, `Read`, `Close` | reordering, repetition, a mutex held while waiting |
| Pipe | `common/xray/pipe/impl.go` | data, state, two one-place signals | `WriteMultiBuffer`, `ReadMultiBuffer`, `Close`, `Interrupt` | check and wait are two steps |

How they interact, as far as modelled: the UDP transport embeds the base
transport and the connector, which share the context `closeCtx`; DNS over TLS
embeds the base transport and keeps a list of idle connections.  The monitor's
timer starts the cycles of its scheduler, whose results trigger the group
notification, which goes through the broadcaster to the balancer, whose
strategies choose the outbound of a connection; balancer, selector and urltest
group interrupt the connections they have registered.  The upload of an xhttp connection goes
through the pipe to the POSTs and, on the server, through the upload queue.  The
history, the FakeIP store, the selector, the rejections of the DNS client and the
remote rule sets each keep a copy in the cache file.  The service control starts
and closes the `Box` that contains all of them.

## 2. The modules and the code

Each module models one critical section, one channel operation or one atomic
operation by one action.  What a goroutine does between two of these is part of
the action before.  Data are abstracted to what the properties tell apart.

| Module | Models | Actions (the code they stand for) |
|---|---|---|
| `Connector` | `connector.go` | the loop of `Get`, the wait on `connecting`, the dial and its outcome, `Reset`, `Close`, a connection that dies, a context that expires |
| `BaseTransport` | `base.go` | `SetStarted`, `BeginQuery`, `EndQuery`, `Shutdown` in its steps |
| `UDPTransport` | `udp.go`, composed of the two above by `INSTANCE` | `Exchange` step by step, `nextAvailableQueryId`, `recvLoop`, the TCP retry, `Reset`, `Close`, a lossy network |
| `TLSTransport` | `tls.go`, extends `BaseTransport` | `Exchange` (take an idle connection or dial, write, read, give back or retry), `Reset`, `Close` |
| `OutboundMonitor` | scheduling half of `outbound_monitoring.go` | `TestNow`, `InvalidateTest`, `enqueueTask`, `workerLoop`, `executeTask`, `applyResult`, `runCycle`, `runStage`, `Close` |
| `MonitorTimer` | timer half of the same file | `Touch`, `startTimerWorkers`, `stopTimerWorkers`, `scheduleLoop`, `Close` |
| `Broadcaster` | `brodcaster.go` | `Subscribe`, `Unsubscribe`, `Publish` per channel, `Close`, `closeAll` |
| `GroupNotifier` | notification half of `outbound_monitoring.go` and the balancer's `worker`, composed of `Broadcaster` | `applyResult`, `emitGroupEvent`, `SignalChange`, `groupNotifierLoop`, `OutboundsHistory`, `Close` |
| `StartedService` | `started_service.go`, `instance.go`, `Box.Close` | `startOrReloadServiceImp`, `CloseService`, `SetError`, `Box.Start` as its outcome, `Box.Close` in three steps |
| `MonitorHistory` | `applyResult`, `saveHistory`, `loadHistory` of the same file, `SaveBinary` | `ApplyMark` and `ApplyStore` (the two halves of `applyResult` around `state.mu`), `StoreURLTestHistory` by the others that share the `HistoryStorage`, `SaveBegin`, `SaveRead` per outbound, `SaveWrite`, `Restart` |
| `Balancer` | `protocol/group/balancer/` and `interrupt.Group` | the delay functions and the four `Select`s as operators; test results, the worker from event to `UpdateOutboundsInfo` and `Interrupt`, `DialContext` in two steps, for connections of the box and external ones, expiry of a session and its use by the other network |
| `URLTestGroup` | `urltest.go`, `common/urltest/` as it is used, and `interrupt.Group` | `urlTest` with its tests, `Select` one history at a time, `performUpdateCheck` with its two-word stores, `Interrupt`, dials and registrations, stores by others |
| `Selector` | `selector.go`, `common/interrupt/` | `SelectOutbound` in three steps (swap, store, interrupt), `DialContext` in two, `Conn.Close`, a restart with `Start` |
| `ConnectionManager` | `route/conn.go` | dial, report, registration, `preConnectionCopy` twice, each copy's end, close and swap of `done`, the manager's `Close` |
| `DNSClient` | `dns/client.go`, `rdrc.go` | `Exchange` from `LoadOrStore` to the closing of the channel, the three transactions of `LoadRDRC`, `SaveRDRCAsync`'s goroutine, expiry |
| `FakeIPStore` | `fakeip/store.go`, `cachefile/fakeip.go` | `Start` with `FakeIPReset`, `Create` with its unlocked and its locked look-up, `FakeIPStore`, the metadata timer, `Close` in two steps, the flush of the control API, a crash |
| `RemoteRuleSet` | `rule_set_remote.go` | `StartContext`, `PostStart`, `fetch` in its steps, `updateOnce`, `Cleanup`, `Close`, a crash; the server changes its content at any time |
| `ChunkPipe` | the pipe without its waiting | write, read, close, interrupt as single steps |
| `Pipe` | `common/xray/pipe/impl.go`, built from the steps of `ChunkPipe` | critical sections, signals and selects of `WriteMultiBuffer` and `ReadMultiBuffer` |
| `UploadQueue` | `upload_queue.go` | `Push` in two steps, `Close`, `Read` from call to return or wait |
| `XHTTPUpload` | `client.go`, `dialer.go`, `server.go` of `v2rayxhttp`, composed of `ChunkPipe` and `UploadQueue` | chunks, POSTs that fail, are late, repeated, lost or turned down without notice, `upsertSession` with its reaper, the handlers of POST and GET |

Some components use the same names (`Init`, `Next`, `Spec`, `conn`...).  Where
several of them meet in one run or one proof module, a small module takes each by
`INSTANCE` under names of its own and repeats its properties: `Naming`
(`DNSClient`), `FakeIP` (`FakeIPStore`), `TestHistory` (`MonitorHistory`), `Routing`
(`Balancer`), `URLTesting` (`URLTestGroup`), `RoutingStore` (`RemoteRuleSet` and
`Selector`), `Daemon` (`StartedService`) and `Relay`, which extends `Pipe` with
`ConnectionManager`.  They add no behaviour.  `Pipe` extends `ChunkPipe` and prefixes
its own definitions (`ImplInit`, `ImplNext`, `ImplSpec`).

The modules with theorems are named `...Proofs`; section 5 says which holds what.
The `MC...` modules are the instances for TLC.  `MCDNS`, `MCParts` and `MCStorage`
hold several components that do not interact: the variable `part` chooses one of them
in the initial state and the others stand still, so a run explores the sum of their
state spaces, not the product.  An operator that begins with the comment "As if ..."
or "Mutant: ..." is a deliberately wrong version of the action after it; replacing the
action by it must break a property, which shows that the property depends on that
line of the code.

Abstractions that a reader should know of:

- *Connections, queries, tags and instances* are model values or numbers.  A
  network answer carries the identity of the exchange that asked for it, which
  the code never sees; the property `NoCrossTalk` uses it.
- *Query ids* are `0 .. NumIDs-1` with wrap-around, 2^16 in the code.  The
  lookup of the callback and the storing of the answer in `recvLoop` are one
  step.  `Reset` while a dial is in progress does nothing, as in the code.  The
  TCP retry may never end: its reads have no deadline.
- *Delays* are abstracted to success or failure in `OutboundMonitor`;
  `collectCycleTargets` looks at all outbounds in one step, although the code
  locks one after the other.  `Balancer` and `MonitorHistory` have them as numbers.
- *The pause manager and `IsReady`* are external: callbacks are a set, readiness
  may change at any time.
- *`Box.Start`* returns nil or an error at some time or hangs, and what an
  instance consists of is not kept.  That `Instance.Close` cancels the context
  appears as a start that fails.
- *Panics* (close of a closed channel, use of a nil ticker) are states of their
  own: `crashed` in `StartedService`, `"panic"` in `MonitorTimer`.
- *`Balancer`* follows one of the two networks that a strategy keeps apart and
  treats alike.  Only the sticky sessions are shared by both: a dial of the other
  network, which has `OtherN` outbounds, may leave a place that this one does not
  have.  Here `jumpHash` is a table, a hash with the clock any outbound.  The
  products of delay and ratio wrap at 2^16 as the build does.
- *`URLTestGroup`*: no member is a group.  `selectedOutboundTCP` and `-UDP` are
  interface values of two words without a lock: a reader sees the old value, the new
  one or half of each, and the last is a panic.  A history's delay is overwritten in
  place, so `Select` may compare one value and keep another.  Delay plus tolerance
  wraps at 2^16, and `SteadyChoice` is stated where it does not (`Comparable`).
- *`TLSTransport`*: an answer is the query it answers; the id in it is not compared,
  as in the code.  A write or a read may fail at any time.
- *`FakeIPStore`*: an address is a family, a range and an index; a range of two
  usable addresses makes the index wrap around.  The memory storage is the case of
  a file that is empty at every start.
- *`RemoteRuleSet`*: the Etag is the content it was sent with.  The server sends
  one with every content or never; see the comment of `NotModifiedTrue`.
- *`MonitorHistory`*: `applyResult` hands its own history entry to the shared
  `HistoryStorage`, so a store by a urltest group or the API overwrites it in place.
  The `Time` of a test is left out: a result that brings only a later one does not
  raise `cacheDirty`.
- *`DNSClient`* has one question and one transport; the history variable `lost`
  records that an answer or rejection expired, could not be cached, saved or read.
- *`XHTTPUpload`*: a behaviour has repeated POSTs or remade sessions, not both
  (`mode`), which keeps the instance small.  A POST may be lost without the
  client learning of it: over HTTP/1.1 `PostPacket` returns once the request is
  written, and over HTTP/2 and 3 it does not look at the status of the answer.  The client's loop does not wait for
  `WroteRequest`, since the context it also waits for may be over at any time.
- *Crashes*: the process ends between any two steps and starts again with what the
  transactions of the cache file left behind.
- *Bounds on counters*: `MaxCycleID` (later cycles share a number), `MaxCalls`,
  `MaxDelayed`, `MaxRuns`, `MaxInstances`, `MaxResults`, `MaxTests`, `MaxStores`,
  `MaxSavers`, `MaxWrites`, `MaxRetries`.  The proofs hold for every value of
  them.
- History variables, which no guard reads: `dropped` and `lostReplies`
  (`OutboundMonitor`), `owed` (`GroupNotifier`), `failed` and `stale`
  (`StartedService`), `missed` and `overwritten` (`MonitorHistory`), `kept` (`FakeIPStore`), `raced`
  and `late` (`Selector`), `late` and `turns` (`Balancer`), the fields `late` of a
  connection and `stable` of a scan (`URLTestGroup`), `strays` (`TLSTransport`),
  `handshakeFailed` and
  `cause` (`ConnectionManager`), `lost` (`DNSClient`), `resent`,
  `lost` and `torn` (`XHTTPUpload`; `resent` also bounds the retries).

## 3. The runs

Every passing run explores the whole state space of its instance.

| Run | Instance | Checks | Shows |
|---|---|---|---|
| `connector` | 3 callers, 2 connections | `SingleFlight`, `NoOrphan`, `NoLostWakeup` | one dial at a time, no leaked connection, and waiters wake up without the help of a deadline |
| `dns`: UDP | 3 queries, 2 ids, 1 connection | `OwnCallback`, `NoCrossTalk` | ids are reused, run out and wrap around while answers are lost, duplicated and late |
| `dns`: FakeIP | 2 callers, 2 domains, ranges of 2 and 1 addresses, 2 configurations | `Resolves`, `AnswerInRange` | the two maps stay inverse to each other, and answers in range |
| `dns`: client | 3 callers, 2 savers | `Coalesced` | identical queries cost one exchange |
| `udp_close` | 2 queries, both large, 1 closer | `CloseLeavesNothing`, `WaiterBacked`, `ExchangeReturns`, `CloseFinishes` | what `Close` leaves; it waits only for a channel that somebody will close; exchanges and `Close` return |
| `monitor_chain` | 2 outbounds, one dialing through the other, 1 group, 1 worker | `StageAccounting` | a stage waits for exactly the replies that will come |
| `monitor_live` | 1 outbound that may cease to be ready, 2 URLs | `FlagsBacked`, `CycleEnds`, `PriorityServed` | a flag that keeps an outbound from being tested has a task behind it; cycles end, accepted requests are carried out |
| `monitor_retest` | 1 outbound that gets ready | `Retested` (violated) | see section 7 |
| `notifier` | 1 tested member, 1 nested group, 1 selector, 1 balancer | `NoLostChange`, `MapHoldsOpen`, `ChangeSeen` | a test result always reaches the balancer although every stage may drop its event; no channel is closed twice, sent on when closed or left open |
| `service` | 3 callers, 3 instances | `NoInstanceLeft`, `StopEnds` | reloads, stops, failures and errors overlap without losing an instance |
| `xhttp` | 3 chunks, 2 sessions or 1 repeated POST, a queue of 1 | `InOrder`, `AcceptedDelivered` | the server reads what was written, in order and once, and all that comes before a loss unless something broke |
| `xhttp_delete` | 3 chunks, 1 session, a queue of 1 | `SessionDeleted` (violated) | see section 7 |
| `parts`: timer | 2 touchers, 2 starts | `TickerServed`, `NilTickerOnlyAtClose`, `CloseReturns` | start and stop of the timer overlap without a dead or a nil ticker; `Close` returns |
| `parts`: pipe | 4 buffers, a limit of 2 bytes | `NoLostSignal`, `WriteReturns` | nobody sleeps through what it waits for |
| `parts`: connection | stream and packet, every choice of ends with `CloseWrite` | `OnCloseOnce`, `EndsTogether` | the close handler runs once, and both ends close |
| `storage`: history | 2 outbounds, 2 results | `SavedWhenClean` | results applied during a save are not taken for saved |
| `storage`: rule set | 3 versions, with and without Etags | `NotModifiedTrue` | a 304 is never said of rules that are not held |
| `storage`: selector | 2 callers, 2 connections, 2 outbounds | `NoStaleConn`, `SelectionKept` | no connection is left behind, a restart finds the selection |
| `storage`: balancer | 3 outbounds, 4 strategies, 2 results, 1 connection, of the box or external | `FairTurns`, `FollowsLowest` | equal turns, and no connection left on a slower outbound |
| `storage`: urltest | 2 outbounds, one of them with UDP, 1 connection, 2 tolerances, 1 store by others | `SteadyChoice`, `FollowsChoice` | the selection changes only for one that is better by more than the tolerance, and connections follow it |
| `storage`: DNS over TLS | 3 queries, 2 connections, 1 closer | `OwnAnswer`, `NoConnLeft` | an exchange gets its own answer although no id is compared; `Close` leaves no connection but the named ones |

Why the bounds are enough for the interesting cases:

- `connector`: one caller dials, one waits, and a third comes in between the
  failure and the wake-up; two connections let an old one die while a new one is
  dialed.
- `dns`: with two ids and three queries an id is taken over while the answer
  to its former owner is on the way, and the ids run out.  Two
  IPv4 addresses for two domains, and one IPv6 address, make a range wrap around and
  take an address away, and the second configuration has another IPv4 range and no
  IPv6.  Three callers of one question are one that asks, one that waits and one that
  comes between the removal of the lock and its closing.
- `udp_close`: one id, so that the second query fails or takes it over; each large
  query may be the one that raises the buffer size and resets the connector, while the
  other is on the connection.
- `monitor_chain`: queues of capacity 1 overflow; `ReadyLimit = 2` makes cycle 1
  put off its tasks and cycle 2 not; two cycles.  Two workers that test one
  outbound side by side are covered by the proofs of `FlagsBacked` and
  `StageAccounting`, which hold for any number of workers.
- `notifier`: one watcher, since watchers do not interact but through the locks;
  the proof covers any number of them.
- `xhttp`: a queue of one place fills up, so that a `Push` waits with the mutex; three
  chunks may overtake one another, and with the second copy of a repeated POST the
  gap grows too large; two chunks fit in one POST, which `Read` may take in parts.
- `parts`: for the timer, the second start overlaps the stop of the first and two
  touchers compete.  With buffers of 2, 1, 2 and 2 bytes and a limit of 2 the pipe
  takes two buffers and then is full.
- `storage`: two results let one be applied before and one while a save reads; three
  versions let the server change twice between load and save; delays of 60 and 500
  with a ratio of 4 fall on both sides of what is acceptable (400), and 65535
  overflows; delays of 100 and 200 with tolerances of 50 and 150 make a change of the
  selection necessary and forbid it, and the one store by others falls into a scan;
  with two connections for three exchanges over TLS one is reused.  The hashing
  strategies, which the two properties of the balancer are not about, and the
  behaviours with an external connection start without a saved history; `OtherN = 4`
  is one place more than the balancer has.  In the urltest group one outbound with UDP
  keeps the instance small; the proofs of its properties hold for any set of them.
- `service`: the third instance is needed to have one that is neither current
  nor being replaced; the third caller to overlap a hanging start with a reload
  and a stop.

Deadlock checking is off where the system may come to rest: bounded calls are
used up, everything is closed, or (in `service` and the timer of `parts`) the
program has panicked.

## 4. Fairness

The specifications `Spec` have none; `FairSpec` adds, for each module (the
comment above its `Fairness` says which and why):

- *weak fairness of every goroutine's steps*: the Go scheduler runs every
  runnable goroutine;
- *strong fairness where a step competes*: `sync.Mutex` and `sync.RWMutex` serve
  waiters in turn, a channel serves its senders in turn, and a `select` chooses
  at random among ready cases and so does not pass one over for ever;
- *timers fire and deadlines expire*: the fairness of `UDPTransport` has this,
  because the DNS client gives every query a deadline and `Close` has one of its own;
  `Connector` alone does not need it.
- *XHTTP*: requests arrive or fail, timers fire, the handlers go on, and a
  connection that has met an error or its end is closed; nothing is assumed of the
  application nor of when the GET ends otherwise.  *Connection manager*: a handshake
  has a read deadline and a read of a closed end fails; a copy whose source stays
  open may go on for ever.

Nothing is assumed of the network, of callers, of readiness, of the TCP retry or
of `Box.Start`.  Only `ReadySpec`, for the run whose property is violated, adds
that outbounds become ready.

## 5. The proofs

Every safety invariant that a passing run of section 3 checks is also proved, for every value of the constants that satisfies the `ASSUME`
of its module: any number of callers, queries, outbounds, connections and ids, any
capacity and any bound.  Sets may be infinite, except where the code counts:
`OutboundMonitor` needs finitely many outbounds and workers, and a group has finitely
many members.

| Module | About | Theorems |
|---|---|---|
| `ConnectorProofs` | `Connector` | `ConnectorSingleFlight`, `ConnectorNoOrphan`, `ConnectorClosedDrains` |
| | `URLTestGroup` | `URLSteadyChoice`, `URLFollowsChoice` |
| `DNSProofs` | `BaseTransport` | `BaseCloseDrains`, `BaseWaiterBacked` |
| | `TLSTransport` | `TLSOwnAnswer`, `TLSNoConnLeft` |
| | `DNSClient` | `ClientCoalesced` |
| `UDPTransportProofs` | `UDPTransport` | `UDPOwnCallback`, `UDPNoCrossTalk`, `UDPCloseLeavesNothing`, `UDPWaiterBacked` |
| `OutboundMonitorProofs` | `OutboundMonitor` | `MonitorFlagsBacked`, `MonitorStageAccounting` |
| `GroupNotifierProofs` | `Broadcaster`, `GroupNotifier` | `NotifierMapHoldsOpen`, `NotifierNoLostChange` |
| | `Balancer` | `BalancerFairTurns`, `BalancerFollowsLowest` |
| `MonitorTimerProofs` | `MonitorTimer` | `TimerOneLoop`, `TimerTickerServed`, `TimerNilTicker` |
| | `MonitorHistory` | `HistorySavedWhenClean` |
| | `FakeIPStore` | `FakeIPResolves`, `FakeIPAnswerInRange` |
| | `Selector` | `SelectorNoStaleConn`, `SelectorSelectionKept` |
| | `RemoteRuleSet` | `RuleSetNotModifiedTrue` |
| `PartsProofs` | `StartedService` | `ServiceSerial`, `ServiceNoInstanceLeft`, `ServiceStartedRuns` |
| | `Pipe` | `PipeNoLostSignal` |
| | `ConnectionManager` | `ConnectionOnCloseOnce`, `ConnectionHalfClose` |
| `UploadProofs` | `XHTTPUpload` with `UploadQueue` and `ChunkPipe` | `UploadInOrder` |

`UDPWaiterBacked` and `NotifierMapHoldsOpen` are about a part inside the whole: the
proofs show that every step of the transport is a step of `BaseTransport` and of
`Connector` or leaves them alone, likewise the notifier and `Broadcaster`, and so the
inductive invariant of the part holds in the composition.

### The inductive invariants

Each is defined at the end of the module it is about.

- `ConnInv` adds to `SingleFlight` and `NoOrphan` that nothing is cached while a dial
  is in progress or after `Close`, and that only a caller that has dialed holds a
  connection: without it the end of a dial could overwrite an open one.
- `BaseInv` ties `inFlight` to the set of running queries, and the channel to their
  not being over.
- `TLSInv`: an open connection is in the list, without an answer left in it, or in
  the hands of one exchange; a closer empties the list before it changes the state,
  and what is put there afterwards is in `strays`.
- `ClientInv`: before the outcome is known only the owner of the lock asks, afterwards
  nobody gets as far as the transport.
- `UDPInv` adds the converse of `OwnCallback` (an entry belongs to a registered
  exchange) and that every datagram carries the id its exchange still has.
  `CloseInv`, for `CloseLeavesNothing`, joins the invariants of the two parts: the
  running queries are those between the two ends of `Exchange`, whoever is inside
  `Get` is at that call, and a `Close` that has returned has closed the connector.
- `MonitorInv`: a worker past the queues holds a task; queue operations preserve the
  set of tasks on their way.  `AccountInv`, for `StageAccounting`: only the tasks of a
  cycle want a reply, they are never priority tasks, and a stage expects at most one
  result for each target it is through with, so `resultCh` is never full when a
  result is sent.
- `NotifierInv` adds `Frame`: the read lock is held exactly while the loop publishes,
  and a watching worker has an open channel.
- `TurnsInv`, for `FairTurns`: of the outbounds in the rotation, the `k` whose turn
  comes next are one turn behind the others.  The proof shows that the places of the
  sorted list, which are defined by cardinalities and `CHOOSE`, are a bijection, and
  that the outbounds of the rotation have the first places.
  `LowestInv`: until the worker is to interrupt, what was chosen is the lowest.
- `ScanInv`, for `SteadyChoice`, describes a `Select` between two of its steps:
  nothing that it has passed beats what it has by more than the tolerance.
  `ChoiceInv`, for `FollowsChoice`: a selection that replaces another is remembered in
  `updated` until the interruption.
- `TimerInv`: until `Close`, a run is in the custody of its starter, then of its loop,
  which stops it, and the next start waits for a nil ticker.
- `HistoryInv`: without an overlap, what a save has read while `cacheDirty` is down is
  still so, because `applyResult` raises the flag before it changes anything, but for
  the outbounds in `overwritten`.
- `StoreInv`: a bucket holds addresses of its family, and whatever may be saved as
  metadata is of the ranges that the stored addresses lie in.
- `SelectorInv`: without a race the last selection is on its way to the file.
- `RuleSetInv`: outside `fetch` an Etag is that of the rules held, and a saved one that
  of the content saved with it.
- `ServiceInv`: lock and status together tell who may touch `s.instance`, and an
  instance about to be replaced is closed.  `StarterInv` adds that each instance has
  one starter, and that a closed or failed instance under the status `STARTING` has a
  starter that will report it.
- `PipeInv`: every change of the data is followed by its signal.
- `ConnectionInv`: what the shared flag tells of the two copies.
- `UploadInv`, for `InOrder`: there is a function `cut` such that the `seq`-th POST
  carries the buffers after the `cut[seq]`-th as far as the `cut[seq + 1]`-th, and the
  pipe those after the last POST (`Sent`).  Each POST, and the copy of a repeated one,
  is in one place: on its way, with a handler, in the channel or in the heap
  (`OnePlace`).  The reader has delivered everything before the `cut` of the POST it
  wants next, or is inside that POST and nobody else has it (`Delivers`).  The cuts are
  chosen by the steps that take buffers from the pipe; an existential in the invariant
  spares the model a history variable.

The invariants were checked with TLC on small instances before they were proved.  The
proof that a step preserves one has a step per action, and under it one per conjunct
that the action can disturb; the temporal theorems combine the initial and the
inductive step with `PTL`.  Leaves without arithmetic cite `Zenon`: in modules with
many variables it finds them sooner than the SMT translation.

### The assumptions

- `NoConnAssumption`, `UDPAssumption`, `NoTaskAssumption`, `ServiceAssumption`,
  `TimerAssumption`: the special values (`NoConn`, `NoQuery`, `NoTask`, `NoClient`,
  `Nobody`, `Closer`) are not ordinary ones; there is at least one id and one run.
- `PipeAssumption`, `QueueAssumption`, `NotifierAssumption`, `MonitorAssumption`:
  capacities are natural numbers, positive where the code makes them so; buffers are
  not empty; tables have the right domains; an outbound is not a group.
- `UploadAssumption`: sessions are numbered from 1 to some number; how often a POST is repeated is bounded by any number.
- `RoutingAssumption`, `URLTestAssumption`: a balancer has at least one outbound;
  delays and tolerances are numbers (of 16 bits in the urltest group); `Nil`, a torn
  value and the checking goroutine are none of the values they could be mistaken for.
- Hypotheses of single theorems: `Unset` is no table of histories (`BalancerFairTurns`,
  `BalancerFollowsLowest`); `Nobody` is no caller (`ClientCoalesced`); the default is
  one of the outbounds, `Nil` is none and options are Boolean (`Selector...`); `Nil` is
  no version (`RuleSet...`); a connection is a stream or a packet one
  (`Connection...`); the timeout is a positive number (`HistorySavedWhenClean`).

## 6. What is only model-checked

- All liveness properties, since the prover has no rules for fairness and `ENABLED`:
  `NoLostWakeup`, `ExchangeReturns`, `CloseFinishes`, `CycleEnds`, `PriorityServed`,
  `ChangeSeen`, `StopEnds`, `AcceptedDelivered`, `CloseReturns`, `WriteReturns`,
  `EndsTogether`.
- That `Retested` and `SessionDeleted` fail (section 7).

What is only proved, and checked by no run: `CloseDrains`, `ClosedDrains`, `OneLoop`,
`Serial`, `StartedRuns`, `HalfClose`, and `WaiterBacked` of the base transport alone.
Each was checked by TLC before its proof was written.

## 7. Where the code and its comments disagree

`InvalidateTest` "marks the cached test result as invalid so it will be retested"
(`common/monitoring/outbound_monitoring.go:410`).  The run `monitor_retest` shows
a behaviour, under fair scheduling and with an outbound that becomes ready, in
which it is never tested again: the outbound is not ready when a worker takes its
priority task, the task is put off, and when it is enqueued again it is turned
away as a duplicate by the flag that it set itself (line 716).  From then on the
flag also keeps the outbound out of every cycle.

After a GET, "the connection is finished. disable automatic session reaping, and
handle it in defer" (`transport/v2rayxhttp/server.go:237`).  The run `xhttp_delete`
shows a behaviour in which the deferred deletion never runs: a POST waits in `Push`
for room in the full channel and holds `writeCloseMutex`
(`transport/v2rayxhttp/upload_queue.go:54`); what the session is connected to ends, so
nobody reads the channel any more and the GET's handler goes on to close; its `conn.Close` waits for the mutex.  Both handlers and the
session stay.

Properties that name an exception say what the code does not guarantee:

- `FlagsBacked`, `CycleEnds`: a flag stays without a task, or a stage waits for
  ever, after a full queue or after a put-off task was refused.
- `NilTickerOnlyAtClose`: `Close` during a start or a stop may meet a nil ticker.
- `NoLostChange`: a change inside a nested group puts no token in the outer one.
- `StartedRuns`: a start that ends after a reload has put another instance in
  place reports its outcome for that one.
- `InOrder`: a POST that is sent twice and also read in parts is repeated.
- `AcceptedDelivered`: a POST that is lost or turned down without notice takes all that
  was written after it along; the queue waits for it (`dialer.go:155`).
- `SavedWhenClean`: of two overlapping saves the older snapshot may be written last;
  the error of a failed one is ignored although `cacheDirty` is down already; and what
  others store in the shared `HistoryStorage` overwrites the monitor's entry without
  raising `cacheDirty`.
- `AnswerInRange`: `FakeIPReset` fails as long as one family was never asked for, and
  `Start` ignores it.
- `NotModifiedTrue` needs a server that is consistent about Etags.
- `SelectionKept`, `NoStaleConn`, `FollowsLowest`: a store that is overtaken or fails;
  a connection that is registered after its outbound has been left.  With
  `FollowsLowest` external connections stay where the option says so.
- `SteadyChoice` is about delays that can be compared: the delay of a failed test plus
  the tolerance wraps at 2^16.  `FollowsChoice`: a connection that is registered after
  its outbound was replaced stays, and so do external ones where the option says so.
- `NoConnLeft`: a connection over TLS that is given back after `Close` has emptied the
  list and before it has changed the state stays open.
- `OnCloseOnce`: after a failed handshake the close handler is called up to three
  times.  `EndsTogether`: a packet connection whose success cannot be reported is
  closed without it, and `Close` after a clean end of the upload leaves the download to
  its remote end.
- `Coalesced`: an expired rejection is deleted in a transaction of its own, together
  with one that was saved in between (`rdrc.go:58`).

Two more things are in the models and stated by no property, since no document
promises anything: `Alive` of the balancer compares the recorded delay, also of a
cached history that `common.go:85` does not trust; and a second `SignalChange` after
the notifier's end blocks its caller (`outbound_monitoring.go:351`).

## 8. What is not modelled

`PROJECT.json` lists every part with its reason.  The mapped definitions stand for
about 4% of the lines of the implementation.  Most of the rest has no state of its
own that a model could say something about:

- the protocol adapters, TLS, V2Ray transports, multiplexing, DNS over HTTPS and QUIC are
  framing and option handling around libraries; what could go wrong is in the bytes
  or in the library;
- `option/` and the generated code are data types; the platform code (`libbox`,
  `tun`, process search, network monitors) is system calls;
- the vendored helpers under `common/` are pure conversions.

Of the parts with behaviour these are left out:

- of the URL test group, the ticker with its idle timeout, which is like the
  monitor's timer;
- the outbound, inbound, endpoint, service and DNS transport managers: each is one
  map behind one lock, filled while the box is built; only `box.New` calls `Create`
  while it runs alone;
- the stages inside `Box.Start`, which `StartedService` abstracts to their outcome;
- the router's rule loop and the DNS router: sequential functions of a rule list
  whose properties would restate them;
- `waitForStarted`, the subscriptions and the other remote calls of the daemon;
- stream-up, stream-one and the connection pool of xhttp; the DNS client's rewriting
  of answers; `ReadMultiBufferTimeout` of the pipe; local rule sets.
