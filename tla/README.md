# rigplane: models and proofs

TLA+ modules for rigplane (package `src/src/rigplane`): how commands are queued,
executed and matched with the radio's answers, how the connection below them is
built, watched, lost and rebuilt, the links to the radio (UDP, serial CI-V, Yaesu
CAT), the servers above (rigctld, Web), and the ways of audio and scope data. TLC
checks the modules on small instances; TLAPS proves every safety property that a
passing run checks, for all values of the parameters. `PROJECT.json` maps every definition to the
source lines it models.

All line numbers below are of files under `src/src/rigplane` unless a path says
otherwise.

## 1. The system

rigplane is one asyncio process. A *radio object* (`runtime/radio.py`) owns the
connection to one transceiver. On top of it a Web server, a rigctld (Hamlib)
server, audio bridges and command line tools share the radio; below it are UDP
sockets (control, CI-V, audio) or a serial line. Everything runs in one event
loop: there is no parallelism, but every `await` is a point where any other task
may run and change the state that was just read. This is where the hard
behaviour of the system lies, and the models take it as their unit: **one action
is what one task does between two awaits that really suspend.**

```
 Web server    rigctld server    audio bridge    CLI         consumers
     |               |                |            |
 command queue   poller, breaker   audio bus       |         front ends
     +---------------+-------+--------+------------+
                             |
        radio object: commander -> CI-V execution            command path
                             |        ^
                             |   request tracker <- receive pump
        lifecycle: connect, watchdogs, reconnect loop        connection
                             |
        IcomTransport (UDP)  |  serial link  |  Yaesu CAT    transports
```

### Inventory

| Component | State it keeps | Operations | Talks to | What is hard | What makes it correct |
|---|---|---|---|---|---|
| Command executor, `commands/commander.py` | a priority queue, a worker task, a future per command, a table of keys | `start`, `stop`, `send` (priority, key, dedupe, timeout), the worker loop | callers await futures; the worker awaits an inner task that runs `execute_civ_raw` | a cancelled future, a cancelled worker and a cancelled caller meet in one `except`; calls share futures; calls arrive during `stop()` | no future forgotten; order within a priority; keys name live commands; final outcomes; `stop()` returns |
| CI-V request tracker, `core/civ.py` | ACK waiters, response waiters, a backlog of orphan frames, a generation | register, unregister, resolve, drop sinks, clean up, fail all | called by the execution (registers) and by the pump (resolves) | ACK and NAK frames do not say what they answer | the answer given to a command is the radio's answer to that command; no leaked waiter |
| CI-V execution and pump, `runtime/_civ_rx.py` | the progress of a command, deadlines | `execute_civ_raw`, `execute_civ_transaction`, pump, generation changes | commander above, tracker beside, transport below | drains, deadlines and teardown between registration and answer; transactions bypass the commander | as above, and nothing of an old session survives |
| External CAT session, `runtime/radio.py` | an ownership flag | claim, release | pollers test it, transactions claim it | a test made before an await is stale after it | a transaction's answer is its own |
| Connection lifecycle, `runtime/_control_phase.py`, `runtime/radio_reconnect.py`, `runtime/_civ_rx.py`, `runtime/radio.py` | `_conn_state`, control and CI-V transports, five tasks, two references to recoveries | `connect`, `disconnect`, `soft_disconnect`, `soft_reconnect`, watchdog, data watchdog, recovery | all of the above stop and start with it | three coroutines build and tear down the same transports; tasks cancel themselves; partial failures | a disconnect is complete and final; no state that nobody works on |
| UDP transport, `core/transport.py` | sequence numbers, missing table, buffer of sent packets, bounded queue | connect, disconnect, send, receive, retransmit in both directions | lifecycle, pump, audio | loss, duplication, reordering, 16-bit wrap, eviction | what is asked for is what is missing; what is resent is what was asked for; requests end |
| rigctld server, poller, breaker, `rigctld/` | clients, spawned tasks, `write_busy`, hold time, breaker state | accept, execute, quit, `stop`; poll cycle | handler, radio object | one flag for many clients, starts and stops that overlap, half-open probes | the poller follows the clients, yields to writes and resumes; the breaker closes again; `stop()` leaves nothing |
| rigctld handler, `rigctld/handler.py` | pending writes, a fallback cache | get and set of frequency, mode, PTT | radio object, `RadioState` | writes are not confirmed, reports come late | a client reads what it wrote |
| Web command queue and poller, `runtime/_poller_types.py`, `web/radio_poller.py` | queued segments, a drained batch, the VFO slot | `put` with coalescing, ordered steps of HTTP batches, drain, queries, slot swaps | radio object | coalescing against order, a batch lost half way, a swap that is not undone | the last write wins; steps keep their place; the slot is restored; an external session gets the wire |
| Web state broadcast, `web/_delta_encoder.py`, `web/server.py`, `web/handlers/control.py` | last encoded state, a queue per client | broadcast, full refresh, register, send | clients | one encoder, clients that miss deltas | a client's picture converges |
| Scope switching, `web/server.py` | scope clients, a flag, grace and waiting tasks, a monitor | register, unregister, reconnect, check | command queue | five places decide, a queue may swap two commands | whoever watches gets the scope |
| Scope assembly, `scope/__init__.py` | the packets of a sweep per receiver | `feed`, `shed_incomplete` | CI-V pump, scope clients | cut, repeated and late sweeps | a sweep that arrives whole is shown as sent |
| Audio bus, `audio/bus.py`; stream and recovery, `audio/lan_stream.py`, `runtime/_audio_*.py` | subscriptions, a lock, the stream's state, a snapshot | subscribe, start, stop; recover after a reconnect | transport, bridges, reconnect loop | deferred removal, a stream that takes a while to stop | nobody on a dying stream; audio comes back |
| Jitter buffer, `audio/lan_stream.py` | a buffer of packets, the next number | `push`, `flush` | audio stream | order, duplicates, the wrap | every packet once, at its place |
| Serial radio, link and session, `backends/_icom_serial_base.py`, `backends/icom7610/drivers/` | a frame buffer; a port, a reader and a writer task, flags of health, a watchdog | connect, feed, disconnect, `soft_reconnect` | commander, pump, Web | cuts, collisions, overflow; cancellations and failures at any await of a teardown | the frames found are the frames on the line; a radio at rest is whole or nothing |
| Yaesu CAT, `backends/yaesu_cat/` | a port, a lock, received lines, an error count | connect, close, reconnect, query, write; poll cycles | front ends | answers that carry a prefix only, late answers, a reconnect beside a user's connect | an answer goes to its query; a lost port comes back |

Left aside: the state cache, frame builders and parsers, scope rendering,
profiles and discovery, command line, routing, TLS, diagnostics and the DSP
pipeline. They hold data, presentation or numeric code without an interleaving
of their own; `PROJECT.json` gives the reason for each, and lists the hazards of
the code with the line where each bites and the property that would catch it.

## 2. The modules

| Module | Models | Checked in run | Proofs |
|---|---|---|---|
| `CommandService` | what the executor promises its callers, without queue, worker or futures | `commander` | |
| `IcomCommander` | `commands/commander.py`; implements `CommandService` | `commander`, `commander_stop`, `commander_shared` | `IcomCommander_proofs` |
| `CivRequestTracker` | `core/civ.py`, as operators and actions on the tracker's variables | `links` | `CivExecution_proofs` |
| `CivExecution` | `execute_civ_raw`, `execute_civ_transaction`, routing, generations; extends `CivRequestTracker` with two lanes of commands and a radio | `links`, `civ_verdict`, `civ_overlap` | `CivExecution_proofs` |
| `ConnectionLifecycle` | the life of the connection and its recoveries | `web`, `lifecycle_stall` | `Web_proofs` |
| `IcomTransport` | `core/transport.py`: handshake, what arrives, requests for retransmission, the queue | `links` | `IcomTransport_proofs` |
| `TrackedSend` | `core/transport.py`: what is sent and resent | `links` | `IcomTransport_proofs` |
| `SerialFraming` | the codec of `serial_civ_link.py`, beside a byte-by-byte reference | `links` | `SerialRadio_proofs` |
| `SerialRadio` | `_icom_serial_base.py` with its session, link and watchdog | `links`, `serial_stop` | `SerialRadio_proofs` |
| `ScopeAssembly` | `scope/__init__.py` | `links` | `Media_proofs` |
| `JitterBuffer` | the jitter buffer of `audio/lan_stream.py` | `links` | `Media_proofs` |
| `AudioPath` | the audio bus, the stream and its recovery | `links`, `audio_recovery` | `Media_proofs` |
| `RigctldServer` | `rigctld/server.py`, `poller.py`, `circuit_breaker.py` | `rigctld` | `RigctldServer_proofs` |
| `RigctldHandler` | frequency, mode and PTT of `rigctld/handler.py` | `rigctld` | `RigctldServer_proofs` |
| `YaesuCat` | `backends/yaesu_cat/` transport, poller, and a user | `rigctld`, `cat_port` | `RigctldServer_proofs` |
| `WebPoller` | `CommandQueue`, `web/radio_poller.py`, the HTTP batch | `web` | `Web_proofs` |
| `StateBroadcast` | the delta encoder, its clients and their queues | `web` | `Web_proofs` |
| `WebScope` | switching the scope on and off, `web/server.py` | `web` | `Web_proofs` (types) |
| `MCCommander`, `MCCivExecution`, `MCLifecycle` | instances for TLC | | |
| `MCWeb` | connection, queue and poller, broadcast, scope switch | `web` | `Web_proofs` |
| `MCRigctld` | server, handler, Yaesu radio | `rigctld` | `RigctldServer_proofs` |
| `MCLinks` | UDP in both directions, CI-V, serial radio and framing, sweeps, jitter, audio | `links` | `MCLinks_proofs` |

`MCWeb`, `MCRigctld` and `MCLinks` put several parts beside each other. The parts
of one such module share no state, so their product would only repeat each part's
behaviours: a variable `subject` chooses one in the initial state, and the
others stay as they begin. `calls` in `MCCommander` chooses in the same way what a
behaviour executes; `MCCivExecution` says what is executed as "commander" and as
"transactions" in `MCLinks`.

Variables named "history" in the comments record what happened for the
properties; no guard of the code's actions reads them (only the networks of
`IcomTransport` and `JitterBuffer` do, to bound how far packets are displaced). An operator marked "Mutant" is a
wrong form of the definition after it; it is not part of the model, and shows
that a property notices the difference.

### IcomCommander

The variables are the attributes of the class and the places where its tasks are
suspended. `queue` is a set: the heap order is the operator `Before` on
`(prio, seq)`. `fut[r]` is the future of the item of call `r`, `awaits[r]` the
request whose future the call awaits (another's, if it deduplicates).
`worker` is `get`, `pace` (the sleep of `min_interval`), `exec` (awaiting the
inner task) or `done`; `exec` is the inner task. asyncio's cancellation is
modelled as it works: cancelling a suspended task cancels what it awaits if that
can still be cancelled, and otherwise sets a flag (`mustCancel`) that raises at
the next resumption. This distinction is what the findings about `stop()` rest
on.

| Action | Code (`commands/commander.py`) |
|---|---|
| `Start` | `start()`, 58-61 |
| `SendRefused`, `SendJoin`, `SendQueue` | the three ways through `send()` up to its await, 97-117 |
| `GiveUp`, `Resume` | timeout or cancellation of the caller, and its resumption, 119-130 |
| `WorkerGet`, `WorkerSkip`, `WorkerDispatch` | `queue.get()`, the tests for an abandoned item before and after pacing, the start of the inner task, 148-186 |
| `ExecFinish`, `ExecCancelled` | the end of the inner task |
| `PropagateCancel` | the done callback of the future, 176-186 |
| `WorkerFinish`, `WorkerContinue`, `WorkerCancelled`, `WorkerCancelledIdle` | the `except` clauses and the `finally`, 188-222 |
| `StopDrain`, `StopJoined` | `stop()` before and after `await self._worker`, 63-85 |

`CommandService` is the contract: a call is refused, or pending on a provider
(its own command or a shared one); a command is performed at most once and only
while the call that submitted it is pending; a result needs a performed
provider; an outcome is final. The mapping `Service` in `IcomCommander` computes
status, provider and performed set from the detailed state.

### CivRequestTracker and CivExecution

A frame carries a ghost `of`, the command it really answers; the code never
reads it, the properties do. The radio (external) answers in the order of
reception, one answer for each command it answers, and `Lose` drops an answer.
Answers that come after their command has ended are the normal case of
`DeliverAck` and `DeliverResponse`. Time is abstracted: creation times increase
along each list, so an expiry removes some prefix, and `CollectStale` takes any.

Each command has a kind: blocking or fire-and-forget, write or read, through the
commander (one at a time) or as a raw transaction (one at a time, beside the
commander). Its progress `status` is `idle`, `draining` (waiting for older
sinks), `pacing`, `waiting`, `unwinding` (its deadline has passed and its
`finally` is to run) and one of the outcomes. `stray`, `overlap` and `alone`
are history variables: an ACK arrived that its command did not await; a transaction
and a commander command overlapped; the last command to begin, if it began when
nothing was under way, the radio owed no answer and the backlog held nothing the
command would accept (`Quiet`; sinks may be left).

### ConnectionLifecycle

Three actors run the operations: the user (with the commands that trigger a fast
recovery), the reconnect loop and the recovery of the data watchdog. `pc[a]` is
the await an actor is suspended at, `op[a]` the operation around it. `host` is
the radio object: the connection state, which actor created the current CI-V
transport, the open endpoints, the running tasks, the references held to the two
background actors, and pending cancellations. Closing a transport and sending a
datagram do not suspend, so a teardown is interrupted only where it joins a task
(`StopsFrom`, in the order data watchdog, recovery, worker, pump).

A cancelled actor ends at its await (`CancelDelivered`), except at such a join:
the code there has `except asyncio.CancelledError: pass`, which also swallows
the cancellation of the waiter. The recovery uses this: its cleanup cancels and
joins its own task. The loop uses it too: a failed startup check makes it cancel
itself in `disconnect()`.

| Actions | Code |
|---|---|
| `OpenCtrl`, `Handshake`, `OpenCiv`, `Discover`, `Flushed`, `StartupReady` and their failures | `_connect_once` and `connect`, `_control_phase.py` 113-489 |
| `UserDisconnect`, `Disconnecting` | `disconnect`, 491-545 |
| `UserSoftReconnect`, `SoftReconnecting`, `SoftStarts` | `soft_reconnect`, 547-678 |
| `UserSoftDisconnect`, `Stopped` | `soft_disconnect` and `_force_cleanup_civ`, `radio.py` 1074-1149 |
| `WatchdogTimeout`, `LoopAttempt`, `Raises` | `radio_reconnect.py` 33-165 |
| `Escalate`, `RecoveryStarts`, `RecoveryWakes`, `FallbackDisconnect` | `_civ_rx.py` 465-603 |
| `TickEnds`, `PumpEnds` | the loops of token, watchdog and pump that see the state change |

### RigctldServer

`conn[c]` is where the handler of client `c` is; `write[c]` what it executes (a
packet mode holds the poller for a settle time afterwards). `spawned` is the
sequence of `start()` and `stop()` calls of the poller that the server has created
as tasks and that have not begun. `pollTask` is the await the poll task is at, and
`breaker`, `failures` and `elapsed` are the circuit breaker with its recovery
window.

| Action | Code (`rigctld/`) |
|---|---|
| `Accept`, `Quit`, `ClientDone` | `server.py`, `_accept_client`, `_client_loop`, `_on_client_done` |
| `Command`, `CommandEnds` | the execution of one line, with `write_busy` and `hold_for` around it, 420-470 |
| `PrewarmEnds` | `_wsjtx_compat_prewarm` |
| `StartPoller`, `StopPoller`, `PollEnds`, `StopReturns` | `poller.py`, `start` and `stop`, and the task between them |
| `StopServer`, `ListenerClosed`, `StopServerEnds` | `server.py`, `stop` |
| `PollStep`: `PollWakes`, `FreqRead`, `ModeRead` | `poller.py`, `_run` and `_poll_once`; `circuit_breaker.py` |
| `HoldExpires`, `WindowElapses`, `RadioChanges` | time, and the radio |

Nothing in `src/` outside the tests constructs the poller and the breaker; the
server accepts them as arguments, and the module models a server that has both.

### RigctldHandler

Writes are sent without confirmation, so the handler remembers them until
`RadioState` reports them. Frequency, mode and PTT have a pending value each and
work alike; a behaviour is about one (`topic`). `Get` answers from the pending
write, `RadioState` or the cache, in this order; `GetAsks`/`GetAnswered` is the read
of the radio when nothing is known. `Set`, `SetData` (packet modes), `SetEnds` and
`SetFails` are a write; `Dial`, `Report`, `ReportArrives` and `CacheExpires` are the
radio and time.

### YaesuCat

`at[t]` is the await of task `t`, `lock` and `waiters` the transport's `asyncio.Lock`,
`buffer` the lines the stream reader holds, `wire` those under way. A line is a
prefix (`kind`), what it is (an answer, a rejection `?;`, an echo), and, for the
properties, the call it belongs to.

| Action | Code (`backends/yaesu_cat/`) |
|---|---|
| `UserCalls`, `Turn`, `LineRead`, `ReadFails`, `DrainEnds` | `transport.py`, `query` and `write` |
| `CycleDue`, `CycleRuns` | `poller.py`, `_run_poll_cycle` |
| `ClosingEnds`, `PauseEnds`, `CooldownEnds` | `transport.py`, `close` and `reconnect`; `poller.py`, `_try_reconnect` |
| `UserConnects`, `UserAsksStatus`, `UserDisconnects`, `UserGivesUp` | `radio.py`, `connect` and `disconnect`; a cancelled caller |
| `Arrives`, `Informs`, `Unplug`, `Replug` | the line, the radio and the cable |

### WebPoller

`segments` is the queue of `CommandQueue`: coalesced segments, with PTT commands
apart and one entry per type, and ordered segments of one step each. `task` is
where the poll task is.

| Action | Code |
|---|---|
| `Put`, `PutOrdered`, `StepTimesOut` | `_poller_types.py`, `put` and `put_ordered`; the HTTP batch in `web/server.py` 2812-3000 |
| `TopOfCycle`, `SkipEntry`, `Execute`, `ExecuteEnds`, `GapEnds` | `radio_poller.py`, `_run`: drain and execution |
| `QueryBegins`, `QueryEnds`, `WaitEnds` | `_run`: queries, backoff, waiting |
| `Swap`, `SlotQueried`, `SwapBack` | `_poll_unselected_slot` |
| `Stop`, `SessionChanges` | `stop`; external CAT sessions |

### StateBroadcast and WebScope

`StateBroadcast` has the state as a function from fields to values, with `Absent`
for a field that went away; `Broadcast` is one encoding for all clients, `Arrive`,
`Register`, `Send` and `Leave` a client, whose `view` is what it has put together.
`WebScope` has `Register`, `Unregister`, `GraceEnds` and `WaitEnds` for clients and
their timers, `Drain` and `Run` for the poll task, `ReadyChanges`, `Reconnected` and
`RefetchEnds` for the radio, `Frame` and `Check` for the monitor. A command to switch
is stored once per queue (the coalescing of `WebPoller`), and keeps the place of the
first of its type.

### IcomTransport and TrackedSend

Packets of the radio are counted without wrap; `WireSeq(k)` is the number the code
sees. `rxLast` and `rxMissing` are `rx_last_seq` and `rx_missing`; `net` holds what is
under way, and a packet may arrive from it any number of times or never. `Connect`,
`Discover`, `Ready` and `Disconnect` are the handshake, `Receive` and `ReceiveReply` what
arrives, `RetransmitTick` a round of requests, `Read` the reader, `RadioSends` the
radio. `state` never becomes "connected": the transport has that value and sets it
nowhere. `TrackedSend` is the other direction: `SendTracked` and `RadioAsks`.

### SerialFraming, ScopeAssembly, JitterBuffer

Three algorithms on data. `SerialFraming` runs the codec (`Feed`, `Expire`) beside a
reference that reads byte by byte (`ReadByte`), with bytes reduced to FE, FD, FC and any
other. The `while` loop of `feed()` is a fold (`Scan`) of one `Pass` of its body: a pass
that is not the last drops at least two bytes, so as many passes as there are bytes are
enough. `ScopeAssembly` feeds packets named by their sweep and number (`FeedFirst`,
`FeedNext`, `ShedIncomplete`). `JitterBuffer` pushes packets (`Push`) displaced by a few
places, and flushes at the end (`Stop`); the output is recorded with its places.

### SerialRadio

Two actors, the user (a Web client) and the watchdog, run the same operations.
`pc[a]` is the await an actor is suspended at, `radio` the radio object, its session
and its link: the flags of each, the port and the writer task of the link, and all
ports and writer tasks there are. Where an actor awaits a task that it has cancelled
itself (`worker`, `pump`, `writer`), `except asyncio.CancelledError: pass` swallows a
cancellation of its own; elsewhere (`Cancellable`) the watchdog ends.

| Action | Code |
|---|---|
| `UserConnects`, `UserDisconnects`, `WatchdogEnded` | `_icom_serial_base.py` 209-274, 599-607 |
| `UserReconnects` | a Web client's request, `web/handlers/control.py` 566-614: `soft_reconnect`, then `connect` |
| `WatchdogLooks` | `_serial_civ_watchdog_loop`, 609-660 |
| `WorkerStopped`, `PumpStopped` | `commander.py` 76-85, `_civ_rx.py` 200-206 |
| `WriterStopped`, `PortClosed`, `Opened`, `OpenFails` | `serial_civ_link.py` 196-244, `serial_session.py` 240-252 |
| `Serves`, `Trouble`, `PumpSpins`, `Plugged` | reader and writer, `serial_civ_link.py` 258-355; the pump, `_civ_rx.py` 688-693; the cable |

The recovery flags `_civ_stream_ready` and `_civ_recovering` follow the session's
readiness and are left out, as are the frames in the queues of the link.

### AudioPath

`lockQueue` is the lock of the bus with those who wait; the first holds it while
`holding`. `streams` are all stream objects made so far, `cur` the radio's.

| Action | Code |
|---|---|
| `Join`, `Leave`, `RemovalBegins` | `audio/bus.py`, `AudioSubscription.start` and `stop` |
| `AddSubscriber`, `BusOpened`, `RemoveSubscriber`, `BusStopEnds` | `_add_subscriber`, `_remove_subscriber` with `_start_rx` and `_stop_rx` |
| `Talk`, `Hush` | `_audio_runtime_mixin.py`, start and stop of a transmission |
| `Lost`, `Attempt`, `LoopStopEnds`, `ConnectFails`, `ConnectWorks`, `LoopOpened` | `radio_reconnect.py`, `reconnect_loop`; `_audio_recovery.py` |

## 3. What the runs check

| Run | Question | Result |
|---|---|---|
| `commander` | safety and liveness of the executor; does it implement `CommandService`? | holds |
| `web` | the lifecycle of the connection; the Web server's queue, broadcast and scope switching | holds |
| `rigctld` | server with poller and breaker; the handler; a Yaesu radio | holds |
| `links` | UDP in both directions; alignment of CI-V answers, waiters, generations, for commander commands and for transactions; serial radio and framing; scope assembly, jitter buffer, audio path | holds |
| `commander_stop` | does `stop()` return? | **violated** |
| `commander_shared` | is a call cancelled only on its own account? | **violated** |
| `civ_verdict` | is a rejection always the radio's verdict on that command? | **violated** |
| `civ_overlap` | is the answer of a transaction its own? | **violated** |
| `lifecycle_stall` | does an explicit disconnect stay in force during a recovery? | **violated** |
| `audio_recovery` | does audio that was received come back with the connection? | **violated** |
| `cat_port` | does a connected Yaesu transport have a port? | **violated** |
| `serial_stop` | does `disconnect()` of a serial radio stop the watchdog? | **violated** |

The properties, in words. Each passing run has one type invariant (`TypeOK`,
`WebTypesOK`, `ServerTypesOK`, `LinkTypesOK`) and:

*commander*
- `NoOrphan`: a pending future belongs to a command that is queued or in the
  worker's hands. The exception, named by the history variable `late`, is a
  command submitted while `stop()` joins the worker; its call never ends unless
  it has a timeout.
- `InOrder`: commands of one priority go out in the order of submission.
- `KeyTable`: a key in the table names a live command with that key.
- `Final`, `ImplementsService`: see `CommandService`.
- `AbandonedPollEnds`: a command whose caller has gone frees the worker, even when
  its execution hangs. `EveryPollEnds`: every call ends, `late` ones excepted.

*web*
- `CleanDisconnect`: a `disconnect()` that finds a working radio, with no recovery
  under way, leaves no transport, no task and no loop that reconnects, until the
  user connects again.
- `DisconnectingIsWorkedOn`: the state DISCONNECTING always has an operation behind
  it; otherwise every later `disconnect()` would return at once.
- `LastWriteWins`: of each type, the command put last reaches the radio last.
- `LaneIsExact`: a batch step runs after everything put before it and before
  everything put after it; PTT commands keep their order.
- `SlotRestored`: the radio is in the other VFO slot, and replies are sent to that
  slot, only between the two swaps. The exceptions: a swap was not sent (`swapLost`);
  `stop()` came during the swap back, and the replies stay routed (`cutShort`).
- `ExternalGetsSilence`: an external session that lasts is alone on the wire before
  long.
- `ViewAgrees`: a client that has missed nothing since it agreed with the encoder,
  or has got `FullInterval` + 1 broadcasts in a row, shows what was broadcast.
- `ScopeServed`: whoever watches a radio that is there gets the scope, unless the
  monitor has given up.

*rigctld*
- `PollerFollowsClients`: when all spawned starts and stops have run, the poller
  runs exactly while somebody is connected. The exception (`missed`): `start()` found
  the old task ending and did nothing.
- `HoldHasWriter`: the busy flag does not outlive the commands that set it.
- `PollYields`: no read of the poller begins while a client writes, unless the end of
  another write has cleared the flag they share (`exposed`).
- `StopLeavesNothing`: after `stop()` no client is served and nothing polls, unless a
  `start()` was spawned before and begins after (`late`).
- `BreakerCloses`: an open breaker closes once the radio answers and the poller is
  left alone.
- `ReadYourWrite`: a client reads back what it wrote until somebody writes or turns
  the dial, whatever reports are late.
- `QueryGetsItsAnswer`: a query is not answered with a line of another call, unless
  such a line is still under way when the query is sent.
- `PortComesBack`: while the cable is in, errors do not stay at the limit.

*links*
- `MissingExactly`: in the first connection, what is asked for is what has not
  arrived and has not been given up. `MissingEnds`: what is missing is filled or
  given up.
- `RightPacketResent`: what is resent is the packet asked for, of this round of
  numbers.
- `FramesAgree`: the codec finds the frames that the reference finds, and holds and
  times what the reference is in the middle of.
- `SweepsShownWhole`: a sweep that arrives whole and in order is shown as sent.
- `PlayedInPlace`: audio packets are played once, at their places, unless too late;
  the flush at the end may drop packets whose number has wrapped.
- `NoDyingStream`: when all is quiet, the stream runs exactly for its subscribers.
- `AnswerIsOwn`: while no ACK is stray and nothing overlaps, a command is answered
  by its own answer. `VerdictArrives`: misalignment does not last. Whatever was left
  behind before, a command that begins on a quiet link, and that no other joins, is
  settled by its own verdict alone, and as soon as that arrives.
- `WaitersAgree`: a command that has ended, in whatever way, has left no waiter
  behind, and a future that is pending has a waiter that can settle it.
- `CurrentGeneration`: waiters and orphans are of the current session.
- `SerialClean`: when the user and the watchdog rest, a connected serial radio has
  exactly one port open and everything that serves it, and any other has no port
  open and no task running. The exception (`doubled`): a `connect()` was made beside a
  reconnect of the watchdog.

The eight violations are disagreements between the code and what the repository
says of it, each with a counterexample:

1. **`stop()` can hang** (`commands/commander.py:195`). If the future of the command
   in flight is already cancelled when `stop()` cancels the worker, the worker takes
   the `CancelledError` for the caller's, continues with `queue.get()`, and
   `stop()` waits for it for ever. The comment at 191-194 treats the two cases
   as exclusive.
2. **A sharer cancels the owner** (`commands/commander.py:104`). A deduplicated call
   awaits the owner's future directly; its timeout cancels the command for the owner.
3. **A stale NAK becomes a verdict** (`core/civ.py:372`). The NAK of a poll nobody
   awaits is cached as an orphan and answers the next blocking write.
4. **A transaction reads a poller's answer** (`runtime/radio.py:1397`). Claiming
   the session does not wait for the command that is already in flight.
5. **A disconnect is undone** (`runtime/_control_phase.py:494`). During the cooldown of
   a recovery the state is RECONNECTING, so `disconnect()` returns at once and
   cancels nothing; the recovery then connects the radio again. The docstring of
   `stop_data_watchdog()` promises the opposite; the test that covers it mocks
   the cleanup in which the recovery drops the reference to itself.
6. **Audio stays silent after a second attempt** (`runtime/radio_reconnect.py:103`).
   Each attempt takes a snapshot of the audio after the attempt before has taken the
   stream down; once one has failed, nobody restarts the audio, and the bus
   believes it runs.
7. **A connected transport without a port** (`backends/yaesu_cat/transport.py:203`).
   `close()` waits and then drops the port without looking again; a user's
   `connect()` during the wait has opened a new one.
8. **A serial disconnect can hang** (`backends/_icom_serial_base.py:604`). It cancels
   the watchdog and waits for it. A watchdog in the middle of `soft_reconnect()` is
   often awaiting a task it has cancelled itself, and takes the cancellation for that
   task's: the reconnect goes on, the radio is connected again, and `disconnect()`
   waits for ever.

### Bounds, and why they are enough

- Commander: three calls, one key, two priorities. Two calls share or compete for
  the key while the third is of another priority; the protocol has one worker and
  one stop at a time, so three is the smallest number with a command in flight,
  one queued behind it and one that joins. Liveness is checked with the two calls
  of lower priority. Calls are made once; `start` and `stop` are unbounded. The
  proofs remove the bound for safety.
- CI-V: six commands (two blocking writes of one key, a read, a fire-and-forget write,
  a transaction awaiting an ACK and one awaiting data). A behaviour has any three of the
  commander's four, or the two transactions beside either the fire-and-forget write and
  a change of generation, or one unsolicited frame. A backlog of two frames.
  Misalignment needs a leaked waiter or sink, a command that produces it and one
  that suffers: three commands. A generation is only compared for equality with
  the current one.
- Lifecycle: one loop and one recovery at a time, unbounded user calls, and one
  kind of failure in a behaviour (`OneKind`): the radio falls silent, or its CI-V
  data stall. Both at once are 7.5 million states, too many for a run; both
  properties are proved for them. A recovery starts
  promptly after its creation, and no timer of several seconds expires during the
  few iterations of the event loop that a cancelled task needs to end (`Seconds`).
- Web queue: two coalesced types besides PTT and steps, three commands put: one
  to be replaced, one to replace it and one between, over any number of cycles.
  Queries, swaps, errors and sessions are unbounded.
- Broadcast: one client (clients do not affect each other), two fields, a full state
  every two deltas, a queue of two. Scope: two clients, so that one leaves
  as the other comes; two tasks of each kind at once; two repairs.
- rigctld: two clients, one write beside another; a threshold of two; three spawned
  coroutines, so that a stop falls between two starts. Handler: two clients, a report
  under way, and calls at once: two for frequency and PTT, one for the mode.
- Yaesu: one poller beside the user (the receiver's two pollers share a lock of
  their own), two kinds of command, two attempts per query, two errors to a
  reconnect, two lines under way or held. `cat_port` needs one kind, one line.
- UDP: four packets, numbered 6, 7, 0 and 1 modulo 8, gaps of at most two, two requests
  per number, a queue of two, two connections; sending modulo 4 with
  a buffer of two and seven packets, which is most of two rounds.
- Serial: ten bytes in chunks of up to four, frames of at most four. Scope
  assembly: two receivers, two sweeps, of one packet (network) or three (serial
  line). Jitter: nine packets around the wrap of numbers modulo 12, a depth
  of three, each displaced by up to two places.
- Serial radio: two faults of four kinds (a read or write that fails once, the cable
  pulled, the end of the stream, an unexpected error of the writer), four calls of
  the user, four ports opened: enough for a failure during the recovery from another,
  with a disconnect and a connect between. `serial_stop` needs one fault, two calls.
- Audio: two consumers, four subscriptions, one loss, one failed attempt, one
  transmission.

The bounds are constants of the modules or of the MC modules, marked "bound" where
they are declared; section 4 says which properties are proved without them.

### Assumptions about the environment

- asyncio of Python 3.12 or later: `wait_for` does not swallow a cancellation
  that races with a result. Opening a port with pyserial-asyncio does not suspend.
- `start()` of the commander is called only when no `stop()` is under way (the radio
  object does so under its lifecycle).
- The radio answers CI-V commands in the order of reception, and answers may be
  lost. In `CivExecution` the frames of the radio arrive in this order. The
  transport guarantees less: it hands packets on as they arrive, so that network
  reordering, duplicates and late retransmissions reach the tracker as they are.
- UDP: a packet is displaced by less than half the space of the numbers
  (`InWindow`); farther ones count as lost.
- rigctld: `Server.wait_closed()` returns without waiting for open connections
  (`WaitsForClients` is FALSE). With Python 3.12.1 and later it waits, while
  `stop()` cancels the clients only afterwards (`rigctld/server.py` 202): a client
  that stays connected keeps `stop()` from returning.

### Fairness, and why the code justifies it

The event loop resumes every task that is ready, and timers expire. So weak
fairness is assumed of steps that the loop owes to a task, and of nothing else:
nobody has to call, connect, stop or give up, and what a radio does is free.

- `IcomCommander.Fairness`: the worker, the done callback, the inner task's
  cancellation, the callers' resumption, the return of `stop()`. An execution may
  hang for ever.
- `PollStep` and `WindowElapses` of `RigctldServer`: the poll task runs while it is
  neither cancelled nor stopped; the window of the breaker is a matter of time.
- `TaskStep(t)` and `CooldownEnds` of `YaesuCat`: reads have timeouts, closing and
  the pause before reopening end.
- `TaskStep` of `WebPoller`: every command and query of the poll task ends; those
  that wait for the radio have timeouts.
- `SerialSpec`: an operation of the serial radio goes on after each await (tasks that
  are cancelled end, a port closes, opening has a timeout), and the watchdog wakes.
- `RetransmitTick` of `IcomTransport`: the loop runs while the connection is open.
- `WebScope.ScopeFairness`: the grace and waiting tasks end, the poll task drains and
  runs, the refetch ends, the monitor checks, and a radio whose scope is on sends
  frames (the one assumption about the radio, which `ScopeServed` names as "the
  radio is there").

## 4. What is proved

Eight modules `*_proofs` hold theorems for every value of the constants, from the
named assumptions of the modules they are about. Every invariant and every action
property that a passing run checks is one of them. In each part the safety properties
are not inductive by themselves; an invariant adds what they rest on. Its proof has a
lemma per action, or per part of the invariant and step.

| Module | Part | Theorems | Invariant, and what it adds |
|---|---|---|---|
| `IcomCommander_proofs` | `IcomCommander` | `Invariance`, `TypeCorrect`, `NoFutureForgotten`, `DispatchedInOrder`, `KeysNameLiveCommands`, `OutcomesAreFinal`, `Refinement` | `IInv`, see below |
| `CivExecution_proofs` | `CivExecution`, `CivRequestTracker` | `CivInvariance`, `CivTypeCorrect`, `NothingOutlivesItsSession`, `NoWaiterLeaks`, `AlignedAnswersAreOwn`, `VerdictsArrive` | `CivIInv`: waiters are registered by commands that await them, after their drain (`WaitersFit`); while nothing is stray and nothing overlaps, one command runs, its waiter waits alone and no orphan is kept (`Aligned`). `AloneInv`: while a command that is alone runs, the radio can answer nobody else and no sink is before its waiter |
| `IcomTransport_proofs` | `IcomTransport` | `MissingAlwaysExact`, `TransportTypeCorrect` | `LinkInv`: in the first connection `rx_last_seq` is the number of the newest packet recorded (`Follows`), no gap is hidden (`NothingHidden`), nothing is asked for twice (`NothingTwice`). `TransportInv`: the reads of a handshake stay within their limits (`HandshakeFits`) |
| | `TrackedSend` | `RightPacketAlways` | `SendInv`: the next number is that of the packets sent (`Numbers`), the buffer holds an interval of the last packets under their numbers (`Buffered`) |
| `SerialRadio_proofs` | `SerialRadio` | `SerialInvariance`, `SerialTypeCorrect`, `NothingLeftOnTheLine` | `SInv`: at each await of the one at work, what it has taken down (`At`, `Stage`), that the other rests or joins (`Alone`), and that the link's port is the one open (`Shape`) |
| | `SerialFraming` | `FramingInvariance`, `FramingTypeCorrect`, `FramesAlwaysAgree` | `FramingInv`: the codec holds exactly what the reference has read of a frame (`Held`), and times it when the reference is inside one |
| `Web_proofs` | `ConnectionLifecycle` | `ConnectionInvariance`, `ConnectionTypeCorrect`, `DisconnectingAlwaysWorkedOn`, `DisconnectIsClean` | `ConnectionInv`: an actor in a teardown is at a join (`Matched`); DISCONNECTING goes with a transport that is not forgotten and an actor at such a join (`Worked`); a loop at a join has been forgotten before (`LoopKnown`), so a disconnect that ran into no recovery finds the loop cancellable, and has left at each join only the tasks it has yet to stop (`Tearing`, `TornDown`) |
| | `WebPoller` | `QueueInvariance`, `PollerTypeCorrect`, `LastWriteAlwaysWins`, `LanesStayExact`, `SlotIsRestored` | `QueueInv`: the batch is older than the segments and these are in order (`Segmented`); the last command of a type is in the queue, or was the last to run (`Tracks`). `SlotInv`: the radio is in the other slot exactly, and replies go there only, between the two swaps, but for `swapLost` and `cutShort` |
| | `StateBroadcast` | `BroadcastInvariance`, `BroadcastTypeCorrect`, `ViewsAgree` | `BroadcastInv`: what a client shows, with what waits in its queue applied, is what the encoder broadcast last (`Agrees`) |
| | `MCWeb`, `WebScope` | `WebTypesCorrect` | `SwitchInv`: a command to switch waits once |
| `RigctldServer_proofs` | `RigctldServer` | `ServerInvariance`, `ServerTypeCorrect`, `PollerIsWhereClientsAre`, `NoHoldWithoutWriter`, `NothingAfterStop`, `PollsYieldToWrites` | `ServerInv`: the count is the number of clients (`Counts`); failures stay below the threshold in a closed breaker (`Breaks`); the flag has a writer, and who writes without it is exposed (`Holds`); spawned starts and stops alternate, the last is what the count calls for, and the poll task is what those that have begun have made of it (`Spawns`); what each stage of `stop()` has left behind (`Stops`) |
| | `RigctldHandler` | `HandlerInvariance`, `HandlerTypeCorrect`, `WritesAreReadBack` | `HandlerInv`: a write that nothing has touched is the only one, and the radio does what it has been told of it (`AloneIsDone`); what a client relies on is done by the radio, and is either pending, with no report that differs after one that agrees, or shown, with no report that differs under way (`Reliable`) |
| | `YaesuCat` | `PortIsExclusive`, `AnswersAreOwn`, `CatTypeCorrect` | `CatInv`: one task is between taking and giving back the lock (`Exclusive`); lines under way or held that the reader could take for its answer are its own (`OwnLines`). `LockInv`: who waits for the lock waits once, and exactly its holder reads or writes (`Queued`) |
| | `MCRigctld` | `ServerTypesCorrect` | |
| `Media_proofs` | `ScopeAssembly` | `AssemblyInvariance`, `AssemblyTypeCorrect`, `WholeSweepsAreShown` | `AssemblyInv`: while the packets of a sweep come in order, what is held is exactly what has come (`Holds`) |
| | `AudioPath` | `AudioInvariance`, `AudioTypeCorrect`, `NobodyIsLeft` | `AudioInv`: a subscription is its consumer's until a removal waits for it (`Members`); the call at an await is first at the lock and has done its part (`LockHeld`); unless disturbed or retried, at each await of the loop who receives is who should (`Sound`) |
| | `JitterBuffer` | `JitterInvariance`, `JitterTypeCorrect`, `PacketsPlayedInPlace` | `JitterInv`: the next number is that of the next place, and of as many places in a row as a packet can be displaced one is held (`Flowing`) |
| `MCLinks_proofs` | `MCLinks` | `LinkTypesCorrect` | |

**Compositions.** The parts of `MCWeb`, `MCRigctld` and `MCLinks` share no state, and
the lemmas `PartsOfWeb`, `PartsOfServer` and `PartsOfLinks` show that a behaviour of the
composition is one of the specification of each part; what is proved of a part
therefore holds in the runs' specification. The theorems about the serial radio and the
poll task are about `SerialSafety` and `PollerSafety`, which are their specifications
without fairness: they need none.

**Commander.** `IInv` adds three parts to the properties:

- `Control`: how the worker's position, the inner task, the item in hand, the
  cancel flag and `stop()` fit together (e.g. an inner task exists exactly while
  the worker awaits one; the queue is empty when nothing runs);
- `Calls`: for each call, which futures its progress allows: a waiting call
  awaits a future that exists, its own or that of another call with its key;
- `Order`: sequence numbers of queued, current and dispatched commands are
  distinct and below `nextSeq`, and whatever of a priority is on the wire precedes
  what is in hand, which precedes what is queued. `InOrder` follows from this,
  across restarts, because `nextSeq` survives `stop()`.

`StepRefines` maps every step under `IInv` to a step or a stutter of the service.

**Folds and lists.** What the queue flattens, what a client has applied, what the
codec and the reference have read, and which entry of a list is the first that fits are
computed by folds and functions on data. Their induction is over the length of a
sequence; since the induction theorems of the library cannot be used here, it is done
from the least element of a set of numbers (`WFMin` and `NatLessThanWellFounded`,
which are first-order: the least length at which a claim fails cannot exist). The lemmas
are stated once per module (`LeastNumber` and what follows it) and cited by name. For
the codec, each pass of the loop keeps `Looking` (what was dropped is what the reference
has read, or it is at a frame's start) or ends it with `Finished`.

**Assumptions on constants.** They are stated in the modules and are what the code
fixes or guarantees:

- `FrameSizes`: the limit on frames is at least 4; the constructor of the codec refuses
  less.
- `SizesAssumption` (UDP): the largest gap that is followed is less than half of the
  numbers (50 and 2^16 in the code).
- `JitterSizes`: packets are displaced by so little that their numbers are told apart,
  and that what is held fits a flush, whose cap is `5 * Depth + 1`. The
  displacement is the network's; a packet that comes from farther away may indeed be
  taken for another or be dropped by the flush.
- `LimitsAssumption`, `ThresholdAssumption` and the like: at least one attempt of a
  Yaesu query, a threshold of the breaker that is not zero, bounds that are numbers.
- Names for "none" are not names of anything (`NoReq`, `NoKey`, `NoCmd`, `Nothing`).

One theorem has a hypothesis besides: `MissingAlwaysExact` assumes `OneRound`, traffic
shorter than one round of the numbers. A missing number older than a round would be
forgotten when its number comes again; in the code requests end after about half a
second, long before. `ConnectionInv` makes no assumption on which failures come
together, so it covers what is too large for a run.

**Only model-checked.** Liveness (`AbandonedPollEnds`, `EveryPollEnds`, `BreakerCloses`,
`PortComesBack`, `ExternalGetsSilence`, `ScopeServed`, `MissingEnds`), since fairness and
ENABLED are outside TLAPS; and the violations, which are counterexamples.

## 5. What is not modelled, and what reading the code has shown

### Not modelled

- Lifecycle: what follows a failed `connect()`, which leaves CONNECTING and its
  transports behind (`runtime/_control_phase.py:170`), while `_connection_state.py`
  15-19 has a way back to DISCONNECTED; the watchdog and the token renewal, which
  `soft_reconnect()` does not start again (`runtime/radio_reconnect.py:46`); the retries
  within a handshake; the audio transport and its watchdog (`radio_reconnect.py`
  176-250). The loop and the recovery may rebuild the same transports
  (`radio_reconnect.py:97`): reachable in the model, but no property excludes it,
  because no document does.
- External CAT session: who claims it. Begin and end happen at any time in
  `WebPoller` and `RigctldServer`.
- UDP: the ping and idle loops, the callbacks for raw scope packets (not set in
  production).
- Serial: the frames queued on the link, the USB audio driver, the limits of the scope
  on a slow line.
- The Hamlib bridge and the audio bridge.
- rigctld: rate limit, wire format, and the handler's other commands.
- Web: the control client's commands one by one, the audio scope, HTTP routes.
- Audio: packet queues of the subscribers, codecs, packet parsing.
- Yaesu: `start`, `stop` and `pause` of the poller and its command queue, the
  parser and the command table.
- State cache, CI-V builders and parsers, profiles and discovery, command line,
  routing, TLS, diagnostics, validation tools, scope drawing, DSP: data,
  presentation or numeric code, without an interleaving of their own.

### Limits of the code that the models show or respect

These are not findings of a run: either no document says otherwise, or a property
states them as its exception.

- **Scope**: after `shed_incomplete()` or the timeout in mid-sweep, the rest of the
  sweep is still collected and published under the old header
  (`scope/__init__.py` 163-169, 228), where `docs/internals/architecture.md:604`
  says partial frames are discarded; sweeps with a lost packet come out short;
  pieces are collected without bound if the last packet never comes.
- **Transport**: queue, `rx_last_seq` and the missing table survive
  `disconnect()` and `connect()`, so `MissingExactly` speaks of the first
  connection; the packet numbered 0 is not recorded; a number is asked for five times
  where `docs/api/transport.md:137` says four; a full queue drops its
  oldest entry for an answer, and a CI-V answer may be that entry while scope
  packets stay.
- **rigctld**: the split rollback runs on errors and not on a cancelled command;
  a mode set with passband 0 leaves a pending filter that no report equals, so the
  pending write hides later reports (`ReadYourWrite` compares mode and DATA
  flag only).
- **Web**: coalescing keeps the first place of a type, so a frequency may move
  before a band change put earlier than it, and an enable and a disable of the scope
  change places (`ScopeServed` includes this); PTT is hoisted; `SetFreq` of main
  and sub receiver share an entry; a write of another front end during a slot swap
  reaches the other slot; a failed first swap is undone by a swap (`swapLost`);
  `stop()` during the swap back skips the line that ends the routing of replies to the
  other slot (`web/radio_poller.py:1992`), and they go there until the next query of it
  (`cutShort`);
  `stop()` loses what was drained; a client may show a state from between two
  broadcasts until the next full state.
- **Audio**: a failed start is logged and its subscriber stays deaf until the next
  one joins; a start fails while the stream transmits; `disconnect()` leaves the bus
  believing it receives; somebody who joins during an outage is deaf.
- **Jitter buffer**: the flush compares numbers without wrap
  (`audio/lan_stream.py:306`) and drops packets whose number has wrapped; a sender that
  restarts within half the space makes its packets stale.
- **Serial**: an overflow drops the frames found before it in the same chunk. When the
  stream ends, or the writer has failed, `receive()` returns at once, the pump takes
  that for a timeout and asks again without ever suspending (`_civ_rx.py` 688-693,
  `serial_civ_link.py:260`): the event loop stands still, the watchdog that should
  repair the link included (`PumpSpins`, `frozen`). A `connect()` that fails during the
  watchdog's retries sets DISCONNECTED, and the watchdog then skips every round. A
  Web client's request after a `disconnect()` is a `soft_reconnect()`, which starts no
  watchdog. A `connect()` beside a reconnect may open a second port that nobody closes
  (`doubled`). The branch for unrecoverable read errors (`serial_civ_link.py` 318-322) is
  unreachable behind an `except Exception`.
- **Yaesu**: a rejection of a write is drained, not raised, where
  `backends/yaesu_cat/transport.py` 15-17 says it is detected in `write()`; a late
  answer of a query that timed out is taken by the next query of its prefix, when it
  is still under way as that is sent (`doubtful`); timeouts do not count as errors; a
  `write()` counts as a success even when its read failed, and clears the error
  count; `disconnect()` during the pause of a reconnect does nothing.

### What is left

In the model, in this order: the failed connect and the token renewal in
`ConnectionLifecycle`; the handler's split and RIT; the bridges; the audio watchdog. Of
the properties the passing runs check, no safety property is left without a theorem.
