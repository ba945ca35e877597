# venue-core: a TLA+ model of the venue

venue-core is an exchange core: a matching engine per symbol, each behind a
sequencer that journals every command before it is applied, connected to the
rest of the venue by lock-free rings. This directory holds TLA+ modules
translated from its source, TLC configurations that check them on small
instances, and TLAPS proofs of what matters most for instances of every size.

Paths below are relative to the repository: `V/` is `venue/include/flox-venue/`
and `F/` is `include/flox/`.

## 1. The system

    gateways, FIX sessions, control plane
            |  submit()                           ^ events
            v                                     |
    EventBus (ingress ring) -> SequencedShard -> sink -> EventBus (egress ring)
                                 |  journal, checkpoint         |-> sessions
                                 v                              |-> market data
                               MatchingEngine (book, ledger, last look, clearing)

One shard serves one symbol. Its matching consumer is the only thread that
touches the engine. Everything the engine does is a function of the journaled
commands, the clock included: the sequencer stamps each command with a strictly
increasing time, and recovery replays the journal over the newest usable
snapshot.

| component | state | operations | what is hard | modelled |
|---|---|---|---|---|
| SequencedShard (`V/sequenced_shard.h`) | journal, segments, snapshots, last timestamps, staged events, checkpoint flags | submit, consume a command, end of a batch, checkpoint, publish, prune, recover, start, stop | write-ahead order, group commit, crash between any two file operations, an engine that throws half way, a clock that stalls | yes |
| Journal (`V/journal.h`, `F/util/file_io.h`) | open file, its durable length, record count | append, sync, rotate, load | torn records, an fsync that fails | partly |
| CheckpointLane (`V/checkpoint_lane.h`) | one owner for many shards | tryEnter, enterBlocking, leave | two atomics that are not written together, consumers that spin, requests that are skipped | yes |
| EventBus (`F/util/eventing/event_bus.h`) | sequence line, stamps, constructed flags, gating lines, caches | publish, tryPublish, publishBatch, consumer loop, start, stop, drain | lock-free claims, slot reuse, throwing listeners and events, stop under everybody's feet | partly |
| WakeSet and parking (`F/util/eventing/wake_set.h`, `park` of the bus) | hands, mutex, condition variable | park, wake | the last look before the sleep | yes |
| MatchingEngine (`V/matching_engine.h`, `V/matcher.h`, `V/engine/*`) | book, registers of each order, clock | new, cancel, modify, mass cancel, quote, tick | handlers that call each other, self-trade prevention in the middle of a sweep | partly |
| LastLook (`V/engine/last_look.h`) | holds with deadlines | hold, accept, reject, time out | every other command meets orders with slices out | partly |
| Public book (`V/market_data.h`) | orders on display, depth per price | one handler per engine event | orders that come back after they were reported gone | yes |
| MatchingBook (`V/matching_book.h`), LadderBook (`F/book/ladder_book.h`) | queues per price, price ladder, lists, node pool, id table | add, consume, reduce, cancel | icebergs, a full pool, colliding ids, two books that must agree | yes |
| Ledger and credit (`V/ledger.h`, `V/engine/credit.h`) | balances, reservations | reserve, release, settle | partial fills, holds and netting on one reservation | partly |
| Conditional orders, pegs, protection, client order ids (`V/stop_book.h`, `V/engine/oco.h`, `pegs.h`, `mmp.h`, `clordid_window.h`) | parked stops, groups, pegs, fill windows, generations of ids | trigger, reprice, cancel siblings, pull, rotate | cascades inside one command | partly |
| Trading session (`V/engine/session.h`, `session.inl`) | phase, halt, pause, auction | transitions, uncross, volatility pause | every path to the book has its own gate | partly |
| Clearing (`V/engine/clearing.h`, `V/engine/credit.h`, `V/cross_margin.h`, `V/collateral.h`) | positions, margin, caps, legs, collateral, insurance fund | trade, mark, fund, liquidate, deleverage, correct | order of liquidations, margin that changes owner, positions that move under resting orders | partly |
| Index, mark, funding (`V/index_feed.h`, `V/mark_feed_driver.h`, `V/funding_scheduler.h`) | sources, median, pause, calendar | update, drive, settle | staleness, a pause shared by drivers | partly |
| Sessions (`V/session_registry.h`, `V/fix_session.h`, `F/connector/fix/fix_initiator.h`) | streams, writers, aliases, resend logs, counters on both sides, sidecars | log on, deliver, resend, fill gaps, displace, detach, cancel on disconnect, restart | loss, replay, reconnection, a full queue, a crash of either side | partly |
| Gateways (`V/tcp_gateway.h`, `V/ws_gateway.h`, `V/tls_gateway.h`, `V/socket_acceptor.h`, `V/session.h`, `F/execution/rate_limit_policy.h`) | acceptor, descriptors, readers, writers, windows of the rate limit | accept, read, write, time out, stop | descriptors that are given out again, threads blocked on peers, stop() among them | partly |
| Market-data feed (`V/market_data.h`, `V/md_recovery.h`, `V/resend_buffer.h`, `V/md_distribution.h`) | sequence, ring and epoch of a symbol, held and ready messages, pending recovery, sessions | publish, observe, request, recover, subscribe, hand over | loss, duplication, reordering, a recovery that races late datagrams, a snapshot taken while the feed moves, restart of the publisher | partly |
| Codecs, control plane, metrics, tools, platform | | | input and output, text and byte layouts | no |

`PROJECT.json` lists every component with its sources, and the hazards of the
code at the line where each bites.

What makes each of the modelled components correct:

- a shard publishes no event that a power loss could make untrue, every restart
  serves a prefix of the history its journal accepted, and every promise an
  earlier incarnation made is in it;
- one checkpoint per lane at a time, and `checkpointNow` tells the truth and
  returns;
- the bus hands out a sequence once, rebuilds no slot under a reader, overwrites
  nothing unread, delivers what it accepted, and stops;
- no wake-up is lost;
- no quantity, reservation or unit of money appears or vanishes in the engine,
  however sweeps, holds, amends, expiry and self-trade prevention interleave;
- the public depth is what the book displays;
- a subscriber's book is the publisher's book at an earlier moment, whatever the
  network does, and a gap it knows of is being repaired;
- when a command ends, every stop the market has reached has fired, the losers of
  a group, a tripped maker's orders and expired orders are gone, nothing printed
  or rests where a state forbids it, and an uncross trades as much as it can;
- clearing makes no money, reserves exactly what backs something, leaves nobody
  below maintenance behind a sweep, and uses the insurance fund last;
- the fast book is the simple book, command by command;
- each direction of a FIX session is delivered at most once, in order and without
  a silent hole, and a connection that ends takes its orders with it;
- a gateway stops, silent peers go, and nobody acts on a connection that is over.

## 2. Modules

| module | models | extended by |
|---|---|---|
| `SequencedShard` | `V/sequenced_shard.h`, `V/journal.h` | `SequencedShardProofs`, `MCSequencedShard` |
| `CheckpointProtocol` | the threads around `doCheckpoint` and `V/checkpoint_lane.h` | `CheckpointProtocolProofs` |
| `EventBus` | `F/util/eventing/event_bus.h` without its waiting | `EventBusProofs`, `MCEventBus` |
| `BusParking` | its waiting, and `F/util/eventing/wake_set.h` | `BusParkingProofs` |
| `RestingBook` | `V/matching_book.h` | `MatchingEngine` |
| `SpotCredit` | `V/ledger.h`, the spot half of `V/engine/credit.h` | `MatchingEngine` |
| `PublicBook` | the public book of `V/market_data.h` | `MatchingEngine` |
| `MatchingEngine` | `V/matcher.h` and the handlers of `V/engine/` | `MatchingEngineProofs`, `EngineAnswerProofs`, `MCMatchingEngine` |
| `GapDetector` | `V/resend_buffer.h` | `MarketData` |
| `MdDistribution` | a session of `V/md_distribution.h` and its writer | `MarketData` |
| `MarketData` | the stream of `V/market_data.h`, `V/md_recovery.h` and the threads around a session | `MarketDataProofs`, `MCMarketData` |
| `LadderBook` | `F/book/ladder_book.h` | `LadderMatching` |
| `BoundedBook` | the abstract book: `RestingBook` with a band and a capacity | instantiated by `LadderMatching` |
| `LadderMatching` | `V/matcher.h` over the ladder, price-time and pro-rata | `MCLadderMatching` |
| `Conduct` | `V/stop_book.h`; `oco.h`, `pegs.h`, `mmp.h`, `stp.h`, `clordid_window.h`, `session.h` of `V/engine/` | `EngineSnapshot`, `Trading` |
| `EngineSnapshot` | `checkpoint.inl`, `checkpoint_restore.inl` of `V/engine/` | `Trading` |
| `Trading` | the handlers of `V/engine/` around the matcher | `MCTrading` |
| `Ledger` | `V/ledger.h` | `PerpClearing`, `CrossMargin`, `MarkFeed` |
| `PerpClearing` | `V/engine/clearing.h` and the margin half of `V/engine/credit.h` | `Clearing` |
| `CrossMargin` | `V/cross_margin.h`, `V/collateral.h` | instantiated by `Clearing` |
| `MarkFeed` | `V/index_feed.h`, `V/mark_feed_driver.h`, `V/funding_rate.h`, `V/funding_scheduler.h` | `Clearing` |
| `Clearing` | the commands that reach them | `MCClearing` |
| `FixInitiator`, `FixAcceptor`, `SessionRegistry` | `F/connector/fix/fix_initiator.h`, `V/fix_session.h`, `V/session_registry.h` | each other, `Sessions` |
| `Sessions` | client, connections, venue threads, engine, composed | `MCSessions` |
| `RateLimitPolicy`, `GatewaySession` | `F/execution/rate_limit_policy.h`; `V/session.h`, `V/cancel_on_disconnect.h` | `Gateway` |
| `Gateway` | the three gateways, `V/socket_acceptor.h` and the writers of `V/session_registry.h` | `GatewayProofs`, `MCGateway` |

The first four split one path, a command through the ring, the shard and its
checkpoints, at the places where the code's own interfaces are: `EventBus`
leaves out what a sleeping consumer does because the ring does not depend on
it, `SequencedShard` has one consumer and leaves the lane to
`CheckpointProtocol`, and `CheckpointProtocol` has no disk.

### SequencedShard

A command is the timestamp the sequencer gives it, so a file is a sequence of
timestamps and the engine is the sequence of commands applied to it; `-t` is the
half of command t left by an apply that threw, `TORN` is an incomplete record.
A file has a durable length, the part an fsync has covered. `files` and `snaps`
are the directory, `cur` and `count` are `journal_`, `pc` is where the consumer
is inside `onCommand`/`onBatchEnd`/`doCheckpoint`, `pub` is the background task
of `doCheckpoint`, `todo` and `rest` are `recoverAll`. `hist`, `acked`,
`promised` and `lossy` are history variables.

| action | code |
|---|---|
| `Submit`, `Sweep`, `RequestNow` | `submit`, `sweepOnce`, the request of `checkpointNow` |
| `AppendCommand`, `WriteFails`, `DropCommand` | the sequencing and journal half of `onCommand` |
| `ApplyCommand`, `ApplyThrows` | the engine half, and what `failed_` stops |
| `BatchSync`, `PublishStaged`, `BatchDone` | `onBatchEnd` under Group |
| `Boundary`, `RotateFlush`, `RotateReopen` | `doCheckpoint` and `Journal::rotate` |
| `PubWrite` ... `PruneLegacy` | the background publish, rename, and each file pruning removes |
| `Stop`, `Kill`, `PowerLoss`, `Rot` | an orderly stop, a process that dies, a power loss that takes any volatile suffix, a snapshot that no longer verifies |
| `StartRecovery`, `ReplayOpen`, `ReplayRecord`, `FinishRecovery` | `recoverAll`, `recover` |

`shard` is the deployment: the sync mode, the generations kept, the threshold of
a segment, what the clock may answer, which faults may strike, and the bounds.
The constructor fixes it; the constant `Deployments` is the set to choose from.

### CheckpointProtocol

Each shard has a ring (`backlog`), a record count, the two atomics
`checkpointRequested_` and `checkpointMandatory_`, and the future of its
publish. The sweeper, `checkpointNow`, the consumer and the background task take
one step per atomic operation, because the hazard is that the two flags are
written and read one after the other. A driven shard (`setOwnThreads(false)`)
takes its steps only when the shared driver is at it. Timestamps and files are
abstracted away; a snapshot covers a call of `checkpointNow` or it does not. A
shard is not modelled past its failure, and every command is a batch of its own.

### EventBus

One step is one atomic operation, or several that no other thread can tell
apart. A publisher goes through `Enter`, `ClaimLine` or `TryLine`/`Exchange`, the wrap
gate (`WrapLook`, `WrapScan`, `WrapStore`), the reclaim gate (`ReclaimLook`,
`FenceScan`, `FenceStore`), `Write`, `Stamp`, `Resolve`, or `PutBack` and
`Abandon` when the bus stops; a consumer through `Poll`, `SlotLook`, `Deliver`,
`Commit` and the drain. `StartFlag`, `StartOpen`, `StopFlag`, `Seal`,
`StopQuiet` and `Teardown` are `start()` and `doStop()`. The scan of all
consumers is one step (positions only grow while anybody scans), and a
consumer's position and its gating line are stored together. A stopped line sits at
`Closed`, so far below zero that the claims refused on it do not bring it back
(`ClosedAssumption`, the comment at `kSequenceLineClosed`). Nobody is inside
`publish()` while `start()` executes, as its comment takes for granted; section 4
says what happens otherwise.

### BusParking

The steps between an empty poll and the sleep, and those between a stamp and the
notification, each one atomic operation; sequentially consistent fences in the
code put them in one order. `Net` is the timed wait that backs the protocol up.

### RestingBook, SpotCredit, PublicBook, MatchingEngine

The book is two sequences of order records, the funds are balances and
reservations in whole units, the public book is the orders the publisher knows
and the size it shows at each price, driven by the events the handlers emit. The engine is sequential: `work` is the rest of the
command in progress, whose head is what the handler does next and which a
handler may extend, as it calls others. So each place where the code's state is
observable by a callee is a state of the model.

| action | code |
|---|---|
| `SubmitNew` ... `SubmitTick` | `dispatch.inl`, each after the expiry it runs first |
| `AcceptNew`, `RefuseNew` | `validate.inl`, `orders.inl`: admission, reservation, fill-or-kill plan |
| `StpRelieve`, `StpApply`, `SweepHold`, `SweepFill`, `SweepFilled` | the sweep of `matcher.h` |
| `KillResidual`, `RestResidual`, `RefuseResidual` | what becomes of what is left |
| `AmendInPlace`, `AmendReenter`, `AmendUnknown` | modify |
| `Pull`, `PullAll`, `ExpireOrder`, `ExpireOrders` | cancels, quotes, mass cancel, expiry |
| `ExpireHolds`, `RejectHoldsFor`, `RejectHoldsForAccount`, `AcceptHold`, `RejectHold`, `ResolveGone` | `last_look.h` |

Choices: the ledger is bound; no fees; price tolerance 0; `holdStillAllowed`
holds for spot; every price has a level in the ladder; commands come from the
owner of the order; an id may be used again once its order is gone, and its
history starts again; the node of a maker put back by a refused hold is the one
it gave up, so putting it back is refused only when the pool was taken meanwhile
(`Tight` reaches that).

### GapDetector, MdDistribution, MarketData

A message is its epoch and its number, so a book is the pair of them and a
subscriber has the publisher's book exactly when it applied a snapshot and then
every later message once, in order; `view.fault` records the first thing that
went wrong since the last snapshot ("hole", "stale", or "foreign" for a message
of another epoch). `net` is the bag of datagrams still under way: a copy may
arrive at any time or never. A feed has one subscriber, over datagrams or TCP.

| action | code |
|---|---|
| `Emit`, `Restart` | `emit` with the ring and the sink; a publisher built anew |
| `Receive`, `ReceiveTimeout`, `Surface` | `recv` of `RecoveringMdSubscriber`, with `GapDetector::observe` and its callbacks |
| `RecoveryFails`, `SnapshotRecovery`, `ReplayRecovery` | `attemptRecovery`; one round trip to `MdRecoveryServer`, which fails, ends early or is answered |
| `Subscribe`, `TakeAnswer`, `ArmSession`, `Unsubscribe` | a request of a session; `armFrom` in the three pieces between which increments come in |
| `WriteFrame`, `Disconnect`, `Reconnect` | the writer thread, a connection that goes, a new one |

A round trip is one step, at the moment the server answers: the subscriber does
nothing else meanwhile. So is the pair of `resendFrom` and `snapshotAtomic`: a
message trimmed from the ring does not come back, and a later snapshot serves as
well. A TCP subscriber asks for the book at any time and for a replay behind its
last message only on a new connection; one that asks for a replay while frames
are queued gets them twice, by its own doing.

### LadderBook, BoundedBook, LadderMatching

The ladder is translated array by array: nodes, levels with head, tail and total,
occupancy bits with a cached best level, the open-addressing table with its
backward-shift deletion, the free list. `LadderMatching` drives it with the sweeps
of the matcher, one command to the book per step (`PrintBest`, `Consume`,
`CancelMaker`, `Decrement`, `Finish`, `Amend`, ...), and records the command in
`call`. `BoundedBook` is what a book promises: the state is `RestingBook`'s two
queues, a step does to them what `call` says, and an order is refused only out of
the band or with the pool used up. `ImplementsOracle` is `BoundedBook`'s
specification with the queues replaced by the walk over the ladder, so every
command, at every step of every sweep, must leave the same orders in the same
priority and give the same answer.

### Conduct, EngineSnapshot, Trading

The engine runs one command to its end before the next, and these features act
inside a command, so a command is one step: `eng` is what the engine keeps between
commands and operators carry it through the calls the handler makes, in their
order (`expireOrders`, admission, match, `processTriggers`, `processOco`, protection,
`repeg`, the volatility check). Loops of the code are iterations with a named
bound, which is the number of passes that can change anything. `tape` holds what the
command printed and reported. Commands: `New`, `Modify`, `CancelOrder`, `MassCancel`,
`Quote`, `Admin` (the rows of `kSessionTransitions`), `Mark`, `TriggerRef`, `Tick`.
`Restart` is a process that ends between two commands and starts again from a
snapshot of that moment: `EngineSnapshot` writes the records in the order of
`checkpoint.inl` and an empty engine applies them one by one, each with the check that
may refuse the file. No ledger is bound here and last look is off; `MatchingEngine`
has both.

### Ledger, PerpClearing, CrossMargin, MarkFeed, Clearing

Money and prices are whole numbers and divisions truncate as the code's do. A desk
is an isolated-margin engine with its funding scheduler, or a portfolio of symbols
and collateral assets fed by mark drivers. The commands of the first: `New`,
`CancelOrder`, `MassCancel`, `Mark`, `Fund`, `Calendar`, `Close`, `Adjust`, `Limit`,
`Deposit`, `Withdraw`, `FundingTick`, `Tick`; of the second: `Trade`, `Source`, `Drive`,
`FundPortfolio`, `Reprice`, `Pause`, `WithdrawQuote`, `Age`. Liquidation, draining of
orders, the fund and auto-deleveraging are inside them, in the code's order.

### FixInitiator, FixAcceptor, SessionRegistry, Sessions

The handlers of both ends are operators on their state, which give the messages
they send; the venue's handlers give the registry calls they still have to make,
because the matching thread delivers between two of those (`VenueCall`). A message is
its type, its number, its possible-duplicate flag and the one field its type is
about. A connection loses whatever is in flight when it ends; a corrupted frame is
dropped by the reader, which is how a gap arises inside one connection.

| action | code |
|---|---|
| `ClientConnect`, `ClientSubmit`, `ClientRead`, `ClientTick`, `ClientLost`, `ClientHangUp` | the initiator and its transport |
| `Accept`, `VenueRead`, `VenueCall`, `VenueTick`, `VenueLeave`, `VenueFlush` | a connection thread: attach, displace, frames, timers, detach, cancel on disconnect |
| `EngineCommand`, `EngineFill` | orders, cancels and fills, each reported through the registry |
| `ClientSave`, `ClientRestart`, `VenueSaveHost`, `VenueSaveSeqs`, `VenueRestart` | sidecars and crashes |

### RateLimitPolicy, GatewaySession, Gateway

Per gateway an accept thread and the thread that calls `stop()`; per connection a
reader and a writer; a table of descriptors the kernel gives out again, the lowest
free number first; the registry's binding of accounts to writers and observers. One
step is one critical section or one call that may block. A history says what each
client sends and when it falls silent, who calls `stop()`, and whether the window of a
silent peer fills. Binding a session of several accounts (aliases and stream) is one
step, and a reader's look at `running_` is part of the step it guards.

## 3. Runs

| run | module, configuration | what it shows |
|---|---|---|
| `shard` | `MCSequencedShard`, `Shard.cfg` | four deployments, below: events leave only after the fsync that covers them (`NoAckedUnsynced`); snapshots hold their boundary, only the newest file is volatile and it is the one appended to (`DirectoryIsSound`); every restart succeeds (`NeverRefused`) and serves a prefix of history with every promise in it, and all of it unless the power went (`RecoversFaithfully`) |
| `checkpoint_now` | `CheckpointProtocol`, `CheckpointNow.cfg` | a threaded and a driven shard on one lane: one checkpoint at a time; `checkpointNow` answers true, and only when a snapshot covers the call, where nothing fails |
| `checkpoint_live` | `CheckpointProtocol`, `CheckpointLive.cfg` | on a shard without a lane `checkpointNow` returns and a segment over its threshold is cut in the end, though a publish fails and requests are skipped; unless the cut throws, which takes the consumer out of service |
| `bus` | `MCEventBus`, `Bus.cfg` | five ways to build the bus: a sequence and its slot have one owner, nothing unread is overwritten, what is accepted is delivered, in order, until teardown; `stop()` returns under blocked publishers, dead listeners and throwing events, and where nothing throws, events arrive |
| `park` | `BusParking`, `Park.cfg` | no wake-up is lost, with or without the timed net, nobody sleeps past `stop()`, and a stamped event is taken |
| `match` | `MCMatchingEngine`, `Match.cfg` | two accounts on four venues (last look with quotes; every order kind on a pool of two nodes; own orders that meet while slices are on hold; last look on a full pool): quantities, reservations and money balance after every step of every handler, prints respect limits and self-trade prevention, answers are true, and the public depth is the book's |
| `ladder` | `MCLadderMatching`, `Ladder.cfg` | the ladder implements the abstract book command by command under both matchers; shares of a level add up, and fill-or-kill is all or none where self-trade prevention does not stop the order |
| `trading` | `MCTrading`, `Trading.cfg` | five desks (stops, auction, pegs, groups, maker): cascades end, losers, tripped and expired orders are gone, an uncross is fair, states are respected, a client order id is taken once per window, and an engine rebuilt from its snapshot is the engine that wrote it (`RestartIsExact`) |
| `clearing` | `MCClearing`, `Clearing.cfg` | five desks (bankruptcy, reduce-only, scheduled funding, basket of collateral, circuit breaker): conservation, exact margin, bounded risk, and an insurance fund that pays last |
| `md_feed` | `MCMarketData`, `MarketData.cfg` | five feeds (all lost messages in the ring; a ring of one; a detector that holds one message; a TCP session; a restart): while the publisher lives a book is a prefix of its stream unless the detector gave up a gap or a snapshot overtook ready messages, and a known gap is being recovered unless a recovery was given up |
| `sessions` | `MCSessions`, `Sessions.cfg` | one client, two accounts, two connections and six combinations of trouble: orders and reports at most once and in order (orders taken on two connections may change places on their way to the engine, section 4), no report lost silently, no order left behind by a connection |
| `gateway` | `MCGateway`, `Gateway.cfg` | three endpoints and seven histories: a disconnect pulls its orders, nobody acts on a connection that is over, the wait a refused client is told is exact; `stop()` returns and silent peers go |

A run's property is often a conjunction of parts with a name and a comment each, in
the module's last section; TLC names the part only for action properties, so check
the parts one by one to see which of them a change breaks.

### Bounds, and why they are enough

- Shard: `GroupCommit` has power losses, failing publishes and a clock that
  stalls and jumps; `Process` has no fsync per record and dies after a torn or
  refused write, a failed publish, an unnoticed fsync failure or a throwing
  apply; `Durable` syncs each record under power loss, failing publishes and
  throwing applies; `Fallback` retains two generations, one of which rots. A segment of one record makes every command a possible rotation, so
  four or five commands give several generations; two crashes are one between
  any two steps and another during the recovery from the first or after it. One
  fault besides the crashes is what the code is written to survive.
- Checkpoints: a ring of two slots can be empty, partly full and full; a
  threshold of one asks at every command. Two shards are the least that contend
  for a lane; the liveness run has one shard and no lane, because a shard on a lane
  may be crowded out (`V/checkpoint_lane.h:86`) and two shards under fairness are
  beyond a regular run.
- Bus: two publishers and up to two consumers on a ring of two slots (four for a
  batch of two) lap the ring; two calls each put a publisher one lap ahead of
  another. Two runs of the bus cover what a restart must have reset.
- Parking: one waiter, two publishers, three sequences. The theorems remove
  these bounds.
- Matching: five commands are enough for a maker, a taker, a third order and two
  commands that meet the hold between them; two prices are the least that have a
  better one. Each venue is a small menu of orders chosen so that its commands
  meet.
- Market data: five messages, each arriving up to twice, open two separate gaps
  and let a late copy close one while its recovery is retried; two failing round
  trips of two attempts give one recovery up. Queues of two and three frames
  overflow in the middle of a handover.
- Ladder: two levels and a pool of three orders, so that both are exceeded; eight
  slots in which every home collides and chains wrap around; five commands make,
  take, cancel and amend behind one another.
- Trading: five to seven commands of a menu of six orders per desk; a cascade of two
  stops and a trailing one, an auction over five prices, three pegs that follow each
  other, a group of three, a protection window and a pause on a clock of four ticks.
- Clearing: three accounts and six commands take a position through opening, a
  mark or a funding payment that ruins it, liquidation and deleveraging, and what
  the books look like afterwards; two symbols and two assets are the least that
  have a portfolio.
- Sessions: two orders, two connections and one trouble of each kind in a pair; a
  queue of four frames overflows in the middle of a replay, and logs of two and
  three entries forget. Logons in the run carry no ResetSeqNumFlag and the old
  connection has left the socket before the new one logs on (`ResetFlags`, `Overlap`
  open both up; the state space is then too large for a regular run).
- Gateway: two connections and a queue of one frame; a closed descriptor is given
  to the second connection at once. A clock of one tick and a window of two put a
  request on either edge of the window; a charge that has left the window is beyond
  that clock and is the business of the theorem `TheWaitToldIsExact`.

Deadlock is checked where every thread can go on: in the `checkpoint_now`, bus and
match runs. Elsewhere a history ends: a shard stays stopped or out of commands, or has
lost its consumer to a cut that threw,
parked threads leave for good, a feed runs out of messages, and the bounded menus of
the other runs are used up.

### Fairness

Safety properties need none. `bus`, `park`, `checkpoint_live` and `gateway` assume that a
thread that can take a step does (weak fairness), which every scheduler the code
runs under gives. Strong fairness is assumed of taking a mutex, a lane or a slot
of a ring that others keep taking and giving back (`Lock`, `Relock`,
`PassMutex`, `StopPass`; `EnterLane`; `NowNudge`, `SweepNudge`): these are
retried in loops, and no thread holds on to any of them. Nothing is assumed of
commands, calls of the operator, faults, timeouts, or the timed net of parking,
whose help `EventIsTaken` therefore does not rely on. A listener returns or
throws. In `gateway` readers, writers, acceptors and the thread in `stop()` are not
starved, and neither is the engine; clients, fills and the call of `stop()` come when
they come.

## 4. Deviations

Where the code does something other than a comment or a document of the repository
says, or loses what its own design is for. No run depends on them: the properties of
section 3 except them in the comment that states them, and where the exception is not in
the formula but in what a run is given (the deployments, the orders, the sessions), the
comment says that too. The first ones can be seen with TLC by changing a
configuration as told; the trace is short in each case.

1. `PromisesSurvive`, with `Deployments <- TornDeployments` in `Shard.cfg`. `recoverAll`
   opens the journal for append behind whatever the crash left
   (`V/sequenced_shard.h:203`); nothing cuts a torn record off, and `load` stops at
   it. What is acknowledged after the first restart is lost by the second, while
   `V/journal.h:396` says `Full` "survives power loss".
2. `TrueMeansCovered`, with `MaxFailures = 1` in `CheckpointNow.cfg`. `checkpointNow`
   compares a counter it read before it drained (`V/sequenced_shard.h:552`); an older
   publish that finishes moves the counter, so the call answers true although its
   own publish failed. The comment at line 544 says it "returns true only once the
   new generation is on disk".
3. `PublishedDepthIsBook` in `Match.cfg`. An accepted hold reports its maker complete
   when nothing of it rests (`V/engine/last_look.h:625`), although another slice may be
   on hold; the publisher forgets the order and ignores the `OrderModified` that puts
   it back (`V/market_data.h:451`). The comment at `V/market_data.h:184` says that
   "after any hold/accept/reject sequence the published depth equals the matching
   book".
4. `NeverStale` in `MarketData.cfg`. The message that shows a new epoch goes into
   `ready_` before the recovery it causes; the snapshot is handed over at once and the
   message surfaces behind it (`V/md_recovery.h:596`), though the comment at line 429
   says that the stream resumes "at begin.lastSeq + 1 afterwards". In one epoch the
   same happens when a late datagram closes the gap between two attempts, which is
   the exception `BookIsAPrefix` makes.
5. `NeverWedged`, with `Troubles <- MCHangUp` in `Sessions.cfg`. Both ends drop every
   frame above a hole, the peer's ResendRequest included
   (`F/connector/fix/fix_initiator.h:459`, `V/fix_session.h:402`). When both directions
   have a hole neither is ever served: the session stays up on heartbeats and
   delivers nothing, though `fix_initiator.h:31` drops "until the counterparty's
   PossDup replay closes it".
6. `NoOrphan`, with `ClOrdIDs <- MCSameOrder` and `Troubles <- MCHangUp`. A rejection of a
   second order under a live ClOrdID untracks the live one
   (`V/cancel_on_disconnect.h:97`), which then outlives its connection.
7. `NothingPrintsWhileStopped` in `Trading.cfg`. `onModify` never asks for the state of
   the instrument (`V/engine/orders.inl:231`), so an amend into the market prints while
   it is halted; `docs/venue/matching.md:1064` has nothing print while the instrument
   is not trading.
8. `PausedMeansHalted` in `Clearing.cfg`. A driver whose feed recovers lifts the pause
   of every other driver and of the operator (`V/mark_feed_driver.h:43`), though
   `docs/venue/risk.md:174` has liquidations halted while a feed is stale.
9. `LevelsAgree` in `Ladder.cfg`. `LadderBook::reduceTotal` leaves the total of the level
   too high when it cuts an iceberg's reserve (`F/book/ladder_book.h:196`), and
   `runAuction` prices off those totals; `docs/venue/matching.md:26` has the two books
   "observationally identical".
10. `HalfOpenPeerLeaves`, with `Histories <- MCHalfOpen` in `Gateway.cfg`. On the idle path
    `connLoop` joins a writer blocked on the silent peer before it pulls the orders
    (`V/tcp_gateway.h:308`, alike in the others); `docs/venue/perimeter.md:285` says "a
    half-open peer can no longer hold orders and a thread forever".

11. `EverySnapshotLoads`, with `Desks <- ClashDesks` in `Trading.cfg`. An uncross whose
    price was set by a bid that self-trade prevention then removes leaves a locked book;
    `applyRestoreOrder` refuses the snapshot of it as corrupt, because "a
    continuous-trading book without last look is uncrossed by invariant"
    (`V/engine/checkpoint_restore.inl:213`).

Further ones, met while modelling:

- a fill-or-kill order with a self-trade prevention that cancels the newest,
  both, or decrements can be killed after its first print (`V/matcher.h:444`;
  `docs/venue/matching.md:478` says a `FOK` "either fills in full or never
  exists"); the menus of `match` combine FOK with no such mode, and
  `FillsAreExact` speaks of the others;
- after two holds on one order its `cumQty` may be counted twice or go negative
  (`V/engine/last_look.h:651`, `:763`, `:784`), which is why `CumIsTraded`
  speaks of orders that were never on hold; a maker rebuilt after a refused hold
  loses its post-only flag and its peak;
- after `Decrement` the reservation of the incoming order stays larger than what
  is left needs, until the order ends (`NothingFrozen` excludes netted orders);
- an amended order that self-trade prevention kills while a slice of it is on
  hold loses its prevention mode;
- an apply that throws under Group may be followed by a checkpoint that holds
  half a command (`V/sequenced_shard.h:748`), and pruning with one generation
  interrupted by a crash leaves a directory that a later rotten snapshot makes
  unrecoverable (`:1206`);
- the result of fsync is not looked at (`V/journal.h:492`): with a failing disk
  `PromisesSurvive` does not hold, which is why the theorems assume it away;
- a checkpoint whose clone, new segment or hook throws (`V/sequenced_shard.h:1004`,
  `V/journal.h:1091`) has entered the lane and never leaves it, since the guard lives in
  the task that was not spawned (`:1024`): the bus takes the consumer out of service,
  `flush`, `checkpointNow` and `stop` of the shard wait for good, automatic checkpoints of
  the other shards on the lane are skipped from then on and a named one spins
  (`CutThrows`; `NowReturns` and `ThresholdIsHonoured` except it). The journal keeps the
  number of the descriptor it closed (`V/journal.h:450`);
- a driver that sweeps a shard whose ring is full waits for itself
  (`V/sequenced_shard.h:464`), though `sweepOnce` is called non-blocking;
- the public depth also differs from the book when self-trade
  prevention decrements a resting order, which publishes nothing
  (`V/matcher.h:672`), when an amend is refused on re-entry, which publishes only
  a rejection and leaves the old order on display (`V/engine/orders.inl:428`), and
  when an amended iceberg rests, whose `OrderModified` carries its whole size
  (`:490`); `DepthIsBook` excludes the orders this happened to (`tape.muted`);
- across a restart of the publisher: a replay by the new publisher goes through
  the detector without the epoch callback and clears the pending recovery
  (`V/md_recovery.h:608`); `reset` keeps held messages of another epoch
  (`V/resend_buffer.h:138`); a late datagram of the old epoch turns the stream
  back (`:78`); a session that resumes past the new head, or with increments
  parked across the restart, is filtered by its old position
  (`V/md_distribution.h:411`, `:437`) though the comment at line 59 says a
  restarted feed "is not filtered out as stale";
- an early end of the recovery connection is taken for an empty replay
  (`V/md_recovery.h:302`), so a recovery whose snapshot was never announced counts
  as done; the gap waits for further traffic;
- a publisher refused by a closed line puts its claim back with `fetch_sub`
  (`F/util/eventing/event_bus.h:1628`); if `start()` has reopened the line in
  between, it takes back somebody else's claim and a sequence is handed out twice;
- a publisher that takes a claim by exchange may act on a gate it computed for
  an earlier run of the bus (`F/util/eventing/event_bus.h:1743`), and an event whose
  constructor throws leaves a sequence nobody stamps (`:763`);
- `tryPublish` stores its scan of the consumers into the reclaim cache (`:1742`)
  before it holds a claim, so `stop()` does not wait for it; one that is held up
  there puts a bound of the old run into the cache that `stop()` has just reset
  (`:918`), though the comment there says that "the publishers have been waited
  out, so this races nobody". The theorems exclude it by `CleanTeardown`;
- on a bus all of whose consumers drop behind, a consumer that jumps (`:1331`) past a
  claimed sequence that is not stamped yet gives its slot free, and a second
  publisher builds in it beside the first. The theorems exclude it by `Anchored`;
- trading: a fired stop that is refused, and the stops `cancelEntireBook` removes
  (`V/engine/session.inl:143`), stay in their group and on the expiry list although
  `oco.h:28` has every departure go through `unlink()`; a duplicate of a live id with a
  group drops the live order's membership (`V/engine/validate.inl:449`); the band clamp
  of a peg comes after its never-cross clamp (`V/engine/pegs.h:103`) and can lock the
  book at the edge of the band; the clearing price is chosen before self-trade
  prevention removes depth; an uncross, a resumption and a change of the trigger
  reference do not look at parked stops; an order already past its deadline rests
  until the next command; a protective pull and a mass cancel leave parked stops; pegs
  are repriced after refused commands too, and lose their place each time;
- snapshots: a peg clamped to the edge of the band locks the book, with the same
  consequence; a stop that re-uses the id of a good-till-date stop swept away with the
  book has the old deadline in the state hash, which the restored engine does not
  reproduce, and an old group is lost without notice; the deadline of a maker that is off
  the book with all of its slices on hold is neither written nor hashed; the comment at
  `V/messages.h:800` says that protection windows "restore EMPTY by design" while
  `checkpoint_restore.inl` restores them. `RestartIsExact` speaks of the states without
  these (`Orderly`);
- clearing: `ForceClosePosition` ignores its quantity (`V/messages.h:936`); a correction
  of a record left flat opens at entry 0 (`V/engine/clearing.h:236`); a sell that
  executes above its limit is margined at its limit (`V/engine/credit.h:286`); an account
  just deleveraged may be below maintenance until the next mark; after an outage the
  funding scheduler settles one missed interval per tick from one sample;
- sessions: a displaced session of several accounts erases, when it detaches late,
  the aliases of the one that displaced it (`V/session_registry.h:382`); an old
  connection's buffered order may be applied after a Logon with 141=Y
  (`V/fix_session.h:575`); the sequence check of a frame is under the session's mutex and
  its decoding, admission, tracking and hand-over are not (`V/fix_session.h:382`,
  `V/tcp_gateway.h:258`), so of two orders taken on an old and a new connection of one
  client the second may reach the engine first (`VenueSubmit`; `OrdersInOrder` claims the
  order of the engine per connection only), and one that is in between when the venue dies
  behind a sidecar that counts it is lost; a sidecar older than the counters it stands for asks for
  orders again and numbers reports twice (`:236`; the properties say `~hist.stale`); the
  tracking of cancel on disconnect does not survive a crash of the venue; an order
  for which the initiator's submit answered false may still be replayed from its log;
- gateways: a refused cancel or amend untracks the live order it names
  (`V/session.h:194`, `V/cancel_on_disconnect.h:97`); the kill of a displaced writer may
  reach a descriptor that was given out again (`V/session_registry.h:325`); the wait a
  client is told is 0 when a weight exceeds the capacity, and too short when the ban
  is shorter than the window; a connection bound to an account's own stream before another
  session borrows that account is not found by its own detach, which follows the alias
  (`V/session_registry.h:746`), and events go on reaching it, though line 360 has none
  after detach returned; the account snapshot verb reads engine state from the
  connection thread (`V/session_verbs.h:66`); switching cancel on disconnect off and
  on keeps what was tracked before; an exception that leaves `connLoop` is swallowed by
  the acceptor (`V/tcp_gateway.h:143`, `V/socket_acceptor.h:158`) and skips detach, the
  writer's stop and the flush of cancel on disconnect: the registry keeps an observer of
  a canceller that is gone, and the orders stay (not modelled, section 6).

## 5. Proofs

| module | theorem | states |
|---|---|---|
| `SequencedShardProofs` | `TypeCorrect` | `Spec => []TypeOK` |
| | `PublishedIsDurable` | `Spec => []NoAckedUnsynced`, under `HonestFsync` |
| | `RotationIsDurable` | `Spec => RotatesOffDurableFile`, under `HonestFsync` |
| | `DirectoryStaysSound` | `Spec => []DirectoryIsSound`, under `Dependable` |
| | `RestartIsNeverRefused` | `Spec => []NeverRefused`, under `Dependable` |
| | `RestartIsFaithful` | `Spec => RecoversFaithfully`, under `Dependable` |
| `CheckpointProtocolProofs` | `LaneExcludes` | `Spec => []OneCheckpointPerLane` |
| | `OnePublishAtATime` | `Spec => []OnePublishInFlight` |
| | `ProtocolTypes` | `Spec => [](TypeOK /\ AtACommand)` |
| | `NowIsTruthful` | `Spec => [](failures = 0 => NowTellsTheTruth)` |
| | `NowAlwaysTruthful` | `Spec => []NowTellsTheTruth`, where cuts and publishes never fail |
| `EventBusProofs` | `BusTypes` | `Spec => [](TypeOK /\ StageInv)` |
| | `SequencesHaveOneOwner` | `Spec => []OneOwnerPerSequence` |
| | `NothingIsOverwritten` | `Spec /\ CleanTeardown => []NothingOverwritten` |
| | `SlotsHaveOneOwner` | `Spec /\ CleanTeardown => []SlotsAreOwned`, under `Anchored` |
| | `DeliveriesAreExact` | `Spec /\ CleanTeardown => []DeliversExactly`, under `Anchored` |
| | `BlockingBusIsExact` | all three without `CleanTeardown`, where nobody calls `tryPublish` |
| `BusParkingProofs` | `ParkingIsSound` | `Spec => []ParkingInv` |
| | `NoWakeupIsLost` | `Spec => []NoLostWakeup` |
| | `NobodySleepsPastStop` | `Spec => []NoSleepPastStop` |
| `MatchingEngineProofs` | `EngineInvariant` | `Spec => []Inv`, the inductive invariant below |
| | `FundsStayBalanced` | `Spec => []FundsBalance` |
| | `ReservationsStayExact` | `Spec => []ReservationsAreExact` |
| `EngineAnswerProofs` | `AnswersAreTrue` | `Spec => []AnswerIsTrue` |
| `MarketDataProofs` | `FeedInvariant` | `Spec => []FeedInv`, the inductive invariant below |
| | `BooksArePrefixes` | `Spec => []BookIsAPrefix` |
| | `GapsArePursued` | `Spec => []GapIsPursued` |
| `GatewayProofs` | `ClosedStaysAlone` | `NoIdentityIsBorrowed /\ Spec => []ClosedIsLeftAlone` |
| | `TheWaitToldIsExact` | `Spec => []RetryIsExact` |

They hold for every set of shards, waiters, publishers, consumers, feeds, gateways, accounts
and orders, every ring, mode, retention, threshold, price, window, capacity, clock and
bound. What they rest on, besides the named
`ASSUME`s of the modules, which TLC evaluates in the runs:

| assumption | says | because |
|---|---|---|
| `HonestFsync` | no deployment has the fault "fsync" | the code never looks at the result of fsync (section 4) |
| `Dependable` | no record is left torn; under Group no apply throws; the power fails only where a mode syncs and fsync is honest; fewer snapshots rot than are kept | each excluded combination loses history, or a promise, in the code itself: deviation 1 and the bullets on `Group` and on fsync; without any snapshot and with pruned journals there is nothing left to start from |
| `failures = 0` | no cut and no publish has failed so far | deviation 2 |
| `CleanTeardown` | no `tryPublish` is between its scan and its store when `stop()` resets the caches | section 4 |
| `Anchored` | some consumer is required, or optional and not dropping behind | section 4 |
| `NoIdentityIsBorrowed` | no session borrows an account whose own stream another may be bound to | section 4 |
| `RateLimit` | the heaviest message fits the bucket, and a ban is no shorter than the window | section 4: `setRateLimit` enforces neither, and tests set a bucket of one action |
| `EngineAssumption` | ids and accounts are finite sets, every order has an owner, quantities are positive | the codecs and `validate` refuse the rest |

The deployments `GroupCommit`, `Fallback` and `Durable` of the `shard` run are
`Dependable`. The fourth, `Process`, has write failures and torn records and stays
with TLC.

The inductive invariants, and why the properties do not stand alone:

- `NoAckedUnsynced` says that no event out of the shard rests on a volatile
  record of the open file. It is not inductive: an append makes a record
  volatile, and only the timestamps say that no event out there is that
  record's. `BarrierInv` adds that acknowledged and staged events are no newer
  than the last timestamp, that the open file is durable wherever events leave
  or the journal rotates, and that nothing is acknowledged or staged while the
  shard is down. The proof goes through the actions; the crash, recovery and
  publish actions leave nothing acknowledged or the open file alone.
  `RotationIsDurable` uses the same invariant at the rotation.
- Recovery reads files, and nothing in a file says which part of history it is.
  `RecoveryInv` says so. `JournalInv`: the history is strictly increasing, every
  file is the stretch of it that begins behind the timestamp in its name, and each
  stretch ends where the next file's begins, except behind the pre-checkpoint file
  once pruning has begun. `SnapsInv` and `PubInv`: a snapshot, also one still being
  written, is the history up to its boundary, its own file is there, and what a
  publish keeps is as many as are to be retained. `RotInv`: every rotten snapshot has
  cost a fault, so with fewer faults than generations one is good, or nothing has been
  pruned yet. `ServingInv`: while the shard serves, its engine is the history up to
  the command in hand. `RestInv` and `ReplayInv`: what recovery has replayed and read
  is a prefix of history, and the oldest file still to open goes on behind it.
  `PromiseInv`: a promise lies inside the part of history that the worst power loss
  leaves. Faithfulness is then what `ReplayInv` and `PromiseInv` say when nothing is
  left to open.
- `OneCheckpointPerLane` is not inductive because what a background task gives
  back must be its own shard's hold on the lane. `LaneInv` adds that a shard
  asks for the lane only once its previous publish is over.
- A call of `checkpointNow` tells the truth because, at each place in it, its
  request is with somebody who will serve it: still in the flags, loaded by the
  consumer, or cut by a boundary that came after the call. `CallInv` says which, per
  place; it needs to know that the commands the call waits for are still in the ring
  (`AtACommand`) and that publishes do not overlap (`LaneInv`).
- Two publishers share the sequence line although one adds and the other
  exchanges, a refused one puts back what it took, and `stop()` swaps the line
  out under both. `StageInv` says where publishers may be at each stage of
  `start()` and `stop()`; `LineInv`, that the closed line is `Closed` plus what
  refused publishers have still to put back; `ClaimInv` and `CountInv`, that claims
  are exactly the sequences up to the line, each with one holder or resolved, so
  that a count of resolved claims is enough for `stop()` to know that it is alone.
- A gate computed from a scan stays true because positions only grow: `ProgressInv`
  and `FenceInv` bound every cache, every scan result in a publisher's hands and every
  stamp by the position of each consumer. A teardown takes all positions back at once,
  which is right only if no scan result outlives it: `CleanTeardown`.
- A slot has one owner because two sequences of one slot are a lap apart, the later
  one is admitted only when an anchored consumer has passed the earlier, and that
  consumer passes nothing that is not stamped: `StampInv`. `ContentInv` says what
  is in a stamped slot: the claimed event, or nothing once everybody is past it.
  `OrderInv` and `ArrivalInv` tie deliveries to positions and accepted events to
  stamps, and at teardown every position of a consumer that does not jump is behind
  the last claim.
- `NoLostWakeup` needs to know who holds the mutex, whose hand is up, and that
  a waiter past its last look saw what was true: anything that came later is
  still on this side of the mutex. `ParkingInv` is the conjunction.
- Balances and reservations are two books of the same money, kept order by order
  while slices of an order rest, wait under last look, or are on their way through the
  book. `Inv` of `MatchingEngineProofs` has two halves. `Sound`: the reserved balance of
  an account is the sum of its reservations, which are of the side and at the price of
  the order's every live piece, cover all of them, exactly unless self-trade prevention
  netted something off, and exist for nothing else (`FundsOK`, `Backed`). That is not
  inductive, because a cancel releases a whole reservation and an amend replaces it: they
  may only while the order has nothing on hold. `Fit` says what the rest of the command
  guarantees: a sweep is preceded by nothing but the rejection of holds (`WorkOK`), a
  pull or an amend by the resolution of every hold of its order (`Cleared`), the order
  that sweeps is not in the book and what it has on hold is with strangers (`Apart`), and
  one that has put a slice on hold finds room for its residual or has more to meet
  (`Room`). Sums over sets of orders are treated as
  functions on the subsets of a finite set; the lemmas on them go by least
  counterexample, as no induction scheme can be instantiated.
- The answer to a cancel is true because of what the command did before it, not because
  of the state alone: a rejected hold may put its slice back under the order that is being
  cancelled. `AnswerInv` adds to `Inv` that the registers know exactly the orders that
  are there (`Kept`; a taker that is only on hold may be unknown, a maker may not), that a
  hold past its deadline has a step still to come that resolves it (`Due`), which needs
  the window of a venue with last look to be positive (`Looks`), and that what makes the
  answer true stands directly before it (`Promise`): the pull of the order, or the pulls
  of every order of the account that the registers knew once its holds were rejected.
- A message that is late, doubled or parked must find its place in a book it cannot see.
  `FeedInv` says, per subscriber, what lies between the book and the publisher while that
  publisher lives. Over datagrams (`Chain`): what is ready goes on from the book and the
  detector from what is ready, without a hole as long as no gap was given up and no snapshot
  overtook; what is held lies beyond the gap, and the recovery under way asks for no later
  message than the one missing (`Pursued`). Over TCP (`Connection`): each frame queued begins
  where the one before it ended (`Links`), the queue of an armed session ends at the
  publisher's last message, and the answer of a session that is not armed yet reaches at
  least to where its parked messages begin (`AnswerOK`). After a restart the invariant says
  nothing: a book may then hold messages of both epochs (section 4), and the properties are
  about the life of one publisher.
- A gateway closes a socket while other threads hold a writer for it, and the kernel hands
  the number out again. `Inv` of `GatewayProofs` follows each descriptor from `accept` to
  `close`: who holds it (`Sockets`), whom the registry lists and with which writer
  (`Taken`, `Listed`, `Writers`), whose stream a session is (`Streams`), and that a victim
  of a second logon is off every list before its socket goes (`Victims`).
- The wait that a refused client is told is the first moment at which its message fits.
  `PolicyInv`: charges are in the order of time, none is ahead of the clock, and a ban that
  runs outlasts them all; without the order the oldest charge is not the first to leave.

TLC agreed with each of these invariants, as an invariant of the configuration of its
run, before it was proved.

Only model-checked: liveness (outside the prover's reach); the shard with torn records
and failing writes (`Process`); the history of the engine's orders and its public depth
(`OrdersAreSound`, `DepthIsBook`); `DisconnectPulls` and
`ConnectionsEnd` of the gateways; the trading session, the clearing and the FIX sessions;
the market-data feed after a restart; the refinement of the ladder, which walks lists of
any length.

## 6. What is not modelled, and the plan

Not modelled for good: codecs and framing, the control plane's parsing, metrics,
logging, thread placement, the client-side `NLevelOrderBook`, the smoothing filters of
the index feed, and the scaled-integer rounding of products of price and quantity.
Within modelled components: fees and deposits of spot accounts, amends and stops on
perpetuals, the segregation report and the liquidation monitor, the session verbs and
HMAC logons, the deny bits beside resting, changes of the static price band, trading
status and derivatives messages of the feed, the field-by-field snapshot encoding; the
configuration commands that change risk and account limits, STP groups, admission
profiles and maker protection while the venue runs, and their records in the snapshot
(`V/engine/checkpoint.inl:286`, `V/engine/mmp.h:154`), which are constants of a desk here;
quotes, mass cancels and duplicate ids at the gateways, and exceptions that leave
`connLoop`; prices off the tick and out of the band that reach the book itself.

What remains, in the order in which it matters:

1. **Market data across a restart**: an abstract specification of the feed (a
   client has a prefix of an epoch's stream, and after a restart knows that its
   book is void) that `MarketData` implements up to the deviations of section 4;
   that a book catches up in the end when traffic goes on.
2. **Abstract specifications**: a durable service (accept, acknowledge, crash,
   serve a prefix that has every acknowledged command) that `SequencedShard`
   implements, and a FIFO with a bounded buffer that `EventBus` implements.
3. **Composition**: the engine snapshot with the handlers of `Clearing` between its two
   ends, as `Trading` has it; a session restored while its engine recovers.

Theorems planned: `OrdersAreSound` of the engine, on top of its invariant; that a FIX
session is in order, from an invariant on what is in flight; that a
transfer of `Ledger` conserves; that the operators of `LadderBook` keep the id table
compact.
