# A TLA+ verification project for uav

`uav` is a Go framework for swarms of drones that share state and agree on
commands over weak networks. A node runs one pluggable algorithm (Raft, gossip
or WeakNet) on a runtime that queues outbound messages by priority, numbers
them, drops expired and repeated ones on arrival, and calls the algorithm back
for messages and timers.

This directory holds TLA+ models of the three algorithms, of the runtime's message
path, timers and life cycle, of the inbound side of the transports and of the
metrics, the TLC configurations that check them on small instances, and
proofs, checked by TLAPS, of the properties that matter most for instances of
any size. `PROJECT.json` lists the components, the runs, the definitions with
the lines they model, the hazards and the theorems.

    tlc -workers 2 -config Raft.cfg MCRaft              # one run
    tlapm RaftElectionProofs.tla                        # the proofs of a module

## 1. Inventory

| Component | State | Operations | Talks to |
|---|---|---|---|
| `node/algorithm/raft` | term, vote, log, role, commit and apply index, next and match index per peer, vote counter | `Start`, `Propose`, `OnTick` (election, heartbeat), `OnMessage` (four kinds) | `NodeAPI`: `Send`, `SetTimer`, `CancelTimer`, `Peers` |
| `node/algorithm/gossip` | versioned map, cache of seen messages | `Set`, `OnTick` (evict, push), `OnMessage` (merge) | `NodeAPI` |
| `node/algorithm/weaknet` | versioned map, statistics per peer, pending critical messages | `Set`, `SendCritical`, `OnTick` (sync, retransmit, purge), `OnMessage` (push-pull) | `NodeAPI` |
| `node/runtime` outbound | heap, insertion counter, notification channel | `Push`, `Pop`, `sendLoop`, `Stop` | producers: algorithm, timers, user; consumer: transport |
| `node/runtime` inbound | window of sequence numbers per sender and stream | `Dispatch`, `IsDuplicate` | transport, algorithm |
| `node/runtime` timers | named tickers, a goroutine each | `Set`, `Cancel`, `StopAll` | calls `OnTick` |
| `node/runtime` lifecycle | `stopCh`, wait group | `Start`, `Stop`, `recvLoop` | everything above |
| `node/runtime` peers | map of ids to addresses | `Add`, `Remove`, `Get`, `List` | read by `Send`, `Broadcast`, `sendLoop` |
| `node/transport/udp`, `tcp` | socket, bounded receive channel, connection pool | `Start`, `Stop`, `Send`, read loops | runtime |
| `node/transport/codec`, `pkg/message` | none | encode, decode, expiry | transport, router |
| `node/metrics` | atomic counters, ring of latencies | record, snapshot, reset, report | runtime |
| `node/config`, `cmd/*` | none | read a file, wire a node, print | |

What is hard about it, and what correctness means for each part:

* **Raft.** Ticks, messages of several terms and proposals interleave; a tick may
  come after its timer was cancelled; messages are lost and reordered. A term
  must have one leader although votes are counted by a bare counter; indices that
  stale replies move must stay in range; logs that share an entry must agree up
  to it; committed entries must be on a majority and applied alike everywhere.
* **Inbound path.** Packets are lost, reordered, repeated, expired and numbered by
  a counter that wraps or restarts. Each must be handled at most once, the window
  must stay bounded, and only what was handled or is too old may be refused.
* **Outbound path.** Several producers push while one loop drains; the wake-up
  channel holds one value and is signalled outside the lock; the queue overflows;
  the transport fails. No wake-up may be lost, no message lost or sent twice, the
  order within a priority kept, and the loop must return after `Stop`.
* **Timers, life cycle and transports.** Main, `recvLoop`, timer goroutines and
  readers run side by side; a callback runs on after its timer was cancelled, and
  handlers set timers while the node stops. No ticker may escape the map, a full
  channel must drop its oldest message without blocking its reader for ever,
  nothing may be added or handled after `Stop`, and `Stop` must return.
* **Metrics.** Counters are reset one by one while messages are counted; the CSV
  file outlives the process. Counters must stay consistent, the ring must show the
  latest samples, the last report must be complete, the file well formed.
* **Gossip and WeakNet.** Old maps and deltas arrive late and repeatedly; writers
  race. Values must never go back, equal versions should mean equal values, and
  all nodes should end with the same map.

## 2. Modules

| Module | Role |
|---|---|
| `Raft` | `raft.go`, one action per entry point |
| `RaftProofs`, `RaftElectionProofs` | theorems about `Raft` |
| `Delivery` | abstract: what was sent is handled at most once |
| `Router`, `RouterProofs` | inbound path |
| `SendQueue`, `SendQueueProofs` | outbound path |
| `Gossip`, `GossipProofs` | `gossip.go` |
| `WeakNet`, `WeakNetProofs` | `weaknet.go` |
| `TimerManager` | `timer.go`: named timers and their goroutines |
| `Node`, `NodeProofs` | life cycle, receive path of UDP and TCP; extends `TimerManager` |
| `SlidingWindow` | abstract: the latest samples, oldest first |
| `Collector` | `collector.go`: counters, ring, `Reset` |
| `Reporter`, `MetricsProofs` | `reporter.go` and the end of `cmd/node`; extends `Collector` |
| `MC*` | instances for TLC: symmetry sets, views, writers of keys, scenarios |

The layers meet in an abstract module: `Raft` assumes of its network what
`Delivery` states, no message twice, and `Router` implements `Delivery`. The proof
of `VotesCounted` uses this: `handleRequestVoteReply` ignores the sender, so a vote delivered twice
would count twice. `Gossip` has a cache of its own and is checked on a network
that repeats messages. `Node` shows where the late ticks that `Raft` allows come
from: a goroutine of `TimerManager` in its callback when the timer is cancelled.
`SlidingWindow` is what `Snapshot` relies on; `Collector` implements it with a ring.

Names follow the source (`HandleRequestVote` is `handleRequestVote`,
`nextIndex[n][p]` is the field of node `n`). Operators named as mutants in a
comment are not part of the models: each is the definition after it with a
plausible mistake, and shows that a property would notice it.

### Raft

Every entry point takes `a.mu`, so it is one atomic action. The network is a bag
of messages; a step consumes at most one and adds those it sends. A message
carries its kind and the fields of its payload; `from` stands for `msg.From` and
for the candidate or leader id in the payload, which are always equal.
`applied` is the sequence given to `applyCb`, whose length is `lastApplied`.

A timer is "off", "armed" or "late". `TimerManager` runs the callback of a tick
that its goroutine has already received even when the timer has been cancelled
since; after `becomeLeader` one such election tick may therefore still come, and
`startElection` does not look at the state. A late heartbeat does nothing unless
the node leads. `voters`, `ballots` and `leaders` are history variables.

`Node.Start` runs `recvLoop` before it calls the algorithm's `Start`, which arms the
election timer without taking `a.mu` and without looking at the state. Messages can
be handled first, so `started` notes which nodes have been started, and `Start` may
come at any time: on a follower of a later term, or on a node that already leads,
whose election timer then runs beside its heartbeat timer until it makes the node
a candidate again.

### Router

One receiver and the channels (sender and stream) that reach it. `Send` and
`SendElsewhere` take numbers of the same counter, so the receiver sees gaps. A
packet on the wire may be dispatched any number of times, in any order, until it
vanishes. `SeqLimit` stands for 2^32 and `W` for 256. `Restart` resets the
counter of a sender; the receiver's window stays.

### SendQueue

`Push` is two actions: the part under the lock, and the notification after it.
`sendLoop` is in one of four places; the call of the transport is a step of its
own, so pushes and a stop come in between. The heap is a set: `Pop` takes the
least item, and `Worst` describes the items the scan of `Push` can pick for every
layout a heap can have.

### Gossip and WeakNet

A key that is absent has version 0. `Gossip` marks on a message under way
whether its receiver has it in the seen cache, which is all that the cache can
still influence. `WeakNet` breaks a round, and a request with its answer, into
the steps between which the lock is free; the age of `lastSeen` is one of the
ranges that the code tells apart (never, recent, stale).

Critical messages are kept under a reading of the clock (`Clock`): a second one with the
same reading takes the place of the first. `MaxResend` bounds how often a message is
sent again. Its lifetime (`TTLCollision`, 100 ms) is as long as the period of
`retransmitCheck` (half of `RetransmitTimeout`, 100 ms), so that it is about once. The
code never builds an acknowledgement, so that branch of `OnMessage` has no action, and
the receiver does nothing with a critical message. No property is stated of them:
whatever `retransmitCheck` does, a message arrives or its deadline passes, and the
promise of `weaknet.go:11`, retransmission until acknowledged, has no counterpart in
the code. They share the network with the push-pull messages in `weaknet_sync`.

### TimerManager and Node

`Set`, `Cancel` and `StopAll` hold the manager's lock and are one step each; closing
a stop channel and stopping the ticker are one step together, because a tick in
between would commute with both. A goroutine is in its select or in its callback
and outlives its entry in the map. It never returns to a tick once it is stopped:
since Go 1.23 a stopped ticker delivers nothing, and `go.mod` asks for 1.26.

`Node` has a program counter per goroutine. Main goes through `Start` (the address
may be taken: `StartFails`, which `Stop` may follow) and then through the steps of
`Stop` in the order of `node.go`. A reader (`readLoop` of UDP, one `handleConn` per TCP
connection) looks at `stopCh`, blocks in a read, offers the message and, if the
channel is full, takes the oldest out and sends again, blocking. Every one of these
is a step, so `recvLoop`, other readers and `Stop` come in between. The two
transports share this code but for what a failed read means and for what `Stop`
closes. Handlers are `recvLoop` or a timer goroutine being in a callback; what they
compute is the business of the other modules, and only Raft's set and cancel timers
(`HandlerTimer`). `sendLoop` only has to end here; its work is `SendQueue`.

### Collector and Reporter

Counters are atomics, the ring has a lock; so every counter update, every store
group of `Reset` and every access to the ring is a step. `arrived` is `msgRecv`,
`dropped` the two counters `Router.Dispatch` increments; the remaining counters follow
the same pattern. `Latencies` is `latencies()`.

`Reporter` is the loop of the reporter with the steps of `output` and `appendCSV`,
each of which may fail or be cut off by a crash; `file` is what survives. `Stop` is
what main does on a signal, and `FlushToFile` comes after the loop has ended. Opening
the CSV file, writing its header and writing a row are separate steps. `floor` and
`missed` are history variables: what had been counted when `Stop` was called, and
whether the Stat or the Write of a header that was due has failed. A snapshot is
represented by the one counter that `FinalReport` is about, `msgRecv`; that its loads
are not atomic together matters to no property here.

## 3. What the runs check

`CHECK_DEADLOCK FALSE` is set everywhere: the bounds on terms, sends, pushes and
versions let the models come to an end that the program does not have.

| Run | Instance | States | Shows |
|---|---|---|---|
| `raft` | 3 nodes, one started late, 2 terms, 2 entries, 2 commands, 3 in flight | 1.2M | one leader per term, honest vote counts, timers never both off, only winners speak as leaders, log matching through truncation, terms that rise along logs, leaders only append and commit only their own term's entries, delayed messages take nothing shared from a log |
| `router_faults` | W=2, counter of 4 values, 4 sends, 1 restart | 379k | bounded window, what is refused was handled or is W behind (until a wrap or restart), refinement of `Delivery` throughout |
| `send_queue` | 2 producers, 2 priorities, capacity 2, 4 pushes | 76k | no lost wake-up, bound, order, every message in one place, messages are served once pushes cease, `sendLoop` returns |
| `gossip` | 3 nodes, 1 writer, 2 values, 2 versions, messages repeated | 12k | values never go back, versions identify values, convergence |
| `weaknet_sync` | 2 nodes, a key each (2 versions and 1), critical messages of one | 139k | deltas leave out nothing that is missing, values never go back, convergence |
| `node` | Raft, WeakNet, gossip on UDP and gossip on TCP with 2 connections; capacity 2, 3 timer goroutines | 240k | no ticker out of reach, quiet after `StopAll`, UDP's reader never blocks, drop-oldest keeps order, nothing added after the transport's `Stop` and nothing handled after the node's, UDP stops |
| `metrics` | ring of 3, 3 latencies, 4 messages, 2 ticks, 2 crashes | 2.2M | counters off by one message at most, complete last report, a header first unless writing it failed, refinement of `SlidingWindow` |

The bounds reach the interesting cases: two terms are needed for stale votes,
replies and conflicting logs; a window of two with a counter of four values
wraps, and has numbers inside, at and beyond its edge; a queue of two overflows
with equal and with different priorities; two versions of a key are in flight at
once in gossip; four datagrams overflow a channel of two, and two connections
compete for its last place; a ring of three is wrapped by four samples, which are
told apart.

Some instances leave behaviours out, to make room for those that matter:

* `FewWithEntries` (`raft`): once a log has entries, two messages at a time are in
  flight rather than three, except for a second entry in the first term, where
  three are needed for a message to be delayed past the next one. Elections are
  explored in full.
* `CommandsDiffer` (`raft`): no log has the same command twice, so that an entry in a
  wrong place shows. Commands are only compared for equality.
* `OneStartsLate` (`raft`): at most one node is still to be started when the first
  election begins, in the second term only a node that stands or leads, and none
  when the first command is proposed. A late `Start` of a follower, of a candidate
  and of a leader is explored.
* `Aging`, `Senders`, `Clock`, `MaxVersion` (`weaknet_sync`): statistics grow stale on one
  node, the other sends critical messages, all at one reading of the clock, and one
  key has two versions, the other one.
* `FirstIsV1` (`gossip`): the first value written is `v1`. Values are only compared
  for equality, so this leaves out renamings only; TLC's symmetry is not used with
  liveness.
* `RingOrReporter` (`metrics`): states in which both the ring and the reporter have
  moved are left out. They share nothing, and what they share with the counters is
  explored with each. The theorems of `MetricsProofs` need no such constraint.
* `LogView` and `AppliedView` (`raft_applied`) leave out variables that no action of
  the model and no property of the run depends on; its scenario starts all nodes
  before the first election (`AllStarted`).

### Where the code disagrees with what it says

Five runs are expected to end with a violation; each is a finding in
`PROJECT.json` with the line that states the opposite.

* `raft_even`: with 4 nodes, `len(Peers())/2+1` is 2 votes; two leaders in a term.
* `raft_applied`: a follower reports the length of its whole log as its match
  index, a tail that conflicts with the leader's included. The leader commits an
  entry that only it has, and two nodes come to apply different commands at one
  index. The run explores one scenario of leadership passing from n1 to n2 and
  back; its constraint only removes behaviours.
* `tcp_stop`: `Stop` of the TCP transport waits for its `handleConn` goroutines but
  does not close the connections they read from. While a peer stays connected and
  silent, `Stop`, and with it `Node.Stop`, does not return. (The unit test for it
  stops its receiver with `recv1.Stop()` while the sender holds the connection.)
* `weaknet_partition`: `activePeers` leaves out every peer that has not been heard from
  as soon as one has. Four nodes that came up as two pairs go on in pairs although
  all messages now arrive. The run explores that scenario (`TwoIslands`), in which
  nobody becomes stale because each neighbour keeps answering.
* `weaknet_delta`: the package comment says that only entries that changed since the last
  sync with a peer are transmitted (`weaknet.go:7`). The record against which `deltaFor`
  compares is raised only to a record of a peer, all start at 0, and the maximum
  version of a merged delta is thrown away (`weaknet.go:311`). A node that has just got
  a peer's map in a reply sends the same entries back in its next request.

More differences between comments and code are visible in the models and have no
run of their own:

* A restarted sender numbers from 1 again, and a receiver that saw its old numbers
  refuses its messages (`router.go:196` says the handler is called for every message
  that is not expired or a duplicate). `RefusedWithinRun` therefore excludes restarts.
* Two writers that give a key the same version never agree in gossip, which
  `gossip.go:26` calls last-write-wins; the run has one writer, as the benchmark.
* A full queue of one priority drops its oldest message, and a new message of lower
  priority displaces a queued one of higher priority (`Worst`; `router.go:75` speaks of
  drop-tail).
* The mutant of `Believed` does what the comment at `weaknet.go:310` says, raise the record
  to the versions a peer has sent; deltas then lose entries (`DeltaLosesNothing`), since
  one record is compared with the versions of all keys.
* After the transport has stopped, messages that were in the channel are still handled
  until `recvLoop` has ended (`transport.go:17` says that `Recv()` will not produce
  further messages). `NothingAfterStop` says what holds: no reader adds one after the
  transport's `Stop`, and none is handled after the node's.
* A second critical message at the same reading of the clock takes the place of the
  first, which is not sent again (`weaknet.go:167`; `weaknet.go:11` speaks of
  retransmission until an acknowledgement, which nothing sends).
* With two TCP connections both readers may take a message out of the full channel
  and only one blocking send find room (`tcp.go:115`); after `recvLoop` has ended the
  other never does. `UdpNeverBlocks` therefore speaks of UDP.
* Raft's handlers may set a timer after `StopAll`, which then ticks on in a stopped
  node; `QuietOnceStopped` therefore excludes Raft.
* The drop rate of a snapshot (`snapshot.go:98`) adds the dropped messages to the
  messages received, which already count them.
* When the Stat or the Write for the CSV header fails, the error is ignored and rows
  follow; the file is not empty then, and no later start adds a header.
  `HeaderUnlessMissed` says that this is the only way to a file without one.

### Fairness

* `SendQueue`: weak fairness of `sendLoop` and of a producer past the lock. The Go
  scheduler runs every goroutine that can run, and the calls of the transport
  return. Nothing is assumed about `Stop`. Pushes are bounded (`MaxPush`), and
  `EventuallyServed` and `StopReturns` rest on that: under endless urgent pushes a
  strict priority queue starves its other messages, and a drain never ends.
* `Gossip` and `WeakNet`: strong fairness of a round that includes a given peer
  (a ticker fires for ever, and the uniform random sample picks every peer
  infinitely often with probability one) and of delivery on a link on which
  messages are sent for ever (a network that is lossy but not dead; without this
  no protocol converges). Weak fairness of the completion of a round that has begun.
  Nothing is assumed about critical messages.
* `MCWeakNetPartition` states the same fairness per node rather than per link, which is
  equivalent in its scenario and shorter to check.
* `Node`: weak fairness of each goroutine: main once it is in `Start` or `Stop`, the
  readers except for the arrival of data, `recvLoop`'s return from a handler and its
  exit, and timer goroutines that have been stopped. A closed socket ends a read.
  Nothing is assumed about peers, the user or the clock: a peer may stay silent and
  connected, which is what `tcp_stop` shows.

The safety runs and all proofs use no fairness (the proofs about `SendQueue` start
from a specification that has it, and do not use it).

## 4. What is proved

All theorems hold for every value of the constants that satisfies the `ASSUME`s
in the models: finite non-empty sets, bounds in `Nat`, `Nil`, `None` and `NoValue`
outside the sets they are added to. The bounds are only parameters: a theorem for
all bounds covers every finite behaviour.

**RaftProofs.** `TypeCorrect`, `NextIndexStaysPositive`, `LeadersAreKnown`,
`TimersStayArmed`, `LeadersOnlyAppend`, for a cluster of any size. The types alone are
not inductive: `TypeInv` adds that a leader's next indices are positive, without which
a message with index -1 could be sent, and `AppliedCovers`, that the commit index never
exceeds what has been applied, without which a leader could commit, and slice, beyond
the log. The later theorems use step lemmas instead of the actions: what a step does
to a role (`RoleStep`: a node stays, follows, runs or wins), to the AppendEntries in
flight (`NewAppendEntries`: what is new was sent by a node that leads after the step,
out of its log) and to logs and commit indices (`LogStep`: a leader proposes or a
follower adopts). `LeaderKnown` is inductive given these, and so is `TimersArmed`, which says
nothing of a leader's election timer: `Start` may arm it.

**RaftElectionProofs.** `VotesAreCounted`, `ElectionIsSafe`, `LogsMatch`,
`LogTermsRise`, `SharedIsKept`. The inductive invariant `ElectInv` says, besides types: a node's current vote is
its only ballot of its term and none is of a later term (`BallotInv`); a node has
at most one request per peer and term outstanding, and none once it is answered
(`RequestInv`), and a granted reply in flight is backed by a ballot that is not
yet counted and is there once (`GrantInv`), which together make a bare counter
count distinct voters (`VotesCounted`, `CountInv`); every winner was backed by a
majority of ballots (`LeaderInv`). Two majorities then share a voter, who voted
once. This last step needs `OddCluster`, an odd number of nodes: for even sizes
`raft_even` refutes the conclusion. The theorems before it hold for any size.

`LogsMatch` takes logs and the AppendEntries in flight apart into facts: an index, the
entry there, the term of the entry before it (`Facts`). Every step copies facts, except
that a leader's `Propose` makes one (`FactsStep`): the consistency check is what makes
the fact at the seam of an adopted log one of the message's (`AdoptedFacts`). The
invariant `LogInv` says that index and term determine a fact (`FactsUnique`), and what
this needs: each entry's term was won by somebody (`FactsLed`), a leader's log reaches
beyond all entries of its term (`LeaderHas`), a candidate is past the terms it has won
(`WonBefore`). A new fact is then above the others of its term, whose one leader made
them; this is where `ElectionSafety`, and with it `OddCluster`, enters. Two logs that
agree in the term at an index agree below it, since at the highest index where they
differ the fact above it would be one and the same and name the same term there
(`LogsAgreeBelow`: a highest difference instead of an induction).

`LogTermsRise` uses the same facts and no election safety, so that it holds for even
clusters too: no fact names a later term before it (`FactsRise`), which a proposal
keeps because a node has reached the terms of its entries, and an adopted entry
because its sender had (`TermsReached`). `SharedIsKept` adds to `LogInv` that a leader has
what every AppendEntries of its term carries (`SentHeld`). If a log is cut, the
message conflicts with it where the cut is (`Spliced`), and so does the leader's log;
but an entry shared beyond the cut would mean equal logs up to it (`AdoptedKeeps`).

**RouterProofs.** `RouterTypes`, `WindowStaysBounded` and `RouterDeliversAtMostOnce`, for
every window size and counter width, wraps and restarts included. The invariant adds
that the number of each handled packet is in the window, or too far below its
upper edge to be accepted (`HandledKnown`), that an untouched channel has handled
nothing, and that packets are numbered apart. `RefusalsAreJustified` is the converse,
for a sender that was not restarted and has not wrapped: a packet's number is then its
place in the channel (`RunNumbered`), and the window and the highest number are those
of packets that were handed over (`RemembersHandled`), so that a refusal names one.

**SendQueueProofs.** `QueueTypes`, `NoWakeupIsLost`, `QueueStaysBounded`,
`QueueKeepsOrder`, `NothingUnaccounted`, for any number of producers, priorities and any capacity. The order needs that
insertion numbers are distinct and that whatever was popped was before, in
priority or in time, all that was then in the queue (`PoppedFirst`). The accounting
needs that no place holds an item numbered above the pushes, since the next push takes
that number (`AccountedIn`); every step moves one item between two places
(`MoveAccounted`) or lets one arrive (`ArrivalAccounted`).

**GossipProofs.** `GossipTypeCorrect`, `GossipNeverRegresses`, and, for every key with
a `SingleWriter`, `SingleWriterAgrees`: every entry anywhere, on a node or in a
message, was written (`AllWritten`), each version of a key was written once
(`WrittenOnce`), and its writer is ahead of all (`WriterAhead`).

**WeakNetProofs.** `RecordsNeverRise`, `DeltasLoseNothing`, `WeakNetNeverRegresses`. The
record of a peer is raised only to a record that a message carries, and a message
carries only records: the invariant `WeakInv` says that both stay 0 and that every
map on its way is a whole one (`WholeMaps`).

**NodeProofs.** `NodeTypeCorrect`, `TickersAreKnown`, `StoppedIsQuiet`,
`UdpReaderNeverBlocks`, `ChannelOnlyEmpties`, `NewestAreKept`, for any timers, goroutines, connections
and capacity. `TickersAreKnown` needs that a used slot carries the name of a timer
(`Named`). That nothing ticks after `StopAll` follows from it: what ticks is in the
map, which is empty. That UDP's reader finds room needs that UDP has one reader only
(`OneReader`), since two could fill the place one of them made. That nothing arrives
after `Stop` needs that the readers, and then `recvLoop`, have ended when main has waited
for them, and that none is started after that (`ReadersGone`, `LoopGone`). `NewestKept` is inductive once the
readers are known to be off before `Start` (`NotBeforeStart`): a step leaves the
channel alone, takes its head out or appends what a reader has in hand (`ChannelStep`),
and each of these keeps the order (`TailInOrder`, `AppendInOrder`).

**MetricsProofs.** `MetricsTypes`, `SkewStaysBounded`, `LastReportIsComplete`,
`HeaderComesFirst`, `RingImplementsWindow`. The invariant `MetricsInv` adds to these
properties where the loop stands between taking the last snapshot and logging it
(`FinalInv`). That a header comes first needs where the loop stands between seeing an
empty file and writing to it (`HeaderInv`). For the refinement, `Window` gives what a ring with a position and a flag
shows, and `RingAdds` says that a sample recorded is one appended, with the oldest
dropped once the ring is full; `Reset` and crashes map to `Clear`, everything else to
stuttering.

**Only model-checked.** Liveness (`EventuallyServed`, `StopReturns`, `Converges`,
`UdpStops`), which is out of the prover's reach: it needs fairness and
`ENABLED`. Every invariant and action property of the passing runs is proved. The
counterexamples of the other runs are TLC's, as counterexamples are.

## 5. What is not modelled

* The codec, the configuration and the peer manager: conversions, a file that is
  read once, a map under a lock that nothing changes after the start.
* TCP's outbound pool: sending is a step of `SendQueue` that succeeds or fails. That
  `Stop` takes the lock of a connection that a blocked `Write` holds (`tcp.go:130`) is a
  hazard without a property.
* The path of `Node.Start` for an algorithm that fails to start, which no algorithm of
  the repository does.
* The counters of the sending side, rates, percentiles and the layout of reports.
* Restarts of gossip and WeakNet nodes, which lose their versions.

Acknowledgements of critical messages do not exist in the code. Raft's crash
recovery and changes of the cluster are declared out of scope by `raft.go`; the set of
peers is fixed. Time is modelled by what may happen next, never by durations; where
two durations are compared in the code, a bound stands for their ratio (`MaxResend`).

## 6. Plan

Done, in this order: `Raft` and its election; `Router`; `SendQueue`; `Gossip`;
`WeakNet`; their proofs; `TimerManager` and `Node` with the transports' inbound side;
`Collector` and `Reporter`; the partition of WeakNet; the proofs about these.

Then the proofs that were left: leaders, timers and log matching of `Raft`, refusals of
`Router`, the accounting of `SendQueue`, the order of the channel of `Node`; terms along
logs and what logs share with their leader's.

Next, models: TCP's outbound pool beside `SendQueue`, with dialling and with `Stop`;
a restart of a node in `Gossip`. New questions join an existing run where the
instance allows it, so that the runs stay few and each remains a question of its own.
