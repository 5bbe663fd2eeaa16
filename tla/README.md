# HFT-Proj: a TLA+ model of the feed arbitrator

HFT-Proj takes the two redundant multicast feeds of a venue (NASDAQ ITCH 5.0
messages in MoldUDP64 packets), puts them back into one gap-free stream, asks a
retransmission server for what both feeds lost, and hands each message downstream
once, in order. Around that core stand a replay engine, a pipelined transport
with a thread of its own, and a large test kit of sinks, folds and worker lanes.

This directory holds TLA+ modules of the core and of the test kit's concurrent and
algebraic parts, the TLC configurations that check them on small instances, and TLAPS
proofs, for every instance, of all safety and action properties of the sequencer, the
engine, the mailbox and the ring mode of the hydra lanes, and that the batched drivers
implement the classic ingest. Every definition is translated from the Rust source;
`PROJECT.json` maps each one to the lines it stands for.

Contents: 1 components, 2 modules and how they correspond to the code, 3 runs and
bounds, 4 fairness, 5 proofs, 6 disagreements between code and documents, 7 what is
not modelled, 8 plan.

## 1. The system and its parts

| part | state it keeps | operations | interacts with |
|---|---|---|---|
| wire format (`nf-protocol` moldudp64, packet) | none; `FrameMemo` per frame | classify a header, span, walk the blocks, memoize the valid prefix | sequencer, transports |
| reorder window (`nf-arbitrator` window) | 1024 slots, `staged_count`, `max_staged` | stage, clear on advance, drain | sequencer |
| sequencer (`nf-arbitrator` lib, session, gap, intent) | W, session, generation, state, gap evidence, last heartbeat, pending range, times | `ingest`, `recovery_intent`, `seal`, `reanchor` | engine, sink |
| batched drivers (`nf-arbitrator` lib, `nf-testkit` soa) | locals of a scan: W, counters, up to 32 held-back spans | `ingest_batch`, `ingest_entries`, `ingest_entries_ladder` | sequencer, sink, pipelined transport (elig bytes) |
| sinks (`nf-testkit` sink) | last generation and number, open gap | `on_msg`, `on_span`, `on_event` | sequencer |
| recovery client (`nf-recovery`) | a UDP socket | `send_request`, `recv_packet` | engine, server |
| retransmission server (`nf-testkit` fakeserver) | counters, fault mode | answer a request | client, over UDP |
| engine loop (`nf-engine` bin/replay) | retry counter, last range | poll, drain the socket, ingest a batch, evaluate the intent, count retries, seal | all of the above |
| replay transport (`nf-transport` render, `nf-testkit` sched) | schedule cursor, virtual clock | `poll`, `now_ns`, `reset` | engine, pipelined transport |
| AF_XDP transport (`nf-transport` xdp, `xdp/redirect.c`) | UMEM rings | `poll` | engine |
| pipelined transport (`nf-transport` pipeline) | the `Mailbox` words shared by two threads, ring of buffers | RX thread: publish, marker, advance, serve a reset; consumer: `next_batch`, `next_group`, `reset`, `reset_pass`, drop | replay transport, batched drivers |
| RX descriptor ledger (`nf-transport` rxdesc) | window records, arrays of descriptors, the ready register, chunk marks | open a window, publish, walk | hydra in array mode |
| hydra (`nf-testkit` hydra) | per lane a descriptor and a result ring; the fold journal, pass records, assist ring | `on_span`, `begin_pass`, `end_pass`, `drain_ready`, `finish`, `reset`; lane workers | sinks, ledger, dual producer |
| dual producer (`nf-testkit` dual, hydra) | the gate, the shared leaf ring, arrivals | arm, two drains, merge at a boundary, poison, disarm | hydra, pass replay |
| multi-venue fleet (`nf-testkit` multivenue) | slot tapes, merge rings and planes, published window, day chain | construct, owners fold, driver merges, jumps, shuts down | benchmark driver |
| pass replay (`nf-testkit` passreplay) | ledger of recorded sink calls | record, fuse, seal, replay | sequencer, pipelined transport |
| signal fabric (`nf-testkit` sigfabric, sigpush, orderscan, lobstate) | table of live orders, per-locate token tables, signatures | resolve by probe or by scan, bake, replay | ledger of frames |
| folds (`nf-testkit` spanfold, crcfold, sink) | none | fold records, trees, merges; CRC kernels | hydra, signal fabric |

Hard behaviours, and what makes the parts correct:

* **Sequencer.** Packets overlap, repeat and arrive in any order; sessions change
  under staged messages; ends of session are announced before the last message is
  in. It is correct when each message comes out once, in order, with its own bytes;
  when the gap events downstream match what is missing; when what it asks for lies
  ahead of W and covers what is staged; and when an ended session stays ended.
* **Batched drivers.** They hold W, counters and emissions back in locals and apply
  whole groups at once. They are correct when nobody can tell: sequencer, sink and
  counters are where frame-by-frame ingest would have brought them.
* **Engine, client, server.** Requests and answers cross the feeds at any time, and
  get lost, cut, doubled or misdirected. Correct: a request is never empty or beyond
  the venue's last message, a session that ends is complete, a request does not stay
  pending for ever.
* **Pipelined transport.** Two threads over a dozen atomic words, three unbounded
  futex waits, a command word written by both. Correct: a buffer is not rewritten
  while it is read, a pass is delivered whole, no wake-up is lost, every reset and
  the final join come back.
* **Hydra.** Spans are dealt to lanes in chunks, evaluated out of order and folded in
  order; a pass may begin and end inside a chunk; the core evaluates chunks itself when
  a lane is full; in array mode a pass is published before it has been seen, and a
  worker re-emits what it recorded. Correct: the hash of a pass is the fold of its own
  spans in emission order, rings do not overrun, no wait lasts for ever.
* **Dual producer.** Two threads drain the lanes and meet at pass boundaries over a
  ring that only one of them empties. Correct: the same hash and count, and the
  rendezvous ends, poisoned or not.
* **Fleet.** Owners run windows apart from each other and from the driver. Correct:
  each window's tuple and the day chain equal the oracle of the construction.
* **Pass replay, self-serve.** A pass is delivered from a recording of an earlier one.
  Correct: the sink cannot tell, and nothing the consumer holds is rewritten.
* **Signal fabric and folds.** The same result by two routes: table or scan, one by one
  or composed. Correct: the routes agree on every tape.

The hazards this exposes, each at its line, are listed in `PROJECT.json`.

## 2. Modules

```
MoldUDP64 <- ConformanceSink <- Window <- Sequencer <- FakeServer <- Engine <- MCEngine
                                  ^            ^  ^---- PerFrame <- BatchIngest <- MCBatchIngest
                                  |            |----- MCSequencer
                              Window_proofs <- Sequencer_proofs <- Gap_proofs <- Engine_proofs
Counting_proofs, Gap_proofs, BatchIngest <- Batch_proofs
Mailbox <- MCMailbox
Counting_proofs, Mailbox <- Mailbox_proofs
Counting_proofs, HydraLanes <- HydraLanes_proofs
PassReplay <- RxReplay <- MCRxReplay
FoldJournal, LaneGrid <- PassFold <- HydraLanes <- MCHydraLanes
                         PassFold, ResLog, Rxdesc <- HydraRx <- MCHydraRx
FoldJournal, LaneGrid <- Dual <- MCDual
FleetTape <- Fleet <- MCFleet
OrderScan, OrderCache <- SigResolve <- MCSigResolve
SpanFold <- CrcFold <- SigFabric <- MCSigFabric
```

**MoldUDP64.** A packet is a session, a sequence number, a count and how far its
block walk gets (`good`, `err`). The data of message `n` of session `s` is the pair
`<<s, n>>`, so a message emitted under the wrong number is visible. `walk_fails` and
`walk_handed` are `packet::ingest_walk`: skipped blocks are framed, not validated.
Numbers are `0..U64_MAX` with wrapping addition `Add`, as in a release build.

**ConformanceSink.** The assertions of the test kit's `ConformanceSink`: generations
do not go back, numbers are consecutive, gap events pair up. `failed` records that
one fired; `corrupt` that bytes and number disagree (what `HashSink` compares).

**Window.** `stage_msg`, `clear_slots`, `drain` as operators on the record. A slot is
empty or holds a message; arena bytes under a zero length are never read.

**Sequencer.** One record `q`, the fields of `struct Sequencer` and its sink. Each
handler is an operator from record to record, in the order of the code, early
returns included: `session_dispatch`, `handle_heartbeat`, `handle_eos`, `seal`,
`gap_evidence`, `check_gap_close`, `apply_in_order`, `apply_ahead`, `ingest`,
`check_recovery_intent`. The actions are the calls of the public interface. Times are
ages capped at `TRIGGER`, the value all three 250 us constants share. Counters are
left out here (nothing reads them) and appear in PerFrame.

**PerFrame** is the abstract specification of a batch: the frames are applied one by
one through the classic `ingest`, any number in a step. **BatchIngest** is the code:
the driver enters the scan when `steady_ready`, the scan steps over duplicates and
in-order frames, applies verified ladder groups, stops at a cold frame, commits and
applies that through `ingest_auto`. The refinement maps the sequencer to what it
would be if the scan were left now (`committed`). `mode.pairs` is the number of pairs
a ladder kernel looks at (4 in the code, 0 without AVX-512).

**FakeServer** and **Engine.** The server's packing and its fault modes; the engine
loop with its control point, the two UDP channels and the server thread. The feeds
deliver each packet any number of times in `Copies`, in any order, then the
heartbeat, then the end-of-session train, as `build_schedule` lays it out. Engine
applies frames through the classic `ingest` where the code calls `ingest_auto`; the
batch run shows the two agree.

**Mailbox.** The RX thread and the consumer, one action per step between two accesses
the other thread may see in between. `mode` is how one pass follows another: the
reset handshake, the session program (`auto_fn`), or the same pre-armed. A batch is
its pass and its place in it. Words are sequentially consistent: the build is for
x86-64, every handshake there stores with a locked operation or relies on the order
of stores only. Timed waits (`BUF_PARK_NS`) only re-read their condition and are not
modelled, nor is `prod_parked`, which shortens them. The consumer follows its
harness: after the end of a pass it resets before it asks for a batch again.

**PassReplay** and **RxReplay.** PassReplay is the ledger: what a live pass records,
how neighbouring calls are fused and rebased, when a template is sealed, and the guards
under which a batch is replayed. RxReplay is the data behind Mailbox: the master array
of frames (two deliveries of one packet share a region), the prepatch that rewrites the
session of freed frames, the schedule that is recorded and played back, the consumer
that serves itself and retires RX. A configuration says whether sessions are elided,
whether self-serve is wanted, whether the master is written between passes, and whether
passes are abandoned. Parks are left to Mailbox.

**FoldJournal, LaneGrid, PassFold** are what hydra's modes share. A hash is the sequence
of the values folded into it, so that any lost, doubled or misplaced value shows; the
segment map (k, b) is then the sequence of its k values. **HydraLanes** is ring mode: the
core's calls (one action each, the waits of a call as control points of their own), and
per lane a worker that takes, evaluates, publishes and frees. The cursors are read where
the code reads them. `OpenWait` is the core waiting for a chunk while it folds.
**ResLog, Rxdesc, HydraRx** are array mode: windows and arrays, the ready register, the
toroidal and self-serve regimes, the corrections of a word that differs, the recorded
segments with their tiling check and their replay, both workers (diet and plain). A pass
is a tape of words; `core.tapes` remembers them for the property only.

**Dual** takes the self-serve regime as given and models P0, P1, the lanes' results and
the gate. A step ends at a store the other thread reads. The script of a pass gives spans
and messages per batch; P0 leaves the odd ones uncounted.

**FleetTape, Fleet.** The construction side and the running side of the fleet. A
composite is a sequence of spans (composition is associative and does not commute), the
cross-slot digest a bag (it commutes). `sink.harvested` and `completed` keep what the
driver took, for the property.

**OrderScan, OrderCache, SigResolve.** Row operators and their segmented scan (in place
and by vector blocks), the open-addressing table with growth and shifting erase, and the
two resolvers over the same tape. `orders` is the abstract state: the live orders.

**SpanFold, CrcFold, SigFabric.** Polynomials over GF(2) are sets of exponents, so that
the field, the modulus and the tables may be small while the code's steps (double
folding, power tables, shifts, trees, two levels, merges) stay as they are. CrcFold
models a body as bits, cuts it into blocks and lanes, and gives every kernel with its
streams, merge offsets and tails; states are residues, so that two representatives of
one class are the same state. SigFabric bakes ledgers into tables, signatures and books
and replays them.

Operators whose comment says *mutant of* are wrong versions of the definition that
follows them. No specification uses them; they show that a property has teeth.

## 3. Runs

`tlc -workers 2 -config X.cfg M` in this directory. All bounds are constants.

| run | cfg | what it checks | distinct states |
|---|---|---|---|
| core | MCSequencer | TypeOK, W1, Conformance, NoZombie, SinkAtWatermark, GapEvidence, WMonotone, EndedIsFinal | 159 K |
| engine | MCEngine | RequestSound, EndedComplete, PendingResolves | 115 K |
| batch | MCBatch | SpansConsecutive, Implements (refinement of PerFrame) | 1.4 M |
| mailbox | MCMailbox | HeldStable, FreedOnce, PassWhole, BakeUnseen, ResetsComplete, DropJoins | 279 K |
| hydra | MCHydraLanes | PassParity, RingsHold, CallsReturn, DropJoins | 612 K |
| hydra_rx | MCHydraRx | PassParity, NoPanic, Drains | 284 K |
| fleet | MCFleet | BitExact, JumpCertified, Ends | 229 K |
| dual | MCDual | PassExact, Rendezvous | 272 K |
| replay | MCRxReplay | HeldFresh, ReplayExact, ScriptExact, Completes | 120 K |
| signals | MCSigResolve | CacheExact, PushPullParity | 55 K |
| fabric | MCSigFabric | BooksExact, FabricReplays, SpanExact | 40 K |
| lost_wake | MCMailboxLostWake | TurnArrives, which the code violates (section 6) | |

Why the bounds are enough:

* **core**: four slots and numbers from 0 up to 4 plus a packet, so that numbers a full turn
  apart meet in a slot, packets reach beyond the window, and a full window drains.
  Packets of up to two messages overlap W by none, one or all. `HWM_STAGED_THRESHOLD` 2
  and `MAX_WIRE_REQUEST` 3 make T-HWM fire and the cap cut. Two sessions and `MaxGen` 3
  admit a gap, a boundary and a gap in the new session, or two boundaries. `MaxBadPrefix`
  0: a bad first block or bad framing; a bad block behind good ones is in section 6, and
  covered by the proofs of W1, NoZombie, GapEvidence and WMonotone, which admit it.
  Sessions are symmetric: nothing compares them but for equality. `U64_MAX` 15 is out of
  reach; the wrap of W is excluded here and in the proofs (section 6).
* **engine**: six messages in packets of two, four slots, answers of up to two messages
  that start at any W, so that answers and feed packets overlap by one. Every fault
  mode, on its first request or packet. Each feed packet is lost on both feeds or
  arrives. On "replay" a poll is empty only at the end of the schedule. An intent that is
  raised before W is anchored asks from 0, and the server labels its first message 0 then
  (fakeserver.rs saturates `from - 1`); the model keeps numbers and no bytes, so that this
  answer is the packet of number 0. `Rolling` is FALSE: heartbeats come after the data, as
  with `heartbeat_interval_ns` 0. The three properties hold too with rolling heartbeats,
  five messages on "xdp" and faults {"ok", "truncate", "silent"} (812 K states); with
  "wrong_session" among them see section 6.
* **batch**: without the ladder, batches of two of eight kinds of frame (in order,
  duplicate, overlapping, ahead, other session, bad block, heartbeat, end), up to three
  of them, clock and intent in between, and a buffer of two spans so that it fills and
  flushes; with it, batches of five, so that one-pair kernels make a wide group and a
  two-pair kernel a narrow one with a frame left over, among frames with longer
  duplicates, wrong feeds and a foreign session inside a group. A wide group of two-pair
  kernels (eight frames) is not reached.
* **mailbox**: five buffers, passes of three batches and a marker, three resets of the
  armed modes and two of the handshake, groups of one and two: the ring is one longer
  than a pass, so that the RX thread can be a pass ahead and buffers are reused across a
  boundary; without that the gate of the pre-armed advance never closes. Parks of the
  consumer on a turn are on in the reset handshake only (`Parks`): elsewhere they lose a
  wake-up, which is lost_wake. Deadlock is not checked, as a lost wake-up or a lost command
  really stops both threads.
  ResetsComplete has three premises, one for each state in which the code hangs (section
  6). `command_lost` is met here: a second reset is issued while the answer to the first is
  still being stored, and those whose command stands must come back. `marker_blocked`
  needs a ring no longer than a pass, `ended_early` needs `Exact`; with three buffers and
  two publications that fill exactly all three premises are met, and ResetsComplete
  holds (127 K states).
* **hydra**: two lanes, chunks of two, descriptor rings that hold one chunk and a half,
  six spans in two passes and a reset: passes end inside and at the end of chunks, lanes
  are full, the assist ring of two fills, a journal of one overflows, and the second
  generation starts before the first one's workers are idle. All three builds (packed
  descriptors, tree fold, forced assist).
  A lane gets at most four of the six spans and its result ring holds five, so here the
  worker's room test delays results but could not be overrun without it; that the test is
  what RingsHold rests on is in the proof, for every size of ring. With one lane and a
  ring of four it can be overrun, and RingsHold holds (319 K states).
* **hydra_rx**: two lanes, two arrays, tapes of three to five words: a tape of three
  starts every later pass at another place of the grid of four and comes back to the
  first within five passes, so that a recorded script is replayed. The configurations in
  MCHydraRx reach each regime, leave it because the tape changed, and restart once.
  Passes are long enough for every lane to have a span (section 6).
* **fleet**: two slots, two owners, chunks of two and super-chunks of two sub-records;
  batches that end inside each of them; a ring of two with up to four windows, so that
  it wraps and the lag gate closes. One configuration jumps.
* **dual**: chunks of two, passes of three and five spans that start at different places
  of the grid, four passes, pace three. One family is poisoned at any batch with room in
  the leaf ring, the other fills the leaf ring of ten and is not (section 6 says why
  they are apart).
* **replay**: a tape of eight events with a tombstone and shared regions, seven frames in
  publications of two, a ring of three, four passes: record, clean template, replay or
  self-serve, and one more after an abandoned pass or a write to the master. The frames go
  to the sink by each of the calls the ledger keeps: events, spans, batches of spans,
  packed spans.
* **signals**: tapes of five messages out of sixteen in batches of up to three rows; two
  orders that collide in the last slot of four, so that probes and erasures wrap, and a
  third that makes the table grow; takes that exceed what is left, so that one and two
  re-anchor rounds happen.
* **fabric**: sessions of up to six messages on three locates and one duplicated packet
  in any place of the ledger; GF(2^5), chunks of two and three. The CRC part is one
  constant formula: every body length up to 90 (two rounds of the widest kernel and a
  tail) in two contents.

Deadlock is checked in core, engine, batch, dual and replay, where `Finished` in
Engine, RxReplay and Dual is the step of a program that has ended: any other state without
a step is reported. Hydra, fleet, signals and fabric stop when their bounded driver has no
calls left; their liveness properties say what must have happened by then.

What the properties say, beyond their comments: *W1* and *NoZombie* are the
clear-on-advance law; *Conformance* is what every differential test of the
repository asserts, here for all packet orders; *GapEvidence* ties the three places
that know of a gap (flag, evidence, sink) together; *EndedComplete* spans feeds,
server, client and sequencer; *Implements* is the equivalence the batch parity tests
sample; *FreedOnce* is the exact account of buffer uses over resets, abandoned passes
and groups, from which *HeldStable* and the absence of deadlock follow. *PassParity* and
*PassExact* are the bit-parity law (H3) of the parity tests, here for every interleaving;
*BitExact* the sheaf's contract; *ReplayExact* compares what the sink saw with the
frames, whichever of five routes they took; *PushPullParity* holds at every end of the
tape, so at every place a batch may be cut. *CallsReturn*, *Drains*, *Rendezvous*,
*Completes* and *Ends* are the waits of the code, most of them unbounded spins.

## 4. Fairness

*FairEngine*: weak fairness of leaving each control point of the loop (it never
blocks: poll and recv are non-blocking) and of the server taking a request (its own
thread). Strong fairness of a clock movement on the AF_XDP transport only, where the
time is the kernel's: polls happen again and again, and infinitely many of them see a
later time. Nothing is assumed of the replay clock. Without the strong part a
behaviour in which all polls fall into one instant would count.

*FairMailbox*: weak fairness of each thread's next step: both are scheduled. A futex
wait is a step that is enabled when the word has changed, so fairness never wakes a
thread by itself. Which calls the consumer makes is left open; `Call` has no fairness.

*HydraLanes, HydraRx, Dual, RxReplay*: a thread that again and again is not waiting takes
steps, written `[]<>waits \/ []<><<step>>_vars` with what a thread waits for spelled out
(`WorkerWaits`, `FoldWaits`, `P0CanStep`...). This is weak fairness of the thread, as a
condition on the state in place of ENABLED, and it assumes scheduling only: every wait
in these threads is a spin that re-reads its condition. The core of HydraLanes and HydraRx
must finish a call it is in, and in HydraRx goes on with its passes. *Fleet*: weak fairness of the
driver and of each owner, which are threads of their own.

## 5. Proofs

Checked with tlapm (Z3, Zenon, LS4). Eight modules; each theorem holds for every value of
the constants that its hypotheses and the modules' named assumptions admit.

| module | theorems (property) | hypotheses |
|---|---|---|
| Window_proofs, Sequencer_proofs | CoreInvariant, TypeCorrect (TypeOK), WindowInvariant (W1), ZombieFreedom (NoZombie) | NoWrap |
| Gap_proofs | GapInvariant, GapProtocol (GapEvidence), WNeverBack (WMonotone), EndStaysEnd (EndedIsFinal) | NoWrap |
| Gap_proofs | OrderInvariant, EmissionOrder (Conformance), NothingSkipped (SinkAtWatermark) | NoWrap, NoBadPrefix |
| Engine_proofs | EngineInvariant, RequestsSound (RequestSound), EndComplete (EndedComplete) | NoWrap, EngineFits |
| Batch_proofs, Counting_proofs | BatchInvariant, BatchImplements (Implements) | NoWrap |
| Batch_proofs | SpansFollow (SpansConsecutive) | NoWrap, NoBadPrefix |
| Mailbox_proofs, Counting_proofs | MailboxInvariant, BuffersHeld (HeldStable), UseCounts (FreedOnce), PassesWhole (PassWhole), BakesUnseen (BakeUnseen) | none |
| HydraLanes_proofs, Counting_proofs | HydraInvariant, RingsNeverOverrun (RingsHold), PassesExact (PassParity) | none |

* *NoWrap*: the numbers on the wire, plus a window and a request, stay below the end of
  u64. The wrap is a real limit of the code (section 6), so the hypothesis is needed.
* *NoBadPrefix* (`MaxBadPrefix = 0`): a packet that does not validate fails at its first
  block. Without it Conformance is false of the code (section 6). It is asked for only
  where it is needed: the window, the gap protocol, WMonotone and EndedIsFinal hold with
  any broken packet.
* *EngineFits*: the venue's numbers and packet sizes are ones the wire carries, and with
  rolling heartbeats no server answers for another session: RequestSound is false of the
  code with both (section 6). The engine needs no
  NoBadPrefix: feeds and server send whole packets.

All of them are true of the constants in the cfg files of the runs.

**Core** (window). W1 is not inductive. In between, ingest breaks it: after W has
advanced, a message may be staged at W itself, and drain then takes it. Clearing keeps a
slot only if the number in it is at or ahead of W, which needs the slot to hold its own
number; draining emits genuine data only if every slot does; and W stays in range only
if the numbers staged are bounded. *Core* therefore adds to W1: the types; `W <= MaxW`
and the same bound on every staged number; that nothing is staged while the state is
Init or no session is known (otherwise the anchor would move W away from what is staged,
and a session adopted later would own another's messages); and that the sink is not
corrupt. *SlotInjective* (two numbers less than a window apart have different slots) and
*ConsecutiveSlots* give *ClearSlotsLemma* (from window ahead of old W to window from new
W on), *DrainLemma* (from there to strictly ahead of the drained W, all data genuine) and
*StageLemma* (staging within the clamp keeps window and count). `Sequencer_proofs` has
one lemma per handler, and the theorem has one case per action.

**Gap** (gap protocol). GapEvidence says that a gap is open exactly when `evidence_hwm`
is ahead of W. After an in-order packet the code looks only at W: it closes the gap when
W reaches the evidence. That nothing is then left staged, without which the next packet
ahead would not be a new gap, is *Dense*: from the evidence on, no staged number has a
hole below it, since evidence is where the packets ahead of W begin. *Mid* is what holds
inside a handler, when W has moved and the gap has not been looked at again; each
handler leads from Gap to Mid and `check_gap_close` from Mid to Gap.

**Order** (emission). `last_seq + 1 = W` unless nothing was emitted in this generation,
no assertion failed so far, the sink is not ahead of the generation. With Gap it makes
every call of the sink conform: a gap event closes the gap that is open, and drain hands
on the number after the last.

**EngineInv** (engine, feeds, client, server). Requests in flight lie in the session and
start at or behind W, which only moves forward; answers and feed packets are genuine.
EndedComplete then needs that W is at the end when the session ends: everything staged,
asked for or announced is bounded by the venue's last message (*Reach*), a range once
asked for ends ahead of W until it is closed (*Within*), and a heartbeat is heard only
when the data of its feed has passed (*Fed*). A server that answers for another session
is the exception: W then belongs to that session, and RequestSound says so.

**MailboxInv** (two threads). FreedOnce says how often each buffer is freed; it is not
inductive, since what a reset frees depends on what the RX thread has published, which
depends on the pass it is in and on the words it has written and the consumer has not
read. The invariant is `\E f \in Nat : MailboxAt(f)`, with f the first turn not freed: the
consumer holds the turns from f to its cursor, the RX thread has published the rest up
to `Pub`, and no more than a ring lies between f and Pub (*RingAt*). The other parts are
one per protocol: *Handshake* (who may hold which command and ack, so that a reset is
served once), *Progress* (where in its pass the RX thread is at each control point),
*Contents* (each turn published and not freed is the batch of the right pass),
*Baking* (what the auto words say, and how far an armed advance may be ahead of f),
*Delivered* (where the consumer is in its pass), *Skipping* (how far `reset_pass` frees).
Each step has a lemma that picks the new f. *Counting_proofs* gives the arithmetic: how
many of the turns below f use buffer i (*UsesBefore*), and that turns less than a ring
apart have different buffers (*ModApart*). No bound on passes, groups or the ring is
used, and parks are the code's: a lost wake-up (section 6) stops threads, it does not
break these properties.

**BatchInv** (batched drivers). *View* is the sequencer with the scan's locals committed,
*CntView* the counters so. The invariant says that View is a state Core, Gap and (under
NoBadPrefix) Order hold of, that the sequencer under a scan is steady, and *Held*: the
spans held back follow each other, each below the end of u64, and end at the scan's W.
Held is what makes a flush, span by span or packed, one call of the sink (*FlushOne*,
from *TotalOne* and *EachOne*), and so emitting later the same as emitting at once
(*CommitMoved*). Each step is then a stutter of View or a Take (*Observed*):
* outside the scan ingest_auto is ingest, because a memo that covers every block and the
  published triples say what the walk would find (*AutoIngest*);
* a duplicate adds its counts, a frame at W moves View on by its blocks (*SteadyDup*,
  *SteadyAdvance*);
* a verified group is one run of pairs (*Verified*, from the kernels' comparisons and the
  elig bits), and each pair is an advance and then a duplicate (*OnePair*, *PairUp*), so
  the group is a Take of all its frames at once, with the counters the code adds for it.

Lengths are arbitrary, so these are inductions over a batch, a buffer and a group. The
library's induction theorems cannot be instantiated (they take an operator), but for
numbers up to an n first-order forms do: *Climb* is induction as the statement that a set
holding 0 and closed under +1 contains 0..n, and *FoldExists* and *FoldPrefixes* give,
for a fold over a sequence, the function of its intermediate results. Both are in
*Counting_proofs*, proved from the well-foundedness of < on the naturals.

**HydraInv** (hydra lanes, ring mode). PassParity and RingsHold are not inductive, and
neither can be proved without the other's reasons: the fold of a pass is right because the
next result of the lane is the next span, and that is so because of what the core put into
the rings long before. The invariant says where every span in flight is. It has two parts,
one over the core alone and one per lane.

*CoreOk* is about the sink. The passes are numbered, those from `h` not harvested, from `t`
not complete, `p` the next to begin (`\E h, t, p`); they follow each other without a hole
(*PassChain*), the fold is in the oldest (*FoldInPass*) and, between calls, not at its end
(*NothingDue*). The fold's state is a hash of the spans up to some x and one journal entry
for each span from x to `fold_pos` (*FoldAt*; x is `fold_pos` without the journal), and a
completed pass is the fold of its own spans (*PassesDone*). The assist ring holds runs of
spans, disjoint and in order, all ahead of the fold (*AssistRing*). Two facts tie the two
together: no pass ends inside a chunk, and a chunk begins where the grid's chunk or a pass
does (*AssistPasses*, and *NextOpens* for the one that opens next). Without them a capped
drain could stop inside an inline chunk or run into one, and the next span would be looked
for in the wrong place.

*LaneAt* is about a lane. *Flying* are the spans submitted, not folded and not in the assist
ring; those of the lane are *Mine*. Results from `res_tail` to *Made* and words from *Seen*
to *Top* are Mine, ascending, results before words (*ResultsAt*, *WordsAt*); every Mine is
one of them (*Complete*); and the number a worker gives a span is the span's, from the
anchor, the word before it or what the worker remembers (*Numbered*). Ascending and complete
together give what FoldLane needs: the n next results of the lane are the n spans from
`fold_pos` (*NextResults*). *OpenAt* says that an open chunk fits whole, since room is asked
for once, when it opens; *Cursors* bounds both rings.

The steps of the core that leave the lanes alone go through *SteadyLanes*, a ring write
through *RingStepIs*, *RingGrown* and *OpenAt*, a drain through *NextResults* and *DrainedLane*,
the worker's steps through *WorkerCursors* and *EvalFactsAre*. What the journal does is in
*PushValues* and *FlushAll* (values pushed one by one or in a chunk, with and without the
tree), the passes in *CompleteDue*. The number of lanes, the chunk, both rings, batch,
journal and assist ring are arbitrary within the modules' assumptions: a ring of
descriptors larger than a chunk (a packed chunk has an anchor too), results for a chunk
and a batch, more than one pass and assist slot. The source's constants satisfy all.

Every one of these invariants was an invariant of TLC runs before it was proved; the
mailbox's on 73 combinations of ring, pass, mode, group and `Exact`, HydraInv on the
constants of the hydra run and five other sets of them.

What stays with TLC, and why:

* Liveness: PendingResolves, ResetsComplete, DropJoins, TurnArrives, CallsReturn, Drains,
  Ends, Rendezvous, Completes. The prover handles neither fairness nor ENABLED.
* PassParity and NoPanic of HydraRx, PassExact of Dual. HydraInv is the pattern for them,
  but each needs an invariant of its own: in array mode a span is a word that may be
  corrected in place or replayed from a recorded segment, and in Dual two threads fold, so
  where a span in flight is depends on the epoch of each array, on how far each thread has
  come and on the poison.
* BitExact and JumpCertified (compositions of a window), HeldFresh, ReplayExact and
  ScriptExact (a recording equals what it records, and no region is rewritten while it is
  held), FabricReplays and BooksExact (two routes through a ledger). Each is about the
  value of a fold over a sequence that several actors build. None has its inductive
  invariant yet; Counting_proofs has the induction such a proof would use.
* SpanExact: identities of polynomials over GF(2), checked over every body of the run; they
  need an algebra of sums over exponents that no library module has.
* CacheExact and PushPullParity, in a module with a RECURSIVE operator, which the prover's
  SMT backend does not accept.

## 6. Where code and documents disagree

One disagreement has a run that ends in a counterexample, *lost_wake*: the consumer raises
its flag once per call; woken for an earlier publication it parks again with the flag
down and is never woken (pipeline.rs:3243, against 226 "an unbounded park can never miss
a publication").

Others, with the setting that shows them where it is one of the constants; definitions
named here are in the MC modules.

Sequencer and engine
* A packet with a bad block behind good ones has its prefix emitted, W stays, and the
  next copy emits it again (doc 05:175 "S4 FULL VALIDATION (atomic, P-2)"): core
  with `MaxBadPrefix` 1 and `MaxGen` 2 violates Conformance. An ahead packet that
  fails so leaves `max_staged` behind, and T-TIME then asks for an empty range (lib.rs:436, doc 05:310).
* A session whose end was announced goes back to Contig when its gap closes (gap.rs:40,
  doc 05:75 "EOS-PERSIST ──gap closed──▶ ENDED"); an end of session that arrives when
  both the tail and the heartbeat are lost leaves nothing to ask for (session.rs:147).
* A server that fills a range one message at a time has the session sealed
  (replay.rs:217, doc 08:110 "no W progress"). An empty poll in Gap ends the loop
  (replay.rs:188, doc 08:102). A response of another session is ingested and becomes a
  session boundary (client.rs:103, INV-R5 in doc 08:54).
* T-HB asks for a range in Init, before W is anchored (intent.rs:37, doc 05:264). A
  packet that ends at the largest u64 takes W to zero (lib.rs:352).
* Every rolling heartbeat announces the end of the last session (sched.rs:319-333). After
  an answer of another session such a heartbeat brings the sequencer back to the home
  session in Init, with the W it had, and T-HB asks from there. Data then anchors W at a
  lower number, the pending range [W, pending_to) is longer than `MAX_WIRE_REQUEST`, and
  the repeated request, cut to 16 bits, asks for 0 messages. engine with `Rolling`
  TRUE, `Faults` {"wrong_session"}, `Heard` {2}, `LastMsg` 8, `MaxSeq` 9, `Copies` {1} and `MaxBatch` 1
  violates RequestSound.
* The replay clock stops with its schedule, and a request to a silent server then stays
  pending (render.rs:1278, doc 08:124), which is why PendingResolves speaks of AF_XDP.

Pipelined transport
* Three states in which a reset hangs. Each is a premise of ResetsComplete, and a setting of
  mailbox in which a reset (`cons.pc` "kick" or "rp") never comes back:
  - `marker_blocked`: the RX thread's wait for a marker buffer does not look at CMD_RESET
    (pipeline.rs:1844), and the consumer frees the buffers of a pass it skips only after
    the ack (against 44 "deadlock-free across the boundary"): two buffers, two chunks;
  - `command_lost`: the RX thread stores its ack before CMD_RUN (1460, 2289), so that the
    CMD_RESET of a second reset issued in between is overwritten (against 2717 "Blocks
    until the RX thread has baked the new session"): mailbox as it is;
  - `ended_early`: frames that fill the last publication exactly put an empty one in front of
    the marker, which the consumer takes for it; the next `reset_pass` freezes its ceiling
    there (2878, against 2865 "On a clean end the marker was the last consumed turn"):
    `Exact` TRUE, mode "armed".
* The late CMD_RUN overwrites CMD_SHUTDOWN too: a transport of the handshake mode that is
  dropped right after a reset may join a thread that parks for ever (against 3653 "Wake the
  (possibly futex-parked) RX thread"). DropJoins leaves out every drop of that mode after a
  served reset, which is more than this needs.
* A master write in the middle of a pass truncates the ledger while the pass goes on, and
  the next batch is recorded as batch 0 of a template that starts in the middle
  (passreplay.rs:396, against "re-records from batch 0" at 392): replay with
  `Config(TRUE, FALSE, "mid", FALSE)` violates ReplayExact. A write that keeps every
  length is not noticed by the guards on lengths; the version alone tells.

Hydra, dual, fleet
* `reset` forgets which array slot was used last, so that the first window of the new
  generation may take the slot the old workers still walk (hydra.rs:6040, against 5131 and
  6058): hydra_rx with `Base`, replay off, one reset, three passes violates PassParity.
* A worker that replays takes the ready register of its own generation only and does not
  see a restart (hydra.rs:2841, against the re-anchoring promised at 5129): hydra_rx
  with `Configs <- ReplayRestarted` violates Drains.
* The guard of a correction waits for the fold to pass the word one window before; a lane
  that has no span of a short pass is not covered (hydra.rs:6231, against 6226), and a
  generation whose first passes are shorter than a grid round may overwrite its base-0
  record before a worker read it, which panics (2027, 2758). Hence passes that reach
  every lane.
* `dual_disarm_poison` spins for P1's exit while P1 may be parked on the ring that this
  thread retires (hydra.rs:5014, "The bounded terminal wait" at 5010): dual
  with `Configs <- PoisonParked` violates Rendezvous. In the zombie
  drain `complete_boundaries` is called once and the push follows whether it made room or not
  (hydra.rs:7600): `Config(4, Five, TRUE, TRUE, TRUE, 1)` violates PassExact.
* Dual's merge assumes a pass longer than a chunk; shorter ones are excluded.
* A window that ends inside a super-chunk after some of its sub-records were folded
  pushes their composite as the boundary record, and leaves them pending for the first
  super-chunk of the next window, where they are taken again (multivenue.rs:2197, against
  "NEVER carried across the edge" at 2189): fleet with `Configs <- TwoOnGrid` violates
  BitExact. The run has one window on that grid and two on the other.

Signals
* A replace of a dead order that names a live one: the push resolver kills the live
  order, the probes keep it (sigpush.rs:541 and 655, "the pull's probes miss the id later
  too", against the header's "THE IDENTICAL TUPLES"). signals with `FreshReplace` FALSE
  violates PushPullParity; the premise, that a replace names a fresh id, is ITCH's own.
* The order table takes id 0 for an empty slot; `grow` computes homes with the old
  shift, so that half of the table is home to nothing (sigfabric.rs:222). It stays
  correct. `bake_from_ledger` counts messages from its cursor, so that a ledger with a
  hole takes later packets for fresh ones at the wrong place; the ledgers here have none.

## 7. What is not modelled

* Bytes: header and block parsing, ITCH fields, hashes. A packet carries the outcome.
* The test-only mutations of the sequencer, its statistics counters (except those the
  batched drivers hold back), allocation windows, argument parsing, output.
* Cache warming, prefetch and entry builds of the transports; counters of replayed batches.
* The AF_XDP rings: the kernel is the other end of all four, and its side is not in the
  repository. `recycled_addrs` always has room: it is emptied at the start of a poll,
  and a poll takes at most one batch.
* `session_change_at_msg`, which splits a schedule into two sessions: the feeds of Engine
  send one. Changes of session are in core and batch, and in engine by the answers of
  another session.
* The staging limits of a batch of spans (asserts on `SPAN_STAGE`) and when the emitter
  flushes them: PassReplay is given the calls the sink sees.
* Registers: CRC states are residues and span hashes sets of exponents, so representation
  changes (bit reflection, unreduced states, 52-bit lanes) are not checked, nor is
  polyhash. The affine book of lobstate.rs and its batch composition.
* The reference arbitrator: an oracle over the whole history of packets.
* Thread placement, clocks, studies and the measuring parts of the benchmarks.
* Weak memory beyond x86-TSO.

## 8. Plan

1. **Array mode of the hydra lanes**: PassParity and NoPanic of HydraRx. The pass
   chain, journal and assist lemmas of HydraLanes_proofs are about operators of PassFold
   and FoldJournal, which array mode uses too, and carry over with its own type of sink.
2. **Held frames of the replay transport**: HeldFresh for every tape.
3. **Table lemmas**: an erase that shifts back keeps every other id reachable.
4. **Reference arbitrator** as an abstract specification of the sequencer over a bounded
   history: what is delivered depends on the set of packets, not on their order (FR-10).
