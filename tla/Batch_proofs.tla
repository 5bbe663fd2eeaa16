---------------------------- MODULE Batch_proofs ----------------------------
(***************************************************************************)
(* The batched drivers implement the classic ingest: what a scan holds     *)
(* back, once committed, is where frame-by-frame ingest would have brought *)
(* sequencer, sink and counters, for every driver, every batch and every   *)
(* length of a scan, a buffer and a ladder group.                          *)
(***************************************************************************)
EXTENDS BatchIngest, Gap_proofs, Counting_proofs

-----------------------------------------------------------------------------
(* The instance of PerFrame computes with the operators of this module: none *)
(* of them depends on the variables the instance replaces.                   *)

\* Numbers, and the wire (MoldUDP64, packet.rs).
LEMMA SameWire ==
  /\ Reference!NONE = NONE
  /\ Reference!HEARTBEAT_COUNT = HEARTBEAT_COUNT
  /\ \A a, b : Reference!Add(a, b) = Add(a, b)
  /\ \A a, b : Reference!Larger(a, b) = Larger(a, b)
  /\ \A a, b : Reference!Smaller(a, b) = Smaller(a, b)
  /\ \A s, n : Reference!Msg(s, n) = Msg(s, n)
  /\ \A p : Reference!span_last(p) = span_last(p)
  /\ \A p : Reference!span_overflows(p) = span_overflows(p)
  /\ \A p, n : Reference!walk_fails(p, n) = walk_fails(p, n)
  /\ \A p, n : Reference!walk_handed(p, n) = walk_handed(p, n)
<1>1. Reference!NONE = NONE
  BY DEF Reference!NONE, NONE
<1>2. Reference!HEARTBEAT_COUNT = HEARTBEAT_COUNT
  BY DEF Reference!HEARTBEAT_COUNT, HEARTBEAT_COUNT
<1>3. \A a, b : Reference!Add(a, b) = Add(a, b)
  BY DEF Reference!Add, Add
<1>4. \A a, b : Reference!Larger(a, b) = Larger(a, b)
  BY DEF Reference!Larger, Larger
<1>5. \A a, b : Reference!Smaller(a, b) = Smaller(a, b)
  BY DEF Reference!Smaller, Smaller
<1>6. \A s, n : Reference!Msg(s, n) = Msg(s, n)
  BY DEF Reference!Msg, Msg
<1>7. \A p : Reference!span_last(p) = span_last(p)
  BY DEF Reference!span_last, span_last
<1>8. \A p : Reference!span_overflows(p) = span_overflows(p)
  BY <1>7 DEF Reference!span_overflows, span_overflows
<1>9. \A p, n : Reference!walk_fails(p, n) = walk_fails(p, n)
  BY DEF Reference!walk_fails, walk_fails
<1>10. \A p, n : Reference!walk_handed(p, n) = walk_handed(p, n)
  BY <1>4, <1>9 DEF Reference!walk_handed, walk_handed
<1> QED BY <1>1, <1>2, <1>3, <1>4, <1>5, <1>6, <1>7, <1>8, <1>9, <1>10

\* The sink.
LEMMA SameSink ==
  /\ Reference!NewSink = NewSink
  /\ \A k, g, a, n, t : Reference!on_msgs(k, g, a, n, t) = on_msgs(k, g, a, n, t)
  /\ \A k, g, a : Reference!on_gap_opened(k, g, a) = on_gap_opened(k, g, a)
  /\ \A k, g, a : Reference!on_reanchored(k, g, a) = on_reanchored(k, g, a)
  /\ \A k, g : Reference!on_session_boundary(k, g) = on_session_boundary(k, g)
  /\ \A k : Reference!on_terminal(k) = on_terminal(k)
<1>1. Reference!NewSink = NewSink
  BY SameWire DEF Reference!NewSink, NewSink
<1>2. \A k, g, a, n, t : Reference!on_msgs(k, g, a, n, t) = on_msgs(k, g, a, n, t)
  BY SameWire DEF Reference!on_msgs, on_msgs, Reference!Add, Add
<1>3. \A k, g, a : Reference!on_gap_opened(k, g, a) = on_gap_opened(k, g, a)
  BY SameWire DEF Reference!on_gap_opened, on_gap_opened
<1>4. \A k, g, a : Reference!on_reanchored(k, g, a) = on_reanchored(k, g, a)
  BY SameWire DEF Reference!on_reanchored, on_reanchored
<1>5. \A k, g : Reference!on_session_boundary(k, g) = on_session_boundary(k, g)
  BY SameWire DEF Reference!on_session_boundary, on_session_boundary
<1>6. \A k : Reference!on_terminal(k) = on_terminal(k)
  BY SameWire DEF Reference!on_terminal, on_terminal
<1> QED BY <1>1, <1>2, <1>3, <1>4, <1>5, <1>6

\* The window.
LEMMA SameWindow ==
  /\ Reference!NoMsg = NoMsg
  /\ Reference!EmptySlots = EmptySlots
  /\ \A n : Reference!Slot(n) = Slot(n)
  /\ \A s : Reference!Occupied(s) = Occupied(s)
  /\ \A s, g : Reference!without(s, g) = without(s, g)
  /\ \A a, b : Reference!cleared_slots(a, b) = cleared_slots(a, b)
  /\ \A r, a, n : Reference!stageable(r, a, n) = stageable(r, a, n)
<1>1. Reference!NoMsg = NoMsg
  BY DEF Reference!NoMsg, NoMsg
<1>2. Reference!EmptySlots = EmptySlots
  BY <1>1 DEF Reference!EmptySlots, EmptySlots
<1>3. \A n : Reference!Slot(n) = Slot(n)
  BY DEF Reference!Slot, Slot
<1>4. \A s : Reference!Occupied(s) = Occupied(s)
  BY <1>1 DEF Reference!Occupied, Occupied
<1>5. \A s, g : Reference!without(s, g) = without(s, g)
  BY <1>1 DEF Reference!without, without
<1>6. \A a, b : Reference!cleared_slots(a, b) = cleared_slots(a, b)
  BY <1>3, SameWire DEF Reference!cleared_slots, cleared_slots
<1>7. \A r, a, n : Reference!stageable(r, a, n) = stageable(r, a, n)
  BY SameWire DEF Reference!stageable, stageable
<1> QED BY <1>1, <1>2, <1>3, <1>4, <1>5, <1>6, <1>7

\* What the window clears, drains and stages.
LEMMA SameRing ==
  /\ \A r, a, b : Reference!clear_slots(r, a, b) = clear_slots(r, a, b)
  /\ \A r : Reference!drain_len(r) = drain_len(r)
  /\ \A r : Reference!drain(r) = drain(r)
  /\ \A r, s, a, n : Reference!stage(r, s, a, n) = stage(r, s, a, n)
<1>1. \A r, a, b : Reference!clear_slots(r, a, b) = clear_slots(r, a, b)
  BY SameWindow
  DEF Reference!clear_slots, clear_slots, Reference!Cardinality, Cardinality,
      Reference!cleared_slots, cleared_slots, Reference!Slot, Slot,
      Reference!Smaller, Smaller, Reference!Occupied, Occupied,
      Reference!without, without
<1>2. \A r : Reference!drain_len(r) = drain_len(r)
  BY SameWindow DEF Reference!drain_len, drain_len, Reference!Min, Min
<1>3. \A r : Reference!drain(r) = drain(r)
  <2> TAKE r
  <2> DEFINE n == drain_len(r)
             out == {Slot(r.w + j) : j \in 0..(n - 1)}
             genuine == \A j \in 0..(n - 1) :
                           r.slots[Slot(r.w + j)] = Msg(r.session, Add(r.w, j))
             k == on_msgs(r.sink, r.gen, r.w, n, genuine)
             slots == without(r.slots, out)
             w == Add(r.w, n)
  <2>1. {Reference!Slot(r.w + j) : j \in 0..(n - 1)} = out
    BY SameWindow
  <2>2. (\A j \in 0..(n - 1) : r.slots[Reference!Slot(r.w + j)]
                                = Reference!Msg(r.session, Reference!Add(r.w, j))) = genuine
    BY SameWindow, SameWire
  <2>3. /\ Reference!on_msgs(r.sink, r.gen, r.w, n, genuine) = k
        /\ Reference!without(r.slots, out) = slots /\ Reference!Add(r.w, n) = w
    <3> HIDE DEF genuine, out, n
    <3> QED BY SameSink, SameWindow, SameWire
  <2>4. Reference!drain_len(r) = n
    BY <1>2
  <2> HIDE DEF n
  <2>5. drain(r) = IF r.staged_count = 0 THEN r ELSE
                   [r EXCEPT !.sink = k, !.slots = slots, !.w = w,
                             !.staged_count = r.staged_count - n,
                             !.max_staged = IF r.staged_count - n = 0 THEN 0 ELSE @]
    BY DEF drain, n
  <2>6. Reference!drain(r) = IF r.staged_count = 0 THEN r ELSE
                   [r EXCEPT !.sink = k, !.slots = slots, !.w = w,
                             !.staged_count = r.staged_count - n,
                             !.max_staged = IF r.staged_count - n = 0 THEN 0 ELSE @]
    <3> HIDE DEF k, slots, w, out, genuine
    <3> QED BY <2>1, <2>2, <2>3, <2>4 DEF Reference!drain
  <2> QED BY <2>5, <2>6
<1>4. \A r, s, a, n : Reference!stage(r, s, a, n) = stage(r, s, a, n)
  BY SameWire, SameWindow
  DEF Reference!stage, stage, Reference!Cardinality, Cardinality,
      Reference!stageable, stageable, Reference!Slot, Slot, Reference!Add, Add,
      Reference!Msg, Msg, Reference!Occupied, Occupied
<1> QED BY <1>1, <1>2, <1>3, <1>4

\* The handlers of the sequencer.
LEMMA SameGap ==
  /\ Reference!NewSequencer = NewSequencer
  /\ Reference!Running = Running
  /\ \A r, n : Reference!gap_evidence(r, n) = gap_evidence(r, n)
  /\ \A r : Reference!check_gap_close(r) = check_gap_close(r)
  /\ \A r, s : Reference!session_boundary(r, s) = session_boundary(r, s)
  /\ \A r, s : Reference!session_dispatch(r, s) = session_dispatch(r, s)
  /\ \A r, n : Reference!handle_heartbeat(r, n) = handle_heartbeat(r, n)
  /\ \A r : Reference!end_session(r) = end_session(r)
  /\ \A r, n : Reference!handle_eos(r, n) = handle_eos(r, n)
  /\ \A r, n : Reference!anchor(r, n) = anchor(r, n)
  /\ \A r : Reference!retire_pending(r) = retire_pending(r)
  /\ \A r : Reference!drain_progress(r) = drain_progress(r)
<1>1. Reference!NewSequencer = NewSequencer
  BY SameWire, SameSink, SameWindow DEF Reference!NewSequencer, NewSequencer
<1>2. Reference!Running = Running
  BY DEF Reference!Running, Running
<1>3. \A r, n : Reference!gap_evidence(r, n) = gap_evidence(r, n)
  BY SameWire, SameSink DEF Reference!gap_evidence, gap_evidence
<1>4. \A r : Reference!check_gap_close(r) = check_gap_close(r)
  BY SameSink DEF Reference!check_gap_close, check_gap_close
<1>5. \A r, s : Reference!session_boundary(r, s) = session_boundary(r, s)
  BY SameWire, SameSink, SameWindow DEF Reference!session_boundary, session_boundary
<1>6. \A r, s : Reference!session_dispatch(r, s) = session_dispatch(r, s)
  BY <1>5 DEF Reference!session_dispatch, session_dispatch
<1>7. \A r, n : Reference!handle_heartbeat(r, n) = handle_heartbeat(r, n)
  BY <1>2, <1>3 DEF Reference!handle_heartbeat, handle_heartbeat
<1>8. \A r : Reference!end_session(r) = end_session(r)
  BY SameSink DEF Reference!end_session, end_session
<1>9. \A r, n : Reference!handle_eos(r, n) = handle_eos(r, n)
  BY <1>8 DEF Reference!handle_eos, handle_eos
<1>10. \A r, n : Reference!anchor(r, n) = anchor(r, n)
  BY DEF Reference!anchor, anchor
<1>11. \A r : Reference!retire_pending(r) = retire_pending(r)
  BY SameWire DEF Reference!retire_pending, retire_pending
<1>12. \A r : Reference!drain_progress(r) = drain_progress(r)
  BY SameRing DEF Reference!drain_progress, drain_progress
<1> QED BY <1>1, <1>2, <1>3, <1>4, <1>5, <1>6, <1>7, <1>8, <1>9, <1>10, <1>11, <1>12

\* The classic ingest, step by step.
LEMMA SameIngest ==
  /\ \A r, p : Reference!dup_skip(r, p) = dup_skip(r, p)
  /\ \A r, p : Reference!advance_to(r, p) = advance_to(r, p)
  /\ \A p : Reference!staged_top(p) = staged_top(p)
  /\ \A r, p : Reference!apply_in_order(r, p) = apply_in_order(r, p)
  /\ \A r, p : Reference!apply_ahead(r, p) = apply_ahead(r, p)
  /\ \A r, p : Reference!accepts_data(r, p) = accepts_data(r, p)
  /\ \A r, p : Reference!is_duplicate(r, p) = is_duplicate(r, p)
  /\ \A r, p : Reference!ingest_data(r, p) = ingest_data(r, p)
  /\ \A r, p : Reference!ingest(r, p) = ingest(r, p)
<1>1. \A r, p : Reference!dup_skip(r, p) = dup_skip(r, p)
  BY SameWire DEF Reference!dup_skip, dup_skip
<1>2. \A r, p : Reference!advance_to(r, p) = advance_to(r, p)
  BY SameWire DEF Reference!advance_to, advance_to
<1>3. \A p : Reference!staged_top(p) = staged_top(p)
  BY SameWire DEF Reference!staged_top, staged_top
<1>4. \A r, p : Reference!apply_in_order(r, p) = apply_in_order(r, p)
  BY <1>1, <1>2, SameWire, SameSink, SameRing, SameGap
  DEF Reference!apply_in_order, apply_in_order, Reference!on_msgs, on_msgs,
      Reference!Add, Add, Reference!walk_handed, walk_handed,
      Reference!dup_skip, dup_skip, Reference!Smaller, Smaller,
      Reference!Larger, Larger, Reference!advance_to, advance_to,
      Reference!span_last, span_last
<1>5. \A r, p : Reference!apply_ahead(r, p) = apply_ahead(r, p)
  <2> TAKE r, p
  <2> DEFINE g == gap_evidence(r, p.seq)
             s == stage(g, p.session, p.seq, walk_handed(p, 0))
             above == span_last(p) >= Add(r.w, WINDOW_SLOTS)
             beyond(e) == Larger(e, Add(span_last(p), 1))
             n == [s EXCEPT !.evidence_hwm = IF above THEN beyond(@) ELSE @,
                            !.max_staged = Larger(@, staged_top(p))]
  <2>1. Reference!gap_evidence(r, p.seq) = g /\ Reference!walk_handed(p, 0) = walk_handed(p, 0)
    BY SameGap, SameWire
  <2>2. Reference!stage(g, p.session, p.seq, walk_handed(p, 0)) = s
    BY SameRing
  <2>3. /\ (Reference!span_last(p) >= Reference!Add(r.w, WINDOW_SLOTS)) = above
        /\ \A e : Reference!Larger(e, Reference!Add(Reference!span_last(p), 1)) = beyond(e)
        /\ \A e : Reference!Larger(e, Reference!staged_top(p)) = Larger(e, staged_top(p))
        /\ Reference!walk_fails(p, 0) = walk_fails(p, 0)
    BY <1>3, SameWire
  <2>4. Reference!retire_pending(Reference!check_gap_close(Reference!drain_progress(n)))
          = retire_pending(check_gap_close(drain_progress(n)))
    BY SameGap
  <2>5. apply_ahead(r, p) = IF walk_fails(p, 0) THEN s
                            ELSE retire_pending(check_gap_close(drain_progress(n)))
    BY DEF apply_ahead
  <2>6. Reference!apply_ahead(r, p)
          = IF walk_fails(p, 0) THEN s
            ELSE Reference!retire_pending(Reference!check_gap_close(Reference!drain_progress(n)))
    <3> HIDE DEF g, s, above, beyond
    <3> QED BY <2>1, <2>2, <2>3 DEF Reference!apply_ahead
  <2> QED BY <2>4, <2>5, <2>6
<1>6. \A r, p : Reference!accepts_data(r, p) = accepts_data(r, p)
  BY SameWire DEF Reference!accepts_data, accepts_data
<1>7. \A r, p : Reference!is_duplicate(r, p) = is_duplicate(r, p)
  BY SameWire DEF Reference!is_duplicate, is_duplicate
<1>8. \A r, p : Reference!ingest_data(r, p) = ingest_data(r, p)
  BY <1>4, <1>5, <1>6, <1>7, SameGap DEF Reference!ingest_data, ingest_data
<1>9. \A r, p : Reference!ingest(r, p) = ingest(r, p)
  BY <1>8, SameWire, SameGap DEF Reference!ingest, ingest
<1> QED BY <1>1, <1>2, <1>3, <1>4, <1>5, <1>6, <1>7, <1>8, <1>9

\* Recovery intents and the clock.
LEMMA SameIntent ==
  /\ \A r : Reference!intent_target(r) = intent_target(r)
  /\ \A r, n : Reference!wire_cap(r, n) = wire_cap(r, n)
  /\ \A r : Reference!intent_widens(r) = intent_widens(r)
  /\ \A r : Reference!intent_repeats(r) = intent_repeats(r)
  /\ \A r : Reference!intent_due(r) = intent_due(r)
  /\ \A r : Reference!check_recovery_intent(r) = check_recovery_intent(r)
  /\ \A r : Reference!tick(r) = tick(r)
<1>1. \A r : Reference!intent_target(r) = intent_target(r)
  BY SameWire DEF Reference!intent_target, intent_target
<1>2. \A r, n : Reference!wire_cap(r, n) = wire_cap(r, n)
  BY SameWire DEF Reference!wire_cap, wire_cap
<1>3. \A r : Reference!intent_widens(r) = intent_widens(r)
  BY <1>1, <1>2, SameWire DEF Reference!intent_widens, intent_widens
<1>4. \A r : Reference!intent_repeats(r) = intent_repeats(r)
  BY <1>3, SameWire DEF Reference!intent_repeats, intent_repeats
<1>5. \A r : Reference!intent_due(r) = intent_due(r)
  BY <1>3, <1>4 DEF Reference!intent_due, intent_due
<1>6. \A r : Reference!check_recovery_intent(r) = check_recovery_intent(r)
  BY <1>1, <1>2, <1>3 DEF Reference!check_recovery_intent, check_recovery_intent
<1>7. \A r : Reference!tick(r) = tick(r)
  BY SameWire DEF Reference!tick, tick
<1> QED BY <1>1, <1>2, <1>3, <1>4, <1>5, <1>6, <1>7

\* What a batch does frame by frame.
LEMMA SameFrames ==
  /\ Reference!Feeds = Feeds
  /\ Reference!NewCounters = NewCounters
  /\ \A c, r, e : Reference!count_frame(c, r, e) = count_frame(c, r, e)
<1>1. Reference!Feeds = Feeds
  BY DEF Reference!Feeds, Feeds
<1>2. Reference!NewCounters = NewCounters
  BY <1>1 DEF Reference!NewCounters, NewCounters
<1>3. \A c, r, e : Reference!count_frame(c, r, e) = count_frame(c, r, e)
  BY SameGap, SameIngest
  DEF Reference!count_frame, count_frame, Reference!session_dispatch, session_dispatch,
      Reference!session_boundary, session_boundary, Reference!EmptySlots, EmptySlots,
      Reference!NoMsg, NoMsg, Reference!on_session_boundary, on_session_boundary,
      Reference!anchor, anchor, Reference!span_last, span_last,
      Reference!span_overflows, span_overflows, Reference!dup_skip, dup_skip,
      Reference!Smaller, Smaller, Reference!NONE, NONE
<1> QED BY <1>1, <1>2, <1>3

-----------------------------------------------------------------------------
(* The reference, frame by frame *)

Counters == [packets : [Feeds -> Nat], dups : [Feeds -> Nat], dup_msgs : Nat]

\* what the proofs about the sequencer know of its state
Sequencers ==
    {r \in SequencerStates : Core(r) /\ Gap(r) /\ (NoBadPrefix => Order(r))}

\* what a frame finds and leaves
Points == [q : Sequencers, cnt : Counters]

step(s, e) == [q |-> ingest(s.q, e.pkt), cnt |-> count_frame(s.cnt, s.q, e)]

\* What an entry is made of.
LEMMA EntryTypes ==
  ASSUME NEW e \in FrameEntries
  PROVE  /\ e.pkt \in Packets /\ e.feed \in Feeds /\ e.indexed \in BOOLEAN
         /\ e.pkt.session \in Sessions /\ e.pkt.seq \in Nat /\ e.pkt.seq <= MaxSeq
         /\ e.pkt.count \in Nat
         /\ e.indexed => e.pkt \in DataPackets /\ e.pkt.count \in 1..MaxCount
  BY WireAssumption
  DEF FrameEntries, Packets, DataPackets, Heartbeats, EosPackets, HEARTBEAT_COUNT

\* Counting keeps the counters numbers.
LEMMA CounterTypes ==
  ASSUME NEW c \in Counters, NEW f \in Feeds, NEW n \in Nat
  PROVE  /\ [c EXCEPT !.packets[f] = @ + 1] \in Counters
         /\ [c EXCEPT !.dups[f] = @ + 1, !.dup_msgs = @ + n] \in Counters
         /\ [c EXCEPT !.dup_msgs = @ + n] \in Counters
<1>1. /\ c.packets \in [Feeds -> Nat] /\ c.dups \in [Feeds -> Nat] /\ c.dup_msgs \in Nat
      /\ c = [packets |-> c.packets, dups |-> c.dups, dup_msgs |-> c.dup_msgs]
  BY DEF Counters
<1>2. /\ [c.packets EXCEPT ![f] = @ + 1] \in [Feeds -> Nat]
      /\ [c.dups EXCEPT ![f] = @ + 1] \in [Feeds -> Nat]
      /\ c.dup_msgs + n \in Nat
  BY <1>1
<1>3. [c EXCEPT !.packets[f] = @ + 1] =
        [packets |-> [c.packets EXCEPT ![f] = @ + 1], dups |-> c.dups, dup_msgs |-> c.dup_msgs]
  BY <1>1
<1>4. [c EXCEPT !.dups[f] = @ + 1, !.dup_msgs = @ + n] =
        [packets |-> c.packets, dups |-> [c.dups EXCEPT ![f] = @ + 1], dup_msgs |-> c.dup_msgs + n]
  <2> DEFINE dups == [c.dups EXCEPT ![f] = @ + 1]
             first == [c EXCEPT !.dups[f] = @ + 1]
  <2>1. first = [packets |-> c.packets, dups |-> dups, dup_msgs |-> c.dup_msgs]
    BY <1>1
  <2> HIDE DEF dups, first
  <2>2. [first EXCEPT !.dup_msgs = c.dup_msgs + n] =
          [packets |-> c.packets, dups |-> dups, dup_msgs |-> c.dup_msgs + n]
    BY <2>1
  <2> QED BY <2>2 DEF dups, first
<1>5. [c EXCEPT !.dup_msgs = @ + n] =
        [packets |-> c.packets, dups |-> c.dups, dup_msgs |-> c.dup_msgs + n]
  BY <1>1
<1> QED BY <1>1, <1>2, <1>3, <1>4, <1>5 DEF Counters

\* Whatever a frame is, ingest counts it in numbers.
LEMMA CountType ==
  ASSUME NEW c \in Counters, NEW r, Core(r), NEW e \in FrameEntries
  PROVE  count_frame(c, r, e) \in Counters
<1> DEFINE p == e.pkt
           d == session_dispatch(r, p.session)
           a == anchor(d, p.seq)
           seen == [c EXCEPT !.packets[e.feed] = @ + 1]
<1>1. p.session \in Sessions /\ p.seq \in Nat /\ p.count \in Nat /\ e.feed \in Feeds
  BY EntryTypes
<1>2. Core(d)
  BY <1>1, SessionDispatchCore
<1>3. d.w \in Nat /\ a.w \in Nat
  BY <1>1, <1>2, WireAssumption DEF Core, Bounded, SequencerStates, U64, anchor
<1> HIDE DEF a, d
<1>4. seen \in Counters
  BY <1>1, CounterTypes
<1>5. count_frame(c, r, e) =
        IF /\ r.state # "Dead" /\ p.count \in 1..MaxCount /\ accepts_data(d, p)
           /\ is_duplicate(d, p)
        THEN [seen EXCEPT !.dups[e.feed] = @ + 1, !.dup_msgs = @ + p.count]
        ELSE IF /\ r.state # "Dead" /\ p.count \in 1..MaxCount /\ accepts_data(d, p)
                /\ p.seq <= a.w
        THEN [seen EXCEPT !.dup_msgs = @ + dup_skip(a, p)]
        ELSE seen
  BY DEF count_frame, a, d
<1> HIDE DEF seen
<1>6. [seen EXCEPT !.dups[e.feed] = @ + 1, !.dup_msgs = @ + p.count] \in Counters
  BY <1>1, <1>4, CounterTypes
<1>7. p.seq <= a.w => [seen EXCEPT !.dup_msgs = @ + dup_skip(a, p)] \in Counters
  <2>1. p.seq <= a.w => dup_skip(a, p) \in Nat
    BY <1>1, <1>3 DEF dup_skip, Smaller
  <2> QED BY <1>1, <1>4, <2>1, CounterTypes
<1> QED BY <1>4, <1>5, <1>6, <1>7

\* One frame through the classic ingest keeps all the proofs know of its state.
LEMMA IngestType ==
  ASSUME NoWrap, NEW r \in Sequencers, NEW p \in Packets
  PROVE  ingest(r, p) \in Sequencers
<1>1. Core(r) /\ Gap(r) /\ (NoBadPrefix => Order(r))
  BY DEF Sequencers
<1>2. NoBadPrefix => FailsAtOnce(p)
  <2>1. p.err # "ok" /\ NoBadPrefix => p.good <= 0 /\ p.good \in Nat
    BY WireAssumption
    DEF NoBadPrefix, Packets, DataPackets, Heartbeats, EosPackets
  <2> QED BY <2>1 DEF FailsAtOnce
<1>3. Core(ingest(r, p))
  BY <1>1, IngestCore
<1>4. Gap(ingest(r, p)) /\ (FailsAtOnce(p) /\ Order(r) => Order(ingest(r, p)))
  BY <1>1, IngestGap
<1> QED BY <1>1, <1>2, <1>3, <1>4 DEF Sequencers, Core, Bounded

\* A frame takes a point to a point.
LEMMA StepType ==
  ASSUME NoWrap, NEW s \in Points, NEW e \in FrameEntries
  PROVE  step(s, e) \in Points
<1>1. s.q \in Sequencers /\ Core(s.q) /\ s.cnt \in Counters
  BY DEF Points, Sequencers
<1>2. ingest(s.q, e.pkt) \in Sequencers
  BY <1>1, EntryTypes, IngestType
<1>3. count_frame(s.cnt, s.q, e) \in Counters
  BY <1>1, CountType
<1> QED BY <1>2, <1>3 DEF step, Points

\* A batch goes through the reference frame by frame.
StepRun(f, s, es, n) ==
    /\ f \in [0..n -> Points] /\ f[0] = s
    /\ f[n] = Reference!one_by_one(s.q, s.cnt, es)
    /\ \A i \in 1..n : f[i] = step(f[i - 1], es[i])

\* one_by_one applies step once per frame, in order.
LEMMA OneByOne ==
  ASSUME NoWrap, NEW s \in Points, NEW n \in Nat, NEW es \in [1..n -> FrameEntries]
  PROVE  \E f : StepRun(f, s, es, n)
<1> DEFINE G == [v \in Points |-> [e \in FrameEntries |-> step(v, e)]]
           P(it) == it = [u \in SUBSET DOMAIN es |->
                            IF u = {} THEN [q |-> s.q, cnt |-> s.cnt]
                            ELSE [q |-> Reference!ingest(it[u \ {Max(u)}].q, es[Max(u)].pkt),
                                  cnt |-> Reference!count_frame(it[u \ {Max(u)}].cnt,
                                              it[u \ {Max(u)}].q, es[Max(u)])]]
           IT == CHOOSE it : P(it)
<1>1. Reference!one_by_one(s.q, s.cnt, es) = IT[DOMAIN es]
  BY DEF Reference!one_by_one, Reference!FoldLeft, Reference!MapThenFoldSet,
         Reference!Max, Max
<1>2. s = [q |-> s.q, cnt |-> s.cnt]
  BY DEF Points
<1>3. \A v, e : [q |-> Reference!ingest(v.q, e.pkt),
                 cnt |-> Reference!count_frame(v.cnt, v.q, e)] = step(v, e)
  BY SameIngest, SameFrames DEF step
<1>4. G \in [Points -> [FrameEntries -> Points]]
  BY StepType
<1>5. PICK it \in [SUBSET (1..n) -> Points] : Solves(it, G, s, es, n)
  BY <1>4, FoldExists
<1> HIDE DEF G
<1>6. ASSUME NEW u \in SUBSET (1..n), u # {}
      PROVE  Max(u) \in 1..n /\ u \ {Max(u)} \in SUBSET (1..n)
  BY <1>6, MaxOf
<1>7. P(it)
  <2>1. ASSUME NEW u \in SUBSET (1..n)
        PROVE  it[u] = IF u = {} THEN s ELSE step(it[u \ {Max(u)}], es[Max(u)])
    <3>1. u # {} => it[u \ {Max(u)}] \in Points /\ es[Max(u)] \in FrameEntries
      BY <1>6
    <3> QED BY <1>5, <3>1 DEF Solves, G
  <2> QED BY <1>2, <1>3, <2>1
<1>8. P(IT)
  BY <1>7
<1> HIDE DEF IT
<1>9. IT[{}] = s
  BY <1>2, <1>8
<1>10. Unwinds(IT, Points, FrameEntries, G, s, es, n)
  <2>1. ASSUME NEW u \in SUBSET (1..n), u # {}, IT[u \ {Max(u)}] \in Points
        PROVE  IT[u] = G[IT[u \ {Max(u)}]][es[Max(u)]]
    <3>1. IT[u] = step(IT[u \ {Max(u)}], es[Max(u)])
      BY <1>3, <1>8, <2>1
    <3> QED BY <1>6, <2>1, <3>1 DEF G
  <2> QED BY <1>4, <1>9, <2>1 DEF Unwinds
<1>11. PICK f \in [0..n -> Points] : Follows(f, G, s, es, n) /\ f[n] = IT[1..n]
  <2>1. Reaches(Points, G, s, es, n, IT[1..n])
    BY <1>10, FoldPrefixes
  <2> QED BY <2>1 DEF Reaches
<1>12. ASSUME NEW i \in 1..n PROVE f[i] = step(f[i - 1], es[i])
  <2>1. f[i - 1] \in Points /\ es[i] \in FrameEntries
    BY <1>11
  <2> QED BY <1>11, <2>1 DEF G, Follows
<1> QED BY <1>1, <1>11, <1>12 DEF Follows, StepRun

-----------------------------------------------------------------------------
(* One frame *)

\* An indexed frame that is not looked at again is what the classic walk finds it
\* to be: ingest_auto is ingest.
LEMMA AutoIngest ==
  ASSUME NoWrap, NEW r \in Sequencers, NEW e \in FrameEntries
  PROVE  ingest_auto(r, e) = ingest(r, e.pkt)
<1> DEFINE p == e.pkt
           d == session_dispatch(r, p.session)
           a == anchor(d, p.seq)
<1>1. CASE ~e.indexed
  BY <1>1 DEF ingest_auto
<1>2. CASE e.indexed
  <2>1. /\ p \in DataPackets /\ p.seq \in Nat /\ p.seq <= MaxSeq
        /\ p.count \in Nat /\ p.count >= 1 /\ p.count <= MaxCount
    BY <1>2, EntryTypes, WireAssumption
  <2>2. p.count # HEARTBEAT_COUNT /\ p.count # EOS_COUNT
    BY <2>1, WireAssumption DEF HEARTBEAT_COUNT
  <2>3. ~span_overflows(p)
    <3>1. p.seq + p.count - 1 <= U64_MAX
      BY <2>1, WireAssumption, WindowAssumption, IntentAssumption DEF NoWrap
    <3> QED BY <3>1, <2>1, WireAssumption DEF span_overflows, span_last
  <2>4. trusted(e) = p
    <3>1. CASE all_valid(e)
      <4>1. e.memo = p.count
        BY <1>2, <3>1 DEF all_valid, blocks_len
      <4>2. p.good = p.count
        BY <4>1, <2>1 DEF FrameEntries, NONE
      <4>3. p.err = "ok"
        <5>1. p.err \in {"ok", "itch", "frame"} /\ p.err # "frame"
          BY <1>2, <2>1, WireAssumption DEF DataPackets, FrameEntries
        <5>2. p.err = "itch" => p.good < p.count
          BY <2>1 DEF DataPackets
        <5> QED BY <4>2, <5>1, <5>2, <2>1
      <4>4. p = [p EXCEPT !.good = p.count, !.err = "ok"]
        BY <4>2, <4>3, <2>1 DEF DataPackets
      <4> QED BY <3>1, <4>4 DEF trusted
    <3>2. CASE ~all_valid(e)
      BY <3>2 DEF trusted
    <3> QED BY <3>1, <3>2
  <2> HIDE DEF p
  <2>5. ingest_auto(r, e) =
          IF r.state = "Dead" THEN r
          ELSE IF d.state = "Ended" \/ is_duplicate(d, p) THEN d
          ELSE IF p.seq <= a.w THEN apply_in_order(a, p) ELSE apply_ahead(a, p)
    BY <1>2, <2>4 DEF ingest_auto, ingest_indexed, p
  <2>6. ingest(r, p) =
          IF r.state = "Dead" THEN r
          ELSE IF d.state = "Ended" \/ is_duplicate(d, p) THEN d
          ELSE IF p.seq <= a.w THEN apply_in_order(a, p) ELSE apply_ahead(a, p)
    <3> HIDE DEF d
    <3> QED BY <2>2, <2>3 DEF ingest, ingest_data, accepts_data, d
  <2> QED BY <2>5, <2>6 DEF p
<1> QED BY <1>1, <1>2

\* A steady sequencer and an entry of its session that carries messages.
Steady(r, e) ==
    /\ r \in Sequencers /\ steady_ready(r)
    /\ e \in FrameEntries /\ blocks_len(e) # 0 /\ e.pkt.session = r.session

\* What a steady sequencer and a frame of its session come down to.
LEMMA SteadyFacts ==
  ASSUME NEW r, NEW e, Steady(r, e)
  PROVE  /\ r \in SequencerStates /\ r.w \in Nat /\ r.gen \in Nat /\ r.sink \in SinkStates
         /\ r.w <= MaxW /\ r.state = "Contig" /\ r.session # NoSession
         /\ r.staged_count = 0 /\ r.gap_active = FALSE /\ r.pending_to = NONE
         /\ e.pkt \in DataPackets /\ e.pkt.session = r.session
         /\ e.pkt.seq \in Nat /\ e.pkt.seq <= MaxSeq
         /\ e.pkt.count \in 1..MaxCount /\ e.pkt.count \in Nat \ {0}
         /\ blocks_len(e) = e.pkt.count /\ e.indexed
         /\ e.pkt.count # HEARTBEAT_COUNT /\ e.pkt.count # EOS_COUNT
<1>1. e.indexed /\ blocks_len(e) = e.pkt.count /\ e.pkt.session = r.session
  BY DEF Steady, blocks_len
<1>2. /\ e.pkt \in DataPackets /\ e.pkt.seq \in Nat /\ e.pkt.seq <= MaxSeq
      /\ e.pkt.count \in 1..MaxCount
  BY <1>1, EntryTypes DEF Steady
<1>3. e.pkt.count \in Nat \ {0} /\ e.pkt.count # HEARTBEAT_COUNT /\ e.pkt.count # EOS_COUNT
  BY <1>2, WireAssumption DEF HEARTBEAT_COUNT
<1>4. r \in SequencerStates /\ r.w <= MaxW /\ steady_ready(r)
  BY DEF Steady, Sequencers, Core, Bounded
<1>5. r.w \in Nat /\ r.gen \in Nat /\ r.sink \in SinkStates /\ r.gap_active \in BOOLEAN
  BY <1>4, WireAssumption DEF SequencerStates, U64
<1> QED BY <1>1, <1>2, <1>3, <1>4, <1>5 DEF steady_ready

\* Such an entry goes to ingest_data as it is.
LEMMA SteadyIngest ==
  ASSUME NoWrap, NEW r, NEW e, Steady(r, e)
  PROVE  /\ session_dispatch(r, e.pkt.session) = r /\ anchor(r, e.pkt.seq) = r
         /\ accepts_data(r, e.pkt)
         /\ ingest(r, e.pkt) =
              IF span_last(e.pkt) < r.w THEN r
              ELSE IF e.pkt.seq <= r.w THEN apply_in_order(r, e.pkt)
              ELSE apply_ahead(r, e.pkt)
         /\ is_duplicate(r, e.pkt) = (span_last(e.pkt) < r.w)
<1>0. /\ r.w \in Nat /\ r.state = "Contig" /\ e.pkt.seq \in Nat /\ e.pkt.seq <= MaxSeq
      /\ e.pkt.count \in Nat /\ e.pkt.count <= MaxCount
      /\ U64_MAX \in Nat /\ MaxSeq \in Nat /\ MaxCount \in Nat
  <2>1. /\ r.w \in Nat /\ r.state = "Contig" /\ e.pkt.seq \in Nat /\ e.pkt.seq <= MaxSeq
        /\ e.pkt.count \in 1..MaxCount
    BY SteadyFacts
  <2> QED BY <2>1, WireAssumption
<1>1. session_dispatch(r, e.pkt.session) = r /\ anchor(r, e.pkt.seq) = r
  BY SteadyFacts DEF session_dispatch, anchor
<1>2. ~span_overflows(e.pkt)
  <2>1. e.pkt.seq + e.pkt.count - 1 <= U64_MAX
    BY <1>0, WindowAssumption, IntentAssumption DEF NoWrap
  <2> QED BY <2>1, <1>0 DEF span_overflows, span_last
<1>3. accepts_data(r, e.pkt)
  BY <1>2, SteadyFacts DEF accepts_data
<1>4. is_duplicate(r, e.pkt) = (span_last(e.pkt) < r.w)
  BY <1>0 DEF is_duplicate, span_last
<1>5. r.state # "Dead" /\ e.pkt.count # HEARTBEAT_COUNT /\ e.pkt.count # EOS_COUNT
  BY SteadyFacts
<1> QED BY <1>1, <1>3, <1>4, <1>5 DEF ingest, ingest_data

\* What an entry adds to the counters when it is new, and when it is a duplicate.
Fresh(f) ==
    [packets |-> [g \in Feeds |-> IF g = f THEN 1 ELSE 0],
     dups |-> [g \in Feeds |-> 0], dup_msgs |-> 0]

Again(f, n) ==
    [packets |-> [g \in Feeds |-> IF g = f THEN 1 ELSE 0],
     dups |-> [g \in Feeds |-> IF g = f THEN 1 ELSE 0], dup_msgs |-> n]

\* W and the sink after n messages in order
moved(r, n) ==
    [r EXCEPT !.w = r.w + n, !.progress_age = 0,
              !.sink = on_msgs(r.sink, r.gen, r.w, n, TRUE)]

\* plus is componentwise.
LEMMA PlusTypes ==
  ASSUME NEW a \in Counters, NEW b \in Counters
  PROVE  plus(a, b) \in Counters
  BY DEF Counters, plus

\* Counts may be added up in any grouping, as the scan does in its locals.
LEMMA PlusAssociates ==
  ASSUME NEW a \in Counters, NEW b \in Counters, NEW c \in Counters
  PROVE  plus(plus(a, b), c) = plus(a, plus(b, c))
<1>1. \A x \in Counters : /\ x.packets \in [Feeds -> Nat] /\ x.dups \in [Feeds -> Nat]
                          /\ x.dup_msgs \in Nat
  BY DEF Counters
<1>2. \A f \in Feeds : (a.packets[f] + b.packets[f]) + c.packets[f]
                         = a.packets[f] + (b.packets[f] + c.packets[f])
  BY <1>1
<1>3. \A f \in Feeds : (a.dups[f] + b.dups[f]) + c.dups[f]
                         = a.dups[f] + (b.dups[f] + c.dups[f])
  BY <1>1
<1>4. (a.dup_msgs + b.dup_msgs) + c.dup_msgs = a.dup_msgs + (b.dup_msgs + c.dup_msgs)
  BY <1>1
<1> QED BY <1>2, <1>3, <1>4 DEF plus

\* Adding no counts changes none.
LEMMA PlusNothing ==
  /\ NewCounters \in Counters
  /\ \A c \in Counters : plus(c, NewCounters) = c
<1>1. NewCounters \in Counters
  BY DEF NewCounters, Counters
<1>2. ASSUME NEW c \in Counters PROVE plus(c, NewCounters) = c
  <2>1. /\ c.packets \in [Feeds -> Nat] /\ c.dups \in [Feeds -> Nat] /\ c.dup_msgs \in Nat
        /\ c = [packets |-> c.packets, dups |-> c.dups, dup_msgs |-> c.dup_msgs]
    BY DEF Counters
  <2>2. /\ c.packets = [f \in Feeds |-> c.packets[f] + 0]
        /\ c.dups = [f \in Feeds |-> c.dups[f] + 0] /\ c.dup_msgs = c.dup_msgs + 0
    BY <2>1
  <2>3. plus(c, NewCounters) = [packets |-> [f \in Feeds |-> c.packets[f] + 0],
                                dups |-> [f \in Feeds |-> c.dups[f] + 0],
                                dup_msgs |-> c.dup_msgs + 0]
    BY DEF plus, NewCounters
  <2> QED BY <2>1, <2>2, <2>3
<1> QED BY <1>1, <1>2

\* The updates of the counters, as sums.
CountFresh(c, f) == [c EXCEPT !.packets[f] = @ + 1]

CountAgain(c, f, n) == [CountFresh(c, f) EXCEPT !.dups[f] = @ + 1, !.dup_msgs = @ + n]

\* Counting one frame is adding the counts of that frame.
LEMMA CounterSums ==
  ASSUME NEW c \in Counters, NEW f \in Feeds, NEW n \in Nat
  PROVE  /\ Fresh(f) \in Counters /\ Again(f, n) \in Counters
         /\ CountFresh(c, f) = plus(c, Fresh(f))
         /\ CountAgain(c, f, n) = plus(c, Again(f, n))
<1>1. /\ c.packets \in [Feeds -> Nat] /\ c.dups \in [Feeds -> Nat] /\ c.dup_msgs \in Nat
      /\ c = [packets |-> c.packets, dups |-> c.dups, dup_msgs |-> c.dup_msgs]
  BY DEF Counters
<1> DEFINE packets == [c.packets EXCEPT ![f] = @ + 1]
           dups == [c.dups EXCEPT ![f] = @ + 1]
           first == [c EXCEPT !.packets[f] = @ + 1]
           second == [first EXCEPT !.dups[f] = @ + 1]
<1>2. packets = [g \in Feeds |-> c.packets[g] + (IF g = f THEN 1 ELSE 0)]
  BY <1>1
<1>3. dups = [g \in Feeds |-> c.dups[g] + (IF g = f THEN 1 ELSE 0)]
  BY <1>1
<1>4. c.dups = [g \in Feeds |-> c.dups[g] + 0] /\ c.dup_msgs + 0 = c.dup_msgs
  BY <1>1
<1>5. first = [packets |-> packets, dups |-> c.dups, dup_msgs |-> c.dup_msgs]
  BY <1>1
<1>6. Fresh(f) \in Counters /\ Again(f, n) \in Counters
  BY DEF Fresh, Again, Counters
<1>7. plus(c, Fresh(f)) = [packets |-> packets, dups |-> c.dups, dup_msgs |-> c.dup_msgs]
  <2>1. plus(c, Fresh(f)) =
          [packets |-> [g \in Feeds |-> c.packets[g] + (IF g = f THEN 1 ELSE 0)],
           dups |-> [g \in Feeds |-> c.dups[g] + 0], dup_msgs |-> c.dup_msgs + 0]
    BY DEF plus, Fresh
  <2> HIDE DEF packets
  <2> QED BY <2>1, <1>2, <1>4
<1>8. plus(c, Again(f, n)) = [packets |-> packets, dups |-> dups, dup_msgs |-> c.dup_msgs + n]
  <2>1. plus(c, Again(f, n)) =
          [packets |-> [g \in Feeds |-> c.packets[g] + (IF g = f THEN 1 ELSE 0)],
           dups |-> [g \in Feeds |-> c.dups[g] + (IF g = f THEN 1 ELSE 0)],
           dup_msgs |-> c.dup_msgs + n]
    BY DEF plus, Again
  <2> HIDE DEF packets, dups
  <2> QED BY <2>1, <1>2, <1>3
<1> HIDE DEF packets
<1>9. second = [packets |-> packets, dups |-> dups, dup_msgs |-> c.dup_msgs]
  <2> HIDE DEF first
  <2> QED BY <1>5
<1>10. second.dup_msgs = c.dup_msgs
  BY <1>9
<1> HIDE DEF second
<1>11. [second EXCEPT !.dup_msgs = c.dup_msgs + n]
          = [packets |-> packets, dups |-> dups, dup_msgs |-> c.dup_msgs + n]
  <2> HIDE DEF dups
  <2> QED BY <1>9
<1>12. [first EXCEPT !.dups[f] = @ + 1, !.dup_msgs = @ + n]
          = [second EXCEPT !.dup_msgs = c.dup_msgs + n]
  <2>1. first.dup_msgs = c.dup_msgs
    <3> HIDE DEF first
    <3> QED BY <1>5
  <2> HIDE DEF first
  <2> QED BY <2>1 DEF second
<1>13. first = plus(c, Fresh(f))
  BY <1>5, <1>7
<1>14. [first EXCEPT !.dups[f] = @ + 1, !.dup_msgs = @ + n] = plus(c, Again(f, n))
  BY <1>8, <1>11, <1>12
<1> QED BY <1>6, <1>13, <1>14 DEF first, CountFresh, CountAgain

\* A duplicate leaves the steady sequencer alone.
LEMMA SteadyDup ==
  ASSUME NoWrap, NEW r, NEW e, Steady(r, e), span_last(e.pkt) < r.w, NEW c \in Counters
  PROVE  /\ ingest(r, e.pkt) = r
         /\ count_frame(c, r, e) = plus(c, Again(e.feed, blocks_len(e)))
<1>1. ingest(r, e.pkt) = r /\ is_duplicate(r, e.pkt)
  BY SteadyIngest
<1>2. /\ r.state # "Dead" /\ e.pkt.count \in 1..MaxCount /\ blocks_len(e) = e.pkt.count
      /\ e.pkt.count \in Nat
  BY SteadyFacts
<1>3. session_dispatch(r, e.pkt.session) = r /\ anchor(r, e.pkt.seq) = r
      /\ accepts_data(r, e.pkt)
  BY SteadyIngest
<1>4. count_frame(c, r, e) = CountAgain(c, e.feed, e.pkt.count)
  BY <1>1, <1>2, <1>3 DEF count_frame, CountAgain, CountFresh
<1>5. e.feed \in Feeds
  BY EntryTypes DEF Steady
<1> QED BY <1>1, <1>2, <1>4, <1>5, CounterSums

\* A frame at W whose blocks all validate moves the steady sequencer by its
\* messages: nothing is staged, so there is nothing to clear, drain or close.
LEMMA SteadyAdvance ==
  ASSUME NoWrap, NEW r, NEW e, Steady(r, e), all_valid(e), e.pkt.seq = r.w,
         NEW c \in Counters
  PROVE  /\ ingest(r, e.pkt) = moved(r, blocks_len(e))
         /\ count_frame(c, r, e) = plus(c, Fresh(e.feed))
<1> DEFINE p == e.pkt
           n == p.count
           sink == on_msgs(r.sink, r.gen, r.w, n, TRUE)
<1>1. /\ r \in SequencerStates /\ r.w \in Nat /\ r.gen \in Nat
      /\ r.staged_count = 0 /\ r.gap_active = FALSE /\ r.pending_to = NONE
      /\ r.state # "Dead" /\ p.seq \in Nat /\ n \in Nat /\ n # 0 /\ n \in 1..MaxCount
      /\ p.seq <= MaxSeq /\ blocks_len(e) = n /\ p \in DataPackets /\ e.indexed
  BY SteadyFacts
<1>2. p.good = n /\ p.err = "ok"
  <2>1. e.memo = n /\ e \in FrameEntries
    BY <1>1 DEF all_valid, Steady
  <2>2. p.good = n
    BY <2>1, <1>1 DEF FrameEntries, NONE
  <2>3. p.err \in {"ok", "itch", "frame"} /\ p.err # "frame"
    BY <2>1, <1>1, WireAssumption DEF DataPackets, FrameEntries
  <2>4. p.err = "itch" => p.good < n
    BY <1>1 DEF DataPackets
  <2> QED BY <2>2, <2>3, <2>4, <1>1
<1>3. dup_skip(r, p) = 0 /\ ~walk_fails(p, 0) /\ walk_handed(p, 0) = n
      /\ p.seq + 0 = r.w
  BY <1>1, <1>2 DEF dup_skip, Smaller, walk_fails, walk_handed, Larger
<1>4. advance_to(r, p) = r.w + n
  <2>1. p.seq + n <= U64_MAX
    BY <1>1, WireAssumption, WindowAssumption, IntentAssumption DEF NoWrap
  <2>2. span_last(p) \in Nat /\ span_last(p) + 1 = p.seq + n
    BY <1>1 DEF span_last
  <2>3. Add(span_last(p), 1) = span_last(p) + 1
    BY <2>1, <2>2, AddExact
  <2> QED BY <2>2, <2>3 DEF advance_to
<1> HIDE DEF n, p
<1>5. ingest(r, p) = apply_in_order(r, p)
  <2>1. ~(span_last(p) < r.w) /\ p.seq <= r.w
    BY <1>1 DEF span_last, p, n
  <2> QED BY <2>1, SteadyIngest DEF p
<1> DEFINE emitted == [r EXCEPT !.sink = sink]
           advanced == [emitted EXCEPT !.w = r.w + n, !.progress_age = 0]
<1>6. advanced = [r EXCEPT !.w = r.w + n, !.progress_age = 0, !.sink = sink]
  <2> HIDE DEF sink
  <2> QED BY <1>1 DEF SequencerStates
<1>7. advanced.staged_count = 0 /\ advanced.gap_active = FALSE /\ advanced.pending_to = NONE
  <2> HIDE DEF sink
  <2> QED BY <1>1 DEF SequencerStates
<1>8. apply_in_order(r, p) =
        retire_pending(check_gap_close(drain_progress(clear_slots(advanced, r.w, advanced.w))))
  BY <1>3, <1>4 DEF apply_in_order
<1> HIDE DEF advanced
<1>9. clear_slots(advanced, r.w, advanced.w) = advanced
  BY <1>7 DEF clear_slots
<1>10. drain_progress(advanced) = advanced
  <2>1. drain(advanced) = advanced
    BY <1>7 DEF drain
  <2> QED BY <2>1 DEF drain_progress
<1>11. retire_pending(check_gap_close(advanced)) = advanced
  BY <1>7 DEF check_gap_close, retire_pending
<1>12. ingest(r, p) = moved(r, n)
  BY <1>5, <1>6, <1>8, <1>9, <1>10, <1>11 DEF moved
<1>13. /\ session_dispatch(r, p.session) = r /\ anchor(r, p.seq) = r /\ accepts_data(r, p)
       /\ ~is_duplicate(r, p)
  <2>1. ~(span_last(p) < r.w)
    BY <1>1 DEF span_last, p, n
  <2> QED BY <2>1, SteadyIngest DEF p
<1>14. count_frame(c, r, e) = CountFresh(c, e.feed)
  <2> DEFINE seen == [c EXCEPT !.packets[e.feed] = @ + 1]
  <2>1. count_frame(c, r, e) = [seen EXCEPT !.dup_msgs = @ + dup_skip(r, p)]
    BY <1>1, <1>13 DEF count_frame, p, n
  <2>2. e.feed \in Feeds
    BY EntryTypes DEF Steady
  <2>3. seen \in Counters
    BY <2>2, CounterTypes
  <2> HIDE DEF seen
  <2>4. [seen EXCEPT !.dup_msgs = @ + 0] = seen
    BY <2>3 DEF Counters
  <2> QED BY <2>1, <2>4, <1>3 DEF seen, CountFresh
<1>15. e.feed \in Feeds
  BY EntryTypes DEF Steady
<1> QED BY <1>1, <1>12, <1>14, <1>15, CounterSums DEF n, p

\* What a moved sequencer is.
LEMMA MovedFacts ==
  ASSUME NEW r, r \in SequencerStates, NEW n \in Nat
  PROVE  /\ moved(r, n).w = r.w + n /\ moved(r, n).gen = r.gen
         /\ moved(r, n).session = r.session
         /\ moved(r, n).progress_age = 0
         /\ moved(r, n).sink = on_msgs(r.sink, r.gen, r.w, n, TRUE)
         /\ steady_ready(r) => steady_ready(moved(r, n))
<1> DEFINE sink == on_msgs(r.sink, r.gen, r.w, n, TRUE)
           m == [r EXCEPT !.w = r.w + n, !.progress_age = 0, !.sink = sink]
<1>1. moved(r, n) = m
  BY DEF moved
<1> HIDE DEF sink
<1>2. /\ m.w = r.w + n /\ m.gen = r.gen /\ m.session = r.session /\ m.progress_age = 0
      /\ m.sink = sink /\ m.state = r.state /\ m.staged_count = r.staged_count
      /\ m.gap_active = r.gap_active /\ m.pending_to = r.pending_to
  BY DEF SequencerStates
<1> QED BY <1>1, <1>2 DEF steady_ready, sink

-----------------------------------------------------------------------------
(* Spans *)

Spans == {b \in [first : Nat, n : Nat] : b.n # 0 /\ b.first + b.n <= U64_MAX}

\* where a span ends
End(b) == b.first + b.n

\* consecutive spans that end at w
Held(buf, w) ==
    /\ buf \in Seq(Spans)
    /\ \A i \in 1..(Len(buf) - 1) : buf[i + 1].first = End(buf[i])
    /\ buf # <<>> => End(buf[Len(buf)]) = w

\* the sink after the messages lo .. hi - 1
Upto(k, gen, lo, hi) == on_msgs(k, gen, lo, hi - lo, TRUE)

\* the sink k once the held spans are emitted, as one span
OneSpan(k, gen, buf, w) ==
    IF buf = <<>> THEN k ELSE Upto(k, gen, buf[1].first, w)

\* A run of messages is the same to the sink whole or in two parts.
LEMMA MsgsJoin ==
  ASSUME NEW k \in SinkStates, NEW gen \in Nat, NEW a \in Nat, NEW mid \in Nat,
         NEW hi \in Nat, a <= mid, mid <= hi, hi <= U64_MAX
  PROVE  Upto(Upto(k, gen, a, mid), gen, mid, hi) = Upto(k, gen, a, hi)
<1> DEFINE n == mid - a
           m == hi - mid
<1>0. /\ n \in Nat /\ m \in Nat /\ a + n = mid /\ n + m = hi - a
      /\ a + (n + m) <= U64_MAX
  BY WireAssumption
<1> SUFFICES on_msgs(on_msgs(k, gen, a, n, TRUE), gen, a + n, m, TRUE)
               = on_msgs(k, gen, a, n + m, TRUE)
  <2> HIDE DEF n, m
  <2>1. on_msgs(on_msgs(k, gen, a, n, TRUE), gen, mid, m, TRUE)
           = on_msgs(k, gen, a, hi - a, TRUE)
    BY <1>0
  <2> QED BY <2>1 DEF Upto, n, m
<1> HIDE DEF n, m
<1>1. CASE n = 0
  <2>1. n + m = m /\ a + n = a
    BY <1>0, <1>1
  <2> QED BY <1>1, <2>1 DEF on_msgs
<1>2. CASE m = 0
  <2>1. n + m = n
    BY <1>0, <1>2
  <2> QED BY <1>2, <2>1 DEF on_msgs
<1>3. CASE n # 0 /\ m # 0
  <2> DEFINE bad(lo) == k.last_seq # 0 /\ lo # Add(k.last_seq, 1)
             e == on_msgs(k, gen, a, n, TRUE)
             g == on_msgs(e, gen, a + n, m, TRUE)
             h == on_msgs(k, gen, a, n + m, TRUE)
  <2>1. /\ U64_MAX \in Nat /\ Add(a, n - 1) = a + n - 1
        /\ Add(a + n, m - 1) = a + (n + m) - 1 /\ Add(a, (n + m) - 1) = a + (n + m) - 1
    <3>1. /\ n - 1 \in Nat /\ m - 1 \in Nat /\ (n + m) - 1 \in Nat /\ a + n \in Nat
          /\ a + (n - 1) <= U64_MAX /\ (a + n) + (m - 1) <= U64_MAX
          /\ a + ((n + m) - 1) <= U64_MAX
      BY <1>0, <1>3, WireAssumption
    <3>2. /\ Add(a, n - 1) = a + (n - 1) /\ Add(a + n, m - 1) = (a + n) + (m - 1)
          /\ Add(a, (n + m) - 1) = a + ((n + m) - 1)
      BY <3>1, AddExact
    <3> QED BY <1>0, <3>1, <3>2, WireAssumption
  <2>2. a + n - 1 # 0 => Add(a + n - 1, 1) = a + n
    <3>1. a + n - 1 \in Nat /\ (a + n - 1) + 1 <= U64_MAX
      BY <1>0, <1>3, <2>1
    <3>2. Add(a + n - 1, 1) = (a + n - 1) + 1
      BY <3>1, AddExact
    <3> QED BY <1>0, <3>2, <1>3
  <2>3. k = [last_gen |-> k.last_gen, last_seq |-> k.last_seq,
             gap_open_gen |-> k.gap_open_gen, gap_open_from |-> k.gap_open_from,
             failed |-> k.failed, corrupt |-> k.corrupt]
        /\ k.failed \in BOOLEAN /\ k.corrupt \in BOOLEAN /\ k.last_gen \in Nat
    BY DEF SinkStates
  <2>4. e = [last_gen |-> k.last_gen, last_seq |-> a + n - 1,
             gap_open_gen |-> k.gap_open_gen, gap_open_from |-> k.gap_open_from,
             failed |-> k.failed \/ gen < k.last_gen \/ bad(a),
             corrupt |-> k.corrupt \/ ~TRUE]
    <3> HIDE DEF bad
    <3>1. e = [k EXCEPT !.failed = k.failed \/ gen < k.last_gen \/ bad(a),
                        !.last_seq = a + n - 1, !.corrupt = k.corrupt \/ ~TRUE]
      BY <1>3, <2>1 DEF on_msgs, bad
    <3> QED BY <3>1, <2>3
  <2>5. h = [last_gen |-> k.last_gen, last_seq |-> a + (n + m) - 1,
             gap_open_gen |-> k.gap_open_gen, gap_open_from |-> k.gap_open_from,
             failed |-> k.failed \/ gen < k.last_gen \/ bad(a),
             corrupt |-> k.corrupt \/ ~TRUE]
    <3>1. n + m # 0
      BY <1>0, <1>3
    <3> HIDE DEF bad
    <3>2. h = [k EXCEPT !.failed = k.failed \/ gen < k.last_gen \/ bad(a),
                        !.last_seq = a + (n + m) - 1, !.corrupt = k.corrupt \/ ~TRUE]
      BY <3>1, <2>1 DEF on_msgs, bad
    <3> QED BY <3>2, <2>3
  <2> HIDE DEF e
  <2> DEFINE again == e.last_seq # 0 /\ a + n # Add(e.last_seq, 1)
  <2>6. ~again
    BY <2>2, <2>4
  <2>7. g = [last_gen |-> e.last_gen, last_seq |-> a + (n + m) - 1,
             gap_open_gen |-> e.gap_open_gen, gap_open_from |-> e.gap_open_from,
             failed |-> e.failed \/ gen < e.last_gen \/ again,
             corrupt |-> e.corrupt \/ ~TRUE]
    <3> HIDE DEF bad, again
    <3>1. g = [e EXCEPT !.failed = e.failed \/ gen < e.last_gen \/ again,
                        !.last_seq = a + (n + m) - 1, !.corrupt = e.corrupt \/ ~TRUE]
      BY <1>3, <2>1 DEF on_msgs, again
    <3>2. e = [last_gen |-> e.last_gen, last_seq |-> e.last_seq,
               gap_open_gen |-> e.gap_open_gen, gap_open_from |-> e.gap_open_from,
               failed |-> e.failed, corrupt |-> e.corrupt]
      BY <2>4
    <3> HIDE DEF g
    <3> QED BY <3>1, <3>2
  <2>8. /\ e.last_gen = k.last_gen /\ e.gap_open_gen = k.gap_open_gen
        /\ e.gap_open_from = k.gap_open_from
        /\ e.failed = (k.failed \/ gen < k.last_gen \/ bad(a))
        /\ e.corrupt = (k.corrupt \/ ~TRUE)
    BY <2>4
  <2> HIDE DEF bad, again, g, h
  <2>9. /\ (e.failed \/ gen < e.last_gen \/ again) = (k.failed \/ gen < k.last_gen \/ bad(a))
        /\ (e.corrupt \/ ~TRUE) = (k.corrupt \/ ~TRUE)
    BY <2>3, <2>6, <2>8
  <2>10. g = h
    BY <2>5, <2>7, <2>8, <2>9
  <2> QED BY <2>10 DEF g, h, e
<1> QED BY <1>1, <1>2, <1>3

\* The sum of the spans of a buffer, span by span.
LEMMA TotalFold ==
  ASSUME NEW n \in Nat, NEW s \in [1..n -> Spans]
  PROVE  \E f \in [0..n -> Nat] :
            f[0] = 0 /\ f[n] = total(s) /\ \A i \in 1..n : f[i] = f[i - 1] + s[i].n
<1> DEFINE G == [v \in Nat |-> [b \in Spans |-> v + b.n]]
           P(it) == it = [u \in SUBSET DOMAIN s |->
                            IF u = {} THEN 0 ELSE it[u \ {Max(u)}] + s[Max(u)].n]
           IT == CHOOSE it : P(it)
<1>1. total(s) = IT[DOMAIN s]
  BY DEF total, FoldLeft, MapThenFoldSet
<1>2. G \in [Nat -> [Spans -> Nat]]
  BY DEF Spans
<1>3. PICK it \in [SUBSET (1..n) -> Nat] : Solves(it, G, 0, s, n)
  BY <1>2, FoldExists
<1> HIDE DEF G
<1>4. ASSUME NEW u \in SUBSET (1..n), u # {}
      PROVE  Max(u) \in 1..n /\ u \ {Max(u)} \in SUBSET (1..n) /\ s[Max(u)] \in Spans
  BY <1>4, MaxOf
<1>5. \A v \in Nat, b \in Spans : G[v][b] = v + b.n
  BY DEF G
<1>6. P(it)
  <2>1. ASSUME NEW u \in SUBSET (1..n)
        PROVE  it[u] = IF u = {} THEN 0 ELSE it[u \ {Max(u)}] + s[Max(u)].n
    BY <1>3, <1>4, <1>5 DEF Solves
  <2> QED BY <2>1
<1>7. P(IT)
  BY <1>6
<1> HIDE DEF IT
<1>8. Unwinds(IT, Nat, Spans, G, 0, s, n)
  <2>1. IT[{}] = 0
    BY <1>7
  <2>2. ASSUME NEW u \in SUBSET (1..n), u # {}, IT[u \ {Max(u)}] \in Nat
        PROVE  IT[u] = G[IT[u \ {Max(u)}]][s[Max(u)]]
    <3>1. IT[u] = IT[u \ {Max(u)}] + s[Max(u)].n
      BY <1>7, <2>2
    <3> QED BY <1>4, <1>5, <2>2, <3>1
  <2> QED BY <1>2, <2>1, <2>2 DEF Unwinds
<1>9. Reaches(Nat, G, 0, s, n, IT[1..n])
  BY <1>8, FoldPrefixes
<1>10. PICK f \in [0..n -> Nat] : Follows(f, G, 0, s, n) /\ f[n] = IT[1..n]
  BY <1>9 DEF Reaches
<1>11. ASSUME NEW i \in 1..n PROVE f[i] = f[i - 1] + s[i].n
  <2>1. f[i - 1] \in Nat /\ s[i] \in Spans
    BY <1>10
  <2> QED BY <1>5, <1>10, <2>1 DEF Follows
<1> QED BY <1>1, <1>10, <1>11 DEF Follows

\* The sink after the spans of a buffer, span by span.
EachSpan(k, gen, buf) == FoldLeft(LAMBDA s, b : on_msgs(s, gen, b.first, b.n, TRUE), k, buf)

SpanRun(f, k, gen, s, n) ==
    /\ f \in [0..n -> SinkStates] /\ f[0] = k /\ f[n] = EachSpan(k, gen, s)
    /\ \A i \in 1..n : f[i] = on_msgs(f[i - 1], gen, s[i].first, s[i].n, TRUE)

\* A sink that gets every span is a run over them.
LEMMA SpanFold ==
  ASSUME NEW n \in Nat, NEW s \in [1..n -> Spans], NEW k \in SinkStates, NEW gen \in Nat
  PROVE  \E f : SpanRun(f, k, gen, s, n)
<1> DEFINE G == [v \in SinkStates |-> [b \in Spans |-> on_msgs(v, gen, b.first, b.n, TRUE)]]
           P(it) == it = [u \in SUBSET DOMAIN s |->
                            IF u = {} THEN k
                            ELSE on_msgs(it[u \ {Max(u)}], gen, s[Max(u)].first,
                                         s[Max(u)].n, TRUE)]
           IT == CHOOSE it : P(it)
<1>1. EachSpan(k, gen, s) = IT[DOMAIN s]
  BY DEF EachSpan, FoldLeft, MapThenFoldSet
<1>2. G \in [SinkStates -> [Spans -> SinkStates]]
  <2>1. ASSUME NEW v \in SinkStates, NEW b \in Spans
        PROVE  on_msgs(v, gen, b.first, b.n, TRUE) \in SinkStates
    <3>1. b.first \in U64 /\ b.n \in Nat
      BY WireAssumption DEF Spans, U64
    <3> QED BY <3>1, SinkMsgs
  <2> QED BY <2>1
<1>3. PICK it \in [SUBSET (1..n) -> SinkStates] : Solves(it, G, k, s, n)
  BY <1>2, FoldExists
<1>5. \A v \in SinkStates, b \in Spans : G[v][b] = on_msgs(v, gen, b.first, b.n, TRUE)
  OBVIOUS
<1> HIDE DEF G
<1>4. ASSUME NEW u \in SUBSET (1..n), u # {}
      PROVE  Max(u) \in 1..n /\ u \ {Max(u)} \in SUBSET (1..n) /\ s[Max(u)] \in Spans
  BY <1>4, MaxOf
<1>6. P(it)
  <2>1. ASSUME NEW u \in SUBSET (1..n)
        PROVE  it[u] = IF u = {} THEN k
                       ELSE on_msgs(it[u \ {Max(u)}], gen, s[Max(u)].first, s[Max(u)].n, TRUE)
    BY <1>3, <1>4, <1>5 DEF Solves
  <2> QED BY <2>1
<1>7. P(IT)
  BY <1>6
<1> HIDE DEF IT
<1>8. Unwinds(IT, SinkStates, Spans, G, k, s, n)
  <2>1. IT[{}] = k
    BY <1>7
  <2>2. ASSUME NEW u \in SUBSET (1..n), u # {}, IT[u \ {Max(u)}] \in SinkStates
        PROVE  IT[u] = G[IT[u \ {Max(u)}]][s[Max(u)]]
    <3>1. IT[u] = on_msgs(IT[u \ {Max(u)}], gen, s[Max(u)].first, s[Max(u)].n, TRUE)
      BY <1>7, <2>2
    <3> QED BY <1>4, <1>5, <2>2, <3>1
  <2> QED BY <1>2, <2>1, <2>2 DEF Unwinds
<1>9. Reaches(SinkStates, G, k, s, n, IT[1..n])
  BY <1>8, FoldPrefixes
<1>10. PICK f \in [0..n -> SinkStates] : Follows(f, G, k, s, n) /\ f[n] = IT[1..n]
  BY <1>9 DEF Reaches
<1>11. ASSUME NEW i \in 1..n
       PROVE  f[i] = on_msgs(f[i - 1], gen, s[i].first, s[i].n, TRUE)
  <2>1. f[i - 1] \in SinkStates /\ s[i] \in Spans
    BY <1>10
  <2> QED BY <1>5, <1>10, <2>1 DEF Follows
<1>12. f[0] = k
  BY <1>10 DEF Follows
<1>13. f[n] = EachSpan(k, gen, s)
  BY <1>1, <1>10
<1> QED BY <1>10, <1>11, <1>12, <1>13 DEF SpanRun

\* A buffer as a function, and that its spans do not end before it begins.
LEMMA HeldFacts ==
  ASSUME NEW buf, NEW w, Held(buf, w)
  PROVE  /\ Len(buf) \in Nat /\ buf \in [1..Len(buf) -> Spans] /\ buf \in Seq(Spans)
         /\ buf # <<>> => Len(buf) # 0 /\ buf[1] \in Spans /\ End(buf[Len(buf)]) = w
         /\ \A i \in 1..Len(buf) :
               /\ buf[i] \in Spans /\ buf[i].first \in Nat /\ buf[i].n \in Nat
               /\ End(buf[i]) \in Nat /\ End(buf[i]) <= U64_MAX
               /\ buf[1].first <= End(buf[i])
<1> DEFINE n == Len(buf)
<1>1. n \in Nat /\ buf \in [1..n -> Spans] /\ buf \in Seq(Spans)
  BY DEF Held
<1>2. ASSUME NEW i \in 1..n
      PROVE  /\ buf[i] \in Spans /\ buf[i].first \in Nat /\ buf[i].n \in Nat
             /\ End(buf[i]) \in Nat /\ End(buf[i]) <= U64_MAX
             /\ buf[i].first <= End(buf[i])
  <2>1. buf[i] \in Spans
    BY <1>1
  <2> QED BY <2>1 DEF Spans, End
<1> DEFINE S == {i \in 0..n : i # 0 => buf[1].first <= End(buf[i])}
<1>3. 0 \in S
  BY <1>1
<1>4. ASSUME NEW i \in 1..n, i - 1 \in S PROVE i \in S
  <2>1. CASE i = 1
    BY <1>2, <2>1
  <2>2. CASE i # 1
    <3>1. i - 1 \in 1..n /\ i - 1 \in 1..(n - 1) /\ (i - 1) + 1 = i /\ 1 \in 1..n /\ i \in 0..n
      BY <1>1, <2>2
    <3>2. buf[i].first = End(buf[i - 1])
      BY <3>1 DEF Held
    <3>3. buf[1].first <= End(buf[i - 1])
      BY <1>4, <3>1
    <3>4. buf[1].first <= End(buf[i])
      BY <1>2, <3>1, <3>2, <3>3
    <3> QED BY <3>1, <3>4
  <2> QED BY <2>1, <2>2
<1>5. 0..n \subseteq S
  <2> HIDE DEF S
  <2> QED BY <1>1, <1>3, <1>4, Climb
<1>6. buf # <<>> => n # 0 /\ 1 \in 1..n
  BY <1>1
<1>7. ASSUME NEW i \in 1..n PROVE buf[1].first <= End(buf[i])
  BY <1>5
<1> QED BY <1>1, <1>2, <1>6, <1>7 DEF Held

\* However a driver hands them over, consecutive spans are one span to the sink.
LEMMA TotalOne ==
  ASSUME NEW buf, NEW w, Held(buf, w), buf # <<>>
  PROVE  total(buf) = w - buf[1].first
<1> DEFINE n == Len(buf)
           lo == buf[1].first
<1>1. /\ n \in Nat /\ n # 0 /\ buf \in [1..n -> Spans] /\ End(buf[n]) = w
  BY HeldFacts
<1>2. \A i \in 1..n : /\ buf[i].first \in Nat /\ buf[i].n \in Nat /\ End(buf[i]) \in Nat
                      /\ lo <= End(buf[i])
  BY HeldFacts
<1>3. PICK f \in [0..n -> Nat] :
         f[0] = 0 /\ f[n] = total(buf) /\ \A i \in 1..n : f[i] = f[i - 1] + buf[i].n
  BY <1>1, TotalFold
<1>4. lo \in Nat
  BY <1>1, <1>2
<1> HIDE DEF n
<1> DEFINE S == {i \in 0..n : i # 0 => f[i] = End(buf[i]) - lo}
<1>5. 0 \in S
  BY <1>1
<1>6. ASSUME NEW i \in 1..n, i - 1 \in S PROVE i \in S
  <2>1. f[i] = f[i - 1] + buf[i].n /\ i \in 0..n
    BY <1>3
  <2>2. CASE i = 1
    BY <1>2, <1>3, <2>1, <2>2 DEF End
  <2>3. CASE i # 1
    <3>1. i - 1 \in 1..n /\ i - 1 \in 1..(n - 1) /\ (i - 1) + 1 = i
      BY <1>1, <2>3
    <3>2. buf[i].first = End(buf[i - 1])
      BY <3>1 DEF Held, n
    <3>3. f[i - 1] = End(buf[i - 1]) - lo
      BY <1>6, <3>1
    <3>4. f[i] = End(buf[i]) - lo
      <4> DEFINE here == End(buf[i - 1])
                 more == buf[i].n
      <4>1. here \in Nat /\ more \in Nat /\ End(buf[i]) = here + more
        BY <1>2, <3>1, <3>2 DEF End
      <4>2. f[i] = (here - lo) + more
        BY <2>1, <3>3
      <4> HIDE DEF here, more, lo
      <4> QED BY <1>4, <4>1, <4>2
    <3> QED BY <2>1, <3>4
  <2> QED BY <2>2, <2>3
<1>7. 0..n \subseteq S
  <2> HIDE DEF S, lo
  <2> QED BY <1>1, <1>5, <1>6, Climb
<1> QED BY <1>1, <1>3, <1>7

\* Span by span, a held buffer reaches the sink as one span.
LEMMA EachOne ==
  ASSUME NEW buf, NEW w, Held(buf, w), NEW k \in SinkStates, NEW gen \in Nat
  PROVE  EachSpan(k, gen, buf) = OneSpan(k, gen, buf, w)
<1> DEFINE n == Len(buf)
           lo == buf[1].first
<1>1. /\ n \in Nat /\ buf \in [1..n -> Spans] /\ (buf # <<>> => n # 0 /\ End(buf[n]) = w)
      /\ (buf = <<>> => n = 0)
  BY HeldFacts
<1>2. \A i \in 1..n : /\ buf[i].first \in Nat /\ buf[i].n \in Nat /\ End(buf[i]) \in Nat
                      /\ lo <= End(buf[i]) /\ End(buf[i]) <= U64_MAX
  BY HeldFacts
<1>0. PICK f : SpanRun(f, k, gen, buf, n)
  BY <1>1, SpanFold
<1>3. /\ f \in [0..n -> SinkStates] /\ f[0] = k /\ f[n] = EachSpan(k, gen, buf)
      /\ \A i \in 1..n : f[i] = on_msgs(f[i - 1], gen, buf[i].first, buf[i].n, TRUE)
  BY <1>0 DEF SpanRun
<1> HIDE DEF n
<1> DEFINE S == {i \in 0..n : i # 0 => f[i] = Upto(k, gen, lo, End(buf[i]))}
<1>5. 0 \in S
  BY <1>1
<1>6. ASSUME NEW i \in 1..n, i - 1 \in S PROVE i \in S
  <2>1. f[i] = on_msgs(f[i - 1], gen, buf[i].first, buf[i].n, TRUE)
    BY <1>3
  <2>2. i \in 0..n /\ 1 \in 1..n
    BY <1>1
  <2>3. /\ buf[i].first \in Nat /\ buf[i].n \in Nat /\ End(buf[i]) \in Nat
        /\ End(buf[i]) <= U64_MAX /\ lo \in Nat
    BY <1>2, <2>2
  <2>4. CASE i = 1
    <3>1. End(buf[i]) - lo = buf[i].n /\ f[i - 1] = k /\ buf[i].first = lo
      BY <1>3, <2>3, <2>4 DEF End
    <3> QED BY <2>1, <2>2, <3>1 DEF Upto
  <2>5. CASE i # 1
    <3>1. i - 1 \in 1..n /\ i - 1 \in 1..(n - 1) /\ (i - 1) + 1 = i /\ i - 1 # 0
      BY <1>1, <2>5
    <3> DEFINE mid == buf[i].first
               hi == End(buf[i])
    <3>2. mid = End(buf[i - 1]) /\ lo <= mid
      BY <1>2, <3>1 DEF Held, n
    <3>3. f[i - 1] = Upto(k, gen, lo, End(buf[i - 1]))
      BY <1>6, <3>1
    <3>4. buf[i].n = hi - mid /\ mid <= hi
      BY <2>3 DEF End
    <3>5. mid \in Nat /\ hi \in Nat /\ hi <= U64_MAX
      BY <2>3
    <3>6. f[i] = Upto(Upto(k, gen, lo, mid), gen, mid, hi)
      BY <2>1, <3>2, <3>3, <3>4 DEF Upto
    <3> HIDE DEF lo, mid, hi
    <3>7. f[i] = Upto(k, gen, lo, hi)
      BY <2>3, <3>2, <3>4, <3>5, <3>6, MsgsJoin
    <3> QED BY <2>2, <3>7 DEF hi
  <2> QED BY <2>4, <2>5
<1>7. 0..n \subseteq S
  <2> HIDE DEF S, lo
  <2> QED BY <1>1, <1>5, <1>6, Climb
<1>8. CASE buf = <<>>
  BY <1>1, <1>3, <1>8 DEF OneSpan
<1>9. CASE buf # <<>>
  <2>1. n \in 0..n /\ n # 0
    BY <1>1, <1>9
  <2>2. f[n] = Upto(k, gen, lo, End(buf[n]))
    BY <1>7, <2>1
  <2> QED BY <1>1, <1>3, <1>9, <2>2 DEF OneSpan
<1> QED BY <1>8, <1>9

\* flush, whichever way the driver has.
LEMMA FlushIs ==
  \A k, gen, buf : flush(k, gen, buf) =
     IF driver.emit = "packed" /\ buf # <<>>
     THEN on_msgs(k, gen, buf[1].first, total(buf), TRUE)
     ELSE EachSpan(k, gen, buf)
  BY DEF flush, EachSpan

\* However a driver flushes a held buffer, the sink ends as after one span.
LEMMA FlushOne ==
  ASSUME NEW buf, NEW w, Held(buf, w), NEW k \in SinkStates, NEW gen \in Nat
  PROVE  flush(k, gen, buf) = OneSpan(k, gen, buf, w)
<1>1. CASE driver.emit = "packed" /\ buf # <<>>
  BY <1>1, FlushIs, TotalOne DEF OneSpan, Upto
<1>2. CASE ~(driver.emit = "packed" /\ buf # <<>>)
  BY <1>2, FlushIs, EachOne
<1> QED BY <1>1, <1>2

\* A flush leaves a state of the sink.
LEMMA FlushType ==
  ASSUME NEW buf \in Seq(Spans), NEW k \in SinkStates, NEW gen \in Nat
  PROVE  flush(k, gen, buf) \in SinkStates
<1> DEFINE n == Len(buf)
<1>1. n \in Nat /\ buf \in [1..n -> Spans] /\ (buf # <<>> => 1 \in 1..n)
  OBVIOUS
<1>2. total(buf) \in Nat
  <2>1. PICK f \in [0..n -> Nat] : f[n] = total(buf)
    BY <1>1, TotalFold
  <2>2. n \in 0..n
    BY <1>1
  <2> QED BY <2>1, <2>2
<1>3. EachSpan(k, gen, buf) \in SinkStates
  <2>1. PICK f : SpanRun(f, k, gen, buf, n)
    BY <1>1, SpanFold
  <2>2. n \in 0..n
    BY <1>1
  <2> QED BY <2>1, <2>2 DEF SpanRun
<1>4. buf # <<>> => buf[1].first \in U64
  <2>1. buf # <<>> => buf[1] \in Spans
    BY <1>1
  <2> QED BY <2>1, WireAssumption DEF Spans, U64
<1>5. buf # <<>> => on_msgs(k, gen, buf[1].first, total(buf), TRUE) \in SinkStates
  BY <1>2, <1>4, SinkMsgs
<1> QED BY <1>3, <1>5, FlushIs

\* So does the buffer as one span.
LEMMA OneSpanType ==
  ASSUME NEW buf, NEW w \in Nat, Held(buf, w), NEW k \in SinkStates, NEW gen \in Nat
  PROVE  OneSpan(k, gen, buf, w) \in SinkStates
<1>1. buf \in Seq(Spans)
  BY DEF Held
<1> QED BY <1>1, FlushOne, FlushType

-----------------------------------------------------------------------------
(* Emission *)

Carriers == {e \in FrameEntries : blocks_len(e) # 0}

Buffers == [sink : SinkStates, buf : Seq(Spans)]

\* A frame that carries messages is a span below the wrap.
LEMMA CarrierSpan ==
  ASSUME NoWrap, NEW e \in Carriers
  PROVE  /\ e \in FrameEntries /\ seq_of(e) \in Nat /\ seq_of(e) \in U64
         /\ blocks_len(e) \in Nat /\ blocks_len(e) # 0
         /\ seq_of(e) + blocks_len(e) <= MaxW /\ MaxW \in Nat /\ MaxW <= U64_MAX
         /\ [first |-> seq_of(e), n |-> blocks_len(e)] \in Spans
<1>1. e \in FrameEntries /\ blocks_len(e) # 0
  BY DEF Carriers
<1>2. e.indexed /\ blocks_len(e) = e.pkt.count
  BY <1>1 DEF blocks_len
<1>3. e.pkt.seq \in Nat /\ e.pkt.seq <= MaxSeq /\ e.pkt.count \in 1..MaxCount
  BY <1>1, <1>2, EntryTypes
<1>4. /\ U64_MAX \in Nat /\ MaxSeq \in Nat /\ MaxCount \in Nat
      /\ MaxSeq + MaxCount <= U64_MAX
  BY WireAssumption, WindowAssumption, IntentAssumption DEF NoWrap
<1>5. /\ blocks_len(e) \in Nat /\ seq_of(e) \in Nat /\ seq_of(e) \in U64
      /\ seq_of(e) + blocks_len(e) <= MaxW /\ MaxW \in Nat /\ MaxW <= U64_MAX
      /\ seq_of(e) + blocks_len(e) <= U64_MAX
  BY <1>2, <1>3, <1>4 DEF seq_of, U64, MaxW
<1> QED BY <1>1, <1>5 DEF Spans

\* The cases of emit.
LEMMA EmitCases ==
  ASSUME NEW s \in Buffers, NEW e
  PROVE  LET buf == Append(s.buf, [first |-> seq_of(e), n |-> blocks_len(e)])
         IN  /\ driver.emit = "msgs" =>
                  /\ emit(s, e).buf = s.buf
                  /\ emit(s, e).sink = on_msgs(s.sink, q.gen, seq_of(e), blocks_len(e), TRUE)
             /\ driver.emit # "msgs" /\ Len(buf) = STEADY_RECS =>
                  emit(s, e).buf = <<>> /\ emit(s, e).sink = flush(s.sink, q.gen, buf)
             /\ driver.emit # "msgs" /\ Len(buf) # STEADY_RECS =>
                  emit(s, e).buf = buf /\ emit(s, e).sink = s.sink
             /\ emit(s, e) = [sink |-> emit(s, e).sink, buf |-> emit(s, e).buf]
<1> DEFINE buf == Append(s.buf, [first |-> seq_of(e), n |-> blocks_len(e)])
           sink1 == on_msgs(s.sink, q.gen, seq_of(e), blocks_len(e), TRUE)
           sink2 == flush(s.sink, q.gen, buf)
<1>1. emit(s, e) = IF driver.emit = "msgs" THEN [s EXCEPT !.sink = sink1]
                   ELSE IF Len(buf) = STEADY_RECS
                   THEN [s EXCEPT !.sink = sink2, !.buf = <<>>]
                   ELSE [s EXCEPT !.buf = buf]
  BY DEF emit
<1> HIDE DEF buf, sink1, sink2
<1>2. s = [sink |-> s.sink, buf |-> s.buf] /\ DOMAIN s = {"sink", "buf"}
  BY DEF Buffers
<1>3. [s EXCEPT !.sink = sink1] = [sink |-> sink1, buf |-> s.buf]
  BY <1>2
<1>4. [s EXCEPT !.sink = sink2, !.buf = <<>>] = [sink |-> sink2, buf |-> <<>>]
  <2> DEFINE half == [s EXCEPT !.sink = sink2]
  <2>1. half = [sink |-> sink2, buf |-> s.buf]
    BY <1>2
  <2>2. [s EXCEPT !.sink = sink2, !.buf = <<>>] = [half EXCEPT !.buf = <<>>]
    OBVIOUS
  <2> HIDE DEF half
  <2>3. [half EXCEPT !.buf = <<>>] = [sink |-> sink2, buf |-> <<>>]
    BY <2>1
  <2> QED BY <2>2, <2>3
<1>5. [s EXCEPT !.buf = buf] = [sink |-> s.sink, buf |-> buf]
  BY <1>2
<1>6. CASE driver.emit = "msgs"
  BY <1>1, <1>3, <1>6 DEF sink1
<1>7. CASE driver.emit # "msgs" /\ Len(buf) = STEADY_RECS
  BY <1>1, <1>4, <1>7 DEF sink2, buf
<1>8. CASE driver.emit # "msgs" /\ Len(buf) # STEADY_RECS
  BY <1>1, <1>5, <1>8 DEF buf
<1> QED BY <1>6, <1>7, <1>8 DEF buf

\* Emission leaves a sink and a buffer.
LEMMA EmitType ==
  ASSUME NoWrap, NEW s \in Buffers, NEW e \in Carriers, q.gen \in Nat
  PROVE  emit(s, e) \in Buffers
<1> DEFINE b == [first |-> seq_of(e), n |-> blocks_len(e)]
           buf == Append(s.buf, b)
<1>1. s.sink \in SinkStates /\ s.buf \in Seq(Spans) /\ b \in Spans
      /\ seq_of(e) \in U64 /\ blocks_len(e) \in Nat
  BY CarrierSpan DEF Buffers
<1> HIDE DEF b
<1>2. buf \in Seq(Spans) /\ <<>> \in Seq(Spans)
  BY <1>1
<1>3. flush(s.sink, q.gen, buf) \in SinkStates
  BY <1>1, <1>2, FlushType
<1>4. on_msgs(s.sink, q.gen, seq_of(e), blocks_len(e), TRUE) \in SinkStates
  BY <1>1, SinkMsgs
<1> HIDE DEF buf
<1>5. emit(s, e).sink \in SinkStates /\ emit(s, e).buf \in Seq(Spans)
  BY <1>1, <1>2, <1>3, <1>4, EmitCases DEF buf, b
<1>6. emit(s, e) = [sink |-> emit(s, e).sink, buf |-> emit(s, e).buf]
  BY EmitCases
<1> QED BY <1>5, <1>6 DEF Buffers

\* the sink and the buffer of an emission that has come to w
Emitting(s, w) ==
    s \in Buffers /\ Held(s.buf, w) /\ (driver.emit = "msgs" => s.buf = <<>>)

\* One span more in the buffer.
LEMMA HeldAppend ==
  ASSUME NEW buf, NEW w \in Nat, Held(buf, w), NEW b \in Spans, b.first = w
  PROVE  /\ Held(Append(buf, b), End(b)) /\ Append(buf, b) # <<>>
         /\ Append(buf, b)[1].first = (IF buf = <<>> THEN w ELSE buf[1].first)
<1> DEFINE n == Len(buf)
           new == Append(buf, b)
<1>1. n \in Nat /\ buf \in Seq(Spans)
  BY DEF Held
<1>2. new \in Seq(Spans) /\ Len(new) = n + 1 /\ new # <<>>
  BY <1>1
<1>3. new[n + 1] = b /\ \A i \in 1..n : new[i] = buf[i]
  BY <1>1
<1>4. ASSUME NEW i \in 1..(Len(new) - 1) PROVE new[i + 1].first = End(new[i])
  <2>1. i \in 1..n
    BY <1>1, <1>2
  <2>2. CASE i = n
    <3>1. buf # <<>> /\ new[i] = buf[n]
      BY <1>1, <1>3, <2>1, <2>2
    <3>2. End(buf[n]) = w
      BY <3>1 DEF Held
    <3> QED BY <1>3, <2>2, <3>1, <3>2
  <2>3. CASE i # n
    <3>1. i \in 1..(n - 1) /\ i + 1 \in 1..n
      BY <1>1, <2>1, <2>3
    <3>2. buf[i + 1].first = End(buf[i])
      BY <3>1 DEF Held
    <3> QED BY <1>3, <2>1, <3>1, <3>2
  <2> QED BY <2>2, <2>3
<1>5. End(new[Len(new)]) = End(b)
  BY <1>2, <1>3
<1>6. new[1].first = (IF buf = <<>> THEN w ELSE buf[1].first)
  <2>1. CASE buf = <<>>
    BY <1>3, <2>1
  <2>2. CASE buf # <<>>
    <3>1. 1 \in 1..n
      BY <1>1, <2>2
    <3> QED BY <1>3, <2>2, <3>1
  <2> QED BY <2>1, <2>2
<1> HIDE DEF new
<1>7. Held(new, End(b))
  BY <1>2, <1>4, <1>5 DEF Held
<1> QED BY <1>2, <1>6, <1>7 DEF new

\* An emission goes on by the messages of an entry at w.
LEMMA EmitOne ==
  ASSUME NoWrap, q.gen \in Nat, NEW s, NEW w \in Nat, Emitting(s, w),
         NEW e \in Carriers, seq_of(e) = w,
         NEW t, t = emit(s, e), NEW x, x = w + blocks_len(e)
  PROVE  /\ Emitting(t, x)
         /\ OneSpan(t.sink, q.gen, t.buf, x)
               = Upto(OneSpan(s.sink, q.gen, s.buf, w), q.gen, w, x)
<1> DEFINE b == [first |-> seq_of(e), n |-> blocks_len(e)]
           buf == Append(s.buf, b)
           k == s.sink
           gen == q.gen
<1>1. /\ s \in Buffers /\ Held(s.buf, w) /\ k \in SinkStates /\ s.buf \in Seq(Spans)
      /\ driver.emit = "msgs" => s.buf = <<>>
  BY DEF Emitting, Buffers
<1>2. /\ b \in Spans /\ b.first = w /\ End(b) = x /\ x \in Nat /\ w <= x /\ x <= U64_MAX
      /\ blocks_len(e) = x - w
  <2>1. /\ b \in Spans /\ blocks_len(e) \in Nat
        /\ seq_of(e) + blocks_len(e) <= MaxW /\ MaxW \in Nat /\ MaxW <= U64_MAX
    BY CarrierSpan
  <2>2. /\ x \in Nat /\ w <= x /\ x <= U64_MAX /\ blocks_len(e) = x - w
    BY <2>1, WireAssumption
  <2> QED BY <2>1, <2>2 DEF End
<1>3. t \in Buffers
  BY <1>1, EmitType
<1> HIDE DEF b
<1>4. Held(buf, x) /\ buf # <<>> /\ buf \in Seq(Spans)
      /\ buf[1].first = (IF s.buf = <<>> THEN w ELSE s.buf[1].first)
  <2>1. Held(buf, End(b)) /\ buf # <<>>
        /\ buf[1].first = (IF s.buf = <<>> THEN w ELSE s.buf[1].first)
    BY <1>1, <1>2, HeldAppend
  <2>2. buf \in Seq(Spans)
    BY <2>1 DEF Held
  <2> QED BY <1>2, <2>1, <2>2
<1> HIDE DEF buf
<1>5. OneSpan(k, gen, buf, x) = Upto(OneSpan(k, gen, s.buf, w), gen, w, x)
  <2>1. CASE s.buf = <<>>
    BY <1>4, <2>1 DEF OneSpan
  <2>2. CASE s.buf # <<>>
    <3> DEFINE lo == s.buf[1].first
    <3>1. lo \in Nat /\ lo <= w
      <4>1. 1 \in 1..Len(s.buf) /\ Len(s.buf) \in 1..Len(s.buf) /\ End(s.buf[Len(s.buf)]) = w
        BY <1>1, <2>2, HeldFacts
      <4> QED BY <1>1, <4>1, HeldFacts
    <3>2. OneSpan(k, gen, buf, x) = Upto(k, gen, lo, x)
      BY <1>4, <2>2 DEF OneSpan
    <3>3. OneSpan(k, gen, s.buf, w) = Upto(k, gen, lo, w)
      BY <2>2 DEF OneSpan
    <3> HIDE DEF lo
    <3>4. Upto(Upto(k, gen, lo, w), gen, w, x) = Upto(k, gen, lo, x)
      BY <1>1, <1>2, <3>1, MsgsJoin
    <3> QED BY <3>2, <3>3, <3>4
  <2> QED BY <2>1, <2>2
<1>6. Held(<<>>, x)
  BY DEF Held
<1>7. CASE driver.emit = "msgs"
  <2>1. t.buf = <<>> /\ s.buf = <<>> /\ t.sink = on_msgs(k, gen, w, x - w, TRUE)
    BY <1>1, <1>2, <1>7, EmitCases
  <2> QED BY <1>3, <1>6, <2>1 DEF Emitting, OneSpan, Upto
<1>8. CASE driver.emit # "msgs" /\ Len(buf) = STEADY_RECS
  <2>1. t.buf = <<>> /\ t.sink = flush(k, gen, buf)
    BY <1>1, <1>8, EmitCases DEF buf, b
  <2>2. flush(k, gen, buf) = OneSpan(k, gen, buf, x)
    BY <1>1, <1>4, FlushOne
  <2>3. OneSpan(t.sink, gen, t.buf, x) = t.sink
    BY <2>1 DEF OneSpan
  <2> QED BY <1>3, <1>5, <1>6, <2>1, <2>2, <2>3 DEF Emitting
<1>9. CASE driver.emit # "msgs" /\ Len(buf) # STEADY_RECS
  <2>1. t.buf = buf /\ t.sink = k
    BY <1>1, <1>9, EmitCases DEF buf, b
  <2> QED BY <1>3, <1>4, <1>5, <1>9, <2>1 DEF Emitting
<1> QED BY <1>7, <1>8, <1>9

\* The emission of a run of entries, entry by entry, and the sum of their messages.
EmitRun(f, s, es, n) ==
    /\ f \in [0..n -> Buffers] /\ f[0] = s /\ f[n] = FoldLeft(emit, s, es)
    /\ \A i \in 1..n : f[i] = emit(f[i - 1], es[i])

\* Emitting a sequence of frames is emitting them in order.
LEMMA EmitFold ==
  ASSUME NoWrap, q.gen \in Nat, NEW n \in Nat, NEW es \in [1..n -> Carriers],
         NEW s \in Buffers
  PROVE  \E f : EmitRun(f, s, es, n)
<1> DEFINE G == [v \in Buffers |-> [e \in Carriers |-> emit(v, e)]]
           P(it) == it = [u \in SUBSET DOMAIN es |->
                            IF u = {} THEN s ELSE emit(it[u \ {Max(u)}], es[Max(u)])]
           IT == CHOOSE it : P(it)
<1>1. FoldLeft(emit, s, es) = IT[DOMAIN es]
  BY DEF FoldLeft, MapThenFoldSet
<1>2. G \in [Buffers -> [Carriers -> Buffers]]
  BY EmitType
<1>3. PICK it \in [SUBSET (1..n) -> Buffers] : Solves(it, G, s, es, n)
  BY <1>2, FoldExists
<1>4. \A v \in Buffers, e \in Carriers : G[v][e] = emit(v, e)
  OBVIOUS
<1> HIDE DEF G
<1>5. ASSUME NEW u \in SUBSET (1..n), u # {}
      PROVE  Max(u) \in 1..n /\ u \ {Max(u)} \in SUBSET (1..n) /\ es[Max(u)] \in Carriers
  BY <1>5, MaxOf
<1>6. P(it)
  <2>1. ASSUME NEW u \in SUBSET (1..n)
        PROVE  it[u] = IF u = {} THEN s ELSE emit(it[u \ {Max(u)}], es[Max(u)])
    BY <1>3, <1>4, <1>5 DEF Solves
  <2> QED BY <2>1
<1>7. P(IT)
  BY <1>6
<1> HIDE DEF IT
<1>8. Unwinds(IT, Buffers, Carriers, G, s, es, n)
  <2>1. IT[{}] = s
    BY <1>7
  <2>2. ASSUME NEW u \in SUBSET (1..n), u # {}, IT[u \ {Max(u)}] \in Buffers
        PROVE  IT[u] = G[IT[u \ {Max(u)}]][es[Max(u)]]
    <3>1. IT[u] = emit(IT[u \ {Max(u)}], es[Max(u)])
      BY <1>7, <2>2
    <3> QED BY <1>4, <1>5, <2>2, <3>1
  <2> QED BY <1>2, <2>1, <2>2 DEF Unwinds
<1>9. Reaches(Buffers, G, s, es, n, IT[1..n])
  BY <1>8, FoldPrefixes
<1>10. PICK f \in [0..n -> Buffers] : Follows(f, G, s, es, n) /\ f[n] = IT[1..n]
  BY <1>9 DEF Reaches
<1>11. ASSUME NEW i \in 1..n PROVE f[i] = emit(f[i - 1], es[i])
  <2>1. f[i - 1] \in Buffers /\ es[i] \in Carriers
    BY <1>10
  <2> QED BY <1>4, <1>10, <2>1 DEF Follows
<1> QED BY <1>1, <1>10, <1>11 DEF Follows, EmitRun

Sums(T, es, n) ==
    /\ T \in [0..n -> Nat] /\ T[0] = 0 /\ T[n] = sum_blocks(es)
    /\ \A i \in 1..n : T[i] = T[i - 1] + blocks_len(es[i])

\* The partial sums of the blocks of a sequence of frames.
LEMMA SumFold ==
  ASSUME NEW n \in Nat, NEW es \in [1..n -> FrameEntries]
  PROVE  \E T : Sums(T, es, n)
<1> DEFINE G == [v \in Nat |-> [e \in FrameEntries |-> v + blocks_len(e)]]
           P(it) == it = [u \in SUBSET DOMAIN es |->
                            IF u = {} THEN 0
                            ELSE it[u \ {Max(u)}] + blocks_len(es[Max(u)])]
           IT == CHOOSE it : P(it)
<1>1. sum_blocks(es) = IT[DOMAIN es]
  BY DEF sum_blocks, FoldLeft, MapThenFoldSet
<1>2. \A e \in FrameEntries : blocks_len(e) \in Nat
  BY EntryTypes DEF blocks_len
<1>3. G \in [Nat -> [FrameEntries -> Nat]]
  BY <1>2
<1>4. PICK it \in [SUBSET (1..n) -> Nat] : Solves(it, G, 0, es, n)
  BY <1>3, FoldExists
<1>5. \A v \in Nat, e \in FrameEntries : G[v][e] = v + blocks_len(e)
  OBVIOUS
<1> HIDE DEF G
<1>6. ASSUME NEW u \in SUBSET (1..n), u # {}
      PROVE  /\ Max(u) \in 1..n /\ u \ {Max(u)} \in SUBSET (1..n)
             /\ es[Max(u)] \in FrameEntries
  BY <1>6, MaxOf
<1>7. P(it)
  <2>1. ASSUME NEW u \in SUBSET (1..n)
        PROVE  it[u] = IF u = {} THEN 0 ELSE it[u \ {Max(u)}] + blocks_len(es[Max(u)])
    BY <1>4, <1>5, <1>6 DEF Solves
  <2> QED BY <2>1
<1>8. P(IT)
  BY <1>7
<1> HIDE DEF IT
<1>9. Unwinds(IT, Nat, FrameEntries, G, 0, es, n)
  <2>1. IT[{}] = 0
    BY <1>8
  <2>2. ASSUME NEW u \in SUBSET (1..n), u # {}, IT[u \ {Max(u)}] \in Nat
        PROVE  IT[u] = G[IT[u \ {Max(u)}]][es[Max(u)]]
    <3>1. IT[u] = IT[u \ {Max(u)}] + blocks_len(es[Max(u)])
      BY <1>8, <2>2
    <3> QED BY <1>5, <1>6, <2>2, <3>1
  <2> QED BY <1>3, <2>1, <2>2 DEF Unwinds
<1>10. Reaches(Nat, G, 0, es, n, IT[1..n])
  BY <1>9, FoldPrefixes
<1>11. PICK f \in [0..n -> Nat] : Follows(f, G, 0, es, n) /\ f[n] = IT[1..n]
  BY <1>10 DEF Reaches
<1>12. ASSUME NEW i \in 1..n PROVE f[i] = f[i - 1] + blocks_len(es[i])
  <2>1. f[i - 1] \in Nat /\ es[i] \in FrameEntries
    BY <1>11
  <2> QED BY <1>5, <1>11, <2>1 DEF Follows
<1> QED BY <1>1, <1>11, <1>12 DEF Follows, Sums

\* entries with messages that follow each other from w on
Chain(es, T, w, n) ==
    /\ n \in Nat \ {0} /\ w \in Nat /\ es \in [1..n -> Carriers] /\ Sums(T, es, n)
    /\ \A i \in 1..n : seq_of(es[i]) = w + T[i - 1]

\* where the chain is after each entry
LEMMA ChainFacts ==
  ASSUME NoWrap, NEW es, NEW T, NEW w, NEW n, Chain(es, T, w, n), NEW i \in 1..n
  PROVE  /\ T[i - 1] \in Nat /\ T[i] \in Nat /\ es[i] \in Carriers
         /\ w + T[i - 1] \in Nat /\ w + T[i] \in Nat
         /\ w <= w + T[i - 1] /\ w + T[i - 1] <= w + T[i]
         /\ w + T[i] <= U64_MAX /\ w + T[i] <= MaxW /\ w + T[i - 1] # w + T[i]
         /\ seq_of(es[i]) = w + T[i - 1]
         /\ blocks_len(es[i]) \in Nat
         /\ w + T[i] = (w + T[i - 1]) + blocks_len(es[i])
<1>1. /\ n \in Nat /\ w \in Nat /\ es \in [1..n -> Carriers] /\ T \in [0..n -> Nat]
      /\ T[i] = T[i - 1] + blocks_len(es[i]) /\ seq_of(es[i]) = w + T[i - 1]
  BY DEF Chain, Sums
<1>2. T[i - 1] \in Nat /\ es[i] \in Carriers
  BY <1>1
<1>3. /\ blocks_len(es[i]) \in Nat /\ blocks_len(es[i]) # 0
      /\ seq_of(es[i]) + blocks_len(es[i]) <= MaxW /\ MaxW \in Nat /\ MaxW <= U64_MAX
  BY <1>2, CarrierSpan
<1>4. U64_MAX \in Nat
  BY WireAssumption
<1> DEFINE at == T[i - 1]
           m == blocks_len(es[i])
<1>5. /\ at \in Nat /\ m \in Nat /\ m # 0 /\ T[i] = at + m /\ seq_of(es[i]) = w + at
      /\ (w + at) + m <= MaxW
  BY <1>1, <1>2, <1>3
<1> HIDE DEF at, m
<1>6. /\ T[i] \in Nat /\ w + at \in Nat /\ w + T[i] \in Nat
      /\ w <= w + at /\ w + at <= w + T[i] /\ w + T[i] <= MaxW
      /\ w + at # w + T[i] /\ w + T[i] = (w + at) + m
  <2> DEFINE to == T[i]
  <2>1. to = at + m /\ at \in Nat /\ m \in Nat /\ m # 0 /\ w \in Nat /\ MaxW \in Nat
        /\ (w + at) + m <= MaxW
    BY <1>1, <1>3, <1>5
  <2> HIDE DEF to
  <2>2. to \in Nat /\ w + at \in Nat /\ w + to \in Nat /\ w + to = (w + at) + m
    BY <2>1
  <2>3. w <= w + at /\ w + at <= w + to /\ w + to <= MaxW /\ w + at # w + to
    BY <2>1, <2>2
  <2> QED BY <2>2, <2>3 DEF to
<1>7. w + T[i] <= U64_MAX
  BY <1>3, <1>4, <1>6
<1> QED BY <1>1, <1>2, <1>3, <1>5, <1>6, <1>7 DEF at, m

\* The emission of a chain is the emission of one span.
LEMMA EmitAll ==
  ASSUME NoWrap, q.gen \in Nat, NEW es, NEW T, NEW w, NEW n, Chain(es, T, w, n),
         NEW s, Emitting(s, w), NEW out, out = FoldLeft(emit, s, es),
         NEW x, x = w + T[n]
  PROVE  /\ Emitting(out, x)
         /\ OneSpan(out.sink, q.gen, out.buf, x)
               = Upto(OneSpan(s.sink, q.gen, s.buf, w), q.gen, w, x)
<1> DEFINE k == OneSpan(s.sink, q.gen, s.buf, w)
           gen == q.gen
<1>1. n \in Nat \ {0} /\ w \in Nat /\ es \in [1..n -> Carriers] /\ T[0] = 0
  BY DEF Chain, Sums
<1>2. s \in Buffers /\ k \in SinkStates
  BY <1>1, OneSpanType DEF Emitting, Buffers
<1>3. PICK f : EmitRun(f, s, es, n)
  BY <1>1, <1>2, EmitFold
<1>4. /\ f \in [0..n -> Buffers] /\ f[0] = s /\ f[n] = out
      /\ \A i \in 1..n : f[i] = emit(f[i - 1], es[i])
  BY <1>3 DEF EmitRun
<1> HIDE DEF k
<1> DEFINE Good(i) == /\ Emitting(f[i], w + T[i])
                      /\ OneSpan(f[i].sink, gen, f[i].buf, w + T[i])
                           = IF i = 0 THEN k ELSE Upto(k, gen, w, w + T[i])
           S == {i \in 0..n : Good(i)}
<1>5. 0 \in S
  <2>1. 0 \in 0..n /\ w + T[0] = w
    BY <1>1
  <2> QED BY <1>4, <2>1 DEF k
<1>6. ASSUME NEW i \in 1..n, i - 1 \in S PROVE i \in S
  <2> DEFINE mid == w + T[i - 1]
             hi == w + T[i]
             t == f[i - 1]
  <2>1. /\ mid \in Nat /\ hi \in Nat /\ w <= mid /\ mid <= hi /\ hi <= U64_MAX
        /\ seq_of(es[i]) = mid /\ hi = mid + blocks_len(es[i]) /\ es[i] \in Carriers
    BY ChainFacts
  <2>2. f[i] = emit(t, es[i]) /\ i \in 0..n /\ i # 0
    BY <1>1, <1>4
  <2>3. Emitting(t, mid)
    BY <1>6
  <2>4. OneSpan(t.sink, gen, t.buf, mid) = IF i - 1 = 0 THEN k ELSE Upto(k, gen, w, mid)
    BY <1>6
  <2>5. i - 1 = 0 => mid = w
    BY <1>1
  <2> HIDE DEF mid, hi, t
  <2>6. /\ Emitting(f[i], hi)
        /\ OneSpan(f[i].sink, gen, f[i].buf, hi)
             = Upto(OneSpan(t.sink, gen, t.buf, mid), gen, mid, hi)
    BY <2>1, <2>2, <2>3, EmitOne
  <2>7. OneSpan(f[i].sink, gen, f[i].buf, hi) = Upto(k, gen, w, hi)
    <3>1. CASE i - 1 = 0
      BY <2>4, <2>5, <2>6, <3>1
    <3>2. CASE i - 1 # 0
      <4>1. Upto(Upto(k, gen, w, mid), gen, mid, hi) = Upto(k, gen, w, hi)
        BY <1>1, <1>2, <2>1, MsgsJoin
      <4> QED BY <2>4, <2>6, <3>2, <4>1
    <3> QED BY <3>1, <3>2
  <2> QED BY <2>2, <2>6, <2>7 DEF hi
<1>7. 0..n \subseteq S
  <2> HIDE DEF S
  <2> QED BY <1>1, <1>5, <1>6, Climb
<1>8. n \in 0..n /\ n # 0
  BY <1>1
<1>9. Good(n)
  BY <1>7, <1>8
<1> QED BY <1>4, <1>8, <1>9 DEF k

-----------------------------------------------------------------------------
(* The scan, committed *)

ScanStates == [w : Nat, buf : Seq(Spans), progressed : BOOLEAN, cnt : Counters]

Commit(r, s) ==
    [r EXCEPT !.w = s.w,
              !.progress_age = IF s.progressed THEN 0 ELSE r.progress_age,
              !.sink = OneSpan(r.sink, r.gen, s.buf, s.w)]

\* It depends on three of the scan's locals.
LEMMA CommitSame ==
  ASSUME NEW r, NEW s, NEW t, t.w = s.w, t.buf = s.buf, t.progressed = s.progressed
  PROVE  Commit(r, t) = Commit(r, s)
  BY DEF Commit

\* What leaving the scan changes, and that it leaves a steady sequencer steady.
LEMMA CommitFacts ==
  ASSUME NEW r \in SequencerStates, NEW s
  PROVE  /\ Commit(r, s).w = s.w /\ Commit(r, s).gen = r.gen
         /\ Commit(r, s).session = r.session
         /\ Commit(r, s).sink = OneSpan(r.sink, r.gen, s.buf, s.w)
         /\ steady_ready(Commit(r, s)) = steady_ready(r)
<1> DEFINE sink == OneSpan(r.sink, r.gen, s.buf, s.w)
           age == IF s.progressed THEN 0 ELSE r.progress_age
           m == [r EXCEPT !.w = s.w, !.progress_age = age, !.sink = sink]
<1>1. Commit(r, s) = m
  BY DEF Commit
<1> HIDE DEF sink, age
<1>2. /\ m.w = s.w /\ m.gen = r.gen /\ m.session = r.session
      /\ m.sink = sink /\ m.state = r.state /\ m.staged_count = r.staged_count
      /\ m.gap_active = r.gap_active /\ m.pending_to = r.pending_to
  BY DEF SequencerStates
<1> QED BY <1>1, <1>2 DEF steady_ready, sink

\* What the driver commits is that.
LEMMA CommittedIs ==
  ASSUME Held(scan.buf, scan.w), q \in SequencerStates
  PROVE  committed = Commit(q, scan)
<1>1. q.sink \in SinkStates /\ q.gen \in Nat
  BY WireAssumption DEF SequencerStates
<1>2. flush(q.sink, q.gen, scan.buf) = OneSpan(q.sink, q.gen, scan.buf, scan.w)
  BY <1>1, FlushOne
<1> QED BY <1>2 DEF committed, Commit

\* A scan that has just been entered has nothing to commit.
LEMMA CommitNothing ==
  ASSUME NEW r \in SequencerStates
  PROVE  Commit(r, NewScan(r.w)) = r
<1>1. OneSpan(r.sink, r.gen, <<>>, r.w) = r.sink
  BY DEF OneSpan
<1>2. [r EXCEPT !.w = r.w, !.progress_age = r.progress_age, !.sink = r.sink] = r
  BY DEF SequencerStates
<1> QED BY <1>1, <1>2 DEF Commit, NewScan

\* Emitted messages move what would be committed: r and s become r1 and t when n
\* messages have come to the sink, which is k, and to the buffer.
Emission(r, s, r1, t, k, n) ==
    /\ r \in SequencerStates /\ n \in Nat /\ s.w \in Nat
    /\ r1 = [r EXCEPT !.sink = k]
    /\ t.w = s.w + n /\ t.progressed
    /\ OneSpan(k, r.gen, t.buf, t.w)
         = Upto(OneSpan(r.sink, r.gen, s.buf, s.w), r.gen, s.w, t.w)

\* Emitting n messages in the scan and committing is committing and moving on by n.
LEMMA CommitMoved ==
  ASSUME NEW r, NEW s, NEW r1, NEW t, NEW k, NEW n, Emission(r, s, r1, t, k, n)
  PROVE  Commit(r1, t) = moved(Commit(r, s), n)
<1>0. /\ r \in SequencerStates /\ n \in Nat /\ s.w \in Nat
      /\ r1 = [r EXCEPT !.sink = k] /\ t.w = s.w + n /\ t.progressed
      /\ OneSpan(k, r.gen, t.buf, t.w)
            = Upto(OneSpan(r.sink, r.gen, s.buf, s.w), r.gen, s.w, t.w)
  BY DEF Emission
<1> DEFINE z == OneSpan(r.sink, r.gen, s.buf, s.w)
           x == on_msgs(z, r.gen, s.w, n, TRUE)
           c == Commit(r, s)
           age == IF s.progressed THEN 0 ELSE r.progress_age
<1>1. OneSpan(k, r.gen, t.buf, t.w) = x
  <2>1. t.w - s.w = n
    BY <1>0
  <2> QED BY <1>0, <2>1 DEF Upto
<1>2. c.w = s.w /\ c.gen = r.gen /\ c.sink = z
  BY <1>0, CommitFacts
<1>3. moved(c, n) = [c EXCEPT !.w = t.w, !.progress_age = 0, !.sink = x]
  BY <1>0, <1>2 DEF moved
<1>4. c = [r EXCEPT !.w = s.w, !.progress_age = age, !.sink = z]
  BY DEF Commit
<1>5. r1.sink = k /\ r1.gen = r.gen
  BY <1>0 DEF SequencerStates
<1>6. Commit(r1, t) = [r1 EXCEPT !.w = t.w, !.progress_age = 0, !.sink = x]
  <2> HIDE DEF x
  <2> QED BY <1>0, <1>1, <1>5 DEF Commit
<1> HIDE DEF x, z, age, c
<1>7. [r1 EXCEPT !.w = t.w, !.progress_age = 0, !.sink = x]
        = [r EXCEPT !.w = t.w, !.progress_age = 0, !.sink = x]
  BY <1>0 DEF SequencerStates
<1>8. [c EXCEPT !.w = t.w, !.progress_age = 0, !.sink = x]
        = [r EXCEPT !.w = t.w, !.progress_age = 0, !.sink = x]
  BY <1>0, <1>4 DEF SequencerStates
<1> QED BY <1>3, <1>6, <1>7, <1>8 DEF c

\* Moves add up.
LEMMA MovedJoin ==
  ASSUME NEW r \in SequencerStates, r.w \in Nat, NEW a \in Nat, NEW b \in Nat,
         (r.w + a) + b <= U64_MAX
  PROVE  moved(moved(r, a), b) = moved(r, a + b)
<1> DEFINE m == moved(r, a)
           x == on_msgs(m.sink, m.gen, m.w, b, TRUE)
           k == on_msgs(r.sink, r.gen, r.w, a, TRUE)
<1>1. r.sink \in SinkStates /\ r.gen \in Nat /\ U64_MAX \in Nat
  BY WireAssumption DEF SequencerStates
<1>2. m.w = r.w + a /\ m.gen = r.gen /\ m.sink = k
  BY MovedFacts
<1>3. x = on_msgs(r.sink, r.gen, r.w, a + b, TRUE)
  <2> DEFINE mid == r.w + a
             hi == (r.w + a) + b
  <2>1. /\ mid \in Nat /\ hi \in Nat /\ r.w <= mid /\ mid <= hi /\ hi <= U64_MAX
        /\ mid - r.w = a /\ hi - mid = b /\ hi - r.w = a + b
    BY <1>1
  <2> HIDE DEF mid, hi
  <2>2. Upto(Upto(r.sink, r.gen, r.w, mid), r.gen, mid, hi) = Upto(r.sink, r.gen, r.w, hi)
    BY <1>1, <2>1, MsgsJoin
  <2>3. m.w = mid
    BY <1>2 DEF mid
  <2> QED BY <2>1, <2>2, <2>3, <1>2 DEF Upto
<1>4. m = [r EXCEPT !.w = r.w + a, !.progress_age = 0, !.sink = k]
  BY DEF moved
<1>5. moved(m, b) = [m EXCEPT !.w = r.w + (a + b), !.progress_age = 0, !.sink = x]
  <2>1. m.w + b = r.w + (a + b)
    BY <1>2
  <2> HIDE DEF m
  <2> QED BY <2>1 DEF moved
<1> HIDE DEF m, x, k
<1>6. [m EXCEPT !.w = r.w + (a + b), !.progress_age = 0, !.sink = x]
        = [r EXCEPT !.w = r.w + (a + b), !.progress_age = 0, !.sink = x]
  BY <1>4 DEF SequencerStates
<1>7. moved(r, a + b) = [r EXCEPT !.w = r.w + (a + b), !.progress_age = 0, !.sink = x]
  BY <1>3 DEF moved
<1> QED BY <1>5, <1>6, <1>7 DEF m

-----------------------------------------------------------------------------
(* A ladder group *)

\* What one pair more counts.
LEMMA PairsCount ==
  ASSUME NEW c \in Counters, NEW f1 \in Feeds, NEW f2 \in Feeds, NEW m \in Nat,
         NEW d \in Nat, NEW j \in Nat \ {0}
  PROVE  /\ pair_counts(f1, f2, j, m) \in Counters /\ pair_counts(f1, f2, 0, 0) = NewCounters
         /\ plus(plus(plus(c, pair_counts(f1, f2, j - 1, m)), Fresh(f1)), Again(f2, d))
              = plus(c, pair_counts(f1, f2, j, m + d))
<1>1. /\ c.packets \in [Feeds -> Nat] /\ c.dups \in [Feeds -> Nat] /\ c.dup_msgs \in Nat
  BY DEF Counters
<1>2. pair_counts(f1, f2, j, m) \in Counters /\ pair_counts(f1, f2, 0, 0) = NewCounters
  BY DEF pair_counts, Counters, NewCounters
<1> DEFINE one(g, f) == IF f = g THEN 1 ELSE 0
           some(g, f, i) == IF f = g THEN i ELSE 0
<1>3. ASSUME NEW f \in Feeds
      PROVE  /\ ((c.packets[f] + (some(f1, f, j - 1) + some(f2, f, j - 1))) + one(f1, f))
                   + one(f2, f)
                  = c.packets[f] + (some(f1, f, j) + some(f2, f, j))
             /\ ((c.dups[f] + some(f2, f, j - 1)) + 0) + one(f2, f)
                  = c.dups[f] + some(f2, f, j)
  <2>1. c.packets[f] \in Nat /\ c.dups[f] \in Nat
    BY <1>1
  <2> QED BY <2>1
<1>4. ((c.dup_msgs + m) + 0) + d = c.dup_msgs + (m + d)
  BY <1>1
<1>5. plus(plus(plus(c, pair_counts(f1, f2, j - 1, m)), Fresh(f1)), Again(f2, d))
        = [packets |-> [f \in Feeds |->
               ((c.packets[f] + (some(f1, f, j - 1) + some(f2, f, j - 1))) + one(f1, f))
                  + one(f2, f)],
           dups |-> [f \in Feeds |-> ((c.dups[f] + some(f2, f, j - 1)) + 0) + one(f2, f)],
           dup_msgs |-> ((c.dup_msgs + m) + 0) + d]
  BY DEF plus, pair_counts, Fresh, Again
<1>6. plus(c, pair_counts(f1, f2, j, m + d))
        = [packets |-> [f \in Feeds |-> c.packets[f] + (some(f1, f, j) + some(f2, f, j))],
           dups |-> [f \in Feeds |-> c.dups[f] + some(f2, f, j)],
           dup_msgs |-> c.dup_msgs + (m + d)]
  BY DEF plus, pair_counts
<1> HIDE DEF one, some
<1>7. [f \in Feeds |-> ((c.packets[f] + (some(f1, f, j - 1) + some(f2, f, j - 1))) + one(f1, f))
                  + one(f2, f)]
        = [f \in Feeds |-> c.packets[f] + (some(f1, f, j) + some(f2, f, j))]
  BY <1>3
<1>8. [f \in Feeds |-> ((c.dups[f] + some(f2, f, j - 1)) + 0) + one(f2, f)]
        = [f \in Feeds |-> c.dups[f] + some(f2, f, j)]
  BY <1>3
<1> QED BY <1>2, <1>4, <1>5, <1>6, <1>7, <1>8

\* One pair: its first entry moves the sequencer, its second one finds W past it.
LEMMA OnePair ==
  ASSUME NoWrap, NEW r \in Sequencers, steady_ready(r), NEW c \in Counters,
         NEW a \in FrameEntries, NEW d \in FrameEntries,
         blocks_len(a) # 0, a.pkt.session = r.session, all_valid(a), seq_of(a) = r.w,
         blocks_len(d) # 0, d.pkt.session = r.session, seq_of(d) = seq_of(a),
         blocks_len(d) <= blocks_len(a)
  PROVE  step(step([q |-> r, cnt |-> c], a), d)
           = [q |-> moved(r, blocks_len(a)),
              cnt |-> plus(plus(c, Fresh(a.feed)), Again(d.feed, blocks_len(d)))]
<1> DEFINE m == moved(r, blocks_len(a))
           c1 == plus(c, Fresh(a.feed))
<1>1. Steady(r, a) /\ a.pkt.seq = r.w
  BY DEF Steady, seq_of
<1>2. ingest(r, a.pkt) = m /\ count_frame(c, r, a) = c1
  BY <1>1, SteadyAdvance
<1>3. m \in Sequencers
  BY <1>2, EntryTypes, IngestType
<1>4. /\ r \in SequencerStates /\ r.w \in Nat /\ blocks_len(a) \in Nat
      /\ blocks_len(d) \in Nat /\ d.pkt.seq = r.w /\ d.pkt.count = blocks_len(d)
  BY <1>1, SteadyFacts, EntryTypes DEF blocks_len, seq_of
<1>5. m.w = r.w + blocks_len(a) /\ m.session = r.session /\ steady_ready(m)
  BY <1>4, MovedFacts
<1>6. Steady(m, d)
  BY <1>3, <1>5 DEF Steady
<1>7. span_last(d.pkt) < m.w
  BY <1>4, <1>5 DEF span_last
<1>8. c1 \in Counters
  BY <1>2, CountType DEF Sequencers
<1> HIDE DEF m, c1
<1>9. ingest(m, d.pkt) = m /\ count_frame(c1, m, d) = plus(c1, Again(d.feed, blocks_len(d)))
  BY <1>6, <1>7, <1>8, SteadyDup
<1>10. step([q |-> r, cnt |-> c], a) = [q |-> m, cnt |-> c1]
  BY <1>2 DEF step
<1>11. step([q |-> m, cnt |-> c1], d)
         = [q |-> m, cnt |-> plus(c1, Again(d.feed, blocks_len(d)))]
  BY <1>9 DEF step
<1> QED BY <1>10, <1>11 DEF m, c1

\* n pairs of an entry and a duplicate of it, all of the sequencer's session
PairUp(r, es, A, D, n, f1, f2) ==
    /\ n \in Nat \ {0} /\ es \in [1..(2 * n) -> FrameEntries]
    /\ f1 \in Feeds /\ f2 \in Feeds
    /\ A \in [1..n -> FrameEntries] /\ D \in [1..n -> FrameEntries]
    /\ \A i \in 1..n :
          /\ A[i] = es[2 * i - 1] /\ D[i] = es[2 * i]
          /\ A[i].feed = f1 /\ D[i].feed = f2
          /\ blocks_len(A[i]) # 0 /\ all_valid(A[i]) /\ A[i].pkt.session = r.session
          /\ blocks_len(D[i]) # 0 /\ D[i].pkt.session = r.session
          /\ seq_of(D[i]) = seq_of(A[i]) /\ blocks_len(D[i]) <= blocks_len(A[i])

\* The reference goes through such pairs to where the group's sums say.
LEMMA GroupMoves ==
  ASSUME NoWrap, NEW r \in Sequencers, steady_ready(r), NEW c \in Counters,
         NEW es, NEW A, NEW D, NEW n, NEW f1, NEW f2, PairUp(r, es, A, D, n, f1, f2),
         NEW T, Chain(A, T, r.w, n), NEW U, Sums(U, D, n)
  PROVE  Reference!one_by_one(r, c, es)
           = [q |-> moved(r, T[n]), cnt |-> plus(c, pair_counts(f1, f2, n, U[n]))]
<1> DEFINE s == [q |-> r, cnt |-> c]
<1>1. /\ n \in Nat \ {0} /\ es \in [1..(2 * n) -> FrameEntries]
      /\ f1 \in Feeds /\ f2 \in Feeds /\ 2 * n \in Nat
      /\ T[0] = 0 /\ U \in [0..n -> Nat] /\ U[0] = 0 /\ T \in [0..n -> Nat]
  <2>1. /\ n \in Nat \ {0} /\ es \in [1..(2 * n) -> FrameEntries]
        /\ f1 \in Feeds /\ f2 \in Feeds
    BY DEF PairUp
  <2>2. U \in [0..n -> Nat] /\ U[0] = 0
    BY DEF Sums
  <2>3. T \in [0..n -> Nat] /\ T[0] = 0
    BY DEF Chain, Sums
  <2> QED BY <2>1, <2>2, <2>3
<1>2. s \in Points /\ s.q = r /\ s.cnt = c
  BY DEF Points
<1> HIDE DEF s
<1>0. \E f : StepRun(f, s, es, 2 * n)
  BY <1>1, <1>2, OneByOne
<1>3. PICK f :
         /\ f \in [0..(2 * n) -> Points]
         /\ f[0] = s /\ f[2 * n] = Reference!one_by_one(r, c, es)
         /\ \A i \in 1..(2 * n) : f[i] = step(f[i - 1], es[i])
  BY <1>0, <1>2 DEF StepRun
<1>4. r \in SequencerStates /\ r.w \in Nat
  BY WireAssumption DEF Sequencers, SequencerStates, U64
<1> DEFINE here(j) == IF j = 0 THEN r ELSE moved(r, T[j])
           Good(j) == f[2 * j] = [q |-> here(j), cnt |-> plus(c, pair_counts(f1, f2, j, U[j]))]
           S == {j \in 0..n : Good(j)}
<1>5. 0 \in S
  <2>1. plus(c, pair_counts(f1, f2, 0, 0)) = c
    BY <1>1, PairsCount, PlusNothing
  <2> QED BY <1>1, <1>3, <2>1 DEF s
<1>6. ASSUME NEW j \in 1..n, j - 1 \in S PROVE j \in S
  <2> DEFINE a == es[2 * j - 1]
             d == es[2 * j]
             R == here(j - 1)
             C == plus(c, pair_counts(f1, f2, j - 1, U[j - 1]))
  <2>0. /\ j \in Nat \ {0} /\ j \in 0..n /\ 2 * j \in 1..(2 * n) /\ 2 * j - 1 \in 1..(2 * n)
        /\ (2 * j) - 1 = 2 * j - 1 /\ (2 * j - 1) - 1 = 2 * (j - 1)
        /\ 2 * (j - 1) \in 0..(2 * n)
    BY <1>1
  <2>1. /\ a = A[j] /\ d = D[j] /\ a \in FrameEntries /\ d \in FrameEntries
        /\ a.feed = f1 /\ d.feed = f2
        /\ blocks_len(a) # 0 /\ all_valid(a) /\ a.pkt.session = r.session
        /\ blocks_len(d) # 0 /\ d.pkt.session = r.session
        /\ seq_of(d) = seq_of(a) /\ blocks_len(d) <= blocks_len(a)
    BY <1>1, <2>0 DEF PairUp
  <2>2. /\ T[j - 1] \in Nat /\ blocks_len(A[j]) \in Nat
        /\ seq_of(A[j]) = r.w + T[j - 1]
        /\ r.w + T[j] = (r.w + T[j - 1]) + blocks_len(A[j])
        /\ r.w + T[j] <= U64_MAX /\ T[j] \in Nat
    BY ChainFacts
  <2>3. f[2 * (j - 1)] = [q |-> R, cnt |-> C]
    BY <1>6
  <2>4. R \in Sequencers /\ C \in Counters
    <3>1. f[2 * (j - 1)] \in Points
      BY <1>3, <2>0
    <3> HIDE DEF R, C
    <3> QED BY <2>3, <3>1 DEF Points
  <2>5. R.w = r.w + T[j - 1] /\ R.session = r.session /\ steady_ready(R)
    <3>1. CASE j - 1 = 0
      BY <1>1, <1>4, <3>1
    <3>2. CASE j - 1 # 0
      BY <1>4, <2>2, <3>2, MovedFacts
    <3> QED BY <3>1, <3>2
  <2>6. f[2 * j] = step(step([q |-> R, cnt |-> C], a), d)
    <3>1. f[2 * j] = step(f[2 * j - 1], d) /\ f[2 * j - 1] = step(f[2 * (j - 1)], a)
      BY <1>3, <2>0
    <3> QED BY <2>3, <3>1
  <2>7. moved(R, blocks_len(a)) = here(j)
    <3>1. T[j - 1] + blocks_len(a) = T[j] /\ (r.w + T[j - 1]) + blocks_len(a) <= U64_MAX
      BY <1>4, <2>1, <2>2
    <3>2. CASE j - 1 = 0
      <4>1. T[j - 1] = 0 /\ blocks_len(a) = T[j]
        BY <1>1, <2>1, <2>2, <3>1, <3>2
      <4> QED BY <2>0, <3>2, <4>1
    <3>3. CASE j - 1 # 0
      <4>1. moved(moved(r, T[j - 1]), blocks_len(a)) = moved(r, T[j - 1] + blocks_len(a))
        BY <1>4, <2>1, <2>2, <3>1, MovedJoin
      <4> QED BY <2>0, <3>1, <3>3, <4>1
    <3> QED BY <3>2, <3>3
  <2>8. plus(plus(C, Fresh(f1)), Again(f2, blocks_len(d))) = plus(c, pair_counts(f1, f2, j, U[j]))
    <3>1. U[j - 1] \in Nat /\ U[j] = U[j - 1] + blocks_len(d)
      <4>1. U[j] = U[j - 1] + blocks_len(D[j])
        BY DEF Sums
      <4>2. j - 1 \in 0..n
        BY <1>1
      <4> QED BY <1>1, <2>1, <4>1, <4>2
    <3>2. blocks_len(d) \in Nat
      BY <2>1, EntryTypes DEF blocks_len
    <3> DEFINE u == U[j - 1]
               v == U[j]
               m == blocks_len(d)
    <3>3. u \in Nat /\ m \in Nat /\ v = u + m
      BY <3>1, <3>2
    <3> HIDE DEF u, v, m
    <3>4. plus(plus(plus(c, pair_counts(f1, f2, j - 1, u)), Fresh(f1)), Again(f2, m))
            = plus(c, pair_counts(f1, f2, j, v))
      <4>1. /\ c \in Counters /\ f1 \in Feeds /\ f2 \in Feeds /\ u \in Nat /\ m \in Nat
            /\ j \in Nat \ {0} /\ v = u + m
        BY <1>1, <2>0, <3>3
      <4> QED BY <4>1, PairsCount
    <3> QED BY <3>4 DEF u, v, m
  <2> HIDE DEF R, C, a, d
  <2>9. step(step([q |-> R, cnt |-> C], a), d)
          = [q |-> moved(R, blocks_len(a)),
             cnt |-> plus(plus(C, Fresh(a.feed)), Again(d.feed, blocks_len(d)))]
    <3>1. seq_of(a) = R.w /\ a.pkt.session = R.session /\ d.pkt.session = R.session
      BY <2>1, <2>2, <2>5
    <3> QED BY <2>1, <2>4, <2>5, <3>1, OnePair
  <2> QED BY <2>0, <2>1, <2>6, <2>7, <2>8, <2>9
<1>7. 0..n \subseteq S
  <2> HIDE DEF S
  <2> QED BY <1>1, <1>5, <1>6, Climb
<1>8. n \in 0..n /\ n # 0
  BY <1>1
<1>9. Good(n)
  BY <1>7, <1>8
<1> QED BY <1>3, <1>8, <1>9

\* A part of a sequence: k elements from the one after m on.
IsPart(t, S, s, m, k) ==
    /\ t \in Seq(S) /\ Len(t) = k /\ k \in Nat /\ t \in [1..k -> S]
    /\ \A i \in 1..k : t[i] = s[m + i]

\* A part of a sequence.
LEMMA Part ==
  ASSUME NEW S, NEW s \in Seq(S), NEW m \in Nat, NEW k \in Nat, m + k <= Len(s)
  PROVE  IsPart(SubSeq(s, m + 1, m + k), S, s, m, k)
<1> DEFINE lo == m + 1
           hi == m + k
           t == SubSeq(s, lo, hi)
<1>1. lo \in Int /\ hi \in Int /\ hi - lo + 1 = k /\ (lo <= hi \/ k = 0)
  OBVIOUS
<1>2. \A i \in lo..hi : s[i] \in S
  OBVIOUS
<1>3. \A i \in 1..k : lo + i - 1 = m + i
  OBVIOUS
<1> HIDE DEF lo, hi
<1>4. /\ t \in Seq(S) /\ Len(t) = IF lo <= hi THEN hi - lo + 1 ELSE 0
      /\ \A i \in 1..(hi - lo + 1) : t[i] = s[lo + i - 1]
  BY <1>1, <1>2, SubSeqProperties
<1> HIDE DEF t
<1>5. Len(t) = k
  BY <1>1, <1>4
<1>6. \A i \in 1..k : t[i] = s[m + i]
  BY <1>1, <1>3, <1>4
<1>7. t \in [1..k -> S]
  BY <1>4, <1>5
<1> QED BY <1>4, <1>5, <1>6, <1>7 DEF IsPart, t, lo, hi

\* What the kernels and the gates say of a group of N pairs, the first P of them
\* verified at w.
Verified(g, N, P, w, session) ==
    /\ P \in Nat \ {0} /\ N \in Nat \ {0} /\ P <= N /\ w \in Nat
    /\ g \in [1..(2 * N) -> FrameEntries] /\ g \in Seq(FrameEntries) /\ Len(g) = 2 * N
    /\ seq_of(g[1]) = w
    /\ \A i \in 1..N : /\ seq_of(g[2 * i]) = seq_of(g[2 * i - 1])
                       /\ blocks_len(g[2 * i]) <= blocks_len(g[2 * i - 1])
    /\ \A i \in 1..(N - 1) : i # P =>
          seq_of(g[2 * i + 1]) = Add(seq_of(g[2 * i - 1]), blocks_len(g[2 * i - 1]))
    /\ P < N => seq_of(g[2 * P + 1]) = Add(w, sum_blocks(evens(SubSeq(g, 1, 2 * P))))
    /\ \A i \in 1..(2 * N) :
          /\ blocks_len(g[i]) # 0 /\ all_valid(g[i]) /\ g[i].pkt.session = session
          /\ g[i].feed = g[IF i % 2 = 1 THEN 1 ELSE 2].feed

\* What the kernels and the elig bits say of the frames of a verified group.
LEMMA GroupVerified ==
  ASSUME todo \in Seq(FrameEntries), mode \in DOMAIN Drivers, scan.w \in Nat,
         NEW n \in {1, 2}, group_verified(n), NEW N, N = n * driver.pairs
  PROVE  /\ Verified(SubSeq(todo, 1, 2 * N), N, driver.pairs, scan.w, q.session)
         /\ N \in Nat \ {0} /\ 2 * N <= Len(todo)
<1> DEFINE P == driver.pairs
           g == SubSeq(todo, 1, 2 * N)
           A == SubSeq(g, 1, 2 * P)
           B == SubSeq(g, 2 * P + 1, 4 * P)
<1>1. P \in Nat
  BY BatchAssumption DEF driver
<1>2. P > 0 /\ n * 2 * P <= Len(todo)
  BY DEF group_verified
<1>3. (n = 1 /\ N = P) \/ (n = 2 /\ N = 2 * P)
  BY <1>1
<1>4. n * 2 * P = 2 * N /\ N \in Nat \ {0} /\ P \in Nat \ {0} /\ P <= N /\ 2 * N <= Len(todo)
  <2> HIDE DEF P
  <2>1. CASE n = 1 /\ N = P
    BY <1>1, <1>2, <2>1
  <2>2. CASE n = 2 /\ N = 2 * P
    BY <1>1, <1>2, <2>2
  <2> QED BY <1>3, <2>1, <2>2
<1>5. SubSeq(todo, 1, n * 2 * P) = g
  BY <1>4
<1>6. g \in [1..(2 * N) -> FrameEntries] /\ g \in Seq(FrameEntries) /\ Len(g) = 2 * N
  <2>1. 0 \in Nat /\ 2 * N \in Nat /\ 0 + 2 * N <= Len(todo) /\ 0 + 1 = 1 /\ 0 + 2 * N = 2 * N
    <3> DEFINE k == 2 * N
    <3>1. k \in Nat /\ k <= Len(todo)
      BY <1>4
    <3> HIDE DEF k
    <3>2. 0 \in Nat /\ k \in Nat /\ 0 + k <= Len(todo) /\ 0 + 1 = 1 /\ 0 + k = k
      BY <3>1
    <3> QED BY <3>2 DEF k
  <2>2. IsPart(SubSeq(todo, 0 + 1, 0 + 2 * N), FrameEntries, todo, 0, 2 * N)
    BY <2>1, Part
  <2> QED BY <2>1, <2>2 DEF IsPart
<1>7. /\ ladder8(A, scan.w) /\ group_eligible(g)
      /\ n = 2 => ladder8(B, Add(scan.w, sum_blocks(evens(A))))
  BY <1>5 DEF group_verified
<1> HIDE DEF g
<1> HIDE DEF P
<1>8. \A i \in 1..(2 * P) : A[i] = g[i]
  <2>1. /\ 0 \in Nat /\ 2 * P \in Nat /\ 0 + 2 * P <= Len(g) /\ 0 + 1 = 1 /\ 0 + 2 * P = 2 * P
        /\ \A i \in 1..(2 * P) : 0 + i = i
    BY <1>4, <1>6
  <2>2. IsPart(SubSeq(g, 0 + 1, 0 + 2 * P), FrameEntries, g, 0, 2 * P)
    BY <1>6, <2>1, Part
  <2> QED BY <2>1, <2>2 DEF IsPart
<1>9. ASSUME n = 2 PROVE \A i \in 1..(2 * P) : B[i] = g[2 * P + i]
  <2>1. 2 * P \in Nat /\ 2 * P + 2 * P <= Len(g) /\ 2 * P + 2 * P = 4 * P
    BY <1>3, <1>4, <1>6, <1>9
  <2>2. IsPart(SubSeq(g, 2 * P + 1, 2 * P + 2 * P), FrameEntries, g, 2 * P, 2 * P)
    BY <1>6, <2>1, Part
  <2> QED BY <2>1, <2>2 DEF IsPart
<1> HIDE DEF A, B
<1>10. /\ seq_of(A[1]) = scan.w
       /\ \A i \in 1..P : /\ seq_of(A[2 * i]) = seq_of(A[2 * i - 1])
                          /\ blocks_len(A[2 * i]) <= blocks_len(A[2 * i - 1])
       /\ \A i \in 1..(P - 1) :
             seq_of(A[2 * i + 1]) = Add(seq_of(A[2 * i - 1]), blocks_len(A[2 * i - 1]))
  BY <1>7 DEF ladder8, P
<1>11. n = 2 =>
       /\ seq_of(B[1]) = Add(scan.w, sum_blocks(evens(A)))
       /\ \A i \in 1..P : /\ seq_of(B[2 * i]) = seq_of(B[2 * i - 1])
                          /\ blocks_len(B[2 * i]) <= blocks_len(B[2 * i - 1])
       /\ \A i \in 1..(P - 1) :
             seq_of(B[2 * i + 1]) = Add(seq_of(B[2 * i - 1]), blocks_len(B[2 * i - 1]))
  BY <1>7 DEF ladder8, P
<1>12. seq_of(g[1]) = scan.w
  BY <1>4, <1>8, <1>10
<1>13. ASSUME NEW i \in 1..N
       PROVE  /\ seq_of(g[2 * i]) = seq_of(g[2 * i - 1])
              /\ blocks_len(g[2 * i]) <= blocks_len(g[2 * i - 1])
  <2>1. CASE i <= P
    <3>1. i \in 1..P /\ 2 * i \in 1..(2 * P) /\ 2 * i - 1 \in 1..(2 * P)
      BY <1>4, <2>1
    <3>2. A[2 * i] = g[2 * i] /\ A[2 * i - 1] = g[2 * i - 1]
      BY <1>8, <3>1
    <3> QED BY <1>10, <3>1, <3>2
  <2>2. CASE i > P
    <3> DEFINE j == i - P
    <3>1. /\ n = 2 /\ j \in 1..P /\ 2 * j \in 1..(2 * P) /\ 2 * j - 1 \in 1..(2 * P)
          /\ 2 * P + 2 * j = 2 * i /\ 2 * P + (2 * j - 1) = 2 * i - 1
      BY <1>3, <1>4, <2>2
    <3> HIDE DEF j
    <3>2. B[2 * j] = g[2 * i] /\ B[2 * j - 1] = g[2 * i - 1]
      BY <1>9, <3>1
    <3> QED BY <1>11, <3>1, <3>2
  <2> QED BY <1>4, <2>1, <2>2
<1>14. ASSUME NEW i \in 1..(N - 1), i # P
       PROVE  seq_of(g[2 * i + 1]) = Add(seq_of(g[2 * i - 1]), blocks_len(g[2 * i - 1]))
  <2>1. CASE i < P
    <3>1. i \in 1..(P - 1) /\ 2 * i + 1 \in 1..(2 * P) /\ 2 * i - 1 \in 1..(2 * P)
      BY <1>4, <2>1
    <3>2. A[2 * i + 1] = g[2 * i + 1] /\ A[2 * i - 1] = g[2 * i - 1]
      BY <1>8, <3>1
    <3> QED BY <1>10, <3>1, <3>2
  <2>2. CASE i > P
    <3> DEFINE j == i - P
    <3>1. /\ n = 2 /\ j \in 1..(P - 1)
          /\ 2 * j + 1 \in 1..(2 * P) /\ 2 * j - 1 \in 1..(2 * P)
          /\ 2 * P + (2 * j + 1) = 2 * i + 1 /\ 2 * P + (2 * j - 1) = 2 * i - 1
      BY <1>3, <1>4, <2>2
    <3> HIDE DEF j
    <3>2. B[2 * j + 1] = g[2 * i + 1] /\ B[2 * j - 1] = g[2 * i - 1]
      BY <1>9, <3>1
    <3> QED BY <1>11, <3>1, <3>2
  <2> QED BY <1>4, <1>14, <2>1, <2>2
<1>15. P < N => seq_of(g[2 * P + 1]) = Add(scan.w, sum_blocks(evens(A)))
  <2>1. P < N => n = 2 /\ 1 \in 1..(2 * P)
    BY <1>3, <1>4
  <2> QED BY <1>9, <1>11, <2>1
<1>16. ASSUME NEW i \in 1..(2 * N)
       PROVE  /\ blocks_len(g[i]) # 0 /\ all_valid(g[i]) /\ g[i].pkt.session = q.session
              /\ g[i].feed = g[IF i % 2 = 1 THEN 1 ELSE 2].feed
  <2>1. i \in DOMAIN g /\ 1 \in DOMAIN g
    BY <1>4, <1>6
  <2> QED BY <1>7, <2>1 DEF group_eligible, elig_ok
<1>17. Verified(g, N, P, scan.w, q.session)
  BY <1>4, <1>6, <1>12, <1>13, <1>14, <1>15, <1>16 DEF Verified, A
<1> QED BY <1>4, <1>17 DEF g, P

\* Its even entries chain, and with its odd ones they are pairs.
LEMMA VerifiedChain ==
  ASSUME NoWrap, NEW g, NEW N, NEW P, NEW w, NEW r, Verified(g, N, P, w, r.session)
  PROVE  /\ \E T : Chain(evens(g), T, w, N)
         /\ \E U : Sums(U, odds(g), N)
         /\ PairUp(r, g, evens(g), odds(g), N, g[1].feed, g[2].feed)
<1>1. /\ P \in Nat \ {0} /\ N \in Nat \ {0} /\ P <= N /\ w \in Nat
      /\ g \in [1..(2 * N) -> FrameEntries] /\ g \in Seq(FrameEntries) /\ Len(g) = 2 * N
  BY DEF Verified
<1>2. Len(g) \div 2 = N
  BY <1>1
<1> DEFINE A == evens(g)
           D == odds(g)
<1>3. A = [i \in 1..N |-> g[2 * i - 1]] /\ D = [i \in 1..N |-> g[2 * i]]
  BY <1>2 DEF evens, odds
<1> HIDE DEF A, D
<1>4. ASSUME NEW i \in 1..N
      PROVE  /\ 2 * i \in 1..(2 * N) /\ 2 * i - 1 \in 1..(2 * N)
             /\ (2 * i) % 2 = 0 /\ (2 * i - 1) % 2 = 1
             /\ A[i] = g[2 * i - 1] /\ D[i] = g[2 * i]
             /\ A[i] \in FrameEntries /\ D[i] \in FrameEntries
  <2>1. /\ 2 * i \in 1..(2 * N) /\ 2 * i - 1 \in 1..(2 * N)
        /\ (2 * i) % 2 = 0 /\ (2 * i - 1) % 2 = 1
    BY <1>1
  <2> QED BY <1>1, <1>3, <2>1
<1>5. /\ A \in [1..N -> FrameEntries] /\ D \in [1..N -> FrameEntries]
  BY <1>3, <1>4
<1>6. ASSUME NEW i \in 1..N
      PROVE  /\ A[i].feed = g[1].feed /\ D[i].feed = g[2].feed
             /\ blocks_len(A[i]) # 0 /\ all_valid(A[i]) /\ A[i].pkt.session = r.session
             /\ blocks_len(D[i]) # 0 /\ D[i].pkt.session = r.session
             /\ seq_of(D[i]) = seq_of(A[i]) /\ blocks_len(D[i]) <= blocks_len(A[i])
  BY <1>4 DEF Verified
<1>7. g[1].feed \in Feeds /\ g[2].feed \in Feeds
  <2>1. 1 \in 1..N
    BY <1>1
  <2>2. A[1].feed \in Feeds /\ D[1].feed \in Feeds
    BY <2>1, <1>5, EntryTypes
  <2> QED BY <1>6, <2>1, <2>2
<1>8. PairUp(r, g, A, D, N, g[1].feed, g[2].feed)
  BY <1>1, <1>4, <1>5, <1>6, <1>7 DEF PairUp
<1>9. \E U : Sums(U, D, N)
  BY <1>1, <1>5, SumFold
<1>10. A \in [1..N -> Carriers]
  BY <1>5, <1>6 DEF Carriers
<1>11. PICK T : Sums(T, A, N)
  BY <1>1, <1>5, SumFold
<1>12. /\ T \in [0..N -> Nat] /\ T[0] = 0 /\ T[N] = sum_blocks(A)
       /\ \A i \in 1..N : T[i] = T[i - 1] + blocks_len(A[i])
  BY <1>11 DEF Sums
<1>13. P < N => sum_blocks(evens(SubSeq(g, 1, 2 * P))) = T[P]
  <2> DEFINE h == SubSeq(g, 1, 2 * P)
             E == evens(h)
  <2>1. SUFFICES ASSUME P < N PROVE sum_blocks(E) = T[P]
    OBVIOUS
  <2>2. /\ 0 \in Nat /\ 2 * P \in Nat /\ 0 + 2 * P <= Len(g) /\ 0 + 1 = 1 /\ 0 + 2 * P = 2 * P
        /\ \A i \in 1..(2 * P) : 0 + i = i
    BY <1>1
  <2>3. IsPart(SubSeq(g, 0 + 1, 0 + 2 * P), FrameEntries, g, 0, 2 * P)
    BY <1>1, <2>2, Part
  <2>4. Len(h) = 2 * P /\ \A i \in 1..(2 * P) : h[i] = g[i]
    BY <2>2, <2>3 DEF IsPart
  <2> HIDE DEF h
  <2>5. Len(h) \div 2 = P
    BY <1>1, <2>4
  <2>6. E = [i \in 1..P |-> h[2 * i - 1]]
    BY <2>5 DEF evens
  <2> HIDE DEF E
  <2>7. ASSUME NEW i \in 1..P PROVE E[i] = A[i] /\ i \in 1..N
    <3>1. i \in 1..N /\ 2 * i - 1 \in 1..(2 * P)
      BY <1>1
    <3> QED BY <1>4, <2>4, <2>6, <3>1
  <2>8. E \in [1..P -> FrameEntries]
    BY <1>4, <2>6, <2>7
  <2>9. PICK V : Sums(V, E, P)
    BY <1>1, <2>8, SumFold
  <2>10. /\ V \in [0..P -> Nat] /\ V[0] = 0 /\ V[P] = sum_blocks(E)
         /\ \A i \in 1..P : V[i] = V[i - 1] + blocks_len(E[i])
    BY <2>9 DEF Sums
  <2> DEFINE S == {i \in 0..P : V[i] = T[i]}
  <2>11. 0 \in S
    BY <1>1, <1>12, <2>10
  <2>12. ASSUME NEW i \in 1..P, i - 1 \in S PROVE i \in S
    <3>1. V[i - 1] = T[i - 1] /\ i \in 0..P
      BY <2>12
    <3>2. V[i] = V[i - 1] + blocks_len(E[i]) /\ T[i] = T[i - 1] + blocks_len(A[i])
      BY <1>12, <2>7, <2>10
    <3> QED BY <2>7, <3>1, <3>2
  <2>13. 0..P \subseteq S
    <3> HIDE DEF S
    <3> QED BY <1>1, <2>11, <2>12, Climb
  <2>14. P \in 0..P
    BY <1>1
  <2> QED BY <2>10, <2>13, <2>14
<1> DEFINE S == {i \in 0..N : i # 0 => seq_of(A[i]) = w + T[i - 1]}
<1>14. 0 \in S
  BY <1>1
<1>15. ASSUME NEW i \in 1..N, i - 1 \in S PROVE i \in S
  <2>1. i \in 0..N
    BY <1>1
  <2>2. CASE i = 1
    <3>1. 2 * 1 - 1 = 1 /\ w + T[1 - 1] = w
      BY <1>1, <1>12
    <3>2. seq_of(A[i]) = w
      BY <1>4, <2>2, <3>1 DEF Verified
    <3> QED BY <2>1, <2>2, <3>1, <3>2
  <2>3. CASE i # 1
    <3> DEFINE j == i - 1
    <3>1. j \in 1..N /\ j \in 1..(N - 1) /\ j # 0 /\ j + 1 = i /\ 2 * j + 1 = 2 * i - 1
      BY <1>1, <2>3
    <3>2. seq_of(A[j]) = w + T[j - 1]
      BY <1>15, <3>1
    <3> HIDE DEF j
    <3>3. T[j - 1] \in Nat /\ T[j] \in Nat /\ T[j] = T[j - 1] + blocks_len(A[j])
      <4>1. j - 1 \in 0..N /\ j \in 0..N
        BY <1>1, <3>1
      <4> QED BY <1>12, <3>1, <4>1
    <3>4. /\ blocks_len(A[j]) \in Nat
          /\ seq_of(A[j]) + blocks_len(A[j]) <= MaxW /\ MaxW \in Nat /\ MaxW <= U64_MAX
      BY <1>10, <3>1, CarrierSpan
    <3>5. seq_of(A[j]) + blocks_len(A[j]) = w + T[j]
      BY <1>1, <3>2, <3>3, <3>4
    <3>6. Add(seq_of(A[j]), blocks_len(A[j])) = w + T[j] /\ Add(w, T[j]) = w + T[j]
      <4>1. seq_of(A[j]) \in Nat /\ U64_MAX \in Nat
        BY <1>10, <3>1, CarrierSpan, WireAssumption
      <4>2. w + T[j] <= U64_MAX
        BY <1>1, <3>3, <3>4, <3>5, <4>1
      <4> QED BY <1>1, <3>3, <3>4, <3>5, <4>1, <4>2, AddExact
    <3>7. seq_of(A[i]) = w + T[j]
      <4>1. CASE j # P
        <5>1. seq_of(g[2 * j + 1]) = Add(seq_of(g[2 * j - 1]), blocks_len(g[2 * j - 1]))
          BY <3>1, <4>1 DEF Verified
        <5> QED BY <1>4, <3>1, <3>6, <5>1
      <4>2. CASE j = P
        <5>1. P < N
          BY <1>1, <3>1, <4>2
        <5>2. seq_of(g[2 * P + 1]) = Add(w, T[P])
          BY <1>13, <5>1 DEF Verified
        <5> QED BY <1>4, <3>1, <3>6, <4>2, <5>2
      <4> QED BY <4>1, <4>2
    <3>8. i - 1 = j
      BY <3>1
    <3> QED BY <2>1, <3>7, <3>8
  <2> QED BY <2>2, <2>3
<1>16. 0..N \subseteq S
  <2> HIDE DEF S
  <2> QED BY <1>1, <1>14, <1>15, Climb
<1>17. \A i \in 1..N : seq_of(A[i]) = w + T[i - 1]
  BY <1>1, <1>16
<1>18. Chain(A, T, w, N)
  BY <1>1, <1>10, <1>11, <1>17 DEF Chain
<1> QED BY <1>8, <1>9, <1>18 DEF A, D

-----------------------------------------------------------------------------
(* The locals of the scan *)

\* the locals with W, the buffer and the counters of another point of the scan
Scan(w, buf, progressed, c) == [w |-> w, buf |-> buf, progressed |-> progressed, cnt |-> c]

\* The locals of the scan, as a record.
LEMMA ScanIs ==
  ASSUME NEW s \in ScanStates
  PROVE  /\ s = Scan(s.w, s.buf, s.progressed, s.cnt)
         /\ s.w \in Nat /\ s.buf \in Seq(Spans) /\ s.progressed \in BOOLEAN /\ s.cnt \in Counters
         /\ \A c \in Counters : Scan(s.w, s.buf, s.progressed, c) \in ScanStates
  BY DEF ScanStates, Scan

\* StepDup leaves W and buffer, and adds the counts of a duplicate.
LEMMA ScanDup ==
  ASSUME NEW s \in ScanStates, NEW f \in Feeds, NEW n \in Nat
  PROVE  [s EXCEPT !.cnt.packets[f] = @ + 1, !.cnt.dups[f] = @ + 1, !.cnt.dup_msgs = @ + n]
           = Scan(s.w, s.buf, s.progressed, plus(s.cnt, Again(f, n)))
<1> DEFINE c == s.cnt
           c1 == CountFresh(c, f)
           c2 == [c1 EXCEPT !.dups[f] = c.dups[f] + 1]
           c3 == [c2 EXCEPT !.dup_msgs = c.dup_msgs + n]
           s1 == [s EXCEPT !.cnt.packets[f] = s.cnt.packets[f] + 1]
           s2 == [s1 EXCEPT !.cnt.dups[f] = s.cnt.dups[f] + 1]
           s3 == [s2 EXCEPT !.cnt.dup_msgs = s.cnt.dup_msgs + n]
<1>1. s = Scan(s.w, s.buf, s.progressed, c) /\ c \in Counters
  BY ScanIs
<1>2. [s EXCEPT !.cnt.packets[f] = @ + 1, !.cnt.dups[f] = @ + 1, !.cnt.dup_msgs = @ + n] = s3
  OBVIOUS
<1>3. s1 = [s EXCEPT !.cnt = c1]
  BY DEF CountFresh
<1>4. s2 = [s1 EXCEPT !.cnt = [s1.cnt EXCEPT !.dups[f] = c.dups[f] + 1]]
  OBVIOUS
<1>5. s3 = [s2 EXCEPT !.cnt = [s2.cnt EXCEPT !.dup_msgs = c.dup_msgs + n]]
  OBVIOUS
<1>6. CountAgain(c, f, n) = c3
  <2>1. c1.dups = c.dups /\ c1.dup_msgs = c.dup_msgs
    BY <1>1 DEF Counters, CountFresh
  <2> HIDE DEF c1, c
  <2>2. CountAgain(c, f, n) = [c1 EXCEPT !.dups[f] = @ + 1, !.dup_msgs = @ + n]
    BY DEF CountAgain, c1
  <2> QED BY <2>1, <2>2
<1> HIDE DEF c, c1, s1, s2, s3
<1>7. s1 = Scan(s.w, s.buf, s.progressed, c1) /\ s1.cnt = c1
  BY <1>1, <1>3 DEF Scan
<1>8. s2 = Scan(s.w, s.buf, s.progressed, c2) /\ s2.cnt = c2
  <2> HIDE DEF c2
  <2>1. [s1.cnt EXCEPT !.dups[f] = c.dups[f] + 1] = c2
    BY <1>7 DEF c2
  <2> QED BY <1>4, <1>7, <2>1 DEF Scan
<1> HIDE DEF c2
<1>9. s3 = Scan(s.w, s.buf, s.progressed, c3)
  <2> HIDE DEF c3
  <2>1. [s2.cnt EXCEPT !.dup_msgs = c.dup_msgs + n] = c3
    BY <1>8 DEF c3
  <2> QED BY <1>5, <1>8, <2>1 DEF Scan
<1>10. CountAgain(c, f, n) = plus(c, Again(f, n))
  BY <1>1, CounterSums
<1> QED BY <1>2, <1>6, <1>9, <1>10 DEF c

All(s, w, buf, p, c) == [s EXCEPT !.w = w, !.buf = buf, !.progressed = p, !.cnt = c]

\* All fields of the locals at once.
LEMMA ScanAll ==
  ASSUME NEW s \in ScanStates, NEW w, NEW buf, NEW p, NEW c
  PROVE  All(s, w, buf, p, c) = Scan(w, buf, p, c)
<1> DEFINE s1 == [s EXCEPT !.w = w]
           s2 == [s1 EXCEPT !.buf = buf]
           s3 == [s2 EXCEPT !.progressed = p]
           s4 == [s3 EXCEPT !.cnt = c]
           old == s.progressed
<1>1. All(s, w, buf, p, c) = s4
  BY DEF All
<1>2. s = Scan(s.w, s.buf, old, s.cnt)
  BY ScanIs
<1> HIDE DEF old
<1>3. s1 = Scan(w, s.buf, old, s.cnt)
  BY <1>2 DEF Scan
<1> HIDE DEF s1
<1>4. s2 = Scan(w, buf, old, s.cnt)
  BY <1>3 DEF Scan
<1> HIDE DEF s2
<1>5. s3 = Scan(w, buf, p, s.cnt)
  BY <1>4 DEF Scan
<1> HIDE DEF s3
<1>6. s4 = Scan(w, buf, p, c)
  BY <1>5 DEF Scan
<1> QED BY <1>1, <1>6

\* StepAdvance adds the counts of a first copy.
LEMMA ScanFresh ==
  ASSUME NEW s \in ScanStates, NEW f \in Feeds, NEW w, NEW buf, NEW p
  PROVE  [s EXCEPT !.w = w, !.buf = buf, !.progressed = p, !.cnt.packets[f] = @ + 1]
           = Scan(w, buf, p, plus(s.cnt, Fresh(f)))
<1> DEFINE c == s.cnt
           c1 == CountFresh(c, f)
           s1 == [s EXCEPT !.w = w, !.buf = buf, !.progressed = p]
<1>1. s = Scan(s.w, s.buf, s.progressed, c) /\ c \in Counters
  BY ScanIs
<1>2. [s EXCEPT !.w = w, !.buf = buf, !.progressed = p, !.cnt.packets[f] = @ + 1]
        = [s1 EXCEPT !.cnt.packets[f] = s.cnt.packets[f] + 1]
  OBVIOUS
<1>3. [s1 EXCEPT !.cnt.packets[f] = s.cnt.packets[f] + 1]
        = [s1 EXCEPT !.cnt = [s1.cnt EXCEPT !.packets[f] = c.packets[f] + 1]]
  OBVIOUS
<1>4. c1 = [c EXCEPT !.packets[f] = c.packets[f] + 1]
  BY DEF CountFresh
<1> HIDE DEF c, c1
<1>5. s1.cnt = c
  BY <1>1 DEF Scan
<1>6. [s1 EXCEPT !.cnt = c1] = Scan(w, buf, p, c1)
  <2>1. [s1 EXCEPT !.cnt = c1] = All(s, w, buf, p, c1)
    BY DEF All
  <2> HIDE DEF s1
  <2> QED BY <2>1, ScanAll
<1> HIDE DEF s1
<1>7. c1 = plus(c, Fresh(f))
  BY <1>1, CounterSums DEF c1
<1> QED BY <1>2, <1>3, <1>4, <1>5, <1>6, <1>7 DEF c

\* StepGroup adds the counts of its pairs.
LEMMA ScanGroup ==
  ASSUME NEW s \in ScanStates, NEW d, NEW w, NEW buf, NEW p
  PROVE  [s EXCEPT !.w = w, !.buf = buf, !.progressed = p, !.cnt = plus(@, d)]
           = Scan(w, buf, p, plus(s.cnt, d))
<1> DEFINE c == plus(s.cnt, d)
<1>1. [s EXCEPT !.w = w, !.buf = buf, !.progressed = p, !.cnt = plus(@, d)]
        = All(s, w, buf, p, c)
  BY DEF All
<1> QED BY <1>1, ScanAll

-----------------------------------------------------------------------------
(* The drivers *)

\* what the sequencer and its counters would be if the scan were left now
View == IF phase = "scan" THEN Commit(q, scan) ELSE q

CntView == plus(cnt, scan.cnt)

\* The inductive invariant: what is held back is consecutive and ends at the scan's
\* W, the sequencer under a scan is steady, and what would be committed is a state
\* the sequencer's own invariants hold of.
BatchInv ==
    /\ todo \in Seq(FrameEntries) /\ mode \in DOMAIN Drivers
    /\ cnt \in Counters /\ scan \in ScanStates /\ q \in SequencerStates
    /\ View \in Sequencers
    /\ phase # "scan" => scan = NewScan(0)
    /\ phase = "scan" =>
          /\ steady_ready(q) /\ Held(scan.buf, scan.w)
          /\ Drivers[mode].emit = "msgs" => scan.buf = <<>>

\* what a step can do to the view
Stays == todo' = todo /\ View' = View /\ CntView' = CntView

Delivered(e) ==
    /\ Len(todo) < MaxFrames
    /\ todo' = Append(todo, e) /\ View' = View /\ CntView' = CntView

Took(k) ==
    /\ View' = Reference!one_by_one(View, CntView, SubSeq(todo, 1, k)).q
    /\ CntView' = Reference!one_by_one(View, CntView, SubSeq(todo, 1, k)).cnt
    /\ todo' = SubSeq(todo, k + 1, Len(todo))

Quiet ==
    /\ todo = <<>> /\ todo' = todo /\ CntView' = CntView
    /\ View' = tick(View) \/ (intent_due(View) /\ View' = check_recovery_intent(View))

Observed ==
    \/ Stays
    \/ \E e \in Frames : Delivered(e)
    \/ \E k \in 1..Len(todo) : Took(k)
    \/ Quiet

\* What the scan leaves is the view.
LEMMA SeenIs ==
  ASSUME BatchInv
  PROVE  Seen = View
  BY CommittedIs DEF BatchInv, Seen, View

\* What the invariant says of the view.
LEMMA ViewFacts ==
  ASSUME BatchInv
  PROVE  /\ View \in Sequencers /\ View \in SequencerStates /\ Core(View) /\ Gap(View)
         /\ (NoBadPrefix => Order(View))
         /\ CntView \in Counters /\ cnt \in Counters /\ scan.cnt \in Counters
         /\ scan.w \in Nat
         /\ phase = "scan" =>
               /\ View = Commit(q, scan) /\ View.w = scan.w /\ View.session = q.session
               /\ View.gen = q.gen /\ steady_ready(View)
               /\ View.sink = OneSpan(q.sink, q.gen, scan.buf, scan.w)
<1>1. View \in Sequencers /\ cnt \in Counters /\ scan \in ScanStates /\ q \in SequencerStates
  BY DEF BatchInv
<1>2. scan.w \in Nat /\ scan.cnt \in Counters
  BY <1>1, ScanIs
<1>3. CntView \in Counters
  BY <1>1, <1>2, PlusTypes DEF CntView
<1>4. phase = "scan" => View = Commit(q, scan) /\ steady_ready(q)
  BY DEF BatchInv, View
<1>5. phase = "scan" =>
         /\ View.w = scan.w /\ View.session = q.session
         /\ View.gen = q.gen /\ steady_ready(View)
         /\ View.sink = OneSpan(q.sink, q.gen, scan.buf, scan.w)
  BY <1>1, <1>4, CommitFacts
<1> QED BY <1>1, <1>2, <1>3, <1>4, <1>5 DEF Sequencers

\* One frame through the reference.
LEMMA OneFrame ==
  ASSUME NoWrap, NEW r \in Sequencers, NEW c \in Counters,
         NEW t \in Seq(FrameEntries), t # <<>>
  PROVE  /\ Reference!one_by_one(r, c, SubSeq(t, 1, 1))
              = [q |-> ingest(r, t[1].pkt), cnt |-> count_frame(c, r, t[1])]
         /\ 1 \in 1..Len(t) /\ t[1] \in FrameEntries
         /\ Tail(t) = SubSeq(t, 1 + 1, Len(t)) /\ Tail(t) \in Seq(FrameEntries)
<1>1. 1 \in 1..Len(t) /\ t[1] \in FrameEntries /\ Tail(t) \in Seq(FrameEntries)
  OBVIOUS
<1>2. Tail(t) = SubSeq(t, 1 + 1, Len(t))
  <2>1. Tail(t) = SubSeq(t, 2, Len(t))
    BY TailIsSubSeq
  <2>2. 2 = 1 + 1
    OBVIOUS
  <2> QED BY <2>1, <2>2
<1>3. IsPart(SubSeq(t, 0 + 1, 0 + 1), FrameEntries, t, 0, 1)
  <2>1. 0 + 1 <= Len(t)
    BY <1>1
  <2> QED BY <2>1, Part
<1> DEFINE es == SubSeq(t, 1, 1)
           s == [q |-> r, cnt |-> c]
<1>4. es \in [1..1 -> FrameEntries] /\ es[1] = t[1]
  <2>1. 0 + 1 = 1
    OBVIOUS
  <2> QED BY <1>3, <2>1 DEF IsPart
<1> HIDE DEF es
<1>5. s \in Points /\ s.q = r /\ s.cnt = c
  BY DEF Points
<1> HIDE DEF s
<1>6. PICK f : StepRun(f, s, es, 1)
  BY <1>4, <1>5, OneByOne
<1>7. f[1] = step(s, es[1])
  BY <1>6 DEF StepRun
<1>8. f[1] = Reference!one_by_one(r, c, es)
  BY <1>5, <1>6 DEF StepRun
<1>9. step(s, es[1]) = [q |-> ingest(r, t[1].pkt), cnt |-> count_frame(c, r, t[1])]
  BY <1>4, <1>5 DEF step
<1> QED BY <1>1, <1>2, <1>7, <1>8, <1>9 DEF es

\* A step that applies the first frame to the view is a Take of the reference.
LEMMA TakeOne ==
  ASSUME NoWrap, BatchInv, todo # <<>>, todo' = Tail(todo),
         View' = ingest(View, todo[1].pkt), CntView' = count_frame(CntView, View, todo[1])
  PROVE  /\ \E k \in 1..Len(todo) : Took(k)
         /\ todo' \in Seq(FrameEntries) /\ View' \in Sequencers /\ todo[1] \in FrameEntries
<1>1. View \in Sequencers /\ CntView \in Counters /\ todo \in Seq(FrameEntries)
  BY ViewFacts DEF BatchInv
<1>2. /\ Reference!one_by_one(View, CntView, SubSeq(todo, 1, 1))
              = [q |-> View', cnt |-> CntView']
      /\ 1 \in 1..Len(todo) /\ todo[1] \in FrameEntries
      /\ todo' = SubSeq(todo, 1 + 1, Len(todo)) /\ todo' \in Seq(FrameEntries)
  BY <1>1, OneFrame
<1>3. Took(1)
  BY <1>2 DEF Took
<1>4. View' \in Sequencers
  BY <1>1, <1>2, EntryTypes, IngestType
<1> QED BY <1>2, <1>3, <1>4

\* The invariant of a state outside the scan.
LEMMA OutsideScan ==
  ASSUME todo' \in Seq(FrameEntries), mode' \in DOMAIN Drivers, cnt' \in Counters,
         q' \in Sequencers, phase' # "scan", scan' = NewScan(0)
  PROVE  BatchInv' /\ View' = q' /\ CntView' = cnt'
<1>1. NewScan(0) \in ScanStates /\ NewScan(0).cnt = NewCounters
  <2>1. NewCounters \in Counters
    BY PlusNothing
  <2> QED BY <2>1 DEF ScanStates, NewScan
<1>2. View' = q'
  BY DEF View
<1>3. CntView' = plus(cnt', NewCounters)
  BY <1>1 DEF CntView
<1>4. CntView' = cnt'
  BY <1>3, PlusNothing
<1> QED BY <1>1, <1>2, <1>4 DEF BatchInv, Sequencers

\* A poll brings a frame: nothing of the view moves.
LEMMA FillStep ==
  ASSUME BatchInv, Fill
  PROVE  BatchInv' /\ \E e \in Frames : Delivered(e)
<1>1. PICK e \in driver.frames : Deliver(e)
  BY DEF Fill
<1>2. e \in Frames /\ e \in FrameEntries
  BY <1>1, BatchAssumption, FramesAssumption DEF BatchInv, driver
<1>3. /\ Len(todo) < MaxFrames /\ todo' = Append(todo, e) /\ q' = q /\ cnt' = cnt
      /\ phase' = phase /\ scan' = scan /\ mode' = mode
  BY <1>1 DEF Fill, Deliver
<1>4. View' = View /\ CntView' = CntView
  BY <1>3 DEF View, CntView
<1>5. todo' \in Seq(FrameEntries)
  BY <1>2, <1>3 DEF BatchInv
<1>6. BatchInv'
  BY <1>3, <1>4, <1>5 DEF BatchInv
<1> QED BY <1>2, <1>3, <1>4, <1>6 DEF Delivered

\* Nor when a driver starts or is done with its batch.
LEMMA PhaseStep ==
  ASSUME BatchInv, Start \/ Done
  PROVE  BatchInv' /\ Stays
<1>1. /\ phase # "scan" /\ phase' # "scan"
      /\ q' = q /\ todo' = todo /\ cnt' = cnt /\ scan' = scan /\ mode' = mode
  BY DEF Start, Done
<1>2. View' = View /\ CntView' = CntView
  BY <1>1 DEF View, CntView
<1> QED BY <1>1, <1>2 DEF BatchInv, Stays

\* Between batches the clock and the recovery intent are those of the reference.
LEMMA BetweenStep ==
  ASSUME NoWrap, BatchInv, Between
  PROVE  BatchInv' /\ Quiet
<1>1. /\ phase # "scan" /\ phase' = phase /\ scan' = scan /\ mode' = mode
      /\ todo = <<>> /\ todo' = todo /\ cnt' = cnt
      /\ q' = tick(q) \/ (intent_due(q) /\ q' = check_recovery_intent(q))
  BY DEF Between, Idle
<1>2. View = q /\ View' = q' /\ CntView' = CntView
  BY <1>1 DEF View, CntView
<1>3. Core(q) /\ Gap(q) /\ (NoBadPrefix => Order(q))
  BY <1>2, ViewFacts
<1>4. Core(q')
  BY <1>1, <1>3, TickCore, IntentCore
<1>5. Gap(q') /\ (Order(q) => Order(q'))
  BY <1>1, <1>3, QuietGap
<1>6. q' \in Sequencers
  BY <1>3, <1>4, <1>5 DEF Sequencers, Core, Bounded
<1>7. BatchInv'
  BY <1>1, <1>2, <1>6 DEF BatchInv, Sequencers
<1> QED BY <1>1, <1>2, <1>7 DEF Quiet

\* Entering the scan takes copies and moves nothing.
LEMMA EnterStep ==
  ASSUME BatchInv, Enter
  PROVE  BatchInv' /\ Stays
<1>1. /\ phase = "ingest" /\ steady_ready(q) /\ phase' = "scan" /\ scan' = NewScan(q.w)
      /\ q' = q /\ todo' = todo /\ cnt' = cnt /\ mode' = mode
  BY DEF Enter
<1>2. q \in SequencerStates /\ scan = NewScan(0) /\ View = q
  BY <1>1 DEF BatchInv, View
<1>3. View' = q
  BY <1>1, <1>2, CommitNothing DEF View
<1>4. /\ scan.cnt = NewCounters /\ scan'.cnt = NewCounters /\ scan'.buf = <<>>
      /\ scan' \in ScanStates
  <2>1. q.w \in Nat /\ NewCounters \in Counters
    BY <1>2, PlusNothing, WireAssumption DEF SequencerStates, U64
  <2> QED BY <1>1, <1>2, <2>1 DEF NewScan, ScanStates
<1>5. CntView' = CntView
  BY <1>1, <1>4 DEF CntView
<1>6. Held(scan'.buf, scan'.w)
  BY <1>4 DEF Held
<1>7. BatchInv'
  BY <1>1, <1>2, <1>3, <1>4, <1>6 DEF BatchInv
<1> QED BY <1>1, <1>2, <1>3, <1>5, <1>7 DEF Stays

\* A frame outside the scan: ingest_auto is ingest.
LEMMA NotSteadyStep ==
  ASSUME NoWrap, BatchInv, NotSteady
  PROVE  BatchInv' /\ \E k \in 1..Len(todo) : Took(k)
<1>1. /\ phase = "ingest" /\ todo # <<>> /\ q' = ingest_auto(q, todo[1])
      /\ cnt' = count_frame(cnt, q, todo[1]) /\ todo' = Tail(todo)
      /\ phase' = phase /\ scan' = scan /\ mode' = mode
  BY DEF NotSteady
<1>2. View = q /\ View' = q' /\ scan = NewScan(0)
  BY <1>1 DEF BatchInv, View
<1>3. todo[1] \in FrameEntries /\ q \in Sequencers /\ cnt \in Counters
  BY <1>1, <1>2, ViewFacts DEF BatchInv
<1>4. q' = ingest(q, todo[1].pkt)
  BY <1>1, <1>3, AutoIngest
<1>5. q' \in Sequencers
  BY <1>3, <1>4, EntryTypes, IngestType
<1>6. cnt' \in Counters
  BY <1>1, <1>3, CountType DEF Sequencers
<1>7. todo' \in Seq(FrameEntries)
  BY <1>1 DEF BatchInv
<1>8. BatchInv' /\ CntView' = cnt'
  BY <1>1, <1>2, <1>5, <1>6, <1>7, OutsideScan DEF BatchInv
<1>9. CntView = cnt
  <2>1. scan.cnt = NewCounters
    BY <1>2 DEF NewScan
  <2> QED BY <1>3, <2>1, PlusNothing DEF CntView
<1>10. View' = ingest(View, todo[1].pkt) /\ CntView' = count_frame(CntView, View, todo[1])
  BY <1>1, <1>2, <1>4, <1>8, <1>9
<1> QED BY <1>1, <1>8, <1>10, TakeOne

\* A frame the scan does not cover: commit, then ingest_auto.
LEMMA StepColdStep ==
  ASSUME NoWrap, BatchInv, StepCold
  PROVE  BatchInv' /\ \E k \in 1..Len(todo) : Took(k)
<1>1. /\ phase = "scan" /\ todo # <<>> /\ q' = ingest_auto(committed, todo[1])
      /\ cnt' = count_frame(plus(cnt, scan.cnt), committed, todo[1]) /\ todo' = Tail(todo)
      /\ phase' = "ingest" /\ scan' = NewScan(0) /\ mode' = mode
  BY DEF StepCold
<1>2. committed = View /\ plus(cnt, scan.cnt) = CntView
  BY <1>1, SeenIs DEF Seen, CntView
<1>3. todo[1] \in FrameEntries /\ View \in Sequencers /\ CntView \in Counters
  BY <1>1, ViewFacts DEF BatchInv
<1>4. q' = ingest(View, todo[1].pkt)
  BY <1>1, <1>2, <1>3, AutoIngest
<1>5. q' \in Sequencers
  BY <1>3, <1>4, EntryTypes, IngestType
<1>6. cnt' = count_frame(CntView, View, todo[1])
  BY <1>1, <1>2
<1>7. cnt' \in Counters
  BY <1>3, <1>6, CountType DEF Sequencers
<1>8. todo' \in Seq(FrameEntries)
  BY <1>1 DEF BatchInv
<1>9. BatchInv' /\ View' = q' /\ CntView' = cnt'
  BY <1>1, <1>5, <1>7, <1>8, OutsideScan DEF BatchInv
<1> QED BY <1>1, <1>4, <1>6, <1>9, TakeOne

\* Leaving the scan commits what the view already shows.
LEMMA ScanEndStep ==
  ASSUME BatchInv, ScanEnd
  PROVE  BatchInv' /\ Stays
<1>1. /\ phase = "scan" /\ q' = committed /\ cnt' = plus(cnt, scan.cnt) /\ todo' = todo
      /\ phase' = "ingest" /\ scan' = NewScan(0) /\ mode' = mode
  BY DEF ScanEnd
<1>2. committed = View /\ cnt' = CntView
  BY <1>1, SeenIs DEF Seen, CntView
<1>3. View \in Sequencers /\ CntView \in Counters
  BY ViewFacts
<1>4. BatchInv' /\ View' = q' /\ CntView' = cnt'
  BY <1>1, <1>2, <1>3, OutsideScan DEF BatchInv
<1> QED BY <1>1, <1>2, <1>4 DEF Stays

\* A duplicate in the scan is a Take of one frame.
LEMMA StepDupStep ==
  ASSUME NoWrap, BatchInv, StepDup
  PROVE  BatchInv' /\ \E k \in 1..Len(todo) : Took(k)
<1> DEFINE e == todo[1]
           d == Again(e.feed, blocks_len(e))
<1>1. /\ phase = "scan" /\ todo # <<>> /\ step_dup(e)
      /\ scan' = [scan EXCEPT !.cnt.packets[e.feed] = @ + 1,
                              !.cnt.dups[e.feed] = @ + 1,
                              !.cnt.dup_msgs = @ + blocks_len(e)]
      /\ todo' = Tail(todo) /\ q' = q /\ cnt' = cnt /\ phase' = phase /\ mode' = mode
  BY DEF StepDup
<1>2. /\ e \in FrameEntries /\ scan \in ScanStates /\ scan.cnt \in Counters
      /\ View \in Sequencers /\ CntView \in Counters /\ cnt \in Counters
  BY <1>1, ViewFacts DEF BatchInv
<1>3. e.feed \in Feeds /\ blocks_len(e) \in Nat
  BY <1>2, EntryTypes DEF blocks_len
<1>4. scan' = Scan(scan.w, scan.buf, scan.progressed, plus(scan.cnt, d))
  BY <1>1, <1>2, <1>3, ScanDup
<1>5. d \in Counters
  BY <1>2, <1>3, CounterSums
<1>6. Steady(View, e) /\ span_last(e.pkt) < View.w
  <2>1. blocks_len(e) # 0 /\ e.pkt.session = q.session /\ last_of(e) < scan.w
    BY <1>1 DEF step_dup, step_covers
  <2>2. View.w = scan.w /\ View.session = q.session /\ steady_ready(View)
    BY <1>1, ViewFacts
  <2>3. last_of(e) = span_last(e.pkt)
    BY <2>1 DEF last_of, seq_of, blocks_len, span_last
  <2> QED BY <1>2, <2>1, <2>2, <2>3 DEF Steady
<1>7. ingest(View, e.pkt) = View /\ count_frame(CntView, View, e) = plus(CntView, d)
  BY <1>2, <1>6, SteadyDup
<1> HIDE DEF d
<1>8. plus(scan.cnt, d) \in Counters
  BY <1>2, <1>5, PlusTypes
<1>9. /\ scan'.w = scan.w /\ scan'.buf = scan.buf /\ scan'.progressed = scan.progressed
      /\ scan'.cnt = plus(scan.cnt, d)
  BY <1>4 DEF Scan
<1>10. scan' \in ScanStates
  BY <1>2, <1>4, <1>8, ScanIs
<1>11. View' = View
  <2>1. View = Commit(q, scan) /\ View' = Commit(q, scan')
    BY <1>1 DEF View
  <2> QED BY <1>9, <2>1, CommitSame
<1>12. CntView' = plus(CntView, d)
  <2>1. CntView = plus(cnt, scan.cnt) /\ CntView' = plus(cnt, plus(scan.cnt, d))
    BY <1>1, <1>9 DEF CntView
  <2>2. plus(plus(cnt, scan.cnt), d) = plus(cnt, plus(scan.cnt, d))
    BY <1>2, <1>5, PlusAssociates
  <2> QED BY <2>1, <2>2
<1>13. /\ \E k \in 1..Len(todo) : Took(k)
       /\ todo' \in Seq(FrameEntries)
  BY <1>1, <1>7, <1>11, <1>12, TakeOne
<1>14. BatchInv'
  BY <1>1, <1>2, <1>9, <1>10, <1>11, <1>13 DEF BatchInv
<1> QED BY <1>13, <1>14

\* The scan emits a chain of entries and counts them as d.
LEMMA ScanMoves ==
  ASSUME NoWrap, BatchInv, phase = "scan", NEW es, NEW T, NEW n, Chain(es, T, scan.w, n),
         NEW d \in Counters, NEW p, p = TRUE,
         q' = [q EXCEPT !.sink = emit_all(es).sink],
         scan' = Scan(scan.w + T[n], emit_all(es).buf, p, plus(scan.cnt, d)),
         cnt' = cnt, phase' = phase, mode' = mode,
         todo' \in Seq(FrameEntries), moved(View, T[n]) \in Sequencers
  PROVE  BatchInv' /\ View' = moved(View, T[n]) /\ CntView' = plus(CntView, d)
<1> DEFINE s == [sink |-> q.sink, buf |-> scan.buf]
           out == emit_all(es)
           x == scan.w + T[n]
           c == plus(scan.cnt, d)
<1>1. /\ q \in SequencerStates /\ scan \in ScanStates /\ steady_ready(q)
      /\ Held(scan.buf, scan.w) /\ (Drivers[mode].emit = "msgs" => scan.buf = <<>>)
      /\ cnt \in Counters /\ mode \in DOMAIN Drivers
  BY DEF BatchInv
<1>2. q.sink \in SinkStates /\ q.gen \in Nat /\ scan.buf \in Seq(Spans) /\ scan.w \in Nat
  BY <1>1, ScanIs, WireAssumption DEF SequencerStates
<1>3. scan.cnt \in Counters /\ c \in Counters
  BY <1>1, ScanIs, PlusTypes
<1>4. s \in Buffers /\ s.sink = q.sink /\ s.buf = scan.buf
  BY <1>2 DEF Buffers
<1>5. out = FoldLeft(emit, s, es)
  BY DEF emit_all
<1> HIDE DEF s, out
<1>6. Emitting(s, scan.w)
  BY <1>1, <1>4 DEF Emitting, driver
<1>7. n \in 1..n /\ T[n] \in Nat /\ x \in Nat
  <2>1. n \in 1..n
    BY DEF Chain
  <2> QED BY <2>1, ChainFacts
<1> HIDE DEF x
<1>8. /\ Emitting(out, x)
      /\ OneSpan(out.sink, q.gen, out.buf, x)
            = Upto(OneSpan(q.sink, q.gen, scan.buf, scan.w), q.gen, scan.w, x)
  BY <1>2, <1>4, <1>5, <1>6, EmitAll DEF x
<1>9. out.sink \in SinkStates /\ out.buf \in Seq(Spans) /\ Held(out.buf, x)
      /\ (Drivers[mode].emit = "msgs" => out.buf = <<>>)
  BY <1>8 DEF Emitting, Buffers, driver
<1>10. /\ scan'.w = x /\ scan'.buf = out.buf /\ scan'.cnt = c /\ scan'.progressed = p
  BY DEF Scan, out, x
<1>11. scan' \in ScanStates
  <2>1. p \in BOOLEAN
    OBVIOUS
  <2>2. scan' = Scan(x, out.buf, p, c)
    BY DEF out, x
  <2> HIDE DEF c
  <2> QED BY <1>3, <1>7, <1>9, <2>1, <2>2 DEF Scan, ScanStates
<1> HIDE DEF c
<1>12. q' = [q EXCEPT !.sink = out.sink]
  BY DEF out
<1>13. q' \in SequencerStates /\ steady_ready(q')
  BY <1>1, <1>9, <1>12 DEF SequencerStates, steady_ready
<1>14. View = Commit(q, scan) /\ View' = Commit(q', scan')
  BY DEF View
<1>15. Commit(q', scan') = moved(Commit(q, scan), T[n])
  <2>1. scan'.w = scan.w + T[n] /\ scan'.progressed
    BY <1>10 DEF x
  <2>2. OneSpan(out.sink, q.gen, scan'.buf, scan'.w)
           = Upto(OneSpan(q.sink, q.gen, scan.buf, scan.w), q.gen, scan.w, scan'.w)
    BY <1>8, <1>10
  <2>3. Emission(q, scan, q', scan', out.sink, T[n])
    BY <1>1, <1>2, <1>7, <1>12, <2>1, <2>2 DEF Emission
  <2> DEFINE r1 == q'
             t == scan'
             k == out.sink
             m == T[n]
  <2>4. Emission(q, scan, r1, t, k, m)
    BY <2>3
  <2> HIDE DEF r1, t, k, m
  <2>5. Commit(r1, t) = moved(Commit(q, scan), m)
    BY <2>4, CommitMoved
  <2> QED BY <2>5 DEF r1, t, m
<1>16. View' = moved(View, T[n])
  BY <1>14, <1>15
<1>17. CntView' = plus(CntView, d)
  <2>1. CntView' = plus(cnt, plus(scan.cnt, d))
    BY <1>10 DEF CntView, c
  <2> QED BY <1>1, <1>3, <2>1, PlusAssociates DEF CntView
<1>18. BatchInv'
  BY <1>1, <1>9, <1>10, <1>11, <1>13, <1>16 DEF BatchInv
<1> QED BY <1>16, <1>17, <1>18

\* A frame at W in the scan is a Take of one frame.
LEMMA StepAdvanceStep ==
  ASSUME NoWrap, BatchInv, StepAdvance
  PROVE  BatchInv' /\ \E k \in 1..Len(todo) : Took(k)
<1> DEFINE e == todo[1]
           es == <<e>>
           d == Fresh(e.feed)
           out == emit_all(es)
<1>1. /\ phase = "scan" /\ todo # <<>> /\ step_advances(e)
      /\ q' = [q EXCEPT !.sink = out.sink]
      /\ scan' = [scan EXCEPT !.w = Add(last_of(e), 1), !.buf = out.buf, !.progressed = TRUE,
                              !.cnt.packets[e.feed] = @ + 1]
      /\ todo' = Tail(todo) /\ cnt' = cnt /\ phase' = phase /\ mode' = mode
  BY DEF StepAdvance
<1>2. /\ e \in FrameEntries /\ scan \in ScanStates /\ scan.cnt \in Counters /\ scan.w \in Nat
      /\ View \in Sequencers /\ CntView \in Counters /\ todo' \in Seq(FrameEntries)
  BY <1>1, ViewFacts DEF BatchInv
<1>3. /\ blocks_len(e) # 0 /\ e.pkt.session = q.session /\ seq_of(e) = scan.w /\ all_valid(e)
  BY <1>1 DEF step_advances, step_covers
<1>4. e \in Carriers /\ e.feed \in Feeds
  BY <1>2, <1>3, EntryTypes DEF Carriers
<1>5. es \in [1..1 -> FrameEntries] /\ es \in [1..1 -> Carriers] /\ es[1] = e
  BY <1>2, <1>4
<1> HIDE DEF es, out, e
<1>6. PICK T : Sums(T, es, 1)
  BY <1>5, SumFold
<1>7. T[0] = 0 /\ T[1] = T[0] + blocks_len(e) /\ blocks_len(e) \in Nat
  <2>1. 1 - 1 = 0 /\ 1 \in 1..1
    OBVIOUS
  <2> QED BY <1>4, <1>5, <1>6, <2>1, CarrierSpan DEF Sums
<1>8. T[1] = blocks_len(e)
  BY <1>7
<1>9. Chain(es, T, scan.w, 1)
  <2>1. ASSUME NEW i \in 1..1 PROVE seq_of(es[i]) = scan.w + T[i - 1]
    <3>1. i = 1 /\ i - 1 = 0
      OBVIOUS
    <3>2. scan.w + 0 = scan.w
      BY <1>2
    <3> QED BY <1>3, <1>5, <1>7, <3>1, <3>2
  <2>2. 1 \in Nat \ {0}
    OBVIOUS
  <2> QED BY <1>2, <1>5, <1>6, <2>1, <2>2 DEF Chain
<1>10. Add(last_of(e), 1) = scan.w + T[1]
  <2>1. /\ seq_of(e) + blocks_len(e) <= MaxW /\ MaxW \in Nat /\ MaxW <= U64_MAX
        /\ blocks_len(e) \in Nat /\ blocks_len(e) # 0
    BY <1>4, CarrierSpan
  <2>2. /\ last_of(e) \in Nat /\ last_of(e) + 1 = scan.w + T[1] /\ last_of(e) + 1 <= U64_MAX
    <3> DEFINE first == seq_of(e)
               m == blocks_len(e)
    <3>1. first = scan.w /\ first \in Nat /\ T[1] = m /\ last_of(e) = first + m - 1
      BY <1>2, <1>3, <1>8 DEF last_of
    <3>2. m \in Nat /\ m # 0 /\ first + m <= MaxW /\ MaxW \in Nat /\ MaxW <= U64_MAX
      BY <2>1
    <3>3. U64_MAX \in Nat
      BY WireAssumption
    <3> HIDE DEF first, m
    <3> QED BY <3>1, <3>2, <3>3
  <2> QED BY <2>2, AddExact
<1> DEFINE p == TRUE
           w == scan.w + T[1]
<1> HIDE DEF p
<1>11. scan' = Scan(w, out.buf, p, plus(scan.cnt, d))
  <2>1. scan' = [scan EXCEPT !.w = w, !.buf = out.buf, !.progressed = p,
                             !.cnt.packets[e.feed] = @ + 1]
    BY <1>1, <1>10 DEF p
  <2> HIDE DEF w
  <2> QED BY <1>2, <1>4, <2>1, ScanFresh
<1>12. d \in Counters
  BY <1>2, <1>4, CounterSums
<1>13. Steady(View, e) /\ e.pkt.seq = View.w
  <2>1. View.w = scan.w /\ View.session = q.session /\ steady_ready(View)
    BY <1>1, ViewFacts
  <2> QED BY <1>2, <1>3, <2>1 DEF Steady, seq_of
<1>14. /\ ingest(View, e.pkt) = moved(View, T[1])
       /\ count_frame(CntView, View, e) = plus(CntView, d)
  BY <1>2, <1>3, <1>8, <1>13, SteadyAdvance
<1>15. moved(View, T[1]) \in Sequencers
  BY <1>2, <1>14, EntryTypes, IngestType
<1> HIDE DEF d
<1>16. BatchInv' /\ View' = moved(View, T[1]) /\ CntView' = plus(CntView, d)
  <2>1. /\ phase = "scan" /\ q' = [q EXCEPT !.sink = emit_all(es).sink]
        /\ cnt' = cnt /\ phase' = phase /\ mode' = mode
    BY <1>1 DEF out
  <2>2. p = TRUE /\ todo' \in Seq(FrameEntries)
    BY <1>2 DEF p
  <2>3. scan' = Scan(scan.w + T[1], emit_all(es).buf, p, plus(scan.cnt, d))
    BY <1>11 DEF out
  <2> QED BY <1>9, <1>12, <1>15, <2>1, <2>2, <2>3, ScanMoves
<1>17. View' = ingest(View, todo[1].pkt) /\ CntView' = count_frame(CntView, View, todo[1])
  BY <1>14, <1>16 DEF e
<1> QED BY <1>1, <1>16, <1>17, TakeOne

\* A verified group is a Take of all its frames.
LEMMA StepGroupStep ==
  ASSUME NoWrap, BatchInv, StepGroup
  PROVE  BatchInv' /\ \E k \in 1..Len(todo) : Took(k)
<1> DEFINE m == groups
           N == m * driver.pairs
           g == SubSeq(todo, 1, 2 * N)
           f1 == g[1].feed
           f2 == g[2].feed
           out == emit_all(evens(g))
           dup == sum_blocks(odds(g))
<1>1. m \in {1, 2} /\ group_verified(m)
  BY DEF StepGroup, groups
<1>2. /\ phase = "scan"
      /\ q' = [q EXCEPT !.sink = out.sink]
      /\ scan' = [scan EXCEPT !.w = Add(@, sum_blocks(evens(g))), !.buf = out.buf,
                              !.progressed = TRUE, !.cnt = plus(@, pair_counts(f1, f2, N, dup))]
      /\ todo' = SubSeq(todo, 2 * N + 1, Len(todo))
      /\ cnt' = cnt /\ phase' = phase /\ mode' = mode
  BY DEF StepGroup
<1> HIDE DEF m
<1>3. /\ todo \in Seq(FrameEntries) /\ mode \in DOMAIN Drivers /\ scan.w \in Nat
      /\ scan \in ScanStates /\ scan.cnt \in Counters
      /\ View \in Sequencers /\ CntView \in Counters
  BY ViewFacts DEF BatchInv
<1>4. /\ View.w = scan.w /\ View.session = q.session /\ steady_ready(View)
  BY <1>2, ViewFacts
<1>5. /\ Verified(g, N, driver.pairs, scan.w, q.session)
      /\ N \in Nat \ {0} /\ 2 * N <= Len(todo)
  BY <1>1, <1>3, GroupVerified
<1> HIDE DEF N
<1>6. g \in [1..(2 * N) -> FrameEntries]
  BY <1>5 DEF Verified
<1> HIDE DEF g, out, dup, f1, f2
<1>7. /\ \E T : Chain(evens(g), T, scan.w, N)
      /\ \E U : Sums(U, odds(g), N)
      /\ PairUp(View, g, evens(g), odds(g), N, f1, f2)
  BY <1>4, <1>5, VerifiedChain DEF f1, f2
<1>8. PICK T : Chain(evens(g), T, scan.w, N)
  BY <1>7
<1>9. PICK U : Sums(U, odds(g), N)
  BY <1>7
<1>10. T[N] = sum_blocks(evens(g)) /\ U[N] = dup /\ dup \in Nat
  <2>1. N \in 0..N
    BY <1>5
  <2> QED BY <1>8, <1>9, <2>1 DEF Chain, Sums, dup
<1> DEFINE d == pair_counts(f1, f2, N, dup)
<1>11. f1 \in Feeds /\ f2 \in Feeds
  BY <1>7 DEF PairUp
<1>12. d \in Counters
  BY <1>3, <1>5, <1>10, <1>11, PairsCount
<1> HIDE DEF d
<1>13. Reference!one_by_one(View, CntView, g)
         = [q |-> moved(View, T[N]), cnt |-> plus(CntView, d)]
  BY <1>3, <1>4, <1>7, <1>8, <1>9, <1>10, GroupMoves DEF d
<1>14. moved(View, T[N]) \in Sequencers
  <2> DEFINE s == [q |-> View, cnt |-> CntView]
  <2>1. s \in Points /\ s.q = View /\ s.cnt = CntView /\ 2 * N \in Nat /\ 2 * N \in 0..(2 * N)
    BY <1>3, <1>5 DEF Points
  <2> HIDE DEF s
  <2>2. PICK f : StepRun(f, s, g, 2 * N)
    BY <1>6, <2>1, OneByOne
  <2>3. [q |-> moved(View, T[N]), cnt |-> plus(CntView, d)] \in Points
    BY <1>13, <2>1, <2>2 DEF StepRun
  <2> QED BY <2>3 DEF Points
<1>15. Add(scan.w, sum_blocks(evens(g))) = scan.w + T[N]
  <2>1. N \in 1..N
    BY <1>5
  <2>2. T[N] \in Nat /\ scan.w + T[N] <= U64_MAX
    BY <1>8, <2>1, ChainFacts
  <2> QED BY <1>3, <1>10, <2>2, AddExact
<1> DEFINE p == TRUE
           w == scan.w + T[N]
<1> HIDE DEF p
<1>16. scan' = Scan(w, out.buf, p, plus(scan.cnt, d))
  <2>1. scan' = [scan EXCEPT !.w = w, !.buf = out.buf, !.progressed = p, !.cnt = plus(@, d)]
    BY <1>2, <1>15 DEF p, d
  <2>2. scan \in ScanStates
    BY <1>3
  <2> DEFINE buf == out.buf
  <2> HIDE DEF w, buf
  <2>3. [scan EXCEPT !.w = w, !.buf = buf, !.progressed = p, !.cnt = plus(@, d)]
          = Scan(w, buf, p, plus(scan.cnt, d))
    BY <2>2, ScanGroup
  <2> QED BY <2>1, <2>3 DEF buf
<1>17. todo' \in Seq(FrameEntries)
  <2> DEFINE k == Len(todo) - 2 * N
  <2>1. /\ 2 * N \in Nat /\ k \in Nat /\ 2 * N + k <= Len(todo) /\ 2 * N + k = Len(todo)
    BY <1>3, <1>5
  <2> HIDE DEF k
  <2>2. IsPart(SubSeq(todo, 2 * N + 1, 2 * N + k), FrameEntries, todo, 2 * N, k)
    BY <1>3, <2>1, Part
  <2> QED BY <1>2, <2>1, <2>2 DEF IsPart
<1>18. BatchInv' /\ View' = moved(View, T[N]) /\ CntView' = plus(CntView, d)
  BY <1>2, <1>8, <1>12, <1>14, <1>16, <1>17, ScanMoves DEF out, p
<1>19. Took(2 * N)
  BY <1>2, <1>13, <1>18 DEF Took, g
<1>20. 2 * N \in 1..Len(todo)
  BY <1>3, <1>5
<1> QED BY <1>18, <1>19, <1>20

\* Whatever a driver does, what can be seen of it is a step of the reference.
LEMMA BatchStep ==
  ASSUME NoWrap, BatchInv, [BatchNext]_batch_vars
  PROVE  BatchInv' /\ Observed
<1>1. CASE UNCHANGED batch_vars
  <2>1. /\ q' = q /\ todo' = todo /\ cnt' = cnt /\ phase' = phase /\ scan' = scan
        /\ mode' = mode
    BY <1>1 DEF batch_vars
  <2>2. View' = View /\ CntView' = CntView
    BY <2>1 DEF View, CntView
  <2>3. BatchInv'
    BY <2>1, <2>2 DEF BatchInv
  <2> QED BY <2>1, <2>2, <2>3 DEF Observed, Stays
<1>2. CASE Fill
  BY <1>2, FillStep DEF Observed
<1>3. CASE Start \/ Done
  BY <1>3, PhaseStep DEF Observed
<1>4. CASE Between
  BY <1>4, BetweenStep DEF Observed
<1>5. CASE Enter
  BY <1>5, EnterStep DEF Observed
<1>6. CASE NotSteady
  BY <1>6, NotSteadyStep DEF Observed
<1>7. CASE StepDup
  BY <1>7, StepDupStep DEF Observed
<1>8. CASE StepAdvance
  BY <1>8, StepAdvanceStep DEF Observed
<1>9. CASE StepGroup
  BY <1>9, StepGroupStep DEF Observed
<1>10. CASE StepCold
  BY <1>10, StepColdStep DEF Observed
<1>11. CASE ScanEnd
  BY <1>11, ScanEndStep DEF Observed
<1> QED BY <1>1, <1>2, <1>3, <1>4, <1>5, <1>6, <1>7, <1>8, <1>9, <1>10, <1>11 DEF BatchNext

\* Initially nothing is held, and the view is where the reference begins.
LEMMA BatchStart ==
  ASSUME BatchInit
  PROVE  BatchInv /\ todo = <<>> /\ View = NewSequencer /\ CntView = NewCounters
<1>1. /\ q = NewSequencer /\ todo = <<>> /\ cnt = NewCounters /\ phase = "poll"
      /\ scan = NewScan(0) /\ mode \in DOMAIN Drivers
  BY DEF BatchInit, PerFrameInit
<1>2. NewSequencer \in Sequencers
  BY NewCore, NewGap DEF Sequencers, Core, Bounded
<1>3. NewCounters \in Counters
  BY PlusNothing
<1>4. NewScan(0) \in ScanStates /\ NewScan(0).cnt = NewCounters
  BY <1>3 DEF ScanStates, NewScan
<1>5. View = NewSequencer
  BY <1>1 DEF View
<1>6. CntView = NewCounters
  <2>1. CntView = plus(NewCounters, NewCounters)
    BY <1>1, <1>4 DEF CntView
  <2> QED BY <1>3, <2>1, PlusNothing
<1>7. BatchInv
  BY <1>1, <1>2, <1>3, <1>4, <1>5 DEF BatchInv, Sequencers
<1> QED BY <1>1, <1>5, <1>6, <1>7

\* The invariant of the drivers.
THEOREM BatchInvariant ==
  ASSUME NoWrap
  PROVE  BatchSpec => []BatchInv
<1>1. BatchInit => BatchInv
  BY BatchStart
<1>2. BatchInv /\ [BatchNext]_batch_vars => BatchInv'
  BY BatchStep
<1> QED BY <1>1, <1>2, PTL DEF BatchSpec

\* Scan, span buffer, packed emission and ladder cannot be seen: every driver brings
\* the sequencer, its sink and its counters where the classic ingest brings them with
\* the same frames one by one.
THEOREM BatchImplements ==
  ASSUME NoWrap
  PROVE  BatchSpec => Implements
<1>1. BatchInv => Seen = View
  BY SeenIs
<1>2. BatchInit => Reference!PerFrameInit
  <2>1. Reference!NewSequencer = NewSequencer /\ Reference!NewCounters = NewCounters
    BY SameFrames, SameGap
  <2>2. BatchInit => Seen = View
    BY <1>1, BatchStart
  <2> QED BY <2>1, <2>2, BatchStart DEF Reference!PerFrameInit, CntView
<1>3. ASSUME Observed, Seen = View, Seen' = View'
      PROVE  [Reference!PerFrameNext]_<<Seen, todo, plus(cnt, scan.cnt)>>
  <2>1. CntView = plus(cnt, scan.cnt) /\ CntView' = plus(cnt, scan.cnt)'
    BY DEF CntView
  <2>2. CASE Stays
    BY <1>3, <2>1, <2>2 DEF Stays
  <2>3. CASE \E e \in Frames : Delivered(e)
    <3>1. PICK e \in Frames : Delivered(e)
      BY <2>3
    <3>2. Reference!Deliver(e)
      BY <1>3, <2>1, <3>1 DEF Delivered, Reference!Deliver
    <3> QED BY <3>2 DEF Reference!PerFrameNext
  <2>4. CASE \E k \in 1..Len(todo) : Took(k)
    <3>1. PICK k \in 1..Len(todo) : Took(k)
      BY <2>4
    <3>2. Reference!Take(k)
      BY <1>3, <2>1, <3>1 DEF Took, Reference!Take
    <3> QED BY <3>2 DEF Reference!PerFrameNext
  <2>5. CASE Quiet
    <3>1. Reference!Idle
      BY <1>3, <2>1, <2>5, SameIntent DEF Quiet, Reference!Idle
    <3> QED BY <3>1 DEF Reference!PerFrameNext
  <2> QED BY <1>3, <2>2, <2>3, <2>4, <2>5 DEF Observed
<1>4. BatchInv /\ [BatchNext]_batch_vars => Observed
  BY BatchStep
<1>5. (BatchInv => Seen = View)'
  BY <1>1, PTL
<1>6. BatchInv /\ BatchInv' /\ [BatchNext]_batch_vars
        => [Reference!PerFrameNext]_<<Seen, todo, plus(cnt, scan.cnt)>>
  BY <1>1, <1>3, <1>4, <1>5
<1>7. BatchSpec => []BatchInv
  BY BatchInvariant
<1> QED BY <1>2, <1>6, <1>7, PTL DEF BatchSpec, Implements, Reference!PerFrameSpec

\* What is held reaches past where it begins.
LEMMA HeldReaches ==
  ASSUME NEW buf, NEW w, Held(buf, w), buf # <<>>
  PROVE  buf[1].first \in Nat /\ w \in Nat /\ buf[1].first < w /\ w <= U64_MAX
<1> DEFINE n == Len(buf)
<1>1. n \in Nat /\ n # 0 /\ n \in 1..n /\ 1 \in 1..n /\ End(buf[n]) = w
  BY HeldFacts
<1>2. \A i \in 1..n : /\ buf[i] \in Spans /\ buf[i].first \in Nat /\ buf[i].n \in Nat
                      /\ End(buf[i]) \in Nat /\ End(buf[i]) <= U64_MAX
                      /\ buf[1].first <= End(buf[i])
  BY HeldFacts
<1> HIDE DEF n
<1>3. buf[1].first <= buf[n].first
  <2>1. CASE n = 1
    BY <1>2, <1>1, <2>1
  <2>2. CASE n # 1
    <3>1. n - 1 \in 1..n /\ n - 1 \in 1..(n - 1) /\ (n - 1) + 1 = n
      BY <1>1, <2>2
    <3>2. buf[n].first = End(buf[n - 1])
      BY <3>1 DEF Held, n
    <3> QED BY <1>2, <3>1, <3>2
  <2> QED BY <2>1, <2>2
<1>4. buf[n].n # 0 /\ End(buf[n]) = buf[n].first + buf[n].n
  BY <1>1, <1>2 DEF Spans, End
<1> QED BY <1>1, <1>2, <1>3, <1>4

\* The spans a scan holds back are consecutive and end at its W, so that the first
\* number and the sum a packed sink gets say which messages they are; and the sink is
\* where the first of them begins.
THEOREM SpansFollow ==
  ASSUME NoWrap, NoBadPrefix
  PROVE  BatchSpec => []SpansConsecutive
<1>1. ASSUME BatchInv PROVE SpansConsecutive
  <2> DEFINE buf == scan.buf
             w == scan.w
             lo == buf[1].first
             k == q.sink
  <2>1. CASE phase # "scan"
    <3>1. scan.buf = <<>>
      BY <1>1, <2>1 DEF BatchInv, NewScan
    <3> QED BY <3>1 DEF SpansConsecutive
  <2>2. CASE phase = "scan"
    <3>1. /\ Held(buf, w) /\ View.w = w /\ View.sink = OneSpan(k, q.gen, buf, w)
          /\ w \in Nat /\ Order(View) /\ k \in SinkStates
      BY <1>1, <2>2, ViewFacts DEF BatchInv, SequencerStates
    <3>2. /\ Len(buf) \in Nat
          /\ \A i \in 1..Len(buf) :
               /\ buf[i] \in Spans /\ buf[i].first \in Nat /\ buf[i].n \in Nat
               /\ End(buf[i]) \in Nat /\ End(buf[i]) <= U64_MAX
               /\ buf[1].first <= End(buf[i])
      BY <3>1, HeldFacts
    <3> HIDE DEF buf, w, k
    <3>3. ASSUME NEW i \in 1..(Len(buf) - 1)
          PROVE  buf[i + 1].first = Add(buf[i].first, buf[i].n)
      <4>1. i \in 1..Len(buf) /\ buf[i + 1].first = End(buf[i])
        BY <3>1, <3>2 DEF Held
      <4> QED BY <3>2, <4>1, AddExact DEF End
    <3>4. ASSUME buf # <<>>
          PROVE  Add(lo, total(buf)) = w /\ (k.last_seq # 0 => Add(k.last_seq, 1) = lo)
      <4>1. total(buf) = w - lo
        BY <3>1, <3>4, TotalOne
      <4>3. lo \in Nat /\ lo < w /\ w <= U64_MAX
        BY <3>1, <3>4, HeldReaches
      <4>4. Add(lo, total(buf)) = w
        <5>1. w - lo \in Nat /\ lo + (w - lo) = w
          BY <3>1, <4>3
        <5> QED BY <4>1, <4>3, <5>1, AddExact
      <4>5. k.last_seq # 0 => Add(k.last_seq, 1) = lo
        <5>1. View.sink = on_msgs(k, q.gen, lo, w - lo, TRUE)
          BY <3>1, <3>4 DEF OneSpan, Upto
        <5>2. w - lo # 0
          BY <3>1, <4>3
        <5>3. ~View.sink.failed
          BY <3>1 DEF Order
        <5>4. k.last_seq # 0 /\ lo # Add(k.last_seq, 1) => View.sink.failed
          BY <3>1, <5>1, <5>2 DEF on_msgs, SinkStates
        <5> QED BY <5>3, <5>4
      <4> QED BY <4>4, <4>5
    <3> QED BY <3>3, <3>4 DEF SpansConsecutive, buf, w, k
  <2> QED BY <2>1, <2>2
<1> QED BY <1>1, BatchInvariant, PTL

=============================================================================
