-------------------------- MODULE Sequencer_proofs --------------------------
(***************************************************************************)
(* The window invariant of the sequencer, for every ring size, every set   *)
(* of sessions and packets of any length, sound or not, in any order.      *)
(***************************************************************************)
EXTENDS Window_proofs

\* The inductive invariant: types, W1 with the bound on staged numbers that
\* keeps W bounded, nothing staged before W is anchored, and no wrong data.
Core(r) ==
    /\ Bounded(r)
    /\ Fits(r, r.w + 1, r.w + WINDOW_SLOTS - 1)
    /\ Counted(r)
    /\ r.state = "Init" \/ r.session = NoSession => r.staged_count = 0
    /\ ~r.sink.corrupt

\* Nothing staged means an empty window.
LEMMA EmptyWindow ==
  ASSUME NEW r, Counted(r), r.staged_count = 0
  PROVE  Occupied(r.slots) = {}
  BY OccupiedFinite, FS_EmptySet DEF Counted

\* A handler that leaves window, W and session alone keeps the invariant.
LEMMA CoreFrame ==
  ASSUME NEW r, Core(r), NEW r2 \in SequencerStates,
         r2.slots = r.slots, r2.staged_count = r.staged_count,
         r2.w = r.w, r2.session = r.session,
         r2.state = "Init" => r.state = "Init",
         r2.sink.corrupt = r.sink.corrupt
  PROVE  Core(r2)
  BY DEF Core, Bounded, Fits, Counted, Holds

\* With an empty window W and the session may move freely.
LEMMA CoreEmpty ==
  ASSUME NEW r \in SequencerStates, r.w <= MaxW, r.staged_count = 0,
         Occupied(r.slots) = {}, ~r.sink.corrupt
  PROVE  Core(r)
  BY FS_EmptySet DEF Core, Bounded, Fits, Counted

\* The new sequencer.
LEMMA NewCore == Core(NewSequencer)
<1> USE WindowAssumption, WireAssumption, IntentAssumption
<1>1. NewSink \in SinkStates /\ ~NewSink.corrupt
  BY DEF NewSink, SinkStates, U64
<1>2. EmptySlots \in SlotsType /\ Occupied(EmptySlots) = {}
  BY DEF EmptySlots, SlotsType, Ring, Occupied
<1>3. NewSequencer \in SequencerStates
  BY <1>1, <1>2 DEF NewSequencer, SequencerStates, SlotsType, Ring, U64, States, Ages
<1> QED BY <1>1, <1>2, <1>3, CoreEmpty DEF NewSequencer, MaxW

\* Emission of the right data leaves a sink that is not more corrupt than before.
LEMMA SinkMsgs ==
  ASSUME NEW k \in SinkStates, NEW gen \in Nat, NEW x \in U64, NEW n \in Nat
  PROVE  /\ on_msgs(k, gen, x, n, TRUE) \in SinkStates
         /\ on_msgs(k, gen, x, n, TRUE).corrupt = k.corrupt
<1>1. ASSUME n # 0 PROVE Add(x, n - 1) \in U64
  BY <1>1, WireAssumption DEF Add, U64
<1> QED BY <1>1 DEF on_msgs, SinkStates

\* So do the events.
LEMMA SinkTypes ==
  ASSUME NEW k \in SinkStates, NEW gen \in Nat, NEW x \in U64
  PROVE  /\ on_gap_opened(k, gen, x) \in SinkStates
         /\ on_gap_opened(k, gen, x).corrupt = k.corrupt
         /\ on_reanchored(k, gen, x) \in SinkStates
         /\ on_reanchored(k, gen, x).corrupt = k.corrupt
         /\ on_session_boundary(k, gen) \in SinkStates
         /\ on_session_boundary(k, gen).corrupt = k.corrupt
         /\ on_terminal(k) \in SinkStates
         /\ on_terminal(k).corrupt = k.corrupt
<1> USE WireAssumption
<1>3. /\ on_gap_opened(k, gen, x) \in SinkStates
      /\ on_gap_opened(k, gen, x).corrupt = k.corrupt
  BY DEF on_gap_opened, SinkStates
<1>4. /\ on_reanchored(k, gen, x) \in SinkStates
      /\ on_reanchored(k, gen, x).corrupt = k.corrupt
  BY DEF on_reanchored, SinkStates
<1>5. /\ on_session_boundary(k, gen) \in SinkStates
      /\ on_session_boundary(k, gen).corrupt = k.corrupt
  <2>1. 0 \in U64
    BY DEF U64
  <2> QED BY <2>1 DEF on_session_boundary, SinkStates
<1>6. on_terminal(k) \in SinkStates /\ on_terminal(k).corrupt = k.corrupt
  BY DEF on_terminal, SinkStates
<1> QED BY <1>3, <1>4, <1>5, <1>6

\* gap.rs keeps the invariant, and leaves W, window and session alone.
LEMMA GapEvidenceCore ==
  ASSUME NEW r, Core(r), NEW x \in U64, NEW g, g = gap_evidence(r, x)
  PROVE  /\ Core(g)
         /\ g.w = r.w /\ g.session = r.session /\ g.slots = r.slots
         /\ g.staged_count = r.staged_count
<1>1. r \in SequencerStates
  BY DEF Core, Bounded
<1>2. r.gen \in Nat /\ r.gen + 1 \in Nat /\ r.w \in U64 /\ r.sink \in SinkStates
  BY <1>1 DEF SequencerStates
<1>3. /\ on_gap_opened(r.sink, r.gen + 1, r.w) \in SinkStates
      /\ on_gap_opened(r.sink, r.gen + 1, r.w).corrupt = r.sink.corrupt
  BY <1>2, SinkTypes
<1>4. Larger(r.evidence_hwm, x) \in U64
  BY <1>1 DEF SequencerStates, Larger
<1>5. g \in SequencerStates
  BY <1>1, <1>2, <1>3, <1>4 DEF SequencerStates, gap_evidence, States
<1>6. /\ g.slots = r.slots /\ g.staged_count = r.staged_count /\ g.w = r.w
      /\ g.session = r.session /\ (g.state = "Init" => r.state = "Init")
      /\ g.sink.corrupt = r.sink.corrupt
  BY <1>1, <1>3 DEF SequencerStates, gap_evidence
<1> QED BY <1>5, <1>6, CoreFrame

\* Closing a gap keeps the invariant and leaves W alone (gap.rs check_gap_close).
LEMMA CheckGapCloseCore ==
  ASSUME NEW r, Core(r), NEW g, g = check_gap_close(r)
  PROVE  Core(g) /\ g.w = r.w
<1>1. r \in SequencerStates
  BY DEF Core, Bounded
<1>2. r.gen \in Nat /\ r.w \in U64 /\ r.sink \in SinkStates /\ 0 \in U64
  BY <1>1, WireAssumption DEF SequencerStates, U64
<1>3. /\ on_reanchored(r.sink, r.gen, r.w) \in SinkStates
      /\ on_reanchored(r.sink, r.gen, r.w).corrupt = r.sink.corrupt
  BY <1>2, SinkTypes
<1>4. g \in SequencerStates
  BY <1>1, <1>2, <1>3 DEF SequencerStates, check_gap_close, States
<1>5. /\ g.slots = r.slots /\ g.staged_count = r.staged_count /\ g.w = r.w
      /\ g.session = r.session /\ (g.state = "Init" => r.state = "Init")
      /\ g.sink.corrupt = r.sink.corrupt
  BY <1>1, <1>3 DEF SequencerStates, check_gap_close
<1> QED BY <1>4, <1>5, CoreFrame

\* Retiring the pending range keeps the invariant.
LEMMA RetirePendingCore ==
  ASSUME NEW r, Core(r)
  PROVE  Core(retire_pending(r))
<1>1. r \in SequencerStates
  BY DEF Core, Bounded
<1>2. retire_pending(r) \in SequencerStates
  BY <1>1 DEF SequencerStates, retire_pending
<1>3. LET g == retire_pending(r) IN
      /\ g.slots = r.slots /\ g.staged_count = r.staged_count /\ g.w = r.w
      /\ g.session = r.session /\ g.state = r.state /\ g.sink = r.sink
  BY <1>1 DEF SequencerStates, retire_pending
<1> QED BY <1>2, <1>3, CoreFrame

\* session.rs: the adopted or new session starts with an empty window.
LEMMA SessionDispatchCore ==
  ASSUME NEW r, Core(r), NEW s \in Sessions, NEW d, d = session_dispatch(r, s)
  PROVE  Core(d) /\ d.session = s
<1> USE WireAssumption, WindowAssumption, IntentAssumption
<1>1. r \in SequencerStates /\ r.w <= MaxW /\ ~r.sink.corrupt
  BY DEF Core, Bounded
<1>2. CASE r.session = NoSession
  <2>1. d = [r EXCEPT !.session = s]
    BY <1>2 DEF session_dispatch
  <2>2. r.staged_count = 0 /\ Occupied(r.slots) = {}
    BY <1>2, EmptyWindow DEF Core
  <2>3. d \in SequencerStates
    BY <2>1, <1>1 DEF SequencerStates
  <2>4. /\ d.w = r.w /\ d.slots = r.slots /\ d.staged_count = r.staged_count
        /\ d.sink = r.sink /\ d.session = s
    BY <2>1, <1>1 DEF SequencerStates
  <2> QED BY <2>2, <2>3, <2>4, <1>1, CoreEmpty
<1>3. CASE r.session # NoSession /\ r.session # s
  <2> DEFINE slots2 == IF r.staged_count # 0 THEN EmptySlots ELSE r.slots
  <2>1. d = session_boundary(r, s)
    BY <1>3 DEF session_dispatch
  <2>2. EmptySlots \in SlotsType /\ Occupied(EmptySlots) = {}
    BY DEF EmptySlots, SlotsType, Ring, Occupied
  <2>3. slots2 \in SlotsType /\ Occupied(slots2) = {}
    BY <2>2, <1>1, EmptyWindow DEF Core, SequencerStates, SlotsType, Ring
  <2>4. /\ on_session_boundary(r.sink, r.gen + 1) \in SinkStates
        /\ on_session_boundary(r.sink, r.gen + 1).corrupt = r.sink.corrupt
    <3>1. r.sink \in SinkStates /\ r.gen + 1 \in Nat /\ 0 \in U64
      BY <1>1 DEF SequencerStates, U64
    <3> QED BY <3>1, SinkTypes
  <2>5. 0 \in U64 /\ 0 \in 0..WINDOW_SLOTS /\ TRIGGER \in Ages
    BY DEF U64, Ages
  <2> HIDE DEF slots2
  <2>6. d \in SequencerStates
    <3>1. /\ slots2 \in [0..(WINDOW_SLOTS - 1) -> Messages \cup {NoMsg}]
          /\ r.gen + 1 \in Nat
      BY <2>3, <1>1 DEF SlotsType, Ring, SequencerStates
    <3> DEFINE e == [r EXCEPT !.session = s, !.slots = slots2,
                              !.staged_count = 0, !.max_staged = 0,
                              !.gap_active = FALSE, !.evidence_hwm = 0]
    <3>2. e \in SequencerStates /\ e.gen = r.gen /\ e.sink = r.sink
      BY <3>1, <2>5, <1>1 DEF SequencerStates
    <3> DEFINE f == [e EXCEPT !.hb_seq = 0, !.hb_age = TRIGGER,
                              !.pending_to = NONE]
    <3>3. d = [f EXCEPT !.gen = r.gen + 1, !.state = "Init",
                        !.sink = on_session_boundary(r.sink, r.gen + 1)]
      BY <2>1, <1>1 DEF session_boundary, slots2, SequencerStates
    <3> HIDE DEF e
    <3>4. f \in SequencerStates
      BY <3>2, <2>5 DEF SequencerStates
    <3> HIDE DEF f
    <3> DEFINE g == [f EXCEPT !.gen = r.gen + 1]
    <3>5. g \in SequencerStates
      BY <3>1, <3>4 DEF SequencerStates
    <3>6. d = [g EXCEPT !.state = "Init",
                        !.sink = on_session_boundary(r.sink, r.gen + 1)]
      BY <3>3, <3>4 DEF SequencerStates
    <3> HIDE DEF g
    <3> QED BY <3>5, <3>6, <2>4 DEF SequencerStates, States
  <2>7. /\ d.w = r.w /\ d.slots = slots2 /\ d.staged_count = 0
        /\ d.sink = on_session_boundary(r.sink, r.gen + 1) /\ d.session = s
    BY <2>1, <1>1 DEF SequencerStates, session_boundary, slots2
  <2> QED BY <2>3, <2>4, <2>6, <2>7, <1>1, CoreEmpty
<1>4. CASE r.session = s
  BY <1>4, SessionAssumption DEF session_dispatch
<1> QED BY <1>2, <1>3, <1>4

\* A heartbeat touches neither the window nor W (session.rs handle_heartbeat).
LEMMA HeartbeatCore ==
  ASSUME NEW r, Core(r), NEW seq \in U64
  PROVE  Core(handle_heartbeat(r, seq))
<1> DEFINE heard == [r EXCEPT !.hb_seq = seq, !.hb_age = 0]
<1>1. r \in SequencerStates /\ 0 \in Ages
  BY IntentAssumption DEF Core, Bounded, Ages
<1>2. heard \in SequencerStates
  BY <1>1 DEF SequencerStates
<1>3. /\ heard.slots = r.slots /\ heard.staged_count = r.staged_count
      /\ heard.w = r.w /\ heard.session = r.session /\ heard.state = r.state
      /\ heard.sink = r.sink
  BY <1>1 DEF SequencerStates
<1>4. Core(heard)
  BY <1>2, <1>3, CoreFrame
<1> HIDE DEF heard
<1>5. Core(gap_evidence(heard, seq))
  BY <1>4, GapEvidenceCore
<1> QED BY <1>4, <1>5 DEF handle_heartbeat, heard

\* Neither does an end of session or a seal.
LEMMA EosCore ==
  ASSUME NEW r, Core(r), NEW x
  PROVE  Core(handle_eos(r, x)) /\ Core(seal(r))
<1>1. r \in SequencerStates
  BY DEF Core, Bounded
<1>2. r.sink \in SinkStates /\ r.gen \in Nat /\ r.w \in U64
  BY <1>1 DEF SequencerStates
<1>3. on_terminal(r.sink) \in SinkStates /\ on_terminal(r.sink).corrupt = r.sink.corrupt
  BY <1>2, SinkTypes
<1>4. ASSUME NEW st \in {"Ended", "Dead"}
      PROVE  Core([r EXCEPT !.state = st, !.sink = on_terminal(r.sink)])
  <2> DEFINE e == [r EXCEPT !.state = st, !.sink = on_terminal(r.sink)]
  <2>1. e \in SequencerStates
    BY <1>1, <1>3, <1>4 DEF SequencerStates, States
  <2>2. /\ e.slots = r.slots /\ e.staged_count = r.staged_count /\ e.w = r.w
        /\ e.session = r.session /\ e.state = st /\ e.sink = on_terminal(r.sink)
    BY <1>1 DEF SequencerStates
  <2> QED BY <2>1, <2>2, <1>3, CoreFrame
<1>5. Core([r EXCEPT !.state = "EosPersist"])
  <2> DEFINE e == [r EXCEPT !.state = "EosPersist"]
  <2>1. e \in SequencerStates
    BY <1>1 DEF SequencerStates, States
  <2>2. /\ e.slots = r.slots /\ e.staged_count = r.staged_count /\ e.w = r.w
        /\ e.session = r.session /\ e.state = "EosPersist" /\ e.sink = r.sink
    BY <1>1 DEF SequencerStates
  <2> QED BY <2>1, <2>2, CoreFrame
<1> QED BY <1>4, <1>5 DEF handle_eos, end_session, seal

\* Neither does a recovery intent; the range it asks for stays within u64.
LEMMA IntentCore ==
  ASSUME NoWrap, NEW r, Core(r), intent_due(r)
  PROVE  Core(check_recovery_intent(r))
<1> DEFINE e == check_recovery_intent(r)
           t == wire_cap(r, intent_target(r))
<1> USE IntentAssumption, WireAssumption, WindowAssumption
<1>1. /\ r \in SequencerStates /\ 0 \in Ages
      /\ r.max_staged \in U64 /\ r.hb_seq \in U64 /\ r.w \in Nat /\ r.w <= MaxW
  BY DEF Core, Bounded, Ages, SequencerStates, U64
<1>2. Add(r.w, MAX_WIRE_REQUEST) \in U64
  BY <1>1, AddExact DEF NoWrap, MaxW
<1>3. intent_widens(r) => t \in U64
  BY <1>1, <1>2 DEF intent_widens, intent_target, wire_cap, Smaller
<1>4. (IF intent_widens(r) THEN t ELSE r.pending_to) \in U64 \cup {NONE}
  BY <1>1, <1>3 DEF SequencerStates
<1> HIDE DEF t
<1>5. e = [r EXCEPT !.pending_to = IF intent_widens(r) THEN t ELSE r.pending_to,
                    !.intent_age = 0]
  BY DEF check_recovery_intent, t
<1> HIDE DEF e
<1>6. e \in SequencerStates
  BY <1>1, <1>4, <1>5 DEF SequencerStates
<1>7. /\ e.slots = r.slots /\ e.staged_count = r.staged_count /\ e.w = r.w
      /\ e.session = r.session /\ e.state = r.state /\ e.sink = r.sink
  BY <1>1, <1>5 DEF SequencerStates
<1>8. Core(e)
  BY <1>6, <1>7, CoreFrame
<1> QED BY <1>8 DEF e

\* Neither does the passing of time.
LEMMA TickCore ==
  ASSUME NEW r, Core(r)
  PROVE  Core(tick(r))
<1>1. r \in SequencerStates
  BY DEF Core, Bounded
<1>2. \A a \in Ages : Smaller(a + 1, TRIGGER) \in Ages
  BY IntentAssumption DEF Ages, Smaller
<1>3. tick(r) \in SequencerStates
  BY <1>1, <1>2 DEF SequencerStates, tick
<1>4. /\ tick(r).slots = r.slots /\ tick(r).staged_count = r.staged_count
      /\ tick(r).w = r.w /\ tick(r).session = r.session
      /\ tick(r).state = r.state /\ tick(r).sink = r.sink
  BY <1>1 DEF SequencerStates, tick
<1> QED BY <1>3, <1>4, CoreFrame

\* drain, with the progress time it restarts, turns a window from W on into one
\* strictly ahead of W.
LEMMA DrainProgressCore ==
  ASSUME NoWrap, NEW r, Bounded(r), Counted(r),
         Fits(r, r.w, r.w + WINDOW_SLOTS - 1),
         r.state # "Init", r.session \in Sessions, ~r.sink.corrupt
  PROVE  Core(drain_progress(r))
<1> DEFINE d == drain(r)
           e == [d EXCEPT !.progress_age = 0]
<1> USE WireAssumption, WindowAssumption, IntentAssumption
<1>1. PICK n \in 0..WINDOW_SLOTS : Drains(r, d, n)
  BY DrainLemma
<1>2. /\ r \in SequencerStates /\ r.w \in U64 /\ r.gen \in Nat
      /\ r.sink \in SinkStates /\ n \in Nat /\ 0 \in Ages
  BY DEF Bounded, SequencerStates, Ages
<1>3. /\ on_msgs(r.sink, r.gen, r.w, n, TRUE) \in SinkStates
      /\ on_msgs(r.sink, r.gen, r.w, n, TRUE).corrupt = r.sink.corrupt
  BY <1>2, SinkMsgs
<1>4. r.w + n \in U64
  BY <1>1, <1>2 DEF U64, NoWrap, MaxW, Drains
<1> HIDE DEF d
<1>5. d \in SequencerStates
  BY <1>1, <1>2, <1>3, <1>4 DEF SequencerStates, SlotsType, Ring, Drains
<1>6. /\ d.w = r.w + n /\ d.state = r.state /\ d.session = r.session
      /\ d.sink = on_msgs(r.sink, r.gen, r.w, n, TRUE)
  BY <1>1, <1>2 DEF SequencerStates, Drains
<1>7. Core(d)
  BY <1>1, <1>3, <1>5, <1>6, SessionAssumption DEF Core, Bounded, Drains
<1>8. e \in SequencerStates
  BY <1>2, <1>5 DEF SequencerStates
<1>9. /\ e.slots = d.slots /\ e.staged_count = d.staged_count /\ e.w = d.w
      /\ e.session = d.session /\ e.state = d.state /\ e.sink = d.sink
  BY <1>5 DEF SequencerStates
<1>10. Core(e)
  BY <1>7, <1>8, <1>9, CoreFrame
<1> QED BY <1>7, <1>10 DEF drain_progress, d

\* What the walk hands on never exceeds the blocks of the packet.
LEMMA WalkHanded ==
  ASSUME NEW p \in DataPackets, NEW skip \in Nat
  PROVE  /\ walk_handed(p, skip) \in Nat
         /\ walk_handed(p, skip) <= p.count
<1>1. p.good \in Nat /\ p.count \in Nat /\ p.good <= p.count
  <2>1. p.good \in 0..MaxCount /\ p.count \in 1..MaxCount /\ p.err \in ErrKinds
    BY DEF DataPackets
  <2>2. p.err \in {"ok", "itch", "frame"}
    BY <2>1, WireAssumption, Zenon
  <2>3. p.good \in Nat /\ p.count \in Nat
    BY <2>1, WireAssumption
  <2> QED BY <2>2, <2>3 DEF DataPackets
<1> QED BY <1>1 DEF walk_handed, Larger

\* The stages of apply_in_order: the new suffix emitted, W advanced, the window
\* cleared behind it.
Emitted(r, p) ==
    [r EXCEPT !.sink = on_msgs(r.sink, r.gen, p.seq + dup_skip(r, p),
                               walk_handed(p, dup_skip(r, p)), TRUE)]

Advanced(r, p) == [Emitted(r, p) EXCEPT !.w = advance_to(r, p), !.progress_age = 0]

Cleared(r, p) == clear_slots(Advanced(r, p), r.w, Advanced(r, p).w)

\* The stages of apply_ahead: the gap opened or widened, the packet staged, the
\* evidence beyond the window noted.
Widened(r, p) == gap_evidence(r, p.seq)

Staged(r, p) == stage(Widened(r, p), p.session, p.seq, walk_handed(p, 0))

Noted(r, p) ==
    [Staged(r, p) EXCEPT
        !.evidence_hwm = IF span_last(p) >= Add(r.w, WINDOW_SLOTS)
                         THEN Larger(Staged(r, p).evidence_hwm, Add(span_last(p), 1))
                         ELSE Staged(r, p).evidence_hwm,
        !.max_staged = Larger(Staged(r, p).max_staged, staged_top(p))]

\* what neither window nor W has to do with is as before
SameRest(r, c) ==
    /\ c.gen = r.gen /\ c.session = r.session /\ c.state = r.state
    /\ c.gap_active = r.gap_active /\ c.hb_seq = r.hb_seq
    /\ c.pending_to = r.pending_to

\* e, a and c are the stages of an in-order packet p in r
InOrderStages(r, p, e, a, c) ==
    /\ Core(e) /\ e = [r EXCEPT !.sink = e.sink]
    /\ e.sink = on_msgs(r.sink, r.gen, r.w, walk_handed(p, r.w - p.seq), TRUE)
    /\ SameRest(r, a) /\ a.slots = r.slots /\ a.staged_count = r.staged_count
    /\ a.max_staged = r.max_staged /\ a.evidence_hwm = r.evidence_hwm
    /\ a.sink = e.sink /\ a.w = span_last(p) + 1 /\ a \in SequencerStates
    /\ Clears(a, c, r.w) /\ Bounded(c)
    /\ SameRest(r, c) /\ c.evidence_hwm = r.evidence_hwm
    /\ c.sink = e.sink /\ c.w = span_last(p) + 1

\* A packet that starts at or below W and reaches it: its new suffix begins at W,
\* and once it has been emitted W goes right behind it.
LEMMA InOrderParts ==
  ASSUME NoWrap, NEW r, Core(r), NEW p \in DataPackets,
         r.session = p.session, p.seq <= r.w, r.w <= span_last(p),
         NEW e, e = Emitted(r, p), NEW a, a = Advanced(r, p), NEW c, c = Cleared(r, p)
  PROVE  InOrderStages(r, p, e, a, c)
<1> DEFINE skip == dup_skip(r, p)
           n == walk_handed(p, skip)
<1> USE WireAssumption, IntentAssumption
<1>0. WINDOW_SLOTS \in Nat \ {0}
  BY WindowAssumption
<1>1. /\ r \in SequencerStates /\ r.w \in Nat /\ r.w \in U64 /\ r.w <= MaxW
      /\ r.gen \in Nat /\ r.sink \in SinkStates /\ 0 \in Ages
  BY DEF Core, Bounded, SequencerStates, U64, Ages
<1>2. p.seq \in 0..MaxSeq /\ p.count \in 1..MaxCount /\ p.session \in Sessions
  BY DEF DataPackets
<1>3. skip = r.w - p.seq /\ skip \in Nat /\ p.seq + skip = r.w
  BY <1>1, <1>2 DEF dup_skip, Smaller, span_last
<1> HIDE DEF skip
<1>4. n \in Nat
  BY <1>3, WalkHanded
<1> HIDE DEF n
<1>5. e = [r EXCEPT !.sink = on_msgs(r.sink, r.gen, r.w, n, TRUE)]
  BY <1>3 DEF Emitted, skip, n
<1>6. /\ on_msgs(r.sink, r.gen, r.w, n, TRUE) \in SinkStates
      /\ on_msgs(r.sink, r.gen, r.w, n, TRUE).corrupt = r.sink.corrupt
  <2>1. r.sink \in SinkStates /\ r.gen \in Nat /\ r.w \in U64
    BY <1>1
  <2> QED BY ONLY <2>1, <1>4, SinkMsgs
<1>7. /\ e \in SequencerStates /\ e.slots = r.slots /\ e.w = r.w
      /\ e.staged_count = r.staged_count /\ e.max_staged = r.max_staged
      /\ e.evidence_hwm = r.evidence_hwm /\ SameRest(r, e)
      /\ e.sink = on_msgs(r.sink, r.gen, r.w, n, TRUE)
      /\ e.sink.corrupt = r.sink.corrupt
  BY <1>1, <1>5, <1>6 DEF SequencerStates, SameRest
<1>8. Core(e)
  BY <1>7, CoreFrame DEF SameRest
<1>9. advance_to(r, p) = span_last(p) + 1 /\ advance_to(r, p) \in U64
  <2>1. span_last(p) \in Nat /\ span_last(p) + 1 <= U64_MAX /\ 1 \in Nat
    BY <1>0, <1>2 DEF span_last, NoWrap
  <2> QED BY <2>1, AddExact DEF advance_to
<1>10. span_last(p) + 1 <= MaxW /\ span_last(p) \in Int
  BY <1>2 DEF span_last, MaxW
<1>11. a = [e EXCEPT !.w = advance_to(r, p), !.progress_age = 0]
  BY DEF Advanced
<1>12. /\ a \in SequencerStates /\ a.slots = r.slots
       /\ a.staged_count = r.staged_count /\ a.max_staged = r.max_staged
       /\ a.evidence_hwm = r.evidence_hwm /\ a.w = span_last(p) + 1
       /\ SameRest(r, a) /\ a.sink = e.sink
  BY <1>1, <1>7, <1>9, <1>11 DEF SequencerStates, SameRest
<1>13. /\ Bounded(a) /\ Counted(a) /\ r.w <= a.w
       /\ Fits(a, r.w + 1, r.w + WINDOW_SLOTS - 1)
  BY <1>1, <1>10, <1>12 DEF Core, Bounded, Counted, Fits, Holds, SameRest
<1>14. Clears(a, c, r.w)
  BY <1>1, <1>13, ClearSlotsLemma DEF Cleared
<1>15. c \in SequencerStates
  BY <1>12, <1>14 DEF SequencerStates, SlotsType, Ring, Clears
<1>16. /\ c.w = a.w /\ SameRest(r, c) /\ c.evidence_hwm = a.evidence_hwm
       /\ c.sink = a.sink
  <2>1. /\ c.w = a.w /\ c.evidence_hwm = a.evidence_hwm /\ c.sink = a.sink
        /\ c.gen = a.gen /\ c.session = a.session /\ c.state = a.state
        /\ c.gap_active = a.gap_active /\ c.hb_seq = a.hb_seq
        /\ c.pending_to = a.pending_to
    BY <1>12, <1>14 DEF SequencerStates, Clears
  <2> QED BY <2>1, <1>12 DEF SameRest
<1>17. Bounded(c)
  BY <1>13, <1>15, <1>16 DEF Bounded
<1>18. e = [r EXCEPT !.sink = e.sink] /\ n = walk_handed(p, r.w - p.seq)
  BY <1>3, <1>5, <1>7 DEF n
<1> QED BY <1>7, <1>8, <1>12, <1>14, <1>16, <1>17, <1>18 DEF InOrderStages

\* An in-order packet, sound or not, keeps the invariant.
LEMMA InOrderCore ==
  ASSUME NoWrap, NEW r, Core(r), NEW p \in DataPackets,
         r.state # "Init", r.session = p.session,
         p.seq <= r.w, r.w <= span_last(p)
  PROVE  /\ Core(apply_in_order(r, p))
         /\ Core(Emitted(r, p)) /\ Core(drain_progress(Cleared(r, p)))
<1> DEFINE e == Emitted(r, p)
           c == Cleared(r, p)
           a == Advanced(r, p)
<1>1. InOrderStages(r, p, e, a, c)
  BY InOrderParts
<1>2. p.session \in Sessions
  BY DEF DataPackets
<1> HIDE DEF e, a, c
<1>5. /\ Core(e) /\ Clears(a, c, r.w) /\ Bounded(c)
      /\ SameRest(r, c) /\ c.sink = e.sink
  BY <1>1 DEF InOrderStages
<1>3. Core(drain_progress(c))
  BY <1>2, <1>5, DrainProgressCore DEF Core, Clears, SameRest
<1>4. Core(retire_pending(check_gap_close(drain_progress(c))))
  BY <1>3, CheckGapCloseCore, RetirePendingCore
<1> QED BY <1>3, <1>4, <1>5 DEF apply_in_order, Emitted, Advanced, Cleared, e, a, c

\* g, t and u are the stages of a packet p ahead of W in r
AheadStages(r, p, g, t, u) ==
    /\ Core(g) /\ g.w = r.w /\ g.session = r.session /\ g.slots = r.slots
    /\ g.staged_count = r.staged_count /\ g.max_staged = r.max_staged
    /\ g.hb_seq = r.hb_seq /\ g.pending_to = r.pending_to
    /\ StagesWindow(g, t) /\ Stages(g, t, p.seq, walk_handed(p, 0)) /\ Core(t)
    /\ SameRest(g, t) /\ t.w = g.w /\ t.sink = g.sink
    /\ t.evidence_hwm = g.evidence_hwm /\ t.max_staged = g.max_staged
    /\ SameRest(t, u) /\ u.w = t.w /\ u.sink = t.sink
    /\ u.slots = t.slots /\ u.staged_count = t.staged_count
    /\ u.evidence_hwm \in Nat /\ t.evidence_hwm <= u.evidence_hwm
    /\ u.max_staged = Larger(t.max_staged, span_last(p))
    /\ Core(u) /\ u.state # "Init" /\ Fits(u, u.w, u.w + WINDOW_SLOTS - 1)

\* A packet ahead of W opens the gap and fills slots strictly ahead of W.
LEMMA AheadParts ==
  ASSUME NoWrap, NEW r, Core(r), NEW p \in DataPackets,
         r.state # "Init", r.session = p.session, r.w < p.seq,
         NEW g, g = Widened(r, p), NEW t, t = Staged(r, p), NEW u, u = Noted(r, p)
  PROVE  AheadStages(r, p, g, t, u)
<1> DEFINE n == walk_handed(p, 0)
           last == span_last(p)
           hwm == IF last >= Add(r.w, WINDOW_SLOTS)
                  THEN Larger(t.evidence_hwm, Add(last, 1))
                  ELSE t.evidence_hwm
<1> USE WireAssumption, IntentAssumption
<1>0. WINDOW_SLOTS \in Nat \ {0}
  BY WindowAssumption
<1>1. p.seq \in 0..MaxSeq /\ p.count \in 1..MaxCount /\ p.session \in Sessions
  BY DEF DataPackets
<1>2. p.seq \in U64 /\ p.seq \in Nat
  BY <1>1 DEF U64
<1>3. /\ Core(g) /\ g.w = r.w /\ g.session = r.session /\ g.slots = r.slots
      /\ g.staged_count = r.staged_count
  BY <1>2, GapEvidenceCore DEF Widened
<1>4. /\ g.state # "Init" /\ g.max_staged = r.max_staged
      /\ g.hb_seq = r.hb_seq /\ g.pending_to = r.pending_to
  BY DEF gap_evidence, Core, Bounded, SequencerStates, Widened
<1>5. n \in Nat /\ n <= p.count
  BY WalkHanded
<1> HIDE DEF n
<1>6. /\ g \in SequencerStates /\ Bounded(g) /\ Counted(g)
      /\ Fits(g, g.w + 1, g.w + WINDOW_SLOTS - 1)
      /\ g.session \in Sessions /\ g.w < p.seq /\ p.seq + n <= MaxW
      /\ t = stage(g, g.session, p.seq, n)
  BY <1>1, <1>3, <1>5 DEF Core, Bounded, MaxW, Staged, n
<1>7. StagesWindow(g, t) /\ Stages(g, t, p.seq, n)
  <2> DEFINE first == p.seq
  <2>1. first \in Nat /\ g.w < first /\ first + n <= MaxW
        /\ t = stage(g, g.session, first, n)
    BY <1>2, <1>6
  <2> HIDE DEF first
  <2>2. StagesWindow(g, t) /\ Stages(g, t, first, n)
    BY <2>1, <1>5, <1>6, StageLemma
  <2> QED BY <2>2 DEF first
<1>8. t \in SequencerStates
  BY <1>6, <1>7 DEF SequencerStates, SlotsType, Ring, StagesWindow
<1>9. /\ t.w = g.w /\ SameRest(g, t) /\ t.sink = g.sink
      /\ t.evidence_hwm = g.evidence_hwm /\ t.max_staged = g.max_staged
  BY <1>6, <1>7 DEF SequencerStates, StagesWindow, SameRest
<1>10. Core(t)
  BY <1>3, <1>4, <1>6, <1>7, <1>8, <1>9, SessionAssumption
  DEF Core, Bounded, StagesWindow, SameRest
<1>11. last \in U64 /\ Add(last, 1) \in U64 /\ staged_top(p) = last
  <2>1. last \in Nat /\ last + 1 <= U64_MAX /\ 1 \in Nat
    BY <1>0, <1>1 DEF span_last, NoWrap
  <2> QED BY <2>1, AddExact DEF U64, staged_top
<1> HIDE DEF last
<1>12. /\ hwm \in U64 /\ hwm \in Nat /\ t.evidence_hwm <= hwm
       /\ Larger(t.max_staged, last) \in U64
  BY <1>8, <1>11 DEF SequencerStates, Larger, U64
<1>13. u = [t EXCEPT !.evidence_hwm = hwm, !.max_staged = Larger(t.max_staged, last)]
  BY <1>11 DEF Noted, last
<1> HIDE DEF hwm
<1>14. u \in SequencerStates
  BY <1>8, <1>12, <1>13 DEF SequencerStates
<1>15. /\ u.slots = t.slots /\ u.staged_count = t.staged_count
       /\ u.w = t.w /\ SameRest(t, u) /\ u.sink = t.sink
       /\ u.evidence_hwm = hwm /\ u.max_staged = Larger(t.max_staged, last)
  BY <1>8, <1>13 DEF SequencerStates, SameRest
<1>16. Core(u)
  BY <1>10, <1>14, <1>15, CoreFrame DEF SameRest
<1>17. Fits(u, u.w, u.w + WINDOW_SLOTS - 1)
  <2>1. u.w \in Nat
    BY <1>14 DEF SequencerStates, U64
  <2>2. (u.w + 1)..(u.w + WINDOW_SLOTS - 1) \subseteq u.w..(u.w + WINDOW_SLOTS - 1)
    BY <1>0, <2>1
  <2> QED BY <2>2, <1>16 DEF Core, Fits
<1>18. u.state # "Init"
  BY <1>4, <1>9, <1>15 DEF SameRest
<1> QED BY <1>3, <1>4, <1>7, <1>9, <1>10, <1>12, <1>15, <1>16, <1>17, <1>18
  DEF n, last, AheadStages

\* A packet ahead of W, sound or not, keeps the invariant.
LEMMA AheadCore ==
  ASSUME NoWrap, NEW r, Core(r), NEW p \in DataPackets,
         r.state # "Init", r.session = p.session, r.w < p.seq
  PROVE  /\ Core(apply_ahead(r, p))
         /\ Core(Staged(r, p)) /\ Core(drain_progress(Noted(r, p)))
<1> DEFINE g == Widened(r, p)
           t == Staged(r, p)
           u == Noted(r, p)
<1>5. AheadStages(r, p, g, t, u)
  BY AheadParts
<1>2. p.session \in Sessions
  BY DEF DataPackets
<1> HIDE DEF g, t, u
<1>1. /\ Core(t) /\ Core(u) /\ u.state # "Init"
      /\ Fits(u, u.w, u.w + WINDOW_SLOTS - 1)
      /\ g.session = r.session /\ SameRest(g, t) /\ SameRest(t, u)
  BY <1>5 DEF AheadStages
<1>3. Core(drain_progress(u))
  BY <1>1, <1>2, DrainProgressCore DEF Core, SameRest
<1>4. Core(retire_pending(check_gap_close(drain_progress(u))))
  BY <1>3, CheckGapCloseCore, RetirePendingCore
<1> QED BY <1>1, <1>3, <1>4 DEF apply_ahead, Widened, Staged, Noted, g, t, u

\* Every packet, sound or not, in any state, keeps the invariant.
LEMMA IngestCore ==
  ASSUME NoWrap, NEW r, Core(r), NEW p \in Packets
  PROVE  Core(ingest(r, p))
<1> USE WireAssumption
<1> DEFINE d == session_dispatch(r, p.session)
<1>1. p.session \in Sessions /\ p.seq \in 0..MaxSeq
  BY DEF Packets, DataPackets, Heartbeats, EosPackets
<1>2. p.seq \in U64
  BY <1>1 DEF U64
<1>3. Core(d) /\ d.session = p.session
  BY <1>1, SessionDispatchCore
<1> HIDE DEF d
<1>4. CASE p.count = HEARTBEAT_COUNT
  BY <1>2, <1>3, <1>4, HeartbeatCore DEF ingest, d
<1>5. CASE p.count # HEARTBEAT_COUNT /\ p.count = EOS_COUNT
  BY <1>3, <1>5, EosCore DEF ingest, d
<1>6. CASE p.count # HEARTBEAT_COUNT /\ p.count # EOS_COUNT
  <2> DEFINE a == anchor(d, p.seq)
  <2>1. p \in DataPackets
    BY <1>6 DEF Packets, Heartbeats, EosPackets
  <2>2. /\ Core(a) /\ a.state # "Init" /\ a.session = p.session
        /\ d.state # "Init" => a = d
        /\ d.state = "Init" => a.w = p.seq
    <3>1. d \in SequencerStates /\ 0 \in Ages /\ p.seq <= MaxW
      BY <1>1, <1>3, IntentAssumption DEF Core, Bounded, Ages, MaxW
    <3>2. CASE d.state = "Init"
      <4>1. a = [d EXCEPT !.w = p.seq, !.progress_age = 0, !.state = "Contig"]
        BY <3>2 DEF anchor
      <4>2. d.staged_count = 0 /\ Occupied(d.slots) = {} /\ ~d.sink.corrupt
        BY <3>2, <1>3, EmptyWindow DEF Core
      <4>3. a \in SequencerStates
        BY <3>1, <4>1, <1>2 DEF SequencerStates, States
      <4>4. /\ a.w = p.seq /\ a.slots = d.slots /\ a.sink = d.sink
            /\ a.staged_count = d.staged_count /\ a.state = "Contig"
            /\ a.session = d.session
        BY <3>1, <4>1 DEF SequencerStates
      <4> HIDE DEF a
      <4> QED BY <3>1, <3>2, <4>2, <4>3, <4>4, <1>3, CoreEmpty
    <3>3. CASE d.state # "Init"
      BY <3>3, <1>3 DEF anchor
    <3> QED BY <3>2, <3>3
  <2>3. a.w \in Nat /\ p.seq \in Nat /\ span_last(p) \in Int /\ p.seq <= span_last(p)
    <3>1. p.count \in 1..MaxCount
      BY <2>1 DEF DataPackets
    <3>2. a.w \in Nat
      BY <2>2 DEF Core, Bounded, SequencerStates, U64
    <3> QED BY <1>1, <3>1, <3>2 DEF span_last
  <2> HIDE DEF a
  <2>4. CASE ~accepts_data(d, p) \/ is_duplicate(d, p)
    BY <2>4, <1>3, <1>6 DEF ingest, ingest_data, d
  <2>5. CASE ~is_duplicate(d, p) /\ p.seq <= a.w
    <3>1. a.w <= span_last(p)
      BY <2>2, <2>3, <2>5 DEF is_duplicate
    <3>2. Core(apply_in_order(a, p))
      BY <2>1, <2>2, <2>5, <3>1, InOrderCore
    <3> QED BY <3>2, <2>5, <1>3, <1>6 DEF ingest, ingest_data, d, a
  <2>6. CASE ~(p.seq <= a.w)
    <3>1. Core(apply_ahead(a, p))
      BY <2>1, <2>2, <2>3, <2>6, AheadCore
    <3> QED BY <3>1, <2>6, <1>3, <1>6 DEF ingest, ingest_data, d, a
  <2> QED BY <2>4, <2>5, <2>6
<1> QED BY <1>4, <1>5, <1>6

-----------------------------------------------------------------------------
\* Every call of the public interface, with every packet the wire can deliver,
\* preserves the invariant.
LEMMA NextCore ==
  ASSUME NoWrap, Core(q), [Next]_vars
  PROVE  Core(q')
<1>1. ASSUME NEW p \in Packets, Ingest(p) PROVE Core(q')
  BY <1>1, IngestCore DEF Ingest
<1>2. CASE \E p \in DataPackets : Ingest(p)
  BY <1>1, <1>2 DEF Packets
<1>3. CASE \E p \in Heartbeats : Ingest(p)
  BY <1>1, <1>3 DEF Packets
<1>4. CASE \E p \in EosPackets : Ingest(p)
  BY <1>1, <1>4 DEF Packets
<1>5. CASE RecoveryIntent
  BY <1>5, IntentCore DEF RecoveryIntent
<1>6. CASE Seal
  BY <1>6, EosCore DEF Seal
<1>7. CASE Reanchor
  BY <1>7, NewCore DEF Reanchor
<1>8. CASE Tick
  BY <1>8, TickCore DEF Tick
<1>9. CASE UNCHANGED vars
  BY <1>9 DEF vars
<1> QED BY <1>2, <1>3, <1>4, <1>5, <1>6, <1>7, <1>8, <1>9 DEF Next

\* The invariant holds in every reachable state.
THEOREM CoreInvariant ==
  ASSUME NoWrap
  PROVE  Spec => []Core(q)
<1>1. Init => Core(q)
  BY NewCore DEF Init
<1>2. Core(q) /\ [Next]_vars => Core(q)'
  BY NextCore
<1> QED BY <1>1, <1>2, PTL DEF Spec

\* The sequencer's fields keep their types; staged_count never wraps.
THEOREM TypeCorrect ==
  ASSUME NoWrap
  PROVE  Spec => []TypeOK
<1>1. Core(q) => TypeOK
  BY DEF Core, Bounded, TypeOK
<1> QED BY <1>1, CoreInvariant, PTL

\* W1 of the sequencer's design: at every quiescent point each staged message
\* lies strictly between W and W + WINDOW_SLOTS, in the slot of its own number,
\* with its own data, and staged_count counts the taken slots.
THEOREM WindowInvariant ==
  ASSUME NoWrap
  PROVE  Spec => []W1
<1>1. Core(q) => W1
  BY DEF Core, Fits, W1, StagedFrom
<1> QED BY <1>1, CoreInvariant, PTL

\* No zombie slot is ever emitted: the bytes handed downstream under a sequence
\* number are the bytes of that number in the current session.
THEOREM ZombieFreedom ==
  ASSUME NoWrap
  PROVE  Spec => []NoZombie
<1>1. Core(q) => NoZombie
  BY DEF Core, NoZombie
<1> QED BY <1>1, CoreInvariant, PTL
=============================================================================
