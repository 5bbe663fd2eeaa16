----------------------------- MODULE Gap_proofs -----------------------------
(***************************************************************************)
(* The gap protocol and the emission order of the sequencer: when a gap is *)
(* open, what the sink has been told about it, and that the numbers handed *)
(* downstream are consecutive.  The window invariant Core is the ground    *)
(* these proofs stand on.                                                  *)
(***************************************************************************)
EXTENDS Sequencer_proofs

\* the slot of number m is taken
Has(r, m) == r.slots[Slot(m)] # NoMsg

\* Evidence is where the packets ahead of W begin, so that from the evidence on no
\* staged number has a hole below it.
Dense(r) ==
    \A n \in r.w..(r.w + WINDOW_SLOTS - 1) : Has(r, n) =>
        \A m \in r.w..n : r.evidence_hwm <= m => Has(r, m)

\* what the sink knows of the gap
Told(r) ==
    /\ r.sink.gap_open_gen = (IF r.gap_active THEN r.gen ELSE NONE)
    /\ r.sink.gap_open_from # NONE => r.sink.gap_open_from <= r.w

\* An anchored sequencer inside ingest, before the gap is looked at again.
Mid(r) ==
    /\ r.state \in Running /\ r.session # NoSession
    /\ ~r.gap_active => r.evidence_hwm <= r.w /\ r.staged_count = 0
    /\ Told(r)
    /\ Dense(r)

\* The inductive invariant of the gap protocol.
Gap(r) ==
    /\ r.state = "Init" => /\ ~r.gap_active /\ r.evidence_hwm = 0
                           /\ r.sink.gap_open_gen = NONE /\ r.sink.gap_open_from = NONE
    /\ r.state \in Running => Mid(r) /\ (r.gap_active => r.w < r.evidence_hwm)
    /\ r.session = NoSession => r.w = 0 /\ r.state \in {"Init", "Dead"}

\* The inductive invariant of the emission order.
Order(r) ==
    /\ ~r.sink.failed /\ r.sink.last_gen <= r.gen
    /\ r.state = "Init" => r.sink.last_seq = 0
    /\ r.sink.last_seq # 0 => r.sink.last_seq + 1 = r.w

\* A packet that does not validate fails at its first block.
FailsAtOnce(p) == p.err # "ok" => p.good = 0

NoBadPrefix == MaxBadPrefix = 0

-----------------------------------------------------------------------------
\* The fields of a state the invariant holds of.
LEMMA StateTypes ==
  ASSUME NEW r, Core(r)
  PROVE  /\ r \in SequencerStates /\ r.w \in U64 /\ r.w \in Nat /\ r.w <= MaxW
         /\ r.gen \in Nat /\ r.state \in States /\ r.sink \in SinkStates
         /\ r.evidence_hwm \in Nat /\ r.sink.last_gen \in Nat
<1>1. r \in SequencerStates /\ r.w <= MaxW
  BY DEF Core, Bounded
<1>2. /\ r.w \in U64 /\ r.gen \in Nat /\ r.state \in States /\ r.sink \in SinkStates
      /\ r.evidence_hwm \in U64
  BY <1>1 DEF SequencerStates
<1>3. r.w \in Nat /\ r.evidence_hwm \in Nat
  BY <1>2, WireAssumption DEF U64
<1>4. r.sink.last_gen \in Nat
  BY <1>2 DEF SinkStates
<1> QED BY <1>1, <1>2, <1>3, <1>4

\* The fields of a packet, of whichever kind.
LEMMA PacketTypes ==
  ASSUME NEW p \in Packets
  PROVE  p.session \in Sessions /\ p.seq \in 0..MaxSeq /\ p.seq \in Nat /\ p.seq \in U64
<1>1. CASE p \in DataPackets
  BY <1>1, WireAssumption DEF DataPackets, U64
<1>2. CASE p \in Heartbeats
  BY <1>2, WireAssumption DEF Heartbeats, U64
<1>3. CASE p \in EosPackets
  BY <1>3, WireAssumption DEF EosPackets, U64
<1> QED BY <1>1, <1>2, <1>3 DEF Packets

\* Handlers that touch neither window, W, gap nor sink.
LEMMA GapFrame ==
  ASSUME NEW r, NEW r2, r2.w = r.w, r2.gen = r.gen, r2.session = r.session,
         r2.state = r.state, r2.gap_active = r.gap_active,
         r2.evidence_hwm = r.evidence_hwm, r2.staged_count = r.staged_count,
         r2.slots = r.slots, r2.sink = r.sink
  PROVE  /\ Gap(r) => Gap(r2)
         /\ Order(r) => Order(r2)
<1>1. Dense(r) => Dense(r2)
  BY DEF Dense, Has
<1>2. Mid(r) => Mid(r2)
  BY <1>1 DEF Mid, Told
<1>3. Gap(r) => Gap(r2)
  BY <1>2 DEF Gap
<1>4. Order(r) => Order(r2)
  BY DEF Order
<1> QED BY <1>3, <1>4

\* Two numbers of one window with the same slot are the same number.
LEMMA SameNumber ==
  ASSUME NEW w \in Nat, NEW a \in w..(w + WINDOW_SLOTS - 1),
         NEW b \in w..(w + WINDOW_SLOTS - 1), Slot(a) = Slot(b)
  PROVE  a = b
<1>1. a \in Nat /\ b \in Nat /\ a < b + WINDOW_SLOTS /\ b < a + WINDOW_SLOTS
  BY WindowAssumption
<1> QED BY <1>1, SlotInjective

\* A window that fits holds at number n nothing but n's own message.
LEMMA HasOwn ==
  ASSUME NEW r, NEW w \in Nat, Fits(r, w, w + WINDOW_SLOTS - 1),
         NEW n \in w..(w + WINDOW_SLOTS - 1), Has(r, n)
  PROVE  r.slots[Slot(n)] = Msg(r.session, n)
<1>1. n \in Nat
  BY WindowAssumption
<1>2. Slot(n) \in Occupied(r.slots)
  BY <1>1, SlotType DEF Has, Occupied, Ring
<1>3. PICK m \in w..(w + WINDOW_SLOTS - 1) : m < MaxW /\ Holds(r, Slot(n), m)
  BY <1>2 DEF Fits
<1>4. m = n
  BY <1>3, SameNumber DEF Holds
<1> QED BY <1>3, <1>4 DEF Holds

\* W advances and the slots behind it are given up: what is left is still dense.
LEMMA DenseAdvance ==
  ASSUME NEW r, NEW c, r.w \in Nat, c.w \in Nat, r.w <= c.w,
         Fits(r, r.w, r.w + WINDOW_SLOTS - 1), Fits(c, c.w, c.w + WINDOW_SLOTS - 1),
         c.session = r.session, c.evidence_hwm = r.evidence_hwm,
         Keeps(r, c), SameSlots(r, c, c.w, r.w + WINDOW_SLOTS - 1), Dense(r)
  PROVE  Dense(c)
<1> SUFFICES ASSUME NEW n \in c.w..(c.w + WINDOW_SLOTS - 1), Has(c, n),
                    NEW m \in c.w..n, c.evidence_hwm <= m
             PROVE  Has(c, m)
  BY DEF Dense
<1>1. n \in Nat /\ m \in Nat /\ c.w <= m /\ m <= n
  BY WindowAssumption
<1>2. c.slots[Slot(n)] = Msg(r.session, n)
  BY HasOwn
<1>3. Slot(n) \in Occupied(c.slots)
  BY <1>1, SlotType DEF Has, Occupied, Ring
<1>4. Slot(n) \in Occupied(r.slots) /\ r.slots[Slot(n)] = c.slots[Slot(n)]
  BY <1>3 DEF Keeps
<1>5. PICK k \in r.w..(r.w + WINDOW_SLOTS - 1) : Holds(r, Slot(n), k)
  BY <1>4 DEF Fits
<1>6. k = n
  BY <1>2, <1>4, <1>5 DEF Holds, Msg
<1>7. n \in r.w..(r.w + WINDOW_SLOTS - 1) /\ m \in r.w..n /\ Has(r, n)
  BY <1>1, <1>4, <1>5, <1>6 DEF Occupied, Has
<1>8. Has(r, m)
  BY <1>7 DEF Dense
<1>9. m \in c.w..(r.w + WINDOW_SLOTS - 1)
  BY <1>1, <1>7, WindowAssumption
<1> QED BY <1>8, <1>9 DEF SameSlots, Has

\* e is the sink k after the n numbers from lo on under generation gen: what it
\* knows of gaps is unchanged, and consecutive numbers of a generation that is not
\* older than the last one pass its assertions
Emits(k, e, gen, lo, n) ==
    /\ e.gap_open_gen = k.gap_open_gen /\ e.gap_open_from = k.gap_open_from
    /\ e.last_gen = k.last_gen
    /\ n = 0 => e = k
    /\ n # 0 => e.last_seq = lo + n - 1
    /\ ~k.failed /\ k.last_gen <= gen /\ (k.last_seq # 0 => k.last_seq + 1 = lo)
          => ~e.failed

\* That is what on_msgs does with messages of the right data.
LEMMA MsgsOrder ==
  ASSUME NEW k \in SinkStates, NEW gen \in Nat, NEW lo \in Nat, NEW n \in Nat,
         lo + n <= U64_MAX
  PROVE  Emits(k, on_msgs(k, gen, lo, n, TRUE), gen, lo, n)
<1> DEFINE e == on_msgs(k, gen, lo, n, TRUE)
<1> USE WireAssumption
<1>1. CASE n = 0
  BY <1>1 DEF on_msgs, Emits
<1>2. CASE n # 0
  <2> DEFINE broken == gen < k.last_gen \/ (k.last_seq # 0 /\ lo # Add(k.last_seq, 1))
  <2>1. e = [k EXCEPT !.failed = k.failed \/ gen < k.last_gen
                                          \/ (k.last_seq # 0 /\ lo # Add(k.last_seq, 1)),
                      !.last_seq = Add(lo, n - 1), !.corrupt = k.corrupt \/ ~TRUE]
    BY <1>2 DEF on_msgs
  <2>2. /\ e.gap_open_gen = k.gap_open_gen /\ e.gap_open_from = k.gap_open_from
        /\ e.last_gen = k.last_gen /\ e.last_seq = Add(lo, n - 1)
        /\ e.failed = (k.failed \/ broken)
    BY <2>1 DEF SinkStates
  <2>3. Add(lo, n - 1) = lo + n - 1
    <3>1. n - 1 \in Nat /\ lo + (n - 1) <= U64_MAX /\ lo + (n - 1) = lo + n - 1
      BY <1>2
    <3> HIDE DEF broken
    <3> QED BY <3>1, AddExact
  <2>4. ASSUME k.last_gen <= gen, k.last_seq # 0 => k.last_seq + 1 = lo
        PROVE  ~broken
    <3>1. k.last_gen \in Nat /\ k.last_seq \in Nat
      BY DEF SinkStates, U64
    <3>2. k.last_seq # 0 => Add(k.last_seq, 1) = lo
      BY <2>4, <3>1, AddExact
    <3> QED BY <2>4, <3>1, <3>2
  <2> HIDE DEF broken, e
  <2>5. Emits(k, e, gen, lo, n)
    BY <1>2, <2>2, <2>3, <2>4 DEF Emits
  <2> QED BY <2>5 DEF e
<1> QED BY <1>1, <1>2

\* A window strictly ahead of W is a window from W on.
LEMMA FitsWeaken ==
  ASSUME NEW r, r.w \in Nat, Fits(r, r.w + 1, r.w + WINDOW_SLOTS - 1)
  PROVE  Fits(r, r.w, r.w + WINDOW_SLOTS - 1)
<1>1. (r.w + 1)..(r.w + WINDOW_SLOTS - 1) \subseteq r.w..(r.w + WINDOW_SLOTS - 1)
  BY WindowAssumption
<1> QED BY <1>1 DEF Fits

\* Something staged means some number of the window has its slot taken.
LEMMA StagedHas ==
  ASSUME NEW r, Counted(r), r.staged_count # 0, r.w \in Nat,
         Fits(r, r.w + 1, r.w + WINDOW_SLOTS - 1)
  PROVE  \E n \in (r.w + 1)..(r.w + WINDOW_SLOTS - 1) : Has(r, n)
<1>1. Occupied(r.slots) # {}
  BY FS_EmptySet DEF Counted
<1>2. PICK i \in Occupied(r.slots) : TRUE
  BY <1>1
<1>3. PICK n \in (r.w + 1)..(r.w + WINDOW_SLOTS - 1) : Holds(r, i, n)
  BY <1>2 DEF Fits
<1> QED BY <1>2, <1>3 DEF Holds, Has, Occupied

\* The other way round.
LEMMA HasStaged ==
  ASSUME NEW r, Counted(r), r.staged_count = 0, NEW n \in Nat
  PROVE  ~Has(r, n)
<1>1. Occupied(r.slots) = {}
  BY EmptyWindow
<1> QED BY <1>1, SlotType DEF Has, Occupied, Ring

\* Drain keeps the gap protocol and the order; what it leaves staged lies behind a
\* hole, and that hole is below the evidence.
LEMMA DrainGap ==
  ASSUME NoWrap, NEW r, Bounded(r), Counted(r),
         Fits(r, r.w, r.w + WINDOW_SLOTS - 1), Mid(r), NEW d, d = drain_progress(r)
  PROVE  /\ Mid(d) /\ (d.staged_count # 0 => d.w < d.evidence_hwm)
         /\ r.w <= d.w /\ d.session = r.session
         /\ Order(r) => Order(d)
<1> DEFINE f == drain(r)
<1>0. /\ WINDOW_SLOTS \in Nat /\ WINDOW_SLOTS # 0 /\ MaxSeq \in Nat /\ MaxCount \in Nat
      /\ U64_MAX \in Nat /\ MAX_WIRE_REQUEST \in Nat
  BY WindowAssumption, WireAssumption, IntentAssumption
<1>1. PICK n \in 0..WINDOW_SLOTS : Drains(r, f, n)
  BY DrainLemma
<1> HIDE DEF f
<1>2. /\ r \in SequencerStates /\ r.w \in Nat /\ r.gen \in Nat
      /\ r.sink \in SinkStates /\ n \in Nat /\ r.evidence_hwm \in Nat
  BY <1>0 DEF Bounded, SequencerStates, U64
<1>3. /\ f.w = r.w + n /\ f.gen = r.gen /\ f.session = r.session
      /\ f.state = r.state /\ f.gap_active = r.gap_active
      /\ f.evidence_hwm = r.evidence_hwm
      /\ f.sink = on_msgs(r.sink, r.gen, r.w, n, TRUE)
  BY <1>1, <1>2 DEF SequencerStates, Drains
<1>4. /\ d.w = f.w /\ d.gen = f.gen /\ d.session = f.session /\ d.state = f.state
      /\ d.gap_active = f.gap_active /\ d.evidence_hwm = f.evidence_hwm
      /\ d.staged_count = f.staged_count /\ d.slots = f.slots /\ d.sink = f.sink
  <2>1. d = f \/ d = [f EXCEPT !.progress_age = 0]
    BY DEF drain_progress, f
  <2>2. DOMAIN f = DOMAIN r
    BY <1>1 DEF Drains
  <2> QED BY <2>1, <2>2, <1>2 DEF SequencerStates
<1>5. r.w + n <= U64_MAX
  BY <1>0, <1>1, <1>2 DEF NoWrap, MaxW, Drains
<1>6. Emits(r.sink, f.sink, r.gen, r.w, n)
  BY <1>2, <1>3, <1>5, MsgsOrder
<1>7. f.w \in Nat /\ r.w <= f.w
  BY <1>2, <1>3
<1>8. Fits(f, f.w, f.w + WINDOW_SLOTS - 1)
  BY <1>1, <1>7, FitsWeaken DEF Drains
<1>9. Dense(f)
  BY <1>1, <1>2, <1>3, <1>7, <1>8, DenseAdvance DEF Mid, Drains
<1>10. Told(f)
  <2>1. r.sink.gap_open_from \in U64 \cup {NONE}
    BY <1>2 DEF SinkStates
  <2>2. r.sink.gap_open_from # NONE => r.sink.gap_open_from \in Nat
    BY <2>1, <1>0 DEF U64
  <2>3. Told(r)
    BY DEF Mid
  <2>4. r.sink.gap_open_from # NONE => r.sink.gap_open_from <= f.w
    BY <2>2, <2>3, <1>2, <1>7 DEF Told
  <2>5. /\ f.sink.gap_open_gen = r.sink.gap_open_gen
        /\ f.sink.gap_open_from = r.sink.gap_open_from
    BY <1>6 DEF Emits
  <2> QED BY <2>3, <2>4, <2>5, <1>3 DEF Told
<1>11. ASSUME f.staged_count # 0 PROVE f.w < f.evidence_hwm
  <2>1. PICK k \in (f.w + 1)..(f.w + WINDOW_SLOTS - 1) : Has(f, k)
    BY <1>1, <1>7, <1>11, StagedHas DEF Drains
  <2>2. k \in f.w..(f.w + WINDOW_SLOTS - 1) /\ f.w \in f.w..k
    BY <1>0, <1>7
  <2>3. ~Has(f, f.w)
    BY <1>1, <1>3, <1>11 DEF Run, Has, Drains
  <2>4. ~(f.evidence_hwm <= f.w)
    BY <2>1, <2>2, <2>3, <1>9 DEF Dense
  <2> QED BY <2>4, <1>2, <1>3, <1>7
<1>12. ~f.gap_active => f.evidence_hwm <= f.w /\ f.staged_count = 0
  <2>1. ASSUME ~f.gap_active PROVE f.evidence_hwm <= f.w
    BY <2>1, <1>2, <1>3 DEF Mid
  <2> QED BY <2>1, <1>2, <1>3, <1>7, <1>11
<1>13. Mid(f)
  BY <1>3, <1>9, <1>10, <1>12 DEF Mid
<1>14. Order(r) => Order(f)
  <2>1. r.state # "Init"
    BY DEF Mid, Running
  <2>2. r.sink.last_seq \in Nat
    BY <1>2 DEF SinkStates, U64
  <2> DEFINE top == f.sink.last_seq
  <2>5. f.w = r.w + n /\ (n = 0 => f.sink = r.sink) /\ (n # 0 => top = r.w + n - 1)
    BY <1>3, <1>6, Zenon DEF Emits
  <2>3. CASE n = 0
    <3>1. f.sink = r.sink /\ f.w = r.w
      BY <2>3, <2>5, <1>2
    <3> QED BY <3>1, <1>3 DEF Order
  <2>4. CASE n # 0
    <3>1. f.sink.last_seq + 1 = f.w
      <4> HIDE DEF top
      <4>1. top + 1 = f.w
        BY <2>4, <2>5, <1>2
      <4> QED BY <4>1 DEF top
    <3>2. Order(r) => ~f.sink.failed /\ f.sink.last_gen <= f.gen
      BY <1>3, <1>6 DEF Order, Emits
    <3> QED BY <2>1, <3>1, <3>2, <1>3 DEF Order
  <2> QED BY <2>3, <2>4
<1>15. Mid(d) /\ (Order(r) => Order(d))
  BY <1>4, <1>13, <1>14 DEF Mid, Told, Dense, Has, Order
<1> QED BY <1>3, <1>4, <1>7, <1>11, <1>15

\* What the sink's events do to the fields the gap protocol is about.
LEMMA SinkEvents ==
  ASSUME NEW k \in SinkStates, NEW gen \in Nat, NEW x \in U64
  PROVE  /\ LET e == on_gap_opened(k, gen, x) IN
            /\ e.gap_open_gen = gen /\ e.gap_open_from = x /\ e.last_gen = gen
            /\ e.last_seq = k.last_seq
            /\ ~k.failed /\ k.last_gen < gen /\ k.gap_open_gen = NONE => ~e.failed
         /\ LET e == on_reanchored(k, gen, x) IN
            /\ e.gap_open_gen = NONE /\ e.gap_open_from = NONE
            /\ e.last_gen = k.last_gen /\ e.last_seq = k.last_seq
            /\ ~k.failed /\ k.gap_open_gen = gen
                  /\ (k.gap_open_from # NONE => k.gap_open_from <= x) => ~e.failed
         /\ LET e == on_session_boundary(k, gen) IN
            /\ e.gap_open_gen = NONE /\ e.gap_open_from = NONE
            /\ e.last_gen = gen /\ e.last_seq = 0
            /\ ~k.failed /\ k.last_gen < gen => ~e.failed
         /\ LET e == on_terminal(k) IN
            /\ e.last_gen = k.last_gen /\ e.last_seq = k.last_seq /\ e.failed = k.failed
<1>0. k.last_gen \in Nat /\ x \in Nat
      /\ (k.gap_open_from # NONE => k.gap_open_from \in Nat)
  BY WireAssumption DEF SinkStates, U64
<1>1. LET e == on_gap_opened(k, gen, x) IN
      /\ e.gap_open_gen = gen /\ e.gap_open_from = x /\ e.last_gen = gen
      /\ e.last_seq = k.last_seq
      /\ ~k.failed /\ k.last_gen < gen /\ k.gap_open_gen = NONE => ~e.failed
  BY <1>0 DEF on_gap_opened, SinkStates
<1>2. LET e == on_reanchored(k, gen, x) IN
      /\ e.gap_open_gen = NONE /\ e.gap_open_from = NONE
      /\ e.last_gen = k.last_gen /\ e.last_seq = k.last_seq
      /\ ~k.failed /\ k.gap_open_gen = gen
            /\ (k.gap_open_from # NONE => k.gap_open_from <= x) => ~e.failed
  BY <1>0 DEF on_reanchored, SinkStates
<1>3. LET e == on_session_boundary(k, gen) IN
      /\ e.gap_open_gen = NONE /\ e.gap_open_from = NONE
      /\ e.last_gen = gen /\ e.last_seq = 0
      /\ ~k.failed /\ k.last_gen < gen => ~e.failed
  BY <1>0 DEF on_session_boundary, SinkStates
<1>4. LET e == on_terminal(k) IN
      /\ e.last_gen = k.last_gen /\ e.last_seq = k.last_seq /\ e.failed = k.failed
  BY DEF on_terminal, SinkStates
<1> QED BY <1>1, <1>2, <1>3, <1>4

\* Evidence beyond W opens the gap or widens it; the sink hears of it once, under
\* the generation the gap gets (gap.rs gap_evidence).
LEMMA EvidenceGap ==
  ASSUME NEW r, Core(r), Mid(r), r.gap_active => r.w < r.evidence_hwm,
         NEW x \in U64, r.w < x, NEW g, g = gap_evidence(r, x)
  PROVE  /\ Mid(g) /\ g.gap_active /\ g.w < g.evidence_hwm /\ x <= g.evidence_hwm
         /\ g.w = r.w
         /\ Order(r) => Order(g)
<1>1. /\ r \in SequencerStates /\ r.w \in U64 /\ r.w \in Nat /\ r.gen \in Nat
      /\ r.gen + 1 \in Nat /\ r.sink \in SinkStates /\ r.evidence_hwm \in Nat /\ x \in Nat
      /\ r.sink.last_gen \in Nat
  BY WireAssumption DEF Core, Bounded, SequencerStates, SinkStates, U64
<1>2. CASE ~r.gap_active
  <2> DEFINE e == on_gap_opened(r.sink, r.gen + 1, r.w)
  <2>1. g = [r EXCEPT !.gap_active = TRUE, !.gen = r.gen + 1, !.state = "Gap",
                      !.evidence_hwm = x, !.sink = e]
    BY <1>1, <1>2 DEF gap_evidence
  <2>2. /\ e.gap_open_gen = r.gen + 1 /\ e.gap_open_from = r.w
        /\ e.last_gen = r.gen + 1 /\ e.last_seq = r.sink.last_seq
        /\ ~r.sink.failed /\ r.sink.last_gen < r.gen + 1 /\ r.sink.gap_open_gen = NONE
              => ~e.failed
    BY <1>1, SinkEvents
  <2> HIDE DEF e
  <2>3. /\ g.gap_active = TRUE /\ g.gen = r.gen + 1 /\ g.state = "Gap" /\ g.evidence_hwm = x
        /\ g.sink = e /\ g.w = r.w /\ g.session = r.session /\ g.slots = r.slots
        /\ g.staged_count = r.staged_count
    BY <2>1, <1>1 DEF SequencerStates
  <2>4. r.staged_count = 0 /\ Counted(r) /\ r.sink.gap_open_gen = NONE
    BY <1>2 DEF Mid, Core, Told
  <2>5. Dense(g)
    <3>1. ASSUME NEW n \in g.w..(g.w + WINDOW_SLOTS - 1) PROVE ~Has(g, n)
      <4>1. n \in Nat
        BY <1>1, <2>3, WindowAssumption
      <4>2. ~Has(r, n)
        BY <4>1, <2>4, HasStaged
      <4> QED BY <4>2, <2>3 DEF Has
    <3> QED BY <3>1 DEF Dense
  <2>6. Told(g)
    BY <1>1, <2>2, <2>3 DEF Told
  <2>7. Mid(g)
    BY <2>3, <2>5, <2>6 DEF Mid, Running
  <2>8. Order(r) => Order(g)
    <3>1. r.sink.last_gen <= r.gen => r.sink.last_gen < r.gen + 1
      BY <1>1
    <3>2. g.sink.last_gen <= g.gen
      BY <1>1, <2>2, <2>3
    <3> QED BY <3>1, <3>2, <2>2, <2>3, <2>4 DEF Order
  <2> QED BY <1>1, <2>3, <2>7, <2>8
<1>3. CASE r.gap_active
  <2>1. g = [r EXCEPT !.evidence_hwm = Larger(r.evidence_hwm, x)]
    BY <1>3 DEF gap_evidence
  <2>2. /\ g.gap_active = r.gap_active /\ g.gen = r.gen /\ g.state = r.state
        /\ g.evidence_hwm = Larger(r.evidence_hwm, x)
        /\ g.sink = r.sink /\ g.w = r.w /\ g.session = r.session /\ g.slots = r.slots
        /\ g.staged_count = r.staged_count
    BY <2>1, <1>1 DEF SequencerStates
  <2>3. r.evidence_hwm <= g.evidence_hwm /\ x <= g.evidence_hwm /\ g.evidence_hwm \in Nat
    BY <2>2, <1>1 DEF Larger
  <2>4. Dense(g)
    <3> SUFFICES ASSUME NEW n \in g.w..(g.w + WINDOW_SLOTS - 1), Has(g, n),
                        NEW m \in g.w..n, g.evidence_hwm <= m
                 PROVE  Has(g, m)
      BY DEF Dense
    <3>1. r.evidence_hwm <= m
      BY <1>1, <2>2, <2>3, WindowAssumption
    <3> QED BY <3>1, <2>2 DEF Dense, Has, Mid
  <2>5. Mid(g)
    BY <1>3, <2>2, <2>4 DEF Mid, Told
  <2>6. Order(r) => Order(g)
    BY <2>2 DEF Order
  <2> QED BY <1>1, <1>3, <2>2, <2>3, <2>5, <2>6
<1> QED BY <1>2, <1>3

\* W at the evidence closes the gap, W below it leaves it open (gap.rs
\* check_gap_close): the protocol holds again.
LEMMA CloseGap ==
  ASSUME NEW r, Core(r), Mid(r), r.staged_count # 0 => r.w < r.evidence_hwm,
         NEW g, g = check_gap_close(r)
  PROVE  Gap(g) /\ g.w = r.w /\ g.session = r.session /\ (Order(r) => Order(g))
<1>1. /\ r \in SequencerStates /\ r.w \in U64 /\ r.w \in Nat /\ r.gen \in Nat
      /\ r.sink \in SinkStates /\ r.evidence_hwm \in Nat /\ Counted(r)
  BY WireAssumption DEF Core, Bounded, SequencerStates, U64
<1>2. CASE r.gap_active /\ r.w >= r.evidence_hwm
  <2> DEFINE e == on_reanchored(r.sink, r.gen, r.w)
  <2>1. g = [r EXCEPT !.gap_active = FALSE, !.state = "Contig", !.evidence_hwm = 0,
                      !.sink = e]
    BY <1>2 DEF check_gap_close
  <2>2. /\ e.gap_open_gen = NONE /\ e.gap_open_from = NONE
        /\ e.last_gen = r.sink.last_gen /\ e.last_seq = r.sink.last_seq
        /\ ~r.sink.failed /\ r.sink.gap_open_gen = r.gen
              /\ (r.sink.gap_open_from # NONE => r.sink.gap_open_from <= r.w) => ~e.failed
    BY <1>1, SinkEvents
  <2> HIDE DEF e
  <2>3. /\ g.gap_active = FALSE /\ g.gen = r.gen /\ g.state = "Contig" /\ g.evidence_hwm = 0
        /\ g.sink = e /\ g.w = r.w /\ g.session = r.session /\ g.slots = r.slots
        /\ g.staged_count = r.staged_count
    BY <2>1, <1>1 DEF SequencerStates
  <2>4. r.staged_count = 0
    BY <1>1, <1>2
  <2>5. Dense(g)
    <3>1. ASSUME NEW n \in g.w..(g.w + WINDOW_SLOTS - 1) PROVE ~Has(g, n)
      <4>1. n \in Nat
        BY <1>1, <2>3, WindowAssumption
      <4>2. ~Has(r, n)
        BY <4>1, <1>1, <2>4, HasStaged
      <4> QED BY <4>2, <2>3 DEF Has
    <3> QED BY <3>1 DEF Dense
  <2>6. Told(g)
    BY <2>2, <2>3 DEF Told
  <2>7. Mid(g)
    BY <1>1, <2>3, <2>4, <2>5, <2>6 DEF Mid, Running
  <2>8. Gap(g)
    BY <2>3, <2>7 DEF Gap, Mid
  <2>9. r.sink.gap_open_gen = r.gen
        /\ (r.sink.gap_open_from # NONE => r.sink.gap_open_from <= r.w)
    BY <1>2 DEF Mid, Told
  <2>10. Order(r) => Order(g)
    BY <2>2, <2>3, <2>9 DEF Order
  <2> QED BY <2>3, <2>8, <2>10
<1>3. CASE ~(r.gap_active /\ r.w >= r.evidence_hwm)
  <2>1. g = r
    BY <1>3 DEF check_gap_close
  <2>2. r.gap_active => r.w < r.evidence_hwm
    BY <1>1, <1>3
  <2> QED BY <2>1, <2>2 DEF Gap, Mid, Running
<1> QED BY <1>2, <1>3

\* Mid, with the gap open where the evidence lies ahead, is the protocol.
LEMMA MidGap ==
  ASSUME NEW r, Mid(r), r.gap_active => r.w < r.evidence_hwm
  PROVE  Gap(r)
  BY DEF Gap, Mid, Running

\* Handlers that only keep time or write down what to ask for.
LEMMA QuietGap ==
  ASSUME NEW r, Core(r)
  PROVE  \A r2 \in {retire_pending(r), tick(r), check_recovery_intent(r)} :
            r2.w = r.w /\ r2.session = r.session /\ (Gap(r) => Gap(r2)) /\ (Order(r) => Order(r2))
<1> SUFFICES ASSUME NEW r2 \in {retire_pending(r), tick(r), check_recovery_intent(r)}
             PROVE  r2.w = r.w /\ r2.session = r.session /\ (Gap(r) => Gap(r2)) /\ (Order(r) => Order(r2))
  OBVIOUS
<1>1. r \in SequencerStates
  BY DEF Core, Bounded
<1>2. /\ r2.w = r.w /\ r2.gen = r.gen /\ r2.session = r.session
      /\ r2.state = r.state /\ r2.gap_active = r.gap_active
      /\ r2.evidence_hwm = r.evidence_hwm /\ r2.staged_count = r.staged_count
      /\ r2.slots = r.slots /\ r2.sink = r.sink
  <2>1. CASE r2 = retire_pending(r)
    BY <2>1, <1>1 DEF SequencerStates, retire_pending
  <2>2. CASE r2 = tick(r)
    BY <2>2, <1>1 DEF SequencerStates, tick
  <2>3. CASE r2 = check_recovery_intent(r)
    BY <2>3, <1>1 DEF SequencerStates, check_recovery_intent
  <2> QED BY <2>1, <2>2, <2>3
<1> QED BY <1>2, GapFrame

\* A new session starts with no gap and nothing emitted; only one with an older
\* generation would upset the sink.
LEMMA SessionDispatchGap ==
  ASSUME NEW r, Core(r), Gap(r), NEW s \in Sessions, NEW d, d = session_dispatch(r, s),
         r.state # "Dead"
  PROVE  /\ Gap(d) /\ d.session = s /\ d.state # "Dead"
         /\ Order(r) => Order(d)
         /\ d = r \/ (d.state = "Init" /\ r.session # s)
<1>1. /\ r \in SequencerStates /\ r.gen \in Nat /\ r.gen + 1 \in Nat
      /\ r.sink \in SinkStates /\ 0 \in U64 /\ r.sink.last_gen \in Nat
  BY WireAssumption DEF Core, Bounded, SequencerStates, SinkStates, U64
<1>2. CASE r.session = NoSession
  <2>1. d = [r EXCEPT !.session = s] /\ s # NoSession
    BY <1>2, SessionAssumption DEF session_dispatch
  <2>2. /\ d.w = r.w /\ d.gen = r.gen /\ d.session = s /\ d.state = r.state
        /\ d.gap_active = r.gap_active /\ d.evidence_hwm = r.evidence_hwm
        /\ d.staged_count = r.staged_count /\ d.slots = r.slots /\ d.sink = r.sink
    BY <2>1, <1>1 DEF SequencerStates
  <2>3. r.state = "Init"
    BY <1>2 DEF Gap
  <2>4. Gap(d)
    BY <2>1, <2>2, <2>3 DEF Gap, Running
  <2>5. Order(r) => Order(d)
    BY <2>2 DEF Order
  <2> QED BY <1>2, <2>1, <2>2, <2>3, <2>4, <2>5
<1>3. CASE r.session # NoSession /\ r.session # s
  <2> DEFINE e == on_session_boundary(r.sink, r.gen + 1)
  <2>1. d = session_boundary(r, s)
    BY <1>3 DEF session_dispatch
  <2>2. /\ e.gap_open_gen = NONE /\ e.gap_open_from = NONE
        /\ e.last_gen = r.gen + 1 /\ e.last_seq = 0
        /\ ~r.sink.failed /\ r.sink.last_gen < r.gen + 1 => ~e.failed
    BY <1>1, SinkEvents
  <2>3. /\ d.gen = r.gen + 1 /\ d.session = s /\ d.state = "Init"
        /\ d.gap_active = FALSE /\ d.evidence_hwm = 0 /\ d.sink = e
    BY <2>1, <1>1 DEF SequencerStates, session_boundary
  <2> HIDE DEF e
  <2>4. Gap(d)
    BY <2>2, <2>3, SessionAssumption DEF Gap, Running
  <2>5. Order(r) => Order(d)
    <3>1. r.sink.last_gen <= r.gen => r.sink.last_gen < r.gen + 1
      BY <1>1
    <3>2. d.sink.last_gen <= d.gen
      BY <1>1, <2>2, <2>3
    <3> QED BY <3>1, <3>2, <2>2, <2>3 DEF Order
  <2> QED BY <1>3, <2>3, <2>4, <2>5
<1>4. CASE r.session = s
  BY <1>4, SessionAssumption DEF session_dispatch
<1> QED BY <1>2, <1>3, <1>4

\* A heartbeat in any state.
LEMMA HeartbeatGap ==
  ASSUME NEW r, Core(r), Gap(r), NEW x \in U64, NEW h, h = handle_heartbeat(r, x)
  PROVE  Gap(h) /\ h.w = r.w /\ (Order(r) => Order(h))
<1> DEFINE heard == [r EXCEPT !.hb_seq = x, !.hb_age = 0]
<1>1. r \in SequencerStates /\ 0 \in Ages
  BY IntentAssumption DEF Core, Bounded, Ages
<1>2. /\ heard.w = r.w /\ heard.gen = r.gen /\ heard.session = r.session
      /\ heard.state = r.state /\ heard.gap_active = r.gap_active
      /\ heard.evidence_hwm = r.evidence_hwm /\ heard.staged_count = r.staged_count
      /\ heard.slots = r.slots /\ heard.sink = r.sink
      /\ heard \in SequencerStates
  BY <1>1 DEF SequencerStates
<1> HIDE DEF heard
<1>3. Gap(heard) /\ (Order(r) => Order(heard)) /\ Core(heard)
  BY <1>2, GapFrame, CoreFrame
<1>4. CASE r.state = "Init"
  BY <1>2, <1>3, <1>4 DEF handle_heartbeat, heard
<1>5. CASE r.state # "Init" /\ r.state \in Running /\ x > r.w
  <2> DEFINE g == gap_evidence(heard, x)
  <2>1. h = g
    BY <1>5 DEF handle_heartbeat, heard
  <2>2. Mid(heard) /\ (heard.gap_active => heard.w < heard.evidence_hwm) /\ heard.w < x
    <3>1. r.w \in Nat /\ x \in Nat
      BY <1>1 DEF SequencerStates, U64
    <3> QED BY <3>1, <1>2, <1>3, <1>5 DEF Gap
  <2> HIDE DEF g
  <2>3. /\ Mid(g) /\ g.gap_active /\ g.w < g.evidence_hwm /\ g.w = heard.w
        /\ Order(heard) => Order(g)
    BY <1>3, <2>2, EvidenceGap DEF g
  <2> QED BY <1>2, <1>3, <2>1, <2>3, MidGap
<1>6. CASE r.state # "Init" /\ ~(r.state \in Running /\ x > r.w)
  BY <1>6 DEF handle_heartbeat
<1> QED BY <1>4, <1>5, <1>6

\* An end of session and a seal end the gap with the session; an early end only
\* makes the session persist.
LEMMA EosGap ==
  ASSUME NEW r, Core(r), Gap(r), NEW x, NEW h,
         \/ h = handle_eos(r, x) /\ r.session # NoSession /\ r.state # "Dead"
         \/ h = seal(r)
  PROVE  Gap(h) /\ h.w = r.w /\ (Order(r) => Order(h))
<1>1. r \in SequencerStates /\ r.sink \in SinkStates
  BY DEF Core, Bounded, SequencerStates
<1>2. ASSUME NEW st \in {"Ended", "Dead"}, st = "Dead" \/ r.session # NoSession,
             h = [r EXCEPT !.state = st, !.sink = on_terminal(r.sink)]
      PROVE  Gap(h) /\ h.w = r.w /\ (Order(r) => Order(h))
  <2>1. /\ h.state = st /\ h.sink = on_terminal(r.sink) /\ h.w = r.w
        /\ h.session = r.session /\ h.gen = r.gen
    BY <1>1, <1>2 DEF SequencerStates
  <2>2. st \notin Running /\ st # "Init"
    BY <1>2 DEF Running
  <2>3. /\ h.sink.last_gen = r.sink.last_gen /\ h.sink.last_seq = r.sink.last_seq
        /\ h.sink.failed = r.sink.failed
    BY <1>1, <2>1 DEF on_terminal, SinkStates
  <2>4. Gap(h)
    BY <1>2, <2>1, <2>2 DEF Gap
  <2>5. Order(r) => Order(h)
    BY <2>1, <2>2, <2>3 DEF Order
  <2> QED BY <2>1, <2>4, <2>5
<1>3. ASSUME h = [r EXCEPT !.state = "EosPersist"], r.state \in Running
      PROVE  Gap(h) /\ h.w = r.w /\ (Order(r) => Order(h))
  <2>1. /\ h.w = r.w /\ h.gen = r.gen /\ h.session = r.session
        /\ h.state = "EosPersist" /\ h.gap_active = r.gap_active
        /\ h.evidence_hwm = r.evidence_hwm /\ h.staged_count = r.staged_count
        /\ h.slots = r.slots /\ h.sink = r.sink
    BY <1>1, <1>3 DEF SequencerStates
  <2>2. Mid(h)
    BY <1>3, <2>1 DEF Gap, Mid, Told, Dense, Has, Running
  <2>3. Gap(h)
    BY <1>3, <2>1, <2>2, MidGap DEF Gap
  <2>4. Order(r) => Order(h)
    BY <2>1 DEF Order
  <2> QED BY <2>1, <2>3, <2>4
<1>4. r.state \in Running \cup {"Init", "Ended", "Dead"}
  BY <1>1 DEF SequencerStates, States, Running
<1>5. CASE h = r
  BY <1>5
<1> QED BY <1>2, <1>3, <1>4, <1>5 DEF handle_eos, end_session, seal

\* Drain, close the gap and retire what was asked for: the tail of both branches
\* of ingest, from a window that may begin at W.
LEMMA TailGap ==
  ASSUME NoWrap, NEW r, Bounded(r), Counted(r),
         Fits(r, r.w, r.w + WINDOW_SLOTS - 1), Mid(r), Core(drain_progress(r)),
         NEW h, h = retire_pending(check_gap_close(drain_progress(r)))
  PROVE  Gap(h) /\ r.w <= h.w /\ h.session = r.session /\ (Order(r) => Order(h))
<1> DEFINE d == drain_progress(r)
           g == check_gap_close(d)
<1>1. /\ Mid(d) /\ (d.staged_count # 0 => d.w < d.evidence_hwm)
      /\ r.w <= d.w /\ d.session = r.session /\ (Order(r) => Order(d))
  BY DrainGap
<1> HIDE DEF d
<1>2. Core(d)
  BY DEF d
<1>3. Gap(g) /\ g.w = d.w /\ g.session = d.session /\ (Order(d) => Order(g))
  BY <1>1, <1>2, CloseGap
<1>4. Core(g)
  BY <1>2, CheckGapCloseCore
<1> HIDE DEF g
<1>5. h = retire_pending(g)
  BY DEF g, d
<1> QED BY <1>1, <1>3, <1>4, <1>5, QuietGap

\* How many blocks of an in-order packet are emitted: all the new ones when the
\* walk succeeds, none when it fails and packets fail at their first block.
LEMMA InOrderHanded ==
  ASSUME NEW p \in DataPackets, NEW w \in Nat, p.seq <= w, w <= span_last(p),
         NEW n, n = walk_handed(p, w - p.seq)
  PROVE  /\ n \in Nat /\ n <= p.count
         /\ ~walk_fails(p, w - p.seq) => w + n = span_last(p) + 1 /\ n # 0
         /\ walk_fails(p, w - p.seq) /\ FailsAtOnce(p) => n = 0
<1>1. /\ p.seq \in Nat /\ p.count \in Nat /\ p.good \in Nat
  BY WireAssumption DEF DataPackets
<1>2. w - p.seq \in Nat /\ w - p.seq < p.count
  BY <1>1 DEF span_last
<1>3. n \in Nat /\ n <= p.count
  BY <1>2, WalkHanded
<1>4. ASSUME ~walk_fails(p, w - p.seq) PROVE w + n = span_last(p) + 1 /\ n # 0
  BY <1>1, <1>2, <1>4 DEF walk_handed, Larger, span_last
<1>5. ASSUME walk_fails(p, w - p.seq), FailsAtOnce(p) PROVE n = 0
  <2>1. p.good = 0
    BY <1>1, <1>5 DEF walk_fails, FailsAtOnce
  <2> QED BY <1>2, <1>5, <2>1 DEF walk_handed, Larger
<1> QED BY <1>3, <1>4, <1>5

\* An in-order packet: the new suffix continues the emission at W.
LEMMA InOrderGap ==
  ASSUME NoWrap, NEW r, Core(r), Mid(r), r.gap_active => r.w < r.evidence_hwm,
         NEW p \in DataPackets, r.session = p.session,
         p.seq <= r.w, r.w <= span_last(p), NEW h, h = apply_in_order(r, p)
  PROVE  /\ Gap(h) /\ r.w <= h.w /\ h.session = r.session
         /\ FailsAtOnce(p) /\ Order(r) => Order(h)
<1> DEFINE e == Emitted(r, p)
           a == Advanced(r, p)
           c == Cleared(r, p)
           n == walk_handed(p, r.w - p.seq)
<1>0. WINDOW_SLOTS \in Nat \ {0} /\ MaxSeq \in Nat /\ MaxCount \in Nat
      /\ U64_MAX \in Nat /\ MAX_WIRE_REQUEST \in Nat
  BY WindowAssumption, WireAssumption, IntentAssumption
<1>1. InOrderStages(r, p, e, a, c)
  BY InOrderParts
<1>2. /\ r \in SequencerStates /\ r.w \in Nat /\ r.gen \in Nat /\ r.sink \in SinkStates
      /\ r.state # "Init" /\ r.state \in Running /\ p.seq \in Nat
      /\ r.evidence_hwm \in Nat /\ r.sink.last_gen \in Nat
  <2>1. r.state \in Running
    BY DEF Mid
  <2>2. p.seq \in Nat
    BY PacketTypes DEF Packets
  <2>3. r.state # "Init"
    BY <2>1 DEF Running
  <2> QED BY <2>1, <2>2, <2>3, StateTypes
<1>3. Core(drain_progress(c))
  BY <1>2, InOrderCore
<1>4. /\ n \in Nat /\ n <= p.count
      /\ ~walk_fails(p, r.w - p.seq) => r.w + n = span_last(p) + 1 /\ n # 0
      /\ walk_fails(p, r.w - p.seq) /\ FailsAtOnce(p) => n = 0
  BY <1>2, InOrderHanded
<1>5. dup_skip(r, p) = r.w - p.seq
  <2>1. p.count \in Nat
    BY <1>0 DEF DataPackets
  <2> QED BY <2>1, <1>2 DEF dup_skip, Smaller, span_last
<1>6. h = IF walk_fails(p, r.w - p.seq) THEN e
          ELSE retire_pending(check_gap_close(drain_progress(c)))
  BY <1>5 DEF apply_in_order, Emitted, Advanced, Cleared
<1> HIDE DEF e, a, c, n
<1>7. Emits(r.sink, e.sink, r.gen, r.w, n)
  <2>1. r.w + n <= U64_MAX
    <3>1. p.seq + p.count <= MaxSeq + MaxCount /\ p.count \in Nat
      BY <1>0 DEF DataPackets
    <3>2. r.w + n <= MaxW + MaxCount
      BY <1>0, <1>2, <1>4, <3>1 DEF span_last, MaxW, DataPackets
    <3>3. CASE walk_fails(p, r.w - p.seq)
      <4>1. n <= p.count - (r.w - p.seq) \/ n = 0
        BY <3>3, <1>2, <3>1, WireAssumption DEF n, walk_handed, Larger, DataPackets, walk_fails
      <4> QED BY <4>1, <3>1, <1>0, <1>2, <1>4 DEF NoWrap, span_last
    <3>4. CASE ~walk_fails(p, r.w - p.seq)
      BY <3>1, <3>4, <1>0, <1>2, <1>4 DEF NoWrap, span_last
    <3> QED BY <3>3, <3>4
  <2> QED BY <2>1, <1>1, <1>2, <1>4, MsgsOrder DEF InOrderStages, n
<1>8. r.sink.gap_open_from # NONE => r.sink.gap_open_from \in Nat
  <2>1. r.sink.gap_open_from \in U64 \cup {NONE}
    BY <1>2 DEF SinkStates
  <2> QED BY <2>1, <1>0 DEF U64
<1>9. CASE walk_fails(p, r.w - p.seq)
  <2>1. h = e /\ e = [r EXCEPT !.sink = e.sink]
    BY <1>1, <1>6, <1>9 DEF InOrderStages
  <2>2. /\ h.w = r.w /\ h.gen = r.gen /\ h.session = r.session /\ h.state = r.state
        /\ h.gap_active = r.gap_active /\ h.evidence_hwm = r.evidence_hwm
        /\ h.staged_count = r.staged_count /\ h.slots = r.slots
    BY <2>1, <1>2 DEF SequencerStates
  <2>3. /\ h.sink.gap_open_gen = r.sink.gap_open_gen
        /\ h.sink.gap_open_from = r.sink.gap_open_from
    BY <2>1, <1>7 DEF Emits
  <2>4. Mid(h)
    BY <2>2, <2>3 DEF Mid, Told, Dense, Has
  <2>5. Gap(h)
    BY <2>2, <2>4, MidGap
  <2>6. ASSUME FailsAtOnce(p), Order(r) PROVE Order(h)
    <3>1. h.sink = r.sink
      BY <2>1, <2>6, <1>4, <1>7, <1>9, Zenon DEF Emits
    <3> QED BY <2>2, <2>6, <3>1 DEF Order
  <2> QED BY <2>2, <2>5, <2>6, <1>2
<1>10. CASE ~walk_fails(p, r.w - p.seq)
  <2>1. h = retire_pending(check_gap_close(drain_progress(c)))
    BY <1>6, <1>10
  <2>2. /\ Clears(a, c, r.w) /\ Bounded(c) /\ SameRest(r, c)
        /\ c.evidence_hwm = r.evidence_hwm /\ c.sink = e.sink /\ c.w = r.w + n
        /\ a.slots = r.slots /\ a.staged_count = r.staged_count /\ a.w = c.w
        /\ a.max_staged = r.max_staged /\ n # 0
    BY <1>1, <1>4, <1>10 DEF InOrderStages
  <2>3. c.w \in Nat /\ r.w <= c.w
    BY <2>2, <1>2, <1>4
  <2>4. Keeps(r, c) /\ SameSlots(r, c, c.w, r.w + WINDOW_SLOTS - 1)
        /\ Fits(c, c.w, c.w + WINDOW_SLOTS - 1) /\ Counted(c)
    BY <2>2 DEF Clears, Keeps, SameSlots
  <2>5. Dense(c)
    <3>1. Fits(r, r.w, r.w + WINDOW_SLOTS - 1)
      BY <1>2, FitsWeaken DEF Core
    <3> QED BY <3>1, <2>2, <2>3, <2>4, <1>2, DenseAdvance DEF Mid, SameRest
  <2>6. Told(c)
    <3>1. c.sink.gap_open_gen = r.sink.gap_open_gen
          /\ c.sink.gap_open_from = r.sink.gap_open_from
      BY <2>2, <1>7 DEF Emits
    <3>2. r.sink.gap_open_from # NONE => r.sink.gap_open_from <= c.w
      BY <1>2, <1>8, <2>3 DEF Mid, Told
    <3> QED BY <3>1, <3>2, <2>2 DEF Mid, Told, SameRest
  <2>7. ASSUME ~c.gap_active PROVE c.evidence_hwm <= c.w /\ c.staged_count = 0
    <3>1. r.evidence_hwm <= r.w /\ r.staged_count = 0
      BY <2>2, <2>7 DEF Mid, SameRest
    <3>2. Occupied(r.slots) = {}
      BY <3>1, EmptyWindow DEF Core
    <3>3. Occupied(c.slots) = {}
      BY <3>2, <2>4 DEF Keeps
    <3>4. c.staged_count = 0
      BY <3>3, <2>4, FS_EmptySet DEF Counted
    <3> QED BY <3>1, <3>4, <2>2, <2>3, <1>2
  <2>8. Mid(c)
    BY <2>2, <2>5, <2>6, <2>7 DEF Mid, SameRest
  <2>9. Order(r) => Order(c)
    <3> DEFINE top == c.sink.last_seq
    <3>1. top = r.w + n - 1
      BY <2>2, <1>7, Zenon DEF Emits
    <3>2. Order(r) => ~c.sink.failed /\ c.sink.last_gen <= c.gen
      BY <2>2, <1>7 DEF Order, Emits, SameRest
    <3>3. c.state # "Init"
      BY <2>2, <1>2 DEF SameRest
    <3> HIDE DEF top
    <3>4. top + 1 = c.w
      BY <3>1, <2>2, <1>2, <1>4
    <3> QED BY <3>2, <3>3, <3>4 DEF Order, top
  <2>10. Gap(h) /\ c.w <= h.w /\ h.session = r.session /\ (Order(c) => Order(h))
    BY <2>1, <2>2, <2>4, <2>8, <1>3, TailGap DEF SameRest
  <2>11. h.w \in Int
    <3>1. Core(h)
      BY <2>1, <1>3, CheckGapCloseCore, RetirePendingCore
    <3> QED BY <3>1, <1>0 DEF Core, Bounded, SequencerStates, U64
  <2> QED BY <2>3, <2>9, <2>10, <2>11, <1>2
<1> QED BY <1>9, <1>10

\* A packet ahead of W: what it stages has no hole from its first number on.
LEMMA StageDense ==
  ASSUME NEW g, NEW t, NEW first \in Nat, NEW n \in Nat, g.w \in Nat,
         Fits(t, t.w + 1, t.w + WINDOW_SLOTS - 1), t.w = g.w,
         t.session = g.session, g.session \in Sessions,
         g.evidence_hwm \in Nat, t.evidence_hwm = g.evidence_hwm,
         first <= g.evidence_hwm, Dense(g), Stages(g, t, first, n)
  PROVE  Dense(t)
<1> SUFFICES ASSUME NEW k \in t.w..(t.w + WINDOW_SLOTS - 1), Has(t, k),
                    NEW m \in t.w..k, t.evidence_hwm <= m
             PROVE  Has(t, m)
  BY DEF Dense
<1>1. /\ k \in Nat /\ m \in Nat /\ m <= k /\ k < g.w + WINDOW_SLOTS
      /\ g.w <= m /\ first <= m
  BY WindowAssumption
<1>2. Fits(t, t.w, t.w + WINDOW_SLOTS - 1)
  BY FitsWeaken
<1>3. t.slots[Slot(k)] = Msg(g.session, k)
  BY <1>2, HasOwn
<1>4. Slot(k) \in Occupied(t.slots) /\ Slot(m) \in Ring
  BY <1>1, SlotType DEF Has, Occupied, Ring
<1>5. CASE Slot(k) \in Occupied(g.slots)
  <2>1. Has(g, k)
    BY <1>5 DEF Has, Occupied
  <2>2. Has(g, m)
    BY <2>1 DEF Dense
  <2>3. Slot(m) \in Occupied(g.slots)
    BY <2>2, <1>4 DEF Has, Occupied, Ring
  <2> QED BY <2>3 DEF Stages, Has, Occupied
<1>6. CASE Slot(k) \notin Occupied(g.slots)
  <2>1. PICK j \in first..(first + n - 1) : t.slots[Slot(k)] = Msg(g.session, j)
    BY <1>4, <1>6 DEF Stages
  <2>2. j = k
    BY <2>1, <1>3 DEF Msg
  <2>3. m \in first..(first + n - 1) /\ m < g.w + WINDOW_SLOTS
    BY <2>2, <1>1, WindowAssumption
  <2>4. t.slots[Slot(m)] = Msg(g.session, m)
    BY <2>3 DEF Stages
  <2> QED BY <2>4, SessionAssumption DEF Has, Msg, NoMsg
<1> QED BY <1>5, <1>6

\* Such a packet, sound or not.
LEMMA AheadGap ==
  ASSUME NoWrap, NEW r, Core(r), Mid(r), r.gap_active => r.w < r.evidence_hwm,
         NEW p \in DataPackets, r.session = p.session, r.w < p.seq,
         NEW h, h = apply_ahead(r, p)
  PROVE  Gap(h) /\ r.w <= h.w /\ h.session = r.session /\ (Order(r) => Order(h))
<1> DEFINE g == Widened(r, p)
           t == Staged(r, p)
           u == Noted(r, p)
           n == walk_handed(p, 0)
           first == p.seq
<1>0. WINDOW_SLOTS \in Nat \ {0} /\ MaxSeq \in Nat /\ U64_MAX \in Nat /\ MaxSeq <= U64_MAX
  BY WindowAssumption, WireAssumption
<1>1. r.state # "Init" /\ first \in U64 /\ first \in Nat /\ r.w \in Nat /\ n \in Nat
      /\ p.session \in Sessions
  <2>1. n \in Nat
    BY WalkHanded
  <2>2. r.w \in Nat
    BY StateTypes
  <2>3. first \in U64 /\ first \in Nat /\ p.session \in Sessions
    BY PacketTypes DEF Packets
  <2>4. r.state # "Init"
    BY DEF Mid, Running
  <2> QED BY <2>1, <2>2, <2>3, <2>4
<1>2. AheadStages(r, p, g, t, u)
  BY <1>1, AheadParts
<1>3. Core(drain_progress(u))
  BY <1>1, AheadCore
<1>4. h = IF walk_fails(p, 0) THEN t
          ELSE retire_pending(check_gap_close(drain_progress(u)))
  BY DEF apply_ahead, Widened, Staged, Noted
<1>5. /\ Mid(g) /\ g.gap_active /\ g.w < g.evidence_hwm /\ first <= g.evidence_hwm
      /\ g.w = r.w /\ (Order(r) => Order(g))
  BY <1>1, EvidenceGap DEF Widened
<1> HIDE DEF g, t, u, n
<1>6. /\ Core(g) /\ g.session = r.session
      /\ StagesWindow(g, t) /\ Stages(g, t, first, n) /\ Core(t)
      /\ SameRest(g, t) /\ t.w = g.w /\ t.sink = g.sink
      /\ t.evidence_hwm = g.evidence_hwm
      /\ SameRest(t, u) /\ u.w = t.w /\ u.sink = t.sink
      /\ u.slots = t.slots /\ u.staged_count = t.staged_count
      /\ u.evidence_hwm \in Nat /\ t.evidence_hwm <= u.evidence_hwm
      /\ Core(u) /\ Fits(u, u.w, u.w + WINDOW_SLOTS - 1)
  BY <1>2 DEF AheadStages, n
<1> HIDE DEF first
<1>7. g.evidence_hwm \in Nat
  BY <1>6, <1>0 DEF Core, Bounded, SequencerStates, U64
<1>8. Dense(t)
  <2>1. g.session \in Sessions
    BY <1>1, <1>6
  <2>2. Fits(t, t.w + 1, t.w + WINDOW_SLOTS - 1)
    BY <1>6 DEF Core
  <2>3. Dense(g)
    BY <1>5 DEF Mid
  <2> QED BY <2>1, <2>2, <2>3, <1>1, <1>5, <1>6, <1>7, StageDense DEF SameRest
<1>9. Mid(t) /\ t.gap_active /\ t.w < t.evidence_hwm
  BY <1>5, <1>6, <1>8 DEF Mid, Told, SameRest
<1>10. Order(g) => Order(t) /\ Order(u)
  BY <1>6 DEF Order, SameRest
<1>11. CASE walk_fails(p, 0)
  <2>1. h = t
    BY <1>4, <1>11
  <2>2. Gap(t)
    BY <1>9, MidGap
  <2> QED BY <2>1, <2>2, <1>1, <1>5, <1>6, <1>10 DEF SameRest
<1>12. CASE ~walk_fails(p, 0)
  <2>1. h = retire_pending(check_gap_close(drain_progress(u)))
    BY <1>4, <1>12
  <2>2. Dense(u)
    <3> SUFFICES ASSUME NEW k \in u.w..(u.w + WINDOW_SLOTS - 1), Has(u, k),
                        NEW m \in u.w..k, u.evidence_hwm <= m
                 PROVE  Has(u, m)
      BY DEF Dense
    <3>1. t.evidence_hwm <= m
      <4>1. m \in Int /\ t.evidence_hwm \in Nat /\ u.evidence_hwm \in Nat
        BY <1>6, <1>7
      <4> QED BY <4>1, <1>6
    <3> QED BY <3>1, <1>6, <1>8 DEF Dense, Has
  <2>3. Mid(u)
    BY <1>6, <1>9, <2>2 DEF Mid, Told, SameRest
  <2>4. Bounded(u) /\ Counted(u)
    BY <1>6 DEF Core
  <2>5. Gap(h) /\ u.w <= h.w /\ h.session = u.session /\ (Order(u) => Order(h))
    BY <2>1, <2>3, <2>4, <1>3, <1>6, TailGap
  <2> QED BY <2>5, <1>5, <1>6, <1>10 DEF SameRest
<1> QED BY <1>11, <1>12

\* The first data of a session anchors W at its own number; data that is let in
\* and is not a duplicate reaches W.
LEMMA AnchorGap ==
  ASSUME NEW r, Core(r), Gap(r), r.session # NoSession, r.state # "Dead",
         NEW p \in DataPackets, accepts_data(r, p), ~is_duplicate(r, p),
         NEW a, a = anchor(r, p.seq)
  PROVE  /\ Core(a) /\ Mid(a) /\ (a.gap_active => a.w < a.evidence_hwm)
         /\ a.session = r.session /\ (Order(r) => Order(a))
         /\ r.state # "Init" => a = r
         /\ a.w <= span_last(p)
<1>1. /\ r \in SequencerStates /\ r.w \in Nat /\ p.seq \in Nat /\ p.seq \in U64
      /\ p.seq <= MaxW /\ span_last(p) \in Int /\ p.seq <= span_last(p) /\ 0 \in Ages
  <2>1. p.seq \in 0..MaxSeq /\ p.count \in 1..MaxCount
    BY DEF DataPackets
  <2>2. r \in SequencerStates /\ r.w \in Nat /\ 0 \in Ages
    BY WireAssumption, IntentAssumption DEF Core, Bounded, SequencerStates, U64, Ages
  <2> QED BY <2>1, <2>2, WireAssumption DEF U64, MaxW, span_last
<1>2. CASE r.state = "Init"
  <2>1. a = [r EXCEPT !.w = p.seq, !.progress_age = 0, !.state = "Contig"]
    BY <1>2 DEF anchor
  <2>2. r.staged_count = 0 /\ Occupied(r.slots) = {} /\ ~r.sink.corrupt
    BY <1>2, EmptyWindow DEF Core
  <2>3. a \in SequencerStates
    <3>1. "Contig" \in States /\ p.seq \in U64 /\ 0 \in Ages /\ r \in SequencerStates
      BY <1>1 DEF States
    <3> QED BY <2>1, <3>1 DEF SequencerStates
  <2>4. /\ a.w = p.seq /\ a.gen = r.gen /\ a.session = r.session /\ a.state = "Contig"
        /\ a.gap_active = r.gap_active /\ a.evidence_hwm = r.evidence_hwm
        /\ a.staged_count = r.staged_count /\ a.slots = r.slots /\ a.sink = r.sink
    BY <1>1, <2>1 DEF SequencerStates
  <2>5. Core(a)
    BY <1>1, <2>2, <2>3, <2>4, CoreEmpty
  <2>6. /\ ~r.gap_active /\ r.evidence_hwm = 0
        /\ r.sink.gap_open_gen = NONE /\ r.sink.gap_open_from = NONE
    BY <1>2 DEF Gap
  <2>7. Dense(a)
    <3>1. ASSUME NEW n \in a.w..(a.w + WINDOW_SLOTS - 1) PROVE ~Has(a, n)
      <4>1. n \in Nat
        BY <1>1, <2>4, WindowAssumption
      <4>2. ~Has(r, n)
        BY <4>1, <2>2, HasStaged DEF Core
      <4> QED BY <4>2, <2>4 DEF Has
    <3> QED BY <3>1 DEF Dense
  <2>8. Mid(a)
    BY <1>1, <2>2, <2>4, <2>6, <2>7 DEF Mid, Told, Running
  <2>9. Order(r) => Order(a)
    BY <1>2, <2>4 DEF Order
  <2> QED BY <1>1, <1>2, <2>4, <2>5, <2>6, <2>8, <2>9
<1>3. CASE r.state # "Init"
  <2>1. a = r
    BY <1>3 DEF anchor
  <2>2. r.state \in Running
    BY <1>1, <1>3 DEF SequencerStates, States, Running, accepts_data
  <2> QED BY <1>1, <1>3, <2>1, <2>2 DEF Gap, is_duplicate
<1> QED BY <1>2, <1>3

\* Every packet, in any state: the protocol holds, W moves back only into a new
\* session, and, when packets fail at their first block, emission stays in order.
LEMMA IngestGap ==
  ASSUME NoWrap, NEW r, Core(r), Gap(r), NEW p \in Packets, NEW h, h = ingest(r, p)
  PROVE  /\ Gap(h)
         /\ FailsAtOnce(p) /\ Order(r) => Order(h)
         /\ h.session = r.session /\ r.state # "Init" => r.w <= h.w
         /\ r.state # "Dead" => h.session = p.session
<1> DEFINE d == session_dispatch(r, p.session)
<1>1. p.session \in Sessions /\ p.seq \in U64 /\ p.seq \in Nat /\ r.w \in Nat
  BY PacketTypes, StateTypes
<1>2. CASE r.state = "Dead"
  BY <1>1, <1>2 DEF ingest
<1>3. CASE r.state # "Dead"
  <2>1. /\ Core(d) /\ Gap(d) /\ d.session = p.session /\ d.state # "Dead"
        /\ Order(r) => Order(d)
        /\ d = r \/ (d.state = "Init" /\ r.session # p.session)
    BY <1>1, <1>3, SessionDispatchCore, SessionDispatchGap
  <2>2. p.session # NoSession
    BY <1>1, SessionAssumption
  <2> HIDE DEF d
  <2>3. SUFFICES /\ Gap(h) /\ h.session = d.session
                 /\ FailsAtOnce(p) /\ Order(d) => Order(h)
                 /\ d.state # "Init" => d.w <= h.w
    BY <2>1, <2>3
  <2>4. CASE p.count = HEARTBEAT_COUNT
    <3>1. h = handle_heartbeat(d, p.seq)
      BY <2>4, <1>3 DEF ingest, d
    <3>2. Gap(h) /\ h.w = d.w /\ (Order(d) => Order(h))
      BY <3>1, <2>1, <1>1, HeartbeatGap
    <3>3. h.session = d.session
      BY <3>1, <2>1 DEF handle_heartbeat, gap_evidence, Core, Bounded, SequencerStates
    <3>4. d.w \in Nat
      BY <2>1, WireAssumption DEF Core, Bounded, SequencerStates, U64
    <3> QED BY <3>2, <3>3, <3>4
  <2>5. CASE p.count # HEARTBEAT_COUNT /\ p.count = EOS_COUNT
    <3>1. h = handle_eos(d, p.seq)
      BY <2>5, <1>3 DEF ingest, d
    <3>2. Gap(h) /\ h.w = d.w /\ (Order(d) => Order(h))
      BY <3>1, <2>1, <2>2, EosGap
    <3>3. h.session = d.session
      BY <3>1, <2>1 DEF handle_eos, end_session, Core, Bounded, SequencerStates
    <3>4. d.w \in Nat
      BY <2>1, WireAssumption DEF Core, Bounded, SequencerStates, U64
    <3> QED BY <3>2, <3>3, <3>4
  <2>6. CASE p.count # HEARTBEAT_COUNT /\ p.count # EOS_COUNT
    <3>1. p \in DataPackets /\ h = ingest_data(d, p)
      BY <2>6, <1>3 DEF Packets, Heartbeats, EosPackets, ingest, d
    <3> DEFINE a == anchor(d, p.seq)
    <3>2. CASE ~accepts_data(d, p) \/ is_duplicate(d, p)
      <4>1. h = d
        BY <3>1, <3>2 DEF ingest_data
      <4>2. d.w \in Nat
        BY <2>1, WireAssumption DEF Core, Bounded, SequencerStates, U64
      <4> QED BY <4>1, <4>2, <2>1
    <3>3. CASE accepts_data(d, p) /\ ~is_duplicate(d, p)
      <4>1. /\ Core(a) /\ Mid(a) /\ (a.gap_active => a.w < a.evidence_hwm)
            /\ a.session = d.session /\ (Order(d) => Order(a))
            /\ d.state # "Init" => a = d
            /\ a.w <= span_last(p)
        BY <3>1, <3>3, <2>1, <2>2, <1>1, AnchorGap
      <4>2. h = IF p.seq <= a.w THEN apply_in_order(a, p) ELSE apply_ahead(a, p)
        BY <3>1, <3>3 DEF ingest_data
      <4> HIDE DEF a
      <4>3. a.w \in Nat
        BY <4>1, WireAssumption DEF Core, Bounded, SequencerStates, U64
      <4>4. CASE p.seq <= a.w
        <5>1. h = apply_in_order(a, p)
          BY <4>2, <4>4
        <5>2. /\ Gap(h) /\ a.w <= h.w /\ h.session = a.session
              /\ FailsAtOnce(p) /\ Order(a) => Order(h)
          <6>1. /\ Core(a) /\ Mid(a) /\ (a.gap_active => a.w < a.evidence_hwm)
                /\ a.session = p.session /\ a.w <= span_last(p) /\ p \in DataPackets
            BY <4>1, <3>1, <2>1
          <6> QED BY <6>1, <5>1, <4>4, InOrderGap
        <5> QED BY <5>2, <4>1
      <4>5. CASE ~(p.seq <= a.w)
        <5>1. h = apply_ahead(a, p) /\ a.w < p.seq
          BY <4>2, <4>3, <4>5, <1>1
        <5>2. Gap(h) /\ a.w <= h.w /\ h.session = a.session /\ (Order(a) => Order(h))
          <6>1. /\ Core(a) /\ Mid(a) /\ (a.gap_active => a.w < a.evidence_hwm)
                /\ a.session = p.session /\ p \in DataPackets
            BY <4>1, <3>1, <2>1
          <6> QED BY <6>1, <5>1, AheadGap
        <5> QED BY <5>2, <4>1
      <4> QED BY <4>4, <4>5
    <3> QED BY <3>2, <3>3
  <2> QED BY <2>4, <2>5, <2>6
<1> QED BY <1>2, <1>3

\* The new sequencer, and its new sink.
LEMMA NewGap == Gap(NewSequencer) /\ Order(NewSequencer)
  BY DEF Gap, Order, NewSequencer, NewSink, Running

\* One call of the public interface.
LEMMA NextGap ==
  ASSUME NoWrap, Core(q), Gap(q), [Next]_vars
  PROVE  Gap(q') /\ (NoBadPrefix /\ Order(q) => Order(q'))
<1>1. ASSUME NEW p \in Packets, Ingest(p)
      PROVE  Gap(q') /\ (NoBadPrefix /\ Order(q) => Order(q'))
  <2>1. NoBadPrefix => FailsAtOnce(p)
    BY WireAssumption DEF NoBadPrefix, FailsAtOnce, Packets, DataPackets, Heartbeats, EosPackets
  <2> QED BY <1>1, <2>1, IngestGap DEF Ingest
<1>2. CASE \E p \in DataPackets : Ingest(p)
  BY <1>1, <1>2 DEF Packets
<1>3. CASE \E p \in Heartbeats : Ingest(p)
  BY <1>1, <1>3 DEF Packets
<1>4. CASE \E p \in EosPackets : Ingest(p)
  BY <1>1, <1>4 DEF Packets
<1>5. CASE RecoveryIntent
  BY <1>5, QuietGap DEF RecoveryIntent
<1>6. CASE Seal
  BY <1>6, EosGap DEF Seal
<1>7. CASE Reanchor
  BY <1>7, NewGap DEF Reanchor
<1>8. CASE Tick
  BY <1>8, QuietGap DEF Tick
<1>9. CASE UNCHANGED vars
  BY <1>9 DEF vars
<1> QED BY <1>2, <1>3, <1>4, <1>5, <1>6, <1>7, <1>8, <1>9 DEF Next

-----------------------------------------------------------------------------
\* The gap protocol is an invariant of every run, with packets sound or not.
THEOREM GapInvariant ==
  ASSUME NoWrap
  PROVE  Spec => [](Core(q) /\ Gap(q))
<1>1. Init => Gap(q)
  BY NewGap DEF Init
<1>2. Core(q) /\ Gap(q) /\ [Next]_vars => Gap(q)'
  BY NextGap
<1> QED BY <1>1, <1>2, CoreInvariant, PTL DEF Spec

\* While W is anchored a gap is open exactly when evidence lies ahead of W, nothing
\* is staged without one, and the sink knows it by the current generation.
THEOREM GapProtocol ==
  ASSUME NoWrap
  PROVE  Spec => []GapEvidence
<1>1. Core(q) /\ Gap(q) => GapEvidence
  <2> SUFFICES ASSUME Core(q), Gap(q), q.state \in Running
               PROVE  /\ q.gap_active <=> q.w < q.evidence_hwm
                      /\ q.staged_count # 0 => q.gap_active
                      /\ q.sink.gap_open_gen = (IF q.gap_active THEN q.gen ELSE NONE)
    BY DEF GapEvidence
  <2>1. /\ q.w \in Nat /\ q.evidence_hwm \in Nat /\ q.gap_active \in BOOLEAN
    BY WireAssumption DEF Core, Bounded, SequencerStates, U64
  <2>2. Mid(q) /\ (q.gap_active => q.w < q.evidence_hwm)
    BY DEF Gap
  <2> QED BY <2>1, <2>2 DEF Mid, Told
<1> QED BY <1>1, GapInvariant, PTL

\* When a packet that does not validate fails at its first block, no assertion of
\* the conformance sink ever fires, and W is always right behind what was emitted.
THEOREM OrderInvariant ==
  ASSUME NoWrap, NoBadPrefix
  PROVE  Spec => [](Core(q) /\ Gap(q) /\ Order(q))
<1>1. Init => Order(q)
  BY NewGap DEF Init
<1>2. Core(q) /\ Gap(q) /\ Order(q) /\ [Next]_vars => Order(q)'
  BY NextGap
<1> QED BY <1>1, <1>2, GapInvariant, PTL DEF Spec

\* Every number handed downstream is the successor of the one before, generations
\* never go back, and gap events pair up.
THEOREM EmissionOrder ==
  ASSUME NoWrap, NoBadPrefix
  PROVE  Spec => []Conformance
<1>1. Order(q) => Conformance
  BY DEF Order, Conformance
<1> QED BY <1>1, OrderInvariant, PTL

\* Nothing is skipped between the last message emitted and the one W waits for.
THEOREM NothingSkipped ==
  ASSUME NoWrap, NoBadPrefix
  PROVE  Spec => []SinkAtWatermark
<1>1. Core(q) /\ Order(q) => SinkAtWatermark
  <2> SUFFICES ASSUME Core(q), Order(q), q.sink.last_seq # 0
               PROVE  Add(q.sink.last_seq, 1) = q.w
    BY DEF SinkAtWatermark
  <2>1. q.sink.last_seq \in Nat /\ q.w \in U64 /\ U64_MAX \in Nat
    BY WireAssumption DEF Core, Bounded, SequencerStates, SinkStates, U64
  <2>2. q.sink.last_seq + 1 = q.w
    BY DEF Order
  <2> QED BY <2>1, <2>2, AddExact DEF U64
<1> QED BY <1>1, OrderInvariant, PTL

\* Within a session W never moves back, whatever arrives and however broken it is.
THEOREM WNeverBack ==
  ASSUME NoWrap
  PROVE  Spec => WMonotone
<1>1. ASSUME Core(q), Gap(q), [Next]_vars, q'.session = q.session, q.state # "Init"
      PROVE  q'.w >= q.w
  <2>1. q.w \in Nat
    BY <1>1, WireAssumption DEF Core, Bounded, SequencerStates, U64
  <2>2. SUFFICES q.w <= q'.w \/ q'.w = q.w
    <3>1. Core(q')
      BY <1>1, NextCore
    <3>2. q'.w \in Nat
      BY <3>1, WireAssumption DEF Core, Bounded, SequencerStates, U64
    <3> QED BY <2>1, <2>2, <3>2
  <2>3. ASSUME NEW p \in Packets, Ingest(p) PROVE q.w <= q'.w
    BY <1>1, <2>3, IngestGap DEF Ingest
  <2>4. CASE \E p \in DataPackets : Ingest(p)
    BY <2>3, <2>4 DEF Packets
  <2>5. CASE \E p \in Heartbeats : Ingest(p)
    BY <2>3, <2>5 DEF Packets
  <2>6. CASE \E p \in EosPackets : Ingest(p)
    BY <2>3, <2>6 DEF Packets
  <2>7. CASE RecoveryIntent
    BY <1>1, <2>7, QuietGap DEF RecoveryIntent
  <2>8. CASE Seal
    BY <1>1, <2>8, EosGap DEF Seal
  <2>9. CASE Reanchor
    BY <1>1, <2>9 DEF Reanchor, NewSequencer, Gap
  <2>10. CASE Tick
    BY <1>1, <2>10, QuietGap DEF Tick
  <2>11. CASE UNCHANGED vars
    BY <2>11 DEF vars
  <2> QED BY <1>1, <2>4, <2>5, <2>6, <2>7, <2>8, <2>9, <2>10, <2>11 DEF Next
<1>2. Core(q) /\ Gap(q) /\ [Next]_vars
        => [q'.session = q.session /\ q.state # "Init" => q'.w >= q.w]_vars
  BY <1>1
<1> QED BY <1>2, GapInvariant, PTL DEF Spec, WMonotone

\* Once a session has ended nothing of it is emitted any more, whatever data,
\* heartbeats or ends of session still arrive.
THEOREM EndStaysEnd ==
  ASSUME NoWrap
  PROVE  Spec => EndedIsFinal
<1> DEFINE Final == /\ q'.state \in {"Ended", "Dead"}
                    /\ q'.sink.last_seq = q.sink.last_seq
                    /\ q'.sink.last_gen = q.sink.last_gen
<1>1. ASSUME Core(q), Gap(q), [Next]_vars, q'.session = q.session, q.state = "Ended"
      PROVE  Final
  <2>1. q \in SequencerStates /\ q.sink \in SinkStates /\ q.session # NoSession
    BY <1>1 DEF Core, Bounded, SequencerStates, Gap
  <2>2. ASSUME NEW p \in Packets, Ingest(p) PROVE Final
    <3>1. q'.session = p.session
      BY <1>1, <2>2, IngestGap DEF Ingest
    <3>2. session_dispatch(q, p.session) = q
      BY <1>1, <3>1, <2>1 DEF session_dispatch
    <3>3. q' = q
      BY <1>1, <2>2, <3>2
      DEF Ingest, ingest, handle_heartbeat, handle_eos, ingest_data, accepts_data, Running
    <3> QED BY <1>1, <3>3
  <2>3. CASE \E p \in DataPackets : Ingest(p)
    BY <2>2, <2>3 DEF Packets
  <2>4. CASE \E p \in Heartbeats : Ingest(p)
    BY <2>2, <2>4 DEF Packets
  <2>5. CASE \E p \in EosPackets : Ingest(p)
    BY <2>2, <2>5 DEF Packets
  <2>6. CASE RecoveryIntent
    BY <1>1, <2>1, <2>6 DEF RecoveryIntent, check_recovery_intent, SequencerStates
  <2>7. CASE Seal
    BY <1>1, <2>1, <2>7 DEF Seal, seal, on_terminal, SequencerStates, SinkStates
  <2>8. CASE Reanchor
    BY <1>1, <2>1, <2>8 DEF Reanchor, NewSequencer
  <2>9. CASE Tick
    BY <1>1, <2>1, <2>9 DEF Tick, tick, SequencerStates
  <2>10. CASE UNCHANGED vars
    BY <1>1, <2>10 DEF vars
  <2> QED BY <1>1, <2>3, <2>4, <2>5, <2>6, <2>7, <2>8, <2>9, <2>10 DEF Next
<1>2. Core(q) /\ Gap(q) /\ [Next]_vars
        => [q.state = "Ended" /\ q'.session = q.session => Final]_vars
  BY <1>1
<1> QED BY <1>2, GapInvariant, PTL DEF Spec, EndedIsFinal
=============================================================================
