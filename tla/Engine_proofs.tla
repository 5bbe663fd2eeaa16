------------------------------ MODULE Engine_proofs ------------------------------
(***************************************************************************)
(* The engine's two safety properties, for every session length, packet    *)
(* size, window, loss pattern and fault mode of the server: what it asks   *)
(* the server for makes sense, and a session that ends is complete.        *)
(***************************************************************************)
EXTENDS Engine, Gap_proofs, SequenceTheorems

\* The number after the last message: what the venue announces.
Top == LastMsg + 1

\* The engine's instance of the wire: the numbers, counts and packets the feeds and
\* the server send are ones a packet can carry.  Rolling heartbeats go with a server
\* that answers for the right session: W could be the foreign session's when one of
\* them has a range pending, and the data of Home would then anchor it further back.
EngineFits ==
    /\ LastMsg + 1 <= MaxSeq
    /\ PacketSize <= MaxCount /\ RespPacket <= MaxCount
    /\ "ok" \in ErrKinds
    /\ Rolling => "wrong_session" \notin Faults

\* the data packets of the messages 1 .. LastMsg
Carried == {p \in DataPackets : p.err = "ok" /\ span_last(p) <= LastMsg}

Answers(fault) == {p \in Carried : p.session = effective_sess(fault)}

\* a request as RequestSound wants it, with W at w
Asks(fault, w) ==
    {a \in [from : Nat, count : Nat] :
        /\ a.count > 0 /\ a.from + a.count <= Top
        /\ fault # "wrong_session" => a.from <= w}

\* What is staged, asked for or reached lies within the session, a range once asked
\* for within one wire request, and between two calls ahead of W.
Staging(r) ==
    \A i \in Occupied(r.slots) : r.slots[i][2] < Top /\ r.slots[i][2] <= r.max_staged

Reach(r) ==
    /\ r.w <= Top /\ r.hb_seq <= Top /\ r.max_staged < Top
    /\ Staging(r)
    /\ r.pending_to # NONE => r.pending_to <= Top /\ r.pending_to <= r.w + MAX_WIRE_REQUEST

Within(r) ==
    /\ Reach(r)
    /\ r.pending_to # NONE => r.w < r.pending_to
    /\ r.state = "Init" => r.max_staged = 0
    /\ r.state = "Ended" /\ r.sink.last_seq # 0 => r.w = Top

\* What the sequencer's state owes to the feeds and to the server's fault mode: a
\* server that answers for Home leaves W at 0 until data anchors it; a heartbeat is
\* heard only after all data, so nothing of Home is left to anchor W once a range
\* is pending.
Fed(r, f, fault) ==
    /\ fault # "wrong_session" =>
          r.session \in {NoSession, Home} /\ (r.state = "Init" => r.w = 0)
    /\ r.hb_seq # 0 => r.session = Home /\ (Rolling \/ data_left(f) = {})
    /\ r.state = "Init" /\ r.pending_to # NONE => r.hb_seq # 0

Settled(r, f, fault) ==
    Core(r) /\ Gap(r) /\ Order(r) /\ Within(r) /\ Fed(r, f, fault)

Feeds == [transport : Transports, data : [Firsts -> Int], hb : Int, eos : Int]

Servers == [fault : Faults, seen : Int, served : Int]

\* The inductive invariant of the engine.
EngineInv ==
    /\ feed \in Feeds /\ server \in Servers
    /\ Settled(q, feed, server.fault)
    /\ requests \in Seq(Asks(server.fault, q.w))
    /\ responses \in Seq(Answers(server.fault))

-----------------------------------------------------------------------------
\* The types the arithmetic below needs.
LEMMA ReachTypes ==
  /\ Top \in Nat /\ Top >= 2 /\ MAX_WIRE_REQUEST \in Nat /\ MAX_WIRE_REQUEST >= 1
  /\ \A r : Bounded(r) =>
        /\ r \in SequencerStates /\ r.w \in Nat /\ r.hb_seq \in Nat /\ r.max_staged \in Nat
        /\ r.pending_to # NONE => r.pending_to \in Nat
  BY ServerAssumption, IntentAssumption, WireAssumption
  DEF Top, Bounded, SequencerStates, U64

\* Handlers that touch neither window nor W keep what is staged.
LEMMA StagingFrame ==
  ASSUME NEW r, NEW c, Staging(r), c.slots = r.slots, c.max_staged = r.max_staged
  PROVE  Staging(c)
  BY DEF Staging

\* A window of which less is taken, under the same max_staged.
LEMMA StagingKeeps ==
  ASSUME NEW r, NEW c, Staging(r), Keeps(r, c), Counted(c)
  PROVE  Staging(c)
<1>1. c.staged_count = 0 => Occupied(c.slots) = {}
  BY EmptyWindow
<1> QED BY <1>1 DEF Staging, Keeps

\* The end of ingest: drain, gap close, retire.  The run drained was staged, so it
\* ends within the session.
LEMMA TailWithin ==
  ASSUME NoWrap, NEW r, Bounded(r), Counted(r), Fits(r, r.w, r.w + WINDOW_SLOTS - 1),
         Reach(r), r.state \in Running, r.session \in Sessions,
         NEW h, h = retire_pending(check_gap_close(drain_progress(r)))
  PROVE  Within(h) /\ h.hb_seq = r.hb_seq /\ h.state \in Running
<1> DEFINE f == drain(r)
           d == drain_progress(r)
           g == check_gap_close(d)
<1>0. WINDOW_SLOTS \in Nat /\ r.w \in Nat /\ r \in SequencerStates
  BY WindowAssumption, ReachTypes
<1>1. PICK n \in 0..WINDOW_SLOTS : Drains(r, f, n)
  BY DrainLemma
<1> HIDE DEF f
<1>2. /\ f.w = r.w + n /\ f.state = r.state /\ f.hb_seq = r.hb_seq
      /\ f.pending_to = r.pending_to /\ DOMAIN f = DOMAIN r /\ n \in Nat
  <2>1. DOMAIN f = DOMAIN r
    BY <1>1 DEF Drains
  <2>2. /\ f.w = r.w + n /\ f.state = r.state /\ f.hb_seq = r.hb_seq
        /\ f.pending_to = r.pending_to
    BY <1>0, <1>1 DEF SequencerStates, Drains
  <2>3. n \in Nat
    BY <1>0
  <2> QED BY <2>1, <2>2, <2>3
<1>3. /\ f.max_staged \in {0, r.max_staged} /\ Staging(f)
  BY <1>1, StagingKeeps DEF Drains, Keeps, Reach
<1>4. f.w <= Top
  <2>1. CASE n = 0
    BY <2>1, <1>0, <1>2 DEF Reach
  <2>2. CASE n # 0
    <3>1. n - 1 \in 0..(n - 1) /\ r.w + (n - 1) \in Nat
      BY <2>2, <1>0, <1>2
    <3>2. r.slots[Slot(r.w + (n - 1))] = Msg(r.session, r.w + (n - 1))
      BY <3>1, <1>1 DEF Drains, Run
    <3>3. Msg(r.session, r.w + (n - 1)) # NoMsg /\ Msg(r.session, r.w + (n - 1))[2] = r.w + (n - 1)
      BY SessionAssumption DEF Msg, NoMsg
    <3>4. Slot(r.w + (n - 1)) \in Occupied(r.slots)
      BY <3>1, <3>2, <3>3, SlotType DEF Occupied, Ring
    <3>5. r.w + (n - 1) < Top
      BY <3>2, <3>3, <3>4 DEF Reach, Staging
    <3> QED BY <3>5, <1>0, <1>2, ReachTypes
  <2> QED BY <2>1, <2>2
<1>5. /\ d.w = f.w /\ d.state = f.state /\ d.hb_seq = f.hb_seq
      /\ d.pending_to = f.pending_to /\ d.max_staged = f.max_staged /\ d.slots = f.slots
      /\ DOMAIN d = DOMAIN r
  <2>1. d = f \/ d = [f EXCEPT !.progress_age = 0]
    BY DEF drain_progress, f
  <2> QED BY <2>1, <1>0, <1>2 DEF SequencerStates
<1> HIDE DEF d
<1>6. /\ g.w = d.w /\ g.hb_seq = d.hb_seq /\ g.pending_to = d.pending_to
      /\ g.max_staged = d.max_staged /\ g.slots = d.slots /\ DOMAIN g = DOMAIN r
      /\ g.state \in {d.state, "Contig"}
  BY <1>0, <1>5 DEF check_gap_close, SequencerStates
<1> HIDE DEF g
<1>7. /\ h.w = g.w /\ h.hb_seq = g.hb_seq /\ h.max_staged = g.max_staged
      /\ h.slots = g.slots /\ h.state = g.state
      /\ h.pending_to \in {NONE, g.pending_to}
      /\ h.pending_to # NONE => ~(g.w >= g.pending_to)
  <2>1. h = g \/ h = [g EXCEPT !.pending_to = NONE]
    BY DEF retire_pending, g, d
  <2>2. h = g => g.pending_to = NONE \/ ~(g.w >= g.pending_to)
    BY <1>0, <1>6 DEF retire_pending, g, d, SequencerStates, NONE
  <2> QED BY <2>1, <2>2, <1>0, <1>6 DEF SequencerStates
<1>8. Staging(h)
  BY <1>3, <1>5, <1>6, <1>7, StagingFrame
<1>9. h.w = r.w + n /\ h.hb_seq = r.hb_seq /\ h.state \in {r.state, "Contig"}
      /\ h.max_staged \in {0, r.max_staged} /\ h.pending_to \in {NONE, r.pending_to}
  BY <1>2, <1>3, <1>5, <1>6, <1>7, Zenon
<1>10. h.state \in Running
  BY <1>9 DEF Running
<1>11. h.w <= Top /\ h.hb_seq <= Top /\ h.max_staged < Top
  BY <1>2, <1>4, <1>9, ReachTypes DEF Reach
<1>12. ASSUME h.pending_to # NONE
       PROVE  h.pending_to <= Top /\ h.pending_to <= h.w + MAX_WIRE_REQUEST /\ h.w < h.pending_to
  <2>1. h.pending_to = r.pending_to /\ r.pending_to \in Nat /\ r.pending_to <= Top
        /\ r.pending_to <= r.w + MAX_WIRE_REQUEST
    BY <1>9, <1>12, ReachTypes DEF Reach
  <2>2. ~(h.w >= h.pending_to)
    BY <1>6, <1>7, <1>5, <1>12
  <2> QED BY <2>1, <2>2, <1>0, <1>2, <1>9, ReachTypes
<1>13. h.state # "Init" /\ h.state # "Ended"
  BY <1>10 DEF Running
<1> QED BY <1>8, <1>9, <1>10, <1>11, <1>12, <1>13 DEF Within, Reach

\* What a packet of the session's messages looks like.
LEMMA CarriedTypes ==
  ASSUME NEW p \in Carried
  PROVE  /\ p \in DataPackets /\ p \in Packets /\ p.session \in Sessions
         /\ p.seq \in Nat /\ p.count \in Nat /\ p.count >= 1 /\ p.count \in 1..MaxCount
         /\ span_last(p) \in Nat /\ p.seq <= span_last(p) /\ span_last(p) < Top
         /\ \A skip : ~walk_fails(p, skip)
         /\ FailsAtOnce(p)
<1>1. /\ p \in DataPackets /\ p.err = "ok" /\ span_last(p) <= LastMsg
  BY DEF Carried
<1>2. p.session \in Sessions /\ p.seq \in 0..MaxSeq /\ p.count \in 1..MaxCount
  BY <1>1 DEF DataPackets
<1>3. LastMsg \in Nat /\ MaxSeq \in Nat /\ MaxCount \in Nat
  BY ServerAssumption, WireAssumption
<1>4. p.seq \in Nat /\ p.count \in Nat /\ p.count >= 1
  BY <1>2, <1>3
<1>5. span_last(p) \in Nat /\ p.seq <= span_last(p) /\ span_last(p) < Top
  BY <1>1, <1>3, <1>4 DEF span_last, Top
<1>6. \A skip : ~walk_fails(p, skip)
  BY <1>1 DEF walk_fails
<1>7. FailsAtOnce(p) /\ p \in Packets
  BY <1>1 DEF FailsAtOnce, Packets
<1> QED BY <1>1, <1>2, <1>4, <1>5, <1>6, <1>7

\* An in-order packet of the session takes W no further than the session goes.
LEMMA InOrderWithin ==
  ASSUME NoWrap, NEW r, Core(r), Reach(r), r.state \in Running,
         NEW p \in Carried, r.session = p.session, p.seq <= r.w, r.w <= span_last(p),
         NEW h, h = apply_in_order(r, p)
  PROVE  Within(h) /\ h.hb_seq = r.hb_seq /\ h.state \in Running
<1> DEFINE e == Emitted(r, p)
           a == Advanced(r, p)
           c == Cleared(r, p)
<1>0. /\ p \in DataPackets /\ p.session \in Sessions /\ span_last(p) \in Nat
      /\ span_last(p) < Top /\ ~walk_fails(p, dup_skip(r, p))
  BY CarriedTypes
<1>1. InOrderStages(r, p, e, a, c)
  BY <1>0, InOrderParts
<1>2. h = retire_pending(check_gap_close(drain_progress(c)))
  BY <1>0 DEF apply_in_order, Emitted, Advanced, Cleared, c
<1> HIDE DEF e, a, c
<1>3. /\ c.w = span_last(p) + 1 /\ SameRest(r, c) /\ Bounded(c)
      /\ a.slots = r.slots /\ a.max_staged = r.max_staged
      /\ Keeps(a, c) /\ Counted(c) /\ Fits(c, c.w, c.w + WINDOW_SLOTS - 1)
  BY <1>1 DEF InOrderStages, Clears
<1>4. /\ c.hb_seq = r.hb_seq /\ c.pending_to = r.pending_to /\ c.state = r.state
      /\ c.session = r.session
  BY <1>3 DEF SameRest
<1>5. Staging(c) /\ c.max_staged \in {0, r.max_staged}
  <2>1. Staging(a)
    BY <1>3, StagingFrame DEF Reach
  <2> QED BY <2>1, <1>3, StagingKeeps DEF Keeps
<1>6. /\ r.w \in Nat /\ r.max_staged \in Nat /\ r.hb_seq \in Nat
      /\ r.pending_to # NONE => r.pending_to \in Nat
  BY ReachTypes DEF Core
<1>7. c.w <= Top /\ c.hb_seq <= Top /\ c.max_staged < Top
  BY <1>0, <1>3, <1>4, <1>5, <1>6, ReachTypes DEF Reach
<1>8. ASSUME c.pending_to # NONE
      PROVE  c.pending_to <= Top /\ c.pending_to <= c.w + MAX_WIRE_REQUEST
  <2>1. r.pending_to # NONE /\ r.pending_to <= Top
        /\ r.pending_to <= r.w + MAX_WIRE_REQUEST
    BY <1>4, <1>8 DEF Reach
  <2> QED BY <2>1, <1>0, <1>3, <1>4, <1>6, ReachTypes
<1>9. Reach(c)
  BY <1>5, <1>7, <1>8 DEF Reach
<1>10. c.state \in Running /\ c.session \in Sessions
  BY <1>0, <1>4
<1> QED BY <1>2, <1>3, <1>4, <1>9, <1>10, TailWithin

\* A packet of the session ahead of W stages numbers of the session.
LEMMA AheadWithin ==
  ASSUME NoWrap, NEW r, Core(r), Reach(r), r.state \in Running,
         NEW p \in Carried, r.session = p.session, r.w < p.seq,
         NEW h, h = apply_ahead(r, p)
  PROVE  Within(h) /\ h.hb_seq = r.hb_seq /\ h.state \in Running
<1> DEFINE g == Widened(r, p)
           t == Staged(r, p)
           u == Noted(r, p)
           n == walk_handed(p, 0)
           last == span_last(p)
<1>0. /\ p \in DataPackets /\ p.session \in Sessions /\ last \in Nat /\ last < Top
      /\ p.seq \in Nat /\ p.count \in Nat /\ ~walk_fails(p, 0) /\ n \in Nat /\ n <= p.count
  <2>1. n \in Nat /\ n <= p.count
    BY CarriedTypes, WalkHanded
  <2> QED BY <2>1, CarriedTypes
<1>1. AheadStages(r, p, g, t, u)
  <2>1. r.state # "Init"
    BY DEF Running
  <2> QED BY <2>1, <1>0, AheadParts
<1>2. h = retire_pending(check_gap_close(drain_progress(u)))
  BY <1>0 DEF apply_ahead, Widened, Staged, Noted, u
<1>3. g.state \in {r.state, "Gap"}
  BY ReachTypes DEF Widened, gap_evidence, Core, SequencerStates
<1> HIDE DEF g, t, u, n, last
<1>4. /\ g.w = r.w /\ g.session = r.session /\ g.slots = r.slots
      /\ g.max_staged = r.max_staged /\ g.hb_seq = r.hb_seq /\ g.pending_to = r.pending_to
      /\ Stages(g, t, p.seq, n)
      /\ SameRest(g, t) /\ t.w = g.w /\ t.max_staged = g.max_staged
      /\ SameRest(t, u) /\ u.w = t.w /\ u.slots = t.slots
      /\ u.max_staged = Larger(t.max_staged, last)
      /\ Core(u) /\ Fits(u, u.w, u.w + WINDOW_SLOTS - 1)
  BY <1>1 DEF AheadStages, n, last
<1>5. /\ u.w = r.w /\ u.session = r.session /\ u.state = g.state
      /\ u.hb_seq = r.hb_seq /\ u.pending_to = r.pending_to
      /\ u.max_staged = Larger(r.max_staged, last)
  BY <1>4 DEF SameRest
<1>6. /\ r.w \in Nat /\ r.max_staged \in Nat /\ r.hb_seq \in Nat
  BY ReachTypes DEF Core
<1>7. /\ u.max_staged \in Nat /\ r.max_staged <= u.max_staged /\ last <= u.max_staged
      /\ u.max_staged < Top
  BY <1>0, <1>5, <1>6, ReachTypes DEF Larger, Reach
<1>8. Staging(u)
  <2> SUFFICES ASSUME NEW i \in Occupied(u.slots)
               PROVE  u.slots[i][2] < Top /\ u.slots[i][2] <= u.max_staged
    BY DEF Staging
  <2>1. CASE i \in Occupied(r.slots) /\ u.slots[i] = r.slots[i]
    <3>1. r.slots[i][2] < Top /\ r.slots[i][2] <= r.max_staged
      BY <2>1 DEF Reach, Staging
    <3>2. r.slots[i][2] \in Nat
      <4>1. r.slots \in [0..(WINDOW_SLOTS - 1) -> Messages \cup {NoMsg}]
        BY ReachTypes DEF Core, SequencerStates
      <4>2. r.slots[i] \in Messages
        BY <4>1, <2>1 DEF Occupied
      <4> QED BY <4>2, WireAssumption DEF Messages, U64
    <3> QED BY <2>1, <3>1, <3>2, <1>6, <1>7
  <2>2. CASE \E m \in p.seq..(p.seq + n - 1) : u.slots[i] = Msg(g.session, m)
    <3>1. PICK m \in p.seq..(p.seq + n - 1) : u.slots[i] = Msg(g.session, m)
      BY <2>2
    <3>2. u.slots[i][2] = m
      BY <3>1 DEF Msg
    <3>3. m \in Nat /\ m <= last
      BY <1>0 DEF last, span_last
    <3> QED BY <3>2, <3>3, <1>0, <1>7, ReachTypes
  <2> QED BY <2>1, <2>2, <1>4 DEF Stages
<1>9. Reach(u)
  BY <1>5, <1>7, <1>8 DEF Reach
<1>10. u.state \in Running /\ u.session \in Sessions
  BY <1>0, <1>3, <1>5 DEF Running
<1>11. Bounded(u) /\ Counted(u)
  BY <1>4 DEF Core
<1> QED BY <1>2, <1>4, <1>5, <1>9, <1>10, <1>11, TailWithin

-----------------------------------------------------------------------------
\* Handlers that leave W, window and heartbeat alone and pend nothing new.
LEMMA WithinFrame ==
  ASSUME NEW r, Within(r), NEW h, h.w = r.w, h.slots = r.slots,
         h.max_staged = r.max_staged, h.hb_seq <= Top,
         h.pending_to \in {NONE, r.pending_to},
         h.state = "Init" => r.state = "Init",
         h.state = "Ended" /\ h.sink.last_seq # 0 => h.w = Top
  PROVE  Within(h)
<1>1. Staging(h)
  BY StagingFrame DEF Within, Reach
<1> QED BY <1>1 DEF Within, Reach

\* session.rs: the session adopted keeps what the engine has asked for, a new one
\* drops it.
LEMMA DispatchWithin ==
  ASSUME NEW r, Core(r), Gap(r), Within(r), NEW s \in Sessions, r.state # "Dead",
         NEW d, d = session_dispatch(r, s)
  PROVE  /\ Within(d) /\ d.w = r.w
         /\ r.session \in {NoSession, s} =>
               /\ d.hb_seq = r.hb_seq /\ d.pending_to = r.pending_to /\ d.state = r.state
         /\ r.session \notin {NoSession, s} => d.hb_seq = 0 /\ d.pending_to = NONE
<1>0. r \in SequencerStates /\ r.hb_seq <= Top /\ r.w <= Top /\ Top \in Nat /\ Top >= 2
  BY ReachTypes DEF Core, Within, Reach
<1>1. CASE r.session = NoSession
  <2>1. d = [r EXCEPT !.session = s]
    BY <1>1 DEF session_dispatch
  <2>2. /\ d.w = r.w /\ d.slots = r.slots /\ d.max_staged = r.max_staged
        /\ d.hb_seq = r.hb_seq /\ d.pending_to = r.pending_to /\ d.state = r.state
    BY <2>1, <1>0 DEF SequencerStates
  <2>3. r.state # "Ended"
    BY <1>1 DEF Gap
  <2> QED BY <2>2, <2>3, <1>0, <1>1, WithinFrame
<1>2. CASE r.session # NoSession /\ r.session # s
  <2>1. d = session_boundary(r, s)
    BY <1>2 DEF session_dispatch
  <2>2. /\ d.w = r.w /\ d.max_staged = 0 /\ d.hb_seq = 0 /\ d.pending_to = NONE
        /\ d.state = "Init" /\ d.slots = IF r.staged_count # 0 THEN EmptySlots ELSE r.slots
    BY <2>1, <1>0 DEF SequencerStates, session_boundary
  <2>3. Occupied(d.slots) = {}
    <3>1. Occupied(EmptySlots) = {}
      BY DEF EmptySlots, Occupied
    <3> QED BY <3>1, <2>2, EmptyWindow DEF Core
  <2>4. Staging(d)
    BY <2>3 DEF Staging
  <2> QED BY <2>2, <2>4, <1>0, <1>2 DEF Within, Reach
<1>3. CASE r.session = s
  <2>1. d = r
    BY <1>3, SessionAssumption DEF session_dispatch
  <2> QED BY <2>1, <1>3
<1> QED BY <1>1, <1>2, <1>3

\* The venue's heartbeats announce the number after the last message.
LEMMA HeartbeatWithin ==
  ASSUME NEW r, Core(r), Within(r), NEW h, h = handle_heartbeat(r, Top)
  PROVE  /\ Within(h) /\ h.w = r.w /\ h.pending_to = r.pending_to
         /\ h.hb_seq \in {r.hb_seq, Top}
         /\ h.state = "Init" => r.state = "Init" /\ h.hb_seq = Top
<1> DEFINE heard == [r EXCEPT !.hb_seq = Top, !.hb_age = 0]
<1>0. r \in SequencerStates /\ r.hb_seq <= Top /\ Top \in Nat
  BY ReachTypes DEF Core, Within, Reach
<1>1. /\ heard.w = r.w /\ heard.slots = r.slots /\ heard.max_staged = r.max_staged
      /\ heard.hb_seq = Top /\ heard.pending_to = r.pending_to /\ heard.state = r.state
      /\ heard.sink = r.sink /\ DOMAIN heard = DOMAIN r
  BY <1>0 DEF SequencerStates
<1> HIDE DEF heard
<1>2. CASE h = r /\ r.state # "Init"
  BY <1>2
<1>3. CASE h = heard
  BY <1>0, <1>1, <1>3, WithinFrame DEF Within
<1>4. CASE h = gap_evidence(heard, Top) /\ r.state \in Running
  <2>1. /\ h.w = heard.w /\ h.slots = heard.slots /\ h.max_staged = heard.max_staged
        /\ h.hb_seq = heard.hb_seq /\ h.pending_to = heard.pending_to
        /\ h.state \in {heard.state, "Gap"}
    BY <1>0, <1>1, <1>4 DEF gap_evidence, SequencerStates
  <2>2. h.state # "Init" /\ h.state # "Ended"
    BY <2>1, <1>1, <1>4 DEF Running
  <2> QED BY <2>1, <2>2, <1>0, <1>1, WithinFrame
<1> QED BY <1>2, <1>3, <1>4 DEF handle_heartbeat, heard

\* An end of session that announces the number after the last message ends the
\* session complete, or before anything of it was emitted.
LEMMA EosWithin ==
  ASSUME NEW r, Core(r), Order(r), Within(r), NEW h,
         h = handle_eos(r, Top) \/ h = seal(r)
  PROVE  /\ Within(h) /\ h.w = r.w /\ h.hb_seq = r.hb_seq /\ h.state # "Init"
<1>0. /\ r \in SequencerStates /\ r.hb_seq <= Top /\ Top \in Nat /\ r.w <= Top
      /\ r.w \in Nat /\ r.sink \in SinkStates
  <2>1. r \in SequencerStates
    BY DEF Core, Bounded
  <2>2. r.sink \in SinkStates
    BY <2>1 DEF SequencerStates
  <2> QED BY <2>1, <2>2, ReachTypes DEF Core, Within, Reach
<1>1. CASE h = r /\ r.state # "Init"
  BY <1>1
<1>2. CASE h = [r EXCEPT !.state = "EosPersist"]
  <2>1. /\ h.w = r.w /\ h.slots = r.slots /\ h.max_staged = r.max_staged
        /\ h.hb_seq = r.hb_seq /\ h.pending_to = r.pending_to /\ h.state = "EosPersist"
    BY <1>0, <1>2 DEF SequencerStates
  <2> QED BY <2>1, <1>0, WithinFrame
<1>3. ASSUME NEW st \in {"Ended", "Dead"},
             h = [r EXCEPT !.state = st, !.sink = on_terminal(r.sink)],
             st = "Ended" => r.state = "Init" \/ r.w >= Top
      PROVE  /\ Within(h) /\ h.w = r.w /\ h.hb_seq = r.hb_seq /\ h.state # "Init"
  <2>1. /\ h.w = r.w /\ h.slots = r.slots /\ h.max_staged = r.max_staged
        /\ h.hb_seq = r.hb_seq /\ h.pending_to = r.pending_to /\ h.state = st
        /\ h.sink = on_terminal(r.sink)
    BY <1>0, <1>3 DEF SequencerStates
  <2>2. h.sink.last_seq = r.sink.last_seq
    BY <2>1, <1>0 DEF on_terminal, SinkStates
  <2>3. h.state = "Ended" /\ h.sink.last_seq # 0 => h.w = Top
    BY <2>1, <2>2, <1>0, <1>3 DEF Order
  <2> QED BY <2>1, <2>3, <1>0, <1>3, WithinFrame
<1>4. CASE h = handle_eos(r, Top)
  BY <1>1, <1>2, <1>3, <1>4 DEF handle_eos, end_session
<1>5. CASE h = seal(r)
  BY <1>1, <1>3, <1>5 DEF seal
<1> QED BY <1>4, <1>5

\* The passing of time.
LEMMA TickWithin ==
  ASSUME NEW r, Core(r), Within(r), NEW h, h = tick(r)
  PROVE  /\ Within(h) /\ h.w = r.w /\ h.hb_seq = r.hb_seq /\ h.state = r.state
         /\ h.session = r.session /\ h.pending_to = r.pending_to
<1>0. r \in SequencerStates /\ r.hb_seq <= Top
  BY ReachTypes DEF Core, Within, Reach
<1>1. /\ h.w = r.w /\ h.slots = r.slots /\ h.max_staged = r.max_staged
      /\ h.hb_seq = r.hb_seq /\ h.pending_to = r.pending_to /\ h.state = r.state
      /\ h.session = r.session /\ h.sink = r.sink
  BY <1>0 DEF SequencerStates, tick
<1> QED BY <1>0, <1>1, WithinFrame DEF Within

\* A data packet of the session, once the session it names has been dispatched to.
\* Where it anchors W with a range still pending, it may not anchor behind the W
\* that range was asked from.
LEMMA DataWithin ==
  ASSUME NoWrap, EngineFits, NEW r, Core(r), Gap(r), Within(r), r.state # "Dead",
         NEW p \in Carried, r.session = p.session,
         r.state = "Init" /\ r.pending_to # NONE => r.w <= p.seq,
         NEW h, h = ingest_data(r, p)
  PROVE  Within(h) /\ h.hb_seq = r.hb_seq /\ h.state # "Init"
<1> DEFINE a == anchor(r, p.seq)
<1>0. /\ p \in DataPackets /\ p.session \in Sessions /\ p.seq \in Nat /\ span_last(p) \in Nat
      /\ p.seq <= span_last(p) /\ span_last(p) < Top /\ Top \in Nat
      /\ r \in SequencerStates /\ r.w \in Nat /\ r.state \in States
      /\ MAX_WIRE_REQUEST \in Nat /\ (r.pending_to # NONE => r.pending_to \in Nat)
  <2>1. r \in SequencerStates
    BY DEF Core, Bounded
  <2>2. r.state \in States
    BY <2>1 DEF SequencerStates
  <2> QED BY <2>1, <2>2, CarriedTypes, ReachTypes DEF Core
<1>1. ~span_overflows(p)
  <2>1. Top <= U64_MAX /\ U64_MAX \in Nat
    BY <1>0, WireAssumption DEF EngineFits, Top
  <2> QED BY <2>1, <1>0 DEF span_overflows
<1>2. CASE ~accepts_data(r, p) \/ is_duplicate(r, p)
  <2>1. h = r
    BY <1>2 DEF ingest_data
  <2>2. r.state # "Init"
    BY <1>1, <1>2 DEF accepts_data, is_duplicate
  <2> QED BY <2>1, <2>2
<1>3. CASE accepts_data(r, p) /\ ~is_duplicate(r, p)
  <2>1. /\ Core(a) /\ a.session = r.session /\ a.w <= span_last(p)
    <3>1. r.session # NoSession
      BY <1>0, SessionAssumption
    <3> QED BY <3>1, <1>0, <1>3, AnchorGap
  <2>2. Reach(a) /\ a.hb_seq = r.hb_seq /\ a.state \in Running
    <3>1. CASE r.state = "Init"
      <4>1. a = [r EXCEPT !.w = p.seq, !.progress_age = 0, !.state = "Contig"]
        BY <3>1 DEF anchor
      <4>2. /\ a.w = p.seq /\ a.slots = r.slots /\ a.max_staged = r.max_staged
            /\ a.hb_seq = r.hb_seq /\ a.pending_to = r.pending_to /\ a.state = "Contig"
        BY <4>1, <1>0 DEF SequencerStates
      <4> HIDE DEF a
      <4>3. Staging(a)
        BY <4>2, StagingFrame DEF Within, Reach
      <4>4. ASSUME a.pending_to # NONE
            PROVE  a.pending_to <= Top /\ a.pending_to <= a.w + MAX_WIRE_REQUEST
        <5>1. r.w <= p.seq /\ r.pending_to \in Nat /\ r.pending_to <= Top
              /\ r.pending_to <= r.w + MAX_WIRE_REQUEST
          BY <3>1, <4>2, <4>4, <1>0 DEF Within, Reach
        <5> QED BY <5>1, <4>2, <1>0
      <4>5. a.w <= Top /\ a.hb_seq <= Top /\ a.max_staged < Top
        BY <4>2, <1>0 DEF Within, Reach
      <4> QED BY <4>2, <4>3, <4>4, <4>5 DEF Reach, Running
    <3>2. CASE r.state # "Init"
      BY <3>2, <1>0, <1>3 DEF anchor, accepts_data, States, Running, Within
    <3> QED BY <3>1, <3>2
  <2>3. h = IF p.seq <= a.w THEN apply_in_order(a, p) ELSE apply_ahead(a, p)
    BY <1>3 DEF ingest_data
  <2> HIDE DEF a
  <2>4. a.w \in Nat
    BY <2>1, ReachTypes DEF Core
  <2>5. CASE p.seq <= a.w
    BY <2>1, <2>2, <2>3, <2>5, InOrderWithin DEF Running
  <2>6. CASE ~(p.seq <= a.w)
    <3>1. a.w < p.seq
      BY <2>4, <2>6, <1>0
    <3> QED BY <3>1, <2>1, <2>2, <2>3, <2>6, AheadWithin DEF Running
  <2> QED BY <2>5, <2>6
<1> QED BY <1>2, <1>3

\* What the engine hands to ingest.
Frames == Carried \cup {ControlPacket(HEARTBEAT_COUNT), ControlPacket(EOS_COUNT)}

\* h is r after a frame p, as far as the engine is concerned
Ingests(r, p, h) ==
    /\ Core(h) /\ Gap(h) /\ Order(h) /\ Within(h)
    /\ h.session = p.session
    /\ h.session = r.session /\ r.state # "Init" => r.w <= h.w
    /\ h.hb_seq # 0 =>
          \/ r.hb_seq # 0 /\ r.session \in {NoSession, p.session}
          \/ p = ControlPacket(HEARTBEAT_COUNT)
    /\ h.state = "Init" =>
          /\ h.hb_seq # 0
          /\ r.session \in {NoSession, p.session} => r.state = "Init" /\ h.w = r.w

\* Control packets are packets of the wire.
LEMMA ControlTypes ==
  ASSUME EngineFits
  PROVE  /\ ControlPacket(HEARTBEAT_COUNT) \in Heartbeats
         /\ ControlPacket(EOS_COUNT) \in EosPackets
         /\ \A c : /\ ControlPacket(c).seq = Top /\ ControlPacket(c).count = c
                   /\ ControlPacket(c).session = Home
<1>1. LastMsg + 1 \in 0..MaxSeq /\ Home \in Sessions
  BY ServerAssumption, WireAssumption DEF EngineFits
<1> QED BY <1>1 DEF ControlPacket, Heartbeats, EosPackets, Top

\* Any frame, in any state of the engine.
LEMMA IngestWithin ==
  ASSUME NoWrap, EngineFits, NEW r, Core(r), Gap(r), Order(r), Within(r), r.state # "Dead",
         NEW p \in Frames,
         p \in Carried /\ r.state = "Init" /\ r.pending_to # NONE
            /\ r.session \in {NoSession, p.session} => r.w <= p.seq,
         NEW h, h = ingest(r, p)
  PROVE  Ingests(r, p, h)
<1> DEFINE d == session_dispatch(r, p.session)
<1>0. EOS_COUNT \in Nat /\ MaxCount \in Nat /\ MaxCount < EOS_COUNT /\ Top \in Nat /\ Top >= 2
  BY WireAssumption, ReachTypes
<1>1. p \in Packets /\ p.session \in Sessions /\ FailsAtOnce(p)
  <2>1. CASE p \in Carried
    BY <2>1, CarriedTypes
  <2>2. CASE p \in {ControlPacket(HEARTBEAT_COUNT), ControlPacket(EOS_COUNT)}
    BY <2>2, ControlTypes DEF Packets, Heartbeats, EosPackets, FailsAtOnce
  <2> QED BY <2>1, <2>2 DEF Frames
<1>2. /\ Core(h) /\ Gap(h) /\ Order(h) /\ h.session = p.session
      /\ h.session = r.session /\ r.state # "Init" => r.w <= h.w
  BY <1>1, IngestCore, IngestGap
<1>3. Core(d) /\ Gap(d) /\ Order(d) /\ d.session = p.session /\ d.state # "Dead"
  BY <1>1, SessionDispatchCore, SessionDispatchGap
<1>4. /\ Within(d) /\ d.w = r.w
      /\ r.session \in {NoSession, p.session} =>
            /\ d.hb_seq = r.hb_seq /\ d.pending_to = r.pending_to /\ d.state = r.state
      /\ r.session \notin {NoSession, p.session} => d.hb_seq = 0 /\ d.pending_to = NONE
  BY <1>1, DispatchWithin
<1> HIDE DEF d
<1>5. CASE p = ControlPacket(HEARTBEAT_COUNT)
  <2>1. h = handle_heartbeat(d, Top)
    BY <1>5, ControlTypes DEF ingest, d
  <2>2. /\ Within(h) /\ h.w = d.w /\ h.hb_seq \in {d.hb_seq, Top}
        /\ h.state = "Init" => d.state = "Init" /\ h.hb_seq = Top
    BY <2>1, <1>3, <1>4, HeartbeatWithin
  <2>3. Top # 0
    BY <1>0
  <2> QED BY <2>2, <2>3, <1>2, <1>4, <1>5 DEF Ingests
<1>6. CASE p = ControlPacket(EOS_COUNT)
  <2>1. h = handle_eos(d, Top)
    BY <1>0, <1>6, ControlTypes DEF ingest, d, HEARTBEAT_COUNT
  <2>2. Within(h) /\ h.hb_seq = d.hb_seq /\ h.state # "Init"
    BY <2>1, <1>3, <1>4, EosWithin
  <2> QED BY <2>2, <1>2, <1>4 DEF Ingests
<1>7. CASE p \in Carried
  <2>1. p.count # HEARTBEAT_COUNT /\ p.count # EOS_COUNT
    BY <1>0, <1>7, CarriedTypes DEF HEARTBEAT_COUNT
  <2>2. h = ingest_data(d, p)
    BY <2>1 DEF ingest, d
  <2>3. Within(h) /\ h.hb_seq = d.hb_seq /\ h.state # "Init"
    BY <2>2, <1>3, <1>4, <1>7, DataWithin
  <2> QED BY <2>3, <1>2, <1>4 DEF Ingests
<1> QED BY <1>5, <1>6, <1>7 DEF Frames

-----------------------------------------------------------------------------
\* intent.rs: what is asked for next begins at W, goes at most to the last evidence,
\* which is ahead of W, and fits one wire request.
LEMMA IntentWithin ==
  ASSUME NoWrap, NEW r, Core(r), Gap(r), Within(r), intent_due(r),
         NEW h, h = check_recovery_intent(r)
  PROVE  /\ Within(h) /\ h.w = r.w /\ h.session = r.session /\ h.state = r.state
         /\ h.hb_seq = r.hb_seq
         /\ r.state = "Init" /\ r.pending_to = NONE => r.hb_seq # 0
         /\ request(r.w, h.pending_to) \in [from : Nat, count : Nat]
         /\ request(r.w, h.pending_to).from = r.w
         /\ request(r.w, h.pending_to).count > 0
         /\ r.w + request(r.w, h.pending_to).count <= Top
<1> DEFINE t == intent_target(r)
           cap == wire_cap(r, t)
<1>0. /\ r \in SequencerStates /\ r.w \in Nat /\ r.hb_seq \in Nat /\ r.max_staged \in Nat
      /\ r.pending_to # NONE => r.pending_to \in Nat
      /\ Top \in Nat /\ MAX_WIRE_REQUEST \in Nat /\ MAX_WIRE_REQUEST >= 1
      /\ r.w <= Top /\ r.hb_seq <= Top /\ r.max_staged < Top
  BY ReachTypes DEF Core, Within, Reach
<1>1. r.staged_count > 0 => r.max_staged > r.w
  <2> SUFFICES ASSUME r.staged_count > 0 PROVE r.max_staged > r.w
    OBVIOUS
  <2>1. Fits(r, r.w + 1, r.w + WINDOW_SLOTS - 1) /\ Counted(r) /\ r.staged_count # 0
    <3>1. r.staged_count # 0
      BY <1>0, WindowAssumption DEF SequencerStates
    <3> QED BY <3>1 DEF Core
  <2>2. PICK n \in (r.w + 1)..(r.w + WINDOW_SLOTS - 1) : Has(r, n)
    BY <2>1, <1>0, StagedHas
  <2>3. /\ n \in Nat /\ n > r.w /\ n \in r.w..(r.w + WINDOW_SLOTS - 1)
    BY <1>0, WindowAssumption
  <2>4. r.slots[Slot(n)] = Msg(r.session, n)
    <3>1. Fits(r, r.w, r.w + WINDOW_SLOTS - 1)
      BY <2>1, <1>0, FitsWeaken
    <3> QED BY <3>1, <2>2, <2>3, <1>0, HasOwn
  <2>5. Slot(n) \in Occupied(r.slots)
    BY <2>2, <2>3, SlotType DEF Has, Occupied, Ring
  <2>6. n <= r.max_staged
    BY <2>4, <2>5 DEF Within, Reach, Staging, Msg
  <2> QED BY <2>3, <2>6, <1>0
<1>2. t # NONE => t \in Nat /\ r.w < t /\ t <= Top
  BY <1>0, <1>1 DEF intent_target
<1>3. r.state = "Init" /\ t # NONE => r.hb_seq # 0
  <2>1. r.state = "Init" => r.max_staged = 0 /\ r.staged_count = 0
    BY DEF Core, Within
  <2> QED BY <2>1, <1>0 DEF intent_target
<1> HIDE DEF t
<1>4. t # NONE => cap \in Nat /\ r.w < cap /\ cap <= Top /\ cap <= r.w + MAX_WIRE_REQUEST
  <2>1. Add(r.w, MAX_WIRE_REQUEST) = r.w + MAX_WIRE_REQUEST
    <3>1. r.w + MAX_WIRE_REQUEST <= U64_MAX
      <4>1. r.w <= MaxW
        BY DEF Core, Bounded
      <4>2. WINDOW_SLOTS \in Nat /\ MaxSeq \in Nat /\ MaxCount \in Nat /\ U64_MAX \in Nat
        BY WindowAssumption, WireAssumption
      <4> QED BY <4>1, <4>2, <1>0 DEF NoWrap, MaxW
    <3> QED BY <3>1, <1>0, AddExact
  <2> QED BY <2>1, <1>0, <1>2 DEF wire_cap, Smaller
<1> HIDE DEF cap
<1>5. /\ h.w = r.w /\ h.slots = r.slots /\ h.max_staged = r.max_staged
      /\ h.hb_seq = r.hb_seq /\ h.state = r.state /\ h.session = r.session
      /\ h.sink = r.sink
      /\ h.pending_to = IF intent_widens(r) THEN cap ELSE r.pending_to
  BY <1>0 DEF SequencerStates, check_recovery_intent, cap, t
<1>6. intent_widens(r) => t # NONE
  BY DEF intent_widens, t
<1>7. ~intent_widens(r) => r.pending_to # NONE
  BY DEF intent_due, intent_repeats
<1> DEFINE to == h.pending_to
<1>8. to \in Nat /\ r.w < to /\ to <= Top /\ to <= r.w + MAX_WIRE_REQUEST
  <2>1. CASE intent_widens(r)
    BY <2>1, <1>4, <1>5, <1>6
  <2>2. CASE ~intent_widens(r)
    BY <2>2, <1>0, <1>5, <1>7 DEF Within, Reach
  <2> QED BY <2>1, <2>2
<1>9. Within(h)
  <2>1. Staging(h)
    BY <1>5, StagingFrame DEF Within, Reach
  <2>2. Reach(h)
    BY <2>1, <1>0, <1>5, <1>8 DEF Reach
  <2> QED BY <2>2, <1>5, <1>8 DEF Within
<1> HIDE DEF to
<1>10. Larger(0, to - r.w) % (MAX_WIRE_REQUEST + 1) = to - r.w
  <2>1. Larger(0, to - r.w) = to - r.w /\ to - r.w \in 0..MAX_WIRE_REQUEST
    BY <1>0, <1>8 DEF Larger
  <2> QED BY <2>1, <1>0
<1>11. request(r.w, to) = [from |-> r.w, count |-> to - r.w]
  BY <1>10 DEF request
<1>12. to - r.w \in Nat /\ to - r.w > 0 /\ r.w + (to - r.w) <= Top
  BY <1>0, <1>8
<1>13. /\ request(r.w, to) \in [from : Nat, count : Nat]
       /\ request(r.w, to).from = r.w /\ request(r.w, to).count = to - r.w
  BY <1>0, <1>11, <1>12
<1> QED BY <1>3, <1>5, <1>6, <1>7, <1>9, <1>12, <1>13 DEF to

\* fakeserver.rs: the answers to a range of the session are packets of its messages.
LEMMA PackedAnswers ==
  ASSUME EngineFits, NEW s \in Sessions, NEW from \in Nat, NEW count \in Nat,
         from + count <= Top
  PROVE  pack_response_packets(s, from, count) \in Seq({p \in Carried : p.session = s})
<1> DEFINE R == RespPacket
           total == Smaller(count, available(from))
           n == (total + R - 1) \div R
           at(i) == from + (i - 1) * R
           len(i) == Smaller(R, total - (i - 1) * R)
<1>0. /\ R \in Nat /\ R >= 1 /\ R <= MaxCount /\ LastMsg \in Nat /\ MaxSeq \in Nat
      /\ Top = LastMsg + 1 /\ Top <= MaxSeq /\ MaxCount \in Nat /\ "ok" \in ErrKinds
  BY ServerAssumption, WireAssumption DEF EngineFits, Top
<1>1. total \in Nat /\ total <= count
  <2>1. available(from) \in Nat
    BY <1>0 DEF available, Larger
  <2> QED BY <2>1 DEF Smaller
<1> HIDE DEF total, R
<1>2. n \in Nat /\ n * R <= total + R - 1
  <2>1. /\ total + R - 1 \in Nat
    BY <1>0, <1>1
  <2>2. \A x \in Nat : x \div R \in Nat /\ (x \div R) * R <= x
    BY <1>0
  <2> QED BY <2>1, <2>2
<1> HIDE DEF n
<1>3. ASSUME NEW i \in 1..n
      PROVE  DataPacket(s, at(i), len(i)) \in {p \in Carried : p.session = s}
  <2> DEFINE k == (i - 1) * R
  <2>1. k \in Nat /\ k < total
    <3>1. i - 1 \in Nat /\ i - 1 <= n - 1
      BY <1>2
    <3>2. (i - 1) * R <= (n - 1) * R
      BY <3>1, <1>0, <1>2
    <3>3. (n - 1) * R = n * R - R
      BY <1>0, <1>2
    <3>4. k \in Nat
      BY <3>1, <1>0
    <3> HIDE DEF k
    <3>5. k <= n * R - R /\ n * R \in Nat
      BY <3>2, <3>3, <1>0, <1>2 DEF k
    <3> QED BY <3>4, <3>5, <1>0, <1>1, <1>2
  <2> HIDE DEF k
  <2>2. at(i) = from + k /\ len(i) = Smaller(R, total - k)
    BY DEF k
  <2>3. /\ len(i) \in 1..MaxCount /\ len(i) \in 0..MaxCount /\ at(i) \in 0..MaxSeq
        /\ at(i) + len(i) - 1 <= LastMsg
    BY <2>1, <2>2, <1>0, <1>1 DEF Smaller
  <2> HIDE DEF at, len
  <2> DEFINE p == DataPacket(s, at(i), len(i))
  <2>4. /\ p.session = s /\ p.seq = at(i) /\ p.count = len(i) /\ p.good = len(i) /\ p.err = "ok"
        /\ p \in [session : Sessions, seq : 0..MaxSeq, count : 1..MaxCount,
                  good : 0..MaxCount, err : ErrKinds]
    BY <2>3, <1>0 DEF DataPacket
  <2> HIDE DEF p
  <2>5. p \in DataPackets /\ span_last(p) <= LastMsg
    BY <2>3, <2>4 DEF DataPackets, span_last
  <2>6. p \in {x \in Carried : x.session = s}
    BY <2>4, <2>5 DEF Carried
  <2> QED BY <2>6 DEF p
<1>4. [i \in 1..n |-> DataPacket(s, at(i), len(i))] \in Seq({p \in Carried : p.session = s})
  BY <1>2, <1>3, SMT
<1> QED BY <1>4 DEF pack_response_packets, n, total, R, at, len

\* The session the server answers for is one of the wire's, Home or not Home as its
\* fault mode says.
LEMMA EffectiveSession ==
  ASSUME NEW fault \in Faults
  PROVE  /\ effective_sess(fault) \in Sessions
         /\ fault # "wrong_session" => effective_sess(fault) = Home
         /\ fault = "wrong_session" => effective_sess(fault) # Home
<1>1. CASE fault = "wrong_session"
  <2>1. \E s \in Sessions : s # Home
    BY <1>1, ServerAssumption
  <2> QED BY <2>1, <1>1 DEF effective_sess
<1>2. CASE fault # "wrong_session"
  BY <1>2, ServerAssumption DEF effective_sess
<1> QED BY <1>1, <1>2

\* Whatever the fault mode does to them, answers stay answers.
LEMMA ServedAnswers ==
  ASSUME EngineFits, NEW fault \in Faults, NEW w, NEW req \in Asks(fault, w),
         NEW seen, NEW served \in Int
  PROVE  answer(fault, req, seen, served) \in Seq(Answers(fault))
<1> DEFINE s == effective_sess(fault)
           A == Answers(fault)
           packets == pack_response_packets(s, req.from, count_to_serve(fault, req.count))
           kept == drop_response(fault, packets, served)
<1>0. /\ req.from \in Nat /\ req.count \in Nat /\ req.from + req.count <= Top
      /\ Top \in Nat /\ TruncateK \in Nat /\ FaultN \in Nat
  BY ServerAssumption, ReachTypes DEF Asks
<1>1. packets \in Seq(A)
  <2>1. /\ count_to_serve(fault, req.count) \in Nat
        /\ req.from + count_to_serve(fault, req.count) <= Top
    BY <1>0 DEF count_to_serve, Smaller
  <2>2. A = {p \in Carried : p.session = s}
    BY DEF Answers
  <2> QED BY <2>1, <2>2, <1>0, EffectiveSession, PackedAnswers
<1> HIDE DEF packets, A
<1>2. kept \in Seq(A)
  <2>1. CASE kept = packets
    BY <2>1, <1>1
  <2>2. CASE FaultN - served \in DOMAIN packets /\ kept = RemoveAt(packets, FaultN - served)
    <3> DEFINE j == FaultN - served
    <3>1. j \in 1..Len(packets) /\ Len(packets) \in Nat
      BY <2>2, <1>1, LenProperties
    <3>2. \A i \in 1..Len(packets) : packets[i] \in A
      BY <1>1, ElementOfSeq
    <3> HIDE DEF j
    <3>3. SubSeq(packets, 1, j - 1) \in Seq(A)
      <4>1. \A i \in 1..(j - 1) : packets[i] \in A
        BY <3>1, <3>2
      <4>2. j - 1 \in Int
        BY <3>1
      <4> QED BY <4>1, <4>2, SubSeqProperties
    <3>4. SubSeq(packets, j + 1, Len(packets)) \in Seq(A)
      <4>1. \A i \in (j + 1)..Len(packets) : packets[i] \in A
        BY <3>1, <3>2
      <4>2. j + 1 \in Int /\ Len(packets) \in Int
        BY <3>1
      <4> QED BY <4>1, <4>2, SubSeqProperties
    <3> QED BY <3>3, <3>4, <2>2, ConcatProperties DEF RemoveAt, j
  <2> QED BY <2>1, <2>2 DEF drop_response
<1> HIDE DEF kept
<1>3. duplicate_first(fault, kept) \in Seq(A)
  <2>1. CASE kept = <<>> \/ fault # "duplicate_first"
    BY <2>1, <1>2 DEF duplicate_first
  <2>2. CASE kept # <<>>
    <3>1. kept[1] \in A
      BY <2>2, <1>2, EmptySeq, ElementOfSeq
    <3>2. <<kept[1]>> \in Seq(A)
      BY <3>1
    <3> QED BY <3>2, <1>2, ConcatProperties DEF duplicate_first
  <2> QED BY <2>1, <2>2
<1>4. <<>> \in Seq(A)
  BY EmptySeq
<1> QED BY <1>3, <1>4 DEF answer, kept, packets, A

-----------------------------------------------------------------------------
\* A frame of the feeds, or an answer, leaves the engine settled; answers for Home
\* and frames never move W back.
LEMMA IngestSettled ==
  ASSUME NoWrap, EngineFits, NEW r, NEW f, NEW fault \in Faults, Settled(r, f, fault),
         NEW p,
         \/ p \in Carried /\ p.session = Home /\ data_left(f) # {}
         \/ p \in Answers(fault)
         \/ p \in {ControlPacket(HEARTBEAT_COUNT), ControlPacket(EOS_COUNT)}
               /\ (Rolling \/ data_left(f) = {}),
         NEW h, h = ingest(r, p)
  PROVE  Settled(h, f, fault) /\ (fault # "wrong_session" => r.w <= h.w)
<1>0. /\ Core(r) /\ Gap(r) /\ Order(r) /\ Within(r) /\ Fed(r, f, fault) /\ r.w \in Nat
      /\ Home \in Sessions /\ Home # NoSession
  BY ReachTypes, ServerAssumption, SessionAssumption DEF Settled, Core
<1>1. CASE r.state = "Dead"
  <2>1. h = r
    BY <1>1 DEF ingest
  <2> QED BY <2>1, <1>0
<1>2. CASE r.state # "Dead"
  <2>1. p \in Frames
    BY DEF Frames, Answers
  <2>2. fault # "wrong_session" => p.session = Home
    BY EffectiveSession, ControlTypes DEF Answers
  <2>3. p \in Carried => p \notin {ControlPacket(HEARTBEAT_COUNT), ControlPacket(EOS_COUNT)}
    <3>1. EOS_COUNT \in Nat /\ MaxCount \in Nat /\ MaxCount < EOS_COUNT
      BY WireAssumption
    <3> QED BY <3>1, CarriedTypes, ControlTypes DEF HEARTBEAT_COUNT
  <2>4. p \in Carried => p.seq \in Nat
    BY CarriedTypes
  <2>5. ASSUME p \in Carried, r.state = "Init", r.pending_to # NONE,
               r.session \in {NoSession, p.session}
        PROVE  r.w <= p.seq
    <3>1. r.session = Home /\ (Rolling \/ data_left(f) = {})
      BY <2>5, <1>0 DEF Fed
    <3>2. Rolling => fault # "wrong_session"
      BY DEF EngineFits
    <3>3. fault # "wrong_session"
      <4>1. CASE data_left(f) = {}
        <5>1. p \in Answers(fault)
          BY <4>1, <2>3, <2>5
        <5> QED BY <3>1, <5>1, <2>5, <1>0, EffectiveSession DEF Answers
      <4>2. CASE Rolling
        BY <3>2, <4>2
      <4> QED BY <3>1, <4>1, <4>2
    <3>4. r.w = 0
      BY <3>3, <2>5, <1>0 DEF Fed
    <3> QED BY <3>4, <2>4, <2>5
  <2>6. Ingests(r, p, h)
    BY <2>1, <2>5, <1>0, <1>2, IngestWithin
  <2>7. r.hb_seq # 0 => r.session = Home /\ (Rolling \/ data_left(f) = {})
    BY <1>0 DEF Fed
  <2>8. h.hb_seq # 0 => h.session = Home /\ (Rolling \/ data_left(f) = {})
    <3>1. CASE r.hb_seq # 0 /\ r.session \in {NoSession, p.session}
      BY <3>1, <2>6, <2>7, <1>0 DEF Ingests
    <3>2. CASE p = ControlPacket(HEARTBEAT_COUNT)
      BY <3>2, <2>3, <2>6, ControlTypes DEF Ingests, Answers
    <3> QED BY <3>1, <3>2, <2>6 DEF Ingests
  <2>9. ASSUME fault # "wrong_session"
        PROVE  /\ h.session = Home /\ (h.state = "Init" => h.w = 0)
               /\ r.w <= h.w
    <3>1. p.session = Home /\ r.session \in {NoSession, Home} /\ (r.state = "Init" => r.w = 0)
      BY <2>2, <2>9, <1>0 DEF Fed
    <3>2. h.session = Home /\ (h.state = "Init" => h.w = 0)
      BY <3>1, <2>6 DEF Ingests
    <3>3. h.w \in Nat
      BY <2>6, ReachTypes DEF Ingests, Core
    <3>4. CASE r.state = "Init"
      BY <3>1, <3>2, <3>3, <3>4
    <3>5. CASE r.state # "Init"
      <4>1. r.session = Home
        BY <3>1, <3>5, <1>0, <1>2 DEF Gap
      <4> QED BY <4>1, <3>2, <3>5, <2>6 DEF Ingests
    <3> QED BY <3>2, <3>4, <3>5
  <2>10. Fed(h, f, fault)
    BY <2>6, <2>8, <2>9 DEF Fed, Ingests
  <2> QED BY <2>6, <2>9, <2>10 DEF Settled, Ingests
<1> QED BY <1>1, <1>2

\* The frames of the feeds.
LEMMA NextFrames ==
  ASSUME EngineFits, NEW f \in Feeds, NEW p \in next_frames(f)
  PROVE  /\ \/ p \in Carried /\ p.session = Home /\ data_left(f) # {}
            \/ p \in {ControlPacket(HEARTBEAT_COUNT), ControlPacket(EOS_COUNT)}
                  /\ (Rolling \/ data_left(f) = {})
         /\ release(f, p) \in Feeds
         /\ data_left(release(f, p)) \subseteq data_left(f)
<1>0. /\ EOS_COUNT \in Nat /\ MaxCount \in Nat /\ MaxCount < EOS_COUNT /\ LastMsg \in Nat
      /\ PacketSize \in Nat /\ PacketSize >= 1 /\ PacketSize <= MaxCount /\ MaxSeq \in Nat
      /\ LastMsg + 1 <= MaxSeq /\ "ok" \in ErrKinds /\ Home \in Sessions
  BY WireAssumption, ServerAssumption, EngineAssumption DEF EngineFits
<1>1. f.data \in [Firsts -> Int] /\ f.hb \in Int /\ f.eos \in Int
  BY DEF Feeds
<1>2. CASE p \in {FeedPacket(n) : n \in data_left(f)}
  <2>1. PICK n \in data_left(f) : p = FeedPacket(n)
    BY <1>2
  <2>2. n \in Firsts /\ n \in 1..LastMsg
    BY DEF data_left, Firsts
  <2> DEFINE len == Smaller(PacketSize, LastMsg + 1 - n)
  <2>3. len \in 1..MaxCount /\ len \in 0..MaxCount /\ n \in 0..MaxSeq /\ n + len - 1 <= LastMsg
    BY <2>2, <1>0 DEF Smaller
  <2> HIDE DEF len
  <2>4. /\ p.session = Home /\ p.seq = n /\ p.count = len /\ p.good = len /\ p.err = "ok"
        /\ p \in [session : Sessions, seq : 0..MaxSeq, count : 1..MaxCount,
                  good : 0..MaxCount, err : ErrKinds]
    BY <2>1, <2>3, <1>0 DEF FeedPacket, DataPacket, len
  <2>5. p \in DataPackets /\ span_last(p) <= LastMsg
    BY <2>3, <2>4 DEF DataPackets, span_last
  <2>6. p \in Carried
    BY <2>4, <2>5 DEF Carried
  <2>7. p.count # HEARTBEAT_COUNT /\ p.count # EOS_COUNT
    BY <2>3, <2>4, <1>0 DEF HEARTBEAT_COUNT
  <2>8. release(f, p) = [f EXCEPT !.data = [f.data EXCEPT ![n] = f.data[n] - 1]]
    BY <2>4, <2>7 DEF release, Feeds
  <2> DEFINE data2 == [f.data EXCEPT ![n] = f.data[n] - 1]
  <2>9. /\ data2 \in [Firsts -> Int]
        /\ \A m \in Firsts : data2[m] > 0 => f.data[m] > 0
    BY <2>2, <1>1
  <2> HIDE DEF data2
  <2>10. release(f, p) \in Feeds /\ release(f, p).data = data2
    BY <2>8, <2>9 DEF Feeds, data2
  <2>11. data_left(release(f, p)) \subseteq data_left(f)
    BY <2>9, <2>10 DEF data_left
  <2> QED BY <2>4, <2>6, <2>10, <2>11, <1>2
<1>3. CASE p \notin {FeedPacket(n) : n \in data_left(f)}
  <2>1. /\ p \in {ControlPacket(HEARTBEAT_COUNT), ControlPacket(EOS_COUNT)}
        /\ Rolling \/ data_left(f) = {}
    BY <1>3 DEF next_frames, heartbeats_due
  <2>2. release(f, p) = [f EXCEPT !.hb = f.hb - 1] \/ release(f, p) = [f EXCEPT !.eos = f.eos - 1]
    BY <2>1, ControlTypes DEF release
  <2>3. release(f, p) \in Feeds /\ release(f, p).data = f.data
    BY <2>2, <1>1 DEF Feeds
  <2>4. data_left(release(f, p)) \subseteq data_left(f)
    BY <2>3 DEF data_left
  <2> QED BY <2>1, <2>3, <2>4, <1>3
<1> QED BY <1>2, <1>3

-----------------------------------------------------------------------------
\* Requests stay sound while W moves on.
LEMMA AsksLater ==
  ASSUME NEW fault, NEW v \in Nat, NEW w \in Nat, fault # "wrong_session" => v <= w,
         NEW s \in Seq(Asks(fault, v))
  PROVE  s \in Seq(Asks(fault, w))
<1>1. Asks(fault, v) \subseteq Asks(fault, w)
  BY DEF Asks
<1> QED BY <1>1, SeqMonotonic

\* The start of the engine.
LEMMA EngineStart ==
  ASSUME EngineInit
  PROVE  EngineInv
<1>0. /\ Top \in Nat /\ Top >= 2 /\ EosTrain \in Nat
      /\ Copies \subseteq Int /\ Heard \subseteq Int
  BY ReachTypes, EngineAssumption
<1>1. q = NewSequencer
  BY DEF EngineInit
<1>2. /\ q.w = 0 /\ q.hb_seq = 0 /\ q.max_staged = 0 /\ q.slots = EmptySlots
      /\ q.pending_to = NONE /\ q.state = "Init" /\ q.session = NoSession
  BY <1>1 DEF NewSequencer
<1>3. Within(q)
  <2>1. Staging(q)
    BY <1>2 DEF Staging, Occupied, EmptySlots
  <2> QED BY <2>1, <1>0, <1>2 DEF Within, Reach
<1>4. PICK d \in [Firsts -> Copies], h \in Heard, t \in Transports :
         feed = [transport |-> t, data |-> d, hb |-> h, eos |-> EosTrain]
  BY DEF EngineInit
<1>5. PICK fault \in Faults : server = [fault |-> fault, seen |-> 0, served |-> 0]
  BY DEF EngineInit
<1>6. feed \in Feeds
  <2>1. h \in Int /\ EosTrain \in Int
    BY <1>0
  <2>2. \A n \in Firsts : d[n] \in Copies
    OBVIOUS
  <2>3. d \in [Firsts -> Int]
    BY <2>2, <1>0
  <2> QED BY <2>1, <2>3, <1>4 DEF Feeds
<1>7. server \in Servers
  BY <1>5 DEF Servers
<1>8. Settled(q, feed, server.fault)
  BY <1>1, <1>2, <1>3, NewCore, NewGap DEF Settled, Fed
<1>9. requests = <<>> /\ responses = <<>>
  BY DEF EngineInit
<1> QED BY <1>6, <1>7, <1>8, <1>9, EmptySeq DEF EngineInv

\* Every step of the loop and of the server.
LEMMA EngineStep ==
  ASSUME NoWrap, EngineFits, EngineInv, [EngineNext]_engine_vars
  PROVE  EngineInv'
<1> DEFINE fault == server.fault
<1>0. /\ feed \in Feeds /\ server \in Servers /\ fault \in Faults
      /\ Settled(q, feed, fault) /\ q.w \in Nat
      /\ Core(q) /\ Gap(q) /\ Order(q) /\ Within(q) /\ Fed(q, feed, fault)
      /\ requests \in Seq(Asks(fault, q.w)) /\ responses \in Seq(Answers(fault))
  <2>1. Settled(q, feed, fault) /\ server \in Servers
    BY DEF EngineInv
  <2>2. Core(q) /\ Gap(q) /\ Order(q) /\ Within(q) /\ Fed(q, feed, fault)
    BY <2>1 DEF Settled
  <2>3. q.w \in Nat
    BY <2>2, ReachTypes DEF Core
  <2>4. fault \in Faults
    BY <2>1 DEF Servers
  <2> QED BY <2>1, <2>2, <2>3, <2>4 DEF EngineInv
\* a step that leaves the datagrams alone
<1>1. ASSUME Settled(q', feed', fault), feed' \in Feeds, server' = server,
             fault # "wrong_session" => q.w <= q'.w,
             requests' = requests, responses' = responses
      PROVE  EngineInv'
  <2>1. q'.w \in Nat
    BY <1>1, ReachTypes DEF Settled, Core
  <2>2. requests \in Seq(Asks(fault, q'.w))
    BY <2>1, <1>0, <1>1, AsksLater
  <2> QED BY <2>2, <1>0, <1>1 DEF EngineInv
<1>2. CASE UNCHANGED engine_vars
  BY <1>0, <1>2 DEF EngineInv, engine_vars
<1>3. ASSUME NEW n \in polled, NEW moves \in BOOLEAN, Poll(n, moves) PROVE EngineInv'
  <2>1. feed' = feed /\ server' = server /\ requests' = requests /\ responses' = responses
    BY <1>3 DEF Poll, net
  <2>2. CASE q' = q
    BY <2>1, <2>2, <1>0, <1>1
  <2>3. CASE q' = tick(q)
    <3>1. Core(q') /\ Gap(q') /\ Order(q') /\ q'.w = q.w
      BY <2>3, <1>0, TickCore, QuietGap
    <3>2. /\ Within(q') /\ q'.hb_seq = q.hb_seq /\ q'.state = q.state
          /\ q'.session = q.session /\ q'.pending_to = q.pending_to
      BY <2>3, <1>0, TickWithin
    <3>3. Settled(q', feed', fault)
      BY <3>1, <3>2, <2>1, <1>0 DEF Settled, Fed
    <3> QED BY <3>1, <3>3, <2>1, <1>0, <1>1
  <2> QED BY <2>2, <2>3, <1>3 DEF Poll
<1>4. CASE RecvPacket
  <2>1. /\ responses # <<>> /\ q' = ingest(q, Head(responses))
        /\ responses' = Tail(responses) /\ feed' = feed /\ server' = server
        /\ requests' = requests
    BY <1>4 DEF RecvPacket
  <2>2. Head(responses) \in Answers(fault) /\ Tail(responses) \in Seq(Answers(fault))
    BY <2>1, <1>0, HeadTailProperties
  <2>3. Settled(q', feed, fault) /\ (fault # "wrong_session" => q.w <= q'.w)
    BY <2>1, <2>2, <1>0, IngestSettled
  <2>4. q'.w \in Nat
    BY <2>3, ReachTypes DEF Settled, Core
  <2>5. requests \in Seq(Asks(fault, q'.w))
    BY <2>3, <2>4, <1>0, AsksLater
  <2> QED BY <2>1, <2>2, <2>3, <2>5, <1>0 DEF EngineInv
<1>5. CASE RecvEmpty \/ IntentNone
  <2>1. /\ q' = q /\ feed' = feed /\ server' = server /\ requests' = requests
        /\ responses' = responses
    BY <1>5 DEF RecvEmpty, IntentNone, net
  <2> QED BY <2>1, <1>0, <1>1
<1>6. CASE IngestFrame
  <2>1. PICK p \in next_frames(feed) : q' = ingest(q, p) /\ feed' = release(feed, p)
    BY <1>6 DEF IngestFrame
  <2>2. server' = server /\ requests' = requests /\ responses' = responses
    BY <1>6 DEF IngestFrame, net
  <2>3. /\ \/ p \in Carried /\ p.session = Home /\ data_left(feed) # {}
           \/ p \in {ControlPacket(HEARTBEAT_COUNT), ControlPacket(EOS_COUNT)}
                 /\ (Rolling \/ data_left(feed) = {})
        /\ feed' \in Feeds /\ data_left(feed') \subseteq data_left(feed)
    BY <2>1, <1>0, NextFrames
  <2>4. Settled(q', feed, fault) /\ (fault # "wrong_session" => q.w <= q'.w)
    BY <2>1, <2>3, <1>0, IngestSettled
  <2>5. Settled(q', feed', fault)
    BY <2>3, <2>4 DEF Settled, Fed
  <2> QED BY <2>2, <2>3, <2>4, <2>5, <1>1
<1>7. CASE IntentAsk
  <2> DEFINE r == check_recovery_intent(q)
             req == request(q.w, r.pending_to)
  <2>1. /\ intent_due(q) /\ q' = r /\ requests' = Append(requests, req)
        /\ feed' = feed /\ server' = server /\ responses' = responses
    BY <1>7 DEF IntentAsk
  <2>2. Core(r) /\ Gap(r) /\ Order(r)
    BY <2>1, <1>0, IntentCore, QuietGap
  <2>3. /\ Within(r) /\ r.w = q.w /\ r.session = q.session /\ r.state = q.state
        /\ r.hb_seq = q.hb_seq
        /\ q.state = "Init" /\ q.pending_to = NONE => q.hb_seq # 0
        /\ req \in [from : Nat, count : Nat] /\ req.from = q.w
        /\ req.count > 0 /\ q.w + req.count <= Top
    BY <2>1, <1>0, IntentWithin
  <2> HIDE DEF r, req
  <2>4. Settled(r, feed, fault)
    BY <2>2, <2>3, <1>0 DEF Settled, Fed
  <2>5. req \in Asks(fault, r.w)
    BY <2>3, <1>0 DEF Asks
  <2>6. Append(requests, req) \in Seq(Asks(fault, r.w))
    BY <2>3, <2>5, <1>0, AppendProperties
  <2> QED BY <2>1, <2>4, <2>6, <1>0 DEF EngineInv
<1>8. CASE IntentTrip
  <2> DEFINE r == check_recovery_intent(q)
             s == seal(r)
  <2>1. /\ intent_due(q) /\ q' = s /\ feed' = feed /\ server' = server
        /\ requests' = requests /\ responses' = responses
    BY <1>8 DEF IntentTrip, net
  <2>2. Core(r) /\ Gap(r) /\ Order(r)
    BY <2>1, <1>0, IntentCore, QuietGap
  <2>3. Within(r) /\ r.w = q.w /\ r.session = q.session /\ r.hb_seq = q.hb_seq
    BY <2>1, <1>0, IntentWithin
  <2> HIDE DEF r
  <2>4. Core(s) /\ Gap(s) /\ Order(s)
    BY <2>2, EosCore, EosGap
  <2>5. Within(s) /\ s.w = r.w /\ s.hb_seq = r.hb_seq /\ s.state # "Init"
    BY <2>2, <2>3, EosWithin
  <2>6. s.session = r.session
    BY <2>2 DEF seal, Core, Bounded, SequencerStates
  <2> HIDE DEF s
  <2>7. Settled(s, feed, fault)
    BY <2>3, <2>4, <2>5, <2>6, <1>0 DEF Settled, Fed
  <2> QED BY <2>1, <2>3, <2>5, <2>7, <1>0, <1>1
<1>9. CASE Serve
  <2> DEFINE req == Head(requests)
             seen == Smaller(server.seen + 1, FaultN + 1)
             served == Smaller(server.served + packets_counted(fault, req, seen), FaultN)
             sent == answer(fault, req, seen, server.served)
  <2>1. /\ requests # <<>> /\ requests' = Tail(requests) /\ q' = q /\ feed' = feed
        /\ responses' = responses \o sent
        /\ server' = [server EXCEPT !.seen = seen, !.served = served]
    BY <1>9 DEF Serve
  <2>2. req \in Asks(fault, q.w) /\ Tail(requests) \in Seq(Asks(fault, q.w))
    BY <2>1, <1>0, HeadTailProperties
  <2>3. server.seen \in Int /\ server.served \in Int /\ FaultN \in Nat
    BY <1>0, ServerAssumption DEF Servers
  <2>4. seen \in Int
    BY <2>3 DEF Smaller
  <2>5. sent \in Seq(Answers(fault))
    BY <2>2, <2>3, <1>0, ServedAnswers
  <2> HIDE DEF req, seen, sent
  <2>6. packets_counted(fault, req, seen) \in Int
    <3>1. /\ req.from \in Nat /\ req.count \in Nat /\ req.from + req.count <= Top
          /\ Top \in Nat /\ TruncateK \in Nat /\ Home \in Sessions
      BY <2>2, ServerAssumption, ReachTypes DEF Asks
    <3>2. /\ count_to_serve(fault, req.count) \in Nat
          /\ req.from + count_to_serve(fault, req.count) <= Top
      BY <3>1 DEF count_to_serve, Smaller
    <3>3. Len(pack_response_packets(Home, req.from, count_to_serve(fault, req.count))) \in Nat
      BY <3>1, <3>2, PackedAnswers, LenProperties
    <3> QED BY <3>3 DEF packets_counted
  <2>7. served \in Int
    BY <2>3, <2>6 DEF Smaller
  <2> HIDE DEF served
  <2>8. server' \in Servers /\ server'.fault = fault
    BY <2>1, <2>4, <2>7, <1>0 DEF Servers
  <2>9. responses' \in Seq(Answers(fault))
    BY <2>1, <2>5, <1>0, ConcatProperties
  <2> QED BY <2>1, <2>2, <2>8, <2>9, <1>0 DEF EngineInv
<1>10. CASE Finished
  BY <1>2, <1>10 DEF Finished
<1> QED BY <1>2, <1>3, <1>4, <1>5, <1>6, <1>7, <1>8, <1>9, <1>10 DEF EngineNext

\* The inductive invariant holds of the engine, the feeds and the server together.
THEOREM EngineInvariant ==
  ASSUME NoWrap, EngineFits
  PROVE  EngineSpec => []EngineInv
<1>1. EngineInit => EngineInv
  BY EngineStart
<1>2. EngineInv /\ [EngineNext]_engine_vars => EngineInv'
  BY EngineStep
<1> QED BY <1>1, <1>2, PTL DEF EngineSpec

\* Every request on the wire asks for at least one message, for none beyond what the
\* venue announced, and from no further on than W.
THEOREM RequestsSound ==
  ASSUME NoWrap, EngineFits
  PROVE  EngineSpec => []RequestSound
<1>1. EngineInv => RequestSound
  <2> SUFFICES ASSUME EngineInv, NEW i \in DOMAIN requests
               PROVE  /\ requests[i].count > 0
                      /\ requests[i].from + requests[i].count <= LastMsg + 1
                      /\ server.fault # "wrong_session" => requests[i].from <= q.w
    BY DEF RequestSound
  <2>1. requests \in Seq(Asks(server.fault, q.w))
    BY DEF EngineInv
  <2>2. requests[i] \in Asks(server.fault, q.w)
    BY <2>1, LenProperties, ElementOfSeq
  <2> QED BY <2>2 DEF Asks, Top
<1> QED BY <1>1, EngineInvariant, PTL

\* A session that ends after some of it was emitted ends with its last message,
\* whatever was lost, duplicated, reordered, truncated or misdirected on the way.
THEOREM EndComplete ==
  ASSUME NoWrap, EngineFits
  PROVE  EngineSpec => []EndedComplete
<1>1. EngineInv => EndedComplete
  <2> SUFFICES ASSUME EngineInv, q.state = "Ended", q.sink.last_seq # 0
               PROVE  q.sink.last_seq = LastMsg
    BY DEF EndedComplete
  <2>1. Core(q) /\ Order(q) /\ Within(q)
    BY DEF EngineInv, Settled
  <2>2. q.sink.last_seq \in Nat /\ LastMsg \in Nat
    BY <2>1, WireAssumption, ServerAssumption
    DEF Core, Bounded, SequencerStates, SinkStates, U64
  <2>3. q.w = Top /\ q.sink.last_seq + 1 = q.w
    BY <2>1 DEF Within, Order
  <2> QED BY <2>2, <2>3 DEF Top
<1> QED BY <1>1, EngineInvariant, PTL

=============================================================================
