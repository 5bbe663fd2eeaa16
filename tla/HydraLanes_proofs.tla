-------------------------- MODULE HydraLanes_proofs --------------------------
(***************************************************************************)
(* RingsHold and PassParity of HydraLanes: where every span in flight is,  *)
(* and what the fold of a pass has taken so far.                           *)
(***************************************************************************)
EXTENDS HydraLanes, Counting_proofs

(* Types *)

Words == [kind : {"span", "anchor"}, id : Int]

Results == [span_id : Int, value : Int]

DescRing == [0..(DESC_CAP - 1) -> Words]

ResRing == [0..(RES_CAP - 1) -> Results]

LaneStates == [desc : DescRing, desc_head : Nat, desc_tail : Nat,
               res : ResRing, res_head : Nat, res_tail : Nat]

WorkerStates == [pc : {"poll", "gate", "result", "free", "gone"}, tail : Nat, rhead : Nat,
                 n : Nat, nres : Nat, cur_span : Int]

PassRecords == [start : Nat, end_span : Nat \cup {OPEN}, hash : Seq(Int), done : BOOLEAN]

PassRings == [0..(PASS_RING - 1) -> PassRecords]

Chunks == [first_span : Nat \cup {None}, vals : Seq(Int), sealed : BOOLEAN]

JournalEntries == [k : Nat, b : Seq(Int), end : Nat]

Folds == [hash : Seq(Int), journal : Seq(JournalEntries)]

PassSlots == 0..(PASS_RING - 1)

InlineSlots == (0..(ASSIST_SLOTS - 1)) \cup {None}

AssistRings == [0..(ASSIST_SLOTS - 1) -> Chunks]

ChunkRems == 1..CHUNK

CorePcs == {"idle", "claim", "fold"}

Sinks == [next_span : Nat, fold : Folds, fold_pos : Nat, fold_rem : Int, submit_rem : ChunkRems,
          submit_lane : Lanes, pending_lane : Lanes, pending_len : Nat, pending_head : Nat,
          cur_inline : InlineSlots, inline : AssistRings, inline_seq : Nat, inline_fold_seq : Nat,
          passes : PassRings, pass_head : PassSlots, pass_tail : PassSlots,
          harvest_pos : PassSlots, pass_open : BOOLEAN,
          pc : CorePcs, ret : {"idle", "claim", "finish"},
          spans : Nat, begun : Nat, resets : Nat]

Types ==
    /\ cfg \in Configs /\ core \in Sinks
    /\ lane \in [Lanes -> LaneStates] /\ worker \in [Lanes -> WorkerStates] /\ stop \in BOOLEAN
-----------------------------------------------------------------------------
(* Passes.  h, t and p number the passes: those from h are not harvested, those *)
(* from t are not complete, p is the next to begin.                             *)

Rec(s, i) == s.passes[i % PASS_RING]

PassRing(s, h, t, p) ==
    /\ h \in Nat /\ t \in Nat /\ p \in Nat
    /\ h <= t /\ t <= p /\ p < h + PASS_RING
    /\ s.harvest_pos = h % PASS_RING /\ s.pass_tail = t % PASS_RING
    /\ s.pass_head = p % PASS_RING

\* The passes that are not complete follow each other; the last may be open.
PassChain(s, t, p) ==
    /\ \A i \in t..(p - 1) :
          /\ ~Rec(s, i).done /\ Rec(s, i).start <= s.next_span
          /\ Rec(s, i).end_span = OPEN <=> (s.pass_open /\ i = p - 1)
          /\ Rec(s, i).end_span # OPEN =>
                Rec(s, i).start <= Rec(s, i).end_span /\ Rec(s, i).end_span <= s.next_span
    /\ \A i, j \in t..(p - 1) : i < j => Rec(s, i).end_span <= Rec(s, j).start
    /\ \A i \in t..(p - 2) : Rec(s, i).end_span = Rec(s, i + 1).start
    /\ s.pass_open => t < p
    /\ (t < p /\ ~s.pass_open) => Rec(s, p - 1).end_span = s.next_span

\* The fold is in the oldest of them.
FoldInPass(s, t, p) ==
    /\ s.fold_pos <= s.next_span
    /\ t = p => s.fold_pos = s.next_span
    /\ t < p => /\ Rec(s, t).start <= s.fold_pos
                /\ Rec(s, t).end_span # OPEN => s.fold_pos <= Rec(s, t).end_span

\* It is not at its end: complete_boundaries has seen to that.
NothingDue(s, t, p) ==
    t < p /\ Rec(s, t).end_span # OPEN => s.fold_pos < Rec(s, t).end_span

\* The spans from a to fp are folded, those from x on still in the journal.
FoldAt(tree, f, a, fp) ==
    \E x \in a..fp :
        /\ f.hash = Run(a, x) /\ Len(f.journal) = fp - x
        /\ \A j \in 1..(fp - x) : f.journal[j] = Entry(<<x + j - 1>>, x + j)
        /\ ~tree => x = fp

FoldStart(s, t, p) == IF t < p THEN Rec(s, t).start ELSE s.fold_pos

PassesDone(s) ==
    \A i \in 0..(PASS_RING - 1) :
        s.passes[i].done => /\ s.passes[i].end_span # OPEN
                            /\ s.passes[i].hash = Run(s.passes[i].start, s.passes[i].end_span)

\* The state of the passes between two turns of complete_boundaries.
PassState(tree, s, h, t, p) ==
    /\ PassRing(s, h, t, p)
    /\ \A i \in h..(t - 1) : Rec(s, i).done
    /\ PassChain(s, t, p) /\ FoldInPass(s, t, p)
    /\ FoldAt(tree, s.fold, FoldStart(s, t, p), s.fold_pos)
    /\ PassesDone(s)
-----------------------------------------------------------------------------
(* The assist ring. *)

Chunk(s, k) == s.inline[k % ASSIST_SLOTS]

ChunkEnd(s, k) == Chunk(s, k).first_span + Len(Chunk(s, k).vals)

Held(s) == s.inline_fold_seq..(s.inline_seq - 1)

Inlined(s, v) == \E k \in Held(s) : Chunk(s, k).first_span <= v /\ v < ChunkEnd(s, k)

\* The spans that are submitted and not folded, those of the assist ring apart.
Flying(s) == {v \in s.fold_pos..(s.next_span - 1) : ~Inlined(s, v)}

\* Every chunk in it is a run of its own spans, in order, all ahead of the fold.
AssistRing(s) ==
    /\ s.inline_fold_seq <= s.inline_seq
    /\ s.inline_seq - s.inline_fold_seq < ASSIST_SLOTS
    /\ \A k \in Held(s) :
          /\ Chunk(s, k).first_span \in Nat /\ s.fold_pos <= Chunk(s, k).first_span
          /\ Len(Chunk(s, k).vals) > 0 /\ ChunkEnd(s, k) <= s.next_span
          /\ Chunk(s, k).vals = Run(Chunk(s, k).first_span, ChunkEnd(s, k))
          /\ ~Chunk(s, k).sealed <=> (s.cur_inline # None /\ k = s.inline_seq - 1)
    /\ \A k, m \in Held(s) : k < m => ChunkEnd(s, k) <= Chunk(s, m).first_span
    /\ s.cur_inline # None =>
          /\ s.inline_seq - 1 \in Held(s) /\ s.pending_len > 0
          /\ s.cur_inline = (s.inline_seq - 1) % ASSIST_SLOTS
          /\ ChunkEnd(s, s.inline_seq - 1) = s.next_span

PassEnd(s, t, p, v) == \E i \in t..(p - 1) : Rec(s, i).end_span # OPEN /\ Rec(s, i).end_span = v

\* No pass ends inside a chunk, nor behind one that is open; a chunk begins where the
\* grid's chunk or a pass begins.
AssistPasses(s, t, p) ==
    \A k \in Held(s) :
        /\ \A i \in t..(p - 1) : Rec(s, i).end_span # OPEN =>
              \/ Rec(s, i).end_span <= Chunk(s, k).first_span
              \/ Chunk(s, k).sealed /\ ChunkEnd(s, k) <= Rec(s, i).end_span
        /\ Chunk(s, k).first_span > s.fold_pos =>
              Chunk(s, k).first_span % CHUNK = 0 \/ PassEnd(s, t, p, Chunk(s, k).first_span)

\* So does what opens next.
NextOpens(s, t, p) ==
    s.pending_len = 0 /\ s.ret # "finish" /\ s.next_span > s.fold_pos =>
        s.next_span % CHUNK = 0 \/ PassEnd(s, t, p, s.next_span)

\* The submission follows the grid, and the calls of the core.
GridAt(s) ==
    /\ s.submit_lane = lane_of(s.next_span)
    /\ s.submit_rem = CHUNK - (s.next_span % CHUNK)
    /\ s.pc \in {"idle", "claim"} => s.ret = "idle"
    /\ s.pc = "claim" \/ s.ret = "claim" => s.pass_open

CoreAt(tree, s, h, t, p) ==
    /\ PassState(tree, s, h, t, p) /\ NothingDue(s, t, p)
    /\ AssistPasses(s, t, p) /\ NextOpens(s, t, p)

CoreOk(tree, s) ==
    /\ s \in Sinks /\ GridAt(s) /\ AssistRing(s)
    /\ \E h, t, p \in Nat : CoreAt(tree, s, h, t, p)
-----------------------------------------------------------------------------
(* The rings of a lane. *)

Word(l, d) == lane[l].desc[d % DESC_CAP]

Result(l, q) == lane[l].res[q % RES_CAP]

\* a chunk is open in the lane's ring
Pending(l) == core.pending_len > 0 /\ core.cur_inline = None /\ core.pending_lane = l

\* The words not evaluated are from Seen to Top, the results from res_tail to Made.
Seen(l) == IF worker[l].pc \in {"result", "free"} THEN worker[l].tail + worker[l].n ELSE worker[l].tail

Top(l) == IF Pending(l) THEN lane[l].desc_head + core.pending_len ELSE lane[l].desc_head

Made(l) == worker[l].rhead + unpublished(l)

Cursors(l) ==
    /\ lane[l].desc_tail = worker[l].tail /\ lane[l].res_head = worker[l].rhead
    /\ lane[l].desc_tail <= lane[l].desc_head /\ Top(l) <= lane[l].desc_tail + DESC_CAP
    /\ worker[l].pc \in {"gate", "result", "free"} =>
          worker[l].n > 0 /\ worker[l].n <= BATCH /\ worker[l].tail + worker[l].n <= lane[l].desc_head
    /\ worker[l].pc = "result" => worker[l].nres <= worker[l].n
    /\ lane[l].res_tail <= worker[l].rhead /\ Made(l) <= lane[l].res_tail + RES_CAP

\* What a lane holds: the spans of its own that are in flight.
Mine(l, v) == v \in Flying(core) /\ lane_of(v) = l

ResultsAt(l) ==
    /\ \A q \in lane[l].res_tail..(Made(l) - 1) :
          Result(l, q).span_id = Result(l, q).value /\ Mine(l, Result(l, q).value)
    /\ \A q, r \in lane[l].res_tail..(Made(l) - 1) : q < r => Result(l, q).value < Result(l, r).value

WordsAt(l) ==
    /\ \A d \in Seen(l)..(Top(l) - 1) : Word(l, d).kind = "span" => Mine(l, Word(l, d).id)
    /\ \A d, e \in Seen(l)..(Top(l) - 1) :
          d < e /\ Word(l, d).kind = "span" /\ Word(l, e).kind = "span" => Word(l, d).id < Word(l, e).id
    /\ \A q \in lane[l].res_tail..(Made(l) - 1), d \in Seen(l)..(Top(l) - 1) :
          Word(l, d).kind = "span" => Result(l, q).value < Word(l, d).id

\* Every span in flight is somewhere.
Complete(l) ==
    \A v : Mine(l, v) =>
        \/ \E q \in lane[l].res_tail..(Made(l) - 1) : Result(l, q).value = v
        \/ \E d \in Seen(l)..(Top(l) - 1) : Word(l, d) = Span(v)

\* The number a worker gives a span is the span's.
Numbered(l) ==
    IF cfg.desc8
    THEN \A d \in Seen(l)..(Top(l) - 1) : Word(l, d).kind = "span" =>
            IF d = Seen(l) THEN worker[l].cur_span = Word(l, d).id
            ELSE Word(l, d - 1) \in {Anchor(Word(l, d).id), Span(Word(l, d).id - 1)}
    ELSE \A d \in Seen(l)..(Top(l) - 1) : Word(l, d).kind = "span"

\* The open chunk.
OpenAt(l) ==
    Pending(l) =>
        /\ core.pending_head = lane[l].desc_head /\ l = core.submit_lane
        /\ Top(l) + core.submit_rem <= lane[l].desc_tail + DESC_CAP
        /\ Word(l, Top(l) - 1) = Span(core.next_span - 1)

LaneAt(l) ==
    /\ Cursors(l) /\ ResultsAt(l) /\ WordsAt(l) /\ Complete(l) /\ Numbered(l) /\ OpenAt(l)

HydraInv ==
    /\ Types /\ CoreOk(cfg.tree, core)
    /\ \A l \in Lanes : LaneAt(l)

-----------------------------------------------------------------------------
(* Runs of numbers and the journal. *)

\* A run as a sequence.
LEMMA RunFacts ==
  ASSUME NEW a \in Int, NEW b \in Int, a <= b
  PROVE  /\ Run(a, b) \in Seq(Int) /\ Len(Run(a, b)) = b - a
         /\ \A i \in 1..(b - a) : Run(a, b)[i] = a + i - 1
<1>1. b - a \in Nat /\ Run(a, b) \in [1..(b - a) -> Int]
  BY DEF Run
<1> QED BY <1>1 DEF Run

\* Runs that meet make a run.
LEMMA RunJoin ==
  ASSUME NEW a \in Int, NEW b \in Int, NEW c \in Int, a <= b, b <= c
  PROVE  Run(a, b) \o Run(b, c) = Run(a, c)
<1> DEFINE s == Run(a, b)
           t == Run(b, c)
           u == Run(a, c)
<1>1. /\ s \in Seq(Int) /\ Len(s) = b - a /\ \A i \in 1..(b - a) : s[i] = a + i - 1
      /\ t \in Seq(Int) /\ Len(t) = c - b /\ \A i \in 1..(c - b) : t[i] = b + i - 1
      /\ u \in Seq(Int) /\ Len(u) = c - a /\ \A i \in 1..(c - a) : u[i] = a + i - 1
  <2>1. a <= c
    OBVIOUS
  <2>2. s \in Seq(Int) /\ Len(s) = b - a /\ \A i \in 1..(b - a) : s[i] = a + i - 1
    BY RunFacts
  <2>3. t \in Seq(Int) /\ Len(t) = c - b /\ \A i \in 1..(c - b) : t[i] = b + i - 1
    BY RunFacts
  <2>4. u \in Seq(Int) /\ Len(u) = c - a /\ \A i \in 1..(c - a) : u[i] = a + i - 1
    BY <2>1, RunFacts
  <2> QED BY <2>2, <2>3, <2>4
<1> HIDE DEF s, t, u
<1>2. s \o t \in Seq(Int) /\ Len(s \o t) = Len(u)
  BY <1>1
<1>3. ASSUME NEW i \in 1..Len(s \o t) PROVE (s \o t)[i] = u[i]
  <2>1. i \in 1..(c - a) /\ u[i] = a + i - 1
    BY <1>1, <1>2
  <2>2. CASE i <= b - a
    <3>1. (s \o t)[i] = s[i] /\ i \in 1..(b - a)
      BY <1>1, <2>1, <2>2
    <3> QED BY <1>1, <2>1, <3>1
  <2>3. CASE i > b - a
    <3>1. (s \o t)[i] = t[i - (b - a)] /\ i - (b - a) \in 1..(c - b)
      <4>1. i \in 1..(Len(s) + Len(t)) /\ ~(i <= Len(s))
        BY <1>1, <2>1, <2>3
      <4>2. (s \o t)[i] = t[i - Len(s)]
        BY <1>1, <4>1, ConcatProperties
      <4> QED BY <1>1, <2>1, <2>3, <4>2
    <3>2. t[i - (b - a)] = b + (i - (b - a)) - 1
      BY <1>1, <3>1
    <3> QED BY <2>1, <3>1, <3>2
  <2> QED BY <2>1, <2>2, <2>3
<1>4. s \o t = u
  BY <1>1, <1>2, <1>3, SeqEqual
<1> QED BY <1>4 DEF s, t, u

\* The empty run.
LEMMA RunEmpty ==
  ASSUME NEW a \in Int
  PROVE  Run(a, a) = <<>>
<1>1. Run(a, a) \in Seq(Int) /\ Len(Run(a, a)) = 0
  BY RunFacts
<1> QED BY <1>1

\* Flattening numbers, each in a sequence of its own.
LEMMA FlattenOnes ==
  ASSUME NEW n \in Nat, NEW y \in [1..n -> Int]
  PROVE  FlattenSeq([i \in 1..n |-> <<y[i]>>]) = y
<1> DEFINE s == [i \in 1..n |-> <<y[i]>>]
           P(f) == f = [i \in 1..Len(s) |-> IF i = 1 THEN s[i] ELSE f[i - 1] \o s[i]]
           F == CHOOSE f : P(f)
           g == [i \in 1..n |-> [j \in 1..i |-> y[j]]]
<1>1. s \in Seq(Seq(Int)) /\ Len(s) = n
  OBVIOUS
<1>2. CASE n = 0
  <2>1. s = <<>>
    BY <1>1, <1>2
  <2>2. FlattenSeq(s) = s
    BY <2>1 DEF FlattenSeq
  <2>3. y = <<>>
    BY <1>2
  <2> QED BY <2>1, <2>2, <2>3
<1>3. CASE n # 0
  <2>1. FlattenSeq(s) = F[n]
    BY <1>1, <1>3 DEF FlattenSeq
  <2>2. ASSUME NEW i \in 1..n PROVE g[i] \in Seq(Int) /\ Len(g[i]) = i
    <3>1. g[i] = [j \in 1..i |-> y[j]] /\ i \in Nat
      OBVIOUS
    <3>2. g[i] \in [1..i -> Int]
      BY <3>1
    <3> HIDE DEF g
    <3> QED BY <3>1, <3>2
  <2>3. ASSUME NEW i \in 1..n PROVE g[i] = IF i = 1 THEN s[i] ELSE g[i - 1] \o s[i]
    <3>1. s[i] \in Seq(Int) /\ Len(s[i]) = 1 /\ s[i][1] = y[i]
      OBVIOUS
    <3>2. \A j \in 1..i : g[i][j] = y[j]
      OBVIOUS
    <3>3. CASE i = 1
      <4>1. g[i] \in Seq(Int) /\ Len(g[i]) = 1 /\ g[i][1] = y[1]
        BY <2>2, <3>2, <3>3
      <4> HIDE DEF g, s
      <4>2. \A j \in 1..1 : g[i][j] = s[i][j]
        BY <3>1, <3>3, <4>1
      <4>3. g[i] = s[i]
        BY <3>1, <4>1, <4>2, SeqEqual
      <4> QED BY <3>3, <4>3
    <3>4. CASE i # 1
      <4>1. i - 1 \in 1..n /\ i \in Nat
        BY <3>4
      <4>2. g[i - 1] \in Seq(Int) /\ Len(g[i - 1]) = i - 1
        BY <2>2, <4>1
      <4>3. \A j \in 1..(i - 1) : g[i - 1][j] = y[j]
        BY <4>1
      <4> HIDE DEF g, s
      <4> DEFINE c == g[i - 1] \o s[i]
      <4>4. /\ c \in Seq(Int) /\ Len(c) = i
            /\ \A j \in 1..(i - 1) : c[j] = y[j]
        <5>1. /\ c \in Seq(Int) /\ Len(c) = Len(g[i - 1]) + Len(s[i])
              /\ \A j \in 1..(Len(g[i - 1]) + Len(s[i])) :
                    c[j] = IF j <= Len(g[i - 1]) THEN g[i - 1][j] ELSE s[i][j - Len(g[i - 1])]
          BY <3>1, <4>2, ConcatProperties
        <5>2. /\ Len(g[i - 1]) = i - 1 /\ Len(s[i]) = 1 /\ (i - 1) + 1 = i
              /\ \A j \in 1..(i - 1) : j \in 1..((i - 1) + 1) /\ j <= i - 1
          BY <3>1, <4>1, <4>2
        <5> HIDE DEF c
        <5> QED BY <4>3, <5>1, <5>2
      <4>5. c[i] = y[i]
        <5>1. i \in 1..(Len(g[i - 1]) + Len(s[i])) /\ ~(i <= Len(g[i - 1])) /\ i - Len(g[i - 1]) = 1
          BY <3>1, <4>1, <4>2
        <5>2. c[i] = s[i][i - Len(g[i - 1])]
          BY <3>1, <4>2, <5>1, ConcatProperties
        <5> QED BY <3>1, <5>1, <5>2
      <4> HIDE DEF c
      <4>6. g[i] \in Seq(Int) /\ Len(g[i]) = i
        BY <2>2
      <4>7. \A j \in 1..i : g[i][j] = c[j]
        <5>1. \A j \in 1..i : j \in 1..(i - 1) \/ j = i
          BY <4>1
        <5> QED BY <3>2, <4>4, <4>5, <5>1
      <4>8. g[i] = c
        BY <4>4, <4>6, <4>7, SeqEqual
      <4> QED BY <3>4, <4>8 DEF c
    <3> QED BY <3>3, <3>4
  <2>4. P(g)
    BY <1>1, <2>3
  <2>5. P(F)
    BY <2>4
  <2> HIDE DEF F, g, s
  <2> DEFINE S == {i \in 0..n : i = 0 \/ F[i] = g[i]}
  <2>6. 0..n \subseteq S
    <3>1. 0 \in S
      OBVIOUS
    <3>2. ASSUME NEW i \in 1..n, i - 1 \in S PROVE i \in S
      <4>1. F[i] = IF i = 1 THEN s[i] ELSE F[i - 1] \o s[i]
        BY <1>1, <2>5
      <4>2. g[i] = IF i = 1 THEN s[i] ELSE g[i - 1] \o s[i]
        BY <2>3
      <4>3. i # 1 => F[i - 1] = g[i - 1]
        BY <3>2
      <4> QED BY <4>1, <4>2, <4>3
    <3> HIDE DEF S
    <3> QED BY <3>1, <3>2, Climb
  <2>7. F[n] = g[n]
    BY <1>3, <2>6
  <2>8. g[n] = y
    BY <1>3 DEF g
  <2> QED BY <2>1, <2>7, <2>8 DEF s
<1> QED BY <1>2, <1>3

\* The numbers of a run.
LEMMA FlattenRun ==
  ASSUME NEW a \in Int, NEW n \in Nat
  PROVE  FlattenSeq([i \in 1..n |-> <<a + i - 1>>]) = Run(a, a + n)
<1> DEFINE y == Run(a, a + n)
<1>1. y = [i \in 1..n |-> a + i - 1]
  BY DEF Run
<1>2. [i \in 1..n |-> <<a + i - 1>>] = [i \in 1..n |-> <<y[i]>>]
  BY <1>1
<1>3. y \in [1..n -> Int]
  BY <1>1
<1> HIDE DEF y
<1>4. FlattenSeq([i \in 1..n |-> <<y[i]>>]) = y
  BY <1>3, FlattenOnes
<1> QED BY <1>2, <1>4 DEF y

\* One number as a run.
LEMMA RunOne ==
  ASSUME NEW x \in Int
  PROVE  <<x>> = Run(x, x + 1)
<1> DEFINE r == Run(x, x + 1)
<1>1. x + 1 \in Int /\ x <= x + 1 /\ (x + 1) - x = 1
  OBVIOUS
<1>2. r \in Seq(Int) /\ Len(r) = (x + 1) - x /\ \A i \in 1..((x + 1) - x) : r[i] = x + i - 1
  BY <1>1, RunFacts
<1> HIDE DEF r
<1>3. r \in Seq(Int) /\ Len(r) = 1 /\ r[1] = x
  BY <1>1, <1>2
<1>4. <<x>> \in Seq(Int) /\ Len(<<x>>) = 1 /\ <<x>>[1] = x
  OBVIOUS
<1>5. \A i \in 1..Len(<<x>>) : <<x>>[i] = r[i]
  BY <1>3, <1>4
<1>6. <<x>> = r
  BY <1>3, <1>4, <1>5, SeqEqual
<1> QED BY <1>6 DEF r

\* A journal applied as a whole: the hash has every span up to the fold.
LEMMA ApplyAll ==
  ASSUME NEW tree, NEW f \in Folds, NEW a \in Nat, NEW fp \in Nat, FoldAt(tree, f, a, fp)
  PROVE  apply_prefix(f, Len(f.journal)) = [hash |-> Run(a, fp), journal |-> <<>>]
<1> DEFINE s == f.journal
           L == Len(s)
<1>1. PICK x \in a..fp : /\ f.hash = Run(a, x) /\ L = fp - x
                         /\ \A j \in 1..(fp - x) : s[j] = Entry(<<x + j - 1>>, x + j)
  BY DEF FoldAt
<1>2. s \in Seq(JournalEntries) /\ L \in Nat /\ L = Len(s)
  BY DEF Folds
<1> HIDE DEF s, L
<1>3. x \in Int /\ a <= x /\ x <= fp /\ x + L = fp
  BY <1>1, <1>2
<1>4. SubSeq(s, 1, L) = s
  BY <1>2, SubSeqFull
<1>5. SubSeq(s, L + 1, L) = <<>>
  BY <1>2, SubSeqEmpty
<1>6. DOMAIN s = 1..L
  BY <1>2
<1>7. [i \in DOMAIN s |-> s[i].b] = [i \in 1..L |-> <<x + i - 1>>]
  BY <1>1, <1>6 DEF Entry
<1>8. tree_fold_segments(s) = Run(x, x + L)
  <2>1. FlattenSeq([i \in 1..L |-> <<x + i - 1>>]) = Run(x, x + L)
    BY <1>2, <1>3, FlattenRun
  <2> QED BY <1>7, <2>1 DEF tree_fold_segments
<1>9. f.hash \o tree_fold_segments(s) = Run(a, fp)
  <2>1. Run(a, x) \o Run(x, fp) = Run(a, fp)
    BY <1>3, RunJoin
  <2> QED BY <1>1, <1>3, <1>8, <2>1
<1> QED BY <1>2, <1>4, <1>5, <1>9 DEF apply_prefix, fold_compose_apply, s

\* A boundary at the fold takes the whole journal.
LEMMA FlushDue ==
  ASSUME NEW tree, NEW f \in Folds, NEW a \in Nat, NEW fp \in Nat, FoldAt(tree, f, a, fp)
  PROVE  flush_upto(f, fp) = [hash |-> Run(a, fp), journal |-> <<>>]
<1> DEFINE L == Len(f.journal)
<1>1. f.journal \in Seq(JournalEntries) /\ L \in Nat
  BY DEF Folds
<1>2. PICK x \in a..fp : L = fp - x /\ \A j \in 1..L : f.journal[j] = Entry(<<x + j - 1>>, x + j)
  BY DEF FoldAt
<1>3. DOMAIN f.journal = 1..L
  BY <1>1
<1> HIDE DEF L
<1>4. ASSUME NEW j \in 1..L PROVE f.journal[j].end <= fp
  <2>1. f.journal[j].end = x + j
    <3>1. f.journal[j] = Entry(<<x + j - 1>>, x + j)
      BY <1>2
    <3>2. Entry(<<x + j - 1>>, x + j).end = x + j
      BY DEF Entry
    <3> QED BY <3>1, <3>2
  <2> QED BY <1>1, <1>2, <2>1
<1>5. {i \in DOMAIN f.journal : f.journal[i].end <= fp} = 1..L
  BY <1>3, <1>4
<1>6. partition_len(f, fp) = L
  <2>1. Cardinality(1..L) = L
    BY <1>1, FS_Interval
  <2> QED BY <1>5, <2>1 DEF partition_len
<1> QED BY <1>6, ApplyAll DEF flush_upto, L

\* A fold state written out.
LEMMA FoldShape ==
  ASSUME NEW f \in Folds, NEW h \in Seq(Int), NEW s \in Seq(JournalEntries)
  PROVE  /\ [hash |-> h, journal |-> s] \in Folds
         /\ [f EXCEPT !.hash = h] = [hash |-> h, journal |-> f.journal]
         /\ [f EXCEPT !.journal = s] = [hash |-> f.hash, journal |-> s]
  BY DEF Folds

\* A journal that begins at x.
LEMMA FoldFrom ==
  ASSUME NEW tree, NEW a \in Nat, NEW fp \in Nat, NEW x \in a..fp,
         NEW s \in Seq(JournalEntries), Len(s) = fp - x,
         \A j \in 1..(fp - x) : s[j] = Entry(<<x + j - 1>>, x + j),
         ~tree => x = fp, NEW g, g = [hash |-> Run(a, x), journal |-> s]
  PROVE  g \in Folds /\ FoldAt(tree, g, a, fp)
<1>1. Run(a, x) \in Seq(Int)
  BY RunFacts
<1>2. g \in Folds
  BY <1>1 DEF Folds
<1>3. g.hash = Run(a, x) /\ g.journal = s
  OBVIOUS
<1>4. FoldAt(tree, g, a, fp)
  BY <1>3 DEF FoldAt
<1> QED BY <1>2, <1>4

\* One span more.
LEMMA PushOne ==
  ASSUME NEW tree \in BOOLEAN, NEW f \in Folds, NEW a \in Nat, NEW fp \in Nat,
         FoldAt(tree, f, a, fp), NEW g, g = push(tree, f, <<fp>>, fp + 1)
  PROVE  g \in Folds /\ FoldAt(tree, g, a, fp + 1)
<1> DEFINE s == f.journal
           L == Len(s)
           e == Entry(<<fp>>, fp + 1)
<1>1. PICK x \in a..fp : /\ f.hash = Run(a, x) /\ L = fp - x /\ (~tree => x = fp)
                         /\ \A j \in 1..(fp - x) : s[j] = Entry(<<x + j - 1>>, x + j)
  BY DEF FoldAt
<1>2. s \in Seq(JournalEntries) /\ L = Len(s) /\ f.hash \in Seq(Int)
  BY DEF Folds
<1>3. e \in JournalEntries
  <2>1. <<fp>> \in Seq(Int) /\ Len(<<fp>>) \in Nat
    OBVIOUS
  <2> QED BY <2>1 DEF Entry, JournalEntries
<1>4. /\ tree => g = [(IF L = FJ_CAP THEN apply_prefix(f, FJ_CAP) ELSE f)
                         EXCEPT !.journal = Append(@, e)]
      /\ ~tree => g = [f EXCEPT !.hash = f.hash \o <<fp>>]
  BY DEF push, fold_compose_apply
<1>5. e = Entry(<<fp>>, fp + 1)
  OBVIOUS
<1>6. L = FJ_CAP => apply_prefix(f, FJ_CAP) = [hash |-> Run(a, fp), journal |-> <<>>]
  <2>1. apply_prefix(f, Len(f.journal)) = [hash |-> Run(a, fp), journal |-> <<>>]
    BY ApplyAll
  <2> QED BY <2>1
<1>7. s = f.journal
  OBVIOUS
<1> HIDE DEF s, L, e
<1>8. a <= fp /\ fp + 1 \in Nat /\ x \in Nat
  BY <1>1
<1>9. CASE ~tree
  <2>1. f.hash \o <<fp>> = Run(a, fp + 1)
    <3>1. Run(a, fp) \o Run(fp, fp + 1) = Run(a, fp + 1)
      <4>1. a \in Int /\ fp \in Int /\ fp + 1 \in Int /\ a <= fp /\ fp <= fp + 1
        BY <1>8
      <4> QED BY <4>1, RunJoin
    <3>2. <<fp>> = Run(fp, fp + 1)
      BY RunOne
    <3> QED BY <1>1, <1>9, <3>1, <3>2
  <2>2. s = <<>>
    <3>1. L = 0
      BY <1>1, <1>9
    <3>2. Len(s) = 0
      BY <1>2, <3>1
    <3> QED BY <1>2, <3>2, EmptySeq
  <2>3. Run(a, fp + 1) \in Seq(Int)
    BY <1>8, RunFacts
  <2>4. g = [hash |-> Run(a, fp + 1), journal |-> <<>>]
    <3>1. g = [f EXCEPT !.hash = Run(a, fp + 1)]
      BY <1>4, <1>9, <2>1
    <3> QED BY <1>2, <1>7, <2>2, <2>3, <3>1, FoldShape
  <2>5. /\ <<>> \in Seq(JournalEntries) /\ Len(<<>>) = (fp + 1) - (fp + 1)
        /\ fp + 1 \in a..(fp + 1)
        /\ \A j \in 1..((fp + 1) - (fp + 1)) : <<>>[j] = Entry(<<(fp + 1) + j - 1>>, (fp + 1) + j)
    BY <1>8
  <2>6. fp + 1 \in Nat /\ (~tree => fp + 1 = fp + 1)
    BY <1>8
  <2> QED BY <2>4, <2>5, <2>6, FoldFrom
<1>10. CASE tree /\ L = FJ_CAP
  <2>1. g = [[hash |-> Run(a, fp), journal |-> <<>>] EXCEPT !.journal = Append(@, e)]
    BY <1>4, <1>6, <1>10
  <2>2. Append(<<>>, e) = <<e>>
    OBVIOUS
  <2>3. g = [hash |-> Run(a, fp), journal |-> <<e>>]
    BY <2>1, <2>2
  <2>4. <<e>> \in Seq(JournalEntries) /\ Len(<<e>>) = 1 /\ <<e>>[1] = e
    BY <1>3
  <2>5. \A j \in 1..((fp + 1) - fp) : <<e>>[j] = Entry(<<fp + j - 1>>, fp + j)
    <3>1. \A j \in 1..((fp + 1) - fp) : j = 1
      OBVIOUS
    <3>2. fp + 1 - 1 = fp
      OBVIOUS
    <3> QED BY <1>5, <2>4, <3>1, <3>2
  <2>6. fp \in a..(fp + 1) /\ Len(<<e>>) = (fp + 1) - fp
    BY <1>8, <2>4
  <2>7. <<e>> \in Seq(JournalEntries) /\ fp + 1 \in Nat /\ (~tree => fp = fp + 1)
    BY <1>8, <1>10, <2>4
  <2> QED BY <2>3, <2>5, <2>6, <2>7, FoldFrom
<1>11. CASE tree /\ L # FJ_CAP
  <2>1. /\ Append(s, e) \in Seq(JournalEntries) /\ Len(Append(s, e)) = L + 1
        /\ \A i \in 1..L : Append(s, e)[i] = s[i]
        /\ Append(s, e)[L + 1] = e
    BY <1>2, <1>3, AppendProperties
  <2>2. g = [hash |-> Run(a, x), journal |-> Append(s, e)]
    <3>1. g = [f EXCEPT !.journal = Append(s, e)]
      BY <1>4, <1>7, <1>11
    <3>2. g = [hash |-> f.hash, journal |-> Append(s, e)]
      BY <1>2, <2>1, <3>1, FoldShape
    <3> QED BY <1>1, <3>2
  <2>3. ASSUME NEW j \in 1..((fp + 1) - x) PROVE Append(s, e)[j] = Entry(<<x + j - 1>>, x + j)
    <3>1. CASE j \in 1..L
      BY <1>1, <2>1, <3>1
    <3>2. CASE j = L + 1
      <4>1. x + j - 1 = fp /\ x + j = fp + 1
        BY <1>1, <1>8, <3>2
      <4> QED BY <1>5, <2>1, <3>2, <4>1
    <3>3. j \in 1..L \/ j = L + 1
      BY <1>1, <1>8
    <3> QED BY <3>1, <3>2, <3>3
  <2>4. x \in a..(fp + 1) /\ Len(Append(s, e)) = (fp + 1) - x
    BY <1>1, <1>8, <2>1
  <2>5. Append(s, e) \in Seq(JournalEntries) /\ fp + 1 \in Nat /\ (~tree => x = fp + 1)
    BY <1>8, <1>11, <2>1
  <2>6. \A j \in 1..((fp + 1) - x) : Append(s, e)[j] = Entry(<<x + j - 1>>, x + j)
    BY <2>3
  <2> QED BY <2>2, <2>4, <2>5, <2>6, FoldFrom
<1> QED BY <1>9, <1>10, <1>11

\* A fold whose journal holds one number each.
OneFolds == {f \in Folds : \A j \in 1..Len(f.journal) :
                              \E y \in Int, e \in Nat : f.journal[j] = Entry(<<y>>, e)}

\* Such a journal applied.
LEMMA ApplyOnes ==
  ASSUME NEW f \in OneFolds
  PROVE  \E h \in Seq(Int) : apply_prefix(f, Len(f.journal)) = [hash |-> h, journal |-> <<>>]
<1> DEFINE s == f.journal
           L == Len(s)
           b(j) == CHOOSE y \in Int : \E e \in Nat : s[j] = Entry(<<y>>, e)
           z == [j \in 1..L |-> b(j)]
<1>1. s \in Seq(JournalEntries) /\ L \in Nat /\ f.hash \in Seq(Int) /\ L = Len(s)
  BY DEF OneFolds, Folds
<1>2. ASSUME NEW j \in 1..L PROVE b(j) \in Int /\ \E e \in Nat : s[j] = Entry(<<b(j)>>, e)
  BY DEF OneFolds
<1>3. z \in [1..L -> Int] /\ \A j \in 1..L : \E e \in Nat : s[j] = Entry(<<z[j]>>, e)
  BY <1>2
<1>4. DOMAIN s = 1..L
  BY <1>1
<1> HIDE DEF z, b, s, L
<1>5. [i \in DOMAIN s |-> s[i].b] = [i \in 1..L |-> <<z[i]>>]
  <2>1. ASSUME NEW j \in 1..L PROVE s[j].b = <<z[j]>>
    <3>1. PICK e \in Nat : s[j] = Entry(<<z[j]>>, e)
      BY <1>3
    <3>2. Entry(<<z[j]>>, e).b = <<z[j]>>
      BY DEF Entry
    <3> QED BY <3>1, <3>2
  <2> QED BY <1>4, <2>1
<1>6. tree_fold_segments(s) = z
  BY <1>1, <1>3, <1>5, FlattenOnes DEF tree_fold_segments
<1>7. SubSeq(s, 1, L) = s
  BY <1>1, SubSeqFull
<1>8. SubSeq(s, L + 1, L) = <<>>
  BY <1>1, SubSeqEmpty
<1>9. z \in Seq(Int)
  BY <1>1, <1>3
<1>10. f.hash \o z \in Seq(Int)
  BY <1>1, <1>9
<1>11. apply_prefix(f, L) = [hash |-> f.hash \o z, journal |-> <<>>]
  <2>1. apply_prefix(f, L) = [hash |-> f.hash \o tree_fold_segments(SubSeq(s, 1, L)),
                              journal |-> SubSeq(s, L + 1, L)]
    BY DEF apply_prefix, fold_compose_apply, s, L
  <2> QED BY <1>6, <1>7, <1>8, <2>1
<1> QED BY <1>10, <1>11 DEF L, s

\* A number pushed.
LEMMA PushTyped ==
  ASSUME NEW tree \in BOOLEAN, NEW f \in OneFolds, NEW y \in Int, NEW end \in Nat
  PROVE  push(tree, f, <<y>>, end) \in OneFolds
<1> DEFINE s == f.journal
           L == Len(s)
           e == Entry(<<y>>, end)
           g == push(tree, f, <<y>>, end)
<1>1. /\ s \in Seq(JournalEntries) /\ L \in Nat /\ f.hash \in Seq(Int) /\ L = Len(s) /\ f \in Folds
      /\ \A j \in 1..L : \E v \in Int, n \in Nat : s[j] = Entry(<<v>>, n)
  BY DEF OneFolds, Folds
<1>2. e \in JournalEntries
  <2>1. <<y>> \in Seq(Int) /\ Len(<<y>>) \in Nat
    OBVIOUS
  <2> QED BY <2>1 DEF Entry, JournalEntries
<1>3. /\ tree => g = [(IF L = FJ_CAP THEN apply_prefix(f, FJ_CAP) ELSE f)
                         EXCEPT !.journal = Append(@, e)]
      /\ ~tree => g = [f EXCEPT !.hash = f.hash \o <<y>>]
  BY DEF push, fold_compose_apply
<1>4. L = FJ_CAP => \E h \in Seq(Int) : apply_prefix(f, FJ_CAP) = [hash |-> h, journal |-> <<>>]
  BY ApplyOnes
<1>5. e = Entry(<<y>>, end) /\ s = f.journal
  OBVIOUS
<1> HIDE DEF s, L, e, g
<1>6. CASE ~tree
  <2>1. f.hash \o <<y>> \in Seq(Int)
    BY <1>1
  <2>2. g = [hash |-> f.hash \o <<y>>, journal |-> s]
    BY <1>1, <1>3, <1>5, <1>6, <2>1, FoldShape
  <2>3. g \in Folds
    BY <1>1, <2>1, <2>2, FoldShape
  <2>4. g.journal = s
    BY <2>2
  <2>5. \A j \in 1..Len(g.journal) : \E v \in Int, n \in Nat : g.journal[j] = Entry(<<v>>, n)
    BY <1>1, <2>4
  <2> QED BY <2>3, <2>5 DEF OneFolds, g
<1>7. CASE tree /\ L = FJ_CAP
  <2>1. PICK h \in Seq(Int) : apply_prefix(f, FJ_CAP) = [hash |-> h, journal |-> <<>>]
    BY <1>4, <1>7
  <2>2. g = [hash |-> h, journal |-> <<e>>]
    <3>1. Append(<<>>, e) = <<e>>
      OBVIOUS
    <3> QED BY <1>3, <1>7, <2>1, <3>1
  <2>3. <<e>> \in Seq(JournalEntries) /\ Len(<<e>>) = 1 /\ <<e>>[1] = e
    BY <1>2
  <2>4. g \in Folds
    BY <1>1, <2>2, <2>3, FoldShape
  <2>5. \A j \in 1..Len(g.journal) : j = 1
    BY <2>2, <2>3
  <2>6. g.journal[1] = Entry(<<y>>, end)
    BY <1>5, <2>2, <2>3
  <2> QED BY <2>4, <2>5, <2>6 DEF OneFolds, g
<1>8. CASE tree /\ L # FJ_CAP
  <2>1. /\ Append(s, e) \in Seq(JournalEntries) /\ Len(Append(s, e)) = L + 1
        /\ \A i \in 1..L : Append(s, e)[i] = s[i]
        /\ Append(s, e)[L + 1] = e
    BY <1>1, <1>2, AppendProperties
  <2>2. g = [hash |-> f.hash, journal |-> Append(s, e)]
    <3>1. g = [f EXCEPT !.journal = Append(s, e)]
      BY <1>3, <1>5, <1>8
    <3> QED BY <1>1, <2>1, <3>1, FoldShape
  <2>3. g \in Folds
    BY <1>1, <2>1, <2>2, FoldShape
  <2>4. ASSUME NEW j \in 1..(L + 1)
        PROVE  \E v \in Int, n \in Nat : Append(s, e)[j] = Entry(<<v>>, n)
    <3>1. CASE j \in 1..L
      BY <1>1, <2>1, <3>1
    <3>2. CASE j = L + 1
      BY <1>5, <2>1, <3>2
    <3>3. j \in 1..L \/ j = L + 1
      BY <1>1
    <3> QED BY <3>1, <3>2, <3>3
  <2>5. g.journal = Append(s, e)
    BY <2>2
  <2> QED BY <2>1, <2>3, <2>4, <2>5 DEF OneFolds, g
<1> QED BY <1>6, <1>7, <1>8 DEF g

\* A fold of spans holds one number each.
LEMMA FoldOnes ==
  ASSUME NEW tree, NEW f \in Folds, NEW a \in Nat, NEW fp \in Nat, FoldAt(tree, f, a, fp)
  PROVE  f \in OneFolds
<1>1. PICK x \in a..fp : /\ Len(f.journal) = fp - x
                         /\ \A j \in 1..(fp - x) : f.journal[j] = Entry(<<x + j - 1>>, x + j)
  BY DEF FoldAt
<1>2. \A j \in 1..(fp - x) : x + j - 1 \in Int /\ x + j \in Nat
  OBVIOUS
<1> QED BY <1>1, <1>2 DEF OneFolds

\* What push_values does, value by value.
Pushes(h, tree, f, n, vals, pos) ==
    /\ h \in [0..n -> OneFolds] /\ h[0] = f /\ h[n] = push_values(tree, f, vals, pos)
    /\ \A i \in 1..n : h[i] = push(tree, h[i - 1], <<vals[i]>>, pos + i)

\* It has such a run.
LEMMA PushRun ==
  ASSUME NEW tree \in BOOLEAN, NEW f \in OneFolds, NEW n \in Nat, NEW vals \in [1..n -> Int],
         NEW pos \in Nat
  PROVE  \E h : Pushes(h, tree, f, n, vals, pos)
<1> DEFINE s == [i \in DOMAIN vals |-> i]
           D == 1..n
           G == [g \in OneFolds |-> [i \in D |-> push(tree, g, <<vals[i]>>, pos + i)]]
           P(it) == it = [u \in SUBSET DOMAIN s |->
                            IF u = {} THEN f
                            ELSE push(tree, it[u \ {Max(u)}], <<vals[s[Max(u)]]>>, pos + s[Max(u)])]
           IT == CHOOSE it : P(it)
<1>0. DOMAIN vals = 1..n /\ s \in [1..n -> D] /\ \A i \in 1..n : s[i] = i
  OBVIOUS
<1>1. push_values(tree, f, vals, pos) = IT[DOMAIN s]
  BY DEF push_values, FoldLeft, MapThenFoldSet
<1>2. G \in [OneFolds -> [D -> OneFolds]]
  <2>1. ASSUME NEW g \in OneFolds, NEW i \in D PROVE push(tree, g, <<vals[i]>>, pos + i) \in OneFolds
    <3>1. vals[i] \in Int /\ pos + i \in Nat
      OBVIOUS
    <3> QED BY <3>1, PushTyped
  <2> QED BY <2>1
<1>5. \A g \in OneFolds, i \in D : G[g][i] = push(tree, g, <<vals[i]>>, pos + i)
  OBVIOUS
<1> HIDE DEF G
<1>3. PICK it \in [SUBSET (1..n) -> OneFolds] : Solves(it, G, f, s, n)
  <2> HIDE DEF s, D
  <2> QED BY <1>0, <1>2, FoldExists
<1>4. ASSUME NEW u \in SUBSET (1..n), u # {}
      PROVE  Max(u) \in 1..n /\ u \ {Max(u)} \in SUBSET (1..n) /\ s[Max(u)] = Max(u)
  <2>1. Max(u) \in u
    BY <1>4, MaxOf
  <2> QED BY <1>0, <2>1
<1>6. P(it)
  <2>1. ASSUME NEW u \in SUBSET (1..n)
        PROVE  it[u] = IF u = {} THEN f
                       ELSE push(tree, it[u \ {Max(u)}], <<vals[s[Max(u)]]>>, pos + s[Max(u)])
    BY <1>3, <1>4, <1>5 DEF Solves
  <2> QED BY <1>0, <2>1
<1>7. P(IT)
  BY <1>6
<1> HIDE DEF IT
<1>8. Unwinds(IT, OneFolds, D, G, f, s, n)
  <2>1. IT[{}] = f
    BY <1>7
  <2>2. ASSUME NEW u \in SUBSET (1..n), u # {}, IT[u \ {Max(u)}] \in OneFolds
        PROVE  IT[u] = G[IT[u \ {Max(u)}]][s[Max(u)]]
    <3>1. IT[u] = push(tree, IT[u \ {Max(u)}], <<vals[s[Max(u)]]>>, pos + s[Max(u)])
      BY <1>0, <1>7, <2>2
    <3> QED BY <1>4, <1>5, <2>2, <3>1
  <2> QED BY <1>0, <1>2, <2>1, <2>2 DEF Unwinds
<1>9. Reaches(OneFolds, G, f, s, n, IT[1..n])
  BY <1>8, FoldPrefixes
<1>10. PICK h \in [0..n -> OneFolds] : Follows(h, G, f, s, n) /\ h[n] = IT[1..n]
  BY <1>9 DEF Reaches
<1>11. ASSUME NEW i \in 1..n PROVE h[i] = push(tree, h[i - 1], <<vals[i]>>, pos + i)
  <2>1. h[i - 1] \in OneFolds /\ s[i] = i /\ i \in D
    BY <1>0, <1>10
  <2>2. h[i] = G[h[i - 1]][s[i]]
    BY <1>10 DEF Follows
  <2> QED BY <1>5, <2>1, <2>2
<1>12. h[0] = f
  BY <1>10 DEF Follows
<1> QED BY <1>0, <1>1, <1>10, <1>11, <1>12 DEF Pushes

\* The next spans folded.
LEMMA PushValues ==
  ASSUME NEW tree \in BOOLEAN, NEW f \in Folds, NEW a \in Nat, NEW fp \in Nat,
         FoldAt(tree, f, a, fp), NEW n \in Nat, NEW vals \in [1..n -> Int],
         \A i \in 1..n : vals[i] = fp + i - 1, NEW g, g = push_values(tree, f, vals, fp)
  PROVE  g \in Folds /\ FoldAt(tree, g, a, fp + n)
<1>1. PICK h \in [0..n -> OneFolds] :
            /\ h[0] = f /\ h[n] = g
            /\ \A i \in 1..n : h[i] = push(tree, h[i - 1], <<vals[i]>>, fp + i)
  <2>1. f \in OneFolds
    BY FoldOnes
  <2>2. \E h : Pushes(h, tree, f, n, vals, fp)
    BY <2>1, PushRun
  <2> QED BY <2>2 DEF Pushes
<1> DEFINE S == {i \in 0..n : h[i] \in Folds /\ FoldAt(tree, h[i], a, fp + i)}
<1>2. 0 \in S
  BY <1>1
<1>3. ASSUME NEW i \in 1..n, i - 1 \in S PROVE i \in S
  <2>1. h[i - 1] \in Folds /\ FoldAt(tree, h[i - 1], a, fp + (i - 1))
    BY <1>3
  <2>2. fp + (i - 1) \in Nat /\ (fp + (i - 1)) + 1 = fp + i /\ vals[i] = fp + (i - 1)
    OBVIOUS
  <2>3. h[i] = push(tree, h[i - 1], <<fp + (i - 1)>>, (fp + (i - 1)) + 1)
    BY <1>1, <2>2
  <2>4. h[i] \in Folds /\ FoldAt(tree, h[i], a, (fp + (i - 1)) + 1)
    BY <2>1, <2>2, <2>3, PushOne
  <2> QED BY <2>2, <2>4
<1>4. n \in S
  <2> HIDE DEF S
  <2>1. 0..n \subseteq S
    BY <1>2, <1>3, Climb
  <2> QED BY <2>1
<1> QED BY <1>1, <1>4

\* finish: the journal is applied.
LEMMA FlushAll ==
  ASSUME NEW tree \in BOOLEAN, NEW f \in Folds, NEW a \in Nat, NEW fp \in Nat,
         FoldAt(tree, f, a, fp)
  PROVE  flush_all(f) \in Folds /\ FoldAt(tree, flush_all(f), a, fp)
<1>1. flush_all(f) = [hash |-> Run(a, fp), journal |-> <<>>]
  BY ApplyAll DEF flush_all
<1>2. a <= fp
  BY DEF FoldAt
<1>3. /\ <<>> \in Seq(JournalEntries) /\ Len(<<>>) = fp - fp /\ fp \in a..fp
      /\ \A j \in 1..(fp - fp) : <<>>[j] = Entry(<<fp + j - 1>>, fp + j)
  BY <1>2
<1> QED BY <1>1, <1>3, FoldFrom

-----------------------------------------------------------------------------
(* Rings and the grid. *)

\* A quotient and a remainder determine each other.
LEMMA DivModOf ==
  ASSUME NEW N \in Nat \ {0}, NEW a \in Nat, NEW b \in 0..(N - 1), NEW x \in Nat, x = N * a + b
  PROVE  x % N = b /\ x \div N = a
<1>1. x % N = b
  BY DivModUnique
<1>2. x \div N \in Nat /\ x = N * (x \div N) + (x % N)
  BY DivMod
<1> DEFINE k == x \div N - a
<1>3. k \in Int /\ N * k = 0
  <2>1. N * (x \div N) \in Int /\ N * a \in Int /\ N * k = N * (x \div N) - N * a
    BY <1>2
  <2> QED BY <1>1, <1>2, <2>1
<1> HIDE DEF k
<1>4. k = 0
  BY <1>3, Multiples
<1> QED BY <1>1, <1>2, <1>4 DEF k

\* The next number: in the same block, or the first of the next.
LEMMA NextInBlock ==
  ASSUME NEW N \in Nat \ {0}, NEW a \in Nat
  PROVE  /\ (a % N) + 1 < N => (a + 1) % N = (a % N) + 1 /\ (a + 1) \div N = a \div N
         /\ (a % N) + 1 >= N => (a + 1) % N = 0 /\ (a + 1) \div N = a \div N + 1
<1> DEFINE d == a \div N
           m == a % N
<1>1. d \in Nat /\ m \in 0..(N - 1) /\ a = N * d + m
  BY DivMod
<1> HIDE DEF d, m
<1>2. N * d \in Nat /\ N * (d + 1) = N * d + N
  BY <1>1
<1>3. ASSUME m + 1 < N PROVE (a + 1) % N = m + 1 /\ (a + 1) \div N = d
  <2>1. m + 1 \in 0..(N - 1) /\ a + 1 \in Nat /\ a + 1 = N * d + (m + 1)
    BY <1>1, <1>2, <1>3
  <2> QED BY <1>1, <2>1, DivModOf
<1>4. ASSUME m + 1 >= N PROVE (a + 1) % N = 0 /\ (a + 1) \div N = d + 1
  <2>1. d + 1 \in Nat /\ 0 \in 0..(N - 1) /\ a + 1 \in Nat /\ a + 1 = N * (d + 1) + 0
    BY <1>1, <1>2, <1>4
  <2> DEFINE x == a + 1
             q == d + 1
  <2>2. q \in Nat /\ 0 \in 0..(N - 1) /\ x \in Nat /\ x = N * q + 0
    BY <2>1
  <2> HIDE DEF x, q
  <2>3. x % N = 0 /\ x \div N = q
    BY <2>2, DivModOf
  <2> QED BY <2>3 DEF x, q
<1> QED BY <1>3, <1>4 DEF d, m

\* The next slot of a ring.
LEMMA NextSlot ==
  ASSUME NEW N \in Nat \ {0}, NEW a \in Nat
  PROVE  ((a % N) + 1) % N = (a + 1) % N
<1>1. a % N \in 0..(N - 1)
  BY DivMod
<1>2. CASE (a % N) + 1 < N
  <2>1. (a + 1) % N = (a % N) + 1
    BY <1>2, NextInBlock
  <2> DEFINE m == (a % N) + 1
  <2>2. m \in 0..(N - 1) /\ m \in Nat /\ m = N * 0 + m /\ 0 \in Nat
    BY <1>1, <1>2
  <2> HIDE DEF m
  <2>3. m % N = m
    BY <2>2, DivModOf
  <2> QED BY <2>1, <2>3 DEF m
<1>3. CASE (a % N) + 1 >= N
  <2>1. (a + 1) % N = 0
    BY <1>3, NextInBlock
  <2>2. (a % N) + 1 = N
    BY <1>1, <1>3
  <2>3. 0 \in 0..(N - 1) /\ N \in Nat /\ N = N * 1 + 0 /\ 1 \in Nat
    OBVIOUS
  <2>4. N % N = 0
    BY <2>3, DivModOf
  <2> QED BY <2>1, <2>2, <2>4
<1> QED BY <1>1, <1>2, <1>3

\* The slot before the next one to use.
LEMMA LastSlot ==
  ASSUME NEW N \in Nat \ {0}, NEW a \in Nat \ {0}
  PROVE  ((a % N) + N - 1) % N = (a - 1) % N
<1> DEFINE c == a - 1
           d == c \div N
           m == c % N
<1>1. c \in Nat /\ a = c + 1
  OBVIOUS
<1>2. d \in Nat /\ m \in 0..(N - 1) /\ c = N * d + m
  BY <1>1, DivMod
<1>3. /\ m + 1 < N => a % N = m + 1
      /\ m + 1 >= N => a % N = 0
  <2> HIDE DEF c
  <2> QED BY <1>1, NextInBlock
<1> HIDE DEF c, d, m
<1>4. CASE m + 1 < N
  <2>1. (a % N) + N - 1 = N * 1 + m /\ (a % N) + N - 1 \in Nat /\ 1 \in Nat
    BY <1>2, <1>3, <1>4
  <2>2. ((a % N) + N - 1) % N = m
    <3> DEFINE x == (a % N) + N - 1
    <3>1. x \in Nat /\ x = N * 1 + m /\ 1 \in Nat /\ m \in 0..(N - 1)
      BY <1>2, <2>1
    <3> HIDE DEF x
    <3>2. x % N = m
      BY <3>1, DivModOf
    <3> QED BY <3>2 DEF x
  <2> QED BY <2>2 DEF c, m
<1>5. CASE m + 1 >= N
  <2>1. m = N - 1 /\ (a % N) + N - 1 = N * 0 + (N - 1) /\ 0 \in Nat /\ N - 1 \in Nat
    BY <1>2, <1>3, <1>5
  <2>2. ((a % N) + N - 1) % N = N - 1
    <3> DEFINE x == (a % N) + N - 1
    <3>1. x \in Nat /\ x = N * 0 + (N - 1) /\ 0 \in Nat /\ N - 1 \in 0..(N - 1)
      BY <2>1
    <3> HIDE DEF x
    <3>2. x % N = N - 1
      BY <3>1, DivModOf
    <3> QED BY <3>2 DEF x
  <2> QED BY <2>1, <2>2 DEF c, m
<1> QED BY <1>2, <1>4, <1>5

-----------------------------------------------------------------------------
(* complete_boundaries. *)

\* What it leaves alone of the sink.
Passed(g, s) ==
    /\ g = [s EXCEPT !.passes = g.passes, !.fold = g.fold, !.pass_tail = g.pass_tail]
    /\ \A i \in 0..(PASS_RING - 1) : /\ g.passes[i].start = s.passes[i].start
                                     /\ g.passes[i].end_span = s.passes[i].end_span

\* After some turns the oldest pass is u.
Turned(tree, g, s, h, t, u, p) ==
    /\ g \in Sinks /\ Passed(g, s) /\ u \in t..p /\ PassState(tree, g, h, u, p)
    /\ \A i \in t..(u - 1) : Rec(s, i).end_span <= s.fold_pos

\* So the other fields are the same.
LEMMA PassedSame ==
  ASSUME NEW s \in Sinks, NEW g, Passed(g, s)
  PROVE  /\ g.next_span = s.next_span /\ g.fold_pos = s.fold_pos /\ g.fold_rem = s.fold_rem
         /\ g.submit_rem = s.submit_rem /\ g.submit_lane = s.submit_lane
         /\ g.pending_lane = s.pending_lane /\ g.pending_len = s.pending_len
         /\ g.pending_head = s.pending_head /\ g.cur_inline = s.cur_inline
         /\ g.inline = s.inline /\ g.inline_seq = s.inline_seq
         /\ g.inline_fold_seq = s.inline_fold_seq /\ g.pass_head = s.pass_head
         /\ g.harvest_pos = s.harvest_pos /\ g.pass_open = s.pass_open /\ g.pc = s.pc
         /\ g.ret = s.ret /\ g.spans = s.spans /\ g.begun = s.begun /\ g.resets = s.resets
<1> DEFINE ps == g.passes
           f == g.fold
           pt == g.pass_tail
<1>1. g = [s EXCEPT !.passes = ps, !.fold = f, !.pass_tail = pt]
  BY DEF Passed
<1> HIDE DEF ps, f, pt
<1> QED BY <1>1 DEF Sinks

\* The fields of a sink the passes are about.
LEMMA SinkTypes ==
  ASSUME NEW s \in Sinks
  PROVE  /\ s.next_span \in Nat /\ s.fold \in Folds /\ s.fold_pos \in Nat /\ s.passes \in PassRings
         /\ s.pass_head \in 0..(PASS_RING - 1) /\ s.pass_tail \in 0..(PASS_RING - 1)
         /\ s.pass_open \in BOOLEAN /\ s.harvest_pos \in 0..(PASS_RING - 1)
         /\ PASS_RING \in Nat \ {0, 1}
  BY PassFoldAssumption DEF Sinks, PassSlots

\* The record of a pass.
LEMMA RecTypes ==
  ASSUME NEW s, s.passes \in PassRings, NEW i \in Nat
  PROVE  /\ i % PASS_RING \in 0..(PASS_RING - 1)
         /\ Rec(s, i) \in PassRecords
         /\ Rec(s, i).start \in Nat /\ Rec(s, i).end_span \in Nat \cup {OPEN}
         /\ Rec(s, i).hash \in Seq(Int) /\ Rec(s, i).done \in BOOLEAN
<1>1. i % PASS_RING \in 0..(PASS_RING - 1)
  <2>1. PASS_RING \in Nat \ {0}
    BY PassFoldAssumption
  <2> QED BY <2>1, DivMod
<1>2. Rec(s, i) \in PassRecords
  BY <1>1 DEF Rec, PassRings
<1> QED BY <1>1, <1>2 DEF PassRecords

\* The records of one lap are apart.
LEMMA RecApart ==
  ASSUME NEW h \in Nat, NEW i \in Nat, NEW j \in Nat, i # j,
         h <= i, h <= j, i < h + PASS_RING, j < h + PASS_RING
  PROVE  i % PASS_RING # j % PASS_RING
<1>1. PASS_RING \in Nat \ {0}
  BY PassFoldAssumption
<1>2. CASE i < j
  <2>1. j < i + PASS_RING
    BY <1>1
  <2> QED BY <1>1, <1>2, <2>1, ModApart
<1>3. CASE j < i
  <2>1. i < j + PASS_RING
    BY <1>1
  <2> QED BY <1>1, <1>3, <2>1, ModApart
<1> QED BY <1>2, <1>3

\* An empty fold.
LEMMA FoldNew ==
  ASSUME NEW tree, NEW fp \in Nat, NEW f, f = [hash |-> <<>>, journal |-> <<>>]
  PROVE  f \in Folds /\ FoldAt(tree, f, fp, fp)
<1>1. f = [hash |-> Run(fp, fp), journal |-> <<>>]
  BY RunEmpty
<1>2. /\ <<>> \in Seq(JournalEntries) /\ Len(<<>>) = fp - fp /\ fp \in fp..fp
      /\ \A j \in 1..(fp - fp) : <<>>[j] = Entry(<<fp + j - 1>>, fp + j)
  OBVIOUS
<1> QED BY <1>1, <1>2, FoldFrom

\* A completed record.
LEMMA RecordDone ==
  ASSUME NEW rec \in PassRecords, NEW run \in Seq(Int),
         NEW y, y = [rec EXCEPT !.hash = run, !.done = TRUE]
  PROVE  y = [start |-> rec.start, end_span |-> rec.end_span, hash |-> run, done |-> TRUE]
  BY DEF PassRecords

\* A pass that is due.
LEMMA CompleteDue ==
  ASSUME NEW tree \in BOOLEAN, NEW s \in Sinks, NEW h \in Nat, NEW t \in Nat, NEW p \in Nat,
         PassState(tree, s, h, t, p), t < p, Rec(s, t).end_span = s.fold_pos,
         NEW g, g = complete_one(tree, s)
  PROVE  Turned(tree, g, s, h, t, t + 1, p)
<1> DEFINE k == t % PASS_RING
           fp == s.fold_pos
           rec == s.passes[k]
           run == Run(rec.start, fp)
           f == [hash |-> <<>>, journal |-> <<>>]
           new == [start |-> rec.start, end_span |-> fp, hash |-> run, done |-> TRUE]
<1>1. /\ h <= t /\ p < h + PASS_RING /\ s.pass_tail = k /\ s.pass_head = p % PASS_RING
      /\ s.harvest_pos = h % PASS_RING
  BY DEF PassState, PassRing
<1>2. /\ s.next_span \in Nat /\ s.fold \in Folds /\ fp \in Nat /\ s.passes \in PassRings
      /\ s.pass_open \in BOOLEAN /\ PASS_RING \in Nat \ {0, 1}
  BY SinkTypes
<1>3. k \in 0..(PASS_RING - 1) /\ rec \in PassRecords /\ rec = Rec(s, t) /\ rec.start \in Nat
  BY <1>2, RecTypes DEF Rec
<1>4. /\ ~rec.done /\ rec.end_span = fp /\ rec.end_span # OPEN /\ rec.start <= fp
      /\ FoldAt(tree, s.fold, rec.start, fp)
  <2>1. t \in t..(p - 1)
    OBVIOUS
  <2> QED BY <1>2, <1>3, <2>1 DEF PassState, PassChain, FoldInPass, FoldStart, OPEN
<1>5. s.pass_tail # s.pass_head
  <2>1. t # p /\ h <= p /\ t < h + PASS_RING
    BY <1>1, <1>2
  <2> QED BY <1>1, <2>1, RecApart
<1>6. (IF tree THEN flush_upto(s.fold, fp) ELSE s.fold) = [hash |-> run, journal |-> <<>>]
  <2>1. CASE tree
    <3> DEFINE b == rec.start
               d == s.fold
    <3>1. b \in Nat /\ fp \in Nat /\ d \in Folds /\ FoldAt(tree, d, b, fp)
      BY <1>2, <1>3, <1>4
    <3> HIDE DEF b, fp, d
    <3>2. flush_upto(d, fp) = [hash |-> Run(b, fp), journal |-> <<>>]
      BY <3>1, FlushDue
    <3> QED BY <2>1, <3>2 DEF b, d
  <2>2. CASE ~tree
    <3>1. s.fold.hash = run /\ Len(s.fold.journal) = fp - fp
      BY <1>4, <2>2 DEF FoldAt
    <3>2. s.fold.journal \in Seq(JournalEntries) /\ Len(s.fold.journal) = 0
      BY <1>2, <3>1 DEF Folds
    <3>3. s.fold.journal = <<>>
      BY <3>2, EmptySeq
    <3>4. s.fold = [hash |-> s.fold.hash, journal |-> s.fold.journal]
      BY <1>2 DEF Folds
    <3> QED BY <2>2, <3>1, <3>3, <3>4
  <2> QED BY <2>1, <2>2
<1>9. run \in Seq(Int)
  <2> DEFINE b == rec.start
  <2>1. b \in Int /\ fp \in Int /\ b <= fp
    BY <1>2, <1>3, <1>4
  <2> HIDE DEF b, fp
  <2>2. Run(b, fp) \in Seq(Int)
    BY <2>1, RunFacts
  <2> QED BY <2>2 DEF b
<1>7. g = [s EXCEPT !.passes[k] = new, !.fold = f, !.pass_tail = (t + 1) % PASS_RING]
  <2>1. next_in_ring(k) = (t + 1) % PASS_RING
    <3>1. (k + 1) % PASS_RING = (t + 1) % PASS_RING
      BY <1>2, NextSlot
    <3> QED BY <3>1 DEF next_in_ring
  <2>2. [rec EXCEPT !.hash = run, !.done = TRUE] = new
    <3>1. rec.end_span = fp
      BY <1>4
    <3>2. run \in Seq(Int)
      BY <1>9
    <3> HIDE DEF rec, run, fp
    <3> QED BY <1>3, <3>1, <3>2, RecordDone DEF new
  <2>3. [[hash |-> run, journal |-> <<>>] EXCEPT !.hash = <<>>] = f
    OBVIOUS
  <2> DEFINE a == IF tree THEN flush_upto(s.fold, fp) ELSE s.fold
  <2>4. g = [s EXCEPT !.passes[k] = [rec EXCEPT !.hash = a.hash, !.done = TRUE],
                      !.fold = [a EXCEPT !.hash = <<>>], !.pass_tail = next_in_ring(k)]
    <3>1. /\ s.pass_tail = k /\ s.passes[s.pass_tail] = rec /\ s.pass_tail # s.pass_head
          /\ ~rec.done /\ rec.end_span # OPEN /\ rec.end_span <= s.fold_pos /\ rec.end_span = fp
      BY <1>1, <1>2, <1>4, <1>5
    <3>2. g = LET r == s.passes[s.pass_tail]
                  v == IF tree THEN flush_upto(s.fold, r.end_span) ELSE s.fold
              IN  [s EXCEPT !.passes[s.pass_tail] = [r EXCEPT !.hash = v.hash, !.done = TRUE],
                            !.fold = [v EXCEPT !.hash = <<>>], !.pass_tail = next_in_ring(@)]
      BY <3>1 DEF complete_one
    <3> HIDE DEF k, rec, fp
    <3> QED BY <3>1, <3>2
  <2>5. a = [hash |-> run, journal |-> <<>>] /\ a.hash = run
    BY <1>6
  <2> HIDE DEF a, rec, f, new, k, run
  <2> QED BY <2>1, <2>2, <2>3, <2>4, <2>5
<1>8. f \in Folds /\ FoldAt(tree, f, fp, fp)
  BY <1>2, FoldNew
<1>10. new \in PassRecords
  BY <1>2, <1>3, <1>9 DEF PassRecords
<1>11. (t + 1) % PASS_RING \in 0..(PASS_RING - 1)
  BY <1>2, DivMod
<1> HIDE DEF run, f
<1>12. g \in Sinks /\ g.passes = [s.passes EXCEPT ![k] = new] /\ g.fold = f
       /\ g.pass_tail = (t + 1) % PASS_RING
  <2> HIDE DEF new, k
  <2> DEFINE ps == [s.passes EXCEPT ![k] = new]
             pt == (t + 1) % PASS_RING
  <2>1. ps \in PassRings
    BY <1>2, <1>3, <1>10 DEF PassRings
  <2>2. g = [s EXCEPT !.passes = ps, !.fold = f, !.pass_tail = pt]
    BY <1>7
  <2> HIDE DEF ps
  <2>3. f \in Folds /\ pt \in PassSlots
    BY <1>8, <1>11 DEF PassSlots
  <2> HIDE DEF pt
  <2>4. g.passes = ps /\ g.fold = f /\ g.pass_tail = pt
    BY <2>2 DEF Sinks
  <2>5. g \in Sinks
    BY ZenonT(30), <2>1, <2>2, <2>3 DEF Sinks
  <2> QED BY <2>4, <2>5 DEF ps, pt
<1>13. /\ g.next_span = s.next_span /\ g.fold_pos = fp /\ g.pass_open = s.pass_open
       /\ g.pass_head = s.pass_head /\ g.harvest_pos = s.harvest_pos
  BY <1>7
<1>14. g.passes[k] = new /\ \A i \in 0..(PASS_RING - 1) : i # k => g.passes[i] = s.passes[i]
  <2> HIDE DEF new, k
  <2> QED BY <1>2, <1>3, <1>12 DEF PassRings
<1>15. ASSUME NEW i \in h..(p - 1), i # t PROVE Rec(g, i) = Rec(s, i)
  <2>1. i \in Nat /\ h <= i /\ i < h + PASS_RING /\ t < h + PASS_RING
    BY <1>1, <1>2
  <2>2. i % PASS_RING # k
    BY <1>1, <1>15, <2>1, RecApart
  <2>3. i % PASS_RING \in 0..(PASS_RING - 1)
    BY <1>2, <2>1, RecTypes
  <2> HIDE DEF k
  <2> QED BY <1>14, <2>2, <2>3 DEF Rec
<1>16. Passed(g, s)
  <2>1. g = [s EXCEPT !.passes = g.passes, !.fold = g.fold, !.pass_tail = g.pass_tail]
    <3> DEFINE ps == [s.passes EXCEPT ![k] = new]
               pt == (t + 1) % PASS_RING
    <3>1. g = [s EXCEPT !.passes = ps, !.fold = f, !.pass_tail = pt]
      BY <1>7
    <3>2. g.passes = ps /\ g.fold = f /\ g.pass_tail = pt
      BY <1>12
    <3> HIDE DEF ps, pt, new, k
    <3> QED BY <3>1, <3>2
  <2>2. new.start = rec.start /\ new.end_span = rec.end_span
    BY <1>4
  <2> HIDE DEF new, k
  <2> QED BY <1>14, <2>1, <2>2 DEF Passed
<1>17. PassState(tree, g, h, t + 1, p)
  <2> HIDE DEF new
  <2>1. PassRing(g, h, t + 1, p)
    <3>1. t + 1 \in Nat /\ h <= t + 1 /\ t + 1 <= p
      BY <1>1
    <3> QED BY <1>1, <1>12, <1>13, <3>1 DEF PassRing
  <2>2. \A i \in h..((t + 1) - 1) : Rec(g, i).done
    <3>1. ASSUME NEW i \in h..((t + 1) - 1) PROVE Rec(g, i).done
      <4>1. CASE i = t
        <5>1. Rec(g, i) = new
          BY <1>14, <4>1 DEF Rec
        <5> QED BY <5>1 DEF new
      <4>2. CASE i # t
        <5>1. i \in h..(p - 1) /\ i \in h..(t - 1)
          BY <4>2
        <5> QED BY <1>15, <4>2, <5>1 DEF PassState
      <4> QED BY <4>1, <4>2
    <3> QED BY <3>1
  <2>3. \A i \in (t + 1)..(p - 1) : Rec(g, i) = Rec(s, i) /\ i \in t..(p - 1)
    <3>1. ASSUME NEW i \in (t + 1)..(p - 1) PROVE Rec(g, i) = Rec(s, i) /\ i \in t..(p - 1)
      <4>1. i \in h..(p - 1) /\ i # t /\ i \in t..(p - 1)
        BY <1>1
      <4> QED BY <1>15, <4>1
    <3> QED BY <3>1
  <2>4. s.pass_open => t + 1 < p
    <3>1. ASSUME s.pass_open, t + 1 >= p PROVE FALSE
      <4>1. t = p - 1 /\ t \in t..(p - 1)
        BY <3>1
      <4>2. Rec(s, t).end_span = OPEN
        BY <3>1, <4>1 DEF PassState, PassChain
      <4> QED BY <1>2, <1>3, <1>4, <4>2
    <3> QED BY <3>1
  <2>5. PassChain(g, t + 1, p)
    <3>1. PassChain(s, t, p)
      BY DEF PassState
    <3>2. \A i \in (t + 1)..(p - 1) :
              /\ ~Rec(g, i).done /\ Rec(g, i).start <= g.next_span
              /\ Rec(g, i).end_span = OPEN <=> (g.pass_open /\ i = p - 1)
              /\ Rec(g, i).end_span # OPEN =>
                    Rec(g, i).start <= Rec(g, i).end_span /\ Rec(g, i).end_span <= g.next_span
      BY <1>13, <2>3, <3>1 DEF PassChain
    <3>3. \A i, j \in (t + 1)..(p - 1) : i < j => Rec(g, i).end_span <= Rec(g, j).start
      BY <2>3, <3>1 DEF PassChain
    <3>4. \A i \in (t + 1)..(p - 2) : Rec(g, i).end_span = Rec(g, i + 1).start
      <4>1. ASSUME NEW i \in (t + 1)..(p - 2) PROVE Rec(g, i).end_span = Rec(g, i + 1).start
        <5>1. i \in (t + 1)..(p - 1) /\ i + 1 \in (t + 1)..(p - 1) /\ i \in t..(p - 2)
          OBVIOUS
        <5> QED BY <2>3, <3>1, <5>1 DEF PassChain
      <4> QED BY <4>1
    <3>5. t + 1 < p /\ ~g.pass_open => Rec(g, p - 1).end_span = g.next_span
      <4>1. t + 1 < p => p - 1 \in (t + 1)..(p - 1) /\ t < p
        OBVIOUS
      <4> QED BY <1>13, <2>3, <3>1, <4>1 DEF PassChain
    <3> QED BY <1>13, <2>4, <3>2, <3>3, <3>4, <3>5 DEF PassChain
  <2>6. t + 1 < p => Rec(g, t + 1).start = fp
    <3>1. ASSUME t + 1 < p PROVE Rec(g, t + 1).start = fp
      <4>1. t \in t..(p - 2) /\ t + 1 \in (t + 1)..(p - 1)
        BY <3>1
      <4> QED BY <1>3, <1>4, <2>3, <4>1 DEF PassState, PassChain
    <3> QED BY <3>1
  <2>7. t + 1 = p => fp = s.next_span
    <3>1. ASSUME t + 1 = p PROVE fp = s.next_span
      <4>1. ~s.pass_open /\ p - 1 = t
        BY <2>4, <3>1
      <4>2. Rec(s, p - 1).end_span = s.next_span
        BY <4>1 DEF PassState, PassChain
      <4> QED BY <1>3, <1>4, <4>1, <4>2
    <3> QED BY <3>1
  <2>8. FoldInPass(g, t + 1, p)
    <3>1. g.fold_pos <= g.next_span
      BY <1>13 DEF PassState, FoldInPass
    <3>2. t + 1 < p => /\ Rec(g, t + 1).start <= g.fold_pos
                       /\ Rec(g, t + 1).end_span # OPEN => g.fold_pos <= Rec(g, t + 1).end_span
      <4>1. ASSUME t + 1 < p PROVE t + 1 \in (t + 1)..(p - 1)
        BY <4>1
      <4> QED BY <1>2, <1>13, <2>5, <2>6, <4>1 DEF PassChain
    <3> QED BY <1>13, <2>7, <3>1, <3>2 DEF FoldInPass
  <2>9. FoldAt(tree, g.fold, FoldStart(g, t + 1, p), g.fold_pos)
    <3>1. FoldStart(g, t + 1, p) = fp
      BY <1>13, <2>6 DEF FoldStart
    <3> QED BY <1>8, <1>12, <1>13, <3>1
  <2>10. PassesDone(g)
    <3>1. new.end_span # OPEN /\ new.hash = Run(new.start, new.end_span)
      BY <1>2 DEF new, OPEN, run
    <3> HIDE DEF k
    <3>2. PassesDone(s)
      BY DEF PassState
    <3>3. ASSUME NEW i \in 0..(PASS_RING - 1), g.passes[i].done
          PROVE  /\ g.passes[i].end_span # OPEN
                 /\ g.passes[i].hash = Run(g.passes[i].start, g.passes[i].end_span)
      <4>1. CASE i = k
        BY <1>14, <3>1, <4>1
      <4>2. CASE i # k
        BY <1>14, <3>2, <3>3, <4>2 DEF PassesDone
      <4> QED BY <4>1, <4>2
    <3> QED BY <3>3 DEF PassesDone
  <2> QED BY <2>1, <2>2, <2>5, <2>8, <2>9, <2>10 DEF PassState
<1>18. \A i \in t..((t + 1) - 1) : Rec(s, i).end_span <= fp
  <2>1. \A i \in t..((t + 1) - 1) : i = t
    OBVIOUS
  <2> QED BY <1>2, <1>3, <1>4, <2>1
<1>19. t + 1 \in t..p
  OBVIOUS
<1> QED BY <1>12, <1>16, <1>17, <1>18, <1>19 DEF Turned

\* A pass that is not due is left alone.
LEMMA CompleteNone ==
  ASSUME NEW tree \in BOOLEAN, NEW s \in Sinks, NEW h \in Nat, NEW t \in Nat, NEW p \in Nat,
         PassState(tree, s, h, t, p), ~(t < p /\ Rec(s, t).end_span = s.fold_pos)
  PROVE  NothingDue(s, t, p) /\ complete_one(tree, s) = s
<1>1. /\ t <= p /\ s.pass_tail = t % PASS_RING /\ s.pass_head = p % PASS_RING /\ FoldInPass(s, t, p)
  BY DEF PassState, PassRing
<1>2. CASE t = p
  BY <1>1, <1>2 DEF NothingDue, complete_one
<1>3. CASE t < p
  <2>1. Rec(s, t).end_span \in Nat \cup {OPEN} /\ s.fold_pos \in Nat
    BY SinkTypes, RecTypes
  <2>2. Rec(s, t).end_span # OPEN => s.fold_pos < Rec(s, t).end_span
    <3>1. Rec(s, t).end_span # OPEN => s.fold_pos <= Rec(s, t).end_span
      BY <1>1, <1>3 DEF FoldInPass
    <3> QED BY <1>3, <2>1, <3>1 DEF OPEN
  <2>3. s.passes[s.pass_tail] = Rec(s, t)
    BY <1>1 DEF Rec
  <2>4. ~(Rec(s, t).end_span # OPEN /\ Rec(s, t).end_span <= s.fold_pos)
    BY <2>1, <2>2 DEF OPEN
  <2>5. complete_one(tree, s) = s
    BY <2>3, <2>4 DEF complete_one
  <2> QED BY <2>2, <2>5 DEF NothingDue
<1> QED BY <1>1, <1>2, <1>3

\* The relation of a state and a later one, over one turn more.
LEMMA TurnMore ==
  ASSUME NEW tree \in BOOLEAN, NEW s \in Sinks, NEW h \in Nat, NEW t \in Nat, NEW p \in Nat,
         NEW u \in Nat, NEW g, Turned(tree, g, s, h, t, u, p),
         NEW k, Turned(tree, k, g, h, u, u + 1, p)
  PROVE  Turned(tree, k, s, h, t, u + 1, p)
<1>1. /\ k \in Sinks /\ PassState(tree, k, h, u + 1, p) /\ u \in t..p /\ u + 1 \in u..p
      /\ Passed(g, s) /\ Passed(k, g)
      /\ \A i \in t..(u - 1) : Rec(s, i).end_span <= s.fold_pos
      /\ Rec(g, u).end_span <= g.fold_pos
  <2>1. u \in u..((u + 1) - 1)
    OBVIOUS
  <2> QED BY <2>1 DEF Turned
<1>2. Passed(k, s)
  <2>1. k = [s EXCEPT !.passes = k.passes, !.fold = k.fold, !.pass_tail = k.pass_tail]
    BY <1>1 DEF Passed
  <2> QED BY <1>1, <2>1 DEF Passed
<1>3. Rec(s, u).end_span <= s.fold_pos
  <2>1. g.fold_pos = s.fold_pos
    BY <1>1, PassedSame
  <2>2. u % PASS_RING \in 0..(PASS_RING - 1)
    BY SinkTypes, RecTypes
  <2> QED BY <1>1, <2>1, <2>2 DEF Passed, Rec
<1>4. u + 1 \in t..p
  BY <1>1
<1>5. \A i \in t..((u + 1) - 1) : Rec(s, i).end_span <= s.fold_pos
  <2>1. \A i \in t..((u + 1) - 1) : i \in t..(u - 1) \/ i = u
    OBVIOUS
  <2> QED BY <1>1, <1>3, <2>1
<1> QED BY <1>1, <1>2, <1>4, <1>5 DEF Turned

\* No turn at all.
LEMMA TurnNone ==
  ASSUME NEW tree \in BOOLEAN, NEW s \in Sinks, NEW h \in Nat, NEW t \in Nat, NEW p \in Nat,
         PassState(tree, s, h, t, p)
  PROVE  Turned(tree, s, s, h, t, t, p)
<1>1. s = [s EXCEPT !.passes = s.passes, !.fold = s.fold, !.pass_tail = s.pass_tail]
  BY DEF Sinks
<1>2. t \in t..p
  BY DEF PassState, PassRing
<1> QED BY <1>1, <1>2 DEF Turned, Passed

\* complete_boundaries, turn by turn.
Turns(f, tree, s, V) ==
    /\ f \in [0..PASS_RING -> V] /\ f[0] = s /\ f[PASS_RING] = complete_boundaries(tree, s)
    /\ \A i \in 1..PASS_RING : f[i] = complete_one(tree, f[i - 1])

\* It has such turns in every set that is closed under them.
LEMMA TurnsExist ==
  ASSUME NEW tree \in BOOLEAN, NEW V, NEW s \in V, \A g \in V : complete_one(tree, g) \in V
  PROVE  \E f : Turns(f, tree, s, V)
<1> DEFINE n == PASS_RING
           q == [i \in 1..n |-> i]
           D == 1..n
           G == [g \in V |-> [i \in D |-> complete_one(tree, g)]]
           P(it) == it = [u \in SUBSET DOMAIN q |->
                            IF u = {} THEN s ELSE complete_one(tree, it[u \ {Max(u)}])]
           IT == CHOOSE it : P(it)
<1>0. n \in Nat /\ DOMAIN q = 1..n /\ q \in [1..n -> D]
  BY PassFoldAssumption
<1>1. complete_boundaries(tree, s) = IT[DOMAIN q]
  BY DEF complete_boundaries, FoldLeft, MapThenFoldSet
<1>2. G \in [V -> [D -> V]]
  OBVIOUS
<1>5. \A g \in V, i \in D : G[g][i] = complete_one(tree, g)
  OBVIOUS
<1> HIDE DEF G
<1>3. PICK it \in [SUBSET (1..n) -> V] : Solves(it, G, s, q, n)
  <2> HIDE DEF q, D, n
  <2> QED BY <1>0, <1>2, FoldExists
<1>4. ASSUME NEW u \in SUBSET (1..n), u # {}
      PROVE  Max(u) \in 1..n /\ u \ {Max(u)} \in SUBSET (1..n) /\ q[Max(u)] \in D
  <2>1. Max(u) \in u
    BY <1>0, <1>4, MaxOf
  <2> QED BY <1>0, <2>1
<1>6. P(it)
  <2>1. ASSUME NEW u \in SUBSET (1..n)
        PROVE  it[u] = IF u = {} THEN s ELSE complete_one(tree, it[u \ {Max(u)}])
    BY <1>3, <1>4, <1>5 DEF Solves
  <2> QED BY <1>0, <2>1
<1>7. P(IT)
  BY <1>6
<1> HIDE DEF IT
<1>8. Unwinds(IT, V, D, G, s, q, n)
  <2>1. IT[{}] = s
    BY <1>7
  <2>2. ASSUME NEW u \in SUBSET (1..n), u # {}, IT[u \ {Max(u)}] \in V
        PROVE  IT[u] = G[IT[u \ {Max(u)}]][q[Max(u)]]
    <3>1. IT[u] = complete_one(tree, IT[u \ {Max(u)}])
      BY <1>0, <1>7, <2>2
    <3> QED BY <1>4, <1>5, <2>2, <3>1
  <2> QED BY <1>0, <1>2, <2>1, <2>2 DEF Unwinds
<1>9. Reaches(V, G, s, q, n, IT[1..n])
  BY <1>8, FoldPrefixes
<1>10. PICK f \in [0..n -> V] : Follows(f, G, s, q, n) /\ f[n] = IT[1..n]
  BY <1>9 DEF Reaches
<1>11. ASSUME NEW i \in 1..n PROVE f[i] = complete_one(tree, f[i - 1])
  <2>1. f[i - 1] \in V /\ q[i] \in D
    BY <1>0, <1>10
  <2>2. f[i] = G[f[i - 1]][q[i]]
    BY <1>10 DEF Follows
  <2> QED BY <1>5, <2>1, <2>2
<1>12. f[0] = s
  BY <1>10 DEF Follows
<1>13. f[n] = complete_boundaries(tree, s)
  BY <1>0, <1>1, <1>10
<1> HIDE DEF q, D
<1>14. Turns(f, tree, s, V)
  BY <1>10, <1>11, <1>12, <1>13 DEF Turns
<1> QED BY <1>14

\* Every pass that is due is completed.
LEMMA CompleteBoundaries ==
  ASSUME NEW tree \in BOOLEAN, NEW s \in Sinks, NEW h \in Nat, NEW t \in Nat, NEW p \in Nat,
         PassState(tree, s, h, t, p), NEW g, g = complete_boundaries(tree, s)
  PROVE  \E u \in Nat : Turned(tree, g, s, h, t, u, p) /\ NothingDue(g, u, p)
<1> DEFINE V == {v \in Sinks : \E u \in Nat : Turned(tree, v, s, h, t, u, p)}
           R == PASS_RING
<1>1. s \in V
  BY TurnNone
<1>2. ASSUME NEW v \in Sinks, NEW u \in Nat, Turned(tree, v, s, h, t, u, p)
      PROVE  \/ NothingDue(v, u, p) /\ complete_one(tree, v) = v
             \/ Turned(tree, complete_one(tree, v), s, h, t, u + 1, p)
  <2>1. PassState(tree, v, h, u, p) /\ u <= p
    BY <1>2 DEF Turned
  <2>2. CASE u < p /\ Rec(v, u).end_span = v.fold_pos
    <3>1. Turned(tree, complete_one(tree, v), v, h, u, u + 1, p)
      BY <2>1, <2>2, CompleteDue
    <3> QED BY <1>2, <3>1, TurnMore
  <2>3. CASE ~(u < p /\ Rec(v, u).end_span = v.fold_pos)
    BY <2>1, <2>3, CompleteNone
  <2> QED BY <2>2, <2>3
<1>3. \A v \in V : complete_one(tree, v) \in V
  <2>1. ASSUME NEW v \in V PROVE complete_one(tree, v) \in V
    <3>1. PICK u \in Nat : Turned(tree, v, s, h, t, u, p)
      OBVIOUS
    <3>2. CASE complete_one(tree, v) = v
      BY <3>2
    <3>3. CASE Turned(tree, complete_one(tree, v), s, h, t, u + 1, p)
      <4>1. u + 1 \in Nat /\ complete_one(tree, v) \in Sinks
        BY <3>3 DEF Turned
      <4> QED BY <3>3, <4>1
    <3> QED BY <1>2, <3>1, <3>2, <3>3
  <2> QED BY <2>1
<1>4. PICK f : Turns(f, tree, s, V)
  <2> HIDE DEF V
  <2> QED BY <1>1, <1>3, TurnsExist
<1>5. R \in Nat /\ p < t + R /\ t <= p
  <2>1. h <= t /\ t <= p /\ p < h + PASS_RING
    BY DEF PassState, PassRing
  <2> QED BY <2>1, PassFoldAssumption
<1> DEFINE Reached(v, i) == \E u \in Nat : /\ Turned(tree, v, s, h, t, u, p)
                                           /\ NothingDue(v, u, p) \/ u >= t + i
           S == {i \in 0..R : Reached(f[i], i)}
<1> HIDE DEF R
<1>6. 0 \in S
  <2>1. Turned(tree, f[0], s, h, t, t, p)
    BY <1>4, TurnNone DEF Turns
  <2>2. t >= t + 0
    OBVIOUS
  <2> QED BY <1>5, <2>1, <2>2
<1>7. ASSUME NEW i \in 1..R, i - 1 \in S PROVE i \in S
  <2>1. PICK u \in Nat : Turned(tree, f[i - 1], s, h, t, u, p)
                         /\ (NothingDue(f[i - 1], u, p) \/ u >= t + (i - 1))
    BY <1>7
  <2>2. f[i] = complete_one(tree, f[i - 1]) /\ f[i - 1] \in Sinks
    <3>1. f[i] = complete_one(tree, f[i - 1])
      BY <1>4 DEF Turns, R
    <3> QED BY <2>1, <3>1 DEF Turned
  <2>3. CASE NothingDue(f[i - 1], u, p) /\ f[i] = f[i - 1]
    BY <2>1, <2>3
  <2>4. CASE Turned(tree, f[i], s, h, t, u + 1, p) /\ u >= t + (i - 1)
    <3>1. u + 1 \in Nat /\ u + 1 >= t + i
      BY <2>4
    <3> QED BY <2>4, <3>1
  <2>5. CASE NothingDue(f[i - 1], u, p) /\ ~(f[i] = f[i - 1])
    <3>1. ~(u < p /\ Rec(f[i - 1], u).end_span = f[i - 1].fold_pos)
      <4>1. f[i - 1].fold_pos \in Nat
        BY <2>2, SinkTypes
      <4> QED BY <2>5, <4>1 DEF NothingDue, OPEN
    <3>2. PassState(tree, f[i - 1], h, u, p)
      BY <2>1 DEF Turned
    <3> QED BY <2>2, <2>5, <3>1, <3>2, CompleteNone
  <2> QED BY <1>2, <2>1, <2>2, <2>3, <2>4, <2>5
<1>8. R \in S
  <2> HIDE DEF S
  <2>1. 0..R \subseteq S
    BY <1>5, <1>6, <1>7, Climb
  <2> QED BY <1>5, <2>1
<1>9. PICK u \in Nat : Turned(tree, f[R], s, h, t, u, p) /\ (NothingDue(f[R], u, p) \/ u >= t + R)
  BY <1>8
<1>10. f[R] = g
  BY <1>4 DEF Turns, R
<1>11. u <= p
  BY <1>9 DEF Turned
<1> QED BY <1>5, <1>9, <1>10, <1>11

-----------------------------------------------------------------------------
(* The core's calls, on the sink. *)

\* The fields the passes are about, and those the assist ring is about.
SamePasses(g, s) ==
    /\ g.passes = s.passes /\ g.pass_head = s.pass_head /\ g.pass_tail = s.pass_tail
    /\ g.harvest_pos = s.harvest_pos /\ g.pass_open = s.pass_open

SameAssist(g, s) ==
    /\ g.inline = s.inline /\ g.inline_seq = s.inline_seq
    /\ g.inline_fold_seq = s.inline_fold_seq

SameGrid(g, s) ==
    /\ g.next_span = s.next_span /\ g.submit_lane = s.submit_lane /\ g.submit_rem = s.submit_rem

SameFold(g, s) == g.fold = s.fold /\ g.fold_pos = s.fold_pos

SamePending(g, s) ==
    /\ g.pending_len = s.pending_len /\ g.cur_inline = s.cur_inline
    /\ g.pending_lane = s.pending_lane /\ g.pending_head = s.pending_head

\* The parts of the invariant under a change of other fields.
LEMMA PassStateSame ==
  ASSUME NEW tree, NEW s, NEW g, NEW h, NEW t, NEW p,
         SamePasses(g, s), SameFold(g, s), g.next_span = s.next_span
  PROVE  /\ PassState(tree, s, h, t, p) => PassState(tree, g, h, t, p)
         /\ NothingDue(s, t, p) => NothingDue(g, t, p)
<1>1. \A i : Rec(g, i) = Rec(s, i)
  BY DEF SamePasses, Rec
<1>2. PassRing(s, h, t, p) => PassRing(g, h, t, p)
  BY DEF SamePasses, PassRing
<1>3. PassChain(s, t, p) => PassChain(g, t, p)
  BY <1>1 DEF SamePasses, PassChain
<1>4. FoldInPass(s, t, p) => FoldInPass(g, t, p)
  BY <1>1 DEF SameFold, FoldInPass
<1>5. FoldStart(s, t, p) = FoldStart(g, t, p)
  BY <1>1 DEF SameFold, FoldStart
<1>6. PassesDone(s) => PassesDone(g)
  BY DEF SamePasses, PassesDone
<1>7. NothingDue(s, t, p) => NothingDue(g, t, p)
  BY <1>1 DEF SameFold, NothingDue
<1>8. PassState(tree, s, h, t, p) => PassState(tree, g, h, t, p)
  BY <1>1, <1>2, <1>3, <1>4, <1>5, <1>6 DEF PassState, SameFold
<1> QED BY <1>7, <1>8

\* The assist ring's parts.
LEMMA AssistSame ==
  ASSUME NEW s, NEW g, SameAssist(g, s)
  PROVE  /\ Held(g) = Held(s) /\ \A k : Chunk(g, k) = Chunk(s, k) /\ ChunkEnd(g, k) = ChunkEnd(s, k)
         /\ \A v : Inlined(g, v) = Inlined(s, v)
<1>1. Held(g) = Held(s) /\ \A k : Chunk(g, k) = Chunk(s, k) /\ ChunkEnd(g, k) = ChunkEnd(s, k)
  BY DEF SameAssist, Held, Chunk, ChunkEnd
<1>2. \A v : Inlined(g, v) = Inlined(s, v)
  BY <1>1 DEF Inlined
<1> QED BY <1>1, <1>2

\* The assist ring between two calls that leave the submission alone.
LEMMA AssistRingSame ==
  ASSUME NEW s, NEW g, SameAssist(g, s), g.next_span = s.next_span, g.fold_pos = s.fold_pos,
         g.cur_inline = s.cur_inline, g.pending_len = s.pending_len, AssistRing(s)
  PROVE  AssistRing(g)
<1>1. Held(g) = Held(s) /\ \A k : Chunk(g, k) = Chunk(s, k) /\ ChunkEnd(g, k) = ChunkEnd(s, k)
  BY AssistSame
<1> QED BY <1>1 DEF AssistRing, SameAssist

\* The calls that only move the core on.
LEMMA CoreStep ==
  ASSUME NEW tree, NEW s, CoreOk(tree, s),
         NEW a \in {"idle", "claim", "fold"}, NEW b \in {"idle", "claim", "finish"},
         a \in {"idle", "claim"} => b = "idle",
         a = "claim" \/ b = "claim" => s.pass_open,
         s.ret # "finish" \/ b = "finish" \/ s.fold_pos = s.next_span,
         NEW g, g = [s EXCEPT !.pc = a, !.ret = b]
  PROVE  CoreOk(tree, g)
<1>1. PICK h \in Nat, t \in Nat, p \in Nat : CoreAt(tree, s, h, t, p)
  BY DEF CoreOk
<1>2. s \in Sinks /\ GridAt(s) /\ AssistRing(s)
  BY DEF CoreOk
<1>3. g \in Sinks /\ g.pc = a /\ g.ret = b
  BY <1>2 DEF Sinks, CorePcs
<1>4. /\ SamePasses(g, s) /\ SameAssist(g, s) /\ SameGrid(g, s) /\ SameFold(g, s) /\ SamePending(g, s)
  BY <1>2 DEF Sinks, SamePasses, SameAssist, SameGrid, SameFold, SamePending
<1>5. GridAt(g)
  BY <1>2, <1>3, <1>4 DEF GridAt, SameGrid, SamePending, SamePasses
<1>6. AssistRing(g)
  BY <1>2, <1>4, AssistRingSame DEF SameGrid, SameFold, SamePending
<1>7. PassState(tree, g, h, t, p) /\ NothingDue(g, t, p)
  BY <1>1, <1>4, PassStateSame DEF CoreAt, SameGrid
<1>8. AssistPasses(g, t, p)
  BY <1>1, <1>4, AssistSame DEF CoreAt, AssistPasses, SamePasses, SameFold, Rec, PassEnd
<1>9. NextOpens(g, t, p)
  <2>1. s.fold_pos \in Nat
    BY <1>2 DEF Sinks
  <2> QED BY <1>1, <1>3, <1>4, <2>1 DEF CoreAt, NextOpens, SamePasses, SameFold, SameGrid, SamePending, Rec, PassEnd
<1> QED BY <1>3, <1>5, <1>6, <1>7, <1>8, <1>9 DEF CoreOk, CoreAt

\* What finish starts from: what was pending is published, wherever that leaves the grid.
CoreMost(tree, s) ==
    /\ s \in Sinks /\ GridAt(s) /\ AssistRing(s)
    /\ \E h, t, p \in Nat : PassState(tree, s, h, t, p) /\ NothingDue(s, t, p) /\ AssistPasses(s, t, p)

\* The loop of finish begins.
LEMMA CoreFinish ==
  ASSUME NEW tree, NEW s, CoreMost(tree, s), NEW g, g = [s EXCEPT !.pc = "fold", !.ret = "finish"]
  PROVE  CoreOk(tree, g)
<1>1. s \in Sinks /\ GridAt(s) /\ AssistRing(s)
  BY DEF CoreMost
<1>2. PICK h \in Nat, t \in Nat, p \in Nat :
        PassState(tree, s, h, t, p) /\ NothingDue(s, t, p) /\ AssistPasses(s, t, p)
  BY DEF CoreMost
<1>3. g \in Sinks /\ g.pc = "fold" /\ g.ret = "finish"
  BY <1>1 DEF Sinks, CorePcs
<1>4. /\ SamePasses(g, s) /\ SameAssist(g, s) /\ SameGrid(g, s) /\ SameFold(g, s) /\ SamePending(g, s)
  BY <1>1 DEF Sinks, SamePasses, SameAssist, SameGrid, SameFold, SamePending
<1>5. GridAt(g)
  BY <1>1, <1>3, <1>4 DEF GridAt, SameGrid
<1>6. AssistRing(g)
  BY <1>1, <1>4, AssistRingSame DEF SameGrid, SameFold, SamePending
<1>7. PassState(tree, g, h, t, p) /\ NothingDue(g, t, p)
  BY <1>2, <1>4, PassStateSame DEF SameGrid
<1>8. AssistPasses(g, t, p)
  BY <1>2, <1>4, AssistSame DEF AssistPasses, SamePasses, SameFold, Rec, PassEnd
<1>9. NextOpens(g, t, p)
  BY <1>3 DEF NextOpens
<1> QED BY <1>3, <1>5, <1>6, <1>7, <1>8, <1>9 DEF CoreOk, CoreAt

\* complete_boundaries brings the invariant back.
LEMMA CompleteMost ==
  ASSUME NEW tree \in BOOLEAN, NEW s \in Sinks, GridAt(s), AssistRing(s),
         NEW h \in Nat, NEW t \in Nat, NEW p \in Nat,
         PassState(tree, s, h, t, p), AssistPasses(s, t, p),
         NEW g, g = complete_boundaries(tree, s)
  PROVE  /\ CoreMost(tree, g) /\ Passed(g, s)
         /\ NextOpens(s, t, p) => CoreOk(tree, g)
<1>1. PICK u \in Nat : Turned(tree, g, s, h, t, u, p) /\ NothingDue(g, u, p)
  BY CompleteBoundaries
<1>2. /\ g \in Sinks /\ Passed(g, s) /\ u \in t..p /\ PassState(tree, g, h, u, p)
      /\ \A i \in t..(u - 1) : Rec(s, i).end_span <= s.fold_pos
  BY <1>1 DEF Turned
<1>3. /\ SameAssist(g, s) /\ SameGrid(g, s) /\ SamePending(g, s) /\ g.fold_pos = s.fold_pos
      /\ g.pass_open = s.pass_open /\ g.pc = s.pc /\ g.ret = s.ret
  BY <1>2, PassedSame DEF SameAssist, SameGrid, SamePending
<1>4. GridAt(g)
  BY <1>3 DEF GridAt, SameGrid, SamePending
<1>5. AssistRing(g)
  BY <1>3, AssistRingSame DEF SameGrid, SamePending
<1>6. \A i \in Nat : Rec(g, i).end_span = Rec(s, i).end_span
  <2>1. ASSUME NEW i \in Nat PROVE i % PASS_RING \in 0..(PASS_RING - 1)
    BY SinkTypes, RecTypes
  <2> QED BY <1>2, <2>1 DEF Passed, Rec
<1>7. \A i \in t..(p - 1) : i \in Nat /\ (i \in u..(p - 1) \/ i \in t..(u - 1))
  BY <1>2
<1>8. ASSUME NEW v \in Nat, v > s.fold_pos, PassEnd(s, t, p, v)
      PROVE  PassEnd(g, u, p, v)
  <2>1. PICK i \in t..(p - 1) : Rec(s, i).end_span # OPEN /\ Rec(s, i).end_span = v
    BY <1>8 DEF PassEnd
  <2>2. s.fold_pos \in Nat
    BY DEF Sinks
  <2>3. i \notin t..(u - 1)
    BY <1>2, <1>8, <2>1, <2>2
  <2>4. i \in u..(p - 1) /\ i \in Nat
    BY <1>7, <2>3
  <2>5. Rec(g, i).end_span # OPEN /\ Rec(g, i).end_span = v
    BY <1>6, <2>1, <2>4
  <2> QED BY <2>4, <2>5 DEF PassEnd
<1>9. Held(g) = Held(s) /\ \A k : Chunk(g, k) = Chunk(s, k) /\ ChunkEnd(g, k) = ChunkEnd(s, k)
  BY <1>3, AssistSame
<1>10. AssistPasses(g, u, p)
  <2> SUFFICES ASSUME NEW k \in Held(s)
               PROVE  /\ \A i \in u..(p - 1) : Rec(g, i).end_span # OPEN =>
                            \/ Rec(g, i).end_span <= Chunk(s, k).first_span
                            \/ Chunk(s, k).sealed /\ ChunkEnd(s, k) <= Rec(g, i).end_span
                      /\ Chunk(s, k).first_span > s.fold_pos =>
                            Chunk(s, k).first_span % CHUNK = 0 \/ PassEnd(g, u, p, Chunk(s, k).first_span)
    BY <1>3, <1>9 DEF AssistPasses
  <2>1. \A i \in u..(p - 1) : i \in t..(p - 1) /\ i \in Nat
    BY <1>2
  <2>2. Chunk(s, k).first_span \in Nat
    BY DEF AssistRing
  <2> QED BY <1>6, <1>8, <2>1, <2>2 DEF AssistPasses
<1>11. NextOpens(s, t, p) => NextOpens(g, u, p)
  <2>1. s.next_span \in Nat
    BY DEF Sinks
  <2> QED BY <1>3, <1>8, <2>1 DEF NextOpens, SameGrid, SamePending
<1>12. CoreMost(tree, g)
  BY <1>1, <1>2, <1>4, <1>5, <1>10 DEF CoreMost
<1> QED BY <1>1, <1>2, <1>4, <1>5, <1>10, <1>11, <1>12 DEF CoreOk, CoreAt

\* Also in the shape the calls need.
LEMMA CoreComplete ==
  ASSUME NEW tree \in BOOLEAN, NEW s \in Sinks, GridAt(s), AssistRing(s),
         NEW h \in Nat, NEW t \in Nat, NEW p \in Nat,
         PassState(tree, s, h, t, p), AssistPasses(s, t, p), NextOpens(s, t, p),
         NEW g, g = complete_boundaries(tree, s)
  PROVE  CoreOk(tree, g) /\ Passed(g, s)
  BY CompleteMost

\* The fields the assist ring is about.
LEMMA AssistTypes ==
  ASSUME NEW s \in Sinks
  PROVE  /\ s.inline \in [0..(ASSIST_SLOTS - 1) -> Chunks] /\ s.inline_seq \in Nat
         /\ s.inline_fold_seq \in Nat /\ s.cur_inline \in (0..(ASSIST_SLOTS - 1)) \cup {None}
         /\ s.next_span \in Nat /\ s.fold_pos \in Nat /\ s.pending_len \in Nat
         /\ s.submit_rem \in 1..CHUNK /\ s.submit_lane \in Lanes /\ s.pass_open \in BOOLEAN
         /\ ASSIST_SLOTS \in Nat \ {0, 1}
  BY PassFoldAssumption DEF Sinks, AssistRings, InlineSlots, ChunkRems

\* A chunk of the ring.
LEMMA ChunkTypes ==
  ASSUME NEW s \in Sinks, NEW k \in Nat
  PROVE  /\ k % ASSIST_SLOTS \in 0..(ASSIST_SLOTS - 1)
         /\ Chunk(s, k) \in Chunks /\ Chunk(s, k).vals \in Seq(Int)
         /\ Chunk(s, k).first_span \in Nat \cup {None} /\ Len(Chunk(s, k).vals) \in Nat
<1>1. k % ASSIST_SLOTS \in 0..(ASSIST_SLOTS - 1)
  <2>1. ASSIST_SLOTS \in Nat \ {0}
    BY PassFoldAssumption
  <2> QED BY <2>1, DivMod
<1>2. Chunk(s, k) \in Chunks
  BY <1>1, AssistTypes DEF Chunk
<1> QED BY <1>1, <1>2 DEF Chunks

\* Chunks with the same spans, whether sealed or not.
SameChunks(g, s) ==
    /\ g.inline_seq = s.inline_seq /\ g.inline_fold_seq = s.inline_fold_seq
    /\ \A j \in 0..(ASSIST_SLOTS - 1) : /\ g.inline[j].first_span = s.inline[j].first_span
                                        /\ g.inline[j].vals = s.inline[j].vals

\* They hold the same spans.
LEMMA ChunksSame ==
  ASSUME NEW s \in Sinks, NEW g, SameChunks(g, s)
  PROVE  /\ Held(g) = Held(s)
         /\ \A k \in Nat : /\ Chunk(g, k).first_span = Chunk(s, k).first_span
                           /\ Chunk(g, k).vals = Chunk(s, k).vals /\ ChunkEnd(g, k) = ChunkEnd(s, k)
         /\ \A v : Inlined(g, v) <=> Inlined(s, v)
<1>1. Held(g) = Held(s) /\ \A k \in Held(s) : k \in Nat
  BY AssistTypes DEF SameChunks, Held
<1>2. ASSUME NEW k \in Nat
      PROVE  /\ Chunk(g, k).first_span = Chunk(s, k).first_span
             /\ Chunk(g, k).vals = Chunk(s, k).vals /\ ChunkEnd(g, k) = ChunkEnd(s, k)
  BY ChunkTypes DEF SameChunks, Chunk, ChunkEnd
<1>3. \A v : Inlined(g, v) <=> Inlined(s, v)
  BY <1>1, <1>2 DEF Inlined
<1> QED BY <1>1, <1>2, <1>3

\* flush_pending: the open chunk is sealed or published.
LEMMA FlushSink ==
  ASSUME NEW tree, NEW s \in Sinks, GridAt(s), AssistRing(s), NEW h, NEW t, NEW p,
         PassState(tree, s, h, t, p), AssistPasses(s, t, p), NEW g, g = flush_sink(s)
  PROVE  /\ g \in Sinks /\ GridAt(g) /\ AssistRing(g)
         /\ PassState(tree, g, h, t, p) /\ AssistPasses(g, t, p)
         /\ g.pending_len = 0 /\ g.cur_inline = None
         /\ SameGrid(g, s) /\ SamePasses(g, s) /\ SameFold(g, s) /\ SameChunks(g, s)
         /\ g.pc = s.pc /\ g.ret = s.ret /\ g.pending_lane = s.pending_lane
<1> DEFINE c == s.cur_inline
           ring == IF c # None THEN [s.inline EXCEPT ![c].sealed = TRUE] ELSE s.inline
<1>1. /\ s.inline \in [0..(ASSIST_SLOTS - 1) -> Chunks] /\ c \in (0..(ASSIST_SLOTS - 1)) \cup {None}
      /\ s.inline_seq \in Nat /\ s.inline_fold_seq \in Nat
  BY AssistTypes
<1>2. ring \in [0..(ASSIST_SLOTS - 1) -> Chunks]
  BY <1>1 DEF Chunks
<1>3. \A j \in 0..(ASSIST_SLOTS - 1) :
          /\ ring[j].first_span = s.inline[j].first_span /\ ring[j].vals = s.inline[j].vals
          /\ ring[j].sealed = IF j = c THEN TRUE ELSE s.inline[j].sealed
  <2>1. c = None => \A j \in 0..(ASSIST_SLOTS - 1) : j # c
    BY DEF None
  <2>2. CASE c = None
    BY <2>1, <2>2
  <2>3. CASE c # None
    <3> DEFINE x == [s.inline[c] EXCEPT !.sealed = TRUE]
    <3>1. s.inline[c] \in Chunks /\ c \in 0..(ASSIST_SLOTS - 1)
      BY <1>1, <2>3
    <3>2. x.first_span = s.inline[c].first_span /\ x.vals = s.inline[c].vals /\ x.sealed = TRUE
      BY <3>1 DEF Chunks
    <3>3. ring = [s.inline EXCEPT ![c] = x]
      BY <2>3
    <3> HIDE DEF x, ring, c
    <3> QED BY <1>1, <3>1, <3>2, <3>3
  <2> QED BY <2>2, <2>3
<1> HIDE DEF ring
<1>4. g = [s EXCEPT !.inline = ring, !.cur_inline = None, !.pending_len = 0]
  <2>1. CASE c # None
    <3>1. ring = [s.inline EXCEPT ![c].sealed = TRUE]
      BY <2>1 DEF ring
    <3> QED BY <2>1, <3>1 DEF flush_sink, sealed
  <2>2. CASE c = None
    <3>1. ring = s.inline
      BY <2>2 DEF ring
    <3>2. s = [s EXCEPT !.inline = s.inline, !.cur_inline = None]
      BY <2>2 DEF Sinks
    <3>3. g = [s EXCEPT !.pending_len = 0]
      BY <2>2 DEF flush_sink
    <3> QED BY <2>2, <3>1, <3>3 DEF Sinks
  <2> QED BY <2>1, <2>2
<1>5. g \in Sinks /\ g.inline = ring /\ g.cur_inline = None /\ g.pending_len = 0
  <2>1. None \in InlineSlots /\ ring \in AssistRings /\ 0 \in Nat
    BY <1>2 DEF InlineSlots, AssistRings
  <2>2. g.inline = ring /\ g.cur_inline = None /\ g.pending_len = 0
    BY <1>4 DEF Sinks
  <2>3. g \in Sinks
    BY ZenonT(30), <1>4, <2>1 DEF Sinks
  <2> QED BY <2>2, <2>3
<1>6. /\ SameGrid(g, s) /\ SamePasses(g, s) /\ SameFold(g, s)
      /\ g.inline_seq = s.inline_seq /\ g.inline_fold_seq = s.inline_fold_seq
      /\ g.pc = s.pc /\ g.ret = s.ret /\ g.pending_lane = s.pending_lane
  BY <1>4 DEF Sinks, SameGrid, SamePasses, SameFold
<1>7. SameChunks(g, s)
  BY <1>3, <1>5, <1>6 DEF SameChunks
<1>8. /\ Held(g) = Held(s) /\ \A k \in Held(s) : k \in Nat
      /\ \A k \in Nat : /\ Chunk(g, k).first_span = Chunk(s, k).first_span
                        /\ Chunk(g, k).vals = Chunk(s, k).vals /\ ChunkEnd(g, k) = ChunkEnd(s, k)
  BY <1>1, <1>7, ChunksSame DEF Held
<1>9. GridAt(g)
  BY <1>5, <1>6 DEF GridAt, SameGrid, SamePasses
<1>10. ASSUME NEW k \in Held(s) PROVE Chunk(g, k).sealed
  <2>1. k % ASSIST_SLOTS \in 0..(ASSIST_SLOTS - 1)
    BY <1>8, ChunkTypes
  <2>2. CASE k % ASSIST_SLOTS = c
    BY <1>3, <1>5, <2>1, <2>2 DEF Chunk
  <2>3. CASE k % ASSIST_SLOTS # c
    <3>1. Chunk(s, k).sealed
      BY <2>3 DEF AssistRing
    <3> QED BY <1>3, <1>5, <2>1, <2>3, <3>1 DEF Chunk
  <2> QED BY <2>2, <2>3
<1>11. AssistRing(g)
  BY <1>5, <1>6, <1>8, <1>10 DEF AssistRing, SameGrid, SameFold
<1>12. PassState(tree, g, h, t, p)
  BY <1>6, PassStateSame DEF SameGrid
<1>13. AssistPasses(g, t, p)
  BY <1>6, <1>8, <1>10 DEF AssistPasses, SamePasses, SameFold, Rec, PassEnd
<1> QED BY <1>5, <1>6, <1>7, <1>9, <1>11, <1>12, <1>13

\* One record changed.
OneRecord(g, s, h, i, rec) ==
    /\ g.passes \in PassRings /\ Rec(g, i) = rec
    /\ \A j \in Nat : h <= j /\ j < h + PASS_RING /\ j # i => Rec(g, j) = Rec(s, j)
    /\ \A j \in PassSlots : g.passes[j] = IF j = i % PASS_RING THEN rec ELSE s.passes[j]

\* The others are apart from it.
LEMMA OtherRecords ==
  ASSUME NEW s \in Sinks, NEW h \in Nat, NEW i \in Nat, h <= i, i < h + PASS_RING,
         NEW rec \in PassRecords, NEW g, g.passes = [s.passes EXCEPT ![i % PASS_RING] = rec]
  PROVE  OneRecord(g, s, h, i, rec)
<1> DEFINE k == i % PASS_RING
<1>1. s.passes \in PassRings /\ k \in 0..(PASS_RING - 1)
  BY SinkTypes, RecTypes
<1>2. ASSUME NEW j \in Nat, h <= j, j < h + PASS_RING, j # i
      PROVE  j % PASS_RING # k /\ j % PASS_RING \in 0..(PASS_RING - 1)
  BY <1>1, <1>2, RecApart, RecTypes
<1> HIDE DEF k
<1>3. g.passes = [s.passes EXCEPT ![k] = rec]
  BY DEF k
<1>4. g.passes \in PassRings /\ g.passes[k] = rec
      /\ \A j \in 0..(PASS_RING - 1) : j # k => g.passes[j] = s.passes[j]
  BY <1>1, <1>3 DEF PassRings
<1>5. \A j \in Nat : h <= j /\ j < h + PASS_RING /\ j # i => Rec(g, j) = Rec(s, j)
  BY <1>2, <1>4 DEF Rec
<1>6. Rec(g, i) = rec
  BY <1>4 DEF Rec, k
<1> QED BY <1>4, <1>5, <1>6 DEF k, PassSlots, OneRecord

\* end_pass, after flush_pending.
LEMMA EndRecord ==
  ASSUME NEW tree, NEW s \in Sinks, GridAt(s), AssistRing(s),
         NEW h \in Nat, NEW t \in Nat, NEW p \in Nat,
         PassState(tree, s, h, t, p), AssistPasses(s, t, p), s.pass_open, s.pc = "idle",
         s.cur_inline = None, NEW g, g = end_record(s)
  PROVE  /\ g \in Sinks /\ GridAt(g) /\ AssistRing(g)
         /\ PassState(tree, g, h, t, p) /\ AssistPasses(g, t, p) /\ NextOpens(g, t, p)
         /\ SameAssist(g, s) /\ SameGrid(g, s) /\ SameFold(g, s) /\ SamePending(g, s)
<1> DEFINE q == p - 1
           old == Rec(s, q)
           rec == [old EXCEPT !.end_span = s.next_span]
           ps == [s.passes EXCEPT ![q % PASS_RING] = rec]
<1>1. /\ h <= t /\ t < p /\ p < h + PASS_RING /\ s.pass_head = p % PASS_RING
      /\ PassRing(s, h, t, p) /\ PassChain(s, t, p) /\ FoldInPass(s, t, p) /\ PassesDone(s)
      /\ FoldAt(tree, s.fold, FoldStart(s, t, p), s.fold_pos)
      /\ \A i \in h..(t - 1) : Rec(s, i).done
  BY DEF PassState, PassRing, PassChain
<1>2. q \in Nat /\ q \in t..(p - 1) /\ h <= q /\ q < h + PASS_RING /\ p \in Nat \ {0}
  BY <1>1, SinkTypes
<1>3. /\ s.next_span \in Nat /\ s.fold \in Folds /\ s.fold_pos \in Nat /\ s.passes \in PassRings
      /\ PASS_RING \in Nat \ {0}
  BY SinkTypes
<1>4. /\ old \in PassRecords /\ ~old.done /\ old.start <= s.next_span /\ old.end_span = OPEN
      /\ old.start \in Nat
  BY <1>1, <1>2, <1>3, RecTypes DEF PassChain
<1>5. /\ rec \in PassRecords /\ rec.start = old.start /\ rec.end_span = s.next_span /\ ~rec.done
  <2> HIDE DEF old
  <2> QED BY <1>3, <1>4 DEF PassRecords
<1>6. g = [s EXCEPT !.passes = ps, !.pass_open = FALSE]
  <2>1. (s.pass_head + PASS_RING - 1) % PASS_RING = q % PASS_RING
    BY <1>1, <1>2, <1>3, LastSlot
  <2> DEFINE k == q % PASS_RING
  <2>2. g = [s EXCEPT !.passes = [s.passes EXCEPT ![k] = [s.passes[k] EXCEPT !.end_span = s.next_span]],
                      !.pass_open = FALSE]
    BY <2>1 DEF end_record
  <2> QED BY <2>2 DEF Rec
<1> HIDE DEF rec, old
<1>7. ps \in PassRings
  <2> DEFINE v == [passes |-> ps]
  <2>1. v.passes = ps
    OBVIOUS
  <2> HIDE DEF v
  <2>2. OneRecord(v, s, h, q, rec)
    BY <1>2, <1>5, <2>1, OtherRecords
  <2> QED BY <2>1, <2>2 DEF OneRecord
<1> HIDE DEF ps
<1>8. g \in Sinks /\ g.passes = ps /\ g.pass_open = FALSE
  <2>1. g.passes = ps /\ g.pass_open = FALSE
    BY <1>6 DEF Sinks
  <2>2. g \in Sinks
    BY ZenonT(30), <1>6, <1>7 DEF Sinks
  <2> QED BY <2>1, <2>2
<1>9. /\ SameAssist(g, s) /\ SameGrid(g, s) /\ SameFold(g, s) /\ SamePending(g, s)
      /\ g.pass_head = s.pass_head /\ g.pass_tail = s.pass_tail /\ g.harvest_pos = s.harvest_pos
      /\ g.pc = s.pc /\ g.ret = s.ret
  BY <1>6 DEF Sinks, SameAssist, SameGrid, SameFold, SamePending
<1>10. /\ Rec(g, q) = rec
       /\ \A j \in Nat : h <= j /\ j < h + PASS_RING /\ j # q => Rec(g, j) = Rec(s, j)
       /\ \A j \in PassSlots : g.passes[j] = IF j = q % PASS_RING THEN rec ELSE s.passes[j]
  <2>1. g.passes = [s.passes EXCEPT ![q % PASS_RING] = rec]
    BY <1>8 DEF ps
  <2>2. q \in Nat /\ h <= q /\ q < h + PASS_RING /\ rec \in PassRecords
    BY <1>2, <1>5
  <2> HIDE DEF q
  <2>3. OneRecord(g, s, h, q, rec)
    BY <2>1, <2>2, OtherRecords
  <2> QED BY <2>3 DEF OneRecord
<1>11. \A j \in h..(p - 1) : j # q => Rec(g, j) = Rec(s, j)
  <2>1. \A j \in h..(p - 1) : j \in Nat /\ h <= j /\ j < h + PASS_RING
    BY <1>1, <1>3
  <2> QED BY <1>10, <2>1
<1>12. GridAt(g)
  <2>1. s.ret = "idle"
    BY DEF GridAt
  <2> QED BY <1>9, <2>1 DEF GridAt, SameGrid, SamePending
<1>13. AssistRing(g)
  BY <1>9, AssistRingSame DEF SameGrid, SameFold, SamePending
<1>14. \A j \in t..(p - 1) : Rec(g, j).start = Rec(s, j).start /\ ~Rec(g, j).done
       /\ Rec(g, j).end_span = IF j = q THEN s.next_span ELSE Rec(s, j).end_span
  <2>1. ASSUME NEW j \in t..(p - 1)
        PROVE  /\ Rec(g, j).start = Rec(s, j).start /\ ~Rec(g, j).done
               /\ Rec(g, j).end_span = IF j = q THEN s.next_span ELSE Rec(s, j).end_span
    <3>1. CASE j = q
      BY <1>5, <1>10, <3>1 DEF old
    <3>2. CASE j # q
      <4>1. j \in h..(p - 1) /\ ~Rec(s, j).done
        BY <1>1 DEF PassChain
      <4> QED BY <1>11, <3>2, <4>1
    <3> QED BY <3>1, <3>2
  <2> QED BY <2>1
<1>15. PassChain(g, t, p)
  <2>1. g.next_span = s.next_span
    BY <1>9 DEF SameGrid
  <2>2. ASSUME NEW i \in t..(p - 1)
        PROVE  /\ ~Rec(g, i).done /\ Rec(g, i).start <= g.next_span
               /\ Rec(g, i).end_span = OPEN <=> (g.pass_open /\ i = p - 1)
               /\ Rec(g, i).end_span # OPEN =>
                     Rec(g, i).start <= Rec(g, i).end_span /\ Rec(g, i).end_span <= g.next_span
    <3>1. CASE i = q
      BY <1>3, <1>4, <1>8, <1>14, <2>1, <3>1 DEF OPEN, old
    <3>2. CASE i # q
      BY <1>1, <1>8, <1>14, <2>1, <3>2 DEF PassChain
    <3> QED BY <3>1, <3>2
  <2>3. ASSUME NEW i \in t..(p - 1), NEW j \in t..(p - 1), i < j
        PROVE  Rec(g, i).end_span <= Rec(g, j).start
    <3>1. i # q
      BY <2>3
    <3> QED BY <1>1, <1>14, <2>3, <3>1 DEF PassChain
  <2>4. ASSUME NEW i \in t..(p - 2) PROVE Rec(g, i).end_span = Rec(g, i + 1).start
    <3>1. i \in t..(p - 1) /\ i + 1 \in t..(p - 1) /\ i # q
      OBVIOUS
    <3> QED BY <1>1, <1>14, <3>1 DEF PassChain
  <2>5. Rec(g, p - 1).end_span = g.next_span
    BY <1>2, <1>14, <2>1
  <2> QED BY <1>1, <1>8, <2>2, <2>3, <2>4, <2>5 DEF PassChain
<1>16. FoldInPass(g, t, p) /\ FoldStart(g, t, p) = FoldStart(s, t, p)
  <2>1. t \in t..(p - 1)
    BY <1>1
  <2>2. t = q => s.fold_pos <= s.next_span
    BY <1>1 DEF FoldInPass
  <2> QED BY <1>1, <1>9, <1>14, <2>1, <2>2 DEF FoldInPass, FoldStart, SameGrid, SameFold
<1>17. PassesDone(g)
  BY <1>1, <1>5, <1>10 DEF PassesDone, PassSlots
<1>18. PassRing(g, h, t, p)
  BY <1>1, <1>9 DEF PassRing
<1>19. \A i \in h..(t - 1) : Rec(g, i).done
  <2>1. \A i \in h..(t - 1) : i \in h..(p - 1) /\ i # q
    BY <1>1
  <2> QED BY <1>1, <1>11, <2>1
<1>20. PassState(tree, g, h, t, p)
  BY <1>1, <1>9, <1>15, <1>16, <1>17, <1>18, <1>19 DEF PassState, SameFold
<1>21. \A v : PassEnd(s, t, p, v) => PassEnd(g, t, p, v)
  <2>1. ASSUME NEW v, NEW i \in t..(p - 1), Rec(s, i).end_span # OPEN, Rec(s, i).end_span = v
        PROVE  PassEnd(g, t, p, v)
    <3>1. i # q
      BY <1>4, <2>1 DEF old
    <3> QED BY <1>14, <2>1, <3>1 DEF PassEnd
  <2> QED BY <2>1 DEF PassEnd
<1>22. PassEnd(g, t, p, s.next_span)
  <2>1. Rec(g, q).end_span = s.next_span /\ s.next_span # OPEN
    BY <1>2, <1>3, <1>14 DEF OPEN
  <2> QED BY <1>2, <2>1 DEF PassEnd
<1>23. AssistPasses(g, t, p)
  <2>1. Held(g) = Held(s) /\ \A k : Chunk(g, k) = Chunk(s, k) /\ ChunkEnd(g, k) = ChunkEnd(s, k)
    BY <1>9, AssistSame
  <2>2. ASSUME NEW k \in Held(s), NEW i \in t..(p - 1), Rec(g, i).end_span # OPEN
        PROVE  \/ Rec(g, i).end_span <= Chunk(s, k).first_span
               \/ Chunk(s, k).sealed /\ ChunkEnd(s, k) <= Rec(g, i).end_span
    <3>1. CASE i = q
      <4>1. ChunkEnd(s, k) <= s.next_span /\ Chunk(s, k).sealed
        BY DEF AssistRing
      <4> QED BY <1>14, <3>1, <4>1
    <3>2. CASE i # q
      BY <1>14, <2>2, <3>2 DEF AssistPasses
    <3> QED BY <3>1, <3>2
  <2>3. ASSUME NEW k \in Held(s), Chunk(s, k).first_span > g.fold_pos
        PROVE  Chunk(s, k).first_span % CHUNK = 0 \/ PassEnd(g, t, p, Chunk(s, k).first_span)
    BY <1>9, <1>21, <2>3 DEF AssistPasses, SameFold
  <2> QED BY <2>1, <2>2, <2>3 DEF AssistPasses
<1>24. NextOpens(g, t, p)
  BY <1>9, <1>22 DEF NextOpens, SameGrid
<1> QED BY <1>8, <1>9, <1>12, <1>13, <1>20, <1>23, <1>24

\* A lap of a ring ends in the slot it began in.
LEMMA FullLap ==
  ASSUME NEW N \in Nat \ {0}, NEW a \in Nat
  PROVE  (a + N) % N = a % N
<1> DEFINE d == a \div N
           m == a % N
           x == a + N
<1>1. d \in Nat /\ m \in 0..(N - 1) /\ a = N * d + m
  BY DivMod
<1> HIDE DEF d, m
<1>2. N * d \in Nat /\ N * (d + 1) = N * d + N
  BY <1>1
<1>3. x \in Nat /\ d + 1 \in Nat /\ x = N * (d + 1) + m
  BY <1>1, <1>2
<1> DEFINE e == d + 1
<1>4. x \in Nat /\ e \in Nat /\ x = N * e + m
  BY <1>3
<1> HIDE DEF x, e
<1>5. x % N = m
  BY <1>1, <1>4, DivModOf
<1> QED BY <1>5 DEF x, m

\* begin_pass.
LEMMA BeginRecord ==
  ASSUME NEW tree, NEW s, CoreOk(tree, s), ~s.pass_open, s.pc = "idle",
         next_in_ring(s.pass_head) # s.harvest_pos, NEW b \in Nat,
         NEW g, g = begin_record([s EXCEPT !.begun = b])
  PROVE  CoreOk(tree, g) /\ SameAssist(g, s) /\ SameGrid(g, s) /\ SameFold(g, s) /\ SamePending(g, s)
<1>1. PICK h \in Nat, t \in Nat, p \in Nat : CoreAt(tree, s, h, t, p)
  BY DEF CoreOk
<1>2. s \in Sinks /\ GridAt(s) /\ AssistRing(s) /\ PassState(tree, s, h, t, p) /\ NothingDue(s, t, p)
      /\ AssistPasses(s, t, p) /\ NextOpens(s, t, p)
  BY <1>1 DEF CoreOk, CoreAt
<1> DEFINE rec == NewPass(s.next_span)
           R == PASS_RING
           ps == [s.passes EXCEPT ![p % R] = rec]
           ph == (p + 1) % R
<1>3. /\ h <= t /\ t <= p /\ p < h + R /\ s.pass_head = p % R /\ s.harvest_pos = h % R
      /\ PassRing(s, h, t, p) /\ PassChain(s, t, p) /\ FoldInPass(s, t, p) /\ PassesDone(s)
      /\ FoldAt(tree, s.fold, FoldStart(s, t, p), s.fold_pos)
      /\ \A i \in h..(t - 1) : Rec(s, i).done
  BY <1>2 DEF PassState, PassRing
<1>4. /\ s.next_span \in Nat /\ s.fold_pos \in Nat /\ s.passes \in PassRings /\ R \in Nat \ {0}
  BY <1>2, SinkTypes
<1>5. next_in_ring(s.pass_head) = ph
  BY <1>3, <1>4, NextSlot DEF next_in_ring
<1>6. p + 1 < h + R
  <2>1. ASSUME p + 1 = h + R PROVE FALSE
    <3>1. (h + R) % R = h % R
      BY <1>4, FullLap
    <3> QED BY <1>3, <1>5, <2>1, <3>1
  <2> QED BY <1>3, <1>4, <2>1
<1>7. /\ rec \in PassRecords /\ rec.start = s.next_span /\ rec.end_span = OPEN /\ ~rec.done
  <2>1. <<>> \in Seq(Int)
    OBVIOUS
  <2> QED BY <1>4, <2>1 DEF NewPass, PassRecords
<1>8. g = [s EXCEPT !.begun = b, !.passes = ps, !.pass_head = ph, !.pass_open = TRUE]
  <2> DEFINE v == [s EXCEPT !.begun = b]
  <2>1. /\ v.passes = s.passes /\ v.pass_head = s.pass_head /\ v.next_span = s.next_span
    BY <1>2 DEF Sinks
  <2>2. g = [v EXCEPT !.passes = [v.passes EXCEPT ![v.pass_head] = NewPass(v.next_span)],
                      !.pass_head = next_in_ring(v.pass_head), !.pass_open = TRUE]
    BY DEF begin_record
  <2> HIDE DEF v
  <2>3. g = [v EXCEPT !.passes = ps, !.pass_head = ph, !.pass_open = TRUE]
    BY <1>3, <1>5, <2>1, <2>2
  <2> QED BY <2>3 DEF v
<1> HIDE DEF rec
<1>9. ps \in PassRings
  <2> DEFINE v == [passes |-> ps]
  <2>1. v.passes = ps
    OBVIOUS
  <2> HIDE DEF v
  <2>2. h <= p
    BY <1>3
  <2>3. OneRecord(v, s, h, p, rec)
    BY <1>2, <1>3, <1>7, <2>1, <2>2, OtherRecords
  <2> QED BY <2>1, <2>3 DEF OneRecord
<1>10. ph \in PassSlots
  <2>1. ph \in 0..(R - 1)
    BY <1>4, DivMod
  <2> QED BY <2>1 DEF PassSlots
<1> HIDE DEF ps, ph
<1>11. g \in Sinks /\ g.passes = ps /\ g.pass_open = TRUE /\ g.pass_head = ph
  <2>1. s \in Sinks /\ b \in Nat
    BY <1>2
  <2>2. g.passes = ps /\ g.pass_open = TRUE /\ g.pass_head = ph
    BY <1>8, <2>1 DEF Sinks
  <2>3. g \in Sinks
    <3> DEFINE v == [s EXCEPT !.begun = b, !.passes = ps]
    <3>1. v \in Sinks
      BY ZenonT(30), <1>9, <2>1 DEF Sinks
    <3>2. g = [v EXCEPT !.pass_head = ph, !.pass_open = TRUE]
      BY <1>8
    <3> HIDE DEF v
    <3> QED BY ZenonT(30), <1>10, <3>1, <3>2 DEF Sinks
  <2> QED BY <2>2, <2>3
<1>12. /\ SameAssist(g, s) /\ SameGrid(g, s) /\ SameFold(g, s) /\ SamePending(g, s)
       /\ g.pass_tail = s.pass_tail /\ g.harvest_pos = s.harvest_pos
       /\ g.pc = s.pc /\ g.ret = s.ret
  <2>1. s \in Sinks
    BY <1>2
  <2>2. SameAssist(g, s) /\ SameGrid(g, s)
    BY <1>8, <2>1 DEF Sinks, SameAssist, SameGrid
  <2>3. SameFold(g, s) /\ SamePending(g, s)
    BY <1>8, <2>1 DEF Sinks, SameFold, SamePending
  <2>4. g.pass_tail = s.pass_tail /\ g.harvest_pos = s.harvest_pos /\ g.pc = s.pc /\ g.ret = s.ret
    BY <1>8, <2>1 DEF Sinks
  <2> QED BY <2>2, <2>3, <2>4
<1>13. /\ Rec(g, p) = rec
       /\ \A j \in Nat : h <= j /\ j < h + R /\ j # p => Rec(g, j) = Rec(s, j)
       /\ \A j \in PassSlots : g.passes[j] = IF j = p % R THEN rec ELSE s.passes[j]
  <2>1. g.passes = [s.passes EXCEPT ![p % R] = rec] /\ h <= p
    BY <1>3, <1>11 DEF ps
  <2>2. OneRecord(g, s, h, p, rec)
    BY <1>2, <1>3, <1>7, <2>1, OtherRecords
  <2> QED BY <2>2 DEF OneRecord
<1>14. \A j \in h..(p - 1) : Rec(g, j) = Rec(s, j)
  <2>1. \A j \in h..(p - 1) : j \in Nat /\ h <= j /\ j < h + R /\ j # p
    BY <1>3, <1>4
  <2> QED BY <1>13, <2>1
<1>15. \A j \in t..p : j = p \/ (j \in t..(p - 1) /\ j \in h..(p - 1))
  BY <1>3
<1>16. GridAt(g)
  BY <1>2, <1>11, <1>12 DEF GridAt, SameGrid, SamePending
<1>17. AssistRing(g)
  BY <1>2, <1>12, AssistRingSame DEF SameGrid, SameFold, SamePending
<1>18. g.next_span = s.next_span /\ g.fold_pos = s.fold_pos /\ g.fold = s.fold
  BY <1>12 DEF SameGrid, SameFold
<1>19. PassChain(g, t, p + 1)
  <2>0. (p + 1) - 1 = p /\ (p + 1) - 2 = p - 1
    OBVIOUS
  <2>1. ASSUME NEW i \in t..p
        PROVE  /\ ~Rec(g, i).done /\ Rec(g, i).start <= s.next_span
               /\ Rec(g, i).end_span = OPEN <=> i = p
               /\ Rec(g, i).end_span # OPEN =>
                     Rec(g, i).start <= Rec(g, i).end_span /\ Rec(g, i).end_span <= s.next_span
    <3>1. CASE i = p
      BY <1>4, <1>7, <1>13, <3>1
    <3>2. CASE i # p
      <4>1. i \in t..(p - 1) /\ Rec(g, i) = Rec(s, i)
        BY <1>14, <1>15, <3>2
      <4> QED BY <1>3, <3>2, <4>1 DEF PassChain
    <3> QED BY <3>1, <3>2
  <2>2. ASSUME NEW i \in t..p, NEW j \in t..p, i < j
        PROVE  Rec(g, i).end_span <= Rec(g, j).start
    <3>1. i \in t..(p - 1) /\ Rec(g, i) = Rec(s, i)
      BY <1>14, <1>15, <2>2
    <3>2. CASE j = p
      <4>1. Rec(s, i).end_span <= s.next_span
        BY <1>3, <3>1 DEF PassChain
      <4> QED BY <1>7, <1>13, <3>1, <3>2, <4>1
    <3>3. CASE j # p
      <4>1. j \in t..(p - 1) /\ Rec(g, j) = Rec(s, j)
        BY <1>14, <1>15, <3>3
      <4> QED BY <1>3, <2>2, <3>1, <4>1 DEF PassChain
    <3> QED BY <3>2, <3>3
  <2>3. ASSUME NEW i \in t..(p - 1) PROVE Rec(g, i).end_span = Rec(g, i + 1).start
    <3>1. i \in h..(p - 1) /\ i \in t..p /\ Rec(g, i) = Rec(s, i)
      BY <1>3, <1>14
    <3>2. CASE i + 1 = p
      <4>1. t < p /\ p - 1 = i
        BY <1>3, <3>2
      <4>2. Rec(s, p - 1).end_span = s.next_span
        BY <1>3, <4>1 DEF PassChain
      <4> QED BY <1>7, <1>13, <3>1, <3>2, <4>1, <4>2
    <3>3. CASE i + 1 # p
      <4>1. i \in t..(p - 2) /\ i + 1 \in h..(p - 1)
        BY <1>3, <3>3
      <4> QED BY <1>3, <1>14, <3>1, <4>1 DEF PassChain
    <3> QED BY <3>2, <3>3
  <2>4. t < p + 1
    BY <1>3
  <2> QED BY <1>11, <1>18, <2>0, <2>1, <2>2, <2>3, <2>4 DEF PassChain
<1>20. t < p => Rec(g, t) = Rec(s, t)
  <2>1. t < p => t \in h..(p - 1)
    BY <1>3
  <2> QED BY <1>14, <2>1
<1>21. t = p => Rec(g, t).start = s.fold_pos /\ Rec(g, t).end_span = OPEN
  BY <1>3, <1>7, <1>13 DEF FoldInPass
<1>22. FoldInPass(g, t, p + 1)
  <2>1. s.fold_pos <= s.next_span /\ t # p + 1 /\ s.fold_pos <= s.fold_pos
    BY <1>3, <1>4 DEF FoldInPass
  <2>2. t < p => /\ Rec(s, t).start <= s.fold_pos
                 /\ Rec(s, t).end_span # OPEN => s.fold_pos <= Rec(s, t).end_span
    BY <1>3 DEF FoldInPass
  <2>3. t < p \/ t = p
    BY <1>3
  <2> QED BY <1>18, <1>20, <1>21, <2>1, <2>2, <2>3 DEF FoldInPass
<1>23. FoldStart(g, t, p + 1) = FoldStart(s, t, p) /\ NothingDue(g, t, p + 1)
  <2>1. t < p \/ t = p
    BY <1>3
  <2>2. t < p + 1
    BY <1>3
  <2>3. CASE t < p
    BY <1>2, <1>18, <1>20, <2>2, <2>3 DEF FoldStart, NothingDue
  <2>4. CASE t = p
    BY <1>18, <1>21, <2>2, <2>4 DEF FoldStart, NothingDue
  <2> QED BY <2>1, <2>3, <2>4
<1>24. PassesDone(g)
  BY <1>3, <1>7, <1>13 DEF PassesDone, PassSlots
<1>25. PassRing(g, h, t, p + 1)
  BY <1>3, <1>6, <1>11, <1>12 DEF PassRing, ph
<1>26. \A i \in h..(t - 1) : Rec(g, i).done
  <2>1. \A i \in h..(t - 1) : i \in h..(p - 1)
    BY <1>3
  <2> QED BY <1>3, <1>14, <2>1
<1>27. PassState(tree, g, h, t, p + 1)
  BY <1>3, <1>18, <1>19, <1>22, <1>23, <1>24, <1>25, <1>26 DEF PassState
<1>28. \A v : PassEnd(s, t, p, v) => PassEnd(g, t, p + 1, v)
  <2>1. \A i \in t..(p - 1) : i \in h..(p - 1) /\ i \in t..((p + 1) - 1)
    BY <1>3
  <2> QED BY <1>14, <2>1 DEF PassEnd
<1>29. AssistPasses(g, t, p + 1)
  <2>1. Held(g) = Held(s) /\ \A k : Chunk(g, k) = Chunk(s, k) /\ ChunkEnd(g, k) = ChunkEnd(s, k)
    BY <1>12, AssistSame
  <2>2. ASSUME NEW k \in Held(s), NEW i \in t..((p + 1) - 1), Rec(g, i).end_span # OPEN
        PROVE  \/ Rec(g, i).end_span <= Chunk(s, k).first_span
               \/ Chunk(s, k).sealed /\ ChunkEnd(s, k) <= Rec(g, i).end_span
    <3>1. i \in t..p /\ i # p
      BY <1>7, <1>13, <2>2
    <3>2. i \in t..(p - 1) /\ Rec(g, i) = Rec(s, i)
      BY <1>14, <1>15, <3>1
    <3> QED BY <1>2, <2>2, <3>2 DEF AssistPasses
  <2>3. ASSUME NEW k \in Held(s), Chunk(s, k).first_span > s.fold_pos
        PROVE  Chunk(s, k).first_span % CHUNK = 0 \/ PassEnd(g, t, p + 1, Chunk(s, k).first_span)
    BY <1>2, <1>28, <2>3 DEF AssistPasses
  <2> QED BY <1>18, <2>1, <2>2, <2>3 DEF AssistPasses
<1>30. NextOpens(g, t, p + 1)
  BY <1>2, <1>12, <1>18, <1>28 DEF NextOpens, SamePending
<1>31. p + 1 \in Nat
  OBVIOUS
<1> QED BY <1>11, <1>12, <1>16, <1>17, <1>23, <1>27, <1>29, <1>30, <1>31 DEF CoreOk, CoreAt

\* harvest_completed.
LEMMA HarvestRecord ==
  ASSUME NEW tree, NEW s, CoreOk(tree, s), s.harvest_pos # s.pass_head,
         s.passes[s.harvest_pos].done, NEW g, g = [s EXCEPT !.harvest_pos = next_in_ring(@)]
  PROVE  CoreOk(tree, g) /\ SameAssist(g, s) /\ SameGrid(g, s) /\ SameFold(g, s) /\ SamePending(g, s)
<1>1. PICK h \in Nat, t \in Nat, p \in Nat : CoreAt(tree, s, h, t, p)
  BY DEF CoreOk
<1>2. s \in Sinks /\ GridAt(s) /\ AssistRing(s) /\ PassState(tree, s, h, t, p) /\ NothingDue(s, t, p)
      /\ AssistPasses(s, t, p) /\ NextOpens(s, t, p)
  BY <1>1 DEF CoreOk, CoreAt
<1> DEFINE R == PASS_RING
           hp == (h + 1) % R
<1>3. /\ h <= t /\ t <= p /\ p < h + R /\ s.pass_head = p % R /\ s.harvest_pos = h % R
      /\ s.pass_tail = t % R /\ PassChain(s, t, p) /\ R \in Nat \ {0}
  BY <1>2, SinkTypes DEF PassState, PassRing
<1>4. next_in_ring(s.harvest_pos) = hp
  BY <1>3, NextSlot DEF next_in_ring
<1>5. h < t
  <2>1. ASSUME h = t PROVE FALSE
    <3>1. t # p
      BY <1>3, <2>1
    <3>2. t \in t..(p - 1)
      BY <1>3, <3>1
    <3>3. ~Rec(s, t).done
      BY <1>3, <3>2 DEF PassChain
    <3> QED BY <1>3, <2>1, <3>3 DEF Rec
  <2> QED BY <1>3, <2>1
<1>6. g = [s EXCEPT !.harvest_pos = hp]
  BY <1>4
<1>7. hp \in PassSlots
  <2> DEFINE n == h + 1
  <2>1. n \in Nat /\ R \in Nat \ {0}
    BY <1>3
  <2> HIDE DEF n
  <2>2. n % R \in 0..(R - 1)
    BY <2>1, DivMod
  <2> QED BY <2>2 DEF PassSlots, n
<1> HIDE DEF hp
<1>8. g \in Sinks /\ g.harvest_pos = hp
  BY <1>2, <1>6, <1>7 DEF Sinks
<1>9. /\ SameAssist(g, s) /\ SameGrid(g, s) /\ SameFold(g, s) /\ SamePending(g, s)
      /\ g.passes = s.passes /\ g.pass_tail = s.pass_tail /\ g.pass_head = s.pass_head
      /\ g.pass_open = s.pass_open /\ g.pc = s.pc /\ g.ret = s.ret
  BY <1>2, <1>6 DEF Sinks, SameAssist, SameGrid, SameFold, SamePending
<1>10. \A i : Rec(g, i) = Rec(s, i)
  BY <1>9 DEF Rec
<1>11. PassRing(g, h + 1, t, p)
  <2>1. h + 1 \in Nat /\ h + 1 <= t /\ p < (h + 1) + R
    BY <1>3, <1>5
  <2> QED BY <1>3, <1>8, <1>9, <2>1 DEF PassRing, hp
<1>12. /\ PassChain(g, t, p) /\ FoldInPass(g, t, p) /\ PassesDone(g) /\ NothingDue(g, t, p)
       /\ FoldStart(g, t, p) = FoldStart(s, t, p)
  BY <1>2, <1>9, <1>10 DEF PassState, PassChain, FoldInPass, PassesDone, NothingDue, FoldStart,
                           SameGrid, SameFold
<1>13. \A i \in (h + 1)..(t - 1) : Rec(g, i).done
  <2>1. \A i \in (h + 1)..(t - 1) : i \in h..(t - 1)
    OBVIOUS
  <2> QED BY <1>2, <1>10, <2>1 DEF PassState
<1>14. PassState(tree, g, h + 1, t, p)
  BY <1>2, <1>9, <1>11, <1>12, <1>13 DEF PassState, SameFold
<1>15. GridAt(g)
  BY <1>2, <1>9 DEF GridAt, SameGrid, SamePending
<1>16. AssistRing(g)
  BY <1>2, <1>9, AssistRingSame DEF SameGrid, SameFold, SamePending
<1>17. AssistPasses(g, t, p)
  BY <1>2, <1>9, <1>10, AssistSame DEF AssistPasses, SameFold, PassEnd
<1>18. NextOpens(g, t, p)
  BY <1>2, <1>9, <1>10 DEF NextOpens, SameFold, SameGrid, SamePending, PassEnd
<1>19. h + 1 \in Nat
  OBVIOUS
<1> QED BY <1>8, <1>9, <1>12, <1>14, <1>15, <1>16, <1>17, <1>18, <1>19 DEF CoreOk, CoreAt

\* The end of a finish: the journal is applied.
LEMMA FinishCore ==
  ASSUME NEW tree \in BOOLEAN, NEW s, CoreOk(tree, s), s.fold_pos = s.next_span,
         NEW g, g = [s EXCEPT !.pc = "idle", !.ret = "idle", !.fold = flush_all(@)]
  PROVE  CoreOk(tree, g) /\ SameAssist(g, s) /\ SameGrid(g, s) /\ SamePending(g, s)
         /\ g.fold_pos = s.fold_pos
<1>1. PICK h \in Nat, t \in Nat, p \in Nat : CoreAt(tree, s, h, t, p)
  BY DEF CoreOk
<1>2. s \in Sinks /\ GridAt(s) /\ AssistRing(s) /\ PassState(tree, s, h, t, p) /\ NothingDue(s, t, p)
      /\ AssistPasses(s, t, p) /\ NextOpens(s, t, p)
  BY <1>1 DEF CoreOk, CoreAt
<1> DEFINE f == flush_all(s.fold)
           a == FoldStart(s, t, p)
<1>3. /\ s.next_span \in Nat /\ s.fold_pos \in Nat /\ s.passes \in PassRings /\ s.fold \in Folds
      /\ PASS_RING \in Nat \ {0}
  BY <1>2, SinkTypes
<1>4. a \in Nat /\ FoldAt(tree, s.fold, a, s.fold_pos)
  <2>1. Rec(s, t).start \in Nat
    BY <1>3, RecTypes
  <2> QED BY <1>2, <1>3, <2>1 DEF FoldStart, PassState
<1> HIDE DEF a
<1>5. f \in Folds /\ FoldAt(tree, f, a, s.fold_pos)
  BY <1>3, <1>4, FlushAll
<1>6. g = [s EXCEPT !.pc = "idle", !.ret = "idle", !.fold = f]
  BY <1>2 DEF Sinks
<1> HIDE DEF f
<1>7. g \in Sinks /\ g.fold = f /\ g.pc = "idle" /\ g.ret = "idle"
  <2>1. s \in Sinks /\ f \in Folds /\ "idle" \in CorePcs
    BY <1>2, <1>5 DEF CorePcs
  <2>2. g.fold = f /\ g.pc = "idle" /\ g.ret = "idle"
    BY <1>6, <2>1 DEF Sinks
  <2>3. g \in Sinks
    BY ZenonT(30), <1>6, <2>1 DEF Sinks
  <2> QED BY <2>2, <2>3
<1>8. /\ SameAssist(g, s) /\ SameGrid(g, s) /\ SamePending(g, s) /\ SamePasses(g, s)
      /\ g.fold_pos = s.fold_pos
  BY <1>2, <1>6 DEF Sinks, SameAssist, SameGrid, SamePending, SamePasses
<1>9. GridAt(g)
  BY <1>2, <1>7, <1>8 DEF GridAt, SameGrid, SamePending
<1>10. AssistRing(g)
  BY <1>2, <1>8, AssistRingSame DEF SameGrid, SamePending
<1>11. \A i : Rec(g, i) = Rec(s, i)
  BY <1>8 DEF SamePasses, Rec
<1>12. /\ PassRing(g, h, t, p) /\ PassChain(g, t, p) /\ FoldInPass(g, t, p) /\ PassesDone(g)
       /\ NothingDue(g, t, p) /\ FoldStart(g, t, p) = a
  BY <1>2, <1>8, <1>11 DEF PassState, PassRing, PassChain, FoldInPass, PassesDone, NothingDue, FoldStart,
                           SameGrid, SamePasses, a
<1>13. PassState(tree, g, h, t, p)
  BY <1>2, <1>5, <1>7, <1>8, <1>11, <1>12 DEF PassState
<1>14. AssistPasses(g, t, p)
  BY <1>2, <1>8, <1>11, AssistSame DEF AssistPasses, PassEnd
<1>15. NextOpens(g, t, p)
  BY <1>3, <1>8 DEF NextOpens, SameGrid
<1> QED BY <1>7, <1>8, <1>9, <1>10, <1>12, <1>13, <1>14, <1>15 DEF CoreOk, CoreAt

\* The sink of new and reset, and its fields.
FreshWith(ps, ai, f, a, b, c) ==
    [next_span |-> 0, fold |-> f, fold_pos |-> 0, fold_rem |-> CHUNK, submit_rem |-> CHUNK,
     submit_lane |-> 0, pending_lane |-> 0, pending_len |-> 0, pending_head |-> 0, cur_inline |-> None,
     inline |-> ai, inline_seq |-> 0, inline_fold_seq |-> 0,
     passes |-> ps, pass_head |-> 0, pass_tail |-> 0, harvest_pos |-> 0, pass_open |-> FALSE,
     pc |-> "idle", ret |-> "idle", spans |-> b, begun |-> c, resets |-> a]

AllZero(g, ps, f) ==
    /\ g \in Sinks /\ g.next_span = 0 /\ g.fold = f /\ g.fold_pos = 0 /\ g.submit_rem = CHUNK
    /\ g.submit_lane = 0 /\ g.pending_len = 0 /\ g.cur_inline = None /\ g.inline_seq = 0
    /\ g.inline_fold_seq = 0 /\ g.passes = ps /\ g.pass_head = 0 /\ g.pass_tail = 0
    /\ g.harvest_pos = 0 /\ g.pass_open = FALSE /\ g.pc = "idle" /\ g.ret = "idle"

\* A reinitialised sink has empty journal storage and zero ring indices (reset_hot).
LEMMA FreshFields ==
  ASSUME NEW ps \in PassRings, NEW ai \in AssistRings, NEW f \in Folds,
         NEW a \in Nat, NEW b \in Nat, NEW c \in Nat, NEW g, g = FreshWith(ps, ai, f, a, b, c)
  PROVE  AllZero(g, ps, f)
<1>1. 0 \in Lanes /\ 0 \in PassSlots /\ CHUNK \in ChunkRems /\ None \in InlineSlots /\ CHUNK \in Int
  BY PassFoldAssumption, GridAssumption DEF Lanes, PassSlots, ChunkRems, InlineSlots
<1>2. 0 \in Nat /\ "idle" \in CorePcs /\ "idle" \in {"idle", "claim", "finish"} /\ FALSE \in BOOLEAN
  BY DEF CorePcs
<1>3. g \in Sinks
  BY <1>1, <1>2 DEF FreshWith, Sinks
<1> QED BY <1>3 DEF FreshWith, AllZero

\* The sink of new and of reset.
Fresh(g, a, b, c) == g = FreshWith(NewPassRing, NewAssistRing, NewFold, a, b, c)

\* A reinitialised sink satisfies the core invariant, at the start of a new span count.
LEMMA FreshCore ==
  ASSUME NEW tree, NEW a \in Nat, NEW b \in Nat, NEW c \in Nat, NEW g, Fresh(g, a, b, c)
  PROVE  CoreOk(tree, g) /\ g.next_span = 0 /\ g.fold_pos = 0 /\ g.pending_len = 0
<1> DEFINE ps == NewPassRing
           ai == NewAssistRing
           f == [hash |-> <<>>, journal |-> <<>>]
<1>1. PASS_RING \in Nat \ {0, 1} /\ ASSIST_SLOTS \in Nat \ {0, 1} /\ CHUNK \in Nat \ {0} /\ NLANES \in Nat \ {0}
  BY PassFoldAssumption, GridAssumption
<1>2. ps \in PassRings /\ \A i \in 0..(PASS_RING - 1) : ~ps[i].done
  <2>1. NewPass(0) \in PassRecords /\ ~NewPass(0).done
    BY DEF NewPass, PassRecords
  <2> QED BY <2>1 DEF NewPassRing, PassRings
<1>3. ai \in AssistRings
  <2>1. FreeChunk \in Chunks
    BY DEF FreeChunk, Chunks
  <2> QED BY <2>1 DEF NewAssistRing, AssistRings
<1>4. f \in Folds /\ FoldAt(tree, f, 0, 0)
  BY FoldNew
<1> HIDE DEF ps, ai, f
<1>5. g = FreshWith(ps, ai, f, a, b, c)
  BY DEF Fresh, NewFold, f, ps, ai
<1>6. /\ g \in Sinks /\ g.next_span = 0 /\ g.fold = f /\ g.fold_pos = 0 /\ g.submit_rem = CHUNK
      /\ g.submit_lane = 0 /\ g.pending_len = 0 /\ g.cur_inline = None /\ g.inline_seq = 0
      /\ g.inline_fold_seq = 0 /\ g.passes = ps /\ g.pass_head = 0 /\ g.pass_tail = 0
      /\ g.harvest_pos = 0 /\ g.pass_open = FALSE /\ g.pc = "idle" /\ g.ret = "idle"
  <2>1. ps \in PassRings /\ ai \in AssistRings /\ f \in Folds
    BY <1>2, <1>3, <1>4
  <2>2. AllZero(g, ps, f)
    BY <1>5, <2>1, FreshFields
  <2> QED BY <2>2 DEF AllZero
<1>8. 0 % PASS_RING = 0 /\ 0 % CHUNK = 0 /\ 0 \div CHUNK = 0 /\ 0 % NLANES = 0
  <2>1. \A N \in Nat \ {0} : 0 % N = 0 /\ 0 \div N = 0
    <3> SUFFICES ASSUME NEW N \in Nat \ {0} PROVE 0 % N = 0 /\ 0 \div N = 0
      OBVIOUS
    <3>1. 0 \in 0..(N - 1) /\ 0 = N * 0 + 0 /\ 0 \in Nat
      OBVIOUS
    <3> QED BY <3>1, DivModOf
  <2> QED BY <1>1, <2>1
<1>9. GridAt(g)
  BY <1>1, <1>6, <1>8 DEF GridAt, lane_of, chunk_of
<1>10. Held(g) = {}
  BY <1>6 DEF Held
<1>11. AssistRing(g)
  BY <1>1, <1>6, <1>10 DEF AssistRing
<1>12. PassRing(g, 0, 0, 0)
  BY <1>1, <1>6, <1>8 DEF PassRing
<1>13. PassChain(g, 0, 0) /\ FoldInPass(g, 0, 0) /\ NothingDue(g, 0, 0)
  BY <1>6 DEF PassChain, FoldInPass, NothingDue
<1>14. PassesDone(g)
  BY <1>2, <1>6 DEF PassesDone
<1>15. PassState(tree, g, 0, 0, 0)
  BY <1>4, <1>6, <1>12, <1>13, <1>14 DEF PassState, FoldStart
<1>16. AssistPasses(g, 0, 0) /\ NextOpens(g, 0, 0)
  BY <1>6, <1>10 DEF AssistPasses, NextOpens
<1>17. 0 \in Nat
  OBVIOUS
<1> QED BY <1>6, <1>9, <1>11, <1>13, <1>15, <1>16, <1>17 DEF CoreOk, CoreAt

-----------------------------------------------------------------------------
(* Submission, on the sink. *)

\* What the lanes hold is the same.
LEMMA FlyingSame ==
  ASSUME NEW s \in Sinks, NEW g, g.next_span = s.next_span, g.fold_pos = s.fold_pos,
         SameAssist(g, s) \/ SameChunks(g, s)
  PROVE  Flying(g) = Flying(s)
<1>1. \A v : Inlined(g, v) <=> Inlined(s, v)
  BY AssistSame, ChunksSame
<1> QED BY <1>1 DEF Flying

\* The next span of the grid.
LEMMA GridNext ==
  ASSUME NEW n \in Nat, NEW r, r = CHUNK - (n % CHUNK), NEW l, l = lane_of(n)
  PROVE  /\ l \in Lanes /\ r \in ChunkRems /\ r - 1 \in Nat
         /\ r - 1 = 0 => (n + 1) % CHUNK = 0 /\ lane_of(n + 1) = (l + 1) % NLANES
         /\ r - 1 # 0 => (n + 1) % CHUNK = CHUNK - (r - 1) /\ lane_of(n + 1) = l
<1> DEFINE C == CHUNK
           d == n \div C
           m == n % C
<1>1. C \in Nat \ {0} /\ NLANES \in Nat \ {0}
  BY GridAssumption
<1>2. d \in Nat /\ m \in 0..(C - 1)
  BY <1>1, DivMod
<1>3. /\ m + 1 < C => (n + 1) % C = m + 1 /\ (n + 1) \div C = d
      /\ m + 1 >= C => (n + 1) % C = 0 /\ (n + 1) \div C = d + 1
  BY <1>1, NextInBlock
<1>4. l = d % NLANES /\ lane_of(n + 1) = ((n + 1) \div C) % NLANES
  BY DEF lane_of, chunk_of
<1>5. (l + 1) % NLANES = (d + 1) % NLANES
  <2> HIDE DEF d
  <2> QED BY <1>1, <1>2, <1>4, NextSlot
<1>6. l \in 0..(NLANES - 1)
  <2> HIDE DEF d
  <2> QED BY <1>1, <1>2, <1>4, DivMod
<1>7. r = C - m
  OBVIOUS
<1> HIDE DEF C, d, m
<1>8. r \in 1..C /\ r - 1 \in Nat
  BY <1>1, <1>2, <1>7
<1>9. r - 1 = 0 => m + 1 >= C
  BY <1>1, <1>2, <1>7
<1>10. r - 1 # 0 => m + 1 < C /\ m + 1 = C - (r - 1)
  BY <1>1, <1>2, <1>7
<1> QED BY <1>3, <1>4, <1>5, <1>6, <1>8, <1>9, <1>10 DEF Lanes, ChunkRems, C

\* advanced.
Advanced(g, s) ==
    /\ g \in Sinks /\ g.next_span = s.next_span + 1
    /\ g.submit_lane = lane_of(g.next_span) /\ g.submit_rem = CHUNK - (g.next_span % CHUNK)
    /\ g.submit_rem = CHUNK <=> s.submit_rem = 1
    /\ g.submit_rem # CHUNK => g.submit_rem = s.submit_rem - 1 /\ g.submit_lane = s.submit_lane
    /\ SamePasses(g, s) /\ SameFold(g, s) /\ SameAssist(g, s) /\ SamePending(g, s)
    /\ g.pc = s.pc /\ g.ret = s.ret

\* The grid step after a span (next_span, submit_rem, submit_lane) keeps the grid position and
\* moves nothing else of the sink.
LEMMA AdvancedSink ==
  ASSUME NEW s \in Sinks, GridAt(s), NEW g, g = advanced(s)
  PROVE  Advanced(g, s)
<1> DEFINE n == s.next_span
           r == s.submit_rem
           l == s.submit_lane
           r1 == r - 1
           n1 == n + 1
           k == s.spans + 1
           r2 == IF r1 = 0 THEN CHUNK ELSE r1
           l2 == IF r1 = 0 THEN (l + 1) % NLANES ELSE l
<1>1. /\ n \in Nat /\ r \in ChunkRems /\ l \in Lanes /\ s.spans \in Nat /\ n1 \in Nat /\ k \in Nat
      /\ CHUNK \in Nat \ {0}
  BY GridAssumption DEF Sinks
<1>2. r = CHUNK - (n % CHUNK) /\ l = lane_of(n)
  BY DEF GridAt
<1>3. /\ r1 \in Nat
      /\ r1 = 0 => n1 % CHUNK = 0 /\ lane_of(n1) = (l + 1) % NLANES
      /\ r1 # 0 => n1 % CHUNK = CHUNK - r1 /\ lane_of(n1) = l
  <2> HIDE DEF n, r, l
  <2> QED BY SMTT(60), <1>1, <1>2, GridNext
<1>4. lane_of(n1) \in Lanes
  <2> HIDE DEF n1
  <2> QED BY <1>1, GridNext
<1>5. g = [s EXCEPT !.next_span = n1, !.spans = k, !.submit_rem = r2, !.submit_lane = l2]
  <2> DEFINE t == [s EXCEPT !.next_span = n1, !.spans = k, !.submit_rem = r1]
  <2>1. t.submit_rem = r1 /\ t.submit_lane = l
    BY DEF Sinks
  <2>2. g = IF t.submit_rem = 0 THEN [t EXCEPT !.submit_rem = CHUNK, !.submit_lane = (t.submit_lane + 1) % NLANES]
            ELSE t
    BY DEF advanced
  <2>3. CASE r1 = 0
    <3> DEFINE x == (l + 1) % NLANES
    <3>1. g = [t EXCEPT !.submit_rem = CHUNK, !.submit_lane = x]
      BY <2>1, <2>2, <2>3
    <3>2. r2 = CHUNK /\ l2 = x
      BY <2>3
    <3> HIDE DEF x, r2, l2, r1, n1, k
    <3> QED BY <3>1, <3>2 DEF Sinks
  <2>4. CASE r1 # 0
    <3>1. g = t /\ r2 = r1 /\ l2 = l
      BY <2>1, <2>2, <2>4
    <3> HIDE DEF r2, l2, r1, n1, k
    <3> QED BY <3>1 DEF Sinks
  <2> QED BY <2>3, <2>4
<1>6. /\ r2 = CHUNK - (n1 % CHUNK) /\ l2 = lane_of(n1) /\ r2 \in ChunkRems /\ l2 \in Lanes
      /\ r2 = CHUNK <=> r = 1
      /\ r2 # CHUNK => r2 = r - 1 /\ l2 = l
  <2>1. r \in Int /\ r <= CHUNK /\ r >= 1
    BY <1>1 DEF ChunkRems
  <2> HIDE DEF n, r, l, n1
  <2> QED BY <1>1, <1>3, <1>4, <2>1 DEF ChunkRems
<1> HIDE DEF r2, l2, n1, k, r1
<1>7. g \in Sinks /\ g.next_span = n1 /\ g.submit_rem = r2 /\ g.submit_lane = l2
  <2>1. n1 \in Nat /\ k \in Nat /\ r2 \in ChunkRems /\ l2 \in Lanes
    BY <1>1, <1>6
  <2>2. g.next_span = n1 /\ g.submit_rem = r2 /\ g.submit_lane = l2
    BY <1>5 DEF Sinks
  <2>3. g \in Sinks
    BY ZenonT(30), <1>5, <2>1 DEF Sinks
  <2> QED BY <2>2, <2>3
<1>8. /\ SamePasses(g, s) /\ SameFold(g, s) /\ SameAssist(g, s) /\ SamePending(g, s)
      /\ g.pc = s.pc /\ g.ret = s.ret
  BY <1>5 DEF Sinks, SamePasses, SameFold, SameAssist, SamePending
<1> QED BY <1>6, <1>7, <1>8 DEF Advanced, n1

\* One more span of the open pass.
OneMore(g, s) == SamePasses(g, s) /\ SameFold(g, s) /\ g.next_span = s.next_span + 1 /\ s.pass_open

\* One more span of the open pass moves no pass record, so the state of the passes carries over.
LEMMA PassesMore ==
  ASSUME NEW tree, NEW s \in Sinks, NEW g, NEW h \in Nat, NEW t \in Nat, NEW p \in Nat,
         OneMore(g, s)
  PROVE  /\ PassState(tree, s, h, t, p) => PassState(tree, g, h, t, p)
         /\ PassState(tree, s, h, t, p) /\ NothingDue(s, t, p) => NothingDue(g, t, p)
<1> SUFFICES ASSUME PassState(tree, s, h, t, p)
             PROVE  PassState(tree, g, h, t, p) /\ (NothingDue(s, t, p) => NothingDue(g, t, p))
  OBVIOUS
<1>0. SamePasses(g, s) /\ SameFold(g, s) /\ g.next_span = s.next_span + 1 /\ s.pass_open
  BY DEF OneMore
<1>1. /\ s.next_span \in Nat /\ s.fold_pos \in Nat /\ s.passes \in PassRings
  BY SinkTypes
<1>2. \A i : Rec(g, i) = Rec(s, i)
  BY <1>0 DEF SamePasses, Rec
<1>3. PassRing(s, h, t, p) /\ PassChain(s, t, p) /\ FoldInPass(s, t, p) /\ PassesDone(s)
  BY DEF PassState
<1>4. PassChain(g, t, p)
  <2>1. ASSUME NEW i \in t..(p - 1)
        PROVE  /\ ~Rec(g, i).done /\ Rec(g, i).start <= g.next_span
               /\ Rec(g, i).end_span = OPEN <=> (g.pass_open /\ i = p - 1)
               /\ Rec(g, i).end_span # OPEN =>
                     Rec(g, i).start <= Rec(g, i).end_span /\ Rec(g, i).end_span <= g.next_span
    <3>1. i \in Nat
      OBVIOUS
    <3>2. Rec(s, i).start \in Nat /\ Rec(s, i).end_span \in Nat \cup {OPEN}
      BY <1>1, <3>1, RecTypes
    <3>3. /\ ~Rec(s, i).done /\ Rec(s, i).start <= s.next_span
          /\ Rec(s, i).end_span = OPEN <=> (s.pass_open /\ i = p - 1)
          /\ Rec(s, i).end_span # OPEN =>
                Rec(s, i).start <= Rec(s, i).end_span /\ Rec(s, i).end_span <= s.next_span
      BY <1>3 DEF PassChain
    <3>4. g.pass_open = s.pass_open
      BY <1>0 DEF SamePasses
    <3> QED BY <1>0, <1>1, <1>2, <3>2, <3>3, <3>4
  <2> QED BY <1>0, <1>2, <1>3, <2>1 DEF PassChain, SamePasses
<1>5. t # p
  BY <1>0, <1>3 DEF PassChain
<1>6. /\ FoldInPass(g, t, p) /\ FoldStart(g, t, p) = FoldStart(s, t, p)
      /\ NothingDue(s, t, p) => NothingDue(g, t, p)
  BY <1>0, <1>1, <1>2, <1>3, <1>5 DEF FoldInPass, FoldStart, NothingDue, SameFold
<1>7. PassRing(g, h, t, p) /\ PassesDone(g)
  BY <1>0, <1>3 DEF PassRing, PassesDone, SamePasses
<1> QED BY <1>0, <1>2, <1>4, <1>6, <1>7 DEF PassState, SameFold

\* submit_span into a lane's ring, k words of it; a full chunk is not pending.
Submitted(g, s, k) ==
    /\ g.next_span = s.next_span + 1 /\ SameFold(g, s) /\ SameAssist(g, s)
    /\ g.cur_inline = None /\ g.pending_lane = s.pending_lane /\ g.pending_head = s.pending_head
    /\ g.submit_rem = CHUNK <=> s.submit_rem = 1
    /\ g.submit_rem # CHUNK => g.submit_rem = s.submit_rem - 1 /\ g.submit_lane = s.submit_lane
    /\ g.pending_len = IF g.submit_rem = CHUNK THEN 0 ELSE s.pending_len + k

\* Submitting a span to a lane's descriptor ring keeps the core invariant.
LEMMA SubmitRingCore ==
  ASSUME NEW tree, NEW s, CoreOk(tree, s), s.pc = "idle", s.pass_open, s.cur_inline = None,
         NEW k \in Nat, k > 0, NEW x, x = advanced([s EXCEPT !.pending_len = @ + k]),
         NEW g, g = IF x.submit_rem = CHUNK THEN [x EXCEPT !.pending_len = 0] ELSE x
  PROVE  CoreOk(tree, g) /\ Submitted(g, s, k)
<1>1. PICK h \in Nat, t \in Nat, p \in Nat : CoreAt(tree, s, h, t, p)
  BY DEF CoreOk
<1>2. s \in Sinks /\ GridAt(s) /\ AssistRing(s) /\ PassState(tree, s, h, t, p) /\ NothingDue(s, t, p)
      /\ AssistPasses(s, t, p) /\ NextOpens(s, t, p)
  BY <1>1 DEF CoreOk, CoreAt
<1> DEFINE pl == s.pending_len + k
           y == [s EXCEPT !.pending_len = pl]
<1>3. s.pending_len \in Nat /\ s.next_span \in Nat /\ s.submit_rem \in ChunkRems
  BY <1>2 DEF Sinks
<1>4. pl \in Nat
  BY <1>3
<1>5. x = advanced(y)
  OBVIOUS
<1> HIDE DEF pl
<1>6. y \in Sinks /\ y.pending_len = pl
  BY <1>2, <1>4 DEF Sinks
<1>7. /\ SamePasses(y, s) /\ SameFold(y, s) /\ SameAssist(y, s) /\ SameGrid(y, s)
      /\ y.cur_inline = None /\ y.pending_lane = s.pending_lane /\ y.pending_head = s.pending_head
      /\ y.pc = "idle" /\ y.ret = s.ret
  BY <1>2 DEF Sinks, SamePasses, SameFold, SameAssist, SameGrid
<1>8. GridAt(y)
  BY <1>2, <1>7 DEF GridAt, SameGrid
<1> HIDE DEF y
<1>9. Advanced(x, y)
  BY <1>5, <1>6, <1>8, AdvancedSink
<1> DEFINE ln == IF x.submit_rem = CHUNK THEN 0 ELSE pl
<1>10. ln \in Nat
  BY <1>4
<1>11. x \in Sinks /\ x.pending_len = pl
  BY <1>6, <1>9 DEF Advanced, SamePending
<1>12. g = [x EXCEPT !.pending_len = ln]
  <2>1. CASE x.submit_rem = CHUNK
    BY <2>1
  <2>2. CASE x.submit_rem # CHUNK
    <3>1. g = x /\ ln = x.pending_len
      BY <1>11, <2>2
    <3> HIDE DEF ln
    <3> QED BY <1>11, <3>1 DEF Sinks
  <2> QED BY <2>1, <2>2
<1> HIDE DEF ln
<1>13. g \in Sinks /\ g.pending_len = ln
  BY <1>10, <1>11, <1>12 DEF Sinks
<1>14. /\ SamePasses(g, x) /\ SameFold(g, x) /\ SameAssist(g, x) /\ SameGrid(g, x)
       /\ g.cur_inline = x.cur_inline /\ g.pending_lane = x.pending_lane
       /\ g.pending_head = x.pending_head /\ g.pc = x.pc /\ g.ret = x.ret
  BY <1>11, <1>12 DEF Sinks, SamePasses, SameFold, SameAssist, SameGrid
<1>15. /\ g.next_span = s.next_span + 1 /\ SamePasses(g, s) /\ SameFold(g, s) /\ SameAssist(g, s)
       /\ g.cur_inline = None /\ g.pending_lane = s.pending_lane /\ g.pending_head = s.pending_head
       /\ g.submit_rem = CHUNK <=> s.submit_rem = 1
       /\ g.submit_rem # CHUNK => g.submit_rem = s.submit_rem - 1 /\ g.submit_lane = s.submit_lane
       /\ g.submit_lane = lane_of(g.next_span) /\ g.submit_rem = CHUNK - (g.next_span % CHUNK)
       /\ g.pc = "idle" /\ g.ret = s.ret
  <2>1. SamePasses(g, s) /\ SameFold(g, s) /\ SameAssist(g, s)
    <3>1. SamePasses(x, y) /\ SameFold(x, y) /\ SameAssist(x, y)
      BY <1>9 DEF Advanced
    <3>2. SamePasses(g, s)
      BY <1>7, <1>14, <3>1 DEF SamePasses
    <3>3. SameFold(g, s)
      BY <1>7, <1>14, <3>1 DEF SameFold
    <3>4. SameAssist(g, s)
      BY <1>7, <1>14, <3>1 DEF SameAssist
    <3> QED BY <3>2, <3>3, <3>4
  <2>2. /\ g.next_span = x.next_span /\ g.submit_rem = x.submit_rem /\ g.submit_lane = x.submit_lane
        /\ y.next_span = s.next_span /\ y.submit_rem = s.submit_rem /\ y.submit_lane = s.submit_lane
    BY <1>7, <1>14 DEF SameGrid
  <2>3. /\ x.next_span = y.next_span + 1
        /\ x.submit_rem = CHUNK <=> y.submit_rem = 1
        /\ x.submit_rem # CHUNK => x.submit_rem = y.submit_rem - 1 /\ x.submit_lane = y.submit_lane
        /\ x.submit_lane = lane_of(x.next_span) /\ x.submit_rem = CHUNK - (x.next_span % CHUNK)
        /\ x.pc = y.pc /\ x.ret = y.ret
    BY <1>9 DEF Advanced
  <2>4. x.cur_inline = y.cur_inline /\ x.pending_lane = y.pending_lane /\ x.pending_head = y.pending_head
    BY <1>9 DEF Advanced, SamePending
  <2>5. /\ g.cur_inline = None /\ g.pending_lane = s.pending_lane /\ g.pending_head = s.pending_head
        /\ g.pc = "idle" /\ g.ret = s.ret
    BY <1>7, <1>14, <2>3, <2>4
  <2> QED BY <2>1, <2>2, <2>3, <2>5
<1>16. g.pending_len = IF g.submit_rem = CHUNK THEN 0 ELSE s.pending_len + k
  BY <1>13, <1>14 DEF ln, pl, SameGrid
<1>17. Submitted(g, s, k)
  BY <1>15, <1>16 DEF Submitted
<1>18. s.ret = "idle"
  BY <1>2 DEF GridAt
<1>19. GridAt(g)
  BY <1>15, <1>18 DEF GridAt, SamePasses
<1>20. Held(g) = Held(s) /\ \A i : Chunk(g, i) = Chunk(s, i) /\ ChunkEnd(g, i) = ChunkEnd(s, i)
  BY <1>15, AssistSame
<1>21. AssistRing(g)
  <2>1. \A i \in Held(s) : ChunkEnd(s, i) <= g.next_span
    <3> SUFFICES ASSUME NEW i \in Held(s) PROVE ChunkEnd(s, i) <= g.next_span
      OBVIOUS
    <3>1. i \in Nat
      BY <1>2, AssistTypes DEF Held
    <3>2. ChunkEnd(s, i) <= s.next_span /\ Chunk(s, i).first_span \in Nat /\ Len(Chunk(s, i).vals) \in Nat
      BY <1>2, <3>1, ChunkTypes DEF AssistRing
    <3> QED BY <1>3, <1>15, <3>2 DEF ChunkEnd
  <2> QED BY <1>2, <1>15, <1>20, <2>1 DEF AssistRing, SameAssist, SameFold
<1>22. PassState(tree, g, h, t, p) /\ NothingDue(g, t, p)
  <2>1. OneMore(g, s)
    BY <1>15 DEF OneMore
  <2> QED BY <1>2, <2>1, PassesMore
<1>23. AssistPasses(g, t, p)
  <2>1. AssistPasses(s, t, p) /\ g.fold_pos = s.fold_pos
    BY <1>2, <1>15 DEF SameFold
  <2>2. \A i : Rec(g, i) = Rec(s, i)
    BY <1>15 DEF SamePasses, Rec
  <2>3. \A v : PassEnd(g, t, p, v) <=> PassEnd(s, t, p, v)
    BY <2>2 DEF PassEnd
  <2> QED BY <1>20, <2>1, <2>2, <2>3 DEF AssistPasses
<1>24. NextOpens(g, t, p)
  <2>1. ASSUME g.pending_len = 0 PROVE g.next_span % CHUNK = 0
    <3>1. g.submit_rem = CHUNK
      BY <1>3, <1>16, <2>1
    <3>2. CHUNK \in Nat \ {0} /\ g.next_span \in Nat
      BY <1>13, GridAssumption DEF Sinks
    <3>3. g.next_span % CHUNK \in 0..(CHUNK - 1)
      BY <3>2, DivMod
    <3> QED BY <1>15, <3>1, <3>2, <3>3
  <2> QED BY <2>1 DEF NextOpens
<1> QED BY <1>13, <1>17, <1>19, <1>21, <1>22, <1>23, <1>24 DEF CoreOk, CoreAt

PlacedBy(g, s, l, a) == g = [s EXCEPT !.pc = "idle", !.pending_lane = l, !.pending_head = a]

\* What is open in a lane's ring is placed by two fields of the sink only.
LEMMA PlaceCore ==
  ASSUME NEW tree, NEW s, CoreOk(tree, s), NEW l \in Lanes, NEW a \in Nat, s.ret = "idle",
         NEW g, PlacedBy(g, s, l, a)
  PROVE  /\ CoreOk(tree, g) /\ SameFold(g, s) /\ SameAssist(g, s) /\ SameGrid(g, s) /\ SamePasses(g, s)
         /\ g.pending_len = s.pending_len /\ g.cur_inline = s.cur_inline
         /\ g.pending_lane = l /\ g.pending_head = a /\ g.pc = "idle"
<1>1. PICK h \in Nat, t \in Nat, p \in Nat : CoreAt(tree, s, h, t, p)
  BY DEF CoreOk
<1>2. s \in Sinks /\ GridAt(s) /\ AssistRing(s) /\ PassState(tree, s, h, t, p) /\ NothingDue(s, t, p)
      /\ AssistPasses(s, t, p) /\ NextOpens(s, t, p)
  BY <1>1 DEF CoreOk, CoreAt
<1>3. g \in Sinks /\ g.pending_lane = l /\ g.pending_head = a /\ g.pc = "idle"
  BY <1>2 DEF Sinks, CorePcs, PlacedBy
<1>4. /\ SamePasses(g, s) /\ SameAssist(g, s) /\ SameGrid(g, s) /\ SameFold(g, s)
      /\ g.pending_len = s.pending_len /\ g.cur_inline = s.cur_inline /\ g.ret = s.ret
  BY <1>2 DEF Sinks, SamePasses, SameAssist, SameGrid, SameFold, PlacedBy
<1>5. GridAt(g)
  BY <1>2, <1>3, <1>4 DEF GridAt, SameGrid, SamePasses
<1>6. AssistRing(g)
  BY <1>2, <1>4, AssistRingSame DEF SameGrid, SameFold
<1>7. PassState(tree, g, h, t, p) /\ NothingDue(g, t, p)
  BY <1>2, <1>4, PassStateSame DEF SameGrid
<1>8. AssistPasses(g, t, p)
  BY <1>2, <1>4, AssistSame DEF AssistPasses, SamePasses, SameFold, Rec, PassEnd
<1>9. NextOpens(g, t, p)
  BY <1>2, <1>4 DEF NextOpens, SamePasses, SameFold, SameGrid, Rec, PassEnd
<1> QED BY <1>3, <1>4, <1>5, <1>6, <1>7, <1>8, <1>9 DEF CoreOk, CoreAt

\* One chunk of the assist ring changed.
OneChunk(g, s, q, c) ==
    /\ g.inline \in AssistRings /\ Chunk(g, q) = c
    /\ \A k \in Nat : k < q /\ q < k + ASSIST_SLOTS => Chunk(g, k) = Chunk(s, k)

\* The others are apart from it.
LEMMA OtherChunks ==
  ASSUME NEW s \in Sinks, NEW q \in Nat, NEW c \in Chunks,
         NEW g, g.inline = [s.inline EXCEPT ![q % ASSIST_SLOTS] = c]
  PROVE  OneChunk(g, s, q, c)
<1> DEFINE j == q % ASSIST_SLOTS
<1>1. s.inline \in [0..(ASSIST_SLOTS - 1) -> Chunks] /\ ASSIST_SLOTS \in Nat \ {0} /\ j \in 0..(ASSIST_SLOTS - 1)
  BY AssistTypes, ChunkTypes
<1>2. ASSUME NEW k \in Nat, k < q, q < k + ASSIST_SLOTS
      PROVE  k % ASSIST_SLOTS # j /\ k % ASSIST_SLOTS \in 0..(ASSIST_SLOTS - 1)
  BY <1>1, <1>2, ModApart, ChunkTypes
<1> HIDE DEF j
<1>3. g.inline = [s.inline EXCEPT ![j] = c]
  BY DEF j
<1>4. g.inline \in [0..(ASSIST_SLOTS - 1) -> Chunks] /\ g.inline[j] = c
      /\ \A i \in 0..(ASSIST_SLOTS - 1) : i # j => g.inline[i] = s.inline[i]
  BY <1>1, <1>3
<1>5. \A k \in Nat : k < q /\ q < k + ASSIST_SLOTS => Chunk(g, k) = Chunk(s, k)
  BY <1>2, <1>4 DEF Chunk
<1>6. Chunk(g, q) = c
  BY <1>4 DEF Chunk, j
<1> QED BY <1>4, <1>5, <1>6 DEF OneChunk, AssistRings

\* A chunk is open in the assist ring, and may be empty.
InlineOpen(s, q) ==
    /\ q = s.inline_seq - 1 /\ s.inline_fold_seq <= q /\ q - s.inline_fold_seq < ASSIST_SLOTS - 1
    /\ s.cur_inline = q % ASSIST_SLOTS
    /\ Chunk(s, q).first_span \in Nat /\ s.fold_pos <= Chunk(s, q).first_span
    /\ Chunk(s, q).first_span <= s.next_span /\ ~Chunk(s, q).sealed
    /\ Chunk(s, q).vals = Run(Chunk(s, q).first_span, s.next_span)
    /\ \A k \in Held(s) : k < q =>
          /\ Chunk(s, k).first_span \in Nat /\ s.fold_pos <= Chunk(s, k).first_span
          /\ Len(Chunk(s, k).vals) > 0 /\ ChunkEnd(s, k) <= s.next_span /\ Chunk(s, k).sealed
          /\ Chunk(s, k).vals = Run(Chunk(s, k).first_span, ChunkEnd(s, k))
    /\ \A k, m \in Held(s) : k < m => ChunkEnd(s, k) <= Chunk(s, m).first_span

\* A chunk that is open already.
LEMMA InlineGoesOn ==
  ASSUME NEW s \in Sinks, AssistRing(s), s.cur_inline # None
  PROVE  InlineOpen(s, s.inline_seq - 1)
<1> DEFINE q == s.inline_seq - 1
<1>1. /\ s.inline_seq \in Nat /\ s.inline_fold_seq \in Nat /\ q \in Held(s) /\ s.cur_inline = q % ASSIST_SLOTS
      /\ ChunkEnd(s, q) = s.next_span /\ s.inline_seq - s.inline_fold_seq < ASSIST_SLOTS
      /\ ASSIST_SLOTS \in Nat /\ s.next_span \in Nat
  BY AssistTypes DEF AssistRing
<1>2. q \in Nat /\ s.inline_fold_seq <= q /\ q - s.inline_fold_seq < ASSIST_SLOTS - 1
  BY <1>1 DEF Held
<1>3. /\ Chunk(s, q).first_span \in Nat /\ s.fold_pos <= Chunk(s, q).first_span
      /\ Len(Chunk(s, q).vals) > 0 /\ ~Chunk(s, q).sealed
      /\ Chunk(s, q).vals = Run(Chunk(s, q).first_span, s.next_span)
  BY <1>1 DEF AssistRing
<1>4. Chunk(s, q).first_span <= s.next_span
  <2>1. Len(Chunk(s, q).vals) \in Nat
    BY <1>2, ChunkTypes
  <2> QED BY <1>1, <1>3, <2>1 DEF ChunkEnd
<1>5. \A k \in Held(s) : k < q => Chunk(s, k).sealed
  <2>1. \A k \in Held(s) : k < q => k # q
    BY <1>2 DEF Held
  <2> QED BY <2>1 DEF AssistRing
<1> HIDE DEF q
<1>6. \A k \in Held(s) : k < q =>
          /\ Chunk(s, k).first_span \in Nat /\ s.fold_pos <= Chunk(s, k).first_span
          /\ Len(Chunk(s, k).vals) > 0 /\ ChunkEnd(s, k) <= s.next_span /\ Chunk(s, k).sealed
          /\ Chunk(s, k).vals = Run(Chunk(s, k).first_span, ChunkEnd(s, k))
  BY <1>5 DEF AssistRing
<1>7. \A k, m \in Held(s) : k < m => ChunkEnd(s, k) <= Chunk(s, m).first_span
  BY DEF AssistRing
<1> QED BY <1>1, <1>2, <1>3, <1>4, <1>6, <1>7 DEF InlineOpen, q

\* claim_inline opens one, from the next span on.
Claimed(g, s, t, p) ==
    /\ g \in Sinks /\ GridAt(g) /\ InlineOpen(g, s.inline_seq) /\ AssistPasses(g, t, p)
    /\ SamePasses(g, s) /\ SameFold(g, s) /\ SameGrid(g, s)
    /\ g.pc = "idle" /\ g.ret = s.ret /\ g.pending_len = s.pending_len
    /\ \A v \in Int : Inlined(g, v) <=> Inlined(s, v)

\* Claiming an assist slot opens one new chunk, empty, at the end of the assist ring
\* (open_chunk's inline branch).
LEMMA InlineClaim ==
  ASSUME NEW tree, NEW s \in Sinks, GridAt(s), AssistRing(s), NEW h \in Nat, NEW t \in Nat, NEW p \in Nat,
         CoreAt(tree, s, h, t, p), s.pending_len = 0, s.ret = "idle", can_claim(s),
         NEW g, g = claim_inline([s EXCEPT !.pc = "idle"])
  PROVE  Claimed(g, s, t, p)
<1> DEFINE q == s.inline_seq
           A == ASSIST_SLOTS
           n == s.next_span
           c == [FreeChunk EXCEPT !.first_span = n]
           j == q % A
           ring == [s.inline EXCEPT ![j] = c]
           q1 == q + 1
<1>1. /\ s.inline \in [0..(A - 1) -> Chunks] /\ q \in Nat /\ s.inline_fold_seq \in Nat
      /\ n \in Nat /\ s.fold_pos \in Nat /\ A \in Nat /\ j \in 0..(A - 1)
  BY AssistTypes, ChunkTypes
<1>2. s.inline_fold_seq <= q /\ q - s.inline_fold_seq < A - 1
  BY DEF AssistRing, can_claim
<1>3. c \in Chunks /\ c.first_span = n /\ c.vals = <<>> /\ ~c.sealed
  <2>1. FreeChunk \in Chunks /\ FreeChunk.vals = <<>> /\ ~FreeChunk.sealed
    BY DEF FreeChunk, Chunks
  <2> QED BY <1>1, <2>1 DEF Chunks
<1>4. g = [s EXCEPT !.pc = "idle", !.inline = ring, !.inline_seq = q1, !.cur_inline = j]
  <2> DEFINE y == [s EXCEPT !.pc = "idle"]
  <2>1. y.inline_seq = q /\ y.next_span = n /\ y.inline = s.inline
    BY DEF Sinks
  <2>3. g = [y EXCEPT !.inline_seq = y.inline_seq + 1, !.cur_inline = y.inline_seq % A,
                      !.inline = [y.inline EXCEPT ![y.inline_seq % A] = [FreeChunk EXCEPT !.first_span = y.next_span]]]
    BY DEF claim_inline
  <2> HIDE DEF y, c
  <2>4. g = [y EXCEPT !.inline_seq = q1, !.cur_inline = j, !.inline = ring]
    BY <2>1, <2>3 DEF c
  <2> HIDE DEF ring, j, q1
  <2> QED BY <2>4 DEF y, Sinks
<1>5. ring \in AssistRings /\ j \in InlineSlots /\ q1 \in Nat
  <2> HIDE DEF c
  <2> QED BY <1>1, <1>3 DEF AssistRings, InlineSlots
<1> HIDE DEF c, ring, q1, j
<1>6. g \in Sinks /\ g.inline = ring /\ g.inline_seq = q1 /\ g.cur_inline = j /\ g.pc = "idle"
  <2>1. "idle" \in CorePcs
    BY DEF CorePcs
  <2> DEFINE y == [s EXCEPT !.pc = "idle"]
  <2>2. y \in Sinks /\ y.pc = "idle"
    BY <2>1 DEF Sinks
  <2>3. g = [y EXCEPT !.inline = ring, !.inline_seq = q1, !.cur_inline = j]
    BY <1>4
  <2> HIDE DEF y
  <2>4. g.inline = ring /\ g.inline_seq = q1 /\ g.cur_inline = j /\ g.pc = "idle"
    BY <2>2, <2>3 DEF Sinks
  <2>5. g \in Sinks
    BY ZenonT(30), <1>5, <2>2, <2>3 DEF Sinks
  <2> QED BY <2>4, <2>5
<1>7. /\ SamePasses(g, s) /\ SameFold(g, s) /\ SameGrid(g, s) /\ g.ret = s.ret
      /\ g.pending_len = s.pending_len /\ g.inline_fold_seq = s.inline_fold_seq
  <2>1. SamePasses(g, s) /\ SameFold(g, s)
    BY <1>4 DEF Sinks, SamePasses, SameFold
  <2>2. SameGrid(g, s)
    BY <1>4 DEF Sinks, SameGrid
  <2>3. g.ret = s.ret /\ g.pending_len = s.pending_len /\ g.inline_fold_seq = s.inline_fold_seq
    BY <1>4 DEF Sinks
  <2> QED BY <2>1, <2>2, <2>3
<1>8. GridAt(g)
  BY <1>6, <1>7 DEF GridAt, SameGrid, SamePasses
<1>9. Chunk(g, q) = c /\ \A k \in Nat : k < q /\ q < k + A => Chunk(g, k) = Chunk(s, k)
  <2>1. g.inline = [s.inline EXCEPT ![q % A] = c]
    BY <1>6 DEF ring, j
  <2>2. OneChunk(g, s, q, c)
    BY <1>1, <1>3, <2>1, OtherChunks
  <2> QED BY <2>2 DEF OneChunk
<1>10. /\ Held(g) = s.inline_fold_seq..q /\ Held(s) = s.inline_fold_seq..(q - 1) /\ g.inline_seq - 1 = q
  <2>1. g.inline_seq - 1 = q
    BY <1>1, <1>6 DEF q1
  <2> QED BY <1>7, <2>1 DEF Held
<1>11. ASSUME NEW k \in Held(g), k # q
       PROVE  k \in Held(s) /\ k < q /\ k \in Nat /\ Chunk(g, k) = Chunk(s, k) /\ ChunkEnd(g, k) = ChunkEnd(s, k)
  <2>1. k \in Held(s) /\ k < q /\ q < k + A /\ k \in Nat
    BY SMTT(60), <1>1, <1>2, <1>10, <1>11
  <2> QED BY <1>9, <2>1 DEF ChunkEnd
<1>12. Chunk(g, q).first_span = n /\ Chunk(g, q).vals = <<>> /\ ~Chunk(g, q).sealed /\ ChunkEnd(g, q) = n
  <2>1. Len(<<>>) = 0
    OBVIOUS
  <2> QED BY <1>1, <1>3, <1>9, <2>1 DEF ChunkEnd
<1>13. s.fold_pos <= n
  BY DEF CoreAt, PassState, FoldInPass
<1>14. Chunk(g, q).vals = Run(n, n)
  BY <1>1, <1>12, RunEmpty
<1>15. s.cur_inline = None
  BY <1>1 DEF AssistRing
<1>16. ASSUME NEW k \in Held(g), k # q
       PROVE  /\ Chunk(g, k).first_span \in Nat /\ s.fold_pos <= Chunk(g, k).first_span
              /\ Len(Chunk(g, k).vals) > 0 /\ ChunkEnd(g, k) <= n /\ Chunk(g, k).sealed
              /\ Chunk(g, k).vals = Run(Chunk(g, k).first_span, ChunkEnd(g, k))
  BY <1>11, <1>15, <1>16 DEF AssistRing
<1>17. ASSUME NEW k \in Held(g), NEW m \in Held(g), k < m
       PROVE  ChunkEnd(g, k) <= Chunk(g, m).first_span
  <2>1. k # q
    BY <1>1, <1>10, <1>17
  <2>2. CASE m = q
    BY <1>12, <1>16, <2>1, <2>2
  <2>3. CASE m # q
    BY <1>11, <1>17, <2>1, <2>3 DEF AssistRing
  <2> QED BY <2>2, <2>3
<1>18. InlineOpen(g, q)
  <2>1. g.next_span = n /\ g.fold_pos = s.fold_pos
    BY <1>7 DEF SameGrid, SameFold
  <2>2. g.inline_fold_seq <= q /\ q - g.inline_fold_seq < A - 1
    BY <1>2, <1>7
  <2>3. \A k \in Held(g) : k < q => k # q
    BY <1>1
  <2>4. g.cur_inline = q % A
    BY <1>6 DEF j
  <2>5. /\ q = g.inline_seq - 1 /\ Chunk(g, q).first_span \in Nat /\ g.fold_pos <= Chunk(g, q).first_span
        /\ Chunk(g, q).first_span <= g.next_span /\ ~Chunk(g, q).sealed
        /\ Chunk(g, q).vals = Run(Chunk(g, q).first_span, g.next_span)
    BY <1>1, <1>10, <1>12, <1>13, <1>14, <2>1
  <2> HIDE DEF q, n
  <2>6. \A k \in Held(g) : k < q =>
          /\ Chunk(g, k).first_span \in Nat /\ g.fold_pos <= Chunk(g, k).first_span
          /\ Len(Chunk(g, k).vals) > 0 /\ ChunkEnd(g, k) <= g.next_span /\ Chunk(g, k).sealed
          /\ Chunk(g, k).vals = Run(Chunk(g, k).first_span, ChunkEnd(g, k))
    BY <1>16, <2>1, <2>3
  <2> QED BY <1>17, <2>2, <2>4, <2>5, <2>6 DEF InlineOpen
<1>19. AssistPasses(g, t, p)
  <2>1. PassChain(s, t, p) /\ AssistPasses(s, t, p) /\ NextOpens(s, t, p)
    BY DEF CoreAt, PassState
  <2>2. \A i : Rec(g, i) = Rec(s, i)
    BY <1>7 DEF SamePasses, Rec
  <2>3. \A v : PassEnd(g, t, p, v) <=> PassEnd(s, t, p, v)
    BY <2>2 DEF PassEnd
  <2>4. g.fold_pos = s.fold_pos
    BY <1>7 DEF SameFold
  <2>5. ASSUME NEW k \in Held(g), NEW i \in t..(p - 1), Rec(s, i).end_span # OPEN
        PROVE  \/ Rec(s, i).end_span <= Chunk(g, k).first_span
               \/ Chunk(g, k).sealed /\ ChunkEnd(g, k) <= Rec(s, i).end_span
    <3>1. CASE k = q
      BY <1>12, <2>1, <2>5, <3>1 DEF PassChain
    <3>2. CASE k # q
      BY <1>11, <2>1, <2>5, <3>2 DEF AssistPasses
    <3> QED BY <3>1, <3>2
  <2>6. ASSUME NEW k \in Held(g), Chunk(g, k).first_span > s.fold_pos
        PROVE  Chunk(g, k).first_span % CHUNK = 0 \/ PassEnd(s, t, p, Chunk(g, k).first_span)
    <3>1. CASE k = q
      BY <1>12, <2>1, <2>6, <3>1 DEF NextOpens
    <3>2. CASE k # q
      BY <1>11, <2>1, <2>6, <3>2 DEF AssistPasses
    <3> QED BY <3>1, <3>2
  <2> QED BY <2>2, <2>3, <2>4, <2>5, <2>6 DEF AssistPasses
<1>20. \A v \in Int : Inlined(g, v) <=> Inlined(s, v)
  <2>1. ASSUME NEW v \in Int, Inlined(g, v) PROVE Inlined(s, v)
    <3>1. PICK k \in Held(g) : Chunk(g, k).first_span <= v /\ v < ChunkEnd(g, k)
      BY <2>1 DEF Inlined
    <3>2. k # q
      <4>1. ASSUME k = q PROVE FALSE
        <5>1. n <= v /\ v < n
          BY <1>12, <3>1, <4>1
        <5> QED BY <1>1, <5>1
      <4> QED BY <4>1
    <3> QED BY <1>11, <3>1, <3>2 DEF Inlined
  <2>2. ASSUME NEW v \in Int, Inlined(s, v) PROVE Inlined(g, v)
    <3>1. PICK k \in Held(s) : Chunk(s, k).first_span <= v /\ v < ChunkEnd(s, k)
      BY <2>2 DEF Inlined
    <3>2. k \in Held(g) /\ k # q
      BY <1>1, <1>10
    <3> QED BY <1>11, <3>1, <3>2 DEF Inlined
  <2> QED BY <2>1, <2>2
<1> QED BY <1>6, <1>7, <1>8, <1>18, <1>19, <1>20 DEF Claimed

\* submit_inline_span and the grid step.
InlineMore(tree, g, s, h, t, p) ==
    /\ g \in Sinks /\ GridAt(g) /\ AssistRing(g) /\ AssistPasses(g, t, p) /\ OneMore(g, s)
    /\ g.cur_inline = s.cur_inline /\ g.cur_inline # None /\ g.pending_len > 0
    /\ g.pc = s.pc /\ g.ret = s.ret
    /\ \A v \in Int : Inlined(g, v) <=> (Inlined(s, v) \/ v = s.next_span)

\* A span evaluated inline extends the open chunk by its own value (submit_inline_span).
LEMMA InlineAppend ==
  ASSUME NEW tree, NEW s \in Sinks, GridAt(s), NEW q, InlineOpen(s, q),
         NEW h \in Nat, NEW t \in Nat, NEW p \in Nat, AssistPasses(s, t, p), s.pass_open,
         NEW g, g = advanced(submit_inline_span(s, s.next_span))
  PROVE  InlineMore(tree, g, s, h, t, p)
<1> DEFINE A == ASSIST_SLOTS
           n == s.next_span
           old == Chunk(s, q)
           c == [old EXCEPT !.vals = Append(@, n)]
           j == q % A
           ring == [s.inline EXCEPT ![j] = c]
           pl == s.pending_len + 1
           n1 == n + 1
           a == old.first_span
           y == [s EXCEPT !.inline = ring, !.pending_len = pl]
<1>1. /\ s.inline \in [0..(A - 1) -> Chunks] /\ s.inline_seq \in Nat /\ s.inline_fold_seq \in Nat
      /\ n \in Nat /\ s.fold_pos \in Nat /\ A \in Nat /\ s.pending_len \in Nat
  BY AssistTypes
<1>2. /\ q = s.inline_seq - 1 /\ s.inline_fold_seq <= q /\ q - s.inline_fold_seq < A - 1
      /\ s.cur_inline = j /\ a \in Nat /\ s.fold_pos <= a /\ a <= n /\ ~old.sealed /\ old.vals = Run(a, n)
  BY DEF InlineOpen
<1>3. q \in Nat
  BY SMTT(60), <1>1, <1>2
<1>4. old \in Chunks /\ j \in 0..(A - 1)
  BY <1>3, ChunkTypes
<1>5. c \in Chunks /\ c.first_span = a /\ ~c.sealed /\ c.vals = Append(old.vals, n)
  <2> DEFINE w == Append(old.vals, n)
  <2>1. old.vals \in Seq(Int) /\ n \in Int
    BY <1>1, <1>3, ChunkTypes
  <2>2. w \in Seq(Int)
    BY <2>1
  <2>3. ~old.sealed
    BY <1>2
  <2>4. c = [old EXCEPT !.vals = w]
    OBVIOUS
  <2> HIDE DEF old, w, c
  <2>5. c \in Chunks /\ c.first_span = old.first_span /\ ~c.sealed /\ c.vals = w
    BY <1>4, <2>2, <2>3, <2>4 DEF Chunks
  <2> QED BY <2>5 DEF w
<1>6. c.vals = Run(a, n1) /\ Len(c.vals) = n1 - a /\ Len(c.vals) > 0 /\ a + Len(c.vals) = n1
  <2>1. a \in Int /\ n \in Int /\ n1 \in Int /\ a <= n /\ n <= n1 /\ a <= n1
    BY <1>1, <1>2
  <2>2. Append(old.vals, n) = Run(a, n) \o <<n>>
    <3>1. Run(a, n) \in Seq(Int) /\ n \in Int
      BY <2>1, RunFacts
    <3> QED BY <1>2, <3>1
  <2>3. <<n>> = Run(n, n1)
    BY <2>1, RunOne
  <2>4. Run(a, n) \o Run(n, n1) = Run(a, n1)
    <3> HIDE DEF a, n, n1
    <3> QED BY <2>1, RunJoin
  <2>5. Len(Run(a, n1)) = n1 - a
    <3> HIDE DEF a, n, n1
    <3> QED BY <2>1, RunFacts
  <2>6. c.vals = Run(a, n1)
    BY <1>5, <2>2, <2>3, <2>4
  <2> HIDE DEF a, c
  <2> QED BY <2>1, <2>5, <2>6
<1>7. g = advanced(y)
  <2>1. s.inline[s.cur_inline] = old
    BY <1>2 DEF Chunk
  <2>2. submit_inline_span(s, n) = [s EXCEPT !.inline = [s.inline EXCEPT ![s.cur_inline] =
                 [s.inline[s.cur_inline] EXCEPT !.vals = Append(s.inline[s.cur_inline].vals, n)]], !.pending_len = pl]
    BY DEF submit_inline_span
  <2> HIDE DEF old, j, pl
  <2> QED BY <1>2, <2>1, <2>2
<1> HIDE DEF c, a
<1>8. ring \in AssistRings /\ pl \in Nat
  <2> HIDE DEF j, old
  <2> QED BY <1>1, <1>4, <1>5 DEF AssistRings
<1> HIDE DEF ring, pl
<1>9. y \in Sinks /\ y.inline = ring /\ y.pending_len = pl
  BY <1>8 DEF Sinks
<1>10. /\ SamePasses(y, s) /\ SameFold(y, s) /\ SameGrid(y, s) /\ y.cur_inline = s.cur_inline
       /\ y.inline_seq = s.inline_seq /\ y.inline_fold_seq = s.inline_fold_seq
       /\ y.pc = s.pc /\ y.ret = s.ret
  BY DEF Sinks, SamePasses, SameFold, SameGrid
<1> HIDE DEF y
<1>11. GridAt(y)
  BY <1>10 DEF GridAt, SameGrid, SamePasses
<1>12. Advanced(g, y)
  BY <1>7, <1>9, <1>11, AdvancedSink
<1>13. /\ g \in Sinks /\ SamePasses(g, y) /\ SameFold(g, y) /\ SameAssist(g, y) /\ SamePending(g, y)
       /\ g.next_span = y.next_span + 1 /\ g.pc = y.pc /\ g.ret = y.ret
       /\ g.submit_lane = lane_of(g.next_span) /\ g.submit_rem = CHUNK - (g.next_span % CHUNK)
  BY <1>12 DEF Advanced
<1>14. SamePasses(g, s)
  BY <1>10, <1>13 DEF SamePasses
<1>15. SameFold(g, s)
  BY <1>10, <1>13 DEF SameFold
<1>16. g.next_span = n1 /\ g.pc = s.pc /\ g.ret = s.ret
  BY <1>10, <1>13 DEF SameGrid
<1>17. OneMore(g, s)
  BY <1>14, <1>15, <1>16 DEF OneMore
<1>18. GridAt(g)
  BY <1>13, <1>14, <1>16 DEF GridAt, SamePasses
<1>19. /\ g.cur_inline = s.cur_inline /\ g.cur_inline # None /\ g.pending_len > 0
  <2>1. g.cur_inline = y.cur_inline /\ g.pending_len = y.pending_len
    BY <1>13 DEF SamePending
  <2>2. pl > 0
    BY <1>1 DEF pl
  <2>3. j # None
    BY <1>4 DEF None
  <2> QED BY <1>2, <1>9, <1>10, <2>1, <2>2, <2>3
<1>20. Chunk(g, q) = c /\ \A k \in Nat : k < q /\ q < k + A => Chunk(g, k) = Chunk(s, k)
  <2>1. g.inline = [s.inline EXCEPT ![q % A] = c]
    BY <1>9, <1>13 DEF ring, SameAssist
  <2>2. OneChunk(g, s, q, c)
    BY <1>3, <1>5, <2>1, OtherChunks
  <2> QED BY <2>2 DEF OneChunk
<1>21. g.inline_seq = s.inline_seq /\ g.inline_fold_seq = s.inline_fold_seq /\ Held(g) = Held(s)
  BY <1>10, <1>13 DEF SameAssist, Held
<1>22. ASSUME NEW k \in Held(s), k # q
       PROVE  k < q /\ k \in Nat /\ Chunk(g, k) = Chunk(s, k) /\ ChunkEnd(g, k) = ChunkEnd(s, k)
  <2>1. k < q /\ q < k + A /\ k \in Nat
    BY SMTT(60), <1>1, <1>2, <1>3, <1>22 DEF Held
  <2> QED BY <1>20, <2>1 DEF ChunkEnd
<1>23. Chunk(g, q).first_span = a /\ Chunk(g, q).vals = Run(a, n1) /\ ~Chunk(g, q).sealed /\ ChunkEnd(g, q) = n1
       /\ Len(Chunk(g, q).vals) > 0
  BY <1>5, <1>6, <1>20 DEF ChunkEnd
<1>24. ChunkEnd(s, q) = n
  <2>0. a \in Int /\ n \in Int /\ a <= n /\ a \in Nat /\ n \in Nat
    BY <1>1, <1>2
  <2>1. Len(Run(a, n)) = n - a /\ a \in Nat /\ n \in Nat
    <3> HIDE DEF n
    <3> QED BY <2>0, RunFacts
  <2> QED BY <1>2, <2>1 DEF ChunkEnd, a
<1>25. q \in Held(s)
  BY <1>1, <1>2, <1>3 DEF Held
<1>26. AssistRing(g)
  <2>1. ASSUME NEW k \in Held(s)
        PROVE  /\ Chunk(g, k).first_span \in Nat /\ s.fold_pos <= Chunk(g, k).first_span
               /\ Len(Chunk(g, k).vals) > 0 /\ ChunkEnd(g, k) <= n1
               /\ Chunk(g, k).vals = Run(Chunk(g, k).first_span, ChunkEnd(g, k))
               /\ ~Chunk(g, k).sealed <=> k = q
    <3>1. CASE k = q
      BY SMTT(60), <1>1, <1>2, <1>23, <3>1
    <3>2. CASE k # q
      <4>1. /\ Chunk(s, k).first_span \in Nat /\ s.fold_pos <= Chunk(s, k).first_span
            /\ Len(Chunk(s, k).vals) > 0 /\ ChunkEnd(s, k) <= n /\ Chunk(s, k).sealed
            /\ Chunk(s, k).vals = Run(Chunk(s, k).first_span, ChunkEnd(s, k))
        BY <1>22, <3>2 DEF InlineOpen
      <4>2. ChunkEnd(s, k) \in Int
        <5>1. Len(Chunk(s, k).vals) \in Nat
          BY <1>22, <3>2, ChunkTypes
        <5> QED BY <4>1, <5>1 DEF ChunkEnd
      <4>3. ChunkEnd(s, k) <= n1
        BY <1>1, <4>1, <4>2
      <4> QED BY <1>22, <3>2, <4>1, <4>3
    <3> QED BY <3>1, <3>2
  <2>2. ASSUME NEW k \in Held(s), NEW m \in Held(s), k < m
        PROVE  ChunkEnd(g, k) <= Chunk(g, m).first_span
    <3>1. k # q
      BY <1>22, <2>2, <1>1, <1>2 DEF Held
    <3>2. Chunk(g, m).first_span = Chunk(s, m).first_span
      <4>1. CASE m = q
        BY <1>23, <4>1 DEF a
      <4>2. CASE m # q
        BY <1>22, <4>2
      <4> QED BY <4>1, <4>2
    <3>3. ChunkEnd(s, k) <= Chunk(s, m).first_span
      BY <2>2 DEF InlineOpen
    <3> QED BY <1>22, <3>1, <3>2, <3>3
  <2>3. s.inline_fold_seq <= s.inline_seq /\ s.inline_seq - s.inline_fold_seq < A
    BY SMTT(60), <1>1, <1>2
  <2>4. g.cur_inline = q % A /\ q = g.inline_seq - 1
    BY <1>2, <1>19, <1>21
  <2>5. g.next_span = n1 /\ g.fold_pos = s.fold_pos
    BY <1>15, <1>16 DEF SameFold
  <2> HIDE DEF n1, n, j
  <2> QED BY <1>19, <1>21, <1>23, <1>25, <2>1, <2>2, <2>3, <2>4, <2>5 DEF AssistRing
<1>27. AssistPasses(g, t, p)
  <2>1. \A i : Rec(g, i) = Rec(s, i)
    BY <1>14 DEF SamePasses, Rec
  <2>2. \A v : PassEnd(g, t, p, v) <=> PassEnd(s, t, p, v)
    BY <2>1 DEF PassEnd
  <2>3. g.fold_pos = s.fold_pos
    BY <1>15 DEF SameFold
  <2>4. \A k \in Held(s) : Chunk(g, k).first_span = Chunk(s, k).first_span
    BY <1>22, <1>23 DEF a
  <2>5. \A k \in Held(s) : Chunk(s, k).sealed => Chunk(g, k).sealed /\ ChunkEnd(g, k) = ChunkEnd(s, k)
    BY <1>2, <1>22
  <2> QED BY <1>21, <2>1, <2>2, <2>3, <2>4, <2>5 DEF AssistPasses
<1>28. ASSUME NEW v \in Int
       PROVE  Inlined(g, v) <=> (Inlined(s, v) \/ v = n)
  <2>1. ASSUME Inlined(g, v) PROVE Inlined(s, v) \/ v = n
    <3>1. PICK k \in Held(s) : Chunk(g, k).first_span <= v /\ v < ChunkEnd(g, k)
      BY <1>21, <2>1 DEF Inlined
    <3>2. CASE k = q
      <4>1. a <= v /\ v < n1
        BY <1>23, <3>1, <3>2
      <4>2. v < n \/ v = n
        BY <1>1, <4>1
      <4> QED BY <1>24, <1>25, <4>1, <4>2 DEF Inlined, a
    <3>3. CASE k # q
      BY <1>22, <3>1, <3>3 DEF Inlined
    <3> QED BY <3>2, <3>3
  <2>2. ASSUME Inlined(s, v) PROVE Inlined(g, v)
    <3>1. PICK k \in Held(s) : Chunk(s, k).first_span <= v /\ v < ChunkEnd(s, k)
      BY <2>2 DEF Inlined
    <3>2. CASE k = q
      <4>1. a <= v /\ v < n
        BY <1>24, <3>1, <3>2 DEF a
      <4>2. v < n1
        BY <1>1, <4>1
      <4> QED BY <1>21, <1>23, <1>25, <4>1, <4>2 DEF Inlined
    <3>3. CASE k # q
      BY <1>21, <1>22, <3>1, <3>3 DEF Inlined
    <3> QED BY <3>2, <3>3
  <2>3. ASSUME v = n PROVE Inlined(g, v)
    <3>1. a <= v /\ v < n1
      BY <1>1, <1>2, <2>3 DEF a
    <3> QED BY <1>21, <1>23, <1>25, <3>1 DEF Inlined
  <2> QED BY <2>1, <2>2, <2>3
<1> QED BY <1>13, <1>16, <1>17, <1>18, <1>19, <1>26, <1>27, <1>28 DEF InlineMore

\* submit_span into the assist ring: what the lanes hold is the same, and nothing is
\* pending in one.
InlineDone(g, s) ==
    Flying(g) = Flying(s) /\ g.fold_pos = s.fold_pos /\ (g.pending_len = 0 \/ g.cur_inline # None)

\* Submitting a span inline keeps the core invariant; a full chunk is sealed on the way.
LEMMA InlineCore ==
  ASSUME NEW tree, NEW s \in Sinks, GridAt(s), NEW q, InlineOpen(s, q),
         NEW h \in Nat, NEW t \in Nat, NEW p \in Nat, PassState(tree, s, h, t, p), NothingDue(s, t, p),
         AssistPasses(s, t, p), s.pass_open,
         NEW x, x = advanced(submit_inline_span(s, s.next_span)),
         NEW g, g = IF x.submit_rem = CHUNK THEN sealed(x) ELSE x
  PROVE  CoreOk(tree, g) /\ InlineDone(g, s)
<1>1. InlineMore(tree, x, s, h, t, p)
  BY InlineAppend
<1>2. /\ x \in Sinks /\ GridAt(x) /\ AssistRing(x) /\ AssistPasses(x, t, p) /\ OneMore(x, s)
      /\ x.cur_inline # None /\ x.pending_len > 0
      /\ \A v \in Int : Inlined(x, v) <=> (Inlined(s, v) \/ v = s.next_span)
  BY <1>1 DEF InlineMore
<1>3. PassState(tree, x, h, t, p) /\ NothingDue(x, t, p)
  BY <1>2, PassesMore
<1>4. s.fold_pos \in Nat /\ s.next_span \in Nat
  BY DEF Sinks
<1>5. x.fold_pos = s.fold_pos /\ x.next_span = s.next_span + 1
  BY <1>2 DEF OneMore, SameFold
<1>6. Flying(x) = Flying(s)
  <2>1. ASSUME NEW v \in Flying(x) PROVE v \in Flying(s)
    <3>1. v \in Int /\ s.fold_pos <= v /\ v <= s.next_span /\ ~Inlined(x, v)
      BY <1>4, <1>5 DEF Flying
    <3>2. ~Inlined(s, v) /\ v # s.next_span
      BY <1>2, <3>1
    <3> QED BY <1>4, <3>1, <3>2 DEF Flying
  <2>2. ASSUME NEW v \in Flying(s) PROVE v \in Flying(x)
    <3>1. v \in Int /\ s.fold_pos <= v /\ v < s.next_span /\ ~Inlined(s, v)
      BY <1>4 DEF Flying
    <3>2. ~Inlined(x, v)
      BY <1>2, <1>4, <3>1
    <3> QED BY <1>4, <1>5, <3>1, <3>2 DEF Flying
  <2> QED BY <2>1, <2>2
<1>7. CASE x.submit_rem # CHUNK
  <2>1. g = x
    BY <1>7
  <2>2. NextOpens(x, t, p)
    BY <1>2 DEF NextOpens
  <2> QED BY <1>2, <1>3, <1>5, <1>6, <2>1, <2>2 DEF CoreOk, CoreAt, InlineDone
<1>8. CASE x.submit_rem = CHUNK
  <2>1. g = flush_sink(x)
    BY <1>2, <1>8 DEF flush_sink
  <2>2. /\ g \in Sinks /\ GridAt(g) /\ AssistRing(g) /\ PassState(tree, g, h, t, p) /\ AssistPasses(g, t, p)
        /\ g.pending_len = 0 /\ SameGrid(g, x) /\ SamePasses(g, x) /\ SameFold(g, x) /\ SameChunks(g, x)
    BY <1>2, <1>3, <2>1, FlushSink
  <2>3. g.next_span = x.next_span /\ g.fold_pos = x.fold_pos
    BY <2>2 DEF SameGrid, SameFold
  <2>4. NothingDue(g, t, p)
    BY <1>3, <2>2, <2>3, PassStateSame
  <2>5. Flying(g) = Flying(x)
    BY <1>2, <2>2, <2>3, FlyingSame
  <2>6. g.next_span % CHUNK = 0
    <3>1. CHUNK \in Nat \ {0} /\ g.next_span \in Nat /\ g.submit_rem = CHUNK
      BY <1>8, <2>2, GridAssumption DEF Sinks, SameGrid
    <3>2. g.next_span % CHUNK \in 0..(CHUNK - 1) /\ g.submit_rem = CHUNK - (g.next_span % CHUNK)
      BY <2>2, <3>1, DivMod DEF GridAt
    <3> DEFINE m == g.next_span % CHUNK
    <3>3. m \in 0..(CHUNK - 1) /\ CHUNK = CHUNK - m
      BY <3>1, <3>2
    <3> HIDE DEF m
    <3>4. m = 0
      BY <3>1, <3>3
    <3> QED BY <3>4 DEF m
  <2>7. NextOpens(g, t, p)
    BY <2>6 DEF NextOpens
  <2> QED BY <1>5, <1>6, <2>2, <2>3, <2>4, <2>5, <2>7 DEF CoreOk, CoreAt, InlineDone
<1> QED BY <1>7, <1>8

\* on_span while a chunk of the assist ring is open.
LEMMA SubmitOpenCore ==
  ASSUME NEW tree, NEW s, CoreOk(tree, s), s.pass_open, s.cur_inline # None,
         NEW x, x = advanced(submit_inline_span(s, s.next_span)),
         NEW g, g = IF x.submit_rem = CHUNK THEN sealed(x) ELSE x
  PROVE  CoreOk(tree, g) /\ InlineDone(g, s)
<1>1. PICK h \in Nat, t \in Nat, p \in Nat : CoreAt(tree, s, h, t, p)
  BY DEF CoreOk
<1>2. s \in Sinks /\ GridAt(s) /\ AssistRing(s) /\ PassState(tree, s, h, t, p) /\ NothingDue(s, t, p)
      /\ AssistPasses(s, t, p)
  BY <1>1 DEF CoreOk, CoreAt
<1> DEFINE q == s.inline_seq - 1
<1>3. InlineOpen(s, q)
  BY <1>2, InlineGoesOn
<1> HIDE DEF q
<1> QED BY <1>2, <1>3, InlineCore

\* on_span that opens a chunk of the assist ring.
LEMMA SubmitAssistCore ==
  ASSUME NEW tree, NEW s, CoreOk(tree, s), s.pass_open, s.pending_len = 0, s.ret = "idle", can_claim(s),
         NEW y, y = claim_inline([s EXCEPT !.pc = "idle"]),
         NEW x, x = advanced(submit_inline_span(y, y.next_span)),
         NEW g, g = IF x.submit_rem = CHUNK THEN sealed(x) ELSE x
  PROVE  CoreOk(tree, g) /\ InlineDone(g, s)
<1>1. PICK h \in Nat, t \in Nat, p \in Nat : CoreAt(tree, s, h, t, p)
  BY DEF CoreOk
<1>2. s \in Sinks /\ GridAt(s) /\ AssistRing(s) /\ PassState(tree, s, h, t, p) /\ NothingDue(s, t, p)
  BY <1>1 DEF CoreOk, CoreAt
<1>3. Claimed(y, s, t, p)
  BY <1>1, <1>2, InlineClaim
<1> DEFINE q == s.inline_seq
<1>4. /\ y \in Sinks /\ GridAt(y) /\ InlineOpen(y, q) /\ AssistPasses(y, t, p)
      /\ SamePasses(y, s) /\ SameFold(y, s) /\ SameGrid(y, s)
      /\ \A v \in Int : Inlined(y, v) <=> Inlined(s, v)
  BY <1>3 DEF Claimed
<1> HIDE DEF q
<1>5. y.next_span = s.next_span /\ y.fold_pos = s.fold_pos /\ y.pass_open
  BY <1>4 DEF SameGrid, SameFold, SamePasses
<1>6. PassState(tree, y, h, t, p) /\ NothingDue(y, t, p)
  BY <1>2, <1>4, <1>5, PassStateSame
<1>7. CoreOk(tree, g) /\ InlineDone(g, y)
  BY <1>4, <1>5, <1>6, InlineCore
<1>8. Flying(y) = Flying(s)
  <2>1. s.fold_pos \in Nat /\ s.next_span \in Nat
    BY <1>2 DEF Sinks
  <2>2. \A v \in s.fold_pos..(s.next_span - 1) : v \in Int
    BY <2>1
  <2> QED BY <1>4, <1>5, <2>2 DEF Flying
<1> QED BY <1>5, <1>7, <1>8 DEF InlineDone

-----------------------------------------------------------------------------
(* The fold, on the sink. *)

\* Between a number and a later multiple of N is the rest of its block.
LEMMA NextMultiple ==
  ASSUME NEW N \in Nat \ {0}, NEW a \in Nat, NEW b \in Nat, b % N = 0, b > a
  PROVE  b >= a + (N - (a % N))
<1> DEFINE d == a \div N
           m == a % N
           e == b \div N
           k == e - d
<1>1. d \in Nat /\ m \in 0..(N - 1) /\ a = N * d + m
  BY DivMod
<1>2. e \in Nat /\ b = N * e + (b % N)
  BY DivMod
<1> HIDE DEF d, m, e
<1>3. k \in Int /\ N * k \in Int /\ b - a = N * k - m
  <2>1. N * k = N * e - N * d /\ N * e \in Int /\ N * d \in Int
    BY <1>1, <1>2
  <2> QED BY <1>1, <1>2, <2>1
<1> HIDE DEF k
<1>4. k >= 1 => N * k >= N
  BY <1>3, Multiples
<1>5. k <= 0 => N * k <= 0
  BY <1>3, Multiples
<1>6. k >= 1
  BY <1>1, <1>3, <1>5
<1>7. N * k >= N
  BY <1>4, <1>6
<1> QED BY <1>1, <1>3, <1>7 DEF m

\* The fold has come to m, in the oldest pass.
LEMMA PassesFolded ==
  ASSUME NEW tree, NEW s \in Sinks, NEW h \in Nat, NEW t \in Nat, NEW p \in Nat,
         PassState(tree, s, h, t, p), t < p, NEW m \in Nat, s.fold_pos <= m, m <= s.next_span,
         Rec(s, t).end_span # OPEN => m <= Rec(s, t).end_span,
         NEW y, SamePasses(y, s), y.next_span = s.next_span, y.fold_pos = m,
         FoldAt(tree, y.fold, FoldStart(s, t, p), m)
  PROVE  PassState(tree, y, h, t, p)
<1>1. \A i : Rec(y, i) = Rec(s, i)
  BY DEF SamePasses, Rec
<1>2. PassRing(y, h, t, p) /\ PassesDone(y)
  BY DEF PassState, PassRing, PassesDone, SamePasses
<1>3. PassChain(y, t, p)
  BY <1>1 DEF PassState, PassChain, SamePasses
<1>4. FoldInPass(y, t, p)
  <2>1. Rec(s, t).start <= s.fold_pos /\ Rec(s, t).start \in Nat /\ s.fold_pos \in Nat
    BY SinkTypes, RecTypes DEF PassState, FoldInPass
  <2>2. Rec(s, t).start <= m
    BY <2>1
  <2> QED BY <1>1, <2>2 DEF FoldInPass
<1>5. FoldStart(y, t, p) = FoldStart(s, t, p)
  BY <1>1 DEF FoldStart
<1> QED BY <1>1, <1>2, <1>3, <1>4, <1>5 DEF PassState

\* The fold moves on to m, past the chunks of the assist ring before j.
FoldsTo(y, s, m, j) ==
    /\ y.fold_pos = m /\ s.fold_pos <= m /\ m <= s.next_span
    /\ SamePasses(y, s) /\ SameGrid(y, s) /\ SamePending(y, s) /\ y.pc = s.pc /\ y.ret = s.ret
    /\ y.inline = s.inline /\ y.inline_seq = s.inline_seq /\ y.inline_fold_seq = j
    /\ s.inline_fold_seq <= j /\ j <= s.inline_seq
    /\ \A k \in Held(s) : IF k < j THEN Chunk(s, k).sealed ELSE m <= Chunk(s, k).first_span

\* Folding on to span m of the pass at the tail, with its boundary due or not, keeps the core
\* invariant.
LEMMA FoldedCore ==
  ASSUME NEW tree \in BOOLEAN, NEW s, CoreOk(tree, s), NEW h \in Nat, NEW t \in Nat, NEW p \in Nat,
         CoreAt(tree, s, h, t, p), t < p, NEW m \in Nat, NEW j \in Nat, NEW y \in Sinks, FoldsTo(y, s, m, j),
         Rec(s, t).end_span # OPEN => m <= Rec(s, t).end_span,
         FoldAt(tree, y.fold, FoldStart(s, t, p), m),
         NEW g, g = complete_boundaries(tree, y)
  PROVE  CoreOk(tree, g) /\ Passed(g, y)
<1>1. s \in Sinks /\ GridAt(s) /\ AssistRing(s) /\ PassState(tree, s, h, t, p) /\ AssistPasses(s, t, p)
      /\ NextOpens(s, t, p)
  BY DEF CoreOk, CoreAt
<1>2. /\ y.fold_pos = m /\ s.fold_pos <= m /\ m <= s.next_span /\ SamePasses(y, s) /\ SameGrid(y, s)
      /\ SamePending(y, s) /\ y.pc = s.pc /\ y.ret = s.ret
      /\ y.inline = s.inline /\ y.inline_seq = s.inline_seq /\ y.inline_fold_seq = j
      /\ s.inline_fold_seq <= j /\ j <= s.inline_seq
      /\ \A k \in Held(s) : IF k < j THEN Chunk(s, k).sealed ELSE m <= Chunk(s, k).first_span
  BY DEF FoldsTo
<1>3. y.next_span = s.next_span
  BY <1>2 DEF SameGrid
<1>4. PassState(tree, y, h, t, p)
  BY <1>1, <1>2, <1>3, PassesFolded
<1>5. GridAt(y)
  BY <1>1, <1>2 DEF GridAt, SameGrid, SamePasses
<1>6. /\ s.inline_seq \in Nat /\ s.inline_fold_seq \in Nat /\ s.fold_pos \in Nat /\ s.next_span \in Nat
      /\ ASSIST_SLOTS \in Nat
  BY <1>1, AssistTypes
<1>7. \A k \in Held(y) : k \in Held(s) /\ ~(k < j)
  BY <1>2, <1>6 DEF Held
<1>8. \A k : Chunk(y, k) = Chunk(s, k) /\ ChunkEnd(y, k) = ChunkEnd(s, k)
  BY <1>2 DEF Chunk, ChunkEnd
<1>9. AssistRing(y)
  <2>1. y.inline_fold_seq <= y.inline_seq /\ y.inline_seq - y.inline_fold_seq < ASSIST_SLOTS
    <3>1. s.inline_seq - s.inline_fold_seq < ASSIST_SLOTS
      BY <1>1 DEF AssistRing
    <3> QED BY <1>2, <1>6, <3>1
  <2>2. y.cur_inline = s.cur_inline /\ y.pending_len = s.pending_len
    BY <1>2 DEF SamePending
  <2>3. \A k \in Held(y) :
          /\ Chunk(y, k).first_span \in Nat /\ y.fold_pos <= Chunk(y, k).first_span
          /\ Len(Chunk(y, k).vals) > 0 /\ ChunkEnd(y, k) <= y.next_span
          /\ Chunk(y, k).vals = Run(Chunk(y, k).first_span, ChunkEnd(y, k))
          /\ ~Chunk(y, k).sealed <=> (y.cur_inline # None /\ k = y.inline_seq - 1)
    BY <1>1, <1>2, <1>3, <1>7, <1>8, <2>2 DEF AssistRing
  <2>4. \A k, i \in Held(y) : k < i => ChunkEnd(y, k) <= Chunk(y, i).first_span
    BY <1>1, <1>7, <1>8 DEF AssistRing
  <2>5. ASSUME s.cur_inline # None
        PROVE  /\ y.inline_seq - 1 \in Held(y) /\ y.pending_len > 0
               /\ y.cur_inline = (y.inline_seq - 1) % ASSIST_SLOTS
               /\ ChunkEnd(y, y.inline_seq - 1) = y.next_span
    <3> DEFINE q == s.inline_seq - 1
    <3>1. /\ q \in Held(s) /\ s.pending_len > 0 /\ s.cur_inline = q % ASSIST_SLOTS
          /\ ChunkEnd(s, q) = s.next_span /\ ~Chunk(s, q).sealed
      BY <1>1, <2>5 DEF AssistRing
    <3>2. ~(q < j)
      BY <1>2, <3>1
    <3>3. q \in Held(y)
      BY <1>2, <1>6, <3>1, <3>2 DEF Held
    <3> QED BY <1>2, <1>3, <1>8, <2>2, <3>1, <3>3
  <2> QED BY <2>1, <2>2, <2>3, <2>4, <2>5 DEF AssistRing
<1>10. \A i : Rec(y, i) = Rec(s, i)
  BY <1>2 DEF SamePasses, Rec
<1>11. \A v : PassEnd(y, t, p, v) <=> PassEnd(s, t, p, v)
  BY <1>10 DEF PassEnd
<1>12. AssistPasses(y, t, p)
  <2>1. \A k \in Held(y) : Chunk(s, k).first_span > m => Chunk(s, k).first_span > s.fold_pos
    <3>1. \A k \in Held(s) : Chunk(s, k).first_span \in Nat
      BY <1>1 DEF AssistRing
    <3> QED BY <1>2, <1>6, <1>7, <3>1
  <2> QED BY <1>1, <1>2, <1>7, <1>8, <1>10, <1>11, <2>1 DEF AssistPasses
<1>13. NextOpens(y, t, p)
  <2>1. s.next_span > m => s.next_span > s.fold_pos
    BY <1>2, <1>6
  <2> QED BY <1>1, <1>2, <1>3, <1>11, <2>1 DEF NextOpens, SamePending
<1> QED BY <1>4, <1>5, <1>9, <1>12, <1>13, CoreComplete

\* folded, its last call apart.
FoldsAs(tree, s, n) ==
    \E r \in Int : folded(tree, s, n) =
        complete_boundaries(tree, [s EXCEPT !.fold_pos = s.fold_pos + n, !.fold_rem = r])

\* The fold of n values is the tree fold or the journal push of them, by the configured algorithm.
LEMMA FoldedIs ==
  ASSUME NEW tree, NEW s \in Sinks, NEW n \in Nat
  PROVE  FoldsAs(tree, s, n)
<1> DEFINE m == s.fold_pos + n
           r1 == s.fold_rem - n
           t == [s EXCEPT !.fold_pos = m, !.fold_rem = r1]
<1>1. r1 \in Int /\ CHUNK \in Int
  BY GridAssumption DEF Sinks
<1>2. folded(tree, s, n) = complete_boundaries(tree, IF t.fold_rem = 0 THEN [t EXCEPT !.fold_rem = CHUNK] ELSE t)
  BY DEF folded
<1> HIDE DEF m, r1
<1>3. t.fold_rem = r1
  BY DEF Sinks
<1>4. [t EXCEPT !.fold_rem = CHUNK] = [s EXCEPT !.fold_pos = m, !.fold_rem = CHUNK]
  BY DEF Sinks
<1>5. CASE r1 = 0
  BY <1>1, <1>2, <1>3, <1>4, <1>5 DEF m, FoldsAs
<1>6. CASE r1 # 0
  BY <1>1, <1>2, <1>3, <1>6 DEF m, FoldsAs
<1> QED BY <1>5, <1>6

\* What the fold of a chunk or of a run of results leaves as it was.
Folded(g, s) == SameGrid(g, s) /\ SamePending(g, s) /\ g.fold_pos \in s.fold_pos..s.next_span

\* The oldest chunk of the assist ring is folded.
LEMMA FoldInlineCore ==
  ASSUME NEW tree \in BOOLEAN, NEW s, CoreOk(tree, s), s.fold_pos < s.next_span, inline_due(s),
         NEW g, g = fold_inline(tree, s)
  PROVE  CoreOk(tree, g) /\ Folded(g, s) /\ Flying(g) = Flying(s)
<1>1. PICK h \in Nat, t \in Nat, p \in Nat : CoreAt(tree, s, h, t, p)
  BY DEF CoreOk
<1>2. s \in Sinks /\ GridAt(s) /\ AssistRing(s) /\ PassState(tree, s, h, t, p) /\ NothingDue(s, t, p)
      /\ AssistPasses(s, t, p)
  BY <1>1 DEF CoreOk, CoreAt
<1> DEFINE fp == s.fold_pos
           k == s.inline_fold_seq
           vals == Chunk(s, k).vals
           n == Len(vals)
           m == fp + n
           j == k + 1
           f == push_values(tree, s.fold, vals, fp)
           a == FoldStart(s, t, p)
           y0 == [s EXCEPT !.fold = f, !.inline_fold_seq = j]
<1>3. /\ s.inline_seq \in Nat /\ k \in Nat /\ fp \in Nat /\ s.next_span \in Nat /\ s.fold \in Folds
      /\ s.passes \in PassRings
  BY <1>2, AssistTypes, SinkTypes
<1>4. k < s.inline_seq /\ Chunk(s, k).sealed /\ Chunk(s, k).first_span = fp
  BY DEF inline_due, oldest_inline, Chunk
<1>5. k \in Held(s)
  BY <1>3, <1>4 DEF Held
<1>6. n \in Nat /\ vals \in Seq(Int)
  BY <1>2, <1>3, ChunkTypes
<1>7. n > 0 /\ m <= s.next_span /\ vals = Run(fp, m) /\ ChunkEnd(s, k) = m
  BY <1>2, <1>4, <1>5 DEF AssistRing, ChunkEnd
<1>8. t < p
  BY <1>2, <1>3 DEF PassState, PassRing, FoldInPass
<1>9. Rec(s, t).end_span # OPEN => m <= Rec(s, t).end_span
  <2>1. t \in t..(p - 1)
    BY <1>8
  <2>2. ASSUME Rec(s, t).end_span # OPEN PROVE m <= Rec(s, t).end_span
    <3>1. fp < Rec(s, t).end_span
      BY <1>2, <1>8, <2>2 DEF NothingDue
    <3>2. Rec(s, t).end_span \in Nat \cup {OPEN}
      BY <1>3, RecTypes
    <3>3. Rec(s, t).end_span <= fp \/ m <= Rec(s, t).end_span
      BY <1>2, <1>4, <1>5, <1>7, <2>1, <2>2 DEF AssistPasses
    <3> QED BY <1>3, <2>2, <3>1, <3>2, <3>3
  <2> QED BY <2>2
<1>10. a \in Nat /\ FoldAt(tree, s.fold, a, fp)
  <2>1. Rec(s, t).start \in Nat
    BY <1>3, RecTypes
  <2> QED BY <1>2, <1>3, <2>1 DEF FoldStart, PassState
<1> HIDE DEF a
<1>11. f \in Folds /\ FoldAt(tree, f, a, m)
  <2>1. vals \in [1..n -> Int] /\ \A i \in 1..n : vals[i] = fp + i - 1
    <3>1. \A i \in 1..n : vals[i] = fp + i - 1
      <4>1. fp \in Int /\ m \in Int /\ fp <= m /\ m - fp = n
        BY <1>3, <1>6
      <4>2. \A i \in 1..(m - fp) : Run(fp, m)[i] = fp + i - 1
        <5> HIDE DEF fp, m
        <5> QED BY <4>1, RunFacts
      <4> QED BY <1>7, <4>1, <4>2
    <3> QED BY <1>6, <3>1
  <2> HIDE DEF n, vals, fp
  <2> QED BY <1>3, <1>6, <1>10, <2>1, PushValues DEF fp
<1>12. m \in Nat /\ j \in Nat
  BY <1>3, <1>6
<1>13. fold_inline(tree, s) = folded(tree, y0, n)
  BY DEF fold_inline, oldest_inline, Chunk
<1> HIDE DEF f, j
<1>14. y0 \in Sinks /\ y0.fold_pos = fp
  BY <1>2, <1>11, <1>12 DEF Sinks
<1> HIDE DEF y0, n
<1>15. PICK r \in Int : g = complete_boundaries(tree, [y0 EXCEPT !.fold_pos = y0.fold_pos + n, !.fold_rem = r])
  <2>1. FoldsAs(tree, y0, n)
    BY <1>6, <1>14, FoldedIs
  <2> QED BY <1>13, <2>1 DEF FoldsAs
<1> HIDE DEF m
<1> DEFINE y == [y0 EXCEPT !.fold_pos = m, !.fold_rem = r]
<1>16. g = complete_boundaries(tree, y)
  BY <1>14, <1>15 DEF m
<1>17. y \in Sinks /\ y.fold_pos = m /\ y.fold = y0.fold /\ y.inline_fold_seq = y0.inline_fold_seq
  BY <1>12, <1>14 DEF Sinks
<1>18. /\ SamePasses(y, y0) /\ SameGrid(y, y0) /\ SamePending(y, y0) /\ y.pc = y0.pc /\ y.ret = y0.ret
       /\ y.inline = y0.inline /\ y.inline_seq = y0.inline_seq
  BY <1>14 DEF Sinks, SamePasses, SameGrid, SamePending
<1>19. /\ SamePasses(y0, s) /\ SameGrid(y0, s) /\ SamePending(y0, s) /\ y0.pc = s.pc /\ y0.ret = s.ret
       /\ y0.inline = s.inline /\ y0.inline_seq = s.inline_seq /\ y0.inline_fold_seq = j /\ y0.fold = f
  BY <1>2, <1>11, <1>12 DEF y0, Sinks, SamePasses, SameGrid, SamePending
<1> HIDE DEF y
<1>20. SamePasses(y, s) /\ SameGrid(y, s) /\ SamePending(y, s)
  <2>1. SamePasses(y, s)
    BY <1>18, <1>19 DEF SamePasses
  <2>2. SameGrid(y, s)
    BY <1>18, <1>19 DEF SameGrid
  <2>3. SamePending(y, s)
    BY <1>18, <1>19 DEF SamePending
  <2> QED BY <2>1, <2>2, <2>3
<1>21. /\ y.fold = f /\ y.inline_fold_seq = j /\ y.inline = s.inline /\ y.inline_seq = s.inline_seq
       /\ y.pc = s.pc /\ y.ret = s.ret
  BY <1>17, <1>18, <1>19
<1>22. ASSUME NEW i \in Held(s)
       PROVE  (i < j <=> i = k) /\ (i # k => m <= Chunk(s, i).first_span)
  <2>1. i < j <=> i = k
    BY <1>3, <1>22 DEF Held, j
  <2>2. i # k => k < i
    BY <1>3, <1>22 DEF Held
  <2> QED BY <1>2, <1>5, <1>7, <2>1, <2>2 DEF AssistRing
<1>23. FoldsTo(y, s, m, j)
  <2>1. fp <= m /\ k <= j /\ j <= s.inline_seq
    BY <1>3, <1>4, <1>6 DEF m, j
  <2> QED BY <1>4, <1>7, <1>17, <1>20, <1>21, <1>22, <2>1 DEF FoldsTo
<1>24. CoreOk(tree, g) /\ Passed(g, y)
  BY <1>1, <1>8, <1>9, <1>11, <1>12, <1>16, <1>17, <1>21, <1>23, FoldedCore DEF a
<1>25. /\ g.next_span = y.next_span /\ g.fold_pos = m /\ g.inline = y.inline /\ g.inline_seq = y.inline_seq
       /\ g.inline_fold_seq = j /\ SameGrid(g, y) /\ SamePending(g, y)
  BY <1>17, <1>21, <1>24, PassedSame DEF SameGrid, SamePending
<1>26. Folded(g, s)
  <2>1. SameGrid(g, s) /\ SamePending(g, s)
    BY <1>20, <1>25 DEF SameGrid, SamePending
  <2>2. m \in fp..s.next_span
    BY <1>3, <1>6, <1>7, <1>12 DEF m
  <2> QED BY <1>25, <2>1, <2>2 DEF Folded
<1>27. /\ \A i : Chunk(g, i) = Chunk(s, i) /\ ChunkEnd(g, i) = ChunkEnd(s, i)
       /\ Held(g) = j..(s.inline_seq - 1) /\ g.next_span = s.next_span
  BY <1>20, <1>21, <1>25 DEF Chunk, ChunkEnd, Held, SameGrid
<1>28. \A i \in Held(s) : i = k \/ i \in Held(g)
  <2>1. Held(s) = k..(s.inline_seq - 1)
    BY DEF Held
  <2> QED BY <1>3, <1>27, <2>1 DEF j
<1>29. \A i \in Held(g) : i \in Held(s)
  <2>1. Held(s) = k..(s.inline_seq - 1)
    BY DEF Held
  <2> QED BY <1>3, <1>27, <2>1 DEF j
<1>30. Flying(g) = Flying(s)
  <2>1. ASSUME NEW v \in Flying(g) PROVE v \in Flying(s)
    <3>1. v \in Int /\ m <= v /\ fp <= v /\ v <= s.next_span - 1 /\ ~Inlined(g, v)
      BY <1>3, <1>6, <1>12, <1>25, <1>27 DEF Flying, m
    <3>2. ~Inlined(s, v)
      <4>1. ASSUME NEW i \in Held(s), Chunk(s, i).first_span <= v, v < ChunkEnd(s, i) PROVE FALSE
        <5>1. CASE i = k
          BY <1>7, <1>12, <3>1, <4>1, <5>1
        <5>2. CASE i # k
          BY <1>27, <1>28, <3>1, <4>1, <5>2 DEF Inlined
        <5> QED BY <5>1, <5>2
      <4> QED BY <4>1 DEF Inlined
    <3> QED BY <1>3, <3>1, <3>2 DEF Flying
  <2>2. ASSUME NEW v \in Flying(s) PROVE v \in Flying(g)
    <3>1. v \in Int /\ fp <= v /\ v <= s.next_span - 1 /\ ~Inlined(s, v)
      BY <1>3 DEF Flying
    <3>2. ~(v < m)
      BY <1>4, <1>5, <1>7, <3>1 DEF Inlined
    <3>3. ~Inlined(g, v)
      BY <1>27, <1>29, <3>1 DEF Inlined
    <3> QED BY <1>3, <1>12, <1>25, <1>27, <3>1, <3>2, <3>3 DEF Flying
  <2> QED BY <2>1, <2>2
<1> QED BY <1>24, <1>26, <1>30

\* The least of a set of numbers.
LEMMA MinOf ==
  ASSUME NEW S \in SUBSET Nat, S # {}
  PROVE  Min(S) \in S /\ \A y \in S : Min(S) <= y
<1>1. \E x \in S : \A y \in S : x <= y
  BY LeastNatural
<1> QED BY <1>1 DEF Min

\* What a drain of a lane takes at most.
Capped(s, t, n, avail) ==
    /\ n \in Nat /\ n <= avail /\ n <= CHUNK - (s.fold_pos % CHUNK) /\ s.fold_pos + n <= s.next_span
    /\ Rec(s, t).end_span # OPEN => s.fold_pos + n <= Rec(s, t).end_span

\* fold_cap folds at least one span and never past the end of the pass at the tail.
LEMMA CapFacts ==
  ASSUME NEW tree, NEW s, CoreOk(tree, s), NEW h \in Nat, NEW t \in Nat, NEW p \in Nat,
         CoreAt(tree, s, h, t, p), s.fold_pos < s.next_span, NEW avail \in Nat,
         NEW x, x.fold_pos = s.fold_pos, SamePasses(x, s), SameGrid(x, s), NEW n, n = fold_cap(x, avail)
  PROVE  t < p /\ Capped(s, t, n, avail)
<1>1. s \in Sinks /\ PassState(tree, s, h, t, p) /\ NothingDue(s, t, p)
  BY DEF CoreOk, CoreAt
<1> DEFINE fp == s.fold_pos
           e == Rec(s, t).end_span
           b == CHUNK - (fp % CHUNK)
           c == s.next_span - fp
           D == IF e = OPEN THEN {} ELSE {e - fp}
           S == {avail, b, c} \cup D
<1>2. fp \in Nat /\ s.next_span \in Nat /\ s.passes \in PassRings /\ CHUNK \in Nat \ {0} /\ PASS_RING \in Nat \ {0}
  BY <1>1, SinkTypes, GridAssumption
<1>3. e \in Nat \cup {OPEN}
  BY <1>2, RecTypes
<1>4. t < p /\ h <= t /\ p < h + PASS_RING /\ s.pass_tail = t % PASS_RING /\ s.pass_head = p % PASS_RING
  BY <1>1, <1>2 DEF PassState, PassRing, FoldInPass
<1>5. s.pass_tail # s.pass_head
  <2>1. t # p /\ h <= p /\ t < h + PASS_RING
    BY <1>2, <1>4
  <2>2. t % PASS_RING # p % PASS_RING
    BY <1>4, <2>1, RecApart
  <2> QED BY <1>4, <2>2
<1>6. ~Rec(s, t).done
  <2>1. t \in t..(p - 1)
    BY <1>4
  <2> QED BY <1>1, <2>1 DEF PassState, PassChain
<1>7. pending_boundary_end(x) = e
  <2>1. x.passes = s.passes /\ x.pass_tail = s.pass_tail /\ x.pass_head = s.pass_head
    BY DEF SamePasses
  <2>2. x.passes[x.pass_tail] = Rec(s, t)
    BY <1>4, <2>1 DEF Rec
  <2> HIDE DEF e
  <2> QED BY <1>5, <1>6, <2>1, <2>2 DEF pending_boundary_end, e
<1>8. n = Min(S)
  <2>1. x.next_span = s.next_span
    BY DEF SameGrid
  <2> HIDE DEF e
  <2> QED BY <1>7, <2>1 DEF fold_cap
<1>9. b \in Nat
  <2>1. fp % CHUNK \in 0..(CHUNK - 1)
    BY <1>2, DivMod
  <2> QED BY <1>2, <2>1
<1>10. c \in Nat
  BY <1>2
<1>11. e # OPEN => e - fp \in Nat
  BY <1>1, <1>2, <1>3, <1>4 DEF NothingDue
<1> HIDE DEF b, c, e
<1>12. S \in SUBSET Nat /\ S # {}
  BY <1>9, <1>10, <1>11
<1>13. n \in S /\ \A y \in S : n <= y
  BY <1>8, <1>12, MinOf
<1>14. avail \in S /\ b \in S /\ c \in S /\ (e # OPEN => e - fp \in S)
  OBVIOUS
<1> HIDE DEF S
<1>15. /\ n \in Nat /\ n <= avail /\ n <= b /\ n <= c
       /\ e # OPEN => n <= e - fp
  BY <1>12, <1>13, <1>14
<1>16. fp + n <= s.next_span
  BY <1>2, <1>15 DEF c
<1>17. e # OPEN => fp + n <= e
  BY <1>2, <1>3, <1>15
<1> QED BY <1>4, <1>15, <1>16, <1>17 DEF Capped, b, e

\* No chunk of the assist ring begins in what a drain takes.
LEMMA ChunksAhead ==
  ASSUME NEW tree, NEW s, CoreOk(tree, s), NEW h \in Nat, NEW t \in Nat, NEW p \in Nat,
         CoreAt(tree, s, h, t, p), t < p, NEW n, NEW avail, Capped(s, t, n, avail),
         ~inline_due(s), Flying(s) # {}, NEW k \in Held(s)
  PROVE  s.fold_pos + n <= Chunk(s, k).first_span
<1>1. s \in Sinks /\ AssistRing(s) /\ PassState(tree, s, h, t, p) /\ AssistPasses(s, t, p)
  BY DEF CoreOk, CoreAt
<1> DEFINE fp == s.fold_pos
           a == Chunk(s, k).first_span
           j == s.inline_fold_seq
<1>2. /\ fp \in Nat /\ s.next_span \in Nat /\ CHUNK \in Nat \ {0} /\ j \in Nat /\ s.inline_seq \in Nat
      /\ s.passes \in PassRings
  BY <1>1, SinkTypes, AssistTypes, GridAssumption
<1>3. a \in Nat /\ fp <= a
  BY <1>1 DEF AssistRing
<1>4. /\ n \in Nat /\ n <= CHUNK - (fp % CHUNK)
      /\ Rec(s, t).end_span # OPEN => fp + n <= Rec(s, t).end_span
  BY DEF Capped
<1>5. a # fp
  <2>1. ASSUME a = fp PROVE FALSE
    <3>1. j \in Held(s) /\ j < s.inline_seq /\ k \in Nat /\ j <= k
      BY <1>2 DEF Held
    <3>2. k = j
      <4>1. ASSUME j < k PROVE FALSE
        <5>1. ChunkEnd(s, j) <= a /\ Len(Chunk(s, j).vals) > 0 /\ fp <= Chunk(s, j).first_span
              /\ Chunk(s, j).first_span \in Nat
          BY <1>1, <3>1, <4>1 DEF AssistRing
        <5>2. Len(Chunk(s, j).vals) \in Nat
          BY <1>1, <1>2, ChunkTypes
        <5> QED BY <1>2, <2>1, <5>1, <5>2 DEF ChunkEnd
      <4> QED BY <1>2, <3>1, <4>1
    <3>3. ~Chunk(s, k).sealed
      BY <2>1, <3>1, <3>2 DEF inline_due, oldest_inline, Chunk
    <3>4. k = s.inline_seq - 1 /\ ChunkEnd(s, k) = s.next_span
      BY <1>1, <3>3 DEF AssistRing
    <3>5. ASSUME NEW v \in Flying(s) PROVE FALSE
      <4>1. v \in Int /\ fp <= v /\ v < s.next_span /\ ~Inlined(s, v)
        BY <1>2 DEF Flying
      <4> QED BY <2>1, <3>4, <4>1 DEF Inlined
    <3> QED BY <3>5
  <2> QED BY <2>1
<1>6. a > fp
  BY <1>2, <1>3, <1>5
<1>7. CASE a % CHUNK = 0
  <2> DEFINE m == fp % CHUNK
  <2>1. m \in 0..(CHUNK - 1)
    BY <1>2, DivMod
  <2>2. a >= fp + (CHUNK - m)
    <3> HIDE DEF a, fp
    <3> QED BY <1>2, <1>3, <1>6, <1>7, NextMultiple
  <2> HIDE DEF m
  <2>3. n <= CHUNK - m
    BY <1>4 DEF m
  <2> QED BY <1>2, <1>3, <1>4, <2>1, <2>2, <2>3
<1>8. CASE PassEnd(s, t, p, a)
  <2>1. PICK i \in t..(p - 1) : Rec(s, i).end_span # OPEN /\ Rec(s, i).end_span = a
    BY <1>8 DEF PassEnd
  <2>2. t \in t..(p - 1) /\ i \in Nat
    OBVIOUS
  <2>3. CASE i = t
    BY <1>4, <2>1, <2>3
  <2>4. CASE i # t
    <3>1. t < i /\ t # p - 1
      BY <2>2, <2>4
    <3>2. /\ Rec(s, t).end_span # OPEN /\ Rec(s, t).end_span <= Rec(s, i).start
          /\ Rec(s, i).start <= a
      BY <1>1, <2>1, <2>2, <3>1 DEF PassState, PassChain
    <3>3. Rec(s, t).end_span \in Nat \cup {OPEN} /\ Rec(s, i).start \in Nat
      BY <1>2, <2>2, RecTypes
    <3> QED BY <1>2, <1>3, <1>4, <3>2, <3>3
  <2> QED BY <2>3, <2>4
<1>9. a % CHUNK = 0 \/ PassEnd(s, t, p, a)
  BY <1>1, <1>6 DEF AssistPasses
<1> QED BY <1>7, <1>8, <1>9

\* The step: g is s with the values of the next n spans folded.
FoldsRun(tree, g, s, n, vals, c) ==
    LET x == [s EXCEPT !.fold_rem = c]
    IN  g = folded(tree, [x EXCEPT !.fold = push_values(tree, @, vals, x.fold_pos)], n)

\* What comes of it: the sink is n spans on, and those are no longer in flight.
RunFolded(tree, g, s, n) ==
    /\ CoreOk(tree, g) /\ Folded(g, s) /\ g.fold_pos = s.fold_pos + n
    /\ Flying(g) = {v \in Flying(s) : s.fold_pos + n <= v}

\* A run of a lane's results is folded.
LEMMA FoldLaneCore ==
  ASSUME NEW tree \in BOOLEAN, NEW s, CoreOk(tree, s), NEW h \in Nat, NEW t \in Nat, NEW p \in Nat,
         CoreAt(tree, s, h, t, p), t < p, NEW n, NEW avail, Capped(s, t, n, avail),
         ~inline_due(s), Flying(s) # {},
         NEW vals \in [1..n -> Int], \A i \in 1..n : vals[i] = s.fold_pos + i - 1,
         NEW c \in Int, NEW g, FoldsRun(tree, g, s, n, vals, c)
  PROVE  RunFolded(tree, g, s, n)
<1>1. s \in Sinks /\ AssistRing(s) /\ PassState(tree, s, h, t, p)
  BY DEF CoreOk, CoreAt
<1> DEFINE fp == s.fold_pos
           j == s.inline_fold_seq
           m == fp + n
           f == push_values(tree, s.fold, vals, fp)
           a == FoldStart(s, t, p)
           x == [s EXCEPT !.fold_rem = c]
           y0 == [s EXCEPT !.fold_rem = c, !.fold = f]
<1>2. /\ s.inline_seq \in Nat /\ j \in Nat /\ fp \in Nat /\ s.next_span \in Nat /\ s.fold \in Folds
      /\ s.passes \in PassRings /\ j <= s.inline_seq
  BY <1>1, AssistTypes, SinkTypes DEF AssistRing
<1>3. /\ n \in Nat /\ m <= s.next_span
      /\ Rec(s, t).end_span # OPEN => m <= Rec(s, t).end_span
  BY DEF Capped
<1>4. m \in Nat /\ fp <= m
  BY <1>2, <1>3
<1>5. \A k \in Held(s) : m <= Chunk(s, k).first_span
  BY ChunksAhead
<1>6. a \in Nat /\ FoldAt(tree, s.fold, a, fp)
  <2>1. Rec(s, t).start \in Nat
    BY <1>2, RecTypes
  <2> QED BY <1>1, <1>2, <2>1 DEF FoldStart, PassState
<1> HIDE DEF a
<1>7. f \in Folds /\ FoldAt(tree, f, a, m)
  <2>1. \A i \in 1..n : vals[i] = fp + i - 1
    OBVIOUS
  <2> HIDE DEF fp
  <2> QED BY <1>2, <1>3, <1>6, <2>1, PushValues
<1>8. g = folded(tree, y0, n)
  <2>1. x.fold = s.fold /\ x.fold_pos = fp
    BY <1>1 DEF Sinks
  <2>2. push_values(tree, x.fold, vals, x.fold_pos) = f
    BY <2>1
  <2> HIDE DEF f
  <2>3. g = folded(tree, [x EXCEPT !.fold = f], n)
    BY <2>2 DEF FoldsRun
  <2>4. [x EXCEPT !.fold = f] = y0
    OBVIOUS
  <2> QED BY <2>3, <2>4
<1> HIDE DEF f
<1>9. y0 \in Sinks /\ y0.fold_pos = fp
  BY <1>1, <1>7 DEF Sinks
<1>10. /\ SamePasses(y0, s) /\ SameGrid(y0, s) /\ SamePending(y0, s) /\ y0.pc = s.pc /\ y0.ret = s.ret
       /\ y0.inline = s.inline /\ y0.inline_seq = s.inline_seq /\ y0.inline_fold_seq = j /\ y0.fold = f
  BY <1>1, <1>7 DEF Sinks, SamePasses, SameGrid, SamePending
<1> HIDE DEF y0
<1>11. PICK r \in Int : g = complete_boundaries(tree, [y0 EXCEPT !.fold_pos = y0.fold_pos + n, !.fold_rem = r])
  <2>1. FoldsAs(tree, y0, n)
    BY <1>3, <1>9, FoldedIs
  <2> QED BY <1>8, <2>1 DEF FoldsAs
<1> HIDE DEF m
<1> DEFINE y == [y0 EXCEPT !.fold_pos = m, !.fold_rem = r]
<1>12. g = complete_boundaries(tree, y)
  BY <1>9, <1>11 DEF m
<1>13. y \in Sinks /\ y.fold_pos = m /\ y.fold = y0.fold /\ y.inline_fold_seq = y0.inline_fold_seq
  BY <1>4, <1>9 DEF Sinks
<1>14. /\ SamePasses(y, y0) /\ SameGrid(y, y0) /\ SamePending(y, y0) /\ y.pc = y0.pc /\ y.ret = y0.ret
       /\ y.inline = y0.inline /\ y.inline_seq = y0.inline_seq
  BY <1>9 DEF Sinks, SamePasses, SameGrid, SamePending
<1> HIDE DEF y
<1>15. SamePasses(y, s) /\ SameGrid(y, s) /\ SamePending(y, s)
  <2>1. SamePasses(y, s)
    BY <1>10, <1>14 DEF SamePasses
  <2>2. SameGrid(y, s)
    BY <1>10, <1>14 DEF SameGrid
  <2>3. SamePending(y, s)
    BY <1>10, <1>14 DEF SamePending
  <2> QED BY <2>1, <2>2, <2>3
<1>16. /\ y.fold = f /\ y.inline_fold_seq = j /\ y.inline = s.inline /\ y.inline_seq = s.inline_seq
       /\ y.pc = s.pc /\ y.ret = s.ret
  BY <1>10, <1>13, <1>14
<1>17. FoldsTo(y, s, m, j)
  <2>1. \A k \in Held(s) : ~(k < j)
    BY <1>2 DEF Held
  <2>2. j <= j
    BY <1>2
  <2> QED BY <1>2, <1>3, <1>4, <1>5, <1>13, <1>15, <1>16, <2>1, <2>2 DEF FoldsTo
<1>18. CoreOk(tree, g) /\ Passed(g, y)
  BY <1>2, <1>3, <1>4, <1>7, <1>12, <1>13, <1>16, <1>17, FoldedCore DEF a
<1>19. /\ g.next_span = y.next_span /\ g.fold_pos = m /\ SameAssist(g, y) /\ SameGrid(g, y) /\ SamePending(g, y)
  BY <1>13, <1>18, PassedSame DEF SameGrid, SamePending, SameAssist
<1>20. Folded(g, s)
  <2>1. SameGrid(g, s) /\ SamePending(g, s)
    BY <1>15, <1>19 DEF SameGrid, SamePending
  <2>2. m \in fp..s.next_span
    BY <1>2, <1>3, <1>4
  <2> QED BY <1>19, <2>1, <2>2 DEF Folded
<1>21. SameAssist(g, s)
  BY <1>16, <1>19 DEF SameAssist
<1>22. \A v : Inlined(g, v) <=> Inlined(s, v)
  BY <1>21, AssistSame
<1>23. g.next_span = s.next_span
  BY <1>15, <1>19 DEF SameGrid
<1>24. Flying(g) = {v \in Flying(s) : m <= v}
  <2>1. ASSUME NEW v \in Flying(g) PROVE v \in Flying(s) /\ m <= v
    BY <1>2, <1>4, <1>19, <1>22, <1>23 DEF Flying
  <2>2. ASSUME NEW v \in Flying(s), m <= v PROVE v \in Flying(g)
    BY <1>2, <1>4, <1>19, <1>22, <1>23, <2>2 DEF Flying
  <2> QED BY <2>1, <2>2
<1> QED BY <1>18, <1>19, <1>20, <1>24 DEF m, RunFolded

-----------------------------------------------------------------------------
(* The lanes. *)

\* The fields of a lane and of its worker.
LEMMA LaneTypes ==
  ASSUME Types, NEW l \in Lanes
  PROVE  /\ lane[l] \in LaneStates /\ worker[l] \in WorkerStates
         /\ lane[l].desc_head \in Nat /\ lane[l].desc_tail \in Nat
         /\ lane[l].res_head \in Nat /\ lane[l].res_tail \in Nat
         /\ lane[l].desc \in DescRing /\ lane[l].res \in ResRing
         /\ worker[l].tail \in Nat /\ worker[l].rhead \in Nat /\ worker[l].n \in Nat
         /\ worker[l].nres \in Nat /\ worker[l].cur_span \in Int
         /\ Top(l) \in Nat /\ Seen(l) \in Nat /\ Made(l) \in Nat
<1>1. lane[l] \in LaneStates /\ worker[l] \in WorkerStates
  BY DEF Types
<1>2. /\ lane[l].desc_head \in Nat /\ lane[l].desc_tail \in Nat
      /\ lane[l].res_head \in Nat /\ lane[l].res_tail \in Nat
      /\ lane[l].desc \in DescRing /\ lane[l].res \in ResRing
  BY <1>1 DEF LaneStates
<1>3. /\ worker[l].tail \in Nat /\ worker[l].rhead \in Nat /\ worker[l].n \in Nat
      /\ worker[l].nres \in Nat /\ worker[l].cur_span \in Int
  BY <1>1 DEF WorkerStates
<1>4. core.pending_len \in Nat
  BY DEF Types, Sinks
<1>5. Top(l) \in Nat
  BY <1>2, <1>4 DEF Top
<1>6. Seen(l) \in Nat /\ Made(l) \in Nat
  BY <1>3 DEF Seen, Made, unpublished
<1> QED BY <1>1, <1>2, <1>3, <1>5, <1>6

\* What a step must keep for the rest of a lane's invariant to hold on.
Frame(l) ==
    /\ \A d : Word(l, d)' = Word(l, d)
    /\ \A q : Result(l, q)' = Result(l, q)
    /\ lane'[l].res_tail = lane[l].res_tail /\ Made(l)' = Made(l)
    /\ Seen(l)' = Seen(l) /\ Top(l)' = Top(l)
    /\ worker'[l].cur_span = worker[l].cur_span /\ cfg' = cfg
    /\ \A v : Mine(l, v)' <=> Mine(l, v)

\* A step that leaves a lane's cursors and words alone keeps what they say.
LEMMA FrameLane ==
  ASSUME NEW l \in Lanes, LaneAt(l), Frame(l)
  PROVE  ResultsAt(l)' /\ WordsAt(l)' /\ Complete(l)' /\ Numbered(l)'
<1>1. ResultsAt(l)'
  BY DEF LaneAt, ResultsAt, Frame
<1>2. WordsAt(l)'
  BY DEF LaneAt, WordsAt, Frame
<1>3. Complete(l)'
  BY DEF LaneAt, Complete, Frame
<1>4. Numbered(l)'
  BY DEF LaneAt, Numbered, Frame
<1> QED BY <1>1, <1>2, <1>3, <1>4

\* A step that leaves a lane's words, results and worker as they are.
LaneKept(l) ==
    /\ worker'[l] = worker[l] /\ cfg' = cfg
    /\ lane'[l].desc = lane[l].desc /\ lane'[l].res = lane[l].res
    /\ lane'[l].desc_tail = lane[l].desc_tail /\ lane'[l].res_head = lane[l].res_head
    /\ lane'[l].res_tail = lane[l].res_tail
    /\ lane[l].desc_head <= lane'[l].desc_head /\ Top(l)' = Top(l)
    /\ \A v : Mine(l, v)' <=> Mine(l, v)

\* What a lane's invariant says survives a step that only moves the core elsewhere.
LEMMA LaneKeep ==
  ASSUME Types, Types', NEW l \in Lanes, LaneAt(l), LaneKept(l), OpenAt(l)'
  PROVE  LaneAt(l)'
<1>1. Frame(l)
  <2>1. \A d : Word(l, d)' = Word(l, d)
    BY DEF LaneKept, Word
  <2>2. \A q : Result(l, q)' = Result(l, q)
    BY DEF LaneKept, Result
  <2>3. Made(l)' = Made(l) /\ Seen(l)' = Seen(l)
    BY DEF LaneKept, Made, unpublished, Seen
  <2> QED BY <2>1, <2>2, <2>3 DEF LaneKept, Frame
<1>2. Cursors(l)'
  <2>1. lane[l].desc_head \in Nat /\ lane[l].desc_tail \in Nat /\ worker[l].tail \in Nat /\ worker[l].n \in Nat
    BY LaneTypes
  <2>2. lane'[l].desc_head \in Nat
    BY DEF Types, LaneStates
  <2>3. Made(l)' = Made(l)
    BY <1>1 DEF Frame
  <2> QED BY <2>1, <2>2, <2>3 DEF LaneAt, LaneKept, Cursors
<1> QED BY <1>1, <1>2, FrameLane DEF LaneAt

\* Types and the core's part after a step.
LEMMA TypesNext ==
  ASSUME Types, CoreOk(cfg.tree, core'), cfg' = cfg, stop' \in BOOLEAN,
         lane' \in [Lanes -> LaneStates], worker' \in [Lanes -> WorkerStates]
  PROVE  Types' /\ CoreOk(cfg.tree, core)'
<1>1. core' \in Sinks
  BY DEF CoreOk
<1>2. Types'
  BY <1>1 DEF Types
<1> QED BY <1>2

\* Nothing is open in a lane's ring.
NoneOpen(s) == s.pending_len = 0 \/ s.cur_inline # None

\* A step of the core that leaves the lanes alone.
Steady(g, s) ==
    /\ Flying(g) = Flying(s)
    /\ (SamePending(g, s) /\ SameGrid(g, s)) \/ (NoneOpen(g) /\ NoneOpen(s))

\* A step of the core that leaves the lanes alone keeps the whole invariant.
LEMMA SteadyLanes ==
  ASSUME HydraInv, CoreOk(cfg.tree, core'), Steady(core', core), stop' \in BOOLEAN,
         UNCHANGED <<cfg, lane, worker>>
  PROVE  HydraInv'
<1>1. Types' /\ CoreOk(cfg.tree, core)'
  BY TypesNext DEF HydraInv, Types
<1>2. ASSUME NEW l \in Lanes
      PROVE  LaneAt(l)'
  <2>1. \A v : Mine(l, v)' <=> Mine(l, v)
    BY DEF Mine, Steady
  <2>2. Top(l)' = Top(l)
    BY DEF Steady, SamePending, NoneOpen, Top, Pending
  <2>3. OpenAt(l)'
    <3>1. CASE SamePending(core', core) /\ SameGrid(core', core)
      <4>1. OpenAt(l)
        BY DEF HydraInv, LaneAt
      <4> QED BY <3>1, <4>1, <2>2 DEF OpenAt, Pending, SamePending, SameGrid, Word
    <3>2. CASE NoneOpen(core')
      BY <3>2 DEF OpenAt, Pending, NoneOpen
    <3> QED BY <3>1, <3>2 DEF Steady
  <2>4. LaneKept(l)
    <3>1. lane[l].desc_head \in Nat
      BY LaneTypes DEF HydraInv
    <3> QED BY <2>1, <2>2, <3>1 DEF LaneKept
  <2> QED BY <1>1, <2>3, <2>4, LaneKeep DEF HydraInv
<1> QED BY <1>1, <1>2 DEF HydraInv

\* A flush: what is open in a lane's ring is published.
LEMMA FlushLanes ==
  ASSUME HydraInv, CoreOk(cfg.tree, core'), core'.pending_len = 0, Flying(core') = Flying(core),
         lane' = flush_lane(core), UNCHANGED <<cfg, worker, stop>>
  PROVE  HydraInv'
<1>1. core \in Sinks /\ core.pending_len \in Nat /\ core.pending_head \in Nat /\ core.pending_lane \in Lanes
  BY DEF HydraInv, Types, Sinks
<1>2. Types' /\ CoreOk(cfg.tree, core)'
  <2>1. lane' \in [Lanes -> LaneStates]
    <3> DEFINE a == core.pending_head + core.pending_len
    <3>1. a \in Nat
      BY <1>1
    <3>2. lane \in [Lanes -> LaneStates]
      BY DEF HydraInv, Types
    <3> HIDE DEF a
    <3>3. [lane EXCEPT ![core.pending_lane].desc_head = a] \in [Lanes -> LaneStates]
      BY <3>1, <3>2, <1>1 DEF LaneStates
    <3> QED BY <3>2, <3>3 DEF flush_lane, a
  <2> QED BY <2>1, TypesNext DEF HydraInv, Types
<1>3. ASSUME NEW l \in Lanes
      PROVE  LaneAt(l)'
  <2>1. lane[l] \in LaneStates /\ lane[l].desc_head \in Nat /\ lane \in [Lanes -> LaneStates]
    BY LaneTypes DEF HydraInv, Types
  <2>2. /\ lane'[l].desc = lane[l].desc /\ lane'[l].res = lane[l].res
        /\ lane'[l].desc_tail = lane[l].desc_tail /\ lane'[l].res_head = lane[l].res_head
        /\ lane'[l].res_tail = lane[l].res_tail
        /\ lane'[l].desc_head = IF Pending(l) THEN core.pending_head + core.pending_len ELSE lane[l].desc_head
    BY <2>1, <1>1 DEF flush_lane, Pending, LaneStates
  <2>3. Pending(l) => core.pending_head = lane[l].desc_head
    BY DEF HydraInv, LaneAt, OpenAt
  <2>4. ~Pending(l)'
    BY DEF Pending
  <2>5. Top(l)' = Top(l) /\ lane[l].desc_head <= lane'[l].desc_head
    BY <2>1, <2>2, <2>3, <2>4, <1>1 DEF Top
  <2>6. \A v : Mine(l, v)' <=> Mine(l, v)
    BY DEF Mine
  <2>7. LaneKept(l) /\ OpenAt(l)'
    BY <2>2, <2>4, <2>5, <2>6 DEF LaneKept, OpenAt
  <2> QED BY <1>2, <2>7, LaneKeep DEF HydraInv
<1> QED BY <1>2, <1>3 DEF HydraInv

\* What leaves the submission and the fold alone is steady.
LEMMA QuietSteady ==
  ASSUME NEW s \in Sinks, NEW g, SameAssist(g, s), SameGrid(g, s), SamePending(g, s), g.fold_pos = s.fold_pos
  PROVE  Steady(g, s)
<1>1. g.next_span = s.next_span
  BY DEF SameGrid
<1>2. Flying(g) = Flying(s)
  BY <1>1, FlyingSame
<1> QED BY <1>2 DEF Steady

\* The sink of a state.
LEMMA CoreNow ==
  ASSUME HydraInv
  PROVE  /\ cfg \in Configs /\ cfg.tree \in BOOLEAN /\ cfg.desc8 \in BOOLEAN
         /\ core \in Sinks /\ CoreOk(cfg.tree, core) /\ stop \in BOOLEAN
         /\ GridAt(core) /\ AssistRing(core)
<1>1. cfg \in [desc8 : BOOLEAN, tree : BOOLEAN, force : BOOLEAN]
  BY LanesAssumption DEF HydraInv, Types
<1> QED BY <1>1 DEF HydraInv, Types, CoreOk

\* complete_boundaries in a call that begins with it.
LEMMA CompleteCall ==
  ASSUME NEW tree \in BOOLEAN, NEW s, CoreOk(tree, s), s.ret # "finish",
         NEW b \in {"idle", "claim"}, b = "claim" => s.pass_open,
         NEW g, g = [complete_boundaries(tree, s) EXCEPT !.pc = "fold", !.ret = b]
  PROVE  CoreOk(tree, g) /\ Steady(g, s)
<1>1. PICK h \in Nat, t \in Nat, p \in Nat : CoreAt(tree, s, h, t, p)
  BY DEF CoreOk
<1>2. s \in Sinks /\ GridAt(s) /\ AssistRing(s) /\ PassState(tree, s, h, t, p)
      /\ AssistPasses(s, t, p) /\ NextOpens(s, t, p)
  BY <1>1 DEF CoreOk, CoreAt
<1> DEFINE x == complete_boundaries(tree, s)
<1>3. CoreOk(tree, x) /\ Passed(x, s)
  BY <1>2, CoreComplete
<1> HIDE DEF x
<1>4. /\ SameAssist(x, s) /\ SameGrid(x, s) /\ SamePending(x, s) /\ x.fold_pos = s.fold_pos
      /\ x.pass_open = s.pass_open /\ x.ret = s.ret
  BY <1>2, <1>3, PassedSame DEF SameAssist, SameGrid, SamePending
<1>5. x \in Sinks
  BY <1>3 DEF CoreOk
<1>6. g = [x EXCEPT !.pc = "fold", !.ret = b]
  BY DEF x
<1>7. CoreOk(tree, g)
  BY <1>3, <1>4, <1>6, CoreStep
<1>8. SameAssist(g, x) /\ SameGrid(g, x) /\ SamePending(g, x) /\ g.fold_pos = x.fold_pos
  BY <1>5, <1>6 DEF Sinks, SameAssist, SameGrid, SamePending
<1>9. SameAssist(g, s)
  BY <1>4, <1>8 DEF SameAssist
<1>10. SameGrid(g, s)
  BY <1>4, <1>8 DEF SameGrid
<1>11. SamePending(g, s)
  BY <1>4, <1>8 DEF SamePending
<1> QED BY <1>2, <1>4, <1>7, <1>8, <1>9, <1>10, <1>11, QuietSteady

\* open_chunk finding neither room nor a slot, and folding, keeps the invariant.
LEMMA OpenWaitInv ==
  ASSUME HydraInv, OpenWait
  PROVE  HydraInv'
<1>1. core.pass_open /\ core.ret # "finish"
  BY CoreNow DEF OpenWait, MaySubmit, GridAt
<1>2. CoreOk(cfg.tree, core') /\ Steady(core', core)
  BY <1>1, CoreNow, CompleteCall DEF OpenWait
<1> QED BY <1>2, CoreNow, SteadyLanes DEF OpenWait

\* The entry of drain_ready keeps the invariant.
LEMMA DrainReadyInv ==
  ASSUME HydraInv, DrainReady
  PROVE  HydraInv'
<1>1. core.ret # "finish"
  BY CoreNow DEF DrainReady, GridAt
<1>2. CoreOk(cfg.tree, core') /\ Steady(core', core)
  BY <1>1, CoreNow, CompleteCall DEF DrainReady
<1> QED BY <1>2, CoreNow, SteadyLanes DEF DrainReady

\* Folding one sealed chunk of the assist ring keeps the invariant.
LEMMA FoldInlineInv ==
  ASSUME HydraInv, FoldInline
  PROVE  HydraInv'
<1>1. CoreOk(cfg.tree, core') /\ Folded(core', core) /\ Flying(core') = Flying(core)
  BY CoreNow, FoldInlineCore DEF FoldInline
<1>2. Steady(core', core)
  BY <1>1 DEF Steady, Folded
<1> QED BY <1>1, <1>2, CoreNow, SteadyLanes DEF FoldInline

\* The return from the fold loop keeps the invariant, finish's last journal flush included.
LEMMA FoldReturnInv ==
  ASSUME HydraInv, FoldReturn
  PROVE  HydraInv'
<1>1. core \in Sinks
  BY CoreNow
<1>2. core.ret \in {"idle", "claim", "finish"}
  BY <1>1 DEF Sinks
<1>3. CASE core' = [core EXCEPT !.pc = core.ret, !.ret = "idle"] /\ core.ret # "finish"
  <2>1. core.ret = "claim" => core.pass_open
    BY CoreNow DEF GridAt
  <2>2. CoreOk(cfg.tree, core')
    BY <1>2, <1>3, <2>1, CoreNow, CoreStep
  <2>3. SameAssist(core', core) /\ SameGrid(core', core) /\ SamePending(core', core)
        /\ core'.fold_pos = core.fold_pos
    BY <1>1, <1>3 DEF Sinks, SameAssist, SameGrid, SamePending
  <2>4. Steady(core', core)
    BY <1>1, <2>3, QuietSteady
  <2> QED BY <2>2, <2>4, CoreNow, SteadyLanes DEF FoldReturn
<1>4. CASE /\ core.fold_pos = core.next_span
           /\ core' = [core EXCEPT !.pc = "idle", !.ret = "idle", !.fold = flush_all(@)]
  <2>1. /\ CoreOk(cfg.tree, core') /\ SameAssist(core', core) /\ SameGrid(core', core)
        /\ SamePending(core', core) /\ core'.fold_pos = core.fold_pos
    BY <1>4, CoreNow, FinishCore
  <2>2. Steady(core', core)
    BY <1>1, <2>1, QuietSteady
  <2> QED BY <2>1, <2>2, CoreNow, SteadyLanes DEF FoldReturn
<1> QED BY <1>3, <1>4 DEF FoldReturn

\* begin_pass keeps the invariant.
LEMMA BeginPassInv ==
  ASSUME HydraInv, BeginPass
  PROVE  HydraInv'
<1>1. core \in Sinks /\ core.begun + 1 \in Nat
  BY CoreNow DEF Sinks
<1> DEFINE b == core.begun + 1
<1>2. core' = begin_record([core EXCEPT !.begun = b])
  BY <1>1 DEF BeginPass, Sinks
<1> HIDE DEF b
<1>3. /\ CoreOk(cfg.tree, core') /\ SameAssist(core', core) /\ SameGrid(core', core)
      /\ SameFold(core', core) /\ SamePending(core', core)
  BY <1>1, <1>2, CoreNow, BeginRecord DEF BeginPass, b
<1>4. Steady(core', core)
  BY <1>1, <1>3, QuietSteady DEF SameFold
<1> QED BY <1>3, <1>4, CoreNow, SteadyLanes DEF BeginPass

\* harvest_pass keeps the invariant.
LEMMA HarvestInv ==
  ASSUME HydraInv, Harvest
  PROVE  HydraInv'
<1>1. /\ CoreOk(cfg.tree, core') /\ SameAssist(core', core) /\ SameGrid(core', core)
      /\ SameFold(core', core) /\ SamePending(core', core)
  BY CoreNow, HarvestRecord DEF Harvest
<1>2. Steady(core', core)
  BY <1>1, CoreNow, QuietSteady DEF SameFold
<1> QED BY <1>1, <1>2, CoreNow, SteadyLanes DEF Harvest

\* Dropping the sink, which raises stop, keeps the invariant.
LEMMA DropInv ==
  ASSUME HydraInv, Drop
  PROVE  HydraInv'
<1>1. CoreOk(cfg.tree, core') /\ core' = core
  BY CoreNow DEF Drop
<1>2. Steady(core', core)
  BY <1>1 DEF Steady, SamePending, SameGrid
<1> QED BY <1>1, <1>2, SteadyLanes DEF Drop

\* Nothing is in flight when everything is folded.
LEMMA NoneFlying ==
  ASSUME NEW s \in Sinks, s.fold_pos = s.next_span
  PROVE  Flying(s) = {}
<1>1. s.fold_pos..(s.next_span - 1) = {}
  BY DEF Sinks
<1> QED BY <1>1 DEF Flying

\* reset_hot keeps the invariant: it runs when everything submitted is folded.
LEMMA ResetInv ==
  ASSUME HydraInv, Reset
  PROVE  HydraInv'
<1>1. core \in Sinks /\ core.resets + 1 \in Nat /\ core.spans \in Nat /\ core.begun \in Nat
  BY CoreNow DEF Sinks
<1>2. PICK a \in Nat, b \in Nat, c \in Nat : a = core.resets + 1 /\ b = core.spans /\ c = core.begun
  BY <1>1
<1>3. Fresh(core', a, b, c)
  <2>1. core' = [FreshSink EXCEPT !.resets = a, !.spans = b, !.begun = c]
    BY <1>2 DEF Reset
  <2> QED BY <2>1 DEF Fresh, FreshSink, FreshWith
<1>4. CoreOk(cfg.tree, core') /\ core'.next_span = 0 /\ core'.fold_pos = 0 /\ core'.pending_len = 0
  BY <1>3, FreshCore
<1>5. core' \in Sinks
  BY <1>4 DEF CoreOk
<1>6. Flying(core') = {} /\ Flying(core) = {}
  BY <1>1, <1>4, <1>5, NoneFlying DEF Reset
<1>7. Steady(core', core)
  BY <1>4, <1>6 DEF Steady, NoneOpen, Reset
<1> QED BY <1>4, <1>7, CoreNow, SteadyLanes DEF Reset

\* on_span into the assist ring, with a chunk open in it or with a new one.
LEMMA SubmitInlineInv ==
  ASSUME HydraInv, core.pass_open, core.cur_inline # None, submit_inline(core),
         UNCHANGED <<cfg, worker, stop>>
  PROVE  HydraInv'
<1>1. CoreOk(cfg.tree, core') /\ InlineDone(core', core)
  BY CoreNow, SubmitOpenCore DEF submit_inline
<1>2. Steady(core', core)
  BY <1>1 DEF InlineDone, Steady, NoneOpen
<1> QED BY <1>1, <1>2, CoreNow, SteadyLanes DEF submit_inline

\* A span submitted to the assist ring keeps the invariant.
LEMMA SubmitAssistInv ==
  ASSUME HydraInv, SubmitAssist
  PROVE  HydraInv'
<1>1. core.pass_open /\ core.ret = "idle" /\ core.pending_len = 0 /\ can_claim(core)
  BY CoreNow DEF SubmitAssist, MaySubmit, GridAt
<1>2. CoreOk(cfg.tree, core') /\ InlineDone(core', core)
  BY <1>1, CoreNow, SubmitAssistCore DEF SubmitAssist, submit_inline
<1>3. Steady(core', core)
  BY <1>1, <1>2 DEF InlineDone, Steady, NoneOpen
<1> QED BY <1>2, <1>3, CoreNow, SteadyLanes DEF SubmitAssist, submit_inline

\* What flush_pending leaves in flight.
LEMMA FlushFlying ==
  ASSUME HydraInv, NEW h \in Nat, NEW t \in Nat, NEW p \in Nat, CoreAt(cfg.tree, core, h, t, p),
         NEW g, g = flush_sink(core)
  PROVE  /\ g \in Sinks /\ GridAt(g) /\ AssistRing(g)
         /\ PassState(cfg.tree, g, h, t, p) /\ AssistPasses(g, t, p)
         /\ g.pending_len = 0 /\ g.cur_inline = None /\ g.pc = core.pc
         /\ g.pass_open = core.pass_open /\ Flying(g) = Flying(core)
<1>1. PassState(cfg.tree, core, h, t, p) /\ AssistPasses(core, t, p)
  BY DEF CoreAt
<1>2. /\ g \in Sinks /\ GridAt(g) /\ AssistRing(g)
      /\ PassState(cfg.tree, g, h, t, p) /\ AssistPasses(g, t, p)
      /\ g.pending_len = 0 /\ g.cur_inline = None
      /\ SameGrid(g, core) /\ SamePasses(g, core) /\ SameFold(g, core) /\ SameChunks(g, core)
      /\ g.pc = core.pc
  BY <1>1, CoreNow, FlushSink
<1>3. Flying(g) = Flying(core)
  BY <1>2, CoreNow, FlyingSame DEF SameGrid, SameFold
<1> QED BY <1>2, <1>3 DEF SamePasses

\* end_pass keeps the invariant, the flush of a partial chunk included.
LEMMA EndPassInv ==
  ASSUME HydraInv, EndPass
  PROVE  HydraInv'
<1>1. PICK h \in Nat, t \in Nat, p \in Nat : CoreAt(cfg.tree, core, h, t, p)
  BY CoreNow DEF CoreOk
<1> DEFINE x == flush_sink(core)
           y == end_record(x)
<1>2. /\ x \in Sinks /\ GridAt(x) /\ AssistRing(x)
      /\ PassState(cfg.tree, x, h, t, p) /\ AssistPasses(x, t, p)
      /\ x.pending_len = 0 /\ x.cur_inline = None /\ x.pc = core.pc
      /\ x.pass_open = core.pass_open /\ Flying(x) = Flying(core)
  BY <1>1, FlushFlying
<1> HIDE DEF x
<1>3. /\ y \in Sinks /\ GridAt(y) /\ AssistRing(y)
      /\ PassState(cfg.tree, y, h, t, p) /\ AssistPasses(y, t, p) /\ NextOpens(y, t, p)
      /\ SameAssist(y, x) /\ SameGrid(y, x) /\ SameFold(y, x) /\ SamePending(y, x)
  BY <1>2, EndRecord DEF EndPass
<1> HIDE DEF y
<1>4. core' = complete_boundaries(cfg.tree, y)
  BY DEF EndPass, x, y
<1>5. CoreOk(cfg.tree, core') /\ Passed(core', y)
  BY <1>3, <1>4, CoreNow, CoreComplete
<1>6. core'.pending_len = 0
  BY <1>2, <1>3, <1>5, PassedSame DEF SamePending
<1>7. Flying(y) = Flying(x)
  BY <1>2, <1>3, FlyingSame DEF SameGrid, SameFold
<1>8. Flying(core') = Flying(y)
  BY <1>3, <1>5, PassedSame, FlyingSame DEF SameAssist
<1> QED BY <1>2, <1>5, <1>6, <1>7, <1>8, FlushLanes DEF EndPass

\* finish, which publishes what is pending and starts to fold, keeps the invariant.
LEMMA FinishInv ==
  ASSUME HydraInv, Finish
  PROVE  HydraInv'
<1>1. PICK h \in Nat, t \in Nat, p \in Nat : CoreAt(cfg.tree, core, h, t, p)
  BY CoreNow DEF CoreOk
<1> DEFINE x == flush_sink(core)
           y == complete_boundaries(cfg.tree, x)
<1>2. /\ x \in Sinks /\ GridAt(x) /\ AssistRing(x)
      /\ PassState(cfg.tree, x, h, t, p) /\ AssistPasses(x, t, p)
      /\ x.pending_len = 0 /\ Flying(x) = Flying(core)
  BY <1>1, FlushFlying
<1> HIDE DEF x
<1>3. CoreMost(cfg.tree, y) /\ Passed(y, x)
  BY <1>2, CoreNow, CompleteMost
<1> HIDE DEF y
<1>4. core' = [y EXCEPT !.pc = "fold", !.ret = "finish"]
  BY DEF Finish, x, y
<1>5. CoreOk(cfg.tree, core')
  BY <1>3, <1>4, CoreFinish
<1>6. y \in Sinks /\ y.pending_len = 0
  BY <1>2, <1>3, PassedSame DEF CoreMost
<1>7. /\ core'.pending_len = 0 /\ core'.next_span = y.next_span /\ core'.fold_pos = y.fold_pos
      /\ SameAssist(core', y)
  BY <1>4, <1>6 DEF Sinks, SameAssist
<1>8. Flying(y) = Flying(x)
  BY <1>2, <1>3, PassedSame, FlyingSame DEF SameAssist
<1>9. Flying(core') = Flying(y)
  BY <1>6, <1>7, FlyingSame
<1> QED BY <1>2, <1>5, <1>7, <1>8, <1>9, FlushLanes DEF Finish

\* Items written one after the other into a ring of N slots, from position pos on.
Written(N, old, items, n, pos) ==
    [p \in 0..(N - 1) |->
        IF \E i \in 1..n : (pos + i - 1) % N = p
        THEN items[CHOOSE i \in 1..n : (pos + i - 1) % N = p] ELSE old[p]]

Write(new, N, S, old, items, n, pos) ==
    /\ N \in Nat \ {0} /\ old \in [0..(N - 1) -> S] /\ n \in Nat /\ n <= N /\ pos \in Nat
    /\ \A i \in 1..n : items[i] \in S
    /\ new = Written(N, old, items, n, pos)

Wrote(new, N, S, old, items, n, pos) ==
    /\ new \in [0..(N - 1) -> S]
    /\ \A i \in 1..n, d \in Nat : d = pos + i - 1 => new[d % N] = items[i]
    /\ \A d \in Nat : d < pos /\ pos + n <= d + N => new[d % N] = old[d % N]

\* They are there, and the positions up to a ring ahead of them are as they were.
LEMMA RingWrite ==
  ASSUME NEW N, NEW S, NEW old, NEW n, NEW items, NEW pos, NEW new, Write(new, N, S, old, items, n, pos)
  PROVE  Wrote(new, N, S, old, items, n, pos)
<1> N \in Nat \ {0} /\ old \in [0..(N - 1) -> S] /\ n \in Nat /\ n <= N /\ pos \in Nat
  BY DEF Write
<1> (\A i \in 1..n : items[i] \in S) /\ new = Written(N, old, items, n, pos)
  BY DEF Write
<1>1. \A d \in Nat : d % N \in 0..(N - 1)
  BY DivMod
<1>2. ASSUME NEW i \in 1..n, NEW j \in 1..n, (pos + i - 1) % N = (pos + j - 1) % N
      PROVE  i = j
  <2> DEFINE a == pos + i - 1
             b == pos + j - 1
  <2>1. a \in Nat /\ b \in Nat
    OBVIOUS
  <2>2. (a < b => b < a + N) /\ (b < a => a < b + N)
    OBVIOUS
  <2>3. a % N = b % N
    BY <1>2
  <2>4. (a = b) => (i = j)
    OBVIOUS
  <2> HIDE DEF a, b
  <2>5. ~(a < b) /\ ~(b < a)
    BY <2>1, <2>2, <2>3, ModApart
  <2> QED BY <2>1, <2>4, <2>5
<1>3. ASSUME NEW i \in 1..n PROVE new[(pos + i - 1) % N] = items[i]
  <2> DEFINE q == (pos + i - 1) % N
  <2>1. pos + i - 1 \in Nat
    OBVIOUS
  <2>2. q \in 0..(N - 1)
    BY <1>1, <2>1
  <2>3. (CHOOSE j \in 1..n : (pos + j - 1) % N = q) = i
    BY <1>2
  <2>4. new[q] = IF \E j \in 1..n : (pos + j - 1) % N = q
                 THEN items[CHOOSE j \in 1..n : (pos + j - 1) % N = q] ELSE old[q]
    BY <2>2 DEF Written
  <2> QED BY <2>3, <2>4
<1>4. ASSUME NEW d \in Nat, d < pos, pos + n <= d + N PROVE new[d % N] = old[d % N]
  <2>1. ASSUME NEW j \in 1..n PROVE (pos + j - 1) % N # d % N
    <3> DEFINE b == pos + j - 1
    <3>1. b \in Nat /\ d < b /\ b < d + N
      BY <1>4
    <3> HIDE DEF b
    <3>2. b % N # d % N
      BY <3>1, ModApart
    <3> QED BY <3>2 DEF b
  <2>2. d % N \in 0..(N - 1)
    BY <1>1
  <2> QED BY <2>1, <2>2 DEF Written
<1>5. new \in [0..(N - 1) -> S]
  <2>1. ASSUME NEW q \in 0..(N - 1)
        PROVE  (IF \E i \in 1..n : (pos + i - 1) % N = q
                THEN items[CHOOSE i \in 1..n : (pos + i - 1) % N = q] ELSE old[q]) \in S
    <3>1. CASE \E i \in 1..n : (pos + i - 1) % N = q
      <4>1. PICK i \in 1..n : i = CHOOSE j \in 1..n : (pos + j - 1) % N = q
        BY <3>1
      <4> QED BY <3>1, <4>1
    <3>2. CASE ~\E i \in 1..n : (pos + i - 1) % N = q
      BY <3>2
    <3> QED BY <3>1, <3>2
  <2> QED BY <2>1 DEF Written
<1> QED BY <1>3, <1>4, <1>5 DEF Wrote

\* The span submitted is the only one more in flight.
LEMMA FlyingMore ==
  ASSUME NEW tree, NEW s, CoreOk(tree, s), NEW g, NEW k, Submitted(g, s, k)
  PROVE  /\ Flying(g) = Flying(s) \cup {s.next_span}
         /\ \A v \in Flying(s) : v \in Nat /\ v < s.next_span
<1>1. s \in Sinks /\ AssistRing(s) /\ s.next_span \in Nat /\ s.fold_pos \in Nat
      /\ s.inline_seq \in Nat /\ s.inline_fold_seq \in Nat
  BY AssistTypes DEF CoreOk
<1>2. s.fold_pos <= s.next_span
  BY DEF CoreOk, CoreAt, PassState, FoldInPass
<1>3. g.next_span = s.next_span + 1 /\ g.fold_pos = s.fold_pos
  BY DEF Submitted, SameFold
<1>4. \A v : Inlined(g, v) = Inlined(s, v)
  BY AssistSame DEF Submitted
<1>5. ~Inlined(s, s.next_span)
  <2>1. ASSUME NEW i \in Held(s), Chunk(s, i).first_span <= s.next_span, s.next_span < ChunkEnd(s, i)
        PROVE  FALSE
    <3>1. ChunkEnd(s, i) <= s.next_span
      BY <1>1, <2>1 DEF AssistRing
    <3>2. i \in Nat
      BY <1>1, <2>1 DEF Held
    <3>3. Len(Chunk(s, i).vals) \in Nat /\ Chunk(s, i).first_span \in Nat
      BY <1>1, <3>2, <2>1, ChunkTypes DEF AssistRing
    <3> QED BY <1>1, <2>1, <3>1, <3>3 DEF ChunkEnd
  <2> QED BY <2>1 DEF Inlined
<1>6. Flying(g) = Flying(s) \cup {s.next_span}
  <2> DEFINE n == s.next_span
             a == s.fold_pos
  <2>1. a..((n + 1) - 1) = (a..(n - 1)) \cup {n}
    BY <1>1, <1>2
  <2>2. g.fold_pos..(g.next_span - 1) = (a..(n - 1)) \cup {n}
    BY <1>1, <1>3, <2>1
  <2>3. Flying(g) = {v \in (a..(n - 1)) \cup {n} : ~Inlined(g, v)}
    BY <2>2 DEF Flying
  <2>4. Flying(s) = {v \in a..(n - 1) : ~Inlined(s, v)}
    BY DEF Flying
  <2>5. ~Inlined(s, n)
    BY <1>5
  <2> HIDE DEF n, a
  <2>6. \A v : v \in Flying(g) <=> v \in Flying(s) \cup {n}
    BY <1>4, <2>3, <2>4, <2>5
  <2> QED BY <2>6 DEF n
<1> QED BY <1>1, <1>6 DEF Flying

\* The words of a span in a lane's ring.
RingWords(s) ==
    IF cfg.desc8 /\ s.pending_len = 0 THEN <<Anchor(s.next_span), Span(s.next_span)>>
                                      ELSE <<Span(s.next_span)>>

WordsOf(s, words, k) ==
    /\ k = Len(words) /\ k \in {1, 2} /\ DOMAIN words = 1..k
    /\ \A i \in 1..k : words[i] \in Words
    /\ words[k] = Span(s.next_span)
    /\ k = 2 => cfg.desc8 /\ s.pending_len = 0 /\ words[1] = Anchor(s.next_span)
    /\ k = 1 => ~cfg.desc8 \/ s.pending_len # 0

\* The words one submit writes: the anchor of a new chunk where words are packed, then the span.
LEMMA RingWordsAre ==
  ASSUME NEW s, s.next_span \in Int, NEW words, words = RingWords(s), NEW k, k = Len(words)
  PROVE  WordsOf(s, words, k)
<1>1. Anchor(s.next_span) \in Words /\ Span(s.next_span) \in Words
  BY DEF Anchor, Span, Words
<1>2. CASE cfg.desc8 /\ s.pending_len = 0
  <2>1. words = <<Anchor(s.next_span), Span(s.next_span)>>
    BY <1>2 DEF RingWords
  <2>2. k = 2 /\ DOMAIN words = 1..2
    BY <2>1
  <2> QED BY <1>1, <1>2, <2>1, <2>2 DEF WordsOf
<1>3. CASE ~(cfg.desc8 /\ s.pending_len = 0)
  <2>1. words = <<Span(s.next_span)>>
    BY <1>3 DEF RingWords
  <2>2. k = 1 /\ DOMAIN words = 1..1
    BY <2>1
  <2> QED BY <1>1, <1>3, <2>1, <2>2 DEF WordsOf
<1> QED BY <1>2, <1>3

\* The sink that submits into the ring of lane l, the chunk of the lane open or placed.
Placed(s, l) ==
    /\ CoreOk(cfg.tree, s) /\ s.pc = "idle" /\ s.pass_open /\ s.cur_inline = None
    /\ s.pending_lane = l /\ s.submit_lane = l /\ s.pending_head = lane[l].desc_head
    /\ s.pending_len = core.pending_len /\ s.pending_head + s.pending_len = Top(l)
    /\ s.next_span = core.next_span /\ s.submit_rem = core.submit_rem
    /\ Flying(s) = Flying(core)
    /\ \A m \in Lanes \ {l} : ~Pending(m)
    /\ IF s.pending_len = 0 THEN lane[l].desc_head + chunk_need <= lane[l].desc_tail + DESC_CAP
                            ELSE Pending(l)

\* What submit_ring does to it.
RingStep(s, l, words, k) ==
    /\ CoreOk(cfg.tree, core') /\ Submitted(core', s, k) /\ WordsOf(s, words, k)
    /\ lane' \in [Lanes -> LaneStates]
    /\ \A m \in Lanes \ {l} : lane'[m] = lane[m]
    /\ lane'[l].desc = Written(DESC_CAP, lane[l].desc, words, k, Top(l))
    /\ lane'[l].desc_head = IF core'.submit_rem = CHUNK THEN Top(l) + k ELSE lane[l].desc_head
    /\ lane'[l].desc_tail = lane[l].desc_tail /\ lane'[l].res = lane[l].res
    /\ lane'[l].res_head = lane[l].res_head /\ lane'[l].res_tail = lane[l].res_tail

\* submit_ring is one ring write: k words at the lane's head, nothing else of the lane moved.
LEMMA RingStepIs ==
  ASSUME HydraInv, NEW s, NEW l \in Lanes, Placed(s, l), submit_ring(s)
  PROVE  \E words, k : RingStep(s, l, words, k)
<1> DEFINE words == RingWords(s)
           k == Len(words)
           pos == s.pending_head + s.pending_len
           new == Written(DESC_CAP, lane[l].desc, words, k, pos)
           x == advanced([s EXCEPT !.pending_len = @ + k])
           full == x.submit_rem = CHUNK
           head == IF full THEN pos + k ELSE lane[l].desc_head
<1>1. s \in Sinks /\ s.next_span \in Nat /\ s.pending_lane = l /\ pos = Top(l) /\ pos \in Nat
  <2>1. Top(l) \in Nat
    BY LaneTypes DEF HydraInv
  <2>2. s \in Sinks
    BY DEF Placed, CoreOk
  <2> QED BY <2>1, <2>2, AssistTypes DEF Placed
<1>2. WordsOf(s, words, k)
  BY <1>1, RingWordsAre
<1>3. k \in Nat /\ k > 0 /\ k <= 2
  BY <1>2 DEF WordsOf
<1>4. core' = IF full THEN [x EXCEPT !.pending_len = 0] ELSE x
  BY DEF submit_ring, RingWords
<1>5. lane' = [lane EXCEPT ![l].desc = new, ![l].desc_head = head]
  <2>1. DOMAIN words = 1..k
    BY <1>2 DEF WordsOf
  <2>2. lane' = [lane EXCEPT ![l].desc = [p \in 0..(DESC_CAP - 1) |->
                  IF \E i \in DOMAIN words : (pos + i - 1) % DESC_CAP = p
                  THEN words[CHOOSE i \in DOMAIN words : (pos + i - 1) % DESC_CAP = p] ELSE @[p]],
              ![l].desc_head = IF full THEN pos + k ELSE @]
    BY <1>1 DEF submit_ring, RingWords
  <2>3. lane \in [Lanes -> LaneStates]
    BY DEF HydraInv, Types
  <2> HIDE DEF words, k, pos, full, x
  <2> QED BY <2>1, <2>2, <2>3 DEF Written, LaneStates
<1>6. CoreOk(cfg.tree, core') /\ Submitted(core', s, k)
  <2> HIDE DEF k
  <2> QED BY <1>3, <1>4, SubmitRingCore DEF Placed
<1>7. lane \in [Lanes -> LaneStates] /\ lane[l].desc \in DescRing /\ lane[l].desc_head \in Nat
  BY LaneTypes DEF HydraInv, Types
<1>8. new \in DescRing
  <2>1. k <= DESC_CAP /\ DESC_CAP \in Nat \ {0}
    BY <1>3, LanesAssumption, GridAssumption
  <2>2. \A i \in 1..k : words[i] \in Words
    BY <1>2 DEF WordsOf
  <2> HIDE DEF words, k, pos, new
  <2>3. Write(new, DESC_CAP, Words, lane[l].desc, words, k, pos)
    BY <1>1, <1>3, <1>7, <2>1, <2>2 DEF DescRing, Write, new
  <2> QED BY <2>3, RingWrite DEF DescRing, Wrote
<1>9. head \in Nat
  BY <1>1, <1>3, <1>7
<1>10. full <=> core'.submit_rem = CHUNK
  <2>1. [s EXCEPT !.pending_len = @ + k] \in Sinks /\ GridAt([s EXCEPT !.pending_len = @ + k])
    <3> DEFINE a == s.pending_len + k
    <3>1. a \in Nat
      BY <1>1, <1>3 DEF Sinks
    <3>2. [s EXCEPT !.pending_len = @ + k] = [s EXCEPT !.pending_len = a]
      BY <1>1 DEF Sinks
    <3> HIDE DEF a
    <3>3. [s EXCEPT !.pending_len = a] \in Sinks
      BY <1>1, <3>1 DEF Sinks
    <3>4. GridAt([s EXCEPT !.pending_len = a])
      <4>1. GridAt(s)
        BY DEF Placed, CoreOk
      <4> QED BY <1>1, <4>1 DEF Sinks, GridAt
    <3> QED BY <3>2, <3>3, <3>4
  <2>2. x \in Sinks
    BY <2>1, AdvancedSink DEF Advanced
  <2> HIDE DEF x
  <2>3. [x EXCEPT !.pending_len = 0].submit_rem = x.submit_rem
    BY <2>2 DEF Sinks
  <2> QED BY <1>4, <2>3
<1>11. pos = Top(l)
  BY <1>1
<1> HIDE DEF words, k, new, head, pos, full
<1>12. /\ lane' \in [Lanes -> LaneStates]
       /\ \A m \in Lanes \ {l} : lane'[m] = lane[m]
       /\ lane'[l].desc = new /\ lane'[l].desc_head = head
       /\ lane'[l].desc_tail = lane[l].desc_tail /\ lane'[l].res = lane[l].res
       /\ lane'[l].res_head = lane[l].res_head /\ lane'[l].res_tail = lane[l].res_tail
  BY <1>5, <1>7, <1>8, <1>9 DEF LaneStates
<1>13. new = Written(DESC_CAP, lane[l].desc, words, k, Top(l))
  BY <1>11 DEF new
<1>14. head = IF core'.submit_rem = CHUNK THEN Top(l) + k ELSE lane[l].desc_head
  BY <1>10, <1>11 DEF head
<1> QED BY <1>2, <1>6, <1>12, <1>13, <1>14 DEF RingStep

\* The other lanes.
LEMMA RingOthers ==
  ASSUME HydraInv, Types', NEW s, NEW l \in Lanes, Placed(s, l), NEW words, NEW k, RingStep(s, l, words, k),
         UNCHANGED <<cfg, worker>>, NEW m \in Lanes, m # l
  PROVE  LaneAt(m)'
<1>1. Submitted(core', s, k) /\ lane'[m] = lane[m]
  BY DEF RingStep
<1>2. ~Pending(m) /\ ~Pending(m)'
  BY <1>1 DEF Placed, Pending, Submitted
<1>3. Top(m)' = Top(m)
  BY <1>1, <1>2 DEF Top
<1>4. \A v : Mine(m, v)' <=> Mine(m, v)
  <2>1. Flying(core') = Flying(core) \cup {s.next_span}
    BY <1>1, FlyingMore DEF Placed
  <2>2. lane_of(s.next_span) = l
    BY DEF Placed, CoreOk, GridAt
  <2> QED BY <2>1, <2>2 DEF Mine
<1>5. LaneKept(m) /\ OpenAt(m)'
  <2>1. lane[m].desc_head \in Nat
    BY LaneTypes DEF HydraInv
  <2> QED BY <1>1, <1>2, <1>3, <1>4, <2>1 DEF LaneKept, OpenAt
<1> QED BY <1>5, LaneKeep DEF HydraInv

\* What the lane that is written to looks like.
Grown(s, l, words, k) ==
    /\ Top(l)' = Top(l) + k /\ Seen(l)' = Seen(l) /\ Made(l)' = Made(l)
    /\ Seen(l) <= lane[l].desc_head /\ lane[l].desc_tail <= Seen(l) /\ lane[l].desc_head <= Top(l)
    /\ Top(l) + k <= lane[l].desc_tail + DESC_CAP
    /\ Top(l) + k + (s.submit_rem - 1) <= lane[l].desc_tail + DESC_CAP
    /\ lane[l].desc_head <= lane'[l].desc_head
    /\ \A q : Result(l, q)' = Result(l, q)
    /\ \A d \in Nat : Seen(l) <= d /\ d < Top(l) => Word(l, d)' = Word(l, d)
    /\ \A i \in 1..k, d \in Nat : d = Top(l) + i - 1 => Word(l, d)' = words[i]
    /\ \A v : Mine(l, v)' <=> Mine(l, v) \/ v = core.next_span
    /\ \A v : Mine(l, v) => v \in Nat /\ v < core.next_span

\* After a ring write the words the worker has not consumed yet are what they were, and the new
\* ones are those written.
LEMMA RingGrown ==
  ASSUME HydraInv, Types', NEW s, NEW l \in Lanes, Placed(s, l), NEW words, NEW k, RingStep(s, l, words, k),
         UNCHANGED <<cfg, worker>>
  PROVE  Grown(s, l, words, k)
<1>1. Submitted(core', s, k) /\ WordsOf(s, words, k) /\ k \in {1, 2}
  BY DEF RingStep, WordsOf
<1>2. /\ lane[l].desc_head \in Nat /\ lane[l].desc_tail \in Nat /\ lane[l].desc \in DescRing
      /\ worker[l].tail \in Nat /\ worker[l].n \in Nat /\ Top(l) \in Nat /\ Seen(l) \in Nat
      /\ DESC_CAP \in Nat \ {0} /\ CHUNK \in Nat \ {0} /\ DESC_CAP > CHUNK
  BY LaneTypes, LanesAssumption, GridAssumption DEF HydraInv
<1>3. Cursors(l) /\ OpenAt(l)
  BY DEF HydraInv, LaneAt
<1>4. s.pending_len \in Nat /\ s.pending_head \in Nat /\ s.submit_rem \in 1..CHUNK /\ s.next_span \in Nat
  BY DEF Placed, CoreOk, Sinks, ChunkRems
<1>5. Top(l)' = Top(l) + k
  <2>1. s.pending_head + s.pending_len = Top(l) /\ s.pending_head = lane[l].desc_head /\ s.pending_lane = l
    BY DEF Placed
  <2>2. CASE core'.submit_rem = CHUNK
    <3>1. core'.pending_len = 0 /\ lane'[l].desc_head = Top(l) + k
      BY <1>1, <2>2 DEF Submitted, RingStep
    <3> QED BY <3>1 DEF Top, Pending
  <2>3. CASE core'.submit_rem # CHUNK
    <3>1. core'.pending_len = s.pending_len + k /\ lane'[l].desc_head = lane[l].desc_head
          /\ core'.cur_inline = None /\ core'.pending_lane = l
      BY <1>1, <2>1, <2>3 DEF Submitted, RingStep
    <3>2. Pending(l)'
      BY <1>1, <1>4, <3>1 DEF Pending
    <3>3. Top(l)' = lane[l].desc_head + (s.pending_len + k)
      BY <3>1, <3>2 DEF Top
    <3> QED BY <1>1, <1>2, <1>4, <2>1, <3>3
  <2> QED BY <2>2, <2>3
<1>6. Top(l) + k + (s.submit_rem - 1) <= lane[l].desc_tail + DESC_CAP
  <2>1. CASE s.pending_len = 0
    <3>1. Top(l) = lane[l].desc_head
      BY <1>2, <1>4, <2>1 DEF Placed
    <3>2. lane[l].desc_head + chunk_need <= lane[l].desc_tail + DESC_CAP
      BY <2>1 DEF Placed
    <3>3. k + (s.submit_rem - 1) <= chunk_need /\ chunk_need \in Nat
      <4>1. chunk_need = IF cfg.desc8 THEN CHUNK + 1 ELSE CHUNK
        BY <1>2 DEF chunk_need
      <4>2. (k = 2 => cfg.desc8) /\ k \in {1, 2}
        BY <1>1 DEF WordsOf
      <4>3. CASE cfg.desc8
        BY <1>2, <1>4, <4>1, <4>2, <4>3
      <4>4. CASE ~cfg.desc8
        BY <1>2, <1>4, <4>1, <4>2, <4>4
      <4> QED BY <4>3, <4>4
    <3> QED BY <1>1, <1>2, <1>4, <3>1, <3>2, <3>3
  <2>2. CASE s.pending_len # 0
    <3>1. Pending(l) /\ k = 1
      BY <1>1, <2>2 DEF Placed, WordsOf
    <3>2. Top(l) + s.submit_rem <= lane[l].desc_tail + DESC_CAP
      BY <1>3, <3>1 DEF OpenAt, Placed
    <3> QED BY <1>2, <1>4, <3>1, <3>2
  <2> QED BY <2>1, <2>2
<1>7. Top(l) + k <= lane[l].desc_tail + DESC_CAP
  BY <1>1, <1>2, <1>4, <1>6
<1>8. Seen(l)' = Seen(l) /\ Made(l)' = Made(l) /\ (\A q : Result(l, q)' = Result(l, q))
  BY DEF Seen, Made, unpublished, Result, RingStep
<1>9. Seen(l) <= lane[l].desc_head /\ lane[l].desc_tail <= Seen(l) /\ lane[l].desc_head <= Top(l)
  <2>1. lane[l].desc_head <= Top(l)
    BY <1>2, <1>4 DEF Placed
  <2> QED BY <1>2, <1>3, <2>1 DEF Cursors, Seen
<1>10. lane[l].desc_head <= lane'[l].desc_head
  BY <1>1, <1>2, <1>9 DEF RingStep
<1> DEFINE old == lane[l].desc
           pos == Top(l)
           new == lane'[l].desc
<1>11. Wrote(new, DESC_CAP, Words, old, words, k, pos)
  <2>1. old \in [0..(DESC_CAP - 1) -> Words] /\ (\A i \in 1..k : words[i] \in Words) /\ k \in Nat /\ k <= DESC_CAP
    BY SMTT(60), <1>1, <1>2 DEF DescRing, WordsOf
  <2>2. new = Written(DESC_CAP, old, words, k, pos)
    BY DEF RingStep
  <2>3. pos \in Nat
    BY <1>2
  <2> HIDE DEF old, pos, new
  <2>4. Write(new, DESC_CAP, Words, old, words, k, pos)
    BY <1>2, <2>1, <2>2, <2>3 DEF Write
  <2> QED BY <2>4, RingWrite
<1>12. /\ \A d \in Nat : Seen(l) <= d /\ d < Top(l) => Word(l, d)' = Word(l, d)
       /\ \A i \in 1..k, d \in Nat : d = Top(l) + i - 1 => Word(l, d)' = words[i]
  <2>1. ASSUME NEW d \in Nat, Seen(l) <= d, d < Top(l) PROVE Word(l, d)' = Word(l, d)
    <3>1. Top(l) + k <= d + DESC_CAP
      BY <1>1, <1>2, <1>7, <1>9, <2>1
    <3>2. new[d % DESC_CAP] = old[d % DESC_CAP]
      BY <1>11, <2>1, <3>1 DEF Wrote
    <3> QED BY <3>2 DEF Word
  <2>2. ASSUME NEW i \in 1..k, NEW d \in Nat, d = Top(l) + i - 1 PROVE Word(l, d)' = words[i]
    <3>1. new[d % DESC_CAP] = words[i]
      BY <1>11, <2>2 DEF Wrote
    <3> QED BY <3>1 DEF Word
  <2> QED BY <2>1, <2>2
<1>13. (\A v : Mine(l, v)' <=> Mine(l, v) \/ v = core.next_span) /\ (\A v : Mine(l, v) => v \in Nat /\ v < core.next_span)
  <2>1. /\ Flying(core') = Flying(core) \cup {core.next_span}
        /\ \A v \in Flying(core) : v \in Nat /\ v < core.next_span
    BY <1>1, FlyingMore DEF Placed
  <2>2. lane_of(core.next_span) = l
    BY DEF Placed, CoreOk, GridAt
  <2> QED BY <2>1, <2>2 DEF Mine
<1> QED BY <1>5, <1>6, <1>7, <1>8, <1>9, <1>10, <1>12, <1>13 DEF Grown

\* The lane that is written to.
LEMMA RingLane ==
  ASSUME HydraInv, Types', NEW s, NEW l \in Lanes, Placed(s, l), NEW words, NEW k, RingStep(s, l, words, k),
         UNCHANGED <<cfg, worker>>
  PROVE  LaneAt(l)'
<1>0. PICK top, seen, next, from, to :
        /\ top = Top(l) /\ seen = Seen(l) /\ next = core.next_span
        /\ from = lane[l].res_tail /\ to = Made(l)
  OBVIOUS
<1>1. WordsOf(s, words, k) /\ k \in {1, 2} /\ Submitted(core', s, k) /\ s.next_span = next
  BY <1>0 DEF RingStep, WordsOf, Placed
<1>2. /\ lane[l].desc_head \in Nat /\ lane[l].desc_tail \in Nat /\ lane[l].desc \in DescRing
      /\ worker[l].tail \in Nat /\ worker[l].n \in Nat /\ top \in Nat /\ seen \in Nat
      /\ from \in Nat /\ to \in Nat
  BY <1>0, LaneTypes DEF HydraInv
<1>3. Cursors(l) /\ ResultsAt(l) /\ WordsAt(l) /\ Complete(l) /\ Numbered(l) /\ OpenAt(l)
  BY DEF HydraInv, LaneAt
<1>4. next \in Nat
  BY <1>0 DEF HydraInv, Types, Sinks
<1>5. /\ Top(l)' = top + k /\ Seen(l)' = seen /\ Made(l)' = to
      /\ seen <= lane[l].desc_head /\ lane[l].desc_tail <= seen /\ lane[l].desc_head <= top
      /\ top + k <= lane[l].desc_tail + DESC_CAP /\ lane[l].desc_head <= lane'[l].desc_head
      /\ \A q : Result(l, q)' = Result(l, q)
      /\ \A d \in Nat : seen <= d /\ d < top => Word(l, d)' = Word(l, d)
      /\ \A i \in 1..k, d \in Nat : d = top + i - 1 => Word(l, d)' = words[i]
      /\ \A v : Mine(l, v)' <=> Mine(l, v) \/ v = next
      /\ \A v : Mine(l, v) => v \in Nat /\ v < next
  BY <1>0, RingGrown DEF Grown
<1>6. /\ lane'[l].desc_tail = lane[l].desc_tail /\ lane'[l].res_head = lane[l].res_head
      /\ lane'[l].res_tail = from /\ worker' = worker /\ cfg' = cfg
  BY <1>0 DEF RingStep
<1>16. /\ Top(l)' = top + k /\ Seen(l)' = seen /\ Made(l)' = to /\ lane'[l].res_tail = from
       /\ lane'[l].desc_tail = lane[l].desc_tail
       /\ worker'[l].cur_span = worker[l].cur_span /\ cfg'.desc8 = cfg.desc8
  BY <1>5, <1>6
<1>17. /\ Seen(l)'..(Top(l)' - 1) = seen..(top + k - 1)
       /\ lane'[l].res_tail..(Made(l)' - 1) = from..(to - 1)
       /\ worker'[l].cur_span = worker[l].cur_span /\ cfg'.desc8 = cfg.desc8
  BY <1>1, <1>2, <1>16
<1>7. words[k] = Span(next) /\ words[k].kind = "span" /\ words[k].id = next
      /\ (k = 2 => words[1].kind = "anchor" /\ words[1] = Anchor(next))
  BY <1>0, <1>1 DEF WordsOf, Span, Anchor
  (* the words after the step *)
<1>8. ASSUME NEW d \in seen..(top + k - 1)
      PROVE  /\ d \in Nat
             /\ \/ d \in seen..(top - 1) /\ Word(l, d)' = Word(l, d)
                \/ d = top + k - 1 /\ Word(l, d)' = Span(next)
                \/ d = top /\ k = 2 /\ Word(l, d)' = Anchor(next)
  <2>1. d \in Nat /\ seen <= d /\ d <= top + k - 1
    BY <1>1, <1>2
  <2>2. CASE d < top
    BY <1>2, <1>5, <2>1, <2>2
  <2>3. CASE d >= top /\ d = top + k - 1
    <3>1. k \in 1..k
      BY <1>1
    <3> QED BY <1>5, <1>7, <2>1, <2>3, <3>1
  <2>4. CASE d >= top /\ d # top + k - 1
    <3>1. k = 2 /\ d = top /\ 1 \in 1..k /\ d = top + 1 - 1
      BY <1>1, <1>2, <2>1, <2>4
    <3> QED BY <1>5, <1>7, <2>1, <3>1
  <2>5. d < top \/ d >= top
    BY <1>2, <2>1
  <2> QED BY <2>2, <2>3, <2>4, <2>5
<1>9. ASSUME NEW d \in seen..(top + k - 1), Word(l, d)'.kind = "span"
      PROVE  \/ d \in seen..(top - 1) /\ Word(l, d)' = Word(l, d) /\ Word(l, d).kind = "span"
             \/ d = top + k - 1 /\ Word(l, d)'.id = next
  <2>1. Anchor(next).kind # "span" /\ Span(next).id = next
    BY DEF Anchor, Span
  <2> QED BY <1>8, <1>9, <2>1
<1>10. Cursors(l)'
  <2>1. /\ Top(l)' = top + k /\ Made(l)' = to /\ top + k <= lane[l].desc_tail + DESC_CAP
        /\ lane[l].desc_head <= lane'[l].desc_head
    BY <1>5
  <2>2. lane'[l].desc_head \in Nat
    BY DEF Types, LaneStates
  <2> QED BY <1>0, <1>2, <1>3, <1>6, <2>1, <2>2 DEF Cursors
<1>11. ResultsAt(l)'
  <2>1. ResultsAt(l)' <=>
          /\ \A q \in from..(to - 1) :
               Result(l, q).span_id = Result(l, q).value /\ Mine(l, Result(l, q).value)'
          /\ \A q, r \in from..(to - 1) : q < r => Result(l, q).value < Result(l, r).value
    BY <1>0, <1>5, <1>6 DEF ResultsAt
  <2> QED BY <1>0, <1>3, <1>5, <2>1 DEF ResultsAt
<1>12. WordsAt(l)'
  <2>1. \A d \in seen..(top + k - 1) : Word(l, d)'.kind = "span" => Mine(l, Word(l, d).id)'
    <3>1. ASSUME NEW d \in seen..(top + k - 1), Word(l, d)'.kind = "span" PROVE Mine(l, Word(l, d).id)'
      BY <1>0, <1>3, <1>5, <1>9, <3>1 DEF WordsAt
    <3> QED BY <3>1
  <2>2. \A d, e \in seen..(top + k - 1) :
           d < e /\ Word(l, d)'.kind = "span" /\ Word(l, e)'.kind = "span" => Word(l, d)'.id < Word(l, e)'.id
    <3>1. ASSUME NEW d \in seen..(top + k - 1), NEW e \in seen..(top + k - 1), d < e,
                 Word(l, d)'.kind = "span", Word(l, e)'.kind = "span"
          PROVE  Word(l, d)'.id < Word(l, e)'.id
      <4>1. d \in seen..(top - 1) /\ Word(l, d)' = Word(l, d) /\ Word(l, d).kind = "span"
        <5>1. d # top + k - 1
          BY <1>1, <1>2, <3>1
        <5> QED BY <1>9, <3>1, <5>1
      <4>2. Mine(l, Word(l, d).id)
        BY <1>0, <1>3, <4>1 DEF WordsAt
      <4> QED BY <1>0, <1>3, <1>5, <1>9, <3>1, <4>1, <4>2 DEF WordsAt
    <3> QED BY <3>1
  <2>3. \A q \in from..(to - 1), d \in seen..(top + k - 1) :
           Word(l, d)'.kind = "span" => Result(l, q)'.value < Word(l, d)'.id
    <3>1. ASSUME NEW q \in from..(to - 1), NEW d \in seen..(top + k - 1), Word(l, d)'.kind = "span"
          PROVE  Result(l, q)'.value < Word(l, d)'.id
      <4>1. Mine(l, Result(l, q).value)
        BY <1>0, <1>3 DEF ResultsAt
      <4> QED BY <1>0, <1>3, <1>5, <1>9, <3>1, <4>1 DEF WordsAt
    <3> QED BY <3>1
  <2> QED BY <1>17, <2>1, <2>2, <2>3 DEF WordsAt
<1>13. Complete(l)'
  <2>1. ASSUME NEW v, Mine(l, v)'
        PROVE  \/ \E q \in from..(to - 1) : Result(l, q)'.value = v
               \/ \E d \in seen..(top + k - 1) : Word(l, d)' = Span(v)
    <3>1. CASE Mine(l, v)
      <4>1. CASE \E q \in from..(to - 1) : Result(l, q).value = v
        BY <1>5, <4>1
      <4>2. CASE \E d \in seen..(top - 1) : Word(l, d) = Span(v)
        <5>1. PICK d \in seen..(top - 1) : Word(l, d) = Span(v)
          BY <4>2
        <5>2. d \in Nat /\ seen <= d /\ d < top /\ d \in seen..(top + k - 1)
          BY <1>1, <1>2
        <5> QED BY <1>5, <5>1, <5>2
      <4> QED BY <1>0, <1>3, <3>1, <4>1, <4>2 DEF Complete
    <3>2. CASE v = next
      <4> DEFINE d == top + k - 1
      <4>1. d \in Nat /\ d \in seen..(top + k - 1) /\ k \in 1..k
        BY <1>1, <1>2, <1>5
      <4>2. Word(l, d)' = Span(next)
        BY <1>8, <4>1, <1>5, <1>7
      <4> QED BY <3>2, <4>1, <4>2
    <3> QED BY <1>5, <2>1, <3>1, <3>2
  <2> QED BY <1>17, <2>1 DEF Complete
<1>14. Numbered(l)'
  <2>1. CASE cfg.desc8
    <3>1. ASSUME NEW d \in seen..(top + k - 1), Word(l, d)'.kind = "span"
          PROVE  IF d = seen THEN worker[l].cur_span = Word(l, d)'.id
                 ELSE Word(l, d - 1)' \in {Anchor(Word(l, d)'.id), Span(Word(l, d)'.id - 1)}
      <4>1. CASE d \in seen..(top - 1)
        <5>1. Word(l, d)' = Word(l, d) /\ Word(l, d).kind = "span" /\ d \in Nat
          BY <1>2, <1>5, <3>1, <4>1
        <5>2. CASE d = seen
          BY <1>0, <1>3, <2>1, <4>1, <5>1, <5>2 DEF Numbered
        <5>3. CASE d # seen
          <6>1. d - 1 \in Nat /\ seen <= d - 1 /\ d - 1 < top
            BY <1>2, <4>1, <5>3
          <6>2. Word(l, d - 1)' = Word(l, d - 1)
            <7> DEFINE e == d - 1
            <7>1. e \in Nat /\ seen <= e /\ e < top
              BY <6>1
            <7> HIDE DEF e
            <7>2. Word(l, e)' = Word(l, e)
              BY <1>5, <7>1
            <7> QED BY <7>2 DEF e
          <6> QED BY <1>0, <1>3, <2>1, <4>1, <5>1, <5>3, <6>2 DEF Numbered
        <5> QED BY <5>2, <5>3
      <4>2. CASE d \notin seen..(top - 1)
        <5>1. d = top + k - 1 /\ Word(l, d)'.id = next /\ d \in Nat
          BY <1>8, <1>9, <3>1, <4>2
        <5>2. CASE k = 2
          <6>1. d # seen /\ d - 1 = top /\ top \in Nat /\ 1 \in 1..k /\ top = top + 1 - 1
            BY <1>2, <1>5, <5>1, <5>2
          <6>2. Word(l, top)' = Anchor(next)
            BY <1>5, <1>7, <5>2, <6>1
          <6> QED BY <5>1, <6>1, <6>2
        <5>3. CASE k = 1
          <6>1. s.pending_len # 0
            BY <1>1, <2>1, <5>3 DEF WordsOf
          <6>2. Pending(l) /\ core.pending_len \in Nat /\ core.pending_len # 0
            <7>1. core.pending_len = s.pending_len
              BY DEF Placed
            <7> QED BY <6>1, <7>1 DEF Placed, HydraInv, Types, Sinks
          <6>3. top = lane[l].desc_head + core.pending_len
            BY <1>0, <6>2 DEF Top
          <6>4. Word(l, top - 1) = Span(next - 1)
            BY <1>0, <1>3, <6>2 DEF OpenAt
          <6>5. d = top /\ d # seen /\ d - 1 \in Nat /\ seen <= d - 1 /\ d - 1 < top
            BY <1>2, <1>5, <5>1, <5>3, <6>2, <6>3
          <6>6. Word(l, d - 1)' = Word(l, d - 1)
            <7> DEFINE e == d - 1
            <7>1. e \in Nat /\ seen <= e /\ e < top
              BY <6>5
            <7> HIDE DEF e
            <7>2. Word(l, e)' = Word(l, e)
              BY <1>5, <7>1
            <7> QED BY <7>2 DEF e
          <6> QED BY <5>1, <6>4, <6>5, <6>6
        <5> QED BY <1>1, <5>2, <5>3
      <4> QED BY <4>1, <4>2
    <3> QED BY <1>16, <1>17, <2>1, <3>1 DEF Numbered
  <2>2. CASE ~cfg.desc8
    <3>1. k = 1
      BY <1>1, <2>2 DEF WordsOf
    <3>2. ASSUME NEW d \in seen..(top + k - 1) PROVE Word(l, d)'.kind = "span"
      <4>1. d \in seen..(top - 1) => Word(l, d).kind = "span"
        BY <1>0, <1>3, <2>2 DEF Numbered
      <4> QED BY <1>8, <3>1, <3>2, <4>1 DEF Span
    <3> QED BY <1>17, <2>2, <3>2 DEF Numbered
  <2> QED BY <2>1, <2>2
<1>15. OpenAt(l)'
  <2> SUFFICES ASSUME Pending(l)'
               PROVE  /\ core'.pending_head = lane'[l].desc_head /\ l = core'.submit_lane
                      /\ top + k + core'.submit_rem <= lane[l].desc_tail + DESC_CAP
                      /\ Word(l, top + k - 1)' = Span(core'.next_span - 1)
    BY <1>1, <1>2, <1>16 DEF OpenAt
  <2>1. core'.submit_rem # CHUNK
    BY <1>1 DEF Pending, Submitted
  <2>2. core'.pending_head = lane'[l].desc_head /\ l = core'.submit_lane
    BY <1>0, <1>1, <2>1 DEF Submitted, RingStep, Placed
  <2>3. core'.submit_rem = s.submit_rem - 1 /\ core'.next_span = next + 1
    BY <1>0, <1>1, <2>1 DEF Submitted
  <2>4. top + k + (s.submit_rem - 1) <= lane[l].desc_tail + DESC_CAP
    BY <1>0, RingGrown DEF Grown
  <2>5. Word(l, top + k - 1)' = Span(next)
    <3> DEFINE d == top + k - 1
    <3>1. d \in Nat /\ k \in 1..k
      BY <1>1, <1>2
    <3>2. Word(l, d)' = words[k]
      BY <1>5, <3>1
    <3> QED BY <1>7, <3>2
  <2> QED BY <1>4, <2>2, <2>3, <2>4, <2>5
<1> QED BY <1>10, <1>11, <1>12, <1>13, <1>14, <1>15 DEF LaneAt

\* on_span into the ring of a lane.
LEMMA SubmitRingInv ==
  ASSUME HydraInv, NEW s, NEW l \in Lanes, Placed(s, l), submit_ring(s), UNCHANGED <<cfg, worker, stop>>
  PROVE  HydraInv'
<1>1. PICK words, k : RingStep(s, l, words, k)
  BY RingStepIs
<1>2. CoreOk(cfg.tree, core') /\ lane' \in [Lanes -> LaneStates]
  BY <1>1 DEF RingStep
<1>3. Types' /\ CoreOk(cfg.tree, core)'
  BY <1>2, CoreNow, TypesNext DEF HydraInv, Types
<1>4. LaneAt(l)'
  BY <1>1, <1>3, RingLane
<1>5. \A m \in Lanes : m # l => LaneAt(m)'
  BY <1>1, <1>3, RingOthers
<1> QED BY <1>3, <1>4, <1>5 DEF HydraInv

\* The first span of a chunk sent to a lane keeps the invariant.
LEMMA SubmitOpenInv ==
  ASSUME HydraInv, SubmitOpen
  PROVE  HydraInv'
<1>1. core.pc = "idle" /\ core.pass_open /\ core.pending_len > 0
  BY DEF SubmitOpen, MaySubmit
<1>2. CASE core.cur_inline # None /\ submit_inline(core)
  BY <1>1, <1>2, SubmitInlineInv DEF SubmitOpen
<1>3. CASE core.cur_inline = None /\ submit_ring(core)
  <2> DEFINE l == core.pending_lane
  <2>1. l \in Lanes /\ core.pending_len \in Nat /\ core.pending_head \in Nat
    BY CoreNow DEF Sinks
  <2>2. Pending(l) /\ (\A m \in Lanes \ {l} : ~Pending(m))
    BY <1>1, <1>3 DEF Pending
  <2>3. core.pending_head = lane[l].desc_head /\ l = core.submit_lane
    BY <2>1, <2>2 DEF HydraInv, LaneAt, OpenAt
  <2>4. core.pending_head + core.pending_len = Top(l)
    BY <2>2, <2>3 DEF Top
  <2>5. core.pending_len # 0
    BY <1>1, <2>1
  <2>6. Placed(core, l)
    BY <1>1, <1>3, <2>2, <2>3, <2>4, <2>5, CoreNow DEF Placed
  <2> QED BY <1>3, <2>1, <2>6, SubmitRingInv DEF SubmitOpen
<1> QED BY <1>2, <1>3 DEF SubmitOpen

\* A later span of a chunk sent to a lane keeps the invariant.
LEMMA SubmitLaneInv ==
  ASSUME HydraInv, SubmitLane
  PROVE  HydraInv'
<1> DEFINE l == core.submit_lane
           a == lane[l].desc_head
           s == [core EXCEPT !.pc = "idle", !.pending_lane = l, !.pending_head = a]
<1>1. core.pass_open /\ core.ret = "idle" /\ core.pending_len = 0
  BY CoreNow DEF SubmitLane, MaySubmit, GridAt
<1>2. core \in Sinks /\ l \in Lanes
  BY CoreNow DEF Sinks
<1>3. a \in Nat /\ lane[l].desc_tail \in Nat
  BY <1>2, LaneTypes DEF HydraInv
<1>4. /\ CoreOk(cfg.tree, s) /\ SameFold(s, core) /\ SameAssist(s, core) /\ SameGrid(s, core) /\ SamePasses(s, core)
      /\ s.pending_len = core.pending_len /\ s.cur_inline = core.cur_inline
      /\ s.pending_lane = l /\ s.pending_head = a /\ s.pc = "idle"
  <2>1. PlacedBy(s, core, l, a)
    BY DEF PlacedBy
  <2>2. CoreOk(cfg.tree, core)
    BY CoreNow
  <2> HIDE DEF l, a, s
  <2> QED BY <1>1, <1>2, <1>3, <2>1, <2>2, PlaceCore
<1>5. submit_ring(s) /\ UNCHANGED <<cfg, worker, stop>>
  BY DEF SubmitLane
<1> HIDE DEF s
<1>6. Flying(s) = Flying(core)
  BY <1>2, <1>4, FlyingSame DEF SameFold, SameGrid
<1>7. core.cur_inline = None
  BY <1>1, <1>2, CoreNow DEF AssistRing
<1>8. \A m \in Lanes : ~Pending(m)
  BY <1>1 DEF Pending
<1>9. a + chunk_need <= lane[l].desc_tail + DESC_CAP
  <2>1. ~(a - lane[l].desc_tail + chunk_need > DESC_CAP)
    BY DEF SubmitLane, lane_full
  <2>2. chunk_need \in Nat /\ DESC_CAP \in Nat
    BY LanesAssumption, GridAssumption, CoreNow DEF chunk_need
  <2> HIDE DEF a, l
  <2> QED BY <1>3, <2>1, <2>2
<1>10. s.pending_head + s.pending_len = Top(l)
  BY <1>1, <1>2, <1>3, <1>4, <1>8 DEF Top
<1>11. Placed(s, l)
  BY <1>1, <1>4, <1>6, <1>7, <1>8, <1>9, <1>10 DEF Placed, SameGrid, SamePasses
<1> QED BY <1>2, <1>5, <1>11, SubmitRingInv

\* The results of a lane that the fold takes are the next spans.
NextAre(l, n) == \A i \in 0..(n - 1) : Result(l, lane[l].res_tail + i).value = core.fold_pos + i

\* The span that is i ahead of the fold is in flight, in the lane the fold is in.
LEMMA AheadMine ==
  ASSUME HydraInv, NEW h \in Nat, NEW t \in Nat, NEW p \in Nat, CoreAt(cfg.tree, core, h, t, p), t < p,
         NEW n, NEW avail, Capped(core, t, n, avail), ~inline_due(core), Flying(core) # {},
         NEW i \in 0..(n - 1)
  PROVE  Mine(lane_of(core.fold_pos), core.fold_pos + i)
<1> DEFINE fp == core.fold_pos
           v == fp + i
<1>1. fp \in Nat /\ core.next_span \in Nat /\ core \in Sinks /\ core.inline_seq \in Nat /\ core.inline_fold_seq \in Nat
  BY CoreNow, AssistTypes
<1>2. n \in Nat /\ n <= CHUNK - (fp % CHUNK) /\ fp + n <= core.next_span
  BY DEF Capped
<1>3. v \in fp..(core.next_span - 1) /\ v < fp + n /\ v \in Nat
  BY <1>1, <1>2
<1>4. ~Inlined(core, v)
  <2>1. ASSUME NEW k \in Held(core), Chunk(core, k).first_span <= v PROVE FALSE
    <3>1. fp + n <= Chunk(core, k).first_span
      BY CoreNow, ChunksAhead
    <3>2. Chunk(core, k).first_span \in Nat
      BY CoreNow DEF AssistRing
    <3> QED BY <1>1, <1>2, <1>3, <2>1, <3>1, <3>2
  <2> QED BY <2>1 DEF Inlined
<1>5. lane_of(v) = lane_of(fp)
  <2>1. CHUNK \in Nat \ {0}
    BY GridAssumption
  <2> DEFINE a == fp \div CHUNK
             b == fp % CHUNK
  <2>2. a \in Nat /\ b \in 0..(CHUNK - 1) /\ fp = CHUNK * a + b
    BY <1>1, <2>1, DivMod
  <2>3. b + i \in 0..(CHUNK - 1)
    BY <1>2, <2>1, <2>2
  <2>4. v = CHUNK * a + (b + i)
    <3> DEFINE y == CHUNK * a
    <3>1. y \in Int /\ fp = y + b
      BY <2>1, <2>2
    <3>2. i \in Int
      BY <1>2
    <3> HIDE DEF y, b, fp
    <3>3. b \in Int /\ fp \in Int
      BY <1>1, <2>2
    <3>4. fp + i = y + (b + i)
      BY <3>1, <3>2, <3>3
    <3> QED BY <3>4 DEF y
  <2>5. v \div CHUNK = a
    <3> DEFINE c == v \div CHUNK
               r == v % CHUNK
    <3>1. c \in Nat /\ r \in 0..(CHUNK - 1) /\ v = CHUNK * c + r
      BY <1>3, <2>1, DivMod
    <3> HIDE DEF a, b, c, r, v
    <3>2. c - a >= 1 => CHUNK * (c - a) >= CHUNK
      BY <2>1, <2>2, <3>1, Multiples
    <3>3. c - a <= -1 => CHUNK * (c - a) <= -CHUNK
      BY <2>1, <2>2, <3>1, Multiples
    <3>4. CHUNK * (c - a) = CHUNK * c - CHUNK * a
      BY <2>1, <2>2, <3>1
    <3> DEFINE x == CHUNK * c
               y == CHUNK * a
    <3>5. x - y = (b + i) - r /\ x \in Int /\ y \in Int
      <4>1. x \in Int /\ y \in Int
        BY <2>1, <2>2, <3>1
      <4> HIDE DEF x, y
      <4>2. v = y + (b + i) /\ v = x + r
        BY <2>4, <3>1 DEF x, y
      <4> QED BY <2>2, <2>3, <3>1, <4>1, <4>2
    <3>6. x - y < CHUNK /\ x - y > -CHUNK
      <4> HIDE DEF x, y
      <4> QED BY <2>1, <2>3, <3>1, <3>5
    <3>7. ~(c - a >= 1) /\ ~(c - a <= -1)
      <4>1. CHUNK * (c - a) = x - y
        BY <3>4
      <4> HIDE DEF x, y
      <4> QED BY <2>1, <3>2, <3>3, <3>5, <3>6, <4>1
    <3> QED BY <2>2, <3>1, <3>7 DEF c
  <2> QED BY <2>5 DEF lane_of, chunk_of
<1>6. v \in Flying(core)
  BY <1>3, <1>4 DEF Flying
<1> QED BY <1>5, <1>6 DEF Mine

\* The results the driver reads next from the lane of fold_pos are those of the next n spans.
LEMMA NextResults ==
  ASSUME HydraInv, NEW h \in Nat, NEW t \in Nat, NEW p \in Nat, CoreAt(cfg.tree, core, h, t, p), t < p,
         NEW l \in Lanes, l = lane_of(core.fold_pos),
         NEW n, NEW avail, Capped(core, t, n, avail), avail = lane[l].res_head - lane[l].res_tail,
         ~inline_due(core), Flying(core) # {}
  PROVE  NextAre(l, n)
<1> DEFINE fp == core.fold_pos
           rt == lane[l].res_tail
           to == Made(l)
           val(q) == Result(l, q).value
           S == {j \in 0..n : \A i \in 0..(j - 1) : val(rt + i) = fp + i}
<1>1. /\ fp \in Nat /\ rt \in Nat /\ to \in Nat /\ lane[l].res_head \in Nat /\ worker[l].nres \in Nat
      /\ worker[l].rhead \in Nat
  BY CoreNow, SinkTypes, LaneTypes DEF HydraInv
<1>2. n \in Nat /\ n <= lane[l].res_head - rt
  BY DEF Capped
<1>3. Cursors(l) /\ ResultsAt(l) /\ WordsAt(l) /\ Complete(l)
  BY DEF HydraInv, LaneAt
<1>4. rt + n <= to
  BY <1>1, <1>2, <1>3 DEF Cursors, Made, unpublished
<1>5. /\ \A q \in rt..(to - 1) : Mine(l, val(q))
      /\ \A q, r \in rt..(to - 1) : q < r => val(q) < val(r)
      /\ \A q \in rt..(to - 1), d \in Seen(l)..(Top(l) - 1) :
            Word(l, d).kind = "span" => val(q) < Word(l, d).id
  BY <1>3 DEF ResultsAt, WordsAt
<1>6. \A v : Mine(l, v) => v \in Nat /\ fp <= v
  BY <1>1, CoreNow, SinkTypes DEF Mine, Flying
<1>7. \A v : Mine(l, v) => \/ \E q \in rt..(to - 1) : val(q) = v
                           \/ \E d \in Seen(l)..(Top(l) - 1) : Word(l, d).kind = "span" /\ Word(l, d).id = v
  <2>1. ASSUME NEW v, Mine(l, v)
        PROVE  \/ \E q \in rt..(to - 1) : val(q) = v
               \/ \E d \in Seen(l)..(Top(l) - 1) : Word(l, d).kind = "span" /\ Word(l, d).id = v
    <3>1. Span(v).kind = "span" /\ Span(v).id = v
      BY DEF Span
    <3> QED BY <1>3, <2>1, <3>1 DEF Complete
  <2> QED BY <2>1
<1>8. \A i \in 0..(n - 1) : Mine(l, fp + i)
  BY AheadMine
<1> HIDE DEF fp, rt, to, val
<1>9. 0 \in S
  BY <1>2
<1>10. \A j \in 1..n : j - 1 \in S => j \in S
  <2> SUFFICES ASSUME NEW j \in 1..n, j - 1 \in S PROVE j \in S
    OBVIOUS
  <2> DEFINE e == j - 1
             v == fp + e
             q0 == rt + e
  <2>1. e \in 0..(n - 1) /\ q0 \in rt..(to - 1) /\ v \in Nat /\ q0 \in Nat
    BY <1>1, <1>2, <1>4
  <2>2. \A i \in 0..(e - 1) : val(rt + i) = fp + i /\ rt + i \in rt..(to - 1) /\ rt + i < q0
    BY <1>1, <2>1
  <2>3. Mine(l, v)
    BY <1>8, <2>1
  <2>4. val(q0) \in Nat /\ fp <= val(q0)
    BY <1>5, <1>6, <2>1
  <2>5. ~(val(q0) < v)
    <3> SUFFICES ASSUME val(q0) < v PROVE FALSE
      OBVIOUS
    <3> DEFINE i == val(q0) - fp
    <3>1. i \in 0..(e - 1) /\ val(q0) = fp + i
      BY <1>1, <2>1, <2>4
    <3> DEFINE q == rt + i
    <3>2. val(q) = fp + i /\ q \in rt..(to - 1) /\ q < q0
      BY <2>2, <3>1
    <3> HIDE DEF q, i, q0, v
    <3>3. val(q) < val(q0)
      BY <1>5, <2>1, <3>2
    <3> QED BY <2>4, <3>1, <3>2, <3>3
  <2>6. ~(val(q0) > v)
    <3> SUFFICES ASSUME val(q0) > v PROVE FALSE
      OBVIOUS
    <3>1. CASE \E q \in rt..(to - 1) : val(q) = v
      <4>1. PICK q \in rt..(to - 1) : val(q) = v
        BY <3>1
      <4>2. q \in Nat /\ q0 \in Nat /\ rt <= q
        BY <1>1, <2>1
      <4>3. ~(q0 < q)
        <5> HIDE DEF q0, v
        <5>1. q0 < q => val(q0) < val(q)
          BY <1>5, <2>1, <4>1
        <5> QED BY <2>1, <2>4, <4>1, <5>1
      <4>4. q # q0
        <5> HIDE DEF q0, v
        <5> QED BY <2>1, <2>4, <4>1
      <4>5. q < q0
        <5> HIDE DEF q0
        <5> QED BY <4>2, <4>3, <4>4
      <4> DEFINE i == q - rt
      <4>6. i \in 0..(e - 1) /\ q = rt + i
        BY <1>1, <2>1, <4>2, <4>5
      <4>7. val(q) = fp + i
        BY <2>2, <4>6
      <4> QED BY <1>1, <2>1, <4>1, <4>6, <4>7
    <3>2. CASE \E d \in Seen(l)..(Top(l) - 1) : Word(l, d).kind = "span" /\ Word(l, d).id = v
      <4>1. val(q0) < v
        <5> HIDE DEF q0, v
        <5> QED BY <1>5, <2>1, <3>2
      <4> HIDE DEF v, q0
      <4> QED BY <2>1, <2>4, <4>1
    <3> QED BY <1>7, <2>3, <3>1, <3>2
  <2>7. val(rt + e) = fp + e
    BY <2>1, <2>4, <2>5, <2>6
  <2>8. \A i \in 0..(j - 1) : i = e \/ i \in 0..(e - 1)
    OBVIOUS
  <2>9. \A i \in 0..(j - 1) : val(rt + i) = fp + i
    BY <2>2, <2>7, <2>8
  <2> QED BY <2>9
<1>11. 0..n \subseteq S
  <2> HIDE DEF S
  <2> QED BY <1>2, <1>9, <1>10, Climb
<1>12. n \in S
  BY <1>2, <1>11
<1> QED BY <1>12 DEF NextAre, fp, rt, val

\* A drain of lane l by n results.
Drained(l, n) ==
    /\ CoreOk(cfg.tree, core') /\ Folded(core', core) /\ core'.fold_pos = core.fold_pos + n
    /\ Flying(core') = {v \in Flying(core) : core.fold_pos + n <= v}
    /\ lane' = [lane EXCEPT ![l].res_tail = @ + n] /\ n \in Nat
    /\ NextAre(l, n) /\ lane[l].res_tail + n <= lane[l].res_head
    /\ \A i \in 0..(n - 1) : Mine(l, core.fold_pos + i)
    /\ UNCHANGED <<cfg, worker, stop>>

\* FoldLane takes the next n results of one lane, in span order, and folds exactly those.
LEMMA DrainedLane ==
  ASSUME HydraInv, FoldLane, NEW l \in Lanes, l = lane_of(core.fold_pos)
  PROVE  \E n : Drained(l, n)
<1> DEFINE c == CHUNK - (core.fold_pos % CHUNK)
           s == [core EXCEPT !.fold_rem = c]
           avail == lane[l].res_head - lane[l].res_tail
           n == fold_cap(core, avail)
           r(i) == lane[l].res[(lane[l].res_tail + i) % RES_CAP]
           vals == [i \in 1..n |-> r(i - 1).value]
<1>1. PICK h \in Nat, t \in Nat, p \in Nat : CoreAt(cfg.tree, core, h, t, p)
  BY CoreNow DEF CoreOk
<1>2. core \in Sinks /\ core.fold_pos \in Nat /\ core.fold_pos < core.next_span /\ ~inline_due(core)
  BY CoreNow, SinkTypes DEF FoldLane
<1>3. /\ lane[l].res_head \in Nat /\ lane[l].res_tail \in Nat /\ worker[l].rhead \in Nat /\ worker[l].nres \in Nat
      /\ lane[l].res \in ResRing /\ lane \in [Lanes -> LaneStates] /\ Made(l) \in Nat
  BY LaneTypes DEF HydraInv, Types
<1>4. /\ lane[l].res_tail <= lane[l].res_head /\ lane[l].res_head <= Made(l)
      /\ lane[l].res_tail # lane[l].res_head /\ drain_results(l, fold_cap(core, avail))
  <2>1. Cursors(l)
    BY DEF HydraInv, LaneAt
  <2>2. lane[l].res_tail # lane[l].res_head /\ drain_results(l, fold_cap(core, avail))
    BY DEF FoldLane, fold_lane
  <2> QED BY <1>3, <2>1, <2>2 DEF Cursors, Made, unpublished
<1>5. avail \in Nat /\ avail > 0
  BY <1>3, <1>4
<1>6. s.fold_pos = core.fold_pos
  BY <1>2 DEF Sinks
<1>7. n = fold_cap(core, avail)
  OBVIOUS
<1> HIDE DEF n
<1>8. t < p /\ Capped(core, t, n, avail)
  <2>1. SamePasses(core, core) /\ SameGrid(core, core)
    BY DEF SamePasses, SameGrid
  <2> HIDE DEF avail
  <2> QED BY <1>1, <1>2, <1>5, <1>7, <2>1, CoreNow, CapFacts
<1>9. n \in Nat /\ n <= avail
  BY <1>8 DEF Capped
<1>10. Flying(core) # {}
  <2>1. lane[l].res_tail \in lane[l].res_tail..(Made(l) - 1)
    BY <1>3, <1>4
  <2>2. Mine(l, Result(l, lane[l].res_tail).value)
    BY <2>1 DEF HydraInv, LaneAt, ResultsAt
  <2> QED BY <2>2 DEF Mine
<1>11. NextAre(l, n)
  BY <1>1, <1>2, <1>8, <1>10, NextResults
<1>12. \A i \in 0..(n - 1) : r(i).value = core.fold_pos + i /\ r(i).span_id = s.fold_pos + i
  <2>1. ASSUME NEW i \in 0..(n - 1) PROVE r(i).value = core.fold_pos + i /\ r(i).span_id = s.fold_pos + i
    <3> DEFINE q == lane[l].res_tail + i
    <3>1. q \in lane[l].res_tail..(Made(l) - 1)
      BY <1>3, <1>4, <1>9
    <3>2. Result(l, q).span_id = Result(l, q).value
      BY <3>1 DEF HydraInv, LaneAt, ResultsAt
    <3>3. Result(l, q).value = core.fold_pos + i
      BY <1>11 DEF NextAre
    <3> QED BY <1>6, <3>2, <3>3 DEF Result
  <2> QED BY <2>1
<1>13. FoldsRun(cfg.tree, core', core, n, vals, c) /\ lane' = [lane EXCEPT ![l].res_tail = @ + n]
  <2>1. drain_results(l, n)
    BY <1>4, <1>7
  <2>2. ~(\E i \in 0..(n - 1) : r(i).span_id # s.fold_pos + i)
    BY <1>12
  <2> QED BY <2>1, <2>2 DEF drain_results, FoldsRun
<1>14. vals \in [1..n -> Int] /\ (\A i \in 1..n : vals[i] = core.fold_pos + i - 1)
  <2>1. ASSUME NEW i \in 1..n PROVE r(i - 1).value = core.fold_pos + i - 1 /\ r(i - 1).value \in Int
    <3> DEFINE e == i - 1
    <3>1. e \in 0..(n - 1)
      BY <1>9
    <3> HIDE DEF e
    <3>2. r(e).value = core.fold_pos + e
      BY <1>12, <3>1
    <3>3. r(e).value = core.fold_pos + i - 1
      BY <1>2, <3>2 DEF e
    <3> QED BY <1>2, <3>3 DEF e
  <2> HIDE DEF r
  <2> QED BY <2>1
<1>15. c \in Int
  BY <1>2, GridAssumption
<1>16. RunFolded(cfg.tree, core', core, n)
  <2> HIDE DEF c, vals, avail
  <2> QED BY <1>1, <1>2, <1>8, <1>10, <1>13, <1>14, <1>15, CoreNow, FoldLaneCore
<1>17. \A i \in 0..(n - 1) : Mine(l, core.fold_pos + i)
  BY <1>1, <1>2, <1>8, <1>10, AheadMine
<1>18. lane[l].res_tail + n <= lane[l].res_head
  BY <1>3, <1>9
<1>19. UNCHANGED <<cfg, worker, stop>>
  BY DEF FoldLane
<1>20. Drained(l, n)
  BY <1>9, <1>11, <1>13, <1>16, <1>17, <1>18, <1>19 DEF Drained, RunFolded
<1> QED BY <1>20

\* The other lanes hold none of the spans that were folded.
LEMMA DrainOthers ==
  ASSUME HydraInv, Types', NEW l \in Lanes, NEW n, Drained(l, n), NEW m \in Lanes, m # l
  PROVE  LaneAt(m)'
<1>1. lane'[m] = lane[m] /\ SamePending(core', core) /\ SameGrid(core', core)
  BY DEF Drained, Folded
<1>2. Top(m)' = Top(m)
  BY <1>1 DEF Top, Pending, SamePending
<1>3. \A v : Mine(m, v)' <=> Mine(m, v)
  <2>1. ASSUME NEW v, Mine(m, v) PROVE core.fold_pos + n <= v
    <3>1. v \in Int /\ core.fold_pos \in Nat /\ n \in Nat /\ core.fold_pos <= v
      BY <2>1, CoreNow, SinkTypes DEF Mine, Flying, Drained
    <3> SUFFICES ASSUME v < core.fold_pos + n PROVE FALSE
      BY <3>1
    <3> DEFINE i == v - core.fold_pos
    <3>2. i \in 0..(n - 1) /\ core.fold_pos + i = v
      BY <3>1
    <3>3. Mine(l, core.fold_pos + i)
      <4> HIDE DEF i
      <4> QED BY <3>2 DEF Drained
    <3> QED BY <2>1, <3>2, <3>3 DEF Mine
  <2>2. \A v : v \in Flying(core') <=> v \in Flying(core) /\ core.fold_pos + n <= v
    BY DEF Drained
  <2> QED BY <2>1, <2>2 DEF Mine
<1>4. OpenAt(m)'
  <2>1. OpenAt(m)
    BY DEF HydraInv, LaneAt
  <2> QED BY <1>1, <1>2, <2>1 DEF OpenAt, Pending, SamePending, SameGrid, Word
<1>5. LaneKept(m)
  <2>1. lane[m].desc_head \in Nat
    BY LaneTypes DEF HydraInv
  <2> QED BY <1>1, <1>2, <1>3, <2>1 DEF LaneKept, Drained
<1> QED BY <1>4, <1>5, LaneKeep DEF HydraInv

\* What stays in a lane that was drained is ahead of the fold.
LEMMA DrainedRest ==
  ASSUME HydraInv, NEW l \in Lanes, NEW n, Drained(l, n),
         NEW rt, rt = lane[l].res_tail + n, NEW lo, lo = core.fold_pos + n
  PROVE  /\ rt \in Nat /\ lo \in Nat /\ rt <= Made(l)
         /\ \A q \in rt..(Made(l) - 1) : q \in lane[l].res_tail..(Made(l) - 1) /\ lo <= Result(l, q).value
         /\ \A d \in Seen(l)..(Top(l) - 1) : Word(l, d).kind = "span" => lo <= Word(l, d).id
         /\ \A v : Mine(l, v) /\ lo <= v =>
               \/ \E q \in rt..(Made(l) - 1) : Result(l, q).value = v
               \/ \E d \in Seen(l)..(Top(l) - 1) : Word(l, d) = Span(v)
<1> DEFINE fp == core.fold_pos
           r0 == lane[l].res_tail
           to == Made(l)
           val(q) == Result(l, q).value
<1>1. /\ fp \in Nat /\ r0 \in Nat /\ to \in Nat /\ lane[l].res_head \in Nat /\ worker[l].nres \in Nat
      /\ worker[l].rhead \in Nat
  BY CoreNow, SinkTypes, LaneTypes DEF HydraInv
<1>2. n \in Nat /\ r0 + n <= lane[l].res_head /\ NextAre(l, n)
  BY DEF Drained
<1>3. Cursors(l) /\ ResultsAt(l) /\ WordsAt(l) /\ Complete(l)
  BY DEF HydraInv, LaneAt
<1>4. r0 + n <= to
  BY <1>1, <1>2, <1>3 DEF Cursors, Made, unpublished
<1>5. /\ \A q \in r0..(to - 1) : Mine(l, val(q))
      /\ \A q, r \in r0..(to - 1) : q < r => val(q) < val(r)
      /\ \A q \in r0..(to - 1), d \in Seen(l)..(Top(l) - 1) : Word(l, d).kind = "span" => val(q) < Word(l, d).id
      /\ \A d \in Seen(l)..(Top(l) - 1) : Word(l, d).kind = "span" => Mine(l, Word(l, d).id)
  BY <1>3 DEF ResultsAt, WordsAt
<1>6. \A v : Mine(l, v) => v \in Nat /\ fp <= v
  BY <1>1, CoreNow, SinkTypes DEF Mine, Flying
<1>7. \A i \in 0..(n - 1) : val(r0 + i) = fp + i
  BY <1>2 DEF NextAre
<1>8. \A v : Mine(l, v) => \/ \E q \in r0..(to - 1) : val(q) = v
                           \/ \E d \in Seen(l)..(Top(l) - 1) : Word(l, d) = Span(v)
  BY <1>3 DEF Complete
<1>9. rt = r0 + n /\ lo = fp + n
  OBVIOUS
<1> HIDE DEF fp, r0, to, val
<1>10. ASSUME n > 0
       PROVE  /\ rt - 1 \in r0..(to - 1) /\ val(rt - 1) = lo - 1
  <2> DEFINE i == n - 1
  <2>1. i \in 0..(n - 1) /\ rt - 1 = r0 + i /\ lo - 1 = fp + i
    BY <1>1, <1>2, <1>9, <1>10
  <2>2. val(r0 + i) = fp + i
    <3> HIDE DEF i
    <3> QED BY <1>7, <2>1
  <2> QED BY <1>1, <1>2, <1>4, <1>9, <1>10, <2>1, <2>2
<1>11. ASSUME NEW q \in rt..(to - 1) PROVE q \in r0..(to - 1) /\ lo <= val(q)
  <2>1. q \in r0..(to - 1) /\ q \in Nat
    BY <1>1, <1>2, <1>9
  <2>2. val(q) \in Nat /\ fp <= val(q)
    BY <1>5, <1>6, <2>1
  <2>3. CASE n > 0
    <3> DEFINE e == rt - 1
    <3>1. e < q /\ e \in r0..(to - 1) /\ val(e) = lo - 1
      BY <1>1, <1>2, <1>9, <1>10, <2>3, <2>1
    <3> HIDE DEF e
    <3>2. val(e) < val(q)
      BY <1>5, <2>1, <3>1
    <3> QED BY <1>1, <1>2, <1>9, <2>1, <2>2, <3>1, <3>2
  <2> QED BY <1>1, <1>2, <1>9, <2>1, <2>2, <2>3
<1>12. ASSUME NEW d \in Seen(l)..(Top(l) - 1), Word(l, d).kind = "span" PROVE lo <= Word(l, d).id
  <2> DEFINE w == Word(l, d).id
  <2>1. w \in Nat /\ fp <= w
    BY <1>5, <1>6, <1>12
  <2>2. ASSUME n > 0 PROVE lo <= w
    <3> DEFINE e == rt - 1
    <3>1. e \in r0..(to - 1) /\ val(e) = lo - 1
      BY <1>10, <2>2
    <3> HIDE DEF e
    <3>2. val(e) < w
      BY <1>5, <1>12, <3>1
    <3> HIDE DEF w
    <3>3. val(e) = lo - 1 /\ lo \in Nat
      BY <1>1, <1>2, <1>9, <3>1
    <3> QED BY <2>1, <3>2, <3>3
  <2> HIDE DEF w
  <2>3. lo <= w
    BY <1>1, <1>2, <1>9, <2>1, <2>2
  <2> QED BY <2>3 DEF w
<1>13. ASSUME NEW v, Mine(l, v), lo <= v
       PROVE  \/ \E q \in rt..(to - 1) : val(q) = v
              \/ \E d \in Seen(l)..(Top(l) - 1) : Word(l, d) = Span(v)
  <2>1. CASE \E q \in r0..(to - 1) : val(q) = v
    <3>1. PICK q \in r0..(to - 1) : val(q) = v
      BY <2>1
    <3>2. q \in Nat /\ r0 <= q /\ q <= to - 1
      BY <1>1
    <3>3. ~(q < rt)
      <4> SUFFICES ASSUME q < rt PROVE FALSE
        OBVIOUS
      <4> DEFINE i == q - r0
      <4>1. i \in 0..(n - 1) /\ q = r0 + i
        BY <1>1, <1>2, <1>9, <3>2
      <4>2. val(r0 + i) = fp + i
        <5> HIDE DEF i
        <5> QED BY <1>7, <4>1
      <4>3. v = fp + i
        BY <3>1, <4>1, <4>2
      <4> QED BY <1>1, <1>2, <1>9, <1>13, <4>1, <4>3
    <3>4. q \in rt..(to - 1)
      BY <1>1, <1>2, <1>9, <3>2, <3>3
    <3> QED BY <3>1, <3>4
  <2> QED BY <1>8, <1>13, <2>1
<1> QED BY <1>1, <1>2, <1>4, <1>9, <1>11, <1>12, <1>13 DEF fp, r0, to, val

\* The lane that was drained.
LEMMA DrainLane ==
  ASSUME HydraInv, Types', NEW l \in Lanes, NEW n, Drained(l, n)
  PROVE  LaneAt(l)'
<1>0. PICK rt, lo, seen, top, made :
        /\ rt = lane[l].res_tail + n /\ lo = core.fold_pos + n
        /\ seen = Seen(l) /\ top = Top(l) /\ made = Made(l)
  OBVIOUS
<1>1. /\ rt \in Nat /\ lo \in Nat /\ rt <= made /\ rt <= lane[l].res_head /\ n \in Nat
      /\ \A q \in rt..(made - 1) : q \in lane[l].res_tail..(made - 1) /\ lo <= Result(l, q).value
      /\ \A d \in seen..(top - 1) : Word(l, d).kind = "span" => lo <= Word(l, d).id
      /\ \A v : Mine(l, v) /\ lo <= v =>
            \/ \E q \in rt..(made - 1) : Result(l, q).value = v
            \/ \E d \in seen..(top - 1) : Word(l, d) = Span(v)
  BY <1>0, DrainedRest DEF Drained
<1>2. /\ lane \in [Lanes -> LaneStates] /\ lane[l] \in LaneStates
      /\ lane[l].res_tail \in Nat /\ lane[l].desc_head \in Nat
  BY LaneTypes DEF HydraInv, Types
<1>3. /\ lane'[l].res_tail = rt /\ lane'[l].res = lane[l].res /\ lane'[l].desc = lane[l].desc
      /\ lane'[l].desc_head = lane[l].desc_head /\ lane'[l].desc_tail = lane[l].desc_tail
      /\ lane'[l].res_head = lane[l].res_head
  <2>1. lane' = [lane EXCEPT ![l].res_tail = lane[l].res_tail + n]
    BY DEF Drained
  <2>2. lane'[l] = [lane[l] EXCEPT !.res_tail = lane[l].res_tail + n]
    BY <1>2, <2>1
  <2> QED BY <1>0, <1>2, <2>2 DEF LaneStates
<1>4. worker' = worker /\ cfg' = cfg /\ SamePending(core', core) /\ SameGrid(core', core)
  BY DEF Drained, Folded
<1>5. \A v : Mine(l, v)' <=> Mine(l, v) /\ lo <= v
  <2>1. \A v : v \in Flying(core') <=> v \in Flying(core) /\ lo <= v
    BY <1>0 DEF Drained
  <2> QED BY <2>1 DEF Mine
<1>6. Seen(l)' = seen /\ Made(l)' = made
  BY <1>0, <1>4 DEF Seen, Made, unpublished
<1>7. Top(l)' = top
  BY <1>0, <1>3, <1>4 DEF Top, Pending, SamePending
<1>8. (\A q : Result(l, q)' = Result(l, q)) /\ (\A d : Word(l, d)' = Word(l, d))
  BY <1>3 DEF Result, Word
<1>9. LaneAt(l)
  BY DEF HydraInv
<1>10. ResultsAt(l)'
  <2>1. /\ \A q \in lane[l].res_tail..(made - 1) :
              Result(l, q).span_id = Result(l, q).value /\ Mine(l, Result(l, q).value)
        /\ \A q, r \in lane[l].res_tail..(made - 1) : q < r => Result(l, q).value < Result(l, r).value
    BY <1>0, <1>9 DEF LaneAt, ResultsAt
  <2>2. \A q \in rt..(made - 1) :
            Result(l, q)'.span_id = Result(l, q)'.value /\ Mine(l, Result(l, q).value)'
    BY <1>1, <1>5, <1>8, <2>1
  <2>3. \A q, r \in rt..(made - 1) : q < r => Result(l, q)'.value < Result(l, r)'.value
    BY <1>1, <1>8, <2>1
  <2> QED BY <1>3, <1>6, <1>8, <2>2, <2>3 DEF ResultsAt
<1>11. WordsAt(l)'
  <2>1. /\ \A d \in seen..(top - 1) : Word(l, d).kind = "span" => Mine(l, Word(l, d).id)
        /\ \A d, e \in seen..(top - 1) :
              d < e /\ Word(l, d).kind = "span" /\ Word(l, e).kind = "span" => Word(l, d).id < Word(l, e).id
        /\ \A q \in lane[l].res_tail..(made - 1), d \in seen..(top - 1) :
              Word(l, d).kind = "span" => Result(l, q).value < Word(l, d).id
    BY <1>0, <1>9 DEF LaneAt, WordsAt
  <2>2. \A d \in seen..(top - 1) : Word(l, d).kind = "span" => Mine(l, Word(l, d).id)'
    BY <1>1, <1>5, <1>8, <2>1
  <2>3. \A q \in rt..(made - 1), d \in seen..(top - 1) :
            Word(l, d).kind = "span" => Result(l, q).value < Word(l, d).id
    BY <1>1, <2>1
  <2> QED BY <1>3, <1>6, <1>7, <1>8, <2>1, <2>2, <2>3 DEF WordsAt
<1>12. Complete(l)'
  <2>1. \A v : Mine(l, v)' => \/ \E q \in rt..(made - 1) : Result(l, q)'.value = v
                              \/ \E d \in seen..(top - 1) : Word(l, d)' = Span(v)
    BY <1>1, <1>5, <1>8
  <2> QED BY <1>3, <1>6, <1>7, <2>1 DEF Complete
<1>13. Numbered(l)'
  BY <1>0, <1>4, <1>6, <1>7, <1>8, <1>9 DEF LaneAt, Numbered
<1>14. OpenAt(l)'
  BY <1>0, <1>3, <1>4, <1>7, <1>8, <1>9 DEF LaneAt, OpenAt, Pending, SamePending, SameGrid
<1>15. Cursors(l)'
  <2>1. /\ Cursors(l) /\ worker[l].rhead \in Nat /\ made \in Nat
    BY <1>0, <1>9, LaneTypes DEF LaneAt, HydraInv
  <2>2. lane[l].res_head = worker[l].rhead /\ made <= lane[l].res_tail + RES_CAP /\ top <= lane[l].desc_tail + DESC_CAP
    BY <1>0, <2>1 DEF Cursors
  <2>3. rt <= worker[l].rhead /\ made <= rt + RES_CAP
    <3>1. RES_CAP \in Nat
      BY LanesAssumption
    <3> QED BY <1>0, <1>1, <1>2, <2>1, <2>2, <3>1
  <2> QED BY <1>3, <1>4, <1>6, <1>7, <2>1, <2>2, <2>3 DEF Cursors
<1> QED BY <1>10, <1>11, <1>12, <1>13, <1>14, <1>15 DEF LaneAt

\* fold_available takes results of the lane that is next.
LEMMA FoldLaneInv ==
  ASSUME HydraInv, FoldLane
  PROVE  HydraInv'
<1>0. PICK l : l = lane_of(core.fold_pos)
  OBVIOUS
<1>1. l \in Lanes
  <2>1. core.fold_pos \in Nat /\ CHUNK \in Nat \ {0} /\ NLANES \in Nat \ {0}
    BY CoreNow, SinkTypes, GridAssumption
  <2> DEFINE c == core.fold_pos \div CHUNK
  <2>2. c \in Nat
    BY <2>1, DivMod
  <2> HIDE DEF c
  <2>3. c % NLANES \in 0..(NLANES - 1)
    BY <2>1, <2>2, DivMod
  <2> QED BY <1>0, <2>3 DEF lane_of, chunk_of, Lanes, c
<1>2. PICK n : Drained(l, n)
  BY <1>0, <1>1, DrainedLane
<1>3. lane' \in [Lanes -> LaneStates]
  <2>1. lane \in [Lanes -> LaneStates] /\ lane[l].res_tail \in Nat
    BY <1>1, LaneTypes DEF HydraInv, Types
  <2> DEFINE a == lane[l].res_tail + n
  <2>2. a \in Nat /\ lane' = [lane EXCEPT ![l].res_tail = a]
    BY <1>2, <2>1 DEF Drained
  <2> HIDE DEF a
  <2> QED BY <1>1, <2>1, <2>2 DEF LaneStates
<1>4. Types' /\ CoreOk(cfg.tree, core)'
  BY <1>2, <1>3, CoreNow, TypesNext DEF HydraInv, Types, Drained
<1>5. LaneAt(l)'
  BY <1>1, <1>2, <1>4, DrainLane
<1>6. \A m \in Lanes : m # l => LaneAt(m)'
  BY <1>1, <1>2, <1>4, DrainOthers
<1> QED BY <1>4, <1>5, <1>6 DEF HydraInv

-----------------------------------------------------------------------------
(* The workers. *)

\* A step of the worker of lane l.
WorkerStep(l) ==
    /\ UNCHANGED <<cfg, core, stop>>
    /\ lane' \in [Lanes -> LaneStates] /\ worker' \in [Lanes -> WorkerStates]
    /\ \A m \in Lanes \ {l} : lane'[m] = lane[m] /\ worker'[m] = worker[m]

\* The other lanes are as they were.
LEMMA WorkerOthers ==
  ASSUME HydraInv, NEW l \in Lanes, WorkerStep(l), LaneAt(l)'
  PROVE  HydraInv'
<1>1. Types' /\ CoreOk(cfg.tree, core)'
  BY DEF HydraInv, Types, WorkerStep
<1>2. ASSUME NEW m \in Lanes, m # l PROVE LaneAt(m)'
  <2>1. lane'[m] = lane[m] /\ worker'[m] = worker[m] /\ core' = core /\ cfg' = cfg
    BY <1>2 DEF WorkerStep
  <2>2. lane[m].desc_head \in Nat /\ LaneAt(m)
    BY LaneTypes DEF HydraInv
  <2>3. Top(m)' = Top(m) /\ (\A v : Mine(m, v)' <=> Mine(m, v))
    BY <2>1 DEF Top, Pending, Mine
  <2>4. LaneKept(m)
    BY <2>1, <2>2, <2>3 DEF LaneKept
  <2>5. OpenAt(m)'
    BY <2>1, <2>2, <2>3 DEF LaneAt, OpenAt, Pending, Word
  <2> QED BY <1>1, <2>2, <2>4, <2>5, LaneKeep DEF HydraInv
<1>3. \A m \in Lanes : LaneAt(m)'
  BY <1>2
<1> QED BY <1>1, <1>3 DEF HydraInv

\* A step of a worker that moves its cursors and nothing else.
WorkerMoves(l) ==
    /\ lane'[l].desc = lane[l].desc /\ lane'[l].res = lane[l].res
    /\ lane'[l].desc_head = lane[l].desc_head /\ lane'[l].res_tail = lane[l].res_tail
    /\ lane[l].desc_tail <= lane'[l].desc_tail
    /\ worker'[l].cur_span = worker[l].cur_span
    /\ Seen(l)' = Seen(l) /\ Made(l)' = Made(l)

\* A step of a worker that only moves its own cursors forward keeps the invariant.
LEMMA WorkerCursors ==
  ASSUME HydraInv, NEW l \in Lanes, WorkerStep(l), WorkerMoves(l), Cursors(l)'
  PROVE  HydraInv'
<1>1. core' = core /\ cfg' = cfg /\ LaneAt(l)
  BY DEF WorkerStep, HydraInv
<1>2. Top(l)' = Top(l) /\ (\A v : Mine(l, v)' <=> Mine(l, v))
  BY <1>1 DEF WorkerMoves, Top, Pending, Mine
<1>3. (\A d : Word(l, d)' = Word(l, d)) /\ (\A q : Result(l, q)' = Result(l, q))
  BY DEF WorkerMoves, Word, Result
<1>4. Frame(l)
  BY <1>1, <1>2, <1>3 DEF WorkerMoves, Frame
<1>5. ResultsAt(l)' /\ WordsAt(l)' /\ Complete(l)' /\ Numbered(l)'
  BY <1>1, <1>4, FrameLane
<1>6. OpenAt(l)'
  <2>1. SUFFICES ASSUME Pending(l) PROVE OpenAt(l)'
    BY <1>1 DEF OpenAt, Pending
  <2>2. /\ core.pending_head = lane[l].desc_head /\ l = core.submit_lane
        /\ Top(l) + core.submit_rem <= lane[l].desc_tail + DESC_CAP
        /\ Word(l, Top(l) - 1) = Span(core.next_span - 1)
    BY <1>1, <2>1 DEF LaneAt, OpenAt
  <2>3. Top(l) + core.submit_rem <= lane'[l].desc_tail + DESC_CAP
    <3>1. /\ Top(l) \in Nat /\ core.submit_rem \in Nat /\ lane[l].desc_tail \in Nat /\ DESC_CAP \in Nat
      BY SMTT(60), LaneTypes, CoreNow, SinkTypes, AssistTypes, LanesAssumption, GridAssumption DEF HydraInv
    <3>2. lane'[l].desc_tail \in Nat
      BY DEF WorkerStep, LaneStates
    <3>3. lane[l].desc_tail <= lane'[l].desc_tail
      BY DEF WorkerMoves
    <3> QED BY <2>2, <3>1, <3>2, <3>3
  <2>4. Word(l, Top(l) - 1)' = Word(l, Top(l) - 1)
    BY <1>2, <1>3
  <2> QED BY <1>1, <1>2, <2>2, <2>3, <2>4 DEF OpenAt, WorkerMoves
<1> QED BY <1>5, <1>6, WorkerOthers DEF LaneAt

\* What the cursors are, with the fields of the worker.
LEMMA WorkerAt ==
  ASSUME HydraInv, NEW l \in Lanes
  PROVE  /\ lane \in [Lanes -> LaneStates] /\ worker \in [Lanes -> WorkerStates]
         /\ Cursors(l) /\ LaneAt(l) /\ worker[l] \in WorkerStates /\ lane[l] \in LaneStates
         /\ BATCH \in Nat \ {0}
  BY LaneTypes, LanesAssumption DEF HydraInv, Types, LaneAt

\* The worker takes a batch.
LEMMA WorkerTakeInv ==
  ASSUME HydraInv, NEW l \in Lanes, WorkerTake(l)
  PROVE  HydraInv'
<1> DEFINE a == lane[l].desc_head - worker[l].tail
           n == Min({a, BATCH})
<1>1. /\ lane \in [Lanes -> LaneStates] /\ worker \in [Lanes -> WorkerStates]
      /\ Cursors(l) /\ worker[l] \in WorkerStates /\ BATCH \in Nat \ {0}
      /\ lane[l].desc_head \in Nat /\ worker[l].tail \in Nat /\ worker[l].rhead \in Nat
  BY WorkerAt, LaneTypes DEF HydraInv
<1>2. worker[l].pc = "poll" /\ lane[l].desc_head # worker[l].tail /\ UNCHANGED <<cfg, core, lane, stop>>
  BY DEF WorkerTake
<1>3. a \in Nat \ {0}
  BY <1>1, <1>2 DEF Cursors
<1>4. n \in Nat /\ n > 0 /\ n <= BATCH /\ worker[l].tail + n <= lane[l].desc_head
  <2>1. n \in {a, BATCH} /\ n <= a /\ n <= BATCH
    <3> HIDE DEF a
    <3>1. {a, BATCH} \in SUBSET Nat /\ a \in {a, BATCH} /\ BATCH \in {a, BATCH}
      BY <1>1, <1>3
    <3> QED BY <1>1, <1>3, <3>1, MinOf
  <2> HIDE DEF n
  <2> QED BY <1>1, <1>3, <2>1
<1>5. worker' = [worker EXCEPT ![l].n = n, ![l].pc = "gate"]
  BY DEF WorkerTake
<1> HIDE DEF n
<1>6. /\ worker' \in [Lanes -> WorkerStates] /\ \A m \in Lanes \ {l} : worker'[m] = worker[m]
      /\ worker'[l] = [worker[l] EXCEPT !.n = n, !.pc = "gate"]
  BY <1>1, <1>4, <1>5 DEF WorkerStates
<1>7. /\ worker'[l].pc = "gate" /\ worker'[l].n = n /\ worker'[l].tail = worker[l].tail
      /\ worker'[l].rhead = worker[l].rhead /\ worker'[l].cur_span = worker[l].cur_span
  BY <1>1, <1>6 DEF WorkerStates
<1>8. Seen(l)' = Seen(l) /\ Made(l)' = Made(l)
  BY <1>2, <1>7 DEF Seen, Made, unpublished
<1>9. WorkerStep(l)
  BY <1>1, <1>2, <1>6 DEF WorkerStep
<1>10. WorkerMoves(l)
  <2>1. lane[l].desc_tail <= lane[l].desc_tail
    BY LaneTypes DEF HydraInv
  <2> QED BY <1>2, <1>7, <1>8, <2>1 DEF WorkerMoves
<1>11. Cursors(l)'
  <2>1. Top(l)' = Top(l)
    BY <1>2 DEF Top, Pending
  <2> QED BY <1>1, <1>2, <1>4, <1>7, <1>8, <2>1 DEF Cursors
<1> QED BY <1>9, <1>10, <1>11, WorkerCursors

\* The worker ends.
LEMMA WorkerExitInv ==
  ASSUME HydraInv, NEW l \in Lanes, WorkerExit(l)
  PROVE  HydraInv'
<1>1. /\ lane \in [Lanes -> LaneStates] /\ worker \in [Lanes -> WorkerStates]
      /\ Cursors(l) /\ worker[l] \in WorkerStates
  BY WorkerAt
<1>2. worker[l].pc \in {"poll", "gate"} /\ UNCHANGED <<cfg, core, lane, stop>>
  BY DEF WorkerExit
<1>3. worker' = [worker EXCEPT ![l].pc = "gone"]
  BY DEF WorkerExit
<1>4. /\ worker' \in [Lanes -> WorkerStates] /\ \A m \in Lanes \ {l} : worker'[m] = worker[m]
      /\ worker'[l] = [worker[l] EXCEPT !.pc = "gone"]
  BY <1>1, <1>3 DEF WorkerStates
<1>5. /\ worker'[l].pc = "gone" /\ worker'[l].n = worker[l].n /\ worker'[l].tail = worker[l].tail
      /\ worker'[l].rhead = worker[l].rhead /\ worker'[l].cur_span = worker[l].cur_span
  BY <1>1, <1>4 DEF WorkerStates
<1>6. Seen(l)' = Seen(l) /\ Made(l)' = Made(l)
  BY <1>2, <1>5 DEF Seen, Made, unpublished
<1>7. WorkerStep(l)
  BY <1>1, <1>2, <1>4 DEF WorkerStep
<1>8. WorkerMoves(l)
  <2>1. lane[l].desc_tail <= lane[l].desc_tail
    BY LaneTypes DEF HydraInv
  <2> QED BY <1>2, <1>5, <1>6, <2>1 DEF WorkerMoves
<1>9. Cursors(l)'
  <2>1. Top(l)' = Top(l)
    BY <1>2 DEF Top, Pending
  <2> QED BY <1>1, <1>2, <1>5, <1>6, <2>1 DEF Cursors
<1> QED BY <1>7, <1>8, <1>9, WorkerCursors

\* The worker publishes its results.
LEMMA WorkerPublishInv ==
  ASSUME HydraInv, NEW l \in Lanes, WorkerPublish(l)
  PROVE  HydraInv'
<1> DEFINE a == worker[l].rhead + worker[l].nres
<1>1. /\ lane \in [Lanes -> LaneStates] /\ worker \in [Lanes -> WorkerStates]
      /\ Cursors(l) /\ worker[l] \in WorkerStates /\ lane[l] \in LaneStates
      /\ worker[l].nres \in Nat /\ worker[l].rhead \in Nat /\ lane[l].res_tail \in Nat
  BY WorkerAt, LaneTypes DEF HydraInv
<1>2. worker[l].pc = "result" /\ UNCHANGED <<cfg, core, stop>>
  BY DEF WorkerPublish
<1>3. a \in Nat /\ worker[l].rhead <= a /\ Made(l) = a
  BY <1>1, <1>2 DEF Made, unpublished
<1>4. /\ worker' = [worker EXCEPT ![l].pc = "free", ![l].rhead = a]
      /\ lane' = [lane EXCEPT ![l].res_head = a]
  BY DEF WorkerPublish
<1> HIDE DEF a
<1>5. /\ worker' \in [Lanes -> WorkerStates] /\ \A m \in Lanes \ {l} : worker'[m] = worker[m]
      /\ worker'[l] = [worker[l] EXCEPT !.pc = "free", !.rhead = a]
  BY <1>1, <1>3, <1>4 DEF WorkerStates
<1>6. /\ lane' \in [Lanes -> LaneStates] /\ \A m \in Lanes \ {l} : lane'[m] = lane[m]
      /\ lane'[l] = [lane[l] EXCEPT !.res_head = a]
  BY <1>1, <1>3, <1>4 DEF LaneStates
<1>7. /\ worker'[l].pc = "free" /\ worker'[l].n = worker[l].n /\ worker'[l].tail = worker[l].tail
      /\ worker'[l].rhead = a /\ worker'[l].cur_span = worker[l].cur_span
  BY <1>1, <1>5 DEF WorkerStates
<1>8. /\ lane'[l].desc = lane[l].desc /\ lane'[l].res = lane[l].res /\ lane'[l].res_head = a
      /\ lane'[l].desc_head = lane[l].desc_head /\ lane'[l].res_tail = lane[l].res_tail
      /\ lane'[l].desc_tail = lane[l].desc_tail
  BY <1>1, <1>6 DEF LaneStates
<1>9. Seen(l)' = Seen(l)
  BY <1>2, <1>7 DEF Seen
<1>10. Made(l)' = Made(l)
  BY <1>3, <1>7 DEF Made, unpublished
<1>11. WorkerStep(l)
  BY <1>2, <1>5, <1>6 DEF WorkerStep
<1>12. WorkerMoves(l)
  <2>1. lane[l].desc_tail <= lane[l].desc_tail
    BY LaneTypes DEF HydraInv
  <2> QED BY <1>7, <1>8, <1>9, <1>10, <2>1 DEF WorkerMoves
<1>13. Cursors(l)'
  <2>1. Top(l)' = Top(l)
    BY <1>2, <1>8 DEF Top, Pending
  <2>2. lane[l].res_tail <= a
    BY <1>1, <1>3 DEF Cursors
  <2> QED BY <1>1, <1>2, <1>7, <1>8, <1>10, <2>1, <2>2 DEF Cursors
<1> QED BY <1>11, <1>12, <1>13, WorkerCursors

\* The worker gives the descriptors of its batch back.
LEMMA WorkerFreeInv ==
  ASSUME HydraInv, NEW l \in Lanes, WorkerFree(l)
  PROVE  HydraInv'
<1> DEFINE a == worker[l].tail + worker[l].n
<1>1. /\ lane \in [Lanes -> LaneStates] /\ worker \in [Lanes -> WorkerStates]
      /\ Cursors(l) /\ worker[l] \in WorkerStates /\ lane[l] \in LaneStates
      /\ worker[l].n \in Nat /\ worker[l].tail \in Nat /\ lane[l].desc_tail \in Nat /\ lane[l].desc_head \in Nat
      /\ Top(l) \in Nat
  BY WorkerAt, LaneTypes DEF HydraInv
<1>2. worker[l].pc = "free" /\ UNCHANGED <<cfg, core, stop>>
  BY DEF WorkerFree
<1>3. a \in Nat /\ lane[l].desc_tail <= a /\ a <= lane[l].desc_head
  BY <1>1, <1>2 DEF Cursors
<1>4. /\ worker' = [worker EXCEPT ![l].pc = "poll", ![l].tail = a]
      /\ lane' = [lane EXCEPT ![l].desc_tail = a]
  BY DEF WorkerFree
<1>5. Seen(l) = a
  BY <1>2 DEF Seen
<1> HIDE DEF a
<1>6. /\ worker' \in [Lanes -> WorkerStates] /\ \A m \in Lanes \ {l} : worker'[m] = worker[m]
      /\ worker'[l] = [worker[l] EXCEPT !.pc = "poll", !.tail = a]
  BY <1>1, <1>3, <1>4 DEF WorkerStates
<1>7. /\ lane' \in [Lanes -> LaneStates] /\ \A m \in Lanes \ {l} : lane'[m] = lane[m]
      /\ lane'[l] = [lane[l] EXCEPT !.desc_tail = a]
  BY <1>1, <1>3, <1>4 DEF LaneStates
<1>8. /\ worker'[l].pc = "poll" /\ worker'[l].tail = a
      /\ worker'[l].rhead = worker[l].rhead /\ worker'[l].cur_span = worker[l].cur_span
  BY <1>1, <1>6 DEF WorkerStates
<1>9. /\ lane'[l].desc = lane[l].desc /\ lane'[l].res = lane[l].res /\ lane'[l].res_head = lane[l].res_head
      /\ lane'[l].desc_head = lane[l].desc_head /\ lane'[l].res_tail = lane[l].res_tail
      /\ lane'[l].desc_tail = a
  BY <1>1, <1>7 DEF LaneStates
<1>10. Seen(l)' = Seen(l)
  BY <1>5, <1>8 DEF Seen
<1>11. Made(l)' = Made(l)
  BY <1>2, <1>8 DEF Made, unpublished
<1>12. WorkerStep(l)
  BY <1>2, <1>6, <1>7 DEF WorkerStep
<1>13. WorkerMoves(l)
  BY <1>3, <1>8, <1>9, <1>10, <1>11 DEF WorkerMoves
<1>14. Cursors(l)'
  <2>1. Top(l)' = Top(l)
    BY <1>2, <1>9 DEF Top, Pending
  <2>2. Top(l) <= a + DESC_CAP
    <3>1. DESC_CAP \in Nat /\ Top(l) <= lane[l].desc_tail + DESC_CAP
      BY <1>1, LanesAssumption DEF Cursors
    <3> QED BY <1>1, <1>3, <3>1
  <2> QED BY <1>1, <1>3, <1>8, <1>9, <1>11, <2>1, <2>2 DEF Cursors
<1> QED BY <1>12, <1>13, <1>14, WorkerCursors

\* What a worker carries through its batch.
EvalStates == [res : Seq(Results), cur_span : Int]

EvalWord(x, w) ==
    IF w.kind = "anchor" THEN [x EXCEPT !.cur_span = w.id]
    ELSE [res |-> Append(x.res, [span_id |-> IF cfg.desc8 THEN x.cur_span ELSE w.id, value |-> w.id]),
          cur_span |-> x.cur_span + 1]

\* One word keeps its type.
LEMMA EvalTyped ==
  ASSUME NEW x \in EvalStates, NEW w \in Words
  PROVE  EvalWord(x, w) \in EvalStates
<1>1. x.res \in Seq(Results) /\ x.cur_span \in Int /\ w.id \in Int
  BY DEF EvalStates, Words
<1>2. CASE w.kind = "anchor"
  <2>1. EvalWord(x, w) = [x EXCEPT !.cur_span = w.id]
    BY <1>2 DEF EvalWord
  <2> QED BY <1>1, <2>1 DEF EvalStates
<1>3. CASE w.kind # "anchor"
  <2> DEFINE e == [span_id |-> IF cfg.desc8 THEN x.cur_span ELSE w.id, value |-> w.id]
  <2>1. e \in Results
    BY <1>1 DEF Results
  <2>2. EvalWord(x, w) = [res |-> Append(x.res, e), cur_span |-> x.cur_span + 1]
    BY <1>3 DEF EvalWord
  <2> HIDE DEF e
  <2>3. Append(x.res, e) \in Seq(Results)
    BY <1>1, <2>1, AppendProperties
  <2> QED BY <1>1, <2>2, <2>3 DEF EvalStates
<1> QED BY <1>2, <1>3

\* What evaluated does, word by word.
Evaluates(f, words, n, cur) ==
    /\ f \in [0..n -> EvalStates] /\ f[0] = [res |-> <<>>, cur_span |-> cur]
    /\ f[n] = evaluated(words, cur)
    /\ \A i \in 1..n : f[i] = EvalWord(f[i - 1], words[i])

\* It has such a run.
LEMMA EvalRun ==
  ASSUME NEW n \in Nat, NEW words \in [1..n -> Words], NEW cur \in Int
  PROVE  \E f : Evaluates(f, words, n, cur)
<1> DEFINE base == [res |-> <<>>, cur_span |-> cur]
           G == [x \in EvalStates |-> [w \in Words |-> EvalWord(x, w)]]
           P(it) == it = [u \in SUBSET DOMAIN words |->
                            IF u = {} THEN base ELSE EvalWord(it[u \ {Max(u)}], words[Max(u)])]
           IT == CHOOSE it : P(it)
<1>0. DOMAIN words = 1..n
  OBVIOUS
<1>1. evaluated(words, cur) = IT[DOMAIN words]
  BY DEF evaluated, FoldLeft, MapThenFoldSet, EvalWord
<1>2. G \in [EvalStates -> [Words -> EvalStates]]
  BY EvalTyped
<1>3. base \in EvalStates
  <2>1. <<>> \in Seq(Results)
    OBVIOUS
  <2> QED BY <2>1 DEF EvalStates
<1>4. \A x \in EvalStates, w \in Words : G[x][w] = EvalWord(x, w)
  OBVIOUS
<1> HIDE DEF G, base
<1>5. PICK it \in [SUBSET (1..n) -> EvalStates] : Solves(it, G, base, words, n)
  BY <1>2, <1>3, FoldExists
<1>6. ASSUME NEW u \in SUBSET (1..n), u # {}
      PROVE  Max(u) \in 1..n /\ u \ {Max(u)} \in SUBSET (1..n) /\ words[Max(u)] \in Words
  <2>1. Max(u) \in u
    BY <1>6, MaxOf
  <2> QED BY <2>1
<1>7. P(it)
  <2>1. ASSUME NEW u \in SUBSET (1..n)
        PROVE  it[u] = IF u = {} THEN base ELSE EvalWord(it[u \ {Max(u)}], words[Max(u)])
    BY <1>4, <1>5, <1>6 DEF Solves
  <2> QED BY <1>0, <2>1
<1>8. P(IT)
  BY <1>7
<1> HIDE DEF IT
<1>9. Unwinds(IT, EvalStates, Words, G, base, words, n)
  <2>1. IT[{}] = base
    BY <1>8
  <2>2. ASSUME NEW u \in SUBSET (1..n), u # {}, IT[u \ {Max(u)}] \in EvalStates
        PROVE  IT[u] = G[IT[u \ {Max(u)}]][words[Max(u)]]
    <3>1. IT[u] = EvalWord(IT[u \ {Max(u)}], words[Max(u)])
      BY <1>0, <1>8, <2>2
    <3> QED BY <1>4, <1>6, <2>2, <3>1
  <2> QED BY <1>2, <1>3, <2>1, <2>2 DEF Unwinds
<1>10. Reaches(EvalStates, G, base, words, n, IT[1..n])
  BY <1>9, FoldPrefixes
<1>11. PICK f \in [0..n -> EvalStates] : Follows(f, G, base, words, n) /\ f[n] = IT[1..n]
  BY <1>10 DEF Reaches
<1>12. ASSUME NEW i \in 1..n PROVE f[i] = EvalWord(f[i - 1], words[i])
  <2>1. f[i - 1] \in EvalStates /\ words[i] \in Words
    BY <1>11
  <2>2. f[i] = G[f[i - 1]][words[i]]
    BY <1>11 DEF Follows
  <2> QED BY <1>4, <2>1, <2>2
<1>13. f[0] = base
  BY <1>11 DEF Follows
<1> QED BY <1>0, <1>1, <1>11, <1>12, <1>13 DEF Evaluates, base

\* The words from the batch on: the spans ascend, and under anchors each is numbered
\* by the word before it, the first by what the worker carries.
EvalInput(W, m, cur) ==
    /\ m \in Nat /\ cur \in Int /\ \A a \in 1..m : W[a] \in Words
    /\ \A a, b \in 1..m : a < b /\ W[a].kind = "span" /\ W[b].kind = "span" => W[a].id < W[b].id
    /\ cfg.desc8 => \A a \in 1..m : W[a].kind = "span" =>
          IF a = 1 THEN cur = W[a].id ELSE W[a - 1] \in {Anchor(W[a].id), Span(W[a].id - 1)}

\* The results of the first n of them: one for each span, under its own number, in order.
EvalOutput(x, W, n, m) ==
    /\ x \in EvalStates /\ Len(x.res) <= n
    /\ \A j \in 1..Len(x.res) : /\ x.res[j].span_id = x.res[j].value
                                /\ \E a \in 1..n : W[a].kind = "span" /\ W[a].id = x.res[j].value
    /\ \A j, k \in 1..Len(x.res) : j < k => x.res[j].value < x.res[k].value
    /\ \A a \in 1..n : W[a].kind = "span" => \E j \in 1..Len(x.res) : x.res[j].value = W[a].id
    /\ cfg.desc8 /\ n < m => (W[n + 1].kind = "span" => x.cur_span = W[n + 1].id)

\* An anchor names the next span.
LEMMA EvalAnchor ==
  ASSUME NEW W, NEW m, NEW cur, EvalInput(W, m, cur), NEW i \in 1..m, W[i].kind = "anchor",
         NEW x, EvalOutput(x, W, i - 1, m), NEW y, y = EvalWord(x, W[i])
  PROVE  EvalOutput(y, W, i, m)
<1>1. m \in Nat /\ W[i] \in Words /\ x \in EvalStates /\ Len(x.res) \in Nat /\ i \in Nat
  BY DEF EvalInput, EvalOutput, EvalStates
<1>2. y.res = x.res /\ y.cur_span = W[i].id /\ y \in EvalStates
  BY <1>1, EvalTyped DEF EvalWord, EvalStates
<1>3. \A a \in 1..(i - 1) : a \in 1..i
  BY <1>1
<1>4. \A a \in 1..i : W[a].kind = "span" => a \in 1..(i - 1)
  BY <1>1
<1>5. Len(y.res) <= i
  BY <1>1, <1>2 DEF EvalOutput
<1>6. ASSUME cfg.desc8, i < m, W[i + 1].kind = "span" PROVE y.cur_span = W[i + 1].id
  <2> DEFINE b == i + 1
  <2>1. b \in 1..m /\ b # 1 /\ b - 1 = i
    BY <1>1, <1>6
  <2> HIDE DEF b
  <2>2. W[b].kind = "span"
    BY <1>6 DEF b
  <2>3. W[b - 1] \in {Anchor(W[b].id), Span(W[b].id - 1)}
    BY <1>6, <2>1, <2>2 DEF EvalInput
  <2>4. Span(W[b].id - 1).kind = "span" /\ Anchor(W[b].id).id = W[b].id
    BY DEF Span, Anchor
  <2>5. y.cur_span = W[b].id
    BY <1>2, <2>1, <2>3, <2>4
  <2> QED BY <2>5 DEF b
<1>7. \A j \in 1..Len(y.res) : /\ y.res[j].span_id = y.res[j].value
                               /\ \E a \in 1..i : W[a].kind = "span" /\ W[a].id = y.res[j].value
  BY <1>2, <1>3 DEF EvalOutput
<1>8. \A j, k \in 1..Len(y.res) : j < k => y.res[j].value < y.res[k].value
  BY <1>2 DEF EvalOutput
<1>9. \A a \in 1..i : W[a].kind = "span" => \E j \in 1..Len(y.res) : y.res[j].value = W[a].id
  BY <1>2, <1>4 DEF EvalOutput
<1> QED BY <1>2, <1>5, <1>6, <1>7, <1>8, <1>9 DEF EvalOutput

\* A span is evaluated under its number.
LEMMA EvalSpan ==
  ASSUME NEW W, NEW m, NEW cur, EvalInput(W, m, cur), NEW i \in 1..m, W[i].kind = "span",
         NEW x, EvalOutput(x, W, i - 1, m), NEW y, y = EvalWord(x, W[i])
  PROVE  EvalOutput(y, W, i, m)
<1> DEFINE id == W[i].id
           e == [span_id |-> IF cfg.desc8 THEN x.cur_span ELSE id, value |-> id]
           L == Len(x.res)
<1>1. /\ m \in Nat /\ W[i] \in Words /\ x \in EvalStates /\ L \in Nat /\ i \in Nat
      /\ x.res \in Seq(Results) /\ x.cur_span \in Int /\ id \in Int
  BY DEF EvalInput, EvalOutput, EvalStates, Words
<1>2. cfg.desc8 => x.cur_span = id
  <2> DEFINE b == i - 1
  <2>1. b < m /\ b + 1 = i
    BY <1>1
  <2> HIDE DEF b
  <2>2. EvalOutput(x, W, b, m)
    BY DEF b
  <2> QED BY <2>1, <2>2 DEF EvalOutput
<1>3. e \in Results /\ e.span_id = e.value /\ e.value = id
  BY <1>1, <1>2 DEF Results
<1>4. y = [res |-> Append(x.res, e), cur_span |-> x.cur_span + 1]
  BY DEF EvalWord
<1> HIDE DEF e, id
<1>5. /\ Len(Append(x.res, e)) = L + 1 /\ \A j \in 1..L : Append(x.res, e)[j] = x.res[j]
      /\ Append(x.res, e)[L + 1] = e
  BY <1>1, <1>3, AppendProperties
<1>6. /\ Len(y.res) = L + 1 /\ (\A j \in 1..L : y.res[j] = x.res[j]) /\ y.res[L + 1] = e
      /\ y.cur_span = x.cur_span + 1
  BY <1>4, <1>5
<1>7. y \in EvalStates
  BY <1>1, EvalTyped
<1>8. /\ L <= i - 1
      /\ \A j \in 1..L : /\ x.res[j].span_id = x.res[j].value
                         /\ \E a \in 1..(i - 1) : W[a].kind = "span" /\ W[a].id = x.res[j].value
      /\ \A j, k \in 1..L : j < k => x.res[j].value < x.res[k].value
      /\ \A a \in 1..(i - 1) : W[a].kind = "span" => \E j \in 1..L : x.res[j].value = W[a].id
  BY DEF EvalOutput
<1> HIDE DEF L
<1>9. \A j \in 1..(L + 1) : j \in 1..L \/ j = L + 1
  BY <1>1
<1>10. \A a \in 1..i : a \in 1..(i - 1) \/ a = i
  BY <1>1
<1>11. \A a \in 1..(i - 1) : a \in 1..i /\ a < i /\ a \in 1..m
  BY <1>1
<1>12. ASSUME NEW j \in 1..(L + 1)
       PROVE  /\ y.res[j].span_id = y.res[j].value
              /\ \E a \in 1..i : W[a].kind = "span" /\ W[a].id = y.res[j].value
  <2>1. CASE j \in 1..L
    BY <1>6, <1>8, <1>11, <2>1
  <2>2. CASE j = L + 1
    <3>1. i \in 1..i
      BY <1>1
    <3> QED BY <1>3, <1>6, <2>2, <3>1 DEF id
  <2> QED BY <1>9, <2>1, <2>2
<1>13. ASSUME NEW j \in 1..(L + 1), NEW k \in 1..(L + 1), j < k
       PROVE  y.res[j].value < y.res[k].value
  <2>1. j \in 1..L
    BY <1>1, <1>13
  <2>2. CASE k \in 1..L
    BY <1>6, <1>8, <1>13, <2>1, <2>2
  <2>3. CASE k = L + 1
    <3>1. PICK a \in 1..(i - 1) : W[a].kind = "span" /\ W[a].id = x.res[j].value
      BY <1>8, <2>1
    <3>2. W[a].id < W[i].id
      BY <1>11, <3>1 DEF EvalInput
    <3> QED BY <1>3, <1>6, <2>1, <2>3, <3>1, <3>2 DEF id
  <2> QED BY <1>9, <2>2, <2>3
<1>14. ASSUME NEW a \in 1..i, W[a].kind = "span"
       PROVE  \E j \in 1..(L + 1) : y.res[j].value = W[a].id
  <2>1. CASE a \in 1..(i - 1)
    <3>1. PICK j \in 1..L : x.res[j].value = W[a].id
      BY <1>8, <1>14, <2>1
    <3>2. j \in 1..(L + 1)
      BY <1>1
    <3> QED BY <1>6, <3>1, <3>2
  <2>2. CASE a = i
    <3>1. L + 1 \in 1..(L + 1)
      BY <1>1
    <3> QED BY <1>3, <1>6, <2>2, <3>1 DEF id
  <2> QED BY <1>10, <2>1, <2>2
<1>15. ASSUME cfg.desc8, i < m, W[i + 1].kind = "span" PROVE y.cur_span = W[i + 1].id
  <2> DEFINE b == i + 1
             z == W[b].id
  <2>1. b \in 1..m /\ b # 1 /\ b - 1 = i
    BY <1>1, <1>15
  <2> HIDE DEF b
  <2>2. W[b].kind = "span"
    BY <1>15 DEF b
  <2>3. W[i] \in {Anchor(z), Span(z - 1)} /\ z \in Int
    BY <1>15, <2>1, <2>2 DEF EvalInput, Words
  <2> HIDE DEF z
  <2>4. id = z - 1
    BY <2>3 DEF Anchor, Span, id
  <2>5. y.cur_span = z
    BY <1>1, <1>2, <1>6, <1>15, <2>3, <2>4
  <2> QED BY <2>5 DEF b, z
<1>16. Len(y.res) <= i
  BY <1>1, <1>6, <1>8
<1> QED BY <1>6, <1>7, <1>12, <1>13, <1>14, <1>15, <1>16 DEF EvalOutput

\* The batch evaluated.
LEMMA EvaluatedIs ==
  ASSUME NEW W, NEW m, NEW cur, EvalInput(W, m, cur), NEW n \in 0..m,
         NEW words, words = [i \in 1..n |-> W[i]]
  PROVE  EvalOutput(evaluated(words, cur), W, n, m)
<1>1. m \in Nat /\ cur \in Int /\ n \in Nat /\ \A a \in 1..m : W[a] \in Words
  BY DEF EvalInput
<1>2. words \in [1..n -> Words] /\ \A i \in 1..n : words[i] = W[i] /\ i \in 1..m
  BY <1>1
<1>3. PICK f : Evaluates(f, words, n, cur)
  BY <1>1, <1>2, EvalRun
<1> DEFINE S == {i \in 0..n : EvalOutput(f[i], W, i, m)}
<1>4. 0 \in S
  <2>1. f[0].res = <<>> /\ f[0].cur_span = cur /\ f[0] \in EvalStates
    BY <1>1, <1>3 DEF Evaluates
  <2>2. Len(f[0].res) = 0
    BY <2>1
  <2>3. ASSUME cfg.desc8, 0 < m, W[0 + 1].kind = "span" PROVE f[0].cur_span = W[0 + 1].id
    <3>1. 1 \in 1..m /\ 0 + 1 = 1
      BY <1>1, <2>3
    <3> QED BY <2>1, <2>3, <3>1 DEF EvalInput
  <2>4. EvalOutput(f[0], W, 0, m)
    BY <2>1, <2>2, <2>3 DEF EvalOutput
  <2> QED BY <1>1, <2>4
<1>5. ASSUME NEW i \in 1..n, i - 1 \in S PROVE i \in S
  <2>1. i \in 1..m /\ f[i] = EvalWord(f[i - 1], W[i]) /\ W[i] \in Words
    BY <1>1, <1>2, <1>3 DEF Evaluates
  <2>2. EvalOutput(f[i - 1], W, i - 1, m)
    BY <1>5
  <2>3. W[i].kind = "span" \/ W[i].kind = "anchor"
    BY <2>1 DEF Words
  <2>4. EvalOutput(f[i], W, i, m)
    BY <2>1, <2>2, <2>3, EvalSpan, EvalAnchor
  <2> QED BY <2>4
<1>6. n \in S
  <2> HIDE DEF S
  <2>1. 0..n \subseteq S
    BY <1>1, <1>4, <1>5, Climb
  <2> QED BY <1>1, <2>1
<1> QED BY <1>3, <1>6 DEF Evaluates

\* The words of lane l that are not evaluated, while its worker holds a batch.
Ahead(l) == [a \in 1..(Top(l) - worker[l].tail) |-> Word(l, worker[l].tail + (a - 1))]

\* A batch in a lane's worker: its words are a part of those.
LEMMA AheadInput ==
  ASSUME HydraInv, NEW l \in Lanes, worker[l].pc = "gate", NEW m, m = Top(l) - worker[l].tail
  PROVE  /\ EvalInput(Ahead(l), m, worker[l].cur_span) /\ worker[l].n \in 0..m
         /\ Seen(l) = worker[l].tail /\ Made(l) = worker[l].rhead
<1> DEFINE t == worker[l].tail
           W == Ahead(l)
<1>1. /\ Cursors(l) /\ WordsAt(l) /\ Numbered(l) /\ t \in Nat /\ worker[l].n \in Nat /\ Top(l) \in Nat
      /\ worker[l].cur_span \in Int /\ lane[l].desc \in DescRing /\ lane[l].desc_head \in Nat
      /\ core.pending_len \in Nat
  BY LaneTypes, CoreNow, AssistTypes DEF HydraInv, LaneAt
<1>2. Seen(l) = t /\ Made(l) = worker[l].rhead
  <2>1. worker[l].rhead \in Nat
    BY LaneTypes DEF HydraInv
  <2> QED BY <2>1 DEF Seen, Made, unpublished
<1>3. lane[l].desc_head <= Top(l)
  BY <1>1 DEF Top
<1>4. t + worker[l].n <= Top(l)
  BY <1>1, <1>3 DEF Cursors
<1>5. m \in Nat /\ worker[l].n \in 0..m
  BY <1>1, <1>4
<1>6. ASSUME NEW a \in 1..m
      PROVE  W[a] = Word(l, t + (a - 1)) /\ t + (a - 1) \in t..(Top(l) - 1)
  BY SMTT(60), <1>1 DEF Ahead
<1> HIDE DEF W
<1>7. ASSUME NEW a \in 1..m PROVE W[a] \in Words
  <2> DEFINE d == t + (a - 1)
  <2>1. d \in Nat /\ W[a] = Word(l, d)
    BY <1>1, <1>6
  <2> HIDE DEF d
  <2>2. d % DESC_CAP \in 0..(DESC_CAP - 1)
    <3>1. DESC_CAP \in Nat \ {0}
      BY LanesAssumption
    <3> QED BY <2>1, <3>1, DivMod
  <2> QED BY <1>1, <2>1, <2>2 DEF Word, DescRing
<1>8. ASSUME NEW a \in 1..m, NEW b \in 1..m, a < b, W[a].kind = "span", W[b].kind = "span"
      PROVE  W[a].id < W[b].id
  <2> DEFINE d == t + (a - 1)
             e == t + (b - 1)
  <2>1. d < e /\ d \in t..(Top(l) - 1) /\ e \in t..(Top(l) - 1)
    BY <1>1, <1>6, <1>8
  <2>2. W[a] = Word(l, d) /\ W[b] = Word(l, e)
    BY <1>6
  <2> HIDE DEF d, e
  <2> QED BY <1>1, <1>2, <1>8, <2>1, <2>2 DEF WordsAt
<1>9. ASSUME cfg.desc8, NEW a \in 1..m, W[a].kind = "span"
      PROVE  IF a = 1 THEN worker[l].cur_span = W[a].id ELSE W[a - 1] \in {Anchor(W[a].id), Span(W[a].id - 1)}
  <2> DEFINE d == t + (a - 1)
  <2>1. d \in t..(Top(l) - 1) /\ W[a] = Word(l, d) /\ (a = 1 => d = t) /\ (a # 1 => d # t)
    BY <1>1, <1>6
  <2>2. ASSUME a # 1 PROVE W[a - 1] = Word(l, d - 1)
    <3> DEFINE b == a - 1
    <3>1. b \in 1..m /\ d - 1 = t + (b - 1)
      BY <1>1, <1>5, <2>2
    <3> HIDE DEF b, d
    <3>2. W[b] = Word(l, t + (b - 1))
      BY <1>6, <3>1
    <3>3. W[b] = Word(l, d - 1)
      BY <3>1, <3>2
    <3> QED BY <3>3 DEF b
  <2> HIDE DEF d
  <2>3. IF d = t THEN worker[l].cur_span = Word(l, d).id
        ELSE Word(l, d - 1) \in {Anchor(Word(l, d).id), Span(Word(l, d).id - 1)}
    BY <1>1, <1>2, <1>9, <2>1 DEF Numbered
  <2>4. CASE a = 1
    BY <2>1, <2>3, <2>4
  <2>5. CASE a # 1
    BY <2>1, <2>2, <2>3, <2>5
  <2> QED BY <2>4, <2>5
<1>10. EvalInput(W, m, worker[l].cur_span)
  BY <1>1, <1>5, <1>7, <1>8, <1>9 DEF EvalInput
<1> QED BY <1>2, <1>5, <1>10 DEF W

\* What a worker's evaluation does to its lane.
EvalStep(l, out) ==
    /\ WorkerStep(l)
    /\ worker[l].pc = "gate" /\ res_room(l) /\ EvalOutput(out, Ahead(l), worker[l].n, Top(l) - worker[l].tail)
    /\ worker'[l].pc = "result" /\ worker'[l].nres = Len(out.res) /\ worker'[l].cur_span = out.cur_span
    /\ worker'[l].tail = worker[l].tail /\ worker'[l].rhead = worker[l].rhead /\ worker'[l].n = worker[l].n
    /\ Wrote(lane'[l].res, RES_CAP, Results, lane[l].res, out.res, Len(out.res), worker[l].rhead)
    /\ lane'[l].desc = lane[l].desc /\ lane'[l].desc_head = lane[l].desc_head
    /\ lane'[l].desc_tail = lane[l].desc_tail /\ lane'[l].res_head = lane[l].res_head
    /\ lane'[l].res_tail = lane[l].res_tail

\* WorkerEval is one evaluation of the descriptors in hand and one write of their results.
LEMMA EvalStepIs ==
  ASSUME HydraInv, NEW l \in Lanes, WorkerEval(l)
  PROVE  \E out : EvalStep(l, out)
<1> DEFINE t == worker[l].tail
           n == worker[l].n
           m == Top(l) - t
           W == Ahead(l)
           words == [i \in 1..n |-> lane[l].desc[(t + (i - 1)) % DESC_CAP]]
           out == evaluated(words, worker[l].cur_span)
           k == Len(out.res)
           h == worker[l].rhead
           new == Written(RES_CAP, lane[l].res, out.res, k, h)
<1>1. worker[l].pc = "gate" /\ res_room(l) /\ UNCHANGED <<cfg, core, stop>>
  BY DEF WorkerEval
<1>2. EvalInput(W, m, worker[l].cur_span) /\ n \in 0..m
  BY <1>1, AheadInput
<1>3. words = [i \in 1..n |-> W[i]]
  <2>1. m \in Nat
    BY <1>2 DEF EvalInput
  <2>2. ASSUME NEW i \in 1..n PROVE lane[l].desc[(t + (i - 1)) % DESC_CAP] = W[i]
    <3>1. i \in 1..m
      BY <1>2, <2>1
    <3> QED BY <3>1 DEF Ahead, Word
  <2> HIDE DEF W, m
  <2> QED BY <2>2
<1>4. EvalOutput(out, W, n, m)
  <2> HIDE DEF words, n, m, W
  <2> QED BY <1>2, <1>3, EvaluatedIs
<1>5. /\ lane \in [Lanes -> LaneStates] /\ worker \in [Lanes -> WorkerStates]
      /\ lane[l] \in LaneStates /\ worker[l] \in WorkerStates /\ lane[l].res \in ResRing
      /\ n \in Nat /\ h \in Nat /\ lane[l].res_tail \in Nat /\ Cursors(l)
  BY WorkerAt, LaneTypes DEF HydraInv
<1>6. /\ worker' = [worker EXCEPT ![l].pc = "result", ![l].nres = k, ![l].cur_span = out.cur_span]
      /\ lane' = [lane EXCEPT ![l].res = [p \in 0 .. RES_CAP - 1 |->
                  IF \E i \in DOMAIN out.res : (h + i - 1) % RES_CAP = p
                  THEN out.res[CHOOSE i \in DOMAIN out.res : (h + i - 1) % RES_CAP = p] ELSE @[p]]]
  BY DEF WorkerEval
<1> HIDE DEF out
<1>7. /\ out \in EvalStates /\ k \in Nat /\ k <= n /\ DOMAIN out.res = 1..k /\ out.cur_span \in Int
      /\ \A i \in 1..k : out.res[i] \in Results
  <2>1. out \in EvalStates /\ k <= n
    BY <1>4 DEF EvalOutput
  <2> QED BY <2>1 DEF EvalStates
<1>8. lane' = [lane EXCEPT ![l].res = new]
  <2> HIDE DEF k, h
  <2> QED BY <1>5, <1>6, <1>7 DEF Written, LaneStates
<1>9. Wrote(new, RES_CAP, Results, lane[l].res, out.res, k, h)
  <2>1. k <= RES_CAP /\ RES_CAP \in Nat \ {0}
    <3>1. /\ h - lane[l].res_tail + n <= RES_CAP - CHUNK /\ lane[l].res_tail <= h
          /\ RES_CAP \in Nat \ {0} /\ CHUNK \in Nat
      BY <1>1, <1>5, LanesAssumption, GridAssumption DEF res_room, Cursors
    <3> HIDE DEF k, n, h
    <3> QED BY <1>5, <1>7, <3>1
  <2> HIDE DEF k, h, new
  <2>2. Write(new, RES_CAP, Results, lane[l].res, out.res, k, h)
    BY <1>5, <1>7, <2>1 DEF Write, ResRing, new
  <2> QED BY <2>2, RingWrite
<1>10. new \in ResRing
  BY <1>9 DEF Wrote, ResRing
<1> HIDE DEF k, new
<1>11. /\ worker' \in [Lanes -> WorkerStates] /\ \A i \in Lanes \ {l} : worker'[i] = worker[i]
       /\ worker'[l] = [worker[l] EXCEPT !.pc = "result", !.nres = k, !.cur_span = out.cur_span]
  BY <1>5, <1>6, <1>7 DEF WorkerStates
<1>12. /\ lane' \in [Lanes -> LaneStates] /\ \A i \in Lanes \ {l} : lane'[i] = lane[i]
       /\ lane'[l] = [lane[l] EXCEPT !.res = new]
  BY <1>5, <1>8, <1>10 DEF LaneStates
<1>13. /\ worker'[l].pc = "result" /\ worker'[l].nres = k /\ worker'[l].cur_span = out.cur_span
       /\ worker'[l].tail = worker[l].tail /\ worker'[l].rhead = worker[l].rhead /\ worker'[l].n = worker[l].n
  BY <1>5, <1>11 DEF WorkerStates
<1>14. /\ lane'[l].desc = lane[l].desc /\ lane'[l].desc_head = lane[l].desc_head
       /\ lane'[l].desc_tail = lane[l].desc_tail /\ lane'[l].res_head = lane[l].res_head
       /\ lane'[l].res_tail = lane[l].res_tail /\ lane'[l].res = new
  BY <1>5, <1>12 DEF LaneStates
<1>15. WorkerStep(l)
  BY <1>1, <1>11, <1>12 DEF WorkerStep
<1>16. EvalStep(l, out)
  <2> HIDE DEF W, m, n, h
  <2> QED BY <1>1, <1>4, <1>9, <1>13, <1>14, <1>15 DEF EvalStep, k, W, m, t, n, h
<1> QED BY <1>16

\* The results of a batch and the words they come from, by their place in the ring.
EvalFacts(l, t, n, top, vals, k, cur) ==
    /\ \A j \in 1..k : vals[j].span_id = vals[j].value
    /\ \A j \in 1..k : \E d \in t..(t + n - 1) : Word(l, d).kind = "span" /\ Word(l, d).id = vals[j].value
    /\ \A i, j \in 1..k : i < j => vals[i].value < vals[j].value
    /\ \A d \in t..(t + n - 1) : Word(l, d).kind = "span" => \E j \in 1..k : vals[j].value = Word(l, d).id
    /\ cfg.desc8 /\ t + n < top /\ Word(l, t + n).kind = "span" => cur = Word(l, t + n).id

\* What the worker produced: one result for each span word it consumed, in order, and the span
\* under way when the batch ends inside a chunk.
LEMMA EvalFactsAre ==
  ASSUME HydraInv, NEW l \in Lanes, NEW out, EvalStep(l, out),
         NEW t, t = worker[l].tail, NEW n, n = worker[l].n, NEW k, k = Len(out.res), NEW top, top = Top(l)
  PROVE  EvalFacts(l, t, n, top, out.res, k, out.cur_span) /\ k \in Nat /\ k <= n
<1> DEFINE m == top - t
           W == Ahead(l)
<1>1. EvalOutput(out, W, n, m)
  BY DEF EvalStep
<1>2. /\ t \in Nat /\ n \in Nat /\ top \in Nat /\ t + n <= top
  <2>1. t \in Nat /\ n \in Nat /\ top \in Nat
    BY LaneTypes DEF HydraInv
  <2>2. n \in 0..m
    BY AheadInput DEF EvalStep
  <2> QED BY <2>1, <2>2
<1>3. k \in Nat
  BY <1>1 DEF EvalOutput, EvalStates
<1>4. \A a \in 1..m : W[a] = Word(l, t + (a - 1))
  BY DEF Ahead
<1>5. k <= n
  BY <1>1 DEF EvalOutput
<1> HIDE DEF W
<1>6. ASSUME NEW d \in t..(top - 1)
      PROVE  d - t + 1 \in 1..m /\ W[d - t + 1] = Word(l, d)
  <2> DEFINE a == d - t + 1
  <2>1. a \in 1..m /\ t + (a - 1) = d
    BY SMTT(60), <1>2
  <2> HIDE DEF a
  <2>2. W[a] = Word(l, t + (a - 1))
    BY <1>4, <2>1
  <2> QED BY <2>1, <2>2 DEF a
<1>7. ASSUME NEW a \in 1..n
      PROVE  t + (a - 1) \in t..(t + n - 1) /\ W[a] = Word(l, t + (a - 1))
  <2>1. a \in 1..m /\ t + (a - 1) \in t..(t + n - 1)
    BY SMTT(60), <1>2
  <2> QED BY <1>4, <2>1
<1> HIDE DEF m
<1>8. \A j \in 1..k : out.res[j].span_id = out.res[j].value
  BY <1>1 DEF EvalOutput
<1>9. ASSUME NEW j \in 1..k
      PROVE  \E d \in t..(t + n - 1) : Word(l, d).kind = "span" /\ Word(l, d).id = out.res[j].value
  <2>1. PICK a \in 1..n : W[a].kind = "span" /\ W[a].id = out.res[j].value
    BY <1>1 DEF EvalOutput
  <2> DEFINE d == t + (a - 1)
  <2>2. d \in t..(t + n - 1) /\ W[a] = Word(l, d)
    BY <1>7
  <2> HIDE DEF d
  <2> QED BY <2>1, <2>2
<1>10. \A i, j \in 1..k : i < j => out.res[i].value < out.res[j].value
  BY <1>1 DEF EvalOutput
<1>11. ASSUME NEW d \in t..(t + n - 1), Word(l, d).kind = "span"
       PROVE  \E j \in 1..k : out.res[j].value = Word(l, d).id
  <2> DEFINE a == d - t + 1
  <2>1. a \in 1..n /\ d \in t..(top - 1)
    BY SMTT(60), <1>2
  <2>2. W[a] = Word(l, d)
    BY <1>6, <2>1
  <2> HIDE DEF a
  <2> QED BY <1>1, <1>11, <2>1, <2>2 DEF EvalOutput
<1>12. ASSUME cfg.desc8, t + n < top, Word(l, t + n).kind = "span"
       PROVE  out.cur_span = Word(l, t + n).id
  <2> DEFINE d == t + n
             a == d - t + 1
  <2>1. d \in t..(top - 1) /\ a = n + 1 /\ n < m
    BY SMTT(60), <1>2, <1>12 DEF m
  <2> HIDE DEF d
  <2>2. W[a] = Word(l, d)
    BY <1>6, <2>1
  <2> HIDE DEF a
  <2>3. W[n + 1] = Word(l, d)
    BY <2>1, <2>2
  <2>4. Word(l, d).kind = "span"
    BY <1>12 DEF d
  <2>5. out.cur_span = Word(l, d).id
    BY <1>1, <1>12, <2>1, <2>3, <2>4 DEF EvalOutput
  <2> QED BY <2>5 DEF d
<1> QED BY <1>3, <1>5, <1>8, <1>9, <1>10, <1>11, <1>12 DEF EvalFacts

\* The lane of the worker that evaluates.
LEMMA EvalLane ==
  ASSUME HydraInv, NEW l \in Lanes, NEW out, EvalStep(l, out)
  PROVE  LaneAt(l)'
<1>0. PICK t, n, h, k, top, rt :
        /\ t = worker[l].tail /\ n = worker[l].n /\ h = worker[l].rhead /\ k = Len(out.res)
        /\ top = Top(l) /\ rt = lane[l].res_tail
  OBVIOUS
<1>1. EvalFacts(l, t, n, top, out.res, k, out.cur_span) /\ k \in Nat /\ k <= n
  BY <1>0, EvalFactsAre
<1>2. /\ worker[l].pc = "gate" /\ UNCHANGED <<cfg, core, stop>> /\ Seen(l) = t /\ Made(l) = h
      /\ LaneAt(l)
  BY <1>0, AheadInput DEF EvalStep, WorkerStep, HydraInv
<1>3. /\ t \in Nat /\ n \in Nat /\ h \in Nat /\ top \in Nat /\ rt \in Nat
      /\ n > 0 /\ n <= BATCH /\ t + n <= lane[l].desc_head
      /\ lane[l].desc_head <= top /\ rt <= h
      /\ lane[l].desc_head \in Nat /\ core.pending_len \in Nat
  <2>1. /\ t \in Nat /\ n \in Nat /\ h \in Nat /\ top \in Nat /\ rt \in Nat
        /\ lane[l].desc_head \in Nat /\ core.pending_len \in Nat
    BY <1>0, LaneTypes, CoreNow, AssistTypes DEF HydraInv
  <2>2. lane[l].desc_head <= top
    BY <1>0, <2>1 DEF Top
  <2> QED BY <1>0, <1>2, <2>1, <2>2 DEF LaneAt, Cursors
<1>4. h + k <= rt + RES_CAP /\ RES_CAP \in Nat
  <2>1. h - rt + n <= RES_CAP - CHUNK
    BY <1>0 DEF EvalStep, res_room
  <2>2. RES_CAP \in Nat /\ CHUNK \in Nat
    BY LanesAssumption, GridAssumption
  <2> QED BY <1>1, <1>3, <2>1, <2>2
<1>5. Seen(l)' = t + n /\ Made(l)' = h + k
  BY <1>0 DEF EvalStep, Seen, Made, unpublished
<1>6. Top(l)' = top /\ (\A v : Mine(l, v)' <=> Mine(l, v)) /\ (\A d : Word(l, d)' = Word(l, d))
  BY <1>0, <1>2 DEF EvalStep, Top, Pending, Mine, Word
<1>7. \A q \in rt..(h - 1) : Result(l, q)' = Result(l, q)
  <2>1. \A d \in Nat : d < h /\ h + k <= d + RES_CAP => lane'[l].res[d % RES_CAP] = lane[l].res[d % RES_CAP]
    BY <1>0 DEF EvalStep, Wrote
  <2>2. ASSUME NEW q \in rt..(h - 1) PROVE lane'[l].res[q % RES_CAP] = lane[l].res[q % RES_CAP]
    <3>1. q \in Nat /\ q < h /\ h + k <= q + RES_CAP
      BY <1>1, <1>3, <1>4
    <3> QED BY <2>1, <3>1
  <2> QED BY <2>2 DEF Result
<1>8. \A j \in 1..k, q \in Nat : q = h + j - 1 => Result(l, q)' = out.res[j]
  BY <1>0 DEF EvalStep, Wrote, Result
<1>9. ASSUME NEW q \in rt..(h + k - 1)
      PROVE  \/ q \in rt..(h - 1) /\ Result(l, q)' = Result(l, q)
             \/ \E j \in 1..k : q = h + j - 1 /\ Result(l, q)' = out.res[j]
  <2>1. CASE q < h
    <3>1. q \in rt..(h - 1)
      BY <1>3, <2>1
    <3> QED BY <1>7, <3>1
  <2>2. CASE q >= h
    <3> DEFINE j == q - h + 1
    <3>1. j \in 1..k /\ q \in Nat /\ q = h + j - 1
      BY <1>1, <1>3, <2>2
    <3> HIDE DEF j
    <3> QED BY <1>8, <3>1
  <2> QED BY <1>3, <2>1, <2>2
<1>10. /\ \A j \in 1..k : out.res[j].span_id = out.res[j].value
       /\ \A j \in 1..k : \E d \in t..(t + n - 1) : Word(l, d).kind = "span" /\ Word(l, d).id = out.res[j].value
       /\ \A i, j \in 1..k : i < j => out.res[i].value < out.res[j].value
       /\ \A d \in t..(t + n - 1) : Word(l, d).kind = "span" => \E j \in 1..k : out.res[j].value = Word(l, d).id
       /\ cfg.desc8 /\ t + n < top /\ Word(l, t + n).kind = "span" => out.cur_span = Word(l, t + n).id
  BY <1>1 DEF EvalFacts
<1>11. \A d \in t..(t + n - 1) : d \in t..(top - 1) /\ d < t + n
  BY <1>3
<1>12. \A d \in (t + n)..(top - 1) : d \in t..(top - 1) /\ t + n <= d /\ d \in Nat
  BY <1>3
<1>13. /\ \A q \in rt..(h - 1) : Result(l, q).span_id = Result(l, q).value /\ Mine(l, Result(l, q).value)
       /\ \A q, r \in rt..(h - 1) : q < r => Result(l, q).value < Result(l, r).value
       /\ \A d \in t..(top - 1) : Word(l, d).kind = "span" => Mine(l, Word(l, d).id)
       /\ \A d, e \in t..(top - 1) :
             d < e /\ Word(l, d).kind = "span" /\ Word(l, e).kind = "span" => Word(l, d).id < Word(l, e).id
       /\ \A q \in rt..(h - 1), d \in t..(top - 1) : Word(l, d).kind = "span" => Result(l, q).value < Word(l, d).id
       /\ \A v : Mine(l, v) => \/ \E q \in rt..(h - 1) : Result(l, q).value = v
                               \/ \E d \in t..(top - 1) : Word(l, d) = Span(v)
  BY <1>0, <1>2 DEF LaneAt, ResultsAt, WordsAt, Complete
<1>14. /\ lane'[l].res_tail..(Made(l)' - 1) = rt..(h + k - 1)
       /\ Seen(l)'..(Top(l)' - 1) = (t + n)..(top - 1)
  <2>1. lane'[l].res_tail = rt
    BY <1>0 DEF EvalStep
  <2>2. k \in Nat /\ h \in Nat /\ t \in Nat /\ n \in Nat /\ top \in Nat
    BY <1>1, <1>3
  <2>3. Seen(l)' = t + n /\ Made(l)' = h + k /\ Top(l)' = top
    BY <1>5, <1>6
  <2>4. Made(l)' - 1 = h + k - 1 /\ Top(l)' - 1 = top - 1
    BY <2>2, <2>3
  <2> QED BY <2>1, <2>3, <2>4
<1>15. ResultsAt(l)'
  <2>1. ASSUME NEW q \in rt..(h + k - 1)
        PROVE  Result(l, q)'.span_id = Result(l, q)'.value /\ Mine(l, Result(l, q)'.value)
    <3>1. CASE q \in rt..(h - 1) /\ Result(l, q)' = Result(l, q)
      BY <1>13, <3>1
    <3>2. ASSUME NEW j \in 1..k, Result(l, q)' = out.res[j]
          PROVE  Result(l, q)'.span_id = Result(l, q)'.value /\ Mine(l, Result(l, q)'.value)
      BY <1>10, <1>11, <1>13, <3>2
    <3> QED BY <1>9, <3>1, <3>2
  <2>2. ASSUME NEW q \in rt..(h + k - 1), NEW r \in rt..(h + k - 1), q < r
        PROVE  Result(l, q)'.value < Result(l, r)'.value
    <3>1. CASE r \in rt..(h - 1) /\ Result(l, r)' = Result(l, r)
      <4>1. q \in rt..(h - 1)
        BY <1>3, <2>2, <3>1
      <4> QED BY <1>7, <1>13, <2>2, <3>1, <4>1
    <3>2. ASSUME NEW j \in 1..k, r = h + j - 1, Result(l, r)' = out.res[j]
          PROVE  Result(l, q)'.value < Result(l, r)'.value
      <4>1. CASE q \in rt..(h - 1) /\ Result(l, q)' = Result(l, q)
        BY <1>10, <1>11, <1>13, <3>2, <4>1
      <4>2. ASSUME NEW i \in 1..k, q = h + i - 1, Result(l, q)' = out.res[i]
            PROVE  Result(l, q)'.value < Result(l, r)'.value
        <5>1. i < j
          BY <1>3, <2>2, <3>2, <4>2
        <5> QED BY <1>10, <3>2, <4>2, <5>1
      <4> QED BY <1>9, <4>1, <4>2
    <3> QED BY <1>9, <3>1, <3>2
  <2>3. \A q \in rt..(h + k - 1) : Mine(l, Result(l, q).value)'
    BY <1>6, <2>1
  <2>4. \A q \in rt..(h + k - 1) : Result(l, q)'.span_id = Result(l, q)'.value
    BY <2>1
  <2>5. \A q, r \in rt..(h + k - 1) : q < r => Result(l, q)'.value < Result(l, r)'.value
    BY <2>2
  <2> QED BY <1>14, <2>3, <2>4, <2>5 DEF ResultsAt
<1>16. WordsAt(l)'
  <2>1. \A d \in (t + n)..(top - 1) : Word(l, d)'.kind = "span" => Mine(l, Word(l, d).id)'
    BY <1>6, <1>12, <1>13
  <2>2. \A d, e \in (t + n)..(top - 1) :
            d < e /\ Word(l, d)'.kind = "span" /\ Word(l, e)'.kind = "span" => Word(l, d)'.id < Word(l, e)'.id
    BY <1>6, <1>12, <1>13
  <2>3. ASSUME NEW q \in rt..(h + k - 1), NEW d \in (t + n)..(top - 1), Word(l, d).kind = "span"
        PROVE  Result(l, q)'.value < Word(l, d).id
    <3>1. CASE q \in rt..(h - 1) /\ Result(l, q)' = Result(l, q)
      BY <1>12, <1>13, <2>3, <3>1
    <3>2. ASSUME NEW j \in 1..k, Result(l, q)' = out.res[j]
          PROVE  Result(l, q)'.value < Word(l, d).id
      <4>1. PICK e \in t..(t + n - 1) : Word(l, e).kind = "span" /\ Word(l, e).id = out.res[j].value
        BY <1>10
      <4>2. e < d /\ e \in t..(top - 1) /\ d \in t..(top - 1)
        BY <1>3, <1>11, <1>12
      <4> QED BY <1>13, <2>3, <3>2, <4>1, <4>2
    <3> QED BY <1>9, <3>1, <3>2
  <2>4. \A q \in rt..(h + k - 1), d \in (t + n)..(top - 1) :
            Word(l, d)'.kind = "span" => Result(l, q)'.value < Word(l, d)'.id
    BY <1>6, <2>3
  <2> QED BY <1>14, <2>1, <2>2, <2>4 DEF WordsAt
<1>17. Complete(l)'
  <2>1. ASSUME NEW v, Mine(l, v)
        PROVE  \/ \E q \in rt..(h + k - 1) : Result(l, q)'.value = v
               \/ \E d \in (t + n)..(top - 1) : Word(l, d)' = Span(v)
    <3>1. CASE \E q \in rt..(h - 1) : Result(l, q).value = v
      <4>1. PICK q \in rt..(h - 1) : Result(l, q).value = v
        BY <3>1
      <4>2. q \in rt..(h + k - 1)
        BY <1>1, <1>3
      <4> QED BY <1>7, <4>1, <4>2
    <3>2. ASSUME NEW d \in t..(top - 1), Word(l, d) = Span(v)
          PROVE  \/ \E q \in rt..(h + k - 1) : Result(l, q)'.value = v
                 \/ \E e \in (t + n)..(top - 1) : Word(l, e)' = Span(v)
      <4>1. CASE d < t + n
        <5>1. d \in t..(t + n - 1) /\ Word(l, d).kind = "span" /\ Word(l, d).id = v
          BY <1>3, <3>2, <4>1 DEF Span
        <5>2. PICK j \in 1..k : out.res[j].value = v
          BY <1>10, <5>1
        <5> DEFINE q == h + j - 1
        <5>3. q \in rt..(h + k - 1) /\ q \in Nat /\ q = h + j - 1
          BY <1>1, <1>3
        <5> HIDE DEF q
        <5>4. Result(l, q)' = out.res[j]
          BY <1>8, <5>3
        <5> QED BY <5>2, <5>3, <5>4
      <4>2. CASE d >= t + n
        <5>1. d \in (t + n)..(top - 1)
          BY <1>3, <4>2
        <5> QED BY <1>6, <3>2, <5>1
      <4> QED BY <1>3, <4>1, <4>2
    <3> QED BY <1>13, <2>1, <3>1, <3>2
  <2>2. \A v : Mine(l, v)' => \/ \E q \in rt..(h + k - 1) : Result(l, q)'.value = v
                              \/ \E d \in (t + n)..(top - 1) : Word(l, d)' = Span(v)
    BY <1>6, <2>1
  <2> QED BY <1>14, <2>2 DEF Complete
<1>18. Numbered(l)'
  <2>1. CASE cfg.desc8
    <3>1. ASSUME NEW d \in (t + n)..(top - 1), Word(l, d).kind = "span"
          PROVE  IF d = t + n THEN out.cur_span = Word(l, d).id
                 ELSE Word(l, d - 1) \in {Anchor(Word(l, d).id), Span(Word(l, d).id - 1)}
      <4>1. CASE d = t + n
        BY <1>3, <1>10, <1>12, <2>1, <3>1, <4>1
      <4>2. CASE d # t + n
        <5>1. d # t /\ d \in t..(top - 1)
          BY <1>3
        <5> QED BY <1>0, <1>2, <2>1, <3>1, <4>2, <5>1 DEF LaneAt, Numbered
      <4> QED BY <4>1, <4>2
    <3>2. worker'[l].cur_span = out.cur_span /\ cfg' = cfg
      BY <1>2 DEF EvalStep
    <3> QED BY <1>5, <1>6, <2>1, <3>1, <3>2 DEF Numbered
  <2>2. CASE ~cfg.desc8
    <3>1. \A d \in (t + n)..(top - 1) : Word(l, d).kind = "span"
      BY <1>0, <1>2, <1>12, <2>2 DEF LaneAt, Numbered
    <3> QED BY <1>2, <1>5, <1>6, <2>2, <3>1 DEF Numbered
  <2> QED BY <2>1, <2>2
<1>19. OpenAt(l)'
  BY <1>0, <1>2, <1>6 DEF LaneAt, OpenAt, Pending, EvalStep
<1>20. Cursors(l)'
  <2>1. lane[l].desc_tail = t /\ lane[l].res_head = h /\ t <= lane[l].desc_head /\ top <= t + DESC_CAP
    BY <1>0, <1>2 DEF LaneAt, Cursors
  <2> QED BY <1>0, <1>1, <1>3, <1>4, <1>5, <1>6, <2>1 DEF Cursors, EvalStep
<1> QED BY <1>15, <1>16, <1>17, <1>18, <1>19, <1>20 DEF LaneAt

\* The worker evaluates its batch.
LEMMA WorkerEvalInv ==
  ASSUME HydraInv, NEW l \in Lanes, WorkerEval(l)
  PROVE  HydraInv'
<1>1. PICK out : EvalStep(l, out)
  BY EvalStepIs
<1>2. LaneAt(l)'
  BY <1>1, EvalLane
<1> QED BY <1>1, <1>2, WorkerOthers DEF EvalStep

-----------------------------------------------------------------------------
(* The invariant. *)

\* A lane that was not used yet.
LEMMA NewLaneTyped ==
  NewLane \in LaneStates /\ NewWorker \in WorkerStates
<1>1. Span(None) \in Words
  BY DEF Span, Words, None
<1>2. [p \in 0..(DESC_CAP - 1) |-> Span(None)] \in DescRing
  BY <1>1 DEF DescRing
<1>3. [p \in 0..(RES_CAP - 1) |-> [span_id |-> None, value |-> None]] \in ResRing
  BY DEF ResRing, Results, None
<1> QED BY <1>2, <1>3 DEF NewLane, NewWorker, LaneStates, WorkerStates

\* At the start nothing is in flight.
LEMMA HydraStart ==
  ASSUME Init
  PROVE  HydraInv
<1>1. /\ cfg \in Configs /\ stop = FALSE
      /\ \A l \in Lanes : lane[l] = NewLane /\ worker[l] = NewWorker
  BY DEF Init
<1>2. CoreOk(cfg.tree, core) /\ core.next_span = 0 /\ core.fold_pos = 0 /\ core.pending_len = 0
  <2>1. Fresh(core, 0, 0, 0)
    <3>1. core = FreshSink
      BY DEF Init
    <3> QED BY <3>1 DEF Fresh, FreshSink, FreshWith
  <2>2. 0 \in Nat
    OBVIOUS
  <2> QED BY <2>1, <2>2, FreshCore
<1>3. core \in Sinks
  BY <1>2 DEF CoreOk
<1>4. Types
  BY <1>1, <1>3, NewLaneTyped DEF Types, Init
<1>5. Flying(core) = {}
  BY <1>2, <1>3, NoneFlying
<1>6. ASSUME NEW l \in Lanes PROVE LaneAt(l)
  <2>1. /\ lane[l].desc_head = 0 /\ lane[l].desc_tail = 0 /\ lane[l].res_head = 0 /\ lane[l].res_tail = 0
        /\ worker[l].pc = "poll" /\ worker[l].tail = 0 /\ worker[l].rhead = 0
    BY <1>1 DEF NewLane, NewWorker
  <2>2. ~Pending(l)
    BY <1>2 DEF Pending
  <2>3. Seen(l) = 0 /\ Top(l) = 0 /\ Made(l) = 0
    BY <2>1, <2>2 DEF Seen, Top, Made, unpublished
  <2>4. lane[l].res_tail..(Made(l) - 1) = {} /\ Seen(l)..(Top(l) - 1) = {}
    BY <2>1, <2>3
  <2>5. Cursors(l)
    <3>1. DESC_CAP \in Nat /\ RES_CAP \in Nat
      BY LanesAssumption
    <3> QED BY <2>1, <2>3, <3>1 DEF Cursors
  <2>6. Complete(l)
    BY <1>5 DEF Complete, Mine
  <2>7. ResultsAt(l) /\ WordsAt(l) /\ Numbered(l)
    BY <2>4 DEF ResultsAt, WordsAt, Numbered
  <2> QED BY <2>2, <2>5, <2>6, <2>7 DEF LaneAt, OpenAt
<1> QED BY <1>2, <1>4, <1>6 DEF HydraInv

\* Every step of the core and of a worker keeps the invariant.
LEMMA HydraStep ==
  ASSUME HydraInv, [Next]_vars
  PROVE  HydraInv'
<1>1. ASSUME Core PROVE HydraInv'
  <2>1. CASE SubmitOpen
    BY <2>1, SubmitOpenInv
  <2>2. CASE SubmitAssist
    BY <2>2, SubmitAssistInv
  <2>3. CASE SubmitLane
    BY <2>3, SubmitLaneInv
  <2>4. CASE OpenWait
    BY <2>4, OpenWaitInv
  <2>5. CASE FoldInline
    BY <2>5, FoldInlineInv
  <2>6. CASE FoldLane
    BY <2>6, FoldLaneInv
  <2>7. CASE FoldReturn
    BY <2>7, FoldReturnInv
  <2>8. CASE BeginPass
    BY <2>8, BeginPassInv
  <2>9. CASE EndPass
    BY <2>9, EndPassInv
  <2>10. CASE DrainReady
    BY <2>10, DrainReadyInv
  <2>11. CASE Finish
    BY <2>11, FinishInv
  <2>12. CASE Harvest
    BY <2>12, HarvestInv
  <2>13. CASE Reset
    BY <2>13, ResetInv
  <2>14. CASE Drop
    BY <2>14, DropInv
  <2> QED BY <1>1, <2>1, <2>2, <2>3, <2>4, <2>5, <2>6, <2>7, <2>8, <2>9, <2>10, <2>11, <2>12, <2>13, <2>14
          DEF Core
<1>2. ASSUME NEW l \in Lanes, Worker(l) PROVE HydraInv'
  <2>1. CASE WorkerTake(l)
    BY <2>1, WorkerTakeInv
  <2>2. CASE WorkerExit(l)
    BY <2>2, WorkerExitInv
  <2>3. CASE WorkerEval(l)
    BY <2>3, WorkerEvalInv
  <2>4. CASE WorkerPublish(l)
    BY <2>4, WorkerPublishInv
  <2>5. CASE WorkerFree(l)
    BY <2>5, WorkerFreeInv
  <2> QED BY <1>2, <2>1, <2>2, <2>3, <2>4, <2>5 DEF Worker
<1>3. ASSUME UNCHANGED vars PROVE HydraInv'
  <2>1. UNCHANGED <<cfg, lane, worker>> /\ core' = core /\ stop' = stop
    BY <1>3 DEF vars
  <2>2. Steady(core', core)
    BY <2>1 DEF Steady, SamePending, SameGrid
  <2> QED BY <2>1, <2>2, CoreNow, SteadyLanes
<1> QED BY <1>1, <1>2, <1>3 DEF Next

\* Every span in flight is where the fold will look for it, under its own number.
THEOREM HydraInvariant ==
  Spec => []HydraInv
<1>1. Init => HydraInv
  BY HydraStart
<1>2. HydraInv /\ [Next]_vars => HydraInv'
  BY HydraStep
<1> QED BY <1>1, <1>2, PTL DEF Spec

\* No ring overruns, and the fold-order assertion of fold_available never fires.
THEOREM RingsNeverOverrun ==
  Spec => []RingsHold
<1>1. HydraInv => RingsHold
  <2> SUFFICES ASSUME HydraInv PROVE RingsHold
    OBVIOUS
  <2>1. core.pc # "panic"
    BY DEF HydraInv, Types, Sinks, CorePcs
  <2>2. ASSUME NEW l \in Lanes
        PROVE  /\ lane[l].desc_head - lane[l].desc_tail \in 0..DESC_CAP
               /\ worker[l].rhead + unpublished(l) - lane[l].res_tail \in 0..RES_CAP
    <3>1. /\ lane[l].desc_head \in Nat /\ lane[l].desc_tail \in Nat /\ lane[l].res_tail \in Nat
          /\ worker[l].rhead \in Nat /\ worker[l].nres \in Nat /\ core.pending_len \in Nat
          /\ DESC_CAP \in Nat /\ RES_CAP \in Nat
      BY LaneTypes, CoreNow, AssistTypes, LanesAssumption DEF HydraInv
    <3>2. Cursors(l)
      BY DEF HydraInv, LaneAt
    <3>3. lane[l].desc_head <= Top(l)
      BY <3>1 DEF Top
    <3>4. Top(l) \in Nat /\ unpublished(l) \in Nat
      BY <3>1 DEF Top, unpublished
    <3> QED BY <3>1, <3>2, <3>3, <3>4 DEF Cursors, Made
  <2> QED BY <2>1, <2>2 DEF RingsHold
<1> QED BY <1>1, HydraInvariant, PTL

\* Bit parity (H3): the hash of a completed pass is the fold of its own spans in order.
THEOREM PassesExact ==
  Spec => []PassParity
<1>1. HydraInv => PassParity
  <2> SUFFICES ASSUME HydraInv, NEW i \in DOMAIN core.passes, core.passes[i].done
               PROVE  core.passes[i].hash = Run(core.passes[i].start, core.passes[i].end_span)
    BY DEF PassParity
  <2>1. i \in 0..(PASS_RING - 1)
    BY DEF HydraInv, Types, Sinks, PassRings
  <2>2. PassesDone(core)
    BY CoreNow DEF CoreOk, CoreAt, PassState
  <2> QED BY <2>1, <2>2 DEF PassesDone
<1> QED BY <1>1, HydraInvariant, PTL

=============================================================================
