------------------------------ MODULE HydraRx ------------------------------
(***************************************************************************)
(* HydraSpanSink in array mode (hydra.rs, rxdesc.rs). The core writes the  *)
(* words of a pass into an array, or finds them there from the pass        *)
(* before, and publishes how many are ready; the workers walk their chunks *)
(* of the lane grid, compose runs of values into segments and publish      *)
(* those; the core folds the segments. In the steady state the core reuses *)
(* the array of the pass before (toroidal), then publishes a whole pass    *)
(* before it has seen it (self-serve), and a worker re-emits the segments  *)
(* it recorded instead of walking (replay).                                *)
(*                                                                         *)
(* A pass is a tape, a sequence of words; the value of a span is its word. *)
(***************************************************************************)
EXTENDS PassFold, ResLog, Rxdesc

CONSTANTS WBATCH,       \* spans a worker evaluates before it looks up
          RX_PACE,      \* spans submitted and not folded, at most, when wm > 0
          Configs       \* the switches of a run, and what its passes may hold

ASSUME RxAssumption ==
    /\ {WBATCH, RX_PACE} \subseteq Nat \ {0}
    /\ \A c \in Configs :
          /\ {c.toroidal, c.selfserve, c.replay, c.diet, c.force} \subseteq BOOLEAN
          /\ {c.wm, c.resets} \subseteq Nat           \* assist watermark; resets of the run
          /\ c.passes \in 1 .. PASS_RING - 1          \* passes of the run
          /\ \A t \in c.tapes : Len(t) \in 1 .. RX_CAP
          /\ c.replay => Cardinality(c.tapes) = 1     \* the frozen-master regime, the premise of a replay

VARIABLES cfg,
          core,         \* the sink
          rx,           \* the shared arrays, records, marks and the ready register
          res,          \* the published segments of every lane
          worker

vars == <<cfg, core, rx, res, worker>>

INF == 1000000          \* u64::MAX

FreshSink(gen) ==
    [gen |-> gen, next_span |-> 0, fold |-> NewFold, fold_pos |-> 0, fold_rem |-> CHUNK,
     pending_len |-> 0, cur_inline |-> None, inline |-> NewAssistRing, inline_seq |-> 0, inline_fold_seq |-> 0,
     passes |-> NewPassRing, pass_head |-> 0, pass_tail |-> 0, pass_open |-> FALSE,
     win_slot |-> 0, win_rec |-> 0, win_base |-> 0, ever_opened |-> FALSE, marks_cleared |-> FALSE,
     tor_win |-> FALSE, win_fixed |-> FALSE, win_count0 |-> 0, win_ss |-> FALSE, win_pre |-> 0,
     steady_epoch |-> 0,
     slot_end |-> [s \in 0 .. RX_NARR - 1 |-> None], slot_epoch |-> [s \in 0 .. RX_NARR - 1 |-> 0],
     slot_count |-> [s \in 0 .. RX_NARR - 1 |-> None], rec_end |-> [s \in 0 .. REC_RING - 1 |-> None],
     panic |-> FALSE, tapes |-> <<>>]

NewWorker(l) ==
    [pc |-> "poll", gen |-> 0, ready |-> 0, eval |-> 0, lo |-> 0, rec_slot |-> 0, rec_base |-> 0,
     arr_slot |-> 0, next_wb |-> INF, n |-> 0, first |-> 0, seg |-> <<>>, out |-> <<>>,
     log |-> IF cfg.diet /\ cfg.replay THEN NewLog ELSE poison(NewLog)]

Init ==
    /\ cfg \in Configs
    /\ core = [begun |-> 0, resets |-> 0] @@ FreshSink(1)
    /\ rx = [NewRx EXCEPT !.gen = 1]
    /\ res = [l \in Lanes |-> <<>>]
    /\ worker = [l \in Lanes |-> NewWorker(l)]
-----------------------------------------------------------------------------
(* rx_open_window. *)

tor_next(s) == cfg.toroidal /\ s.ever_opened /\ s.steady_epoch >= 1

(* The array of the next window: the same one while the content is proved       *)
(* invariant, else the next; a fresh sink takes the number of the record slot.  *)
arr_next(s) ==
    IF tor_next(s) THEN s.win_slot
    ELSE IF s.ever_opened THEN (s.win_slot + 1) % RX_NARR ELSE next_slot(rx)

past(s, end) == end = None \/ s.fold_pos >= end

(* What is in flight must not be overwritten: the array, unless it is reused as *)
(* it is, and the record.                                                       *)
window_free(s) ==
    /\ tor_next(s) \/ past(s, s.slot_end[arr_next(s)])
    /\ past(s, s.rec_end[next_slot(rx)])

straddles(s) == s.next_span % CHUNK # 0 /\ is_inline(rx, chunk_of(s.next_span))

(* The words of the window before, unless the array already has them. *)
warmed(s) ==
    LET slot == arr_next(s)
        n    == rx.last_window_count
        from == IF s.ever_opened THEN s.win_slot ELSE (slot + RX_NARR - 1) % RX_NARR
        r    == IF s.marks_cleared THEN rx ELSE clear_chunk_states(rx)
    IN  IF tor_next(s) \/ (s.slot_epoch[slot] >= 1 /\ s.slot_count[slot] = n) THEN r
        ELSE copy_arr(r, from, slot, n)

selfserve_next(s) ==
    /\ cfg.selfserve /\ tor_next(s) /\ s.steady_epoch >= 2 /\ rx.last_window_count > 0
    /\ ~straddles(s) /\ ~cfg.force

opened_sink(s) ==
    LET ss == selfserve_next(s)
        t  == [s EXCEPT !.win_slot = arr_next(s), !.win_rec = next_slot(rx), !.win_base = s.next_span,
                        !.ever_opened = TRUE, !.marks_cleared = TRUE, !.tor_win = tor_next(s),
                        !.win_fixed = FALSE, !.win_count0 = rx.last_window_count,
                        !.win_ss = ss, !.win_pre = IF ss THEN s.next_span + rx.last_window_count ELSE 0]
    IN  IF straddles(s) THEN claim_inline(t) ELSE t

opened_rx(s) ==
    LET r == publish_record(warmed(s), next_slot(rx), s.gen, s.next_span, arr_next(s))
    IN  IF selfserve_next(s) THEN publish_ready(r, s.gen, s.next_span + rx.last_window_count) ELSE r

(* begin_pass. The waits of rx_open_window are guards: while they last the core *)
(* does nothing but fold. A self-serving window repeats the pass before it: the *)
(* schedule is frozen by then, which is the premise of self-serve. A slot out   *)
(* of range stops the program (rx_slot_end is indexed by it).                   *)
BeginPass ==
    /\ ~core.panic /\ ~core.pass_open /\ core.begun < cfg.passes
    /\ IF arr_next(core) >= RX_NARR
       THEN core' = [core EXCEPT !.panic = TRUE] /\ UNCHANGED rx
       ELSE /\ window_free(core)
            /\ straddles(core) => can_claim(core)
            /\ \E t \in cfg.tapes :
                  /\ selfserve_next(core) => t = Last(core.tapes)
                  /\ core' = opened_sink(begin_record([core EXCEPT !.tapes = Append(@, t), !.begun = @ + 1]))
            /\ rx' = opened_rx(core)
    /\ UNCHANGED <<cfg, res, worker>>
-----------------------------------------------------------------------------
(* Submission. *)

pending(s) == s.next_span - s.fold_pos

takes_inline(s) ==
    /\ s.next_span % CHUNK = 0
    /\ \/ cfg.force
       \/ ~s.win_ss /\ cfg.wm > 0 /\ pending(s) > cfg.wm /\ can_claim(s)

index(s) == s.next_span - s.win_base

word(s) == Last(s.tapes)[index(s) + 1]

differs(s) == rx.arr[s.win_slot][index(s)] # word(s)

(* mutant of fix_guard: a word of a reused array is overwritten at once *)
fix_guard_off(s) == TRUE

(* rx_tor_fix_guard: a word of a reused array may still be read for the window *)
(* before; the fold must have passed the span it stood for.                    *)
fix_guard(s) == s.tor_win => s.fold_pos >= s.win_base - s.win_count0 + index(s) + 1

ready_value(s) == IF s.win_ss /\ s.win_pre > s.next_span THEN s.win_pre ELSE s.next_span

(* submit_span_rx, or a batch of one. In a self-serving window the span is only *)
(* counted. Otherwise its word is checked and, if need be, fixed, and a chunk   *)
(* that is complete is published.                                               *)
Submit ==
    /\ ~core.panic /\ core.pass_open /\ index(core) < Len(Last(core.tapes))
    /\ cfg.wm > 0 => pending(core) <= RX_PACE
    /\ IF core.win_ss /\ core.cur_inline = None
       THEN core' = [core EXCEPT !.next_span = @ + 1] /\ UNCHANGED rx
       ELSE LET mine == takes_inline(core)
                s == IF mine THEN claim_inline(core) ELSE core
                t == IF s.cur_inline = None THEN s ELSE submit_inline_span(s, word(s))
                u == [t EXCEPT !.next_span = @ + 1, !.win_fixed = @ \/ differs(core)]
                full == u.next_span % CHUNK = 0
                v == IF full /\ u.cur_inline # None THEN sealed(u) ELSE u
                r1 == IF mine THEN mark_inline(rx, chunk_of(core.next_span)) ELSE rx
                r2 == IF differs(core) THEN set_arr(r1, s.win_slot, index(core), word(core)) ELSE r1
            IN  /\ mine => can_claim(core)
                /\ differs(core) => fix_guard(core)
                /\ core' = v
                /\ rx' = IF full THEN publish_ready(r2, s.gen, ready_value(v)) ELSE r2
    /\ UNCHANGED <<cfg, res, worker>>

(* The window closes: it was clean if no word had to be fixed and it is as long *)
(* as the one before, or as the last one of its array.                          *)
closed_window(s) ==
    LET n == s.next_span - s.win_base
    IN  [s EXCEPT !.slot_end[s.win_slot] = s.next_span, !.rec_end[s.win_rec] = s.next_span,
                  !.steady_epoch = IF ~s.win_fixed /\ n = s.win_count0 THEN @ + 1 ELSE 0,
                  !.slot_epoch[s.win_slot] = IF ~s.win_fixed /\ n = s.slot_count[s.win_slot] THEN @ + 1 ELSE 0,
                  !.slot_count[s.win_slot] = n]

(* end_pass: what is open is sealed, the record and the window are closed, and   *)
(* the tail's spans are published.                                               *)
EndPass ==
    /\ ~core.panic /\ core.pass_open /\ index(core) = Len(Last(core.tapes))
    /\ LET s == IF core.pending_len > 0 /\ core.cur_inline # None THEN sealed(core) ELSE core
           t == [closed_window(end_record(s)) EXCEPT !.win_ss = FALSE, !.win_pre = 0]
       IN  /\ core' = complete_boundaries(TRUE, t)
           /\ rx' = publish_ready([rx EXCEPT !.last_window_count = index(core)], core.gen, ready_value(core))
    /\ UNCHANGED <<cfg, res, worker>>

(* fold_available, one segment or assist chunk a turn: t holds the sink and *)
(* what is left of the lanes' segments.                                     *)
fold_turn(t) ==
    LET s == t.sink
        l == lane_of(s.fold_pos)
        r == Head(t.res[l])
    IN  IF s.panic \/ s.fold_pos >= s.next_span THEN t
        ELSE IF inline_due(s) THEN [t EXCEPT !.sink = fold_inline(TRUE, s)]
        ELSE IF is_inline(rx, chunk_of(s.fold_pos)) \/ t.res[l] = <<>> THEN t
        ELSE IF r.first + Len(r.b) > s.next_span THEN t
        ELSE IF r.first # s.fold_pos \/ Len(r.b) > CHUNK - (s.fold_pos % CHUNK)
        THEN [t EXCEPT !.sink.panic = TRUE]
        ELSE [res  |-> [t.res EXCEPT ![l] = Tail(@)],
              sink |-> folded(TRUE, [s EXCEPT !.fold = push(TRUE, @, r.b, s.fold_pos + Len(r.b)),
                                              !.fold_rem = CHUNK - (s.fold_pos % CHUNK)], Len(r.b))]

fold_available ==
    FoldLeft(LAMBDA t, i : fold_turn(t), [sink |-> core, res |-> res], [i \in 1 .. pending(core) |-> i])

(* drain_ready, and every loop that folds until it may go on. *)
Drain ==
    /\ ~core.panic /\ fold_available.sink # core
    /\ core' = fold_available.sink /\ res' = fold_available.res
    /\ UNCHANGED <<cfg, rx, worker>>

(* finish, whose wait is a guard here too, and reset: a new generation. *)
Reset ==
    /\ ~core.panic /\ ~core.pass_open /\ core.next_span > 0 /\ core.fold_pos = core.next_span
    /\ core.resets < cfg.resets
    /\ core' = [begun |-> core.begun, resets |-> core.resets + 1] @@ FreshSink(rx.gen + 1)
    /\ rx' = [rx EXCEPT !.gen = @ + 1]
    /\ UNCHANGED <<cfg, res, worker>>
-----------------------------------------------------------------------------
(* The workers: lane_worker_rxdesc_diet, and lane_worker_rxdesc (~cfg.diet),  *)
(* which has no log and looks for a record at every span. A worker is a       *)
(* record; a step of it is a function of that record and of the shared state. *)

flushed(w) ==
    IF w.seg = <<>> THEN w
    ELSE [w EXCEPT !.out = Append(@, [first |-> w.first, b |-> w.seg]), !.seg = <<>>,
                   !.log = push_seg(@, w.first, w.seg)]

(* probe_wb: where the next window starts, if its record is there. *)
probe_wb(w) ==
    LET r == rx.rec[(w.rec_slot + 1) % REC_RING]
    IN  IF r.gen = w.gen /\ r.base > w.rec_base THEN r.base ELSE INF

(* resolve_rec, one record. *)
adopts(w, gid) == probe_wb(w) <= gid /\ probe_wb(w) # INF

adopted(w) ==
    LET s == (w.rec_slot + 1) % REC_RING
    IN  [w EXCEPT !.rec_slot = s, !.rec_base = rx.rec[s].base, !.arr_slot = rx.rec[s].aslot]

bounded(w, l) ==
    LET f == flushed(w) IN [f EXCEPT !.log = on_boundary(@, w.rec_base, l)]

(* boundary_cross: the records up to gid are adopted; a walk of several lanes takes *)
(* the pass boundaries one by one, a replay only the last.                          *)
crossed(b) == [b EXCEPT !.next_wb = probe_wb(b)]

last_boundary(v, w, l, multi) == IF multi \/ v.rec_slot = w.rec_slot THEN v ELSE bounded(v, l)

cross(w, l, gid, multi) ==
    LET step(v, i) == IF ~adopts(v, gid) THEN v
                      ELSE IF multi THEN bounded(adopted(v), l) ELSE adopted(v)
    IN  crossed(last_boundary(FoldLeft(step, w, [i \in 1 .. REC_RING |-> i]), w, l, multi))

(* The walk of one chunk. *)
value_at(w, gid) ==
    LET i == gid - w.rec_base IN IF i \in 0 .. RX_CAP - 1 THEN rx.arr[w.arr_slot][i] ELSE NoWord

evaluated(w, gid) ==
    [w EXCEPT !.first = IF w.seg = <<>> THEN gid ELSE @, !.seg = Append(@, value_at(w, gid)), !.n = @ + 1]

(* A boundary may begin a replay, which ends the walk. *)
span_taken(x, c) ==
    IF c.rec_slot # x.w.rec_slot /\ c.log.replaying THEN [x EXCEPT !.w = c, !.halt = TRUE]
    ELSE [x EXCEPT !.gid = @ + 1, !.w = evaluated(IF Len(c.seg) = CHUNK THEN flushed(c) ELSE c, x.gid)]

span_step(x, l, hi) ==
    IF x.halt \/ x.gid >= hi \/ x.w.n >= WBATCH THEN x
    ELSE span_taken(x, IF ~cfg.diet \/ x.gid >= x.w.next_wb THEN cross(x.w, l, x.gid, NLANES > 1) ELSE x.w)

walk_end(w) == IF w.lo + CHUNK < w.ready THEN w.lo + CHUNK ELSE w.ready

walked_spans(w, l) ==
    FoldLeft(LAMBDA y, i : span_step(y, l, walk_end(w)),
             [w |-> w, gid |-> w.eval, halt |-> FALSE], [i \in 1 .. CHUNK |-> i])

(* Where the walk of chunk w.lo that came to gid leaves the cursor. *)
moved(v, gid, w) ==
    IF gid < walk_end(w) THEN [v EXCEPT !.eval = gid]
    ELSE IF gid = w.lo + CHUNK THEN [v EXCEPT !.eval = w.lo + grid, !.lo = w.lo + grid]
    ELSE [v EXCEPT !.eval = gid]

(* mutant of walked: the end of a chunk does not end a segment *)
walked_on(x, w) == moved(x.w, x.gid, w)

walked(x, w) == moved(IF x.gid = w.lo + CHUNK THEN flushed(x.w) ELSE x.w, x.gid, w)

walk_chunk(w, l) == walked(walked_spans(w, l), w)

(* The guards at the entry of a walk: the cursor is not before its record, and in *)
(* its chunk.                                                                     *)
snapped(w, l) ==
    LET v == IF w.eval < w.rec_base THEN [w EXCEPT !.eval = w.rec_base] ELSE w
    IN  IF v.eval < v.lo \/ v.eval > v.lo + CHUNK
        THEN [v EXCEPT !.lo = fallback_lo(v.eval, l), !.eval = fallback_start(v.eval, l)] ELSE v

walk(w, l) ==
    IF w.eval = w.lo /\ is_inline(rx, chunk_of(w.lo))
    THEN [w EXCEPT !.log = discard_phase(@), !.eval = w.lo + grid, !.lo = w.lo + grid]
    ELSE walk_chunk(IF cfg.diet THEN snapped(w, l) ELSE w, l)
-----------------------------------------------------------------------------
(* The replay: a script of recorded segments instead of the walk. *)

script(w) == w.log.segs[w.log.rp_next + 1]

exhausted(w) == w.log.rp_next >= w.log.rp_end

(* A replay at a boundary, c after it: the next script, or none is there yet. *)
replay_boundary(x, c) ==
    IF exhausted(c) /\ c.next_wb = x.w.next_wb THEN [w |-> c, halt |-> "stalled"] ELSE [x EXCEPT !.w = c]

replay_step(x, l) ==
    LET w     == x.w
        first == w.log.cur_rb + script(w).rel
        end   == first + Len(script(w).b)
        at    == IF exhausted(w) THEN w.next_wb ELSE first
    IN  IF x.halt # "no" \/ w.n >= WBATCH THEN x
        ELSE IF at >= w.next_wb THEN replay_boundary(x, cross(w, l, at, FALSE))
        ELSE IF end > w.ready THEN [x EXCEPT !.halt = "stalled"]
        ELSE IF is_inline(rx, chunk_of(first))
        THEN [w |-> [w EXCEPT !.log = fallback(@)], halt |-> "fallback"]
        ELSE IF first < w.eval THEN [x EXCEPT !.halt = "panic"]
        ELSE [x EXCEPT !.w = [w EXCEPT !.out = Append(@, [first |-> first, b |-> script(w).b]),
                                       !.n = @ + Len(script(w).b), !.eval = end, !.log.rp_next = @ + 1]]

(* The record that covers eval, the last of the ring in ring order if several do. *)
record_for(w) ==
    LET covers == {s \in DOMAIN rx.rec : rx.rec[s].gen = w.gen /\ rx.rec[s].base <= w.eval}
        best   == {s \in covers : \A t \in covers : rx.rec[t].base <= rx.rec[s].base}
    IN  IF covers = {} THEN w
        ELSE LET s == Min(best)
             IN  [w EXCEPT !.rec_slot = s, !.rec_base = rx.rec[s].base, !.arr_slot = rx.rec[s].aslot]

(* The replay gives up: the walk goes on at the lane's own place of the grid. *)
resumed(w, l) ==
    record_for([w EXCEPT !.lo = fallback_lo(w.eval, l), !.eval = fallback_start(w.eval, l)])

replay(w, l) ==
    FoldLeft(LAMBDA y, i : replay_step(y, l), [w |-> w, halt |-> "no"],
             [i \in 1 .. Len(w.log.segs) + 2 * REC_RING |-> i])
-----------------------------------------------------------------------------
(* load_ready at the top of the loop. A new generation restarts the walk at its *)
(* first record, which must still be there.                                     *)
reanchored(w, l) ==
    LET first == {s \in DOMAIN rx.rec : rx.rec[s].gen = rx.ready.gen /\ rx.rec[s].base = 0}
        s == Min(first)
    IN  IF first = {} THEN [w EXCEPT !.pc = "panic"]
        ELSE
        [w EXCEPT !.gen = rx.ready.gen, !.eval = l * CHUNK, !.lo = l * CHUNK, !.rec_slot = s, !.rec_base = 0,
                  !.arr_slot = rx.rec[s].aslot, !.log = on_boundary(reset_gen(@), 0, l)]

started(v) ==
    IF v.pc = "panic" \/ v.eval >= rx.ready.spans THEN v
    ELSE [v EXCEPT !.pc = "batch", !.ready = rx.ready.spans, !.next_wb = probe_wb(v), !.n = 0]

polled(w, l) == started(IF rx.ready.gen # w.gen THEN reanchored(w, l) ELSE w)

(* mutant of refreshed: a replay keeps the register it started with *)
refreshed_never(w) == w

(* While a replay is behind what is ready, the register is read again, but only a *)
(* register of its own generation counts.                                         *)
refreshed(w) ==
    IF w.log.replaying /\ w.eval < w.ready /\ rx.ready.gen = w.gen /\ rx.ready.spans > w.ready
    THEN [w EXCEPT !.ready = rx.ready.spans, !.next_wb = probe_wb(w)] ELSE w

(* One turn of the batch loop. *)
replayed(x, l) ==
    IF x.halt = "panic" THEN [x.w EXCEPT !.pc = "panic"]
    ELSE IF x.w.log.replaying THEN x.w
    ELSE walk(resumed(x.w, l), l)

turn(w, l) ==
    IF w.n >= WBATCH \/ w.eval >= w.ready THEN [flushed(w) EXCEPT !.pc = "poll"]
    ELSE IF ~w.log.replaying THEN walk(w, l)
    ELSE replayed(replay(w, l), l)

stepped(l) ==
    IF worker[l].pc = "poll" THEN polled(worker[l], l) ELSE turn(refreshed(worker[l]), l)

(* Segments are published at the end of a batch, and by a replay every turn. *)
publishes(w, v) == v.pc = "poll" \/ (w.log.replaying /\ v.log.replaying)

Step(l) ==
    /\ ~core.panic /\ worker[l].pc # "panic"
    /\ \E v \in {stepped(l)} :
          /\ v # worker[l]
          /\ IF publishes(worker[l], v)
             THEN /\ worker' = [worker EXCEPT ![l] = [v EXCEPT !.out = <<>>]]
                  /\ res' = [res EXCEPT ![l] = @ \o v.out]
             ELSE worker' = [worker EXCEPT ![l] = v] /\ UNCHANGED res
    /\ UNCHANGED <<cfg, core, rx>>
-----------------------------------------------------------------------------
Next == BeginPass \/ Submit \/ EndPass \/ Drain \/ Reset \/ \E l \in Lanes : Step(l)

Spec == Init /\ [][Next]_vars

(* The harness goes on with a pass it began and folds while it waits, and every  *)
(* worker is a thread of its own: weak fairness, with what a thread waits for     *)
(* written out. A pass need not begin.                                            *)
SubmitWaits ==
    \/ cfg.wm > 0 /\ pending(core) > RX_PACE
    \/ ~(core.win_ss /\ core.cur_inline = None)
          /\ ((takes_inline(core) /\ ~can_claim(core)) \/ (differs(core) /\ ~fix_guard(core)))

PassWaits ==
    core.panic \/ ~core.pass_open \/ (index(core) < Len(Last(core.tapes)) /\ SubmitWaits)

FoldWaits ==
    \/ core.panic \/ core.fold_pos = core.next_span
    \/ ~inline_due(core)
          /\ LET r == res[lane_of(core.fold_pos)]
             IN  \/ is_inline(rx, chunk_of(core.fold_pos)) \/ r = <<>>
                 \/ Head(r).first + Len(Head(r).b) > core.next_span

(* A replay waits for the register or, at the end of its script, for a record. *)
ReplayWaits(w) ==
    /\ w.log.replaying /\ w.n < WBATCH /\ w.eval < w.ready /\ refreshed(w) = w
    /\ IF exhausted(w) THEN probe_wb(w) = INF
       ELSE LET first == w.log.cur_rb + script(w).rel
            IN  first < w.next_wb /\ first + Len(script(w).b) > w.ready

WorkerWaits(l) ==
    \/ core.panic \/ worker[l].pc = "panic"
    \/ worker[l].pc = "poll" /\ rx.ready.gen = worker[l].gen /\ rx.ready.spans <= worker[l].eval
    \/ worker[l].pc = "batch" /\ ReplayWaits(worker[l])

FairSpec ==
    /\ Spec
    /\ []<>PassWaits \/ []<><<core'.next_span # core.next_span \/ core'.pass_open # core.pass_open>>_vars
    /\ []<>FoldWaits \/ []<><<core'.fold_pos # core.fold_pos>>_vars
    /\ \A l \in Lanes : []<>WorkerWaits(l) \/ []<><<worker'[l] # worker[l]>>_vars
-----------------------------------------------------------------------------
(* Bit parity in every regime (rotating, toroidal, self-serve, replay): the hash *)
(* of a completed pass is the fold of exactly its own words in order.            *)
PassParity ==
    \A i \in DOMAIN core.passes : core.passes[i].done => core.passes[i].hash = core.tapes[i + 1]

(* No assertion fires: the fold meets the segment it expects, within the chunk, a *)
(* replay never goes back, and an array slot is in range.                         *)
NoPanic == ~core.panic /\ \A l \in Lanes : worker[l].pc # "panic"

(* No span is left behind: the fold catches up with what was submitted again and *)
(* again, so finish, the pace gate and the reuse gates return.                   *)
Drains == []<>(core.fold_pos = core.next_span)
=============================================================================
