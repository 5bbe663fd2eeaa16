-------------------------------- MODULE Dual --------------------------------
(***************************************************************************)
(* The dual producer (dual.rs and the dual parts of hydra.rs): once the    *)
(* self-serve regime is proved, the results of lane 1 are drained by a     *)
(* second thread, P1, into a shared ring of leaves, while the submitting   *)
(* core P0 drains lane 0 into its own journal. At a pass boundary P0       *)
(* merges the two by span number. P0 leaves the messages of the odd        *)
(* batches of a pass uncounted: their number, from the script recorded at  *)
(* the arm, is added when the pass completes. A batch that is not a replay *)
(* poisons the gate: P1 exits and P0 adopts lane 1 (the zombie).           *)
(*                                                                         *)
(* A step of P0 or of P1 ends at a store the other one reads. P0's drain   *)
(* is one step: what it reads of P1 only grows.                            *)
(***************************************************************************)
EXTENDS FoldJournal, LaneGrid, FiniteSets, FiniteSetsExt, TLC

CONSTANTS Configs,      \* [base, script, raw, live, nonss, headroom]: see Init
          Passes,       \* passes the driver runs after the arm
          J1_CAP,       \* leaves of the shared ring
          ARR_SLOTS, RES_CAP,
          PASS_PACE,    \* PASS_RING - 8: passes that may wait for completion
          REC_RING      \* window records

ASSUME DualAssumption == NLANES = 2 /\ \A c \in Configs : c.headroom \in 1 .. J1_CAP - 1

VARIABLES cfg, sink, gate, p1, lanes

vars == <<cfg, sink, gate, p1, lanes>>

OPEN == -1
CLEAN == <<>>           \* POISON_CLEAN

(* DualScript: the spans and the messages of each batch of a pass. P1 owns the *)
(* odd batches, counted from 0.                                                *)
script == cfg.script

pass_spans == FoldLeft(LAMBDA a, b : a + b.spans, 0, script)

odd_totals_before(b) ==
    FoldLeft(LAMBDA a, i : IF i % 2 = 0 THEN a + script[i].total ELSE a, 0, [i \in 1 .. b |-> i])

(* The end of a lane's last run of spans before s. *)
lane_end_at(s, l) ==
    IF s = 0 THEN 0 ELSE IF lane_of(s - 1) = l THEN s ELSE chunk_of(s - 1) * CHUNK

(* Where a lane's drain starts when everything before s is folded. *)
lane_init(s, l) ==
    LET f == lane_end_at(s, l) IN IF lane_of(f) = l THEN f ELSE f + CHUNK

(* A drain cursor after k spans: the chunk of the other lane is skipped. *)
stepped(pos, k) == IF (pos + k) % CHUNK = 0 THEN pos + k + CHUNK ELSE pos + k

rem(pos) == CHUNK - (pos % CHUNK)
-----------------------------------------------------------------------------
(* SharedLeafRing. *)

NoLeaf == Entry(<<>>, 0)

NewRing == [leaf |-> [i \in 0 .. J1_CAP - 1 |-> NoLeaf], len |-> 0, consumed |-> 0]

ring_push(r, e) == [r EXCEPT !.leaf[r.len % J1_CAP] = e, !.len = @ + 1]

run_segments(r, lo, hi) == [i \in 1 .. hi - lo |-> r.leaf[(lo + i - 1) % J1_CAP]]

ring_full(r) == r.len - r.consumed > J1_CAP - cfg.headroom

Arrival == [pass |-> 0, count |-> 0, run_start |-> 0, run_len |-> 0]

NewGate ==
    [armed |-> 0, poison |-> CLEAN, shutdown |-> FALSE, shutdown_end |-> 0,
     arrival_seq |-> 0, arrivals |-> [i \in 0 .. ARR_SLOTS - 1 |-> Arrival],
     fold_init |-> 0, pass_base |-> 0, p1_fold |-> 0, p1_done |-> FALSE, j1 |-> NewRing]

(* The first poison stays. *)
set_poison(g, pass, batch) == IF g.poison = CLEAN THEN [g EXCEPT !.poison = <<pass, batch>>] ELSE g

publish_arrival(g, pass, count, run_start, run_len) ==
    [g EXCEPT !.arrivals[pass % ARR_SLOTS] =
                  [pass |-> pass, count |-> count, run_start |-> run_start, run_len |-> run_len],
              !.arrival_seq = pass]
-----------------------------------------------------------------------------
(* P0. The operators take w = [s |-> sink, g |-> gate, l |-> lanes]. Pass i of *)
(* s.passes is the i-th after the arm.                                         *)

NewPass(from) == [start |-> from, end_span |-> OPEN, count |-> 0, hash |-> <<>>, done |-> FALSE]

pending(s) == Len(s.passes) - s.pass_tail

(* How far lane 1 is folded, as P0 knows it. *)
lane1_fold(w) == IF w.s.armed THEN w.g.p1_fold ELSE w.s.z1_fold_pos

dual_lanes_past(w, pos) ==
    w.s.fold_pos >= lane_end_at(pos, 0) /\ lane1_fold(w) >= lane_end_at(pos, 1)

(* The leaves of lane 1 that belong to the boundary: the run P1 announced, or, *)
(* when it announced none, a scan of the ring.                                 *)
arrived(w, pass) == w.s.armed /\ w.g.arrival_seq >= pass

arrival(w, pass) == w.g.arrivals[pass % ARR_SLOTS]

scan_end(r, end_span) ==
    LET past == {i \in r.consumed .. r.len - 1 : r.leaf[i % J1_CAP].end > end_span}
    IN  IF past = {} THEN r.len ELSE Min(past)

run_sound(w, pass) ==
    LET a == arrival(w, pass)
    IN  /\ a.pass = pass
        /\ a.run_start = w.g.j1.consumed /\ a.run_start + a.run_len <= w.g.j1.len

run_end(w, pass) ==
    IF arrived(w, pass) THEN arrival(w, pass).run_start + arrival(w, pass).run_len
    ELSE scan_end(w.g.j1, w.s.passes[pass].end_span)

(* mutant of count_1: the poisoned pass gets the whole pass's odd totals *)
count_1_whole(w, pass) ==
    IF w.s.armed \/ pass <= w.g.poison[1] THEN odd_totals_before(Len(script)) ELSE 0

(* The messages of the odd batches that P0 did not count. *)
count_1(w, pass) ==
    IF w.s.armed \/ pass < w.g.poison[1] THEN odd_totals_before(Len(script))
    ELSE IF pass = w.g.poison[1] THEN odd_totals_before(w.g.poison[2])
    ELSE 0

(* The two runs in the order of their spans. *)
merged(es, fs) == SortSeq(es \o fs, LAMBDA a, b : a.end < b.end)

dual_complete_one(w, pass) ==
    LET rec  == w.s.passes[pass]
        p0   == partition_len(w.s.fold, rec.end_span)
        own  == SubSeq(w.s.fold.journal, 1, p0)
        hash == fold_compose_apply(w.s.fold.hash, tree_fold_segments(
                    merged(own, run_segments(w.g.j1, w.g.j1.consumed, run_end(w, pass)))))
    IN  IF arrived(w, pass) /\ ~run_sound(w, pass) THEN [w EXCEPT !.s.pc = "panic"]
        ELSE [w EXCEPT !.s.passes[pass] = [rec EXCEPT !.hash = hash, !.done = TRUE,
                                                      !.count = @ + count_1(w, pass)],
                       !.s.pass_tail = pass,
                       !.s.fold = [retire_upto(@, rec.end_span) EXCEPT !.hash = <<>>],
                       !.g.j1.consumed = run_end(w, pass)]

(* The oldest pass completes once it has ended and both lanes are past it. *)
completable(w) ==
    /\ pending(w.s) > 0 /\ w.s.passes[w.s.pass_tail + 1].end_span # OPEN
    /\ dual_lanes_past(w, w.s.passes[w.s.pass_tail + 1].end_span)

complete_boundaries(w) ==
    FoldLeft(LAMBDA v, i : IF completable(v) /\ v.s.pc # "panic"
                           THEN dual_complete_one(v, v.s.pass_tail + 1) ELSE v,
             w, [i \in 1 .. pending(w.s) |-> i])

(* The records of lane l in the result ring that end at or before the frontier. *)
due(w, l) ==
    SelectSeq(SubSeq(w.l[l].res, w.l[l].tail + 1, Len(w.l[l].res)), LAMBDA r : r.end <= w.s.next_span)

in_order(r, pos) == r.end - r.k = pos /\ r.k <= rem(pos)

drain_lane0(w) ==
    FoldLeft(LAMBDA v, r :
        IF ~in_order(r, v.s.fold_pos) THEN [v EXCEPT !.s.pc = "panic"]
        ELSE [v EXCEPT !.s.fold = push(TRUE, @, r.b, r.end),
                       !.s.fold_pos = stepped(@, r.k), !.l[0].tail = @ + 1],
        w, due(w, 0))

fold_available_lane0(w) == complete_boundaries(drain_lane0(complete_boundaries(w)))

fold_available_lane1_zombie(w) ==
    LET drained == FoldLeft(LAMBDA v, r :
            IF ~in_order(r, v.s.z1_fold_pos) THEN [v EXCEPT !.s.pc = "panic"]
            ELSE LET u == IF ring_full(v.g.j1) THEN complete_boundaries(v) ELSE v
                 IN  [u EXCEPT !.g.j1 = ring_push(@, r), !.s.z1_fold_pos = stepped(@, r.k),
                               !.l[1].tail = @ + 1],
            w, due(w, 1))
    IN  [drained EXCEPT !.g.p1_fold = drained.s.z1_fold_pos]

fold_available(w) ==
    IF w.s.armed THEN fold_available_lane0(w)
    ELSE complete_boundaries(fold_available_lane1_zombie(fold_available_lane0(w)))

(* There is something to fold. *)
fold_due(w) == completable(w) \/ due(w, 0) # <<>> \/ (~w.s.armed /\ due(w, 1) # <<>>)

world == [s |-> sink, g |-> gate, l |-> lanes]

Becomes(w) == sink' = w.s /\ gate' = w.g /\ lanes' = w.l
-----------------------------------------------------------------------------
(* base: the frontier at the arm, where everything is folded. script: see above. *)
(* raw: a worker's records hold one span each, otherwise runs. live, nonss: a    *)
(* batch may fail to replay; a window may not be self-served. headroom: the free *)
(* leaves (J1_HEADROOM) at which P1 parks.                                       *)
Init ==
    /\ cfg \in Configs
    /\ sink = [pc |-> "arm", batch |-> 0, next_span |-> cfg.base, fold_pos |-> cfg.base,
               fold |-> NewFold, passes |-> <<>>, pass_tail |-> 0, count |-> 0,
               armed |-> FALSE, announced |-> cfg.base, z1_fold_pos |-> 0]
    /\ gate = NewGate
    /\ p1 = [pc |-> "wait", pass |-> 0, fold_pos |-> 0, taken |-> 0, head |-> 0, run_start |-> 0,
             next_bound |-> 0]
    /\ lanes = [l \in Lanes |-> [pos |-> lane_init(cfg.base, l), res |-> <<>>, tail |-> 0]]

(* The driver at a pass top: dual_arm, then DualGate::arm. *)
Arm ==
    /\ sink.pc = "arm"
    /\ sink' = [sink EXCEPT !.pc = "begin", !.armed = TRUE, !.fold_pos = lane_init(@, 0)]
    /\ gate' = [gate EXCEPT !.armed = 1, !.fold_init = lane_init(sink.fold_pos, 1),
                            !.p1_fold = lane_init(sink.fold_pos, 1), !.pass_base = sink.next_span,
                            !.arrival_seq = 0]
    /\ UNCHANGED <<cfg, p1, lanes>>

(* The record of a window is reused REC_RING windows later: its pass must be folded. *)
record_free ==
    LET old == Len(sink.passes) + 1 - REC_RING
    IN  old >= 1 => dual_lanes_past(world, sink.passes[old].end_span)

(* begin_pass. A window that is not self-served poisons an armed gate. *)
BeginPass ==
    /\ sink.pc = "begin" /\ Len(sink.passes) < Passes
    /\ pending(sink) < PASS_PACE /\ record_free
    /\ \E ss \in IF cfg.nonss THEN BOOLEAN ELSE {TRUE} :
         LET pass == Len(sink.passes) + 1
         IN  /\ sink' = [sink EXCEPT !.pc = IF sink.armed /\ ~ss THEN "disarm" ELSE "batch",
                             !.passes = Append(@, NewPass(sink.next_span)), !.count = 0, !.batch = 0,
                             !.announced = IF ss THEN sink.next_span + pass_spans ELSE @]
             /\ gate' = IF sink.armed /\ ~ss THEN set_poison(gate, pass, 0) ELSE gate
    /\ UNCHANGED <<cfg, p1, lanes>>

(* A batch of the pass, then drain_ready. An odd batch is not counted while armed. *)
Submit ==
    /\ sink.pc = "batch" /\ sink.batch < Len(script)
    /\ LET b  == script[sink.batch + 1]
           to == sink.next_span + b.spans
       IN  Becomes(fold_available([world EXCEPT
               !.s.next_span = to, !.s.announced = Max({@, to}), !.s.batch = @ + 1,
               !.s.count = IF sink.armed /\ sink.batch % 2 = 1 THEN @ ELSE @ + b.total]))
    /\ UNCHANGED <<cfg, p1>>

(* The next batch is not the recorded one: the driver poisons the gate. *)
LiveMiss ==
    /\ cfg.live /\ sink.pc = "batch" /\ sink.batch < Len(script) /\ sink.armed
    /\ gate' = set_poison(gate, Len(sink.passes), sink.batch)
    /\ sink' = [sink EXCEPT !.pc = "disarm"]
    /\ UNCHANGED <<cfg, p1, lanes>>

(* What dual_disarm_poison spins for. *)
dual_disarm_poison(g) == g.p1_done

(* P0 adopts lane 1 where P1 left it. *)
Disarm ==
    /\ sink.pc = "disarm" /\ dual_disarm_poison(gate)
    /\ sink' = [sink EXCEPT !.pc = "batch", !.armed = FALSE, !.z1_fold_pos = gate.p1_fold]
    /\ UNCHANGED <<cfg, gate, p1, lanes>>

EndPass ==
    /\ sink.pc = "batch" /\ sink.batch = Len(script)
    /\ Becomes(complete_boundaries([world EXCEPT !.s.pc = "begin",
           !.s.passes[Len(sink.passes)] = [@ EXCEPT !.end_span = sink.next_span, !.count = sink.count]]))
    /\ UNCHANGED <<cfg, p1>>

(* The end of the run: initiate_shutdown, then finish. *)
Shutdown ==
    /\ sink.pc = "begin" /\ Len(sink.passes) = Passes
    /\ gate' = [gate EXCEPT !.shutdown = TRUE, !.shutdown_end = sink.next_span]
    /\ sink' = [sink EXCEPT !.pc = "finish"]
    /\ UNCHANGED <<cfg, p1, lanes>>

(* The waits of begin_pass and finish fold as they spin. *)
Spin ==
    /\ sink.pc = "finish" \/ (sink.pc = "begin" /\ ~(pending(sink) < PASS_PACE /\ record_free))
    /\ fold_due(world)
    /\ Becomes(fold_available(world))
    /\ UNCHANGED <<cfg, p1>>

finished(w) == dual_lanes_past(w, w.s.next_span) /\ (~w.s.armed \/ w.g.p1_done)

Finish ==
    /\ sink.pc = "finish" /\ finished(fold_available(world))
    /\ Becomes(LET w == complete_boundaries(fold_available(world))
               IN  IF w.s.pc = "panic" THEN w ELSE [w EXCEPT !.s.pc = "done", !.s.fold = flush_all(@)])
    /\ UNCHANGED <<cfg, p1>>
-----------------------------------------------------------------------------
(* P1: lane1_run and drain_lane1. *)

P1Arm ==
    /\ p1.pc = "wait" /\ gate.armed # 0
    /\ p1' = [p1 EXCEPT !.pc = "poll", !.pass = gate.armed, !.fold_pos = gate.fold_init,
                        !.next_bound = gate.pass_base + pass_spans]
    /\ UNCHANGED <<cfg, sink, gate, lanes>>

(* Poison, or a shutdown once lane 1 is drained, ends the loop. *)
p1_leaves ==
    \/ gate.poison # CLEAN
    \/ gate.shutdown /\ p1.fold_pos >= lane_end_at(gate.shutdown_end, 1)

P1Poll ==
    /\ p1.pc = "poll" /\ ~p1_leaves /\ lanes[1].tail < Len(lanes[1].res)
    /\ p1' = [p1 EXCEPT !.pc = "drain", !.taken = 0, !.head = Len(lanes[1].res)]
    /\ UNCHANGED <<cfg, sink, gate, lanes>>

(* The next record of lane 1 becomes a leaf; P1 parks while the ring is full. *)
P1Push ==
    /\ p1.pc = "drain" /\ lanes[1].tail + p1.taken < p1.head /\ ~ring_full(gate.j1)
    /\ LET r == lanes[1].res[lanes[1].tail + p1.taken + 1]
       IN  IF in_order(r, p1.fold_pos)
           THEN /\ gate' = [gate EXCEPT !.j1 = ring_push(@, r)]
                /\ p1' = [p1 EXCEPT !.pc = "sweep", !.fold_pos = stepped(@, r.k), !.taken = @ + 1,
                             !.run_start = IF r.end <= gate.pass_base THEN gate.j1.len + 1 ELSE @]
           ELSE p1' = [p1 EXCEPT !.pc = "panic"] /\ UNCHANGED gate
    /\ UNCHANGED <<cfg, sink, lanes>>

pass_end == lane_end_at(p1.next_bound, 1)

(* A boundary is behind the cursor: its run is announced, then the cursor raised. *)
P1Publish ==
    /\ p1.pc = "sweep" /\ p1.fold_pos >= pass_end
    /\ gate' = publish_arrival(gate, p1.pass, odd_totals_before(Len(script)), p1.run_start,
                               gate.j1.len - p1.run_start)
    /\ p1' = [p1 EXCEPT !.pc = "raise"]
    /\ UNCHANGED <<cfg, sink, lanes>>

(* mutant of crossing_store: the cursor is left to the end of the drain *)
crossing_store_none(g, pos) == g

crossing_store(g, pos) == [g EXCEPT !.p1_fold = pos]

P1Raise ==
    /\ p1.pc = "raise"
    /\ gate' = crossing_store(gate, pass_end)
    /\ p1' = [p1 EXCEPT !.pc = "sweep", !.run_start = gate.j1.len, !.pass = @ + 1,
                        !.next_bound = @ + pass_spans]
    /\ UNCHANGED <<cfg, sink, lanes>>

P1Swept ==
    /\ p1.pc = "sweep" /\ p1.fold_pos < pass_end
    /\ p1' = [p1 EXCEPT !.pc = "drain"]
    /\ UNCHANGED <<cfg, sink, gate, lanes>>

drain_store(g, st) == [g EXCEPT !.p1_fold = st.fold_pos]

P1Drained ==
    /\ p1.pc = "drain" /\ lanes[1].tail + p1.taken = p1.head
    /\ lanes' = [lanes EXCEPT ![1].tail = @ + p1.taken]
    /\ gate' = drain_store(gate, p1)
    /\ p1' = [p1 EXCEPT !.pc = "poll"]
    /\ UNCHANGED <<cfg, sink>>

P1Exit ==
    /\ p1.pc = "poll" /\ p1_leaves
    /\ gate' = [gate EXCEPT !.p1_fold = p1.fold_pos, !.p1_done = TRUE]
    /\ p1' = [p1 EXCEPT !.pc = "done"]
    /\ UNCHANGED <<cfg, sink, lanes>>
-----------------------------------------------------------------------------
(* A lane's worker (module HydraRx has it in full): it evaluates the spans the *)
(* window machine has announced; a run ends with its chunk, at the last span    *)
(* announced and at the base of the next window.                               *)
Emit(l) ==
    LET pos == lanes[l].pos
        run == Min({rem(pos), sink.announced - pos}
                     \union {p.start - pos : p \in {q \in Range(sink.passes) : q.start > pos}})
    IN  /\ sink.pc \notin {"done", "panic"}
        /\ pos < sink.announced /\ Len(lanes[l].res) - lanes[l].tail < RES_CAP
        /\ LET k == IF cfg.raw THEN 1 ELSE run
           IN  lanes' = [lanes EXCEPT ![l].pos = stepped(pos, k),
                             ![l].res = Append(@, Entry([i \in 1 .. k |-> pos + i - 1], pos + k))]
        /\ UNCHANGED <<cfg, sink, gate, p1>>

P0Next == Arm \/ BeginPass \/ Submit \/ LiveMiss \/ Disarm \/ EndPass \/ Shutdown \/ Spin \/ Finish

P1Next == P1Arm \/ P1Poll \/ P1Push \/ P1Publish \/ P1Raise \/ P1Swept \/ P1Drained \/ P1Exit

(* The run is over: P0 has finished and P1 has left lane1_run. *)
Finished == sink.pc = "done" /\ p1.pc = "done" /\ UNCHANGED vars

Next == P0Next \/ P1Next \/ (\E l \in Lanes : Emit(l)) \/ Finished

(* Each thread has a core of its own and only spins where it waits: weak fairness *)
(* of each, for P0 with what it waits for written out.                            *)
P0CanStep ==
    CASE sink.pc \in {"arm", "batch"} -> TRUE
      [] sink.pc = "disarm" -> gate.p1_done
      [] sink.pc = "begin"  -> fold_due(world) \/ (pending(sink) < PASS_PACE /\ record_free)
                                 \/ Len(sink.passes) = Passes
      [] sink.pc = "finish" -> fold_due(world) \/ finished(world)
      [] OTHER -> FALSE

Fairness ==
    /\ []<>~P0CanStep \/ []<><<P0Next>>_vars
    /\ WF_vars(P1Next) /\ \A l \in Lanes : WF_vars(Emit(l))

Spec == Init /\ [][Next]_vars /\ Fairness
-----------------------------------------------------------------------------
(* Bit-exact parity: whichever thread drained a span, a completed pass has the  *)
(* hash of its own spans in order and the count of all its messages, also when  *)
(* the gate was poisoned in the middle of it (complete_boundaries, hydra.rs).   *)
(* And no order or run assertion of either drain fires: lane records arrive     *)
(* where the cursors are, an announced run starts at the retired end of the     *)
(* ring and ends inside it (drain_lane1, dual_complete_one).                    *)
PassExact ==
    /\ sink.pc # "panic" /\ p1.pc # "panic"
    /\ \A i \in 1 .. sink.pass_tail :
           LET rec == sink.passes[i]
           IN  /\ rec.hash = [j \in 1 .. rec.end_span - rec.start |-> rec.start + j - 1]
               /\ rec.count = FoldLeft(LAMBDA a, b : a + b.total, 0, script)

(* The rendezvous is not dead: every pass completes and P1 exits, whether the run *)
(* is shut down armed or poisoned, and although P1 parks on a full ring that only *)
(* P0's boundaries empty (the deadlock law of drain_lane1).                       *)
Rendezvous == <>(sink.pc = "done" /\ p1.pc = "done" /\ sink.pass_tail = Passes)

=============================================================================
