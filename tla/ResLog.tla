------------------------------- MODULE ResLog -------------------------------
(***************************************************************************)
(* hydra.rs, ResLog: a lane worker records the result segments of a pass   *)
(* and re-emits them, shifted, for a later pass that starts at the same    *)
(* place of the lane grid. Positions are span numbers.                     *)
(***************************************************************************)
EXTENDS LaneGrid, Sequences, SequencesExt

CONSTANT RESLOG_SEGS    \* capacity of the segment store

ASSUME ResLogAssumption == RESLOG_SEGS \in Nat \ {0}

NONE == -1              \* u64::MAX

NoPhase == [lo |-> 0, n |-> 0, rb |-> 0]

NewLog == [poisoned |-> FALSE, recording |-> FALSE, replaying |-> FALSE, segs |-> <<>>,
           phases |-> [p \in 0 .. grid - 1 |-> NoPhase], phase |-> 0,
           cur_rb |-> NONE, prev_rb |-> NONE, pass_len |-> 0, rp_next |-> 0, rp_end |-> 0]

no_scripts(log) == [p \in DOMAIN log.phases |-> [log.phases[p] EXCEPT !.n = 0]]

reset_gen(log) ==
    [log EXCEPT !.segs = <<>>, !.phases = no_scripts(log), !.recording = FALSE, !.replaying = FALSE,
                !.cur_rb = NONE, !.prev_rb = NONE, !.pass_len = 0]

poison(log) ==
    [log EXCEPT !.poisoned = TRUE, !.segs = <<>>, !.phases = no_scripts(log),
                !.recording = FALSE, !.replaying = FALSE]

(* A recorded pass is kept only if its segments tile the lane's part of it: the *)
(* first starts where the lane enters, each follows the one before it, in the   *)
(* same chunk or in the lane's next, and the last ends where the lane leaves.   *)
tiles(log, rb, l) ==
    LET segs == SubSeq(log.segs, log.phases[log.phase].lo + 1, Len(log.segs))
        exit == lane_span_exit(rb, l) - log.cur_rb
        endOf(i) == segs[i].rel + Len(segs[i].b)
    IN  /\ segs # <<>>
        /\ segs[1].rel = lane_span_entry(log.cur_rb, l) - log.cur_rb
        /\ \A i \in 2 .. Len(segs) : segs[i].rel - endOf(i - 1) \in {0, (NLANES - 1) * CHUNK}
        /\ endOf(Len(segs)) = IF exit < 0 THEN 0 ELSE exit

closed(log, rb, l) ==
    LET lo == log.phases[log.phase].lo
    IN  IF ~log.recording THEN log
        ELSE IF tiles(log, rb, l)
        THEN [log EXCEPT !.phases[log.phase].n = Len(log.segs) - lo, !.recording = FALSE]
        ELSE [log EXCEPT !.phases[log.phase].n = 0, !.segs = SubSeq(@, 1, lo), !.recording = FALSE]

(* The length law: passes of another length than the first forget everything. *)
measured(log, rb) ==
    LET delta == rb - log.prev_rb
    IN  IF log.prev_rb = NONE THEN log
        ELSE IF log.pass_len = 0 THEN [log EXCEPT !.pass_len = delta]
        ELSE IF delta # log.pass_len THEN reset_gen(log) ELSE log

open_recording(log, rb) ==
    LET p == rb % grid
    IN  [log EXCEPT !.phase = p, !.recording = TRUE,
                    !.phases[p] = [lo |-> Len(log.segs), n |-> 0, rb |-> rb]]

(* A pass that starts at a phase with a script replays it, when the distance is *)
(* a whole number of passes; otherwise it is recorded.                          *)
opened(log, rb) ==
    LET ph == log.phases[log.phase]
    IN  IF log.poisoned THEN log
        ELSE IF ph.n = 0 THEN open_recording(log, rb)
        ELSE IF log.pass_len > 0 /\ (rb - ph.rb) % log.pass_len = 0
        THEN [log EXCEPT !.rp_next = ph.lo, !.rp_end = ph.lo + ph.n, !.replaying = TRUE]
        ELSE open_recording([reset_gen(log) EXCEPT !.prev_rb = rb], rb)

on_boundary(log, rb, l) ==
    LET m == measured(closed(log, rb, l), rb)
    IN  opened([m EXCEPT !.prev_rb = rb, !.cur_rb = rb, !.phase = rb % grid, !.replaying = FALSE], rb)

push_seg(log, first, b) ==
    IF ~log.recording \/ log.poisoned THEN log
    ELSE IF Len(log.segs) >= RESLOG_SEGS THEN poison(log)
    ELSE [log EXCEPT !.segs = Append(@, [rel |-> first - log.cur_rb, b |-> b])]

fallback(log) == [log EXCEPT !.replaying = FALSE]

discard_phase(log) ==
    IF ~log.recording THEN log
    ELSE [log EXCEPT !.segs = SubSeq(@, 1, log.phases[log.phase].lo),
                     !.phases[log.phase].n = 0, !.recording = FALSE]

=============================================================================
