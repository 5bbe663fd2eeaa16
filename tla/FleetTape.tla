------------------------------ MODULE FleetTape ------------------------------
(***************************************************************************)
(* multivenue.rs, the construction side of FleetSink: the spans of a       *)
(* window are split by slot, and every slot's tape keeps, window by window,*)
(* the composites of its chunks and of its super-chunks, which the owners  *)
(* replay later, and the window's own composite, which is the oracle.      *)
(*                                                                         *)
(* A span is a number; a composite (P64) is the sequence of its spans, as  *)
(* its composition is associative and not commutative. The cross-slot      *)
(* digest is commutative: a bag of composites.                             *)
(***************************************************************************)
EXTENDS Integers, Sequences, SequencesExt, Bags, FiniteSets, FiniteSetsExt

CONSTANTS N_SLOTS, N_GROUPS,
          SLOT_CHUNK,           \* spans of a chunk
          SUB_SPANS,            \* spans of a sub-record
          SUPER_SUBS            \* sub-records of a super-chunk

ASSUME TapeAssumption == {N_SLOTS, N_GROUPS, SLOT_CHUNK, SUB_SPANS, SUPER_SUBS} \subseteq Nat \ {0}

Slots == 0 .. N_SLOTS - 1

SUPER_SPANS == SUB_SPANS * SUPER_SUBS

IDENTITY == <<>>

(* SlotMap::ci: the slots go round the groups. *)
owner_slots(g) == SelectSeq([i \in 1 .. N_SLOTS |-> i - 1], LAMBDA s : s % N_GROUPS = g)

accum(d, x) == d (+) SetToBag({x})

fleet_digest(xs) == FoldLeft(accum, EmptyBag, xs)

super_fold(subs) == FlattenSeq(subs)

NewTape == [chunk_rec |-> <<>>, window_rec |-> <<>>, window_msgs |-> <<>>, window_chunks |-> <<0>>,
            supers |-> <<>>, window_super |-> <<0>>]

NewSlot == [tape |-> NewTape, win_acc |-> IDENTITY, chunk_acc |-> IDENTITY, sub_acc |-> IDENTITY,
            super_pending |-> <<>>, since_super |-> IDENTITY, spans |-> 0, chunks |-> 0]

(* new_construction. A slot also counts what the open batch added to it: its *)
(* spans, and the chunks it completed.                                       *)
NewBuild == [slot |-> [s \in Slots |-> NewSlot], sched |-> <<>>, oracle |-> <<>>, n |-> 0]

chunk_grid(x) ==
    IF Len(x.chunk_acc) = SLOT_CHUNK
    THEN [x EXCEPT !.tape.chunk_rec = Append(@, x.chunk_acc), !.chunk_acc = IDENTITY, !.chunks = @ + 1]
    ELSE x

(* The super grid: every SUB_SPANS spans a sub-record is staged; at SUPER_SUBS of *)
(* them a super-chunk is complete, and two of them are folded together.           *)
super_grid(x) ==
    LET staged == Append(x.super_pending, x.sub_acc)
    IN  IF Len(x.sub_acc) < SUB_SPANS THEN x
        ELSE IF Len(staged) = 2 * SUPER_SUBS
        THEN [x EXCEPT !.sub_acc = IDENTITY, !.super_pending = <<>>, !.since_super = IDENTITY,
                       !.tape.supers = @ \o <<super_fold(SubSeq(staged, 1, SUPER_SUBS)),
                                              super_fold(SubSeq(staged, SUPER_SUBS + 1, 2 * SUPER_SUBS))>>]
        ELSE [x EXCEPT !.sub_acc = IDENTITY, !.super_pending = staged,
                       !.since_super = IF Len(staged) = SUPER_SUBS THEN IDENTITY ELSE @]

construct_span(b, s) ==
    LET id == b.n + 1
        x  == [b.slot[s] EXCEPT !.win_acc = Append(@, id), !.chunk_acc = Append(@, id),
                                !.sub_acc = Append(@, id), !.since_super = Append(@, id), !.spans = @ + 1]
    IN  [b EXCEPT !.n = id, !.slot[s] = super_grid(chunk_grid(x))]

(* seal_batch_sched *)
seal_batch_sched(b) ==
    [b EXCEPT !.sched = Append(@, [s \in Slots |-> [spans |-> b.slot[s].spans, chunks |-> b.slot[s].chunks]]),
              !.slot = [s \in Slots |-> [@[s] EXCEPT !.spans = 0, !.chunks = 0]]]

(* on_span_batch of a sink without an engine: batch names the slot of every span. *)
on_span_batch(b, batch) == seal_batch_sched(FoldLeft(construct_span, b, batch))

(* mutant of tail_flush: the partial chunk of a window stays open *)
tail_flush_none(x) == x

tail_flush(x) ==
    IF x.chunk_acc = IDENTITY THEN x
    ELSE [x EXCEPT !.tape.chunk_rec = Append(@, x.chunk_acc), !.chunk_acc = IDENTITY]

(* mutant of super_edge: the spans since the last super-chunk are not recorded *)
super_edge_none(x) ==
    IF Len(x.super_pending) < SUPER_SUBS THEN x
    ELSE [x EXCEPT !.tape.supers = Append(@, super_fold(SubSeq(x.super_pending, 1, SUPER_SUBS))),
                   !.super_pending = SubSeq(@, SUPER_SUBS + 1, Len(@))]

(* A complete super-chunk that is still staged is folded, and the spans since then *)
(* make a record of their own. The staged sub-records and the open one stay.        *)
super_edge(x) ==
    LET full == Len(x.super_pending) >= SUPER_SUBS
        y == IF full THEN [x EXCEPT !.tape.supers = Append(@, super_fold(SubSeq(x.super_pending, 1, SUPER_SUBS))),
                                    !.super_pending = SubSeq(@, SUPER_SUBS + 1, Len(@))]
             ELSE x
    IN  IF y.since_super = IDENTITY THEN y
        ELSE [y EXCEPT !.tape.supers = Append(@, y.since_super), !.since_super = IDENTITY]

window_edge(x0) ==
    LET x == super_edge(tail_flush(x0))
        t == x.tape
    IN  [x EXCEPT !.win_acc = IDENTITY,
                  !.tape = [t EXCEPT !.window_rec = Append(@, x.win_acc), !.window_msgs = Append(@, Len(x.win_acc)),
                                     !.window_chunks = Append(@, Len(t.chunk_rec)),
                                     !.window_super = Append(@, Len(t.supers))]]

construct_window_close(b) ==
    LET xs == [i \in 1 .. N_SLOTS |-> b.slot[i - 1].win_acc]
    IN  [b EXCEPT !.slot = [s \in Slots |-> window_edge(@[s])],
                  !.oracle = Append(@, [count |-> FoldLeft(LAMBDA n, x : n + Len(x), 0, xs),
                                        digest |-> fleet_digest(xs)])]
-----------------------------------------------------------------------------
(* JumpState: a window may be published without walking its batches once one walked *)
(* window was verified. from_schedule checks the schedule of the first window        *)
(* against the tapes.                                                                *)
certified(b) ==
    LET n_win   == Max({1, Len(b.oracle)})
        batches == Len(b.sched) \div n_win
        first   == SubSeq(b.sched, 1, batches)
        spans(s)  == FoldLeft(LAMBDA n, r : n + r[s].spans, 0, first)
        chunks(s) == FoldLeft(LAMBDA n, r : n + r[s].chunks, 0, first)
        delta(s)  == b.slot[s].tape.window_chunks[2] - b.slot[s].tape.window_chunks[1]
        supers(s) == b.slot[s].tape.window_super[2] - b.slot[s].tape.window_super[1]
    IN  /\ Len(b.sched) % n_win = 0
        /\ \A s \in Slots :
              Len(b.slot[s].tape.window_chunks) >= 2 =>
                 /\ IF delta(s) = 0 THEN spans(s) = 0
                    ELSE /\ spans(s) > SLOT_CHUNK * (delta(s) - 1) /\ spans(s) <= SLOT_CHUNK * delta(s)
                         /\ delta(s) \in {chunks(s), chunks(s) + 1}
                 /\ spans(s) > 0 => supers(s) > 0 \/ spans(s) <= SUPER_SPANS

from_schedule(b, dial) ==
    [armed |-> FALSE, w_arm |-> 0, period |-> Max({1, Len(b.oracle)}), dial |-> dial,
     sched_ok |-> certified(b), poisoned |-> ~certified(b)]

can_jump(js, w) ==
    /\ js.armed /\ ~js.poisoned /\ js.dial /\ w > js.w_arm
    /\ js.period <= 1 \/ w % js.period = js.w_arm % js.period

poison_jump(js) == [js EXCEPT !.poisoned = TRUE]

arm(js, w, tuple, oracle) ==
    IF ~js.sched_ok \/ oracle = <<>> \/ tuple # oracle[(w % Len(oracle)) + 1] THEN js
    ELSE [js EXCEPT !.armed = TRUE, !.w_arm = w, !.poisoned = FALSE]

=============================================================================
