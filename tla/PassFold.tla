------------------------------ MODULE PassFold ------------------------------
(***************************************************************************)
(* The pass records of HydraSpanSink and the assist ring: the parts of the *)
(* sink that its two ways of handing spans to workers share. An operator   *)
(* takes the sink, a record, and returns it after the call.                *)
(***************************************************************************)
EXTENDS FoldJournal, LaneGrid, FiniteSets, FiniteSetsExt

CONSTANTS ASSIST_SLOTS, \* chunks of the assist ring
          PASS_RING     \* pass records

ASSUME PassFoldAssumption == {ASSIST_SLOTS, PASS_RING} \subseteq Nat \ {0, 1}

OPEN == -1              \* end_span of a pass that has not ended (u64::MAX)

None == -1

(* What reset and begin_pass start from. start is the first span of a pass: a *)
(* history field, the code knows it only through the boundary before it.      *)
NewPass(s) == [start |-> s, end_span |-> OPEN, hash |-> <<>>, done |-> FALSE]

NewPassRing == [i \in 0 .. PASS_RING - 1 |-> NewPass(0)]

next_in_ring(i) == (i + 1) % PASS_RING

begin_record(s) ==
    [s EXCEPT !.passes[s.pass_head] = NewPass(s.next_span), !.pass_head = next_in_ring(@), !.pass_open = TRUE]

end_record(s) ==
    [s EXCEPT !.passes[(s.pass_head + PASS_RING - 1) % PASS_RING].end_span = s.next_span, !.pass_open = FALSE]

(* One turn of the loop of complete_boundaries: the oldest pass that has ended *)
(* and is folded gets the hash of its own spans, and the fold restarts.        *)
complete_one(tree, s) ==
    LET rec == s.passes[s.pass_tail] IN
    IF s.pass_tail # s.pass_head /\ ~rec.done /\ rec.end_span # OPEN /\ rec.end_span <= s.fold_pos
    THEN LET f == IF tree THEN flush_upto(s.fold, rec.end_span) ELSE s.fold
         IN  [s EXCEPT !.passes[s.pass_tail] = [rec EXCEPT !.hash = f.hash, !.done = TRUE],
                       !.fold = [f EXCEPT !.hash = <<>>], !.pass_tail = next_in_ring(@)]
    ELSE s

complete_boundaries(tree, s) ==
    FoldLeft(LAMBDA t, i : complete_one(tree, t), s, [i \in 1 .. PASS_RING |-> i])

(* The end of the oldest pass that is not complete, as far as it is known. *)
pending_boundary_end(s) ==
    LET rec == s.passes[s.pass_tail] IN
    IF s.pass_tail # s.pass_head /\ ~rec.done THEN rec.end_span ELSE OPEN
-----------------------------------------------------------------------------
(* The assist ring: chunks the core evaluates itself. *)

FreeChunk == [first_span |-> None, vals |-> <<>>, sealed |-> FALSE]

NewAssistRing == [i \in 0 .. ASSIST_SLOTS - 1 |-> FreeChunk]

can_claim(s) == s.inline_seq - s.inline_fold_seq < ASSIST_SLOTS - 1

claim_inline(s) ==
    LET slot == s.inline_seq % ASSIST_SLOTS
    IN  [s EXCEPT !.inline_seq = @ + 1, !.cur_inline = slot,
                  !.inline[slot] = [FreeChunk EXCEPT !.first_span = s.next_span]]

(* mutant of sealed: the chunk stays open for the fold *)
sealed_never(s) == [s EXCEPT !.cur_inline = None, !.pending_len = 0]

sealed(s) == [s EXCEPT !.inline[s.cur_inline].sealed = TRUE, !.cur_inline = None, !.pending_len = 0]

submit_inline_span(s, value) ==
    [s EXCEPT !.inline[s.cur_inline].vals = Append(@, value), !.pending_len = @ + 1]

oldest_inline(s) == s.inline[s.inline_fold_seq % ASSIST_SLOTS]

inline_due(s) ==
    /\ s.inline_fold_seq < s.inline_seq
    /\ oldest_inline(s).sealed /\ oldest_inline(s).first_span = s.fold_pos

(* The fold moves on by n spans; a chunk that is folded gives way to the next. *)
folded(tree, s, n) ==
    LET t == [s EXCEPT !.fold_pos = @ + n, !.fold_rem = @ - n]
    IN  complete_boundaries(tree, IF t.fold_rem = 0 THEN [t EXCEPT !.fold_rem = CHUNK] ELSE t)

fold_inline(tree, s) ==
    LET vals == oldest_inline(s).vals
    IN  folded(tree, [s EXCEPT !.fold = push_values(tree, @, vals, s.fold_pos),
                               !.inline_fold_seq = @ + 1], Len(vals))

=============================================================================
