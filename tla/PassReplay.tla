----------------------------- MODULE PassReplay -----------------------------
(***************************************************************************)
(* passreplay.rs: the ledger that records the sink calls of one live pass  *)
(* and re-issues them in later passes over the same frozen master. An      *)
(* operator takes the ledger and returns it after the call.                *)
(*                                                                         *)
(* A call is a packed batch of spans (a base address and words relative to *)
(* it), a batch of span records, a single span, or an event, which stands  *)
(* for a message too: both are re-issued as they are and carry no span.    *)
(* The address of a frame's span is the frame's number.                    *)
(***************************************************************************)
EXTENDS Integers, Sequences, SequencesExt

CONSTANTS MAX_BATCHES, MAX_CALLS, MAX_WORDS, MAX_RECS

ASSUME LedgerAssumption == {MAX_BATCHES, MAX_CALLS, MAX_WORDS, MAX_RECS} \subseteq Nat

NoRec == [start |-> -1]

NewLedger(enabled) ==
    [enabled |-> enabled, poison |-> FALSE, version |-> 0, batches |-> <<>>, calls |-> <<>>,
     words |-> <<>>, recs |-> <<>>, idx |-> 0, live |-> 0, rec |-> NoRec, start_version |-> 0, clean |-> FALSE,
     barrier |-> TRUE]

Event(f) == [kind |-> "event", at |-> f]

Span(f) == [kind |-> "span", at |-> f]

SpanBatch(lo, n) == [kind |-> "spans", lo |-> lo, n |-> n]

Packed(first, total, base, lo, n) ==
    [kind |-> "packed", first |-> first, total |-> total, base |-> base, lo |-> lo, n |-> n]

cleared(d) == [d EXCEPT !.batches = <<>>, !.calls = <<>>, !.words = <<>>, !.recs = <<>>]

begin_ledger_pass(d) ==
    [d EXCEPT !.idx = 0, !.live = 0, !.rec = NoRec, !.start_version = d.version, !.barrier = TRUE]

note_pass_end(d) == [d EXCEPT !.clean = d.version = d.start_version /\ d.batches # <<>>]
-----------------------------------------------------------------------------
(* Recording. *)

begin_record(d, version, start, len, w) ==
    IF ~d.enabled \/ d.poison THEN d
    ELSE LET e == IF d.batches = <<>> THEN [cleared(d) EXCEPT !.version = version] ELSE d
         IN  [e EXCEPT !.barrier = TRUE,
                       !.rec = [start |-> start, len |-> len, w_in |-> w, lo |-> Len(e.calls)]]

push_call(d, call) ==
    IF Len(d.calls) >= MAX_CALLS THEN [d EXCEPT !.poison = TRUE]
    ELSE [d EXCEPT !.calls = Append(@, call)]

(* A packed call that follows a packed call of the same batch without a hole *)
(* joins it; its words are rebased.                                          *)
fuses(d, first, base, words) ==
    /\ Len(d.words) + Len(words) <= MAX_WORDS /\ ~d.barrier
    /\ d.calls # <<>> /\ Last(d.calls).kind = "packed"
    /\ Last(d.calls).first + Last(d.calls).total = first
    /\ Last(d.calls).lo + Last(d.calls).n = Len(d.words) /\ base >= Last(d.calls).base

(* mutant of rebased: the words keep the base of their own call *)
rebased_not(words, delta) == words

rebased(words, delta) == [i \in DOMAIN words |-> words[i] + delta]

record_packed(d, first, total, base, words) ==
    IF d.rec = NoRec \/ d.poison THEN d
    ELSE IF Len(d.words) + Len(words) > MAX_WORDS \/ Len(d.calls) >= MAX_CALLS
    THEN [d EXCEPT !.poison = TRUE]
    ELSE IF fuses(d, first, base, words)
    THEN LET last == Last(d.calls)
         IN  [d EXCEPT !.words = @ \o rebased(words, base - last.base),
                       !.calls[Len(d.calls)] = [last EXCEPT !.total = @ + total, !.n = @ + Len(words)]]
    ELSE push_call([d EXCEPT !.words = @ \o words, !.barrier = FALSE],
                   Packed(first, total, base, Len(d.words), Len(words)))

record_call(d, call) == IF d.rec = NoRec \/ d.poison THEN d ELSE push_call(d, call)

record_span_batch(d, recs) ==
    IF d.rec = NoRec \/ d.poison THEN d
    ELSE IF Len(d.recs) + Len(recs) > MAX_RECS \/ Len(d.calls) >= MAX_CALLS
    THEN [d EXCEPT !.poison = TRUE]
    ELSE push_call([d EXCEPT !.recs = @ \o recs], SpanBatch(Len(d.recs), Len(recs)))

over_capacity(d) ==
    \/ Len(d.batches) >= MAX_BATCHES \/ Len(d.calls) > MAX_CALLS
    \/ Len(d.words) > MAX_WORDS \/ Len(d.recs) > MAX_RECS

seal_batch(d, w) ==
    LET rec == [start |-> d.rec.start, len |-> d.rec.len, w_in |-> d.rec.w_in, lo |-> d.rec.lo,
                hi |-> Len(d.calls), w_out |-> w]
        at  == d.idx + 1
    IN  IF d.rec = NoRec THEN d
        ELSE IF over_capacity(d) THEN [cleared(d) EXCEPT !.poison = TRUE, !.rec = NoRec]
        ELSE [d EXCEPT !.rec = NoRec, !.idx = @ + 1, !.live = @ + 1,
                       !.batches = IF at <= Len(@) THEN [@ EXCEPT ![at] = rec] ELSE Append(@, rec)]
-----------------------------------------------------------------------------
(* Replaying. *)

(* The master was written: a new regime, the template is dropped. *)
master_moved(d, version) == version # d.version

has_template(d, regime) == d.enabled /\ ~d.poison /\ regime /\ d.idx < Len(d.batches)

truncated(d, version) == [cleared(d) EXCEPT !.version = version]

(* The asserts before a replay: the batch and the watermark are the recorded ones. *)
matches(d, start, len, w) ==
    LET b == d.batches[d.idx + 1] IN <<b.start, b.len, b.w_in>> = <<start, len, w>>

(* What a call delivers to the sink: the addresses of its spans, or the event. *)
delivered(d, call) ==
    CASE call.kind = "event"  -> <<Event(call.at)>>
      [] call.kind = "span"   -> <<call.at>>
      [] call.kind = "spans"  -> SubSeq(d.recs, call.lo + 1, call.lo + call.n)
      [] call.kind = "packed" -> [i \in 1 .. call.n |-> call.base + d.words[call.lo + i]]

replayed(d) ==
    LET b == d.batches[d.idx + 1]
    IN  FlattenSeq([i \in 1 .. b.hi - b.lo |-> delivered(d, d.calls[b.lo + i])])

packed_total(call) == IF call.kind = "packed" THEN call.total ELSE 0

spans_of(call) ==
    CASE call.kind \in {"packed", "spans"} -> call.n
      [] call.kind = "span" -> 1
      [] OTHER -> 0

calls_of(d, i) == SubSeq(d.calls, d.batches[i].lo + 1, d.batches[i].hi)

(* mutant of dual_batch_summary: only packed calls advance the span cursor *)
dual_batch_summary_packed(d, i) ==
    FoldLeft(LAMBDA a, c : IF c.kind = "packed" THEN <<a[1] + c.total, a[2] + c.n>> ELSE a,
             <<0, 0>>, calls_of(d, i))

(* A recorded batch for the dual script: the messages of its packed calls, which P1 *)
(* counts, and the spans of every call that advances the span cursor.               *)
dual_batch_summary(d, i) ==
    FoldLeft(LAMBDA a, c : <<a[1] + packed_total(c), a[2] + spans_of(c)>>, <<0, 0>>, calls_of(d, i))

=============================================================================
