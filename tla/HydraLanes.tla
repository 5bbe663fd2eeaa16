----------------------------- MODULE HydraLanes -----------------------------
(***************************************************************************)
(* HydraSpanSink over descriptor rings (hydra.rs). The core that receives  *)
(* the spans writes a descriptor per span into the ring of a lane, a chunk *)
(* at a time; a worker per lane evaluates them and writes results into a   *)
(* second ring; the core folds the results in emission order and cuts the  *)
(* fold at pass boundaries. When a lane is full the core evaluates a chunk *)
(* itself (the assist ring).                                               *)
(*                                                                         *)
(* A span is its number since the last reset, and its value is that        *)
(* number: the kernel is a function of the bytes, which do not change.     *)
(***************************************************************************)
EXTENDS PassFold

CONSTANTS DESC_CAP,     \* descriptors per lane
          RES_CAP,      \* results per lane
          BATCH,        \* descriptors a worker takes at once
          Configs,      \* the build and environment switches of a run
          MaxSpans, MaxPasses, MaxResets

ASSUME LanesAssumption ==
    /\ {DESC_CAP, RES_CAP, BATCH, MaxSpans, MaxPasses} \subseteq Nat \ {0}
    /\ MaxResets \in Nat
    /\ DESC_CAP > CHUNK /\ RES_CAP >= CHUNK + BATCH
    /\ Configs \subseteq [desc8 : BOOLEAN, tree : BOOLEAN, force : BOOLEAN]

VARIABLES cfg,          \* the switches
          core,         \* the sink, all of it owned by the submitting core
          lane,         \* the shared rings and cursors of every lane
          worker,       \* the workers
          stop          \* the fabric's shutdown flag

vars == <<cfg, core, lane, worker, stop>>

(* A descriptor word: a span, or the anchor that names the next one. *)
Span(i) == [kind |-> "span", id |-> i]

Anchor(i) == [kind |-> "anchor", id |-> i]

NewLane == [desc |-> [p \in 0 .. DESC_CAP - 1 |-> Span(None)], desc_head |-> 0, desc_tail |-> 0,
            res |-> [p \in 0 .. RES_CAP - 1 |-> [span_id |-> None, value |-> None]],
            res_head |-> 0, res_tail |-> 0]

NewWorker == [pc |-> "poll", tail |-> 0, rhead |-> 0, n |-> 0, nres |-> 0, cur_span |-> 0]

FreshSink ==
    [next_span |-> 0, fold |-> NewFold, fold_pos |-> 0, fold_rem |-> CHUNK, submit_rem |-> CHUNK,
     submit_lane |-> 0, pending_lane |-> 0, pending_len |-> 0, pending_head |-> 0, cur_inline |-> None,
     inline |-> NewAssistRing, inline_seq |-> 0, inline_fold_seq |-> 0,
     passes |-> NewPassRing, pass_head |-> 0, pass_tail |-> 0,
     harvest_pos |-> 0, pass_open |-> FALSE,
     pc |-> "idle",     \* what the core is doing
     ret |-> "idle",    \* where fold_available returns to
     spans |-> 0, begun |-> 0, resets |-> 0]      \* bounds of the model

Init ==
    /\ cfg \in Configs
    /\ core = FreshSink
    /\ lane = [l \in Lanes |-> NewLane]
    /\ worker = [l \in Lanes |-> NewWorker]
    /\ stop = FALSE
-----------------------------------------------------------------------------
(* Submission. *)

(* mutant of chunk_need: the anchor of a packed chunk is not counted *)
chunk_need_bare == CHUNK

(* Room is asked for once per chunk, for all its words. *)
chunk_need == CHUNK + (IF cfg.desc8 THEN 1 ELSE 0)

lane_full(l) == lane[l].desc_head - lane[l].desc_tail + chunk_need > DESC_CAP

(* The grid step after a span: the next chunk belongs to the next lane. *)
advanced(s) ==
    LET t == [s EXCEPT !.next_span = @ + 1, !.spans = @ + 1, !.submit_rem = @ - 1]
    IN  IF t.submit_rem = 0
        THEN [t EXCEPT !.submit_rem = CHUNK, !.submit_lane = (@ + 1) % NLANES]
        ELSE t

(* submit_span into the assist ring; a full chunk is sealed (flush_pending). *)
submit_inline(s) ==
    LET t == advanced(submit_inline_span(s, s.next_span))
    IN  core' = (IF t.submit_rem = CHUNK THEN sealed(t) ELSE t) /\ UNCHANGED lane

(* submit_span into the ring of the lane, a first one behind its anchor; a full *)
(* chunk is published (flush_pending) by one store of desc_head.               *)
submit_ring(s) ==
    LET l     == s.pending_lane
        words == IF cfg.desc8 /\ s.pending_len = 0 THEN <<Anchor(s.next_span), Span(s.next_span)>>
                                                   ELSE <<Span(s.next_span)>>
        pos   == s.pending_head + s.pending_len
        t     == advanced([s EXCEPT !.pending_len = @ + Len(words)])
        full  == t.submit_rem = CHUNK
    IN  /\ core' = IF full THEN [t EXCEPT !.pending_len = 0] ELSE t
        /\ lane' = [lane EXCEPT
              ![l].desc = [p \in 0 .. DESC_CAP - 1 |->
                  IF \E i \in DOMAIN words : (pos + i - 1) % DESC_CAP = p
                  THEN words[CHOOSE i \in DOMAIN words : (pos + i - 1) % DESC_CAP = p] ELSE @[p]],
              ![l].desc_head = IF full THEN pos + Len(words) ELSE @]

(* flush_pending: what is pending is sealed in the assist ring, or published. *)
flush_sink(s) ==
    IF s.cur_inline # None THEN sealed(s) ELSE [s EXCEPT !.pending_len = 0]

flush_lane(s) ==
    IF s.pending_len = 0 \/ s.cur_inline # None THEN lane
    ELSE [lane EXCEPT ![s.pending_lane].desc_head = s.pending_head + s.pending_len]

MaySubmit == core.pc = "idle" /\ core.pass_open /\ core.spans < MaxSpans /\ ~stop

(* on_span while a chunk is open. *)
SubmitOpen ==
    /\ MaySubmit /\ core.pending_len > 0
    /\ \/ core.cur_inline # None /\ submit_inline(core)
       \/ core.cur_inline = None /\ submit_ring(core)
    /\ UNCHANGED <<cfg, worker, stop>>

(* on_span that opens a chunk in the assist ring. *)
SubmitAssist ==
    /\ MaySubmit \/ core.pc = "claim"
    /\ core.pending_len = 0
    /\ (cfg.force \/ lane_full(core.submit_lane)) /\ can_claim(core)
    /\ core.pc = "claim" => cfg.force
    /\ submit_inline(claim_inline([core EXCEPT !.pc = "idle"]))
    /\ UNCHANGED <<cfg, worker, stop>>

(* on_span that opens a chunk of the lane. *)
SubmitLane ==
    /\ MaySubmit \/ core.pc = "claim"
    /\ core.pending_len = 0 /\ ~cfg.force
    /\ ~lane_full(core.submit_lane)
    /\ submit_ring([core EXCEPT !.pc = "idle", !.pending_lane = core.submit_lane,
                                !.pending_head = lane[core.submit_lane].desc_head])
    /\ UNCHANGED <<cfg, worker, stop>>

(* open_chunk finds neither room in the lane nor an assist slot: it folds and *)
(* looks again, at the lane only unless every chunk must go inline.           *)
OpenWait ==
    /\ MaySubmit \/ core.pc = "claim"
    /\ core.pending_len = 0
    /\ IF cfg.force THEN ~can_claim(core)
       ELSE lane_full(core.submit_lane) /\ (core.pc = "claim" \/ ~can_claim(core))
    /\ core' = [complete_boundaries(cfg.tree, core) EXCEPT !.pc = "fold", !.ret = "claim"]
    /\ UNCHANGED <<cfg, lane, worker, stop>>
-----------------------------------------------------------------------------
(* fold_available: one action per turn of its loop. *)

FoldInline ==
    /\ core.pc = "fold" /\ core.fold_pos < core.next_span /\ inline_due(core)
    /\ core' = fold_inline(cfg.tree, core)
    /\ UNCHANGED <<cfg, lane, worker, stop>>

fold_lane(s) == lane_of(s.fold_pos)

(* mutant of fold_cap: the drain runs over the end of the pass *)
fold_cap_chunk(s, avail) ==
    Min({avail, CHUNK - (s.fold_pos % CHUNK), s.next_span - s.fold_pos})

(* What a drain of the lane takes: up to the end of the chunk, of what was *)
(* submitted and of the pass.                                              *)
fold_cap(s, avail) ==
    Min({avail, CHUNK - (s.fold_pos % CHUNK), s.next_span - s.fold_pos}
        \union (IF pending_boundary_end(s) = OPEN THEN {} ELSE {pending_boundary_end(s) - s.fold_pos}))

(* The next n results of the lane are folded and taken. One that is not the next *)
(* span stops the program: the fold-order assertion.                             *)
drain_results(l, n) ==
    LET s    == [core EXCEPT !.fold_rem = CHUNK - (core.fold_pos % CHUNK)]
        r(i) == lane[l].res[(lane[l].res_tail + i) % RES_CAP]
        vals == [i \in 1 .. n |-> r(i - 1).value]
    IN  IF \E i \in 0 .. n - 1 : r(i).span_id # s.fold_pos + i
        THEN core' = [s EXCEPT !.pc = "panic"] /\ UNCHANGED lane
        ELSE /\ core' = folded(cfg.tree, [s EXCEPT !.fold = push_values(cfg.tree, @, vals, s.fold_pos)], n)
             /\ lane' = [lane EXCEPT ![l].res_tail = @ + n]

FoldLane ==
    /\ core.pc = "fold" /\ core.fold_pos < core.next_span /\ ~inline_due(core)
    /\ lane[fold_lane(core)].res_tail # lane[fold_lane(core)].res_head
    /\ LET l == fold_lane(core)
       IN  drain_results(l, fold_cap(core, lane[l].res_head - lane[l].res_tail))
    /\ UNCHANGED <<cfg, worker, stop>>

(* Everything is folded, or the lane that is next has no result yet. finish goes *)
(* round again until everything is.                                              *)
FoldReturn ==
    /\ core.pc = "fold"
    /\ \/ core.fold_pos = core.next_span
       \/ ~inline_due(core) /\ lane[fold_lane(core)].res_tail = lane[fold_lane(core)].res_head
    /\ core' = IF core.ret # "finish" THEN [core EXCEPT !.pc = core.ret, !.ret = "idle"]
               ELSE IF core.fold_pos = core.next_span
               THEN [core EXCEPT !.pc = "idle", !.ret = "idle", !.fold = flush_all(@)] ELSE core
    /\ core' # core
    /\ UNCHANGED <<cfg, lane, worker, stop>>
-----------------------------------------------------------------------------
(* The other calls of the harness. *)

(* begin_pass; its assertion that the ring has room is the caller's duty to harvest. *)
BeginPass ==
    /\ core.pc = "idle" /\ ~core.pass_open /\ core.begun < MaxPasses /\ ~stop
    /\ next_in_ring(core.pass_head) # core.harvest_pos
    /\ core' = begin_record([core EXCEPT !.begun = @ + 1])
    /\ UNCHANGED <<cfg, lane, worker, stop>>

(* end_pass: publish what is pending, close the record, complete what is folded. *)
EndPass ==
    /\ core.pc = "idle" /\ core.pass_open /\ ~stop
    /\ core' = complete_boundaries(cfg.tree, end_record(flush_sink(core)))
    /\ lane' = flush_lane(core)
    /\ UNCHANGED <<cfg, worker, stop>>

(* drain_ready *)
DrainReady ==
    /\ core.pc = "idle" /\ core.fold_pos < core.next_span /\ ~stop
    /\ core' = [complete_boundaries(cfg.tree, core) EXCEPT !.pc = "fold", !.ret = "idle"]
    /\ UNCHANGED <<cfg, lane, worker, stop>>

(* finish: publish what is pending and fold until nothing is left. *)
Finish ==
    /\ core.pc = "idle" /\ (core.fold_pos < core.next_span \/ core.fold.journal # <<>>) /\ ~stop
    /\ core' = [complete_boundaries(cfg.tree, flush_sink(core)) EXCEPT !.pc = "fold", !.ret = "finish"]
    /\ lane' = flush_lane(core)
    /\ UNCHANGED <<cfg, worker, stop>>

(* harvest_completed, one record. *)
Harvest ==
    /\ core.pc = "idle" /\ core.harvest_pos # core.pass_head /\ core.passes[core.harvest_pos].done
    /\ core' = [core EXCEPT !.harvest_pos = next_in_ring(@)]
    /\ UNCHANGED <<cfg, lane, worker, stop>>

(* reset, after a finish: the sink starts over, the rings go on where they are. *)
Reset ==
    /\ core.pc = "idle" /\ core.resets < MaxResets /\ ~core.pass_open /\ core.spans > 0 /\ ~stop
    /\ core.fold_pos = core.next_span /\ core.pending_len = 0
    /\ core' = [FreshSink EXCEPT !.resets = core.resets + 1, !.spans = core.spans, !.begun = core.begun]
    /\ UNCHANGED <<cfg, lane, worker, stop>>

(* Drop of the fabric. *)
Drop ==
    /\ core.pc = "idle" /\ ~stop
    /\ stop' = TRUE
    /\ UNCHANGED <<cfg, core, lane, worker>>
-----------------------------------------------------------------------------
(* lane_worker. *)

(* Room for the results of the batch, a chunk kept back. *)
res_room(l) == worker[l].rhead - lane[l].res_tail + worker[l].n <= RES_CAP - CHUNK

(* The worker numbers its spans from the last anchor; a descriptor without anchors *)
(* carries its number.                                                             *)
evaluated(words, cur) ==
    FoldLeft(LAMBDA a, w :
        IF w.kind = "anchor" THEN [a EXCEPT !.cur_span = w.id]
        ELSE [res |-> Append(a.res, [span_id |-> IF cfg.desc8 THEN a.cur_span ELSE w.id, value |-> w.id]),
              cur_span |-> a.cur_span + 1],
        [res |-> <<>>, cur_span |-> cur], words)

(* The head is loaded and a batch taken. *)
WorkerTake(l) ==
    /\ worker[l].pc = "poll" /\ lane[l].desc_head # worker[l].tail
    /\ worker' = [worker EXCEPT ![l].n = Min({lane[l].desc_head - worker[l].tail, BATCH}), ![l].pc = "gate"]
    /\ UNCHANGED <<cfg, core, lane, stop>>

(* mutant of WorkerExit: the wait for room does not look at the flag *)
WorkerExit_idle(l) ==
    /\ stop
    /\ worker[l].pc = "poll" /\ lane[l].desc_head = worker[l].tail
    /\ worker' = [worker EXCEPT ![l].pc = "gone"]
    /\ UNCHANGED <<cfg, core, lane, stop>>

(* The flag is up: a worker ends when it has nothing to do, or no room. *)
WorkerExit(l) ==
    /\ stop
    /\ \/ worker[l].pc = "poll" /\ lane[l].desc_head = worker[l].tail
       \/ worker[l].pc = "gate" /\ ~res_room(l)
    /\ worker' = [worker EXCEPT ![l].pc = "gone"]
    /\ UNCHANGED <<cfg, core, lane, stop>>

(* The batch: anchors set the span number, spans are evaluated and their results *)
(* written behind the published ones.                                            *)
WorkerEval(l) ==
    /\ worker[l].pc = "gate" /\ res_room(l)
    /\ LET word(i) == lane[l].desc[(worker[l].tail + i) % DESC_CAP]
           out == evaluated([i \in 1 .. worker[l].n |-> word(i - 1)], worker[l].cur_span)
           at(i) == (worker[l].rhead + i - 1) % RES_CAP
       IN  /\ worker' = [worker EXCEPT ![l].pc = "result", ![l].nres = Len(out.res), ![l].cur_span = out.cur_span]
           /\ lane' = [lane EXCEPT ![l].res = [p \in 0 .. RES_CAP - 1 |->
                  IF \E i \in DOMAIN out.res : at(i) = p
                  THEN out.res[CHOOSE i \in DOMAIN out.res : at(i) = p] ELSE @[p]]]
    /\ UNCHANGED <<cfg, core, stop>>

WorkerPublish(l) ==
    /\ worker[l].pc = "result"
    /\ lane' = [lane EXCEPT ![l].res_head = worker[l].rhead + worker[l].nres]
    /\ worker' = [worker EXCEPT ![l].pc = "free", ![l].rhead = @ + worker[l].nres]
    /\ UNCHANGED <<cfg, core, stop>>

WorkerFree(l) ==
    /\ worker[l].pc = "free"
    /\ lane' = [lane EXCEPT ![l].desc_tail = worker[l].tail + worker[l].n]
    /\ worker' = [worker EXCEPT ![l].pc = "poll", ![l].tail = @ + worker[l].n]
    /\ UNCHANGED <<cfg, core, stop>>
-----------------------------------------------------------------------------
Core ==
    \/ SubmitOpen \/ SubmitAssist \/ SubmitLane \/ OpenWait
    \/ FoldInline \/ FoldLane \/ FoldReturn
    \/ BeginPass \/ EndPass \/ DrainReady \/ Finish \/ Harvest \/ Reset \/ Drop

Worker(l) == WorkerTake(l) \/ WorkerExit(l) \/ WorkerEval(l) \/ WorkerPublish(l) \/ WorkerFree(l)

Next == Core \/ \E l \in Lanes : Worker(l)

Spec == Init /\ [][Next]_vars

(* Inside a call the core runs on, and every worker is a thread of its own. The *)
(* fairness is weak, of the next step of each, with the guards written out:     *)
(* inside a call only a finish that waits for a result has no step.             *)
CoreCanStep ==
    \/ core.pc = "claim"
    \/ core.pc = "fold" /\ (core.ret # "finish" \/ core.fold_pos = core.next_span \/ inline_due(core)
                              \/ lane[fold_lane(core)].res_tail # lane[fold_lane(core)].res_head)

WorkerCanStep(l) ==
    /\ worker[l].pc # "gone"
    /\ worker[l].pc = "poll" => lane[l].desc_head # worker[l].tail
    /\ worker[l].pc = "gate" => res_room(l)

FairSpec ==
    /\ Spec
    /\ []<>~CoreCanStep \/ []<><<core' # core>>_vars
    /\ \A l \in Lanes : /\ []<>~WorkerCanStep(l) \/ []<><<worker'[l] # worker[l]>>_vars
                        /\ WF_vars(WorkerExit(l))
-----------------------------------------------------------------------------
Run(a, b) == [i \in 1 .. b - a |-> a + i - 1]

(* Bit parity (H3): whatever the workers' speed, the assist and the journal do, *)
(* the hash of a completed pass is the fold of exactly its own spans in order.  *)
PassParity ==
    \A i \in DOMAIN core.passes :
        LET rec == core.passes[i] IN rec.done => rec.hash = Run(rec.start, rec.end_span)

(* The results a worker has written and not published. *)
unpublished(l) == IF worker[l].pc = "result" THEN worker[l].nres ELSE 0

(* No ring overruns, counting the results that are written and not yet published, *)
(* and the fold-order assertion of fold_available never fires: routing, caps and   *)
(* the two kinds of chunks agree on which lane holds the next span.                *)
RingsHold ==
    /\ core.pc # "panic"
    /\ \A l \in Lanes : /\ lane[l].desc_head - lane[l].desc_tail \in 0 .. DESC_CAP
                        /\ worker[l].rhead + unpublished(l) - lane[l].res_tail \in 0 .. RES_CAP

(* No result is lost: a call that waits for workers (a chunk to open, a finish) *)
(* returns, while the threads are scheduled.                                    *)
CallsReturn == (core.pc # "idle" /\ ~stop) ~> (core.pc = "idle")

(* Drop joins every worker, also one that waits for room for its results. *)
DropJoins == stop ~> \A l \in Lanes : worker[l].pc = "gone"
=============================================================================
