------------------------------ MODULE RxReplay ------------------------------
(***************************************************************************)
(* The data of the pipelined transport (pipeline.rs): the RX thread        *)
(* publishes slices of a master array of frames by reference, rewrites the *)
(* session of frames the consumer has freed for the next pass (the         *)
(* prepatch), records the schedule of its first pass and plays it back,    *)
(* and retires once the consumer serves itself from that schedule. The     *)
(* consumer ingests the slices live or from the ledger of PassReplay.      *)
(* Module Mailbox has the parking and waking left out here.                *)
(***************************************************************************)
EXTENDS PassReplay, FiniteSets, FiniteSetsExt

CONSTANTS Events,           \* the tape, an event names the region of its frame
          Configs,          \* [elision, ss, bump, abandon]: see Init
          Passes, NBUF,
          BATCH,            \* frames of a publication (ENTRY_CAP)
          GROUP,            \* publications next_group takes at most
          PREPATCH_BUDGET

VARIABLES cfg, rx, mb, master, cons, led

vars == <<cfg, rx, mb, master, cons, led>>

FROZEN == 0                 \* the session of construction
NEVER == -1
ALL == 1000                 \* usize::MAX

(* The construction of the tape. An event names the region of the blob its   *)
(* frame is rendered in; two deliveries of a packet share one; region 0 is a *)
(* tombstone, never emitted. Frame f of the master is the f-th that is.      *)
MasterEvents == SelectSeq([i \in DOMAIN Events |-> i], LAMBDA i : Events[i] # 0)

Frames == DOMAIN MasterEvents

FrameCount == Len(MasterEvents)

(* Events are numbered from 0. *)
master_evt(f) == MasterEvents[f] - 1

region(f) == Events[MasterEvents[f]]

Regions == {region(f) : f \in Frames}

(* A region may be patched after its last delivery. *)
site_event(r) == Max({master_evt(f) : f \in {g \in Frames : region(g) = r}})

patch_evts == SetToSortSeq(Regions, LAMBDA a, b : site_event(a) < site_event(b))

site_evts == [i \in DOMAIN patch_evts |-> site_event(patch_evts[i])]

master_evts == [f \in Frames |-> master_evt(f)]

event_idx(idx) == IF idx = FrameCount THEN Len(Events) ELSE IF idx = 0 THEN 0 ELSE master_evt(idx) + 1

(* How the scan delivers a frame to the sink. *)
call_kind(f) ==
    CASE f % 3 = 0 -> "event" [] f % 5 = 0 -> "span" [] f % 7 = 0 -> "spans" [] OTHER -> "packed"
-----------------------------------------------------------------------------
needed(turn) == turn \div NBUF

slot(turn) == turn % NBUF

free_for(turn) == turn >= NBUF => mb.freed[slot(turn)] >= needed(turn)

freed_itself(turn) == mb.freed[slot(turn)] >= needed(turn) + 1

publish(m, turn, start, len) ==
    [m EXCEPT !.pubs[slot(turn)] = [start |-> start, len |-> len], !.filled[slot(turn)] = turn,
              !.rx_turn = turn + 1]

(* mutant of frontier: a buffer's free count is taken for the turn in it *)
frontier_ahead(freed) ==
    Max({NEVER} \union {NBUF * freed[i] + i : i \in {j \in DOMAIN freed : freed[j] > 0}})

(* The highest turn the consumer has freed: it frees in turn order. *)
frontier(freed) ==
    Max({NEVER} \union {NBUF * (freed[i] - 1) + i : i \in {j \in DOMAIN freed : freed[j] > 0}})

(* Frames or sites from index from on, at most budget, whose event is below upto. *)
patch_end(evt, n, from, upto, budget) ==
    LET stops == {i \in from + 1 .. n : i > from + budget \/ evt[i] >= upto}
    IN  IF stops = {} THEN n ELSE Min(stops) - 1

(* prepatch_step: the blob's sites and the master's frames that lie in turns the *)
(* consumer has freed in this pass get the next pass's session.                  *)
prepatch_step(covered, floor, budget) ==
    LET t    == frontier(mb.freed)
        upto == rx.turn_evt_end[t % (2 * NBUF)]
        pp   == patch_end(site_evts, Len(patch_evts), rx.pp, upto, budget)
        mpp  == patch_end(master_evts, FrameCount, rx.mpp, upto, budget)
    IN  IF t = NEVER \/ t < floor \/ covered - t >= 2 * NBUF
        THEN [master |-> master, pp |-> rx.pp, mpp |-> rx.mpp, wrote |-> FALSE]
        ELSE [master |-> [blob  |-> [r \in Regions |-> IF \E i \in rx.pp + 1 .. pp : patch_evts[i] = r
                                                       THEN rx.pass + 1 ELSE master.blob[r]],
                          frame |-> [f \in Frames |-> IF f \in rx.mpp + 1 .. mpp
                                                      THEN rx.pass + 1 ELSE master.frame[f]]],
              pp |-> pp, mpp |-> mpp, wrote |-> TRUE]
-----------------------------------------------------------------------------
(* elision: the session never changes, so nothing is patched  *)
(* and the ledger may replay; the schedule is recorded and RX runs a pass ahead   *)
(* (prearm). ss: the consumer wants to serve itself. bump: the master is written  *)
(* by someone else, "top" between passes or "mid" within one.                     *)
Init ==
    /\ cfg \in Configs
    /\ rx = [pc |-> "top", turn |-> 0, pass |-> 0, pass_start |-> 0, idx |-> 0, pp |-> 0, mpp |-> 0,
             sched |-> IF cfg.elision THEN "rec" ELSE "off", rec |-> <<>>, si |-> 0,
             turn_evt_end |-> [t \in 0 .. 2 * NBUF - 1 |-> 0]]
    /\ mb = [freed |-> [i \in 0 .. NBUF - 1 |-> 0], filled |-> [i \in 0 .. NBUF - 1 |-> NEVER],
             pubs |-> [i \in 0 .. NBUF - 1 |-> [start |-> 0, len |-> 0]], rx_turn |-> 0, auto_pass |-> 0,
             bake_turn |-> NEVER, eos_turn |-> NEVER, table |-> <<>>, retire |-> FALSE, version |-> 0]
    /\ master = [blob |-> [r \in Regions |-> FROZEN], frame |-> [f \in Frames |-> FROZEN]]
    /\ cons = [pc |-> "wait", turn |-> 0, held |-> <<>>, j |-> 1, pass |-> 0, at_eos |-> FALSE, cap |-> NEVER,
               ss |-> FALSE, si |-> 0, w |-> 0, log |-> <<>>, bumped |-> FALSE]
    /\ led = begin_ledger_pass(NewLedger(cfg.elision))

RxUnchanged == UNCHANGED <<cfg, cons, led>>

(* RX sees the retirement at the top of its loop and wherever it waits. *)
retiring(pc) == mb.retire /\ pc \in {"top", "buf", "eos", "advance"}

RxRetire ==
    /\ retiring(rx.pc)
    /\ rx' = [rx EXCEPT !.pc = "gone"]
    /\ RxUnchanged /\ UNCHANGED <<mb, master>>

play_end == rx.sched = "play" /\ rx.si = Len(mb.table)

RxTop ==
    /\ rx.pc = "top" /\ ~mb.retire
    /\ rx' = [rx EXCEPT !.pc = IF play_end THEN "eos" ELSE "buf"]
    /\ RxUnchanged /\ UNCHANGED <<mb, master>>

(* A publication out of the recorded schedule. *)
RxPlay ==
    /\ rx.pc = "buf" /\ rx.sched = "play" /\ free_for(rx.turn)
    /\ LET row == mb.table[rx.si + 1]
       IN  mb' = publish(mb, rx.turn, row.start, row.len)
    /\ rx' = [rx EXCEPT !.pc = "top", !.turn = @ + 1, !.si = @ + 1]
    /\ RxUnchanged /\ UNCHANGED master

(* A publication of the next frames, recorded in the first pass whatever its length. *)
RxPublish ==
    /\ rx.pc = "buf" /\ rx.sched # "play" /\ free_for(rx.turn)
    /\ LET len == Min({BATCH, FrameCount - rx.idx})
           to  == rx.idx + len
       IN  /\ mb' = publish(mb, rx.turn, rx.idx, len)
           /\ rx' = [rx EXCEPT !.pc = "patch", !.idx = to,
                        !.rec = IF rx.sched = "rec" THEN Append(@, [start |-> rx.idx, len |-> len]) ELSE @,
                        !.turn_evt_end[rx.turn % (2 * NBUF)] = event_idx(to)]
    /\ RxUnchanged /\ UNCHANGED master

(* The render found the end of the tape: a publication that the last frames fill *)
(* exactly does not, and an empty one follows it.                                *)
end_seen == mb.pubs[slot(rx.turn)].len < BATCH

(* The prepatch after a publication; behind the last one comes the marker. *)
RxPatch ==
    /\ rx.pc = "patch"
    /\ LET p == prepatch_step(rx.turn, rx.pass_start, PREPATCH_BUDGET)
           r == [rx EXCEPT !.pc = IF end_seen THEN "eos" ELSE "top", !.turn = @ + 1]
       IN  IF cfg.elision THEN rx' = r /\ UNCHANGED <<mb, master>>
           ELSE /\ rx' = [r EXCEPT !.pp = p.pp, !.mpp = p.mpp]
                /\ master' = p.master
                /\ mb' = IF p.wrote THEN [mb EXCEPT !.version = @ + 1] ELSE mb
    /\ RxUnchanged

(* RX runs ahead only once the first publication of this pass is freed. *)
prearmed == cfg.elision

(* The end marker. The first time, the recorded schedule is frozen. *)
RxEos ==
    /\ rx.pc = "eos" /\ free_for(rx.turn)
    /\ (prearmed /\ rx.pass_start < rx.turn) => freed_itself(rx.pass_start)
    /\ mb' = [publish(mb, rx.turn, 0, 0) EXCEPT !.eos_turn = rx.turn,
                 !.table = IF rx.sched = "rec" THEN rx.rec ELSE @]
    /\ rx' = [rx EXCEPT !.pc = "advance", !.turn = @ + 1,
                 !.sched = IF @ = "rec" THEN "play" ELSE @,
                 !.si = IF rx.sched = "rec" THEN 0 ELSE @,
                 !.turn_evt_end[rx.turn % (2 * NBUF)] = ALL]
    /\ RxUnchanged /\ UNCHANGED master

(* Until the marker is freed the prepatch goes on without a budget. *)
RxWaitPatch ==
    /\ rx.pc = "advance" /\ ~cfg.elision /\ ~freed_itself(rx.turn - 1) /\ ~mb.retire
    /\ LET p == prepatch_step(rx.turn - 1, rx.pass_start, ALL)
       IN  /\ p.master # master \/ p.pp # rx.pp \/ p.mpp # rx.mpp
           /\ rx' = [rx EXCEPT !.pp = p.pp, !.mpp = p.mpp]
           /\ master' = p.master
           /\ mb' = [mb EXCEPT !.version = @ + 1]
    /\ RxUnchanged

(* The next pass: what is not patched yet is, then the pass is announced. *)
RxAdvance ==
    /\ rx.pc = "advance" /\ (prearmed \/ freed_itself(rx.turn - 1)) /\ ~(mb.retire /\ ~prearmed)
    /\ LET pass == rx.pass + 1
       IN  /\ rx' = [rx EXCEPT !.pc = "top", !.pass = pass, !.pass_start = rx.turn, !.idx = 0, !.pp = 0,
                               !.mpp = 0, !.si = 0]
           /\ mb' = [mb EXCEPT !.auto_pass = pass, !.bake_turn = rx.turn - 1,
                               !.version = IF cfg.elision THEN @ ELSE @ + 1]
           /\ master' = IF cfg.elision THEN master ELSE
                 [blob  |-> [r \in Regions |-> IF \E i \in rx.pp + 1 .. Len(patch_evts) : patch_evts[i] = r
                                               THEN pass ELSE master.blob[r]],
                  frame |-> [f \in Frames |-> IF f > rx.mpp THEN pass ELSE master.frame[f]]]
    /\ RxUnchanged
-----------------------------------------------------------------------------
ConsUnchanged == UNCHANGED <<cfg, rx, master>>

freed_after(turns) ==
    [i \in DOMAIN mb.freed |-> mb.freed[i] + Cardinality({k \in DOMAIN turns : slot(turns[k]) = i})]

(* next_group: what is held is freed, then as many publications as are there. *)
NextGroup ==
    /\ cons.pc = "free"
    /\ mb' = IF cons.ss THEN mb ELSE [mb EXCEPT !.freed = freed_after(cons.held)]
    /\ cons' = [cons EXCEPT !.pc = "wait", !.held = <<>>]
    /\ ConsUnchanged /\ UNCHANGED led

there(n) == \A k \in 0 .. n - 1 :
    LET t == cons.turn + k IN mb.filled[slot(t)] = t /\ (k > 0 => mb.pubs[slot(t)].len > 0)

Take ==
    /\ cons.pc = "wait" /\ ~cons.ss /\ there(1)
    /\ IF mb.pubs[slot(cons.turn)].len = 0
       THEN /\ mb' = [mb EXCEPT !.freed = freed_after(<<cons.turn>>)]
            /\ cons' = [cons EXCEPT !.pc = "end", !.turn = @ + 1, !.at_eos = TRUE]
       ELSE LET n == Max({k \in 1 .. GROUP : there(k)})
            IN  /\ cons' = [cons EXCEPT !.pc = "batch", !.held = [k \in 1 .. n |-> cons.turn + k - 1],
                                        !.turn = @ + n, !.j = 1, !.at_eos = FALSE]
                /\ UNCHANGED mb
    /\ ConsUnchanged /\ UNCHANGED led

(* The consumer serves itself from the schedule. *)
TakeSelf ==
    /\ cons.pc = "wait" /\ cons.ss
    /\ LET n == Min({GROUP, Len(mb.table) - cons.si})
       IN  cons' = IF n = 0 THEN [cons EXCEPT !.pc = "end", !.si = 0, !.at_eos = TRUE]
                   ELSE [cons EXCEPT !.pc = "batch", !.held = [k \in 1 .. n |-> cons.si + k],
                                     !.si = @ + n, !.j = 1, !.at_eos = FALSE]
    /\ ConsUnchanged /\ UNCHANGED <<mb, led>>

batch_bounds == IF cons.ss THEN mb.table[cons.held[cons.j]] ELSE mb.pubs[slot(cons.held[cons.j])]

entries == batch_bounds.start + 1 .. batch_bounds.start + batch_bounds.len

(* A live ingest of the batch: the sequencer calls the recorder frame by frame. *)
live_item(f) == IF call_kind(f) = "event" THEN Event(f) ELSE f

record_frame(d, f) ==
    CASE call_kind(f) = "event"  -> record_call(d, Event(f))
      [] call_kind(f) = "span"   -> record_call(d, Span(f))
      [] call_kind(f) = "spans"  -> record_span_batch(d, <<f>>)
      [] call_kind(f) = "packed" -> record_packed(d, f, 1, f, <<0>>)

recorded(d) ==
    FoldLeft(record_frame, d, [i \in 1 .. batch_bounds.len |-> batch_bounds.start + i])

after_batch(c, items, w) ==
    [c EXCEPT !.log = @ \o items, !.w = w, !.j = @ + 1,
              !.pc = IF c.j = Len(c.held) THEN "free" ELSE "batch"]

Replay ==
    /\ cons.pc = "batch" /\ has_template(led, cfg.elision) /\ ~master_moved(led, mb.version)
    /\ IF matches(led, batch_bounds.start, batch_bounds.len, cons.w)
       THEN /\ cons' = after_batch(cons, replayed(led), led.batches[led.idx + 1].w_out)
            /\ led' = [led EXCEPT !.idx = @ + 1]
       ELSE cons' = [cons EXCEPT !.pc = "panic"] /\ UNCHANGED led
    /\ ConsUnchanged /\ UNCHANGED mb

Live ==
    /\ cons.pc = "batch" /\ (has_template(led, cfg.elision) => master_moved(led, mb.version))
    /\ LET b == batch_bounds
           d == IF has_template(led, cfg.elision) THEN truncated(led, mb.version) ELSE led
           w == b.start + b.len
       IN  /\ led' = seal_batch(recorded(begin_record(d, mb.version, b.start, b.len, cons.w)), w)
           /\ cons' = after_batch(cons, [i \in 1 .. b.len |-> live_item(b.start + i)], w)
    /\ ConsUnchanged /\ UNCHANGED mb

(* The pass ends with the tape, or the harness abandons it. *)
PassEnd ==
    /\ cons.pc = "end" \/ (cons.pc = "free" /\ cfg.abandon)
    /\ cons.pass < Passes
    /\ led' = begin_ledger_pass(note_pass_end(led))
    /\ mb' = IF cons.ss THEN mb ELSE [mb EXCEPT !.freed = freed_after(cons.held)]
    /\ cons' = [cons EXCEPT !.pc = IF cons.ss THEN "wait" ELSE "reset", !.held = <<>>, !.pass = @ + 1,
                   !.cap = IF cons.at_eos THEN cons.turn ELSE NEVER, !.si = 0, !.log = <<>>, !.w = 0,
                   !.at_eos = FALSE]
    /\ ConsUnchanged

(* reset_pass: publications of the old pass are freed unread until RX is there. *)
arrived == mb.auto_pass >= cons.pass /\ mb.bake_turn < cons.turn

reset_cap ==
    IF cons.cap = NEVER /\ mb.eos_turn >= cons.turn THEN mb.eos_turn + 1 ELSE cons.cap

ResetFree ==
    /\ cons.pc = "reset" /\ ~arrived
    /\ LET stop == IF reset_cap = NEVER THEN mb.rx_turn ELSE Min({mb.rx_turn, reset_cap})
       IN  /\ stop > cons.turn \/ reset_cap # cons.cap
           /\ mb' = [mb EXCEPT !.freed = freed_after([k \in 1 .. Max({0, stop - cons.turn}) |-> cons.turn + k - 1])]
           /\ cons' = [cons EXCEPT !.turn = Max({@, stop}), !.cap = reset_cap]
    /\ ConsUnchanged /\ UNCHANGED led

(* mutant of takes_over: the consumer takes over and leaves RX running *)
takes_over_quietly(m) == m

takes_over(m) == [m EXCEPT !.retire = TRUE]

(* RX is there; once the schedule is frozen the consumer takes over. *)
ResetDone ==
    /\ cons.pc = "reset" /\ arrived
    /\ IF mb.auto_pass # cons.pass
       THEN cons' = [cons EXCEPT !.pc = "panic"] /\ UNCHANGED mb
       ELSE LET ss == cfg.ss /\ cfg.elision /\ mb.table # <<>>
            IN  /\ cons' = [cons EXCEPT !.pc = "wait", !.ss = ss]
                /\ mb' = IF ss THEN takes_over(mb) ELSE mb
    /\ ConsUnchanged /\ UNCHANGED led

(* The master is written behind the transport's back, once. *)
ForeignWrite ==
    /\ ~cons.bumped
    /\ \/ cfg.bump = "top" /\ cons.pc = "wait" /\ cons.log = <<>> /\ cons.held = <<>> /\ cons.pass > 0
       \/ cfg.bump = "mid" /\ cons.pc = "free" /\ cons.pass > 0
    /\ mb' = [mb EXCEPT !.version = @ + 1]
    /\ cons' = [cons EXCEPT !.bumped = TRUE]
    /\ ConsUnchanged /\ UNCHANGED led

Rx == RxRetire \/ RxTop \/ RxPlay \/ RxPublish \/ RxPatch \/ RxEos \/ RxWaitPatch \/ RxAdvance

Consumer == NextGroup \/ Take \/ TakeSelf \/ Replay \/ Live \/ PassEnd \/ ResetFree \/ ResetDone

Finished == cons.pc = "end" /\ cons.pass = Passes /\ UNCHANGED vars

Next == Rx \/ Consumer \/ ForeignWrite \/ Finished

(* Where a thread goes on by itself: elsewhere it waits for the other. *)
RxGoes ==
    \/ retiring(rx.pc)
    \/ rx.pc \in {"top", "patch"}
    \/ rx.pc = "buf" /\ free_for(rx.turn)
    \/ rx.pc = "eos" /\ free_for(rx.turn)
          /\ ((prearmed /\ rx.pass_start < rx.turn) => freed_itself(rx.pass_start))
    \/ rx.pc = "advance" /\ (prearmed \/ freed_itself(rx.turn - 1))

ConsumerGoes ==
    \/ cons.pc \in {"free", "batch"}
    \/ cons.pc = "wait" /\ (cons.ss \/ mb.filled[slot(cons.turn)] = cons.turn)
    \/ cons.pc = "end" /\ cons.pass < Passes
    \/ cons.pc = "reset" /\ (arrived \/ cons.turn < (IF reset_cap = NEVER THEN mb.rx_turn ELSE Min({mb.rx_turn, reset_cap})))

(* Two threads; neither waits but for the other. This is weak fairness of each, *)
(* with the waiting written out.                                                *)
Fairness ==
    /\ []<>~RxGoes \/ []<><<Rx>>_vars
    /\ []<>~ConsumerGoes \/ []<><<Consumer>>_vars

Spec == Init /\ [][Next]_vars /\ Fairness
-----------------------------------------------------------------------------
(* A frame the consumer holds has the session of the consumer's pass, in the master *)
(* entry and in the bytes: the prepatch never reaches a publication that is not     *)
(* freed (the safety contract of patch_range), and the advance leaves nothing stale. *)
HeldFresh ==
    cons.pc = "batch" => \A f \in entries :
        LET s == IF cfg.elision THEN FROZEN ELSE cons.pass
        IN  master.frame[f] = s /\ master.blob[region(f)] = s

(* However a batch reaches the sink, from the mailbox or self-served, live or       *)
(* replayed from fused calls, the sink has seen exactly the frames of the pass so   *)
(* far, in order, and a pass that reaches its end has seen all of them. And the     *)
(* frozen-master contract holds up: no guard of a replay, and not the pass number   *)
(* check of reset_pass, fails.                                                      *)
ReplayExact ==
    /\ cons.pc # "panic"
    /\ cons.pc # "reset" => cons.log = [f \in 1 .. cons.w |-> live_item(f)]
    /\ cons.pc = "end" => cons.w = FrameCount

(* The script the dual producer takes from a clean template: each recorded batch    *)
(* has the messages of its packed frames and the spans of all frames that are spans *)
(* (dual_script_clean, dual_batch_summary).                                         *)
ScriptExact ==
    led.clean /\ ~led.poison /\ led.idx = 0 /\ led.rec = NoRec =>
        \A i \in DOMAIN led.batches :
            LET b == led.batches[i]
                frames(kinds) == Cardinality({f \in b.start + 1 .. b.start + b.len : call_kind(f) \in kinds})
            IN  dual_batch_summary(led, i) = <<frames({"packed"}), frames({"packed", "span", "spans"})>>

(* Every pass ends, and RX is gone once the consumer serves itself, wherever RX was. *)
Completes == <>(cons.pc = "end" /\ cons.pass = Passes /\ (cons.ss => rx.pc = "gone"))

=============================================================================
