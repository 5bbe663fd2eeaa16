---------------------------- MODULE BatchIngest ----------------------------
(***************************************************************************)
(* The batched drivers of the sequencer (nf-arbitrator lib.rs              *)
(* ingest_batch, ingest_entries and ingest_entries_ladder): runs of steady *)
(* frames go through a scan that holds W, the counters and the emitted     *)
(* spans in locals and commits them when it leaves; a frame the scan does  *)
(* not cover goes, after that, through ingest_auto.  The ladder driver     *)
(* also takes whole groups of [emit, duplicate] pairs at once, when a      *)
(* kernel over their sequence numbers says that is what they are.          *)
(*                                                                         *)
(* Implements says that none of this can be seen: between any two steps    *)
(* the sequencer, once the scan's locals are committed, is where the       *)
(* classic ingest would have brought it frame by frame.                    *)
(***************************************************************************)
EXTENDS PerFrame

CONSTANTS
    baked,          \* session the publisher computed the elig bits against
    STEADY_RECS,    \* spans the scan buffers: 32 in the code
    Drivers         \* the drivers a behaviour may have: how the sink takes emissions
                    \* (emit: "msgs", "spans", "packed"), the pairs of a ladder group
                    \* (4 in the code, 0 without a kernel), and the bounds: the
                    \* frames delivered, frames in a batch, batches (rounds)

ASSUME BatchAssumption ==
    /\ baked \in Sessions
    /\ STEADY_RECS \in Nat \ {0}
    /\ \A m \in DOMAIN Drivers : LET d == Drivers[m] IN
           /\ d.emit \in {"msgs", "spans", "packed"} /\ {d.pairs, d.batch, d.rounds} \subseteq Nat
           /\ d.frames \subseteq Frames

VARIABLES
    phase,          \* "poll": the batch is filled; "ingest", "scan": a driver runs
    scan,           \* locals of steady_scan
    mode,           \* which of the drivers
    rounds

batch_vars == <<q, todo, cnt, phase, scan, mode, rounds>>

driver == Drivers[mode]

NewScan(w) == [w |-> w, buf |-> <<>>, progressed |-> FALSE, cnt |-> NewCounters]

-----------------------------------------------------------------------------
(* Entries *)

seq_of(e) == e.pkt.seq

blocks_len(e) == IF e.indexed THEN e.pkt.count ELSE 0

all_valid(e) == e.memo = blocks_len(e)

\* mutant of elig_ok: the session is left to the group's first entry
elig_ok_any_session(e) == blocks_len(e) # 0 /\ all_valid(e)

\* bit 7 of FrameEntry::elig, as the publisher computes it
elig_ok(e) == blocks_len(e) # 0 /\ all_valid(e) /\ e.pkt.session = baked

-----------------------------------------------------------------------------
(* ingest_auto: an indexed frame whose memo covers every block is applied   *)
(* without looking at its blocks again.                                     *)

trusted(e) ==
    IF all_valid(e) THEN [e.pkt EXCEPT !.good = e.pkt.count, !.err = "ok"] ELSE e.pkt

\* the span comes from the triples, so there is no overflow to check
ingest_indexed(r, e) ==
    LET p == e.pkt
        d == session_dispatch(r, p.session)
        a == anchor(d, p.seq)
    IN  IF r.state = "Dead" THEN r
        ELSE IF d.state = "Ended" \/ is_duplicate(d, p) THEN d
        ELSE IF p.seq <= a.w THEN apply_in_order(a, trusted(e))
        ELSE apply_ahead(a, p)

ingest_auto(r, e) == IF e.indexed THEN ingest_indexed(r, e) ELSE ingest(r, e.pkt)

-----------------------------------------------------------------------------
(* The span emitters *)

total(buf) == FoldLeft(LAMBDA n, b : n + b.n, 0, buf)

\* RecEmitter hands over span by span; PackedEmitter the first number and the sum
flush(k, gen, buf) ==
    IF driver.emit = "packed" /\ buf # <<>>
    THEN on_msgs(k, gen, buf[1].first, total(buf), TRUE)
    ELSE FoldLeft(LAMBDA s, b : on_msgs(s, gen, b.first, b.n, TRUE), k, buf)

\* the sink and the buffer after the span of e
emit(s, e) ==
    LET buf == Append(s.buf, [first |-> seq_of(e), n |-> blocks_len(e)])
    IN  IF driver.emit = "msgs"
        THEN [s EXCEPT !.sink = on_msgs(@, q.gen, seq_of(e), blocks_len(e), TRUE)]
        ELSE IF Len(buf) = STEADY_RECS
        THEN [s EXCEPT !.sink = flush(@, q.gen, buf), !.buf = <<>>]
        ELSE [s EXCEPT !.buf = buf]

emit_all(entries) ==
    FoldLeft(emit, [sink |-> q.sink, buf |-> scan.buf], entries)

-----------------------------------------------------------------------------
(* steady_scan *)

steady_ready(r) ==
    /\ r.session # NoSession
    /\ r.state = "Contig"
    /\ r.staged_count = 0
    /\ ~r.gap_active
    /\ r.pending_to = NONE

last_of(e) == seq_of(e) + blocks_len(e) - 1

\* steady_step: duplicate, in order, or not for the scan
step_covers(e) == blocks_len(e) # 0 /\ e.pkt.session = q.session

step_dup(e) == step_covers(e) /\ last_of(e) < scan.w

\* mutant of step_advances: a packet that begins below W is taken too
step_advances_overlap(e) ==
    /\ step_covers(e)
    /\ ~step_dup(e)
    /\ seq_of(e) <= scan.w
    /\ all_valid(e)

step_advances(e) ==
    /\ step_covers(e)
    /\ ~step_dup(e)
    /\ seq_of(e) = scan.w
    /\ all_valid(e)

\* what the scan leaves in the sequencer
committed ==
    [q EXCEPT !.w = scan.w,
              !.progress_age = IF scan.progressed THEN 0 ELSE @,
              !.sink = flush(@, q.gen, scan.buf)]

plus(c, d) ==
    [packets |-> [f \in Feeds |-> c.packets[f] + d.packets[f]],
     dups |-> [f \in Feeds |-> c.dups[f] + d.dups[f]],
     dup_msgs |-> c.dup_msgs + d.dup_msgs]

-----------------------------------------------------------------------------
(* The ladder *)

evens(entries) == [i \in 1..(Len(entries) \div 2) |-> entries[2 * i - 1]]

odds(entries) == [i \in 1..(Len(entries) \div 2) |-> entries[2 * i]]

sum_blocks(entries) == FoldLeft(LAMBDA n, e : n + blocks_len(e), 0, entries)

\* anchor, wrap guard, pair-eq, dup-le and chain over one group of pairs
ladder8(g, w) ==
    /\ seq_of(g[1]) = w
    /\ seq_of(g[1]) <= U64_MAX - sum_blocks(evens(g))
    /\ \A i \in 1..driver.pairs :
          /\ seq_of(g[2 * i]) = seq_of(g[2 * i - 1])
          /\ blocks_len(g[2 * i]) <= blocks_len(g[2 * i - 1])
    /\ \A i \in 1..(driver.pairs - 1) :
          seq_of(g[2 * i + 1]) = Add(seq_of(g[2 * i - 1]), blocks_len(g[2 * i - 1]))

\* one session gate for the group, then the elig byte and the feed of each entry
group_eligible(g) ==
    /\ g[1].pkt.session = q.session
    /\ \A i \in DOMAIN g :
          /\ elig_ok(g[i])
          /\ g[i].feed = g[IF i % 2 = 1 THEN 1 ELSE 2].feed

\* ladder_group_apply applies if one kernel agrees, ladder_group16_apply if two
\* do, the second at the W the first leads to
group_verified(n) ==
    /\ driver.pairs > 0
    /\ n * 2 * driver.pairs <= Len(todo)
    /\ LET g == SubSeq(todo, 1, n * 2 * driver.pairs)
           A == SubSeq(g, 1, 2 * driver.pairs)
           B == SubSeq(g, 2 * driver.pairs + 1, 4 * driver.pairs)
       IN  /\ ladder8(A, scan.w)
           /\ n = 2 => ladder8(B, Add(scan.w, sum_blocks(evens(A))))
           /\ group_eligible(g)

\* the widest group first, then the narrow one, then one entry
groups == IF group_verified(2) THEN 2 ELSE IF group_verified(1) THEN 1 ELSE 0

\* n packets of either feed, those of f2 duplicates of m messages
pair_counts(f1, f2, n, m) ==
    [packets |-> [f \in Feeds |-> (IF f = f1 THEN n ELSE 0) + (IF f = f2 THEN n ELSE 0)],
     dups |-> [f \in Feeds |-> IF f = f2 THEN n ELSE 0],
     dup_msgs |-> m]

-----------------------------------------------------------------------------
BatchInit ==
    /\ PerFrameInit
    /\ phase = "poll"
    /\ scan = NewScan(0)
    /\ mode \in DOMAIN Drivers
    /\ rounds = 0

Fill ==
    /\ phase = "poll" /\ rounds < driver.rounds /\ Len(todo) < driver.batch
    /\ \E e \in driver.frames : Deliver(e)
    /\ UNCHANGED <<phase, scan, mode, rounds>>

Start ==
    /\ phase = "poll" /\ todo # <<>>
    /\ phase' = "ingest"
    /\ rounds' = rounds + 1
    /\ UNCHANGED <<q, todo, cnt, scan, mode>>

Between ==
    /\ phase = "poll"
    /\ Idle
    /\ UNCHANGED <<phase, scan, mode, rounds>>

Done ==
    /\ phase = "ingest" /\ todo = <<>>
    /\ phase' = "poll"
    /\ UNCHANGED <<q, todo, cnt, scan, mode, rounds>>

\* the driver enters the scan
Enter ==
    /\ phase = "ingest" /\ todo # <<>> /\ steady_ready(q)
    /\ phase' = "scan"
    /\ scan' = NewScan(q.w)
    /\ UNCHANGED <<q, todo, cnt, mode, rounds>>

\* cold_apply of a frame met outside the scan
NotSteady ==
    /\ phase = "ingest" /\ todo # <<>> /\ ~steady_ready(q)
    /\ q' = ingest_auto(q, todo[1])
    /\ cnt' = count_frame(cnt, q, todo[1])
    /\ todo' = Tail(todo)
    /\ UNCHANGED <<phase, scan, mode, rounds>>

StepDup ==
    /\ phase = "scan" /\ todo # <<>> /\ groups = 0 /\ step_dup(todo[1])
    /\ LET e == todo[1]
       IN  scan' = [scan EXCEPT !.cnt.packets[e.feed] = @ + 1,
                                !.cnt.dups[e.feed] = @ + 1,
                                !.cnt.dup_msgs = @ + blocks_len(e)]
    /\ todo' = Tail(todo)
    /\ UNCHANGED <<q, cnt, phase, mode, rounds>>

StepAdvance ==
    /\ phase = "scan" /\ todo # <<>> /\ groups = 0 /\ step_advances(todo[1])
    /\ LET out == emit_all(<<todo[1]>>)
       IN  /\ q' = [q EXCEPT !.sink = out.sink]
           /\ scan' = [scan EXCEPT !.w = Add(last_of(todo[1]), 1),
                                   !.buf = out.buf,
                                   !.progressed = TRUE,
                                   !.cnt.packets[todo[1].feed] = @ + 1]
    /\ todo' = Tail(todo)
    /\ UNCHANGED <<cnt, phase, mode, rounds>>

\* a verified group: its even entries are emitted, its odd ones counted as
\* duplicates, all under the feeds of the first pair
StepGroup ==
    /\ phase = "scan" /\ groups > 0
    /\ LET n == groups * driver.pairs
           g == SubSeq(todo, 1, 2 * n)
           out == emit_all(evens(g))
       IN  /\ q' = [q EXCEPT !.sink = out.sink]
           /\ scan' = [scan EXCEPT !.w = Add(@, sum_blocks(evens(g))),
                                   !.buf = out.buf,
                                   !.progressed = TRUE,
                                   !.cnt = plus(@, pair_counts(g[1].feed, g[2].feed, n,
                                                               sum_blocks(odds(g))))]
           /\ todo' = SubSeq(todo, 2 * n + 1, Len(todo))
    /\ UNCHANGED <<cnt, phase, mode, rounds>>

\* the scan stops at a frame it does not cover, or at the end of the batch; what
\* it held back is committed before the frame is applied
StepCold ==
    /\ phase = "scan" /\ todo # <<>> /\ groups = 0
    /\ ~step_dup(todo[1]) /\ ~step_advances(todo[1])
    /\ q' = ingest_auto(committed, todo[1])
    /\ cnt' = count_frame(plus(cnt, scan.cnt), committed, todo[1])
    /\ todo' = Tail(todo)
    /\ phase' = "ingest"
    /\ scan' = NewScan(0)
    /\ UNCHANGED <<mode, rounds>>

ScanEnd ==
    /\ phase = "scan" /\ todo = <<>>
    /\ q' = committed
    /\ cnt' = plus(cnt, scan.cnt)
    /\ phase' = "ingest"
    /\ scan' = NewScan(0)
    /\ UNCHANGED <<todo, mode, rounds>>

BatchNext ==
    \/ Fill \/ Start \/ Between \/ Done
    \/ Enter \/ NotSteady
    \/ StepDup \/ StepAdvance \/ StepGroup
    \/ StepCold \/ ScanEnd

BatchSpec == BatchInit /\ [][BatchNext]_batch_vars

-----------------------------------------------------------------------------
\* what the sequencer would be if the scan were left now
Seen == IF phase = "scan" THEN committed ELSE q

Reference == INSTANCE PerFrame WITH q <- Seen, cnt <- plus(cnt, scan.cnt)

\* Every driver, whatever the sink wants and with or without the ladder, does to
\* the sequencer, its sink and its counters what the classic ingest does with the
\* same frames one by one.
Implements == Reference!PerFrameSpec

\* The spans a scan holds back are consecutive and end at its W, so that the first
\* number and the sum, all a packed sink gets, say which messages they are; and the
\* sink is still where the scan's first held-back span begins.
SpansConsecutive ==
    /\ \A i \in 1..(Len(scan.buf) - 1) :
          scan.buf[i + 1].first = Add(scan.buf[i].first, scan.buf[i].n)
    /\ scan.buf # <<>> =>
          /\ Add(scan.buf[1].first, total(scan.buf)) = scan.w
          /\ q.sink.last_seq # 0 => Add(q.sink.last_seq, 1) = scan.buf[1].first

=============================================================================
