----------------------------- MODULE Sequencer -----------------------------
(***************************************************************************)
(* The sequencer of nf-arbitrator: packets of two redundant feeds and of   *)
(* the retransmission server, in any order, with losses and duplicates,    *)
(* go in through ingest; each message comes out once, in order, as long as *)
(* nothing is missing, and recovery_intent says what to ask for.           *)
(*                                                                         *)
(* The state is one record q, the fields of struct Sequencer plus the sink *)
(* it emits to.  The handlers are operators from a record to the record    *)
(* they leave behind; an action is one call of the public interface.       *)
(*                                                                         *)
(* Times are kept as ages: progress_age is now - progress_vt, and so on,   *)
(* capped at TRIGGER (the code's three 250 us constants), the only value   *)
(* they are ever compared with.  Counters and the feed id are left out:    *)
(* nothing in the sequencer reads them.                                    *)
(***************************************************************************)
EXTENDS Window

CONSTANTS
    HWM_STAGED_THRESHOLD,   \* 512 in the code
    MAX_WIRE_REQUEST,       \* 65535 in the code
    TRIGGER,                \* 250 us, in ticks
    MaxGen                  \* bound on the generations a run goes through

ASSUME IntentAssumption ==
    /\ HWM_STAGED_THRESHOLD \in Nat \ {0}
    /\ MAX_WIRE_REQUEST \in Nat \ {0}
    /\ TRIGGER \in Nat \ {0}
    /\ MaxGen \in Nat

VARIABLE q

States == {"Init", "Contig", "Gap", "EosPersist", "Ended", "Dead"}

\* the states in which W is anchored and data is accepted
Running == {"Contig", "Gap", "EosPersist"}

Ages == 0..TRIGGER

\* Sequencer::new_unboxed, and what reanchor restores; a time of 0 is long ago
NewSequencer ==
    [w |-> 0, gen |-> 0, session |-> NoSession, state |-> "Init",
     gap_active |-> FALSE, evidence_hwm |-> 0, max_staged |-> 0,
     staged_count |-> 0, slots |-> EmptySlots, hb_seq |-> 0,
     pending_to |-> NONE, progress_age |-> TRIGGER, hb_age |-> TRIGGER,
     intent_age |-> TRIGGER, sink |-> NewSink]

-----------------------------------------------------------------------------
(* gap.rs *)

\* a gap opens when the first evidence beyond W arrives, later evidence widens it
gap_evidence(r, x) ==
    IF ~r.gap_active /\ x > r.w
    THEN [r EXCEPT !.gap_active = TRUE,
                   !.gen = @ + 1,
                   !.state = "Gap",
                   !.evidence_hwm = x,
                   !.sink = on_gap_opened(@, r.gen + 1, r.w)]
    ELSE IF r.gap_active
    THEN [r EXCEPT !.evidence_hwm = Larger(@, x)]
    ELSE r

\* mutant of check_gap_close: the gap outlives its last missing message
check_gap_close_late(r) ==
    IF r.gap_active /\ r.w > r.evidence_hwm
    THEN [r EXCEPT !.gap_active = FALSE,
                   !.state = "Contig",
                   !.evidence_hwm = 0,
                   !.sink = on_reanchored(@, r.gen, r.w)]
    ELSE r

check_gap_close(r) ==
    IF r.gap_active /\ r.w >= r.evidence_hwm
    THEN [r EXCEPT !.gap_active = FALSE,
                   !.state = "Contig",
                   !.evidence_hwm = 0,
                   !.sink = on_reanchored(@, r.gen, r.w)]
    ELSE r

-----------------------------------------------------------------------------
(* session.rs *)

\* W, progress_vt and last_intent_vt survive a session boundary
session_boundary(r, session) ==
    [r EXCEPT !.session = session,
              !.slots = IF r.staged_count # 0 THEN EmptySlots ELSE @,
              !.staged_count = 0,
              !.max_staged = 0,
              !.gap_active = FALSE,
              !.evidence_hwm = 0,
              !.hb_seq = 0,
              !.hb_age = TRIGGER,
              !.pending_to = NONE,
              !.gen = @ + 1,
              !.sink = on_session_boundary(@, r.gen + 1),
              !.state = "Init"]

session_dispatch(r, session) ==
    IF r.session = NoSession THEN [r EXCEPT !.session = session]
    ELSE IF r.session # session THEN session_boundary(r, session)
    ELSE r

handle_heartbeat(r, seq) ==
    LET heard == [r EXCEPT !.hb_seq = seq, !.hb_age = 0]
    IN  IF r.state = "Init" THEN heard
        ELSE IF r.state \in Running /\ seq > r.w THEN gap_evidence(heard, seq)
        ELSE r

end_session(r) == [r EXCEPT !.state = "Ended", !.sink = on_terminal(@)]

\* mutant of handle_eos: the announced number is not looked at
handle_eos_eager(r, announced_next) ==
    IF r.state = "Ended" THEN r ELSE end_session(r)

\* an end of session that announces more than W has reached does not end it
handle_eos(r, announced_next) ==
    IF r.state = "Ended" THEN r
    ELSE IF r.state = "Init" \/ r.w >= announced_next THEN end_session(r)
    ELSE [r EXCEPT !.state = "EosPersist"]

seal(r) ==
    IF r.state = "Dead" THEN r
    ELSE [r EXCEPT !.state = "Dead", !.sink = on_terminal(@)]

-----------------------------------------------------------------------------
(* ingest *)

anchor(r, first) ==
    IF r.state = "Init"
    THEN [r EXCEPT !.w = first, !.progress_age = 0, !.state = "Contig"]
    ELSE r

retire_pending(r) ==
    IF r.pending_to # NONE /\ r.w >= r.pending_to
    THEN [r EXCEPT !.pending_to = NONE]
    ELSE r

drain_progress(r) ==
    LET d == drain(r)
    IN  IF d.w # r.w THEN [d EXCEPT !.progress_age = 0] ELSE d

\* messages of an overlapping packet that have been emitted before; mutant: none
dup_skip_none(r, p) == 0

dup_skip(r, p) == Smaller(r.w - p.seq, p.count)

\* W after an in-order packet; mutant: W moves by the count, overlap or not
advance_by_count(r, p) == Add(r.w, p.count)

advance_to(r, p) == Add(span_last(p), 1)

\* S5, first <= W: emit the new suffix, advance W, clear, drain, close the gap.
\* A failed walk returns with its prefix emitted and W where it was.
apply_in_order(r, p) ==
    LET skip == dup_skip(r, p)
        emitted == [r EXCEPT !.sink =
                       on_msgs(@, r.gen, p.seq + skip, walk_handed(p, skip), TRUE)]
        advanced == [emitted EXCEPT !.w = advance_to(r, p), !.progress_age = 0]
        cleared == clear_slots(advanced, r.w, advanced.w)
    IN  IF walk_fails(p, skip) THEN emitted
        ELSE retire_pending(check_gap_close(drain_progress(cleared)))

staged_top(p) == span_last(p)

\* S5, first > W: open or widen the gap and stage what fits the window.
\* A failed walk returns with the gap open and its prefix staged.
apply_ahead(r, p) ==
    LET last == span_last(p)
        staged == stage(gap_evidence(r, p.seq), p.session, p.seq, walk_handed(p, 0))
        noted == [staged EXCEPT
                    !.evidence_hwm = IF last >= Add(r.w, WINDOW_SLOTS)
                                     THEN Larger(@, Add(last, 1)) ELSE @,
                    !.max_staged = Larger(@, staged_top(p))]
    IN  IF walk_fails(p, 0) THEN staged
        ELSE retire_pending(check_gap_close(drain_progress(noted)))

\* data after the end of its session, and spans that leave u64, are dropped;
\* mutant: data after the end is let in
accepts_after_end(r, p) == ~span_overflows(p)

accepts_data(r, p) == r.state # "Ended" /\ ~span_overflows(p)

\* the duplicate test of S3; mutant: it is left to the overlap rule
never_duplicate(r, p) == FALSE

is_duplicate(r, p) == r.state # "Init" /\ span_last(p) < r.w

ingest_data(r, p) ==
    LET a == anchor(r, p.seq)
    IN  IF ~accepts_data(r, p) \/ is_duplicate(r, p) THEN r
        ELSE IF p.seq <= a.w THEN apply_in_order(a, p)
        ELSE apply_ahead(a, p)

ingest(r, p) ==
    LET d == session_dispatch(r, p.session)
    IN  IF r.state = "Dead" THEN r
        ELSE IF p.count = HEARTBEAT_COUNT THEN handle_heartbeat(d, p.seq)
        ELSE IF p.count = EOS_COUNT THEN handle_eos(d, p.seq)
        ELSE ingest_data(d, p)

-----------------------------------------------------------------------------
(* intent.rs *)

\* which evidence asks for a retransmission now; NONE when none does
intent_target(r) ==
    IF \/ r.max_staged > r.w /\ r.max_staged - r.w >= HWM_STAGED_THRESHOLD
       \/ r.staged_count > 0 /\ r.progress_age >= TRIGGER
    THEN r.max_staged
    ELSE IF r.hb_seq > r.w /\ r.hb_age >= TRIGGER
    THEN r.hb_seq
    ELSE NONE

wire_cap(r, t) == Smaller(t, Add(r.w, MAX_WIRE_REQUEST))

\* a new or wider range is asked for at once, a pending one again when it is old
intent_widens(r) ==
    /\ intent_target(r) # NONE
    /\ r.pending_to = NONE \/ wire_cap(r, intent_target(r)) > r.pending_to

intent_repeats(r) ==
    /\ ~intent_widens(r)
    /\ r.pending_to # NONE
    /\ r.intent_age >= TRIGGER

intent_due(r) == intent_widens(r) \/ intent_repeats(r)

\* the state check_recovery_intent leaves when it returns Some intent;
\* the intent itself is [W, pending_to)
check_recovery_intent(r) ==
    [r EXCEPT !.pending_to = IF intent_widens(r)
                             THEN wire_cap(r, intent_target(r)) ELSE @,
              !.intent_age = 0]

-----------------------------------------------------------------------------
tick(r) ==
    [r EXCEPT !.progress_age = Smaller(@ + 1, TRIGGER),
              !.hb_age = Smaller(@ + 1, TRIGGER),
              !.intent_age = Smaller(@ + 1, TRIGGER)]

Init == q = NewSequencer

Ingest(p) ==
    /\ q.gen < MaxGen
    /\ q' = ingest(q, p)

RecoveryIntent ==
    /\ intent_due(q)
    /\ q' = check_recovery_intent(q)

\* the engine seals the sequencer when a request has been repeated too often
Seal == q' = seal(q)

\* a new pass: reanchor, with a new sink
Reanchor == q' = NewSequencer

Tick == q' = tick(q)

Next ==
    \/ \E p \in DataPackets : Ingest(p)
    \/ \E p \in Heartbeats : Ingest(p)
    \/ \E p \in EosPackets : Ingest(p)
    \/ RecoveryIntent
    \/ Seal
    \/ Reanchor
    \/ Tick

vars == <<q>>

Spec == Init /\ [][Next]_vars

-----------------------------------------------------------------------------
SequencerStates ==
    [w : U64, gen : Nat, session : Sessions \cup {NoSession}, state : States,
     gap_active : BOOLEAN, evidence_hwm : U64, max_staged : U64,
     staged_count : 0..WINDOW_SLOTS,
     slots : [0..(WINDOW_SLOTS - 1) -> Messages \cup {NoMsg}],
     hb_seq : U64, pending_to : U64 \cup {NONE},
     progress_age : Ages, hb_age : Ages, intent_age : Ages, sink : SinkStates]

\* Every field of the sequencer and of its sink has its type; in particular the
\* u32 staged_count never wraps below zero or exceeds the ring.
TypeOK == q \in SequencerStates

\* slot i holds the message of a number n of lo .. w + WINDOW_SLOTS - 1
Holds(r, i, n) == Slot(n) = i /\ r.slots[i] = Msg(r.session, n)

StagedFrom(r, lo) ==
    \A i \in Occupied(r.slots) :
        \E n \in lo..(r.w + WINDOW_SLOTS - 1) : Holds(r, i, n)

Counted(r) == r.staged_count = Cardinality(Occupied(r.slots))

\* Between two calls of ingest every staged message lies strictly ahead of W and
\* within the window, sits in the slot of its own number with the data of that
\* number in the current session, and staged_count is the number of taken slots.
W1 == StagedFrom(q, q.w + 1) /\ Counted(q)

\* No assertion of the conformance sink ever fires: generations never go back,
\* each emitted number is the successor of the one before, gap events pair up.
Conformance == ~q.sink.failed

\* The bytes emitted under a sequence number are that message's own bytes,
\* never those of an earlier message left behind in the same slot.
NoZombie == ~q.sink.corrupt

\* W and the sink agree: what comes next downstream is exactly W, so nothing is
\* skipped between the last message emitted and the first one still expected.
SinkAtWatermark ==
    q.state # "Init" /\ q.sink.last_seq # 0 => Add(q.sink.last_seq, 1) = q.w

\* While W is anchored, a gap is open exactly when there is evidence ahead of W,
\* no message is staged without an open gap, and the sink has been told of it
\* under the current generation.
GapEvidence ==
    q.state \in Running =>
        /\ q.gap_active <=> q.w < q.evidence_hwm
        /\ q.staged_count # 0 => q.gap_active
        /\ q.sink.gap_open_gen = (IF q.gap_active THEN q.gen ELSE NONE)

\* Within a session W never moves back, whatever arrives.
WMonotone ==
    [][q'.session = q.session /\ q.state # "Init" => q'.w >= q.w]_vars

\* Once a session has ended nothing of it is emitted any more, no matter what
\* data, heartbeats or repeated ends of session still arrive.
EndedIsFinal ==
    [][q.state = "Ended" /\ q'.session = q.session =>
          /\ q'.state \in {"Ended", "Dead"}
          /\ q'.sink.last_seq = q.sink.last_seq
          /\ q'.sink.last_gen = q.sink.last_gen]_vars

=============================================================================
