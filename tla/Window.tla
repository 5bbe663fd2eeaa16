------------------------------- MODULE Window -------------------------------
(***************************************************************************)
(* The reorder window of the sequencer (nf-arbitrator window.rs): a ring   *)
(* of WINDOW_SLOTS slots, sequence number n in slot n % WINDOW_SLOTS.      *)
(* A slot is absent (lens[slot] = 0) or holds a message copied into the    *)
(* arena; arena bytes under a zero length are never read and not modelled. *)
(*                                                                         *)
(* The operators act on a record q with the fields slots, w, staged_count  *)
(* and max_staged (and, for drain, gen, session and sink).                 *)
(***************************************************************************)
EXTENDS ConformanceSink, FiniteSetsExt

CONSTANT WINDOW_SLOTS

ASSUME WindowAssumption ==
    /\ WINDOW_SLOTS \in Nat \ {0}
    /\ (U64_MAX + 1) % WINDOW_SLOTS = 0

NoMsg == <<NoSession, 0>>

Slot(n) == n % WINDOW_SLOTS

EmptySlots == [i \in 0..(WINDOW_SLOTS - 1) |-> NoMsg]

Occupied(slots) == {i \in 0..(WINDOW_SLOTS - 1) : slots[i] # NoMsg}

without(slots, gone) ==
    [i \in 0..(WINDOW_SLOTS - 1) |-> IF i \in gone THEN NoMsg ELSE slots[i]]

\* stage_msg over the n blocks of a packet from first on, each one behind the
\* caller's clamp seq < w + WINDOW_SLOTS; a copy already staged is replaced
stageable(q, first, n) ==
    {m \in first..(first + n - 1) :
        /\ m < Add(q.w, WINDOW_SLOTS)
        /\ m - q.w \in 1..WINDOW_SLOTS}

\* mutant of stage: a second copy of a staged message is counted again
stage_recounts(q, session, first, n) ==
    LET S == stageable(q, first, n)
        filled == {Slot(m) : m \in S}
    IN  [q EXCEPT !.slots = [i \in DOMAIN @ |->
                                IF i \in filled
                                THEN Msg(session, CHOOSE m \in S : Slot(m) = i)
                                ELSE @[i]],
                  !.staged_count = @ + Cardinality(S)]

stage(q, session, first, n) ==
    LET S == stageable(q, first, n)
        filled == {Slot(m) : m \in S}
        slots == [i \in 0..(WINDOW_SLOTS - 1) |->
                    IF i \in filled
                    THEN Msg(session, CHOOSE m \in S : Slot(m) = i)
                    ELSE q.slots[i]]
    IN  [q EXCEPT !.slots = slots,
                  !.staged_count = @ + Cardinality(filled \ Occupied(q.slots))]

\* clear_slots: the Clear-on-Advance law.  Slots of [old_w, new_w) are emptied,
\* at most one turn of the ring; the limit saturates at the end of u64.
cleared_slots(old_w, new_w) ==
    LET limit == Smaller(new_w, Smaller(old_w + WINDOW_SLOTS, U64_MAX))
    IN  {Slot(n) : n \in old_w..(limit - 1)}

\* mutant of clear_slots: the test kit's DisableClearOnAdvance
clear_slots_disabled(q, old_w, new_w) == q

clear_slots(q, old_w, new_w) ==
    LET gone == cleared_slots(old_w, new_w) \cap Occupied(q.slots)
        left == q.staged_count - Cardinality(gone)
    IN  IF q.staged_count = 0 THEN q ELSE
        [q EXCEPT !.slots = without(@, gone),
                  !.staged_count = left,
                  !.max_staged = IF left = 0 THEN 0 ELSE @]

\* drain: how many consecutive slots from w on hold a message; the loop also
\* stops when the staged count runs out
drain_len(q) ==
    Min({j \in 0..q.staged_count :
            j = q.staged_count \/ q.slots[Slot(q.w + j)] = NoMsg})

drain(q) ==
    LET n == drain_len(q)
        out == {Slot(q.w + j) : j \in 0..(n - 1)}
        genuine == \A j \in 0..(n - 1) :
                      q.slots[Slot(q.w + j)] = Msg(q.session, Add(q.w, j))
        left == q.staged_count - n
    IN  IF q.staged_count = 0 THEN q ELSE
        [q EXCEPT !.sink = on_msgs(@, q.gen, q.w, n, genuine),
                  !.slots = without(@, out),
                  !.w = Add(@, n),
                  !.staged_count = left,
                  !.max_staged = IF left = 0 THEN 0 ELSE @]

=============================================================================
