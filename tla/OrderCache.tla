----------------------------- MODULE OrderCache -----------------------------
(***************************************************************************)
(* The open-addressing table of live orders (OrderCache, sigfabric.rs).    *)
(* An id of zero marks an empty slot; a collision takes the next slot, and *)
(* erase closes the hole by shifting back the entries it leaves reachable. *)
(* A table is a record of its slots, so that the operations are operators; *)
(* what an empty slot still holds is never read and is NoOrder here.       *)
(***************************************************************************)
EXTENDS Integers, Sequences, SequencesExt, FiniteSetsExt

CONSTANTS Hash,             \* the top HashBits bits of the multiplied id
          HashBits, CapLog2

EMPTY == 0

NoOrder == [rem |-> 0, px |-> 0, side |-> "B"]

Cap(c) == Len(c.ids)

new_cache ==
    [ids |-> [i \in 1..2^CapLog2 |-> EMPTY], ord |-> [i \in 1..2^CapLog2 |-> NoOrder],
     bits |-> CapLog2, len |-> 0]

(* Slots are numbered from 0 here and from 1 in the sequences. *)
home(c, id) == (Hash[id] \div 2^(HashBits - c.bits)) % Cap(c)

slot_of(c, id) ==
    LET at(k) == ((home(c, id) + k) % Cap(c)) + 1
    IN at(Min({k \in 0..(Cap(c) - 1) : c.ids[at(k)] \in {EMPTY, id}}))

has(c, id) == c.ids[slot_of(c, id)] = id

probe(c, id) == c.ord[slot_of(c, id)]

insert_raw(c, id, ord) ==
    LET i == slot_of(c, id)
    IN [c EXCEPT !.len = IF c.ids[i] = EMPTY THEN @ + 1 ELSE @,
                 !.ids[i] = id, !.ord[i] = ord]

load_factor_ok(c) == (c.len + 1) * 10 <= Cap(c) * 7

(* The shift of the grown table is the one of the table before it. *)
grow(c) ==
    LET wide == [ids |-> [i \in 1..(2 * Cap(c)) |-> EMPTY], ord |-> [i \in 1..(2 * Cap(c)) |-> NoOrder],
                 bits |-> CHOOSE b \in 0..HashBits : 2^b = Cap(c), len |-> 0]
    IN FoldLeft(LAMBDA w, i : IF c.ids[i] = EMPTY THEN w ELSE insert_raw(w, c.ids[i], c.ord[i]),
                wide, [i \in 1..Cap(c) |-> i])

insert(c, id, ord) == insert_raw(IF load_factor_ok(c) THEN c ELSE grow(c), id, ord)

set_rem(c, id, rem) == IF has(c, id) THEN [c EXCEPT !.ord[slot_of(c, id)].rem = rem] ELSE c

(* mutant of fills_hole: an entry at its home is shifted back too *)
fills_hole_always(hole_dist, dist) == TRUE

(* The entry at j may fill the hole unless its home lies after the hole. *)
fills_hole(hole_dist, dist) == hole_dist <= dist

erase(c, id) ==
    LET p == slot_of(c, id) - 1
        close(s, k) ==
            LET j == (p + k) % Cap(c)
                dist == (j - home(c, s.c.ids[j + 1])) % Cap(c)
            IN IF s.closed \/ s.c.ids[j + 1] = EMPTY THEN [s EXCEPT !.closed = TRUE]
               ELSE IF ~fills_hole((j - s.hole) % Cap(c), dist) THEN s
               ELSE [c |-> [s.c EXCEPT !.ids[s.hole + 1] = s.c.ids[j + 1], !.ord[s.hole + 1] = s.c.ord[j + 1],
                                       !.ids[j + 1] = EMPTY, !.ord[j + 1] = NoOrder],
                     hole |-> j, closed |-> FALSE]
    IN IF ~has(c, id) THEN c
       ELSE FoldLeft(close, [c |-> [c EXCEPT !.ids[p + 1] = EMPTY, !.ord[p + 1] = NoOrder, !.len = @ - 1], hole |-> p, closed |-> FALSE],
                     [k \in 1..(Cap(c) - 1) |-> k]).c

=============================================================================
