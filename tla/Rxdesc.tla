------------------------------- MODULE Rxdesc -------------------------------
(***************************************************************************)
(* rxdesc.rs, RxdescState: what the receiving core shares with the lane    *)
(* workers in array mode. A window of spans is one array of words and one  *)
(* record that says where the window starts and which array holds it; the  *)
(* ready register says how many spans may be read. A word stands for its   *)
(* span and for the precomputed tag beside it.                             *)
(***************************************************************************)
EXTENDS Integers

CONSTANTS RX_NARR,      \* arrays
          REC_RING,     \* window records
          RX_CHUNK_CAP, \* marks of chunks the core evaluates itself
          RX_CAP        \* words per array

ASSUME RxdescAssumption == {RX_NARR, REC_RING, RX_CHUNK_CAP, RX_CAP} \subseteq Nat \ {0}

NoWord == 0

NoSlot == -1            \* u8::MAX

NewRx == [arr   |-> [s \in 0 .. RX_NARR - 1 |-> [i \in 0 .. RX_CAP - 1 |-> NoWord]],
          rec   |-> [s \in 0 .. REC_RING - 1 |-> [gen |-> 0, base |-> 0, aslot |-> 0]],
          ready |-> [gen |-> 0, spans |-> 0], marks |-> [c \in 0 .. RX_CHUNK_CAP - 1 |-> 0],
          last_slot |-> NoSlot, last_window_count |-> 0, gen |-> 0]

next_slot(rx) == IF rx.last_slot = NoSlot THEN 0 ELSE (rx.last_slot + 1) % REC_RING

publish_record(rx, slot, gen, base, aslot) ==
    [rx EXCEPT !.rec[slot] = [gen |-> gen, base |-> base, aslot |-> aslot], !.last_slot = slot]

set_last_window_count(rx, n) == [rx EXCEPT !.last_window_count = IF n < RX_CAP THEN n ELSE RX_CAP]

copy_arr(rx, from, to, n) ==
    [rx EXCEPT !.arr[to] = [i \in DOMAIN @ |-> IF i < n THEN rx.arr[from][i] ELSE @[i]]]

publish_ready(rx, gen, n) == [rx EXCEPT !.ready = [gen |-> gen, spans |-> n]]

set_arr(rx, slot, i, w) == [rx EXCEPT !.arr[slot][i] = w]

(* A mark carries its chunk, so a later chunk of the same place never matches. *)
mark_inline(rx, chunk) == [rx EXCEPT !.marks[chunk % RX_CHUNK_CAP] = chunk + 1]

is_inline(rx, chunk) == rx.marks[chunk % RX_CHUNK_CAP] = chunk + 1

clear_chunk_states(rx) == [rx EXCEPT !.marks = [c \in DOMAIN @ |-> 0]]

=============================================================================
