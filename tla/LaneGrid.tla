------------------------------ MODULE LaneGrid ------------------------------
(***************************************************************************)
(* hydra.rs: the grid that deals spans to worker lanes, CHUNK spans at a   *)
(* time, and the positions a lane derives from it.                         *)
(***************************************************************************)
EXTENDS Integers

CONSTANTS NLANES,       \* worker lanes
          CHUNK         \* spans per chunk

ASSUME GridAssumption == {NLANES, CHUNK} \subseteq Nat \ {0}

Lanes == 0 .. NLANES - 1

chunk_of(p) == p \div CHUNK

lane_of(p) == chunk_of(p) % NLANES

grid == NLANES * CHUNK

(* Chunks from the one at p to the next of lane l. *)
advance(p, l) == (l + NLANES - lane_of(p)) % NLANES

(* The first position at or after p that lane l owns. *)
lane_span_entry(p, l) ==
    IF lane_of(p) = l THEN p ELSE (chunk_of(p) + advance(p, l)) * CHUNK

(* Where lane l's work before rb ends. *)
lane_span_exit(rb, l) ==
    LET entry == lane_span_entry(rb, l)
    IN  IF entry = rb /\ rb % CHUNK # 0 THEN rb ELSE entry - (NLANES - 1) * CHUNK

(* The chunk of lane l a walk goes on in, and the position in it. *)
fallback_lo(eval, l) == (chunk_of(eval) + advance(eval, l)) * CHUNK

fallback_start(eval, l) ==
    IF eval > fallback_lo(eval, l) THEN eval ELSE fallback_lo(eval, l)

=============================================================================
