---------------------------- MODULE MCSigFabric ----------------------------
EXTENDS SigFabric

Trade(loc, px) == [loc |-> loc, w |-> 3, vd |-> {0, px}, db |-> -1, da |-> 0, px |-> px, set |-> TRUE]

Add(loc) == [loc |-> loc, w |-> 2, vd |-> {loc, 4}, db |-> 0, da |-> 2, px |-> 0, set |-> FALSE]

(* The locates make a vector group of two and one left over. *)
MCPackets ==
    {<<Trade(1, 1)>>, <<Add(1)>>, <<Add(3)>>, <<Trade(1, 3), Add(2)>>, <<Add(2), Trade(3, 4)>>}

(* Every length up to a second round of the widest kernel, two contents. *)
MCBodies ==
    {[i \in 1..n |-> IF (i * i + k * i) % 7 < 3 THEN 1 ELSE 0] : n \in 0..90, k \in {0, 3}}

=============================================================================
