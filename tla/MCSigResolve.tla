---------------------------- MODULE MCSigResolve ----------------------------
EXTENDS SigResolve

Add(id, side) == [t |-> "A", id |-> id, q |-> 2, px |-> 1, side |-> side]

Take(t, id, q) == [t |-> t, id |-> id, q |-> q, px |-> 3, print |-> q = 1]

Replace(old, new) == [t |-> "U", id |-> old, new |-> new, q |-> 1, px |-> 2]

(* Two orders meet the messages of every type; a third makes the table grow. *)
MCMessages ==
    {Add(1, "B"), Add(2, "S"), Add(3, "B"), Replace(1, 2), Replace(2, 1), Replace(1, 1)}
        \union {Take("D", id, 0) : id \in {1, 2, 3}}
        \union {Take("E", 1, 1), Take("E", 1, 3), Take("E", 2, 3), Take("C", 2, 1), Take("C", 1, 3), Take("X", 2, 3)}
        \union {[t |-> "P", px |-> 1]}

(* Orders 1 and 2 collide in the last slot of four, order 3 has the first. *)
MCHash == <<7, 6, 0>>

=============================================================================
