----------------------------- MODULE OrderScan -----------------------------
(***************************************************************************)
(* The row operators of the push resolve (orderscan.rs): a message acts on *)
(* the register <<side, price, remaining>> of its order as a masked        *)
(* addition, a segmented scan composes the operators of a batch, and emit  *)
(* reads a message's token off the composite of what precedes it. A mask   *)
(* of all ones is TRUE; a register word is an integer (the code's 64-bit   *)
(* wrapping words are read back as signed).                                *)
(***************************************************************************)
EXTENDS Integers, Sequences, SequencesExt, FiniteSetsExt

CONSTANT VecLanes           \* rows of a vector block (8); 0 without AVX-512

Words == 1..3

ROWOP_IDENTITY == [f |-> FALSE, m |-> [k \in Words |-> TRUE], b |-> [k \in Words |-> 0], dead |-> FALSE]

rowop_compose(x, y) ==
    [f |-> x.f \/ y.f,
     m |-> [k \in Words |-> x.m[k] /\ y.m[k]],
     b |-> [k \in Words |-> (IF y.m[k] THEN x.b[k] ELSE 0) + y.b[k]],
     dead |-> x.dead \/ y.dead]

(* A run start forgets what is left of it. *)
rowop_seg(x, y) == IF y.f THEN y ELSE rowop_compose(x, y)

(* An order is born, dies, or loses q: the three shapes of a row. *)
rowop_of(act, q, px, side) ==
    CASE act = "A" -> [f |-> TRUE, m |-> [k \in Words |-> FALSE], b |-> <<side, px, q>>, dead |-> FALSE]
      [] act = "D" -> [f |-> TRUE, m |-> [k \in Words |-> FALSE], b |-> <<0, 0, 0>>, dead |-> TRUE]
      [] OTHER     -> [f |-> TRUE, m |-> [k \in Words |-> TRUE], b |-> <<0, 0, 0 - q>>, dead |-> FALSE]

(* The replacing order keeps the side that enters its thread. *)
rowop_u_new(q, px) ==
    [f |-> TRUE, m |-> <<TRUE, FALSE, FALSE>>, b |-> <<0, px, q>>, dead |-> FALSE]

apply_op(e, op) == [k \in Words |-> (IF op.m[k] THEN e[k] ELSE 0) + op.b[k]]
-----------------------------------------------------------------------------
(* The distances 1, 2, 4, ... below the length. *)
Shifts(n) == SelectSeq([k \in 1..n |-> 2^(k - 1)], LAMBDA d : d < n)

(* One level in place, from the last row down: the row at distance d is old. *)
scan_level(e, d) ==
    FoldLeft(LAMBDA s, i : [s EXCEPT ![i] = rowop_seg(s[i - d], s[i])],
             e, [k \in 1..(Len(e) - d) |-> Len(e) + 1 - k])

order_scan_soa(e) == FoldLeft(scan_level, e, Shifts(Len(e)))

(* The rows of a vector block: a full block below top, or all that is left. *)
vec_block(top, d) == IF top - d >= VecLanes THEN (top - VecLanes + 1)..top ELSE (d + 1)..top

(* A block loads both operands of all its rows before it stores; the rest of *)
(* a level, less than a block, is done row by row.                           *)
vec_level(e, d) ==
    LET step(s) ==
            LET blk == vec_block(s.top, d) IN
            [e |-> [i \in DOMAIN e |-> IF i \in blk THEN rowop_seg(s.e[i - d], s.e[i]) ELSE s.e[i]],
             top |-> Min(blk) - 1]
    IN FoldLeft(LAMBDA s, k : IF s.top > d THEN step(s) ELSE s,
                [e |-> e, top |-> Len(e)], [k \in 1..Len(e) |-> k]).e

order_scan_soa_avx512(e) == FoldLeft(vec_level, e, Shifts(Len(e)))

order_scan_dispatch(e) == IF VecLanes # 0 THEN order_scan_soa_avx512(e) ELSE order_scan_soa(e)

(* What a row's scan is: the composition of its segment up to the row. *)
SegmentFold(e) ==
    [i \in DOMAIN e |->
        LET start == CHOOSE s \in 1..i : /\ s = 1 \/ e[s].f
                                         /\ \A t \in (s + 1)..i : ~e[t].f
        IN FoldLeft(rowop_compose, e[start], SubSeq(e, start + 1, i))]
-----------------------------------------------------------------------------
(* emit: the token of a message from the composite before it and the entry  *)
(* of its thread, <<>> when the order is absent there. ok is 0 for an       *)
(* anomaly and 2 for a clamp; the delta goes to the side of the register.   *)
emit(pre, ent, act, q, px) ==
    LET anomaly == (ent = <<>> /\ \E k \in Words : pre.m[k]) \/ pre.dead
        st == apply_op(IF ent = <<>> THEN <<0, 0, 0>> ELSE ent, pre)
        rho == st[3]
        clamps == act # "U" /\ rho < q
        eff == CASE act = "U" -> q - rho
                 [] act = "D" -> 0 - rho
                 [] OTHER -> 0 - (IF clamps THEN rho ELSE q)
    IN IF anomaly THEN [ok |-> 0, db |-> 0, da |-> 0, px |-> 0]
       ELSE [ok |-> IF clamps THEN 2 ELSE 1,
             db |-> IF st[1] # 0 THEN eff ELSE 0,
             da |-> IF st[1] # 0 THEN 0 ELSE eff,
             px |-> CASE act = "E" -> st[2] [] act = "C" -> px [] OTHER -> 0]

=============================================================================
