------------------------------ MODULE SpanFold ------------------------------
(***************************************************************************)
(* The span hash and its fold (spanfold.rs): a message of weight w maps the *)
(* hash h to h x^w + vd over GF(2^K); a chunk of messages is the record of *)
(* the composed map, with the sums and the last price it sets. A           *)
(* polynomial is the set of its exponents and + is symmetric difference,   *)
(* so that K, the modulus and the power tables may be small.               *)
(***************************************************************************)
EXTENDS Integers, Sequences, SequencesExt, FiniteSets, FiniteSetsExt

CONSTANTS K, QLow,          \* the modulus x^K + QLow (64, 0x1B)
          TLen,             \* the first power table's length (2^16)
          OrdFloor,         \* the powers that must differ from 1 (2^21)
          SpanChunk, SpanLanes, RunLen

Gf == SUBSET (0..(K - 1))

One == {0}

xor(a, b) == (a \ b) \union (b \ a)

clmul128_ref(a, b) ==
    {e \in 0..(2 * K - 2) : Cardinality({i \in a : e - i \in b}) % 2 = 1}

low(p) == {e \in p : e < K}

high(p) == {e - K : e \in {x \in p : x >= K}}

(* mutant of mulmod_ref: the second folding is left out *)
mulmod_ref_once(a, b) ==
    LET p == clmul128_ref(a, b) IN xor(low(p), low(clmul128_ref(high(p), QLow)))

(* Two foldings of the high half by x^K = QLow. *)
mulmod_ref(a, b) ==
    LET p == clmul128_ref(a, b)
        t == clmul128_ref(high(p), QLow)
        u == clmul128_ref(high(t), QLow)
    IN xor(xor(low(p), low(t)), low(u))

MulTable == [ab \in Gf \X Gf |-> mulmod_ref(ab[1], ab[2])]

mulmod(a, b) == MulTable[<<a, b>>]

(* The oracle: long division, from the highest exponent down. *)
mulmod_divmod_ref(a, b) ==
    FoldLeft(LAMBDA p, k : IF K + k \in p THEN xor(p, {K + k} \union {k + j : j \in QLow}) ELSE p,
             clmul128_ref(a, b), [i \in 1..K |-> K - i])
-----------------------------------------------------------------------------
(* Powers 0, 1, ... of g. *)
Powers(g, n) == FoldLeft(LAMBDA t, k : Append(t, mulmod(Last(t), g)), <<One>>, [k \in 1..(n - 1) |-> k])

t_pow == Powers({1}, TLen)

t_hi == Powers(mulmod(Last(t_pow), {1}), TLen)

(* No power of x below the floor is 1: degrees do not collide. *)
ASSUME OrdFloorHolds == \A k \in 2..OrdFloor : Powers({1}, OrdFloor)[k] # One

shift_chunk(d) == t_pow[d + 1]

shift_pow(d) ==
    IF d \div TLen = 0 THEN t_pow[d + 1] ELSE mulmod(t_hi[(d \div TLen) + 1], t_pow[(d % TLen) + 1])
-----------------------------------------------------------------------------
(* The records R36 and P64; the first finds its multiplier in the table. *)
R36_IDENTITY == [v |-> {}, db |-> 0, da |-> 0, px |-> 0, tag |-> 0, w |-> 0, cnt |-> 0, set |-> FALSE]

P64_IDENTITY == [v |-> {}, c |-> One, db |-> 0, da |-> 0, px |-> 0, tag |-> 0, deg |-> 0, cnt |-> 0, set |-> FALSE]

from_r36(r) ==
    [v |-> r.v, c |-> shift_chunk(r.w), db |-> r.db, da |-> r.da, px |-> r.px, tag |-> r.tag,
     deg |-> r.w, cnt |-> r.cnt, set |-> r.set]

(* The later record's price wins where it set one, at a degree counted from  *)
(* the start of the earlier.                                                 *)
setter(a, b, deg) == IF b.set THEN [px |-> b.px, tag |-> deg + b.tag] ELSE [px |-> a.px, tag |-> a.tag]

r36_compose(a, b) ==
    [v |-> xor(mulmod(a.v, shift_chunk(b.w)), b.v), db |-> a.db + b.db, da |-> a.da + b.da,
     px |-> setter(a, b, a.w).px, tag |-> setter(a, b, a.w).tag,
     w |-> a.w + b.w, cnt |-> a.cnt + b.cnt, set |-> a.set \/ b.set]

p64_compose(a, b) ==
    [v |-> xor(mulmod(a.v, b.c), b.v), c |-> mulmod(a.c, b.c), db |-> a.db + b.db, da |-> a.da + b.da,
     px |-> setter(a, b, a.deg).px, tag |-> setter(a, b, a.deg).tag,
     deg |-> a.deg + b.deg, cnt |-> a.cnt + b.cnt, set |-> a.set \/ b.set]

hash_apply_p64(h, r) == xor(mulmod(h, r.c), r.v)

(* Two hashes begun at zero: the earlier is moved past the later's weight. *)
hash_merge(h_early, h_late, w_late) == xor(mulmod(h_early, shift_pow(w_late)), h_late)
-----------------------------------------------------------------------------
Total(s) == FoldLeft(LAMBDA n, x : n + x, 0, s)

(* The degree behind message i of a chunk. *)
degree_after(ms, i) == Total([j \in 1..(Len(ms) - i) |-> ms[i + j].w])

fold_v_scalar(ms, from) ==
    FoldLeft(LAMBDA v, i : xor(v, mulmod(ms[i].vd, t_pow[degree_after(ms, i) + 1])),
             {}, [i \in 1..(Len(ms) - from) |-> from + i])

(* Lanes accumulate every SpanLanes-th product and are added at the end. *)
fold_v_avx512(ms) ==
    LET nv == Len(ms) - (Len(ms) % SpanLanes)
        lane(l) == FoldLeft(LAMBDA v, i : xor(v, mulmod(ms[i].vd, t_pow[degree_after(ms, i) + 1])),
                            {}, SelectSeq([i \in 1..nv |-> i], LAMBDA i : i % SpanLanes = l))
    IN xor(FoldLeft(LAMBDA v, l : xor(v, lane(l)), {}, [l \in 1..SpanLanes |-> l - 1]), fold_v_scalar(ms, nv))

Chunks(s, n) == [i \in 1..((Len(s) + n - 1) \div n) |-> SubSeq(s, (i - 1) * n + 1, Min({i * n, Len(s)}))]

fold_cols(ms) ==
    LET setters == {i \in DOMAIN ms : ms[i].set}
        w == Total([i \in DOMAIN ms |-> ms[i].w])
        last == Max(setters)
    IN [v |-> IF Len(ms) >= SpanLanes THEN fold_v_avx512(ms) ELSE fold_v_scalar(ms, 0),
        db |-> Total([i \in DOMAIN ms |-> ms[i].db]), da |-> Total([i \in DOMAIN ms |-> ms[i].da]),
        px |-> IF setters = {} THEN 0 ELSE ms[last].px,
        tag |-> IF setters = {} THEN 0 ELSE w - degree_after(ms, last),
        w |-> w, cnt |-> Len(ms), set |-> setters # {}]

span_records(ms) == [k \in DOMAIN Chunks(ms, SpanChunk) |-> fold_cols(Chunks(ms, SpanChunk)[k])]

compose_records(recs) == FoldLeft(LAMBDA acc, r : p64_compose(acc, from_r36(r)), P64_IDENTITY, recs)

(* A message at a time; v is read off the hash. *)
stream_end(e, h_in) ==
    [h |-> e.h,
     p |-> [v |-> xor(e.h, mulmod(h_in, shift_pow(e.deg))), c |-> shift_pow(e.deg), db |-> e.db, da |-> e.da,
            px |-> e.px, tag |-> e.tag, deg |-> e.deg, cnt |-> e.cnt, set |-> e.set]]

fold_stream_sequential(ms, h_in) ==
    LET step(s, m) ==
            [h |-> xor(mulmod(s.h, shift_pow(m.w)), m.vd), db |-> s.db + m.db, da |-> s.da + m.da,
             deg |-> s.deg + m.w, cnt |-> s.cnt + 1, set |-> s.set \/ m.set,
             px |-> IF m.set THEN m.px ELSE s.px, tag |-> IF m.set THEN s.deg + m.w ELSE s.tag]
    IN stream_end(FoldLeft(step, [h |-> h_in, db |-> 0, da |-> 0, deg |-> 0, cnt |-> 0, set |-> FALSE, px |-> 0, tag |-> 0],
                           ms), h_in)
-----------------------------------------------------------------------------
Strides(n) == SelectSeq([k \in 1..n |-> 2^(k - 1)], LAMBDA d : d < n)

(* The pairs of a level do not overlap, so that the vector code, which takes *)
(* four at a time, leaves what the scalar code leaves.                       *)
tree_level(r, d) ==
    [i \in DOMAIN r |-> IF (i - 1) % (2 * d) = 0 /\ i + d <= Len(r) THEN p64_compose(r[i], r[i + d]) ELSE r[i]]

tree_fold_p64(r) == IF r = <<>> THEN P64_IDENTITY ELSE FoldLeft(tree_level, r, Strides(Len(r)))[1]

tree_fold_two_level(recs) ==
    tree_fold_p64([k \in DOMAIN Chunks(recs, RunLen) |-> compose_records(Chunks(recs, RunLen)[k])])

epoch_merge_p64(s, x_first, x_second) == p64_compose(p64_compose(s, x_first), x_second)

=============================================================================
