------------------------------ MODULE CrcFold ------------------------------
(***************************************************************************)
(* The span CRC (sink.rs, crcfold.rs). A body is cut into blocks of one    *)
(* word per lane; a lane's CRC runs over its words, lane 0's over the      *)
(* tail too. The kernels fold pairs of words, in one stream or several, to *)
(* a state per lane and end it. A byte is one bit, first bit first; a      *)
(* state stands for its residue modulo the CRC polynomial, so that the     *)
(* mirrored and the natural registers, and the reductions by CRC           *)
(* instructions and by Barrett, are the same operators.                    *)
(***************************************************************************)
EXTENDS SpanFold

CONSTANTS CrcK, CrcLow,         \* the polynomial x^CrcK + CrcLow (32, CRC32C)
          WordLen, Lanes,       \* bytes of a word, words of a block (8, 8)
          Octets,               \* streams of the widest kernel (8)
          FoldMinLen,           \* a shorter body is not folded (192)
          AffineUnits,          \* the powers of a unit kept (128)
          Bodies

(* The residues and what is done with them, tabulated. *)
Residues == SUBSET (0..(CrcK - 1))

xtime(c) == xor({e + 1 : e \in c \ {CrcK - 1}}, IF CrcK - 1 \in c THEN CrcLow ELSE {})

SumTable == [ab \in Residues \X Residues |-> xor(ab[1], ab[2])]

Plus(a, b) == SumTable[<<a, b>>]

(* The CRC instruction, a bit at a time: c x + b x^CrcK. *)
CrcTable == [cb \in Residues \X {0, 1} |-> xtime(IF cb[2] = 1 THEN xor(cb[1], {CrcK - 1}) ELSE cb[1])]

chain_bytes(c, bytes) == FoldLeft(LAMBDA r, b : CrcTable[<<r, b>>], c, bytes)

(* The residue of a unit, its first byte the highest: c x + b. *)
ResidueTable == [cb \in Residues \X {0, 1} |-> xor(xtime(cb[1]), IF cb[2] = 1 THEN {0} ELSE {})]

residue(bytes) == FoldLeft(LAMBDA r, b : ResidueTable[<<r, b>>], {}, bytes)

ProductTable ==
    [ab \in Residues \X Residues |->
        FoldLeft(LAMBDA c, e : Plus(xtime(c), IF e \in ab[2] THEN ab[1] ELSE {}), {}, [i \in 1..CrcK |-> CrcK - i])]

clmul_reduce_mod_vm(a, b) == ProductTable[<<a, b>>]

(* x^n: the table of unit powers and that of single bytes. *)
pow_byte == FoldLeft(LAMBDA t, k : Append(t, xtime(Last(t))), <<{0}>>, [k \in 1..(2 * WordLen) |-> k])

pow_unit == FoldLeft(LAMBDA t, k : Append(t, clmul_reduce_mod_vm(Last(t), Last(pow_byte))),
                     <<Last(pow_byte)>>, [k \in 1..(AffineUnits - 1) |-> k])

affine_span_const(n) ==
    LET k == n \div (2 * WordLen)
        r == pow_byte[(n % (2 * WordLen)) + 1]
    IN IF k = 0 THEN r ELSE clmul_reduce_mod_vm(pow_unit[k], r)

Times(v, n) == clmul_reduce_mod_vm(v, affine_span_const(n))
-----------------------------------------------------------------------------
BlockLen == Lanes * WordLen

UnitLen == 2 * WordLen

Blocks(body) == Len(body) \div BlockLen

Bytes(body, from, n) == SubSeq(body, from + 1, from + n)

word(body, b, l) == Bytes(body, b * BlockLen + l * WordLen, WordLen)

TailBytes(body) == Bytes(body, Blocks(body) * BlockLen, Len(body) % BlockLen)

(* What span_crc32c_8lane combines to one value: the lanes and the length. *)
span_crc32c_8lane(body) ==
    LET lane(l) == FoldLeft(LAMBDA c, b : chain_bytes(c, word(body, b - 1, l)), {}, [b \in 1..Blocks(body) |-> b])
    IN <<[l \in 0..(Lanes - 1) |-> IF l = 0 THEN chain_bytes(lane(0), TailBytes(body)) ELSE lane(l)], Len(body)>>
-----------------------------------------------------------------------------
Pairs(body) == Blocks(body) \div 2

(* The words of lane l in the blocks 2q and 2q + 1. *)
units_pair(body, q, l) == word(body, 2 * q, l) \o word(body, 2 * q + 1, l)

fold_step(v, unit, n) == Plus(Times(v, n * UnitLen), residue(unit))

(* The units of stream m of n, each a step over the n - 1 between. *)
stream(body, l, m, n) ==
    FoldLeft(LAMBDA v, q : fold_step(v, units_pair(body, q, l), n), {},
             SelectSeq([i \in 1..Pairs(body) |-> i - 1], LAMBDA q : q % n = m))

(* The pairs from .. to - 1 in one stream. *)
fold_on(body, l, v, from, to) ==
    FoldLeft(LAMBDA r, q : fold_step(r, units_pair(body, q, l), 1), v, [i \in 1..(to - from) |-> from + i - 1])

merge_stream(acc, v, n) == Plus(acc, Times(v, n * UnitLen))

fold_word_pairs(body) == [l \in 0..(Lanes - 1) |-> fold_on(body, l, {}, 0, Pairs(body))]

fold_word_pairs_r(body) == fold_word_pairs(body)

(* The set that does not hold the last pair is one step short. *)
fold_word_pairs_r2(body) ==
    [l \in 0..(Lanes - 1) |->
        LET a == stream(body, l, 0, 2)
            b == stream(body, l, 1, 2)
        IN IF Pairs(body) = 1 THEN a ELSE IF Pairs(body) % 2 = 0 THEN merge_stream(b, a, 1) ELSE merge_stream(a, b, 1)]

fold_word_triples(body) ==
    LET role == CASE Pairs(body) % 3 = 0 -> [far |-> 0, mid |-> 1, base |-> 2]
                  [] Pairs(body) % 3 = 1 -> [far |-> 1, mid |-> 2, base |-> 0]
                  [] OTHER -> [far |-> 2, mid |-> 0, base |-> 1]
        st(l, m) == stream(body, l, m, 3)
    IN [l \in 0..(Lanes - 1) |->
            merge_stream(merge_stream(st(l, role.base), st(l, role.far), 2), st(l, role.mid), 1)]

(* Streams that got no unit are left out. *)
MergeOffsets(body, n) ==
    LET last == Pairs(body) - 1
        base == last % n
        live == SelectSeq([i \in 1..n |-> i - 1], LAMBDA m : m # base /\ m <= last)
    IN [l \in 0..(Lanes - 1) |->
            FoldLeft(LAMBDA acc, m : merge_stream(acc, stream(body, l, m, n), (last - m) % n),
                     stream(body, l, base, n), live)]

fold_word_octets_r(body) == MergeOffsets(body, Octets)

fold_word_triples_r(body) == MergeOffsets(body, 3)

(* The arena holds the pairs' units, the even lanes' and then the odd's.     *)
transpose_arena_slot(body) ==
    [q \in 0..(Pairs(body) - 1) |->
        [even |-> [j \in 0..((Lanes \div 2) - 1) |-> units_pair(body, q, 2 * j)],
         odd |-> [j \in 0..((Lanes \div 2) - 1) |-> units_pair(body, q, 2 * j + 1)]]]

fold_word_pairs_t(arena, pairs) ==
    [l \in 0..(Lanes - 1) |->
        FoldLeft(LAMBDA v, q : fold_step(v, (IF l % 2 = 0 THEN arena[q - 1].even ELSE arena[q - 1].odd)[l \div 2], 1),
                 {}, [q \in 1..pairs |-> q])]
-----------------------------------------------------------------------------
(* A state's CRC: x^CrcK times the residue. *)
vend(v) == Times(v, CrcK)

(* Lanes but lane 0: the word of an odd last block is chained. *)
ends(body, st) ==
    [l \in 1..(Lanes - 1) |->
        IF Blocks(body) % 2 = 1 THEN chain_bytes(vend(st[l]), word(body, Blocks(body) - 1, l)) ELSE vend(st[l])]

Finished(body, st, lane0) == <<[l \in 0..(Lanes - 1) |-> IF l = 0 THEN lane0 ELSE ends(body, st)[l]], Len(body)>>

(* Lane 0 goes on with the whole units of what is left, an odd word and the  *)
(* tail's first word making one, and chains the rest.                        *)
finish_span(body, st) ==
    LET tail == TailBytes(body)
        odd == Blocks(body) % 2 = 1
        w == word(body, Blocks(body) - 1, 0)
        units(from) == [j \in 1..((Len(tail) - from) \div UnitLen) |-> Bytes(tail, from + (j - 1) * UnitLen, UnitLen)]
        extra == IF ~odd THEN units(0)
                 ELSE IF Len(tail) >= WordLen THEN <<w \o Bytes(tail, 0, WordLen)>> \o units(WordLen)
                 ELSE <<>>
        c == vend(FoldLeft(LAMBDA v, u : fold_step(v, u, 1), st[0], extra))
        r0 == (WordLen * Blocks(body) + Len(tail)) % UnitLen
    IN Finished(body, st,
                IF r0 <= Len(tail) THEN chain_bytes(c, Bytes(tail, Len(tail) - r0, r0))
                ELSE chain_bytes(chain_bytes(c, w), tail))

(* Lane 0's state moved past what is left, and each word of it to its place. *)
finish_span_r_vtail(body, st) ==
    LET odd == Blocks(body) % 2 = 1
        rest == (IF odd THEN word(body, Blocks(body) - 1, 0) ELSE <<>>) \o TailBytes(body)
        pieces == Chunks(rest, WordLen)
        after(i) == Max({0, Len(rest) - i * WordLen})
    IN Finished(body, st,
                vend(FoldLeft(LAMBDA f, i : Plus(f, Times(residue(pieces[i]), after(i))),
                              Times(st[0], Len(rest)), [i \in DOMAIN pieces |-> i])))

finish_span_r_inner(body, st) == finish_span(body, st)

(* The several streams force the composed ending; else it waits for a unit. *)
finish_span_r_inner3(body, st, vend_on, vtail, dfold) ==
    LET r == WordLen * (Blocks(body) % 2) + Len(TailBytes(body))
    IN IF vend_on /\ (vtail \/ dfold) /\ (dfold \/ r >= UnitLen) THEN finish_span_r_vtail(body, st)
       ELSE finish_span_r_inner(body, st)

Short(body) == Len(body) < FoldMinLen

span_fold_eval(body) == IF Short(body) THEN span_crc32c_8lane(body) ELSE finish_span(body, fold_word_pairs(body))

(* Two bodies side by side: the pairs both have, then the longer one's. *)
span_fold_eval2(a, b) ==
    LET common == Min({Pairs(a), Pairs(b)})
        st(body) == [l \in 0..(Lanes - 1) |-> fold_on(body, l, fold_on(body, l, {}, 0, common), common, Pairs(body))]
    IN IF Short(a) THEN <<span_crc32c_8lane(a), span_fold_eval(b)>>
       ELSE IF Short(b) THEN <<span_fold_eval(a), span_crc32c_8lane(b)>>
       ELSE <<finish_span(a, st(a)), finish_span(b, st(b))>>

span_fold_eval_tri(body) == IF Short(body) THEN span_crc32c_8lane(body) ELSE finish_span(body, fold_word_triples(body))

span_fold_eval_r_forced_o(body, vend_on, vtail, dfold, ofold) ==
    LET o == ofold /\ vend_on
        d == dfold /\ vend_on /\ ~o
        st == IF o THEN fold_word_octets_r(body) ELSE IF d THEN fold_word_pairs_r2(body) ELSE fold_word_pairs_r(body)
    IN IF Short(body) THEN span_crc32c_8lane(body)
       ELSE finish_span_r_inner3(body, st, vend_on, vtail \/ d \/ o, d \/ o)

span_fold_eval_tri_r(body, ofold) ==
    IF Short(body) THEN span_crc32c_8lane(body)
    ELSE finish_span_r_inner3(body, IF ofold THEN fold_word_octets_r(body) ELSE fold_word_triples_r(body), TRUE, TRUE, TRUE)

span_fold_eval_r_t(body, vend_on, vtail) ==
    IF Short(body) THEN span_crc32c_8lane(body)
    ELSE finish_span_r_inner3(body, fold_word_pairs_t(transpose_arena_slot(body), Pairs(body)), vend_on, vtail, FALSE)
-----------------------------------------------------------------------------
(* A span of whole blocks from the lanes at its end and at its start. *)
span_crc32c_8lane_affine_sub(cum, prefix, span_len) ==
    <<[l \in 0..(Lanes - 1) |-> Plus(cum[l], Times(prefix[l], span_len \div Lanes))], span_len>>

(* Every kernel the dispatch can choose gives the lanes' CRCs, at any length *)
(* of body: below and above the floor, with an odd block or a part of one    *)
(* left over; and a span cut at blocks is the difference of two prefixes.    *)
CrcExact ==
    \A body \in Bodies :
        LET c == span_crc32c_8lane(body)
            half == Bytes(body, 0, Len(body) \div 2)
            upto(b) == span_crc32c_8lane(Bytes(body, 0, b * BlockLen))[1]
        IN /\ span_fold_eval(body) = c
           /\ span_fold_eval2(body, half) = <<c, span_crc32c_8lane(half)>>
           /\ span_fold_eval_tri(body) = c
           /\ \A ve, vt, d, o \in BOOLEAN : span_fold_eval_r_forced_o(body, ve, vt, d, o) = c
           /\ \A o \in BOOLEAN : span_fold_eval_tri_r(body, o) = c
           /\ \A ve, vt \in BOOLEAN : span_fold_eval_r_t(body, ve, vt) = c
           /\ \A b \in 0..Blocks(body) :
                 span_crc32c_8lane_affine_sub(upto(Blocks(body)), upto(b), (Blocks(body) - b) * BlockLen)
                     = span_crc32c_8lane(Bytes(body, b * BlockLen, (Blocks(body) - b) * BlockLen))

=============================================================================
