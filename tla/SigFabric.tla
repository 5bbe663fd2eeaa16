----------------------------- MODULE SigFabric -----------------------------
(***************************************************************************)
(* The signal fabric (sigfabric.rs, lobstate.rs): the ledger's rows give   *)
(* the tape, each message's token goes to the table of its locate, chunks  *)
(* of a table fold to signatures, signatures apply to book states, and the *)
(* replays recompute the digest from the signatures alone. The digest is   *)
(* the set of what it mixes. Tokens are given here; SigResolve has them.   *)
(***************************************************************************)
EXTENDS CrcFold

CONSTANTS Packets,          \* the packets' messages, see MCSigFabric
          SigChunk, SigLanes, SigVecMin,
          WideLanes, WideMin,   \* locates of a vector group, and when
          MaxMessages, MaxDuplicates

VARIABLES sent,             \* the session's packets: [first, msgs]
          rows              \* the ledger, in arrival order

vars == <<sent, rows>>

(* mutant of fresh_row: no row is taken for a duplicate *)
fresh_row_all(first_seq, w) == TRUE

(* bake_from_ledger: a packet that starts below the cursor is a duplicate. *)
fresh_row(first_seq, w) == first_seq >= w

bake_from_ledger(rs) ==
    FoldLeft(LAMBDA s, r :
                LET w == IF s.w = 0 THEN r.first ELSE s.w
                IN IF fresh_row(r.first, w) THEN [w |-> w + Len(r.msgs), bodies |-> Append(s.bodies, r.msgs)]
                   ELSE [s EXCEPT !.w = w],
             [w |-> 0, bodies |-> <<>>], rs).bodies
-----------------------------------------------------------------------------
(* The signature monoid: sums, and the price with the highest sequence.      *)
SIG_IDENTITY == [db |-> 0, da |-> 0, px |-> 0, seq |-> 0]

sig_combine(x, y) ==
    LET use_y == y.seq > x.seq
    IN [db |-> x.db + y.db, da |-> x.da + y.da,
        px |-> IF use_y THEN y.px ELSE x.px, seq |-> IF use_y THEN y.seq ELSE x.seq]

sig_fold_scalar(acc, toks) == FoldLeft(sig_combine, acc, toks)

(* The sums run over the full vectors; the prices are compared lane by lane, *)
(* the lanes and then the tail in order.                                     *)
sig_fold_avx512(toks) ==
    LET n == Len(toks)
        nv == n - (n % SigLanes)
        lane(l) == sig_fold_scalar(SIG_IDENTITY, [i \in 1..(nv \div SigLanes) |-> toks[(i - 1) * SigLanes + l]])
        keys == [l \in 1..SigLanes |-> [lane(l) EXCEPT !.db = 0, !.da = 0]]
        sums == [db |-> Total([i \in 1..nv |-> toks[i].db]), da |-> Total([i \in 1..nv |-> toks[i].da]),
                 px |-> 0, seq |-> 0]
    IN sig_fold_scalar(sig_fold_scalar(sums, keys), SubSeq(toks, nv + 1, n))

sig_fold(toks) ==
    IF Len(toks) >= SigVecMin THEN sig_fold_avx512(toks) ELSE sig_fold_scalar(SIG_IDENTITY, toks)

sig_chunk_signatures(toks) == [k \in DOMAIN Chunks(toks, SigChunk) |-> sig_fold(Chunks(toks, SigChunk)[k])]

Lob3_default == [b |-> 0, a |-> 0, p |-> 0]

lob3_apply(s, g) == [b |-> s.b + g.db, a |-> s.a + g.da, p |-> IF g.seq # 0 THEN g.px ELSE s.p]
-----------------------------------------------------------------------------
(* The tape with its positions; a token's sequence is the position of a      *)
(* message that trades, and 0 of another.                                    *)
Tape(bodies) == LET ms == FlattenSeq(bodies) IN [i \in DOMAIN ms |-> ms[i] @@ [pos |-> i]]

token(m) == [db |-> m.db, da |-> m.da, px |-> IF m.set THEN m.px ELSE 0, seq |-> IF m.set THEN m.pos ELSE 0]

(* Locates are numbered in the order they first appear. *)
locate_ids(ms) == FoldLeft(LAMBDA s, m : IF Contains(s, m.loc) THEN s ELSE Append(s, m.loc), <<>>, ms)

tokens_of(ms, loc) ==
    LET mine == SelectSeq(ms, LAMBDA m : m.loc = loc) IN [i \in DOMAIN mine |-> token(mine[i])]

Digest(gls, states, g_all) ==
    [mixes |-> {<<l, gls[l], states[l]>> : l \in DOMAIN gls}, seq |-> g_all.seq]

(* The records composed by halves, for the merge at replay. *)
early(recs) == compose_records(SubSeq(recs, 1, Len(recs) \div 2))

late(recs) == compose_records(SubSeq(recs, (Len(recs) \div 2) + 1, Len(recs)))

(* bake_sig_fabric: the global signatures run over the tables of all locates *)
(* laid end to end, the span records over the tape.                          *)
baked(ms, locs, sigs, recs) ==
    LET table == FlattenSeq([l \in DOMAIN locs |-> tokens_of(ms, locs[l])])
        states == [l \in DOMAIN locs |-> FoldLeft(lob3_apply, Lob3_default, sigs[l])]
        gls == [l \in DOMAIN locs |-> sig_fold_scalar(SIG_IDENTITY, sigs[l])]
    IN [ms |-> ms, locs |-> locs, sigs |-> sigs, states |-> states,
        digest |-> Digest(gls, states, sig_fold_scalar(SIG_IDENTITY, gls)),
        global_sigs |-> sig_chunk_signatures(table),
        span_recs |-> recs, span_p64 |-> compose_records(recs),
        span_h_early |-> hash_apply_p64({}, early(recs)),
        span_h_late |-> late(recs).v, span_w_late |-> late(recs).deg]

baked_tables(ms, locs) ==
    baked(ms, locs, [l \in DOMAIN locs |-> sig_chunk_signatures(tokens_of(ms, locs[l]))], span_records(ms))

bake_tape(ms) == baked_tables(ms, locate_ids(ms))

bake_sig_fabric(bodies) == bake_tape(Tape(bodies))

replay_global(f) == sig_fold_scalar(SIG_IDENTITY, f.global_sigs)

(* One locate of a replay: its signatures combined, and applied. *)
replay_locate(sigs) == <<sig_fold_scalar(SIG_IDENTITY, sigs), FoldLeft(lob3_apply, Lob3_default, sigs)>>

(* In a vector group of locates with one signature each, that signature is   *)
(* the combination and the state is read off it.                             *)
replay_single(g) == <<g, [b |-> g.db, a |-> g.da, p |-> IF g.seq # 0 THEN g.px ELSE 0]>>

WideGroup(l) == ((l - 1) \div WideLanes) * WideLanes + 1

(* mutant of wide: a group is taken by vector whatever its locates hold *)
wide_any(sigs, l) == Len(sigs) >= WideMin /\ WideGroup(l) + WideLanes - 1 <= Len(sigs)

(* The locates of a full group go by vector when none has a second signature. *)
wide(sigs, l) ==
    /\ Len(sigs) >= WideMin
    /\ WideGroup(l) + WideLanes - 1 <= Len(sigs)
    /\ \A k \in WideGroup(l)..(WideGroup(l) + WideLanes - 1) : Len(sigs[k]) = 1

replay_sig_fabric(f) ==
    LET nl == Len(f.sigs)
        r == [l \in 1..nl |-> IF wide(f.sigs, l) THEN replay_single(f.sigs[l][1]) ELSE replay_locate(f.sigs[l])]
        gls == [l \in 1..nl |-> r[l][1]]
        g_all == sig_fold_scalar(SIG_IDENTITY, gls)
    IN [digest |-> Digest(gls, [l \in 1..nl |-> r[l][2]], g_all), g_all |-> g_all]

span_merge_hash(f) == hash_merge(f.span_h_early, f.span_h_late, f.span_w_late)
-----------------------------------------------------------------------------
Init == sent = <<>> /\ rows = <<>>

Messages(ps) == FlattenSeq([i \in DOMAIN ps |-> ps[i].msgs])

(* The next packet of the session. *)
Arrive(ms) ==
    /\ Len(Messages(sent)) + Len(ms) <= MaxMessages
    /\ sent' = Append(sent, [first |-> Len(Messages(sent)) + 1, msgs |-> ms])
    /\ rows' = Append(rows, Last(sent'))

(* The other feed's copy of a packet, behind the first. *)
Duplicate(p) ==
    /\ Len(rows) - Len(sent) < MaxDuplicates
    /\ rows' = Append(rows, p)
    /\ UNCHANGED sent

Next ==
    \/ \E ms \in Packets : Arrive(ms)
    \/ \E i \in DOMAIN sent : Duplicate(sent[i])

Spec == Init /\ [][Next]_vars
-----------------------------------------------------------------------------
fabric == bake_sig_fabric(bake_from_ledger(rows))

(* However the ledger repeats packets and the tables are cut into chunks, a  *)
(* locate's baked state is its book after the session: what was added and    *)
(* taken on either side, and the price of its last trade.                    *)
BooksExact ==
    \A f \in {fabric} :
        LET session == Messages(sent)
            of(l) == SelectSeq(session, LAMBDA m : m.loc = f.locs[l])
            trades(l) == SelectSeq(of(l), LAMBDA m : m.set)
        IN /\ Range(f.locs) = {session[i].loc : i \in DOMAIN session}
           /\ \A l \in DOMAIN f.locs :
                 f.states[l] = [b |-> Total([i \in DOMAIN of(l) |-> of(l)[i].db]),
                                a |-> Total([i \in DOMAIN of(l) |-> of(l)[i].da]),
                                p |-> IF trades(l) = <<>> THEN 0 ELSE Last(trades(l)).px]

(* The replay of the signatures, by vector groups or locate by locate, gives *)
(* the baked digest, and its combined signature is that of the tables laid   *)
(* end to end although they are not in tape order.                           *)
FabricReplays ==
    \A f \in {fabric} : \A r \in {replay_sig_fabric(f)} : r.digest = f.digest /\ r.g_all = replay_global(f)

(* Splitting, merging and folding the records recs of the messages ms as a   *)
(* tree gives p.                                                             *)
SpanLaws(ms, recs, p) ==
    /\ \A h \in {{}, One} : fold_stream_sequential(ms, h) = [h |-> hash_apply_p64(h, p), p |-> p]
    /\ \A k \in 0..Len(recs) :
           epoch_merge_p64(P64_IDENTITY, compose_records(SubSeq(recs, 1, k)),
                           compose_records(SubSeq(recs, k + 1, Len(recs)))) = p
    /\ tree_fold_p64([k \in DOMAIN recs |-> from_r36(recs[k])]) = p
    /\ tree_fold_two_level(recs) = p
    /\ \A k \in DOMAIN recs : \A c \in {Chunks(ms, SpanChunk)[k]} :
           FoldLeft(r36_compose, R36_IDENTITY, [i \in DOMAIN c |-> fold_cols(<<c[i]>>)]) = recs[k]

(* The composed span records are the record, and give the hash, of the       *)
(* session's messages taken one by one: from any start, however a chunk and  *)
(* the stream are split, chained, folded as a tree, in two levels, or merged *)
(* from two halves; the price and its degree are those of the last setter.   *)
(* The product of the field is the remainder long division leaves, and the    *)
(* spans' CRCs are exact whichever kernel computes them.                      *)
SpanExact ==
    /\ sent = <<>> =>                \* constant formulas: one state is enough
           /\ CrcExact
           /\ \A a, b \in Gf : mulmod(a, b) = mulmod_divmod_ref(a, b)
    /\ \A f \in {fabric} :
           /\ SpanLaws(Messages(sent), f.span_recs, f.span_p64)
           /\ span_merge_hash(f) = hash_apply_p64({}, f.span_p64)

=============================================================================
