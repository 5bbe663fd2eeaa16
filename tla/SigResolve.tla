----------------------------- MODULE SigResolve -----------------------------
(***************************************************************************)
(* Phase R of the signal fabric: every message of the tape becomes a token *)
(* (does it print, price, bid delta, ask delta). resolve_pull              *)
(* (sigfabric.rs) probes the table of live orders message by message;      *)
(* resolve_push (sigpush.rs) cuts the tape into batches of rows, scans     *)
(* them and carries each order's register over the boundary. Both resolve  *)
(* the same stream here, and orders is the set of live orders as it is.    *)
(* A message of another type is an empty token in both and is left out.    *)
(***************************************************************************)
EXTENDS OrderScan, OrderCache, FiniteSets

CONSTANTS Ids, Messages, ScanBMax,
          MaxMessages,      \* the length of the tape
          FreshReplace      \* a replace of a dead order names no live one

VARIABLES orders,           \* the live orders: what the table stands for
          cache,            \* resolve_pull's table
          carry,            \* resolve_push's registers at the last boundary
          batch,            \* the messages since
          pulled,           \* what resolve_pull made of them
          fed               \* messages so far

vars == <<orders, cache, carry, batch, pulled, fed>>

NoToken == [sv |-> FALSE, pv |-> 0, d0 |-> 0, d1 |-> 0]

Delta(side, d) == IF side = "S" THEN [NoToken EXCEPT !.d1 = d] ELSE [NoToken EXCEPT !.d0 = d]

Traded(tok, px) == [tok EXCEPT !.sv = TRUE, !.pv = px]
-----------------------------------------------------------------------------
(* resolve_pull: the token, the counters and the table after message m. *)
Resolved(c, tok, anomalies, clamps, zrk) ==
    [cache |-> c, tok |-> tok, n |-> <<anomalies, clamps, zrk>>]

pull_reference(c, m) ==
    LET o == probe(c, m.id)
        eff == IF m.q < o.rem THEN m.q ELSE o.rem
        clamp == IF m.q > o.rem THEN 1 ELSE 0
        tok == Delta(o.side, 0 - eff)
        after == set_rem(c, m.id, o.rem - eff)
    IN CASE m.t = "E" -> Resolved(after, Traded(tok, o.px), 0, clamp, clamp)
         [] m.t = "C" -> Resolved(after, IF m.print THEN Traded(tok, m.px) ELSE tok, 0, clamp, 0)
         [] m.t = "X" -> Resolved(after, tok, 0, clamp, 0)
         [] m.t = "D" -> Resolved(erase(c, m.id), Delta(o.side, 0 - o.rem), 0, 0, 0)
         [] m.t = "U" -> Resolved(insert(erase(c, m.id), m.new, [rem |-> m.q, px |-> m.px, side |-> o.side]),
                                  Delta(o.side, m.q - o.rem), 0, 0, 0)

resolve_pull(c, m) ==
    CASE m.t = "A" -> Resolved(insert(c, m.id, [rem |-> m.q, px |-> m.px, side |-> m.side]),
                               Delta(m.side, m.q), 0, 0, 0)
      [] m.t = "P" -> Resolved(c, Traded(NoToken, m.px), 0, 0, 0)
      [] OTHER -> IF has(c, m.id) THEN pull_reference(c, m) ELSE Resolved(c, NoToken, 1, 0, 0)
-----------------------------------------------------------------------------
(* resolve_batch: the rows of a batch are grouped by order, in the order the *)
(* ids first appear; a replace has a row in the old order's group and one in *)
(* the new order's.                                                          *)
rows_of(m) == IF m.t = "U" THEN 2 ELSE IF m.t = "P" THEN 0 ELSE 1

Mentions(b) ==
    FlattenSeq([i \in DOMAIN b |->
        IF b[i].t = "U" THEN <<[i |-> i, role |-> "UOld", id |-> b[i].id], [i |-> i, role |-> "UNew", id |-> b[i].new]>>
        ELSE IF rows_of(b[i]) = 0 THEN <<>>
        ELSE <<[i |-> i, role |-> "Ref", id |-> b[i].id]>>])

RowSpec(b) ==
    LET ms == Mentions(b)
        ids == FoldLeft(LAMBDA s, e : IF Contains(s, e.id) THEN s ELSE Append(s, e.id), <<>>, ms)
    IN FlattenSeq([k \in DOMAIN ids |-> SelectSeq(ms, LAMBDA e : e.id = ids[k])])

(* A row starts a run at the head of its group, at a birth and at a replace. *)
run_start(b, spec, j) ==
    \/ j = 1
    \/ spec[j - 1].id # spec[j].id
    \/ spec[j].role = "UNew"
    \/ spec[j].role = "Ref" /\ b[spec[j].i].t = "A"

RowOf(b, e) ==
    LET m == b[e.i] IN
    CASE e.role = "UNew" -> rowop_u_new(m.q, m.px)
      [] e.role = "UOld" -> rowop_of("D", 0, 0, 0)
      [] m.t = "A" -> rowop_of("A", m.q, m.px, IF m.side = "S" THEN 0 ELSE 1)
      [] OTHER -> rowop_of(m.t, m.q, 0, 0)

Rows(b, spec) == [j \in DOMAIN spec |-> [RowOf(b, spec[j]) EXCEPT !.f = run_start(b, spec, j)]]

emit_row(spec, i) == CHOOSE j \in DOMAIN spec : spec[j].i = i /\ spec[j].role # "UNew"

u_new_row(spec, i) == CHOOSE j \in DOMAIN spec : spec[j].i = i /\ spec[j].role = "UNew"

pre_of(rows, scanned, j) == IF j = 1 \/ rows[j].f THEN ROWOP_IDENTITY ELSE scanned[j - 1]

thread_start(rows, j) == Max({s \in 1..j : s = 1 \/ rows[s].f})

(* The register a thread starts from: that of the order replaced, the one    *)
(* carried in, or none. u_ent maps a replace's new row to its entry.         *)
ent_of(b, spec, car, t0, u_ent) ==
    LET reg == car[spec[t0].id] IN
    IF t0 \in DOMAIN u_ent THEN u_ent[t0]
    ELSE IF reg # <<>> THEN reg
    ELSE IF spec[t0].role = "Ref" /\ b[spec[t0].i].t = "A" THEN <<0, 0, 0>> ELSE <<>>

(* The entries of the replaces, in the order of the messages: the old        *)
(* order's register at the replace, none where it is absent or dead there.   *)
u_entries(b, spec, rows, scanned, car) ==
    LET add(u, i) ==
            LET d == emit_row(spec, i)
                pre == pre_of(rows, scanned, d)
                ent == ent_of(b, spec, car, thread_start(rows, d), u)
                entry == IF ~pre.dead /\ ent # <<>> THEN apply_op(ent, pre) ELSE <<>>
            IN [j \in DOMAIN u \union {u_new_row(spec, i)} |-> IF j = u_new_row(spec, i) THEN entry ELSE u[j]]
    IN FoldLeft(add, [j \in {} |-> <<>>], SelectSeq([i \in DOMAIN b |-> i], LAMBDA i : b[i].t = "U"))

(* One round over the rows: every message's token from the scanned prefix.   *)
(* A message the round finds anomalous keeps the token of the round before.  *)
Round(b, spec, rows, car) ==
    LET scanned == order_scan_dispatch(rows)
        u_ent == u_entries(b, spec, rows, scanned, car)
        entry(j) == ent_of(b, spec, car, thread_start(rows, j), u_ent)
    IN [scanned |-> scanned,
        entry |-> [j \in DOMAIN rows |-> entry(j)],
        state |-> [j \in DOMAIN rows |-> apply_op(IF entry(j) = <<>> THEN <<0, 0, 0>> ELSE entry(j),
                                                  pre_of(rows, scanned, j))],
        out |-> [i \in {i \in DOMAIN b : rows_of(b[i]) # 0 /\ b[i].t # "A"} |->
                    LET j == emit_row(spec, i)
                    IN emit(pre_of(rows, scanned, j), entry(j), b[i].t, b[i].q, b[i].px)]]

push_token(m, out, before) ==
    LET tok == [NoToken EXCEPT !.d0 = out.db, !.d1 = out.da] IN
    CASE out.ok = 0 -> before
      [] m.t = "E" -> Traded(tok, out.px)
      [] m.t = "C" /\ m.print -> Traded(tok, m.px)
      [] OTHER -> tok

push_tokens(b, r, before) ==
    [i \in DOMAIN b |->
        CASE b[i].t = "A" -> Delta(b[i].side, b[i].q)
          [] b[i].t = "P" -> Traded(NoToken, b[i].px)
          [] OTHER -> push_token(b[i], r.out[i], before[i])]

(* The registers after the batch: of every order it mentions, the state after *)
(* the last row of its group; <<>> is an order absent or dead.               *)
carry_out(spec, r, car) ==
    [id \in DOMAIN car |->
        LET mine == {j \in DOMAIN spec : spec[j].id = id}
            last == Max(mine)
        IN IF mine = {} THEN car[id]
           ELSE IF r.entry[last] = <<>> \/ r.scanned[last].dead THEN <<>>
           ELSE apply_op(r.entry[last], r.scanned[last])]

(* A row that takes more than its order has left is rewritten to leave it    *)
(* empty, once, and the batch is scanned again.                              *)
Violations(b, spec, r, rewritten) ==
    {j \in DOMAIN spec \ rewritten :
        /\ spec[j].role = "Ref"
        /\ b[spec[j].i].t \in {"E", "C", "X"}
        /\ r.out[spec[j].i].ok = 2}

(* mutant of RewriteRow: the row clears the side and the price as well *)
RewriteRow_zero(row, st) == [row EXCEPT !.m = [k \in Words |-> FALSE], !.b = <<0, 0, 0>>, !.dead = FALSE]

RewriteRow(row, st) == [row EXCEPT !.m = [k \in Words |-> FALSE], !.b = <<st[1], st[2], 0>>, !.dead = FALSE]

Banked(b, spec, r, tokens, car) ==
    [toks |-> tokens,
     n |-> <<Cardinality({i \in DOMAIN r.out : r.out[i].ok = 0}),
             Cardinality({i \in DOMAIN r.out : r.out[i].ok = 2}),
             Cardinality({i \in DOMAIN r.out : r.out[i].ok = 2 /\ b[i].t = "E"})>>,
     carry |-> carry_out(spec, r, car)]

RECURSIVE reanchor(_, _, _, _, _, _)
reanchor(b, spec, rows, rewritten, before, car) ==
    LET r == Round(b, spec, rows, car)
        tokens == push_tokens(b, r, before)
        viol == Violations(b, spec, r, rewritten)
    IN IF viol = {} THEN Banked(b, spec, r, tokens, car)
       ELSE reanchor(b, spec, [j \in DOMAIN rows |-> IF j \in viol THEN RewriteRow(rows[j], r.state[j]) ELSE rows[j]],
                     rewritten \union viol, tokens, car)

resolve_batch(b, car) ==
    LET spec == RowSpec(b)
    IN reanchor(b, spec, Rows(b, spec), {}, [i \in DOMAIN b |-> NoToken], car)
-----------------------------------------------------------------------------
Init ==
    /\ orders = [id \in {} |-> NoOrder]
    /\ cache = new_cache
    /\ carry = [id \in Ids |-> <<>>]
    /\ batch = <<>>
    /\ pulled = [toks |-> <<>>, n |-> <<0, 0, 0>>]
    /\ fed = 0

(* A message never splits over a boundary. *)
fits(b, m) == b = <<>> \/ FoldLeft(LAMBDA n, x : n + rows_of(x), rows_of(m), b) <= ScanBMax

keep(f, S) == [x \in S |-> f[x]]

(* The live orders after message m. *)
orders_after(m) ==
    LET live == DOMAIN orders
        put(f, id, ord) == [x \in DOMAIN f \union {id} |-> IF x = id THEN ord ELSE f[x]]
        less(f, id) == keep(f, DOMAIN f \ {id})
    IN CASE m.t = "A" -> put(orders, m.id, [rem |-> m.q, px |-> m.px, side |-> m.side])
         [] m.t \in {"E", "C", "X"} /\ m.id \in live -> [orders EXCEPT ![m.id].rem = Max({0, @ - m.q})]
         [] m.t = "D" -> less(orders, m.id)
         [] m.t = "U" /\ m.id \in live ->
                put(less(orders, m.id), m.new, [rem |-> m.q, px |-> m.px, side |-> orders[m.id].side])
         [] OTHER -> orders

Premise(m) == m.t = "U" /\ m.new \in DOMAIN orders => m.id \in DOMAIN orders

(* The next message of the tape, resolved by both. *)
Message(m) ==
    LET r == resolve_pull(cache, m) IN
    /\ fed < MaxMessages
    /\ FreshReplace => Premise(m)
    /\ fed' = fed + 1
    /\ cache' = r.cache
    /\ orders' = orders_after(m)
    /\ IF fits(batch, m)
       THEN /\ batch' = Append(batch, m)
            /\ pulled' = [toks |-> Append(pulled.toks, r.tok), n |-> [k \in 1..3 |-> pulled.n[k] + r.n[k]]]
            /\ UNCHANGED carry
       ELSE /\ batch' = <<m>>
            /\ pulled' = [toks |-> <<r.tok>>, n |-> r.n]
            /\ carry' = resolve_batch(batch, carry).carry

Next == \E m \in Messages : Message(m)

Spec == Init /\ [][Next]_vars
-----------------------------------------------------------------------------
(* The table holds the live orders and nothing else, each found by probe,    *)
(* whatever collided with it, was erased before it, or grew under it.        *)
CacheExact ==
    /\ \A id \in Ids : /\ has(cache, id) <=> id \in DOMAIN orders
                       /\ id \in DOMAIN orders => probe(cache, id) = orders[id]
    /\ cache.len = Cardinality(DOMAIN orders)

(* Wherever the tape ends, the scan of the open batch gives the tokens, the  *)
(* anomalies, the clamps and the zero-remainder keeps of the probes, and the *)
(* registers it hands over are the live orders of the table.  The two scans, *)
(* in place and by vector blocks, are the fold of each segment.              *)
PushPullParity ==
    LET p == resolve_batch(batch, carry)
        rows == Rows(batch, RowSpec(batch))
    IN  /\ p.toks = pulled.toks /\ p.n = pulled.n
        /\ p.carry = [id \in Ids |-> IF id \in DOMAIN orders
                                     THEN <<IF orders[id].side = "S" THEN 0 ELSE 1, orders[id].px, orders[id].rem>>
                                     ELSE <<>>]
        /\ order_scan_soa(rows) = SegmentFold(rows)
        /\ order_scan_dispatch(rows) = SegmentFold(rows)

=============================================================================
