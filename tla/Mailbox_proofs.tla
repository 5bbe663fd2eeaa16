--------------------------- MODULE Mailbox_proofs ---------------------------
(***************************************************************************)
(* What holds of the mailbox for every ring size, every length of a pass,  *)
(* every group size and any number of passes: a batch the consumer holds   *)
(* stays in its buffer, every turn is freed exactly once, each pass is     *)
(* delivered whole, and session bytes are rewritten unseen.                *)
(*                                                                         *)
(* The invariant has a parameter f, the first turn that is not freed: the  *)
(* consumer holds the turns from f up to its cursor, and the RX thread     *)
(* has published those from the cursor up to Pub.                          *)
(***************************************************************************)
EXTENDS Mailbox, Counting_proofs

RxPcs == {"top", "shut", "serve", "ack", "run", "buf", "render", "turn", "flag", "mark",
          "gate", "land", "eos_turn", "advance", "baked", "eos", "eos_load", "eos_check",
          "eos_park", "exit"}

ConsPcs == {"user", "wait", "load", "check", "park", "take", "kick", "align",
            "rp", "rp_bake", "rp_turn", "rp_free", "drop", "join", "gone"}

Entries == [pass : Int, idx : Int, len : 0..1]

\* the words and locals have their types
MbTypes ==
    [filled : [Slots -> Int], freed : [Slots -> Nat], pubs : [Slots -> Entries],
     cons_parked : BOOLEAN, cmd : {"run", "reset", "shutdown"},
     shutdown : BOOLEAN, reset_session : Nat, reset_ack_cnt : Nat,
     reset_ack_turn : Nat, rx_turn : Nat, auto_pass : Nat,
     auto_bake_turn : Int, auto_eos_turn : Int]

RxTypes ==
    [mode : Modes, pc : RxPcs, turn : Nat, pass : Nat, pos : Nat,
     pass_start_turn : Nat, served : Nat, eos : BOOLEAN, marker : BOOLEAN,
     back : {"top", "shut"}]

ConsTypes ==
    [pc : ConsPcs, on : {"filled", "ack"}, k : Nat \ {0}, turn : Nat,
     held : SUBSET Nat, resets : Nat, at_eos : BOOLEAN, flagged : BOOLEAN,
     cap : Int, ap : Nat, rt : Nat, got : Nat, drained : BOOLEAN,
     short : BOOLEAN, panic : BOOLEAN]

MailboxTypes ==
    /\ mb \in MbTypes /\ rx \in RxTypes /\ cons \in ConsTypes
    /\ seen \in [rx : BOOLEAN, cons : BOOLEAN]

\* the turns below Pub are published
Pub == IF rx.pc \in {"turn", "flag", "eos_turn"} THEN rx.turn + 1 ELSE rx.turn

\* how many of the turns below f used buffer i
Uses(f, i) == Cardinality({t \in 0..(f - 1) : Slot(t) = i})

\* the consumer is inside reset_pass; inside reset
InPass == cons.pc \in {"rp", "rp_bake", "rp_turn", "rp_free"}

InAck == InReset \/ cons.pc = "align"

\* the turns from f up to Pub are in their buffers, and no buffer before f is in use
RingAt(f) ==
    /\ cons.held = f..(cons.turn - 1)
    /\ f <= cons.turn /\ cons.turn <= Pub /\ Pub <= f + NBUF
    /\ \A i \in Slots : mb.freed[i] = Uses(f, i) /\ mb.filled[i] < Pub
    /\ \A t \in f..(Pub - 1) : mb.filled[Slot(t)] = t
    /\ rx.pc \in {"render", "gate", "land"} => rx.turn < f + NBUF
    /\ mb.rx_turn = (IF rx.pc = "flag" THEN rx.turn + 1 ELSE rx.turn)
    /\ cons.rt <= Pub
    /\ cons.pc = "take" => cons.on = "filled" /\ cons.turn < Pub
    /\ cons.pc \notin {"user", "drop", "join", "gone"} => cons.turn <= f

\* a reset is answered once, at a turn between the cursor and Pub, and no answer
\* of an earlier reset is taken for it
Handshake ==
    /\ cons.pc \in {"kick", "align"} => cons.on = "ack"
    /\ Armed =>
          /\ cons.on = "filled" /\ mb.cmd # "reset"
          /\ rx.pc \notin {"serve", "ack", "run", "eos", "eos_load", "eos_check", "eos_park"}
    /\ ~Armed =>
          /\ ~InPass /\ rx.pc \notin {"advance", "baked"}
          /\ rx.served = cons.resets \/ rx.served + 1 = cons.resets
          /\ ~InReset => rx.served = cons.resets
    /\ rx.pc = "ack" =>
          rx.served = cons.resets /\ mb.reset_ack_cnt + 1 = rx.served /\ InReset
    /\ rx.pc # "ack" => mb.reset_ack_cnt = rx.served
    /\ mb.cmd = "reset" /\ rx.pc \notin {"ack", "run"} =>
          rx.served + 1 = cons.resets /\ InReset
    /\ rx.pc = "serve" => mb.cmd = "reset"
    /\ InAck /\ rx.served = cons.resets =>
          cons.turn <= mb.reset_ack_turn /\ mb.reset_ack_turn <= Pub
    /\ InReset => mb.reset_session = cons.resets

\* the first turn of the pass
From == IF Armed THEN rx.pass_start_turn ELSE mb.reset_ack_turn

\* how far the RX thread is in its pass
Progress ==
    /\ From <= Pub /\ Pub <= From + last_pub + 1
    /\ rx.pc \in {"top", "shut", "buf", "render"} => Pub = From + rx.pos /\ rx.pos < last_pub
    /\ rx.pc \in {"turn", "flag"} /\ ~rx.marker =>
          Pub = From + rx.pos /\ rx.pos <= last_pub /\ (rx.eos <=> rx.pos = last_pub)
    /\ rx.pc \in {"mark", "gate", "land"} => Pub = From + last_pub
    /\ rx.pc \in {"turn", "flag"} /\ rx.marker => Pub = From + last_pub + 1
    /\ rx.pc \in {"eos_turn", "advance", "eos", "eos_load", "eos_check", "eos_park"} =>
          Pub = From + last_pub + 1
    /\ rx.pc = "eos_turn" => rx.marker
    /\ rx.pc \in {"ack", "run", "baked"} => Pub = From /\ rx.pos = 0

\* buffer of turn t, in a pass p that starts at turn s
Is(t, p, s) ==
    IF t - s < Chunks THEN mb.pubs[Slot(t)] = [pass |-> p, idx |-> t - s, len |-> 1]
    ELSE mb.pubs[Slot(t)].len = 0

\* what is published and not freed belongs to the pass of the RX thread or, armed, to
\* the one before
Contents(f) ==
    \A t \in f..(Pub - 1) :
       /\ t >= From => Is(t, rx.pass, From)
       /\ Armed /\ t < From => Is(t, rx.pass - 1, From - (last_pub + 1))

\* what the auto words say, and how far the armed advance may run ahead of f
Baking(f) ==
    Armed =>
       /\ f + last_pub + 1 >= From
       /\ ~Prearm => f >= From
       /\ Prearm /\ (Pub = From + last_pub + 1 \/ rx.pc = "land") => f > From
       /\ mb.auto_bake_turn = From - 1
       /\ mb.auto_pass = (IF rx.pc = "baked" THEN rx.pass - 1 ELSE rx.pass)
       /\ mb.auto_eos_turn = (IF Pub = From + last_pub + 1 /\ rx.pc # "eos_turn"
                              THEN From + last_pub ELSE From - 1)

\* first turn of the pass the consumer reads
Base == IF cons.resets = rx.pass THEN From ELSE From - (last_pub + 1)

\* the consumer is where it should be in the pass it asked for
Delivered ==
    /\ ~cons.short /\ ~cons.panic
    /\ ~Armed => rx.pass = rx.served
    /\ ~InPass /\ ~InAck =>
          /\ cons.resets = rx.pass \/ (Armed /\ cons.resets = rx.pass - 1)
          /\ ~cons.drained => cons.turn = Base + cons.got /\ cons.got <= Chunks
          /\ cons.drained => cons.turn = Base + Chunks + 1
          /\ Armed => (cons.drained <=> cons.at_eos)
    /\ cons.drained => /\ cons.pc # "take"
                       /\ ~(cons.on = "filled" /\ cons.pc \in {"wait", "load", "check", "park"})

\* first turn of the pass reset_pass asks for
Goal == IF cons.resets = rx.pass THEN From ELSE From + last_pub + 1

\* reset_pass frees the rest of the pass it leaves, and nothing of the next one
Skipping ==
    InPass =>
       /\ ~cons.at_eos /\ (cons.resets = rx.pass \/ cons.resets = rx.pass + 1)
       /\ Goal - (last_pub + 1) <= cons.turn /\ cons.turn <= Goal
       /\ cons.cap = NEVER => cons.turn < Goal
       /\ cons.cap <= Goal
       /\ cons.pc = "rp_free" /\ cons.rt >= Goal => mb.auto_eos_turn >= Goal - 1
       /\ cons.pc = "rp_bake" => cons.ap >= cons.resets /\ cons.ap <= mb.auto_pass

MailboxAt(f) ==
    /\ MailboxTypes /\ RingAt(f) /\ Handshake
    /\ Progress /\ Contents(f) /\ Baking(f) /\ Delivered /\ Skipping

MailboxInv == \E f \in Nat : MailboxAt(f)

-----------------------------------------------------------------------------
(* The ring *)

\* A turn has a buffer.
LEMMA SlotType ==
  ASSUME NEW t \in Nat
  PROVE  Slot(t) \in Slots
<1>1. NBUF \in Nat \ {0}
  BY MailboxAssumption
<1> QED BY <1>1, DivMod DEF Slot, Slots

\* Turns less than a ring apart have different buffers.
LEMMA SlotApart ==
  ASSUME NEW a \in Nat, NEW b \in Nat, a < b, b < a + NBUF
  PROVE  Slot(a) # Slot(b)
<1>1. NBUF \in Nat \ {0}
  BY MailboxAssumption
<1> QED BY <1>1, ModApart DEF Slot

\* A ring further the buffer is the same.
LEMMA SlotAgain ==
  ASSUME NEW t \in Nat, t >= NBUF
  PROVE  t - NBUF \in Nat /\ Slot(t - NBUF) = Slot(t)
<1>1. NBUF \in Nat \ {0}
  BY MailboxAssumption
<1> DEFINE d == t \div NBUF
           m == t % NBUF
<1>2. d \in Nat /\ m \in 0..(NBUF - 1) /\ t = NBUF * d + m
  BY <1>1, DivMod
<1> HIDE DEF d, m
<1>3. d # 0
  <2>1. ASSUME d = 0 PROVE FALSE
    <3>1. NBUF * d = 0
      BY <1>1, <2>1, Multiples
    <3> QED BY <1>1, <1>2, <3>1
  <2> QED BY <2>1
<1>4. t - NBUF = NBUF * (d - 1) + m /\ d - 1 \in Nat /\ t - NBUF \in Nat
  BY <1>1, <1>2, <1>3
<1>5. (t - NBUF) % NBUF = m
  BY <1>1, <1>2, <1>4, DivModUnique
<1> QED BY <1>4, <1>5 DEF Slot, m

\* The turns of a range that used a buffer can be counted.
LEMMA RangeFinite ==
  ASSUME NEW a \in Nat, NEW b \in Nat, NEW i
  PROVE  LET S == {t \in a..(b - 1) : Slot(t) = i}
         IN  IsFiniteSet(S) /\ Cardinality(S) \in Nat
<1> DEFINE S == {t \in a..(b - 1) : Slot(t) = i}
<1>1. IsFiniteSet(a..(b - 1))
  BY FS_Interval
<1>2. S \in SUBSET (a..(b - 1))
  OBVIOUS
<1>3. IsFiniteSet(S)
  BY <1>1, <1>2, FS_Subset
<1>4. Cardinality(S) \in Nat
  BY <1>3, FS_CardinalityType
<1> QED BY <1>3, <1>4

\* A use count is a number.
LEMMA UsesType ==
  ASSUME NEW f \in Nat, NEW i
  PROVE  Uses(f, i) \in Nat
  BY RangeFinite DEF Uses

\* The uses below g are those below f and those from f on.
LEMMA UsesSplit ==
  ASSUME NEW f \in Nat, NEW g \in Nat, f <= g, NEW i
  PROVE  Uses(g, i) = Uses(f, i) + Cardinality({t \in f..(g - 1) : Slot(t) = i})
<1> DEFINE A == {t \in 0..(f - 1) : Slot(t) = i}
           B == {t \in f..(g - 1) : Slot(t) = i}
           C == {t \in 0..(g - 1) : Slot(t) = i}
<1>1. IsFiniteSet(A) /\ IsFiniteSet(B)
  <2>1. 0 \in Nat
    OBVIOUS
  <2>2. IsFiniteSet(A)
    BY <2>1, RangeFinite
  <2>3. IsFiniteSet(B)
    BY RangeFinite
  <2> QED BY <2>2, <2>3
<1>2. A \cap B = {} /\ A \cup B = C
  OBVIOUS
<1>3. Cardinality(A \cup B) = Cardinality(A) + Cardinality(B) - Cardinality(A \cap B)
  BY <1>1, FS_Union
<1>4. Cardinality({}) = 0
  BY FS_EmptySet
<1>5. Cardinality(A) \in Nat /\ Cardinality(B) \in Nat
  BY <1>1, FS_CardinalityType
<1>6. Cardinality(C) = Cardinality(A) + Cardinality(B)
  <2>1. Cardinality(C) = Cardinality(A) + Cardinality(B) - 0
    BY <1>2, <1>3, <1>4, Zenon
  <2> HIDE DEF A, B, C
  <2> QED BY <1>5, <2>1
<1> QED BY <1>6 DEF Uses

\* So more turns mean no fewer uses, and more if one of them uses the buffer.
LEMMA UsesGrow ==
  ASSUME NEW f \in Nat, NEW g \in Nat, f <= g, NEW i
  PROVE  /\ Uses(f, i) <= Uses(g, i)
         /\ \A u \in f..(g - 1) : Slot(u) = i => Uses(f, i) < Uses(g, i)
<1> DEFINE B == {t \in f..(g - 1) : Slot(t) = i}
<1>1. IsFiniteSet(B) /\ Cardinality(B) \in Nat
  BY RangeFinite
<1>2. Uses(g, i) = Uses(f, i) + Cardinality(B) /\ Uses(f, i) \in Nat
  BY UsesSplit, UsesType
<1>3. ASSUME NEW u \in f..(g - 1), Slot(u) = i PROVE Cardinality(B) # 0
  <2>1. B # {}
    BY <1>3
  <2> QED BY <1>1, <2>1, FS_EmptySet
<1> HIDE DEF B
<1> QED BY <1>1, <1>2, <1>3

\* A turn's own count: how often its buffer was used before it.
LEMMA UsesOwn ==
  ASSUME NEW t \in Nat
  PROVE  Uses(t, Slot(t)) = uses(t) /\ uses(t) \in Nat
<1>1. NBUF \in Nat \ {0}
  BY MailboxAssumption
<1>2. Cardinality({u \in 0..(t - 1) : u % NBUF = t % NBUF}) = t \div NBUF
  BY <1>1, UsesBefore
<1>3. t \div NBUF \in Nat
  BY <1>1, DivMod
<1> QED BY <1>2, <1>3 DEF Uses, uses, Slot

\* The counts are those of the turns below f.
Counts(f) == \A i \in Slots : mb.freed[i] = Uses(f, i)

\* What the RX thread waits for: a buffer is free for a turn less than a ring beyond
\* the first turn not freed, and a turn is freed only if it lies below that.
LEMMA FreeFor ==
  ASSUME NEW f \in Nat, NEW t \in Nat, Counts(f), free_for(t)
  PROVE  t < f + NBUF
<1>1. NBUF \in Nat
  BY MailboxAssumption
<1>2. CASE t < NBUF
  BY <1>1, <1>2
<1>3. CASE ~(t < NBUF)
  <2>1. mb.freed[Slot(t)] >= uses(t)
    BY <1>3 DEF free_for
  <2>2. mb.freed[Slot(t)] = Uses(f, Slot(t)) /\ Uses(t, Slot(t)) = uses(t)
    BY SlotType, UsesOwn DEF Counts
  <2>3. Uses(f, Slot(t)) \in Nat /\ Uses(t, Slot(t)) \in Nat
    BY UsesType
  <2>4. ~(Uses(f, Slot(t)) < Uses(t, Slot(t)))
    BY <2>1, <2>2, <2>3
  <2>5. t - NBUF \in Nat /\ Slot(t - NBUF) = Slot(t)
    BY <1>1, <1>3, SlotAgain
  <2>6. ASSUME f <= t - NBUF PROVE FALSE
    <3>1. f <= t /\ t - NBUF \in f..(t - 1)
      BY <1>1, <2>5, <2>6, MailboxAssumption
    <3> QED BY <2>4, <2>5, <3>1, UsesGrow
  <2> QED BY <1>1, <2>6
<1> QED BY <1>2, <1>3

\* A turn that frees its own slot lies before the turns not yet freed.
LEMMA FreedItself ==
  ASSUME NEW f \in Nat, NEW t \in Nat, Counts(f), freed_itself(t)
  PROVE  t < f
<1>1. mb.freed[Slot(t)] >= uses(t) + 1
  BY DEF freed_itself
<1>2. mb.freed[Slot(t)] = Uses(f, Slot(t)) /\ Uses(t, Slot(t)) = uses(t) /\ uses(t) \in Nat
  BY SlotType, UsesOwn DEF Counts
<1>3. ~(Uses(f, Slot(t)) <= Uses(t, Slot(t)))
  <2>1. Uses(f, Slot(t)) \in Nat
    BY UsesType
  <2> QED BY <1>1, <1>2, <2>1
<1>4. ~(f <= t)
  BY <1>3, UsesGrow
<1> QED BY <1>4

\* Freeing the turns from f up to g leaves the counts of the turns below g.
LEMMA FreedCounts ==
  ASSUME NEW f \in Nat, NEW g \in Nat, f <= g, Counts(f), NEW turns, turns = f..(g - 1)
  PROVE  /\ freeing(turns) \in [Slots -> Nat]
         /\ \A i \in Slots : freeing(turns)[i] = Uses(g, i)
<1>1. ASSUME NEW i \in Slots
      PROVE  mb.freed[i] + Cardinality({t \in turns : Slot(t) = i}) = Uses(g, i)
  <2>1. mb.freed[i] = Uses(f, i)
    BY DEF Counts
  <2>2. Uses(g, i) = Uses(f, i) + Cardinality({t \in f..(g - 1) : Slot(t) = i})
    BY UsesSplit
  <2> QED BY <2>1, <2>2
<1>2. \A i \in Slots : Uses(g, i) \in Nat
  BY UsesType
<1> QED BY <1>1, <1>2 DEF freeing

-----------------------------------------------------------------------------
(* The RX thread's steps that only move it *)

RxMove ==
    \/ RxTop \/ RxShut \/ RxBuffer \/ RxMark \/ RxGate
    \/ RxEos \/ RxEosLoad \/ RxEosCheck \/ RxEosPark

\* where such a step leads from where, and what it has seen on the way
Moves ==
    \/ rx.pc \in {"top", "eos"} /\ mb.cmd = "reset" /\ rx'.pc = "serve"
    \/ rx.pc = "top" /\ rx'.pc = "shut"
    \/ rx.pc = "shut" /\ rx'.pc = "buf"
    \/ rx.pc = "buf" /\ rx'.pc = "top"
    \/ rx.pc = "buf" /\ rx'.pc = "render" /\ free_for(rx.turn)
    \/ rx.pc = "mark" /\ rx'.pc = "gate" /\ free_for(rx.turn)
    \/ rx.pc = "gate" /\ rx'.pc = "land" /\ gate_open
    \/ /\ rx.pc \in {"eos", "eos_load", "eos_check", "eos_park"}
       /\ rx'.pc \in {"eos", "eos_load", "eos_check", "eos_park"}
    \/ /\ rx.pc \in {"top", "shut", "buf", "mark", "gate", "eos"}
       /\ rx'.pc = "exit"

SameRx ==
    /\ rx'.mode = rx.mode /\ rx'.turn = rx.turn /\ rx'.pass = rx.pass /\ rx'.pos = rx.pos
    /\ rx'.pass_start_turn = rx.pass_start_turn /\ rx'.served = rx.served
    /\ rx'.eos = rx.eos /\ rx'.marker = rx.marker

\* Waiting and looking move nothing but where the thread stands.
LEMMA MoveFields ==
  ASSUME MailboxTypes, RxMove
  PROVE  mb' = mb /\ cons' = cons /\ MailboxTypes' /\ SameRx /\ Moves
<1> USE DEF RxGoes
<1>1. CASE RxTop
  <2>1. mb.cmd = "run" \/ mb.cmd = "reset" \/ mb.cmd = "shutdown"
    BY DEF MailboxTypes, MbTypes
  <2>2. PICK pc \in RxPcs :
           /\ rx' = [rx EXCEPT !.pc = pc, !.back = "shut"]
           /\ pc = "exit" \/ pc = "shut" \/ (pc = "serve" /\ mb.cmd = "reset")
    BY <1>1, <2>1 DEF RxTop, RxPcs
  <2>3. rx.pc = "top" /\ UNCHANGED <<mb, seen, cons>>
    BY <1>1 DEF RxTop
  <2>4. MailboxTypes'
    <3>1. rx' \in RxTypes
      BY <2>2 DEF MailboxTypes, RxTypes
    <3> QED BY <2>3, <3>1 DEF MailboxTypes
  <2>5. SameRx /\ rx'.pc = pc
    BY <2>2 DEF MailboxTypes, RxTypes, SameRx
  <2> QED BY <2>2, <2>3, <2>4, <2>5 DEF Moves
<1>2. CASE RxShut
  BY <1>2 DEF RxShut, MailboxTypes, RxTypes, SameRx, Moves, RxPcs
<1>3. CASE RxBuffer
  BY <1>3 DEF RxBuffer, MailboxTypes, RxTypes, SameRx, Moves, RxPcs
<1>4. CASE RxMark
  BY <1>4 DEF RxMark, MailboxTypes, RxTypes, SameRx, Moves, RxPcs
<1>5. CASE RxGate
  BY <1>5 DEF RxGate, MailboxTypes, RxTypes, SameRx, Moves, RxPcs
<1>6. CASE RxEos
  <2>1. PICK pc \in RxPcs :
           /\ rx' = [rx EXCEPT !.pc = pc, !.back = "top"]
           /\ pc = "exit" \/ pc = "eos_load" \/ (pc = "serve" /\ mb.cmd = "reset")
    BY <1>6 DEF RxEos, RxPcs
  <2>2. rx.pc = "eos" /\ UNCHANGED <<mb, seen, cons>>
    BY <1>6 DEF RxEos
  <2>3. MailboxTypes'
    <3>1. rx' \in RxTypes
      BY <2>1 DEF MailboxTypes, RxTypes
    <3> QED BY <2>2, <3>1 DEF MailboxTypes
  <2>4. SameRx /\ rx'.pc = pc
    BY <2>1 DEF MailboxTypes, RxTypes, SameRx
  <2> QED BY <2>1, <2>2, <2>3, <2>4 DEF Moves
<1>7. CASE RxEosLoad
  BY <1>7 DEF RxEosLoad, MailboxTypes, RxTypes, SameRx, Moves, RxPcs
<1>8. CASE RxEosCheck
  BY <1>8 DEF RxEosCheck, MailboxTypes, RxTypes, SameRx, Moves, RxPcs
<1>9. CASE RxEosPark
  BY <1>9 DEF RxEosPark, MailboxTypes, RxTypes, SameRx, Moves, RxPcs
<1> QED BY <1>1, <1>2, <1>3, <1>4, <1>5, <1>6, <1>7, <1>8, <1>9 DEF RxMove

\* Such a step publishes nothing and stays in its pass.
LEMMA MoveStep ==
  ASSUME NEW f \in Nat, MailboxAt(f), RxMove
  PROVE  MailboxAt(f)'
<1>1. MailboxTypes /\ RingAt(f) /\ Handshake /\ Progress
      /\ Contents(f) /\ Baking(f) /\ Delivered /\ Skipping
  BY DEF MailboxAt
<1>2. mb' = mb /\ cons' = cons /\ MailboxTypes' /\ SameRx /\ Moves
  BY <1>1, MoveFields
<1>3. Pub' = Pub /\ From' = From /\ (Armed <=> Armed') /\ (Prearm <=> Prearm')
  BY <1>2 DEF SameRx, Moves, Pub, From, Armed, Prearm
<1>4. (InReset <=> InReset') /\ (InAck <=> InAck') /\ (InPass <=> InPass')
  BY <1>2 DEF InReset, InAck, InPass
<1>5. Base' = Base /\ Goal' = Goal
  BY <1>2, <1>3 DEF SameRx, Base, Goal
<1>a. NBUF \in Nat /\ last_pub \in Nat /\ last_pub >= 1
  BY MailboxAssumption DEF last_pub
<1>b. /\ rx.turn \in Nat /\ cons.turn \in Nat /\ rx.pass_start_turn \in Nat
      /\ mb.reset_ack_turn \in Nat
  BY <1>1 DEF MailboxTypes, MbTypes, RxTypes, ConsTypes
<1>6. RingAt(f)'
  <2>1. Counts(f)
    BY <1>1 DEF RingAt, Counts
  <2>2. rx'.pc \in {"render", "gate", "land"} => rx'.turn < f + NBUF
    BY <1>1, <1>2, <1>a, <1>b, <2>1, FreeFor DEF Moves, SameRx, RingAt
  <2> QED BY <1>1, <1>2, <1>3, <2>2 DEF RingAt, SameRx, Moves
<1>7. Handshake'
  BY <1>1, <1>2, <1>3, <1>4 DEF Handshake, SameRx, Moves
<1>8. Progress'
  BY <1>1, <1>2, <1>3, <1>a DEF Progress, SameRx, Moves
<1>9. Contents(f)'
  BY <1>1, <1>2, <1>3 DEF Contents, SameRx, Is
<1>10. Baking(f)'
  <2>1. Counts(f)
    BY <1>1 DEF RingAt, Counts
  <2>2. ASSUME Prearm, rx'.pc = "land" PROVE f > From
    <3>1. gate_open /\ rx.pc = "gate"
      BY <1>2, <2>2 DEF Moves
    <3>2. Pub = From + last_pub /\ Pub = rx.turn
      BY <1>1, <3>1 DEF Progress, Pub
    <3>3. From = rx.pass_start_turn
      BY <2>2 DEF Prearm, Armed, From
    <3>4. freed_itself(rx.pass_start_turn)
      BY <1>a, <1>b, <2>2, <3>1, <3>2, <3>3 DEF gate_open
    <3> QED BY <1>b, <2>1, <3>3, <3>4, FreedItself
  <2> QED BY <1>1, <1>2, <1>3, <2>2 DEF Baking, SameRx, Moves
<1>11. Delivered'
  BY <1>1, <1>2, <1>3, <1>4, <1>5 DEF Delivered, SameRx
<1>12. Skipping'
  BY <1>1, <1>2, <1>3, <1>4, <1>5 DEF Skipping, SameRx
<1> QED BY <1>2, <1>6, <1>7, <1>8, <1>9, <1>10, <1>11, <1>12 DEF MailboxAt

-----------------------------------------------------------------------------
(* The RX thread's other steps *)

\* The numbers the invariant compares.
Numbers ==
    /\ rx.turn \in Nat /\ rx.pass \in Nat /\ rx.pos \in Nat /\ rx.served \in Nat
    /\ rx.pass_start_turn \in Nat /\ mb.reset_ack_turn \in Nat /\ From \in Nat
    /\ mb.reset_session \in Nat /\ mb.reset_ack_cnt \in Nat /\ mb.rx_turn \in Nat
    /\ mb.auto_pass \in Nat /\ mb.auto_bake_turn \in Int /\ mb.auto_eos_turn \in Int
    /\ cons.turn \in Nat /\ cons.resets \in Nat /\ cons.cap \in Int /\ cons.ap \in Nat
    /\ cons.rt \in Nat /\ cons.got \in Nat /\ Pub \in Nat
    /\ NBUF \in Nat /\ NBUF >= 1 /\ Chunks \in Nat /\ last_pub \in Nat
    /\ Chunks >= 1 /\ last_pub >= Chunks

\* What the types say of the numbers.
LEMMA NumberTypes ==
  ASSUME MailboxTypes
  PROVE  Numbers
<1>1. /\ rx.turn \in Nat /\ rx.pass \in Nat /\ rx.pos \in Nat /\ rx.served \in Nat
      /\ rx.pass_start_turn \in Nat
  BY DEF MailboxTypes, RxTypes
<1>2. /\ mb.reset_ack_turn \in Nat
      /\ mb.reset_session \in Nat /\ mb.reset_ack_cnt \in Nat /\ mb.rx_turn \in Nat
      /\ mb.auto_pass \in Nat /\ mb.auto_bake_turn \in Int /\ mb.auto_eos_turn \in Int
  BY DEF MailboxTypes, MbTypes
<1>3. /\ cons.turn \in Nat /\ cons.resets \in Nat /\ cons.cap \in Int /\ cons.ap \in Nat
      /\ cons.rt \in Nat /\ cons.got \in Nat
  BY DEF MailboxTypes, ConsTypes
<1>4. From \in Nat /\ Pub \in Nat
  BY <1>1, <1>2 DEF From, Pub
<1>5. NBUF \in Nat /\ NBUF >= 1 /\ Chunks \in Nat /\ Chunks >= 1
  BY MailboxAssumption
<1>6. last_pub \in Nat /\ last_pub >= Chunks
  BY <1>5 DEF last_pub
<1> QED BY <1>1, <1>2, <1>3, <1>4, <1>5, <1>6 DEF Numbers

\* The parts of the invariant.
LEMMA Parts ==
  ASSUME NEW f \in Nat, MailboxAt(f)
  PROVE  /\ MailboxTypes /\ RingAt(f) /\ Handshake /\ Progress
         /\ Contents(f) /\ Baking(f) /\ Delivered /\ Skipping /\ Numbers /\ Counts(f)
  BY NumberTypes DEF MailboxAt, RingAt, Counts

\* Serving a reset starts the pass at this turn.
LEMMA ServeStep ==
  ASSUME NEW f \in Nat, MailboxAt(f), RxServe
  PROVE  MailboxAt(f)'
<1>1. /\ MailboxTypes /\ RingAt(f) /\ Handshake /\ Progress
      /\ Contents(f) /\ Baking(f) /\ Delivered /\ Skipping /\ Numbers
  BY Parts
<1>2. /\ rx'.pc = "ack" /\ rx'.pass = mb.reset_session /\ rx'.pos = 0
      /\ rx'.served = rx.served + 1 /\ rx'.mode = rx.mode /\ rx'.turn = rx.turn
      /\ rx'.pass_start_turn = rx.pass_start_turn /\ rx.pc = "serve" /\ cons' = cons
  BY <1>1 DEF RxServe, MailboxTypes, RxTypes
<1>3. /\ mb'.filled = mb.filled /\ mb'.freed = mb.freed /\ mb'.cmd = mb.cmd
      /\ mb'.reset_session = mb.reset_session /\ mb'.reset_ack_cnt = mb.reset_ack_cnt
      /\ mb'.reset_ack_turn = rx.turn /\ mb'.rx_turn = mb.rx_turn
  BY <1>1 DEF RxServe, MailboxTypes, MbTypes
<1>4. MailboxTypes'
  <2>1. rx' \in RxTypes
    <3>1. /\ mb.reset_session \in Nat /\ rx.served + 1 \in Nat /\ 0 \in Nat /\ "ack" \in RxPcs
          /\ rx \in RxTypes
      BY <1>1 DEF Numbers, RxPcs, MailboxTypes
    <3> QED BY <3>1 DEF RxServe, RxTypes
  <2>2. mb' \in MbTypes
    BY <1>1 DEF RxServe, MailboxTypes, RxTypes, MbTypes
  <2> QED BY <1>1, <2>1, <2>2 DEF RxServe, MailboxTypes
<1>5. ~Armed /\ ~Armed' /\ mb.cmd = "reset"
  BY <1>1, <1>2 DEF Handshake, Armed
<1>6. Pub' = Pub /\ Pub = rx.turn /\ From' = rx.turn
  BY <1>2, <1>3, <1>5 DEF Pub, From
<1>7. InReset /\ InReset' /\ InAck' /\ rx.served + 1 = cons.resets
  BY <1>1, <1>2, <1>5 DEF Handshake, InReset, InAck
<1>8. RingAt(f)'
  BY <1>1, <1>2, <1>3, <1>6 DEF RingAt
<1>9. Handshake'
  <2>1. cons.turn <= rx.turn
    BY <1>1, <1>6 DEF RingAt
  <2>2. ~InPass' /\ mb.reset_session = cons.resets /\ mb.reset_ack_cnt = rx.served
    BY <1>1, <1>2, <1>5, <1>7 DEF Handshake, InPass
  <2>3. cons.pc \in {"kick", "align"} => cons.on = "ack"
    BY <1>1 DEF Handshake
  <2> QED BY <1>1, <1>2, <1>3, <1>5, <1>6, <1>7, <2>1, <2>2, <2>3 DEF Handshake, Numbers
<1>10. Progress'
  BY <1>1, <1>2, <1>6 DEF Progress, Numbers
<1>11. Contents(f)'
  BY <1>1, <1>5, <1>6 DEF Contents, Numbers
<1>12. Baking(f)' /\ Skipping'
  <2>1. ~InPass'
    BY <1>1, <1>2, <1>5 DEF Handshake, InPass
  <2> QED BY <1>5, <2>1 DEF Baking, Skipping
<1>13. Delivered'
  <2>1. rx'.pass = rx'.served
    BY <1>1, <1>2, <1>7 DEF Handshake
  <2>2. cons.drained => /\ cons.pc # "take"
                        /\ ~(cons.on = "filled" /\ cons.pc \in {"wait", "load", "check", "park"})
    BY <1>1 DEF Delivered
  <2> QED BY <1>1, <1>2, <1>5, <1>7, <2>1, <2>2 DEF Delivered
<1> QED BY <1>4, <1>8, <1>9, <1>10, <1>11, <1>12, <1>13 DEF MailboxAt

\* The count of the answer.
LEMMA AckStep ==
  ASSUME NEW f \in Nat, MailboxAt(f), RxAck
  PROVE  MailboxAt(f)'
<1>1. /\ MailboxTypes /\ RingAt(f) /\ Handshake /\ Progress
      /\ Contents(f) /\ Baking(f) /\ Delivered /\ Skipping /\ Numbers
  BY Parts
<1>2. SameRx /\ rx'.pc = "run" /\ rx.pc = "ack" /\ cons' = cons
  BY <1>1 DEF RxAck, RxGoes, MailboxTypes, RxTypes, SameRx
<1>3. /\ mb'.filled = mb.filled /\ mb'.freed = mb.freed /\ mb'.cmd = mb.cmd
      /\ mb'.pubs = mb.pubs
      /\ mb'.reset_session = mb.reset_session /\ mb'.reset_ack_cnt = rx.served
      /\ mb'.reset_ack_turn = mb.reset_ack_turn /\ mb'.rx_turn = mb.rx_turn
  BY <1>1 DEF RxAck, MailboxTypes, MbTypes
<1>4. MailboxTypes'
  <2>1. rx' \in RxTypes
    BY <1>1 DEF RxAck, RxGoes, MailboxTypes, RxTypes, RxPcs
  <2>2. mb' \in MbTypes
    BY <1>1 DEF RxAck, MailboxTypes, RxTypes, MbTypes
  <2> QED BY <1>1, <2>1, <2>2 DEF RxAck, MailboxTypes
<1>5. ~Armed /\ ~Armed'
  BY <1>1, <1>2 DEF Handshake, Armed, SameRx
<1>6. Pub' = Pub /\ From' = From
  BY <1>2, <1>3, <1>5 DEF Pub, From, SameRx
<1>7. /\ (InReset <=> InReset') /\ (InAck <=> InAck') /\ (InPass <=> InPass')
      /\ InReset /\ InAck /\ ~InPass
  BY <1>1, <1>2, <1>5 DEF InReset, InAck, InPass, Handshake
<1>8. RingAt(f)'
  BY <1>1, <1>2, <1>3, <1>6 DEF RingAt, SameRx
<1>9. Handshake'
  BY <1>1, <1>2, <1>3, <1>5, <1>6, <1>7 DEF Handshake, SameRx
<1>10. Progress'
  BY <1>1, <1>2, <1>6 DEF Progress, SameRx, Numbers
<1>11. Contents(f)'
  BY <1>1, <1>2, <1>3, <1>5, <1>6 DEF Contents, SameRx, Is
<1>12. Baking(f)' /\ Skipping'
  BY <1>5, <1>7 DEF Baking, Skipping
<1>13. Delivered'
  BY <1>1, <1>2, <1>5, <1>7 DEF Delivered, SameRx
<1> QED BY <1>4, <1>8, <1>9, <1>10, <1>11, <1>12, <1>13 DEF MailboxAt

\* The command is back at run.
LEMMA RunStep ==
  ASSUME NEW f \in Nat, MailboxAt(f), RxRun
  PROVE  MailboxAt(f)'
<1>1. /\ MailboxTypes /\ RingAt(f) /\ Handshake /\ Progress
      /\ Contents(f) /\ Baking(f) /\ Delivered /\ Skipping /\ Numbers
  BY Parts
<1>2. SameRx /\ rx'.pc \in {"top", "shut"} /\ rx.pc = "run" /\ cons' = cons
  BY <1>1 DEF RxRun, RxGoes, MailboxTypes, RxTypes, SameRx
<1>3. /\ mb'.filled = mb.filled /\ mb'.freed = mb.freed /\ mb'.cmd = "run"
      /\ mb'.pubs = mb.pubs
      /\ mb'.reset_session = mb.reset_session /\ mb'.reset_ack_cnt = mb.reset_ack_cnt
      /\ mb'.reset_ack_turn = mb.reset_ack_turn /\ mb'.rx_turn = mb.rx_turn
  BY <1>1 DEF RxRun, MailboxTypes, MbTypes
<1>4. MailboxTypes'
  <2>1. rx' \in RxTypes
    BY <1>1 DEF RxRun, RxGoes, MailboxTypes, RxTypes, RxPcs
  <2>2. mb' \in MbTypes
    BY <1>1 DEF RxRun, MailboxTypes, MbTypes
  <2>3. seen' \in [rx : BOOLEAN, cons : BOOLEAN]
    BY <1>1 DEF RxRun, MailboxTypes, wake_bumped
  <2> QED BY <1>1, <1>2, <2>1, <2>2, <2>3 DEF MailboxTypes
<1>5. ~Armed /\ ~Armed'
  BY <1>1, <1>2 DEF Handshake, Armed, SameRx
<1>6. Pub' = Pub /\ From' = From
  BY <1>2, <1>3, <1>5 DEF Pub, From, SameRx
<1>7. /\ (InReset <=> InReset') /\ (InAck <=> InAck') /\ (InPass <=> InPass')
      /\ ~InPass
  BY <1>1, <1>2, <1>5 DEF InReset, InAck, InPass, Handshake
<1>8. RingAt(f)'
  BY <1>1, <1>2, <1>3, <1>6 DEF RingAt, SameRx
<1>9. Handshake'
  BY <1>1, <1>2, <1>3, <1>5, <1>6, <1>7 DEF Handshake, SameRx
<1>10. Progress'
  BY <1>1, <1>2, <1>6 DEF Progress, SameRx, Numbers
<1>11. Contents(f)'
  BY <1>1, <1>2, <1>3, <1>5, <1>6 DEF Contents, SameRx, Is
<1>12. Baking(f)' /\ Skipping'
  BY <1>5, <1>7 DEF Baking, Skipping
<1>13. Delivered'
  BY <1>1, <1>2, <1>5, <1>6, <1>7 DEF Delivered, SameRx, Base
<1> QED BY <1>4, <1>8, <1>9, <1>10, <1>11, <1>12, <1>13 DEF MailboxAt

\* Storing an entry for the turn the RX thread is at disturbs no turn not freed.
LEMMA StoreKeeps ==
  ASSUME NEW f \in Nat, NEW turn \in Nat, turn < f + NBUF,
         NEW t \in f..(turn - 1)
  PROVE  Slot(t) # Slot(turn) /\ Slot(t) \in Slots
<1>1. t \in Nat /\ t < turn /\ turn < t + NBUF
  BY MailboxAssumption
<1> QED BY <1>1, SlotApart, SlotType

\* A publication, of frames or of the marker, goes to the turn the RX thread is at.
Stores(entry) ==
    /\ mb'.pubs = [mb.pubs EXCEPT ![Slot(rx.turn)] = entry]
    /\ mb'.filled = [mb.filled EXCEPT ![Slot(rx.turn)] = rx.turn]
    /\ mb'.freed = mb.freed /\ mb'.cmd = mb.cmd
    /\ mb'.reset_session = mb.reset_session /\ mb'.reset_ack_cnt = mb.reset_ack_cnt
    /\ mb'.reset_ack_turn = mb.reset_ack_turn /\ mb'.rx_turn = mb.rx_turn
    /\ mb'.auto_pass = mb.auto_pass /\ mb'.auto_bake_turn = mb.auto_bake_turn
    /\ mb'.auto_eos_turn = mb.auto_eos_turn
    /\ rx'.mode = rx.mode /\ rx'.turn = rx.turn /\ rx'.pass = rx.pass
    /\ rx'.pass_start_turn = rx.pass_start_turn /\ rx'.served = rx.served
    /\ rx.pc \in {"render", "land"} /\ rx'.pc \in {"turn", "eos_turn"}
    /\ cons' = cons

\* What the RX thread stores at its turn leaves the ring, the contents and the handshake in order.
LEMMA StoreStep ==
  ASSUME NEW f \in Nat, MailboxAt(f), NEW entry, Stores(entry),
         LET j == rx.turn - From
         IN  IF j < Chunks THEN entry = [pass |-> rx.pass, idx |-> j, len |-> 1]
             ELSE entry.len = 0
  PROVE  RingAt(f)' /\ Handshake' /\ Contents(f)' /\ Delivered' /\ Skipping'
         /\ Pub' = Pub + 1 /\ Pub = rx.turn /\ From' = From
<1>1. /\ MailboxTypes /\ RingAt(f) /\ Handshake /\ Progress
      /\ Contents(f) /\ Baking(f) /\ Delivered /\ Skipping /\ Numbers
  BY Parts
<1>2. /\ DOMAIN mb.pubs = Slots /\ DOMAIN mb.filled = Slots
      /\ \A i \in Slots : mb.filled[i] \in Int
  BY <1>1 DEF MailboxTypes, MbTypes
<1>3. Pub' = Pub + 1 /\ Pub = rx.turn /\ From' = From /\ (Armed <=> Armed')
  BY <1>1 DEF Stores, Pub, From, Armed
<1>4. (InReset <=> InReset') /\ (InAck <=> InAck') /\ (InPass <=> InPass')
  BY DEF Stores, InReset, InAck, InPass
<1>5. Base' = Base /\ Goal' = Goal
  BY <1>3 DEF Stores, Base, Goal
<1>6. rx.turn < f + NBUF /\ rx.turn \in Nat
  BY <1>1 DEF RingAt, Stores, Numbers
<1>7. Slot(rx.turn) \in Slots
  BY <1>6, SlotType
<1>8. \A t \in f..(Pub - 1) :
         mb'.pubs[Slot(t)] = mb.pubs[Slot(t)] /\ mb'.filled[Slot(t)] = mb.filled[Slot(t)]
  <2> SUFFICES ASSUME NEW t \in f..(rx.turn - 1)
               PROVE  /\ mb'.pubs[Slot(t)] = mb.pubs[Slot(t)]
                      /\ mb'.filled[Slot(t)] = mb.filled[Slot(t)]
    BY <1>3
  <2>1. Slot(t) # Slot(rx.turn) /\ Slot(t) \in Slots
    BY <1>6, StoreKeeps
  <2> QED BY <1>2, <2>1 DEF Stores
<1>9. mb'.pubs[Slot(rx.turn)] = entry /\ mb'.filled[Slot(rx.turn)] = rx.turn
  BY <1>2, <1>7 DEF Stores
<1>10. \A i \in Slots : mb'.filled[i] < Pub'
  <2> SUFFICES ASSUME NEW i \in Slots PROVE mb'.filled[i] < Pub'
    OBVIOUS
  <2>1. mb'.filled[i] = mb.filled[i] \/ mb'.filled[i] = rx.turn
    BY <1>2 DEF Stores
  <2>2. mb.filled[i] < Pub /\ mb.filled[i] \in Int
    BY <1>1, <1>2 DEF RingAt
  <2> QED BY <1>1, <1>3, <2>1, <2>2 DEF Numbers
<1>11. \A t \in f..(Pub' - 1) : t \in f..(Pub - 1) \/ t = rx.turn
  BY <1>1, <1>3 DEF Numbers
<1>12. RingAt(f)'
  <2>1. \A t \in f..(Pub' - 1) : mb'.filled[Slot(t)] = t
    BY <1>1, <1>8, <1>9, <1>11 DEF RingAt
  <2>2. Counts(f)
    BY <1>1 DEF RingAt, Counts
  <2>3. \A i \in Slots : mb'.freed[i] = Uses(f, i) /\ mb'.filled[i] < Pub'
    BY <1>10, <2>2 DEF Counts, Stores
  <2>4. cons.turn <= Pub' /\ Pub' <= f + NBUF /\ cons.rt <= Pub'
    <3>1. cons.turn <= Pub /\ Pub <= f + NBUF /\ cons.rt <= Pub
      BY <1>1 DEF RingAt
    <3>2. /\ Pub \in Nat /\ cons.turn \in Nat /\ cons.rt \in Nat /\ f + NBUF \in Nat
          /\ Pub < f + NBUF
      BY <1>1, <1>3, <1>6 DEF Numbers
    <3> QED BY <1>3, <3>1, <3>2
  <2>5. cons.pc = "take" => cons.on = "filled" /\ cons.turn < Pub'
    BY <1>1, <1>3 DEF RingAt, Numbers
  <2>6. mb'.rx_turn = (IF rx'.pc = "flag" THEN rx'.turn + 1 ELSE rx'.turn)
    BY <1>1 DEF RingAt, Stores
  <2>7. /\ cons.held = f..(cons.turn - 1) /\ f <= cons.turn
        /\ cons.pc \notin {"user", "drop", "join", "gone"} => cons.turn <= f
    BY <1>1 DEF RingAt
  <2> QED BY <2>1, <2>3, <2>4, <2>5, <2>6, <2>7 DEF RingAt, Stores
<1>13. Handshake'
  <2>1. InAck /\ rx.served = cons.resets =>
           cons.turn <= mb.reset_ack_turn /\ mb.reset_ack_turn <= Pub'
    BY <1>1, <1>3 DEF Handshake, Numbers
  <2> QED BY <1>1, <1>3, <1>4, <2>1 DEF Handshake, Stores
<1>14. Contents(f)'
  <2>3. rx.turn >= From
    BY <1>1, <1>3 DEF Progress
  <2> SUFFICES ASSUME NEW t \in f..(Pub' - 1)
               PROVE  /\ t >= From => Is(t, rx.pass, From)'
                      /\ Armed /\ t < From => Is(t, rx.pass - 1, From - (last_pub + 1))'
    BY <1>3 DEF Contents, Stores, Is
  <2>4. CASE t = rx.turn
    <3>1. Is(t, rx.pass, From)'
      BY <1>3, <1>9, <2>4 DEF Is, Stores
    <3>2. ~(t < From)
      BY <1>1, <2>3, <2>4 DEF Numbers
    <3> QED BY <3>1, <3>2
  <2>5. CASE t \in f..(Pub - 1)
    <3>1. t >= From => Is(t, rx.pass, From)
      BY <1>1, <2>5 DEF Contents
    <3>2. Armed /\ t < From => Is(t, rx.pass - 1, From - (last_pub + 1))
      BY <1>1, <2>5 DEF Contents
    <3>3. Is(t, rx.pass, From) => Is(t, rx.pass, From)'
      BY <1>3, <1>8, <2>5 DEF Is, Stores
    <3>4. Is(t, rx.pass - 1, From - (last_pub + 1)) => Is(t, rx.pass - 1, From - (last_pub + 1))'
      BY <1>3, <1>8, <2>5 DEF Is, Stores, last_pub
    <3> QED BY <3>1, <3>2, <3>3, <3>4
  <2> QED BY <1>11, <2>4, <2>5
<1>15. Delivered'
  BY <1>1, <1>3, <1>4, <1>5 DEF Delivered, Stores
<1>16. Skipping'
  BY <1>1, <1>4, <1>5 DEF Skipping, Stores
<1> QED BY <1>3, <1>12, <1>13, <1>14, <1>15, <1>16

\* The RX thread publishes the next batch of its pass.
LEMMA PublishStep ==
  ASSUME NEW f \in Nat, MailboxAt(f), RxPublish
  PROVE  MailboxAt(f)'
<1>1. /\ MailboxTypes /\ RingAt(f) /\ Handshake /\ Progress
      /\ Contents(f) /\ Baking(f) /\ Delivered /\ Skipping /\ Numbers
  BY Parts
<1>2. /\ rx.pc = "render" /\ rx'.pc = "turn" /\ rx'.pos = rx.pos + 1
      /\ rx'.marker = FALSE /\ rx'.eos = (rx.pos + 1 = last_pub)
      /\ rx'.mode = rx.mode /\ rx'.turn = rx.turn /\ rx'.pass = rx.pass
      /\ rx'.pass_start_turn = rx.pass_start_turn /\ rx'.served = rx.served
  BY <1>1 DEF RxPublish, MailboxTypes, RxTypes, last_pub
<1>3. Stores(published)
  BY <1>1, <1>2 DEF RxPublish, MailboxTypes, MbTypes, Stores
<1>4. /\ published \in Entries
      /\ IF rx.pos < Chunks THEN published = [pass |-> rx.pass, idx |-> rx.pos, len |-> 1]
         ELSE published.len = 0
  BY <1>1 DEF published, Entries, Numbers
<1>5. rx.turn - From = rx.pos /\ rx.pos < last_pub /\ Pub = From + rx.pos
  BY <1>1, <1>2 DEF Progress, Pub, Numbers
<1>6. MailboxTypes'
  <2>1. /\ rx \in RxTypes /\ "turn" \in RxPcs /\ rx.pos + 1 \in Nat
        /\ (rx.pos + 1 = (IF Exact THEN Chunks + 1 ELSE Chunks)) \in BOOLEAN
    BY <1>1 DEF MailboxTypes, RxPcs, Numbers
  <2>2. rx' \in RxTypes
    BY <2>1 DEF RxPublish, RxTypes
  <2>3. mb \in MbTypes /\ rx.turn \in Int /\ Slot(rx.turn) \in Slots
    BY <1>1, SlotType DEF MailboxTypes, Numbers
  <2>4. mb' \in MbTypes
    BY <1>4, <2>3 DEF RxPublish, MbTypes
  <2> QED BY <1>1, <2>2, <2>4 DEF RxPublish, MailboxTypes
<1>7. /\ RingAt(f)' /\ Handshake' /\ Contents(f)' /\ Delivered' /\ Skipping'
      /\ Pub' = Pub + 1 /\ Pub = rx.turn /\ From' = From
  BY <1>3, <1>4, <1>5, StoreStep
<1>8. Progress'
  <2>1. (rx'.eos <=> rx'.pos = last_pub) /\ ~rx'.marker
    BY <1>2
  <2>2. Pub' = From' + rx'.pos /\ rx'.pos <= last_pub /\ From' <= Pub' /\ Pub' <= From' + last_pub + 1
    BY <1>1, <1>2, <1>5, <1>7 DEF Numbers
  <2> QED BY <1>2, <2>1, <2>2 DEF Progress
<1>9. Baking(f)'
  <2>1. (Armed <=> Armed') /\ (Prearm <=> Prearm')
    BY <1>2 DEF Armed, Prearm
  <2>2. Pub # From + last_pub + 1 /\ Pub' # From' + last_pub + 1
    BY <1>1, <1>5, <1>7 DEF Numbers
  <2> QED BY <1>1, <1>2, <1>3, <1>7, <2>1, <2>2 DEF Baking, Stores
<1> QED BY <1>6, <1>7, <1>8, <1>9 DEF MailboxAt

\* It lands the empty marker that ends an armed pass.
LEMMA LandStep ==
  ASSUME NEW f \in Nat, MailboxAt(f), RxLand
  PROVE  MailboxAt(f)'
<1>1. /\ MailboxTypes /\ RingAt(f) /\ Handshake /\ Progress
      /\ Contents(f) /\ Baking(f) /\ Delivered /\ Skipping /\ Numbers
  BY Parts
<1>2. /\ rx.pc = "land" /\ rx'.pc = "eos_turn" /\ rx'.pos = rx.pos
      /\ rx'.marker = TRUE
      /\ rx'.mode = rx.mode /\ rx'.turn = rx.turn /\ rx'.pass = rx.pass
      /\ rx'.pass_start_turn = rx.pass_start_turn /\ rx'.served = rx.served
  BY <1>1 DEF RxLand, MailboxTypes, RxTypes
<1>3. Stores(EMPTY)
  BY <1>1, <1>2 DEF RxLand, MailboxTypes, MbTypes, Stores
<1>4. EMPTY \in Entries /\ EMPTY.len = 0
  BY DEF EMPTY, Entries, NEVER
<1>5. rx.turn - From = last_pub /\ Pub = From + last_pub /\ ~(last_pub < Chunks)
  BY <1>1, <1>2 DEF Progress, Pub, Numbers
<1>6. MailboxTypes'
  <2>1. rx' \in RxTypes
    BY <1>1 DEF RxLand, RxTypes, RxPcs, MailboxTypes
  <2>2. mb \in MbTypes /\ rx.turn \in Int /\ Slot(rx.turn) \in Slots
    BY <1>1, SlotType DEF MailboxTypes, Numbers
  <2>3. mb' \in MbTypes
    BY <1>4, <2>2 DEF RxLand, MbTypes
  <2> QED BY <1>1, <2>1, <2>3 DEF RxLand, MailboxTypes
<1>7. /\ RingAt(f)' /\ Handshake' /\ Contents(f)' /\ Delivered' /\ Skipping'
      /\ Pub' = Pub + 1 /\ Pub = rx.turn /\ From' = From
  BY <1>3, <1>4, <1>5, StoreStep
<1>8. Progress'
  BY <1>1, <1>2, <1>5, <1>7 DEF Progress, Numbers
<1>9. Baking(f)'
  <2>1. (Armed <=> Armed') /\ (Prearm <=> Prearm')
    BY <1>2 DEF Armed, Prearm
  <2>2. Pub # From + last_pub + 1
    BY <1>1, <1>5 DEF Numbers
  <2> QED BY <1>1, <1>2, <1>3, <1>7, <2>1, <2>2 DEF Baking, Stores
<1> QED BY <1>6, <1>7, <1>8, <1>9 DEF MailboxAt

\* Telling the cursor words: the count of turns, and the turn of the marker.
LEMMA TurnStep ==
  ASSUME NEW f \in Nat, MailboxAt(f), RxTurn \/ RxEosTurn
  PROVE  MailboxAt(f)'
<1>1. /\ MailboxTypes /\ RingAt(f) /\ Handshake /\ Progress
      /\ Contents(f) /\ Baking(f) /\ Delivered /\ Skipping /\ Numbers
  BY Parts
<1>2. /\ SameRx /\ cons' = cons
      /\ \/ rx.pc = "turn" /\ rx'.pc = "flag"
         \/ rx.pc = "eos_turn" /\ rx'.pc = "turn"
  BY <1>1 DEF RxTurn, RxEosTurn, RxGoes, MailboxTypes, RxTypes, SameRx
<1>3. /\ mb'.filled = mb.filled /\ mb'.freed = mb.freed /\ mb'.cmd = mb.cmd
      /\ mb'.pubs = mb.pubs
      /\ mb'.reset_session = mb.reset_session /\ mb'.reset_ack_cnt = mb.reset_ack_cnt
      /\ mb'.reset_ack_turn = mb.reset_ack_turn
      /\ mb'.auto_pass = mb.auto_pass /\ mb'.auto_bake_turn = mb.auto_bake_turn
  BY <1>1 DEF RxTurn, RxEosTurn, MailboxTypes, MbTypes
<1>4. /\ rx.pc = "turn" => mb'.rx_turn = rx.turn + 1 /\ mb'.auto_eos_turn = mb.auto_eos_turn
      /\ rx.pc = "eos_turn" => mb'.rx_turn = mb.rx_turn /\ mb'.auto_eos_turn = rx.turn
  BY <1>1 DEF RxTurn, RxEosTurn, MailboxTypes, MbTypes
<1>5. MailboxTypes'
  <2>1. rx' \in RxTypes
    BY <1>1 DEF RxTurn, RxEosTurn, RxGoes, MailboxTypes, RxTypes, RxPcs
  <2>2. mb \in MbTypes /\ rx.turn \in Int /\ rx.turn + 1 \in Nat
    BY <1>1 DEF MailboxTypes, Numbers
  <2>3. mb' \in MbTypes
    BY <2>2 DEF RxTurn, RxEosTurn, MbTypes
  <2> QED BY <1>1, <2>1, <2>3 DEF RxTurn, RxEosTurn, MailboxTypes
<1>6. /\ Pub' = Pub /\ From' = From /\ (Armed <=> Armed') /\ (Prearm <=> Prearm')
      /\ Pub = rx.turn + 1
  BY <1>2, <1>3 DEF Pub, From, SameRx, Armed, Prearm
<1>7. (InReset <=> InReset') /\ (InAck <=> InAck') /\ (InPass <=> InPass')
  BY <1>2 DEF InReset, InAck, InPass
<1>8. Base' = Base /\ Goal' = Goal
  BY <1>2, <1>6 DEF SameRx, Base, Goal
<1>9. RingAt(f)'
  <2>1. mb'.rx_turn = (IF rx'.pc = "flag" THEN rx'.turn + 1 ELSE rx'.turn)
    BY <1>1, <1>2, <1>4 DEF RingAt, SameRx
  <2> QED BY <1>1, <1>2, <1>3, <1>6, <2>1 DEF RingAt, SameRx
<1>10. Handshake'
  BY <1>1, <1>2, <1>3, <1>6, <1>7 DEF Handshake, SameRx
<1>11. Progress'
  BY <1>1, <1>2, <1>6 DEF Progress, SameRx
<1>12. Contents(f)'
  BY <1>1, <1>2, <1>3, <1>6 DEF Contents, SameRx, Is
<1>13. Baking(f)'
  <2>1. rx.pc = "eos_turn" => Pub = From + last_pub + 1 /\ rx.turn = From + last_pub
    BY <1>1, <1>6 DEF Progress, Numbers
  <2> QED BY <1>1, <1>2, <1>3, <1>4, <1>6, <2>1 DEF Baking, SameRx
<1>14. Delivered'
  BY <1>1, <1>2, <1>6, <1>7, <1>8 DEF Delivered, SameRx
<1>15. Skipping'
  <2>1. InPass => mb'.auto_eos_turn >= mb.auto_eos_turn
    <3>1. rx.pc = "eos_turn" => rx.turn = From + last_pub
      BY <1>1, <1>6 DEF Progress, Numbers
    <3>2. InPass => Armed
      BY <1>1 DEF Handshake
    <3>3. Armed /\ rx.pc = "eos_turn" => mb.auto_eos_turn = From - 1
      BY <1>1 DEF Baking
    <3> QED BY <1>1, <1>2, <1>4, <3>1, <3>2, <3>3 DEF Numbers
  <2>2. Goal \in Int
    BY <1>1 DEF Goal, Numbers
  <2>3. mb'.auto_eos_turn \in Int
    BY <1>5 DEF MailboxTypes, MbTypes
  <2> QED BY <1>1, <1>2, <1>3, <1>7, <1>8, <2>1, <2>2, <2>3 DEF Skipping, SameRx, Numbers
<1> QED BY <1>5, <1>9, <1>10, <1>11, <1>12, <1>13, <1>14, <1>15 DEF MailboxAt

\* The turn is over.
LEMMA FlagStep ==
  ASSUME NEW f \in Nat, MailboxAt(f), RxFlag
  PROVE  MailboxAt(f)'
<1>1. /\ MailboxTypes /\ RingAt(f) /\ Handshake /\ Progress
      /\ Contents(f) /\ Baking(f) /\ Delivered /\ Skipping /\ Numbers
  BY Parts
<1>2. /\ rx.pc = "flag" /\ cons' = cons /\ rx'.turn = rx.turn + 1
      /\ rx'.mode = rx.mode /\ rx'.pass = rx.pass /\ rx'.pos = rx.pos
      /\ rx'.pass_start_turn = rx.pass_start_turn /\ rx'.served = rx.served
      /\ rx'.eos = rx.eos /\ rx'.marker = rx.marker
  BY <1>1 DEF RxFlag, MailboxTypes, RxTypes
<1>3. /\ rx'.pc = IF ~rx.marker THEN (IF rx.eos THEN "mark" ELSE "top")
                  ELSE IF Armed THEN "advance" ELSE "eos"
      /\ rx'.pc \in {"mark", "top", "advance", "eos"}
  BY <1>1 DEF RxFlag, MailboxTypes, RxTypes
<1>4. /\ mb'.filled = mb.filled /\ mb'.freed = mb.freed /\ mb'.cmd = mb.cmd
      /\ mb'.pubs = mb.pubs
      /\ mb'.reset_session = mb.reset_session /\ mb'.reset_ack_cnt = mb.reset_ack_cnt
      /\ mb'.reset_ack_turn = mb.reset_ack_turn /\ mb'.rx_turn = mb.rx_turn
      /\ mb'.auto_pass = mb.auto_pass /\ mb'.auto_bake_turn = mb.auto_bake_turn
      /\ mb'.auto_eos_turn = mb.auto_eos_turn
  BY <1>1 DEF RxFlag, MailboxTypes, MbTypes
<1>5. MailboxTypes'
  <2>1. rx \in RxTypes /\ rx.turn + 1 \in Nat
    BY <1>1 DEF MailboxTypes, Numbers
  <2>2. PICK pc \in RxPcs : rx' = [rx EXCEPT !.turn = @ + 1, !.pc = pc]
    BY DEF RxFlag, RxPcs
  <2>3. rx' \in RxTypes
    BY <2>1, <2>2 DEF RxTypes
  <2>4. mb' \in MbTypes
    BY <1>1 DEF RxFlag, MbTypes, MailboxTypes
  <2>5. pub_wake_bumped \in [rx : BOOLEAN, cons : BOOLEAN]
    BY <1>1 DEF pub_wake_bumped, MailboxTypes
  <2>6. seen' \in [rx : BOOLEAN, cons : BOOLEAN]
    BY <1>1, <2>5 DEF RxFlag, MailboxTypes
  <2> QED BY <1>1, <1>2, <2>3, <2>4, <2>6 DEF MailboxTypes
<1>6. /\ Pub' = Pub /\ From' = From /\ (Armed <=> Armed') /\ (Prearm <=> Prearm')
      /\ Pub = rx.turn + 1
  BY <1>2, <1>3, <1>4 DEF Pub, From, Armed, Prearm
<1>7. (InReset <=> InReset') /\ (InAck <=> InAck') /\ (InPass <=> InPass')
  BY <1>2 DEF InReset, InAck, InPass
<1>8. Base' = Base /\ Goal' = Goal
  BY <1>2, <1>6 DEF Base, Goal
<1>9. RingAt(f)'
  BY <1>1, <1>2, <1>3, <1>4, <1>6 DEF RingAt
<1>10. Handshake'
  BY <1>1, <1>2, <1>3, <1>4, <1>6, <1>7 DEF Handshake
<1>11. Progress'
  BY <1>1, <1>2, <1>3, <1>6 DEF Progress, Numbers
<1>12. Contents(f)'
  BY <1>1, <1>2, <1>4, <1>6 DEF Contents, Is
<1>13. Baking(f)'
  BY <1>1, <1>2, <1>3, <1>4, <1>6 DEF Baking
<1>14. Delivered'
  BY <1>1, <1>2, <1>6, <1>7, <1>8 DEF Delivered
<1>15. Skipping'
  BY <1>1, <1>2, <1>4, <1>7, <1>8 DEF Skipping
<1> QED BY <1>5, <1>9, <1>10, <1>11, <1>12, <1>13, <1>14, <1>15 DEF MailboxAt

\* Where the next pass may be baked: the first turn of this one is freed, and, unless
\* the advance is pre-armed, all of it.
LEMMA AdvanceReady ==
  ASSUME NEW f \in Nat, MailboxAt(f), rx.pc = "advance", advance_ready
  PROVE  Armed /\ f > From /\ (~Prearm => f = Pub /\ cons.turn = Pub /\ cons.held = {})
<1>1. /\ MailboxTypes /\ RingAt(f) /\ Handshake /\ Progress
      /\ Baking(f) /\ Numbers /\ Counts(f)
  BY Parts
<1>2. Armed /\ Pub = From + last_pub + 1 /\ Pub = rx.turn
  BY <1>1 DEF Handshake, Progress, Pub
<1>3. Prearm => f > From
  BY <1>1, <1>2 DEF Baking
<1>4. ASSUME ~Prearm
      PROVE  f = Pub /\ cons.turn = Pub /\ cons.held = {} /\ f > From
  <2>1. freed_itself(rx.turn - 1) /\ rx.turn - 1 \in Nat
    BY <1>1, <1>2, <1>4 DEF advance_ready, Numbers
  <2>2. rx.turn - 1 < f
    BY <1>1, <2>1, FreedItself
  <2>3. f <= cons.turn /\ cons.turn <= Pub /\ cons.held = f..(cons.turn - 1)
    BY <1>1 DEF RingAt
  <2> QED BY <1>1, <1>2, <2>2, <2>3 DEF Numbers
<1> QED BY <1>2, <1>3, <1>4

\* It moves on to the next pass, or gives up.
LEMMA AdvanceStep ==
  ASSUME NEW f \in Nat, MailboxAt(f), RxAdvance
  PROVE  MailboxAt(f)'
<1>1. /\ MailboxTypes /\ RingAt(f) /\ Handshake /\ Progress
      /\ Contents(f) /\ Baking(f) /\ Delivered /\ Skipping /\ Numbers
  BY Parts
<1>2. /\ rx.pc = "advance" /\ cons' = cons /\ seen' = seen /\ rx'.turn = rx.turn
      /\ rx'.mode = rx.mode /\ rx'.served = rx.served
  BY <1>1 DEF RxAdvance, RxGoes, MailboxTypes, RxTypes
<1>3. Armed /\ Pub = From + last_pub + 1 /\ Pub = rx.turn /\ From = rx.pass_start_turn
  BY <1>1, <1>2 DEF Handshake, Progress, Pub, From
<1>4. (InReset <=> InReset') /\ (InAck <=> InAck') /\ (InPass <=> InPass')
  BY <1>2 DEF InReset, InAck, InPass
<1>5. CASE ~advance_ready /\ RxGoes("exit") /\ UNCHANGED mb
  <2>1. SameRx /\ rx'.pc = "exit" /\ mb' = mb
    BY <1>1, <1>5 DEF RxGoes, MailboxTypes, RxTypes, SameRx
  <2>2. MailboxTypes'
    BY <1>1, <1>2, <1>5 DEF RxGoes, MailboxTypes, RxTypes, RxPcs
  <2>3. Pub' = Pub /\ From' = From /\ (Armed <=> Armed') /\ (Prearm <=> Prearm')
    BY <1>2, <2>1 DEF Pub, From, Armed, Prearm, SameRx
  <2>4. Base' = Base /\ Goal' = Goal
    BY <1>2, <2>1, <2>3 DEF Base, Goal, SameRx
  <2>5. RingAt(f)'
    BY <1>1, <1>2, <2>1, <2>3 DEF RingAt, SameRx
  <2>6. Handshake'
    BY <1>1, <1>2, <1>4, <2>1, <2>3 DEF Handshake, SameRx
  <2>7. Progress'
    BY <1>1, <1>2, <2>1, <2>3 DEF Progress, SameRx
  <2>8. Contents(f)'
    BY <1>1, <2>1, <2>3 DEF Contents, Is, SameRx
  <2>9. Baking(f)'
    BY <1>1, <1>2, <2>1, <2>3 DEF Baking, SameRx
  <2>10. Delivered' /\ Skipping'
    BY <1>1, <1>2, <1>4, <2>1, <2>3, <2>4 DEF Delivered, Skipping, SameRx
  <2> QED BY <2>2, <2>5, <2>6, <2>7, <2>8, <2>9, <2>10 DEF MailboxAt
<1>6. ASSUME advance_ready,
             rx' = [rx EXCEPT !.pc = "baked", !.pass = @ + 1, !.pos = 0,
                              !.pass_start_turn = rx.turn],
             mb' = [mb EXCEPT !.auto_bake_turn = rx.turn - 1]
      PROVE  MailboxAt(f)'
  <2>1. f > From /\ (~Prearm => f = Pub)
    BY <1>2, <1>6, AdvanceReady
  <2>2. /\ rx'.pc = "baked" /\ rx'.pass = rx.pass + 1 /\ rx'.pos = 0
        /\ rx'.pass_start_turn = rx.turn
    BY <1>1, <1>6 DEF MailboxTypes, RxTypes
  <2>3. /\ mb'.filled = mb.filled /\ mb'.freed = mb.freed /\ mb'.cmd = mb.cmd
        /\ mb'.pubs = mb.pubs
        /\ mb'.reset_session = mb.reset_session /\ mb'.reset_ack_cnt = mb.reset_ack_cnt
        /\ mb'.reset_ack_turn = mb.reset_ack_turn /\ mb'.rx_turn = mb.rx_turn
        /\ mb'.auto_pass = mb.auto_pass /\ mb'.auto_bake_turn = rx.turn - 1
        /\ mb'.auto_eos_turn = mb.auto_eos_turn
    BY <1>1, <1>6 DEF MailboxTypes, MbTypes
  <2>4. MailboxTypes'
    <3>1. rx \in RxTypes /\ mb \in MbTypes /\ rx.pass + 1 \in Nat /\ rx.turn \in Nat
          /\ rx.turn - 1 \in Int /\ "baked" \in RxPcs
      BY <1>1 DEF MailboxTypes, Numbers, RxPcs
    <3>2. rx' \in RxTypes
      BY <1>6, <3>1 DEF RxTypes
    <3>3. mb' \in MbTypes
      BY <1>6, <3>1 DEF MbTypes
    <3> QED BY <1>1, <1>2, <3>2, <3>3 DEF MailboxTypes
  <2>5. Pub' = Pub /\ From' = Pub /\ Armed' /\ (Prearm <=> Prearm')
    BY <1>2, <1>3, <2>2 DEF Pub, From, Armed, Prearm
  <2>6. f <= cons.turn /\ cons.turn <= Pub
    BY <1>1 DEF RingAt
  <2>7. RingAt(f)'
    BY <1>1, <1>2, <2>2, <2>3, <2>5 DEF RingAt
  <2>8. Handshake'
    BY <1>1, <1>2, <1>3, <1>4, <2>2, <2>3, <2>5 DEF Handshake
  <2>9. Progress'
    BY <1>1, <2>2, <2>5 DEF Progress, Numbers
  <2>10. Contents(f)'
    <3> SUFFICES ASSUME NEW t \in f..(Pub - 1)
                 PROVE  t < Pub /\ Is(t, rx.pass - 1, From - (last_pub + 1))'
      BY <1>1, <2>5 DEF Contents, Numbers
    <3>1. Is(t, rx.pass, From)
      BY <1>1, <2>1 DEF Contents, Numbers
    <3>2. rx'.pass - 1 = rx.pass /\ From' - (last_pub + 1) = From
      BY <1>1, <1>3, <2>2, <2>5 DEF Numbers
    <3>3. Is(t, rx.pass - 1, From - (last_pub + 1))'
      BY <2>3, <3>1, <3>2 DEF Is, last_pub
    <3> QED BY <1>1, <3>3 DEF Numbers
  <2>11. Baking(f)'
    BY <1>1, <1>2, <1>3, <2>1, <2>2, <2>3, <2>5 DEF Baking, Numbers
  <2>12. Delivered'
    <3>1. ASSUME ~InPass, ~InAck PROVE cons.resets = rx.pass
      <4>1. ASSUME cons.resets = rx.pass - 1 PROVE cons.turn <= From
        <5>1. Base = From - (last_pub + 1)
          BY <1>1, <4>1 DEF Base, Numbers
        <5>2. cons.turn <= Base + Chunks + 1
          BY <1>1, <3>1, <5>1 DEF Delivered, Numbers
        <5> QED BY <1>1, <5>1, <5>2 DEF Numbers
      <4> QED BY <1>1, <2>1, <2>6, <3>1, <4>1 DEF Delivered, Numbers
    <3>2. ASSUME ~InPass, ~InAck
          PROVE  cons.resets = rx'.pass - 1 /\ Base' = Base
      <4>1. cons.resets = rx'.pass - 1 /\ cons.resets # rx'.pass
        BY <1>1, <2>2, <3>1, <3>2 DEF Numbers
      <4>2. From' - (last_pub + 1) = From
        BY <1>1, <1>3, <2>5 DEF Numbers
      <4> QED BY <1>2, <3>1, <3>2, <4>1, <4>2 DEF Base, last_pub
    <3> QED BY <1>1, <1>2, <1>3, <1>4, <2>5, <3>2 DEF Delivered
  <2>13. Skipping'
    <3>1. ASSUME InPass PROVE cons.resets = rx.pass + 1
      <4>1. cons.resets = rx.pass => cons.turn <= From
        BY <1>1, <3>1 DEF Skipping, Goal
      <4> QED BY <1>1, <2>1, <2>6, <3>1, <4>1 DEF Skipping, Numbers
    <3>2. ASSUME InPass PROVE cons.resets = rx'.pass /\ Goal' = Goal
      <4>1. cons.resets # rx.pass
        BY <1>1, <3>1, <3>2 DEF Numbers
      <4> QED BY <1>2, <1>3, <2>2, <2>5, <3>1, <3>2, <4>1 DEF Goal, last_pub
    <3> QED BY <1>1, <1>2, <1>4, <2>3, <3>2 DEF Skipping, last_pub
  <2> QED BY <2>4, <2>7, <2>8, <2>9, <2>10, <2>11, <2>12, <2>13 DEF MailboxAt
<1> QED BY <1>5, <1>6 DEF RxAdvance

\* It announces the pass it has baked ahead.
LEMMA BakedStep ==
  ASSUME NEW f \in Nat, MailboxAt(f), RxBaked
  PROVE  MailboxAt(f)'
<1>1. /\ MailboxTypes /\ RingAt(f) /\ Handshake /\ Progress
      /\ Contents(f) /\ Baking(f) /\ Delivered /\ Skipping /\ Numbers
  BY Parts
<1>2. SameRx /\ rx.pc = "baked" /\ rx'.pc = "top" /\ cons' = cons
  BY <1>1 DEF RxBaked, RxGoes, MailboxTypes, RxTypes, SameRx
<1>3. /\ mb'.filled = mb.filled /\ mb'.freed = mb.freed /\ mb'.cmd = mb.cmd
      /\ mb'.pubs = mb.pubs
      /\ mb'.reset_session = mb.reset_session /\ mb'.reset_ack_cnt = mb.reset_ack_cnt
      /\ mb'.reset_ack_turn = mb.reset_ack_turn /\ mb'.rx_turn = mb.rx_turn
      /\ mb'.auto_pass = rx.pass /\ mb'.auto_bake_turn = mb.auto_bake_turn
      /\ mb'.auto_eos_turn = mb.auto_eos_turn
  BY <1>1 DEF RxBaked, MailboxTypes, MbTypes
<1>4. MailboxTypes'
  <2>1. rx' \in RxTypes
    BY <1>1 DEF RxBaked, RxGoes, MailboxTypes, RxTypes, RxPcs
  <2>2. mb' \in MbTypes
    BY <1>1 DEF RxBaked, MailboxTypes, RxTypes, MbTypes
  <2>3. seen' \in [rx : BOOLEAN, cons : BOOLEAN]
    BY <1>1 DEF RxBaked, MailboxTypes, wake_bumped
  <2> QED BY <1>1, <1>2, <2>1, <2>2, <2>3 DEF MailboxTypes
<1>5. /\ Pub' = Pub /\ From' = From /\ (Armed <=> Armed') /\ (Prearm <=> Prearm')
      /\ Pub = From /\ Armed
  BY <1>1, <1>2, <1>3 DEF Pub, From, Armed, Prearm, SameRx, Progress, Handshake
<1>6. (InReset <=> InReset') /\ (InAck <=> InAck') /\ (InPass <=> InPass')
  BY <1>2 DEF InReset, InAck, InPass
<1>7. Base' = Base /\ Goal' = Goal
  BY <1>2, <1>5 DEF SameRx, Base, Goal
<1>8. RingAt(f)'
  BY <1>1, <1>2, <1>3, <1>5 DEF RingAt, SameRx
<1>9. Handshake'
  BY <1>1, <1>2, <1>3, <1>5, <1>6 DEF Handshake, SameRx
<1>10. Progress'
  BY <1>1, <1>2, <1>5 DEF Progress, SameRx, Numbers
<1>11. Contents(f)'
  BY <1>1, <1>2, <1>3, <1>5 DEF Contents, SameRx, Is
<1>12. Baking(f)'
  BY <1>1, <1>2, <1>3, <1>5 DEF Baking, SameRx, Numbers
<1>13. Delivered'
  BY <1>1, <1>2, <1>5, <1>6, <1>7 DEF Delivered, SameRx
<1>14. Skipping'
  <2>1. mb.auto_pass <= mb'.auto_pass /\ mb.auto_pass \in Int
    BY <1>1, <1>2, <1>3, <1>5 DEF Baking, Numbers
  <2> QED BY <1>1, <1>2, <1>3, <1>6, <1>7, <2>1 DEF Skipping, SameRx, Numbers
<1> QED BY <1>4, <1>8, <1>9, <1>10, <1>11, <1>12, <1>13, <1>14 DEF MailboxAt

\* Every step of the RX thread keeps the invariant, and frees nothing.
LEMMA RxKeeps ==
  ASSUME NEW f \in Nat, MailboxAt(f), RxStep
  PROVE  MailboxAt(f)'
<1>1. CASE RxMove
  BY <1>1, MoveStep
<1>2. CASE RxServe
  BY <1>2, ServeStep
<1>3. CASE RxAck
  BY <1>3, AckStep
<1>4. CASE RxRun
  BY <1>4, RunStep
<1>5. CASE RxPublish
  BY <1>5, PublishStep
<1>6. CASE RxTurn \/ RxEosTurn
  BY <1>6, TurnStep
<1>7. CASE RxFlag
  BY <1>7, FlagStep
<1>8. CASE RxLand
  BY <1>8, LandStep
<1>9. CASE RxAdvance
  BY <1>9, AdvanceStep
<1>10. CASE RxBaked
  BY <1>10, BakedStep
<1> QED
  BY <1>1, <1>2, <1>3, <1>4, <1>5, <1>6, <1>7, <1>8, <1>9, <1>10 DEF RxStep, RxMove

-----------------------------------------------------------------------------
(* The consumer *)

\* what no step of the consumer writes
SameWords ==
    /\ rx' = rx /\ mb'.filled = mb.filled /\ mb'.pubs = mb.pubs
    /\ mb'.reset_ack_cnt = mb.reset_ack_cnt /\ mb'.reset_ack_turn = mb.reset_ack_turn
    /\ mb'.rx_turn = mb.rx_turn /\ mb'.auto_pass = mb.auto_pass
    /\ mb'.auto_bake_turn = mb.auto_bake_turn /\ mb'.auto_eos_turn = mb.auto_eos_turn

\* As long as the shared words stay, so does all that is said about them.
LEMMA WordsKeep ==
  ASSUME NEW f \in Nat, MailboxAt(f), SameWords
  PROVE  /\ Progress' /\ Pub' = Pub /\ From' = From
         /\ (Armed <=> Armed') /\ (Prearm <=> Prearm')
         /\ \A g \in Nat : g >= f => Contents(g)' /\ Baking(g)'
<1>1. /\ MailboxTypes /\ RingAt(f) /\ Progress /\ Contents(f) /\ Baking(f) /\ Numbers
  BY Parts
<1>2. Pub' = Pub /\ From' = From /\ (Armed <=> Armed') /\ (Prearm <=> Prearm')
  BY DEF SameWords, Pub, From, Armed, Prearm
<1>3. Progress'
  BY <1>1, <1>2 DEF Progress, SameWords
<1>4. ASSUME NEW g \in Nat, g >= f PROVE Contents(g)' /\ Baking(g)'
  <2>1. \A t \in g..(Pub - 1) : t \in f..(Pub - 1)
    BY <1>1, <1>4 DEF Numbers
  <2>2. Contents(g)'
    BY <1>1, <1>2, <2>1 DEF Contents, SameWords, Is
  <2>3. Baking(g)'
    BY <1>1, <1>2, <1>4 DEF Baking, SameWords, Numbers
  <2> QED BY <2>2, <2>3
<1> QED BY <1>2, <1>3, <1>4

\* A step that frees nothing and leaves the cursor.
Stays ==
    /\ SameWords /\ mb'.freed = mb.freed
    /\ cons'.turn = cons.turn /\ cons'.held = cons.held /\ cons'.rt <= Pub
    /\ cons'.pc = "take" => cons'.on = "filled" /\ cons'.turn < Pub
    /\ \/ cons'.pc \in {"user", "drop", "join", "gone"}
       \/ cons.pc \notin {"user", "drop", "join", "gone"}

\* A step that moves no shared word leaves the ring in order.
LEMMA StayStep ==
  ASSUME NEW f \in Nat, MailboxAt(f), Stays
  PROVE  RingAt(f)'
<1>1. RingAt(f)
  BY Parts
<1>2. Pub' = Pub
  BY DEF Stays, SameWords, Pub
<1> QED BY <1>1, <1>2 DEF RingAt, Stays, SameWords

\* A step that frees the turns from f up to its new cursor g.
Frees(f, g) ==
    /\ SameWords /\ mb'.freed = freeing(f..(g - 1))
    /\ f <= g /\ g <= Pub /\ cons'.turn = g /\ cons'.held = {} /\ cons'.rt = cons.rt
    /\ cons'.pc # "take"

\* Freeing the turns between two cursors keeps the ring in order.
LEMMA FreeStep ==
  ASSUME NEW f \in Nat, NEW g \in Nat, MailboxAt(f), Frees(f, g)
  PROVE  RingAt(g)' /\ mb'.freed \in [Slots -> Nat]
<1>1. RingAt(f) /\ Numbers /\ Counts(f) /\ f <= g
  BY Parts DEF Frees
<1>2. Pub' = Pub
  BY DEF Frees, SameWords, Pub
<1>3. /\ freeing(f..(g - 1)) \in [Slots -> Nat]
      /\ \A i \in Slots : freeing(f..(g - 1))[i] = Uses(g, i)
  BY <1>1, FreedCounts
<1>4. \A i \in Slots : mb'.freed[i] = Uses(g, i) /\ mb'.filled[i] < Pub
  BY <1>1, <1>3 DEF Frees, SameWords, RingAt
<1>5. \A t \in g..(Pub - 1) : mb'.filled[Slot(t)] = t
  <2>1. \A t \in g..(Pub - 1) : t \in f..(Pub - 1)
    BY <1>1 DEF Numbers
  <2> QED BY <1>1, <2>1 DEF RingAt, Frees, SameWords
<1>6. g..(g - 1) = {} /\ g <= g
  OBVIOUS
<1>7. g <= Pub /\ Pub <= g + NBUF
  BY <1>1 DEF RingAt, Frees, Numbers
<1>8. rx.pc \in {"render", "gate", "land"} => rx.turn < g + NBUF
  <2>1. rx.pc \in {"render", "gate", "land"} => rx.turn < f + NBUF
    BY <1>1 DEF RingAt
  <2>2. rx.turn \in Nat /\ NBUF \in Nat
    BY <1>1 DEF Numbers
  <2> QED BY <1>1, <2>1, <2>2
<1>9. mb.rx_turn = (IF rx.pc = "flag" THEN rx.turn + 1 ELSE rx.turn) /\ cons.rt <= Pub
  BY <1>1 DEF RingAt
<1>10. /\ rx' = rx /\ mb'.rx_turn = mb.rx_turn /\ cons'.turn = g /\ cons'.held = {}
       /\ cons'.rt = cons.rt /\ cons'.pc # "take"
  BY DEF Frees, SameWords
<1>11. RingAt(g)'
  BY <1>2, <1>4, <1>5, <1>6, <1>7, <1>8, <1>9, <1>10 DEF RingAt
<1> QED BY <1>3, <1>11 DEF Frees

\* The steps of a wait, and the bump of the futex word before it.
ConsMove ==
    ConsArrived \/ ConsFlag \/ ConsLoad \/ ConsCheck \/ ConsPark \/ ConsKick

Waits == {"wait", "load", "check", "park"}

\* What the waiting of the consumer leaves alone.
LEMMA ConsMoveFields ==
  ASSUME MailboxTypes, ConsMove
  PROVE  /\ MailboxTypes' /\ SameWords /\ mb'.freed = mb.freed /\ mb'.cmd = mb.cmd
         /\ mb'.reset_session = mb.reset_session
         /\ cons'.on = cons.on /\ cons'.turn = cons.turn /\ cons'.held = cons.held
         /\ cons'.resets = cons.resets /\ cons'.at_eos = cons.at_eos
         /\ cons'.rt = cons.rt /\ cons'.got = cons.got /\ cons'.drained = cons.drained
         /\ cons'.short = cons.short /\ cons'.panic = cons.panic
         /\ \/ cons.pc \in Waits \cup {"kick"} /\ cons'.pc \in Waits
            \/ cons.pc = "wait" /\ arrived /\ cons.on = "filled" /\ cons'.pc = "take"
            \/ cons.pc = "wait" /\ arrived /\ cons.on # "filled" /\ cons'.pc = "align"
<1>1. mb \in MbTypes /\ cons \in ConsTypes /\ rx \in RxTypes
      /\ seen \in [rx : BOOLEAN, cons : BOOLEAN]
  BY DEF MailboxTypes
<1>2. PICK pc \in ConsPcs, fl \in BOOLEAN :
         /\ cons' = [cons EXCEPT !.pc = pc, !.flagged = fl]
         /\ \/ cons.pc \in Waits \cup {"kick"} /\ pc \in Waits
            \/ cons.pc = "wait" /\ arrived /\ cons.on = "filled" /\ pc = "take"
            \/ cons.pc = "wait" /\ arrived /\ cons.on # "filled" /\ pc = "align"
  <2>1. cons.flagged \in BOOLEAN /\ \A pc : [cons EXCEPT !.pc = pc] =
           [cons EXCEPT !.pc = pc, !.flagged = cons.flagged]
    BY <1>1 DEF ConsTypes
  <2>2. CASE ConsArrived
    BY <2>1, <2>2 DEF ConsArrived, ConsPcs
  <2>3. CASE ConsFlag
    BY <2>1, <2>3 DEF ConsFlag, ConsPcs, Waits
  <2>4. CASE ConsLoad
    BY <2>1, <2>4 DEF ConsLoad, ConsPcs, Waits
  <2>5. CASE ConsCheck
    BY <2>1, <2>5 DEF ConsCheck, ConsPcs, Waits
  <2>6. CASE ConsPark
    BY <2>1, <2>6 DEF ConsPark, ConsPcs, Waits
  <2>7. CASE ConsKick
    BY <2>1, <2>7 DEF ConsKick, ConsPcs, Waits
  <2> QED BY <2>2, <2>3, <2>4, <2>5, <2>6, <2>7 DEF ConsMove
<1>3. PICK cp \in BOOLEAN : mb' = [mb EXCEPT !.cons_parked = cp]
  <2>1. mb.cons_parked \in BOOLEAN /\ mb = [mb EXCEPT !.cons_parked = mb.cons_parked]
    BY <1>1 DEF MbTypes
  <2>2. CASE ConsFlag
    <3>1. (mb.cons_parked \/ (cons.on = "filled" /\ ~cons.flagged)) \in BOOLEAN
      OBVIOUS
    <3> QED BY <2>2, <3>1 DEF ConsFlag
  <2>3. CASE mb' = mb
    BY <2>1, <2>3
  <2> QED BY <2>2, <2>3
        DEF ConsMove, ConsArrived, ConsLoad, ConsCheck, ConsPark, ConsKick
<1>4. rx' = rx
  BY DEF ConsMove, ConsArrived, ConsFlag, ConsLoad, ConsCheck, ConsPark, ConsKick
<1>5. seen' \in [rx : BOOLEAN, cons : BOOLEAN]
  <2>1. CASE ConsLoad
    BY <1>1, <2>1 DEF ConsLoad
  <2>2. CASE ConsKick
    BY <1>1, <2>2 DEF ConsKick, wake_bumped
  <2>3. CASE seen' = seen
    BY <1>1, <2>3
  <2> QED BY <2>1, <2>2, <2>3
        DEF ConsMove, ConsArrived, ConsFlag, ConsCheck, ConsPark
<1>6. cons' \in ConsTypes /\ mb' \in MbTypes
  BY <1>1, <1>2, <1>3 DEF ConsTypes, MbTypes
<1>7. /\ SameWords /\ mb'.freed = mb.freed /\ mb'.cmd = mb.cmd
      /\ mb'.reset_session = mb.reset_session
  BY <1>1, <1>3, <1>4 DEF MbTypes, SameWords
<1>8. /\ cons'.pc = pc
      /\ cons'.on = cons.on /\ cons'.turn = cons.turn /\ cons'.held = cons.held
      /\ cons'.resets = cons.resets /\ cons'.at_eos = cons.at_eos
      /\ cons'.rt = cons.rt /\ cons'.got = cons.got /\ cons'.drained = cons.drained
      /\ cons'.short = cons.short /\ cons'.panic = cons.panic
  BY <1>1, <1>2 DEF ConsTypes
<1> QED BY <1>1, <1>2, <1>4, <1>5, <1>6, <1>7, <1>8 DEF MailboxTypes

\* The consumer waits and looks.
LEMMA ConsMoveStep ==
  ASSUME NEW f \in Nat, MailboxAt(f), ConsMove
  PROVE  MailboxAt(f)'
<1>1. /\ MailboxTypes /\ RingAt(f) /\ Handshake /\ Delivered /\ Skipping /\ Numbers
  BY Parts
<1>2. /\ MailboxTypes' /\ SameWords /\ mb'.freed = mb.freed /\ mb'.cmd = mb.cmd
      /\ mb'.reset_session = mb.reset_session
      /\ cons'.on = cons.on /\ cons'.turn = cons.turn /\ cons'.held = cons.held
      /\ cons'.resets = cons.resets /\ cons'.at_eos = cons.at_eos
      /\ cons'.rt = cons.rt /\ cons'.got = cons.got /\ cons'.drained = cons.drained
      /\ cons'.short = cons.short /\ cons'.panic = cons.panic
  BY <1>1, ConsMoveFields
<1>3. \/ cons.pc \in Waits \cup {"kick"} /\ cons'.pc \in Waits
      \/ cons.pc = "wait" /\ arrived /\ cons.on = "filled" /\ cons'.pc = "take"
      \/ cons.pc = "wait" /\ arrived /\ cons.on # "filled" /\ cons'.pc = "align"
  BY <1>1, ConsMoveFields
<1>4. /\ Progress' /\ Pub' = Pub /\ From' = From
      /\ (Armed <=> Armed') /\ Contents(f)' /\ Baking(f)'
  BY <1>2, WordsKeep
<1>5. cons'.pc = "take" => cons'.on = "filled" /\ cons'.turn < Pub
  <2>1. ASSUME arrived, cons.on = "filled" PROVE cons.turn < Pub
    <3>1. mb.filled[Slot(cons.turn)] = cons.turn
      BY <2>1 DEF arrived
    <3>2. Slot(cons.turn) \in Slots
      BY <1>1, SlotType DEF Numbers
    <3> QED BY <1>1, <3>1, <3>2 DEF RingAt
  <2> QED BY <1>2, <1>3, <2>1 DEF Waits
<1>6. RingAt(f)'
  <2>1. Stays
    BY <1>1, <1>2, <1>3, <1>5 DEF Stays, Waits, RingAt
  <2> QED BY <2>1, StayStep
<1>7. cons'.pc = "align" =>
         rx.served = cons.resets /\ rx.pc # "ack" /\ InReset /\ ~Armed /\ cons.on = "ack"
  <2>1. ASSUME arrived, cons.on # "filled", cons.pc = "wait"
        PROVE  rx.served = cons.resets /\ rx.pc # "ack" /\ InReset /\ ~Armed
               /\ cons.on = "ack"
    <3>1. mb.reset_ack_cnt >= cons.resets
      BY <2>1 DEF arrived
    <3>2. ~Armed /\ cons.on = "ack"
      BY <1>1, <2>1 DEF Handshake, MailboxTypes, ConsTypes
    <3>3. InReset
      BY <2>1, <3>2 DEF InReset
    <3>4. rx.served = cons.resets /\ rx.pc # "ack"
      BY <1>1, <3>1, <3>2 DEF Handshake, Numbers
    <3> QED BY <3>2, <3>3, <3>4
  <2> QED BY <1>3, <2>1 DEF Waits
<1>8. /\ InAck <=> InAck'
      /\ ~InPass /\ ~InPass'
      /\ cons'.pc # "align" => (InReset <=> InReset')
  BY <1>1, <1>2, <1>3, <1>7 DEF InAck, InPass, InReset, Waits, Handshake
<1>9. Handshake'
  BY <1>1, <1>2, <1>3, <1>4, <1>7, <1>8 DEF Handshake, SameWords, Waits, Numbers, InReset
<1>10. Delivered'
  <2>1. Base' = Base
    BY <1>2, <1>4 DEF Base, SameWords
  <2>2. cons'.drained =>
           /\ cons'.pc # "take"
           /\ ~(cons'.on = "filled" /\ cons'.pc \in {"wait", "load", "check", "park"})
    BY <1>1, <1>2, <1>3 DEF Delivered, Waits, Handshake
  <2> QED BY <1>1, <1>2, <1>4, <1>8, <2>1, <2>2 DEF Delivered, SameWords
<1>11. Skipping'
  BY <1>8 DEF Skipping
<1> QED BY <1>2, <1>4, <1>6, <1>9, <1>10, <1>11 DEF MailboxAt

\* The consumer holds the turns from f on; inside a call it holds none.
LEMMA HeldTurns ==
  ASSUME NEW f \in Nat, MailboxAt(f)
  PROVE  /\ f <= cons.turn /\ cons.turn <= Pub /\ cons.held = f..(cons.turn - 1)
         /\ cons.pc \notin {"user", "drop", "join", "gone"} => f = cons.turn /\ cons.held = {}
<1>1. RingAt(f) /\ Numbers
  BY Parts
<1>2. f <= cons.turn /\ cons.turn <= Pub /\ cons.held = f..(cons.turn - 1)
  BY <1>1 DEF RingAt
<1>3. cons.pc \notin {"user", "drop", "join", "gone"} => cons.turn <= f
  BY <1>1 DEF RingAt
<1> QED BY <1>1, <1>2, <1>3 DEF Numbers

\* What is left to show for a step of the consumer that frees.
LEMMA FreeKeeps ==
  ASSUME NEW f \in Nat, NEW g \in Nat, MailboxAt(f), Frees(f, g),
         MailboxTypes', Handshake', Delivered', Skipping'
  PROVE  MailboxInv'
<1>1. RingAt(g)'
  BY FreeStep
<1>2. SameWords /\ g >= f
  BY DEF Frees
<1>3. Progress' /\ Contents(g)' /\ Baking(g)'
  BY <1>2, WordsKeep
<1>4. MailboxAt(g)'
  BY <1>1, <1>3 DEF MailboxAt
<1> QED BY <1>4 DEF MailboxInv

\* The consumer goes on to its next group.
LEMMA NextGroupStep ==
  ASSUME NEW f \in Nat, MailboxAt(f), NEW k \in Groups, NextGroup(k)
  PROVE  MailboxInv'
<1>1. /\ MailboxTypes /\ Handshake /\ Delivered /\ Skipping /\ Numbers
  BY Parts
<1>2. mb \in MbTypes /\ cons \in ConsTypes /\ k \in Nat \ {0}
  BY <1>1, MailboxAssumption DEF MailboxTypes
<1>3. /\ SameWords /\ mb'.freed = freeing(cons.held) /\ mb'.cmd = mb.cmd
      /\ mb'.reset_session = mb.reset_session
  BY <1>2 DEF NextGroup, MbTypes, SameWords
<1>4. /\ cons.pc = "user" /\ ~cons.drained /\ cons'.pc = "wait" /\ cons'.on = "filled"
      /\ cons'.turn = cons.turn /\ cons'.held = {}
      /\ cons'.resets = cons.resets /\ cons'.at_eos = cons.at_eos
      /\ cons'.rt = cons.rt /\ cons'.got = cons.got /\ cons'.drained = cons.drained
      /\ cons'.short = cons.short /\ cons'.panic = cons.panic
  BY <1>2 DEF NextGroup, ConsTypes
<1>5. PICK g \in Nat : g = cons.turn
  BY <1>1 DEF Numbers
<1>6. Frees(f, g)
  BY <1>3, <1>4, <1>5, HeldTurns DEF Frees
<1>7. MailboxTypes'
  <2>1. freeing(cons.held) \in [Slots -> Nat]
    BY <1>3, <1>6, FreeStep
  <2>2. mb' \in MbTypes
    BY <1>2, <2>1 DEF NextGroup, MbTypes
  <2>3. cons' \in ConsTypes
    BY <1>2 DEF NextGroup, ConsTypes, ConsPcs
  <2> QED BY <1>1, <2>2, <2>3 DEF NextGroup, MailboxTypes
<1>8. (Armed <=> Armed') /\ Pub' = Pub /\ Base' = Base
  BY <1>3, <1>4 DEF SameWords, Armed, Pub, Base, From
<1>9. ~InReset /\ ~InReset' /\ ~InAck /\ ~InAck' /\ ~InPass /\ ~InPass'
  BY <1>4 DEF InReset, InAck, InPass
<1>10. Handshake'
  BY <1>1, <1>3, <1>4, <1>8, <1>9 DEF Handshake, SameWords
<1>11. Delivered'
  BY <1>1, <1>3, <1>4, <1>8, <1>9 DEF Delivered, SameWords
<1>12. Skipping'
  BY <1>9 DEF Skipping
<1> QED BY <1>6, <1>7, <1>10, <1>11, <1>12, FreeKeeps

\* The consumer asks for a reset.
LEMMA ResetStep ==
  ASSUME NEW f \in Nat, MailboxAt(f), Reset
  PROVE  MailboxInv'
<1>1. /\ MailboxTypes /\ Handshake /\ Delivered /\ Skipping /\ Numbers
  BY Parts
<1>2. mb \in MbTypes /\ cons \in ConsTypes /\ cons.resets + 1 \in Nat
  BY <1>1 DEF MailboxTypes, Numbers
<1>3. /\ SameWords /\ mb'.freed = freeing(cons.held) /\ mb'.cmd = "reset"
      /\ mb'.reset_session = cons.resets + 1
  BY <1>2 DEF Reset, MbTypes, SameWords
<1>4. /\ cons.pc = "user" /\ ~Armed /\ cons'.pc = "kick" /\ cons'.on = "ack"
      /\ cons'.turn = cons.turn /\ cons'.held = {}
      /\ cons'.resets = cons.resets + 1 /\ cons'.at_eos = cons.at_eos
      /\ cons'.rt = cons.rt /\ cons'.got = cons.got /\ cons'.drained = cons.drained
      /\ cons'.short = cons.short /\ cons'.panic = cons.panic
  BY <1>2 DEF Reset, ConsTypes
<1>5. PICK g \in Nat : g = cons.turn
  BY <1>1 DEF Numbers
<1>6. Frees(f, g)
  BY <1>3, <1>4, <1>5, HeldTurns DEF Frees
<1>7. MailboxTypes'
  <2>1. freeing(cons.held) \in [Slots -> Nat]
    BY <1>3, <1>6, FreeStep
  <2>2. mb' \in MbTypes
    BY <1>2, <2>1 DEF Reset, MbTypes
  <2>3. cons' \in ConsTypes
    BY <1>2 DEF Reset, ConsTypes, ConsPcs
  <2> QED BY <1>1, <2>2, <2>3 DEF Reset, MailboxTypes
<1>8. ~Armed' /\ Pub' = Pub
  BY <1>3, <1>4 DEF SameWords, Armed, Pub
<1>9. ~InReset /\ InReset' /\ ~InAck /\ InAck' /\ ~InPass /\ ~InPass'
  BY <1>4 DEF InReset, InAck, InPass
<1>10. Handshake'
  BY <1>1, <1>3, <1>4, <1>8, <1>9 DEF Handshake, SameWords, Numbers
<1>11. Delivered'
  BY <1>1, <1>3, <1>4, <1>8, <1>9 DEF Delivered, SameWords
<1>12. Skipping'
  BY <1>9 DEF Skipping
<1> QED BY <1>6, <1>7, <1>10, <1>11, <1>12, FreeKeeps

\* The answer says at which turn the new pass starts.
LEMMA AlignStep ==
  ASSUME NEW f \in Nat, MailboxAt(f), ConsAlign
  PROVE  MailboxInv'
<1>1. /\ MailboxTypes /\ Handshake /\ Delivered /\ Skipping /\ Numbers
  BY Parts
<1>2. mb \in MbTypes /\ cons \in ConsTypes /\ mb.reset_ack_turn \in Nat
  BY <1>1 DEF MailboxTypes, Numbers
<1>3. /\ SameWords /\ mb'.freed = freeing(skipped(cons.turn, mb.reset_ack_turn))
      /\ mb'.cmd = mb.cmd /\ mb'.reset_session = mb.reset_session
  BY <1>2 DEF ConsAlign, MbTypes, SameWords, resumes_at
<1>4. /\ cons.pc = "align" /\ cons'.pc = "user" /\ cons'.on = cons.on
      /\ cons'.turn = mb.reset_ack_turn /\ cons'.held = cons.held
      /\ cons'.resets = cons.resets /\ cons'.at_eos = cons.at_eos
      /\ cons'.rt = cons.rt /\ cons'.got = 0 /\ cons'.drained = FALSE
      /\ cons'.short = cons.short /\ cons'.panic = cons.panic
  BY <1>2 DEF ConsAlign, ConsTypes, resumes_at
<1>5. PICK g \in Nat : g = mb.reset_ack_turn
  BY <1>2
<1>6. ~InReset /\ InAck /\ ~InReset' /\ ~InAck' /\ ~InPass /\ ~InPass'
  BY <1>4 DEF InReset, InAck, InPass
<1>7. ~Armed /\ rx.served = cons.resets /\ cons.turn <= g /\ g <= Pub
  BY <1>1, <1>4, <1>5, <1>6 DEF Handshake
<1>8. f = cons.turn /\ cons.held = {}
  BY <1>4, HeldTurns
<1>9. Frees(f, g)
  BY <1>3, <1>4, <1>5, <1>7, <1>8 DEF Frees, skipped
<1>10. MailboxTypes'
  <2>1. mb'.freed \in [Slots -> Nat]
    BY <1>9, FreeStep
  <2>2. mb' \in MbTypes
    BY <1>2, <1>3, <2>1 DEF ConsAlign, MbTypes, resumes_at
  <2>3. cons' \in ConsTypes
    BY <1>2 DEF ConsAlign, ConsTypes, ConsPcs, resumes_at
  <2> QED BY <1>1, <2>2, <2>3 DEF ConsAlign, MailboxTypes
<1>11. ~Armed' /\ Pub' = Pub /\ From' = mb.reset_ack_turn
  BY <1>3, <1>7 DEF SameWords, Armed, Pub, From
<1>12. Handshake'
  BY <1>1, <1>3, <1>4, <1>6, <1>7, <1>11 DEF Handshake, SameWords, Numbers
<1>13. Delivered'
  <2>1. rx.pass = cons.resets
    BY <1>1, <1>7 DEF Delivered
  <2>2. Base' = mb.reset_ack_turn
    BY <1>3, <1>4, <1>11, <2>1 DEF Base, SameWords
  <2>3. cons'.turn = Base' + cons'.got /\ cons'.got <= Chunks
    BY <1>1, <1>4, <2>2 DEF Numbers
  <2> QED BY <1>1, <1>3, <1>4, <1>6, <1>7, <1>11, <2>1, <2>3 DEF Delivered, SameWords
<1>14. Skipping'
  BY <1>6 DEF Skipping
<1> QED BY <1>9, <1>10, <1>12, <1>13, <1>14, FreeKeeps

\* Drop, up to the join.
LEMMA DropStep ==
  ASSUME NEW f \in Nat, MailboxAt(f), Drop \/ ConsShutdown \/ ConsJoin
  PROVE  MailboxInv'
<1>1. /\ MailboxTypes /\ RingAt(f) /\ Handshake /\ Delivered /\ Skipping /\ Numbers
  BY Parts
<1>2. /\ mb \in MbTypes /\ cons \in ConsTypes /\ rx \in RxTypes
      /\ seen \in [rx : BOOLEAN, cons : BOOLEAN]
  BY <1>1 DEF MailboxTypes
<1>3. /\ SameWords /\ mb'.freed = mb.freed /\ mb'.reset_session = mb.reset_session
      /\ mb'.cmd = mb.cmd \/ (mb'.cmd = "shutdown" /\ cons.pc = "user")
  BY <1>2 DEF Drop, ConsShutdown, ConsJoin, MbTypes, SameWords
<1>4. /\ cons.pc \in {"user", "drop", "join"} /\ cons'.pc \in {"drop", "join", "gone"}
      /\ cons'.on = cons.on /\ cons'.turn = cons.turn /\ cons'.held = cons.held
      /\ cons'.resets = cons.resets /\ cons'.at_eos = cons.at_eos
      /\ cons'.rt = cons.rt /\ cons'.got = cons.got /\ cons'.drained = cons.drained
      /\ cons'.short = cons.short /\ cons'.panic = cons.panic
  BY <1>2 DEF Drop, ConsShutdown, ConsJoin, ConsTypes
<1>5. MailboxTypes'
  <2>1. mb' \in MbTypes
    <3>1. CASE Drop
      BY <1>2, <3>1 DEF Drop, MbTypes
    <3>2. CASE ConsShutdown
      BY <1>2, <3>2 DEF ConsShutdown, MbTypes
    <3>3. CASE ConsJoin
      BY <1>2, <3>3 DEF ConsJoin
    <3> QED BY <3>1, <3>2, <3>3
  <2>2. cons' \in ConsTypes
    BY <1>2 DEF Drop, ConsShutdown, ConsJoin, ConsTypes, ConsPcs
  <2>3. seen' \in [rx : BOOLEAN, cons : BOOLEAN]
    <3>1. wake_bumped \in [rx : BOOLEAN, cons : BOOLEAN]
      BY <1>2 DEF wake_bumped
    <3> QED BY <1>2, <3>1 DEF Drop, ConsShutdown, ConsJoin
  <2> QED BY <1>2, <1>3, <2>1, <2>2, <2>3 DEF MailboxTypes, SameWords
<1>6. ~InReset /\ ~InAck /\ ~InPass /\ ~InReset' /\ ~InAck' /\ ~InPass'
  BY <1>4 DEF InReset, InAck, InPass
<1>7. RingAt(f)'
  <2>1. Stays
    BY <1>1, <1>3, <1>4 DEF Stays, RingAt
  <2> QED BY <2>1, StayStep
<1>8. /\ Progress' /\ Pub' = Pub /\ From' = From
      /\ (Armed <=> Armed') /\ Contents(f)' /\ Baking(f)'
  BY <1>3, WordsKeep
<1>9. Handshake'
  BY <1>1, <1>3, <1>4, <1>6, <1>8 DEF Handshake, SameWords
<1>10. Base' = Base
  BY <1>3, <1>4, <1>8 DEF Base, SameWords
<1>11. Delivered'
  BY <1>1, <1>3, <1>4, <1>6, <1>8, <1>10 DEF Delivered, SameWords
<1>12. Skipping'
  BY <1>6 DEF Skipping
<1>13. MailboxAt(f)'
  BY <1>5, <1>7, <1>8, <1>9, <1>11, <1>12 DEF MailboxAt
<1> QED BY <1>13 DEF MailboxInv

\* The turns from the cursor on, as far as the end of its pass, hold that pass.
LEMMA Mine ==
  ASSUME NEW f \in Nat, MailboxAt(f), ~InPass, ~InAck,
         NEW t \in cons.turn..(Pub - 1), Base <= t, t <= Base + Chunks
  PROVE  Is(t, cons.resets, Base)
<1>1. Contents(f) /\ Delivered /\ Numbers /\ f <= cons.turn
  BY Parts, HeldTurns
<1>2. t \in f..(Pub - 1)
  BY <1>1 DEF Numbers
<1>3. CASE cons.resets = rx.pass
  <2>1. Base = From
    BY <1>3 DEF Base
  <2> QED BY <1>1, <1>2, <1>3, <2>1 DEF Contents
<1>4. CASE Armed /\ cons.resets = rx.pass - 1
  <2>1. Base = From - (last_pub + 1)
    BY <1>1, <1>4 DEF Base, Numbers
  <2>2. t < From
    BY <1>1, <2>1 DEF Numbers
  <2> QED BY <1>1, <1>2, <1>4, <2>1, <2>2 DEF Contents
<1> QED BY <1>1, <1>3, <1>4 DEF Delivered

\* The consumer at its turn: where it stands in its pass.
LEMMA AtTurn ==
  ASSUME NEW f \in Nat, MailboxAt(f), cons.pc = "take"
  PROVE  /\ ~InReset /\ ~InPass /\ ~InAck /\ ~cons.drained /\ cons.on = "filled"
         /\ cons.turn < Pub /\ f = cons.turn /\ cons.held = {}
         /\ cons.turn = Base + cons.got /\ cons.got <= Chunks /\ Base \in Int
<1>1. RingAt(f) /\ Delivered /\ Numbers
  BY Parts
<1>2. ~InReset /\ ~InPass /\ ~InAck
  BY DEF InReset, InPass, InAck
<1>3. ~cons.drained
  BY <1>1 DEF Delivered
<1>4. cons.turn < Pub /\ cons.on = "filled"
  BY <1>1 DEF RingAt
<1>5. f = cons.turn /\ cons.held = {}
  BY HeldTurns
<1>6. Base \in Int
  BY <1>1 DEF Base, Numbers
<1> QED BY <1>1, <1>2, <1>3, <1>4, <1>5, <1>6 DEF Delivered

\* The sweep takes turns that are published and of this pass, in their order.
LEMMA Sweep ==
  ASSUME NEW f \in Nat, MailboxAt(f), cons.pc = "take"
  PROVE  LET n == Cardinality(swept)
         IN  /\ n \in Nat /\ cons.turn + n <= Pub /\ cons.got + n <= Chunks
             /\ \A j \in 0..(n - 1) : expected(cons.turn + j, j)
<1> DEFINE n == Cardinality(swept)
           Good(j) == LET i == Slot(cons.turn + j)
                      IN  mb.filled[i] = cons.turn + j /\ mb.pubs[i].len # 0
<1>1. MailboxTypes /\ RingAt(f) /\ Numbers
  BY Parts
<1>2. /\ ~InPass /\ ~InAck /\ cons.turn < Pub /\ f = cons.turn
      /\ cons.turn = Base + cons.got /\ cons.got <= Chunks /\ Base \in Int
  BY AtTurn
<1>3. cons.k \in Nat
  BY <1>1 DEF MailboxTypes, ConsTypes
<1>4. n \in Nat /\ swept = 1..n
  <2>1. swept \in SUBSET (1..cons.k)
    BY DEF swept
  <2>2. \A a \in swept : \A b \in 1..a : b \in swept
    BY <1>3 DEF swept
  <2> QED BY <1>3, <2>1, <2>2, NoHoles
<1>5. \A j \in 0..(n - 1) : Good(j)
  <2> SUFFICES ASSUME NEW j \in 0..(n - 1) PROVE Good(j)
    OBVIOUS
  <2> HIDE DEF n
  <2>1. n \in swept /\ n >= 1
    BY <1>4
  <2> QED BY <2>1 DEF swept
<1> HIDE DEF n
<1>a. n \in Nat
  BY <1>4
<1>b. cons.turn \in Nat /\ cons.got \in Nat /\ Chunks \in Nat /\ Pub \in Nat /\ Base \in Int
  BY <1>1, <1>2 DEF Numbers
<1>c. cons.turn < Pub /\ cons.turn = Base + cons.got /\ cons.got <= Chunks
  BY <1>2
<1>6. \A j \in 0..(n - 1) : cons.turn + j < Pub
  <2> SUFFICES ASSUME NEW j \in 0..(n - 1) PROVE cons.turn + j < Pub
    OBVIOUS
  <2>1. cons.turn + j \in Nat
    BY <1>a, <1>b
  <2>2. Slot(cons.turn + j) \in Slots
    BY <2>1, SlotType
  <2>3. mb.filled[Slot(cons.turn + j)] = cons.turn + j
    BY <1>5
  <2>4. mb.filled[Slot(cons.turn + j)] < Pub
    BY <1>1, <2>2 DEF RingAt
  <2> QED BY <2>3, <2>4
<1>7. ASSUME NEW j \in 0..(n - 1), cons.got + j <= Chunks
      PROVE  Is(cons.turn + j, cons.resets, Base) /\ (cons.turn + j) - Base = cons.got + j
  <2>1. cons.turn + j \in cons.turn..(Pub - 1)
    BY <1>a, <1>6, <1>b
  <2>2. /\ Base <= cons.turn + j /\ cons.turn + j <= Base + Chunks
        /\ (cons.turn + j) - Base = cons.got + j
    BY <1>c, <1>a, <1>7, <1>b
  <2> QED BY <1>2, <2>1, <2>2, Mine
<1>8. \A j \in 0..(n - 1) : cons.got + j < Chunks
  <2> SUFFICES ASSUME NEW j \in 0..(n - 1), cons.got + j >= Chunks PROVE FALSE
    BY <1>a, <1>b
  <2> DEFINE m == Chunks - cons.got
  <2>1. m \in 0..(n - 1) /\ cons.got + m = Chunks
    BY <1>c, <1>a, <1>b
  <2> HIDE DEF m
  <2>2. Is(cons.turn + m, cons.resets, Base) /\ (cons.turn + m) - Base = Chunks
    BY <1>7, <2>1, <1>b
  <2>3. mb.pubs[Slot(cons.turn + m)].len = 0
    <3>1. ~((cons.turn + m) - Base < Chunks)
      BY <1>b, <2>2
    <3> QED BY <2>2, <3>1, Zenon DEF Is
  <2> QED BY <1>5, <2>1, <2>3
<1>9. \A j \in 0..(n - 1) : expected(cons.turn + j, j)
  <2> SUFFICES ASSUME NEW j \in 0..(n - 1) PROVE expected(cons.turn + j, j)
    OBVIOUS
  <2>1. cons.got + j < Chunks
    BY <1>8
  <2>2. Is(cons.turn + j, cons.resets, Base) /\ (cons.turn + j) - Base = cons.got + j
    BY <1>a, <1>7, <2>1, <1>b
  <2> DEFINE e == mb.pubs[Slot(cons.turn + j)]
             d == (cons.turn + j) - Base
  <2>3. d < Chunks => e = [pass |-> cons.resets, idx |-> d, len |-> 1]
    BY <2>2 DEF Is
  <2>4. e = [pass |-> cons.resets, idx |-> cons.got + j, len |-> 1]
    BY <2>1, <2>2, <2>3, Zenon
  <2> QED BY <2>4 DEF expected
<1>10. cons.turn + n <= Pub /\ cons.got + n <= Chunks
  <2>1. CASE n = 0
    BY <1>c, <2>1, <1>b
  <2>2. CASE n # 0
    <3>1. n - 1 \in 0..(n - 1)
      BY <1>4, <2>2
    <3> QED BY <1>a, <1>6, <1>8, <3>1, <1>b
  <2> QED BY <2>1, <2>2
<1> QED BY <1>4, <1>9, <1>10 DEF n

\* The consumer takes every batch it swept.
LEMMA TakeStep ==
  ASSUME NEW f \in Nat, MailboxAt(f), ConsTake
  PROVE  MailboxInv'
<1>1. /\ MailboxTypes /\ RingAt(f) /\ Handshake /\ Delivered /\ Skipping /\ Numbers
  BY Parts
<1>2. /\ mb \in MbTypes /\ cons \in ConsTypes /\ cons.pc = "take"
  BY <1>1 DEF MailboxTypes, ConsTake
<1>3. PICK n \in Nat : n = Cardinality(swept) /\ cons.turn + n <= Pub
                       /\ cons.got + n <= Chunks
                       /\ \A j \in 0..(n - 1) : expected(cons.turn + j, j)
  BY <1>2, Sweep
<1>4. /\ ~InReset /\ ~InPass /\ ~InAck /\ ~cons.drained /\ cons.on = "filled"
      /\ cons.turn < Pub /\ f = cons.turn /\ cons.held = {}
      /\ cons.turn = Base + cons.got /\ cons.got <= Chunks /\ Base \in Int
  BY <1>2, AtTurn
<1>5. PICK sh \in BOOLEAN :
         /\ cons' = [cons EXCEPT !.pc = "user", !.held = cons.turn..(cons.turn + n - 1),
                                 !.turn = @ + n, !.at_eos = FALSE, !.got = @ + n,
                                 !.short = sh]
         /\ sh <=> (cons.short \/ \E j \in 0..(n - 1) : ~expected(cons.turn + j, j))
  BY <1>3 DEF ConsTake
<1>6. sh = FALSE
  BY <1>1, <1>3, <1>5 DEF Delivered
<1>7. PICK cp \in BOOLEAN : mb' = [mb EXCEPT !.cons_parked = cp]
  BY DEF ConsTake
<1>8. /\ SameWords /\ mb'.freed = mb.freed /\ mb'.cmd = mb.cmd
      /\ mb'.reset_session = mb.reset_session
  BY <1>2, <1>7 DEF ConsTake, MbTypes, SameWords
<1>9. /\ cons'.pc = "user" /\ cons'.on = cons.on
      /\ cons'.held = f..(cons.turn + n - 1) /\ cons'.turn = cons.turn + n
      /\ cons'.resets = cons.resets /\ cons'.at_eos = FALSE
      /\ cons'.rt = cons.rt /\ cons'.got = cons.got + n /\ cons'.drained = cons.drained
      /\ cons'.short = FALSE /\ cons'.panic = cons.panic
  BY <1>2, <1>4, <1>5, <1>6 DEF ConsTypes
<1>10. MailboxTypes'
  <2>1. /\ cons.turn + n \in Nat /\ cons.got + n \in Nat /\ "user" \in ConsPcs
        /\ cons.turn..(cons.turn + n - 1) \in SUBSET Nat
    BY <1>1 DEF Numbers, ConsPcs
  <2>2. cons' \in ConsTypes
    <3> DEFINE took == cons.turn..(cons.turn + n - 1)
               turn == cons.turn + n
               got == cons.got + n
    <3>1. cons' = [cons EXCEPT !.pc = "user", !.held = took, !.turn = turn,
                               !.at_eos = FALSE, !.got = got, !.short = sh]
      BY <1>5
    <3>2. took \in SUBSET Nat /\ turn \in Nat /\ got \in Nat /\ sh \in BOOLEAN
      BY <1>5, <2>1
    <3> HIDE DEF took, turn, got
    <3> QED BY <1>2, <2>1, <3>1, <3>2 DEF ConsTypes
  <2>3. mb' \in MbTypes
    BY <1>2, <1>7 DEF MbTypes
  <2> QED BY <1>1, <2>2, <2>3 DEF ConsTake, MailboxTypes
<1>11. /\ Progress' /\ Pub' = Pub /\ From' = From
       /\ (Armed <=> Armed') /\ Contents(f)' /\ Baking(f)'
  BY <1>8, WordsKeep
<1>12. RingAt(f)'
  <2>1. cons.turn \in Nat /\ f = cons.turn /\ cons'.turn = cons.turn + n
        /\ cons.turn + n <= Pub /\ cons'.held = f..(cons.turn + n - 1)
    BY <1>1, <1>3, <1>4, <1>9 DEF Numbers
  <2>2. f <= cons'.turn /\ cons'.turn <= Pub /\ cons'.held = f..(cons'.turn - 1)
    BY <2>1
  <2> QED BY <1>1, <1>8, <1>9, <1>11, <2>2 DEF RingAt, SameWords
<1>13. ~InReset' /\ ~InPass' /\ ~InAck'
  BY <1>9 DEF InReset, InPass, InAck
<1>14. Handshake'
  BY <1>1, <1>4, <1>8, <1>9, <1>11, <1>13 DEF Handshake, SameWords
<1>15. Delivered'
  <2>1. Base' = Base
    BY <1>8, <1>9, <1>11 DEF Base, SameWords
  <2>2. cons'.turn = Base' + cons'.got /\ cons'.got <= Chunks
    BY <1>1, <1>3, <1>4, <1>9, <2>1 DEF Numbers
  <2>3. cons.resets = rx.pass \/ (Armed /\ cons.resets = rx.pass - 1)
    BY <1>1, <1>4 DEF Delivered
  <2>4. ~cons.panic /\ (~Armed => rx.pass = rx.served)
    BY <1>1 DEF Delivered
  <2> QED BY <1>4, <1>8, <1>9, <1>11, <2>2, <2>3, <2>4 DEF Delivered, SameWords
<1>16. Skipping'
  BY <1>13 DEF Skipping
<1>17. MailboxAt(f)'
  BY <1>10, <1>11, <1>12, <1>14, <1>15, <1>16 DEF MailboxAt
<1> QED BY <1>17 DEF MailboxInv

\* The end of a pass comes after all of it.
LEMMA TakeEosStep ==
  ASSUME NEW f \in Nat, MailboxAt(f), ConsTakeEos
  PROVE  MailboxInv'
<1>1. /\ MailboxTypes /\ RingAt(f) /\ Handshake /\ Delivered /\ Skipping /\ Numbers
  BY Parts
<1>2. /\ mb \in MbTypes /\ cons \in ConsTypes /\ cons.pc = "take"
      /\ mb.pubs[Slot(cons.turn)].len = 0
  BY <1>1 DEF MailboxTypes, ConsTakeEos
<1>3. /\ ~InReset /\ ~InPass /\ ~InAck /\ ~cons.drained /\ cons.on = "filled"
      /\ cons.turn < Pub /\ f = cons.turn /\ cons.held = {}
      /\ cons.turn = Base + cons.got /\ cons.got <= Chunks /\ Base \in Int
  BY <1>2, AtTurn
<1>4. cons.got = Chunks
  <2>1. cons.turn \in cons.turn..(Pub - 1) /\ Base <= cons.turn
        /\ cons.turn <= Base + Chunks /\ cons.turn - Base = cons.got
    BY <1>1, <1>3 DEF Numbers
  <2>2. Is(cons.turn, cons.resets, Base)
    BY <1>3, <2>1, Mine
  <2>3. ~(cons.got < Chunks)
    BY <1>2, <2>1, <2>2 DEF Is
  <2> QED BY <1>1, <1>3, <2>3 DEF Numbers
<1>5. PICK sh \in BOOLEAN :
         /\ cons' = [cons EXCEPT !.pc = "user", !.turn = @ + 1, !.at_eos = TRUE,
                                 !.drained = TRUE, !.short = sh]
         /\ sh <=> (cons.short \/ cons.got # Chunks)
  BY DEF ConsTakeEos
<1>6. sh = FALSE
  BY <1>1, <1>4, <1>5 DEF Delivered
<1>7. PICK cp \in BOOLEAN : mb' = [mb EXCEPT !.cons_parked = cp,
                                            !.freed = freeing({cons.turn})]
  BY DEF ConsTakeEos
<1>8. /\ SameWords /\ mb'.freed = freeing({cons.turn}) /\ mb'.cmd = mb.cmd
      /\ mb'.reset_session = mb.reset_session
  BY <1>2, <1>7 DEF ConsTakeEos, MbTypes, SameWords
<1>9. /\ cons'.pc = "user" /\ cons'.on = cons.on
      /\ cons'.held = {} /\ cons'.turn = cons.turn + 1
      /\ cons'.resets = cons.resets /\ cons'.at_eos = TRUE
      /\ cons'.rt = cons.rt /\ cons'.got = cons.got /\ cons'.drained = TRUE
      /\ cons'.short = FALSE /\ cons'.panic = cons.panic
  BY <1>2, <1>3, <1>5, <1>6 DEF ConsTypes
<1>10. PICK g \in Nat : g = cons.turn + 1
  BY <1>1 DEF Numbers
<1>11. Frees(f, g)
  <2>1. {cons.turn} = f..(g - 1) /\ f <= g /\ g <= Pub
    BY <1>1, <1>3, <1>10 DEF Numbers
  <2> QED BY <1>8, <1>9, <1>10, <2>1 DEF Frees
<1>12. MailboxTypes'
  <2>1. cons.turn + 1 \in Nat /\ "user" \in ConsPcs
    BY <1>1 DEF Numbers, ConsPcs
  <2>2. cons' \in ConsTypes
    <3> DEFINE turn == cons.turn + 1
    <3>1. cons' = [cons EXCEPT !.pc = "user", !.turn = turn, !.at_eos = TRUE,
                               !.drained = TRUE, !.short = sh]
      BY <1>5
    <3>2. turn \in Nat /\ sh \in BOOLEAN
      BY <1>5, <2>1
    <3> HIDE DEF turn
    <3> QED BY <1>2, <2>1, <3>1, <3>2 DEF ConsTypes
  <2>3. freeing({cons.turn}) \in [Slots -> Nat]
    BY <1>8, <1>11, FreeStep
  <2>4. mb' \in MbTypes
    BY <1>2, <1>7, <2>3 DEF MbTypes
  <2>5. seen' \in [rx : BOOLEAN, cons : BOOLEAN]
    BY <1>1 DEF ConsTakeEos, MailboxTypes, wake_bumped
  <2> QED BY <1>1, <2>2, <2>4, <2>5 DEF ConsTakeEos, MailboxTypes
<1>13. (Armed <=> Armed') /\ Base' = Base
  BY <1>8, <1>9 DEF SameWords, Armed, Base, From
<1>14. ~InReset' /\ ~InPass' /\ ~InAck'
  BY <1>9 DEF InReset, InPass, InAck
<1>15. Handshake'
  BY <1>1, <1>3, <1>8, <1>9, <1>13, <1>14 DEF Handshake, SameWords
<1>16. Delivered'
  <2>1. cons'.turn = Base' + Chunks + 1
    BY <1>1, <1>3, <1>4, <1>9, <1>13 DEF Numbers
  <2>2. cons.resets = rx.pass \/ (Armed /\ cons.resets = rx.pass - 1)
    BY <1>1, <1>3 DEF Delivered
  <2>3. ~cons.panic /\ (~Armed => rx.pass = rx.served)
    BY <1>1 DEF Delivered
  <2> QED BY <1>8, <1>9, <1>13, <2>1, <2>2, <2>3 DEF Delivered, SameWords
<1>17. Skipping'
  BY <1>14 DEF Skipping
<1> QED BY <1>11, <1>12, <1>15, <1>16, <1>17, FreeKeeps

\* The consumer leaves an armed pass for the next one.
LEMMA ResetPassStep ==
  ASSUME NEW f \in Nat, MailboxAt(f), ResetPass
  PROVE  MailboxInv'
<1>1. /\ MailboxTypes /\ Handshake /\ Delivered /\ Skipping /\ Numbers
  BY Parts
<1>2. /\ mb \in MbTypes /\ cons \in ConsTypes /\ cons.resets + 1 \in Nat
      /\ first_cap \in Int
  BY <1>1 DEF MailboxTypes, Numbers, first_cap, NEVER
<1>3. /\ SameWords /\ mb'.freed = freeing(cons.held) /\ mb'.cmd = mb.cmd
      /\ mb'.reset_session = mb.reset_session
  BY <1>2 DEF ResetPass, MbTypes, SameWords
<1>4. /\ cons.pc = "user" /\ Armed /\ cons'.pc = "rp" /\ cons'.on = cons.on
      /\ cons'.turn = cons.turn /\ cons'.held = {}
      /\ cons'.resets = cons.resets + 1 /\ cons'.at_eos = FALSE /\ cons'.cap = first_cap
      /\ cons'.rt = cons.rt /\ cons'.got = cons.got /\ cons'.drained = cons.drained
      /\ cons'.short = cons.short /\ cons'.panic = cons.panic
  BY <1>2 DEF ResetPass, ConsTypes
<1>5. PICK g \in Nat : g = cons.turn
  BY <1>1 DEF Numbers
<1>6. Frees(f, g)
  BY <1>3, <1>4, <1>5, HeldTurns DEF Frees
<1>7. MailboxTypes'
  <2>1. freeing(cons.held) \in [Slots -> Nat]
    BY <1>3, <1>6, FreeStep
  <2>2. mb' \in MbTypes
    BY <1>2, <2>1 DEF ResetPass, MbTypes
  <2>3. cons' \in ConsTypes
    BY <1>2 DEF ResetPass, ConsTypes, ConsPcs
  <2> QED BY <1>1, <2>2, <2>3 DEF ResetPass, MailboxTypes
<1>8. (Armed <=> Armed') /\ Pub' = Pub /\ From' = From
  BY <1>3 DEF SameWords, Armed, Pub, From
<1>9. ~InReset /\ ~InReset' /\ ~InAck /\ ~InAck' /\ ~InPass /\ InPass'
  BY <1>4 DEF InReset, InAck, InPass
<1>10. Handshake'
  BY <1>1, <1>3, <1>4, <1>8, <1>9 DEF Handshake, SameWords
<1>11. Delivered'
  BY <1>1, <1>3, <1>4, <1>8, <1>9 DEF Delivered, SameWords
<1>12. Skipping'
  <2>1. cons.resets = rx.pass \/ cons.resets = rx.pass - 1
    BY <1>1, <1>9 DEF Delivered
  <2>2. Goal' = Base + last_pub + 1 /\ Base \in Int
    BY <1>1, <1>3, <1>4, <1>8, <2>1 DEF Goal, Base, SameWords, Numbers, last_pub
  <2>3. /\ ~cons.drained => cons.turn = Base + cons.got /\ cons.got <= Chunks
        /\ cons.drained => cons.turn = Base + Chunks + 1
        /\ cons.drained <=> cons.at_eos
    BY <1>1, <1>4, <1>9 DEF Delivered
  <2>4. Base <= cons.turn /\ cons.turn <= Goal' /\ (~cons.at_eos => cons.turn < Goal')
    BY <1>1, <2>2, <2>3 DEF Numbers
  <2>5. Goal' - (last_pub + 1) <= cons.turn
    BY <1>1, <2>2, <2>4 DEF Numbers
  <2>6. cons'.cap = NEVER => cons'.turn < Goal'
    BY <1>1, <1>4, <2>4 DEF first_cap, NEVER, Numbers
  <2>7. cons'.cap <= Goal'
    <3>1. NEVER <= Goal'
      BY <1>1, <2>2, <2>4 DEF NEVER, Numbers
    <3> QED BY <1>4, <2>4, <3>1 DEF first_cap
  <2>8. cons'.resets = rx.pass \/ cons'.resets = rx.pass + 1
    BY <1>1, <1>4, <2>1 DEF Numbers
  <2> QED BY <1>3, <1>4, <2>4, <2>5, <2>6, <2>7, <2>8 DEF Skipping, SameWords, last_pub
<1> QED BY <1>6, <1>7, <1>10, <1>11, <1>12, FreeKeeps

\* The looks reset_pass takes at the words of the RX thread, before it is done.
LEMMA LookStep ==
  ASSUME NEW f \in Nat, MailboxAt(f), ConsPassLoad \/ ConsPassBehind \/ ConsPassTurn
  PROVE  MailboxInv'
<1>1. /\ MailboxTypes /\ RingAt(f) /\ Handshake /\ Progress /\ Baking(f)
      /\ Delivered /\ Skipping /\ Numbers
  BY Parts
<1>2. mb \in MbTypes /\ cons \in ConsTypes /\ mb' = mb /\ rx' = rx /\ seen' = seen
  BY <1>1 DEF MailboxTypes, ConsPassLoad, ConsPassBehind, ConsPassTurn
<1>3. SameWords
  BY <1>2 DEF SameWords
<1>4. /\ cons'.on = cons.on /\ cons'.turn = cons.turn /\ cons'.held = cons.held
      /\ cons'.resets = cons.resets /\ cons'.at_eos = cons.at_eos /\ cons'.cap = cons.cap
      /\ cons'.got = cons.got /\ cons'.drained = cons.drained
      /\ cons'.short = cons.short /\ cons'.panic = cons.panic
      /\ cons.pc \in {"rp", "rp_bake", "rp_turn"}
      /\ cons'.pc \in {"rp_bake", "rp_turn", "rp_free"}
  <2>1. CASE ConsPassLoad
    BY <1>2, <2>1 DEF ConsPassLoad, ConsTypes
  <2>2. CASE ConsPassBehind
    BY <1>2, <2>2 DEF ConsPassBehind, ConsTypes
  <2>3. CASE ConsPassTurn
    BY <1>2, <2>3 DEF ConsPassTurn, ConsTypes
  <2> QED BY <2>1, <2>2, <2>3
<1>5. cons'.pc = "rp_bake" => cons'.ap = mb.auto_pass /\ mb.auto_pass >= cons.resets
  BY <1>2 DEF ConsPassLoad, ConsPassBehind, ConsPassTurn, ConsTypes
<1>6. /\ cons'.rt = cons.rt \/ cons'.rt = mb.rx_turn
      /\ cons'.pc = "rp_free" => cons'.rt = mb.rx_turn
  BY <1>2 DEF ConsPassLoad, ConsPassBehind, ConsPassTurn, ConsTypes
<1>7. MailboxTypes'
  <2>1. mb.auto_pass \in Nat /\ mb.rx_turn \in Nat
    BY <1>1 DEF Numbers
  <2>2. cons' \in ConsTypes
    <3>1. CASE ConsPassLoad
      <4>1. PICK pc \in ConsPcs : cons' = [cons EXCEPT !.ap = mb.auto_pass, !.pc = pc]
        BY <3>1 DEF ConsPassLoad, ConsPcs
      <4> QED BY <1>2, <2>1, <4>1 DEF ConsTypes
    <3>2. CASE ConsPassBehind
      BY <1>2, <3>2 DEF ConsPassBehind, ConsTypes, ConsPcs
    <3>3. CASE ConsPassTurn
      BY <1>2, <2>1, <3>3 DEF ConsPassTurn, ConsTypes, ConsPcs
    <3> QED BY <3>1, <3>2, <3>3
  <2> QED BY <1>1, <1>2, <2>2 DEF MailboxTypes
<1>8. InPass /\ InPass' /\ Armed /\ ~InReset /\ ~InReset' /\ ~InAck /\ ~InAck'
  BY <1>1, <1>4 DEF InPass, InReset, InAck, Handshake
<1>9. /\ Progress' /\ Pub' = Pub /\ From' = From
      /\ (Armed <=> Armed') /\ Contents(f)' /\ Baking(f)'
  BY <1>3, WordsKeep
<1>a. mb.rx_turn <= Pub /\ (rx.pc = "eos_turn" => mb.rx_turn < Pub)
  <2>1. mb.rx_turn = (IF rx.pc = "flag" THEN rx.turn + 1 ELSE rx.turn)
    BY <1>1 DEF RingAt
  <2>2. rx.turn \in Nat
    BY <1>1 DEF Numbers
  <2> QED BY <2>1, <2>2 DEF Pub
<1>10. RingAt(f)'
  <2>1. mb.rx_turn <= Pub /\ cons.rt <= Pub
    BY <1>1, <1>a DEF RingAt
  <2>2. Stays
    BY <1>2, <1>3, <1>4, <1>6, <2>1 DEF Stays
  <2> QED BY <2>2, StayStep
<1>11. Handshake'
  BY <1>1, <1>2, <1>4, <1>8, <1>9 DEF Handshake
<1>12. Delivered'
  BY <1>1, <1>2, <1>4, <1>8, <1>9 DEF Delivered
<1>13. Goal' = Goal
  BY <1>2, <1>4, <1>9 DEF Goal
<1>14. ASSUME mb.rx_turn >= Goal PROVE mb.auto_eos_turn >= Goal - 1
  <2>1. mb.auto_eos_turn = (IF Pub = From + last_pub + 1 /\ rx.pc # "eos_turn"
                            THEN From + last_pub ELSE From - 1)
    BY <1>1, <1>8 DEF Baking
  <2>2. CASE cons.resets = rx.pass
    <3>1. Goal = From
      BY <2>2 DEF Goal
    <3> QED BY <1>1, <2>1, <3>1 DEF Numbers
  <2>3. CASE cons.resets # rx.pass
    <3>1. Goal = From + last_pub + 1
      BY <2>3 DEF Goal
    <3>3. Pub <= From + last_pub + 1
      BY <1>1 DEF Progress
    <3>4. Pub = From + last_pub + 1 /\ rx.pc # "eos_turn"
      BY <1>1, <1>14, <1>a, <3>1, <3>3 DEF Numbers
    <3> QED BY <1>1, <2>1, <3>1, <3>4 DEF Numbers
  <2> QED BY <2>2, <2>3
<1>15. Skipping'
  <2>1. cons'.pc = "rp_free" /\ cons'.rt >= Goal => mb.auto_eos_turn >= Goal - 1
    BY <1>6, <1>14
  <2>2. cons'.pc = "rp_bake" => cons'.ap >= cons'.resets /\ cons'.ap <= mb.auto_pass
    BY <1>1, <1>4, <1>5 DEF Numbers
  <2> QED BY <1>1, <1>2, <1>4, <1>8, <1>13, <2>1, <2>2 DEF Skipping
<1>16. MailboxAt(f)'
  BY <1>7, <1>9, <1>10, <1>11, <1>12, <1>15 DEF MailboxAt
<1> QED BY <1>16 DEF MailboxInv

\* reset_pass is done: the pass baked is the one asked for, and the cursor is at its start.
LEMMA PassDoneStep ==
  ASSUME NEW f \in Nat, MailboxAt(f), ConsPassDone
  PROVE  MailboxInv'
<1>1. /\ MailboxTypes /\ RingAt(f) /\ Handshake /\ Baking(f)
      /\ Delivered /\ Skipping /\ Numbers
  BY Parts
<1>2. /\ mb \in MbTypes /\ cons \in ConsTypes /\ mb' = mb /\ rx' = rx /\ seen' = seen
      /\ cons.pc = "rp_bake" /\ mb.auto_bake_turn < cons.turn
  BY <1>1 DEF MailboxTypes, ConsPassDone
<1>3. InPass /\ ~InPass' /\ Armed /\ ~InReset /\ ~InReset' /\ ~InAck /\ ~InAck'
  BY <1>1, <1>2 DEF InPass, InReset, InAck, Handshake, ConsPassDone, ConsTypes
<1>4. cons.ap = cons.resets /\ cons.resets = rx.pass
  <2>1. cons.ap >= cons.resets /\ cons.ap <= mb.auto_pass
    BY <1>1, <1>2, <1>3 DEF Skipping
  <2>2. mb.auto_pass <= rx.pass
    BY <1>1, <1>3 DEF Baking, Numbers
  <2>3. cons.resets = rx.pass \/ cons.resets = rx.pass + 1
    BY <1>1, <1>3 DEF Skipping
  <2> QED BY <1>1, <2>1, <2>2, <2>3 DEF Numbers
<1>5. cons.turn = From
  <2>1. Goal = From
    BY <1>4 DEF Goal
  <2>2. cons.turn <= From
    BY <1>1, <1>3, <2>1 DEF Skipping
  <2>3. mb.auto_bake_turn = From - 1
    BY <1>1, <1>3 DEF Baking
  <2> QED BY <1>1, <1>2, <2>2, <2>3 DEF Numbers
<1>6. PICK pa \in BOOLEAN :
         /\ cons' = [cons EXCEPT !.pc = "user", !.got = 0, !.drained = FALSE, !.panic = pa]
         /\ pa <=> (cons.panic \/ cons.ap # cons.resets)
  BY DEF ConsPassDone
<1>7. pa = FALSE
  BY <1>1, <1>4, <1>6 DEF Delivered
<1>8. /\ cons'.pc = "user" /\ cons'.on = cons.on /\ cons'.turn = cons.turn
      /\ cons'.held = cons.held
      /\ cons'.resets = cons.resets /\ cons'.at_eos = cons.at_eos /\ cons'.rt = cons.rt
      /\ cons'.got = 0 /\ cons'.drained = FALSE
      /\ cons'.short = cons.short /\ cons'.panic = FALSE
  BY <1>2, <1>6, <1>7 DEF ConsTypes
<1>9. MailboxTypes'
  <2>1. cons' \in ConsTypes
    <3>1. "user" \in ConsPcs /\ 0 \in Nat
      BY DEF ConsPcs
    <3>2. cons' = [cons EXCEPT !.pc = "user", !.got = 0, !.drained = FALSE, !.panic = pa]
      BY <1>6
    <3>3. cons \in ConsTypes /\ pa \in BOOLEAN
      BY <1>2, <1>6
    <3> QED BY <3>1, <3>2, <3>3 DEF ConsTypes
  <2> QED BY <1>1, <1>2, <2>1 DEF MailboxTypes
<1>10. SameWords
  BY <1>2 DEF SameWords
<1>11. /\ Progress' /\ Pub' = Pub /\ From' = From
       /\ (Armed <=> Armed') /\ Contents(f)' /\ Baking(f)'
  BY <1>10, WordsKeep
<1>12. RingAt(f)'
  <2>1. Stays
    BY <1>1, <1>2, <1>8, <1>10 DEF Stays, RingAt
  <2> QED BY <2>1, StayStep
<1>13. Handshake'
  BY <1>1, <1>2, <1>3, <1>8, <1>11 DEF Handshake
<1>14. Delivered'
  <2>1. Base' = From
    BY <1>2, <1>4, <1>8, <1>11 DEF Base
  <2>2. cons'.turn = Base' + cons'.got /\ cons'.got <= Chunks
    BY <1>1, <1>5, <1>8, <2>1 DEF Numbers
  <2>3. ~cons.at_eos
    BY <1>1, <1>3 DEF Skipping
  <2> QED BY <1>1, <1>2, <1>3, <1>4, <1>8, <1>11, <2>2, <2>3 DEF Delivered
<1>15. Skipping'
  BY <1>3 DEF Skipping
<1>16. MailboxAt(f)'
  BY <1>9, <1>11, <1>12, <1>13, <1>14, <1>15 DEF MailboxAt
<1> QED BY <1>16 DEF MailboxInv

\* The skip stops at the marker of the pass that is left.
LEMMA PassFreeStep ==
  ASSUME NEW f \in Nat, MailboxAt(f), ConsPassFree
  PROVE  MailboxInv'
<1> DEFINE stop == IF locked_cap # NEVER /\ locked_cap < cons.rt
                   THEN locked_cap ELSE cons.rt
           next == IF cons.turn < stop THEN stop ELSE cons.turn
<1>1. /\ MailboxTypes /\ RingAt(f) /\ Handshake /\ Progress /\ Baking(f)
      /\ Delivered /\ Skipping /\ Numbers
  BY Parts
<1>2. mb \in MbTypes /\ cons \in ConsTypes /\ cons.pc = "rp_free"
  BY <1>1 DEF MailboxTypes, ConsPassFree
<1>3. locked_cap \in Int /\ stop \in Int /\ next \in Nat
  BY <1>1 DEF locked_cap, Numbers
<1>4. /\ SameWords /\ mb'.freed = freeing(skipped(cons.turn, stop))
      /\ mb'.cmd = mb.cmd /\ mb'.reset_session = mb.reset_session
  BY <1>2 DEF ConsPassFree, MbTypes, SameWords
<1>5. cons' = [cons EXCEPT !.pc = "rp", !.cap = locked_cap, !.turn = next]
  BY DEF ConsPassFree
<1>6. mb' = [mb EXCEPT !.freed = freeing(skipped(cons.turn, stop))] /\ rx' = rx /\ seen' = seen
  BY DEF ConsPassFree
<1>7. skipped(cons.turn, stop) = cons.turn..(next - 1)
  <2>1. cons.turn \in Nat /\ stop \in Int
    BY <1>1, <1>3 DEF Numbers
  <2>2. CASE cons.turn < stop
    BY <2>2 DEF skipped
  <2>3. CASE ~(cons.turn < stop)
    <3>1. cons.turn..(stop - 1) = {} /\ cons.turn..(cons.turn - 1) = {}
      BY <2>1, <2>3
    <3> QED BY <2>3, <3>1 DEF skipped
  <2> QED BY <2>2, <2>3
<1>8. cons.turn <= next /\ next <= Pub
  <2>1. cons.rt <= Pub /\ cons.turn <= Pub
    BY <1>1 DEF RingAt
  <2> QED BY <1>1, <1>3, <2>1 DEF Numbers
<1>9. /\ InPass /\ Armed /\ ~InReset /\ ~InAck /\ f = cons.turn /\ cons.held = {}
  BY <1>1, <1>2, HeldTurns DEF InPass, InReset, InAck, Handshake
<1>10. Goal \in Int /\ (Goal = From \/ Goal = From + last_pub + 1)
       /\ (cons.resets = rx.pass <=> Goal = From)
  BY <1>1 DEF Goal, Numbers
<1>11. /\ Goal - (last_pub + 1) <= cons.turn /\ cons.turn <= Goal
       /\ cons.cap = NEVER => cons.turn < Goal
       /\ cons.cap <= Goal
       /\ cons.rt >= Goal => mb.auto_eos_turn >= Goal - 1
  BY <1>1, <1>2, <1>9 DEF Skipping
<1>12. locked_cap <= Goal
  <2>1. ASSUME cons.cap = NEVER, mb.auto_eos_turn >= cons.turn
        PROVE  mb.auto_eos_turn + 1 <= Goal
    <3>1. mb.auto_eos_turn = From - 1 \/ mb.auto_eos_turn = From + last_pub
      BY <1>1, <1>9 DEF Baking
    <3>2. mb.auto_eos_turn = From + last_pub =>
             Pub = From + last_pub + 1 /\ rx.pc # "eos_turn"
      BY <1>1, <1>9 DEF Baking, Numbers
    <3>3. CASE Goal = From + last_pub + 1
      BY <1>1, <3>1, <3>3 DEF Numbers
    <3>4. CASE Goal = From
      <4>1. Prearm => ~(Pub = From + last_pub + 1)
        BY <1>1, <1>9, <1>11, <3>4 DEF Baking, Numbers
      <4>2. ~Prearm => cons.turn >= From
        BY <1>1, <1>9 DEF Baking
      <4> QED BY <1>1, <1>11, <2>1, <3>1, <3>2, <3>4, <4>1, <4>2 DEF Numbers
    <3> QED BY <1>10, <3>3, <3>4
  <2> QED BY <1>11, <2>1 DEF locked_cap
<1>13. next <= Goal /\ (locked_cap = NEVER => next < Goal)
  <2>1. CASE locked_cap # NEVER
    <3>1. stop <= locked_cap
      BY <1>1, <1>3, <2>1 DEF Numbers
    <3> HIDE DEF stop
    <3> QED BY <1>1, <1>3, <1>10, <1>11, <1>12, <2>1, <3>1 DEF Numbers
  <2>2. CASE locked_cap = NEVER
    <3>1. stop = cons.rt
      BY <2>2
    <3>2. cons.cap = NEVER
      BY <1>1, <2>2 DEF locked_cap, NEVER, Numbers
    <3>3. mb.auto_eos_turn < cons.turn
      BY <1>1, <2>2, <3>2 DEF locked_cap, NEVER, Numbers
    <3>4. cons.rt < Goal
      BY <1>1, <1>10, <1>11, <3>2, <3>3 DEF Numbers
    <3> QED BY <1>1, <1>10, <1>11, <3>1, <3>2, <3>4 DEF Numbers
  <2> QED BY <2>1, <2>2
<1> HIDE DEF stop, next
<1>14. /\ cons'.pc = "rp" /\ cons'.on = cons.on /\ cons'.turn = next
       /\ cons'.held = {} /\ cons'.cap = locked_cap /\ cons'.ap = cons.ap
       /\ cons'.resets = cons.resets /\ cons'.at_eos = cons.at_eos
       /\ cons'.rt = cons.rt /\ cons'.got = cons.got /\ cons'.drained = cons.drained
       /\ cons'.short = cons.short /\ cons'.panic = cons.panic
  BY <1>2, <1>5, <1>9 DEF ConsTypes
<1>15. PICK g \in Nat : g = next
  BY <1>3
<1>16. Frees(f, g)
  BY <1>4, <1>7, <1>8, <1>9, <1>14, <1>15 DEF Frees
<1>17. MailboxTypes'
  <2>1. mb'.freed \in [Slots -> Nat]
    BY <1>16, FreeStep
  <2>2. freeing(skipped(cons.turn, stop)) \in [Slots -> Nat]
    BY <1>4, <2>1
  <2>3. mb' \in MbTypes
    BY <1>2, <1>6, <2>2 DEF MbTypes
  <2>4. cons' \in ConsTypes
    BY <1>2, <1>3, <1>5 DEF ConsTypes, ConsPcs
  <2> QED BY <1>1, <1>6, <2>3, <2>4 DEF MailboxTypes
<1>18. InPass' /\ ~InReset' /\ ~InAck' /\ (Armed <=> Armed') /\ Goal' = Goal /\ Pub' = Pub
  BY <1>4, <1>14 DEF InPass, InReset, InAck, SameWords, Armed, Goal, From, Pub
<1>19. Handshake'
  BY <1>1, <1>4, <1>9, <1>14, <1>18 DEF Handshake, SameWords
<1>20. Delivered'
  BY <1>1, <1>4, <1>9, <1>14, <1>18 DEF Delivered, SameWords
<1>21. Skipping'
  <2>1. Goal - (last_pub + 1) <= next
    BY <1>1, <1>3, <1>8, <1>10, <1>11 DEF Numbers
  <2>2. ~cons.at_eos /\ (cons.resets = rx.pass \/ cons.resets = rx.pass + 1)
    BY <1>1, <1>9 DEF Skipping
  <2> QED BY <1>4, <1>12, <1>13, <1>14, <1>18, <2>1, <2>2 DEF Skipping, SameWords
<1> QED BY <1>16, <1>17, <1>19, <1>20, <1>21, FreeKeeps

\* Every step of the consumer keeps the invariant.
LEMMA ConsKeeps ==
  ASSUME NEW f \in Nat, MailboxAt(f), Call \/ ConsStep
  PROVE  MailboxInv'
<1>1. CASE \E k \in Groups : NextGroup(k)
  BY <1>1, NextGroupStep
<1>2. CASE Reset
  BY <1>2, ResetStep
<1>3. CASE ResetPass
  BY <1>3, ResetPassStep
<1>4. CASE Drop \/ ConsShutdown \/ ConsJoin
  BY <1>4, DropStep
<1>5. CASE ConsMove
  BY <1>5, ConsMoveStep DEF MailboxInv
<1>6. CASE ConsTake
  BY <1>6, TakeStep
<1>7. CASE ConsTakeEos
  BY <1>7, TakeEosStep
<1>8. CASE ConsAlign
  BY <1>8, AlignStep
<1>9. CASE ConsPassLoad \/ ConsPassBehind \/ ConsPassTurn
  BY <1>9, LookStep
<1>10. CASE ConsPassDone
  BY <1>10, PassDoneStep
<1>11. CASE ConsPassFree
  BY <1>11, PassFreeStep
<1> QED
  BY <1>1, <1>2, <1>3, <1>4, <1>5, <1>6, <1>7, <1>8, <1>9, <1>10, <1>11
  DEF Call, ConsStep, ConsMove

-----------------------------------------------------------------------------
(* The theorems *)

\* Initially no turn is in use.
LEMMA MailboxStart ==
  ASSUME MailboxInit
  PROVE  MailboxInv
<1>1. PICK mode \in Modes :
         rx = [mode |-> mode, pc |-> "top", turn |-> 0, pass |-> 0, pos |-> 0,
               pass_start_turn |-> 0, served |-> 0, eos |-> FALSE, marker |-> FALSE,
               back |-> "top"]
  BY DEF MailboxInit
<1>2. mb = [filled |-> [i \in Slots |-> NEVER], freed |-> [i \in Slots |-> 0],
            pubs |-> [i \in Slots |-> EMPTY], cons_parked |-> FALSE,
            cmd |-> "run", shutdown |-> FALSE, reset_session |-> 0,
            reset_ack_cnt |-> 0, reset_ack_turn |-> 0, rx_turn |-> 0,
            auto_pass |-> 0, auto_bake_turn |-> NEVER, auto_eos_turn |-> NEVER]
  BY DEF MailboxInit
<1>3. cons = [pc |-> "user", on |-> "filled", k |-> 1, turn |-> 0, held |-> {},
              resets |-> 0, at_eos |-> FALSE, flagged |-> FALSE, cap |-> NEVER,
              ap |-> 0, rt |-> 0, got |-> 0, drained |-> FALSE,
              short |-> FALSE, panic |-> FALSE]
  BY DEF MailboxInit
<1>4. MailboxTypes
  <2>1. EMPTY \in Entries /\ NEVER \in Int
    BY DEF EMPTY, Entries, NEVER
  <2>2. mb \in MbTypes
    BY <1>2, <2>1 DEF MbTypes
  <2>3. rx \in RxTypes
    BY <1>1 DEF RxTypes, RxPcs
  <2>4. cons \in ConsTypes
    BY <1>3, <2>1 DEF ConsTypes, ConsPcs
  <2>5. seen \in [rx : BOOLEAN, cons : BOOLEAN]
    BY DEF MailboxInit
  <2> QED BY <2>2, <2>3, <2>4, <2>5 DEF MailboxTypes
<1>5. Numbers
  BY <1>4, NumberTypes
<1>6. /\ rx.pc = "top" /\ rx.turn = 0 /\ rx.pass = 0 /\ rx.pos = 0
      /\ rx.pass_start_turn = 0 /\ rx.served = 0
  BY <1>1
<1>7. /\ mb.cmd = "run" /\ mb.reset_ack_cnt = 0 /\ mb.reset_ack_turn = 0 /\ mb.rx_turn = 0
      /\ mb.auto_pass = 0 /\ mb.auto_bake_turn = -1 /\ mb.auto_eos_turn = -1
      /\ mb.reset_session = 0
  BY <1>2 DEF NEVER
<1>8. /\ cons.pc = "user" /\ cons.on = "filled" /\ cons.turn = 0 /\ cons.held = {}
      /\ cons.resets = 0 /\ cons.at_eos = FALSE /\ cons.rt = 0 /\ cons.got = 0
      /\ cons.drained = FALSE /\ cons.short = FALSE /\ cons.panic = FALSE
  BY <1>3
<1>9. Pub = 0 /\ From = 0
  BY <1>6, <1>7 DEF Pub, From
<1>10. ~InReset /\ ~InAck /\ ~InPass
  BY <1>8 DEF InReset, InAck, InPass
<1>11. RingAt(0)
  <2>1. \A i \in Slots : mb.freed[i] = 0 /\ mb.filled[i] = -1
    BY <1>2 DEF NEVER
  <2>2. \A i \in Slots : Uses(0, i) = 0
    <3>1. \A i : {t \in 0..(0 - 1) : Slot(t) = i} = {}
      OBVIOUS
    <3> QED BY <3>1, FS_EmptySet DEF Uses
  <2>3. 0..(0 - 1) = {} /\ 0 <= 0 /\ 0 <= 0 + NBUF
    BY <1>5 DEF Numbers
  <2>4. \A i \in Slots : mb.freed[i] = Uses(0, i) /\ mb.filled[i] < 0
    BY <2>1, <2>2
  <2> QED BY <1>6, <1>7, <1>8, <1>9, <2>3, <2>4 DEF RingAt
<1>12. Handshake
  BY <1>6, <1>7, <1>8, <1>10 DEF Handshake
<1>13. Progress
  BY <1>5, <1>6, <1>9 DEF Progress, Numbers
<1>14. Contents(0)
  BY <1>9 DEF Contents
<1>15. Baking(0)
  BY <1>5, <1>6, <1>7, <1>9 DEF Baking, Numbers
<1>16. Delivered
  <2>1. Base = 0
    BY <1>6, <1>8, <1>9 DEF Base
  <2> QED BY <1>5, <1>6, <1>8, <2>1 DEF Delivered, Numbers
<1>17. Skipping
  BY <1>10 DEF Skipping
<1>18. MailboxAt(0)
  BY <1>4, <1>11, <1>12, <1>13, <1>14, <1>15, <1>16, <1>17 DEF MailboxAt
<1> QED BY <1>18 DEF MailboxInv

\* Every step keeps the invariant.
LEMMA MailboxStep ==
  ASSUME MailboxInv, [MailboxNext]_mailbox_vars
  PROVE  MailboxInv'
<1>1. PICK f \in Nat : MailboxAt(f)
  BY DEF MailboxInv
<1>2. CASE RxStep
  BY <1>1, <1>2, RxKeeps DEF MailboxInv
<1>3. CASE Call \/ ConsStep
  BY <1>1, <1>3, ConsKeeps
<1>4. CASE UNCHANGED mailbox_vars
  <2>1. mb' = mb /\ seen' = seen /\ rx' = rx /\ cons' = cons
    BY <1>4 DEF mailbox_vars
  <2>2. /\ (InReset <=> InReset') /\ (InAck <=> InAck') /\ (InPass <=> InPass')
        /\ (Armed <=> Armed') /\ (Prearm <=> Prearm')
        /\ Pub' = Pub /\ From' = From /\ Base' = Base /\ Goal' = Goal
    BY <2>1 DEF InReset, InAck, InPass, Armed, Prearm, Pub, From, Base, Goal
  <2>3. /\ MailboxTypes /\ RingAt(f) /\ Handshake /\ Progress
        /\ Contents(f) /\ Baking(f) /\ Delivered /\ Skipping
    BY <1>1 DEF MailboxAt
  <2>4. MailboxTypes' /\ RingAt(f)'
    BY <2>1, <2>2, <2>3 DEF MailboxTypes, RingAt
  <2>5. Handshake' /\ Progress'
    BY <2>1, <2>2, <2>3 DEF Handshake, Progress
  <2>6. Contents(f)'
    BY <2>1, <2>2, <2>3 DEF Contents, Is
  <2>7. Baking(f)' /\ Delivered' /\ Skipping'
    BY <2>1, <2>2, <2>3 DEF Baking, Delivered, Skipping
  <2> QED BY <2>4, <2>5, <2>6, <2>7 DEF MailboxInv, MailboxAt
<1> QED BY <1>2, <1>3, <1>4 DEF MailboxNext, Gone

\* The invariant holds in every state of the two threads, in every mode and for every
\* size of the ring (pipeline.rs, Mailbox).
THEOREM MailboxInvariant == MailboxSpec => []MailboxInv
<1>1. MailboxInit => MailboxInv
  BY MailboxStart
<1>2. MailboxInv /\ [MailboxNext]_mailbox_vars => MailboxInv'
  BY MailboxStep
<1> QED BY <1>1, <1>2, PTL DEF MailboxSpec

\* No buffer is written while the consumer holds its batch: the RX thread's use counts
\* (free_for) are enough, for any ring and any group.
THEOREM BuffersHeld == MailboxSpec => []HeldStable
<1>1. ASSUME MailboxInv PROVE HeldStable
  <2>1. PICK f \in Nat : MailboxAt(f)
    BY <1>1 DEF MailboxInv
  <2>2. RingAt(f) /\ Numbers
    BY <2>1, Parts
  <2>3. \A t \in f..(Pub - 1) : mb.filled[Slot(t)] = t
    BY <2>2 DEF RingAt
  <2>4. cons.held = f..(cons.turn - 1) /\ cons.turn <= Pub
    BY <2>2 DEF RingAt
  <2>5. \A t \in cons.held : t \in f..(Pub - 1)
    BY <2>2, <2>4 DEF Numbers
  <2> QED BY <2>3, <2>5 DEF HeldStable
<1>2. MailboxInv => HeldStable
  BY <1>1
<1> QED BY <1>2, MailboxInvariant, PTL

\* Resets, skipped passes and groups free every turn once (the counts of freed).
THEOREM UseCounts == MailboxSpec => []FreedOnce
<1>1. ASSUME MailboxInv PROVE FreedOnce
  <2>1. PICK f \in Nat : MailboxAt(f)
    BY <1>1 DEF MailboxInv
  <2>2. RingAt(f) /\ Numbers
    BY <2>1, Parts
  <2>3. \A i \in Slots : mb.freed[i] = Uses(f, i)
    BY <2>2 DEF RingAt
  <2>4. cons.held = f..(cons.turn - 1) /\ f <= cons.turn
    BY <2>2 DEF RingAt
  <2>5. (0..(cons.turn - 1)) \ cons.held = 0..(f - 1)
    <3>1. cons.turn \in Nat /\ f <= cons.turn
      BY <2>2, <2>4 DEF Numbers
    <3>2. (0..(cons.turn - 1)) \ (f..(cons.turn - 1)) = 0..(f - 1)
      BY <3>1
    <3> QED BY <2>4, <3>2
  <2> QED BY <2>3, <2>5 DEF FreedOnce, Uses
<1>2. MailboxInv => FreedOnce
  BY <1>1
<1> QED BY <1>2, MailboxInvariant, PTL

\* What the consumer gets is the pass it asked for, in order and in full, whatever was
\* published ahead, and the assertion of reset_pass never fails.
THEOREM PassesWhole == MailboxSpec => []PassWhole
<1>1. ASSUME MailboxInv PROVE PassWhole
  <2>1. PICK f \in Nat : MailboxAt(f)
    BY <1>1 DEF MailboxInv
  <2> QED BY <2>1, Parts DEF Delivered, PassWhole
<1>2. MailboxInv => PassWhole
  BY <1>1
<1> QED BY <1>2, MailboxInvariant, PTL

\* The session of a pass is baked while the consumer holds nothing of the pass before:
\* inside its reset, or once it has freed all that was published.
LEMMA BakeStep ==
  ASSUME MailboxInv, [MailboxNext]_mailbox_vars, rx'.pass # rx.pass, ~Prearm
  PROVE  cons.held = {} /\ (cons.turn = rx.turn \/ InReset)
<1>1. PICK f \in Nat : MailboxAt(f)
  BY DEF MailboxInv
<1>2. MailboxTypes /\ Handshake /\ Numbers
  BY <1>1, Parts
<1>3. rx \in RxTypes
  BY <1>2 DEF MailboxTypes
<1>4. CASE RxServe
  <2>1. rx.pc = "serve"
    BY <1>4 DEF RxServe
  <2>2. InReset
    BY <1>2, <2>1 DEF Handshake
  <2>3. cons.pc \notin {"user", "drop", "join", "gone"}
    BY <2>2 DEF InReset
  <2> QED BY <1>1, <2>2, <2>3, HeldTurns
<1>5. CASE RxAdvance
  <2>1. rx.pc = "advance" /\ advance_ready
    BY <1>3, <1>5 DEF RxAdvance, RxGoes, RxTypes
  <2>2. cons.turn = Pub /\ cons.held = {}
    BY <1>1, <2>1, AdvanceReady
  <2> QED BY <2>1, <2>2 DEF Pub
<1>6. CASE RxMove
  BY <1>2, <1>6, MoveFields DEF SameRx
<1>7. CASE RxAck \/ RxRun \/ RxTurn \/ RxEosTurn \/ RxBaked
  BY <1>3, <1>7 DEF RxAck, RxRun, RxTurn, RxEosTurn, RxBaked, RxGoes, RxTypes
<1>8. CASE RxPublish \/ RxFlag \/ RxLand
  BY <1>3, <1>8 DEF RxPublish, RxFlag, RxLand, RxTypes
<1>9. CASE Call
  BY <1>9 DEF Call, NextGroup, Reset, ResetPass, Drop
<1>10. CASE ConsStep
  BY <1>10 DEF ConsStep, ConsArrived, ConsFlag, ConsLoad, ConsCheck, ConsPark,
               ConsTake, ConsTakeEos, ConsKick, ConsAlign, ConsPassLoad, ConsPassDone,
               ConsPassBehind, ConsPassTurn, ConsPassFree, ConsShutdown, ConsJoin
<1>11. CASE UNCHANGED mailbox_vars
  BY <1>11 DEF mailbox_vars
<1> QED
  BY <1>4, <1>5, <1>6, <1>7, <1>8, <1>9, <1>10, <1>11
  DEF MailboxNext, RxStep, RxMove, Gone

\* No bake ever rewrites session bytes the consumer may read (the promise of the armed
\* advance and of the reset handler), for every ring and any number of passes.
THEOREM BakesUnseen == MailboxSpec => BakeUnseen
<1>1. MailboxInv /\ [MailboxNext]_mailbox_vars
        => [rx'.pass # rx.pass /\ ~Prearm =>
              cons.held = {} /\ (cons.turn = rx.turn \/ InReset)]_mailbox_vars
  BY BakeStep
<1> QED BY <1>1, MailboxInvariant, PTL DEF MailboxSpec, BakeUnseen

=============================================================================
