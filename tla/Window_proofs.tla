--------------------------- MODULE Window_proofs ---------------------------
(***************************************************************************)
(* What the window operators do to the slots, for every ring size.         *)
(***************************************************************************)
EXTENDS Sequencer, FiniteSetTheorems, TLAPS

\* Sequence numbers stay so far below the end of u64 that no addition of the
\* sequencer wraps.
NoWrap == MaxSeq + MaxCount + WINDOW_SLOTS + MAX_WIRE_REQUEST <= U64_MAX

\* W never exceeds the number after the last message of a packet
MaxW == MaxSeq + MaxCount

Ring == 0..(WINDOW_SLOTS - 1)

\* u64 addition is plain addition while the sum fits.
LEMMA AddExact ==
  ASSUME NEW a \in Nat, NEW b \in Nat, a + b <= U64_MAX
  PROVE  Add(a, b) = a + b /\ Add(a, b) \in U64
  BY WireAssumption DEF Add, U64

\* The slot of a number is a slot of the ring.
LEMMA SlotType ==
  ASSUME NEW n \in Nat
  PROVE  Slot(n) \in Ring
  BY WindowAssumption DEF Slot, Ring

\* Two numbers less than one ring apart have different slots: the reason why
\* the window needs no generation tags.
LEMMA SlotInjective ==
  ASSUME NEW a \in Nat, NEW b \in Nat, a < b, b < a + WINDOW_SLOTS
  PROVE  Slot(a) # Slot(b)
<1> DEFINE N == WINDOW_SLOTS
<1>1. N \in Nat \ {0}
  BY WindowAssumption
<1>2. /\ a = N * (a \div N) + (a % N)
      /\ b = N * (b \div N) + (b % N)
      /\ a \div N \in Int /\ b \div N \in Int
  BY <1>1
<1>3. ASSUME a % N = b % N PROVE FALSE
  <2>1. b - a = N * (b \div N - a \div N)
    BY <1>1, <1>2, <1>3
  <2>2. b \div N - a \div N \in Int
    BY <1>2
  <2>3. \A k \in Int : 0 < N * k => k >= 1 /\ N * k >= N
    <3>1. ASSUME NEW k \in Int, k >= 1 PROVE N * k >= N
      BY <1>1, <3>1
    <3>2. ASSUME NEW k \in Int, k <= 0 PROVE N * k <= 0
      BY <1>1, <3>2
    <3> QED BY <3>1, <3>2, <1>1
  <2>4. b - a > 0 /\ b - a < N
    BY <1>1
  <2> HIDE DEF N
  <2>5. N * (b \div N - a \div N) >= N
    BY <2>1, <2>2, <2>3, <2>4
  <2> QED BY <2>1, <2>4, <2>5, <1>1
<1> QED BY <1>3 DEF Slot

\* The ring, and so the set of occupied slots, is finite.
LEMMA OccupiedFinite ==
  ASSUME NEW slots
  PROVE  /\ IsFiniteSet(Ring)
         /\ Occupied(slots) \subseteq Ring
         /\ IsFiniteSet(Occupied(slots))
         /\ Cardinality(Occupied(slots)) \in 0..WINDOW_SLOTS
<1>1. IsFiniteSet(Ring) /\ Cardinality(Ring) = WINDOW_SLOTS
  BY FS_Interval, WindowAssumption DEF Ring
<1>2. Occupied(slots) \subseteq Ring
  BY DEF Occupied, Ring
<1>3. /\ IsFiniteSet(Occupied(slots))
      /\ Cardinality(Occupied(slots)) <= Cardinality(Ring)
  BY <1>1, <1>2, FS_Subset
<1>4. Cardinality(Occupied(slots)) \in Nat
  BY <1>3, FS_CardinalityType
<1> QED BY <1>1, <1>2, <1>3, <1>4, WindowAssumption

\* A nonempty set of naturals has a least element, and Min finds it.
LEMMA MinOfNaturals ==
  ASSUME NEW S \in SUBSET Nat, S # {}
  PROVE  Min(S) \in S /\ \A y \in S : Min(S) <= y
<1>1. PICK x \in S : \A y \in S : ~(<<y, x>> \in OpToRel(<, Nat))
  BY NatLessThanWellFounded, WFMin
<1>2. \A y \in Nat : y < x => <<y, x>> \in OpToRel(<, Nat)
  BY DEF OpToRel
<1>3. \A y \in S : ~(y < x)
  BY <1>1, <1>2, Zenon
<1>4. \A y \in S : x <= y
  BY <1>3, SMT
<1> QED BY <1>4 DEF Min

SlotsType == [Ring -> Messages \cup {NoMsg}]

\* Emptying some occupied slots leaves exactly the other ones occupied.
LEMMA WithoutSlots ==
  ASSUME NEW slots \in SlotsType, NEW gone \in SUBSET Occupied(slots)
  PROVE  /\ without(slots, gone) \in SlotsType
         /\ Occupied(without(slots, gone)) = Occupied(slots) \ gone
         /\ \A i \in Occupied(without(slots, gone)) :
               without(slots, gone)[i] = slots[i]
         /\ Cardinality(Occupied(without(slots, gone))) =
               Cardinality(Occupied(slots)) - Cardinality(gone)
         /\ Cardinality(gone) \in Nat
<1>1. /\ without(slots, gone) \in SlotsType
      /\ Occupied(without(slots, gone)) = Occupied(slots) \ gone
      /\ \A i \in Occupied(without(slots, gone)) :
            without(slots, gone)[i] = slots[i]
  BY DEF without, Occupied, SlotsType, Ring
<1>2. IsFiniteSet(Occupied(slots))
  BY OccupiedFinite
<1>3. /\ Cardinality(Occupied(slots) \ gone) =
            Cardinality(Occupied(slots)) - Cardinality(Occupied(slots) \cap gone)
      /\ Occupied(slots) \cap gone = gone
      /\ IsFiniteSet(gone)
  BY <1>2, FS_Difference, FS_Subset
<1> QED BY <1>1, <1>3, FS_CardinalityType

\* The slots of n consecutive numbers, n at most the ring size, are n slots.
LEMMA ConsecutiveSlots ==
  ASSUME NEW w \in Nat, NEW n \in 0..WINDOW_SLOTS
  PROVE  Cardinality({Slot(w + j) : j \in 0..(n - 1)}) = n
<1> DEFINE S == {Slot(w + j) : j \in 0..(n - 1)}
           f == [k \in 1..n |-> Slot(w + (k - 1))]
<1>1. f \in [1..n -> S]
  BY WindowAssumption
<1>2. ASSUME NEW a \in 1..n, NEW b \in 1..n, a < b PROVE f[a] # f[b]
  <2>1. /\ w + (a - 1) \in Nat /\ w + (b - 1) \in Nat
        /\ w + (a - 1) < w + (b - 1)
        /\ w + (b - 1) < w + (a - 1) + WINDOW_SLOTS
    BY <1>2, WindowAssumption
  <2>2. Slot(w + (a - 1)) # Slot(w + (b - 1))
    BY <2>1, SlotInjective
  <2> QED BY <2>2
<1>3. \A a, b \in 1..n : f[a] = f[b] => a = b
  <2> SUFFICES ASSUME NEW a \in 1..n, NEW b \in 1..n, a # b PROVE f[a] # f[b]
    OBVIOUS
  <2>1. a < b \/ b < a
    BY WindowAssumption
  <2> QED BY <2>1, <1>2
<1>4. \A t \in S : \E k \in 1..n : f[k] = t
  <2> SUFFICES ASSUME NEW j \in 0..(n - 1) PROVE \E k \in 1..n : f[k] = Slot(w + j)
    OBVIOUS
  <2>1. j + 1 \in 1..n /\ (j + 1) - 1 = j
    BY WindowAssumption
  <2> QED BY <2>1
<1>5. DOMAIN f = 1..n
  OBVIOUS
<1> HIDE DEF f, S
<1>6. f \in Bijection(1..n, S)
  BY <1>1, <1>3, <1>4, <1>5 DEF Bijection, Injection, Surjection, IsInjective
<1>7. Cardinality(S) = n
  BY <1>6, FS_CountingElements, WindowAssumption DEF ExistsBijection
<1> QED BY <1>7 DEF S

\* every occupied slot holds the message of a number in lo..hi that some packet
\* can carry
Fits(r, lo, hi) ==
    \A i \in Occupied(r.slots) : \E n \in lo..hi : n < MaxW /\ Holds(r, i, n)

Bounded(r) == r \in SequencerStates /\ r.w <= MaxW

\* what c still holds it holds as r did, under r's max_staged
Keeps(r, c) ==
    /\ \A i \in Occupied(c.slots) : i \in Occupied(r.slots) /\ c.slots[i] = r.slots[i]
    /\ c.staged_count # 0 => c.max_staged = r.max_staged
    /\ c.max_staged \in {0, r.max_staged}

\* the slots of the numbers lo..hi are the same
SameSlots(r, c, lo, hi) == \A m \in lo..hi : c.slots[Slot(m)] = r.slots[Slot(m)]

\* the n numbers from W on were staged, each with its own data, and the next is not
Run(r, d, n) ==
    /\ \A j \in 0..(n - 1) : r.slots[Slot(r.w + j)] = Msg(r.session, r.w + j)
    /\ d.staged_count # 0 => d.slots[Slot(r.w + n)] = NoMsg

\* c is r with fewer slots taken after W moved on from old_w: none below W
Clears(r, c, old_w) ==
    /\ c.slots \in SlotsType
    /\ c.staged_count \in 0..WINDOW_SLOTS
    /\ c.max_staged \in U64
    /\ c = [r EXCEPT !.slots = c.slots, !.staged_count = c.staged_count,
                     !.max_staged = c.max_staged]
    /\ Fits(c, c.w, c.w + WINDOW_SLOTS - 1)
    /\ Counted(c)
    /\ Keeps(r, c)
    /\ SameSlots(r, c, r.w, old_w + WINDOW_SLOTS - 1)

\* d is r after the n numbers from W on have been emitted out of the window
Drains(r, d, n) ==
    /\ d.slots \in SlotsType
    /\ d.staged_count \in 0..WINDOW_SLOTS
    /\ d.max_staged \in U64
    /\ d = [r EXCEPT !.slots = d.slots, !.staged_count = d.staged_count,
                     !.max_staged = d.max_staged, !.w = r.w + n,
                     !.sink = on_msgs(r.sink, r.gen, r.w, n, TRUE)]
    /\ r.w + n <= MaxW
    /\ Fits(d, d.w + 1, d.w + WINDOW_SLOTS - 1)
    /\ Counted(d)
    /\ Keeps(r, d)
    /\ Run(r, d, n)
    /\ SameSlots(r, d, r.w + n, r.w + WINDOW_SLOTS - 1)

\* t is r with another window, in which W1 holds
StagesWindow(r, t) ==
    /\ t.slots \in SlotsType
    /\ t.staged_count \in 0..WINDOW_SLOTS
    /\ t = [r EXCEPT !.slots = t.slots, !.staged_count = t.staged_count]
    /\ Fits(t, t.w + 1, t.w + WINDOW_SLOTS - 1)
    /\ Counted(t)

\* t holds what r holds and, of the n numbers from first on, those in the window
Stages(r, t, first, n) ==
    /\ Occupied(r.slots) \subseteq Occupied(t.slots)
    /\ \A m \in first..(first + n - 1) :
          m < r.w + WINDOW_SLOTS => t.slots[Slot(m)] = Msg(r.session, m)
    /\ \A i \in Occupied(t.slots) :
          \/ i \in Occupied(r.slots) /\ t.slots[i] = r.slots[i]
          \/ \E m \in first..(first + n - 1) :
                m < r.w + WINDOW_SLOTS /\ Slot(m) = i /\ t.slots[i] = Msg(r.session, m)

\* Clear-on-Advance: after W has moved from old_w, no number below the new W is
\* left in the window, the numbers from the new W on are untouched, and the count
\* is right again.
LEMMA ClearSlotsLemma ==
  ASSUME NoWrap, NEW r, Bounded(r), NEW old_w \in Nat, old_w <= r.w,
         Fits(r, old_w + 1, old_w + WINDOW_SLOTS - 1), Counted(r),
         NEW c, c = clear_slots(r, old_w, r.w)
  PROVE  Clears(r, c, old_w)
<1> DEFINE gone == cleared_slots(old_w, r.w) \cap Occupied(r.slots)
           left == r.staged_count - Cardinality(gone)
           slots2 == without(r.slots, gone)
<1> USE WindowAssumption, WireAssumption
<1>0. /\ r.slots \in SlotsType /\ r.w \in Nat
      /\ r.staged_count \in 0..WINDOW_SLOTS /\ r.max_staged \in U64
  BY DEF Bounded, SequencerStates, SlotsType, Ring, U64
<1>1. CASE r.staged_count = 0
  <2>1. c = r
    BY <1>1 DEF clear_slots
  <2>2. Occupied(r.slots) = {}
    BY <1>1, OccupiedFinite, FS_EmptySet DEF Counted
  <2> QED BY <2>1, <2>2, <1>0
    DEF Clears, Fits, Bounded, SequencerStates, Keeps, SameSlots
<1>2. CASE r.staged_count # 0
  <2>1. c = [r EXCEPT !.slots = slots2, !.staged_count = left,
                      !.max_staged = IF left = 0 THEN 0 ELSE r.max_staged]
    BY <1>2 DEF clear_slots
  <2>2. /\ slots2 \in SlotsType
        /\ Occupied(slots2) = Occupied(r.slots) \ gone
        /\ \A i \in Occupied(slots2) : slots2[i] = r.slots[i]
        /\ Cardinality(Occupied(slots2)) = left
    <3>1. gone \in SUBSET Occupied(r.slots)
      OBVIOUS
    <3> HIDE DEF gone
    <3> QED BY <3>1, <1>0, WithoutSlots DEF Counted
  <2>3. left \in 0..WINDOW_SLOTS
    BY <2>2, OccupiedFinite
  <2>4. /\ c.slots = slots2 /\ c.staged_count = left /\ c.w = r.w
        /\ c.session = r.session
        /\ c.max_staged = (IF left = 0 THEN 0 ELSE r.max_staged)
    BY <2>1 DEF Bounded, SequencerStates
  <2>5. ASSUME NEW i \in Occupied(c.slots)
        PROVE  \E n \in c.w..(c.w + WINDOW_SLOTS - 1) : n < MaxW /\ Holds(c, i, n)
    <3>1. i \in Occupied(r.slots) /\ i \notin gone /\ c.slots[i] = r.slots[i]
      BY <2>2, <2>4, <2>5
    <3>2. PICK n \in (old_w + 1)..(old_w + WINDOW_SLOTS - 1) :
             n < MaxW /\ Holds(r, i, n)
      BY <3>1 DEF Fits
    <3>3. n >= r.w
      <4>1. SUFFICES ASSUME n < r.w PROVE FALSE
        BY <1>0
      <4>2. Slot(n) \in cleared_slots(old_w, r.w)
        <5> DEFINE limit == Smaller(r.w, Smaller(old_w + WINDOW_SLOTS, U64_MAX))
        <5>1. n \in old_w..(limit - 1)
          BY <4>1, <1>0, <3>2, IntentAssumption DEF Smaller, Bounded, NoWrap, MaxW
        <5> QED BY <5>1 DEF cleared_slots
      <4> QED BY <3>1, <3>2, <4>2 DEF Holds
    <3>4. n \in c.w..(c.w + WINDOW_SLOTS - 1)
      BY <3>3, <2>4, <1>0
    <3> QED BY <3>1, <3>2, <3>4, <2>4 DEF Holds
  <2>8. ASSUME NEW m \in r.w..(old_w + WINDOW_SLOTS - 1)
        PROVE  slots2[Slot(m)] = r.slots[Slot(m)]
    <3> DEFINE limit == Smaller(r.w, Smaller(old_w + WINDOW_SLOTS, U64_MAX))
    <3>1. /\ m \in Nat /\ limit <= r.w /\ limit <= old_w + WINDOW_SLOTS
          /\ limit \in Int /\ m < old_w + WINDOW_SLOTS
      BY <1>0 DEF Smaller
    <3> HIDE DEF limit
    <3>2. ASSUME NEW k \in old_w..(limit - 1) PROVE Slot(k) # Slot(m)
      <4>1. k \in Nat /\ k < m /\ m < k + WINDOW_SLOTS
        BY <3>1, <1>0
      <4> QED BY <4>1, <3>1, SlotInjective
    <3>3. Slot(m) \notin cleared_slots(old_w, r.w)
      BY <3>2 DEF cleared_slots, limit
    <3>4. Slot(m) \in 0..(WINDOW_SLOTS - 1)
      BY <3>1, SlotType DEF Ring
    <3> QED BY <3>3, <3>4 DEF without
  <2> HIDE DEF slots2, left, gone
  <2>6. c.max_staged \in U64
    BY <2>4, <1>0 DEF U64
  <2>7. Counted(c) /\ Fits(c, c.w, c.w + WINDOW_SLOTS - 1)
    BY <2>2, <2>4, <2>5 DEF Counted, Fits
  <2>9. Keeps(r, c)
    BY <2>2, <2>4 DEF Keeps
  <2>10. SameSlots(r, c, r.w, old_w + WINDOW_SLOTS - 1)
    BY <2>4, <2>8 DEF SameSlots
  <2>11. c.slots \in SlotsType /\ c.staged_count \in 0..WINDOW_SLOTS
    BY <2>2, <2>3, <2>4
  <2>12. c = [r EXCEPT !.slots = c.slots, !.staged_count = c.staged_count,
                       !.max_staged = c.max_staged]
    BY <2>1, <2>4
  <2> QED BY <2>6, <2>7, <2>9, <2>10, <2>11, <2>12 DEF Clears
<1> QED BY <1>1, <1>2

\* Drain: emits exactly the consecutive run from W on, each number with its own
\* data, and stops in front of an empty slot, so that what is left lies strictly
\* ahead of the new W.
LEMMA DrainLemma ==
  ASSUME NoWrap, NEW r, Bounded(r), Counted(r),
         Fits(r, r.w, r.w + WINDOW_SLOTS - 1), NEW d, d = drain(r)
  PROVE  \E n \in 0..WINDOW_SLOTS : Drains(r, d, n)
<1> DEFINE n == drain_len(r)
           out == {Slot(r.w + j) : j \in 0..(n - 1)}
           left == r.staged_count - n
           slots2 == without(r.slots, out)
           genuine == \A j \in 0..(n - 1) :
                         r.slots[Slot(r.w + j)] = Msg(r.session, Add(r.w, j))
<1> USE WindowAssumption, WireAssumption, IntentAssumption
<1>0. /\ r.slots \in SlotsType /\ r.w \in Nat /\ r.w <= MaxW
      /\ r.staged_count \in 0..WINDOW_SLOTS /\ r.max_staged \in U64
  BY DEF Bounded, SequencerStates, SlotsType, Ring, U64
<1>1. CASE r.staged_count = 0
  <2>1. d = r
    BY <1>1 DEF drain
  <2>2. Occupied(r.slots) = {}
    BY <1>1, OccupiedFinite, FS_EmptySet DEF Counted
  <2>3. on_msgs(r.sink, r.gen, r.w, 0, TRUE) = r.sink
    BY DEF on_msgs
  <2>4. d = [r EXCEPT !.slots = d.slots, !.staged_count = d.staged_count,
                      !.max_staged = d.max_staged, !.w = r.w + 0,
                      !.sink = on_msgs(r.sink, r.gen, r.w, 0, TRUE)]
    <3>1. r.w + 0 = r.w
      BY <1>0
    <3>2. r = [r EXCEPT !.slots = r.slots, !.staged_count = r.staged_count,
                        !.max_staged = r.max_staged, !.w = r.w, !.sink = r.sink]
      BY DEF Bounded, SequencerStates
    <3> QED BY <3>1, <3>2, <2>1, <2>3
  <2>5. /\ r.w + 0 <= MaxW /\ 0 \in 0..WINDOW_SLOTS
        /\ d.slots \in SlotsType /\ d.staged_count \in 0..WINDOW_SLOTS
        /\ d.max_staged \in U64 /\ Counted(d)
        /\ Fits(d, d.w + 1, d.w + WINDOW_SLOTS - 1)
    BY <2>1, <2>2, <1>0 DEF Fits
  <2>6. Keeps(r, d) /\ Run(r, d, 0) /\ SameSlots(r, d, r.w + 0, r.w + WINDOW_SLOTS - 1)
    BY <2>1, <1>1 DEF Keeps, Run, SameSlots
  <2>7. Drains(r, d, 0)
    BY <2>4, <2>5, <2>6 DEF Drains
  <2> QED BY <2>5, <2>7
<1>2. CASE r.staged_count # 0
  <2>1. /\ n \in 0..r.staged_count
        /\ n = r.staged_count \/ r.slots[Slot(r.w + n)] = NoMsg
        /\ \A j \in 0..(n - 1) : r.slots[Slot(r.w + j)] # NoMsg
    <3> DEFINE S == {j \in 0..r.staged_count :
                       j = r.staged_count \/ r.slots[Slot(r.w + j)] = NoMsg}
    <3>1. S \in SUBSET Nat /\ r.staged_count \in S
      BY <1>0
    <3>2. n = Min(S)
      BY DEF drain_len
    <3> HIDE DEF n
    <3>3. n \in S /\ \A y \in S : n <= y
      BY <3>1, <3>2, MinOfNaturals
    <3> QED BY <3>3, <1>0
  <2> HIDE DEF n
  <2>2. \A j \in 0..(n - 1) : Slot(r.w + j) \in Occupied(r.slots)
    BY <2>1, <1>0, SlotType DEF Occupied, Ring
  <2>3. out \in SUBSET Occupied(r.slots)
    BY <2>2
  <2>4. Cardinality(out) = n
    <3>1. n \in 0..WINDOW_SLOTS
      BY <2>1, <1>0
    <3> QED BY <3>1, <1>0, ConsecutiveSlots
  <2> HIDE DEF out
  <2>5. /\ slots2 \in SlotsType
        /\ Occupied(slots2) = Occupied(r.slots) \ out
        /\ \A i \in Occupied(slots2) : slots2[i] = r.slots[i]
        /\ Cardinality(Occupied(slots2)) = left
    <3>1. Cardinality(Occupied(slots2)) = Cardinality(Occupied(r.slots)) - n
      BY <2>3, <2>4, <1>0, WithoutSlots
    <3> QED BY <3>1, <2>3, <1>0, WithoutSlots DEF Counted
  <2>6. \A j \in 0..(n - 1) :
           /\ r.slots[Slot(r.w + j)] = Msg(r.session, r.w + j)
           /\ r.w + j < MaxW
    <3> SUFFICES ASSUME NEW j \in 0..(n - 1)
                 PROVE  /\ r.slots[Slot(r.w + j)] = Msg(r.session, r.w + j)
                        /\ r.w + j < MaxW
      OBVIOUS
    <3>1. PICK m \in r.w..(r.w + WINDOW_SLOTS - 1) :
             m < MaxW /\ Holds(r, Slot(r.w + j), m)
      BY <2>2 DEF Fits
    <3>2. m = r.w + j
      <4>1. /\ m \in Nat /\ r.w + j \in Nat
            /\ m < (r.w + j) + WINDOW_SLOTS /\ r.w + j < m + WINDOW_SLOTS
        BY <1>0, <2>1, <3>1
      <4>2. Slot(m) = Slot(r.w + j)
        BY <3>1 DEF Holds
      <4> QED BY <4>1, <4>2, SlotInjective
    <3> QED BY <3>1, <3>2 DEF Holds
  <2>7. r.w + n <= MaxW
    <3>1. CASE n = 0
      BY <3>1, <1>0
    <3>2. CASE n # 0
      <4>1. n - 1 \in 0..(n - 1)
        BY <3>2, <2>1, <1>0
      <4> QED BY <4>1, <2>6, <2>1, <1>0 DEF MaxW
    <3> QED BY <3>1, <3>2
  <2>8. genuine
    <3> SUFFICES ASSUME NEW j \in 0..(n - 1)
                 PROVE  r.slots[Slot(r.w + j)] = Msg(r.session, Add(r.w, j))
      OBVIOUS
    <3>1. Add(r.w, j) = r.w + j
      BY AddExact, <2>6, <2>1, <1>0 DEF MaxW, NoWrap
    <3> QED BY <3>1, <2>6
  <2>9. Add(r.w, n) = r.w + n
    BY AddExact, <2>7, <2>1, <1>0 DEF MaxW, NoWrap
  <2>10. d = [r EXCEPT !.sink = on_msgs(r.sink, r.gen, r.w, n, genuine),
                       !.slots = slots2, !.w = Add(r.w, n),
                       !.staged_count = left,
                       !.max_staged = IF left = 0 THEN 0 ELSE r.max_staged]
    BY <1>2 DEF drain, n, out
  <2>17. ASSUME NEW m \in (r.w + n)..(r.w + WINDOW_SLOTS - 1)
         PROVE  slots2[Slot(m)] = r.slots[Slot(m)]
    <3>1. m \in Nat /\ m >= r.w + n /\ m < r.w + WINDOW_SLOTS
      BY <1>0, <2>1
    <3>2. ASSUME NEW j \in 0..(n - 1) PROVE Slot(r.w + j) # Slot(m)
      <4>1. r.w + j \in Nat /\ r.w + j < m /\ m < r.w + j + WINDOW_SLOTS
        BY <3>1, <1>0, <2>1
      <4> QED BY <4>1, <3>1, SlotInjective
    <3>3. Slot(m) \notin out
      BY <3>2 DEF out
    <3>4. Slot(m) \in 0..(WINDOW_SLOTS - 1)
      BY <3>1, SlotType DEF Ring
    <3> QED BY <3>3, <3>4 DEF without
  <2>18. left # 0 => slots2[Slot(r.w + n)] = NoMsg
    <3>1. r.w + n \in Nat
      BY <1>0, <2>1
    <3>2. Slot(r.w + n) \in 0..(WINDOW_SLOTS - 1)
      BY <3>1, SlotType DEF Ring
    <3>3. left # 0 => r.slots[Slot(r.w + n)] = NoMsg
      BY <2>1, <1>0
    <3> QED BY <3>2, <3>3 DEF without
  <2> HIDE DEF genuine, slots2
  <2>11. /\ d.slots = slots2 /\ d.staged_count = left /\ d.w = r.w + n
         /\ d.session = r.session
         /\ d.max_staged = (IF left = 0 THEN 0 ELSE r.max_staged)
    BY <2>9, <2>10 DEF Bounded, SequencerStates
  <2>12. left \in 0..WINDOW_SLOTS /\ d.max_staged \in U64
    <3>1. left \in 0..WINDOW_SLOTS
      BY <2>5, OccupiedFinite
    <3>2. 0 \in U64
      BY DEF U64
    <3> QED BY <3>1, <3>2, <2>11, <1>0
  <2>13. ASSUME NEW i \in Occupied(d.slots)
         PROVE  \E m \in (d.w + 1)..(d.w + WINDOW_SLOTS - 1) :
                   m < MaxW /\ Holds(d, i, m)
    <3>1. i \in Occupied(r.slots) /\ i \notin out /\ d.slots[i] = r.slots[i]
      BY <2>5, <2>11, <2>13
    <3>2. PICK m \in r.w..(r.w + WINDOW_SLOTS - 1) : m < MaxW /\ Holds(r, i, m)
      BY <3>1 DEF Fits
    <3>3. ~(m < r.w + n)
      <4>1. SUFFICES ASSUME m < r.w + n PROVE FALSE
        OBVIOUS
      <4>2. m - r.w \in 0..(n - 1) /\ r.w + (m - r.w) = m
        BY <4>1, <3>2, <1>0, <2>1
      <4>3. Slot(m) \in out
        BY <4>2 DEF out
      <4> QED BY <4>3, <3>1, <3>2 DEF Holds
    <3>4. left # 0
      <4>1. SUFFICES ASSUME left = 0 PROVE FALSE
        OBVIOUS
      <4>2. Occupied(slots2) = {}
        BY <4>1, <2>5, OccupiedFinite, FS_EmptySet
      <4> QED BY <4>2, <2>11, <2>13
    <3>5. m # r.w + n
      BY <2>1, <3>1, <3>2, <3>4, <1>0 DEF Holds, Occupied
    <3>6. m \in (d.w + 1)..(d.w + WINDOW_SLOTS - 1)
      BY <3>2, <3>3, <3>5, <2>1, <2>11, <1>0
    <3> QED BY <3>1, <3>2, <3>6, <2>11 DEF Holds
  <2>14. Counted(d) /\ Fits(d, d.w + 1, d.w + WINDOW_SLOTS - 1)
    BY <2>5, <2>11, <2>13 DEF Counted, Fits
  <2>15. n \in 0..WINDOW_SLOTS
    BY <2>1, <1>0
  <2>16. d = [r EXCEPT !.slots = d.slots, !.staged_count = d.staged_count,
                       !.max_staged = d.max_staged, !.w = r.w + n,
                       !.sink = on_msgs(r.sink, r.gen, r.w, n, TRUE)]
    BY <2>8, <2>9, <2>10, <2>11
  <2>19. Keeps(r, d)
    BY <2>5, <2>11 DEF Keeps
  <2>20. Run(r, d, n) /\ SameSlots(r, d, r.w + n, r.w + WINDOW_SLOTS - 1)
    BY <2>6, <2>11, <2>17, <2>18 DEF Run, SameSlots
  <2>21. d.slots \in SlotsType /\ d.staged_count \in 0..WINDOW_SLOTS /\ d.max_staged \in U64
    BY <2>5, <2>11, <2>12
  <2>22. Drains(r, d, n)
    BY <2>7, <2>14, <2>16, <2>19, <2>20, <2>21 DEF Drains
  <2> QED BY <2>15, <2>22
<1> QED BY <1>1, <1>2

\* Staging: the blocks that fit lie strictly ahead of W, each goes into the slot
\* of its own number, and only slots that were empty are counted.
LEMMA StageLemma ==
  ASSUME NoWrap, NEW r, Bounded(r), Counted(r), r.session \in Sessions,
         Fits(r, r.w + 1, r.w + WINDOW_SLOTS - 1),
         NEW first \in Nat, NEW n \in Nat, r.w < first, first + n <= MaxW,
         NEW t, t = stage(r, r.session, first, n)
  PROVE  StagesWindow(r, t) /\ Stages(r, t, first, n)
<1> DEFINE S == stageable(r, first, n)
           filled == {Slot(m) : m \in S}
           pick(i) == CHOOSE m \in S : Slot(m) = i
           slots2 == [i \in 0..(WINDOW_SLOTS - 1) |->
                        IF i \in filled THEN Msg(r.session, pick(i)) ELSE r.slots[i]]
           fresh == filled \ Occupied(r.slots)
           count2 == r.staged_count + Cardinality(fresh)
<1> USE WindowAssumption, WireAssumption, IntentAssumption
<1>0. /\ r.slots \in SlotsType /\ r.w \in Nat /\ r.w <= MaxW
      /\ r.staged_count \in 0..WINDOW_SLOTS
  BY DEF Bounded, SequencerStates, SlotsType, Ring, U64
<1>1. Add(r.w, WINDOW_SLOTS) = r.w + WINDOW_SLOTS
  BY <1>0, AddExact DEF NoWrap, MaxW
<1>2. \A m \in S : /\ m \in (r.w + 1)..(r.w + WINDOW_SLOTS - 1)
                    /\ m \in Nat /\ m < MaxW /\ m \in U64
  BY <1>0, <1>1 DEF stageable, NoWrap, MaxW, U64
<1>3. filled \subseteq Ring
  BY <1>2, SlotType
<1>4. \A i \in filled : pick(i) \in S /\ Slot(pick(i)) = i
  OBVIOUS
<1>5. t = [r EXCEPT !.slots = slots2, !.staged_count = count2]
  BY DEF stage
<1> HIDE DEF S, pick
<1>6. \A i \in filled : /\ slots2[i] = Msg(r.session, pick(i))
                         /\ slots2[i] \in Messages /\ slots2[i] # NoMsg
  BY <1>2, <1>3, <1>4, SessionAssumption DEF Ring, Msg, Messages, NoMsg
<1>7. slots2 \in SlotsType
  BY <1>0, <1>6 DEF SlotsType, Ring
<1>8. Occupied(slots2) = Occupied(r.slots) \cup fresh
  BY <1>3, <1>6 DEF Occupied, Ring
<1>9. Cardinality(Occupied(slots2)) = count2
  <2>1. IsFiniteSet(fresh)
    BY <1>3, OccupiedFinite, FS_Subset
  <2>2. Occupied(r.slots) \cap fresh = {}
    OBVIOUS
  <2>3. Cardinality(Occupied(r.slots) \cup fresh) =
          Cardinality(Occupied(r.slots)) + Cardinality(fresh)
            - Cardinality(Occupied(r.slots) \cap fresh)
    BY <2>1, OccupiedFinite, FS_Union
  <2>4. Cardinality(Occupied(r.slots) \cap fresh) = 0
    BY <2>2, FS_EmptySet
  <2>5. Cardinality(fresh) \in Nat
    BY <2>1, FS_CardinalityType
  <2>6. r.staged_count = Cardinality(Occupied(r.slots))
    BY DEF Counted
  <2> HIDE DEF fresh, slots2
  <2> QED BY <1>0, <1>8, <2>3, <2>4, <2>5, <2>6
<1>10. count2 \in 0..WINDOW_SLOTS
  BY <1>9, OccupiedFinite
<1> HIDE DEF count2, fresh
<1>11. ASSUME NEW i \in Occupied(slots2)
       PROVE  \E m \in (r.w + 1)..(r.w + WINDOW_SLOTS - 1) :
                 /\ m < MaxW
                 /\ Slot(m) = i /\ slots2[i] = Msg(r.session, m)
  <2>1. CASE i \in filled
    BY <2>1, <1>2, <1>4, <1>6
  <2>2. CASE i \notin filled
    <3>1. i \in Ring /\ slots2[i] = r.slots[i] /\ i \in Occupied(r.slots)
      BY <2>2, <1>11 DEF Occupied, Ring
    <3>2. PICK m \in (r.w + 1)..(r.w + WINDOW_SLOTS - 1) :
             m < MaxW /\ Holds(r, i, m)
      BY <3>1 DEF Fits
    <3> QED BY <3>1, <3>2 DEF Holds
  <2> QED BY <2>1, <2>2
<1> HIDE DEF slots2
<1>12. /\ t.slots = slots2 /\ t.staged_count = count2 /\ t.w = r.w
       /\ t.session = r.session
  BY <1>5 DEF Bounded, SequencerStates
<1>13. Fits(t, t.w + 1, t.w + WINDOW_SLOTS - 1)
  BY <1>11, <1>12 DEF Fits, Holds
<1>14. Occupied(r.slots) \subseteq Occupied(t.slots)
  BY <1>8, <1>12
<1>15. ASSUME NEW m \in first..(first + n - 1), m < r.w + WINDOW_SLOTS
       PROVE  t.slots[Slot(m)] = Msg(r.session, m)
  <2>1. m \in S
    BY <1>0, <1>1, <1>15 DEF S, stageable
  <2>2. Slot(m) \in filled /\ pick(Slot(m)) \in S /\ Slot(pick(Slot(m))) = Slot(m)
    BY <2>1, <1>4
  <2>3. pick(Slot(m)) = m
    <3> DEFINE k == pick(Slot(m))
    <3>1. k \in Nat /\ m \in Nat /\ k < m + WINDOW_SLOTS /\ m < k + WINDOW_SLOTS
      BY <2>1, <2>2, <1>2, <1>0
    <3>2. Slot(k) = Slot(m)
      BY <2>2
    <3> HIDE DEF k
    <3>3. k = m
      BY <3>1, <3>2, SlotInjective
    <3> QED BY <3>3 DEF k
  <2> QED BY <2>2, <2>3, <1>6, <1>12
<1>16. ASSUME NEW i \in Occupied(t.slots)
       PROVE  \/ i \in Occupied(r.slots) /\ t.slots[i] = r.slots[i]
              \/ \E m \in first..(first + n - 1) :
                    m < r.w + WINDOW_SLOTS /\ Slot(m) = i /\ t.slots[i] = Msg(r.session, m)
  <2>1. CASE i \in filled
    <3>1. /\ pick(i) \in S /\ Slot(pick(i)) = i /\ t.slots[i] = Msg(r.session, pick(i))
      BY <2>1, <1>4, <1>6, <1>12
    <3>2. pick(i) \in first..(first + n - 1) /\ pick(i) < r.w + WINDOW_SLOTS
      BY <3>1, <1>1 DEF S, stageable
    <3> QED BY <3>1, <3>2
  <2>2. CASE i \notin filled
    <3>1. i \in 0..(WINDOW_SLOTS - 1)
      BY <1>16 DEF Occupied
    <3>2. t.slots[i] = r.slots[i]
      BY <3>1, <2>2, <1>12 DEF slots2
    <3> QED BY <3>1, <3>2, <1>16 DEF Occupied
  <2> QED BY <2>1, <2>2
<1>17. Stages(r, t, first, n)
  BY <1>14, <1>15, <1>16 DEF Stages
<1>18. StagesWindow(r, t)
  BY <1>5, <1>7, <1>9, <1>10, <1>12, <1>13 DEF Counted, StagesWindow
<1> QED BY <1>17, <1>18
=============================================================================
