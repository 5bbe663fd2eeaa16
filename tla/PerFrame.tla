------------------------------ MODULE PerFrame ------------------------------
(***************************************************************************)
(* What a batch of frames must do to the sequencer: exactly what the       *)
(* classic ingest does with the same frames one after the other, at one    *)
(* instant.  The batched drivers of nf-arbitrator (BatchIngest) are shown  *)
(* to implement this.                                                      *)
(*                                                                         *)
(* A step takes any number of frames of the batch: a ladder group applies  *)
(* several at once.                                                        *)
(***************************************************************************)
EXTENDS Sequencer, SequencesExt

CONSTANTS
    Frames,         \* the frame entries a batch may be made of
    MaxFrames       \* bound: frames in a batch

Feeds == {0, 1}     \* feed_mut looks at feed & 1

(***************************************************************************)
(* A packet::FrameEntry: the packet, the feed it came from, whether the    *)
(* transport indexed its blocks, and the memoized length of its valid      *)
(* prefix.                                                                 *)
(***************************************************************************)
FrameEntries ==
    {e \in [pkt : Packets, feed : Feeds, indexed : BOOLEAN, memo : 0..MaxCount \cup {NONE}] :
        /\ e.indexed => e.pkt.count \in 1..MaxCount /\ e.pkt.err # "frame"
        /\ e.memo # NONE => e.indexed /\ e.memo = e.pkt.good}

ASSUME FramesAssumption == Frames \subseteq FrameEntries /\ MaxFrames \in Nat

VARIABLES
    todo,           \* frames of the batch that are still to be applied
    cnt             \* the counters of the sequencer that a duplicate touches

NewCounters ==
    [packets |-> [f \in Feeds |-> 0], dups |-> [f \in Feeds |-> 0], dup_msgs |-> 0]

\* what ingest adds to the counters for entry e in state r
count_frame(c, r, e) ==
    LET p == e.pkt
        d == session_dispatch(r, p.session)
        is_data == r.state # "Dead" /\ p.count \in 1..MaxCount /\ accepts_data(d, p)
        a == anchor(d, p.seq)
        seen == [c EXCEPT !.packets[e.feed] = @ + 1]
    IN  IF is_data /\ is_duplicate(d, p)
        THEN [seen EXCEPT !.dups[e.feed] = @ + 1, !.dup_msgs = @ + p.count]
        ELSE IF is_data /\ p.seq <= a.w
        THEN [seen EXCEPT !.dup_msgs = @ + dup_skip(a, p)]
        ELSE seen

\* one frame after the other, through the classic ingest
one_by_one(r, c, entries) ==
    FoldLeft(LAMBDA s, e : [q |-> ingest(s.q, e.pkt), cnt |-> count_frame(s.cnt, s.q, e)],
             [q |-> r, cnt |-> c], entries)

PerFrameInit ==
    /\ q = NewSequencer
    /\ todo = <<>>
    /\ cnt = NewCounters

\* a poll brings a batch; its frames are all applied at one instant
Deliver(e) ==
    /\ Len(todo) < MaxFrames
    /\ todo' = Append(todo, e)
    /\ UNCHANGED <<q, cnt>>

Take(k) ==
    LET after == one_by_one(q, cnt, SubSeq(todo, 1, k))
    IN  /\ q' = after.q
        /\ cnt' = after.cnt
        /\ todo' = SubSeq(todo, k + 1, Len(todo))

\* between two batches
Idle ==
    /\ todo = <<>>
    /\ q' = tick(q) \/ (intent_due(q) /\ q' = check_recovery_intent(q))
    /\ UNCHANGED <<todo, cnt>>

PerFrameNext ==
    \/ \E e \in Frames : Deliver(e)
    \/ \E k \in 1..Len(todo) : Take(k)
    \/ Idle

PerFrameSpec == PerFrameInit /\ [][PerFrameNext]_<<q, todo, cnt>>

=============================================================================
