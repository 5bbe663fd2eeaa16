----------------------------- MODULE MoldUDP64 -----------------------------
(***************************************************************************)
(* The wire side of the arbitrator: a MoldUDP64 packet as nf-protocol      *)
(* hands it to the sequencer.  Bytes are abstracted to what the sequencer  *)
(* tells apart: the header (session, seq, count) and how far the block     *)
(* walk gets before it meets a framing or an ITCH error.                   *)
(*                                                                         *)
(* The data of message n of session s is the pair <<s, n>>: every feed and *)
(* the retransmission server send the same bytes for the same number.      *)
(***************************************************************************)
EXTENDS Integers, FiniteSets

CONSTANTS
    Sessions,       \* session identifiers seen on the wire (never all zero)
    NoSession,      \* [0u8; 10]: no session adopted yet
    U64_MAX,        \* largest u64: 2^64 - 1 in the code
    EOS_COUNT,      \* count field of an end-of-session packet: 0xFFFF
    MaxSeq,         \* bound: largest seq field of a packet
    MaxCount,       \* bound: most messages in one packet
    ErrKinds,       \* what may be wrong with a packet: "ok", "itch", "frame"
    MaxBadPrefix    \* bound: most valid blocks in front of the bad one

ASSUME SessionAssumption == NoSession \notin Sessions

ASSUME WireAssumption ==
    /\ U64_MAX \in Nat /\ MaxSeq \in 1..U64_MAX
    /\ MaxCount \in Nat \ {0} /\ MaxCount < EOS_COUNT /\ EOS_COUNT \in Nat
    /\ ErrKinds \subseteq {"ok", "itch", "frame"}
    /\ MaxBadPrefix \in Nat

HEARTBEAT_COUNT == 0

U64 == 0..U64_MAX

\* u64 addition in a build with overflow checks off
Add(a, b) == (a + b) % (U64_MAX + 1)

Larger(a, b) == IF a >= b THEN a ELSE b

Smaller(a, b) == IF a <= b THEN a ELSE b

Msg(s, n) == <<s, n>>

Messages == Sessions \X U64

-----------------------------------------------------------------------------
(***************************************************************************)
(* good is the number of leading blocks that are framed and validate; err  *)
(* is what is wrong with the next one.  A "frame" error with good = count  *)
(* is TrailingBytes: every block is sound but the frame does not end there.*)
(***************************************************************************)
DataPackets ==
    {p \in [session : Sessions, seq : 0..MaxSeq, count : 1..MaxCount,
            good : 0..MaxCount, err : ErrKinds] :
        /\ p.err = "ok"    => p.good = p.count
        /\ p.err = "itch"  => p.good < p.count
        /\ p.err = "frame" => p.good <= p.count
        /\ p.err # "ok"    => p.good <= MaxBadPrefix}

Heartbeats ==
    [session : Sessions, seq : 0..MaxSeq, count : {HEARTBEAT_COUNT},
     good : {0}, err : {"ok"}]

EosPackets ==
    [session : Sessions, seq : 0..MaxSeq, count : {EOS_COUNT},
     good : {0}, err : {"ok"}]

Packets == DataPackets \cup Heartbeats \cup EosPackets

\* Header::span: the last sequence number of the packet; None when the sum
\* leaves u64, which span_overflows tells
span_last(p) == p.seq + p.count - 1

span_overflows(p) == span_last(p) > U64_MAX

(***************************************************************************)
(* packet::ingest_walk: blocks are framed one by one and handed on past    *)
(* the first skip ones.  A skipped block is framed but not validated, so   *)
(* an ITCH error in it goes unseen and the walk succeeds.                  *)
(***************************************************************************)
walk_fails(p, skip) ==
    \/ p.err = "frame"
    \/ p.err = "itch" /\ p.good >= skip

\* blocks handed to the callback before the walk ends or fails
walk_handed(p, skip) ==
    Larger(0, (IF walk_fails(p, skip) THEN p.good ELSE p.count) - skip)

=============================================================================
