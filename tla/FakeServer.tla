----------------------------- MODULE FakeServer -----------------------------
(***************************************************************************)
(* The retransmission server of the test kit (nf-testkit fakeserver.rs):   *)
(* it holds the messages 1 .. LastMsg of the session Home and answers one  *)
(* request at a time, under one fault mode.                                *)
(*                                                                         *)
(* DelayMs is the asynchrony of the composed system.  "silent" stands for  *)
(* every case in which no answer ever comes: no server configured, no      *)
(* socket, a port nobody listens on, a session the server does not know.   *)
(***************************************************************************)
EXTENDS Sequencer, SequencesExt

CONSTANTS
    Home,           \* the session the server (and the feeds) carry
    LastMsg,        \* number of messages in the ground truth
    Faults,         \* fault modes a run may be under
    FaultN,         \* which request or response packet the drop modes lose
    TruncateK,      \* most messages served per request under TruncateAfter
    RespPacket      \* most messages in a response packet (1400 bytes)

FaultModes == {"ok", "drop_request", "drop_response", "truncate",
               "wrong_session", "duplicate_first", "silent"}

ASSUME ServerAssumption ==
    /\ Home \in Sessions
    /\ "wrong_session" \in Faults => Sessions # {Home}
    /\ Faults \subseteq FaultModes
    /\ {LastMsg, FaultN, TruncateK, RespPacket} \subseteq Nat \ {0}

DataPacket(session, seq, count) ==
    [session |-> session, seq |-> seq, count |-> count, good |-> count, err |-> "ok"]

\* messages left in the ground truth from from_seq on; a from_seq below the first
\* one is served from the first message on
available(from_seq) == Larger(0, LastMsg - Larger(0, from_seq - 1))

\* pack_response_packets: [from_seq, from_seq + count) in consecutive packets, as
\* far as the ground truth goes
pack_response_packets(session, from_seq, count) ==
    LET total == Smaller(count, available(from_seq))
        n == (total + RespPacket - 1) \div RespPacket
    IN  [i \in 1..n |->
            DataPacket(session, from_seq + (i - 1) * RespPacket,
                       Smaller(RespPacket, total - (i - 1) * RespPacket))]

count_to_serve(fault, count) ==
    IF fault = "truncate" THEN Smaller(count, TruncateK) ELSE count

effective_sess(fault) ==
    IF fault = "wrong_session" THEN CHOOSE s \in Sessions : s # Home ELSE Home

\* the n-th response packet, counted over all requests, is lost
drop_response(fault, packets, served) ==
    IF fault = "drop_response" /\ FaultN - served \in DOMAIN packets
    THEN RemoveAt(packets, FaultN - served)
    ELSE packets

duplicate_first(fault, packets) ==
    IF fault = "duplicate_first" /\ packets # <<>>
    THEN <<packets[1]>> \o packets
    ELSE packets

ignores(fault, seen) ==
    \/ fault = "silent"
    \/ fault = "drop_request" /\ seen = FaultN

\* what is sent back for req; seen counts requests (this one included) and served
\* the response packets of the requests before it
answer(fault, req, seen, served) ==
    LET packets == pack_response_packets(effective_sess(fault), req.from,
                                         count_to_serve(fault, req.count))
    IN  IF ignores(fault, seen) THEN <<>>
        ELSE duplicate_first(fault, drop_response(fault, packets, served))

\* response packets counted for req, lost ones included and extra copies not
packets_counted(fault, req, seen) ==
    IF ignores(fault, seen) THEN 0
    ELSE Len(pack_response_packets(Home, req.from, count_to_serve(fault, req.count)))

=============================================================================
