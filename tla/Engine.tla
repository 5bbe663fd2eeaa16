------------------------------- MODULE Engine -------------------------------
(***************************************************************************)
(* The engine loop of nf-engine (bin/replay.rs run_engine): one thread     *)
(* that polls the transport, ingests what the recovery socket and the      *)
(* feeds brought, evaluates the recovery intent and counts retries,        *)
(* composed with the UDP recovery client and the retransmission server,    *)
(* which runs concurrently.                                                *)
(*                                                                         *)
(* The feeds carry messages 1 .. LastMsg of the session Home in packets of *)
(* PacketSize, each copy lost or delivered in any order, then heartbeats   *)
(* and a train of end-of-session packets, as nf-testkit sched.rs lays a    *)
(* schedule out.  Two equal heartbeats or ends at one instant (one per     *)
(* feed) act as one.                                                       *)
(*                                                                         *)
(* The AF_XDP transport may return no frame at any poll and its clock is   *)
(* the kernel's; the replay transport returns no frame only when its       *)
(* schedule is used up, and its clock moves only with the frames it        *)
(* releases.                                                               *)
(***************************************************************************)
EXTENDS FakeServer

CONSTANTS
    Transports,     \* "xdp": XdpTransport, "replay": ReplayTransport
    PacketSize,     \* messages per feed packet
    Copies,         \* how often a feed packet may arrive: 0 is a loss on both feeds
    Heard,          \* how many heartbeats of the home session may arrive
    Rolling,        \* do they start before the data ends (heartbeat_interval_ns), or
                    \* is the terminal one the only one
    EosTrain,       \* instants of the end-of-session train that arrive
    MaxBatch,       \* most frames in one batch
    RETRY_CAP       \* 4 in the code

ASSUME EngineAssumption ==
    /\ Transports \subseteq {"xdp", "replay"}
    /\ {PacketSize, MaxBatch, RETRY_CAP} \subseteq Nat \ {0}
    /\ Copies \subseteq 0..2 /\ Heard \subseteq 0..2 /\ EosTrain \in Nat
    /\ Rolling \in BOOLEAN

VARIABLES
    pc,                 \* where the loop is: "poll", "recv", "batch", "done"
    feed,               \* the transport and what the feeds still deliver
    batch,              \* frames of the current batch not ingested yet
    retry_count,
    last_pending_to,
    requests,           \* UDP datagrams on their way to the server
    responses,          \* and back, waiting in the client's socket
    server,             \* fault mode and counters of the server
    prev_w              \* W when the last intent was issued (read by properties only)

loop == <<retry_count, last_pending_to, prev_w>>
net == <<requests, responses, server>>
engine_vars == <<q, pc, feed, batch, requests, responses, server, loop>>

-----------------------------------------------------------------------------
(* The feeds *)

Firsts == {n \in 1..LastMsg : (n - 1) % PacketSize = 0}

FeedPacket(n) == DataPacket(Home, n, Smaller(PacketSize, LastMsg + 1 - n))

ControlPacket(count) ==
    [session |-> Home, seq |-> LastMsg + 1, count |-> count, good |-> 0, err |-> "ok"]

data_left(f) == {n \in Firsts : f.data[n] > 0}

exhausted(f) == data_left(f) = {} /\ f.hb = 0 /\ f.eos = 0

\* every heartbeat, rolling or terminal, announces the end of the session
heartbeats_due(f) ==
    {p \in {ControlPacket(HEARTBEAT_COUNT)} : f.hb > 0 /\ (Rolling \/ data_left(f) = {})}

\* the frames the schedule may release next, for one session: session_change_at_msg,
\* which splits the tape in two, is not modelled
next_frames(f) ==
    {FeedPacket(n) : n \in data_left(f)} \union heartbeats_due(f)
        \union {p \in {ControlPacket(EOS_COUNT)} :
                   f.eos > 0 /\ f.hb <= 0 /\ data_left(f) = {}}

release(f, p) ==
    IF p.count = HEARTBEAT_COUNT THEN [f EXCEPT !.hb = @ - 1]
    ELSE IF p.count = EOS_COUNT THEN [f EXCEPT !.eos = @ - 1]
    ELSE [f EXCEPT !.data[p.seq] = @ - 1]

-----------------------------------------------------------------------------
(* run_engine *)

EngineInit ==
    /\ q = NewSequencer
    /\ pc = "poll"
    /\ \E d \in [Firsts -> Copies], h \in Heard, t \in Transports :
          feed = [transport |-> t, data |-> d, hb |-> h, eos |-> EosTrain]
    /\ batch = 0
    /\ retry_count = 0
    /\ last_pending_to = NONE
    /\ requests = <<>>
    /\ responses = <<>>
    /\ \E f \in Faults : server = [fault |-> f, seen |-> 0, served |-> 0]
    /\ prev_w = NONE

\* the loop condition; n is what poll returned
keeps_running(n) ==
    /\ n > 0 \/ q.state \in {"Contig", "Init", "EosPersist"}
    /\ q.state # "Dead"

\* how many frames a poll may return
polled == IF exhausted(feed) THEN {0}
          ELSE IF feed.transport = "xdp" THEN 0..MaxBatch
          ELSE 1..MaxBatch

\* does the clock move by TRIGGER; the instants of the end-of-session train lie
\* further apart than that
clock_moves(n) ==
    IF feed.transport = "xdp" THEN BOOLEAN
    ELSE IF n = 0 THEN {FALSE}
    ELSE IF data_left(feed) = {} /\ feed.hb = 0 THEN {TRUE}
    ELSE BOOLEAN

Poll(n, moves) ==
    /\ pc = "poll"
    /\ moves \in clock_moves(n)
    /\ q' = IF moves THEN tick(q) ELSE q
    /\ batch' = n
    /\ pc' = IF keeps_running(n) THEN "recv" ELSE "done"
    /\ UNCHANGED <<feed, loop, net>>

\* recv_packet until the socket is empty, each packet into ingest
RecvPacket ==
    /\ pc = "recv" /\ responses # <<>>
    /\ q' = ingest(q, Head(responses))
    /\ responses' = Tail(responses)
    /\ UNCHANGED <<pc, feed, batch, requests, server, loop>>

RecvEmpty ==
    /\ pc = "recv" /\ responses = <<>>
    /\ pc' = "batch"
    /\ UNCHANGED <<q, feed, batch, loop, net>>

\* one frame of the batch; each end of session is a batch of its own
IngestFrame ==
    /\ pc = "batch" /\ batch > 0
    /\ \E p \in next_frames(feed) :
          /\ q' = ingest(q, p)
          /\ feed' = release(feed, p)
          /\ batch' = IF next_frames(feed') \subseteq {ControlPacket(EOS_COUNT)}
                      THEN 0 ELSE batch - 1
    /\ UNCHANGED <<pc, loop, net>>

\* mutant of request: to_excl taken for inclusive
request_inclusive(from, to_excl) == [from |-> from, count |-> to_excl - from + 1]

\* send_request: the count is cut to 16 bits
request(from, to_excl) ==
    [from |-> from, count |-> Larger(0, to_excl - from) % (MAX_WIRE_REQUEST + 1)]

retries_never(to_excl) == 0

retries(to_excl) == IF last_pending_to = to_excl THEN retry_count + 1 ELSE 0

after_iteration(r) == IF r.state = "Ended" THEN "done" ELSE "poll"

IntentNone ==
    /\ pc = "batch" /\ batch = 0 /\ ~intent_due(q)
    /\ pc' = after_iteration(q)
    /\ UNCHANGED <<q, feed, batch, loop, net>>

IntentAsk ==
    /\ pc = "batch" /\ batch = 0 /\ intent_due(q)
    /\ LET r == check_recovery_intent(q)
       IN  /\ retries(r.pending_to) < RETRY_CAP
           /\ q' = r
           /\ retry_count' = retries(r.pending_to)
           /\ last_pending_to' = r.pending_to
           /\ requests' = Append(requests, request(q.w, r.pending_to))
           /\ pc' = after_iteration(r)
    /\ prev_w' = q.w
    /\ UNCHANGED <<feed, batch, responses, server>>

IntentTrip ==
    /\ pc = "batch" /\ batch = 0 /\ intent_due(q)
    /\ LET r == check_recovery_intent(q)
       IN  /\ retries(r.pending_to) >= RETRY_CAP
           /\ q' = seal(r)
           /\ retry_count' = retries(r.pending_to)
    /\ pc' = "done"
    /\ UNCHANGED <<feed, batch, last_pending_to, prev_w, net>>

\* the server thread takes one request and sends all its answers
Serve ==
    /\ requests # <<>>
    /\ LET req == Head(requests)
           seen == Smaller(server.seen + 1, FaultN + 1)
       IN  /\ responses' = responses \o answer(server.fault, req, seen, server.served)
           /\ server' = [server EXCEPT
                !.seen = seen,
                !.served = Smaller(@ + packets_counted(server.fault, req, seen), FaultN)]
    /\ requests' = Tail(requests)
    /\ UNCHANGED <<q, pc, feed, batch, loop>>

Finished == pc = "done" /\ UNCHANGED engine_vars

EngineNext ==
    \/ \E n \in polled, moves \in BOOLEAN : Poll(n, moves)
    \/ RecvPacket
    \/ RecvEmpty
    \/ IngestFrame
    \/ IntentNone
    \/ IntentAsk
    \/ IntentTrip
    \/ Serve
    \/ Finished

EngineSpec == EngineInit /\ [][EngineNext]_engine_vars

(***************************************************************************)
(* Fairness, stated on the control point each step moves: the loop never   *)
(* blocks, so no control point holds it for ever; the server thread takes  *)
(* requests; the kernel clock does not stand still.  A replay clock may:   *)
(* it moves only as the transport moves it.                                *)
(***************************************************************************)
LeavesPoll == pc = "poll" /\ pc' \in {"recv", "done"}
LeavesRecv == pc = "recv" /\ pc' = "batch"
LeavesBatch == pc = "batch" /\ pc' \in {"poll", "done"}
TakesRequest == requests # <<>> /\ requests' = Tail(requests)
ClockMoves == feed.transport = "xdp" /\ LeavesPoll /\ q' = tick(q)

FairEngine ==
    /\ EngineSpec
    /\ WF_pc(LeavesPoll) /\ WF_pc(LeavesRecv) /\ WF_pc(LeavesBatch)
    /\ WF_requests(TakesRequest)
    /\ SF_pc(ClockMoves)

-----------------------------------------------------------------------------

\* A request on the wire asks for at least one message, for none beyond what the
\* venue has announced (the cut to 16 bits loses nothing), and from no further on
\* than W has got by the time the server reads it.
RequestSound ==
    \A i \in DOMAIN requests :
        /\ requests[i].count > 0
        /\ requests[i].from + requests[i].count <= LastMsg + 1
        /\ server.fault # "wrong_session" => requests[i].from <= q.w

\* A session that ends after some of it was emitted ends complete: late, truncated,
\* duplicated and lost answers never let the last message go missing.
EndedComplete ==
    q.state = "Ended" /\ q.sink.last_seq # 0 => q.sink.last_seq = LastMsg

\* On the AF_XDP transport a range once asked for is filled, given up with the
\* session or left behind by the loop: no server, silent, lossy or misdirecting,
\* can hold the request pending for ever.
PendingResolves ==
    feed.transport = "xdp" /\ q.pending_to # NONE ~> (q.pending_to = NONE \/ q.state = "Dead" \/ pc = "done")

=============================================================================
