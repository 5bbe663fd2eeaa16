-------------------------------- MODULE Fleet --------------------------------
(***************************************************************************)
(* multivenue.rs, FleetEngine and FleetSink, and the driver of bench.rs.   *)
(* The driver builds the tapes, then publishes window after window by      *)
(* raising one register. The owners, one thread per group of slots, fold   *)
(* their tapes and put one entry per slot and window in the slot's ring;   *)
(* the driver merges a window once every slot has delivered it.            *)
(***************************************************************************)
EXTENDS FleetTape

CONSTANTS RING,         \* entries of a merge ring, and planes
          LAG_MAX,      \* windows published and not merged, at most
          Batches,      \* what a batch may hold: sequences of slots
          Configs,      \* the switches, and the windows and batches of a construction
          MaxWindows    \* windows the driver publishes

ASSUME FleetAssumption ==
    /\ {RING, LAG_MAX, MaxWindows} \subseteq Nat \ {0}
    /\ \A c \in Configs : /\ {c.superchunk, c.vec, c.dial} \subseteq BOOLEAN
                          /\ {c.windows, c.batches} \subseteq Nat \ {0}

VARIABLES cfg,
          build,        \* the construction, and the tapes it leaves
          eng,          \* FleetEngine: rings, planes, window_pub, shutdown, the exit latch
          sink,         \* the driver: FleetSink with its engine, and JumpState
          owner         \* the owner threads

vars == <<cfg, build, eng, sink, owner>>

Groups == 0 .. N_GROUPS - 1

NoEntry == [window |-> -1, x |-> IDENTITY, msgs |-> 0]

NewEngine == [ring |-> [s \in Slots |-> [slots |-> [i \in 0 .. RING - 1 |-> NoEntry], head |-> 0, tail |-> 0]],
              planes |-> [i \in 0 .. RING - 1 |-> [s \in Slots |-> NoEntry]],
              window_pub |-> 0, shutdown |-> FALSE, ready |-> 0, parked |-> 0, exit_release |-> FALSE]

NewOwner == [pc |-> "start", pub_w |-> 0, i |-> 1, win_con |-> [s \in Slots |-> 0],
             ev_con |-> [s \in Slots |-> 0], entry |-> NoEntry]

Init ==
    /\ cfg \in Configs
    /\ build = NewBuild /\ eng = NewEngine
    /\ sink = [pc |-> "construct", r_windows |-> 0, merge_pend |-> 0, day_chain |-> <<>>, completed |-> <<>>,
               s |-> 0, d |-> EmptyBag, count |-> 0, js |-> from_schedule(NewBuild, FALSE),
               harvested |-> <<>>, panic |-> FALSE]
    /\ owner = [g \in Groups |-> NewOwner]
-----------------------------------------------------------------------------
(* The construction. *)

ConstructBatch ==
    /\ sink.pc = "construct" /\ Len(build.oracle) < cfg.windows
    /\ Len(build.sched) < cfg.batches * (Len(build.oracle) + 1)
    /\ \E batch \in Batches : build' = on_span_batch(build, batch)
    /\ UNCHANGED <<cfg, eng, sink, owner>>

(* Every window has the same number of batches. *)
CloseWindow ==
    /\ sink.pc = "construct" /\ Len(build.oracle) < cfg.windows
    /\ Len(build.sched) = cfg.batches * (Len(build.oracle) + 1)
    /\ build' = construct_window_close(build)
    /\ sink' = IF Len(build'.oracle) < cfg.windows THEN sink
               ELSE [sink EXCEPT !.pc = "open", !.js = from_schedule(build', cfg.dial)]
    /\ UNCHANGED <<cfg, eng, owner>>
-----------------------------------------------------------------------------
(* owner_loop *)

n_win == Len(build.oracle)

events(s) == IF cfg.superchunk THEN build.slot[s].tape.supers ELSE build.slot[s].tape.chunk_rec

window_events(s) ==
    IF cfg.superchunk THEN build.slot[s].tape.window_super ELSE build.slot[s].tape.window_chunks

OwnerStart(g) ==
    /\ sink.pc # "construct" /\ owner[g].pc = "start"
    /\ eng' = [eng EXCEPT !.ready = @ + 1]
    /\ owner' = [owner EXCEPT ![g].pc = "poll"]
    /\ UNCHANGED <<cfg, build, sink>>

(* The register is read once for a round over the slots. *)
OwnerPoll(g) ==
    /\ owner[g].pc = "poll"
    /\ owner' = [owner EXCEPT ![g].pc = "slot", ![g].pub_w = eng.window_pub, ![g].i = 1]
    /\ UNCHANGED <<cfg, build, eng, sink>>

ring_free(s, h) == h - eng.ring[s].tail < RING

(* The events of window w of slot s: the tape goes round and round. *)
window_value(s, w, ev) ==
    LET total == Len(events(s))
        end   == (w \div n_win) * total + window_events(s)[(w % n_win) + 2]
    IN  [x |-> FlattenSeq([i \in 1 .. end - ev |-> events(s)[((ev + i - 1) % total) + 1]]), end |-> end]

(* The next window of the slot is folded, if it is published and the ring has *)
(* room, and goes to the planes; else the round goes on.                      *)
OwnerFold(g) ==
    LET o  == owner[g]
        my == owner_slots(g)
        s  == my[o.i]
        w  == o.win_con[s]
        v  == window_value(s, w, o.ev_con[s])
        e  == [window |-> w, x |-> v.x, msgs |-> build.slot[s].tape.window_msgs[(w % n_win) + 1]]
    IN  /\ o.pc = "slot"
        /\ IF o.i > Len(my)
           THEN owner' = [owner EXCEPT ![g].pc = "check"] /\ UNCHANGED eng
           ELSE IF w < o.pub_w /\ ring_free(s, w)
           THEN /\ owner' = [owner EXCEPT ![g].pc = "publish", ![g].entry = e, ![g].ev_con[s] = v.end]
                /\ eng' = IF cfg.vec THEN [eng EXCEPT !.planes[w % RING][s] = e] ELSE eng
           ELSE owner' = [owner EXCEPT ![g].i = @ + 1] /\ UNCHANGED eng
        /\ UNCHANGED <<cfg, build, sink>>

OwnerPublish(g) ==
    LET o == owner[g]
        s == owner_slots(g)[o.i]
        w == o.win_con[s]
    IN  /\ o.pc = "publish"
        /\ eng' = [eng EXCEPT !.ring[s].slots[w % RING] = o.entry, !.ring[s].head = w + 1]
        /\ owner' = [owner EXCEPT ![g].pc = "slot", ![g].win_con[s] = w + 1]
        /\ UNCHANGED <<cfg, build, sink>>

drained(o, g) == \A i \in DOMAIN owner_slots(g) : o.win_con[owner_slots(g)[i]] >= o.pub_w

(* The owner parks after the shutdown, when it is through with what it saw. *)
OwnerCheck(g) ==
    /\ owner[g].pc = "check"
    /\ IF eng.shutdown /\ drained(owner[g], g)
       THEN /\ eng' = [eng EXCEPT !.parked = @ + 1]
            /\ owner' = [owner EXCEPT ![g].pc = "parked"]
       ELSE owner' = [owner EXCEPT ![g].pc = "poll"] /\ UNCHANGED eng
    /\ UNCHANGED <<cfg, build, sink>>

OwnerExit(g) ==
    /\ owner[g].pc = "parked" /\ eng.exit_release
    /\ owner' = [owner EXCEPT ![g].pc = "gone"]
    /\ UNCHANGED <<cfg, build, eng, sink>>
-----------------------------------------------------------------------------
(* The driver publishes a window: it jumps, or walks the batches, which may find *)
(* that a batch is not the recorded one (the input of try_replay). Either way    *)
(* one register is stored.                                                       *)
PublishWindow ==
    /\ sink.pc = "open" /\ sink.r_windows < MaxWindows /\ eng.ready = N_GROUPS
    /\ \/ can_jump(sink.js, sink.r_windows) /\ sink' = [sink EXCEPT !.r_windows = @ + 1, !.pc = "complete"]
       \/ /\ ~can_jump(sink.js, sink.r_windows)
          /\ \E js \in {sink.js, poison_jump(sink.js)} :
                sink' = [sink EXCEPT !.r_windows = @ + 1, !.pc = "complete", !.js = js]
    /\ eng' = [eng EXCEPT !.window_pub = sink.r_windows + 1]
    /\ UNCHANGED <<cfg, build, owner>>

(* mutant of window_ready: a window waits for the one after it *)
window_ready_next(w) == \A s \in Slots : eng.ring[s].head > w + 1

window_ready(w) == \A s \in Slots : eng.ring[s].head > w

merging(k) == [k EXCEPT !.s = 0, !.d = EmptyBag, !.count = 0]

(* complete_ready_windows: the next window is merged if it is ready; else the driver *)
(* goes on, unless the lag is at its limit.                                          *)
Complete ==
    /\ sink.pc = "complete"
    /\ IF sink.merge_pend < sink.r_windows /\ window_ready(sink.merge_pend)
       THEN sink' = [merging(sink) EXCEPT !.pc = "merge"]
       ELSE sink.r_windows - sink.merge_pend <= LAG_MAX /\ sink' = [sink EXCEPT !.pc = "harvest"]
    /\ UNCHANGED <<cfg, build, eng, owner>>

(* finish: the time is over; every window is waited for. *)
Finish ==
    \/ /\ sink.pc = "open" /\ sink' = [sink EXCEPT !.pc = "finish"] /\ UNCHANGED eng
       /\ UNCHANGED <<cfg, build, owner>>
    \/ /\ sink.pc = "finish" /\ sink.merge_pend < sink.r_windows /\ window_ready(sink.merge_pend)
       /\ sink' = [merging(sink) EXCEPT !.pc = "merge_last"] /\ UNCHANGED eng
       /\ UNCHANGED <<cfg, build, owner>>
    \/ /\ sink.pc = "finish" /\ sink.merge_pend = sink.r_windows
       /\ sink' = [sink EXCEPT !.pc = "last"] /\ eng' = [eng EXCEPT !.shutdown = TRUE]
       /\ UNCHANGED <<cfg, build, owner>>

merged(k) ==
    LET t == [count |-> k.count, digest |-> k.d]
    IN  [k EXCEPT !.day_chain = Append(@, k.d), !.completed = Append(@, t), !.merge_pend = @ + 1,
                  !.pc = IF k.pc = "merge" THEN "complete" ELSE "finish"]

(* merge_window_scalar takes and frees the rings one by one; merge_window_vec reads *)
(* the plane of the window at once, then frees the rings.                           *)
MergeSlot ==
    LET w == sink.merge_pend
        e == IF cfg.vec THEN eng.planes[w % RING][sink.s] ELSE eng.ring[sink.s].slots[w % RING]
        all == [i \in 1 .. N_SLOTS |-> eng.planes[w % RING][i - 1]]
        d == IF cfg.vec /\ sink.s = 0 THEN fleet_digest([i \in 1 .. N_SLOTS |-> all[i].x])
             ELSE IF cfg.vec THEN sink.d ELSE accum(sink.d, e.x)
        n == IF cfg.vec /\ sink.s = 0 THEN FoldLeft(LAMBDA m, f : m + f.msgs, 0, all)
             ELSE IF cfg.vec THEN sink.count ELSE sink.count + e.msgs
        k == [sink EXCEPT !.d = d, !.count = n, !.s = @ + 1]
        ok == IF cfg.vec THEN sink.s # 0 \/ \A i \in DOMAIN all : all[i].window = w ELSE e.window = w
    IN  /\ sink.pc \in {"merge", "merge_last"} /\ ~sink.panic
        /\ IF ~ok THEN sink' = [sink EXCEPT !.panic = TRUE] /\ UNCHANGED eng
           ELSE /\ eng' = [eng EXCEPT !.ring[sink.s].tail = w + 1]
                /\ sink' = IF k.s = N_SLOTS THEN merged(k) ELSE k
        /\ UNCHANGED <<cfg, build, owner>>

(* harvest, and the driver's check: the first good window arms the jump. *)
Harvest ==
    /\ sink.pc \in {"harvest", "last"}
    /\ LET verify(k, t) ==
              LET w == Len(k.harvested)
              IN  [k EXCEPT !.harvested = Append(@, t),
                            !.js = IF k.js.armed \/ k.pc = "last" \/ t # build.oracle[(w % n_win) + 1] THEN @
                                   ELSE arm(@, w, t, build.oracle)]
           k == FoldLeft(verify, sink, sink.completed)
       IN  sink' = [k EXCEPT !.completed = <<>>, !.pc = IF @ = "last" THEN "join" ELSE "open"]
    /\ UNCHANGED <<cfg, build, eng, owner>>

Release ==
    /\ sink.pc = "join" /\ eng.parked = N_GROUPS
    /\ sink' = [sink EXCEPT !.pc = "done"] /\ eng' = [eng EXCEPT !.exit_release = TRUE]
    /\ UNCHANGED <<cfg, build, owner>>
-----------------------------------------------------------------------------
Construct == ConstructBatch \/ CloseWindow

Driver == PublishWindow \/ Complete \/ Finish \/ MergeSlot \/ Harvest \/ Release

Owner(g) == OwnerStart(g) \/ OwnerPoll(g) \/ OwnerFold(g) \/ OwnerPublish(g) \/ OwnerCheck(g) \/ OwnerExit(g)

Next == Construct \/ Driver \/ \E g \in Groups : Owner(g)

(* Every owner is a thread of its own and the driver another; none blocks but in a spin. *)
Spec == Init /\ [][Next]_vars

FairSpec == Spec /\ WF_vars(Driver) /\ \A g \in Groups : WF_vars(Owner(g))
-----------------------------------------------------------------------------
(* The sheaf's contract: whatever the owners' order, the lag and the jumps, the *)
(* tuple of every window and the day chain are the oracle's, and no entry of    *)
(* another window is merged.                                                    *)
BitExact ==
    LET oracle(w) == build.oracle[(w % n_win) + 1]
    IN  /\ ~sink.panic
        /\ \A i \in DOMAIN sink.harvested : sink.harvested[i] = oracle(i - 1)
        /\ \A i \in DOMAIN sink.completed : sink.completed[i] = oracle(Len(sink.harvested) + i - 1)
        /\ \A i \in DOMAIN sink.day_chain : sink.day_chain[i] = oracle(i - 1).digest

(* An honest construction of one window passes the certificate of the jump. *)
JumpCertified == sink.pc # "construct" /\ n_win = 1 => sink.js.sched_ok

(* Once the tapes are built the end of the run is always reached: the last windows *)
(* are merged, the owners park and leave.                                          *)
Ends == sink.pc = "open" ~> (sink.pc = "done" /\ \A g \in Groups : owner[g].pc = "gone")
=============================================================================
