------------------------------ MODULE Mailbox ------------------------------
(***************************************************************************)
(* The pipelined replay transport of nf-transport (pipeline.rs): the RX    *)
(* thread publishes batches, turn after turn, into a ring of NBUF buffers; *)
(* the consumer takes them, frees them, and starts a new pass either with  *)
(* the reset handshake (unarmed) or with reset_pass, when the RX thread    *)
(* goes on to the next pass by itself (armed).                             *)
(*                                                                         *)
(* Each action is one step between two accesses to a shared word that the  *)
(* other thread may see in between.  The words are sequentially consistent *)
(* here: on x86 every store the protocol depends on is ordered by a locked *)
(* operation, and a store is never overtaken by a later one.               *)
(*                                                                         *)
(* A futex wait is timed (BUF_PARK_NS) everywhere but in three places; a   *)
(* timed one only re-reads its condition later and is not modelled, and so *)
(* neither is prod_parked, which does nothing but shorten it.  A batch is  *)
(* the pass it belongs to and its place in that pass.  The schedule replay *)
(* and the self-serve transport are not modelled.                          *)
(***************************************************************************)
EXTENDS Integers, FiniteSets

CONSTANTS
    NBUF,           \* buffers in the ring: 16 in the code
    Chunks,         \* publications with frames in a pass
    Exact,          \* do the frames fill the last of them, so that the end of the
                    \* stream is only seen by the next poll, which is empty
    Modes,          \* how a pass may follow another: "reset" by the handshake;
                    \* "armed" by the session program (auto_fn); "prearm" the
                    \* same, as soon as the marker lands (HFT_PREARM)
    Groups,         \* group sizes the consumer asks for: 1 is next_batch
    Parks,          \* the modes in which it gets past its 512 spins
    MaxPasses       \* bound, by mode: resets in a behaviour

ASSUME MailboxAssumption ==
    /\ {NBUF, Chunks} \subseteq Nat \ {0}
    /\ Exact \in BOOLEAN /\ Parks \subseteq Modes
    /\ Modes \subseteq {"reset", "armed", "prearm"}
    /\ Groups \subseteq Nat \ {0}
    /\ MaxPasses \in [Modes -> Nat]

NEVER == -1         \* u64::MAX, the value of a word nothing was stored in yet

VARIABLES
    mb,             \* struct Mailbox, shared
    seen,           \* per thread: the futex word it loaded has not changed since
    rx,             \* locals of the RX thread; mode was given to both threads
    cons            \* fields and locals of the consumer

mailbox_vars == <<mb, seen, rx, cons>>

Slot(t) == t % NBUF

uses(t) == t \div NBUF

Slots == 0..(NBUF - 1)

EMPTY == [pass |-> NEVER, idx |-> NEVER, len |-> 0]

Armed == rx.mode \in {"armed", "prearm"}

Prearm == rx.mode = "prearm"

MailboxInit ==
    /\ mb = [filled |-> [i \in Slots |-> NEVER], freed |-> [i \in Slots |-> 0],
             pubs |-> [i \in Slots |-> EMPTY], cons_parked |-> FALSE,
             cmd |-> "run", shutdown |-> FALSE, reset_session |-> 0,
             reset_ack_cnt |-> 0, reset_ack_turn |-> 0, rx_turn |-> 0,
             auto_pass |-> 0, auto_bake_turn |-> NEVER, auto_eos_turn |-> NEVER]
    /\ seen = [rx |-> FALSE, cons |-> FALSE]
    /\ rx \in [mode : Modes, pc : {"top"}, turn : {0}, pass : {0}, pos : {0},
               pass_start_turn : {0}, served : {0}, eos : {FALSE}, marker : {FALSE},
               back : {"top"}]
    /\ cons = [pc |-> "user", on |-> "filled", k |-> 1, turn |-> 0, held |-> {},
               resets |-> 0, at_eos |-> FALSE, flagged |-> FALSE, cap |-> NEVER,
               ap |-> 0, rt |-> 0, got |-> 0, drained |-> FALSE,
               short |-> FALSE, panic |-> FALSE]

\* a bump of the word wake, or of pub_wake, and the futex_wake that follows it
wake_bumped ==
    [rx |-> FALSE, cons |-> seen.cons /\ cons.on # "ack"]

pub_wake_bumped ==
    [seen EXCEPT !.cons = @ /\ cons.on # "filled"]

-----------------------------------------------------------------------------
(* The RX thread *)

RxGoes(pc) == rx' = [rx EXCEPT !.pc = pc]

\* the top of the loop looks at the command, then at shutdown
RxTop ==
    /\ rx.pc = "top"
    /\ rx' = [rx EXCEPT !.pc = CASE mb.cmd = "shutdown" -> "exit"
                                 [] mb.cmd = "reset" -> "serve"
                                 [] mb.cmd = "run" -> "shut",
                        !.back = "shut"]
    /\ UNCHANGED <<mb, seen, cons>>

RxShut ==
    /\ rx.pc = "shut"
    /\ RxGoes(IF mb.shutdown THEN "exit" ELSE "buf")
    /\ UNCHANGED <<mb, seen, cons>>

\* serving a reset: bake the session, store the turn, the count, the command
RxServe ==
    /\ rx.pc = "serve"
    /\ rx' = [rx EXCEPT !.pc = "ack", !.pass = mb.reset_session, !.pos = 0,
                        !.served = @ + 1]
    /\ mb' = [mb EXCEPT !.reset_ack_turn = rx.turn]
    /\ UNCHANGED <<seen, cons>>

RxAck ==
    /\ rx.pc = "ack"
    /\ RxGoes("run")
    /\ mb' = [mb EXCEPT !.reset_ack_cnt = rx.served]
    /\ UNCHANGED <<seen, cons>>

RxRun ==
    /\ rx.pc = "run"
    /\ RxGoes(rx.back)
    /\ mb' = [mb EXCEPT !.cmd = "run"]
    /\ seen' = wake_bumped
    /\ UNCHANGED cons

\* mutant of free_for: one use too early
free_for_early(t) == t < NBUF \/ mb.freed[Slot(t)] >= uses(t) - 1

\* has the consumer freed the buffer of turn t as often as it was used before
free_for(t) == t < NBUF \/ mb.freed[Slot(t)] >= uses(t)

freed_itself(t) == mb.freed[Slot(t)] >= uses(t) + 1

\* each wait of the RX thread looks at shutdown; mutant: none does
gives_up_never == FALSE

gives_up == mb.shutdown

\* the wait for a buffer gives way to a reset
RxBuffer ==
    /\ rx.pc = "buf"
    /\ \/ rx.turn >= NBUF /\ mb.cmd = "reset" /\ RxGoes("top")
       \/ ~(rx.turn >= NBUF /\ mb.cmd = "reset") /\ free_for(rx.turn) /\ RxGoes("render")
       \/ ~free_for(rx.turn) /\ gives_up /\ RxGoes("exit")
    /\ UNCHANGED <<mb, seen, cons>>

\* data publications of a pass
last_pub == IF Exact THEN Chunks + 1 ELSE Chunks

\* one publication: polls until the buffer is full or a poll returns nothing
published ==
    IF rx.pos < Chunks THEN [pass |-> rx.pass, idx |-> rx.pos, len |-> 1]
    ELSE [pass |-> rx.pass, idx |-> rx.pos, len |-> 0]

RxPublish ==
    /\ rx.pc = "render"
    /\ mb' = [mb EXCEPT !.pubs[Slot(rx.turn)] = published,
                        !.filled[Slot(rx.turn)] = rx.turn]
    /\ rx' = [rx EXCEPT !.pc = "turn", !.pos = @ + 1, !.marker = FALSE,
                        !.eos = rx.pos + 1 = last_pub]
    /\ UNCHANGED <<seen, cons>>

RxTurn ==
    /\ rx.pc = "turn"
    /\ RxGoes("flag")
    /\ mb' = [mb EXCEPT !.rx_turn = rx.turn + 1]
    /\ UNCHANGED <<seen, cons>>

\* pub_wake_if_parked: the consumer is woken if its flag is up
RxFlag ==
    /\ rx.pc = "flag"
    /\ mb' = [mb EXCEPT !.cons_parked = FALSE]
    /\ seen' = IF mb.cons_parked THEN pub_wake_bumped ELSE seen
    /\ rx' = [rx EXCEPT !.turn = @ + 1,
                        !.pc = IF ~rx.marker THEN (IF rx.eos THEN "mark" ELSE "top")
                               ELSE IF Armed THEN "advance" ELSE "eos"]
    /\ UNCHANGED cons

\* the end-of-stream marker is a publication of its own; this wait for a buffer
\* looks at shutdown only
RxMark ==
    /\ rx.pc = "mark"
    /\ \/ free_for(rx.turn) /\ RxGoes("gate")
       \/ ~free_for(rx.turn) /\ gives_up /\ RxGoes("exit")
    /\ UNCHANGED <<mb, seen, cons>>

\* may the marker land; mutant: without the gate of the pre-armed advance
gate_open_always == TRUE

gate_open == ~Prearm \/ rx.pass_start_turn >= rx.turn \/ freed_itself(rx.pass_start_turn)

RxGate ==
    /\ rx.pc = "gate"
    /\ \/ gate_open /\ RxGoes("land")
       \/ ~gate_open /\ gives_up /\ RxGoes("exit")
    /\ UNCHANGED <<mb, seen, cons>>

RxLand ==
    /\ rx.pc = "land"
    /\ rx' = [rx EXCEPT !.pc = "eos_turn", !.marker = TRUE]
    /\ mb' = [mb EXCEPT !.pubs[Slot(rx.turn)] = EMPTY,
                        !.filled[Slot(rx.turn)] = rx.turn]
    /\ UNCHANGED <<seen, cons>>

RxEosTurn ==
    /\ rx.pc = "eos_turn"
    /\ RxGoes("turn")
    /\ mb' = [mb EXCEPT !.auto_eos_turn = rx.turn]
    /\ UNCHANGED <<seen, cons>>

\* may the next pass be baked; mutant: at the landing of the marker, armed or not
advance_ready_early == TRUE

advance_ready == Prearm \/ freed_itself(rx.turn - 1)

RxAdvance ==
    /\ rx.pc = "advance"
    /\ \/ /\ advance_ready
          /\ rx' = [rx EXCEPT !.pc = "baked", !.pass = @ + 1, !.pos = 0,
                              !.pass_start_turn = rx.turn]
          /\ mb' = [mb EXCEPT !.auto_bake_turn = rx.turn - 1]
       \/ /\ ~advance_ready /\ gives_up /\ RxGoes("exit")
          /\ UNCHANGED mb
    /\ UNCHANGED <<seen, cons>>

RxBaked ==
    /\ rx.pc = "baked"
    /\ RxGoes("top")
    /\ mb' = [mb EXCEPT !.auto_pass = rx.pass]
    /\ seen' = wake_bumped
    /\ UNCHANGED cons

\* the end of the stream: look at the command and shutdown, load the futex word,
\* look at the command again, wait
RxEos ==
    /\ rx.pc = "eos"
    /\ rx' = [rx EXCEPT !.pc = IF mb.cmd = "shutdown" THEN "exit"
                               ELSE IF mb.cmd = "reset" THEN "serve"
                               ELSE IF mb.shutdown THEN "exit" ELSE "eos_load",
                        !.back = "top"]
    /\ UNCHANGED <<mb, seen, cons>>

RxEosLoad ==
    /\ rx.pc = "eos_load"
    /\ RxGoes("eos_check")
    /\ seen' = [seen EXCEPT !.rx = TRUE]
    /\ UNCHANGED <<mb, cons>>

\* mutant of eos_waits: the command is not looked at again after the word is loaded
eos_waits_blind == TRUE

eos_waits == mb.cmd = "run"

RxEosCheck ==
    /\ rx.pc = "eos_check"
    /\ RxGoes(IF eos_waits THEN "eos_park" ELSE "eos")
    /\ UNCHANGED <<mb, seen, cons>>

RxEosPark ==
    /\ rx.pc = "eos_park" /\ ~seen.rx
    /\ RxGoes("eos")
    /\ UNCHANGED <<mb, seen, cons>>

RxStep ==
    \/ RxTop \/ RxShut \/ RxServe \/ RxAck \/ RxRun
    \/ RxBuffer \/ RxPublish \/ RxTurn \/ RxFlag
    \/ RxMark \/ RxGate \/ RxLand \/ RxEosTurn
    \/ RxAdvance \/ RxBaked
    \/ RxEos \/ RxEosLoad \/ RxEosCheck \/ RxEosPark

-----------------------------------------------------------------------------
(* The consumer *)

\* the use counts once the buffers of the turns are freed
freeing(turns) ==
    [i \in Slots |-> mb.freed[i] + Cardinality({t \in turns : Slot(t) = i})]

\* next_batch (k = 1) and next_group free what the call before returned
NextGroup(k) ==
    /\ cons.pc = "user" /\ ~cons.drained
    /\ mb' = [mb EXCEPT !.freed = freeing(cons.held)]
    /\ cons' = [cons EXCEPT !.pc = "wait", !.on = "filled", !.k = k, !.held = {},
                            !.flagged = FALSE]
    /\ UNCHANGED <<seen, rx>>

\* what the consumer waits for: its turn, or the ack of its reset
arrived ==
    IF cons.on = "filled" THEN mb.filled[Slot(cons.turn)] = cons.turn
    ELSE mb.reset_ack_cnt >= cons.resets

ConsArrived ==
    /\ cons.pc = "wait" /\ arrived
    /\ cons' = [cons EXCEPT !.pc = IF cons.on = "filled" THEN "take" ELSE "align"]
    /\ UNCHANGED <<mb, seen, rx>>

\* wait_filled_turn puts its flag up once per call
ConsFlag ==
    /\ cons.pc = "wait" /\ ~arrived
    /\ cons.on = "filled" => rx.mode \in Parks
    /\ cons' = [cons EXCEPT !.pc = "load", !.flagged = TRUE]
    /\ mb' = [mb EXCEPT !.cons_parked = @ \/ (cons.on = "filled" /\ ~cons.flagged)]
    /\ UNCHANGED <<seen, rx>>

ConsLoad ==
    /\ cons.pc = "load"
    /\ cons' = [cons EXCEPT !.pc = "check"]
    /\ seen' = [seen EXCEPT !.cons = TRUE]
    /\ UNCHANGED <<mb, rx>>

ConsCheck ==
    /\ cons.pc = "check"
    /\ cons' = [cons EXCEPT !.pc = IF arrived THEN "wait" ELSE "park"]
    /\ UNCHANGED <<mb, seen, rx>>

ConsPark ==
    /\ cons.pc = "park" /\ ~seen.cons
    /\ cons' = [cons EXCEPT !.pc = "wait"]
    /\ UNCHANGED <<mb, seen, rx>>

\* next_group's sweep: the turns already published, up to k, before a marker
swept ==
    {n \in 1..cons.k : \A j \in 0..(n - 1) :
        LET i == Slot(cons.turn + j)
        IN  mb.filled[i] = cons.turn + j /\ mb.pubs[i].len # 0}

\* does the batch of turn t come next in the pass
expected(t, j) ==
    mb.pubs[Slot(t)] = [pass |-> cons.resets, idx |-> cons.got + j, len |-> 1]

ConsTake ==
    /\ cons.pc = "take" /\ mb.pubs[Slot(cons.turn)].len # 0
    /\ LET n == Cardinality(swept)
       IN  cons' = [cons EXCEPT
              !.pc = "user",
              !.held = cons.turn..(cons.turn + n - 1),
              !.turn = @ + n,
              !.at_eos = FALSE,
              !.got = @ + n,
              !.short = @ \/ \E j \in 0..(n - 1) : ~expected(cons.turn + j, j)]
    /\ mb' = [mb EXCEPT !.cons_parked = @ /\ ~cons.flagged]
    /\ UNCHANGED <<seen, rx>>

\* an empty publication is the end of the pass and is freed at once
ConsTakeEos ==
    /\ cons.pc = "take" /\ mb.pubs[Slot(cons.turn)].len = 0
    /\ cons' = [cons EXCEPT !.pc = "user", !.turn = @ + 1, !.at_eos = TRUE,
                            !.drained = TRUE, !.short = @ \/ cons.got # Chunks]
    /\ mb' = [mb EXCEPT !.cons_parked = @ /\ ~cons.flagged,
                        !.freed = freeing({cons.turn})]
    /\ seen' = wake_bumped
    /\ UNCHANGED rx

\* reset: free, write the session, set the command, bump the futex word
Reset ==
    /\ ~Armed /\ cons.pc = "user" /\ cons.resets < MaxPasses[rx.mode]
    /\ cons' = [cons EXCEPT !.pc = "kick", !.on = "ack", !.held = {}, !.resets = @ + 1]
    /\ mb' = [mb EXCEPT !.freed = freeing(cons.held),
                        !.reset_session = cons.resets + 1,
                        !.cmd = "reset"]
    /\ UNCHANGED <<seen, rx>>

ConsKick ==
    /\ cons.pc = "kick"
    /\ cons' = [cons EXCEPT !.pc = "wait"]
    /\ seen' = wake_bumped
    /\ UNCHANGED <<mb, rx>>

\* the publications a reset frees unseen; mutant: the last one is left out
skipped_short(from, to) == from..(to - 2)

skipped(from, to) == from..(to - 1)

resumes_at == mb.reset_ack_turn

ConsAlign ==
    /\ cons.pc = "align"
    /\ mb' = [mb EXCEPT !.freed = freeing(skipped(cons.turn, resumes_at))]
    /\ cons' = [cons EXCEPT !.pc = "user", !.turn = resumes_at, !.got = 0,
                            !.drained = FALSE]
    /\ UNCHANGED <<seen, rx>>

first_cap == IF cons.at_eos THEN cons.turn ELSE NEVER

ResetPass ==
    /\ Armed /\ cons.pc = "user" /\ cons.resets < MaxPasses[rx.mode]
    /\ cons' = [cons EXCEPT !.pc = "rp", !.held = {}, !.resets = @ + 1,
                            !.at_eos = FALSE, !.cap = first_cap]
    /\ mb' = [mb EXCEPT !.freed = freeing(cons.held)]
    /\ UNCHANGED <<seen, rx>>

ConsPassLoad ==
    /\ cons.pc = "rp"
    /\ cons' = [cons EXCEPT !.ap = mb.auto_pass,
                            !.pc = IF mb.auto_pass >= cons.resets THEN "rp_bake"
                                   ELSE "rp_turn"]
    /\ UNCHANGED <<mb, seen, rx>>

\* the cursor must be past the marker of the pass before; then the assertions
ConsPassDone ==
    /\ cons.pc = "rp_bake" /\ mb.auto_bake_turn < cons.turn
    /\ cons' = [cons EXCEPT !.pc = "user", !.got = 0, !.drained = FALSE,
                            !.panic = @ \/ cons.ap # cons.resets]
    /\ UNCHANGED <<mb, seen, rx>>

ConsPassBehind ==
    /\ cons.pc = "rp_bake" /\ mb.auto_bake_turn >= cons.turn
    /\ cons' = [cons EXCEPT !.pc = "rp_turn"]
    /\ UNCHANGED <<mb, seen, rx>>

ConsPassTurn ==
    /\ cons.pc = "rp_turn"
    /\ cons' = [cons EXCEPT !.pc = "rp_free", !.rt = mb.rx_turn]
    /\ UNCHANGED <<mb, seen, rx>>

\* the cap locks at the abandoned pass's marker once that has landed
locked_cap ==
    IF cons.cap = NEVER /\ mb.auto_eos_turn >= cons.turn
    THEN mb.auto_eos_turn + 1 ELSE cons.cap

ConsPassFree ==
    /\ cons.pc = "rp_free"
    /\ LET stop == IF locked_cap # NEVER /\ locked_cap < cons.rt
                   THEN locked_cap ELSE cons.rt
       IN  /\ mb' = [mb EXCEPT !.freed = freeing(skipped(cons.turn, stop))]
           /\ cons' = [cons EXCEPT !.pc = "rp", !.cap = locked_cap,
                                   !.turn = IF @ < stop THEN stop ELSE @]
    /\ UNCHANGED <<seen, rx>>

\* Drop: the command, then shutdown, then the wake-up, then the join
Drop ==
    /\ cons.pc = "user"
    /\ cons' = [cons EXCEPT !.pc = "drop"]
    /\ mb' = [mb EXCEPT !.cmd = "shutdown"]
    /\ UNCHANGED <<seen, rx>>

ConsShutdown ==
    /\ cons.pc = "drop"
    /\ cons' = [cons EXCEPT !.pc = "join"]
    /\ mb' = [mb EXCEPT !.shutdown = TRUE]
    /\ seen' = wake_bumped
    /\ UNCHANGED rx

ConsJoin ==
    /\ cons.pc = "join" /\ rx.pc = "exit"
    /\ cons' = [cons EXCEPT !.pc = "gone"]
    /\ UNCHANGED <<mb, seen, rx>>

Call == (\E k \in Groups : NextGroup(k)) \/ Reset \/ ResetPass \/ Drop

ConsStep ==
    \/ ConsArrived \/ ConsFlag \/ ConsLoad \/ ConsCheck \/ ConsPark
    \/ ConsTake \/ ConsTakeEos
    \/ ConsKick \/ ConsAlign
    \/ ConsPassLoad \/ ConsPassDone \/ ConsPassBehind \/ ConsPassTurn \/ ConsPassFree
    \/ ConsShutdown \/ ConsJoin

\* the transport is gone, or its consumer blocks in the join
Gone == cons.pc \in {"join", "gone"} /\ UNCHANGED mailbox_vars

MailboxNext == RxStep \/ Call \/ ConsStep \/ Gone

MailboxSpec == MailboxInit /\ [][MailboxNext]_mailbox_vars

\* both threads are scheduled; which calls the consumer makes is its own affair
FairMailbox ==
    MailboxSpec /\ WF_mailbox_vars(RxStep) /\ WF_mailbox_vars(ConsStep)

-----------------------------------------------------------------------------
\* A batch the consumer holds is still in its buffer: the RX thread never writes a
\* buffer between the call that returned it and the call that frees it.
HeldStable == \A t \in cons.held : mb.filled[Slot(t)] = t

\* The use counts tell exactly which turns the consumer is done with: over resets,
\* abandoned passes and groups no turn is freed twice and none is left out.
FreedOnce ==
    \A i \in Slots :
        mb.freed[i] = Cardinality({t \in 0..(cons.turn - 1) \ cons.held : Slot(t) = i})

\* Every batch the consumer gets is the next one of the pass it asked for, and a
\* pass that ends has been delivered in full: no frame of an abandoned pass and no
\* short pass, whatever the RX thread has published ahead.
\* And the assertion of reset_pass holds: the RX thread has baked the pass that is
\* asked for and none beyond it.
PassWhole == ~cons.short /\ ~cons.panic

InReset == cons.on = "ack" /\ cons.pc \in {"kick", "wait", "load", "check", "park"}

\* Session bytes are rewritten only while the consumer holds no entry and is either
\* past every batch published so far or inside reset, which skips those left.  The
\* pre-armed advance is exempt: it needs the frozen schedule, whose entries no bake
\* rewrites.
BakeUnseen ==
    [][rx'.pass # rx.pass /\ ~Prearm =>
          cons.held = {} /\ (cons.turn = rx.turn \/ InReset)]_mailbox_vars

\* the answer to the reset before is still storing CMD_RUN, or has stored it, over
\* the command of this one
command_lost ==
    mb.reset_ack_cnt < cons.resets /\ (rx.pc = "run" \/ mb.cmd = "run")

\* the RX thread will not look at the command again before the end-of-stream marker
to_marker ==
    \/ rx.pc = "mark"
    \/ rx.pc \in {"turn", "flag"} /\ rx.eos /\ ~rx.marker
    \/ /\ rx.pc = "render" \/ (rx.pc \in {"shut", "buf"} /\ rx.turn < NBUF)
       /\ rx.pos + 1 = last_pub

\* and the marker needs a buffer that the consumer frees only after the ack
marker_blocked ==
    to_marker /\ ~free_for(IF rx.pc = "mark" THEN rx.turn ELSE rx.turn + 1)

\* the empty publication of an exact fill passed for the marker
ended_early == Exact /\ cons.drained

\* A reset comes back, from wherever the RX thread is, but for three states in which
\* the code hangs: the command is overwritten, a full ring keeps the marker from
\* landing, or the pass ended on an empty publication.
ResetsComplete ==
    \/ cons.pc = "kick" /\ ~command_lost /\ ~marker_blocked
    \/ cons.pc = "rp" /\ ~ended_early
    ~> cons.pc = "user"

\* A consumer that waits for its turn gets it: a park never misses a publication.
TurnArrives ==
    cons.pc = "wait" /\ cons.on = "filled" ~> cons.pc = "user"

\* Dropping the transport ends: the RX thread leaves whatever wait it is in.  Not after
\* a reset that was served: the late CMD_RUN of the answer may overwrite the shutdown.
DropJoins == cons.pc = "join" /\ (Armed \/ cons.resets = 0) ~> cons.pc = "gone"

=============================================================================
