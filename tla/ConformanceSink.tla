-------------------------- MODULE ConformanceSink --------------------------
(***************************************************************************)
(* The downstream consumer the test kit attaches to the sequencer          *)
(* (nf-testkit sink.rs): it asserts the generation law, contiguous         *)
(* emission and the pairing of gap events.  failed records that one of its *)
(* assertions fired, corrupt that a message's bytes were not the bytes of  *)
(* its sequence number (what HashSink compares with the golden hash).      *)
(***************************************************************************)
EXTENDS MoldUDP64

NONE == -1          \* Option::None

SinkStates ==
    [last_gen : Nat, last_seq : U64, gap_open_gen : Nat \cup {NONE},
     gap_open_from : U64 \cup {NONE}, failed : BOOLEAN, corrupt : BOOLEAN]

NewSink ==
    [last_gen |-> 0, last_seq |-> 0, gap_open_gen |-> NONE,
     gap_open_from |-> NONE, failed |-> FALSE, corrupt |-> FALSE]

\* n > 0 consecutive messages starting at lo, emitted under generation gen;
\* genuine when each one's data is that of its sequence number.  last_seq = 0
\* stands for "nothing emitted yet", as in the code.
on_msgs(k, gen, lo, n, genuine) ==
    IF n = 0 THEN k ELSE
    [k EXCEPT !.failed = @ \/ gen < k.last_gen
                           \/ (k.last_seq # 0 /\ lo # Add(k.last_seq, 1)),
              !.last_seq = Add(lo, n - 1),
              !.corrupt = @ \/ ~genuine]

on_gap_opened(k, gen, from) ==
    [k EXCEPT !.failed = @ \/ gen <= k.last_gen \/ k.gap_open_gen # NONE,
              !.last_gen = gen,
              !.gap_open_gen = gen,
              !.gap_open_from = from]

on_reanchored(k, gen, at) ==
    [k EXCEPT !.failed = @ \/ k.gap_open_gen # gen
                           \/ (k.gap_open_from # NONE /\ at < k.gap_open_from),
              !.gap_open_gen = NONE,
              !.gap_open_from = NONE]

on_session_boundary(k, gen) ==
    [k EXCEPT !.failed = @ \/ gen <= k.last_gen,
              !.last_gen = gen,
              !.gap_open_gen = NONE,
              !.gap_open_from = NONE,
              !.last_seq = 0]

\* EndOfSession and SessionDead are treated alike
on_terminal(k) == [k EXCEPT !.gap_open_gen = NONE, !.gap_open_from = NONE]

=============================================================================
