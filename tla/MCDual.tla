------------------------------- MODULE MCDual -------------------------------
EXTENDS Dual

Batch(n, m) == [spans |-> n, total |-> m]

Three == <<Batch(1, 1), Batch(1, 2), Batch(1, 4)>>
Five  == <<Batch(2, 1), Batch(1, 2), Batch(0, 4), Batch(2, 8)>>

Config(base, sc, raw, live, nonss, headroom) ==
    [base |-> base, script |-> sc, raw |-> raw, live |-> live, nonss |-> nonss, headroom |-> headroom]

(* A poison, with a ring that P1 never fills; a ring that P1 does fill, without one. *)
MCConfigs ==
    {Config(b, Three, FALSE, TRUE, TRUE, 1) : b \in {4, 7}}
        \union {Config(5, Five, FALSE, TRUE, FALSE, 1)}
        \union {Config(7, Five, TRUE, FALSE, FALSE, 7)}

\* a poison while P1 may be parked on a full leaf ring
PoisonParked == {Config(4, Five, TRUE, TRUE, FALSE, 7)}

=============================================================================
