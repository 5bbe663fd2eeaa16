--------------------------- MODULE MCBatchIngest ---------------------------
EXTENDS BatchIngest

CONSTANTS sA, sB

data(s, n, c) == [session |-> s, seq |-> n, count |-> c, good |-> c, err |-> "ok"]

frame(p, f) == [pkt |-> p, feed |-> f, indexed |-> TRUE, memo |-> p.good]

bare(p, f) == [pkt |-> p, feed |-> f, indexed |-> FALSE, memo |-> NONE]

\* one of everything the scan has to tell apart
MixedFrames ==
    {frame(data(sA, 1, 1), 0), frame(data(sA, 1, 2), 1), frame(data(sA, 2, 2), 0)}
    \cup {bare(data(sA, 3, 1), 1),
          frame(data(sB, 2, 1), 1),
          frame([data(sA, 2, 2) EXCEPT !.good = 0, !.err = "itch"], 0),
          bare([session |-> sA, seq |-> 4, count |-> HEARTBEAT_COUNT,
                good |-> 0, err |-> "ok"], 0),
          bare([session |-> sA, seq |-> 4, count |-> EOS_COUNT,
                good |-> 0, err |-> "ok"], 0)}

\* both copies of a stream, with a short and a long duplicate, a packet of another
\* session and a duplicate from the other feed among them
PairedFrames ==
    {frame(data(sA, 1, 2), 0), frame(data(sA, 3, 1), 0), frame(data(sA, 3, 2), 0),
     frame(data(sA, 3, 2), 1), frame(data(sA, 5, 1), 0), frame(data(sA, 5, 1), 1),
     frame(data(sA, 5, 2), 1), frame(data(sB, 5, 1), 1)}

AllFrames == MixedFrames \cup PairedFrames

drives(how, pairs, frames, batch, n) ==
    [emit |-> how, pairs |-> pairs, frames |-> frames, batch |-> batch, rounds |-> n]

\* short batches of everything without the ladder, one long batch of pairs with it
MCDrivers ==
    <<drives("spans", 0, MixedFrames, 2, 3), drives("packed", 0, MixedFrames, 2, 2),
     drives("msgs", 1, PairedFrames, 5, 1), drives("packed", 1, PairedFrames, 5, 1),
     drives("packed", 2, PairedFrames, 5, 1)>>

=============================================================================
