------------------------------ MODULE MCFleet ------------------------------
EXTENDS Fleet

MCBatches == {<<0, 0, 1>>, <<0, 1, 0, 0>>}

Base == [superchunk |-> TRUE, vec |-> TRUE, dial |-> TRUE, windows |-> 1, batches |-> 2]

\* a window that may end inside a super-chunk, and a window after it
TwoOnGrid == {[Base EXCEPT !.windows = 2]}

MCConfigs == {Base, [Base EXCEPT !.superchunk = FALSE, !.vec = FALSE, !.windows = 2, !.batches = 1]}

=============================================================================
