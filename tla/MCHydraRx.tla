----------------------------- MODULE MCHydraRx -----------------------------
EXTENDS HydraRx

(* Every pass is at least (NLANES - 1) * CHUNK + 1 spans long, so that every lane has a *)
(* span of it. Base: one tape, whose passes start at every place of the grid and come  *)
(* back to the first, to self-serve and to replay. Changing: the steady state is       *)
(* entered and left. Lengths: passes of two lengths. Assisted and Forced: chunks the   *)
(* core folds itself.                                                                  *)
Base == [toroidal |-> TRUE, selfserve |-> TRUE, replay |-> TRUE, diet |-> TRUE, force |-> FALSE,
         wm |-> 0, resets |-> 0, passes |-> 5, tapes |-> {<<1, 2, 3>>}]

Aligned == [Base EXCEPT !.passes = 3, !.tapes = {<<1, 2, 3, 4>>}]

Changing == [Base EXCEPT !.replay = FALSE, !.passes = 3, !.tapes = {<<1, 2, 3>>, <<1, 4, 3>>}]

Lengths == [Base EXCEPT !.replay = FALSE, !.passes = 2, !.tapes = {<<1, 2, 3>>, <<1, 2, 3, 4, 5>>}]

Assisted == [Base EXCEPT !.diet = FALSE, !.replay = FALSE, !.wm = 1, !.passes = 3]

Forced == [Base EXCEPT !.force = TRUE, !.passes = 3]

Restarted == [Base EXCEPT !.replay = FALSE, !.resets = 1, !.passes = 2, !.tapes = {<<1, 2, 3>>, <<1, 2, 4>>}]

\* a replaying worker meets a restart
ReplayRestarted == {[Aligned EXCEPT !.resets = 1, !.passes = 4]}

MCConfigs == {Base, Aligned, Changing, Lengths, Assisted, Forced, Restarted}

=============================================================================
