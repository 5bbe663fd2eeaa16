---------------------------- MODULE MCHydraLanes ----------------------------
EXTENDS HydraLanes

AllConfigs == {[desc8 |-> TRUE, tree |-> TRUE, force |-> FALSE],
               [desc8 |-> FALSE, tree |-> FALSE, force |-> FALSE],
               [desc8 |-> FALSE, tree |-> TRUE, force |-> TRUE]}
=============================================================================
