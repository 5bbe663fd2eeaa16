---------------------------- MODULE MCSequencer ----------------------------
EXTENDS Sequencer, TLC

\* nothing in the sequencer tells one session from another
SessionSymmetry == Permutations(Sessions)

=============================================================================
