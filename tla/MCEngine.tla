------------------------------ MODULE MCEngine ------------------------------
EXTENDS Engine

=============================================================================
