----------------------------- MODULE MCMailbox -----------------------------
EXTENDS Mailbox

\* the second handshake may meet the answer to the first; the armed passes take the ring
\* around
MCPasses == [m \in Modes |-> IF m = "reset" THEN 2 ELSE 3]

NoPasses == [m \in Modes |-> 0]

=============================================================================
