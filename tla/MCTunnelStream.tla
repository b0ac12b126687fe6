--------------------------- MODULE MCTunnelStream ---------------------------
EXTENDS TunnelStream
B(g, a, b) == [gateway |-> g, agent |-> a, breaks |-> b]
\* A chunk each way at once, or two for the gateway that must arrive in order; or
\* the connection may be lost, with a chunk either way.
MCBounds == {B(1, 1, 0), B(0, 2, 0), B(1, 0, 1), B(0, 1, 1)}
=============================================================================
