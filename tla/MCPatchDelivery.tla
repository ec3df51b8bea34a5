-------------------------- MODULE MCPatchDelivery --------------------------
EXTENDS PatchDelivery

\* Bytes 0 .. 3; a packet whose length needs the high byte, and one that is
\* too long for the two bytes of the length.
Packets == {<<1>>, <<0, 2, 1>>, [i \in 1 .. 15 |-> 0]}
=============================================================================
