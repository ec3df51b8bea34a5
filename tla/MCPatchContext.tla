--------------------------- MODULE MCPatchContext ---------------------------
EXTENDS PatchContext, TLC

CONSTANTS n1, n2, n3, local, lfixed

\* Flash words 0x2000 and 0x2004; the word at 0x2004 holds a 32-bit
\* instruction; one address in RAM.  Bit 0 makes a Thumb function pointer.
W0 == {13}
W4 == {2, 13}
Ram == {13, 29}

NetSmall == {W0, W4 \cup {0}, Ram}
LocalSmall == {W0 \cup {0}, W0 \cup {0, 1}}
LocalOne == {W0 \cup {0}}
NoAddr == {}
NoIds == {}
Ids == {1, 3}
Wide == {W4}
AnyGarbage == {TRUE, FALSE}
ZeroedHeap == {FALSE}
Net == Permutations({n1, n2, n3})
=============================================================================
