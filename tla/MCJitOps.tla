------------------------------ MODULE MCJitOps ------------------------------
EXTENDS JitOps

\* Two halves of eight bits: zero, one, the signs, carries between the halves,
\* shift amounts below, at and above one half, and a few others.
Boundary == {0, 1, 3, 4, 7, 8, 9, 12, 127, 128, 255, 256, 257,
             23100, 32640, 32767, 32768, 32896, 65280, 65535}

\* Below, at and above what a divisor is cut to, and the signs.
Constants == {0, 1, 2, 3, 7, 15, 16, 17, 127, 128, 129, 240, 254, 255}

\* In registers (with and without the first, which some encodings treat
\* apart), in the scratch space, in both, and the same register twice.
Placed == {<<0, 1>>, <<1, 0>>, <<1, 6>>, <<6, 6>>, <<7, 1>>, <<1, 7>>, <<7, 8>>, <<7, 7>>}
\* At and beyond the ends of each field, on both sides.
LoadOffsets == {0, 1, 2, 3, 4, 11, 12, 15, 16, 59, 60, 64, -1, -4, -15, -70}
PlacedTwo == {<<0, 1>>}
=============================================================================
