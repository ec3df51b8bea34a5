----------------------------- MODULE MCArrayMap -----------------------------
EXTENDS ArrayMap

Keys3 == 1 .. 3
AnyGarbage == {TRUE, FALSE}
=============================================================================
