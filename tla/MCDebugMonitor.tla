--------------------------- MODULE MCDebugMonitor ---------------------------
EXTENDS DebugMonitor

CONSTANTS t1, t2
=============================================================================
