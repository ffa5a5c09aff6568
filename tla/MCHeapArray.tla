----------------------------- MODULE MCHeapArray -----------------------------
EXTENDS HeapArray, TLC

CONSTANTS x, y, a1, a2, b1, b2, b3
=============================================================================
