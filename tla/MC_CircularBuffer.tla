------------------------- MODULE MC_CircularBuffer -------------------------
EXTENDS CircularBuffer
====
