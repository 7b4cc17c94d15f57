-------------------------- MODULE MCCircularBuffer --------------------------
\* Three values besides the one vector::resize writes, rings of one to three
\* slots: long enough to wrap around several times and to shrink under a tail.
EXTENDS CircularBufferSpec

MCElement == 0 .. 2
MCDefault == 0
MCSizes == 1 .. 3
=============================================================================
