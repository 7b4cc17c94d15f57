-------------------------- MODULE MCExampleConnection --------------------------
\* Three frames and three devices, every program, a recording of two frames.
EXTENDS ExampleConnection
=============================================================================
