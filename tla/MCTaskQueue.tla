---------------------------- MODULE MCTaskQueue ----------------------------
\* A producer and a trigger that find the same last place free, and two
\* consumers.
EXTENDS TaskQueue

CONSTANTS p1, t1, c1, c2

MCProducers == {p1}
MCTriggers == {t1}
MCConsumers == {c1, c2}
=============================================================================
