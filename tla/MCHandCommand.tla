--------------------------- MODULE MCHandCommand ---------------------------
\* A thumb and an index finger; angles inside and outside every limit, on
\* both sides of 5 and of 20, and NaN.  Both hands are valid and the limits
\* of the right one, the last, are the ones held: wider than the left one's,
\* but for the index finger's middle joint, which may not go below 5.  On the
\* console indices inside the command, beyond a finger, behind the command and
\* in front of it.
EXTENDS HandTask

MCBoneAngle == {0, 15, 100, NaN}
MCGarbage == {77, -40}
MCBoth == {0, 1}

Same(n) == [f \in 0 .. 1 |-> [j \in 0 .. 2 |-> n]]
Tight(n) == [Same(n) EXCEPT ![0][2] = 10, ![1][2] = 10]
MCLower == [h \in {0, 1} |-> IF h = 0 THEN Same(-10) ELSE [Same(-10) EXCEPT ![1][1] = 5]]
MCUpper == [h \in {0, 1} |-> IF h = 0 THEN Same(40) ELSE Tight(90)]

Spread(n) == [f \in 0 .. 1 |-> [j \in 0 .. 2 |-> IF j = 2 THEN n ELSE 60]]
MCSelfCheck1 == Spread(-10)
MCSelfCheck2 == Spread(10)
MCTyped == {<<0, 1, 30>>, <<0, 5, 400>>, <<1, 2, NaN>>, <<7, 0, 30>>, <<-1, 0, 30>>}
=============================================================================
