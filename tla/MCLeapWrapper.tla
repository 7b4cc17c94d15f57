---------------------------- MODULE MCLeapWrapper ----------------------------
\* Frames without a hand, with either of two hands and with both; a ring of up
\* to three frames; up to two connections, so two polling threads at once.
\* With two threads only the counts of hands matter: one content does.
EXTENDS LeapWrapperSpec

MCHand == {"zero", "a", "b"}
MCZeroHand == "zero"
MCFrame == {<<>>, <<"a">>, <<"b">>, <<"a", "b">>}
MCHandOne == {"zero"}
MCFrameOne == {<<>>, <<"zero">>, <<"zero", "zero">>}
=============================================================================
