------------------------------- MODULE MCLpSync -------------------------------
\* A confident left hand, a right hand, the zero hand of vector::resize, and
\* the mix of the first two that a torn copy can hold.  The main instance has
\* frames of no, one and two hands, so that the storage moves, and one
\* connection; the one of the retries has two connections and no hand in the
\* frames.
EXTENDS LpSync

Left  == [type |-> "left",  confident |-> TRUE,  pose |-> "L"]
Right == [type |-> "right", confident |-> TRUE,  pose |-> "R"]
Zero  == [type |-> "left",  confident |-> FALSE, pose |-> "0"]
Mixed == [type |-> "left",  confident |-> TRUE,  pose |-> "R"]

MCHand == {Left, Right, Zero}
MCHandTorn == {Left, Right, Zero, Mixed}
MCHandLeft == {Left, Zero}
MCZeroHand == Zero
MCFrame == {<<>>, <<Left>>, <<Right>>}
MCFrameLeft == {<<>>, <<Left>>}
MCFrameNone == {<<>>}
MCFrameWide == {<<>>, <<Left>>, <<Right, Left>>}

MCKeys == {"q", "x", "enter"}
MCLines == {<<"q", "enter">>}
\* The getchar() that returns x takes the q into stdio's buffer, where select()
\* does not see it: a second line has to make the keyboard ready.
MCLinesTyped == {<<"x", "q", "enter">>}
MCLeftOnly == {"left"}
MCBoth == {"left", "right"}
=============================================================================
