---------------------------- MODULE SlidingWindow ----------------------------
(***************************************************************************)
(* What a ring of tracking frames promises to its users: a window over the *)
(* most recent values, oldest first.  Adding a value pushes the oldest one *)
(* out; giving the ring a size empties the window, every place holding the *)
(* default value.                                                          *)
(***************************************************************************)
EXTENDS Integers

CONSTANTS Element, Default, Sizes

VARIABLES
    width,      \* how many values the window spans, 0 before it has a size
    window      \* window[1] is the oldest value, window[width] the newest

Blank(n) == [k \in 1 .. n |-> Default]

Init == width = 0 /\ window = Blank(0)

Resize(n) == width' = n /\ window' = Blank(n)

Push(v) ==
    /\ width > 0
    /\ window' = [k \in 1 .. width |-> IF k = width THEN v ELSE window[k + 1]]
    /\ UNCHANGED width

Next == (\E n \in Sizes : Resize(n)) \/ (\E v \in Element : Push(v))

Spec == Init /\ [][Next]_<<width, window>>

=============================================================================
