------------------------- MODULE CircularBufferSpec -------------------------
(***************************************************************************)
(* One CircularBuffer under every sequence of calls its public interface   *)
(* allows.  A call that touches a slot the vector does not have is a wild  *)
(* write; the object is not used after it.                                 *)
(***************************************************************************)
EXTENDS CircularBuffer

CONSTANT Sizes      \* the sizes setSize is called with

ASSUME SizesAssumption == Sizes \subseteq Nat \ {0}

VARIABLES
    buf,        \* the object
    wild,       \* an add has written outside the vector
    cut,        \* ghost: the last setSize left the tail outside the storage
    fresh,      \* ghost: add was the last call, no popFront or setSize since
    last,       \* ghost: the value added last
    count       \* ghost: how many values were added since the last setSize

vars == <<buf, wild, cut, fresh, last, count>>

TypeOK ==
    /\ \E n \in Sizes \cup {0} : buf \in Buffer(n)
    /\ wild \in BOOLEAN /\ cut \in BOOLEAN /\ fresh \in BOOLEAN
    /\ last \in Element
    /\ count \in Nat

Init ==
    /\ buf = Unsized
    /\ wild = FALSE /\ cut = FALSE /\ fresh = FALSE
    /\ last = Default
    /\ count = 0

SetSizeCall(n) ==
    /\ ~wild
    /\ buf' = SetSize(buf, n)
    /\ cut' = ~InStorage(buf', buf'.tail)
    /\ fresh' = FALSE
    /\ count' = 0
    /\ UNCHANGED <<wild, last>>

AddCall(v) ==
    /\ ~wild
    /\ InStorage(buf, buf.tail)
    /\ buf' = Add(buf, v)
    /\ fresh' = TRUE /\ last' = v
    /\ count' = IF count < buf.size THEN count + 1 ELSE count
    /\ UNCHANGED <<wild, cut>>

AddOutside ==
    /\ ~wild
    /\ ~InStorage(buf, buf.tail)
    /\ wild' = TRUE
    /\ UNCHANGED <<buf, cut, fresh, last, count>>

PopFrontCall ==
    /\ ~wild
    /\ buf' = PopFront(buf)
    /\ fresh' = FALSE
    /\ UNCHANGED <<wild, cut, last, count>>

Next ==
    \/ \E n \in Sizes : SetSizeCall(n)
    \/ \E v \in Element : AddCall(v)
    \/ AddOutside
    \/ PopFrontCall

Spec == Init /\ [][Next]_vars

-----------------------------------------------------------------------------
\* The slots in the order the next adds overwrite them.
Window == [k \in 1 .. buf.size |-> buf.slots[(buf.tail + k - 1) % buf.size]]

SW == INSTANCE SlidingWindow WITH width <- buf.size, window <- Window

\* The buffer is a window over the last `size` values whatever calls are
\* mixed: add, popFront and a repeated setSize never reorder, drop early or
\* duplicate a value that is still inside it (arCircularBuffer.h add,
\* updateHeadTail, setSize).
WindowRefinement == SW!Spec

\* Only two misuses make add write outside the vector: no setSize before it,
\* or a setSize to a size at or below the tail, which setSize does not reset.
WildWriteNeedsMisuse == wild => (buf.size = 0 \/ cut)

\* Right after an add, front() is the value just added and back() is the
\* oldest place of the window: the value added size-1 adds before, or still
\* T{} while fewer than `size` values were added.  onFrame of the Leap
\* wrapper reads back() right after add.  The comments of arCircularBuffer.h
\* say the reverse: getHead() "the oldest object id", getTail() "the latest",
\* back() "the last value" and front() "the first".
FrontNewestBackOldest ==
    (fresh /\ buf.size > 1) =>
        /\ Front(buf) = last
        /\ Back(buf) = Window[1]
        /\ (count < buf.size => Back(buf) = Default)

=============================================================================
