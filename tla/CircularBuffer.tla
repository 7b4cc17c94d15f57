--------------------------- MODULE CircularBuffer ---------------------------
(***************************************************************************)
(* ar::Types::CircularBuffer<T> of src/common/arCircularBuffer.h as a data *)
(* type: a buffer is a record of the vector's storage and the two indices, *)
(* and every member function is an operator on such a record.  Indices are *)
(* the code's: slots are numbered from 0.                                  *)
(***************************************************************************)
EXTENDS Integers

CONSTANTS
    Element,    \* the values a slot can hold
    Default     \* T{}, what vector::resize puts into a new slot

ASSUME DefaultAssumption == Default \in Element

\* A buffer of n slots, indices anywhere a sequence of calls may leave them.
Buffer(n) ==
    [slots : [0 .. n-1 -> Element], size : {n}, tail : Nat, head : Nat]

\* CircularBuffer(): every counter 0 and the vector empty.
Unsized == [slots |-> [i \in 0 .. -1 |-> Default], size |-> 0, tail |-> 0, head |-> 0]

\* Variants with a defect: setSize that forgets the vector, or its clear().
SetSizeNoStorage(b, n) == [b EXCEPT !.size = n]

SetSizeNoClear(b, n) ==
    [slots |-> [i \in 0 .. n-1 |-> IF i < b.size THEN b.slots[i] ELSE Default],
     size |-> n, tail |-> b.tail, head |-> b.head]

\* setSize clears the storage; the two indices keep their values.
SetSize(b, n) ==
    [slots |-> [i \in 0 .. n-1 |-> Default], size |-> n, tail |-> b.tail, head |-> b.head]

\* The slot an access touches exists (operator[] on the vector is unchecked).
InStorage(b, i) == i \in 0 .. b.size - 1

\* Variants with a defect: a tail that never wraps, a head left behind.
AddNoWrap(b, v) == [b EXCEPT !.slots[b.tail] = v, !.tail = b.tail + 1, !.head = b.tail]

AddHeadStays(b, v) == [b EXCEPT !.slots[b.tail] = v, !.tail = (b.tail + 1) % b.size]

\* The two statements of add, when the slot exists: the write, and
\* updateHeadTail, which moves the tail on and puts the head one behind it.
\* i is m_tail as the statement reads it.
Write(b, i, v) ==
    [slots |-> [b.slots EXCEPT ![i] = v], size |-> b.size, tail |-> b.tail, head |-> b.head]

UpdateHeadTail(b, i) ==
    LET t == (i + 1) % b.size
    IN  [slots |-> b.slots, size |-> b.size, tail |-> t, head |-> (t + b.size - 1) % b.size]

Add(b, v) == UpdateHeadTail(Write(b, b.tail, v), b.tail)

Back(b) == b.slots[b.tail]

Front(b) == b.slots[b.head]

Empty(b) == b.tail = b.head

PopFront(b) ==
    IF Empty(b) THEN b ELSE [b EXCEPT !.head = (b.head + 1) % b.size]

=============================================================================
