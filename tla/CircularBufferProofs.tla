------------------------ MODULE CircularBufferProofs ------------------------
(***************************************************************************)
(* Theorems about one CircularBuffer, for every element type, every set of *)
(* sizes and any sequence of calls.                                        *)
(***************************************************************************)
EXTENDS CircularBufferSpec, TLAPS

\* Where the indices are once the vector has slots and the tail is in it; the
\* head follows the tail as long as add was the last call.
IndexInv ==
    /\ buf.size = 0 => buf.tail = buf.head
    /\ buf.size > 0 => buf.size \in Sizes
    /\ (buf.size > 0 /\ ~cut) => buf.tail < buf.size
    /\ cut => ~fresh /\ buf.tail >= buf.size
    /\ fresh => /\ buf.size > 0 /\ count > 0
                /\ buf.head = (buf.tail + buf.size - 1) % buf.size
                /\ buf.slots[buf.head] = last

\* Read from the tail, what was never written since setSize comes first.
BlankInv ==
    /\ count <= buf.size
    /\ cut => \A i \in 0 .. buf.size - 1 : buf.slots[i] = Default
    /\ \A k \in 1 .. buf.size - count : buf.slots[(buf.tail + k - 1) % buf.size] = Default

Inv == TypeOK /\ IndexInv /\ BlankInv

-----------------------------------------------------------------------------
\* An index below the size is its own remainder.
LEMMA Below ==
    ASSUME NEW m \in Nat \ {0}, NEW a \in 0 .. m-1
    PROVE  a % m = a
OBVIOUS

\* The new tail of add, and the slots read from it: the old window from its
\* second place on, and last the slot just written.
LEMMA TailMoves ==
    \A m \in Nat \ {0} : \A a \in 0 .. m-1 : \A t : t = (a + 1) % m =>
        /\ t \in 0 .. m-1
        /\ \A k \in 1 .. m :
             /\ k < m => (t + k - 1) % m = (a + k) % m /\ (a + k) % m # a
             /\ k = m => (t + k - 1) % m = a
<1> SUFFICES ASSUME NEW m \in Nat \ {0}, NEW a \in 0 .. m-1, NEW t, t = (a + 1) % m,
                    NEW k \in 1 .. m
             PROVE  /\ k < m => (t + k - 1) % m = (a + k) % m /\ (a + k) % m # a
                    /\ k = m => (t + k - 1) % m = a
  <2>1. ASSUME NEW m \in Nat \ {0}, NEW a \in 0 .. m-1 PROVE (a + 1) % m \in 0 .. m-1
    <3>1. CASE a + 1 < m
      BY <3>1
    <3>2. CASE a + 1 = m
      BY <3>2
    <3>3. QED
      BY <3>1, <3>2
  <2>2. QED
    BY <2>1, ZenonT(40)
<1>1. t = IF a + 1 < m THEN a + 1 ELSE 0
  OBVIOUS
<1>2. t \in 0 .. m-1
  BY <1>1
<1>3. (a + k) % m = IF a + k < m THEN a + k ELSE a + k - m
  OBVIOUS
<1>4. CASE a + 1 < m
  <2>1. t + k - 1 = a + k
    BY <1>1, <1>4
  <2>2. QED
    BY <1>2, <1>3, <2>1
<1>5. CASE a + 1 >= m
  <2>1. t + k - 1 = k - 1 /\ a = m - 1
    BY <1>1, <1>5
  <2>2. (k - 1) % m = k - 1
    OBVIOUS
  <2>3. (a + k) % m = k - 1
    BY <1>3, <2>1
  <2>4. QED
    BY <1>2, <2>1, <2>2, <2>3
<1>6. QED
  BY <1>4, <1>5

-----------------------------------------------------------------------------
\* What the two calls that change the window leave behind.
LEMMA SetSizeFacts ==
    ASSUME NEW n \in Sizes, Inv, SetSizeCall(n)
    PROVE  /\ n \in Nat \ {0}
           /\ buf'.size = n /\ buf'.tail = buf.tail /\ buf'.head = buf.head
           /\ buf' \in Buffer(n)
           /\ \A i \in 0 .. n-1 : buf'.slots[i] = Default
BY SizesAssumption, DefaultAssumption DEF Inv, TypeOK, SetSizeCall, SetSize, Buffer

LEMMA AddFacts ==
    ASSUME NEW v \in Element, Inv, AddCall(v)
    PROVE  /\ buf.size \in Nat \ {0} /\ buf.tail \in 0 .. buf.size - 1 /\ buf \in Buffer(buf.size)
           /\ buf'.size = buf.size /\ buf' \in Buffer(buf.size)
           /\ buf'.tail = (buf.tail + 1) % buf.size
           /\ buf'.head = buf.tail
           /\ buf'.head = (buf'.tail + buf.size - 1) % buf.size
           /\ buf'.slots = [buf.slots EXCEPT ![buf.tail] = v]
<1> DEFINE n == buf.size
           t == (buf.tail + 1) % n
<1>1. n \in Nat \ {0} /\ buf.tail \in 0 .. n-1 /\ buf \in Buffer(n)
  BY SizesAssumption DEF Inv, TypeOK, AddCall, InStorage, Buffer
<1>2. buf' = Add(buf, v)
  BY DEF AddCall
<1>3. t \in 0 .. n-1 /\ (t + n - 1) % n = buf.tail
  <2>1. n \in 1 .. n
    BY <1>1
  <2>2. QED
    BY <1>1, <2>1, TailMoves, ZenonT(40)
<1>4. /\ buf'.size = n /\ buf'.tail = t /\ buf'.head = (t + n - 1) % n
      /\ buf'.slots = [buf.slots EXCEPT ![buf.tail] = v]
  BY <1>2 DEF Add, Write, UpdateHeadTail
<1>5. buf' = [slots |-> buf'.slots, size |-> n, tail |-> t, head |-> buf.tail]
  BY <1>2, <1>3 DEF Add, Write, UpdateHeadTail
<1>6. buf'.slots \in [0 .. n-1 -> Element]
  BY <1>1, <1>4 DEF Buffer
<1> HIDE DEF n, t
<1>7. buf' \in Buffer(n)
  BY <1>1, <1>3, <1>5, <1>6 DEF Buffer
<1>8. QED
  BY <1>1, <1>3, <1>4, <1>7 DEF n, t

-----------------------------------------------------------------------------
\* The window moves one place: place k is then the slot place k+1 was, the
\* last one the slot add wrote.
LEMMA TailRead ==
    ASSUME NEW v \in Element, Inv, AddCall(v), NEW k \in 1 .. buf.size
    PROVE  /\ k < buf.size =>
                /\ (buf'.tail + k - 1) % buf.size = (buf.tail + k) % buf.size
                /\ (buf.tail + k) % buf.size # buf.tail
           /\ k = buf.size => (buf'.tail + k - 1) % buf.size = buf.tail
<1>1. /\ buf.size \in Nat \ {0} /\ buf.tail \in 0 .. buf.size - 1
      /\ buf'.tail = (buf.tail + 1) % buf.size
  BY AddFacts
<1>2. \A t : t = (buf.tail + 1) % buf.size =>
        /\ t \in 0 .. buf.size - 1
        /\ \A j \in 1 .. buf.size :
             /\ j < buf.size => /\ (t + j - 1) % buf.size = (buf.tail + j) % buf.size
                                /\ (buf.tail + j) % buf.size # buf.tail
             /\ j = buf.size => (t + j - 1) % buf.size = buf.tail
  <2>1. ASSUME NEW m, NEW a, m \in Nat \ {0}, a \in 0 .. m-1
        PROVE  \A t : t = (a + 1) % m =>
                 /\ t \in 0 .. m-1
                 /\ \A j \in 1 .. m :
                      /\ j < m => (t + j - 1) % m = (a + j) % m /\ (a + j) % m # a
                      /\ j = m => (t + j - 1) % m = a
    BY <2>1, TailMoves
  <2>2. QED
    BY <1>1, <2>1
<1>3. \A j \in 1 .. buf.size :
        /\ j < buf.size => /\ (buf'.tail + j - 1) % buf.size = (buf.tail + j) % buf.size
                           /\ (buf.tail + j) % buf.size # buf.tail
        /\ j = buf.size => (buf'.tail + j - 1) % buf.size = buf.tail
  BY <1>1, <1>2, Zenon
<1>4. QED
  BY <1>3, Zenon

-----------------------------------------------------------------------------
LEMMA InvInit == Init => Inv
<1> SUFFICES ASSUME Init PROVE Inv
  OBVIOUS
<1>1. buf \in Buffer(0) /\ buf.size = 0 /\ buf.tail = 0 /\ buf.head = 0
  BY DEF Init, Unsized, Buffer
<1>2. TypeOK
  BY <1>1, DefaultAssumption DEF Init, TypeOK
<1>3. IndexInv /\ BlankInv
  BY <1>1 DEF Init, IndexInv, BlankInv
<1>4. QED
  BY <1>2, <1>3 DEF Inv

LEMMA SetSizeStep == ASSUME NEW n \in Sizes, Inv, SetSizeCall(n) PROVE Inv'
<1>1. /\ n \in Nat \ {0}
      /\ buf'.size = n /\ buf'.tail = buf.tail /\ buf'.head = buf.head
      /\ buf' \in Buffer(n)
      /\ \A i \in 0 .. n-1 : buf'.slots[i] = Default
  BY SetSizeFacts
<1>2. buf.tail \in Nat /\ fresh' = FALSE /\ count' = 0
  BY <1>1 DEF Buffer, SetSizeCall
<1>3. TypeOK'
  BY <1>1 DEF Inv, TypeOK, SetSizeCall
<1>4. IndexInv'
  <2>1. cut' <=> ~(buf.tail \in 0 .. n-1)
    BY <1>1 DEF SetSizeCall, InStorage
  <2>2. (cut' => buf.tail >= n) /\ (~cut' => buf.tail < n)
    BY <1>1, <1>2, <2>1
  <2>3. QED
    BY <1>1, <1>2, <2>2 DEF IndexInv
<1>5. BlankInv'
  <2>1. ASSUME NEW k \in 1 .. n PROVE (buf.tail + k - 1) % n \in 0 .. n-1
    BY <1>1, <1>2
  <2>2. QED
    BY <1>1, <1>2, <2>1 DEF BlankInv
<1>6. QED
  BY <1>3, <1>4, <1>5 DEF Inv

LEMMA AddStep == ASSUME NEW v \in Element, Inv, AddCall(v) PROVE Inv'
<1> DEFINE n == buf.size
<1>1. /\ n \in Nat \ {0} /\ buf.tail \in 0 .. n-1 /\ buf \in Buffer(n)
      /\ buf'.size = n /\ buf' \in Buffer(n)
      /\ buf'.tail = (buf.tail + 1) % n
      /\ buf'.head = buf.tail
      /\ buf'.head = (buf'.tail + n - 1) % n
      /\ buf'.slots = [buf.slots EXCEPT ![buf.tail] = v]
  BY AddFacts
<1>2. /\ buf.slots \in [0 .. n-1 -> Element] /\ buf'.tail \in 0 .. n-1
      /\ buf'.slots[buf.tail] = v
  <2>1. (buf.tail + 1) % n \in 0 .. n-1
    <3> HIDE DEF n
    <3>1. QED
      BY <1>1
  <2>2. buf.slots \in [0 .. n-1 -> Element]
    BY <1>1 DEF Buffer
  <2>3. QED
    BY <1>1, <2>1, <2>2
<1>3. n \in Sizes /\ cut = FALSE /\ count \in Nat /\ count <= n
  <2>1. IndexInv /\ BlankInv /\ cut \in BOOLEAN /\ count \in Nat
    BY DEF Inv, TypeOK
  <2>2. n \in Sizes /\ ~cut
    BY <1>1, <2>1 DEF IndexInv
  <2>3. QED
    BY <2>1, <2>2 DEF BlankInv
<1>4. /\ fresh' = TRUE /\ last' = v /\ wild' = wild /\ cut' = FALSE
      /\ count' = IF count < n THEN count + 1 ELSE count
  BY <1>3 DEF AddCall
<1>5. count' \in Nat /\ count' <= n /\ count' > 0
  BY <1>1, <1>3, <1>4
<1>6. TypeOK'
  <2>1. \E m \in Sizes \cup {0} : buf' \in Buffer(m)
    BY <1>1, <1>3
  <2>2. QED
    BY <1>4, <1>5, <2>1 DEF Inv, TypeOK
<1>7. IndexInv'
  <2> HIDE DEF n
  <2>1. QED
    BY <1>1, <1>2, <1>3, <1>4, <1>5 DEF IndexInv
<1>8. \A k \in 1 .. n : k < n =>
        (buf'.tail + k - 1) % n = (buf.tail + k) % n /\ (buf.tail + k) % n # buf.tail
  BY TailRead
<1>9. BlankInv'
  <2>1. \A k \in 1 .. n - count : buf.slots[(buf.tail + k - 1) % n] = Default
    BY DEF Inv, BlankInv
  <2> HIDE DEF n
  <2>2. ASSUME NEW k \in 1 .. n - count'
        PROVE  buf'.slots[(buf'.tail + k - 1) % n] = Default
    <3>1. k \in Nat /\ k < n /\ k \in 1 .. n /\ k + 1 \in 1 .. n - count
      BY <1>1, <1>3, <1>4
    <3>2. buf.slots[(buf.tail + (k + 1) - 1) % n] = Default /\ buf.tail + (k + 1) - 1 = buf.tail + k
      BY <1>1, <2>1, <3>1
    <3>3. (buf'.tail + k - 1) % n = (buf.tail + k) % n /\ (buf.tail + k) % n # buf.tail
      BY <1>8, <3>1, Zenon
    <3>4. (buf.tail + k) % n \in 0 .. n-1
      BY <1>1, <3>1
    <3>5. QED
      BY <1>1, <1>2, <3>2, <3>3, <3>4
  <2>3. QED
    BY <1>1, <1>4, <1>5, <2>2 DEF BlankInv
<1>10. QED
  BY <1>6, <1>7, <1>9 DEF Inv

LEMMA PopFrontFacts ==
    ASSUME Inv, PopFrontCall
    PROVE  /\ buf'.slots = buf.slots /\ buf'.size = buf.size /\ buf'.tail = buf.tail
           /\ \A n \in Nat : buf \in Buffer(n) => buf' \in Buffer(n)
<1>1. PICK n \in Sizes \cup {0} : buf \in Buffer(n)
  BY DEF Inv, TypeOK
<1>2. CASE Empty(buf)
  BY <1>2 DEF PopFrontCall, PopFront
<1>3. CASE ~Empty(buf)
  <2>1. buf' = [buf EXCEPT !.head = (buf.head + 1) % buf.size]
    BY <1>3 DEF PopFrontCall, PopFront
  <2>2. buf.size # 0
    BY <1>3 DEF Inv, IndexInv, Empty
  <2>3. ASSUME NEW m \in Nat, buf \in Buffer(m) PROVE buf' \in Buffer(m)
    <3>1. buf.size = m /\ buf.head \in Nat
      BY <2>3 DEF Buffer
    <3>2. (buf.head + 1) % m \in Nat
      BY <2>2, <3>1
    <3>3. QED
      BY <2>1, <2>3, <3>1, <3>2 DEF Buffer
  <2>4. QED
    BY <2>1, <2>3
<1>4. QED
  BY <1>2, <1>3

LEMMA PopFrontStep == ASSUME Inv, PopFrontCall PROVE Inv'
<1>1. /\ buf'.slots = buf.slots /\ buf'.size = buf.size /\ buf'.tail = buf.tail
      /\ \A n \in Nat : buf \in Buffer(n) => buf' \in Buffer(n)
  BY PopFrontFacts
<1>2. fresh' = FALSE /\ UNCHANGED <<wild, cut, last, count>>
  BY DEF PopFrontCall
<1>3. TypeOK'
  BY <1>1, <1>2, SizesAssumption DEF Inv, TypeOK
<1>4. IndexInv'
  <2>1. buf.size = 0 => buf' = buf
    BY DEF Inv, IndexInv, PopFrontCall, PopFront, Empty
  <2>2. QED
    BY <1>1, <1>2, <2>1 DEF Inv, IndexInv
<1>5. BlankInv'
  BY <1>1, <1>2 DEF Inv, BlankInv
<1>6. QED
  BY <1>3, <1>4, <1>5 DEF Inv

LEMMA InvStep == Inv /\ [Next]_vars => Inv'
<1> SUFFICES ASSUME Inv, [Next]_vars PROVE Inv'
  OBVIOUS
<1>1. ASSUME NEW n \in Sizes, SetSizeCall(n) PROVE Inv'
  BY <1>1, SetSizeStep
<1>2. ASSUME NEW v \in Element, AddCall(v) PROVE Inv'
  BY <1>2, AddStep
<1>3. CASE AddOutside
  BY <1>3 DEF AddOutside, Inv, TypeOK, IndexInv, BlankInv
<1>4. CASE PopFrontCall
  BY <1>4, PopFrontStep
<1>5. CASE UNCHANGED vars
  BY <1>5 DEF vars, Inv, TypeOK, IndexInv, BlankInv
<1>6. QED
  BY <1>1, <1>2, <1>3, <1>4, <1>5 DEF Next

-----------------------------------------------------------------------------
\* Every call keeps the object's type: as many slots as m_size says.
THEOREM RingTypeCorrect == Spec => []TypeOK
<1>1. Inv => TypeOK
  BY DEF Inv
<1>2. QED
  BY InvInit, InvStep, <1>1, PTL DEF Spec

\* Only an add without a size, or after a setSize that cut the tail off, can
\* write outside the vector.
THEOREM WildWritesAreMisuse == Spec => []WildWriteNeedsMisuse
<1>1. Init => WildWriteNeedsMisuse
  BY DEF Init, WildWriteNeedsMisuse
<1>2. Inv /\ WildWriteNeedsMisuse /\ [Next]_vars => WildWriteNeedsMisuse'
  <2> SUFFICES ASSUME Inv, WildWriteNeedsMisuse, [Next]_vars PROVE WildWriteNeedsMisuse'
    OBVIOUS
  <2>1. CASE AddOutside
    <3>1. buf.size \in Nat /\ buf.tail \in Nat
      BY SizesAssumption DEF Inv, TypeOK, Buffer
    <3>2. buf.size = 0 \/ cut
      BY <2>1, <3>1 DEF AddOutside, InStorage, Inv, IndexInv
    <3>3. QED
      BY <2>1, <3>2 DEF AddOutside, WildWriteNeedsMisuse
  <2>2. CASE wild' = FALSE
    BY <2>2 DEF WildWriteNeedsMisuse
  <2>3. CASE UNCHANGED vars
    BY <2>3 DEF vars, WildWriteNeedsMisuse
  <2>4. (\E n \in Sizes : SetSizeCall(n)) \/ (\E v \in Element : AddCall(v)) \/ PopFrontCall
            => wild' = FALSE
    BY DEF SetSizeCall, AddCall, PopFrontCall, Inv, TypeOK
  <2>5. QED
    BY <2>1, <2>2, <2>3, <2>4 DEF Next
<1>3. QED
  BY InvInit, InvStep, <1>1, <1>2, PTL DEF Spec

\* Right after an add front() is the newest value and back() the oldest place
\* of the window, T{} while the ring is not full: what onFrame relies on when
\* it reads back().
THEOREM FrontIsNewest == Spec => []FrontNewestBackOldest
<1>1. Inv => FrontNewestBackOldest
  <2> SUFFICES ASSUME Inv, fresh, buf.size > 1
               PROVE  /\ Front(buf) = last /\ Back(buf) = Window[1]
                      /\ count < buf.size => Back(buf) = Default
    BY DEF FrontNewestBackOldest
  <2> DEFINE n == buf.size
  <2>1. n \in Nat \ {0} /\ buf.tail \in 0 .. n-1 /\ count \in Nat
    BY SizesAssumption DEF Inv, TypeOK, IndexInv, Buffer
  <2>2. (buf.tail + 1 - 1) % n = buf.tail
    <3>1. buf.tail + 1 - 1 = buf.tail
      BY <2>1
    <3>2. QED
      BY <2>1, <3>1, Below
  <2>3. Window[1] = Back(buf)
    <3>1. 1 \in 1 .. n
      BY <2>1
    <3>2. Window[1] = buf.slots[(buf.tail + 1 - 1) % n]
      BY <3>1 DEF Window
    <3>3. QED
      BY <2>2, <3>2 DEF Back
  <2>4. ASSUME count < n PROVE Back(buf) = Default
    <3>1. 1 \in 1 .. n - count
      BY <2>1, <2>4
    <3>2. QED
      BY <2>2, <3>1 DEF Inv, BlankInv, Back
  <2>5. QED
    BY <2>3, <2>4 DEF Front, Inv, IndexInv
<1>2. QED
  BY InvInit, InvStep, <1>1, PTL DEF Spec

-----------------------------------------------------------------------------
\* The window after each call is the abstract window after its operation.
LEMMA SetSizeResizes ==
    ASSUME NEW n \in Sizes, Inv, SetSizeCall(n) PROVE SW!Resize(n)
<1>1. /\ n \in Nat \ {0} /\ buf'.size = n /\ buf'.tail = buf.tail /\ buf' \in Buffer(n)
      /\ \A i \in 0 .. n-1 : buf'.slots[i] = Default
  BY SetSizeFacts
<1>2. ASSUME NEW k \in 1 .. n PROVE buf'.slots[(buf'.tail + k - 1) % n] = Default
  <2>1. buf'.tail \in Nat
    BY <1>1 DEF Buffer
  <2>2. (buf'.tail + k - 1) % n \in 0 .. n-1
    BY <1>1, <2>1
  <2>3. QED
    BY <1>1, <2>2
<1>3. Window' = [k \in 1 .. n |-> Default]
  BY <1>1, <1>2 DEF Window
<1>4. QED
  BY <1>1, <1>3 DEF SW!Resize, SW!Blank

LEMMA AddPushes ==
    ASSUME NEW v \in Element, Inv, AddCall(v) PROVE SW!Push(v)
<1> DEFINE n == buf.size
<1>1. /\ n \in Nat \ {0} /\ buf.tail \in 0 .. n-1 /\ buf \in Buffer(n)
      /\ buf'.size = n
      /\ buf'.tail = (buf.tail + 1) % n
      /\ buf'.slots = [buf.slots EXCEPT ![buf.tail] = v]
  BY AddFacts
<1>2. buf.slots \in [0 .. n-1 -> Element]
  BY <1>1 DEF Buffer
<1>3. ASSUME NEW k \in 1 .. n
      PROVE  buf'.slots[(buf'.tail + k - 1) % n]
               = IF k = n THEN v ELSE buf.slots[(buf.tail + (k + 1) - 1) % n]
  <2>1. /\ k < n => (buf'.tail + k - 1) % n = (buf.tail + k) % n /\ (buf.tail + k) % n # buf.tail
        /\ k = n => (buf'.tail + k - 1) % n = buf.tail
    BY TailRead
  <2> HIDE DEF n
  <2>2. (buf.tail + k) % n \in 0 .. n-1 /\ buf.tail + (k + 1) - 1 = buf.tail + k
    BY <1>1
  <2>3. CASE k = n
    BY <1>1, <1>2, <2>1, <2>3
  <2>4. CASE k < n
    BY <1>1, <1>2, <2>1, <2>2, <2>4
  <2>5. QED
    BY <1>1, <2>3, <2>4
<1>4. Window = [k \in 1 .. n |-> buf.slots[(buf.tail + k - 1) % n]]
  BY DEF Window
<1>5. Window' = [k \in 1 .. n |-> buf'.slots[(buf'.tail + k - 1) % n]]
  BY <1>1 DEF Window
<1>6. ASSUME NEW k \in 1 .. n, k # n
      PROVE  Window[k + 1] = buf.slots[(buf.tail + (k + 1) - 1) % n]
  <2>1. k + 1 \in 1 .. n
    BY <1>1, <1>6
  <2>2. QED
    BY <1>4, <2>1
<1>7. Window' = [k \in 1 .. n |-> IF k = n THEN v ELSE Window[k + 1]]
  BY <1>3, <1>5, <1>6
<1>8. QED
  BY <1>1, <1>7 DEF SW!Push

\* The ring implements the sliding window: its initial states are windows of
\* width 0, every call is a Resize, a Push or no change to the window.
THEOREM ImplementsWindow == Spec => WindowRefinement
<1>1. Init => SW!Init
  <2> SUFFICES ASSUME Init PROVE buf.size = 0 /\ Window = [k \in 1 .. 0 |-> Default]
    BY DEF SW!Init, SW!Blank
  <2>1. buf.size = 0
    BY DEF Init, Unsized
  <2>2. QED
    BY <2>1 DEF Window
<1>2. Inv /\ [Next]_vars => [SW!Next]_<<buf.size, Window>>
  <2> SUFFICES ASSUME Inv, [Next]_vars PROVE [SW!Next]_<<buf.size, Window>>
    OBVIOUS
  <2>1. ASSUME NEW n \in Sizes, SetSizeCall(n) PROVE SW!Next
    BY <2>1, SetSizeResizes DEF SW!Next
  <2>2. ASSUME NEW v \in Element, AddCall(v) PROVE SW!Next
    BY <2>2, AddPushes DEF SW!Next
  <2>3. CASE AddOutside \/ UNCHANGED vars
    BY <2>3 DEF AddOutside, vars, Window
  <2>4. CASE PopFrontCall
    BY <2>4, PopFrontFacts DEF Window
  <2>5. QED
    BY <2>1, <2>2, <2>3, <2>4 DEF Next
<1>3. QED
  BY InvInit, InvStep, <1>1, <1>2, PTL DEF Spec, WindowRefinement, SW!Spec

=============================================================================
