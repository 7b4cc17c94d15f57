--------------------------- MODULE TaskQueueProofs ---------------------------
(***************************************************************************)
(* Theorems about the scheduler's queue, for any number of producers,      *)
(* triggers and consumers, any size of the queue and any number of objects.*)
(***************************************************************************)
EXTENDS TaskQueue, TLAPS, FiniteSetTheorems

\* The condition variables' queues are the threads that wait.
WaitInv ==
    /\ notFull = {m \in Makers : pc[m] = "waiting"}
    /\ notEmpty = {c \in Consumers : pc[c] = "waiting"}

\* A thread that puts has made what it puts.
PutInv == \A m \in Makers : pc[m] \in {"put", "waiting"} => made[m] > 0

\* What the last consumer has left behind, and what may still come: nothing
\* of a maker that is in the middle of an object, and no second object.
StopInv ==
    (\A c \in Consumers : pc[c] = "done") =>
        /\ ~running
        /\ \A i \in DOMAIN queue :
             /\ pc[queue[i][1]] \notin {"asks", "pred", "put", "waiting"}
             /\ \A j \in DOMAIN queue : queue[i][1] = queue[j][1] => i = j

Inv == TypeOK /\ WaitInv /\ PutInv /\ NothingLostOrDuplicated /\ StopInv

-----------------------------------------------------------------------------
LEMMA Constants ==
    /\ MaxSize \in Nat /\ MaxItems \in Nat
    /\ \A m \in Makers, c \in Consumers : m # c
    /\ Makers \subseteq Threads /\ Consumers \subseteq Threads
    /\ Producers \subseteq Makers /\ Triggers \subseteq Makers
BY ThreadAssumption, SizeAssumption DEF Makers, Threads

LEMMA OrderOfTake ==
    ASSUME used \in Seq(Item), queue \in Seq(Item), queue # <<>>
    PROVE  Append(used, Head(queue)) \o Tail(queue) = Order
<1> DEFINE s == Append(used, Head(queue)) \o Tail(queue)
<1>1. Len(s) = Len(Order) /\ s \in Seq(Item) /\ Order \in Seq(Item)
  BY DEF Order
<1>2. \A i \in 1 .. Len(s) : s[i] = Order[i]
  BY DEF Order
<1>3. QED
  BY <1>1, <1>2

LEMMA OrderOfPut ==
    ASSUME used \in Seq(Item), queue \in Seq(Item), NEW x \in Item
    PROVE  used \o Append(queue, x) = Append(Order, x)
<1> DEFINE s == used \o Append(queue, x)
           u == Append(Order, x)
<1>1. Len(s) = Len(u) /\ s \in Seq(Item) /\ u \in Seq(Item)
  BY DEF Order
<1>2. \A i \in 1 .. Len(s) : s[i] = u[i]
  BY DEF Order
<1>3. QED
  BY <1>1, <1>2

\* The labels of the program, and the threads that are notified.
Label == {"check", "asks", "pred", "put", "waiting", "after", "take", "timedout", "done"}

\* A thread goes on; nothing is put, taken, made or waited for.
LEMMA GoStep ==
    ASSUME Inv, NEW t \in Threads, NEW label \in Label, Go(t, label),
           UNCHANGED <<queue, notFull, notEmpty, made, used>>,
           pc[t] \notin {"put", "waiting"}, label \notin {"put", "waiting"},
           running' = running \/ running' = FALSE,
           label = "asks" => running, label = "pred" => pc[t] = "asks",
           (t \in Consumers /\ label = "done") => ~running /\ queue = <<>>,
           t \in Consumers => pc[t] # "done"
    PROVE  Inv'
<1> USE Constants DEF Label
<1>0. /\ pc \in [Threads -> Label] /\ pc'[t] = label
      /\ \A u \in Threads : u # t => pc'[u] = pc[u]
      /\ pc' \in [Threads -> Label]
  BY DEF Inv, TypeOK, Go
<1>1. TypeOK'
  BY <1>0 DEF Inv, TypeOK
<1>2. WaitInv'
  BY <1>0 DEF Inv, WaitInv
<1>3. PutInv'
  BY <1>0 DEF Inv, PutInv
<1>4. \A m \in Makers : InHand(m)' = InHand(m)
  BY <1>0 DEF InHand
<1>5. NothingLostOrDuplicated'
  BY <1>4 DEF Inv, NothingLostOrDuplicated, Order
<1>6. StopInv'
  <2> SUFFICES ASSUME \A c \in Consumers : pc'[c] = "done"
               PROVE  /\ ~running'
                      /\ \A i \in DOMAIN queue :
                            /\ pc'[queue[i][1]] \notin {"asks", "pred", "put", "waiting"}
                            /\ \A j \in DOMAIN queue : queue[i][1] = queue[j][1] => i = j
    BY DEF StopInv
  <2>1. CASE t \in Consumers
    <3>1. ~running /\ queue = <<>>
      BY <1>0, <2>1
    <3>2. QED
      BY <3>1
  <2>2. CASE t \notin Consumers
    <3>1. \A c \in Consumers : pc[c] = "done"
      BY <1>0, <2>2
    <3>2. ~running /\ ~running' /\ label # "asks"
      BY <3>1 DEF Inv, StopInv
    <3>3. \A i \in DOMAIN queue : queue[i][1] \in Threads
      BY DEF Inv, TypeOK, Item
    <3>4. \A i \in DOMAIN queue : label = "pred" => queue[i][1] # t
      BY <3>1 DEF Inv, StopInv
    <3>5. QED
      BY <1>0, <3>1, <3>2, <3>3, <3>4 DEF Inv, StopInv
  <2>3. QED
    BY <2>1, <2>2
<1>7. QED
  BY <1>1, <1>2, <1>3, <1>5, <1>6 DEF Inv

\* An object is made by a thread that held none.
LEMMA CreateStep ==
    ASSUME Inv, NEW t \in Makers, Create(t), pc[t] \notin {"put", "waiting"},
           pc[t] \in {"asks", "pred"}
    PROVE  Inv'
<1> USE Constants DEF Label
<1>0. /\ pc \in [Threads -> Label] /\ pc'[t] = "put" /\ t \in Threads
      /\ \A u \in Threads : u # t => pc'[u] = pc[u]
      /\ pc' \in [Threads -> Label]
      /\ made \in [Makers -> 0 .. MaxItems] /\ made' = [made EXCEPT ![t] = made[t] + 1]
      /\ made[t] < MaxItems /\ UNCHANGED <<queue, running, notFull, notEmpty, used>>
  BY DEF Inv, TypeOK, Create, Go
<1>1. TypeOK'
  BY <1>0 DEF Inv, TypeOK
<1>2. WaitInv'
  BY <1>0 DEF Inv, WaitInv
<1>3. PutInv'
  BY <1>0 DEF Inv, PutInv
<1>4. NothingLostOrDuplicated'
  <2>1. \A m \in Makers : m # t => InHand(m)' = InHand(m) /\ made'[m] = made[m]
    BY <1>0 DEF InHand
  <2>2. InHand(t) = {} /\ InHand(t)' = {made[t] + 1} /\ made'[t] = made[t] + 1
    BY <1>0 DEF InHand
  <2>3. \A k \in 1 .. MaxItems : (k <= made'[t] /\ k \notin InHand(t)') <=> (k <= made[t] /\ k \notin InHand(t))
    BY <1>0, <2>2
  <2>4. \A m \in Makers, k \in 1 .. MaxItems :
           (k <= made'[m] /\ k \notin InHand(m)') <=> (k <= made[m] /\ k \notin InHand(m))
    BY <2>1, <2>3
  <2>5. Order' = Order
    BY <1>0 DEF Order
  <2>6. QED
    BY <2>4, <2>5 DEF Inv, NothingLostOrDuplicated
<1>5. StopInv'
  <2> SUFFICES ASSUME \A c \in Consumers : pc'[c] = "done"
               PROVE  /\ ~running'
                      /\ \A i \in DOMAIN queue' :
                            /\ pc'[queue'[i][1]] \notin {"asks", "pred", "put", "waiting"}
                            /\ \A j \in DOMAIN queue' : queue'[i][1] = queue'[j][1] => i = j
    BY DEF StopInv
  <2>1. \A c \in Consumers : pc[c] = "done"
    BY <1>0
  <2>2. ~running /\ pc[t] \in {"asks", "pred"}
    BY <2>1 DEF Inv, StopInv
  <2>3. \A i \in DOMAIN queue : queue[i][1] \in Threads /\ queue[i][1] # t
    BY <2>1, <2>2 DEF Inv, StopInv, TypeOK, Item
  <2>4. QED
    BY <1>0, <2>1, <2>2, <2>3 DEF Inv, StopInv
<1>6. QED
  BY <1>1, <1>2, <1>3, <1>4, <1>5 DEF Inv
\* What a notification does to the labels, spelled out for NotifyOne.
LEMMA NotifyOnePut ==
    ASSUME TypeOK, WaitInv, NEW t \in Makers, NEW after \in {"check", "after"},
           pc[t] = "put", NotifyOne(notEmpty, t, after, "take")
    PROVE  /\ pc' \in [Threads -> Label] /\ pc'[t] = after
           /\ notEmpty' \subseteq notEmpty /\ \A c \in notEmpty \ notEmpty' : pc'[c] = "take"
           /\ \A u \in Threads : u # t /\ u \notin notEmpty \ notEmpty' => pc'[u] = pc[u]
           /\ notEmpty # {} => notEmpty \ notEmpty' # {}
<1> USE Constants
<1>0. /\ pc \in [Threads -> Label] /\ notEmpty \subseteq Consumers /\ t \in Threads
      /\ t \notin notEmpty
  BY DEF TypeOK, WaitInv, Label
<1>1. CASE notEmpty = {}
  BY <1>0, <1>1 DEF NotifyOne, Go, Label
<1>2. CASE notEmpty # {}
  <2>1. PICK w \in notEmpty : pc' = [pc EXCEPT ![t] = after, ![w] = "take"] /\ notEmpty' = notEmpty \ {w}
    BY <1>2 DEF NotifyOne
  <2>2. QED
    BY <1>0, <2>1 DEF Label
<1>3. QED
  BY <1>1, <1>2

LEMMA NotifyOneTake ==
    ASSUME TypeOK, WaitInv, NEW t \in Consumers, pc[t] \in {"take", "timedout"},
           NotifyOne(notFull, t, "check", "put")
    PROVE  /\ pc' \in [Threads -> Label] /\ pc'[t] = "check"
           /\ notFull' \subseteq notFull /\ \A m \in notFull \ notFull' : pc'[m] = "put"
           /\ \A u \in Threads : u # t /\ u \notin notFull \ notFull' => pc'[u] = pc[u]
<1> USE Constants
<1>0. /\ pc \in [Threads -> Label] /\ notFull \subseteq Makers /\ t \in Threads
      /\ t \notin notFull
  BY DEF TypeOK, WaitInv, Label
<1>1. CASE notFull = {}
  BY <1>0, <1>1 DEF NotifyOne, Go, Label
<1>2. CASE notFull # {}
  <2>1. PICK w \in notFull : pc' = [pc EXCEPT ![t] = "check", ![w] = "put"] /\ notFull' = notFull \ {w}
    BY <1>2 DEF NotifyOne
  <2>2. QED
    BY <1>0, <2>1 DEF Label
<1>3. QED
  BY <1>1, <1>2

LEMMA PutStep ==
    ASSUME Inv, NEW t \in Makers, NEW after \in {"check", "after"}, Put(t, after)
    PROVE  Inv'
<1> USE Constants
<1> DEFINE x == <<t, made[t]>>
<1>0. /\ pc[t] = "put" /\ queue' = Append(queue, x) /\ UNCHANGED <<running, notFull, made, used>>
      /\ NotifyOne(notEmpty, t, after, "take")
      /\ TypeOK /\ WaitInv /\ PutInv
  BY DEF Put, Inv
<1>1. /\ pc' \in [Threads -> Label] /\ pc'[t] = after
      /\ notEmpty' \subseteq notEmpty /\ \A c \in notEmpty \ notEmpty' : pc'[c] = "take"
      /\ \A u \in Threads : u # t /\ u \notin notEmpty \ notEmpty' => pc'[u] = pc[u]
      /\ notEmpty \subseteq Consumers /\ t \in Threads
  BY <1>0, NotifyOnePut DEF TypeOK
<1>2. x \in Item /\ made[t] \in 1 .. MaxItems
  BY <1>0 DEF TypeOK, PutInv, Item
<1>3. TypeOK'
  BY <1>0, <1>1, <1>2 DEF TypeOK, Label
<1>4. \A m \in Makers : m # t => pc'[m] = pc[m]
  BY <1>1
<1>5. WaitInv' /\ PutInv'
  <2>1. WaitInv'
    BY <1>0, <1>1, <1>4 DEF WaitInv
  <2>2. PutInv'
    BY <1>0, <1>1, <1>4 DEF PutInv
  <2>3. QED
    BY <2>1, <2>2
<1>6. Order' = Append(Order, x) /\ Order \in Seq(Item)
  BY <1>0, <1>2, OrderOfPut DEF TypeOK, Order
<1>7. NothingLostOrDuplicated'
  <2> DEFINE n == Len(Order)
  <2>1. /\ DOMAIN Order = 1 .. n /\ DOMAIN Order' = 1 .. n + 1 /\ n \in Nat
        /\ \A i \in 1 .. n : Order'[i] = Order[i] /\ Order[i] \in Item
        /\ Order'[n + 1] = x
    BY <1>2, <1>6
  <2>2. \A i \in 1 .. n : Order[i][1] = t => Order[i][2] < made[t]
    <3> SUFFICES ASSUME NEW i \in 1 .. n, Order[i][1] = t PROVE Order[i][2] < made[t]
      OBVIOUS
    <3>1. Order[i][2] \in 1 .. MaxItems /\ Order[i] = <<t, Order[i][2]>>
      BY <2>1 DEF Item
    <3>2. Order[i][2] <= made[t] /\ Order[i][2] \notin InHand(t)
      BY <2>1, <3>1 DEF Inv, NothingLostOrDuplicated
    <3>3. InHand(t) = {made[t]}
      BY <1>0 DEF InHand
    <3>4. QED
      BY <1>2, <3>1, <3>2, <3>3
  <2>3. ASSUME NEW i \in DOMAIN Order', NEW j \in DOMAIN Order', i < j, Order'[i][1] = Order'[j][1]
        PROVE  Order'[i][2] < Order'[j][2]
    <3>1. CASE j = n + 1
      <4>1. i \in 1 .. n /\ Order'[i] = Order[i] /\ Order'[j] = x
        BY <2>1, <2>3, <3>1
      <4>2. Order[i][1] = t
        BY <2>3, <4>1
      <4>3. QED
        BY <2>2, <4>1, <4>2
    <3>2. CASE j # n + 1
      <4>1. i \in DOMAIN Order /\ j \in DOMAIN Order /\ Order'[i] = Order[i] /\ Order'[j] = Order[j]
        BY <2>1, <2>3, <3>2
      <4>2. QED
        BY <2>3, <4>1 DEF Inv, NothingLostOrDuplicated
    <3>3. QED
      BY <3>1, <3>2
  <2>4. ASSUME NEW m \in Makers, NEW k \in 1 .. MaxItems
        PROVE  (\E i \in DOMAIN Order' : Order'[i] = <<m, k>>) <=> (k <= made'[m] /\ k \notin InHand(m)')
    <3>1. (\E i \in DOMAIN Order' : Order'[i] = <<m, k>>)
             <=> ((\E i \in DOMAIN Order : Order[i] = <<m, k>>) \/ <<m, k>> = x)
      BY <2>1
    <3>2. (\E i \in DOMAIN Order : Order[i] = <<m, k>>) <=> (k <= made[m] /\ k \notin InHand(m))
      BY DEF Inv, NothingLostOrDuplicated
    <3>3. CASE m = t
      <4>1. InHand(t) = {made[t]} /\ InHand(t)' = {} /\ made'[t] = made[t]
        BY <1>0, <1>1 DEF InHand
      <4>2. QED
        BY <1>2, <3>1, <3>2, <3>3, <4>1
    <3>4. CASE m # t
      <4>1. InHand(m)' = InHand(m) /\ made'[m] = made[m]
        BY <1>0, <1>4, <3>4 DEF InHand
      <4>2. QED
        BY <3>1, <3>2, <3>4, <4>1
    <3>5. QED
      BY <3>3, <3>4
  <2>5. QED
    BY <2>3, <2>4 DEF NothingLostOrDuplicated
<1>8. StopInv'
  <2> SUFFICES ASSUME \A c \in Consumers : pc'[c] = "done"
               PROVE  /\ ~running'
                      /\ \A i \in DOMAIN queue' :
                            /\ pc'[queue'[i][1]] \notin {"asks", "pred", "put", "waiting"}
                            /\ \A j \in DOMAIN queue' : queue'[i][1] = queue'[j][1] => i = j
    BY DEF StopInv
  <2>1. \A c \in Consumers : pc[c] = "done"
    BY <1>1
  <2>2. \A i \in DOMAIN queue : queue[i][1] \in Makers /\ queue[i][1] # t
    BY <1>0, <2>1 DEF Inv, StopInv, TypeOK, Item
  <2>3. DOMAIN queue = 1 .. Len(queue) /\ DOMAIN queue' = 1 .. Len(queue) + 1 /\ Len(queue) \in Nat
        /\ (\A i \in DOMAIN queue : queue'[i] = queue[i]) /\ queue'[Len(queue) + 1] = x
    BY <1>0, <1>2 DEF TypeOK
  <2>4. ~running'
    BY <1>0, <2>1 DEF Inv, StopInv
  <2>5. ASSUME NEW i \in DOMAIN queue' PROVE pc'[queue'[i][1]] \notin {"asks", "pred", "put", "waiting"}
    <3>1. CASE i = Len(queue) + 1
      BY <1>1, <2>3, <3>1
    <3>2. CASE i # Len(queue) + 1
      <4>1. i \in DOMAIN queue /\ queue'[i] = queue[i]
        BY <2>3, <3>2
      <4>2. pc'[queue[i][1]] = pc[queue[i][1]]
        BY <1>4, <2>2, <4>1
      <4>3. QED
        BY <2>1, <4>1, <4>2 DEF Inv, StopInv
    <3>3. QED
      BY <3>1, <3>2
  <2>6. ASSUME NEW i \in DOMAIN queue', NEW j \in DOMAIN queue', queue'[i][1] = queue'[j][1] PROVE i = j
    <3>1. CASE i \in DOMAIN queue /\ j \in DOMAIN queue
      BY <2>1, <2>3, <2>6, <3>1 DEF Inv, StopInv
    <3>2. CASE i \notin DOMAIN queue \/ j \notin DOMAIN queue
      BY <2>2, <2>3, <2>6, <3>2
    <3>3. QED
      BY <3>1, <3>2
  <2>7. QED
    BY <2>4, <2>5, <2>6
<1>9. QED
  BY <1>3, <1>5, <1>7, <1>8 DEF Inv

LEMMA TakeStep ==
    ASSUME Inv, NEW c \in Consumers, Take(c)
    PROVE  Inv'
<1> USE Constants
<1>0. /\ pc[c] \in {"take", "timedout"} /\ queue # <<>> /\ queue' = Tail(queue)
      /\ used' = Append(used, Head(queue)) /\ UNCHANGED <<running, notEmpty, made>>
      /\ NotifyOne(notFull, c, "check", "put")
      /\ TypeOK /\ WaitInv /\ PutInv
  BY DEF Take, Empty, Rest, Inv
<1>1. /\ pc' \in [Threads -> Label] /\ pc'[c] = "check"
      /\ notFull' \subseteq notFull /\ \A m \in notFull \ notFull' : pc'[m] = "put"
      /\ \A u \in Threads : u # c /\ u \notin notFull \ notFull' => pc'[u] = pc[u]
      /\ notFull \subseteq Makers /\ c \in Threads
  BY <1>0, NotifyOneTake DEF TypeOK
<1>2. TypeOK'
  <2>1. queue' \in Seq(Item) /\ used' \in Seq(Item)
    BY <1>0 DEF TypeOK
  <2>2. QED
    BY <1>0, <1>1, <2>1 DEF TypeOK, Label
<1>3. WaitInv'
  BY <1>0, <1>1 DEF WaitInv
<1>4. PutInv'
  BY <1>0, <1>1 DEF PutInv, WaitInv
<1>5. NothingLostOrDuplicated'
  <2>1. Order' = Order
    BY <1>0, OrderOfTake DEF TypeOK, Order
  <2>2. \A m \in Makers : InHand(m)' = InHand(m)
    BY <1>0, <1>1 DEF InHand, WaitInv
  <2>3. QED
    BY <1>0, <2>1, <2>2 DEF Inv, NothingLostOrDuplicated
<1>6. StopInv'
  BY <1>1 DEF StopInv
<1>7. QED
  BY <1>2, <1>3, <1>4, <1>5, <1>6 DEF Inv

\* A thread begins to wait, or a consumer's deadline ends its wait.
LEMMA WaitStep ==
    ASSUME Inv, NEW t \in Threads,
           (t \in Makers /\ PutWaits(t)) \/ (t \in Consumers /\ (TakeWaits(t) \/ Deadline(t)))
    PROVE  Inv'
<1> USE Constants
<1>0. /\ pc \in [Threads -> Label] /\ TypeOK /\ WaitInv /\ PutInv
      /\ UNCHANGED <<queue, running, made, used>>
  BY DEF Inv, TypeOK, Label, PutWaits, TakeWaits, Deadline
<1>1. PICK label \in {"waiting", "timedout"} : Go(t, label)
  BY DEF PutWaits, TakeWaits, Deadline
<1>2. pc' \in [Threads -> Label] /\ pc'[t] = label /\ \A u \in Threads : u # t => pc'[u] = pc[u]
  BY <1>0, <1>1 DEF Go, Label
<1>3. CASE t \in Makers /\ PutWaits(t)
  <2>1. pc[t] = "put" /\ pc'[t] = "waiting" /\ notFull' = notFull \cup {t} /\ UNCHANGED notEmpty
    BY <1>0, <1>3 DEF PutWaits, Go
  <2>2. TypeOK'
    BY <1>0, <1>2, <1>3, <2>1 DEF TypeOK, Label
  <2>3. WaitInv'
    BY <1>0, <1>2, <1>3, <2>1 DEF WaitInv
  <2>4. PutInv'
    BY <1>0, <1>2, <1>3, <2>1 DEF PutInv
  <2>5. \A m \in Makers : InHand(m)' = InHand(m)
    BY <1>0, <1>2, <2>1 DEF InHand
  <2>6. NothingLostOrDuplicated'
    <3>1. Order' = Order /\ made' = made
      BY <1>0 DEF Order
    <3>2. NothingLostOrDuplicated
      BY <1>0 DEF Inv
    <3>3. QED
      BY <2>5, <3>1, <3>2 DEF NothingLostOrDuplicated
  <2>7. StopInv'
    BY <1>0, <1>2, <1>3, <2>1 DEF Inv, StopInv, TypeOK, Item
  <2>8. QED
    BY <2>2, <2>3, <2>4, <2>6, <2>7 DEF Inv
<1>4. CASE t \in Consumers /\ (TakeWaits(t) \/ Deadline(t))
  <2>1. /\ pc[t] # "done" /\ UNCHANGED notFull
        /\ \/ notEmpty' = notEmpty \cup {t} /\ pc'[t] = "waiting"
           \/ notEmpty' = notEmpty \ {t} /\ pc'[t] = "timedout"
    BY <1>0, <1>4 DEF TakeWaits, Deadline, Go, WaitInv
  <2>2. TypeOK'
    BY <1>0, <1>2, <1>4, <2>1 DEF TypeOK, Label
  <2>3. WaitInv'
    BY <1>0, <1>2, <1>4, <2>1 DEF WaitInv
  <2>4. PutInv'
    BY <1>0, <1>2, <1>4 DEF PutInv
  <2>5. \A m \in Makers : InHand(m)' = InHand(m)
    BY <1>0, <1>2, <1>4 DEF InHand
  <2>6. NothingLostOrDuplicated'
    <3>1. Order' = Order /\ made' = made
      BY <1>0 DEF Order
    <3>2. NothingLostOrDuplicated
      BY <1>0 DEF Inv
    <3>3. QED
      BY <2>5, <3>1, <3>2 DEF NothingLostOrDuplicated
  <2>7. StopInv'
    BY <1>2, <1>4, <2>1 DEF StopInv
  <2>8. QED
    BY <2>2, <2>3, <2>4, <2>6, <2>7 DEF Inv
<1>5. QED
  BY <1>3, <1>4

-----------------------------------------------------------------------------
LEMMA InvInit == Init => Inv
<1> SUFFICES ASSUME Init PROVE Inv
  OBVIOUS
<1> USE Constants DEF Init
<1>1. TypeOK /\ WaitInv /\ PutInv
  BY DEF TypeOK, WaitInv, PutInv, Threads
<1>2. NothingLostOrDuplicated
  <2>1. DOMAIN Order = {}
    BY DEF Order
  <2>2. \A m \in Makers : made[m] = 0
    OBVIOUS
  <2>3. QED
    BY <2>1, <2>2 DEF NothingLostOrDuplicated
<1>3. StopInv
  BY ThreadAssumption DEF StopInv, Threads
<1>4. QED
  BY <1>1, <1>2, <1>3 DEF Inv

LEMMA InvStep == Inv /\ [Next]_vars => Inv'
<1> SUFFICES ASSUME Inv, [Next]_vars PROVE Inv'
  OBVIOUS
<1> USE Constants
<1>1. ASSUME NEW p \in Producers, ProducerStep(p) PROVE Inv'
  <2>1. CASE ReadsRunning(p) \/ ProducerAsks(p) \/ ProducerStops(p)
    BY <2>1, GoStep DEF ReadsRunning, ProducerAsks, ProducerStops, Label
  <2>2. CASE ProducerCreates(p)
    BY <2>2, CreateStep DEF ProducerCreates
  <2>3. CASE Put(p, "check")
    BY <2>3, PutStep
  <2>4. CASE PutWaits(p)
    BY <2>4, WaitStep
  <2>5. QED
    BY <1>1, <2>1, <2>2, <2>3, <2>4 DEF ProducerStep
<1>2. ASSUME NEW t \in Triggers, TriggerStep(t) PROVE Inv'
  <2>1. CASE ReadsRunning(t) \/ TriggerSkips(t) \/ TriggerAfter(t)
    BY <2>1, GoStep DEF ReadsRunning, TriggerSkips, TriggerAfter, Label
  <2>2. CASE TriggerRuns(t)
    BY <2>2, CreateStep DEF TriggerRuns
  <2>3. CASE Put(t, "after")
    BY <2>3, PutStep
  <2>4. CASE PutWaits(t)
    BY <2>4, WaitStep
  <2>5. QED
    BY <1>2, <2>1, <2>2, <2>3, <2>4 DEF TriggerStep
<1>3. ASSUME NEW c \in Consumers, ConsumerStep(c) PROVE Inv'
  <2>1. CASE ConsumerCheck(c) \/ TakeFails(c)
    BY <2>1, GoStep DEF ConsumerCheck, TakeFails, MayConsume, Empty, Label
  <2>2. CASE Take(c)
    BY <2>2, TakeStep
  <2>3. CASE TakeWaits(c) \/ Deadline(c)
    BY <2>3, WaitStep
  <2>4. QED
    BY <1>3, <2>1, <2>2, <2>3 DEF ConsumerStep
<1>4. CASE UNCHANGED vars
  BY <1>4 DEF vars, Inv, TypeOK, WaitInv, PutInv, NothingLostOrDuplicated, Order, InHand, StopInv
<1>5. QED
  BY <1>1, <1>2, <1>3, <1>4 DEF Next

LEMMA Invariance == Spec => []Inv
BY InvInit, InvStep, PTL DEF Spec

\* The queue holds objects of the makers, and each thread is where it can be.
THEOREM QueueTypeCorrect == Spec => []TypeOK
<1>1. Inv => TypeOK
  BY DEF Inv
<1>2. QED
  BY <1>1, Invariance, PTL

\* put and take lose, duplicate and reorder nothing, with any number of
\* threads waiting at either end of a queue of any size.
THEOREM EveryObjectOnce == Spec => []NothingLostOrDuplicated
<1>1. Inv => NothingLostOrDuplicated
  BY DEF Inv
<1>2. QED
  BY <1>1, Invariance, PTL

\* A stop strands at most one object of each maker, however many there are.
THEOREM FewAreStranded == Spec => []StrandedAtMostOne
<1>1. Inv => StrandedAtMostOne
  BY DEF Inv, StopInv, StrandedAtMostOne, InHand
<1>2. QED
  BY <1>1, Invariance, PTL

-----------------------------------------------------------------------------
(* No wakeup is lost.  A thread that waits although its condition holds    *)
(* has been notified or need not be: as many threads as there are places   *)
(* or objects are already on their way to the lock.                        *)
Putting == {m \in Makers : pc[m] = "put"}
Taking == {c \in Consumers : pc[c] \in {"take", "timedout"}}

EnoughNotified ==
    /\ notFull # {} => Len(queue) + Cardinality(Putting) >= MaxSize
    /\ notEmpty # {} => Len(queue) <= Cardinality(Taking)

LEMMA CountOfThreads ==
    ASSUME NEW S \in SUBSET Threads
    PROVE  IsFiniteSet(S) /\ Cardinality(S) \in Nat
BY ThreadAssumption, FS_Subset, FS_CardinalityType DEF Threads, Makers

LEMMA Counts ==
    /\ Cardinality(Putting) \in Nat /\ IsFiniteSet(Putting)
    /\ Cardinality(Taking) \in Nat /\ IsFiniteSet(Taking)
    /\ Cardinality(Putting)' \in Nat /\ Cardinality(Taking)' \in Nat
<1>1. Putting \in SUBSET Threads /\ Taking \in SUBSET Threads
  BY Constants DEF Putting, Taking
<1>2. Putting' \in SUBSET Threads /\ Taking' \in SUBSET Threads
  BY Constants DEF Putting, Taking
<1>3. QED
  BY <1>1, <1>2, CountOfThreads

\* What a step does to the number of threads on their way.
LEMMA PuttingCount ==
    ASSUME NEW m
    PROVE  /\ Putting' = Putting => Cardinality(Putting)' = Cardinality(Putting)
           /\ (m \notin Putting /\ Putting' = Putting \cup {m}) =>
                 Cardinality(Putting)' = Cardinality(Putting) + 1
           /\ (m \in Putting /\ Putting' = Putting \ {m}) =>
                 Cardinality(Putting)' = Cardinality(Putting) - 1
<1>1. IsFiniteSet(Putting) /\ Cardinality(Putting) \in Nat
  BY Counts
<1>2. QED
  BY <1>1, FS_AddElement, FS_RemoveElement

LEMMA TakingCount ==
    ASSUME NEW c
    PROVE  /\ Taking' = Taking => Cardinality(Taking)' = Cardinality(Taking)
           /\ (c \notin Taking /\ Taking' = Taking \cup {c}) =>
                 Cardinality(Taking)' = Cardinality(Taking) + 1
           /\ (c \in Taking /\ Taking' = Taking \ {c}) =>
                 Cardinality(Taking)' = Cardinality(Taking) - 1
<1>1. IsFiniteSet(Taking) /\ Cardinality(Taking) \in Nat
  BY Counts
<1>2. QED
  BY <1>1, FS_AddElement, FS_RemoveElement

\* A step that moves one thread, which neither waits before nor after, and
\* leaves the queue alone.
LEMMA OthersNotified ==
    ASSUME Inv, EnoughNotified, NEW t \in Threads, NEW label \in Label, Go(t, label),
           UNCHANGED <<queue, notFull, notEmpty>>,
           t \in Makers => pc[t] # "put",
           t \in Consumers => pc[t] = "check" \/ queue = <<>>
    PROVE  EnoughNotified'
<1> USE Constants
<1>0. /\ pc \in [Threads -> Label] /\ pc'[t] = label
      /\ \A u \in Threads : u # t => pc'[u] = pc[u]
      /\ Len(queue) \in Nat
  BY DEF Inv, TypeOK, Go, Label
<1>1. notFull' # {} => Len(queue)' + Cardinality(Putting)' >= MaxSize
  <2>1. Putting' = Putting \/ (t \notin Putting /\ Putting' = Putting \cup {t})
    BY <1>0 DEF Putting
  <2>2. Cardinality(Putting)' >= Cardinality(Putting)
    BY <2>1, PuttingCount, Counts
  <2>3. Cardinality(Putting)' \in Nat /\ Cardinality(Putting) \in Nat
    BY Counts
  <2>4. QED
    BY <1>0, <2>2, <2>3 DEF EnoughNotified
<1>2. notEmpty' # {} => Len(queue)' <= Cardinality(Taking)'
  <2>1. Cardinality(Taking)' \in Nat
    BY Counts
  <2>2. CASE queue = <<>>
    BY <2>1, <2>2
  <2>3. CASE queue # <<>>
    <3>1. Taking' = Taking \/ (t \notin Taking /\ Taking' = Taking \cup {t})
      BY <1>0, <2>3 DEF Taking
    <3>2. Cardinality(Taking)' >= Cardinality(Taking)
      BY <3>1, TakingCount, Counts
    <3>3. QED
      BY <1>0, <2>1, <3>2, Counts DEF EnoughNotified
  <2>4. QED
    BY <2>2, <2>3
<1>3. QED
  BY <1>1, <1>2 DEF EnoughNotified

\* A put that ends hands its object to one waiting consumer, if one waits.
LEMMA PutNotifies ==
    ASSUME Inv, EnoughNotified, NEW t \in Makers, NEW after \in {"check", "after"}, Put(t, after)
    PROVE  EnoughNotified'
<1> USE Constants
<1>0. /\ pc[t] = "put" /\ TypeOK /\ WaitInv /\ NotifyOne(notEmpty, t, after, "take")
      /\ UNCHANGED notFull /\ Len(queue)' = Len(queue) + 1 /\ Len(queue) \in Nat
      /\ t \in Threads /\ notEmpty \subseteq Consumers
  BY DEF Put, Inv, TypeOK
<1>1. notFull' # {} => Len(queue)' + Cardinality(Putting)' >= MaxSize
  <2>1. t \in Putting /\ Putting' = Putting \ {t}
    BY <1>0, NotifyOnePut DEF Putting
  <2>2. Cardinality(Putting)' = Cardinality(Putting) - 1
    BY <2>1, PuttingCount
  <2>3. QED
    BY <1>0, <2>2, Counts DEF EnoughNotified
<1>2. notEmpty' # {} => Len(queue)' <= Cardinality(Taking)'
  <2> SUFFICES ASSUME notEmpty' # {} PROVE Len(queue)' <= Cardinality(Taking)'
    OBVIOUS
  <2>1. notEmpty # {}
    BY <1>0, NotifyOnePut
  <2>2. PICK w \in notEmpty : pc' = [pc EXCEPT ![t] = after, ![w] = "take"]
    BY <1>0, <2>1 DEF NotifyOne
  <2>3. w \in Consumers /\ w # t /\ pc[w] = "waiting"
    BY <1>0, <2>2 DEF WaitInv
  <2>4. w \notin Taking /\ Taking' = Taking \cup {w}
    BY <1>0, <2>2, <2>3 DEF Taking, TypeOK
  <2>5. Cardinality(Taking)' = Cardinality(Taking) + 1
    BY <2>4, TakingCount
  <2>6. QED
    BY <1>0, <2>1, <2>5, Counts DEF EnoughNotified
<1>3. QED
  BY <1>1, <1>2 DEF EnoughNotified

\* A take that ends hands its place to one waiting put, if one waits.
LEMMA TakeNotifies ==
    ASSUME Inv, EnoughNotified, NEW c \in Consumers, Take(c)
    PROVE  EnoughNotified'
<1> USE Constants
<1>0. /\ pc[c] \in {"take", "timedout"} /\ TypeOK /\ WaitInv /\ NotifyOne(notFull, c, "check", "put")
      /\ UNCHANGED notEmpty /\ Len(queue)' = Len(queue) - 1 /\ Len(queue) \in Nat
      /\ c \in Threads /\ notFull \subseteq Makers
  BY DEF Take, Empty, Rest, Inv, TypeOK
<1>1. notFull' # {} => Len(queue)' + Cardinality(Putting)' >= MaxSize
  <2> SUFFICES ASSUME notFull' # {} PROVE Len(queue)' + Cardinality(Putting)' >= MaxSize
    OBVIOUS
  <2>1. notFull # {}
    BY <1>0, NotifyOneTake
  <2>2. PICK w \in notFull : pc' = [pc EXCEPT ![c] = "check", ![w] = "put"]
    BY <1>0, <2>1 DEF NotifyOne
  <2>3. w \in Makers /\ w # c /\ pc[w] = "waiting"
    BY <1>0, <2>2 DEF WaitInv
  <2>4. w \notin Putting /\ Putting' = Putting \cup {w}
    BY <1>0, <2>2, <2>3 DEF Putting, TypeOK
  <2>5. Cardinality(Putting)' = Cardinality(Putting) + 1
    BY <2>4, PuttingCount
  <2>6. QED
    BY <1>0, <2>1, <2>5, Counts DEF EnoughNotified
<1>2. notEmpty' # {} => Len(queue)' <= Cardinality(Taking)'
  <2>1. c \in Taking /\ Taking' = Taking \ {c}
    BY <1>0, NotifyOneTake DEF Taking
  <2>2. Cardinality(Taking)' = Cardinality(Taking) - 1
    BY <2>1, TakingCount
  <2>3. QED
    BY <1>0, <2>2, Counts DEF EnoughNotified
<1>3. QED
  BY <1>1, <1>2 DEF EnoughNotified

\* A put waits on a full queue; a consumer's wait begins on an empty one and
\* ends, at its deadline, with the consumer on its way.
LEMMA WaitNotifies ==
    ASSUME Inv, EnoughNotified, NEW t \in Threads,
           (t \in Makers /\ PutWaits(t)) \/ (t \in Consumers /\ (TakeWaits(t) \/ Deadline(t)))
    PROVE  EnoughNotified'
<1> USE Constants
<1>0. /\ pc \in [Threads -> Label] /\ TypeOK /\ WaitInv /\ UNCHANGED queue /\ Len(queue) \in Nat
      /\ Cardinality(Putting)' \in Nat /\ Cardinality(Taking)' \in Nat
  <2>1. Cardinality(Putting)' \in Nat /\ Cardinality(Taking)' \in Nat
    BY Counts
  <2>2. QED
    BY <2>1 DEF Inv, TypeOK, Label, PutWaits, TakeWaits, Deadline
<1>1. CASE t \in Makers /\ PutWaits(t)
  <2>1. UNCHANGED notEmpty /\ Taking' = Taking /\ ~(Len(queue) < MaxSize)
    BY <1>0, <1>1 DEF PutWaits, Go, Taking, HasRoom
  <2>2. Cardinality(Taking)' = Cardinality(Taking)
    BY <2>1
  <2>3. QED
    BY <1>0, <2>1, <2>2 DEF EnoughNotified
<1>2. CASE t \in Consumers /\ TakeWaits(t)
  <2>1. UNCHANGED notFull /\ Putting' = Putting /\ Len(queue) = 0
    BY <1>0, <1>2 DEF TakeWaits, Go, Putting, Empty
  <2>2. Cardinality(Putting)' = Cardinality(Putting)
    BY <2>1
  <2>3. QED
    BY <1>0, <2>1, <2>2 DEF EnoughNotified
<1>3. CASE t \in Consumers /\ Deadline(t)
  <2>1. /\ UNCHANGED notFull /\ Putting' = Putting
        /\ t \notin Taking /\ Taking' = Taking \cup {t} /\ notEmpty # {}
    BY <1>0, <1>3 DEF Deadline, Go, Putting, Taking, WaitInv
  <2>2. Cardinality(Putting)' = Cardinality(Putting) /\ Cardinality(Taking)' = Cardinality(Taking) + 1
    BY <2>1, TakingCount
  <2>3. QED
    BY <1>0, <2>1, <2>2, Counts DEF EnoughNotified
<1>4. QED
  BY <1>1, <1>2, <1>3

LEMMA NotifiedStep == Inv /\ EnoughNotified /\ [Next]_vars => EnoughNotified'
<1> SUFFICES ASSUME Inv, EnoughNotified, [Next]_vars PROVE EnoughNotified'
  OBVIOUS
<1> USE Constants
<1>1. ASSUME NEW m \in Makers, PutWaits(m) \/ Put(m, "check") \/ Put(m, "after")
      PROVE  EnoughNotified'
  BY <1>1, PutNotifies, WaitNotifies
<1>2. ASSUME NEW p \in Producers, ProducerStep(p) PROVE EnoughNotified'
  <2>1. CASE ReadsRunning(p) \/ ProducerAsks(p) \/ ProducerStops(p) \/ ProducerCreates(p)
    BY <2>1, OthersNotified DEF ReadsRunning, ProducerAsks, ProducerStops, ProducerCreates, Create, Label
  <2>2. QED
    BY <1>1, <1>2, <2>1 DEF ProducerStep
<1>3. ASSUME NEW t \in Triggers, TriggerStep(t) PROVE EnoughNotified'
  <2>1. CASE ReadsRunning(t) \/ TriggerSkips(t) \/ TriggerAfter(t) \/ TriggerRuns(t)
    BY <2>1, OthersNotified DEF ReadsRunning, TriggerSkips, TriggerAfter, TriggerRuns, Create, Label
  <2>2. QED
    BY <1>1, <1>3, <2>1 DEF TriggerStep
<1>4. ASSUME NEW c \in Consumers, ConsumerStep(c) PROVE EnoughNotified'
  <2>1. CASE ConsumerCheck(c) \/ TakeFails(c)
    BY <2>1, OthersNotified DEF ConsumerCheck, TakeFails, Empty, Label
  <2>2. QED
    BY <1>4, <2>1, TakeNotifies, WaitNotifies DEF ConsumerStep
<1>5. CASE UNCHANGED vars
  BY <1>5 DEF vars, EnoughNotified, Putting, Taking
<1>6. QED
  BY <1>2, <1>3, <1>4, <1>5 DEF Next

\* No wakeup is lost (notify_one in put and take): while a put waits, the free
\* places are no more than the puts on their way to the lock, and while a take
\* waits, the queued objects are no more than the takes on theirs.
THEOREM NoWakeupLost ==
    Spec => [](/\ notFull # {} => MaxSize - Len(queue) <= Cardinality(Putting)
               /\ notEmpty # {} => Len(queue) <= Cardinality(Taking))
<1>1. Init => EnoughNotified
  BY DEF Init, EnoughNotified
<1>2. Inv /\ EnoughNotified =>
          /\ notFull # {} => MaxSize - Len(queue) <= Cardinality(Putting)
          /\ notEmpty # {} => Len(queue) <= Cardinality(Taking)
  <2>1. Inv => Len(queue) \in Nat
    BY DEF Inv, TypeOK
  <2>2. QED
    BY <2>1, Counts, Constants DEF EnoughNotified
<1>3. QED
  BY <1>1, <1>2, NotifiedStep, Invariance, PTL DEF Spec

\* The two ends never wait for each other: while a put and a take both wait,
\* some thread is on its way to the lock with work it can do.
THEOREM EndsNeverBothAsleep ==
    Spec => [](notFull # {} /\ notEmpty # {} =>
                 (HasRoom /\ Putting # {}) \/ (~Empty /\ Taking # {}))
<1>1. Inv => Len(queue) \in Nat /\ (Empty <=> Len(queue) = 0)
  BY DEF Inv, TypeOK, Empty
<1>2. /\ Cardinality(Putting) # 0 <=> Putting # {}
      /\ Cardinality(Taking) # 0 <=> Taking # {}
  BY Counts, FS_EmptySet
<1>3. ASSUME Inv,
             notFull # {} => MaxSize - Len(queue) <= Cardinality(Putting),
             notEmpty # {} => Len(queue) <= Cardinality(Taking),
             notFull # {}, notEmpty # {}
      PROVE  (HasRoom /\ Putting # {}) \/ (~Empty /\ Taking # {})
  <2>1. CASE Empty
    BY <1>1, <1>2, <1>3, <2>1, Counts, SizeAssumption DEF HasRoom
  <2>2. CASE ~Empty
    BY <1>1, <1>2, <1>3, <2>2, Counts
  <2>3. QED
    BY <2>1, <2>2
<1>4. QED
  BY <1>3, NoWakeupLost, Invariance, PTL
=============================================================================
