------------------------- MODULE LeapWrapperProofs -------------------------
(***************************************************************************)
(* Theorems about the Leap wrapper, for every bound: any number of polling *)
(* threads, connections, hands and frames, and any size of the ring.       *)
(***************************************************************************)
EXTENDS LeapWrapperSpec, SequenceTheorems, TLAPS

Busy(p) == Handling(p) \/ pollers[p].pc = "polling"

\* Where the client's call is fixes what it may find.
CallInv ==
    /\ op = "registering" => reg < RegDone
    /\ op = "probing" => left > 0
    /\ op \in {"opening", "probing", "fetching"} => handle # 0 /\ conns[handle] # "destroyed"
    /\ op = "joining" => ~inConncetion
    /\ inConncetion => handle # 0 /\ conns[handle] # "destroyed"

\* What a polling thread has in hand.
ThreadInv ==
    \A p \in DOMAIN pollers :
        /\ Busy(p) => pollers[p].conn # 0 /\ conns[pollers[p].conn] # "destroyed"
        /\ pollers[p].pc = "calling" => pollers[p].msg.type \notin {"Unknown", "Device"}
        /\ pollers[p].pc \in OnFramePC => pollers[p].msg.type = "Tracking"

\* The ring has its size once initialize() is over, and its tail in it.
RingInv ==
    /\ frameBuffer.tail < FrameCount
    /\ reg < RegDone => frameBuffer.size = 0
    /\ reg = RegDone => frameBuffer.size = FrameCount

\* hands_ has room for n hands, or a thread that has put so many into the ring
\* is still to resize it.
Backed(n) ==
    \/ n <= hands.cap
    \/ \E q \in DOMAIN pollers :
          Pending(pollers[q]) /\ n <= Len(pollers[q].msg.frame)

\* So for every slot of the ring, and for every count read from one.
RoomInv ==
    /\ \A k \in DOMAIN frameBuffer.slots : Backed(frameBuffer.slots[k])
    /\ \A p \in DOMAIN pollers :
         /\ pollers[p].pc \in OnFramePC => reg = RegDone
         /\ pollers[p].pc \in {"adding", "advancing", "reading"} =>
              pollers[p].i \in 0 .. FrameCount - 1
         /\ pollers[p].pc \in {"sizing", "copying"} => Backed(pollers[p].cur)
         /\ pollers[p].pc = "copying" => pollers[p].i \in 1 .. pollers[p].cur

Inv == WrapperTypeOK /\ CallInv /\ ThreadInv /\ RingInv /\ RoomInv /\ NoThreadOutlivesConnection

-----------------------------------------------------------------------------
LEMMA RegDoneIsNine == RegDone = 9 /\ DOMAIN Callback = 1 .. 4
BY DEF RegDone, Callback

\* Threads move one at a time.
LEMMA GotoThread ==
    ASSUME pollers \in Seq(Poller), NEW p \in DOMAIN pollers, NEW r \in Poller, Goto(p, r)
    PROVE  /\ pollers' \in Seq(Poller)
           /\ DOMAIN pollers' = DOMAIN pollers
           /\ pollers'[p] = r
           /\ \A q \in DOMAIN pollers : q # p => pollers'[q] = pollers[q]
BY DEF Goto

LEMMA ThreadType ==
    ASSUME pollers \in Seq(Poller), NEW p \in DOMAIN pollers
    PROVE  /\ pollers[p] \in Poller
           /\ pollers[p].pc \in PollerPC /\ pollers[p].conn \in 0 .. MaxConn
           /\ pollers[p].msg \in Message
           /\ pollers[p].cur \in 0 .. MaxHands /\ pollers[p].i \in 0 .. MaxHands + FrameCount
<1>1. pollers[p] \in Poller
  OBVIOUS
<1>2. QED
  BY <1>1 DEF Poller

LEMMA MessageType ==
    ASSUME NEW m \in Message
    PROVE  /\ m.type \in {"Connection", "ConnectionLost", "Device", "Unknown", "Tracking"}
           /\ m.type = "Tracking" => m.frame \in Frame
BY DEF Message

LEMMA FrameHands ==
    ASSUME NEW f \in Frame
    PROVE  Len(f) \in 0 .. MaxHands /\ \A i \in DOMAIN f : f[i] \in Hand
BY FrameAssumption

LEMMA ThreadIsPoller ==
    /\ NoMessage \in Message
    /\ AtCheck \in Poller /\ AtCheck.pc = "check"
    /\ \A pc \in PollerPC, conn \in 0 .. MaxConn, msg \in Message,
          cur \in 0 .. MaxHands, i \in 0 .. MaxHands + FrameCount :
            Thread(pc, conn, msg, cur, i) \in Poller
<1>1. MaxConn \in Nat /\ MaxHands \in Nat /\ FrameCount \in Nat
  BY BoundAssumption, FrameAssumption
<1>2. NoMessage \in Message
  BY DEF NoMessage, Message
<1>3. QED
  BY <1>1, <1>2 DEF AtCheck, Thread, Poller, PollerPC

\* resize never gives storage back, and room for what it was asked for.
LEMMA ResizeType ==
    ASSUME NEW h \in Hands, NEW n \in 0 .. MaxHands
    PROVE  /\ Resize(h, n) \in Hands
           /\ Resize(h, n).cap >= h.cap /\ Resize(h, n).cap >= n
           /\ Resize(h, n).size = n
BY FrameAssumption, HandAssumption DEF Resize, Hands

\* The ring after each of add's two statements, for an index within it.
LEMMA WriteType ==
    ASSUME NEW b \in CB!Buffer(FrameCount), NEW i \in 0 .. FrameCount - 1, NEW v \in 0 .. MaxHands
    PROVE  /\ CB!Write(b, i, v) \in CB!Buffer(FrameCount)
           /\ CB!Write(b, i, v).tail = b.tail /\ CB!Write(b, i, v).size = b.size
           /\ DOMAIN b.slots = 0 .. FrameCount - 1
           /\ DOMAIN CB!Write(b, i, v).slots = 0 .. FrameCount - 1
           /\ \A k \in 0 .. FrameCount - 1 :
                CB!Write(b, i, v).slots[k] = IF k = i THEN v ELSE b.slots[k]
BY BoundAssumption DEF CB!Write, CB!Buffer

LEMMA UpdateType ==
    ASSUME NEW b \in CB!Buffer(FrameCount), NEW i \in 0 .. FrameCount - 1
    PROVE  /\ CB!UpdateHeadTail(b, i) \in CB!Buffer(FrameCount)
           /\ CB!UpdateHeadTail(b, i).tail = IF i + 1 = FrameCount THEN 0 ELSE i + 1
           /\ CB!UpdateHeadTail(b, i).tail \in 0 .. FrameCount - 1
           /\ CB!UpdateHeadTail(b, i).size = b.size
           /\ CB!UpdateHeadTail(b, i).slots = b.slots
<1> DEFINE t == (i + 1) % FrameCount
           h == (t + FrameCount - 1) % FrameCount
<1>1. FrameCount \in Nat /\ FrameCount > 0
  BY BoundAssumption
<1>2. b.size = FrameCount /\ b.slots \in [0 .. FrameCount - 1 -> 0 .. MaxHands]
  BY DEF CB!Buffer
<1>3. t = IF i + 1 = FrameCount THEN 0 ELSE i + 1
  BY <1>1
<1>4. t \in 0 .. FrameCount - 1
  BY <1>1
<1>5. h \in Nat
  BY <1>1, <1>4
<1>6. CB!UpdateHeadTail(b, i) = [slots |-> b.slots, size |-> b.size, tail |-> t, head |-> h]
  BY <1>2 DEF CB!UpdateHeadTail
<1> HIDE DEF t, h
<1>7. CB!UpdateHeadTail(b, i) \in CB!Buffer(FrameCount)
  BY <1>2, <1>4, <1>5, <1>6 DEF CB!Buffer
<1>8. QED
  BY <1>2, <1>3, <1>4, <1>6, <1>7

-----------------------------------------------------------------------------
\* The bounds as numbers, for the arithmetic of the steps.
LEMMA Bounds ==
    /\ MaxHands \in Nat /\ MaxConn \in Nat /\ MaxDevices \in Nat
    /\ FrameCount \in Nat /\ FrameCount > 0
    /\ RetryLimit \in Nat /\ RetryLimit > 0
BY BoundAssumption, FrameAssumption

LEMMA FunctionalUpdate ==
    ASSUME NEW A, NEW B, NEW f \in [A -> B], NEW a, NEW b \in B
    PROVE  [f EXCEPT ![a] = b] \in [A -> B]
OBVIOUS

LEMMA ClientType ==
    ASSUME WrapperTypeOK, CallInv, RingInv, ClientStep PROVE WrapperTypeOK'
<1> USE Bounds DEF WrapperTypeOK, clientVars, leapcVars, frameVars, Connection
<1>0. CASE ConnectAborts
  BY <1>0 DEF ConnectAborts, Crash, FaultKind
<1>1. CASE ConnectCreate
  BY <1>1 DEF ConnectCreate
<1>2. CASE ConnectOpen
  <2>1. conns' \in [Connection -> {"none", "created", "open", "destroyed"}]
    BY <1>2 DEF ConnectOpen
  <2>2. QED
    BY <1>2, <2>1 DEF ConnectOpen
<1>3. CASE ConnectProbeNothing
  BY <1>3 DEF ConnectProbeNothing, Retrying, ProbePolls, CallInv
<1>4. CASE ConnectProbeDevice
  BY <1>4 DEF ConnectProbeDevice, ProbePolls
<1>5. CASE ConnectFetch
  <2> DEFINE more == Append(pollers, AtCheck)
  <2>1. more \in Seq(Poller)
    BY ThreadIsPoller, AppendProperties
  <2>2. CASE link = "up"
    <3>1. pollers' = more
      BY <1>5, <2>2 DEF ConnectFetch
    <3> HIDE DEF more
    <3>2. pollers' \in Seq(Poller)
      BY <2>1, <3>1
    <3>3. /\ inConncetion' = TRUE /\ op' = "idle" /\ result' = "success" /\ left' = 0
          /\ UNCHANGED <<fault, handle, reg, leapcVars, frameVars>>
      BY <1>5, <2>2 DEF ConnectFetch
    <3>4. QED
      BY <3>2, <3>3
  <2>3. CASE link # "up"
    BY <1>5, <2>3 DEF ConnectFetch, Crash, FaultKind
  <2>4. QED
    BY <2>2, <2>3
<1>6. CASE Initialize
  <2>1. reg' \in 0 .. RegDone
    BY <1>6, RegDoneIsNine DEF Initialize, CallInv
  <2>2. \E n \in {0, FrameCount} : frameBuffer' \in CB!Buffer(n)
    <3>1. \A n \in Nat : \A b \in CB!Buffer(n) : CB!SetSize(b, FrameCount) \in CB!Buffer(FrameCount)
      BY DEF CB!SetSize, CB!Buffer
    <3>2. QED
      BY <1>6, <3>1 DEF Initialize, BufferAfter
  <2>3. QED
    BY <1>6, <2>1, <2>2 DEF Initialize
<1>7. CASE DisconnectBegin
  BY <1>7 DEF DisconnectBegin
<1>8. CASE DisconnectClose
  BY <1>8 DEF DisconnectClose
<1>9. QED
  BY <1>0, <1>1, <1>2, <1>3, <1>4, <1>5, <1>6, <1>7, <1>8 DEF ClientStep

LEMMA PollerType ==
    ASSUME WrapperTypeOK, ThreadInv, RingInv, RoomInv, NEW p \in DOMAIN pollers, PollerStep(p)
    PROVE  WrapperTypeOK'
<1> USE Bounds DEF clientVars, leapcVars, frameVars
<1> DEFINE r == pollers[p]
<1>0. pollers \in Seq(Poller) /\ handle \in 0 .. MaxConn
  BY DEF WrapperTypeOK
<1>a. /\ r \in Poller /\ r.conn \in 0 .. MaxConn /\ r.msg \in Message
      /\ r.cur \in 0 .. MaxHands /\ r.i \in 0 .. MaxHands + FrameCount
  BY <1>0, ThreadType
<1>c. \A x \in Poller : Goto(p, x) => pollers' \in Seq(Poller)
  BY <1>0, GotoThread
<1>d. /\ "polling" \in PollerPC /\ "dispatch" \in PollerPC /\ "calling" \in PollerPC
      /\ "done" \in PollerPC /\ OnFramePC \subseteq PollerPC
      /\ 0 \in 0 .. MaxHands /\ 0 \in 0 .. MaxHands + FrameCount
      /\ 1 \in 0 .. MaxHands + FrameCount
  BY DEF PollerPC
<1>e. ASSUME NEW pc \in PollerPC, NEW cur \in 0 .. MaxHands, NEW i \in 0 .. MaxHands + FrameCount,
             Continue(p, pc, cur, i)
      PROVE  pollers' \in Seq(Poller)
  BY <1>a, <1>c, <1>e, ThreadIsPoller DEF Continue
<1>f. ASSUME r.pc \in OnFramePC
      PROVE  /\ r.msg.frame \in Frame /\ Len(r.msg.frame) \in 0 .. MaxHands
             /\ frameBuffer \in CB!Buffer(FrameCount)
  <2>1. r.msg.type = "Tracking" /\ frameBuffer.size = FrameCount
    BY <1>f DEF ThreadInv, RoomInv, RingInv
  <2>2. QED
    BY <1>a, <2>1, MessageType, FrameHands DEF WrapperTypeOK, CB!Buffer
<1>g. ASSUME NEW n \in 0 .. MaxHands, hands' = Resize(hands, n), age' = Older(n)
      PROVE  hands' \in Hands /\ age' \in [1 .. MaxHands -> 0 .. FrameCount]
  <2>1. hands' \in Hands
    BY <1>g, ResizeType DEF WrapperTypeOK
  <2>2. hands.size \in 0 .. MaxHands /\ age \in [1 .. MaxHands -> 0 .. FrameCount]
    BY DEF WrapperTypeOK, Hands
  <2>3. age' \in [1 .. MaxHands -> 0 .. FrameCount]
    BY <1>g, <2>2 DEF Older
  <2>4. QED
    BY <2>1, <2>3
<1> HIDE DEF r
<1>1. CASE PollerCheck(p)
  <2>1. pollers' \in Seq(Poller)
    BY <1>1, <1>0, <1>c, <1>d, ThreadIsPoller DEF PollerCheck
  <2>2. QED
    BY <1>1, <2>1 DEF PollerCheck, WrapperTypeOK
<1>2. CASE PollerNoMessage(p)
  <2>1. pollers' \in Seq(Poller)
    BY <1>2, <1>c, ThreadIsPoller DEF PollerNoMessage
  <2>2. QED
    BY <1>2, <2>1 DEF PollerNoMessage, WrapperTypeOK
<1>3. ASSUME NEW m \in Message, Receive(p, m), told' \in {"down", "up", "lost"}
      PROVE  WrapperTypeOK'
  <2>1. pollers' \in Seq(Poller)
    BY <1>3, <1>a, <1>c, <1>d, ThreadIsPoller DEF Receive, r
  <2>2. QED
    BY <1>3, <2>1 DEF Receive, WrapperTypeOK
<1>4. CASE PollerLinkEvent(p)
  <2>1. [type |-> IF link = "up" THEN "Connection" ELSE "ConnectionLost"] \in Message
    BY DEF Message
  <2>2. QED
    BY <1>3, <1>4, <2>1 DEF PollerLinkEvent, WrapperTypeOK
<1>5. CASE PollerData(p)
  <2>1. /\ [type |-> "Device"] \in Message
        /\ \A f \in Frame : [type |-> "Tracking", frame |-> f] \in Message
    BY DEF Message
  <2>2. QED
    BY <1>3, <1>5, <2>1, ThreadIsPoller DEF PollerData, WrapperTypeOK
<1>6. CASE DispatchFrame(p)
  <2>1. pollers' \in Seq(Poller)
    BY <1>6, <1>c, <1>d, <1>e, ThreadIsPoller DEF DispatchFrame
  <2>2. lastFrame' \in Frame
    BY <1>6, <1>a, MessageType DEF DispatchFrame, r
  <2>3. QED
    BY <1>6, <2>1, <2>2 DEF DispatchFrame, WrapperTypeOK
<1>7. CASE DispatchDevice(p)
  <2>1. pollers' \in Seq(Poller)
    BY <1>7, <1>c, ThreadIsPoller DEF DispatchDevice
  <2>2. QED
    BY <1>7, <2>1 DEF DispatchDevice, WrapperTypeOK
<1>8. CASE DispatchLinkEvent(p)
  <2>1. pollers' \in Seq(Poller)
    BY <1>8, <1>c, <1>d, <1>e, ThreadIsPoller DEF DispatchLinkEvent
  <2>2. QED
    BY <1>8, <2>1 DEF DispatchLinkEvent, WrapperTypeOK
<1>9. CASE DispatchUnknown(p)
  <2>1. pollers' \in Seq(Poller)
    BY <1>9, <1>c, ThreadIsPoller DEF DispatchUnknown
  <2>2. QED
    BY <1>9, <2>1 DEF DispatchUnknown, WrapperTypeOK
<1>10. CASE CallLogger(p)
  <2>1. pollers' \in Seq(Poller)
    BY <1>10, <1>c, ThreadIsPoller DEF CallLogger
  <2>2. QED
    BY <1>10, <2>1 DEF CallLogger, WrapperTypeOK
<1>11. CASE OnFrameBegin(p)
  <2>1. frameBuffer.tail \in 0 .. MaxHands + FrameCount
    BY DEF RingInv, WrapperTypeOK, CB!Buffer
  <2>2. pollers' \in Seq(Poller)
    BY <1>11, <1>d, <1>e, <2>1 DEF OnFrameBegin, OnFramePC
  <2>3. QED
    BY <1>11, <2>2 DEF OnFrameBegin, WrapperTypeOK
<1>15. CASE OnFrameAdd(p)
  <2>1. r.pc = "adding" /\ r.i \in 0 .. FrameCount - 1
    BY <1>15 DEF OnFrameAdd, At, RoomInv, r
  <2>2. frameBuffer' \in CB!Buffer(FrameCount)
    BY <1>15, <1>f, <2>1, WriteType DEF OnFrameAdd, OnFramePC, r
  <2>3. pollers' \in Seq(Poller)
    BY <1>15, <1>a, <1>d, <1>e DEF OnFrameAdd, OnFramePC, r
  <2>4. QED
    BY <1>15, <2>2, <2>3 DEF OnFrameAdd, WrapperTypeOK
<1>16. CASE OnFrameAdvance(p)
  <2>1. r.pc = "advancing" /\ r.i \in 0 .. FrameCount - 1
    BY <1>16 DEF OnFrameAdvance, At, RoomInv, r
  <2>2. frameBuffer' = CB!UpdateHeadTail(frameBuffer, r.i)
    BY <1>16 DEF OnFrameAdvance, r
  <2>3. frameBuffer' \in CB!Buffer(FrameCount) /\ frameBuffer'.tail \in 0 .. FrameCount - 1
    BY <1>f, <2>1, <2>2, UpdateType DEF OnFramePC
  <2>4. Continue(p, "reading", 0, frameBuffer'.tail)
    BY <1>16 DEF OnFrameAdvance
  <2>5. pollers' \in Seq(Poller)
    BY <1>d, <1>e, <2>3, <2>4 DEF OnFramePC
  <2>6. QED
    BY <1>16, <2>3, <2>5 DEF OnFrameAdvance, WrapperTypeOK
<1>17. CASE OnFrameBack(p)
  <2>1. r.pc = "reading" /\ r.i \in 0 .. FrameCount - 1
    BY <1>17 DEF OnFrameBack, At, RoomInv, r
  <2>2. frameBuffer.slots[r.i] \in 0 .. MaxHands
    BY <1>f, <2>1 DEF OnFramePC, CB!Buffer
  <2>3. pollers' \in Seq(Poller)
    BY <1>17, <1>d, <1>e, <2>2 DEF OnFrameBack, OnFramePC, r
  <2>4. QED
    BY <1>17, <2>3 DEF OnFrameBack, WrapperTypeOK
<1>18. CASE OnFrameResize(p)
  <2>1. r.pc = "sizing" /\ Len(r.msg.frame) \in 0 .. MaxHands
    BY <1>18, <1>f DEF OnFrameResize, At, OnFramePC, r
  <2>2. hands' \in Hands /\ age' \in [1 .. MaxHands -> 0 .. FrameCount]
    BY <1>18, <1>g, <2>1 DEF OnFrameResize, r
  <2>3. pollers' \in Seq(Poller) /\ shown' \in BOOLEAN
    BY <1>18, <1>a, <1>c, <1>d, <1>e, ThreadIsPoller DEF OnFrameResize, OnFramePC, r, WrapperTypeOK
  <2>4. QED
    BY <1>18, <2>2, <2>3 DEF OnFrameResize, WrapperTypeOK
<1>19. CASE OnFrameClear(p)
  <2>1. hands' \in Hands /\ age' \in [1 .. MaxHands -> 0 .. FrameCount]
    BY <1>19, <1>d, <1>g DEF OnFrameClear
  <2>2. pollers' \in Seq(Poller)
    BY <1>19, <1>c, ThreadIsPoller DEF OnFrameClear
  <2>3. QED
    BY <1>19, <2>1, <2>2 DEF OnFrameClear, WrapperTypeOK
<1>12. CASE OnFrameCopy(p)
  <2>0. r.pc = "copying" /\ r.msg.frame \in Frame
    BY <1>12, <1>f DEF OnFrameCopy, At, OnFramePC, r
  <2>1. PICK v \in Hand : hands' = [hands EXCEPT !.data[r.i] = v]
    <3>1. \A i \in DOMAIN r.msg.frame : {r.msg.frame[i]} \subseteq Hand
      BY <2>0, FrameHands
    <3>2. PICK v \in (IF r.i \in DOMAIN r.msg.frame THEN {r.msg.frame[r.i]} ELSE Hand) :
              hands' = [hands EXCEPT !.data[r.i] = v]
      BY <1>12 DEF OnFrameCopy, r
    <3>3. v \in Hand
      BY <3>1, <3>2
    <3>4. QED
      BY <3>2, <3>3
  <2>2. hands' \in Hands
    BY <2>1 DEF WrapperTypeOK, Hands
  <2>3. pollers' \in Seq(Poller)
    <3>1. CopiesMore(r) => [r EXCEPT !.i = r.i + 1] \in Poller
      BY <1>a DEF CopiesMore, Poller
    <3>2. QED
      BY <1>12, <1>c, <3>1, ThreadIsPoller DEF OnFrameCopy, r
  <2>4. age' \in [1 .. MaxHands -> 0 .. FrameCount]
    <3>1. age' = [age EXCEPT ![r.i] = 0]
      BY <1>12 DEF OnFrameCopy, r
    <3>2. age \in [1 .. MaxHands -> 0 .. FrameCount]
      BY DEF WrapperTypeOK
    <3>3. 0 \in 0 .. FrameCount
      OBVIOUS
    <3>4. QED
      BY <3>1, <3>2, <3>3, FunctionalUpdate
  <2>5. shown' \in BOOLEAN
    BY <1>12 DEF OnFrameCopy, WrapperTypeOK
  <2>6. QED
    BY <1>12, <2>2, <2>3, <2>4, <2>5 DEF OnFrameCopy, WrapperTypeOK
<1>13. CASE CallEmpty(p) \/ OnFrameUnsized(p) \/ OnFrameHeapRace(p) \/ OnFrameWildRead(p)
            \/ OnFrameWildWrite(p)
  BY <1>13 DEF CallEmpty, OnFrameUnsized, OnFrameHeapRace, OnFrameWildRead, OnFrameWildWrite, Crash,
               FaultKind, WrapperTypeOK
<1>20. QED
  BY <1>1, <1>2, <1>4, <1>5, <1>6, <1>7, <1>8, <1>9, <1>10, <1>11, <1>12, <1>13,
     <1>15, <1>16, <1>17, <1>18, <1>19 DEF PollerStep

-----------------------------------------------------------------------------
\* The client's steps keep the rest of the invariant.  disconnect() destroys
\* the connection only when no thread is left to use it.
LEMMA ClientKeeps ==
    ASSUME Inv, ClientStep
    PROVE  CallInv' /\ ThreadInv' /\ RingInv' /\ NoThreadOutlivesConnection'
<1> USE Bounds DEF clientVars, leapcVars, frameVars
<1>0. /\ pollers \in Seq(Poller) /\ handle \in 0 .. MaxConn /\ left \in 0 .. RetryLimit
      /\ conns \in [Connection -> {"none", "created", "open", "destroyed"}]
      /\ reg \in 0 .. RegDone
      /\ CallInv /\ ThreadInv /\ RingInv /\ NoThreadOutlivesConnection
  BY DEF Inv, WrapperTypeOK
<1>a. \A p \in DOMAIN pollers : pollers[p].conn \in 0 .. MaxConn
  BY <1>0, ThreadType
<1>b. ASSUME UNCHANGED <<pollers, hands, frameBuffer, reg>>,
             \A c \in Connection : conns[c] # "destroyed" => conns'[c] # "destroyed"
      PROVE  ThreadInv' /\ RingInv'
  <2>1. RingInv'
    BY <1>0, <1>b DEF RingInv
  <2>2. ThreadInv'
    BY <1>0, <1>a, <1>b DEF ThreadInv, Busy, Handling, Connection
  <2>3. QED
    BY <2>1, <2>2
<1>10. CASE ConnectAborts
  BY <1>0, <1>10, <1>b DEF ConnectAborts, CallInv, NoThreadOutlivesConnection, PollersDone
<1>1. CASE ConnectCreate
  <2>1. /\ \A c \in Connection : conns[c] # "destroyed" => conns'[c] # "destroyed"
        /\ handle' # 0 /\ conns'[handle'] # "destroyed"
    BY <1>0, <1>1 DEF ConnectCreate, Connection
  <2>2. QED
    BY <1>0, <1>1, <1>b, <2>1 DEF ConnectCreate, CallInv, NoThreadOutlivesConnection, PollersDone
<1>2. CASE ConnectOpen
  <2>1. /\ \A c \in Connection : conns[c] # "destroyed" => conns'[c] # "destroyed"
        /\ handle' # 0 /\ conns'[handle'] # "destroyed"
    BY <1>0, <1>2 DEF ConnectOpen, Connection, CallInv
  <2>2. QED
    BY <1>0, <1>2, <1>b, <2>1 DEF ConnectOpen, CallInv, NoThreadOutlivesConnection, PollersDone
<1>3. CASE ConnectProbeNothing
  BY <1>0, <1>3, <1>b DEF ConnectProbeNothing, Retrying, CallInv, NoThreadOutlivesConnection, PollersDone
<1>4. CASE ConnectProbeDevice
  BY <1>0, <1>4, <1>b DEF ConnectProbeDevice, CallInv, NoThreadOutlivesConnection, PollersDone
<1>5. CASE ConnectFetch
  <2>1. CASE link # "up"
    BY <1>0, <1>5, <1>b, <2>1 DEF ConnectFetch, CallInv, NoThreadOutlivesConnection, PollersDone
  <2>2. CASE link = "up"
    <3>1. /\ inConncetion' /\ op' = "idle" /\ pollers' = Append(pollers, AtCheck)
          /\ op = "fetching"
          /\ UNCHANGED <<handle, conns, hands, frameBuffer, reg>>
      BY <1>5, <2>2 DEF ConnectFetch
    <3>2. CallInv' /\ NoThreadOutlivesConnection' /\ RingInv'
      BY <1>0, <3>1 DEF CallInv, NoThreadOutlivesConnection, RingInv
    <3>3. \A p \in DOMAIN pollers' :
            pollers'[p] = AtCheck \/ (p \in DOMAIN pollers /\ pollers'[p] = pollers[p])
      <4>1. /\ Append(pollers, AtCheck) \in Seq(Poller)
            /\ Len(Append(pollers, AtCheck)) = Len(pollers) + 1
            /\ \A p \in 1 .. Len(pollers) : Append(pollers, AtCheck)[p] = pollers[p]
            /\ Append(pollers, AtCheck)[Len(pollers) + 1] = AtCheck
        BY <1>0, ThreadIsPoller, AppendProperties
      <4>2. QED
        BY <1>0, <3>1, <4>1
    <3>4. ThreadInv'
      BY <1>0, <3>1, <3>3, ThreadIsPoller DEF ThreadInv, Busy, Handling, OnFramePC
    <3>5. QED
      BY <3>2, <3>4
  <2>3. QED
    BY <2>1, <2>2
<1>6. CASE Initialize
  <2>1. CallInv'
    BY <1>0, <1>6, RegDoneIsNine DEF Initialize, CallInv
  <2>2. ThreadInv' /\ NoThreadOutlivesConnection'
    <3>1. ThreadInv'
      BY <1>0, <1>6 DEF Initialize, ThreadInv, Busy, Handling
    <3>2. NoThreadOutlivesConnection'
      BY <1>0, <1>6 DEF Initialize, NoThreadOutlivesConnection, PollersDone, CallInv
    <3>3. QED
      BY <3>1, <3>2
  <2>3. RingInv'
    <3>1. reg < RegDone /\ reg' = reg + 1 /\ hands' = hands /\ frameBuffer' = BufferAfter(reg')
      BY <1>0, <1>6, RegDoneIsNine DEF Initialize, CallInv
    <3>2. CASE reg' = RegDone
      <4>1. frameBuffer' = CB!SetSize(frameBuffer, FrameCount)
        BY <3>1, <3>2 DEF BufferAfter
      <4>2. hands.cap \in 0 .. MaxHands
        BY DEF Inv, WrapperTypeOK, Hands
      <4>3. QED
        BY <1>0, <3>1, <3>2, <4>1, <4>2 DEF RingInv, CB!SetSize
    <3>3. CASE reg' # RegDone
      BY <1>0, <3>1, <3>3, RegDoneIsNine DEF RingInv, BufferAfter
    <3>4. QED
      BY <3>2, <3>3
  <2>4. QED
    BY <2>1, <2>2, <2>3
<1>7. CASE DisconnectBegin
  BY <1>0, <1>7, <1>b DEF DisconnectBegin, CallInv, NoThreadOutlivesConnection, PollersDone
<1>8. CASE DisconnectClose
  <2>1. op = "joining" /\ op' = "idle" /\ PollersDone
        /\ UNCHANGED <<inConncetion, handle, pollers, left, reg, hands, frameBuffer>>
    BY <1>8 DEF DisconnectClose
  <2>2. CallInv' /\ RingInv' /\ NoThreadOutlivesConnection'
    BY <1>0, <2>1 DEF CallInv, RingInv, NoThreadOutlivesConnection, PollersDone
  <2>3. ThreadInv'
    BY <2>1 DEF ThreadInv, PollersDone, Busy, Handling, OnFramePC
  <2>4. QED
    BY <2>2, <2>3
<1>9. QED
  BY <1>1, <1>2, <1>3, <1>4, <1>5, <1>6, <1>7, <1>8, <1>10 DEF ClientStep

\* No client call touches hands_, and the ring gets its size with no frame in
\* it and no thread inside onFrame.
LEMMA ClientKeepsRoom ==
    ASSUME Inv, ClientStep PROVE RoomInv'
<1> USE Bounds DEF clientVars, leapcVars, frameVars
<1>0. pollers \in Seq(Poller) /\ reg \in 0 .. RegDone /\ RoomInv /\ RingInv
      /\ hands.cap \in 0 .. MaxHands
  BY DEF Inv, WrapperTypeOK, Hands
<1>1. ASSUME UNCHANGED <<hands, frameBuffer, reg>>,
             \A q \in DOMAIN pollers : q \in DOMAIN pollers' /\ pollers'[q] = pollers[q],
             \A q \in DOMAIN pollers' : q \in DOMAIN pollers \/ pollers'[q] = AtCheck
      PROVE  RoomInv'
  <2>1. \A n : Backed(n) => Backed(n)'
    BY <1>1 DEF Backed
  <2>2. AtCheck.pc \notin OnFramePC \cup {"sizing", "copying", "adding", "advancing", "reading"}
    BY ThreadIsPoller DEF OnFramePC
  <2>3. \A k \in DOMAIN frameBuffer'.slots : Backed(frameBuffer.slots[k])'
    BY <1>0, <1>1, <2>1 DEF RoomInv, Backed
  <2>4. \A q \in DOMAIN pollers' :
         /\ pollers'[q].pc \in OnFramePC => reg' = RegDone
         /\ pollers'[q].pc \in {"adding", "advancing", "reading"} =>
              pollers'[q].i \in 0 .. FrameCount - 1
         /\ pollers'[q].pc \in {"sizing", "copying"} => Backed(pollers[q].cur)'
         /\ pollers'[q].pc = "copying" => pollers'[q].i \in 1 .. pollers'[q].cur
    BY <1>0, <1>1, <2>1, <2>2 DEF RoomInv, Backed
  <2>5. QED
    BY <2>3, <2>4 DEF RoomInv
<1>2. CASE UNCHANGED <<hands, frameBuffer, reg, pollers>>
  BY <1>1, <1>2
<1>3. CASE ConnectFetch
  <2>1. CASE pollers' = Append(pollers, AtCheck)
    <3>1. /\ Append(pollers, AtCheck) \in Seq(Poller)
          /\ Len(Append(pollers, AtCheck)) = Len(pollers) + 1
          /\ \A p \in 1 .. Len(pollers) : Append(pollers, AtCheck)[p] = pollers[p]
          /\ Append(pollers, AtCheck)[Len(pollers) + 1] = AtCheck
      BY <1>0, ThreadIsPoller, AppendProperties
    <3>2. /\ \A q \in DOMAIN pollers : q \in DOMAIN pollers' /\ pollers'[q] = pollers[q]
          /\ \A q \in DOMAIN pollers' : q \in DOMAIN pollers \/ pollers'[q] = AtCheck
      BY <1>0, <2>1, <3>1
    <3>3. QED
      BY <1>1, <1>3, <3>2 DEF ConnectFetch
  <2>2. QED
    BY <1>2, <1>3, <2>1 DEF ConnectFetch
<1>4. CASE Initialize
  <2>1. reg < RegDone /\ reg' = reg + 1 /\ frameBuffer' = BufferAfter(reg')
        /\ UNCHANGED <<hands, pollers>>
    BY <1>0, <1>4, RegDoneIsNine DEF Initialize, Inv, CallInv
  <2>2. \A q \in DOMAIN pollers : pollers[q].pc \notin OnFramePC
    BY <1>0, <2>1, RegDoneIsNine DEF RoomInv
  <2>3. \A q \in DOMAIN pollers :
          pollers[q].pc \notin {"sizing", "copying", "adding", "advancing", "reading"}
    BY <2>2 DEF OnFramePC
  <2>4. \A k \in DOMAIN frameBuffer'.slots : Backed(frameBuffer.slots[k])'
    <3>1. CASE reg' = RegDone
      <4>1. frameBuffer' = CB!SetSize(frameBuffer, FrameCount)
        BY <2>1, <3>1 DEF BufferAfter
      <4>2. \A k \in DOMAIN frameBuffer'.slots : frameBuffer'.slots[k] = 0
        BY <4>1 DEF CB!SetSize
      <4>3. QED
        BY <1>0, <2>1, <4>2 DEF Backed
    <3>2. CASE reg' # RegDone
      <4>1. frameBuffer' = frameBuffer
        BY <2>1, <3>2 DEF BufferAfter
      <4>2. QED
        BY <1>0, <2>1, <4>1 DEF RoomInv, Backed
    <3>3. QED
      BY <3>1, <3>2
  <2>5. QED
    BY <2>1, <2>2, <2>3, <2>4 DEF RoomInv
<1>5. CASE ConnectAborts \/ ConnectCreate \/ ConnectOpen \/ ConnectProbeNothing \/ ConnectProbeDevice
           \/ DisconnectBegin \/ DisconnectClose
  BY <1>2, <1>5 DEF ConnectAborts, ConnectCreate, ConnectOpen, ConnectProbeNothing,
                    ConnectProbeDevice, DisconnectBegin, DisconnectClose
<1>6. QED
  BY <1>3, <1>4, <1>5 DEF ClientStep

-----------------------------------------------------------------------------
\* What no step of a polling thread touches, and that a thread that has ended
\* takes none.
LEMMA PollerLeaves ==
    ASSUME NEW p \in DOMAIN pollers, PollerStep(p)
    PROVE  /\ UNCHANGED <<inConncetion, handle, op, left, reg, conns>>
           /\ pollers[p].pc # "done"
           /\ UNCHANGED frameBuffer \/ OnFrameAdd(p) \/ OnFrameAdvance(p)
           /\ UNCHANGED hands \/ OnFrameResize(p) \/ OnFrameClear(p) \/ OnFrameCopy(p)
<1> USE DEF clientVars, leapcVars, frameVars, At
<1>1. CASE PollerCheck(p) \/ PollerNoMessage(p) \/ PollerLinkEvent(p) \/ PollerData(p)
  BY <1>1 DEF PollerCheck, PollerNoMessage, PollerLinkEvent, PollerData, Receive
<1>2. CASE DispatchFrame(p) \/ DispatchDevice(p) \/ DispatchLinkEvent(p) \/ DispatchUnknown(p)
  BY <1>2 DEF DispatchFrame, DispatchDevice, DispatchLinkEvent, DispatchUnknown
<1>3. CASE CallEmpty(p) \/ CallLogger(p) \/ OnFrameBegin(p) \/ OnFrameUnsized(p)
  BY <1>3 DEF CallEmpty, CallLogger, OnFrameBegin, OnFrameUnsized
<1>4. CASE OnFrameAdd(p) \/ OnFrameAdvance(p) \/ OnFrameBack(p) \/ OnFrameResize(p)
  BY <1>4 DEF OnFrameAdd, OnFrameAdvance, OnFrameBack, OnFrameResize
<1>5. CASE OnFrameHeapRace(p) \/ OnFrameClear(p)
  BY <1>5 DEF OnFrameHeapRace, OnFrameClear
<1>6. CASE OnFrameCopy(p) \/ OnFrameWildRead(p) \/ OnFrameWildWrite(p)
  BY <1>6 DEF OnFrameCopy, OnFrameWildRead, OnFrameWildWrite
<1>7. QED
  BY <1>1, <1>2, <1>3, <1>4, <1>5, <1>6 DEF PollerStep

\* The record a step gives its thread.  From the entry of onFrame to its end
\* the thread keeps its message, and its frame is pending until it resizes.
LEMMA PollerMoves ==
    ASSUME pollers \in Seq(Poller), NEW p \in DOMAIN pollers, PollerStep(p)
    PROVE  \/ UNCHANGED <<pollers, frameBuffer, hands>>
           \/ OnFrameResize(p)
           \/ Goto(p, AtCheck) /\ ~Pending(pollers[p])
           \/ \E r : Goto(p, r) /\ (Pending(pollers[p]) => Pending(r) /\ r.msg = pollers[p].msg)
<1> USE DEF At, frameVars
<1>0. pollers[p] \in Poller
  BY ThreadType
<1>1. ASSUME NEW pc, NEW cur, NEW i, Continue(p, pc, cur, i),
             pc \in {"advancing", "reading", "sizing"} \/ ~Pending(pollers[p])
      PROVE  \E r : Goto(p, r) /\ (Pending(pollers[p]) => Pending(r) /\ r.msg = pollers[p].msg)
  BY <1>1 DEF Continue, Thread, Pending
<1>2. CASE PollerCheck(p)
  BY <1>2 DEF PollerCheck, Pending
<1>3. CASE PollerLinkEvent(p) \/ PollerData(p)
  <2>1. \E r : Goto(p, r)
    BY <1>3 DEF PollerLinkEvent, PollerData, Receive
  <2>2. ~Pending(pollers[p])
    BY <1>3 DEF PollerLinkEvent, PollerData, Receive, Pending
  <2>3. QED
    BY <2>1, <2>2
<1>4. CASE PollerNoMessage(p) \/ DispatchDevice(p) \/ DispatchUnknown(p) \/ CallLogger(p)
           \/ OnFrameClear(p)
  BY <1>4 DEF PollerNoMessage, DispatchDevice, DispatchUnknown, CallLogger, OnFrameClear, Pending
<1>5. CASE DispatchFrame(p) \/ DispatchLinkEvent(p)
  <2>1. ~Pending(pollers[p])
    BY <1>5 DEF DispatchFrame, DispatchLinkEvent, Pending
  <2>2. Continue(p, "calling", 0, 0) \/ Goto(p, AtCheck)
    BY <1>5 DEF DispatchFrame, DispatchLinkEvent
  <2>3. QED
    BY <1>1, <2>1, <2>2
<1>6. CASE OnFrameBegin(p)
  BY <1>1, <1>6 DEF OnFrameBegin, Pending
<1>7. CASE OnFrameAdd(p)
  BY <1>1, <1>7 DEF OnFrameAdd
<1>8. CASE OnFrameAdvance(p)
  BY <1>1, <1>8 DEF OnFrameAdvance
<1>9. CASE OnFrameBack(p)
  BY <1>1, <1>9 DEF OnFrameBack
<1>10. CASE OnFrameCopy(p)
  <2>1. \E r : Goto(p, r)
    BY <1>10 DEF OnFrameCopy
  <2>2. ~Pending(pollers[p])
    BY <1>10 DEF OnFrameCopy, Pending
  <2>3. QED
    BY <2>1, <2>2
<1>11. CASE CallEmpty(p) \/ OnFrameUnsized(p) \/ OnFrameHeapRace(p) \/ OnFrameWildRead(p)
            \/ OnFrameWildWrite(p)
  BY <1>11 DEF CallEmpty, OnFrameUnsized, OnFrameHeapRace, OnFrameWildRead, OnFrameWildWrite
<1>12. QED
  BY <1>2, <1>3, <1>4, <1>5, <1>6, <1>7, <1>8, <1>9, <1>10, <1>11 DEF PollerStep

\* Inside onFrame a thread works on a frame, on a ring with its size.
LEMMA InOnFrame ==
    ASSUME Inv, NEW p \in DOMAIN pollers, pollers[p].pc \in OnFramePC
    PROVE  /\ pollers[p].msg.frame \in Frame
           /\ Len(pollers[p].msg.frame) \in 0 .. MaxHands
           /\ frameBuffer \in CB!Buffer(FrameCount) /\ frameBuffer.size = FrameCount
<1>1. pollers \in Seq(Poller) /\ pollers[p].msg.type = "Tracking" /\ frameBuffer.size = FrameCount
  BY DEF Inv, WrapperTypeOK, ThreadInv, RoomInv, RingInv
<1>2. pollers[p].msg.frame \in Frame
  BY <1>1, ThreadType, MessageType
<1>3. frameBuffer \in CB!Buffer(FrameCount)
  BY <1>1 DEF Inv, WrapperTypeOK, CB!Buffer
<1>4. QED
  BY <1>1, <1>2, <1>3, FrameHands

\* hands_ never shrinks its allocation.
LEMMA CapacityStays ==
    ASSUME Inv, NEW p \in DOMAIN pollers, PollerStep(p)
    PROVE  /\ hands.cap \in 0 .. MaxHands /\ hands'.cap \in 0 .. MaxHands
           /\ hands'.cap >= hands.cap
           /\ OnFrameResize(p) => hands'.cap >= Len(pollers[p].msg.frame)
<1>0. hands \in Hands /\ hands.cap \in 0 .. MaxHands
  BY DEF Inv, WrapperTypeOK, Hands
<1>1. ASSUME NEW n \in 0 .. MaxHands, hands' = Resize(hands, n)
      PROVE  hands'.cap \in 0 .. MaxHands /\ hands'.cap >= hands.cap /\ hands'.cap >= n
  BY <1>0, <1>1, ResizeType DEF Hands
<1>2. CASE OnFrameResize(p)
  <2>1. Len(pollers[p].msg.frame) \in 0 .. MaxHands
    BY <1>2, InOnFrame DEF OnFrameResize, At, OnFramePC
  <2>2. hands' = Resize(hands, Len(pollers[p].msg.frame))
    BY <1>2 DEF OnFrameResize
  <2>3. QED
    BY <1>0, <1>1, <2>1, <2>2
<1>3. CASE OnFrameClear(p)
  <2>1. hands' = Resize(hands, 0) /\ ~OnFrameResize(p)
    BY <1>3 DEF OnFrameClear, OnFrameResize, At
  <2>2. QED
    BY <1>0, <1>1, <2>1, Bounds
<1>4. CASE OnFrameCopy(p)
  <2>1. \A k, v : [hands EXCEPT !.data[k] = v].cap = hands.cap
    BY <1>0 DEF Hands
  <2>2. ~OnFrameResize(p)
    BY <1>4 DEF OnFrameCopy, OnFrameResize, At
  <2>3. hands'.cap = hands.cap
    BY <1>4, <2>1 DEF OnFrameCopy
  <2>4. QED
    BY <1>0, <2>2, <2>3, Bounds
<1>5. CASE UNCHANGED hands /\ ~OnFrameResize(p)
  BY <1>0, <1>5, Bounds
<1>6. QED
  BY <1>2, <1>3, <1>4, <1>5, PollerLeaves

\* What has room, or is still to get it, keeps that: a thread that was to
\* resize hands_ is still to do it, or has done it.
LEMMA BackedStays ==
    ASSUME Inv, NEW p \in DOMAIN pollers, PollerStep(p), NEW n \in Nat, Backed(n)
    PROVE  Backed(n)'
<1>0. pollers \in Seq(Poller)
  BY DEF Inv, WrapperTypeOK
<1>c. /\ hands.cap \in Nat /\ hands'.cap \in Nat /\ hands'.cap >= hands.cap
      /\ OnFrameResize(p) => hands'.cap >= Len(pollers[p].msg.frame)
  BY CapacityStays, Bounds
<1>1. CASE n <= hands.cap
  BY <1>c, <1>1 DEF Backed
<1>2. CASE n > hands.cap
  <2>1. PICK q \in DOMAIN pollers : Pending(pollers[q]) /\ n <= Len(pollers[q].msg.frame)
    BY <1>c, <1>2 DEF Backed
  <2>2. \A r : Goto(p, r) => /\ DOMAIN pollers' = DOMAIN pollers /\ pollers'[p] = r
                             /\ q # p => pollers'[q] = pollers[q]
    BY <1>0 DEF Goto
  <2>3. CASE OnFrameResize(p)
    <3>1. CASE q = p
      <4>1. Len(pollers[p].msg.frame) \in 0 .. MaxHands
        BY <2>3, InOnFrame DEF OnFrameResize, At, OnFramePC
      <4>2. QED
        BY <1>c, <2>1, <2>3, <3>1, <4>1, Bounds DEF Backed
    <3>2. CASE q # p
      <4>1. \E r : Goto(p, r)
        BY <2>3 DEF OnFrameResize, Continue
      <4>2. QED
        BY <2>1, <2>2, <3>2, <4>1 DEF Backed
    <3>3. QED
      BY <3>1, <3>2
  <2>4. CASE UNCHANGED pollers
    BY <2>1, <2>4 DEF Backed
  <2>5. CASE Goto(p, AtCheck) /\ ~Pending(pollers[p])
    BY <2>1, <2>2, <2>5 DEF Backed
  <2>6. ASSUME NEW r, Goto(p, r), Pending(pollers[p]) => Pending(r) /\ r.msg = pollers[p].msg
        PROVE  Backed(n)'
    <3>1. q \in DOMAIN pollers' /\ Pending(pollers'[q]) /\ pollers'[q].msg = pollers[q].msg
      BY <2>1, <2>2, <2>6
    <3>2. QED
      BY <2>1, <3>1 DEF Backed
  <2>7. QED
    BY <1>0, <2>3, <2>4, <2>5, <2>6, PollerMoves
<1>3. QED
  BY <1>c, <1>1, <1>2

\* The thread that moves still works on a live connection, and inside onFrame
\* on a frame.
LEMMA PollerKeepsThreads ==
    ASSUME Inv, NEW p \in DOMAIN pollers, PollerStep(p)
    PROVE  ThreadInv'
<1> USE Bounds DEF At, clientVars, leapcVars, frameVars
<1> DEFINE Fine(r) == /\ r.pc \in {"polling", "dispatch", "calling"} \cup OnFramePC =>
                            r.conn # 0 /\ conns[r.conn] # "destroyed"
                      /\ r.pc = "calling" => r.msg.type \notin {"Unknown", "Device"}
                      /\ r.pc \in OnFramePC => r.msg.type = "Tracking"
<1>0. /\ pollers \in Seq(Poller) /\ handle \in 0 .. MaxConn
      /\ CallInv /\ ThreadInv /\ UNCHANGED conns
  BY PollerLeaves DEF Inv, WrapperTypeOK
<1>1. \A q \in DOMAIN pollers : Fine(pollers[q])
  BY <1>0 DEF ThreadInv, Busy, Handling
<1>2. Fine(AtCheck)
  BY DEF AtCheck, Thread, OnFramePC
<1>3. ASSUME NEW r, Goto(p, r), Fine(r) PROVE ThreadInv'
  <2>1. /\ DOMAIN pollers' = DOMAIN pollers /\ pollers'[p] = r
        /\ \A q \in DOMAIN pollers : q # p => pollers'[q] = pollers[q]
    BY <1>0, <1>3 DEF Goto
  <2>2. \A q \in DOMAIN pollers' : Fine(pollers'[q])
    BY <1>1, <1>3, <2>1
  <2>3. QED
    BY <1>0, <2>2 DEF ThreadInv, Busy, Handling
<1>4. ASSUME UNCHANGED pollers PROVE ThreadInv'
  BY <1>0, <1>1, <1>4 DEF ThreadInv, Busy, Handling
<1>5. ASSUME Goto(p, AtCheck) PROVE ThreadInv'
  BY <1>2, <1>3, <1>5
<1>6. ASSUME NEW pc, NEW cur, NEW i, Continue(p, pc, cur, i),
             pollers[p].pc \in {"dispatch", "calling"} \cup OnFramePC,
             \/ pc = "calling" /\ pollers[p].msg.type \notin {"Unknown", "Device"}
             \/ pc \in OnFramePC /\ pollers[p].msg.type = "Tracking"
      PROVE  ThreadInv'
  <2> DEFINE r == Thread(pc, pollers[p].conn, pollers[p].msg, cur, i)
  <2>1. r.pc = pc /\ r.conn = pollers[p].conn /\ r.msg = pollers[p].msg
    BY DEF Thread
  <2>2. "calling" \notin OnFramePC
    BY DEF OnFramePC
  <2>3. Goto(p, r)
    BY <1>6 DEF Continue
  <2> HIDE DEF r
  <2>4. Fine(r)
    BY <1>1, <1>6, <2>1, <2>2
  <2>5. QED
    BY <1>3, <2>3, <2>4
<1>t. pollers[p].pc \in OnFramePC => pollers[p].msg.type = "Tracking"
  BY <1>0 DEF ThreadInv
<1> HIDE DEF Fine
<1>7. CASE PollerCheck(p)
  <2>1. CASE LoopsOn
    <3>1. Fine(Thread("polling", handle, NoMessage, 0, 0))
      BY <1>0, <2>1 DEF LoopsOn, CallInv, Fine, Thread, OnFramePC
    <3>2. QED
      BY <1>3, <1>7, <2>1, <3>1 DEF PollerCheck
  <2>2. CASE ~LoopsOn
    <3>1. Fine(Thread("done", 0, NoMessage, 0, 0))
      BY DEF Fine, Thread, OnFramePC
    <3>2. QED
      BY <1>3, <1>7, <2>2, <3>1 DEF PollerCheck
  <2>3. QED
    BY <2>1, <2>2
<1>8. CASE PollerNoMessage(p) \/ DispatchDevice(p) \/ DispatchUnknown(p) \/ CallLogger(p)
           \/ OnFrameClear(p)
  BY <1>5, <1>8 DEF PollerNoMessage, DispatchDevice, DispatchUnknown, CallLogger, OnFrameClear
<1>9. ASSUME NEW m, Receive(p, m) PROVE ThreadInv'
  <2>1. Fine(Thread("dispatch", pollers[p].conn, m, 0, 0))
    BY <1>1, <1>9 DEF Receive, Fine, Thread, OnFramePC
  <2>2. QED
    BY <1>3, <1>9, <2>1 DEF Receive
<1>10. CASE PollerLinkEvent(p)
  BY <1>9, <1>10 DEF PollerLinkEvent
<1>11. CASE PollerData(p)
  BY <1>9, <1>11 DEF PollerData
<1>12. CASE DispatchFrame(p) \/ DispatchLinkEvent(p)
  <2>1. /\ pollers[p].pc = "dispatch" /\ pollers[p].msg.type \notin {"Unknown", "Device"}
        /\ Continue(p, "calling", 0, 0) \/ Goto(p, AtCheck)
    BY <1>12 DEF DispatchFrame, DispatchLinkEvent
  <2>2. QED
    BY <1>5, <1>6, <2>1
<1>13. CASE OnFrameBegin(p)
  BY <1>6, <1>13 DEF OnFrameBegin, OnFramePC
<1>14. CASE OnFrameAdd(p)
  BY <1>6, <1>14, <1>t DEF OnFrameAdd, OnFramePC
<1>15. CASE OnFrameAdvance(p)
  BY <1>6, <1>15, <1>t DEF OnFrameAdvance, OnFramePC
<1>16. CASE OnFrameBack(p)
  BY <1>6, <1>16, <1>t DEF OnFrameBack, OnFramePC
<1>17. CASE OnFrameResize(p)
  <2>1. pollers[p].pc \in OnFramePC /\ "clearing" \in OnFramePC /\ "copying" \in OnFramePC
    BY <1>17 DEF OnFrameResize, OnFramePC
  <2>2. \/ Continue(p, "clearing", 0, 0) \/ Continue(p, "copying", pollers[p].cur, 1)
        \/ Goto(p, AtCheck)
    BY <1>17 DEF OnFrameResize
  <2>3. QED
    BY <1>5, <1>6, <1>t, <2>1, <2>2
<1>18. CASE OnFrameCopy(p)
  <2>0. pollers[p] \in Poller
    BY <1>0, ThreadType
  <2> DEFINE r == [pollers[p] EXCEPT !.i = pollers[p].i + 1]
  <2>1. CASE CopiesMore(pollers[p])
    <3>1. /\ r.pc = pollers[p].pc /\ r.conn = pollers[p].conn /\ r.msg = pollers[p].msg
      BY <2>0 DEF Poller
    <3>2. Fine(r)
      BY <1>1, <3>1 DEF Fine
    <3>3. Goto(p, r)
      BY <1>18, <2>1 DEF OnFrameCopy
    <3>4. QED
      BY <1>3, <3>2, <3>3
  <2>2. CASE ~CopiesMore(pollers[p])
    BY <1>5, <1>18, <2>2 DEF OnFrameCopy
  <2>3. QED
    BY <2>1, <2>2
<1>19. CASE CallEmpty(p) \/ OnFrameUnsized(p) \/ OnFrameHeapRace(p) \/ OnFrameWildRead(p)
            \/ OnFrameWildWrite(p)
  BY <1>4, <1>19 DEF CallEmpty, OnFrameUnsized, OnFrameHeapRace, OnFrameWildRead, OnFrameWildWrite
<1>20. QED
  BY <1>7, <1>8, <1>10, <1>11, <1>12, <1>13, <1>14, <1>15, <1>16, <1>17, <1>18, <1>19 DEF PollerStep

\* A count that enters the ring is that of a thread still to resize hands_, and
\* a count read from it has the backing of its slot.
LEMMA PollerKeepsRoom ==
    ASSUME Inv, NEW p \in DOMAIN pollers, PollerStep(p)
    PROVE  RingInv' /\ RoomInv'
<1> USE Bounds DEF At
<1> DEFINE n == Len(pollers[p].msg.frame)
           Fine(r) == /\ r.pc \in OnFramePC => reg = RegDone
                      /\ r.pc \in {"adding", "advancing", "reading"} => r.i \in 0 .. FrameCount - 1
                      /\ r.pc \in {"sizing", "copying"} => r.cur \in Nat /\ Backed(r.cur)
                      /\ r.pc = "copying" => r.i \in 1 .. r.cur
<1>0. /\ pollers \in Seq(Poller) /\ pollers[p] \in Poller /\ UNCHANGED reg
      /\ RingInv /\ RoomInv
      /\ frameBuffer.tail \in Nat
  BY PollerLeaves, ThreadType DEF Inv, WrapperTypeOK, CB!Buffer
<1>a. \A q \in DOMAIN pollers : pollers[q].cur \in Nat
  BY <1>0, ThreadType
<1>1. \A q \in DOMAIN pollers : Fine(pollers[q])
  BY <1>0, <1>a DEF RoomInv
<1>b. \A m \in Nat : Backed(m) => Backed(m)'
  BY BackedStays
<1>c. \A k \in DOMAIN frameBuffer.slots : frameBuffer.slots[k] \in Nat /\ Backed(frameBuffer.slots[k])
  <2>1. \A m \in {0, FrameCount} : \A b \in CB!Buffer(m) : \A k \in DOMAIN b.slots : b.slots[k] \in Nat
    BY DEF CB!Buffer
  <2>2. QED
    BY <1>0, <2>1 DEF RoomInv, Inv, WrapperTypeOK
<1>d. pollers[p].pc \in OnFramePC =>
        /\ n \in 0 .. MaxHands /\ frameBuffer \in CB!Buffer(FrameCount)
        /\ DOMAIN frameBuffer.slots = 0 .. FrameCount - 1 /\ frameBuffer.size = FrameCount
  BY InOnFrame DEF CB!Buffer
<1> HIDE DEF n
<1>2. ASSUME NEW r, Goto(p, r),
             r.pc \in OnFramePC => reg = RegDone,
             r.pc \in {"adding", "advancing", "reading"} => r.i \in 0 .. FrameCount - 1,
             r.pc \in {"sizing", "copying"} => r.cur \in Nat /\ Backed(r.cur),
             r.pc = "copying" => r.i \in 1 .. r.cur,
             UNCHANGED frameBuffer
      PROVE  RingInv' /\ RoomInv'
  <2>1. /\ DOMAIN pollers' = DOMAIN pollers /\ pollers'[p] = r
        /\ \A q \in DOMAIN pollers : q # p => pollers'[q] = pollers[q]
    BY <1>0, <1>2 DEF Goto
  <2>2. \A q \in DOMAIN pollers' : Fine(pollers'[q])
    BY <1>1, <1>2, <2>1
  <2>3. \A q \in DOMAIN pollers' :
         /\ pollers'[q].pc \in OnFramePC => reg' = RegDone
         /\ pollers'[q].pc \in {"adding", "advancing", "reading"} =>
              pollers'[q].i \in 0 .. FrameCount - 1
         /\ pollers'[q].pc \in {"sizing", "copying"} => Backed(pollers[q].cur)'
         /\ pollers'[q].pc = "copying" => pollers'[q].i \in 1 .. pollers'[q].cur
    BY <1>0, <1>b, <2>2
  <2>4. \A k \in DOMAIN frameBuffer'.slots : Backed(frameBuffer.slots[k])'
    BY <1>2, <1>b, <1>c
  <2>5. QED
    BY <1>0, <1>2, <2>3, <2>4 DEF RingInv, RoomInv
<1> DEFINE Outside == {"check", "polling", "dispatch", "calling", "done", "clearing"}
<1>3. ASSUME NEW r, Goto(p, r), r.pc \in Outside, r.pc = "clearing" => reg = RegDone, UNCHANGED frameBuffer
      PROVE  RingInv' /\ RoomInv'
  BY <1>2, <1>3 DEF OnFramePC
<1>4. AtCheck.pc = "check"
  BY ThreadIsPoller
<1>5. CASE PollerCheck(p)
  BY <1>3, <1>5 DEF PollerCheck, Thread, frameVars
<1>6. CASE PollerNoMessage(p) \/ DispatchDevice(p) \/ DispatchUnknown(p) \/ CallLogger(p)
           \/ OnFrameClear(p)
  BY <1>3, <1>4, <1>6 DEF PollerNoMessage, DispatchDevice, DispatchUnknown, CallLogger,
                          OnFrameClear, frameVars
<1>7. CASE PollerLinkEvent(p) \/ PollerData(p)
  BY <1>3, <1>7 DEF PollerLinkEvent, PollerData, Receive, Thread, frameVars
<1>8. CASE DispatchFrame(p) \/ DispatchLinkEvent(p)
  BY <1>3, <1>4, <1>8 DEF DispatchFrame, DispatchLinkEvent, Continue, Thread, frameVars
<1>9. CASE OnFrameBegin(p)
  <2> DEFINE r == Thread("adding", pollers[p].conn, pollers[p].msg, 0, frameBuffer.tail)
  <2>1. r.pc = "adding" /\ r.i = frameBuffer.tail /\ Goto(p, r) /\ UNCHANGED frameBuffer
    BY <1>9 DEF OnFrameBegin, Continue, Thread, frameVars
  <2>2. reg = RegDone /\ frameBuffer.tail \in 0 .. FrameCount - 1
    <3>1. reg \in 0 .. RegDone
      BY DEF Inv, WrapperTypeOK
    <3>2. QED
      BY <1>0, <1>9, <3>1, RegDoneIsNine DEF OnFrameBegin, RingInv
  <2> HIDE DEF r
  <2>3. QED
    BY <1>2, <2>1, <2>2
<1>10. CASE OnFrameAdd(p)
  <2> DEFINE r == Thread("advancing", pollers[p].conn, pollers[p].msg, 0, pollers[p].i)
  <2>1. /\ r.pc = "advancing" /\ r.i = pollers[p].i /\ r.msg = pollers[p].msg /\ Goto(p, r)
        /\ frameBuffer' = CB!Write(frameBuffer, pollers[p].i, n)
    BY <1>10 DEF OnFrameAdd, Continue, Thread, n
  <2>2. pollers[p].pc = "adding" /\ "adding" \in OnFramePC
    BY <1>10 DEF OnFrameAdd, OnFramePC
  <2>3. reg = RegDone /\ pollers[p].i \in 0 .. FrameCount - 1
    BY <1>1, <2>2
  <2> HIDE DEF r
  <2>4. /\ DOMAIN pollers' = DOMAIN pollers /\ pollers'[p] = r
        /\ \A q \in DOMAIN pollers : q # p => pollers'[q] = pollers[q]
    BY <1>0, <2>1 DEF Goto
  <2>5. /\ frameBuffer'.tail = frameBuffer.tail /\ frameBuffer'.size = frameBuffer.size
        /\ DOMAIN frameBuffer'.slots = 0 .. FrameCount - 1
        /\ \A k \in 0 .. FrameCount - 1 :
             frameBuffer'.slots[k] = IF k = pollers[p].i THEN n ELSE frameBuffer.slots[k]
    <3> DEFINE b == CB!Write(frameBuffer, pollers[p].i, n)
    <3>1. n \in 0 .. MaxHands /\ frameBuffer \in CB!Buffer(FrameCount)
      BY <1>d, <2>2
    <3>2. /\ b.tail = frameBuffer.tail /\ b.size = frameBuffer.size
          /\ DOMAIN b.slots = 0 .. FrameCount - 1
          /\ \A k \in 0 .. FrameCount - 1 :
               b.slots[k] = IF k = pollers[p].i THEN n ELSE frameBuffer.slots[k]
      BY <2>3, <3>1 DEF CB!Write, CB!Buffer
    <3>3. frameBuffer' = b
      BY <2>1
    <3> HIDE DEF b
    <3>4. QED
      BY <3>2, <3>3
  <2>6. Backed(n)'
    <3>1. Pending(pollers'[p]) /\ n <= Len(pollers'[p].msg.frame)
      BY <1>d, <2>1, <2>2, <2>4 DEF Pending, n
    <3>2. n' = n
      BY <2>1, <2>4 DEF n
    <3>3. QED
      BY <2>4, <3>1, <3>2 DEF Backed
  <2>7. \A k \in DOMAIN frameBuffer'.slots : Backed(frameBuffer.slots[k])'
    <3> SUFFICES ASSUME NEW k \in 0 .. FrameCount - 1 PROVE Backed(frameBuffer.slots[k])'
      BY <2>5
    <3>1. CASE k = pollers[p].i
      <4>1. frameBuffer'.slots[k] = n /\ n' = n
        BY <2>1, <2>4, <2>5, <3>1 DEF n
      <4>2. QED
        BY <2>6, <4>1 DEF Backed
    <3>2. CASE k # pollers[p].i
      <4>1. frameBuffer'.slots[k] = frameBuffer.slots[k] /\ k \in DOMAIN frameBuffer.slots
        BY <1>d, <2>2, <2>5, <3>2
      <4>2. Backed(frameBuffer.slots[k]) /\ frameBuffer.slots[k] \in Nat
        BY <1>c, <4>1
      <4>3. \A m \in Nat : m = frameBuffer.slots[k] => Backed(m)'
        BY <1>b, <4>2
      <4>4. QED
        BY <4>1, <4>2, <4>3 DEF Backed
    <3>3. QED
      BY <3>1, <3>2
  <2>8. \A q \in DOMAIN pollers' : Fine(pollers'[q])
    BY <1>1, <2>1, <2>3, <2>4
  <2>9. \A q \in DOMAIN pollers' :
         /\ pollers'[q].pc \in OnFramePC => reg' = RegDone
         /\ pollers'[q].pc \in {"adding", "advancing", "reading"} =>
              pollers'[q].i \in 0 .. FrameCount - 1
         /\ pollers'[q].pc \in {"sizing", "copying"} => Backed(pollers[q].cur)'
         /\ pollers'[q].pc = "copying" => pollers'[q].i \in 1 .. pollers'[q].cur
    BY <1>0, <1>b, <2>8
  <2>10. QED
    BY <1>0, <2>5, <2>7, <2>9 DEF RingInv, RoomInv
<1>11. CASE OnFrameAdvance(p)
  <2> DEFINE r == Thread("reading", pollers[p].conn, pollers[p].msg, 0, frameBuffer'.tail)
  <2>1. /\ r.pc = "reading" /\ r.i = frameBuffer'.tail /\ Goto(p, r)
        /\ frameBuffer' = CB!UpdateHeadTail(frameBuffer, pollers[p].i)
    BY <1>11 DEF OnFrameAdvance, Continue, Thread
  <2>2. pollers[p].pc = "advancing" /\ "advancing" \in OnFramePC
    BY <1>11 DEF OnFrameAdvance, OnFramePC
  <2>3. reg = RegDone /\ pollers[p].i \in 0 .. FrameCount - 1
    BY <1>1, <2>2
  <2> HIDE DEF r
  <2>4. /\ DOMAIN pollers' = DOMAIN pollers /\ pollers'[p] = r
        /\ \A q \in DOMAIN pollers : q # p => pollers'[q] = pollers[q]
    BY <1>0, <2>1 DEF Goto
  <2>5. /\ frameBuffer'.tail \in 0 .. FrameCount - 1 /\ frameBuffer'.size = frameBuffer.size
        /\ frameBuffer'.slots = frameBuffer.slots
    BY <1>d, <2>1, <2>2, <2>3, UpdateType
  <2>6. \A k \in DOMAIN frameBuffer'.slots : Backed(frameBuffer.slots[k])'
    BY <1>b, <1>c, <2>5
  <2>7. \A q \in DOMAIN pollers' : Fine(pollers'[q])
    BY <1>1, <2>1, <2>3, <2>4, <2>5
  <2>8. \A q \in DOMAIN pollers' :
         /\ pollers'[q].pc \in OnFramePC => reg' = RegDone
         /\ pollers'[q].pc \in {"adding", "advancing", "reading"} =>
              pollers'[q].i \in 0 .. FrameCount - 1
         /\ pollers'[q].pc \in {"sizing", "copying"} => Backed(pollers[q].cur)'
         /\ pollers'[q].pc = "copying" => pollers'[q].i \in 1 .. pollers'[q].cur
    BY <1>0, <1>b, <2>7
  <2>9. QED
    BY <1>0, <2>5, <2>6, <2>8 DEF RingInv, RoomInv
<1>12. CASE OnFrameBack(p)
  <2> DEFINE r == Thread("sizing", pollers[p].conn, pollers[p].msg, frameBuffer.slots[pollers[p].i], 0)
  <2>1. /\ r.pc = "sizing" /\ r.cur = frameBuffer.slots[pollers[p].i] /\ Goto(p, r)
        /\ UNCHANGED frameBuffer
    BY <1>12 DEF OnFrameBack, Continue, Thread, frameVars
  <2>2. pollers[p].pc = "reading" /\ "reading" \in OnFramePC
    BY <1>12 DEF OnFrameBack, OnFramePC
  <2>3. reg = RegDone /\ pollers[p].i \in DOMAIN frameBuffer.slots
    BY <1>1, <1>d, <2>2
  <2> HIDE DEF r
  <2>4. QED
    BY <1>2, <1>c, <2>1, <2>3
<1>13. CASE OnFrameResize(p)
  <2>1. pollers[p].pc = "sizing" /\ "sizing" \in OnFramePC /\ UNCHANGED frameBuffer
    BY <1>13 DEF OnFrameResize, OnFramePC
  <2>2. reg = RegDone /\ pollers[p].cur \in Nat /\ Backed(pollers[p].cur)
    BY <1>1, <2>1
  <2>3. CASE Continue(p, "clearing", 0, 0)
    BY <1>3, <2>1, <2>2, <2>3 DEF Continue, Thread
  <2>4. CASE pollers[p].cur > 0 /\ Continue(p, "copying", pollers[p].cur, 1)
    <3> DEFINE r == Thread("copying", pollers[p].conn, pollers[p].msg, pollers[p].cur, 1)
    <3>1. r.pc = "copying" /\ r.cur = pollers[p].cur /\ r.i = 1 /\ Goto(p, r)
      BY <2>4 DEF Continue, Thread
    <3>2. r.i \in 1 .. r.cur
      BY <2>2, <2>4, <3>1
    <3> HIDE DEF r
    <3>3. QED
      BY <1>2, <2>1, <2>2, <3>1, <3>2
  <2>5. CASE Goto(p, AtCheck)
    BY <1>3, <1>4, <2>1, <2>5
  <2>6. QED
    BY <1>13, <2>3, <2>4, <2>5 DEF OnFrameResize
<1>14. CASE OnFrameCopy(p)
  <2>1. pollers[p].pc = "copying" /\ "copying" \in OnFramePC /\ UNCHANGED frameBuffer
    BY <1>14 DEF OnFrameCopy, OnFramePC
  <2>2. /\ reg = RegDone /\ pollers[p].cur \in Nat /\ Backed(pollers[p].cur)
        /\ pollers[p].i \in 1 .. pollers[p].cur
    BY <1>1, <2>1
  <2>3. CASE CopiesMore(pollers[p])
    <3> DEFINE r == [pollers[p] EXCEPT !.i = pollers[p].i + 1]
    <3>1. r.pc = "copying" /\ r.cur = pollers[p].cur /\ r.i = pollers[p].i + 1
      BY <1>0, <2>1 DEF Poller
    <3>2. Goto(p, r)
      BY <1>14, <2>3 DEF OnFrameCopy
    <3>3. r.i \in 1 .. r.cur
      BY <2>2, <2>3, <3>1 DEF CopiesMore
    <3> HIDE DEF r
    <3>4. QED
      BY <1>2, <2>1, <2>2, <3>1, <3>2, <3>3
  <2>4. CASE ~CopiesMore(pollers[p])
    BY <1>3, <1>4, <1>14, <2>1, <2>4 DEF OnFrameCopy
  <2>5. QED
    BY <2>3, <2>4
<1>15. CASE CallEmpty(p) \/ OnFrameUnsized(p) \/ OnFrameHeapRace(p) \/ OnFrameWildRead(p)
            \/ OnFrameWildWrite(p)
  <2>1. UNCHANGED <<pollers, frameBuffer, hands>>
    BY <1>15 DEF CallEmpty, OnFrameUnsized, OnFrameHeapRace, OnFrameWildRead, OnFrameWildWrite, frameVars
  <2>2. QED
    BY <1>0, <2>1 DEF RingInv, RoomInv, Backed
<1>16. QED
  BY <1>5, <1>6, <1>7, <1>8, <1>9, <1>10, <1>11, <1>12, <1>13, <1>14, <1>15 DEF PollerStep

\* Reading m_tail again changes nothing but the value the thread works with.
LEMMA ReloadMoves ==
    ASSUME Inv, NEW p \in DOMAIN pollers, OnFrameReload(p)
    PROVE  /\ UNCHANGED <<inConncetion, handle, fault, clientVars, leapcVars, frameVars>>
           /\ pollers' \in Seq(Poller) /\ DOMAIN pollers' = DOMAIN pollers
           /\ \A q \in DOMAIN pollers : q # p => pollers'[q] = pollers[q]
           /\ pollers[p].pc \in {"advancing", "reading"} /\ frameBuffer.tail # pollers[p].i
           /\ pollers'[p].pc = pollers[p].pc /\ pollers'[p].conn = pollers[p].conn
           /\ pollers'[p].msg = pollers[p].msg
           /\ pollers'[p].i = frameBuffer.tail /\ frameBuffer.tail \in 0 .. FrameCount - 1
<1> USE Bounds
<1> DEFINE r == Thread(pollers[p].pc, pollers[p].conn, pollers[p].msg, 0, frameBuffer.tail)
<1>1. /\ Goto(p, r) /\ pollers[p].pc \in {"advancing", "reading"} /\ frameBuffer.tail # pollers[p].i
      /\ UNCHANGED <<inConncetion, handle, fault, clientVars, leapcVars, frameVars>>
  BY DEF OnFrameReload, Continue
<1>2. pollers \in Seq(Poller) /\ frameBuffer.tail \in 0 .. FrameCount - 1
  BY DEF Inv, WrapperTypeOK, RingInv, CB!Buffer
<1>3. /\ r.pc = pollers[p].pc /\ r.conn = pollers[p].conn /\ r.msg = pollers[p].msg
      /\ r.i = frameBuffer.tail
  BY DEF Thread
<1>4. r \in Poller
  <2>1. pollers[p].pc \in PollerPC /\ pollers[p].conn \in 0 .. MaxConn /\ pollers[p].msg \in Message
    BY <1>2, ThreadType
  <2>2. 0 \in 0 .. MaxHands /\ frameBuffer.tail \in 0 .. MaxHands + FrameCount
    BY <1>2
  <2>3. QED
    BY <2>1, <2>2, ThreadIsPoller
<1> HIDE DEF r
<1>5. /\ pollers' \in Seq(Poller) /\ DOMAIN pollers' = DOMAIN pollers /\ pollers'[p] = r
      /\ \A q \in DOMAIN pollers : q # p => pollers'[q] = pollers[q]
  BY <1>1, <1>2, <1>4, GotoThread
<1>6. QED
  BY <1>1, <1>2, <1>3, <1>5

LEMMA ReloadKeeps ==
    ASSUME Inv, NEW p \in DOMAIN pollers, OnFrameReload(p) PROVE Inv'
<1> USE DEF clientVars, leapcVars, frameVars
<1>0. /\ UNCHANGED <<inConncetion, handle, fault, clientVars, leapcVars, frameVars>>
      /\ pollers' \in Seq(Poller) /\ DOMAIN pollers' = DOMAIN pollers
      /\ \A q \in DOMAIN pollers : q # p => pollers'[q] = pollers[q]
      /\ pollers[p].pc \in {"advancing", "reading"}
      /\ pollers'[p].pc = pollers[p].pc /\ pollers'[p].conn = pollers[p].conn
      /\ pollers'[p].msg = pollers[p].msg
      /\ pollers'[p].i = frameBuffer.tail /\ frameBuffer.tail \in 0 .. FrameCount - 1
  BY ReloadMoves
<1>1. WrapperTypeOK' /\ CallInv' /\ RingInv'
  BY <1>0 DEF Inv, WrapperTypeOK, CallInv, RingInv
<1>2. \A q \in DOMAIN pollers :
        /\ pollers'[q].pc = pollers[q].pc /\ pollers'[q].conn = pollers[q].conn
        /\ pollers'[q].msg = pollers[q].msg
  BY <1>0
<1>3. ThreadInv'
  BY <1>0, <1>2 DEF Inv, ThreadInv, Busy, Handling
<1>4. NoThreadOutlivesConnection'
  BY <1>0, <1>2 DEF Inv, NoThreadOutlivesConnection
<1>5. RoomInv'
  <2>1. \A n : Backed(n) => Backed(n)'
    BY <1>0, <1>2 DEF Backed, Pending
  <2>2. \A k \in DOMAIN frameBuffer'.slots : Backed(frameBuffer.slots[k])'
    BY <1>0, <2>1 DEF Inv, RoomInv, Backed
  <2>3. \A q \in DOMAIN pollers' :
         /\ pollers'[q].pc \in OnFramePC => reg' = RegDone
         /\ pollers'[q].pc \in {"adding", "advancing", "reading"} =>
              pollers'[q].i \in 0 .. FrameCount - 1
    BY <1>0, <1>2 DEF Inv, RoomInv
  <2>4. \A q \in DOMAIN pollers' :
         pollers'[q].pc \in {"sizing", "copying"} => q # p /\ pollers'[q] = pollers[q]
    BY <1>0, <1>2
  <2>5. \A q \in DOMAIN pollers' :
         /\ pollers'[q].pc \in {"sizing", "copying"} => Backed(pollers[q].cur)'
         /\ pollers'[q].pc = "copying" => pollers'[q].i \in 1 .. pollers'[q].cur
    <3>1. \A q \in DOMAIN pollers :
            /\ pollers[q].pc \in {"sizing", "copying"} => Backed(pollers[q].cur)
            /\ pollers[q].pc = "copying" => pollers[q].i \in 1 .. pollers[q].cur
      BY DEF Inv, RoomInv
    <3>2. QED
      BY <1>0, <2>1, <2>4, <3>1
  <2>6. QED
    BY <2>2, <2>3, <2>5 DEF RoomInv
<1>6. QED
  BY <1>1, <1>3, <1>4, <1>5 DEF Inv

-----------------------------------------------------------------------------
LEMMA InvInit == WrapperInit => Inv
<1> SUFFICES ASSUME WrapperInit PROVE Inv
  OBVIOUS
<1> USE Bounds DEF WrapperInit
<1>1. frameBuffer \in CB!Buffer(0) /\ frameBuffer.size = 0 /\ frameBuffer.tail = 0
      /\ DOMAIN frameBuffer.slots = {}
  BY DEF CB!Unsized, CB!Buffer
<1>2. hands \in Hands
  BY HandAssumption DEF Hands
<1>3. WrapperTypeOK
  <2>1. pollers \in Seq(Poller) /\ lastFrame \in Frame /\ reg \in 0 .. RegDone
    BY FrameAssumption, RegDoneIsNine
  <2>2. \E n \in {0, FrameCount} : frameBuffer \in CB!Buffer(n)
    BY <1>1
  <2>3. /\ conns \in [Connection -> {"none", "created", "open", "destroyed"}]
        /\ age \in [1 .. MaxHands -> 0 .. FrameCount]
    OBVIOUS
  <2>4. fault \in FaultKind
    BY DEF FaultKind
  <2>5. inConncetion \in BOOLEAN /\ shown \in BOOLEAN
    OBVIOUS
  <2>6. handle \in 0 .. MaxConn /\ left \in 0 .. RetryLimit /\ openDevices \in 0 .. MaxDevices
    OBVIOUS
  <2>7. QED
    BY <1>2, <2>1, <2>2, <2>3, <2>4, <2>5, <2>6 DEF WrapperTypeOK
<1>4. CallInv /\ ThreadInv /\ NoThreadOutlivesConnection
  BY DEF CallInv, ThreadInv, NoThreadOutlivesConnection, PollersDone
<1>5. RingInv /\ RoomInv
  BY <1>1, RegDoneIsNine DEF RingInv, RoomInv
<1>6. QED
  BY <1>3, <1>4, <1>5 DEF Inv

LEMMA InvStep == Inv /\ [WrapperNext]_wrapperVars => Inv'
<1> SUFFICES ASSUME Inv, [WrapperNext]_wrapperVars PROVE Inv'
  OBVIOUS
<1>1. CASE ClientStep
  BY <1>1, ClientType, ClientKeeps, ClientKeepsRoom DEF Inv
<1>2. ASSUME NEW p \in DOMAIN pollers, PollerStep(p) PROVE Inv'
  <2>1. CallInv'
    BY <1>2, PollerLeaves, RegDoneIsNine DEF Inv, CallInv
  <2>2. inConncetion \/ op = "joining"
    BY <1>2, PollerLeaves DEF Inv, NoThreadOutlivesConnection, PollersDone
  <2>3. NoThreadOutlivesConnection'
    BY <1>2, <2>2, PollerLeaves DEF NoThreadOutlivesConnection
  <2>4. QED
    BY <1>2, <2>1, <2>3, PollerType, PollerKeepsRoom, PollerKeepsThreads DEF Inv
<1>3. CASE ServiceStep \/ UNCHANGED wrapperVars
  <2>1. /\ link' \in {"down", "up", "lost"}
        /\ UNCHANGED <<inConncetion, handle, pollers, fault, clientVars, conns, told, openDevices, frameVars>>
    BY <1>3 DEF ServiceStep, ServiceUp, ServiceLost, wrapperVars, leapcVars, Inv, WrapperTypeOK
  <2> USE DEF clientVars, frameVars
  <2>2. WrapperTypeOK'
    BY <2>1 DEF Inv, WrapperTypeOK
  <2>3. CallInv' /\ NoThreadOutlivesConnection'
    BY <2>1 DEF Inv, CallInv, NoThreadOutlivesConnection, PollersDone
  <2>4. ThreadInv' /\ RingInv'
    BY <2>1 DEF Inv, ThreadInv, Busy, Handling, RingInv
  <2>5. RoomInv'
    BY <2>1 DEF Inv, RoomInv, Backed
  <2>6. QED
    BY <2>2, <2>3, <2>4, <2>5 DEF Inv
<1>4. QED
  BY <1>1, <1>2, <1>3, ReloadKeeps DEF WrapperNext

LEMMA Invariance == WrapperSpec => []Inv
BY InvInit, InvStep, PTL DEF WrapperSpec

\* The wrapper's state stays well-formed whatever the client and the service
\* do.
THEOREM WrapperTypeCorrect == WrapperSpec => []WrapperTypeOK
<1>1. Inv => WrapperTypeOK
  BY DEF Inv
<1>2. QED
  BY <1>1, Invariance, PTL

\* disconnect() never destroys a connection under a thread that polls it or
\* handles one of its messages, with any number of threads and connections.
THEOREM NeverUsedAfterDestroy == WrapperSpec => []NoUseAfterDestroy
<1>1. Inv => NoUseAfterDestroy
  BY DEF Inv, ThreadInv, Busy, NoUseAfterDestroy
<1>2. QED
  BY <1>1, Invariance, PTL

\* No polling thread survives a completed disconnect().
THEOREM ThreadsEndWithConnection == WrapperSpec => []NoThreadOutlivesConnection
<1>1. Inv => NoThreadOutlivesConnection
  BY DEF Inv
<1>2. QED
  BY <1>1, Invariance, PTL

\* A count with no room in hands_ is that of a frame whose thread has still to
\* resize (RoomInv), and that thread is not the one that copies.
LEMMA OnlyAPendingFrameOverruns ==
    Inv => /\ OverrunNeedsPendingFrame
           /\ Len(pollers) <= 1 =>
                \A p \in DOMAIN pollers :
                    pollers[p].pc = "copying" => pollers[p].cur <= hands.cap
<1> SUFFICES ASSUME Inv PROVE /\ OverrunNeedsPendingFrame
                              /\ Len(pollers) <= 1 =>
                                   \A p \in DOMAIN pollers :
                                       pollers[p].pc = "copying" => pollers[p].cur <= hands.cap
  OBVIOUS
<1>a. pollers \in Seq(Poller) /\ Len(pollers) \in Nat /\ DOMAIN pollers = 1 .. Len(pollers)
      /\ hands.cap \in Nat
  BY Bounds DEF Inv, WrapperTypeOK, Hands
<1>b. \A p \in DOMAIN pollers : pollers[p].cur \in Nat
  BY <1>a, ThreadType, Bounds
<1>c. ASSUME NEW p \in DOMAIN pollers, pollers[p].pc = "copying", ~(pollers[p].cur <= hands.cap)
      PROVE  /\ Len(pollers) > 1
             /\ \E q \in DOMAIN pollers \ {p} :
                   Pending(pollers[q]) /\ Len(pollers[q].msg.frame) >= pollers[p].cur
  <2>1. PICK q \in DOMAIN pollers : Pending(pollers[q]) /\ pollers[p].cur <= Len(pollers[q].msg.frame)
    BY <1>c DEF Inv, RoomInv, Backed
  <2>2. q # p
    BY <1>c, <2>1 DEF Pending
  <2>3. Len(pollers) > 1
    BY <1>a, <2>2
  <2>4. Len(pollers[q].msg.frame) \in Nat
    <3>1. pollers[q].pc \in OnFramePC
      BY <2>1 DEF Pending, OnFramePC
    <3>2. QED
      BY <3>1, InOnFrame, Bounds
  <2>5. QED
    BY <1>b, <2>1, <2>2, <2>3, <2>4
<1>d. OverrunNeedsPendingFrame
  BY <1>a, <1>b, <1>c DEF OverrunNeedsPendingFrame
<1>e. QED
  BY <1>a, <1>c, <1>d

\* The loop of onFrame runs past the allocation of hands_ only if another
\* thread stands between its add and its resize with a frame of that many
\* hands: for any number of threads and any size of the ring, although the
\* count it copies by is another frame's.  So a single thread never does.
THEOREM CopiesStayInAllocation ==
    WrapperSpec => [](/\ OverrunNeedsPendingFrame
                      /\ Len(pollers) <= 1 =>
                           \A p \in DOMAIN pollers :
                               pollers[p].pc = "copying" => pollers[p].cur <= hands.cap)
BY OnlyAPendingFrameOverruns, Invariance, PTL

-----------------------------------------------------------------------------
\* The steps of a polling thread that end the process.
LEMMA WhatKills ==
    ASSUME NEW p \in DOMAIN pollers, PollerStep(p)
    PROVE  \/ UNCHANGED fault
           \/ CallEmpty(p) \/ OnFrameUnsized(p) \/ OnFrameHeapRace(p)
           \/ OnFrameWildRead(p) \/ OnFrameWildWrite(p)
<1>1. CASE PollerCheck(p) \/ PollerNoMessage(p) \/ PollerLinkEvent(p) \/ PollerData(p) \/ CallLogger(p)
  BY <1>1 DEF PollerCheck, PollerNoMessage, PollerLinkEvent, PollerData, Receive, CallLogger
<1>2. CASE DispatchFrame(p) \/ DispatchDevice(p) \/ DispatchLinkEvent(p) \/ DispatchUnknown(p)
  BY <1>2 DEF DispatchFrame, DispatchDevice, DispatchLinkEvent, DispatchUnknown
<1>3. CASE OnFrameBegin(p) \/ OnFrameAdd(p) \/ OnFrameAdvance(p) \/ OnFrameBack(p)
  BY <1>3 DEF OnFrameBegin, OnFrameAdd, OnFrameAdvance, OnFrameBack
<1>4. CASE OnFrameResize(p) \/ OnFrameClear(p) \/ OnFrameCopy(p)
  BY <1>4 DEF OnFrameResize, OnFrameClear, OnFrameCopy
<1>5. QED
  BY <1>1, <1>2, <1>3, <1>4 DEF PollerStep

\* The callbacks are complete before the ring gets its size, and nothing takes
\* either back.
LEMMA InitializedStep ==
    Inv /\ [WrapperNext]_wrapperVars =>
        ((reg = RegDone /\ fault # fault') => fault' \notin {"bad_function_call", "unsized_buffer"})
<1> SUFFICES ASSUME Inv, [WrapperNext]_wrapperVars, reg = RegDone, fault # fault'
             PROVE  fault' \notin {"bad_function_call", "unsized_buffer"}
  OBVIOUS
<1>1. CASE ClientStep
  BY <1>1 DEF ClientStep, ConnectAborts, ConnectCreate, ConnectOpen, ConnectProbeNothing,
              ConnectProbeDevice, ConnectFetch, Initialize, DisconnectBegin, DisconnectClose, Crash
<1>2. ASSUME NEW p \in DOMAIN pollers, PollerStep(p)
      PROVE  fault' \notin {"bad_function_call", "unsized_buffer"}
  <2>1. CASE CallEmpty(p)
    <3>1. pollers \in Seq(Poller) /\ pollers[p].pc = "calling"
      BY <2>1 DEF CallEmpty, At, Inv, WrapperTypeOK
    <3>2. pollers[p].msg.type \in {"Connection", "ConnectionLost", "Tracking"}
      BY <3>1, ThreadType, MessageType DEF Inv, ThreadInv
    <3>3. PICK k \in 1 .. 4 : Callback[k] = CallbackOf(pollers[p].msg)
      <4>1. Callback[1] = "onConnect" /\ Callback[2] = "onConnectLost" /\ Callback[4] = "onFrame"
        BY DEF Callback
      <4>2. QED
        BY <3>2, <4>1 DEF CallbackOf
    <3>4. Registered(CallbackOf(pollers[p].msg))
      BY <3>3, RegDoneIsNine DEF Registered
    <3>5. QED
      BY <2>1, <3>4 DEF CallEmpty
  <2>2. CASE OnFrameUnsized(p)
    BY <2>2, Bounds DEF OnFrameUnsized, Inv, RingInv
  <2>3. CASE OnFrameHeapRace(p) \/ OnFrameWildRead(p) \/ OnFrameWildWrite(p)
    BY <2>3 DEF OnFrameHeapRace, OnFrameWildRead, OnFrameWildWrite, Crash
  <2>4. QED
    BY <1>2, <2>1, <2>2, <2>3, WhatKills
<1>3. CASE ServiceStep \/ UNCHANGED wrapperVars
  BY <1>3 DEF ServiceStep, ServiceUp, ServiceLost, wrapperVars
<1>4. ASSUME NEW p \in DOMAIN pollers, OnFrameReload(p) PROVE FALSE
  BY <1>4 DEF OnFrameReload
<1>5. QED
  BY <1>1, <1>2, <1>3, <1>4 DEF WrapperNext

\* Once initialize() has returned, no frame or event meets an empty callback
\* or a ring without a size.
THEOREM NoCrashOnceInitialized == WrapperSpec => InitializedNeverCrashes
BY InitializedStep, Invariance, PTL DEF WrapperSpec, InitializedNeverCrashes

-----------------------------------------------------------------------------
(* How stale hands_ may be.                                                *)

\* Frames onFrame has run on since it wrote place k of the ring whose tail is t.
Since(t, k) == IF k < t THEN t - 1 - k ELSE t + FrameCount - 1 - k

\* A hand that is shown and of some age was in every frame of that many: each
\* of them has left in the ring a count that reaches it.  `lead` is 1 while
\* the ring has the newest frame and hands_ is not resized for it.
Reaches(lead) ==
    \A i \in 1 .. hands.size : \A k \in DOMAIN frameBuffer.slots :
        (lead <= Since(frameBuffer.tail, k) /\ Since(frameBuffer.tail, k) < age[i] + lead) =>
            i <= frameBuffer.slots[k]

Lead(r) == IF r.pc \in {"reading", "sizing"} THEN 1 ELSE 0

Shows(r) == r.pc \in OnFramePC \/ (r.pc = "calling" /\ r.msg.type = "Tracking")

\* The only thread works on the newest frame, with the ring as it left it,
\* and has copied its first hands.
FrameInHand(r) ==
    /\ ~shown /\ r.msg.frame = lastFrame
    /\ r.pc \in {"adding", "advancing", "reading"} => r.i = frameBuffer.tail
    /\ r.pc = "advancing" => frameBuffer.slots[frameBuffer.tail] = Len(lastFrame)
    /\ r.pc \in {"reading", "sizing"} =>
         \A k \in DOMAIN frameBuffer.slots :
             Since(frameBuffer.tail, k) = 0 => frameBuffer.slots[k] = Len(lastFrame)
    /\ r.pc = "sizing" => r.cur = CB!Back(frameBuffer)
    /\ r.pc = "clearing" => hands.size = 0 /\ Len(lastFrame) = 0
    /\ r.pc = "copying" =>
         /\ hands.size = Len(lastFrame)
         /\ r.cur = CB!Back(frameBuffer) /\ r.i \in 1 .. r.cur
         /\ \A k \in DOMAIN lastFrame : k < r.i => hands.data[k] = lastFrame[k]

Owed(i, r) == r.pc = "copying" /\ i \in r.i .. r.cur

\* With r the only polling thread, an entry as old as the ring is one the copy
\* under way has still to reach.
SoloAt(r) ==
    /\ PrefixFresh
    /\ Shows(r) => FrameInHand(r)
    /\ \A i \in 1 .. hands.size : age[i] < FrameCount \/ Owed(i, r)
    /\ Reaches(Lead(r))

\* Without a thread all is as with one that has nothing in hand.
FrameInv ==
    /\ frameBuffer.size = 0 => hands.size = 0 /\ ~shown
    /\ Len(pollers) = 0 => SoloAt(AtCheck)
    /\ Len(pollers) = 1 => \A p \in DOMAIN pollers : SoloAt(pollers[p])

LEMMA NothingInHand ==
    AtCheck.pc = "check" /\ ~Shows(AtCheck) /\ Lead(AtCheck) = 0 /\ \A i : ~Owed(i, AtCheck)
BY DEF AtCheck, Thread, Shows, Lead, Owed, OnFramePC

LEMMA ShowsNothing ==
    ASSUME NEW r, ~Shows(r) PROVE Lead(r) = 0 /\ \A i : ~Owed(i, r)
BY DEF Shows, Lead, Owed, OnFramePC

\* With one thread, the thread that moves is the only one.
LEMMA OnlyThread ==
    ASSUME pollers \in Seq(Poller), NEW p \in DOMAIN pollers, NEW r, Goto(p, r)
    PROVE  /\ Len(pollers') = Len(pollers) /\ Len(pollers) # 0
           /\ DOMAIN pollers' = DOMAIN pollers /\ pollers'[p] = r
           /\ Len(pollers) = 1 => DOMAIN pollers = {p}
<1>1. pollers' \in Seq(Poller \cup {r}) /\ DOMAIN pollers' = DOMAIN pollers /\ pollers'[p] = r
  BY DEF Goto
<1>2. Len(pollers') = Len(pollers)
  BY <1>1
<1>3. Len(pollers) \in Nat /\ DOMAIN pollers = 1 .. Len(pollers)
  OBVIOUS
<1>4. ASSUME Len(pollers) = 1 PROVE DOMAIN pollers = {p}
  <2>1. \A q \in DOMAIN pollers : q = 1
    BY <1>3, <1>4
  <2>2. QED
    BY <2>1
<1>5. QED
  BY <1>1, <1>2, <1>3, <1>4

\* So a step is good if it is good for that thread.
LEMMA SoloKept ==
    ASSUME Inv, FrameInv, NEW p \in DOMAIN pollers, NEW r, Goto(p, r),
           frameBuffer'.size = 0 => hands'.size = 0 /\ ~shown',
           (Len(pollers) = 1 /\ pollers'[p] = r /\ SoloAt(pollers[p])) =>
               SoloAt(pollers[p])'
    PROVE  FrameInv'
<1>0. pollers \in Seq(Poller)
  BY DEF Inv, WrapperTypeOK
<1>1. /\ Len(pollers') = Len(pollers) /\ Len(pollers) # 0 /\ DOMAIN pollers' = DOMAIN pollers
      /\ pollers'[p] = r /\ (Len(pollers) = 1 => DOMAIN pollers = {p})
  BY <1>0, OnlyThread
<1>2. ASSUME Len(pollers') = 1 PROVE \A q \in DOMAIN pollers' : SoloAt(pollers[q])'
  <2>1. SoloAt(pollers[p])'
    BY <1>1, <1>2 DEF FrameInv
  <2>2. \A q \in DOMAIN pollers' : q = p
    BY <1>1, <1>2
  <2>3. QED
    BY <2>1, <2>2
<1>3. QED
  BY <1>1, <1>2 DEF FrameInv

\* Steps that leave the frames and the threads alone.
LEMMA FramesLeftAlone ==
    ASSUME FrameInv, UNCHANGED <<pollers, frameVars>> PROVE FrameInv'
<1> USE DEF frameVars
<1>1. PrefixFresh => PrefixFresh'
  BY DEF PrefixFresh, CB!Back
<1>2. \A r : FrameInHand(r) => FrameInHand(r)'
  BY DEF FrameInHand, CB!Back
<1>3. \A lead : Reaches(lead) => Reaches(lead)'
  BY DEF Reaches
<1>4. \A r : SoloAt(r) => SoloAt(r)'
  BY <1>1, <1>2, <1>3 DEF SoloAt
<1>5. \A p \in DOMAIN pollers : SoloAt(pollers[p]) => SoloAt(pollers[p])'
  BY <1>4
<1>6. QED
  BY <1>4, <1>5, NothingInHand DEF FrameInv, SoloAt

\* A thread that has no entry to copy, and then no frame in hand.
LEMMA GotoLeavesFrames ==
    ASSUME Inv, FrameInv, UNCHANGED frameVars, NEW p \in DOMAIN pollers, NEW r, Goto(p, r), ~Shows(r),
           pollers[p].pc \notin OnFramePC
    PROVE  FrameInv'
<1> USE DEF frameVars
<1>1. ASSUME pollers'[p] = r, SoloAt(pollers[p]) PROVE SoloAt(pollers[p])'
  <2>1. PrefixFresh'
    BY <1>1 DEF SoloAt, PrefixFresh, CB!Back
  <2>2. ~Shows(pollers'[p]) /\ Lead(pollers'[p]) = 0 /\ Lead(pollers[p]) = 0
        /\ \A i : ~Owed(i, pollers[p])
    BY <1>1, ShowsNothing DEF Lead, Owed, OnFramePC
  <2>3. Reaches(0)'
    BY <1>1, <2>2 DEF SoloAt, Reaches
  <2>4. \A i \in 1 .. hands'.size : age'[i] < FrameCount
    BY <1>1, <2>2 DEF SoloAt
  <2>5. QED
    BY <2>1, <2>2, <2>3, <2>4 DEF SoloAt
<1>2. QED
  BY <1>1, SoloKept DEF FrameInv

\* The ring inside onFrame.
LEMMA RingPlaces ==
    ASSUME Inv, frameBuffer.size # 0
    PROVE  /\ frameBuffer \in CB!Buffer(FrameCount) /\ frameBuffer.size = FrameCount
           /\ frameBuffer.tail \in 0 .. FrameCount - 1
           /\ DOMAIN frameBuffer.slots = 0 .. FrameCount - 1
           /\ \A k \in 0 .. FrameCount - 1 :
                frameBuffer.slots[k] \in Nat /\ Since(frameBuffer.tail, k) \in 0 .. FrameCount - 1
           /\ Since(frameBuffer.tail, frameBuffer.tail) = FrameCount - 1
           /\ CB!Back(frameBuffer) = frameBuffer.slots[frameBuffer.tail]
<1>1. frameBuffer \in CB!Buffer(FrameCount)
  BY DEF Inv, WrapperTypeOK, CB!Buffer
<1>2. /\ frameBuffer.size = FrameCount /\ frameBuffer.tail \in Nat
      /\ DOMAIN frameBuffer.slots = 0 .. FrameCount - 1
      /\ \A k \in 0 .. FrameCount - 1 : frameBuffer.slots[k] \in Nat
  BY <1>1, Bounds DEF CB!Buffer
<1>3. frameBuffer.tail \in 0 .. FrameCount - 1
  BY <1>2, Bounds DEF Inv, RingInv
<1>4. PICK t \in 0 .. FrameCount - 1 : t = frameBuffer.tail
  BY <1>3
<1>5. /\ \A k \in 0 .. FrameCount - 1 : Since(t, k) \in 0 .. FrameCount - 1
      /\ Since(t, t) = FrameCount - 1
  BY Bounds DEF Since
<1>6. CB!Back(frameBuffer) = frameBuffer.slots[frameBuffer.tail]
  BY DEF CB!Back
<1>7. QED
  BY <1>1, <1>2, <1>3, <1>4, <1>5, <1>6

\* When the ring turns every other place is one frame older; the place that
\* follows becomes the oldest.
LEMMA RingTurns ==
    ASSUME NEW t \in 0 .. FrameCount - 1, NEW u, u = IF t + 1 = FrameCount THEN 0 ELSE t + 1
    PROVE  \A k \in 0 .. FrameCount - 1 :
             /\ Since(u, k) \in 0 .. FrameCount - 1
             /\ k # t => Since(t, k) \in 0 .. FrameCount - 1 /\ Since(u, k) = Since(t, k) + 1
BY Bounds DEF Since

\* What is known of the only thread inside onFrame.
LEMMA SoloInOnFrame ==
    ASSUME NEW r, SoloAt(r), r.pc \in OnFramePC
    PROVE  /\ ~shown /\ r.msg.frame = lastFrame /\ FrameInHand(r)
           /\ \A i \in 1 .. hands.size : age[i] < FrameCount \/ Owed(i, r)
           /\ Reaches(Lead(r))
BY DEF SoloAt, Shows, FrameInHand

LEMMA DispatchKeepsFrames ==
    ASSUME Inv, FrameInv, NEW p \in DOMAIN pollers, DispatchFrame(p) PROVE FrameInv'
<1> USE DEF At
<1>1. /\ UNCHANGED <<frameBuffer, hands, age>> /\ ~shown'
      /\ lastFrame' = pollers[p].msg.frame /\ pollers[p].pc = "dispatch"
  BY DEF DispatchFrame
<1>2. PICK r : Goto(p, r) /\ r.pc \in {"check", "calling"} /\ (Shows(r) => r.msg = pollers[p].msg)
  <2>1. AtCheck.pc = "check" /\ ~Shows(AtCheck)
    BY NothingInHand
  <2>2. ASSUME Continue(p, "calling", 0, 0) PROVE \E r : Goto(p, r) /\ r.pc = "calling" /\ r.msg = pollers[p].msg
    BY <2>2 DEF Continue, Thread
  <2>3. QED
    BY <2>1, <2>2 DEF DispatchFrame
<1>3. ASSUME pollers'[p] = r, SoloAt(pollers[p]) PROVE SoloAt(pollers[p])'
  <2>1. PrefixFresh'
    BY <1>1 DEF PrefixFresh
  <2>2. Shows(pollers'[p]) => FrameInHand(pollers[p])'
    BY <1>1, <1>2, <1>3 DEF FrameInHand
  <2>3. Lead(pollers[p]) = 0 /\ Lead(pollers'[p]) = 0 /\ \A i : ~Owed(i, pollers[p])
    BY <1>1, <1>2, <1>3 DEF Lead, Owed
  <2>4. \A i \in 1 .. hands'.size : age'[i] < FrameCount
    BY <1>1, <1>3, <2>3 DEF SoloAt
  <2>5. Reaches(0)'
    BY <1>1, <1>3, <2>3 DEF SoloAt, Reaches
  <2>6. QED
    BY <2>1, <2>2, <2>3, <2>4, <2>5 DEF SoloAt
<1>4. QED
  BY <1>1, <1>2, <1>3, SoloKept DEF FrameInv

LEMMA BeginKeepsFrames ==
    ASSUME Inv, FrameInv, NEW p \in DOMAIN pollers, OnFrameBegin(p) PROVE FrameInv'
<1> DEFINE r == Thread("adding", pollers[p].conn, pollers[p].msg, 0, frameBuffer.tail)
<1>1. /\ UNCHANGED frameVars /\ Goto(p, r)
      /\ pollers[p].pc = "calling" /\ pollers[p].msg.type = "Tracking"
      /\ r.pc = "adding" /\ r.msg = pollers[p].msg /\ r.i = frameBuffer.tail
  BY DEF OnFrameBegin, Continue, Thread, At
<1> HIDE DEF r
<1>2. ASSUME pollers'[p] = r, SoloAt(pollers[p]) PROVE SoloAt(pollers[p])'
  <2>0. UNCHANGED <<frameBuffer, hands, lastFrame, shown, age>>
    BY <1>1 DEF frameVars
  <2>1. ~shown /\ pollers[p].msg.frame = lastFrame
    BY <1>1, <1>2 DEF SoloAt, Shows, FrameInHand
  <2>2. FrameInHand(pollers[p])' /\ PrefixFresh'
    BY <1>1, <1>2, <2>0, <2>1 DEF FrameInHand, PrefixFresh
  <2>3. Lead(pollers[p]) = 0 /\ Lead(pollers'[p]) = 0 /\ \A i : ~Owed(i, pollers[p])
    BY <1>1, <1>2 DEF Lead, Owed
  <2>4. \A i \in 1 .. hands'.size : age'[i] < FrameCount
    BY <1>2, <2>0, <2>3 DEF SoloAt
  <2>5. Reaches(0)'
    BY <1>2, <2>0, <2>3 DEF SoloAt, Reaches
  <2>6. QED
    BY <2>2, <2>3, <2>4, <2>5 DEF SoloAt
<1>3. QED
  BY <1>1, <1>2, SoloKept DEF FrameInv, frameVars

\* The place the frame takes is the oldest: no entry is so old that it would
\* have to be in that frame.
LEMMA AddKeepsFrames ==
    ASSUME Inv, FrameInv, NEW p \in DOMAIN pollers, OnFrameAdd(p) PROVE FrameInv'
<1> USE Bounds
<1> DEFINE n == Len(pollers[p].msg.frame)
           r == Thread("advancing", pollers[p].conn, pollers[p].msg, 0, pollers[p].i)
<1>1. /\ frameBuffer' = CB!Write(frameBuffer, pollers[p].i, n)
      /\ UNCHANGED <<hands, lastFrame, shown, age>> /\ Goto(p, r)
      /\ pollers[p].pc = "adding" /\ "adding" \in OnFramePC
      /\ r.pc = "advancing" /\ r.msg = pollers[p].msg /\ r.i = pollers[p].i
  BY DEF OnFrameAdd, Continue, Thread, At, OnFramePC
<1>2. frameBuffer.size = FrameCount /\ n \in 0 .. MaxHands
  BY <1>1, InOnFrame
<1>3. /\ frameBuffer \in CB!Buffer(FrameCount) /\ frameBuffer.tail \in 0 .. FrameCount - 1
      /\ DOMAIN frameBuffer.slots = 0 .. FrameCount - 1
      /\ \A k \in 0 .. FrameCount - 1 : Since(frameBuffer.tail, k) \in 0 .. FrameCount - 1
      /\ Since(frameBuffer.tail, frameBuffer.tail) = FrameCount - 1
  BY <1>2, RingPlaces
<1>4. pollers[p].i \in 0 .. FrameCount - 1
  BY <1>1 DEF Inv, RoomInv
<1>5. /\ frameBuffer'.tail = frameBuffer.tail /\ frameBuffer'.size = frameBuffer.size
      /\ DOMAIN frameBuffer'.slots = 0 .. FrameCount - 1
      /\ \A k \in 0 .. FrameCount - 1 :
           frameBuffer'.slots[k] = IF k = pollers[p].i THEN n ELSE frameBuffer.slots[k]
  BY <1>1, <1>2, <1>3, <1>4 DEF CB!Write, CB!Buffer
<1> HIDE DEF r, n
<1>6. ASSUME pollers'[p] = r, SoloAt(pollers[p]) PROVE SoloAt(pollers[p])'
  <2>1. /\ ~shown /\ pollers[p].msg.frame = lastFrame /\ pollers[p].i = frameBuffer.tail
        /\ n = Len(lastFrame)
    BY <1>1, <1>6, SoloInOnFrame DEF FrameInHand, n
  <2>2. PrefixFresh'
    BY <1>1, <2>1 DEF PrefixFresh
  <2>3. FrameInHand(pollers[p])'
    BY <1>1, <1>3, <1>5, <1>6, <2>1 DEF FrameInHand
  <2>4. Lead(pollers[p]) = 0 /\ Lead(pollers'[p]) = 0 /\ \A i : ~Owed(i, pollers[p])
    BY <1>1, <1>6 DEF Lead, Owed
  <2>5. \A i \in 1 .. hands.size : age[i] < FrameCount
    BY <1>6, <2>4 DEF SoloAt
  <2>6. Reaches(0)'
    <3> SUFFICES ASSUME NEW i \in 1 .. hands.size, NEW k \in 0 .. FrameCount - 1,
                        Since(frameBuffer.tail, k) < age[i] + 0
                 PROVE  i <= frameBuffer'.slots[k]
      BY <1>1, <1>5 DEF Reaches
    <3>1. age[i] \in Nat
      <4>1. age \in [1 .. MaxHands -> 0 .. FrameCount] /\ hands.size \in 0 .. MaxHands
        BY DEF Inv, WrapperTypeOK, Hands
      <4>2. QED
        BY <4>1
    <3>2. k # frameBuffer.tail
      BY <1>3, <2>5, <3>1
    <3>3. Reaches(0)
      BY <1>6, <2>4 DEF SoloAt
    <3>4. i <= frameBuffer.slots[k]
      BY <1>3, <3>1, <3>3 DEF Reaches
    <3>5. QED
      BY <1>5, <2>1, <3>2, <3>4
  <2>7. QED
    BY <1>1, <2>2, <2>3, <2>4, <2>5, <2>6 DEF SoloAt
<1>7. QED
  BY <1>1, <1>2, <1>5, <1>6, SoloKept

LEMMA AdvanceKeepsFrames ==
    ASSUME Inv, FrameInv, NEW p \in DOMAIN pollers, OnFrameAdvance(p) PROVE FrameInv'
<1> USE Bounds
<1> DEFINE r == Thread("reading", pollers[p].conn, pollers[p].msg, 0, frameBuffer'.tail)
<1>1. /\ frameBuffer' = CB!UpdateHeadTail(frameBuffer, pollers[p].i)
      /\ UNCHANGED <<hands, lastFrame, shown, age>> /\ Goto(p, r)
      /\ pollers[p].pc = "advancing" /\ "advancing" \in OnFramePC
      /\ r.pc = "reading" /\ r.msg = pollers[p].msg /\ r.i = frameBuffer'.tail
  BY DEF OnFrameAdvance, Continue, Thread, At, OnFramePC
<1>2. frameBuffer.size = FrameCount /\ frameBuffer \in CB!Buffer(FrameCount)
  BY <1>1, InOnFrame
<1>3. /\ frameBuffer.tail \in 0 .. FrameCount - 1
      /\ DOMAIN frameBuffer.slots = 0 .. FrameCount - 1
  BY <1>2, RingPlaces
<1>4. pollers[p].i \in 0 .. FrameCount - 1
  BY <1>1 DEF Inv, RoomInv
<1>5. /\ frameBuffer'.tail = IF pollers[p].i + 1 = FrameCount THEN 0 ELSE pollers[p].i + 1
      /\ frameBuffer'.size = frameBuffer.size /\ frameBuffer'.slots = frameBuffer.slots
  BY <1>1, <1>2, <1>4, UpdateType
<1> HIDE DEF r
<1>6. ASSUME pollers'[p] = r, SoloAt(pollers[p]) PROVE SoloAt(pollers[p])'
  <2>1. /\ ~shown /\ pollers[p].msg.frame = lastFrame /\ pollers[p].i = frameBuffer.tail
        /\ frameBuffer.slots[frameBuffer.tail] = Len(lastFrame)
    BY <1>1, <1>6, SoloInOnFrame DEF FrameInHand
  <2>2. \A k \in 0 .. FrameCount - 1 :
          /\ Since(frameBuffer'.tail, k) \in 0 .. FrameCount - 1
          /\ k # frameBuffer.tail =>
               /\ Since(frameBuffer.tail, k) \in 0 .. FrameCount - 1
               /\ Since(frameBuffer'.tail, k) = Since(frameBuffer.tail, k) + 1
    BY <1>3, <1>5, <2>1, RingTurns
  <2>3. PrefixFresh'
    BY <1>1, <2>1 DEF PrefixFresh
  <2>4. \A k \in DOMAIN frameBuffer'.slots :
          Since(frameBuffer'.tail, k) = 0 => frameBuffer'.slots[k] = Len(lastFrame')
    BY <1>1, <1>3, <1>5, <2>1, <2>2
  <2>5. FrameInHand(pollers[p])'
    BY <1>1, <1>6, <2>1, <2>4 DEF FrameInHand
  <2>6. Lead(pollers[p]) = 0 /\ Lead(pollers'[p]) = 1 /\ \A i : ~Owed(i, pollers[p])
    BY <1>1, <1>6 DEF Lead, Owed
  <2>7. \A i \in 1 .. hands.size : age[i] < FrameCount
    BY <1>6, <2>6 DEF SoloAt
  <2>8. Reaches(1)'
    <3> SUFFICES ASSUME NEW i \in 1 .. hands.size, NEW k \in 0 .. FrameCount - 1,
                        1 <= Since(frameBuffer'.tail, k), Since(frameBuffer'.tail, k) < age[i] + 1
                 PROVE  i <= frameBuffer.slots[k]
      BY <1>1, <1>3, <1>5 DEF Reaches
    <3>0. age[i] \in Nat
      <4>1. age \in [1 .. MaxHands -> 0 .. FrameCount] /\ hands.size \in 0 .. MaxHands
        BY DEF Inv, WrapperTypeOK, Hands
      <4>2. QED
        BY <4>1
    <3>1. CASE k = frameBuffer.tail
      <4>1. Since(frameBuffer'.tail, frameBuffer.tail) = 0
        BY <1>3, <1>5, <2>1 DEF Since
      <4>2. QED
        BY <3>1, <4>1
    <3>2. CASE k # frameBuffer.tail
      <4>1. Reaches(0)
        BY <1>6, <2>6 DEF SoloAt
      <4>2. 0 <= Since(frameBuffer.tail, k) /\ Since(frameBuffer.tail, k) < age[i] + 0
        BY <2>2, <3>0, <3>2
      <4>3. QED
        BY <1>3, <4>1, <4>2 DEF Reaches
    <3>3. QED
      BY <3>1, <3>2
  <2>9. QED
    BY <1>1, <2>3, <2>5, <2>6, <2>7, <2>8 DEF SoloAt
<1>7. QED
  BY <1>1, <1>2, <1>5, <1>6, SoloKept

LEMMA BackKeepsFrames ==
    ASSUME Inv, FrameInv, NEW p \in DOMAIN pollers, OnFrameBack(p) PROVE FrameInv'
<1> DEFINE r == Thread("sizing", pollers[p].conn, pollers[p].msg, frameBuffer.slots[pollers[p].i], 0)
<1>1. /\ UNCHANGED frameVars /\ Goto(p, r)
      /\ pollers[p].pc = "reading" /\ "reading" \in OnFramePC
      /\ r.pc = "sizing" /\ r.msg = pollers[p].msg /\ r.cur = frameBuffer.slots[pollers[p].i]
  BY DEF OnFrameBack, Continue, Thread, At, OnFramePC
<1>2. frameBuffer.size # 0
  BY <1>1, InOnFrame, Bounds
<1>3. CB!Back(frameBuffer) = frameBuffer.slots[frameBuffer.tail]
  BY <1>2, RingPlaces
<1> HIDE DEF r
<1>4. ASSUME pollers'[p] = r, SoloAt(pollers[p]) PROVE SoloAt(pollers[p])'
  <2>0. UNCHANGED <<frameBuffer, hands, lastFrame, shown, age>> /\ CB!Back(frameBuffer)' = CB!Back(frameBuffer)
    BY <1>1 DEF frameVars, CB!Back
  <2>1. /\ ~shown /\ pollers[p].msg.frame = lastFrame /\ pollers[p].i = frameBuffer.tail
        /\ \A k \in DOMAIN frameBuffer.slots :
             Since(frameBuffer.tail, k) = 0 => frameBuffer.slots[k] = Len(lastFrame)
    BY <1>1, <1>4, SoloInOnFrame DEF FrameInHand
  <2>2. FrameInHand(pollers[p])' /\ PrefixFresh'
    BY <1>1, <1>3, <1>4, <2>0, <2>1 DEF FrameInHand, PrefixFresh
  <2>3. Lead(pollers[p]) = 1 /\ Lead(pollers'[p]) = 1 /\ \A i : ~Owed(i, pollers[p])
    BY <1>1, <1>4 DEF Lead, Owed
  <2>4. \A i \in 1 .. hands'.size : age'[i] < FrameCount
    BY <1>4, <2>0, <2>3 DEF SoloAt
  <2>5. Reaches(1)'
    BY <1>4, <2>0, <2>3 DEF SoloAt, Reaches
  <2>6. QED
    BY <2>2, <2>3, <2>4, <2>5 DEF SoloAt
<1>5. QED
  BY <1>1, <1>2, <1>4, SoloKept DEF FrameInv, frameVars

\* onFrame up to its loop: an entry that would be as old as the ring was in
\* each of its frames, the oldest too, so the loop that follows reaches it.
LEMMA ResizeKeepsFrames ==
    ASSUME Inv, FrameInv, NEW p \in DOMAIN pollers, OnFrameResize(p) PROVE FrameInv'
<1> USE Bounds
<1> DEFINE f == pollers[p].msg.frame
           n == Len(f)
           cur == pollers[p].cur
           copying == Thread("copying", pollers[p].conn, pollers[p].msg, cur, 1)
           clearing == Thread("clearing", pollers[p].conn, pollers[p].msg, 0, 0)
<1>1. /\ hands' = Resize(hands, n) /\ age' = Older(n) /\ UNCHANGED <<frameBuffer, lastFrame>>
      /\ \/ n = 0 /\ Goto(p, clearing) /\ UNCHANGED shown
         \/ n > 0 /\ cur > 0 /\ Goto(p, copying) /\ UNCHANGED shown
         \/ n > 0 /\ cur = 0 /\ Goto(p, AtCheck) /\ shown' = TRUE
      /\ pollers[p].pc = "sizing" /\ "sizing" \in OnFramePC
      /\ copying.pc = "copying" /\ copying.msg = pollers[p].msg /\ copying.cur = cur /\ copying.i = 1
      /\ clearing.pc = "clearing" /\ clearing.msg = pollers[p].msg
  BY DEF OnFrameResize, Continue, Thread, At, OnFramePC
<1>2. frameBuffer.size = FrameCount /\ f \in Frame /\ n \in 0 .. MaxHands /\ f \in Seq(Hand)
  BY <1>1, InOnFrame, FrameAssumption
<1>3. /\ frameBuffer.tail \in 0 .. FrameCount - 1
      /\ DOMAIN frameBuffer.slots = 0 .. FrameCount - 1
      /\ \A k \in 0 .. FrameCount - 1 :
           frameBuffer.slots[k] \in Nat /\ Since(frameBuffer.tail, k) \in 0 .. FrameCount - 1
      /\ Since(frameBuffer.tail, frameBuffer.tail) = FrameCount - 1
      /\ CB!Back(frameBuffer) = frameBuffer.slots[frameBuffer.tail]
  BY <1>2, RingPlaces
<1>4. /\ hands \in Hands /\ hands.size \in 0 .. MaxHands
      /\ age \in [1 .. MaxHands -> 0 .. FrameCount]
      /\ cur \in Nat /\ pollers \in Seq(Poller)
  BY ThreadType DEF Inv, WrapperTypeOK, Hands
<1>5. hands'.size = n
  BY <1>1, <1>2, <1>4, ResizeType
<1>6. PICK r : Goto(p, r)
  BY <1>1
<1> HIDE DEF f, n, cur, copying, clearing
<1>7. \A i \in 1 .. n :
        /\ age'[i] \in 0 .. FrameCount
        /\ i > hands.size => age'[i] = 1
        /\ i <= hands.size => age[i] \in Nat /\ age'[i] <= age[i] + 1
  <2> SUFFICES ASSUME NEW i \in 1 .. n
               PROVE  /\ age'[i] \in 0 .. FrameCount
                      /\ i > hands.size => age'[i] = 1
                      /\ i <= hands.size => age[i] \in Nat /\ age'[i] <= age[i] + 1
    OBVIOUS
  <2>1. i \in 1 .. MaxHands /\ hands.size \in Nat /\ age[i] \in 0 .. FrameCount
    BY <1>2, <1>4
  <2>2. age'[i] = IF i > hands.size THEN 1 ELSE IF age[i] < FrameCount THEN age[i] + 1 ELSE FrameCount
    BY <1>1, <1>2, <2>1 DEF Older
  <2>3. QED
    BY <2>1, <2>2
<1>8. ASSUME pollers'[p] = r, SoloAt(pollers[p]) PROVE SoloAt(pollers[p])'
  <2>1. /\ ~shown /\ f = lastFrame /\ n = Len(lastFrame) /\ cur = CB!Back(frameBuffer)
        /\ \A k \in 0 .. FrameCount - 1 :
             Since(frameBuffer.tail, k) = 0 => frameBuffer.slots[k] = n
        /\ Reaches(1)
    BY <1>1, <1>3, <1>8, SoloInOnFrame DEF FrameInHand, Lead, f, n, cur
  <2>2. \A i \in 1 .. n : \A k \in 0 .. FrameCount - 1 :
          Since(frameBuffer.tail, k) < age'[i] => i <= frameBuffer.slots[k]
    <3> SUFFICES ASSUME NEW i \in 1 .. n, NEW k \in 0 .. FrameCount - 1,
                        Since(frameBuffer.tail, k) < age'[i]
                 PROVE  i <= frameBuffer.slots[k]
      OBVIOUS
    <3>1. Since(frameBuffer.tail, k) \in Nat /\ age'[i] \in Nat /\ n \in Nat /\ hands.size \in Nat
      BY <1>2, <1>3, <1>4, <1>7
    <3>2. CASE Since(frameBuffer.tail, k) = 0
      BY <2>1, <3>1, <3>2
    <3>3. CASE Since(frameBuffer.tail, k) # 0
      <4>1. i <= hands.size /\ age[i] \in Nat /\ age'[i] <= age[i] + 1
        BY <1>7, <3>1, <3>3
      <4>2. i \in 1 .. hands.size /\ Since(frameBuffer.tail, k) < age[i] + 1
        BY <3>1, <4>1
      <4>3. 1 <= Since(frameBuffer.tail, k) /\ k \in DOMAIN frameBuffer.slots
        BY <1>3, <3>1, <3>3
      <4>4. QED
        BY <2>1, <4>2, <4>3 DEF Reaches
    <3>4. QED
      BY <3>2, <3>3
  <2>3. Reaches(0)'
    <3> SUFFICES ASSUME NEW i \in 1 .. n, NEW k \in 0 .. FrameCount - 1,
                        Since(frameBuffer.tail, k) < age'[i] + 0
                 PROVE  i <= frameBuffer.slots[k]
      BY <1>1, <1>3, <1>5 DEF Reaches
    <3>1. Since(frameBuffer.tail, k) < age'[i]
      BY <1>7
    <3>2. QED
      BY <2>2, <3>1
  <2>4. \A i \in 1 .. n : age'[i] < FrameCount \/ i \in 1 .. cur
    <3> SUFFICES ASSUME NEW i \in 1 .. n, ~(age'[i] < FrameCount) PROVE i \in 1 .. cur
      OBVIOUS
    <3>a. age'[i] = FrameCount
      <4>1. age'[i] \in 0 .. FrameCount
        BY <1>7
      <4>2. QED
        BY <4>1
    <3>b. FrameCount - 1 < FrameCount
      OBVIOUS
    <3>1. Since(frameBuffer.tail, frameBuffer.tail) < age'[i]
      BY <1>3, <3>a, <3>b
    <3>2. i <= cur
      BY <1>3, <2>1, <2>2, <3>1
    <3>3. QED
      BY <1>2, <1>4, <3>2
  <2>5. DOMAIN lastFrame = 1 .. n /\ CB!Back(frameBuffer)' = cur /\ UNCHANGED <<frameBuffer, lastFrame>>
        /\ hands'.size = Len(lastFrame')
    BY <1>1, <1>2, <1>5, <2>1 DEF n, CB!Back
  <2>6. pollers'[p] \in {copying, clearing, AtCheck}
    BY <1>1, <1>4, OnlyThread
  <2>7. Lead(pollers'[p]) = 0
    BY <1>1, <2>6, NothingInHand DEF Lead
  <2>8. CASE n = 0 /\ Goto(p, clearing) /\ UNCHANGED shown
    <3>1. pollers'[p] = clearing
      BY <1>4, <2>8, OnlyThread
    <3>2. FrameInHand(pollers[p])'
      BY <1>1, <2>1, <2>5, <2>8, <3>1 DEF FrameInHand, f
    <3>3. PrefixFresh'
      BY <2>1, <2>8 DEF PrefixFresh
    <3>4. \A i \in 1 .. hands'.size : FALSE
      BY <1>5, <2>8
    <3>5. QED
      BY <2>3, <2>7, <3>2, <3>3, <3>4 DEF SoloAt
  <2>9. CASE n > 0 /\ cur > 0 /\ Goto(p, copying) /\ UNCHANGED shown
    <3>1. pollers'[p] = copying
      BY <1>4, <2>9, OnlyThread
    <3>2. copying.i \in 1 .. copying.cur /\ \A k \in DOMAIN lastFrame' : ~(k < copying.i)
      BY <1>1, <1>2, <1>4, <2>5, <2>9
    <3>3. FrameInHand(pollers[p])'
      BY <1>1, <2>1, <2>5, <2>9, <3>1, <3>2 DEF FrameInHand, f
    <3>4. PrefixFresh'
      BY <2>1, <2>9 DEF PrefixFresh
    <3>5. \A i \in 1 .. hands'.size : age'[i] < FrameCount \/ Owed(i, pollers'[p])
      BY <1>1, <1>5, <2>4, <3>1 DEF Owed
    <3>6. QED
      BY <2>3, <2>7, <3>3, <3>4, <3>5 DEF SoloAt
  <2>10. CASE n > 0 /\ cur = 0 /\ Goto(p, AtCheck) /\ shown' = TRUE
    <3>1. pollers'[p] = AtCheck
      BY <1>4, <2>10, OnlyThread
    <3>2. \A i \in DOMAIN lastFrame' : ~(i <= CB!Back(frameBuffer)')
      BY <1>2, <2>5, <2>10
    <3>3. PrefixFresh'
      BY <2>5, <3>2 DEF PrefixFresh
    <3>4. \A i \in 1 .. hands'.size : age'[i] < FrameCount
      BY <1>5, <2>4, <2>10
    <3>5. QED
      BY <2>3, <2>7, <3>1, <3>3, <3>4, NothingInHand DEF SoloAt
  <2>11. QED
    BY <1>1, <2>8, <2>9, <2>10
<1>9. frameBuffer'.size # 0
  BY <1>1, <1>2
<1>10. QED
  BY <1>6, <1>8, <1>9, SoloKept

LEMMA ClearKeepsFrames ==
    ASSUME Inv, FrameInv, NEW p \in DOMAIN pollers, OnFrameClear(p) PROVE FrameInv'
<1> USE Bounds
<1>1. /\ hands' = Resize(hands, 0) /\ shown' /\ UNCHANGED <<frameBuffer, lastFrame>>
      /\ Goto(p, AtCheck) /\ pollers[p].pc = "clearing" /\ "clearing" \in OnFramePC
  BY DEF OnFrameClear, At, OnFramePC
<1>2. frameBuffer.size = FrameCount
  BY <1>1, InOnFrame
<1>3. hands'.size = 0
  BY <1>1, ResizeType DEF Inv, WrapperTypeOK
<1>4. ASSUME pollers'[p] = AtCheck, SoloAt(pollers[p]) PROVE SoloAt(pollers[p])'
  <2>1. Len(lastFrame) = 0 /\ lastFrame \in Seq(Hand)
    BY <1>1, <1>4, SoloInOnFrame, FrameAssumption DEF FrameInHand, Inv, WrapperTypeOK
  <2>2. DOMAIN lastFrame = {}
    BY <2>1
  <2>3. PrefixFresh'
    BY <1>1, <1>3, <2>1, <2>2 DEF PrefixFresh
  <2>4. \A i \in 1 .. hands'.size : FALSE
    BY <1>3
  <2>5. Reaches(Lead(pollers[p]))'
    BY <2>4 DEF Reaches
  <2>6. QED
    BY <1>4, <2>3, <2>4, <2>5, NothingInHand DEF SoloAt
<1>5. QED
  BY <1>1, <1>2, <1>4, SoloKept

\* A turn of the copy loop pays what is owed, in the order of the places.
LEMMA CopyKeepsFrames ==
    ASSUME Inv, FrameInv, NEW p \in DOMAIN pollers, OnFrameCopy(p) PROVE FrameInv'
<1> USE Bounds
<1> DEFINE r == pollers[p]
           next == [r EXCEPT !.i = r.i + 1]
<1>0. /\ pollers \in Seq(Poller) /\ r \in Poller /\ hands \in Hands
      /\ age \in [1 .. MaxHands -> 0 .. FrameCount] /\ frameBuffer.tail \in Nat
      /\ lastFrame \in Seq(Hand)
      /\ r.pc = "copying" /\ "copying" \in OnFramePC /\ r.cur \in Nat /\ r.i \in Nat
  <2>1. /\ pollers \in Seq(Poller) /\ r \in Poller /\ r.pc = "copying" /\ "copying" \in OnFramePC
        /\ r.cur \in Nat /\ r.i \in Nat
    BY ThreadType DEF Inv, WrapperTypeOK, OnFrameCopy, At, OnFramePC
  <2>2. hands \in Hands /\ age \in [1 .. MaxHands -> 0 .. FrameCount]
    BY DEF Inv, WrapperTypeOK
  <2>3. frameBuffer.tail \in Nat
    BY DEF Inv, WrapperTypeOK, CB!Buffer
  <2>4. lastFrame \in Seq(Hand)
    BY FrameAssumption DEF Inv, WrapperTypeOK
  <2>5. QED
    BY <2>1, <2>2, <2>3, <2>4
<1>1. PICK v \in (IF r.i \in DOMAIN r.msg.frame THEN {r.msg.frame[r.i]} ELSE Hand) :
        hands' = [hands EXCEPT !.data[r.i] = v]
  BY DEF OnFrameCopy
<1>2. /\ Goto(p, IF CopiesMore(r) THEN next ELSE AtCheck)
      /\ shown' = (shown \/ ~CopiesMore(r)) /\ age' = [age EXCEPT ![r.i] = 0]
      /\ UNCHANGED <<frameBuffer, lastFrame>>
  BY DEF OnFrameCopy
<1>3. /\ hands'.size = hands.size /\ hands.size \in 0 .. MaxHands
      /\ \A k \in 1 .. MaxHands : hands'.data[k] = IF k = r.i THEN v ELSE hands.data[k]
  BY <1>0, <1>1 DEF Hands
<1>4. \A i \in 1 .. hands.size : age[i] \in Nat /\ age'[i] = IF i = r.i THEN 0 ELSE age[i]
  BY <1>0, <1>2, <1>3
<1>5. next.pc = "copying" /\ next.msg = r.msg /\ next.cur = r.cur /\ next.i = r.i + 1
  BY <1>0 DEF Poller
<1>6. frameBuffer.size = FrameCount
  BY <1>0, InOnFrame
<1>7. \A k \in DOMAIN frameBuffer.slots : Since(frameBuffer.tail, k) \in Nat
  BY <1>6, RingPlaces
<1>8. PICK s : s = (IF CopiesMore(r) THEN next ELSE AtCheck)
  OBVIOUS
<1> HIDE DEF next
<1>9. ASSUME pollers'[p] = s, SoloAt(r) PROVE SoloAt(pollers[p])'
  <2>1. /\ ~shown /\ r.msg.frame = lastFrame /\ hands.size = Len(lastFrame)
        /\ r.cur = CB!Back(frameBuffer) /\ r.i \in 1 .. r.cur
        /\ \A k \in DOMAIN lastFrame : k < r.i => hands.data[k] = lastFrame[k]
        /\ \A i \in 1 .. hands.size : age[i] < FrameCount \/ Owed(i, r)
    BY <1>0, <1>9, SoloInOnFrame DEF FrameInHand
  <2>2. Reaches(0)
    BY <1>0, <1>9 DEF SoloAt, Lead
  <2>3. Lead(pollers'[p]) = 0
    BY <1>5, <1>8, <1>9, NothingInHand DEF Lead
  <2> HIDE DEF r
  <2>4. /\ CB!Back(frameBuffer)' = r.cur /\ DOMAIN lastFrame' = DOMAIN lastFrame
        /\ DOMAIN lastFrame \subseteq 1 .. MaxHands
    BY <1>0, <1>2, <1>3, <2>1 DEF CB!Back
  <2>5. \A k \in DOMAIN lastFrame : k <= r.i => hands'.data[k] = lastFrame'[k]
    <3> SUFFICES ASSUME NEW k \in DOMAIN lastFrame, k <= r.i PROVE hands'.data[k] = lastFrame[k]
      BY <1>2
    <3>1. CASE k = r.i
      <4>1. v = r.msg.frame[r.i]
        BY <1>1, <2>1, <3>1
      <4>2. QED
        BY <1>3, <2>1, <2>4, <3>1, <4>1
    <3>2. CASE k # r.i
      <4>1. k \in 1 .. MaxHands /\ k < r.i
        BY <1>0, <2>4, <3>2
      <4>2. QED
        BY <1>3, <2>1, <3>2, <4>1
    <3>3. QED
      BY <3>1, <3>2
  <2>6. CopiesMore(r) <=> r.i < r.cur
    BY DEF CopiesMore
  <2>7. PrefixFresh'
    <3> SUFFICES ASSUME shown' PROVE PrefixFresh'
      BY DEF PrefixFresh
    <3>1. r.i = r.cur
      <4>1. ~CopiesMore(r)
        BY <1>2, <2>1
      <4>2. QED
        BY <1>0, <2>1, <2>6, <4>1
    <3>2. \A i \in DOMAIN lastFrame' : i <= CB!Back(frameBuffer)' => hands'.data[i] = lastFrame'[i]
      <4>1. \A i \in DOMAIN lastFrame : i <= r.i => hands'.data[i] = lastFrame'[i]
        BY <2>5
      <4>2. QED
        BY <2>4, <3>1, <4>1
    <3>3. hands'.size = Len(lastFrame')
      BY <1>2, <1>3, <2>1
    <3>4. QED
      BY <3>2, <3>3 DEF PrefixFresh
  <2>8. Shows(pollers'[p]) => FrameInHand(pollers[p])'
    <3> SUFFICES ASSUME CopiesMore(r) PROVE FrameInHand(pollers[p])'
      BY <1>8, <1>9, NothingInHand
    <3>1. /\ pollers'[p] = next /\ next.i = r.i + 1 /\ next.cur = r.cur /\ next.msg = r.msg
          /\ next.pc = "copying"
      BY <1>5, <1>8, <1>9
    <3>2. ~shown' /\ next.msg.frame = lastFrame'
      BY <1>2, <2>1, <3>1
    <3>3. hands'.size = Len(lastFrame') /\ next.cur = CB!Back(frameBuffer)'
      BY <1>2, <1>3, <2>1, <2>4, <3>1
    <3>4. next.i \in 1 .. next.cur
      BY <1>0, <2>1, <2>6, <3>1
    <3>5. \A k \in DOMAIN lastFrame' : k < next.i => hands'.data[k] = lastFrame'[k]
      BY <1>0, <2>4, <2>5, <3>1
    <3>6. QED
      BY <3>1, <3>2, <3>3, <3>4, <3>5 DEF FrameInHand
  <2>9. \A i \in 1 .. hands'.size : age'[i] < FrameCount \/ Owed(i, pollers'[p])
    <3> SUFFICES ASSUME NEW i \in 1 .. hands.size, ~(age'[i] < FrameCount)
                 PROVE  Owed(i, pollers'[p])
      BY <1>3
    <3>1. i # r.i /\ ~(age[i] < FrameCount)
      BY <1>4
    <3>2. i \in r.i .. r.cur
      BY <2>1, <3>1 DEF Owed
    <3>3. CopiesMore(r) /\ i \in r.i + 1 .. r.cur
      BY <1>0, <2>6, <3>1, <3>2
    <3>4. QED
      BY <1>5, <1>8, <1>9, <3>3 DEF Owed
  <2>10. Reaches(0)'
    <3> SUFFICES ASSUME NEW i \in 1 .. hands.size, NEW k \in DOMAIN frameBuffer.slots,
                        0 <= Since(frameBuffer.tail, k), Since(frameBuffer.tail, k) < age'[i] + 0
                 PROVE  i <= frameBuffer.slots[k]
      BY <1>2, <1>3 DEF Reaches
    <3>1. i # r.i
      BY <1>4, <1>7
    <3>2. Since(frameBuffer.tail, k) < age[i] + 0
      BY <1>4, <3>1
    <3>3. QED
      BY <2>2, <3>2 DEF Reaches
  <2>11. QED
    BY <2>3, <2>7, <2>8, <2>9, <2>10 DEF SoloAt
<1>10. QED
  BY <1>2, <1>6, <1>8, <1>9, SoloKept

\* With one thread m_tail is what the thread left in it.
LEMMA ReloadKeepsFrames ==
    ASSUME Inv, FrameInv, NEW p \in DOMAIN pollers, OnFrameReload(p) PROVE FrameInv'
<1>1. /\ UNCHANGED frameVars /\ pollers[p].pc \in {"advancing", "reading"}
      /\ frameBuffer.tail # pollers[p].i
  BY ReloadMoves
<1>2. PICK r : Goto(p, r)
  BY DEF OnFrameReload, Continue
<1>3. ~SoloAt(pollers[p])
  BY <1>1 DEF SoloAt, Shows, OnFramePC, FrameInHand
<1>4. QED
  BY <1>1, <1>2, <1>3, SoloKept DEF FrameInv, frameVars

LEMMA PollerKeepsFrames ==
    ASSUME Inv, FrameInv, NEW p \in DOMAIN pollers, PollerStep(p) PROVE FrameInv'
<1> USE DEF At
<1>1. ASSUME NEW r, Goto(p, r), ~Shows(r), UNCHANGED frameVars, pollers[p].pc \notin OnFramePC
      PROVE  FrameInv'
  BY <1>1, GotoLeavesFrames
<1>2. /\ ~Shows(AtCheck)
      /\ \A c, m, j, k : ~Shows(Thread("polling", c, m, j, k)) /\ ~Shows(Thread("done", c, m, j, k))
                         /\ ~Shows(Thread("dispatch", c, m, j, k))
  BY NothingInHand DEF Shows, Thread, OnFramePC
<1>3. CASE PollerCheck(p)
  BY <1>1, <1>2, <1>3 DEF PollerCheck, OnFramePC
<1>4. CASE PollerNoMessage(p) \/ DispatchUnknown(p) \/ CallLogger(p) \/ DispatchDevice(p)
  BY <1>1, <1>2, <1>4 DEF PollerNoMessage, DispatchUnknown, CallLogger, DispatchDevice, OnFramePC
<1>5. CASE PollerLinkEvent(p) \/ PollerData(p)
  BY <1>1, <1>2, <1>5 DEF PollerLinkEvent, PollerData, Receive, OnFramePC
<1>6. CASE DispatchLinkEvent(p)
  <2> DEFINE r == Thread("calling", pollers[p].conn, pollers[p].msg, 0, 0)
  <2>1. /\ pollers[p].pc = "dispatch" /\ pollers[p].msg.type # "Tracking" /\ UNCHANGED frameVars
        /\ Goto(p, AtCheck) \/ Goto(p, r)
    BY <1>6 DEF DispatchLinkEvent, Continue
  <2>2. ~Shows(r)
    BY <2>1 DEF Shows, Thread, OnFramePC
  <2> HIDE DEF r
  <2>3. pollers[p].pc \notin OnFramePC
    BY <2>1 DEF OnFramePC
  <2>4. QED
    BY <1>1, <1>2, <2>1, <2>2, <2>3
<1>7. CASE CallEmpty(p) \/ OnFrameUnsized(p) \/ OnFrameHeapRace(p) \/ OnFrameWildRead(p)
           \/ OnFrameWildWrite(p)
  BY <1>7, FramesLeftAlone DEF CallEmpty, OnFrameUnsized, OnFrameHeapRace, OnFrameWildRead,
                               OnFrameWildWrite
<1>8. QED
  BY <1>3, <1>4, <1>5, <1>6, <1>7, DispatchKeepsFrames, BeginKeepsFrames, AddKeepsFrames,
     AdvanceKeepsFrames, BackKeepsFrames, ResizeKeepsFrames, ClearKeepsFrames, CopyKeepsFrames
     DEF PollerStep

\* The client gives the ring its size when no frame has been shown yet, and
\* starts the first thread with nothing in hand.
LEMMA ClientKeepsFrames ==
    ASSUME Inv, FrameInv, ClientStep PROVE FrameInv'
<1> USE Bounds
<1>0. pollers \in Seq(Poller) /\ reg \in 0 .. RegDone
  BY DEF Inv, WrapperTypeOK
<1>1. CASE ConnectAborts \/ ConnectCreate \/ ConnectOpen \/ ConnectProbeNothing \/ ConnectProbeDevice
           \/ DisconnectBegin \/ DisconnectClose
  <2>1. UNCHANGED <<pollers, frameVars>>
    BY <1>1 DEF ConnectAborts, ConnectCreate, ConnectOpen, ConnectProbeNothing, ConnectProbeDevice,
                DisconnectBegin, DisconnectClose
  <2>2. QED
    BY <2>1, FramesLeftAlone
<1>2. CASE ConnectFetch
  <2>0. UNCHANGED frameVars
    BY <1>2 DEF ConnectFetch
  <2>1. CASE UNCHANGED pollers
    BY <2>0, <2>1, FramesLeftAlone
  <2>2. CASE pollers' = Append(pollers, AtCheck)
    <3>1. /\ Append(pollers, AtCheck) \in Seq(Poller)
          /\ Len(Append(pollers, AtCheck)) = Len(pollers) + 1
          /\ Append(pollers, AtCheck)[Len(pollers) + 1] = AtCheck
      BY <1>0, ThreadIsPoller, AppendProperties
    <3>2. Len(pollers') # 0 /\ (Len(pollers') = 1 => Len(pollers) = 0 /\ pollers'[1] = AtCheck)
      BY <1>0, <2>2, <3>1
    <3>3. UNCHANGED <<frameBuffer, hands, lastFrame, shown, age>>
      BY <2>0 DEF frameVars
    <3>4. ASSUME Len(pollers') = 1, NEW p \in DOMAIN pollers' PROVE SoloAt(pollers[p])'
      <4>1. pollers'[p] = AtCheck
        BY <2>2, <3>1, <3>2, <3>4
      <4>2. PrefixFresh /\ (\A i \in 1 .. hands.size : age[i] < FrameCount) /\ Reaches(0)
        BY <3>2, <3>4, NothingInHand DEF FrameInv, SoloAt
      <4>3. PrefixFresh' /\ (\A i \in 1 .. hands'.size : age'[i] < FrameCount) /\ Reaches(0)'
        BY <3>3, <4>2 DEF PrefixFresh, CB!Back, Reaches
      <4>4. QED
        BY <4>1, <4>3, NothingInHand DEF SoloAt
    <3>5. QED
      BY <3>2, <3>3, <3>4 DEF FrameInv
  <2>3. QED
    BY <1>2, <2>1, <2>2 DEF ConnectFetch
<1>3. CASE Initialize
  <2>1. reg < RegDone /\ UNCHANGED <<pollers, hands, lastFrame, shown, age>>
    BY <1>0, <1>3, RegDoneIsNine DEF Initialize, Inv, CallInv
  <2>2. hands.size = 0 /\ ~shown
    BY <2>1 DEF Inv, RingInv, FrameInv
  <2>3. \A p \in DOMAIN pollers : pollers[p].pc \notin OnFramePC
    BY <1>0, <2>1, RegDoneIsNine DEF Inv, RoomInv
  <2>4. PrefixFresh' /\ \A lead : Reaches(lead)'
    BY <2>1, <2>2 DEF PrefixFresh, Reaches
  <2>5. ASSUME NEW p \in DOMAIN pollers, SoloAt(pollers[p]) PROVE SoloAt(pollers[p])'
    <3>1. Shows(pollers[p]) => FrameInHand(pollers[p])'
      BY <2>1, <2>2, <2>3, <2>5 DEF SoloAt, FrameInHand, OnFramePC
    <3>2. QED
      BY <2>1, <2>2, <2>4, <3>1 DEF SoloAt
  <2>6. SoloAt(AtCheck)'
    BY <2>1, <2>2, <2>4, NothingInHand DEF SoloAt
  <2>7. QED
    BY <2>1, <2>2, <2>5, <2>6 DEF FrameInv
<1>4. QED
  BY <1>1, <1>2, <1>3 DEF ClientStep

LEMMA FrameInvInit == WrapperInit => FrameInv
<1> SUFFICES ASSUME WrapperInit PROVE FrameInv
  OBVIOUS
<1>1. hands.size = 0 /\ ~shown /\ DOMAIN pollers = {}
  BY DEF WrapperInit
<1>2. SoloAt(AtCheck)
  BY <1>1, NothingInHand DEF SoloAt, PrefixFresh, Reaches
<1>3. QED
  BY <1>1, <1>2 DEF FrameInv

LEMMA FrameInvStep == Inv /\ FrameInv /\ [WrapperNext]_wrapperVars => FrameInv'
<1> SUFFICES ASSUME Inv, FrameInv, [WrapperNext]_wrapperVars PROVE FrameInv'
  OBVIOUS
<1>1. CASE ServiceStep \/ UNCHANGED wrapperVars
  <2>1. UNCHANGED <<pollers, frameVars>>
    BY <1>1 DEF ServiceStep, ServiceUp, ServiceLost, wrapperVars
  <2>2. QED
    BY <2>1, FramesLeftAlone
<1>2. QED
  BY <1>1, ClientKeepsFrames, PollerKeepsFrames, ReloadKeepsFrames DEF WrapperNext

LEMMA FramesAgeInTheRing == Inv /\ FrameInv => HandsAgeBounded
<1> SUFFICES ASSUME Inv, FrameInv, Len(pollers) <= 1 PROVE PrefixFresh /\ AgeBounded
  BY DEF HandsAgeBounded
<1>1. pollers \in Seq(Poller) /\ Len(pollers) \in Nat /\ DOMAIN pollers = 1 .. Len(pollers)
  BY DEF Inv, WrapperTypeOK
<1>2. CASE Len(pollers) = 0
  BY <1>2, NothingInHand DEF FrameInv, SoloAt, AgeBounded
<1>3. CASE Len(pollers) = 1
  <2>1. 1 \in DOMAIN pollers /\ SoloAt(pollers[1])
    BY <1>1, <1>3 DEF FrameInv
  <2>2. QED
    BY <2>1 DEF SoloAt, AgeBounded, Owed
<1>4. QED
  BY <1>1, <1>2, <1>3

\* With one polling thread, whatever frames arrive: between two frames hands_
\* has the newest frame's size and its first hands, as many as the oldest
\* frame of the ring had, are the newest frame's; and no hand it shows was
\* copied longer ago than the ring is long, for any size of the ring.
THEOREM NoHandOlderThanRing == WrapperSpec => []HandsAgeBounded
BY FrameInvInit, FrameInvStep, Invariance, FramesAgeInTheRing, PTL DEF WrapperSpec

-----------------------------------------------------------------------------
\* A call of connect() starts at most one thread, on the connection it made.
CountInv ==
    /\ Len(pollers) <= handle
    /\ op \in {"opening", "probing", "fetching"} => Len(pollers) < handle
    /\ fault = "heap" => Len(pollers) > 1

LEMMA CountStep == Inv /\ CountInv /\ [WrapperNext]_wrapperVars => CountInv'
<1> SUFFICES ASSUME Inv, CountInv, [WrapperNext]_wrapperVars PROVE CountInv'
  OBVIOUS
<1> USE DEF CountInv
<1>0. pollers \in Seq(Poller) /\ Len(pollers) \in Nat /\ handle \in Nat
  <2>1. pollers \in Seq(Poller) /\ handle \in 0 .. MaxConn
    BY DEF Inv, WrapperTypeOK
  <2>2. QED
    BY <2>1, Bounds
<1>1. CASE ConnectAborts \/ ConnectCreate \/ ConnectOpen \/ ConnectProbeNothing \/ ConnectProbeDevice
           \/ Initialize \/ DisconnectBegin \/ DisconnectClose
  BY <1>0, <1>1 DEF ConnectAborts, Crash, ConnectCreate, ConnectOpen, ConnectProbeNothing, ConnectProbeDevice,
                    Initialize, DisconnectBegin, DisconnectClose, clientVars
<1>2. CASE ConnectFetch
  <2>1. Len(Append(pollers, AtCheck)) = Len(pollers) + 1
    BY <1>0, ThreadIsPoller, AppendProperties
  <2>2. QED
    BY <1>0, <1>2, <2>1 DEF ConnectFetch, Crash, Alive
<1>3. ASSUME NEW p \in DOMAIN pollers, PollerStep(p) PROVE CountInv'
  <2>1. Len(pollers') = Len(pollers)
    <3>1. CASE \E r : Goto(p, r)
      BY <1>0, <3>1, OnlyThread
    <3>2. CASE OnFrameResize(p)
      BY <3>1, <3>2 DEF OnFrameResize, Continue
    <3>3. QED
      BY <1>0, <1>3, <3>1, <3>2, PollerMoves
  <2>2. fault' = "heap" => Len(pollers) > 1
    <3>1. CASE OnFrameHeapRace(p)
      BY <1>0, <1>3, <3>1 DEF OnFrameHeapRace
    <3>2. CASE OnFrameWildWrite(p)
      <4>1. /\ pollers[p].pc = "copying" /\ pollers[p].i > hands.cap /\ hands.cap \in Nat
            /\ pollers[p].i \in 1 .. pollers[p].cur /\ pollers[p].cur \in Nat
        BY <1>0, <3>2, ThreadType, Bounds DEF OnFrameWildWrite, At, Inv, RoomInv, WrapperTypeOK, Hands
      <4>2. ~(pollers[p].cur <= hands.cap)
        BY <4>1
      <4>3. QED
        BY <1>0, <4>1, <4>2, OnlyAPendingFrameOverruns
    <3>3. CASE UNCHANGED fault
      BY <3>3
    <3>4. CASE CallEmpty(p) \/ OnFrameUnsized(p) \/ OnFrameWildRead(p)
      BY <3>4 DEF CallEmpty, OnFrameUnsized, OnFrameWildRead, Crash
    <3>5. QED
      BY <1>3, <3>1, <3>2, <3>3, <3>4, WhatKills
  <2>3. QED
    BY <1>0, <1>3, <2>1, <2>2, PollerLeaves
<1>4. CASE ServiceStep \/ UNCHANGED wrapperVars
  BY <1>0, <1>4 DEF ServiceStep, ServiceUp, ServiceLost, wrapperVars, clientVars
<1>5. ASSUME NEW p \in DOMAIN pollers, OnFrameReload(p) PROVE CountInv'
  <2>1. \E r : Goto(p, r)
    BY <1>5 DEF OnFrameReload, Continue
  <2>2. Len(pollers') = Len(pollers)
    BY <1>0, <2>1, OnlyThread
  <2>3. QED
    BY <1>5, <2>2 DEF OnFrameReload, clientVars
<1>6. QED
  BY <1>1, <1>2, <1>3, <1>4, <1>5 DEF WrapperNext, ClientStep

LEMMA CountInit == WrapperInit => CountInv
BY DEF WrapperInit, CountInv

\* There are never more polling threads than connections were created: a
\* client whose first connect() succeeds has the one thread, and with it the
\* freshness of hands_ and a resize that moves no storage under another
\* thread's copy, which a client who had to retry may lose.
THEOREM OneThreadPerConnection ==
    WrapperSpec => [](/\ Len(pollers) <= handle
                      /\ handle = 1 => PrefixFresh /\ AgeBounded /\ fault # "heap")
<1>1. Inv /\ FrameInv /\ CountInv =>
        /\ Len(pollers) <= handle
        /\ handle = 1 => PrefixFresh /\ AgeBounded /\ fault # "heap"
  BY FramesAgeInTheRing DEF CountInv, HandsAgeBounded
<1>2. QED
  BY <1>1, FrameInvInit, FrameInvStep, CountInit, CountStep, Invariance, PTL DEF WrapperSpec
=============================================================================
