---------------------------- MODULE LeapWrapper ----------------------------
(***************************************************************************)
(* LeapMotionV2WrapperImpl (src/task/leapMotionV2WrapperImpl.cpp) between  *)
(* its client, its polling threads and LeapC.                              *)
(*                                                                         *)
(* One client call runs at a time (connect, initialize or disconnect, step *)
(* by step through `op`); the polling threads connect() has started run    *)
(* beside it, each with a program counter of its own.  LeapC is external:  *)
(* a table of connections and the messages a poll may return.              *)
(***************************************************************************)
EXTENDS Integers, Sequences

CONSTANTS
    Hand,           \* the contents a LEAP_HAND can have
    ZeroHand,       \* LEAP_HAND{}, what vector::resize puts into hands_
    Frame,          \* pHands of the tracking frames: sequences of hands
    MaxHands,       \* no frame has more hands
    FrameCount,     \* frameCount_, the size of frameBuffer_
    RetryLimit,     \* polls connect() makes before it gives up
    MaxConn,        \* bound: connections created in one behaviour
    MaxDevices      \* bound: device handles left open

ASSUME HandAssumption == ZeroHand \in Hand
ASSUME FrameAssumption ==
    /\ MaxHands \in Nat
    /\ Frame \subseteq Seq(Hand) /\ <<>> \in Frame
    /\ \A f \in Frame : Len(f) \in 0 .. MaxHands
ASSUME BoundAssumption ==
    /\ FrameCount \in Nat \ {0} /\ RetryLimit \in Nat \ {0}
    /\ MaxConn \in Nat /\ MaxDevices \in Nat

VARIABLES
    inConncetion,   \* the flag the polling loop tests, spelled as in the code
    handle,         \* connectionHandle_: a connection number, 0 before any
    pollers,        \* pollingThread_: one record per thread, in order
    reg,            \* steps of initialize() done
    frameBuffer,    \* a CircularBuffer of the nHands of recent frames
    hands,          \* hands_: the allocation, its capacity and the size
    lastFrame,      \* the frame setFrame copied last
    op,             \* where the client's call is, "idle" between calls
    left,           \* retry_limit of the connect() under way
    result,         \* what the last call returned
    fault,          \* why the process died, "none" while it lives
    conns,          \* LeapC: the state of every connection
    link,           \* LeapC: the service as it is
    told,           \* LeapC: the service as the messages polled so far say
    openDevices,    \* LeapC: device handles opened and not closed
    shown,          \* ghost: onFrame has run on lastFrame to its end
    age             \* ghost: frames since hands_[i] was last copied or gained

clientVars  == <<op, left, result, reg>>
leapcVars   == <<conns, link, told, openDevices>>
frameVars   == <<frameBuffer, hands, lastFrame, shown, age>>
wrapperVars == <<inConncetion, handle, pollers, fault, clientVars, leapcVars, frameVars>>

CB == INSTANCE CircularBuffer WITH Element <- 0 .. MaxHands, Default <- 0

-----------------------------------------------------------------------------
(* The callbacks the message loop dispatches, in the order initialize()    *)
(* registers them.  map[name] = f first inserts an empty std::function and *)
(* then assigns it: two steps each; the last step of all is setSize.       *)
(* There is a map for each argument list: onDeviceFound is registered for  *)
(* a const LEAP_DEVICE_INFO* and looked up for a LEAP_DEVICE_INFO*, so no  *)
(* message ever finds it.                                                  *)
Callback == <<"onConnect", "onConnectLost", "onDeviceFound", "onFrame">>

RegDone == 2 * Len(Callback) + 1

Registered(name) == \E k \in DOMAIN Callback : Callback[k] = name /\ reg >= 2 * k
Inserted(name)   == \E k \in DOMAIN Callback : Callback[k] = name /\ reg >= 2 * k - 1

Message == [type : {"Connection", "ConnectionLost", "Device", "Unknown"}]
           \cup [type : {"Tracking"}, frame : Frame]

NoMessage == [type |-> "Unknown"]

CallbackOf(msg) ==
    CASE msg.type = "Connection"     -> "onConnect"
      [] msg.type = "ConnectionLost" -> "onConnectLost"
      [] msg.type = "Tracking"       -> "onFrame"

Connection == 1 .. MaxConn

\* The places inside onFrame: the frame is put into the ring, the ring is
\* turned, back() is read, hands_ is resized, and cleared or copied into.
OnFramePC == {"adding", "advancing", "reading", "sizing", "clearing", "copying"}

PollerPC == {"check", "polling", "dispatch", "calling", "done"} \cup OnFramePC

\* cur is curData.nHands; i is the value of m_tail the thread works with, and
\* from "copying" on the loop index.
Poller == [pc : PollerPC, conn : 0 .. MaxConn, msg : Message,
           cur : 0 .. MaxHands, i : 0 .. MaxHands + FrameCount]

Thread(pc, conn, msg, cur, i) == [pc |-> pc, conn |-> conn, msg |-> msg, cur |-> cur, i |-> i]

AtCheck == Thread("check", 0, NoMessage, 0, 0)

\* hands_: `data` is the allocation (its first cap places), of which the
\* first size places are the vector's elements.
Hands == [data : [1 .. MaxHands -> Hand], size : 0 .. MaxHands, cap : 0 .. MaxHands]

\* Variant with a defect: storage given back when the size shrinks.
ResizeShrinks(h, n) ==
    [data |-> [k \in 1 .. MaxHands |-> IF k \in h.size + 1 .. n THEN ZeroHand ELSE h.data[k]],
     size |-> n, cap |-> n]

\* vector::resize: places gained are value-initialised, places lost keep
\* their bytes, the storage moves when the capacity is exceeded.
Resize(h, n) ==
    [data |-> [k \in 1 .. MaxHands |->
                 IF k \in h.size + 1 .. n THEN ZeroHand ELSE h.data[k]],
     size |-> n,
     cap  |-> IF n > h.cap THEN n ELSE h.cap]

FaultKind == {"none", "abort", "bad_function_call", "unsized_buffer",
              "wild_read", "heap"}

WrapperTypeOK ==
    /\ inConncetion \in BOOLEAN
    /\ handle \in 0 .. MaxConn
    /\ pollers \in Seq(Poller)
    /\ reg \in 0 .. RegDone
    /\ \E n \in {0, FrameCount} : frameBuffer \in CB!Buffer(n)
    /\ hands \in Hands
    /\ lastFrame \in Frame
    /\ op \in {"idle", "opening", "probing", "fetching", "registering", "joining"}
    /\ left \in 0 .. RetryLimit
    /\ result \in {"none", "success", "fail"}
    /\ fault \in FaultKind
    /\ conns \in [Connection -> {"none", "created", "open", "destroyed"}]
    /\ link \in {"down", "up", "lost"} /\ told \in {"down", "up", "lost"}
    /\ openDevices \in 0 .. MaxDevices
    /\ shown \in BOOLEAN
    /\ age \in [1 .. MaxHands -> 0 .. FrameCount]

WrapperInit ==
    /\ inConncetion = FALSE /\ handle = 0 /\ pollers = <<>>
    /\ reg = 0
    /\ frameBuffer = CB!Unsized
    /\ hands = [data |-> [k \in 1 .. MaxHands |-> ZeroHand], size |-> 0, cap |-> 0]
    /\ lastFrame = <<>> /\ shown = FALSE /\ age = [i \in 1 .. MaxHands |-> 0]
    /\ op = "idle" /\ left = 0 /\ result = "none" /\ fault = "none"
    /\ conns = [c \in Connection |-> "none"]
    /\ link = "down" /\ told = "down" /\ openDevices = 0

Alive == fault = "none"

Crash(kind) == fault' = kind

-----------------------------------------------------------------------------
(* connect()                                                               *)

\* LeapCreateConnection, or LeapOpenConnection, fails under lp2_assert.
ConnectAborts ==
    /\ Alive /\ op \in {"idle", "opening"}
    /\ Crash("abort")
    /\ UNCHANGED <<inConncetion, handle, pollers, clientVars, leapcVars, frameVars>>

\* LeapCreateConnection overwrites connectionHandle_, whatever it held.
ConnectCreate ==
    /\ Alive /\ op = "idle" /\ handle < MaxConn
    /\ handle' = handle + 1
    /\ conns' = [conns EXCEPT ![handle + 1] = "created"]
    /\ op' = "opening" /\ result' = "none"
    /\ UNCHANGED <<inConncetion, pollers, fault, left, reg, link, told, openDevices, frameVars>>

ConnectOpen ==
    /\ Alive /\ op = "opening"
    /\ conns' = [conns EXCEPT ![handle] = "open"]
    /\ op' = "probing" /\ left' = RetryLimit
    /\ UNCHANGED <<inConncetion, handle, pollers, fault, reg, result, link, told, openDevices, frameVars>>

\* Variant with a defect: one turn too many.
RetryingOnceMore == left > 0

\* More turns of the retry loop after this one.
Retrying == left > 1

\* Each turn of the retry loop first polls the connection and drops the
\* message: usually it is the Connection message that no callback then sees.
ProbePolls == told' \in {told, link}

\* A turn of the retry loop that finds no device: not connected yet, or an
\* empty device list.  After the last one connect() returns ACTION_FAIL and
\* leaves the connection as it is.
ConnectProbeNothing ==
    /\ Alive /\ op = "probing"
    /\ ProbePolls
    /\ left' = left - 1
    /\ IF Retrying THEN UNCHANGED <<op, result>> ELSE op' = "idle" /\ result' = "fail"
    /\ UNCHANGED <<inConncetion, handle, pollers, fault, reg, conns, link, openDevices, frameVars>>

ConnectProbeDevice ==
    /\ Alive /\ op = "probing" /\ link = "up"
    /\ ProbePolls
    /\ op' = "fetching"
    /\ UNCHANGED <<inConncetion, handle, pollers, fault, left, result, reg,
                   conns, link, openDevices, frameVars>>

\* The second LeapGetDeviceList is under lp2_assert: abort() when it fails.
ConnectFetch ==
    /\ Alive /\ op = "fetching"
    /\ IF link = "up"
         THEN /\ inConncetion' = TRUE
              /\ pollers' = Append(pollers, AtCheck)
              /\ op' = "idle" /\ result' = "success"
              /\ left' = 0
              /\ UNCHANGED fault
         ELSE /\ Crash("abort")
              /\ UNCHANGED <<inConncetion, pollers, op, left, result>>
    /\ UNCHANGED <<handle, reg, leapcVars, frameVars>>

-----------------------------------------------------------------------------
(* initialize(), called once, by LpV2SyncFFH::start                        *)
\* Variants with a defect: no setSize, or one too large.
BufferNeverSized(step) == frameBuffer

BufferTooLarge(step) ==
    IF step = RegDone THEN CB!SetSize(frameBuffer, FrameCount + 1) ELSE frameBuffer

BufferAfter(step) ==
    IF step = RegDone THEN CB!SetSize(frameBuffer, FrameCount) ELSE frameBuffer

Initialize ==
    /\ Alive
    /\ (op = "idle" /\ reg = 0) \/ op = "registering"
    /\ reg' = reg + 1
    /\ op' = IF reg' = RegDone THEN "idle" ELSE "registering"
    /\ frameBuffer' = BufferAfter(reg')
    /\ UNCHANGED <<inConncetion, handle, pollers, fault, left, result, leapcVars,
                   hands, lastFrame, shown, age>>

-----------------------------------------------------------------------------
(* disconnect()                                                            *)
DisconnectBegin ==
    /\ Alive /\ op = "idle"
    /\ IF inConncetion
         THEN op' = "joining" /\ inConncetion' = FALSE /\ result' = "none"
         ELSE result' = "success" /\ UNCHANGED <<op, inConncetion>>
    /\ UNCHANGED <<handle, pollers, fault, left, reg, leapcVars, frameVars>>

\* Variant with a defect: only the newest thread is joined.
NewestPollerDone == pollers # <<>> => pollers[Len(pollers)].pc = "done"

PollersDone == \A p \in DOMAIN pollers : pollers[p].pc = "done"

\* Every join() has returned: close and destroy the current connection.
DisconnectClose ==
    /\ Alive /\ op = "joining"
    /\ PollersDone
    /\ conns' = [conns EXCEPT ![handle] = "destroyed"]
    /\ op' = "idle" /\ result' = "success"
    /\ UNCHANGED <<inConncetion, handle, pollers, fault, left, reg, link, told, openDevices, frameVars>>

-----------------------------------------------------------------------------
(* serviceMessageLoop() of polling thread p                                *)
At(p, pc) == Alive /\ pollers[p].pc = pc

Handling(p) == pollers[p].pc \in {"dispatch", "calling"} \cup OnFramePC

Goto(p, r) == pollers' = [pollers EXCEPT ![p] = r]

\* The next place in the handling of the same message.
Continue(p, pc, cur, i) == Goto(p, Thread(pc, pollers[p].conn, pollers[p].msg, cur, i))

\* Variant with a defect: the loop does not test the flag.
LoopsForever == TRUE

\* The condition of the message loop.
LoopsOn == inConncetion

\* The loop condition, and the call of LeapPollConnection with the handle
\* as it is now.
PollerCheck(p) ==
    /\ At(p, "check")
    /\ Goto(p, IF LoopsOn THEN Thread("polling", handle, NoMessage, 0, 0)
                          ELSE Thread("done", 0, NoMessage, 0, 0))
    /\ UNCHANGED <<inConncetion, handle, fault, clientVars, leapcVars, frameVars>>

\* Timeout, a concurrent poll, or a connection that is not open: `continue`.
PollerNoMessage(p) ==
    /\ At(p, "polling")
    /\ Goto(p, AtCheck)
    /\ UNCHANGED <<inConncetion, handle, fault, clientVars, leapcVars, frameVars>>

Receive(p, m) ==
    /\ At(p, "polling") /\ conns[pollers[p].conn] = "open"
    /\ Goto(p, Thread("dispatch", pollers[p].conn, m, 0, 0))
    /\ UNCHANGED <<inConncetion, handle, fault, clientVars, conns, link, openDevices, frameVars>>

PollerLinkEvent(p) ==
    /\ link # told
    /\ Receive(p, [type |-> IF link = "up" THEN "Connection" ELSE "ConnectionLost"])
    /\ told' = link

\* Frames and device events queued before a loss are still delivered.
PollerData(p) ==
    /\ told = "up"
    /\ \/ \E f \in Frame : Receive(p, [type |-> "Tracking", frame |-> f])
       \/ Receive(p, [type |-> "Device"])
       \/ Receive(p, NoMessage)
    /\ UNCHANGED told

\* setFrame copies the frame before handleCallback looks for "onFrame".
DispatchFrame(p) ==
    /\ At(p, "dispatch") /\ pollers[p].msg.type = "Tracking"
    /\ lastFrame' = pollers[p].msg.frame
    /\ shown' = FALSE
    /\ IF Inserted("onFrame") THEN Continue(p, "calling", 0, 0) ELSE Goto(p, AtCheck)
    /\ UNCHANGED <<inConncetion, handle, fault, clientVars, leapcVars, frameBuffer, hands, age>>

\* handleDeviceEvent: the device cannot be opened, or all is well, no callback
\* is found and the handle is closed; or the info cannot be read, and the
\* handler returns without LeapCloseDevice.
DispatchDevice(p) ==
    /\ At(p, "dispatch") /\ pollers[p].msg.type = "Device"
    /\ Goto(p, AtCheck)
    /\ \/ UNCHANGED openDevices
       \/ openDevices < MaxDevices /\ openDevices' = openDevices + 1
    /\ UNCHANGED <<inConncetion, handle, fault, clientVars, conns, link, told, frameVars>>

DispatchLinkEvent(p) ==
    /\ At(p, "dispatch") /\ pollers[p].msg.type \in {"Connection", "ConnectionLost"}
    /\ IF Inserted(CallbackOf(pollers[p].msg)) THEN Continue(p, "calling", 0, 0)
                                               ELSE Goto(p, AtCheck)
    /\ UNCHANGED <<inConncetion, handle, fault, clientVars, leapcVars, frameVars>>

DispatchUnknown(p) ==
    /\ At(p, "dispatch") /\ pollers[p].msg.type = "Unknown"
    /\ Goto(p, AtCheck)
    /\ UNCHANGED <<inConncetion, handle, fault, clientVars, leapcVars, frameVars>>

\* find() saw the name inserted, the function is still empty: calling it
\* throws bad_function_call out of the thread.
CallEmpty(p) ==
    /\ At(p, "calling") /\ ~Registered(CallbackOf(pollers[p].msg))
    /\ Crash("bad_function_call")
    /\ UNCHANGED <<inConncetion, handle, pollers, clientVars, leapcVars, frameVars>>

\* onConnect and onConnectLost only log.
CallLogger(p) ==
    /\ At(p, "calling") /\ pollers[p].msg.type # "Tracking"
    /\ Registered(CallbackOf(pollers[p].msg))
    /\ Goto(p, AtCheck)
    /\ UNCHANGED <<inConncetion, handle, fault, clientVars, leapcVars, frameVars>>

\* The ghost ages after a frame of n hands: an entry kept is a frame older,
\* an entry gained counts its first frame, an entry lost has no age.
Older(n) ==
    [i \in 1 .. MaxHands |->
        CASE i > n                         -> 0
          [] i <= n /\ i > hands.size      -> 1
          [] i <= n /\ i <= hands.size     ->
                IF age[i] < FrameCount THEN age[i] + 1 ELSE FrameCount]

\* onFrame begins: add() takes m_tail to find the slot.  No lock is held from
\* here to the end, so two threads may meet between any two of its steps.
OnFrameBegin(p) ==
    /\ At(p, "calling") /\ pollers[p].msg.type = "Tracking" /\ Registered("onFrame")
    /\ frameBuffer.size > 0
    /\ Continue(p, "adding", 0, frameBuffer.tail)
    /\ UNCHANGED <<inConncetion, handle, fault, clientVars, leapcVars, frameVars>>

\* add on a buffer that setSize has not reached: a write through a null
\* vector, an index modulo zero.
OnFrameUnsized(p) ==
    /\ At(p, "calling") /\ pollers[p].msg.type = "Tracking" /\ Registered("onFrame")
    /\ frameBuffer.size = 0
    /\ Crash("unsized_buffer")
    /\ UNCHANGED <<inConncetion, handle, pollers, clientVars, leapcVars, frameVars>>

OnFrameAdd(p) ==
    /\ At(p, "adding")
    /\ frameBuffer' = CB!Write(frameBuffer, pollers[p].i, Len(pollers[p].msg.frame))
    /\ Continue(p, "advancing", 0, pollers[p].i)
    /\ UNCHANGED <<inConncetion, handle, fault, clientVars, leapcVars, hands, lastFrame, shown, age>>

\* A build may keep m_tail in a register or read it again where the code names
\* it: what another thread stored meanwhile is seen or not.
OnFrameReload(p) ==
    /\ Alive /\ pollers[p].pc \in {"advancing", "reading"}
    /\ frameBuffer.tail # pollers[p].i
    /\ Continue(p, pollers[p].pc, 0, frameBuffer.tail)
    /\ UNCHANGED <<inConncetion, handle, fault, clientVars, leapcVars, frameVars>>

\* updateHeadTail stores the indices (nobody reads the head of this ring).
OnFrameAdvance(p) ==
    /\ At(p, "advancing")
    /\ frameBuffer' = CB!UpdateHeadTail(frameBuffer, pollers[p].i)
    /\ Continue(p, "reading", 0, frameBuffer'.tail)
    /\ UNCHANGED <<inConncetion, handle, fault, clientVars, leapcVars, hands, lastFrame, shown, age>>

\* curData = frameBuffer_.back()
OnFrameBack(p) ==
    /\ At(p, "reading")
    /\ Continue(p, "sizing", frameBuffer.slots[pollers[p].i], 0)
    /\ UNCHANGED <<inConncetion, handle, fault, clientVars, leapcVars, frameVars>>

\* hands_ gets the frame's size.  A frame without hands goes on to clear(),
\* a bound of 0 ends the loop before it begins.
OnFrameResize(p) ==
    /\ At(p, "sizing")
    /\ LET n   == Len(pollers[p].msg.frame)
           cur == pollers[p].cur
       IN  /\ hands' = Resize(hands, n)
           /\ age' = Older(n)
           /\ \/ n = 0 /\ Continue(p, "clearing", 0, 0) /\ UNCHANGED shown
              \/ n > 0 /\ cur > 0 /\ Continue(p, "copying", cur, 1) /\ UNCHANGED shown
              \/ n > 0 /\ cur = 0 /\ Goto(p, AtCheck) /\ shown' = TRUE
    /\ UNCHANGED <<inConncetion, handle, fault, clientVars, leapcVars, frameBuffer, lastFrame>>

\* Two threads resize at once, or one moves the storage another copies into.
\* The heap may be damaged, with anything to follow; or each step happens to
\* take effect as a whole, which is OnFrameResize.
OnFrameHeapRace(p) ==
    /\ At(p, "sizing")
    /\ Len(pollers[p].msg.frame) # hands.size
    /\ \E q \in DOMAIN pollers \ {p} :
          \/ pollers[q].pc \in {"sizing", "clearing"}
          \/ pollers[q].pc = "copying" /\ Len(pollers[p].msg.frame) > hands.cap
    /\ Crash("heap")
    /\ UNCHANGED <<inConncetion, handle, pollers, clientVars, leapcVars, frameVars>>

OnFrameClear(p) ==
    /\ At(p, "clearing")
    /\ hands' = Resize(hands, 0) /\ age' = Older(0)
    /\ shown' = TRUE
    /\ Goto(p, AtCheck)
    /\ UNCHANGED <<inConncetion, handle, fault, clientVars, leapcVars, frameBuffer, lastFrame>>

CopiesMore(r) == r.i < r.cur

\* hands_[i] = frame->pHands[i].  Past the frame's own hands the value is
\* whatever memory holds there.
OnFrameCopy(p) ==
    /\ At(p, "copying") /\ pollers[p].i <= hands.cap
    /\ LET r == pollers[p]
       IN  /\ \E v \in (IF r.i \in DOMAIN r.msg.frame THEN {r.msg.frame[r.i]} ELSE Hand) :
                hands' = [hands EXCEPT !.data[r.i] = v]
           /\ Goto(p, IF CopiesMore(r) THEN [r EXCEPT !.i = r.i + 1] ELSE AtCheck)
           /\ shown' = (shown \/ ~CopiesMore(r))
           /\ age' = [age EXCEPT ![r.i] = 0]
    /\ UNCHANGED <<inConncetion, handle, fault, clientVars, leapcVars, frameBuffer, lastFrame>>

\* ... or that memory cannot be read at all.
OnFrameWildRead(p) ==
    /\ At(p, "copying") /\ pollers[p].i \notin DOMAIN pollers[p].msg.frame
    /\ Crash("wild_read")
    /\ UNCHANGED <<inConncetion, handle, pollers, clientVars, leapcVars, frameVars>>

\* hands_[i] is not checked either: past the allocation the write damages the
\* heap.
OnFrameWildWrite(p) ==
    /\ At(p, "copying") /\ pollers[p].i > hands.cap
    /\ Crash("heap")
    /\ UNCHANGED <<inConncetion, handle, pollers, clientVars, leapcVars, frameVars>>

PollerStep(p) ==
    \/ PollerCheck(p) \/ PollerNoMessage(p) \/ PollerLinkEvent(p) \/ PollerData(p)
    \/ DispatchFrame(p) \/ DispatchDevice(p) \/ DispatchLinkEvent(p) \/ DispatchUnknown(p)
    \/ CallEmpty(p) \/ CallLogger(p)
    \/ OnFrameBegin(p) \/ OnFrameUnsized(p) \/ OnFrameAdd(p) \/ OnFrameAdvance(p)
    \/ OnFrameBack(p) \/ OnFrameResize(p) \/ OnFrameHeapRace(p) \/ OnFrameClear(p)
    \/ OnFrameCopy(p) \/ OnFrameWildRead(p) \/ OnFrameWildWrite(p)

-----------------------------------------------------------------------------
(* The tracking service as LeapC sees it.                                  *)
ServiceUp ==
    /\ Alive /\ link # "up"
    /\ link' = "up"
    /\ UNCHANGED <<inConncetion, handle, pollers, fault, clientVars, conns, told, openDevices, frameVars>>

ServiceLost ==
    /\ Alive /\ link = "up"
    /\ link' = "lost"
    /\ UNCHANGED <<inConncetion, handle, pollers, fault, clientVars, conns, told, openDevices, frameVars>>

ClientStep ==
    \/ ConnectAborts \/ ConnectCreate \/ ConnectOpen \/ ConnectProbeNothing \/ ConnectProbeDevice \/ ConnectFetch
    \/ Initialize
    \/ DisconnectBegin \/ DisconnectClose

ServiceStep == ServiceUp \/ ServiceLost
=============================================================================
