------------------------ MODULE ExampleConnectionProofs ------------------------
(***************************************************************************)
(* Theorems about the connection library of the samples, for every number  *)
(* of frames, devices and recorded frames, and every program.              *)
(***************************************************************************)
EXTENDS ExampleConnection, TLAPS

\* The mutex has at most one holder, and the cached frame is only in two
\* minds while the loop holds it.
LockInv ==
    /\ dataLock = "loop" <=> loop.at \in {"setHands", "copyDevice", "ownSerial"}
    /\ dataLock = "main" <=> main.at = "getHands"
    /\ loop.at # "setHands" => lastFrame.header = lastFrame.hands
    /\ loop.at = "setHands" => lastFrame.header = loop.frame
    /\ main.at = "getHands" => main.frame.header = lastFrame.header

\* The life of the mutex, the loop and the handle, by where the program is.
LifeInv ==
    /\ main.at = "open" => dataLock = "none" /\ ~isRunning /\ handle = "NULL"
    /\ main.program = "callback" => main.at \in {"open", "key", "join", "destroy", "exit"}
    /\ main.program # "callback" => main.at \notin {"key", "join", "destroy"}
    /\ dataLock = "none" <=> loop.at = "none"
    /\ dataLock = "destroyed" => loop.at = "done" /\ main.at \in {"destroy", "exit"}
    /\ IsConnected => loop.at # "none"
    /\ main.at \notin {"open", "wait", "key", "join", "destroy", "exit"} => loop.at # "none"
    /\ main.at \notin {"join", "destroy", "exit"} => (isRunning <=> loop.at # "none")
    /\ loop.at = "done" => ~isRunning
    /\ main.at = "destroy" => loop.at \in {"none", "done"}
    /\ handle = "destroyed" => main.at = "exit" /\ loop.at \in {"none", "done"}

\* The cached serial belongs to the last device, but for the time setDevice
\* takes; while there is one device, only its handler's serial is freed; and a
\* program that prints found a device whose serial was its own.
SerialInv ==
    /\ lastDevice <= Own(sent.device)
    /\ loop.at \in {"setDevice", "copyDevice", "ownSerial", "deviceFound"} => sent.device >= 1
    /\ loop.at \in {"setDevice", "copyDevice"} => lastDevice <= Own(sent.device - 1)
    /\ lastDevice = Event(1) => loop.at = "ownSerial"
    /\ sent.device <= 1 => \A f \in freed : f <= Event(1)
    /\ main.at \in {"serial", "print"} => lastDevice >= Own(1)
    /\ main.at = "print" => main.serial >= Own(1)

\* A device is open while its handler is at work, and for ever when the
\* handler gave it up.
DeviceInv ==
    IF loop.at \in {"setDevice", "copyDevice", "ownSerial", "deviceFound"}
      THEN loop.open = leaked + 1
      ELSE loop.open = leaked

\* A recording that is not complete has room.
RecordingInv ==
    (main.program = "recording" /\ main.at # "exit") => main.count < Recorded

Inv ==
    /\ TypeOK /\ LockInv /\ LifeInv /\ SerialInv /\ DeviceInv /\ RecordingInv
    /\ FramesAreWhole

-----------------------------------------------------------------------------
LEMMA InitInv == Init => Inv
<1> SUFFICES ASSUME Init PROVE Inv
  OBVIOUS
<1> USE BoundAssumption DEF Init, Null, Own, Event
<1>1. main.at = "open" /\ main.program \in Programs /\ main.count = 0
  OBVIOUS
<1>2. TypeOK
  <2>1. Null \in CachedFrame
    BY DEF CachedFrame
  <2>2. main \in [at : {"open"}, program : Programs, frame : {Null}, lastFrameID : {0},
                  count : {0}, serial : {0}]
    OBVIOUS
  <2>3. main \in [at : MainAt, program : Programs, frame : CachedFrame,
                  lastFrameID : 0 .. MaxFrame, count : 0 .. Recorded, serial : 0 .. Own(MaxDevice)]
    BY <2>1, <2>2 DEF MainAt
  <2>4. lastDevice \in 0 .. Own(MaxDevice) /\ freed \subseteq 0 .. Own(MaxDevice)
    OBVIOUS
  <2>5. loop \in [at : LoopAt, frame : 0 .. MaxFrame, open : Nat]
    BY DEF LoopAt
  <2>6. sent \in [frame : 0 .. MaxFrame, device : 0 .. MaxDevice] /\ lastFrame \in CachedFrame
    BY <2>1
  <2>7. /\ IsConnected \in BOOLEAN /\ isRunning \in BOOLEAN /\ leaked \in Nat
        /\ handle \in {"NULL", "created", "open", "closed", "destroyed"}
        /\ dataLock \in {"none", "free", "destroyed", "loop", "main"}
    OBVIOUS
  <2> HIDE DEF Init, Own, Null
  <2>8. QED
    BY <2>3, <2>4, <2>5, <2>6, <2>7 DEF TypeOK
<1>3. LockInv /\ LifeInv /\ SerialInv /\ DeviceInv /\ RecordingInv /\ FramesAreWhole
  BY <1>1 DEF LockInv, LifeInv, SerialInv, DeviceInv, RecordingInv, FramesAreWhole
<1>4. QED
  BY <1>2, <1>3 DEF Inv

\* What a device event makes of the loop.
LEMMA DeviceEvent ==
    ASSUME TypeOK, handleDeviceEvent
    PROVE  /\ sent' = [frame |-> sent.frame, device |-> sent.device + 1]
           /\ sent.device + 1 \in 0 .. MaxDevice
           /\ \/ /\ loop' = [at |-> "check", frame |-> loop.frame, open |-> loop.open]
                 /\ leaked' = leaked
              \/ /\ loop' = [at |-> "setDevice", frame |-> loop.frame, open |-> loop.open + 1]
                 /\ leaked' = leaked
              \/ /\ loop' = [at |-> "check", frame |-> loop.frame, open |-> loop.open + 1]
                 /\ leaked' = leaked + 1
<1> USE DEF TypeOK, handleDeviceEvent, Loop
<1>1. sent' = [frame |-> sent.frame, device |-> sent.device + 1]
  OBVIOUS
<1>2. sent.device + 1 \in 0 .. MaxDevice
  BY BoundAssumption
<1>3. CASE Loop("check") /\ UNCHANGED leaked
  BY <1>1, <1>2, <1>3
<1>4. CASE loop' = [loop EXCEPT !.at = "setDevice", !.open = @ + 1] /\ UNCHANGED leaked
  BY <1>1, <1>2, <1>4
<1>5. CASE loop' = [loop EXCEPT !.at = "check", !.open = @ + 1] /\ leaked' = leaked + 1
  BY <1>1, <1>2, <1>5
<1>6. QED
  BY <1>3, <1>4, <1>5

\* What a look at a frame makes of the program.
LEMMA Looked ==
    ASSUME TypeOK, RecordingInv, LooksAtFrame
    PROVE  /\ main' \in [at : MainAt, program : Programs, frame : CachedFrame,
                          lastFrameID : 0 .. MaxFrame, count : 0 .. Recorded,
                          serial : 0 .. Own(MaxDevice)]
           /\ RecordingInv'
<1> USE BoundAssumption DEF TypeOK, RecordingInv, LooksAtFrame, CachedFrame, MainAt, Own
<1> DEFINE With(at, id, count) == [at |-> at, program |-> main.program, frame |-> main.frame,
               lastFrameID |-> id, count |-> count, serial |-> main.serial]
<1>1. CASE ~IsNew
  <2>1. main' = With("getFrame", main.lastFrameID, main.count)
    BY <1>1 DEF Main
  <2>2. QED
    BY <2>1
<1>2. CASE IsNew /\ main.program # "recording"
  <2>1. main' = With("getFrame", main.frame.header, main.count)
    BY <1>2
  <2>2. QED
    BY <2>1, <1>2
<1>3. CASE IsNew /\ main.program = "recording"
  <2> DEFINE at == IF main.count + 1 = Recorded THEN "exit" ELSE "getFrame"
  <2>1. main' = With(at, main.frame.header, main.count + 1)
    BY <1>3
  <2>2. main.count + 1 \in 0 .. Recorded /\ (at # "exit" => main.count + 1 < Recorded)
    BY <1>3
  <2>3. QED
    BY <2>1, <2>2
<1>4. QED
  BY <1>1, <1>2, <1>3

\* Each action of the loop preserves every conjunct, and each of the program.
LEMMA LoopInv ==
    ASSUME Inv, main.at # "exit", LoopStep
    PROVE  Inv'
<1> USE BoundAssumption DEF Inv, TypeOK, LockInv, LifeInv, SerialInv, DeviceInv,
        RecordingInv, FramesAreWhole, CachedFrame, LoopAt, Loop, lib, Event, Own
<1>1. CASE Check
  BY <1>1 DEF Check
<1>2. CASE PollFails
  BY <1>2 DEF PollFails
<1>3. CASE Callback
  BY <1>3 DEF Callback
<1>4. CASE handleConnectionEvent
  BY <1>4 DEF handleConnectionEvent, Gets
<1>5. CASE handleConnectionLostEvent
  BY <1>5 DEF handleConnectionLostEvent, Gets
<1>6. CASE handleOtherEvent
  BY <1>6 DEF handleOtherEvent, Gets
<1>7. CASE handleTrackingEvent
  <2>1. TypeOK'
    <3>1. sent' = [frame |-> sent.frame + 1, device |-> sent.device]
      BY <1>7 DEF handleTrackingEvent
    <3>2. sent'.frame \in 0 .. MaxFrame
      BY <1>7, <3>1 DEF handleTrackingEvent
    <3>3. loop' = [at |-> "setFrame", frame |-> sent'.frame, open |-> loop.open]
      BY <1>7 DEF handleTrackingEvent
    <3>4. QED
      BY <1>7, <3>1, <3>2, <3>3 DEF handleTrackingEvent
  <2>2. LockInv'
    BY <1>7 DEF handleTrackingEvent, Gets
  <2>3. LifeInv'
    BY <1>7 DEF handleTrackingEvent, Gets
  <2>4. SerialInv'
    BY <1>7 DEF handleTrackingEvent, Gets
  <2>5. DeviceInv'
    BY <1>7 DEF handleTrackingEvent, Gets
  <2>6. RecordingInv'
    BY <1>7 DEF handleTrackingEvent, Gets
  <2>7. FramesAreWhole'
    BY <1>7 DEF handleTrackingEvent, Gets
  <2>8. QED
    BY <2>1, <2>2, <2>3, <2>4, <2>5, <2>6, <2>7
<1>8. CASE SetsHeader
  BY <1>8 DEF SetsHeader
<1>9. CASE SetsHands
  BY <1>9 DEF SetsHands
<1>10. CASE handleDeviceEvent
  <2>1. TypeOK'
    BY <1>10, DeviceEvent DEF handleDeviceEvent
  <2>2. LockInv'
    BY <1>10 DEF handleDeviceEvent, Gets
  <2>3. LifeInv'
    BY <1>10 DEF handleDeviceEvent, Gets
  <2>4. SerialInv'
    BY <1>10 DEF handleDeviceEvent, Gets
  <2>5. DeviceInv'
    BY <1>10, DeviceEvent DEF handleDeviceEvent, Gets
  <2>6. RecordingInv'
    BY <1>10 DEF handleDeviceEvent, Gets
  <2>7. FramesAreWhole'
    BY <1>10 DEF handleDeviceEvent, Gets
  <2>8. QED
    BY <2>1, <2>2, <2>3, <2>4, <2>5, <2>6, <2>7
<1>11. CASE setDevice
  BY <1>11 DEF setDevice
<1>12. CASE CopiesDevice
  BY <1>12 DEF CopiesDevice
<1>13. CASE OwnsSerial
  BY <1>13 DEF OwnsSerial
<1>14. CASE DeviceFound
  <2>1. TypeOK'
    <3>1. loop.open - 1 \in Nat
      BY <1>14 DEF DeviceFound
    <3>2. loop' = [at |-> "check", frame |-> loop.frame, open |-> loop.open - 1]
      BY <1>14 DEF DeviceFound
    <3>3. QED
      BY <1>14, <3>1, <3>2 DEF DeviceFound
  <2>2. LockInv'
    BY <1>14 DEF DeviceFound
  <2>3. LifeInv'
    BY <1>14 DEF DeviceFound
  <2>4. SerialInv'
    BY <1>14 DEF DeviceFound
  <2>5. DeviceInv'
    BY <1>14 DEF DeviceFound
  <2>6. RecordingInv'
    BY <1>14 DEF DeviceFound
  <2>7. FramesAreWhole'
    BY <1>14 DEF DeviceFound
  <2>8. QED
    BY <2>1, <2>2, <2>3, <2>4, <2>5, <2>6, <2>7
<1>15. QED
  BY <1>1, <1>2, <1>3, <1>4, <1>5, <1>6, <1>7, <1>8, <1>9, <1>10, <1>11, <1>12,
     <1>13, <1>14 DEF LoopStep

LEMMA LooksInv ==
    ASSUME Inv, LooksAtFrame
    PROVE  Inv'
<1> USE DEF Inv
<1>1. /\ UNCHANGED <<lib, dataLock, loop>> /\ main.at = "look"
      /\ main'.at \in {"getFrame", "exit"} /\ main'.program = main.program
      /\ main'.serial = main.serial /\ main'.frame = main.frame
  <2>1. main \in [at : MainAt, program : Programs, frame : CachedFrame,
                  lastFrameID : 0 .. MaxFrame, count : 0 .. Recorded, serial : 0 .. Own(MaxDevice)]
    BY DEF TypeOK
  <2>2. QED
    BY <2>1 DEF LooksAtFrame, Main
<1>2. TypeOK' /\ RecordingInv'
  BY <1>1, Looked DEF TypeOK, lib
<1>3. LockInv'
  BY <1>1 DEF LockInv, lib
<1>4. LifeInv'
  <2>1. loop.at # "none" /\ main.program # "callback" /\ dataLock # "destroyed" /\ handle # "destroyed"
    BY <1>1 DEF LifeInv
  <2>2. main'.at = "exit" => loop.at # "none"
    BY <2>1
  <2>3. QED
    BY <1>1, <2>1 DEF LifeInv, lib
<1>5. SerialInv' /\ DeviceInv'
  BY <1>1 DEF SerialInv, DeviceInv, lib
<1>6. FramesAreWhole'
  BY <1>1 DEF FramesAreWhole, lib
<1>7. QED
  BY <1>2, <1>3, <1>4, <1>5, <1>6

LEMMA CloseInv ==
    ASSUME Inv, CloseConnection
    PROVE  Inv'
<1> USE DEF Inv
<1>1. /\ UNCHANGED <<IsConnected, dataLock, lastFrame, lastDevice, loop, sent, freed, leaked>>
      /\ main.at = "key" /\ main'.program = main.program /\ main'.serial = main.serial
      /\ main'.frame = main.frame /\ main'.count = main.count
      /\ main' \in [at : MainAt, program : Programs, frame : CachedFrame,
                    lastFrameID : 0 .. MaxFrame, count : 0 .. Recorded, serial : 0 .. Own(MaxDevice)]
      /\ \/ isRunning /\ isRunning' = FALSE /\ handle' = "closed" /\ main'.at = "join"
         \/ ~isRunning /\ isRunning' = FALSE /\ handle' = handle /\ main'.at = "destroy"
  <2>1. main \in [at : MainAt, program : Programs, frame : CachedFrame,
                  lastFrameID : 0 .. MaxFrame, count : 0 .. Recorded, serial : 0 .. Own(MaxDevice)]
    BY DEF TypeOK
  <2>2. isRunning \in BOOLEAN
    BY DEF TypeOK
  <2>3. QED
    BY <2>1, <2>2 DEF CloseConnection, Main, MainAt
<1>2. TypeOK'
  BY <1>1 DEF TypeOK
<1>3. LockInv'
  BY <1>1 DEF LockInv
<1>4. LifeInv'
  BY <1>1 DEF LifeInv
<1>5. SerialInv' /\ DeviceInv'
  BY <1>1 DEF SerialInv, DeviceInv
<1>6. RecordingInv' /\ FramesAreWhole'
  <2>1. main.program # "recording"
    BY <1>1 DEF LifeInv
  <2>2. QED
    BY <1>1, <2>1 DEF RecordingInv, FramesAreWhole
<1>7. QED
  BY <1>2, <1>3, <1>4, <1>5, <1>6

LEMMA MainInv ==
    ASSUME Inv, main.at # "exit", MainStep \/ CloseConnection
    PROVE  Inv'
<1> USE BoundAssumption DEF Inv, TypeOK, LockInv, LifeInv, SerialInv, DeviceInv,
        RecordingInv, FramesAreWhole, CachedFrame, LoopAt, MainAt, Main, lib, Event, Own
<1>1. CASE OpenConnection
  <2>1. TypeOK'
    BY <1>1 DEF OpenConnection, Begun, Loop
  <2>2. LockInv'
    BY <1>1 DEF OpenConnection, Begun, Loop
  <2>3. LifeInv'
    BY <1>1 DEF OpenConnection, Begun, Loop
  <2>4. SerialInv'
    BY <1>1 DEF OpenConnection, Begun, Loop
  <2>5. DeviceInv'
    BY <1>1 DEF OpenConnection, Begun, Loop
  <2>6. RecordingInv'
    BY <1>1 DEF OpenConnection, Begun, Loop
  <2>7. FramesAreWhole'
    BY <1>1 DEF OpenConnection, Begun, Loop
  <2>8. QED
    BY <2>1, <2>2, <2>3, <2>4, <2>5, <2>6, <2>7
<1>2. CASE SeesConnection
  BY <1>2 DEF SeesConnection
<1>3. CASE GetDeviceProperties
  BY <1>3 DEF GetDeviceProperties
<1>4. CASE LoadsSerial
  BY <1>4 DEF LoadsSerial
<1>5. CASE PrintsSerial
  BY <1>5 DEF PrintsSerial
<1>6. CASE NoRecording
  BY <1>6 DEF NoRecording
<1>7. CASE GetsHeader
  BY <1>7 DEF GetsHeader
<1>8. CASE GetsHands
  BY <1>8 DEF GetsHands
<1>9. CASE LooksAtFrame
  BY <1>9, LooksInv DEF Inv
<1>10. CASE Join
  BY <1>10 DEF Join
<1>11. CASE DestroyConnection
  BY <1>11 DEF DestroyConnection
<1>12. CASE CloseConnection
  BY <1>12, CloseInv DEF Inv
<1>13. QED
  BY <1>1, <1>2, <1>3, <1>4, <1>5, <1>6, <1>7, <1>8, <1>9, <1>10, <1>11, <1>12 DEF MainStep

LEMMA NextInv == Inv /\ [Next]_vars => Inv'
<1>1. ASSUME Inv, UNCHANGED vars PROVE Inv'
  BY <1>1 DEF vars, Inv, TypeOK, LockInv, LifeInv, SerialInv, DeviceInv, RecordingInv,
       FramesAreWhole, CachedFrame, LoopAt, MainAt
<1>2. QED
  BY <1>1, LoopInv, MainInv DEF Next

\* Every reachable state satisfies the inductive invariant.
LEMMA Invariance == Spec => []Inv
BY InitInv, NextInv, PTL DEF Spec

-----------------------------------------------------------------------------
\* The types: in particular a recording never stores more frames than it has
\* room for (RecordPlaybackSample.c), with any number of frames sent.
THEOREM TypeCorrect == Spec => []TypeOK
<1>1. Inv => TypeOK
  BY DEF Inv
<1>2. QED
  BY <1>1, Invariance, PTL

\* GetFrame never returns the header of one frame with the hands of another:
\* setFrame and GetFrame copy under the same mutex.
THEOREM WholeFrames == Spec => []FramesAreWhole
<1>1. Inv => FramesAreWhole
  BY DEF Inv
<1>2. QED
  BY <1>1, Invariance, PTL

\* CloseConnection joins the loop before the mutex is destroyed, and
\* DestroyConnection comes after it: neither is used after its end.
THEOREM NoUseAfterEnd == Spec => []NothingUsedAfterEnd
<1>1. Inv => NothingUsedAfterEnd
  BY DEF Inv, TypeOK, LifeInv, NothingUsedAfterEnd, LockIsAlive, LoopAt, MainAt
<1>2. QED
  BY <1>1, Invariance, PTL

\* The serial a program prints is freed under it by a second device at the
\* earliest (GetDeviceProperties returns the pointer, setDevice frees it).
THEOREM SerialLives == Spec => []SerialNeedsSecondDevice
<1>1. Inv => SerialNeedsSecondDevice
  BY BoundAssumption DEF Inv, TypeOK, SerialInv, SerialNeedsSecondDevice, Own, Event
<1>2. QED
  BY <1>1, Invariance, PTL

\* Only the second failure of LeapGetDeviceInfo leaves a device open.
THEOREM OneLeak == Spec => []OnlyFailedInfoLeaks
<1>1. Inv => OnlyFailedInfoLeaks
  BY DEF Inv, DeviceInv, OnlyFailedInfoLeaks
<1>2. QED
  BY <1>1, Invariance, PTL
=============================================================================
