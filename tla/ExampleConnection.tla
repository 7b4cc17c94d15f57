--------------------------- MODULE ExampleConnection ---------------------------
(***************************************************************************)
(* The connection library of the LeapC samples (src/officialWrapper/       *)
(* example/ExampleConnection.c) under the programs that use it: the ones   *)
(* that poll GetFrame() (PollingSample.c, and RecordPlaybackSample.c,      *)
(* which stops after some frames) and the ones whose callbacks run until a *)
(* key is pressed (CallbackSample.c, ImageSample.c).                       *)
(*                                                                         *)
(* A frame is two fields that deepCopyTrackingEvent copies one after the   *)
(* other: the header with the hand count, and the hands.  Both are named   *)
(* by the id of the frame they come from.                                  *)
(***************************************************************************)
EXTENDS Integers

CONSTANTS
    Programs,       \* the programs: "polling", "recording", "callback"
    MaxFrame,       \* bound: frames the service sends
    MaxDevice,      \* bound: device events the service sends
    Recorded        \* the frames a recording has

ASSUME BoundAssumption ==
    /\ Programs \subseteq {"polling", "recording", "callback"}
    /\ MaxFrame \in Nat /\ MaxDevice \in Nat /\ Recorded \in Nat \ {0}

VARIABLES
    IsConnected,    \* set by the loop, read by the program without a lock
    isRunning,      \* _isRunning
    handle,         \* what connectionHandle is: NULL, created, open, closed, destroyed
    dataLock,       \* none, free, destroyed, or who holds it
    lastFrame,      \* NULL, or header and hands
    lastDevice,     \* NULL, or which allocation its serial is: see Event and Own
    loop,           \* serviceMessageLoop
    main,           \* the program
    sent,           \* messages polled: the last frame's id, device events
    freed,          \* ghost: the allocations of serials freed
    leaked          \* ghost: devices left open when their info failed

vars == <<IsConnected, isRunning, handle, dataLock, lastFrame, lastDevice, loop, main,
          sent, freed, leaked>>

Null == [header |-> 0, hands |-> 0]     \* no frame, ids begin at 1

Init ==
    /\ IsConnected = FALSE /\ isRunning = FALSE /\ handle = "NULL" /\ dataLock = "none"
    /\ lastFrame = Null /\ lastDevice = 0
    /\ loop = [at |-> "none", frame |-> 0, open |-> 0]
    /\ main \in [at : {"open"}, program : Programs, frame : {Null}, lastFrameID : {0},
                 count : {0}, serial : {0}]
    /\ sent = [frame |-> 0, device |-> 0]
    /\ freed = {} /\ leaked = 0

Main(label) == main' = [main EXCEPT !.at = label]
Loop(label) == loop' = [loop EXCEPT !.at = label]

lib == <<IsConnected, isRunning, handle, lastFrame, lastDevice, sent, freed, leaked>>

-----------------------------------------------------------------------------
(* OpenConnection, CloseConnection, DestroyConnection                      *)
Begun == IF main.program = "callback" THEN "key" ELSE "wait"

\* LeapCreateConnection or LeapOpenConnection may fail; the caller goes on.
OpenConnection ==
    /\ main.at = "open"
    /\ Main(Begun)
    /\ \/ /\ handle' \in {"NULL", "created"}
          /\ UNCHANGED <<isRunning, dataLock, loop>>
       \/ /\ handle' = "open" /\ isRunning' = TRUE /\ dataLock' = "free"
          /\ Loop("check")
    /\ UNCHANGED <<IsConnected, lastFrame, lastDevice, sent, freed, leaked>>

CloseConnection ==
    /\ main.at = "key"
    /\ IF isRunning
         THEN isRunning' = FALSE /\ handle' = "closed" /\ Main("join")
         ELSE Main("destroy") /\ UNCHANGED <<isRunning, handle>>
    /\ UNCHANGED <<IsConnected, dataLock, lastFrame, lastDevice, loop, sent, freed, leaked>>

\* Variant with a defect: the lock goes before the thread is joined.
DestroysLockFirst ==
    /\ main.at = "join"
    /\ dataLock' = "destroyed"
    /\ IF loop.at = "done" THEN Main("destroy") ELSE UNCHANGED main
    /\ UNCHANGED <<lib, loop>>

Join ==
    /\ main.at = "join" /\ loop.at = "done"
    /\ dataLock' = "destroyed"
    /\ Main("destroy")
    /\ UNCHANGED <<lib, loop>>

DestroyConnection ==
    /\ main.at = "destroy"
    /\ handle' = "destroyed"
    /\ Main("exit")
    /\ UNCHANGED <<IsConnected, isRunning, dataLock, lastFrame, lastDevice, loop, sent,
                   freed, leaked>>

-----------------------------------------------------------------------------
(* serviceMessageLoop                                                      *)
Check ==
    /\ loop.at = "check"
    /\ Loop(IF isRunning THEN "polling" ELSE "done")
    /\ UNCHANGED <<lib, dataLock, main>>

PollFails ==
    /\ loop.at = "polling"
    /\ Loop("check")
    /\ UNCHANGED <<lib, dataLock, main>>

Gets == loop.at = "polling" /\ handle = "open"

handleConnectionEvent ==
    /\ Gets
    /\ IsConnected' = TRUE /\ Loop("callback")
    /\ UNCHANGED <<isRunning, handle, dataLock, lastFrame, lastDevice, main, sent, freed, leaked>>

handleConnectionLostEvent ==
    /\ Gets /\ IsConnected
    /\ IsConnected' = FALSE /\ Loop("callback")
    /\ UNCHANGED <<isRunning, handle, dataLock, lastFrame, lastDevice, main, sent, freed, leaked>>

\* The handlers that only call back: device lost, failures, logs, images, ...
handleOtherEvent ==
    /\ Gets /\ IsConnected /\ Loop("callback")
    /\ UNCHANGED <<lib, dataLock, main>>

Callback ==
    /\ loop.at = "callback" /\ Loop("check")
    /\ UNCHANGED <<lib, dataLock, main>>

handleTrackingEvent ==
    /\ Gets /\ IsConnected /\ sent.frame < MaxFrame
    /\ sent' = [sent EXCEPT !.frame = @ + 1]
    /\ loop' = [loop EXCEPT !.at = "setFrame", !.frame = sent'.frame]
    /\ UNCHANGED <<IsConnected, isRunning, handle, dataLock, lastFrame, lastDevice, main,
                   freed, leaked>>

\* Variant with a defect: without the lock.
SetsUnlocked ==
    /\ loop.at = "setFrame"
    /\ lastFrame' = [lastFrame EXCEPT !.header = loop.frame]
    /\ Loop("setHands")
    /\ UNCHANGED <<IsConnected, isRunning, handle, dataLock, lastDevice, main, sent, freed, leaked>>

\* setFrame: lock, copy the header, copy the hands, unlock.
SetsHeader ==
    /\ loop.at = "setFrame" /\ dataLock = "free"
    /\ dataLock' = "loop"
    /\ lastFrame' = [lastFrame EXCEPT !.header = loop.frame]
    /\ Loop("setHands")
    /\ UNCHANGED <<IsConnected, isRunning, handle, lastDevice, main, sent, freed, leaked>>

SetsHands ==
    /\ loop.at = "setHands"
    /\ lastFrame' = [lastFrame EXCEPT !.hands = loop.frame]
    /\ dataLock' = "free"
    /\ Loop("callback")
    /\ UNCHANGED <<IsConnected, isRunning, handle, lastDevice, main, sent, freed, leaked>>

\* handleDeviceEvent: the device is opened, or not; its info may fail when it
\* is asked the second time, which leaves the device open.
handleDeviceEvent ==
    /\ Gets /\ IsConnected /\ sent.device < MaxDevice
    /\ sent' = [sent EXCEPT !.device = @ + 1]
    /\ \/ Loop("check") /\ UNCHANGED leaked
       \/ loop' = [loop EXCEPT !.at = "setDevice", !.open = @ + 1] /\ UNCHANGED leaked
       \/ loop' = [loop EXCEPT !.at = "check", !.open = @ + 1] /\ leaked' = leaked + 1
    /\ UNCHANGED <<IsConnected, isRunning, handle, dataLock, lastFrame, lastDevice, main, freed>>

\* The two allocations of a device's serial: the handler's and setDevice's.
Event(device) == 2 * device - 1
Own(device) == 2 * device

\* setDevice: lock, free the serial of the device before, copy the struct with
\* the handler's serial in it, allocate a serial of its own, unlock.
setDevice ==
    /\ loop.at = "setDevice" /\ dataLock = "free"
    /\ dataLock' = "loop"
    /\ freed' = freed \cup {lastDevice}
    /\ Loop("copyDevice")
    /\ UNCHANGED <<IsConnected, isRunning, handle, lastFrame, lastDevice, main, sent, leaked>>

CopiesDevice ==
    /\ loop.at = "copyDevice"
    /\ lastDevice' = Event(sent.device)
    /\ Loop("ownSerial")
    /\ UNCHANGED <<IsConnected, isRunning, handle, dataLock, lastFrame, main, sent, freed, leaked>>

\* Variant with a defect: the handler's serial is kept, which is freed below.
SharesSerial ==
    /\ loop.at = "ownSerial"
    /\ dataLock' = "free"
    /\ Loop("deviceFound")
    /\ UNCHANGED <<lib, main>>

OwnsSerial ==
    /\ loop.at = "ownSerial"
    /\ lastDevice' = Own(sent.device)
    /\ dataLock' = "free"
    /\ Loop("deviceFound")
    /\ UNCHANGED <<IsConnected, isRunning, handle, lastFrame, main, sent, freed, leaked>>

\* Variant with a defect: the device is left open.
LeavesDeviceOpen ==
    /\ loop.at = "deviceFound" /\ Loop("check")
    /\ UNCHANGED <<lib, dataLock, main>>

\* on_device_found, then the handler's serial is freed and the device closed.
DeviceFound ==
    /\ loop.at = "deviceFound"
    /\ freed' = freed \cup {Event(sent.device)}
    /\ loop' = [loop EXCEPT !.at = "check", !.open = @ - 1]
    /\ UNCHANGED <<IsConnected, isRunning, handle, dataLock, lastFrame, lastDevice, main, sent, leaked>>

-----------------------------------------------------------------------------
(* The program that polls                                                  *)
\* while(!IsConnected) millisleep(100): a flag that is set and reset between
\* two looks goes unseen.
SeesConnection ==
    /\ main.at = "wait" /\ IsConnected
    /\ Main("properties")
    /\ UNCHANGED <<lib, dataLock, loop>>

\* GetDeviceProperties returns the pointer, not a copy.
GetDeviceProperties ==
    /\ main.at = "properties" /\ dataLock = "free"
    /\ Main(IF lastDevice = 0 THEN "getFrame" ELSE "serial")
    /\ UNCHANGED <<lib, dataLock, loop>>

\* printf gets the serial's address, then reads what it finds there, both
\* without the lock: setDevice may be anywhere.
LoadsSerial ==
    /\ main.at = "serial"
    /\ main' = [main EXCEPT !.at = "print", !.serial = lastDevice]
    /\ UNCHANGED <<lib, dataLock, loop>>

PrintsSerial ==
    /\ main.at = "print" /\ Main("getFrame")
    /\ UNCHANGED <<lib, dataLock, loop>>

\* LeapRecordingOpen fails: no frame is looked at.
NoRecording ==
    /\ main.program = "recording" /\ main.at = "getFrame" /\ main.lastFrameID = 0
    /\ Main("exit")
    /\ UNCHANGED <<lib, dataLock, loop>>

\* GetFrame: lock; no frame yet, or the header, the hands; unlock.
GetsHeader ==
    /\ main.at = "getFrame" /\ dataLock = "free" /\ lastFrame # Null
    /\ dataLock' = "main"
    /\ main' = [main EXCEPT !.at = "getHands", !.frame.header = lastFrame.header]
    /\ UNCHANGED <<lib, loop>>

GetsHands ==
    /\ main.at = "getHands"
    /\ dataLock' = "free"
    /\ main' = [main EXCEPT !.at = "look", !.frame.hands = lastFrame.hands]
    /\ UNCHANGED <<lib, loop>>

\* Variant with a defect: ids are compared the other way round.
IsNewMirrored == main.frame.header < main.lastFrameID

IsNew == main.frame.header > main.lastFrameID

LooksAtFrame ==
    /\ main.at = "look"
    /\ IF IsNew
         THEN main' = [main EXCEPT !.lastFrameID = main.frame.header,
                          !.count = IF main.program = "recording" THEN @ + 1 ELSE @,
                          !.at = IF main.program = "recording" /\ main.count + 1 = Recorded
                                   THEN "exit" ELSE "getFrame"]
         ELSE Main("getFrame")
    /\ UNCHANGED <<lib, dataLock, loop>>

-----------------------------------------------------------------------------
LoopStep ==
    \/ Check \/ PollFails \/ Callback
    \/ handleConnectionEvent \/ handleConnectionLostEvent \/ handleOtherEvent
    \/ handleTrackingEvent \/ SetsHeader \/ SetsHands
    \/ handleDeviceEvent \/ setDevice \/ CopiesDevice \/ OwnsSerial \/ DeviceFound

MainStep ==
    \/ OpenConnection \/ SeesConnection
    \/ GetDeviceProperties \/ LoadsSerial \/ PrintsSerial \/ NoRecording
    \/ GetsHeader \/ GetsHands \/ LooksAtFrame
    \/ Join \/ DestroyConnection

\* A key may never be pressed.
Next == main.at # "exit" /\ (LoopStep \/ MainStep \/ CloseConnection)

Spec == Init /\ [][Next]_vars

\* Both threads run; the polling thread gets the mutex although the program
\* takes it again and again.
FairSpec ==
    /\ Spec
    /\ WF_vars(main.at # "exit" /\ MainStep) /\ WF_vars(main.at # "exit" /\ LoopStep)
    /\ SF_vars(main.at # "exit" /\ (SetsHeader \/ setDevice))
    /\ SF_vars(main.at # "exit" /\ (GetsHeader \/ GetDeviceProperties))

-----------------------------------------------------------------------------
(* Properties                                                              *)

CachedFrame == [header : 0 .. MaxFrame, hands : 0 .. MaxFrame]
LoopAt == {"none", "check", "polling", "callback", "setFrame", "setHands", "setDevice",
           "copyDevice", "ownSerial", "deviceFound", "done"}
MainAt == {"open", "wait", "properties", "serial", "print", "getFrame", "getHands", "look",
           "key", "join", "destroy", "exit"}

TypeOK ==
    /\ IsConnected \in BOOLEAN /\ isRunning \in BOOLEAN
    /\ handle \in {"NULL", "created", "open", "closed", "destroyed"}
    /\ dataLock \in {"none", "free", "destroyed", "loop", "main"}
    /\ lastFrame \in CachedFrame
    /\ lastDevice \in 0 .. Own(MaxDevice) /\ freed \subseteq 0 .. Own(MaxDevice)
    /\ loop \in [at : LoopAt, frame : 0 .. MaxFrame, open : Nat] /\ leaked \in Nat
    /\ main \in [at : MainAt, program : Programs, frame : CachedFrame,
                 lastFrameID : 0 .. MaxFrame, count : 0 .. Recorded, serial : 0 .. Own(MaxDevice)]
    /\ sent \in [frame : 0 .. MaxFrame, device : 0 .. MaxDevice]

\* The frame a program prints or records has the header and the hands of one
\* and the same frame, though the loop overwrites the cache (setFrame, GetFrame).
FramesAreWhole == main.at = "look" => main.frame.header = main.frame.hands

\* The mutex is only used between its initialisation and its destruction, in
\* whatever order the connection comes and goes.
LockIsAlive ==
    /\ main.at \in {"properties", "getFrame", "getHands"} => dataLock \notin {"none", "destroyed"}
    /\ loop.at \in {"setFrame", "setHands", "setDevice", "copyDevice", "ownSerial"} =>
          dataLock \notin {"none", "destroyed"}

\* Main joins the loop before it destroys the mutex and the connection: nobody
\* uses either after its end, or polls a destroyed connection.
NothingUsedAfterEnd ==
    /\ LockIsAlive
    /\ handle = "destroyed" => loop.at \in {"none", "done"}

\* The pointer GetDeviceProperties returns outlives the lock: the serial can be
\* freed while it is printed, but only by another device found meanwhile.
SerialNeedsSecondDevice ==
    (main.at = "print" /\ main.serial \in freed) => sent.device >= 2

\* Between messages a device is open only if its info failed the second time
\* it was asked: that return of handleDeviceEvent forgets LeapCloseDevice.
OnlyFailedInfoLeaks ==
    loop.at \in {"check", "polling", "done"} => loop.open = leaked

\* What the service sent last is seen in the end by a program that polls, or a
\* newer one; a recording that is complete has stopped looking.
NewestFrameIsSeen ==
    \A id \in 1 .. MaxFrame :
        (lastFrame.header = id /\ main.at \in {"getFrame", "look"}) ~>
            (main.lastFrameID >= id \/ main.at = "exit")
=============================================================================
