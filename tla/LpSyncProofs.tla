---------------------------- MODULE LpSyncProofs ----------------------------
(***************************************************************************)
(* Theorems about the synchronisation task, for any number of retries,     *)
(* polling threads, hands and keys: main, monitor, executor and the        *)
(* wrapper's threads together.                                             *)
(***************************************************************************)
EXTENDS LpSync, LeapWrapperProofs, WellFoundedInduction

\* Before the first thread of start(), and from the last one on.
Unthreaded == {"connect", "connecting", "ffh", "start", "initializing"}
Threaded   == {"wait", "join", "destroy", "exited"}

\* How far the three threads may be apart.
ThreadsInv ==
    /\ main \in Unthreaded => monitor = "off"
    /\ main \notin Threaded => exec.pc = "off"
    /\ main \in Threaded => monitor # "off" /\ exec.pc # "off"
    /\ main \in {"destroy", "exited"} => monitor = "done" /\ exec.pc = "done"
    /\ running <=> (main \in {"initializing", "spawn", "wait"} /\ monitor \in {"off", "check"})

\* Who has the wrapper's call, and what the wrapper is after it.
CallsInv ==
    /\ op \in {"opening", "probing", "fetching"} => main = "connecting"
    /\ op = "registering" => main = "initializing"
    /\ op = "joining" => monitor = "stopped"
    /\ (main = "connecting" /\ op = "idle" /\ result = "success") => inConncetion
    /\ (main \notin {"connect", "connecting"} /\ monitor \in {"off", "check", "stopping"}) => inConncetion
    /\ monitor \in {"stopped", "done"} =>
         /\ ~inConncetion /\ handle # 0
         /\ op # "joining" => conns[handle] = "destroyed"

\* The sockets of the valid hands, main's progress with them.
SocketsInv ==
    /\ main = "ffh" => \A h \in Valid \ next : sock[h] = "open"
    /\ main \in {"start", "initializing", "spawn", "wait", "join", "destroy"} =>
         \A h \in Valid : sock[h] = "open"
    /\ main = "exited" => \A h \in Valid : sock[h] = "closed"

\* The left hand's socket is the only one a retry can find open.
LeftOpen == IF sock["left"] = "open" THEN 1 ELSE 0

LeakInv ==
    /\ main \in {"connect", "connecting"} => sock["right"] # "open"
    /\ (main = "ffh" /\ next # {}) => sock["right"] # "open"
    /\ main \in {"connect", "ffh"} => lostFds + LeftOpen <= handle
    /\ (main = "connecting" \/ (main = "ffh" /\ "left" \in next)) => lostFds + LeftOpen < handle
    /\ LeaksPerRetry

SyncInv == Inv /\ TypeOK /\ ThreadsInv /\ CallsInv /\ SocketsInv /\ LeakInv

-----------------------------------------------------------------------------
\* The task only adds a way to die to what the wrapper does.
LEMMA WrapperSteps ==
    ASSUME [Next]_vars
    PROVE  [WrapperNext]_wrapperVars \/ ExecWildCopy
<1>1. CASE UNCHANGED vars
  BY <1>1 DEF vars
<1>2. CASE Main
  BY <1>2 DEF Main, MainConnectAborts, MainConnect, MainCall, MainConnected, MainFfh, MainFfhFails, MainFfhDone,
     MainStart, MainInitialize, MainSpawn, MainWait, MainJoin, MainDestroy, WrapperNext, ClientStep
<1>3. CASE Monitor
  BY <1>3 DEF Monitor, MonitorKey, MonitorDisconnect, MonitorClose, MonitorReturn, WrapperNext, ClientStep
<1>4. CASE Executor
  BY <1>4 DEF Executor, ExecCheck, ExecIterate, ExecDecide, ExecSend
<1>5. CASE \E p \in DOMAIN pollers : Polling(p) \/ Reloading(p)
  BY <1>5 DEF Polling, Reloading, WrapperNext
<1>6. CASE Service
  BY <1>6 DEF Service, WrapperNext, ServiceStep
<1>7. CASE (\E line \in Lines : Type(line)) \/ DeliverLate
  BY <1>7 DEF Type, DeliverLate
<1>8. QED
  BY <1>1, <1>2, <1>3, <1>4, <1>5, <1>6, <1>7 DEF Next

LEMMA WildCopyKeeps == Inv /\ ExecWildCopy => Inv'
<1> SUFFICES ASSUME Inv, ExecWildCopy PROVE Inv'
  OBVIOUS
<1>1. /\ UNCHANGED <<inConncetion, handle, pollers, op, left, result, reg, conns, link, told, openDevices,
                     frameBuffer, hands, lastFrame, shown, age>>
      /\ fault' \in FaultKind
  BY DEF ExecWildCopy, Crash, clientVars, leapcVars, frameVars, FaultKind
<1>2. WrapperTypeOK'
  BY <1>1 DEF Inv, WrapperTypeOK
<1>3. CallInv' /\ NoThreadOutlivesConnection'
  BY <1>1 DEF Inv, CallInv, NoThreadOutlivesConnection
<1>4. ThreadInv' /\ RingInv' /\ RoomInv'
  BY <1>1 DEF Inv, ThreadInv, Busy, Handling, RingInv, RoomInv, Backed
<1>5. QED
  BY <1>2, <1>3, <1>4 DEF Inv

LEMMA WrapperKeeps == Inv /\ [Next]_vars => Inv'
BY WrapperSteps, WildCopyKeeps, InvStep

-----------------------------------------------------------------------------
\* The first left hand of a copy exists.
LEMMA FirstIsLeast ==
    ASSUME NEW T \in SUBSET Nat, T # {}
    PROVE  \E k \in T : \A j \in T : k <= j
<1>1. PICK k \in T : \A j \in T : ~(<<j, k>> \in OpToRel(<, Nat))
  BY NatLessThanWellFounded, WFMin
<1>2. \A j \in T : ~(j < k)
  BY <1>1 DEF OpToRel
<1>3. QED
  BY <1>2
-----------------------------------------------------------------------------
(* Types                                                                   *)
TaskType ==
    /\ main \in {"connect", "connecting", "ffh", "start", "initializing", "spawn", "wait",
                 "join", "destroy", "exited"}
    /\ monitor \in {"off", "check", "stopping", "stopped", "done"}
    /\ running \in BOOLEAN /\ inConnection \in BOOLEAN

SockType ==
    /\ sock \in [FFH -> {"none", "open", "bad", "closed"}]
    /\ next \subseteq Valid
    /\ lostFds \in 0 .. MaxFdLeak

KeyType == kernel \in Seq(Keys) /\ stdio \in Seq(Keys) /\ typed \in 0 .. MaxLines

Executing == [pc : ExecPC, size : 0 .. MaxHands, cmd : Command]

CopyType == seen \in [1 .. MaxHands -> SUBSET Hand] /\ moved \in BOOLEAN

ExecType == exec \in Executing /\ CopyType

UdpType == sent \in Command /\ device \in Command /\ net \in Command \cup {"nothing"}

LEMMA TypeParts ==
    TypeOK <=> WrapperTypeOK /\ TaskType /\ SockType /\ KeyType /\ ExecType /\ UdpType
BY DEF TypeOK, TaskType, SockType, KeyType, ExecType, Executing, CopyType, UdpType

LEMMA Constants ==
    /\ MaxHands \in Nat /\ MaxFdLeak \in Nat /\ MaxLines \in Nat /\ MaxConn \in Nat
    /\ Valid \subseteq FFH /\ Open \in Command /\ Open \notin Pose
BY FrameAssumption, FdAssumption, KeyAssumption, FfhAssumption, BoundAssumption, HandFields DEF Command, Pose

\* A command decided on is one of the commands.
LEMMA DecisionType ==
    ASSUME NEW n \in Nat, NEW s \in [1 .. n -> Hand]
    PROVE  Decision(s) \subseteq Command
<1> DEFINE lefts == {k \in DOMAIN s : s[k].type = "left"}
           first == CHOOSE k \in lefts : \A j \in lefts : k <= j
<1>1. CASE lefts = {}
  BY <1>1 DEF Decision, Command
<1>2. CASE lefts # {}
  <2>1. lefts \in SUBSET Nat
    OBVIOUS
  <2>2. \E k \in lefts : \A j \in lefts : k <= j
    BY <1>2, <2>1, FirstIsLeast
  <2>3. first \in lefts
    BY <2>2
  <2>4. s[first] \in Hand
    BY <2>3
  <2>5. s[first].pose \in Pose
    BY <2>4 DEF Pose
  <2>6. DOMAIN s # {}
    BY <1>2
  <2>7. Decision(s) = IF s[first].confident THEN {s[first].pose} ELSE {Open}
    BY <1>2, <2>6 DEF Decision
  <2>8. QED
    BY <2>5, <2>7 DEF Command
<1>3. QED
  BY <1>1, <1>2

LEMMA SendsType ==
    ASSUME exec \in Executing, NEW c \in Command, Sends(c)
    PROVE  exec' \in Executing
<1>1. 0 \in 0 .. MaxHands
  BY Constants
<1>2. QED
  BY <1>1 DEF Sends, Executing, ExecPC

\* What the wrapper's hands hold is hands, before and after a step.
LEMMA HandsHold ==
    ASSUME hands \in Hands
    PROVE  hands.size \in 0 .. MaxHands /\ \A k \in 1 .. MaxHands : hands.data[k] \in Hand
BY DEF Hands

LEMMA TransmitType ==
    ASSUME UdpType, NEW cmd \in Command, Transmit(cmd)
    PROVE  UdpType'
BY DEF UdpType, Transmit

LEMMA InitTypes == Init => TypeOK
<1> SUFFICES ASSUME Init PROVE TypeOK
  OBVIOUS
<1>1. WrapperTypeOK
  BY InvInit DEF Init, Inv
<1>2. TaskType /\ SockType /\ KeyType
  <2>1. TaskType
    BY DEF Init, TaskType
  <2>2. SockType
    BY Constants DEF Init, SockType
  <2>3. KeyType
    BY Constants DEF Init, KeyType
  <2>4. QED
    BY <2>1, <2>2, <2>3
<1>3. ExecType
  <2>1. exec = [pc |-> "off", size |-> 0, cmd |-> Open] /\ "off" \in ExecPC
    BY DEF Init, ExecPC
  <2>2. exec \in Executing
    BY <2>1, Constants DEF Executing
  <2>3. CopyType
    BY DEF Init, NotCopying, CopyType
  <2>4. QED
    BY <2>2, <2>3 DEF ExecType
<1>4. UdpType
  BY Constants DEF Init, UdpType
<1>5. QED
  BY <1>1, <1>2, <1>3, <1>4, TypeParts

LEMMA MainTypes ==
    ASSUME TypeOK, Main
    PROVE  TaskType' /\ SockType' /\ KeyType' /\ ExecType' /\ UdpType'
<1> USE Constants DEF taskVars, keyVars, raceVars, udpVars
<1>0. TaskType /\ SockType /\ KeyType /\ ExecType /\ UdpType
  BY TypeParts
<1>1. CASE MainConnectAborts \/ MainConnect \/ MainCall \/ MainConnected
  BY <1>0, <1>1 DEF MainConnectAborts, MainConnect, MainCall, MainConnected, ToConnect, TaskType, SockType, KeyType, ExecType, CopyType, UdpType
<1>2. ASSUME NEW h \in Valid, MainFfh(h) PROVE TaskType' /\ SockType' /\ KeyType' /\ ExecType' /\ UdpType'
  <2>1. UdpType'
    BY <1>0, <1>2, TransmitType DEF MainFfh, UdpType
  <2>2. SockType'
    BY <1>0, <1>2 DEF MainFfh, SockType, Lose
  <2>3. TaskType' /\ KeyType' /\ ExecType'
    BY <1>0, <1>2 DEF MainFfh, TaskType, KeyType, ExecType, CopyType
  <2>4. QED
    BY <2>1, <2>2, <2>3
<1>3. ASSUME NEW h \in Valid, MainFfhFails(h) PROVE TaskType' /\ SockType' /\ KeyType' /\ ExecType' /\ UdpType'
  BY <1>0, <1>3 DEF MainFfhFails, Lose, TaskType, SockType, KeyType, ExecType, CopyType, UdpType
<1>4. CASE MainFfhDone \/ MainStart \/ MainInitialize \/ MainWait \/ MainJoin
  BY <1>0, <1>4 DEF MainFfhDone, MainStart, MainInitialize, MainWait, MainJoin, TaskType, SockType,
     KeyType, ExecType, CopyType, UdpType
<1>5. CASE MainSpawn
  <2>1. exec' \in Executing
    BY <1>0, <1>5 DEF MainSpawn, ExecType, Executing, ExecPC
  <2>2. CopyType'
    BY <1>0, <1>5 DEF MainSpawn, ExecType, CopyType
  <2>3. TaskType' /\ SockType'
    BY <1>0, <1>5 DEF MainSpawn, TaskType, SockType
  <2>4. KeyType' /\ UdpType'
    BY <1>0, <1>5 DEF MainSpawn, KeyType, UdpType
  <2>5. QED
    BY <2>1, <2>2, <2>3, <2>4 DEF ExecType
<1>6. CASE MainDestroy
  BY <1>0, <1>6 DEF MainDestroy, TaskType, SockType, KeyType, ExecType, CopyType, UdpType
<1>7. QED
  BY <1>1, <1>2, <1>3, <1>4, <1>5, <1>6 DEF Main

LEMMA MonitorTypes ==
    ASSUME TypeOK, Monitor
    PROVE  TaskType' /\ SockType' /\ KeyType' /\ ExecType' /\ UdpType'
<1> USE DEF taskVars, keyVars, raceVars, udpVars
<1>0. TaskType /\ SockType /\ KeyType /\ ExecType /\ UdpType
  BY TypeParts
<1>1. CASE MonitorKey
  <2>1. KeyType'
    <3>1. CASE KeyReady
      <4>1. kernel # <<>> /\ Buffered \in Seq(Keys) /\ Buffered # <<>>
        BY <1>0, <3>1 DEF KeyReady, Buffered, KeyType
      <4>2. stdio' = Tail(Buffered) /\ kernel' \in {<<>>, kernel}
        BY <1>1, <3>1 DEF MonitorKey, GetChar
      <4>3. Tail(Buffered) \in Seq(Keys)
        BY <4>1
      <4>4. QED
        <5>1. typed' = typed
          BY <1>1 DEF MonitorKey
        <5>2. <<>> \in Seq(Keys)
          OBVIOUS
        <5>3. QED
          BY <1>0, <4>2, <4>3, <5>1, <5>2 DEF KeyType
    <3>2. CASE ~KeyReady
      BY <1>0, <1>1, <3>2 DEF MonitorKey, KeyType
    <3>3. QED
      BY <3>1, <3>2
  <2>2. TaskType' /\ SockType' /\ ExecType' /\ UdpType'
    BY <1>0, <1>1 DEF MonitorKey, TaskType, SockType, ExecType, CopyType, UdpType
  <2>3. QED
    BY <2>1, <2>2
<1>2. CASE MonitorDisconnect \/ MonitorClose \/ MonitorReturn
  BY <1>0, <1>2 DEF MonitorDisconnect, MonitorClose, MonitorReturn, TaskType, SockType, KeyType, ExecType, CopyType, UdpType
<1>3. QED
  BY <1>1, <1>2 DEF Monitor

LEMMA ExecutorTypes ==
    ASSUME TypeOK, Executor
    PROVE  TaskType' /\ SockType' /\ KeyType' /\ ExecType' /\ UdpType'
<1> USE Constants DEF taskVars, keyVars, raceVars, udpVars
<1>0. TaskType /\ SockType /\ KeyType /\ ExecType /\ UdpType
  BY TypeParts
<1>1. TaskType' /\ SockType' /\ KeyType'
  BY <1>0 DEF Executor, ExecCheck, ExecIterate, ExecDecide, ExecWildCopy, ExecSend, TaskType, SockType, KeyType
<1>2. UdpType'
  <2>1. CASE ExecSend
    BY <1>0, <2>1, TransmitType DEF ExecSend, ExecType, Executing, UdpType
  <2>2. CASE ~ExecSend
    BY <1>0, <2>2 DEF Executor, ExecCheck, ExecIterate, ExecDecide, ExecWildCopy, UdpType
  <2>3. QED
    BY <2>1, <2>2
<1>3. ExecType'
  <2>1. CASE ExecCheck \/ ExecSend \/ ExecWildCopy
    <3>1. exec' \in Executing
      BY <1>0, <2>1 DEF ExecCheck, ExecSend, ExecWildCopy, ExecType, Executing, ExecPC
    <3>2. CopyType'
      BY <1>0, <2>1 DEF ExecCheck, ExecSend, ExecWildCopy, ExecType, CopyType
    <3>3. QED
      BY <3>1, <3>2 DEF ExecType
  <2>2. CASE ExecIterate
    <3>1. hands.size \in 0 .. MaxHands /\ \A k \in 1 .. MaxHands : hands.data[k] \in Hand
      BY HandsHold DEF TypeOK, WrapperTypeOK
    <3>2. CASE inConncetion
      <4>1. exec' = [exec EXCEPT !.pc = "copying", !.size = hands.size]
        BY <2>2, <3>2 DEF ExecIterate
      <4>2. seen' = [k \in 1 .. MaxHands |-> {hands.data[k]}] /\ moved' = FALSE
        BY <2>2, <3>2 DEF ExecIterate
      <4>3. exec' \in Executing
        BY <1>0, <3>1, <4>1 DEF ExecType, Executing, ExecPC
      <4>4. CopyType'
        BY <3>1, <4>2 DEF CopyType
      <4>5. QED
        BY <4>3, <4>4 DEF ExecType
    <3>3. CASE ~inConncetion
      <4>1. Sends(Open) /\ UNCHANGED seen /\ moved' = FALSE
        BY <2>2, <3>3 DEF ExecIterate
      <4>2. exec' \in Executing
        BY <1>0, <4>1, SendsType, Constants DEF ExecType
      <4>3. CopyType'
        BY <1>0, <4>1 DEF ExecType, CopyType
      <4>4. QED
        BY <4>2, <4>3 DEF ExecType
    <3>4. QED
      BY <3>2, <3>3
  <2>3. CASE ExecDecide
    <3>1. PICK s \in Snapshots : IF Decision(s) = {} THEN exec' = [exec EXCEPT !.pc = "check", !.size = 0]
                                ELSE \E cmd \in Decision(s) : Sends(cmd)
      BY <2>3 DEF ExecDecide
    <3>2. Decision(s) \subseteq Command
      <4>1. exec.size \in Nat /\ s \in [1 .. exec.size -> Hand]
        BY <1>0, <3>1 DEF Snapshots, ExecType, Executing
      <4>2. QED
        BY <4>1, DecisionType
    <3>3. exec' \in Executing
      <4>1. CASE Decision(s) = {}
        <5>1. exec' = [exec EXCEPT !.pc = "check", !.size = 0] /\ 0 \in 0 .. MaxHands
          BY <3>1, <4>1
        <5>2. QED
          BY <1>0, <5>1 DEF ExecType, Executing, ExecPC
      <4>2. CASE Decision(s) # {}
        BY <1>0, <3>1, <3>2, <4>2, SendsType DEF ExecType
      <4>3. QED
        BY <4>1, <4>2
    <3>4. CopyType'
      BY <2>3 DEF ExecDecide, NotCopying, CopyType
    <3>5. QED
      BY <3>3, <3>4 DEF ExecType
  <2>4. QED
    BY <2>1, <2>2, <2>3 DEF Executor
<1>4. QED
  BY <1>1, <1>2, <1>3

LEMMA TypesKeep == Inv /\ TypeOK /\ [Next]_vars => TypeOK'
<1> SUFFICES ASSUME Inv, TypeOK, [Next]_vars PROVE TypeOK'
  OBVIOUS
<1> USE DEF taskVars, keyVars, raceVars, udpVars
<1>0. TaskType /\ SockType /\ KeyType /\ ExecType /\ UdpType
  BY TypeParts
<1>1. WrapperTypeOK'
  BY WrapperKeeps DEF Inv
<1>2. ASSUME NEW p \in DOMAIN pollers, Polling(p)
      PROVE  TaskType' /\ SockType' /\ KeyType' /\ ExecType' /\ UdpType'
  <2>1. \A k \in 1 .. MaxHands : hands'.data[k] \in Hand
    BY <1>1, HandsHold DEF WrapperTypeOK, Hands
  <2>2. CopyType'
    <3>1. CASE exec.pc = "copying"
      <4>1. seen' = [k \in 1 .. MaxHands |-> seen[k] \cup {hands'.data[k]}]
        BY <1>2, <3>1 DEF Polling
      <4>2. moved' \in BOOLEAN
        BY <1>0, <1>2, <3>1 DEF Polling, ExecType, CopyType
      <4>3. seen' \in [1 .. MaxHands -> SUBSET Hand]
        BY <1>0, <2>1, <4>1 DEF ExecType, CopyType
      <4>4. QED
        BY <4>2, <4>3 DEF CopyType
    <3>2. CASE exec.pc # "copying"
      BY <1>0, <1>2, <3>2 DEF Polling, ExecType, CopyType
    <3>3. QED
      BY <3>1, <3>2
  <2>3. QED
    BY <1>0, <1>2, <2>2 DEF Polling, TaskType, SockType, KeyType, ExecType, CopyType, UdpType
<1>3. ASSUME Service \/ UNCHANGED vars \/ (\E p \in DOMAIN pollers : Reloading(p))
      PROVE  TaskType' /\ SockType' /\ KeyType' /\ ExecType' /\ UdpType'
  <2>1. UNCHANGED <<taskVars, exec, monitor, keyVars, raceVars, udpVars>>
    BY <1>3 DEF Service, Reloading, vars
  <2>2. TaskType' /\ SockType' /\ KeyType'
    BY <1>0, <2>1 DEF TaskType, SockType, KeyType
  <2>3. ExecType' /\ UdpType'
    BY <1>0, <2>1 DEF ExecType, CopyType, UdpType
  <2>4. QED
    BY <2>2, <2>3
<1>4. ASSUME NEW line \in Lines, Type(line)
      PROVE  TaskType' /\ SockType' /\ KeyType' /\ ExecType' /\ UdpType'
  <2>1. KeyType'
    BY <1>0, <1>4, KeyAssumption DEF Type, KeyType
  <2>2. QED
    BY <1>0, <1>4, <2>1 DEF Type, TaskType, SockType, ExecType, CopyType, UdpType
<1>5. ASSUME DeliverLate
      PROVE  TaskType' /\ SockType' /\ KeyType' /\ ExecType' /\ UdpType'
  <2>1. UdpType'
    BY <1>0, <1>5 DEF DeliverLate, UdpType
  <2>2. TaskType' /\ SockType' /\ KeyType'
    BY <1>0, <1>5 DEF DeliverLate, TaskType, SockType, KeyType
  <2>3. ExecType'
    BY <1>0, <1>5 DEF DeliverLate, ExecType, CopyType
  <2>4. QED
    BY <2>1, <2>2, <2>3
<1>6. TaskType' /\ SockType' /\ KeyType' /\ ExecType' /\ UdpType'
  <2>1. ASSUME Main \/ Monitor \/ Executor
        PROVE  TaskType' /\ SockType' /\ KeyType' /\ ExecType' /\ UdpType'
    BY <2>1, MainTypes, MonitorTypes, ExecutorTypes
  <2>2. QED
    BY <1>2, <1>3, <1>4, <1>5, <2>1 DEF Next
<1>7. TypeOK'
  BY <1>1, <1>6 DEF TypeOK, TaskType, SockType, KeyType, ExecType, Executing, CopyType, UdpType
<1>8. QED
  BY <1>7
-----------------------------------------------------------------------------
(* The threads                                                             *)
\* What the executor's steps do to the three program counters.
LEMMA ExecutorMoves ==
    ASSUME TypeOK, Executor
    PROVE  /\ UNCHANGED <<main, monitor, running, inConnection, sock, next, lostFds>>
           /\ exec.pc \notin {"off", "done"}
           /\ exec'.pc \in ExecPC \ {"off"}
           /\ (exec'.pc = "done") => exec.pc = "check" /\ ~running
           /\ UNCHANGED <<inConncetion, handle, pollers, op, left, result, reg, conns>>
<1> USE DEF taskVars, wrapperVars, clientVars, leapcVars
<1>0. exec \in Executing
  BY DEF TypeOK, Executing
<1>1. CASE ExecCheck
  BY <1>0, <1>1 DEF ExecCheck, ExecLoops, Executing, ExecPC
<1>2. CASE ExecIterate
  BY <1>0, <1>2 DEF ExecIterate, Sends, Executing, ExecPC
<1>3. CASE ExecDecide
  <2>1. exec'.pc \in {"check", "sending"}
    BY <1>0, <1>3 DEF ExecDecide, Sends, Executing
  <2>2. QED
    BY <1>3, <2>1 DEF ExecDecide, ExecPC
<1>4. CASE ExecWildCopy
  BY <1>0, <1>4 DEF ExecWildCopy, Executing, ExecPC
<1>5. CASE ExecSend
  BY <1>0, <1>5 DEF ExecSend, Executing, ExecPC
<1>6. QED
  BY <1>1, <1>2, <1>3, <1>4, <1>5 DEF Executor

\* A polling thread only moves while the process lives, and leaves the
\* client's call alone.
LEMMA PollersOnly ==
    ASSUME NEW p \in DOMAIN pollers, PollerStep(p)
    PROVE  Alive /\ UNCHANGED clientVars
<1> USE DEF At
<1>1. CASE PollerCheck(p) \/ PollerNoMessage(p) \/ PollerLinkEvent(p) \/ PollerData(p) \/ CallLogger(p)
  BY <1>1 DEF PollerCheck, PollerNoMessage, PollerLinkEvent, PollerData, Receive, CallLogger
<1>2. CASE DispatchFrame(p) \/ DispatchDevice(p) \/ DispatchLinkEvent(p) \/ DispatchUnknown(p)
  BY <1>2 DEF DispatchFrame, DispatchDevice, DispatchLinkEvent, DispatchUnknown
<1>3. CASE CallEmpty(p) \/ OnFrameBegin(p) \/ OnFrameUnsized(p) \/ OnFrameAdd(p) \/ OnFrameAdvance(p)
  BY <1>3 DEF CallEmpty, OnFrameBegin, OnFrameUnsized, OnFrameAdd, OnFrameAdvance
<1>4. CASE OnFrameBack(p) \/ OnFrameResize(p) \/ OnFrameHeapRace(p) \/ OnFrameClear(p)
  BY <1>4 DEF OnFrameBack, OnFrameResize, OnFrameHeapRace, OnFrameClear
<1>5. CASE OnFrameCopy(p) \/ OnFrameWildRead(p) \/ OnFrameWildWrite(p)
  BY <1>5 DEF OnFrameCopy, OnFrameWildRead, OnFrameWildWrite
<1>6. QED
  BY <1>1, <1>2, <1>3, <1>4, <1>5 DEF PollerStep

\* Polling threads, the service, the user and the network leave them alone.
LEMMA OthersMove ==
    ASSUME [Next]_vars, ~Main, ~Monitor, ~Executor
    PROVE  /\ UNCHANGED <<main, monitor, exec, running, inConnection, sock, next, lostFds>>
           /\ UNCHANGED <<inConncetion, handle, op, left, reg, conns>>
           /\ UNCHANGED result
<1> USE DEF taskVars, wrapperVars, clientVars, leapcVars
<1>1. ASSUME NEW p \in DOMAIN pollers, Polling(p)
      PROVE  /\ UNCHANGED <<main, monitor, exec, running, inConnection, sock, next, lostFds>>
             /\ UNCHANGED <<inConncetion, handle, op, left, reg, conns>>
             /\ UNCHANGED result
  <2>1. UNCHANGED result
    BY <1>1, PollersOnly DEF Polling
  <2>2. QED
    BY <1>1, <2>1, PollerLeaves DEF Polling
<1>2. ASSUME Service \/ UNCHANGED vars \/ (\E p \in DOMAIN pollers : Reloading(p))
      PROVE  /\ UNCHANGED <<main, monitor, exec, running, inConnection, sock, next, lostFds>>
             /\ UNCHANGED <<inConncetion, handle, op, left, reg, conns>>
             /\ UNCHANGED result
  BY <1>2 DEF Service, ServiceUp, ServiceLost, Reloading, OnFrameReload, frameVars, vars
<1>3. ASSUME NEW line \in Lines, Type(line)
      PROVE  /\ UNCHANGED <<main, monitor, exec, running, inConnection, sock, next, lostFds>>
             /\ UNCHANGED <<inConncetion, handle, op, left, reg, conns>>
             /\ UNCHANGED result
  BY <1>3 DEF Type
<1>4. ASSUME DeliverLate
      PROVE  /\ UNCHANGED <<main, monitor, exec, running, inConnection, sock, next, lostFds>>
             /\ UNCHANGED <<inConncetion, handle, op, left, reg, conns>>
             /\ UNCHANGED result
  BY <1>4 DEF DeliverLate
<1>5. QED
  BY <1>1, <1>2, <1>3, <1>4 DEF Next
LEMMA ThreadsKeep == TypeOK /\ ThreadsInv /\ [Next]_vars => ThreadsInv'
<1> SUFFICES ASSUME TypeOK, ThreadsInv, [Next]_vars PROVE ThreadsInv'
  OBVIOUS
<1> USE DEF taskVars
<1>0. exec \in Executing
  BY DEF TypeOK, Executing
<1>1. CASE Main
  <2>1. CASE MainConnectAborts \/ MainConnect \/ MainCall \/ MainConnected \/ MainFfhDone
    BY <2>1 DEF MainConnectAborts, MainConnect, MainCall, MainConnected, MainFfhDone, ThreadsInv, Unthreaded, Threaded
  <2>2. ASSUME NEW h \in Valid, MainFfh(h) \/ MainFfhFails(h) PROVE ThreadsInv'
    BY <2>2 DEF MainFfh, MainFfhFails, ThreadsInv, Unthreaded, Threaded
  <2>3. CASE MainStart
    BY <2>3 DEF MainStart, ThreadsInv, Unthreaded, Threaded
  <2>4. CASE MainInitialize
    BY <2>4 DEF MainInitialize, ThreadsInv, Unthreaded, Threaded
  <2>5. CASE MainSpawn
    <3>1. CASE monitor = "off"
      BY <2>5, <3>1 DEF MainSpawn, ThreadsInv, Unthreaded, Threaded
    <3>2. CASE monitor # "off"
      <4>1. exec'.pc = "check" /\ main' = "wait" /\ main = "spawn" /\ UNCHANGED <<monitor, running>>
        BY <1>0, <2>5, <3>2 DEF MainSpawn, Executing
      <4>2. QED
        BY <3>2, <4>1 DEF ThreadsInv, Unthreaded, Threaded
    <3>3. QED
      BY <3>1, <3>2
  <2>6. CASE MainWait
    BY <2>6 DEF MainWait, ThreadsInv, Unthreaded, Threaded
  <2>7. CASE MainJoin
    BY <2>7 DEF MainJoin, ThreadsJoined, ThreadsInv, Unthreaded, Threaded
  <2>8. CASE MainDestroy
    BY <2>8 DEF MainDestroy, ThreadsInv, Unthreaded, Threaded
  <2>9. QED
    BY <1>1, <2>1, <2>2, <2>3, <2>4, <2>5, <2>6, <2>7, <2>8 DEF Main
<1>2. CASE Monitor
  <2>1. CASE MonitorKey
    <3>1. /\ monitor = "check" /\ running /\ UNCHANGED <<main, exec>>
          /\ (monitor' = "stopping" /\ ~running') \/ UNCHANGED <<monitor, running>>
      BY <2>1 DEF MonitorKey
    <3>2. QED
      BY <3>1 DEF ThreadsInv, Unthreaded, Threaded
  <2>2. CASE MonitorDisconnect \/ MonitorClose \/ MonitorReturn
    BY <2>2 DEF MonitorDisconnect, MonitorClose, MonitorReturn, ThreadsInv, Unthreaded, Threaded
  <2>3. QED
    BY <1>2, <2>1, <2>2 DEF Monitor
<1>3. CASE Executor
  BY <1>3, ExecutorMoves DEF ThreadsInv, Threaded
<1>4. CASE ~Main /\ ~Monitor /\ ~Executor
  BY <1>4, OthersMove DEF ThreadsInv
<1>5. QED
  BY <1>1, <1>2, <1>3, <1>4

-----------------------------------------------------------------------------
(* The wrapper's calls                                                     *)
LEMMA CallsKeep == Inv /\ TypeOK /\ ThreadsInv /\ CallsInv /\ [Next]_vars => CallsInv'
<1> SUFFICES ASSUME Inv, TypeOK, ThreadsInv, CallsInv, [Next]_vars PROVE CallsInv'
  OBVIOUS
<1> USE DEF taskVars, wrapperVars, clientVars, leapcVars
<1>0. /\ CallInv /\ handle \in Nat /\ MaxConn \in Nat
      /\ conns \in [1 .. MaxConn -> {"none", "created", "open", "destroyed"}]
      /\ handle \in 0 .. MaxConn
  BY Constants DEF Inv, WrapperTypeOK, Connection
<1>1. CASE Main
  <2>1. CASE MainConnect
    BY <1>0, <2>1 DEF MainConnect, ConnectCreate, CallsInv, ThreadsInv, Unthreaded
  <2>2. CASE MainCall
    <3>1. main = "connecting" /\ monitor = "off" /\ UNCHANGED <<main, monitor>>
      BY <2>2 DEF MainCall, ThreadsInv, Unthreaded
    <3>2. /\ op' \in {"probing", "fetching", "idle"}
          /\ op' = "idle" /\ result' = "success" => inConncetion' \/ op = "idle"
      BY <2>2 DEF MainCall, ConnectOpen, ConnectProbeNothing, ConnectProbeDevice, ConnectFetch
    <3>3. op # "idle"
      BY <2>2 DEF MainCall, ConnectOpen, ConnectProbeNothing, ConnectProbeDevice, ConnectFetch
    <3>4. QED
      BY <3>1, <3>2, <3>3 DEF CallsInv
  <2>3. CASE MainConnected
    BY <2>3 DEF MainConnected, CallsInv, ThreadsInv, Unthreaded
  <2>4. ASSUME NEW h \in Valid, MainFfh(h) \/ MainFfhFails(h) PROVE CallsInv'
    BY <2>4 DEF MainFfh, MainFfhFails, CallsInv
  <2>5. CASE MainFfhDone \/ MainStart \/ MainSpawn \/ MainWait \/ MainJoin \/ MainDestroy
    BY <2>5 DEF MainFfhDone, MainStart, MainSpawn, MainWait, MainJoin, MainDestroy, CallsInv
  <2>6. CASE MainInitialize
    BY <2>6 DEF MainInitialize, Initialize, CallsInv, ThreadsInv, Unthreaded
  <2>7. CASE MainConnectAborts
    BY <2>7 DEF MainConnectAborts, ConnectAborts, CallsInv
  <2>8. QED
    BY <1>1, <2>1, <2>2, <2>3, <2>4, <2>5, <2>6, <2>7 DEF Main
<1>2. CASE Monitor
  <2>1. CASE MonitorKey
    <3>1. /\ monitor = "check" /\ monitor' \in {"stopping", "check"}
          /\ UNCHANGED <<main, inConncetion, handle, op, result, conns>>
      BY <2>1 DEF MonitorKey
    <3>2. QED
      BY <3>1 DEF CallsInv
  <2>2. CASE MonitorDisconnect
    <3>1. main \notin {"connect", "connecting", "initializing"} /\ monitor = "stopping" /\ inConncetion
      BY <2>2 DEF MonitorDisconnect, CallsInv, ThreadsInv, Unthreaded
    <3>2. op' = "joining" /\ ~inConncetion' /\ monitor' = "stopped" /\ UNCHANGED <<handle, main>>
      BY <2>2, <3>1 DEF MonitorDisconnect, DisconnectBegin
    <3>3. handle # 0
      BY <1>0, <3>1 DEF CallInv
    <3>4. QED
      BY <3>1, <3>2, <3>3 DEF CallsInv
  <2>3. CASE MonitorClose
    <3>1. /\ monitor = "stopped" /\ UNCHANGED <<main, monitor, inConncetion, handle>> /\ op' = "idle"
          /\ conns' = [conns EXCEPT ![handle] = "destroyed"]
      BY <2>3 DEF MonitorClose, DisconnectClose
    <3>2. handle \in 1 .. MaxConn
      BY <1>0, <3>1 DEF CallsInv
    <3>3. conns'[handle'] = "destroyed"
      BY <1>0, <3>1, <3>2
    <3>4. main \notin {"connect", "connecting"}
      BY <3>1 DEF ThreadsInv, Unthreaded
    <3>5. QED
      BY <3>1, <3>3, <3>4 DEF CallsInv
  <2>4. CASE MonitorReturn
    BY <2>4 DEF MonitorReturn, CallsInv
  <2>5. QED
    BY <1>2, <2>1, <2>2, <2>3, <2>4 DEF Monitor
<1>3. CASE Executor
  BY <1>3, ExecutorMoves DEF CallsInv
<1>4. CASE ~Main /\ ~Monitor /\ ~Executor
  BY <1>4, OthersMove DEF CallsInv
<1>5. QED
  BY <1>1, <1>2, <1>3, <1>4

-----------------------------------------------------------------------------
(* The sockets                                                             *)
LEMMA SocketsKeep == TypeOK /\ SocketsInv /\ [Next]_vars => SocketsInv'
<1> SUFFICES ASSUME TypeOK, SocketsInv, [Next]_vars PROVE SocketsInv'
  OBVIOUS
<1> USE Constants DEF taskVars
<1>0. sock \in [FFH -> {"none", "open", "bad", "closed"}] /\ next \subseteq Valid
  BY DEF TypeOK
<1>1. CASE Main
  <2>1. CASE MainConnectAborts \/ MainConnect \/ MainCall
    BY <2>1 DEF MainConnectAborts, MainConnect, MainCall, SocketsInv
  <2>2. CASE MainConnected
    BY <2>2 DEF MainConnected, ToConnect, SocketsInv
  <2>3. ASSUME NEW h \in Valid, MainFfh(h) PROVE SocketsInv'
    BY <1>0, <2>3 DEF MainFfh, SocketsInv
  <2>4. ASSUME NEW h \in Valid, MainFfhFails(h) PROVE SocketsInv'
    BY <2>4 DEF MainFfhFails, SocketsInv
  <2>5. CASE MainFfhDone \/ MainStart \/ MainInitialize \/ MainSpawn \/ MainWait \/ MainJoin
    BY <2>5 DEF MainFfhDone, MainStart, MainInitialize, MainSpawn, MainWait, MainJoin, SocketsInv
  <2>6. CASE MainDestroy
    BY <1>0, <2>6 DEF MainDestroy, SocketsInv
  <2>7. QED
    BY <1>1, <2>1, <2>2, <2>3, <2>4, <2>5, <2>6 DEF Main
<1>2. CASE Monitor
  BY <1>2 DEF Monitor, MonitorKey, MonitorDisconnect, MonitorClose, MonitorReturn, SocketsInv
<1>3. CASE Executor
  BY <1>3, ExecutorMoves DEF SocketsInv
<1>4. CASE ~Main /\ ~Monitor /\ ~Executor
  BY <1>4, OthersMove DEF SocketsInv
<1>5. QED
  BY <1>1, <1>2, <1>3, <1>4

\* Every retry has a new handle, and loses at most the left hand's socket.
LEMMA LeaksKeep == Inv /\ TypeOK /\ LeakInv /\ [Next]_vars => LeakInv'
<1> SUFFICES ASSUME Inv, TypeOK, LeakInv, [Next]_vars PROVE LeakInv'
  OBVIOUS
<1> USE Constants DEF taskVars, wrapperVars, LeaksPerRetry, FFH
<1>0. /\ sock \in [FFH -> {"none", "open", "bad", "closed"}] /\ next \subseteq Valid
      /\ handle \in Nat /\ lostFds \in Nat /\ LeftOpen \in {0, 1}
  BY DEF TypeOK, WrapperTypeOK, LeftOpen
<1>1. CASE Main
  <2>1. CASE MainConnect
    <3>1. handle' = handle + 1 /\ UNCHANGED <<sock, lostFds>> /\ main = "connect" /\ main' = "connecting"
      BY <2>1 DEF MainConnect, ConnectCreate
    <3>2. QED
      BY <1>0, <3>1 DEF LeakInv, LeftOpen
  <2>2. CASE MainConnectAborts \/ MainCall
    <3>1. UNCHANGED <<handle, sock, lostFds, main, next>>
      BY <2>2 DEF MainConnectAborts, ConnectAborts, MainCall, ConnectOpen, ConnectProbeNothing, ConnectProbeDevice, ConnectFetch
    <3>2. QED
      BY <3>1 DEF LeakInv, LeftOpen
  <2>3. CASE MainConnected
    <3>1. UNCHANGED <<handle, sock, lostFds>> /\ main = "connecting" /\ main' \in {"ffh", "connect"}
      BY <2>3 DEF MainConnected
    <3>2. QED
      BY <1>0, <3>1 DEF LeakInv, LeftOpen
  <2>4. ASSUME NEW h \in Valid, MainFfh(h) PROVE LeakInv'
    <3>1. /\ main = "ffh" /\ Turn(h) /\ UNCHANGED <<main, handle>>
          /\ lostFds' = IF sock[h] = "open" THEN lostFds + 1 ELSE lostFds
          /\ sock' = [sock EXCEPT ![h] = "open"] /\ next' = next \ {h}
      BY <2>4 DEF MainFfh, Lose
    <3>2. CASE h = "left"
      BY <1>0, <3>1, <3>2 DEF LeakInv, LeftOpen, Turn
    <3>3. CASE h = "right"
      BY <1>0, <3>1, <3>3 DEF LeakInv, LeftOpen, Turn
    <3>4. QED
      BY <3>2, <3>3
  <2>5. ASSUME NEW h \in Valid, MainFfhFails(h) PROVE LeakInv'
    <3>1. /\ main = "ffh" /\ main' = "connect" /\ Turn(h) /\ UNCHANGED handle
          /\ lostFds' = IF sock[h] = "open" THEN lostFds + 1 ELSE lostFds
          /\ sock' = [sock EXCEPT ![h] = "bad"] /\ next' = {}
      BY <2>5 DEF MainFfhFails, Lose
    <3>2. CASE h = "left"
      BY <1>0, <3>1, <3>2 DEF LeakInv, LeftOpen, Turn
    <3>3. CASE h = "right"
      BY <1>0, <3>1, <3>3 DEF LeakInv, LeftOpen, Turn
    <3>4. QED
      BY <3>2, <3>3
  <2>6. CASE MainFfhDone \/ MainStart \/ MainInitialize \/ MainSpawn \/ MainWait \/ MainJoin \/ MainDestroy
    <3>1. /\ UNCHANGED <<handle, lostFds>>
          /\ main' \in {"start", "initializing", "spawn", "wait", "join", "destroy", "exited"}
      BY <2>6 DEF MainFfhDone, MainStart, MainInitialize, Initialize, MainSpawn, MainWait, MainJoin, MainDestroy
    <3>2. QED
      BY <3>1 DEF LeakInv
  <2>7. QED
    BY <1>1, <2>1, <2>2, <2>3, <2>4, <2>5, <2>6 DEF Main
<1>2. CASE Monitor
  <2>1. UNCHANGED <<handle, sock, lostFds, main, next>>
    BY <1>2 DEF Monitor, MonitorKey, MonitorDisconnect, MonitorClose, MonitorReturn, DisconnectBegin,
       DisconnectClose
  <2>2. QED
    BY <2>1 DEF LeakInv, LeftOpen
<1>3. CASE Executor
  BY <1>3, ExecutorMoves DEF LeakInv, LeftOpen
<1>4. CASE ~Main /\ ~Monitor /\ ~Executor
  BY <1>4, OthersMove DEF LeakInv, LeftOpen
<1>5. QED
  BY <1>1, <1>2, <1>3, <1>4

-----------------------------------------------------------------------------
LEMMA SyncInit == Init => SyncInv
<1> SUFFICES ASSUME Init PROVE SyncInv
  OBVIOUS
<1>1. Inv /\ TypeOK
  BY InvInit, InitTypes DEF Init
<1>2. ThreadsInv /\ CallsInv /\ SocketsInv
  BY DEF Init, WrapperInit, ThreadsInv, CallsInv, SocketsInv, Unthreaded, Threaded
<1>3. LeakInv
  BY DEF Init, WrapperInit, LeakInv, LeftOpen, LeaksPerRetry, FFH
<1>4. QED
  BY <1>1, <1>2, <1>3 DEF SyncInv

LEMMA SyncStep == SyncInv /\ [Next]_vars => SyncInv'
BY WrapperKeeps, TypesKeep, ThreadsKeep, CallsKeep, SocketsKeep, LeaksKeep DEF SyncInv

LEMMA SyncInvariance == Spec => []SyncInv
BY SyncInit, SyncStep, PTL DEF Spec

\* The task's state, the commands sent and delivered among it, is well-formed.
THEOREM TaskTypeCorrect == Spec => []TypeOK
<1>1. SyncInv => TypeOK
  BY DEF SyncInv
<1>2. QED
  BY <1>1, SyncInvariance, PTL

\* Whatever tryConnect went through, the executor only sends when the left
\* hand, if it is valid, has an open socket: for any number of retries.
THEOREM SendsOnOpenSockets == Spec => []SocketOpenWhileSending
<1>1. SyncInv => SocketOpenWhileSending
  <2> SUFFICES ASSUME SyncInv, exec.pc = "sending", "left" \in Valid PROVE sock["left"] = "open"
    BY DEF SocketOpenWhileSending
  <2>1. main \in {"wait", "join"}
    BY DEF SyncInv, ThreadsInv, Threaded
  <2>2. QED
    BY <2>1 DEF SyncInv, SocketsInv
<1>2. QED
  BY <1>1, SyncInvariance, PTL

\* main() returns with every thread ended, the last connection destroyed and
\* the sockets closed, for any number of retries and polling threads.
THEOREM ExitsClean == Spec => []ExitClean
<1>1. SyncInv => ExitClean
  <2> SUFFICES ASSUME SyncInv, main = "exited"
               PROVE  /\ monitor = "done" /\ exec.pc = "done" /\ ~inConncetion
                      /\ \A p \in DOMAIN pollers : pollers[p].pc = "done"
                      /\ conns[handle] = "destroyed"
                      /\ \A h \in Valid : sock[h] = "closed"
    BY DEF ExitClean
  <2>1. monitor = "done" /\ exec.pc = "done"
    BY DEF SyncInv, ThreadsInv
  <2>2. ~inConncetion /\ op # "joining" /\ conns[handle] = "destroyed"
    BY <2>1 DEF SyncInv, CallsInv
  <2>3. \A p \in DOMAIN pollers : pollers[p].pc = "done"
    BY <2>2 DEF SyncInv, Inv, NoThreadOutlivesConnection
  <2>4. QED
    BY <2>1, <2>2, <2>3 DEF SyncInv, SocketsInv
<1>2. QED
  BY <1>1, SyncInvariance, PTL

\* Retries lose fewer descriptors than they make connections, for any number.
THEOREM LeaksBounded == Spec => []LeaksPerRetry
<1>1. SyncInv => LeaksPerRetry
  BY DEF SyncInv, LeakInv
<1>2. QED
  BY <1>1, SyncInvariance, PTL
-----------------------------------------------------------------------------
(* The task implements SyncLifecycle.                                      *)
Connecting == {"connect", "connecting", "ffh", "start"}

PhaseNow ==
    IF ~Alive THEN "dead"
    ELSE IF main = "exited" THEN "exited"
    ELSE IF running THEN "running"
    ELSE IF main \in Connecting THEN "connecting" ELSE "stopping"

\* The arms of Phase do not overlap, before and after a step.
LEMMA PhaseIs == (SyncInv => Phase = PhaseNow) /\ (SyncInv' => Phase' = PhaseNow')
<1>1. SyncInv => ~(main = "exited" /\ running)
  BY DEF SyncInv, ThreadsInv
<1>2. SyncInv' => ~(main' = "exited" /\ running')
  BY DEF SyncInv, ThreadsInv
<1>3. ASSUME ~(main = "exited" /\ running) PROVE Phase = PhaseNow
  <2>1. CASE ~Alive
    BY <2>1 DEF Phase, PhaseNow
  <2>2. CASE Alive /\ main = "exited"
    BY <1>3, <2>2 DEF Phase, PhaseNow
  <2>3. CASE Alive /\ main # "exited" /\ running
    BY <2>3 DEF Phase, PhaseNow
  <2>4. CASE Alive /\ main # "exited" /\ ~running
    BY <2>4 DEF Phase, PhaseNow, Connecting
  <2>5. QED
    BY <2>1, <2>2, <2>3, <2>4
<1>4. ASSUME ~(main' = "exited" /\ running') PROVE Phase' = PhaseNow'
  <2>1. CASE ~Alive'
    BY <2>1 DEF Phase, PhaseNow
  <2>2. CASE Alive' /\ main' = "exited"
    BY <1>4, <2>2 DEF Phase, PhaseNow
  <2>3. CASE Alive' /\ main' # "exited" /\ running'
    BY <2>3 DEF Phase, PhaseNow
  <2>4. CASE Alive' /\ main' # "exited" /\ ~running'
    BY <2>4 DEF Phase, PhaseNow, Connecting
  <2>5. QED
    BY <2>1, <2>2, <2>3, <2>4
<1>5. QED
  BY <1>1, <1>2, <1>3, <1>4

\* Where the executor may be in each phase.
LEMMA PhaseFacts ==
    ASSUME SyncInv
    PROVE  /\ main \in Connecting => ~running /\ exec.pc = "off"
           /\ main = "exited" => ~running /\ exec.pc = "done"
           /\ Grace = (Alive /\ main # "exited" /\ ~running /\ main \notin Connecting
                       /\ exec.pc \in {"iterate", "copying", "sending"})
<1>1. /\ main \in Connecting => ~running /\ exec.pc = "off"
      /\ main = "exited" => ~running /\ exec.pc = "done"
  BY DEF SyncInv, ThreadsInv, Connecting, Threaded
<1>2. QED
  BY <1>1, PhaseIs DEF Grace, PhaseNow

LEMMA LifecycleInit == Init => Lifecycle!Init
<1> SUFFICES ASSUME Init PROVE Lifecycle!Init
  OBVIOUS
<1>1. SyncInv
  BY SyncInit
<1>2. Alive /\ main = "connect" /\ running = FALSE /\ exec.pc = "off" /\ sent = Open
  BY DEF Init, WrapperInit, Alive
<1>3. Phase = "connecting" /\ Grace = FALSE
  BY <1>1, <1>2, PhaseIs DEF PhaseNow, Grace, Connecting
<1>4. QED
  BY <1>2, <1>3 DEF Lifecycle!Init

\* A step on which nothing of the life depends.
Stutters == UNCHANGED <<Phase, sent, Grace>>

LifecycleStep == [Lifecycle!Next]_(Lifecycle!lifecycleVars)

LEMMA StutterSteps == Stutters => LifecycleStep
BY DEF Stutters, LifecycleStep, Lifecycle!lifecycleVars

\* When the threads stay where they are, so does the life; a crash ends it,
\* before the exit only.
LEMMA QuietStep ==
    ASSUME SyncInv, SyncInv', UNCHANGED <<main, running, sent>>, exec'.pc = exec.pc,
           UNCHANGED fault \/ (Alive /\ main # "exited")
    PROVE  LifecycleStep
<1>1. CASE UNCHANGED fault
  <2>1. Phase' = Phase
    BY <1>1, PhaseIs DEF PhaseNow, Alive
  <2>2. Grace' = Grace
    BY <2>1 DEF Grace
  <2>3. QED
    BY <2>1, <2>2, StutterSteps DEF Stutters
<1>2. CASE ~UNCHANGED fault
  <2>1. Alive /\ ~Alive' /\ main # "exited"
    BY <1>2 DEF Alive
  <2>2. Phase' = "dead" /\ Phase # "exited"
    BY <2>1, PhaseIs DEF PhaseNow
  <2>3. Grace' = FALSE
    BY <2>2 DEF Grace
  <2>4. QED
    BY <2>2, <2>3 DEF LifecycleStep, Lifecycle!Next, Lifecycle!Die
<1>3. QED
  BY <1>1, <1>2

LEMMA MainLives == SyncInv /\ SyncInv' /\ Main => LifecycleStep
<1> SUFFICES ASSUME SyncInv, SyncInv', Main PROVE LifecycleStep
  OBVIOUS
<1> USE DEF udpVars, wrapperVars
<1>0. exec \in Executing /\ exec' \in Executing
  BY DEF SyncInv, TypeOK, Executing
<1>1. CASE MainConnect \/ MainConnected \/ MainFfhDone
  <2>1. /\ UNCHANGED <<running, sent, exec, fault>> /\ Alive
        /\ main \in Connecting /\ main' \in Connecting
    BY <1>1 DEF MainConnect, ConnectCreate, MainConnected, MainFfhDone, Connecting
  <2>2. Phase' = Phase /\ Grace' = Grace
    BY <2>1, PhaseIs, PhaseFacts DEF PhaseNow, Alive, Connecting, Grace
  <2>3. QED
    BY <2>1, <2>2, StutterSteps DEF Stutters
<1>2. CASE MainConnectAborts \/ MainCall
  <2>1. UNCHANGED <<main, running, sent, exec>> /\ Alive /\ main \in {"connect", "connecting"}
    BY <1>2 DEF MainConnectAborts, ConnectAborts, MainCall, taskVars, ConnectOpen, ConnectProbeNothing, ConnectProbeDevice, ConnectFetch
  <2>2. QED
    BY <2>1, QuietStep
<1>3. ASSUME NEW h \in Valid, MainFfh(h) \/ MainFfhFails(h) PROVE LifecycleStep
  <2>1. /\ UNCHANGED <<running, exec, fault>> /\ Alive /\ main \in Connecting /\ main' \in Connecting
        /\ sent' \in {sent, Open}
    BY <1>3 DEF MainFfh, MainFfhFails, Transmit, Connecting
  <2>2. Phase = "connecting" /\ Phase' = "connecting" /\ Grace' = Grace
    BY <2>1, PhaseIs, PhaseFacts DEF PhaseNow, Alive, Connecting, Grace
  <2>3. QED
    BY <2>1, <2>2 DEF LifecycleStep, Lifecycle!Next, Lifecycle!Connect, Lifecycle!lifecycleVars
<1>4. CASE MainStart
  <2>1. /\ UNCHANGED <<exec, fault, sent>> /\ Alive /\ main = "start" /\ main' = "initializing"
        /\ running' = TRUE /\ running = FALSE
    BY <1>4 DEF MainStart, SyncInv, ThreadsInv, TypeOK
  <2>2. Phase = "connecting" /\ Phase' = "running" /\ Grace' = Grace
    BY <2>1, PhaseIs DEF PhaseNow, Alive, Connecting, Grace
  <2>3. QED
    BY <2>1, <2>2 DEF LifecycleStep, Lifecycle!Next, Lifecycle!Run
<1>5. CASE MainInitialize \/ MainWait \/ MainJoin
  <2>1. /\ UNCHANGED <<running, exec, fault, sent>>
        /\ main \notin Connecting \cup {"exited"} /\ main' \notin Connecting \cup {"exited"}
    BY <1>5 DEF MainInitialize, Initialize, MainWait, MainJoin, Connecting
  <2>2. Phase' = Phase
    BY <2>1, PhaseIs DEF PhaseNow, Alive
  <2>3. Grace' = Grace
    BY <2>1, <2>2 DEF Grace
  <2>4. QED
    BY <2>1, <2>2, <2>3, StutterSteps DEF Stutters
<1>6. CASE MainSpawn
  <2>1. /\ UNCHANGED <<running, fault, sent>>
        /\ main = "spawn" /\ main' \in {"spawn", "wait"} /\ exec'.pc \in {exec.pc, "check"}
    BY <1>0, <1>6 DEF MainSpawn, Executing
  <2>2. Phase' = Phase
    BY <2>1, PhaseIs DEF PhaseNow, Alive, Connecting
  <2>3. exec.pc = "off"
    BY <2>1 DEF SyncInv, ThreadsInv, Threaded
  <2>4. Grace' = Grace
    BY <2>1, <2>2, <2>3 DEF Grace
  <2>5. QED
    BY <2>1, <2>2, <2>4, StutterSteps DEF Stutters
<1>7. CASE MainDestroy
  <2>1. UNCHANGED <<running, fault, sent, exec>> /\ Alive /\ main = "destroy" /\ main' = "exited"
    BY <1>7 DEF MainDestroy
  <2>2. ~running /\ exec.pc = "done"
    BY <2>1 DEF SyncInv, ThreadsInv
  <2>3. Phase = "stopping" /\ Phase' = "exited" /\ Grace = FALSE /\ Grace' = FALSE
    BY <2>1, <2>2, PhaseIs DEF PhaseNow, Alive, Connecting, Grace
  <2>4. QED
    BY <2>1, <2>3 DEF LifecycleStep, Lifecycle!Next, Lifecycle!Exit
<1>8. QED
  BY <1>1, <1>2, <1>3, <1>4, <1>5, <1>6, <1>7 DEF Main

LEMMA MonitorLives == SyncInv /\ SyncInv' /\ Monitor => LifecycleStep
<1> SUFFICES ASSUME SyncInv, SyncInv', Monitor PROVE LifecycleStep
  OBVIOUS
<1> USE DEF udpVars, wrapperVars, taskVars
<1>1. CASE MonitorKey /\ running' = FALSE
  <2>1. UNCHANGED <<main, exec, fault, sent>> /\ Alive /\ running
    BY <1>1 DEF MonitorKey
  <2>2. main \notin Connecting \cup {"exited"}
    BY <2>1 DEF SyncInv, ThreadsInv, Connecting
  <2>3. Phase = "running" /\ Phase' = "stopping" /\ Grace' \in BOOLEAN
    BY <1>1, <2>1, <2>2, PhaseIs DEF PhaseNow, Alive, Grace
  <2>4. QED
    BY <2>1, <2>3 DEF LifecycleStep, Lifecycle!Next, Lifecycle!Stop
<1>2. CASE MonitorKey /\ UNCHANGED running
  BY <1>2, QuietStep DEF MonitorKey
<1>3. CASE MonitorDisconnect \/ MonitorClose \/ MonitorReturn
  <2>1. UNCHANGED <<main, running, exec, fault, sent>>
    BY <1>3 DEF MonitorDisconnect, DisconnectBegin, MonitorClose, DisconnectClose, MonitorReturn
  <2>2. QED
    BY <2>1, QuietStep
<1>4. QED
  <2>1. MonitorKey => running' = FALSE \/ UNCHANGED running
    BY DEF MonitorKey
  <2>2. QED
    BY <1>1, <1>2, <1>3, <2>1 DEF Monitor

LEMMA ExecutorLives == SyncInv /\ SyncInv' /\ Executor => LifecycleStep
<1> SUFFICES ASSUME SyncInv, SyncInv', Executor PROVE LifecycleStep
  OBVIOUS
<1> USE DEF udpVars, wrapperVars
<1>0. exec \in Executing /\ exec' \in Executing /\ UNCHANGED <<main, running>> /\ Alive
  BY ExecutorMoves DEF SyncInv, TypeOK, Executing, Executor, ExecCheck, ExecIterate, ExecDecide,
     ExecWildCopy, ExecSend
<1>1. main \in Threaded \ {"exited"} /\ main \notin Connecting
  BY ExecutorMoves DEF SyncInv, ThreadsInv, Threaded, Connecting
<1>2. CASE ExecWildCopy
  BY <1>0, <1>1, <1>2, QuietStep DEF ExecWildCopy
<1>3. CASE ~ExecWildCopy
  <2>1. UNCHANGED fault
    BY <1>3 DEF Executor, ExecCheck, ExecIterate, ExecDecide, ExecSend
  <2>2. /\ Phase = (IF running THEN "running" ELSE "stopping") /\ Phase' = Phase
        /\ Grace = (~running /\ exec.pc \in {"iterate", "copying", "sending"})
        /\ Grace' = (~running /\ exec'.pc \in {"iterate", "copying", "sending"})
    BY <1>0, <1>1, <2>1, PhaseIs DEF PhaseNow, Alive, Grace
  <2>3. CASE ExecCheck
    <3>1. UNCHANGED sent /\ exec.pc = "check"
          /\ exec'.pc = (IF running THEN "iterate" ELSE "done")
      BY <1>0, <2>3 DEF ExecCheck, ExecLoops, Executing
    <3>2. QED
      BY <2>2, <3>1, StutterSteps DEF Stutters
  <2>4. CASE ExecIterate
    <3>1. UNCHANGED sent /\ exec.pc = "iterate" /\ exec'.pc \in {"copying", "sending"}
      BY <1>0, <2>4 DEF ExecIterate, Sends, Executing
    <3>2. QED
      BY <2>2, <3>1, StutterSteps DEF Stutters
  <2>5. CASE ExecDecide
    <3>1. UNCHANGED sent /\ exec.pc = "copying" /\ exec'.pc \in {"check", "sending"}
      BY <1>0, <2>5 DEF ExecDecide, Sends, Executing
    <3>2. CASE exec'.pc = "sending" \/ running
      BY <2>2, <3>1, <3>2, StutterSteps DEF Stutters
    <3>3. CASE exec'.pc = "check" /\ ~running
      BY <2>2, <3>1, <3>3 DEF LifecycleStep, Lifecycle!Next, Lifecycle!Settle
    <3>4. QED
      BY <3>1, <3>2, <3>3
  <2>6. CASE ExecSend
    <3>1. exec.pc = "sending" /\ exec'.pc = "check"
      BY <1>0, <2>6 DEF ExecSend, Executing
    <3>2. sent' = sent \/ sent' = exec.cmd
      BY <2>6 DEF ExecSend, Transmit
    <3>3. sent' \in Command
      BY DEF SyncInv, TypeOK
    <3>4. Grace' = FALSE
      BY <2>2, <3>1
    <3>5. Phase = "running" \/ (Phase = "stopping" /\ Grace)
      BY <2>2, <3>1
    <3>6. QED
      BY <2>2, <3>3, <3>4, <3>5 DEF LifecycleStep, Lifecycle!Next, Lifecycle!Publish
  <2>7. QED
    BY <1>3, <2>3, <2>4, <2>5, <2>6 DEF Executor
<1>4. QED
  BY <1>2, <1>3

LEMMA OthersLive == SyncInv /\ SyncInv' /\ [Next]_vars /\ ~Main /\ ~Monitor /\ ~Executor => LifecycleStep
<1> SUFFICES ASSUME SyncInv, SyncInv', [Next]_vars, ~Main, ~Monitor, ~Executor PROVE LifecycleStep
  OBVIOUS
<1>1. UNCHANGED <<main, running, exec, sent>>
  BY OthersMove DEF Next, Polling, Reloading, Service, Type, DeliverLate, vars, udpVars
<1>2. UNCHANGED fault \/ (Alive /\ main # "exited")
  <2>1. ASSUME NEW p \in DOMAIN pollers, Polling(p) PROVE Alive /\ main # "exited"
    <3>1. pollers[p].pc # "done"
      BY <2>1, PollerLeaves DEF Polling
    <3>2. inConncetion \/ op = "joining"
      BY <3>1 DEF SyncInv, Inv, NoThreadOutlivesConnection
    <3>3. main # "exited"
      BY <3>2 DEF SyncInv, CallsInv, ThreadsInv
    <3>4. Alive
      BY <2>1, PollersOnly DEF Polling
    <3>5. QED
      BY <3>3, <3>4
  <2>2. CASE Service \/ (\E line \in Lines : Type(line)) \/ DeliverLate \/ UNCHANGED vars
    BY <2>2 DEF Service, ServiceUp, ServiceLost, Type, DeliverLate, vars, wrapperVars
  <2>3. ASSUME NEW p \in DOMAIN pollers, Reloading(p) PROVE UNCHANGED fault
    BY <2>3 DEF Reloading, OnFrameReload
  <2>4. QED
    BY <2>1, <2>2, <2>3 DEF Next
<1>3. QED
  BY <1>1, <1>2, QuietStep

\* The task with all its threads lives the life of SyncLifecycle: after the
\* stop at most the one command of the iteration under way is sent, and none
\* after the exit, for any number of retries, hands and frames.
THEOREM ImplementsSyncLifecycle == Spec => ImplementsLifecycle
<1>1. SyncInv /\ SyncInv' /\ [Next]_vars => LifecycleStep
  BY MainLives, MonitorLives, ExecutorLives, OthersLive
<1>2. QED
  BY <1>1, LifecycleInit, SyncInvariance, PTL DEF Spec, ImplementsLifecycle, Lifecycle!Spec, LifecycleStep

-----------------------------------------------------------------------------
(* What the wrapper guarantees holds inside the task, with the retries of  *)
(* tryConnect, the executor's unlocked copy and its own way to die.        *)
LEMMA FramesInTask == SyncInv /\ FrameInv /\ CountInv /\ [Next]_vars => FrameInv' /\ CountInv'
<1> SUFFICES ASSUME SyncInv, FrameInv, CountInv, [Next]_vars PROVE FrameInv' /\ CountInv'
  OBVIOUS
<1>1. CASE [WrapperNext]_wrapperVars
  BY <1>1, FrameInvStep, CountStep DEF SyncInv
<1>2. CASE ExecWildCopy
  <2>1. UNCHANGED <<pollers, frameVars, handle, op>> /\ fault' # "heap"
    BY <1>2 DEF ExecWildCopy, clientVars, Crash
  <2>2. CountInv'
    BY <2>1 DEF CountInv
  <2>3. QED
    BY <2>1, <2>2, FramesLeftAlone
<1>3. QED
  BY <1>1, <1>2, WrapperSteps

LEMMA FramesInit == Init => FrameInv /\ CountInv
BY FrameInvInit, CountInit DEF Init

\* The task never polls a destroyed connection, however often tryConnect
\* retries and whoever stops it, and onFrame writes outside the allocation of
\* hands_ only while a thread of an earlier attempt has a frame pending; when
\* its first attempt connected there is no such thread, and what the executor
\* finds in hands_ between two frames has the newest frame's size and no hand
\* older than the ring.
THEOREM WrapperSafeInTask ==
    Spec => [](/\ NoUseAfterDestroy /\ OverrunNeedsPendingFrame /\ HandsAgeBounded
               /\ handle = 1 =>
                    /\ \A p \in DOMAIN pollers :
                          pollers[p].pc = "copying" => pollers[p].cur <= hands.cap
                    /\ PrefixFresh /\ AgeBounded)
<1> DEFINE InRoom == \A p \in DOMAIN pollers :
                        pollers[p].pc = "copying" => pollers[p].cur <= hands.cap
<1>1. SyncInv /\ FrameInv /\ CountInv =>
        /\ NoUseAfterDestroy /\ OverrunNeedsPendingFrame /\ HandsAgeBounded
        /\ handle = 1 => InRoom /\ PrefixFresh /\ AgeBounded
  <2> SUFFICES ASSUME SyncInv, FrameInv, CountInv
               PROVE  /\ NoUseAfterDestroy /\ OverrunNeedsPendingFrame /\ HandsAgeBounded
                      /\ handle = 1 => InRoom /\ PrefixFresh /\ AgeBounded
    OBVIOUS
  <2>1. Inv /\ ThreadInv
    BY DEF SyncInv, Inv
  <2>2. NoUseAfterDestroy
    BY <2>1 DEF ThreadInv, Busy, NoUseAfterDestroy
  <2>3. handle = 1 => Len(pollers) <= 1
    BY DEF CountInv
  <2>4. OverrunNeedsPendingFrame /\ (handle = 1 => InRoom)
    BY <2>1, <2>3, OnlyAPendingFrameOverruns
  <2>5. HandsAgeBounded /\ (handle = 1 => PrefixFresh /\ AgeBounded)
    BY <2>1, <2>3, FramesAgeInTheRing DEF HandsAgeBounded
  <2>6. QED
    BY <2>2, <2>4, <2>5
<1>2. QED
  BY <1>1, FramesInit, FramesInTask, SyncInvariance, PTL DEF Spec

\* What MessageStillValid rules out needs a connection that was made again: a
\* task whose first attempt connected polls with one thread, so no poll ends
\* the life of a message another thread still works on, and no resize moves
\* hands_ under another thread's copy (tryConnect, leapMotionV2WrapperImpl).
THEOREM FirstConnectionIsPolledAlone ==
    Spec => [](handle = 1 => MessageStillValid /\ fault # "heap")
<1>1. SyncInv /\ CountInv => (handle = 1 => MessageStillValid /\ fault # "heap")
  <2> SUFFICES ASSUME SyncInv, CountInv, handle = 1 PROVE MessageStillValid /\ fault # "heap"
    OBVIOUS
  <2>1. pollers \in Seq(Poller) /\ Len(pollers) <= 1
    BY DEF SyncInv, Inv, WrapperTypeOK, CountInv
  <2>2. \A p, q \in DOMAIN pollers : p = q
    BY <2>1
  <2>3. QED
    BY <2>1, <2>2 DEF MessageStillValid, CountInv
<1>2. QED
  BY <1>1, FramesInit, FramesInTask, SyncInvariance, PTL DEF Spec

\* start() completes initialize() before it starts the executor: from then on
\* no frame kills the task through an empty callback or an unsized ring.
THEOREM TaskNeverCrashesOnceInitialized ==
    Spec => [][(reg = RegDone /\ fault # fault') =>
                 fault' \notin {"bad_function_call", "unsized_buffer"}]_vars
<1>1. SyncInv /\ [Next]_vars =>
        ((reg = RegDone /\ fault # fault') => fault' \notin {"bad_function_call", "unsized_buffer"})
  BY InitializedStep, WrapperSteps DEF SyncInv, ExecWildCopy, Crash
<1>2. QED
  BY <1>1, SyncInvariance, PTL DEF Spec

-----------------------------------------------------------------------------
(* The executor's copy of hands_.                                          *)

\* The copy stays inside the allocation it began in, and what an entry holds
\* is among what the copy may find there.
CopyInv ==
    /\ hands.size <= hands.cap
    /\ exec.pc = "copying" =>
         /\ exec.size <= hands.cap
         /\ \A k \in 1 .. MaxHands : hands.data[k] \in seen[k]

LEMMA CopyHandsType ==
    ASSUME Inv
    PROVE  /\ hands \in Hands /\ hands.size \in 0 .. MaxHands /\ hands.cap \in 0 .. MaxHands
BY DEF Inv, WrapperTypeOK, Hands

LEMMA SizeFitsKept ==
    ASSUME Inv, NEW p \in DOMAIN pollers, PollerStep(p), hands.size <= hands.cap
    PROVE  hands'.size <= hands'.cap
<1>1. CASE UNCHANGED hands
  BY <1>1
<1>2. ASSUME NEW n \in 0 .. MaxHands, hands' = Resize(hands, n)
      PROVE  hands'.size <= hands'.cap
  BY <1>2, CopyHandsType, ResizeType
<1>3. CASE OnFrameResize(p)
  <2>1. Len(pollers[p].msg.frame) \in 0 .. MaxHands
    BY <1>3, InOnFrame DEF OnFrameResize, At, OnFramePC
  <2>2. hands' = Resize(hands, Len(pollers[p].msg.frame))
    BY <1>3 DEF OnFrameResize
  <2>3. QED
    BY <1>2, <2>1, <2>2
<1>4. CASE OnFrameClear(p)
  <2>1. hands' = Resize(hands, 0) /\ 0 \in 0 .. MaxHands
    BY <1>4, Bounds DEF OnFrameClear
  <2>2. QED
    BY <1>2, <2>1
<1>5. CASE OnFrameCopy(p)
  <2>1. PICK k, v : hands' = [hands EXCEPT !.data[k] = v]
    BY <1>5 DEF OnFrameCopy
  <2>2. QED
    BY <2>1, CopyHandsType DEF Hands
<1>6. QED
  BY <1>1, <1>3, <1>4, <1>5, PollerLeaves

LEMMA CopyKeeps == SyncInv /\ CopyInv /\ [Next]_vars => CopyInv'
<1> SUFFICES ASSUME SyncInv, CopyInv, [Next]_vars PROVE CopyInv'
  OBVIOUS
<1>0. /\ hands \in Hands /\ hands.size \in Nat /\ hands.cap \in Nat
      /\ exec \in Executing /\ exec.size \in Nat
  BY CopyHandsType DEF SyncInv, TypeOK, Executing
<1>1. ASSUME NEW p \in DOMAIN pollers, Polling(p) PROVE CopyInv'
  <2>1. /\ hands'.cap >= hands.cap /\ hands'.cap \in Nat
        /\ hands'.size <= hands'.cap /\ exec' = exec
    <3>1. Inv'
      BY WrapperKeeps DEF SyncInv
    <3>2. hands'.cap \in Nat
      BY <3>1 DEF Inv, WrapperTypeOK, Hands
    <3>3. Inv /\ PollerStep(p) /\ hands.size <= hands.cap /\ exec' = exec
      BY <1>1 DEF Polling, SyncInv, CopyInv
    <3>4. hands'.cap >= hands.cap
      BY <3>3, CapacityStays
    <3>5. hands'.size <= hands'.cap
      BY <3>3, SizeFitsKept
    <3>6. QED
      BY <3>2, <3>3, <3>4, <3>5
  <2>2. exec.pc = "copying" => \A k \in 1 .. MaxHands : hands'.data[k] \in seen'[k]
    BY <1>1 DEF Polling
  <2>3. QED
    BY <1>0, <2>1, <2>2 DEF CopyInv
<1>2. CASE UNCHANGED <<hands, exec, seen>>
  BY <1>2 DEF CopyInv
<1>3. CASE Executor
  <2>1. UNCHANGED hands
    BY <1>3 DEF Executor, ExecCheck, ExecIterate, ExecDecide, ExecWildCopy, ExecSend, wrapperVars, frameVars
  <2>2. CASE ExecIterate
    BY <1>0, <2>1, <2>2 DEF ExecIterate, Sends, CopyInv, Executing
  <2>3. CASE ExecCheck \/ ExecDecide \/ ExecSend
    <3>1. exec'.pc # "copying"
      BY <1>0, <2>3 DEF ExecCheck, ExecDecide, ExecSend, Sends, Executing
    <3>2. QED
      BY <2>1, <3>1 DEF CopyInv
  <2>4. CASE ExecWildCopy
    BY <1>2, <2>1, <2>4 DEF ExecWildCopy, raceVars
  <2>5. QED
    BY <1>3, <2>2, <2>3, <2>4 DEF Executor
<1>4. CASE Main
  <2>1. UNCHANGED <<hands, seen>> 
    BY <1>4 DEF Main, MainConnectAborts, MainConnect, MainCall, MainConnected, MainFfh, MainFfhFails, MainFfhDone,
       MainStart, MainInitialize, MainSpawn, MainWait, MainJoin, MainDestroy, wrapperVars, raceVars,
       ConnectAborts, ConnectCreate, ConnectOpen, ConnectProbeNothing, ConnectProbeDevice, ConnectFetch, Initialize,
       frameVars
  <2>2. UNCHANGED exec \/ exec' = [exec EXCEPT !.pc = "check"]
    BY <1>4 DEF Main, MainConnectAborts, MainConnect, MainCall, MainConnected, MainFfh, MainFfhFails, MainFfhDone,
       MainStart, MainInitialize, MainSpawn, MainWait, MainJoin, MainDestroy
  <2>3. QED
    BY <1>0, <2>1, <2>2 DEF CopyInv, Executing
<1>5. CASE Monitor
  BY <1>2, <1>5 DEF Monitor, MonitorKey, MonitorDisconnect, MonitorClose, MonitorReturn, wrapperVars,
     frameVars, DisconnectBegin, DisconnectClose, raceVars
<1>6. CASE Service \/ UNCHANGED vars \/ (\E p \in DOMAIN pollers : Reloading(p))
  BY <1>2, <1>6 DEF Service, ServiceUp, ServiceLost, Reloading, OnFrameReload, vars, wrapperVars, frameVars,
     raceVars
<1>7. CASE (\E line \in Lines : Type(line)) \/ DeliverLate
  BY <1>2, <1>7 DEF Type, DeliverLate, wrapperVars, frameVars, raceVars
<1>8. QED
  BY <1>1, <1>3, <1>4, <1>5, <1>6, <1>7 DEF Next

LEMMA CopyInit == Init => CopyInv
BY DEF Init, WrapperInit, CopyInv

\* The executor copies at most as many hands as the allocation has room for,
\* although frames resize hands_ meanwhile.
THEOREM CopiesInsideAllocation == Spec => [](exec.pc = "copying" => exec.size <= hands.cap)
<1>1. CopyInv => (exec.pc = "copying" => exec.size <= hands.cap)
  BY DEF CopyInv
<1>2. QED
  BY <1>1, CopyInit, CopyKeeps, SyncInvariance, PTL DEF Spec

\* No thread gave an entry another value or has one half written, and hands_
\* did not move.
Undisturbed ==
    /\ ~moved
    /\ \A k \in 1 .. exec.size : seen[k] \subseteq {hands.data[k]} /\ Incoming(k) = {}

HandsNow == [k \in 1 .. exec.size |-> hands.data[k]]

\* The task as it decides depends on the three fields only.
LEMMA DecisionReads ==
    ASSUME NEW n \in Nat, NEW s, NEW t, DOMAIN s = 1 .. n, DOMAIN t = 1 .. n,
           \A k \in 1 .. n : /\ s[k].type = t[k].type /\ s[k].confident = t[k].confident
                             /\ s[k].pose = t[k].pose
    PROVE  Decision(s) = Decision(t)
<1> DEFINE lefts(x) == {k \in DOMAIN x : x[k].type = "left"}
           first(x) == CHOOSE k \in lefts(x) : \A j \in lefts(x) : k <= j
<1>1. lefts(s) = lefts(t)
  OBVIOUS
<1>2. first(s) = first(t)
  BY <1>1
<1>3. CASE lefts(s) = {}
  BY <1>1, <1>3 DEF Decision
<1>4. CASE lefts(s) # {}
  <2>1. first(s) \in lefts(s)
    <3>1. lefts(s) \in SUBSET Nat
      OBVIOUS
    <3>2. \E k \in lefts(s) : \A j \in lefts(s) : k <= j
      BY <1>4, <3>1, FirstIsLeast
    <3>3. QED
      BY <3>2
  <2>2. s[first(s)].confident = t[first(t)].confident /\ s[first(s)].pose = t[first(t)].pose
    BY <1>2, <2>1
  <2>3. DOMAIN s # {} /\ DOMAIN t # {}
    BY <1>4
  <2> HIDE DEF first
  <2>4. /\ Decision(s) = CASE DOMAIN s = {} -> {Open}
                           [] DOMAIN s # {} /\ lefts(s) = {} -> {}
                           [] lefts(s) # {} /\ ~s[first(s)].confident -> {Open}
                           [] lefts(s) # {} /\ s[first(s)].confident -> {s[first(s)].pose}
        /\ Decision(t) = CASE DOMAIN t = {} -> {Open}
                           [] DOMAIN t # {} /\ lefts(t) = {} -> {}
                           [] lefts(t) # {} /\ ~t[first(t)].confident -> {Open}
                           [] lefts(t) # {} /\ t[first(t)].confident -> {t[first(t)].pose}
    BY DEF Decision, first
  <2> HIDE DEF lefts
  <2>5. QED
    BY <1>1, <1>4, <2>2, <2>3, <2>4
<1>5. QED
  BY <1>3, <1>4

LEMMA UndisturbedCopy ==
    ASSUME SyncInv, CopyInv, exec.pc = "copying", Undisturbed, NEW s \in Snapshots
    PROVE  Decision(s) = Decision(HandsNow)
<1>1. exec.size \in Nat /\ exec.size <= MaxHands
  BY Bounds DEF SyncInv, TypeOK, Executing
<1>2. DOMAIN s = 1 .. exec.size /\ \A k \in 1 .. exec.size : s[k] \in CopyOf(k)
  BY DEF Snapshots
<1>3. DOMAIN HandsNow = 1 .. exec.size /\ \A k \in 1 .. exec.size : HandsNow[k] = hands.data[k]
  BY DEF HandsNow
<1>4. \A k \in 1 .. exec.size : /\ s[k].type = hands.data[k].type
                                /\ s[k].confident = hands.data[k].confident
                                /\ s[k].pose = hands.data[k].pose
  <2> SUFFICES ASSUME NEW k \in 1 .. exec.size
               PROVE  /\ s[k].type = hands.data[k].type
                      /\ s[k].confident = hands.data[k].confident
                      /\ s[k].pose = hands.data[k].pose
    OBVIOUS
  <2>1. seen[k] \cup Incoming(k) \subseteq {hands.data[k]}
    BY DEF Undisturbed
  <2>2. s[k] \in MixOf(seen[k] \cup Incoming(k))
    BY <1>2 DEF CopyOf, Undisturbed
  <2>3. QED
    BY <2>1, <2>2 DEF MixOf
<1>5. QED
  BY <1>1, <1>2, <1>3, <1>4, DecisionReads

\* The copy is unlocked, yet as long as no polling thread writes one of the
\* entries meanwhile the command that comes of it is the one hands_ calls for:
\* the pose of its first left hand, the open hand, or no command at all.
THEOREM UndisturbedCopyDecidesOnHands ==
    Spec => [][(ExecDecide /\ Undisturbed) =>
                 IF Decision(HandsNow) = {}
                   THEN exec'.pc = "check"
                   ELSE exec'.pc = "sending" /\ exec'.cmd \in Decision(HandsNow)]_vars
<1>1. ASSUME SyncInv, CopyInv, ExecDecide, Undisturbed
      PROVE  IF Decision(HandsNow) = {}
               THEN exec'.pc = "check"
               ELSE exec'.pc = "sending" /\ exec'.cmd \in Decision(HandsNow)
  <2>1. exec \in Executing /\ exec.pc = "copying"
    BY <1>1 DEF SyncInv, TypeOK, Executing, ExecDecide
  <2>2. PICK s \in Snapshots :
          IF Decision(s) = {}
            THEN exec' = [exec EXCEPT !.pc = "check", !.size = 0]
            ELSE \E cmd \in Decision(s) : Sends(cmd)
    BY <1>1 DEF ExecDecide
  <2>3. Decision(s) = Decision(HandsNow)
    BY <1>1, <2>1, UndisturbedCopy
  <2>4. CASE Decision(s) = {}
    BY <2>1, <2>2, <2>3, <2>4 DEF Executing
  <2>5. CASE Decision(s) # {}
    BY <2>1, <2>2, <2>3, <2>5 DEF Executing, Sends
  <2>6. QED
    BY <2>4, <2>5
<1>2. QED
  BY <1>1, CopyInit, CopyKeeps, SyncInvariance, PTL DEF Spec

-----------------------------------------------------------------------------
\* What the life the task implements means for the hand: once it is stopped
\* and no iteration is under way, once it has exited and once it has died
\* nothing is sent; and the command of the iteration under way at the stop is
\* the last one.
THEOREM AtMostOneCommandAfterStop ==
    Spec => [][/\ (Phase \in {"exited", "dead"} \/ (Phase = "stopping" /\ ~Grace)) =>
                    sent' = sent /\ ~Grace' /\ Phase' \notin {"connecting", "running"}
               /\ (Phase = "stopping" /\ sent' # sent) => ~Grace' /\ Phase' = "stopping"]_vars
<1> DEFINE Silent == /\ (Phase \in {"exited", "dead"} \/ (Phase = "stopping" /\ ~Grace)) =>
                            sent' = sent /\ ~Grace' /\ Phase' \notin {"connecting", "running"}
                     /\ (Phase = "stopping" /\ sent' # sent) => ~Grace' /\ Phase' = "stopping"
<1>1. SyncInv /\ SyncInv' /\ [Next]_vars => LifecycleStep
  BY MainLives, MonitorLives, ExecutorLives, OthersLive
<1>2. LifecycleStep /\ (Grace => Phase = "stopping") => Silent
  <2> HIDE DEF Silent
  <2> SUFFICES ASSUME LifecycleStep, Grace => Phase = "stopping" PROVE Silent
    OBVIOUS
  <2>1. CASE UNCHANGED <<Phase, sent, Grace>>
    BY <2>1 DEF Silent
  <2>2. CASE Lifecycle!Next
    BY <2>2 DEF Silent, Lifecycle!Next, Lifecycle!Connect, Lifecycle!Run, Lifecycle!Publish,
       Lifecycle!Settle, Lifecycle!Stop, Lifecycle!Exit, Lifecycle!Die
  <2>3. QED
    BY <2>1, <2>2 DEF LifecycleStep, Lifecycle!lifecycleVars
<1>3. Grace => Phase = "stopping"
  BY DEF Grace
<1>4. QED
  BY <1>1, <1>2, <1>3, SyncInvariance, PTL DEF Spec
=============================================================================
