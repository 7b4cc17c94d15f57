------------------------------- MODULE LpSync -------------------------------
(***************************************************************************)
(* The leap_motion_demo task of LpV2SyncFFH (src/task/lpV2SyncFfh.cpp) and *)
(* the program around it: the main thread (tryConnect, start, destructor), *)
(* the monitor thread that reads the keyboard, the executor thread that    *)
(* turns hands_ into commands, and the FFH hands behind UDP.  It composes  *)
(* them with the Leap wrapper, whose calls main and the monitor make and   *)
(* whose hands_ the executor copies without a lock.                        *)
(***************************************************************************)
EXTENDS LeapWrapper

CONSTANTS
    Valid,          \* the FFH hands with hand_Valid set
    Keys,           \* what can be typed; "q" stops the task
    Lines,          \* the lines a user may type: sequences of keys
    MaxLines,       \* bound: lines typed in one behaviour
    MaxFdLeak,      \* bound: socket descriptors lost
    Open            \* the all-zero command, no hand's pose

FFH == {"left", "right"}

ASSUME FfhAssumption == Valid \subseteq FFH
ASSUME KeyAssumption == "q" \in Keys /\ Lines \subseteq Seq(Keys) /\ MaxLines \in Nat
ASSUME FdAssumption == MaxFdLeak \in Nat

\* The fields of a LEAP_HAND the task reads: the type, whether the
\* confidence reaches 0.3, and the bones, which make the pose.
ASSUME HandFields ==
    /\ \A h \in Hand : h.type \in {"left", "right"} /\ h.confident \in BOOLEAN /\ h.pose # Open
    /\ ZeroHand.type = "left" /\ ~ZeroHand.confident

VARIABLES
    main,           \* where the main thread is
    monitor,        \* where the monitor thread is
    exec,           \* the executor: pc, copied size, command to send
    running,        \* Runnable::running_
    inConnection,   \* LpV2SyncFFH::inConnection_
    sock,           \* per hand, its UdpClient's descriptor
    next,           \* hands connectFFH has still to connect
    lostFds,        \* descriptors overwritten without close
    kernel,         \* keyboard: keys the terminal has ready
    stdio,          \* keyboard: keys getchar has buffered
    typed,          \* keyboard: lines typed so far
    seen,           \* ghost: what each entry of hands_ held during the copy
    moved,          \* ghost: hands_ moved its storage during the copy
    sent,           \* the last command given to sendto
    net,            \* a datagram the network holds back, or "nothing"
    device          \* the command the left hand carries out

taskVars  == <<main, running, inConnection, sock, next, lostFds>>
keyVars   == <<kernel, stdio, typed>>
raceVars  == <<seen, moved>>
udpVars   == <<sent, net, device>>
vars == <<wrapperVars, taskVars, monitor, exec, keyVars, raceVars, udpVars>>

NotCopying == [k \in 1 .. MaxHands |-> {}]

Pose == {h.pose : h \in Hand}
Command == Pose \cup {Open}

ExecPC == {"off", "check", "iterate", "copying", "sending", "done"}

TypeOK ==
    /\ WrapperTypeOK
    /\ main \in {"connect", "connecting", "ffh", "start", "initializing", "spawn", "wait",
                 "join", "destroy", "exited"}
    /\ monitor \in {"off", "check", "stopping", "stopped", "done"}
    /\ exec \in [pc : ExecPC, size : 0 .. MaxHands, cmd : Command]
    /\ running \in BOOLEAN /\ inConnection \in BOOLEAN
    /\ sock \in [FFH -> {"none", "open", "bad", "closed"}]
    /\ next \subseteq Valid
    /\ lostFds \in 0 .. MaxFdLeak
    /\ kernel \in Seq(Keys) /\ stdio \in Seq(Keys) /\ typed \in 0 .. MaxLines
    /\ seen \in [1 .. MaxHands -> SUBSET Hand] /\ moved \in BOOLEAN
    /\ sent \in Command /\ device \in Command /\ net \in Command \cup {"nothing"}

Init ==
    /\ WrapperInit
    /\ main = "connect" /\ monitor = "off"
    /\ exec = [pc |-> "off", size |-> 0, cmd |-> Open]
    /\ running = FALSE /\ inConnection = FALSE
    /\ sock = [h \in FFH |-> "none"] /\ next = {} /\ lostFds = 0
    /\ kernel = <<>> /\ stdio = <<>> /\ typed = 0
    /\ seen = NotCopying /\ moved = FALSE
    /\ sent = Open /\ net = "nothing" /\ device = Open

-----------------------------------------------------------------------------
(* UDP: sendto hands the datagram to the network, which delivers it, loses *)
(* it, or holds it back to deliver it after later ones.                    *)
Transmit(cmd) ==
    /\ sent' = cmd
    /\ \/ device' = cmd /\ UNCHANGED net
       \/ UNCHANGED <<device, net>>
       \/ net = "nothing" /\ net' = cmd /\ UNCHANGED device

DeliverLate ==
    /\ net # "nothing"
    /\ device' = net /\ net' = "nothing"
    /\ UNCHANGED <<wrapperVars, taskVars, monitor, exec, keyVars, raceVars, sent>>

-----------------------------------------------------------------------------
(* Main thread: tryConnect()                                               *)

\* A step of the wrapper call main has under way.
MainCall == /\ ConnectOpen \/ ConnectProbeNothing \/ ConnectProbeDevice \/ ConnectFetch
            /\ main = "connecting"
            /\ UNCHANGED <<taskVars, monitor, exec, keyVars, raceVars, udpVars>>

MainConnectAborts ==
    /\ main = "connect" \/ (main = "connecting" /\ op = "opening")
    /\ ConnectAborts
    /\ UNCHANGED <<taskVars, monitor, exec, keyVars, raceVars, udpVars>>

MainConnect ==
    /\ main = "connect" /\ ConnectCreate
    /\ main' = "connecting"
    /\ UNCHANGED <<running, inConnection, sock, next, lostFds, monitor, exec, keyVars, raceVars, udpVars>>

\* Variant with a defect: the first hand skipped.
ConnectsLater == Valid \ {"left"}

\* The hands connectFFH connects.
ToConnect == Valid

\* lmWrap.connect() has returned: connect the hands, or try all over again.
MainConnected ==
    /\ Alive /\ main = "connecting" /\ op = "idle"
    /\ IF result = "success" THEN main' = "ffh" /\ next' = ToConnect
                             ELSE main' = "connect" /\ UNCHANGED next
    /\ UNCHANGED <<wrapperVars, running, inConnection, sock, lostFds, monitor, exec, keyVars, raceVars, udpVars>>

\* Variant with a defect: every socket call loses a descriptor.
LosesAlways(h) == lostFds' = lostFds + 1

\* UdpClient::_connect overwrites the descriptor it had.
Lose(h) == lostFds' = IF sock[h] = "open" THEN lostFds + 1 ELSE lostFds

\* connectFFH takes the valid hands in the order of their ids.
Turn(h) == h \in next /\ (h = "right" => "left" \notin next)

\* FfhCtrl::_connect: a socket, then reset(), which sends the open command.
MainFfh(h) ==
    /\ Alive /\ main = "ffh" /\ Turn(h)
    /\ Lose(h) /\ lostFds' <= MaxFdLeak
    /\ sock' = [sock EXCEPT ![h] = "open"]
    /\ next' = next \ {h}
    /\ IF h = "left" THEN Transmit(Open) ELSE UNCHANGED udpVars
    /\ UNCHANGED <<wrapperVars, main, running, inConnection, monitor, exec, keyVars, raceVars>>

\* socket() fails: connect() fails, and tryConnect starts from lmWrap again.
MainFfhFails(h) ==
    /\ Alive /\ main = "ffh" /\ Turn(h)
    /\ Lose(h) /\ lostFds' <= MaxFdLeak
    /\ sock' = [sock EXCEPT ![h] = "bad"]
    /\ next' = {} /\ main' = "connect"
    /\ UNCHANGED <<wrapperVars, running, inConnection, monitor, exec, keyVars, raceVars, udpVars>>

MainFfhDone ==
    /\ Alive /\ main = "ffh" /\ next = {}
    /\ inConnection' = TRUE /\ main' = "start"
    /\ UNCHANGED <<wrapperVars, running, sock, next, lostFds, monitor, exec, keyVars, raceVars, udpVars>>

(* Main thread: start()                                                    *)
MainStart ==
    /\ Alive /\ main = "start"
    /\ running' = TRUE /\ main' = "initializing"
    /\ UNCHANGED <<wrapperVars, inConnection, sock, next, lostFds, monitor, exec, keyVars, raceVars, udpVars>>

MainInitialize ==
    /\ main = "initializing" /\ Initialize
    /\ main' = IF reg' = RegDone THEN "spawn" ELSE main
    /\ UNCHANGED <<running, inConnection, sock, next, lostFds, monitor, exec, keyVars, raceVars, udpVars>>

\* The two threads, in the order they are pushed.
MainSpawn ==
    /\ Alive /\ main = "spawn"
    /\ IF monitor = "off"
         THEN monitor' = "check" /\ UNCHANGED <<exec, main>>
         ELSE exec' = [exec EXCEPT !.pc = "check"] /\ main' = "wait" /\ UNCHANGED monitor
    /\ UNCHANGED <<wrapperVars, running, inConnection, sock, next, lostFds, keyVars, raceVars, udpVars>>

MainWait ==
    /\ Alive /\ main = "wait" /\ ~running
    /\ main' = "join"
    /\ UNCHANGED <<wrapperVars, running, inConnection, sock, next, lostFds, monitor, exec, keyVars, raceVars, udpVars>>

\* Variant with a defect: the executor is detached.
MonitorJoined == monitor = "done"

ThreadsJoined == monitor = "done" /\ exec.pc = "done"

MainJoin ==
    /\ Alive /\ main = "join" /\ ThreadsJoined
    /\ main' = "destroy"
    /\ UNCHANGED <<wrapperVars, running, inConnection, sock, next, lostFds, monitor, exec, keyVars, raceVars, udpVars>>

\* ~LpV2SyncFFH: disconnect() and the members' destructors.  stop() has
\* disconnected the wrapper (ExitClean); the sockets are closed, without a
\* reset, because _disconnect clears the flag ~FfhCtrl tests.
MainDestroy ==
    /\ Alive /\ main = "destroy"
    /\ sock' = [h \in FFH |-> IF h \in Valid THEN "closed" ELSE sock[h]]
    /\ inConnection' = FALSE /\ main' = "exited"
    /\ UNCHANGED <<wrapperVars, running, next, lostFds, monitor, exec, keyVars, raceVars, udpVars>>

-----------------------------------------------------------------------------
(* Keyboard and monitor thread                                             *)
Type(line) ==
    /\ Alive /\ typed < MaxLines
    /\ kernel' = kernel \o line /\ typed' = typed + 1
    /\ UNCHANGED <<wrapperVars, taskVars, monitor, exec, stdio, raceVars, udpVars>>

\* get_char: select() asks the terminal, not stdio, whether a key is ready;
\* getchar() takes everything the terminal has when its own buffer is empty.
KeyReady == kernel # <<>>
Buffered == IF stdio = <<>> THEN kernel ELSE stdio
GetChar == /\ stdio' = Tail(Buffered)
           /\ kernel' = IF stdio = <<>> THEN <<>> ELSE kernel

MonitorKey ==
    /\ Alive /\ monitor = "check" /\ running
    /\ IF KeyReady
         THEN /\ GetChar
              /\ IF Head(Buffered) = "q" THEN monitor' = "stopping" /\ running' = FALSE
                                         ELSE UNCHANGED <<monitor, running>>
         ELSE UNCHANGED <<kernel, stdio, monitor, running>>
    /\ UNCHANGED <<wrapperVars, main, inConnection, sock, next, lostFds, typed, exec, raceVars, udpVars>>

\* stop(): running_ is false, now lmWrap.disconnect().
MonitorDisconnect ==
    /\ monitor = "stopping" /\ DisconnectBegin
    /\ monitor' = "stopped"
    /\ UNCHANGED <<taskVars, exec, keyVars, raceVars, udpVars>>

MonitorClose ==
    /\ monitor = "stopped" /\ DisconnectClose
    /\ UNCHANGED <<taskVars, monitor, exec, keyVars, raceVars, udpVars>>

MonitorReturn ==
    /\ Alive /\ monitor = "stopped" /\ op = "idle"
    /\ monitor' = "done"
    /\ UNCHANGED <<wrapperVars, taskVars, exec, keyVars, raceVars, udpVars>>

-----------------------------------------------------------------------------
(* Executor thread: executeLoop() and runIteration()                       *)
\* Variant with a defect: a loop without a condition.
ExecLoopsForever == TRUE

ExecLoops == running

ExecCheck ==
    /\ Alive /\ exec.pc = "check"
    /\ exec' = [exec EXCEPT !.pc = IF ExecLoops THEN "iterate" ELSE "done"]
    /\ UNCHANGED <<wrapperVars, taskVars, monitor, keyVars, raceVars, udpVars>>

Sends(cmd) == exec' = [exec EXCEPT !.pc = "sending", !.size = 0, !.cmd = cmd]

\* Not connected: sendInitHandData.  Connected: the copy of hands_ begins
\* with its size.
ExecIterate ==
    /\ Alive /\ exec.pc = "iterate"
    /\ IF inConncetion
         THEN /\ exec' = [exec EXCEPT !.pc = "copying", !.size = hands.size]
              /\ seen' = [k \in 1 .. MaxHands |-> {hands.data[k]}]
         ELSE Sends(Open) /\ UNCHANGED seen
    /\ moved' = FALSE
    /\ UNCHANGED <<wrapperVars, taskVars, monitor, keyVars, udpVars>>

\* What the copy of entry k may hold at its end: the entry, or any mix of
\* what the entry held meanwhile and of what a thread is writing to it just
\* then; anything at all if the copy read storage that was freed.
Incoming(k) ==
    UNION {IF k \in DOMAIN pollers[p].msg.frame THEN {pollers[p].msg.frame[k]} ELSE Hand :
             p \in {q \in DOMAIN pollers : pollers[q].pc = "copying" /\ pollers[q].i = k}}

MixOf(S) ==
    {h \in Hand : \E a, b, c \in S :
        h.type = a.type /\ h.confident = b.confident /\ h.pose = c.pose}

CopyOf(k) == IF moved THEN Hand ELSE MixOf(seen[k] \cup Incoming(k))

Snapshots == {s \in [1 .. exec.size -> Hand] : \A k \in 1 .. exec.size : s[k] \in CopyOf(k)}

\* Variant with a defect: an empty frame is skipped.
DecisionNoneIfEmpty(s) ==
    LET lefts == {k \in DOMAIN s : s[k].type = "left"}
    IN  IF lefts = {} THEN {} ELSE {s[CHOOSE k \in lefts : TRUE].pose}

\* The first left hand decides: its pose when it is confident, the open
\* command when it is not.  No hand at all: the open command.  Hands but no
\* left one: nothing is sent.
Decision(s) ==
    LET lefts == {k \in DOMAIN s : s[k].type = "left"}
        first == CHOOSE k \in lefts : \A j \in lefts : k <= j
    IN  CASE DOMAIN s = {}                       -> {Open}
          [] DOMAIN s # {} /\ lefts = {}         -> {}
          [] lefts # {} /\ ~s[first].confident   -> {Open}
          [] lefts # {} /\ s[first].confident    -> {s[first].pose}

ExecDecide ==
    /\ Alive /\ exec.pc = "copying"
    /\ \E s \in Snapshots :
         IF Decision(s) = {}
           THEN exec' = [exec EXCEPT !.pc = "check", !.size = 0]
           ELSE \E cmd \in Decision(s) : Sends(cmd)
    /\ seen' = NotCopying /\ moved' = FALSE
    /\ UNCHANGED <<wrapperVars, taskVars, monitor, keyVars, udpVars>>

\* The copy read freed storage: the process may die of it.
ExecWildCopy ==
    /\ Alive /\ exec.pc = "copying" /\ moved /\ exec.size > 0
    /\ Crash("wild_read")
    /\ UNCHANGED <<inConncetion, handle, pollers, clientVars, leapcVars, frameVars,
                   taskVars, monitor, exec, keyVars, raceVars, udpVars>>

\* publishFfhCmd sends to the left hand when it is valid.
ExecSend ==
    /\ Alive /\ exec.pc = "sending"
    /\ IF "left" \in Valid THEN Transmit(exec.cmd) ELSE UNCHANGED udpVars
    /\ exec' = [exec EXCEPT !.pc = "check", !.cmd = Open]
    /\ UNCHANGED <<wrapperVars, taskVars, monitor, keyVars, raceVars>>

-----------------------------------------------------------------------------
\* A step of a polling thread; the ghosts note what it did to hands_ while
\* the executor copies it.
Polling(p) ==
    /\ PollerStep(p)
    /\ IF exec.pc = "copying"
         THEN /\ seen' = [k \in 1 .. MaxHands |-> seen[k] \cup {hands'.data[k]}]
              /\ moved' = (moved \/ hands'.cap # hands.cap)
         ELSE UNCHANGED raceVars
    /\ UNCHANGED <<taskVars, monitor, exec, keyVars, udpVars>>

\* hands_ does not change when a thread reads m_tail again.
Reloading(p) ==
    /\ OnFrameReload(p)
    /\ UNCHANGED <<taskVars, monitor, exec, keyVars, raceVars, udpVars>>

Service ==
    /\ ServiceUp \/ ServiceLost
    /\ UNCHANGED <<taskVars, monitor, exec, keyVars, raceVars, udpVars>>

Main ==
    \/ MainConnectAborts \/ MainConnect \/ MainCall \/ MainConnected
    \/ (\E h \in Valid : MainFfh(h) \/ MainFfhFails(h)) \/ MainFfhDone
    \/ MainStart \/ MainInitialize \/ MainSpawn \/ MainWait \/ MainJoin \/ MainDestroy

Monitor == MonitorKey \/ MonitorDisconnect \/ MonitorClose \/ MonitorReturn

Executor == ExecCheck \/ ExecIterate \/ ExecDecide \/ ExecWildCopy \/ ExecSend

Next ==
    \/ Main \/ Monitor \/ Executor
    \/ \E p \in DOMAIN pollers : Polling(p) \/ Reloading(p)
    \/ Service
    \/ \E line \in Lines : Type(line)
    \/ DeliverLate

Spec == Init /\ [][Next]_vars

\* Every thread is scheduled, a poll returns within its timeout and a call
\* begun goes on.  Nothing is assumed of the user, the service or the network.
FairSpec ==
    /\ Spec
    /\ WF_vars(Main) /\ WF_vars(Monitor) /\ WF_vars(Executor)
    /\ \A p \in Connection : WF_vars(p \in DOMAIN pollers /\ Polling(p))

\* A network that delivers again and again what is sent again and again.
Delivered == device' = sent'
FairNetSpec ==
    /\ FairSpec
    /\ SF_vars(ExecSend /\ Delivered)
    /\ WF_vars(DeliverLate)

-----------------------------------------------------------------------------
(* Properties                                                              *)

\* The executor never sends on a socket that is not there: connectFFH is
\* complete before start(), and the destructor closes after the join.
SocketOpenWhileSending ==
    (exec.pc = "sending" /\ "left" \in Valid) => sock["left"] = "open"

\* main() returns with nothing left behind that runs or is open: all threads
\* have ended, the wrapper was disconnected by stop() and its connection
\* destroyed, every valid hand's socket is closed.
ExitClean ==
    main = "exited" =>
        /\ monitor = "done" /\ exec.pc = "done" /\ ~inConncetion
        /\ \A p \in DOMAIN pollers : pollers[p].pc = "done"
        /\ conns[handle] = "destroyed"
        /\ \A h \in Valid : sock[h] = "closed"

\* What a retry of tryConnect leaks is bounded: every new attempt opens a
\* LeapC connection (LeapCreateConnection overwrites the handle, disconnect()
\* destroys the last one only) and loses at most one descriptor, that of the
\* hand connected before the other one failed.
LeaksPerRetry == lostFds > 0 => handle > lostFds

\* The task implements the life it promises (SyncLifecycle): after the stop
\* at most the one command of the iteration under way, none after the exit.
Phase ==
    CASE ~Alive                      -> "dead"
      [] Alive /\ main = "exited"    -> "exited"
      [] Alive /\ running            -> "running"
      [] OTHER -> IF main \in {"connect", "connecting", "ffh", "start"}
                    THEN "connecting" ELSE "stopping"

Grace == Phase = "stopping" /\ exec.pc \in {"iterate", "copying", "sending"}

Lifecycle == INSTANCE SyncLifecycle WITH phase <- Phase, grace <- Grace

ImplementsLifecycle == Lifecycle!Spec

\* A 'q' the next getchar() returns, with a key ready in the terminal, ends
\* the program, unless it dies first.
QuitEnds ==
    (running /\ KeyReady /\ Head(Buffered) = "q") ~> (main = "exited" \/ ~Alive)

\* Once the tracker reports no hand and keeps to it, the FFH hand opens and
\* stays open: an empty frame clears hands_, whatever the ring holds, and the
\* open command is sent until it arrives.
NoHandOpens ==
    <>[](running /\ Alive /\ lastFrame = <<>> /\ shown) => <>[](device = Open)

-----------------------------------------------------------------------------
(* Statements of the repository the code does not live up to               *)

\* lpV2SyncFfh.cpp:323: only the left hand is detected and forwarded.
TrackedLeft == {h \in Hand : h.type = "left" /\ \E f \in Frame : \E k \in DOMAIN f : f[k] = h}

OnlyLeftForwarded ==
    exec.pc = "sending" => exec.cmd \in {Open} \cup {h.pose : h \in TrackedLeft}

\* LeapC.h:2315-2318: pointers in a message are valid until "the next call to
\* LeapPollConnection()", and "calling this method concurrently will return
\* eLeapRS_ConcurrentPoll".  While a thread works on a message no other
\* thread polls its connection.
MessageStillValid ==
    \A p, q \in DOMAIN pollers :
        (p # q /\ Handling(p) /\ pollers[q].pc = "polling")
            => pollers[p].conn # pollers[q].conn
=============================================================================
