---------------------------- MODULE LeapController ----------------------------
(***************************************************************************)
(* ControllerImplementation of src/officialWrapper/LeapImplementationC++.h *)
(* : the controller of the C++ API, whose own thread polls LeapC and calls *)
(* the listeners, while threads of the application add and remove          *)
(* listeners, set policies, ask for configuration values and in the end    *)
(* drop the controller.                                                    *)
(*                                                                         *)
(* A section under m_deviceMutex, m_frameMutex, m_imageMutex,              *)
(* m_mapPointsMutex or m_configPromiseMutex neither blocks nor calls out,  *)
(* so it is one step.  m_listenerMutex is held during the callbacks: it is *)
(* the variable lock.  Init is the state the constructor leaves.           *)
(***************************************************************************)
EXTENDS FrameHistory, FiniteSets

CONSTANTS
    Threads,    \* threads of the application
    Listeners,  \* Listener objects
    Devices,    \* device ids
    Policies,   \* policy flags
    Scenes,     \* bound: the kinds of message and of call a behaviour mixes
    MaxId,      \* bound: frame ids
    MaxRequest, \* bound: configuration requests that are accepted
    MaxEvents,  \* bound: policy events on their way
    Nothing     \* no thread, no callback, no device

Poller == "poller"

ASSUME ThreadAssumption == Poller \notin Threads /\ Nothing \notin Threads \cup {Poller}

\* The methods of Listener (onServiceChange is called by nothing).
Callbacks == {"onInit", "onExit", "onServiceConnect", "onServiceDisconnect", "onConnect",
              "onDisconnect", "onDeviceChange", "onDeviceFailure", "onFrame", "onImages",
              "onHeadPose", "onLogMessage"}

ASSUME ListenerAssumption ==
    Nothing \notin Listeners \cup (Listeners \X Callbacks \X {"own", "caller"})
ASSUME BoundAssumption == MaxId \in Nat /\ MaxRequest \in Nat /\ MaxEvents \in Nat

VARIABLES
    listeners,  \* m_listeners
    lock,       \* who holds m_listenerMutex
    service,    \* m_isServiceConnected
    devices,    \* the keys of m_devices
    flags,      \* m_policyFlags
    frames,     \* m_frames, newest first: frame id, images set, map points set
    images,     \* m_images, newest first: the frame ids of the pairs
    maps,       \* m_pointMappingBuffers, newest first: their frame ids
    promises,   \* m_configPromises: request id -> retrieved, answered
    running,    \* m_isRunning
    owners,     \* who holds a strong reference to the implementation
    life,       \* alive, closing (destructor), joining, gone
    fault,      \* none, or why std::terminate was called
    poll,       \* the polling thread
    app         \* the threads of the application

VARIABLES       \* LeapC and the service
    scene,      \* the kinds of message and call of this behaviour
    link,       \* up, down: the connection to the service
    told,       \* the same, as the messages polled so far say
    present,    \* the devices announced, each with its streaming bit
    granted,    \* the policies the service has for this client
    events,     \* policy events on their way
    asked,      \* configuration requests accepted, 1 .. asked
    due,        \* requests the service still may answer
    sent        \* last frame id polled of frames, images and map points

VARIABLES       \* ghosts
    heard,      \* what a listener was told last of service and device
    seen        \* the map points and the configuration answers polled

registry == <<listeners, lock, service, devices>>
data     == <<frames, images, maps, promises>>
control  == <<running, owners, life, fault>>
policy   == <<flags, granted, events>>
world    == <<scene, link, told, present>>
ids      == <<asked, due, sent, seen>>
vars == <<registry, data, control, policy, world, ids, poll, app, heard>>

-----------------------------------------------------------------------------
(* Notification: the polling thread takes the lock, makes its rounds over  *)
(* the listeners, one callback name per round, and goes on with `then`.    *)
Idle == [at |-> "check", rounds |-> <<>>, todo |-> {}, inside |-> Nothing,
         then |-> "check", id |-> Nothing, again |-> <<>>, flags |-> {}]

Notify(rounds, then) == [Idle EXCEPT !.at = "lock", !.rounds = rounds, !.then = then]

Resting == [at |-> "idle", l |-> Nothing, id |-> 0, flags |-> {}, got |-> "nothing"]

Unheard == [service |-> "unheard", device |-> "unheard"]

\* What listener l knows after callback cb; onInit makes it a new listener.
Hear(l, cb) ==
    heard' = [heard EXCEPT ![l] =
        CASE cb = "onInit" -> Unheard
          [] cb = "onServiceConnect" -> [@ EXCEPT !.service = "up"]
          [] cb = "onServiceDisconnect" -> [@ EXCEPT !.service = "down"]
          [] cb = "onConnect" -> [@ EXCEPT !.device = "up"]
          [] cb = "onDisconnect" -> [@ EXCEPT !.device = "down"]
          [] OTHER -> @]

\* The constructor starts the thread only if the connection was opened.
Init ==
    /\ listeners = {} /\ lock = Nothing /\ service = FALSE /\ devices = {}
    /\ flags = {} /\ frames = <<>> /\ images = <<>> /\ maps = <<>>
    /\ promises = <<>>
    /\ running \in BOOLEAN /\ owners = {"app"} /\ life = "alive" /\ fault = "none"
    /\ poll = IF running THEN Idle ELSE [Idle EXCEPT !.at = "done"]
    /\ app = [t \in Threads |-> Resting]
    /\ scene \in Scenes
    /\ link = "down" /\ told = "down" /\ present = <<>> /\ granted = {}
    /\ events = <<>> /\ asked = 0 /\ due = {}
    /\ sent = [frame |-> 0, image |-> 0, map |-> 0]
    /\ heard = [l \in Listeners |-> Unheard]
    /\ seen = [map |-> {}, answer |-> {}]

Goes(label) == poll' = [poll EXCEPT !.at = label]

\* Take the lock for the rounds of this handler.
PollLock ==
    /\ poll.at = "lock" /\ lock = Nothing
    /\ lock' = Poller
    /\ poll' = [poll EXCEPT !.at = "round",
                            !.todo = IF poll.rounds = <<>> THEN {} ELSE listeners]
    /\ UNCHANGED <<listeners, service, devices, data, control, policy, world, ids, app, heard>>

PollCall(l) ==
    /\ poll.at = "round" /\ l \in poll.todo
    /\ poll' = [poll EXCEPT !.at = "inside", !.inside = l, !.todo = @ \ {l}]
    /\ Hear(l, Head(poll.rounds))
    /\ UNCHANGED <<registry, data, control, policy, world, ids, app>>

PollReturns ==
    /\ poll.at = "inside"
    /\ poll' = [poll EXCEPT !.at = "round", !.inside = Nothing]
    /\ UNCHANGED <<registry, data, control, policy, world, ids, app, heard>>

RoundOver == poll.at = "round" /\ poll.todo = {}

PollNextRound ==
    /\ RoundOver /\ Len(poll.rounds) > 1
    /\ poll' = [poll EXCEPT !.rounds = Tail(@), !.todo = listeners]
    /\ UNCHANGED <<registry, data, control, policy, world, ids, app, heard>>

\* The end of the locked section.  onConnection reads the policy flags while
\* it still has the lock; onDeviceStatusChange takes it a second time.
PollUnlock ==
    /\ RoundOver /\ Len(poll.rounds) <= 1
    /\ poll' = IF poll.then = "status" THEN Notify(poll.again, "check")
               ELSE [Idle EXCEPT !.at = poll.then, !.id = poll.id,
                                 !.flags = IF poll.then = "policy" THEN flags ELSE {}]
    /\ lock' = IF poll.then = "policy" THEN lock ELSE Nothing
    /\ UNCHANGED <<listeners, service, devices, data, control, policy, world, ids, app, heard>>

-----------------------------------------------------------------------------
(* Policies                                                                *)
\* LeapSetPolicyFlags: refused without a connection, else the service takes
\* over the change or declines it, and reports its policies in an event.
LeapSetPolicyFlags(set, clear) ==
    IF link = "down"
      THEN UNCHANGED <<granted, events>>
      ELSE /\ granted' \in {granted, (granted \cup set) \ clear}
           /\ events' = Append(events, granted')

\* setPolicyFlags(policyFlags()) at the end of onConnection; poll.flags is
\* what it read.  The |= reads and writes without a lock: what the
\* application writes in between may be lost.
PollSendsPolicy ==
    /\ poll.at = "policy"
    /\ flags' \in {poll.flags, flags \cup poll.flags}
    /\ LeapSetPolicyFlags(poll.flags, {})
    /\ lock' = Nothing
    /\ poll' = Idle
    /\ UNCHANGED <<listeners, service, devices, data, control, world, ids, app, heard>>

-----------------------------------------------------------------------------
(* Handlers: each starts with a poll that returns a message of its kind.   *)
Gets(kind) == poll.at = "polling" /\ life \in {"alive", "closing"} /\ kind \in scene

With(f, x, v) == [y \in DOMAIN f \cup {x} |-> IF y = x THEN v ELSE f[y]]
Without(f, x) == [y \in DOMAIN f \ {x} |-> f[y]]

\* The loop of the polling thread: m_isRunning, then a poll of 250 ms.
PollChecks ==
    /\ poll.at = "check"
    /\ Goes(IF running THEN "polling" ELSE "done")
    /\ UNCHANGED <<registry, data, control, policy, world, ids, app, heard>>

PollTimesOut ==
    /\ poll.at = "polling"
    /\ poll' = Idle
    /\ UNCHANGED <<registry, data, control, policy, world, ids, app, heard>>

OnConnection ==
    /\ Gets("Connection") /\ link = "up" /\ told = "down"
    /\ told' = "up"
    /\ service' = TRUE
    /\ poll' = Notify(<<"onServiceConnect">>, "policy")
    /\ UNCHANGED <<listeners, lock, devices, data, control, policy, scene, link, present,
                   ids, app, heard>>

\* The messages that came before the loss have been polled.
OnConnectionLost ==
    /\ Gets("ConnectionLost") /\ link = "down" /\ told = "up" /\ events = <<>>
    /\ told' = "down" /\ present' = <<>>
    /\ service' = FALSE
    /\ poll' = Notify(<<"onServiceDisconnect">>, "clear")
    /\ UNCHANGED <<listeners, lock, devices, data, control, policy, scene, link, ids, app, heard>>

PollClears ==
    /\ poll.at = "clear"
    /\ devices' = {}
    /\ poll' = Idle
    /\ UNCHANGED <<listeners, lock, service, data, control, policy, world, ids, app, heard>>

\* onDeviceStatus: the device is in the list before anybody is told.
DeviceRounds == IF devices = {} THEN <<"onConnect", "onDeviceChange">> ELSE <<"onDeviceChange">>

OnDevice(d, streaming) ==
    /\ Gets("Device") /\ told = "up" /\ d \notin DOMAIN present
    /\ present' = With(present, d, streaming)
    /\ devices' = devices \cup {d}
    /\ poll' = Notify(DeviceRounds, "check")
    /\ UNCHANGED <<listeners, lock, service, data, control, policy, scene, link, told,
                   ids, app, heard>>

OnDeviceStatusChange(d, streaming) ==
    /\ Gets("DeviceStatusChange") /\ told = "up" /\ d \in DOMAIN present
    /\ present' = [present EXCEPT ![d] = streaming]
    /\ devices' = devices \cup {d}
    /\ poll' = [Notify(DeviceRounds, "status") EXCEPT !.again =
                    IF streaming = present[d] THEN <<>>
                    ELSE <<IF streaming THEN "onConnect" ELSE "onDisconnect">>]
    /\ UNCHANGED <<listeners, lock, service, data, control, policy, scene, link, told,
                   ids, app, heard>>

LostRounds(d) ==
    IF devices = {d} THEN <<"onDeviceChange", "onDisconnect">> ELSE <<"onDeviceChange">>

\* A device known to the service, or one the controller forgot with the
\* connection: LeapC may report it after the loss of the connection.
OnDeviceLost(d) ==
    /\ Gets("DeviceLost") /\ (d \in DOMAIN present \/ told = "down")
    /\ present' = Without(present, d)
    /\ poll' = IF d \notin devices THEN Idle
               ELSE [Notify(LostRounds(d), "erase") EXCEPT !.id = d]
    /\ UNCHANGED <<registry, data, control, policy, scene, link, told, ids, app, heard>>

PollErases ==
    /\ poll.at = "erase"
    /\ devices' = devices \ {poll.id}
    /\ poll' = Idle
    /\ UNCHANGED <<listeners, lock, service, data, control, policy, world, ids, app, heard>>

\* The handlers that only pass on: onDeviceFailure, onLog, onLogs, onHeadPose.
PassedOn == [DeviceFailure |-> <<"onDeviceFailure">>, LogEvent |-> <<"onLogMessage">>,
             LogEvents |-> <<"onLogMessage", "onLogMessage">>, HeadPose |-> <<"onHeadPose">>]

OnPassedOn(kind) ==
    /\ Gets(kind) /\ told = "up"
    /\ poll' = Notify(PassedOn[kind], "check")
    /\ UNCHANGED <<registry, data, control, policy, world, ids, app, heard>>

OnTracking(id) ==
    /\ Gets("Tracking") /\ told = "up" /\ id > sent.frame
    /\ sent' = [sent EXCEPT !.frame = id]
    /\ frames' = Keep(<<NewFrame(id, images, maps)>> \o frames)
    /\ maps' = NewerThan(maps, id)
    /\ poll' = Notify(<<"onFrame">>, "check")
    /\ UNCHANGED <<registry, images, promises, control, policy, world, asked, due, seen,
                   app, heard>>

OnImage(id) ==
    /\ Gets("Image") /\ told = "up" /\ id > sent.image
    /\ sent' = [sent EXCEPT !.image = id]
    /\ poll' = [Idle EXCEPT !.at = "take", !.id = id]
    /\ UNCHANGED <<registry, data, control, policy, world, asked, due, seen, app, heard>>

\* Each image of the pair is made from shared_from_this(): a strong reference
\* that lasts as long as the statement.
PollTakes ==
    /\ poll.at \in {"take", "takeAgain"}
    /\ IF owners = {}
         THEN fault' = "bad_weak_ptr" /\ UNCHANGED <<owners, poll>>
         ELSE /\ owners' = owners \cup {Poller}
              /\ Goes(IF poll.at = "take" THEN "drop" ELSE "dropAgain")
              /\ UNCHANGED fault
    /\ UNCHANGED <<registry, data, running, life, policy, world, ids, app, heard>>

\* Who drops the last reference runs the destructor, which joins this thread.
PollDrops ==
    /\ poll.at \in {"drop", "dropAgain"}
    /\ owners' = owners \ {Poller}
    /\ fault' = IF owners' = {} THEN "self_join" ELSE fault
    /\ Goes(IF poll.at = "drop" THEN "takeAgain" ELSE "push")
    /\ UNCHANGED <<registry, data, running, life, policy, world, ids, app, heard>>

PollPushesImages ==
    /\ poll.at = "push"
    /\ images' = Keep(<<poll.id>> \o images)
    /\ frames' = GiveImage(frames, poll.id)
    /\ poll' = Notify(<<"onImages">>, "check")
    /\ UNCHANGED <<registry, maps, promises, control, policy, world, ids, app, heard>>

\* No points, or LeapGetPointMapping failed: nothing is changed.
OnPointMappingChange(id) ==
    /\ Gets("PointMappingChange") /\ told = "up" /\ id > sent.map
    /\ sent' = [sent EXCEPT !.map = id]
    /\ seen' = [seen EXCEPT !.map = @ \cup {id}]
    /\ IF Place(frames, id) > 0
         THEN frames' = GivePoints(frames, id) /\ UNCHANGED maps
         ELSE maps' = Keep(<<id>> \o maps) /\ UNCHANGED frames
    /\ poll' = Idle
    /\ UNCHANGED <<registry, images, promises, control, policy, world, asked, due, app, heard>>

\* Variant with a defect: the reported policies are added to the flags.
OnPolicyAdds ==
    /\ Gets("Policy") /\ told = "up" /\ events # <<>>
    /\ flags' = flags \cup Head(events) /\ events' = Tail(events)
    /\ poll' = Idle
    /\ UNCHANGED <<registry, data, control, granted, world, ids, app, heard>>

OnPolicy ==
    /\ Gets("Policy") /\ told = "up" /\ events # <<>>
    /\ flags' = Head(events) /\ events' = Tail(events)
    /\ poll' = Idle
    /\ UNCHANGED <<registry, data, control, granted, world, ids, app, heard>>

\* Variant with a defect: an answer nobody has asked the future of is dropped.
AnsweredIfAwaited(id) ==
    IF id \in DOMAIN promises THEN [promises EXCEPT ![id].answered = TRUE] ELSE promises

\* The promise is made here if the caller has not come to it yet.
Answered(id) ==
    With(promises, id, [retrieved |-> id \in DOMAIN promises /\ promises[id].retrieved,
                        answered  |-> TRUE])

OnConfigResponse(id) ==
    /\ Gets("ConfigResponse") /\ told = "up" /\ id \in due
    /\ due' = due \ {id}
    /\ seen' = [seen EXCEPT !.answer = @ \cup {id}]
    /\ promises' = Answered(id)
    /\ poll' = Idle
    /\ UNCHANGED <<registry, frames, images, maps, control, policy, world, asked, sent, app, heard>>

-----------------------------------------------------------------------------
(* The application: any thread makes any call, while somebody holds the    *)
(* Controller.                                                             *)
Begins(t, kind) == app[t].at = "idle" /\ "app" \in owners /\ kind \in scene

Step(t, label) == app' = [app EXCEPT ![t].at = label]
Ends(t) == app' = [app EXCEPT ![t] = Resting]

AddBegins(t, l) ==
    /\ Begins(t, "Listen")
    /\ app' = [app EXCEPT ![t] = [Resting EXCEPT !.at = "add", !.l = l]]
    /\ UNCHANGED <<registry, data, control, policy, world, ids, poll, heard>>

\* Variant with a defect: without the lock_guard.
AddsUnlocked(t) ==
    /\ app[t].at = "add"
    /\ lock' = t
    /\ listeners' = listeners \cup {app[t].l}
    /\ IF app[t].l \in listeners
         THEN Step(t, "service") /\ UNCHANGED heard
         ELSE Step(t, "onInit") /\ Hear(app[t].l, "onInit")
    /\ UNCHANGED <<service, devices, data, control, policy, world, ids, poll>>

\* onInit only for a listener that was not in the set.
AddLocks(t) ==
    /\ app[t].at = "add" /\ lock = Nothing
    /\ lock' = t
    /\ listeners' = listeners \cup {app[t].l}
    /\ IF app[t].l \in listeners
         THEN Step(t, "service") /\ UNCHANGED heard
         ELSE Step(t, "onInit") /\ Hear(app[t].l, "onInit")
    /\ UNCHANGED <<service, devices, data, control, policy, world, ids, poll>>

AddGoesOn(t) ==
    /\ app[t].at \in {"onInit", "onServiceConnect"}
    /\ Step(t, IF app[t].at = "onInit" THEN "service" ELSE "devices")
    /\ UNCHANGED <<registry, data, control, policy, world, ids, poll, heard>>

\* m_isServiceConnected and m_devices are read one after the other, without
\* m_deviceMutex.
AddTests(t, at, holds, cb, otherwise) ==
    /\ app[t].at = at
    /\ IF holds THEN Step(t, cb) /\ Hear(app[t].l, cb)
                ELSE Step(t, otherwise) /\ UNCHANGED heard
    /\ UNCHANGED <<registry, data, control, policy, world, ids, poll>>

\* Variant with a defect: the service is not looked at.
AddSkipsService(t) == AddTests(t, "service", FALSE, "onServiceConnect", "devices")

AddTestsService(t) == AddTests(t, "service", service, "onServiceConnect", "devices")
AddTestsDevices(t) == AddTests(t, "devices", devices # {}, "onConnect", "unlock")

RemoveBegins(t, l) ==
    /\ Begins(t, "Listen")
    /\ app' = [app EXCEPT ![t] = [Resting EXCEPT !.at = "remove", !.l = l]]
    /\ UNCHANGED <<registry, data, control, policy, world, ids, poll, heard>>

RemoveLocks(t) ==
    /\ app[t].at = "remove" /\ lock = Nothing
    /\ lock' = t
    /\ listeners' = listeners \ {app[t].l}
    /\ Step(t, IF app[t].l \in listeners THEN "onExit" ELSE "unlock")
    /\ UNCHANGED <<service, devices, data, control, policy, world, ids, poll, heard>>

\* Variant with a defect: the early end of a call keeps the mutex.
UnlocksAfterCallback(t) ==
    /\ app[t].at \in {"onConnect", "onExit", "unlock"}
    /\ lock' = IF app[t].at = "unlock" THEN lock ELSE Nothing
    /\ Ends(t)
    /\ UNCHANGED <<listeners, service, devices, data, control, policy, world, ids, poll, heard>>

\* addListener and removeListener return, from their last callback if any.
Unlocks(t) ==
    /\ app[t].at \in {"onConnect", "onExit", "unlock"}
    /\ lock' = Nothing
    /\ Ends(t)
    /\ UNCHANGED <<listeners, service, devices, data, control, policy, world, ids, poll, heard>>

\* setPolicy, setPolicyFlags and clearPolicy: the read and the write of
\* m_policyFlags are two accesses without a lock.
PolicyReads(t, p, op) ==
    /\ Begins(t, "Policy")
    /\ Len(events) + Cardinality({u \in Threads : app[u].at # "idle"}) < MaxEvents
    /\ app' = [app EXCEPT ![t] = [Resting EXCEPT !.at = op, !.l = p,
                  !.flags = IF op = "set" THEN flags \cup {p} ELSE flags \ {p}]]
    /\ UNCHANGED <<registry, data, control, policy, world, ids, poll, heard>>

PolicyWrites(t) ==
    /\ app[t].at \in {"set", "clear"}
    /\ flags' = app[t].flags
    /\ Step(t, IF app[t].at = "set" THEN "sendSet" ELSE "sendClear")
    /\ UNCHANGED <<registry, data, control, granted, events, world, ids, poll, heard>>

\* setPolicyFlags sends its argument; setPolicy m_policyFlags, read again or
\* kept from the write.
PolicySends(t) ==
    /\ \/ /\ app[t].at = "sendSet"
          /\ \E s \in {{app[t].l}, app[t].flags, flags} : LeapSetPolicyFlags(s, {})
       \/ app[t].at = "sendClear" /\ LeapSetPolicyFlags({}, {app[t].l})
    /\ Ends(t)
    /\ UNCHANGED <<flags, registry, data, control, world, ids, poll, heard>>

\* getConfigValue: a request that LeapC refuses leaves the id at 0.
Requests(t) ==
    /\ Begins(t, "Config")
    /\ IF link = "up"
         THEN /\ asked < MaxRequest
              /\ asked' = asked + 1 /\ due' = due \cup {asked'}
         ELSE UNCHANGED <<asked, due>>
    /\ app' = [app EXCEPT ![t] = [Resting EXCEPT !.at = "future",
                                     !.id = IF link = "up" THEN asked' ELSE 0]]
    /\ UNCHANGED <<registry, data, control, policy, world, sent, seen, poll, heard>>

\* get_future() throws the second time it is asked of the same promise.
TakesFuture(t) ==
    /\ app[t].at = "future"
    /\ LET id == app[t].id
           made == id \in DOMAIN promises
       IN  IF made /\ promises[id].retrieved
             THEN /\ app' = [app EXCEPT ![t].at = "idle", ![t].got = "throws"]
                  /\ UNCHANGED promises
             ELSE /\ promises' = With(promises, id,
                        [retrieved |-> TRUE, answered |-> made /\ promises[id].answered])
                  /\ Step(t, "wait")
    /\ UNCHANGED <<registry, frames, images, maps, control, policy, world, ids, poll, heard>>

\* wait_for ends with the answer or with the timeout.
WaitEnds(t) ==
    /\ app[t].at = "wait"
    /\ app' = [app EXCEPT ![t].at = "erase",
                          ![t].got = IF promises[app[t].id].answered THEN "value" ELSE "none"]
    /\ UNCHANGED <<registry, data, control, policy, world, ids, poll, heard>>

\* Variant with a defect: every promise is erased.
ErasesAll(t) ==
    /\ app[t].at = "erase"
    /\ promises' = <<>>
    /\ Step(t, "idle")
    /\ UNCHANGED <<registry, frames, images, maps, control, policy, world, ids, poll, heard>>

ErasesPromise(t) ==
    /\ app[t].at = "erase"
    /\ promises' = Without(promises, app[t].id)
    /\ Step(t, "idle")
    /\ UNCHANGED <<registry, frames, images, maps, control, policy, world, ids, poll, heard>>

\* The last Controller object goes, when no call on it is under way.  The
\* destructor runs here unless the polling thread has a reference.
Drops ==
    /\ "Drop" \in scene /\ "app" \in owners /\ \A t \in Threads : app[t].at = "idle"
    /\ owners' = owners \ {"app"}
    /\ IF owners' = {} THEN life' = "closing" /\ running' = FALSE
                       ELSE UNCHANGED <<life, running>>
    /\ UNCHANGED <<registry, data, fault, policy, world, ids, poll, app, heard>>

\* LeapSetAllocator(nullptr), LeapCloseConnection.
Closes ==
    /\ life = "closing"
    /\ life' = "joining"
    /\ UNCHANGED <<registry, data, running, owners, fault, policy, world, ids, poll, app, heard>>

\* Variant with a defect: detach() for join().
Detaches ==
    /\ life = "joining"
    /\ life' = "gone"
    /\ UNCHANGED <<registry, data, running, owners, fault, policy, world, ids, poll, app, heard>>

\* join(), LeapDestroyConnection; then the members go.
Joins ==
    /\ life = "joining" /\ poll.at = "done"
    /\ life' = "gone"
    /\ UNCHANGED <<registry, data, running, owners, fault, policy, world, ids, poll, app, heard>>

-----------------------------------------------------------------------------
(* The service comes and goes.                                             *)
LinkUp ==
    /\ link = "down" /\ told = "down" /\ running
    /\ link' = "up"
    /\ UNCHANGED <<registry, data, control, policy, scene, told, present, ids, poll, app, heard>>

LinkDown ==
    /\ link = "up" /\ told = "up"
    /\ link' = "down" /\ granted' = {} /\ due' = {}
    /\ UNCHANGED <<registry, data, control, flags, events, scene, told, present, asked, sent,
                   seen, poll, app, heard>>

-----------------------------------------------------------------------------
PollStep ==
    \/ PollChecks \/ PollTimesOut
    \/ PollLock \/ (\E l \in Listeners : PollCall(l)) \/ PollReturns
    \/ PollNextRound \/ PollUnlock
    \/ OnConnection \/ PollSendsPolicy \/ OnConnectionLost \/ PollClears
    \/ \E d \in Devices, s \in BOOLEAN : OnDevice(d, s) \/ OnDeviceStatusChange(d, s)
    \/ (\E d \in Devices : OnDeviceLost(d)) \/ PollErases
    \/ \E kind \in DOMAIN PassedOn : OnPassedOn(kind)
    \/ \E id \in 1 .. MaxId : OnTracking(id) \/ OnImage(id) \/ OnPointMappingChange(id)
    \/ PollTakes \/ PollDrops \/ PollPushesImages
    \/ OnPolicy \/ \E id \in 1 .. MaxRequest : OnConfigResponse(id)

\* A call that has begun.
CallStep(t) ==
    \/ AddLocks(t) \/ AddGoesOn(t) \/ AddTestsService(t) \/ AddTestsDevices(t)
    \/ RemoveLocks(t) \/ Unlocks(t)
    \/ PolicyWrites(t) \/ PolicySends(t)
    \/ TakesFuture(t) \/ WaitEnds(t) \/ ErasesPromise(t)

AppStep(t) ==
    \/ \E l \in Listeners : AddBegins(t, l) \/ RemoveBegins(t, l)
    \/ \E p \in Policies, op \in {"set", "clear"} : PolicyReads(t, p, op)
    \/ Requests(t)
    \/ CallStep(t)

Next ==
    /\ fault = "none"
    /\ \/ PollStep
       \/ \E t \in Threads : AppStep(t)
       \/ Drops \/ Closes \/ Joins
       \/ LinkUp \/ LinkDown

Spec == Init /\ [][Next]_vars

\* Every thread that can go on does, once in a call.  The polling thread
\* leaves the mutex free while it polls, up to 250 ms at a time, so a thread
\* that wants it is not passed over for ever; nothing makes the application
\* call or the service send.
Locks(t) == fault = "none" /\ (AddLocks(t) \/ RemoveLocks(t))

FairSpec ==
    /\ Spec
    /\ WF_vars(fault = "none" /\ PollStep) /\ SF_vars(fault = "none" /\ PollLock)
    /\ \A t \in Threads : WF_vars(fault = "none" /\ CallStep(t)) /\ SF_vars(Locks(t))
    /\ WF_vars(fault = "none" /\ (Closes \/ Joins))
=============================================================================
