-------------------------- MODULE LeapControllerSpec --------------------------
(***************************************************************************)
(* What the controller of the C++ API promises, under every mix of         *)
(* messages and calls.                                                     *)
(***************************************************************************)
EXTENDS LeapController

Labels == {"check", "polling", "done", "lock", "round", "inside", "policy", "status",
           "clear", "erase", "take", "takeAgain", "drop", "dropAgain", "push"}
Calls == {"idle", "add", "remove", "onInit", "service", "onServiceConnect", "devices",
          "onConnect", "onExit", "unlock", "set", "clear", "sendSet", "sendClear",
          "future", "wait", "erase"}

TypeOK ==
    /\ listeners \subseteq Listeners /\ lock \in Threads \cup {Poller, Nothing}
    /\ service \in BOOLEAN /\ devices \subseteq Devices
    /\ flags \subseteq Policies /\ granted \subseteq Policies
    /\ \A i \in DOMAIN events : events[i] \subseteq Policies
    /\ \A i \in DOMAIN frames : frames[i].id \in 1 .. MaxId
    /\ DOMAIN promises \subseteq 0 .. MaxRequest
    /\ running \in BOOLEAN /\ owners \subseteq {"app", Poller}
    /\ life \in {"alive", "closing", "joining", "gone"}
    /\ fault \in {"none", "bad_weak_ptr", "self_join"}
    /\ poll.at \in Labels /\ poll.todo \subseteq Listeners
    /\ \A t \in Threads : app[t].at \in Calls
    /\ link \in {"up", "down"} /\ told \in {"up", "down"}
    /\ DOMAIN present \subseteq Devices
    /\ Len(frames) <= History /\ Len(images) <= History /\ Len(maps) <= History

-----------------------------------------------------------------------------
(* Listeners                                                               *)

InCallback(t) == app[t].at \in {"onInit", "onServiceConnect", "onConnect", "onExit"}

\* The callback that runs, in the polling thread or in the caller's.
Doing ==
    IF poll.at = "inside" THEN <<poll.inside, Head(poll.rounds), "own">>
    ELSE IF \E t \in Threads : InCallback(t)
      THEN LET t == CHOOSE u \in Threads : InCallback(u) IN <<app[t].l, app[t].at, "caller">>
      ELSE Nothing

Life == INSTANCE ListenerLife WITH
            attached <- listeners, doing <- Doing, gone <- life = "gone"

\* The life of a listener: onInit first, no callback for a listener that is
\* not registered, none at the same time as another, in another thread than the
\* poller's only what addListener and removeListener call, and none once the
\* controller is gone (addListener, removeListener, the handlers).  That is
\* less than LeapC++.h promises: see ListenerLife.
ListenersLive == Life!Spec

\* No message is being handled and nobody is in a locked section.
AtRest == poll.at \in {"check", "polling", "done"} /\ lock = Nothing

\* Between messages every registered listener knows whether the service is
\* connected, whenever it was added: m_isServiceConnected is written outside
\* the lock, but before the notification and before addListener's test.
ServiceTold == \A l \in listeners : (heard[l].service = "up") = service

\* Between messages with a device in the list every registered listener has
\* heard of one, if only that it was lost: the device is in m_devices before
\* anybody is told, and addListener looks there after it has registered.
DevicesNotMissed == devices # {} => \A l \in listeners : heard[l].device # "unheard"

\* No listener misses the service or a device, in whatever order addListener
\* comes between the change of either and its notification.
ListenersInformed == AtRest /\ fault = "none" => ServiceTold /\ DevicesNotMissed

\* Between messages without a device no listener's last word was onConnect:
\* LeapC++.h, "If the controller loses its connection with the Leap Motion
\* software or device for any reason, it calls the Listener::onDisconnect()".
LossIsTold ==
    (AtRest /\ devices = {}) => \A l \in listeners : heard[l].device # "up"

-----------------------------------------------------------------------------
(* The end                                                                 *)

\* Images take and drop a reference to the controller in the polling thread
\* (onImage).  The process can only die of that once no Controller is held; and
\* once the implementation is gone, its thread was joined, and nothing polls,
\* holds the mutex or a reference.
EndInOrder ==
    /\ fault # "none" => "app" \notin owners
    /\ life = "gone" => poll.at = "done" /\ lock = Nothing /\ owners = {}

\* addListener, removeListener and the other calls return, and a destructor
\* that has begun ends, whatever the polling thread was doing, unless an image
\* was (EndInOrder): the mutex is only held for callbacks that return.
CallsReturn ==
    /\ \A t \in Threads : app[t].at # "idle" ~> (app[t].at = "idle" \/ fault # "none")
    /\ (owners = {}) ~> (life = "gone" \/ fault # "none")

-----------------------------------------------------------------------------
(* Histories                                                               *)

Ids(s) == {s[i].id : i \in DOMAIN s}

\* Frame and image pair of one id find each other, whichever came first, as
\* long as both are kept (onTracking, onImage).
PairedWhileKept ==
    \A i \in DOMAIN frames : frames[i].image \/ ~Seqs!Contains(images, frames[i].id)

\* A frame that is kept has its points, whichever came first, unless History
\* newer ones pushed them out before the frame came (onPointMappingChange).
PointsReachTheirFrame ==
    \A i \in DOMAIN frames :
        LET id == frames[i].id
        IN  (id \in seen.map /\ Cardinality({m \in seen.map : m > id}) < History) => frames[i].map

\* A frame finds its images and its points, and points are used once: what
\* waits in m_pointMappingBuffers belongs to no frame that is kept.
FramesAreComplete ==
    /\ PairedWhileKept /\ PointsReachTheirFrame
    /\ \A i \in DOMAIN maps : maps[i] \notin Ids(frames)

-----------------------------------------------------------------------------
(* Policies                                                                *)

PolicyQuiet ==
    /\ link = "up" /\ told = "up" /\ events = <<>> /\ poll.at \in {"check", "polling"}
    /\ \A t \in Threads : app[t].at \notin {"set", "clear", "sendSet", "sendClear"}

\* Once the service has answered everything, policyFlags() is what it
\* granted, whichever updates of m_policyFlags were lost to each other.
PoliciesSettle == PolicyQuiet => flags = granted

-----------------------------------------------------------------------------
(* Configuration values                                                    *)

\* "If the promise hasn't been added already, the service responded faster
\* than we could aquire the lock and the wait on getting the value will become
\* a noop": an answer that was polled is never lost to a caller still on its
\* way to the wait, or in it.
EarlyAnswerNotLost ==
    \A t \in Threads :
        LET id == app[t].id
        IN  (app[t].at \in {"future", "wait"} /\ id \in seen.answer) =>
              id \in DOMAIN promises /\ promises[id].answered

\* Each caller has a promise of its own: an accepted request never throws,
\* and no wait is on a promise that another caller has erased.
RequestsAreApart ==
    \A t \in Threads :
        /\ app[t].got = "throws" => app[t].id = 0
        /\ app[t].at \in {"wait", "erase"} => app[t].id \in DOMAIN promises
=============================================================================
