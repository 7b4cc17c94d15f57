------------------------- MODULE LeapControllerProofs -------------------------
(***************************************************************************)
(* Theorems about the controller of the C++ API, for every number of       *)
(* threads, listeners, devices and frames, and every mix of messages and   *)
(* calls: the end comes in order, no listener misses the service or a      *)
(* device, every listener lives the life of ListenerLife, the policies     *)
(* settle, every caller of getConfigValue has its promise, and frames find *)
(* their images and points.                                                *)
(***************************************************************************)
EXTENDS LeapControllerSpec, SequenceTheorems, FiniteSetTheorems, TLAPS

Notices == {"onServiceConnect", "onServiceDisconnect", "onConnect", "onDisconnect",
              "onDeviceChange", "onDeviceFailure", "onFrame", "onImages", "onHeadPose",
              "onLogMessage"}

\* Where a notification leads.
Thens == {"check", "policy", "clear", "erase", "status"}

PollType ==
    [at : Labels, rounds : Seq(Notices), todo : SUBSET Listeners,
     inside : Listeners \cup {Nothing}, then : Thens,
     id : Devices \cup Nat \cup {Nothing}, again : Seq({"onConnect", "onDisconnect"}),
     flags : SUBSET Policies]

CallType ==
    [at : Calls, l : Listeners \cup Policies \cup {Nothing}, id : Nat,
     flags : SUBSET Policies, got : {"nothing", "throws", "value", "none"}]

HeardType == [service : {"unheard", "up", "down"}, device : {"unheard", "up", "down"}]

\* The calls on listeners, and those of them that hold the mutex.
Holding == {"onInit", "service", "onServiceConnect", "devices", "onConnect", "onExit", "unlock"}
Listening == Holding \cup {"add", "remove"}

\* What a call works on.
Subject(c) ==
    /\ c.at \in Listening => c.l \in Listeners
    /\ c.at \in {"set", "clear", "sendSet", "sendClear"} => c.l \in Policies

Types ==
    /\ listeners \subseteq Listeners /\ lock \in Threads \cup {Poller, Nothing}
    /\ service \in BOOLEAN /\ devices \subseteq Devices
    /\ flags \subseteq Policies /\ granted \subseteq Policies /\ events \in Seq(SUBSET Policies)
    /\ running \in BOOLEAN /\ owners \subseteq {"app", Poller}
    /\ life \in {"alive", "closing", "joining", "gone"}
    /\ fault \in {"none", "bad_weak_ptr", "self_join"}
    /\ poll \in PollType
    /\ app \in [Threads -> CallType] /\ \A t \in Threads : Subject(app[t])
    /\ heard \in [Listeners -> HeardType]
    /\ asked \in Nat

-----------------------------------------------------------------------------
(* Types                                                                   *)
LEMMA IdleIs ==
    /\ Idle \in PollType /\ Idle.at = "check" /\ Idle.rounds = <<>> /\ Idle.todo = {}
    /\ Idle.inside = Nothing /\ Idle.again = <<>> /\ Idle.flags = {}
BY DEF Idle, PollType, Labels, Thens

LEMMA RestingIs ==
    Resting \in CallType /\ Resting.at = "idle" /\ Subject(Resting)
BY DEF Resting, CallType, Calls, Subject, Listening, Holding

LEMMA NotifyIs ==
    ASSUME NEW rounds \in Seq(Notices), NEW then \in Thens
    PROVE  /\ Notify(rounds, then) \in PollType /\ Notify(rounds, then).at = "lock"
           /\ Notify(rounds, then).rounds = rounds /\ Notify(rounds, then).todo = {}
           /\ Notify(rounds, then).inside = Nothing /\ Notify(rounds, then).then = then
           /\ Notify(rounds, then).again = <<>>
BY IdleIs DEF Notify, Labels, Thens, PollType

LEMMA UnheardIs == Unheard \in HeardType /\ Unheard.service = "unheard"
BY DEF Unheard, HeardType

LEMMA RoundsAreCallbacks ==
    /\ <<>> \in Seq(Notices)
    /\ \A cb \in Notices : <<cb>> \in Seq(Notices)
    /\ \A cb, d \in Notices : <<cb, d>> \in Seq(Notices)
    /\ \A kind \in DOMAIN PassedOn : PassedOn[kind] \in Seq(Notices)
<1>1. /\ \A cb \in Notices : <<cb>> \in Seq(Notices)
      /\ \A cb, d \in Notices : <<cb, d>> \in Seq(Notices)
  OBVIOUS
<1>2. /\ "onDeviceFailure" \in Notices /\ "onLogMessage" \in Notices
      /\ "onHeadPose" \in Notices
  BY DEF Notices
<1>3. /\ DOMAIN PassedOn = {"DeviceFailure", "LogEvent", "LogEvents", "HeadPose"}
      /\ PassedOn["DeviceFailure"] = <<"onDeviceFailure">>
      /\ PassedOn["LogEvent"] = <<"onLogMessage">>
      /\ PassedOn["LogEvents"] = <<"onLogMessage", "onLogMessage">>
      /\ PassedOn["HeadPose"] = <<"onHeadPose">>
  BY DEF PassedOn
<1>4. /\ <<"onDeviceFailure">> \in Seq(Notices) /\ <<"onLogMessage">> \in Seq(Notices)
      /\ <<"onLogMessage", "onLogMessage">> \in Seq(Notices) /\ <<"onHeadPose">> \in Seq(Notices)
  BY <1>1, <1>2, Zenon
<1>5. \A kind \in DOMAIN PassedOn : PassedOn[kind] \in Seq(Notices)
  <2> SUFFICES ASSUME NEW kind \in DOMAIN PassedOn PROVE PassedOn[kind] \in Seq(Notices)
    OBVIOUS
  <2>1. kind \in {"DeviceFailure", "LogEvent", "LogEvents", "HeadPose"}
    BY <1>3, Zenon
  <2>2. QED
    BY <1>3, <1>4, <2>1, Zenon
<1>6. <<>> \in Seq(Notices)
  OBVIOUS
<1>7. QED
  BY <1>1, <1>5, <1>6, Zenon

\* What a listener knows after a callback.
LEMMA HearIs ==
    ASSUME heard \in [Listeners -> HeardType], NEW l \in Listeners, NEW cb, Hear(l, cb)
    PROVE  /\ heard' \in [Listeners -> HeardType]
           /\ \A m \in Listeners : m # l => heard'[m] = heard[m]
           /\ cb = "onInit" => heard'[l] = Unheard
           /\ cb = "onServiceConnect" =>
                heard'[l].service = "up" /\ heard'[l].device = heard[l].device
           /\ cb = "onServiceDisconnect" =>
                heard'[l].service = "down" /\ heard'[l].device = heard[l].device
           /\ cb \notin {"onInit", "onServiceConnect", "onServiceDisconnect"} =>
                heard'[l].service = heard[l].service
           /\ cb \in {"onConnect", "onDisconnect"} => heard'[l].device # "unheard"
           /\ cb \notin {"onInit", "onConnect", "onDisconnect"} =>
                heard'[l].device = heard[l].device
<1>0. heard[l] \in HeardType
  OBVIOUS
<1>1. CASE cb = "onInit"
  <2>1. heard' = [heard EXCEPT ![l] = Unheard]
    BY <1>1 DEF Hear
  <2>2. QED
    BY <2>1, <1>1, UnheardIs
<1>2. CASE cb = "onServiceConnect"
  <2>1. heard' = [heard EXCEPT ![l] = [heard[l] EXCEPT !.service = "up"]]
    BY <1>2 DEF Hear
  <2>2. [heard[l] EXCEPT !.service = "up"] \in HeardType
    BY <1>0 DEF HeardType
  <2>3. QED
    BY <2>1, <2>2, <1>2, <1>0 DEF HeardType
<1>3. CASE cb = "onServiceDisconnect"
  <2>1. heard' = [heard EXCEPT ![l] = [heard[l] EXCEPT !.service = "down"]]
    BY <1>3 DEF Hear
  <2>2. [heard[l] EXCEPT !.service = "down"] \in HeardType
    BY <1>0 DEF HeardType
  <2>3. QED
    BY <2>1, <2>2, <1>3, <1>0 DEF HeardType
<1>4. CASE cb = "onConnect"
  <2>1. heard' = [heard EXCEPT ![l] = [heard[l] EXCEPT !.device = "up"]]
    BY <1>4 DEF Hear
  <2>2. [heard[l] EXCEPT !.device = "up"] \in HeardType
    BY <1>0 DEF HeardType
  <2>3. QED
    BY <2>1, <2>2, <1>4, <1>0 DEF HeardType
<1>5. CASE cb = "onDisconnect"
  <2>1. heard' = [heard EXCEPT ![l] = [heard[l] EXCEPT !.device = "down"]]
    BY <1>5 DEF Hear
  <2>2. [heard[l] EXCEPT !.device = "down"] \in HeardType
    BY <1>0 DEF HeardType
  <2>3. QED
    BY <2>1, <2>2, <1>5, <1>0 DEF HeardType
<1>6. CASE cb \notin {"onInit", "onServiceConnect", "onServiceDisconnect", "onConnect",
                      "onDisconnect"}
  <2>1. heard' = [heard EXCEPT ![l] = heard[l]]
    BY <1>6 DEF Hear
  <2>2. QED
    BY <2>1, <1>6, <1>0
<1>7. QED
  BY <1>1, <1>2, <1>3, <1>4, <1>5, <1>6

\* A call moves on, and no other with it.
LEMMA StepIs ==
    ASSUME Types, NEW t \in Threads, NEW label \in Calls, Step(t, label)
    PROVE  /\ app' \in [Threads -> CallType]
           /\ app'[t].at = label /\ app'[t].l = app[t].l
           /\ app'[t].id = app[t].id /\ app'[t].got = app[t].got
           /\ \A u \in Threads : u # t => app'[u] = app[u]
<1>1. app[t] \in CallType
  BY DEF Types
<1>2. app' = [app EXCEPT ![t] = [app[t] EXCEPT !.at = label]]
  BY DEF Step
<1>3. [app[t] EXCEPT !.at = label] \in CallType
  BY <1>1 DEF CallType
<1>4. QED
  BY <1>1, <1>2, <1>3 DEF Types, CallType

LEMMA EndsIs ==
    ASSUME Types, NEW t \in Threads, Ends(t)
    PROVE  /\ app' \in [Threads -> CallType] /\ app'[t] = Resting
           /\ \A u \in Threads : u # t => app'[u] = app[u]
BY RestingIs DEF Ends, Types

\* The polling thread moves on.
LEMMA GoesIs ==
    ASSUME Types, NEW label \in Labels, Goes(label)
    PROVE  /\ poll' \in PollType /\ poll'.at = label
           /\ poll'.rounds = poll.rounds /\ poll'.todo = poll.todo
BY DEF Goes, Types, PollType

LEMMA InitTypes == Init => Types
<1> SUFFICES ASSUME Init PROVE Types
  OBVIOUS
<1>1. poll \in PollType
  BY IdleIs DEF Init, PollType, Labels, Thens
<1>2. app \in [Threads -> CallType] /\ \A t \in Threads : Subject(app[t])
  BY RestingIs DEF Init
<1>3. heard \in [Listeners -> HeardType]
  BY UnheardIs DEF Init
<1>4. events \in Seq(SUBSET Policies)
  BY DEF Init
<1>5. /\ listeners \subseteq Listeners /\ lock = Nothing /\ service \in BOOLEAN
      /\ devices \subseteq Devices /\ flags \subseteq Policies /\ granted \subseteq Policies
      /\ running \in BOOLEAN /\ owners \subseteq {"app", Poller} /\ life = "alive"
      /\ fault = "none" /\ asked \in Nat
  BY DEF Init
<1>6. QED
  BY <1>1, <1>2, <1>3, <1>4, <1>5 DEF Types

\* Every step of the polling thread keeps its own record typed.
LEMMA PollRecord ==
    ASSUME Types, PollStep
    PROVE  poll' \in PollType
<1>a. /\ poll \in PollType /\ Idle \in PollType /\ listeners \in SUBSET Listeners
      /\ flags \in SUBSET Policies
  BY IdleIs DEF Types
<1>0. /\ {"onServiceConnect", "onServiceDisconnect", "onFrame", "onImages", "onDeviceChange",
         "onConnect", "onDisconnect"} \subseteq Notices
      /\ {"check", "polling", "done", "policy", "clear", "erase", "status", "take", "drop",
           "takeAgain", "dropAgain", "push"} \subseteq Labels
      /\ {"check", "policy", "clear", "erase", "status"} = Thens
  BY DEF Notices, Labels, Thens
<1>1. CASE PollChecks
  BY <1>a, <1>1, <1>0 DEF PollChecks, Goes, PollType
<1>2. CASE PollTimesOut \/ PollSendsPolicy \/ PollClears \/ PollErases
  BY <1>a, <1>2 DEF PollTimesOut, PollSendsPolicy, PollClears, PollErases
<1>3. CASE PollLock
  BY <1>a, <1>3 DEF PollLock, PollType, Labels, Thens
<1>4. ASSUME NEW l \in Listeners, PollCall(l) PROVE poll' \in PollType
  BY <1>a, <1>4 DEF PollCall, PollType, Labels, Thens
<1>5. CASE PollReturns
  BY <1>a, <1>5 DEF PollReturns, PollType, Labels, Thens
<1>6. CASE PollNextRound
  <2>1. Tail(poll.rounds) \in Seq(Notices)
    BY <1>a, <1>6 DEF PollNextRound, RoundOver, PollType
  <2>2. QED
    BY <1>a, <1>6, <2>1 DEF PollNextRound, PollType
<1>7. CASE PollUnlock
  <2>1. poll.again \in Seq(Notices)
    BY <1>a DEF PollType, Notices
  <2>2. CASE poll.then = "status"
    BY <1>7, <2>1, <2>2, <1>0, NotifyIs DEF PollUnlock
  <2>3. CASE poll.then # "status"
    BY <1>a, <1>7, <2>3, <1>0 DEF PollUnlock, PollType
  <2>4. QED
    BY <2>2, <2>3
<1>8. CASE OnConnection \/ OnConnectionLost \/ PollPushesImages
  <2>1. PICK cb \in Notices, then \in Thens : poll' = Notify(<<cb>>, then)
    BY <1>8, <1>0 DEF OnConnection, OnConnectionLost, PollPushesImages
  <2>2. QED
    <3>1. <<cb>> \in Seq(Notices)
      OBVIOUS
    <3>2. QED
      BY <2>1, <3>1, NotifyIs
<1>9. DeviceRounds \in Seq(Notices)
  BY <1>0, RoundsAreCallbacks DEF DeviceRounds
<1>10. ASSUME NEW d \in Devices, NEW s \in BOOLEAN, OnDevice(d, s) PROVE poll' \in PollType
  BY <1>10, <1>9, <1>0, NotifyIs DEF OnDevice
<1>11. ASSUME NEW d \in Devices, NEW s \in BOOLEAN, OnDeviceStatusChange(d, s)
       PROVE  poll' \in PollType
  <2> DEFINE again == IF s = present[d] THEN <<>>
                      ELSE <<IF s THEN "onConnect" ELSE "onDisconnect">>
  <2>1. poll' = [Notify(DeviceRounds, "status") EXCEPT !.again = again]
    BY <1>11 DEF OnDeviceStatusChange
  <2>2. again = <<>> \/ again = <<"onConnect">> \/ again = <<"onDisconnect">>
    BY Zenon
  <2> HIDE DEF again
  <2>3. again \in Seq({"onConnect", "onDisconnect"})
    <3> DEFINE S == {"onConnect", "onDisconnect"}
    <3>1. "onConnect" \in S /\ "onDisconnect" \in S
      OBVIOUS
    <3> HIDE DEF S
    <3>2. <<>> \in Seq(S) /\ <<"onConnect">> \in Seq(S) /\ <<"onDisconnect">> \in Seq(S)
      BY <3>1
    <3>3. again \in Seq(S)
      BY <2>2, <3>2, Zenon
    <3>4. QED
      BY <3>3 DEF S
  <2>4. Notify(DeviceRounds, "status") \in PollType
    BY <1>9, <1>0, NotifyIs
  <2>5. QED
    BY <2>1, <2>3, <2>4 DEF PollType
<1>12. ASSUME NEW d \in Devices, OnDeviceLost(d) PROVE poll' \in PollType
  <2>1. LostRounds(d) \in Seq(Notices)
    BY <1>0, RoundsAreCallbacks DEF LostRounds
  <2>2. Notify(LostRounds(d), "erase") \in PollType
    BY <2>1, <1>0, NotifyIs
  <2>3. poll' = Idle \/ poll' = [Notify(LostRounds(d), "erase") EXCEPT !.id = d]
    BY <1>12 DEF OnDeviceLost
  <2>4. QED
    BY <1>a, <2>2, <2>3 DEF PollType
<1>13. ASSUME NEW kind \in DOMAIN PassedOn, OnPassedOn(kind) PROVE poll' \in PollType
  BY <1>13, <1>0, RoundsAreCallbacks, NotifyIs DEF OnPassedOn
<1>14. ASSUME NEW id \in 1 .. MaxId, OnTracking(id) \/ OnPointMappingChange(id)
       PROVE  poll' \in PollType
  <2>1. poll' = Notify(<<"onFrame">>, "check") \/ poll' = Idle
    BY <1>14 DEF OnTracking, OnPointMappingChange
  <2>2. Notify(<<"onFrame">>, "check") \in PollType
    BY <1>0, RoundsAreCallbacks, NotifyIs
  <2>3. QED
    BY <1>a, <2>1, <2>2
<1>15. ASSUME NEW id \in 1 .. MaxId, OnImage(id) PROVE poll' \in PollType
  <2>1. poll' = [Idle EXCEPT !.at = "take", !.id = id]
    BY <1>15 DEF OnImage
  <2>2. id \in Nat
    BY BoundAssumption
  <2>3. QED
    BY <1>a, <2>1, <2>2, <1>0 DEF PollType
<1>16. CASE PollTakes \/ PollDrops
  BY <1>a, <1>16, <1>0 DEF PollTakes, PollDrops, Goes, PollType
<1>17. CASE OnPolicy \/ \E id \in 1 .. MaxRequest : OnConfigResponse(id)
  BY <1>a, <1>17 DEF OnPolicy, OnConfigResponse
<1>18. QED
  BY <1>1, <1>2, <1>3, <1>4, <1>5, <1>6, <1>7, <1>8, <1>10, <1>11, <1>12, <1>13, <1>14, <1>15,
     <1>16, <1>17 DEF PollStep

LEMMA PolicySent ==
    ASSUME Types, NEW set \in SUBSET Policies, NEW clear, LeapSetPolicyFlags(set, clear)
    PROVE  granted' \subseteq Policies /\ events' \in Seq(SUBSET Policies)
<1>1. CASE link = "down"
  BY <1>1 DEF LeapSetPolicyFlags, Types
<1>2. CASE link # "down"
  <2>1. granted' \in {granted, (granted \cup set) \ clear} /\ events' = Append(events, granted')
    BY <1>2 DEF LeapSetPolicyFlags
  <2>2. granted' \in SUBSET Policies
    BY <2>1 DEF Types
  <2>3. QED
    BY <2>1, <2>2 DEF Types
<1>3. QED
  BY <1>1, <1>2

LEMMA PollTypes ==
    ASSUME Types, PollStep
    PROVE  Types'
<1> USE PollRecord DEF Types, registry, data, control, policy, world, ids
<1>1. CASE PollChecks \/ PollTimesOut \/ PollLock \/ PollReturns \/ PollNextRound
  BY <1>1 DEF PollChecks, PollTimesOut, PollLock, PollReturns, PollNextRound
<1>2. ASSUME NEW l \in Listeners, PollCall(l) PROVE Types'
  <2>1. heard' \in [Listeners -> HeardType]
    BY <1>2, HearIs DEF PollCall
  <2>2. QED
    BY <1>2, <2>1 DEF PollCall
<1>3. CASE PollUnlock \/ PollClears \/ PollErases
  BY <1>3 DEF PollUnlock, PollClears, PollErases
<1>4. CASE OnConnection \/ OnConnectionLost
  BY <1>4 DEF OnConnection, OnConnectionLost
<1>5. CASE PollSendsPolicy
  <2>1. poll.flags \in SUBSET Policies
    BY DEF PollType
  <2>2. granted' \subseteq Policies /\ events' \in Seq(SUBSET Policies)
    BY <1>5, <2>1, PolicySent DEF PollSendsPolicy
  <2>3. QED
    BY <1>5, <2>1, <2>2 DEF PollSendsPolicy
<1>6. ASSUME NEW d \in Devices, NEW s \in BOOLEAN, OnDevice(d, s) \/ OnDeviceStatusChange(d, s)
      PROVE  Types'
  BY <1>6 DEF OnDevice, OnDeviceStatusChange
<1>7. ASSUME NEW d \in Devices, OnDeviceLost(d) PROVE Types'
  BY <1>7 DEF OnDeviceLost
<1>8. ASSUME NEW kind \in DOMAIN PassedOn, OnPassedOn(kind) PROVE Types'
  BY <1>8 DEF OnPassedOn
<1>9. ASSUME NEW id \in 1 .. MaxId, OnTracking(id) \/ OnImage(id) \/ OnPointMappingChange(id)
      PROVE  Types'
  BY <1>9 DEF OnTracking, OnImage, OnPointMappingChange
<1>10. CASE PollTakes \/ PollDrops \/ PollPushesImages
  BY <1>10 DEF PollTakes, PollDrops, PollPushesImages
<1>11. CASE OnPolicy
  <2>1. Head(events) \in SUBSET Policies /\ Tail(events) \in Seq(SUBSET Policies)
    BY <1>11 DEF OnPolicy
  <2>2. QED
    BY <1>11, <2>1 DEF OnPolicy
<1>12. ASSUME NEW id \in 1 .. MaxRequest, OnConfigResponse(id) PROVE Types'
  BY <1>12 DEF OnConfigResponse
<1>13. QED
  BY <1>1, <1>2, <1>3, <1>4, <1>5, <1>6, <1>7, <1>8, <1>9, <1>10, <1>11, <1>12 DEF PollStep

LEMMA CallTypes ==
    ASSUME Types, NEW t \in Threads, CallStep(t)
    PROVE  Types'
<1> USE DEF registry, data, control, policy, world, ids
<1>0. app[t] \in CallType /\ Subject(app[t])
  BY DEF Types
<1>1. CASE AddLocks(t)
  <2>1. app[t].l \in Listeners
    BY <1>0, <1>1 DEF AddLocks, Subject, Listening
  <2>2. PICK label \in {"service", "onInit"} : Step(t, label)
    BY <1>1 DEF AddLocks
  <2>3. heard' \in [Listeners -> HeardType]
    BY <1>1, <2>1, HearIs DEF AddLocks, Types
  <2>4. /\ app' \in [Threads -> CallType] /\ app'[t].l \in Listeners
        /\ app'[t].at \notin {"set", "clear", "sendSet", "sendClear"}
        /\ \A u \in Threads : u # t => app'[u] = app[u]
    BY <2>1, <2>2, StepIs DEF Calls
  <2>5. QED
    BY <1>1, <2>1, <2>3, <2>4 DEF AddLocks, Types, Subject
<1>2. CASE AddGoesOn(t) \/ RemoveLocks(t)
  <2>1. app[t].l \in Listeners
    BY <1>0, <1>2 DEF AddGoesOn, RemoveLocks, Subject, Listening, Holding
  <2>2. PICK label \in {"service", "devices", "onExit", "unlock"} : Step(t, label)
    BY <1>2 DEF AddGoesOn, RemoveLocks
  <2>3. /\ app' \in [Threads -> CallType] /\ app'[t].l \in Listeners
        /\ app'[t].at \notin {"set", "clear", "sendSet", "sendClear"}
        /\ \A u \in Threads : u # t => app'[u] = app[u]
    BY <2>1, <2>2, StepIs DEF Calls
  <2>4. QED
    BY <1>2, <2>1, <2>3 DEF AddGoesOn, RemoveLocks, Types, Subject
<1>3. ASSUME NEW at \in {"service", "devices"}, NEW holds, NEW cb \in {"onServiceConnect", "onConnect"},
             NEW otherwise \in {"devices", "unlock"}, AddTests(t, at, holds, cb, otherwise)
      PROVE  Types'
  <2>1. app[t].l \in Listeners
    BY <1>0, <1>3 DEF AddTests, Subject, Listening, Holding
  <2>2. PICK label \in {"onServiceConnect", "onConnect", "devices", "unlock"} : Step(t, label)
    BY <1>3 DEF AddTests
  <2>3. heard' \in [Listeners -> HeardType]
    BY <1>3, <2>1, HearIs DEF AddTests, Types
  <2>4. /\ app' \in [Threads -> CallType] /\ app'[t].l \in Listeners
        /\ app'[t].at \notin {"set", "clear", "sendSet", "sendClear"}
        /\ \A u \in Threads : u # t => app'[u] = app[u]
    BY <2>1, <2>2, StepIs DEF Calls
  <2>5. QED
    BY <1>3, <2>1, <2>3, <2>4 DEF AddTests, Types, Subject
<1>4. CASE AddTestsService(t) \/ AddTestsDevices(t)
  BY <1>3, <1>4 DEF AddTestsService, AddTestsDevices
<1>5. CASE Unlocks(t)
  BY <1>5, EndsIs, RestingIs DEF Unlocks, Types
<1>6. CASE PolicyWrites(t)
  <2>1. PICK label \in {"sendSet", "sendClear"} : Step(t, label)
    BY <1>6 DEF PolicyWrites
  <2>2. /\ app' \in [Threads -> CallType] /\ app'[t].at = label /\ app'[t].l = app[t].l
        /\ \A u \in Threads : u # t => app'[u] = app[u]
    BY <2>1, StepIs DEF Calls
  <2>3. app[t].l \in Policies /\ app[t].flags \subseteq Policies
    BY <1>0, <1>6 DEF PolicyWrites, Subject, CallType
  <2>4. QED
    BY <1>6, <2>2, <2>3 DEF PolicyWrites, Types, Subject, Listening, Holding
<1>7. CASE PolicySends(t)
  <2>1. app[t].l \in Policies /\ app[t].flags \subseteq Policies
    BY <1>0, <1>7 DEF PolicySends, Subject, CallType
  <2>2. PICK s \in SUBSET Policies, c \in SUBSET Policies : LeapSetPolicyFlags(s, c)
    BY <1>7, <2>1 DEF PolicySends, Types
  <2>3. granted' \subseteq Policies /\ events' \in Seq(SUBSET Policies)
    BY <2>2, PolicySent
  <2>4. QED
    BY <1>7, <2>3, EndsIs, RestingIs DEF PolicySends, Types
<1>8. CASE TakesFuture(t)
  <2>1. app' = [app EXCEPT ![t].at = "idle", ![t].got = "throws"] \/ Step(t, "wait")
    BY <1>8 DEF TakesFuture
  <2>2. /\ app' \in [Threads -> CallType] /\ app'[t].at \in {"idle", "wait"}
        /\ \A u \in Threads : u # t => app'[u] = app[u]
    <3>1. CASE Step(t, "wait")
      BY <3>1, StepIs DEF Calls
    <3>2. CASE app' = [app EXCEPT ![t].at = "idle", ![t].got = "throws"]
      <4>1. [app[t] EXCEPT !.at = "idle", !.got = "throws"] \in CallType
        BY <1>0 DEF CallType, Calls
      <4>2. app' = [app EXCEPT ![t] = [app[t] EXCEPT !.at = "idle", !.got = "throws"]]
        BY <3>2, <1>0 DEF Types, CallType
      <4>3. QED
        BY <4>1, <4>2, <1>0 DEF Types, CallType
    <3>3. QED
      BY <2>1, <3>1, <3>2
  <2>3. QED
    BY <1>8, <2>2 DEF TakesFuture, Types, Subject, Listening, Holding
<1>9. CASE WaitEnds(t)
  <2>1. PICK got \in {"value", "none"} :
            app' = [app EXCEPT ![t].at = "erase", ![t].got = got]
    BY <1>9 DEF WaitEnds
  <2>2. /\ app' \in [Threads -> CallType] /\ app'[t].at = "erase"
        /\ \A u \in Threads : u # t => app'[u] = app[u]
    <3>1. [app[t] EXCEPT !.at = "erase", !.got = got] \in CallType
      BY <1>0 DEF CallType, Calls
    <3>2. app' = [app EXCEPT ![t] = [app[t] EXCEPT !.at = "erase", !.got = got]]
      BY <2>1, <1>0 DEF Types, CallType
    <3>3. QED
      BY <3>1, <3>2, <1>0 DEF Types, CallType
  <2>3. QED
    BY <1>9, <2>2 DEF WaitEnds, Types, Subject, Listening, Holding
<1>10. CASE ErasesPromise(t)
  <2>1. /\ app' \in [Threads -> CallType] /\ app'[t].at = "idle"
        /\ \A u \in Threads : u # t => app'[u] = app[u]
    BY <1>10, StepIs DEF ErasesPromise, Calls
  <2>2. QED
    BY <1>10, <2>1 DEF ErasesPromise, Types, Subject, Listening, Holding
<1>11. QED
  BY <1>1, <1>2, <1>4, <1>5, <1>6, <1>7, <1>8, <1>9, <1>10 DEF CallStep

LEMMA AppTypes ==
    ASSUME Types, NEW t \in Threads, AppStep(t)
    PROVE  Types'
<1> USE DEF registry, data, control, policy, world, ids
<1>1. ASSUME NEW l \in Listeners, AddBegins(t, l) \/ RemoveBegins(t, l) PROVE Types'
  <2>1. PICK at \in {"add", "remove"} :
            app' = [app EXCEPT ![t] = [Resting EXCEPT !.at = at, !.l = l]]
    BY <1>1 DEF AddBegins, RemoveBegins
  <2> DEFINE c == [Resting EXCEPT !.at = at, !.l = l]
  <2>2. c \in CallType /\ c.at = at /\ c.l = l
    BY RestingIs DEF CallType, Calls
  <2>3. Subject(c)
    BY <2>2 DEF Subject
  <2>4. QED
    BY <1>1, <2>1, <2>2, <2>3 DEF AddBegins, RemoveBegins, Types
<1>2. ASSUME NEW p \in Policies, NEW op \in {"set", "clear"}, PolicyReads(t, p, op) PROVE Types'
  <2> DEFINE f == IF op = "set" THEN flags \cup {p} ELSE flags \ {p}
             c == [Resting EXCEPT !.at = op, !.l = p, !.flags = f]
  <2>1. app' = [app EXCEPT ![t] = c]
    BY <1>2 DEF PolicyReads
  <2>2. f \in SUBSET Policies
    BY DEF Types
  <2> HIDE DEF f
  <2>3. c \in CallType /\ c.at = op /\ c.l = p
    BY <2>2, RestingIs DEF CallType, Calls
  <2>4. Subject(c)
    BY <2>3 DEF Subject, Listening, Holding
  <2>5. QED
    BY <1>2, <2>1, <2>3, <2>4 DEF PolicyReads, Types
<1>3. CASE Requests(t)
  <2> DEFINE i == IF link = "up" THEN asked' ELSE 0
  <2>0. i \in Nat
    BY <1>3 DEF Requests, Types
  <2>1. PICK id \in Nat : app' = [app EXCEPT ![t] = [Resting EXCEPT !.at = "future", !.id = id]]
    <3>1. app' = [app EXCEPT ![t] = [Resting EXCEPT !.at = "future", !.id = i]]
      BY <1>3 DEF Requests
    <3> HIDE DEF i
    <3>2. QED
      BY <2>0, <3>1
  <2> DEFINE c == [Resting EXCEPT !.at = "future", !.id = id]
  <2>2. c \in CallType /\ c.at = "future"
    BY RestingIs DEF CallType, Calls
  <2>3. Subject(c)
    BY <2>2 DEF Subject, Listening, Holding
  <2>4. QED
    BY <1>3, <2>1, <2>2, <2>3 DEF Requests, Types
<1>4. QED
  BY <1>1, <1>2, <1>3, CallTypes DEF AppStep

LEMMA NextTypes == Types /\ [Next]_vars => Types'
<1>1. ASSUME Types, UNCHANGED vars PROVE Types'
  BY <1>1 DEF Types, vars, registry, control, policy, ids
<1>2. ASSUME Types, Drops \/ Closes \/ Joins \/ LinkUp \/ LinkDown PROVE Types'
  BY <1>2 DEF Types, Drops, Closes, Joins, LinkUp, LinkDown, registry, data, control, policy, ids
<1>3. QED
  BY <1>1, <1>2, PollTypes, AppTypes DEF Next

LEMMA TypesAlways == Spec => []Types
BY InitTypes, NextTypes, PTL DEF Spec

-----------------------------------------------------------------------------
(* The inductive invariant                                                 *)
\* Who holds the mutex.
LockInv ==
    /\ lock = Poller <=> poll.at \in {"round", "inside", "policy"}
    /\ \A t \in Threads : lock = t <=> app[t].at \in Holding

\* Who holds the controller, and what its end has reached.
EndInv ==
    /\ "app" \notin owners => \A t \in Threads : app[t].at = "idle"
    /\ life # "alive" => owners = {} /\ ~running
    /\ life = "gone" => poll.at = "done"
    /\ fault = "none" => (Poller \in owners <=> poll.at \in {"drop", "dropAgain"})
    /\ fault # "none" => "app" \notin owners

Truthful(rounds, up) ==
    \A i \in DOMAIN rounds :
        /\ rounds[i] = "onServiceConnect" => up
        /\ rounds[i] = "onServiceDisconnect" => ~up

\* A notification goes to registered listeners, and tells of the service what
\* is still true.
RoundsInv ==
    /\ poll.at \in {"round", "inside"} => poll.todo \subseteq listeners
    /\ poll.at = "round" => (poll.todo = {} \/ poll.rounds # <<>>)
    /\ poll.at = "inside" => poll.inside \in Listeners /\ poll.rounds # <<>>
    /\ Truthful(poll.rounds, service)

\* The listener a call is adding is registered.
AddInv ==
    \A t \in Threads :
        app[t].at \in {"onInit", "service", "onServiceConnect", "devices"}
            => app[t].l \in listeners

\* The polling thread is still to make one of these callbacks to listener l.
PollOwes(l, callbacks) ==
    /\ poll.rounds # <<>> /\ Head(poll.rounds) \in callbacks
    /\ poll.at = "lock" \/ (poll.at \in {"round", "inside"} /\ l \in poll.todo)

\* A call that adds listener l is still to look.
AddOwes(l, labels) == \E t \in Threads : app[t].l = l /\ app[t].at \in labels

\* Whoever does not know of the service yet is about to be told.
ServiceInv ==
    \A l \in listeners :
        \/ heard[l].service = "up" <=> service
        \/ PollOwes(l, {"onServiceConnect", "onServiceDisconnect"})
        \/ AddOwes(l, {"onInit", "service"}) /\ heard[l].service = "unheard"

\* Whoever has not heard of a device yet is about to.
DeviceInv ==
    devices # {} =>
        \A l \in listeners :
            \/ heard[l].device # "unheard"
            \/ PollOwes(l, {"onConnect"})
            \/ AddOwes(l, {"onInit", "service", "onServiceConnect", "devices"})

Inv == LockInv /\ EndInv /\ RoundsInv /\ AddInv /\ ServiceInv /\ DeviceInv

LEMMA InitInv == Init => Inv
<1> SUFFICES ASSUME Init PROVE Inv
  OBVIOUS
<1>1. Types
  BY InitTypes
<1>2. poll.at \in {"check", "done"} /\ poll.rounds = <<>>
  BY IdleIs DEF Init, PollType
<1>3. \A t \in Threads : app[t].at = "idle"
  BY RestingIs DEF Init
<1>4. listeners = {} /\ lock = Nothing /\ owners = {"app"} /\ life = "alive" /\ fault = "none"
  BY DEF Init
<1>5. LockInv /\ EndInv
  BY <1>2, <1>3, <1>4, ThreadAssumption DEF LockInv, EndInv, Holding, Poller
<1>6. RoundsInv /\ AddInv /\ ServiceInv /\ DeviceInv
  BY <1>2, <1>3, <1>4 DEF RoundsInv, Truthful, AddInv, ServiceInv, DeviceInv
<1>7. QED
  BY <1>5, <1>6 DEF Inv

-----------------------------------------------------------------------------
(* Steps of the polling thread                                             *)
shared == <<listeners, lock, service, app, heard, control>>

\* Outside the locked sections it moves on with what the invariant does not
\* depend on, but for the devices, of which it may forget some.
LEMMA PollMoves ==
    ASSUME Types, Inv, UNCHANGED shared, devices' \subseteq devices,
           poll.at \in {"check", "polling", "clear", "erase", "push"},
           poll'.at \in {"check", "polling", "clear", "erase", "push", "done", "lock", "take"},
           Truthful(poll'.rounds, service')
    PROVE  Inv'
<1> USE DEF Inv, shared, control
<1>1. LockInv'
  BY DEF LockInv
<1>2. EndInv'
  BY DEF EndInv
<1>3. RoundsInv' /\ AddInv'
  BY DEF RoundsInv, AddInv
<1>4. \A l, cbs : ~PollOwes(l, cbs)
  BY DEF PollOwes
<1>5. \A l, labels : AddOwes(l, labels)' <=> AddOwes(l, labels)
  BY DEF AddOwes
<1>6. ServiceInv'
  BY <1>4, <1>5 DEF ServiceInv
<1>7. DeviceInv'
  BY <1>4, <1>5 DEF DeviceInv
<1>8. QED
  BY <1>1, <1>2, <1>3, <1>6, <1>7

\* Rounds that do not tell of the service.
LEMMA TruthfulRounds ==
    ASSUME NEW up
    PROVE
    /\ Truthful(<<>>, up) /\ Truthful(<<"onFrame">>, up) /\ Truthful(<<"onImages">>, up)
    /\ \A kind \in DOMAIN PassedOn : Truthful(PassedOn[kind], up)
    /\ Truthful(<<"onDeviceChange">>, up)
    /\ Truthful(<<"onConnect", "onDeviceChange">>, up)
    /\ Truthful(<<"onDeviceChange", "onDisconnect">>, up)
BY DEF Truthful, PassedOn

LEMMA QuietMoves ==
    ASSUME Types, Inv,
           \/ PollChecks \/ PollTimesOut \/ PollClears \/ PollErases \/ PollPushesImages
           \/ (\E d \in Devices : OnDeviceLost(d))
           \/ (\E kind \in DOMAIN PassedOn : OnPassedOn(kind))
           \/ (\E id \in 1 .. MaxId : OnTracking(id) \/ OnImage(id) \/ OnPointMappingChange(id))
           \/ OnPolicy \/ (\E id \in 1 .. MaxRequest : OnConfigResponse(id))
    PROVE  Inv'
<1> USE IdleIs DEF shared, registry, data, control, policy, world, ids
<1>0. Truthful(<<>>, service')
  BY TruthfulRounds
<1>1. CASE PollChecks
  <2>1. poll'.at \in {"polling", "done"} /\ poll'.rounds = poll.rounds
    BY <1>1, GoesIs DEF PollChecks, Labels, Thens
  <2>2. Truthful(poll'.rounds, service')
    BY <1>1, <2>1 DEF PollChecks, Inv, RoundsInv, Truthful
  <2>3. QED
    BY <1>1, <2>1, <2>2, PollMoves DEF PollChecks
<1>2. CASE PollTimesOut \/ PollClears \/ PollErases
  BY <1>2, <1>0, PollMoves DEF PollTimesOut, PollClears, PollErases
<1>3. ASSUME NEW rounds \in Seq(Notices), poll' = Notify(rounds, "check"), Truthful(rounds, service')
      PROVE  poll'.at = "lock" /\ Truthful(poll'.rounds, service')
  BY <1>3, NotifyIs DEF Labels, Thens
<1>4. CASE PollPushesImages
  <2>1. poll'.at = "lock" /\ Truthful(poll'.rounds, service')
    BY <1>3, <1>4, RoundsAreCallbacks, TruthfulRounds DEF PollPushesImages, Notices
  <2>2. QED
    BY <1>4, <2>1, PollMoves DEF PollPushesImages
<1>5. ASSUME NEW kind \in DOMAIN PassedOn, OnPassedOn(kind) PROVE Inv'
  <2>1. poll'.at = "lock" /\ Truthful(poll'.rounds, service')
    BY <1>3, <1>5, RoundsAreCallbacks, TruthfulRounds DEF OnPassedOn
  <2>2. QED
    BY <1>5, <2>1, PollMoves DEF OnPassedOn, Gets
<1>6. ASSUME NEW id \in 1 .. MaxId, OnTracking(id) PROVE Inv'
  <2>1. poll'.at = "lock" /\ Truthful(poll'.rounds, service')
    <3>1. poll' = Notify(<<"onFrame">>, "check")
      BY <1>6 DEF OnTracking
    <3>2. QED
      BY <1>3, <3>1, RoundsAreCallbacks, TruthfulRounds DEF Notices
  <2>2. QED
    BY <1>6, <2>1, PollMoves DEF OnTracking, Gets
<1>7. ASSUME NEW id \in 1 .. MaxId, OnImage(id) PROVE Inv'
  <2>1. poll'.at = "take" /\ poll'.rounds = <<>>
    BY <1>7 DEF OnImage, PollType
  <2>2. QED
    BY <1>0, <1>7, <2>1, PollMoves DEF OnImage, Gets
<1>8. CASE (\E id \in 1 .. MaxId : OnPointMappingChange(id)) \/ OnPolicy
           \/ (\E id \in 1 .. MaxRequest : OnConfigResponse(id))
  BY <1>0, <1>8, PollMoves DEF OnPointMappingChange, OnPolicy, OnConfigResponse, Gets
<1>9. ASSUME NEW d \in Devices, OnDeviceLost(d) PROVE Inv'
  <2>1. LostRounds(d) \in Seq(Notices) /\ Truthful(LostRounds(d), service')
    BY RoundsAreCallbacks, TruthfulRounds DEF LostRounds, Notices
  <2>2. LET n == Notify(LostRounds(d), "erase")
        IN  n \in PollType /\ n.at = "lock" /\ n.rounds = LostRounds(d)
    BY <2>1, NotifyIs DEF Labels, Thens
  <2>3. poll' = Idle \/ poll' = [Notify(LostRounds(d), "erase") EXCEPT !.id = d]
    BY <1>9 DEF OnDeviceLost
  <2>4. poll'.at \in {"check", "lock"} /\ Truthful(poll'.rounds, service')
    BY <2>1, <2>2, <2>3, <1>0 DEF PollType
  <2>5. QED
    BY <1>9, <2>4, PollMoves DEF OnDeviceLost, Gets
<1>10. QED
  BY <1>1, <1>2, <1>4, <1>5, <1>6, <1>7, <1>8, <1>9

\* The service or the first device changes, and everybody will be told.
LEMMA PollStarts ==
    ASSUME Types, Inv, UNCHANGED <<listeners, lock, app, heard, control>>,
           poll.at = "polling", poll'.at = "lock", Truthful(poll'.rounds, service'),
           \/ service' = service
           \/ poll'.rounds # <<>> /\ Head(poll'.rounds) \in {"onServiceConnect", "onServiceDisconnect"},
           \/ devices # {} \/ devices' = {}
           \/ poll'.rounds # <<>> /\ Head(poll'.rounds) = "onConnect"
    PROVE  Inv'
<1> USE DEF Inv, control
<1>1. LockInv'
  BY DEF LockInv
<1>2. EndInv'
  BY DEF EndInv
<1>3. RoundsInv' /\ AddInv'
  BY DEF RoundsInv, AddInv
<1>4. \A l, cbs : ~PollOwes(l, cbs)
  BY DEF PollOwes
<1>5. \A l, labels : AddOwes(l, labels)' <=> AddOwes(l, labels)
  BY DEF AddOwes
<1>6. ServiceInv'
  BY <1>4, <1>5 DEF ServiceInv, PollOwes
<1>7. DeviceInv'
  BY <1>4, <1>5 DEF DeviceInv, PollOwes
<1>8. QED
  BY <1>1, <1>2, <1>3, <1>6, <1>7

LEMMA ServiceMoves ==
    ASSUME Types, Inv, OnConnection \/ OnConnectionLost
    PROVE  Inv'
<1>1. PICK cb \in {"onServiceConnect", "onServiceDisconnect"}, then \in Thens :
        /\ poll' = Notify(<<cb>>, then)
        /\ \/ cb = "onServiceConnect" /\ service' = TRUE
           \/ cb = "onServiceDisconnect" /\ service' = FALSE
  BY DEF OnConnection, OnConnectionLost, Labels, Thens
<1>2. <<cb>> \in Seq(Notices)
  <2>1. cb \in Notices
    BY DEF Notices
  <2>2. QED
    BY <2>1, RoundsAreCallbacks, Zenon
<1>3. poll'.at = "lock" /\ poll'.rounds = <<cb>>
  <2>1. PICK rounds \in Seq(Notices) : rounds = <<cb>>
    BY <1>2
  <2>2. Notify(rounds, then).at = "lock" /\ Notify(rounds, then).rounds = rounds
    BY NotifyIs
  <2>3. QED
    BY <1>1, <2>1, <2>2, Zenon
<1>4. Truthful(poll'.rounds, service')
  <2>1. CASE cb = "onServiceConnect"
    <3>1. service' /\ poll'.rounds = <<"onServiceConnect">>
      BY <1>1, <1>3, <2>1
    <3>2. QED
      BY <3>1 DEF Truthful
  <2>2. CASE cb = "onServiceDisconnect"
    <3>1. ~service' /\ poll'.rounds = <<"onServiceDisconnect">>
      BY <1>1, <1>3, <2>2
    <3>2. QED
      BY <3>1 DEF Truthful
  <2>3. QED
    BY <1>1, <2>1, <2>2
<1>5. poll.at = "polling" /\ UNCHANGED <<listeners, lock, app, heard, control, devices>>
  BY DEF OnConnection, OnConnectionLost, Gets
<1>6. QED
  BY <1>3, <1>4, <1>5, PollStarts

LEMMA DeviceMoves ==
    ASSUME Types, Inv, NEW d \in Devices, NEW s \in BOOLEAN,
           OnDevice(d, s) \/ OnDeviceStatusChange(d, s)
    PROVE  Inv'
<1>1. /\ DeviceRounds \in Seq(Notices) /\ Truthful(DeviceRounds, service')
      /\ devices # {} \/ (DeviceRounds # <<>> /\ Head(DeviceRounds) = "onConnect")
  <2>1. CASE devices = {}
    <3>1. DeviceRounds = <<"onConnect", "onDeviceChange">>
      BY <2>1 DEF DeviceRounds
    <3>2. QED
      BY <3>1, RoundsAreCallbacks, TruthfulRounds DEF Notices
  <2>2. CASE devices # {}
    BY <2>2, RoundsAreCallbacks, TruthfulRounds DEF DeviceRounds, Notices
  <2>3. QED
    BY <2>1, <2>2
<1>2. \A then \in {"check", "status"} :
        LET n == Notify(DeviceRounds, then)
        IN  n \in PollType /\ n.at = "lock" /\ n.rounds = DeviceRounds
  BY <1>1, NotifyIs DEF Labels, Thens
<1>3. poll'.at = "lock" /\ poll'.rounds = DeviceRounds
  <2>1. CASE OnDevice(d, s)
    BY <1>2, <2>1 DEF OnDevice
  <2>2. CASE OnDeviceStatusChange(d, s)
    <3>1. PICK again : poll' = [Notify(DeviceRounds, "status") EXCEPT !.again = again]
      BY <2>2 DEF OnDeviceStatusChange
    <3>2. QED
      BY <1>2, <3>1 DEF PollType
  <2>3. QED
    BY <2>1, <2>2
<1>4. poll.at = "polling" /\ UNCHANGED <<listeners, lock, app, heard, control, service>>
  BY DEF OnDevice, OnDeviceStatusChange, Gets
<1>5. QED
  BY <1>1, <1>3, <1>4, PollStarts

\* A reference is taken only while there is one to take.
LEMMA ReferenceMoves ==
    ASSUME Types, Inv, fault = "none", PollTakes \/ PollDrops
    PROVE  Inv'
<1> USE DEF Inv, registry, data
<1>1. /\ UNCHANGED <<listeners, lock, service, devices, running, life, app, heard>>
      /\ poll'.at \in {"take", "takeAgain", "drop", "dropAgain", "push"}
      /\ poll.at \in {"take", "takeAgain", "drop", "dropAgain"}
      /\ poll'.rounds = poll.rounds
  BY GoesIs DEF PollTakes, PollDrops, Labels, Thens
<1>2. LockInv' /\ AddInv'
  BY <1>1 DEF LockInv, AddInv
<1>3. EndInv'
  <2>1. CASE PollTakes /\ owners = {}
    BY <1>1, <2>1 DEF PollTakes, EndInv
  <2>2. CASE PollTakes /\ owners # {}
    <3>1. owners' = owners \cup {Poller} /\ fault' = fault /\ life = "alive"
      BY <2>2 DEF PollTakes, EndInv
    <3>2. poll'.at \in {"drop", "dropAgain"}
      BY <2>2, GoesIs DEF PollTakes, Labels, Thens
    <3>3. QED
      BY <1>1, <3>1, <3>2 DEF EndInv, Poller
  <2>3. CASE PollDrops
    BY <1>1, <2>3, GoesIs DEF PollDrops, EndInv, Labels, Thens, Types, Poller
  <2>4. QED
    BY <2>1, <2>2, <2>3
<1>4. RoundsInv'
  BY <1>1 DEF RoundsInv
<1>5. \A l, cbs : ~PollOwes(l, cbs)
  BY <1>1 DEF PollOwes
<1>6. \A l, labels : AddOwes(l, labels)' <=> AddOwes(l, labels)
  BY <1>1 DEF AddOwes
<1>7. ServiceInv' /\ DeviceInv'
  BY <1>1, <1>5, <1>6 DEF ServiceInv, DeviceInv
<1>8. QED
  BY <1>2, <1>3, <1>4, <1>7

\* While the polling thread holds the mutex no call does.
LEMMA PollHolds ==
    ASSUME Types, Inv, poll.at \in {"round", "inside", "policy"}
    PROVE  /\ lock = Poller
           /\ \A t \in Threads : app[t].at \notin Holding
           /\ \A l : ~AddOwes(l, {"onInit", "service"})
           /\ \A l : ~AddOwes(l, {"onInit", "service", "onServiceConnect", "devices"})
<1>1. lock = Poller
  BY DEF Inv, LockInv
<1>2. \A t \in Threads : app[t].at \notin Holding
  BY <1>1, ThreadAssumption DEF Inv, LockInv
<1>3. QED
  BY <1>1, <1>2 DEF AddOwes, Holding

LEMMA LockMoves ==
    ASSUME Types, Inv, PollLock
    PROVE  Inv'
<1> USE DEF Inv, PollLock, data, control, policy, world, ids
<1>1. /\ poll \in PollType /\ poll.at = "lock" /\ poll'.at = "round"
      /\ poll'.rounds = poll.rounds
      /\ poll'.todo = IF poll.rounds = <<>> THEN {} ELSE listeners
  BY DEF Types, PollType
<1>2. LockInv'
  BY <1>1, ThreadAssumption DEF LockInv
<1>3. EndInv'
  BY <1>1 DEF EndInv
<1>4. RoundsInv' /\ AddInv'
  BY <1>1 DEF RoundsInv, AddInv
<1>5. \A l, cbs : l \in listeners /\ PollOwes(l, cbs) => PollOwes(l, cbs)'
  BY <1>1 DEF PollOwes
<1>6. \A l, labels : AddOwes(l, labels)' <=> AddOwes(l, labels)
  BY DEF AddOwes
<1>7. ServiceInv' /\ DeviceInv'
  BY <1>5, <1>6 DEF ServiceInv, DeviceInv
<1>8. QED
  BY <1>2, <1>3, <1>4, <1>7

LEMMA CallMoves ==
    ASSUME Types, Inv, NEW l \in Listeners, PollCall(l)
    PROVE  Inv'
<1> USE DEF Inv, PollCall, registry, data, control, policy, world, ids
<1> DEFINE cb == Head(poll.rounds)
<1>1. /\ poll \in PollType /\ poll.at = "round" /\ poll'.at = "inside"
      /\ poll'.rounds = poll.rounds /\ poll'.todo = poll.todo \ {l} /\ poll'.inside = l
      /\ l \in poll.todo /\ poll.todo \subseteq listeners /\ poll.rounds # <<>>
  BY DEF Types, PollType, RoundsInv
<1>2. /\ cb \in Notices
      /\ cb = "onServiceConnect" => service
      /\ cb = "onServiceDisconnect" => ~service
  <2>1. poll.rounds \in Seq(Notices) /\ 1 \in DOMAIN poll.rounds /\ cb = poll.rounds[1]
    BY <1>1 DEF PollType
  <2>2. QED
    BY <2>1 DEF RoundsInv, Truthful
<1>3. LockInv' /\ EndInv' /\ AddInv'
  BY <1>1 DEF LockInv, EndInv, AddInv
<1>4. RoundsInv'
  BY <1>1 DEF RoundsInv
<1>5. /\ \A m \in Listeners : m # l => heard'[m] = heard[m]
      /\ cb = "onServiceConnect" => heard'[l].service = "up"
      /\ cb = "onServiceDisconnect" => heard'[l].service = "down"
      /\ cb \notin {"onServiceConnect", "onServiceDisconnect"} =>
           heard'[l].service = heard[l].service
      /\ cb = "onConnect" => heard'[l].device # "unheard"
      /\ heard[l].device # "unheard" => heard'[l].device # "unheard"
  BY <1>2, HearIs DEF Types, Notices
<1>6. \A m, cbs : m # l => (PollOwes(m, cbs)' <=> PollOwes(m, cbs))
  BY <1>1 DEF PollOwes
<1>7. \A cbs : PollOwes(l, cbs) <=> cb \in cbs
  BY <1>1 DEF PollOwes
<1> HIDE DEF cb
<1>8. ServiceInv'
  <2> SUFFICES ASSUME NEW m \in listeners
               PROVE  \/ heard'[m].service = "up" <=> service
                      \/ PollOwes(m, {"onServiceConnect", "onServiceDisconnect"})'
    BY DEF ServiceInv
  <2>1. m \in Listeners
    BY DEF Types
  <2>2. \/ heard[m].service = "up" <=> service
        \/ PollOwes(m, {"onServiceConnect", "onServiceDisconnect"})
    BY <1>1, PollHolds DEF ServiceInv
  <2>3. CASE m # l
    BY <2>1, <2>2, <2>3, <1>5, <1>6
  <2>4. CASE m = l
    BY <2>2, <2>4, <1>2, <1>5, <1>7
  <2>5. QED
    BY <2>3, <2>4
<1>9. DeviceInv'
  <2> SUFFICES ASSUME devices # {}, NEW m \in listeners
               PROVE  \/ heard'[m].device # "unheard"
                      \/ PollOwes(m, {"onConnect"})'
    BY DEF DeviceInv
  <2>1. m \in Listeners
    BY DEF Types
  <2>2. heard[m].device # "unheard" \/ PollOwes(m, {"onConnect"})
    BY <1>1, PollHolds DEF DeviceInv
  <2>3. CASE m # l
    BY <2>1, <2>2, <2>3, <1>5, <1>6
  <2>4. CASE m = l
    BY <2>2, <2>4, <1>5, <1>7
  <2>5. QED
    BY <2>3, <2>4
<1>10. QED
  BY <1>3, <1>4, <1>8, <1>9

\* The second notification of onDeviceStatusChange.
LEMMA AgainIs ==
    ASSUME NEW again \in Seq({"onConnect", "onDisconnect"}), NEW up
    PROVE  LET n == Notify(again, "check")
           IN  n \in PollType /\ n.at = "lock" /\ Truthful(n.rounds, up)
<1>1. again \in Seq(Notices)
  BY DEF Notices
<1>2. Truthful(again, up)
  BY DEF Truthful
<1>3. QED
  BY <1>1, <1>2, NotifyIs DEF Thens

\* The locked section goes on, or ends, with everybody told.
LEMMA RoundMoves ==
    ASSUME Types, Inv, fault = "none", PollReturns \/ PollNextRound \/ PollUnlock \/ PollSendsPolicy
    PROVE  Inv'
<1> USE DEF Inv, registry, data, control, policy, world, ids
<1>1. poll \in PollType /\ poll' \in PollType
  BY PollRecord DEF Types, PollStep
<1>2. CASE PollReturns
  <2>1. /\ poll.at = "inside" /\ poll'.at = "round"
        /\ poll'.rounds = poll.rounds /\ poll'.todo = poll.todo
    BY <1>1, <1>2 DEF PollReturns, PollType
  <2>2. LockInv' /\ EndInv' /\ AddInv' /\ RoundsInv'
    BY <1>2, <2>1 DEF PollReturns, LockInv, EndInv, AddInv, RoundsInv
  <2>3. \A l, cbs : PollOwes(l, cbs)' <=> PollOwes(l, cbs)
    BY <2>1 DEF PollOwes
  <2>4. \A l, labels : AddOwes(l, labels)' <=> AddOwes(l, labels)
    BY <1>2 DEF PollReturns, AddOwes
  <2>5. ServiceInv' /\ DeviceInv'
    BY <1>2, <2>3, <2>4 DEF PollReturns, ServiceInv, DeviceInv
  <2>6. QED
    BY <2>2, <2>5
<1>3. ASSUME RoundOver \/ poll.at = "policy"
      PROVE  /\ \A l \in listeners : heard[l].service = "up" <=> service
             /\ devices # {} => \A l \in listeners : heard[l].device # "unheard"
             /\ lock = Poller /\ \A t \in Threads : app[t].at \notin Holding
  <2>1. \A l, cbs : ~PollOwes(l, cbs)
    BY <1>3 DEF PollOwes, RoundOver
  <2>2. QED
    BY <2>1, <1>3, PollHolds DEF ServiceInv, DeviceInv, RoundOver
<1>4. ASSUME RoundOver \/ poll.at = "policy",
             UNCHANGED <<listeners, service, devices, app, heard, control>>,
             LockInv', RoundsInv', poll'.at \notin {"done", "drop", "dropAgain"}
      PROVE  Inv'
  <2>1. EndInv'
    BY <1>4 DEF EndInv, RoundOver
  <2>2. AddInv'
    BY <1>4 DEF AddInv
  <2>3. ServiceInv' /\ DeviceInv'
    BY <1>3, <1>4 DEF ServiceInv, DeviceInv
  <2>4. QED
    BY <1>4, <2>1, <2>2, <2>3
<1>5. CASE PollNextRound
  <2>1. /\ poll.at = "round" /\ poll'.at = "round" /\ RoundOver
        /\ poll'.rounds = Tail(poll.rounds) /\ poll'.todo = listeners
        /\ poll.rounds \in Seq(Notices) /\ Len(poll.rounds) > 1
    BY <1>1, <1>5 DEF PollNextRound, PollType, RoundOver
  <2>2. Tail(poll.rounds) # <<>> /\ Truthful(Tail(poll.rounds), service)
    <3> DEFINE rest == Tail(poll.rounds)
    <3>1. /\ rest \in Seq(Notices) /\ Len(rest) = Len(poll.rounds) - 1
          /\ \A i \in DOMAIN rest : i + 1 \in DOMAIN poll.rounds /\ rest[i] = poll.rounds[i + 1]
      BY <2>1
    <3>2. Truthful(poll.rounds, service)
      BY DEF RoundsInv
    <3> HIDE DEF rest
    <3>3. Truthful(rest, service)
      BY <3>1, <3>2 DEF Truthful
    <3>4. rest # <<>>
      BY <2>1, <3>1
    <3>5. QED
      BY <3>3, <3>4 DEF rest
  <2>3. RoundsInv'
    BY <1>5, <2>1, <2>2 DEF PollNextRound, RoundsInv
  <2>4. LockInv'
    BY <1>5, <2>1 DEF PollNextRound, LockInv
  <2>5. QED
    BY <1>4, <1>5, <2>1, <2>3, <2>4 DEF PollNextRound
<1>6. CASE PollUnlock
  <2>1. RoundOver /\ poll.then \in Thens /\ poll.again \in Seq({"onConnect", "onDisconnect"})
    BY <1>1, <1>6 DEF PollUnlock, PollType
  <2>2. CASE poll.then = "policy"
    <3>1. poll'.at = "policy" /\ poll'.rounds = <<>> /\ lock' = lock
      BY <1>6, <2>2, IdleIs DEF PollUnlock, PollType
    <3>2. LockInv' /\ RoundsInv'
      BY <1>3, <1>6, <2>1, <3>1, TruthfulRounds DEF PollUnlock, LockInv, RoundsInv
    <3>3. QED
      BY <1>4, <1>6, <2>1, <3>1, <3>2 DEF PollUnlock
  <2>3. CASE poll.then # "policy"
    <3>1. lock' = Nothing /\ poll'.at \in {"lock", "check", "clear", "erase"}
      <4>1. CASE poll.then = "status"
        BY <1>6, <2>1, <4>1, AgainIs DEF PollUnlock
      <4>2. CASE poll.then # "status"
        BY <1>6, <2>1, <2>3, <4>2, IdleIs DEF PollUnlock, PollType, Thens
      <4>3. QED
        BY <4>1, <4>2
    <3>2. Truthful(poll'.rounds, service)
      <4>1. CASE poll.then = "status"
        BY <1>6, <2>1, <4>1, AgainIs DEF PollUnlock
      <4>2. CASE poll.then # "status"
        <5>1. poll'.rounds = <<>>
          BY <1>6, <4>2, IdleIs DEF PollUnlock, PollType
        <5>2. QED
          BY <5>1, TruthfulRounds
      <4>3. QED
        BY <4>1, <4>2
    <3>3. LockInv'
      BY <1>3, <1>6, <2>1, <3>1, ThreadAssumption DEF PollUnlock, LockInv
    <3>4. RoundsInv'
      BY <1>6, <3>1, <3>2 DEF PollUnlock, RoundsInv
    <3>5. QED
      BY <1>4, <1>6, <2>1, <3>1, <3>3, <3>4 DEF PollUnlock
  <2>4. QED
    BY <2>2, <2>3
<1>7. CASE PollSendsPolicy
  <2>1. poll.at = "policy" /\ lock' = Nothing /\ poll'.at = "check" /\ poll'.rounds = <<>>
    BY <1>7, IdleIs DEF PollSendsPolicy
  <2>2. LockInv'
    BY <1>3, <1>7, <2>1, ThreadAssumption DEF PollSendsPolicy, LockInv
  <2>3. RoundsInv'
    BY <1>7, <2>1, TruthfulRounds DEF PollSendsPolicy, RoundsInv
  <2>4. QED
    BY <1>4, <1>7, <2>1, <2>2, <2>3 DEF PollSendsPolicy
<1>8. QED
  BY <1>2, <1>5, <1>6, <1>7

LEMMA PollInv ==
    ASSUME Types, Inv, fault = "none", PollStep
    PROVE  Inv'
BY QuietMoves, ServiceMoves, DeviceMoves, ReferenceMoves, LockMoves, CallMoves, RoundMoves
   DEF PollStep

-----------------------------------------------------------------------------
(* Steps of the application                                                *)
kept == <<service, devices, poll, control>>

Adding == {"onInit", "service", "onServiceConnect", "devices"}

\* A call that has begun is made on a controller somebody holds.
LEMMA CallsAreHeld ==
    ASSUME Inv, NEW t \in Threads, app[t].at # "idle"
    PROVE  "app" \in owners
BY DEF Inv, EndInv

\* Thread t moves on without the mutex.
WithoutMutex(t) ==
    /\ "app" \in owners
    /\ UNCHANGED <<kept, listeners, lock, heard>>
    /\ app[t].at \notin Holding /\ app'[t].at \notin Holding
    /\ \A u \in Threads : u # t => app'[u] = app[u]

LEMMA UnlockedMoves ==
    ASSUME Types, Inv, NEW t \in Threads, WithoutMutex(t)
    PROVE  Inv'
<1> USE DEF WithoutMutex, Inv, kept, control
<1>1. LockInv' /\ EndInv' /\ RoundsInv'
  BY DEF LockInv, EndInv, RoundsInv
<1>2. AddInv'
  BY DEF AddInv, Holding
<1>3. \A l, cbs : PollOwes(l, cbs)' <=> PollOwes(l, cbs)
  BY DEF PollOwes
<1>4. \A l : /\ AddOwes(l, {"onInit", "service"})' <=> AddOwes(l, {"onInit", "service"})
             /\ AddOwes(l, Adding)' <=> AddOwes(l, Adding)
  BY DEF AddOwes, Holding, Adding
<1>5. ServiceInv' /\ DeviceInv'
  BY <1>3, <1>4 DEF ServiceInv, DeviceInv, Adding
<1>6. QED
  BY <1>1, <1>2, <1>5

LEMMA UnlockedSteps ==
    ASSUME Types, Types', Inv, NEW t \in Threads,
           \/ \E l \in Listeners : AddBegins(t, l) \/ RemoveBegins(t, l)
           \/ \E p \in Policies, op \in {"set", "clear"} : PolicyReads(t, p, op)
           \/ Requests(t) \/ PolicyWrites(t) \/ PolicySends(t)
           \/ TakesFuture(t) \/ WaitEnds(t) \/ ErasesPromise(t)
    PROVE  WithoutMutex(t)
<1> USE DEF WithoutMutex, kept, registry, data, control, policy, world, ids, Holding
<1>0. /\ app \in [Threads -> CallType] /\ app[t] \in CallType
      /\ app' \in [Threads -> CallType] /\ Resting \in CallType
  BY RestingIs DEF Types
<1>1. ASSUME NEW l \in Listeners, AddBegins(t, l) \/ RemoveBegins(t, l) PROVE WithoutMutex(t)
  <2>1. PICK at \in {"add", "remove"} :
            app' = [app EXCEPT ![t] = [Resting EXCEPT !.at = at, !.l = l]]
    BY <1>1 DEF AddBegins, RemoveBegins
  <2>2. [Resting EXCEPT !.at = at, !.l = l].at = at
    BY <1>0 DEF CallType
  <2>3. app'[t].at = at /\ \A u \in Threads : u # t => app'[u] = app[u]
    BY <1>0, <2>1, <2>2
  <2>4. QED
    BY <1>1, <2>3 DEF AddBegins, RemoveBegins, Begins
<1>2. ASSUME NEW p \in Policies, NEW op \in {"set", "clear"}, PolicyReads(t, p, op) PROVE WithoutMutex(t)
  <2>1. PICK f : app' = [app EXCEPT ![t] = [Resting EXCEPT !.at = op, !.l = p, !.flags = f]]
    BY <1>2 DEF PolicyReads
  <2>2. [Resting EXCEPT !.at = op, !.l = p, !.flags = f].at = op
    BY <1>0 DEF CallType
  <2>3. app'[t].at = op /\ \A u \in Threads : u # t => app'[u] = app[u]
    BY <1>0, <2>1, <2>2
  <2>4. QED
    BY <1>2, <2>3 DEF PolicyReads, Begins
<1>3. CASE Requests(t)
  <2>1. PICK id : app' = [app EXCEPT ![t] = [Resting EXCEPT !.at = "future", !.id = id]]
    BY <1>3 DEF Requests
  <2>2. [Resting EXCEPT !.at = "future", !.id = id].at = "future"
    BY <1>0 DEF CallType
  <2>3. app'[t].at = "future" /\ \A u \in Threads : u # t => app'[u] = app[u]
    BY <1>0, <2>1, <2>2
  <2>4. QED
    BY <1>3, <2>3 DEF Requests, Begins
<1>4. CASE PolicyWrites(t)
  <2>1. PICK label \in {"sendSet", "sendClear"} : Step(t, label)
    BY <1>4 DEF PolicyWrites
  <2>2. app'[t].at = label /\ \A u \in Threads : u # t => app'[u] = app[u]
    BY <2>1, StepIs DEF Calls
  <2>3. QED
    BY <1>4, <2>2, CallsAreHeld DEF PolicyWrites
<1>5. CASE PolicySends(t)
  BY <1>5, EndsIs, RestingIs, CallsAreHeld DEF PolicySends
<1>6. CASE TakesFuture(t)
  <2>1. /\ app[t].at = "future" /\ UNCHANGED <<kept, listeners, lock, heard>>
        /\ Step(t, "wait") \/ app' = [app EXCEPT ![t].at = "idle", ![t].got = "throws"]
    BY <1>6 DEF TakesFuture
  <2>2. app'[t].at \in {"idle", "wait"} /\ \A u \in Threads : u # t => app'[u] = app[u]
    <3>1. CASE Step(t, "wait")
      BY <3>1, StepIs DEF Calls
    <3>2. CASE app' = [app EXCEPT ![t].at = "idle", ![t].got = "throws"]
      BY <3>2, <1>0 DEF CallType
    <3>3. QED
      BY <2>1, <3>1, <3>2
  <2>3. QED
    BY <2>1, <2>2, CallsAreHeld
<1>7. CASE WaitEnds(t)
  <2>1. PICK got : app' = [app EXCEPT ![t].at = "erase", ![t].got = got]
    BY <1>7 DEF WaitEnds
  <2>2. app'[t].at = "erase" /\ \A u \in Threads : u # t => app'[u] = app[u]
    BY <2>1, <1>0 DEF CallType
  <2>3. QED
    BY <1>7, <2>2, CallsAreHeld DEF WaitEnds
<1>8. CASE ErasesPromise(t)
  <2>1. app'[t].at = "idle" /\ \A u \in Threads : u # t => app'[u] = app[u]
    BY <1>8, StepIs DEF ErasesPromise, Calls
  <2>2. QED
    BY <1>8, <2>1, CallsAreHeld DEF ErasesPromise
<1>9. QED
  BY <1>1, <1>2, <1>3, <1>4, <1>5, <1>6, <1>7, <1>8

\* A call takes the mutex and the listener with it, or out.
LEMMA TakesMutex ==
    ASSUME Types, Types', Inv, NEW t \in Threads, AddLocks(t) \/ RemoveLocks(t)
    PROVE  Inv'
<1> USE DEF Inv, registry, data, control, policy, world, ids
<1>0. /\ UNCHANGED <<service, devices, poll, control>> /\ lock = Nothing /\ lock' = t
      /\ app[t].at \in {"add", "remove"}
  BY DEF AddLocks, RemoveLocks
<1>a. PICK l \in Listeners : l = app[t].l
  BY <1>0 DEF Types, Subject, Listening
<1>1. PICK label \in {"onInit", "service", "onExit", "unlock"} : Step(t, label)
  BY DEF AddLocks, RemoveLocks
<1>2. /\ app'[t].at = label /\ app'[t].l = l
      /\ \A u \in Threads : u # t => app'[u] = app[u]
  BY <1>1, <1>a, StepIs DEF Calls
<1>3. poll.at \notin {"round", "inside", "policy"} /\ \A u \in Threads : app[u].at \notin Holding
  BY <1>0, ThreadAssumption DEF LockInv
<1>4. LockInv'
  BY <1>0, <1>2, <1>3, ThreadAssumption DEF LockInv, Holding
<1>5. EndInv' /\ RoundsInv'
  BY <1>0, <1>2, <1>3 DEF EndInv, RoundsInv
<1>6. AddInv'
  <2>1. CASE RemoveLocks(t)
    <3>1. app'[t].at \in {"onExit", "unlock"}
      BY <2>1, StepIs DEF RemoveLocks, Calls
    <3>2. QED
      BY <1>2, <1>3, <3>1 DEF AddInv, Holding
  <2>2. CASE AddLocks(t)
    <3>1. l \in listeners'
      BY <1>a, <2>2 DEF AddLocks
    <3>2. QED
      BY <1>2, <1>3, <3>1 DEF AddInv, Holding
  <2>3. QED
    BY <2>1, <2>2
<1>7. \A m, cbs : PollOwes(m, cbs)' <=> PollOwes(m, cbs)
  BY <1>0 DEF PollOwes
<1>8. \A m : ~AddOwes(m, {"onInit", "service"}) /\ ~AddOwes(m, Adding)
  BY <1>3 DEF AddOwes, Holding, Adding
<1>9. \A m \in listeners' : \/ m \in listeners /\ heard'[m] = heard[m]
                            \/ m = l /\ heard'[m] = Unheard /\ app'[t].at = "onInit"
  <2>1. CASE RemoveLocks(t)
    BY <1>a, <2>1 DEF RemoveLocks
  <2>2. CASE AddLocks(t) /\ l \in listeners
    BY <1>a, <2>2 DEF AddLocks
  <2>3. CASE AddLocks(t) /\ l \notin listeners
    <3>1. Step(t, "onInit") /\ Hear(l, "onInit") /\ listeners' = listeners \cup {l}
      BY <1>a, <2>3 DEF AddLocks
    <3>2. heard'[l] = Unheard /\ \A m \in Listeners : m # l => heard'[m] = heard[m]
      BY <1>0, <3>1, HearIs DEF Types
    <3>3. app'[t].at = "onInit"
      BY <3>1, StepIs DEF Calls
    <3>4. QED
      BY <3>1, <3>2, <3>3 DEF Types
  <2>4. QED
    BY <2>1, <2>2, <2>3
<1>10. app'[t].at = "onInit" => AddOwes(l, {"onInit", "service"})' /\ AddOwes(l, Adding)'
  BY <1>2 DEF AddOwes, Adding
<1>11. ServiceInv'
  BY <1>0, <1>7, <1>8, <1>9, <1>10, UnheardIs DEF ServiceInv
<1>12. DeviceInv'
  BY <1>0, <1>7, <1>8, <1>9, <1>10 DEF DeviceInv, Adding
<1>13. QED
  BY <1>4, <1>5, <1>6, <1>11, <1>12

\* A call that has the mutex is the only one that may owe its listener a look.
LEMMA CallHolds ==
    ASSUME Types, Inv, NEW t \in Threads, app[t].at \in Holding
    PROVE  /\ lock = t /\ t # Poller /\ t # Nothing
           /\ poll.at \notin {"round", "inside", "policy"}
           /\ \A u \in Threads : u # t => app[u].at \notin Holding
           /\ \A m, labels : labels \subseteq Holding =>
                (AddOwes(m, labels) <=> app[t].l = m /\ app[t].at \in labels)
<1>1. lock = t /\ t # Poller /\ t # Nothing
  BY ThreadAssumption DEF Inv, LockInv
<1>2. /\ poll.at \notin {"round", "inside", "policy"}
      /\ \A u \in Threads : u # t => app[u].at \notin Holding
  BY <1>1 DEF Inv, LockInv
<1>3. QED
  BY <1>1, <1>2 DEF AddOwes

LEMMA MutexMoves ==
    ASSUME Types, Types', Inv, NEW t \in Threads,
           AddGoesOn(t) \/ AddTestsService(t) \/ AddTestsDevices(t)
    PROVE  Inv'
<1> USE DEF Inv, registry, data, control, policy, world, ids
<1>0. /\ UNCHANGED <<registry, poll, control>> /\ app[t].at \in Adding
  BY DEF AddGoesOn, AddTestsService, AddTestsDevices, AddTests, Adding
<1>a. PICK l \in Listeners : l = app[t].l
  BY <1>0 DEF Types, Subject, Listening, Holding, Adding
<1>1. PICK label \in {"service", "onServiceConnect", "devices", "onConnect", "unlock"} :
        Step(t, label)
  BY DEF AddGoesOn, AddTestsService, AddTestsDevices, AddTests
<1>2. /\ app'[t].at = label /\ app'[t].l = l
      /\ \A u \in Threads : u # t => app'[u] = app[u]
  BY <1>1, <1>a, StepIs DEF Calls
<1>3. /\ lock = t /\ t # Poller
      /\ \A u \in Threads : u # t => app[u].at \notin Holding
      /\ poll.at \notin {"round", "inside", "policy"}
  BY <1>0, CallHolds DEF Holding, Adding
<1>4. LockInv'
  BY <1>0, <1>2, <1>3 DEF LockInv, Holding
<1>5. EndInv' /\ RoundsInv'
  BY <1>0, <1>2 DEF EndInv, RoundsInv, Adding
<1>6. AddInv'
  BY <1>0, <1>a, <1>2, <1>3 DEF AddInv, Holding, Adding
<1>7. \A m, cbs : PollOwes(m, cbs)' <=> PollOwes(m, cbs)
  BY <1>0 DEF PollOwes
<1>8. \A m, labels : labels \subseteq Holding =>
        (AddOwes(m, labels) <=> l = m /\ app[t].at \in labels)
  BY <1>0, <1>a, CallHolds DEF Holding, Adding
<1>9. \A labels : label \in labels => AddOwes(l, labels)'
  BY <1>2 DEF AddOwes
<1>10. \A m \in listeners : m \in Listeners
  BY DEF Types
<1> DEFINE S == {"onInit", "service"}
           Told(m) == heard[m].service = "up" <=> service
           Due(m) == PollOwes(m, {"onServiceConnect", "onServiceDisconnect"})
<1>11. \A m \in listeners : Told(m) \/ Due(m) \/ (m = l /\ app[t].at \in S /\ heard[m].service = "unheard")
  BY <1>8 DEF ServiceInv, Holding
<1>12. devices # {} => \A m \in listeners :
          heard[m].device # "unheard" \/ PollOwes(m, {"onConnect"}) \/ m = l
  BY <1>8 DEF DeviceInv, Holding
<1>13. ServiceInv' /\ DeviceInv'
  <2>1. CASE AddGoesOn(t)
    <3>1. /\ heard' = heard /\ label \in {"service", "devices"}
          /\ app[t].at \in S => label = "service"
      BY <1>2, <2>1, StepIs DEF AddGoesOn, Calls
    <3>2. ServiceInv'
      BY <1>0, <1>7, <1>9, <1>11, <3>1 DEF ServiceInv
    <3>3. DeviceInv'
      BY <1>0, <1>7, <1>9, <1>12, <3>1 DEF DeviceInv
    <3>4. QED
      BY <3>2, <3>3
  <2>2. CASE AddTestsService(t) /\ service
    <3>1. label = "onServiceConnect" /\ Hear(l, "onServiceConnect")
      BY <1>2, <1>a, <2>2, StepIs DEF AddTestsService, AddTests, Calls
    <3>2. /\ heard'[l].service = "up" /\ heard'[l].device = heard[l].device
          /\ \A m \in Listeners : m # l => heard'[m] = heard[m]
      BY <3>1, HearIs DEF Types
    <3>3. ServiceInv'
      BY <1>0, <1>7, <1>10, <1>11, <2>2, <3>2 DEF ServiceInv
    <3>4. DeviceInv'
      BY <1>0, <1>7, <1>9, <1>10, <1>12, <3>1, <3>2 DEF DeviceInv
    <3>5. QED
      BY <3>3, <3>4
  <2>3. CASE AddTestsService(t) /\ ~service
    <3>1. label = "devices" /\ heard' = heard
      BY <1>2, <2>3, StepIs DEF AddTestsService, AddTests, Calls
    <3>2. ServiceInv'
      BY <1>0, <1>7, <1>11, <2>3, <3>1 DEF ServiceInv
    <3>3. DeviceInv'
      BY <1>0, <1>7, <1>9, <1>12, <3>1 DEF DeviceInv
    <3>4. QED
      BY <3>2, <3>3
  <2>4. CASE AddTestsDevices(t) /\ devices # {}
    <3>1. Hear(l, "onConnect") /\ app[t].at = "devices"
      BY <1>a, <2>4 DEF AddTestsDevices, AddTests
    <3>2. /\ heard'[l].service = heard[l].service /\ heard'[l].device # "unheard"
          /\ \A m \in Listeners : m # l => heard'[m] = heard[m]
      BY <3>1, HearIs DEF Types
    <3>3. ServiceInv'
      BY <1>0, <1>7, <1>10, <1>11, <3>1, <3>2 DEF ServiceInv
    <3>4. DeviceInv'
      BY <1>0, <1>7, <1>10, <1>12, <3>2 DEF DeviceInv
    <3>5. QED
      BY <3>3, <3>4
  <2>5. CASE AddTestsDevices(t) /\ devices = {}
    <3>1. heard' = heard /\ app[t].at = "devices"
      BY <2>5 DEF AddTestsDevices, AddTests
    <3>2. ServiceInv' /\ DeviceInv'
      BY <1>0, <1>7, <1>11, <2>5, <3>1 DEF ServiceInv, DeviceInv
    <3>3. QED
      BY <3>2
  <2>6. QED
    BY <2>1, <2>2, <2>3, <2>4, <2>5
<1>14. QED
  BY <1>4, <1>5, <1>6, <1>13

LEMMA UnlockMoves ==
    ASSUME Types, Types', Inv, NEW t \in Threads, Unlocks(t)
    PROVE  Inv'
<1> USE DEF Inv, registry, data, control, policy, world, ids
<1>1. /\ UNCHANGED <<listeners, service, devices, poll, control, heard>> /\ lock' = Nothing
      /\ app[t].at \in {"onConnect", "onExit", "unlock"}
      /\ app'[t].at = "idle" /\ \A u \in Threads : u # t => app'[u] = app[u]
  BY EndsIs, RestingIs DEF Unlocks
<1>2. /\ lock = t /\ poll.at \notin {"round", "inside", "policy"}
      /\ \A u \in Threads : u # t => app[u].at \notin Holding
      /\ \A m, labels : labels \subseteq Holding =>
           (AddOwes(m, labels) <=> app[t].l = m /\ app[t].at \in labels)
  BY <1>1, CallHolds DEF Holding
<1>3. \A m : ~AddOwes(m, {"onInit", "service"}) /\ ~AddOwes(m, Adding)
  BY <1>1, <1>2 DEF Holding, Adding
<1>4. LockInv'
  BY <1>1, <1>2, ThreadAssumption DEF LockInv, Holding
<1>5. EndInv' /\ RoundsInv' /\ AddInv'
  BY <1>1 DEF EndInv, RoundsInv, AddInv
<1>6. \A m, cbs : PollOwes(m, cbs)' <=> PollOwes(m, cbs)
  BY <1>1 DEF PollOwes
<1>7. ServiceInv' /\ DeviceInv'
  BY <1>1, <1>3, <1>6 DEF ServiceInv, DeviceInv, Adding
<1>8. QED
  BY <1>4, <1>5, <1>7

LEMMA AppInv ==
    ASSUME Types, Types', Inv, NEW t \in Threads, AppStep(t)
    PROVE  Inv'
BY UnlockedSteps, UnlockedMoves, TakesMutex, MutexMoves, UnlockMoves DEF AppStep, CallStep

-----------------------------------------------------------------------------
(* The end, and the service                                                *)
LEMMA RestInv ==
    ASSUME Types, Types', Inv, fault = "none", Drops \/ Closes \/ Joins \/ LinkUp \/ LinkDown
    PROVE  Inv'
<1> USE DEF Inv, registry, data, control, policy, world, ids
<1>1. UNCHANGED <<registry, poll, app, heard, fault>>
  BY DEF Drops, Closes, Joins, LinkUp, LinkDown
<1>2. LockInv' /\ RoundsInv' /\ AddInv'
  BY <1>1 DEF LockInv, RoundsInv, AddInv
<1>3. ServiceInv' /\ DeviceInv'
  BY <1>1 DEF ServiceInv, DeviceInv, PollOwes, AddOwes
<1>4. EndInv'
  <2>1. CASE Drops
    BY <1>1, <2>1 DEF Drops, EndInv, Types, Poller
  <2>2. CASE Closes \/ Joins \/ LinkUp \/ LinkDown
    BY <1>1, <2>2 DEF Closes, Joins, LinkUp, LinkDown, EndInv
  <2>3. QED
    BY <2>1, <2>2
<1>5. QED
  BY <1>2, <1>3, <1>4

LEMMA NextInv == Types /\ Types' /\ Inv /\ [Next]_vars => Inv'
<1>1. ASSUME Inv, UNCHANGED vars PROVE Inv'
  BY <1>1 DEF vars, registry, data, control, policy, world, ids, Inv, LockInv, EndInv,
       RoundsInv, AddInv, ServiceInv, DeviceInv, PollOwes, AddOwes
<1>2. QED
  BY <1>1, PollInv, AppInv, RestInv DEF Next

LEMMA Invariance == Spec => [](Types /\ Inv)
<1>1. Init => Types /\ Inv
  BY InitTypes, InitInv
<1>2. Types /\ Inv /\ [Next]_vars => (Types /\ Inv)'
  BY NextTypes, NextInv
<1>3. QED
  BY <1>1, <1>2, PTL DEF Spec

-----------------------------------------------------------------------------
(* The promises                                                            *)

\* The destructor joins the polling thread before the implementation goes, and
\* images can only end the process once no Controller is held (onImage).
THEOREM EndsInOrder == Spec => []EndInOrder
<1>1. Types /\ Inv => EndInOrder
  <2> SUFFICES ASSUME Types, Inv PROVE EndInOrder
    OBVIOUS
  <2>1. CASE life = "gone"
    <3>1. poll.at = "done" /\ owners = {}
      BY <2>1 DEF Inv, EndInv
    <3>2. \A t \in Threads : app[t].at = "idle"
      BY <3>1 DEF Inv, EndInv
    <3>3. lock = Nothing
      BY <3>1, <3>2 DEF Inv, LockInv, Types, Holding
    <3>4. QED
      BY <3>1, <3>3 DEF EndInOrder
  <2>2. CASE life # "gone"
    BY <2>2 DEF EndInOrder, Inv, EndInv
  <2>3. QED
    BY <2>1, <2>2
<1>2. QED
  BY <1>1, Invariance, PTL

\* No listener misses the service or a device, for any number of threads that
\* add and remove listeners while messages come: who was not in the list when
\* the polling thread made its round finds the change itself (addListener).
THEOREM NobodyIsMissed == Spec => []ListenersInformed
<1>1. Types /\ Inv => ListenersInformed
  <2> SUFFICES ASSUME Types, Inv, AtRest PROVE ServiceTold /\ DevicesNotMissed
    BY DEF ListenersInformed
  <2>1. \A l, cbs : ~PollOwes(l, cbs)
    BY DEF AtRest, PollOwes
  <2>2. \A t \in Threads : app[t].at \notin Holding
    BY ThreadAssumption DEF AtRest, Inv, LockInv
  <2>3. \A l, labels : labels \subseteq Holding => ~AddOwes(l, labels)
    BY <2>2 DEF AddOwes
  <2>4. \A l \in listeners : heard[l].service = "up" <=> service
    BY <2>1, <2>3 DEF Inv, ServiceInv, Holding
  <2>5. service \in BOOLEAN
    BY DEF Types
  <2>6. ServiceTold
    BY <2>4, <2>5 DEF ServiceTold
  <2>7. DevicesNotMissed
    BY <2>1, <2>3 DEF Inv, DeviceInv, DevicesNotMissed, Holding
  <2>8. QED
    BY <2>6, <2>7
<1>2. QED
  BY <1>1, Invariance, PTL

-----------------------------------------------------------------------------
(* The life of a listener                                                  *)
\* The callback that runs: the polling thread's, or the only one of a call.
DoingInv ==
    /\ poll.at = "inside" => /\ Doing = <<poll.inside, Head(poll.rounds), "own">>
                             /\ Doing # Nothing
                             /\ \A t \in Threads : ~InCallback(t)
    /\ (poll.at # "inside" /\ \A t \in Threads : ~InCallback(t)) => Doing = Nothing
    /\ \A t \in Threads : InCallback(t) => Doing = <<app[t].l, app[t].at, "caller">> /\ Doing # Nothing

LEMMA NamesOfCallbacks ==
    Notices \cup {"onInit", "onServiceConnect", "onConnect", "onExit"} \subseteq Callbacks
BY DEF Notices, Callbacks

LEMMA DoingIs == Types /\ Inv => DoingInv
<1> SUFFICES ASSUME Types, Inv PROVE DoingInv
  OBVIOUS
<1>1. \A t \in Threads : InCallback(t) => app[t].at \in Holding
  BY DEF InCallback, Holding
<1>2. CASE poll.at = "inside"
  <2>1. \A t \in Threads : ~InCallback(t)
    BY <1>1, <1>2, PollHolds
  <2>2. Doing = <<poll.inside, Head(poll.rounds), "own">>
    BY <1>2 DEF Doing
  <2>3. poll.inside \in Listeners /\ Head(poll.rounds) \in Callbacks
    <3>1. poll.inside \in Listeners /\ poll.rounds \in Seq(Notices) /\ poll.rounds # <<>>
      BY <1>2 DEF Inv, RoundsInv, Types, PollType
    <3>2. Head(poll.rounds) \in Notices
      BY <3>1
    <3>3. QED
      BY <3>1, <3>2, NamesOfCallbacks
  <2>4. QED
    BY <1>2, <2>1, <2>2, <2>3, ListenerAssumption DEF DoingInv
<1>3. CASE poll.at # "inside"
  <2>1. ASSUME NEW t \in Threads, InCallback(t)
        PROVE  Doing = <<app[t].l, app[t].at, "caller">> /\ Doing # Nothing
    <3>1. \A u \in Threads : InCallback(u) => u = t
      BY <1>1, <2>1, CallHolds
    <3>2. (CHOOSE u \in Threads : InCallback(u)) = t
      BY <2>1, <3>1
    <3>3. Doing = <<app[t].l, app[t].at, "caller">>
      BY <1>3, <2>1, <3>2 DEF Doing
    <3>4. app[t].l \in Listeners /\ app[t].at \in {"onInit", "onServiceConnect", "onConnect", "onExit"}
      BY <2>1 DEF Types, Subject, Listening, Holding, InCallback
    <3>5. app[t].at \in Callbacks
      BY <3>4, NamesOfCallbacks
    <3>6. QED
      BY <3>3, <3>4, <3>5, ListenerAssumption
  <2>2. (\A t \in Threads : ~InCallback(t)) => Doing = Nothing
    BY <1>3 DEF Doing
  <2>3. QED
    BY <1>3, <2>1, <2>2 DEF DoingInv
<1>4. QED
  BY <1>2, <1>3

LEMMA DoingNext == Types' /\ Inv' => DoingInv'
BY DoingIs, PTL

\* No callback begins or ends.
LEMMA NoCallback ==
    ASSUME Types, Types', Inv, Inv',
           UNCHANGED <<listeners, life = "gone">>,
           \/ UNCHANGED poll
           \/ poll.at # "inside" /\ poll'.at # "inside",
           \A t \in Threads : \/ app'[t] = app[t]
                              \/ ~InCallback(t) /\ ~InCallback(t)'
    PROVE  UNCHANGED Life!vars
<1>1. CASE poll.at = "inside"
  <2>1. poll' = poll
    BY <1>1
  <2>2. Doing = <<poll.inside, Head(poll.rounds), "own">> /\ Doing' = <<poll'.inside, Head(poll'.rounds), "own">>
    BY <1>1, <2>1 DEF Doing
  <2>3. QED
    BY <2>1, <2>2 DEF Life!vars
<1>2. CASE poll.at # "inside"
  <2>0. poll'.at # "inside"
    BY <1>2
  <2>1. ASSUME NEW t \in Threads, InCallback(t) PROVE Doing' = Doing
    <3>1. app'[t] = app[t] /\ InCallback(t)'
      BY <2>1 DEF InCallback
    <3>2. Doing = <<app[t].l, app[t].at, "caller">>
      BY <2>1, DoingIs DEF DoingInv
    <3>3. Doing' = <<app'[t].l, app'[t].at, "caller">>
      BY <3>1, DoingNext DEF DoingInv
    <3>4. QED
      BY <3>1, <3>2, <3>3
  <2>2. ASSUME \A t \in Threads : ~InCallback(t) PROVE Doing' = Doing
    <3>1. \A t \in Threads : ~InCallback(t)'
      BY <2>2 DEF InCallback
    <3>2. QED
      BY <1>2, <2>0, <2>2, <3>1, DoingIs, DoingNext DEF DoingInv
  <2>3. QED
    BY <2>1, <2>2 DEF Life!vars
<1>3. QED
  BY <1>1, <1>2

LEMMA LifeInit == Init => Life!Init
<1> SUFFICES ASSUME Init PROVE Life!Init
  OBVIOUS
<1>1. listeners = {} /\ life # "gone"
  BY DEF Init
<1>2. poll.at # "inside"
  BY DEF Init, Idle
<1>3. \A t \in Threads : ~InCallback(t)
  BY DEF Init, Resting, InCallback
<1>4. Doing = Nothing
  BY <1>2, <1>3 DEF Doing
<1>5. QED
  BY <1>1, <1>4 DEF Life!Init

\* Only PollCall enters a callback, only PollReturns leaves it.
LEMMA NotInside ==
    ASSUME Types, Inv, fault = "none", PollStep,
           ~PollReturns, ~\E l \in Listeners : PollCall(l)
    PROVE  poll.at # "inside" /\ poll'.at # "inside"
<1> USE IdleIs, RoundsAreCallbacks, NotifyIs
<1>1. poll \in PollType /\ poll' \in PollType
  BY PollRecord DEF Types
<1>2. poll.at # "inside"
  BY DEF PollStep, PollChecks, PollTimesOut, PollLock, PollNextRound, PollUnlock, RoundOver,
     OnConnection, PollSendsPolicy, OnConnectionLost, PollClears, OnDevice, Gets,
     OnDeviceStatusChange, OnDeviceLost, PollErases, OnPassedOn, OnTracking, OnImage,
     OnPointMappingChange, PollTakes, PollDrops, PollPushesImages, OnPolicy, OnConfigResponse
<1>3. CASE PollChecks \/ PollTakes \/ PollDrops
  <2>1. \/ \E label \in Labels \ {"inside"} : Goes(label)
        \/ poll' = poll
    BY <1>3 DEF PollChecks, PollTakes, PollDrops, Labels
  <2>2. QED
    BY <1>2, <2>1, GoesIs
<1>4. CASE PollLock \/ PollNextRound
  BY <1>1, <1>2, <1>4 DEF PollLock, PollNextRound, RoundOver, PollType
<1>5. CASE \/ PollTimesOut \/ PollSendsPolicy \/ PollClears \/ PollErases \/ OnPolicy
           \/ \E id \in 1 .. MaxRequest : OnConfigResponse(id)
           \/ \E id \in 1 .. MaxId : OnPointMappingChange(id)
  <2>1. poll' = Idle
    BY <1>5 DEF PollTimesOut, PollSendsPolicy, PollClears, PollErases, OnPolicy,
         OnConfigResponse, OnPointMappingChange
  <2>2. QED
    BY <1>2, <2>1
<1>6. CASE PollUnlock
  <2>1. poll.again \in Seq({"onConnect", "onDisconnect"}) /\ poll.then \in Thens
    BY <1>1 DEF PollType
  <2>2. CASE poll.then = "status"
    BY <1>2, <1>6, <2>1, <2>2, AgainIs DEF PollUnlock
  <2>3. CASE poll.then # "status"
    BY <1>2, <1>6, <2>1, <2>3 DEF PollUnlock, PollType, Thens
  <2>4. QED
    BY <2>2, <2>3
<1>7. CASE \/ OnConnection \/ OnConnectionLost \/ PollPushesImages
           \/ \E id \in 1 .. MaxId : OnTracking(id)
           \/ \E kind \in DOMAIN PassedOn : OnPassedOn(kind)
  <2>1. PICK rounds \in Seq(Notices), then \in Thens : poll' = Notify(rounds, then)
    <3>1. \A cb \in {"onServiceConnect", "onServiceDisconnect", "onImages", "onFrame"} :
             <<cb>> \in Seq(Notices)
      BY DEF Notices
    <3>2. QED
      BY <1>7, <3>1 DEF OnConnection, OnConnectionLost, PollPushesImages, OnTracking,
           OnPassedOn, Thens
  <2>2. QED
    BY <1>2, <2>1
<1>8. CASE \E id \in 1 .. MaxId : OnImage(id)
  BY <1>2, <1>8 DEF OnImage, PollType
<1>9. ASSUME NEW d \in Devices, NEW st \in BOOLEAN, OnDevice(d, st) \/ OnDeviceStatusChange(d, st)
      PROVE  poll'.at # "inside"
  <2>1. DeviceRounds \in Seq(Notices)
    BY DEF DeviceRounds, Notices
  <2>2. \A then \in {"check", "status"} :
          Notify(DeviceRounds, then) \in PollType /\ Notify(DeviceRounds, then).at = "lock"
    BY <2>1 DEF Thens
  <2>3. CASE OnDevice(d, st)
    BY <2>2, <2>3 DEF OnDevice
  <2>4. CASE OnDeviceStatusChange(d, st)
    <3>1. PICK again : poll' = [Notify(DeviceRounds, "status") EXCEPT !.again = again]
      BY <2>4 DEF OnDeviceStatusChange
    <3>2. QED
      BY <2>2, <3>1 DEF PollType
  <2>5. QED
    BY <1>9, <2>3, <2>4
<1>10. ASSUME NEW d \in Devices, OnDeviceLost(d) PROVE poll'.at # "inside"
  <2>1. LostRounds(d) \in Seq(Notices)
    BY DEF LostRounds, Notices
  <2>2. Notify(LostRounds(d), "erase") \in PollType /\ Notify(LostRounds(d), "erase").at = "lock"
    BY <2>1 DEF Thens
  <2>3. poll' = Idle \/ poll' = [Notify(LostRounds(d), "erase") EXCEPT !.id = d]
    BY <1>10 DEF OnDeviceLost
  <2>4. QED
    BY <2>2, <2>3 DEF PollType
<1>11. QED
  BY <1>2, <1>3, <1>4, <1>5, <1>6, <1>7, <1>8, <1>9, <1>10 DEF PollStep

\* A notification calls a registered listener while nobody else is called.
LEMMA PollLife ==
    ASSUME Types, Types', Inv, Inv', fault = "none", PollStep
    PROVE  [Life!Next]_Life!vars
<1> USE DEF registry, data, control, policy, world, ids
<1>1. ASSUME NEW l \in Listeners, PollCall(l) PROVE Life!Call(l)
  <2>1. /\ poll.at = "round" /\ poll'.at = "inside" /\ poll'.inside = l
        /\ poll'.rounds = poll.rounds /\ poll.rounds # <<>> /\ poll.rounds \in Seq(Notices)
        /\ l \in listeners /\ life # "gone"
        /\ UNCHANGED <<listeners, life>>
    BY <1>1 DEF PollCall, Types, PollType, Inv, RoundsInv, EndInv
  <2>2. \A t \in Threads : ~InCallback(t)
    BY <2>1, PollHolds DEF InCallback, Holding
  <2>3. Doing = Nothing
    BY <2>1, <2>2, DoingIs DEF DoingInv
  <2>4. Doing' = <<l, Head(poll.rounds), "own">>
    BY <2>1 DEF Doing
  <2>5. Head(poll.rounds) \in Notices
    BY <2>1
  <2>6. Doing' \in {l} \X Notices \X {"own"}
    BY <2>4, <2>5
  <2>7. QED
    BY <2>1, <2>3, <2>6 DEF Life!Call, Life!Quiet, Life!Notices, Notices
<1>2. CASE PollReturns
  <2>1. poll.at = "inside" /\ poll'.at = "round" /\ UNCHANGED <<listeners, life, app>>
    BY <1>2 DEF PollReturns, Types, PollType
  <2>2. Doing # Nothing /\ \A t \in Threads : ~InCallback(t)
    BY <2>1, DoingIs DEF DoingInv
  <2>3. \A t \in Threads : ~InCallback(t)'
    BY <2>1, <2>2 DEF InCallback
  <2>4. Doing' = Nothing
    BY <2>1, <2>3, DoingNext DEF DoingInv
  <2>5. QED
    BY <2>1, <2>2, <2>4 DEF Life!Next, Life!Return
<1>3. CASE ~PollReturns /\ ~\E l \in Listeners : PollCall(l)
  <2>1. UNCHANGED <<listeners, life, app>>
    BY <1>3 DEF PollStep, PollChecks, PollTimesOut, PollLock, PollNextRound, PollUnlock,
         OnConnection, PollSendsPolicy, OnConnectionLost, PollClears, OnDevice,
         OnDeviceStatusChange, OnDeviceLost, PollErases, OnPassedOn, OnTracking, OnImage,
         OnPointMappingChange, PollTakes, PollDrops, PollPushesImages, OnPolicy, OnConfigResponse
  <2>2. poll.at # "inside" /\ poll'.at # "inside"
    BY <1>3, NotInside
  <2>3. QED
    BY <2>1, <2>2, NoCallback
<1>4. QED
  BY <1>1, <1>2, <1>3 DEF Life!Next

\* What a call does to the callbacks.
LEMMA CallLife ==
    ASSUME Types, Types', Inv, Inv', NEW t \in Threads, UNCHANGED <<poll, control>>,
           app[t].at # "idle", app'[t].at \in Holding \/ app[t].at \in Holding,
           app[t].at \in Holding \/ lock = Nothing,
           \A u \in Threads : u # t => app'[u] = app[u]
    PROVE  /\ life # "gone" /\ life' # "gone"
           /\ ~InCallback(t) => Doing = Nothing
           /\ ~InCallback(t)' => Doing' = Nothing
           /\ InCallback(t) => Doing # Nothing
           /\ InCallback(t)' => Doing' = <<app'[t].l, app'[t].at, "caller">>
<1> USE DEF control
<1>1. life # "gone" /\ life' # "gone"
  BY CallsAreHeld DEF Inv, EndInv
<1>2. poll.at # "inside" /\ \A u \in Threads : u # t => app[u].at \notin Holding
  <2>1. CASE app[t].at \in Holding
    BY <2>1, CallHolds
  <2>2. CASE lock = Nothing
    BY <2>2, ThreadAssumption DEF Inv, LockInv
  <2>3. QED
    BY <2>1, <2>2
<1>3. \A u \in Threads : u # t => ~InCallback(u) /\ ~InCallback(u)'
  BY <1>2 DEF InCallback, Holding
<1>4. /\ ~InCallback(t) => Doing = Nothing
      /\ InCallback(t) => Doing # Nothing
  BY <1>2, <1>3, DoingIs DEF DoingInv
<1>5. /\ ~InCallback(t)' => Doing' = Nothing
      /\ InCallback(t)' => Doing' = <<app'[t].l, app'[t].at, "caller">>
  BY <1>2, <1>3, DoingNext DEF DoingInv
<1>6. QED
  BY <1>1, <1>4, <1>5

\* A call attaches, detaches or calls its listener, returns from a callback,
\* or does none of these.
LEMMA AppLife ==
    ASSUME Types, Types', Inv, Inv', NEW t \in Threads, AppStep(t)
    PROVE  [Life!Next]_Life!vars
<1> USE DEF registry, data, control, policy, world, ids
<1>1. CASE WithoutMutex(t)
  <2>1. ~InCallback(t) /\ ~InCallback(t)'
    BY <1>1 DEF WithoutMutex, InCallback, Holding
  <2>2. QED
    BY <1>1, <2>1, NoCallback DEF WithoutMutex, kept
<1>2. CASE AddLocks(t) \/ RemoveLocks(t)
  <2>1. PICK l \in Listeners : l = app[t].l
    BY <1>2 DEF AddLocks, RemoveLocks, Types, Subject, Listening
  <2>2. PICK label \in {"onInit", "service", "onExit", "unlock"} :
          /\ Step(t, label)
          /\ \/ label = "onInit" /\ l \notin listeners /\ listeners' = listeners \cup {l}
             \/ label = "onExit" /\ l \in listeners /\ listeners' = listeners \ {l}
             \/ label \in {"service", "unlock"} /\ listeners' = listeners
    BY <1>2, <2>1 DEF AddLocks, RemoveLocks
  <2>3. /\ app'[t].at = label /\ app'[t].l = l /\ app[t].at \in {"add", "remove"}
        /\ \A u \in Threads : u # t => app'[u] = app[u]
        /\ lock = Nothing /\ UNCHANGED <<poll, control>>
    BY <1>2, <2>1, <2>2, StepIs DEF AddLocks, RemoveLocks, Calls
  <2>4. /\ life # "gone" /\ life' # "gone" /\ Doing = Nothing
        /\ label \in {"service", "unlock"} => Doing' = Nothing
        /\ label \in {"onInit", "onExit"} => Doing' = <<l, label, "caller">>
    BY <2>3, CallLife DEF InCallback, Holding
  <2>5. CASE label = "onInit"
    BY <2>2, <2>4, <2>5 DEF Life!Next, Life!Attach, Life!Quiet
  <2>6. CASE label = "onExit"
    BY <2>2, <2>4, <2>6 DEF Life!Next, Life!Detach, Life!Quiet
  <2>7. CASE label \in {"service", "unlock"}
    BY <2>2, <2>4, <2>7 DEF Life!vars
  <2>8. QED
    BY <2>5, <2>6, <2>7
<1>3. CASE AddGoesOn(t) \/ AddTestsService(t) \/ AddTestsDevices(t)
  <2>1. app[t].at \in Adding /\ UNCHANGED <<listeners, poll, control>>
    BY <1>3 DEF AddGoesOn, AddTestsService, AddTestsDevices, AddTests, Adding
  <2>2. PICK l \in listeners : l = app[t].l
    BY <2>1 DEF Adding, Inv, AddInv
  <2>3. PICK label \in {"service", "onServiceConnect", "devices", "onConnect", "unlock"} :
          /\ Step(t, label)
          /\ InCallback(t) => label \in {"service", "devices"}
    BY <1>3 DEF AddGoesOn, AddTestsService, AddTestsDevices, AddTests, InCallback
  <2>4. /\ app'[t].at = label /\ app'[t].l = l
        /\ \A u \in Threads : u # t => app'[u] = app[u]
    BY <2>2, <2>3, StepIs DEF Calls
  <2>5. /\ life # "gone" /\ life' # "gone"
        /\ ~InCallback(t) => Doing = Nothing
        /\ ~InCallback(t)' => Doing' = Nothing
        /\ InCallback(t) => Doing # Nothing
        /\ InCallback(t)' => Doing' = <<app'[t].l, app'[t].at, "caller">>
    BY <2>1, <2>4, CallLife DEF Adding, Holding
  <2>6. CASE InCallback(t)
    <3>1. ~InCallback(t)'
      BY <2>3, <2>4, <2>6 DEF InCallback
    <3>2. QED
      BY <2>1, <2>5, <2>6, <3>1 DEF Life!Next, Life!Return
  <2>7. CASE ~InCallback(t) /\ label \in {"service", "devices", "unlock"}
    <3>1. ~InCallback(t)'
      BY <2>4, <2>7 DEF InCallback
    <3>2. QED
      BY <2>1, <2>5, <2>7, <3>1 DEF Life!vars
  <2>8. CASE ~InCallback(t) /\ label \in {"onServiceConnect", "onConnect"}
    <3>1. InCallback(t)'
      BY <2>4, <2>8 DEF InCallback
    <3>2. Life!Call(l)
      BY <2>1, <2>2, <2>4, <2>5, <2>8, <3>1 DEF Life!Call, Life!Quiet
    <3>3. l \in Listeners
      BY <2>2 DEF Types
    <3>4. QED
      BY <3>2, <3>3 DEF Life!Next
  <2>9. QED
    BY <2>3, <2>6, <2>7, <2>8
<1>4. CASE Unlocks(t)
  <2>1. /\ app[t].at \in {"onConnect", "onExit", "unlock"} /\ app'[t].at = "idle"
        /\ \A u \in Threads : u # t => app'[u] = app[u]
        /\ UNCHANGED <<listeners, poll, control>>
    BY <1>4, EndsIs, RestingIs DEF Unlocks
  <2>2. ~InCallback(t)'
    BY <2>1 DEF InCallback
  <2>3. /\ life # "gone" /\ life' # "gone" /\ Doing' = Nothing
        /\ ~InCallback(t) => Doing = Nothing
        /\ InCallback(t) => Doing # Nothing
    BY <2>1, <2>2, CallLife DEF Holding
  <2>4. QED
    BY <2>1, <2>3 DEF Life!Next, Life!Return, Life!vars
<1>5. QED
  BY <1>1, <1>2, <1>3, <1>4, UnlockedSteps DEF AppStep, CallStep

\* The controller goes when no callback runs.
LEMMA RestLife ==
    ASSUME Types, Types', Inv, Inv', Drops \/ Closes \/ Joins \/ LinkUp \/ LinkDown
    PROVE  [Life!Next]_Life!vars
<1> USE DEF registry, data, control, policy, world, ids
<1>1. UNCHANGED <<listeners, poll, app>>
  BY DEF Drops, Closes, Joins, LinkUp, LinkDown
<1>2. CASE Joins
  <2>1. poll.at = "done" /\ life = "joining" /\ life' = "gone"
    BY <1>2 DEF Joins
  <2>2. \A t \in Threads : ~InCallback(t)
    BY <2>1 DEF Inv, EndInv, InCallback
  <2>3. \A t \in Threads : ~InCallback(t)'
    BY <1>1, <2>2 DEF InCallback
  <2>4. Doing = Nothing /\ Doing' = Nothing
    BY <1>1, <2>1, <2>2, <2>3, DoingIs, DoingNext DEF DoingInv
  <2>5. QED
    BY <1>1, <2>1, <2>4 DEF Life!Next, Life!Destroy, Life!Quiet
<1>3. CASE Drops \/ Closes \/ LinkUp \/ LinkDown
  <2>1. (life' = "gone") <=> (life = "gone")
    BY <1>3 DEF Drops, Closes, LinkUp, LinkDown, Inv, EndInv
  <2>2. QED
    BY <1>1, <2>1, NoCallback
<1>4. QED
  BY <1>2, <1>3

\* Every listener lives the life of ListenerLife, however the calls of any
\* number of threads and the notifications interleave: onInit first, no
\* callback for a listener that is not registered, none at the same time as
\* another, in a caller's thread only what addListener and removeListener call,
\* none once the controller is gone.
THEOREM ImplementsListenerLife == Spec => ListenersLive
<1>1. Types /\ Types' /\ Inv /\ Inv' /\ [Next]_vars => [Life!Next]_Life!vars
  <2> SUFFICES ASSUME Types, Types', Inv, Inv', [Next]_vars PROVE [Life!Next]_Life!vars
    OBVIOUS
  <2>1. CASE UNCHANGED vars
    <3>1. UNCHANGED <<listeners, life, poll, app>>
      BY <2>1 DEF vars, registry, control
    <3>2. QED
      BY <3>1, NoCallback
  <2>2. QED
    BY <2>1, PollLife, AppLife, RestLife DEF Next
<1>2. QED
  BY <1>1, LifeInit, Invariance, PTL DEF Spec, ListenersLive, Life!Spec
-----------------------------------------------------------------------------
(* Policies                                                                *)
\* onConnection is still to send the policies it reads.
WillSend ==
    \/ poll.at = "policy"
    \/ poll.at \in {"lock", "round", "inside"} /\ poll.then = "policy"

Setting == {"set", "clear", "sendSet", "sendClear"}

\* The last event on its way tells what the service granted, and when none is
\* on its way m_policyFlags holds it, or somebody is about to send policies.
PolicyInv ==
    /\ link = "down" /\ told = "down" => events = <<>>
    /\ link = "up" =>
         /\ events # <<>> => events[Len(events)] = granted
         /\ told = "up" /\ events = <<>> =>
              flags = granted \/ WillSend \/ \E t \in Threads : app[t].at \in Setting

LEMMA SendingIs ==
    ASSUME Types, PolicyInv, NEW set \in SUBSET Policies, NEW clear,
           LeapSetPolicyFlags(set, clear), UNCHANGED <<link, told>>
    PROVE  PolicyInv'
<1>1. CASE link = "down"
  BY <1>1 DEF LeapSetPolicyFlags, PolicyInv
<1>2. CASE link # "down"
  <2>1. granted' \in {granted, (granted \cup set) \ clear} /\ events' = Append(events, granted')
    BY <1>2 DEF LeapSetPolicyFlags
  <2>2. granted' \in SUBSET Policies
    BY <2>1 DEF Types
  <2>3. events' # <<>> /\ events'[Len(events')] = granted'
    BY <2>1, <2>2 DEF Types
  <2>4. QED
    BY <1>2, <2>3 DEF PolicyInv
<1>3. QED
  BY <1>1, <1>2

\* What touches no policy and sends none keeps the invariant.
LEMMA PolicyStays ==
    ASSUME PolicyInv, UNCHANGED <<policy, link, told>>, WillSend => WillSend',
           \A t \in Threads : app[t].at \in Setting => app'[t].at \in Setting
    PROVE  PolicyInv'
BY DEF PolicyInv, policy

LEMMA PollPolicy ==
    ASSUME Types, PolicyInv, PollStep
    PROVE  PolicyInv'
<1> USE DEF registry, data, control, world, ids
<1>0. poll \in PollType
  BY DEF Types
<1>1. CASE PollChecks \/ PollTimesOut \/ PollClears \/ PollErases \/ PollTakes \/ PollDrops \/ PollPushesImages
  <2>1. poll.at \in {"check", "polling", "clear", "erase", "take", "takeAgain", "drop", "dropAgain", "push"}
    BY <1>1 DEF PollChecks, PollTimesOut, PollClears, PollErases, PollTakes, PollDrops, PollPushesImages
  <2>2. ~WillSend
    BY <2>1 DEF WillSend
  <2>3. UNCHANGED <<policy, link, told, app>>
    BY <1>1 DEF PollChecks, PollTimesOut, PollClears, PollErases, PollTakes, PollDrops, PollPushesImages
  <2>4. QED
    BY <2>2, <2>3, PolicyStays
<1>2. ASSUME PollLock \/ (\E l \in Listeners : PollCall(l)) \/ PollReturns \/ PollNextRound \/ PollUnlock
      PROVE  PolicyInv'
  <2>1. UNCHANGED <<policy, link, told, app>>
    BY <1>2 DEF PollLock, PollCall, PollReturns, PollNextRound, PollUnlock
  <2>2. CASE PollUnlock
    <3>1. poll.at = "round"
      BY <2>2 DEF PollUnlock, RoundOver
    <3>2. poll.then = "policy" => poll'.at = "policy"
      BY <2>2, IdleIs DEF PollUnlock, PollType
    <3>3. WillSend => WillSend'
      BY <3>1, <3>2 DEF WillSend
    <3>4. QED
      BY <2>1, <3>3, PolicyStays
  <2>3. CASE PollLock \/ (\E l \in Listeners : PollCall(l)) \/ PollReturns \/ PollNextRound
    <3>1. poll'.then = poll.then /\ poll'.at \in {"round", "inside"}
          /\ poll.at \in {"lock", "round", "inside"}
      BY <1>0, <2>3 DEF PollLock, PollCall, PollReturns, PollNextRound, RoundOver, PollType
    <3>2. WillSend => WillSend'
      BY <3>1 DEF WillSend
    <3>3. QED
      BY <2>1, <3>2, PolicyStays
  <2>4. QED
    BY <1>2, <2>2, <2>3
<1>3. CASE PollSendsPolicy
  <2>1. poll.flags \in SUBSET Policies
    BY <1>0 DEF PollType
  <2>2. QED
    BY <1>3, <2>1, SendingIs DEF PollSendsPolicy
<1>4. CASE OnConnection
  <2>1. poll' = Notify(<<"onServiceConnect">>, "policy")
    BY <1>4 DEF OnConnection
  <2>2. <<"onServiceConnect">> \in Seq(Notices) /\ "policy" \in Thens
    BY RoundsAreCallbacks DEF Notices, Thens
  <2>3. WillSend'
    BY <2>1, <2>2, NotifyIs DEF WillSend
  <2>4. QED
    BY <1>4, <2>3 DEF OnConnection, PolicyInv, policy
<1>5. CASE OnConnectionLost
  BY <1>5 DEF OnConnectionLost, PolicyInv, policy
<1>6. ASSUME poll.at = "polling", UNCHANGED <<policy, link, told, app>> PROVE PolicyInv'
  BY <1>6, PolicyStays DEF WillSend
<1>7. ASSUME NEW d \in Devices, NEW s \in BOOLEAN,
             OnDevice(d, s) \/ OnDeviceStatusChange(d, s) \/ OnDeviceLost(d)
      PROVE  PolicyInv'
  <2>1. poll.at = "polling" /\ UNCHANGED <<policy, link, told, app>>
    BY <1>7 DEF OnDevice, OnDeviceStatusChange, OnDeviceLost, Gets
  <2>2. QED
    BY <1>6, <2>1
<1>8. ASSUME NEW kind \in DOMAIN PassedOn, OnPassedOn(kind) PROVE PolicyInv'
  BY <1>6, <1>8 DEF OnPassedOn, Gets
<1>9. ASSUME NEW id \in 1 .. MaxId, OnTracking(id) \/ OnImage(id) \/ OnPointMappingChange(id)
      PROVE  PolicyInv'
  BY <1>6, <1>9 DEF OnTracking, OnImage, OnPointMappingChange, Gets
<1>10. CASE OnPolicy
  <2>1. events \in Seq(SUBSET Policies) /\ events # <<>> /\ flags' = Head(events)
        /\ events' = Tail(events) /\ UNCHANGED <<granted, link, told>> /\ told = "up"
    BY <1>10 DEF OnPolicy, Types
  <2>2. Len(Tail(events)) = Len(events) - 1 /\ Len(events) \in Nat \ {0}
    BY <2>1
  <2>3. events' = <<>> => Head(events) = events[Len(events)]
    <3> DEFINE n == Len(events)
               m == Len(Tail(events))
    <3>0. events' = <<>> => m = 0
      BY <2>1, Len(<<>>) = 0
    <3>1. events' = <<>> => n = 1
      <4>1. m = n - 1 /\ n \in Nat
        BY <2>2
      <4> HIDE DEF n, m
      <4>2. QED
        BY <3>0, <4>1
    <3>2. Head(events) = events[1]
      BY <2>1
    <3>3. QED
      BY <3>1, <3>2
  <2>4. events' # <<>> => events'[Len(events')] = events[Len(events)]
    <3>1. \A i \in 1 .. Len(Tail(events)) : Tail(events)[i] = events[i + 1]
      BY <2>1
    <3>2. Tail(events) # <<>> => Len(events) - 1 \in 1 .. Len(Tail(events))
      BY <2>1, <2>2
    <3>3. QED
      BY <2>1, <2>2, <3>1, <3>2
  <2>5. QED
    BY <2>1, <2>3, <2>4 DEF PolicyInv
<1>11. ASSUME NEW id \in 1 .. MaxRequest, OnConfigResponse(id) PROVE PolicyInv'
  BY <1>6, <1>11 DEF OnConfigResponse, Gets
<1>12. QED
  BY <1>1, <1>2, <1>3, <1>4, <1>5, <1>7, <1>8, <1>9, <1>10, <1>11 DEF PollStep

LEMMA AppPolicy ==
    ASSUME Types, PolicyInv, NEW t \in Threads, AppStep(t)
    PROVE  PolicyInv'
<1> USE DEF registry, data, control, policy, world, ids
<1>0. app \in [Threads -> CallType] /\ Subject(app[t])
  BY DEF Types
<1>1. ASSUME app[t].at \notin Setting, UNCHANGED <<policy, link, told, poll>>,
             \A u \in Threads : u # t => app'[u] = app[u]
      PROVE  PolicyInv'
  BY <1>1, PolicyStays DEF WillSend
<1>2. ASSUME NEW l \in Listeners, AddBegins(t, l) \/ RemoveBegins(t, l) PROVE PolicyInv'
  BY <1>0, <1>1, <1>2 DEF AddBegins, RemoveBegins, Begins, Setting
<1>3. ASSUME NEW p \in Policies, NEW op \in {"set", "clear"}, PolicyReads(t, p, op)
      PROVE  PolicyInv'
  BY <1>0, <1>1, <1>3 DEF PolicyReads, Begins, Setting
<1>4. CASE Requests(t)
  BY <1>0, <1>1, <1>4 DEF Requests, Begins, Setting
<1>5. CASE AddLocks(t) \/ AddGoesOn(t) \/ AddTestsService(t) \/ AddTestsDevices(t)
           \/ RemoveLocks(t) \/ Unlocks(t)
  BY <1>0, <1>1, <1>5 DEF AddLocks, AddGoesOn, AddTestsService, AddTestsDevices, AddTests,
     RemoveLocks, Unlocks, Step, Ends, Setting
<1>6. CASE TakesFuture(t) \/ WaitEnds(t) \/ ErasesPromise(t)
  BY <1>0, <1>1, <1>6 DEF TakesFuture, WaitEnds, ErasesPromise, Step, Setting
<1>7. CASE PolicyWrites(t)
  <2>1. PICK label \in {"sendSet", "sendClear"} : Step(t, label)
    BY <1>7 DEF PolicyWrites
  <2>2. app'[t].at \in Setting
    BY <2>1, StepIs DEF Calls, Setting
  <2>3. QED
    BY <1>7, <2>2 DEF PolicyWrites, PolicyInv, WillSend
<1>8. CASE PolicySends(t)
  <2>1. app[t].l \in Policies /\ app[t].flags \in SUBSET Policies
    BY <1>0, <1>8 DEF PolicySends, Subject, CallType
  <2>2. PICK s \in SUBSET Policies, c \in SUBSET Policies : LeapSetPolicyFlags(s, c)
    BY <1>8, <2>1 DEF PolicySends, Types
  <2>3. UNCHANGED <<link, told>>
    BY <1>8 DEF PolicySends
  <2>4. QED
    BY <2>2, <2>3, SendingIs
<1>9. QED
  BY <1>2, <1>3, <1>4, <1>5, <1>6, <1>7, <1>8 DEF AppStep, CallStep

LEMMA NextPolicy == Types /\ PolicyInv /\ [Next]_vars => PolicyInv'
<1>1. ASSUME PolicyInv, UNCHANGED vars PROVE PolicyInv'
  BY <1>1 DEF PolicyInv, vars, policy, world, WillSend
<1>2. ASSUME PolicyInv, Drops \/ Closes \/ Joins PROVE PolicyInv'
  BY <1>2 DEF PolicyInv, Drops, Closes, Joins, policy, world, WillSend
<1>3. ASSUME PolicyInv, LinkUp \/ LinkDown PROVE PolicyInv'
  BY <1>3 DEF PolicyInv, LinkUp, LinkDown, policy
<1>4. QED
  BY <1>1, <1>2, <1>3, PollPolicy, AppPolicy DEF Next

\* Once every policy event was polled and no call is under way, policyFlags()
\* is what the service granted, though m_policyFlags is read and written
\* without a lock by any number of threads (setPolicy, clearPolicy, onPolicy,
\* onConnection).
THEOREM PoliciesAgree == Spec => []PoliciesSettle
<1>1. Init => PolicyInv
  BY DEF Init, PolicyInv
<1>2. PolicyInv => PoliciesSettle
  BY DEF PolicyInv, PoliciesSettle, PolicyQuiet, WillSend, Setting
<1>3. QED
  BY <1>1, <1>2, NextPolicy, TypesAlways, PTL DEF Spec

-----------------------------------------------------------------------------
(* Configuration values                                                    *)
\* Where a caller has a request, and where a promise of its own.
Asking == {"future", "wait", "erase"}
Waiting == {"wait", "erase"}

Kept(id) == id \in DOMAIN promises /\ promises[id].retrieved

\* What a caller and its promise are like.
OwnPromise(c) ==
    /\ c.at \in Asking => c.id <= asked
    /\ c.at \in Waiting => Kept(c.id)
    /\ c.at = "future" /\ c.id # 0 => ~Kept(c.id)
    /\ c.at \in {"future", "wait"} /\ c.id \in seen.answer =>
         c.id \in DOMAIN promises /\ promises[c.id].answered
    /\ c.got = "throws" => c.id = 0

\* The request with id 0, which was refused, is the only one two may have; but
\* only one of them has its promise.
Apart(c, d) ==
    /\ c.at \in Asking /\ d.at \in Asking /\ c.id = d.id => c.id = 0
    /\ c.at \in Waiting /\ d.at \in Waiting => c.id # d.id

RequestIds ==
    /\ promises \in [DOMAIN promises -> [retrieved : BOOLEAN, answered : BOOLEAN]]
    /\ DOMAIN promises \subseteq 0 .. asked
    /\ due \subseteq 1 .. asked
    /\ seen \in [map : SUBSET (1 .. MaxId), answer : SUBSET (1 .. asked)]

RequestInv ==
    /\ RequestIds
    /\ \A t \in Threads : OwnPromise(app[t])
    /\ \A t, u \in Threads : t # u => Apart(app[t], app[u])

\* A thread without a request has nothing to keep apart.
Unasking(c) == c.at \notin Asking /\ (c.got = "throws" => c.id = 0)

LEMMA RequestsStay ==
    ASSUME RequestInv, UNCHANGED <<promises, asked>>, due' \subseteq due,
           seen' \in [map : SUBSET (1 .. MaxId), answer : {seen.answer}],
           \A t \in Threads : app'[t] = app[t] \/ Unasking(app'[t])
    PROVE  RequestInv'
<1>1. seen'.answer = seen.answer
  OBVIOUS
<1>2. RequestIds'
  BY <1>1 DEF RequestInv, RequestIds
<1>3. \A t \in Threads : OwnPromise(app[t])'
  <2> SUFFICES ASSUME NEW t \in Threads PROVE OwnPromise(app[t])'
    OBVIOUS
  <2>1. CASE app'[t] = app[t]
    BY <1>1, <2>1 DEF RequestInv, OwnPromise, Kept
  <2>2. CASE Unasking(app'[t])
    BY <2>2 DEF OwnPromise, Unasking, Asking, Waiting
  <2>3. QED
    BY <2>1, <2>2
<1>4. \A t, u \in Threads : t # u => Apart(app[t], app[u])'
  <2> SUFFICES ASSUME NEW t \in Threads, NEW u \in Threads, t # u PROVE Apart(app[t], app[u])'
    OBVIOUS
  <2>1. CASE app'[t] = app[t] /\ app'[u] = app[u]
    BY <2>1 DEF RequestInv, Apart
  <2>2. CASE Unasking(app'[t]) \/ Unasking(app'[u])
    BY <2>2 DEF Apart, Unasking, Asking, Waiting
  <2>3. QED
    BY <2>1, <2>2
<1>5. QED
  BY <1>2, <1>3, <1>4 DEF RequestInv

LEMMA SeenIs ==
    ASSUME RequestInv
    PROVE  seen \in [map : SUBSET (1 .. MaxId), answer : {seen.answer}]
BY DEF RequestInv, RequestIds

LEMMA AnswerMoves ==
    ASSUME Types, RequestInv, NEW id, OnConfigResponse(id)
    PROVE  RequestInv'
<1> USE DEF registry, control, policy, world
<1>1. /\ id \in due /\ due' = due \ {id} /\ seen' = [seen EXCEPT !.answer = @ \cup {id}]
      /\ promises' = Answered(id) /\ UNCHANGED <<asked, app>>
  BY DEF OnConfigResponse
<1>2. RequestIds /\ asked \in Nat /\ id \in 1 .. asked
  BY <1>1 DEF RequestInv, RequestIds, Types
<1>3. /\ DOMAIN promises' = DOMAIN promises \cup {id}
      /\ promises'[id].answered
      /\ \A i \in DOMAIN promises : i # id => promises'[i] = promises[i]
      /\ promises'[id].retrieved <=> Kept(id)
      /\ promises' \in [DOMAIN promises' -> [retrieved : BOOLEAN, answered : BOOLEAN]]
  BY <1>1, <1>2 DEF Answered, With, RequestIds, Kept
<1>4. /\ \A i : Kept(i)' <=> Kept(i)
      /\ \A i \in DOMAIN promises : promises[i].answered => promises'[i].answered
  BY <1>3 DEF Kept
<1>5. seen'.answer = seen.answer \cup {id} /\ seen'.map = seen.map
      /\ seen' \in [map : SUBSET (1 .. MaxId), answer : SUBSET (1 .. asked)]
  BY <1>1, <1>2 DEF RequestIds
<1>6. RequestIds'
  BY <1>1, <1>2, <1>3, <1>5 DEF RequestIds
<1>7. \A t \in Threads : OwnPromise(app[t])'
  BY <1>1, <1>3, <1>4, <1>5 DEF RequestInv, OwnPromise
<1>8. QED
  BY <1>1, <1>6, <1>7 DEF RequestInv, Apart

LEMMA PollRequests ==
    ASSUME Types, RequestInv, PollStep
    PROVE  RequestInv'
<1> USE DEF registry, data, control, policy, world, ids
<1>0. ASSUME UNCHANGED <<promises, asked, due, app>>,
             seen' \in [map : SUBSET (1 .. MaxId), answer : {seen.answer}]
      PROVE  RequestInv'
  BY <1>0, RequestsStay
<1>1. CASE UNCHANGED <<promises, asked, due, seen, app>>
  BY <1>0, <1>1, SeenIs
<1>2. CASE PollChecks \/ PollTimesOut \/ PollLock \/ (\E l \in Listeners : PollCall(l))
           \/ PollReturns \/ PollNextRound \/ PollUnlock
  BY <1>1, <1>2 DEF PollChecks, PollTimesOut, PollLock, PollCall, PollReturns, PollNextRound,
     PollUnlock
<1>3. CASE OnConnection \/ PollSendsPolicy \/ OnConnectionLost \/ PollClears \/ PollErases
           \/ PollTakes \/ PollDrops \/ PollPushesImages \/ OnPolicy
  BY <1>1, <1>3 DEF OnConnection, PollSendsPolicy, OnConnectionLost, PollClears, PollErases,
     PollTakes, PollDrops, PollPushesImages, OnPolicy
<1>4. ASSUME NEW d \in Devices, NEW s \in BOOLEAN,
             OnDevice(d, s) \/ OnDeviceStatusChange(d, s) \/ OnDeviceLost(d)
      PROVE  RequestInv'
  BY <1>1, <1>4 DEF OnDevice, OnDeviceStatusChange, OnDeviceLost
<1>5. ASSUME NEW kind \in DOMAIN PassedOn, OnPassedOn(kind) PROVE RequestInv'
  BY <1>1, <1>5 DEF OnPassedOn
<1>6. ASSUME NEW id \in 1 .. MaxId, OnTracking(id) \/ OnImage(id) PROVE RequestInv'
  BY <1>1, <1>6 DEF OnTracking, OnImage
<1>7. ASSUME NEW id \in 1 .. MaxId, OnPointMappingChange(id) PROVE RequestInv'
  <2>1. UNCHANGED <<promises, asked, due, app>> /\ seen' = [seen EXCEPT !.map = @ \cup {id}]
    BY <1>7 DEF OnPointMappingChange
  <2>2. QED
    BY <1>0, <2>1, SeenIs
<1>8. QED
  BY <1>2, <1>3, <1>4, <1>5, <1>6, <1>7, AnswerMoves DEF PollStep

\* A refused request has the id 0, an accepted one an id nobody has had.
LEMMA RequestMoves ==
    ASSUME Types, RequestInv, NEW t \in Threads, Requests(t)
    PROVE  RequestInv'
<1> USE DEF registry, data, control, policy, world
<1>1. PICK id \in Nat : app' = [app EXCEPT ![t] = [Resting EXCEPT !.at = "future", !.id = id]]
                        /\ \/ id = 0 /\ UNCHANGED <<asked, due>>
                           \/ id = asked + 1 /\ asked' = asked + 1 /\ due' = due \cup {asked'}
  <2>1. CASE link = "up"
    <3>1. asked' = asked + 1 /\ asked' \in Nat /\ due' = due \cup {asked'}
          /\ app' = [app EXCEPT ![t] = [Resting EXCEPT !.at = "future", !.id = asked']]
      BY <2>1 DEF Requests, Types
    <3>2. QED
      BY <3>1
  <2>2. CASE link # "up"
    <3>1. UNCHANGED <<asked, due>>
          /\ app' = [app EXCEPT ![t] = [Resting EXCEPT !.at = "future", !.id = 0]]
      BY <2>2 DEF Requests
    <3>2. QED
      BY <3>1
  <2>3. QED
    BY <2>1, <2>2
<1>2. UNCHANGED <<promises, seen>> /\ asked \in Nat /\ asked' \in Nat /\ asked <= asked'
      /\ id <= asked' /\ app \in [Threads -> CallType]
  BY <1>1 DEF Requests, Types
<1>3. app'[t].at = "future" /\ app'[t].id = id /\ app'[t].got = "nothing"
      /\ \A u \in Threads : u # t => app'[u] = app[u]
  BY <1>1, <1>2 DEF Resting
<1>4. RequestIds' /\ RequestIds
  BY <1>1, <1>2 DEF RequestInv, RequestIds
<1>5. id # 0 => id \notin DOMAIN promises /\ \A u \in Threads : app[u].at \in Asking => app[u].id # id
  BY <1>1, <1>2, <1>4 DEF RequestInv, RequestIds, OwnPromise, CallType
<1>6. id \notin seen.answer
  BY <1>1, <1>2, <1>4 DEF RequestIds
<1>7. \A u \in Threads : OwnPromise(app[u])'
  <2> SUFFICES ASSUME NEW u \in Threads PROVE OwnPromise(app[u])'
    OBVIOUS
  <2>1. CASE u = t
    BY <1>2, <1>3, <1>5, <1>6, <2>1 DEF OwnPromise, Kept, Waiting
  <2>2. CASE u # t
    <3>1. app[u].id \in Nat
      BY <1>2 DEF CallType
    <3>2. QED
      BY <1>2, <1>3, <2>2, <3>1 DEF RequestInv, OwnPromise, Kept
  <2>3. QED
    BY <2>1, <2>2
<1>8. \A u, v \in Threads : u # v => Apart(app[u], app[v])'
  BY <1>3, <1>5 DEF RequestInv, Apart, Waiting
<1>9. QED
  BY <1>4, <1>7, <1>8 DEF RequestInv

LEMMA FutureMoves ==
    ASSUME Types, RequestInv, NEW t \in Threads, TakesFuture(t)
    PROVE  RequestInv'
<1> USE DEF registry, control, policy, world, ids
<1>a. PICK id \in Nat : id = app[t].id
  BY DEF Types, CallType
<1>0. /\ app \in [Threads -> CallType] /\ app[t] \in CallType /\ app[t].at = "future"
      /\ UNCHANGED <<asked, due, seen>> /\ id <= asked /\ id \in Nat /\ asked \in Nat
      /\ RequestIds /\ OwnPromise(app[t])
  BY <1>a DEF TakesFuture, Types, CallType, RequestInv, OwnPromise, Asking
<1>1. CASE Kept(id)
  <2>1. app' = [app EXCEPT ![t].at = "idle", ![t].got = "throws"] /\ UNCHANGED promises
    BY <1>1, <1>a DEF TakesFuture, Kept
  <2>2. app'[t].at = "idle" /\ app'[t].id = id /\ \A u \in Threads : u # t => app'[u] = app[u]
    BY <1>0, <1>a, <2>1 DEF CallType
  <2>3. id = 0
    BY <1>0, <1>1, <1>a DEF OwnPromise
  <2>4. QED
    BY <1>0, <2>1, <2>2, <2>3, RequestsStay, SeenIs DEF Unasking, Asking
<1>2. CASE ~Kept(id)
  <2>1. /\ Step(t, "wait")
        /\ promises' = With(promises, id,
               [retrieved |-> TRUE, answered |-> id \in DOMAIN promises /\ promises[id].answered])
    BY <1>2, <1>a DEF TakesFuture, Kept
  <2>2. /\ app'[t].at = "wait" /\ app'[t].id = id /\ app'[t].got = app[t].got
        /\ \A u \in Threads : u # t => app'[u] = app[u]
    BY <1>a, <2>1, StepIs DEF Calls
  <2>3. /\ DOMAIN promises' = DOMAIN promises \cup {id}
        /\ promises'[id].retrieved
        /\ promises'[id].answered <=> (id \in DOMAIN promises /\ promises[id].answered)
        /\ \A i \in DOMAIN promises : i # id => promises'[i] = promises[i]
        /\ promises' \in [DOMAIN promises' -> [retrieved : BOOLEAN, answered : BOOLEAN]]
    BY <1>0, <2>1 DEF With, RequestIds
  <2>4. Kept(id)' /\ \A i : i # id => (Kept(i)' <=> Kept(i))
    BY <2>3 DEF Kept
  <2>5. RequestIds'
    BY <1>0, <2>3 DEF RequestIds
  <2>6. \A u \in Threads : u # t /\ app[u].at \in Waiting => app[u].id # id
    BY <1>2 DEF RequestInv, OwnPromise
  <2>7. \A u \in Threads : u # t /\ app[u].at = "future" /\ app[u].id # 0 => app[u].id # id
    BY <1>0, <1>a DEF RequestInv, Apart, Asking
  <2>8. \A u \in Threads : OwnPromise(app[u])'
    <3> SUFFICES ASSUME NEW u \in Threads PROVE OwnPromise(app[u])'
      OBVIOUS
    <3>1. CASE u = t
      BY <1>0, <1>a, <2>2, <2>3, <2>4, <3>1 DEF OwnPromise, Asking, Waiting
    <3>2. CASE u # t
      <4>1. app'[u] = app[u] /\ OwnPromise(app[u])
        BY <2>2, <3>2 DEF RequestInv
      <4>2. app[u].at = "future" /\ app[u].id # 0 => ~Kept(app[u].id)'
        BY <2>4, <2>7, <3>2, <4>1 DEF OwnPromise
      <4>3. app[u].at \in Waiting => Kept(app[u].id)'
        BY <2>4, <4>1 DEF OwnPromise
      <4>4. app[u].id \in DOMAIN promises /\ promises[app[u].id].answered
              => app[u].id \in DOMAIN promises' /\ promises'[app[u].id].answered
        BY <2>3
      <4>5. QED
        BY <1>0, <4>1, <4>2, <4>3, <4>4 DEF OwnPromise
    <3>3. QED
      BY <3>1, <3>2
  <2>9. \A u, v \in Threads : u # v => Apart(app[u], app[v])'
    <3>1. \A u \in Threads : u # t /\ app[u].at \in Asking /\ app[u].id = id => id = 0
      BY <1>0, <1>a DEF RequestInv, Apart, Asking
    <3>2. QED
      BY <2>2, <2>6, <3>1 DEF RequestInv, Apart
  <2>10. QED
    BY <2>5, <2>8, <2>9 DEF RequestInv
<1>3. QED
  BY <1>1, <1>2

LEMMA EraseMoves ==
    ASSUME Types, RequestInv, NEW t \in Threads, ErasesPromise(t)
    PROVE  RequestInv'
<1> USE DEF registry, control, policy, world, ids
<1>a. PICK id \in Nat : id = app[t].id
  BY DEF Types, CallType
<1>0. /\ app[t].at = "erase" /\ UNCHANGED <<asked, due, seen>> /\ Step(t, "idle")
      /\ promises' = Without(promises, id) /\ RequestIds /\ OwnPromise(app[t])
  BY <1>a DEF ErasesPromise, RequestInv
<1>1. /\ app'[t].at = "idle" /\ app'[t].id = id /\ app'[t].got = app[t].got
      /\ \A u \in Threads : u # t => app'[u] = app[u]
  BY <1>0, <1>a, StepIs DEF Calls
<1>2. /\ DOMAIN promises' = DOMAIN promises \ {id}
      /\ \A i \in DOMAIN promises' : promises'[i] = promises[i]
      /\ promises' \in [DOMAIN promises' -> [retrieved : BOOLEAN, answered : BOOLEAN]]
  BY <1>0 DEF Without, RequestIds
<1>3. RequestIds'
  BY <1>0, <1>2 DEF RequestIds
<1>4. \A u \in Threads : u # t /\ app[u].at \in Asking /\ app[u].id = id =>
          app[u].at = "future" /\ id = 0
  BY <1>0, <1>a DEF RequestInv, Apart, Asking, Waiting
<1>5. 0 \notin seen.answer
  BY <1>0 DEF RequestIds
<1>6. \A u \in Threads : OwnPromise(app[u])'
  <2> SUFFICES ASSUME NEW u \in Threads PROVE OwnPromise(app[u])'
    OBVIOUS
  <2>1. CASE u = t
    BY <1>0, <1>1, <1>a, <2>1 DEF OwnPromise, Asking, Waiting
  <2>2. CASE u # t
    <3>1. app'[u] = app[u] /\ OwnPromise(app[u])
      BY <1>1, <2>2 DEF RequestInv
    <3>2. app[u].id # id => (Kept(app[u].id)' <=> Kept(app[u].id))
      BY <1>2, <3>1 DEF Kept
    <3>3. app[u].id # id /\ app[u].id \in DOMAIN promises
            => app[u].id \in DOMAIN promises' /\ promises'[app[u].id] = promises[app[u].id]
      BY <1>2
    <3>4. QED
      BY <1>0, <1>4, <1>5, <2>2, <3>1, <3>2, <3>3 DEF OwnPromise, Asking, Waiting
  <2>3. QED
    BY <2>1, <2>2
<1>7. \A u, v \in Threads : u # v => Apart(app[u], app[v])'
  BY <1>1 DEF RequestInv, Apart, Asking, Waiting
<1>8. QED
  BY <1>3, <1>6, <1>7 DEF RequestInv

LEMMA WaitMoves ==
    ASSUME Types, RequestInv, NEW t \in Threads, WaitEnds(t)
    PROVE  RequestInv'
<1> USE DEF registry, data, control, policy, world, ids
<1>0. app \in [Threads -> CallType] /\ app[t] \in CallType /\ app[t].at = "wait"
      /\ UNCHANGED <<promises, asked, due, seen>> /\ OwnPromise(app[t])
  BY DEF WaitEnds, Types, RequestInv
<1>1. PICK got \in {"value", "none"} :
          app' = [app EXCEPT ![t].at = "erase", ![t].got = got]
  BY DEF WaitEnds
<1>2. /\ app'[t].at = "erase" /\ app'[t].id = app[t].id /\ app'[t].got # "throws"
      /\ \A u \in Threads : u # t => app'[u] = app[u]
  BY <1>0, <1>1 DEF CallType
<1>3. RequestIds'
  BY <1>0 DEF RequestInv, RequestIds
<1>4. \A u \in Threads : OwnPromise(app[u])'
  BY <1>0, <1>2 DEF RequestInv, OwnPromise, Kept, Asking, Waiting
<1>5. \A u, v \in Threads : u # v => Apart(app[u], app[v])'
  BY <1>0, <1>2 DEF RequestInv, Apart, Asking, Waiting
<1>6. QED
  BY <1>3, <1>4, <1>5 DEF RequestInv

LEMMA AppRequests ==
    ASSUME Types, RequestInv, NEW t \in Threads, AppStep(t)
    PROVE  RequestInv'
<1> USE DEF registry, data, control, policy, world, ids
<1>0. app \in [Threads -> CallType] /\ app[t] \in CallType /\ OwnPromise(app[t])
  BY DEF Types, RequestInv
<1>1. ASSUME UNCHANGED <<promises, asked, due, seen>>, Unasking(app'[t]),
             \A u \in Threads : u # t => app'[u] = app[u]
      PROVE  RequestInv'
  BY <1>1, RequestsStay, SeenIs
<1>2. ASSUME NEW label \in Calls, label \notin Asking, Step(t, label),
             UNCHANGED <<promises, asked, due, seen>>
      PROVE  RequestInv'
  BY <1>0, <1>1, <1>2, StepIs DEF Unasking, OwnPromise
<1>3. ASSUME NEW l \in Listeners, AddBegins(t, l) \/ RemoveBegins(t, l) PROVE RequestInv'
  <2>1. PICK at \in {"add", "remove"} :
            app' = [app EXCEPT ![t] = [Resting EXCEPT !.at = at, !.l = l]]
    BY <1>3 DEF AddBegins, RemoveBegins
  <2>2. Unasking(app'[t]) /\ \A u \in Threads : u # t => app'[u] = app[u]
    BY <1>0, <2>1 DEF Unasking, Resting, Asking
  <2>3. QED
    BY <1>1, <1>3, <2>2 DEF AddBegins, RemoveBegins
<1>4. ASSUME NEW p \in Policies, NEW op \in {"set", "clear"}, PolicyReads(t, p, op)
      PROVE  RequestInv'
  <2>1. PICK f : app' = [app EXCEPT ![t] = [Resting EXCEPT !.at = op, !.l = p, !.flags = f]]
    BY <1>4 DEF PolicyReads
  <2>2. Unasking(app'[t]) /\ \A u \in Threads : u # t => app'[u] = app[u]
    BY <1>0, <2>1 DEF Unasking, Resting, Asking
  <2>3. QED
    BY <1>1, <1>4, <2>2 DEF PolicyReads
<1>5. CASE AddLocks(t) \/ AddGoesOn(t) \/ RemoveLocks(t) \/ PolicyWrites(t)
  <2>1. PICK label \in {"service", "devices", "onInit", "onExit", "unlock", "sendSet", "sendClear"} :
            Step(t, label)
    BY <1>5 DEF AddLocks, AddGoesOn, RemoveLocks, PolicyWrites
  <2>2. QED
    BY <1>2, <1>5, <2>1 DEF AddLocks, AddGoesOn, RemoveLocks, PolicyWrites, Calls, Asking
<1>6. CASE AddTestsService(t) \/ AddTestsDevices(t)
  <2>1. PICK label \in {"onServiceConnect", "devices", "onConnect", "unlock"} : Step(t, label)
    BY <1>6 DEF AddTestsService, AddTestsDevices, AddTests
  <2>2. QED
    BY <1>2, <1>6, <2>1 DEF AddTestsService, AddTestsDevices, AddTests, Calls, Asking
<1>7. CASE Unlocks(t) \/ PolicySends(t)
  <2>1. Unasking(Resting)
    BY DEF Unasking, Resting, Asking
  <2>2. QED
    BY <1>1, <1>7, <2>1, EndsIs DEF Unlocks, PolicySends
<1>8. QED
  BY <1>3, <1>4, <1>5, <1>6, <1>7, RequestMoves, FutureMoves, WaitMoves, EraseMoves
     DEF AppStep, CallStep

LEMMA NextRequests == Types /\ RequestInv /\ [Next]_vars => RequestInv'
<1>1. ASSUME RequestInv, UNCHANGED <<promises, asked, seen, app>>, due' \subseteq due
      PROVE  RequestInv'
  BY <1>1, RequestsStay, SeenIs
<1>2. ASSUME RequestInv, UNCHANGED vars \/ Drops \/ Closes \/ Joins \/ LinkUp \/ LinkDown
      PROVE  RequestInv'
  BY <1>1, <1>2 DEF vars, data, ids, Drops, Closes, Joins, LinkUp, LinkDown
<1>3. QED
  BY <1>2, PollRequests, AppRequests DEF Next

LEMMA RequestsAlways == Spec => []RequestInv
<1>1. Init => RequestInv
  <2> SUFFICES ASSUME Init PROVE RequestInv
    OBVIOUS
  <2>1. \A t \in Threads : app[t].at = "idle" /\ app[t].got = "nothing"
    BY DEF Init, Resting
  <2>2. RequestIds
    BY DEF Init, RequestIds
  <2>3. QED
    BY <2>1, <2>2 DEF RequestInv, OwnPromise, Apart, Asking, Waiting
<1>2. QED
  BY <1>1, NextRequests, TypesAlways, PTL DEF Spec

\* An answer that comes before its caller has made the promise, or before it
\* waits, still reaches it (onConfigResponse, getConfigValue).
THEOREM AnswersAreKept == Spec => []EarlyAnswerNotLost
<1>1. RequestInv => EarlyAnswerNotLost
  BY DEF RequestInv, OwnPromise, EarlyAnswerNotLost
<1>2. QED
  BY <1>1, RequestsAlways, PTL

\* Of any number of concurrent callers only those whose request was refused
\* can meet at one promise, and there all but one of them throw (getConfigValue).
THEOREM EveryCallerItsPromise == Spec => []RequestsAreApart
<1>1. RequestInv => RequestsAreApart
  BY DEF RequestInv, OwnPromise, RequestsAreApart, Kept, Waiting
<1>2. QED
  BY <1>1, RequestsAlways, PTL

-----------------------------------------------------------------------------
(* Histories                                                               *)
\* A set of naturals that is not empty has a least one.
LEMMA LeastOfNaturals ==
    ASSUME NEW T \in SUBSET Nat, T # {}
    PROVE  \E k \in T : \A j \in T : k <= j
<1> DEFINE R == {ss \in Nat \X Nat : ss[1] < ss[2]}
<1>1. IsWellFoundedOn(R, Nat)
  BY NatLessThanWellFounded DEF OpToRel
<1> HIDE DEF R
<1>2. PICK k \in T : \A j \in T : ~(<<j, k>> \in R)
  BY <1>1, WFMin
<1>3. \A j \in T : ~(j < k)
  BY <1>2 DEF R
<1>4. QED
  BY <1>3

FrameType == [id : 1 .. MaxId, image : BOOLEAN, map : BOOLEAN]

\* What a deque that is kept to the history still has: all but the oldest.
LEMMA KeepIs ==
    ASSUME NEW S, NEW s \in Seq(S)
    PROVE  /\ Keep(s) \in Seq(S)
           /\ Len(Keep(s)) = IF Len(s) > History THEN Len(s) - 1 ELSE Len(s)
           /\ \A i \in DOMAIN Keep(s) : i \in DOMAIN s /\ Keep(s)[i] = s[i]
<1>1. CASE Len(s) > History
  <2>1. Keep(s) = SubSeq(s, 1, Len(s) - 1)
    BY <1>1 DEF Keep, Seqs!Front
  <2>2. Len(s) \in Nat /\ Len(s) > 0 /\ DOMAIN s = 1 .. Len(s)
    BY <1>1, HistoryAssumption
  <2>3. \A i \in 1 .. Len(s) - 1 : i \in DOMAIN s /\ s[i] \in S /\ 1 + i - 1 = i
    BY <2>2
  <2>4. /\ Keep(s) \in Seq(S) /\ Len(Keep(s)) = Len(s) - 1
        /\ \A i \in 1 .. Len(s) - 1 : Keep(s)[i] = s[i]
    <3>1. /\ SubSeq(s, 1, Len(s) - 1) \in Seq(S)
          /\ Len(SubSeq(s, 1, Len(s) - 1)) = IF 1 <= Len(s) - 1 THEN Len(s) - 1 - 1 + 1 ELSE 0
          /\ \A i \in 1 .. Len(s) - 1 - 1 + 1 : SubSeq(s, 1, Len(s) - 1)[i] = s[1 + i - 1]
      BY <2>2, <2>3, SubSeqProperties, Z3
    <3>2. QED
      BY <2>1, <2>2, <2>3, <3>1
  <2>5. DOMAIN Keep(s) = 1 .. Len(s) - 1
    BY <2>4, LenProperties
  <2>6. QED
    BY <1>1, <2>3, <2>4, <2>5
<1>2. CASE ~(Len(s) > History)
  BY <1>2 DEF Keep
<1>3. QED
  BY <1>1, <1>2

\* The newest in front.
LEMMA PushIs ==
    ASSUME NEW S, NEW s \in Seq(S), NEW x \in S
    PROVE  /\ <<x>> \o s \in Seq(S) /\ Len(<<x>> \o s) = Len(s) + 1
           /\ (<<x>> \o s)[1] = x
           /\ \A i \in DOMAIN s : (<<x>> \o s)[i + 1] = s[i]
           /\ \A i \in DOMAIN (<<x>> \o s) :
                \/ i = 1 /\ (<<x>> \o s)[i] = x
                \/ i - 1 \in DOMAIN s /\ (<<x>> \o s)[i] = s[i - 1]
OBVIOUS

\* Both together: the first is x, the others are those of s, one further back.
LEMMA PushKeepIs ==
    ASSUME NEW S, NEW s \in Seq(S), NEW x \in S, Len(s) <= History
    PROVE  LET r == Keep(<<x>> \o s)
           IN  /\ r \in Seq(S) /\ Len(r) <= History /\ 1 \in DOMAIN r /\ r[1] = x
               /\ \A i \in DOMAIN r : i # 1 => i - 1 \in DOMAIN s /\ r[i] = s[i - 1]
               /\ \A i \in DOMAIN s : i < History => i + 1 \in DOMAIN r /\ r[i + 1] = s[i]
<1> DEFINE w == <<x>> \o s
           r == Keep(w)
<1>0. Len(s) \in Nat /\ DOMAIN s = 1 .. Len(s) /\ History \in Nat /\ History > 0
  BY HistoryAssumption
<1>1. /\ w \in Seq(S) /\ Len(w) = Len(s) + 1 /\ w[1] = x
      /\ \A i \in DOMAIN s : w[i + 1] = s[i]
  BY PushIs
<1> HIDE DEF w
<1>2. /\ r \in Seq(S) /\ Len(r) = IF Len(w) > History THEN Len(w) - 1 ELSE Len(w)
      /\ \A i \in DOMAIN r : r[i] = w[i]
  BY <1>1, KeepIs
<1> HIDE DEF r
<1>3. DOMAIN r = 1 .. Len(r) /\ Len(r) <= History
  BY <1>0, <1>1, <1>2
<1>4. 1 \in DOMAIN r /\ r[1] = x
  BY <1>0, <1>1, <1>2, <1>3
<1>5. \A i \in DOMAIN r : i # 1 => i - 1 \in DOMAIN s /\ r[i] = s[i - 1]
  <2> SUFFICES ASSUME NEW i \in DOMAIN r, i # 1 PROVE i - 1 \in DOMAIN s /\ r[i] = s[i - 1]
    OBVIOUS
  <2>1. i - 1 \in DOMAIN s /\ i = (i - 1) + 1
    BY <1>0, <1>1, <1>2, <1>3
  <2>2. QED
    BY <1>1, <1>2, <2>1
<1>6. \A i \in DOMAIN s : i < History => i + 1 \in DOMAIN r /\ r[i + 1] = s[i]
  BY <1>0, <1>1, <1>2, <1>3
<1>7. QED
  BY <1>2, <1>3, <1>4, <1>5, <1>6 DEF r, w

Descends(s) == \A i, j \in DOMAIN s : i < j => s[i] > s[j]
FramesDescend(s) == \A i, j \in DOMAIN s : i < j => s[i].id > s[j].id

\* onTracking's search in the descending points, and what it erases.
LEMMA NewerIs ==
    ASSUME NEW s \in Seq(1 .. MaxId), Descends(s), NEW id \in Nat
    PROVE  LET r == NewerThan(s, id)
           IN  /\ r \in Seq(1 .. MaxId) /\ Len(r) <= Len(s)
               /\ \A i \in DOMAIN r : i \in DOMAIN s /\ r[i] = s[i] /\ r[i] # id
               /\ \A i \in DOMAIN s : s[i] > id => i \in DOMAIN r
<1> DEFINE I == {i \in 1 .. Len(s) : s[i] = id}
           least == CHOOSE x \in I : \A y \in I : x <= y
           r == NewerThan(s, id)
<1>0. Len(s) \in Nat /\ DOMAIN s = 1 .. Len(s) /\ \A i \in DOMAIN s : s[i] \in Nat
  BY BoundAssumption
<1>1. r = LET i == IF I # {} THEN least ELSE 0 IN IF i = 0 THEN s ELSE SubSeq(s, 1, i - 1)
  BY DEF NewerThan, Seqs!SelectInSeq, Seqs!Min
<1>2. CASE I = {}
  <2>1. r = s
    BY <1>1, <1>2
  <2>2. \A i \in DOMAIN s : s[i] # id
    BY <1>0, <1>2
  <2>3. QED
    BY <1>0, <2>1, <2>2
<1>3. CASE I # {}
  <2>1. PICK k \in I : TRUE
    BY <1>3
  <2>2. k \in 1 .. Len(s) /\ s[k] = id
    BY <2>1
  <2>3. \A i \in I : i = k
    BY <1>0, <2>2 DEF Descends
  <2>4. least = k
    <3> HIDE DEF I
    <3>1. (\A y \in I : k <= y) /\ k \in I
      BY <1>0, <2>1, <2>2, <2>3
    <3>2. QED
      BY <2>3, <3>1
  <2>5. r = SubSeq(s, 1, k - 1)
    <3> HIDE DEF least, I
    <3>1. k # 0
      BY <2>2
    <3>2. QED
      BY <1>1, <1>3, <2>4, <3>1
  <2>6. r \in Seq(1 .. MaxId) /\ Len(r) = k - 1 /\ \A i \in 1 .. k - 1 : r[i] = s[i]
    <3> DEFINE p == SubSeq(s, 1, k - 1)
    <3>0. \A i \in DOMAIN s : s[i] \in 1 .. MaxId
      BY LenProperties
    <3>1. \A i \in 1 .. k - 1 : s[i] \in 1 .. MaxId
      <4>1. \A i \in 1 .. k - 1 : i \in DOMAIN s
        BY <1>0, <2>2
      <4>2. QED
        BY <3>0, <4>1, Zenon
    <3>2. p \in Seq(1 .. MaxId)
      BY <2>2, <3>1, SubSeqProperties
    <3>3. Len(p) = k - 1
      BY <2>2, <3>1, SubSeqProperties
    <3>4. \A i \in 1 .. k - 1 : p[i] = s[i]
      BY <1>0, <2>2
    <3> HIDE DEF p, r
    <3>5. QED
      BY <2>5, <3>2, <3>3, <3>4 DEF p
  <2>7. \A i \in 1 .. k - 1 : i \in DOMAIN s /\ s[i] # id
    BY <1>0, <2>2 DEF Descends
  <2>8. \A i \in DOMAIN s : s[i] > id => i \in 1 .. k - 1
    BY <1>0, <2>2 DEF Descends
  <2> HIDE DEF r
  <2>9. DOMAIN r = 1 .. k - 1 /\ Len(r) <= Len(s)
    BY <1>0, <2>2, <2>6
  <2>10. QED
    BY <2>6, <2>7, <2>8, <2>9 DEF r
<1>4. QED
  BY <1>2, <1>3

\* The search for the frame of an image or of points: it finds the frame, for
\* all that it gives up at the first older one, because the frames descend.
LEMMA PlaceIs ==
    ASSUME NEW s \in Seq(FrameType), FramesDescend(s), NEW id \in Nat
    PROVE  /\ (\A i \in DOMAIN s : s[i].id # id) => Place(s, id) = 0
           /\ \A k \in DOMAIN s : s[k].id = id => Place(s, id) = k
<1> DEFINE I == {i \in 1 .. Len(s) : s[i].id <= id}
           least == CHOOSE x \in I : \A y \in I : x <= y
<1>0. Len(s) \in Nat /\ DOMAIN s = 1 .. Len(s) /\ \A i \in DOMAIN s : s[i].id \in Nat
  <2>1. \A i \in DOMAIN s : s[i] \in FrameType
    OBVIOUS
  <2>2. QED
    BY <2>1, BoundAssumption DEF FrameType
<1>1. Place(s, id) = LET i == IF I # {} THEN least ELSE 0
                     IN  IF i > 0 /\ s[i].id = id THEN i ELSE 0
  BY DEF Place, Seqs!SelectInSeq, Seqs!Min
<1>2. ASSUME \A i \in DOMAIN s : s[i].id # id PROVE Place(s, id) = 0
  <2>1. CASE I = {}
    BY <1>1, <2>1
  <2>2. CASE I # {}
    <3>1. CASE least \in I
      BY <1>0, <1>1, <1>2, <2>2, <3>1
    <3>2. CASE least \notin I
      <4>1. \E x \in I : \A y \in I : x <= y
        <5>1. I \in SUBSET Nat
          BY <1>0
        <5>2. QED
          BY <2>2, <5>1, LeastOfNaturals
      <4>2. QED
        BY <3>2, <4>1
    <3>3. QED
      BY <3>1, <3>2
  <2>3. QED
    BY <2>1, <2>2
<1>3. ASSUME NEW k \in DOMAIN s, s[k].id = id PROVE Place(s, id) = k
  <2>1. k \in I /\ \A y \in I : k <= y
    BY <1>0, <1>3 DEF FramesDescend
  <2>2. least = k
    <3>1. I \subseteq Nat
      BY <1>0
    <3> HIDE DEF I
    <3>2. \A x \in I : (\A y \in I : x <= y) => x = k
      BY <2>1, <3>1
    <3>3. QED
      BY <2>1, <3>2
  <2>3. k > 0 /\ I # {}
    BY <1>0, <2>1
  <2> HIDE DEF least, I
  <2>4. QED
    BY <1>1, <1>3, <2>2, <2>3
<1>4. QED
  BY <1>2, <1>3

Has(s, x) == \E i \in DOMAIN s : s[i] = x

LEMMA ContainsIs ==
    ASSUME NEW S, NEW s \in Seq(S), NEW x
    PROVE  Seqs!Contains(s, x) = Has(s, x)
BY DEF Seqs!Contains, Has

\* A frame that is given its images, or its points, stays where it is.
LEMMA GiveImageIs ==
    ASSUME NEW s \in Seq(FrameType), FramesDescend(s), NEW id \in Nat
    PROVE  LET r == GiveImage(s, id)
           IN  /\ r \in Seq(FrameType) /\ Len(r) = Len(s) /\ DOMAIN r = DOMAIN s
               /\ \A i \in DOMAIN s :
                    /\ r[i].id = s[i].id /\ r[i].map = s[i].map
                    /\ r[i].image = (s[i].image \/ s[i].id = id)
<1> DEFINE k == Place(s, id)
           r == GiveImage(s, id)
<1>0. Len(s) \in Nat /\ DOMAIN s = 1 .. Len(s) /\ \A i \in DOMAIN s : s[i] \in FrameType
  OBVIOUS
<1>1. CASE \A i \in DOMAIN s : s[i].id # id
  <2>1. r = s
    BY <1>1, PlaceIs DEF GiveImage
  <2>2. QED
    BY <1>0, <1>1, <2>1 DEF FrameType
<1>2. ASSUME NEW i \in DOMAIN s, s[i].id = id
      PROVE  /\ r \in Seq(FrameType) /\ Len(r) = Len(s) /\ DOMAIN r = DOMAIN s
             /\ \A j \in DOMAIN s :
                  /\ r[j].id = s[j].id /\ r[j].map = s[j].map
                  /\ r[j].image = (s[j].image \/ s[j].id = id)
  <2>1. k = i /\ i # 0
    BY <1>0, <1>2, PlaceIs
  <2>2. r = [s EXCEPT ![i] = [s[i] EXCEPT !.image = TRUE]]
    BY <1>0, <2>1 DEF GiveImage
  <2>3. [s[i] EXCEPT !.image = TRUE] \in FrameType
    BY <1>0 DEF FrameType
  <2>4. \A j \in DOMAIN s : j # i => s[j].id # id
    BY <1>0, <1>2, BoundAssumption DEF FramesDescend, FrameType
  <2>5. r \in Seq(FrameType) /\ Len(r) = Len(s) /\ DOMAIN r = DOMAIN s
    BY <1>0, <2>2, <2>3, ExceptSeq
  <2>6. \A j \in DOMAIN s : r[j] = IF j = i THEN [s[i] EXCEPT !.image = TRUE] ELSE s[j]
    BY <1>0, <2>2
  <2> HIDE DEF r
  <2>7. QED
    BY <1>0, <1>2, <2>4, <2>5, <2>6 DEF FrameType
<1>3. QED
  BY <1>1, <1>2

LEMMA GivePointsIs ==
    ASSUME NEW s \in Seq(FrameType), FramesDescend(s), NEW id \in Nat, Place(s, id) > 0
    PROVE  LET r == GivePoints(s, id)
           IN  /\ r \in Seq(FrameType) /\ Len(r) = Len(s) /\ DOMAIN r = DOMAIN s
               /\ \A i \in DOMAIN s :
                    /\ r[i].id = s[i].id /\ r[i].image = s[i].image
                    /\ r[i].map = (s[i].map \/ s[i].id = id)
               /\ \E i \in DOMAIN s : s[i].id = id
<1> DEFINE r == GivePoints(s, id)
<1>0. Len(s) \in Nat /\ DOMAIN s = 1 .. Len(s) /\ \A i \in DOMAIN s : s[i] \in FrameType
  OBVIOUS
<1>1. PICK i \in DOMAIN s : s[i].id = id
  BY PlaceIs
<1>2. Place(s, id) = i
  BY <1>1, PlaceIs
<1>3. r = [s EXCEPT ![i] = [s[i] EXCEPT !.map = TRUE]]
  BY <1>0, <1>2 DEF GivePoints
<1>4. [s[i] EXCEPT !.map = TRUE] \in FrameType
  BY <1>0 DEF FrameType
<1>5. \A j \in DOMAIN s : j # i => s[j].id # id
  BY <1>0, <1>1, BoundAssumption DEF FramesDescend, FrameType
<1>6. r \in Seq(FrameType) /\ Len(r) = Len(s) /\ DOMAIN r = DOMAIN s
  BY <1>0, <1>3, <1>4, ExceptSeq
<1>7. \A j \in DOMAIN s : r[j] = IF j = i THEN [s[i] EXCEPT !.map = TRUE] ELSE s[j]
  BY <1>0, <1>3
<1> HIDE DEF r
<1>8. \A j \in DOMAIN s : /\ r[j].id = s[j].id /\ r[j].image = s[j].image
                          /\ r[j].map = (s[j].map \/ s[j].id = id)
  BY <1>0, <1>1, <1>5, <1>7 DEF FrameType
<1>9. QED
  BY <1>1, <1>6, <1>8 DEF r

\* The points that are newer than m: finitely many, and as many as a
\* descending sequence of them is long at least.
Newer(S, m) == {n \in S : n > m}

LEMMA NewerFinite ==
    ASSUME NEW S \in SUBSET (1 .. MaxId), NEW m
    PROVE  IsFiniteSet(Newer(S, m)) /\ Cardinality(Newer(S, m)) \in Nat
<1>1. IsFiniteSet(1 .. MaxId)
  BY BoundAssumption, FS_Interval
<1>2. Newer(S, m) \in SUBSET (1 .. MaxId)
  BY DEF Newer
<1>3. QED
  BY <1>1, <1>2, FS_Subset, FS_CardinalityType

LEMMA NewerGrows ==
    ASSUME NEW S \in SUBSET (1 .. MaxId), NEW T \in SUBSET (1 .. MaxId), S \subseteq T, NEW m
    PROVE  Cardinality(Newer(S, m)) <= Cardinality(Newer(T, m))
BY NewerFinite, FS_Subset DEF Newer

LEMMA EnoughNewer ==
    ASSUME NEW S \in SUBSET (1 .. MaxId), NEW m, NEW s \in Seq(1 .. MaxId), Descends(s),
           \A i \in DOMAIN s : s[i] \in S /\ s[i] > m
    PROVE  Len(s) <= Cardinality(Newer(S, m))
<1>0. Len(s) \in Nat /\ DOMAIN s = 1 .. Len(s) /\ \A i \in DOMAIN s : s[i] \in Nat
  BY LenProperties, BoundAssumption
<1>1. s \in [1 .. Len(s) -> Newer(S, m)]
  BY <1>0, LenProperties DEF Newer
<1>2. \A i, j \in 1 .. Len(s) : s[i] = s[j] => i = j
  BY <1>0 DEF Descends
<1>3. s \in Injection(1 .. Len(s), Newer(S, m))
  BY <1>1, <1>2 DEF Injection, IsInjective
<1>4. Cardinality(1 .. Len(s)) <= Cardinality(Newer(S, m))
  BY <1>3, NewerFinite, FS_Injection
<1>5. Cardinality(1 .. Len(s)) = Len(s)
  <2> DEFINE n == Len(s)
  <2>1. n \in Int /\ 1 \in Int /\ n >= 0
    BY <1>0
  <2> HIDE DEF n
  <2>2. Cardinality(1 .. n) = IF 1 > n THEN 0 ELSE n - 1 + 1
    BY <2>1, FS_Interval
  <2>3. Cardinality(1 .. n) = n
    BY <2>1, <2>2
  <2>4. QED
    BY <2>3 DEF n
<1>6. QED
  BY <1>4, <1>5

\* The inductive invariant.  The frames descend, so a search may stop at the
\* first older one; so do the points, so onTracking may cut off what follows.
FramesKept ==
    /\ frames \in Seq(FrameType) /\ Len(frames) <= History /\ FramesDescend(frames)
    /\ \A i \in DOMAIN frames : frames[i].id <= sent.frame

ImagesKept == images \in Seq(1 .. MaxId) /\ Len(images) <= History

PointsKept ==
    /\ maps \in Seq(1 .. MaxId) /\ Len(maps) <= History /\ Descends(maps)
    /\ seen.map \in SUBSET (1 .. MaxId) /\ \A m \in seen.map : m <= sent.map
    /\ \A i \in DOMAIN maps : maps[i] \in seen.map

\* Points of a frame still to come wait for it, unless History newer ones came.
PointsWait ==
    \A m \in seen.map :
        m > sent.frame /\ Cardinality(Newer(seen.map, m)) < History => Has(maps, m)

\* What FramesAreComplete says.
Complete ==
    /\ \A i \in DOMAIN frames : Has(images, frames[i].id) => frames[i].image
    /\ \A i \in DOMAIN frames :
         /\ frames[i].id \in seen.map
         /\ Cardinality(Newer(seen.map, frames[i].id)) < History
         => frames[i].map
    /\ \A i \in DOMAIN maps, j \in DOMAIN frames : maps[i] # frames[j].id

\* onImage goes on with the frame id of its pair, from one image to the next.
Imaging == {"take", "takeAgain", "drop", "dropAgain", "push"}
ImageInHand == poll.at \in Imaging => poll.id \in 1 .. MaxId

HistInv ==
    /\ sent \in [frame : Nat, image : Nat, map : Nat]
    /\ FramesKept /\ ImagesKept /\ PointsKept /\ PointsWait /\ Complete /\ ImageInHand

LEMMA CompleteIs == HistInv => FramesAreComplete
<1> SUFFICES ASSUME HistInv PROVE FramesAreComplete
  OBVIOUS
<1>1. PairedWhileKept
  BY ContainsIs DEF HistInv, ImagesKept, Complete, PairedWhileKept
<1>2. PointsReachTheirFrame
  BY DEF HistInv, Complete, PointsReachTheirFrame, Newer
<1>3. QED
  BY <1>1, <1>2 DEF HistInv, Complete, FramesAreComplete, Ids

LEMMA HistoriesStay ==
    ASSUME HistInv, UNCHANGED <<frames, images, maps>>, ImageInHand',
           sent' \in [frame : {sent.frame}, image : Nat, map : {sent.map}],
           seen'.map = seen.map
    PROVE  HistInv'
<1>1. sent'.frame = sent.frame /\ sent'.map = sent.map
      /\ sent' \in [frame : Nat, image : Nat, map : Nat]
  BY DEF HistInv
<1>2. FramesKept' /\ ImagesKept' /\ PointsKept'
  BY <1>1 DEF HistInv, FramesKept, ImagesKept, PointsKept
<1>3. PointsWait' /\ Complete'
  BY <1>1 DEF HistInv, PointsWait, Complete
<1>4. QED
  BY <1>1, <1>2, <1>3 DEF HistInv

LEMMA SentIs ==
    ASSUME HistInv
    PROVE  sent \in [frame : {sent.frame}, image : Nat, map : {sent.map}]
BY DEF HistInv

\* The new frame is the newest; it takes its images and points along, and
\* cuts off the points that are no longer newer than any frame.
LEMMA TrackingHistories ==
    ASSUME HistInv, NEW id \in 1 .. MaxId, OnTracking(id)
    PROVE  HistInv'
<1> DEFINE f == NewFrame(id, images, maps)
<1> USE DEF registry, control, policy, world
<1>0. /\ id \in Nat /\ id > sent.frame /\ sent' = [sent EXCEPT !.frame = id]
      /\ frames' = Keep(<<f>> \o frames) /\ maps' = NewerThan(maps, id)
      /\ poll' = Notify(<<"onFrame">>, "check") /\ UNCHANGED <<images, seen>>
  BY BoundAssumption DEF OnTracking
<1>1. /\ sent \in [frame : Nat, image : Nat, map : Nat]
      /\ FramesKept /\ ImagesKept /\ PointsKept /\ PointsWait /\ Complete
  BY DEF HistInv
<1>2. /\ f \in FrameType /\ f.id = id
      /\ f.image = Has(images, id) /\ f.map = Has(maps, id)
  <2>1. f = [id |-> id, image |-> Has(images, id), map |-> Has(maps, id)]
    <3>1. Seqs!Contains(images, id) = Has(images, id) /\ Seqs!Contains(maps, id) = Has(maps, id)
      BY <1>1, ContainsIs DEF ImagesKept, PointsKept
    <3>2. QED
      BY <3>1 DEF NewFrame
  <2>2. Has(images, id) \in BOOLEAN /\ Has(maps, id) \in BOOLEAN
    BY DEF Has
  <2>3. QED
    BY <2>1, <2>2 DEF FrameType
<1> HIDE DEF f
<1>3. /\ frames' \in Seq(FrameType) /\ Len(frames') <= History
      /\ 1 \in DOMAIN frames' /\ frames'[1] = f
      /\ \A i \in DOMAIN frames' : i # 1 => i - 1 \in DOMAIN frames /\ frames'[i] = frames[i - 1]
  BY <1>0, <1>1, <1>2, PushKeepIs DEF FramesKept
<1>4. /\ maps' \in Seq(1 .. MaxId) /\ Len(maps') <= Len(maps)
      /\ \A i \in DOMAIN maps' : i \in DOMAIN maps /\ maps'[i] = maps[i] /\ maps'[i] # id
      /\ \A i \in DOMAIN maps : maps[i] > id => i \in DOMAIN maps'
  BY <1>0, <1>1, NewerIs DEF PointsKept
<1>5. sent'.frame = id /\ sent'.map = sent.map /\ sent' \in [frame : Nat, image : Nat, map : Nat]
  BY <1>0, <1>1
<1>6. \A i \in DOMAIN frames : frames[i].id \in Nat /\ frames[i].id < id
  <2>1. \A i \in DOMAIN frames : frames[i] \in FrameType
    BY <1>1 DEF FramesKept
  <2>2. \A i \in DOMAIN frames : frames[i].id \in Nat /\ frames[i].id <= sent.frame
    BY <1>1, <2>1, BoundAssumption DEF FramesKept, FrameType
  <2>3. sent.frame \in Nat
    BY <1>1
  <2>4. QED
    BY <1>0, <2>2, <2>3
<1>7. FramesKept'
  <2>0. DOMAIN frames' = 1 .. Len(frames') /\ Len(frames') \in Nat
    BY <1>3
  <2>1. ASSUME NEW i \in DOMAIN frames', NEW j \in DOMAIN frames', i < j
        PROVE  frames'[i].id > frames'[j].id
    <3>1. i \in Nat /\ j \in Nat /\ j # 1
      BY <2>0, <2>1
    <3>2. j - 1 \in DOMAIN frames /\ frames'[j] = frames[j - 1]
      BY <1>3, <3>1
    <3>3. CASE i = 1
      BY <1>2, <1>3, <1>6, <3>2, <3>3
    <3>4. CASE i # 1
      <4>1. i - 1 \in DOMAIN frames /\ frames'[i] = frames[i - 1] /\ i - 1 < j - 1
        BY <1>3, <2>1, <3>1, <3>4
      <4>2. QED
        BY <1>1, <3>2, <4>1 DEF FramesKept, FramesDescend
    <3>5. QED
      BY <3>3, <3>4
  <2>2. \A i \in DOMAIN frames' : frames'[i].id <= id
    BY <1>0, <1>2, <1>3, <1>6
  <2>3. QED
    BY <1>3, <1>5, <2>1, <2>2 DEF FramesKept, FramesDescend
<1>8. PointsKept'
  <2>1. Len(maps') <= History
    BY <1>1, <1>4, LenProperties, HistoryAssumption DEF PointsKept
  <2>2. Descends(maps)'
    BY <1>1, <1>4 DEF PointsKept, Descends
  <2>3. QED
    BY <1>0, <1>1, <1>4, <1>5, <2>1, <2>2 DEF PointsKept
<1>9. PointsWait'
  <2> SUFFICES ASSUME NEW m \in seen.map, m > id, Cardinality(Newer(seen.map, m)) < History
               PROVE  Has(maps', m)
    BY <1>0, <1>5 DEF PointsWait
  <2>1. m \in Nat /\ m > sent.frame
    BY <1>0, <1>1, BoundAssumption DEF PointsKept
  <2>2. PICK i \in DOMAIN maps : maps[i] = m
    BY <1>1, <2>1 DEF PointsWait, Has
  <2>3. QED
    BY <1>4, <2>2 DEF Has
<1>10. Complete'
  <2>1. ASSUME NEW i \in DOMAIN frames'
        PROVE  /\ Has(images, frames'[i].id) => frames'[i].image
               /\ (frames'[i].id \in seen.map
                     /\ Cardinality(Newer(seen.map, frames'[i].id)) < History) => frames'[i].map
               /\ \A k \in DOMAIN maps' : maps'[k] # frames'[i].id
    <3>1. CASE i = 1
      BY <1>0, <1>1, <1>2, <1>3, <1>4, <3>1 DEF PointsWait
    <3>2. CASE i # 1
      BY <1>1, <1>3, <1>4, <3>2 DEF Complete
    <3>3. QED
      BY <3>1, <3>2
  <2>2. QED
    BY <1>0, <2>1 DEF Complete
<1>11. ImageInHand'
  BY <1>0 DEF Notify, Idle, ImageInHand, Imaging
<1>12. ImagesKept'
  BY <1>0, <1>1 DEF ImagesKept
<1>13. QED
  BY <1>5, <1>7, <1>8, <1>9, <1>10, <1>11, <1>12 DEF HistInv

\* The pair is the newest; the frame it belongs to, if it is kept, gets it.
LEMMA ImageHistories ==
    ASSUME HistInv, PollPushesImages
    PROVE  HistInv'
<1> DEFINE id == poll.id
<1> USE DEF registry, control, policy, world, ids
<1>0. /\ id \in 1 .. MaxId /\ id \in Nat
      /\ images' = Keep(<<id>> \o images) /\ frames' = GiveImage(frames, id)
      /\ poll' = Notify(<<"onImages">>, "check") /\ UNCHANGED <<maps, sent, seen>>
  BY BoundAssumption DEF HistInv, ImageInHand, Imaging, PollPushesImages
<1> HIDE DEF id
<1>1. /\ sent \in [frame : Nat, image : Nat, map : Nat]
      /\ FramesKept /\ ImagesKept /\ PointsKept /\ PointsWait /\ Complete
  BY DEF HistInv
<1>2. /\ frames' \in Seq(FrameType) /\ Len(frames') = Len(frames)
      /\ DOMAIN frames' = DOMAIN frames
      /\ \A i \in DOMAIN frames : /\ frames'[i].id = frames[i].id /\ frames'[i].map = frames[i].map
                                  /\ frames'[i].image = (frames[i].image \/ frames[i].id = id)
  BY <1>0, <1>1, GiveImageIs DEF FramesKept
<1>3. /\ images' \in Seq(1 .. MaxId) /\ Len(images') <= History
      /\ \A i \in DOMAIN images' : images'[i] = id \/ Has(images, images'[i])
  <2>1. /\ images' \in Seq(1 .. MaxId) /\ Len(images') <= History /\ images'[1] = id
        /\ \A i \in DOMAIN images' : i # 1 => i - 1 \in DOMAIN images /\ images'[i] = images[i - 1]
    <3> DEFINE S == 1 .. MaxId
    <3>1. images \in Seq(S) /\ Len(images) <= History /\ id \in S
      BY <1>0, <1>1 DEF ImagesKept
    <3> HIDE DEF S
    <3>2. /\ images' \in Seq(S) /\ Len(images') <= History /\ images'[1] = id
          /\ \A i \in DOMAIN images' :
               i # 1 => i - 1 \in DOMAIN images /\ images'[i] = images[i - 1]
      BY <1>0, <3>1, PushKeepIs
    <3>3. QED
      BY <3>2 DEF S
  <2>2. QED
    BY <2>1 DEF Has
<1>4. FramesKept'
  BY <1>0, <1>1, <1>2 DEF FramesKept, FramesDescend
<1>5. Complete'
  <2>1. ASSUME NEW i \in DOMAIN frames', Has(images', frames'[i].id)
        PROVE  frames'[i].image
    <3>1. frames[i].id = id \/ Has(images, frames[i].id)
      BY <1>2, <1>3, <2>1 DEF Has
    <3>2. QED
      BY <1>1, <1>2, <3>1 DEF Complete
  <2>2. QED
    BY <1>0, <1>1, <1>2, <2>1 DEF Complete
<1>6. ImageInHand'
  BY <1>0 DEF Notify, Idle, ImageInHand, Imaging
<1>7. QED
  BY <1>0, <1>1, <1>3, <1>4, <1>5, <1>6 DEF HistInv, ImagesKept, PointsKept, PointsWait

\* Points go to their frame if it is kept, else they wait; what they push out
\* has History newer ones.
LEMMA PointHistories ==
    ASSUME RequestInv, HistInv, NEW id \in 1 .. MaxId, OnPointMappingChange(id)
    PROVE  HistInv'
<1> USE DEF registry, control, policy, world
<1> DEFINE count(S, m) == Cardinality(Newer(S, m))
<1>0. /\ id \in Nat /\ id > sent.map /\ sent' = [sent EXCEPT !.map = id]
      /\ seen' = [seen EXCEPT !.map = @ \cup {id}] /\ poll' = Idle /\ UNCHANGED images
      /\ \/ Place(frames, id) > 0 /\ frames' = GivePoints(frames, id) /\ UNCHANGED maps
         \/ ~(Place(frames, id) > 0) /\ maps' = Keep(<<id>> \o maps) /\ UNCHANGED frames
  BY BoundAssumption DEF OnPointMappingChange
<1>1. /\ sent \in [frame : Nat, image : Nat, map : Nat]
      /\ FramesKept /\ ImagesKept /\ PointsKept /\ PointsWait /\ Complete
  BY DEF HistInv
<1>2. sent'.frame = sent.frame /\ sent'.map = id /\ sent' \in [frame : Nat, image : Nat, map : Nat]
  BY <1>0, <1>1
<1>3. /\ seen.map \in SUBSET (1 .. MaxId) /\ seen'.map \in SUBSET (1 .. MaxId)
      /\ \A m \in seen'.map : (m \in seen.map \/ m = id) /\ m <= id
      /\ seen.map \subseteq seen'.map /\ id \in seen'.map
  <2>1. seen'.map = seen.map \cup {id}
    BY <1>0 DEF RequestInv, RequestIds
  <2>2. \A m \in seen.map : m \in Nat /\ m <= sent.map /\ sent.map \in Nat
    BY <1>1, BoundAssumption DEF PointsKept
  <2>3. QED
    BY <1>0, <1>1, <2>1, <2>2 DEF PointsKept
<1>4. \A m : /\ count(seen.map, m) <= count(seen'.map, m)
             /\ count(seen.map, m) \in Nat /\ count(seen'.map, m) \in Nat
  BY <1>3, NewerGrows, NewerFinite
<1> HIDE DEF count
<1>5. ImageInHand' /\ ImagesKept'
  BY <1>0, <1>1 DEF Idle, ImageInHand, Imaging, ImagesKept
<1>6. CASE Place(frames, id) > 0
  <2>1. /\ frames' \in Seq(FrameType) /\ Len(frames') = Len(frames)
        /\ DOMAIN frames' = DOMAIN frames
        /\ \A i \in DOMAIN frames :
             /\ frames'[i].id = frames[i].id /\ frames'[i].image = frames[i].image
             /\ frames'[i].map = (frames[i].map \/ frames[i].id = id)
        /\ \E i \in DOMAIN frames : frames[i].id = id
        /\ UNCHANGED maps
    BY <1>0, <1>1, <1>6, GivePointsIs DEF FramesKept
  <2>2. FramesKept' /\ id <= sent.frame
    BY <1>1, <1>2, <2>1 DEF FramesKept, FramesDescend
  <2>3. PointsKept'
    BY <1>1, <1>2, <1>3, <2>1 DEF PointsKept
  <2>4. PointsWait'
    <3> SUFFICES ASSUME NEW m \in seen'.map, m > sent.frame, count(seen'.map, m) < History
                 PROVE  Has(maps, m)
      BY <1>2, <2>1 DEF PointsWait, count
    <3>1. m \in seen.map
      BY <1>1, <1>3, <2>2
    <3>2. count(seen.map, m) < History
      BY <1>4, HistoryAssumption
    <3>3. QED
      BY <1>1, <3>1, <3>2 DEF PointsWait, count
  <2>5. Complete'
    <3>1. ASSUME NEW i \in DOMAIN frames', frames'[i].id \in seen'.map,
                 count(seen'.map, frames'[i].id) < History
          PROVE  frames'[i].map
      <4>1. CASE frames[i].id = id
        BY <2>1, <4>1
      <4>2. CASE frames[i].id # id
        <5>1. frames[i].id \in seen.map /\ count(seen.map, frames[i].id) < History
          BY <1>3, <1>4, <2>1, <3>1, <4>2, HistoryAssumption
        <5>2. QED
          BY <1>1, <2>1, <5>1 DEF Complete, count
      <4>3. QED
        BY <4>1, <4>2
    <3>2. \A i \in DOMAIN maps', j \in DOMAIN frames' : maps'[i] # frames'[j].id
      BY <1>1, <2>1 DEF Complete
    <3>3. \A i \in DOMAIN frames' : Has(images', frames'[i].id) => frames'[i].image
      BY <1>0, <1>1, <2>1 DEF Complete
    <3>4. QED
      BY <3>1, <3>2, <3>3 DEF Complete, count
  <2>6. QED
    BY <1>2, <1>5, <2>2, <2>3, <2>4, <2>5 DEF HistInv
<1>7. CASE ~(Place(frames, id) > 0)
  <2>0. UNCHANGED frames /\ maps' = Keep(<<id>> \o maps)
    BY <1>0, <1>7
  <2>1. /\ maps' \in Seq(1 .. MaxId) /\ Len(maps') <= History /\ 1 \in DOMAIN maps' /\ maps'[1] = id
        /\ \A i \in DOMAIN maps' : i # 1 => i - 1 \in DOMAIN maps /\ maps'[i] = maps[i - 1]
        /\ \A i \in DOMAIN maps : i < History => i + 1 \in DOMAIN maps' /\ maps'[i + 1] = maps[i]
    <3> DEFINE S == 1 .. MaxId
    <3>1. maps \in Seq(S) /\ Len(maps) <= History /\ id \in S
      BY <1>1 DEF PointsKept
    <3> HIDE DEF S
    <3>2. /\ maps' \in Seq(S) /\ Len(maps') <= History /\ 1 \in DOMAIN maps' /\ maps'[1] = id
          /\ \A i \in DOMAIN maps' : i # 1 => i - 1 \in DOMAIN maps /\ maps'[i] = maps[i - 1]
      BY <2>0, <3>1, PushKeepIs
    <3>3. \A i \in DOMAIN maps : i < History => i + 1 \in DOMAIN maps' /\ maps'[i + 1] = maps[i]
      <4> DEFINE r == Keep(<<id>> \o maps)
      <4>1. \A i \in DOMAIN maps : i < History => i + 1 \in DOMAIN r /\ r[i + 1] = maps[i]
        BY <3>1, PushKeepIs
      <4> HIDE DEF r
      <4>2. QED
        BY <2>0, <4>1 DEF r
    <3>4. QED
      BY <3>2, <3>3 DEF S
  <2>2. \A j \in DOMAIN frames : frames[j].id # id
    <3>1. \A j \in DOMAIN frames : j > 0
      BY <1>1 DEF FramesKept
    <3>2. QED
      BY <1>0, <1>1, <1>7, <3>1, PlaceIs DEF FramesKept
  <2>3. \A i \in DOMAIN maps : maps[i] \in Nat /\ maps[i] < id
    <3>1. \A i \in DOMAIN maps : maps[i] \in seen.map /\ maps[i] \in Nat /\ maps[i] <= sent.map
      BY <1>1, BoundAssumption DEF PointsKept
    <3>2. QED
      BY <1>0, <1>1, <3>1
  <2>4. PointsKept'
    <3>0. DOMAIN maps' = 1 .. Len(maps') /\ Len(maps') \in Nat
      BY <2>1, LenProperties
    <3>1. ASSUME NEW i \in DOMAIN maps', NEW j \in DOMAIN maps', i < j
          PROVE  maps'[i] > maps'[j]
      <4>1. i \in Nat /\ j \in Nat /\ j # 1
        BY <3>0, <3>1
      <4>2. j - 1 \in DOMAIN maps /\ maps'[j] = maps[j - 1]
        BY <2>1, <4>1
      <4>3. CASE i = 1
        BY <1>0, <2>1, <2>3, <4>2, <4>3
      <4>4. CASE i # 1
        <5>1. i - 1 \in DOMAIN maps /\ maps'[i] = maps[i - 1] /\ i - 1 < j - 1
          BY <2>1, <3>1, <4>1, <4>4
        <5>2. QED
          BY <1>1, <4>2, <5>1 DEF PointsKept, Descends
      <4>5. QED
        BY <4>3, <4>4
    <3>2. \A i \in DOMAIN maps' : maps'[i] \in seen'.map
      BY <1>1, <1>3, <2>1 DEF PointsKept
    <3>3. QED
      BY <1>2, <1>3, <2>1, <3>1, <3>2 DEF PointsKept, Descends
  <2>5. PointsWait'
    <3> SUFFICES ASSUME NEW m \in seen'.map, m > sent.frame, count(seen'.map, m) < History
                 PROVE  Has(maps', m)
      BY <1>2 DEF PointsWait, count
    <3>1. CASE m = id
      BY <2>1, <3>1 DEF Has
    <3>2. CASE m # id
      <4>1. m \in seen.map /\ count(seen.map, m) < History
        BY <1>3, <1>4, <3>2, HistoryAssumption
      <4>2. PICK i \in DOMAIN maps : maps[i] = m
        BY <1>1, <4>1 DEF PointsWait, count, Has
      <4>3. CASE i < History
        BY <2>1, <4>2, <4>3 DEF Has
      <4>4. CASE ~(i < History)
        <5>0. /\ DOMAIN maps = 1 .. Len(maps) /\ Len(maps) \in Nat /\ Len(maps) <= History
              /\ DOMAIN maps' = 1 .. Len(maps') /\ Len(maps') \in Nat
          BY <1>1, <2>1, LenProperties DEF PointsKept
        <5>1. i = History /\ i \in Nat
          BY <4>4, <5>0, HistoryAssumption
        <5>2. Len(maps') = History
          <6>1. CASE History = 1
            BY <2>1, <5>0, <6>1
          <6>2. CASE History # 1
            <7>1. History - 1 \in DOMAIN maps /\ History - 1 < History
              BY <5>0, <5>1, <6>2, HistoryAssumption
            <7>2. History \in DOMAIN maps'
              BY <2>1, <7>1, HistoryAssumption
            <7>3. QED
              BY <2>1, <5>0, <7>2, HistoryAssumption
          <6>3. QED
            BY <6>1, <6>2
        <5>3. ASSUME NEW j \in DOMAIN maps' PROVE maps'[j] > m
          <6>1. CASE j = 1
            BY <2>1, <2>3, <4>2, <6>1
          <6>2. CASE j # 1
            <7>1. j - 1 \in DOMAIN maps /\ maps'[j] = maps[j - 1] /\ j - 1 < i
              BY <2>1, <5>0, <5>1, <5>2, <6>2, HistoryAssumption
            <7>2. QED
              BY <1>1, <4>2, <7>1 DEF PointsKept, Descends
          <6>3. QED
            BY <6>1, <6>2
        <5>4. \A j \in DOMAIN maps' : maps'[j] \in seen'.map
          BY <2>4 DEF PointsKept
        <5>5. History <= count(seen'.map, m)
          BY <1>3, <2>4, <5>2, <5>3, <5>4, EnoughNewer DEF PointsKept, count
        <5>6. QED
          BY <1>4, <5>5, HistoryAssumption
      <4>5. QED
        BY <4>3, <4>4
    <3>3. QED
      BY <3>1, <3>2
  <2>6. Complete'
    <3>1. ASSUME NEW i \in DOMAIN frames', frames'[i].id \in seen'.map,
                 count(seen'.map, frames'[i].id) < History
          PROVE  frames'[i].map
      <4>1. frames[i].id \in seen.map /\ count(seen.map, frames[i].id) < History
        BY <1>3, <1>4, <2>0, <2>2, <3>1, HistoryAssumption
      <4>2. QED
        BY <1>1, <2>0, <4>1 DEF Complete, count
    <3>2. \A i \in DOMAIN maps', j \in DOMAIN frames' : maps'[i] # frames'[j].id
      <4> SUFFICES ASSUME NEW i \in DOMAIN maps', NEW j \in DOMAIN frames
                   PROVE  maps'[i] # frames[j].id
        BY <2>0
      <4>1. CASE i = 1
        BY <2>1, <2>2, <4>1
      <4>2. CASE i # 1
        BY <1>1, <2>1, <4>2 DEF Complete
      <4>3. QED
        BY <4>1, <4>2
    <3>3. \A i \in DOMAIN frames' : Has(images', frames'[i].id) => frames'[i].image
      BY <1>0, <1>1, <2>0 DEF Complete
    <3>4. QED
      BY <3>1, <3>2, <3>3 DEF Complete, count
  <2>7. FramesKept'
    BY <1>1, <1>2, <2>0 DEF FramesKept
  <2>8. QED
    BY <1>2, <1>5, <2>4, <2>5, <2>6, <2>7 DEF HistInv
<1>8. QED
  BY <1>6, <1>7

\* The other steps of the polling thread: none but onImage's own is Imaging.
LEMMA OtherPollHistories ==
    ASSUME Types, RequestInv, HistInv, PollStep
    PROVE  HistInv'
<1> USE DEF registry, data, control, policy, world, ids
<1>0. poll \in PollType /\ Idle \in PollType /\ Idle.at = "check"
  BY IdleIs DEF Types
<1>1. ASSUME UNCHANGED <<frames, images, maps, sent, seen>>, poll'.at \notin Imaging
      PROVE  HistInv'
  BY <1>1, HistoriesStay, SentIs DEF ImageInHand
<1>2. CASE PollChecks \/ PollTimesOut
  BY <1>0, <1>1, <1>2 DEF PollChecks, PollTimesOut, Goes, PollType, Imaging
<1>3. CASE PollLock \/ PollReturns
  BY <1>0, <1>1, <1>3 DEF PollLock, PollReturns, PollType, Imaging
<1>4. ASSUME NEW l \in Listeners, PollCall(l) PROVE HistInv'
  BY <1>0, <1>1, <1>4 DEF PollCall, PollType, Imaging
<1>5. CASE PollNextRound
  BY <1>0, <1>1, <1>5 DEF PollNextRound, RoundOver, PollType, Imaging
<1>6. CASE PollUnlock
  <2>1. poll.then \in Thens
    BY <1>0 DEF PollType
  <2>2. poll'.at \notin Imaging
    <3>1. CASE poll.then = "status"
      BY <1>6, <3>1 DEF PollUnlock, Notify, Idle, Imaging
    <3>2. CASE poll.then # "status"
      BY <1>6, <2>1, <3>2 DEF PollUnlock, Idle, Imaging, Thens
    <3>3. QED
      BY <3>1, <3>2
  <2>3. QED
    BY <1>1, <1>6, <2>2 DEF PollUnlock
<1>7. CASE OnConnection \/ OnConnectionLost
  BY <1>1, <1>7 DEF OnConnection, OnConnectionLost, Notify, Idle, Imaging
<1>8. CASE PollSendsPolicy \/ PollClears \/ PollErases \/ OnPolicy
  BY <1>0, <1>1, <1>8 DEF PollSendsPolicy, PollClears, PollErases, OnPolicy, Imaging
<1>9. ASSUME NEW d \in Devices, NEW s \in BOOLEAN,
             OnDevice(d, s) \/ OnDeviceStatusChange(d, s) \/ OnDeviceLost(d)
      PROVE  HistInv'
  <2>0. \A r, then, x : /\ Notify(r, then).at = "lock"
                        /\ [Notify(r, then) EXCEPT !.again = x].at = "lock"
                        /\ [Notify(r, then) EXCEPT !.id = x].at = "lock"
    BY DEF Notify, Idle
  <2>1. poll'.at \in {"lock", "check"}
    <3>1. CASE OnDevice(d, s)
      BY <2>0, <3>1 DEF OnDevice
    <3>2. CASE OnDeviceStatusChange(d, s)
      <4>1. PICK x : poll' = [Notify(DeviceRounds, "status") EXCEPT !.again = x]
        BY <3>2, Zenon DEF OnDeviceStatusChange
      <4>2. QED
        BY <2>0, <4>1
    <3>3. CASE OnDeviceLost(d)
      BY <1>0, <2>0, <3>3 DEF OnDeviceLost
    <3>4. QED
      BY <1>9, <3>1, <3>2, <3>3
  <2>2. QED
    BY <1>1, <1>9, <2>1 DEF OnDevice, OnDeviceStatusChange, OnDeviceLost, Imaging
<1>10. ASSUME NEW kind \in DOMAIN PassedOn, OnPassedOn(kind) PROVE HistInv'
  BY <1>1, <1>10 DEF OnPassedOn, Notify, Idle, Imaging
<1>11. ASSUME NEW id \in 1 .. MaxId, OnImage(id) PROVE HistInv'
  <2>1. sent' \in [frame : {sent.frame}, image : Nat, map : {sent.map}]
    BY <1>11, BoundAssumption DEF OnImage, HistInv
  <2>2. poll'.id \in 1 .. MaxId
    BY <1>11 DEF OnImage, Idle
  <2>3. QED
    BY <1>11, <2>1, <2>2, HistoriesStay DEF OnImage, ImageInHand
<1>12. CASE PollTakes \/ PollDrops
  <2>1. UNCHANGED <<frames, images, maps, sent, seen>>
    BY <1>12 DEF PollTakes, PollDrops
  <2>2. poll.at \in Imaging /\ poll'.id = poll.id
    BY <1>0, <1>12 DEF PollTakes, PollDrops, Goes, PollType, Imaging
  <2>3. ImageInHand'
    BY <2>2 DEF HistInv, ImageInHand
  <2>4. QED
    BY <2>1, <2>3, HistoriesStay, SentIs
<1>13. ASSUME NEW id \in 1 .. MaxRequest, OnConfigResponse(id) PROVE HistInv'
  <2>1. seen'.map = seen.map
    BY <1>13 DEF OnConfigResponse, RequestInv, RequestIds
  <2>2. poll'.at \notin Imaging
    BY <1>0, <1>13 DEF OnConfigResponse, Imaging
  <2>3. QED
    BY <1>13, <2>1, <2>2, HistoriesStay, SentIs DEF OnConfigResponse, ImageInHand
<1>14. QED
  BY <1>2, <1>3, <1>4, <1>5, <1>6, <1>7, <1>8, <1>9, <1>10, <1>11, <1>12, <1>13,
     TrackingHistories, ImageHistories, PointHistories DEF PollStep

LEMMA NextHistories == Types /\ RequestInv /\ HistInv /\ [Next]_vars => HistInv'
<1> SUFFICES ASSUME Types, RequestInv, HistInv, [Next]_vars PROVE HistInv'
  OBVIOUS
<1> USE DEF registry, data, control, policy, world, ids
<1>1. ASSUME UNCHANGED <<frames, images, maps, sent, seen, poll>> PROVE HistInv'
  BY <1>1, HistoriesStay, SentIs DEF HistInv, ImageInHand
<1>2. CASE UNCHANGED vars \/ Drops \/ Closes \/ Joins \/ LinkUp \/ LinkDown
  BY <1>1, <1>2 DEF vars, Drops, Closes, Joins, LinkUp, LinkDown
<1>3. ASSUME NEW t \in Threads, AppStep(t) PROVE HistInv'
  <2>1. CASE (\E l \in Listeners : AddBegins(t, l) \/ RemoveBegins(t, l))
             \/ (\E p \in Policies, op \in {"set", "clear"} : PolicyReads(t, p, op)) \/ Requests(t)
    BY <1>1, <2>1 DEF AddBegins, RemoveBegins, PolicyReads, Requests
  <2>2. CASE AddLocks(t) \/ AddGoesOn(t) \/ RemoveLocks(t) \/ Unlocks(t)
    BY <1>1, <2>2 DEF AddLocks, AddGoesOn, RemoveLocks, Unlocks
  <2>3. CASE AddTestsService(t) \/ AddTestsDevices(t)
    BY <1>1, <2>3 DEF AddTestsService, AddTestsDevices, AddTests
  <2>4. CASE PolicyWrites(t) \/ PolicySends(t)
    BY <1>1, <2>4 DEF PolicyWrites, PolicySends
  <2>5. CASE TakesFuture(t) \/ WaitEnds(t) \/ ErasesPromise(t)
    BY <1>1, <2>5 DEF TakesFuture, WaitEnds, ErasesPromise
  <2>6. QED
    BY <1>3, <2>1, <2>2, <2>3, <2>4, <2>5 DEF AppStep, CallStep
<1>4. QED
  BY <1>2, <1>3, OtherPollHistories DEF Next

LEMMA InitHistories == Init => HistInv
<1> SUFFICES ASSUME Init PROVE HistInv
  OBVIOUS
<1>1. frames = <<>> /\ images = <<>> /\ maps = <<>> /\ seen.map = {}
      /\ sent = [frame |-> 0, image |-> 0, map |-> 0] /\ poll.at \in {"check", "done"}
  BY DEF Init, Idle
<1>2. HistInv
  BY <1>1, HistoryAssumption DEF HistInv, FramesKept, ImagesKept, PointsKept, PointsWait, Complete,
     ImageInHand, Imaging, FramesDescend, Descends, Has
<1>3. QED
  BY <1>2

LEMMA HistoriesAlways == Spec => []HistInv
BY InitHistories, NextHistories, TypesAlways, RequestsAlways, PTL DEF Spec

\* Frame and images, frame and points find each other in whatever order they
\* are polled, as long as History keeps them, and points serve one frame only
\* (onTracking, onImage, onPointMappingChange).
THEOREM FramesFindTheirData == Spec => []FramesAreComplete
BY HistoriesAlways, CompleteIs, PTL

\* A search that stops at the first older frame misses nothing: both deques
\* are in descending order of the frame id, without repetition, and none of
\* the three is ever longer than the history (onImage, onPointMappingChange).
THEOREM HistoriesDescend ==
    Spec => [](/\ \A i, j \in DOMAIN frames : i < j => frames[i].id > frames[j].id
               /\ \A i, j \in DOMAIN maps : i < j => maps[i] > maps[j]
               /\ Len(frames) <= History /\ Len(images) <= History /\ Len(maps) <= History)
<1> DEFINE D == /\ \A i, j \in DOMAIN frames : i < j => frames[i].id > frames[j].id
                /\ \A i, j \in DOMAIN maps : i < j => maps[i] > maps[j]
                /\ Len(frames) <= History /\ Len(images) <= History /\ Len(maps) <= History
<1>1. HistInv => D
  BY DEF HistInv, FramesKept, ImagesKept, PointsKept, FramesDescend, Descends
<1>2. QED
  BY <1>1, HistoriesAlways, PTL

-----------------------------------------------------------------------------
(* Type correctness                                                        *)
\* What Types leaves out: the world the service and the bound make.
WorldTypes ==
    /\ link \in {"up", "down"} /\ told \in {"up", "down"}
    /\ DOMAIN present \subseteq Devices /\ asked <= MaxRequest

LEMMA WorldPoll ==
    ASSUME WorldTypes, PollStep
    PROVE  WorldTypes'
<1> USE DEF registry, data, control, policy, world, ids
<1>1. ASSUME UNCHANGED <<link, told, present, asked>> PROVE WorldTypes'
  BY <1>1 DEF WorldTypes
<1>2. CASE PollChecks \/ PollTimesOut \/ PollLock \/ (\E l \in Listeners : PollCall(l))
           \/ PollReturns \/ PollNextRound \/ PollUnlock
  BY <1>1, <1>2 DEF PollChecks, PollTimesOut, PollLock, PollCall, PollReturns, PollNextRound,
     PollUnlock
<1>3. CASE PollSendsPolicy \/ PollClears \/ PollErases \/ PollTakes \/ PollDrops
           \/ PollPushesImages \/ OnPolicy
  BY <1>1, <1>3 DEF PollSendsPolicy, PollClears, PollErases, PollTakes, PollDrops,
     PollPushesImages, OnPolicy
<1>4. CASE OnConnection
  BY <1>4 DEF OnConnection, WorldTypes
<1>5. CASE OnConnectionLost
  BY <1>5 DEF OnConnectionLost, WorldTypes
<1>6. ASSUME NEW d \in Devices, NEW s \in BOOLEAN,
             OnDevice(d, s) \/ OnDeviceStatusChange(d, s) \/ OnDeviceLost(d)
      PROVE  WorldTypes'
  BY <1>6 DEF OnDevice, OnDeviceStatusChange, OnDeviceLost, With, Without, WorldTypes
<1>7. ASSUME NEW kind \in DOMAIN PassedOn, OnPassedOn(kind) PROVE WorldTypes'
  BY <1>1, <1>7 DEF OnPassedOn
<1>8. ASSUME NEW id \in 1 .. MaxId, OnTracking(id) \/ OnImage(id) \/ OnPointMappingChange(id)
      PROVE  WorldTypes'
  BY <1>1, <1>8 DEF OnTracking, OnImage, OnPointMappingChange
<1>9. ASSUME NEW id \in 1 .. MaxRequest, OnConfigResponse(id) PROVE WorldTypes'
  BY <1>1, <1>9 DEF OnConfigResponse
<1>10. QED
  BY <1>2, <1>3, <1>4, <1>5, <1>6, <1>7, <1>8, <1>9 DEF PollStep

LEMMA WorldNext == Types /\ WorldTypes /\ [Next]_vars => WorldTypes'
<1> SUFFICES ASSUME Types, WorldTypes, [Next]_vars PROVE WorldTypes'
  OBVIOUS
<1> USE DEF registry, data, control, policy, world, ids
<1>1. CASE UNCHANGED vars \/ Drops \/ Closes \/ Joins
  BY <1>1 DEF vars, Drops, Closes, Joins, WorldTypes
<1>2. CASE LinkUp \/ LinkDown
  BY <1>2 DEF LinkUp, LinkDown, WorldTypes
<1>3. ASSUME NEW t \in Threads, AppStep(t) PROVE WorldTypes'
  <2>0. ASSUME UNCHANGED <<link, told, present, asked>> PROVE WorldTypes'
    BY <2>0 DEF WorldTypes
  <2>1. CASE (\E l \in Listeners : AddBegins(t, l) \/ RemoveBegins(t, l))
             \/ (\E p \in Policies, op \in {"set", "clear"} : PolicyReads(t, p, op))
    BY <2>0, <2>1 DEF AddBegins, RemoveBegins, PolicyReads
  <2>2. CASE Requests(t)
    <3>1. asked' <= MaxRequest
      BY <2>2, BoundAssumption DEF Requests, Types, WorldTypes
    <3>2. QED
      BY <2>2, <3>1 DEF Requests, WorldTypes
  <2>3. CASE AddLocks(t) \/ AddGoesOn(t) \/ RemoveLocks(t) \/ Unlocks(t)
    BY <2>0, <2>3 DEF AddLocks, AddGoesOn, RemoveLocks, Unlocks
  <2>4. CASE AddTestsService(t) \/ AddTestsDevices(t)
    BY <2>0, <2>4 DEF AddTestsService, AddTestsDevices, AddTests
  <2>5. CASE PolicyWrites(t) \/ PolicySends(t)
    BY <2>0, <2>5 DEF PolicyWrites, PolicySends
  <2>6. CASE TakesFuture(t) \/ WaitEnds(t) \/ ErasesPromise(t)
    BY <2>0, <2>6 DEF TakesFuture, WaitEnds, ErasesPromise
  <2>7. QED
    BY <1>3, <2>1, <2>2, <2>3, <2>4, <2>5, <2>6 DEF AppStep, CallStep
<1>4. QED
  BY <1>1, <1>2, <1>3, WorldPoll DEF Next

\* The types, with the three deques never longer than the history that the
\* handlers cut them to.
THEOREM ControllerTypeCorrect == Spec => []TypeOK
<1>1. Init => WorldTypes
  BY BoundAssumption DEF Init, WorldTypes
<1>2. Types /\ RequestInv /\ HistInv /\ WorldTypes => TypeOK
  <2> SUFFICES ASSUME Types, RequestInv, HistInv, WorldTypes PROVE TypeOK
    OBVIOUS
  <2>1. \A i \in DOMAIN events : events[i] \subseteq Policies
    BY DEF Types
  <2>2. \A i \in DOMAIN frames : frames[i].id \in 1 .. MaxId
    <3>1. \A i \in DOMAIN frames : frames[i] \in FrameType
      BY DEF HistInv, FramesKept
    <3>2. QED
      BY <3>1 DEF FrameType
  <2>3. DOMAIN promises \subseteq 0 .. MaxRequest
    BY BoundAssumption DEF Types, RequestInv, RequestIds, WorldTypes
  <2>4. poll.at \in Labels /\ poll.todo \subseteq Listeners
    BY DEF Types, PollType
  <2>5. \A t \in Threads : app[t].at \in Calls
    BY DEF Types, CallType
  <2>6. Len(frames) <= History /\ Len(images) <= History /\ Len(maps) <= History
    BY DEF HistInv, FramesKept, ImagesKept, PointsKept
  <2>7. QED
    BY <2>1, <2>2, <2>3, <2>4, <2>5, <2>6 DEF Types, WorldTypes, TypeOK
<1>3. QED
  BY <1>1, <1>2, WorldNext, TypesAlways, RequestsAlways, HistoriesAlways, PTL DEF Spec
=============================================================================
