# TLA+ models of leap_motion_sync_with_ffh

The program reads hands from a Leap Motion controller, turns the left hand's
pose into joint angles and sends them over UDP to an FFH dexterous hand. The
repository also carries the C++ API of the device's vendor with its samples.
This directory holds TLA+ models of the concurrent and stateful parts of both,
the TLC runs that check them and proofs checked by TLAPS. Paths below are
relative to the repository; the C++ sources are under `src/`.

Contents: 1 inventory, 2 modules, 3 runs, 4 disagreements found, 5 fairness,
6 proofs, 7 abstractions and what is not modelled, 8 plan.

## 1. Inventory

| Component | Source | State | Operations |
| --- | --- | --- | --- |
| CircularBuffer | `src/common/arCircularBuffer.h` | `m_buffer`, `m_size`, `m_head`, `m_tail` | `setSize`, `add`, `popFront`, `front`, `back`, `empty` |
| Leap wrapper | `src/task/leapMotionV2Wrapper*.{h,cpp}` | `inConncetion_` (the code's spelling), `connectionHandle_`, `pollingThread_`, `callbackMap_`, `frameBuffer_`, `hands_`, `lastFrame_` | `connect`, `initialize`, `disconnect`, and per polling thread `serviceMessageLoop` with its callbacks |
| Synchronisation task | `src/task/lpV2SyncFfh.{h,cpp}`, `test_lpv2_demo.cpp`, `get_char` of `src/common/helper_functions.h` | `running_`, `inConnection_`, two threads, `handCmd`, limits | `tryConnect`, `start`, `stop`, `monitorDaemon`, `executeLoop`/`runIteration`, destructor |
| Hand command | `lpV2SyncFfh.cpp`, `src/FFH/udp_hand_types.hpp` | `handCmd`, `lowerLimits_`, `upperLimits_` | `calPubFingerAngle`, `postProcessHandCmd`, `publishFfhCmd`, `sendInitHandData`, the limits loop of `parseConfig` |
| Console modes | `lpV2SyncFfh.cpp` (`selfCheck`, `sendFingerCommands`, `singleJointTest`), `FfhCtrl::testFlow` | the loops' place, `tmp_cmd`, the command sent last | one task per `task_name`, a line of the console per step |
| FFH link | `src/FFH/ffhCtrl.*`, `src/udp/udpClient.*` | socket descriptor and connected flag per hand | connect, reset, send, disconnect |
| Task scheduler | `src/common/taskScheduler.h`, `src/common/arQueue.h` | bounded queue, two condition variables, `running_` | `put`, `take`, `Producer::run`, `TrigProducer::run`, `Consumer::run` |
| LeapC++ wrapper | `src/officialWrapper/LeapImplementationC++.h`, `LeapC++.{h,cpp}` | `m_listeners`, `m_devices`, `m_isServiceConnected`, `m_policyFlags`, three histories, `m_configPromises`, a polling thread | `addListener`, `removeListener`, policy calls, `getConfigValue`, one handler per LeapC message, destructor |
| LeapC samples | `src/officialWrapper/example/` | `IsConnected`, `_isRunning`, `lastFrame`, `lastDevice`, `dataLock` | `OpenConnection`, `CloseConnection`, `DestroyConnection`, `GetFrame`, `GetDeviceProperties`, `serviceMessageLoop`, and the programs that poll, record or are called back |
| DynamicQueue | `src/common/arQueue.h` | an unbounded queue | `put`, `take` |
| Configuration | `config/leap_motion_demo_config.yaml`, `parseConfig` | limits, addresses, task name | parse once |
| Vector mathematics | `src/task/leapMotionV2Math.h` | none | angles between vectors and planes |
| LeapC++ tests, third-party headers and binaries | `src/officialWrapper`, `contrib/gtest-1.7.0`, `include/third_party` | none of the program's own | external |
| LeapC | `include/third_party/leapMotion/v2/LeapC.h`, binaries | connections, devices, messages | external |

How the task's parts interact. Main calls `tryConnect` until `lmWrap.connect()`
**and** `connectFFH()` succeed. `connect()` starts a polling thread; `start()`
then sets `running_`, calls `initialize()` (register the callbacks, size the
ring) and spawns two threads. The monitor reads the keyboard; on `q` it calls
`stop()`, which clears `running_` and disconnects the wrapper. The executor
loops: it copies the wrapper's `hands_`, decides and sends a datagram. The
polling thread writes `hands_` from `onFrame`. Nothing protects `hands_`;
`running_` and `inConncetion_` are the only signals between the threads.

The vendor's API is not linked into the demo. There, one thread polls LeapC and
calls the application's listeners with `m_listenerMutex` held, while any thread
of the application adds and removes listeners, sets policies, asks for
configuration values (and waits for the answer the polling thread brings) and
drops the `Controller`, whose destructor joins the polling thread. The samples'
library does the same in C with one cached frame and one cached device.

What is hard here, and what makes each part correct:

- **Wrapper.** Threads that poll a handle other calls replace and destroy; a
  thread that starts before the callbacks exist; an `onFrame` without a lock,
  whose copy loop is bounded by another frame's hand count. Correct: nothing
  destroyed is used, nothing outlives `disconnect`, a copy stays in the
  allocation unless another thread is about to resize it, `hands_` is not older
  than the ring, every call returns.
- **Task.** Start and stop order across four threads, retries after a half-done
  connect, an unlocked copy, a terminal and a stdio buffer that disagree, lost
  and late datagrams. Correct: it lives the life of `SyncLifecycle`, sends only
  on open sockets, leaves nothing behind, ends after `q`, opens the hand when no
  hand is tracked.
- **Command and console.** One shared command edited in place, NaN passing
  every comparison, two limiting rules that meet at the thumb, unchecked indices
  and an uninitialised template. Correct: every number sent to follow a hand is
  in the limits, the thumb makes way, processing twice is processing once; a
  console task that is quit leaves the hand at zero, as long as what was typed
  stayed inside the command, and its self check bends one joint at a time.
- **Ring.** Indices that survive `setSize`. Correct: a window over the last
  values, the newest in front and the oldest at the back, which `onFrame` relies
  on; a wild write needs one of two named misuses.
- **Queue.** `running_` read and `full()` asked outside `put`'s lock, single
  notifications, deadlines, a stop between check and put. Correct: nothing lost, duplicated or
  reordered, little stranded, nobody waits for good.
- **Controller.** State is changed outside the mutex that orders the callbacks;
  a listener may be added between a change and its notification; images hold a
  reference to the controller inside its own thread; a policy word is updated
  by everybody without a lock; an answer may come before its promise. Correct:
  a listener lives the life of `ListenerLife` (what is kept of the documented
  one) and misses neither the service nor
  a device, frames find the images and points of their id, the policies agree
  in the end, answers reach their own caller, calls and the destructor end.
- **Samples.** A frame copied while it is overwritten, a pointer handed out from
  under a lock, a mutex destroyed at the close. Correct: whole frames, nothing
  used after its end, the newest frame seen in the end.

`PROJECT.json` lists the hazards one by one with their lines.

## 2. Modules

| Module | What it is |
| --- | --- |
| `CircularBuffer` | the ring as a data type: a record and one operator per member function |
| `CircularBufferSpec` | one ring under every sequence of calls |
| `SlidingWindow` | abstract: a window over the last values |
| `LeapWrapper` | the wrapper's state, the client calls step by step, the polling threads, LeapC |
| `LeapWrapperSpec` | the wrapper under any client that makes one call at a time (`WrapperSpec`, `WrapperFairSpec`); properties |
| `SyncLifecycle` | abstract: connecting, running, stopping, exited or dead, and what may be sent when |
| `LpSync` | `LeapWrapper` composed with main, monitor, executor, keyboard, sockets, network; properties |
| `HandCommand` | how one command is computed, limited and published |
| `HandTask` | the three tasks `start()` chooses from: `HandCommand`, the joint test, the self check |
| `TaskQueue` | scheduler threads over the bounded queue |
| `FrameHistory` | the controller's three histories as pure operators |
| `LeapController` | the controller: polling thread, handlers, application threads, LeapC |
| `LeapControllerSpec` | its properties |
| `ListenerLife` | abstract: what the controller keeps of what its comments promise a listener |
| `ExampleConnection` | the samples' connection library under three kinds of program |
| `CircularBufferProofs`, `LeapWrapperProofs`, `LpSyncProofs`, `HandCommandProofs`, `HandTaskProofs`, `TaskQueueProofs`, `LeapControllerProofs`, `ExampleConnectionProofs` | inductive invariants and theorems |
| `MC*` | values for TLC |

Operators commented "Variant with a defect" are not used by any specification:
each is a plausible slip in the definition that follows it, and stands there to
show that a property of a run would notice it.

**CircularBuffer → code.** `slots`, `size`, `tail`, `head` are the four
members. `Add` includes the `updateHeadTail` that `add` ends with. Access to a
missing slot is the action `AddOutside`: `operator[]` is unchecked, so the
object is not used after it. `Write` and `UpdateHeadTail` are the two statements
of `add`, which `onFrame` needs one by one. `cut`, `fresh`, `last`, `count` are ghosts.

**LeapWrapper → code.** `op` says where the client's call is (`opening`,
`probing`, `fetching` are the parts of `connect()`; `registering` is
`initialize()`; `joining` is `disconnect()` waiting for its threads). `left` is
`retry_limit`. `reg` counts the steps of `initialize()`: two for each
callback, because `callbackMap_[name] = f` first inserts an empty function and
then assigns it, and one for `frameBuffer_.setSize`. A polling thread is a
record: `check` (loop condition), `polling` (inside `LeapPollConnection`, with
the handle as it was read), `dispatch` (the switch), `calling` (callback
found), the places of `onFrame`, `done`. `onFrame` holds no lock, so each of its
statements is a step: `adding` (`m_buffer[m_tail] = value`), `advancing`
(`updateHeadTail`), `reading` (`back()`), `sizing` (`resize`), `clearing`
(`clear()`) and `copying` (one entry per step, with the bound `cur` and the index
`i`). `i` holds before that the `m_tail` the thread works with;
`OnFrameReload` lets it be read again between two statements, as a build may or
may not. `hands` keeps the vector's allocation apart from its size,
because the copy loop is bounded by `curData.nHands`, where `curData` is
`frameBuffer_.back()`, the *oldest* frame of the ring, while `hands_` is resized
for the newest. `fault` records why the process died: `abort()` of
`lp2_assert` (`ConnectAborts` when LeapC makes or opens no connection,
`ConnectFetch` when the device list fails the second time), a
`bad_function_call`, a ring without storage, a wild read, or a damaged heap: a
copy beyond the allocation, two threads that resize the vector at once, one that
moves the storage another copies into. After a data race on the vector the
model goes on both ways, damaged or with the steps in some order. LeapC is `conns`
(handles), `link` (the service as it is), `told` (the service as the messages
polled so far say) and `openDevices`.

**LpSync → code.** `main`, `monitor` and `exec.pc` are the three threads'
program counters. The executor's copy of `hands_` starts in `ExecIterate`
(its size) and ends in `ExecDecide`; `seen` collects what each entry held in
between and `moved` whether the storage moved, so that `Snapshots` is the set of
results the unlocked copy can have: any mix of the fields of what an entry
held, anything at all when the storage was freed meanwhile, or a crash
(`ExecWildCopy`). `Decision` is the body of `runIteration` after the copy.
`kernel` and `stdio` are the two keyboard buffers of `get_char`. `sock` is each
hand's descriptor, `lostFds` the descriptors `_connect` overwrote, `net` a
datagram held back, `device` what the left hand carries out.

**HandCommand → code.** An angle is an integer or `NaN`; `Less` is the float
comparison. `LastValid` is what the loop in `parseConfig` leaves in the limits.
`calPubFingerAngle` runs finger by finger over the one member `handCmd`, which
still holds the previous command, or garbage before the first.

**HandTask → code.** `task` is `taskName_`, `at` where its loop waits: `Follow`
is the whole of `HandCommand`'s next-state relation, so following a hand is one
of the three tasks. `hand` is `FfhCtrl::handCmd_`, the command sent last.
`TypesAngle` writes `angle[finger][joint]` with whatever was typed: the array is
flat, so an index beyond a finger moves another finger's joint. A place outside
the command is `TypesOutside`: behind it lies `handData_`, which nothing reads
here, so nothing may come of it; before it lies `udp_`, and elsewhere anything
may, which is `at = "corrupted"`, a place the model does not leave and claims
nothing of. The self check is two passes over `turn`
(pass, fingers done, joint), `MovesJoint` the first and `MovesBack` the second
command of a joint; `tmp_cmd` starts as garbage, another value in each place if
need be, because the `memset` before the
passes clears the member `handCmd` instead. A word the prompts do not know is
not an action: it changes nothing. `tests` is a ghost.

**TaskQueue → code.** A locked section is one step, a condition variable is
the set of threads that wait on it. `isRunning()` and `full()` in `run` and the
wait in `put` are separate steps (`ReadsRunning`, `ProducerAsks` or `TriggerRuns`,
`Put`), as they are separate reads and critical sections.

**LeapController → code.** `poll.at` is where the polling thread is. A handler
first changes its state and then notifies: `Notify(rounds, then)` is the loop
over `m_listeners` under `m_listenerMutex`, one round per callback name, with
`lock` (waits for the mutex), `round` (between two callbacks, `todo` the
listeners left), `inside` (in a callback) and then the label `then`: `policy`
(the policies `onConnection` sends with the mutex still held), `status` (the
second locked section of `onDeviceStatusChange`, its rounds in `again`), `clear`
and `erase` (what `onConnectionLost` and `onDeviceLost` do afterwards). The
mutex is the variable `lock`, since callbacks run under it; the sections of the
five mutexes of devices, frames, images, points and promises neither block nor
call out and are one step each. `owners`
are the strong references to the implementation: the application's, and the
polling thread's while `onImage` makes an image from `shared_from_this()`
(`take`, `drop`, twice, one per image). `life` follows the destructor (`closing`,
`joining`, `gone`), `fault` is `bad_weak_ptr` or `self_join`, the two ways the
process dies in `onImage` after the last `Controller` went. `app[t].at` is where
thread `t` is in its call; calls of all kinds overlap. LeapC is `link`, `told`,
`present`, `granted`, `events`, `asked`, `due`, `sent`; `scene` says which kinds
of message and of call a behaviour mixes. `heard` (what a listener was told
last) and `seen` are ghosts.

**FrameHistory → code.** `Keep` trims a deque, `NewFrame`, `NewerThan`, `Place`,
`GiveImage`, `GivePoints` are the searches of `onTracking`, `onImage` and
`onPointMappingChange`; a frame is its id and whether it has its images and
points.

**ExampleConnection → code.** `loop.at` and `main.at` are the two threads,
`main.program` which sample runs. The cached frame is a header and hands, both
named by the frame they come from, as `deepCopyTrackingEvent` copies one after
the other. `lastDevice` names the allocation its serial points to: a device has
two, the handler's (`Event`) and the cache's (`Own`). `setDevice` frees the serial
of the device before, `CopiesDevice` copies the struct with the handler's pointer
in it, `OwnsSerial` allocates; `DeviceFound` frees the handler's. The program
reads the pointer without the mutex between any two of them. `freed` and `leaked` are ghosts.

## 3. Runs

| Run | Instance | Shows |
| --- | --- | --- |
| `circular_buffer` | 3 elements, sizes 1–3, unbounded calls | types; window refinement; `front` newest and `back` oldest after an add; what a wild write needs |
| `wrapper_pollers` | 2 connections, 2 threads, ring of 2, frames of 0–2 hands | type, no use after destroy, no thread left, what an overrun of `hands_` needs |
| `wrapper_frames` | 1 connection, ring of 3, 4 different frames, 2 turns of the retry loop, device events | freshness and age of `hands_`, no crash once initialised, every call returns |
| `sync` | 1 connection, frames of 0–2 hands, left FFH hand, one line `q⏎` | refinement of `SyncLifecycle`, the hand opens |
| `sync_retry` | 2 connections, both FFH hands, either may fail, 2 descriptors lost at most, two lines `xq⏎` | exit leaves nothing behind, sockets open while sending, what a retry leaks, `q` ends it |
| `hand_command` | the three tasks; thumb and index finger, 4 angles with NaN, 2 kinds of garbage in every mixture, both hands valid, 5 typed lines | limits, thumb rule, idempotence, the unwritten place, rest at the end, one joint at a time |
| `task_queue` | 1 producer, 1 trigger, 2 consumers, 2 places, 3 objects per maker | order and conservation, stranding, nobody hangs |
| `controller` | 2 threads, 1 listener, 2 devices, history of 2, 4 frame ids, 2 requests, 2 policy events, 6 scenes | types, what listeners know, the end, histories, policies, requests, refinement of `ListenerLife`, calls return |
| `example_connection` | 3 programs, 3 frames, 3 devices, a recording of 2 frames | whole frames, nothing used after its end, when a serial dangles and a device leaks, the newest frame is seen |
| `sync_concurrent_poll`, `sync_torn`, `controller_loss` | small | the disagreements of section 4 |

Why the bounds are enough.

- Two connections give two polling threads, the replaced handle and the join of
  more than one thread; a third thread adds no new kind of pair. The theorems
  of section 6 hold for any number. Two threads of the application are the
  smallest number that races in `addListener`, the policies and the requests.
- A ring of three separates newest, middle and oldest; a ring of two already
  has `back()` different from the newest frame. The configuration's ring is
  larger, and the age bound is stated in `FrameCount`. A history of two with
  four ids lets each of the three histories drop what the others still have.
- Two hands per frame is what the device tracks and lets the hand count grow,
  shrink and move the storage.
- `RetryLimit` stands for the seven polls of `connect()`; two let the loop go
  around and run out.
- `sync` has a ring of one frame: it asks about life and delivery, not about
  stale entries, which `wrapper_frames` treats with a larger ring. `MaxFdLeak`
  bounds the descriptors lost on retries; when it is used up main stops at the
  next lost one, which only shortens behaviours.
- The lines typed in `sync_retry` are `xq⏎`: the `getchar` that returns `x` takes
  the `q` into stdio's buffer, where `select` does not see it, and only the
  second line makes the keyboard ready again. In `sync`, which asks nothing of
  the keyboard, one line `q⏎` is enough to stop.
- Two fingers stand for the thumb, which has a rule of its own, and for the
  others, which share one. Angles and garbage lie below, inside and above the
  limits and on both sides of 5 and of 20; the right hand's limits, which the
  code applies to the left hand too, differ from the left hand's. The typed
  lines have indices inside, beyond a finger, and before and behind the command.
  One lower limit is above zero, so angles lie below a lower limit too.
- Two places and three objects per maker fill the queue, block a put, and have
  something left over at a stop.
- A scene of `controller` holds what shares state: devices with registration,
  the end with registration and with images, the three histories, the policies,
  the requests. A listener is called by one thread at a time, so a second
  listener adds no interleaving of its own; the theorems cover any number.
- Three frames and three devices let the loop overwrite the cache twice while
  the program reads it once, and free a serial that is not the newest.

Deadlock checking is off: in each instance the program ends (`main = "exited"`,
a dead process, a console task that is left, threads that are done, a destroyed
controller) or a bound stops it. Liveness properties say where it must not stop.

The abstract specifications: the ring implements `SlidingWindow` with the slots
read from the tail as the window. `LpSync` implements `SyncLifecycle` with
`phase` computed from `fault`, `main` and `running_`, and `grace` true while an
iteration that was under way at the stop has not ended; so after `q` at most one
more command is sent, and none after the exit. `LeapController` implements
`ListenerLife` with `doing` the callback some thread is inside, and whether the
thread is the controller's own or a caller's: no two callbacks at once, `onInit`
before all others, `onExit` after all others when the listener is removed, in a
caller's thread only what `addListener` and `removeListener` call, none after the
end. That listeners attached at the end get no `onExit`, and that callers run
callbacks, is against the comments (section 4).

## 4. Where code and documentation disagree

Three have a run whose property states the quoted line and fails.

1. `sync_concurrent_poll`. When `connectFFH` fails, `tryConnect` calls
   `lmWrap.connect()` again while the first polling thread runs. Both threads
   then poll the new `connectionHandle_`. `LeapC.h:2315` ends the validity of a
   message at the next `LeapPollConnection` and does not allow concurrent polls.
2. `sync_torn`. The unlocked copy may combine the type of a left hand with the
   bones of a right one; the mixture is forwarded, though only the left hand
   should be.
3. `controller_loss`. `onDeviceLost` notifies before it erases: a listener added
   in between gets `onConnect` for a device that is gone and never an
   `onDisconnect`, which `LeapC++.h:2855` promises "for any reason".
   `onConnectionLost` clears the devices without any `onDisconnect` at all.

Three more are between a comment and what the code plainly does; there the
property of a passing run states what the code does, and the comment is the
part that is wrong.

4. `circular_buffer` (`FrontNewestBackOldest`). The comments of
   `arCircularBuffer.h` have the ring's ends the other way round: `back()` is
   called "the last value" (line 71) and is the oldest, `front()` "the first
   value" (line 78) and is the newest, `getHead()` "the oldest object id" (line
   39) and is the newest's index, `getTail()` "the latest object id" (line 32)
   and is the place of the next write. `onFrame` takes the hand count from
   `back()`, which by the comment would be the newest frame's and leave no stale
   entry. `HandsAgeBounded` is about the code as it is.
5. `controller` (`ListenersLive`). `LeapC++.h:2857` and `:3286` promise `onExit`
   when the controller is destroyed. The destructor
   (`LeapImplementationC++.h:587`) calls no callback; `ListenerLife!Destroy`
   leaves the attached listeners without.
6. `controller` (`ListenersLive`). `LeapC++.h:2862` and `:3225` say that
   callbacks run in the controller's own thread and not in the application's.
   `addListener` and `removeListener` (`LeapImplementationC++.h:632-644`) run
   `onInit`, `onServiceConnect`, `onConnect` and `onExit` in their caller's.
   `ListenerLife` names the thread of each callback.

Observed while modelling, without a run of its own:

- `onConnectLost` of the wrapper only logs: `inConnection()` stays true and
  `runIteration` goes on with the last hands.
- `hands_` is not the newest frame's: the copy is bounded by the oldest frame's
  hand count. `HandsAgeBounded` says exactly how far it is off.
- `select` in `get_char` looks at the descriptor, `getchar` buffers the line: a
  `q` behind another key on one line waits for the next line (`KeyReady`).
- `handleDeviceEvent`, in the wrapper and in the sample alike, returns without
  `LeapCloseDevice` when the second `LeapGetDeviceInfo` fails
  (`OnlyFailedInfoLeaks`: in no other case).
- A frame that arrives before `initialize()` has registered its callbacks and
  sized the ring can end the process (`CallEmpty`, `OnFrameUnsized`).
  `InitializedNeverCrashes` says only that this is over afterwards.
- Two polling threads inside `onFrame` can copy past the allocation of `hands_`
  (`OnFrameWildWrite`); `OverrunNeedsPendingFrame` says what it takes.
- `testFlow` writes wherever the typed indices lead (`TypesOutside`).
- Right after an `add`, `size()` of the ring, the "number of elements actually
  stored", is 1 however many were stored (0 in a ring of one place).
- `parseConfig` leaves the last valid hand's limits for both hands
  (`LastValid`); a second `_connect` loses the first descriptor (`Lose`); with
  no left hand in the configuration `ffhs_.front()` is not the left one, or
  nothing.
- The prompt of `singleJointTest` offers `reset`, which has no branch there.
- Controller: a listener added while the notification waits for the mutex is
  told `onServiceConnect` or `onConnect` twice; `onServiceChange` is called by
  nothing; a callback
  that adds or removes a listener waits for itself; histories and policies
  survive the loss of the connection; an answer after its caller's timeout
  leaves a promise nobody takes; the device handles are closed after
  `LeapDestroyConnection`; `m_controller` refers to a `Controller` object that
  copies may outlive.

## 5. Fairness

- `LeapWrapperSpec!WrapperFairSpec`: weak fairness for every polling thread and
  for the call under way. Threads are ordinary `std::thread`s;
  `LeapPollConnection` has a timeout of one second, so a thread in `polling`
  always has a step; a call begun does not wait for its caller. Nothing makes the
  client begin a call.
- `LpSync!FairSpec`: weak fairness for main, monitor, executor and every
  polling thread. The user, the tracking service and the network owe nothing.
- `LpSync!FairNetSpec` adds, for `NoHandOpens` only, strong fairness that a
  command sent over and over arrives, and that a datagram held back is
  delivered some time. UDP gives no guarantee for one datagram; the executor
  sends in every iteration, so the claim is about a link that is not dead.
  `QuitEnds` needs only
  `FairSpec` and is checked under it (`sync_retry`).
- `TaskQueue!FairSpec`: every thread is scheduled. `ProducerStops` and
  `TriggerAfter` are choices of the user's predicate, so nothing makes a stop
  happen.
- `LeapController!FairSpec`: weak fairness for the polling thread, for every
  call that has begun and for the destructor, and strong fairness for taking
  `m_listenerMutex`. The mutex is not fair by itself, but the polling thread
  holds it only for callbacks and leaves it free for up to 250 ms in every poll.
  Callbacks return; the service sends nothing and the application calls nothing
  it does not want to.
- `ExampleConnection!FairSpec`: weak fairness for both threads and strong
  fairness for taking `dataLock`, which each holds for a bounded copy only. The
  key that ends a callback program may never be pressed (`CloseConnection` has
  no fairness), and no frame is owed.

## 6. Proofs

Each theorem is `Spec => []P`, or an action property or a refinement, for every
value of the constants; the assumptions are the named `ASSUME`s of the modules.
An invariant of a run is seldom inductive alone: each proof module states the
strengthening, then initial states, one step per action, and the theorems.

**`LeapWrapperProofs`** (any connections, threads, ring, frames):
`WrapperTypeCorrect`, `NeverUsedAfterDestroy`, `ThreadsEndWithConnection`,
`CopiesStayInAllocation`, `NoCrashOnceInitialized`, `NoHandOlderThanRing`,
`OneThreadPerConnection`. The invariant is `Inv ==
WrapperTypeOK /\ CallInv /\ ThreadInv /\ RingInv /\ RoomInv /\
NoThreadOutlivesConnection`.
`NoUseAfterDestroy` needs that a thread inside a poll or a message holds a
connection that exists and was not destroyed (`ThreadInv`); for a thread about
to poll, that the current handle is such a connection as long as
`inConncetion_` is true (`CallInv`); and for the step that destroys it, that
`disconnect` has set the flag to false, so no thread re-enters the loop.
`OverrunNeedsPendingFrame` needs `RoomInv`: every count in a slot of the ring,
and every count read from one, is `Backed`, by the capacity of `hands_` or by a
thread that is still to resize for a frame with as many hands. A count enters
the ring with its own thread pending; that thread stops being pending only by
the resize, and the capacity never shrinks. So a thread that copies past the
capacity has another one to thank, and a single one never does.
`InitializedNeverCrashes` needs that a ring with `reg = RegDone` has
its size, and that a message in `calling` has a callback.

`HandsAgeBounded` says that with one polling thread `hands_` shows nothing older
than the ring is long, although each frame copies only as many hands as the
*oldest* frame of the ring had. It follows from `FrameInv`, in two halves.
`Reaches`: a hand of age `a` that is still shown was inside the last `a` frames,
so each of their counts, which stand in the `a` places of the ring behind the
tail (`Since` says how far behind), reaches its index; while the ring has the
newest frame and `hands_` is not resized for it, the places are one further on
(`Lead`). A frame of age `FrameCount` would have to be in every place, the oldest
included, and then the loop copies it afresh. `FrameInHand`: at each place of
`onFrame` the only thread works on the newest frame, with the ring as it left it;
from `sizing` on its bound is the oldest count, and the hands before its index
are copied. An entry that is as old as the ring is one the loop under way has
still to reach (`Owed`). `CountInv` then says when
there is one thread: `connect` starts at most one per connection, and two threads
are needed for a resize to move `hands_` under a copy. So freshness and safety
hold for every client whose first connection succeeds, and `OneThreadPerConnection`
says so; a client that had to retry may lose them (section 4).

**`LpSyncProofs`** (any connections, lines, hands): `TaskTypeCorrect`,
`SendsOnOpenSockets`, `ExitsClean`, `LeaksBounded`, `ImplementsSyncLifecycle`,
`AtMostOneCommandAfterStop`, `WrapperSafeInTask`, `TaskNeverCrashesOnceInitialized`,
`FirstConnectionIsPolledAlone`, `CopiesInsideAllocation`,
`UndisturbedCopyDecidesOnHands`.
`SyncInv` adds to the wrapper's `Inv`, whose lemmas are reused for the steps
`LpSync` shares with it, how far the three threads may be apart (`ThreadsInv`),
who has the wrapper's call and what the wrapper is after it (`CallsInv`), main's
progress with the sockets (`SocketsInv`) and the account of lost descriptors
(`LeakInv`: only the left hand's socket can be open when `tryConnect` starts
over). The refinement maps each action to one of `SyncLifecycle` or a stutter, and
`AtMostOneCommandAfterStop` reads off it what the hand is promised.

The wrapper's theorems are about a client that makes one call at a time. That
the task is such a client is not assumed: `FramesInTask` takes every step of
`LpSync` to a step of the wrapper or to one that leaves `FrameInv` and `CountInv`
alone, so `WrapperSafeInTask` and `TaskNeverCrashesOnceInitialized` hold of the
task itself, and on its first connection every copy of `onFrame` stays in the
allocation. `FirstConnectionIsPolledAlone` bounds the disagreement
`sync_concurrent_poll` shows: it takes a second connection. `CopyInv` is about the
executor's unlocked copy: it stays inside the allocation it began in, and what
`hands_` holds now is always among what the copy may have read. So a copy that
no thread disturbed decides on exactly the hands there are; what a disturbed
one may send is the subject of `sync_torn`.

**`HandCommandProofs`** (any fingers, angles, garbage, limits): `TypeCorrect`,
`SentAlwaysInLimits`, `ThumbAlwaysMakesWay`, `PublishedIsProcessed`, from lemmas
about one clamp, one limit pass and one `MakeWay`. `SentInLimits` is conditional
on `SaneLimits`, which the shipped configuration satisfies: without it the
thumb rule may lower an angle below its limit.

**`HandTaskProofs`** (any typed lines and templates besides): `TasksEndAtRest`,
`OneJointBends`, `FourthPlaceKept`. `TaskInv` says which
task is where (`PlaceInv`), how far a self check is (`TurnInv`), and which places of
`tmp_cmd` the check has been to: those are at zero or spread as a template says,
all but the joint that is bent now (`CleanInv`). The garbage is gone when the
first pass has been everywhere, so `OneJointAtATime` begins with the second.
`EndsAtRest` is about tasks that are quit; of a hand after `TypesOutside` has left
the program undefined, and after a word that is no number, it says nothing.

**`LeapControllerProofs`** (any threads, listeners, devices, scenes):
`EndsInOrder`, `NobodyIsMissed`, `ImplementsListenerLife`, `PoliciesAgree`,
`AnswersAreKept`, `EveryCallerItsPromise`, `FramesFindTheirData`,
`HistoriesDescend`, `ControllerTypeCorrect`. `Inv` says who holds the mutex
(`LockInv`), who holds the controller and how far its end is (`EndInv`), that
notifications go to registered listeners and tell what is still true
(`RoundsInv`, `AddInv`), and, for a listener that does not know yet, who owes it
the callback: the polling thread in its rounds, or the call that adds it, which
has still to look (`ServiceInv`, `DeviceInv`). `DoingInv` makes the callback under
way unique, which the refinement needs. `PolicyInv`: the last event on its way
tells what was granted, and when none is, `m_policyFlags` says so, or somebody
is about to send. `RequestInv`: an id other than 0 has one caller, its promise
is there while it waits, and is answered if the answer was polled.

`FramesAreComplete` is `HistInv`, for a history of any length. It needs lemmas
about the operators of `FrameHistory`: what a push with its trim keeps
(`PushKeepIs`), where a point goes (`PlaceIs`, by the least index that is
older), what an image and points change in a frame (`GiveImageIs`,
`GivePointsIs`). `FramesKept` and `PointsKept`: both deques descend strictly, so a
search may stop at the first older entry, and `onTracking` may cut off the
points behind the frame's own. `PointsWait`: points whose frame is still to come
are in their deque unless `History` newer ones came, which is counted over all
ids polled so far, as the deque itself forgets (`EnoughNewer`). `Complete`: a
frame has its images while the image history names it, its points while fewer
than `History` newer ones came, and no points wait for a frame that is there.
`ImageInHand`: between its two images `onImage` keeps the id it looks for, while
the application may end the controller under it.

**`ExampleConnectionProofs`** (any frames, devices, recordings): `TypeCorrect`,
`WholeFrames`, `NoUseAfterEnd`, `SerialLives`, `OneLeak`. `LockInv`: the cached
frame is in two minds only while the loop holds the mutex, and the program's
half of a copy has the cached header. `LifeInv` ties mutex, loop and handle to
where the program is. `SerialInv` orders the
allocations: which one each step of `setDevice` leaves cached, and what can be
freed while there is one device. `DeviceInv` and `RecordingInv` count.

**`TaskQueueProofs`** (any threads, places, objects): `QueueTypeCorrect`,
`EveryObjectOnce`, `FewAreStranded`, `NoWakeupLost`, `EndsNeverBothAsleep`. `WaitInv`: the condition variables' sets are
the threads that wait. `StopInv`: when the last consumer has left, the stop
was seen, and a maker with an object in the queue is not in the middle of
another one and will see the stop before it makes the next. `EnoughNotified` is
what `notify_one` owes: `put` and `take` wake one thread each time, although
several may wait, and a thread that was notified may find its place taken by
another. It counts: while a put waits, at least as many puts are on their way
to the lock as there are free places; while a take waits, at least as many takes
as there are objects. This is the safety half of `NobodyHangs`. The threads are
finitely many (`ThreadAssumption`), which the counting needs.

**`CircularBufferProofs`** (any element, any sizes): `RingTypeCorrect`,
`WildWritesAreMisuse`, `FrontIsNewest`, `ImplementsWindow`. `IndexInv` says where
the indices are after each kind of call, `BlankInv` that what was never written
comes first from the tail. The window's step is a lemma about reading a ring
from the next tail.

Model-checked only: liveness (`CallReturns`, `QuitEnds`, `NoHandOpens`,
`NobodyHangs`, `CallsReturn`, `NewestFrameIsSeen`), because fairness and ENABLED
are beyond the prover. Every invariant, action property and refinement a passing
run checks is also the statement of a theorem.

`TypeOK` of `LpSync`, `TaskQueue`, `HandCommand` and `ExampleConnection` are proved
and not among the properties of a run.

## 7. Abstractions, and what is not modelled

- Each statement of `onFrame` is one step, and each entry of its copy. A resize
  against another thread's resize or copy is a data race inside
  `std::vector`: it damages the heap (`OnFrameHeapRace`), or takes effect as one
  step. The head of the wrapper's ring is read by nobody there.
- What a program does after undefined behaviour is not followed: `fault`, and
  `corrupted` in the console task, are final.
- Of the callbacks the wrapper can dispatch, the four with a handler that does
  something or that every session receives are kept; the others differ in name.
- One `link` and one `told` serve all connections, as there is one service.
- A hand is its type, whether its confidence reaches 0.3, and a pose: the angles
  are the subject of `HandCommand`.
- `tryConnect`'s sleep and `control_internal` are time, which is not modelled.
- The float trigonometry of `leapMotionV2Math.h` is replaced by the set of
  angles it can return, NaN included, because `acos` gets unclamped arguments.
- Listeners' callbacks do not call back into the controller, as those of
  `samples/Sample.cpp` do not; one that adds or removes a listener would wait for
  the mutex its own thread holds.
- `m_policyFlags` is an unsynchronised word: a read and a write are separate
  steps, and `|=` at the end of `onConnection` may keep or lose what came between.
- A request for policies may be declined; it is answered by an event that tells
  what is granted all the same (`LeapSetPolicyFlags`).
- Images, points, log texts and device descriptions are their ids or nothing.

Not modelled, and why:

- The map of image buffers behind `LeapSetAllocator`, the read-only accessors
  and value classes (`Hand`, `Finger`, `Bone`, `Frame`, the lists), and the vector
  classes: they keep no state between calls that the threads share, except the
  allocator's, which only LeapC uses.
- `MultiDeviceSample.c`: one thread, a table that only grows. Its loop treats
  any failed poll but a timeout as a message, whose contents are the last one's.
  `InterpolationSample.c` is arithmetic on clocks, the playback half of
  `RecordPlaybackSample.c` reads a file in sequence, `Sample.cpp` prints.
- `DynamicQueue`: the repository has no user of it, and its `put` and `take` are
  those of `TaskQueue` without a bound.
- `parseConfig` but for the limits: the YAML parser and its exceptions.
- The receive side of `UdpClient`, `dataProcess` and `FfhCtrl`'s own limits: no
  caller. Logging.
- `contrib/gtest-1.7.0`, three quarters of the repository's lines, the tests, and
  the headers of third parties: vendored. Most of the lines of `LeapC++.h` are
  its documentation, which the properties of `LeapControllerSpec` quote.

## 8. Plan

Done, in this order because the wrapper's threads and `hands_` are what the rest
depends on: the ring, the wrapper, the task, the command, the queue; then the
console tasks, the controller with its histories, the samples' library; and
theorems about each of them.

What could follow:

1. `FfhLink`: `FfhCtrl` over `UdpClient` as a component of its own (connected
   flags, descriptors, receive), which `LpSync` would refine.
2. `DynamicQueue` next to `TaskQueue`; the image buffers behind the allocator.
3. `MultiDeviceSample`'s loop with its stale message.
4. `LeapMath` over integer vectors (projection and its zero vector).
5. Proofs: more of what the liveness properties rest on, as `NoWakeupLost` is for
   `NobodyHangs`: who can always take the next step while a call of the wrapper
   or of the controller has not returned.
