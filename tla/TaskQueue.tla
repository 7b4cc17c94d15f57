------------------------------ MODULE TaskQueue ------------------------------
(***************************************************************************)
(* The task scheduler of src/common/taskScheduler.h over the bounded queue *)
(* of src/common/arQueue.h: threads in Producer::run, threads that call    *)
(* TrigProducer::run once per trigger, and threads in Consumer::run share  *)
(* one BlockingBoundedQueue and the flag of one TaskRunnable.              *)
(*                                                                         *)
(* The queue's mutex makes every locked section one step.  The condition   *)
(* variables are the sets of threads that wait on them; a notified thread  *)
(* leaves the set and takes the lock again to test its predicate.          *)
(***************************************************************************)
EXTENDS Integers, Sequences, FiniteSets

CONSTANTS
    Producers, Triggers, Consumers,     \* the threads
    MaxSize,                            \* maxSize_, set by initialize(queueSize)
    MaxItems                            \* bound: objects one thread creates

ASSUME ThreadAssumption ==
    /\ Producers \cap Triggers = {} /\ Producers \cap Consumers = {}
    /\ Triggers \cap Consumers = {}
    /\ Consumers # {}
    /\ IsFiniteSet(Producers \cup Triggers \cup Consumers)
ASSUME SizeAssumption == MaxSize \in Nat \ {0} /\ MaxItems \in Nat

VARIABLES
    queue,      \* queue_: objects, each its creator and number
    running,    \* running_
    pc,         \* where each thread is
    notFull,    \* threads waiting on m_notFullCv_
    notEmpty,   \* threads waiting on m_notEmptyCv_
    made,       \* objects each creator has made
    used        \* ghost: the objects consumers took, in the order they did

vars == <<queue, running, pc, notFull, notEmpty, made, used>>

Makers == Producers \cup Triggers
Threads == Makers \cup Consumers
Item == Makers \X (1 .. MaxItems)

TypeOK ==
    /\ queue \in Seq(Item)
    /\ running \in BOOLEAN
    /\ pc \in [Threads -> {"check", "asks", "pred", "put", "waiting", "after", "take",
                           "timedout", "done"}]
    /\ notFull \subseteq Makers /\ notEmpty \subseteq Consumers
    /\ made \in [Makers -> 0 .. MaxItems]
    /\ used \in Seq(Item)

\* initialize(queueSize) and Runnable::start() come before the threads.
Init ==
    /\ queue = <<>> /\ running = TRUE
    /\ pc = [t \in Threads |-> "check"]
    /\ notFull = {} /\ notEmpty = {}
    /\ made = [m \in Makers |-> 0]
    /\ used = <<>>

Go(t, label) == pc' = [pc EXCEPT ![t] = label]

Full == Len(queue) = MaxSize
Empty == queue = <<>>

\* Variant with a defect: nobody is notified.
NotifyNobody(waiting, t, from, label) == Go(t, from) /\ waiting' = waiting

\* notify_one: some waiting thread goes back to `label`; none waits, no effect.
NotifyOne(waiting, t, from, label) ==
    IF waiting = {}
      THEN Go(t, from) /\ waiting' = waiting
      ELSE \E w \in waiting : /\ pc' = [pc EXCEPT ![t] = from, ![w] = label]
                              /\ waiting' = waiting \ {w}

-----------------------------------------------------------------------------
(* BlockingBoundedQueue                                                    *)
\* Variant with a defect: an object left in place.
RestUntouched == queue

\* What take leaves.
Rest == Tail(queue)

HasRoom == Len(queue) < MaxSize

\* put: the new object is number made[t] of thread t.
Put(t, after) ==
    /\ pc[t] = "put" /\ HasRoom
    /\ queue' = Append(queue, <<t, made[t]>>)
    /\ NotifyOne(notEmpty, t, after, "take")
    /\ UNCHANGED <<running, notFull, made, used>>

PutWaits(t) ==
    /\ pc[t] = "put" /\ ~HasRoom
    /\ notFull' = notFull \cup {t}
    /\ Go(t, "waiting")
    /\ UNCHANGED <<queue, running, notEmpty, made, used>>

\* take(timeout, out): an object, at the first try, after a notification or
\* at the deadline.
Take(c) ==
    /\ pc[c] \in {"take", "timedout"} /\ ~Empty
    /\ queue' = Rest
    /\ used' = Append(used, Head(queue))
    /\ NotifyOne(notFull, c, "check", "put")
    /\ UNCHANGED <<running, notEmpty, made>>

TakeWaits(c) ==
    /\ pc[c] = "take" /\ Empty
    /\ notEmpty' = notEmpty \cup {c}
    /\ Go(c, "waiting")
    /\ UNCHANGED <<queue, running, notFull, made, used>>

Deadline(c) ==
    /\ c \in notEmpty
    /\ notEmpty' = notEmpty \ {c}
    /\ Go(c, "timedout")
    /\ UNCHANGED <<queue, running, notFull, made, used>>

TakeFails(c) ==
    /\ pc[c] = "timedout" /\ Empty
    /\ Go(c, "check")
    /\ UNCHANGED <<queue, running, notFull, notEmpty, made, used>>

-----------------------------------------------------------------------------
(* Producer::run and TrigProducer::run: isRunning() reads the flag, full()  *)
(* asks in a locked section of its own after it, and both long before put.  *)
ReadsRunning(m) ==
    /\ pc[m] = "check"
    /\ Go(m, IF running THEN "asks" ELSE "done")
    /\ UNCHANGED <<queue, running, notFull, notEmpty, made, used>>

ProducerAsks(p) ==
    /\ pc[p] = "asks"
    /\ Go(p, IF Full THEN "done" ELSE "pred")
    /\ UNCHANGED <<queue, running, notFull, notEmpty, made, used>>

\* stopPred_ says so: stop the runnable and leave.
ProducerStops(p) ==
    /\ pc[p] = "pred"
    /\ running' = FALSE
    /\ Go(p, "done")
    /\ UNCHANGED <<queue, notFull, notEmpty, made, used>>

Create(t) ==
    /\ made[t] < MaxItems
    /\ made' = [made EXCEPT ![t] = made[t] + 1]
    /\ Go(t, "put")
    /\ UNCHANGED <<queue, running, notFull, notEmpty, used>>

ProducerCreates(p) == pc[p] = "pred" /\ Create(p)

\* A trigger, any number of times while objects are left to make: create and
\* put if the queue is not full, then ask stopPred_.
TriggerRuns(t) == pc[t] = "asks" /\ ~Full /\ Create(t)

TriggerSkips(t) ==
    /\ pc[t] = "asks" /\ Full
    /\ Go(t, "check")
    /\ UNCHANGED <<queue, running, notFull, notEmpty, made, used>>

TriggerAfter(t) ==
    /\ pc[t] = "after"
    /\ running' \in {running, FALSE}
    /\ Go(t, "check")
    /\ UNCHANGED <<queue, notFull, notEmpty, made, used>>

(* Consumer::run                                                           *)
\* Variant with a defect: leaving with objects queued.
ConsumesWhileRunning == running

MayConsume == running \/ ~Empty

ConsumerCheck(c) ==
    /\ pc[c] = "check"
    /\ Go(c, IF MayConsume THEN "take" ELSE "done")
    /\ UNCHANGED <<queue, running, notFull, notEmpty, made, used>>

ProducerStep(p) ==
    \/ ReadsRunning(p) \/ ProducerAsks(p) \/ ProducerStops(p)
    \/ ProducerCreates(p) \/ Put(p, "check") \/ PutWaits(p)

TriggerStep(t) ==
    \/ ReadsRunning(t) \/ TriggerRuns(t) \/ TriggerSkips(t)
    \/ Put(t, "after") \/ PutWaits(t) \/ TriggerAfter(t)

ConsumerStep(c) ==
    ConsumerCheck(c) \/ Take(c) \/ TakeWaits(c) \/ Deadline(c) \/ TakeFails(c)

Next ==
    \/ \E p \in Producers : ProducerStep(p)
    \/ \E t \in Triggers : TriggerStep(t)
    \/ \E c \in Consumers : ConsumerStep(c)

Spec == Init /\ [][Next]_vars

FairSpec == /\ Spec
            /\ \A p \in Producers : WF_vars(ProducerStep(p))
            /\ \A t \in Triggers : WF_vars(TriggerStep(t))
            /\ \A c \in Consumers : WF_vars(ConsumerStep(c))

-----------------------------------------------------------------------------
(* Properties                                                              *)

InHand(t) == IF pc[t] \in {"put", "waiting"} THEN {made[t]} ELSE {}

Order == used \o queue

\* Every object is used once, in the order its thread made it: what was used
\* and what is queued is in that order, and is all that was made but what a
\* put still holds (put, take).
NothingLostOrDuplicated ==
    /\ \A i, j \in DOMAIN Order :
          (i < j /\ Order[i][1] = Order[j][1]) => Order[i][2] < Order[j][2]
    /\ \A m \in Makers, k \in 1 .. MaxItems :
          (\E i \in DOMAIN Order : Order[i] = <<m, k>>) <=> (k <= made[m] /\ k \notin InHand(m))

\* A stop strands at most one object of each maker: when every consumer has
\* left, a maker has at most the one it was creating or putting when the last
\* consumer saw the stop and an empty queue.
StrandedAtMostOne ==
    (\A c \in Consumers : pc[c] = "done") =>
        \A i \in DOMAIN queue :
            /\ InHand(queue[i][1]) = {}
            /\ \A j \in DOMAIN queue : queue[i][1] = queue[j][1] => i = j

\* A put that waits is served while there are consumers: it hangs for good
\* only when every consumer has left, having seen the stop and an empty queue.
WaitingPutServed ==
    \A t \in Makers :
        t \in notFull ~> (t \notin notFull \/ \A c \in Consumers : pc[c] = "done")

\* Once stopped, every consumer leaves: it takes what is queued or times out.
ConsumersLeave ==
    \A c \in Consumers : ~running ~> pc[c] = "done"

\* No thread waits for good on a condition variable (arQueue.h) while the
\* others go on, except a put that all consumers have left alone.
NobodyHangs == WaitingPutServed /\ ConsumersLeave
=============================================================================
