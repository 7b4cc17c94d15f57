--------------------------- MODULE LeapWrapperSpec ---------------------------
(***************************************************************************)
(* The Leap wrapper under any client that makes one call at a time: it may *)
(* connect again after a failure or over a live connection, initialize     *)
(* once, disconnect and start over, while frames, device events and losses *)
(* of the service arrive at any point.                                     *)
(***************************************************************************)
EXTENDS LeapWrapper

WrapperNext ==
    \/ ClientStep
    \/ \E p \in DOMAIN pollers : PollerStep(p) \/ OnFrameReload(p)
    \/ ServiceStep

WrapperSpec == WrapperInit /\ [][WrapperNext]_wrapperVars

\* A call that has begun goes on, and every thread is scheduled; a poll
\* returns within its timeout.  Nothing makes the client begin a call, and a
\* thread gets on with its statements however often m_tail is read again.
ClientContinues == op # "idle" /\ ClientStep

PollerRuns(p) == p \in DOMAIN pollers /\ PollerStep(p)

WrapperFairSpec ==
    /\ WrapperSpec
    /\ WF_wrapperVars(ClientContinues)
    /\ \A p \in Connection : WF_wrapperVars(PollerRuns(p))

-----------------------------------------------------------------------------
\* No thread polls a connection, or works on a message LeapC owns, after that
\* connection was destroyed: disconnect() joins before it closes
\* (leapMotionV2WrapperImpl.cpp:328-343, serviceMessageLoop).
NoUseAfterDestroy ==
    \A p \in DOMAIN pollers :
        (Handling(p) \/ pollers[p].pc = "polling") => conns[pollers[p].conn] # "destroyed"

\* No polling thread is left running once the wrapper says it is not
\* connected and no disconnect is under way, so the object may be destroyed.
NoThreadOutlivesConnection ==
    (~inConncetion /\ op # "joining") => \A p \in DOMAIN pollers : pollers[p].pc = "done"

\* A frame that is in the ring while hands_ is not yet resized for it.
Pending(r) == r.pc \in {"advancing", "reading", "sizing"}

\* The copy loop of onFrame runs to curData.nHands, the hand count of another
\* frame, over a hands_ it resized for its own.  It may leave the vector's
\* size; it can leave the allocation only while another polling thread is
\* between its own add and its own resize (leapMotionV2WrapperImpl.cpp:196-206)
\* with a frame that has as many hands, so a single thread never does.
OverrunNeedsPendingFrame ==
    \A p \in DOMAIN pollers :
        (pollers[p].pc = "copying" /\ pollers[p].cur > hands.cap) =>
            \E q \in DOMAIN pollers \ {p} :
                Pending(pollers[q]) /\ Len(pollers[q].msg.frame) >= pollers[p].cur

\* Frames that arrive before initialize() has returned can kill the process
\* (an inserted but empty callback, a ring without a size); none can later.
InitializedNeverCrashes ==
    [][(reg = RegDone /\ fault # fault') =>
          fault' \notin {"bad_function_call", "unsized_buffer"}]_wrapperVars

\* With a single polling thread, between two frames, hands_ has the newest
\* frame's size, and its first entries, as many as the oldest frame of the
\* ring had hands, are the newest frame's.
PrefixFresh ==
    shown =>
        /\ hands.size = Len(lastFrame)
        /\ frameBuffer.size > 0 =>
             \A i \in DOMAIN lastFrame :
                 i <= CB!Back(frameBuffer) => hands.data[i] = lastFrame[i]

\* A hand that stays tracked is copied at the latest by its FrameCount-th
\* frame: however the hand count of the frames varies, no entry of hands_ a
\* client reads is older than the ring.
AgeBounded ==
    (\A p \in DOMAIN pollers : pollers[p].pc # "copying") =>
        \A i \in 1 .. hands.size : age[i] < FrameCount

\* How wrong hands_ can be although onFrame bounds its copy by the oldest
\* frame's hand count (leapMotionV2WrapperImpl.cpp:198-217): which entries are
\* fresh, and how old the others get.
HandsAgeBounded == Len(pollers) <= 1 => PrefixFresh /\ AgeBounded

\* Every client call returns, or the process has died: the retry loop of
\* connect() is bounded and disconnect()'s joins end within one poll timeout.
CallReturns == (op # "idle") ~> (op = "idle" \/ ~Alive)
=============================================================================
