----------------------------- MODULE ListenerLife -----------------------------
(***************************************************************************)
(* What Leap::Controller keeps of what the comments of Controller and      *)
(* Listener in LeapC++.h promise a listener: it is initialised when it is  *)
(* added, told to leave when it is removed, called only in between, and no *)
(* two callbacks run at the same time.                                     *)
(*                                                                         *)
(* Two promises of these comments are not kept and not in here.  Listeners *)
(* that are attached when the controller is destroyed are told nothing,    *)
(* though onExit is promised; and a callback may run in the thread of the  *)
(* application that adds or removes the listener, though all are promised  *)
(* to run in the controller's own.                                         *)
(***************************************************************************)
CONSTANTS Listeners, Nothing

VARIABLES
    attached,   \* the listeners the controller has
    doing,      \* the callback that runs, <<listener, name, thread>>, or Nothing
    gone        \* the controller was destroyed

vars == <<attached, doing, gone>>

Init == attached = {} /\ doing = Nothing /\ gone = FALSE

Quiet == doing = Nothing /\ ~gone

Attach(l) ==
    /\ Quiet /\ l \notin attached
    /\ attached' = attached \cup {l}
    /\ doing' = <<l, "onInit", "caller">>
    /\ UNCHANGED gone

Detach(l) ==
    /\ Quiet /\ l \in attached
    /\ attached' = attached \ {l}
    /\ doing' = <<l, "onExit", "caller">>
    /\ UNCHANGED gone

Notices == {"onServiceConnect", "onServiceDisconnect", "onConnect", "onDisconnect",
            "onDeviceChange", "onDeviceFailure", "onFrame", "onImages", "onHeadPose",
            "onLogMessage"}

\* Every notice runs in the controller's own thread, but for what the caller of
\* addListener is told of the present state.
Call(l) ==
    /\ Quiet /\ l \in attached
    /\ doing' \in ({l} \X Notices \X {"own"})
                   \cup ({l} \X {"onServiceConnect", "onConnect"} \X {"caller"})
    /\ UNCHANGED <<attached, gone>>

Return ==
    /\ doing # Nothing
    /\ doing' = Nothing
    /\ UNCHANGED <<attached, gone>>

\* Whatever is attached: no onExit.
Destroy ==
    /\ Quiet
    /\ gone' = TRUE
    /\ UNCHANGED <<attached, doing>>

Next ==
    \/ \E l \in Listeners : Attach(l) \/ Detach(l) \/ Call(l)
    \/ Return
    \/ Destroy

Spec == Init /\ [][Next]_vars
=============================================================================
