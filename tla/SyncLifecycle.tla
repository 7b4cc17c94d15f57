---------------------------- MODULE SyncLifecycle ----------------------------
(***************************************************************************)
(* What the synchronisation task promises about its life: it connects for  *)
(* as long as it takes, runs, is stopped once and exits.  A pose reaches   *)
(* the hand only while the task runs, except for the command an iteration  *)
(* under way at the stop may still send; the open-hand command may be sent *)
(* from the first connection on.  It may die in any phase but the last.    *)
(***************************************************************************)
CONSTANTS
    Command,    \* what can be sent to the hand
    Open        \* the open-hand command among them

VARIABLES
    phase,      \* "connecting", "running", "stopping", "exited" or "dead"
    sent,       \* the last command sent
    grace       \* an iteration begun before the stop has yet to end

lifecycleVars == <<phase, sent, grace>>

Init == phase = "connecting" /\ sent = Open /\ grace = FALSE

Connect == phase = "connecting" /\ sent' = Open /\ UNCHANGED <<phase, grace>>

Run == phase = "connecting" /\ phase' = "running" /\ UNCHANGED <<sent, grace>>

Publish ==
    /\ phase = "running" \/ (phase = "stopping" /\ grace)
    /\ sent' \in Command
    /\ grace' = FALSE
    /\ UNCHANGED phase

\* The iteration under way ends without a command.
Settle == phase = "stopping" /\ grace' = FALSE /\ UNCHANGED <<phase, sent>>

Stop ==
    /\ phase = "running" /\ phase' = "stopping"
    /\ grace' \in BOOLEAN
    /\ UNCHANGED sent

Exit == phase = "stopping" /\ ~grace /\ phase' = "exited" /\ UNCHANGED <<sent, grace>>

Die == phase # "exited" /\ phase' = "dead" /\ grace' = FALSE /\ UNCHANGED sent

Next == Connect \/ Run \/ Publish \/ Settle \/ Stop \/ Exit \/ Die

Spec == Init /\ [][Next]_lifecycleVars
=============================================================================
