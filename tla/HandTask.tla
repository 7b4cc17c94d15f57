------------------------------- MODULE HandTask -------------------------------
(***************************************************************************)
(* LpV2SyncFFH::start() runs one of three tasks, by taskName_: following   *)
(* the operator's hand (HandCommand), or, from the console, moving single  *)
(* joints (singleJointTest and FfhCtrl::testFlow) or a self check of every *)
(* joint (selfCheck, sendFingerCommands).  All of them drive the first FFH *)
(* through FfhCtrl, which keeps the command it sent last.                  *)
(***************************************************************************)
EXTENDS HandCommand, FiniteSets

CONSTANTS
    Tasks,          \* values of task_name
    SelfCheck1, SelfCheck2,     \* self_check_angles1 and 2, by finger and joint
    Typed           \* lines typed in testFlow: finger, joint and angle

ASSUME TaskAssumption == Tasks \subseteq {"leap_motion_demo", "test_by_hand", "self_check"}
ASSUME TemplateAssumption == SelfCheck1 \in Limits /\ SelfCheck2 \in Limits
ASSUME TypedAssumption == Typed \subseteq (Int \X Int \X Angle)

VARIABLES
    task,       \* taskName_
    at,         \* run, prompt, typing, joint, back, passed; ended, terminated,
                \* corrupted
    tmp_cmd,    \* selfCheck's local command, uninitialised
    hand,       \* FfhCtrl::handCmd_ of the first FFH in a console task: sent last
    turn,       \* where the self check is: pass, fingers done, joint
    tests       \* ghost: passes of the self check that are done, up to 2

taskVars == <<vars, task, at, tmp_cmd, hand, turn, tests>>

\* FfhCtrl::_connect has sent the zero command.
TaskInit ==
    /\ Init
    /\ task \in Tasks
    /\ at = IF task = "leap_motion_demo" THEN "run" ELSE "prompt"
    /\ tmp_cmd \in IF task = "self_check" THEN [Finger -> [Joint -> Garbage]] ELSE {Zeros}
    /\ hand = Zeros
    /\ turn = [pass |-> 1, i |-> 0, j |-> 0]
    /\ tests = 0

\* What is sent here is HandCommand's sent.
Follow ==
    /\ at = "run" /\ Next
    /\ UNCHANGED <<task, at, tmp_cmd, hand, turn, tests>>

-----------------------------------------------------------------------------
(* test_by_hand                                                            *)
TestByHand ==
    /\ task = "test_by_hand" /\ at = "prompt"
    /\ at' = "typing"
    /\ UNCHANGED <<vars, task, tmp_cmd, hand, turn, tests>>

\* Variant with a defect: the hand is left as it is.
QuitsPosed ==
    /\ task = "test_by_hand" /\ at = "prompt"
    /\ at' = "ended"
    /\ UNCHANGED <<vars, task, tmp_cmd, hand, turn, tests>>

QuitTestByHand ==
    /\ task = "test_by_hand" /\ at = "prompt"
    /\ hand' = Zeros /\ at' = "ended"
    /\ UNCHANGED <<vars, task, tmp_cmd, turn, tests>>

\* The indices typed are not checked: angle is an array of four in an array
\* of fingers, so an index beyond one finger moves a joint of another one.
Places == Cardinality(Joint)
Moved(line) == line[1] * Places + line[2]
InCommand(line) == Moved(line) \in 0 .. FingerNum * Places - 1

TypesAngle(line) ==
    /\ at = "typing" /\ InCommand(line)
    /\ hand' = [f \in Finger |-> [j \in Joint |->
                    IF f * Places + j = Moved(line) THEN line[3] ELSE hand[f][j]]]
    /\ UNCHANGED <<vars, task, at, tmp_cmd, turn, tests>>

\* A place outside the command is written all the same.  The data received
\* lies right behind the command and nothing reads it here; anywhere else, the
\* pointer udp_ right in front of the command included, it is undefined what
\* the program does from then on.
TypesOutside(line) ==
    /\ at = "typing" /\ ~InCommand(line)
    /\ at' \in {"typing", "corrupted"}
    /\ UNCHANGED <<vars, task, tmp_cmd, hand, turn, tests>>

TypesReset ==
    /\ at = "typing"
    /\ hand' = Zeros
    /\ UNCHANGED <<vars, task, at, tmp_cmd, turn, tests>>

TypesQuit ==
    /\ at = "typing"
    /\ at' = "prompt"
    /\ UNCHANGED <<vars, task, tmp_cmd, hand, turn, tests>>

\* std::stoi throws, nobody catches: std::terminate, and no destructor runs.
TypesNoNumber ==
    /\ at = "typing"
    /\ at' = "terminated"
    /\ UNCHANGED <<vars, task, tmp_cmd, hand, turn, tests>>

-----------------------------------------------------------------------------
(* self_check: two passes over all fingers and joints, the second from the *)
(* last finger to the first.  The memset clears the member, not tmp_cmd.   *)
SelfCheck ==
    /\ task = "self_check" /\ at = "prompt"
    /\ hand' = Zeros /\ handCmd' = Zeros
    /\ turn' = [pass |-> 1, i |-> 0, j |-> 0]
    /\ at' = "joint"
    /\ UNCHANGED <<step, sent, task, tmp_cmd, tests>>

QuitSelfCheck ==
    /\ task = "self_check" /\ at = "prompt"
    /\ at' = "ended"
    /\ UNCHANGED <<vars, task, tmp_cmd, hand, turn, tests>>

TurnFinger == IF turn.pass = 1 THEN turn.i ELSE FingerNum - 1 - turn.i
Template == IF turn.pass = 1 THEN SelfCheck1 ELSE SelfCheck2

\* The fourth angle is read behind the end of a template of three.
TemplateAngle == IF turn.j \in Limited THEN {Template[TurnFinger][turn.j]} ELSE Garbage

MovesJoint ==
    /\ at = "joint"
    /\ \E a \in TemplateAngle : tmp_cmd' = [tmp_cmd EXCEPT ![TurnFinger][turn.j] = a]
    /\ hand' = tmp_cmd'
    /\ at' = "back"
    /\ UNCHANGED <<vars, task, turn, tests>>

\* Variant with a defect: the condition the other way round.
KeepsJoints == turn.j # LrDir

\* Spread joints stay where the template put them.
StaysPut == turn.j = LrDir

NextTurn ==
    IF turn.j < ThumbPalm
      THEN turn' = [turn EXCEPT !.j = @ + 1] /\ at' = "joint"
      ELSE /\ turn' = [turn EXCEPT !.j = 0, !.i = @ + 1]
           /\ at' = IF turn.i + 1 < FingerNum THEN "joint" ELSE "passed"

MovesBack ==
    /\ at = "back"
    /\ tmp_cmd' = IF StaysPut THEN tmp_cmd ELSE [tmp_cmd EXCEPT ![TurnFinger][turn.j] = 0]
    /\ hand' = tmp_cmd'
    /\ NextTurn
    /\ UNCHANGED <<vars, task, tests>>

PassEnds ==
    /\ at = "passed"
    /\ hand' = Zeros
    /\ tests' = IF tests < 2 THEN tests + 1 ELSE 2
    /\ IF turn.pass = 1
         THEN turn' = [pass |-> 2, i |-> 0, j |-> 0] /\ handCmd' = Zeros /\ at' = "joint"
         ELSE at' = "prompt" /\ UNCHANGED <<turn, handCmd>>
    /\ UNCHANGED <<step, sent, task, tmp_cmd>>

-----------------------------------------------------------------------------
TaskNext ==
    \/ Follow
    \/ TestByHand \/ QuitTestByHand
    \/ (\E line \in Typed : TypesAngle(line) \/ TypesOutside(line))
    \/ TypesReset \/ TypesQuit \/ TypesNoNumber
    \/ SelfCheck \/ QuitSelfCheck \/ MovesJoint \/ MovesBack \/ PassEnds

TaskSpec == TaskInit /\ [][TaskNext]_taskVars

-----------------------------------------------------------------------------
(* Properties                                                              *)

\* A console task that ends leaves the hand at zero, whatever angles were typed
\* for whatever joints of the command, and a self check that waits for a command
\* has it there (quit and reset branches).  The two exceptions are in at: a word
\* that is no number ends the process with the hand as it is, and after an index
\* outside the command nothing can be said.
EndsAtRest ==
    (at = "ended" \/ (task = "self_check" /\ at = "prompt")) => hand = Zeros

\* The garbage of the uninitialised tmp_cmd is sent in the first pass only:
\* from the second pass on, a command of the self check bends one joint at
\* most, and spreads the fingers as one of the two templates says.
OneJointAtATime ==
    (task = "self_check" /\ tests > 0) =>
        /\ Cardinality({p \in Finger \X (Joint \ {LrDir}) : hand[p[1]][p[2]] # 0}) <= 1
        /\ \A f \in Finger : hand[f][LrDir] \in {0, SelfCheck1[f][LrDir], SelfCheck2[f][LrDir]}
=============================================================================
