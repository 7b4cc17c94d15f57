--------------------------- MODULE HandTaskProofs ---------------------------
(***************************************************************************)
(* Theorems about the three tasks, for any number of fingers, any garbage, *)
(* any templates and any typed line: what the console tasks leave the hand *)
(* in, what the self check bends, and where the fourth place settles.      *)
(***************************************************************************)
EXTENDS HandTask, HandCommandProofs, FiniteSetTheorems

\* Which task is where.
PlaceInv ==
    /\ task \in {"leap_motion_demo", "test_by_hand", "self_check"}
    /\ at \in {"run", "prompt", "typing", "joint", "back", "passed", "ended", "terminated",
              "corrupted"}
    /\ at = "run" => task = "leap_motion_demo"
    /\ at = "typing" => task = "test_by_hand"
    /\ at \in {"joint", "back", "passed"} => task = "self_check"

\* How far the self check is.  Its first pass comes first.
TurnInv ==
    /\ turn \in [pass : {1, 2}, i : 0 .. FingerNum, j : Joint]
    /\ at \in {"joint", "back"} => turn.i < FingerNum
    /\ at = "passed" => turn.i = FingerNum
    /\ tests \in 0 .. 2
    /\ tests = 0 => turn.pass = 1
    /\ tmp_cmd \in HandCmd

\* A place is settled once the self check has been there: at zero, or spread
\* as a template says.
Settled(f, j) ==
    \/ tests > 0
    \/ f < turn.i
    \/ f = turn.i /\ j < turn.j
    \/ at = "back" /\ f = TurnFinger /\ j = turn.j

Bent(f, j) == at = "back" /\ f = TurnFinger /\ j = turn.j /\ j # LrDir

Clean(f, j) ==
    IF j = LrDir THEN tmp_cmd[f][j] \in {SelfCheck1[f][j], SelfCheck2[f][j]}
                 ELSE tmp_cmd[f][j] = 0

CleanInv ==
    \A f \in Finger, j \in Joint : Settled(f, j) /\ ~Bent(f, j) => Clean(f, j)

\* What the hand was sent last.
HandInv == hand = Zeros \/ hand = tmp_cmd

CheckInv == task = "self_check" => CleanInv /\ HandInv

TaskInv == PlaceInv /\ TurnInv /\ EndsAtRest /\ CheckInv

-----------------------------------------------------------------------------
LEMMA Numbers ==
    /\ FingerNum \in Nat /\ FingerNum >= 2 /\ Finger = 0 .. FingerNum - 1
    /\ Joint = 0 .. 3 /\ Limited = 0 .. 2 /\ LrDir = 2 /\ ThumbPalm = 3
BY FingerAssumption DEF Finger, Joint, Limited, LrDir, ThumbPalm

LEMMA Turning ==
    ASSUME TurnInv, turn.i < FingerNum
    PROVE  TurnFinger \in Finger /\ turn.j \in Joint /\ turn.i \in Finger
           /\ (tests = 0 => TurnFinger = turn.i)
BY Numbers DEF TurnInv, TurnFinger

LEMMA TemplateIs ==
    ASSUME TurnInv, turn.i < FingerNum, NEW a \in TemplateAngle
    PROVE  /\ a \in Angle
           /\ turn.j = LrDir => a \in {SelfCheck1[TurnFinger][LrDir], SelfCheck2[TurnFinger][LrDir]}
<1>1. TurnFinger \in Finger /\ turn.j \in Joint
  BY Turning
<1>2. CASE turn.j \in Limited
  <2>1. a = SelfCheck1[TurnFinger][turn.j] \/ a = SelfCheck2[TurnFinger][turn.j]
    BY <1>2 DEF TemplateAngle, Template
  <2>2. a \in Int
    BY <1>1, <1>2, <2>1, TemplateAssumption DEF Limits
  <2>3. QED
    BY <2>1, <2>2 DEF Angle
<1>3. CASE turn.j \notin Limited
  BY <1>3, AngleAssumption, Numbers DEF TemplateAngle
<1>4. QED
  BY <1>2, <1>3

-----------------------------------------------------------------------------
LEMMA TaskInvInit == TaskInit => TaskInv
<1> SUFFICES ASSUME TaskInit PROVE TaskInv
  OBVIOUS
<1> USE Numbers DEF TaskInit
<1>1. PlaceInv
  BY TaskAssumption DEF PlaceInv
<1>2. ASSUME NEW c \in [Finger -> [Joint -> Garbage]] PROVE c \in HandCmd
  BY <1>2, AngleAssumption DEF HandCmd
<1>3. tmp_cmd \in HandCmd
  BY <1>2, ZerosType
<1>4. TurnInv
  BY <1>3 DEF TurnInv
<1>5. EndsAtRest /\ HandInv
  BY DEF EndsAtRest, HandInv
<1>6. CleanInv
  BY DEF CleanInv, Settled
<1>7. QED
  BY <1>1, <1>4, <1>5, <1>6 DEF TaskInv, CheckInv

LEMMA MovesJointStep == TaskInv /\ MovesJoint => TaskInv'
<1> SUFFICES ASSUME TaskInv, MovesJoint PROVE TaskInv'
  OBVIOUS
<1>1. PICK a \in TemplateAngle : tmp_cmd' = [tmp_cmd EXCEPT ![TurnFinger][turn.j] = a]
  BY DEF MovesJoint
<1>2. /\ at = "joint" /\ at' = "back" /\ hand' = tmp_cmd' /\ task = "self_check"
      /\ UNCHANGED <<task, turn, tests>> /\ turn.i < FingerNum /\ TurnInv /\ CleanInv
  BY DEF MovesJoint, TaskInv, PlaceInv, TurnInv, CheckInv
<1>3. /\ TurnFinger \in Finger /\ turn.j \in Joint /\ tmp_cmd \in HandCmd
      /\ a \in Angle /\ TurnFinger' = TurnFinger
  BY <1>2, Turning, TemplateIs DEF TurnInv, TurnFinger
<1>4. /\ tmp_cmd' \in HandCmd /\ tmp_cmd'[TurnFinger][turn.j] = a
      /\ \A f \in Finger, j \in Joint :
           ~(f = TurnFinger /\ j = turn.j) => tmp_cmd'[f][j] = tmp_cmd[f][j]
  BY <1>1, <1>3 DEF HandCmd
<1>5. PlaceInv' /\ TurnInv' /\ EndsAtRest' /\ HandInv'
  BY <1>2, <1>4 DEF TaskInv, PlaceInv, TurnInv, EndsAtRest, HandInv
<1>6. CleanInv'
  <2> SUFFICES ASSUME NEW f \in Finger, NEW j \in Joint, Settled(f, j)', ~Bent(f, j)'
               PROVE  Clean(f, j)'
    BY DEF CleanInv
  <2>1. CASE f = TurnFinger /\ j = turn.j
    <3>1. j = LrDir
      BY <1>2, <1>3, <2>1 DEF Bent
    <3>2. QED
      BY <1>2, <1>4, <2>1, <3>1, TemplateIs DEF Clean
  <2>2. CASE ~(f = TurnFinger /\ j = turn.j)
    <3>1. Settled(f, j) /\ ~Bent(f, j)
      BY <1>2, <1>3, <2>2 DEF Settled, Bent
    <3>2. Clean(f, j)
      BY <1>2, <3>1 DEF CleanInv
    <3>3. QED
      BY <1>4, <2>2, <3>2 DEF Clean
  <2>3. QED
    BY <2>1, <2>2
<1>7. QED
  BY <1>5, <1>6 DEF TaskInv, CheckInv

LEMMA MovesBackStep == TaskInv /\ MovesBack => TaskInv'
<1> SUFFICES ASSUME TaskInv, MovesBack PROVE TaskInv'
  OBVIOUS
<1> USE Numbers
<1>1. /\ at = "back" /\ hand' = tmp_cmd' /\ task = "self_check"
      /\ UNCHANGED <<task, tests>> /\ turn.i < FingerNum /\ TurnInv /\ CleanInv /\ NextTurn
      /\ tmp_cmd' = IF StaysPut THEN tmp_cmd ELSE [tmp_cmd EXCEPT ![TurnFinger][turn.j] = 0]
  BY DEF MovesBack, TaskInv, PlaceInv, TurnInv, CheckInv
<1>2. /\ TurnFinger \in Finger /\ turn.j \in Joint /\ turn.i \in Finger /\ tmp_cmd \in HandCmd
      /\ tests = 0 => TurnFinger = turn.i
  BY <1>1, Turning DEF TurnInv
<1>3. /\ tmp_cmd' \in HandCmd
      /\ turn.j # LrDir => tmp_cmd'[TurnFinger][turn.j] = 0
      /\ turn.j = LrDir => tmp_cmd' = tmp_cmd
      /\ \A f \in Finger, j \in Joint :
           ~(f = TurnFinger /\ j = turn.j) => tmp_cmd'[f][j] = tmp_cmd[f][j]
  BY <1>1, <1>2 DEF HandCmd, StaysPut, Angle
<1>4. /\ turn' \in [pass : {1, 2}, i : 0 .. FingerNum, j : Joint] /\ turn'.pass = turn.pass
      /\ \/ turn.j < 3 /\ turn'.j = turn.j + 1 /\ turn'.i = turn.i /\ at' = "joint"
         \/ /\ turn.j = 3 /\ turn'.j = 0 /\ turn'.i = turn.i + 1
            /\ at' = IF turn.i + 1 < FingerNum THEN "joint" ELSE "passed"
  <2>1. turn = [pass |-> turn.pass, i |-> turn.i, j |-> turn.j] /\ turn.pass \in {1, 2}
    BY <1>1 DEF TurnInv
  <2>2. CASE turn.j < ThumbPalm
    <3>1. turn' = [pass |-> turn.pass, i |-> turn.i, j |-> turn.j + 1] /\ at' = "joint"
      BY <1>1, <2>1, <2>2 DEF NextTurn
    <3>2. turn.j + 1 \in Joint /\ turn.i \in 0 .. FingerNum
      BY <1>2, <2>2
    <3>3. QED
      BY <2>1, <2>2, <3>1, <3>2
  <2>3. CASE ~(turn.j < ThumbPalm)
    <3>1. turn' = [pass |-> turn.pass, i |-> turn.i + 1, j |-> 0]
      BY <1>1, <2>1, <2>3 DEF NextTurn
    <3>2. turn.j = 3 /\ 0 \in Joint /\ turn.i + 1 \in 0 .. FingerNum
      BY <1>2, <2>3
    <3>3. at' = IF turn.i + 1 < FingerNum THEN "joint" ELSE "passed"
      BY <1>1, <2>3 DEF NextTurn
    <3>4. QED
      BY <2>1, <3>1, <3>2, <3>3
  <2>4. QED
    BY <2>2, <2>3
<1>5. PlaceInv' /\ EndsAtRest' /\ HandInv'
  BY <1>1, <1>4 DEF TaskInv, PlaceInv, EndsAtRest, HandInv
<1>6. TurnInv'
  BY <1>1, <1>2, <1>3, <1>4 DEF TurnInv
<1>7. CleanInv'
  <2>0. SUFFICES ASSUME NEW f \in Finger, NEW j \in Joint, Settled(f, j)'
                 PROVE  Clean(f, j)'
    BY DEF CleanInv
  <2>1. Settled(f, j)
    <3>1. CASE tests = 0
      <4>1. f < turn'.i \/ (f = turn'.i /\ j < turn'.j)
        <5>1. tests' = 0 /\ at' # "back"
          BY <1>1, <1>4, <3>1
        <5>2. tests' > 0 \/ f < turn'.i \/ (f = turn'.i /\ j < turn'.j) \/ at' = "back"
          BY <2>0 DEF Settled
        <5>3. QED
          BY <5>1, <5>2
      <4>0. f \in Int /\ turn.i \in Int /\ j \in 0 .. 3 /\ turn.j \in 0 .. 3
        BY <1>2
      <4>2. f < turn.i \/ (f = turn.i /\ j <= turn.j)
        <5>1. CASE turn'.j = turn.j + 1 /\ turn'.i = turn.i
          BY <4>0, <4>1, <5>1
        <5>2. CASE turn.j = 3 /\ turn'.j = 0 /\ turn'.i = turn.i + 1
          BY <4>0, <4>1, <5>2
        <5>3. QED
          BY <1>4, <5>1, <5>2
      <4>3. QED
        BY <1>1, <1>2, <3>1, <4>2 DEF Settled
    <3>2. CASE tests # 0
      BY <1>1, <3>2 DEF Settled, TurnInv
    <3>3. QED
      BY <3>1, <3>2
  <2>2. CASE f = TurnFinger /\ j = turn.j /\ j # LrDir
    BY <1>3, <2>2 DEF Clean
  <2>3. CASE ~(f = TurnFinger /\ j = turn.j /\ j # LrDir)
    <3>1. Clean(f, j)
      BY <1>1, <2>1, <2>3 DEF CleanInv, Bent
    <3>2. tmp_cmd'[f][j] = tmp_cmd[f][j]
      BY <1>3, <2>3
    <3>3. QED
      BY <3>1, <3>2 DEF Clean
  <2>4. QED
    BY <2>2, <2>3
<1>8. QED
  BY <1>5, <1>6, <1>7 DEF TaskInv, CheckInv

LEMMA PassEndsStep == TaskInv /\ PassEnds => TaskInv'
<1> SUFFICES ASSUME TaskInv, PassEnds PROVE TaskInv'
  OBVIOUS
<1> USE Numbers
<1>1. /\ at = "passed" /\ hand' = Zeros /\ task = "self_check" /\ UNCHANGED <<task, tmp_cmd>>
      /\ tests' = (IF tests < 2 THEN tests + 1 ELSE 2)
      /\ turn.i = FingerNum /\ TurnInv /\ CleanInv
      /\ at' \in {"joint", "prompt"}
      /\ turn' = turn \/ turn' = [pass |-> 2, i |-> 0, j |-> 0]
      /\ at' = "joint" => turn' = [pass |-> 2, i |-> 0, j |-> 0]
  BY DEF PassEnds, TaskInv, PlaceInv, TurnInv, CheckInv
<1>2. \A f \in Finger, j \in Joint : Clean(f, j)
  BY <1>1 DEF CleanInv, Settled, Bent
<1>3. PlaceInv' /\ EndsAtRest' /\ HandInv'
  BY <1>1 DEF TaskInv, PlaceInv, EndsAtRest, HandInv
<1>4. TurnInv'
  BY <1>1 DEF TurnInv
<1>5. CleanInv'
  BY <1>1, <1>2 DEF CleanInv, Clean
<1>6. QED
  BY <1>3, <1>4, <1>5 DEF TaskInv, CheckInv

LEMMA SelfCheckStep == TaskInv /\ SelfCheck => TaskInv'
<1> SUFFICES ASSUME TaskInv, SelfCheck PROVE TaskInv'
  OBVIOUS
<1> USE Numbers
<1>1. /\ at = "prompt" /\ at' = "joint" /\ hand' = Zeros /\ task = "self_check"
      /\ UNCHANGED <<task, tmp_cmd, tests>> /\ turn' = [pass |-> 1, i |-> 0, j |-> 0]
      /\ TurnInv /\ CleanInv
  BY DEF SelfCheck, TaskInv, CheckInv
<1>2. PlaceInv' /\ EndsAtRest' /\ HandInv' /\ TurnInv'
  BY <1>1 DEF TaskInv, PlaceInv, EndsAtRest, HandInv, TurnInv
<1>3. CleanInv'
  <2> SUFFICES ASSUME NEW f \in Finger, NEW j \in Joint, Settled(f, j)' PROVE Clean(f, j)'
    BY DEF CleanInv
  <2>1. tests > 0
    BY <1>1 DEF Settled
  <2>2. Clean(f, j)
    BY <1>1, <2>1 DEF CleanInv, Settled, Bent
  <2>3. QED
    BY <1>1, <2>2 DEF Clean
<1>4. QED
  BY <1>2, <1>3 DEF TaskInv, CheckInv

\* The steps of the other two tasks, and the ones that only leave the prompt.
LEMMA OtherStep ==
    ASSUME TaskInv, UNCHANGED <<task, tmp_cmd, turn, tests>>,
           PlaceInv', at' \notin {"joint", "back", "passed"},
           task = "self_check" => at # "back" /\ hand' = hand,
           EndsAtRest'
    PROVE  TaskInv'
<1>1. TurnInv'
  BY DEF TaskInv, TurnInv
<1>2. ASSUME task = "self_check" PROVE CleanInv' /\ HandInv'
  <2>1. CleanInv /\ HandInv /\ at # "back" /\ at' # "back" /\ hand' = hand
    BY <1>2 DEF TaskInv, CheckInv
  <2>2. HandInv'
    BY <2>1 DEF HandInv
  <2>3. ASSUME NEW f \in Finger, NEW j \in Joint, Settled(f, j)' PROVE Clean(f, j)'
    <3>1. Clean(f, j)
      BY <2>1, <2>3 DEF CleanInv, Settled, Bent
    <3>2. QED
      BY <3>1 DEF Clean
  <2>4. QED
    BY <2>2, <2>3 DEF CleanInv
<1>3. QED
  BY <1>1, <1>2 DEF TaskInv, CheckInv

LEMMA TaskInvStep == TaskInv /\ [TaskNext]_taskVars => TaskInv'
<1> SUFFICES ASSUME TaskInv, [TaskNext]_taskVars PROVE TaskInv'
  OBVIOUS
<1> USE DEF PlaceInv, EndsAtRest
<1>0. PlaceInv /\ EndsAtRest
  BY DEF TaskInv
<1>1. CASE Follow
  BY <1>0, <1>1, OtherStep DEF Follow
<1>2. CASE TestByHand \/ TypesQuit
  BY <1>0, <1>2, OtherStep DEF TestByHand, TypesQuit
<1>3. CASE QuitTestByHand \/ TypesReset
  BY <1>0, <1>3, OtherStep DEF QuitTestByHand, TypesReset
<1>4. CASE (\E line \in Typed : TypesAngle(line) \/ TypesOutside(line)) \/ TypesNoNumber
  BY <1>0, <1>4, OtherStep DEF TypesAngle, TypesOutside, TypesNoNumber
<1>5. CASE QuitSelfCheck
  BY <1>0, <1>5, OtherStep DEF QuitSelfCheck
<1>6. CASE SelfCheck \/ MovesJoint \/ MovesBack \/ PassEnds
  BY <1>6, SelfCheckStep, MovesJointStep, MovesBackStep, PassEndsStep
<1>7. CASE UNCHANGED taskVars
  <2>1. UNCHANGED <<task, at, tmp_cmd, hand, turn, tests>>
    BY <1>7 DEF taskVars
  <2>2. QED
    BY <2>1 DEF TaskInv, TurnInv, CheckInv, CleanInv, HandInv, Settled, Bent, Clean, TurnFinger
<1>8. QED
  BY <1>1, <1>2, <1>3, <1>4, <1>5, <1>6, <1>7 DEF TaskNext

LEMMA TaskInvariance == TaskSpec => []TaskInv
BY TaskInvInit, TaskInvStep, PTL DEF TaskSpec

-----------------------------------------------------------------------------
\* Quitting a console task leaves the hand at zero, whatever angles were typed
\* for whatever joints of the command; a typed index that writes outside the
\* command may leave the program undefined, and of that nothing is claimed.
THEOREM TasksEndAtRest == TaskSpec => []EndsAtRest
<1>1. TaskInv => EndsAtRest
  BY DEF TaskInv
<1>2. QED
  BY TaskInvariance, <1>1, PTL

\* After its first pass the self check never bends two joints at once, though
\* its command starts as garbage and is never cleared as a whole.
THEOREM OneJointBends == TaskSpec => []OneJointAtATime
<1>1. TaskInv => OneJointAtATime
  <2> SUFFICES ASSUME TaskInv, task = "self_check", tests > 0
               PROVE  /\ Cardinality({p \in Finger \X (Joint \ {LrDir}) : hand[p[1]][p[2]] # 0}) <= 1
                      /\ \A f \in Finger : hand[f][LrDir] \in {0, SelfCheck1[f][LrDir], SelfCheck2[f][LrDir]}
    BY DEF OneJointAtATime
  <2> DEFINE bent == {p \in Finger \X (Joint \ {LrDir}) : hand[p[1]][p[2]] # 0}
  <2>1. CleanInv /\ HandInv
    BY DEF TaskInv, CheckInv
  <2>2. \A f \in Finger, j \in Joint : ~Bent(f, j) => Clean(f, j)
    BY <2>1 DEF CleanInv, Settled
  <2>3. LrDir \in Joint
    BY Numbers
  <2>4. \A f \in Finger : hand[f][LrDir] \in {0, SelfCheck1[f][LrDir], SelfCheck2[f][LrDir]}
    <3>1. CASE hand = Zeros
      BY <2>3, <3>1 DEF Zeros
    <3>2. CASE hand = tmp_cmd
      BY <2>2, <2>3, <3>2 DEF Clean, Bent
    <3>3. QED
      BY <2>1, <3>1, <3>2 DEF HandInv
  <2>5. bent \subseteq {<<TurnFinger, turn.j>>}
    <3>1. CASE hand = Zeros
      BY <3>1 DEF Zeros
    <3>2. CASE hand = tmp_cmd
      BY <2>2, <3>2 DEF Clean, Bent
    <3>3. QED
      BY <2>1, <3>1, <3>2 DEF HandInv
  <2>6. IsFiniteSet({<<TurnFinger, turn.j>>}) /\ Cardinality({<<TurnFinger, turn.j>>}) = 1
    BY FS_Singleton
  <2>7. Cardinality(bent) <= 1
    BY <2>5, <2>6, FS_Subset
  <2>8. QED
    BY <2>4, <2>7
<1>2. QED
  BY TaskInvariance, <1>1, PTL

-----------------------------------------------------------------------------
(* The command of HandCommand under every task                             *)
LEMMA CommandSteps ==
    [TaskNext]_taskVars => \/ [Next]_vars
                           \/ UNCHANGED <<step, sent>> /\ handCmd' \in {handCmd, Zeros}
<1>1. SelfCheck \/ PassEnds => UNCHANGED <<step, sent>> /\ handCmd' \in {handCmd, Zeros}
  BY DEF SelfCheck, PassEnds
<1>2. [TaskNext]_taskVars => [Next]_vars \/ SelfCheck \/ PassEnds
  BY DEF TaskNext, taskVars, Follow, TestByHand, QuitTestByHand, TypesAngle, TypesOutside, TypesReset,
     TypesQuit, TypesNoNumber, QuitSelfCheck, MovesJoint, MovesBack
<1>3. QED
  BY <1>1, <1>2

LEMMA CommandInvariance == TaskSpec => [](TypeOK /\ SentIsProcessed)
<1>1. TaskInit => TypeOK /\ SentIsProcessed
  <2>1. Init => TypeOK
    BY AngleAssumption, FingerAssumption DEF Init, TypeOK, HandCmd, Idle, Publishing
  <2>2. QED
    BY <2>1 DEF TaskInit, Init, SentIsProcessed
<1>2. TypeOK /\ SentIsProcessed /\ [TaskNext]_taskVars => (TypeOK /\ SentIsProcessed)'
  <2> SUFFICES ASSUME TypeOK, SentIsProcessed, [TaskNext]_taskVars
               PROVE  (TypeOK /\ SentIsProcessed)'
    OBVIOUS
  <2>1. CASE [Next]_vars
    BY <2>1, TypeStep, SentStep
  <2>2. CASE UNCHANGED <<step, sent>> /\ handCmd' \in {handCmd, Zeros}
    BY <2>2, ZerosType DEF TypeOK, SentIsProcessed
  <2>3. QED
    BY <2>1, <2>2, CommandSteps
<1>3. QED
  BY <1>1, <1>2, PTL DEF TaskSpec

\* Post-processing leaves the fourth place of the fingers alone.
LEMMA ProcessedPlace ==
    ASSUME NEW cmd \in HandCmd, NEW f \in 1 .. FingerNum - 1
    PROVE  PostProcess(cmd)[f][ThumbPalm] = cmd[f][ThumbPalm]
<1>1. f \in Finger /\ f # 0 /\ ThumbPalm \in Joint /\ ThumbPalm \notin Limited
  BY Numbers
<1>2. Limit(cmd)[f][ThumbPalm] = cmd[f][ThumbPalm]
  BY <1>1, LimitJoint
<1>3. MakeWay(Limit(cmd))[f][ThumbPalm] = Limit(cmd)[f][ThumbPalm]
  BY <1>1, LimitType, MakeWayJoint
<1>4. QED
  BY <1>2, <1>3 DEF PostProcess

\* The fourth place of fingers 1 to 4 keeps the garbage of the uninitialised
\* member until the first open command and is zero ever after, for any number
\* of fingers and in every task: calPubFingerAngle never writes it.
THEOREM FourthPlaceKept == TaskSpec => FourthPlaceSettles
<1> DEFINE Settles(f) ==
        handCmd'[f][ThumbPalm] # handCmd[f][ThumbPalm] => handCmd'[f][ThumbPalm] = 0
<1>1. TypeOK /\ [TaskNext]_taskVars => [\A f \in 1 .. FingerNum - 1 : Settles(f)]_vars
  <2> SUFFICES ASSUME TypeOK, [TaskNext]_taskVars, NEW f \in 1 .. FingerNum - 1
               PROVE  Settles(f)
    BY DEF vars
  <2>0. handCmd \in HandCmd /\ f \in Finger /\ f # 0 /\ ThumbPalm \in Joint
    BY Numbers DEF TypeOK
  <2>1. Zeros[f][ThumbPalm] = 0
    BY <2>0 DEF Zeros
  <2>2. CASE UNCHANGED handCmd \/ handCmd' = Zeros
    BY <2>1, <2>2
  <2>3. ASSUME NEW g \in 1 .. FingerNum - 1, DoFinger(g) PROVE Settles(f)
    <3>1. PICK d, fb, lr : handCmd' = FingerAngles(handCmd, g, d, fb, lr)
      BY <2>3 DEF DoFinger
    <3>2. handCmd'[f][ThumbPalm] = handCmd[f][ThumbPalm]
      BY <2>0, <3>1 DEF FingerAngles, HandCmd, Distal, FbDir, LrDir, ThumbPalm
    <3>3. QED
      BY <3>2
  <2>4. CASE DoThumb
    <3>1. PICK d, lr, palm : handCmd' = ThumbAngles(handCmd, d, lr, palm)
      BY <2>4 DEF DoThumb
    <3>2. QED
      BY <2>0, <3>1 DEF ThumbAngles, HandCmd
  <2>5. CASE Publish \/ SendInit
    <3>1. PostProcess(handCmd)[f][ThumbPalm] = handCmd[f][ThumbPalm]
          /\ PostProcess(Zeros)[f][ThumbPalm] = 0
      BY <2>0, <2>1, ZerosType, ProcessedPlace
    <3>2. QED
      BY <2>5, <3>1 DEF Publish, SendInit
  <2>6. QED
    BY <2>2, <2>3, <2>4, <2>5, CommandSteps DEF Next, vars, BeginHand
<1>2. QED
  BY <1>1, CommandInvariance, PTL DEF TaskSpec, FourthPlaceSettles
=============================================================================
