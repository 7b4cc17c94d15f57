---------------------------- MODULE HandCommand ----------------------------
(***************************************************************************)
(* How LpV2SyncFFH shapes the command of a hand (src/task/lpV2SyncFfh.cpp: *)
(* parseConfig, calPubFingerAngle, postProcessHandCmd, sendInitHandData,   *)
(* publishFfhCmd).  An angle is a whole number of degrees or NaN; fingers  *)
(* and joints have the code's indices, finger 0 being the thumb.           *)
(***************************************************************************)
EXTENDS Integers

CONSTANTS
    NaN,            \* the float that is no number
    FingerNum,      \* fingerNum_
    BoneAngle,      \* what an angle between two vectors can come out as
    Garbage,        \* what the uninitialised command may hold in a place
    Valid,          \* hand ids with hand_Valid set; 0 is the left hand
    LowerLimits,    \* per valid hand, the lower_limits of its configuration
    UpperLimits     \* per valid hand, its upper_limits

Finger  == 0 .. FingerNum - 1
Joint   == 0 .. 3       \* Distal, FbDir, LrDir, ThumbPalm of FJIndex
Limited == 0 .. 2       \* the joints angleNum_ counts

Distal == 0
FbDir == 1
LrDir == 2
ThumbPalm == 3

Angle == Int \cup {NaN}

HandCmd == [Finger -> [Joint -> Angle]]
Limits  == [Finger -> [Limited -> Int]]

ASSUME NaNAssumption == NaN \notin Int
ASSUME FingerAssumption == FingerNum \in Nat /\ FingerNum >= 2
ASSUME AngleAssumption == BoneAngle \subseteq Angle /\ Garbage \subseteq Angle /\ 0 \in BoneAngle
ASSUME ValidAssumption == Valid \subseteq Nat /\ 0 \in Valid /\ \E h \in Valid : \A g \in Valid : g <= h
ASSUME LimitsAssumption ==
    /\ LowerLimits \in [Valid -> Limits] /\ UpperLimits \in [Valid -> Limits]

-----------------------------------------------------------------------------
\* parseConfig assigns the members in a loop over the hands: the limits of
\* the last valid hand stay, for every hand.
LastValid == CHOOSE h \in Valid : \A g \in Valid : g <= h

lowerLimits_ == LowerLimits[LastValid]
upperLimits_ == UpperLimits[LastValid]

\* A comparison with NaN is false.
Less(a, b) == a # NaN /\ b # NaN /\ a < b

\* Variant with a defect: the upper limit forgotten.
ClampLowOnly(a, lo, hi) == IF Less(a, lo) THEN lo ELSE a

Clamp(a, lo, hi) ==
    LET raised == IF Less(a, lo) THEN lo ELSE a
    IN  IF Less(hi, raised) THEN hi ELSE raised

Limit(cmd) ==
    [f \in Finger |-> [j \in Joint |->
        IF j \in Limited THEN Clamp(cmd[f][j], lowerLimits_[f][j], upperLimits_[f][j])
                         ELSE cmd[f][j]]]

\* Variants with a defect: max for min, a cap that is a step down.
AtLeast5(a) == IF Less(a, 5) THEN 5 ELSE a

Lower5(a) == IF Less(5, a) THEN a - 5 ELSE a

AtMost5(a) == IF Less(5, a) THEN 5 ELSE a

\* The thumb makes way for the index finger.
MakeWay(cmd) ==
    IF Less(20, cmd[1][Distal])
      THEN [cmd EXCEPT ![0] = [j \in Joint |->
                IF j \in {Distal, FbDir} THEN AtMost5(cmd[0][j]) ELSE cmd[0][j]]]
      ELSE cmd

PostProcess(cmd) == MakeWay(Limit(cmd))

Zeros == [f \in Finger |-> [j \in Joint |-> 0]]

-----------------------------------------------------------------------------
(* The angles of a hand.  A finger turned away from the palm gets zero.    *)
NotAway(a, away) == IF away THEN 0 ELSE a

\* Variant with a defect: the last angle doubled into the fourth place.
FingerAnglesDoubled(cmd, f, d, fb, lr) ==
    [cmd EXCEPT ![f] = [j \in Joint |-> IF j = Distal THEN d ELSE IF j = LrDir THEN lr ELSE fb]]

\* Fingers 1 to 4: three angles; the fourth place is never written.
FingerAngles(cmd, f, d, fb, lr) ==
    [cmd EXCEPT ![f] = [j \in Joint |->
        CASE j = Distal    -> d
          [] j = FbDir     -> fb
          [] j = LrDir     -> lr
          [] j = ThumbPalm -> cmd[f][j]]]

\* The thumb: its second joint repeats the first, its fourth is the palm
\* angle, with a negative one made zero.
ThumbAngles(cmd, d, lr, palm) ==
    [cmd EXCEPT ![0] = [j \in Joint |->
        CASE j \in {Distal, FbDir} -> d
          [] j = LrDir             -> lr
          [] j = ThumbPalm         -> IF Less(palm, 0) THEN 0 ELSE palm]]

-----------------------------------------------------------------------------
VARIABLES
    handCmd,    \* the member every command is built in
    step,       \* what runIteration does next: see Idle, Thumb and Publishing
    sent        \* what the last iteration published, as a set: empty during one

vars == <<handCmd, step, sent>>

Idle == 0                       \* between iterations; 1, 2, ... are fingers
Thumb == FingerNum
Publishing == FingerNum + 1

TypeOK ==
    /\ handCmd \in HandCmd
    /\ step \in Idle .. Publishing
    /\ sent \subseteq HandCmd /\ \A c, d \in sent : c = d

Init ==
    /\ handCmd \in [Finger -> [Joint -> Garbage]]
    /\ step = Idle
    /\ sent = {}

\* A confident left hand.
BeginHand == step = Idle /\ step' = 1 /\ sent' = {} /\ UNCHANGED handCmd

\* calFingerAdduction measures the angle between twice the same direction: 0,
\* or NaN when the palm's normal is the zero vector.
Adduction == {0} \cup (BoneAngle \cap {NaN})

DoFinger(f) ==
    /\ step = f
    /\ \E d, fb \in BoneAngle, lr \in Adduction, dAway, fbAway, lrAway \in BOOLEAN :
         handCmd' = FingerAngles(handCmd, f, NotAway(d, dAway), NotAway(fb, fbAway), NotAway(lr, lrAway))
    /\ step' = f + 1
    /\ UNCHANGED sent

DoThumb ==
    /\ step = Thumb
    /\ \E d, palm \in BoneAngle, lr \in Adduction, away \in BOOLEAN :
         handCmd' = ThumbAngles(handCmd, NotAway(d, away), NotAway(lr, away), palm)
    /\ step' = Publishing
    /\ UNCHANGED sent

\* publishFfhCmd(left_hand): post-process in place, send.
Publish ==
    /\ step = Publishing
    /\ handCmd' = PostProcess(handCmd)
    /\ sent' = {handCmd'}
    /\ step' = Idle

\* sendInitHandData: no hand, a hand not believable, or no connection.
SendInit ==
    /\ step = Idle
    /\ handCmd' = PostProcess(Zeros)
    /\ sent' = {handCmd'}
    /\ UNCHANGED step

Next ==
    \/ BeginHand
    \/ \E f \in 1 .. FingerNum - 1 : DoFinger(f)
    \/ DoThumb
    \/ Publish
    \/ SendInit

Spec == Init /\ [][Next]_vars

-----------------------------------------------------------------------------
(* Properties                                                              *)

\* What a configuration must satisfy for the two limit rules to agree: no
\* empty interval, and a thumb that is allowed to be at 5 degrees.
SaneLimits ==
    /\ \A f \in Finger, j \in Limited : lowerLimits_[f][j] <= upperLimits_[f][j]
    /\ lowerLimits_[0][Distal] <= 5 /\ lowerLimits_[0][FbDir] <= 5

InLimits(cmd) ==
    \A f \in Finger, j \in Limited :
        cmd[f][j] # NaN => /\ lowerLimits_[f][j] <= cmd[f][j]
                           /\ cmd[f][j] <= upperLimits_[f][j]

\* Every angle sent that is a number is within the limits the task holds,
\* the special rule for the thumb included (postProcessHandCmd).
SentInLimits == SaneLimits => \A cmd \in sent : InLimits(cmd)

\* Whenever the index finger is sent bent beyond 20 degrees, the thumb is sent
\* at no more than 5 in its two bending joints, whatever either was before.
ThumbMakesWay ==
    \A cmd \in sent :
        Less(20, cmd[1][Distal]) => ~Less(5, cmd[0][Distal]) /\ ~Less(5, cmd[0][FbDir])

\* Processing a command that was processed before changes nothing, so the
\* command left in handCmd can be published again.
Processed == \A cmd \in sent : PostProcess(cmd) = cmd

\* The place calPubFingerAngle never writes in fingers 1 to 4 holds what the
\* uninitialised member held until the first open command, and zero for ever
\* after it.
FourthPlaceSettles ==
    [][\A f \in 1 .. FingerNum - 1 :
          handCmd'[f][ThumbPalm] # handCmd[f][ThumbPalm] => handCmd'[f][ThumbPalm] = 0]_vars
=============================================================================
