------------------------- MODULE HandCommandProofs -------------------------
(***************************************************************************)
(* Theorems about the command of a hand, for any number of fingers, any    *)
(* angles and any limits.                                                  *)
(***************************************************************************)
EXTENDS HandCommand, TLAPS

LEMMA SharedLimits == lowerLimits_ \in Limits /\ upperLimits_ \in Limits
<1>1. LastValid \in Valid
  BY ValidAssumption DEF LastValid
<1>2. QED
  BY <1>1, LimitsAssumption DEF lowerLimits_, upperLimits_

LEMMA LimitAt ==
    ASSUME NEW f \in Finger, NEW j \in Limited
    PROVE  lowerLimits_[f][j] \in Int /\ upperLimits_[f][j] \in Int
BY SharedLimits DEF Limits

\* Clamping keeps an angle an angle, brings a number between the bounds and
\* has no further effect the second time.
LEMMA ClampType ==
    ASSUME NEW a \in Angle, NEW lo \in Int, NEW hi \in Int
    PROVE  Clamp(a, lo, hi) \in Angle
BY DEF Clamp, Less, Angle

LEMMA ClampBounds ==
    ASSUME NEW a \in Angle, NEW lo \in Int, NEW hi \in Int,
           lo <= hi, Clamp(a, lo, hi) # NaN
    PROVE  lo <= Clamp(a, lo, hi) /\ Clamp(a, lo, hi) <= hi
BY NaNAssumption DEF Clamp, Less, Angle

LEMMA ClampTwice ==
    ASSUME NEW a \in Angle, NEW lo \in Int, NEW hi \in Int
    PROVE  Clamp(Clamp(a, lo, hi), lo, hi) = Clamp(a, lo, hi)
BY NaNAssumption DEF Clamp, Less, Angle

\* The limit of the thumb after the clamp: clamping and capping again changes
\* nothing, even when the lower limit is above the cap.
LEMMA CapAfterClamp ==
    ASSUME NEW a \in Angle, NEW lo \in Int, NEW hi \in Int
    PROVE  AtMost5(Clamp(AtMost5(Clamp(a, lo, hi)), lo, hi)) = AtMost5(Clamp(a, lo, hi))
<1> DEFINE c == Clamp(a, lo, hi)
<1>1. c \in Angle /\ Clamp(c, lo, hi) = c
  BY ClampType, ClampTwice
<1>2. CASE ~Less(5, c)
  BY <1>1, <1>2 DEF AtMost5
<1>3. CASE Less(5, c)
  <2>1. c \in Int /\ 5 < c /\ AtMost5(c) = 5
    BY <1>1, <1>3 DEF AtMost5, Less, Angle
  <2>2. c <= hi
    BY <2>1, NaNAssumption DEF Clamp, Less, Angle
  <2>3. Clamp(5, lo, hi) \in Int /\ 5 <= Clamp(5, lo, hi)
    <3> HIDE DEF c
    <3>1. 5 # NaN /\ lo # NaN /\ hi # NaN
      BY NaNAssumption
    <3>2. QED
      BY <2>1, <2>2, <3>1 DEF Clamp, Less
  <2>4. AtMost5(Clamp(5, lo, hi)) = 5
    <3> DEFINE k == Clamp(5, lo, hi)
    <3> HIDE DEF k
    <3>1. k \in Int /\ 5 <= k
      BY <2>3 DEF k
    <3>2. AtMost5(k) = 5
      BY <3>1, NaNAssumption DEF AtMost5, Less
    <3>3. QED
      BY <3>2 DEF k
  <2>5. QED
    BY <2>1, <2>4
<1>4. QED
  BY <1>2, <1>3

LEMMA AtMost5Type == ASSUME NEW a \in Angle PROVE AtMost5(a) \in Angle
BY DEF AtMost5, Angle

LEMMA Indices == {0, 1} \subseteq Finger /\ 0 \in Limited /\ 1 \in Limited /\ Limited \subseteq Joint
BY FingerAssumption DEF Finger, Limited, Joint

LEMMA LimitType == ASSUME NEW cmd \in HandCmd PROVE Limit(cmd) \in HandCmd
<1> SUFFICES ASSUME NEW f \in Finger, NEW j \in Joint
             PROVE  (IF j \in Limited THEN Clamp(cmd[f][j], lowerLimits_[f][j], upperLimits_[f][j])
                                      ELSE cmd[f][j]) \in Angle
  BY DEF Limit, HandCmd
<1>1. cmd[f][j] \in Angle
  BY DEF HandCmd
<1>2. CASE j \in Limited
  BY <1>1, <1>2, LimitAt, ClampType
<1>3. CASE j \notin Limited
  BY <1>1, <1>3
<1>4. QED
  BY <1>2, <1>3

LEMMA MakeWayType == ASSUME NEW cmd \in HandCmd PROVE MakeWay(cmd) \in HandCmd
<1> DEFINE thumb == [j \in Joint |->
                IF j \in {Distal, FbDir} THEN AtMost5(cmd[0][j]) ELSE cmd[0][j]]
<1>1. cmd[0] \in [Joint -> Angle]
  BY Indices DEF HandCmd
<1>2. thumb \in [Joint -> Angle]
  BY <1>1, AtMost5Type
<1>3. [cmd EXCEPT ![0] = thumb] \in HandCmd
  BY <1>2 DEF HandCmd
<1>4. QED
  BY <1>3 DEF MakeWay

LEMMA PostProcessType == ASSUME NEW cmd \in HandCmd PROVE PostProcess(cmd) \in HandCmd
BY LimitType, MakeWayType DEF PostProcess

LEMMA ZerosType == Zeros \in HandCmd
BY DEF Zeros, HandCmd, Angle

-----------------------------------------------------------------------------
LEMMA TypeStep == TypeOK /\ [Next]_vars => TypeOK'
<1> USE FingerAssumption DEF Idle, Thumb, Publishing
<1> SUFFICES ASSUME TypeOK, [Next]_vars PROVE TypeOK'
  OBVIOUS
<1>0. \A a \in BoneAngle, away \in BOOLEAN : NotAway(a, away) \in Angle
  BY AngleAssumption DEF NotAway, Angle
<1>00. \A a \in Adduction, away \in BOOLEAN : NotAway(a, away) \in Angle
  BY DEF NotAway, Angle, Adduction
<1>1. CASE BeginHand
  BY <1>1 DEF BeginHand, TypeOK
<1>2. ASSUME NEW f \in 1 .. FingerNum - 1, DoFinger(f) PROVE TypeOK'
  <2>1. PICK d, fb \in BoneAngle, lr \in Adduction, dAway, fbAway, lrAway \in BOOLEAN :
          handCmd' = FingerAngles(handCmd, f, NotAway(d, dAway), NotAway(fb, fbAway), NotAway(lr, lrAway))
    BY <1>2 DEF DoFinger
  <2>2. ASSUME NEW x \in Angle, NEW y \in Angle, NEW z \in Angle
        PROVE  FingerAngles(handCmd, f, x, y, z) \in HandCmd
    <3> DEFINE g == [j \in Joint |->
                  CASE j = Distal    -> x
                    [] j = FbDir     -> y
                    [] j = LrDir     -> z
                    [] j = ThumbPalm -> handCmd[f][j]]
    <3>1. handCmd \in HandCmd /\ f \in Finger
      BY DEF TypeOK, Finger
    <3>2. g \in [Joint -> Angle]
      BY <3>1 DEF HandCmd, Joint, Distal, FbDir, LrDir, ThumbPalm
    <3>3. QED
      BY <3>1, <3>2 DEF FingerAngles, HandCmd
  <2>3. handCmd' \in HandCmd
    BY <2>1, <2>2, <1>0, <1>00
  <2>4. QED
    BY <1>2, <2>3 DEF DoFinger, TypeOK
<1>3. CASE DoThumb
  <2>1. PICK d, palm \in BoneAngle, lr \in Adduction, away \in BOOLEAN :
          handCmd' = ThumbAngles(handCmd, NotAway(d, away), NotAway(lr, away), palm)
    BY <1>3 DEF DoThumb
  <2>2. ASSUME NEW x \in Angle, NEW z \in Angle, NEW p \in Angle
        PROVE  ThumbAngles(handCmd, x, z, p) \in HandCmd
    <3> DEFINE g == [j \in Joint |->
                  CASE j \in {Distal, FbDir} -> x
                    [] j = LrDir             -> z
                    [] j = ThumbPalm         -> IF Less(p, 0) THEN 0 ELSE p]
    <3>1. handCmd \in HandCmd
      BY DEF TypeOK
    <3>2. (IF Less(p, 0) THEN 0 ELSE p) \in Angle
      BY DEF Angle
    <3>3. g \in [Joint -> Angle]
      BY <3>2 DEF Joint, Distal, FbDir, LrDir, ThumbPalm
    <3>4. QED
      BY <3>1, <3>3 DEF ThumbAngles, HandCmd
  <2>3. palm \in Angle
    BY AngleAssumption
  <2>4. handCmd' \in HandCmd
    BY <2>1, <2>2, <2>3, <1>0, <1>00
  <2>5. QED
    BY <1>3, <2>4 DEF DoThumb, TypeOK
<1>4. CASE Publish
  BY <1>4, PostProcessType DEF Publish, TypeOK
<1>5. CASE SendInit
  BY <1>5, PostProcessType, ZerosType DEF SendInit, TypeOK
<1>6. CASE UNCHANGED vars
  BY <1>6 DEF vars, TypeOK
<1>7. QED
  BY <1>1, <1>2, <1>3, <1>4, <1>5, <1>6 DEF Next

\* Every command is made of angles, the garbage of the first one included.
THEOREM TypeCorrect == Spec => []TypeOK
<1> USE FingerAssumption DEF Idle, Thumb, Publishing
<1>1. Init => TypeOK
  BY AngleAssumption DEF Init, TypeOK, HandCmd
<1>2. QED
  BY <1>1, TypeStep, PTL DEF Spec

-----------------------------------------------------------------------------
\* What was published is a processed command: the invariant the three safety
\* properties follow from.
SentIsProcessed == \A cmd \in sent : \E raw \in HandCmd : cmd = PostProcess(raw)

LEMMA SentStep == TypeOK /\ SentIsProcessed /\ [Next]_vars => SentIsProcessed'
<1> SUFFICES ASSUME TypeOK, SentIsProcessed, [Next]_vars PROVE SentIsProcessed'
  OBVIOUS
<1>1. CASE BeginHand
  BY <1>1 DEF BeginHand, SentIsProcessed
<1>2. ASSUME NEW f \in 1 .. FingerNum - 1, DoFinger(f) PROVE SentIsProcessed'
  BY <1>2 DEF DoFinger, SentIsProcessed
<1>3. CASE DoThumb
  BY <1>3 DEF DoThumb, SentIsProcessed
<1>4. CASE Publish
  BY <1>4 DEF Publish, TypeOK, SentIsProcessed
<1>5. CASE SendInit
  BY <1>5, ZerosType DEF SendInit, SentIsProcessed
<1>6. CASE UNCHANGED vars
  BY <1>6 DEF vars, SentIsProcessed
<1>7. QED
  BY <1>1, <1>2, <1>3, <1>4, <1>5, <1>6 DEF Next

LEMMA SentProcessed == Spec => []SentIsProcessed
<1>1. Init => SentIsProcessed
  BY DEF Init, SentIsProcessed
<1>2. QED
  BY <1>1, SentStep, TypeCorrect, PTL DEF Spec

\* One joint of a processed command.
LEMMA LimitJoint ==
    ASSUME NEW cmd \in HandCmd, NEW f \in Finger, NEW j \in Joint
    PROVE  Limit(cmd)[f][j] = IF j \in Limited
                                THEN Clamp(cmd[f][j], lowerLimits_[f][j], upperLimits_[f][j])
                                ELSE cmd[f][j]
BY DEF Limit

LEMMA MakeWayJoint ==
    ASSUME NEW cmd \in HandCmd, NEW f \in Finger, NEW j \in Joint
    PROVE  MakeWay(cmd)[f][j] =
             IF Less(20, cmd[1][Distal]) /\ f = 0 /\ j \in {Distal, FbDir}
               THEN AtMost5(cmd[f][j]) ELSE cmd[f][j]
BY DEF MakeWay, HandCmd

LEMMA AtMost5Bounds ==
    ASSUME NEW a \in Angle, NEW lo \in Int, NEW hi \in Int, lo <= 5,
           a # NaN => lo <= a /\ a <= hi, AtMost5(a) # NaN
    PROVE  lo <= AtMost5(a) /\ AtMost5(a) <= hi
BY NaNAssumption DEF AtMost5, Less, Angle

\* Limits hold for every command processed, whatever was in it.
LEMMA ProcessedInLimits ==
    ASSUME SaneLimits, NEW raw \in HandCmd PROVE InLimits(PostProcess(raw))
<1> SUFFICES ASSUME NEW f \in Finger, NEW j \in Limited, PostProcess(raw)[f][j] # NaN
             PROVE  /\ lowerLimits_[f][j] <= PostProcess(raw)[f][j]
                    /\ PostProcess(raw)[f][j] <= upperLimits_[f][j]
  BY DEF InLimits
<1> DEFINE lim == Limit(raw)
<1>1. lim \in HandCmd /\ j \in Joint /\ raw[f][j] \in Angle
  BY LimitType, Indices DEF HandCmd
<1>2. lim[f][j] \in Angle
  BY <1>1 DEF HandCmd
<1>3. lim[f][j] # NaN => lowerLimits_[f][j] <= lim[f][j] /\ lim[f][j] <= upperLimits_[f][j]
  BY <1>1, LimitJoint, LimitAt, ClampBounds DEF SaneLimits
<1>4. PostProcess(raw)[f][j] = MakeWay(lim)[f][j]
  BY DEF PostProcess
<1>5. CASE Less(20, lim[1][Distal]) /\ f = 0 /\ j \in {Distal, FbDir}
  <2>1. PostProcess(raw)[f][j] = AtMost5(lim[f][j])
    BY <1>1, <1>4, <1>5, MakeWayJoint
  <2>2. lowerLimits_[f][j] <= 5
    BY <1>5 DEF SaneLimits
  <2>3. QED
    BY <1>2, <1>3, <2>1, <2>2, LimitAt, AtMost5Bounds
<1>6. CASE ~(Less(20, lim[1][Distal]) /\ f = 0 /\ j \in {Distal, FbDir})
  <2>1. PostProcess(raw)[f][j] = lim[f][j]
    BY <1>1, <1>4, <1>6, MakeWayJoint
  <2>2. QED
    BY <1>3, <2>1
<1>7. QED
  BY <1>5, <1>6

LEMMA LimitsFollow == SentIsProcessed => SentInLimits
BY ProcessedInLimits DEF SentIsProcessed, SentInLimits

\* Every number the task publishes is within its limits: postProcessHandCmd
\* clamps, and the thumb's special rule does not undo it under sane limits.
THEOREM SentAlwaysInLimits == Spec => []SentInLimits
BY LimitsFollow, SentProcessed, PTL

LEMMA WayFollows == SentIsProcessed => ThumbMakesWay
<1>1. ASSUME NEW raw \in HandCmd, Less(20, PostProcess(raw)[1][Distal])
      PROVE  ~Less(5, PostProcess(raw)[0][Distal]) /\ ~Less(5, PostProcess(raw)[0][FbDir])
  <2> DEFINE lim == Limit(raw)
  <2>1. lim \in HandCmd /\ 0 \in Finger /\ 1 \in Finger /\ Distal \in Joint /\ FbDir \in Joint
    BY LimitType, Indices DEF Joint, Distal, FbDir
  <2>2. PostProcess(raw)[1][Distal] = lim[1][Distal]
    BY <2>1, MakeWayJoint DEF PostProcess
  <2>3. ASSUME NEW j \in {Distal, FbDir} PROVE PostProcess(raw)[0][j] = AtMost5(lim[0][j])
    BY <1>1, <2>1, <2>2, <2>3, MakeWayJoint DEF PostProcess
  <2>4. ASSUME NEW a \in Angle PROVE ~Less(5, AtMost5(a))
    BY <2>4 DEF AtMost5, Less
  <2>5. lim[0][Distal] \in Angle /\ lim[0][FbDir] \in Angle
    BY <2>1 DEF HandCmd
  <2>6. QED
    BY <2>3, <2>4, <2>5
<1>2. QED
  BY <1>1 DEF SentIsProcessed, ThumbMakesWay

\* The thumb is out of the index finger's way in every command published.
THEOREM ThumbAlwaysMakesWay == Spec => []ThumbMakesWay
BY WayFollows, SentProcessed, PTL

\* One joint of a command processed twice.
LEMMA TwiceIsOnce ==
    ASSUME NEW raw \in HandCmd PROVE PostProcess(PostProcess(raw)) = PostProcess(raw)
<1> DEFINE lim == Limit(raw)
           cmd == PostProcess(raw)
           again == Limit(cmd)
<1>1. lim \in HandCmd /\ cmd \in HandCmd /\ again \in HandCmd /\ PostProcess(cmd) \in HandCmd
  BY LimitType, PostProcessType
<1>2. {0, 1} \subseteq Finger /\ Distal \in Joint /\ Distal \in Limited /\ FbDir \in Limited
  BY Indices DEF Distal, FbDir, Limited, Joint
<1>3. cmd[1][Distal] = lim[1][Distal]
  BY <1>1, <1>2, MakeWayJoint DEF PostProcess
<1>4. \A f \in Finger, j \in Limited :
        Clamp(lim[f][j], lowerLimits_[f][j], upperLimits_[f][j]) = lim[f][j]
  <2> SUFFICES ASSUME NEW f \in Finger, NEW j \in Limited
               PROVE  Clamp(lim[f][j], lowerLimits_[f][j], upperLimits_[f][j]) = lim[f][j]
    OBVIOUS
  <2>1. j \in Joint /\ raw[f][j] \in Angle
    BY Indices DEF HandCmd
  <2>2. QED
    BY <2>1, LimitJoint, LimitAt, ClampTwice
<1>5. again[1][Distal] = lim[1][Distal]
  BY <1>1, <1>2, <1>3, <1>4, LimitJoint
<1>6. \A f \in Finger, j \in Joint : PostProcess(cmd)[f][j] = cmd[f][j]
  <2> SUFFICES ASSUME NEW f \in Finger, NEW j \in Joint PROVE PostProcess(cmd)[f][j] = cmd[f][j]
    OBVIOUS
  <2>1. CASE Less(20, lim[1][Distal]) /\ f = 0 /\ j \in {Distal, FbDir}
    <3>1. j \in Limited /\ raw[f][j] \in Angle
      BY <1>2, <2>1 DEF HandCmd
    <3>2. cmd[f][j] = AtMost5(lim[f][j])
      BY <1>1, <2>1, MakeWayJoint DEF PostProcess
    <3>3. PostProcess(cmd)[f][j] = AtMost5(again[f][j])
      BY <1>1, <1>5, <2>1, MakeWayJoint DEF PostProcess
    <3>4. /\ lim[f][j] = Clamp(raw[f][j], lowerLimits_[f][j], upperLimits_[f][j])
          /\ again[f][j] = Clamp(cmd[f][j], lowerLimits_[f][j], upperLimits_[f][j])
      BY <1>1, <3>1, LimitJoint
    <3>5. QED
      BY <3>1, <3>2, <3>3, <3>4, LimitAt, CapAfterClamp
  <2>2. CASE ~(Less(20, lim[1][Distal]) /\ f = 0 /\ j \in {Distal, FbDir})
    <3>1. cmd[f][j] = lim[f][j]
      BY <1>1, <2>2, MakeWayJoint DEF PostProcess
    <3>2. PostProcess(cmd)[f][j] = again[f][j]
      BY <1>1, <1>5, <2>2, MakeWayJoint DEF PostProcess
    <3>3. again[f][j] = cmd[f][j]
      BY <1>1, <1>4, <3>1, LimitJoint
    <3>4. QED
      BY <3>2, <3>3
  <2>3. QED
    BY <2>1, <2>2
<1>7. QED
  BY <1>1, <1>6 DEF HandCmd

LEMMA ProcessedFollows == SentIsProcessed => Processed
BY TwiceIsOnce DEF SentIsProcessed, Processed

\* What was published may be published again: processing it changes nothing,
\* even when a configuration contradicts the rule for the thumb.
THEOREM PublishedIsProcessed == Spec => []Processed
BY ProcessedFollows, SentProcessed, PTL
=============================================================================
