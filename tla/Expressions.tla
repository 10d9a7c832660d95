----------------------------- MODULE Expressions -----------------------------
(***************************************************************************)
(* What the blendshapes of a face say: the state and the mouth of the       *)
(* avatar (recording/stateMapping.ts, and its port avatar/states.go, which   *)
(* decides the same by the same thresholds), the file a take keeps of them,  *)
(* the cell the live avatar draws, and the windows of body states the        *)
(* timeline service derives.                                                *)
(*                                                                         *)
(* Scores are in ten-thousandths.  Times are in tenths of a millisecond as   *)
(* they are recorded, and in milliseconds as a file has them.  A face is the *)
(* record of the scores it has; one it has not counts as zero.              *)
(***************************************************************************)
EXTENDS Integers, Sequences, SequencesExt

MinHoldMs == 120

Score(bs, name) == IF name \in DOMAIN bs THEN bs[name] ELSE 0

\* The greatest of the scores reaches the bound.
Reaches(bs, names, bound) == \E n \in names : Score(bs, n) >= bound

\* The names the module knows the scores by when they come without.
BlendshapeNames == <<
    "_neutral", "browDownLeft", "browDownRight", "browInnerUp", "browOuterUpLeft",
    "browOuterUpRight", "cheekPuff", "cheekSquintLeft", "cheekSquintRight", "eyeBlinkLeft",
    "eyeBlinkRight", "eyeLookDownLeft", "eyeLookDownRight", "eyeLookInLeft", "eyeLookInRight",
    "eyeLookOutLeft", "eyeLookOutRight", "eyeLookUpLeft", "eyeLookUpRight", "eyeSquintLeft",
    "eyeSquintRight", "jawForward", "jawLeft", "jawOpen", "jawRight", "mouthClose",
    "mouthDimpleLeft", "mouthDimpleRight", "mouthFrownLeft", "mouthFrownRight", "mouthFunnel",
    "mouthLeft", "mouthLowerDownLeft", "mouthLowerDownRight", "mouthPressLeft",
    "mouthPressRight", "mouthPucker", "mouthRight", "mouthRollLower", "mouthRollUpper",
    "mouthShrugLower", "mouthShrugUpper", "mouthSmileLeft", "mouthSmileRight",
    "mouthStretchLeft", "mouthStretchRight", "mouthUpperUpLeft", "mouthUpperUpRight",
    "noseSneerLeft", "noseSneerRight", "tongueOut">>

\* The fifty-two of the model, in its order.
Categories ==
    SubSeq(BlendshapeNames, 1, 21) \o <<"eyeWideLeft", "eyeWideRight">>
    \o SubSeq(BlendshapeNames, 22, 50)

\* bsArrayToRecord: by the names that come with the scores, or else by position.
BsArrayToRecord(bs, named) ==
    IF named THEN bs
    ELSE LET at == {i \in DOMAIN BlendshapeNames : Categories[i] \in DOMAIN bs}
             At(n) == CHOOSE i \in at : BlendshapeNames[i] = n
         IN  [n \in {BlendshapeNames[i] : i \in at} |-> bs[Categories[At(n)]]]

Smile == {"mouthSmileLeft", "mouthSmileRight"}
LowerLip == {"mouthLowerDownLeft", "mouthLowerDownRight"}

Surprised(bs) ==
    \/ Reaches(bs, {"browInnerUp", "browOuterUpLeft", "browOuterUpRight"}, 2500)
    \/ Reaches(bs, {"eyeWideLeft", "eyeWideRight"}, 3000)

Happy(bs) ==
    \/ Reaches(bs, Smile, 2500)
    \/ Reaches(bs, Smile, 1800) /\ Reaches(bs, {"cheekSquintLeft", "cheekSquintRight"}, 2000)

Thoughtful(bs) ==
    \/ Reaches(bs, {"browDownLeft", "browDownRight"}, 2200)
    \/ Reaches(bs, {"eyeLookDownLeft", "eyeLookDownRight"}, 2500)
    \/ Reaches(bs, {"mouthFrownLeft", "mouthFrownRight"}, 2200)

Talking(bs) ==
    \/ Reaches(bs, {"jawOpen"}, 1500)
    \/ Reaches(bs, LowerLip \cup {"mouthFunnel", "mouthPucker"}, 1800)

\* A clear expression wins over talking.
MapBlendshapesToState(bs) ==
    IF Surprised(bs) THEN "surprised"
    ELSE IF Happy(bs) THEN "happy"
    ELSE IF Thoughtful(bs) THEN "thoughtful"
    ELSE IF Talking(bs) THEN "talking"
    ELSE "idle"

MapBlendshapesToMouth(bs) ==
    IF Reaches(bs, {"mouthPucker"}, 1800) \/ Reaches(bs, {"mouthFunnel"}, 2000) THEN "rounded_o"
    ELSE IF \/ Reaches(bs, {"mouthStretchLeft", "mouthStretchRight"}, 1800)
            \/ Reaches(bs, Smile, 2200) /\ Score(bs, "jawOpen") < 2500
            \/ Reaches(bs, {"mouthDimpleLeft", "mouthDimpleRight"}, 2200)
         THEN "wide_e"
    ELSE IF Reaches(bs, {"jawOpen"}, 1400) \/ Reaches(bs, LowerLip, 1800) THEN "open_a"
    ELSE "rest"

-----------------------------------------------------------------------------
(* Samples over time *)

\* Stretches of samples of one state, with the times of their first and last.
Runs(samples) ==
    LET AndThen(runs, s) ==
            IF runs # <<>> /\ Last(runs).state = s.state
            THEN [runs EXCEPT ![Len(runs)].end = s.t]
            ELSE Append(runs, [state |-> s.state, start |-> s.t, end |-> s.t])
        upTo[n \in 0 .. Len(samples)] ==
            IF n = 0 THEN <<>> ELSE AndThen(upTo[n - 1], samples[n])
    IN  upTo[Len(samples)]

\* Short stretches are dropped, but for the first and the last: what is on either side of
\* one may have the same state, and stays two.
SmoothStates(samples) ==
    LET runs == Runs(samples)
        Kept(i) == i = 1 \/ i = Len(runs) \/ runs[i].end - runs[i].start >= MinHoldMs
    IN  FlattenSeq([i \in DOMAIN runs |->
            IF Kept(i) THEN <<[t |-> runs[i].start, state |-> runs[i].state]>> ELSE <<>>])

Stated(samples, named) ==
    [i \in DOMAIN samples |->
        [t |-> samples[i].t,
         state |-> MapBlendshapesToState(BsArrayToRecord(samples[i].bs, named))]]

WholeMs(t) == (t + 5) \div 10
Round3(score) == 10 * ((score + 5) \div 10)
Rounded(bs) == [n \in DOMAIN bs |-> Round3(bs[n])]

\* The samples with the times a file has, and with the scores it has.
InWholeMs(samples) == [i \in DOMAIN samples |-> [t |-> WholeMs(samples[i].t), bs |-> samples[i].bs]]
InThousandths(samples) == [i \in DOMAIN samples |-> [t |-> samples[i].t, bs |-> Rounded(samples[i].bs)]]

\* serializeBlendshapes of samples [t, bs]: the changes of state are those of the scores
\* before they are rounded.  approx_fps, which nobody reads, is left out.
SerializeBlendshapes(samples, named) ==
    [named |-> named, samples |-> InThousandths(InWholeMs(samples)),
     state_changes |-> SmoothStates(Stated(InWholeMs(samples), named))]

\* deriveBodyStates: a window ends where the next begins, the last at the end.
DeriveBodyStates(samples, endAt) ==
    LET runs == Runs(Stated(samples, TRUE))
    IN  [i \in DOMAIN runs |->
            [state |-> runs[i].state, start |-> runs[i].start,
             end |-> IF i < Len(runs) THEN runs[i + 1].start
                     ELSE IF runs[i].start < endAt THEN endAt ELSE runs[i].start]]

-----------------------------------------------------------------------------
(* The avatar beside the camera while a take is recorded *)

\* rowForState, of the states the mapping gives; MOUTH_COL_MAP.
LiveRow == [idle |-> 0, talking |-> 1, happy |-> 2, thoughtful |-> 3, surprised |-> 4]
LiveColumn == [rest |-> 0, open_a |-> 1, rounded_o |-> 2, wide_e |-> 3]

\* A frame without a face rests.
LiveCell(bs) ==
    [row |-> LiveRow[MapBlendshapesToState(bs)], col |-> LiveColumn[MapBlendshapesToMouth(bs)]]
=============================================================================
