------------------------------ MODULE Playback ------------------------------
(***************************************************************************)
(* The compositions of the kit: one segment (SegmentComposition), the long  *)
(* and the short video that stitch segments on one clock (LongFormVideo),   *)
(* the length Remotion is told (index.tsx), and the preview of a segment.   *)
(*                                                                         *)
(* Props are [segments, timelines, audio, meta, subtitles, cues, single]:    *)
(* segments a sequence of [id, scene]; timelines, audio and cues (those of   *)
(* BuildCues) by segment id; single the one audio track that replaces the   *)
(* others, or NoTrack.                                                      *)
(***************************************************************************)
EXTENDS Avatar, SceneViews, Cues

FPS == 30
NoTrack == <<>>

-----------------------------------------------------------------------------
(* One segment *)

\* Where the visual goes; an explicit "fullscreen" throws when there is a scene.
SelectLayout(type, requested) ==
    IF type = "none" THEN "split"
    ELSE IF requested = "overlay" THEN "overlay"
    ELSE IF requested = "fullscreen" THEN "throws"
    ELSE "split"

\* defaultSceneRegistry: the types that have a component.
Registry == {"code_typing", "diff_view", "terminal_run", "flow_diagram",
             "big_number", "timeline", "callout"}

ErrorCard == [shows |-> "error"]
Thrown == [shows |-> "throws"]

\* What throws in the component, whatever the frame.
Throws(type, layout, meta) ==
    \/ SelectLayout(type, layout) = "throws"
    \/ type # "none" /\ type \notin Registry
    \/ ~Drawable(meta)

\* The subtitle burnt in: nothing when no cue is due.
Subtitles(cues, frame) == SelectCue(cues, frame)

\* What a segment shows at a frame of its own clock.
SegmentComposition(tl, scene, layout, cues, meta, frame) ==
    LET Compose(parsed) ==
            IF scene # NoScene /\ ~parsed.ok THEN ErrorCard
            ELSE IF Throws(parsed.scene.type, layout, meta) THEN Thrown
            ELSE [shows  |-> IF scene # NoScene THEN SelectLayout(parsed.scene.type, layout)
                             ELSE "avatar",
                  avatar |-> Cell(tl, meta, frame, FPS),
                  visual |-> IF scene # NoScene THEN SceneVisual(parsed.scene, frame, FPS)
                             ELSE NoScene,
                  cue    |-> Subtitles(cues, frame)]
    IN  Compose(ParseScene(scene))

-----------------------------------------------------------------------------
(* The stitched video *)

HasTimeline(props, id) == id \in DOMAIN props.timelines

\* Number(durationMs ?? 0) || otherwise
DurationMs(props, id, otherwise) ==
    IF HasTimeline(props, id) /\ props.timelines[id].dur > 0
    THEN props.timelines[id].dur ELSE otherwise

SegFrames(props, i) ==
    Larger(1, Round(DurationMs(props, props.segments[i].id, 1) * FPS, 1000))

\* The first frame of segment i: the frames of the segments before it.
OffsetFrames(props, i) ==
    Sums([k \in 1 .. Len(props.segments) |-> SegFrames(props, k)])[i - 1]

Pieces(props) ==
    [i \in DOMAIN props.segments |->
        [id     |-> props.segments[i].id,
         offset |-> OffsetFrames(props, i),
         frames |-> SegFrames(props, i),
         drawn  |-> HasTimeline(props, props.segments[i].id)]]

\* The segments on screen at a frame of the video.  Mutant: the end is included.
OnScreenInclusive(props, frame) ==
    {i \in DOMAIN props.segments :
        LET p == Pieces(props)[i]
        IN  p.drawn /\ p.offset <= frame /\ frame <= p.offset + p.frames}

OnScreen(props, frame) ==
    {i \in DOMAIN props.segments :
        LET p == Pieces(props)[i]
        IN  p.drawn /\ p.offset <= frame /\ frame < p.offset + p.frames}

SegmentAt(props, i, frame) ==
    LET s == props.segments[i]
    IN  SegmentComposition(props.timelines[s.id], s.scene, "split",
            IF props.subtitles THEN props.cues[s.id] ELSE <<>>, props.meta,
            frame - OffsetFrames(props, i))

\* The audio heard at a frame: the one track, or that of the segment on screen.
AudioAt(props, frame) ==
    IF props.single # NoTrack THEN {props.single}
    ELSE {props.audio[props.segments[i].id] : i \in OnScreen(props, frame)}

\* The title fades over the first second.
TitleSteps(frame) == IF frame < FPS THEN FPS - frame ELSE 0

LongFormVideo(props, frame) ==
    [pieces |-> [i \in OnScreen(props, frame) |-> SegmentAt(props, i, frame)],
     audio  |-> AudioAt(props, frame),
     title  |-> TitleSteps(frame)]

\* How many frames Remotion renders, as calculateMetadata tells it.
VideoFrames(props) ==
    LET n == Len(props.segments)
        ms == Sums([k \in 1 .. n |-> DurationMs(props, props.segments[k].id, 1000)])
    IN  Larger(FPS, Round(ms[n] * FPS, 1000))

\* A frame is drawn when nothing on screen throws; a render when every frame is.
\* (The scenes of props are parsed, so that no segment is an error card.)
Draws(props, i) == ~Throws(props.segments[i].scene.type, "split", props.meta)

RendersThrough(props) ==
    \A i \in DOMAIN props.segments : HasTimeline(props, props.segments[i].id) => Draws(props, i)

-----------------------------------------------------------------------------
(* The previews of one segment in the dashboard, with the whole sheet: that of *)
(* the scenes page, and that of the voice page, of the avatar alone.          *)

Lasts(tl) == IF tl.dur > 0 THEN tl.dur ELSE 1

SegmentPreviewFrames(tl) == Larger(30, Round(Lasts(tl) * FPS, 1000))
SegmentPreview(tl, scene, frame) ==
    SegmentComposition(tl, scene, "", <<>>, SpriteSheet, frame)

AvatarPreviewFrames(tl) == Larger(1, Round(Lasts(tl) * FPS, 1000))
AvatarSegmentScene(tl, frame) == Cell(tl, SpriteSheet, frame, FPS)
=============================================================================
