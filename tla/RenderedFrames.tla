--------------------------- MODULE RenderedFrames ---------------------------
(***************************************************************************)
(* What the frames of the long video show while a job renders it: the       *)
(* properties of the kit's compositions, scenes, cues and avatar, stated    *)
(* about the job's own script and timelines.  A timeline here has take, what *)
(* it was made of (Timelines.tla), which the file has not.                   *)
(***************************************************************************)
EXTENDS RenderStages

Abs(n) == IF n < 0 THEN -n ELSE n

\* The milliseconds of narration in segment i, and before it.
Ms(props, i) == props.timelines[props.segments[i].id].dur
MsBefore(props, i) == Sums([k \in 1 .. Len(props.segments) |-> Ms(props, k)])[i - 1]

\* One segment at a time is on screen and heard, with no gap before the last has
\* ended; each starts within half a frame per earlier segment of where its
\* narration starts, and the length Remotion is told agrees with the segments
\* as closely (LongFormVideo.tsx rounds every segment, index.tsx rounds the sum) -
\* unless a segment is shorter than half a frame: it takes a whole one.
OneSegmentOnScreen ==
    Drawing /\ Frame < run.frames =>
        LET props == LongProps
            n == Len(props.segments)
            ends == OffsetFrames(props, n) + SegFrames(props, n)
        IN  /\ Cardinality(OnScreen(props, Frame)) = (IF Frame < ends THEN 1 ELSE 0)
            /\ (\A i \in 1 .. n : FPS * Ms(props, i) >= 500) =>
                   /\ \A i \in 1 .. n :
                          Abs(1000 * OffsetFrames(props, i) - FPS * MsBefore(props, i)) <= 500 * (i - 1)
                   /\ VideoFrames(props) > FPS => 2 * Abs(VideoFrames(props) - ends) <= n + 1

\* The segment on screen, with its own clock.
Seen == CHOOSE i \in OnScreen(LongProps, Frame) : TRUE
SeenSegment == LocalScript.segments[Seen]
SeenTimeline == LocalTimeline(SeenSegment.id)
LocalFrame == Frame - OffsetFrames(LongProps, Seen)
SeesOne == Drawing /\ Frame < run.frames /\ world.meta = SpriteSheet /\ OnScreen(LongProps, Frame) # {}
Screen == SegmentAt(LongProps, Seen, Frame)

\* A score of the face is within half a thousandth below a bound of a state: rounded as
\* the file has it (round3) it reaches the bound, which for the live avatar it does not.
OnTheBrink(bs) ==
    \E name \in DOMAIN bs, bound \in {1500, 1800, 2000, 2200, 2500, 3000} :
        bound - 5 <= bs[name] /\ bs[name] < bound

\* What the body does at time t repeats the face of the last sample before, as the live
\* avatar showed it, unless that is on the brink, and but for half a millisecond after each
\* sample, by which the file rounds its time; a take whose faces were all idle is given
\* some life.
RepeatsFace(tl, t, row) ==
    LET samples == tl.take.samples IN
    \A i \in DOMAIN samples :
        /\ \E j \in DOMAIN tl.body : tl.body[j].state # "idle"
        /\ (samples[i].t + 5) * FPS <= 10 * t
        /\ i < Len(samples) => 10 * t <= (samples[i + 1].t - 5) * FPS
        /\ ~OnTheBrink(samples[i].bs)
        => row = LiveCell(samples[i].bs).row

\* The changes of state a file with names tells of are changes the body goes through, if no
\* face is on the brink, and each state but the first and the last is held.
ToldWell(tl) ==
    LET told == SerializeBlendshapes(tl.take.samples, TRUE).state_changes
    IN  \A i \in DOMAIN told :
            /\ (\A k \in DOMAIN tl.take.samples : ~OnTheBrink(tl.take.samples[k].bs)) =>
                   \E j \in DOMAIN tl.body :
                       tl.body[j].start = told[i].t /\ tl.body[j].state = told[i].state
            /\ 1 < i /\ i < Len(told) => told[i + 1].t - told[i].t >= MinHoldMs

\* The avatar says what is heard: the cell drawn is one of the sheet; under a cue of the
\* take its mouth has the cue's shape, and between them it is at rest ("so the rig never
\* guesses what the mouth does between words", build.go:89); for want of cues it moves
\* under the words, and rests around them; and its body does what the person saw the live
\* avatar do while the take was recorded.  avatar/states.go:2 promises "the exact same
\* decisions"; a score of 0.1496 is idle to the live avatar and 0.15, talking, in the file:
\* what is left of the promise is said by RepeatsFace and ToldWell.
AvatarFollowsVoice ==
    SeesOne =>
        LET tl == SeenTimeline
            t == 1000 * LocalFrame
            cell == Screen.avatar
            MouthAt(name) == IndexOf(SpriteSheet.mouths, name)
            Under(s) == {i \in DOMAIN s : s[i].start * FPS <= t /\ t < s[i].end * FPS}
        IN  /\ cell.row < SpriteSheet.rows /\ cell.col < SpriteSheet.columns
            /\ IF HasActiveCues(tl)
               THEN LET cues == tl.take.cues
                    IN  /\ \A i \in Under(cues) :
                               cell.col = MouthAt(ShapeToMouth(Letter(cues[i].shape)))
                        /\ Under(cues) = {} => cell.col = MouthAt("rest")
               ELSE tl.words # <<>> => (cell.col # 0 <=> Under(tl.words) # {})
            /\ RepeatsFace(tl, t, cell.row) /\ ToldWell(tl)
            /\ \A i \in DOMAIN tl.take.samples :
                   LiveCell(tl.take.samples[i].bs).col = MouthAt(MapBlendshapesToMouth(tl.take.samples[i].bs))

\* The cut has a layout of its own; avatar and visual are the same.
Alike(cut, preview) ==
    /\ cut.shows = preview.shows
    /\ cut.avatar = preview.avatar /\ cut.visual = preview.visual

\* The final cut shows, in every frame, the avatar and the visual that the
\* preview of the segment showed when its scene was approved: the scene comes
\* through the runner's parse and the composition's as it does through one.  It
\* shows the avatar that was heard on the voice page, and no frame of a segment
\* is beyond the end of a preview.
CutMatchesPreview ==
    SeesOne =>
        /\ Alike(Screen, SegmentPreview(SeenTimeline, SeenSegment.scene, LocalFrame))
        /\ Screen.avatar = AvatarSegmentScene(SeenTimeline, LocalFrame)
        /\ LocalFrame < SegmentPreviewFrames(SeenTimeline)
        /\ LocalFrame < AvatarPreviewFrames(SeenTimeline)

-----------------------------------------------------------------------------

\* How a scene may go on from one frame to the next: nothing that was shown is
\* taken back, and of a terminal only the last line may still be incomplete.
Unfolds(scene, now, next) ==
    LET p == scene.props IN
    CASE scene.type = "code_typing" ->
             Len(now.typed) <= Len(next.typed)
             /\ \A i \in DOMAIN now.typed : now.typed[i][1] = next.typed[i][1]
      [] scene.type = "terminal_run" ->
             /\ Len(now.lines) <= Len(next.lines)
             /\ \A i \in DOMAIN now.lines :
                    /\ now.lines[i].text <= next.lines[i].text
                    /\ i < Len(now.lines) => now.lines[i].text = p.lines[i].text
      [] scene.type = "flow_diagram" ->
             /\ \A a \in now.edges : \E b \in next.edges : a[1] = b[1] /\ a[2] <= b[2]
             /\ \A a \in now.nodes : \E b \in next.nodes : a[1] = b[1] /\ a[2] <= b[2]
      [] scene.type = "big_number" -> now.number <= next.number /\ (now.suffix => next.suffix)
      [] scene.type = "timeline" -> now \subseteq next
      [] scene.type = "callout" -> now.shown <= next.shown
      [] OTHER -> now = next

\* A visual only grows from a frame to the next of its segment: each is a function
\* of the frame alone, and Remotion draws the frames in any order.
SceneUnfolds ==
    SeesOne /\ Seen \in OnScreen(LongProps, Frame + 1) /\ SeenSegment.scene # NoScene =>
        Unfolds(LongProps.segments[Seen].scene, Screen.visual,
                SegmentAt(LongProps, Seen, Frame + 1).visual)

-----------------------------------------------------------------------------
(* Cues and diffs of the script that is being bundled *)

Timelines == {LocalTimeline(f[2]) : f \in TimelinesHere}

\* Every run of words of a narration is covered by its subtitle cues, see CuesCover.
CuesCoverWords ==
    run.stage = "bundle" =>
        \A tl \in Timelines : \A i, j \in DOMAIN tl.words :
            LET words == SubSeq(tl.words, i, j)
            IN  CuesCover(BuildCues(words, FPS), words, FPS)

CommonSubsequences(a, b) ==
    {s \in SUBSET DOMAIN a : \E f \in [s -> DOMAIN b] :
        \A x \in s : a[x] = b[f[x]] /\ \A y \in s : x < y => f[x] < f[y]}

Texts(lines) == [i \in DOMAIN lines |-> lines[i].text]

\* The lines a diff keeps or removes are the text before, those it keeps or adds
\* the text after, and no alignment of the two would keep more.
DiffIsMinimal ==
    run.stage = "bundle" =>
        \A scene \in {ParseScene(s.scene).scene : s \in ToSet(LocalScript.segments)} :
            scene.type = "diff_view" =>
                \A i \in 0 .. Len(scene.props.before), j \in 0 .. Len(scene.props.after) :
                    LET a == SubSeq(scene.props.before, 1, i)
                        b == SubSeq(scene.props.after, 1, j)
                        d == Diff(a, b)
                    IN  /\ Texts(OfKind(d, {"context", "removed"})) = a
                        /\ Texts(OfKind(d, {"context", "added"})) = b
                        /\ \A s \in CommonSubsequences(a, b) :
                               Cardinality(s) <= Len(OfKind(d, {"context"}))
=============================================================================
