---------------------------- MODULE MCRenderStages ----------------------------
(***************************************************************************)
(* The histories of a workspace that the stages are checked on.  Times are  *)
(* of a third to two thirds of a second, so that a video has some forty     *)
(* frames and every kind of scene still comes to its end or is cut short.   *)
(***************************************************************************)
EXTENDS RenderedFrames

Word(id, len, start, end) == [id |-> id, len |-> len, start |-> start, end |-> end]
Sample(t, bs) == [t |-> t, bs |-> bs]
\* The timeline of a take, with the take.
Voice(cues, samples, words) ==
    LET take == [samples |-> samples, cues |-> cues, words |-> words]
        tl == BuildSegment(take)
    IN  IF tl = NoTimeline THEN tl ELSE tl @@ [take |-> take]
Scene(type, props) == [type |-> type, props |-> props]
Short1(text, n) == <<[text |-> text, n |-> n]>>

Seg(id, scene, markers, tl) ==
    [id |-> id, scene |-> scene, markers |-> markers, tl |-> tl, wav |-> TRUE]
Version(segments, soundtrack) ==
    [segments |-> segments, soundtrack |-> soundtrack, track |-> soundtrack]

\* Every state, by scores at their bounds and as far below as rounding leaves them, and two
\* that flicker; times that are rounded up and down.
Faces == <<
    Sample(0, [mouthSmileLeft |-> 2494, cheekSquintLeft |-> 1994, browDownRight |-> 2194]),
    Sample(1004, [mouthSmileLeft |-> 1800, cheekSquintRight |-> 2000, jawOpen |-> 3000]),
    Sample(2496, [mouthSmileRight |-> 2500, browInnerUp |-> 2494]),
    Sample(3000, [jawOpen |-> 1500]),
    Sample(3300, [browOuterUpLeft |-> 2500, mouthSmileLeft |-> 4000]),
    Sample(3605, [mouthFunnel |-> 1800, mouthFrownLeft |-> 2194]),
    Sample(4000, [browDownLeft |-> 2200, jawOpen |-> 4000]),
    Sample(5300, [eyeLookDownLeft |-> 2500, mouthPucker |-> 1800]),
    Sample(5600, [eyeWideLeft |-> 3000, browDownLeft |-> 5000])>>

\* Narrations: with cues, with a silent one, without anything but a face on the brink of
\* talking; and two that are refused.
Spoken == Voice(
    <<MouthCue("A", 40, 200), MouthCue("d", 200, 310), MouthCue("X", 310, 360), MouthCue("F", 480, 640)>>,
    Faces \o <<Sample(6670, [jawOpen |-> 1500])>>,
    <<Word(1, 20, 0, 120), Word(2, 20, 120, 240), Word(3, 30, 240, 330), Word(4, 0, 330, 340),
      Word(5, 12, 340, 500), Word(6, 43, 500, 560), Word(7, 9, 560, 667)>>)
Silent == Voice(<<MouthCue("X", 0, 500)>>, <<Sample(200, [jawOpen |-> 1400]), Sample(5330, [jawOpen |-> 200])>>,
    <<Word(1, 5, 50, 140), Word(2, 7, 140, 145), Word(3, 3, 510, 533), Word(4, 4, -1, -1)>>)
Bare == Voice(Fallback, <<Sample(0, [jawOpen |-> 1496]), Sample(3496, [jawOpen |-> 100])>>, <<>>)
Overlapping == Voice(<<MouthCue("A", 0, 200), MouthCue("B", 150, 300)>>, Faces, <<>>)
ByTheEngine == Voice(Recognized, Faces, <<>>)

CodeScene == Scene("code_typing", [charsPerSecond |-> 20,
    code |-> <<"word", "(", "quote", "//", "quote", "newline", "//", "word", "newline", "keyword", "digit">>])
Cmd(len) == [kind |-> "command", text |-> len]
TerminalScene == Scene("terminal_run",
    [lines |-> <<Cmd(5), [text |-> 3], [kind |-> "success", text |-> 2, delayFrames |-> 2], Cmd(6)>>])
DiffScene == Scene("diff_view",
    [before |-> <<"a", "b", "c", "a">>, after |-> <<"b", "a", "c", "d">>])
NodeAt(id, col) == [id |-> id, label |-> 1, col |-> col]
FlowScene == Scene("flow_diagram",
    [nodes |-> <<[id |-> "n1", label |-> 1], NodeAt("n2", 1), NodeAt("n3", 1)>>,
     edges |-> <<[from |-> "n1", to |-> "n2"], [from |-> "n3", to |-> "n1"]>>])
NumberScene == Scene("big_number", [value |-> [numeric |-> 87, suffix |-> TRUE], label |-> 1])
MilestoneScene == Scene("timeline", [milestones |-> <<1, 2>>])
CalloutScene == Scene("callout", [variant |-> "danger", title |-> 1, body |-> 1])
\* An edge to a node that is not there.
BrokenScene == Scene("flow_diagram",
    [nodes |-> <<[id |-> "n1", label |-> 1]>>, edges |-> <<[from |-> "n1", to |-> "n2"]>>])

\* Two segments and then one: a shorter video over a longer one.
Shrinks == <<Version(<<Seg("a", TerminalScene, Short1("1", 1), Spoken),
                       Seg("b", CalloutScene, <<>>, Silent)>>, TRUE),
             Version(<<Seg("b", DiffScene, Short1("1", 1), Bare)>>, FALSE)>>
\* A segment is added to the video and to the first short, and the track stays.
Grows == <<Version(<<Seg("a", NumberScene, <<>>, Silent)>>, TRUE),
           Version(<<Seg("a", CodeScene, Short1("1", 1), Bare),
                     Seg("b", FlowScene, Short1("1", 1), Spoken)>>, TRUE)>>
\* Without a track.
Plain == <<Version(<<Seg("a", MilestoneScene, <<>>, Silent)>>, FALSE)>>
\* What a stage refuses: a scene, segments without a timeline, markers out of sequence, and
\* two spellings of one.
Refused == <<Version(<<Seg("a", BrokenScene, <<>>, Bare), Seg("b", NoScene, <<>>, Overlapping),
                       Seg("c", NoScene, <<>>, ByTheEngine)>>, FALSE)>>
Astray == <<Version(<<Seg("a", MilestoneScene, Short1("2", 2), Silent)>>, FALSE)>>
Respelt == <<Version(<<Seg("a", NoScene, Short1("1", 1), Bare),
                       Seg("b", NoScene, Short1("01", 1), Bare),
                       Seg("c", MilestoneScene, <<>>, Bare)>>, FALSE)>>

AllHistories == {Shrinks, Grows, Plain, Refused, Astray, Respelt}
BothSheets == {SpriteSheet, NoSheet}
===============================================================================
