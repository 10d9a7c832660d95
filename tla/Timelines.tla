------------------------------ MODULE Timelines ------------------------------
(***************************************************************************)
(* How the timeline of a segment is made of its take (timeline/build.go and  *)
(* buildSegment of timeline/service.go): the cues of the mouth with the      *)
(* silence around them, the windows of body states, the words.               *)
(*                                                                         *)
(* A take is [samples, cues, words].  Its samples are those of the live     *)
(* avatar, and the service reads what serializeBlendshapes makes of them;   *)
(* its cues are those of the sidecar: of a file that is there, or of what   *)
(* loadOrGenerateVisemes makes.  When which of its files are there, and     *)
(* what becomes of the video, is in Recording.tla; what the kit draws of a  *)
(* timeline, in Avatar.tla.                                                 *)
(***************************************************************************)
EXTENDS Expressions

NoTimeline == [dur |-> 0]

MouthCue(shape, start, end) == [shape |-> shape, start |-> start, end |-> end]

\* Without an engine, or when it fails, the sidecar has no cues.  One that RecognizeWithCache
\* writes (cache.go:65) has the number of a byte where the service looks for a letter.
Fallback == <<>>
Recognized == <<MouthCue("byte", 0, 0)>>

ToUpper == [a |-> "A", b |-> "B", c |-> "C", d |-> "D", e |-> "E", f |-> "F", g |-> "G",
            h |-> "H", x |-> "X"]
Letter(shape) == IF shape \in DOMAIN ToUpper THEN ToUpper[shape] ELSE shape

\* Mutant: the silence between two cues is left open.
GapsLeft(cue, before) == <<cue>>

\* A cue, and the silence from where the one before has ended.
AfterSilence(cue, before) ==
    (IF cue.start > before THEN <<MouthCue("X", before, cue.start)>> ELSE <<>>) \o <<cue>>

\* The end of the cue before cue i.
Before(cues, i) == IF i = 1 THEN 0 ELSE cues[i - 1].end

Overlap(cues) == \E i \in DOMAIN cues : i > 1 /\ cues[i].start < Before(cues, i)

InsertSilenceGaps(cues, dur) ==
    IF cues = <<>> THEN <<>>
    ELSE FlattenSeq([i \in DOMAIN cues |-> AfterSilence(cues[i], Before(cues, i))])
         \o IF dur > Last(cues).end THEN <<MouthCue("X", Last(cues).end, dur)>> ELSE <<>>

\* The time of the last sample.
Duration(samples) == IF samples = <<>> THEN 0 ELSE Last(samples).t

\* Of no cues there is one of silence.
MouthCues(cues, dur) ==
    IF cues # <<>> THEN InsertSilenceGaps(cues, dur)
    ELSE IF dur > 0 THEN <<MouthCue("X", 0, dur)>> ELSE <<>>

\* What is refused blocks the video.
BuildSegment(take) ==
    LET samples == SerializeBlendshapes(take.samples, TRUE).samples
        dur == Duration(samples)
        upper == [i \in DOMAIN take.cues |-> [take.cues[i] EXCEPT !.shape = Letter(@)]]
    IN  IF take.cues = Recognized \/ Overlap(take.cues) THEN NoTimeline
        ELSE [dur |-> dur, mouth |-> MouthCues(upper, dur),
              body |-> DeriveBodyStates(samples, dur), words |-> take.words]

-----------------------------------------------------------------------------
(* The takes there are, and the timelines *)

\* A take as the page records it: samples in the order of time, cues that end no sooner than
\* they start (visemes.go:51 sees to it), words as they are counted in the narration.
Recordable(take) ==
    /\ take.samples \in Seq(ToSet(take.samples))
    /\ take.cues \in Seq(ToSet(take.cues))
    /\ take.words \in Seq(ToSet(take.words))
    /\ \A i \in DOMAIN take.samples :
           /\ take.samples[i].t \in Nat
           /\ i > 1 => take.samples[i - 1].t <= take.samples[i].t
           /\ \A name \in DOMAIN take.samples[i].bs : take.samples[i].bs[name] \in Nat
    /\ \A cue \in ToSet(take.cues) :
           /\ cue = MouthCue(cue.shape, cue.start, cue.end)
           /\ cue.start \in Nat /\ cue.end \in Nat /\ cue.start <= cue.end
    /\ \A i \in DOMAIN take.words :
           LET word == take.words[i] IN
           /\ word.len \in Nat /\ word.start \in Int /\ word.end \in Int /\ word.id \in Int
           /\ i > 1 => take.words[i - 1].id < word.id

\* A timeline is what the timeline service made of a take, if it made one.
MadeOfTake(tl) ==
    \/ tl = NoTimeline
    \/ /\ Recordable(tl.take) /\ BuildSegment(tl.take) # NoTimeline
       /\ \A field \in {"dur", "mouth", "body", "words"} :
              tl[field] = BuildSegment(tl.take)[field]
=============================================================================
