------------------------------- MODULE Avatar -------------------------------
(***************************************************************************)
(* The avatar rig of the kit: which mouth and which body the timeline of a  *)
(* segment asks for at a frame (selectors.ts), and the cell of the sprite   *)
(* sheet that is drawn for them (visemeMap.ts, AvatarSprite.tsx).           *)
(*                                                                         *)
(* A timeline is [dur, mouth, body, words]; a cue of mouth or body and a    *)
(* word have a window [start, end) in milliseconds.  The clock of frame f   *)
(* reads 1000 f / fps milliseconds; to stay with integers a time t here is  *)
(* 1000 f and is compared with milliseconds times fps.                      *)
(***************************************************************************)
EXTENDS Integers, Sequences, SequencesExt

Within(c, t, fps) == c.start * fps <= t /\ t < c.end * fps

\* The first item of s whose window holds t, or the given one.
FirstAt(s, t, fps, otherwise) ==
    LET hits == {i \in DOMAIN s : Within(s[i], t, fps)}
    IN  IF hits = {} THEN otherwise ELSE s[Min(hits)]

\* The item of s at t: clamped to the first and the last, and to the last in a gap.
Clamped(s, t, fps) ==
    IF t < s[1].start * fps THEN s[1]
    ELSE IF t >= Last(s).end * fps THEN Last(s)
    ELSE FirstAt(s, t, fps, Last(s))

-----------------------------------------------------------------------------
(* Mouth and body *)

Cycle == <<"A", "C", "E", "B">>                              \* under a word
Cadence == <<"A", "B", "E", "C", "A", "X", "E", "A">>        \* without words

\* The time within the phrase of 2.2 s of speech and 0.4 s of breath.
Phrase(t, fps) == t % (2600 * fps)
Breathing(t, fps) == Phrase(t, fps) > 2200 * fps

FallbackMouthCue(tl, t, fps) ==
    LET under == {i \in DOMAIN tl.words : Within(tl.words[i], t, fps)}
        since == t - tl.words[Min(under)].start * fps
    IN  IF tl.dur > 0 /\ t >= tl.dur * fps THEN "X"
        ELSE IF tl.words # <<>>
             THEN IF under = {} THEN "X" ELSE Cycle[((since \div (120 * fps)) % 4) + 1]
        ELSE IF Breathing(t, fps) THEN "X"
        ELSE Cadence[((Phrase(t, fps) \div (140 * fps)) % 8) + 1]

HasActiveCues(tl) == \E i \in DOMAIN tl.mouth : tl.mouth[i].shape # "X"

SelectMouthCue(tl, t, fps) ==
    IF HasActiveCues(tl) THEN Clamped(tl.mouth, t, fps).shape
    ELSE FallbackMouthCue(tl, t, fps)

SelectBodyState(tl, t, fps) ==
    IF \E i \in DOMAIN tl.body : tl.body[i].state # "idle"
    THEN Clamped(tl.body, t, fps).state
    ELSE IF Breathing(t, fps) THEN "idle" ELSE "falando"

-----------------------------------------------------------------------------
(* The cell of the sheet *)

\* sprite.json: the grid and the names of its rows and columns.
SpriteSheet == [columns |-> 4, rows |-> 5,
                states |-> <<"idle", "falando", "feliz", "pensativo", "surpreso">>,
                mouths |-> <<"rest", "open_a", "rounded_o", "wide_e">>]

\* What the runner passes for it: an object without any of the fields.
NoSheet == [columns |-> 0]

StateRow ==
    [idle |-> 0, neutro |-> 0, falando |-> 1, talking |-> 1, speech |-> 1,
     feliz |-> 2, happy |-> 2, smile |-> 2, sorriso |-> 2,
     pensativo |-> 3, thoughtful |-> 3, thinking |-> 3,
     surpreso |-> 4, surprised |-> 4]

ShapeToMouth(shape) ==
    CASE shape \in {"A", "B"} -> "open_a"
      [] shape \in {"C", "D"} -> "rounded_o"
      [] shape \in {"E", "F", "G"} -> "wide_e"
      [] OTHER -> "rest"

\* Array.indexOf with a floor of 0.
IndexOf(s, x) == LET at == {i \in DOMAIN s : s[i] = x}
                 IN  IF at = {} THEN 0 ELSE (CHOOSE i \in at : \A j \in at : i <= j) - 1

\* Drawing reads the list of mouths always, the list of states for a state the
\* rig has no row for.
Drawable(meta) == {"mouths", "states"} \subseteq DOMAIN meta

Cell(tl, meta, frame, fps) ==
    LET t == 1000 * frame
        state == SelectBodyState(tl, t, fps)
    IN  [row |-> IF state \in DOMAIN StateRow THEN StateRow[state]
                 ELSE IndexOf(meta.states, state),
         col |-> IndexOf(meta.mouths, ShapeToMouth(SelectMouthCue(tl, t, fps)))]
=============================================================================
