-------------------------------- MODULE Cues --------------------------------
(***************************************************************************)
(* The subtitle cues of a segment, subtitles/cues.ts of the kit.            *)
(*                                                                         *)
(* A word is [id, len, start, end]: its identity, the number of characters  *)
(* of its text (0 for a blank entry) and its window in milliseconds.  The   *)
(* text of a cue is the sequence of its words and the number of them that   *)
(* go on its first line.                                                    *)
(***************************************************************************)
EXTENDS Integers, Sequences, SequencesExt

MaxLineChars == 42
MaxLines == 2
GapMs == 350

\* Math.round of n / d for positive d: halves go up.
Round(n, d) == (2 * n + d) \div (2 * d)

MsToFrame(ms, fps) == Round(ms * fps, 1000)

Blank(w) == w.len = 0
Timed(w) == w.start >= 0 /\ w.end > w.start

-----------------------------------------------------------------------------
(* Wrapping a group of words *)

\* The length of words[from..to] joined with single spaces.
Joined(words, from, to) ==
    IF from > to THEN 0
    ELSE LET upTo[i \in from .. to] ==
                 IF i = from THEN words[i].len ELSE upTo[i - 1] + 1 + words[i].len
         IN  upTo[to]

Asymmetry(words, s) ==
    LET d == Joined(words, 1, s) - Joined(words, s + 1, Len(words))
    IN  IF d < 0 THEN -d ELSE d

NoFit == -1

\* How many words go on the first line: all of them, or the greedy fill moved
\* on while both lines keep getting closer; NoFit when two lines cannot hold them.
WrapBalanced(words, max, lines) ==
    LET n == Len(words)
        Fits(s) == Joined(words, 1, s) <= max
        greedy == CHOOSE s \in 0 .. n : Fits(s) /\ \A t \in s + 1 .. n : ~Fits(t)
        Moves(s) == \A t \in greedy + 1 .. s :
                        Fits(t) /\ Asymmetry(words, t) < Asymmetry(words, t - 1)
    IN  IF \E i \in 1 .. n : words[i].len > max THEN NoFit
        ELSE IF Joined(words, 1, n) <= max THEN n
        ELSE IF \/ lines < 2
                \/ greedy \in {0, n}
                \/ Joined(words, greedy + 1, n) > max
             THEN NoFit
        ELSE CHOOSE s \in greedy .. n - 1 :
                 Moves(s) /\ \A t \in s + 1 .. n - 1 : ~Moves(t)

FitsCue(words) == WrapBalanced(words, MaxLineChars, MaxLines) # NoFit

-----------------------------------------------------------------------------
(* Grouping words into cues: one pass, with the open group beside the cues *)

Cue(group, fps) ==
    [words |-> group,
     split |-> WrapBalanced(group, MaxLineChars, MaxLines),
     start |-> MsToFrame(group[1].start, fps),
     end   |-> MsToFrame(group[Len(group)].end, fps)]

Flush(st, fps) ==
    [cues  |-> IF st.group = <<>> \/ ~FitsCue(st.group) THEN st.cues
               ELSE Append(st.cues, Cue(st.group, fps)),
     group |-> <<>>]

\* A silence longer than the gap closes the open group.
AfterGap(st, w, fps) ==
    IF st.group # <<>> /\ w.start - st.group[Len(st.group)].end > GapMs
    THEN Flush(st, fps) ELSE st

\* A timed word joins the open group, or closes it and opens the next; a word
\* too long for a line is left out.
\* Mutant: the word that closes a group is lost.
ExtendDropping(open, w, fps) ==
    IF FitsCue(Append(open.group, w)) THEN [open EXCEPT !.group = Append(open.group, w)]
    ELSE Flush(open, fps)

Extend(open, w, fps) ==
    IF FitsCue(Append(open.group, w)) THEN [open EXCEPT !.group = Append(open.group, w)]
    ELSE [Flush(open, fps) EXCEPT !.group = IF FitsCue(<<w>>) THEN <<w>> ELSE <<>>]

\* A word without a time is left out, and closes the open group, which is shown.
TakeWord(st, w, fps) ==
    IF Blank(w) THEN st
    ELSE IF Timed(w) THEN Extend(AfterGap(st, w, fps), w, fps)
    ELSE Flush(st, fps)

BuildCues(words, fps) ==
    LET upTo[n \in 0 .. Len(words)] ==
            IF n = 0 THEN [cues |-> <<>>, group |-> <<>>]
            ELSE TakeWord(upTo[n - 1], words[n], fps)
    IN  Flush(upTo[Len(words)], fps).cues

\* The first cue whose window holds the frame, as a sequence of at most one.
SelectCue(cues, frame) ==
    LET active == {i \in DOMAIN cues : cues[i].start <= frame /\ frame < cues[i].end}
    IN  IF active = {} THEN <<>> ELSE <<cues[Min(active)]>>

-----------------------------------------------------------------------------
(* What cues promise of the words they are built from *)

Shown(w) == ~Blank(w) /\ Timed(w) /\ w.len <= MaxLineChars

\* Of words that can be shown, each has ended when the next begins.
Follow(words) ==
    \A i, j \in DOMAIN words :
        i < j /\ Shown(words[i]) /\ Shown(words[j]) => words[i].end <= words[j].start

\* Every word that can be shown is in one cue, in the order it is spoken; a
\* cue keeps to its lines and spans neither a silence nor a word without a
\* time; and, when the words follow one another, it is on screen while its words are
\* spoken (but for the half frame that rounding its end may take).  This is the code:
\* flush() shows the words that were grouped before one without a time, of which the comment
\* at cues.ts:79 says that they are dropped with it (cues.test.ts:78, "drops groups missing
\* word timing", looks at the untimed word only).
CuesCover(cues, words, fps) ==
    /\ FlattenSeq([i \in DOMAIN cues |-> cues[i].words])
           = FlattenSeq([i \in DOMAIN words |-> IF Shown(words[i]) THEN <<words[i]>> ELSE <<>>])
    /\ \A i \in DOMAIN cues :
           LET c == cues[i] IN
           /\ Joined(c.words, 1, c.split) <= MaxLineChars
           /\ Joined(c.words, c.split + 1, Len(c.words)) <= MaxLineChars
           /\ \A k \in 1 .. Len(c.words) - 1 :
                  c.words[k + 1].start - c.words[k].end <= GapMs
           /\ \A j \in DOMAIN words :
                  ~Blank(words[j]) /\ ~Timed(words[j])
                      => \/ \A k \in DOMAIN c.words : c.words[k].id < words[j].id
                         \/ \A k \in DOMAIN c.words : c.words[k].id > words[j].id
    /\ Follow(words) =>
           \A i \in DOMAIN words :
               \A f \in MsToFrame(words[i].start, fps) .. MsToFrame(words[i].end, fps) :
                   Shown(words[i]) /\ words[i].start * fps <= 1000 * f
                                   /\ 1000 * f <= words[i].end * fps - 500
                       => \E c \in ToSet(SelectCue(cues, f)) : words[i] \in ToSet(c.words)
=============================================================================
