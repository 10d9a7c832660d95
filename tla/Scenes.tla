------------------------------- MODULE Scenes -------------------------------
(***************************************************************************)
(* The closed scene grammar of the kit (scenes/schema.ts) and what each     *)
(* scene component shows at a frame of its segment.                         *)
(*                                                                         *)
(* A raw scene is [type, props], props a record that may lack a field or    *)
(* have one too many.  Code is a sequence of characters, by class; the other *)
(* texts are their lengths, since only how much of them is shown matters,   *)
(* and a value is its number, -1 when it has none.  Numbers are whole.      *)
(***************************************************************************)
EXTENDS Integers, Sequences, FiniteSets, SequencesExt, TLC

NoScene == [type |-> "none"]

-----------------------------------------------------------------------------
(* The grammar: the fields a type needs, and those that have a default *)

Grammar ==
    [code_typing  |-> [needs |-> {"code"},
                       defaults |-> [language |-> "typescript", charsPerSecond |-> 18]],
     diff_view    |-> [needs |-> {"before", "after"},
                       defaults |-> [language |-> "typescript", title |-> 0]],
     terminal_run |-> [needs |-> {"lines"}, defaults |-> [prompt |-> "$", cursor |-> TRUE]],
     flow_diagram |-> [needs |-> {"nodes"}, defaults |-> [edges |-> <<>>]],
     big_number   |-> [needs |-> {"value", "label"}, defaults |-> [context |-> 0]],
     timeline     |-> [needs |-> {"milestones"}, defaults |-> <<>>],
     callout      |-> [needs |-> {"variant", "title", "body"}, defaults |-> [icon |-> ""]]]

SceneTypes == DOMAIN Grammar

LineGrammar == [needs |-> {"text"}, defaults |-> [kind |-> "output", delayFrames |-> 0]]
NodeGrammar == [needs |-> {"id", "label"}, defaults |-> [col |-> 0]]

\* A strict object: every field it needs, and none the grammar does not know.
\* Mutant: the fields with a default are not known.
StrictOnce(g, props) == DOMAIN props = g.needs
Strict(g, props) ==
    g.needs \subseteq DOMAIN props /\ DOMAIN props \subseteq g.needs \cup DOMAIN g.defaults

\* The choice among one binds the props: TLC would evaluate them anew for every field.
WithDefaults(g, props) ==
    CHOOSE filled \in {[f \in DOMAIN p \cup DOMAIN g.defaults |->
                           IF f \in DOMAIN p THEN p[f] ELSE g.defaults[f]] : p \in {props}} : TRUE

AllStrict(g, s) == \A i \in DOMAIN s : Strict(g, s[i])
AllDefaults(g, s) == [i \in DOMAIN s |-> WithDefaults(g, s[i])]

Positive == Nat \ {0}
Character == {"//", "quote", "newline", "word", "keyword", "digit", "(", "other"}

IsSequence(s) == s \in Seq(ToSet(s))
IsFilled(s) == IsSequence(s) /\ s # <<>>

\* The conditions on values, once the fields are there and the defaults filled in.
ValidValues(type, p) ==
    CASE type = "code_typing"  ->
             p.code \in Seq(Character) \ {<<>>} /\ p.charsPerSecond \in Positive
      [] type = "diff_view"    -> IsSequence(p.before) /\ IsSequence(p.after)
      [] type = "terminal_run" ->
             IsFilled(p.lines) /\ \A i \in DOMAIN p.lines :
                 /\ p.lines[i].text \in Positive
                 /\ p.lines[i].kind \in {"command", "output", "success", "error"}
                 /\ p.lines[i].delayFrames \in Nat
      [] type = "flow_diagram" ->
             /\ IsFilled(p.nodes) /\ IsSequence(p.edges)
             /\ \A i \in DOMAIN p.nodes : p.nodes[i].col \in Nat
      [] type = "big_number"   -> p.value.numeric \in Nat \cup {-1}
      [] type = "timeline"     -> IsFilled(p.milestones)
      [] type = "callout"      -> p.variant \in {"info", "warning", "success", "danger"}

StrictElements(raw) ==
    /\ raw.type = "terminal_run" => AllStrict(LineGrammar, raw.props.lines)
    /\ raw.type = "flow_diagram" => AllStrict(NodeGrammar, raw.props.nodes)

\* The rule across fields: an edge joins nodes of the diagram.
FlowEdgeIssues(nodes, edges) ==
    LET ids == {nodes[i].id : i \in DOMAIN nodes}
    IN  {e \in (DOMAIN edges) \X {"from", "to"} : edges[e[1]][e[2]] \notin ids}

Filled(raw) ==
    LET p == WithDefaults(Grammar[raw.type], raw.props)
    IN  IF raw.type = "terminal_run"
        THEN [p EXCEPT !.lines = AllDefaults(LineGrammar, p.lines)]
        ELSE IF raw.type = "flow_diagram"
        THEN [p EXCEPT !.nodes = AllDefaults(NodeGrammar, p.nodes)]
        ELSE p

WellFormed(raw) ==
    /\ raw.type \in SceneTypes
    /\ Strict(Grammar[raw.type], raw.props)
    /\ StrictElements(raw)
    /\ ValidValues(raw.type, Filled(raw))

ParseScene(raw) ==
    IF /\ WellFormed(raw)
       /\ raw.type = "flow_diagram" =>
              FlowEdgeIssues(raw.props.nodes, Filled(raw).edges) = {}
    THEN [ok |-> TRUE, scene |-> [type |-> raw.type, props |-> Filled(raw)]]
    ELSE [ok |-> FALSE, scene |-> NoScene]

-----------------------------------------------------------------------------
(* Clocks the components share *)

AtMost(n, m) == IF n <= m THEN n ELSE m

\* For each n, the sum of the first n numbers of s.
Sums(s) ==
    LET sum[n \in 0 .. Len(s)] == IF n = 0 THEN 0 ELSE sum[n - 1] + s[n]
    IN  sum

\* interpolate(frame, [at, at + span], [0, 1], clamped), in steps of 1 / span.
Progress(frame, at, span) ==
    IF frame <= at THEN 0 ELSE AtMost(frame - at, span)

CharsVisible(frame, fps, total, perSecond) ==
    AtMost(total, (frame * perSecond) \div fps)

CursorPeriod == 16
IsCursorVisible(frame) == 2 * (frame % CursorPeriod) < CursorPeriod

StaggerFrames(index, perItem, base) == base + index * perItem

-----------------------------------------------------------------------------
(* terminal_run: the lines so far, the last of them perhaps half typed *)

TypeCharsPerSecond == 24

\* Math.ceil(len / 24 * fps)
CommandFrames(len, fps) == (len * fps + TypeCharsPerSecond - 1) \div TypeCharsPerSecond

\* The frame line i waits for: the delays up to it.  Typing takes no time of it.
LineStart(lines, i) ==
    Sums([k \in 1 .. Len(lines) |-> lines[k].delayFrames])[i]

StillTyping(lines, i, frame, fps) ==
    /\ lines[i].kind = "command"
    /\ LineStart(lines, i) <= frame
    /\ frame - LineStart(lines, i) < CommandFrames(lines[i].text, fps)

\* Lines come in order; the first one still waiting or still typing holds back
\* the ones after it.  Mutant: typing holds nothing back.
ReachedByTime(lines, i, frame, fps) == LineStart(lines, i) <= frame
Reached(lines, i, frame, fps) ==
    /\ LineStart(lines, i) <= frame
    /\ \A j \in 1 .. i - 1 : ~StillTyping(lines, j, frame, fps)

VisibleTerminalLines(lines, frame, fps) ==
    LET count == Cardinality({i \in DOMAIN lines : Reached(lines, i, frame, fps)})
        chars(i) == ((frame - LineStart(lines, i)) * TypeCharsPerSecond) \div fps
    IN  [i \in 1 .. count |->
            [kind   |-> lines[i].kind,
             prompt |-> lines[i].kind = "command",
             text   |-> IF StillTyping(lines, i, frame, fps)
                        THEN AtMost(lines[i].text, chars(i)) ELSE lines[i].text]]

\* The cursor's own clock, which counts the typing of the commands above.
TypingStart(lines, i, fps) ==
    LineStart(lines, i)
        + Sums([k \in 1 .. Len(lines) |->
                   IF lines[k].kind = "command" THEN CommandFrames(lines[k].text, fps) ELSE 0])[i - 1]

IsTyping(lines, frame, fps) ==
    \E i \in DOMAIN lines :
        /\ lines[i].kind = "command"
        /\ TypingStart(lines, i, fps) <= frame
        /\ frame - TypingStart(lines, i, fps) < CommandFrames(lines[i].text, fps)

TerminalRun(p, frame, fps) ==
    [lines  |-> VisibleTerminalLines(p.lines, frame, fps),
     cursor |-> p.cursor /\ (IsTyping(p.lines, frame, fps) \/ IsCursorVisible(frame))]
=============================================================================
