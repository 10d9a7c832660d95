----------------------------- MODULE SceneViews -----------------------------
(***************************************************************************)
(* What the other scene components show: code being typed, a diff, a flow   *)
(* diagram, a number counting up, milestones and a callout; and the one     *)
(* view the compositor picks by the type of the scene.                      *)
(***************************************************************************)
EXTENDS Scenes

-----------------------------------------------------------------------------
(* code_typing: the typed prefix, highlighted.  Of the classes a character   *)
(* may be of, "//" opens a comment.                                          *)

\* Where the token that starts at p ends.
TokenEnd(code, p) ==
    LET n == Len(code)
        newline == {q \in p .. n : code[q] = "newline"}
        closing == {q \in p + 1 .. n : code[q] = "quote" /\ "newline" \notin ToSet(SubSeq(code, p, q))}
        Least(S) == CHOOSE q \in S : \A r \in S : q <= r
    IN  CASE code[p] = "//" -> IF newline = {} THEN n ELSE Least(newline) - 1
          [] code[p] = "quote" -> IF closing = {} THEN p ELSE Least(closing)
          [] OTHER -> p

TokenKind(code, p) ==
    CASE code[p] = "//" -> "comment"
      [] code[p] = "quote" -> IF TokenEnd(code, p) > p THEN "string" ELSE "plain"
      [] code[p] = "keyword" -> "keyword"
      [] code[p] = "word" -> IF p < Len(code) /\ code[p + 1] = "(" THEN "function" ELSE "plain"
      [] code[p] = "digit" -> "number"
      [] OTHER -> "plain"

\* The colour of every character: that of the token it falls in.
Tokenize(code) ==
    LET start[p \in DOMAIN code] ==
            IF p = 1 THEN 1
            ELSE IF TokenEnd(code, start[p - 1]) < p THEN p ELSE start[p - 1]
    IN  [p \in DOMAIN code |-> <<code[p], TokenKind(code, start[p])>>]

CodeTyping(p, frame, fps) ==
    [typed  |-> Tokenize(SubSeq(p.code, 1,
                     CharsVisible(frame, fps, Len(p.code), p.charsPerSecond))),
     cursor |-> IsCursorVisible(frame)]

-----------------------------------------------------------------------------
(* diff_view: the longest common subsequence of the lines, walked forwards *)

Larger(a, b) == IF a >= b THEN a ELSE b

\* Of two ways on, the one that keeps more of the rest; removals go first.
\* Mutant: the one that keeps less.
RemovesAgainst(afterRemoval, afterAddition) == afterRemoval < afterAddition
Removes(afterRemoval, afterAddition) == afterRemoval >= afterAddition

Diff(before, after) ==
    LET n == Len(before)
        m == Len(after)
        Cells == (1 .. n + 1) \X (1 .. m + 1)
        \* lcs[i, j]: its length for before[i..] and after[j..]
        lcs[c \in Cells] ==
            LET i == c[1]  j == c[2] IN
            IF i > n \/ j > m THEN 0
            ELSE IF before[i] = after[j] THEN lcs[<<i + 1, j + 1>>] + 1
            ELSE Larger(lcs[<<i + 1, j>>], lcs[<<i, j + 1>>])
        Line(kind, text) == <<[kind |-> kind, text |-> text]>>
        walk[c \in Cells] ==
            LET i == c[1]  j == c[2] IN
            IF i > n /\ j > m THEN <<>>
            ELSE IF i <= n /\ j <= m /\ before[i] = after[j]
                 THEN Line("context", before[i]) \o walk[<<i + 1, j + 1>>]
            ELSE IF j > m \/ (i <= n /\ Removes(lcs[<<i + 1, j>>], lcs[<<i, j + 1>>]))
                 THEN Line("removed", before[i]) \o walk[<<i + 1, j>>]
            ELSE Line("added", after[j]) \o walk[<<i, j + 1>>]
    IN  walk[<<1, 1>>]

OfKind(lines, K) ==
    FlattenSeq([i \in DOMAIN lines |-> IF lines[i].kind \in K THEN <<lines[i]>> ELSE <<>>])

\* One panel shows the removals and the other the additions; a panel whose side
\* is empty shows every line.
DiffPanel(lines, side, kind) == IF side = <<>> THEN lines ELSE OfKind(lines, {kind})

DiffView(p) ==
    LET lines == Diff(p.before, p.after)
    IN  [antes |-> DiffPanel(lines, p.before, "removed"),
         depois |-> DiffPanel(lines, p.after, "added")]

-----------------------------------------------------------------------------
(* flow_diagram: nodes on a grid of columns, edges between their points *)

\* The point of node i, in hundredths of the canvas, times 2 * columns and
\* 2 * nodes in its column: the fractions stay whole.
NodePoint(nodes, i) ==
    LET cols == {nodes[k].col : k \in DOMAIN nodes}
        numCols == (CHOOSE c \in cols : \A d \in cols : d <= c) + 1
        column == {k \in DOMAIN nodes : nodes[k].col = nodes[i].col}
        row == Cardinality({k \in column : k < i})
    IN  [x |-> <<100 * (2 * nodes[i].col + 1), 2 * numCols>>,
         y |-> <<100 * (2 * row + 1), 2 * Cardinality(column)>>]

LayoutColumns(nodes) == [i \in DOMAIN nodes |-> NodePoint(nodes, i)]

\* A map from node ids, where the last of the nodes with an id wins.
ById(nodes, id) == CHOOSE i \in DOMAIN nodes :
                       nodes[i].id = id /\ \A k \in i + 1 .. Len(nodes) : nodes[k].id # id

NodeAppears(i) == 4 + (i - 1) * 6
EdgeAppears(nodes, e) == NodeAppears(ById(nodes, e.from)) + 3

FlowDiagram(p, frame) ==
    LET ids == {p.nodes[i].id : i \in DOMAIN p.nodes} IN
    [nodes |-> {<<LayoutColumns(p.nodes)[i], Progress(frame, NodeAppears(ById(p.nodes, p.nodes[i].id)), 8)>> :
                    i \in DOMAIN p.nodes},
     edges |-> {<<k, Progress(frame, EdgeAppears(p.nodes, p.edges[k]), 10)>> :
                    k \in {e \in DOMAIN p.edges :
                              /\ {p.edges[e].from, p.edges[e].to} \subseteq ids
                              /\ EdgeAppears(p.nodes, p.edges[e]) <= frame}}]

-----------------------------------------------------------------------------
(* big_number, timeline and callout *)

CountFrames == 30

\* The number counts up over the first second and the rest of the value follows
\* when it is there; a value without a number is shown as it is.
BigNumber(p, frame) ==
    LET f == Progress(frame, 0, CountFrames)
    IN  IF p.value.numeric = -1 THEN [number |-> -1, suffix |-> TRUE]
        ELSE [number |-> (2 * p.value.numeric * f + CountFrames) \div (2 * CountFrames),
              suffix |-> f = CountFrames]

PerItem == 12
Base == 6

Timeline(p, frame) ==
    {i \in DOMAIN p.milestones : StaggerFrames(i - 1, PerItem, Base) <= frame}

CalloutVariant ==
    [info |-> "info", warning |-> "warn", success |-> "success", danger |-> "idea"]

\* An icon the set knows replaces that of the variant.
Callout(p, frame) ==
    [icon  |-> IF p.icon \in {"info", "warn", "success", "idea"} THEN p.icon
               ELSE CalloutVariant[p.variant],
     shown |-> Progress(frame, 0, 15)]

-----------------------------------------------------------------------------
(* The component of a scene, and how much of the scene it has shown *)

\* Terminal lines, characters, nodes, edges, milestones or steps of a fade.
SceneVisual(scene, frame, fps) ==
    LET p == scene.props IN
    CASE scene.type = "code_typing"  -> CodeTyping(p, frame, fps)
      [] scene.type = "diff_view"    -> DiffView(p)
      [] scene.type = "terminal_run" -> TerminalRun(p, frame, fps)
      [] scene.type = "flow_diagram" -> FlowDiagram(p, frame)
      [] scene.type = "big_number"   -> BigNumber(p, frame)
      [] scene.type = "timeline"     -> Timeline(p, frame)
      [] scene.type = "callout"      -> Callout(p, frame)
=============================================================================
