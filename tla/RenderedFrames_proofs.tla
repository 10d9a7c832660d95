------------------------ MODULE RenderedFrames_proofs ------------------------
(***************************************************************************)
(* Proofs about what RenderedFrames computes from the data of a script: for *)
(* takes, narrations and diffs of any length, a diff keeps as much as can   *)
(* be kept, the avatar says what is heard, and the subtitles lose no word.  *)
(* That one segment at a time is shown, as its preview showed it, in scenes *)
(* that only grow, is proved in RenderStages_proofs, with the lemmas on the *)
(* clock of the frames that are used here.                                  *)
(*                                                                         *)
(* The kit and the timeline service compute with functions that are         *)
(* recursive, or that flatten a sequence of sequences.  The first section   *)
(* shows that such a function is what its definition says; the rest is by   *)
(* induction over the lines, cues, samples and words it takes one by one.   *)
(***************************************************************************)
EXTENDS RenderStages_proofs, SequenceTheorems

-----------------------------------------------------------------------------
(* Functions that are computed step by step *)

\* One step of computing a function on C everywhere: at c it looks at places of a lower
\* rank only.
ComputesFrom(Up, rank, N, C, V) ==
    /\ V # {} /\ N \in Nat /\ rank \in [C -> 0 .. N]
    /\ Up \in [[C -> V] -> [C -> V]]
    /\ \A f \in [C -> V], g \in [C -> V], c \in C :
           (\A d \in C : rank[d] < rank[c] => f[d] = g[d]) => Up[f][c] = Up[g][c]

\* Then there is such a function.
LEMMA RecursionTheorem ==
    ASSUME NEW Up, NEW rank, NEW N, NEW C, NEW V, ComputesFrom(Up, rank, N, C, V)
    PROVE  \E f \in [C -> V] : Up[f] = f
<1> USE DEF ComputesFrom
<1> DEFINE Upto(f, k) == \A c \in C : rank[c] < k => Up[f][c] = f[c]
           T == {k \in 0 .. N + 1 : \E f \in [C -> V] : Upto(f, k)}
<1>1. 0 \in T
  <2>1. PICK v \in V : TRUE
    OBVIOUS
  <2>2. PICK f : f = [c \in C |-> v]
    OBVIOUS
  <2>3. \A c \in C : ~(rank[c] < 0)
    OBVIOUS
  <2>4. f \in [C -> V] /\ Upto(f, 0)
    BY <2>2, <2>3
  <2> QED
    BY <2>4
<1>2. ASSUME NEW k \in 1 .. N + 1, k - 1 \in T PROVE k \in T
  <2>1. PICK f \in [C -> V] : Upto(f, k - 1)
    BY <1>2
  <2>2. PICK g \in [C -> V] : g = Up[f]
    OBVIOUS
  <2>3. ASSUME NEW c \in C, rank[c] < k PROVE Up[g][c] = g[c]
    <3>1. ASSUME NEW d \in C, rank[d] < rank[c] PROVE g[d] = f[d]
      <4>1. rank[d] < k - 1
        BY <2>3, <3>1
      <4> QED
        BY <2>1, <2>2, <4>1
    <3>2. Up[g][c] = Up[f][c]
      BY <3>1
    <3> QED
      BY <2>2, <3>2
  <2> QED
    BY <2>3
<1>3. N + 1 \in T
  <2>1. 0 .. N + 1 \subseteq T
    <3> HIDE DEF T
    <3> QED
      BY <1>1, <1>2, UpToInduction
  <2> QED
    BY <2>1
<1>4. PICK f \in [C -> V] : Upto(f, N + 1)
  BY <1>3
<1>5. \A c \in C : Up[f][c] = f[c]
  BY <1>4
<1> QED
  BY <1>5

-----------------------------------------------------------------------------
(* Sequences one after the other: f[i] is the first i of them. *)

Unrolls(f, seqs, n) == f = [i \in 1 .. n |-> IF i = 1 THEN seqs[i] ELSE f[i - 1] \o seqs[i]]

LEMMA UnrollsIs ==
    ASSUME NEW seqs, NEW n \in Nat, NEW f
    PROVE  Unrolls(f, seqs, n) <=>
           /\ f = [i \in 1 .. n |-> f[i]]
           /\ \A i \in 1 .. n : f[i] = IF i = 1 THEN seqs[i] ELSE f[i - 1] \o seqs[i]
<1> DEFINE g == [i \in 1 .. n |-> IF i = 1 THEN seqs[i] ELSE f[i - 1] \o seqs[i]]
<1>1. Unrolls(f, seqs, n) <=> f = g
  BY DEF Unrolls
<1>2. \A i \in 1 .. n : g[i] = IF i = 1 THEN seqs[i] ELSE f[i - 1] \o seqs[i]
  OBVIOUS
<1>3. g = [i \in 1 .. n |-> g[i]]
  OBVIOUS
<1> HIDE DEF g
<1> QED
  BY <1>1, <1>2, <1>3

LEMMA UnrollingExists ==
    ASSUME NEW seqs
    PROVE  \A n \in Nat : \E f : Unrolls(f, seqs, n)
<1> DEFINE Bad == {n \in Nat : ~\E f : Unrolls(f, seqs, n)}
<1> SUFFICES ASSUME Bad # {} PROVE FALSE
  OBVIOUS
<1>1. PICK n \in Bad : \A m \in Bad : n <= m
  BY LeastElement
<1>2. n \in Nat /\ ~\E f : Unrolls(f, seqs, n)
  OBVIOUS
<1>3. n # 0
  <2>1. Unrolls([i \in 1 .. 0 |-> seqs], seqs, 0)
    BY DEF Unrolls
  <2> QED
    BY <1>2, <2>1
<1>4. n - 1 \in Nat /\ n - 1 \notin Bad
  BY <1>1, <1>2, <1>3
<1>5. PICK f : Unrolls(f, seqs, n - 1)
  BY <1>4
<1>6. \A i \in 1 .. n - 1 : f[i] = IF i = 1 THEN seqs[i] ELSE f[i - 1] \o seqs[i]
  BY <1>4, <1>5, UnrollsIs
<1> DEFINE g == [i \in 1 .. n |-> IF i # n THEN f[i]
                                 ELSE IF n = 1 THEN seqs[n] ELSE f[n - 1] \o seqs[n]]
<1>7. g = [i \in 1 .. n |-> g[i]]
  OBVIOUS
<1>8. g[n] = IF n = 1 THEN seqs[n] ELSE f[n - 1] \o seqs[n]
  BY <1>2, <1>3
<1>9. \A i \in 1 .. n - 1 : g[i] = f[i]
  BY <1>2
<1> HIDE DEF g
<1>10. ASSUME NEW i \in 1 .. n
       PROVE  g[i] = IF i = 1 THEN seqs[i] ELSE g[i - 1] \o seqs[i]
  <2>1. CASE i = n
    <3>1. i # 1 => g[i - 1] = f[i - 1]
      BY <1>2, <1>9, <2>1
    <3> QED
      BY <1>8, <2>1, <3>1
  <2>2. CASE i # n
    <3>1. i \in 1 .. n - 1 /\ (i # 1 => i - 1 \in 1 .. n - 1)
      BY <1>2, <2>2
    <3> QED
      BY <1>6, <1>9, <3>1
  <2> QED
    BY <2>1, <2>2
<1>11. Unrolls(g, seqs, n)
  BY <1>2, <1>7, <1>10, UnrollsIs
<1> QED
  BY <1>2, <1>11

\* However many there are to follow, the first i are the same.
LEMMA UnrollingsAgree ==
    ASSUME NEW seqs, NEW more, NEW n \in Nat, NEW m \in Nat, n <= m,
           \A i \in 1 .. n : more[i] = seqs[i],
           NEW f, Unrolls(f, seqs, n), NEW g, Unrolls(g, more, m)
    PROVE  \A i \in 1 .. n : f[i] = g[i]
<1> DEFINE Bad == {i \in 1 .. n : f[i] # g[i]}
<1> SUFFICES ASSUME Bad # {} PROVE FALSE
  OBVIOUS
<1>1. PICK i \in Bad : \A j \in Bad : i <= j
  <2>1. Bad \subseteq Nat
    OBVIOUS
  <2> HIDE DEF Bad
  <2> QED
    BY <2>1, LeastElement
<1>2. i \in 1 .. n /\ i \in 1 .. m /\ f[i] # g[i]
  OBVIOUS
<1>3. /\ f[i] = IF i = 1 THEN seqs[i] ELSE f[i - 1] \o seqs[i]
      /\ g[i] = IF i = 1 THEN more[i] ELSE g[i - 1] \o more[i]
  BY <1>2, UnrollsIs
<1>4. i # 1 => i - 1 \in 1 .. n /\ i - 1 \notin Bad
  BY <1>1, <1>2
<1>5. i # 1 => f[i - 1] = g[i - 1]
  BY <1>4
<1> QED
  BY <1>2, <1>3, <1>5

\* Sequences flattened are the last of their unrolling.
LEMMA FlattenIs ==
    ASSUME NEW S, NEW seqs \in Seq(S)
    PROVE  /\ Len(seqs) = 0 => FlattenSeq(seqs) = <<>>
           /\ Len(seqs) # 0 => \E f : Unrolls(f, seqs, Len(seqs)) /\ FlattenSeq(seqs) = f[Len(seqs)]
<1>1. Len(seqs) \in Nat
  OBVIOUS
<1>2. Len(seqs) = 0 => seqs = <<>>
  OBVIOUS
<1>3. PICK f : Unrolls(f, seqs, Len(seqs))
  BY <1>1, UnrollingExists
<1> DEFINE flatten == CHOOSE g : Unrolls(g, seqs, Len(seqs))
<1>4. Unrolls(flatten, seqs, Len(seqs))
  BY <1>3
<1>5. Len(seqs) # 0 => FlattenSeq(seqs) = flatten[Len(seqs)]
  BY DEF FlattenSeq, Unrolls
<1>6. Len(seqs) = 0 => FlattenSeq(seqs) = seqs
  BY DEF FlattenSeq
<1> HIDE DEF flatten
<1> QED
  BY <1>2, <1>4, <1>5, <1>6

\* One more sequence is flattened by adding it at the end.
LEMMA FlattenLast ==
    ASSUME NEW T, NEW seqs \in Seq(T), NEW s \in T
    PROVE  FlattenSeq(Append(seqs, s)) = IF seqs = <<>> THEN s ELSE FlattenSeq(seqs) \o s
<1>1. PICK n \in Nat : n = Len(seqs)
  BY LenProperties
<1>2. PICK k \in Nat : k = n + 1
  BY <1>1
<1>3. PICK more : more = Append(seqs, s)
  OBVIOUS
<1>4. more \in Seq(T) /\ Len(more) = k /\ more[k] = s /\ \A i \in 1 .. n : more[i] = seqs[i]
  BY <1>1, <1>2, <1>3, AppendProperties
<1>5. PICK g : Unrolls(g, more, k) /\ FlattenSeq(more) = g[k]
  <2>1. Len(more) # 0
    BY <1>2, <1>4
  <2> QED
    BY <1>4, <2>1, FlattenIs
<1>6. g[k] = IF k = 1 THEN s ELSE g[k - 1] \o s
  <2>1. k \in 1 .. k
    BY <1>2
  <2> QED
    BY <1>4, <1>5, <2>1, UnrollsIs
<1>7. k - 1 = n /\ n <= k
  BY <1>2
<1>8. CASE n = 0
  <2>1. seqs = <<>>
    BY <1>1, <1>8, EmptySeq
  <2> QED
    BY <1>2, <1>3, <1>5, <1>6, <1>8, <2>1
<1>9. CASE n # 0
  <2>1. PICK f : Unrolls(f, seqs, n) /\ FlattenSeq(seqs) = f[n]
    BY <1>1, <1>9, FlattenIs
  <2>2. \A i \in 1 .. n : f[i] = g[i]
    <3>1. \A i \in 1 .. n : more[i] = seqs[i]
      BY <1>4
    <3>2. Unrolls(g, more, k) /\ Unrolls(f, seqs, n) /\ n <= k
      BY <1>5, <1>7, <2>1
    <3> QED
      BY <3>1, <3>2, UnrollingsAgree
  <2>3. n \in 1 .. n /\ k # 1
    BY <1>2, <1>9
  <2>4. seqs # <<>>
    BY <1>1, <1>9, EmptySeq
  <2>5. g[k] = g[n] \o s
    BY <1>6, <1>7, <2>3
  <2> QED
    BY <1>3, <1>5, <2>1, <2>2, <2>3, <2>4, <2>5
<1> QED
  BY <1>8, <1>9

LEMMA FlattenEmpty == FlattenSeq(<<>>) = <<>>
<1>1. <<>> \in Seq({}) /\ Len(<<>>) = 0
  OBVIOUS
<1> QED
  BY <1>1, FlattenIs

\* Sequences that are not as they should be have a shortest among them.
LEMMA Shortest ==
    ASSUME NEW T, NEW bad, bad \subseteq Seq(T), bad # {}
    PROVE  \E ss \in bad : \A tt \in bad : Len(ss) <= Len(tt)
<1> DEFINE lens == {Len(ss) : ss \in bad}
<1>1. lens \subseteq Nat /\ lens # {}
  BY LenProperties
<1>2. PICK n \in lens : \A m \in lens : n <= m
  <2> HIDE DEF lens
  <2> QED
    BY <1>1, LeastElement
<1> QED
  BY <1>2

LEMMA ShorterOrEmpty ==
    ASSUME NEW T, NEW ss \in Seq(T), ss # <<>>
    PROVE  \E front \in Seq(T), last \in T :
               ss = Append(front, last) /\ ~(Len(ss) <= Len(front))
<1>1. PICK front \in Seq(T), last \in T : ss = Append(front, last)
  BY SequenceEmptyOrAppend
<1>2. Len(front) \in Nat /\ Len(ss) = Len(front) + 1
  BY <1>1, AppendProperties, LenProperties
<1> QED
  BY <1>1, <1>2

\* What of the sequences over a set the next two need: as Seq(S), T is one set like another.
Joins(T) ==
    /\ <<>> \in T
    /\ \A ss \in T, tt \in T : ss \o tt \in T
    /\ \A ss \in T : <<>> \o ss = ss /\ ss \o <<>> = ss
    /\ \A ss \in T, tt \in T, uu \in T : (ss \o tt) \o uu = ss \o (tt \o uu)

\* One sequence after another, where the provers need no more than Joins to say of it.
Cat(ss, tt) == ss \o tt

LEMMA Associates ==
    ASSUME NEW T, Joins(T)
    PROVE  \A ss \in T, tt \in T, uu \in T : Cat(Cat(ss, tt), uu) = Cat(ss, Cat(tt, uu))
BY DEF Joins, Cat

LEMMA SequencesJoin ==
    ASSUME NEW S
    PROVE  Joins(Seq(S))
<1>1. <<>> \in Seq(S)
  BY EmptySeq
<1>2. \A ss \in Seq(S), tt \in Seq(S) : ss \o tt \in Seq(S)
  BY ConcatProperties
<1>3. \A ss \in Seq(S) : <<>> \o ss = ss /\ ss \o <<>> = ss
  BY ConcatEmptySeq
<1>4. \A ss \in Seq(S), tt \in Seq(S), uu \in Seq(S) : (ss \o tt) \o uu = ss \o (tt \o uu)
  BY ConcatAssociative
<1> QED
  BY <1>1, <1>2, <1>3, <1>4 DEF Joins

LEMMA FlattenAppend ==
    ASSUME NEW T, Joins(T), NEW seqs \in Seq(T), NEW s \in T
    PROVE  FlattenSeq(Append(seqs, s)) = FlattenSeq(seqs) \o s
<1>1. FlattenSeq(Append(seqs, s)) = IF seqs = <<>> THEN s ELSE FlattenSeq(seqs) \o s
  BY FlattenLast
<1> QED
  BY <1>1, FlattenEmpty DEF Joins

LEMMA FlattenTyped ==
    ASSUME NEW T, Joins(T), NEW seqs \in Seq(T)
    PROVE  FlattenSeq(seqs) \in T
<1> DEFINE bad == {ss \in Seq(T) : FlattenSeq(ss) \notin T}
<1> SUFFICES ASSUME bad # {} PROVE FALSE
  OBVIOUS
<1>1. PICK ss \in bad : \A tt \in bad : Len(ss) <= Len(tt)
  <2>1. bad \subseteq Seq(T)
    OBVIOUS
  <2> HIDE DEF bad
  <2> QED
    BY <2>1, Shortest
<1>2. ss \in Seq(T) /\ FlattenSeq(ss) \notin T
  OBVIOUS
<1>3. CASE ss = <<>>
  <2>1. Len(ss) = 0
    BY <1>3, EmptySeq
  <2>2. FlattenSeq(ss) = <<>>
    BY <1>2, <2>1, FlattenIs
  <2> QED
    BY <1>2, <2>2 DEF Joins
<1>4. CASE ss # <<>>
  <2>1. PICK front \in Seq(T), last \in T :
            ss = Append(front, last) /\ ~(Len(ss) <= Len(front))
    BY <1>2, <1>4, ShorterOrEmpty
  <2>2. FlattenSeq(front) \in T
    BY <1>1, <2>1
  <2>3. FlattenSeq(ss) = FlattenSeq(front) \o last
    BY <2>1, FlattenAppend
  <2> QED
    BY <1>2, <2>1, <2>2, <2>3 DEF Joins
<1> QED
  BY <1>3, <1>4

\* What is flattened begins with the first sequence.
LEMMA FlattenHead ==
    ASSUME NEW T, Joins(T), NEW seqs \in Seq(T), seqs # <<>>
    PROVE  FlattenSeq(seqs) = Head(seqs) \o FlattenSeq(Tail(seqs))
<1> DEFINE Splits(ss) == FlattenSeq(ss) = Head(ss) \o FlattenSeq(Tail(ss))
           bad == {ss \in Seq(T) : ss # <<>> /\ ~Splits(ss)}
<1> SUFFICES ASSUME bad # {} PROVE FALSE
  OBVIOUS
<1>1. PICK ss \in bad : \A tt \in bad : Len(ss) <= Len(tt)
  <2>1. bad \subseteq Seq(T)
    OBVIOUS
  <2> HIDE DEF bad
  <2> QED
    BY <2>1, Shortest
<1>2. ss \in Seq(T) /\ ss # <<>> /\ ~Splits(ss)
  OBVIOUS
<1>3. \A tt \in Seq(T) : tt # <<>> /\ ~(Len(ss) <= Len(tt)) => Splits(tt)
  BY <1>1
<1> HIDE DEF bad
<1>4. PICK front \in Seq(T), last \in T :
          ss = Append(front, last) /\ ~(Len(ss) <= Len(front))
  BY <1>2, ShorterOrEmpty
<1>5. FlattenSeq(front) \in T /\ FlattenSeq(ss) = FlattenSeq(front) \o last
  BY <1>4, FlattenTyped, FlattenAppend
<1>6. /\ Head(ss) = IF front = <<>> THEN last ELSE Head(front)
      /\ Tail(ss) = IF front = <<>> THEN <<>> ELSE Append(Tail(front), last)
  BY <1>4, HeadTailAppend
<1>7. CASE front = <<>>
  <2>1. <<>> \o last = last /\ last \o <<>> = last
    BY <1>4 DEF Joins
  <2> QED
    BY <1>2, <1>5, <1>6, <1>7, <2>1, FlattenEmpty
<1>8. \A a \in T, b \in T, c \in T : Cat(Cat(a, b), c) = Cat(a, Cat(b, c))
  BY Associates
<1>9. CASE front # <<>>
  <2>1. Head(front) \in T /\ Tail(front) \in Seq(T)
    BY <1>4, <1>9, HeadTailProperties
  <2>2. FlattenSeq(front) = Head(front) \o FlattenSeq(Tail(front))
    BY <1>3, <1>4, <1>9
  <2>3. FlattenSeq(Tail(front)) \in T
    BY <2>1, FlattenTyped
  <2>4. FlattenSeq(Tail(ss)) = FlattenSeq(Tail(front)) \o last
    BY <1>4, <1>6, <1>9, <2>1, FlattenAppend
  <2>5. (Head(front) \o FlattenSeq(Tail(front))) \o last
            = Head(front) \o (FlattenSeq(Tail(front)) \o last)
    <3>1. PICK first \in T : first = Head(front)
      BY <2>1
    <3>2. PICK rest \in T : rest = FlattenSeq(Tail(front))
      BY <2>3
    <3>3. Cat(Cat(first, rest), last) = Cat(first, Cat(rest, last))
      BY <1>4, <1>8
    <3> QED
      BY <3>1, <3>2, <3>3 DEF Cat
  <2> QED
    BY <1>2, <1>5, <1>6, <1>9, <2>2, <2>4, <2>5
<1> QED
  BY <1>7, <1>9

LEMMA FlattenSequences ==
    ASSUME NEW S, NEW seqs \in Seq(Seq(S))
    PROVE  /\ FlattenSeq(seqs) \in Seq(S)
           /\ seqs # <<>> => FlattenSeq(seqs) = Head(seqs) \o FlattenSeq(Tail(seqs))
<1>1. Joins(Seq(S))
  BY SequencesJoin
<1> QED
  BY <1>1, FlattenTyped, FlattenHead

-----------------------------------------------------------------------------
(* The diff of two texts: a table of lengths, filled from its last cell, and *)
(* the walk it leads.                                                        *)

Cells(a, b) == (1 .. Len(a) + 1) \X (1 .. Len(b) + 1)

\* How far a cell is from the last one.
Ahead(a, b, c) == Len(a) + Len(b) + 2 - c[1] - c[2]

IsTable(lcs, a, b) ==
    lcs = [c \in Cells(a, b) |->
               LET i == c[1]  j == c[2] IN
               IF i > Len(a) \/ j > Len(b) THEN 0
               ELSE IF a[i] = b[j] THEN lcs[<<i + 1, j + 1>>] + 1
               ELSE Larger(lcs[<<i + 1, j>>], lcs[<<i, j + 1>>])]

DiffKinds == {"context", "removed", "added"}
DiffLine(kind, text) == <<[kind |-> kind, text |-> text]>>

IsWalk(walk, lcs, a, b) ==
    walk = [c \in Cells(a, b) |->
                LET i == c[1]  j == c[2] IN
                IF i > Len(a) /\ j > Len(b) THEN <<>>
                ELSE IF i <= Len(a) /\ j <= Len(b) /\ a[i] = b[j]
                     THEN DiffLine("context", a[i]) \o walk[<<i + 1, j + 1>>]
                ELSE IF j > Len(b) \/ (i <= Len(a) /\ Removes(lcs[<<i + 1, j>>], lcs[<<i, j + 1>>]))
                     THEN DiffLine("removed", a[i]) \o walk[<<i + 1, j>>]
                ELSE DiffLine("added", b[j]) \o walk[<<i, j + 1>>]]

\* The three cells one step nearer to the last.
Down(c) == <<c[1] + 1, c[2]>>
Across(c) == <<c[1], c[2] + 1>>
Athwart(c) == <<c[1] + 1, c[2] + 1>>

LEMMA CellIs ==
    ASSUME NEW S, NEW a \in Seq(S), NEW b \in Seq(S), NEW c \in Cells(a, b)
    PROVE  /\ Len(a) \in Nat /\ Len(b) \in Nat
           /\ c[1] \in 1 .. Len(a) + 1 /\ c[2] \in 1 .. Len(b) + 1
           /\ Ahead(a, b, c) \in 0 .. Len(a) + Len(b)
<1>1. Len(a) \in Nat /\ Len(b) \in Nat
  BY LenProperties
<1>2. c[1] \in 1 .. Len(a) + 1 /\ c[2] \in 1 .. Len(b) + 1
  BY DEF Cells
<1> QED
  BY <1>1, <1>2 DEF Ahead

LEMMA NextCells ==
    ASSUME NEW S, NEW a \in Seq(S), NEW b \in Seq(S), NEW c \in Cells(a, b)
    PROVE  /\ c[1] <= Len(a) => Down(c) \in Cells(a, b) /\ Ahead(a, b, Down(c)) < Ahead(a, b, c)
           /\ c[2] <= Len(b) => Across(c) \in Cells(a, b) /\ Ahead(a, b, Across(c)) < Ahead(a, b, c)
           /\ c[1] <= Len(a) /\ c[2] <= Len(b) =>
                  Athwart(c) \in Cells(a, b) /\ Ahead(a, b, Athwart(c)) < Ahead(a, b, c)
<1>1. PICK n \in Nat, m \in Nat : n = Len(a) /\ m = Len(b)
  BY LenProperties
<1>2. PICK i \in 1 .. n + 1, j \in 1 .. m + 1 : i = c[1] /\ j = c[2]
  BY <1>1 DEF Cells
<1>3. Ahead(a, b, c) = n + m + 2 - i - j
  BY <1>1, <1>2 DEF Ahead
<1>4. /\ Ahead(a, b, Down(c)) = n + m + 2 - (i + 1) - j
      /\ Ahead(a, b, Across(c)) = n + m + 2 - i - (j + 1)
      /\ Ahead(a, b, Athwart(c)) = n + m + 2 - (i + 1) - (j + 1)
  BY <1>1, <1>2 DEF Ahead, Down, Across, Athwart
<1>5. Cells(a, b) = (1 .. n + 1) \X (1 .. m + 1)
  BY <1>1 DEF Cells
<1>6. /\ i <= n => Down(c) \in Cells(a, b)
      /\ j <= m => Across(c) \in Cells(a, b)
      /\ i <= n /\ j <= m => Athwart(c) \in Cells(a, b)
  BY <1>2, <1>5 DEF Down, Across, Athwart
<1>7. PICK k \in Int : k = n + m + 2 - i - j
  OBVIOUS
<1>8. /\ Ahead(a, b, c) = k /\ Ahead(a, b, Down(c)) = k - 1 /\ Ahead(a, b, Across(c)) = k - 1
      /\ Ahead(a, b, Athwart(c)) = k - 2
  BY <1>3, <1>4, <1>7
<1>9. /\ Ahead(a, b, Down(c)) < Ahead(a, b, c) /\ Ahead(a, b, Across(c)) < Ahead(a, b, c)
      /\ Ahead(a, b, Athwart(c)) < Ahead(a, b, c)
  BY <1>8
<1> QED
  BY <1>1, <1>2, <1>6, <1>9

\* What holds of a cell when it holds of those nearer to the last holds of every cell.
LEMMA CellInduction ==
    ASSUME NEW S, NEW a \in Seq(S), NEW b \in Seq(S), NEW T,
           \A c \in Cells(a, b) :
               (\A d \in Cells(a, b) : Ahead(a, b, d) < Ahead(a, b, c) => d \in T) => c \in T
    PROVE  Cells(a, b) \subseteq T
<1> DEFINE bad == {c \in Cells(a, b) : c \notin T}
           far == {Ahead(a, b, c) : c \in bad}
<1> SUFFICES ASSUME bad # {} PROVE FALSE
  OBVIOUS
<1>1. \A c \in Cells(a, b) : Ahead(a, b, c) \in Nat
  BY CellIs
<1>2. far \subseteq Nat /\ far # {}
  BY <1>1
<1>3. PICK f \in far : \A g \in far : f <= g
  <2> HIDE DEF far
  <2> QED
    BY <1>2, LeastElement
<1>4. PICK c \in bad : f = Ahead(a, b, c)
  BY <1>3
<1>5. ASSUME NEW d \in Cells(a, b), Ahead(a, b, d) < Ahead(a, b, c) PROVE d \in T
  <2>1. Ahead(a, b, d) \in Nat /\ Ahead(a, b, c) \in Nat
    BY <1>1
  <2>2. d \in bad => Ahead(a, b, c) <= Ahead(a, b, d)
    BY <1>3, <1>4
  <2> QED
    BY <1>5, <2>1, <2>2
<1> QED
  BY <1>4, <1>5

\* There is such a table, for any two texts.
LEMMA TableExists ==
    ASSUME NEW S, NEW a \in Seq(S), NEW b \in Seq(S)
    PROVE  \E lcs \in [Cells(a, b) -> Nat] : IsTable(lcs, a, b)
<1> DEFINE C == Cells(a, b)
           rank == [c \in C |-> Ahead(a, b, c)]
           N == Len(a) + Len(b)
           Entry(f, c) == LET i == c[1]  j == c[2] IN
               IF i > Len(a) \/ j > Len(b) THEN 0
               ELSE IF a[i] = b[j] THEN f[Athwart(c)] + 1
               ELSE Larger(f[Down(c)], f[Across(c)])
           Up == [f \in [C -> Nat] |-> [c \in C |-> Entry(f, c)]]
<1>1. N \in Nat
  BY LenProperties
<1>2. rank \in [C -> 0 .. N]
  BY CellIs
<1>3. ASSUME NEW f \in [C -> Nat], NEW c \in C PROVE Entry(f, c) \in Nat
  <2>1. /\ c[1] <= Len(a) => f[Down(c)] \in Nat
        /\ c[2] <= Len(b) => f[Across(c)] \in Nat
        /\ c[1] <= Len(a) /\ c[2] <= Len(b) => f[Athwart(c)] \in Nat
    BY NextCells
  <2>2. c[1] \in Int /\ c[2] \in Int /\ Len(a) \in Int /\ Len(b) \in Int
    BY CellIs
  <2> QED
    BY <2>1, <2>2 DEF Larger
<1>4. Up \in [[C -> Nat] -> [C -> Nat]]
  BY <1>3
<1>5. ASSUME NEW f \in [C -> Nat], NEW g \in [C -> Nat], NEW c \in C,
             \A d \in C : rank[d] < rank[c] => f[d] = g[d]
      PROVE  Up[f][c] = Up[g][c]
  <2>1. /\ c[1] <= Len(a) => f[Down(c)] = g[Down(c)]
        /\ c[2] <= Len(b) => f[Across(c)] = g[Across(c)]
        /\ c[1] <= Len(a) /\ c[2] <= Len(b) => f[Athwart(c)] = g[Athwart(c)]
    <3>1. Ahead(a, b, c) \in Int
      BY CellIs
    <3>2. \A d \in C : Ahead(a, b, d) < Ahead(a, b, c) => f[d] = g[d]
      BY <1>5
    <3> QED
      BY <3>1, <3>2, NextCells
  <2>2. c[1] \in Int /\ c[2] \in Int /\ Len(a) \in Int /\ Len(b) \in Int
    BY CellIs
  <2>3. Entry(f, c) = Entry(g, c)
    BY <2>1, <2>2
  <2> QED
    BY <2>3
<1> HIDE DEF rank, N, Up
<1>6. PICK lcs \in [C -> Nat] : Up[lcs] = lcs
  <2> HIDE DEF C
  <2>1. ComputesFrom(Up, rank, N, C, Nat)
    BY <1>1, <1>2, <1>4, <1>5 DEF ComputesFrom
  <2> QED
    BY <2>1, RecursionTheorem
<1>7. lcs = [c \in C |-> Entry(lcs, c)]
  BY <1>6 DEF Up
<1>8. IsTable(lcs, a, b)
  BY <1>7 DEF IsTable, Down, Across, Athwart
<1> QED
  BY <1>8

\* And such a walk through it.
LEMMA WalkExists ==
    ASSUME NEW S, NEW a \in Seq(S), NEW b \in Seq(S), NEW lcs
    PROVE  \E walk \in [Cells(a, b) -> Seq([kind : DiffKinds, text : S])] : IsWalk(walk, lcs, a, b)
<1> DEFINE C == Cells(a, b)
           L == [kind : DiffKinds, text : S]
           V == Seq(L)
           rank == [c \in C |-> Ahead(a, b, c)]
           N == Len(a) + Len(b)
           removes(c) == c[1] <= Len(a) /\ Removes(lcs[Down(c)], lcs[Across(c)])
           Entry(f, c) == LET i == c[1]  j == c[2] IN
               IF i > Len(a) /\ j > Len(b) THEN <<>>
               ELSE IF i <= Len(a) /\ j <= Len(b) /\ a[i] = b[j]
                    THEN DiffLine("context", a[i]) \o f[Athwart(c)]
               ELSE IF j > Len(b) \/ removes(c)
                    THEN DiffLine("removed", a[i]) \o f[Down(c)]
               ELSE DiffLine("added", b[j]) \o f[Across(c)]
           Up == [f \in [C -> V] |-> [c \in C |-> Entry(f, c)]]
<1>1. N \in Nat
  BY LenProperties
<1>2. rank \in [C -> 0 .. N]
  BY CellIs
<1>3. /\ \A i \in 1 .. Len(a) : /\ DiffLine("context", a[i]) \in V
                                /\ DiffLine("removed", a[i]) \in V
      /\ \A j \in 1 .. Len(b) : DiffLine("added", b[j]) \in V
  <2>1. (\A i \in 1 .. Len(a) : a[i] \in S) /\ (\A j \in 1 .. Len(b) : b[j] \in S)
    BY ElementOfSeq
  <2>2. \A kind \in DiffKinds, text \in S : DiffLine(kind, text) \in V
    BY DEF DiffLine
  <2>3. "context" \in DiffKinds /\ "removed" \in DiffKinds /\ "added" \in DiffKinds
    BY DEF DiffKinds
  <2> HIDE DEF V
  <2> QED
    BY <2>1, <2>2, <2>3
<1>4. <<>> \in V /\ \A x \in V, y \in V : x \o y \in V
  BY EmptySeq, ConcatProperties
<1> HIDE DEF V
<1>5. ASSUME NEW f \in [C -> V], NEW c \in C PROVE Entry(f, c) \in V
  <2>1. /\ c[1] <= Len(a) => f[Down(c)] \in V
        /\ c[2] <= Len(b) => f[Across(c)] \in V
        /\ c[1] <= Len(a) /\ c[2] <= Len(b) => f[Athwart(c)] \in V
    BY NextCells
  <2>2. Len(a) \in Nat /\ Len(b) \in Nat /\ c[1] \in 1 .. Len(a) + 1 /\ c[2] \in 1 .. Len(b) + 1
    BY CellIs
  <2>3. CASE c[1] > Len(a) /\ c[2] > Len(b)
    BY <1>4, <2>3
  <2>4. CASE c[1] <= Len(a) /\ c[2] <= Len(b) /\ a[c[1]] = b[c[2]]
    <3>1. ~(c[1] > Len(a) /\ c[2] > Len(b))
      BY <2>2, <2>4
    <3>2. Entry(f, c) = DiffLine("context", a[c[1]]) \o f[Athwart(c)]
      BY <2>4, <3>1
    <3>3. DiffLine("context", a[c[1]]) \in V
      BY <1>3, <2>2, <2>4
    <3> QED
      BY <1>4, <2>1, <2>4, <3>2, <3>3
  <2>5. CASE /\ ~(c[1] <= Len(a) /\ c[2] <= Len(b) /\ a[c[1]] = b[c[2]])
             /\ ~(c[1] > Len(a) /\ c[2] > Len(b)) /\ (c[2] > Len(b) \/ removes(c))
    <3>1. c[1] <= Len(a)
      BY <2>2, <2>5
    <3>2. Entry(f, c) = DiffLine("removed", a[c[1]]) \o f[Down(c)]
      BY <2>2, <2>5
    <3>3. DiffLine("removed", a[c[1]]) \in V
      BY <1>3, <2>2, <3>1
    <3> QED
      BY <1>4, <2>1, <3>1, <3>2, <3>3
  <2>6. CASE /\ ~(c[1] <= Len(a) /\ c[2] <= Len(b) /\ a[c[1]] = b[c[2]])
             /\ ~(c[1] > Len(a) /\ c[2] > Len(b)) /\ ~(c[2] > Len(b) \/ removes(c))
    <3>1. c[2] <= Len(b)
      BY <2>2, <2>6
    <3>2. Entry(f, c) = DiffLine("added", b[c[2]]) \o f[Across(c)]
      BY <2>2, <2>6
    <3>3. DiffLine("added", b[c[2]]) \in V
      BY <1>3, <2>2, <3>1
    <3> QED
      BY <1>4, <2>1, <3>1, <3>2, <3>3
  <2> QED
    BY <2>3, <2>4, <2>5, <2>6
<1>6. Up \in [[C -> V] -> [C -> V]]
  BY <1>5
<1>7. ASSUME NEW f \in [C -> V], NEW g \in [C -> V], NEW c \in C,
             \A d \in C : rank[d] < rank[c] => f[d] = g[d]
      PROVE  Up[f][c] = Up[g][c]
  <2>1. /\ c[1] <= Len(a) => f[Down(c)] = g[Down(c)]
        /\ c[2] <= Len(b) => f[Across(c)] = g[Across(c)]
        /\ c[1] <= Len(a) /\ c[2] <= Len(b) => f[Athwart(c)] = g[Athwart(c)]
    <3>1. \A d \in C : Ahead(a, b, d) < Ahead(a, b, c) => f[d] = g[d]
      BY <1>7
    <3> QED
      BY <3>1, NextCells
  <2>2. c[1] \in Int /\ c[2] \in Int /\ Len(a) \in Int /\ Len(b) \in Int
    BY CellIs
  <2>3. Entry(f, c) = Entry(g, c)
    BY <2>1, <2>2
  <2> QED
    BY <2>3
<1> HIDE DEF rank, N, Up
<1>8. PICK walk \in [C -> V] : Up[walk] = walk
  <2> HIDE DEF C
  <2>1. ComputesFrom(Up, rank, N, C, V)
    BY <1>1, <1>2, <1>4, <1>6, <1>7 DEF ComputesFrom
  <2> QED
    BY <2>1, RecursionTheorem
<1>9. walk = [c \in C |-> Entry(walk, c)]
  BY <1>8 DEF Up
<1>10. IsWalk(walk, lcs, a, b)
  BY <1>9 DEF IsWalk, Down, Across, Athwart
<1> QED
  BY <1>10 DEF V

\* The length in a cell comes from the three that are nearer to the last.
LEMMA TableIs ==
    ASSUME NEW S, NEW a \in Seq(S), NEW b \in Seq(S), NEW lcs, IsTable(lcs, a, b),
           NEW c \in Cells(a, b)
    PROVE  lcs[c] = IF c[1] > Len(a) \/ c[2] > Len(b) THEN 0
                    ELSE IF a[c[1]] = b[c[2]] THEN lcs[Athwart(c)] + 1
                    ELSE Larger(lcs[Down(c)], lcs[Across(c)])
BY DEF IsTable, Down, Across, Athwart

LEMMA TableTyped ==
    ASSUME NEW S, NEW a \in Seq(S), NEW b \in Seq(S), NEW lcs, IsTable(lcs, a, b)
    PROVE  \A c \in Cells(a, b) : lcs[c] \in Nat
<1> DEFINE T == {c \in Cells(a, b) : lcs[c] \in Nat}
<1>1. ASSUME NEW c \in Cells(a, b),
             \A d \in Cells(a, b) : Ahead(a, b, d) < Ahead(a, b, c) => d \in T
      PROVE  c \in T
  <2>1. /\ c[1] <= Len(a) => lcs[Down(c)] \in Nat
        /\ c[2] <= Len(b) => lcs[Across(c)] \in Nat
        /\ c[1] <= Len(a) /\ c[2] <= Len(b) => lcs[Athwart(c)] \in Nat
    BY <1>1, NextCells
  <2>2. c[1] \in Int /\ c[2] \in Int /\ Len(a) \in Int /\ Len(b) \in Int
    BY CellIs
  <2>3. lcs[c] \in Nat
    BY <2>1, <2>2, TableIs DEF Larger
  <2> QED
    BY <2>3
<1> HIDE DEF T
<1>2. Cells(a, b) \subseteq T
  BY <1>1, CellInduction
<1> QED
  BY <1>2 DEF T

LEMMA WalkIs ==
    ASSUME NEW S, NEW a \in Seq(S), NEW b \in Seq(S), NEW lcs, NEW walk, IsWalk(walk, lcs, a, b),
           NEW c \in Cells(a, b)
    PROVE  walk[c] =
               IF c[1] > Len(a) /\ c[2] > Len(b) THEN <<>>
               ELSE IF c[1] <= Len(a) /\ c[2] <= Len(b) /\ a[c[1]] = b[c[2]]
                    THEN DiffLine("context", a[c[1]]) \o walk[Athwart(c)]
               ELSE IF c[2] > Len(b) \/ (c[1] <= Len(a) /\ Removes(lcs[Down(c)], lcs[Across(c)]))
                    THEN DiffLine("removed", a[c[1]]) \o walk[Down(c)]
               ELSE DiffLine("added", b[c[2]]) \o walk[Across(c)]
BY DEF IsWalk, Down, Across, Athwart

\* A diff is the walk of a table of lengths.
LEMMA DiffIs ==
    ASSUME NEW S, NEW a \in Seq(S), NEW b \in Seq(S)
    PROVE  \E lcs, walk : IsTable(lcs, a, b) /\ IsWalk(walk, lcs, a, b) /\ Diff(a, b) = walk[<<1, 1>>]
<1> DEFINE lcs == CHOOSE f : IsTable(f, a, b)
           walk == CHOOSE f : IsWalk(f, lcs, a, b)
<1>1. Diff(a, b) = walk[<<1, 1>>]
  BY DEF Diff, IsTable, IsWalk, Cells, DiffLine
<1>2. IsTable(lcs, a, b)
  <2>1. \E f : IsTable(f, a, b)
    BY TableExists
  <2> QED
    BY <2>1
<1>3. IsWalk(walk, lcs, a, b)
  <2>1. \E f : IsWalk(f, lcs, a, b)
    BY WalkExists
  <2> QED
    BY <2>1
<1> QED
  BY <1>1, <1>2, <1>3

-----------------------------------------------------------------------------
(* What a diff says, and how much of it is common *)

Says(lines, K) == Texts(OfKind(lines, K))

DiffLines(S) == [kind : DiffKinds, text : S]
IsDiff(lines, S) == lines \in Seq(DiffLines(S))
LineThen(kind, text, lines) == DiffLine(kind, text) \o lines

LEMMA SaysNothing ==
    ASSUME NEW K
    PROVE  OfKind(<<>>, K) = <<>> /\ Says(<<>>, K) = <<>>
<1>1. OfKind(<<>>, K) = FlattenSeq(<<>>)
  BY DEF OfKind
<1> QED
  BY <1>1, FlattenEmpty DEF Says, Texts

\* One line more.
LEMMA SaysMore ==
    ASSUME NEW S, NEW kind \in DiffKinds, NEW text \in S, NEW lines, IsDiff(lines, S), NEW K,
           NEW more, more = LineThen(kind, text, lines)
    PROVE  /\ IsDiff(more, S)
           /\ Says(more, K) = IF kind \in K THEN Cat(<<text>>, Says(lines, K)) ELSE Says(lines, K)
           /\ Len(OfKind(more, K)) = IF kind \in K THEN Len(OfKind(lines, K)) + 1
                                     ELSE Len(OfKind(lines, K))
           /\ Says(lines, K) \in Seq(S) /\ Len(OfKind(lines, K)) \in Nat
<1> DEFINE L == DiffLines(S)
           line == [kind |-> kind, text |-> text]
           Kept(s) == [i \in DOMAIN s |-> IF s[i].kind \in K THEN <<s[i]>> ELSE <<>>]
<1>1. line \in L /\ line.kind = kind /\ line.text = text
  BY DEF DiffLines
<1>2. more = <<line>> \o lines
  BY DEF DiffLine, LineThen
<1>3. lines \in Seq(L) /\ \A l \in L : <<l>> \in Seq(L)
  BY DEF IsDiff
<1> HIDE DEF L, line
<1>4. PICK n \in Nat : n = Len(lines)
  BY <1>3, LenProperties
<1>5. more \in Seq(L) /\ Len(more) = n + 1 /\ more[1] = line /\ \A i \in 1 .. n : more[i + 1] = lines[i]
  BY <1>1, <1>2, <1>3, <1>4
<1>6. ASSUME NEW s \in Seq(L) PROVE Kept(s) \in Seq(Seq(L))
  <2>1. PICK k \in Nat : k = Len(s) /\ DOMAIN s = 1 .. k
    BY LenProperties
  <2>2. \A i \in 1 .. k : s[i] \in L
    BY <2>1, ElementOfSeq
  <2>3. PICK T : T = Seq(L)
    OBVIOUS
  <2>4. <<>> \in T /\ \A l \in L : <<l>> \in T
    BY <1>3, <2>3, EmptySeq
  <2>5. Kept(s) = [i \in 1 .. k |-> IF s[i].kind \in K THEN <<s[i]>> ELSE <<>>]
    BY <2>1
  <2>6. Kept(s) \in Seq(T)
    BY <2>2, <2>4, <2>5
  <2> QED
    BY <2>3, <2>6
<1>7. Kept(more) # <<>> /\ Head(Kept(more)) = (IF kind \in K THEN <<line>> ELSE <<>>)
  BY <1>1, <1>4, <1>5
<1>8. Tail(Kept(more)) = Kept(lines)
  BY <1>3, <1>4, <1>5
<1>9. FlattenSeq(Kept(more)) = Head(Kept(more)) \o FlattenSeq(Tail(Kept(more)))
  BY <1>5, <1>6, <1>7, FlattenSequences
<1>10. FlattenSeq(Kept(lines)) \in Seq(L)
  BY <1>3, <1>6, FlattenSequences
<1>11. OfKind(more, K) = FlattenSeq(Kept(more)) /\ OfKind(lines, K) = FlattenSeq(Kept(lines))
  BY DEF OfKind
<1> HIDE DEF Kept
<1>12. PICK kept \in Seq(L) : kept = OfKind(lines, K)
  BY <1>10, <1>11
<1>13. OfKind(more, K) = IF kind \in K THEN <<line>> \o kept ELSE kept
  BY <1>7, <1>8, <1>9, <1>11, <1>12, ConcatEmptySeq
<1>14. Texts(kept) \in Seq(S)
  <2>1. PICK k \in Nat : k = Len(kept) /\ DOMAIN kept = 1 .. k
    BY LenProperties
  <2>2. \A i \in 1 .. k : kept[i] \in L
    BY <2>1, ElementOfSeq
  <2>3. \A l \in L : l.text \in S
    BY DEF L, DiffLines
  <2>4. Texts(kept) = [i \in 1 .. k |-> kept[i].text]
    BY <2>1 DEF Texts
  <2> QED
    BY <2>2, <2>3, <2>4
<1>15. Texts(<<line>> \o kept) = <<text>> \o Texts(kept)
  BY <1>1 DEF Texts, L, DiffLines
<1>16. Len(OfKind(more, K)) = IF kind \in K THEN Len(kept) + 1 ELSE Len(kept)
  <2>1. Len(<<line>> \o kept) = Len(kept) + 1
    BY <1>1
  <2> QED
    BY <1>13, <2>1
<1>17. Says(more, K) = IF kind \in K THEN <<text>> \o Texts(kept) ELSE Texts(kept)
  BY <1>13, <1>15 DEF Says
<1>18. Says(lines, K) = Texts(kept) /\ Len(kept) \in Nat
  BY <1>12, LenProperties DEF Says
<1> QED
  BY <1>5, <1>12, <1>14, <1>16, <1>17, <1>18 DEF L, IsDiff, Cat

\* The text before, the text after, and how much of it is common.
TextBefore(lines) == Says(lines, {"context", "removed"})
TextAfter(lines) == Says(lines, {"context", "added"})
InCommon(lines) == Len(OfKind(lines, {"context"}))

LEMMA SaysContext ==
    ASSUME NEW S, NEW text \in S, NEW lines, IsDiff(lines, S),
           NEW more, more = LineThen("context", text, lines)
    PROVE  /\ IsDiff(more, S) /\ InCommon(more) = InCommon(lines) + 1
           /\ TextBefore(more) = Cat(<<text>>, TextBefore(lines)) /\ TextAfter(more) = Cat(<<text>>, TextAfter(lines))
<1>1. PICK kind \in DiffKinds : kind = "context"
  BY DEF DiffKinds
<1>2. PICK O, N, C : /\ O = {"context", "removed"} /\ N = {"context", "added"} /\ C = {"context"}
  OBVIOUS
<1>3. kind \in O /\ kind \in N /\ kind \in C
  BY <1>1, <1>2
<1>4. more = LineThen(kind, text, lines)
  BY <1>1
<1>5. ASSUME NEW K
      PROVE  /\ IsDiff(more, S)
             /\ Says(more, K) = IF kind \in K THEN Cat(<<text>>, Says(lines, K)) ELSE Says(lines, K)
             /\ Len(OfKind(more, K)) = IF kind \in K THEN Len(OfKind(lines, K)) + 1
                                       ELSE Len(OfKind(lines, K))
  BY <1>1, <1>4, SaysMore
<1> QED
  BY <1>2, <1>3, <1>5 DEF TextBefore, TextAfter, InCommon

LEMMA SaysRemoved ==
    ASSUME NEW S, NEW text \in S, NEW lines, IsDiff(lines, S),
           NEW more, more = LineThen("removed", text, lines)
    PROVE  /\ IsDiff(more, S) /\ InCommon(more) = InCommon(lines)
           /\ TextBefore(more) = Cat(<<text>>, TextBefore(lines)) /\ TextAfter(more) = TextAfter(lines)
<1>1. PICK kind \in DiffKinds : kind = "removed"
  BY DEF DiffKinds
<1>2. PICK O, N, C : /\ O = {"context", "removed"} /\ N = {"context", "added"} /\ C = {"context"}
  OBVIOUS
<1>3. kind \in O /\ kind \notin N /\ kind \notin C
  BY <1>1, <1>2
<1>4. more = LineThen(kind, text, lines)
  BY <1>1
<1>5. ASSUME NEW K
      PROVE  /\ IsDiff(more, S)
             /\ Says(more, K) = IF kind \in K THEN Cat(<<text>>, Says(lines, K)) ELSE Says(lines, K)
             /\ Len(OfKind(more, K)) = IF kind \in K THEN Len(OfKind(lines, K)) + 1
                                       ELSE Len(OfKind(lines, K))
  BY <1>1, <1>4, SaysMore
<1> QED
  BY <1>2, <1>3, <1>5 DEF TextBefore, TextAfter, InCommon

LEMMA SaysAdded ==
    ASSUME NEW S, NEW text \in S, NEW lines, IsDiff(lines, S),
           NEW more, more = LineThen("added", text, lines)
    PROVE  /\ IsDiff(more, S) /\ InCommon(more) = InCommon(lines)
           /\ TextBefore(more) = TextBefore(lines) /\ TextAfter(more) = Cat(<<text>>, TextAfter(lines))
<1>1. PICK kind \in DiffKinds : kind = "added"
  BY DEF DiffKinds
<1>2. PICK O, N, C : /\ O = {"context", "removed"} /\ N = {"context", "added"} /\ C = {"context"}
  OBVIOUS
<1>3. kind \notin O /\ kind \in N /\ kind \notin C
  BY <1>1, <1>2
<1>4. more = LineThen(kind, text, lines)
  BY <1>1
<1>5. ASSUME NEW K
      PROVE  /\ IsDiff(more, S)
             /\ Says(more, K) = IF kind \in K THEN Cat(<<text>>, Says(lines, K)) ELSE Says(lines, K)
             /\ Len(OfKind(more, K)) = IF kind \in K THEN Len(OfKind(lines, K)) + 1
                                       ELSE Len(OfKind(lines, K))
  BY <1>1, <1>4, SaysMore
<1> QED
  BY <1>2, <1>3, <1>5 DEF TextBefore, TextAfter, InCommon

\* What is left of a text from line i on.
RestOf(a, i) == SubSeq(a, i, Len(a))

LEMMA RestIs ==
    ASSUME NEW S, NEW a \in Seq(S), NEW i \in 1 .. Len(a) + 1
    PROVE  /\ i <= Len(a) => RestOf(a, i) = Cat(<<a[i]>>, RestOf(a, i + 1)) /\ a[i] \in S
           /\ i > Len(a) => RestOf(a, i) = <<>>
           /\ RestOf(a, i) \in Seq(S)
<1>1. PICK n \in Nat : n = Len(a)
  BY LenProperties
<1>2. i \in 1 .. n + 1
  BY <1>1
<1>3. \A k \in 1 .. n : a[k] \in S
  BY <1>1, ElementOfSeq
<1>4. RestOf(a, i) \in Seq(S)
  BY <1>1, <1>2, <1>3 DEF RestOf
<1>5. i > n => RestOf(a, i) = <<>>
  BY <1>1, <1>2 DEF RestOf
<1>6. i <= n => RestOf(a, i) = Cat(<<a[i]>>, RestOf(a, i + 1))
  BY <1>1, <1>2, <1>3 DEF RestOf, Cat
<1> QED
  BY <1>1, <1>2, <1>3, <1>4, <1>5, <1>6

\* From any cell on, the walk tells the rest of both texts, and has as many lines in common
\* as the table says.
LEMMA WalkTells ==
    ASSUME NEW S, NEW a \in Seq(S), NEW b \in Seq(S), NEW lcs, IsTable(lcs, a, b),
           NEW walk, IsWalk(walk, lcs, a, b), NEW c \in Cells(a, b)
    PROVE  /\ IsDiff(walk[c], S)
           /\ TextBefore(walk[c]) = RestOf(a, c[1])
           /\ TextAfter(walk[c]) = RestOf(b, c[2])
           /\ InCommon(walk[c]) = lcs[c]
<1> DEFINE Tells(d) == /\ IsDiff(walk[d], S)
                       /\ TextBefore(walk[d]) = RestOf(a, d[1])
                       /\ TextAfter(walk[d]) = RestOf(b, d[2])
                       /\ InCommon(walk[d]) = lcs[d]
           T == {d \in Cells(a, b) : Tells(d)}
<1>1. ASSUME NEW d \in Cells(a, b),
             \A e \in Cells(a, b) : Ahead(a, b, e) < Ahead(a, b, d) => e \in T
      PROVE  Tells(d)
  <2>1. PICK n \in Nat, m \in Nat : n = Len(a) /\ m = Len(b)
    BY CellIs
  <2>2. PICK i \in 1 .. n + 1, j \in 1 .. m + 1 : i = d[1] /\ j = d[2]
    BY <2>1, CellIs
  <2>3. /\ i <= n => Down(d) \in Cells(a, b) /\ Tells(Down(d))
        /\ j <= m => Across(d) \in Cells(a, b) /\ Tells(Across(d))
        /\ i <= n /\ j <= m => Athwart(d) \in Cells(a, b) /\ Tells(Athwart(d))
    BY <1>1, <2>1, <2>2, NextCells
  <2> HIDE DEF T
  <2>4. /\ Down(d)[1] = i + 1 /\ Down(d)[2] = j
        /\ Across(d)[1] = i /\ Across(d)[2] = j + 1
        /\ Athwart(d)[1] = i + 1 /\ Athwart(d)[2] = j + 1
    BY <2>2 DEF Down, Across, Athwart
  <2>5. /\ i <= n => RestOf(a, i) = Cat(<<a[i]>>, RestOf(a, i + 1)) /\ a[i] \in S
        /\ i > n => RestOf(a, i) = <<>>
        /\ j <= m => RestOf(b, j) = Cat(<<b[j]>>, RestOf(b, j + 1)) /\ b[j] \in S
        /\ j > m => RestOf(b, j) = <<>>
    BY <2>1, <2>2, RestIs
  <2>6. \A e \in Cells(a, b) : lcs[e] \in Nat
    BY TableTyped
  <2>7. lcs[d] = IF i > n \/ j > m THEN 0
                 ELSE IF a[i] = b[j] THEN lcs[Athwart(d)] + 1
                 ELSE Larger(lcs[Down(d)], lcs[Across(d)])
    BY <2>1, <2>2, TableIs
  <2>8. walk[d] = IF i > n /\ j > m THEN <<>>
                  ELSE IF i <= n /\ j <= m /\ a[i] = b[j]
                       THEN LineThen("context", a[i], walk[Athwart(d)])
                  ELSE IF j > m \/ (i <= n /\ Removes(lcs[Down(d)], lcs[Across(d)]))
                       THEN LineThen("removed", a[i], walk[Down(d)])
                  ELSE LineThen("added", b[j], walk[Across(d)])
    BY <2>1, <2>2, WalkIs DEF LineThen
  <2>10. CASE i > n /\ j > m
    <3>1. walk[d] = <<>> /\ lcs[d] = 0
      BY <2>7, <2>8, <2>10
    <3>2. IsDiff(walk[d], S)
      BY <3>1, EmptySeq DEF IsDiff
    <3>3. InCommon(walk[d]) = 0 /\ TextBefore(walk[d]) = <<>> /\ TextAfter(walk[d]) = <<>>
      BY <3>1, SaysNothing DEF TextBefore, TextAfter, InCommon
    <3> QED
      BY <2>2, <2>5, <2>10, <3>1, <3>2, <3>3
  <2>11. CASE i <= n /\ j <= m /\ a[i] = b[j]
    <3>1. walk[d] = LineThen("context", a[i], walk[Athwart(d)]) /\ lcs[d] = lcs[Athwart(d)] + 1
      <4>1. ~(i > n /\ j > m) /\ ~(i > n \/ j > m)
        BY <2>11
      <4> QED
        BY <2>7, <2>8, <2>11, <4>1
    <3>2. PICK lines : IsDiff(lines, S) /\ lines = walk[Athwart(d)]
      BY <2>3, <2>11
    <3>3. PICK text \in S : text = a[i] /\ text = b[j]
      BY <2>5, <2>11
    <3>4. /\ IsDiff(walk[d], S)
          /\ TextBefore(walk[d]) = Cat(<<text>>, TextBefore(lines))
          /\ TextAfter(walk[d]) = Cat(<<text>>, TextAfter(lines))
          /\ InCommon(walk[d]) = InCommon(lines) + 1
      BY <3>1, <3>2, <3>3, SaysContext
    <3> QED
      BY <2>2, <2>3, <2>4, <2>5, <2>11, <3>1, <3>2, <3>3, <3>4
  <2>12. CASE /\ ~(i > n /\ j > m) /\ ~(i <= n /\ j <= m /\ a[i] = b[j])
              /\ (j > m \/ (i <= n /\ Removes(lcs[Down(d)], lcs[Across(d)])))
    <3>1. i <= n /\ walk[d] = LineThen("removed", a[i], walk[Down(d)])
      <4>1. i <= n
        BY <2>12
      <4> QED
        BY <2>8, <2>12, <4>1
    <3>2. PICK lines : IsDiff(lines, S) /\ lines = walk[Down(d)]
      BY <2>3, <3>1
    <3>3. PICK text \in S : text = a[i]
      BY <2>5, <3>1
    <3>4. /\ IsDiff(walk[d], S)
          /\ TextBefore(walk[d]) = Cat(<<text>>, TextBefore(lines))
          /\ TextAfter(walk[d]) = TextAfter(lines)
          /\ InCommon(walk[d]) = InCommon(lines)
      BY <3>1, <3>2, <3>3, SaysRemoved
    <3>5. lcs[d] = lcs[Down(d)]
      <4>1. CASE j > m
        <5>1. lcs[Down(d)] = 0
          BY <2>1, <2>3, <2>4, <3>1, <4>1, TableIs
        <5> QED
          BY <2>7, <4>1, <5>1
      <4>2. CASE j <= m
        <5>1. lcs[Down(d)] \in Nat /\ lcs[Across(d)] \in Nat /\ lcs[Down(d)] >= lcs[Across(d)]
          BY <2>2, <2>3, <2>6, <2>12, <3>1, <4>2 DEF Removes
        <5> QED
          BY <2>2, <2>7, <2>12, <3>1, <4>2, <5>1 DEF Larger
      <4> QED
        BY <2>2, <4>1, <4>2
    <3> QED
      BY <2>2, <2>3, <2>4, <2>5, <3>1, <3>2, <3>3, <3>4, <3>5
  <2>13. CASE /\ ~(i > n /\ j > m) /\ ~(i <= n /\ j <= m /\ a[i] = b[j])
              /\ ~(j > m \/ (i <= n /\ Removes(lcs[Down(d)], lcs[Across(d)])))
    <3>1. j <= m /\ walk[d] = LineThen("added", b[j], walk[Across(d)])
      <4>1. j <= m
        BY <2>13
      <4> QED
        BY <2>8, <2>13, <4>1
    <3>2. PICK lines : IsDiff(lines, S) /\ lines = walk[Across(d)]
      BY <2>3, <3>1
    <3>3. PICK text \in S : text = b[j]
      BY <2>5, <3>1
    <3>4. /\ IsDiff(walk[d], S)
          /\ TextBefore(walk[d]) = TextBefore(lines)
          /\ TextAfter(walk[d]) = Cat(<<text>>, TextAfter(lines))
          /\ InCommon(walk[d]) = InCommon(lines)
      BY <3>1, <3>2, <3>3, SaysAdded
    <3>5. lcs[d] = lcs[Across(d)]
      <4>1. CASE i > n
        <5>1. lcs[Across(d)] = 0
          BY <2>1, <2>3, <2>4, <3>1, <4>1, TableIs
        <5> QED
          BY <2>7, <4>1, <5>1
      <4>2. CASE i <= n
        <5>1. lcs[Down(d)] \in Nat /\ lcs[Across(d)] \in Nat /\ ~(lcs[Down(d)] >= lcs[Across(d)])
          BY <2>2, <2>3, <2>6, <2>13, <3>1, <4>2 DEF Removes
        <5> QED
          BY <2>2, <2>7, <2>13, <3>1, <4>2, <5>1 DEF Larger
      <4> QED
        BY <2>2, <4>1, <4>2
    <3> QED
      BY <2>2, <2>3, <2>4, <2>5, <3>1, <3>2, <3>3, <3>4, <3>5
  <2> QED
    BY <2>10, <2>11, <2>12, <2>13
<1>2. Cells(a, b) \subseteq T
  <2>1. \A d \in Cells(a, b) :
            (\A e \in Cells(a, b) : Ahead(a, b, e) < Ahead(a, b, d) => e \in T) => d \in T
    BY <1>1
  <2> HIDE DEF T
  <2> QED
    BY <2>1, CellInduction
<1> QED
  BY <1>2

\* An alignment of some lines s of a with lines of b that say the same, in their order; and
\* that from a cell on there is none of more than so many lines.
Aligns(a, b, s, f) == \A x \in s : a[x] = b[f[x]] /\ \A y \in s : x < y => f[x] < f[y]
NoneLonger(a, b, c, size) ==
    \A s \in SUBSET (c[1] .. Len(a)) : \A f \in [s -> c[2] .. Len(b)] :
        Aligns(a, b, s, f) => Cardinality(s) <= size

\* No alignment of the rest of both texts is longer than the table says.
LEMMA TableIsGreatest ==
    ASSUME NEW S, NEW a \in Seq(S), NEW b \in Seq(S), NEW lcs, IsTable(lcs, a, b),
           NEW c \in Cells(a, b)
    PROVE  NoneLonger(a, b, c, lcs[c])
<1> DEFINE Bounds(d) == NoneLonger(a, b, d, lcs[d])
           T == {d \in Cells(a, b) : Bounds(d)}
<1>1. ASSUME NEW d \in Cells(a, b),
             \A e \in Cells(a, b) : Ahead(a, b, e) < Ahead(a, b, d) => e \in T
      PROVE  Bounds(d)
  <2>1. PICK n \in Nat, m \in Nat : n = Len(a) /\ m = Len(b)
    BY CellIs
  <2>2. PICK i \in 1 .. n + 1, j \in 1 .. m + 1 : i = d[1] /\ j = d[2]
    BY <2>1, CellIs
  <2>3. /\ i <= n => Down(d) \in Cells(a, b) /\ Bounds(Down(d))
        /\ j <= m => Across(d) \in Cells(a, b) /\ Bounds(Across(d))
        /\ i <= n /\ j <= m => Athwart(d) \in Cells(a, b) /\ Bounds(Athwart(d))
    BY <1>1, <2>1, <2>2, NextCells
  <2>4. /\ Down(d)[1] = i + 1 /\ Down(d)[2] = j
        /\ Across(d)[1] = i /\ Across(d)[2] = j + 1
        /\ Athwart(d)[1] = i + 1 /\ Athwart(d)[2] = j + 1
    BY <2>2 DEF Down, Across, Athwart
  <2>5. \A e \in Cells(a, b) : lcs[e] \in Nat
    BY TableTyped
  <2>6. lcs[d] = IF i > n \/ j > m THEN 0
                 ELSE IF a[i] = b[j] THEN lcs[Athwart(d)] + 1
                 ELSE Larger(lcs[Down(d)], lcs[Across(d)])
    BY <2>1, <2>2, TableIs
  <2> SUFFICES ASSUME NEW s \in SUBSET (i .. n), NEW f \in [s -> j .. m], Aligns(a, b, s, f)
               PROVE  Cardinality(s) <= lcs[d]
    BY <2>1, <2>2 DEF NoneLonger
  <2>7. IsFiniteSet(s) /\ Cardinality(s) \in Nat
    <3>1. s \subseteq 1 .. n
      OBVIOUS
    <3>2. IsFiniteSet(1 .. n)
      BY RangeFinite
    <3>3. IsFiniteSet(s)
      BY <3>1, <3>2, FS_Subset
    <3> QED
      BY <3>3, FS_CardinalityType
  <2> HIDE DEF T
  <2>8. CASE s = {}
    BY <2>5, <2>8, FS_EmptySet
  <2>9. CASE s # {} /\ a[i] = b[j]
    <3>1. PICK x \in s : TRUE
      BY <2>9
    <3>2. i <= n /\ j <= m
      <4>1. x \in i .. n /\ f[x] \in j .. m
        OBVIOUS
      <4> QED
        BY <4>1
    <3>3. PICK least \in s : \A y \in s : least <= y
      <4>1. s \subseteq Nat
        OBVIOUS
      <4> QED
        BY <2>9, <4>1, LeastElement
    <3> DEFINE rest == s \ {least}
               g == [y \in rest |-> f[y]]
    <3>4. ASSUME NEW y \in rest PROVE y \in i + 1 .. n /\ f[y] \in j + 1 .. m
      <4>1. y \in i .. n /\ least \in i .. n /\ y # least /\ least <= y
        BY <3>3
      <4>2. least < y
        BY <4>1
      <4>3. f[least] < f[y] /\ f[least] \in j .. m /\ f[y] \in j .. m
        BY <4>2 DEF Aligns
      <4> QED
        BY <4>1, <4>2, <4>3
    <3>5. rest \in SUBSET (i + 1 .. n) /\ g \in [rest -> j + 1 .. m] /\ Aligns(a, b, rest, g)
      BY <3>4 DEF Aligns
    <3>6. Cardinality(rest) <= lcs[Athwart(d)]
      <4>1. /\ rest \in SUBSET (Athwart(d)[1] .. Len(a))
            /\ g \in [rest -> Athwart(d)[2] .. Len(b)] /\ Aligns(a, b, rest, g)
        BY <2>1, <2>4, <3>5
      <4>2. Bounds(Athwart(d))
        BY <2>3, <3>2
      <4> HIDE DEF rest, g
      <4> QED
        BY <4>1, <4>2 DEF NoneLonger
    <3>7. Cardinality(rest) = Cardinality(s) - 1
      BY <2>7, FS_RemoveElement
    <3>8. lcs[d] = lcs[Athwart(d)] + 1 /\ lcs[Athwart(d)] \in Nat
      <4>1. ~(i > n \/ j > m)
        BY <3>2
      <4> QED
        BY <2>3, <2>5, <2>6, <2>9, <3>2, <4>1
    <3> QED
      BY <2>7, <3>6, <3>7, <3>8
  <2>10. CASE s # {} /\ a[i] # b[j]
    <3>1. PICK x \in s : TRUE
      BY <2>10
    <3>2. i <= n /\ j <= m
      <4>1. x \in i .. n /\ f[x] \in j .. m
        OBVIOUS
      <4> QED
        BY <4>1
    <3>3. /\ lcs[Down(d)] \in Nat /\ lcs[Across(d)] \in Nat
          /\ lcs[Down(d)] <= lcs[d] /\ lcs[Across(d)] <= lcs[d] /\ lcs[d] \in Nat
      <4>1. ~(i > n \/ j > m)
        BY <3>2
      <4> QED
        BY <2>3, <2>5, <2>6, <2>10, <3>2, <4>1 DEF Larger
    <3>4. CASE i \notin s
      <4>1. s \in SUBSET (i + 1 .. n)
        <5>1. \A y \in s : y \in i .. n /\ y # i
          BY <3>4 DEF Aligns
        <5> QED
          BY <5>1
      <4>2. /\ s \in SUBSET (Down(d)[1] .. Len(a)) /\ f \in [s -> Down(d)[2] .. Len(b)]
            /\ Bounds(Down(d))
        BY <2>1, <2>3, <2>4, <3>2, <4>1
      <4>3. Cardinality(s) <= lcs[Down(d)]
        BY <4>2 DEF NoneLonger
      <4> QED
        BY <2>7, <3>3, <4>3
    <3>5. CASE i \in s
      <4>1. \A y \in s : f[y] \in j + 1 .. m
        <5> SUFFICES ASSUME NEW y \in s PROVE f[y] \in j + 1 .. m
          OBVIOUS
        <5>1. f[i] \in j .. m /\ f[i] # j
          BY <2>10, <3>5 DEF Aligns
        <5>2. f[y] \in j .. m /\ y \in i .. n
          OBVIOUS
        <5>3. y # i => f[i] < f[y]
          <6>1. y # i => i < y
            BY <5>2
          <6> QED
            BY <3>5, <6>1 DEF Aligns
        <5> QED
          BY <5>1, <5>2, <5>3
      <4>2. f \in [s -> j + 1 .. m]
        BY <4>1
      <4>3. /\ s \in SUBSET (Across(d)[1] .. Len(a)) /\ f \in [s -> Across(d)[2] .. Len(b)]
            /\ Bounds(Across(d))
        BY <2>1, <2>3, <2>4, <3>2, <4>2
      <4>4. Cardinality(s) <= lcs[Across(d)]
        BY <4>3 DEF NoneLonger
      <4> QED
        BY <2>7, <3>3, <4>4
    <3> QED
      BY <3>4, <3>5
  <2> QED
    BY <2>8, <2>9, <2>10
<1>2. Cells(a, b) \subseteq T
  <2>1. \A d \in Cells(a, b) :
            (\A e \in Cells(a, b) : Ahead(a, b, e) < Ahead(a, b, d) => e \in T) => d \in T
    BY <1>1
  <2> HIDE DEF T
  <2> QED
    BY <2>1, CellInduction
<1> QED
  BY <1>2

\* A diff tells both texts, and keeps as much of them as can be kept.
LEMMA DiffKeepsMost ==
    ASSUME NEW S, NEW a \in Seq(S), NEW b \in Seq(S)
    PROVE  /\ Texts(OfKind(Diff(a, b), {"context", "removed"})) = a
           /\ Texts(OfKind(Diff(a, b), {"context", "added"})) = b
           /\ \A s \in CommonSubsequences(a, b) :
                  Cardinality(s) <= Len(OfKind(Diff(a, b), {"context"}))
<1>1. PICK lcs, walk : IsTable(lcs, a, b) /\ IsWalk(walk, lcs, a, b) /\ Diff(a, b) = walk[<<1, 1>>]
  BY DiffIs
<1>2. PICK n \in Nat, m \in Nat : n = Len(a) /\ m = Len(b) /\ DOMAIN a = 1 .. n /\ DOMAIN b = 1 .. m
  BY LenProperties
<1>3. PICK c \in Cells(a, b) : c = <<1, 1>>
  <2>1. 1 \in 1 .. n + 1 /\ 1 \in 1 .. m + 1
    OBVIOUS
  <2> QED
    BY <1>2, <2>1 DEF Cells
<1>4. /\ TextBefore(walk[c]) = RestOf(a, c[1]) /\ TextAfter(walk[c]) = RestOf(b, c[2])
      /\ InCommon(walk[c]) = lcs[c]
  BY <1>1, WalkTells
<1>5. RestOf(a, 1) = a /\ RestOf(b, 1) = b
  BY SubSeqFull DEF RestOf
<1>6. Diff(a, b) = walk[c] /\ c[1] = 1 /\ c[2] = 1
  BY <1>1, <1>3
<1>7. \A s \in CommonSubsequences(a, b) : Cardinality(s) <= lcs[c]
  <2> SUFFICES ASSUME NEW s \in CommonSubsequences(a, b) PROVE Cardinality(s) <= lcs[c]
    OBVIOUS
  <2>1. PICK f \in [s -> DOMAIN b] : Aligns(a, b, s, f)
    BY DEF CommonSubsequences, Aligns
  <2>2. s \in SUBSET (c[1] .. Len(a)) /\ f \in [s -> c[2] .. Len(b)]
    BY <1>2, <1>6 DEF CommonSubsequences
  <2>3. NoneLonger(a, b, c, lcs[c])
    BY <1>1, TableIsGreatest
  <2> QED
    BY <2>1, <2>2, <2>3 DEF NoneLonger
<1> QED
  BY <1>4, <1>5, <1>6, <1>7 DEF TextBefore, TextAfter, InCommon, Says

\* The diff a scene shows is one that keeps as many lines as can be kept, whatever
\* the two texts of any scene of the script are, and every beginning of them.
THEOREM DiffsAreMinimal == Spec => []DiffIsMinimal
<1>1. DiffIsMinimal
  <2> SUFFICES ASSUME NEW raw, NEW scene, scene = ParseScene(raw).scene, scene.type = "diff_view",
                      NEW i \in 0 .. Len(scene.props.before), NEW j \in 0 .. Len(scene.props.after),
                      NEW a, a = SubSeq(scene.props.before, 1, i),
                      NEW b, b = SubSeq(scene.props.after, 1, j)
               PROVE  /\ Texts(OfKind(Diff(a, b), {"context", "removed"})) = a
                      /\ Texts(OfKind(Diff(a, b), {"context", "added"})) = b
                      /\ \A s \in CommonSubsequences(a, b) :
                             Cardinality(s) <= Len(OfKind(Diff(a, b), {"context"}))
    BY DEF DiffIsMinimal
  <2>1. ParseScene(raw).ok
    BY DEF ParseScene, NoScene
  <2>2. scene.type = raw.type /\ scene.props = Filled(raw) /\ ValidValues(raw.type, Filled(raw))
    <3>1. /\ ParseScene(raw).scene = [type |-> raw.type, props |-> Filled(raw)]
          /\ ValidValues(raw.type, Filled(raw))
      BY <2>1, ParseTwice
    <3> QED
      BY <3>1
  <2>3. PICK before, after : before = scene.props.before /\ after = scene.props.after
    OBVIOUS
  <2>4. before \in Seq(ToSet(before)) /\ after \in Seq(ToSet(after))
    BY <2>2, <2>3 DEF ValidValues, IsSequence
  <2>5. PICK S : S = ToSet(before) \cup ToSet(after)
    OBVIOUS
  <2>6. before \in Seq(S) /\ after \in Seq(S)
    BY <2>4, <2>5
  <2>7. a \in Seq(S) /\ b \in Seq(S)
    <3>1. a = SubSeq(before, 1, i) /\ b = SubSeq(after, 1, j)
      BY <2>3
    <3>2. i \in 0 .. Len(before) /\ j \in 0 .. Len(after)
      BY <2>3
    <3>3. /\ \A k \in 1 .. i : before[k] \in S
          /\ \A k \in 1 .. j : after[k] \in S
      BY <2>6, <3>2
    <3>4. SubSeq(before, 1, i) \in Seq(S) /\ SubSeq(after, 1, j) \in Seq(S)
      BY <3>2, <3>3, SubSeqProperties
    <3> QED
      BY <3>1, <3>4
  <2>8. \A x, y \in Seq(S) :
            /\ Texts(OfKind(Diff(x, y), {"context", "removed"})) = x
            /\ Texts(OfKind(Diff(x, y), {"context", "added"})) = y
            /\ \A s \in CommonSubsequences(x, y) :
                   Cardinality(s) <= Len(OfKind(Diff(x, y), {"context"}))
    BY DiffKeepsMost
  <2> QED
    BY <2>7, <2>8, Zenon
<1> QED
  BY <1>1, PTL

-----------------------------------------------------------------------------
(* Windows one after the other *)

Window(c) == c.start \in Int /\ c.end \in Int /\ c.start <= c.end

\* None begins before one before it has ended.
Disjoint(m) ==
    /\ Len(m) \in Nat /\ DOMAIN m = 1 .. Len(m)
    /\ \A k \in 1 .. Len(m) : Window(m[k])
    /\ \A k, l \in 1 .. Len(m) : k < l => m[k].end <= m[l].start

\* The least of a set of places.
LEMMA MinIs ==
    ASSUME NEW n \in Nat, NEW T, T \subseteq 1 .. n, T # {}
    PROVE  Min(T) \in T /\ \A k \in T : Min(T) <= k
<1>1. T \subseteq Nat
  OBVIOUS
<1>2. \E k \in T : \A l \in T : k <= l
  BY <1>1, LeastElement
<1> QED
  BY <1>2 DEF Min

\* What is clamped to the windows is the one that holds the time.
LEMMA ClampedIs ==
    ASSUME NEW m, Disjoint(m), NEW t \in Int, NEW k \in 1 .. Len(m), Within(m[k], t, FPS)
    PROVE  Clamped(m, t, FPS) = m[k]
<1>1. PICK n \in Nat : n = Len(m)
  BY DEF Disjoint
<1> DEFINE hits == {i \in DOMAIN m : Within(m[i], t, FPS)}
<1>2. k \in 1 .. n /\ 1 \in 1 .. n /\ n \in 1 .. n /\ DOMAIN m = 1 .. n
  BY <1>1 DEF Disjoint
<1>3. \A i \in 1 .. n : m[i].start \in Int /\ m[i].end \in Int /\ m[i].start <= m[i].end
  BY <1>1 DEF Disjoint, Window
<1>4. m[k].start * 30 <= t /\ t < m[k].end * 30
  BY DEF Within, FPS
<1>5. ASSUME NEW i \in 1 .. n, Within(m[i], t, FPS) PROVE i = k
  <2>1. m[i].start * 30 <= t /\ t < m[i].end * 30
    BY <1>5 DEF Within, FPS
  <2>2. ~(i < k)
    <3> SUFFICES ASSUME i < k PROVE FALSE
      OBVIOUS
    <3>1. m[i].end <= m[k].start
      BY <1>1, <1>2 DEF Disjoint
    <3>2. PICK a \in Int, b \in Int : a = m[i].end /\ b = m[k].start
      BY <1>2, <1>3
    <3> QED
      BY <1>4, <2>1, <3>1, <3>2
  <2>3. ~(k < i)
    <3> SUFFICES ASSUME k < i PROVE FALSE
      OBVIOUS
    <3>1. m[k].end <= m[i].start
      BY <1>1, <1>2 DEF Disjoint
    <3>2. PICK a \in Int, b \in Int : a = m[k].end /\ b = m[i].start
      BY <1>2, <1>3
    <3> QED
      BY <1>4, <2>1, <3>1, <3>2
  <2> QED
    BY <1>2, <2>2, <2>3
<1>6. hits = {k}
  BY <1>2, <1>5
<1>7. Min(hits) = k
  BY <1>1, <1>2, <1>6, MinIs
<1>8. \A otherwise : FirstAt(m, t, FPS, otherwise) = m[k]
  BY <1>6, <1>7 DEF FirstAt
<1>9. ~(t < m[1].start * FPS)
  <2>1. m[1].start <= m[k].start
    <3>1. k = 1 \/ m[1].end <= m[k].start
      BY <1>1, <1>2 DEF Disjoint
    <3> QED
      BY <1>2, <1>3, <3>1
  <2>2. PICK a \in Int, b \in Int : a = m[1].start /\ b = m[k].start
    BY <1>2, <1>3
  <2> QED
    BY <1>4, <2>1, <2>2 DEF FPS
<1>10. ~(t >= m[n].end * FPS)
  <2>1. m[k].end <= m[n].end
    <3>1. k = n \/ m[k].end <= m[n].start
      <4>1. \A l \in 1 .. n : k < l => m[k].end <= m[l].start
        BY <1>1, <1>2 DEF Disjoint
      <4> QED
        BY <1>2, <4>1
    <3> QED
      BY <1>2, <1>3, <3>1
  <2>2. PICK a \in Int, b \in Int : a = m[n].end /\ b = m[k].end
    BY <1>2, <1>3
  <2> QED
    BY <1>4, <2>1, <2>2 DEF FPS
<1>11. Last(m) = m[n]
  BY <1>1 DEF Last
<1> QED
  BY <1>1, <1>8, <1>9, <1>10, <1>11 DEF Clamped

-----------------------------------------------------------------------------
(* The cues of the mouth, with the silence between them *)

\* The windows fill the time from 0 to the given one.
Tiles(m, to) ==
    /\ Disjoint(m) /\ to \in Nat
    /\ \A k \in 1 .. Len(m) : m[k].end <= to
    /\ \A t \in Nat : t < to * FPS => \E k \in 1 .. Len(m) : Within(m[k], t, FPS)

Tile(c) == c.start \in Nat /\ c.end \in Nat /\ c.start <= c.end

LEMMA TilesOn ==
    ASSUME NEW E, NEW m \in Seq(E), NEW to, Tiles(m, to), NEW c \in E, Tile(c), c.start = to
    PROVE  Append(m, c) \in Seq(E) /\ Tiles(Append(m, c), c.end)
<1> DEFINE more == Append(m, c)
<1>1. /\ more \in Seq(E) /\ Len(m) \in Nat /\ Len(more) = Len(m) + 1
      /\ \A i \in 1 .. Len(m) : more[i] = m[i]
      /\ more[Len(m) + 1] = c
      /\ \A i \in 1 .. Len(m) + 1 : i \in 1 .. Len(m) \/ i = Len(m) + 1
      /\ DOMAIN more = 1 .. Len(m) + 1
  OBVIOUS
<1> HIDE DEF more
<1>2. PICK n \in Nat : n = Len(m)
  BY <1>1
<1>3. /\ \A k \in 1 .. n : m[k].start \in Int /\ m[k].end \in Int /\ m[k].start <= m[k].end /\ m[k].end <= c.start
      /\ c.start \in Nat /\ c.end \in Nat /\ c.start <= c.end
  BY <1>2 DEF Tiles, Disjoint, Window, Tile
<1>4. Disjoint(more)
  <2>1. \A k \in 1 .. n + 1 : Window(more[k])
    BY <1>1, <1>2, <1>3 DEF Window
  <2>2. ASSUME NEW k \in 1 .. n + 1, NEW l \in 1 .. n + 1, k < l PROVE more[k].end <= more[l].start
    <3>1. k \in 1 .. n /\ (l \in 1 .. n \/ l = n + 1)
      BY <2>2
    <3>2. \A j \in 1 .. n : k < j => m[k].end <= m[j].start
      BY <1>2, <3>1 DEF Tiles, Disjoint
    <3> QED
      BY <1>1, <1>2, <1>3, <2>2, <3>1, <3>2
  <2> QED
    BY <1>1, <1>2, <2>1, <2>2 DEF Disjoint
<1>5. ASSUME NEW k \in 1 .. Len(more) PROVE more[k].end <= c.end
  BY <1>1, <1>2, <1>3
<1>6. ASSUME NEW t \in Nat, t < c.end * FPS PROVE \E k \in 1 .. Len(more) : Within(more[k], t, FPS)
  <2>1. CASE t < to * FPS
    <3>1. PICK k \in 1 .. Len(m) : Within(m[k], t, FPS)
      BY <2>1 DEF Tiles
    <3> QED
      BY <1>1, <3>1
  <2>2. CASE ~(t < to * FPS)
    <3>1. c.start * FPS <= t
      BY <1>3, <2>2 DEF FPS
    <3>2. Within(c, t, FPS) /\ n + 1 \in 1 .. Len(more)
      BY <1>1, <1>2, <1>6, <3>1 DEF Within
    <3> QED
      BY <1>1, <1>2, <3>2
  <2> QED
    BY <2>1, <2>2
<1> QED
  BY <1>1, <1>3, <1>4, <1>5, <1>6 DEF Tiles, more

\* The cues of a take, in order and apart.
AreCues(cues) ==
    /\ cues \in Seq(ToSet(cues)) /\ Len(cues) \in Nat /\ DOMAIN cues = 1 .. Len(cues)
    /\ \A i \in 1 .. Len(cues) : Tile(cues[i]) /\ (i > 1 => cues[i - 1].end <= cues[i].start)

\* The windows are the first cues, with silence.
SaysCues(m, cues, n) ==
    /\ \A i \in 1 .. n : \E k \in 1 .. Len(m) : m[k] = cues[i]
    /\ \A k \in 1 .. Len(m) : m[k].shape = "X" \/ \E i \in 1 .. n : m[k] = cues[i]

CuesAndSilence(cues) ==
    ToSet(cues) \cup {MouthCue("X", start, end) : start \in Nat, end \in Nat}

FirstCues(cues, n) == [i \in 1 .. n |-> AfterSilence(cues[i], Before(cues, i))]

Voices(m, cues, n, to) == m \in Seq(CuesAndSilence(cues)) /\ Tiles(m, to) /\ SaysCues(m, cues, n)

\* One more window, of silence or of the next cue.
LEMMA Silence ==
    ASSUME NEW cues, AreCues(cues), NEW n \in 0 .. Len(cues), NEW m, NEW to,
           Voices(m, cues, n, to), NEW later \in Nat, to <= later
    PROVE  Voices(Append(m, MouthCue("X", to, later)), cues, n, later)
<1> DEFINE c == MouthCue("X", to, later)
           more == Append(m, c)
<1>1. to \in Nat /\ c.start = to /\ c.end = later /\ c.shape = "X" /\ Tile(c) /\ c \in CuesAndSilence(cues)
  BY DEF Voices, Tiles, MouthCue, Tile, CuesAndSilence
<1> HIDE DEF c
<1>2. m \in Seq(CuesAndSilence(cues)) /\ Tiles(m, to) /\ SaysCues(m, cues, n)
  BY DEF Voices
<1>3. more \in Seq(CuesAndSilence(cues)) /\ Tiles(more, later)
  BY <1>1, <1>2, TilesOn
<1>4. /\ Len(m) \in Nat /\ Len(more) = Len(m) + 1
      /\ \A i \in 1 .. Len(m) : more[i] = m[i]
      /\ more[Len(m) + 1] = c
      /\ \A i \in 1 .. Len(m) + 1 : i \in 1 .. Len(m) \/ i = Len(m) + 1
  BY <1>1, <1>2
<1> HIDE DEF more
<1>5. SaysCues(more, cues, n)
  <2>1. \A i \in 1 .. Len(m) : i \in 1 .. Len(more)
    BY <1>4
  <2>2. ASSUME NEW i \in 1 .. n PROVE \E k \in 1 .. Len(more) : more[k] = cues[i]
    <3>1. PICK k \in 1 .. Len(m) : m[k] = cues[i]
      BY <1>2 DEF SaysCues
    <3> QED
      BY <1>4, <2>1, <3>1
  <2>3. ASSUME NEW k \in 1 .. Len(more)
        PROVE  more[k].shape = "X" \/ \E i \in 1 .. n : more[k] = cues[i]
    <3>1. CASE k = Len(m) + 1
      BY <1>1, <1>4, <3>1
    <3>2. CASE k \in 1 .. Len(m)
      BY <1>2, <1>4, <3>2 DEF SaysCues
    <3> QED
      BY <1>4, <3>1, <3>2
  <2> QED
    BY <2>2, <2>3 DEF SaysCues
<1> QED
  BY <1>3, <1>5 DEF Voices, c, more

LEMMA NextCue ==
    ASSUME NEW cues, AreCues(cues), NEW n \in 1 .. Len(cues), NEW m,
           Voices(m, cues, n - 1, cues[n].start)
    PROVE  Voices(Append(m, cues[n]), cues, n, cues[n].end)
<1> DEFINE c == cues[n]
           more == Append(m, c)
<1>1. Len(cues) \in Nat /\ Tile(c) /\ c \in CuesAndSilence(cues)
  BY DEF AreCues, CuesAndSilence, ToSet
<1> HIDE DEF c
<1>2. m \in Seq(CuesAndSilence(cues)) /\ Tiles(m, c.start) /\ SaysCues(m, cues, n - 1)
  BY DEF Voices, c
<1>3. more \in Seq(CuesAndSilence(cues)) /\ Tiles(more, c.end)
  BY <1>1, <1>2, TilesOn
<1>4. /\ Len(m) \in Nat /\ Len(more) = Len(m) + 1
      /\ \A i \in 1 .. Len(m) : more[i] = m[i]
      /\ more[Len(m) + 1] = c
      /\ \A i \in 1 .. Len(m) + 1 : i \in 1 .. Len(m) \/ i = Len(m) + 1
  BY <1>1, <1>2
<1> HIDE DEF more
<1>5. SaysCues(more, cues, n)
  <2>1. /\ \A i \in 1 .. Len(m) + 1 : i \in 1 .. Len(more)
        /\ Len(m) + 1 \in 1 .. Len(more)
        /\ \A i \in 1 .. n : i = n \/ i \in 1 .. n - 1
        /\ n \in 1 .. n /\ \A i \in 1 .. n - 1 : i \in 1 .. n
    BY <1>1, <1>4
  <2>2. \A i \in 1 .. n : \E k \in 1 .. Len(more) : more[k] = cues[i]
    <3> SUFFICES ASSUME NEW i \in 1 .. n PROVE \E k \in 1 .. Len(more) : more[k] = cues[i]
      OBVIOUS
    <3>1. CASE i = n
      BY <1>4, <2>1, <3>1 DEF c
    <3>2. CASE i \in 1 .. n - 1
      <4>1. PICK k \in 1 .. Len(m) : m[k] = cues[i]
        BY <1>2, <3>2 DEF SaysCues
      <4> QED
        BY <1>4, <2>1, <4>1
    <3> QED
      BY <2>1, <3>1, <3>2
  <2>3. \A k \in 1 .. Len(more) : more[k].shape = "X" \/ \E i \in 1 .. n : more[k] = cues[i]
    <3> SUFFICES ASSUME NEW k \in 1 .. Len(more)
                 PROVE  more[k].shape = "X" \/ \E i \in 1 .. n : more[k] = cues[i]
      OBVIOUS
    <3>1. CASE k = Len(m) + 1
      BY <1>4, <2>1, <3>1 DEF c
    <3>2. CASE k \in 1 .. Len(m)
      <4>1. more[k] = m[k]
        BY <1>4, <3>2
      <4>2. m[k].shape = "X" \/ \E i \in 1 .. n - 1 : m[k] = cues[i]
        BY <1>2, <3>2 DEF SaysCues
      <4>3. \A i \in 1 .. n - 1 : i \in 1 .. n
        BY <1>1
      <4> QED
        BY <4>1, <4>2, <4>3
    <3> QED
      BY <1>4, <3>1, <3>2
  <2> QED
    BY <2>2, <2>3 DEF SaysCues
<1> QED
  BY <1>3, <1>5 DEF Voices, c, more

\* The windows of the first n cues are Voices, up to where the next begins.
LEMMA GapsAre ==
    ASSUME NEW cues, AreCues(cues), NEW n \in 0 .. Len(cues)
    PROVE  Voices(FlattenSeq(FirstCues(cues, n)), cues, n, Before(cues, n + 1))
<1>1. PICK N \in Nat : N = Len(cues)
  BY DEF AreCues
<1> DEFINE E == CuesAndSilence(cues)
           Upheld(k) == Voices(FlattenSeq(FirstCues(cues, k)), cues, k, Before(cues, k + 1))
           T == {k \in 0 .. N : Upheld(k)}
<1>2. 0 \in T
  <2>1. FlattenSeq(FirstCues(cues, 0)) = <<>> /\ Before(cues, 1) = 0
    BY FlattenEmpty DEF FirstCues, Before
  <2>2. Tiles(<<>>, 0)
    BY DEF Tiles, Disjoint, FPS
  <2>3. SaysCues(<<>>, cues, 0)
    BY DEF SaysCues
  <2>4. Voices(<<>>, cues, 0, 0)
    BY <2>2, <2>3 DEF Voices
  <2> QED
    BY <2>1, <2>4
<1>3. \A i \in 1 .. N : /\ Tile(cues[i]) /\ cues[i] \in E
                        /\ Before(cues, i) \in Nat /\ Before(cues, i) <= cues[i].start
  <2> SUFFICES ASSUME NEW i \in 1 .. N
               PROVE  /\ Tile(cues[i]) /\ cues[i] \in E
                      /\ Before(cues, i) \in Nat /\ Before(cues, i) <= cues[i].start
    OBVIOUS
  <2>1. Tile(cues[i]) /\ cues[i] \in E
    BY <1>1 DEF AreCues, CuesAndSilence, ToSet
  <2>2. CASE i = 1
    BY <2>1, <2>2 DEF Before, Tile
  <2>3. CASE i # 1
    <3>1. i > 1 /\ i - 1 \in 1 .. N
      BY <1>1, <2>3
    <3>2. Before(cues, i) = cues[i - 1].end
      BY <2>3 DEF Before
    <3>3. cues[i - 1].end \in Nat /\ cues[i - 1].end <= cues[i].start
      BY <1>1, <3>1 DEF AreCues, Tile
    <3> QED
      BY <2>1, <3>2, <3>3
  <2> QED
    BY <2>1, <2>2, <2>3
<1>4. \A i \in 1 .. N : AfterSilence(cues[i], Before(cues, i)) \in Seq(E)
  <2> SUFFICES ASSUME NEW i \in 1 .. N
               PROVE  AfterSilence(cues[i], Before(cues, i)) \in Seq(E)
    OBVIOUS
  <2>1. MouthCue("X", Before(cues, i), cues[i].start) \in E
    BY <1>3 DEF Tile, CuesAndSilence
  <2> QED
    BY <1>3, <2>1 DEF AfterSilence
<1>5. ASSUME NEW k \in 1 .. N, k - 1 \in T PROVE k \in T
  <2> DEFINE before == Before(cues, k)
             F == FlattenSeq(FirstCues(cues, k - 1))
             A == AfterSilence(cues[k], before)
  <2>1. Voices(F, cues, k - 1, before)
    BY <1>1, <1>5
  <2>2. F \in Seq(E)
    BY <2>1 DEF Voices
  <2>3. FlattenSeq(FirstCues(cues, k)) = F \o A
    <3> DEFINE One(i) == AfterSilence(cues[i], Before(cues, i))
               seqs == FirstCues(cues, k - 1)
    <3>1. seqs = [i \in 1 .. k - 1 |-> One(i)] /\ FirstCues(cues, k) = [i \in 1 .. k |-> One(i)]
      BY DEF FirstCues
    <3>2. \A i \in 1 .. k : One(i) \in Seq(E)
      BY <1>1, <1>4
    <3> HIDE DEF One, seqs
    <3>3. seqs \in Seq(Seq(E)) /\ FirstCues(cues, k) = Append(seqs, One(k)) /\ One(k) \in Seq(E)
      BY <3>1, <3>2
    <3>4. Joins(Seq(E))
      BY SequencesJoin
    <3>5. FlattenSeq(Append(seqs, One(k))) = FlattenSeq(seqs) \o One(k)
      BY <3>3, <3>4, FlattenAppend
    <3> QED
      BY <3>3, <3>5 DEF One, seqs
  <2>4. /\ Tile(cues[k]) /\ cues[k] \in E /\ before \in Nat /\ before <= cues[k].start
        /\ cues[k].start \in Nat
    BY <1>3 DEF Tile
  <2>5. Before(cues, k + 1) = cues[k].end
    BY <1>1 DEF Before
  <2> HIDE DEF F, before
  <2>6. CASE cues[k].start > before
    <3> DEFINE x == MouthCue("X", before, cues[k].start)
    <3>1. Voices(Append(F, x), cues, k - 1, cues[k].start)
      BY <1>1, <2>1, <2>4, Silence
    <3>2. Voices(Append(Append(F, x), cues[k]), cues, k, cues[k].end)
      BY <1>1, <3>1, NextCue
    <3>3. A = <<x>> \o <<cues[k]>>
      BY <2>6 DEF AfterSilence
    <3>4. x \in E
      BY <2>4 DEF CuesAndSilence
    <3> HIDE DEF x
    <3>5. F \o (<<x>> \o <<cues[k]>>) = Append(Append(F, x), cues[k])
      BY <2>2, <2>4, <3>4
    <3> HIDE DEF A
    <3>6. FlattenSeq(FirstCues(cues, k)) = Append(Append(F, x), cues[k])
      BY <2>3, <3>3, <3>5
    <3>7. Upheld(k)
      BY <2>5, <3>2, <3>6
    <3> QED
      BY <3>7
  <2>7. CASE cues[k].start = before
    <3>1. Voices(Append(F, cues[k]), cues, k, cues[k].end)
      BY <1>1, <2>1, <2>7, NextCue
    <3>2. A = <<>> \o <<cues[k]>>
      <4>1. ~(cues[k].start > before)
        BY <2>4, <2>7
      <4> QED
        BY <4>1 DEF AfterSilence
    <3>3. F \o (<<>> \o <<cues[k]>>) = Append(F, cues[k])
      BY <2>2, <2>4
    <3> HIDE DEF A
    <3>4. FlattenSeq(FirstCues(cues, k)) = Append(F, cues[k])
      BY <2>3, <3>2, <3>3
    <3>5. Upheld(k)
      BY <2>5, <3>1, <3>4
    <3> QED
      BY <3>5
  <2> QED
    BY <2>4, <2>6, <2>7
<1>6. 0 .. N \subseteq T
  <2> HIDE DEF T
  <2> QED
    BY <1>2, <1>5, UpToInduction
<1>7. n \in T
  BY <1>1, <1>6
<1> QED
  BY <1>7

\* The windows of the mouth are those of the cues, with silence to the end and no gap.
LEMMA GapsFilled ==
    ASSUME NEW cues, AreCues(cues), cues # <<>>, NEW dur \in Nat
    PROVE  \E to \in Nat : dur <= to /\ Voices(InsertSilenceGaps(cues, dur), cues, Len(cues), to)
<1>1. PICK N \in Nat : N = Len(cues) /\ N \in 1 .. N
  <2>1. cues \in Seq(ToSet(cues))
    BY DEF AreCues
  <2>2. Len(cues) \in Nat /\ Len(cues) # 0
    BY <2>1
  <2> QED
    BY <2>2
<1> DEFINE F == FlattenSeq(FirstCues(cues, N))
           last == Last(cues).end
           x == MouthCue("X", last, dur)
<1>2. Voices(F, cues, N, last) /\ last \in Nat
  <2>1. Before(cues, N + 1) = cues[N].end /\ Last(cues) = cues[N]
    BY <1>1 DEF Before, Last
  <2>2. Tile(cues[N])
    BY <1>1 DEF AreCues
  <2> QED
    BY <1>1, <2>1, <2>2, GapsAre DEF Tile
<1>3. InsertSilenceGaps(cues, dur) = F \o IF dur > last THEN <<x>> ELSE <<>>
  <2>1. [i \in DOMAIN cues |-> AfterSilence(cues[i], Before(cues, i))] = FirstCues(cues, N)
    BY <1>1 DEF FirstCues, AreCues
  <2> QED
    BY <2>1 DEF InsertSilenceGaps
<1>4. F \in Seq(CuesAndSilence(cues)) /\ x \in CuesAndSilence(cues)
  BY <1>2 DEF Voices, CuesAndSilence
<1> HIDE DEF F
<1>5. CASE dur > last
  <2>1. Voices(Append(F, x), cues, N, dur)
    BY <1>1, <1>2, <1>5, Silence
  <2>2. F \o <<x>> = Append(F, x)
    <3> HIDE DEF x
    <3> QED
      BY <1>4
  <2>3. InsertSilenceGaps(cues, dur) = Append(F, x)
    BY <1>3, <1>5, <2>2
  <2> HIDE DEF x
  <2> QED
    BY <1>1, <2>1, <2>3
<1>6. CASE ~(dur > last)
  <2>1. F \o <<>> = F /\ dur <= last
    BY <1>2, <1>4, <1>6
  <2> QED
    BY <1>1, <1>2, <1>3, <1>6, <2>1
<1> QED
  BY <1>5, <1>6

\* Under a cue the mouth has its shape, and under none it rests.
LEMMA MouthSays ==
    ASSUME NEW cues, AreCues(cues), cues # <<>>, NEW dur \in Nat,
           NEW t \in Nat, t < dur * FPS
    PROVE  /\ \A i \in 1 .. Len(cues) :
                  Within(cues[i], t, FPS)
                      => Clamped(InsertSilenceGaps(cues, dur), t, FPS).shape = cues[i].shape
           /\ (\A i \in 1 .. Len(cues) : ~Within(cues[i], t, FPS))
                  => Clamped(InsertSilenceGaps(cues, dur), t, FPS).shape = "X"
<1> DEFINE m == InsertSilenceGaps(cues, dur)
<1>1. PICK to \in Nat : dur <= to /\ Voices(m, cues, Len(cues), to)
  BY GapsFilled
<1> HIDE DEF m
<1>2. Tiles(m, to) /\ SaysCues(m, cues, Len(cues)) /\ Disjoint(m)
  BY <1>1 DEF Voices, Tiles
<1>3. ASSUME NEW i \in 1 .. Len(cues), Within(cues[i], t, FPS)
      PROVE  Clamped(m, t, FPS).shape = cues[i].shape
  <2>1. PICK k \in 1 .. Len(m) : m[k] = cues[i]
    BY <1>2 DEF SaysCues
  <2>2. Within(m[k], t, FPS)
    BY <1>3, <2>1
  <2>3. Clamped(m, t, FPS) = m[k]
    BY <1>2, <2>2, ClampedIs
  <2> QED
    BY <2>1, <2>3
<1>4. ASSUME \A i \in 1 .. Len(cues) : ~Within(cues[i], t, FPS)
      PROVE  Clamped(m, t, FPS).shape = "X"
  <2>1. t < to * FPS
    BY <1>1 DEF FPS
  <2>2. PICK k \in 1 .. Len(m) : Within(m[k], t, FPS)
    BY <1>2, <2>1 DEF Tiles
  <2>3. Clamped(m, t, FPS) = m[k]
    BY <1>2, <2>2, ClampedIs
  <2>4. m[k].shape = "X"
    BY <1>2, <1>4, <2>2 DEF SaysCues
  <2> QED
    BY <2>3, <2>4
<1> QED
  BY <1>3, <1>4 DEF m

-----------------------------------------------------------------------------
(* Stretches of samples *)

Faces == {"surprised", "happy", "thoughtful", "talking", "idle"}

Sample == [t : Nat, state : Faces]

AreSamples(samples) ==
    /\ samples \in Seq(Sample)
    /\ \A i, j \in 1 .. Len(samples) : i < j => samples[i].t <= samples[j].t

Stretch == [state : Faces, start : Nat, end : Nat]

\* What Runs does with one more sample.
Onward(runs, s) ==
    IF runs # <<>> /\ Last(runs).state = s.state
    THEN [runs EXCEPT ![Len(runs)].end = s.t]
    ELSE Append(runs, [state |-> s.state, start |-> s.t, end |-> s.t])

Running(f, samples) ==
    f = [n \in 0 .. Len(samples) |-> IF n = 0 THEN <<>> ELSE Onward(f[n - 1], samples[n])]

\* Stretch k has sample i of the first n, and the next begins with a later one.
Has(runs, samples, n, k, i) ==
    /\ runs[k].state = samples[i].state /\ runs[k].start <= samples[i].t
    /\ k < Len(runs) => \E j \in i + 1 .. n : runs[k + 1].start = samples[j].t

InOrder(runs) ==
    /\ \A k \in 1 .. Len(runs) : runs[k].start <= runs[k].end
    /\ \A k, l \in 1 .. Len(runs) : k < l => runs[k].end <= runs[l].start

RunsOf(runs, samples, n) ==
    /\ runs \in Seq(Stretch) /\ InOrder(runs)
    /\ n = 0 => runs = <<>>
    /\ n > 0 => Len(runs) > 0 /\ runs[Len(runs)].end = samples[n].t
                /\ runs[Len(runs)].state = samples[n].state
    /\ \A i \in 1 .. n : \E k \in 1 .. Len(runs) : Has(runs, samples, n, k, i)

LEMMA OnwardTyped ==
    ASSUME NEW runs \in Seq(Stretch), NEW s \in Sample
    PROVE  Onward(runs, s) \in Seq(Stretch)
<1>1. CASE runs # <<>> /\ Last(runs).state = s.state
  <2>1. PICK n \in Nat : n = Len(runs) /\ n \in 1 .. n /\ DOMAIN runs = 1 .. n
    BY <1>1
  <2>2. runs[n] \in Stretch /\ [runs[n] EXCEPT !.end = s.t] \in Stretch
    <3>1. runs[n] \in Stretch
      BY <2>1
    <3>2. s.t \in Nat
      BY DEF Sample
    <3>3. \A r \in Stretch, e \in Nat : [r EXCEPT !.end = e] \in Stretch
      BY DEF Stretch
    <3> QED
      BY <3>1, <3>2, <3>3
  <2>3. [runs EXCEPT ![n] = [runs[n] EXCEPT !.end = s.t]] \in Seq(Stretch)
    BY <2>1, <2>2
  <2> QED
    BY <1>1, <2>1, <2>3 DEF Onward
<1>2. CASE ~(runs # <<>> /\ Last(runs).state = s.state)
  <2>1. [state |-> s.state, start |-> s.t, end |-> s.t] \in Stretch
    BY DEF Stretch, Sample
  <2> QED
    BY <1>2, <2>1 DEF Onward
<1> QED
  BY <1>1, <1>2

LEMMA RunningExists ==
    ASSUME NEW samples, AreSamples(samples)
    PROVE  \E f : Running(f, samples)
<1>1. PICK N \in Nat : N = Len(samples)
  BY DEF AreSamples
<1> DEFINE C == 0 .. N
           V == Seq(Stretch)
           Entry(f, n) == IF n = 0 THEN <<>> ELSE Onward(f[n - 1], samples[n])
           rank == [n \in C |-> n]
           Up == [f \in [C -> V] |-> [n \in C |-> Entry(f, n)]]
<1>2. rank \in [C -> 0 .. N]
  OBVIOUS
<1>3. ASSUME NEW f \in [C -> V], NEW n \in C PROVE Entry(f, n) \in V
  <2>1. <<>> \in V
    OBVIOUS
  <2>2. ASSUME n # 0 PROVE Onward(f[n - 1], samples[n]) \in V
    <3>1. n - 1 \in C /\ samples[n] \in Sample
      <4>1. samples \in Seq(Sample) /\ n \in 1 .. N
        BY <2>2 DEF AreSamples
      <4> QED
        BY <1>1, <4>1
    <3>2. f[n - 1] \in V
      BY <3>1
    <3> HIDE DEF C
    <3> QED
      BY <3>1, <3>2, OnwardTyped
  <2> HIDE DEF V
  <2> QED
    BY <2>1, <2>2
<1>4. Up \in [[C -> V] -> [C -> V]]
  <2> HIDE DEF At, V
  <2> QED
    BY <1>3
<1>5. ASSUME NEW f \in [C -> V], NEW g \in [C -> V], NEW n \in C,
             \A d \in C : rank[d] < rank[n] => f[d] = g[d]
      PROVE  Up[f][n] = Up[g][n]
  <2>1. n # 0 => n - 1 \in C /\ rank[n - 1] < rank[n]
    OBVIOUS
  <2>2. Entry(f, n) = Entry(g, n)
    BY <1>5, <2>1
  <2> HIDE DEF At, V
  <2> QED
    BY <2>2
<1>8. V # {}
  <2>1. <<>> \in V
    OBVIOUS
  <2> QED
    BY <2>1
<1> HIDE DEF rank, Up
<1>6. PICK f \in [C -> V] : Up[f] = f
  <2> HIDE DEF C, V
  <2>1. ComputesFrom(Up, rank, N, C, V)
    BY <1>2, <1>4, <1>5, <1>8 DEF ComputesFrom
  <2> QED
    BY <2>1, RecursionTheorem
<1>7. f = [n \in C |-> Entry(f, n)]
  <2> HIDE DEF At, V
  <2> QED
    BY <1>6 DEF Up
<1> QED
  BY <1>1, <1>7 DEF Running

\* One more sample keeps the stretches those of the samples so far.
LEMMA Stretched ==
    ASSUME NEW samples, AreSamples(samples), NEW n \in 1 .. Len(samples),
           NEW runs, RunsOf(runs, samples, n - 1)
    PROVE  RunsOf(Onward(runs, samples[n]), samples, n)
<1> DEFINE s == samples[n]
           more == Onward(runs, s)
<1>1. PICK N \in Nat : N = Len(samples)
  BY DEF AreSamples
<1>2. /\ n - 1 \in Nat /\ n \in 1 .. N
      /\ \A i \in 1 .. N : samples[i] \in Sample /\ samples[i].t \in Nat
      /\ \A i, j \in 1 .. N : i < j => samples[i].t <= samples[j].t
      /\ \A i \in 1 .. n : i = n \/ i \in 1 .. n - 1
  <2>1. samples \in Seq(Sample) /\ \A i, j \in 1 .. N : i < j => samples[i].t <= samples[j].t
    BY <1>1 DEF AreSamples
  <2>2. \A i \in 1 .. N : samples[i] \in Sample
    BY <1>1, <2>1
  <2>3. \A x \in Sample : x.t \in Nat
    BY DEF Sample
  <2> QED
    BY <1>1, <2>1, <2>2, <2>3
<1>3. more \in Seq(Stretch)
  BY <1>2, OnwardTyped DEF RunsOf
<1>4. runs \in Seq(Stretch) /\ InOrder(runs)
  BY DEF RunsOf
<1>5. PICK L \in Nat :
          /\ L = Len(runs) /\ DOMAIN runs = 1 .. L
          /\ \A k \in 1 .. L : runs[k] \in Stretch /\ runs[k].start \in Nat /\ runs[k].end \in Nat
  <2>1. PICK L \in Nat : L = Len(runs) /\ DOMAIN runs = 1 .. L /\ \A k \in 1 .. L : runs[k] \in Stretch
    BY <1>4
  <2>2. \A r \in Stretch : r.start \in Nat /\ r.end \in Nat
    BY DEF Stretch
  <2> QED
    BY <2>1, <2>2
<1>6. ASSUME NEW i \in 1 .. n - 1 PROVE \E k \in 1 .. L : Has(runs, samples, n - 1, k, i)
  BY <1>5 DEF RunsOf
<1>7. L > 0 => n - 1 > 0 /\ runs[L].end = samples[n - 1].t /\ runs[L].end <= s.t
  <2> SUFFICES ASSUME L > 0 PROVE n - 1 > 0 /\ runs[L].end = samples[n - 1].t /\ runs[L].end <= s.t
    OBVIOUS
  <2>1. n - 1 # 0
    BY <1>5 DEF RunsOf
  <2>2. n - 1 > 0 /\ n - 1 \in 1 .. N /\ n - 1 < n
    BY <1>2, <2>1
  <2>3. runs[L].end = samples[n - 1].t
    BY <1>5, <2>2 DEF RunsOf
  <2> QED
    BY <1>2, <2>2, <2>3
<1>8. n > 0 /\ ~(n = 0) /\ n \in Nat /\ s.t \in Nat
  BY <1>2
<1>9. CASE runs # <<>> /\ Last(runs).state = s.state
  <2>1. L > 0 /\ L \in 1 .. L /\ Last(runs) = runs[L]
    BY <1>4, <1>5, <1>9 DEF Last
  <2>2. more = [runs EXCEPT ![L] = [runs[L] EXCEPT !.end = s.t]]
    BY <1>5, <1>9 DEF Onward
  <2>3. /\ Len(more) = L
        /\ \A k \in 1 .. L : k # L => more[k] = runs[k]
        /\ more[L] = [runs[L] EXCEPT !.end = s.t]
    BY <1>4, <1>5, <2>1, <2>2
  <2>4. more[L].end = s.t /\ more[L].start = runs[L].start /\ more[L].state = runs[L].state
    BY <1>5, <2>1, <2>3 DEF Stretch
  <2> HIDE DEF more
  <2>5. \A k \in 1 .. L : more[k].start = runs[k].start /\ more[k].state = runs[k].state
    BY <2>3, <2>4
  <2>6. InOrder(more)
    <3>1. ASSUME NEW k \in 1 .. L PROVE more[k].start <= more[k].end
      <4>1. runs[k].start <= runs[k].end
        BY <1>4, <1>5 DEF InOrder
      <4>2. CASE k = L
        BY <1>5, <1>7, <1>8, <2>1, <2>4, <4>1, <4>2
      <4>3. CASE k # L
        BY <2>3, <4>1, <4>3
      <4> QED
        BY <4>2, <4>3
    <3>2. ASSUME NEW k \in 1 .. L, NEW l \in 1 .. L, k < l PROVE more[k].end <= more[l].start
      <4>1. runs[k].end <= runs[l].start /\ k # L
        BY <1>4, <1>5, <3>2 DEF InOrder
      <4> QED
        BY <2>3, <2>5, <4>1
    <3> QED
      BY <2>3, <3>1, <3>2 DEF InOrder
  <2>7. ASSUME NEW i \in 1 .. n PROVE \E k \in 1 .. L : Has(more, samples, n, k, i)
    <3>1. CASE i = n
      <4>1. runs[L].start <= runs[L].end
        BY <1>4, <1>5, <2>1 DEF InOrder
      <4>2. more[L].start <= s.t
        BY <1>5, <1>7, <1>8, <2>1, <2>4, <4>1
      <4>3. Has(more, samples, n, L, n)
        BY <1>9, <2>1, <2>3, <2>4, <4>2 DEF Has
      <4> QED
        BY <2>1, <3>1, <4>3
    <3>2. CASE i \in 1 .. n - 1
      <4>1. PICK k \in 1 .. L : Has(runs, samples, n - 1, k, i)
        BY <1>6, <3>2
      <4>2. k < L => more[k + 1].start = runs[k + 1].start
        BY <2>5
      <4>3. \A j \in i + 1 .. n - 1 : j \in i + 1 .. n
        BY <1>2
      <4> QED
        BY <1>5, <2>3, <2>5, <4>1, <4>2, <4>3 DEF Has
    <3> QED
      BY <1>2, <3>1, <3>2
  <2> QED
    BY <1>3, <1>8, <1>9, <2>1, <2>3, <2>4, <2>6, <2>7 DEF RunsOf, more
<1>10. CASE ~(runs # <<>> /\ Last(runs).state = s.state)
  <2> DEFINE c == [state |-> s.state, start |-> s.t, end |-> s.t]
  <2>1. c \in Stretch /\ more = Append(runs, c)
    BY <1>2, <1>10 DEF Onward, Stretch, Sample
  <2>2. c.start = s.t /\ c.end = s.t /\ c.state = s.state
    OBVIOUS
  <2> HIDE DEF c
  <2>3. /\ Len(more) = L + 1
        /\ \A k \in 1 .. L : more[k] = runs[k]
        /\ more[L + 1] = c
        /\ \A k \in 1 .. L + 1 : k \in 1 .. L \/ k = L + 1
    BY <1>4, <1>5, <2>1
  <2> HIDE DEF more
  <2>4. ASSUME NEW k \in 1 .. L PROVE runs[k].end <= s.t
    <3>1. L \in 1 .. L /\ L > 0
      OBVIOUS
    <3>2. k = L \/ runs[k].end <= runs[L].start
      <4>1. \A l \in 1 .. L : k < l => runs[k].end <= runs[l].start
        BY <1>4, <1>5 DEF InOrder
      <4> QED
        BY <3>1, <4>1
    <3>3. runs[L].start <= runs[L].end
      BY <1>4, <1>5, <3>1 DEF InOrder
    <3> QED
      BY <1>5, <1>7, <1>8, <3>1, <3>2, <3>3
  <2>5. InOrder(more)
    <3>1. ASSUME NEW k \in 1 .. L + 1 PROVE more[k].start <= more[k].end
      <4>1. k \in 1 .. L => runs[k].start <= runs[k].end
        BY <1>4, <1>5 DEF InOrder
      <4> QED
        BY <1>8, <2>2, <2>3, <4>1
    <3>2. ASSUME NEW k \in 1 .. L + 1, NEW l \in 1 .. L + 1, k < l PROVE more[k].end <= more[l].start
      <4>1. k \in 1 .. L /\ (l \in 1 .. L \/ l = L + 1)
        BY <3>2
      <4>2. \A m \in 1 .. L : k < m => runs[k].end <= runs[m].start
        BY <1>4, <1>5, <4>1 DEF InOrder
      <4> QED
        BY <2>2, <2>3, <2>4, <3>2, <4>1, <4>2
    <3> QED
      BY <2>3, <3>1, <3>2 DEF InOrder
  <2>6. ASSUME NEW i \in 1 .. n PROVE \E k \in 1 .. L + 1 : Has(more, samples, n, k, i)
    <3>1. CASE i = n
      <4>1. Has(more, samples, n, L + 1, n)
        BY <1>8, <2>2, <2>3 DEF Has
      <4> QED
        BY <3>1, <4>1
    <3>2. CASE i \in 1 .. n - 1
      <4>1. PICK k \in 1 .. L : Has(runs, samples, n - 1, k, i)
        BY <1>6, <3>2
      <4>2. \A j \in i + 1 .. n - 1 : j \in i + 1 .. n
        BY <1>2
      <4>3. CASE k = L
        <5>1. n \in i + 1 .. n /\ more[k + 1].start = samples[n].t /\ k \in 1 .. L + 1
          BY <1>2, <2>2, <2>3, <3>2, <4>3
        <5> QED
          BY <2>3, <4>1, <5>1 DEF Has
      <4>4. CASE k # L
        <5>1. k + 1 \in 1 .. L /\ k < L /\ k \in 1 .. L + 1
          BY <4>4
        <5> QED
          BY <1>5, <2>3, <4>1, <4>2, <5>1 DEF Has
      <4> QED
        BY <4>3, <4>4
    <3> QED
      BY <1>2, <3>1, <3>2
  <2> QED
    BY <1>3, <1>8, <2>2, <2>3, <2>5, <2>6 DEF RunsOf, more
<1> QED
  BY <1>9, <1>10

\* The stretches of all the samples: each sample is in one of its state.
LEMMA RunsAre ==
    ASSUME NEW samples, AreSamples(samples)
    PROVE  RunsOf(Runs(samples), samples, Len(samples))
<1>1. PICK N \in Nat : N = Len(samples)
  BY DEF AreSamples
<1> DEFINE f == CHOOSE g : Running(g, samples)
           T == {n \in 0 .. N : RunsOf(f[n], samples, n)}
<1>2. Running(f, samples)
  <2>1. \E g : Running(g, samples)
    BY RunningExists
  <2> QED
    BY <2>1
<1>3. Runs(samples) = f[Len(samples)]
  BY DEF Runs, Running, Onward
<1> HIDE DEF f
<1>4. 0 \in T
  <2>1. f[0] = <<>>
    BY <1>1, <1>2 DEF Running
  <2>2. RunsOf(<<>>, samples, 0)
    BY DEF RunsOf, InOrder
  <2> QED
    BY <2>1, <2>2
<1>5. ASSUME NEW n \in 1 .. N, n - 1 \in T PROVE n \in T
  <2>1. f[n] = Onward(f[n - 1], samples[n])
    <3>1. n \in 0 .. Len(samples) /\ n # 0
      BY <1>1
    <3> QED
      BY <1>2, <3>1 DEF Running
  <2>2. RunsOf(f[n], samples, n)
    BY <1>1, <1>5, <2>1, Stretched
  <2> QED
    BY <2>2
<1>6. 0 .. N \subseteq T
  <2> HIDE DEF T
  <2> QED
    BY <1>4, <1>5, UpToInduction
<1>7. N \in T
  BY <1>6
<1> QED
  BY <1>1, <1>3, <1>7

-----------------------------------------------------------------------------
(* Values in order *)

LEMMA Ascending ==
    ASSUME NEW N \in Nat, NEW v, \A i \in 1 .. N : v[i] \in Int,
           \A i \in 1 .. N : i > 1 => v[i - 1] <= v[i]
    PROVE  \A i, j \in 1 .. N : i < j => v[i] <= v[j]
<1> SUFFICES ASSUME NEW i \in 1 .. N PROVE \A j \in 1 .. N : i < j => v[i] <= v[j]
  OBVIOUS
<1> DEFINE T == {j \in 0 .. N : i < j => v[i] <= v[j]}
<1>1. 0 \in T
  OBVIOUS
<1>2. ASSUME NEW j \in 1 .. N, j - 1 \in T PROVE j \in T
  <2> SUFFICES ASSUME i < j PROVE v[i] <= v[j]
    OBVIOUS
  <2>1. j > 1 /\ j - 1 \in 1 .. N /\ (i = j - 1 \/ i < j - 1)
    OBVIOUS
  <2>2. v[j - 1] <= v[j] /\ v[i] \in Int /\ v[j] \in Int /\ v[j - 1] \in Int
    BY <2>1
  <2>3. v[i] <= v[j - 1]
    BY <1>2, <2>1, <2>2
  <2> QED
    BY <2>2, <2>3
<1>3. 0 .. N \subseteq T
  <2> HIDE DEF T
  <2> QED
    BY <1>1, <1>2, UpToInduction
<1> QED
  BY <1>3

LEMMA StrictlyAscending ==
    ASSUME NEW N \in Nat, NEW v, \A i \in 1 .. N : v[i] \in Int,
           \A i \in 1 .. N : i > 1 => v[i - 1] < v[i]
    PROVE  \A i, j \in 1 .. N : i < j => v[i] < v[j]
<1> SUFFICES ASSUME NEW i \in 1 .. N PROVE \A j \in 1 .. N : i < j => v[i] < v[j]
  OBVIOUS
<1> DEFINE T == {j \in 0 .. N : i < j => v[i] < v[j]}
<1>1. 0 \in T
  OBVIOUS
<1>2. ASSUME NEW j \in 1 .. N, j - 1 \in T PROVE j \in T
  <2> SUFFICES ASSUME i < j PROVE v[i] < v[j]
    OBVIOUS
  <2>1. j > 1 /\ j - 1 \in 1 .. N /\ (i = j - 1 \/ i < j - 1)
    OBVIOUS
  <2>2. v[j - 1] < v[j] /\ v[i] \in Int /\ v[j] \in Int /\ v[j - 1] \in Int
    BY <2>1
  <2>3. i = j - 1 \/ v[i] < v[j - 1]
    BY <1>2, <2>1
  <2> QED
    BY <2>2, <2>3
<1>3. 0 .. N \subseteq T
  <2> HIDE DEF T
  <2> QED
    BY <1>1, <1>2, UpToInduction
<1> QED
  BY <1>3

-----------------------------------------------------------------------------
(* What is kept of some values *)

Chosen(x, picks, n) == [i \in 1 .. n |-> IF i \in picks THEN <<x[i]>> ELSE <<>>]

\* The kept values are some of the first n, in their order.
PicksUpTo(s, x, picks, n) ==
    \E f : /\ \A k \in 1 .. Len(s) : f[k] \in picks /\ f[k] \in 1 .. n /\ s[k] = x[f[k]]
           /\ \A k, l \in 1 .. Len(s) : k < l => f[k] < f[l]

\* What is flattened of the chosen values are these values, in order.
LEMMA ChosenAre ==
    ASSUME NEW N \in Nat, NEW T, NEW x, \A i \in 1 .. N : x[i] \in T, NEW picks
    PROVE  /\ FlattenSeq(Chosen(x, picks, N)) \in Seq(T)
           /\ PicksUpTo(FlattenSeq(Chosen(x, picks, N)), x, picks, N)
<1> DEFINE S(n) == FlattenSeq(Chosen(x, picks, n))
           Upheld(n) == S(n) \in Seq(T) /\ PicksUpTo(S(n), x, picks, n)
           U == {n \in 0 .. N : Upheld(n)}
<1>1. 0 \in U
  <2>1. S(0) = <<>>
    BY FlattenEmpty DEF Chosen
  <2>2. PicksUpTo(<<>>, x, picks, 0)
    BY DEF PicksUpTo
  <2>3. Upheld(0)
    <3>1. <<>> \in Seq(T)
      OBVIOUS
    <3> HIDE DEF S
    <3> QED
      BY <2>1, <2>2, <3>1
  <2> QED
    BY <2>3
<1>2. ASSUME NEW n \in 1 .. N, n - 1 \in U PROVE n \in U
  <2> DEFINE One(i) == IF i \in picks THEN <<x[i]>> ELSE <<>>
             seqs == Chosen(x, picks, n - 1)
             s == S(n - 1)
  <2>1. s \in Seq(T) /\ PicksUpTo(s, x, picks, n - 1) /\ n - 1 \in Nat
    BY <1>2
  <2>2. S(n) = s \o One(n)
    <3>1. seqs = [i \in 1 .. n - 1 |-> One(i)] /\ Chosen(x, picks, n) = [i \in 1 .. n |-> One(i)]
      BY DEF Chosen
    <3>2. \A i \in 1 .. n : One(i) \in Seq(T)
      OBVIOUS
    <3> HIDE DEF One, seqs
    <3>3. seqs \in Seq(Seq(T)) /\ Chosen(x, picks, n) = Append(seqs, One(n)) /\ One(n) \in Seq(T)
      BY <3>1, <3>2
    <3>4. Joins(Seq(T))
      BY SequencesJoin
    <3>5. FlattenSeq(Append(seqs, One(n))) = FlattenSeq(seqs) \o One(n)
      BY <3>3, <3>4, FlattenAppend
    <3> QED
      BY <3>3, <3>5 DEF seqs
  <2> HIDE DEF s
  <2>3. CASE n \in picks
    <3>1. x[n] \in T
      OBVIOUS
    <3>2. PICK v \in T : v = x[n]
      BY <3>1
    <3>3. One(n) = <<v>>
      BY <2>3, <3>2
    <3>4. s \o <<v>> = Append(s, v)
      BY <2>1
    <3>5. PICK more \in Seq(T) : more = Append(s, v)
      <4>1. Append(s, v) \in Seq(T)
        BY <2>1
      <4> QED
        BY <4>1, Zenon
    <3>6. /\ Len(s) \in Nat /\ Len(more) = Len(s) + 1 /\ more[Len(s) + 1] = v
          /\ \A k \in 1 .. Len(s) : more[k] = s[k]
          /\ \A k \in 1 .. Len(s) + 1 : k \in 1 .. Len(s) \/ k = Len(s) + 1
      BY <2>1, <3>5
    <3>7. PICK f : /\ \A k \in 1 .. Len(s) : f[k] \in picks /\ f[k] \in 1 .. n - 1 /\ s[k] = x[f[k]]
                   /\ \A k, l \in 1 .. Len(s) : k < l => f[k] < f[l]
      BY <2>1 DEF PicksUpTo
    <3> DEFINE g == [k \in 1 .. Len(s) + 1 |-> IF k = Len(s) + 1 THEN n ELSE f[k]]
    <3>8. g[Len(s) + 1] = n /\ \A k \in 1 .. Len(s) : g[k] = f[k] /\ g[k] < n /\ g[k] \in 1 .. n
      BY <3>6, <3>7
    <3> HIDE DEF g
    <3>9. ASSUME NEW k \in 1 .. Len(s) + 1
          PROVE  g[k] \in picks /\ g[k] \in 1 .. n /\ more[k] = x[g[k]]
      BY <2>3, <3>2, <3>6, <3>7, <3>8
    <3>10. ASSUME NEW k \in 1 .. Len(s) + 1, NEW l \in 1 .. Len(s) + 1, k < l PROVE g[k] < g[l]
      <4>1. k \in 1 .. Len(s) /\ (l \in 1 .. Len(s) \/ l = Len(s) + 1)
        BY <3>6, <3>10
      <4> QED
        BY <3>7, <3>8, <3>10, <4>1
    <3>11. PicksUpTo(more, x, picks, n)
      BY <3>6, <3>9, <3>10 DEF PicksUpTo
    <3>12. S(n) = more
      BY <2>2, <3>3, <3>4, <3>5
    <3>13. Upheld(n)
      BY <3>11, <3>12
    <3> QED
      BY <3>13
  <2>4. CASE n \notin picks
    <3>1. S(n) = s
      BY <2>1, <2>2, <2>4
    <3>2. PicksUpTo(s, x, picks, n)
      <4>1. \A i \in 1 .. n - 1 : i \in 1 .. n
        OBVIOUS
      <4> QED
        BY <2>1, <4>1 DEF PicksUpTo
    <3>3. Upheld(n)
      BY <2>1, <3>1, <3>2
    <3> QED
      BY <3>3
  <2> QED
    BY <2>3, <2>4
<1>3. 0 .. N \subseteq U
  <2> HIDE DEF U
  <2> QED
    BY <1>1, <1>2, UpToInduction
<1>4. N \in U
  BY <1>3
<1> QED
  BY <1>4

-----------------------------------------------------------------------------
(* The windows of the body *)

\* The samples of a file with names, each with the state its face says.
Faced(samples) == Stated(samples, TRUE)

LEMMA FacedIs ==
    ASSUME NEW samples, NEW N \in Nat, DOMAIN samples = 1 .. N,
           \A i \in 1 .. N : samples[i].t \in Nat,
           \A i \in 1 .. N : i > 1 => samples[i - 1].t <= samples[i].t
    PROVE  /\ AreSamples(Faced(samples)) /\ Len(Faced(samples)) = N
           /\ \A i \in 1 .. N :
                  /\ Faced(samples)[i].t = samples[i].t
                  /\ Faced(samples)[i].state = MapBlendshapesToState(samples[i].bs)
<1> DEFINE st == Faced(samples)
           Row(i) == [t |-> samples[i].t, state |-> MapBlendshapesToState(samples[i].bs)]
<1>1. \A bs : MapBlendshapesToState(bs) \in Faces
  BY DEF MapBlendshapesToState, Faces
<1>2. st = [i \in 1 .. N |-> Row(i)]
  BY DEF Faced, Stated, BsArrayToRecord
<1>3. \A i \in 1 .. N : /\ Row(i) \in Sample /\ Row(i).t = samples[i].t
                        /\ Row(i).state = MapBlendshapesToState(samples[i].bs)
  BY <1>1 DEF Sample
<1> HIDE DEF st, Row
<1>4. \A i \in 1 .. N : st[i].t = samples[i].t /\ st[i].state = MapBlendshapesToState(samples[i].bs)
  BY <1>2, <1>3
<1>5. st \in Seq(Sample) /\ Len(st) = N
  BY <1>2, <1>3
<1>6. \A i, j \in 1 .. N : i < j => samples[i].t <= samples[j].t
  <2> DEFINE v == [i \in 1 .. N |-> samples[i].t]
  <2>1. (\A i \in 1 .. N : v[i] \in Int) /\ (\A i \in 1 .. N : i > 1 => v[i - 1] <= v[i])
    <3> SUFFICES ASSUME NEW i \in 1 .. N PROVE v[i] \in Int /\ (i > 1 => v[i - 1] <= v[i])
      OBVIOUS
    <3>1. i > 1 => i - 1 \in 1 .. N
      OBVIOUS
    <3> QED
      BY <3>1
  <2> HIDE DEF v
  <2>2. \A i, j \in 1 .. N : i < j => v[i] <= v[j]
    BY <2>1, Ascending
  <2> QED
    BY <2>2 DEF v
<1>7. \A i, j \in 1 .. N : i < j => st[i].t <= st[j].t
  BY <1>4, <1>6
<1> QED
  BY <1>4, <1>5, <1>7 DEF AreSamples, st

\* What serializeBlendshapes writes of the samples of a take.
File(samples) == InThousandths(InWholeMs(samples))

FileOf(samples, N) ==
    /\ N \in Nat /\ DOMAIN samples = 1 .. N
    /\ DOMAIN File(samples) = 1 .. N /\ Len(File(samples)) = N
    /\ AreSamples(Faced(File(samples))) /\ Len(Faced(File(samples))) = N
    /\ AreSamples(Faced(InWholeMs(samples))) /\ Len(Faced(InWholeMs(samples))) = N
    /\ \A i \in 1 .. N :
           /\ samples[i].t \in Nat
           /\ \A name \in DOMAIN samples[i].bs : samples[i].bs[name] \in Nat
           /\ File(samples)[i].t = WholeMs(samples[i].t)
           /\ Faced(File(samples))[i].t = WholeMs(samples[i].t)
           /\ Faced(File(samples))[i].state = MapBlendshapesToState(Rounded(samples[i].bs))
           /\ Faced(InWholeMs(samples))[i].t = WholeMs(samples[i].t)
           /\ Faced(InWholeMs(samples))[i].state = MapBlendshapesToState(samples[i].bs)

LEMMA FileIs ==
    ASSUME NEW take, Recordable(take), NEW samples, samples = take.samples, NEW N, N = Len(samples)
    PROVE  FileOf(samples, N)
<1>1. N \in Nat /\ DOMAIN samples = 1 .. N
  BY DEF Recordable
<1>2. /\ \A i \in 1 .. N : samples[i].t \in Nat
      /\ \A i \in 1 .. N : i > 1 => samples[i - 1].t <= samples[i].t
      /\ \A i \in 1 .. N : \A name \in DOMAIN samples[i].bs : samples[i].bs[name] \in Nat
  BY <1>1 DEF Recordable
<1> DEFINE whole == InWholeMs(samples)
           file == File(samples)
<1>3. /\ DOMAIN whole = 1 .. N
      /\ \A i \in 1 .. N : whole[i].t = WholeMs(samples[i].t) /\ whole[i].bs = samples[i].bs
  BY <1>1 DEF InWholeMs
<1> HIDE DEF whole
<1>4. /\ DOMAIN file = 1 .. N /\ Len(file) = N
      /\ \A i \in 1 .. N : file[i].t = WholeMs(samples[i].t) /\ file[i].bs = Rounded(samples[i].bs)
  <2>1. file = [i \in 1 .. N |-> [t |-> whole[i].t, bs |-> Rounded(whole[i].bs)]]
    BY <1>3 DEF File, InThousandths, whole
  <2> HIDE DEF file
  <2> QED
    BY <1>1, <1>3, <2>1
<1> HIDE DEF file
<1>5. ASSUME NEW i \in 1 .. N
      PROVE  /\ WholeMs(samples[i].t) \in Nat
             /\ i > 1 => WholeMs(samples[i - 1].t) <= WholeMs(samples[i].t)
  <2>1. PICK b \in Nat : b = samples[i].t
    BY <1>2
  <2>2. WholeMs(b) \in Nat
    BY DEF WholeMs
  <2>3. ASSUME i > 1 PROVE WholeMs(samples[i - 1].t) <= WholeMs(samples[i].t)
    <3>1. i - 1 \in 1 .. N
      BY <1>1, <2>3
    <3>2. PICK a \in Nat : a = samples[i - 1].t
      BY <1>2, <3>1
    <3>3. a <= b
      BY <1>2, <2>1, <2>3, <3>2
    <3>4. WholeMs(a) <= WholeMs(b)
      BY <3>3 DEF WholeMs
    <3> QED
      BY <2>1, <3>2, <3>4
  <2> QED
    BY <2>1, <2>2, <2>3
<1>6. /\ \A i \in 1 .. N : whole[i].t \in Nat /\ file[i].t \in Nat
      /\ \A i \in 1 .. N : i > 1 => whole[i - 1].t <= whole[i].t /\ file[i - 1].t <= file[i].t
  <2> SUFFICES ASSUME NEW i \in 1 .. N
               PROVE  /\ whole[i].t \in Nat /\ file[i].t \in Nat
                      /\ i > 1 => whole[i - 1].t <= whole[i].t /\ file[i - 1].t <= file[i].t
    OBVIOUS
  <2>1. i > 1 => i - 1 \in 1 .. N
    BY <1>1
  <2> QED
    BY <1>3, <1>4, <1>5, <2>1
<1>7. /\ AreSamples(Faced(whole)) /\ Len(Faced(whole)) = N
      /\ \A i \in 1 .. N : /\ Faced(whole)[i].t = whole[i].t
                           /\ Faced(whole)[i].state = MapBlendshapesToState(whole[i].bs)
  BY <1>1, <1>3, <1>6, FacedIs
<1>8. /\ AreSamples(Faced(file)) /\ Len(Faced(file)) = N
      /\ \A i \in 1 .. N : /\ Faced(file)[i].t = file[i].t
                           /\ Faced(file)[i].state = MapBlendshapesToState(file[i].bs)
  BY <1>1, <1>4, <1>6, FacedIs
<1> QED
  BY <1>1, <1>2, <1>3, <1>4, <1>7, <1>8 DEF whole, file, FileOf

\* A time is rounded by half a millisecond at most.
LEMMA RoundedBy ==
    ASSUME NEW t \in Nat
    PROVE  WholeMs(t) \in Nat /\ 10 * WholeMs(t) <= t + 5 /\ t - 5 < 10 * WholeMs(t)
BY DEF WholeMs

\* Rounding makes no other state of a face that is not on the brink.
LEMMA RoundingKeepsState ==
    ASSUME NEW bs, \A name \in DOMAIN bs : bs[name] \in Nat, ~OnTheBrink(bs)
    PROVE  MapBlendshapesToState(Rounded(bs)) = MapBlendshapesToState(bs)
<1> DEFINE bounds == {1500, 1800, 2000, 2200, 2500, 3000}
<1>1. ASSUME NEW x \in Nat, NEW b \in bounds, ~(b - 5 <= x /\ x < b)
      PROVE  Round3(x) >= b <=> x >= b
  BY <1>1 DEF Round3
<1>2. ASSUME NEW n, NEW b \in bounds PROVE Score(Rounded(bs), n) >= b <=> Score(bs, n) >= b
  <2>1. CASE n \in DOMAIN bs
    <3>1. Score(Rounded(bs), n) = Round3(bs[n]) /\ Score(bs, n) = bs[n]
      BY <2>1 DEF Rounded, Score
    <3>2. ~(b - 5 <= bs[n] /\ bs[n] < b) /\ bs[n] \in Nat
      BY <2>1 DEF OnTheBrink
    <3> HIDE DEF bounds
    <3> QED
      BY <1>1, <3>1, <3>2
  <2>2. CASE n \notin DOMAIN bs
    BY <2>2 DEF Rounded, Score
  <2> QED
    BY <2>1, <2>2
<1> HIDE DEF bounds
<1>3. ASSUME NEW names, NEW b \in bounds PROVE Reaches(Rounded(bs), names, b) <=> Reaches(bs, names, b)
  BY <1>2 DEF Reaches
<1>4. {1500, 1800, 2000, 2200, 2500, 3000} \subseteq bounds
  BY DEF bounds
<1>5. Surprised(Rounded(bs)) <=> Surprised(bs)
  BY <1>3, <1>4 DEF Surprised
<1>6. Happy(Rounded(bs)) <=> Happy(bs)
  BY <1>3, <1>4 DEF Happy
<1>7. Thoughtful(Rounded(bs)) <=> Thoughtful(bs)
  BY <1>3, <1>4 DEF Thoughtful
<1>8. Talking(Rounded(bs)) <=> Talking(bs)
  BY <1>3, <1>4 DEF Talking
<1> QED
  BY <1>5, <1>6, <1>7, <1>8 DEF MapBlendshapesToState

\* The windows of the body, one for each stretch.
LEMMA BodyIs ==
    ASSUME NEW samples, NEW endAt \in Nat, AreSamples(Faced(samples))
    PROVE  LET runs == Runs(Faced(samples))
               body == DeriveBodyStates(samples, endAt)
           IN  /\ Disjoint(body) /\ Len(body) = Len(runs)
               /\ \A k \in 1 .. Len(runs) :
                      /\ body[k].state = runs[k].state /\ body[k].start = runs[k].start
                      /\ body[k].state \in Faces
                      /\ body[k].end = IF k < Len(runs) THEN runs[k + 1].start
                                       ELSE IF runs[k].start < endAt THEN endAt ELSE runs[k].start
<1> DEFINE st == Faced(samples)
           runs == Runs(st)
           body == DeriveBodyStates(samples, endAt)
<1>1. runs \in Seq(Stretch) /\ InOrder(runs)
  BY RunsAre DEF RunsOf
<1>2. PICK L \in Nat : L = Len(runs) /\ DOMAIN runs = 1 .. L
  <2> HIDE DEF runs
  <2> QED
    BY <1>1
<1>3. \A k \in 1 .. L : runs[k].state \in Faces /\ runs[k].start \in Nat /\ runs[k].end \in Nat
  <2> HIDE DEF runs
  <2>1. \A k \in 1 .. L : runs[k] \in Stretch
    BY <1>1, <1>2
  <2>2. \A r \in Stretch : r.state \in Faces /\ r.start \in Nat /\ r.end \in Nat
    BY DEF Stretch
  <2> QED
    BY <2>1, <2>2
<1> DEFINE EndOf(k) == IF k < L THEN runs[k + 1].start
                       ELSE IF runs[k].start < endAt THEN endAt ELSE runs[k].start
<1>4. body = [k \in 1 .. L |-> [state |-> runs[k].state, start |-> runs[k].start, end |-> EndOf(k)]]
  BY <1>2 DEF Faced, DeriveBodyStates
<1> HIDE DEF runs, body
<1>5. /\ DOMAIN body = 1 .. L /\ Len(body) = L
      /\ \A k \in 1 .. L : body[k].state = runs[k].state /\ body[k].start = runs[k].start /\ body[k].end = EndOf(k)
  <2> HIDE DEF EndOf
  <2> QED
    BY <1>4
<1>6. \A k, l \in 1 .. L : k < l => runs[k].start <= runs[l].start
  <2> SUFFICES ASSUME NEW k \in 1 .. L, NEW l \in 1 .. L, k < l PROVE runs[k].start <= runs[l].start
    OBVIOUS
  <2>1. runs[k].start <= runs[k].end /\ runs[k].end <= runs[l].start
    BY <1>1, <1>2 DEF InOrder
  <2> QED
    BY <1>3, <2>1
<1>7. ASSUME NEW k \in 1 .. L PROVE Window(body[k])
  <2>1. CASE k < L
    <3>1. k + 1 \in 1 .. L /\ k < k + 1
      BY <2>1
    <3>2. runs[k].start <= runs[k + 1].start
      BY <1>6, <3>1
    <3> QED
      BY <1>3, <1>5, <2>1, <3>1, <3>2 DEF Window
  <2>2. CASE ~(k < L)
    BY <1>3, <1>5, <2>2 DEF Window
  <2> QED
    BY <2>1, <2>2
<1>8. ASSUME NEW k \in 1 .. L, NEW l \in 1 .. L, k < l PROVE body[k].end <= body[l].start
  <2>1. k < L /\ k + 1 \in 1 .. L /\ (k + 1 = l \/ k + 1 < l)
    BY <1>8
  <2>2. body[k].end = runs[k + 1].start
    BY <1>5, <2>1
  <2>3. runs[k + 1].start <= runs[l].start
    <3>1. k + 1 < l => runs[k + 1].start <= runs[l].start
      BY <1>6, <2>1
    <3> QED
      BY <1>3, <2>1, <3>1
  <2> QED
    BY <1>5, <2>2, <2>3
<1>9. Disjoint(body)
  BY <1>5, <1>7, <1>8 DEF Disjoint
<1> QED
  BY <1>2, <1>3, <1>5, <1>9 DEF runs, body

\* A place after another.
LEMMA PlaceAfter ==
    ASSUME NEW N \in Nat, NEW i \in 1 .. N, NEW j \in i + 1 .. N
    PROVE  i < N /\ i + 1 \in 1 .. N /\ j \in 1 .. N /\ (i + 1 = j \/ i + 1 < j)
OBVIOUS

\* From a sample to the next the body is in the state of the sample.
LEMMA BodyRepeats ==
    ASSUME NEW samples, NEW N \in Nat, NEW dur \in Nat, AreSamples(Faced(samples)),
           Len(Faced(samples)) = N, N > 0 => dur = Faced(samples)[N].t,
           NEW t \in Nat, t < dur * FPS, NEW i \in 1 .. N,
           Faced(samples)[i].t * FPS <= t,
           i < N => t < Faced(samples)[i + 1].t * FPS
    PROVE  Clamped(DeriveBodyStates(samples, dur), t, FPS).state = Faced(samples)[i].state
<1> DEFINE st == Faced(samples)
           runs == Runs(st)
           body == DeriveBodyStates(samples, dur)
<1>1. /\ \A j \in 1 .. N : st[j].t \in Nat
      /\ \A j, l \in 1 .. N : j < l => st[j].t <= st[l].t
  <2>1. st \in Seq(Sample) /\ \A j, l \in 1 .. N : j < l => st[j].t <= st[l].t
    BY DEF AreSamples
  <2>2. \A x \in Sample : x.t \in Nat
    BY DEF Sample
  <2>3. Len(st) = N
    OBVIOUS
  <2> HIDE DEF st
  <2>4. \A j \in 1 .. N : st[j] \in Sample
    BY <2>1, <2>3
  <2> QED
    BY <2>1, <2>2, <2>4
<1>2. runs \in Seq(Stretch) /\ InOrder(runs) /\ \A j \in 1 .. N : \E k \in 1 .. Len(runs) : Has(runs, st, N, k, j)
  BY RunsAre DEF RunsOf
<1>3. PICK k \in 1 .. Len(runs) : Has(runs, st, N, k, i)
  BY <1>2
<1>4. /\ Disjoint(body) /\ Len(body) = Len(runs)
      /\ body[k].state = runs[k].state /\ body[k].start = runs[k].start
      /\ body[k].end = IF k < Len(runs) THEN runs[k + 1].start
                       ELSE IF runs[k].start < dur THEN dur ELSE runs[k].start
  BY BodyIs
<1>5. Len(runs) \in Nat /\ runs[k].start \in Nat
  <2> HIDE DEF runs
  <2>1. runs[k] \in Stretch /\ Len(runs) \in Nat
    BY <1>2
  <2> QED
    BY <2>1 DEF Stretch
<1>6. st[i].t * 30 <= t /\ t < dur * 30 /\ (i < N => t < st[i + 1].t * 30)
  BY DEF FPS
<1> HIDE DEF st, runs, body
<1>7. runs[k].state = st[i].state /\ runs[k].start <= st[i].t
      /\ (k < Len(runs) => \E j \in i + 1 .. N : runs[k + 1].start = st[j].t)
  BY <1>3 DEF Has
<1>8. body[k].start * 30 <= t
  <2>1. PICK a \in Nat, b \in Nat : a = runs[k].start /\ b = st[i].t
    BY <1>1, <1>5
  <2>2. a <= b
    BY <1>7, <2>1
  <2>3. b * 30 <= t
    BY <1>6, <2>1
  <2>4. a * 30 <= t
    BY <2>2, <2>3
  <2> QED
    BY <1>4, <2>1, <2>4
<1>9. t < body[k].end * 30
  <2>1. CASE k < Len(runs)
    <3>1. PICK j \in i + 1 .. N : runs[k + 1].start = st[j].t
      BY <1>7, <2>1
    <3>2. i < N /\ i + 1 \in 1 .. N /\ j \in 1 .. N /\ (i + 1 = j \/ i + 1 < j)
      BY PlaceAfter
    <3>3. st[i + 1].t <= st[j].t /\ st[i + 1].t \in Nat /\ st[j].t \in Nat
      BY <1>1, <3>2
    <3>4. PICK a \in Nat, b \in Nat : a = st[i + 1].t /\ b = st[j].t
      BY <3>3
    <3>5. t < a * 30 /\ a <= b
      BY <1>6, <3>2, <3>3, <3>4
    <3>6. t < b * 30
      BY <3>5
    <3> QED
      BY <1>4, <2>1, <3>1, <3>4, <3>6
  <2>2. CASE ~(k < Len(runs))
    <3>1. PICK a \in Nat : a = runs[k].start
      BY <1>5
    <3>2. a * 30 <= t
      BY <1>4, <1>8, <3>1
    <3>3. a < dur
      BY <1>6, <3>2
    <3>4. body[k].end = dur
      BY <1>4, <2>2, <3>1, <3>3
    <3> QED
      BY <1>6, <3>4
  <2> QED
    BY <2>1, <2>2
<1>10. Within(body[k], t, FPS) /\ k \in 1 .. Len(body)
  BY <1>4, <1>8, <1>9 DEF Within, FPS
<1>11. Clamped(body, t, FPS) = body[k]
  <2>1. t \in Int
    OBVIOUS
  <2> QED
    BY <1>4, <1>10, <2>1, ClampedIs
<1> QED
  BY <1>4, <1>7, <1>11 DEF st, body

\* The changes of state that are told are those of stretches the body goes through.
LEMMA ChangesTold ==
    ASSUME NEW samples, NEW dur \in Nat, AreSamples(Faced(samples))
    PROVE  LET told == SmoothStates(Faced(samples))
               body == DeriveBodyStates(samples, dur)
           IN  \A i \in DOMAIN told :
                   /\ \E j \in DOMAIN body : body[j].start = told[i].t /\ body[j].state = told[i].state
                   /\ 1 < i /\ i < Len(told) => told[i + 1].t - told[i].t >= MinHoldMs
<1> DEFINE st == Faced(samples)
           runs == Runs(st)
           told == SmoothStates(st)
           body == DeriveBodyStates(samples, dur)
           L == Len(runs)
           Change(k) == [t |-> runs[k].start, state |-> runs[k].state]
           Held(k) == k = 1 \/ k = L \/ runs[k].end - runs[k].start >= MinHoldMs
           x == [k \in 1 .. L |-> Change(k)]
           picks == {k \in 1 .. L : Held(k)}
           T == {Change(k) : k \in 1 .. L}
<1>1. runs \in Seq(Stretch) /\ InOrder(runs)
  BY RunsAre DEF RunsOf
<1>2. L \in Nat /\ DOMAIN runs = 1 .. L /\ \A k \in 1 .. L : runs[k].start \in Nat /\ runs[k].end \in Nat
  <2> HIDE DEF runs
  <2>1. L \in Nat /\ DOMAIN runs = 1 .. L /\ \A k \in 1 .. L : runs[k] \in Stretch
    BY <1>1
  <2>2. \A r \in Stretch : r.start \in Nat /\ r.end \in Nat
    BY DEF Stretch
  <2> QED
    BY <2>1, <2>2
<1>3. /\ Disjoint(body) /\ Len(body) = L
      /\ \A k \in 1 .. L : body[k].state = runs[k].state /\ body[k].start = runs[k].start
  BY BodyIs
<1>4. told = FlattenSeq(Chosen(x, picks, L))
  <2>1. told = FlattenSeq([k \in DOMAIN runs |-> IF Held(k) THEN <<Change(k)>> ELSE <<>>])
    BY DEF SmoothStates
  <2>2. [k \in DOMAIN runs |-> IF Held(k) THEN <<Change(k)>> ELSE <<>>] = Chosen(x, picks, L)
    <3> HIDE DEF Held, Change, runs
    <3> QED
      BY <1>2 DEF Chosen
  <2> QED
    BY <2>1, <2>2
<1>5. told \in Seq(T) /\ PicksUpTo(told, x, picks, L)
  <2>1. \A k \in 1 .. L : x[k] \in T
    OBVIOUS
  <2> HIDE DEF x, picks, T, L
  <2> QED
    BY <1>2, <1>4, <2>1, ChosenAre
<1>6. DOMAIN told = 1 .. Len(told) /\ Len(told) \in Nat
  <2> HIDE DEF T, told
  <2> QED
    BY <1>5
<1> HIDE DEF told
<1>7. PICK f : /\ \A k \in 1 .. Len(told) : f[k] \in picks /\ f[k] \in 1 .. L /\ told[k] = x[f[k]]
               /\ \A k, l \in 1 .. Len(told) : k < l => f[k] < f[l]
  BY <1>5 DEF PicksUpTo
<1>8. \A k \in 1 .. L : x[k].t = runs[k].start /\ x[k].state = runs[k].state
  <2>1. \A k : Change(k).t = runs[k].start /\ Change(k).state = runs[k].state
    OBVIOUS
  <2>2. \A k \in 1 .. L : x[k] = Change(k)
    OBVIOUS
  <2> HIDE DEF Change, x, runs
  <2> QED
    BY <2>1, <2>2
<1> HIDE DEF x, body, runs, L
<1>9. ASSUME NEW i \in 1 .. Len(told)
      PROVE  \E j \in DOMAIN body : body[j].start = told[i].t /\ body[j].state = told[i].state
  <2>1. f[i] \in 1 .. L /\ told[i] = x[f[i]]
    BY <1>7
  <2>2. f[i] \in DOMAIN body
    BY <1>3, <2>1 DEF Disjoint
  <2>3. body[f[i]].start = told[i].t /\ body[f[i]].state = told[i].state
    BY <1>3, <1>8, <2>1
  <2> QED
    BY <2>2, <2>3
<1>10. ASSUME NEW i \in 1 .. Len(told), 1 < i, i < Len(told)
       PROVE  told[i + 1].t - told[i].t >= MinHoldMs
  <2>1. 1 \in 1 .. Len(told) /\ i + 1 \in 1 .. Len(told) /\ i < i + 1
    BY <1>6, <1>10
  <2>2. f[1] \in 1 .. L /\ f[i] \in 1 .. L /\ f[i + 1] \in 1 .. L /\ f[1] < f[i] /\ f[i] < f[i + 1]
    BY <1>7, <1>10, <2>1
  <2>3. f[i] # 1 /\ f[i] # L
    BY <1>2, <2>2
  <2>4. runs[f[i]].end - runs[f[i]].start >= MinHoldMs
    <3>1. f[i] \in picks
      BY <1>7
    <3> QED
      BY <2>3, <3>1
  <2>5. runs[f[i]].end <= runs[f[i + 1]].start
    BY <1>1, <2>2 DEF InOrder, L
  <2>6. told[i].t = runs[f[i]].start /\ told[i + 1].t = runs[f[i + 1]].start
    BY <1>7, <1>8, <2>1, <2>2
  <2>7. PICK a \in Nat, b \in Nat, c \in Nat :
            a = runs[f[i]].start /\ b = runs[f[i]].end /\ c = runs[f[i + 1]].start
    BY <1>2, <2>2
  <2>8. b - a >= 120 /\ b <= c
    BY <2>4, <2>5, <2>7 DEF MinHoldMs
  <2>9. c - a >= 120
    <3>1. \A p, q, r \in Nat : q - p >= 120 /\ q <= r => r - p >= 120
      OBVIOUS
    <3> QED
      BY <2>8, <3>1
  <2>10. told[i + 1].t = c /\ told[i].t = a
    BY <2>6, <2>7
  <2> QED
    BY <2>9, <2>10 DEF MinHoldMs
<1> QED
  BY <1>6, <1>9, <1>10 DEF told, body

-----------------------------------------------------------------------------
(* The cell of the sheet *)

Mouths == {"rest", "open_a", "rounded_o", "wide_e"}

\* Each mouth is in the column in which the live avatar has it.
LEMMA MouthColumn ==
    ASSUME NEW x \in Mouths
    PROVE  /\ IndexOf(SpriteSheet.mouths, x) = LiveColumn[x]
           /\ LiveColumn[x] \in 0 .. 3 /\ (LiveColumn[x] = 0 <=> x = "rest")
<1> DEFINE s == <<"rest", "open_a", "rounded_o", "wide_e">>
<1>1. SpriteSheet.mouths = s /\ DOMAIN s = 1 .. 4
  BY DEF SpriteSheet
<1>2. s[1] = "rest" /\ s[2] = "open_a" /\ s[3] = "rounded_o" /\ s[4] = "wide_e"
  OBVIOUS
<1> HIDE DEF s
<1>3. ASSUME NEW k \in 1 .. 4, s[k] = x PROVE IndexOf(s, x) = k - 1
  <2>1. {i \in DOMAIN s : s[i] = x} = {k}
    BY <1>1, <1>2, <1>3
  <2> QED
    BY <2>1 DEF IndexOf
<1>4. \E k \in 1 .. 4 : s[k] = x /\ LiveColumn[x] = k - 1
  BY <1>2 DEF Mouths, LiveColumn
<1>5. IndexOf(s, x) = LiveColumn[x]
  BY <1>3, <1>4
<1>6. LiveColumn[x] \in 0 .. 3 /\ (LiveColumn[x] = 0 <=> x = "rest")
  BY DEF Mouths, LiveColumn
<1> QED
  BY <1>1, <1>5, <1>6

LEMMA ShapesAreMouths ==
    /\ \A shape : ShapeToMouth(shape) \in Mouths
    /\ ShapeToMouth("X") = "rest"
    /\ \A bs : MapBlendshapesToMouth(bs) \in Mouths
<1>1. ASSUME NEW shape PROVE ShapeToMouth(shape) \in Mouths
  BY DEF ShapeToMouth, Mouths
<1>2. ShapeToMouth("X") = "rest"
  BY DEF ShapeToMouth
<1>3. ASSUME NEW bs PROVE MapBlendshapesToMouth(bs) \in Mouths
  BY DEF MapBlendshapesToMouth, Mouths
<1> QED
  BY <1>1, <1>2, <1>3

\* Each face is in the row in which the live avatar has it.
LEMMA FaceRow ==
    ASSUME NEW state \in Faces
    PROVE  /\ state \in DOMAIN StateRow /\ StateRow[state] = LiveRow[state]
           /\ StateRow[state] \in 0 .. 4
BY DEF Faces, StateRow, LiveRow

LEMMA ColumnIs ==
    ASSUME NEW tl, NEW frame
    PROVE  /\ Cell(tl, SpriteSheet, frame, FPS).col
                  = LiveColumn[ShapeToMouth(SelectMouthCue(tl, 1000 * frame, FPS))]
           /\ Cell(tl, SpriteSheet, frame, FPS).col \in 0 .. 3
<1>1. PICK mouth \in Mouths : mouth = ShapeToMouth(SelectMouthCue(tl, 1000 * frame, FPS))
  BY ShapesAreMouths
<1>2. Cell(tl, SpriteSheet, frame, FPS).col = IndexOf(SpriteSheet.mouths, mouth)
  BY <1>1 DEF Cell
<1> QED
  BY <1>1, <1>2, MouthColumn

-----------------------------------------------------------------------------
(* The timeline of a take *)

Upper(cues) == [i \in DOMAIN cues |-> [cues[i] EXCEPT !.shape = Letter(@)]]

\* What the service has made of a take it did not refuse.
LEMMA TakeIs ==
    ASSUME NEW tl, MadeOfTake(tl), tl # NoTimeline
    PROVE  /\ Recordable(tl.take) /\ ~Overlap(tl.take.cues)
           /\ tl.dur = Duration(File(tl.take.samples))
           /\ tl.mouth = MouthCues(Upper(tl.take.cues), tl.dur)
           /\ tl.body = DeriveBodyStates(File(tl.take.samples), tl.dur)
           /\ tl.words = tl.take.words
<1>1. PICK take : take = tl.take
  OBVIOUS
<1>2. /\ Recordable(take) /\ BuildSegment(take) # NoTimeline
      /\ tl.dur = BuildSegment(take).dur /\ tl.mouth = BuildSegment(take).mouth
      /\ tl.body = BuildSegment(take).body /\ tl.words = BuildSegment(take).words
  BY <1>1 DEF MadeOfTake
<1>3. PICK dur, mouth, body, words :
          /\ dur = Duration(File(take.samples)) /\ mouth = MouthCues(Upper(take.cues), dur)
          /\ body = DeriveBodyStates(File(take.samples), dur) /\ words = take.words
  OBVIOUS
<1>4. SerializeBlendshapes(take.samples, TRUE).samples = File(take.samples)
  BY DEF SerializeBlendshapes, File
<1>5. /\ ~Overlap(take.cues)
      /\ BuildSegment(take) = [dur |-> dur, mouth |-> mouth, body |-> body, words |-> words]
  BY <1>2, <1>3, <1>4 DEF BuildSegment, Upper
<1> QED
  BY <1>1, <1>2, <1>3, <1>5

\* The length of a timeline is the time of the last sample.
LEMMA LastsUntil ==
    ASSUME NEW tl, MadeOfTake(tl), tl # NoTimeline
    PROVE  /\ tl.dur \in Nat
           /\ AreSamples(Faced(File(tl.take.samples)))
           /\ \A N \in Nat : N = Len(tl.take.samples) /\ N > 0 => tl.dur = Faced(File(tl.take.samples))[N].t
<1>1. PICK take, samples : take = tl.take /\ samples = take.samples
  OBVIOUS
<1>2. PICK n : n = Len(samples)
  OBVIOUS
<1>3. PICK file : file = File(samples)
  OBVIOUS
<1>4. PICK st : st = Faced(file)
  OBVIOUS
<1>5. Recordable(take) /\ tl.dur = Duration(file)
  BY <1>1, <1>3, TakeIs
<1>6. /\ n \in Nat /\ DOMAIN file = 1 .. n /\ Len(file) = n /\ AreSamples(st)
      /\ \A i \in 1 .. n : /\ samples[i].t \in Nat /\ file[i].t = WholeMs(samples[i].t)
                           /\ st[i].t = WholeMs(samples[i].t)
  BY <1>1, <1>2, <1>3, <1>4, <1>5, FileIs DEF FileOf
<1>7. tl.dur \in Nat /\ (n > 0 => tl.dur = st[n].t)
  <2>1. CASE file = <<>>
    BY <1>5, <1>6, <2>1 DEF Duration
  <2>2. CASE file # <<>>
    <3>1. n \in 1 .. n
      <4>1. n = 0 => file = <<>>
        BY <1>6
      <4> QED
        BY <1>6, <2>2, <4>1
    <3>2. tl.dur = file[n].t
      BY <1>5, <1>6, <2>2 DEF Duration, Last
    <3>3. WholeMs(samples[n].t) \in Nat
      BY <1>6, <3>1, RoundedBy
    <3> QED
      BY <1>6, <3>1, <3>2, <3>3
  <2> QED
    BY <2>1, <2>2
<1> QED
  BY <1>1, <1>2, <1>3, <1>4, <1>6, <1>7

LEMMA UpperIs ==
    ASSUME NEW take, Recordable(take), ~Overlap(take.cues)
    PROVE  /\ AreCues(Upper(take.cues)) /\ Len(Upper(take.cues)) = Len(take.cues)
           /\ Len(take.cues) \in Nat /\ DOMAIN take.cues = 1 .. Len(take.cues)
           /\ \A i \in 1 .. Len(take.cues) :
                  /\ Upper(take.cues)[i].start = take.cues[i].start
                  /\ Upper(take.cues)[i].end = take.cues[i].end
                  /\ Upper(take.cues)[i].shape = Letter(take.cues[i].shape)
<1>1. PICK cues : cues = take.cues
  OBVIOUS
<1> DEFINE N == Len(cues)
           up == Upper(cues)
<1>2. cues \in Seq(ToSet(cues))
  BY <1>1 DEF Recordable
<1>3. N \in Nat /\ DOMAIN cues = 1 .. N
  BY <1>2
<1>4. ASSUME NEW i \in 1 .. N
      PROVE  /\ cues[i] = MouthCue(cues[i].shape, cues[i].start, cues[i].end)
             /\ Tile(cues[i])
  <2>1. cues[i] \in ToSet(cues)
    BY <1>3 DEF ToSet
  <2> QED
    BY <1>1, <2>1 DEF Recordable, Tile
<1>5. ASSUME NEW i \in 1 .. N
      PROVE  up[i] = MouthCue(Letter(cues[i].shape), cues[i].start, cues[i].end)
  <2>1. PICK a, b, c : a = cues[i].shape /\ b = cues[i].start /\ c = cues[i].end
    OBVIOUS
  <2>2. cues[i] = [shape |-> a, start |-> b, end |-> c]
    BY <1>4, <2>1 DEF MouthCue
  <2>3. up[i] = [cues[i] EXCEPT !.shape = Letter(@)]
    BY <1>3 DEF Upper
  <2>4. up[i] = [shape |-> Letter(a), start |-> b, end |-> c]
    BY <2>2, <2>3
  <2> QED
    BY <2>1, <2>4 DEF MouthCue
<1>6. ASSUME NEW i \in 1 .. N
      PROVE  /\ up[i].start = cues[i].start /\ up[i].end = cues[i].end
             /\ up[i].shape = Letter(cues[i].shape)
  <2>1. \A a, b, c : MouthCue(a, b, c).shape = a /\ MouthCue(a, b, c).start = b /\ MouthCue(a, b, c).end = c
    BY DEF MouthCue
  <2> HIDE DEF up
  <2> QED
    BY <1>5, <2>1
<1>7. DOMAIN up = 1 .. N /\ Len(up) = N /\ up \in Seq(ToSet(up))
  <2>1. DOMAIN up = 1 .. N
    BY <1>3 DEF Upper
  <2>2. up = [i \in 1 .. N |-> up[i]]
    BY <1>3 DEF Upper
  <2>3. \A i \in 1 .. N : up[i] \in ToSet(up)
    BY <2>1 DEF ToSet
  <2> HIDE DEF up
  <2> QED
    BY <1>3, <2>1, <2>2, <2>3
<1>8. ASSUME NEW i \in 1 .. N, i > 1 PROVE up[i - 1].end <= up[i].start
  <2>1. i - 1 \in 1 .. N
    BY <1>3, <1>8
  <2>2. ~(cues[i].start < cues[i - 1].end)
    <3>1. Before(cues, i) = cues[i - 1].end /\ i \in DOMAIN cues
      BY <1>3, <1>8 DEF Before
    <3>2. ~Overlap(cues)
      BY <1>1
    <3> QED
      BY <1>8, <3>1, <3>2 DEF Overlap
  <2>3. PICK a \in Nat, b \in Nat : a = cues[i].start /\ b = cues[i - 1].end
    BY <1>4, <2>1 DEF Tile
  <2> HIDE DEF up, N
  <2> QED
    BY <1>6, <2>1, <2>2, <2>3
<1>9. \A i \in 1 .. N : Tile(up[i])
  BY <1>4, <1>6 DEF Tile
<1> QED
  BY <1>1, <1>3, <1>6, <1>7, <1>8, <1>9 DEF AreCues

-----------------------------------------------------------------------------
(* The column of the mouth *)

\* Under a cue of the take the mouth has its shape, and under none it rests.
LEMMA MouthFollows ==
    ASSUME NEW tl, MadeOfTake(tl), tl # NoTimeline, HasActiveCues(tl), NEW t \in Nat, t < tl.dur * FPS
    PROVE  /\ DOMAIN tl.take.cues = 1 .. Len(tl.take.cues)
           /\ \A i \in 1 .. Len(tl.take.cues) :
                  Within(tl.take.cues[i], t, FPS)
                      => SelectMouthCue(tl, t, FPS) = Letter(tl.take.cues[i].shape)
           /\ (\A i \in 1 .. Len(tl.take.cues) : ~Within(tl.take.cues[i], t, FPS))
                  => SelectMouthCue(tl, t, FPS) = "X"
<1>1. PICK cues : cues = tl.take.cues
  OBVIOUS
<1> DEFINE up == Upper(cues)
           N == Len(cues)
<1>2. /\ Recordable(tl.take) /\ ~Overlap(cues) /\ tl.mouth = MouthCues(up, tl.dur) /\ tl.dur \in Nat
  BY <1>1, TakeIs, LastsUntil
<1>3. /\ AreCues(up) /\ Len(up) = N /\ N \in Nat /\ DOMAIN cues = 1 .. N
      /\ \A i \in 1 .. N : up[i].start = cues[i].start /\ up[i].end = cues[i].end
                           /\ up[i].shape = Letter(cues[i].shape)
  BY <1>1, <1>2, UpperIs
<1> HIDE DEF up, N
<1>4. up # <<>>
  <2> SUFFICES ASSUME up = <<>> PROVE FALSE
    OBVIOUS
  <2>1. tl.mouth = <<>> \/ tl.mouth = <<MouthCue("X", 0, tl.dur)>>
    BY <1>2 DEF MouthCues
  <2>2. \A i \in DOMAIN tl.mouth : tl.mouth[i].shape = "X"
    BY <2>1 DEF MouthCue
  <2> QED
    BY <2>2 DEF HasActiveCues
<1>5. SelectMouthCue(tl, t, FPS) = Clamped(InsertSilenceGaps(up, tl.dur), t, FPS).shape
  BY <1>2, <1>4 DEF SelectMouthCue, MouthCues
<1>6. \A i \in 1 .. N : Within(cues[i], t, FPS) <=> Within(up[i], t, FPS)
  BY <1>3 DEF Within
<1>7. /\ \A i \in 1 .. N : Within(up[i], t, FPS) => SelectMouthCue(tl, t, FPS) = up[i].shape
      /\ (\A i \in 1 .. N : ~Within(up[i], t, FPS)) => SelectMouthCue(tl, t, FPS) = "X"
  BY <1>2, <1>3, <1>4, <1>5, MouthSays
<1> QED
  BY <1>1, <1>3, <1>6, <1>7 DEF N

\* Without cues the mouth moves under the words and rests around them.
LEMMA MouthMoves ==
    ASSUME NEW tl, MadeOfTake(tl), tl # NoTimeline, ~HasActiveCues(tl), NEW t \in Nat, t < tl.dur * FPS,
           tl.words # <<>>
    PROVE  ShapeToMouth(SelectMouthCue(tl, t, FPS)) # "rest"
               <=> \E i \in DOMAIN tl.words : Within(tl.words[i], t, FPS)
<1>1. PICK words : words = tl.words
  OBVIOUS
<1> DEFINE under == {i \in DOMAIN words : Within(words[i], t, FPS)}
           since == t - words[Min(under)].start * FPS
<1>2. Recordable(tl.take) /\ words = tl.take.words /\ tl.dur \in Nat
  BY <1>1, TakeIs, LastsUntil
<1>3. words \in Seq(ToSet(words)) /\ \A i \in DOMAIN words : words[i].start \in Int
  BY <1>2 DEF Recordable
<1>4. SelectMouthCue(tl, t, FPS) =
          IF under = {} THEN "X" ELSE Cycle[((since \div (120 * FPS)) % 4) + 1]
  <2>1. ~(tl.dur > 0 /\ t >= tl.dur * FPS)
    BY <1>2 DEF FPS
  <2> QED
    BY <1>1, <2>1 DEF SelectMouthCue, FallbackMouthCue
<1>5. CASE under = {}
  BY <1>1, <1>4, <1>5, ShapesAreMouths
<1>6. CASE under # {}
  <2>1. Min(under) \in under
    <3>1. Len(words) \in Nat /\ DOMAIN words = 1 .. Len(words)
      BY <1>3
    <3> QED
      BY <1>6, <3>1, MinIs
  <2>2. PICK n \in Int : n = words[Min(under)].start
    BY <1>3, <2>1
  <2>3. PICK q \in Int : q = since \div (120 * FPS)
    <3>1. since = t - n * FPS
      BY <2>2
    <3>2. (t - n * FPS) \div (120 * FPS) \in Int
      BY DEF FPS
    <3> HIDE DEF since
    <3> QED
      BY <3>1, <3>2
  <2>4. (q % 4) + 1 \in 1 .. 4
    BY <2>3
  <2>5. \A k \in 1 .. 4 : Cycle[k] \in {"A", "C", "E", "B"}
    BY DEF Cycle
  <2>6. SelectMouthCue(tl, t, FPS) \in {"A", "C", "E", "B"}
    BY <1>4, <1>6, <2>3, <2>4, <2>5
  <2>7. ShapeToMouth(SelectMouthCue(tl, t, FPS)) # "rest"
    BY <2>6 DEF ShapeToMouth
  <2> QED
    BY <1>1, <1>6, <2>7
<1> QED
  BY <1>5, <1>6

-----------------------------------------------------------------------------
(* The row of the body *)

LEMMA ClampedAmong ==
    ASSUME NEW m, Disjoint(m), Len(m) # 0, NEW t \in Int
    PROVE  \E k \in 1 .. Len(m) : Clamped(m, t, FPS) = m[k]
<1>1. 1 \in 1 .. Len(m) /\ Len(m) \in 1 .. Len(m) /\ Last(m) = m[Len(m)] /\ Len(m) \in Nat
  BY DEF Disjoint, Last
<1> DEFINE hits == {k \in DOMAIN m : Within(m[k], t, FPS)}
<1>2. \E k \in 1 .. Len(m) : FirstAt(m, t, FPS, Last(m)) = m[k]
  <2>1. CASE hits = {}
    BY <1>1, <2>1 DEF FirstAt
  <2>2. CASE hits # {}
    <3>1. hits \subseteq 1 .. Len(m)
      BY DEF Disjoint
    <3>2. Min(hits) \in hits
      BY <1>1, <2>2, <3>1, MinIs
    <3> HIDE DEF hits
    <3>3. FirstAt(m, t, FPS, Last(m)) = m[Min(hits)]
      BY <2>2 DEF FirstAt, hits
    <3> QED
      BY <3>1, <3>2, <3>3
  <2> QED
    BY <2>1, <2>2
<1> QED
  BY <1>1, <1>2 DEF Clamped

\* The row is that of the state, which the body of a take has.
LEMMA RowIs ==
    ASSUME NEW tl, MadeOfTake(tl), tl # NoTimeline, NEW frame \in Nat
    PROVE  /\ Cell(tl, SpriteSheet, frame, FPS).row = StateRow[SelectBodyState(tl, 1000 * frame, FPS)]
           /\ Cell(tl, SpriteSheet, frame, FPS).row \in 0 .. 4
<1> DEFINE t == 1000 * frame
           state == SelectBodyState(tl, t, FPS)
           body == tl.body
<1>1. state \in Faces \cup {"falando"}
  <2>1. Disjoint(body) /\ \A k \in 1 .. Len(body) : body[k].state \in Faces
    <3>1. PICK samples, dur : samples = File(tl.take.samples) /\ dur = tl.dur
      OBVIOUS
    <3>2. body = DeriveBodyStates(samples, dur) /\ dur \in Nat /\ AreSamples(Faced(samples))
      BY <3>1, TakeIs, LastsUntil
    <3> DEFINE windows == DeriveBodyStates(samples, dur)
               runs == Runs(Faced(samples))
    <3>3. /\ Disjoint(windows) /\ Len(windows) = Len(runs)
          /\ \A k \in 1 .. Len(runs) : windows[k].state \in Faces
      BY <3>2, BodyIs
    <3> HIDE DEF windows, runs
    <3>4. body = windows
      BY <3>2 DEF windows
    <3> QED
      BY <3>3, <3>4
  <2>2. CASE \E i \in DOMAIN body : body[i].state # "idle"
    <3>1. Len(body) # 0
      BY <2>1, <2>2 DEF Disjoint
    <3>2. \E k \in 1 .. Len(body) : Clamped(body, t, FPS) = body[k]
      <4>1. t \in Int
        OBVIOUS
      <4> HIDE DEF t
      <4> QED
        BY <2>1, <3>1, <4>1, ClampedAmong
    <3> QED
      BY <2>1, <2>2, <3>2 DEF SelectBodyState
  <2>3. CASE ~\E i \in DOMAIN body : body[i].state # "idle"
    <3>1. state \in {"idle", "falando"}
      BY <2>3 DEF SelectBodyState
    <3> QED
      BY <3>1 DEF Faces
  <2> QED
    BY <2>2, <2>3
<1> HIDE DEF state
<1>2. state \in DOMAIN StateRow /\ StateRow[state] \in 0 .. 4
  <2>1. CASE state \in Faces
    BY <2>1, FaceRow
  <2>2. CASE state = "falando"
    BY <2>2 DEF StateRow
  <2> QED
    BY <1>1, <2>1, <2>2
<1>3. Cell(tl, SpriteSheet, frame, FPS).row =
          IF state \in DOMAIN StateRow THEN StateRow[state] ELSE IndexOf(SpriteSheet.states, state)
  BY DEF Cell, state
<1> QED
  BY <1>2, <1>3 DEF state

-----------------------------------------------------------------------------
(* The avatar of the segment on screen *)

\* The segment on screen has a timeline of a take, and its clock stays below the end.
LEMMA SeenTake ==
    ASSUME FInv, SeesOne
    PROVE  /\ MadeOfTake(SeenTimeline) /\ SeenTimeline # NoTimeline
           /\ LocalFrame \in Nat /\ 1000 * LocalFrame < SeenTimeline.dur * FPS
           /\ Screen.avatar = Cell(SeenTimeline, SpriteSheet, LocalFrame, FPS)
<1>1. MadeOfTake(SeenTimeline) /\ SeenTimeline # NoTimeline
  <2>1. PICK id : id = SeenSegment.id
    OBVIOUS
  <2>2. Accepted(SeenSegment)
    BY SeenIs, LongPropsAre DEF SeesOne, SeenSegment
  <2>3. <<"timelines", id>> \in Files /\ dir[<<"timelines", id>>] # 0
    BY <2>1, <2>2 DEF Accepted
  <2>4. SeenTimeline = LocalTimeline(id)
    BY <2>1 DEF SeenTimeline
  <2> QED
    BY <2>3, <2>4, TimelineIs
<1>2. LocalFrame \in Nat /\ 1000 * LocalFrame < SeenTimeline.dur * FPS
  <2>1. PICK d \in Nat \ {0} : d = SeenTimeline.dur
    BY SeenIs
  <2>2. PICK n \in Nat : n = LocalFrame
    BY SeenIs
  <2>3. PICK r \in Int : r = Round(d * FPS, 1000)
    BY DEF Round, FPS
  <2>4. n < Larger(1, r)
    BY <2>1, <2>2, <2>3, SeenIs
  <2>5. 2000 * r <= 2 * (d * FPS) + 1000
    BY <2>3 DEF Round, FPS
  <2>6. 1000 * n < d * FPS
    <3>1. n = 0 \/ n < r
      BY <2>3, <2>4 DEF Larger
    <3> QED
      BY <2>3, <2>5, <3>1 DEF FPS
  <2> QED
    BY <2>1, <2>2, <2>6
<1>3. Screen.avatar = Cell(SeenTimeline, SpriteSheet, LocalFrame, FPS)
  BY CutIs DEF CutMatchesPreview, AvatarSegmentScene
<1> QED
  BY <1>1, <1>2, <1>3

\* The mouth of a frame, as the property tells it.
LEMMA MouthOfFrame ==
    ASSUME NEW tl, MadeOfTake(tl), tl # NoTimeline, NEW frame \in Nat, NEW t, t = 1000 * frame,
           t < tl.dur * FPS, NEW cell, cell = Cell(tl, SpriteSheet, frame, FPS)
    PROVE  IF HasActiveCues(tl)
           THEN /\ \A i \in DOMAIN tl.take.cues :
                       Within(tl.take.cues[i], t, FPS) =>
                           cell.col = IndexOf(SpriteSheet.mouths, ShapeToMouth(Letter(tl.take.cues[i].shape)))
                /\ (\A i \in DOMAIN tl.take.cues : ~Within(tl.take.cues[i], t, FPS))
                       => cell.col = IndexOf(SpriteSheet.mouths, "rest")
           ELSE tl.words # <<>> =>
                    (cell.col # 0 <=> \E i \in DOMAIN tl.words : Within(tl.words[i], t, FPS))
<1>1. PICK mouth \in Mouths : mouth = ShapeToMouth(SelectMouthCue(tl, t, FPS))
  BY ShapesAreMouths
<1>2. cell.col = LiveColumn[mouth] /\ cell.col = IndexOf(SpriteSheet.mouths, mouth)
      /\ (cell.col = 0 <=> mouth = "rest")
  BY <1>1, ColumnIs, MouthColumn
<1>3. CASE HasActiveCues(tl)
  <2>1. /\ DOMAIN tl.take.cues = 1 .. Len(tl.take.cues)
        /\ \A i \in 1 .. Len(tl.take.cues) :
               Within(tl.take.cues[i], t, FPS)
                   => SelectMouthCue(tl, t, FPS) = Letter(tl.take.cues[i].shape)
        /\ (\A i \in 1 .. Len(tl.take.cues) : ~Within(tl.take.cues[i], t, FPS))
               => SelectMouthCue(tl, t, FPS) = "X"
    BY <1>3, MouthFollows
  <2> QED
    BY <1>1, <1>2, <1>3, <2>1, ShapesAreMouths
<1>4. CASE ~HasActiveCues(tl)
  <2> SUFFICES ASSUME tl.words # <<>>
               PROVE  cell.col # 0 <=> \E i \in DOMAIN tl.words : Within(tl.words[i], t, FPS)
    BY <1>4
  <2>1. mouth # "rest" <=> \E i \in DOMAIN tl.words : Within(tl.words[i], t, FPS)
    BY <1>1, <1>4, MouthMoves
  <2> QED
    BY <1>2, <2>1
<1> QED
  BY <1>3, <1>4

\* The body of a frame repeats the face of its sample, in the row of the live avatar.
LEMMA FaceOfFrame ==
    ASSUME NEW tl, MadeOfTake(tl), tl # NoTimeline, NEW frame \in Nat, NEW t, t = 1000 * frame,
           t < tl.dur * FPS, NEW row, row = Cell(tl, SpriteSheet, frame, FPS).row
    PROVE  RepeatsFace(tl, t, row)
<1>1. PICK take, samples, dur : take = tl.take /\ samples = take.samples /\ dur = tl.dur
  OBVIOUS
<1>2. PICK N : N = Len(samples)
  OBVIOUS
<1> DEFINE file == File(samples)
           st == Faced(file)
<1>3. Recordable(take) /\ tl.body = DeriveBodyStates(file, dur) /\ dur \in Nat
  BY <1>1, TakeIs, LastsUntil
<1>4. /\ N \in Nat /\ DOMAIN samples = 1 .. N /\ AreSamples(st) /\ Len(st) = N
      /\ \A i \in 1 .. N :
             /\ samples[i].t \in Nat /\ \A name \in DOMAIN samples[i].bs : samples[i].bs[name] \in Nat
             /\ st[i].t = WholeMs(samples[i].t)
             /\ st[i].state = MapBlendshapesToState(Rounded(samples[i].bs))
  <2>1. FileOf(samples, N)
    BY <1>1, <1>2, <1>3, FileIs
  <2> QED
    BY <2>1 DEF FileOf
<1>5. N > 0 => dur = st[N].t
  BY <1>1, <1>2, <1>4, LastsUntil
<1> HIDE DEF st, file
<1> DEFINE Repeats(i) == /\ \E j \in DOMAIN tl.body : tl.body[j].state # "idle"
                         /\ (samples[i].t + 5) * FPS <= 10 * t
                         /\ i < Len(samples) => 10 * t <= (samples[i + 1].t - 5) * FPS
                         /\ ~OnTheBrink(samples[i].bs)
<1> SUFFICES ASSUME NEW i \in 1 .. N, Repeats(i) PROVE row = LiveCell(samples[i].bs).row
  <2>1. RepeatsFace(tl, t, row) <=>
            \A i \in DOMAIN samples : Repeats(i) => row = LiveCell(samples[i].bs).row
    BY <1>1 DEF RepeatsFace
  <2> HIDE DEF Repeats
  <2> QED
    BY <1>4, <2>1
<1> HIDE DEF Repeats
<1>6. st[i].t * FPS <= t
  <2>1. PICK a \in Nat : a = samples[i].t
    BY <1>4
  <2>2. PICK b \in Nat : b = WholeMs(a) /\ 10 * b <= a + 5
    BY RoundedBy
  <2>3. (a + 5) * 30 <= 10 * t
    BY <2>1 DEF FPS, Repeats
  <2>4. b * 30 <= t
    BY <2>2, <2>3
  <2> QED
    BY <1>4, <2>1, <2>2, <2>4 DEF FPS
<1>7. ASSUME i < N PROVE t < st[i + 1].t * FPS
  <2>1. i + 1 \in 1 .. N
    BY <1>4, <1>7
  <2>2. PICK a \in Nat : a = samples[i + 1].t
    BY <1>4, <2>1
  <2>3. PICK b \in Nat : b = WholeMs(a) /\ a - 5 < 10 * b
    BY RoundedBy
  <2>4. 10 * t <= (a - 5) * 30
    BY <1>2, <1>7, <2>2 DEF FPS, Repeats
  <2>5. t < b * 30
    BY <2>3, <2>4
  <2> QED
    BY <1>4, <2>1, <2>2, <2>3, <2>5 DEF FPS
<1>8. Clamped(tl.body, t, FPS).state = st[i].state
  <2>1. t \in Nat /\ t < dur * FPS
    BY <1>1
  <2>2. AreSamples(Faced(file)) /\ Len(Faced(file)) = N /\ (N > 0 => dur = Faced(file)[N].t)
    BY <1>4, <1>5 DEF st
  <2>3. Faced(file)[i].t * FPS <= t /\ (i < N => t < Faced(file)[i + 1].t * FPS)
    BY <1>6, <1>7 DEF st
  <2>4. Clamped(DeriveBodyStates(file, dur), t, FPS).state = Faced(file)[i].state
    BY <1>3, <1>4, <2>1, <2>2, <2>3, BodyRepeats
  <2> QED
    BY <1>3, <2>4 DEF st
<1>9. PICK face \in Faces : face = MapBlendshapesToState(samples[i].bs)
  BY DEF MapBlendshapesToState, Faces
<1>10. st[i].state = face
  BY <1>4, <1>9, RoundingKeepsState DEF Repeats
<1>11. SelectBodyState(tl, t, FPS) = face
  BY <1>8, <1>10 DEF SelectBodyState, Repeats
<1>12. row = StateRow[face]
  BY <1>11, RowIs
<1> QED
  BY <1>9, <1>12, FaceRow DEF LiveCell

\* The changes of state a file tells of are those of the body.
LEMMA TellsOfBody ==
    ASSUME NEW tl, MadeOfTake(tl), tl # NoTimeline
    PROVE  ToldWell(tl)
<1>1. PICK take, samples, dur : take = tl.take /\ samples = take.samples /\ dur = tl.dur
  OBVIOUS
<1>2. PICK N : N = Len(samples)
  OBVIOUS
<1>3. PICK file, whole : file = File(samples) /\ whole = InWholeMs(samples)
  OBVIOUS
<1>4. Recordable(take) /\ tl.body = DeriveBodyStates(file, dur) /\ dur \in Nat
  BY <1>1, <1>3, TakeIs, LastsUntil
<1>5. /\ N \in Nat /\ DOMAIN samples = 1 .. N
      /\ AreSamples(Faced(file)) /\ Len(Faced(file)) = N
      /\ AreSamples(Faced(whole)) /\ Len(Faced(whole)) = N
      /\ \A i \in 1 .. N :
             /\ \A name \in DOMAIN samples[i].bs : samples[i].bs[name] \in Nat
             /\ Faced(file)[i].t = WholeMs(samples[i].t)
             /\ Faced(file)[i].state = MapBlendshapesToState(Rounded(samples[i].bs))
             /\ Faced(whole)[i].t = WholeMs(samples[i].t)
             /\ Faced(whole)[i].state = MapBlendshapesToState(samples[i].bs)
  <2>1. FileOf(samples, N)
    BY <1>1, <1>2, <1>4, FileIs
  <2> QED
    BY <1>3, <2>1 DEF FileOf
<1> DEFINE told == SmoothStates(Faced(whole))
           ToldBy(body) == \A i \in DOMAIN told :
               \E j \in DOMAIN body : body[j].start = told[i].t /\ body[j].state = told[i].state
<1>6. \A i \in DOMAIN told : 1 < i /\ i < Len(told) => told[i + 1].t - told[i].t >= MinHoldMs
  BY <1>4, <1>5, ChangesTold
<1>7. ASSUME \A k \in 1 .. N : ~OnTheBrink(samples[k].bs) PROVE ToldBy(tl.body)
  <2>1. ASSUME NEW i \in 1 .. N PROVE Faced(file)[i] = Faced(whole)[i]
    <3>1. Faced(file)[i].t = Faced(whole)[i].t /\ Faced(file)[i].state = Faced(whole)[i].state
      BY <1>5, <1>7, RoundingKeepsState
    <3>2. Faced(file)[i] \in Sample /\ Faced(whole)[i] \in Sample
      BY <1>5 DEF AreSamples
    <3> QED
      BY <3>1, <3>2 DEF Sample
  <2>2. Faced(file) = Faced(whole)
    <3>1. PICK a, b : a = Faced(file) /\ b = Faced(whole)
      OBVIOUS
    <3>2. a \in Seq(Sample) /\ b \in Seq(Sample) /\ Len(a) = N /\ Len(b) = N
      BY <1>5, <3>1 DEF AreSamples
    <3>3. \A i \in 1 .. N : a[i] = b[i]
      BY <2>1, <3>1
    <3>4. a = b
      BY <1>5, <3>2, <3>3
    <3> QED
      BY <3>1, <3>4
  <2>3. ToldBy(DeriveBodyStates(file, dur))
    <3>1. told = SmoothStates(Faced(file))
      BY <2>2
    <3> QED
      BY <1>4, <1>5, <3>1, ChangesTold
  <2> HIDE DEF told
  <2> QED
    BY <1>4, <2>3
<1>8. SerializeBlendshapes(tl.take.samples, TRUE).state_changes = told
  BY <1>1, <1>3 DEF Faced, SerializeBlendshapes
<1> HIDE DEF told
<1> QED
  BY <1>1, <1>2, <1>5, <1>6, <1>7, <1>8 DEF ToldWell

\* The avatar on screen says what is heard and does what the live avatar did, whatever was
\* recorded: samples, cues and words of any number, at any time.
THEOREM AvatarFollowsTheVoice == Spec => []AvatarFollowsVoice
<1>1. ASSUME FInv PROVE AvatarFollowsVoice
  <2> SUFFICES ASSUME SeesOne PROVE AvatarFollowsVoice
    BY DEF AvatarFollowsVoice
  <2>1. PICK tl, frame, cell : tl = SeenTimeline /\ frame = LocalFrame /\ cell = Screen.avatar
    OBVIOUS
  <2>2. PICK t : t = 1000 * frame
    OBVIOUS
  <2>3. /\ MadeOfTake(tl) /\ tl # NoTimeline /\ frame \in Nat /\ t < tl.dur * FPS
        /\ cell = Cell(tl, SpriteSheet, frame, FPS)
    BY <1>1, <2>1, <2>2, SeenTake
  <2>4. cell.row < SpriteSheet.rows /\ cell.col < SpriteSheet.columns
    <3>1. cell.row \in 0 .. 4 /\ cell.col \in 0 .. 3
      BY <2>3, RowIs, ColumnIs
    <3> QED
      BY <3>1 DEF SpriteSheet
  <2>5. IF HasActiveCues(tl)
        THEN /\ \A i \in DOMAIN tl.take.cues :
                    Within(tl.take.cues[i], t, FPS) =>
                        cell.col = IndexOf(SpriteSheet.mouths, ShapeToMouth(Letter(tl.take.cues[i].shape)))
             /\ (\A i \in DOMAIN tl.take.cues : ~Within(tl.take.cues[i], t, FPS))
                    => cell.col = IndexOf(SpriteSheet.mouths, "rest")
        ELSE tl.words # <<>> =>
                 (cell.col # 0 <=> \E i \in DOMAIN tl.words : Within(tl.words[i], t, FPS))
    BY <2>2, <2>3, MouthOfFrame
  <2>6. RepeatsFace(tl, t, cell.row) /\ ToldWell(tl)
    BY <2>2, <2>3, FaceOfFrame, TellsOfBody
  <2>7. ASSUME NEW bs PROVE LiveCell(bs).col = IndexOf(SpriteSheet.mouths, MapBlendshapesToMouth(bs))
    BY ShapesAreMouths, MouthColumn DEF LiveCell
  <2> DEFINE Under(s) == {i \in DOMAIN s : s[i].start * FPS <= t /\ t < s[i].end * FPS}
  <2>8. \A s, i : i \in Under(s) <=> i \in DOMAIN s /\ Within(s[i], t, FPS)
    BY DEF Within
  <2> HIDE DEF Under
  <2>9. IF HasActiveCues(tl)
        THEN /\ \A i \in Under(tl.take.cues) :
                    cell.col = IndexOf(SpriteSheet.mouths, ShapeToMouth(Letter(tl.take.cues[i].shape)))
             /\ Under(tl.take.cues) = {} => cell.col = IndexOf(SpriteSheet.mouths, "rest")
        ELSE tl.words # <<>> => (cell.col # 0 <=> Under(tl.words) # {})
    BY <2>5, <2>8
  <2> QED
    BY <2>1, <2>2, <2>4, <2>6, <2>7, <2>9 DEF AvatarFollowsVoice, Under
<1> QED
  BY <1>1, FramesInv, PTL

-----------------------------------------------------------------------------
(* Lines of words *)

Lengths(words) == Len(words) \in Nat /\ DOMAIN words = 1 .. Len(words)
                  /\ \A i \in 1 .. Len(words) : words[i].len \in Nat

Fills(f, words, from, to) ==
    f = [i \in from .. to |-> IF i = from THEN words[i].len ELSE f[i - 1] + 1 + words[i].len]

LEMMA FillsIs ==
    ASSUME NEW words, NEW from \in Int, NEW to \in Int, NEW f, Fills(f, words, from, to),
           NEW i \in from .. to
    PROVE  f[i] = IF i = from THEN words[i].len ELSE f[i - 1] + 1 + words[i].len
BY DEF Fills

LEMMA FillsExists ==
    ASSUME NEW words, Lengths(words), NEW from \in 1 .. Len(words) + 1, NEW to \in 0 .. Len(words)
    PROVE  \E f : Fills(f, words, from, to)
<1> DEFINE C == from .. to
           Entry(f, i) == IF i = from THEN words[i].len ELSE f[i - 1] + 1 + words[i].len
           rank == [i \in C |-> i - from]
           Up == [f \in [C -> Nat] |-> [i \in C |-> Entry(f, i)]]
<1>1. PICK n \in Nat : n = Len(words)
  BY DEF Lengths
<1>2. from \in 1 .. n + 1 /\ to \in 0 .. n /\ \A i \in 1 .. n : words[i].len \in Nat
  BY <1>1 DEF Lengths
<1>3. rank \in [C -> 0 .. n]
  BY <1>2
<1>4. ASSUME NEW f \in [C -> Nat], NEW i \in C PROVE Entry(f, i) \in Nat
  <2>1. words[i].len \in Nat
    BY <1>2
  <2>2. i # from => i - 1 \in C
    BY <1>2
  <2> QED
    BY <2>1, <2>2
<1>5. Up \in [[C -> Nat] -> [C -> Nat]]
  BY <1>4
<1>6. ASSUME NEW f \in [C -> Nat], NEW g \in [C -> Nat], NEW i \in C,
             \A d \in C : rank[d] < rank[i] => f[d] = g[d]
      PROVE  Up[f][i] = Up[g][i]
  <2>1. i # from => i - 1 \in C /\ rank[i - 1] < rank[i]
    BY <1>2
  <2>2. Entry(f, i) = Entry(g, i)
    BY <1>6, <2>1
  <2> QED
    BY <2>2
<1> HIDE DEF rank, Up
<1>7. PICK f \in [C -> Nat] : Up[f] = f
  <2> HIDE DEF C
  <2>1. ComputesFrom(Up, rank, n, C, Nat)
    BY <1>3, <1>5, <1>6 DEF ComputesFrom
  <2> QED
    BY <2>1, RecursionTheorem
<1>8. f = [i \in C |-> Entry(f, i)]
  BY <1>7 DEF Up
<1> QED
  BY <1>8 DEF Fills

\* The length of a line is what counting its words one by one ends with.
LEMMA JoinedIs ==
    ASSUME NEW words, Lengths(words), NEW from \in 1 .. Len(words) + 1, NEW to \in 0 .. Len(words)
    PROVE  /\ from > to => Joined(words, from, to) = 0
           /\ from <= to => \E f : Fills(f, words, from, to) /\ Joined(words, from, to) = f[to]
<1> DEFINE f == CHOOSE g : Fills(g, words, from, to)
<1>1. Fills(f, words, from, to)
  <2>1. \E g : Fills(g, words, from, to)
    BY FillsExists
  <2> QED
    BY <2>1
<1>2. from <= to => Joined(words, from, to) = f[to]
  BY DEF Joined, Fills, Lengths
<1>3. from > to => Joined(words, from, to) = 0
  BY DEF Joined
<1> HIDE DEF f
<1> QED
  BY <1>1, <1>2, <1>3

LEMMA FillsNat ==
    ASSUME NEW words, Lengths(words), NEW from \in 1 .. Len(words) + 1, NEW to \in 0 .. Len(words),
           NEW f, Fills(f, words, from, to)
    PROVE  \A i \in from .. to : f[i] \in Nat
<1>1. PICK n \in Nat : n = Len(words)
  BY DEF Lengths
<1>2. from \in 1 .. n + 1 /\ to \in 0 .. n /\ \A i \in 1 .. n : words[i].len \in Nat
  BY <1>1 DEF Lengths
<1> DEFINE T == {k \in 0 .. n : from + k <= to => f[from + k] \in Nat}
<1>3. 0 \in T
  <2>1. from <= to => from \in from .. to
    BY <1>2
  <2>2. from <= to => f[from] = words[from].len
    BY <2>1, <1>2, FillsIs
  <2> QED
    BY <1>2, <2>2
<1>4. ASSUME NEW k \in 1 .. n, k - 1 \in T PROVE k \in T
  <2> SUFFICES ASSUME from + k <= to PROVE f[from + k] \in Nat
    OBVIOUS
  <2>1. PICK i \in from .. to : i = from + k /\ i # from /\ i - 1 = from + (k - 1)
    BY <1>2
  <2>2. f[i - 1] \in Nat
    BY <1>2, <1>4, <2>1
  <2>3. f[i] = f[i - 1] + 1 + words[i].len
    BY <1>2, <2>1, FillsIs
  <2>4. words[i].len \in Nat
    BY <1>2
  <2> QED
    BY <2>1, <2>2, <2>3, <2>4
<1>5. 0 .. n \subseteq T
  <2> HIDE DEF T
  <2> QED
    BY <1>3, <1>4, UpToInduction
<1> SUFFICES ASSUME NEW i \in from .. to PROVE f[i] \in Nat
  OBVIOUS
<1>6. PICK k \in 0 .. n : i = from + k
  <2>1. i - from \in 0 .. n /\ i = from + (i - from)
    BY <1>2
  <2> QED
    BY <2>1
<1>7. k \in T
  BY <1>5
<1> QED
  BY <1>2, <1>6, <1>7

\* A line is no longer when it begins later.
LEMMA LaterIsShorter ==
    ASSUME NEW words, Lengths(words), NEW from \in 1 .. Len(words), NEW to \in 0 .. Len(words),
           NEW f, Fills(f, words, from, to), NEW g, Fills(g, words, from + 1, to)
    PROVE  \A i \in from + 1 .. to : g[i] <= f[i]
<1>1. PICK n \in Nat : n = Len(words)
  BY DEF Lengths
<1>2. from \in 1 .. n /\ to \in 0 .. n /\ \A i \in 1 .. n : words[i].len \in Nat
  BY <1>1 DEF Lengths
<1>3. (\A i \in from .. to : f[i] \in Nat) /\ (\A i \in from + 1 .. to : g[i] \in Nat)
  <2>1. PICK after \in 1 .. n + 1 : after = from + 1
    BY <1>2
  <2> QED
    BY <1>1, <1>2, <2>1, FillsNat
<1> DEFINE T == {k \in 0 .. n : from + 1 + k <= to => g[from + 1 + k] <= f[from + 1 + k]}
<1>4. ASSUME NEW i \in from + 1 .. to
      PROVE  /\ f[i] = f[i - 1] + 1 + words[i].len /\ f[i - 1] \in Nat /\ words[i].len \in Nat
             /\ g[i] = IF i = from + 1 THEN words[i].len ELSE g[i - 1] + 1 + words[i].len
             /\ i # from + 1 => g[i - 1] \in Nat
  <2>1. i \in from .. to /\ i # from /\ i - 1 \in from .. to /\ i \in 1 .. n /\ from + 1 \in Int
    BY <1>2
  <2>2. i # from + 1 => i - 1 \in from + 1 .. to
    BY <1>2
  <2>3. f[i] = f[i - 1] + 1 + words[i].len
    <3>1. f[i] = IF i = from THEN words[i].len ELSE f[i - 1] + 1 + words[i].len
      BY <1>2, <2>1, FillsIs
    <3> QED
      BY <2>1, <3>1
  <2>4. g[i] = IF i = from + 1 THEN words[i].len ELSE g[i - 1] + 1 + words[i].len
    BY <1>2, <2>1, FillsIs
  <2> QED
    BY <1>2, <1>3, <2>1, <2>2, <2>3, <2>4
<1>5. 0 \in T
  <2> SUFFICES ASSUME from + 1 <= to PROVE g[from + 1] <= f[from + 1]
    BY <1>2
  <2>1. PICK i \in from + 1 .. to : i = from + 1
    BY <1>2
  <2>2. /\ f[i] = f[i - 1] + 1 + words[i].len /\ f[i - 1] \in Nat /\ words[i].len \in Nat
        /\ g[i] = words[i].len
    BY <1>4, <2>1
  <2>3. g[i] <= f[i]
    BY <2>2
  <2> QED
    BY <2>1, <2>3
<1>6. ASSUME NEW k \in 1 .. n, k - 1 \in T PROVE k \in T
  <2> SUFFICES ASSUME from + 1 + k <= to PROVE g[from + 1 + k] <= f[from + 1 + k]
    OBVIOUS
  <2>1. PICK i \in from + 1 .. to : i = from + 1 + k /\ i # from + 1 /\ i - 1 = from + 1 + (k - 1)
    BY <1>2
  <2>2. g[i - 1] <= f[i - 1]
    BY <1>2, <1>6, <2>1
  <2>3. /\ f[i] = f[i - 1] + 1 + words[i].len /\ f[i - 1] \in Nat /\ words[i].len \in Nat
        /\ g[i] = g[i - 1] + 1 + words[i].len /\ g[i - 1] \in Nat
    BY <1>4, <2>1
  <2>4. PICK x \in Nat, y \in Nat, l \in Nat : x = f[i - 1] /\ y = g[i - 1] /\ l = words[i].len
    BY <2>3
  <2>5. f[i] = x + 1 + l /\ g[i] = y + 1 + l /\ y <= x
    BY <2>2, <2>3, <2>4
  <2>6. g[i] <= f[i]
    BY <2>5
  <2> QED
    BY <2>1, <2>6
<1>7. 0 .. n \subseteq T
  <2> HIDE DEF T
  <2> QED
    BY <1>5, <1>6, UpToInduction
<1> SUFFICES ASSUME NEW i \in from + 1 .. to PROVE g[i] <= f[i]
  OBVIOUS
<1>8. PICK k \in 0 .. n : i = from + 1 + k
  <2>1. i - from - 1 \in 0 .. n /\ i = from + 1 + (i - from - 1)
    BY <1>2
  <2> QED
    BY <2>1
<1>9. k \in T
  BY <1>7
<1> QED
  BY <1>2, <1>8, <1>9

LEMMA JoinedNat ==
    ASSUME NEW words, Lengths(words), NEW from \in 1 .. Len(words) + 1, NEW to \in 0 .. Len(words)
    PROVE  Joined(words, from, to) \in Nat
<1>1. Len(words) \in Nat
  BY DEF Lengths
<1>2. CASE from > to
  BY <1>2, JoinedIs
<1>3. CASE from <= to
  <2>1. PICK f : Fills(f, words, from, to) /\ Joined(words, from, to) = f[to]
    BY <1>3, JoinedIs
  <2>2. to \in from .. to
    BY <1>1, <1>3
  <2> QED
    BY <2>1, <2>2, FillsNat
<1> QED
  BY <1>1, <1>2, <1>3

LEMMA JoinedOfOne ==
    ASSUME NEW words, Lengths(words), NEW from \in 1 .. Len(words)
    PROVE  Joined(words, from, from) = words[from].len
<1>1. PICK n \in Nat : n = Len(words)
  BY DEF Lengths
<1>2. from \in 1 .. n /\ from <= from /\ from \in from .. from /\ from \in 1 .. n + 1 /\ from \in 0 .. n
  BY <1>1
<1>3. PICK f : Fills(f, words, from, from) /\ Joined(words, from, from) = f[from]
  BY <1>1, <1>2, JoinedIs
<1> QED
  BY <1>2, <1>3, FillsIs

LEMMA JoinedShrinks ==
    ASSUME NEW words, Lengths(words), NEW from \in 1 .. Len(words), NEW to \in 0 .. Len(words)
    PROVE  Joined(words, from + 1, to) <= Joined(words, from, to)
<1>1. PICK n \in Nat : n = Len(words)
  BY DEF Lengths
<1>2. PICK after \in 1 .. n + 1 : after = from + 1
  BY <1>1
<1>3. from \in 1 .. n + 1 /\ to \in 0 .. n
  BY <1>1
<1>4. Joined(words, from, to) \in Nat /\ Joined(words, after, to) \in Nat
  BY <1>1, <1>3, JoinedNat
<1>5. CASE after > to
  BY <1>1, <1>2, <1>4, <1>5, JoinedIs
<1>6. CASE after <= to
  <2>1. PICK f : Fills(f, words, from, to) /\ Joined(words, from, to) = f[to]
    BY <1>1, <1>2, <1>3, <1>6, JoinedIs
  <2>2. PICK g : Fills(g, words, from + 1, to) /\ Joined(words, after, to) = g[to]
    BY <1>1, <1>2, <1>3, <1>6, JoinedIs
  <2>3. to \in from + 1 .. to
    BY <1>2, <1>3, <1>6
  <2>4. g[to] <= f[to]
    BY <1>1, <2>1, <2>2, <2>3, LaterIsShorter
  <2> QED
    BY <1>2, <2>1, <2>2, <2>4
<1> QED
  BY <1>1, <1>2, <1>5, <1>6

LEMMA JoinedLater ==
    ASSUME NEW words, Lengths(words), NEW from \in 1 .. Len(words), NEW to \in 0 .. Len(words),
           NEW later \in from .. Len(words) + 1
    PROVE  Joined(words, later, to) <= Joined(words, from, to)
<1>1. PICK n \in Nat : n = Len(words)
  BY DEF Lengths
<1>2. from \in 1 .. n /\ from \in 1 .. n + 1 /\ to \in 0 .. n /\ later \in from .. n + 1
  BY <1>1
<1>3. \A i \in 1 .. n + 1 : Joined(words, i, to) \in Nat
  BY <1>1, <1>2, JoinedNat
<1> DEFINE T == {k \in 0 .. n : from + k <= n + 1 => Joined(words, from + k, to) <= Joined(words, from, to)}
<1>4. 0 \in T
  BY <1>2, <1>3
<1>5. ASSUME NEW k \in 1 .. n, k - 1 \in T PROVE k \in T
  <2> SUFFICES ASSUME from + k <= n + 1
               PROVE  Joined(words, from + k, to) <= Joined(words, from, to)
    OBVIOUS
  <2>1. PICK i \in 1 .. n : i = from + (k - 1) /\ from + k = i + 1
    BY <1>2
  <2>2. Joined(words, i, to) <= Joined(words, from, to)
    BY <1>2, <1>5, <2>1
  <2>3. Joined(words, i + 1, to) <= Joined(words, i, to)
    BY <1>1, <1>2, JoinedShrinks
  <2>4. PICK x \in Nat, y \in Nat, z \in Nat :
            x = Joined(words, i + 1, to) /\ y = Joined(words, i, to) /\ z = Joined(words, from, to)
    BY <1>2, <1>3
  <2> QED
    BY <2>1, <2>2, <2>3, <2>4
<1>6. 0 .. n \subseteq T
  <2> HIDE DEF T
  <2> QED
    BY <1>4, <1>5, UpToInduction
<1>7. PICK k \in 0 .. n : later = from + k
  <2>1. later - from \in 0 .. n /\ later = from + (later - from)
    BY <1>2
  <2> QED
    BY <2>1
<1>8. k \in T
  BY <1>6
<1> QED
  BY <1>2, <1>7, <1>8

LEMMA GreatestFrom ==
    ASSUME NEW low \in Nat, NEW high \in Nat, NEW T, T \subseteq low .. high, low \in T
    PROVE  \E s \in low .. high : s \in T /\ \A t \in s + 1 .. high : t \notin T
<1>1. CASE high = 0
  BY <1>1
<1>2. CASE T \cap (1 .. high) = {}
  <2>1. low \in 1 .. high \/ low = 0
    OBVIOUS
  <2> QED
    BY <1>2, <2>1
<1>3. CASE T \cap (1 .. high) # {}
  <2>1. PICK s \in T \cap (1 .. high) : \A t \in T \cap (1 .. high) : t <= s
    <3> DEFINE U == T \cap (1 .. high)
    <3>1. U \subseteq 1 .. high /\ U # {}
      BY <1>3
    <3> HIDE DEF U
    <3>2. \E s \in U : \A t \in U : t <= s
      BY <3>1, GreatestElement
    <3> QED
      BY <3>2 DEF U
  <2> SUFFICES ASSUME NEW t \in s + 1 .. high, t \in T PROVE FALSE
    OBVIOUS
  <2>2. t \in 1 .. high /\ ~(t <= s)
    BY <2>1
  <2> QED
    BY <2>1, <2>2
<1> QED
  BY <1>2, <1>3

\* What WrapBalanced gives keeps both lines to the limit.
LEMMA WrapKeepsToLines ==
    ASSUME NEW words, Lengths(words), FitsCue(words)
    PROVE  LET split == WrapBalanced(words, MaxLineChars, MaxLines) IN
           /\ Joined(words, 1, split) <= MaxLineChars
           /\ Joined(words, split + 1, Len(words)) <= MaxLineChars
<1> DEFINE n == Len(words)
           Fits(s) == Joined(words, 1, s) <= MaxLineChars
           greedy == CHOOSE s \in 0 .. n : Fits(s) /\ \A t \in s + 1 .. n : ~Fits(t)
           Moves(s) == \A t \in greedy + 1 .. s :
                           Fits(t) /\ Asymmetry(words, t) < Asymmetry(words, t - 1)
           moved == CHOOSE s \in greedy .. n - 1 :
                        Moves(s) /\ \A t \in s + 1 .. n - 1 : ~Moves(t)
           split == WrapBalanced(words, MaxLineChars, MaxLines)
<1>1. n \in Nat
  BY DEF Lengths
<1>2. Joined(words, n + 1, n) = 0 /\ Joined(words, 1, 0) = 0
  BY <1>1 DEF Joined
<1>3. greedy \in 0 .. n /\ Fits(greedy)
  <2> DEFINE T == {s \in 0 .. n : Fits(s)}
  <2>1. 0 \in T /\ T \subseteq 0 .. n
    BY <1>1, <1>2 DEF MaxLineChars
  <2>2. \E s \in 0 .. n : s \in T /\ \A t \in s + 1 .. n : t \notin T
    <3> HIDE DEF T
    <3> QED
      BY <1>1, <2>1, GreatestFrom
  <2>3. \E s \in 0 .. n : Fits(s) /\ \A t \in s + 1 .. n : ~Fits(t)
    <3>1. PICK s \in 0 .. n : s \in T /\ \A t \in s + 1 .. n : t \notin T
      BY <2>2
    <3>2. ASSUME NEW t \in s + 1 .. n PROVE ~Fits(t)
      BY <1>1, <3>1
    <3> QED
      BY <3>1, <3>2
  <2> HIDE DEF Fits
  <2> QED
    BY <2>3
<1>4. split # NoFit
  BY DEF FitsCue
<1>5. \/ Fits(n) /\ split = n
      \/ greedy # 0 /\ greedy # n /\ Joined(words, greedy + 1, n) <= MaxLineChars /\ split = moved
  <2> DEFINE tooLong == \E i \in 1 .. n : words[i].len > MaxLineChars
             second == Joined(words, greedy + 1, n)
  <2>1. split = IF tooLong THEN NoFit
                ELSE IF Fits(n) THEN n
                ELSE IF MaxLines < 2 \/ greedy \in {0, n} \/ second > MaxLineChars THEN NoFit
                ELSE moved
    BY DEF WrapBalanced
  <2>2. second \in Nat
    <3>1. greedy + 1 \in 1 .. n + 1 /\ n \in 0 .. n
      BY <1>1, <1>3
    <3> QED
      BY <3>1, JoinedNat
  <2> HIDE DEF tooLong, second, greedy, moved, split, Fits, n
  <2> QED
    BY <1>4, <2>1, <2>2 DEF MaxLineChars, second
<1>6. CASE Fits(n) /\ split = n
  BY <1>2, <1>6 DEF MaxLineChars
<1>7. CASE greedy # 0 /\ greedy # n /\ Joined(words, greedy + 1, n) <= MaxLineChars /\ split = moved
  <2>1. greedy \in 1 .. n - 1
    BY <1>1, <1>3, <1>7
  <2>2. moved \in greedy .. n - 1 /\ Moves(moved)
    <3> DEFINE T == {s \in greedy .. n - 1 : Moves(s)}
    <3> HIDE DEF Fits, greedy
    <3>1. greedy \in T /\ T \subseteq greedy .. n - 1 /\ greedy \in Nat /\ n - 1 \in Nat
      BY <1>1, <2>1
    <3>2. \E s \in greedy .. n - 1 : s \in T /\ \A t \in s + 1 .. n - 1 : t \notin T
      <4> HIDE DEF T
      <4> QED
        BY <3>1, GreatestFrom
    <3>3. PICK s \in greedy .. n - 1 : s \in T /\ \A t \in s + 1 .. n - 1 : t \notin T
      BY <3>2
    <3>4. ASSUME NEW t \in s + 1 .. n - 1 PROVE ~Moves(t)
      <4>1. t \in greedy .. n - 1
        BY <1>1, <2>1
      <4> QED
        BY <3>3, <4>1
    <3>5. \E u \in greedy .. n - 1 : Moves(u) /\ \A t \in u + 1 .. n - 1 : ~Moves(t)
      <4> HIDE DEF Moves
      <4> QED
        BY <3>3, <3>4
    <3> HIDE DEF Moves
    <3> QED
      BY <3>5
  <2>3. Fits(moved)
    <3> HIDE DEF Fits, moved, greedy
    <3>1. moved = greedy \/ moved \in greedy + 1 .. moved
      <4> HIDE DEF Moves
      <4> QED
        BY <1>1, <2>1, <2>2
    <3> QED
      BY <1>3, <2>2, <3>1
  <2> HIDE DEF moved, greedy
  <2>4. PICK from \in 1 .. n, later \in 1 .. n + 1 :
            from = greedy + 1 /\ later = moved + 1 /\ later \in from .. n + 1
    BY <1>1, <2>1, <2>2
  <2>5. Joined(words, later, n) <= Joined(words, from, n)
    BY <1>1, <2>4, JoinedLater
  <2>6. Joined(words, later, n) \in Nat /\ Joined(words, from, n) \in Nat
    BY <1>1, <2>4, JoinedNat
  <2> QED
    BY <1>7, <2>3, <2>4, <2>5, <2>6 DEF MaxLineChars
<1> QED
  BY <1>5, <1>6, <1>7

LEMMA WordsFit ==
    ASSUME NEW words, Lengths(words), FitsCue(words)
    PROVE  \A i \in 1 .. Len(words) : words[i].len <= MaxLineChars
BY DEF FitsCue, WrapBalanced, Lengths, MaxLineChars, NoFit

LEMMA OneWordFits ==
    ASSUME NEW w, w.len \in Nat
    PROVE  FitsCue(<<w>>) <=> w.len <= MaxLineChars
<1>1. Len(<<w>>) = 1 /\ <<w>>[1] = w /\ Lengths(<<w>>)
  BY DEF Lengths
<1>2. Joined(<<w>>, 1, 1) = w.len
  BY <1>1, JoinedOfOne
<1>3. ASSUME w.len <= MaxLineChars PROVE WrapBalanced(<<w>>, MaxLineChars, MaxLines) = 1
  <2>1. ~\E i \in 1 .. Len(<<w>>) : <<w>>[i].len > MaxLineChars
    BY <1>1, <1>3 DEF MaxLineChars
  <2> QED
    BY <1>1, <1>2, <1>3, <2>1 DEF WrapBalanced
<1>4. ASSUME w.len > MaxLineChars PROVE WrapBalanced(<<w>>, MaxLineChars, MaxLines) = NoFit
  <2>1. \E i \in 1 .. Len(<<w>>) : <<w>>[i].len > MaxLineChars
    BY <1>1, <1>4
  <2> QED
    BY <2>1 DEF WrapBalanced
<1> QED
  BY <1>3, <1>4 DEF FitsCue, NoFit, MaxLineChars

IsWord(w) == w.len \in Nat /\ w.start \in Int /\ w.end \in Int /\ w.id \in Int

Narration(words, S) ==
    /\ words \in Seq(S) /\ \A w \in S : IsWord(w)
    /\ \A i, j \in 1 .. Len(words) : i < j => words[i].id < words[j].id

Untimed(w) == ~Blank(w) /\ ~Timed(w)

\* The cues of some groups of words, and the state of the pass.
CuesOf(W) == [i \in 1 .. Len(W) |-> Cue(W[i], FPS)]
Pass(W, G) == [cues |-> CuesOf(W), group |-> G]

\* A group gathers shown words of the first n in their order, without a silence.
Gathered(g, words, n) ==
    /\ \A k \in 1 .. Len(g) : Shown(g[k]) /\ \E j \in 1 .. n : words[j] = g[k]
    /\ \A k, l \in 1 .. Len(g) : k < l => g[k].id < g[l].id
    /\ \A k \in 1 .. Len(g) - 1 : g[k + 1].start - g[k].end <= GapMs

Apart(g, h) == \A k \in 1 .. Len(g), l \in 1 .. Len(h) : g[k].id < h[l].id

Beside(g, words, n) ==
    \A j \in 1 .. n : Untimed(words[j]) =>
        \/ \A k \in 1 .. Len(g) : g[k].id < words[j].id
        \/ \A k \in 1 .. Len(g) : g[k].id > words[j].id

Since(g, words, n) ==
    \A j \in 1 .. n : Untimed(words[j]) => \A k \in 1 .. Len(g) : g[k].id > words[j].id

Settled(g, words, n) ==
    g # <<>> /\ FitsCue(g) /\ Gathered(g, words, n) /\ Beside(g, words, n)

Open(g, words, n) ==
    (g = <<>> \/ FitsCue(g)) /\ Gathered(g, words, n) /\ Since(g, words, n)

Holds(g, w) == \E k \in 1 .. Len(g) : g[k] = w

ShownOf(words, n) == [i \in 1 .. n |-> IF Shown(words[i]) THEN <<words[i]>> ELSE <<>>]

Kept(W, G, words, S, n) ==
    /\ W \in Seq(Seq(S)) /\ G \in Seq(S)
    /\ \A i \in 1 .. Len(W) : Settled(W[i], words, n) /\ Apart(W[i], G)
    /\ \A i, p \in 1 .. Len(W) : i < p => Apart(W[i], W[p])
    /\ Open(G, words, n)
    /\ \A j \in 1 .. n : Shown(words[j]) =>
           Holds(G, words[j]) \/ \E i \in 1 .. Len(W) : Holds(W[i], words[j])
    /\ Cat(FlattenSeq(W), G) = FlattenSeq(ShownOf(words, n))

\* What is true of the indices of a sequence with one more item.
LEMMA OneMore ==
    ASSUME NEW T, NEW ss \in Seq(T), NEW x \in T
    PROVE  /\ Append(ss, x) \in Seq(T) /\ Append(ss, x) # <<>>
           /\ Len(ss) \in Nat /\ Len(Append(ss, x)) = Len(ss) + 1
           /\ \A i \in 1 .. Len(ss) : Append(ss, x)[i] = ss[i]
           /\ Append(ss, x)[Len(ss) + 1] = x
           /\ \A i \in 1 .. Len(ss) + 1 : i \in 1 .. Len(ss) \/ i = Len(ss) + 1
OBVIOUS

\* A sequence is the function of its items.
LEMMA SequenceIs ==
    ASSUME NEW T, NEW ss \in Seq(T), NEW n \in Nat, Len(ss) = n
    PROVE  ss = [i \in 1 .. n |-> ss[i]]
OBVIOUS

LEMMA AppendIs ==
    ASSUME NEW T, NEW ss \in Seq(T), NEW x \in T
    PROVE  Append(ss, x) = [i \in 1 .. Len(ss) + 1 |-> IF i = Len(ss) + 1 THEN x ELSE ss[i]]
<1>1. PICK n \in Nat : n = Len(ss)
  OBVIOUS
<1>2. PICK more \in Seq(T) : more = Append(ss, x)
  <2>1. Append(ss, x) \in Seq(T)
    OBVIOUS
  <2> QED
    BY <2>1, Zenon
<1>3. Len(more) = n + 1
  BY <1>1, <1>2
<1>4. more = [i \in 1 .. n + 1 |-> more[i]]
  BY <1>3, SequenceIs
<1>5. \A i \in 1 .. n + 1 : more[i] = IF i = n + 1 THEN x ELSE ss[i]
  BY <1>1, <1>2
<1> QED
  BY <1>1, <1>2, <1>4, <1>5

\* A group that is closed becomes a cue, and what is kept stays kept.
LEMMA Flushed ==
    ASSUME NEW words, NEW S, NEW n \in Nat, NEW W, NEW G, Kept(W, G, words, S, n)
    PROVE  \E W2 : /\ Flush(Pass(W, G), FPS) = Pass(W2, <<>>)
                   /\ Kept(W2, <<>>, words, S, n)
<1> USE DEF Kept
<1>1. Gathered(<<>>, words, n) /\ Since(<<>>, words, n)
  BY DEF Gathered, Since
<1>2. Open(<<>>, words, n) /\ \A g : Apart(g, <<>>)
  BY <1>1 DEF Open, Apart
<1>3. <<>> \in Seq(S) /\ FlattenSeq(W) \in Seq(S)
  BY FlattenSequences
<1>4. CASE G = <<>>
  <2>1. Flush(Pass(W, G), FPS) = Pass(W, <<>>)
    BY <1>4 DEF Flush, Pass
  <2> QED
    BY <1>4, <2>1
<1>5. CASE G # <<>>
  <2> DEFINE W2 == Append(W, G)
  <2>1. /\ W2 \in Seq(Seq(S)) /\ Len(W) \in Nat /\ Len(W2) = Len(W) + 1
        /\ \A i \in 1 .. Len(W) : W2[i] = W[i]
        /\ W2[Len(W) + 1] = G
        /\ \A i \in 1 .. Len(W) + 1 : i \in 1 .. Len(W) \/ i = Len(W) + 1
    BY OneMore
  <2> HIDE DEF W2
  <2>2. FitsCue(G) /\ Gathered(G, words, n) /\ Since(G, words, n)
    BY <1>5 DEF Open
  <2>3. Beside(G, words, n)
    BY <2>2 DEF Beside, Since
  <2>4. Flush(Pass(W, G), FPS) = Pass(W2, <<>>)
    <3>1. Flush(Pass(W, G), FPS) = [cues |-> Append(CuesOf(W), Cue(G, FPS)), group |-> <<>>]
      BY <1>5, <2>2 DEF Flush, Pass
    <3>2. CuesOf(W2) = Append(CuesOf(W), Cue(G, FPS))
      <4>1. CuesOf(W) \in Seq({Cue(g, FPS) : g \in Seq(S)}) /\ Len(CuesOf(W)) = Len(W)
        <5>1. \A i \in 1 .. Len(W) : W[i] \in Seq(S)
          OBVIOUS
        <5> QED
          BY <2>1, <5>1 DEF CuesOf
      <4>2. \A i \in 1 .. Len(W) : CuesOf(W)[i] = Cue(W[i], FPS)
        BY DEF CuesOf
      <4> DEFINE c == Cue(G, FPS)
                 cs == CuesOf(W)
                 T == {Cue(g, FPS) : g \in Seq(S)}
      <4>3. c \in T /\ cs \in Seq(T) /\ Len(cs) = Len(W)
        BY <4>1
      <4> HIDE DEF c, cs, T
      <4>4. /\ Append(cs, c) = [i \in 1 .. Len(W) + 1 |-> IF i = Len(W) + 1 THEN c ELSE cs[i]]
        <5>1. Append(cs, c) = [i \in 1 .. Len(cs) + 1 |-> IF i = Len(cs) + 1 THEN c ELSE cs[i]]
          BY <4>3, AppendIs
        <5> QED
          BY <4>3, <5>1
      <4>5. \A i \in 1 .. Len(W) + 1 :
                Cue(W2[i], FPS) = IF i = Len(W) + 1 THEN c ELSE cs[i]
        BY <2>1, <4>2 DEF c, cs
      <4>6. CuesOf(W2) = [i \in 1 .. Len(W) + 1 |-> IF i = Len(W) + 1 THEN c ELSE cs[i]]
        BY <2>1, <4>5 DEF CuesOf
      <4> QED
        BY <4>4, <4>6 DEF c, cs
    <3> QED
      BY <3>1, <3>2 DEF Pass
  <2>5. \A i \in 1 .. Len(W2) : Settled(W2[i], words, n) /\ Apart(W2[i], <<>>)
    BY <1>2, <1>5, <2>1, <2>2, <2>3 DEF Settled
  <2>6. ASSUME NEW i \in 1 .. Len(W2), NEW p \in 1 .. Len(W2), i < p PROVE Apart(W2[i], W2[p])
    <3>1. i \in 1 .. Len(W) /\ (p \in 1 .. Len(W) \/ p = Len(W) + 1)
      BY <2>1, <2>6
    <3>2. Apart(W[i], G) /\ \A q \in 1 .. Len(W) : i < q => Apart(W[i], W[q])
      BY <3>1
    <3> QED
      BY <2>1, <2>6, <3>1, <3>2
  <2>7. ASSUME NEW j \in 1 .. n, Shown(words[j])
        PROVE  \E i \in 1 .. Len(W2) : Holds(W2[i], words[j])
    <3>1. Len(W) + 1 \in 1 .. Len(W2) /\ \A i \in 1 .. Len(W) : i \in 1 .. Len(W2)
      BY <2>1
    <3> QED
      BY <2>1, <2>7, <3>1
  <2>8. Cat(FlattenSeq(W2), <<>>) = Cat(FlattenSeq(W), G)
    <3>1. Joins(Seq(S))
      BY SequencesJoin
    <3>2. FlattenSeq(W2) = FlattenSeq(W) \o G
      BY <3>1, FlattenAppend DEF W2
    <3> QED
      BY <1>3, <3>2 DEF Cat
  <2>9. Kept(W2, <<>>, words, S, n)
    <3>1. Cat(FlattenSeq(W2), <<>>) = FlattenSeq(ShownOf(words, n))
      BY <2>8
    <3> QED
      BY <1>2, <1>3, <2>1, <2>5, <2>6, <2>7, <3>1
  <2> QED
    BY <2>4, <2>9
<1> QED
  BY <1>4, <1>5

\* The shown words up to word n.
LEMMA ShownStep ==
    ASSUME NEW words, NEW S, Narration(words, S), NEW n \in 1 .. Len(words)
    PROVE  /\ FlattenSeq(ShownOf(words, n - 1)) \in Seq(S)
           /\ FlattenSeq(ShownOf(words, n)) =
                  FlattenSeq(ShownOf(words, n - 1)) \o IF Shown(words[n]) THEN <<words[n]>> ELSE <<>>
<1> DEFINE One(i) == IF Shown(words[i]) THEN <<words[i]>> ELSE <<>>
           before == ShownOf(words, n - 1)
<1>1. n - 1 \in Nat /\ \A i \in 1 .. n : words[i] \in S
  BY DEF Narration
<1>2. \A i \in 1 .. n : One(i) \in Seq(S)
  BY <1>1
<1>3. before = [i \in 1 .. n - 1 |-> One(i)] /\ ShownOf(words, n) = [i \in 1 .. n |-> One(i)]
  BY DEF ShownOf
<1> HIDE DEF One, before
<1>4. before \in Seq(Seq(S)) /\ ShownOf(words, n) = Append(before, One(n))
  BY <1>1, <1>2, <1>3
<1>5. Joins(Seq(S))
  BY SequencesJoin
<1>6. One(n) \in Seq(S)
  BY <1>2
<1>7. FlattenSeq(Append(before, One(n))) = FlattenSeq(before) \o One(n)
  BY <1>4, <1>5, <1>6, FlattenAppend
<1>8. FlattenSeq(before) \in Seq(S)
  BY <1>4, FlattenSequences
<1> QED
  BY <1>4, <1>7, <1>8 DEF One, before

\* A group of the first words stands beside a later one without a time.
LEMMA GatheredLater ==
    ASSUME NEW words, NEW S, Narration(words, S), NEW n \in 1 .. Len(words),
           NEW g, Gathered(g, words, n - 1)
    PROVE  Gathered(g, words, n) /\ \A k \in 1 .. Len(g) : g[k].id < words[n].id
<1>1. n - 1 \in Nat /\ Len(words) \in Nat
  BY DEF Narration
<1>2. \A j \in 1 .. n - 1 : j \in 1 .. n /\ j \in 1 .. Len(words) /\ j < n
  BY <1>1
<1> QED
  BY <1>2 DEF Gathered, Narration

\* A word that is not shown leaves the groups as they are.
LEMMA Skipped ==
    ASSUME NEW words, NEW S, Narration(words, S), NEW n \in 1 .. Len(words),
           NEW W, NEW G, Kept(W, G, words, S, n - 1),
           ~Shown(words[n]), Untimed(words[n]) => G = <<>>
    PROVE  Kept(W, G, words, S, n)
<1> USE DEF Kept
<1>1. /\ n - 1 \in Nat /\ Len(words) \in Nat
      /\ \A j \in 1 .. n : j = n \/ j \in 1 .. n - 1
  BY DEF Narration
<1>2. ASSUME NEW i \in 1 .. Len(W) PROVE Settled(W[i], words, n) /\ Apart(W[i], G)
  <2>1. Settled(W[i], words, n - 1) /\ Apart(W[i], G)
    OBVIOUS
  <2>2. Gathered(W[i], words, n) /\ \A k \in 1 .. Len(W[i]) : W[i][k].id < words[n].id
    BY <2>1, GatheredLater DEF Settled
  <2>3. Beside(W[i], words, n)
    BY <1>1, <2>1, <2>2 DEF Beside, Settled
  <2> QED
    BY <2>1, <2>2, <2>3 DEF Settled
<1>3. Open(G, words, n)
  <2>1. Gathered(G, words, n)
    BY GatheredLater DEF Open
  <2>2. Since(G, words, n)
    <3>1. Untimed(words[n]) => Len(G) = 0
      OBVIOUS
    <3>2. Untimed(words[n]) => \A k \in 1 .. Len(G) : G[k].id > words[n].id
      BY <3>1
    <3>3. Since(G, words, n - 1)
      BY DEF Open
    <3> QED
      BY <1>1, <3>2, <3>3 DEF Since
  <2> QED
    BY <2>1, <2>2 DEF Open
<1>4. \A j \in 1 .. n : Shown(words[j]) =>
          Holds(G, words[j]) \/ \E i \in 1 .. Len(W) : Holds(W[i], words[j])
  BY <1>1
<1>5. FlattenSeq(ShownOf(words, n)) = FlattenSeq(ShownOf(words, n - 1))
  <2>1. /\ FlattenSeq(ShownOf(words, n - 1)) \in Seq(S)
        /\ FlattenSeq(ShownOf(words, n)) = FlattenSeq(ShownOf(words, n - 1)) \o <<>>
    BY ShownStep
  <2> QED
    BY <2>1
<1> QED
  BY <1>2, <1>3, <1>4, <1>5

LEMMA JoinedAlone ==
    ASSUME NEW words, NEW S, Narration(words, S), NEW n \in 1 .. Len(words),
           NEW W, NEW G, Kept(W, G, words, S, n - 1),
           Shown(words[n]), FitsCue(Append(G, words[n])),
           G # <<>> => words[n].start - G[Len(G)].end <= GapMs
    PROVE  Kept(W, Append(G, words[n]), words, S, n)
<1> USE DEF Kept
<1> DEFINE w == words[n]
           G2 == Append(G, w)
<1>1. /\ n - 1 \in Nat /\ Len(words) \in Nat /\ w \in S /\ n \in 1 .. n
      /\ \A j \in 1 .. n : j = n \/ j \in 1 .. n - 1
  BY DEF Narration
<1>2. /\ G2 \in Seq(S) /\ Len(G) \in Nat /\ Len(G2) = Len(G) + 1
      /\ \A i \in 1 .. Len(G) : G2[i] = G[i]
      /\ G2[Len(G) + 1] = w
      /\ \A i \in 1 .. Len(G) + 1 : i \in 1 .. Len(G) \/ i = Len(G) + 1
  <2>1. G \in Seq(S)
    OBVIOUS
  <2> HIDE DEF w
  <2> QED
    BY <1>1, <2>1, OneMore
<1>3. ~Untimed(w)
  BY DEF Untimed, Shown
<1>4. Open(G, words, n - 1) /\ Shown(w) /\ FitsCue(G2) /\ (G # <<>> => w.start - G[Len(G)].end <= GapMs)
  OBVIOUS
<1> HIDE DEF w, G2
<1>5. ASSUME NEW i \in 1 .. Len(W) PROVE Settled(W[i], words, n) /\ Apart(W[i], G2)
  <2>1. Settled(W[i], words, n - 1) /\ Apart(W[i], G)
    OBVIOUS
  <2>2. Gathered(W[i], words, n) /\ \A k \in 1 .. Len(W[i]) : W[i][k].id < w.id
    BY <2>1, GatheredLater DEF Settled, w
  <2>3. Beside(W[i], words, n)
    BY <1>1, <1>3, <2>1 DEF Beside, Settled, w
  <2>4. Apart(W[i], G2)
    BY <1>2, <2>1, <2>2 DEF Apart
  <2> QED
    BY <2>1, <2>2, <2>3, <2>4 DEF Settled
<1>6. Open(G2, words, n)
  <2>1. Gathered(G, words, n) /\ \A k \in 1 .. Len(G) : G[k].id < w.id
    BY <1>4, GatheredLater DEF Open, w
  <2>2. Since(G, words, n - 1)
    BY <1>4 DEF Open
  <2>3. Gathered(G2, words, n)
    <3>1. ASSUME NEW k \in 1 .. Len(G2) PROVE Shown(G2[k]) /\ \E j \in 1 .. n : words[j] = G2[k]
      BY <1>1, <1>2, <1>4, <2>1 DEF Gathered, w
    <3>2. ASSUME NEW k \in 1 .. Len(G2), NEW l \in 1 .. Len(G2), k < l PROVE G2[k].id < G2[l].id
      <4>1. k \in 1 .. Len(G) /\ (l \in 1 .. Len(G) \/ l = Len(G) + 1)
        BY <1>2, <3>2
      <4>2. \A m \in 1 .. Len(G) : k < m => G[k].id < G[m].id
        BY <2>1, <4>1 DEF Gathered
      <4> QED
        BY <1>2, <2>1, <3>2, <4>1, <4>2
    <3>3. ASSUME NEW k \in 1 .. Len(G2) - 1 PROVE G2[k + 1].start - G2[k].end <= GapMs
      <4>1. k \in 1 .. Len(G) /\ (k \in 1 .. Len(G) - 1 \/ k = Len(G))
        BY <1>2
      <4>2. CASE k = Len(G)
        <5>1. G # <<>>
          BY <4>1
        <5> QED
          BY <1>2, <1>4, <4>1, <4>2, <5>1
      <4>3. CASE k \in 1 .. Len(G) - 1
        <5>1. k + 1 \in 1 .. Len(G)
          BY <1>2, <4>3
        <5> QED
          BY <1>2, <2>1, <4>1, <4>3, <5>1 DEF Gathered
      <4> QED
        BY <4>1, <4>2, <4>3
    <3> QED
      BY <3>1, <3>2, <3>3 DEF Gathered
  <2>4. Since(G2, words, n)
    <3> SUFFICES ASSUME NEW j \in 1 .. n, Untimed(words[j]), NEW k \in 1 .. Len(G2)
                 PROVE  G2[k].id > words[j].id
      BY DEF Since
    <3>1. j \in 1 .. n - 1 /\ j < n /\ j \in 1 .. Len(words)
      BY <1>1, <1>3 DEF w
    <3>2. CASE k \in 1 .. Len(G)
      BY <1>2, <2>2, <3>1, <3>2 DEF Since
    <3>3. CASE k = Len(G) + 1
      <4>1. words[j].id < w.id /\ words[j].id \in Int /\ w.id \in Int
        BY <1>1, <3>1 DEF Narration, IsWord, w
      <4> QED
        BY <1>2, <3>3, <4>1
    <3> QED
      BY <1>2, <3>2, <3>3
  <2> QED
    BY <1>4, <2>3, <2>4 DEF Open
<1>7. ASSUME NEW j \in 1 .. n, Shown(words[j])
      PROVE  Holds(G2, words[j]) \/ \E i \in 1 .. Len(W) : Holds(W[i], words[j])
  <2>1. Holds(G2, w)
    BY <1>2 DEF Holds
  <2>2. \A v : Holds(G, v) => Holds(G2, v)
    BY <1>2 DEF Holds
  <2> QED
    BY <1>1, <1>7, <2>1, <2>2 DEF w
<1>8. Cat(FlattenSeq(W), G2) = FlattenSeq(ShownOf(words, n))
  <2> DEFINE F == FlattenSeq(W)
             R == FlattenSeq(ShownOf(words, n - 1))
  <2>1. F \in Seq(S) /\ G \in Seq(S) /\ <<w>> \in Seq(S)
    BY <1>1, FlattenSequences
  <2>2. FlattenSeq(ShownOf(words, n)) = R \o <<w>>
    BY ShownStep DEF w
  <2>3. R = F \o G
    BY DEF Cat
  <2> HIDE DEF F, R
  <2>4. G2 = G \o <<w>>
    BY <1>1, <2>1 DEF G2
  <2>5. F \o (G \o <<w>>) = (F \o G) \o <<w>>
    BY <2>1
  <2> QED
    BY <2>2, <2>3, <2>4, <2>5 DEF Cat, F
<1> QED
  BY <1>2, <1>5, <1>6, <1>7, <1>8 DEF w, G2

LEMMA GroupLengths ==
    ASSUME NEW S, \A w \in S : IsWord(w), NEW g \in Seq(S)
    PROVE  Lengths(g)
BY DEF Lengths, IsWord

\* Any one more word keeps the invariant of the pass.
LEMMA WordTaken ==
    ASSUME NEW words, NEW S, Narration(words, S), NEW n \in 1 .. Len(words),
           NEW W, NEW G, Kept(W, G, words, S, n - 1)
    PROVE  \E W2, G2 : /\ TakeWord(Pass(W, G), words[n], FPS) = Pass(W2, G2)
                       /\ Kept(W2, G2, words, S, n)
<1> DEFINE w == words[n]
<1>1. n - 1 \in Nat /\ w \in S /\ IsWord(w) /\ \A v \in S : IsWord(v)
  BY DEF Narration
<1>2. PICK W1 : Flush(Pass(W, G), FPS) = Pass(W1, <<>>) /\ Kept(W1, <<>>, words, S, n - 1)
  BY <1>1, Flushed
<1>3. CASE Blank(w)
  <2>1. TakeWord(Pass(W, G), w, FPS) = Pass(W, G)
    BY <1>3 DEF TakeWord
  <2>2. ~Shown(w) /\ ~Untimed(w)
    BY <1>3 DEF Shown, Untimed
  <2>3. Kept(W, G, words, S, n)
    BY <2>2, Skipped
  <2> QED
    BY <2>1, <2>3
<1>4. CASE Untimed(w)
  <2>1. TakeWord(Pass(W, G), w, FPS) = Pass(W1, <<>>)
    BY <1>2, <1>4 DEF TakeWord, Untimed
  <2>2. ~Shown(w)
    BY <1>4 DEF Shown, Untimed
  <2>3. Kept(W1, <<>>, words, S, n)
    BY <1>2, <2>2, Skipped
  <2> QED
    BY <2>1, <2>3
<1>5. CASE ~Blank(w) /\ Timed(w)
  <2>1. PICK Wa, Ga : /\ AfterGap(Pass(W, G), w, FPS) = Pass(Wa, Ga)
                      /\ Kept(Wa, Ga, words, S, n - 1)
                      /\ Ga # <<>> => w.start - Ga[Len(Ga)].end <= GapMs
    <3>1. CASE G # <<>> /\ w.start - G[Len(G)].end > GapMs
      <4>1. AfterGap(Pass(W, G), w, FPS) = Pass(W1, <<>>)
        BY <1>2, <3>1 DEF AfterGap, Pass
      <4> QED
        BY <1>2, <4>1
    <3>2. CASE ~(G # <<>> /\ w.start - G[Len(G)].end > GapMs)
      <4>1. AfterGap(Pass(W, G), w, FPS) = Pass(W, G)
        BY <3>2 DEF AfterGap, Pass
      <4>2. G # <<>> => w.start - G[Len(G)].end <= GapMs
        <5> SUFFICES ASSUME G # <<>> PROVE w.start - G[Len(G)].end <= GapMs
          OBVIOUS
        <5>1. G[Len(G)] \in S
          BY DEF Kept
        <5>2. w.start - G[Len(G)].end \in Int
          BY <1>1, <5>1 DEF IsWord
        <5> QED
          BY <3>2, <5>2 DEF GapMs
      <4> QED
        BY <4>1, <4>2
    <3> QED
      BY <3>1, <3>2
  <2>2. TakeWord(Pass(W, G), w, FPS) = Extend(Pass(Wa, Ga), w, FPS)
    BY <1>5, <2>1 DEF TakeWord
  <2>3. Pass(Wa, Ga).group = Ga /\ Ga \in Seq(S) 
    BY <2>1 DEF Pass, Kept
  <2>6. \A g : [Pass(Wa, Ga) EXCEPT !.group = g] = Pass(Wa, g)
    BY DEF Pass
  <2>4. CASE FitsCue(Append(Ga, w))
    <3>1. Extend(Pass(Wa, Ga), w, FPS) = Pass(Wa, Append(Ga, w))
      BY <2>3, <2>4, <2>6 DEF Extend
    <3>2. w.len <= MaxLineChars
      <4>1. /\ Append(Ga, w) \in Seq(S) /\ Len(Append(Ga, w)) = Len(Ga) + 1 /\ Len(Ga) \in Nat
            /\ Append(Ga, w)[Len(Ga) + 1] = w
        BY <1>1, <2>3
      <4>2. \A i \in 1 .. Len(Append(Ga, w)) : Append(Ga, w)[i].len <= MaxLineChars
        BY <1>1, <2>4, <4>1, GroupLengths, WordsFit
      <4> QED
        BY <4>1, <4>2
    <3>3. Shown(w)
      BY <1>5, <3>2 DEF Shown
    <3>4. Kept(Wa, Append(Ga, w), words, S, n)
      BY <2>1, <2>4, <3>3, JoinedAlone
    <3> QED
      BY <2>2, <3>1, <3>4
  <2>5. CASE ~FitsCue(Append(Ga, w))
    <3>1. PICK Wb : Flush(Pass(Wa, Ga), FPS) = Pass(Wb, <<>>) /\ Kept(Wb, <<>>, words, S, n - 1)
      BY <1>1, <2>1, Flushed
    <3>2. Extend(Pass(Wa, Ga), w, FPS) = Pass(Wb, IF FitsCue(<<w>>) THEN <<w>> ELSE <<>>)
      BY <2>3, <2>5, <3>1 DEF Extend, Pass
    <3>3. CASE FitsCue(<<w>>)
      <4>1. w.len <= MaxLineChars
        BY <1>1, <3>3, OneWordFits DEF IsWord
      <4>2. Shown(w) /\ Append(<<>>, w) = <<w>>
        BY <1>5, <4>1 DEF Shown
      <4>3. Kept(Wb, Append(<<>>, w), words, S, n)
        BY <3>1, <3>3, <4>2, JoinedAlone
      <4> QED
        BY <2>2, <3>2, <3>3, <4>2, <4>3
    <3>4. CASE ~FitsCue(<<w>>)
      <4>1. ~(w.len <= MaxLineChars)
        BY <1>1, <3>4, OneWordFits DEF IsWord
      <4>2. ~Shown(w)
        BY <4>1 DEF Shown
      <4>3. Kept(Wb, <<>>, words, S, n)
        BY <3>1, <4>2, Skipped
      <4> QED
        BY <2>2, <3>2, <3>4, <4>3
    <3> QED
      BY <3>3, <3>4
  <2> QED
    BY <2>4, <2>5
<1> QED
  BY <1>3, <1>4, <1>5 DEF Untimed

-----------------------------------------------------------------------------
(* The whole pass *)

Passes(S) == [cues : Seq({Cue(g, FPS) : g \in Seq(S)}), group : Seq(S)]
Empty == [cues |-> <<>>, group |-> <<>>]

Building(f, words) ==
    f = [n \in 0 .. Len(words) |-> IF n = 0 THEN Empty ELSE TakeWord(f[n - 1], words[n], FPS)]

LEMMA FlushTyped ==
    ASSUME NEW S, NEW st \in Passes(S)
    PROVE  Flush(st, FPS) \in Passes(S)
<1>1. st.group \in Seq(S) /\ Cue(st.group, FPS) \in {Cue(g, FPS) : g \in Seq(S)}
  BY DEF Passes
<1>2. Append(st.cues, Cue(st.group, FPS)) \in Seq({Cue(g, FPS) : g \in Seq(S)})
  BY <1>1 DEF Passes
<1> QED
  BY <1>2 DEF Passes, Flush

LEMMA TakeTyped ==
    ASSUME NEW S, NEW st \in Passes(S), NEW w \in S
    PROVE  TakeWord(st, w, FPS) \in Passes(S)
<1>1. \A s \in Passes(S) : Flush(s, FPS) \in Passes(S)
  BY FlushTyped
<1>2. \A s \in Passes(S), g \in Seq(S) : [s EXCEPT !.group = g] \in Passes(S)
  BY DEF Passes
<1>3. AfterGap(st, w, FPS) \in Passes(S)
  BY <1>1 DEF AfterGap
<1>4. PICK open \in Passes(S) : open = AfterGap(st, w, FPS)
  BY <1>3
<1>5. Append(open.group, w) \in Seq(S) /\ <<w>> \in Seq(S) /\ <<>> \in Seq(S)
  BY DEF Passes
<1>6. Extend(open, w, FPS) \in Passes(S)
  BY <1>1, <1>2, <1>5 DEF Extend
<1> QED
  BY <1>1, <1>4, <1>6 DEF TakeWord

LEMMA BuildingExists ==
    ASSUME NEW words, NEW S, Narration(words, S)
    PROVE  \E f : Building(f, words)
<1>1. PICK N \in Nat : N = Len(words)
  BY DEF Narration
<1> DEFINE C == 0 .. N
           V == Passes(S)
           Entry(f, n) == IF n = 0 THEN Empty ELSE TakeWord(f[n - 1], words[n], FPS)
           rank == [n \in C |-> n]
           Up == [f \in [C -> V] |-> [n \in C |-> Entry(f, n)]]
<1>2. rank \in [C -> 0 .. N]
  OBVIOUS
<1>3. ASSUME NEW f \in [C -> V], NEW n \in C PROVE Entry(f, n) \in V
  <2>1. Empty \in V
    BY DEF Empty, Passes
  <2>2. ASSUME n # 0 PROVE TakeWord(f[n - 1], words[n], FPS) \in V
    <3>1. n - 1 \in C /\ words[n] \in S
      BY <1>1, <2>2 DEF Narration
    <3>2. f[n - 1] \in V
      BY <3>1
    <3> HIDE DEF C, V
    <3> QED
      BY <3>1, <3>2, TakeTyped DEF V
  <2> QED
    BY <2>1, <2>2
<1>4. Up \in [[C -> V] -> [C -> V]]
  <2> HIDE DEF At, V
  <2> QED
    BY <1>3
<1>5. ASSUME NEW f \in [C -> V], NEW g \in [C -> V], NEW n \in C,
             \A d \in C : rank[d] < rank[n] => f[d] = g[d]
      PROVE  Up[f][n] = Up[g][n]
  <2>1. n # 0 => n - 1 \in C /\ rank[n - 1] < rank[n]
    OBVIOUS
  <2>2. Entry(f, n) = Entry(g, n)
    BY <1>5, <2>1
  <2> HIDE DEF At, V
  <2> QED
    BY <2>2
<1>8. V # {}
  <2>1. Empty \in V
    BY DEF Empty, Passes
  <2> QED
    BY <2>1
<1> HIDE DEF rank, Up
<1>6. PICK f \in [C -> V] : Up[f] = f
  <2> HIDE DEF C, V
  <2>1. ComputesFrom(Up, rank, N, C, V)
    BY <1>2, <1>4, <1>5, <1>8 DEF ComputesFrom
  <2> QED
    BY <2>1, RecursionTheorem
<1>7. f = [n \in C |-> Entry(f, n)]
  <2> HIDE DEF At, V
  <2> QED
    BY <1>6 DEF Up
<1> QED
  BY <1>1, <1>7 DEF Building

\* The invariant holds after each word, by induction over the words.
LEMMA BuildingKeeps ==
    ASSUME NEW words, NEW S, Narration(words, S), NEW f, Building(f, words)
    PROVE  \E W, G : f[Len(words)] = Pass(W, G) /\ Kept(W, G, words, S, Len(words))
<1>1. PICK N \in Nat : N = Len(words)
  BY DEF Narration
<1> DEFINE Upheld(n) == \E W, G : f[n] = Pass(W, G) /\ Kept(W, G, words, S, n)
           T == {n \in 0 .. N : Upheld(n)}
<1>2. 0 \in T
  <2>1. f[0] = Pass(<<>>, <<>>)
    <3>1. CuesOf(<<>>) = <<>>
      BY DEF CuesOf
    <3> QED
      BY <1>1, <3>1 DEF Building, Empty, Pass
  <2>2. Kept(<<>>, <<>>, words, S, 0)
    <3>1. ShownOf(words, 0) = <<>>
      BY DEF ShownOf
    <3>2. Cat(FlattenSeq(<<>>), <<>>) = FlattenSeq(ShownOf(words, 0))
      BY <3>1, FlattenEmpty DEF Cat
    <3>3. Open(<<>>, words, 0)
      BY DEF Open, Gathered, Since
    <3> QED
      BY <3>2, <3>3 DEF Kept
  <2> QED
    BY <2>1, <2>2
<1>3. ASSUME NEW n \in 1 .. N, n - 1 \in T PROVE n \in T
  <2>1. PICK W, G : f[n - 1] = Pass(W, G) /\ Kept(W, G, words, S, n - 1)
    BY <1>3
  <2>2. f[n] = TakeWord(f[n - 1], words[n], FPS)
    <3>1. n \in 0 .. Len(words) /\ n # 0
      BY <1>1
    <3> QED
      BY <3>1 DEF Building
  <2>3. \E W2, G2 : TakeWord(Pass(W, G), words[n], FPS) = Pass(W2, G2) /\ Kept(W2, G2, words, S, n)
    BY <1>1, <2>1, WordTaken
  <2>4. Upheld(n)
    BY <2>1, <2>2, <2>3
  <2> HIDE DEF Upheld
  <2> QED
    BY <2>4
<1>4. 0 .. N \subseteq T
  <2> HIDE DEF T
  <2> QED
    BY <1>2, <1>3, UpToInduction
<1>5. N \in T
  BY <1>4
<1> QED
  BY <1>1, <1>5

\* The cues are those of groups that keep to the invariant for all words.
LEMMA CuesAre ==
    ASSUME NEW words, NEW S, Narration(words, S)
    PROVE  \E W : BuildCues(words, FPS) = CuesOf(W) /\ Kept(W, <<>>, words, S, Len(words))
<1> DEFINE f == CHOOSE g : Building(g, words)
<1>1. Building(f, words)
  <2>1. \E g : Building(g, words)
    BY BuildingExists
  <2> QED
    BY <2>1
<1>2. BuildCues(words, FPS) = Flush(f[Len(words)], FPS).cues
  BY DEF BuildCues, Building, Empty
<1> HIDE DEF f
<1>3. PICK W, G : f[Len(words)] = Pass(W, G) /\ Kept(W, G, words, S, Len(words))
  BY <1>1, BuildingKeeps
<1>4. Len(words) \in Nat
  BY DEF Narration
<1>5. PICK W2 : Flush(Pass(W, G), FPS) = Pass(W2, <<>>) /\ Kept(W2, <<>>, words, S, Len(words))
  BY <1>3, <1>4, Flushed
<1>6. Pass(W2, <<>>).cues = CuesOf(W2)
  BY DEF Pass
<1> QED
  BY <1>2, <1>3, <1>5, <1>6

-----------------------------------------------------------------------------
(* The cue on screen *)

LEMMA FramesInOrder ==
    ASSUME NEW a \in Int, NEW b \in Int, a <= b
    PROVE  MsToFrame(a, FPS) \in Int /\ MsToFrame(b, FPS) \in Int
           /\ MsToFrame(a, FPS) <= MsToFrame(b, FPS)
<1>1. MsToFrame(a, FPS) = (2 * (a * 30) + 1000) \div 2000 /\ MsToFrame(b, FPS) = (2 * (b * 30) + 1000) \div 2000
  BY DEF MsToFrame, Round, FPS
<1>2. ASSUME NEW x \in Int, NEW y \in Int, x <= y
      PROVE  x \div 2000 \in Int /\ y \div 2000 \in Int /\ x \div 2000 <= y \div 2000
  BY <1>2
<1>3. 2 * (a * 30) + 1000 \in Int /\ 2 * (b * 30) + 1000 \in Int /\ 2 * (a * 30) + 1000 <= 2 * (b * 30) + 1000
  OBVIOUS
<1> QED
  BY <1>1, <1>2, <1>3

\* While a word is spoken the clock is past the frame it starts in and before the one it ends in.
LEMMA FramesUnder ==
    ASSUME NEW start \in Int, NEW end \in Int, NEW f \in Int,
           start * FPS <= 1000 * f, 1000 * f <= end * FPS - 500
    PROVE  MsToFrame(start, FPS) <= f /\ f < MsToFrame(end, FPS)
<1>1. MsToFrame(start, FPS) = (2 * (start * 30) + 1000) \div 2000
  BY DEF MsToFrame, Round, FPS
<1>2. MsToFrame(end, FPS) = (2 * (end * 30) + 1000) \div 2000
  BY DEF MsToFrame, Round, FPS
<1>3. start * 30 <= 1000 * f /\ 1000 * f <= end * 30 - 500
  BY DEF FPS
<1>4. PICK x \in Int, y \in Int : x = 2 * (start * 30) + 1000 /\ y = 2 * (end * 30) + 1000
  OBVIOUS
<1>5. x <= 2000 * f + 1000 /\ 2000 * f + 2000 <= y
  BY <1>3, <1>4
<1>6. x \div 2000 <= f
  BY <1>5
<1>7. f < y \div 2000
  BY <1>5
<1> QED
  BY <1>1, <1>2, <1>4, <1>6, <1>7

\* Two shown words, as they follow one another in a narration.
LEMMA WordsFollow ==
    ASSUME NEW words, NEW S, Narration(words, S), Follow(words),
           NEW a \in ToSet(words), NEW b \in ToSet(words), Shown(a), Shown(b), a.id < b.id
    PROVE  a.end <= b.start
<1>1. PICK i \in 1 .. Len(words) : words[i] = a
  BY DEF Narration, ToSet
<1>2. PICK j \in 1 .. Len(words) : words[j] = b
  BY DEF Narration, ToSet
<1>3. Len(words) \in Nat /\ DOMAIN words = 1 .. Len(words) /\ a.id \in Int /\ b.id \in Int
  BY <1>1, <1>2 DEF Narration, IsWord
<1>4. i < j
  <2> SUFFICES ASSUME ~(i < j) PROVE FALSE
    OBVIOUS
  <2>1. i = j \/ j < i
    BY <1>3
  <2>2. ~(b.id < a.id)
    BY <1>3
  <2> QED
    BY <1>1, <1>2, <1>3, <2>1, <2>2 DEF Narration
<1> QED
  BY <1>1, <1>2, <1>3, <1>4 DEF Follow

\* The words of a group lie between the start of its first and the end of its last.
LEMMA GroupSpans ==
    ASSUME NEW words, NEW S, Narration(words, S), Follow(words),
           NEW g \in Seq(S), Gathered(g, words, Len(words)), NEW k \in 1 .. Len(g)
    PROVE  /\ g[k] \in ToSet(words) /\ g[1] \in ToSet(words) /\ g[Len(g)] \in ToSet(words)
           /\ IsWord(g[k]) /\ IsWord(g[1]) /\ IsWord(g[Len(g)])
           /\ g[1].start <= g[k].start /\ g[k].end <= g[Len(g)].end
<1>1. PICK m \in Nat : m = Len(g)
  OBVIOUS
<1>2. 1 \in 1 .. m /\ m \in 1 .. m /\ k \in 1 .. m
  BY <1>1
<1>3. \A l \in 1 .. m : g[l] \in ToSet(words) /\ IsWord(g[l]) /\ Shown(g[l])
  <2>1. Len(words) \in Nat /\ DOMAIN words = 1 .. Len(words)
    BY DEF Narration
  <2> QED
    BY <1>1, <2>1 DEF Gathered, Narration, ToSet
<1>4. \A l \in 1 .. m : g[l].start < g[l].end /\ g[l].start \in Int /\ g[l].end \in Int
  BY <1>3 DEF Shown, Timed, IsWord
<1>5. k = 1 \/ g[1].end <= g[k].start
  <2>1. k # 1 => g[1].id < g[k].id
    BY <1>1, <1>2 DEF Gathered
  <2> QED
    BY <1>2, <1>3, <2>1, WordsFollow
<1>6. k = m \/ g[k].end <= g[m].start
  <2>1. k # m => g[k].id < g[m].id
    BY <1>1, <1>2 DEF Gathered
  <2> QED
    BY <1>2, <1>3, <2>1, WordsFollow
<1>7. g[1].start <= g[k].start
  BY <1>2, <1>4, <1>5
<1>8. g[k].end <= g[m].end
  BY <1>2, <1>4, <1>6
<1> QED
  BY <1>1, <1>2, <1>3, <1>7, <1>8

\* The cue on screen while a word is spoken is the one that has it.
LEMMA OnScreenUnder ==
    ASSUME NEW words, NEW S, Narration(words, S), Follow(words),
           NEW W, Kept(W, <<>>, words, S, Len(words)),
           NEW i \in 1 .. Len(words), Shown(words[i]), NEW f \in Int,
           words[i].start * FPS <= 1000 * f, 1000 * f <= words[i].end * FPS - 500
    PROVE  \E c \in ToSet(SelectCue(CuesOf(W), f)) : words[i] \in ToSet(c.words)
<1> DEFINE w == words[i]
           cues == CuesOf(W)
           n == Len(words)
           active == {p \in DOMAIN cues : cues[p].start <= f /\ f < cues[p].end}
<1>1. W \in Seq(Seq(S)) /\ Len(W) \in Nat /\ DOMAIN cues = 1 .. Len(W)
      /\ \A p \in 1 .. Len(W) : W[p] \in Seq(S) /\ cues[p] = Cue(W[p], FPS) /\ cues[p].words = W[p]
  BY DEF Kept, CuesOf, Cue
<1>2. \A p \in 1 .. Len(W) : /\ W[p] # <<>> /\ Gathered(W[p], words, n)
                             /\ Len(W[p]) \in Nat /\ 1 \in 1 .. Len(W[p]) /\ Len(W[p]) \in 1 .. Len(W[p])
  <2> SUFFICES ASSUME NEW p \in 1 .. Len(W)
               PROVE  /\ W[p] # <<>> /\ Gathered(W[p], words, n)
                      /\ Len(W[p]) \in Nat /\ 1 \in 1 .. Len(W[p]) /\ Len(W[p]) \in 1 .. Len(W[p])
    OBVIOUS
  <2>1. W[p] # <<>> /\ Gathered(W[p], words, n)
    BY DEF Kept, Settled
  <2>2. Len(W[p]) \in Nat /\ Len(W[p]) # 0
    BY <1>1, <2>1
  <2> QED
    BY <2>1, <2>2
<1>3. i \in 1 .. n /\ w \in S /\ IsWord(w) /\ w \in ToSet(words)
  BY DEF Narration, ToSet
<1>4. PICK p \in 1 .. Len(W) : Holds(W[p], w)
  BY <1>3 DEF Kept, Holds
<1>5. PICK k \in 1 .. Len(W[p]) : W[p][k] = w
  BY <1>4 DEF Holds
<1> DEFINE first == W[p][1]
           last == W[p][Len(W[p])]
<1>6. IsWord(first) /\ IsWord(last) /\ first.start <= w.start /\ w.end <= last.end
  BY <1>1, <1>2, <1>5, GroupSpans
<1>7. cues[p].start = MsToFrame(first.start, FPS) /\ cues[p].end = MsToFrame(last.end, FPS)
  <2>1. \A g : /\ Cue(g, FPS).start = MsToFrame(g[1].start, FPS)
               /\ Cue(g, FPS).end = MsToFrame(g[Len(g)].end, FPS)
    BY DEF Cue
  <2>2. cues[p] = Cue(W[p], FPS)
    BY <1>1
  <2> HIDE DEF cues
  <2> QED
    BY <2>1, <2>2
<1>8. MsToFrame(w.start, FPS) <= f /\ f < MsToFrame(w.end, FPS)
  BY <1>3, FramesUnder DEF IsWord
<1>9. p \in active
  <2>1. /\ MsToFrame(first.start, FPS) \in Int /\ MsToFrame(w.start, FPS) \in Int
        /\ MsToFrame(first.start, FPS) <= MsToFrame(w.start, FPS)
    BY <1>3, <1>6, FramesInOrder DEF IsWord
  <2>2. /\ MsToFrame(last.end, FPS) \in Int /\ MsToFrame(w.end, FPS) \in Int
        /\ MsToFrame(w.end, FPS) <= MsToFrame(last.end, FPS)
    BY <1>3, <1>6, FramesInOrder DEF IsWord
  <2> HIDE DEF first, last, cues, w
  <2>3. cues[p].start <= f /\ f < cues[p].end
    BY <1>7, <1>8, <2>1, <2>2
  <2> QED
    BY <1>1, <2>3
<1>10. ASSUME NEW q \in 1 .. Len(W), q < p PROVE q \notin active
  <2> DEFINE ending == W[q][Len(W[q])]
  <2>1. ending.id < w.id
    BY <1>2, <1>5, <1>10 DEF Kept, Apart
  <2>2. ending \in ToSet(words) /\ IsWord(ending)
    BY <1>1, <1>2, GroupSpans
  <2>3. Shown(ending)
    BY <1>2 DEF Gathered
  <2>4. ending.end <= w.start
    BY <1>3, <2>1, <2>2, <2>3, WordsFollow
  <2>5. /\ MsToFrame(ending.end, FPS) \in Int /\ MsToFrame(w.start, FPS) \in Int
        /\ MsToFrame(ending.end, FPS) <= MsToFrame(w.start, FPS)
    BY <1>3, <2>2, <2>4, FramesInOrder DEF IsWord
  <2>6. cues[q].end = MsToFrame(ending.end, FPS)
    BY <1>1 DEF Cue
  <2> HIDE DEF ending, cues, w
  <2>7. ~(f < cues[q].end)
    BY <1>8, <2>5, <2>6
  <2> QED
    BY <2>7
<1>11. Min(active) = p
  <2>1. \A q \in active : q \in 1 .. Len(W) /\ p <= q
    <3> SUFFICES ASSUME NEW q \in active PROVE q \in 1 .. Len(W) /\ p <= q
      OBVIOUS
    <3>1. q \in 1 .. Len(W)
      BY <1>1
    <3> HIDE DEF active
    <3>2. ~(q < p)
      BY <1>10, <3>1
    <3> QED
      BY <1>1, <3>1, <3>2
  <2>2. \A q \in active : (\A r \in active : q <= r) => q = p
    <3> HIDE DEF active
    <3> QED
      BY <1>1, <1>9, <2>1
  <2> HIDE DEF active
  <2> QED
    BY <1>9, <2>1, <2>2 DEF Min
<1>12. SelectCue(cues, f) = <<cues[p]>>
  BY <1>9, <1>11 DEF SelectCue
<1>13. cues[p] \in ToSet(<<cues[p]>>) /\ w \in ToSet(cues[p].words)
  <2>1. DOMAIN W[p] = 1 .. Len(W[p])
    BY <1>1
  <2> HIDE DEF cues, w
  <2> QED
    BY <1>1, <1>5, <2>1 DEF ToSet
<1> QED
  BY <1>12, <1>13

-----------------------------------------------------------------------------
(* The subtitles of a narration *)

\* The subtitles keep to what is said of them, for the words of any narration.
LEMMA CuesCoverThem ==
    ASSUME NEW words, NEW S, Narration(words, S)
    PROVE  CuesCover(BuildCues(words, FPS), words, FPS)
<1>1. PICK W : BuildCues(words, FPS) = CuesOf(W) /\ Kept(W, <<>>, words, S, Len(words))
  BY CuesAre
<1> DEFINE cues == CuesOf(W)
           n == Len(words)
<1>2. n \in Nat /\ DOMAIN words = 1 .. n /\ \A i \in 1 .. n : words[i] \in S /\ IsWord(words[i])
  BY DEF Narration
<1>3. /\ W \in Seq(Seq(S)) /\ Len(W) \in Nat /\ DOMAIN cues = 1 .. Len(W)
      /\ \A p \in 1 .. Len(W) : W[p] \in Seq(S) /\ cues[p].words = W[p]
                                /\ cues[p].split = WrapBalanced(W[p], MaxLineChars, MaxLines)
  BY <1>1 DEF Kept, CuesOf, Cue
<1>4. FlattenSeq([i \in DOMAIN cues |-> cues[i].words])
          = FlattenSeq([i \in DOMAIN words |-> IF Shown(words[i]) THEN <<words[i]>> ELSE <<>>])
  <2>1. [i \in DOMAIN cues |-> cues[i].words] = W
    <3>1. [i \in DOMAIN cues |-> cues[i].words] = [i \in 1 .. Len(W) |-> W[i]]
      <4> HIDE DEF cues
      <4> QED
        BY <1>3
    <3>2. W = [i \in 1 .. Len(W) |-> W[i]]
      BY <1>3, SequenceIs
    <3> QED
      BY <3>1, <3>2
  <2>2. [i \in DOMAIN words |-> IF Shown(words[i]) THEN <<words[i]>> ELSE <<>>] = ShownOf(words, n)
    BY <1>2 DEF ShownOf
  <2>3. FlattenSeq(W) \o <<>> = FlattenSeq(ShownOf(words, n))
    BY <1>1 DEF Kept, Cat
  <2>4. FlattenSeq(W) \in Seq(S)
    BY <1>3, FlattenSequences
  <2> QED
    BY <2>1, <2>2, <2>3, <2>4
<1>5. ASSUME NEW p \in DOMAIN cues
      PROVE  LET c == cues[p] IN
             /\ Joined(c.words, 1, c.split) <= MaxLineChars
             /\ Joined(c.words, c.split + 1, Len(c.words)) <= MaxLineChars
             /\ \A k \in 1 .. Len(c.words) - 1 :
                    c.words[k + 1].start - c.words[k].end <= GapMs
             /\ \A j \in DOMAIN words :
                    ~Blank(words[j]) /\ ~Timed(words[j])
                        => \/ \A k \in DOMAIN c.words : c.words[k].id < words[j].id
                           \/ \A k \in DOMAIN c.words : c.words[k].id > words[j].id
  <2> DEFINE g == W[p]
             split == WrapBalanced(g, MaxLineChars, MaxLines)
  <2>1. p \in 1 .. Len(W) /\ g \in Seq(S) /\ cues[p].words = g /\ cues[p].split = split
    BY <1>3
  <2>2. Settled(g, words, n)
    BY <1>1, <2>1 DEF Kept
  <2>3. Lengths(g)
    BY <2>1, GroupLengths DEF Narration
  <2>4. Joined(g, 1, split) <= MaxLineChars /\ Joined(g, split + 1, Len(g)) <= MaxLineChars
    BY <2>2, <2>3, WrapKeepsToLines DEF Settled
  <2>5. \A k \in 1 .. Len(g) - 1 : g[k + 1].start - g[k].end <= GapMs
    BY <2>2 DEF Settled, Gathered
  <2>6. \A j \in DOMAIN words :
            ~Blank(words[j]) /\ ~Timed(words[j])
                => \/ \A k \in DOMAIN g : g[k].id < words[j].id
                   \/ \A k \in DOMAIN g : g[k].id > words[j].id
    <3>1. DOMAIN g = 1 .. Len(g)
      BY <2>1
    <3> QED
      BY <1>2, <2>2, <3>1 DEF Settled, Beside, Untimed
  <2> HIDE DEF cues, g, split
  <2> QED
    BY <2>1, <2>4, <2>5, <2>6
<1>6. ASSUME Follow(words), NEW i \in DOMAIN words,
             NEW f \in MsToFrame(words[i].start, FPS) .. MsToFrame(words[i].end, FPS),
             Shown(words[i]), words[i].start * FPS <= 1000 * f,
             1000 * f <= words[i].end * FPS - 500
      PROVE  \E c \in ToSet(SelectCue(cues, f)) : words[i] \in ToSet(c.words)
  <2>1. f \in Int /\ i \in 1 .. n
    BY <1>2
  <2> HIDE DEF cues
  <2> QED
    BY <1>1, <1>6, <2>1, OnScreenUnder DEF cues
<1> HIDE DEF cues
<1> QED
  BY <1>1, <1>4, <1>5, <1>6 DEF CuesCover, cues

\* The words of a take, and any run of them.
LEMMA RunOfWords ==
    ASSUME NEW take, Recordable(take), NEW i \in DOMAIN take.words, NEW j \in DOMAIN take.words
    PROVE  Narration(SubSeq(take.words, i, j), ToSet(take.words))
<1>1. PICK all : all = take.words
  OBVIOUS
<1>2. PICK S : S = ToSet(all)
  OBVIOUS
<1>3. PICK N : N = Len(all)
  OBVIOUS
<1>4. all \in Seq(S)
  BY <1>1, <1>2 DEF Recordable
<1>5. N \in Nat /\ DOMAIN all = 1 .. N
  BY <1>3, <1>4
<1>6. \A k \in 1 .. N : /\ IsWord(all[k])
                        /\ k > 1 => all[k - 1].id < all[k].id
  BY <1>1, <1>5 DEF Recordable, IsWord
<1>7. \A w \in S : IsWord(w)
  BY <1>2, <1>5, <1>6 DEF ToSet
<1>8. \A k, l \in 1 .. N : k < l => all[k].id < all[l].id
  <2> DEFINE v == [k \in 1 .. N |-> all[k].id]
  <2>1. \A k \in 1 .. N : v[k] \in Int
    BY <1>6 DEF IsWord
  <2>2. \A k \in 1 .. N : k > 1 => v[k - 1] < v[k]
    <3> SUFFICES ASSUME NEW k \in 1 .. N, k > 1 PROVE v[k - 1] < v[k]
      OBVIOUS
    <3>1. k - 1 \in 1 .. N
      BY <1>5
    <3> QED
      BY <1>6, <3>1
  <2>3. \A k, l \in 1 .. N : k < l => v[k] < v[l]
    <3> HIDE DEF v
    <3> QED
      BY <1>5, <2>1, <2>2, StrictlyAscending
  <2> QED
    BY <2>3
<1>9. i \in 1 .. N /\ j \in 1 .. N
  BY <1>1, <1>5
<1> DEFINE words == SubSeq(all, i, j)
<1>10. /\ words \in Seq(S) /\ Len(words) \in Nat
       /\ \A k \in 1 .. Len(words) : words[k] = all[i + k - 1] /\ i + k - 1 \in 1 .. N
  BY <1>3, <1>4, <1>5, <1>9, SubSeqProperties
<1> HIDE DEF words
<1>11. \A k, l \in 1 .. Len(words) : k < l => words[k].id < words[l].id
  <2> SUFFICES ASSUME NEW k \in 1 .. Len(words), NEW l \in 1 .. Len(words), k < l
               PROVE  words[k].id < words[l].id
    OBVIOUS
  <2>1. i + k - 1 \in 1 .. N /\ i + l - 1 \in 1 .. N /\ i + k - 1 < i + l - 1
    BY <1>9, <1>10
  <2> QED
    BY <1>8, <1>10, <2>1
<1>12. Narration(words, S)
  BY <1>7, <1>10, <1>11 DEF Narration
<1> QED
  BY <1>1, <1>2, <1>12 DEF words

\* No word that can be shown is left out of the subtitles, each is on screen while it is spoken
\* where the words follow one another, and every cue keeps to its lines and spans no silence,
\* for any run of the words of any narration.
THEOREM CuesCoverTheWords == Spec => []CuesCoverWords
<1>1. ASSUME FInv PROVE CuesCoverWords
  <2> SUFFICES ASSUME NEW tl \in Timelines, NEW i \in DOMAIN tl.words, NEW j \in DOMAIN tl.words
               PROVE  CuesCover(BuildCues(SubSeq(tl.words, i, j), FPS), SubSeq(tl.words, i, j), FPS)
    BY DEF CuesCoverWords
  <2>1. PICK f \in TimelinesHere : tl = LocalTimeline(f[2])
    BY DEF Timelines
  <2>2. f \in Files /\ f[1] = "timelines" /\ dir[f] # 0
    BY <2>1 DEF TimelinesHere, TimelinesOf
  <2>3. f = <<"timelines", f[2]>>
    <3>1. PICK v : f \in Writes(v)
      BY <1>1, <2>2 DEF FInv, Written
    <3>2. f = <<"script", "">> \/ f = <<"assets", "soundtrack">> \/ (\E id : f = <<"audio", id>>)
          \/ \E id : f = <<"timelines", id>>
      BY <3>1 DEF Writes
    <3>3. /\ f # <<"script", "">> /\ f # <<"assets", "soundtrack">>
          /\ \A id : f # <<"audio", id>>
      <4>1. ASSUME f = <<"script", "">> PROVE FALSE
        <5>1. f[1] = "script"
          BY <4>1
        <5> QED
          BY <2>2, <5>1
      <4>2. ASSUME f = <<"assets", "soundtrack">> PROVE FALSE
        <5>1. f[1] = "assets"
          BY <4>2
        <5> QED
          BY <2>2, <5>1
      <4>3. ASSUME NEW id, f = <<"audio", id>> PROVE FALSE
        <5>1. f[1] = "audio"
          BY <4>3
        <5> QED
          BY <2>2, <5>1
      <4> QED
        BY <4>1, <4>2, <4>3
    <3>4. PICK id : f = <<"timelines", id>>
      BY <3>2, <3>3
    <3> QED
      BY <3>4
  <2>4. PICK id : id = f[2]
    OBVIOUS
  <2>5. MadeOfTake(tl) /\ tl # NoTimeline
    BY <1>1, <2>1, <2>2, <2>3, <2>4, TimelineIs
  <2>6. Recordable(tl.take) /\ tl.words = tl.take.words
    BY <2>5, TakeIs
  <2>7. Narration(SubSeq(tl.words, i, j), ToSet(tl.words))
    BY <2>6, RunOfWords
  <2> QED
    BY <2>7, CuesCoverThem
<1> QED
  BY <1>1, FramesInv, PTL
=============================================================================
