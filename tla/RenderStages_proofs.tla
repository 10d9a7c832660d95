------------------------ MODULE RenderStages_proofs -------------------------
(***************************************************************************)
(* Proofs about RenderStages for every history of the workspace, any number *)
(* of shorts, attempts and failures, whichever may happen.                  *)
(*                                                                         *)
(* The working directory is never emptied, and the endpoint never cuts the  *)
(* file it writes to.  That nothing old gets into what is published is the  *)
(* work of three checks far apart: what sync has verified is what the       *)
(* manifest lists, and nothing is in the directory that no manifest up to   *)
(* it lists; what is rendered is made of that, or warned about; and what is *)
(* published is, chunk by chunk from the first, what was rendered.          *)
(*                                                                         *)
(* And about RenderedFrames, what the frames show, for scripts and          *)
(* timelines of any length: one segment at a time, as its preview showed it, *)
(* in scenes that only grow.                                                *)
(***************************************************************************)
EXTENDS RenderedFrames, FiniteSetTheorems, WellFoundedInduction, TLAPS

-----------------------------------------------------------------------------
(* Natural numbers: the least of a set, and induction, as one proves things  *)
(* of sets of numbers.                                                       *)

LEMMA LeastElement ==
    ASSUME NEW T, T \subseteq Nat, T # {}
    PROVE  \E n \in T : \A m \in T : n <= m
<1> DEFINE Less == {ss \in Nat \X Nat : ss[1] < ss[2]}
<1>1. IsWellFoundedOn(Less, Nat)
  BY NatLessThanWellFounded DEF OpToRel
<1>2. PICK n \in T : \A m \in T : ~(<<m, n>> \in Less)
  <2> HIDE DEF Less
  <2> QED
    BY <1>1, WFMin
<1>3. \A m \in T : ~(m < n)
  BY <1>2
<1> QED
  BY <1>3

\* What holds of zero, and of n + 1 when it holds of n, holds of every number.
LEMMA NatSetInduction ==
    ASSUME NEW T, T \subseteq Nat, 0 \in T, \A n \in T : n + 1 \in T
    PROVE  T = Nat
<1> SUFFICES ASSUME Nat \ T # {} PROVE FALSE
  OBVIOUS
<1>1. PICK n \in Nat \ T : \A m \in Nat \ T : n <= m
  BY LeastElement
<1>2. n # 0 /\ n - 1 \in Nat
  BY <1>1
<1>3. n - 1 \in T
  BY <1>1, <1>2
<1> QED
  BY <1>1, <1>2, <1>3

LEMMA GreatestElement ==
    ASSUME NEW N \in Nat, NEW T, T \subseteq 1 .. N, T # {}
    PROVE  \E n \in T : \A m \in T : m <= n
<1> DEFINE Gaps == {N - n : n \in T}
<1>1. Gaps \subseteq Nat /\ Gaps # {}
  <2>1. \A n \in T : N - n \in Nat
    OBVIOUS
  <2> QED
    BY <2>1
<1>2. PICK g \in Gaps : \A h \in Gaps : g <= h
  <2> HIDE DEF Gaps
  <2> QED
    BY <1>1, LeastElement
<1>3. PICK n \in T : g = N - n
  BY <1>2
<1>4. \A m \in T : N - n <= N - m
  BY <1>2, <1>3
<1> QED
  BY <1>3, <1>4

LEMMA RangeFinite ==
    ASSUME NEW n \in Int
    PROVE  IsFiniteSet(1 .. n)
BY FS_Interval

\* The members of a finite set of numbers can be counted off in their order.
LEMMA NthExists ==
    ASSUME NEW N \in Nat, NEW places, places \subseteq 1 .. N,
           NEW n \in 1 .. Cardinality(places)
    PROVE  Nth(places, n) \in places
<1> DEFINE UpTo(S, i) == {j \in S : j <= i}
           Counts(c) == \A S \in SUBSET (1 .. N) : Cardinality(S) = c =>
                            \A k \in 1 .. c : \E i \in S : Cardinality(UpTo(S, i)) = k
           T == {c \in Nat : Counts(c)}
<1>1. IsFiniteSet(1 .. N)
  BY RangeFinite
<1>2. 0 \in T
  OBVIOUS
<1>3. ASSUME NEW c \in T PROVE c + 1 \in T
  <2> SUFFICES ASSUME NEW S \in SUBSET (1 .. N), Cardinality(S) = c + 1, NEW k \in 1 .. (c + 1)
               PROVE  \E i \in S : Cardinality(UpTo(S, i)) = k
    OBVIOUS
  <2>1. IsFiniteSet(S)
    BY <1>1, FS_Subset
  <2>2. S # {}
    BY FS_EmptySet, <2>1
  <2>3. PICK m \in S : \A j \in S : j <= m
    BY <2>2, GreatestElement
  <2>4. CASE k = c + 1
    <3>1. UpTo(S, m) = S
      BY <2>3
    <3> QED
      BY <2>4, <3>1
  <2>5. CASE k # c + 1
    <3>1. Cardinality(S \ {m}) = c
      BY <2>1, FS_RemoveElement
    <3>2. PICK i \in S \ {m} : Cardinality(UpTo(S \ {m}, i)) = k
      <4>1. Counts(c) /\ k \in 1 .. c
        BY <1>3, <2>5
      <4>2. S \ {m} \in SUBSET (1 .. N)
        OBVIOUS
      <4> HIDE DEF UpTo
      <4> QED
        BY <3>1, <4>1, <4>2
    <3>3. UpTo(S \ {m}, i) = UpTo(S, i)
      BY <2>3, <3>2
    <3> QED
      BY <3>2, <3>3
  <2> QED
    BY <2>4, <2>5
<1>4. T = Nat
  <2> HIDE DEF T
  <2>1. T \subseteq Nat
    BY DEF T
  <2> QED
    BY <1>2, <1>3, <2>1, NatSetInduction
<1>5. IsFiniteSet(places)
  BY <1>1, FS_Subset
<1>6. Cardinality(places) \in T
  BY <1>4, <1>5, FS_CardinalityType
<1>7. \E i \in places : Cardinality(UpTo(places, i)) = n
  BY <1>6
<1> QED
  BY <1>7 DEF Nth

-----------------------------------------------------------------------------
(* Finite sets *)

LEMMA ImageFinite ==
    ASSUME NEW S, IsFiniteSet(S), NEW f, DOMAIN f = S
    PROVE  IsFiniteSet({f[x] : x \in S}) /\ Cardinality({f[x] : x \in S}) <= Cardinality(S)
<1> DEFINE g == [x \in S |-> f[x]]
<1>1. g \in Surjection(S, {f[x] : x \in S})
  BY DEF Surjection
<1> QED
  BY <1>1, FS_Surjection

LEMMA SequenceFinite ==
    ASSUME NEW s, IsSequence(s)
    PROVE  /\ Len(s) \in Nat /\ DOMAIN s = 1 .. Len(s)
           /\ IsFiniteSet(DOMAIN s) /\ IsFiniteSet(ToSet(s))
<1>1. Len(s) \in Nat /\ DOMAIN s = 1 .. Len(s)
  BY DEF IsSequence
<1>2. IsFiniteSet(DOMAIN s)
  BY <1>1, RangeFinite
<1>3. ToSet(s) = {s[x] : x \in DOMAIN s}
  BY DEF ToSet
<1> QED
  BY <1>1, <1>2, <1>3, ImageFinite

\* The positions of markers, and so their numbers, are finitely many.
LEMMA MarksFinite ==
    ASSUME NEW segs, IsSequence(segs), \A s \in ToSet(segs) : IsSequence(s.markers)
    PROVE  /\ IsFiniteSet(Marks(segs)) /\ IsFiniteSet(Numbers(segs))
           /\ IsFiniteSet(Spellings(segs))
<1> DEFINE Row(i) == {<<i, k>> : k \in DOMAIN segs[i].markers}
           Rows(n) == UNION {Row(i) : i \in 1 .. n}
           T == {n \in Nat : n <= Len(segs) => IsFiniteSet(Rows(n))}
<1>1. Len(segs) \in Nat /\ DOMAIN segs = 1 .. Len(segs)
  BY SequenceFinite
<1>2. ASSUME NEW i \in DOMAIN segs PROVE IsFiniteSet(Row(i))
  <2> DEFINE g == [k \in DOMAIN segs[i].markers |-> <<i, k>>]
  <2>1. IsFiniteSet(DOMAIN segs[i].markers)
    BY SequenceFinite DEF ToSet
  <2>2. IsFiniteSet({g[k] : k \in DOMAIN segs[i].markers})
    <3>1. DOMAIN g = DOMAIN segs[i].markers
      OBVIOUS
    <3> HIDE DEF g
    <3> QED
      BY <2>1, <3>1, ImageFinite
  <2>3. Row(i) = {g[k] : k \in DOMAIN segs[i].markers}
    OBVIOUS
  <2> QED
    BY <2>2, <2>3
<1>3. 0 \in T
  <2>1. Rows(0) = {}
    OBVIOUS
  <2> QED
    BY <2>1, FS_EmptySet
<1>4. ASSUME NEW n \in T PROVE n + 1 \in T
  <2> SUFFICES ASSUME n + 1 <= Len(segs) PROVE IsFiniteSet(Rows(n + 1))
    OBVIOUS
  <2>1. IsFiniteSet(Rows(n)) /\ IsFiniteSet(Row(n + 1))
    <3>1. n <= Len(segs) /\ n + 1 \in DOMAIN segs
      BY <1>1
    <3>2. IsFiniteSet(Rows(n))
      BY <3>1
    <3> HIDE DEF Row
    <3> QED
      BY <1>2, <3>1, <3>2
  <2>2. Rows(n + 1) = Rows(n) \cup Row(n + 1)
    <3>1. 1 .. (n + 1) = (1 .. n) \cup {n + 1}
      OBVIOUS
    <3> HIDE DEF Row
    <3> QED
      BY <3>1
  <2>3. IsFiniteSet(Rows(n) \cup Row(n + 1))
    <3> HIDE DEF Rows, Row
    <3> QED
      BY <2>1, FS_Union
  <2> QED
    BY <2>2, <2>3
<1>5. T = Nat
  <2> HIDE DEF T
  <2>1. T \subseteq Nat
    BY DEF T
  <2> QED
    BY <1>3, <1>4, <2>1, NatSetInduction
<1>6. IsFiniteSet(Rows(Len(segs)))
  BY <1>1, <1>5
<1>7. IsFiniteSet(Marks(segs))
  BY <1>1, <1>6 DEF Marks
<1>8. IsFiniteSet(Numbers(segs))
  <2> DEFINE g == [p \in Marks(segs) |-> Marker(segs, p).n]
  <2>1. DOMAIN g = Marks(segs) /\ Numbers(segs) = {g[p] : p \in Marks(segs)}
    BY DEF Numbers
  <2> HIDE DEF g
  <2> QED
    BY <1>7, <2>1, ImageFinite
<1>9. IsFiniteSet(Spellings(segs))
  <2> DEFINE g == [p \in Marks(segs) |-> Marker(segs, p).text]
  <2>1. DOMAIN g = Marks(segs) /\ Spellings(segs) = {g[p] : p \in Marks(segs)}
    BY DEF Spellings
  <2> HIDE DEF g
  <2> QED
    BY <1>7, <2>1, ImageFinite
<1> QED
  BY <1>7, <1>8, <1>9

\* Numbers that come in sequence leave none out: as many as there are, from one on.
LEMMA NoNumberLeftOut ==
    ASSUME NEW segs, IsSequence(segs), InSequence(segs),
           \A s \in ToSet(segs) :
               IsSequence(s.markers) /\ \A m \in ToSet(s.markers) : m.n \in Nat,
           NEW n \in 1 .. Cardinality(Numbers(segs))
    PROVE  n \in Numbers(segs)
<1> SUFFICES ASSUME n \notin Numbers(segs) PROVE FALSE
  OBVIOUS
<1>1. IsFiniteSet(Numbers(segs))
  BY MarksFinite
<1>2. Cardinality(Numbers(segs)) \in Nat
  BY <1>1, FS_CardinalityType
<1>3. Numbers(segs) \subseteq 1 .. (n - 1)
  <2> SUFFICES ASSUME NEW p \in Marks(segs) PROVE Marker(segs, p).n \in 1 .. (n - 1)
    BY DEF Numbers
  <2>1. PICK i \in DOMAIN segs : \E k \in DOMAIN segs[i].markers : p = <<i, k>>
    BY DEF Marks
  <2>2. PICK k \in DOMAIN segs[i].markers : p = <<i, k>>
    BY <2>1
  <2>3. segs[i] \in ToSet(segs) /\ segs[i].markers[k] \in ToSet(segs[i].markers)
    BY DEF ToSet
  <2>4. Marker(segs, p).n \in Nat \ {0}
    BY <2>2, <2>3 DEF Marker, InSequence
  <2>5. CASE n < Marker(segs, p).n
    <3>1. n \in 1 .. Marker(segs, p).n - 1
      BY <1>2, <2>4, <2>5
    <3>2. n \in Numbers(segs)
      BY <3>1 DEF InSequence, Numbers
    <3> QED
      BY <3>2
  <2>6. Marker(segs, p).n # n
    BY DEF Numbers
  <2> QED
    BY <1>2, <2>4, <2>5, <2>6
<1>4. Cardinality(Numbers(segs)) <= Cardinality(1 .. (n - 1))
  BY <1>2, <1>3, RangeFinite, FS_Subset
<1>5. Cardinality(1 .. (n - 1)) = n - 1
  BY <1>2, FS_Interval
<1> QED
  BY <1>2, <1>4, <1>5

-----------------------------------------------------------------------------
(* The inductive invariant *)

AfterSync == {"soundtrack", "bundle", "render_long", "shorts", "upload", "complete"}
AfterLong == {"shorts", "upload", "complete"}
StageName == {"idle", "sync"} \cup AfterSync

RunOK ==
    /\ DOMAIN run = {"stage", "step", "left", "try", "chunk", "props", "frames", "warnings",
                     "artifacts"}
    /\ run.stage \in StageName
    /\ run.step \in Nat \ {0} /\ run.try \in Nat /\ run.chunk \in Nat
    /\ run.artifacts \subseteq Renders

RowStatus ==
    {"pending", "claimed", "requeued", "failed", "left", "completed", "unverified"}

JobOK ==
    /\ job \in [status : RowStatus, version : 1 .. workspace, listed : BOOLEAN,
                cancel : BOOLEAN, expected : ShortNumbers \cup {0}]
    /\ job.expected = CountShortMarkers(job.version)

WorldOK ==
    /\ world \in [history : Histories, meta : Metas, routed : Routed]
    /\ workspace \in 1 .. Len(world.history)
    /\ faults \in 0 .. MaxFaults

StoreOK ==
    /\ dir \in [Files -> 0 .. Len(world.history)]
    /\ DOMAIN out = Renders \cup {MixedTrack}
    /\ \A r \in Renders : out[r].size \in Nat
    /\ DOMAIN part = Renders /\ DOMAIN published = Renders

TypeOK == WorldOK /\ JobOK /\ RunOK /\ StoreOK

\* The row and the runner agree on whether it is at work.
AtWork == job.status = "claimed" <=> run.stage # "idle"

\* What a stage has still to do is what the stage is about.
LeftOK ==
    /\ run.stage = "sync" => run.left \subseteq Entries
    /\ run.stage = "upload" => run.left \subseteq run.artifacts

\* Once the long video is prepared, the inputs are those it was prepared from.
InputsStand ==
    /\ run.stage \in AfterLong \/ run.props # <<>> => HasScript /\ GoodInputs
    /\ run.props # <<>> => run.stage = "render_long" /\ run.props = <<BuildInputProps(AllIds)>>

\* What is published was written from its beginning.
PublishedBegins == \A r \in Renders : published[r] # NoChunks => Beginning(published[r])

TInv == TypeOK /\ AtWork /\ LeftOK /\ InputsStand /\ PublishedBegins

-----------------------------------------------------------------------------
(* The history of the workspace *)

LEMMA HistoryIs ==
    ASSUME world.history \in Histories
    PROVE  /\ Len(world.history) \in Nat \ {0}
           /\ DOMAIN world.history = 1 .. Len(world.history)
           /\ \A v \in 1 .. Len(world.history) :
                  /\ IsSequence(Script(v).segments)
                  /\ \A s \in ToSet(Script(v).segments) :
                         IsSequence(s.markers) /\ \A m \in ToSet(s.markers) : m.n \in Nat
                  /\ CountShortMarkers(v) \in ShortNumbers \cup {0}
<1>1. IsSequence(world.history) /\ world.history # <<>>
  BY HistoriesAssumption
<1>2. Len(world.history) \in Nat /\ DOMAIN world.history = 1 .. Len(world.history)
  BY <1>1, SequenceFinite
<1>3. Len(world.history) # 0
  BY <1>1 DEF IsSequence
<1>4. ASSUME NEW v \in 1 .. Len(world.history)
      PROVE  /\ IsSequence(Script(v).segments)
             /\ \A s \in ToSet(Script(v).segments) :
                    IsSequence(s.markers) /\ \A m \in ToSet(s.markers) : m.n \in Nat
             /\ CountShortMarkers(v) \in ShortNumbers \cup {0}
  <2>1. Script(v) \in ToSet(world.history)
    BY <1>2 DEF Script, ToSet
  <2>2. /\ IsSequence(Script(v).segments)
        /\ \A s \in ToSet(Script(v).segments) :
               IsSequence(s.markers) /\ \A m \in ToSet(s.markers) : m.n \in Nat
        /\ Cardinality(Spellings(Script(v).segments)) <= MaxShorts
    BY <2>1, HistoriesAssumption
  <2>3. IsFiniteSet(Spellings(Script(v).segments))
    BY <2>2, MarksFinite
  <2>4. CountShortMarkers(v) \in Nat /\ CountShortMarkers(v) <= MaxShorts
    BY <2>2, <2>3, FS_CardinalityType DEF CountShortMarkers
  <2> QED
    BY <2>2, <2>4, StagesAssumption DEF ShortNumbers
<1> QED
  BY <1>2, <1>3, <1>4

\* A file of the server is of the last version that wrote it.
LEMMA LastWriter ==
    ASSUME NEW v \in Nat, NEW f
    PROVE  /\ ServerFile(v, f) \in 0 .. v
           /\ ServerFile(v, f) # 0 => f \in Writes(ServerFile(v, f))
           /\ \A u \in 1 .. v : f \in Writes(u) => u <= ServerFile(v, f)
<1> DEFINE writers == {u \in 1 .. v : f \in Writes(u)}
<1>1. CASE writers = {}
  BY <1>1 DEF ServerFile
<1>2. CASE writers # {}
  <2>1. \E u \in writers : \A w \in writers : w <= u
    <3>1. writers \subseteq 1 .. v
      OBVIOUS
    <3> HIDE DEF writers
    <3> QED
      BY <1>2, <3>1, GreatestElement
  <2>2. ServerFile(v, f) \in writers /\ \A w \in writers : w <= ServerFile(v, f)
    BY <1>2, <2>1 DEF ServerFile
  <2> QED
    BY <2>2
<1> QED
  BY <1>1, <1>2

\* What was there once is there, as old or newer.
LEMMA FilesStay ==
    ASSUME NEW v \in Nat, NEW w \in Nat, v <= w, NEW f, ServerFile(v, f) # 0
    PROVE  ServerFile(w, f) # 0
BY LastWriter

LEMMA WorldStays ==
    ASSUME world' = world
    PROVE  /\ Files' = Files
           /\ \A v, f : ServerFile(v, f)' = ServerFile(v, f)
           /\ \A v : /\ Script(v)' = Script(v) /\ Manifest(v)' = Manifest(v)
                     /\ CountShortMarkers(v)' = CountShortMarkers(v)
BY DEF Files, ServerFile, Writes, SegmentIds, Segment, Script, Manifest, CountShortMarkers

LEMMA InputsStay ==
    ASSUME world' = world, dir' = dir
    PROVE  /\ LocalScript' = LocalScript /\ HasScript' = HasScript
           /\ GoodInputs' = GoodInputs /\ AllIds' = AllIds
           /\ \A n : CutIds(n)' = CutIds(n)
BY DEF LocalScript, HasScript, GoodInputs, Files, Writes, SegmentIds, Segment, Script, Accepted,
       LocalTimeline, AllIds, CutIds

LEMMA PropsStay ==
    ASSUME world' = world, dir' = dir, out'[MixedTrack] = out[MixedTrack]
    PROVE  BuildInputProps(AllIds)' = BuildInputProps(AllIds)
BY InputsStay DEF BuildInputProps, LocalTimeline, Segment, Script

LEMMA FollowingStage ==
    /\ Following("sync") = "soundtrack" /\ Following("soundtrack") = "bundle"
    /\ Following("bundle") = "render_long" /\ Following("render_long") = "shorts"
    /\ Following("shorts") = "upload" /\ Following("upload") = "complete"
<1>1. \A i, j \in DOMAIN Stages : Stages[i] = Stages[j] => i = j
  BY DEF Stages
<1>2. ASSUME NEW i \in 1 .. 6 PROVE Following(Stages[i]) = Stages[i + 1]
  <2>1. i \in DOMAIN Stages
    BY DEF Stages
  <2>2. (CHOOSE j \in DOMAIN Stages : Stages[j] = Stages[i]) = i
    BY <1>1, <2>1
  <2> QED
    BY <2>2 DEF Following
<1>3. \A i \in 1 .. 6 : Following(Stages[i]) = Stages[i + 1]
  BY <1>2
<1> HIDE DEF Following
<1> QED
  BY <1>3 DEF Stages

-----------------------------------------------------------------------------
(* What the steps of a job do to its row and to the runner *)

\* A step leaves the history, and takes the workspace on at most.
WorldMoves == world' = world /\ workspace' \in workspace .. Len(world.history)

\* What a step of the runner may do to the row.
RowMoves ==
    /\ job' = [job EXCEPT !.status = job'.status, !.cancel = job'.cancel]
    /\ job'.status \in RowStatus /\ job'.cancel \in BOOLEAN

LEMMA RowMovesOK ==
    ASSUME WorldOK, JobOK, WorldMoves, RowMoves
    PROVE  JobOK'
<1>1. workspace' \in Nat /\ workspace <= workspace' /\ workspace \in Nat
  BY HistoryIs DEF WorldOK, WorldMoves
<1>2. \A v : CountShortMarkers(v)' = CountShortMarkers(v)
  BY WorldStays DEF WorldMoves
<1>3. job'.version = job.version /\ job'.expected = job.expected /\ job'.listed = job.listed
  BY DEF JobOK, RowMoves
<1>4. job.version \in 1 .. workspace'
  BY <1>1 DEF JobOK
<1>5. job' \in [status : RowStatus, version : 1 .. workspace', listed : BOOLEAN,
                cancel : BOOLEAN, expected : ShortNumbers \cup {0}]
  BY <1>3, <1>4 DEF JobOK, RowMoves
<1>6. job'.expected = CountShortMarkers(job.version)
  BY <1>3 DEF JobOK
<1>7. (CountShortMarkers(job.version))' = CountShortMarkers(job.version)
  BY <1>2, <1>3 DEF CountShortMarkers, Script
<1> QED
  BY <1>5, <1>6, <1>7 DEF JobOK

LEMMA RowStays ==
    ASSUME JobOK, UNCHANGED job
    PROVE  RowMoves
BY DEF JobOK, RowMoves

LEMMA FailJobIs ==
    ASSUME JobOK, NEW b, FailJob(b)
    PROVE  RowMoves /\ job'.status \in {"requeued", "failed", "left"} /\ run' = Idle
<1>1. PICK status \in {"requeued", "failed", "left"} : job' = [job EXCEPT !.status = status]
  BY DEF FailJob, AfterFailure
<1> QED
  BY <1>1 DEF JobOK, FailJob, RowMoves, RowStatus

LEMMA LeaveIs ==
    ASSUME JobOK, Leave
    PROVE  RowMoves /\ job'.status = "left" /\ run' = Idle
BY DEF JobOK, Leave, RowMoves, RowStatus

LEMMA GoOnIs ==
    ASSUME RunOK, run.stage \in StageName \ {"idle", "complete"}, GoOn
    PROVE  /\ RunOK' /\ UNCHANGED job
           /\ run'.stage = Following(run.stage) /\ run'.step = 1
           /\ run'.left = {} /\ run'.try = 0 /\ run'.chunk = 0 /\ run'.props = <<>>
           /\ run'.warnings = run.warnings /\ run'.artifacts = run.artifacts
BY FollowingStage DEF RunOK, GoOn, At, StageName, AfterSync

LEMMA IdleIs ==
    ASSUME run' = Idle
    PROVE  /\ RunOK'
           /\ run'.stage = "idle" /\ run'.props = <<>> /\ run'.warnings = {}
           /\ run'.artifacts = {}
BY DEF RunOK, Idle, StageName, AfterSync

\* The version of the workspace, the row and the runner, after any step.
RunMoves == RunOK' /\ (job'.status = "claimed" <=> run'.stage # "idle")

LEMMA FaultIs ==
    ASSUME WorldOK
    PROVE  /\ NoFault => faults' \in 0 .. MaxFaults
           /\ \A kind : Fault(kind) => faults' \in 0 .. MaxFaults /\ faults' # MaxFaults
BY StagesAssumption DEF WorldOK, NoFault, Fault

\* The runner stays in its stage.
Stays == RunOK' /\ run'.stage = run.stage

LEMMA EditsStay ==
    ASSUME RunOK
    PROVE  /\ run' = [run EXCEPT !.try = 1] => Stays
           /\ \A fs : run' = [run EXCEPT !.left = fs, !.try = 0] => Stays
           /\ \A fs : run' = [run EXCEPT !.left = fs, !.try = 0, !.chunk = 0] => Stays
           /\ run' = [run EXCEPT !.step = run.step + 1] => Stays
           /\ \A ws : run' = [run EXCEPT !.step = run.step + 1, !.warnings = ws] => Stays
           /\ run' = [run EXCEPT !.chunk = run.chunk + 1] => Stays
           /\ run' = [run EXCEPT !.try = run.try + 1, !.chunk = 0] => Stays
<1>1. run.step + 1 \in Nat \ {0} /\ run.try + 1 \in Nat /\ run.chunk + 1 \in Nat
  BY DEF RunOK
<1>2. run' = [run EXCEPT !.try = 1] => Stays
  BY DEF RunOK, Stays
<1>3. \A fs : run' = [run EXCEPT !.left = fs, !.try = 0] => Stays
  BY DEF RunOK, Stays
<1>4. \A fs : run' = [run EXCEPT !.left = fs, !.try = 0, !.chunk = 0] => Stays
  BY DEF RunOK, Stays
<1>5. run' = [run EXCEPT !.step = run.step + 1] => Stays
  BY <1>1 DEF RunOK, Stays
<1>6. \A ws : run' = [run EXCEPT !.step = run.step + 1, !.warnings = ws] => Stays
  BY <1>1 DEF RunOK, Stays
<1>7. run' = [run EXCEPT !.chunk = run.chunk + 1] => Stays
  BY <1>1 DEF RunOK, Stays
<1>8. run' = [run EXCEPT !.try = run.try + 1, !.chunk = 0] => Stays
  BY <1>1 DEF RunOK, Stays
<1> QED
  BY <1>2, <1>3, <1>4, <1>5, <1>6, <1>7, <1>8

LEMMA MovesStep ==
    ASSUME TypeOK, AtWork, Next
    PROVE  /\ WorldMoves /\ faults' \in 0 .. MaxFaults /\ JobOK' /\ RunMoves
           /\ RowMoves \/ Enqueue
<1> USE DEF TypeOK, AtWork
<1>1. CASE Claim
  <2>1. RowMoves /\ run' = [Idle EXCEPT !.stage = "sync", !.left = Entries]
    <3>1. job'.status = "claimed" /\ job'.cancel = job.cancel /\ job.cancel \in BOOLEAN
      BY <1>1 DEF Claim, JobOK
    <3>2. job' = [job EXCEPT !.status = job'.status, !.cancel = job'.cancel]
      BY <1>1, <3>1 DEF Claim, JobOK
    <3> QED
      BY <1>1, <3>1, <3>2 DEF Claim, RowMoves, RowStatus
  <2>2. WorldMoves /\ faults' \in 0 .. MaxFaults
    BY <1>1, HistoryIs DEF Claim, WorldMoves, WorldOK
  <2>3. RunOK' /\ run'.stage = "sync"
    BY <2>1 DEF Idle, RunOK, StageName
  <2> QED
    BY <1>1, <2>1, <2>2, <2>3, RowMovesOK DEF Claim, RunMoves, JobOK, RowStatus
<1>2. ASSUME In(run.stage), run.stage \in StageName \ {"idle"}, UNCHANGED workspace,
             faults' \in 0 .. MaxFaults,
             \/ \E b \in BOOLEAN : FailJob(b)
             \/ run.stage # "complete" /\ GoOn
             \/ UNCHANGED job /\ Stays
      PROVE  WorldMoves /\ faults' \in 0 .. MaxFaults /\ JobOK' /\ RunMoves /\ RowMoves
  <2>1. WorldMoves
    BY <1>2, HistoryIs DEF In, WorldMoves, WorldOK
  <2>2. CASE \E b \in BOOLEAN : FailJob(b)
    BY <1>2, <2>1, <2>2, FailJobIs, IdleIs, RowMovesOK DEF RunMoves
  <2>3. CASE run.stage # "complete" /\ GoOn
    <3>1. RunOK' /\ UNCHANGED job /\ run'.stage = Following(run.stage)
      BY <1>2, <2>3, GoOnIs
    <3>2. Following(run.stage) # "idle"
      BY <1>2, <2>3, FollowingStage DEF StageName, AfterSync
    <3> QED
      BY <1>2, <2>1, <3>1, <3>2, RowStays, RowMovesOK DEF RunMoves
  <2>4. CASE UNCHANGED job /\ Stays
    BY <1>2, <2>1, <2>4, RowStays, RowMovesOK DEF RunMoves, Stays
  <2> QED
    BY <1>2, <2>2, <2>3, <2>4
<1>3. CASE SkipSync
  BY <1>2, <1>3, FaultIs DEF SkipSync, Checked, In, ReportThen, StageName
<1>4. CASE DownloadFile
  <2>1. ASSUME Mismatch PROVE (\E b \in BOOLEAN : FailJob(b)) \/ (UNCHANGED job /\ Stays)
    BY <2>1, EditsStay DEF Mismatch
  <2>2. ASSUME Verified
        PROVE  /\ faults' \in 0 .. MaxFaults
               /\ \/ \E b \in BOOLEAN : FailJob(b)
                  \/ GoOn
                  \/ UNCHANGED job /\ Stays
    BY <2>2, EditsStay, FaultIs DEF Verified, ReportThen, NextFile
  <2> QED
    BY <1>2, <1>4, <2>1, <2>2, FaultIs DEF DownloadFile, In, StageName
<1>5. CASE MixSoundtrack
  <2>1. NoTimelines \in BOOLEAN
    BY DEF NoTimelines
  <2> QED
    BY <1>2, <1>5, <2>1, FaultIs DEF MixSoundtrack, Checked, In, ReportThen, StageName, AfterSync
<1>6. CASE MakeBundle
  BY <1>2, <1>6, FaultIs DEF MakeBundle, Checked, In, ReportThen, StageName, AfterSync
<1>7. CASE RefuseInputs
  <2>1. (~HasScript) \in BOOLEAN
    BY DEF HasScript
  <2> QED
    BY <1>2, <1>7, <2>1, FaultIs DEF RefuseInputs, Checked, In, StageName, AfterSync
<1>8. CASE PrepareLong
  BY <1>2, <1>8, FaultIs DEF PrepareLong, Checked, In, StageName, AfterSync, RunOK, Stays
<1>9. CASE RenderFrame
  BY <1>2, <1>9, EditsStay, FaultIs DEF RenderFrame, Drawing, In, StageName, AfterSync
<1>10. CASE FinishLong
  BY <1>2, <1>10, FaultIs DEF FinishLong, In, StageName, AfterSync
<1>11. CASE RefuseShorts
  BY <1>2, <1>11, FaultIs DEF RefuseShorts, Checked, In, StageName, AfterSync
<1>12. CASE RenderShort
  <2>1. UNCHANGED job /\ Stays
    BY <1>12, EditsStay DEF RenderShort, Warn
  <2> QED
    BY <1>2, <1>12, <2>1, FaultIs DEF RenderShort, Checked, In, StageName, AfterSync
<1>13. CASE FinishShorts
  BY <1>2, <1>13, FaultIs DEF FinishShorts, In, StageName, AfterSync
<1>14. CASE CollectRenderFiles
  BY <1>2, <1>14, FaultIs DEF CollectRenderFiles, RenderFiles, Checked, In, StageName, AfterSync, RunOK,
     Stays
<1>15. CASE SendChunk
  BY <1>2, <1>15, EditsStay, FaultIs DEF SendChunk, Checked, In, StageName, AfterSync
<1>16. CASE Finalize
  <2>1. ASSUME TryAgain PROVE (\E b \in BOOLEAN : FailJob(b)) \/ (UNCHANGED job /\ Stays)
    BY <2>1, EditsStay DEF TryAgain
  <2>2. ASSUME FileDone PROVE GoOn \/ (UNCHANGED job /\ Stays)
    BY <2>2, EditsStay DEF FileDone
  <2> QED
    BY <1>2, <1>16, <2>1, <2>2, FaultIs DEF Finalize, ReportThen, In, StageName, AfterSync
<1>17. CASE CompleteJob
  <2>1. CASE \E b \in BOOLEAN : FailJob(b)
    BY <1>2, <1>17, <2>1, FaultIs DEF CompleteJob, In, StageName, AfterSync
  <2>2. CASE job' = [job EXCEPT !.status =
                IF \A r \in run.artifacts : published[r] = Chunks(out[r])
                THEN "completed" ELSE "unverified"] /\ run' = [run EXCEPT !.stage = "idle"]
    <3>1. RowMoves /\ job'.status # "claimed"
      BY <2>2 DEF RowMoves, JobOK, RowStatus
    <3>2. RunOK' /\ run'.stage = "idle"
      BY <2>2 DEF RunOK, StageName
    <3>3. faults' \in 0 .. MaxFaults
      BY <1>17, FaultIs DEF CompleteJob
    <3>4. WorldMoves
      BY <1>17, HistoryIs DEF CompleteJob, In, WorldMoves, WorldOK
    <3> QED
      BY <3>1, <3>2, <3>3, <3>4, RowMovesOK DEF RunMoves
  <2> QED
    BY <1>17, <2>1, <2>2 DEF CompleteJob
<1>18. CASE DropJob
  <2>1. RowMoves /\ job'.status # "claimed" /\ run' = Idle
    BY <1>18, LeaveIs DEF DropJob
  <2>2. WorldMoves /\ faults' \in 0 .. MaxFaults
    BY <1>18, HistoryIs DEF DropJob, WorldMoves, WorldOK
  <2> QED
    BY <2>1, <2>2, IdleIs, RowMovesOK DEF RunMoves
<1>19. CASE RequestCancel
  <2>1. RowMoves /\ job'.status = job.status /\ UNCHANGED run
    BY <1>19 DEF RequestCancel, RowMoves, JobOK
  <2>2. WorldMoves /\ faults' \in 0 .. MaxFaults
    BY <1>19, FaultIs, HistoryIs DEF RequestCancel, WorldMoves, WorldOK
  <2>3. RunOK'
    BY <2>1 DEF RunOK
  <2> QED
    BY <2>1, <2>2, <2>3, RowMovesOK DEF RunMoves
<1>20. CASE Crash
  <2>1. RowMoves /\ job'.status # "claimed" /\ run' = Idle
    BY <1>20, LeaveIs DEF Crash
  <2>2. WorldMoves /\ faults' \in 0 .. MaxFaults
    BY <1>20, FaultIs, HistoryIs DEF Crash, WorldMoves, WorldOK
  <2> QED
    BY <2>1, <2>2, IdleIs, RowMovesOK DEF RunMoves
<1>21. CASE Rewrite
  <2>1. RowMoves /\ UNCHANGED <<job, run>>
    BY <1>21, RowStays DEF Rewrite
  <2>2. WorldMoves /\ faults' \in 0 .. MaxFaults
    BY <1>21, HistoryIs DEF Rewrite, WorldMoves, WorldOK
  <2>3. RunOK'
    BY <2>1 DEF RunOK
  <2> QED
    BY <2>1, <2>2, <2>3, RowMovesOK DEF RunMoves
<1>22. CASE Enqueue
  <2>1. faults' \in 0 .. MaxFaults
    BY <1>22, FaultIs DEF Enqueue
  <2>2. WorldMoves /\ faults' \in 0 .. MaxFaults /\ run' = Idle
    BY <1>22, <2>1, HistoryIs DEF Enqueue, WorldMoves, WorldOK
  <2>3. PICK listed \in BOOLEAN : job' = NewJob(workspace, listed)
    BY <1>22 DEF Enqueue
  <2>4. workspace \in 1 .. workspace /\ CountShortMarkers(workspace) \in ShortNumbers \cup {0}
    BY HistoryIs DEF WorldOK
  <2>5. job' \in [status : RowStatus, version : 1 .. workspace, listed : BOOLEAN,
                  cancel : BOOLEAN, expected : ShortNumbers \cup {0}]
    BY <2>3, <2>4 DEF NewJob, RowStatus
  <2>6. workspace' = workspace
    BY <1>22 DEF Enqueue
  <2>7. job'.version = workspace /\ job'.expected = CountShortMarkers(workspace)
        /\ job'.status = "pending"
    BY <2>3 DEF NewJob
  <2>8. CountShortMarkers(workspace)' = CountShortMarkers(workspace)
    BY <2>2, <2>6, WorldStays DEF WorldMoves
  <2>9. (CountShortMarkers(job.version))' = CountShortMarkers(workspace)'
    BY <2>6, <2>7
  <2>10. JobOK'
    BY <2>5, <2>6, <2>7, <2>8, <2>9 DEF JobOK
  <2> QED
    BY <1>22, <2>2, <2>7, <2>10, IdleIs DEF RunMoves
<1> QED
  BY <1>1, <1>3, <1>4, <1>5, <1>6, <1>7, <1>8, <1>9, <1>10, <1>11, <1>12, <1>13, <1>14, <1>15,
     <1>16, <1>17, <1>18, <1>19, <1>20, <1>21, <1>22 DEF Next, Runner

-----------------------------------------------------------------------------
(* The files: what is there, and what is published *)

LEMMA EntriesStay ==
    ASSUME JobOK, WorldMoves, RowMoves
    PROVE  Entries' = Entries /\ Entries \subseteq Files
<1>1. job'.version = job.version /\ job'.listed = job.listed
  BY DEF JobOK, RowMoves
<1>2. \A v : Manifest(v)' = Manifest(v)
  BY WorldStays DEF WorldMoves
<1>3. Manifest(job.version)' = Manifest(job.version)
  BY <1>1, <1>2 DEF Manifest, Files, ServerFile, Writes, SegmentIds, Segment, Script, WorldMoves
<1> QED
  BY <1>1, <1>3 DEF Entries, Manifest

LEMMA ScriptIsFile ==
    ASSUME WorldOK
    PROVE  <<"script", "">> \in Files
<1>1. 1 \in DOMAIN world.history
  BY HistoryIs DEF WorldOK
<1> QED
  BY <1>1 DEF Files, Writes

LEMMA FromOne ==
    ASSUME NEW n \in Nat, NEW m \in 0 .. n, m # 0
    PROVE  m \in 1 .. n
OBVIOUS

LEMMA LocalScriptIs ==
    ASSUME WorldOK, StoreOK, HasScript
    PROVE  /\ dir[<<"script", "">>] \in 1 .. Len(world.history)
           /\ IsSequence(LocalScript.segments)
           /\ \A s \in ToSet(LocalScript.segments) :
                  IsSequence(s.markers) /\ \A m \in ToSet(s.markers) : m.n \in Nat
<1>1. dir[<<"script", "">>] \in 1 .. Len(world.history)
  <2>1. dir[<<"script", "">>] \in 0 .. Len(world.history)
    BY ScriptIsFile DEF StoreOK
  <2>2. Len(world.history) \in Nat
    BY HistoryIs DEF WorldOK
  <2>3. dir[<<"script", "">>] # 0
    BY DEF HasScript
  <2> QED
    BY <2>1, <2>2, <2>3, FromOne
<1> QED
  BY <1>1, HistoryIs DEF WorldOK, LocalScript

LEMMA IdsFinite ==
    ASSUME WorldOK, StoreOK, HasScript
    PROVE  /\ IsFiniteSet(AllIds) /\ Cardinality(AllIds) \in Nat
           /\ \A n : /\ CutIds(n) \subseteq AllIds
                    /\ IsFiniteSet(CutIds(n)) /\ Cardinality(CutIds(n)) \in Nat
<1>1. IsFiniteSet(ToSet(LocalScript.segments))
  BY LocalScriptIs, SequenceFinite
<1>2. IsFiniteSet(AllIds)
  <2> DEFINE g == [s \in ToSet(LocalScript.segments) |-> s.id]
  <2>1. DOMAIN g = ToSet(LocalScript.segments)
        /\ AllIds = {g[s] : s \in ToSet(LocalScript.segments)}
    BY DEF AllIds
  <2> HIDE DEF g
  <2> QED
    BY <1>1, <2>1, ImageFinite
<1>3. ASSUME NEW n
      PROVE  CutIds(n) \subseteq AllIds /\ IsFiniteSet(CutIds(n)) /\ Cardinality(CutIds(n)) \in Nat
  <2>1. CutIds(n) \subseteq AllIds
    BY DEF CutIds, AllIds
  <2> QED
    BY <1>2, <2>1, FS_Subset, FS_CardinalityType
<1> QED
  BY <1>2, <1>3, FS_CardinalityType

LEMMA UnderWayIs ==
    ASSUME JobOK, LeftOK, run.left # {}
    PROVE  /\ FileUnderWay \in run.left /\ FileSent \in run.left
           /\ run.stage = "sync" => FileUnderWay \in Files
BY DEF LeftOK, FileUnderWay, FileSent, Entries, Manifest

LEMMA StoreStep ==
    ASSUME TInv, Next
    PROVE  StoreOK'
<1> USE DEF TInv, TypeOK
<1>1. world' = world /\ Files' = Files
  BY MovesStep, WorldStays DEF WorldMoves
<1>2. CASE UNCHANGED <<dir, out, part, published>>
  BY <1>1, <1>2 DEF StoreOK
<1>3. CASE DownloadFile
  <2>1. UNCHANGED <<out, part, published>>
    BY <1>3 DEF DownloadFile, Remote
  <2>2. CASE UNCHANGED dir
    BY <1>2, <2>1, <2>2
  <2>3. CASE dir' = [dir EXCEPT ![FileUnderWay] = ServerFile(job.version, FileUnderWay)]
    <3>1. ServerFile(job.version, FileUnderWay) \in 0 .. Len(world.history)
      BY HistoryIs, LastWriter DEF WorldOK, JobOK
    <3>2. dir' \in [Files -> 0 .. Len(world.history)]
      BY <2>3, <3>1 DEF StoreOK
    <3> QED
      BY <1>1, <2>1, <3>2 DEF StoreOK
  <2> QED
    BY <1>3, <2>2, <2>3 DEF DownloadFile, Mismatch, Verified
<1>4. CASE MixSoundtrack
  <2>1. UNCHANGED out \/ out' = [out EXCEPT ![MixedTrack] = Mixed]
    BY <1>4 DEF MixSoundtrack
  <2>2. MixedTrack \notin Renders
    BY DEF MixedTrack, Renders, Long, Short
  <2>3. UNCHANGED <<dir, part, published>>
    BY <1>4 DEF MixSoundtrack, Remote
  <2> QED
    BY <1>1, <2>1, <2>2, <2>3 DEF StoreOK
<1>5. CASE FinishLong
  <2>1. HasScript
    BY <1>5 DEF InputsStand, FinishLong, Drawing
  <2>2. UNCHANGED <<dir, part, published>> /\ out' = [out EXCEPT ![Long] = Rendered(Long, AllIds)]
    BY <1>5 DEF FinishLong, Remote
  <2>3. Rendered(Long, AllIds).size \in Nat
    BY <2>1, IdsFinite DEF Rendered
  <2> QED
    BY <1>1, <2>2, <2>3 DEF StoreOK
<1>6. CASE RenderShort
  <2>1. HasScript
    BY <1>6 DEF InputsStand, RenderShort, Checked, In, AfterLong
  <2>2. /\ UNCHANGED <<dir, part, published>>
        /\ \/ UNCHANGED out
           \/ out' = [out EXCEPT ![Short(run.step)] = Rendered(Short(run.step), CutIds(run.step))]
    BY <1>6 DEF RenderShort, Remote
  <2>3. Rendered(Short(run.step), CutIds(run.step)).size \in Nat
    BY <2>1, IdsFinite DEF Rendered
  <2> QED
    BY <1>1, <2>2, <2>3 DEF StoreOK
<1>7. CASE SendChunk
  <2>1. UNCHANGED <<dir, out, published>> /\ DOMAIN part' = DOMAIN part
    BY <1>7 DEF SendChunk, WriteChunk, Local
  <2> QED
    BY <1>1, <2>1 DEF StoreOK
<1>8. CASE Finalize
  <2>1. UNCHANGED <<dir, out>>
    BY <1>8 DEF Finalize, Local
  <2>2. DOMAIN part' = DOMAIN part /\ DOMAIN published' = DOMAIN published
    BY <1>8 DEF Finalize, HandleFinalize, WriteStops, PartStays, Remote
  <2> QED
    BY <1>1, <2>1, <2>2 DEF StoreOK
<1> QED
  BY <1>2, <1>3, <1>4, <1>5, <1>6, <1>7, <1>8
  DEF Next, Runner, Claim, SkipSync, MakeBundle, RefuseInputs, PrepareLong, RenderFrame,
      RefuseShorts, FinishShorts, CollectRenderFiles, CompleteJob, DropJob, RequestCancel, Crash,
      Rewrite, Enqueue, Local, Remote

LEMMA LeftStep ==
    ASSUME TInv, Next
    PROVE  LeftOK'
<1> USE DEF TInv, TypeOK
<1>1. /\ RunOK' /\ WorldMoves
      /\ RowMoves \/ (Enqueue /\ run' = Idle)
  BY MovesStep DEF RunMoves, Enqueue
<1>2. CASE run'.stage \notin {"sync", "upload"}
  BY <1>2 DEF LeftOK
<1>3. CASE run'.left = {}
  BY <1>3 DEF LeftOK
<1>4. ASSUME run'.stage \in {"sync", "upload"} PROVE Entries' = Entries
  BY <1>1, <1>4, IdleIs, EntriesStay
<1>5. CASE /\ run'.stage = run.stage /\ run'.left \subseteq run.left
           /\ run'.artifacts = run.artifacts
  BY <1>2, <1>4, <1>5 DEF LeftOK
<1>6. CASE Claim
  <2>1. run'.stage = "sync" /\ run'.left = Entries
    BY <1>6 DEF Claim, Idle
  <2> QED
    BY <1>4, <2>1 DEF LeftOK
<1>7. CASE CollectRenderFiles
  <2>1. CASE run' = Idle
    BY <1>2, <2>1, IdleIs
  <2>2. CASE run' = [run EXCEPT !.artifacts = RenderFiles, !.left = RenderFiles]
    BY <1>7, <2>2 DEF LeftOK, RunOK, CollectRenderFiles, Checked, In
  <2> QED
    BY <1>7, <2>1, <2>2 DEF CollectRenderFiles, FailJob
<1>8. CASE run' = Idle
  BY <1>2, <1>8, IdleIs
<1>9. CASE GoOn /\ run.stage \in StageName \ {"idle", "complete"}
  BY <1>3, <1>9, GoOnIs
<1>10. CASE run' = [run EXCEPT !.stage = "idle"]
  BY <1>2, <1>10 DEF RunOK
<1> DEFINE Keeps == /\ run'.stage = run.stage /\ run'.left \subseteq run.left
                    /\ run'.artifacts = run.artifacts
<1>11. /\ UNCHANGED run => Keeps
       /\ run' = [run EXCEPT !.try = 1] => Keeps
       /\ \A x : run' = [run EXCEPT !.left = @ \ {x}, !.try = 0] => Keeps
       /\ \A x : run' = [run EXCEPT !.left = @ \ {x}, !.try = 0, !.chunk = 0] => Keeps
       /\ \A n : run' = [run EXCEPT !.step = n] => Keeps
       /\ \A n, ws : run' = [run EXCEPT !.step = n, !.warnings = ws] => Keeps
       /\ \A n : run' = [run EXCEPT !.chunk = n] => Keeps
       /\ \A n : run' = [run EXCEPT !.try = n, !.chunk = 0] => Keeps
       /\ \A ps, n : run' = [run EXCEPT !.props = ps, !.frames = n] => Keeps
  BY DEF RunOK
<1>12. Claim \/ CollectRenderFiles \/ run' = Idle \/ Keeps
       \/ run' = [run EXCEPT !.stage = "idle"]
       \/ (GoOn /\ run.stage \in StageName \ {"idle", "complete"})
  <2> HIDE DEF Keeps
  <2> QED
    BY <1>11
    DEF Next, Runner, SkipSync, DownloadFile, MixSoundtrack, MakeBundle, RefuseInputs,
        PrepareLong, RenderFrame, FinishLong, RefuseShorts, RenderShort, FinishShorts, SendChunk,
        Finalize, CompleteJob, DropJob, RequestCancel, Crash, Rewrite, Enqueue, Checked, In,
        Mismatch, Verified, NextFile, FailJob, Leave, ReportThen, Warn, TryAgain, FileDone, Drawing,
        StageName, AfterSync
<1> QED
  BY <1>5, <1>6, <1>7, <1>8, <1>9, <1>10, <1>12

\* Of the directory and the mixed track, what a step of a stage may touch.
LEMMA InputsStep ==
    ASSUME TInv, Next
    PROVE  InputsStand'
<1> USE DEF TInv, TypeOK
<1>1. /\ RunOK' /\ WorldMoves /\ world' = world
      /\ run.stage \in StageName /\ RunOK
  BY MovesStep DEF RunMoves, WorldMoves, RunOK
<1>2. CASE run'.stage \notin AfterLong /\ run'.props = <<>>
  BY <1>2 DEF InputsStand
<1>3. CASE run' = Idle
  BY <1>2, <1>3, IdleIs DEF AfterLong
<1>4. ASSUME UNCHANGED dir, out'[MixedTrack] = out[MixedTrack]
      PROVE  /\ HasScript' = HasScript /\ GoodInputs' = GoodInputs
             /\ BuildInputProps(AllIds)' = BuildInputProps(AllIds)
  BY <1>1, <1>4, InputsStay, PropsStay
<1>5. ASSUME UNCHANGED dir, out'[MixedTrack] = out[MixedTrack],
             run'.stage = run.stage, run'.props = run.props
      PROVE  InputsStand'
  <2>1. (<<BuildInputProps(AllIds)>>)' = <<BuildInputProps(AllIds)>>
    BY <1>4, <1>5
  <2> QED
    BY <1>4, <1>5, <2>1 DEF InputsStand
<1>6. ASSUME UNCHANGED dir, GoOn, run.stage \in AfterLong \ {"complete"} \/ run.props # <<>>
      PROVE  InputsStand'
  <2>1. HasScript' /\ GoodInputs'
    BY <1>1, <1>6, InputsStay DEF InputsStand
  <2>2. run'.props = <<>>
    BY <1>1, <1>6, GoOnIs DEF InputsStand, StageName, AfterSync, AfterLong
  <2> QED
    BY <2>1, <2>2 DEF InputsStand
<1>7. ASSUME GoOn, run.stage \in {"sync", "soundtrack", "bundle"} PROVE InputsStand'
  BY <1>1, <1>2, <1>7, GoOnIs, FollowingStage DEF StageName, AfterSync, AfterLong
<1>8. CASE Claim
  BY <1>2, <1>8 DEF Claim, Idle, AfterLong
<1>9. CASE run.stage = "sync" /\ (SkipSync \/ DownloadFile)
  <2>1. run.props = <<>>
    BY <1>9 DEF InputsStand
  <2>2. run' = Idle \/ GoOn \/ (run'.stage = "sync" /\ run'.props = run.props)
    BY <1>9 DEF SkipSync, DownloadFile, Mismatch, Verified, NextFile, ReportThen, FailJob, RunOK
  <2> QED
    BY <1>2, <1>3, <1>7, <1>9, <2>1, <2>2 DEF AfterLong
<1>10. CASE MixSoundtrack \/ MakeBundle
  <2>1. run' = Idle \/ GoOn
    BY <1>10 DEF MixSoundtrack, MakeBundle, ReportThen, FailJob
  <2> QED
    BY <1>3, <1>7, <1>10, <2>1 DEF MixSoundtrack, MakeBundle, Checked, In
<1>11. CASE PrepareLong
  <2>1. UNCHANGED <<dir, out>> /\ HasScript /\ GoodInputs
    BY <1>11 DEF PrepareLong, Local
  <2>2. run'.stage = "render_long" /\ run'.props = <<BuildInputProps(AllIds)>>
    BY <1>11 DEF PrepareLong, Checked, In, RunOK
  <2>3. (<<BuildInputProps(AllIds)>>)' = <<BuildInputProps(AllIds)>>
    BY <1>4, <2>1
  <2> QED
    BY <1>1, <1>4, <2>1, <2>2, <2>3 DEF InputsStand
<1>12. CASE FinishLong
  BY <1>6, <1>12 DEF FinishLong, Drawing
<1>13. CASE RenderShort
  <2>1. /\ UNCHANGED dir
        /\ UNCHANGED out \/ \E c : out' = [out EXCEPT ![Short(run.step)] = c]
    BY <1>13 DEF RenderShort
  <2>2. Short(run.step) # MixedTrack
    BY DEF Short, MixedTrack
  <2>3. out'[MixedTrack] = out[MixedTrack]
    BY <2>1, <2>2 DEF StoreOK
  <2>4. run'.stage = run.stage /\ run'.props = run.props
    BY <1>13 DEF RenderShort, Warn, RunOK
  <2> QED
    BY <1>5, <2>1, <2>3, <2>4
<1> DEFINE Keeps == run'.stage = run.stage /\ run'.props = run.props
<1>14. /\ UNCHANGED run => Keeps
       /\ \A x : run' = [run EXCEPT !.left = @ \ {x}, !.try = 0, !.chunk = 0] => Keeps
       /\ \A n : run' = [run EXCEPT !.step = n] => Keeps
       /\ \A n : run' = [run EXCEPT !.chunk = n] => Keeps
       /\ \A n : run' = [run EXCEPT !.try = n, !.chunk = 0] => Keeps
       /\ \A rs : run' = [run EXCEPT !.artifacts = rs, !.left = rs] => Keeps
  BY DEF RunOK
<1>15. CASE \/ RefuseInputs \/ RenderFrame \/ RefuseShorts \/ FinishShorts
            \/ CollectRenderFiles \/ SendChunk \/ Finalize \/ DropJob
            \/ RequestCancel \/ Crash \/ Rewrite \/ Enqueue
  <2>1. UNCHANGED <<dir, out>>
    BY <1>15
    DEF RefuseInputs, RenderFrame, RefuseShorts, FinishShorts, CollectRenderFiles, SendChunk,
        Finalize, DropJob, RequestCancel, Crash, Rewrite, Enqueue, Local
  <2>2. run' = Idle \/ Keeps \/ (GoOn /\ run.stage \in {"shorts", "upload"})
    <3> HIDE DEF Keeps
    <3> QED
      BY <1>14, <1>15
      DEF RefuseInputs, RenderFrame, RefuseShorts, FinishShorts, CollectRenderFiles, SendChunk,
          Finalize, DropJob, RequestCancel, Crash, Rewrite, Enqueue, Checked, In, FailJob, Leave,
          ReportThen, TryAgain, FileDone
  <2> QED
    BY <1>3, <1>5, <1>6, <2>1, <2>2 DEF AfterLong
<1>16. CASE CompleteJob
  <2>1. run' = Idle \/ run' = [run EXCEPT !.stage = "idle"]
    BY <1>16 DEF CompleteJob, FailJob
  <2>2. run.props = <<>>
    BY <1>16 DEF CompleteJob, In, InputsStand
  <2> QED
    BY <1>2, <1>3, <2>1, <2>2 DEF RunOK, AfterLong
<1> QED
  BY <1>8, <1>9, <1>10, <1>11, <1>12, <1>13, <1>15, <1>16
  DEF Next, Runner, SkipSync, DownloadFile, Checked, In

LEMMA BeginningIs ==
    ASSUME NEW content, content.size \in Nat, NEW n \in 0 .. content.size,
           NEW chunks, chunks = SubSeq(Chunks(content), 1, n), chunks # NoChunks
    PROVE  Beginning(chunks)
<1>1. chunks = [k \in 1 .. n |-> <<content, k>>] /\ Len(chunks) = n
  <2>1. Chunks(content) \in Seq({content} \X Nat) /\ Len(Chunks(content)) = content.size
    BY DEF Chunks
  <2>2. Len(chunks) = n /\ DOMAIN chunks = 1 .. n /\ chunks \in Seq({content} \X Nat)
    BY <2>1
  <2>3. \A k \in 1 .. n : chunks[k] = <<content, k>>
    BY <2>1 DEF Chunks
  <2> QED
    BY <2>2, <2>3
<1>2. n # 0
  BY <1>1 DEF NoChunks
<1>3. chunks[1][1] = content
  BY <1>1, <1>2
<1>4. Len(chunks) <= content.size /\ chunks = SubSeq(Chunks(content), 1, Len(chunks))
  BY <1>1
<1> QED
  BY <1>3, <1>4 DEF Beginning

LEMMA WholeChunks ==
    ASSUME NEW content, content.size \in Nat, Chunks(content) # NoChunks
    PROVE  /\ Whole(Chunks(content)) /\ Beginning(Chunks(content))
           /\ Chunks(content)[1][1] = content
<1>1. 1 \in 1 .. content.size
  <2>1. CASE content.size = 0
    BY <2>1 DEF Chunks, NoChunks
  <2> QED
    BY <2>1
<1>2. Chunks(content)[1] = <<content, 1>>
  BY <1>1 DEF Chunks
<1>3. Chunks(content) = SubSeq(Chunks(content), 1, content.size)
  BY DEF Chunks
<1> QED
  BY <1>2, <1>3, BeginningIs DEF Whole

\* What the endpoints do to the files under renders/.
LEMMA PublishingIs ==
    ASSUME TInv, Next, ~UNCHANGED published
    PROVE  /\ Finalize /\ Agrees(FileSent, Content)
           /\ \E chunks : /\ published' = [published EXCEPT ![FileSent] = chunks]
                          /\ \/ chunks = Chunks(Content)
                             \/ \E n \in 0 .. Content.size : chunks = SubSeq(Chunks(Content), 1, n)
<1>1. Finalize
  BY DEF Next, Runner, Claim, SkipSync, DownloadFile, MixSoundtrack, MakeBundle, RefuseInputs,
      PrepareLong, RenderFrame, FinishLong, RefuseShorts, RenderShort, FinishShorts,
      CollectRenderFiles, SendChunk, CompleteJob, DropJob, RequestCancel, Crash, Rewrite,
      Enqueue, Remote
<1>2. \/ HandleFinalize(FileSent, Content)
      \/ WriteStops(FileSent, Content)
      \/ PartStays(FileSent, Content)
  BY <1>1 DEF Finalize, Remote
<1>3. Agrees(FileSent, Content)
  BY <1>2 DEF HandleFinalize, WriteStops, PartStays
<1>4. \E chunks : /\ published' = [published EXCEPT ![FileSent] = chunks]
                  /\ \/ chunks = Chunks(Content)
                     \/ \E n \in 0 .. Content.size : chunks = SubSeq(Chunks(Content), 1, n)
  BY <1>2, <1>3 DEF HandleFinalize, WriteStops, PartStays, Agrees
<1> QED
  BY <1>1, <1>3, <1>4

LEMMA PublishedStep ==
    ASSUME TInv, Next
    PROVE  PublishedBegins'
<1> USE DEF TInv, TypeOK
<1>1. CASE UNCHANGED published
  BY <1>1 DEF PublishedBegins, Beginning, Chunks
<1>2. CASE ~UNCHANGED published
  <2>1. PICK chunks : /\ published' = [published EXCEPT ![FileSent] = chunks]
                      /\ \/ chunks = Chunks(Content)
                         \/ \E n \in 0 .. Content.size : chunks = SubSeq(Chunks(Content), 1, n)
    BY <1>2, PublishingIs
  <2>2. ASSUME NEW r \in Renders, published'[r] # NoChunks PROVE Beginning(published'[r])
    <3>1. CASE r = FileSent
      <4>1. Content.size \in Nat /\ published'[r] = chunks
        BY <2>1, <3>1 DEF StoreOK, Content
      <4> QED
        BY <2>1, <2>2, <4>1, BeginningIs, WholeChunks
    <3>2. CASE r # FileSent
      BY <2>1, <2>2, <3>2 DEF PublishedBegins, StoreOK
    <3> QED
      BY <3>1, <3>2
  <2> QED
    BY <2>2 DEF PublishedBegins, Beginning, Chunks
<1> QED
  BY <1>1, <1>2

LEMMA StagesInit ==
    ASSUME Init
    PROVE  TInv
<1>1. WorldOK
  <2>1. faults \in 0 .. MaxFaults
    BY StagesAssumption DEF Init
  <2>2. world.history \in Histories
    BY DEF Init
  <2>3. workspace \in 1 .. Len(world.history)
    BY <2>2, HistoryIs DEF Init
  <2> QED
    BY <2>1, <2>3 DEF Init, WorldOK
<1>2. JobOK
  <2>1. PICK listed \in BOOLEAN : job = NewJob(1, listed)
    BY DEF Init
  <2>2. CountShortMarkers(1) \in ShortNumbers \cup {0}
    BY <1>1, HistoryIs DEF WorldOK
  <2>3. workspace = 1
    BY DEF Init
  <2> QED
    BY <2>1, <2>2, <2>3 DEF NewJob, JobOK, RowStatus
<1>3. RunOK /\ run.stage = "idle" /\ run.props = <<>> /\ job.status = "pending"
  BY DEF Init, Idle, RunOK, StageName, NewJob
<1>4. StoreOK
  BY <1>1, HistoryIs DEF Init, StoreOK, Nothing, WorldOK
<1>5. PublishedBegins
  BY DEF Init, PublishedBegins
<1> QED
  BY <1>1, <1>2, <1>3, <1>4, <1>5
  DEF TInv, TypeOK, AtWork, LeftOK, InputsStand, AfterLong

LEMMA StagesNext ==
    ASSUME TInv, [Next]_vars
    PROVE  TInv'
<1>1. CASE Next
  <2>1. /\ WorldMoves /\ faults' \in 0 .. MaxFaults /\ JobOK'
        /\ RunOK' /\ (job'.status = "claimed" <=> run'.stage # "idle")
    BY <1>1, MovesStep DEF TInv, RunMoves
  <2>2. WorldOK'
    BY <2>1 DEF TInv, TypeOK, WorldOK, WorldMoves
  <2> QED
    BY <1>1, <2>1, <2>2, StoreStep, LeftStep, InputsStep, PublishedStep DEF TInv, TypeOK, AtWork
<1>2. CASE UNCHANGED vars
  <2>1. WorldOK' /\ JobOK' /\ RunOK' /\ AtWork'
    BY <1>2 DEF vars, TInv, TypeOK, WorldOK, JobOK, RunOK, AtWork, CountShortMarkers, Script
  <2>2. StoreOK' /\ PublishedBegins'
    BY <1>2, WorldStays DEF vars, TInv, TypeOK, StoreOK, PublishedBegins, Beginning, Chunks
  <2>3. LeftOK'
    <3>1. WorldMoves /\ RowMoves /\ UNCHANGED <<run>>
      BY <1>2, HistoryIs, RowStays DEF vars, TInv, TypeOK, WorldOK, WorldMoves
    <3> QED
      BY <3>1, EntriesStay DEF TInv, TypeOK, LeftOK
  <2>4. (<<BuildInputProps(AllIds)>>)' = <<BuildInputProps(AllIds)>>
    BY <1>2, PropsStay DEF vars
  <2>5. InputsStand'
    BY <1>2, <2>4, InputsStay DEF vars, TInv, InputsStand
  <2> QED
    BY <2>1, <2>2, <2>3, <2>5 DEF TInv, TypeOK
<1> QED
  BY <1>1, <1>2

\* Whatever the runner and the two endpoints do, and however often the script is
\* written meanwhile, the state is of its type, the row of the job and the runner
\* agree on whether it is at work, and what a render is prepared from stands
\* until it is drawn.
THEOREM StagesTyped == Spec => []TInv
<1>1. Init => TInv
  BY StagesInit
<1>2. TInv /\ [Next]_vars => TInv'
  BY StagesNext
<1> QED
  BY <1>1, <1>2, PTL DEF Spec

-----------------------------------------------------------------------------
(* What is downloaded, rendered and sent is of the version of the job *)

\* What is in the directory was put there by this job, or by one for an earlier version.
DirIsPast == \A f \in Files : dir[f] # 0 => ServerFile(job.version, f) # 0

Synced(fs) == \A f \in fs : dir[f] = ServerFile(job.version, f)

SyncKept ==
    /\ run.stage = "sync" => Synced(Entries \ run.left)
    /\ job.listed /\ run.stage \in AfterSync => Synced(Files)
    /\ run.stage \in AfterLong \cup {"render_long"} => bundle.dir = dir

\* A soundtrack that is declared is mixed anew before anything plays it.
MixKept ==
    job.listed /\ Script(job.version).soundtrack =>
        /\ run.stage \in {"bundle", "render_long"} \cup AfterLong => out[MixedTrack] = Mix(FreshDir)
        /\ run.stage \in {"render_long"} \cup AfterLong => bundle.mixed = Mix(FreshDir)

Good(content) == content.size > 0 /\ Fresh(content)
Made(n) == \A k \in (1 .. n) \ run.warnings : Good(out[Short(k)])

RendersKept ==
    job.listed =>
        /\ run.stage \in AfterLong => Good(out[Long])
        /\ run.stage = "shorts" => Made(run.step - 1)
        /\ run.stage \in {"upload", "complete"} => Made(job.expected)

SendingKept ==
    /\ run.stage \notin {"idle", "upload", "complete"} => run.artifacts = {}
    /\ run.stage = "upload" => run.artifacts \in {{}, RenderFiles}
    /\ run.stage = "upload" /\ run.artifacts # {} => run.left # {}
    /\ run.stage = "complete" => run.artifacts = RenderFiles

\* What is published was made here.
PublishedIsMade == \A r \in Renders : published[r] # NoChunks => out[r] # Nothing

AInv ==
    /\ TInv /\ DirIsPast /\ SyncKept /\ MixKept /\ RendersKept /\ SendingKept
    /\ ArtifactsAreThisJobs /\ PublishedIsMade /\ PublishedIsWhole

LEMMA VersionStays ==
    ASSUME JobOK, WorldMoves, RowMoves
    PROVE  /\ job'.version = job.version /\ job'.listed = job.listed
           /\ job'.expected = job.expected
           /\ \A f : ServerFile(job.version, f)' = ServerFile(job.version, f)
           /\ Script(job.version)' = Script(job.version) /\ Mix(FreshDir)' = Mix(FreshDir)
           /\ \A c : Good(c)' = Good(c)
<1>1. /\ job'.version = job.version /\ job'.listed = job.listed
      /\ job'.expected = job.expected
  BY DEF JobOK, RowMoves
<1>2. \A f : ServerFile(job.version, f)' = ServerFile(job.version, f)
  BY <1>1 DEF ServerFile, Writes, SegmentIds, Segment, Script, WorldMoves
<1>3. Script(job.version)' = Script(job.version)
  BY <1>1 DEF Script, WorldMoves
<1>4. Mix(FreshDir)' = Mix(FreshDir)
  <2>1. Files' = Files
    BY WorldStays DEF WorldMoves
  <2>2. FreshDir' = FreshDir
    BY <1>2, <2>1 DEF FreshDir
  <2>3. TimelinesOf(FreshDir)' = TimelinesOf(FreshDir)
    BY <2>1, <2>2 DEF TimelinesOf
  <2>4. NarrationsOf(FreshDir)' = NarrationsOf(FreshDir)
    BY <2>1, <2>2, <2>3 DEF NarrationsOf
  <2> QED
    BY <2>2, <2>3, <2>4 DEF Mix, Soundtrack
<1>5. \A c : Fresh(c)' = Fresh(c)
  BY <1>2, <1>3, <1>4 DEF Fresh
<1> QED
  BY <1>1, <1>2, <1>3, <1>4, <1>5 DEF Good

\* The ways a step may leave the runner, by what the stages have to keep.
Settles == run'.stage = "idle"
Remains ==
    /\ run'.stage = run.stage /\ run'.left = run.left /\ run'.artifacts = run.artifacts
    /\ run'.step = run.step /\ run'.warnings = run.warnings

LEMMA EditsRemain ==
    ASSUME RunOK
    PROVE  /\ UNCHANGED run => Remains
           /\ \A n : run' = [run EXCEPT !.try = n] => Remains
           /\ \A n : run' = [run EXCEPT !.chunk = n] => Remains
           /\ \A n : run' = [run EXCEPT !.try = n, !.chunk = 0] => Remains
           /\ \A ps, n : run' = [run EXCEPT !.props = ps, !.frames = n] => Remains
BY DEF RunOK, Remains

LEMMA DirStep ==
    ASSUME TInv, DirIsPast, Next
    PROVE  DirIsPast'
<1> USE DEF TInv, TypeOK
<1>1. /\ WorldMoves /\ Files' = Files
      /\ RowMoves \/ Enqueue
  BY MovesStep, WorldStays DEF WorldMoves
<1>2. CASE UNCHANGED dir /\ RowMoves
  BY <1>1, <1>2, VersionStays DEF DirIsPast
<1>3. CASE DownloadFile /\ dir' = [dir EXCEPT ![FileUnderWay] = ServerFile(job.version, FileUnderWay)]
  <2>1. RowMoves
    BY <1>1, <1>3 DEF Enqueue, DownloadFile, In, AtWork
  <2> QED
    BY <1>1, <1>3, <2>1, VersionStays DEF DirIsPast, StoreOK
<1>4. CASE Enqueue
  <2>1. UNCHANGED dir /\ world' = world /\ job'.version = workspace
    BY <1>4 DEF Enqueue, NewJob, Local
  <2>2. ASSUME NEW f \in Files, dir[f] # 0 PROVE ServerFile(workspace, f) # 0
    <3>1. workspace \in Nat /\ job.version \in Nat /\ job.version <= workspace
      BY HistoryIs DEF WorldOK, JobOK
    <3> QED
      BY <2>2, <3>1, FilesStay DEF DirIsPast
  <2>3. \A f : ServerFile(job.version, f)' = ServerFile(workspace, f)
    BY <2>1 DEF ServerFile, Writes, SegmentIds, Segment, Script
  <2> QED
    BY <1>1, <2>1, <2>2, <2>3 DEF DirIsPast
<1> QED
  BY <1>1, <1>2, <1>3, <1>4
  DEF Next, Runner, Claim, SkipSync, DownloadFile, MixSoundtrack, MakeBundle, RefuseInputs,
      PrepareLong, RenderFrame, FinishLong, RefuseShorts, RenderShort, FinishShorts,
      CollectRenderFiles, SendChunk, Finalize, CompleteJob, DropJob, RequestCancel, Crash, Rewrite,
      Local, Mismatch, Verified

LEMMA BundleIs ==
    ASSUME MakeBundle
    PROVE  run' = Idle \/ (GoOn /\ bundle' = [dir |-> dir, mixed |-> out[MixedTrack]])
<1>1. FailJob(TRUE) => run' = Idle
  BY DEF FailJob
<1>2. ReportThen(GoOn) => GoOn \/ FailJob(TRUE)
  BY DEF ReportThen
<1> QED
  BY <1>1, <1>2 DEF MakeBundle

LEMMA SyncStep ==
    ASSUME TInv, DirIsPast, SyncKept, Next
    PROVE  SyncKept'
<1> USE DEF TInv, TypeOK
<1>1. /\ WorldMoves /\ Files' = Files /\ RunOK'
      /\ RowMoves \/ (Enqueue /\ run' = Idle)
  BY MovesStep, WorldStays DEF WorldMoves, RunMoves, Enqueue
<1>2. CASE Settles
  BY <1>2 DEF Settles, SyncKept, AfterSync, AfterLong
<1>3. CASE run' = Idle
  BY <1>2, <1>3, IdleIs DEF Settles
<1>4. ASSUME RowMoves
      PROVE  /\ Entries' = Entries /\ job'.listed = job.listed
             /\ \A f : ServerFile(job.version, f)' = ServerFile(job.version, f)
  BY <1>1, <1>4, EntriesStay, VersionStays
<1>5. ASSUME UNCHANGED <<dir, bundle>>, RowMoves, run'.stage = run.stage,
             run.stage = "sync" => run'.left = run.left
      PROVE  SyncKept'
  <2>1. /\ run.stage = "sync" /\ Synced(Entries \ run.left) => Synced(Entries \ run.left)'
        /\ Synced(Files) => Synced(Files)'
    BY <1>1, <1>4, <1>5 DEF Synced
  <2> QED
    BY <1>1, <1>4, <1>5, <2>1 DEF SyncKept, Synced
<1>6. ASSUME UNCHANGED <<dir, bundle>>, RowMoves, GoOn,
             run.stage \in {"soundtrack", "render_long", "shorts", "upload"}
      PROVE  SyncKept'
  <2>1. Synced(Files) => Synced(Files)'
    BY <1>1, <1>4, <1>6 DEF Synced
  <2>2. run'.stage = Following(run.stage)
    BY <1>6, GoOnIs DEF StageName, AfterSync
  <2> QED
    BY <1>1, <1>4, <1>6, <2>1, <2>2, FollowingStage DEF SyncKept, AfterSync, AfterLong
<1>7. ASSUME Synced(Entries)', DirIsPast', RowMoves, GoOn, run.stage = "sync" PROVE SyncKept'
  <2>1. run'.stage = "soundtrack"
    BY <1>7, GoOnIs, FollowingStage DEF StageName
  <2>2. job.listed => Synced(Files)'
    <3> SUFFICES ASSUME job.listed, NEW f \in Files PROVE dir'[f] = ServerFile(job.version, f)'
      BY <1>1 DEF Synced
    <3>1. CASE f \in Entries
      BY <1>4, <1>7, <3>1 DEF Synced
    <3>2. CASE f \notin Entries
      <4>1. ServerFile(job.version, f) = 0
        BY <3>2 DEF Entries, Manifest
      <4>2. dir'[f] = 0
        BY <1>1, <1>4, <1>7, <4>1 DEF DirIsPast
      <4> QED
        BY <1>4, <1>7, <4>1, <4>2
    <3> QED
      BY <3>1, <3>2
  <2> QED
    BY <1>4, <1>7, <2>1, <2>2 DEF SyncKept, AfterSync, AfterLong
<1>8. CASE Claim
  <2>1. run'.stage = "sync" /\ run'.left = Entries
    BY <1>8 DEF Claim, Idle
  <2>2. RowMoves
    BY <1>1, <1>8 DEF Claim, Idle
  <2>3. Synced(Entries \ run.left)'
    BY <1>4, <2>1, <2>2 DEF Synced
  <2> QED
    BY <2>1, <2>3 DEF SyncKept, AfterSync, AfterLong
<1>9. CASE SkipSync
  <2>1. run' = Idle \/ (GoOn /\ Synced(Entries) /\ UNCHANGED dir /\ run.stage = "sync")
    BY <1>9 DEF SkipSync, ReportThen, FailJob, Checked, In, Local, SyncKept
  <2>2. DirIsPast'
    BY DirStep
  <2>3. RowMoves \/ run' = Idle
    BY <1>1
  <2>4. Synced(Entries) /\ UNCHANGED dir /\ RowMoves => Synced(Entries)'
    BY <1>1, <1>4 DEF Synced
  <2> QED
    BY <1>3, <1>7, <2>1, <2>2, <2>3, <2>4
<1>10. CASE DownloadFile /\ Mismatch
  <2>1. run' = Idle \/ run' = [run EXCEPT !.try = 1]
    BY <1>10 DEF Mismatch, FailJob
  <2>2. UNCHANGED <<dir, bundle>>
    BY <1>10 DEF DownloadFile, Mismatch
  <2> QED
    BY <1>1, <1>3, <1>5, <2>1, <2>2, EditsRemain DEF Remains
<1>11. CASE DownloadFile /\ Verified
  <2>1. CASE run' = Idle
    BY <1>3, <2>1
  <2>2. CASE run' # Idle
    <3>1. RowMoves
      BY <1>1, <2>2
    <3>2. run.stage = "sync" /\ run.left # {} /\ UNCHANGED bundle
      BY <1>11 DEF DownloadFile, In
    <3>3. FileUnderWay \in Files
      BY <3>2, UnderWayIs
    <3>4. dir' = [dir EXCEPT ![FileUnderWay] = ServerFile(job.version, FileUnderWay)]
      BY <1>11 DEF Verified
    <3>5. \A f \in (Entries \ run.left) \cup {FileUnderWay} :
              dir'[f] = ServerFile(job.version, f)'
      <4>1. Entries \subseteq DOMAIN dir
        BY <1>1, <3>1, EntriesStay DEF StoreOK
      <4> QED
        BY <1>4, <3>1, <3>2, <3>3, <3>4, <4>1 DEF SyncKept, Synced, StoreOK
    <3>6. \/ LastFile /\ GoOn
          \/ NextFile
      BY <1>11, <2>2 DEF Verified, ReportThen, FailJob
    <3>7. CASE LastFile /\ GoOn
      <4>1. Synced(Entries)'
        BY <1>4, <3>1, <3>5, <3>7 DEF Synced, LastFile
      <4> QED
        BY <1>7, <3>1, <3>2, <3>7, <4>1, DirStep
    <3>8. CASE NextFile
      <4>1. run'.stage = "sync" /\ run'.left = run.left \ {FileUnderWay}
        BY <3>2, <3>8 DEF NextFile, RunOK
      <4>2. Synced(Entries \ run.left)'
        BY <1>4, <3>1, <3>5, <4>1 DEF Synced
      <4> QED
        BY <4>1, <4>2 DEF SyncKept, AfterSync, AfterLong
    <3> QED
      BY <3>6, <3>7, <3>8
  <2> QED
    BY <2>1, <2>2
<1>12. CASE MixSoundtrack
  <2>1. run' = Idle \/ (GoOn /\ run.stage = "soundtrack" /\ UNCHANGED <<dir, bundle>>)
    BY <1>12 DEF MixSoundtrack, ReportThen, FailJob, Checked, In
  <2> QED
    BY <1>1, <1>3, <1>6, <2>1
<1>13. CASE MakeBundle
  <2>1. \/ run' = Idle
        \/ GoOn /\ run.stage = "bundle" /\ UNCHANGED dir /\ bundle'.dir = dir
    <3>1. run' = Idle \/ (GoOn /\ bundle' = [dir |-> dir, mixed |-> out[MixedTrack]])
      BY <1>13, BundleIs
    <3>2. bundle' = [dir |-> dir, mixed |-> out[MixedTrack]] => bundle'.dir = dir
      OBVIOUS
    <3> QED
      BY <1>13, <3>1, <3>2 DEF MakeBundle, Checked, In
  <2>2. CASE GoOn /\ run.stage = "bundle" /\ UNCHANGED dir /\ bundle'.dir = dir /\ RowMoves
    <3>1. run'.stage = "render_long"
      BY <2>2, GoOnIs, FollowingStage DEF StageName, AfterSync
    <3>2. Synced(Files) => Synced(Files)'
      BY <1>1, <1>4, <2>2 DEF Synced
    <3> QED
      BY <1>4, <2>2, <3>1, <3>2 DEF SyncKept, AfterSync, AfterLong
  <2> QED
    BY <1>1, <1>3, <2>1, <2>2
<1> DEFINE Keeps == run'.stage = run.stage /\ run.stage # "sync"
<1>14. CASE \/ RefuseInputs \/ PrepareLong \/ RenderFrame \/ FinishLong \/ RefuseShorts
            \/ RenderShort \/ FinishShorts \/ CollectRenderFiles \/ SendChunk \/ Finalize
            \/ CompleteJob \/ DropJob
  <2>1. UNCHANGED <<dir, bundle>>
    BY <1>14
    DEF RefuseInputs, PrepareLong, RenderFrame, FinishLong, RefuseShorts, RenderShort,
        FinishShorts, CollectRenderFiles, SendChunk, Finalize, CompleteJob, DropJob, Local
  <2>2. /\ \A n : run' = [run EXCEPT !.step = n] => run'.stage = run.stage
        /\ \A n, ws : run' = [run EXCEPT !.step = n, !.warnings = ws] => run'.stage = run.stage
        /\ \A x : run' = [run EXCEPT !.left = @ \ {x}, !.try = 0, !.chunk = 0]
                      => run'.stage = run.stage
        /\ \A rs : run' = [run EXCEPT !.artifacts = rs, !.left = rs] => run'.stage = run.stage
        /\ run' = [run EXCEPT !.stage = "idle"] => Settles
    BY DEF RunOK, Settles
  <2>3. \/ run' = Idle \/ Settles \/ Keeps
        \/ GoOn /\ run.stage \in {"render_long", "shorts", "upload"}
    <3> HIDE DEF Settles
    <3> QED
      BY <1>14, <2>2, EditsRemain
      DEF RefuseInputs, PrepareLong, RenderFrame, FinishLong, RefuseShorts, RenderShort,
          FinishShorts, CollectRenderFiles, SendChunk, Finalize, CompleteJob, DropJob, Leave,
          Checked, In, FailJob, ReportThen, TryAgain, FileDone, Warn, Remains
  <2>4. RowMoves \/ run' = Idle
    BY <1>1
  <2> QED
    BY <1>2, <1>3, <1>5, <1>6, <2>1, <2>3, <2>4
<1>15. CASE RequestCancel \/ Rewrite
  <2>1. UNCHANGED <<run, dir, bundle>>
    BY <1>15 DEF RequestCancel, Rewrite, Local
  <2> QED
    BY <1>1, <1>3, <1>5, <2>1
<1>16. CASE Crash \/ Enqueue
  BY <1>3, <1>16 DEF Crash, Leave, Enqueue
<1> QED
  BY <1>3, <1>8, <1>9, <1>10, <1>11, <1>12, <1>13, <1>14, <1>15, <1>16
  DEF Next, Runner, DownloadFile, FailJob

LEMMA WrittenIsHere ==
    ASSUME TInv, SyncKept, job.listed, run.stage \in AfterSync, NEW f \in Writes(job.version)
    PROVE  f \in Files /\ dir[f] = job.version /\ job.version # 0
<1> USE DEF TInv, TypeOK
<1>1. job.version \in Nat \ {0} /\ job.version \in DOMAIN world.history
  BY HistoryIs DEF WorldOK, JobOK
<1>2. f \in Files
  BY <1>1 DEF Files
<1>3. ServerFile(job.version, f) \in 0 .. job.version /\ job.version <= ServerFile(job.version, f)
  BY <1>1, LastWriter
<1>4. ServerFile(job.version, f) = job.version
  BY <1>1, <1>3
<1> QED
  BY <1>1, <1>2, <1>4 DEF SyncKept, Synced

\* Past sync the directory is that of the job.
LEMMA DirIsFresh ==
    ASSUME TInv, SyncKept, job.listed, run.stage \in AfterSync
    PROVE  dir = FreshDir /\ LocalScript = Script(job.version)
<1>1. dir \in [Files -> 0 .. Len(world.history)] /\ Synced(Files)
  BY DEF TInv, TypeOK, StoreOK, SyncKept
<1>2. dir = FreshDir
  BY <1>1 DEF Synced, FreshDir
<1>3. <<"script", "">> \in Writes(job.version)
  BY DEF Writes
<1>4. LocalScript = Script(job.version)
  BY <1>3, WrittenIsHere DEF LocalScript
<1> QED
  BY <1>2, <1>4

LEMMA MixStep ==
    ASSUME TInv, SyncKept, MixKept, Next
    PROVE  MixKept'
<1> USE DEF TInv, TypeOK
<1> DEFINE Mixing == {"bundle", "render_long"} \cup AfterLong
<1>1. /\ WorldMoves /\ RunOK /\ RunOK'
      /\ RowMoves \/ (Enqueue /\ run' = Idle)
  BY MovesStep DEF RunMoves, Enqueue
<1>2. CASE run'.stage \notin Mixing
  BY <1>2 DEF MixKept
<1>3. CASE run' = Idle
  BY <1>2, <1>3, IdleIs DEF AfterLong
<1>4. ASSUME RowMoves
      PROVE  /\ job'.listed = job.listed /\ Script(job.version)' = Script(job.version)
             /\ Mix(FreshDir)' = Mix(FreshDir)
  BY <1>1, <1>4, VersionStays
<1>5. ASSUME RowMoves, out'[MixedTrack] = out[MixedTrack], UNCHANGED bundle, run.stage \in Mixing,
             run'.stage \in {"render_long"} \cup AfterLong => run.stage # "bundle"
      PROVE  MixKept'
  BY <1>4, <1>5 DEF MixKept
<1>6. CASE MixSoundtrack
  <2>1. run.stage = "soundtrack" /\ (run' = Idle \/ GoOn)
    BY <1>6 DEF MixSoundtrack, Checked, In, ReportThen, FailJob
  <2>2. CASE run' # Idle
    <3>1. RowMoves /\ GoOn /\ run'.stage = "bundle"
      BY <1>1, <2>1, <2>2, GoOnIs, FollowingStage DEF StageName, AfterSync
    <3>2. ASSUME job.listed, Script(job.version).soundtrack
          PROVE  out'[MixedTrack] = Mix(FreshDir)
      <4>1. dir = FreshDir /\ LocalScript = Script(job.version)
        BY <2>1, <3>2, DirIsFresh DEF AfterSync
      <4>2. out' = [out EXCEPT ![MixedTrack] = Mixed]
        BY <1>6, <2>2, <3>2, <4>1 DEF MixSoundtrack, FailJob
      <4> QED
        BY <4>1, <4>2 DEF Mixed, StoreOK
    <3>3. run'.stage \notin {"render_long"} \cup AfterLong
      BY <3>1 DEF AfterLong
    <3> QED
      BY <1>4, <3>1, <3>2, <3>3 DEF MixKept
  <2> QED
    BY <1>3, <2>2
<1>7. CASE MakeBundle
  <2>1. /\ run.stage = "bundle" /\ UNCHANGED out
        /\ run' = Idle \/ (GoOn /\ bundle'.mixed = out[MixedTrack])
    <3>1. run' = Idle \/ (GoOn /\ bundle' = [dir |-> dir, mixed |-> out[MixedTrack]])
      BY <1>7, BundleIs
    <3>2. bundle' = [dir |-> dir, mixed |-> out[MixedTrack]] => bundle'.mixed = out[MixedTrack]
      OBVIOUS
    <3> QED
      BY <1>7, <3>1, <3>2 DEF MakeBundle, Checked, In
  <2>2. CASE run' # Idle
    BY <1>1, <1>4, <2>1, <2>2 DEF MixKept
  <2> QED
    BY <1>3, <2>2
<1>8. CASE FinishLong \/ RenderShort
  <2>1. \E r \in {Long} \cup {Short(n) : n \in Nat} :
            UNCHANGED out \/ \E c : out' = [out EXCEPT ![r] = c]
    BY <1>8 DEF FinishLong, RenderShort, RunOK
  <2>2. out'[MixedTrack] = out[MixedTrack]
    BY <2>1 DEF StoreOK, Long, Short, MixedTrack
  <2>3. run.stage \in {"render_long", "shorts"} /\ UNCHANGED bundle
    BY <1>8 DEF FinishLong, RenderShort, Checked, In
  <2> QED
    BY <1>1, <1>3, <1>5, <2>2, <2>3 DEF AfterLong
<1>9. CASE \/ RefuseInputs \/ PrepareLong \/ RenderFrame \/ RefuseShorts \/ FinishShorts
           \/ CollectRenderFiles \/ SendChunk \/ Finalize \/ CompleteJob
  <2>1. run.stage \in {"render_long"} \cup AfterLong /\ UNCHANGED <<out, bundle>>
    BY <1>9
    DEF RefuseInputs, PrepareLong, RenderFrame, RefuseShorts, FinishShorts, CollectRenderFiles,
        SendChunk, Finalize, CompleteJob, Checked, In, Local, AfterLong
  <2> QED
    BY <1>1, <1>3, <1>5, <2>1 DEF AfterLong
<1>10. CASE RequestCancel \/ Rewrite
  <2>1. UNCHANGED <<run, out, bundle>>
    BY <1>10 DEF RequestCancel, Rewrite, Local
  <2> QED
    BY <1>1, <1>2, <1>3, <1>5, <2>1 DEF AfterLong
<1>11. CASE DropJob \/ Crash \/ Enqueue
  BY <1>3, <1>11 DEF DropJob, Crash, Leave, Enqueue
<1>12. CASE Claim
  BY <1>2, <1>12 DEF Claim, Idle, AfterLong
<1>13. CASE SkipSync \/ DownloadFile
  <2>1. run.stage = "sync" /\ (run' = Idle \/ GoOn \/ run'.stage = "sync")
    BY <1>13, EditsStay
    DEF SkipSync, DownloadFile, Checked, In, ReportThen, Mismatch, Verified, NextFile, FailJob, Stays
  <2> QED
    BY <1>1, <1>2, <1>3, <2>1, GoOnIs, FollowingStage DEF AfterLong, StageName
<1> QED
  BY <1>6, <1>7, <1>8, <1>9, <1>10, <1>11, <1>12, <1>13 DEF Next, Runner

\* A render of a part of the script is of the files the manifest lists.
LEMMA RenderedIsGood ==
    ASSUME TInv, SyncKept, MixKept, job.listed, HasScript, GoodInputs,
           run.stage \in AfterLong \cup {"render_long"},
           NEW name, NEW ids, ids \subseteq AllIds, ids # {}
    PROVE  Good(Rendered(name, ids))
<1> USE DEF TInv, TypeOK
<1>1. /\ Synced(Files) /\ bundle.dir = dir
  BY DEF SyncKept, AfterSync, AfterLong
<1>2. Rendered(name, ids).size > 0
  <2>1. IsFiniteSet(ids)
    BY IdsFinite, FS_Subset
  <2>2. Cardinality(ids) \in Nat /\ Cardinality(ids) # 0
    BY <2>1, FS_CardinalityType, FS_EmptySet
  <2> QED
    BY <2>2 DEF Rendered
<1>3. ASSUME NEW id \in ids PROVE <<"timelines", id>> \in Files /\ <<"audio", id>> \in Files
  <2>1. PICK s \in ToSet(LocalScript.segments) : id = s.id
    BY DEF AllIds
  <2>2. Accepted(s)
    BY DEF GoodInputs
  <2> QED
    BY <2>1, <2>2 DEF Accepted
<1>4. <<"script", "">> \in Files
  BY ScriptIsFile
<1>5. \A p \in Rendered(name, ids).files : p[2] = ServerFile(job.version, p[1])
  <2> DEFINE Read == {<<"script", "">>} \cup {<<"timelines", id>> : id \in ids}
             Heard == {<<"audio", id>> : id \in ids}
  <2>1. Rendered(name, ids).files = {<<f, dir[f]>> : f \in Read} \cup {<<f, bundle.dir[f]>> : f \in Heard}
    BY DEF Rendered
  <2>2. \A f \in Read \cup Heard :
            dir[f] = ServerFile(job.version, f) /\ bundle.dir[f] = ServerFile(job.version, f)
    <3>1. Read \cup Heard \subseteq Files
      BY <1>3, <1>4
    <3> HIDE DEF Read, Heard
    <3> QED
      BY <1>1, <3>1 DEF Synced
  <2> HIDE DEF Read, Heard
  <2> QED
    BY <2>1, <2>2
<1>6. Script(job.version).soundtrack => Rendered(name, ids).mixed = Mix(FreshDir)
  BY DEF Rendered, MixKept
<1> QED
  BY <1>2, <1>5, <1>6 DEF Good, Fresh

\* Every number planned is borne by a segment.
LEMMA CutIsSome ==
    ASSUME TInv, HasScript, Planned, NEW n \in 1 .. job.expected
    PROVE  CutIds(n) \subseteq AllIds /\ CutIds(n) # {}
<1> DEFINE segs == LocalScript.segments
<1>1. /\ IsSequence(segs)
      /\ \A s \in ToSet(segs) : IsSequence(s.markers) /\ \A m \in ToSet(s.markers) : m.n \in Nat
      /\ CutIds(n) \subseteq AllIds
  BY LocalScriptIs, IdsFinite DEF TInv, TypeOK
<1>2. n \in Numbers(segs)
  <2>1. InSequence(segs) /\ n \in 1 .. Cardinality(Numbers(segs))
    BY DEF Planned, Cuts
  <2> HIDE DEF segs
  <2> QED
    BY <1>1, <2>1, NoNumberLeftOut
<1>3. PICK p \in Marks(segs) : Marker(segs, p).n = n
  BY <1>2 DEF Numbers
<1>4. PICK i \in DOMAIN segs : \E k \in DOMAIN segs[i].markers : p = <<i, k>>
  BY DEF Marks
<1>5. PICK k \in DOMAIN segs[i].markers : p = <<i, k>>
  BY <1>4
<1>6. segs[i] \in ToSet(segs) /\ segs[i].markers[k] \in ToSet(segs[i].markers)
  BY DEF ToSet
<1>7. segs[i].id \in CutIds(n)
  BY <1>3, <1>5, <1>6 DEF CutIds, Marker
<1> QED
  BY <1>1, <1>7

LEMMA RendersStep ==
    ASSUME TInv, SyncKept, MixKept, RendersKept, Next
    PROVE  RendersKept'
<1> USE DEF TInv, TypeOK
<1>1. /\ WorldMoves /\ RunOK /\ RunOK'
      /\ RowMoves \/ (Enqueue /\ run' = Idle)
  BY MovesStep DEF RunMoves, Enqueue
<1>2. CASE run'.stage \notin AfterLong
  BY <1>2 DEF RendersKept, AfterLong
<1>3. CASE run' = Idle
  BY <1>2, <1>3, IdleIs DEF AfterLong
<1>4. ASSUME RowMoves
      PROVE  /\ job'.listed = job.listed /\ job'.expected = job.expected
             /\ \A c : Good(c)' = Good(c)
  BY <1>1, <1>4, VersionStays
<1>5. ASSUME RowMoves, NEW r, out'[r] = out[r] PROVE Good(out[r])' = Good(out[r])
  BY <1>1, <1>5, VersionStays DEF Good, Fresh
<1>6. ASSUME RowMoves, UNCHANGED out, run'.warnings = run.warnings
      PROVE  /\ Good(out[Long])' = Good(out[Long])
             /\ \A n : Made(n)' = Made(n)
  <2>1. \A k : Good(out[Short(k)])' = Good(out[Short(k)])
    BY <1>6, <1>1, VersionStays DEF Good, Fresh
  <2> QED
    BY <1>6, <1>5, <2>1 DEF Made
<1>7. ASSUME RowMoves, UNCHANGED out, Remains PROVE RendersKept'
  <2>1. Made(run.step - 1)' = Made(run.step - 1) /\ Made(job.expected)' = Made(job.expected)
    BY <1>4, <1>6, <1>7 DEF Remains, Made
  <2> QED
    BY <1>4, <1>6, <1>7, <2>1 DEF RendersKept, Remains
<1>8. CASE \/ Claim \/ SkipSync \/ DownloadFile \/ MixSoundtrack \/ MakeBundle
           \/ RefuseInputs \/ PrepareLong \/ RenderFrame \/ RefuseShorts \/ DropJob \/ Crash
           \/ Enqueue \/ CompleteJob
  <2>1. /\ \A fs : run' = [run EXCEPT !.left = fs, !.try = 0] => run'.stage = run.stage
        /\ \A n : run' = [run EXCEPT !.step = n] => run'.stage = run.stage
        /\ run' = [run EXCEPT !.stage = "idle"] => run'.stage = "idle"
        /\ run' = [Idle EXCEPT !.stage = "sync", !.left = Entries] => run'.stage = "sync"
    BY DEF RunOK, Idle
  <2>2. run' = Idle \/ (run'.stage = run.stage /\ run.stage \in {"sync", "render_long"})
        \/ run'.stage \in {"idle", "sync"} \/ (GoOn /\ run.stage \in {"sync", "soundtrack", "bundle"})
    BY <1>8, <2>1, EditsRemain
    DEF Claim, SkipSync, DownloadFile, Mismatch, Verified, NextFile, MixSoundtrack, MakeBundle,
        RefuseInputs, PrepareLong, RenderFrame, RefuseShorts, DropJob, Crash, Enqueue, CompleteJob,
        Checked, In, FailJob, Leave, ReportThen, Remains
  <2> QED
    BY <1>1, <1>2, <1>3, <2>2, GoOnIs, FollowingStage DEF AfterLong, StageName, AfterSync
<1>9. CASE FinishLong
  <2>1. /\ run.stage = "render_long" /\ HasScript /\ GoodInputs /\ GoOn
        /\ out' = [out EXCEPT ![Long] = Rendered(Long, AllIds)]
    BY <1>9 DEF FinishLong, Drawing, InputsStand
  <2>2. run'.stage = "shorts" /\ run'.step = 1
    BY <1>1, <2>1, GoOnIs, FollowingStage DEF StageName, AfterSync
  <2>3. RowMoves
    BY <2>1, RowStays DEF GoOn
  <2>4. AllIds # {}
    <3>1. IsSequence(LocalScript.segments) /\ LocalScript.segments # <<>>
      BY <2>1, LocalScriptIs DEF GoodInputs
    <3>2. Len(LocalScript.segments) \in Nat /\ DOMAIN LocalScript.segments = 1 .. Len(LocalScript.segments)
      BY <3>1, SequenceFinite
    <3>3. 1 \in DOMAIN LocalScript.segments
      <4>1. Len(LocalScript.segments) # 0
        BY <3>1 DEF IsSequence
      <4> QED
        BY <3>2, <4>1
    <3>4. LocalScript.segments[1] \in ToSet(LocalScript.segments)
      BY <3>3 DEF ToSet
    <3> QED
      BY <3>4 DEF AllIds
  <2>5. job.listed => Good(Rendered(Long, AllIds))
    BY <2>1, <2>4, RenderedIsGood
  <2>6. out'[Long] = Rendered(Long, AllIds)
    BY <2>1 DEF StoreOK, Renders
  <2>7. \A c : Good(c)' = Good(c)
    BY <1>4, <2>3
  <2>8. job.listed => Good(out[Long])'
    BY <2>5, <2>6, <2>7 DEF Good, Fresh
  <2>9. Made(run.step - 1)'
    BY <2>2 DEF Made
  <2> QED
    BY <1>4, <2>2, <2>3, <2>8, <2>9 DEF RendersKept
<1>10. CASE RenderShort
  <2>1. /\ run.stage = "shorts" /\ HasScript /\ Planned /\ GoodInputs
        /\ run.step \in Nat \ {0} /\ run.step <= job.expected /\ job.expected \in Nat
    BY <1>1, <1>10, StagesAssumption
    DEF RenderShort, Checked, In, InputsStand, AfterLong, RunOK, JobOK, ShortNumbers
  <2>2. RowMoves
    BY <1>10, RowStays DEF RenderShort
  <2> DEFINE n == run.step
             content == Rendered(Short(n), CutIds(n))
  <2>3. \/ run' = [run EXCEPT !.step = n + 1] /\ out' = [out EXCEPT ![Short(n)] = content]
        \/ /\ run' = [run EXCEPT !.step = n + 1, !.warnings = run.warnings \cup {n}]
           /\ UNCHANGED out \/ out' = [out EXCEPT ![Short(n)] = content]
    BY <1>10 DEF RenderShort, Warn
  <2>4. run'.stage = "shorts" /\ run'.step = n + 1
        /\ (n \notin run'.warnings => out' = [out EXCEPT ![Short(n)] = content])
        /\ run.warnings \subseteq run'.warnings
    BY <1>1, <2>1, <2>3 DEF RunOK
  <2>5. \A r \in Renders \ {Short(n)} : out'[r] = out[r]
    BY <2>3 DEF StoreOK
  <2>6. n \in 1 .. job.expected /\ job.expected \in 0 .. MaxShorts
    BY <2>1, StagesAssumption DEF JobOK, ShortNumbers
  <2>7. \A k \in 1 .. n : Short(k) \in Renders /\ Short(k) # Long /\ (k # n => Short(k) # Short(n))
    BY <2>6, StagesAssumption DEF Short, Long, Renders, ShortNumbers
  <2>8. job.listed => Good(content)
    <3>1. CutIds(n) \subseteq AllIds /\ CutIds(n) # {}
      BY <2>1, <2>6, CutIsSome
    <3> QED
      BY <2>1, <3>1, RenderedIsGood DEF AfterLong
  <2>9. job.listed => Good(out[Long])'
    <3>1. out'[Long] = out[Long]
      BY <2>5, <2>6, <2>7 DEF Renders
    <3> QED
      BY <1>5, <2>1, <2>2, <3>1 DEF RendersKept, AfterLong
  <2>10. job.listed => Made(run.step - 1)'
    <3> SUFFICES ASSUME job.listed, NEW k \in 1 .. n, k \notin run'.warnings
                 PROVE  Good(out[Short(k)])'
      BY <2>1, <2>4 DEF Made
    <3>1. CASE k = n
      <4>1. out'[Short(k)] = content
        BY <2>4, <2>7, <3>1 DEF StoreOK
      <4>2. /\ \A f : ServerFile(job.version, f)' = ServerFile(job.version, f)
            /\ Script(job.version)' = Script(job.version) /\ Mix(FreshDir)' = Mix(FreshDir)
        BY <1>1, <2>2, VersionStays
      <4> HIDE DEF content
      <4> QED
        BY <2>8, <4>1, <4>2 DEF Good, Fresh
    <3>2. CASE k # n
      <4>1. out'[Short(k)] = out[Short(k)]
        BY <2>5, <2>7, <3>2
      <4>2. k \in (1 .. (run.step - 1)) \ run.warnings
        BY <2>1, <2>4, <3>2
      <4>3. Good(out[Short(k)])
        BY <2>1, <4>2 DEF RendersKept, Made
      <4> QED
        BY <1>5, <2>2, <4>1, <4>3
    <3> QED
      BY <3>1, <3>2
  <2> QED
    BY <1>4, <2>2, <2>4, <2>9, <2>10 DEF RendersKept
<1>11. CASE FinishShorts
  <2>1. /\ run.stage = "shorts" /\ run.step = job.expected + 1 /\ GoOn /\ UNCHANGED out
        /\ job.expected \in Nat
    BY <1>11, StagesAssumption DEF FinishShorts, In, Local, JobOK, ShortNumbers
  <2>2. run'.stage = "upload" /\ run'.warnings = run.warnings
    BY <1>1, <2>1, GoOnIs, FollowingStage DEF StageName, AfterSync
  <2>3. RowMoves
    BY <2>1, RowStays DEF GoOn
  <2>4. Made(job.expected)' = Made(job.expected)
    BY <1>4, <1>6, <2>1, <2>2, <2>3 DEF Made
  <2>5. job.listed => Made(job.expected)
    BY <2>1 DEF RendersKept
  <2> QED
    BY <1>4, <1>6, <2>1, <2>2, <2>3, <2>4, <2>5 DEF RendersKept, AfterLong
<1>12. CASE CollectRenderFiles \/ SendChunk \/ Finalize
  <2>1. run.stage = "upload" /\ UNCHANGED out /\ run.stage \in AfterLong
    BY <1>12 DEF CollectRenderFiles, SendChunk, Finalize, Checked, In, Local, AfterLong
  <2>2. /\ \A x : run' = [run EXCEPT !.left = @ \ {x}, !.try = 0, !.chunk = 0]
                      => run'.stage = run.stage /\ run'.warnings = run.warnings
        /\ \A rs : run' = [run EXCEPT !.artifacts = rs, !.left = rs]
                      => run'.stage = run.stage /\ run'.warnings = run.warnings
    BY DEF RunOK
  <2>3. \/ run' = Idle
        \/ GoOn
        \/ run'.stage = run.stage /\ run'.warnings = run.warnings
    BY <1>12, <2>2, EditsRemain
    DEF CollectRenderFiles, SendChunk, Finalize, FailJob, ReportThen, TryAgain, FileDone, Remains
  <2>4. run' = Idle \/ (run'.stage \in {"upload", "complete"} /\ run'.warnings = run.warnings)
    BY <1>1, <2>1, <2>3, GoOnIs, FollowingStage DEF StageName, AfterSync
  <2>5. CASE run'.stage \in {"upload", "complete"} /\ run'.warnings = run.warnings /\ RowMoves
    <3>1. Made(job.expected)' = Made(job.expected)
      BY <1>4, <1>6, <2>1, <2>5 DEF Made
    <3> QED
      BY <1>4, <1>6, <2>1, <2>5, <3>1 DEF RendersKept, AfterLong
  <2> QED
    BY <1>1, <1>3, <2>4, <2>5
<1>13. CASE RequestCancel \/ Rewrite
  <2>1. UNCHANGED <<run, out>> /\ RowMoves
    BY <1>1, <1>13, RowStays DEF RequestCancel, Rewrite, Local, RowMoves, JobOK
  <2> QED
    BY <1>7, <2>1, EditsRemain
<1> QED
  BY <1>8, <1>9, <1>10, <1>11, <1>12, <1>13 DEF Next, Runner

LEMMA SendingStep ==
    ASSUME TInv, SendingKept, Next
    PROVE  SendingKept'
<1> USE DEF TInv, TypeOK
<1>1. RunOK /\ RunOK'
  BY MovesStep DEF RunMoves
<1>2. CASE run'.stage = "idle"
  BY <1>2 DEF SendingKept
<1>3. CASE run' = Idle
  BY <1>2, <1>3, IdleIs
<1>4. CASE run'.stage \notin {"idle", "upload", "complete"} /\ run'.artifacts = {}
  BY <1>4 DEF SendingKept
<1>5. CASE GoOn /\ run.stage \in {"sync", "soundtrack", "bundle", "render_long", "shorts"}
  BY <1>1, <1>5, GoOnIs, FollowingStage DEF SendingKept, StageName, AfterSync
<1>6. CASE Claim
  BY <1>4, <1>6 DEF Claim, Idle
<1>7. CASE \/ SkipSync \/ DownloadFile \/ MixSoundtrack \/ MakeBundle \/ RefuseInputs
           \/ PrepareLong \/ RenderFrame \/ FinishLong \/ RefuseShorts \/ RenderShort
           \/ FinishShorts
  <2>1. run.stage \in {"sync", "soundtrack", "bundle", "render_long", "shorts"}
    BY <1>7
    DEF SkipSync, DownloadFile, MixSoundtrack, MakeBundle, RefuseInputs, PrepareLong, RenderFrame,
        FinishLong, RefuseShorts, RenderShort, FinishShorts, Checked, In
  <2> DEFINE Keeps == run'.stage = run.stage /\ run'.artifacts = run.artifacts
  <2>2. /\ \A fs : run' = [run EXCEPT !.left = fs, !.try = 0] => Keeps
        /\ \A n : run' = [run EXCEPT !.try = n] => Keeps
        /\ \A n : run' = [run EXCEPT !.step = n] => Keeps
        /\ \A n, ws : run' = [run EXCEPT !.step = n, !.warnings = ws] => Keeps
        /\ \A ps, n : run' = [run EXCEPT !.props = ps, !.frames = n] => Keeps
    BY DEF RunOK
  <2>3. run' = Idle \/ GoOn \/ Keeps
    <3> HIDE DEF Keeps
    <3> QED
      BY <1>7, <2>2
      DEF SkipSync, DownloadFile, MixSoundtrack, MakeBundle, RefuseInputs, PrepareLong, RenderFrame,
          FinishLong, RefuseShorts, RenderShort, FinishShorts, ReportThen, Mismatch, Verified,
          NextFile, FailJob, Warn
  <2> QED
    BY <1>3, <1>4, <1>5, <2>1, <2>3 DEF SendingKept
<1>8. CASE CollectRenderFiles
  <2>1. CASE run' = Idle
    BY <1>3, <2>1
  <2>2. CASE run' = [run EXCEPT !.artifacts = RenderFiles, !.left = RenderFiles]
    <3>1. run.stage = "upload" /\ UNCHANGED out
      BY <1>8 DEF CollectRenderFiles, Checked, In, Local
    <3>2. run'.stage = "upload" /\ run'.artifacts = RenderFiles /\ run'.left = RenderFiles
      BY <2>2, <3>1 DEF RunOK
    <3>3. RenderFiles' = RenderFiles
      BY <3>1 DEF RenderFiles
    <3> QED
      BY <3>2, <3>3 DEF SendingKept
  <2> QED
    BY <1>8, <2>1, <2>2 DEF CollectRenderFiles, FailJob
<1>9. CASE SendChunk \/ Finalize
  <2>1. /\ run.stage = "upload" /\ run.artifacts # {} /\ run.artifacts = RenderFiles
        /\ run.left # {} /\ RenderFiles' = RenderFiles
    BY <1>9 DEF SendChunk, Finalize, Checked, In, Local, SendingKept, RenderFiles
  <2> DEFINE Keeps == run'.stage = run.stage /\ run'.artifacts = run.artifacts
  <2>2. /\ \A n : run' = [run EXCEPT !.chunk = n] => Keeps /\ run'.left = run.left
        /\ \A n : run' = [run EXCEPT !.try = n, !.chunk = 0] => Keeps /\ run'.left = run.left
        /\ run' = [run EXCEPT !.left = @ \ {FileSent}, !.try = 0, !.chunk = 0]
               => Keeps /\ run'.left = run.left \ {FileSent}
    BY DEF RunOK
  <2>3. run' = Idle \/ GoOn \/ (Keeps /\ run'.left # {})
    <3> HIDE DEF Keeps
    <3>1. ~LastSent => run.left \ {FileSent} # {}
      BY <2>1 DEF LastSent
    <3>2. FileDone => GoOn \/ (Keeps /\ run'.left # {})
      BY <2>2, <3>1 DEF FileDone
    <3>3. TryAgain => run' = Idle \/ (Keeps /\ run'.left # {})
      BY <2>1, <2>2 DEF TryAgain, FailJob
    <3> QED
      BY <1>9, <2>1, <2>2, <3>2, <3>3 DEF SendChunk, Finalize, ReportThen, FailJob
  <2>4. CASE GoOn
    BY <1>1, <2>1, <2>4, GoOnIs, FollowingStage DEF SendingKept, StageName, AfterSync
  <2> QED
    BY <1>3, <2>1, <2>3, <2>4 DEF SendingKept
<1>10. CASE CompleteJob
  <2>1. run' = Idle \/ run' = [run EXCEPT !.stage = "idle"]
    BY <1>10 DEF CompleteJob, FailJob
  <2> QED
    BY <1>2, <1>3, <2>1 DEF RunOK
<1>11. CASE RequestCancel \/ Rewrite
  <2>1. UNCHANGED <<run, out>>
    BY <1>11 DEF RequestCancel, Rewrite, Local
  <2>2. RenderFiles' = RenderFiles
    BY <2>1 DEF RenderFiles
  <2> QED
    BY <2>1, <2>2 DEF SendingKept
<1>12. CASE DropJob \/ Crash \/ Enqueue
  BY <1>3, <1>12 DEF DropJob, Crash, Leave, Enqueue
<1> QED
  BY <1>6, <1>7, <1>8, <1>9, <1>10, <1>11, <1>12 DEF Next, Runner

\* Only CompleteJob completes a job.
LEMMA CompletedIs ==
    ASSUME TypeOK, AtWork, Next, job'.status = "completed", job.status # "completed"
    PROVE  CompleteJob
<1> USE DEF TypeOK, AtWork
<1>1. CASE Claim
  BY <1>1 DEF Claim, JobOK
<1>2. CASE DropJob \/ Crash
  BY <1>2, LeaveIs DEF DropJob, Crash
<1>3. CASE RequestCancel \/ Rewrite
  BY <1>3 DEF RequestCancel, Rewrite, JobOK
<1>4. CASE Enqueue
  BY <1>4 DEF Enqueue, NewJob
<1>5. CASE /\ Runner /\ ~Claim /\ ~CompleteJob /\ ~DropJob
  <2>1. (\E b \in BOOLEAN : FailJob(b)) \/ UNCHANGED job
    <3>1. (~HasScript) \in BOOLEAN /\ NoTimelines \in BOOLEAN
      BY DEF HasScript, NoTimelines
    <3> QED
      BY <1>5, <3>1
      DEF Runner, SkipSync, DownloadFile, MixSoundtrack, MakeBundle, RefuseInputs, PrepareLong,
          RenderFrame, FinishLong, RefuseShorts, RenderShort, FinishShorts, CollectRenderFiles,
          SendChunk, Finalize, GoOn, ReportThen, Mismatch, Verified, NextFile, Warn, TryAgain,
          FileDone
  <2> QED
    BY <2>1, FailJobIs
<1> QED
  BY <1>1, <1>2, <1>3, <1>4, <1>5 DEF Next

\* A completed job has published what was made for it.
LEMMA ArtifactsStep ==
    ASSUME TInv, RendersKept, SendingKept, ArtifactsAreThisJobs, Next
    PROVE  ArtifactsAreThisJobs'
<1> USE DEF TInv, TypeOK
<1>1. /\ WorldMoves /\ RunOK
      /\ RowMoves \/ Enqueue
      /\ job'.status = "claimed" <=> run'.stage # "idle"
  BY MovesStep DEF RunMoves
<1>2. CASE job'.status # "completed"
  BY <1>2 DEF ArtifactsAreThisJobs
<1>3. CASE CompleteJob /\ job'.status = "completed"
  <2>1. /\ run.stage = "complete" /\ UNCHANGED <<out, published>> /\ RowMoves
        /\ run' = [run EXCEPT !.stage = "idle"]
        /\ \A r \in run.artifacts : published[r] = Chunks(out[r])
    <3>1. ~FailJob(TRUE)
      BY <1>3, FailJobIs
    <3>2. /\ run.stage = "complete" /\ UNCHANGED <<out, published>>
          /\ run' = [run EXCEPT !.stage = "idle"]
          /\ job' = [job EXCEPT !.status =
                IF \A r \in run.artifacts : published[r] = Chunks(out[r])
                THEN "completed" ELSE "unverified"]
      BY <1>3, <3>1 DEF CompleteJob, In, Local, Remote
    <3>3. \A r \in run.artifacts : published[r] = Chunks(out[r])
      BY <1>3, <3>2 DEF JobOK
    <3>4. RowMoves
      BY <1>1, <1>3, <3>2 DEF Enqueue, NewJob
    <3> QED
      BY <3>2, <3>3, <3>4
  <2>2. run'.warnings = run.warnings /\ run.artifacts = RenderFiles
    BY <2>1 DEF RunOK, SendingKept
  <2>3. /\ job'.listed = job.listed /\ job'.expected = job.expected
        /\ \A c : Good(c)' = Good(c)
    BY <1>1, <2>1, VersionStays
  <2>4. ASSUME job.listed,
               NEW r \in {Long} \cup {Short(n) : n \in (1 .. job.expected) \ run.warnings}
        PROVE  published[r] # NoChunks /\ Fresh(published[r][1][1])'
    <3>1. r \in Renders
      BY StagesAssumption DEF Renders, ShortNumbers, JobOK
    <3>2. Good(out[r])
      BY <2>1, <2>4 DEF RendersKept, AfterLong, Made
    <3>3. out[r].size \in Nat \ {0}
      BY <3>1, <3>2 DEF Good, StoreOK
    <3>4. r \in RenderFiles
      BY <3>1, <3>3 DEF RenderFiles, Nothing
    <3>5. published[r] = Chunks(out[r])
      BY <2>1, <2>2, <3>4
    <3>6. Chunks(out[r])[1] = <<out[r], 1>> /\ 1 \in DOMAIN Chunks(out[r])
      BY <3>3 DEF Chunks
    <3>7. published[r] # NoChunks
      BY <3>5, <3>6 DEF NoChunks
    <3>8. published'[r][1][1] = out[r]
      BY <2>1, <3>5, <3>6
    <3>9. /\ \A f : ServerFile(job.version, f)' = ServerFile(job.version, f)
          /\ Script(job.version)' = Script(job.version) /\ Mix(FreshDir)' = Mix(FreshDir)
      BY <1>1, <2>1, VersionStays
    <3> QED
      BY <3>2, <3>7, <3>8, <3>9 DEF Good, Fresh
  <2> QED
    BY <2>1, <2>2, <2>3, <2>4 DEF ArtifactsAreThisJobs
<1>4. CASE Rewrite
  <2>1. UNCHANGED <<job, run, published>> /\ RowMoves
    BY <1>4, RowStays DEF Rewrite, Remote
  <2>2. /\ \A f : ServerFile(job.version, f)' = ServerFile(job.version, f)
        /\ Script(job.version)' = Script(job.version) /\ Mix(FreshDir)' = Mix(FreshDir)
    BY <1>1, <2>1, VersionStays
  <2> QED
    BY <2>1, <2>2 DEF ArtifactsAreThisJobs, Fresh
<1>5. CASE ~CompleteJob /\ ~Rewrite /\ job'.status = "completed"
  <2>1. job.status = "completed" /\ run.stage = "idle"
    BY <1>5, CompletedIs DEF AtWork
  <2>2. ~Enqueue
    BY <1>5 DEF Enqueue, NewJob
  <2> QED
    BY <1>5, <2>1, <2>2
    DEF Next, Runner, Claim, SkipSync, DownloadFile, MixSoundtrack, MakeBundle, RefuseInputs,
        PrepareLong, RenderFrame, FinishLong, RefuseShorts, RenderShort, FinishShorts,
        CollectRenderFiles, SendChunk, Finalize, DropJob, MidCall, RequestCancel, Crash,
        Drawing, Checked, In
<1> QED
  BY <1>2, <1>3, <1>4, <1>5

\* What is published is a render, or its beginning, of this directory, and all of it when
\* the job is completed.
LEMMA WholeStep ==
    ASSUME TInv, SendingKept, PublishedIsMade, PublishedIsWhole, Next
    PROVE  PublishedIsMade' /\ PublishedIsWhole'
<1> USE DEF TInv, TypeOK
<1>1. ASSUME NEW r \in Renders, out[r] # Nothing PROVE out'[r] # Nothing
  <2>1. CASE UNCHANGED out
    BY <1>1, <2>1
  <2>2. CASE \E name, ids : out' = [out EXCEPT ![name] = Rendered(name, ids)]
    <3>1. PICK name, ids : out' = [out EXCEPT ![name] = Rendered(name, ids)]
      BY <2>2
    <3>2. Rendered(name, ids) # Nothing
      BY DEF Rendered, Nothing
    <3> QED
      BY <1>1, <3>1, <3>2 DEF StoreOK
  <2>3. CASE out' = [out EXCEPT ![MixedTrack] = Mixed]
    <3>1. r # MixedTrack
      BY DEF Renders, MixedTrack, Long, Short
    <3> QED
      BY <1>1, <2>3, <3>1 DEF StoreOK
  <2> QED
    BY <2>1, <2>2, <2>3
    DEF Next, Runner, Claim, SkipSync, DownloadFile, MixSoundtrack, MakeBundle, RefuseInputs,
        PrepareLong, RenderFrame, FinishLong, RefuseShorts, RenderShort, FinishShorts,
        CollectRenderFiles, SendChunk, Finalize, CompleteJob, DropJob, RequestCancel, Crash,
        Rewrite, Enqueue, Local
<1>2. ASSUME ~UNCHANGED published PROVE FileSent \in RenderFiles /\ job.status = "claimed"
  <2>1. Finalize
    BY <1>2, PublishingIs
  <2>2. run.stage = "upload" /\ run.artifacts # {}
    BY <2>1 DEF Finalize, In
  <2>3. FileSent \in run.left
    BY <2>2 DEF SendingKept, FileSent
  <2> QED
    BY <2>2, <2>3 DEF SendingKept, LeftOK, AtWork
<1>3. PublishedIsMade'
  <2> SUFFICES ASSUME NEW r \in Renders, published'[r] # NoChunks PROVE out[r] # Nothing
    BY <1>1 DEF PublishedIsMade
  <2>1. CASE published'[r] = published[r]
    BY <2>1 DEF PublishedIsMade
  <2>2. CASE published'[r] # published[r]
    <3>1. FileSent \in RenderFiles
      BY <1>2, <2>2
    <3>2. r = FileSent
      BY <2>2, PublishingIs DEF StoreOK
    <3> QED
      BY <3>1, <3>2 DEF RenderFiles
  <2> QED
    BY <2>1, <2>2
<1>4. ASSUME job'.status = "completed", NEW r \in Renders, published'[r] # NoChunks
      PROVE  Whole(published'[r])
  <2>1. CASE job.status = "completed"
    <3>1. UNCHANGED published
      BY <1>2, <2>1
    <3> QED
      BY <1>4, <2>1, <3>1 DEF PublishedIsWhole
  <2>2. CASE job.status # "completed"
    <3>1. CompleteJob
      BY <1>4, <2>2, CompletedIs
    <3>2. /\ run.stage = "complete" /\ UNCHANGED published
          /\ \A q \in run.artifacts : published[q] = Chunks(out[q])
      <4>1. ~FailJob(TRUE)
        BY <1>4, FailJobIs
      <4> QED
        BY <1>4, <3>1, <4>1 DEF CompleteJob, In, Remote, JobOK
    <3>3. r \in run.artifacts
      BY <1>4, <3>2 DEF PublishedIsMade, SendingKept, RenderFiles
    <3>4. published'[r] = Chunks(out[r]) /\ out[r].size \in Nat
      BY <3>2, <3>3 DEF StoreOK
    <3> QED
      BY <1>4, <3>4, WholeChunks
  <2> QED
    BY <2>1, <2>2
<1>5. PublishedBegins'
  BY PublishedStep
<1> QED
  BY <1>3, <1>4, <1>5 DEF PublishedIsWhole, PublishedBegins, Beginning, Whole, Chunks

LEMMA ArtifactsInit ==
    ASSUME Init
    PROVE  AInv
<1>1. TInv
  BY StagesInit
<1>2. run.stage = "idle" /\ job.status = "pending"
  BY DEF Init, Idle, NewJob
<1>3. DirIsPast
  BY DEF Init, DirIsPast
<1>4. PublishedIsMade /\ PublishedIsWhole
  BY DEF Init, PublishedIsMade, PublishedIsWhole
<1> QED
  BY <1>1, <1>2, <1>3, <1>4
  DEF AInv, SyncKept, MixKept, RendersKept, SendingKept, ArtifactsAreThisJobs, AfterSync, AfterLong

LEMMA ArtifactsNext ==
    ASSUME AInv, [Next]_vars
    PROVE  AInv'
<1> USE DEF AInv
<1>1. TInv'
  BY StagesNext
<1>2. CASE Next
  BY <1>1, <1>2, DirStep, SyncStep, MixStep, RendersStep, SendingStep, ArtifactsStep, WholeStep
<1>3. CASE UNCHANGED vars
  <2>1. WorldMoves /\ RowMoves
    BY <1>3, HistoryIs, RowStays DEF vars, TInv, TypeOK, WorldOK, WorldMoves
  <2>2. /\ Entries' = Entries /\ Files' = Files
        /\ \A f : ServerFile(job.version, f)' = ServerFile(job.version, f)
        /\ Script(job.version)' = Script(job.version) /\ Mix(FreshDir)' = Mix(FreshDir)
    BY <2>1, EntriesStay, VersionStays, WorldStays DEF TInv, TypeOK, WorldMoves
  <2>3. DirIsPast' /\ SyncKept' /\ MixKept'
    BY <1>3, <2>2 DEF vars, DirIsPast, SyncKept, Synced, MixKept
  <2>4. RendersKept' /\ SendingKept' /\ ArtifactsAreThisJobs'
    BY <1>3, <2>2
    DEF vars, RendersKept, SendingKept, ArtifactsAreThisJobs, Made, Good, Fresh, RenderFiles
  <2>5. PublishedIsMade' /\ PublishedIsWhole'
    BY <1>3 DEF vars, PublishedIsMade, PublishedIsWhole, Beginning, Whole, Chunks
  <2> QED
    BY <1>1, <2>3, <2>4, <2>5
<1> QED
  BY <1>2, <1>3

\* A completed job has published a long video, and every short it does not warn
\* about, made of exactly the versions of script, timelines and narration that
\* its manifest lists, and, where its script declares one, of its own soundtrack
\* mixed with those: through any number of jobs before it, of tries and lost
\* answers, and of takes written again while it was under way. A script that
\* declares none plays the mix an older one left, if there is one.
THEOREM ArtifactsAreFresh == Spec => []ArtifactsAreThisJobs
<1>1. Init => AInv
  BY ArtifactsInit
<1>2. AInv /\ [Next]_vars => AInv'
  BY ArtifactsNext
<1>3. AInv => ArtifactsAreThisJobs
  BY DEF AInv
<1> QED
  BY <1>1, <1>2, <1>3, PTL DEF Spec

\* A file under renders/ is one render from its first chunk on, never a new one in front of
\* the tail of an old: chunks are written over what a broken upload left (handleChunk does
\* not cut the file), but only a part that is the render, size and checksum, is written in
\* its place. It ends early when that write stops; but once the job is completed every file
\* is whole, for those the runner sends are all there are, and the server compares each.
THEOREM PublishedStaysWhole == Spec => []PublishedIsWhole
<1>1. Init => AInv
  BY ArtifactsInit
<1>2. AInv /\ [Next]_vars => AInv'
  BY ArtifactsNext
<1>3. AInv => PublishedIsWhole
  BY DEF AInv
<1> QED
  BY <1>1, <1>2, <1>3, PTL DEF Spec

-----------------------------------------------------------------------------
(* A job on whole inputs in which nothing fails *)

Undisturbed == world.routed /\ faults = MaxFaults

Sent(rs) == \A r \in rs : published[r] = Chunks(out[r])
Unsent(rs) == \A r \in rs : part[r] = NoChunks

\* Without a failure there is never more under way than the file being sent.
UploadKept ==
    /\ job.listed /\ ~job.cancel
    /\ run.stage = "upload" /\ run.artifacts # {} =>
           /\ Unsent(Renders \ {FileSent})
           /\ run.chunk <= Content.size
           /\ part[FileSent] = [k \in 1 .. run.chunk |-> <<Content, k>>]
           /\ Sent(run.artifacts \ run.left)
    /\ run.stage = "upload" /\ run.artifacts = {} => run.chunk = 0
    /\ ~(run.stage = "upload" /\ run.artifacts # {}) => Unsent(Renders)
    /\ run.stage = "complete" => Sent(run.artifacts)

CInv == AInv /\ (Undisturbed => UploadKept) /\ CleanJobCompletes

\* What the code refuses does not happen, and what could fail has not.
Clean ==
    /\ Undisturbed /\ world.meta # NoSheet
    /\ workspace = job.version /\ SoundScript(job.version)

LEMMA SoundInputs ==
    ASSUME TInv, SyncKept, Clean, job.listed, run.stage \in AfterSync
    PROVE  /\ HasScript /\ LocalScript = Script(job.version) /\ GoodInputs /\ Planned
           /\ LocalScript.soundtrack => HasTrack /\ NarrationsOf(dir) # {}
<1> DEFINE v == job.version
           segs == Script(job.version).segments
<1>1. HasScript /\ LocalScript = Script(job.version)
  <2>1. <<"script", "">> \in Writes(job.version)
    BY DEF Writes
  <2> QED
    BY <2>1, WrittenIsHere DEF HasScript, LocalScript
<1>2. /\ segs # <<>> /\ InSequence(segs) /\ CountShortMarkers(job.version) = Cardinality(Numbers(segs))
      /\ Script(job.version).soundtrack => Script(job.version).track
      /\ \A i \in DOMAIN segs :
             segs[i].tl.dur > 0 /\ segs[i].wav
             /\ (segs[i].scene # NoScene => ParseScene(segs[i].scene).ok)
  BY DEF Clean, SoundScript
<1>3. ASSUME NEW s \in ToSet(segs)
      PROVE  /\ Accepted(s)
             /\ <<"audio", s.id>> \in NarrationsOf(dir)
  <2>1. PICK j \in DOMAIN segs : s = segs[j]
    BY DEF ToSet
  <2>2. s.id \in SegmentIds(job.version)
    BY <2>1 DEF SegmentIds
  <2>3. PICK i \in DOMAIN segs : Segment(job.version, s.id) = segs[i]
    BY <2>1 DEF Segment
  <2>4. segs[i].tl # NoTimeline
    <3>1. segs[i].tl.dur > 0
      BY <1>2
    <3>2. ~(NoTimeline.dur > 0)
      BY DEF NoTimeline
    <3> QED
      BY <3>1, <3>2
  <2>5. <<"timelines", s.id>> \in Writes(job.version) /\ <<"audio", s.id>> \in Writes(job.version)
    BY <1>2, <2>2, <2>3, <2>4 DEF Writes
  <2>6. /\ <<"timelines", s.id>> \in Files /\ dir[<<"timelines", s.id>>] = job.version
        /\ <<"audio", s.id>> \in Files /\ dir[<<"audio", s.id>>] = job.version
        /\ job.version # 0
    BY <2>5, WrittenIsHere
  <2>7. LocalTimeline(s.id) = segs[i].tl
    BY <2>3, <2>6 DEF LocalTimeline
  <2>8. Accepted(s)
    BY <1>2, <2>1, <2>6, <2>7 DEF Accepted
  <2> QED
    BY <2>6, <2>8 DEF TimelinesOf, NarrationsOf
<1>4. GoodInputs
  BY <1>1, <1>2, <1>3 DEF GoodInputs
<1>5. Planned
  BY <1>1, <1>2 DEF Planned, Cuts, TInv, TypeOK, JobOK
<1>6. ASSUME LocalScript.soundtrack
      PROVE  HasTrack /\ NarrationsOf(dir) # {}
  <2>1. Soundtrack \in Writes(job.version)
    BY <1>1, <1>2, <1>6 DEF Writes, Soundtrack
  <2>2. HasTrack
    BY <2>1, WrittenIsHere DEF HasTrack
  <2>3. \E s : s \in ToSet(segs)
    <3>1. IsSequence(segs)
      BY HistoryIs DEF TInv, TypeOK, WorldOK, JobOK
    <3>2. Len(segs) # 0
      BY <1>2, <3>1 DEF IsSequence
    <3>3. 1 \in DOMAIN segs
      BY <3>1, <3>2, SequenceFinite
    <3>4. segs[1] \in ToSet(segs)
      BY <3>3 DEF ToSet
    <3> QED
      BY <3>4
  <2>4. NarrationsOf(dir) # {}
    BY <1>3, <2>3
  <2> QED
    BY <2>2, <2>4
<1> QED
  BY <1>1, <1>4, <1>5, <1>6

\* A scene that parses has a component, and the whole sheet is one that can be drawn.
LEMMA PartDraws ==
    ASSUME TInv, HasScript, GoodInputs, world.meta # NoSheet,
           NEW i \in DOMAIN BuildInputProps(AllIds).segments
    PROVE  Draws(BuildInputProps(AllIds), i)
<1> DEFINE segs == LocalScript.segments
           places == {k \in DOMAIN segs : segs[k].id \in AllIds}
           picked == Picked(segs, AllIds)
<1>1. IsSequence(segs) /\ Len(segs) \in Nat /\ DOMAIN segs = 1 .. Len(segs)
  BY LocalScriptIs, SequenceFinite DEF TInv, TypeOK
<1>2. DOMAIN picked = 1 .. Cardinality(places) /\ i \in DOMAIN picked
  BY DEF Picked, BuildInputProps
<1>3. picked[i] = segs[Nth(places, i)]
  BY <1>2 DEF Picked
<1>4. Nth(places, i) \in places
  <2>1. places \subseteq 1 .. Len(segs)
    BY <1>1
  <2> HIDE DEF places, picked, segs
  <2> QED
    BY <1>1, <1>2, <2>1, NthExists
<1>5. picked[i] \in ToSet(segs)
  BY <1>3, <1>4 DEF ToSet
<1>6. Accepted(picked[i])
  <2> HIDE DEF picked
  <2> QED
    BY <1>5 DEF GoodInputs
<1> DEFINE scene == IF picked[i].scene = NoScene THEN NoScene ELSE ParseScene(picked[i].scene).scene
<1>7. BuildInputProps(AllIds).segments[i].scene = scene
  <2>1. BuildInputProps(AllIds).segments =
            [k \in DOMAIN picked |->
                [id    |-> picked[k].id,
                 scene |-> IF picked[k].scene = NoScene THEN NoScene
                           ELSE ParseScene(picked[k].scene).scene]]
    BY DEF BuildInputProps
  <2> HIDE DEF picked
  <2> QED
    BY <1>2, <2>1
<1>8. scene.type = "none" \/ scene.type \in Registry
  <2>1. CASE picked[i].scene = NoScene
    BY <2>1 DEF NoScene
  <2>2. CASE picked[i].scene # NoScene
    <3> DEFINE raw == picked[i].scene
    <3>1. ParseScene(raw).ok
      BY <1>6, <2>2 DEF Accepted
    <3> HIDE DEF picked, raw
    <3>2. raw.type \in SceneTypes /\ ParseScene(raw).scene.type = raw.type
      BY <3>1 DEF ParseScene, WellFormed
    <3>3. SceneTypes = Registry
      BY DEF SceneTypes, Grammar, Registry
    <3> QED
      BY <2>2, <3>2, <3>3 DEF raw
  <2> QED
    BY <2>1, <2>2
<1>9. Drawable(BuildInputProps(AllIds).meta)
  <2>1. world.meta = SpriteSheet
    BY StagesAssumption DEF TInv, TypeOK, WorldOK
  <2>2. BuildInputProps(AllIds).meta = SpriteSheet
    BY <2>1 DEF BuildInputProps
  <2> QED
    BY <2>2 DEF Drawable, SpriteSheet
<1>10. SelectLayout(scene.type, "split") # "throws"
  BY DEF SelectLayout
<1> HIDE DEF scene, picked
<1> QED
  BY <1>7, <1>8, <1>9, <1>10 DEF Draws, Throws

\* What cannot be without a failure.
LEMMA NoFailure ==
    ASSUME TInv, Next, Undisturbed'
    PROVE  /\ Undisturbed /\ NoFault
           /\ ~RequestCancel /\ ~Crash
<1>1. world' = world /\ faults' = MaxFaults
  BY MovesStep DEF TInv, WorldMoves, Undisturbed
<1>2. \A kind : ~Fault(kind)
  BY <1>1, FaultIs DEF TInv, TypeOK
<1>3. NoFault
  BY <1>2
  DEF Next, Runner, Claim, SkipSync, DownloadFile, MixSoundtrack, MakeBundle, RefuseInputs,
      PrepareLong, RenderFrame, FinishLong, RefuseShorts, RenderShort, FinishShorts,
      CollectRenderFiles, SendChunk, Finalize, CompleteJob, DropJob, RequestCancel, Crash, Rewrite,
      Enqueue, ReportThen, Verified, Mismatch, NoFault
<1> QED
  BY <1>1, <1>2, <1>3 DEF Undisturbed, NoFault, RequestCancel, Crash

\* The file being sent, as the steps of the upload find it.
LEMMA SendingIs ==
    ASSUME TInv, SendingKept, UploadKept, run.stage = "upload", run.artifacts # {}
    PROVE  /\ FileSent \in run.left /\ FileSent \in Renders
           /\ Content.size \in Nat /\ run.chunk \in Nat
           /\ Len(part[FileSent]) = run.chunk
           /\ run.chunk = Content.size => Agrees(FileSent, Content)
<1>1. FileSent \in run.left /\ FileSent \in Renders
  BY UnderWayIs DEF TInv, TypeOK, LeftOK, RunOK, SendingKept
<1>2. Content.size \in Nat /\ run.chunk \in Nat
  BY <1>1 DEF TInv, TypeOK, StoreOK, RunOK, Content
<1>3. part[FileSent] = [k \in 1 .. run.chunk |-> <<Content, k>>]
  BY DEF UploadKept
<1> QED
  BY <1>1, <1>2, <1>3 DEF Agrees, Chunks

LEMMA UploadStep ==
    ASSUME TInv, SendingKept, UploadKept, Next, Undisturbed'
    PROVE  UploadKept'
<1> USE DEF TInv, TypeOK
<1>1. /\ RunOK /\ RunOK' /\ WorldMoves
      /\ RowMoves \/ Enqueue
      /\ Undisturbed /\ NoFault
      /\ ~RequestCancel /\ ~Crash
      /\ \A kind : ~Fault(kind)
  <2>1. \A kind : Fault(kind) => faults' # MaxFaults
    BY FaultIs
  <2> QED
    BY <2>1, MovesStep, NoFailure DEF RunMoves, Undisturbed
<1>2. ~DropJob /\ job.listed /\ ~job.cancel /\ world.routed
  BY <1>1 DEF DropJob, UploadKept, Undisturbed
<1>3. job'.listed /\ ~job'.cancel
  <2>1. CASE Enqueue
    BY <1>1, <2>1 DEF Enqueue, NewJob
  <2>2. CASE ~Enqueue
    <3>1. UNCHANGED job \/ (\E b : FailJob(b)) \/ Claim \/ CompleteJob
      BY <1>1, <1>2, <2>2
      DEF Next, Runner, SkipSync, DownloadFile, MixSoundtrack, MakeBundle, RefuseInputs,
          PrepareLong, RenderFrame, FinishLong, RefuseShorts, RenderShort, FinishShorts,
          CollectRenderFiles, SendChunk, Finalize, Rewrite, GoOn, ReportThen, Mismatch, Verified,
          NextFile, Warn, TryAgain, FileDone
    <3>2. job'.cancel = job.cancel /\ job'.listed = job.listed
      BY <3>1 DEF FailJob, Claim, CompleteJob, JobOK
    <3> QED
      BY <1>2, <3>2
  <2> QED
    BY <2>1, <2>2
<1>4. ASSUME run'.stage \notin {"upload", "complete"}, Unsent(Renders)' PROVE UploadKept'
  BY <1>3, <1>4 DEF UploadKept
<1>5. CASE /\ run.stage # "upload" /\ ~CompleteJob
  <2>1. UNCHANGED <<part, published>> /\ (RenderShort \/ FinishLong \/ MixSoundtrack \/ UNCHANGED out)
    BY <1>1, <1>2, <1>5
    DEF Next, Runner, Claim, SkipSync, DownloadFile, MixSoundtrack, MakeBundle, RefuseInputs,
        PrepareLong, RenderFrame, FinishLong, RefuseShorts, RenderShort, FinishShorts,
        CollectRenderFiles, SendChunk, Finalize, Rewrite, Enqueue, Checked, In, Local, Remote
  <2>2. Unsent(Renders)'
    BY <1>5, <2>1 DEF UploadKept, Unsent, Renders
  <2>3. CASE FinishShorts
    <3>1. run'.stage = "upload" /\ run'.artifacts = {} /\ run'.chunk = 0
      BY <1>1, <2>3, GoOnIs, FollowingStage
      DEF FinishShorts, In, StageName, AfterSync, SendingKept
    <3> QED
      BY <1>3, <2>2, <3>1 DEF UploadKept
  <2>4. CASE Rewrite
    <3>1. UNCHANGED <<run, out>>
      BY <2>4 DEF Rewrite, Local
    <3> QED
      BY <1>3, <1>5, <2>1, <2>2, <3>1 DEF UploadKept, Sent
  <2>5. CASE run' = Idle
    BY <1>4, <2>2, <2>5, IdleIs
  <2>6. CASE run'.stage \notin {"upload", "complete"}
    BY <1>4, <2>2, <2>6
  <2>7. CASE GoOn /\ run.stage \in {"sync", "soundtrack", "bundle", "render_long"}
    <3>1. run'.stage \notin {"upload", "complete"}
      BY <1>1, <2>7, GoOnIs, FollowingStage DEF StageName, AfterSync
    <3> QED
      BY <1>4, <2>2, <3>1
  <2>8. \/ FinishShorts \/ Rewrite \/ run' = Idle
        \/ run'.stage \notin {"upload", "complete"}
        \/ GoOn /\ run.stage \in {"sync", "soundtrack", "bundle", "render_long"}
    <3>1. /\ \A fs : run' = [run EXCEPT !.left = fs, !.try = 0] => run'.stage = run.stage
          /\ \A n : run' = [run EXCEPT !.try = n] => run'.stage = run.stage
          /\ \A n : run' = [run EXCEPT !.step = n] => run'.stage = run.stage
          /\ \A n, ws : run' = [run EXCEPT !.step = n, !.warnings = ws] => run'.stage = run.stage
          /\ \A ps, n : run' = [run EXCEPT !.props = ps, !.frames = n] => run'.stage = run.stage
          /\ Claim => run'.stage = "sync"
      BY DEF RunOK, Claim, Idle
    <3>2. CASE Claim \/ Enqueue
      BY <3>1, <3>2 DEF Enqueue
    <3>3. CASE run.stage \notin {"upload", "complete", "idle"} /\ Runner /\ ~Claim
      <4>1. CASE SkipSync \/ DownloadFile
        BY <3>1, <3>3, <4>1
        DEF SkipSync, DownloadFile, Checked, In, ReportThen, Mismatch, Verified, NextFile, FailJob
      <4>2. CASE MixSoundtrack \/ MakeBundle \/ RefuseInputs \/ PrepareLong
        BY <3>1, <3>3, <4>2
        DEF MixSoundtrack, MakeBundle, RefuseInputs, PrepareLong, Checked, In, ReportThen, FailJob
      <4>3. CASE RenderFrame \/ FinishLong \/ RefuseShorts
        BY <3>1, <3>3, <4>3 DEF RenderFrame, FinishLong, RefuseShorts, Checked, In, FailJob
      <4>4. CASE RenderShort
        <5>1. \E n, ws : run' = [run EXCEPT !.step = n] \/ run' = [run EXCEPT !.step = n, !.warnings = ws]
          BY <4>4 DEF RenderShort, Warn
        <5> QED
          BY <3>1, <3>3, <5>1
      <4> QED
        BY <1>1, <1>2, <3>3, <4>1, <4>2, <4>3, <4>4
        DEF Runner, CollectRenderFiles, SendChunk, Finalize, CompleteJob, Checked, In
    <3>4. CASE run.stage \in {"idle", "complete"} /\ Runner /\ ~Claim
      BY <1>1, <1>2, <1>5, <3>4
      DEF Runner, SkipSync, DownloadFile, MixSoundtrack, MakeBundle, RefuseInputs,
          PrepareLong, RenderFrame, FinishLong, RefuseShorts, RenderShort, FinishShorts,
          CollectRenderFiles, SendChunk, Finalize, Checked, In
    <3> QED
      BY <1>1, <1>5, <3>2, <3>3, <3>4 DEF Next
  <2> QED
    BY <2>3, <2>4, <2>5, <2>6, <2>7, <2>8
<1>6. CASE CompleteJob
  <2>1. UNCHANGED part /\ run.stage = "complete"
        /\ (run' = Idle \/ run' = [run EXCEPT !.stage = "idle"])
    BY <1>6 DEF CompleteJob, In, Remote, FailJob
  <2>2. run'.stage = "idle" /\ Unsent(Renders)'
    BY <2>1, IdleIs DEF RunOK, UploadKept, Unsent, Renders
  <2> QED
    BY <1>4, <2>2
<1>7. CASE CollectRenderFiles
  <2>1. /\ run.stage = "upload" /\ run.artifacts = {} /\ run.chunk = 0
        /\ UNCHANGED <<out, part, published>>
    BY <1>7 DEF CollectRenderFiles, Checked, In, Local, Remote, UploadKept
  <2>2. Unsent(Renders)'
    BY <2>1 DEF UploadKept, Unsent, Renders
  <2>3. CASE run' = Idle
    BY <1>4, <2>2, <2>3, IdleIs
  <2>4. CASE RenderFiles # {} /\ run' = [run EXCEPT !.artifacts = RenderFiles, !.left = RenderFiles]
    <3>1. /\ run'.stage = "upload" /\ run'.artifacts = RenderFiles /\ run'.left = RenderFiles
          /\ run'.chunk = 0
      BY <2>1, <2>4 DEF RunOK
    <3>2. FileSent' \in RenderFiles /\ RenderFiles \subseteq Renders
      BY <2>4, <3>1 DEF FileSent, RenderFiles
    <3>3. out'[FileSent'].size \in Nat
      BY <2>1, <3>2 DEF StoreOK
    <3>4. part'[FileSent'] = <<>>
      BY <2>2, <3>2 DEF Unsent, NoChunks, Renders
    <3>5. <<>> = [k \in 1 .. 0 |-> <<Content', k>>]
      OBVIOUS
    <3>6. (Unsent(Renders \ {FileSent}))'
      BY <2>2 DEF Unsent, Renders
    <3>7. (run.chunk <= Content.size)' /\ (part[FileSent] = [k \in 1 .. run.chunk |-> <<Content, k>>])'
      BY <3>1, <3>3, <3>4, <3>5 DEF Content
    <3>8. (Sent(run.artifacts \ run.left))'
      BY <3>1 DEF Sent
    <3> QED
      BY <1>3, <2>4, <3>1, <3>6, <3>7, <3>8 DEF UploadKept
  <2> QED
    BY <1>7, <2>3, <2>4 DEF CollectRenderFiles, FailJob
<1>8. CASE SendChunk
  <2>1. /\ run.stage = "upload" /\ run.artifacts # {} /\ UNCHANGED <<out, published>>
        /\ run.chunk < Content.size
    BY <1>8 DEF SendChunk, Checked, In, Local
  <2>2. /\ FileSent \in run.left /\ FileSent \in Renders /\ Content.size \in Nat /\ run.chunk \in Nat
        /\ Len(part[FileSent]) = run.chunk
    BY <2>1, SendingIs
  <2>3. /\ WriteChunk(FileSent, run.chunk + 1, <<Content, run.chunk + 1>>)
        /\ run' = [run EXCEPT !.chunk = run.chunk + 1]
    <3>1. ~(run.chunk > Len(part[FileSent])) /\ ~Fault("lost") /\ ~Fault("cut") /\ ~Fault("error")
      BY <1>1, <2>2
    <3> QED
      BY <1>2, <1>8, <3>1 DEF SendChunk
  <2>4. /\ run'.stage = "upload" /\ run'.artifacts = run.artifacts /\ run'.left = run.left
        /\ run'.chunk = run.chunk + 1
    BY <2>1, <2>3 DEF RunOK
  <2>5. FileSent' = FileSent /\ Content' = Content
    BY <2>1, <2>4 DEF FileSent, Content
  <2>6. part'[FileSent] = [k \in 1 .. (run.chunk + 1) |-> <<Content, k>>]
    <3>1. part[FileSent] = [k \in 1 .. run.chunk |-> <<Content, k>>]
      BY <2>1 DEF UploadKept
    <3>2. Larger(run.chunk + 1, Len(part[FileSent])) = run.chunk + 1
      BY <2>2 DEF Larger
    <3>3. part'[FileSent] = [i \in 1 .. (run.chunk + 1) |->
              IF i = run.chunk + 1 THEN <<Content, run.chunk + 1>> ELSE part[FileSent][i]]
      BY <2>2, <2>3, <3>2 DEF WriteChunk, StoreOK
    <3>4. \A i \in 1 .. (run.chunk + 1) : i # run.chunk + 1 => part[FileSent][i] = <<Content, i>>
      BY <2>2, <3>1
    <3> QED
      BY <3>3, <3>4
  <2>7. (Unsent(Renders \ {FileSent}))'
    <3>1. \A r \in Renders \ {FileSent} : part'[r] = part[r]
      BY <2>3 DEF WriteChunk, StoreOK
    <3> QED
      BY <2>1, <2>5, <3>1 DEF UploadKept, Unsent, Renders
  <2>8. (Sent(run.artifacts \ run.left))'
    BY <2>1, <2>4 DEF UploadKept, Sent, Chunks
  <2> QED
    BY <1>3, <2>1, <2>2, <2>4, <2>5, <2>6, <2>7, <2>8 DEF UploadKept
<1>9. CASE Finalize
  <2>1. /\ run.stage = "upload" /\ run.artifacts # {} /\ UNCHANGED <<out>>
        /\ run.chunk = Content.size
    BY <1>9 DEF Finalize, In, Local
  <2>2. /\ FileSent \in run.left /\ FileSent \in Renders /\ Agrees(FileSent, Content)
    BY <2>1, SendingIs
  <2>3. HandleFinalize(FileSent, Content) /\ FileDone
    BY <1>1, <1>9, <2>2 DEF Finalize, ReportThen
  <2>4. /\ part' = [part EXCEPT ![FileSent] = NoChunks]
        /\ published' = [published EXCEPT ![FileSent] = Chunks(Content)]
    BY <2>2, <2>3 DEF HandleFinalize, Agrees
  <2>5. Unsent(Renders)'
    <3>1. \A r \in Renders : part'[r] = NoChunks
      BY <2>1, <2>4 DEF UploadKept, Unsent, StoreOK
    <3> QED
      BY <3>1 DEF Unsent, Renders
  <2>6. \A r \in (run.artifacts \ run.left) \cup {FileSent} : published'[r] = Chunks(out'[r])
    <3>1. run.artifacts \subseteq Renders /\ Sent(run.artifacts \ run.left)
      BY <2>1 DEF UploadKept, RunOK
    <3> QED
      BY <2>1, <2>2, <2>4, <3>1 DEF Sent, StoreOK, Content
  <2>7. CASE LastSent
    <3>1. GoOn
      BY <2>3, <2>7 DEF FileDone
    <3>2. run'.stage = "complete" /\ run'.artifacts = run.artifacts
      BY <1>1, <2>1, <3>1, GoOnIs, FollowingStage DEF StageName, AfterSync
    <3>3. Sent(run.artifacts)'
      BY <2>6, <2>7, <3>2 DEF LastSent, Sent
    <3> QED
      BY <1>3, <2>5, <3>2, <3>3 DEF UploadKept
  <2>8. CASE ~LastSent
    <3>1. run' = [run EXCEPT !.left = @ \ {FileSent}, !.try = 0, !.chunk = 0]
      BY <2>3, <2>8 DEF FileDone
    <3>2. /\ run'.stage = "upload" /\ run'.artifacts = run.artifacts
          /\ run'.left = run.left \ {FileSent} /\ run'.chunk = 0
      BY <2>1, <3>1 DEF RunOK
    <3>3. run'.left # {}
      BY <2>2, <2>8, <3>2 DEF LastSent
    <3>4. FileSent' \in run'.left
      BY <3>3 DEF FileSent
    <3>5. FileSent' \in Renders
      BY <2>1, <3>2, <3>4 DEF LeftOK, RunOK
    <3>6. out'[FileSent'].size \in Nat
      BY <2>1, <3>5 DEF StoreOK
    <3>7. part'[FileSent'] = <<>>
      BY <2>5, <3>5 DEF Unsent, NoChunks, Renders
    <3>8. <<>> = [k \in 1 .. 0 |-> <<Content', k>>]
      OBVIOUS
    <3>9. (Unsent(Renders \ {FileSent}))'
      BY <2>5 DEF Unsent, Renders
    <3>10. (run.chunk <= Content.size)' /\ (part[FileSent] = [k \in 1 .. run.chunk |-> <<Content, k>>])'
      BY <3>2, <3>6, <3>7, <3>8 DEF Content
    <3>11. (Sent(run.artifacts \ run.left))'
      BY <2>6, <3>2 DEF Sent
    <3> QED
      BY <1>3, <2>1, <3>2, <3>9, <3>10, <3>11 DEF UploadKept
  <2> QED
    BY <2>7, <2>8
<1>10. CASE run.stage = "upload" /\ ~CollectRenderFiles /\ ~SendChunk /\ ~Finalize
  <2>1. Rewrite
    <3>1. job.status = "claimed"
      BY <1>10 DEF AtWork
    <3> QED
      BY <1>1, <1>2, <1>10, <3>1
      DEF Next, Runner, Claim, SkipSync, DownloadFile, MixSoundtrack, MakeBundle, RefuseInputs,
          PrepareLong, RenderFrame, FinishLong, RefuseShorts, RenderShort, FinishShorts,
          CompleteJob, Enqueue, Checked, In
  <2>2. UNCHANGED <<run, out, part, published>>
    BY <2>1 DEF Rewrite, Local, Remote
  <2>3. FileSent' = FileSent /\ Content' = Content
    BY <2>2 DEF FileSent, Content
  <2>4. Unsent(Renders)' = Unsent(Renders) /\ (Unsent(Renders \ {FileSent}))' = Unsent(Renders \ {FileSent})
    BY <2>2, <2>3 DEF Unsent, Renders
  <2>5. (Sent(run.artifacts \ run.left))' = Sent(run.artifacts \ run.left)
    BY <2>2 DEF Sent, Chunks
  <2> QED
    BY <1>3, <1>10, <2>2, <2>3, <2>4, <2>5 DEF UploadKept
<1> QED
  BY <1>5, <1>6, <1>7, <1>8, <1>9, <1>10

LEMMA SoundStays ==
    ASSUME JobOK, WorldMoves, RowMoves
    PROVE  SoundScript(job.version)' = SoundScript(job.version)
BY VersionStays DEF SoundScript, Script, CountShortMarkers, WorldMoves

LEMMA CleanStep ==
    ASSUME AInv, Undisturbed => UploadKept, CleanJobCompletes, Next
    PROVE  CleanJobCompletes'
<1> SUFFICES ASSUME job'.status \in {"failed", "requeued", "left", "unverified"}, Clean'
             PROVE  FALSE
  <2>1. faults' \in 0 .. MaxFaults /\ MaxFaults \in Nat
    BY MovesStep, StagesAssumption DEF AInv, TInv, TypeOK
  <2>2. ~(faults < MaxFaults)' => faults' = MaxFaults
    BY <2>1
  <2> QED
    BY <2>2 DEF CleanJobCompletes, Clean, Undisturbed
<1> USE DEF AInv, TInv, TypeOK
<1>1. /\ RunOK /\ RowMoves /\ WorldMoves
      /\ Undisturbed /\ NoFault /\ UploadKept
      /\ ~RequestCancel /\ ~Crash /\ ~Enqueue /\ ~DropJob /\ ~Claim
      /\ \A kind : ~Fault(kind)
  <2>1. RowMoves \/ Enqueue
    BY MovesStep
  <2>2. Enqueue => job'.status = "pending"
    BY DEF Enqueue, NewJob
  <2>3. Claim => job'.status = "claimed"
    BY DEF Claim, JobOK
  <2>4. Undisturbed /\ UploadKept
    BY NoFailure DEF Clean
  <2>5. ~Enqueue /\ ~Claim /\ ~DropJob
    BY <2>2, <2>3, <2>4 DEF DropJob, UploadKept
  <2>6. \A kind : Fault(kind) => faults' # MaxFaults
    BY FaultIs
  <2> QED
    BY <2>1, <2>5, <2>6, MovesStep, NoFailure DEF RunMoves, Clean, Undisturbed
<1>2. Clean
  <2>1. job'.version = job.version
    BY <1>1, VersionStays
  <2>2. workspace = job.version
    <3>1. /\ workspace' = job.version /\ workspace \in Nat /\ job.version \in 1 .. workspace
          /\ workspace' \in workspace .. Len(world.history)
      BY <1>1, <2>1, HistoryIs DEF Clean, WorldMoves, WorldOK, JobOK
    <3> QED
      BY <3>1
  <2>3. SoundScript(job.version)
    BY <1>1, SoundStays DEF Clean
  <2>4. world.meta # NoSheet
    BY <1>1 DEF Clean, WorldMoves
  <2> QED
    BY <1>1, <2>2, <2>3, <2>4 DEF Clean
<1>3. job.listed /\ world.routed
  BY <1>1, <1>2 DEF UploadKept, Undisturbed
<1>4. CASE UNCHANGED job
  <2>1. job.status \in {"failed", "requeued", "left", "unverified"} /\ ~(faults < MaxFaults)
    BY <1>2, <1>4, StagesAssumption DEF Clean, Undisturbed
  <2> QED
    BY <1>2, <1>3, <2>1 DEF CleanJobCompletes, Clean
<1>5. ASSUME run.stage \in AfterSync
      PROVE  /\ HasScript /\ LocalScript = Script(job.version) /\ GoodInputs /\ Planned
             /\ LocalScript.soundtrack => HasTrack /\ NarrationsOf(dir) # {}
  BY <1>2, <1>3, <1>5, SoundInputs
<1>6. CASE SkipSync \/ MakeBundle \/ FinishLong \/ FinishShorts \/ PrepareLong \/ Rewrite
           \/ RenderShort
  BY <1>1, <1>4, <1>6
  DEF SkipSync, MakeBundle, FinishLong, FinishShorts, PrepareLong, Rewrite, RenderShort, ReportThen,
      GoOn
<1>7. CASE DownloadFile
  <2>1. Verified
    BY <1>1, <1>2, <1>3, <1>7 DEF DownloadFile, Clean
  <2>2. UNCHANGED job
    BY <1>1, <2>1 DEF Verified, ReportThen, GoOn, NextFile
  <2> QED
    BY <1>4, <2>2
<1>8. CASE MixSoundtrack
  <2>1. run.stage = "soundtrack"
    BY <1>8 DEF MixSoundtrack, Checked, In
  <2>2. ReportThen(GoOn)
    BY <1>1, <1>5, <1>8, <2>1 DEF MixSoundtrack, AfterSync
  <2> QED
    BY <1>1, <1>4, <2>2 DEF ReportThen, GoOn
<1>9. CASE RefuseInputs \/ RefuseShorts
  BY <1>5, <1>9 DEF RefuseInputs, RefuseShorts, Checked, In, AfterSync
<1>10. CASE RenderFrame
  <2>1. /\ run.stage = "render_long" /\ run.props = <<BuildInputProps(AllIds)>>
        /\ HasScript /\ GoodInputs /\ world.meta # NoSheet
    BY <1>2, <1>10 DEF RenderFrame, Drawing, InputsStand, Clean
  <2>2. LongProps = BuildInputProps(AllIds)
    BY <2>1 DEF LongProps
  <2>3. \A i \in OnScreen(LongProps, Frame) : Draws(LongProps, i)
    <3>1. OnScreen(BuildInputProps(AllIds), Frame) \subseteq DOMAIN BuildInputProps(AllIds).segments
      BY DEF OnScreen
    <3>2. \A i \in DOMAIN BuildInputProps(AllIds).segments : Draws(BuildInputProps(AllIds), i)
      BY <2>1, PartDraws
    <3> QED
      BY <2>2, <3>1, <3>2
  <2> QED
    BY <1>1, <1>4, <1>10, <2>3 DEF RenderFrame
<1>11. CASE CollectRenderFiles
  <2>1. run.stage = "upload"
    BY <1>11 DEF CollectRenderFiles, Checked, In
  <2>2. Long \in RenderFiles
    <3>1. Good(out[Long]) /\ Long \in Renders
      BY <1>3, <2>1 DEF RendersKept, AfterLong, Renders
    <3>2. out[Long].size # 0
      BY <3>1 DEF Good, StoreOK
    <3> QED
      BY <3>1, <3>2 DEF RenderFiles, Nothing
  <2> QED
    BY <1>4, <1>11, <2>2 DEF CollectRenderFiles
<1>12. CASE SendChunk
  <2>1. run.stage = "upload" /\ run.artifacts # {}
    BY <1>12 DEF SendChunk, Checked, In
  <2>2. ~(run.chunk > Len(part[FileSent])) /\ ~Fault("lost") /\ ~Fault("cut") /\ ~Fault("error")
    BY <1>1, <2>1, SendingIs
  <2> QED
    BY <1>3, <1>4, <1>12, <2>2 DEF SendChunk
<1>13. CASE Finalize
  <2>1. run.stage = "upload" /\ run.artifacts # {} /\ run.chunk = Content.size
    BY <1>13 DEF Finalize, In
  <2>2. Agrees(FileSent, Content)
    BY <1>1, <2>1, SendingIs
  <2>3. FileDone
    BY <1>1, <1>13, <2>2 DEF Finalize, ReportThen
  <2> QED
    BY <1>4, <2>3 DEF FileDone, GoOn
<1>14. CASE CompleteJob
  <2>1. run.stage = "complete"
    BY <1>14 DEF CompleteJob, In
  <2>2. \A r \in run.artifacts : published[r] = Chunks(out[r])
    BY <1>1, <2>1 DEF UploadKept, Sent
  <2>3. job' = [job EXCEPT !.status = "completed"]
    BY <1>1, <1>14, <2>2 DEF CompleteJob
  <2> QED
    BY <2>3 DEF JobOK
<1> QED
  BY <1>1, <1>6, <1>7, <1>8, <1>9, <1>10, <1>11, <1>12, <1>13, <1>14 DEF Next, Runner

\* A job on whole inputs, in which nothing fails and over which nothing is
\* written, is never failed, requeued, left claimed or unverified: for every script that the grammar
\* of scenes and the numbering of shorts accept, what the server counts and signs
\* is what the runner cuts and sends.
THEOREM CleanJobsComplete == Spec => []CleanJobCompletes
<1>1. Init => CInv
  <2> SUFFICES ASSUME Init PROVE CInv
    OBVIOUS
  <2>1. CleanJobCompletes
    BY DEF Init, NewJob, CleanJobCompletes
  <2>2. ASSUME Undisturbed PROVE UploadKept
    <3>1. PICK listed \in BOOLEAN : /\ job = NewJob(1, listed)
                                    /\ listed \/ (MaxFaults > 0 /\ faults = MaxFaults - 1)
      BY DEF Init
    <3>2. listed
      BY <2>2, <3>1, StagesAssumption DEF Undisturbed
    <3> QED
      BY <3>1, <3>2 DEF Init, Idle, NewJob, UploadKept, Unsent
  <2> QED
    BY <2>1, <2>2, ArtifactsInit DEF CInv
<1>2. CInv /\ [Next]_vars => CInv'
  <2> SUFFICES ASSUME CInv, [Next]_vars PROVE CInv'
    OBVIOUS
  <2>1. AInv'
    BY ArtifactsNext DEF CInv
  <2>2. CASE Next
    <3>1. CleanJobCompletes'
      BY <2>2, CleanStep DEF CInv
    <3>2. ASSUME Undisturbed' PROVE UploadKept'
      <4>1. Undisturbed
        BY <2>2, <3>2, NoFailure DEF CInv, AInv
      <4> QED
        BY <2>2, <3>2, <4>1, UploadStep DEF CInv, AInv
    <3> QED
      BY <2>1, <3>1, <3>2 DEF CInv
  <2>3. CASE UNCHANGED vars
    <3>1. WorldMoves /\ RowMoves
      BY <2>3, HistoryIs, RowStays DEF vars, CInv, AInv, TInv, TypeOK, WorldOK, WorldMoves
    <3>2. SoundScript(job.version)' = SoundScript(job.version)
      BY <3>1, SoundStays DEF CInv, AInv, TInv, TypeOK
    <3>3. CleanJobCompletes'
      BY <2>3, <3>2 DEF vars, CInv, CleanJobCompletes
    <3>4. (Undisturbed => UploadKept)'
      <4>1. UNCHANGED <<world, faults, job, run, out, part, published>>
        BY <2>3 DEF vars
      <4>2. FileSent' = FileSent /\ Content' = Content
        BY <4>1 DEF FileSent, Content
      <4>3. UploadKept' = UploadKept
        BY <4>1, <4>2 DEF UploadKept, Unsent, Sent, Chunks, Renders
      <4> QED
        BY <4>1, <4>3 DEF CInv, Undisturbed
    <3> QED
      BY <2>1, <3>3, <3>4 DEF CInv
  <2> QED
    BY <2>2, <2>3
<1>3. CInv => CleanJobCompletes
  BY DEF CInv
<1> QED
  BY <1>1, <1>2, <1>3, PTL DEF Spec

-----------------------------------------------------------------------------
(* Sums, as the recursive function Scenes.Sums computes them *)

\* What holds of zero, and of n + 1 when it holds of n, up to N.
LEMMA UpToInduction ==
    ASSUME NEW N \in Nat, NEW T, 0 \in T, \A i \in 1 .. N : i - 1 \in T => i \in T
    PROVE  0 .. N \subseteq T
<1> DEFINE Bad == {i \in 0 .. N : i \notin T}
<1> SUFFICES ASSUME Bad # {} PROVE FALSE
  OBVIOUS
<1>1. PICK i \in Bad : \A j \in Bad : i <= j
  <2>1. Bad \subseteq Nat
    OBVIOUS
  <2> HIDE DEF Bad
  <2> QED
    BY <2>1, LeastElement
<1>2. i \in 1 .. N /\ i - 1 \in 0 .. N
  <2>1. i # 0
    OBVIOUS
  <2> QED
    BY <2>1
<1>3. i - 1 \in T
  BY <1>1, <1>2
<1> QED
  BY <1>1, <1>2, <1>3

Adds(f, s, n) == f = [i \in 0 .. n |-> IF i = 0 THEN 0 ELSE f[i - 1] + s[i]]

LEMMA AddsIs ==
    ASSUME NEW s, NEW n \in Nat, NEW f, Adds(f, s, n)
    PROVE  \A i \in 0 .. n : f[i] = IF i = 0 THEN 0 ELSE f[i - 1] + s[i]
BY DEF Adds

LEMMA AddsWhen ==
    ASSUME NEW s, NEW n \in Nat, NEW f, f = [i \in 0 .. n |-> f[i]],
           \A i \in 0 .. n : f[i] = IF i = 0 THEN 0 ELSE f[i - 1] + s[i]
    PROVE  Adds(f, s, n)
BY DEF Adds

\* A recursive definition over 0 .. N is a function that satisfies it.
LEMMA AddsExists ==
    ASSUME NEW s, NEW N \in Nat
    PROVE  \E f : Adds(f, s, N)
<1> DEFINE T == {n \in Nat : \E f : Adds(f, s, n)}
<1>1. 0 \in T
  <2> DEFINE g == [i \in 0 .. 0 |-> 0]
  <2>1. g = [i \in 0 .. 0 |-> g[i]] /\ \A i \in 0 .. 0 : i = 0 /\ g[i] = 0
    OBVIOUS
  <2> HIDE DEF g
  <2>2. Adds(g, s, 0)
    BY <2>1, AddsWhen
  <2> QED
    BY <2>2
<1>2. ASSUME NEW n \in 1 .. N, n - 1 \in T PROVE n \in T
  <2>1. PICK f : Adds(f, s, n - 1)
    BY <1>2
  <2>2. \A i \in 0 .. n - 1 : f[i] = IF i = 0 THEN 0 ELSE f[i - 1] + s[i]
    BY <1>2, <2>1, AddsIs
  <2> DEFINE g == [i \in 0 .. n |-> IF i # n THEN f[i] ELSE f[n - 1] + s[n]]
  <2>3. g = [i \in 0 .. n |-> g[i]]
    OBVIOUS
  <2>4. g[n] = f[n - 1] + s[n] /\ \A i \in 0 .. n - 1 : g[i] = f[i]
    BY <1>2
  <2> HIDE DEF g
  <2>5. ASSUME NEW i \in 0 .. n
        PROVE  g[i] = IF i = 0 THEN 0 ELSE g[i - 1] + s[i]
    <3>1. CASE i = n
      BY <1>2, <2>4, <3>1
    <3>2. CASE i # n
      <4>1. i \in 0 .. n - 1 /\ (i # 0 => i - 1 \in 0 .. n - 1)
        BY <1>2, <3>2
      <4> QED
        BY <2>2, <2>4, <4>1
    <3> QED
      BY <3>1, <3>2
  <2>6. n \in Nat
    BY <1>2
  <2>7. Adds(g, s, n)
    BY <2>3, <2>5, <2>6, AddsWhen
  <2> QED
    BY <2>6, <2>7
<1>3. 0 .. N \subseteq T
  <2> HIDE DEF T
  <2> QED
    BY <1>1, <1>2, UpToInduction
<1> QED
  BY <1>3

LEMMA SumsAdd ==
    ASSUME NEW s, NEW n \in Nat, Len(s) = n
    PROVE  \A i \in 0 .. n : Sums(s)[i] = IF i = 0 THEN 0 ELSE Sums(s)[i - 1] + s[i]
<1> DEFINE sum == CHOOSE f : Adds(f, s, n)
<1>1. Sums(s) = sum
  BY DEF Sums, Adds
<1>2. Adds(sum, s, n)
  <2>1. \E f : Adds(f, s, n)
    BY AddsExists
  <2> QED
    BY <2>1
<1> HIDE DEF sum
<1>3. \A i \in 0 .. n : sum[i] = IF i = 0 THEN 0 ELSE sum[i - 1] + s[i]
  BY <1>2, AddsIs
<1> QED
  BY <1>1, <1>3

\* The first sums of a sequence of numbers.
LEMMA SumsAre ==
    ASSUME NEW n \in Nat, NEW s \in [1 .. n -> Nat]
    PROVE  /\ Sums(s)[0] = 0
           /\ \A i \in 1 .. n : Sums(s)[i] = Sums(s)[i - 1] + s[i]
           /\ \A i \in 0 .. n : Sums(s)[i] \in Nat
<1>1. Len(s) = n
  OBVIOUS
<1>2. \A i \in 0 .. n : Sums(s)[i] = IF i = 0 THEN 0 ELSE Sums(s)[i - 1] + s[i]
  BY <1>1, SumsAdd
<1>3. Sums(s)[0] = 0
  BY <1>2
<1>4. \A i \in 1 .. n : Sums(s)[i] = Sums(s)[i - 1] + s[i]
  BY <1>2
<1> DEFINE T == {i \in 0 .. n : Sums(s)[i] \in Nat}
<1>5. 0 .. n \subseteq T
  <2>1. 0 \in T
    BY <1>3
  <2>2. ASSUME NEW i \in 1 .. n, i - 1 \in T PROVE i \in T
    BY <1>4, <2>2
  <2> HIDE DEF T
  <2> QED
    BY <2>1, <2>2, UpToInduction
<1> QED
  BY <1>3, <1>4, <1>5

LEMMA SumsNat ==
    ASSUME NEW n \in Nat, NEW s \in [1 .. n -> Nat], NEW i \in 0 .. n
    PROVE  Sums(s)[i] \in Nat
BY SumsAre

LEMMA SumsNext ==
    ASSUME NEW n \in Nat, NEW s \in [1 .. n -> Nat], NEW i \in 1 .. n
    PROVE  Sums(s)[i] = Sums(s)[i - 1] + s[i]
BY SumsAre

LEMMA SumsGrow ==
    ASSUME NEW n \in Nat, NEW s \in [1 .. n -> Nat], NEW i \in 0 .. n, NEW j \in 0 .. n, i <= j
    PROVE  Sums(s)[i] <= Sums(s)[j]
<1> DEFINE T == {k \in 0 .. n : i <= k => Sums(s)[i] <= Sums(s)[k]}
<1>1. 0 \in T
  BY SumsAre
<1>2. ASSUME NEW k \in 1 .. n, k - 1 \in T PROVE k \in T
  <2>1. Sums(s)[k] = Sums(s)[k - 1] + s[k]
    BY SumsNext
  <2>2. Sums(s)[k] = Sums(s)[k - 1] + s[k] /\ s[k] \in Nat /\ k - 1 \in 0 .. n /\ k \in 0 .. n
    BY <2>1
  <2>3. Sums(s)[k - 1] \in Nat /\ Sums(s)[k] \in Nat /\ Sums(s)[i] \in Nat
    BY <2>2, SumsNat
  <2> QED
    BY <1>2, <2>2, <2>3
<1>3. 0 .. n \subseteq T
  <2> HIDE DEF T
  <2> QED
    BY <1>1, <1>2, UpToInduction
<1> QED
  BY <1>3

\* So many frames are, to within h halves of a frame, so many milliseconds.
Close(frames, ms, h) == Abs(1000 * frames - FPS * ms) <= 500 * h

\* Where every term is within half a frame, the sum of i of them is within i halves.
LEMMA SumsClose ==
    ASSUME NEW n \in Nat, NEW a \in [1 .. n -> Nat], NEW b \in [1 .. n -> Nat],
           \A k \in 1 .. n : Close(a[k], b[k], 1)
    PROVE  \A i \in 0 .. n : Close(Sums(a)[i], Sums(b)[i], i)
<1> DEFINE T == {i \in 0 .. n : Close(Sums(a)[i], Sums(b)[i], i)}
<1>1. 0 \in T
  <2>1. Sums(a)[0] = 0 /\ Sums(b)[0] = 0
    BY SumsAre
  <2> QED
    BY <2>1 DEF Close, Abs, FPS
<1>2. ASSUME NEW k \in 1 .. n, k - 1 \in T PROVE k \in T
  <2>1. Sums(a)[k] = Sums(a)[k - 1] + a[k]
    BY SumsNext
  <2>2. Sums(b)[k] = Sums(b)[k - 1] + b[k]
    BY SumsNext
  <2>3. Sums(a)[k] = Sums(a)[k - 1] + a[k] /\ Sums(b)[k] = Sums(b)[k - 1] + b[k]
    BY <2>1, <2>2
  <2>4. k - 1 \in 0 .. n /\ a[k] \in Nat /\ b[k] \in Nat
    OBVIOUS
  <2>5. Sums(a)[k - 1] \in Nat
    BY <2>4, SumsNat
  <2>6. Sums(b)[k - 1] \in Nat
    BY <2>4, SumsNat
  <2>7. PICK x, y, u, v \in Nat : x = Sums(a)[k - 1] /\ y = Sums(b)[k - 1] /\ u = a[k] /\ v = b[k]
    BY <2>4, <2>5, <2>6
  <2>8. Close(x, y, k - 1) /\ Close(u, v, 1)
    BY <1>2, <2>7
  <2>9. Close(x + u, y + v, k)
    BY <2>8 DEF Close, Abs, FPS
  <2>10. Sums(a)[k] = x + u /\ Sums(b)[k] = y + v
    BY <2>3, <2>7
  <2> QED
    BY <2>9, <2>10
<1>3. 0 .. n \subseteq T
  <2> HIDE DEF T
  <2> QED
    BY <1>1, <1>2, UpToInduction
<1> QED
  BY <1>3

-----------------------------------------------------------------------------
(* The clock of the stitched video *)

\* Props whose segments have timelines with a length.
AllTimed(props, n) ==
    /\ Len(props.segments) = n /\ DOMAIN props.segments = 1 .. n
    /\ \A i \in 1 .. n : HasTimeline(props, props.segments[i].id)
    /\ \A i \in 1 .. n : Ms(props, i) \in Nat \ {0}

\* A segment has at least one frame, and within half a frame those of its narration.
LEMMA SegFramesAre ==
    ASSUME NEW props, NEW n \in Nat, AllTimed(props, n), NEW i \in 1 .. n
    PROVE  /\ SegFrames(props, i) \in Nat \ {0}
           /\ SegFrames(props, i) = Larger(1, Round(Ms(props, i) * FPS, 1000))
           /\ FPS * Ms(props, i) >= 500 => Close(SegFrames(props, i), Ms(props, i), 1)
           /\ DurationMs(props, props.segments[i].id, 1000) = Ms(props, i)
<1>1. PICK ms \in Nat \ {0} : ms = Ms(props, i)
  BY DEF AllTimed
<1>2. \A other : DurationMs(props, props.segments[i].id, other) = ms
  BY <1>1 DEF DurationMs, Ms, AllTimed
<1>3. SegFrames(props, i) = Larger(1, Round(ms * FPS, 1000))
  BY <1>2 DEF SegFrames
<1>4. PICK r \in Nat : r = Round(ms * FPS, 1000)
  BY DEF Round, FPS
<1>5. 2000 * r <= 60 * ms + 1000 /\ 60 * ms + 1000 < 2000 * (r + 1)
  BY <1>4 DEF Round, FPS
<1>6. SegFrames(props, i) = (IF r >= 1 THEN r ELSE 1)
  BY <1>3, <1>4 DEF Larger
<1>7. SegFrames(props, i) \in Nat \ {0}
  BY <1>6
<1>8. FPS * ms >= 500 => Close(SegFrames(props, i), ms, 1)
  BY <1>5, <1>6 DEF Close, Abs, FPS
<1> QED
  BY <1>1, <1>2, <1>3, <1>7, <1>8

\* Each segment starts where the one before it ends.
LEMMA OffsetsAre ==
    ASSUME NEW props, NEW n \in Nat, AllTimed(props, n)
    PROVE  /\ OffsetFrames(props, 1) = 0
           /\ \A i \in 1 .. n + 1 : OffsetFrames(props, i) \in Nat
           /\ \A i \in 1 .. n : OffsetFrames(props, i + 1) = OffsetFrames(props, i) + SegFrames(props, i)
           /\ \A i, j \in 1 .. n + 1 : i <= j => OffsetFrames(props, i) <= OffsetFrames(props, j)
<1> DEFINE fr == [k \in 1 .. n |-> SegFrames(props, k)]
<1>1. \A k \in 1 .. n : SegFrames(props, k) \in Nat
  BY SegFramesAre
<1>2. fr \in [1 .. n -> Nat]
  BY <1>1
<1>3. \A i \in 1 .. n + 1 : OffsetFrames(props, i) = Sums(fr)[i - 1]
  BY DEF OffsetFrames, AllTimed
<1>4. \A k \in 1 .. n : fr[k] = SegFrames(props, k)
  OBVIOUS
<1> HIDE DEF fr
<1>5. Sums(fr)[0] = 0
  BY <1>2, SumsAre
<1>6. \A i \in 1 .. n : Sums(fr)[i] = Sums(fr)[i - 1] + fr[i]
  BY <1>2, SumsNext
<1>7. \A i \in 0 .. n : Sums(fr)[i] \in Nat
  BY <1>2, SumsNat
<1>8. \A i, j \in 0 .. n : i <= j => Sums(fr)[i] <= Sums(fr)[j]
  BY <1>2, SumsGrow
<1>9. OffsetFrames(props, 1) = 0
  BY <1>3, <1>5
<1>10. ASSUME NEW i \in 1 .. n + 1 PROVE OffsetFrames(props, i) \in Nat
  BY <1>3, <1>7
<1>11. ASSUME NEW i \in 1 .. n
       PROVE  OffsetFrames(props, i + 1) = OffsetFrames(props, i) + SegFrames(props, i)
  <2>1. i + 1 \in 1 .. n + 1 /\ i \in 1 .. n + 1 /\ (i + 1) - 1 = i
    OBVIOUS
  <2> QED
    BY <1>3, <1>4, <1>6, <2>1
<1>12. ASSUME NEW i \in 1 .. n + 1, NEW j \in 1 .. n + 1, i <= j
       PROVE  OffsetFrames(props, i) <= OffsetFrames(props, j)
  <2>1. i - 1 \in 0 .. n /\ j - 1 \in 0 .. n /\ i - 1 <= j - 1
    BY <1>12
  <2> QED
    BY <1>3, <1>8, <2>1
<1> QED
  BY <1>9, <1>10, <1>11, <1>12

\* A segment is on screen from its start to that of the next.
LEMMA OnScreenIs ==
    ASSUME NEW props, NEW n \in Nat, AllTimed(props, n), NEW frame \in Nat
    PROVE  OnScreen(props, frame) =
               {i \in 1 .. n : /\ OffsetFrames(props, i) <= frame
                               /\ frame < OffsetFrames(props, i + 1)}
<1>1. \A i \in 1 .. n : HasTimeline(props, props.segments[i].id) /\ DOMAIN props.segments = 1 .. n
  BY DEF AllTimed
<1>2. \A i \in 1 .. n : OffsetFrames(props, i + 1) = OffsetFrames(props, i) + SegFrames(props, i)
  BY OffsetsAre
<1>3. ASSUME NEW i \in 1 .. n
      PROVE  /\ Pieces(props)[i].drawn
             /\ Pieces(props)[i].offset = OffsetFrames(props, i)
             /\ Pieces(props)[i].frames = SegFrames(props, i)
  <2>1. Pieces(props)[i].offset = OffsetFrames(props, i)
    BY <1>1 DEF Pieces
  <2>2. Pieces(props)[i].frames = SegFrames(props, i)
    BY <1>1 DEF Pieces
  <2>3. Pieces(props)[i].drawn
    BY <1>1 DEF Pieces, HasTimeline
  <2> QED
    BY <2>1, <2>2, <2>3
<1>4. OnScreen(props, frame) =
          {i \in 1 .. n : /\ Pieces(props)[i].drawn /\ Pieces(props)[i].offset <= frame
                          /\ frame < Pieces(props)[i].offset + Pieces(props)[i].frames}
  BY DEF OnScreen, AllTimed
<1> QED
  BY <1>2, <1>3, <1>4

\* Up to the end of the last segment one of them is, and after it none.
LEMMA OneOnScreen ==
    ASSUME NEW props, NEW n \in Nat \ {0}, AllTimed(props, n), NEW frame \in Nat
    PROVE  \/ frame < OffsetFrames(props, n + 1) /\ \E i \in 1 .. n : OnScreen(props, frame) = {i}
           \/ ~(frame < OffsetFrames(props, n + 1)) /\ OnScreen(props, frame) = {}
<1> DEFINE off(i) == OffsetFrames(props, i)
<1>1. /\ off(1) = 0
      /\ \A i \in 1 .. n + 1 : off(i) \in Nat
      /\ \A i, j \in 1 .. n + 1 : i <= j => off(i) <= off(j)
  BY OffsetsAre
<1>2. OnScreen(props, frame) = {i \in 1 .. n : off(i) <= frame /\ frame < off(i + 1)}
  BY OnScreenIs
<1> HIDE DEF off
<1>3. ASSUME NEW i \in OnScreen(props, frame), NEW j \in OnScreen(props, frame), i < j
      PROVE  FALSE
  <2>1. i \in 1 .. n /\ j \in 1 .. n /\ frame < off(i + 1) /\ off(j) <= frame
    BY <1>2
  <2>2. i + 1 \in 1 .. n + 1 /\ j \in 1 .. n + 1 /\ i + 1 <= j
    BY <1>3, <2>1
  <2>3. off(i + 1) <= off(j) /\ off(i + 1) \in Nat /\ off(j) \in Nat
    BY <1>1, <2>2
  <2> QED
    BY <2>1, <2>3
<1>4. ASSUME NEW i \in OnScreen(props, frame), NEW j \in OnScreen(props, frame) PROVE i = j
  <2>1. i \in 1 .. n /\ j \in 1 .. n
    BY <1>2
  <2>2. ~(i < j) /\ ~(j < i)
    BY <1>3
  <2> QED
    BY <2>1, <2>2
<1>5. CASE frame < off(n + 1)
  <2> DEFINE begun == {i \in 1 .. n : off(i) <= frame}
  <2>1. 1 \in begun
    BY <1>1
  <2>2. PICK i \in begun : \A j \in begun : j <= i
    <3>1. begun \subseteq 1 .. n
      OBVIOUS
    <3> HIDE DEF begun
    <3> QED
      BY <2>1, <3>1, GreatestElement
  <2>3. frame < off(i + 1)
    <3>1. CASE i = n
      BY <1>5, <3>1
    <3>2. CASE i # n
      <4>1. i + 1 \in 1 .. n /\ i + 1 \notin begun
        BY <2>2, <3>2
      <4>2. off(i + 1) \in Nat
        BY <1>1, <4>1
      <4> QED
        BY <4>1, <4>2
    <3> QED
      BY <3>1, <3>2
  <2>4. i \in OnScreen(props, frame)
    BY <1>2, <2>2, <2>3
  <2>5. OnScreen(props, frame) = {i} /\ i \in 1 .. n
    BY <1>4, <2>2, <2>4
  <2> QED
    BY <1>5, <2>5 DEF off
<1>6. CASE ~(frame < off(n + 1))
  <2>1. ASSUME NEW i \in OnScreen(props, frame) PROVE FALSE
    <3>1. i \in 1 .. n /\ frame < off(i + 1)
      BY <1>2
    <3>2. i + 1 \in 1 .. n + 1 /\ n + 1 \in 1 .. n + 1 /\ i + 1 <= n + 1
      BY <3>1
    <3>3. off(i + 1) <= off(n + 1) /\ off(i + 1) \in Nat /\ off(n + 1) \in Nat
      BY <1>1, <3>2
    <3> QED
      BY <1>6, <3>1, <3>3
  <2> QED
    BY <1>6, <2>1 DEF off
<1> QED
  BY <1>5, <1>6

\* What is asked of the rounding.
LEMMA WithinHalves ==
    ASSUME NEW props, NEW n \in Nat \ {0}, AllTimed(props, n),
           \A i \in 1 .. n : FPS * Ms(props, i) >= 500
    PROVE  /\ \A i \in 1 .. n :
                  Abs(1000 * OffsetFrames(props, i) - FPS * MsBefore(props, i)) <= 500 * (i - 1)
           /\ VideoFrames(props) > FPS => 2 * Abs(VideoFrames(props) - OffsetFrames(props, n + 1)) <= n + 1
<1> DEFINE fr == [k \in 1 .. n |-> SegFrames(props, k)]
           ms == [k \in 1 .. n |-> Ms(props, k)]
           all == [k \in 1 .. n |-> DurationMs(props, props.segments[k].id, 1000)]
<1>1. \A k \in 1 .. n : /\ SegFrames(props, k) \in Nat /\ Ms(props, k) \in Nat
                        /\ Close(SegFrames(props, k), Ms(props, k), 1)
  <2> SUFFICES ASSUME NEW k \in 1 .. n
               PROVE  /\ SegFrames(props, k) \in Nat /\ Ms(props, k) \in Nat
                      /\ Close(SegFrames(props, k), Ms(props, k), 1)
    OBVIOUS
  <2>1. FPS * Ms(props, k) >= 500
    OBVIOUS
  <2>2. SegFrames(props, k) \in Nat
    BY SegFramesAre
  <2>3. Close(SegFrames(props, k), Ms(props, k), 1)
    BY <2>1, SegFramesAre
  <2> QED
    BY <2>2, <2>3 DEF AllTimed
<1>2. fr \in [1 .. n -> Nat] /\ ms \in [1 .. n -> Nat]
  BY <1>1
<1>3. \A k \in 1 .. n : Close(fr[k], ms[k], 1)
  BY <1>1
<1>4. all = ms
  BY SegFramesAre
<1>5. \A i \in 1 .. n + 1 : OffsetFrames(props, i) = Sums(fr)[i - 1]
  BY DEF OffsetFrames, AllTimed
<1>6. \A i \in 1 .. n : MsBefore(props, i) = Sums(ms)[i - 1]
  BY DEF MsBefore, AllTimed
<1>7. VideoFrames(props) = Larger(FPS, Round(Sums(all)[n] * FPS, 1000))
  BY DEF VideoFrames, AllTimed
<1> HIDE DEF fr, ms, all
<1>8. n \in Nat
  OBVIOUS
<1>9. \A i \in 0 .. n : Close(Sums(fr)[i], Sums(ms)[i], i)
  BY <1>8, <1>2, <1>3, SumsClose
<1>10. ASSUME NEW i \in 1 .. n
       PROVE  Abs(1000 * OffsetFrames(props, i) - FPS * MsBefore(props, i)) <= 500 * (i - 1)
  <2>1. i - 1 \in 0 .. n /\ i \in 1 .. n + 1
    OBVIOUS
  <2>2. Close(OffsetFrames(props, i), MsBefore(props, i), i - 1)
    BY <1>5, <1>6, <1>9, <2>1
  <2> QED
    BY <2>2 DEF Close
<1>11. ASSUME VideoFrames(props) > FPS
       PROVE  2 * Abs(VideoFrames(props) - OffsetFrames(props, n + 1)) <= n + 1
  <2>1. n \in 0 .. n /\ n + 1 \in 1 .. n + 1 /\ (n + 1) - 1 = n
    OBVIOUS
  <2>2. PICK total, frames \in Nat : total = Sums(ms)[n] /\ frames = Sums(fr)[n]
    <3>1. Sums(ms)[n] \in Nat
      BY <1>2, <2>1, SumsNat
    <3>2. Sums(fr)[n] \in Nat
      BY <1>2, <2>1, SumsNat
    <3> QED
      BY <3>1, <3>2
  <2>3. Close(frames, total, n)
    BY <1>9, <2>1, <2>2
  <2>4. PICK r \in Nat : r = Round(total * FPS, 1000)
    BY DEF Round, FPS
  <2>5. 2000 * r <= 60 * total + 1000 /\ 60 * total + 1000 < 2000 * (r + 1)
    BY <2>4 DEF Round, FPS
  <2>6. VideoFrames(props) = Larger(FPS, r)
    BY <1>4, <1>7, <2>2, <2>4
  <2>7. VideoFrames(props) = r
    BY <1>11, <2>6 DEF Larger, FPS
  <2>8. OffsetFrames(props, n + 1) = frames
    BY <1>5, <2>1, <2>2
  <2>9. 2 * Abs(r - frames) <= n + 1
    BY <2>3, <2>5 DEF Close, Abs, FPS
  <2> QED
    BY <2>7, <2>8, <2>9
<1> QED
  BY <1>10, <1>11

-----------------------------------------------------------------------------
(* The inputs of the long video *)

\* A file in the directory is of a version that wrote it.
Written == \A f \in Files : dir[f] # 0 => f \in Writes(dir[f])

FInv == TInv /\ Written

LEMMA WrittenStep ==
    ASSUME FInv, [Next]_vars
    PROVE  Written'
<1> USE DEF FInv, TInv, TypeOK
<1>1. world' = world /\ Files' = Files
  <2>1. CASE Next
    BY <2>1, MovesStep, WorldStays DEF WorldMoves
  <2>2. CASE UNCHANGED vars
    BY <2>2, WorldStays DEF vars
  <2> QED
    BY <2>1, <2>2
<1>2. \A v : Writes(v)' = Writes(v)
  BY <1>1 DEF Writes, SegmentIds, Segment, Script
<1>3. CASE UNCHANGED dir
  BY <1>1, <1>2, <1>3 DEF Written
<1>4. CASE DownloadFile /\ dir' = [dir EXCEPT ![FileUnderWay] = ServerFile(job.version, FileUnderWay)]
  <2>1. job.version \in Nat
    BY HistoryIs DEF WorldOK, JobOK
  <2>2. \A f : ServerFile(job.version, f) # 0 => f \in Writes(ServerFile(job.version, f))
    BY <2>1, LastWriter
  <2>3. \A f \in Files : dir'[f] # 0 => f \in Writes(dir'[f])
    BY <1>4, <2>2 DEF Written, StoreOK
  <2> QED
    BY <1>1, <1>2, <2>3 DEF Written
<1> QED
  BY <1>3, <1>4
  DEF Next, Runner, Claim, SkipSync, DownloadFile, MixSoundtrack, MakeBundle, RefuseInputs,
      PrepareLong, RenderFrame, FinishLong, RefuseShorts, RenderShort, FinishShorts,
      CollectRenderFiles, SendChunk, Finalize, CompleteJob, DropJob, RequestCancel, Crash, Rewrite,
      Enqueue, Local, Mismatch, Verified, vars

LEMMA FramesInv == Spec => []FInv
<1>1. Init => FInv
  <2>1. ASSUME Init PROVE Written
    BY <2>1 DEF Init, Written
  <2> QED
    BY <2>1, StagesInit DEF FInv
<1>2. FInv /\ [Next]_vars => FInv'
  BY StagesNext, WrittenStep DEF FInv
<1> QED
  BY <1>1, <1>2, PTL DEF Spec

LEMMA IntervalSize ==
    ASSUME NEW n \in Nat
    PROVE  Cardinality(1 .. n) = n
BY FS_Interval

\* All the segments of a script, picked by their ids, are the segments.
LEMMA PickedAll ==
    ASSUME NEW segs, IsSequence(segs), NEW ids, \A i \in DOMAIN segs : segs[i].id \in ids
    PROVE  /\ DOMAIN Picked(segs, ids) = 1 .. Len(segs) /\ Len(Picked(segs, ids)) = Len(segs)
           /\ \A i \in 1 .. Len(segs) : Picked(segs, ids)[i] = segs[i]
<1> DEFINE n == Len(segs)
           places == {i \in DOMAIN segs : segs[i].id \in ids}
<1>1. n \in Nat /\ places = 1 .. n
  BY SequenceFinite
<1>2. Cardinality(places) = n
  BY <1>1, IntervalSize
<1>3. ASSUME NEW i \in 1 .. n PROVE Nth(1 .. n, i) = i
  <2>1. ASSUME NEW j \in 1 .. n PROVE Cardinality({k \in 1 .. n : k <= j}) = j
    <3>1. {k \in 1 .. n : k <= j} = 1 .. j
      BY <1>1
    <3>2. j \in Nat
      BY <1>1
    <3> QED
      BY <3>1, <3>2, IntervalSize
  <2> HIDE DEF n
  <2> QED
    BY <2>1 DEF Nth
<1>4. Picked(segs, ids) = [i \in 1 .. Cardinality(places) |-> segs[Nth(places, i)]]
  BY DEF Picked
<1> HIDE DEF n, places
<1>5. Picked(segs, ids) = [i \in 1 .. n |-> segs[Nth(places, i)]]
  BY <1>2, <1>4
<1>6. \A i \in 1 .. n : Picked(segs, ids)[i] = segs[i]
  BY <1>1, <1>3, <1>5
<1>7. DOMAIN Picked(segs, ids) = 1 .. n /\ Len(Picked(segs, ids)) = n
  BY <1>1, <1>5
<1> QED
  BY <1>6, <1>7 DEF n

\* A timeline in the directory is one the timeline service made of a take.
LEMMA TimelineIs ==
    ASSUME FInv, NEW id, <<"timelines", id>> \in Files, dir[<<"timelines", id>>] # 0
    PROVE  MadeOfTake(LocalTimeline(id)) /\ LocalTimeline(id) # NoTimeline
<1> USE DEF FInv, TInv, TypeOK
<1> DEFINE v == dir[<<"timelines", id>>]
           segs == Script(v).segments
<1>1. v \in 0 .. Len(world.history) /\ Len(world.history) \in Nat /\ v # 0
  BY HistoryIs DEF WorldOK, StoreOK
<1>2. v \in 1 .. Len(world.history)
  BY <1>1, FromOne
<1>3. <<"timelines", id>> \in Writes(v)
  BY DEF Written
<1> HIDE DEF v
<1>4. id \in SegmentIds(v) /\ Segment(v, id).tl # NoTimeline
  BY <1>3 DEF Writes
<1>5. PICK j \in DOMAIN segs : Segment(v, id) = segs[j]
  BY <1>4 DEF SegmentIds, Segment
<1>6. Script(v) \in ToSet(world.history)
  <2>1. v \in DOMAIN world.history
    BY <1>2, HistoryIs DEF WorldOK
  <2> QED
    BY <2>1 DEF Script, ToSet
<1>7. segs[j] \in ToSet(segs)
  BY <1>5 DEF ToSet
<1>8. MadeOfTake(segs[j].tl)
  BY <1>6, <1>7, HistoriesAssumption DEF WorldOK
<1>9. LocalTimeline(id) = Segment(v, id).tl
  BY DEF LocalTimeline, v
<1> QED
  BY <1>4, <1>5, <1>8, <1>9

\* The length of a timeline in the directory is a number.
LEMMA DurationIs ==
    ASSUME FInv, NEW id, <<"timelines", id>> \in Files, dir[<<"timelines", id>>] # 0
    PROVE  LocalTimeline(id).dur \in Nat
<1>1. PICK tl : tl = LocalTimeline(id)
  OBVIOUS
<1>2. PICK take : take = tl.take
  OBVIOUS
<1>3. Recordable(take) /\ BuildSegment(take) # NoTimeline /\ tl.dur = BuildSegment(take).dur
  BY <1>1, <1>2, TimelineIs DEF MadeOfTake
<1>4. PICK samples, n : samples = take.samples /\ n = Len(samples)
  OBVIOUS
<1>5. n \in Nat /\ DOMAIN samples = 1 .. n /\ \A i \in 1 .. n : samples[i].t \in Nat
  BY <1>3, <1>4 DEF Recordable
<1> DEFINE file == SerializeBlendshapes(take.samples, TRUE).samples
<1>6. tl.dur = Duration(file)
  BY <1>3 DEF BuildSegment
<1>7. DOMAIN file = 1 .. n /\ Len(file) = n /\ \A i \in 1 .. n : file[i].t = WholeMs(samples[i].t)
  <2>1. InWholeMs(samples) = [i \in 1 .. n |-> [t |-> WholeMs(samples[i].t), bs |-> samples[i].bs]]
    BY <1>5 DEF InWholeMs
  <2>2. PICK whole : whole = InWholeMs(samples)
    OBVIOUS
  <2>3. DOMAIN whole = 1 .. n /\ \A i \in 1 .. n : whole[i].t = WholeMs(samples[i].t)
    BY <2>1, <2>2
  <2>4. file = [i \in 1 .. n |-> [t |-> whole[i].t, bs |-> Rounded(whole[i].bs)]]
    BY <1>4, <2>2, <2>3 DEF SerializeBlendshapes, InThousandths
  <2> HIDE DEF file
  <2> QED
    BY <1>5, <2>3, <2>4
<1> HIDE DEF file
<1>8. Duration(file) \in Nat
  <2>1. CASE file = <<>>
    BY <2>1 DEF Duration
  <2>2. CASE file # <<>>
    <3>1. n \in 1 .. n
      <4>1. n = 0 => file = <<>>
        BY <1>7
      <4> QED
        BY <1>5, <2>2, <4>1
    <3>2. Duration(file) = WholeMs(samples[n].t)
      BY <1>7, <2>2, <3>1 DEF Duration, Last
    <3>3. PICK m \in Nat : m = samples[n].t
      BY <1>5, <3>1
    <3>4. WholeMs(m) \in Nat
      BY DEF WholeMs
    <3> QED
      BY <3>2, <3>3, <3>4
  <2> QED
    BY <2>1, <2>2
<1> QED
  BY <1>1, <1>6, <1>8

\* Every segment of the script, with its scene parsed and its timeline.
LEMMA LongPropsAre ==
    ASSUME FInv, Drawing
    PROVE  /\ HasScript /\ GoodInputs /\ LongProps = BuildInputProps(AllIds)
           /\ IsSequence(LocalScript.segments) /\ Len(LocalScript.segments) \in Nat \ {0}
           /\ DOMAIN LocalScript.segments = 1 .. Len(LocalScript.segments)
           /\ AllTimed(LongProps, Len(LocalScript.segments))
           /\ LongProps.meta = world.meta
           /\ \A i \in 1 .. Len(LocalScript.segments) :
                  /\ LongProps.segments[i].id = LocalScript.segments[i].id
                  /\ LongProps.segments[i].scene =
                         IF LocalScript.segments[i].scene = NoScene THEN NoScene
                         ELSE ParseScene(LocalScript.segments[i].scene).scene
                  /\ Accepted(LocalScript.segments[i])
                  /\ LongProps.timelines[LocalScript.segments[i].id]
                         = LocalTimeline(LocalScript.segments[i].id)
<1> USE DEF FInv, TInv, TypeOK
<1> DEFINE segs == LocalScript.segments
           n == Len(LocalScript.segments)
           picked == Picked(segs, AllIds)
           scene(i) == IF segs[i].scene = NoScene THEN NoScene ELSE ParseScene(segs[i].scene).scene
<1>1. HasScript /\ GoodInputs /\ run.props = <<BuildInputProps(AllIds)>>
  BY DEF InputsStand, Drawing
<1>2. LongProps = BuildInputProps(AllIds)
  BY <1>1 DEF LongProps
<1>3. IsSequence(segs) /\ n \in Nat /\ DOMAIN segs = 1 .. n
  BY <1>1, LocalScriptIs, SequenceFinite
<1>4. n # 0
  <2>1. segs # <<>>
    BY <1>1 DEF GoodInputs
  <2> QED
    BY <1>3, <2>1 DEF IsSequence
<1>5. \A i \in 1 .. n : segs[i] \in ToSet(segs) /\ segs[i].id \in AllIds
  BY <1>3 DEF ToSet, AllIds
<1>6. DOMAIN picked = 1 .. n /\ Len(picked) = n /\ \A i \in 1 .. n : picked[i] = segs[i]
  <2>1. IsSequence(segs) /\ \A i \in DOMAIN segs : segs[i].id \in AllIds
    BY <1>3, <1>5
  <2> HIDE DEF segs
  <2> QED
    BY <2>1, PickedAll DEF segs
<1>7. LongProps.segments = [i \in DOMAIN picked |->
                               [id    |-> picked[i].id,
                                scene |-> IF picked[i].scene = NoScene THEN NoScene
                                          ELSE ParseScene(picked[i].scene).scene]]
  BY <1>2 DEF BuildInputProps
<1>8. LongProps.timelines = [id \in AllIds |-> LocalTimeline(id)] /\ LongProps.meta = world.meta
  BY <1>2 DEF BuildInputProps
<1>9. \A i \in 1 .. n : Accepted(segs[i])
  BY <1>1, <1>5 DEF GoodInputs
<1>10. \A i \in 1 .. n : LocalTimeline(segs[i].id).dur \in Nat \ {0}
  <2> SUFFICES ASSUME NEW i \in 1 .. n PROVE LocalTimeline(segs[i].id).dur \in Nat \ {0}
    OBVIOUS
  <2>1. /\ <<"timelines", segs[i].id>> \in Files /\ dir[<<"timelines", segs[i].id>>] # 0
        /\ LocalTimeline(segs[i].id).dur > 0
    BY <1>9 DEF Accepted
  <2>2. LocalTimeline(segs[i].id).dur \in Nat
    BY <2>1, DurationIs
  <2> QED
    BY <2>1, <2>2
<1> HIDE DEF picked, segs
<1>11. /\ DOMAIN LongProps.segments = 1 .. n /\ Len(LongProps.segments) = n
       /\ \A i \in 1 .. n : /\ LongProps.segments[i].id = segs[i].id
                            /\ LongProps.segments[i].scene = scene(i)
  BY <1>3, <1>6, <1>7
<1>12. \A i \in 1 .. n : /\ LongProps.timelines[segs[i].id] = LocalTimeline(segs[i].id)
                         /\ segs[i].id \in DOMAIN LongProps.timelines
  BY <1>5, <1>8
<1>13. AllTimed(LongProps, n)
  BY <1>10, <1>11, <1>12 DEF AllTimed, HasTimeline, Ms
<1> QED
  BY <1>1, <1>2, <1>3, <1>4, <1>8, <1>9, <1>11, <1>12, <1>13 DEF segs

\* The kit stitches the segments with no gap and no overlap, to within the rounding
\* of its frames, whatever script and timelines a job has found.
THEOREM OneSegmentAtATime == Spec => []OneSegmentOnScreen
<1>1. ASSUME FInv PROVE OneSegmentOnScreen
  <2> SUFFICES ASSUME Drawing, Frame < run.frames PROVE OneSegmentOnScreen
    BY DEF OneSegmentOnScreen
  <2> DEFINE n == Len(LongProps.segments)
             ends == OffsetFrames(LongProps, n) + SegFrames(LongProps, n)
  <2>1. n \in Nat \ {0} /\ AllTimed(LongProps, n)
    BY <1>1, LongPropsAre DEF AllTimed
  <2>2. Frame \in Nat
    BY <1>1 DEF FInv, TInv, TypeOK, RunOK, Frame
  <2> HIDE DEF n
  <2>3. ends = OffsetFrames(LongProps, n + 1)
    BY <2>1, OffsetsAre
  <2>4. \/ Frame < ends /\ \E i \in 1 .. n : OnScreen(LongProps, Frame) = {i}
        \/ ~(Frame < ends) /\ OnScreen(LongProps, Frame) = {}
    BY <2>1, <2>2, <2>3, OneOnScreen
  <2>5. Cardinality(OnScreen(LongProps, Frame)) = (IF Frame < ends THEN 1 ELSE 0)
    BY <2>4, FS_Singleton, FS_EmptySet
  <2>6. (\A i \in 1 .. n : FPS * Ms(LongProps, i) >= 500) =>
            /\ \A i \in 1 .. n :
                   Abs(1000 * OffsetFrames(LongProps, i) - FPS * MsBefore(LongProps, i)) <= 500 * (i - 1)
            /\ VideoFrames(LongProps) > FPS => 2 * Abs(VideoFrames(LongProps) - ends) <= n + 1
    BY <2>1, <2>3, WithinHalves
  <2> QED
    BY <2>5, <2>6 DEF OneSegmentOnScreen, n
<1> QED
  BY <1>1, FramesInv, PTL

-----------------------------------------------------------------------------
(* The grammar of the scenes *)

LEMMA WithDefaultsIs ==
    ASSUME NEW g, NEW p
    PROVE  WithDefaults(g, p) =
               [x \in DOMAIN p \cup DOMAIN g.defaults |-> IF x \in DOMAIN p THEN p[x] ELSE g.defaults[x]]
BY DEF WithDefaults

\* What has its defaults is left as it is.
LEMMA DefaultsKeep ==
    ASSUME NEW g, NEW p, NEW x \in DOMAIN p
    PROVE  WithDefaults(g, p)[x] = p[x]
BY WithDefaultsIs

LEMMA DefaultsStrict ==
    ASSUME NEW g, NEW p, Strict(g, p)
    PROVE  Strict(g, WithDefaults(g, p))
BY WithDefaultsIs DEF Strict

LEMMA DefaultsTwice ==
    ASSUME NEW g, NEW p
    PROVE  WithDefaults(g, WithDefaults(g, p)) = WithDefaults(g, p)
<1> DEFINE q == WithDefaults(g, p)
<1>1. q = [x \in DOMAIN p \cup DOMAIN g.defaults |-> IF x \in DOMAIN p THEN p[x] ELSE g.defaults[x]]
  BY WithDefaultsIs
<1>2. WithDefaults(g, q) =
          [x \in DOMAIN q \cup DOMAIN g.defaults |-> IF x \in DOMAIN q THEN q[x] ELSE g.defaults[x]]
  BY WithDefaultsIs
<1> HIDE DEF q
<1>3. DOMAIN q = DOMAIN p \cup DOMAIN g.defaults /\ q = [x \in DOMAIN q |-> q[x]]
  BY <1>1
<1>4. DOMAIN q \cup DOMAIN g.defaults = DOMAIN q
  BY <1>3
<1>5. WithDefaults(g, q) = q
  BY <1>2, <1>3, <1>4
<1> QED
  BY <1>5 DEF q

LEMMA AllDefaultsTwice ==
    ASSUME NEW g, NEW s
    PROVE  /\ AllDefaults(g, AllDefaults(g, s)) = AllDefaults(g, s)
           /\ DOMAIN AllDefaults(g, s) = DOMAIN s
           /\ \A i \in DOMAIN s : \A x \in DOMAIN s[i] : AllDefaults(g, s)[i][x] = s[i][x]
           /\ AllStrict(g, s) => AllStrict(g, AllDefaults(g, s))
<1> DEFINE q == AllDefaults(g, s)
<1>1. q = [i \in DOMAIN s |-> WithDefaults(g, s[i])]
  BY DEF AllDefaults
<1>2. AllDefaults(g, q) = [i \in DOMAIN q |-> WithDefaults(g, q[i])]
  BY DEF AllDefaults
<1> HIDE DEF q
<1>3. DOMAIN q = DOMAIN s /\ q = [i \in DOMAIN q |-> q[i]] /\ \A i \in DOMAIN s : q[i] = WithDefaults(g, s[i])
  BY <1>1
<1>4. \A i \in DOMAIN q : WithDefaults(g, q[i]) = q[i]
  BY <1>3, DefaultsTwice
<1>5. AllDefaults(g, q) = q
  BY <1>2, <1>3, <1>4
<1>6. \A i \in DOMAIN s : \A x \in DOMAIN s[i] : q[i][x] = s[i][x]
  BY <1>3, DefaultsKeep
<1>7. AllStrict(g, s) => AllStrict(g, q)
  BY <1>3, DefaultsStrict DEF AllStrict
<1> QED
  BY <1>3, <1>5, <1>6, <1>7 DEF q

\* The elements of the one field of a scene that has elements of its own.
Refilled(g, p, x) == [p EXCEPT ![x] = AllDefaults(g, p[x])]

LEMMA RefilledTwice ==
    ASSUME NEW g, NEW e, NEW props, NEW x \in DOMAIN props,
           NEW q, q = Refilled(e, WithDefaults(g, props), x)
    PROVE  /\ Refilled(e, WithDefaults(g, q), x) = q
           /\ q[x] = AllDefaults(e, props[x])
           /\ DOMAIN q = DOMAIN WithDefaults(g, props)
           /\ \A y \in DOMAIN q : y # x => q[y] = WithDefaults(g, props)[y]
<1> DEFINE p == WithDefaults(g, props)
<1>1. DOMAIN p = DOMAIN props \cup DOMAIN g.defaults /\ p[x] = props[x] /\ x \in DOMAIN p
  BY WithDefaultsIs
<1>2. q = [p EXCEPT ![x] = AllDefaults(e, p[x])] /\ p = [y \in DOMAIN p |-> p[y]]
  BY WithDefaultsIs DEF Refilled
<1> HIDE DEF p
<1>3. DOMAIN q = DOMAIN p /\ q = [y \in DOMAIN q |-> q[y]]
  BY <1>2
<1>4. q[x] = AllDefaults(e, props[x]) /\ \A y \in DOMAIN q : y # x => q[y] = p[y]
  BY <1>1, <1>2
<1>5. WithDefaults(g, q) = q
  <2>1. DOMAIN q \cup DOMAIN g.defaults = DOMAIN q
    BY <1>1, <1>3
  <2>2. WithDefaults(g, q) = [y \in DOMAIN q |-> q[y]]
    BY <2>1, WithDefaultsIs
  <2> QED
    BY <1>3, <2>2
<1>6. AllDefaults(e, q[x]) = q[x]
  BY <1>4, AllDefaultsTwice
<1>7. Refilled(e, q, x) = q
  BY <1>1, <1>3, <1>6 DEF Refilled
<1> QED
  BY <1>3, <1>4, <1>5, <1>7 DEF p

\* What has come through the grammar comes through it unchanged: the parse of the
\* composition finds what the parse of the runner has made.
LEMMA ParseTwice ==
    ASSUME NEW raw, ParseScene(raw).ok
    PROVE  /\ ParseScene(ParseScene(raw).scene) = ParseScene(raw)
           /\ ParseScene(raw).scene = [type |-> raw.type, props |-> Filled(raw)]
           /\ raw.type \in SceneTypes /\ ValidValues(raw.type, Filled(raw))
<1> DEFINE q == Filled(raw)
           g == Grammar[raw.type]
           scene == [type |-> raw.type, props |-> q]
           Linked(r) == r.type = "flow_diagram" => FlowEdgeIssues(r.props.nodes, Filled(r).edges) = {}
<1>1. WellFormed(raw) /\ Linked(raw)
  BY DEF ParseScene
<1>2. ParseScene(raw) = [ok |-> TRUE, scene |-> scene]
  BY <1>1 DEF ParseScene
<1>3. /\ raw.type \in SceneTypes /\ Strict(g, raw.props)
      /\ raw.type = "terminal_run" => AllStrict(LineGrammar, raw.props.lines)
      /\ raw.type = "flow_diagram" => AllStrict(NodeGrammar, raw.props.nodes)
      /\ ValidValues(raw.type, q)
  BY <1>1 DEF WellFormed, StrictElements
<1>4. Filled(scene) = q /\ Strict(g, q) /\ StrictElements(scene) /\ Linked(scene)
  <2>1. CASE raw.type = "terminal_run"
    <3>1. "lines" \in DOMAIN raw.props
      BY <1>3, <2>1 DEF Strict, Grammar
    <3>2. q = Refilled(LineGrammar, WithDefaults(g, raw.props), "lines")
      BY <2>1 DEF Filled, Refilled
    <3>3. Filled(scene) = Refilled(LineGrammar, WithDefaults(g, q), "lines")
      BY <2>1 DEF Filled, Refilled
    <3> HIDE DEF q, g
    <3>4. /\ Refilled(LineGrammar, WithDefaults(g, q), "lines") = q
          /\ q.lines = AllDefaults(LineGrammar, raw.props.lines)
          /\ DOMAIN q = DOMAIN WithDefaults(g, raw.props)
      BY <3>1, <3>2, RefilledTwice
    <3>5. Strict(g, WithDefaults(g, raw.props))
      BY <1>3, DefaultsStrict
    <3>6. Strict(g, q)
      BY <3>4, <3>5 DEF Strict
    <3>7. AllStrict(LineGrammar, q.lines)
      BY <1>3, <2>1, <3>4, AllDefaultsTwice
    <3> QED
      BY <2>1, <3>3, <3>4, <3>6, <3>7 DEF StrictElements
  <2>2. CASE raw.type = "flow_diagram"
    <3>1. "nodes" \in DOMAIN raw.props
      BY <1>3, <2>2 DEF Strict, Grammar
    <3>2. q = Refilled(NodeGrammar, WithDefaults(g, raw.props), "nodes")
      BY <2>2 DEF Filled, Refilled
    <3>3. Filled(scene) = Refilled(NodeGrammar, WithDefaults(g, q), "nodes")
      BY <2>2 DEF Filled, Refilled
    <3>4. Linked(raw) => FlowEdgeIssues(raw.props.nodes, q.edges) = {}
      BY <2>2
    <3> HIDE DEF q, g
    <3>5. /\ Refilled(NodeGrammar, WithDefaults(g, q), "nodes") = q
          /\ q.nodes = AllDefaults(NodeGrammar, raw.props.nodes)
          /\ DOMAIN q = DOMAIN WithDefaults(g, raw.props)
      BY <3>1, <3>2, RefilledTwice
    <3>6. Strict(g, WithDefaults(g, raw.props))
      BY <1>3, DefaultsStrict
    <3>7. Strict(g, q)
      BY <3>5, <3>6 DEF Strict
    <3>8. AllStrict(NodeGrammar, q.nodes)
      BY <1>3, <2>2, <3>5, AllDefaultsTwice
    <3>9. DOMAIN q.nodes = DOMAIN raw.props.nodes
          /\ \A i \in DOMAIN q.nodes : q.nodes[i].id = raw.props.nodes[i].id
      <4>1. \A i \in DOMAIN raw.props.nodes : "id" \in DOMAIN raw.props.nodes[i]
        BY <1>3, <2>2 DEF AllStrict, Strict, NodeGrammar
      <4> QED
        BY <3>5, <4>1, AllDefaultsTwice
    <3>10. FlowEdgeIssues(q.nodes, q.edges) = {}
      <4>1. {q.nodes[i].id : i \in DOMAIN q.nodes} = {raw.props.nodes[i].id : i \in DOMAIN raw.props.nodes}
        BY <3>9
      <4> QED
        BY <1>1, <3>4, <4>1 DEF FlowEdgeIssues
    <3>11. Linked(scene)
      BY <3>3, <3>5, <3>10
    <3> QED
      BY <2>2, <3>3, <3>5, <3>7, <3>8, <3>11 DEF StrictElements
  <2>3. CASE raw.type # "terminal_run" /\ raw.type # "flow_diagram"
    <3>1. q = WithDefaults(g, raw.props) /\ Filled(scene) = WithDefaults(g, q)
      BY <2>3 DEF Filled
    <3> HIDE DEF q, g
    <3> QED
      BY <1>3, <2>3, <3>1, DefaultsTwice, DefaultsStrict DEF StrictElements
  <2> QED
    BY <2>1, <2>2, <2>3
<1>5. scene.type = raw.type /\ scene.props = q /\ scene = [type |-> raw.type, props |-> q]
  OBVIOUS
<1> HIDE DEF q, scene
<1>6. WellFormed(scene)
  BY <1>3, <1>4, <1>5 DEF WellFormed
<1>7. ParseScene(scene) = [ok |-> TRUE, scene |-> [type |-> scene.type, props |-> Filled(scene)]]
  BY <1>4, <1>6 DEF ParseScene
<1>8. [type |-> scene.type, props |-> Filled(scene)] = scene
  BY <1>4, <1>5
<1>9. ParseScene(scene) = [ok |-> TRUE, scene |-> scene]
  BY <1>7, <1>8, Zenon
<1>10. ParseScene(scene) = ParseScene(raw)
  BY <1>2, <1>9, Zenon
<1>11. ParseScene(raw).scene = scene
  BY <1>2
<1> QED
  BY <1>3, <1>10, <1>11 DEF scene, q

-----------------------------------------------------------------------------
(* The cut and the previews *)

LEMMA NoSceneParsed == ParseScene(NoScene).scene = NoScene
BY DEF ParseScene, WellFormed, SceneTypes, Grammar, NoScene

\* A segment that can be drawn is drawn.
LEMMA Composed ==
    ASSUME NEW tl, NEW scene, NEW layout, NEW cues, NEW meta, NEW frame,
           scene # NoScene => ParseScene(scene).ok,
           ~Throws(ParseScene(scene).scene.type, layout, meta)
    PROVE  SegmentComposition(tl, scene, layout, cues, meta, frame) =
               [shows  |-> IF scene # NoScene THEN SelectLayout(ParseScene(scene).scene.type, layout)
                           ELSE "avatar",
                avatar |-> Cell(tl, meta, frame, FPS),
                visual |-> IF scene # NoScene THEN SceneVisual(ParseScene(scene).scene, frame, FPS)
                           ELSE NoScene,
                cue    |-> Subtitles(cues, frame)]
BY DEF SegmentComposition

\* The segment on screen is one of the script, at a frame of its own clock that it has.
LEMMA SeenIs ==
    ASSUME FInv, SeesOne
    PROVE  /\ Seen \in 1 .. Len(LocalScript.segments)
           /\ LocalFrame \in Nat /\ LocalFrame < SegFrames(LongProps, Seen)
           /\ SegFrames(LongProps, Seen) \in Nat
           /\ SegFrames(LongProps, Seen) = Larger(1, Round(SeenTimeline.dur * FPS, 1000))
           /\ SeenTimeline.dur \in Nat \ {0}
           /\ OffsetFrames(LongProps, Seen) \in Nat /\ Frame \in Nat
<1> DEFINE n == Len(LocalScript.segments)
<1>1. n \in Nat \ {0} /\ AllTimed(LongProps, n)
  BY LongPropsAre DEF SeesOne
<1>2. Frame \in Nat
  BY DEF FInv, TInv, TypeOK, RunOK, Frame
<1> HIDE DEF n
<1>3. OnScreen(LongProps, Frame) =
          {i \in 1 .. n : /\ OffsetFrames(LongProps, i) <= Frame
                          /\ Frame < OffsetFrames(LongProps, i + 1)}
  BY <1>1, <1>2, OnScreenIs
<1>4. Seen \in OnScreen(LongProps, Frame)
  BY DEF SeesOne, Seen
<1>5. Seen \in 1 .. n /\ OffsetFrames(LongProps, Seen) <= Frame
      /\ Frame < OffsetFrames(LongProps, Seen + 1)
  BY <1>3, <1>4
<1>6. PICK i \in 1 .. n : i = Seen
  BY <1>5
<1>7. OffsetFrames(LongProps, i + 1) = OffsetFrames(LongProps, i) + SegFrames(LongProps, i)
  BY <1>1, OffsetsAre
<1>8. OffsetFrames(LongProps, i) \in Nat
  <2>1. i \in 1 .. n + 1
    BY <1>1
  <2> QED
    BY <1>1, <2>1, OffsetsAre
<1>9. SegFrames(LongProps, i) \in Nat \ {0}
  BY <1>1, SegFramesAre
<1>10. SegFrames(LongProps, i) = Larger(1, Round(Ms(LongProps, i) * FPS, 1000))
  BY <1>1, SegFramesAre
<1>11. Ms(LongProps, i) = SeenTimeline.dur /\ Ms(LongProps, i) \in Nat \ {0}
  <2>1. /\ LongProps.segments[i].id = LocalScript.segments[i].id
        /\ LongProps.timelines[LocalScript.segments[i].id] = LocalTimeline(LocalScript.segments[i].id)
    BY LongPropsAre DEF SeesOne, n
  <2> QED
    BY <1>1, <1>6, <2>1 DEF AllTimed, Ms, SeenTimeline, SeenSegment
<1>12. LocalFrame = Frame - OffsetFrames(LongProps, i)
  BY <1>6 DEF LocalFrame
<1>13. LocalFrame \in Nat /\ LocalFrame < SegFrames(LongProps, i)
  BY <1>2, <1>5, <1>6, <1>7, <1>8, <1>9, <1>12
<1> QED
  BY <1>2, <1>5, <1>6, <1>8, <1>9, <1>10, <1>11, <1>13 DEF n

\* The scene of the segment on screen, before and after the runner's parse.
LEMMA SeenScene ==
    ASSUME FInv, SeesOne, NEW raw, raw = SeenSegment.scene,
           NEW scene, scene = LongProps.segments[Seen].scene
    PROVE  /\ raw = NoScene <=> scene = NoScene
           /\ raw # NoScene => /\ ParseScene(raw).ok /\ scene = ParseScene(raw).scene
                               /\ ParseScene(scene).ok /\ ParseScene(scene).scene = scene
                               /\ scene.type \in SceneTypes
                               /\ ValidValues(scene.type, scene.props)
<1>1. /\ scene = IF raw = NoScene THEN NoScene ELSE ParseScene(raw).scene
      /\ raw # NoScene => ParseScene(raw).ok
  <2>1. Accepted(SeenSegment) /\ LongProps.segments[Seen].scene =
                         IF LocalScript.segments[Seen].scene = NoScene THEN NoScene
                         ELSE ParseScene(LocalScript.segments[Seen].scene).scene
    BY SeenIs, LongPropsAre DEF SeesOne, SeenSegment
  <2> QED
    BY <2>1 DEF Accepted, SeenSegment
<1>2. CASE raw # NoScene
  <2>1. /\ ParseScene(ParseScene(raw).scene) = ParseScene(raw)
        /\ ParseScene(raw).scene = [type |-> raw.type, props |-> Filled(raw)]
        /\ raw.type \in SceneTypes /\ ValidValues(raw.type, Filled(raw))
    BY <1>1, <1>2, ParseTwice
  <2>2. scene = ParseScene(raw).scene /\ ParseScene(raw).ok
    BY <1>1, <1>2
  <2>3. scene.type = raw.type /\ scene.props = Filled(raw)
    BY <2>1, <2>2
  <2>4. "none" \notin SceneTypes
    BY DEF SceneTypes, Grammar
  <2>5. scene # NoScene
    BY <2>1, <2>3, <2>4 DEF NoScene
  <2>6. ParseScene(scene) = ParseScene(raw)
    BY <2>1, <2>2
  <2> QED
    BY <1>2, <2>1, <2>2, <2>3, <2>5, <2>6
<1> QED
  BY <1>1, <1>2

\* What the cut shows of the segment on screen, and what its previews have shown.
LEMMA CutIs ==
    ASSUME FInv
    PROVE  CutMatchesPreview
<1> SUFFICES ASSUME SeesOne
             PROVE  /\ Alike(Screen, SegmentPreview(SeenTimeline, SeenSegment.scene, LocalFrame))
                    /\ Screen.avatar = AvatarSegmentScene(SeenTimeline, LocalFrame)
                    /\ LocalFrame < SegmentPreviewFrames(SeenTimeline)
                    /\ LocalFrame < AvatarPreviewFrames(SeenTimeline)
  BY DEF CutMatchesPreview
<1>1. PICK raw, scene : raw = SeenSegment.scene /\ scene = LongProps.segments[Seen].scene
  OBVIOUS
<1>2. /\ raw = NoScene <=> scene = NoScene
      /\ raw # NoScene => /\ ParseScene(raw).ok /\ scene = ParseScene(raw).scene
                          /\ ParseScene(scene).ok /\ ParseScene(scene).scene = scene
                          /\ scene.type \in SceneTypes
  BY <1>1, SeenScene
<1>3. ParseScene(raw).scene = scene /\ ParseScene(scene).scene = scene
  BY <1>2, NoSceneParsed
<1>4. scene.type = "none" \/ scene.type \in Registry
  <2>1. SceneTypes = Registry
    BY DEF SceneTypes, Grammar, Registry
  <2> QED
    BY <1>2, <2>1 DEF NoScene
<1>5. /\ SelectLayout(scene.type, "split") = SelectLayout(scene.type, "")
      /\ ~Throws(scene.type, "split", SpriteSheet) /\ ~Throws(scene.type, "", SpriteSheet)
  BY <1>4 DEF Throws, SelectLayout, Drawable, SpriteSheet
<1>6. /\ LongProps.meta = SpriteSheet
      /\ LongProps.timelines[LongProps.segments[Seen].id] = SeenTimeline
  BY SeenIs, LongPropsAre DEF SeesOne, SeenTimeline, SeenSegment
<1> DEFINE cues == IF LongProps.subtitles THEN LongProps.cues[LongProps.segments[Seen].id] ELSE <<>>
           shown(c, layout) ==
               [shows  |-> IF scene # NoScene THEN SelectLayout(scene.type, layout) ELSE "avatar",
                avatar |-> Cell(SeenTimeline, SpriteSheet, LocalFrame, FPS),
                visual |-> IF scene # NoScene THEN SceneVisual(scene, LocalFrame, FPS) ELSE NoScene,
                cue    |-> Subtitles(c, LocalFrame)]
<1>7. Screen = SegmentComposition(SeenTimeline, scene, "split", cues, SpriteSheet, LocalFrame)
  BY <1>1, <1>6 DEF Screen, SegmentAt, LocalFrame
<1> HIDE DEF cues
<1>8. SegmentComposition(SeenTimeline, scene, "split", cues, SpriteSheet, LocalFrame)
          = shown(cues, "split")
  <2>1. scene # NoScene => ParseScene(scene).ok
    BY <1>2
  <2>2. ~Throws(ParseScene(scene).scene.type, "split", SpriteSheet)
    BY <1>3, <1>5
  <2> QED
    BY <1>3, <2>1, <2>2, Composed
<1>9. SegmentPreview(SeenTimeline, raw, LocalFrame) = shown(<<>>, "")
  <2>1. raw # NoScene => ParseScene(raw).ok
    BY <1>2
  <2>2. ~Throws(ParseScene(raw).scene.type, "", SpriteSheet)
    BY <1>3, <1>5
  <2> DEFINE made(b) ==
                 [shows  |-> IF b # NoScene THEN SelectLayout(scene.type, "") ELSE "avatar",
                  avatar |-> Cell(SeenTimeline, SpriteSheet, LocalFrame, FPS),
                  visual |-> IF b # NoScene THEN SceneVisual(scene, LocalFrame, FPS) ELSE NoScene,
                  cue    |-> Subtitles(<<>>, LocalFrame)]
  <2>3. PICK layout, none : layout = "" /\ none = <<>>
    OBVIOUS
  <2>4. ~Throws(ParseScene(raw).scene.type, layout, SpriteSheet)
    BY <2>2, <2>3
  <2>5. SegmentComposition(SeenTimeline, raw, layout, none, SpriteSheet, LocalFrame) =
            [shows  |-> IF raw # NoScene THEN SelectLayout(ParseScene(raw).scene.type, layout)
                        ELSE "avatar",
             avatar |-> Cell(SeenTimeline, SpriteSheet, LocalFrame, FPS),
             visual |-> IF raw # NoScene THEN SceneVisual(ParseScene(raw).scene, LocalFrame, FPS)
                        ELSE NoScene,
             cue    |-> Subtitles(none, LocalFrame)]
    BY <2>1, <2>4, Composed
  <2>6. SegmentPreview(SeenTimeline, raw, LocalFrame) = made(raw)
    BY <1>3, <2>3, <2>5 DEF SegmentPreview
  <2>7. CASE raw = NoScene
    <3>1. scene = raw
      BY <1>2, <2>7
    <3> QED
      BY <2>6, <3>1
  <2>8. CASE raw # NoScene
    <3>1. scene # NoScene
      BY <1>2, <2>8
    <3>2. made(raw) = made(scene)
      BY <2>8, <3>1
    <3> QED
      BY <2>6, <3>2
  <2> QED
    BY <2>7, <2>8
<1>10. /\ Screen.shows = shown(<<>>, "").shows /\ Screen.avatar = shown(<<>>, "").avatar
       /\ Screen.visual = shown(<<>>, "").visual
  <2> DEFINE visual == IF scene # NoScene THEN SceneVisual(scene, LocalFrame, FPS) ELSE NoScene
  <2>1. Screen = shown(cues, "split")
    BY <1>7, <1>8
  <2>2. Screen.shows = (IF scene # NoScene THEN SelectLayout(scene.type, "split") ELSE "avatar")
    BY <2>1
  <2>3. shown(<<>>, "").shows = (IF scene # NoScene THEN SelectLayout(scene.type, "") ELSE "avatar")
    OBVIOUS
  <2>4. Screen.avatar = Cell(SeenTimeline, SpriteSheet, LocalFrame, FPS)
        /\ shown(<<>>, "").avatar = Cell(SeenTimeline, SpriteSheet, LocalFrame, FPS)
    BY <2>1
  <2>5. Screen.visual = visual
    BY <2>1
  <2>6. shown(<<>>, "").visual = visual
    OBVIOUS
  <2> HIDE DEF visual, shown
  <2> QED
    BY <1>5, <2>2, <2>3, <2>4, <2>5, <2>6
<1>11. Alike(Screen, SegmentPreview(SeenTimeline, raw, LocalFrame))
  BY <1>9, <1>10 DEF Alike
<1>12. Screen.avatar = AvatarSegmentScene(SeenTimeline, LocalFrame)
  BY <1>7, <1>8 DEF AvatarSegmentScene
<1>13. LocalFrame < SegmentPreviewFrames(SeenTimeline) /\ LocalFrame < AvatarPreviewFrames(SeenTimeline)
  <2>1. PICK r \in Nat : r = Round(SeenTimeline.dur * FPS, 1000)
    BY SeenIs DEF Round, FPS
  <2>2. LocalFrame \in Nat /\ LocalFrame < Larger(1, r)
    BY <2>1, SeenIs
  <2>3. Lasts(SeenTimeline) = SeenTimeline.dur
    BY SeenIs DEF Lasts
  <2> QED
    BY <2>1, <2>2, <2>3 DEF SegmentPreviewFrames, AvatarPreviewFrames, Larger
<1> QED
  BY <1>1, <1>11, <1>12, <1>13

\* What was approved is what is published: frame by frame the cut shows the avatar and
\* the visual of the preview, and none that the preview is too short to show.
THEOREM CutIsAsApproved == Spec => []CutMatchesPreview
<1>1. FInv => CutMatchesPreview
  BY CutIs
<1> QED
  BY <1>1, FramesInv, PTL

-----------------------------------------------------------------------------
(* Scenes unfold *)

\* The clocks of the scenes never go back.
LEMMA ProgressGrows ==
    ASSUME NEW f \in Nat, NEW at \in Int, NEW span \in Nat
    PROVE  /\ Progress(f, at, span) \in 0 .. span
           /\ Progress(f, at, span) <= Progress(f + 1, at, span)
BY DEF Progress, AtMost

\* The typed prefix of the code gets longer, and its characters stay.
LEMMA CodeUnfolds ==
    ASSUME NEW p, ValidValues("code_typing", p), NEW f \in Nat,
           NEW now, now = CodeTyping(p, f, FPS), NEW next, next = CodeTyping(p, f + 1, FPS)
    PROVE  /\ Len(now.typed) <= Len(next.typed)
           /\ \A i \in DOMAIN now.typed : now.typed[i][1] = next.typed[i][1]
<1>1. p.code \in Seq(Character) /\ p.charsPerSecond \in Nat
  BY DEF ValidValues, Positive
<1>2. PICK n \in Nat, c \in Nat : n = Len(p.code) /\ c = p.charsPerSecond
  BY <1>1
<1> DEFINE shown(k) == AtMost(n, (k * c) \div FPS)
<1>3. shown(f) \in 0 .. n /\ shown(f + 1) \in 0 .. n /\ shown(f) <= shown(f + 1)
  <2>1. PICK x \in Nat : x = f * c
    OBVIOUS
  <2>2. (f + 1) * c = x + c
    BY <2>1
  <2>3. x \div 30 \in Nat /\ (x + c) \div 30 \in Nat /\ x \div 30 <= (x + c) \div 30
    OBVIOUS
  <2> QED
    BY <2>1, <2>2, <2>3 DEF AtMost, FPS
<1>4. now.typed = Tokenize(SubSeq(p.code, 1, shown(f)))
      /\ next.typed = Tokenize(SubSeq(p.code, 1, shown(f + 1)))
  BY <1>2 DEF CodeTyping, CharsVisible
<1> HIDE DEF shown
<1>5. ASSUME NEW m \in 0 .. n, NEW typed, typed = Tokenize(SubSeq(p.code, 1, m))
      PROVE  /\ DOMAIN typed = 1 .. m /\ Len(typed) = m
             /\ \A i \in 1 .. m : typed[i][1] = p.code[i]
  <2> DEFINE code == SubSeq(p.code, 1, m)
  <2>1. DOMAIN code = 1 .. m /\ \A i \in 1 .. m : code[i] = p.code[i]
    BY <1>1, <1>2
  <2> HIDE DEF code
  <2> DEFINE start[q \in DOMAIN code] ==
                 IF q = 1 THEN 1
                 ELSE IF TokenEnd(code, start[q - 1]) < q THEN q ELSE start[q - 1]
  <2>2. Tokenize(code) = [q \in DOMAIN code |-> <<code[q], TokenKind(code, start[q])>>]
    BY DEF Tokenize
  <2>3. typed = Tokenize(code)
    BY <1>5 DEF code
  <2> HIDE DEF start
  <2>4. typed = [q \in 1 .. m |-> <<code[q], TokenKind(code, start[q])>>]
    BY <2>1, <2>2, <2>3
  <2> QED
    BY <1>2, <2>1, <2>4
<1>6. /\ DOMAIN now.typed = 1 .. shown(f) /\ Len(now.typed) = shown(f)
      /\ \A i \in 1 .. shown(f) : now.typed[i][1] = p.code[i]
  BY <1>3, <1>4, <1>5
<1>7. /\ Len(next.typed) = shown(f + 1)
      /\ \A i \in 1 .. shown(f + 1) : next.typed[i][1] = p.code[i]
  BY <1>3, <1>4, <1>5
<1>8. \A i \in 1 .. shown(f) : i \in 1 .. shown(f + 1)
  BY <1>3
<1> QED
  BY <1>3, <1>6, <1>7, <1>8

\* The number counts up, and the rest of the value stays.
LEMMA NumberUnfolds ==
    ASSUME NEW p, ValidValues("big_number", p), NEW f \in Nat,
           NEW now, now = BigNumber(p, f), NEW next, next = BigNumber(p, f + 1)
    PROVE  now.number <= next.number /\ (now.suffix => next.suffix)
<1>1. p.value.numeric \in Nat \cup {-1}
  BY DEF ValidValues
<1>2. CASE p.value.numeric = -1
  BY <1>2 DEF BigNumber
<1>3. CASE p.value.numeric # -1
  <2>1. PICK v \in Nat : v = p.value.numeric
    BY <1>1, <1>3
  <2>2. PICK k \in 0 .. 30, l \in 0 .. 30 :
            k = Progress(f, 0, 30) /\ l = Progress(f + 1, 0, 30) /\ k <= l
    <3>1. Progress(f, 0, 30) \in 0 .. 30 /\ Progress(f, 0, 30) <= Progress(f + 1, 0, 30)
      BY ProgressGrows
    <3>2. Progress(f + 1, 0, 30) \in 0 .. 30
      BY DEF Progress, AtMost
    <3> QED
      BY <3>1, <3>2
  <2>3. /\ now = [number |-> (2 * v * k + 30) \div 60, suffix |-> k = 30]
        /\ next = [number |-> (2 * v * l + 30) \div 60, suffix |-> l = 30]
    BY <1>3, <2>1, <2>2 DEF BigNumber, CountFrames
  <2>4. now.number = (2 * v * k + 30) \div 60 /\ next.number = (2 * v * l + 30) \div 60
    BY <2>3
  <2>5. now.suffix = (k = 30) /\ next.suffix = (l = 30)
    BY <2>3
  <2>6. PICK d \in Nat : l = k + d
    <3>1. l - k \in Nat /\ l = k + (l - k)
      BY <2>2
    <3> QED
      BY <3>1
  <2>7. PICK x, y \in Nat : x = 2 * v * k /\ y = 2 * v * d
    OBVIOUS
  <2>8. 2 * v * l = x + y
    BY <2>6, <2>7
  <2>9. (x + 30) \div 60 <= (x + y + 30) \div 60
    OBVIOUS
  <2>10. now.number <= next.number
    BY <2>4, <2>7, <2>8, <2>9
  <2>11. k = 30 => l = 30
    BY <2>2
  <2> QED
    BY <2>5, <2>10, <2>11
<1> QED
  BY <1>2, <1>3

LEMMA MilestonesUnfold ==
    ASSUME NEW p, ValidValues("timeline", p), NEW f \in Nat
    PROVE  Timeline(p, f) \subseteq Timeline(p, f + 1)
<1>1. IsSequence(p.milestones)
  BY DEF ValidValues, IsFilled
<1>2. Len(p.milestones) \in Nat /\ DOMAIN p.milestones = 1 .. Len(p.milestones)
  BY <1>1, SequenceFinite
<1> QED
  BY <1>2 DEF Timeline, StaggerFrames, PerItem, Base

LEMMA CalloutUnfolds ==
    ASSUME NEW p, NEW f \in Nat
    PROVE  Callout(p, f).shown <= Callout(p, f + 1).shown
BY ProgressGrows DEF Callout

\* The last of the nodes with an id.
LEMMA ByIdIs ==
    ASSUME NEW nodes, IsSequence(nodes), NEW i \in DOMAIN nodes
    PROVE  ById(nodes, nodes[i].id) \in DOMAIN nodes
<1> DEFINE same == {k \in DOMAIN nodes : nodes[k].id = nodes[i].id}
<1>1. Len(nodes) \in Nat /\ DOMAIN nodes = 1 .. Len(nodes)
  BY SequenceFinite
<1>2. PICK k \in same : \A j \in same : j <= k
  <2>1. same \subseteq 1 .. Len(nodes) /\ i \in same
    BY <1>1
  <2> HIDE DEF same
  <2> QED
    BY <1>1, <2>1, GreatestElement
<1>3. \A j \in k + 1 .. Len(nodes) : nodes[j].id # nodes[i].id
  BY <1>1, <1>2
<1> QED
  BY <1>2, <1>3 DEF ById

\* Nodes and edges come and fade in, each from a frame of its own.
LEMMA FlowUnfolds ==
    ASSUME NEW p, ValidValues("flow_diagram", p), NEW f \in Nat,
           NEW now, now = FlowDiagram(p, f), NEW next, next = FlowDiagram(p, f + 1)
    PROVE  /\ \A a \in now.edges : \E b \in next.edges : a[1] = b[1] /\ a[2] <= b[2]
           /\ \A a \in now.nodes : \E b \in next.nodes : a[1] = b[1] /\ a[2] <= b[2]
<1> DEFINE nodes == p.nodes
           ids == {nodes[i].id : i \in DOMAIN nodes}
           at(i) == NodeAppears(ById(nodes, nodes[i].id))
           due(k) == EdgeAppears(nodes, p.edges[k])
           joined(k) == {p.edges[k].from, p.edges[k].to} \subseteq ids
<1>1. IsSequence(nodes) /\ Len(nodes) \in Nat /\ DOMAIN nodes = 1 .. Len(nodes)
  <2>1. IsSequence(nodes)
    BY DEF ValidValues, IsFilled
  <2> QED
    BY <2>1, SequenceFinite
<1>2. \A i \in DOMAIN nodes : at(i) \in Int
  <2>1. \A i \in DOMAIN nodes : ById(nodes, nodes[i].id) \in DOMAIN nodes
    BY <1>1, ByIdIs
  <2> QED
    BY <1>1, <2>1 DEF NodeAppears
<1>3. \A k \in DOMAIN p.edges : joined(k) => due(k) \in Int
  <2>1. \A k \in DOMAIN p.edges : joined(k) => \E i \in DOMAIN nodes : p.edges[k].from = nodes[i].id
    OBVIOUS
  <2> QED
    BY <1>2, <2>1 DEF EdgeAppears
<1>4. /\ now.nodes = {<<LayoutColumns(nodes)[i], Progress(f, at(i), 8)>> : i \in DOMAIN nodes}
      /\ next.nodes = {<<LayoutColumns(nodes)[i], Progress(f + 1, at(i), 8)>> : i \in DOMAIN nodes}
      /\ now.edges = {<<k, Progress(f, due(k), 10)>> :
                         k \in {e \in DOMAIN p.edges : joined(e) /\ due(e) <= f}}
      /\ next.edges = {<<k, Progress(f + 1, due(k), 10)>> :
                         k \in {e \in DOMAIN p.edges : joined(e) /\ due(e) <= f + 1}}
  BY DEF FlowDiagram
<1> HIDE DEF nodes, at, due, joined
<1>5. ASSUME NEW a \in now.nodes PROVE \E b \in next.nodes : a[1] = b[1] /\ a[2] <= b[2]
  <2>1. PICK i \in DOMAIN nodes : a = <<LayoutColumns(nodes)[i], Progress(f, at(i), 8)>>
    BY <1>4
  <2>2. PICK b : b = <<LayoutColumns(nodes)[i], Progress(f + 1, at(i), 8)>>
    OBVIOUS
  <2>3. Progress(f, at(i), 8) <= Progress(f + 1, at(i), 8)
    BY <1>2, ProgressGrows
  <2> QED
    BY <1>4, <2>1, <2>2, <2>3
<1>6. ASSUME NEW a \in now.edges PROVE \E b \in next.edges : a[1] = b[1] /\ a[2] <= b[2]
  <2>1. PICK k \in DOMAIN p.edges : joined(k) /\ due(k) <= f /\ a = <<k, Progress(f, due(k), 10)>>
    BY <1>4
  <2>2. PICK b : b = <<k, Progress(f + 1, due(k), 10)>>
    OBVIOUS
  <2>3. due(k) \in Int /\ due(k) <= f + 1
    BY <1>3, <2>1
  <2>4. Progress(f, due(k), 10) <= Progress(f + 1, due(k), 10)
    BY <2>3, ProgressGrows
  <2>5. b \in next.edges
    BY <1>4, <2>1, <2>2, <2>3
  <2> QED
    BY <2>1, <2>2, <2>4, <2>5
<1> QED
  BY <1>5, <1>6

\* A set of places that has, with a place, those before it is an interval.
LEMMA FirstOnes ==
    ASSUME NEW n \in Nat, NEW S, S \subseteq 1 .. n, \A i \in S : 1 .. i \subseteq S
    PROVE  Cardinality(S) \in 0 .. n /\ S = 1 .. Cardinality(S)
<1>1. CASE S = {}
  BY <1>1, FS_EmptySet
<1>2. CASE S # {}
  <2>1. PICK c \in S : \A i \in S : i <= c
    BY <1>2, GreatestElement
  <2>2. c \in 1 .. n /\ S = 1 .. c
    <3>1. c \in 1 .. n /\ 1 .. c \subseteq S
      OBVIOUS
    <3>2. \A i \in S : i \in 1 .. c
      BY <2>1, <3>1
    <3> QED
      BY <3>1, <3>2
  <2>3. Cardinality(1 .. c) = c
    BY <2>2, IntervalSize
  <2> QED
    BY <2>2, <2>3
<1> QED
  BY <1>1, <1>2

\* Lines come one after the other, and only the last may be half typed.
LEMMA TerminalUnfolds ==
    ASSUME NEW p, ValidValues("terminal_run", p), NEW f \in Nat, NEW e \in Nat, e = f + 1,
           NEW now, now = TerminalRun(p, f, FPS), NEW next, next = TerminalRun(p, e, FPS)
    PROVE  /\ Len(now.lines) <= Len(next.lines)
           /\ \A i \in DOMAIN now.lines :
                  /\ now.lines[i].text <= next.lines[i].text
                  /\ i < Len(now.lines) => now.lines[i].text = p.lines[i].text
<1> DEFINE lines == p.lines
           n == Len(lines)
           delays == [k \in 1 .. n |-> lines[k].delayFrames]
           start(i) == LineStart(lines, i)
           typing(i, g) == StillTyping(lines, i, g, FPS)
           reached(g) == {i \in DOMAIN lines : Reached(lines, i, g, FPS)}
           count(g) == Cardinality(reached(g))
           chars(i, g) == ((g - start(i)) * TypeCharsPerSecond) \div FPS
           text(i, g) == IF typing(i, g) THEN AtMost(lines[i].text, chars(i, g)) ELSE lines[i].text
<1>1. n \in Nat /\ DOMAIN lines = 1 .. n
      /\ \A i \in 1 .. n : lines[i].text \in Nat /\ lines[i].delayFrames \in Nat
  <2>1. IsSequence(lines)
        /\ \A i \in DOMAIN lines : lines[i].text \in Nat /\ lines[i].delayFrames \in Nat
    BY DEF ValidValues, IsFilled, Positive
  <2> QED
    BY <2>1, SequenceFinite
<1>2. \A i \in 1 .. n : start(i) \in Nat /\ \A j \in 1 .. i : start(j) <= start(i)
  <2>1. delays \in [1 .. n -> Nat]
    BY <1>1
  <2>2. \A i \in 1 .. n : start(i) = Sums(delays)[i]
    BY DEF LineStart
  <2> HIDE DEF delays
  <2>3. \A i \in 0 .. n : Sums(delays)[i] \in Nat
    BY <1>1, <2>1, SumsNat
  <2>4. \A j, i \in 0 .. n : j <= i => Sums(delays)[j] <= Sums(delays)[i]
    BY <1>1, <2>1, SumsGrow
  <2>5. \A i \in 1 .. n : i \in 0 .. n /\ \A j \in 1 .. i : j \in 0 .. n /\ j <= i /\ j \in 1 .. n
    BY <1>1
  <2> HIDE DEF start
  <2> QED
    BY <2>2, <2>3, <2>4, <2>5
\* A line that is typed out stays so.
<1>3. ASSUME NEW i \in 1 .. n, start(i) <= f, ~typing(i, f) PROVE ~typing(i, e)
  <2> DEFINE long == CommandFrames(lines[i].text, FPS)
  <2>1. long \in Int
    <3>1. PICK c \in Nat : c = lines[i].text
      BY <1>1
    <3> QED
      BY <3>1 DEF CommandFrames, FPS, TypeCharsPerSecond
  <2>2. start(i) \in Nat
    BY <1>2
  <2>3. \A g : typing(i, g) <=> lines[i].kind = "command" /\ start(i) <= g /\ g - start(i) < long
    BY DEF StillTyping
  <2> HIDE DEF long, start, typing
  <2> QED
    BY <1>3, <2>1, <2>2, <2>3
<1>4. \A g, i : i \in reached(g) <=> i \in 1 .. n /\ start(i) <= g /\ \A j \in 1 .. i - 1 : ~typing(j, g)
  BY <1>1 DEF Reached
<1>5. /\ now.lines = [i \in 1 .. count(f) |->
                         [kind |-> lines[i].kind, prompt |-> lines[i].kind = "command",
                          text |-> text(i, f)]]
      /\ next.lines = [i \in 1 .. count(e) |->
                          [kind |-> lines[i].kind, prompt |-> lines[i].kind = "command",
                           text |-> text(i, e)]]
  BY DEF TerminalRun, VisibleTerminalLines
<1> HIDE DEF lines, n, delays, start, typing, reached
<1>6. ASSUME NEW g \in Nat PROVE count(g) \in 0 .. n /\ reached(g) = 1 .. count(g)
  <2>1. reached(g) \subseteq 1 .. n
    BY <1>4
  <2>2. ASSUME NEW i \in reached(g), NEW k \in 1 .. i PROVE k \in reached(g)
    <3>1. i \in 1 .. n /\ start(i) <= g /\ \A j \in 1 .. i - 1 : ~typing(j, g)
      BY <1>4, <2>2
    <3>2. k \in 1 .. n /\ \A j \in 1 .. k - 1 : j \in 1 .. i - 1
      BY <1>1, <3>1
    <3>3. start(k) \in Nat /\ start(i) \in Nat /\ start(k) <= start(i)
      BY <1>2, <3>1, <3>2
    <3>4. start(k) <= g
      BY <3>1, <3>3
    <3> QED
      BY <1>4, <3>1, <3>2, <3>4
  <2> QED
    BY <1>1, <2>1, <2>2, FirstOnes
<1>7. reached(f) \subseteq reached(e)
  <2> SUFFICES ASSUME NEW i \in reached(f) PROVE i \in reached(e)
    OBVIOUS
  <2>1. i \in 1 .. n /\ start(i) <= f /\ \A j \in 1 .. i - 1 : ~typing(j, f)
    BY <1>4
  <2>2. start(i) \in Nat
    BY <1>2, <2>1
  <2>3. ASSUME NEW j \in 1 .. i - 1 PROVE ~typing(j, e)
    <3>1. j \in 1 .. n /\ j \in 1 .. i
      BY <1>1, <2>1
    <3>2. start(j) \in Nat /\ start(j) <= start(i)
      BY <1>2, <2>1, <3>1
    <3>3. start(j) <= f
      BY <2>1, <2>2, <3>2
    <3> QED
      BY <1>3, <2>1, <3>1, <3>3
  <2>4. start(i) <= e
    BY <2>1, <2>2
  <2> QED
    BY <1>4, <2>1, <2>3, <2>4
<1>8. PICK c \in 0 .. n, d \in 0 .. n : /\ c = count(f) /\ reached(f) = 1 .. c
                                      /\ d = count(e) /\ reached(e) = 1 .. d
  BY <1>6
<1>9. c <= d
  <2>1. c \in Nat /\ d \in Nat
    BY <1>1
  <2>2. 1 .. c \subseteq 1 .. d
    BY <1>7, <1>8
  <2>3. c \in Nat /\ d \in Nat /\ 1 .. c \subseteq 1 .. d
    BY <2>1, <2>2
  <2>4. c > d => c \in 1 .. c /\ c \notin 1 .. d
    BY <2>3
  <2> QED
    BY <2>3, <2>4
<1>10. /\ DOMAIN now.lines = 1 .. c /\ Len(now.lines) = c /\ Len(next.lines) = d
       /\ \A i \in 1 .. c : now.lines[i].text = text(i, f)
       /\ \A i \in 1 .. d : next.lines[i].text = text(i, e)
  <2> HIDE DEF count, text
  <2> QED
    BY <1>1, <1>5, <1>8
<1>11. ASSUME NEW i \in 1 .. c
       PROVE  /\ text(i, f) <= text(i, e)
              /\ i < c => text(i, f) = lines[i].text
  <2>1. i \in 1 .. n /\ start(i) <= f /\ start(i) \in Nat
    BY <1>2, <1>4, <1>8
  <2>2. PICK t \in Nat, x \in Nat : t = lines[i].text /\ x = f - start(i)
    <3>1. f - start(i) \in Nat
      BY <2>1
    <3> QED
      BY <1>1, <2>1, <3>1
  <2>3. chars(i, f) = (x * 24) \div 30 /\ chars(i, e) = (x * 24 + 24) \div 30
    <3>1. e - start(i) = x + 1
      BY <2>1, <2>2
    <3>2. (x + 1) * 24 = x * 24 + 24
      OBVIOUS
    <3>3. \A g : chars(i, g) = ((g - start(i)) * 24) \div 30
      BY DEF TypeCharsPerSecond, FPS
    <3> HIDE DEF chars
    <3>4. chars(i, f) = ((f - start(i)) * 24) \div 30
      BY <3>3
    <3>5. chars(i, e) = ((e - start(i)) * 24) \div 30
      BY <3>3
    <3>6. chars(i, e) = ((x + 1) * 24) \div 30
      BY <3>1, <3>5
    <3> QED
      BY <2>2, <3>2, <3>4, <3>6
  <2> HIDE DEF chars
  <2>4. chars(i, f) \in Nat /\ chars(i, e) \in Nat /\ chars(i, f) <= chars(i, e)
    BY <2>3
  <2>5. text(i, f) <= text(i, e)
    <3>1. CASE ~typing(i, f)
      <4>1. ~typing(i, e)
        BY <1>3, <2>1, <3>1
      <4> QED
        BY <2>2, <3>1, <4>1
    <3>2. CASE typing(i, f)
      BY <2>2, <2>4, <3>2 DEF AtMost
    <3> QED
      BY <3>1, <3>2
  <2>6. ASSUME i < c PROVE text(i, f) = lines[i].text
    <3>1. i + 1 \in 1 .. c /\ i \in 1 .. (i + 1) - 1
      BY <1>1, <2>6
    <3>2. i + 1 \in reached(f)
      BY <1>8, <3>1
    <3>3. ~typing(i, f)
      BY <1>4, <3>1, <3>2
    <3> QED
      BY <3>3
  <2> QED
    BY <2>5, <2>6
<1> HIDE DEF count, text
<1>12. \A i \in 1 .. c : i \in 1 .. d
  BY <1>9
<1> QED
  BY <1>9, <1>10, <1>11, <1>12 DEF lines

\* Remotion draws the frames of a cut in any order, and still no scene takes back what
\* it has shown: each is a function of its frame that grows from one to the next.
THEOREM ScenesOnlyGrow == Spec => []SceneUnfolds
<1>1. ASSUME FInv PROVE SceneUnfolds
  <2> SUFFICES ASSUME SeesOne, SeenSegment.scene # NoScene
               PROVE  Unfolds(LongProps.segments[Seen].scene, Screen.visual,
                              SegmentAt(LongProps, Seen, Frame + 1).visual)
    BY DEF SceneUnfolds
  <2>1. PICK scene : scene = LongProps.segments[Seen].scene
    OBVIOUS
  <2>2. /\ scene # NoScene /\ ParseScene(scene).ok /\ ParseScene(scene).scene = scene
        /\ scene.type \in SceneTypes /\ ValidValues(scene.type, scene.props)
    BY <1>1, <2>1, SeenScene
  <2>3. ~Throws(scene.type, "split", SpriteSheet)
    <3>1. SceneTypes = Registry
      BY DEF SceneTypes, Grammar, Registry
    <3> QED
      BY <2>2, <3>1 DEF Throws, SelectLayout, Drawable, SpriteSheet
  <2>4. LongProps.meta = SpriteSheet
    BY <1>1, SeenIs, LongPropsAre DEF SeesOne
  <2>5. ASSUME NEW at
        PROVE  SegmentAt(LongProps, Seen, at).visual
                   = SceneVisual(scene, at - OffsetFrames(LongProps, Seen), FPS)
    <3> DEFINE tl == LongProps.timelines[LongProps.segments[Seen].id]
               cues == IF LongProps.subtitles THEN LongProps.cues[LongProps.segments[Seen].id]
                       ELSE <<>>
               frame == at - OffsetFrames(LongProps, Seen)
    <3>1. SegmentAt(LongProps, Seen, at)
              = SegmentComposition(tl, scene, "split", cues, SpriteSheet, frame)
      BY <2>1, <2>4 DEF SegmentAt
    <3> HIDE DEF tl, cues, frame
    <3>2. SegmentComposition(tl, scene, "split", cues, SpriteSheet, frame).visual
              = SceneVisual(scene, frame, FPS)
      BY <2>2, <2>3, Composed
    <3> QED
      BY <3>1, <3>2 DEF frame
  <2>6. PICK f \in Nat : /\ f = Frame - OffsetFrames(LongProps, Seen)
                         /\ f + 1 = Frame + 1 - OffsetFrames(LongProps, Seen)
    <3>1. LocalFrame \in Nat /\ Frame \in Nat /\ OffsetFrames(LongProps, Seen) \in Nat
      BY <1>1, SeenIs
    <3> QED
      BY <3>1 DEF LocalFrame
  <2>7. PICK now, next : now = SceneVisual(scene, f, FPS) /\ next = SceneVisual(scene, f + 1, FPS)
    OBVIOUS
  <2>8. Screen.visual = now /\ SegmentAt(LongProps, Seen, Frame + 1).visual = next
    <3>1. SegmentAt(LongProps, Seen, Frame).visual = SceneVisual(scene, f, FPS)
      BY <2>5, <2>6
    <3>2. SegmentAt(LongProps, Seen, Frame + 1).visual = SceneVisual(scene, f + 1, FPS)
      <4>1. PICK at : at = Frame + 1
        OBVIOUS
      <4>2. PICK frame : frame = at - OffsetFrames(LongProps, Seen)
        OBVIOUS
      <4>3. SegmentAt(LongProps, Seen, at).visual = SceneVisual(scene, frame, FPS)
        BY <2>5, <4>2
      <4>4. Frame \in Nat /\ OffsetFrames(LongProps, Seen) \in Nat
        BY <1>1, SeenIs
      <4>5. frame = f + 1
        BY <2>6, <4>1, <4>2, <4>4
      <4> QED
        BY <4>1, <4>3, <4>5
    <3> QED
      BY <2>7, <3>1, <3>2 DEF Screen
  <2>9. PICK p : p = scene.props
    OBVIOUS
  <2>10. Unfolds(scene, now, next)
    <3>1. CASE scene.type = "code_typing"
      <4>1. now = CodeTyping(p, f, FPS) /\ next = CodeTyping(p, f + 1, FPS)
        BY <2>7, <2>9, <3>1 DEF SceneVisual
      <4>2. ValidValues("code_typing", p)
        BY <2>2, <2>9, <3>1
      <4> QED
        BY <3>1, <4>1, <4>2, CodeUnfolds DEF Unfolds
    <3>2. CASE scene.type = "terminal_run"
      <4>1. PICK e \in Nat : e = f + 1
        OBVIOUS
      <4>2. now = TerminalRun(p, f, FPS) /\ next = TerminalRun(p, e, FPS)
        BY <2>7, <2>9, <3>2, <4>1 DEF SceneVisual
      <4>3. ValidValues("terminal_run", p)
        BY <2>2, <2>9, <3>2
      <4> QED
        BY <2>9, <3>2, <4>1, <4>3, <4>2, TerminalUnfolds DEF Unfolds
    <3>3. CASE scene.type = "flow_diagram"
      <4>1. now = FlowDiagram(p, f) /\ next = FlowDiagram(p, f + 1)
        BY <2>7, <2>9, <3>3 DEF SceneVisual
      <4>2. ValidValues("flow_diagram", p)
        BY <2>2, <2>9, <3>3
      <4> QED
        BY <3>3, <4>1, <4>2, FlowUnfolds DEF Unfolds
    <3>4. CASE scene.type = "big_number"
      <4>1. now = BigNumber(p, f) /\ next = BigNumber(p, f + 1)
        BY <2>7, <2>9, <3>4 DEF SceneVisual
      <4>2. ValidValues("big_number", p)
        BY <2>2, <2>9, <3>4
      <4> QED
        BY <3>4, <4>1, <4>2, NumberUnfolds DEF Unfolds
    <3>5. CASE scene.type = "timeline"
      <4>1. now = Timeline(p, f) /\ next = Timeline(p, f + 1)
        BY <2>7, <2>9, <3>5 DEF SceneVisual
      <4>2. ValidValues("timeline", p)
        BY <2>2, <2>9, <3>5
      <4> QED
        BY <3>5, <4>1, <4>2, MilestonesUnfold DEF Unfolds
    <3>6. CASE scene.type = "callout"
      <4>1. now = Callout(p, f) /\ next = Callout(p, f + 1)
        BY <2>7, <2>9, <3>6 DEF SceneVisual
      <4> QED
        BY <3>6, <4>1, CalloutUnfolds DEF Unfolds
    <3>7. CASE scene.type = "diff_view"
      <4>1. now = DiffView(p) /\ next = DiffView(p)
        BY <2>7, <2>9, <3>7 DEF SceneVisual
      <4> QED
        BY <3>7, <4>1 DEF Unfolds
    <3> QED
      BY <2>2, <3>1, <3>2, <3>3, <3>4, <3>5, <3>6, <3>7 DEF SceneTypes, Grammar
  <2> QED
    BY <2>1, <2>8, <2>10
<1> QED
  BY <1>1, FramesInv, PTL
=============================================================================
