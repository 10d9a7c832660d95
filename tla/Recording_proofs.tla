-------------------------- MODULE Recording_proofs --------------------------
(***************************************************************************)
(* What the recording pipeline keeps for any numbers of studio pages,       *)
(* goroutines, segments, takes and failures.                                *)
(***************************************************************************)
EXTENDS Recording, TLAPS

-----------------------------------------------------------------------------
(* The inductive invariant *)

\* The concat service is entered through inFly, and by one goroutine at a time.
InFlight ==
    /\ \A w \in Workers : worker[w].at \in ConcatPc => inFly
    /\ OneConcat

\* How far a goroutine has come tells which artifacts are there.
Behind(w) ==
    /\ worker[w].at \in {"copy", "manifest"} => Complete(worker[w].plan)
    /\ worker[w].at = "manifest" => Complete(fullWav)
    /\ worker[w].at \in {"advance", "segment", "write", "scenes"} =>
           Complete(fullWav) /\ Complete(manifest)
    /\ worker[w].at \in {"segment", "write"} =>
           \A s \in Segment : s < worker[w].seg => s \in timelines
    /\ worker[w].at = "write" => worker[w].seg \in Segment
    /\ worker[w].at = "scenes" => timelines = Segment

Progress == \A w \in Workers : Behind(w)

IInv == TypeOK /\ InFlight /\ Progress /\ StageHasArtifacts

-----------------------------------------------------------------------------
(* Lemmas *)

Pc == {"idle", "start"} \cup ConcatPc \cup TimelinePc

LEMMA NothingTyped == Nothing \in [Segment -> Version]
BY TakesAssumption DEF Nothing, Version

\* A goroutine that goes on, with or without its plan or its segment, is the only one
\* that changes.
LEMMA WorkerMoves ==
    ASSUME worker \in [Workers -> WorkerState],
           NEW w \in Workers, NEW at \in Pc,
           NEW plan \in [Segment -> Version], NEW seg \in 1 .. Segments + 1,
           Goes(w, at, seg, plan)
    PROVE  /\ worker' \in [Workers -> WorkerState]
           /\ worker'[w].at = at /\ worker'[w].seg = seg /\ worker'[w].plan = plan
           /\ \A v \in Workers \ {w} : worker'[v] = worker[v]
BY DEF Goes, WorkerState, Pc

LEMMA GoesTo ==
    ASSUME worker \in [Workers -> WorkerState], NEW w \in Workers, NEW at \in Pc, GoTo(w, at)
    PROVE  /\ worker' \in [Workers -> WorkerState]
           /\ worker'[w].at = at
           /\ \A v \in Workers \ {w} : worker'[v] = worker[v]
<1>1. 1 \in 1 .. Segments + 1
    BY SegmentsAssumption
<1> QED BY <1>1, NothingTyped, WorkerMoves DEF GoTo

LEMMA GoesWithPlan ==
    ASSUME worker \in [Workers -> WorkerState], NEW w \in Workers, NEW at \in Pc,
           NEW plan \in [Segment -> Version], WithPlan(w, at, plan)
    PROVE  /\ worker' \in [Workers -> WorkerState]
           /\ worker'[w].at = at /\ worker'[w].plan = plan
           /\ \A v \in Workers \ {w} : worker'[v] = worker[v]
<1>1. 1 \in 1 .. Segments + 1
    BY SegmentsAssumption
<1> QED BY <1>1, WorkerMoves DEF WithPlan

LEMMA GoesToSegment ==
    ASSUME worker \in [Workers -> WorkerState], NEW w \in Workers, NEW at \in Pc,
           NEW seg \in 1 .. Segments + 1, AtSegment(w, at, seg)
    PROVE  /\ worker' \in [Workers -> WorkerState]
           /\ worker'[w].at = at /\ worker'[w].seg = seg
           /\ \A v \in Workers \ {w} : worker'[v] = worker[v]
<1> QED BY NothingTyped, WorkerMoves DEF AtSegment

\* A request of a page goes on, or is answered.
LEMMA ServeTyped ==
    ASSUME tab \in [Tabs -> TabState], NEW t \in Tabs,
           NEW req \in {"none", "upsert", "load", "count", "enter", "entered", "trigger", "unlink"},
           Serve(t, req)
    PROVE  tab' \in [Tabs -> TabState]
BY DEF Serve, TabState

LEMMA Faulted ==
    ASSUME TypeOK, Fault
    PROVE  faults' \in 0 .. MaxFaults
BY FaultsAssumption DEF TypeOK, Fault

LEMMA AnswerTyped ==
    ASSUME tab \in [Tabs -> TabState], NEW t \in Tabs,
           NEW at \in {"idle"} \cup Kind, Answer(t, at)
    PROVE  tab' \in [Tabs -> TabState]
<1>1. Idle \in TabState
    BY SegmentsAssumption, TakesAssumption DEF Idle, TabState, Segment, Version
<1>2. [tab[t] EXCEPT !.at = at, !.req = "none"] \in TabState
    BY DEF TabState
<1> QED BY <1>1, <1>2 DEF Answer

-----------------------------------------------------------------------------
(* The goroutines *)

\* Whatever a goroutine does, the others stay where they are ...
Effect(w, at) ==
    /\ worker' \in [Workers -> WorkerState]
    /\ worker'[w].at = at
    /\ \A v \in Workers \ {w} : worker'[v] = worker[v]

\* ... and artifacts are replaced, but never lost.
Grows ==
    /\ Complete(fullWav) => Complete(fullWav')
    /\ Complete(manifest) => Complete(manifest')
    /\ timelines \subseteq timelines' /\ timelines' \subseteq Segment

LEMMA OthersKeep ==
    ASSUME Progress, Grows, NEW w \in Workers, Behind(w)',
           \A v \in Workers \ {w} : worker'[v] = worker[v]
    PROVE  Progress'
<1> SUFFICES ASSUME NEW v \in Workers, v # w
             PROVE  Behind(v)'
    BY DEF Progress
<1>1. Behind(v) /\ worker'[v] = worker[v]
    BY DEF Progress
<1> QED BY <1>1 DEF Behind, Grows, Complete

\* A goroutine that is not in the concat service does not enter it but through inFly.
LEMMA NobodyEnters ==
    ASSUME InFlight, NEW w \in Workers, NEW at, Effect(w, at), inFly' = inFly,
           at \in ConcatPc => worker[w].at \in ConcatPc
    PROVE  InFlight'
<1>1. \A v \in Workers : worker'[v].at \in ConcatPc => worker[v].at \in ConcatPc
    BY DEF Effect
<1> QED BY <1>1 DEF InFlight, OneConcat

LEMMA ConcatRunKeeps ==
    ASSUME IInv, NEW w \in Workers, ConcatRun(w)
    PROVE  IInv'
<1> USE SegmentsAssumption, TakesAssumption
<1>1. worker \in [Workers -> WorkerState] /\ worker[w] \in WorkerState /\ Behind(w)
    BY DEF IInv, TypeOK, Progress
<1>2. Effect(w, IF inFly THEN "timeline" ELSE "load")
    BY <1>1, GoesTo DEF ConcatRun, Effect, Pc, ConcatPc, TimelinePc
<1>5. TypeOK'
    BY <1>1, <1>2 DEF IInv, ConcatRun, Effect, TypeOK, Version, State, store, recorded
<1>6. InFlight'
    <2>1. CASE inFly
        BY <1>2, <2>1 DEF IInv, ConcatRun, Effect, InFlight, OneConcat, ConcatPc
    <2>2. CASE ~inFly
        BY <1>2, <2>2 DEF IInv, ConcatRun, Effect, InFlight, OneConcat, ConcatPc
    <2> QED BY <2>1, <2>2
<1>7. Grows
    BY DEF IInv, TypeOK, ConcatRun, Grows, store
<1>8. Behind(w)'
    BY <1>1, <1>2 DEF IInv, ConcatRun, Effect, Behind, StageHasArtifacts, store
<1>9. StageHasArtifacts'
    BY <1>1, <1>2 DEF IInv, ConcatRun, StageHasArtifacts, store
<1> QED BY <1>5, <1>6, <1>7, <1>8, <1>9, <1>2, OthersKeep DEF IInv, Effect

LEMMA ConcatLoadKeeps ==
    ASSUME IInv, NEW w \in Workers, ConcatLoad(w)
    PROVE  IInv'
<1> USE SegmentsAssumption, TakesAssumption
<1>1. worker \in [Workers -> WorkerState] /\ worker[w] \in WorkerState /\ Behind(w)
    BY DEF IInv, TypeOK, Progress
<1>2. Effect(w, IF status = "recording" THEN "list" ELSE "leave")
    BY <1>1, GoesTo DEF ConcatLoad, Effect, Pc, ConcatPc, TimelinePc
<1>5. TypeOK'
    BY <1>1, <1>2 DEF IInv, ConcatLoad, Effect, TypeOK, Version, State, store, recorded
<1>6. InFlight'
    BY <1>1, <1>2, NobodyEnters DEF IInv, ConcatLoad, ConcatPc
<1>7. Grows
    BY DEF IInv, TypeOK, ConcatLoad, Grows, store
<1>8. Behind(w)'
    BY <1>1, <1>2 DEF IInv, ConcatLoad, Effect, Behind, StageHasArtifacts, store
<1>9. StageHasArtifacts'
    BY <1>1, <1>2 DEF IInv, ConcatLoad, StageHasArtifacts, store
<1> QED BY <1>5, <1>6, <1>7, <1>8, <1>9, <1>2, OthersKeep DEF IInv, Effect

LEMMA ConcatListKeeps ==
    ASSUME IInv, NEW w \in Workers, ConcatList(w)
    PROVE  IInv'
<1> USE SegmentsAssumption, TakesAssumption
<1>1. worker \in [Workers -> WorkerState] /\ worker[w] \in WorkerState /\ Behind(w)
    BY DEF IInv, TypeOK, Progress
<1>2. \/ Complete(take["audio"]) /\ Effect(w, "copy") /\ worker'[w].plan = take["audio"]
      \/ Effect(w, "leave")
    <2>1. take["audio"] \in [Segment -> Version]
        BY DEF IInv, TypeOK, Kind
    <2> QED BY <1>1, <2>1, GoesTo, GoesWithPlan DEF ConcatList, Effect, Pc, ConcatPc, TimelinePc
<1>5. TypeOK'
    BY <1>1, <1>2 DEF IInv, ConcatList, Effect, TypeOK, Version, State, store, recorded
<1>6. InFlight'
    BY <1>1, <1>2, NobodyEnters DEF IInv, ConcatList, ConcatPc
<1>7. Grows
    BY DEF IInv, TypeOK, ConcatList, Grows, store
<1>8. Behind(w)'
    BY <1>1, <1>2 DEF IInv, ConcatList, Effect, Behind, StageHasArtifacts, store
<1>9. StageHasArtifacts'
    BY <1>1, <1>2 DEF IInv, ConcatList, StageHasArtifacts, store
<1> QED BY <1>5, <1>6, <1>7, <1>8, <1>9, <1>2, OthersKeep DEF IInv, Effect

LEMMA ConcatWavsKeeps ==
    ASSUME IInv, NEW w \in Workers, ConcatWavs(w)
    PROVE  IInv'
<1> USE SegmentsAssumption, TakesAssumption
<1>1. worker \in [Workers -> WorkerState] /\ worker[w] \in WorkerState /\ Behind(w)
    BY DEF IInv, TypeOK, Progress
<1>2. \/ /\ Complete(file["audio"]) /\ fullWav' = file["audio"]
         /\ Effect(w, "manifest") /\ worker'[w].plan = worker[w].plan
      \/ fullWav' = fullWav /\ Effect(w, "fail")
    <2>1. worker[w].plan \in [Segment -> Version]
        BY <1>1 DEF WorkerState
    <2> QED BY <1>1, <2>1, GoesTo, GoesWithPlan DEF ConcatWavs, Effect, Pc, ConcatPc, TimelinePc
<1>3. fullWav' \in [Segment -> Version]
    BY <1>2 DEF IInv, TypeOK, Kind
<1>5. TypeOK'
    BY <1>1, <1>2, <1>3 DEF IInv, ConcatWavs, Effect, TypeOK, Version, State, store, recorded
<1>6. InFlight'
    BY <1>1, <1>2, <1>3, NobodyEnters DEF IInv, ConcatWavs, ConcatPc
<1>7. Grows
    BY <1>2 DEF IInv, TypeOK, ConcatWavs, Grows
<1>8. Behind(w)'
    BY <1>1, <1>2 DEF ConcatWavs, Effect, Behind
<1>9. StageHasArtifacts'
    BY <1>7 DEF IInv, ConcatWavs, Grows, StageHasArtifacts
<1> QED BY <1>5, <1>6, <1>7, <1>8, <1>9, <1>2, OthersKeep DEF IInv, Effect

LEMMA WriteManifestKeeps ==
    ASSUME IInv, NEW w \in Workers, WriteManifest(w)
    PROVE  IInv'
<1> USE SegmentsAssumption, TakesAssumption
<1>1. worker \in [Workers -> WorkerState] /\ worker[w] \in WorkerState /\ Behind(w)
    BY DEF IInv, TypeOK, Progress
<1>2. Effect(w, "advance")
    BY <1>1, GoesTo DEF WriteManifest, Effect, Pc, ConcatPc, TimelinePc
<1>3. Complete(worker[w].plan) /\ worker[w].plan \in [Segment -> Version]
    BY <1>1 DEF WriteManifest, Behind, WorkerState
<1>5. TypeOK'
    BY <1>1, <1>2, <1>3 DEF IInv, WriteManifest, Effect, TypeOK, Version, State, store, recorded
<1>6. InFlight'
    BY <1>1, <1>2, <1>3, NobodyEnters DEF IInv, WriteManifest, ConcatPc
<1>7. Grows
    BY <1>3 DEF IInv, TypeOK, WriteManifest, Grows
<1>8. Behind(w)'
    BY <1>1, <1>2, <1>3 DEF IInv, WriteManifest, Effect, Behind, StageHasArtifacts, store
<1>9. StageHasArtifacts'
    BY <1>1, <1>2, <1>3 DEF IInv, WriteManifest, StageHasArtifacts, store
<1> QED BY <1>5, <1>6, <1>7, <1>8, <1>9, <1>2, OthersKeep DEF IInv, Effect

LEMMA ConcatAdvanceKeeps ==
    ASSUME IInv, NEW w \in Workers, ConcatAdvance(w)
    PROVE  IInv'
<1> USE SegmentsAssumption, TakesAssumption
<1>1. worker \in [Workers -> WorkerState] /\ worker[w] \in WorkerState /\ Behind(w)
    BY DEF IInv, TypeOK, Progress
<1>2. Effect(w, "leave")
    BY <1>1, GoesTo DEF ConcatAdvance, Effect, Pc, ConcatPc, TimelinePc
<1>5. TypeOK'
    BY <1>1, <1>2 DEF IInv, ConcatAdvance, Effect, TypeOK, Version, State, store, recorded
<1>6. InFlight'
    BY <1>1, <1>2, NobodyEnters DEF IInv, ConcatAdvance, ConcatPc
<1>7. Grows
    BY DEF IInv, TypeOK, ConcatAdvance, Grows, store
<1>8. Behind(w)'
    BY <1>1, <1>2 DEF IInv, ConcatAdvance, Effect, Behind, StageHasArtifacts, store
<1>9. StageHasArtifacts'
    BY <1>1 DEF ConcatAdvance, Behind, StageHasArtifacts, store
<1> QED BY <1>5, <1>6, <1>7, <1>8, <1>9, <1>2, OthersKeep DEF IInv, Effect

LEMMA ConcatFailKeeps ==
    ASSUME IInv, NEW w \in Workers, ConcatFail(w)
    PROVE  IInv'
<1> USE SegmentsAssumption, TakesAssumption
<1>1. worker \in [Workers -> WorkerState] /\ worker[w] \in WorkerState /\ Behind(w)
    BY DEF IInv, TypeOK, Progress
<1>2. Effect(w, "leave")
    BY <1>1, GoesTo DEF ConcatFail, Effect, Pc, ConcatPc, TimelinePc
<1>5. TypeOK'
    BY <1>1, <1>2 DEF IInv, ConcatFail, Effect, TypeOK, Version, State, store, recorded
<1>6. InFlight'
    BY <1>1, <1>2, NobodyEnters DEF IInv, ConcatFail, ConcatPc
<1>7. Grows
    BY DEF IInv, TypeOK, ConcatFail, Grows, store
<1>8. Behind(w)'
    BY <1>1, <1>2 DEF IInv, ConcatFail, Effect, Behind, StageHasArtifacts, store
<1>9. StageHasArtifacts'
    BY <1>1, <1>2 DEF IInv, ConcatFail, StageHasArtifacts, store
<1> QED BY <1>5, <1>6, <1>7, <1>8, <1>9, <1>2, OthersKeep DEF IInv, Effect

LEMMA ConcatLeaveKeeps ==
    ASSUME IInv, NEW w \in Workers, ConcatLeave(w)
    PROVE  IInv'
<1> USE SegmentsAssumption, TakesAssumption
<1>1. worker \in [Workers -> WorkerState] /\ worker[w] \in WorkerState /\ Behind(w)
    BY DEF IInv, TypeOK, Progress
<1>2. Effect(w, "timeline")
    BY <1>1, GoesTo DEF ConcatLeave, Effect, Pc, ConcatPc, TimelinePc
<1>5. TypeOK'
    BY <1>1, <1>2 DEF IInv, ConcatLeave, Effect, TypeOK, Version, State, store, recorded
<1>6. InFlight'
    BY <1>1, <1>2 DEF IInv, ConcatLeave, Effect, InFlight, OneConcat, ConcatPc
<1>7. Grows
    BY DEF IInv, TypeOK, ConcatLeave, Grows, store
<1>8. Behind(w)'
    BY <1>1, <1>2 DEF IInv, ConcatLeave, Effect, Behind, StageHasArtifacts, store
<1>9. StageHasArtifacts'
    BY <1>1, <1>2 DEF IInv, ConcatLeave, StageHasArtifacts, store
<1> QED BY <1>5, <1>6, <1>7, <1>8, <1>9, <1>2, OthersKeep DEF IInv, Effect

LEMMA TimelineLoadKeeps ==
    ASSUME IInv, NEW w \in Workers, TimelineLoad(w)
    PROVE  IInv'
<1> USE SegmentsAssumption, TakesAssumption
<1>1. worker \in [Workers -> WorkerState] /\ worker[w] \in WorkerState /\ Behind(w)
    BY DEF IInv, TypeOK, Progress
<1>2. \/ status = "voice_processing" /\ Effect(w, "segment") /\ worker'[w].seg = 1
      \/ Effect(w, "idle")
    <2>1. 1 \in 1 .. Segments + 1
        OBVIOUS
    <2> QED BY <1>1, <2>1, GoesTo, GoesToSegment DEF TimelineLoad, Effect, Pc, ConcatPc, TimelinePc
<1>5. TypeOK'
    BY <1>1, <1>2 DEF IInv, TimelineLoad, Effect, TypeOK, Version, State, store, recorded
<1>6. InFlight'
    BY <1>1, <1>2, NobodyEnters DEF IInv, TimelineLoad, ConcatPc
<1>7. Grows
    BY DEF IInv, TypeOK, TimelineLoad, Grows, store
<1>8. Behind(w)'
    BY <1>1, <1>2 DEF IInv, TimelineLoad, Effect, Behind, StageHasArtifacts, store, Segment
<1>9. StageHasArtifacts'
    BY <1>1, <1>2 DEF IInv, TimelineLoad, StageHasArtifacts, store
<1> QED BY <1>5, <1>6, <1>7, <1>8, <1>9, <1>2, OthersKeep DEF IInv, Effect

LEMMA SkipSegmentKeeps ==
    ASSUME IInv, NEW w \in Workers, SkipSegment(w)
    PROVE  IInv'
<1> USE SegmentsAssumption, TakesAssumption
<1>1. worker \in [Workers -> WorkerState] /\ worker[w] \in WorkerState /\ Behind(w)
    BY DEF IInv, TypeOK, Progress
<1>2. worker[w].seg \in Segment /\ worker[w].seg + 1 \in 1 .. Segments + 1
    BY <1>1 DEF IInv, TypeOK, Behind, SkipSegment, Segment, WorkerState
<1>3. Effect(w, "segment") /\ worker'[w].seg = worker[w].seg + 1
    BY <1>1, <1>2, GoesToSegment DEF SkipSegment, Effect, Pc, ConcatPc, TimelinePc
<1>5. TypeOK'
    BY <1>1, <1>2, <1>3 DEF IInv, SkipSegment, Effect, TypeOK, Version, State, store, recorded
<1>6. InFlight'
    BY <1>1, <1>2, <1>3, NobodyEnters DEF IInv, SkipSegment, ConcatPc
<1>7. Grows
    BY DEF IInv, TypeOK, SkipSegment, Grows, store
<1>8. Behind(w)'
    <2>1. ASSUME NEW s \in Segment, s < worker[w].seg + 1
          PROVE  s \in timelines'
        BY <1>1, <1>2, <2>1 DEF IInv, TypeOK, SkipSegment, Behind, Segment, store
    <2> QED BY <1>1, <1>3, <2>1 DEF SkipSegment, Effect, Behind, store
<1>9. StageHasArtifacts'
    BY <1>1, <1>2, <1>3 DEF IInv, SkipSegment, StageHasArtifacts, store
<1> QED BY <1>5, <1>6, <1>7, <1>8, <1>9, <1>3, OthersKeep DEF IInv, Effect

LEMMA BuildSegmentKeeps ==
    ASSUME IInv, NEW w \in Workers, BuildSegment(w)
    PROVE  IInv'
<1> USE SegmentsAssumption, TakesAssumption
<1>1. worker \in [Workers -> WorkerState] /\ worker[w] \in WorkerState /\ Behind(w)
    BY DEF IInv, TypeOK, Progress
<1>2. worker[w].seg \in Segment /\ worker[w].seg \in 1 .. Segments + 1
    BY <1>1 DEF BuildSegment, WorkerState
<1>3. \/ Effect(w, "write") /\ worker'[w].seg = worker[w].seg
      \/ Effect(w, "block")
    BY <1>1, <1>2, GoesTo, GoesToSegment DEF BuildSegment, Effect, Pc, ConcatPc, TimelinePc
<1>4. sidecars' \subseteq Segment
    BY <1>2 DEF IInv, TypeOK, BuildSegment
<1>5. TypeOK'
    BY <1>1, <1>2, <1>3, <1>4 DEF IInv, BuildSegment, Effect, TypeOK, Version, State, store, recorded
<1>6. InFlight'
    BY <1>1, <1>2, <1>3, <1>4, NobodyEnters DEF IInv, BuildSegment, ConcatPc
<1>7. Grows
    BY DEF IInv, TypeOK, BuildSegment, Grows, store
<1>8. Behind(w)'
    BY <1>1, <1>2, <1>3, <1>4 DEF IInv, BuildSegment, Effect, Behind, StageHasArtifacts, store
<1>9. StageHasArtifacts'
    BY <1>1, <1>2, <1>3, <1>4 DEF IInv, BuildSegment, StageHasArtifacts, store
<1> QED BY <1>5, <1>6, <1>7, <1>8, <1>9, <1>3, OthersKeep DEF IInv, Effect

LEMMA WriteTimelineKeeps ==
    ASSUME IInv, NEW w \in Workers, WriteTimeline(w)
    PROVE  IInv'
<1> USE SegmentsAssumption, TakesAssumption
<1>1. worker \in [Workers -> WorkerState] /\ worker[w] \in WorkerState /\ Behind(w)
    BY DEF IInv, TypeOK, Progress
<1>2. worker[w].seg \in Segment /\ worker[w].seg + 1 \in 1 .. Segments + 1
    BY <1>1 DEF IInv, TypeOK, Behind, WriteTimeline, Segment, WorkerState
<1>3. Effect(w, "segment") /\ worker'[w].seg = worker[w].seg + 1
    BY <1>1, <1>2, GoesToSegment DEF WriteTimeline, Effect, Pc, ConcatPc, TimelinePc
<1>5. TypeOK'
    BY <1>1, <1>2, <1>3 DEF IInv, WriteTimeline, Effect, TypeOK, Version, State, store, recorded
<1>6. InFlight'
    BY <1>1, <1>2, <1>3, NobodyEnters DEF IInv, WriteTimeline, ConcatPc
<1>7. Grows
    BY <1>2 DEF IInv, TypeOK, WriteTimeline, Grows
<1>8. Behind(w)'
    <2>1. ASSUME NEW s \in Segment, s < worker[w].seg + 1
          PROVE  s \in timelines'
        BY <1>1, <1>2, <2>1 DEF IInv, TypeOK, WriteTimeline, Behind, Segment, store
    <2> QED BY <1>1, <1>3, <2>1 DEF WriteTimeline, Effect, Behind, store
<1>9. StageHasArtifacts'
    BY <1>7 DEF IInv, WriteTimeline, Grows, StageHasArtifacts
<1> QED BY <1>5, <1>6, <1>7, <1>8, <1>9, <1>3, OthersKeep DEF IInv, Effect

LEMMA AllBuiltKeeps ==
    ASSUME IInv, NEW w \in Workers, AllBuilt(w)
    PROVE  IInv'
<1> USE SegmentsAssumption, TakesAssumption
<1>1. worker \in [Workers -> WorkerState] /\ worker[w] \in WorkerState /\ Behind(w)
    BY DEF IInv, TypeOK, Progress
<1>2. Effect(w, "scenes")
    BY <1>1, GoesTo DEF AllBuilt, Effect, Pc, ConcatPc, TimelinePc
<1>3. timelines = Segment
    <2>1. \A s \in Segment : s < worker[w].seg
        BY <1>1 DEF AllBuilt, WorkerState, Segment
    <2> QED BY <1>1, <2>1 DEF IInv, TypeOK, AllBuilt, Behind
<1>5. TypeOK'
    BY <1>1, <1>2, <1>3 DEF IInv, AllBuilt, Effect, TypeOK, Version, State, store, recorded
<1>6. InFlight'
    BY <1>1, <1>2, <1>3, NobodyEnters DEF IInv, AllBuilt, ConcatPc
<1>7. Grows
    BY DEF IInv, TypeOK, AllBuilt, Grows, store
<1>8. Behind(w)'
    BY <1>1, <1>2, <1>3 DEF IInv, AllBuilt, Effect, Behind, StageHasArtifacts, store
<1>9. StageHasArtifacts'
    BY <1>1, <1>2, <1>3 DEF IInv, AllBuilt, StageHasArtifacts, store
<1> QED BY <1>5, <1>6, <1>7, <1>8, <1>9, <1>2, OthersKeep DEF IInv, Effect

LEMMA TimelineAdvanceKeeps ==
    ASSUME IInv, NEW w \in Workers, TimelineAdvance(w)
    PROVE  IInv'
<1> USE SegmentsAssumption, TakesAssumption
<1>1. worker \in [Workers -> WorkerState] /\ worker[w] \in WorkerState /\ Behind(w)
    BY DEF IInv, TypeOK, Progress
<1>2. Effect(w, "idle")
    BY <1>1, GoesTo DEF TimelineAdvance, Effect, Pc, ConcatPc, TimelinePc
<1>5. TypeOK'
    BY <1>1, <1>2 DEF IInv, TimelineAdvance, Effect, TypeOK, Version, State, store, recorded
<1>6. InFlight'
    BY <1>1, <1>2, NobodyEnters DEF IInv, TimelineAdvance, ConcatPc
<1>7. Grows
    BY DEF IInv, TypeOK, TimelineAdvance, Grows, store
<1>8. Behind(w)'
    BY <1>1, <1>2 DEF IInv, TimelineAdvance, Effect, Behind, StageHasArtifacts, store
<1>9. StageHasArtifacts'
    BY <1>1 DEF TimelineAdvance, Behind, StageHasArtifacts, store
<1> QED BY <1>5, <1>6, <1>7, <1>8, <1>9, <1>2, OthersKeep DEF IInv, Effect

LEMMA TimelineBlockKeeps ==
    ASSUME IInv, NEW w \in Workers, TimelineBlock(w)
    PROVE  IInv'
<1> USE SegmentsAssumption, TakesAssumption
<1>1. worker \in [Workers -> WorkerState] /\ worker[w] \in WorkerState /\ Behind(w)
    BY DEF IInv, TypeOK, Progress
<1>2. Effect(w, "idle")
    BY <1>1, GoesTo DEF TimelineBlock, Effect, Pc, ConcatPc, TimelinePc
<1>5. TypeOK'
    BY <1>1, <1>2 DEF IInv, TimelineBlock, Effect, TypeOK, Version, State, store, recorded
<1>6. InFlight'
    BY <1>1, <1>2, NobodyEnters DEF IInv, TimelineBlock, ConcatPc
<1>7. Grows
    BY DEF IInv, TypeOK, TimelineBlock, Grows, store
<1>8. Behind(w)'
    BY <1>1, <1>2 DEF IInv, TimelineBlock, Effect, Behind, StageHasArtifacts, store
<1>9. StageHasArtifacts'
    BY <1>1, <1>2 DEF IInv, TimelineBlock, StageHasArtifacts, store
<1> QED BY <1>5, <1>6, <1>7, <1>8, <1>9, <1>2, OthersKeep DEF IInv, Effect

LEMMA TimelineCutShortKeeps ==
    ASSUME IInv, NEW w \in Workers, TimelineCutShort(w)
    PROVE  IInv'
<1> USE SegmentsAssumption, TakesAssumption
<1>1. worker \in [Workers -> WorkerState] /\ worker[w] \in WorkerState /\ Behind(w)
    BY DEF IInv, TypeOK, Progress
<1>2. Effect(w, "block") /\ worker[w].seg \in Segment
    BY <1>1, GoesTo DEF TimelineCutShort, Behind, Effect, Pc, ConcatPc, TimelinePc
<1>3. faults' \in 0 .. MaxFaults
    BY Faulted DEF IInv, TimelineCutShort
<1>5. TypeOK'
    BY <1>1, <1>2, <1>3 DEF IInv, TimelineCutShort, Effect, TypeOK, Version, State, store, recorded
<1>6. InFlight'
    BY <1>1, <1>2, <1>3, NobodyEnters DEF IInv, TimelineCutShort, ConcatPc
<1>7. Grows
    BY <1>2 DEF IInv, TypeOK, TimelineCutShort, Grows
<1>8. Behind(w)'
    BY <1>2 DEF Effect, Behind
<1>9. StageHasArtifacts'
    BY <1>7 DEF IInv, TimelineCutShort, Grows, StageHasArtifacts
<1> QED BY <1>5, <1>6, <1>7, <1>8, <1>9, <1>2, OthersKeep DEF IInv, Effect

LEMMA DiskFailsKeeps ==
    ASSUME IInv, NEW w \in Workers, DiskFails(w)
    PROVE  IInv'
<1> USE SegmentsAssumption, TakesAssumption
<1>1. worker \in [Workers -> WorkerState] /\ worker[w] \in WorkerState /\ Behind(w)
    BY DEF IInv, TypeOK, Progress
<1>2. PICK at \in {"leave", "fail", "block"} : Effect(w, at) /\ (at \in ConcatPc => worker[w].at \in ConcatPc)
    <2>1. CASE worker[w].at = "list" /\ GoTo(w, "leave")
        BY <1>1, <2>1, GoesTo DEF Effect, Pc, ConcatPc, TimelinePc
    <2>2. CASE worker[w].at \in {"copy", "manifest"} /\ GoTo(w, "fail")
        BY <1>1, <2>2, GoesTo DEF Effect, Pc, ConcatPc, TimelinePc
    <2>3. CASE worker[w].at \in {"segment", "write"} /\ GoTo(w, "block")
        BY <1>1, <2>3, GoesTo DEF Effect, Pc, ConcatPc, TimelinePc
    <2> QED BY <2>1, <2>2, <2>3 DEF DiskFails
<1>3. faults' \in 0 .. MaxFaults
    BY Faulted DEF IInv, DiskFails
<1>5. TypeOK'
    BY <1>1, <1>2, <1>3 DEF IInv, DiskFails, Fault, Effect, TypeOK, Version, State, store, recorded
<1>6. InFlight'
    BY <1>2, NobodyEnters DEF IInv, DiskFails
<1>7. Grows
    BY DEF IInv, TypeOK, DiskFails, Grows, store
<1>8. Behind(w)'
    BY <1>2 DEF Effect, Behind
<1>9. StageHasArtifacts'
    BY DEF IInv, DiskFails, StageHasArtifacts, store
<1> QED BY <1>5, <1>6, <1>7, <1>8, <1>9, <1>2, OthersKeep DEF IInv, Effect

LEMMA QueryFailsKeeps ==
    ASSUME IInv, NEW w \in Workers, QueryFails(w)
    PROVE  IInv'
<1> USE SegmentsAssumption, TakesAssumption
<1>1. worker \in [Workers -> WorkerState] /\ worker[w] \in WorkerState /\ Behind(w)
    BY DEF IInv, TypeOK, Progress
<1>2. PICK at \in {"leave", "fail", "idle", "block"} : Effect(w, at) /\ (at \in ConcatPc => worker[w].at \in ConcatPc)
    <2>1. CASE worker[w].at \in {"load", "list", "fail"} /\ GoTo(w, "leave")
        BY <1>1, <2>1, GoesTo DEF Effect, Pc, ConcatPc, TimelinePc
    <2>2. CASE worker[w].at = "advance" /\ GoTo(w, "fail")
        BY <1>1, <2>2, GoesTo DEF Effect, Pc, ConcatPc, TimelinePc
    <2>3. CASE worker[w].at \in {"timeline", "block"} /\ GoTo(w, "idle")
        BY <1>1, <2>3, GoesTo DEF Effect, Pc, ConcatPc, TimelinePc
    <2>4. CASE worker[w].at = "scenes" /\ GoTo(w, "block")
        BY <1>1, <2>4, GoesTo DEF Effect, Pc, ConcatPc, TimelinePc
    <2> QED BY <2>1, <2>2, <2>3, <2>4 DEF QueryFails
<1>3. faults' \in 0 .. MaxFaults
    BY Faulted DEF IInv, QueryFails
<1>5. TypeOK'
    BY <1>1, <1>2, <1>3 DEF IInv, QueryFails, Fault, Effect, TypeOK, Version, State, store, recorded
<1>6. InFlight'
    BY <1>2, NobodyEnters DEF IInv, QueryFails
<1>7. Grows
    BY DEF IInv, TypeOK, QueryFails, Grows, store
<1>8. Behind(w)'
    BY <1>2 DEF Effect, Behind
<1>9. StageHasArtifacts'
    BY DEF IInv, QueryFails, StageHasArtifacts, store
<1> QED BY <1>5, <1>6, <1>7, <1>8, <1>9, <1>2, OthersKeep DEF IInv, Effect

LEMMA WorkersKeep ==
    ASSUME IInv, NEW w \in Workers, WorkerStep(w)
    PROVE  IInv'
BY ConcatRunKeeps, ConcatLoadKeeps, ConcatListKeeps, ConcatWavsKeeps,
   WriteManifestKeeps, ConcatAdvanceKeeps, ConcatFailKeeps, ConcatLeaveKeeps,
   TimelineLoadKeeps, SkipSegmentKeeps, BuildSegmentKeeps, WriteTimelineKeeps,
   AllBuiltKeeps, TimelineAdvanceKeeps, TimelineBlockKeeps, DiskFailsKeeps,
   TimelineCutShortKeeps, QueryFailsKeeps
DEF WorkerStep

-----------------------------------------------------------------------------
(* The pages and their requests *)

LEMMA ArtifactsStay ==
    ASSUME IInv, TypeOK', UNCHANGED <<status, store, worker, inFly>>
    PROVE  IInv'
BY DEF IInv, InFlight, OneConcat, Progress, Behind, StageHasArtifacts, Complete, store

\* A goroutine that starts is not in the concat service yet.
LEMMA StartKeeps ==
    ASSUME IInv, AfterUpsert, UNCHANGED <<status, recorded, store, inFly, made, outage>>,
           tab' \in [Tabs -> TabState], faults' \in 0 .. MaxFaults
    PROVE  IInv'
<1>1. PICK w \in Workers : GoTo(w, "start")
    BY DEF AfterUpsert
<1>2. Effect(w, "start")
    BY <1>1, GoesTo DEF IInv, TypeOK, Effect, Pc
<1>3. TypeOK'
    BY <1>2 DEF IInv, TypeOK, Effect, recorded, store
<1>4. InFlight'
    BY <1>2, NobodyEnters DEF IInv, ConcatPc
<1>5. Grows
    BY DEF IInv, TypeOK, Grows, store
<1>6. Behind(w)'
    BY <1>2 DEF Effect, Behind
<1>7. StageHasArtifacts'
    BY DEF IInv, StageHasArtifacts, store
<1> QED BY <1>2, <1>3, <1>4, <1>5, <1>6, <1>7, OthersKeep DEF IInv, Effect

\* What a page uploads is a recording of a segment.
LEMMA Uploaded ==
    ASSUME TypeOK, NEW t \in Tabs
    PROVE  /\ tab \in [Tabs -> TabState]
           /\ tab[t].at \in {"idle"} \cup Kind
           /\ tab[t].seg \in Segment /\ tab[t].rec \in Version
BY DEF TypeOK, TabState

\* The recording of one kind and one segment is replaced.
LEMMA OneReplaced ==
    ASSUME NEW rows \in [Kind -> [Segment -> Version]], NEW k, NEW s, NEW v \in Version
    PROVE  [rows EXCEPT ![k][s] = v] \in [Kind -> [Segment -> Version]]
OBVIOUS

\* The recordings of one segment are forgotten.
LEMMA BothForgotten ==
    ASSUME NEW rows \in [Kind -> [Segment -> Version]], NEW s
    PROVE  [k \in Kind |-> [rows[k] EXCEPT ![s] = 0]] \in [Kind -> [Segment -> Version]]
<1>1. 0 \in Version
    BY TakesAssumption DEF Version
<1>2. ASSUME NEW k \in Kind
      PROVE  [rows[k] EXCEPT ![s] = 0] \in [Segment -> Version]
    BY <1>1
<1> QED BY <1>2

LEMMA PagesKeep ==
    ASSUME IInv, NEW t \in Tabs, PageStep(t)
    PROVE  IInv'
<1>1. TypeOK
    BY DEF IInv
<1>2. ASSUME NEW s \in Segment, Record(t, s)
      PROVE  IInv'
    <2>1. made' \in Version
        BY <1>1, <1>2, TakesAssumption DEF Record, TypeOK, Version
    <2>2. [at |-> "audio", seg |-> s, rec |-> made + 1, req |-> "none"] \in TabState
        BY <1>2, <2>1 DEF Record, TabState, Kind
    <2>3. tab' \in [Tabs -> TabState]
        BY <1>1, <1>2, <2>2, Uploaded DEF Record
    <2>4. TypeOK'
        BY <1>1, <1>2, <2>1, <2>3 DEF Record, TypeOK, recorded, store
    <2> QED BY <1>2, <2>4, ArtifactsStay DEF Record
<1>3. ASSUME NEW s \in Segment, DeleteTakes(t, s)
      PROVE  IInv'
    <2>1. take' \in [Kind -> [Segment -> Version]]
        BY <1>1, <1>3, BothForgotten DEF DeleteTakes, TypeOK
    <2>2. tab' \in [Tabs -> TabState]
        BY <1>1, <1>3, Uploaded DEF DeleteTakes, TabState
    <2>3. TypeOK'
        BY <1>1, <1>3, <2>1, <2>2 DEF DeleteTakes, TypeOK, store
    <2> QED BY <1>3, <2>3, ArtifactsStay DEF DeleteTakes
<1>4. CASE UploadFails(t)
    <2>1. tab' \in [Tabs -> TabState] /\ faults' \in 0 .. MaxFaults
        BY <1>1, <1>4, Uploaded, AnswerTyped, Faulted DEF UploadFails
    <2>2. TypeOK'
        BY <1>1, <1>4, <2>1 DEF UploadFails, TypeOK, recorded, store
    <2> QED BY <1>4, <2>2, ArtifactsStay DEF UploadFails
<1>5. CASE ReceiveChunk(t)
    <2>1. file' \in [Kind -> [Segment -> Version]]
        BY <1>1, <1>5, Uploaded, OneReplaced DEF ReceiveChunk, TypeOK
    <2>2. tab' \in [Tabs -> TabState]
        BY <1>1, <1>5, Uploaded, ServeTyped DEF ReceiveChunk
    <2>3. TypeOK'
        BY <1>1, <1>5, <2>1, <2>2 DEF ReceiveChunk, TypeOK, store
    <2> QED BY <1>5, <2>3, ArtifactsStay DEF ReceiveChunk
<1> QED BY <1>2, <1>3, <1>4, <1>5 DEF PageStep

LEMMA HandlersKeep ==
    ASSUME IInv, NEW t \in Tabs, HandlerStep(t)
    PROVE  IInv'
<1>1. TypeOK
    BY DEF IInv
<1>2. CASE UpsertTake(t)
    <2>1. take' \in [Kind -> [Segment -> Version]]
        BY <1>1, <1>2, Uploaded, OneReplaced DEF UpsertTake, TypeOK
    <2>2. tab' \in [Tabs -> TabState]
        BY <1>1, <1>2, Uploaded, ServeTyped DEF UpsertTake
    <2>3. TypeOK'
        BY <1>1, <1>2, <2>1, <2>2 DEF UpsertTake, TypeOK, store
    <2> QED BY <1>2, <2>3, ArtifactsStay DEF UpsertTake
<1>3. CASE UpsertFails(t)
    <2>1. tab' \in [Tabs -> TabState] /\ faults' \in 0 .. MaxFaults
        BY <1>1, <1>3, Uploaded, AnswerTyped, Faulted DEF UpsertFails, AfterFailure
    <2>2. TypeOK'
        BY <1>1, <1>3, <2>1 DEF UpsertFails, TypeOK, recorded, store
    <2> QED BY <1>3, <2>2, ArtifactsStay DEF UpsertFails
<1>4. CASE EnterLoad(t) \/ EnterCount(t)
    <2>1. PICK req \in {"count", "enter", "trigger"} : Serve(t, req)
        BY <1>4 DEF EnterLoad, EnterCount
    <2>2. tab' \in [Tabs -> TabState]
        BY <1>1, <2>1, Uploaded, ServeTyped
    <2>3. TypeOK'
        BY <1>1, <1>4, <2>2 DEF EnterLoad, EnterCount, TypeOK, recorded, store
    <2> QED BY <1>4, <2>3, ArtifactsStay DEF EnterLoad, EnterCount
<1>5. CASE EnterRecording(t)
    <2>1. tab' \in [Tabs -> TabState]
        BY <1>1, <1>5, Uploaded, ServeTyped DEF EnterRecording
    <2>2. TypeOK'
        BY <1>1, <1>5, <2>1 DEF EnterRecording, TypeOK, State, recorded, store
    <2>3. InFlight' /\ Progress'
        BY <1>5 DEF IInv, EnterRecording, InFlight, OneConcat, Progress, Behind, Complete, store
    <2>4. StageHasArtifacts'
        BY <1>5 DEF EnterRecording, StageHasArtifacts
    <2> QED BY <2>2, <2>3, <2>4 DEF IInv
<1>6. CASE EnterFails(t)
    <2>1. tab' \in [Tabs -> TabState] /\ faults' \in 0 .. MaxFaults
        BY <1>1, <1>6, Uploaded, ServeTyped, Faulted DEF EnterFails
    <2>2. TypeOK'
        BY <1>1, <1>6, <2>1 DEF EnterFails, TypeOK, recorded, store
    <2> QED BY <1>6, <2>2, ArtifactsStay DEF EnterFails
<1>7. CASE TriggerEntered(t)
    <2>1. tab' \in [Tabs -> TabState] /\ faults' \in 0 .. MaxFaults
        BY <1>1, <1>7, Uploaded, ServeTyped DEF TriggerEntered, TypeOK
    <2> QED BY <1>7, <2>1, StartKeeps DEF TriggerEntered
<1>8. CASE Trigger(t)
    <2>1. tab' \in [Tabs -> TabState] /\ faults' \in 0 .. MaxFaults
        BY <1>1, <1>8, Uploaded, AnswerTyped DEF Trigger, NextUpload, Kind, TypeOK
    <2> QED BY <1>8, <2>1, StartKeeps DEF Trigger
<1>9. CASE AnswerLost(t)
    <2>1. tab' \in [Tabs -> TabState] /\ faults' \in 0 .. MaxFaults
        BY <1>1, <1>9, Uploaded, AnswerTyped, Faulted DEF AnswerLost, AfterFailure
    <2> QED BY <1>9, <2>1, StartKeeps DEF AnswerLost
<1>10. CASE RemoveFiles(t)
    <2>1. file' \in [Kind -> [Segment -> Version]]
        BY <1>1, <1>10, BothForgotten DEF RemoveFiles, TypeOK
    <2>2. tab' \in [Tabs -> TabState]
        BY <1>1, <1>10, Uploaded, AnswerTyped DEF RemoveFiles
    <2>3. TypeOK'
        BY <1>1, <1>10, <2>1, <2>2 DEF RemoveFiles, TypeOK, store
    <2> QED BY <1>10, <2>3, ArtifactsStay DEF RemoveFiles
<1> QED BY <1>2, <1>3, <1>4, <1>5, <1>6, <1>7, <1>8, <1>9, <1>10 DEF HandlerStep

-----------------------------------------------------------------------------
(* The invariant *)

LEMMA RestartKeeps ==
    ASSUME IInv, Restart
    PROVE  IInv'
<1>1. Resting \in WorkerState
    BY SegmentsAssumption, NothingTyped DEF Resting, WorkerState
<1>2. \A w \in Workers : worker'[w].at = "idle"
    BY DEF Restart, Resting
<1>3. Idle \in TabState
    BY SegmentsAssumption, TakesAssumption DEF Idle, TabState, Segment, Version
<1>4. tab' \in [Tabs -> TabState]
    BY <1>3 DEF Restart
<1>5. TypeOK'
    BY <1>1, <1>4, Faulted DEF IInv, TypeOK, Restart, recorded, store
<1>6. InFlight' /\ Progress'
    BY <1>2 DEF InFlight, OneConcat, Progress, Behind, ConcatPc
<1>7. StageHasArtifacts'
    BY DEF IInv, Restart, StageHasArtifacts, store
<1> QED BY <1>5, <1>6, <1>7 DEF IInv

LEMMA MoveOnKeeps ==
    ASSUME IInv, MoveOn
    PROVE  IInv'
<1>1. TypeOK'
    BY DEF IInv, TypeOK, MoveOn, State, recorded, store
<1>2. InFlight' /\ Progress'
    BY DEF IInv, MoveOn, InFlight, OneConcat, Progress, Behind, Complete, store
<1>3. StageHasArtifacts'
    BY DEF IInv, MoveOn, StageHasArtifacts, store
<1> QED BY <1>1, <1>2, <1>3 DEF IInv

LEMMA InitIInv == Init => IInv
<1> SUFFICES ASSUME Init
             PROVE  IInv
    OBVIOUS
<1>1. Resting \in WorkerState /\ Idle \in TabState
    BY SegmentsAssumption, TakesAssumption, NothingTyped
    DEF Resting, WorkerState, Idle, TabState, Segment, Version
<1>2. TypeOK
    <2>1. 0 \in Version /\ 0 \in 0 .. MaxFaults
        BY TakesAssumption, FaultsAssumption DEF Version
    <2>2. [k \in Kind |-> Nothing] \in [Kind -> [Segment -> Version]]
        BY NothingTyped
    <2>3. "script_approved" \in State
        BY DEF State
    <2> QED BY <1>1, <2>1, <2>2, <2>3, NothingTyped DEF Init, TypeOK
<1>3. InFlight /\ Progress /\ StageHasArtifacts
    BY DEF Init, Resting, InFlight, OneConcat, ConcatPc, Progress, Behind, StageHasArtifacts
<1> QED BY <1>2, <1>3 DEF IInv

LEMMA StepIInv == IInv /\ [Next]_vars => IInv'
<1> SUFFICES ASSUME IInv, [Next]_vars
             PROVE  IInv'
    OBVIOUS
<1>1. CASE UNCHANGED vars
    BY <1>1 DEF vars, IInv, TypeOK, InFlight, OneConcat, Progress, Behind, StageHasArtifacts,
       Complete, store, recorded
<1>2. CASE Next
    BY <1>2, PagesKeep, HandlersKeep, WorkersKeep, RestartKeeps, MoveOnKeeps DEF Next
<1> QED BY <1>1, <1>2

\* The strengthened invariant: where each goroutine has come to in concat.Run and
\* timeline.Run tells which artifacts of the video exist.
THEOREM Invariance == Spec => []IInv
BY InitIInv, StepIInv, PTL DEF Spec

-----------------------------------------------------------------------------
(* What follows *)

\* The state is well formed, whatever goes wrong: no goroutine runs past the last
\* segment, nothing but the recordings that were made reaches rows and files.
THEOREM TypeCorrect == Spec => []TypeOK
<1>1. IInv => TypeOK
    BY DEF IInv
<1> QED BY <1>1, Invariance, PTL

\* At most one goroutine is in the concat service of a video, for any number of
\* uploads and pages: Service.inFly is enough of a lock.
THEOREM OneConcatAtATime == Spec => []OneConcat
<1>1. IInv => OneConcat
    BY DEF IInv, InFlight
<1> QED BY <1>1, Invariance, PTL

\* A video in voice processing or beyond has a full.wav and a manifest of each
\* segment, and one whose scenes are due has each timeline, although the services
\* set the status without another look at it.
THEOREM StagesHaveArtifacts == Spec => []StageHasArtifacts
<1>1. IInv => StageHasArtifacts
    BY DEF IInv
<1> QED BY <1>1, Invariance, PTL

-----------------------------------------------------------------------------
(* Nobody leaves a video in voice processing alone *)

Attends == TimelinePc \cup {"leave"}

\* A step keeps the property when nobody who attends stops to.
LEMMA StillAttended ==
    ASSUME VoiceIsAttended, outage => outage',
           status' = "voice_processing" => status = "voice_processing",
           \A v \in Workers : worker[v].at \in Attends => worker'[v].at \in Attends
    PROVE  VoiceIsAttended'
BY DEF VoiceIsAttended, Attends

LEMMA WorkersAttend ==
    ASSUME TypeOK, VoiceIsAttended, NEW w \in Workers, WorkerStep(w)
    PROVE  VoiceIsAttended'
<1> USE DEF ConcatPc, TimelinePc
<1>1. worker \in [Workers -> WorkerState]
    BY DEF TypeOK
<1>2. CASE ConcatRun(w)
    BY <1>1, <1>2, StillAttended DEF ConcatRun, GoTo, WithPlan, AtSegment, Goes, Attends
<1>3. CASE ConcatLoad(w)
    BY <1>1, <1>3, StillAttended DEF ConcatLoad, GoTo, WithPlan, AtSegment, Goes, Attends
<1>4. CASE ConcatList(w)
    BY <1>1, <1>4, StillAttended DEF ConcatList, GoTo, WithPlan, AtSegment, Goes, Attends
<1>5. CASE ConcatWavs(w)
    BY <1>1, <1>5, StillAttended DEF ConcatWavs, GoTo, WithPlan, AtSegment, Goes, Attends
<1>6. CASE WriteManifest(w)
    BY <1>1, <1>6, StillAttended DEF WriteManifest, GoTo, WithPlan, AtSegment, Goes, Attends
<1>7. CASE ConcatAdvance(w)
    BY <1>1, <1>7 DEF ConcatAdvance, GoTo, Goes, VoiceIsAttended
<1>8. CASE ConcatFail(w)
    BY <1>8 DEF ConcatFail, VoiceIsAttended
<1>9. CASE ConcatLeave(w)
    BY <1>1, <1>9, StillAttended DEF ConcatLeave, GoTo, WithPlan, AtSegment, Goes, Attends
<1>10. CASE TimelineLoad(w)
    BY <1>1, <1>10 DEF TimelineLoad, GoTo, AtSegment, Goes, VoiceIsAttended
<1>11. CASE SkipSegment(w)
    BY <1>1, <1>11, StillAttended DEF SkipSegment, GoTo, WithPlan, AtSegment, Goes, Attends
<1>12. CASE BuildSegment(w)
    BY <1>1, <1>12, StillAttended DEF BuildSegment, GoTo, WithPlan, AtSegment, Goes, Attends
<1>13. CASE WriteTimeline(w)
    BY <1>1, <1>13, StillAttended DEF WriteTimeline, GoTo, WithPlan, AtSegment, Goes, Attends
<1>14. CASE AllBuilt(w)
    BY <1>1, <1>14, StillAttended DEF AllBuilt, GoTo, WithPlan, AtSegment, Goes, Attends
<1>15. CASE TimelineAdvance(w)
    BY <1>15 DEF TimelineAdvance, VoiceIsAttended
<1>16. CASE TimelineBlock(w)
    BY <1>16 DEF TimelineBlock, VoiceIsAttended
<1>17. CASE DiskFails(w)
    BY <1>1, <1>17, StillAttended DEF DiskFails, GoTo, WithPlan, AtSegment, Goes, Attends
<1>18. CASE TimelineCutShort(w)
    BY <1>1, <1>18, StillAttended DEF TimelineCutShort, GoTo, WithPlan, AtSegment, Goes, Attends
<1>19. CASE QueryFails(w)
    BY <1>19 DEF QueryFails, VoiceIsAttended
<1> QED BY <1>2, <1>3, <1>4, <1>5, <1>6, <1>7, <1>8, <1>9, <1>10, <1>11, <1>12, <1>13, <1>14,
       <1>15, <1>16, <1>17, <1>18, <1>19 DEF WorkerStep

LEMMA StepAttended == TypeOK /\ VoiceIsAttended /\ [Next]_vars => VoiceIsAttended'
<1> SUFFICES ASSUME TypeOK, VoiceIsAttended, [Next]_vars
             PROVE  VoiceIsAttended'
    OBVIOUS
<1>1. CASE UNCHANGED vars
    BY <1>1 DEF vars, VoiceIsAttended
<1>2. ASSUME NEW t \in Tabs, PageStep(t)
      PROVE  VoiceIsAttended'
    BY <1>2 DEF PageStep, Record, DeleteTakes, UploadFails, ReceiveChunk, VoiceIsAttended
<1>3. ASSUME NEW t \in Tabs, HandlerStep(t)
      PROVE  VoiceIsAttended'
    <2>1. CASE TriggerEntered(t) \/ Trigger(t) \/ AnswerLost(t)
        <3>1. PICK w \in Workers : worker[w].at = "idle" /\ GoTo(w, "start")
            BY <2>1 DEF TriggerEntered, Trigger, AnswerLost, AfterUpsert
        <3>2. \A v \in Workers \ {w} : worker'[v] = worker[v]
            BY <3>1 DEF GoTo, Goes, TypeOK
        <3>3. status' = status /\ outage' = outage
            BY <2>1 DEF TriggerEntered, Trigger, AnswerLost
        <3> QED BY <3>1, <3>2, <3>3 DEF VoiceIsAttended, TimelinePc
    <2>2. CASE EnterRecording(t)
        BY <2>2 DEF EnterRecording, VoiceIsAttended
    <2>3. CASE ~(TriggerEntered(t) \/ Trigger(t) \/ AnswerLost(t) \/ EnterRecording(t))
        BY <1>3, <2>3 DEF HandlerStep, UpsertTake, UpsertFails, EnterLoad, EnterCount, EnterFails,
           RemoveFiles, VoiceIsAttended
    <2> QED BY <2>1, <2>2, <2>3
<1>4. CASE Restart
    BY <1>4 DEF Restart, VoiceIsAttended
<1>5. CASE MoveOn
    BY <1>5 DEF MoveOn, VoiceIsAttended
<1> QED BY <1>1, <1>2, <1>3, <1>4, <1>5, WorkersAttend DEF Next

\* A video in voice processing is in the hands of a goroutine, until a restart or a
\* failing query has taken one away: concat does not leave a video to a timeline
\* service that has already looked.
THEOREM VoiceAttended == Spec => []VoiceIsAttended
<1>1. Init => VoiceIsAttended
    BY DEF Init, VoiceIsAttended
<1> QED BY <1>1, StepAttended, TypeCorrect, PTL DEF Spec


-----------------------------------------------------------------------------
(***************************************************************************)
(* What Recording guarantees, besides, as long as one studio page records:  *)
(* rows, files, full.wav and the manifest do not get ahead of each other,   *)
(* although nothing but the order of the writes keeps them together.        *)
(***************************************************************************)

-----------------------------------------------------------------------------
(* The inductive invariant *)

OnePage == \A s, t \in Tabs : s = t

FilesAreRecorded == \A k \in Kind, s \in Segment : file[k][s] <= made

\* The page is sending the last take there is, and a request of it that is halfway has
\* done its first half.
PageAgrees(t) ==
    /\ tab[t].at \in Kind => tab[t].rec = made
    /\ tab[t].req \notin {"none", "unlink"} => tab[t].at \in Kind
    /\ tab[t].req = "upsert" => file[tab[t].at][tab[t].seg] = tab[t].rec
    /\ tab[t].req = "unlink" => \A k \in Kind : take[k][tab[t].seg] = 0

\* Takes that were listed: a file is gone since, or as new.
Fits(listed) ==
    \A s \in Segment :
        /\ listed[s] <= made
        /\ file["audio"][s] = 0 \/ listed[s] <= file["audio"][s]

\* What a goroutine has listed, and has not written yet.
PlanAgrees(w) ==
    /\ worker[w].at \in {"copy", "manifest"} => Fits(worker[w].plan)
    /\ worker[w].at = "manifest" => \A s \in Segment : worker[w].plan[s] <= fullWav[s]

PInv ==
    /\ IInv
    /\ TakeHasFile /\ FilesAreRecorded /\ \A t \in Tabs : PageAgrees(t)
    /\ Fits(manifest) /\ ManifestNotAhead /\ \A w \in Workers : PlanAgrees(w)

-----------------------------------------------------------------------------
(* What a step does to the files and to what is made of them *)

LEMMA Numbers ==
    ASSUME TypeOK
    PROVE  /\ made \in Nat
           /\ \A k \in Kind, s \in Segment : take[k][s] \in Nat /\ file[k][s] \in Nat
           /\ \A s \in Segment : fullWav[s] \in Nat /\ manifest[s] \in Nat
           /\ \A t \in Tabs : tab[t].rec \in Nat /\ tab[t].seg \in Segment
           /\ \A w \in Workers, s \in Segment : worker[w].plan[s] \in Nat
BY TakesAssumption DEF TypeOK, Version, TabState, WorkerState

\* A goroutine reads takes and files, and writes neither.
LEMMA WorkerTouchesNoTake ==
    ASSUME NEW w \in Workers, WorkerStep(w)
    PROVE  UNCHANGED <<recorded, tab, made>>
BY DEF WorkerStep, ConcatRun, ConcatLoad, ConcatList, ConcatWavs, WriteManifest, ConcatAdvance,
   ConcatFail, ConcatLeave, TimelineLoad, SkipSegment, BuildSegment, WriteTimeline, AllBuilt,
   TimelineAdvance, TimelineBlock, DiskFails, TimelineCutShort, QueryFails, recorded

\* A file is replaced by the last recording or removed, by the page.
LEMMA FileStep ==
    ASSUME PInv, [Next]_vars
    PROVE  /\ made' \in Nat /\ made <= made'
           /\ \A k \in Kind, s \in Segment : file'[k][s] \in {file[k][s], 0, made'}
<1> USE DEF PInv, IInv, TypeOK
<1>1. made \in Nat
  BY Numbers
<1>2. ASSUME NEW t \in Tabs, ReceiveChunk(t)
      PROVE  made' = made /\ \A k \in Kind, s \in Segment : file'[k][s] \in {file[k][s], made}
  BY <1>2 DEF ReceiveChunk, PageAgrees
<1>3. ASSUME NEW t \in Tabs, RemoveFiles(t)
      PROVE  made' = made /\ \A k \in Kind, s \in Segment : file'[k][s] \in {file[k][s], 0}
  BY <1>3 DEF RemoveFiles
<1>4. ASSUME NEW t \in Tabs, NEW s \in Segment, Record(t, s)
      PROVE  made' = made + 1 /\ file' = file
  BY <1>4 DEF Record, recorded
<1> DEFINE Same == made' = made /\ file' = file
<1>5. CASE Same
  BY <1>1, <1>5
<1>6. \/ Same
      \/ \E t \in Tabs : ReceiveChunk(t) \/ RemoveFiles(t) \/ \E s \in Segment : Record(t, s)
  <2>1. ASSUME NEW t \in Tabs, PageStep(t)
        PROVE  Same \/ ReceiveChunk(t) \/ \E s \in Segment : Record(t, s)
    BY <2>1 DEF PageStep, DeleteTakes, UploadFails, recorded
  <2>2. ASSUME NEW t \in Tabs, HandlerStep(t)
        PROVE  Same \/ RemoveFiles(t)
    BY <2>2 DEF HandlerStep, UpsertTake, UpsertFails, EnterLoad, EnterCount, EnterRecording,
       EnterFails, TriggerEntered, Trigger, AnswerLost, recorded
  <2>3. ASSUME NEW w \in Workers, WorkerStep(w)
        PROVE  Same
    BY <2>3, WorkerTouchesNoTake DEF recorded
  <2>4. CASE Restart \/ MoveOn \/ UNCHANGED vars
    BY <2>4 DEF Restart, MoveOn, vars, recorded
  <2> QED
    BY <2>1, <2>2, <2>3, <2>4 DEF Next
<1> QED
  BY <1>1, <1>2, <1>3, <1>4, <1>5, <1>6

\* A goroutine either keeps what it has listed, with full.wav as it is, or lists the
\* takes, or has just made full.wav of the files.
LEMMA WavStep ==
    ASSUME PInv, [Next]_vars, NEW w \in Workers, worker'[w].at \in {"copy", "manifest"}
    PROVE  \/ /\ worker'[w].at = worker[w].at /\ worker'[w].plan = worker[w].plan
              /\ worker[w].at = "manifest" => fullWav' = fullWav
           \/ worker'[w].at = "copy" /\ worker'[w].plan = take["audio"]
           \/ /\ worker[w].at = "copy" /\ worker'[w].plan = worker[w].plan
              /\ Complete(file["audio"]) /\ fullWav' = file["audio"]
<1> USE DEF PInv, IInv, TypeOK
<1> DEFINE Stays == worker' = worker /\ fullWav' = fullWav
<1>1. ASSUME NEW t \in Tabs, PageStep(t) \/ HandlerStep(t)
      PROVE  Stays \/ (AfterUpsert /\ fullWav' = fullWav)
  BY <1>1 DEF PageStep, Record, DeleteTakes, UploadFails, ReceiveChunk, HandlerStep, UpsertTake,
     UpsertFails, EnterLoad, EnterCount, EnterRecording, EnterFails, TriggerEntered, Trigger,
     AnswerLost, RemoveFiles, store
<1>2. CASE AfterUpsert /\ fullWav' = fullWav
  <2>1. PICK v \in Workers : GoTo(v, "start")
    BY <1>2 DEF AfterUpsert
  <2>2. Effect(v, "start")
    BY <2>1, GoesTo DEF Effect, Pc
  <2> QED
    BY <1>2, <2>2 DEF Effect
<1>3. ASSUME NEW v \in Workers, WorkerStep(v)
      PROVE  \/ \E at \in Pc \ {"copy", "manifest"} : GoTo(v, at) /\ fullWav' = fullWav
             \/ \E at \in Pc \ {"copy", "manifest"}, seg \in 1 .. Segments + 1 : AtSegment(v, at, seg) /\ fullWav' = fullWav
             \/ ConcatList(v) \/ ConcatWavs(v)
  <2> USE SegmentsAssumption
  <2>1. worker[v].seg \in 1 .. Segments + 1
    BY DEF WorkerState
  <2>2. CASE ConcatRun(v) \/ ConcatLoad(v) \/ WriteManifest(v) \/ ConcatAdvance(v) \/ ConcatFail(v)
          \/ ConcatLeave(v) \/ AllBuilt(v) \/ TimelineAdvance(v) \/ TimelineBlock(v)
          \/ DiskFails(v) \/ TimelineCutShort(v) \/ QueryFails(v)
    BY <2>2 DEF ConcatRun, ConcatLoad, WriteManifest, ConcatAdvance, ConcatFail, ConcatLeave,
       AllBuilt, TimelineAdvance, TimelineBlock, DiskFails, TimelineCutShort, QueryFails, store,
       Pc, ConcatPc, TimelinePc
  <2>3. CASE TimelineLoad(v)
    <3>1. 1 \in 1 .. Segments + 1
      OBVIOUS
    <3> QED
      BY <2>3, <3>1 DEF TimelineLoad, store, Pc, ConcatPc, TimelinePc
  <2>4. CASE SkipSegment(v)
    <3>1. worker[v].seg + 1 \in 1 .. Segments + 1
      BY <2>1, <2>4 DEF SkipSegment, Segment
    <3> QED
      BY <2>4, <3>1 DEF SkipSegment, store, Pc, ConcatPc, TimelinePc
  <2>5. CASE BuildSegment(v)
    BY <2>1, <2>5 DEF BuildSegment, Pc, ConcatPc, TimelinePc
  <2>6. CASE WriteTimeline(v)
    <3>1. worker[v].seg + 1 \in 1 .. Segments + 1
      BY <2>1, <2>6 DEF WriteTimeline, Progress, Behind, Segment
    <3> QED
      BY <2>6, <3>1 DEF WriteTimeline, Pc, ConcatPc, TimelinePc
  <2> QED
    BY <1>3, <2>2, <2>3, <2>4, <2>5, <2>6 DEF WorkerStep
<1>4. ASSUME NEW v \in Workers, NEW at \in Pc \ {"copy", "manifest"}, Effect(v, at), fullWav' = fullWav
      PROVE  worker'[w] = worker[w] /\ fullWav' = fullWav
  BY <1>4 DEF Effect
<1>5. ASSUME NEW v \in Workers, WorkerStep(v), ~ConcatList(v), ~ConcatWavs(v)
      PROVE  worker'[w] = worker[w] /\ fullWav' = fullWav
  <2>1. ASSUME NEW at \in Pc \ {"copy", "manifest"}, GoTo(v, at)
        PROVE  Effect(v, at)
    BY <2>1, GoesTo DEF Effect
  <2>2. ASSUME NEW at \in Pc \ {"copy", "manifest"}, NEW seg \in 1 .. Segments + 1, AtSegment(v, at, seg)
        PROVE  Effect(v, at)
    BY <2>2, GoesToSegment DEF Effect
  <2> QED
    BY <1>3, <1>4, <1>5, <2>1, <2>2
<1>6. ASSUME NEW v \in Workers, ConcatList(v)
      PROVE  \/ worker'[w] = worker[w] /\ fullWav' = fullWav
             \/ worker'[w].at = "copy" /\ worker'[w].plan = take["audio"]
  <2>1. take["audio"] \in [Segment -> Version]
    BY DEF Kind
  <2>2. \/ Effect(v, "copy") /\ worker'[v].plan = take["audio"]
        \/ Effect(v, "leave")
    BY <1>6, <2>1, GoesTo, GoesWithPlan DEF ConcatList, Effect, Pc, ConcatPc
  <2> QED
    BY <1>6, <2>2 DEF ConcatList, Effect, store
<1>7. ASSUME NEW v \in Workers, ConcatWavs(v)
      PROVE  \/ worker'[w] = worker[w] /\ fullWav' = fullWav
             \/ w # v /\ worker'[w] = worker[w] /\ worker[v].at = "copy"
             \/ /\ worker[w].at = "copy" /\ worker'[w].plan = worker[w].plan
                /\ Complete(file["audio"]) /\ fullWav' = file["audio"]
  <2>1. worker[v].plan \in [Segment -> Version]
    BY DEF WorkerState
  <2>2. \/ /\ Effect(v, "manifest") /\ worker'[v].plan = worker[v].plan
           /\ Complete(file["audio"]) /\ fullWav' = file["audio"]
        \/ Effect(v, "fail") /\ fullWav' = fullWav
    BY <1>7, <2>1, GoesTo, GoesWithPlan DEF ConcatWavs, Effect, Pc, ConcatPc
  <2> QED
    BY <1>7, <2>2 DEF ConcatWavs, Effect
<1>8. ASSUME NEW v \in Workers, w # v, worker'[w] = worker[w], worker[v].at = "copy"
      PROVE  worker[w].at # "manifest"
  BY <1>8 DEF InFlight, OneConcat, ConcatPc
<1>9. CASE Restart
  BY <1>9 DEF Restart, Resting
<1>10. CASE MoveOn \/ UNCHANGED vars
  BY <1>10 DEF MoveOn, vars, store
<1> QED
  BY <1>1, <1>2, <1>5, <1>6, <1>7, <1>8, <1>9, <1>10 DEF Next

\* full.wav and the manifest are written one after the other.
LEMMA PublishStep ==
    ASSUME PInv, [Next]_vars
    PROVE  \/ fullWav' = fullWav /\ manifest' = manifest
           \/ Complete(file["audio"]) /\ fullWav' = file["audio"] /\ manifest' = manifest
           \/ /\ fullWav' = fullWav
              /\ \E w \in Workers : worker[w].at = "manifest" /\ manifest' = worker[w].plan
<1>1. ASSUME NEW t \in Tabs, PageStep(t) \/ HandlerStep(t)
      PROVE  fullWav' = fullWav /\ manifest' = manifest
  BY <1>1 DEF PageStep, Record, DeleteTakes, UploadFails, ReceiveChunk, HandlerStep, UpsertTake,
     UpsertFails, EnterLoad, EnterCount, EnterRecording, EnterFails, TriggerEntered, Trigger,
     AnswerLost, RemoveFiles, store
<1>2. ASSUME NEW w \in Workers, WorkerStep(w), ~ConcatWavs(w), ~WriteManifest(w)
      PROVE  fullWav' = fullWav /\ manifest' = manifest
  BY <1>2 DEF WorkerStep, ConcatRun, ConcatLoad, ConcatList, ConcatAdvance,
   ConcatFail, ConcatLeave, TimelineLoad, SkipSegment, BuildSegment, WriteTimeline, AllBuilt,
   TimelineAdvance, TimelineBlock, DiskFails, TimelineCutShort, QueryFails, store
<1>3. ASSUME NEW w \in Workers, ConcatWavs(w) \/ WriteManifest(w)
      PROVE  \/ fullWav' = fullWav /\ manifest' = manifest
             \/ Complete(file["audio"]) /\ fullWav' = file["audio"] /\ manifest' = manifest
             \/ fullWav' = fullWav /\ worker[w].at = "manifest" /\ manifest' = worker[w].plan
  BY <1>3 DEF ConcatWavs, WriteManifest
<1>4. CASE Restart \/ MoveOn \/ UNCHANGED vars
  BY <1>4 DEF Restart, MoveOn, vars, store
<1> QED
  BY <1>1, <1>2, <1>3, <1>4 DEF Next

-----------------------------------------------------------------------------
(* The page and its rows *)

Rows == TakeHasFile /\ \A t \in Tabs : PageAgrees(t)

\* A request that goes on without touching rows or files.
LEMMA RequestMoves ==
    ASSUME PInv, OnePage, NEW t \in Tabs, tab[t].req \notin {"none", "unlink"},
           UNCHANGED <<recorded, made>>,
           \/ \E req \in {"load", "count", "enter", "entered", "trigger"} : Serve(t, req)
           \/ \E at \in Kind \cup {"idle"} : Answer(t, at)
    PROVE  Rows'
<1> USE DEF PInv, IInv, TypeOK
<1>1. TakeHasFile'
  BY DEF TakeHasFile, recorded
<1>2. tab[t].at \in Kind /\ tab[t].rec = made
  BY DEF PageAgrees
<1>3. PageAgrees(t)'
  <2>1. ASSUME NEW req \in {"load", "count", "enter", "entered", "trigger"}, Serve(t, req)
        PROVE  PageAgrees(t)'
    BY <1>2, <2>1 DEF Serve, PageAgrees, TabState
  <2>2. ASSUME NEW at \in Kind \cup {"idle"}, Answer(t, at)
        PROVE  PageAgrees(t)'
    <3>1. CASE at = "idle"
      BY <2>2, <3>1 DEF Answer, Idle, PageAgrees, Kind
    <3>2. CASE at # "idle"
      <4>1. /\ tab'[t].at = at /\ tab'[t].rec = tab[t].rec /\ tab'[t].req = "none"
        BY <2>2, <3>2 DEF Answer, TabState
      <4> QED
        BY <1>2, <4>1 DEF PageAgrees
    <3> QED
      BY <3>1, <3>2
  <2> QED
    BY <2>1, <2>2
<1> QED
  BY <1>1, <1>3 DEF Rows, OnePage

LEMMA PageKeepsRows ==
    ASSUME PInv, OnePage, NEW t \in Tabs, PageStep(t)
    PROVE  Rows'
<1> USE DEF PInv, IInv, TypeOK
<1>1. ASSUME NEW s \in Segment, Record(t, s)
      PROVE  Rows'
  <2>1. PageAgrees(t)'
    BY <1>1 DEF Record, PageAgrees, TabState
  <2> QED
    BY <1>1, <2>1 DEF Record, Rows, OnePage, TakeHasFile, recorded
<1>2. ASSUME NEW s \in Segment, DeleteTakes(t, s)
      PROVE  Rows'
  <2>1. /\ tab'[t].at = "idle" /\ tab'[t].seg = s /\ tab'[t].req = "unlink"
        /\ \A k \in Kind : take'[k][s] = 0
    BY <1>2 DEF DeleteTakes, Quiet, Idle, TabState
  <2>2. PageAgrees(t)'
    BY <2>1 DEF PageAgrees, Kind
  <2>3. \A k \in Kind, z \in Segment : take'[k][z] \in {take[k][z], 0} /\ file'[k][z] = file[k][z]
    BY <1>2 DEF DeleteTakes
  <2>4. TakeHasFile'
    BY <2>3, Numbers DEF TakeHasFile
  <2> QED
    BY <2>2, <2>4 DEF Rows, OnePage
<1>3. CASE UploadFails(t)
  <2>1. PageAgrees(t)'
    BY <1>3 DEF UploadFails, Answer, Idle, PageAgrees, Kind
  <2> QED
    BY <1>3, <2>1 DEF UploadFails, Rows, OnePage, TakeHasFile, recorded
<1>4. CASE ReceiveChunk(t)
  <2>1. tab[t].at \in Kind /\ tab[t].rec = made /\ tab[t].seg \in Segment
    BY <1>4, Numbers DEF ReceiveChunk, PageAgrees
  <2>2. /\ tab'[t].at = tab[t].at /\ tab'[t].seg = tab[t].seg /\ tab'[t].rec = tab[t].rec
        /\ tab'[t].req = "upsert"
    BY <1>4 DEF ReceiveChunk, Serve, TabState
  <2>3. file'[tab[t].at][tab[t].seg] = made
    BY <1>4, <2>1 DEF ReceiveChunk
  <2>4. PageAgrees(t)'
    BY <1>4, <2>1, <2>2, <2>3 DEF ReceiveChunk, PageAgrees
  <2>5. \A k \in Kind, z \in Segment :
            take'[k][z] = take[k][z] /\ file'[k][z] \in {file[k][z], made}
    BY <1>4, <2>1 DEF ReceiveChunk
  <2>6. \A k \in Kind, z \in Segment : take[k][z] <= file[k][z] /\ file[k][z] <= made
    BY DEF TakeHasFile, FilesAreRecorded
  <2>7. TakeHasFile'
    BY <2>5, <2>6, Numbers DEF TakeHasFile
  <2> QED
    BY <2>4, <2>7 DEF Rows, OnePage
<1> QED
  BY <1>1, <1>2, <1>3, <1>4 DEF PageStep

LEMMA HandlerKeepsRows ==
    ASSUME PInv, OnePage, NEW t \in Tabs, HandlerStep(t)
    PROVE  Rows'
<1> USE DEF PInv, IInv, TypeOK
<1>1. CASE UpsertTake(t)
  <2>1. /\ tab[t].at \in Kind /\ tab[t].seg \in Segment /\ tab[t].rec = made
        /\ file[tab[t].at][tab[t].seg] = tab[t].rec
    BY <1>1, Numbers DEF UpsertTake, Reached, PageAgrees
  <2>2. PageAgrees(t)'
    BY <1>1, <2>1 DEF UpsertTake, Serve, PageAgrees, TabState
  <2>3. ASSUME NEW k \in Kind, NEW z \in Segment
        PROVE  take'[k][z] <= file'[k][z]
    <3>1. CASE k = tab[t].at /\ z = tab[t].seg
      BY <1>1, <2>1, <3>1, Numbers DEF UpsertTake
    <3>2. CASE ~(k = tab[t].at /\ z = tab[t].seg)
      BY <1>1, <3>2 DEF UpsertTake, TakeHasFile
    <3> QED
      BY <3>1, <3>2
  <2> QED
    BY <2>2, <2>3 DEF Rows, OnePage, TakeHasFile
<1>2. CASE RemoveFiles(t)
  <2>1. tab[t].seg \in Segment /\ \A k \in Kind : take[k][tab[t].seg] = 0
    BY <1>2, Numbers DEF RemoveFiles, Reached, PageAgrees
  <2>2. PageAgrees(t)'
    BY <1>2 DEF RemoveFiles, Answer, Idle, PageAgrees, Kind
  <2>3. ASSUME NEW k \in Kind, NEW z \in Segment
        PROVE  take'[k][z] <= file'[k][z]
    <3>1. CASE z = tab[t].seg
      BY <1>2, <2>1, <3>1 DEF RemoveFiles
    <3>2. CASE z # tab[t].seg
      BY <1>2, <3>2 DEF RemoveFiles, TakeHasFile
    <3> QED
      BY <3>1, <3>2
  <2> QED
    BY <2>2, <2>3 DEF Rows, OnePage, TakeHasFile
<1>3. CASE EnterLoad(t) \/ EnterCount(t) \/ EnterRecording(t) \/ EnterFails(t) \/ TriggerEntered(t)
  <2>1. tab[t].req \notin {"none", "unlink"} /\ UNCHANGED <<recorded, made>>
    BY <1>3 DEF EnterLoad, EnterCount, EnterRecording, EnterFails, TriggerEntered, Reached
  <2>2. \E req \in {"load", "count", "enter", "entered", "trigger"} : Serve(t, req)
    BY <1>3 DEF EnterLoad, EnterCount, EnterRecording, EnterFails, TriggerEntered
  <2> QED
    BY <2>1, <2>2, RequestMoves
<1>4. CASE UpsertFails(t) \/ Trigger(t) \/ AnswerLost(t)
  <2>1. tab[t].req \notin {"none", "unlink"} /\ UNCHANGED <<recorded, made>>
    BY <1>4 DEF UpsertFails, Trigger, AnswerLost, Reached
  <2>2. \E at \in Kind \cup {"idle"} : Answer(t, at)
    BY <1>4 DEF UpsertFails, Trigger, AnswerLost, AfterFailure, NextUpload, TabState, Kind
  <2> QED
    BY <2>1, <2>2, RequestMoves
<1> QED
  BY <1>1, <1>2, <1>3, <1>4 DEF HandlerStep

LEMMA RowsStep ==
    ASSUME PInv, OnePage, [Next]_vars
    PROVE  Rows'
<1> USE DEF PInv, IInv, TypeOK
<1>1. ASSUME UNCHANGED <<recorded, tab, made>>
      PROVE  Rows'
  BY <1>1 DEF Rows, TakeHasFile, PageAgrees, recorded
<1>2. ASSUME NEW w \in Workers, WorkerStep(w)
      PROVE  Rows'
  BY <1>1, <1>2, WorkerTouchesNoTake
<1>3. CASE Restart
  BY <1>3 DEF Restart, Idle, Rows, TakeHasFile, PageAgrees, Kind, recorded
<1>4. CASE MoveOn \/ UNCHANGED vars
  BY <1>1, <1>4 DEF MoveOn, vars, recorded
<1> QED
  BY <1>2, <1>3, <1>4, PageKeepsRows, HandlerKeepsRows DEF Next

-----------------------------------------------------------------------------
(* What is listed, and what is written *)

\* What was listed still fits, whatever becomes of the files.
StillFits(listed) ==
    \A s \in Segment :
        /\ listed[s] <= made'
        /\ file'["audio"][s] = 0 \/ listed[s] <= file'["audio"][s]

LEMMA FitsStays ==
    ASSUME PInv, [Next]_vars, NEW listed, Fits(listed), \A s \in Segment : listed[s] \in Nat
    PROVE  StillFits(listed)
<1> SUFFICES ASSUME NEW s \in Segment
             PROVE  listed[s] <= made' /\ (file'["audio"][s] = 0 \/ listed[s] <= file'["audio"][s])
  BY DEF StillFits
<1>1. made \in Nat /\ made' \in Nat /\ made <= made' /\ file'["audio"][s] \in {file["audio"][s], 0, made'}
  BY FileStep, Numbers DEF Kind, PInv, IInv
<1>2. listed[s] \in Nat /\ listed[s] <= made /\ (file["audio"][s] = 0 \/ listed[s] <= file["audio"][s])
  BY DEF Fits
<1>3. listed[s] <= made'
  BY <1>1, <1>2
<1> QED
  BY <1>1, <1>2, <1>3

LEMMA InitPInv == Init => PInv
<1> SUFFICES ASSUME Init
             PROVE  PInv
  OBVIOUS
<1>1. IInv
  BY InitIInv
<1>2. TakeHasFile /\ FilesAreRecorded /\ Fits(manifest) /\ ManifestNotAhead
  BY DEF Init, TakeHasFile, FilesAreRecorded, Fits, ManifestNotAhead, Nothing, Kind
<1>3. \A t \in Tabs : PageAgrees(t)
  BY DEF Init, PageAgrees, Idle, Kind
<1>4. \A w \in Workers : PlanAgrees(w)
  BY DEF Init, PlanAgrees, Resting
<1> QED
  BY <1>1, <1>2, <1>3, <1>4 DEF PInv

LEMMA NextPInv ==
    ASSUME OnePage
    PROVE  PInv /\ [Next]_vars => PInv'
<1> SUFFICES ASSUME PInv, [Next]_vars
             PROVE  PInv'
  OBVIOUS
<1>1. IInv'
  BY StepIInv DEF PInv
<1>2. TypeOK /\ TypeOK'
  BY <1>1 DEF PInv, IInv
<1>3. Rows'
  BY RowsStep
<1>4. FilesAreRecorded'
  <2> SUFFICES ASSUME NEW k \in Kind, NEW s \in Segment
               PROVE  file'[k][s] <= made'
    BY DEF FilesAreRecorded
  <2>1. file[k][s] <= made /\ file[k][s] \in Nat /\ made \in Nat
    BY <1>2, Numbers DEF PInv, FilesAreRecorded
  <2> QED
    BY <2>1, FileStep
<1>5. Fits(take["audio"]) /\ \A s \in Segment : take["audio"][s] \in Nat
  <2> SUFFICES ASSUME NEW s \in Segment
               PROVE  /\ take["audio"][s] \in Nat
                      /\ take["audio"][s] <= made
                      /\ take["audio"][s] <= file["audio"][s]
    BY DEF Fits
  <2>1. take["audio"][s] \in Nat /\ file["audio"][s] \in Nat /\ made \in Nat
    BY <1>2, Numbers DEF Kind
  <2>2. take["audio"][s] <= file["audio"][s] /\ file["audio"][s] <= made
    BY DEF PInv, TakeHasFile, FilesAreRecorded, Kind
  <2> QED
    BY <2>1, <2>2
<1>6. Fits(manifest)'
  <2>1. CASE manifest' = manifest
    <3>1. StillFits(manifest)
      BY <1>2, Numbers, FitsStays DEF PInv
    <3> QED
      BY <2>1, <3>1 DEF StillFits, Fits
  <2>2. ASSUME NEW w \in Workers, worker[w].at = "manifest", manifest' = worker[w].plan
        PROVE  Fits(manifest)'
    <3>1. Fits(worker[w].plan)
      BY <2>2 DEF PInv, PlanAgrees
    <3>2. StillFits(worker[w].plan)
      BY <3>1, <1>2, Numbers, FitsStays
    <3> QED
      BY <2>2, <3>2 DEF StillFits, Fits
  <2> QED
    BY <2>1, <2>2, PublishStep
<1>7. ManifestNotAhead'
  <2>1. CASE fullWav' = fullWav /\ manifest' = manifest
    BY <2>1 DEF PInv, ManifestNotAhead
  <2>2. CASE Complete(file["audio"]) /\ fullWav' = file["audio"] /\ manifest' = manifest
    BY <2>2 DEF PInv, ManifestNotAhead, Fits, Complete
  <2>3. ASSUME NEW w \in Workers, fullWav' = fullWav, worker[w].at = "manifest", manifest' = worker[w].plan
        PROVE  ManifestNotAhead'
    BY <2>3 DEF PInv, ManifestNotAhead, PlanAgrees
  <2> QED
    BY <2>1, <2>2, <2>3, PublishStep
<1>8. ASSUME NEW w \in Workers
      PROVE  PlanAgrees(w)'
  <2> SUFFICES ASSUME worker'[w].at \in {"copy", "manifest"}
               PROVE  PlanAgrees(w)'
    BY DEF PlanAgrees
  <2>1. CASE worker'[w].at = "copy" /\ worker'[w].plan = take["audio"]
    <3>1. StillFits(take["audio"])
      BY <1>5, FitsStays
    <3> QED
      BY <2>1, <3>1 DEF PlanAgrees, StillFits, Fits
  <2>2. ASSUME worker[w].at \in {"copy", "manifest"}, worker'[w].plan = worker[w].plan
        PROVE  Fits(worker[w].plan) /\ StillFits(worker'[w].plan)
    <3>1. Fits(worker[w].plan)
      BY <2>2 DEF PInv, PlanAgrees
    <3> QED
      BY <2>2, <3>1, <1>2, Numbers, FitsStays
  <2>3. CASE /\ worker'[w].at = worker[w].at /\ worker'[w].plan = worker[w].plan
             /\ worker[w].at = "manifest" => fullWav' = fullWav
    BY <2>2, <2>3 DEF PInv, PlanAgrees, StillFits, Fits
  <2>4. CASE /\ worker[w].at = "copy" /\ worker'[w].plan = worker[w].plan
             /\ Complete(file["audio"]) /\ fullWav' = file["audio"]
    <3>1. Fits(worker[w].plan) /\ StillFits(worker'[w].plan)
      BY <2>2, <2>4
    <3>2. \A s \in Segment : worker'[w].plan[s] <= fullWav'[s]
      BY <2>4, <3>1 DEF Fits, Complete
    <3> QED
      BY <3>1, <3>2 DEF PlanAgrees, StillFits, Fits
  <2> QED
    BY <2>1, <2>3, <2>4, WavStep
<1> QED
  BY <1>1, <1>3, <1>4, <1>6, <1>7, <1>8 DEF PInv, Rows

-----------------------------------------------------------------------------
(* The theorems *)

\* The inductive invariant of a recording by one page.
THEOREM PageInvariant ==
    ASSUME OnePage
    PROVE  Spec => []PInv
BY InitPInv, NextPInv, PTL DEF Spec

\* A row of takes has its file, and one at least as new: the handler renames the file before it
\* writes the row, and deletes the row before the file (internal/upload/upload.go).  With one
\* page, whatever is deleted, sent again, lost or cut short.
THEOREM TakesHaveFiles ==
    ASSUME OnePage
    PROVE  Spec => []TakeHasFile
<1>1. PInv => TakeHasFile
  BY DEF PInv
<1> QED
  BY <1>1, PageInvariant, PTL

\* The manifest names no take newer than full.wav holds, although the takes are listed
\* before the files are copied and both may change in between.
THEOREM ManifestStaysBehind ==
    ASSUME OnePage
    PROVE  Spec => []ManifestNotAhead
<1>1. PInv => ManifestNotAhead
  BY DEF PInv
<1> QED
  BY <1>1, PageInvariant, PTL
=============================================================================
