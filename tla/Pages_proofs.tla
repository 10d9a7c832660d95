---------------------------- MODULE Pages_proofs ----------------------------
(***************************************************************************)
(* Proofs about pages of the frontend that work on their own: the preview   *)
(* of a take (SegmentAssets), the draft of a script (ScriptDraft), the      *)
(* capture of takes (Capture) and their resumable upload (TakeUpload), for  *)
(* any number of segments, readings, edits, takes, messages under way and   *)
(* failures; of the upload also for any recordings, chunk size and slots.   *)
(***************************************************************************)
EXTENDS TakeUpload, SegmentAssets, ScriptDraft, Capture,
        SequenceTheorems, WellFoundedInduction, TLAPS

-----------------------------------------------------------------------------
(* The least and the greatest of some numbers *)

LEMMA LeastOf ==
    ASSUME NEW T, T \subseteq Nat, T # {}
    PROVE  \E n \in T : \A m \in T : n <= m
<1> DEFINE Less == {ss \in Nat \X Nat : ss[1] < ss[2]}
<1>1. IsWellFoundedOn(Less, Nat)
  BY NatLessThanWellFounded DEF OpToRel
<1>2. PICK n \in T : \A m \in T : ~(<<m, n>> \in Less)
  <2> HIDE DEF Less
  <2> QED
    BY <1>1, WFMin
<1>3. \A m \in T : ~(m < n)
  BY <1>2
<1> QED
  BY <1>3

LEMMA GreatestOf ==
    ASSUME NEW N \in Nat, NEW T, T \subseteq 1 .. N, T # {}
    PROVE  \E n \in T : \A m \in T : m <= n
<1> DEFINE Gaps == {N - n : n \in T}
<1>1. Gaps \subseteq Nat /\ Gaps # {}
  <2>1. \A n \in T : N - n \in Nat
    OBVIOUS
  <2> QED
    BY <2>1
<1>2. PICK g \in Gaps : \A h \in Gaps : g <= h
  <2> HIDE DEF Gaps
  <2> QED
    BY <1>1, LeastOf
<1>3. PICK n \in T : g = N - n
  BY <1>2
<1>4. \A m \in T : N - n <= N - m
  BY <1>2, <1>3
<1> QED
  BY <1>3, <1>4

-----------------------------------------------------------------------------
(* The preview of a take *)

Take == 0 .. 1 + MaxRetakes
TakeFile == [segment : 0 .. NumSegments, take : Take, revoked : BOOLEAN]
Reading ==
    [segment : 1 .. NumSegments, at : {"wav", "timeline", "end"}, wav : TakeFile, timeline : TakeFile,
     cancelled : BOOLEAN]

\* The number of the take that was recorded last, of any segment.
Newest == 1 + MaxRetakes - retakes

AssetsTypeOK ==
    /\ stored \in [1 .. NumSegments -> [wav : Take, timeline : Take]]
    /\ listed \subseteq 1 .. NumSegments
    /\ picked \in 0 .. NumSegments
    /\ assets \in [segment : 0 .. NumSegments, wav : TakeFile, timeline : TakeFile, loading : BOOLEAN,
                   since : Take]
    /\ reading \subseteq Reading
    /\ retakes \in 0 .. MaxRetakes

\* A file read for the segment the hook has turned to.
Holds(file) == ~file.revoked /\ file.segment = assets.segment /\ file.take >= assets.since
Heeds(wav, timeline) ==
    /\ wav # NoFile => Holds(wav)
    /\ timeline # NoFile => timeline.segment = assets.segment

\* What is on the server of that segment is none, or no older than when the hook turned to it.
TakesGrow ==
    /\ \A s \in 1 .. NumSegments : stored[s].wav <= Newest
    /\ assets.since <= Newest
    /\ assets.segment # NoPick =>
           stored[assets.segment].wav = Missing \/ stored[assets.segment].wav >= assets.since

\* One reading at most goes on that will be taken, and it is for that segment.
OneReading ==
    /\ \A r \in reading : ~r.cancelled =>
           /\ r.segment = assets.segment /\ Heeds(r.wav, r.timeline)
           /\ \A q \in reading : q.cancelled \/ q = r
    /\ assets.loading <=> \E r \in reading : ~r.cancelled
    /\ \A r \in reading : r.cancelled => r.at = "end"
    /\ ~assets.loading => Heeds(assets.wav, assets.timeline)

AssetsInv == AssetsTypeOK /\ TakesGrow /\ OneReading

LEMMA ActiveIs ==
    ASSUME AssetsTypeOK
    PROVE  Active \in 0 .. NumSegments
<1>1. CASE picked # NoPick \/ listed = {}
  BY <1>1, AssetsAssumption DEF AssetsTypeOK, Active, NoPick
<1>2. CASE picked = NoPick /\ listed # {}
  <2>1. listed \subseteq Nat
    BY DEF AssetsTypeOK
  <2>2. \E n \in listed : \A m \in listed : n <= m
    BY <1>2, <2>1, LeastOf
  <2>3. Min(listed) \in listed
    BY <2>2 DEF Min
  <2>4. NumSegments \in Nat /\ Min(listed) \in 1 .. NumSegments
    BY <2>3, AssetsAssumption DEF AssetsTypeOK
  <2>5. Active = Min(listed)
    BY <1>2 DEF Active
  <2> HIDE DEF Min
  <2> QED
    BY <2>4, <2>5
<1> QED
  BY <1>1, <1>2

LEMMA FilesAre ==
    /\ NoFile \in TakeFile
    /\ \A file \in TakeFile : Revoked(file) \in TakeFile
    /\ \A s \in 1 .. NumSegments, take \in Take :
           /\ Found(s, take) \in TakeFile
           /\ Found(s, take) # NoFile =>
                  /\ ~Found(s, take).revoked /\ Found(s, take).segment = s
                  /\ Found(s, take).take = take /\ take # Missing
<1> USE AssetsAssumption DEF TakeFile, Take, NoFile, NoPick, Missing
<1>1. NoFile \in TakeFile
  OBVIOUS
<1>2. \A file \in TakeFile : Revoked(file) \in TakeFile
  BY DEF Revoked
<1>3. ASSUME NEW s \in 1 .. NumSegments, NEW take \in Take
      PROVE  /\ Found(s, take) \in TakeFile
             /\ Found(s, take) # NoFile =>
                    /\ ~Found(s, take).revoked /\ Found(s, take).segment = s
                    /\ Found(s, take).take = take /\ take # Missing
  <2>1. CASE take = Missing
    BY <1>1, <2>1 DEF Found
  <2>2. CASE take # Missing
    <3>1. Found(s, take) = [segment |-> s, take |-> take, revoked |-> FALSE]
      BY <2>2 DEF Found
    <3>2. s \in 0 .. NumSegments
      OBVIOUS
    <3> QED
      BY <2>2, <3>1, <3>2
  <2> QED
    BY <2>1, <2>2
<1> QED
  BY <1>1, <1>2, <1>3

LEMMA UseSegmentStep ==
    ASSUME AssetsInv, UseSegment
    PROVE  AssetsInv'
<1> USE DEF AssetsInv
<1> DEFINE Cut(r) == [r EXCEPT !.at = "end", !.cancelled = TRUE, !.wav = Revoked(@)]
           new == [segment |-> Active, at |-> "wav", wav |-> NoFile, timeline |-> NoFile,
                   cancelled |-> FALSE]
<1>1. UNCHANGED <<stored, listed, picked, retakes>> /\ Active \in 0 .. NumSegments
  BY ActiveIs DEF UseSegment
<1>2. \A r \in reading : Cut(r) \in Reading /\ Cut(r).cancelled /\ Cut(r).at = "end"
  <2>1. \A r \in reading : r \in Reading /\ Revoked(r.wav) \in TakeFile
    BY FilesAre DEF AssetsTypeOK, Reading
  <2> QED
    BY <2>1 DEF Reading
<1>3. reading' = {Cut(r) : r \in reading} \cup (IF Active = NoPick THEN {} ELSE {new})
  <2>1. {[segment |-> s, at |-> "wav", wav |-> NoFile, timeline |-> NoFile,
          cancelled |-> FALSE] : s \in {Active} \ {NoPick}}
            = IF Active = NoPick THEN {} ELSE {new}
    OBVIOUS
  <2> QED
    BY <2>1 DEF UseSegment
<1>4. CASE Active = NoPick
  <2>1. assets' = NoAssets /\ \A r \in reading' : r \in Reading /\ r.cancelled /\ r.at = "end"
    <3> HIDE DEF Cut
    <3> QED
      BY <1>2, <1>3, <1>4 DEF UseSegment
  <2>2. AssetsTypeOK'
    BY <1>1, <2>1, FilesAre, AssetsAssumption DEF AssetsTypeOK, NoAssets, Take, NoPick, Missing
  <2>3. TakesGrow'
    BY <1>1, <2>1, AssetsAssumption DEF TakesGrow, AssetsTypeOK, NoAssets, Newest, Missing, Take
  <2>4. OneReading'
    BY <2>1 DEF OneReading, NoAssets, Heeds
  <2> QED
    BY <2>2, <2>3, <2>4
<1>5. CASE Active # NoPick
  <2>1. Active \in 1 .. NumSegments
    BY <1>1, <1>5 DEF NoPick
  <2>2. assets' = [assets EXCEPT !.segment = Active, !.loading = TRUE,
                                 !.wav = Revoked(@), !.since = stored[Active].wav]
    BY <1>5 DEF UseSegment
  <2>3. new \in Reading /\ ~new.cancelled /\ new.wav = NoFile /\ new.timeline = NoFile
    BY <2>1, FilesAre DEF Reading
  <2>4. \A r \in reading' : r \in Reading /\ (r = new \/ (r.cancelled /\ r.at = "end"))
    <3> HIDE DEF Cut, new
    <3> QED
      BY <1>2, <1>3, <2>3
  <2>5. /\ assets'.segment = Active /\ assets'.loading /\ assets'.since = stored[Active].wav
        /\ assets' \in [segment : 0 .. NumSegments, wav : TakeFile, timeline : TakeFile,
                        loading : BOOLEAN, since : Take]
    BY <1>1, <2>1, <2>2, FilesAre DEF AssetsTypeOK
  <2>6. AssetsTypeOK'
    BY <1>1, <2>4, <2>5 DEF AssetsTypeOK
  <2>7. TakesGrow'
    <3>1. stored[Active].wav \in Take /\ stored[Active].wav <= Newest
      BY <2>1 DEF TakesGrow, AssetsTypeOK
    <3> QED
      BY <1>1, <2>5, <3>1 DEF TakesGrow, Newest, Take
  <2>8. OneReading'
    <3>1. new \in reading'
      BY <1>3, <1>5
    <3>2. \A r \in reading' : ~r.cancelled => r = new
      <4> HIDE DEF new
      <4> QED
        BY <2>4
    <3>3. new.segment = assets'.segment
      BY <2>5
    <3> HIDE DEF new
    <3> QED
      BY <2>3, <2>4, <2>5, <3>1, <3>2, <3>3 DEF OneReading, Heeds
  <2> QED
    BY <2>6, <2>7, <2>8
<1> QED
  BY <1>4, <1>5

\* A reading that goes on, with what it has read.
LEMMA ReadingStep ==
    ASSUME AssetsInv, NEW r \in reading, FetchWav(r) \/ FetchJsonText(r)
    PROVE  AssetsInv'
<1> USE DEF AssetsInv
<1>1. /\ UNCHANGED <<stored, listed, picked, assets, retakes>>
      /\ r \in Reading /\ ~r.cancelled
      /\ r.segment = assets.segment /\ Heeds(r.wav, r.timeline)
      /\ \A q \in reading : q.cancelled \/ q = r
  BY DEF FetchWav, FetchJsonText, OneReading, AssetsTypeOK
<1>2. /\ stored[r.segment].wav \in Take /\ stored[r.segment].timeline \in Take
      /\ r.segment \in 1 .. NumSegments
  BY <1>1 DEF AssetsTypeOK, Reading
<1> DEFINE wav == Found(r.segment, stored[r.segment].wav)
           timeline == Found(r.segment, stored[r.segment].timeline)
<1>3. /\ wav \in TakeFile /\ timeline \in TakeFile
      /\ timeline # NoFile => timeline.segment = r.segment
      /\ wav # NoFile =>
             ~wav.revoked /\ wav.segment = r.segment /\ wav.take = stored[r.segment].wav
             /\ stored[r.segment].wav # Missing
  BY <1>2, FilesAre
<1>4. wav # NoFile => Holds(wav)
  <2>1. r.segment # NoPick
    BY <1>2 DEF NoPick
  <2> HIDE DEF wav
  <2> QED
    BY <1>1, <1>3, <2>1 DEF Holds, TakesGrow
<1>5. PICK next : /\ Turns(r, next) /\ next \in Reading /\ ~next.cancelled
                  /\ next.segment = r.segment /\ Heeds(next.wav, next.timeline)
  <2> HIDE DEF wav, timeline
  <2>1. CASE FetchWav(r)
    <3>1. \/ Turns(r, [r EXCEPT !.at = "timeline", !.wav = wav])
          \/ Turns(r, [r EXCEPT !.at = "end"])
      BY <2>1 DEF FetchWav, wav
    <3>2. CASE Turns(r, [r EXCEPT !.at = "timeline", !.wav = wav])
      <4> DEFINE n == [r EXCEPT !.at = "timeline", !.wav = wav]
      <4>1. /\ n \in Reading /\ ~n.cancelled /\ n.segment = r.segment /\ n.wav = wav
            /\ n.timeline = r.timeline
        BY <1>1, <1>3 DEF Reading
      <4> HIDE DEF n
      <4> QED
        BY <1>1, <1>4, <3>2, <4>1 DEF Heeds, n
    <3>3. CASE Turns(r, [r EXCEPT !.at = "end"])
      <4> DEFINE n == [r EXCEPT !.at = "end"]
      <4>1. /\ n \in Reading /\ ~n.cancelled /\ n.segment = r.segment /\ n.wav = r.wav
            /\ n.timeline = r.timeline
        BY <1>1 DEF Reading
      <4> QED
        BY <1>1, <3>3, <4>1 DEF Heeds
    <3> QED
      BY <3>1, <3>2, <3>3
  <2>2. CASE FetchJsonText(r)
    <3>1. \/ Turns(r, [r EXCEPT !.at = "end", !.timeline = timeline])
          \/ Turns(r, [r EXCEPT !.at = "end"])
      BY <2>2 DEF FetchJsonText, timeline
    <3>2. CASE Turns(r, [r EXCEPT !.at = "end", !.timeline = timeline])
      <4> DEFINE n == [r EXCEPT !.at = "end", !.timeline = timeline]
      <4>1. /\ n \in Reading /\ ~n.cancelled /\ n.segment = r.segment /\ n.wav = r.wav
            /\ n.timeline = timeline
        BY <1>1, <1>3 DEF Reading
      <4> HIDE DEF n
      <4> QED
        BY <1>1, <1>3, <3>2, <4>1 DEF Heeds, n
    <3>3. CASE Turns(r, [r EXCEPT !.at = "end"])
      <4> DEFINE n == [r EXCEPT !.at = "end"]
      <4>1. /\ n \in Reading /\ ~n.cancelled /\ n.segment = r.segment /\ n.wav = r.wav
            /\ n.timeline = r.timeline
        BY <1>1 DEF Reading
      <4> QED
        BY <1>1, <3>3, <4>1 DEF Heeds
    <3> QED
      BY <3>1, <3>2, <3>3
  <2> QED
    BY <2>1, <2>2
<1>6. reading' = (reading \ {r}) \cup {next}
  BY <1>5 DEF Turns
<1>7. AssetsTypeOK'
  BY <1>1, <1>5, <1>6 DEF AssetsTypeOK
<1>8. TakesGrow'
  BY <1>1 DEF TakesGrow, Newest
<1>9. OneReading'
  <2>1. \A q \in reading \ {r} : q.cancelled
    BY <1>1
  <2>2. assets.loading
    BY <1>1 DEF OneReading
  <2> QED
    BY <1>1, <1>5, <1>6, <2>1, <2>2 DEF OneReading, Heeds, Holds
<1> QED
  BY <1>7, <1>8, <1>9

LEMMA EndsReadingStep ==
    ASSUME AssetsInv, NEW r \in reading, EndsReading(r)
    PROVE  AssetsInv'
<1> USE DEF AssetsInv
<1>1. /\ UNCHANGED <<stored, listed, picked, retakes>>
      /\ reading' = reading \ {r} /\ assets' = Result(r) /\ r \in Reading
  BY DEF EndsReading, AssetsTypeOK
<1>2. CASE r.cancelled
  <2>1. assets' = assets
    BY <1>1, <1>2 DEF Result
  <2> QED
    BY <1>1, <1>2, <2>1 DEF AssetsTypeOK, TakesGrow, Newest, OneReading, Heeds, Holds
<1>3. CASE ~r.cancelled
  <2>1. /\ assets' = [assets EXCEPT !.wav = r.wav, !.timeline = r.timeline, !.loading = FALSE]
        /\ Heeds(r.wav, r.timeline) /\ \A q \in reading \ {r} : q.cancelled
    BY <1>1, <1>3 DEF Result, Kept, OneReading
  <2>2. /\ assets'.segment = assets.segment /\ assets'.since = assets.since
        /\ assets'.wav = r.wav /\ assets'.timeline = r.timeline /\ ~assets'.loading
        /\ assets' \in [segment : 0 .. NumSegments, wav : TakeFile, timeline : TakeFile,
                        loading : BOOLEAN, since : Take]
    BY <1>1, <2>1 DEF AssetsTypeOK, Reading
  <2>3. AssetsTypeOK'
    BY <1>1, <2>2 DEF AssetsTypeOK
  <2>4. TakesGrow'
    BY <1>1, <2>2 DEF TakesGrow, Newest
  <2>5. OneReading'
    BY <1>1, <2>1, <2>2 DEF OneReading, Heeds, Holds
  <2> QED
    BY <2>3, <2>4, <2>5
<1> QED
  BY <1>2, <1>3

LEMMA AssetsStep ==
    ASSUME AssetsInv, [AssetsNext]_assetsVars
    PROVE  AssetsInv'
<1> USE DEF AssetsInv
<1>1. CASE ListTakes
  BY <1>1 DEF ListTakes, AssetsTypeOK, TakesGrow, Newest, OneReading, Heeds, Holds
<1>2. CASE UseSegment
  BY <1>2, UseSegmentStep
<1>3. CASE \E s \in DOMAIN stored : Pick(s)
  BY <1>3 DEF Pick, AssetsTypeOK, TakesGrow, Newest, OneReading, Heeds, Holds
<1>4. ASSUME NEW s \in DOMAIN stored, RecordAgain(s) PROVE AssetsInv'
  <2>1. /\ UNCHANGED <<listed, picked, assets, reading>> /\ retakes' = retakes - 1
        /\ retakes \in 1 .. MaxRetakes /\ retakes' \in 0 .. MaxRetakes
        /\ stored' = [stored EXCEPT ![s].wav = 2 + MaxRetakes - retakes]
    BY <1>4, AssetsAssumption DEF RecordAgain, AssetsTypeOK
  <2>2. 2 + MaxRetakes - retakes \in Take /\ 2 + MaxRetakes - retakes = Newest'
        /\ Newest' = Newest + 1 /\ Newest \in Nat
    BY <2>1, AssetsAssumption DEF Take, Newest
  <2>3. stored' \in [1 .. NumSegments -> [wav : Take, timeline : Take]]
        /\ \A t \in 1 .. NumSegments : stored'[t].wav = IF t = s THEN Newest' ELSE stored[t].wav
    BY <1>4, <2>1, <2>2 DEF AssetsTypeOK
  <2>4. AssetsTypeOK'
    BY <2>1, <2>3 DEF AssetsTypeOK
  <2>5. TakesGrow'
    <3>1. assets.since \in Nat /\ \A t \in 1 .. NumSegments : stored[t].wav \in Nat
      BY AssetsAssumption DEF AssetsTypeOK, Take
    <3>2. assets.segment # NoPick => assets.segment \in 1 .. NumSegments
      BY AssetsAssumption DEF AssetsTypeOK, NoPick
    <3> HIDE DEF Newest
    <3> QED
      BY <2>1, <2>2, <2>3, <3>1, <3>2 DEF TakesGrow
  <2> QED
    BY <2>1, <2>4, <2>5 DEF OneReading, Heeds, Holds
<1>5. ASSUME NEW s \in DOMAIN stored, Discarded(s) PROVE AssetsInv'
  <2>1. /\ UNCHANGED <<listed, picked, assets, reading, retakes>>
        /\ stored' = [stored EXCEPT ![s].wav = Missing]
    BY <1>5 DEF Discarded
  <2>2. /\ stored' \in [1 .. NumSegments -> [wav : Take, timeline : Take]]
        /\ \A t \in 1 .. NumSegments : stored'[t].wav \in {Missing, stored[t].wav}
    <3>1. Missing \in Take
      BY AssetsAssumption DEF Take, Missing
    <3> QED
      BY <1>5, <2>1, <3>1 DEF AssetsTypeOK
  <2>3. TakesGrow'
    <3>1. Newest \in Nat /\ assets.segment \in 0 .. NumSegments
      BY AssetsAssumption DEF Newest, AssetsTypeOK
    <3>2. Missing <= Newest
      BY <3>1 DEF Missing
    <3>3. assets.segment # NoPick => assets.segment \in 1 .. NumSegments
      BY AssetsAssumption DEF AssetsTypeOK, NoPick
    <3> QED
      BY <2>1, <2>2, <3>1, <3>2, <3>3 DEF TakesGrow, Newest
  <2> QED
    BY <2>1, <2>2, <2>3 DEF AssetsTypeOK, OneReading, Heeds, Holds
<1>6. ASSUME NEW s \in DOMAIN stored, BuildTimeline(s) PROVE AssetsInv'
  <2>1. /\ UNCHANGED <<listed, picked, assets, reading, retakes>>
        /\ stored' = [stored EXCEPT ![s].timeline = stored[s].wav]
    BY <1>6 DEF BuildTimeline
  <2>2. /\ stored' \in [1 .. NumSegments -> [wav : Take, timeline : Take]]
        /\ \A t \in 1 .. NumSegments : stored'[t].wav = stored[t].wav
    BY <1>6, <2>1 DEF AssetsTypeOK
  <2>3. assets.segment # NoPick => assets.segment \in 1 .. NumSegments
    BY AssetsAssumption DEF AssetsTypeOK, NoPick
  <2> QED
    BY <2>1, <2>2, <2>3 DEF AssetsTypeOK, TakesGrow, Newest, OneReading, Heeds, Holds
<1>7. CASE UNCHANGED assetsVars
  BY <1>7 DEF assetsVars, AssetsTypeOK, TakesGrow, Newest, OneReading, Heeds, Holds
<1> QED
  BY <1>1, <1>2, <1>3, <1>4, <1>5, <1>6, <1>7, ReadingStep, EndsReadingStep DEF AssetsNext

\* What the voice page plays once the hook has read is the segment the page names: its
\* sound and its timeline, through a URL that holds, no older than the take that was there
\* when the hook turned to it - for any number of segments, of readings that overlap and of
\* takes recorded, discarded and animated meanwhile.
THEOREM PreviewStaysOfSegment ==
    AssetsInit /\ [][AssetsNext]_assetsVars => []PreviewIsOfSegment
<1>1. AssetsInit => AssetsInv
  <2> SUFFICES ASSUME AssetsInit PROVE AssetsInv
    OBVIOUS
  <2>1. AssetsTypeOK
    BY FilesAre, AssetsAssumption
    DEF AssetsInit, AssetsTypeOK, NoAssets, Take, NoPick, Missing
  <2>2. TakesGrow
    BY AssetsAssumption DEF AssetsInit, TakesGrow, NoAssets, Newest, Missing
  <2>3. OneReading
    BY DEF AssetsInit, OneReading, NoAssets, Heeds
  <2> QED
    BY <2>1, <2>2, <2>3 DEF AssetsInv
<1>2. AssetsInv /\ [AssetsNext]_assetsVars => AssetsInv'
  BY AssetsStep
<1>3. AssetsInv => PreviewIsOfSegment
  BY DEF AssetsInv, OneReading, Heeds, Holds, PreviewIsOfSegment, Plays
<1> QED
  BY <1>1, <1>2, <1>3, PTL

-----------------------------------------------------------------------------
(* The draft of a script *)

Short == [id : 0 .. MaxSegments, hook : Text, cta : Text]
Segment == [id : 1 .. MaxSegments, manner : Options, narration : Text, short : Short]

\* A script with the segments and the shorts of the first one, in their order.
Follows(script) ==
    /\ script \in [DOMAIN original -> Segment]
    /\ \A i \in DOMAIN original :
           script[i].id = original[i].id /\ script[i].short.id = original[i].short.id

DistinctIds ==
    \A i, j \in DOMAIN original : original[i].id = original[j].id => i = j

DraftInv ==
    /\ \E n \in 1 .. MaxSegments : DOMAIN original = 1 .. n
    /\ original \in [DOMAIN original -> Segment]
    /\ DistinctIds
    /\ Follows(shown)
    /\ draft # NoDraft => Follows(draft)

LEMMA DraftStarts ==
    ASSUME DraftInit
    PROVE  DraftInv
<1> DEFINE short == {NoShort} \cup [id : 1 .. MaxSegments, hook : {"first"}, cta : {"first"}]
           segment == [id : 1 .. MaxSegments, manner : {"one"}, narration : {"blank", "first"},
                       short : short]
<1>1. /\ original \in UNION {[1 .. n -> segment] : n \in 1 .. MaxSegments}
      /\ ValidateScript(original) /\ shown = original /\ draft = NoDraft
  BY DEF DraftInit, Scripts
<1>2. PICK n \in 1 .. MaxSegments : original \in [1 .. n -> segment]
  BY <1>1
<1>3. segment \subseteq Segment
  <2>1. short \subseteq Short
    BY DraftAssumption DEF Short, Text, NoShort
  <2> HIDE DEF short
  <2> QED
    BY <2>1 DEF Segment, Options, Text
<1>4. DOMAIN original = 1 .. n /\ original \in [1 .. n -> Segment]
  <2> HIDE DEF segment
  <2> QED
    BY <1>2, <1>3
<1>5. DistinctIds
  <2>1. \A i \in 1 .. n : \A j \in 1 .. (i - 1) : original[j].id # original[i].id
    BY <1>1, <1>4 DEF ValidateScript, RelationalRules, Repeated
  <2>2. ASSUME NEW i \in 1 .. n, NEW j \in 1 .. n, original[i].id = original[j].id, i # j
        PROVE  FALSE
    <3>1. j \in 1 .. (i - 1) \/ i \in 1 .. (j - 1)
      BY <2>2
    <3> QED
      BY <2>1, <2>2, <3>1
  <2> QED
    BY <1>4, <2>2 DEF DistinctIds
<1> QED
  BY <1>1, <1>4, <1>5 DEF DraftInv, Follows

\* What is typed into a card stays in the segment of the card, and its short keeps its number.
LEMMA ChangeFollows ==
    ASSUME DraftInv, draft # NoDraft, NEW i \in DOMAIN draft, NEW segment \in Segment,
           segment.id = draft[i].id, segment.short.id = draft[i].short.id,
           Change(i, segment)
    PROVE  DraftInv'
<1>1. /\ UNCHANGED <<original, shown>> /\ Follows(draft) /\ DOMAIN draft = DOMAIN original
      /\ draft' = [j \in DOMAIN draft |-> IF draft[j].id = segment.id THEN segment ELSE draft[j]]
  BY DEF DraftInv, Follows, Change
<1>2. \A j \in DOMAIN original : draft[j].id = segment.id => j = i
  BY <1>1 DEF DraftInv, DistinctIds, Follows
<1>3. draft' \in [DOMAIN original -> Segment]
  BY <1>1 DEF Follows
<1>4. \A j \in DOMAIN original :
          draft'[j].id = original[j].id /\ draft'[j].short.id = original[j].short.id
  <2> TAKE j \in DOMAIN original
  <2>1. CASE j = i
    BY <1>1, <2>1 DEF Follows
  <2>2. CASE j # i
    BY <1>1, <1>2, <2>2 DEF Follows
  <2> QED
    BY <2>1, <2>2
<1> QED
  BY <1>1, <1>3, <1>4 DEF DraftInv, DistinctIds, Follows

LEMMA EditFollows ==
    ASSUME DraftInv, draft # NoDraft, NEW i \in DOMAIN draft, Edit(i)
    PROVE  DraftInv'
<1> DEFINE segment == draft[i]
           OfCard(new) == new \in Segment /\ new.id = segment.id /\ new.short.id = segment.short.id
<1>1. segment \in Segment /\ segment.short \in Short
  BY DEF DraftInv, Follows, Segment
<1>2. \A manner \in Options : OfCard([segment EXCEPT !.manner = manner])
  BY <1>1 DEF Segment
<1>3. \A text \in Text : OfCard([segment EXCEPT !.narration = text])
  BY <1>1 DEF Segment
<1>4. \A text \in Text : /\ OfCard([segment EXCEPT !.short.hook = text])
                         /\ OfCard([segment EXCEPT !.short.cta = text])
  BY <1>1 DEF Segment, Short
<1>5. \E new : OfCard(new) /\ Change(i, new)
  <2> HIDE DEF OfCard
  <2> QED
    BY <1>2, <1>3, <1>4 DEF Edit
<1> QED
  BY <1>5, ChangeFollows

LEMMA DraftStep ==
    ASSUME DraftInv, [DraftNext]_draftVars
    PROVE  DraftInv'
<1>1. CASE OpenDraft
  BY <1>1 DEF OpenDraft, DraftInv, DistinctIds, Follows
<1>2. ASSUME NEW i \in DOMAIN draft, Edit(i) PROVE DraftInv'
  <2>1. draft # NoDraft
    BY <1>2 DEF NoDraft
  <2> QED
    BY <1>2, <2>1, EditFollows
<1>3. CASE SaveDraft
  <2>1. draft # NoDraft
    BY <1>3 DEF SaveDraft, CanSave
  <2>2. UNCHANGED original /\ shown' \in {shown, draft} /\ draft' \in {NoDraft, draft}
    BY <1>3 DEF SaveDraft
  <2> QED
    BY <2>1, <2>2 DEF DraftInv, DistinctIds, Follows
<1>4. CASE DropDraft
  BY <1>4 DEF DropDraft, DraftInv, DistinctIds, Follows
<1>5. CASE UNCHANGED draftVars
  BY <1>5 DEF draftVars, DraftInv, DistinctIds, Follows
<1> QED
  BY <1>1, <1>2, <1>3, <1>4, <1>5 DEF DraftNext

-----------------------------------------------------------------------------
(* What the rules of the page and of the server have in common *)

\* Where the page finds nothing wrong the server does not either: for every script the page
\* can show, not only for those that were edited here.
LEMMA MirrorIsStricter ==
    ASSUME NEW script, script # <<>>, \A i \in DOMAIN script : script[i].manner \in Options,
           DOMAIN ValidateSegments(script) = {}
    PROVE  ValidateScript(script)
<1> DEFINE faulty == {i \in DOMAIN script : FieldErrors(script, i) # {}}
<1>1. DOMAIN ValidateSegments(script) = {script[i].id : i \in faulty}
  BY DEF ValidateSegments
<1>2. \A i \in DOMAIN script : FieldErrors(script, i) = {}
  BY <1>1
<1>3. ASSUME NEW i \in DOMAIN script
      PROVE  /\ ~Repeated(script, i) /\ Says(script[i].narration)
             /\ script[i].short # NoShort =>
                    /\ Says(script[i].short.hook) /\ Says(script[i].short.cta)
                    /\ script[i].short.id = ShortDue(script, i)
  BY <1>2 DEF FieldErrors
<1> QED
  BY <1>3 DEF ValidateScript, RelationalRules, Says

\* A message is on a card, and in a field that card has.
LEMMA MessagesAreOnCards ==
    ASSUME NEW script, NEW n \in Nat, DOMAIN script = 1 .. n,
           NEW id \in DOMAIN ValidateSegments(script)
    PROVE  \E i \in DOMAIN script :
               /\ script[i].id = id /\ ValidateSegments(script)[id] # {}
               /\ ValidateSegments(script)[id] # {"narration"} => script[i].short # NoShort
<1> DEFINE faulty == {i \in DOMAIN script : FieldErrors(script, i) # {}}
           Decides(i) == script[i].id = id /\ \A j \in faulty : script[j].id = id => j <= i
           last == CHOOSE i \in faulty : Decides(i)
           same == {i \in faulty : script[i].id = id}
<1>1. /\ id \in {script[i].id : i \in faulty}
      /\ ValidateSegments(script)[id] = FieldErrors(script, last)
  BY DEF ValidateSegments
<1>2. same \subseteq 1 .. n /\ same # {}
  BY <1>1
<1>3. PICK g \in same : \A j \in same : j <= g
  <2> HIDE DEF same
  <2> QED
    BY <1>2, GreatestOf
<1>4. g \in faulty /\ Decides(g)
  <2> HIDE DEF faulty
  <2> QED
    BY <1>3
<1>5. last \in faulty /\ Decides(last)
  <2> HIDE DEF faulty, Decides
  <2> QED
    BY <1>4
<1>6. last \in DOMAIN script /\ script[last].id = id /\ FieldErrors(script, last) # {}
  <2> HIDE DEF last
  <2> QED
    BY <1>5
<1>7. script[last].short = NoShort => FieldErrors(script, last) \subseteq {"narration"}
  <2> HIDE DEF last
  <2> QED
    BY DEF FieldErrors
<1> HIDE DEF last, faulty
<1> QED
  BY <1>1, <1>6, <1>7

\* Segments with different ids are marked as altered just where the comparison has a card.
LEMMA MarksAreCards ==
    ASSUME NEW before, NEW script, DOMAIN before = DOMAIN script,
           \A i \in DOMAIN script : before[i].id = script[i].id,
           \A i, j \in DOMAIN script : script[i].id = script[j].id => i = j
    PROVE  ChangedIds(before, script) = ScriptDiff(before, script)
<1>1. ASSUME NEW j \in DOMAIN script
      PROVE  /\ Narration(before, script[j].id) = {before[j].narration}
             /\ Narration(script, script[j].id) = {script[j].narration}
  <2>1. /\ {k \in DOMAIN before : before[k].id = script[j].id} = {j}
        /\ {k \in DOMAIN script : script[k].id = script[j].id} = {j}
    OBVIOUS
  <2> QED
    BY <2>1 DEF Narration
<1>2. ASSUME NEW id PROVE id \in ChangedIds(before, script) <=> id \in ScriptDiff(before, script)
  <2>1. id \in ChangedIds(before, script) <=>
            \E i \in DOMAIN script :
                id = script[i].id /\ {before[i].narration} # {script[i].narration}
    BY <1>1 DEF ChangedIds
  <2>2. id \in ScriptDiff(before, script) <=>
            \E i \in DOMAIN script :
                id = script[i].id /\ {before[i].narration} # {script[i].narration}
    <3>1. \A i \in DOMAIN script :
              /\ Narration(before, script[i].id) # {}
              /\ Narration(before, script[i].id) # Narration(script, script[i].id) <=>
                     {before[i].narration} # {script[i].narration}
      BY <1>1
    <3>2. id \in ScriptDiff(before, script) <=>
              \E i \in DOMAIN script :
                  /\ id = script[i].id
                  /\ \/ Narration(before, script[i].id) = {}
                     \/ Narration(before, script[i].id) # Narration(script, script[i].id)
      BY DEF ScriptDiff
    <3> QED
      BY <3>1, <3>2
  <2> QED
    BY <2>1, <2>2
<1> QED
  BY <1>2

\* For scripts of any length and any number of edits: what the page lets be saved the server
\* takes; every message is on a card, in a field the card has; the segments and the shorts
\* stay those of the first script; and the index marks what the comparison shows.
THEOREM DraftStaysSavable ==
    DraftInit /\ [][DraftNext]_draftVars => []DraftIsSavable
<1>1. DraftInit => DraftInv
  BY DraftStarts
<1>2. DraftInv /\ [DraftNext]_draftVars => DraftInv'
  BY DraftStep
<1>3. DraftInv => DraftIsSavable
  <2> SUFFICES ASSUME DraftInv PROVE DraftIsSavable
    OBVIOUS
  <2>1. PICK n \in 1 .. MaxSegments : DOMAIN original = 1 .. n
    BY DEF DraftInv
  <2>2. CanSave => ValidateScript(draft)
    <3>1. CanSave => /\ draft # <<>> /\ DOMAIN ValidateSegments(draft) = {}
                     /\ \A i \in DOMAIN draft : draft[i].manner \in Options
      BY DEF CanSave, NoDraft, DraftInv, Follows, Segment
    <3> QED
      BY <3>1, MirrorIsStricter
  <2>3. draft # NoDraft => \A id \in DOMAIN ValidateSegments(draft) :
            \E i \in DOMAIN draft :
                /\ draft[i].id = id /\ ValidateSegments(draft)[id] # {}
                /\ ValidateSegments(draft)[id] # {"narration"} => draft[i].short # NoShort
    <3>1. draft # NoDraft => DOMAIN draft = 1 .. n
      BY <2>1 DEF DraftInv, Follows
    <3>2. n \in Nat
      BY DraftAssumption
    <3> QED
      BY <3>1, <3>2, MessagesAreOnCards
  <2>4. \A script \in {shown, draft} \ {NoDraft} :
            /\ DOMAIN script = DOMAIN original
            /\ \A i \in DOMAIN script :
                   script[i].id = original[i].id /\ script[i].short.id = original[i].short.id
    BY DEF DraftInv, Follows
  <2>5. ChangedIds(original, shown) = ScriptDiff(original, shown)
    <3>1. /\ DOMAIN original = DOMAIN shown
          /\ \A i \in DOMAIN shown : original[i].id = shown[i].id
          /\ \A i, j \in DOMAIN shown : shown[i].id = shown[j].id => i = j
      BY DEF DraftInv, Follows, DistinctIds
    <3> QED
      BY <3>1, MarksAreCards
  <2> QED
    BY <2>2, <2>3, <2>4, <2>5 DEF DraftIsSavable
<1> QED
  BY <1>1, <1>2, <1>3, PTL

-----------------------------------------------------------------------------
(* Sequences one after the other: f[i] is the first i of them. *)

Unrolls(f, seqs, n) == f = [i \in 1 .. n |-> IF i = 1 THEN seqs[i] ELSE f[i - 1] \o seqs[i]]

LEMMA UnrollsIs ==
    ASSUME NEW seqs, NEW n \in Nat, NEW f
    PROVE  Unrolls(f, seqs, n) <=>
           /\ f = [i \in 1 .. n |-> f[i]]
           /\ \A i \in 1 .. n : f[i] = IF i = 1 THEN seqs[i] ELSE f[i - 1] \o seqs[i]
<1> DEFINE g == [i \in 1 .. n |-> IF i = 1 THEN seqs[i] ELSE f[i - 1] \o seqs[i]]
<1>1. Unrolls(f, seqs, n) <=> f = g
  BY DEF Unrolls
<1>2. \A i \in 1 .. n : g[i] = IF i = 1 THEN seqs[i] ELSE f[i - 1] \o seqs[i]
  OBVIOUS
<1>3. g = [i \in 1 .. n |-> g[i]]
  OBVIOUS
<1> HIDE DEF g
<1> QED
  BY <1>1, <1>2, <1>3

LEMMA UnrollingExists ==
    ASSUME NEW seqs
    PROVE  \A n \in Nat : \E f : Unrolls(f, seqs, n)
<1> DEFINE Bad == {n \in Nat : ~\E f : Unrolls(f, seqs, n)}
<1> SUFFICES ASSUME Bad # {} PROVE FALSE
  OBVIOUS
<1>1. PICK n \in Bad : \A m \in Bad : n <= m
  BY LeastOf
<1>2. n \in Nat /\ ~\E f : Unrolls(f, seqs, n)
  OBVIOUS
<1>3. n # 0
  <2>1. Unrolls([i \in 1 .. 0 |-> seqs], seqs, 0)
    BY DEF Unrolls
  <2> QED
    BY <1>2, <2>1
<1>4. n - 1 \in Nat /\ n - 1 \notin Bad
  BY <1>1, <1>2, <1>3
<1>5. PICK f : Unrolls(f, seqs, n - 1)
  BY <1>4
<1>6. \A i \in 1 .. n - 1 : f[i] = IF i = 1 THEN seqs[i] ELSE f[i - 1] \o seqs[i]
  BY <1>4, <1>5, UnrollsIs
<1> DEFINE g == [i \in 1 .. n |-> IF i # n THEN f[i]
                                 ELSE IF n = 1 THEN seqs[n] ELSE f[n - 1] \o seqs[n]]
<1>7. g = [i \in 1 .. n |-> g[i]]
  OBVIOUS
<1>8. g[n] = IF n = 1 THEN seqs[n] ELSE f[n - 1] \o seqs[n]
  BY <1>2, <1>3
<1>9. \A i \in 1 .. n - 1 : g[i] = f[i]
  BY <1>2
<1> HIDE DEF g
<1>10. ASSUME NEW i \in 1 .. n
       PROVE  g[i] = IF i = 1 THEN seqs[i] ELSE g[i - 1] \o seqs[i]
  <2>1. CASE i = n
    <3>1. i # 1 => g[i - 1] = f[i - 1]
      BY <1>2, <1>9, <2>1
    <3> QED
      BY <1>8, <2>1, <3>1
  <2>2. CASE i # n
    <3>1. i \in 1 .. n - 1 /\ (i # 1 => i - 1 \in 1 .. n - 1)
      BY <1>2, <2>2
    <3> QED
      BY <1>6, <1>9, <3>1
  <2> QED
    BY <2>1, <2>2
<1>11. Unrolls(g, seqs, n)
  BY <1>2, <1>7, <1>10, UnrollsIs
<1> QED
  BY <1>2, <1>11

\* However many there are to follow, the first i are the same.
LEMMA UnrollingsAgree ==
    ASSUME NEW seqs, NEW more, NEW n \in Nat, NEW m \in Nat, n <= m,
           \A i \in 1 .. n : more[i] = seqs[i],
           NEW f, Unrolls(f, seqs, n), NEW g, Unrolls(g, more, m)
    PROVE  \A i \in 1 .. n : f[i] = g[i]
<1> DEFINE Bad == {i \in 1 .. n : f[i] # g[i]}
<1> SUFFICES ASSUME Bad # {} PROVE FALSE
  OBVIOUS
<1>1. PICK i \in Bad : \A j \in Bad : i <= j
  <2>1. Bad \subseteq Nat
    OBVIOUS
  <2> HIDE DEF Bad
  <2> QED
    BY <2>1, LeastOf
<1>2. i \in 1 .. n /\ i \in 1 .. m /\ f[i] # g[i]
  OBVIOUS
<1>3. /\ f[i] = IF i = 1 THEN seqs[i] ELSE f[i - 1] \o seqs[i]
      /\ g[i] = IF i = 1 THEN more[i] ELSE g[i - 1] \o more[i]
  BY <1>2, UnrollsIs
<1>4. i # 1 => i - 1 \in 1 .. n /\ i - 1 \notin Bad
  BY <1>1, <1>2
<1>5. i # 1 => f[i - 1] = g[i - 1]
  BY <1>4
<1> QED
  BY <1>2, <1>3, <1>5

LEMMA FlattenIs ==
    ASSUME NEW S, NEW seqs \in Seq(S)
    PROVE  /\ Len(seqs) = 0 => FlattenSeq(seqs) = <<>>
           /\ Len(seqs) # 0 => \E f : Unrolls(f, seqs, Len(seqs)) /\ FlattenSeq(seqs) = f[Len(seqs)]
<1>1. Len(seqs) \in Nat
  OBVIOUS
<1>2. Len(seqs) = 0 => seqs = <<>>
  OBVIOUS
<1>3. PICK f : Unrolls(f, seqs, Len(seqs))
  BY <1>1, UnrollingExists
<1> DEFINE flatten == CHOOSE g : Unrolls(g, seqs, Len(seqs))
<1>4. Unrolls(flatten, seqs, Len(seqs))
  BY <1>3
<1>5. Len(seqs) # 0 => FlattenSeq(seqs) = flatten[Len(seqs)]
  BY DEF FlattenSeq, Unrolls
<1>6. Len(seqs) = 0 => FlattenSeq(seqs) = seqs
  BY DEF FlattenSeq
<1> HIDE DEF flatten
<1> QED
  BY <1>2, <1>4, <1>5, <1>6

LEMMA FlattenLast ==
    ASSUME NEW T, NEW seqs \in Seq(T), NEW s \in T
    PROVE  FlattenSeq(Append(seqs, s)) = IF seqs = <<>> THEN s ELSE FlattenSeq(seqs) \o s
<1>1. PICK n \in Nat : n = Len(seqs)
  BY LenProperties
<1>2. PICK k \in Nat : k = n + 1
  BY <1>1
<1>3. PICK more : more = Append(seqs, s)
  OBVIOUS
<1>4. more \in Seq(T) /\ Len(more) = k /\ more[k] = s /\ \A i \in 1 .. n : more[i] = seqs[i]
  BY <1>1, <1>2, <1>3, AppendProperties
<1>5. PICK g : Unrolls(g, more, k) /\ FlattenSeq(more) = g[k]
  <2>1. Len(more) # 0
    BY <1>2, <1>4
  <2> QED
    BY <1>4, <2>1, FlattenIs
<1>6. g[k] = IF k = 1 THEN s ELSE g[k - 1] \o s
  <2>1. k \in 1 .. k
    BY <1>2
  <2> QED
    BY <1>4, <1>5, <2>1, UnrollsIs
<1>7. k - 1 = n /\ n <= k
  BY <1>2
<1>8. CASE n = 0
  <2>1. seqs = <<>>
    BY <1>1, <1>8, EmptySeq
  <2> QED
    BY <1>2, <1>3, <1>5, <1>6, <1>8, <2>1
<1>9. CASE n # 0
  <2>1. PICK f : Unrolls(f, seqs, n) /\ FlattenSeq(seqs) = f[n]
    BY <1>1, <1>9, FlattenIs
  <2>2. \A i \in 1 .. n : f[i] = g[i]
    <3>1. \A i \in 1 .. n : more[i] = seqs[i]
      BY <1>4
    <3>2. Unrolls(g, more, k) /\ Unrolls(f, seqs, n) /\ n <= k
      BY <1>5, <1>7, <2>1
    <3> QED
      BY <3>1, <3>2, UnrollingsAgree
  <2>3. n \in 1 .. n /\ k # 1
    BY <1>2, <1>9
  <2>4. seqs # <<>>
    BY <1>1, <1>9, EmptySeq
  <2>5. g[k] = g[n] \o s
    BY <1>6, <1>7, <2>3
  <2> QED
    BY <1>3, <1>5, <2>1, <2>2, <2>3, <2>4, <2>5
<1> QED
  BY <1>8, <1>9

LEMMA FlattenEmpty == FlattenSeq(<<>>) = <<>>
<1>1. <<>> \in Seq({}) /\ Len(<<>>) = 0
  OBVIOUS
<1> QED
  BY <1>1, FlattenIs

\* Sequences that are not as they should be have a shortest among them.
LEMMA Shortest ==
    ASSUME NEW T, NEW bad, bad \subseteq Seq(T), bad # {}
    PROVE  \E ss \in bad : \A tt \in bad : Len(ss) <= Len(tt)
<1> DEFINE lens == {Len(ss) : ss \in bad}
<1>1. lens \subseteq Nat /\ lens # {}
  BY LenProperties
<1>2. PICK n \in lens : \A m \in lens : n <= m
  <2> HIDE DEF lens
  <2> QED
    BY <1>1, LeastOf
<1> QED
  BY <1>2

LEMMA ShorterOrEmpty ==
    ASSUME NEW T, NEW ss \in Seq(T), ss # <<>>
    PROVE  \E front \in Seq(T), last \in T :
               ss = Append(front, last) /\ ~(Len(ss) <= Len(front))
<1>1. PICK front \in Seq(T), last \in T : ss = Append(front, last)
  BY SequenceEmptyOrAppend
<1>2. Len(front) \in Nat /\ Len(ss) = Len(front) + 1
  BY <1>1, AppendProperties, LenProperties
<1> QED
  BY <1>1, <1>2

\* What of the sequences over a set the next two need: as Seq(S), T is one set like another.
Joins(T) ==
    /\ <<>> \in T
    /\ \A ss \in T, tt \in T : ss \o tt \in T
    /\ \A ss \in T : <<>> \o ss = ss /\ ss \o <<>> = ss
    /\ \A ss \in T, tt \in T, uu \in T : (ss \o tt) \o uu = ss \o (tt \o uu)

\* One sequence after another, where the provers need no more than Joins to say of it.
Cat(ss, tt) == ss \o tt

LEMMA Associates ==
    ASSUME NEW T, Joins(T)
    PROVE  \A ss \in T, tt \in T, uu \in T : Cat(Cat(ss, tt), uu) = Cat(ss, Cat(tt, uu))
BY DEF Joins, Cat

LEMMA SequencesJoin ==
    ASSUME NEW S
    PROVE  Joins(Seq(S))
<1>1. <<>> \in Seq(S)
  BY EmptySeq
<1>2. \A ss \in Seq(S), tt \in Seq(S) : ss \o tt \in Seq(S)
  BY ConcatProperties
<1>3. \A ss \in Seq(S) : <<>> \o ss = ss /\ ss \o <<>> = ss
  BY ConcatEmptySeq
<1>4. \A ss \in Seq(S), tt \in Seq(S), uu \in Seq(S) : (ss \o tt) \o uu = ss \o (tt \o uu)
  BY ConcatAssociative
<1> QED
  BY <1>1, <1>2, <1>3, <1>4 DEF Joins

LEMMA FlattenAppend ==
    ASSUME NEW T, Joins(T), NEW seqs \in Seq(T), NEW s \in T
    PROVE  FlattenSeq(Append(seqs, s)) = FlattenSeq(seqs) \o s
<1>1. FlattenSeq(Append(seqs, s)) = IF seqs = <<>> THEN s ELSE FlattenSeq(seqs) \o s
  BY FlattenLast
<1> QED
  BY <1>1, FlattenEmpty DEF Joins

LEMMA FlattenTyped ==
    ASSUME NEW T, Joins(T), NEW seqs \in Seq(T)
    PROVE  FlattenSeq(seqs) \in T
<1> DEFINE bad == {ss \in Seq(T) : FlattenSeq(ss) \notin T}
<1> SUFFICES ASSUME bad # {} PROVE FALSE
  OBVIOUS
<1>1. PICK ss \in bad : \A tt \in bad : Len(ss) <= Len(tt)
  <2>1. bad \subseteq Seq(T)
    OBVIOUS
  <2> HIDE DEF bad
  <2> QED
    BY <2>1, Shortest
<1>2. ss \in Seq(T) /\ FlattenSeq(ss) \notin T
  OBVIOUS
<1>3. CASE ss = <<>>
  <2>1. Len(ss) = 0
    BY <1>3, EmptySeq
  <2>2. FlattenSeq(ss) = <<>>
    BY <1>2, <2>1, FlattenIs
  <2> QED
    BY <1>2, <2>2 DEF Joins
<1>4. CASE ss # <<>>
  <2>1. PICK front \in Seq(T), last \in T :
            ss = Append(front, last) /\ ~(Len(ss) <= Len(front))
    BY <1>2, <1>4, ShorterOrEmpty
  <2>2. FlattenSeq(front) \in T
    BY <1>1, <2>1
  <2>3. FlattenSeq(ss) = FlattenSeq(front) \o last
    BY <2>1, FlattenAppend
  <2> QED
    BY <1>2, <2>1, <2>2, <2>3 DEF Joins
<1> QED
  BY <1>3, <1>4

LEMMA FlattenHead ==
    ASSUME NEW T, Joins(T), NEW seqs \in Seq(T), seqs # <<>>
    PROVE  FlattenSeq(seqs) = Head(seqs) \o FlattenSeq(Tail(seqs))
<1> DEFINE Splits(ss) == FlattenSeq(ss) = Head(ss) \o FlattenSeq(Tail(ss))
           bad == {ss \in Seq(T) : ss # <<>> /\ ~Splits(ss)}
<1> SUFFICES ASSUME bad # {} PROVE FALSE
  OBVIOUS
<1>1. PICK ss \in bad : \A tt \in bad : Len(ss) <= Len(tt)
  <2>1. bad \subseteq Seq(T)
    OBVIOUS
  <2> HIDE DEF bad
  <2> QED
    BY <2>1, Shortest
<1>2. ss \in Seq(T) /\ ss # <<>> /\ ~Splits(ss)
  OBVIOUS
<1>3. \A tt \in Seq(T) : tt # <<>> /\ ~(Len(ss) <= Len(tt)) => Splits(tt)
  BY <1>1
<1> HIDE DEF bad
<1>4. PICK front \in Seq(T), last \in T :
          ss = Append(front, last) /\ ~(Len(ss) <= Len(front))
  BY <1>2, ShorterOrEmpty
<1>5. FlattenSeq(front) \in T /\ FlattenSeq(ss) = FlattenSeq(front) \o last
  BY <1>4, FlattenTyped, FlattenAppend
<1>6. /\ Head(ss) = IF front = <<>> THEN last ELSE Head(front)
      /\ Tail(ss) = IF front = <<>> THEN <<>> ELSE Append(Tail(front), last)
  BY <1>4, HeadTailAppend
<1>7. CASE front = <<>>
  <2>1. <<>> \o last = last /\ last \o <<>> = last
    BY <1>4 DEF Joins
  <2> QED
    BY <1>2, <1>5, <1>6, <1>7, <2>1, FlattenEmpty
<1>8. \A a \in T, b \in T, c \in T : Cat(Cat(a, b), c) = Cat(a, Cat(b, c))
  BY Associates
<1>9. CASE front # <<>>
  <2>1. Head(front) \in T /\ Tail(front) \in Seq(T)
    BY <1>4, <1>9, HeadTailProperties
  <2>2. FlattenSeq(front) = Head(front) \o FlattenSeq(Tail(front))
    BY <1>3, <1>4, <1>9
  <2>3. FlattenSeq(Tail(front)) \in T
    BY <2>1, FlattenTyped
  <2>4. FlattenSeq(Tail(ss)) = FlattenSeq(Tail(front)) \o last
    BY <1>4, <1>6, <1>9, <2>1, FlattenAppend
  <2>5. (Head(front) \o FlattenSeq(Tail(front))) \o last
            = Head(front) \o (FlattenSeq(Tail(front)) \o last)
    <3>1. PICK first \in T : first = Head(front)
      BY <2>1
    <3>2. PICK rest \in T : rest = FlattenSeq(Tail(front))
      BY <2>3
    <3>3. Cat(Cat(first, rest), last) = Cat(first, Cat(rest, last))
      BY <1>4, <1>8
    <3> QED
      BY <3>1, <3>2, <3>3 DEF Cat
  <2> QED
    BY <1>2, <1>5, <1>6, <1>9, <2>2, <2>4, <2>5
<1> QED
  BY <1>7, <1>9

LEMMA FlattenSequences ==
    ASSUME NEW S, NEW seqs \in Seq(Seq(S))
    PROVE  /\ FlattenSeq(seqs) \in Seq(S)
           /\ seqs # <<>> => FlattenSeq(seqs) = Head(seqs) \o FlattenSeq(Tail(seqs))
<1>1. Joins(Seq(S))
  BY SequencesJoin
<1> QED
  BY <1>1, FlattenTyped, FlattenHead
-----------------------------------------------------------------------------
(* Queues *)

Grown(q, r, e) ==
    /\ Len(r) = Len(q) + 1 /\ r[Len(r)] = e
    /\ \A i \in 1 .. Len(q) : r[i] = q[i]

Shrunk(q, r) ==
    /\ Len(q) # 0 /\ Len(r) = Len(q) - 1
    /\ \A i \in 1 .. Len(r) : r[i] = q[i + 1]

Replaced(q, r, k, e) ==
    /\ Len(r) = Len(q) /\ k \in 1 .. Len(q) /\ r[k] = e
    /\ \A i \in 1 .. Len(q) : i # k => r[i] = q[i]

LEMMA AppendIs ==
    ASSUME NEW T, NEW q \in Seq(T), NEW e \in T, NEW r, r = Append(q, e)
    PROVE  r \in Seq(T) /\ Grown(q, r, e)
<1>1. r \in Seq(T) /\ Len(r) = Len(q) + 1 /\ r[Len(q) + 1] = e
  BY AppendProperties
<1>2. \A i \in 1 .. Len(q) : r[i] = q[i]
  BY AppendProperties
<1> QED
  BY <1>1, <1>2 DEF Grown

LEMMA TailIs ==
    ASSUME NEW T, NEW q \in Seq(T), q # <<>>, NEW r, r = Tail(q)
    PROVE  r \in Seq(T) /\ Shrunk(q, r) /\ Head(q) = q[1] /\ q[1] \in T
<1>1. Len(q) \in Nat /\ Len(q) # 0
  BY EmptySeq, LenProperties
<1>2. 1 \in 1 .. Len(q)
  BY <1>1
<1>3. Head(q) = q[1] /\ q[1] \in T
  BY <1>2, ElementOfSeq
<1>4. r \in Seq(T) /\ Len(r) = Len(q) - 1 /\ \A i \in 1 .. Len(r) : r[i] = q[i + 1]
  BY HeadTailProperties
<1> QED
  BY <1>1, <1>3, <1>4 DEF Shrunk

LEMMA ExceptIs ==
    ASSUME NEW T, NEW q \in Seq(T), NEW k \in 1 .. Len(q), NEW e \in T,
           NEW r, r = [q EXCEPT ![k] = e]
    PROVE  r \in Seq(T) /\ Replaced(q, r, k, e)
<1>1. r \in Seq(T) /\ Len(r) = Len(q)
  BY ExceptSeq
<1>2. r[k] = e /\ \A i \in 1 .. Len(q) : i # k => r[i] = q[i]
  BY ExceptSeq, LenProperties
<1> QED
  BY <1>1, <1>2 DEF Replaced

-----------------------------------------------------------------------------
(* What the threads keep *)

Sounds == Seq(Nat)
Batches == Seq([t : Int, frame : Nat])
Frames == [type : {"frame"}, at : Nat]
Messages == Frames \cup [type : {"start"}, take : Nat] \cup {[type |-> "stop"]}
Closings == [mic : Nat, take : Nat, flush : {"none", "awaited", "over"}]
Recorders ==
    [phase : {"ready", "recording", "encoding"}, mic : Nat, samples : Batches,
     aborted : BOOLEAN, closing : Closings]
Workers ==
    [delegate : {"GPU", "CPU", "none"}, take : Nat, batch : Batches,
     busy : Frames \cup {NoFrame}]
Takings == [from : Nat, pushed : Batches, crossed : BOOLEAN]
Mics == [open : BOOLEAN, from : Nat, buffer : Sounds, posted : Seq(Sounds), chunks : Seq(Sounds)]
Pairs ==
    [audio : Nat, take : Nat, early : BOOLEAN, made : Nat, wav : Sounds, cut : BOOLEAN,
     samples : Batches]

\* Takes and microphones are as many, one of each for a call of doStart.
CaptureTypeOK ==
    /\ clock \in Nat /\ mishaps \in Nat
    /\ recorder \in Recorders
    /\ worker \in Workers
    /\ toWorker \in Seq(Messages)
    /\ toPage \in Seq(Batches)
    /\ takes \in Seq(Takings)
    /\ mics \in Seq(Mics) /\ Len(mics) = Len(takes)
    /\ asking \subseteq 1 .. Len(takes)
    /\ pairs \in Seq(Pairs)

Latest == Len(takes)
Closing == recorder.closing # NotClosing

Numbered ==
    /\ worker.take \in 0 .. Latest
    /\ \A i \in 1 .. Len(toWorker) :
           toWorker[i].type = "start" => toWorker[i].take \in 1 .. Latest
    /\ recorder.phase = "recording" => recorder.mic \in (1 .. Latest) \ asking
    /\ Closing =>
           /\ recorder.closing.mic \in (1 .. Latest) \ asking
           /\ recorder.closing.mic # recorder.mic
           /\ recorder.closing.take \in 1 .. Latest
    /\ \A i \in 1 .. Len(pairs) :
           pairs[i].audio \in (1 .. Latest) \ asking /\ pairs[i].take \in 1 .. Latest

LEMMA MessageKinds ==
    ASSUME NEW m \in Messages
    PROVE  /\ m.type = "frame" => m \in Frames
           /\ m.type = "start" => m.take \in Nat
           /\ m.type \in {"frame", "start", "stop"}
BY DEF Messages, Frames

LEMMA FrameFields ==
    ASSUME NEW f \in Frames
    PROVE  f \in Messages /\ f.type = "frame" /\ f.at \in Nat /\ f # NoFrame
<1>1. f.type = "frame" /\ f.at \in Nat /\ f \in Messages
  BY DEF Frames, Messages
<1>2. NoFrame.type = "none"
  BY DEF NoFrame
<1> QED
  BY <1>1, <1>2

LEMMA Elements ==
    ASSUME CaptureTypeOK
    PROVE  /\ Latest \in Nat /\ Len(mics) = Latest /\ Len(pairs) \in Nat /\ Len(toWorker) \in Nat
           /\ \A i \in 1 .. Latest : takes[i] \in Takings /\ mics[i] \in Mics
           /\ \A i \in 1 .. Len(toWorker) : toWorker[i] \in Messages
           /\ \A i \in 1 .. Len(pairs) : pairs[i] \in Pairs
           /\ DOMAIN takes = 1 .. Latest /\ DOMAIN mics = 1 .. Latest
           /\ DOMAIN pairs = 1 .. Len(pairs) /\ DOMAIN toWorker = 1 .. Len(toWorker)
<1> USE DEF CaptureTypeOK, Latest
<1>1. Latest \in Nat /\ Len(mics) = Latest /\ Len(pairs) \in Nat /\ Len(toWorker) \in Nat
  BY LenProperties
<1>2. \A i \in 1 .. Latest : takes[i] \in Takings
  BY ElementOfSeq
<1>3. \A i \in 1 .. Latest : mics[i] \in Mics
  BY ElementOfSeq
<1>4. \A i \in 1 .. Len(toWorker) : toWorker[i] \in Messages
  BY ElementOfSeq
<1>5. \A i \in 1 .. Len(pairs) : pairs[i] \in Pairs
  BY ElementOfSeq
<1>6. DOMAIN takes = 1 .. Latest /\ DOMAIN mics = 1 .. Latest
  BY LenProperties
<1>7. DOMAIN pairs = 1 .. Len(pairs) /\ DOMAIN toWorker = 1 .. Len(toWorker)
  BY LenProperties
<1> QED
  BY <1>1, <1>2, <1>3, <1>4, <1>5, <1>6, <1>7

LEMMA NoSounds ==
    /\ <<>> \in Sounds /\ <<>> \in Batches
    /\ <<>> \in Seq(Sounds) /\ <<>> \in Seq(Batches)
BY EmptySeq DEF Sounds, Batches

LEMMA MicTyped ==
    ASSUME CaptureTypeOK, NEW open \in BOOLEAN
    PROVE  Mic(open) \in Mics
BY NoSounds DEF Mic, Mics, CaptureTypeOK

LEMMA PostIs ==
    ASSUME CaptureTypeOK, NEW m \in Messages, Post(m)
    PROVE  toWorker' \in Seq(Messages) /\ Grown(toWorker, toWorker', m)
BY AppendIs DEF Post, CaptureTypeOK

LEMMA StopMessage == [type |-> "stop"] \in Messages /\ [type |-> "stop"].type = "stop"
BY DEF Messages

\* What doStart does.
LEMMA StartTakeIs ==
    ASSUME CaptureTypeOK, StartTake
    PROVE  /\ CaptureTypeOK' /\ Latest' = Latest + 1
           /\ Grown(takes, takes', NewTake(UnderWay)) /\ NewTake(UnderWay) \in Takings
           /\ Grown(mics, mics', Mic(FALSE))
           /\ Grown(toWorker, toWorker', [type |-> "start", take |-> Latest'])
           /\ recorder.phase = "ready" /\ recorder'.phase = "ready"
           /\ recorder'.mic = recorder.mic /\ recorder'.closing = recorder.closing
           /\ recorder'.samples = <<>> /\ ~recorder'.aborted
           /\ asking' = asking \cup {Latest'}
           /\ UNCHANGED <<clock, worker, toPage, pairs>>
<1>1. Latest \in Nat /\ Len(mics) = Latest
  BY Elements
<1>2. (UnderWay) \in BOOLEAN
  BY DEF UnderWay
<1>3. NewTake(UnderWay) \in Takings
  <2> HIDE DEF UnderWay
  <2> QED
    BY <1>2, NoSounds DEF NewTake, Takings, CaptureTypeOK
<1>4. takes' \in Seq(Takings) /\ Grown(takes, takes', NewTake(UnderWay))
  BY <1>3, AppendIs DEF StartTake, CaptureTypeOK
<1>5. Latest' = Latest + 1
  BY <1>1, <1>4 DEF Latest, Grown
<1>6. mics' \in Seq(Mics) /\ Grown(mics, mics', Mic(FALSE))
  BY MicTyped, AppendIs DEF StartTake, CaptureTypeOK
<1>7. /\ toWorker' \in Seq(Messages)
      /\ Grown(toWorker, toWorker', [type |-> "start", take |-> Latest'])
  <2>1. PICK n \in Nat : n = Latest + 1
    BY <1>1
  <2>2. [type |-> "start", take |-> n] \in Messages
    BY DEF Messages
  <2>3. Post([type |-> "start", take |-> n])
    BY <2>1 DEF StartTake, Latest
  <2> QED
    BY <1>5, <2>1, <2>2, <2>3, PostIs
<1>8. /\ recorder.phase = "ready" /\ recorder' \in Recorders /\ recorder'.phase = "ready"
      /\ recorder'.mic = recorder.mic /\ recorder'.closing = recorder.closing
      /\ recorder'.samples = <<>> /\ ~recorder'.aborted
  BY NoSounds DEF StartTake, Started, CaptureTypeOK, Recorders
<1>9. asking' = asking \cup {Latest'}
  BY <1>5 DEF StartTake, Latest
<1>10. UNCHANGED <<clock, worker, toPage, pairs>> /\ mishaps' \in Nat
  BY DEF StartTake, Mishap, CaptureTypeOK
<1>11. asking' \subseteq 1 .. Latest' /\ Len(mics') = Latest'
  <2>1. asking \subseteq 1 .. Latest
    BY DEF CaptureTypeOK, Latest
  <2>2. Len(mics') = Latest'
    BY <1>1, <1>5, <1>6 DEF Grown
  <2>3. PICK n \in Nat : n = Latest + 1
    BY <1>1
  <2>4. asking \cup {n} \subseteq 1 .. n
    BY <1>1, <2>1, <2>3
  <2> QED
    BY <1>5, <1>9, <2>2, <2>3, <2>4
<1>12. CaptureTypeOK'
  BY <1>4, <1>6, <1>7, <1>8, <1>10, <1>11 DEF CaptureTypeOK, Latest
<1> QED
  BY <1>3, <1>4, <1>5, <1>6, <1>7, <1>8, <1>9, <1>10, <1>12

\* What comes of the microphone that was asked for.
LEMMA MicAnswersIs ==
    ASSUME CaptureTypeOK, NEW k \in asking, MicAnswers(k)
    PROVE  /\ CaptureTypeOK' /\ k \in 1 .. Latest /\ asking' = asking \ {k}
           /\ UNCHANGED <<clock, worker, toPage, pairs, takes>>
           /\ recorder'.closing = recorder.closing /\ recorder'.samples = recorder.samples
           /\ \/ /\ recorder'.mic = k /\ recorder'.phase = "recording"
                 /\ recorder'.aborted = recorder.aborted
                 /\ Replaced(mics, mics', k, Mic(TRUE)) /\ toWorker' = toWorker
              \/ /\ recorder'.mic \in {recorder.mic, k} /\ recorder'.phase = "ready"
                 /\ mics' = mics /\ Grown(toWorker, toWorker', [type |-> "stop"])
<1>1. k \in 1 .. Latest /\ Len(mics) = Latest /\ Latest \in Nat
  BY Elements DEF CaptureTypeOK, Latest
<1>2. k \in Nat
  BY <1>1
<1>3. /\ asking' = asking \ {k} /\ UNCHANGED <<clock, worker, toPage, pairs, takes>>
  BY DEF MicAnswers
<1>4. CASE MicGranted(k)
  <2>1. mics' \in Seq(Mics) /\ Replaced(mics, mics', k, Mic(TRUE))
    BY <1>1, <1>4, MicTyped, ExceptIs DEF MicGranted, CaptureTypeOK
  <2>2. /\ recorder' \in Recorders /\ recorder'.mic = k /\ recorder'.phase = "recording"
        /\ recorder'.aborted = recorder.aborted
        /\ recorder'.closing = recorder.closing /\ recorder'.samples = recorder.samples
    BY <1>2, <1>4 DEF MicGranted, CaptureTypeOK, Recorders
  <2>3. UNCHANGED <<toWorker, mishaps>>
    BY <1>4 DEF MicGranted
  <2>4. CaptureTypeOK'
    BY <1>1, <1>3, <2>1, <2>2, <2>3 DEF CaptureTypeOK, Replaced
  <2> QED
    BY <1>1, <1>3, <2>1, <2>2, <2>3, <2>4
<1>5. CASE MicDenied \/ CameraOff(k)
  <2>1. Post([type |-> "stop"]) /\ mics' = mics /\ mishaps' \in Nat
    BY <1>5 DEF MicDenied, CameraOff, Mishap, CaptureTypeOK
  <2>2. toWorker' \in Seq(Messages) /\ Grown(toWorker, toWorker', [type |-> "stop"])
    BY <2>1, StopMessage, PostIs
  <2>3. /\ recorder' \in Recorders
        /\ recorder'.mic \in {recorder.mic, k} /\ recorder'.phase = "ready"
        /\ recorder'.closing = recorder.closing /\ recorder'.samples = recorder.samples
    <3>1. CASE MicDenied
      BY <3>1 DEF MicDenied, CaptureTypeOK, Recorders
    <3>2. CASE CameraOff(k)
      BY <1>2, <3>2 DEF CameraOff, CaptureTypeOK, Recorders
    <3> QED
      BY <1>5, <3>1, <3>2
  <2>4. CaptureTypeOK'
    BY <1>3, <2>1, <2>2, <2>3 DEF CaptureTypeOK
  <2> QED
    BY <1>1, <1>3, <2>1, <2>2, <2>3, <2>4
<1> QED
  BY <1>4, <1>5 DEF MicAnswers

\* A stop: what it leaves is the same but for the phase, the capture and the queue.
LEMMA StopTakeIs ==
    ASSUME CaptureTypeOK, Numbered, StopTake
    PROVE  /\ CaptureTypeOK' /\ recorder.phase = "recording" /\ ~Closing
           /\ recorder'.phase = "encoding" /\ recorder'.mic = NoTake
           /\ recorder'.samples = recorder.samples /\ recorder'.aborted = recorder.aborted
           /\ recorder'.closing.mic = recorder.mic /\ recorder'.closing.take = Latest
           /\ recorder'.closing.flush = "awaited" /\ Closing'
           /\ Grown(toWorker, toWorker', [type |-> "stop"])
           /\ UNCHANGED <<clock, asking, worker, toPage, mics, pairs, takes>>
<1>1. Latest \in Nat
  BY Elements
<1>2. recorder.phase = "recording" /\ ~Closing
  BY DEF StopTake, Closing
<1>3. recorder' \in Recorders
  BY <1>1 DEF StopTake, CaptureTypeOK, Recorders, Closings, Latest, NoTake
<1>4. /\ recorder'.phase = "encoding" /\ recorder'.mic = NoTake
      /\ recorder'.samples = recorder.samples /\ recorder'.aborted = recorder.aborted
      /\ recorder'.closing = [mic |-> recorder.mic, take |-> Latest, flush |-> "awaited"]
  BY DEF StopTake, CaptureTypeOK, Recorders, Latest
<1>5. recorder'.closing.flush # NotClosing.flush
  BY <1>4 DEF NotClosing
<1>6. toWorker' \in Seq(Messages) /\ Grown(toWorker, toWorker', [type |-> "stop"])
  BY StopMessage, PostIs DEF StopTake
<1>7. UNCHANGED <<clock, asking, worker, toPage, mics, pairs, takes>> /\ mishaps' = mishaps
  BY DEF StopTake
<1>8. CaptureTypeOK'
  BY <1>3, <1>6, <1>7 DEF CaptureTypeOK
<1> QED
  BY <1>2, <1>4, <1>5, <1>6, <1>7, <1>8 DEF Closing

LEMMA FlushTimesOutIs ==
    ASSUME CaptureTypeOK, FlushTimesOut
    PROVE  /\ CaptureTypeOK' /\ Closing /\ Closing'
           /\ recorder'.phase = recorder.phase /\ recorder'.mic = recorder.mic
           /\ recorder'.samples = recorder.samples /\ recorder'.aborted = recorder.aborted
           /\ recorder'.closing.mic = recorder.closing.mic
           /\ recorder'.closing.take = recorder.closing.take
           /\ UNCHANGED <<clock, asking, toWorker, worker, toPage, mics, pairs, takes>>
<1>1. /\ recorder' \in Recorders
      /\ recorder'.phase = recorder.phase /\ recorder'.mic = recorder.mic
      /\ recorder'.samples = recorder.samples /\ recorder'.aborted = recorder.aborted
      /\ recorder'.closing.mic = recorder.closing.mic
      /\ recorder'.closing.take = recorder.closing.take
      /\ recorder'.closing.flush = "over" /\ recorder.closing.flush = "awaited"
  BY DEF FlushTimesOut, CaptureTypeOK, Recorders, Closings
<1>2. Closing /\ Closing'
  BY <1>1 DEF Closing, NotClosing
<1>3. UNCHANGED <<clock, asking, toWorker, worker, toPage, mics, pairs, mishaps, takes>>
  BY DEF FlushTimesOut
<1>4. CaptureTypeOK'
  BY <1>1, <1>3 DEF CaptureTypeOK
<1> QED
  BY <1>1, <1>2, <1>3, <1>4

\* The pair that is made, if the take was not aborted.
PairMade ==
    [audio |-> recorder.closing.mic, take |-> recorder.closing.take,
     early |-> Early, made |-> clock,
     wav |-> FlattenSeq(mics[recorder.closing.mic].chunks),
     cut |-> mics[recorder.closing.mic].posted # <<>>,
     samples |-> recorder.samples]

LEMMA PairMadeTyped ==
    ASSUME CaptureTypeOK, recorder.closing.mic \in 1 .. Latest
    PROVE  PairMade \in Pairs
<1>1. mics[recorder.closing.mic] \in Mics
  BY Elements
<1>2. mics[recorder.closing.mic].chunks \in Seq(Sounds)
  BY <1>1 DEF Mics
<1>3. FlattenSeq(mics[recorder.closing.mic].chunks) \in Sounds
  <2>1. Joins(Sounds)
    BY SequencesJoin DEF Sounds
  <2> QED
    BY <1>2, <2>1, FlattenTyped
<1>4. (Early) \in BOOLEAN /\ (mics[recorder.closing.mic].posted # <<>>) \in BOOLEAN
  BY DEF Early
<1>5. /\ recorder.closing.mic \in Nat /\ recorder.closing.take \in Nat
      /\ recorder.samples \in Batches /\ clock \in Nat
  BY DEF CaptureTypeOK, Recorders, Closings
<1> HIDE DEF Early
<1> QED
  BY <1>3, <1>4, <1>5 DEF PairMade, Pairs

LEMMA MakePairIs ==
    ASSUME CaptureTypeOK, Numbered, MakePair
    PROVE  /\ CaptureTypeOK' /\ Closing /\ ~Closing'
           /\ recorder'.phase = "ready" /\ recorder'.mic = recorder.mic
           /\ recorder'.samples = <<>> /\ ~recorder'.aborted
           /\ Replaced(mics, mics', recorder.closing.mic, Stopped(mics[recorder.closing.mic]))
           /\ \/ pairs' = pairs
              \/ ~recorder.aborted /\ Grown(pairs, pairs', PairMade)
           /\ UNCHANGED <<clock, asking, toWorker, worker, toPage, takes>>
<1>1. recorder.closing.flush = "over" /\ Closing
  BY DEF MakePair, Closing, NotClosing
<1>2. recorder.closing.mic \in 1 .. Latest /\ recorder.closing.mic # NoTake
  <2>1. recorder.closing.mic \in 1 .. Latest
    BY <1>1 DEF Numbered
  <2> QED
    BY <2>1, Elements DEF NoTake
<1>3. UNCHANGED <<clock, asking, toWorker, worker, toPage, mishaps, takes>>
  BY DEF MakePair
<1>4. /\ recorder'.phase = "ready" /\ recorder'.mic = recorder.mic /\ recorder' \in Recorders
      /\ recorder'.samples = <<>> /\ ~recorder'.aborted /\ recorder'.closing = NotClosing
  BY <1>2, NoSounds DEF MakePair, CaptureTypeOK, Recorders, Closings, NotClosing, NoTake
<1>5. mics[recorder.closing.mic] \in Mics
  BY <1>2, Elements
<1>6. Stopped(mics[recorder.closing.mic]) \in Mics
  BY <1>5, MicTyped, NoSounds DEF Stopped, Mic, Mics, CaptureTypeOK
<1>7. mics' = [mics EXCEPT ![recorder.closing.mic] = Stopped(mics[recorder.closing.mic])]
  BY <1>2 DEF MakePair
<1>8. /\ mics' \in Seq(Mics)
      /\ Replaced(mics, mics', recorder.closing.mic, Stopped(mics[recorder.closing.mic]))
  <2>1. mics \in Seq(Mics) /\ recorder.closing.mic \in 1 .. Len(mics)
    BY <1>2, Elements DEF CaptureTypeOK
  <2>2. PICK k \in 1 .. Len(mics) : k = recorder.closing.mic
    BY <2>1
  <2>3. PICK mic \in Mics : mic = Stopped(mics[recorder.closing.mic])
    BY <1>6
  <2>4. mics' = [mics EXCEPT ![k] = mic]
    BY <1>7, <2>2, <2>3
  <2>5. mics' \in Seq(Mics) /\ Replaced(mics, mics', k, mic)
    BY <2>1, <2>4, ExceptIs
  <2> QED
    BY <2>2, <2>3, <2>5
<1>9. \/ pairs' = pairs
      \/ ~recorder.aborted /\ pairs' = Append(pairs, PairMade)
  BY <1>2 DEF MakePair, PairMade, EncodeWav
<1>10. /\ pairs' \in Seq(Pairs)
       /\ \/ pairs' = pairs
          \/ ~recorder.aborted /\ Grown(pairs, pairs', PairMade)
  BY <1>2, <1>9, PairMadeTyped, AppendIs DEF CaptureTypeOK
<1>11. CaptureTypeOK'
  BY <1>3, <1>4, <1>8, <1>10 DEF CaptureTypeOK, Replaced
<1> QED
  BY <1>1, <1>3, <1>4, <1>8, <1>10, <1>11 DEF Closing

LEMMA PageSamplesIs ==
    ASSUME CaptureTypeOK, PageSamples
    PROVE  /\ CaptureTypeOK' /\ toPage # <<>> /\ toPage' = Tail(toPage)
           /\ Closing' <=> Closing
           /\ recorder'.phase = recorder.phase /\ recorder'.mic = recorder.mic
           /\ recorder'.aborted = recorder.aborted
           /\ recorder'.samples = IF recorder.aborted THEN recorder.samples
                                  ELSE recorder.samples \o Head(toPage)
           /\ recorder'.closing.mic = recorder.closing.mic
           /\ recorder'.closing.take = recorder.closing.take
           /\ UNCHANGED <<clock, asking, toWorker, worker, mics, pairs, takes>>
<1>1. toPage # <<>> /\ toPage' = Tail(toPage)
  BY DEF PageSamples
<1>2. toPage' \in Seq(Batches) /\ Head(toPage) \in Batches
  <2>1. toPage \in Seq(Batches)
    BY DEF CaptureTypeOK
  <2> QED
    BY <1>1, <2>1, TailIs
<1>3. UNCHANGED <<clock, asking, toWorker, worker, mics, pairs, mishaps, takes>>
  BY DEF PageSamples
<1>4. CASE recorder.aborted
  <2>1. recorder' = recorder
    BY <1>4 DEF PageSamples
  <2>2. CaptureTypeOK'
    BY <1>2, <1>3, <2>1 DEF CaptureTypeOK
  <2> QED
    BY <1>1, <1>3, <1>4, <2>1, <2>2 DEF Closing
<1>5. CASE ~recorder.aborted
  <2>1. recorder.samples \o Head(toPage) \in Batches
    <3>1. recorder.samples \in Batches
      BY DEF CaptureTypeOK, Recorders
    <3> QED
      BY <1>2, <3>1, ConcatProperties DEF Batches
  <2>2. recorder' = [recorder EXCEPT
            !.samples = recorder.samples \o Head(toPage),
            !.closing.flush = IF @ = "awaited" THEN "over" ELSE @]
    BY <1>5 DEF PageSamples
  <2>3. /\ recorder' \in Recorders
        /\ recorder'.phase = recorder.phase /\ recorder'.mic = recorder.mic
        /\ recorder'.aborted = recorder.aborted
        /\ recorder'.samples = recorder.samples \o Head(toPage)
        /\ recorder'.closing.mic = recorder.closing.mic
        /\ recorder'.closing.take = recorder.closing.take
        /\ recorder'.closing.flush
               = IF recorder.closing.flush = "awaited" THEN "over" ELSE recorder.closing.flush
    BY <2>1, <2>2 DEF CaptureTypeOK, Recorders, Closings
  <2>4. Closing' <=> Closing
    <3>1. recorder.closing \in Closings /\ recorder'.closing \in Closings
      BY <2>3 DEF CaptureTypeOK, Recorders
    <3>2. CASE recorder.closing.flush = "awaited"
      BY <2>3, <3>2 DEF Closing, NotClosing
    <3>3. CASE recorder.closing.flush # "awaited"
      <4>1. recorder'.closing = recorder.closing
        BY <2>3, <3>1, <3>3 DEF Closings
      <4> QED
        BY <4>1 DEF Closing
    <3> QED
      BY <3>2, <3>3
  <2>5. CaptureTypeOK'
    BY <1>2, <1>3, <2>3 DEF CaptureTypeOK
  <2> QED
    BY <1>1, <1>3, <1>5, <2>3, <2>4, <2>5
<1> QED
  BY <1>4, <1>5 DEF CaptureTypeOK, Recorders

\* What the page has of a microphone, what is under way to it and what the worklet has.
Sound(mic) == FlattenSeq(mic.chunks) \o (FlattenSeq(mic.posted) \o mic.buffer)

LEMMA SoundTyped ==
    ASSUME NEW mic \in Mics
    PROVE  /\ FlattenSeq(mic.chunks) \in Sounds /\ FlattenSeq(mic.posted) \in Sounds
           /\ mic.buffer \in Sounds /\ Sound(mic) \in Sounds
<1>1. Joins(Sounds)
  BY SequencesJoin DEF Sounds
<1>2. mic.chunks \in Seq(Sounds) /\ mic.posted \in Seq(Sounds) /\ mic.buffer \in Sounds
  BY DEF Mics
<1>3. FlattenSeq(mic.chunks) \in Sounds /\ FlattenSeq(mic.posted) \in Sounds
  BY <1>1, <1>2, FlattenTyped
<1> QED
  BY <1>1, <1>2, <1>3 DEF Joins, Sound

LEMMA PageSoundIs ==
    ASSUME CaptureTypeOK, NEW k \in DOMAIN mics, PageSound(k)
    PROVE  /\ CaptureTypeOK' /\ k \in 1 .. Latest
           /\ Replaced(mics, mics', k, mics'[k])
           /\ mics'[k].open = mics[k].open /\ mics'[k].from = mics[k].from
           /\ mics'[k].buffer = mics[k].buffer
           /\ Sound(mics'[k]) = Sound(mics[k])
           /\ UNCHANGED <<clock, recorder, asking, toWorker, worker, toPage, pairs, takes>>
<1>1. k \in 1 .. Latest /\ mics[k] \in Mics /\ k \in 1 .. Len(mics) /\ mics \in Seq(Mics)
  BY Elements DEF CaptureTypeOK
<1>2. mics[k].posted # <<>> /\ mics[k].posted \in Seq(Sounds) /\ mics[k].chunks \in Seq(Sounds)
  BY <1>1 DEF PageSound, Mics
<1>3. PICK block : block = Head(mics[k].posted)
  OBVIOUS
<1>4. PICK rest : rest = Tail(mics[k].posted)
  OBVIOUS
<1>5. PICK chunks : chunks = Append(mics[k].chunks, block)
  OBVIOUS
<1>6. block \in Sounds /\ rest \in Seq(Sounds)
  BY <1>2, <1>3, <1>4, TailIs
<1>7. chunks \in Seq(Sounds)
  BY <1>2, <1>5, <1>6, AppendIs
<1>8. PICK mic : mic = [mics[k] EXCEPT !.chunks = chunks, !.posted = rest]
  OBVIOUS
<1>9. /\ mic \in Mics /\ mic.open = mics[k].open /\ mic.from = mics[k].from
      /\ mic.buffer = mics[k].buffer /\ mic.chunks = chunks /\ mic.posted = rest
  BY <1>1, <1>6, <1>7, <1>8 DEF Mics
<1>10. mics' = [mics EXCEPT ![k] = mic]
  BY <1>1, <1>3, <1>4, <1>5, <1>8 DEF PageSound
<1>11. mics' \in Seq(Mics) /\ Replaced(mics, mics', k, mic)
  BY <1>1, <1>9, <1>10, ExceptIs
<1>12. mics'[k] = mic
  BY <1>11 DEF Replaced
<1>13. Sound(mic) = Sound(mics[k])
  <2>1. Joins(Sounds)
    BY SequencesJoin DEF Sounds
  <2>2. FlattenSeq(chunks) = FlattenSeq(mics[k].chunks) \o block
    BY <1>2, <1>5, <1>6, <2>1, FlattenAppend
  <2>3. FlattenSeq(mics[k].posted) = block \o FlattenSeq(rest)
    BY <1>2, <1>3, <1>4, <2>1, FlattenHead
  <2>4. /\ FlattenSeq(mics[k].chunks) \in Sounds /\ FlattenSeq(rest) \in Sounds
        /\ mics[k].buffer \in Sounds
    BY <1>1, <1>6, <2>1, SoundTyped, FlattenTyped
  <2>5. PICK head \in Sounds : head = FlattenSeq(mics[k].chunks)
    BY <2>4
  <2>6. PICK tail \in Sounds : tail = FlattenSeq(rest)
    BY <2>4
  <2>7. PICK buffer \in Sounds : buffer = mics[k].buffer
    BY <2>4
  <2>8. (head \o block) \o (tail \o buffer) = head \o ((block \o tail) \o buffer)
    <3>1. tail \o buffer \in Sounds
      BY <2>1 DEF Joins
    <3>2. (head \o block) \o (tail \o buffer) = head \o (block \o (tail \o buffer))
      BY <1>6, <2>1, <3>1 DEF Joins
    <3>3. (block \o tail) \o buffer = block \o (tail \o buffer)
      BY <1>6, <2>1 DEF Joins
    <3> QED
      BY <3>2, <3>3
  <2> QED
    BY <1>9, <2>2, <2>3, <2>5, <2>6, <2>7, <2>8 DEF Sound
<1>14. UNCHANGED <<clock, recorder, asking, toWorker, worker, toPage, pairs, mishaps, takes>>
  BY DEF PageSound
<1>15. CaptureTypeOK'
  BY <1>11, <1>14 DEF CaptureTypeOK, Replaced
<1> QED
  BY <1>1, <1>9, <1>11, <1>12, <1>13, <1>14, <1>15

LEMMA HeardIs ==
    ASSUME NEW mic \in Mics, NEW block \in Nat
    PROVE  /\ Heard(mic, block) \in Mics
           /\ Heard(mic, block).open = mic.open /\ Heard(mic, block).from = mic.from
           /\ mic.open => /\ Sound(Heard(mic, block)) = Sound(mic) \o <<block>>
                          /\ Len(Heard(mic, block).buffer) < SoundBatch
<1>1. Joins(Sounds)
  BY SequencesJoin DEF Sounds
<1>2. /\ mic.buffer \in Sounds /\ mic.posted \in Seq(Sounds) /\ mic.chunks \in Seq(Sounds)
      /\ mic.open \in BOOLEAN /\ mic.from \in Nat
  BY DEF Mics
<1>3. PICK buffer : buffer = Append(mic.buffer, block)
  OBVIOUS
<1>4. buffer \in Sounds /\ buffer = mic.buffer \o <<block>>
  BY <1>2, <1>3, AppendProperties, AppendIsConcat DEF Sounds
<1>5. <<block>> \in Sounds
  BY DEF Sounds
<1>6. PICK posted : posted = Append(mic.posted, buffer)
  OBVIOUS
<1>7. posted \in Seq(Sounds) /\ FlattenSeq(posted) = FlattenSeq(mic.posted) \o buffer
  BY <1>1, <1>2, <1>4, <1>6, AppendIs, FlattenAppend
<1>8. CASE ~mic.open
  BY <1>8 DEF Heard
<1>9. ASSUME mic.open
      PROVE  Sound(mic) \o <<block>> = FlattenSeq(mic.chunks) \o (FlattenSeq(mic.posted) \o buffer)
  <2>1. PICK chunks \in Sounds : chunks = FlattenSeq(mic.chunks)
    BY SoundTyped
  <2>2. PICK under \in Sounds : under = FlattenSeq(mic.posted)
    BY SoundTyped
  <2>3. PICK last \in Sounds : last = mic.buffer
    BY <1>2
  <2>4. PICK one \in Sounds : one = <<block>>
    BY <1>5
  <2>5. under \o last \in Sounds
    BY <1>1 DEF Joins
  <2>6. (chunks \o (under \o last)) \o one = chunks \o ((under \o last) \o one)
    BY <1>1, <2>5 DEF Joins
  <2>7. (under \o last) \o one = under \o (last \o one)
    BY <1>1 DEF Joins
  <2> QED
    BY <1>4, <2>1, <2>2, <2>3, <2>4, <2>6, <2>7 DEF Sound
<1>10. CASE mic.open /\ Len(buffer) < SoundBatch
  <2>1. Heard(mic, block) = [mic EXCEPT !.buffer = buffer]
    BY <1>3, <1>10 DEF Heard
  <2>2. PICK heard : heard = [mic EXCEPT !.buffer = buffer]
    OBVIOUS
  <2>3. /\ heard \in Mics /\ heard.open = mic.open /\ heard.from = mic.from
        /\ heard.buffer = buffer /\ heard.posted = mic.posted /\ heard.chunks = mic.chunks
    BY <1>4, <2>2 DEF Mics
  <2>4. Sound(heard) = Sound(mic) \o <<block>>
    BY <1>9, <1>10, <2>3 DEF Sound
  <2> QED
    BY <1>10, <2>1, <2>2, <2>3, <2>4
<1>11. CASE mic.open /\ ~(Len(buffer) < SoundBatch)
  <2>1. Heard(mic, block) = [mic EXCEPT !.buffer = <<>>, !.posted = posted]
    BY <1>3, <1>6, <1>11 DEF Heard
  <2>2. PICK heard : heard = [mic EXCEPT !.buffer = <<>>, !.posted = posted]
    OBVIOUS
  <2>3. /\ heard \in Mics /\ heard.open = mic.open /\ heard.from = mic.from
        /\ heard.buffer = <<>> /\ heard.posted = posted /\ heard.chunks = mic.chunks
    BY <1>7, <2>2, NoSounds DEF Mics
  <2>4. FlattenSeq(posted) \o <<>> = FlattenSeq(posted)
    BY <1>1, <1>7, FlattenTyped DEF Joins
  <2>5. Sound(heard) = Sound(mic) \o <<block>>
    BY <1>7, <1>9, <1>11, <2>3, <2>4 DEF Sound
  <2>6. Len(heard.buffer) < SoundBatch
    BY <2>3, CaptureAssumption
  <2> QED
    BY <1>11, <2>1, <2>2, <2>3, <2>5, <2>6
<1> QED
  BY <1>8, <1>10, <1>11

LEMMA PumpFrameIs ==
    ASSUME CaptureTypeOK, PumpFrame
    PROVE  /\ CaptureTypeOK' /\ clock' = clock + 1
           /\ Grown(toWorker, toWorker', [type |-> "frame", at |-> clock'])
           /\ \A k \in 1 .. Latest : mics'[k] = Heard(mics[k], clock')
           /\ UNCHANGED <<recorder, asking, worker, toPage, pairs, takes>>
<1>1. clock' = clock + 1 /\ clock' \in Nat
  BY DEF PumpFrame, CaptureTypeOK
<1>2. PICK now \in Nat : now = clock + 1
  BY <1>1
<1>3. [type |-> "frame", at |-> now] \in Messages
  BY DEF Messages, Frames
<1>4. /\ toWorker' \in Seq(Messages)
      /\ Grown(toWorker, toWorker', [type |-> "frame", at |-> now])
  BY <1>2, <1>3, PostIs DEF PumpFrame
<1>5. mics' = [k \in 1 .. Latest |-> Heard(mics[k], now)]
  BY <1>2, Elements DEF PumpFrame
<1>6. \A k \in 1 .. Latest : Heard(mics[k], now) \in Mics
  BY Elements, HeardIs
<1>7. mics' \in Seq(Mics) /\ Len(mics') = Latest
  <2>1. Latest \in Nat
    BY Elements
  <2>2. mics' \in [1 .. Latest -> Mics]
    BY <1>5, <1>6
  <2> HIDE DEF Latest
  <2> QED
    BY <2>1, <2>2, SeqDef, LenProperties
<1>8. UNCHANGED <<recorder, asking, worker, toPage, pairs, mishaps, takes>>
  BY DEF PumpFrame
<1>9. CaptureTypeOK'
  BY <1>1, <1>4, <1>7, <1>8 DEF CaptureTypeOK, Latest
<1> QED
  BY <1>1, <1>2, <1>4, <1>5, <1>8, <1>9

LEMMA ReadsIs ==
    ASSUME CaptureTypeOK, NEW type, Reads(type)
    PROVE  /\ toWorker' \in Seq(Messages) /\ Shrunk(toWorker, toWorker')
           /\ Head(toWorker) = toWorker[1] /\ toWorker[1] \in Messages /\ toWorker[1].type = type
           /\ 1 \in 1 .. Len(toWorker)
<1>1. toWorker \in Seq(Messages)
  BY DEF CaptureTypeOK
<1>2. /\ toWorker' \in Seq(Messages) /\ Shrunk(toWorker, toWorker')
      /\ Head(toWorker) = toWorker[1] /\ toWorker[1] \in Messages
  BY <1>1, TailIs DEF Reads
<1>3. Len(toWorker) \in Nat /\ Len(toWorker) # 0
  BY <1>1, <1>2, LenProperties DEF Shrunk
<1> QED
  BY <1>2, <1>3 DEF Reads

LEMMA WorkerStartIs ==
    ASSUME CaptureTypeOK, Numbered, WorkerStart, NEW k, k = toWorker[1].take
    PROVE  /\ CaptureTypeOK' /\ Latest' = Latest /\ k \in 1 .. Latest
           /\ Shrunk(toWorker, toWorker') /\ toWorker[1].type = "start" /\ 1 \in 1 .. Len(toWorker)
           /\ worker'.take = k /\ worker'.batch = <<>> /\ worker'.busy = worker.busy
           /\ worker'.delegate = worker.delegate
           /\ Replaced(takes, takes', k, takes'[k])
           /\ takes'[k].from = takes[k].from /\ takes'[k].pushed = takes[k].pushed
           /\ takes'[k].crossed <=> (takes[k].crossed \/ worker.busy # NoFrame)
           /\ UNCHANGED <<clock, recorder, asking, toPage, mics, pairs>>
<1>1. /\ toWorker' \in Seq(Messages) /\ Shrunk(toWorker, toWorker')
      /\ Head(toWorker) = toWorker[1] /\ toWorker[1].type = "start" /\ 1 \in 1 .. Len(toWorker)
  BY ReadsIs DEF WorkerStart
<1>2. k \in 1 .. Latest /\ k \in Nat
  BY <1>1, Elements DEF Numbered
<1>3. /\ worker' \in Workers /\ worker'.take = k /\ worker'.batch = <<>>
      /\ worker'.busy = worker.busy /\ worker'.delegate = worker.delegate
  BY <1>1, <1>2, NoSounds DEF WorkerStart, CaptureTypeOK, Workers
<1>4. takes[k] \in Takings /\ takes \in Seq(Takings) /\ k \in 1 .. Len(takes)
  BY <1>2, Elements DEF CaptureTypeOK, Latest
<1> DEFINE crossed == takes[k].crossed \/ worker.busy # NoFrame
<1>5. crossed \in BOOLEAN
  OBVIOUS
<1>6. Head(toWorker).take = k
  BY <1>1
<1>7. takes' = [takes EXCEPT ![k] = [takes[k] EXCEPT !.crossed = crossed]]
  <2>1. takes' = [takes EXCEPT ![k].crossed = @ \/ worker.busy # NoFrame]
    BY <1>6 DEF WorkerStart
  <2> QED
    BY <1>4, <2>1
<1> HIDE DEF crossed
<1>8. PICK take : take = [takes[k] EXCEPT !.crossed = crossed]
  OBVIOUS
<1>9. /\ take \in Takings /\ take.from = takes[k].from /\ take.pushed = takes[k].pushed
      /\ take.crossed = crossed
  BY <1>4, <1>5, <1>8 DEF Takings
<1>10. takes' \in Seq(Takings) /\ Replaced(takes, takes', k, take)
  <2>1. takes' = [takes EXCEPT ![k] = take]
    BY <1>7, <1>8
  <2> QED
    BY <1>4, <1>9, <2>1, ExceptIs
<1>11. takes'[k] = take /\ Latest' = Latest
  BY <1>10 DEF Replaced, Latest
<1>12. UNCHANGED <<clock, recorder, asking, toPage, mics, pairs, mishaps>>
  BY DEF WorkerStart
<1>13. CaptureTypeOK'
  BY <1>1, <1>3, <1>10, <1>11, <1>12 DEF CaptureTypeOK, Latest
<1> QED
  BY <1>1, <1>2, <1>3, <1>9, <1>10, <1>11, <1>12, <1>13 DEF crossed

LEMMA WorkerStopIs ==
    ASSUME CaptureTypeOK, WorkerStop
    PROVE  /\ CaptureTypeOK' /\ Shrunk(toWorker, toWorker')
           /\ toWorker[1].type = "stop" /\ 1 \in 1 .. Len(toWorker)
           /\ worker'.take = NoTake /\ worker'.batch = <<>> /\ worker'.busy = worker.busy
           /\ worker'.delegate = worker.delegate
           /\ \/ toPage' = toPage /\ (worker.take = NoTake \/ worker.batch = <<>>)
              \/ worker.take # NoTake /\ toPage' = Append(toPage, worker.batch)
           /\ UNCHANGED <<clock, recorder, asking, mics, pairs, takes>>
<1>1. /\ toWorker' \in Seq(Messages) /\ Shrunk(toWorker, toWorker')
      /\ toWorker[1].type = "stop" /\ 1 \in 1 .. Len(toWorker)
  BY ReadsIs DEF WorkerStop
<1>2. /\ worker' \in Workers /\ worker'.take = NoTake /\ worker'.batch = <<>>
      /\ worker'.busy = worker.busy /\ worker'.delegate = worker.delegate
  BY NoSounds DEF WorkerStop, CaptureTypeOK, Workers, NoTake
<1>3. \/ toPage' = toPage /\ (worker.take = NoTake \/ worker.batch = <<>>)
      \/ worker.take # NoTake /\ toPage' = Append(toPage, worker.batch)
  BY DEF WorkerStop, Flush
<1>4. toPage' \in Seq(Batches)
  <2>1. worker.batch \in Batches /\ toPage \in Seq(Batches)
    BY DEF CaptureTypeOK, Workers
  <2> QED
    BY <1>3, <2>1, AppendIs
<1>5. UNCHANGED <<clock, recorder, asking, mics, pairs, mishaps, takes>>
  BY DEF WorkerStop
<1>6. CaptureTypeOK'
  BY <1>1, <1>2, <1>4, <1>5 DEF CaptureTypeOK
<1> QED
  BY <1>1, <1>2, <1>3, <1>5, <1>6

\* The worker w takes the scores of frame f for its take.
SampleOf(w, f) == [t |-> f.at - takes[w.take].from, frame |-> f.at]
Pushes(w, f) ==
    /\ w.take \in 1 .. Latest
    /\ Replaced(takes, takes', w.take, takes'[w.take])
    /\ takes'[w.take].from = takes[w.take].from
    /\ takes'[w.take].crossed = takes[w.take].crossed
    /\ takes'[w.take].pushed = Append(takes[w.take].pushed, SampleOf(w, f))
    /\ \/ toPage' = Append(toPage, Append(w.batch, SampleOf(w, f))) /\ worker'.batch = <<>>
       \/ toPage' = toPage /\ worker'.batch = Append(w.batch, SampleOf(w, f))

LEMMA InferredIs ==
    ASSUME CaptureTypeOK, NEW w \in Workers, NEW f \in Frames, w.take \in 0 .. Latest,
           Inferred(w, f)
    PROVE  /\ worker' \in Workers /\ takes' \in Seq(Takings) /\ toPage' \in Seq(Batches)
           /\ Latest' = Latest
           /\ worker'.take = w.take /\ worker'.busy = w.busy /\ worker'.delegate = w.delegate
           /\ (worker' = w /\ UNCHANGED <<toPage, takes>>) \/ Pushes(w, f)
<1>1. CASE worker' = w /\ UNCHANGED <<toPage, takes>>
  BY <1>1 DEF CaptureTypeOK, Latest
<1>2. CASE ~(worker' = w /\ UNCHANGED <<toPage, takes>>)
  <2>1. w.take # NoTake
    BY <1>2 DEF Inferred
  <2>2. PICK k : k = w.take
    OBVIOUS
  <2>3. k \in 1 .. Latest /\ k \in 1 .. Len(takes) /\ k \in Nat
    BY <2>1, <2>2, Elements DEF NoTake, Latest
  <2>4. takes[k] \in Takings /\ takes \in Seq(Takings)
    BY <2>3, Elements DEF CaptureTypeOK
  <2>5. PICK sample : sample = SampleOf(w, f)
    OBVIOUS
  <2>6. sample \in [t : Int, frame : Nat]
    BY <2>2, <2>4, <2>5 DEF SampleOf, Takings, Frames
  <2>7. PICK batch : batch = Append(w.batch, sample)
    OBVIOUS
  <2>8. batch \in Batches /\ batch # <<>>
    <3>1. w.batch \in Batches
      BY DEF Workers
    <3> QED
      BY <2>6, <2>7, <3>1, AppendProperties DEF Batches
  <2>9. PICK pushed : pushed = Append(takes[k].pushed, sample)
    OBVIOUS
  <2>10. pushed \in Batches
    <3>1. takes[k].pushed \in Batches
      BY <2>4 DEF Takings
    <3> QED
      BY <2>6, <2>9, <3>1, AppendProperties DEF Batches
  <2>11. PICK take : take = [takes[k] EXCEPT !.pushed = pushed]
    OBVIOUS
  <2>12. /\ take \in Takings /\ take.from = takes[k].from /\ take.crossed = takes[k].crossed
         /\ take.pushed = pushed
    BY <2>4, <2>10, <2>11 DEF Takings
  <2>13. /\ takes' = [takes EXCEPT ![k].pushed = Append(@, sample)]
         /\ \/ Flush(batch) /\ worker' = [w EXCEPT !.batch = <<>>]
            \/ UNCHANGED toPage /\ worker' = [w EXCEPT !.batch = batch]
    BY <1>2, <2>2, <2>5, <2>7 DEF Inferred, SampleOf
  <2>14. takes' = [takes EXCEPT ![k] = take]
    BY <2>4, <2>9, <2>11, <2>13
  <2>15. takes' \in Seq(Takings) /\ Replaced(takes, takes', k, take)
    BY <2>3, <2>4, <2>12, <2>14, ExceptIs
  <2>16. takes'[k] = take /\ Latest' = Latest
    BY <2>15 DEF Replaced, Latest
  <2>17. /\ worker' \in Workers /\ toPage' \in Seq(Batches)
         /\ worker'.take = w.take /\ worker'.busy = w.busy /\ worker'.delegate = w.delegate
         /\ \/ toPage' = Append(toPage, batch) /\ worker'.batch = <<>>
            \/ toPage' = toPage /\ worker'.batch = batch
    <3>1. toPage \in Seq(Batches)
      BY DEF CaptureTypeOK
    <3>2. CASE Flush(batch) /\ worker' = [w EXCEPT !.batch = <<>>]
      <4>1. toPage' = Append(toPage, batch)
        BY <2>8, <3>2 DEF Flush
      <4>2. toPage' \in Seq(Batches)
        BY <2>8, <3>1, <4>1, AppendIs
      <4> QED
        BY <3>2, <4>1, <4>2, NoSounds DEF Workers
    <3>3. CASE UNCHANGED toPage /\ worker' = [w EXCEPT !.batch = batch]
      BY <2>8, <3>1, <3>3 DEF Workers
    <3> QED
      BY <2>13, <3>2, <3>3
  <2>18. Pushes(w, f)
    BY <2>2, <2>3, <2>5, <2>7, <2>9, <2>12, <2>15, <2>16, <2>17 DEF Pushes
  <2> QED
    BY <2>15, <2>16, <2>17, <2>18
<1> QED
  BY <1>1, <1>2

LEMMA WorkerFrameIs ==
    ASSUME CaptureTypeOK, Numbered, WorkerFrame, NEW f, f = toWorker[1]
    PROVE  /\ CaptureTypeOK' /\ Latest' = Latest
           /\ Shrunk(toWorker, toWorker') /\ f \in Frames /\ 1 \in 1 .. Len(toWorker)
           /\ worker'.take = worker.take
           /\ \/ UNCHANGED <<worker, toPage, takes>>
              \/ /\ worker'.busy = worker.busy /\ worker'.delegate = worker.delegate
                 /\ Pushes(worker, f) /\ worker.delegate # "none"
              \/ /\ worker'.busy = f /\ worker'.delegate = "none" /\ worker'.batch = worker.batch
                 /\ UNCHANGED <<toPage, takes>>
           /\ UNCHANGED <<clock, recorder, asking, mics, pairs>>
<1>1. /\ toWorker' \in Seq(Messages) /\ Shrunk(toWorker, toWorker')
      /\ Head(toWorker) = f /\ f \in Messages /\ f.type = "frame" /\ 1 \in 1 .. Len(toWorker)
  BY ReadsIs DEF WorkerFrame
<1>2. f \in Frames
  BY <1>1, MessageKinds
<1>3. worker \in Workers /\ worker.take \in 0 .. Latest
  BY DEF CaptureTypeOK, Numbered
<1>4. UNCHANGED <<clock, recorder, asking, mics, pairs>>
  BY DEF WorkerFrame
<1>5. CASE UNCHANGED <<worker, toPage, takes, mishaps>>
  <2>1. CaptureTypeOK'
    BY <1>1, <1>4, <1>5 DEF CaptureTypeOK
  <2> QED
    BY <1>1, <1>2, <1>4, <1>5, <2>1 DEF Latest
<1>6. CASE worker.delegate # "none" /\ Inferred(worker, f) /\ UNCHANGED mishaps
  <2>1. /\ worker' \in Workers /\ takes' \in Seq(Takings) /\ toPage' \in Seq(Batches)
        /\ Latest' = Latest
        /\ worker'.take = worker.take /\ worker'.busy = worker.busy
        /\ worker'.delegate = worker.delegate
        /\ UNCHANGED <<worker, toPage, takes>> \/ Pushes(worker, f)
    BY <1>2, <1>3, <1>6, InferredIs
  <2>2. CaptureTypeOK'
    BY <1>1, <1>4, <1>6, <2>1 DEF CaptureTypeOK, Latest
  <2> QED
    BY <1>1, <1>2, <1>4, <1>6, <2>1, <2>2
<1>7. CASE /\ Mishap
           /\ worker' = [worker EXCEPT !.delegate = "none", !.busy = f]
           /\ UNCHANGED <<toPage, takes>>
  <2>1. /\ worker' \in Workers /\ worker'.take = worker.take /\ worker'.batch = worker.batch
        /\ worker'.busy = f /\ worker'.delegate = "none"
    <3>1. worker' = [worker EXCEPT !.delegate = "none", !.busy = f]
      BY <1>7
    <3> QED
      BY <1>2, <1>3, <3>1 DEF Workers
  <2>2. mishaps' \in Nat
    BY <1>7 DEF Mishap, CaptureTypeOK
  <2>3. CaptureTypeOK'
    BY <1>1, <1>4, <1>7, <2>1, <2>2 DEF CaptureTypeOK
  <2> QED
    BY <1>1, <1>2, <1>4, <1>7, <2>1, <2>3 DEF Latest
<1> QED
  BY <1>1, <1>5, <1>6, <1>7 DEF WorkerFrame

LEMMA RecoveredIs ==
    ASSUME CaptureTypeOK, Numbered, Recovered
    PROVE  /\ CaptureTypeOK' /\ Latest' = Latest /\ worker.busy \in Frames
           /\ worker'.take = worker.take /\ worker'.busy = NoFrame
           /\ \/ worker'.batch = worker.batch /\ UNCHANGED <<toPage, takes>>
              \/ Pushes(worker, worker.busy)
           /\ UNCHANGED <<clock, recorder, asking, toWorker, mics, pairs>>
<1>1. worker \in Workers /\ worker.take \in 0 .. Latest
  BY DEF CaptureTypeOK, Numbered
<1>2. worker.busy \in Frames
  BY <1>1 DEF Recovered, Workers
<1>3. UNCHANGED <<clock, recorder, asking, toWorker, mics, pairs, mishaps>>
  BY DEF Recovered
<1>4. CASE worker' = [worker EXCEPT !.busy = NoFrame] /\ UNCHANGED <<toPage, takes>>
  <2>1. /\ worker' \in Workers /\ worker'.take = worker.take /\ worker'.batch = worker.batch
        /\ worker'.busy = NoFrame
    BY <1>1, <1>4 DEF Workers
  <2>2. CaptureTypeOK'
    BY <1>3, <1>4, <2>1 DEF CaptureTypeOK
  <2> QED
    BY <1>2, <1>3, <1>4, <2>1, <2>2 DEF Latest
<1>5. CASE Inferred([worker EXCEPT !.delegate = "CPU", !.busy = NoFrame], worker.busy)
  <2>1. PICK w : w = [worker EXCEPT !.delegate = "CPU", !.busy = NoFrame]
    OBVIOUS
  <2>2. w \in Workers /\ w.take = worker.take /\ w.batch = worker.batch /\ w.busy = NoFrame
    BY <1>1, <2>1 DEF Workers
  <2>3. w.take \in 0 .. Latest /\ Inferred(w, worker.busy)
    BY <1>1, <1>5, <2>1, <2>2
  <2>4. /\ worker' \in Workers /\ takes' \in Seq(Takings) /\ toPage' \in Seq(Batches)
        /\ Latest' = Latest /\ worker'.take = w.take /\ worker'.busy = w.busy
        /\ (worker' = w /\ UNCHANGED <<toPage, takes>>) \/ Pushes(w, worker.busy)
    BY <1>2, <2>2, <2>3, InferredIs
  <2>5. Pushes(w, worker.busy) => Pushes(worker, worker.busy)
    BY <2>2 DEF Pushes, SampleOf
  <2>6. CaptureTypeOK'
    BY <1>3, <2>4 DEF CaptureTypeOK, Latest
  <2> QED
    BY <1>2, <1>3, <2>2, <2>4, <2>5, <2>6
<1> QED
  BY <1>4, <1>5 DEF Recovered

-----------------------------------------------------------------------------
(* The numbers of takes and microphones *)

\* An element of a queue that has grown or shrunk was in it, but for the new one.
LEMMA GrownFrom ==
    ASSUME NEW q, NEW r, NEW e, Len(q) \in Nat, Grown(q, r, e), NEW i \in 1 .. Len(r)
    PROVE  (i \in 1 .. Len(q) /\ r[i] = q[i]) \/ (i = Len(r) /\ r[i] = e)
BY DEF Grown

LEMMA ShrunkFrom ==
    ASSUME NEW q, NEW r, Len(q) \in Nat, Shrunk(q, r), NEW i \in 1 .. Len(r)
    PROVE  i + 1 \in 1 .. Len(q) /\ r[i] = q[i + 1]
BY DEF Shrunk

LEMMA NumberedKept ==
    ASSUME CaptureTypeOK, Numbered, CaptureNext
    PROVE  CaptureTypeOK' /\ Numbered'
<1>1. /\ Latest \in Nat /\ Len(toWorker) \in Nat /\ Len(pairs) \in Nat
      /\ DOMAIN mics = 1 .. Latest
  BY Elements
<1>2. \A i \in 1 .. Len(pairs) :
          pairs[i].audio \in (1 .. Latest) \ asking /\ pairs[i].take \in 1 .. Latest
  BY DEF Numbered
<1>3. \A i \in 1 .. Len(toWorker) :
         toWorker[i].type = "start" => toWorker[i].take \in 1 .. Latest
  BY DEF Numbered
<1>4. CASE StartTake
  <2>1. PICK n \in Nat : n = Latest + 1
    BY <1>1
  <2>2. /\ CaptureTypeOK' /\ Latest' = n
        /\ Grown(toWorker, toWorker', [type |-> "start", take |-> n])
        /\ recorder'.phase = "ready"
        /\ recorder'.mic = recorder.mic /\ recorder'.closing = recorder.closing
        /\ asking' = asking \cup {n}
        /\ UNCHANGED <<worker, pairs>>
    BY <1>4, <2>1, StartTakeIs
  <2>3. n \notin 1 .. Latest /\ n \in 1 .. n /\ \A k \in 1 .. Latest : k \in 1 .. n
    BY <1>1, <2>1
  <2>4. worker'.take \in 0 .. Latest'
    BY <1>1, <2>1, <2>2 DEF Numbered
  <2>5. ASSUME NEW i \in 1 .. Len(toWorker'), toWorker'[i].type = "start"
        PROVE  toWorker'[i].take \in 1 .. n
    BY <1>1, <1>3, <2>2, <2>3, <2>5, GrownFrom
  <2>6. Closing' => Closing
    BY <2>2 DEF Closing
  <2>7. \A k \in (1 .. Latest) \ asking : k \in (1 .. n) \ (asking \cup {n})
    BY <2>3
  <2>8. Closing => /\ recorder.closing.mic \in (1 .. Latest) \ asking
                   /\ recorder.closing.mic # recorder.mic
                   /\ recorder.closing.take \in 1 .. Latest
    BY DEF Numbered
  <2> QED
    BY <1>2, <2>2, <2>3, <2>4, <2>5, <2>6, <2>7, <2>8 DEF Numbered
<1>5. ASSUME NEW k \in asking, MicAnswers(k)
      PROVE  CaptureTypeOK' /\ Numbered'
  <2>1. /\ CaptureTypeOK' /\ k \in 1 .. Latest /\ asking' = asking \ {k}
        /\ UNCHANGED <<worker, pairs, takes>>
        /\ recorder'.closing = recorder.closing
        /\ \/ recorder'.mic = k /\ toWorker' = toWorker
           \/ /\ recorder'.mic \in {recorder.mic, k} /\ recorder'.phase = "ready"
              /\ Grown(toWorker, toWorker', [type |-> "stop"])
    BY <1>5, MicAnswersIs
  <2>2. Latest' = Latest
    BY <2>1 DEF Latest
  <2>3. ASSUME NEW i \in 1 .. Len(toWorker'), toWorker'[i].type = "start"
        PROVE  toWorker'[i].take \in 1 .. Latest
    BY <1>1, <1>3, <2>1, <2>3, GrownFrom, StopMessage
  <2>4. Closing' <=> Closing
    BY <2>1 DEF Closing
  <2> QED
    BY <1>2, <2>1, <2>2, <2>3, <2>4 DEF Numbered
<1>6. CASE StopTake
  <2>1. /\ CaptureTypeOK' /\ recorder.phase = "recording"
        /\ recorder'.phase = "encoding" /\ recorder'.mic = NoTake
        /\ recorder'.closing.mic = recorder.mic /\ recorder'.closing.take = Latest
        /\ Grown(toWorker, toWorker', [type |-> "stop"])
        /\ UNCHANGED <<asking, worker, pairs, takes>>
    BY <1>6, StopTakeIs
  <2>2. Latest' = Latest
    BY <2>1 DEF Latest
  <2>3. ASSUME NEW i \in 1 .. Len(toWorker'), toWorker'[i].type = "start"
        PROVE  toWorker'[i].take \in 1 .. Latest
    BY <1>1, <1>3, <2>1, <2>3, GrownFrom, StopMessage
  <2>4. recorder.mic \in (1 .. Latest) \ asking /\ recorder.mic # NoTake /\ Latest \in 1 .. Latest
    BY <1>1, <2>1 DEF Numbered, NoTake
  <2> QED
    BY <1>2, <2>1, <2>2, <2>3, <2>4 DEF Numbered
<1>7. CASE FlushTimesOut
  <2>1. /\ CaptureTypeOK' /\ Closing /\ Closing'
        /\ recorder'.phase = recorder.phase /\ recorder'.mic = recorder.mic
        /\ recorder'.closing.mic = recorder.closing.mic
        /\ recorder'.closing.take = recorder.closing.take
        /\ UNCHANGED <<asking, toWorker, worker, pairs, takes>>
    BY <1>7, FlushTimesOutIs
  <2> QED
    BY <2>1 DEF Numbered, Latest
<1>8. CASE MakePair
  <2>1. /\ CaptureTypeOK' /\ Closing /\ ~Closing' /\ recorder'.phase = "ready"
        /\ \/ pairs' = pairs
           \/ Grown(pairs, pairs', PairMade)
        /\ UNCHANGED <<asking, toWorker, worker, takes>>
    BY <1>8, MakePairIs
  <2>2. /\ PairMade.audio \in (1 .. Latest) \ asking
        /\ PairMade.take \in 1 .. Latest
    BY <2>1 DEF Numbered, PairMade
  <2>3. ASSUME NEW i \in 1 .. Len(pairs')
        PROVE  pairs'[i].audio \in (1 .. Latest) \ asking /\ pairs'[i].take \in 1 .. Latest
    <3> HIDE DEF PairMade
    <3> QED
      BY <1>1, <1>2, <2>1, <2>2, GrownFrom
  <2>4. Latest' = Latest
    BY <2>1 DEF Latest
  <2> QED
    BY <2>1, <2>3, <2>4 DEF Numbered
<1>9. CASE PageSamples
  <2>1. /\ CaptureTypeOK'
        /\ Closing' <=> Closing
        /\ recorder'.phase = recorder.phase /\ recorder'.mic = recorder.mic
        /\ recorder'.closing.mic = recorder.closing.mic
        /\ recorder'.closing.take = recorder.closing.take
        /\ UNCHANGED <<asking, toWorker, worker, pairs, takes>>
    BY <1>9, PageSamplesIs
  <2> QED
    BY <2>1 DEF Numbered, Latest
<1>10. ASSUME NEW k \in DOMAIN mics, PageSound(k)
       PROVE  CaptureTypeOK' /\ Numbered'
  <2>1. /\ CaptureTypeOK'
        /\ UNCHANGED <<recorder, asking, toWorker, worker, pairs, takes>>
    BY <1>10, PageSoundIs
  <2> QED
    BY <2>1 DEF Numbered, Latest, Closing
<1>11. CASE PumpFrame
  <2>1. /\ CaptureTypeOK'
        /\ Grown(toWorker, toWorker', [type |-> "frame", at |-> clock'])
        /\ UNCHANGED <<recorder, asking, worker, pairs, takes>>
    BY <1>11, PumpFrameIs
  <2>2. ASSUME NEW i \in 1 .. Len(toWorker'), toWorker'[i].type = "start"
        PROVE  toWorker'[i].take \in 1 .. Latest
    <3>1. [type |-> "frame", at |-> clock'].type = "frame"
      OBVIOUS
    <3> QED
      BY <1>1, <1>3, <2>1, <2>2, <3>1, GrownFrom
  <2> QED
    BY <1>2, <2>1, <2>2 DEF Numbered, Latest, Closing
<1>12. CASE WorkerStart
  <2>1. PICK k : k = toWorker[1].take
    OBVIOUS
  <2>2. /\ CaptureTypeOK' /\ Latest' = Latest /\ k \in 1 .. Latest
        /\ Shrunk(toWorker, toWorker')
        /\ worker'.take = k
        /\ UNCHANGED <<recorder, asking, pairs>>
    BY <1>12, <2>1, WorkerStartIs
  <2>3. ASSUME NEW i \in 1 .. Len(toWorker'), toWorker'[i].type = "start"
        PROVE  toWorker'[i].take \in 1 .. Latest
    BY <1>1, <1>3, <2>2, <2>3, ShrunkFrom
  <2>4. Closing' <=> Closing
    BY <2>2 DEF Closing
  <2> QED
    BY <1>1, <1>2, <2>2, <2>3, <2>4 DEF Numbered
<1>13. CASE WorkerFrame
  <2>1. /\ CaptureTypeOK' /\ Latest' = Latest /\ Shrunk(toWorker, toWorker')
        /\ worker'.take = worker.take
        /\ UNCHANGED <<recorder, asking, pairs>>
    BY <1>13, WorkerFrameIs
  <2>2. ASSUME NEW i \in 1 .. Len(toWorker'), toWorker'[i].type = "start"
        PROVE  toWorker'[i].take \in 1 .. Latest
    BY <1>1, <1>3, <2>1, <2>2, ShrunkFrom
  <2>3. Closing' <=> Closing
    BY <2>1 DEF Closing
  <2> QED
    BY <1>1, <1>2, <2>1, <2>2, <2>3 DEF Numbered
<1>14. CASE WorkerStop
  <2>1. /\ CaptureTypeOK' /\ Shrunk(toWorker, toWorker')
        /\ worker'.take = NoTake
        /\ UNCHANGED <<recorder, asking, pairs, takes>>
    BY <1>14, WorkerStopIs
  <2>2. ASSUME NEW i \in 1 .. Len(toWorker'), toWorker'[i].type = "start"
        PROVE  toWorker'[i].take \in 1 .. Latest
    BY <1>1, <1>3, <2>1, <2>2, ShrunkFrom
  <2>3. (Closing' <=> Closing) /\ Latest' = Latest
    BY <2>1 DEF Closing, Latest
  <2> QED
    BY <1>1, <1>2, <2>1, <2>2, <2>3 DEF Numbered, NoTake
<1>15. CASE Recovered
  <2>1. /\ CaptureTypeOK' /\ Latest' = Latest
        /\ worker'.take = worker.take
        /\ UNCHANGED <<recorder, asking, pairs, toWorker>>
    BY <1>15, RecoveredIs
  <2>2. Closing' <=> Closing
    BY <2>1 DEF Closing
  <2> QED
    BY <1>1, <2>1, <2>2 DEF Numbered
<1> QED
  BY <1>4, <1>5, <1>6, <1>7, <1>8, <1>9, <1>10, <1>11, <1>12, <1>13, <1>14, <1>15 DEF CaptureNext

-----------------------------------------------------------------------------
(* What a microphone has heard *)

\* All there was from its opening to now, and less than a batch is not posted.
Hears(mic, now) ==
    /\ Sound(mic) = [n \in 1 .. now - mic.from |-> mic.from + n]
    /\ Len(mic.buffer) < SoundBatch
    /\ mic.from <= now

SoundInv ==
    /\ recorder.phase = "recording" => mics[recorder.mic].open
    /\ Closing => mics[recorder.closing.mic].open
    /\ \A k \in 1 .. Latest : mics[k].open => k \notin asking /\ Hears(mics[k], clock)

LEMMA NewMic ==
    ASSUME CaptureTypeOK, NEW open \in BOOLEAN
    PROVE  Mic(open).open = open /\ Hears(Mic(open), clock)
<1>1. /\ Mic(open).open = open /\ Mic(open).from = clock /\ Mic(open).buffer = <<>>
      /\ Mic(open).posted = <<>> /\ Mic(open).chunks = <<>>
  BY DEF Mic
<1>2. Sound(Mic(open)) = <<>>
  <2>1. <<>> \o <<>> = <<>> /\ <<>> \o (<<>> \o <<>>) = <<>>
    OBVIOUS
  <2> QED
    BY <1>1, <2>1, FlattenEmpty DEF Sound
<1>3. clock \in Nat
  BY DEF CaptureTypeOK
<1>4. <<>> = [n \in 1 .. clock - clock |-> clock + n]
  <2>1. 1 .. clock - clock = {}
    BY <1>3
  <2> QED
    BY <2>1
<1> QED
  BY <1>1, <1>2, <1>3, <1>4, CaptureAssumption DEF Hears

LEMMA RunsOn ==
    ASSUME NEW from \in Nat, NEW len \in Nat, NEW last, last = from + len + 1
    PROVE  [n \in 1 .. len |-> from + n] \o <<last>> = [n \in 1 .. len + 1 |-> from + n]
<1>1. PICK sound : sound = [n \in 1 .. len |-> from + n]
  OBVIOUS
<1>2. sound \in Seq(Nat) /\ Len(sound) = len /\ \A n \in 1 .. len : sound[n] = from + n
  BY <1>1
<1>3. PICK next \in Nat : next = len + 1
  OBVIOUS
<1>4. PICK more : more = [n \in 1 .. next |-> from + n]
  OBVIOUS
<1>5. more \in Seq(Nat) /\ Len(more) = next /\ \A n \in 1 .. next : more[n] = from + n
  BY <1>4
<1>6. PICK longer : longer = Append(sound, last)
  OBVIOUS
<1>7. last \in Nat
  OBVIOUS
<1>8. longer \in Seq(Nat) /\ Grown(sound, longer, last)
  BY <1>2, <1>6, <1>7, AppendIs
<1>9. Len(longer) = next /\ longer[next] = last /\ \A n \in 1 .. len : longer[n] = sound[n]
  BY <1>2, <1>3, <1>8 DEF Grown
<1>10. more[next] = last
  BY <1>3, <1>5
<1>11. ASSUME NEW n \in 1 .. next
       PROVE  longer[n] = more[n]
  <2>1. CASE n = next
    BY <1>9, <1>10, <2>1
  <2>2. CASE n # next
    <3>1. n \in 1 .. len
      BY <1>3, <2>2
    <3> QED
      BY <1>2, <1>5, <1>9, <3>1
  <2> QED
    BY <2>1, <2>2
<1>12. longer = more
  BY <1>5, <1>8, <1>9, <1>11, SeqEqual
<1>13. longer = sound \o <<last>>
  BY <1>2, <1>6, <1>7, AppendIsConcat
<1> QED
  BY <1>1, <1>3, <1>4, <1>12, <1>13

LEMMA HearsOn ==
    ASSUME NEW mic \in Mics, mic.open, NEW now \in Nat, Hears(mic, now),
           NEW next \in Nat, next = now + 1
    PROVE  Hears(Heard(mic, next), next)
<1>1. PICK heard : heard = Heard(mic, next)
  OBVIOUS
<1>2. /\ heard.from = mic.from /\ Sound(heard) = Sound(mic) \o <<next>>
      /\ Len(heard.buffer) < SoundBatch
  BY <1>1, HeardIs
<1>3. mic.from \in Nat /\ mic.from <= now
  BY DEF Mics, Hears
<1>4. PICK from \in Nat : from = mic.from /\ from <= now
  BY <1>3
<1>5. PICK len \in Nat : len = now - from
  BY <1>4
<1>6. Sound(mic) = [n \in 1 .. len |-> from + n]
  BY <1>4, <1>5 DEF Hears
<1>7. next = from + len + 1 /\ len + 1 = next - from
  BY <1>4, <1>5
<1>8. Sound(heard) = [n \in 1 .. len + 1 |-> from + n]
  BY <1>2, <1>6, <1>7, RunsOn
<1>9. heard.from = from /\ from <= next
  BY <1>2, <1>4
<1>10. Hears(heard, next)
  BY <1>2, <1>7, <1>8, <1>9 DEF Hears
<1> QED
  BY <1>1, <1>10

LEMMA SoundKept ==
    ASSUME CaptureTypeOK, Numbered, SoundInv, CaptureNext
    PROVE  SoundInv'
<1>1. Latest \in Nat /\ Len(mics) = Latest /\ DOMAIN mics = 1 .. Latest /\ clock \in Nat
  BY Elements DEF CaptureTypeOK
<1>2. \A k \in 1 .. Latest : mics[k].open => k \notin asking /\ Hears(mics[k], clock)
  BY DEF SoundInv
<1>3. CASE StartTake
  <2>1. PICK n \in Nat : n = Latest + 1
    BY <1>1
  <2>2. /\ Latest' = n /\ Grown(mics, mics', Mic(FALSE))
        /\ recorder'.phase = "ready" /\ recorder'.closing = recorder.closing
        /\ asking' = asking \cup {n} /\ clock' = clock
    BY <1>3, <2>1, StartTakeIs
  <2>3. ~Mic(FALSE).open
    BY NewMic
  <2>4. /\ Len(mics') = n /\ mics'[n] = Mic(FALSE)
        /\ \A k \in 1 .. Latest : mics'[k] = mics[k] /\ k # n
    BY <1>1, <2>1, <2>2 DEF Grown
  <2>5. \A k \in 1 .. n : k \in 1 .. Latest \/ k = n
    BY <1>1, <2>1
  <2>6. \A k \in 1 .. n : mics'[k].open => k \notin asking' /\ Hears(mics'[k], clock')
    BY <1>2, <2>2, <2>3, <2>4, <2>5
  <2>7. Closing' => mics'[recorder'.closing.mic].open
    <3>1. Closing => recorder.closing.mic \in 1 .. Latest /\ mics[recorder.closing.mic].open
      BY DEF Numbered, SoundInv
    <3> QED
      BY <2>2, <2>4, <3>1 DEF Closing
  <2> QED
    BY <2>2, <2>6, <2>7 DEF SoundInv
<1>4. ASSUME NEW k \in asking, MicAnswers(k)
      PROVE  SoundInv'
  <2>1. /\ k \in 1 .. Latest /\ asking' = asking \ {k}
        /\ UNCHANGED <<clock, takes>>
        /\ recorder'.closing = recorder.closing
        /\ \/ recorder'.mic = k /\ Replaced(mics, mics', k, Mic(TRUE))
           \/ recorder'.phase = "ready" /\ mics' = mics
    BY <1>4, MicAnswersIs
  <2>2. Latest' = Latest /\ (Closing' <=> Closing)
    BY <2>1 DEF Latest, Closing
  <2>3. Closing => /\ recorder.closing.mic \in 1 .. Latest /\ recorder.closing.mic # k
                   /\ mics[recorder.closing.mic].open
    BY DEF Numbered, SoundInv
  <2>4. Mic(TRUE).open /\ Hears(Mic(TRUE), clock)
    BY NewMic
  <2>5. CASE recorder'.mic = k /\ Replaced(mics, mics', k, Mic(TRUE))
    <3>1. mics'[k] = Mic(TRUE) /\ \A m \in 1 .. Latest : m # k => mics'[m] = mics[m]
      BY <1>1, <2>5 DEF Replaced
    <3>2. \A m \in 1 .. Latest : mics'[m].open => m \notin asking' /\ Hears(mics'[m], clock')
      BY <1>2, <2>1, <2>4, <3>1
    <3> QED
      BY <2>1, <2>2, <2>3, <2>4, <2>5, <3>1, <3>2 DEF SoundInv
  <2>6. CASE recorder'.phase = "ready" /\ mics' = mics
    BY <1>2, <2>1, <2>2, <2>3, <2>6 DEF SoundInv
  <2> QED
    BY <2>1, <2>5, <2>6
<1>5. CASE StopTake
  <2>1. /\ recorder.phase = "recording" /\ recorder'.phase = "encoding"
        /\ recorder'.closing.mic = recorder.mic
        /\ UNCHANGED <<clock, asking, mics, takes>>
    BY <1>5, StopTakeIs
  <2> QED
    BY <2>1 DEF SoundInv, Latest
<1>6. CASE FlushTimesOut
  <2>1. /\ Closing
        /\ recorder'.phase = recorder.phase /\ recorder'.mic = recorder.mic
        /\ recorder'.closing.mic = recorder.closing.mic
        /\ UNCHANGED <<clock, asking, mics, takes>>
    BY <1>6, FlushTimesOutIs
  <2> QED
    BY <2>1 DEF SoundInv, Latest
<1>7. CASE MakePair
  <2>1. PICK k : k = recorder.closing.mic
    OBVIOUS
  <2>2. /\ ~Closing' /\ recorder'.phase = "ready"
        /\ Replaced(mics, mics', k, Stopped(mics[k]))
        /\ UNCHANGED <<clock, asking, takes>>
    BY <1>7, <2>1, MakePairIs
  <2>3. ~Stopped(mics[k]).open
    BY DEF Stopped, Mic
  <2>4. mics'[k] = Stopped(mics[k]) /\ \A m \in 1 .. Latest : m # k => mics'[m] = mics[m]
    BY <1>1, <2>2 DEF Replaced
  <2>5. \A m \in 1 .. Latest : mics'[m].open => m \notin asking' /\ Hears(mics'[m], clock')
    BY <1>2, <2>2, <2>3, <2>4
  <2> QED
    BY <2>2, <2>5 DEF SoundInv, Latest
<1>8. CASE PageSamples
  <2>1. /\ Closing' <=> Closing
        /\ recorder'.phase = recorder.phase /\ recorder'.mic = recorder.mic
        /\ recorder'.closing.mic = recorder.closing.mic
        /\ UNCHANGED <<clock, asking, mics, takes>>
    BY <1>8, PageSamplesIs
  <2> QED
    BY <2>1 DEF SoundInv, Latest
<1>9. ASSUME NEW k \in DOMAIN mics, PageSound(k)
      PROVE  SoundInv'
  <2>1. /\ k \in 1 .. Latest
        /\ Replaced(mics, mics', k, mics'[k])
        /\ mics'[k].open = mics[k].open /\ mics'[k].from = mics[k].from
        /\ mics'[k].buffer = mics[k].buffer
        /\ Sound(mics'[k]) = Sound(mics[k])
        /\ UNCHANGED <<clock, recorder, asking, takes>>
    BY <1>9, PageSoundIs
  <2>2. Hears(mics[k], clock) => Hears(mics'[k], clock)
    BY <2>1 DEF Hears
  <2>3. \A m \in 1 .. Latest : m # k => mics'[m] = mics[m]
    BY <1>1, <2>1 DEF Replaced
  <2>4. \A m \in 1 .. Latest : mics'[m].open =>
            mics[m].open /\ m \notin asking' /\ Hears(mics'[m], clock')
    BY <1>2, <2>1, <2>2, <2>3
  <2>5. \A m \in 1 .. Latest : mics[m].open => mics'[m].open
    BY <2>1, <2>3
  <2>6. (Closing' <=> Closing) /\ Latest' = Latest
    BY <2>1 DEF Closing, Latest
  <2>7. /\ recorder.phase = "recording" => recorder.mic \in 1 .. Latest /\ mics[recorder.mic].open
        /\ Closing => recorder.closing.mic \in 1 .. Latest /\ mics[recorder.closing.mic].open
    BY DEF SoundInv, Numbered
  <2> QED
    BY <2>1, <2>4, <2>5, <2>6, <2>7 DEF SoundInv
<1>10. CASE PumpFrame
  <2>1. /\ clock' = clock + 1 /\ \A k \in 1 .. Latest : mics'[k] = Heard(mics[k], clock')
        /\ UNCHANGED <<recorder, asking, takes>>
    BY <1>10, PumpFrameIs
  <2>2. ASSUME NEW k \in 1 .. Latest
        PROVE  /\ mics'[k].open <=> mics[k].open
               /\ mics[k].open => k \notin asking' /\ Hears(mics'[k], clock')
    <3>1. mics[k] \in Mics
      BY Elements
    <3>2. clock + 1 \in Nat
      BY <1>1
    <3>3. mics'[k].open = mics[k].open
      <4>1. PICK next \in Nat : next = clock + 1
        BY <3>2
      <4>2. PICK mic \in Mics : mic = mics[k]
        BY <3>1
      <4>3. Heard(mic, next).open = mic.open
        BY HeardIs
      <4> QED
        BY <2>1, <4>1, <4>2, <4>3
    <3>4. mics[k].open => Hears(mics'[k], clock')
      <4>1. PICK next \in Nat : next = clock + 1
        BY <3>2
      <4> QED
        BY <1>1, <1>2, <2>1, <3>1, <4>1, HearsOn
    <3> QED
      BY <1>2, <2>1, <3>3, <3>4
  <2>3. (Closing' <=> Closing) /\ Latest' = Latest
    BY <2>1 DEF Closing, Latest
  <2>4. /\ recorder.phase = "recording" => recorder.mic \in 1 .. Latest /\ mics[recorder.mic].open
        /\ Closing => recorder.closing.mic \in 1 .. Latest /\ mics[recorder.closing.mic].open
    BY DEF SoundInv, Numbered
  <2> QED
    BY <2>1, <2>2, <2>3, <2>4 DEF SoundInv
<1>11. CASE WorkerStart \/ WorkerFrame \/ WorkerStop \/ Recovered
  <2>1. UNCHANGED <<clock, recorder, asking, mics>>
    BY <1>11 DEF WorkerStart, WorkerFrame, WorkerStop, Recovered
  <2>2. Latest' = Latest
    BY <1>11, WorkerStartIs, WorkerFrameIs, WorkerStopIs, RecoveredIs DEF Latest
  <2> QED
    BY <2>1, <2>2 DEF SoundInv, Closing
<1> QED
  BY <1>3, <1>4, <1>5, <1>6, <1>7, <1>8, <1>9, <1>10, <1>11 DEF CaptureNext

-----------------------------------------------------------------------------
(* The frames under way *)

InOrder(q, now) ==
    /\ \A i \in 1 .. Len(q) : q[i].type = "frame" => q[i].at \in Nat /\ q[i].at <= now
    /\ \A i, j \in 1 .. Len(q) :
           q[i].type = "frame" /\ q[j].type = "frame" /\ i < j => q[i].at < q[j].at

\* A frame is handled when the ones before it are, or while the model is loaded for one.
FrameInv ==
    /\ InOrder(toWorker, clock)
    /\ worker.busy # NoFrame =>
           /\ worker.delegate = "none" /\ worker.busy.at <= clock
           /\ \A i \in 1 .. Len(toWorker) :
                  toWorker[i].type = "frame" => worker.busy.at < toWorker[i].at
    /\ worker.take = NoTake => worker.batch = <<>>
    /\ \A k \in 1 .. Latest : takes[k].from <= clock

LEMMA GrownInOrder ==
    ASSUME NEW q, NEW r, NEW e, Len(q) \in Nat, Grown(q, r, e), NEW now \in Nat, InOrder(q, now),
           NEW then \in Nat, now <= then,
           e.type = "frame" => e.at = then /\ now < then
    PROVE  InOrder(r, then)
<1>1. ASSUME NEW i \in 1 .. Len(r), r[i].type = "frame"
      PROVE  r[i].at \in Nat /\ r[i].at <= then
  <2>1. CASE i \in 1 .. Len(q) /\ r[i] = q[i]
    BY <1>1, <2>1 DEF InOrder
  <2>2. CASE r[i] = e
    BY <1>1, <2>2
  <2> QED
    BY <2>1, <2>2, GrownFrom
<1>2. ASSUME NEW i \in 1 .. Len(r), NEW j \in 1 .. Len(r),
             r[i].type = "frame", r[j].type = "frame", i < j
      PROVE  r[i].at < r[j].at
  <2>1. i \in 1 .. Len(q) /\ r[i] = q[i]
    BY <1>2 DEF Grown
  <2>2. CASE j \in 1 .. Len(q) /\ r[j] = q[j]
    BY <1>2, <2>1, <2>2 DEF InOrder
  <2>3. CASE r[j] = e
    <3>1. q[i].at <= now /\ q[i].at \in Nat
      BY <1>2, <2>1 DEF InOrder
    <3> QED
      BY <1>2, <2>1, <2>3, <3>1
  <2> QED
    BY <2>2, <2>3, GrownFrom
<1> QED
  BY <1>1, <1>2 DEF InOrder

LEMMA ShrunkInOrder ==
    ASSUME NEW q, NEW r, Len(q) \in Nat, Shrunk(q, r), NEW now, InOrder(q, now)
    PROVE  /\ InOrder(r, now)
           /\ q[1].type = "frame" =>
                \A i \in 1 .. Len(r) : r[i].type = "frame" => q[1].at < r[i].at
<1>1. \A i \in 1 .. Len(r) : i + 1 \in 1 .. Len(q) /\ r[i] = q[i + 1]
  BY ShrunkFrom
<1>2. \A i \in 1 .. Len(r) : r[i].type = "frame" => r[i].at \in Nat /\ r[i].at <= now
  BY <1>1 DEF InOrder
<1>3. ASSUME NEW i \in 1 .. Len(r), NEW j \in 1 .. Len(r),
             r[i].type = "frame", r[j].type = "frame", i < j
      PROVE  r[i].at < r[j].at
  <2>1. i + 1 < j + 1
    BY <1>3
  <2> QED
    BY <1>1, <1>3, <2>1 DEF InOrder
<1>4. ASSUME q[1].type = "frame", NEW i \in 1 .. Len(r), r[i].type = "frame"
      PROVE  q[1].at < r[i].at
  <2>1. 1 \in 1 .. Len(q) /\ 1 < i + 1
    BY <1>1
  <2> QED
    BY <1>1, <1>4, <2>1 DEF InOrder
<1> QED
  BY <1>2, <1>3, <1>4 DEF InOrder

LEMMA FrameKept ==
    ASSUME CaptureTypeOK, Numbered, FrameInv, CaptureNext
    PROVE  FrameInv'
<1>1. /\ Latest \in Nat /\ Len(toWorker) \in Nat /\ clock \in Nat /\ clock <= clock
      /\ InOrder(toWorker, clock)
  BY Elements DEF CaptureTypeOK, FrameInv
<1>2. worker.busy # NoFrame =>
          /\ worker.delegate = "none" /\ worker.busy.at <= clock /\ worker.busy.at \in Nat
          /\ \A i \in 1 .. Len(toWorker) :
                 toWorker[i].type = "frame" => worker.busy.at < toWorker[i].at
  <2>1. worker.busy # NoFrame => worker.busy \in Frames
    BY DEF CaptureTypeOK, Workers
  <2> QED
    BY <2>1, FrameFields DEF FrameInv
<1>3. /\ worker.take = NoTake => worker.batch = <<>>
      /\ \A k \in 1 .. Latest : takes[k].from <= clock
  BY DEF FrameInv
<1>4. ASSUME NEW m, m.type # "frame", Grown(toWorker, toWorker', m)
      PROVE  /\ InOrder(toWorker', clock)
             /\ worker.busy # NoFrame => \A i \in 1 .. Len(toWorker') :
                    toWorker'[i].type = "frame" => worker.busy.at < toWorker'[i].at
  <2>1. InOrder(toWorker', clock)
    BY <1>1, <1>4, GrownInOrder
  <2>2. ASSUME NEW i \in 1 .. Len(toWorker'), toWorker'[i].type = "frame"
        PROVE  i \in 1 .. Len(toWorker) /\ toWorker'[i] = toWorker[i]
    BY <1>1, <1>4, <2>2, GrownFrom
  <2> QED
    BY <1>2, <2>1, <2>2
<1>5. ASSUME Shrunk(toWorker, toWorker')
      PROVE  /\ InOrder(toWorker', clock)
             /\ worker.busy # NoFrame => \A i \in 1 .. Len(toWorker') :
                    toWorker'[i].type = "frame" => worker.busy.at < toWorker'[i].at
  <2>1. InOrder(toWorker', clock)
    BY <1>1, <1>5, ShrunkInOrder
  <2>2. \A i \in 1 .. Len(toWorker') :
            i + 1 \in 1 .. Len(toWorker) /\ toWorker'[i] = toWorker[i + 1]
    BY <1>1, <1>5, ShrunkFrom
  <2> QED
    BY <1>2, <2>1, <2>2
<1>6. CASE StartTake
  <2>1. PICK n \in Nat : n = Latest + 1
    BY <1>1
  <2>2. /\ Latest' = n /\ Grown(takes, takes', NewTake(UnderWay))
        /\ Grown(toWorker, toWorker', [type |-> "start", take |-> n])
        /\ UNCHANGED <<clock, worker>>
    BY <1>6, <2>1, StartTakeIs
  <2>3. NewTake(UnderWay).from = clock
    BY DEF NewTake
  <2>4. ASSUME NEW k \in 1 .. n
        PROVE  takes'[k].from <= clock
    <3> HIDE DEF UnderWay
    <3>1. Len(takes) \in Nat /\ Len(takes') = n
      BY <1>1, <2>2 DEF Latest
    <3>2. takes'[k] = NewTake(UnderWay) \/ (k \in 1 .. Latest /\ takes'[k] = takes[k])
      BY <2>2, <3>1, GrownFrom DEF Latest
    <3> QED
      BY <1>1, <1>3, <2>3, <3>2
  <2>5. PICK m : m = [type |-> "start", take |-> n]
    OBVIOUS
  <2>6. m.type # "frame"
    BY <2>5
  <2> QED
    BY <1>2, <1>3, <1>4, <2>2, <2>4, <2>5, <2>6 DEF FrameInv
<1>7. ASSUME NEW k \in asking, MicAnswers(k)
      PROVE  FrameInv'
  <2>1. /\ UNCHANGED <<clock, worker, takes>>
        /\ toWorker' = toWorker \/ Grown(toWorker, toWorker', [type |-> "stop"])
    BY <1>7, MicAnswersIs
  <2>2. [type |-> "stop"].type # "frame"
    BY StopMessage
  <2> QED
    BY <1>1, <1>2, <1>3, <1>4, <2>1, <2>2 DEF FrameInv, Latest
<1>8. CASE StopTake
  <2>1. /\ UNCHANGED <<clock, worker, takes>>
        /\ Grown(toWorker, toWorker', [type |-> "stop"])
    BY <1>8, StopTakeIs
  <2>2. [type |-> "stop"].type # "frame"
    BY StopMessage
  <2> QED
    BY <1>2, <1>3, <1>4, <2>1, <2>2 DEF FrameInv, Latest
<1>9. CASE FlushTimesOut \/ MakePair \/ PageSamples \/ \E k \in DOMAIN mics : PageSound(k)
  <2>1. UNCHANGED <<clock, toWorker, worker, takes>>
    BY <1>9 DEF FlushTimesOut, MakePair, PageSamples, PageSound
  <2> QED
    BY <2>1 DEF FrameInv, Latest
<1>10. CASE PumpFrame
  <2>1. /\ clock' = clock + 1
        /\ Grown(toWorker, toWorker', [type |-> "frame", at |-> clock'])
        /\ UNCHANGED <<worker, takes>>
    BY <1>10, PumpFrameIs
  <2>2. PICK next \in Nat : next = clock + 1
    BY <1>1
  <2>3. PICK m : m = [type |-> "frame", at |-> next]
    OBVIOUS
  <2>4. m.type = "frame" /\ m.at = next /\ Grown(toWorker, toWorker', m)
    BY <2>1, <2>2, <2>3
  <2>5. InOrder(toWorker', next)
    BY <1>1, <2>2, <2>4, GrownInOrder
  <2>6. ASSUME worker.busy # NoFrame, NEW i \in 1 .. Len(toWorker'), toWorker'[i].type = "frame"
        PROVE  worker.busy.at < toWorker'[i].at
    <3>1. CASE i \in 1 .. Len(toWorker) /\ toWorker'[i] = toWorker[i]
      BY <1>2, <2>6, <3>1
    <3>2. CASE toWorker'[i] = m
      BY <1>1, <1>2, <2>2, <2>4, <2>6, <3>2
    <3> QED
      BY <1>1, <2>4, <3>1, <3>2, GrownFrom
  <2>7. worker.busy # NoFrame => worker.busy.at <= next
    BY <1>1, <1>2, <2>2
  <2>8. ASSUME NEW k \in 1 .. Latest
        PROVE  takes[k].from <= next
    <3>1. takes[k].from \in Nat /\ takes[k].from <= clock
      BY <1>3, Elements DEF Takings
    <3> QED
      BY <1>1, <2>2, <3>1
  <2> QED
    BY <1>2, <1>3, <2>1, <2>2, <2>5, <2>6, <2>7, <2>8 DEF FrameInv, Latest
<1>11. CASE WorkerStart
  <2>1. PICK k : k = toWorker[1].take
    OBVIOUS
  <2>2. /\ Latest' = Latest /\ k \in 1 .. Latest
        /\ Shrunk(toWorker, toWorker')
        /\ worker'.batch = <<>> /\ worker'.busy = worker.busy /\ worker'.delegate = worker.delegate
        /\ Replaced(takes, takes', k, takes'[k]) /\ takes'[k].from = takes[k].from
        /\ clock' = clock
    BY <1>11, <2>1, WorkerStartIs
  <2>3. \A m \in 1 .. Latest : takes'[m].from = takes[m].from
    BY <2>2 DEF Replaced, Latest
  <2> QED
    BY <1>2, <1>3, <1>5, <2>2, <2>3 DEF FrameInv
<1>12. CASE WorkerStop
  <2>1. /\ Shrunk(toWorker, toWorker')
        /\ worker'.batch = <<>> /\ worker'.busy = worker.busy /\ worker'.delegate = worker.delegate
        /\ UNCHANGED <<clock, takes>>
    BY <1>12, WorkerStopIs
  <2> QED
    BY <1>2, <1>3, <1>5, <2>1 DEF FrameInv, Latest
<1>13. ASSUME NEW f, Pushes(worker, f)
       PROVE  worker.take # NoTake /\ \A k \in 1 .. Latest : takes'[k].from = takes[k].from
  BY <1>1, <1>13 DEF Pushes, Replaced, Latest, NoTake
<1>14. CASE WorkerFrame
  <2>1. PICK f : f = toWorker[1]
    OBVIOUS
  <2>2. /\ Latest' = Latest /\ Shrunk(toWorker, toWorker') /\ f \in Frames
        /\ 1 \in 1 .. Len(toWorker)
        /\ worker'.take = worker.take
        /\ \/ UNCHANGED <<worker, toPage, takes>>
           \/ /\ worker'.busy = worker.busy /\ worker'.delegate = worker.delegate
              /\ Pushes(worker, f)
           \/ /\ worker'.busy = f /\ worker'.delegate = "none" /\ worker'.batch = worker.batch
              /\ UNCHANGED <<toPage, takes>>
        /\ clock' = clock
    BY <1>14, <2>1, WorkerFrameIs
  <2>3. CASE UNCHANGED <<worker, toPage, takes>>
    BY <1>2, <1>3, <1>5, <2>2, <2>3 DEF FrameInv
  <2>4. CASE /\ worker'.busy = worker.busy /\ worker'.delegate = worker.delegate
             /\ Pushes(worker, f)
    BY <1>2, <1>3, <1>5, <1>13, <2>2, <2>4 DEF FrameInv
  <2>5. CASE /\ worker'.busy = f /\ worker'.delegate = "none" /\ worker'.batch = worker.batch
             /\ UNCHANGED <<toPage, takes>>
    <3>1. f.type = "frame" /\ f.at <= clock
      BY <1>1, <2>1, <2>2, FrameFields DEF InOrder
    <3>2. \A i \in 1 .. Len(toWorker') : toWorker'[i].type = "frame" => f.at < toWorker'[i].at
      BY <1>1, <2>1, <2>2, <3>1, ShrunkInOrder
    <3> QED
      BY <1>3, <1>5, <2>2, <2>5, <3>1, <3>2 DEF FrameInv
  <2> QED
    BY <2>2, <2>3, <2>4, <2>5
<1>15. CASE Recovered
  <2>1. /\ Latest' = Latest /\ worker'.take = worker.take /\ worker'.busy = NoFrame
        /\ \/ worker'.batch = worker.batch /\ UNCHANGED <<toPage, takes>>
           \/ Pushes(worker, worker.busy)
        /\ UNCHANGED <<clock, toWorker>>
    BY <1>15, RecoveredIs
  <2>2. \/ worker'.batch = worker.batch
        \/ worker.take # NoTake
    BY <1>13, <2>1
  <2>3. \A k \in 1 .. Latest : takes'[k].from = takes[k].from
    BY <1>13, <2>1
  <2> QED
    BY <1>1, <1>3, <2>1, <2>2, <2>3 DEF FrameInv
<1> QED
  BY <1>6, <1>7, <1>8, <1>9, <1>10, <1>11, <1>12, <1>14, <1>15 DEF CaptureNext

-----------------------------------------------------------------------------
(* The take that was started last, when nothing of an earlier one was under way *)

Own == Latest # 0 /\ ~takes[Latest].crossed

\* The hook is at that take.
OwnHook ==
    /\ asking \subseteq {Latest}
    /\ Closing =>
           /\ recorder.phase = "encoding" /\ asking = {} /\ ~recorder.aborted
           /\ recorder.closing.mic = Latest /\ recorder.closing.take = Latest
    /\ recorder.phase = "recording" =>
           asking = {} /\ ~recorder.aborted /\ recorder.mic = Latest /\ ~Closing
    /\ Latest \in asking => recorder.phase = "ready" /\ ~recorder.aborted

OnlyStart(q, i, from) ==
    /\ \A j \in 1 .. Len(q) : q[j].type = "start" => j = i
    /\ \A j \in 1 .. Len(q) : q[j].type = "frame" /\ i < j => q[j].at > from
StopAfter(q, i) == \E j \in 1 .. Len(q) : i < j /\ q[j].type = "stop"

\* A start the worker has not read is that take's, and nothing of it has been taken.
OwnStart ==
    \A i \in 1 .. Len(toWorker) : toWorker[i].type = "start" =>
        /\ toWorker[i].take = Latest /\ worker.take = NoTake /\ toPage = <<>>
        /\ takes[Latest].pushed = <<>>
        /\ OnlyStart(toWorker, i, takes[Latest].from)
        /\ Closing => StopAfter(toWorker, i)

\* A frame of the take, later than the ones that were taken.
Fresh(f, take) ==
    /\ f.at > take.from
    /\ \A j \in 1 .. Len(take.pushed) : take.pushed[j].frame < f.at

OwnWorker ==
    /\ worker.take \in {NoTake, Latest}
    /\ worker.take = Latest =>
           /\ \A i \in 1 .. Len(toWorker) :
                  toWorker[i].type = "frame" => Fresh(toWorker[i], takes[Latest])
           /\ worker.busy # NoFrame => Fresh(worker.busy, takes[Latest])
           /\ Closing => StopAfter(toWorker, 0)

\* The samples it has are the hook's, then the ones posted, then the worker's.
Gathered == recorder.samples \o (FlattenSeq(toPage) \o worker.batch)
OwnSamples ==
    Latest \in asking \/ recorder.phase = "recording" \/ Closing =>
        Gathered = takes[Latest].pushed

InTurn(take, now) ==
    \A j \in 1 .. Len(take.pushed) :
        /\ take.pushed[j].t = take.pushed[j].frame - take.from
        /\ take.pushed[j].t > (IF j = 1 THEN 0 ELSE take.pushed[j - 1].t)
        /\ take.pushed[j].frame <= now

OwnInv ==
    Own => OwnHook /\ OwnStart /\ OwnWorker /\ OwnSamples /\ InTurn(takes[Latest], clock)

CaptureBase == CaptureTypeOK /\ Numbered /\ FrameInv /\ OwnInv

\* Only doStart begins another take; a worker that is busy when it reads the start crosses it.
LEMMA OwnStays ==
    ASSUME CaptureBase, CaptureNext, ~StartTake, Own'
    PROVE  /\ Latest' = Latest /\ Latest \in Nat /\ Latest # 0 /\ Own
           /\ OwnHook /\ OwnStart /\ OwnWorker /\ OwnSamples /\ InTurn(takes[Latest], clock)
           /\ takes'[Latest].from = takes[Latest].from
           /\ WorkerStart => worker.busy = NoFrame
<1> USE DEF CaptureBase
<1>1. Latest \in Nat
  BY Elements
<1>2. ASSUME UNCHANGED takes, ~WorkerStart
      PROVE  Latest' = Latest /\ Own /\ takes'[Latest].from = takes[Latest].from
  BY <1>2 DEF Own, Latest
<1>3. ASSUME NEW w, NEW f, Pushes(w, f), Latest' = Latest
      PROVE  Own /\ takes'[Latest].from = takes[Latest].from
  <2>1. \A k \in 1 .. Latest : takes'[k].from = takes[k].from
                            /\ (~takes'[k].crossed => ~takes[k].crossed)
    BY <1>3 DEF Pushes, Replaced, Latest
  <2>2. Latest # 0 /\ Latest \in 1 .. Latest
    BY <1>1, <1>3 DEF Own
  <2> QED
    BY <1>3, <2>1, <2>2 DEF Own
<1>4. CASE WorkerStart
  <2>1. PICK k : k = toWorker[1].take
    OBVIOUS
  <2>2. /\ Latest' = Latest /\ k \in 1 .. Latest
        /\ toWorker[1].type = "start" /\ 1 \in 1 .. Len(toWorker)
        /\ Replaced(takes, takes', k, takes'[k])
        /\ takes'[k].from = takes[k].from
        /\ takes'[k].crossed <=> (takes[k].crossed \/ worker.busy # NoFrame)
    BY <1>4, <2>1, WorkerStartIs
  <2>3. \A m \in 1 .. Latest : m # k => takes'[m] = takes[m]
    BY <2>2 DEF Replaced, Latest
  <2>4. Latest # 0 /\ Latest \in 1 .. Latest
    BY <1>1, <2>2
  <2>5. Own /\ takes'[Latest].from = takes[Latest].from
    BY <2>2, <2>3, <2>4 DEF Own
  <2>6. k = Latest
    BY <2>1, <2>2, <2>5 DEF OwnInv, OwnStart
  <2>7. worker.busy = NoFrame
    BY <2>2, <2>6 DEF Own
  <2> QED
    BY <1>1, <2>2, <2>4, <2>5, <2>7 DEF OwnInv
<1>5. CASE WorkerFrame
  <2>1. UNCHANGED takes \/ \E f : Pushes(worker, f)
    BY <1>5, WorkerFrameIs
  <2>2. Latest' = Latest
    BY <1>5, WorkerFrameIs
  <2>3. Own /\ takes'[Latest].from = takes[Latest].from
    BY <1>3, <2>1, <2>2 DEF Own
  <2>4. ~WorkerStart
    BY <1>5 DEF WorkerFrame, WorkerStart, Reads
  <2> QED
    BY <1>1, <2>2, <2>3, <2>4 DEF OwnInv, Own
<1>6. CASE Recovered
  <2>1. UNCHANGED takes \/ \E f : Pushes(worker, f)
    BY <1>6, RecoveredIs
  <2>2. Latest' = Latest /\ toWorker' = toWorker
    BY <1>6, RecoveredIs
  <2>3. Own /\ takes'[Latest].from = takes[Latest].from
    BY <1>3, <2>1, <2>2 DEF Own
  <2>4. CASE WorkerStart
    BY <1>4, <2>4
  <2> QED
    BY <1>1, <2>2, <2>3, <2>4 DEF OwnInv, Own
<1>7. CASE ~WorkerStart /\ ~WorkerFrame /\ ~Recovered
  <2>1. UNCHANGED takes
    BY <1>7 DEF CaptureNext, MicAnswers, StopTake, FlushTimesOut, MakePair, PageSamples,
                PageSound, PumpFrame, WorkerStop
  <2> QED
    BY <1>1, <1>2, <1>7, <2>1 DEF OwnInv, Own
<1> QED
  BY <1>4, <1>5, <1>6, <1>7

\* It starts when nothing of another is under way.
LEMMA OwnBegins ==
    ASSUME CaptureBase, StartTake, Own'
    PROVE  /\ Latest \in Nat /\ asking = {} /\ ~Closing
           /\ worker.take = NoTake /\ worker.batch = <<>> /\ worker.busy = NoFrame
           /\ toPage = <<>>
           /\ \A i \in 1 .. Len(toWorker) : toWorker[i].type # "start"
           /\ takes'[Latest'].pushed = <<>> /\ takes'[Latest'].from = clock
<1>1. Latest \in Nat /\ DOMAIN toWorker = 1 .. Len(toWorker)
  BY Elements DEF CaptureBase
<1>2. Latest' = Latest + 1 /\ Grown(takes, takes', NewTake(UnderWay))
  BY StartTakeIs DEF CaptureBase
<1>3. takes'[Latest'] = NewTake(UnderWay)
  BY <1>2 DEF Grown, Latest
<1>4. ~UnderWay
  <2>1. ~takes'[Latest'].crossed
    BY DEF Own
  <2> HIDE DEF UnderWay
  <2> QED
    BY <1>3, <2>1 DEF NewTake
<1>5. takes'[Latest'].pushed = <<>> /\ takes'[Latest'].from = clock
  BY <1>3 DEF NewTake
<1>6. worker.take = NoTake => worker.batch = <<>>
  BY DEF CaptureBase, FrameInv
<1> QED
  BY <1>1, <1>4, <1>5, <1>6 DEF UnderWay, Closing

LEMMA HookKept ==
    ASSUME CaptureBase, CaptureNext, Own'
    PROVE  OwnHook'
<1>1. CaptureTypeOK /\ Numbered
  BY DEF CaptureBase
<1>2. CASE StartTake
  <2>1. /\ recorder'.phase = "ready" /\ recorder'.closing = recorder.closing
        /\ ~recorder'.aborted /\ asking' = asking \cup {Latest'}
    BY <1>1, <1>2, StartTakeIs
  <2>2. asking = {} /\ ~Closing
    BY <1>2, OwnBegins
  <2> QED
    BY <2>1, <2>2 DEF OwnHook, Closing
<1> SUFFICES ASSUME ~StartTake
             PROVE  OwnHook'
  BY <1>2
<1>3. Latest' = Latest /\ OwnHook
  BY OwnStays
<1>4. ASSUME NEW k \in asking, MicAnswers(k)
      PROVE  OwnHook'
  <2>1. /\ asking' = asking \ {k} /\ recorder'.closing = recorder.closing
        /\ \/ /\ recorder'.mic = k /\ recorder'.phase = "recording"
              /\ recorder'.aborted = recorder.aborted
           \/ recorder'.phase = "ready"
    BY <1>1, <1>4, MicAnswersIs
  <2>2. k = Latest /\ asking' = {} /\ ~recorder.aborted /\ ~Closing
    BY <1>3, <2>1 DEF OwnHook
  <2> QED
    BY <1>3, <2>1, <2>2 DEF OwnHook, Closing
<1>5. CASE StopTake
  <2>1. /\ recorder.phase = "recording" /\ recorder'.phase = "encoding"
        /\ recorder'.aborted = recorder.aborted
        /\ recorder'.closing.mic = recorder.mic /\ recorder'.closing.take = Latest
        /\ asking' = asking
    BY <1>1, <1>5, StopTakeIs
  <2> QED
    BY <1>3, <2>1 DEF OwnHook
<1>6. CASE FlushTimesOut
  <2>1. /\ Closing
        /\ recorder'.phase = recorder.phase /\ recorder'.mic = recorder.mic
        /\ recorder'.aborted = recorder.aborted
        /\ recorder'.closing.mic = recorder.closing.mic
        /\ recorder'.closing.take = recorder.closing.take
        /\ asking' = asking
    BY <1>1, <1>6, FlushTimesOutIs
  <2> QED
    BY <1>3, <2>1 DEF OwnHook
<1>7. CASE MakePair
  <2>1. /\ Closing /\ ~Closing' /\ recorder'.phase = "ready" /\ asking' = asking
    BY <1>1, <1>7, MakePairIs
  <2> QED
    BY <1>3, <2>1 DEF OwnHook
<1>8. CASE PageSamples
  <2>1. /\ Closing' <=> Closing
        /\ recorder'.phase = recorder.phase /\ recorder'.mic = recorder.mic
        /\ recorder'.aborted = recorder.aborted
        /\ recorder'.closing.mic = recorder.closing.mic
        /\ recorder'.closing.take = recorder.closing.take
        /\ asking' = asking
    BY <1>1, <1>8, PageSamplesIs
  <2> QED
    BY <1>3, <2>1 DEF OwnHook
<1>9. CASE ~(\E k \in asking : MicAnswers(k)) /\ ~StopTake /\ ~FlushTimesOut /\ ~MakePair
           /\ ~PageSamples
  <2>1. UNCHANGED <<recorder, asking>>
    BY <1>9 DEF CaptureNext, PageSound, PumpFrame, WorkerStart, WorkerFrame, WorkerStop, Recovered
  <2> QED
    BY <1>3, <2>1 DEF OwnHook, Closing
<1> QED
  BY <1>4, <1>5, <1>6, <1>7, <1>8, <1>9

LEMMA GrownStart ==
    ASSUME NEW q, NEW r, NEW e, Len(q) \in Nat, Grown(q, r, e), e.type # "start",
           NEW from, e.type = "frame" => e.at > from,
           NEW i \in 1 .. Len(q), OnlyStart(q, i, from)
    PROVE  OnlyStart(r, i, from)
<1>1. \A j \in 1 .. Len(r) : r[j].type = "start" => j = i
  BY GrownFrom DEF OnlyStart
<1>2. ASSUME NEW j \in 1 .. Len(r), r[j].type = "frame", i < j
      PROVE  r[j].at > from
  BY <1>2, GrownFrom DEF OnlyStart
<1> QED
  BY <1>1, <1>2 DEF OnlyStart

LEMMA GrownStop ==
    ASSUME NEW q, NEW r, NEW e, Len(q) \in Nat, Grown(q, r, e), NEW i \in 0 .. Len(q),
           StopAfter(q, i) \/ e.type = "stop"
    PROVE  StopAfter(r, i)
<1>1. CASE StopAfter(q, i)
  <2>1. PICK j \in 1 .. Len(q) : i < j /\ q[j].type = "stop"
    BY <1>1 DEF StopAfter
  <2>2. j \in 1 .. Len(r) /\ r[j] = q[j]
    BY <2>1 DEF Grown
  <2> QED
    BY <2>1, <2>2 DEF StopAfter
<1>2. CASE e.type = "stop"
  <2>1. Len(r) \in 1 .. Len(r) /\ i < Len(r) /\ r[Len(r)].type = "stop"
    BY <1>2 DEF Grown
  <2> QED
    BY <2>1 DEF StopAfter
<1> QED
  BY <1>1, <1>2

LEMMA ShrunkStart ==
    ASSUME NEW q, NEW r, Len(q) \in Nat, Shrunk(q, r), NEW from,
           NEW i \in 1 .. Len(r), OnlyStart(q, i + 1, from)
    PROVE  OnlyStart(r, i, from)
<1>1. \A j \in 1 .. Len(r) : j + 1 \in 1 .. Len(q) /\ r[j] = q[j + 1]
  BY ShrunkFrom
<1>2. ASSUME NEW j \in 1 .. Len(r), r[j].type = "start"
      PROVE  j = i
  <2>1. j + 1 = i + 1
    BY <1>1, <1>2 DEF OnlyStart
  <2> QED
    BY <2>1
<1>3. ASSUME NEW j \in 1 .. Len(r), r[j].type = "frame", i < j
      PROVE  r[j].at > from
  <2>1. i + 1 < j + 1
    BY <1>3
  <2> QED
    BY <1>1, <1>3, <2>1 DEF OnlyStart
<1> QED
  BY <1>2, <1>3 DEF OnlyStart

LEMMA ShrunkStop ==
    ASSUME NEW q, NEW r, Len(q) \in Nat, Shrunk(q, r), NEW i \in Nat,
           StopAfter(q, i + 1) \/ (i = 0 /\ StopAfter(q, i) /\ q[1].type # "stop")
    PROVE  StopAfter(r, i)
<1>1. PICK j \in 1 .. Len(q) : i + 1 < j /\ q[j].type = "stop"
  <2>1. CASE StopAfter(q, i + 1)
    BY <2>1 DEF StopAfter
  <2>2. CASE i = 0 /\ StopAfter(q, i) /\ q[1].type # "stop"
    <3>1. PICK j \in 1 .. Len(q) : q[j].type = "stop"
      BY <2>2 DEF StopAfter
    <3>2. j # 1
      BY <2>2, <3>1
    <3> QED
      BY <2>2, <3>1, <3>2
  <2> QED
    BY <2>1, <2>2
<1>2. PICK m \in 1 .. Len(r) : m = j - 1
  BY <1>1 DEF Shrunk
<1>3. i < m /\ r[m].type = "stop"
  BY <1>1, <1>2 DEF Shrunk
<1> QED
  BY <1>3 DEF StopAfter

LEMMA StartKept ==
    ASSUME CaptureBase, CaptureNext, Own'
    PROVE  OwnStart'
<1>1. CaptureTypeOK /\ Numbered
  BY DEF CaptureBase
<1>2. Len(toWorker) \in Nat /\ clock \in Nat
  BY <1>1, Elements DEF CaptureTypeOK
<1>3. CASE StartTake
  <2>1. PICK m : m = [type |-> "start", take |-> Latest']
    OBVIOUS
  <2>2. /\ Grown(toWorker, toWorker', m)
        /\ recorder'.closing = recorder.closing
        /\ UNCHANGED <<worker, toPage>>
    BY <1>1, <1>3, <2>1, StartTakeIs
  <2>3. /\ ~Closing /\ worker.take = NoTake /\ toPage = <<>>
        /\ \A i \in 1 .. Len(toWorker) : toWorker[i].type # "start"
        /\ takes'[Latest'].pushed = <<>>
    BY <1>3, OwnBegins
  <2>4. ~Closing'
    BY <2>2, <2>3 DEF Closing
  <2>5. ASSUME NEW i \in 1 .. Len(toWorker'), toWorker'[i].type = "start"
        PROVE  i = Len(toWorker') /\ toWorker'[i] = m
    BY <1>2, <2>2, <2>3, <2>5, GrownFrom
  <2>6. \A i \in 1 .. Len(toWorker') : ~(Len(toWorker') < i)
    BY <1>2, <2>2 DEF Grown
  <2>7. m.take = Latest'
    BY <2>1
  <2>8. ASSUME NEW i \in 1 .. Len(toWorker'), toWorker'[i].type = "start"
        PROVE  OnlyStart(toWorker', i, takes'[Latest'].from)
    BY <2>5, <2>6, <2>8 DEF OnlyStart
  <2> QED
    BY <2>2, <2>3, <2>4, <2>5, <2>7, <2>8 DEF OwnStart
<1> SUFFICES ASSUME ~StartTake
             PROVE  OwnStart'
  BY <1>3
<1>4. /\ Latest' = Latest /\ takes'[Latest].from = takes[Latest].from
      /\ Latest \in Nat /\ Latest # 0
  BY OwnStays
<1>5. \A i \in 1 .. Len(toWorker) : toWorker[i].type = "start" =>
        /\ toWorker[i].take = Latest /\ worker.take = NoTake /\ toPage = <<>>
        /\ takes[Latest].pushed = <<>>
        /\ OnlyStart(toWorker, i, takes[Latest].from)
        /\ Closing => StopAfter(toWorker, i)
  BY OwnStays DEF OwnStart
<1>6. ASSUME NEW m, Grown(toWorker, toWorker', m), m.type # "start",
             m.type = "frame" => m.at > takes[Latest].from,
             m.type = "stop" \/ (Closing' => Closing),
             UNCHANGED <<worker, toPage, takes>>
      PROVE  OwnStart'
  <2>1. ASSUME NEW i \in 1 .. Len(toWorker'), toWorker'[i].type = "start"
        PROVE  i \in 1 .. Len(toWorker) /\ toWorker'[i] = toWorker[i]
    BY <1>2, <1>6, <2>1, GrownFrom
  <2>2. ASSUME NEW i \in 1 .. Len(toWorker), toWorker[i].type = "start"
        PROVE  /\ OnlyStart(toWorker', i, takes[Latest].from)
               /\ Closing' => StopAfter(toWorker', i)
    <3>1. OnlyStart(toWorker', i, takes[Latest].from)
      <4>1. OnlyStart(toWorker, i, takes[Latest].from)
        BY <1>5, <2>2
      <4> QED
        BY <1>2, <1>6, <4>1, GrownStart
    <3>2. ASSUME Closing'
          PROVE  StopAfter(toWorker', i)
      <4>1. StopAfter(toWorker, i) \/ m.type = "stop"
        BY <1>5, <1>6, <2>2, <3>2
      <4>2. i \in 0 .. Len(toWorker)
        BY <1>2
      <4> QED
        BY <1>2, <1>6, <4>1, <4>2, GrownStop
    <3> QED
      BY <3>1, <3>2
  <2> QED
    BY <1>4, <1>5, <1>6, <2>1, <2>2 DEF OwnStart
<1>7. ASSUME Shrunk(toWorker, toWorker'), Closing' => Closing,
             worker.take = NoTake => worker'.take = NoTake /\ UNCHANGED <<toPage, takes>>
      PROVE  OwnStart'
  <2>1. ASSUME NEW i \in 1 .. Len(toWorker'), toWorker'[i].type = "start"
        PROVE  /\ toWorker'[i].take = Latest /\ worker'.take = NoTake /\ toPage' = <<>>
               /\ takes'[Latest].pushed = <<>>
               /\ OnlyStart(toWorker', i, takes[Latest].from)
               /\ Closing' => StopAfter(toWorker', i)
    <3>1. i + 1 \in 1 .. Len(toWorker) /\ toWorker'[i] = toWorker[i + 1]
      BY <1>2, <1>7, ShrunkFrom
    <3>2. /\ toWorker'[i].take = Latest /\ worker.take = NoTake /\ toPage = <<>>
          /\ takes[Latest].pushed = <<>>
          /\ OnlyStart(toWorker, i + 1, takes[Latest].from)
          /\ Closing => StopAfter(toWorker, i + 1)
      BY <1>5, <2>1, <3>1
    <3>3. OnlyStart(toWorker', i, takes[Latest].from)
      BY <1>2, <1>7, <3>2, ShrunkStart
    <3>4. i \in Nat
      BY <3>1
    <3>5. Closing' => StopAfter(toWorker', i)
      BY <1>2, <1>7, <3>2, <3>4, ShrunkStop
    <3> QED
      BY <1>7, <3>2, <3>3, <3>5
  <2> QED
    BY <1>4, <2>1 DEF OwnStart
<1>8. ASSUME NEW k \in asking, MicAnswers(k)
      PROVE  OwnStart'
  <2>1. /\ recorder'.closing = recorder.closing
        /\ UNCHANGED <<worker, toPage, takes>>
        /\ toWorker' = toWorker \/ Grown(toWorker, toWorker', [type |-> "stop"])
    BY <1>1, <1>8, MicAnswersIs
  <2>2. Closing' <=> Closing
    BY <2>1 DEF Closing
  <2>3. CASE toWorker' = toWorker
    BY <1>4, <1>5, <2>1, <2>2, <2>3 DEF OwnStart
  <2>4. CASE Grown(toWorker, toWorker', [type |-> "stop"])
    BY <1>6, <2>1, <2>4, StopMessage
  <2> QED
    BY <2>1, <2>3, <2>4
<1>9. CASE StopTake
  <2>1. /\ Grown(toWorker, toWorker', [type |-> "stop"])
        /\ UNCHANGED <<worker, toPage, takes>>
    BY <1>1, <1>9, StopTakeIs
  <2> QED
    BY <1>6, <2>1, StopMessage
<1>10. CASE FlushTimesOut \/ MakePair
  <2>1. UNCHANGED <<toWorker, worker, toPage, takes>> /\ (Closing' => Closing)
    BY <1>1, <1>10, FlushTimesOutIs, MakePairIs
  <2> QED
    BY <1>4, <1>5, <2>1 DEF OwnStart
<1>11. CASE PageSamples
  <2>1. toPage # <<>> /\ UNCHANGED <<toWorker, worker, takes>>
    BY <1>1, <1>11, PageSamplesIs
  <2> QED
    BY <1>4, <1>5, <2>1 DEF OwnStart
<1>12. ASSUME NEW k \in DOMAIN mics, PageSound(k)
       PROVE  OwnStart'
  <2>1. UNCHANGED <<toWorker, worker, toPage, takes, recorder>>
    BY <1>12 DEF PageSound
  <2> QED
    BY <1>4, <1>5, <2>1 DEF OwnStart, Closing
<1>13. CASE PumpFrame
  <2>1. PICK m : m = [type |-> "frame", at |-> clock']
    OBVIOUS
  <2>2. /\ clock' = clock + 1 /\ Grown(toWorker, toWorker', m)
        /\ UNCHANGED <<recorder, worker, toPage, takes>>
    BY <1>1, <1>13, <2>1, PumpFrameIs
  <2>3. takes[Latest].from <= clock /\ takes[Latest].from \in Nat
    <3>1. Latest \in 1 .. Latest
      BY <1>4
    <3>2. takes[Latest] \in Takings
      BY <1>1, <3>1, Elements
    <3> QED
      BY <3>1, <3>2 DEF CaptureBase, FrameInv, Takings
  <2>4. m.type = "frame" /\ m.at = clock + 1
    BY <2>1, <2>2
  <2>5. m.at > takes[Latest].from
    BY <1>2, <2>3, <2>4
  <2>6. Closing' => Closing
    BY <2>2 DEF Closing
  <2> QED
    BY <1>6, <2>2, <2>4, <2>5, <2>6
<1>14. CASE WorkerStart
  <2>1. PICK k : k = toWorker[1].take
    OBVIOUS
  <2>2. /\ Shrunk(toWorker, toWorker') /\ toWorker[1].type = "start" /\ 1 \in 1 .. Len(toWorker)
    BY <1>1, <1>14, <2>1, WorkerStartIs
  <2>3. OnlyStart(toWorker, 1, takes[Latest].from)
    BY <1>5, <2>2
  <2>4. ASSUME NEW i \in 1 .. Len(toWorker')
        PROVE  toWorker'[i].type # "start"
    <3>1. i + 1 \in 1 .. Len(toWorker) /\ toWorker'[i] = toWorker[i + 1] /\ i + 1 # 1
      BY <1>2, <2>2, ShrunkFrom
    <3> QED
      BY <2>3, <3>1 DEF OnlyStart
  <2> QED
    BY <2>4 DEF OwnStart
<1>15. CASE WorkerStop
  <2>1. /\ Shrunk(toWorker, toWorker') /\ worker'.take = NoTake
        /\ \/ toPage' = toPage
           \/ worker.take # NoTake
        /\ UNCHANGED <<recorder, takes>>
    BY <1>1, <1>15, WorkerStopIs
  <2> QED
    BY <1>7, <2>1 DEF Closing
<1>16. CASE WorkerFrame
  <2>1. /\ Shrunk(toWorker, toWorker') /\ worker'.take = worker.take
        /\ UNCHANGED <<toPage, takes>> \/ \E f : Pushes(worker, f)
        /\ UNCHANGED recorder
    BY <1>1, <1>16, WorkerFrameIs
  <2>2. (\E f : Pushes(worker, f)) => worker.take # NoTake
    BY <1>4 DEF Pushes, NoTake
  <2> QED
    BY <1>7, <2>1, <2>2 DEF Closing
<1>17. CASE Recovered
  <2>1. /\ worker'.take = worker.take
        /\ UNCHANGED <<toPage, takes>> \/ \E f : Pushes(worker, f)
        /\ UNCHANGED <<recorder, toWorker>>
    BY <1>1, <1>17, RecoveredIs
  <2>2. (\E f : Pushes(worker, f)) => worker.take # NoTake
    BY <1>4 DEF Pushes, NoTake
  <2> QED
    BY <1>4, <1>5, <2>1, <2>2 DEF OwnStart, Closing
<1> QED
  BY <1>8, <1>9, <1>10, <1>11, <1>12, <1>13, <1>14, <1>15, <1>16, <1>17 DEF CaptureNext

\* The last of the samples is the frame that was pushed.
LEMMA PushedIs ==
    ASSUME CaptureTypeOK, NEW w, NEW f \in Frames, Pushes(w, f)
    PROVE  /\ w.take \in 1 .. Latest /\ takes[w.take].pushed \in Batches
           /\ SampleOf(w, f) \in [t : Int, frame : Nat]
           /\ Grown(takes[w.take].pushed, takes'[w.take].pushed, SampleOf(w, f))
           /\ takes'[w.take].from = takes[w.take].from
           /\ SampleOf(w, f).frame = f.at /\ SampleOf(w, f).t = f.at - takes[w.take].from
<1>1. w.take \in 1 .. Latest
  BY DEF Pushes
<1>2. takes[w.take] \in Takings
  BY <1>1, Elements
<1>3. takes[w.take].pushed \in Batches /\ takes[w.take].from \in Nat
  BY <1>2 DEF Takings
<1>4. /\ SampleOf(w, f).frame = f.at /\ SampleOf(w, f).t = f.at - takes[w.take].from
      /\ SampleOf(w, f) \in [t : Int, frame : Nat]
  BY <1>3, FrameFields DEF SampleOf
<1>5. Grown(takes[w.take].pushed, takes'[w.take].pushed, SampleOf(w, f))
  BY <1>3, <1>4, AppendIs DEF Pushes, Batches
<1> QED
  BY <1>1, <1>3, <1>4, <1>5 DEF Pushes

LEMMA FreshAfter ==
    ASSUME NEW take, NEW more, NEW sample, NEW f, NEW g,
           Len(take.pushed) \in Nat, Grown(take.pushed, more.pushed, sample),
           more.from = take.from, sample.frame = f.at, Fresh(g, take), f.at < g.at
    PROVE  Fresh(g, more)
<1>1. ASSUME NEW j \in 1 .. Len(more.pushed)
      PROVE  more.pushed[j].frame < g.at
  BY GrownFrom DEF Fresh
<1> QED
  BY <1>1 DEF Fresh

LEMMA WorkerKept ==
    ASSUME CaptureBase, CaptureNext, Own'
    PROVE  OwnWorker'
<1>1. CaptureTypeOK /\ Numbered
  BY DEF CaptureBase
<1>2. Len(toWorker) \in Nat /\ clock \in Nat
  BY <1>1, Elements DEF CaptureTypeOK
<1>3. CASE StartTake
  <2>1. Latest' = Latest + 1 /\ worker' = worker
    BY <1>1, <1>3, StartTakeIs
  <2>2. worker.take = NoTake /\ Latest \in Nat
    BY <1>3, OwnBegins
  <2> QED
    BY <2>1, <2>2 DEF OwnWorker, NoTake
<1> SUFFICES ASSUME ~StartTake
             PROVE  OwnWorker'
  BY <1>3
<1>4. /\ Latest' = Latest /\ takes'[Latest].from = takes[Latest].from
      /\ Latest \in Nat /\ Latest # 0 /\ Latest \in 1 .. Latest
  BY OwnStays
<1>5. /\ worker.take \in {NoTake, Latest}
      /\ worker.take = Latest =>
           /\ \A i \in 1 .. Len(toWorker) :
                  toWorker[i].type = "frame" => Fresh(toWorker[i], takes[Latest])
           /\ worker.busy # NoFrame => Fresh(worker.busy, takes[Latest])
           /\ Closing => StopAfter(toWorker, 0)
  BY OwnStays DEF OwnWorker
<1>6. /\ takes[Latest].from <= clock /\ takes[Latest] \in Takings
      /\ Len(takes[Latest].pushed) \in Nat
      /\ \A j \in 1 .. Len(takes[Latest].pushed) :
             takes[Latest].pushed[j].frame \in Nat /\ takes[Latest].pushed[j].frame <= clock
  <2>1. takes[Latest] \in Takings
    BY <1>1, <1>4, Elements
  <2>2. takes[Latest].pushed \in Seq([t : Int, frame : Nat])
    BY <2>1 DEF Takings, Batches
  <2>3. /\ Len(takes[Latest].pushed) \in Nat
        /\ \A j \in 1 .. Len(takes[Latest].pushed) :
               takes[Latest].pushed[j] \in [t : Int, frame : Nat]
    BY <2>2, LenProperties, ElementOfSeq
  <2>4. InTurn(takes[Latest], clock)
    BY OwnStays
  <2>5. takes[Latest].from <= clock
    BY <1>4 DEF CaptureBase, FrameInv
  <2> QED
    BY <2>1, <2>3, <2>4, <2>5 DEF InTurn
<1>7. ASSUME NEW m, Grown(toWorker, toWorker', m),
             m.type = "frame" => Fresh(m, takes[Latest]),
             m.type = "stop" \/ (Closing' => Closing),
             UNCHANGED <<worker, takes>>
      PROVE  OwnWorker'
  <2>1. ASSUME worker.take = Latest, NEW i \in 1 .. Len(toWorker'), toWorker'[i].type = "frame"
        PROVE  Fresh(toWorker'[i], takes[Latest])
    BY <1>2, <1>5, <1>7, <2>1, GrownFrom
  <2>2. ASSUME worker.take = Latest, Closing'
        PROVE  StopAfter(toWorker', 0)
    <3>1. StopAfter(toWorker, 0) \/ m.type = "stop"
      BY <1>5, <1>7, <2>2
    <3>2. 0 \in 0 .. Len(toWorker)
      BY <1>2
    <3> QED
      BY <1>2, <1>7, <3>1, <3>2, GrownStop
  <2> QED
    BY <1>4, <1>5, <1>7, <2>1, <2>2 DEF OwnWorker
<1>8. ASSUME NEW k \in asking, MicAnswers(k)
      PROVE  OwnWorker'
  <2>1. /\ recorder'.closing = recorder.closing
        /\ UNCHANGED <<worker, takes>>
        /\ toWorker' = toWorker \/ Grown(toWorker, toWorker', [type |-> "stop"])
    BY <1>1, <1>8, MicAnswersIs
  <2>2. Closing' <=> Closing
    BY <2>1 DEF Closing
  <2>3. CASE toWorker' = toWorker
    BY <1>4, <1>5, <2>1, <2>2, <2>3 DEF OwnWorker
  <2>4. CASE Grown(toWorker, toWorker', [type |-> "stop"])
    BY <1>7, <2>1, <2>4, StopMessage
  <2> QED
    BY <2>1, <2>3, <2>4
<1>9. CASE StopTake
  <2>1. /\ Grown(toWorker, toWorker', [type |-> "stop"])
        /\ UNCHANGED <<worker, takes>>
    BY <1>1, <1>9, StopTakeIs
  <2> QED
    BY <1>7, <2>1, StopMessage
<1>10. CASE FlushTimesOut \/ MakePair \/ PageSamples
  <2>1. UNCHANGED <<toWorker, worker, takes>> /\ (Closing' => Closing)
    BY <1>1, <1>10, FlushTimesOutIs, MakePairIs, PageSamplesIs
  <2> QED
    BY <1>4, <1>5, <2>1 DEF OwnWorker
<1>11. ASSUME NEW k \in DOMAIN mics, PageSound(k)
       PROVE  OwnWorker'
  <2>1. UNCHANGED <<toWorker, worker, takes, recorder>>
    BY <1>11 DEF PageSound
  <2> QED
    BY <1>4, <1>5, <2>1 DEF OwnWorker, Closing
<1>12. CASE PumpFrame
  <2>1. PICK m : m = [type |-> "frame", at |-> clock']
    OBVIOUS
  <2>2. /\ clock' = clock + 1 /\ Grown(toWorker, toWorker', m)
        /\ UNCHANGED <<recorder, worker, takes>>
    BY <1>1, <1>12, <2>1, PumpFrameIs
  <2>3. m.at = clock + 1
    BY <2>1, <2>2
  <2>4. takes[Latest].from \in Nat
    BY <1>6 DEF Takings
  <2>5. Fresh(m, takes[Latest])
    BY <1>2, <1>6, <2>3, <2>4 DEF Fresh
  <2>6. Closing' => Closing
    BY <2>2 DEF Closing
  <2> QED
    BY <1>7, <2>2, <2>5, <2>6
<1>13. CASE WorkerStart
  <2>1. PICK k : k = toWorker[1].take
    OBVIOUS
  <2>2. /\ Shrunk(toWorker, toWorker') /\ toWorker[1].type = "start" /\ 1 \in 1 .. Len(toWorker)
        /\ worker'.take = k /\ worker'.busy = worker.busy /\ k \in 1 .. Latest
        /\ Replaced(takes, takes', k, takes'[k]) /\ takes'[k].pushed = takes[k].pushed
        /\ recorder' = recorder
    BY <1>1, <1>13, <2>1, WorkerStartIs
  <2>3. /\ k = Latest /\ takes[Latest].pushed = <<>>
        /\ OnlyStart(toWorker, 1, takes[Latest].from)
        /\ Closing => StopAfter(toWorker, 1)
    BY <2>1, <2>2, OwnStays DEF OwnStart
  <2>4. worker.busy = NoFrame
    BY <1>13, OwnStays
  <2>5. takes'[Latest].pushed = <<>> /\ takes'[Latest].from = takes[Latest].from
    BY <1>4, <2>2, <2>3
  <2>6. ASSUME NEW i \in 1 .. Len(toWorker'), toWorker'[i].type = "frame"
        PROVE  Fresh(toWorker'[i], takes'[Latest])
    <3>1. i + 1 \in 1 .. Len(toWorker) /\ toWorker'[i] = toWorker[i + 1] /\ 1 < i + 1
      BY <1>2, <2>2, ShrunkFrom
    <3>2. toWorker'[i].at > takes'[Latest].from
      BY <2>3, <2>5, <2>6, <3>1 DEF OnlyStart
    <3> QED
      BY <2>5, <3>2 DEF Fresh
  <2>7. Closing' => StopAfter(toWorker', 0)
    <3>1. StopAfter(toWorker, 0 + 1) => StopAfter(toWorker', 0)
      BY <1>2, <2>2, ShrunkStop
    <3> QED
      BY <2>2, <2>3, <3>1 DEF Closing
  <2> QED
    BY <1>4, <2>2, <2>3, <2>4, <2>6, <2>7 DEF OwnWorker
<1>14. CASE WorkerStop
  <2>1. worker'.take = NoTake
    BY <1>1, <1>14, WorkerStopIs
  <2> QED
    BY <1>4, <2>1 DEF OwnWorker, NoTake
<1>15. ASSUME NEW f \in Frames, Pushes(worker, f)
       PROVE  /\ worker.take = Latest
              /\ \A g : Fresh(g, takes[Latest]) /\ f.at < g.at => Fresh(g, takes'[Latest])
  <2>1. worker.take = Latest
    BY <1>5, <1>15 DEF Pushes, NoTake
  <2>2. /\ Grown(takes[Latest].pushed, takes'[Latest].pushed, SampleOf(worker, f))
        /\ takes'[Latest].from = takes[Latest].from
        /\ SampleOf(worker, f).frame = f.at
    BY <1>1, <1>15, <2>1, PushedIs
  <2> QED
    BY <1>6, <2>1, <2>2, FreshAfter
<1>16. CASE WorkerFrame
  <2>1. PICK f : f = toWorker[1]
    OBVIOUS
  <2>2. /\ Shrunk(toWorker, toWorker') /\ f \in Frames /\ 1 \in 1 .. Len(toWorker)
        /\ worker'.take = worker.take
        /\ \/ UNCHANGED <<worker, toPage, takes>>
           \/ /\ worker'.busy = worker.busy
              /\ Pushes(worker, f) /\ worker.delegate # "none"
           \/ worker'.busy = f /\ UNCHANGED <<toPage, takes>>
        /\ UNCHANGED recorder
    BY <1>1, <1>16, <2>1, WorkerFrameIs
  <2>3. f.type = "frame"
    BY <2>2, FrameFields
  <2>4. /\ worker.take = Latest => Fresh(f, takes[Latest])
        /\ \A i \in 1 .. Len(toWorker') : toWorker'[i].type = "frame" => f.at < toWorker'[i].at
    BY <1>2, <1>5, <2>1, <2>2, <2>3, ShrunkInOrder DEF CaptureBase, FrameInv
  <2>5. ASSUME worker.take = Latest, NEW i \in 1 .. Len(toWorker'), toWorker'[i].type = "frame"
        PROVE  Fresh(toWorker'[i], takes[Latest])
    BY <1>2, <1>5, <2>2, <2>5, ShrunkFrom
  <2>6. ASSUME worker.take = Latest, Closing'
        PROVE  StopAfter(toWorker', 0)
    <3>1. StopAfter(toWorker, 0) /\ toWorker[1].type # "stop"
      BY <1>5, <2>1, <2>2, <2>3, <2>6 DEF Closing
    <3> QED
      BY <1>2, <2>2, <3>1, ShrunkStop
  <2>7. CASE UNCHANGED <<worker, toPage, takes>>
    BY <1>4, <1>5, <2>5, <2>6, <2>7 DEF OwnWorker
  <2>8. CASE /\ worker'.busy = worker.busy
             /\ Pushes(worker, f) /\ worker.delegate # "none"
    <3>1. worker.busy = NoFrame
      BY <2>8 DEF CaptureBase, FrameInv
    <3>2. ASSUME worker.take = Latest, NEW i \in 1 .. Len(toWorker'), toWorker'[i].type = "frame"
          PROVE  Fresh(toWorker'[i], takes'[Latest])
      BY <1>15, <2>2, <2>4, <2>5, <2>8, <3>2
    <3> QED
      BY <1>4, <1>5, <2>2, <2>6, <2>8, <3>1, <3>2 DEF OwnWorker
  <2>9. CASE worker'.busy = f /\ UNCHANGED <<toPage, takes>>
    BY <1>4, <1>5, <2>2, <2>4, <2>5, <2>6, <2>9 DEF OwnWorker
  <2> QED
    BY <2>2, <2>7, <2>8, <2>9
<1>17. CASE Recovered
  <2>1. /\ worker.busy \in Frames /\ worker'.take = worker.take /\ worker'.busy = NoFrame
        /\ UNCHANGED <<toPage, takes>> \/ Pushes(worker, worker.busy)
        /\ UNCHANGED <<recorder, toWorker>>
    BY <1>1, <1>17, RecoveredIs
  <2>2. \A i \in 1 .. Len(toWorker) : toWorker[i].type = "frame" => worker.busy.at < toWorker[i].at
    BY <2>1, FrameFields DEF CaptureBase, FrameInv
  <2>3. ASSUME worker.take = Latest, NEW i \in 1 .. Len(toWorker), toWorker[i].type = "frame"
        PROVE  Fresh(toWorker[i], takes'[Latest])
    BY <1>5, <1>15, <2>1, <2>2, <2>3
  <2> QED
    BY <1>4, <1>5, <2>1, <2>3 DEF OwnWorker, Closing
<1> QED
  BY <1>8, <1>9, <1>10, <1>11, <1>12, <1>13, <1>14, <1>16, <1>17 DEF CaptureNext

LEMMA TurnKept ==
    ASSUME CaptureBase, CaptureNext, Own'
    PROVE  InTurn(takes[Latest], clock)'
<1>1. CaptureTypeOK /\ Numbered
  BY DEF CaptureBase
<1>2. CASE StartTake
  BY <1>2, OwnBegins DEF InTurn
<1> SUFFICES ASSUME ~StartTake
             PROVE  InTurn(takes[Latest], clock)'
  BY <1>2
<1>3. /\ Latest' = Latest /\ Latest \in Nat /\ Latest # 0 /\ Latest \in 1 .. Latest
      /\ InTurn(takes[Latest], clock)
  BY OwnStays
<1>4. takes[Latest] \in Takings /\ clock \in Nat
  BY <1>1, <1>3, Elements DEF CaptureTypeOK
<1>5. /\ Len(takes[Latest].pushed) \in Nat /\ takes[Latest].from \in Nat
      /\ \A j \in 1 .. Len(takes[Latest].pushed) :
             takes[Latest].pushed[j].frame \in Nat /\ takes[Latest].pushed[j].t \in Int
  <2>1. takes[Latest].pushed \in Seq([t : Int, frame : Nat]) /\ takes[Latest].from \in Nat
    BY <1>4 DEF Takings, Batches
  <2>2. /\ Len(takes[Latest].pushed) \in Nat
        /\ \A j \in 1 .. Len(takes[Latest].pushed) :
               takes[Latest].pushed[j] \in [t : Int, frame : Nat]
    BY <2>1, LenProperties, ElementOfSeq
  <2> QED
    BY <2>1, <2>2
<1>6. ASSUME NEW f \in Frames, Pushes(worker, f), clock' = clock, f.at <= clock,
             worker.take = Latest => Fresh(f, takes[Latest])
      PROVE  InTurn(takes'[Latest], clock)
  <2>1. worker.take = Latest
    BY <1>3, <1>6, OwnStays DEF OwnWorker, Pushes, NoTake
  <2>2. PICK sample : sample = SampleOf(worker, f)
    OBVIOUS
  <2>3. PICK p : p = takes[Latest].pushed
    OBVIOUS
  <2>4. PICK q : q = takes'[Latest].pushed
    OBVIOUS
  <2>5. /\ Grown(p, q, sample)
        /\ takes'[Latest].from = takes[Latest].from
        /\ sample.frame = f.at /\ sample.t = f.at - takes[Latest].from
    BY <1>1, <1>6, <2>1, <2>2, <2>3, <2>4, PushedIs
  <2>6. /\ f.at \in Nat /\ f.at > takes[Latest].from
        /\ \A j \in 1 .. Len(p) : p[j].frame < f.at
    BY <1>6, <2>1, <2>3, FrameFields DEF Fresh
  <2>7. Len(p) \in Nat /\ Len(q) = Len(p) + 1
    BY <1>5, <2>3, <2>5 DEF Grown
  <2>8. ASSUME NEW j \in 1 .. Len(q)
        PROVE  /\ q[j].t = q[j].frame - takes[Latest].from
               /\ q[j].t > (IF j = 1 THEN 0 ELSE q[j - 1].t)
               /\ q[j].frame <= clock
    <3>1. CASE j \in 1 .. Len(p)
      <4>1. q[j] = p[j] /\ (j # 1 => q[j - 1] = p[j - 1])
        BY <2>5, <2>7, <3>1 DEF Grown
      <4> QED
        BY <1>3, <2>3, <3>1, <4>1 DEF InTurn
    <3>2. CASE j \notin 1 .. Len(p)
      <4>1. j = Len(q) /\ q[j] = sample
        BY <2>5, <2>7, <3>2 DEF Grown
      <4>2. CASE j = 1
        BY <1>4, <1>5, <1>6, <2>5, <2>6, <4>1, <4>2
      <4>3. CASE j # 1
        <5>1. j - 1 \in 1 .. Len(p) /\ q[j - 1] = p[j - 1]
          BY <2>5, <2>7, <4>1, <4>3 DEF Grown
        <5>2. p[j - 1].t = p[j - 1].frame - takes[Latest].from /\ p[j - 1].frame \in Nat
          BY <1>3, <1>5, <2>3, <5>1 DEF InTurn
        <5>3. p[j - 1].frame < f.at
          BY <2>6, <5>1
        <5> QED
          BY <1>4, <1>5, <1>6, <2>5, <2>6, <4>1, <4>3, <5>1, <5>2, <5>3
      <4> QED
        BY <4>2, <4>3
    <3> QED
      BY <3>1, <3>2
  <2> QED
    BY <2>4, <2>5, <2>8 DEF InTurn
<1>7. CASE WorkerFrame
  <2>1. PICK f : f = toWorker[1]
    OBVIOUS
  <2>2. /\ f \in Frames /\ 1 \in 1 .. Len(toWorker) /\ clock' = clock
        /\ UNCHANGED takes \/ Pushes(worker, f)
    BY <1>1, <1>7, <2>1, WorkerFrameIs
  <2>3. /\ f.at <= clock
        /\ worker.take = Latest => Fresh(f, takes[Latest])
    BY <2>1, <2>2, FrameFields, OwnStays DEF OwnWorker, CaptureBase, FrameInv, InOrder
  <2> QED
    BY <1>3, <1>6, <2>2, <2>3
<1>8. CASE Recovered
  <2>1. /\ worker.busy \in Frames /\ clock' = clock
        /\ UNCHANGED takes \/ Pushes(worker, worker.busy)
    BY <1>1, <1>8, RecoveredIs
  <2>2. /\ worker.busy.at <= clock
        /\ worker.take = Latest => Fresh(worker.busy, takes[Latest])
    BY <2>1, FrameFields, OwnStays DEF OwnWorker, CaptureBase, FrameInv
  <2> QED
    BY <1>3, <1>6, <2>1, <2>2
<1>9. CASE WorkerStart
  <2>1. PICK k : k = toWorker[1].take
    OBVIOUS
  <2>2. /\ Replaced(takes, takes', k, takes'[k]) /\ takes'[k].pushed = takes[k].pushed
        /\ takes'[k].from = takes[k].from /\ clock' = clock
    BY <1>1, <1>9, <2>1, WorkerStartIs
  <2>3. takes'[Latest].pushed = takes[Latest].pushed /\ takes'[Latest].from = takes[Latest].from
    BY <1>3, <2>2 DEF Replaced, Latest
  <2> QED
    BY <1>3, <2>2, <2>3 DEF InTurn
<1>10. CASE PumpFrame
  <2>1. takes' = takes /\ clock' = clock + 1
    BY <1>1, <1>10, PumpFrameIs
  <2>2. \A j \in 1 .. Len(takes[Latest].pushed) : takes[Latest].pushed[j].frame <= clock + 1
    BY <1>3, <1>4, <1>5 DEF InTurn
  <2> QED
    BY <1>3, <2>1, <2>2 DEF InTurn
<1>11. CASE ~WorkerFrame /\ ~Recovered /\ ~WorkerStart /\ ~PumpFrame
  <2>1. UNCHANGED <<takes, clock>>
    BY <1>11 DEF CaptureNext, MicAnswers, StopTake, FlushTimesOut, MakePair, PageSamples,
                PageSound, WorkerStop
  <2> QED
    BY <1>3, <2>1
<1> QED
  BY <1>7, <1>8, <1>9, <1>10, <1>11

LEMMA OneOf ==
    ASSUME NEW S, NEW e \in S
    PROVE  <<e>> \in Seq(S)
OBVIOUS

LEMMA SamplesKept ==
    ASSUME CaptureBase, CaptureNext, Own'
    PROVE  OwnSamples'
<1>1. CaptureTypeOK /\ Numbered
  BY DEF CaptureBase
<1>2. Joins(Batches)
  BY SequencesJoin DEF Batches
<1>3. \A a \in Batches, b \in Batches, c \in Batches :
          Cat(Cat(a, b), c) = Cat(a, Cat(b, c))
  BY <1>2, Associates
<1>4. /\ recorder.samples \in Batches /\ toPage \in Seq(Batches) /\ worker.batch \in Batches
      /\ FlattenSeq(toPage) \in Batches
  <2>1. recorder.samples \in Batches /\ toPage \in Seq(Batches) /\ worker.batch \in Batches
    BY <1>1 DEF CaptureTypeOK, Recorders, Workers
  <2> QED
    BY <1>2, <2>1, FlattenTyped
<1>5. CASE StartTake
  <2>1. recorder'.samples = <<>> /\ UNCHANGED <<worker, toPage>>
    BY <1>1, <1>5, StartTakeIs
  <2>2. /\ worker.batch = <<>> /\ toPage = <<>> /\ takes'[Latest'].pushed = <<>>
    BY <1>5, OwnBegins
  <2>3. <<>> \o <<>> = <<>> /\ <<>> \o (<<>> \o <<>>) = <<>>
    OBVIOUS
  <2> QED
    BY <2>1, <2>2, <2>3, FlattenEmpty DEF OwnSamples, Gathered
<1> SUFFICES ASSUME ~StartTake
             PROVE  OwnSamples'
  BY <1>5
<1>6. Latest' = Latest /\ Latest \in Nat /\ Latest # 0 /\ Latest \in 1 .. Latest /\ OwnHook
  BY OwnStays
<1>7. Latest \in asking \/ recorder.phase = "recording" \/ Closing =>
          Gathered = takes[Latest].pushed /\ ~recorder.aborted
  BY OwnStays DEF OwnSamples, OwnHook
<1>8. ASSUME NEW k \in asking, MicAnswers(k)
      PROVE  OwnSamples'
  <2>1. /\ UNCHANGED <<worker, toPage, takes>> /\ recorder'.samples = recorder.samples
    BY <1>1, <1>8, MicAnswersIs
  <2>2. Latest \in asking
    BY <1>6, <1>8 DEF OwnHook
  <2> QED
    BY <1>6, <1>7, <2>1, <2>2 DEF OwnSamples, Gathered
<1>9. CASE StopTake \/ FlushTimesOut
  <2>1. /\ UNCHANGED <<worker, toPage, takes>> /\ recorder'.samples = recorder.samples
        /\ recorder.phase = "recording" \/ Closing
    BY <1>1, <1>9, StopTakeIs, FlushTimesOutIs
  <2> QED
    BY <1>6, <1>7, <2>1 DEF OwnSamples, Gathered
<1>10. CASE MakePair
  <2>1. Closing /\ ~Closing' /\ recorder'.phase = "ready" /\ asking' = asking
    BY <1>1, <1>10, MakePairIs
  <2> QED
    BY <1>6, <2>1 DEF OwnSamples, OwnHook
<1>11. CASE PageSamples
  <2>1. /\ toPage # <<>> /\ toPage' = Tail(toPage)
        /\ Closing' <=> Closing
        /\ recorder'.phase = recorder.phase
        /\ recorder'.samples = IF recorder.aborted THEN recorder.samples
                               ELSE recorder.samples \o Head(toPage)
        /\ UNCHANGED <<asking, worker, takes>>
    BY <1>1, <1>11, PageSamplesIs
  <2>2. PICK head : head = Head(toPage)
    OBVIOUS
  <2>3. PICK tail : tail = Tail(toPage)
    OBVIOUS
  <2>4. head \in Batches /\ tail \in Seq(Batches)
    BY <1>4, <2>1, <2>2, <2>3, TailIs
  <2>5. FlattenSeq(toPage) = head \o FlattenSeq(tail)
    BY <1>2, <1>4, <2>1, <2>2, <2>3, FlattenHead
  <2>6. PICK rest \in Batches : rest = FlattenSeq(tail)
    BY <1>2, <2>4, FlattenTyped
  <2>7. (recorder.samples \o head) \o (rest \o worker.batch)
            = recorder.samples \o ((head \o rest) \o worker.batch)
    <3>1. PICK samples \in Batches : samples = recorder.samples
      BY <1>4
    <3>2. PICK batch \in Batches : batch = worker.batch
      BY <1>4
    <3>3. rest \o batch \in Batches
      BY <1>2 DEF Joins
    <3>4. PICK more \in Batches : more = rest \o batch
      BY <3>3
    <3>5. Cat(Cat(samples, head), more) = Cat(samples, Cat(head, more))
      BY <1>3, <2>4
    <3>6. Cat(Cat(head, rest), batch) = Cat(head, Cat(rest, batch))
      BY <1>3, <2>4
    <3> QED
      BY <3>1, <3>2, <3>4, <3>5, <3>6 DEF Cat
  <2>8. ~recorder.aborted => Gathered' = Gathered
    BY <2>1, <2>2, <2>3, <2>5, <2>6, <2>7 DEF Gathered
  <2> QED
    BY <1>6, <1>7, <2>1, <2>8 DEF OwnSamples
<1>12. CASE PumpFrame \/ \E k \in DOMAIN mics : PageSound(k)
  <2>1. UNCHANGED <<worker, toPage, takes, recorder, asking>>
    BY <1>12 DEF PageSound, PumpFrame
  <2> QED
    BY <1>6, <1>7, <2>1 DEF OwnSamples, Gathered, Closing
<1>13. CASE WorkerStart
  <2>1. PICK k : k = toWorker[1].take
    OBVIOUS
  <2>2. /\ worker'.batch = <<>> /\ toWorker[1].type = "start" /\ 1 \in 1 .. Len(toWorker)
        /\ Replaced(takes, takes', k, takes'[k]) /\ takes'[k].pushed = takes[k].pushed
        /\ UNCHANGED <<recorder, asking, toPage>>
    BY <1>1, <1>13, <2>1, WorkerStartIs
  <2>3. takes'[Latest].pushed = takes[Latest].pushed
    BY <1>6, <2>2 DEF Replaced, Latest
  <2>4. worker.batch = <<>>
    BY <2>2, OwnStays DEF OwnStart, CaptureBase, FrameInv
  <2> QED
    BY <1>6, <1>7, <2>2, <2>3, <2>4 DEF OwnSamples, Gathered, Closing
<1>14. CASE WorkerStop
  <2>1. /\ worker'.batch = <<>>
        /\ \/ toPage' = toPage /\ (worker.take = NoTake \/ worker.batch = <<>>)
           \/ toPage' = Append(toPage, worker.batch)
        /\ UNCHANGED <<recorder, asking, takes>>
    BY <1>1, <1>14, WorkerStopIs
  <2>2. CASE toPage' = toPage /\ (worker.take = NoTake \/ worker.batch = <<>>)
    <3>1. worker.batch = <<>>
      BY <2>2 DEF CaptureBase, FrameInv
    <3> QED
      BY <1>6, <1>7, <2>1, <2>2, <3>1 DEF OwnSamples, Gathered, Closing
  <2>3. CASE toPage' = Append(toPage, worker.batch)
    <3>1. FlattenSeq(toPage') = FlattenSeq(toPage) \o worker.batch
      BY <1>2, <1>4, <2>3, FlattenAppend
    <3>2. FlattenSeq(toPage) \o worker.batch \in Batches
      BY <1>2, <1>4 DEF Joins
    <3>3. FlattenSeq(toPage') \o <<>> = FlattenSeq(toPage')
      BY <1>2, <3>1, <3>2 DEF Joins
    <3> QED
      BY <1>6, <1>7, <2>1, <3>1, <3>3 DEF OwnSamples, Gathered, Closing
  <2> QED
    BY <2>1, <2>2, <2>3
<1>15. ASSUME NEW f \in Frames, Pushes(worker, f), UNCHANGED <<recorder, asking>>
       PROVE  OwnSamples'
  <2>1. worker.take = Latest
    BY <1>6, <1>15, OwnStays DEF OwnWorker, Pushes, NoTake
  <2>2. PICK sample : sample = SampleOf(worker, f)
    OBVIOUS
  <2>3. sample \in [t : Int, frame : Nat] /\ takes[Latest].pushed \in Batches
    BY <1>1, <1>15, <2>1, <2>2, PushedIs
  <2>4. takes'[Latest].pushed = takes[Latest].pushed \o <<sample>>
    BY <1>15, <2>1, <2>2, <2>3, AppendIsConcat DEF Pushes, Batches
  <2>5. PICK one \in Batches : one = <<sample>>
    BY <2>3, OneOf DEF Batches
  <2>6. PICK batch \in Batches : batch = worker.batch
    BY <1>4
  <2>7. PICK under \in Batches : under = FlattenSeq(toPage)
    BY <1>4
  <2>8. PICK samples \in Batches : samples = recorder.samples
    BY <1>4
  <2>9. PICK more \in Batches : more = Append(batch, sample) /\ more = batch \o one
    <3>1. Append(batch, sample) \in Batches /\ Append(batch, sample) = batch \o one
      BY <2>3, <2>5, AppendProperties, AppendIsConcat DEF Batches
    <3> QED
      BY <3>1
  <2>10. (samples \o (under \o batch)) \o one = samples \o (under \o more)
    <3>1. under \o batch \in Batches
      BY <1>2 DEF Joins
    <3>2. PICK rest \in Batches : rest = under \o batch
      BY <3>1
    <3>3. Cat(Cat(samples, rest), one) = Cat(samples, Cat(rest, one))
      BY <1>3
    <3>4. Cat(Cat(under, batch), one) = Cat(under, Cat(batch, one))
      BY <1>3
    <3> QED
      BY <2>9, <3>2, <3>3, <3>4 DEF Cat
  <2>11. Gathered' = Gathered \o one
    <3>1. CASE toPage' = Append(toPage, more) /\ worker'.batch = <<>>
      <4>1. FlattenSeq(toPage') = under \o more
        BY <1>2, <1>4, <2>7, <3>1, FlattenAppend
      <4>2. (under \o more) \o <<>> = under \o more
        BY <1>2 DEF Joins
      <4> QED
        BY <1>15, <2>6, <2>7, <2>8, <2>10, <3>1, <4>1, <4>2 DEF Gathered
    <3>2. CASE toPage' = toPage /\ worker'.batch = more
      BY <1>15, <2>6, <2>7, <2>8, <2>10, <3>2 DEF Gathered
    <3> QED
      BY <1>15, <2>2, <2>6, <2>9, <3>1, <3>2 DEF Pushes
  <2> QED
    BY <1>6, <1>7, <1>15, <2>4, <2>5, <2>11 DEF OwnSamples, Closing
<1>16. CASE WorkerFrame
  <2>1. PICK f : f = toWorker[1]
    OBVIOUS
  <2>2. /\ f \in Frames /\ UNCHANGED <<recorder, asking>>
        /\ (worker'.batch = worker.batch /\ UNCHANGED <<toPage, takes>>) \/ Pushes(worker, f)
    BY <1>1, <1>16, <2>1, WorkerFrameIs
  <2>3. CASE worker'.batch = worker.batch /\ UNCHANGED <<toPage, takes>>
    BY <1>6, <1>7, <2>2, <2>3 DEF OwnSamples, Gathered, Closing
  <2> QED
    BY <1>15, <2>2, <2>3
<1>17. CASE Recovered
  <2>1. /\ worker.busy \in Frames /\ UNCHANGED <<recorder, asking>>
        /\ \/ worker'.batch = worker.batch /\ UNCHANGED <<toPage, takes>>
           \/ Pushes(worker, worker.busy)
    BY <1>1, <1>17, RecoveredIs
  <2>2. CASE worker'.batch = worker.batch /\ UNCHANGED <<toPage, takes>>
    BY <1>6, <1>7, <2>1, <2>2 DEF OwnSamples, Gathered, Closing
  <2> QED
    BY <1>15, <2>1, <2>2
<1> QED
  BY <1>8, <1>9, <1>10, <1>11, <1>12, <1>13, <1>14, <1>16, <1>17 DEF CaptureNext

LEMMA OwnKept ==
    ASSUME CaptureBase, CaptureNext
    PROVE  OwnInv'
BY HookKept, StartKept, WorkerKept, TurnKept, SamplesKept DEF OwnInv

-----------------------------------------------------------------------------
(* The pairs *)

\* Nothing more will be taken for take k.
Finished(k) ==
    /\ worker.take # k
    /\ \A j \in 1 .. Len(toWorker) : toWorker[j].type = "start" => toWorker[j].take # k

PairInv ==
    /\ Closing /\ recorder.closing.take # Latest => takes[recorder.closing.take].crossed
    /\ \A i \in 1 .. Len(pairs) :
           ~takes[pairs[i].take].crossed /\ ~pairs[i].early => Finished(pairs[i].take)

SamplesAreIts(pair, take, opening) ==
    /\ pair.audio = pair.take
    /\ IsPrefix(pair.samples, take.pushed)
    /\ ~pair.early => pair.samples = take.pushed
    /\ \A j \in DOMAIN pair.samples :
           /\ pair.samples[j].t > (IF j = 1 THEN 0 ELSE pair.samples[j - 1].t)
           /\ pair.samples[j].frame <= pair.made
           /\ pair.samples[j].t \in DOMAIN pair.wav =>
                  pair.wav[pair.samples[j].t] = pair.samples[j].frame + opening

\* PairIsItsTake, of one pair.
ItsTake(pair) ==
    /\ SoundRunsOn(pair)
    /\ ~takes[pair.take].crossed =>
           SamplesAreIts(pair, takes[pair.take], mics[pair.audio].from - takes[pair.take].from)

LEMMA PairIsItsTakeIs == PairIsItsTake <=> \A i \in DOMAIN pairs : ItsTake(pairs[i])
BY DEF PairIsItsTake, ItsTake, SamplesAreIts

LEMMA PrefixIs ==
    ASSUME NEW S, NEW s \in Seq(S), NEW t \in Seq(S)
    PROVE  IsPrefix(s, t) <=> Len(s) <= Len(t) /\ \A i \in 1 .. Len(s) : s[i] = t[i]
<1>1. Len(s) \in Nat /\ Len(t) \in Nat /\ \A i \in 1 .. Len(s) : s[i] \in S
  BY LenProperties, ElementOfSeq
<1>2. SubSeq(s, 1, Len(s)) = s
  BY SubSeqFull
<1>3. ASSUME Len(s) <= Len(t)
      PROVE  SubSeq(s, 1, Len(s)) = SubSeq(t, 1, Len(s)) <=> \A i \in 1 .. Len(s) : s[i] = t[i]
  <2>1. \A i \in 1 .. Len(s) : i \in 1 .. Len(t) /\ t[i] \in S
    BY <1>1, <1>3, ElementOfSeq
  <2>2. PICK front : front = SubSeq(t, 1, Len(s))
    OBVIOUS
  <2>3. /\ front \in Seq(S) /\ Len(front) = Len(s)
        /\ \A i \in 1 .. Len(s) : front[i] = t[i]
    <3>1. /\ front \in Seq(S)
          /\ Len(front) = IF 1 <= Len(s) THEN Len(s) - 1 + 1 ELSE 0
          /\ \A i \in 1 .. Len(s) - 1 + 1 : front[i] = t[1 + i - 1]
      BY <1>1, <2>1, <2>2, SubSeqProperties
    <3> QED
      BY <1>1, <3>1
  <2>4. s = front <=> \A i \in 1 .. Len(s) : s[i] = front[i]
    BY <2>3, SeqEqual
  <2> QED
    BY <1>2, <2>2, <2>3, <2>4
<1> QED
  BY <1>3 DEF IsPrefix

\* What becomes of a take that was started.
Later(k) ==
    /\ takes'[k].from = takes[k].from
    /\ takes[k].crossed => takes'[k].crossed
    /\ \/ takes'[k].pushed = takes[k].pushed
       \/ /\ worker.take = k
          /\ \E sample : Grown(takes[k].pushed, takes'[k].pushed, sample)

LEMMA TakesGoOn ==
    ASSUME CaptureTypeOK, Numbered, CaptureNext
    PROVE  /\ Latest' \in Nat /\ Latest <= Latest'
           /\ \A k \in 1 .. Latest : Later(k)
           /\ \A k \in (1 .. Latest) \ asking : mics'[k].from = mics[k].from
<1>1. Latest \in Nat /\ DOMAIN mics = 1 .. Latest /\ Len(mics) = Latest
  BY Elements
<1>2. CASE StartTake
  <2>1. /\ Latest' = Latest + 1 /\ Grown(takes, takes', NewTake(UnderWay))
        /\ Grown(mics, mics', Mic(FALSE))
    BY <1>2, StartTakeIs
  <2>2. \A k \in 1 .. Latest : takes'[k] = takes[k] /\ mics'[k] = mics[k]
    BY <1>1, <2>1 DEF Grown, Latest
  <2> QED
    BY <1>1, <2>1, <2>2 DEF Later
<1>3. ASSUME NEW k \in asking, MicAnswers(k)
      PROVE  /\ takes' = takes
             /\ \A m \in (1 .. Latest) \ asking : mics'[m].from = mics[m].from
  <2>1. /\ takes' = takes
        /\ Replaced(mics, mics', k, Mic(TRUE)) \/ mics' = mics
    BY <1>3, MicAnswersIs
  <2> QED
    BY <1>1, <2>1 DEF Replaced
<1>4. ASSUME MakePair
      PROVE  /\ takes' = takes
             /\ \A m \in (1 .. Latest) \ asking : mics'[m].from = mics[m].from
  <2>1. /\ takes' = takes
        /\ Replaced(mics, mics', recorder.closing.mic, Stopped(mics[recorder.closing.mic]))
    BY <1>4, MakePairIs
  <2>2. Stopped(mics[recorder.closing.mic]).from = mics[recorder.closing.mic].from
    BY DEF Stopped, Mic
  <2> QED
    BY <1>1, <2>1, <2>2 DEF Replaced
<1>5. ASSUME NEW k \in DOMAIN mics, PageSound(k)
      PROVE  /\ takes' = takes
             /\ \A m \in (1 .. Latest) \ asking : mics'[m].from = mics[m].from
  <2>1. /\ takes' = takes
        /\ Replaced(mics, mics', k, mics'[k]) /\ mics'[k].from = mics[k].from
    BY <1>5, PageSoundIs
  <2> QED
    BY <1>1, <2>1 DEF Replaced
<1>6. ASSUME PumpFrame
      PROVE  /\ takes' = takes
             /\ \A m \in (1 .. Latest) \ asking : mics'[m].from = mics[m].from
  <2>1. takes' = takes /\ clock' \in Nat
    BY <1>6, PumpFrameIs DEF CaptureTypeOK
  <2>2. \A k \in 1 .. Latest : mics'[k] = Heard(mics[k], clock')
    BY <1>6, PumpFrameIs
  <2>3. PICK now \in Nat : now = clock'
    BY <2>1
  <2>4. ASSUME NEW m \in 1 .. Latest
        PROVE  mics'[m].from = mics[m].from
    <3>1. PICK mic \in Mics : mic = mics[m]
      BY Elements
    <3>2. Heard(mic, now).from = mic.from
      BY HeardIs
    <3> QED
      BY <2>2, <2>3, <3>1, <3>2
  <2> QED
    BY <2>1, <2>4
<1>7. ASSUME StopTake \/ FlushTimesOut \/ PageSamples \/ WorkerStop
      PROVE  takes' = takes /\ mics' = mics
  BY <1>7 DEF StopTake, FlushTimesOut, PageSamples, WorkerStop
<1>8. CASE takes' = takes /\ \A m \in (1 .. Latest) \ asking : mics'[m].from = mics[m].from
  <2>1. Latest' = Latest
    BY <1>8 DEF Latest
  <2>2. \A k \in 1 .. Latest : Later(k)
    BY <1>8 DEF Later
  <2> QED
    BY <1>1, <1>8, <2>1, <2>2
<1>9. CASE WorkerStart
  <2>1. PICK k : k = toWorker[1].take
    OBVIOUS
  <2>2. /\ Latest' = Latest /\ k \in 1 .. Latest
        /\ Replaced(takes, takes', k, takes'[k])
        /\ takes'[k].from = takes[k].from /\ takes'[k].pushed = takes[k].pushed
        /\ takes'[k].crossed <=> (takes[k].crossed \/ worker.busy # NoFrame)
        /\ mics' = mics
    BY <1>9, <2>1, WorkerStartIs
  <2>3. \A m \in 1 .. Latest : m # k => takes'[m] = takes[m]
    BY <2>2 DEF Replaced, Latest
  <2>4. ASSUME NEW m \in 1 .. Latest
        PROVE  Later(m)
    <3>1. CASE m = k
      BY <2>2, <3>1 DEF Later
    <3>2. CASE m # k
      BY <2>3, <3>2 DEF Later
    <3> QED
      BY <3>1, <3>2
  <2> QED
    BY <1>1, <2>2, <2>4
<1>10. ASSUME NEW f \in Frames, Pushes(worker, f)
       PROVE  \A k \in 1 .. Latest : Later(k)
  <2>1. /\ worker.take \in 1 .. Latest
        /\ Grown(takes[worker.take].pushed, takes'[worker.take].pushed, SampleOf(worker, f))
        /\ takes'[worker.take].from = takes[worker.take].from
    BY <1>10, PushedIs
  <2>2. takes'[worker.take].crossed = takes[worker.take].crossed
    BY <1>10 DEF Pushes
  <2>3. \A m \in 1 .. Latest : m # worker.take => takes'[m] = takes[m]
    BY <1>10 DEF Pushes, Replaced, Latest
  <2>4. ASSUME NEW m \in 1 .. Latest
        PROVE  Later(m)
    <3>1. CASE m = worker.take
      BY <2>1, <2>2, <3>1 DEF Later
    <3>2. CASE m # worker.take
      BY <2>3, <3>2 DEF Later
    <3> QED
      BY <3>1, <3>2
  <2> QED
    BY <2>4
<1>11. CASE WorkerFrame
  <2>1. PICK f : f = toWorker[1]
    OBVIOUS
  <2>2. /\ Latest' = Latest /\ f \in Frames /\ (takes' = takes \/ Pushes(worker, f))
        /\ mics' = mics
    BY <1>11, <2>1, WorkerFrameIs
  <2>3. takes' = takes => \A k \in 1 .. Latest : Later(k)
    BY DEF Later
  <2> QED
    BY <1>1, <1>10, <1>11, <2>1, <2>2, <2>3, WorkerFrameIs
<1>12. CASE Recovered
  <2>1. /\ Latest' = Latest /\ worker.busy \in Frames
        /\ takes' = takes \/ Pushes(worker, worker.busy)
        /\ mics' = mics
    BY <1>12, RecoveredIs
  <2>2. takes' = takes => \A k \in 1 .. Latest : Later(k)
    BY DEF Later
  <2> QED
    BY <1>1, <1>10, <2>1, <2>2
<1> QED
  BY <1>2, <1>3, <1>4, <1>5, <1>6, <1>7, <1>8, <1>9, <1>11, <1>12 DEF CaptureNext

LEMMA BatchIs ==
    ASSUME NEW b \in Batches
    PROVE  /\ Len(b) \in Nat /\ DOMAIN b = 1 .. Len(b)
           /\ \A j \in 1 .. Len(b) : b[j].t \in Int /\ b[j].frame \in Nat
<1>1. b \in Seq([t : Int, frame : Nat])
  BY DEF Batches
<1>2. Len(b) \in Nat /\ DOMAIN b = 1 .. Len(b)
  BY <1>1, LenProperties
<1>3. \A j \in 1 .. Len(b) : b[j] \in [t : Int, frame : Nat]
  BY <1>1, ElementOfSeq
<1> QED
  BY <1>2, <1>3

\* A pair stays what it is while its take is, but for what is pushed when it no longer counts.
LEMMA StaysIts ==
    ASSUME CaptureTypeOK, CaptureTypeOK', NEW pair \in Pairs, Latest <= Latest',
           NEW k, k = pair.take, k \in 1 .. Latest, Later(k),
           mics'[pair.audio].from = mics[pair.audio].from,
           takes'[k].pushed = takes[k].pushed \/ takes[k].crossed \/ pair.early,
           ItsTake(pair)
    PROVE  ItsTake(pair)'
<1>1. SoundRunsOn(pair)'
  BY DEF ItsTake, SoundRunsOn
<1>2. ASSUME ~takes'[k].crossed
      PROVE  SamplesAreIts(pair, takes'[k], mics'[pair.audio].from - takes'[k].from)
  <2>1. ~takes[k].crossed /\ takes'[k].from = takes[k].from
    BY <1>2 DEF Later
  <2>2. SamplesAreIts(pair, takes[k], mics'[pair.audio].from - takes'[k].from)
    BY <2>1 DEF ItsTake
  <2>3. CASE takes'[k].pushed = takes[k].pushed
    BY <2>2, <2>3 DEF SamplesAreIts
  <2>4. CASE takes'[k].pushed # takes[k].pushed
    <3>1. /\ pair.early
          /\ \E sample : Grown(takes[k].pushed, takes'[k].pushed, sample)
      BY <2>1, <2>4 DEF Later
    <3>2. takes[k] \in Takings /\ takes'[k] \in Takings
      <4>1. Latest \in Nat /\ takes[k] \in Takings
        BY Elements
      <4>2. takes' \in Seq(Takings)
        BY DEF CaptureTypeOK
      <4>3. Len(takes') \in Nat /\ \A i \in 1 .. Len(takes') : takes'[i] \in Takings
        BY <4>2, LenProperties, ElementOfSeq
      <4>4. k \in 1 .. Len(takes')
        BY <4>1, <4>3 DEF Latest
      <4> QED
        BY <4>1, <4>3, <4>4
    <3>3. PICK p \in Batches : p = takes[k].pushed
      BY <3>2 DEF Takings
    <3>4. PICK q \in Batches : q = takes'[k].pushed
      BY <3>2 DEF Takings
    <3>5. PICK got \in Batches : got = pair.samples
      BY DEF Pairs
    <3>6. IsPrefix(got, p)
      BY <2>2, <3>3, <3>5 DEF SamplesAreIts
    <3>7. Len(got) \in Nat /\ Len(p) \in Nat
      BY BatchIs
    <3>8. Len(got) <= Len(p) /\ \A i \in 1 .. Len(got) : got[i] = p[i]
      BY <3>6, PrefixIs DEF Batches
    <3>9. Len(q) = Len(p) + 1 /\ \A i \in 1 .. Len(p) : q[i] = p[i]
      BY <3>1, <3>3, <3>4 DEF Grown
    <3>10. Len(got) <= Len(q) /\ \A i \in 1 .. Len(got) : got[i] = q[i]
      BY <3>7, <3>8, <3>9
    <3>11. IsPrefix(got, q)
      BY <3>10, PrefixIs DEF Batches
    <3> QED
      BY <2>2, <3>1, <3>4, <3>5, <3>11 DEF SamplesAreIts
  <2> QED
    BY <2>3, <2>4
<1> QED
  BY <1>1, <1>2 DEF ItsTake

\* Of a microphone that is open, what the page has is the beginning of what was heard.
LEMMA PageHas ==
    ASSUME NEW mic \in Mics, NEW now \in Nat, Hears(mic, now),
           NEW wav, wav = FlattenSeq(mic.chunks)
    PROVE  /\ wav \in Sounds /\ Len(wav) \in Nat
           /\ \A n \in 1 .. Len(wav) : wav[n] = mic.from + n
           /\ mic.posted = <<>> => now - (mic.from + Len(wav)) < SoundBatch
<1>1. PICK under \in Sounds : under = FlattenSeq(mic.posted)
  BY SoundTyped
<1>2. wav \in Sounds /\ mic.buffer \in Sounds /\ Sound(mic) = wav \o (under \o mic.buffer)
  BY <1>1, SoundTyped DEF Sound
<1>3. PICK buffer \in Seq(Nat) : buffer = mic.buffer
  BY <1>2 DEF Sounds
<1>4. wav \in Seq(Nat) /\ under \in Seq(Nat)
  BY <1>1, <1>2 DEF Sounds
<1>5. PICK rest \in Seq(Nat) : rest = under \o buffer
  BY <1>4, ConcatProperties
<1>6. PICK len \in Nat : len = now - mic.from
  BY DEF Hears, Mics
<1>7. PICK from \in Nat : from = mic.from
  BY DEF Mics
<1>8. wav \o rest = [n \in 1 .. len |-> from + n]
  BY <1>2, <1>3, <1>5, <1>6, <1>7 DEF Hears
<1>9. PICK all : all = [n \in 1 .. len |-> from + n]
  OBVIOUS
<1>10. all \in Seq(Nat) /\ Len(all) = len /\ \A n \in 1 .. len : all[n] = from + n
  BY <1>9
<1>11. /\ Len(wav) \in Nat /\ Len(rest) \in Nat /\ Len(buffer) \in Nat
       /\ Len(all) = Len(wav) + Len(rest)
       /\ \A n \in 1 .. Len(wav) : all[n] = wav[n]
  <2>1. Len(wav) \in Nat /\ Len(rest) \in Nat /\ Len(buffer) \in Nat
    BY <1>4, LenProperties
  <2>2. /\ Len(wav \o rest) = Len(wav) + Len(rest)
        /\ \A i \in 1 .. Len(wav) + Len(rest) : (wav \o rest)[i] =
                     IF i <= Len(wav) THEN wav[i] ELSE rest[i - Len(wav)]
    BY <1>4, ConcatProperties
  <2>3. all = wav \o rest
    BY <1>8, <1>9
  <2>4. \A n \in 1 .. Len(wav) : n \in 1 .. Len(wav) + Len(rest) /\ n <= Len(wav)
    BY <2>1
  <2> QED
    BY <2>1, <2>2, <2>3, <2>4
<1>12. \A n \in 1 .. Len(wav) : wav[n] = from + n
  <2>1. \A n \in 1 .. Len(wav) : n \in 1 .. len
    BY <1>10, <1>11
  <2> QED
    BY <1>10, <1>11, <2>1
<1>13. ASSUME mic.posted = <<>>
       PROVE  now - (from + Len(wav)) < SoundBatch
  <2>1. under = <<>>
    BY <1>1, <1>13, FlattenEmpty
  <2>2. rest = buffer
    BY <1>5, <2>1, ConcatEmptySeq
  <2>3. Len(buffer) < SoundBatch /\ SoundBatch \in Nat
    BY <1>3, CaptureAssumption DEF Hears
  <2> QED
    BY <1>6, <1>7, <1>10, <1>11, <2>2, <2>3
<1> QED
  BY <1>2, <1>7, <1>11, <1>12, <1>13

\* The pair doStop makes is its take's.
LEMMA NewPairIs ==
    ASSUME CaptureBase, SoundInv, PairInv, MakePair
    PROVE  /\ ItsTake(PairMade)
           /\ ~takes[PairMade.take].crossed /\ ~PairMade.early => Finished(PairMade.take)
<1>1. CaptureTypeOK /\ Numbered /\ FrameInv
  BY DEF CaptureBase
<1>2. Closing
  BY <1>1, MakePairIs
<1>3. PICK m : m = recorder.closing.mic
  OBVIOUS
<1>4. /\ m \in 1 .. Latest /\ recorder.closing.take \in 1 .. Latest /\ mics[m].open
      /\ Latest \in Nat /\ Latest # 0 /\ Latest \in 1 .. Latest
  <2>1. m \in 1 .. Latest /\ recorder.closing.take \in 1 .. Latest /\ mics[m].open
    BY <1>1, <1>2, <1>3 DEF Numbered, SoundInv
  <2> QED
    BY <1>1, <2>1, Elements
<1>5. mics[m] \in Mics /\ Hears(mics[m], clock) /\ clock \in Nat
  BY <1>1, <1>4, Elements DEF SoundInv, CaptureTypeOK
<1>6. PICK from \in Nat : from = mics[m].from
  BY <1>5 DEF Mics
<1>7. PICK wav : wav = FlattenSeq(mics[m].chunks)
  OBVIOUS
<1>8. /\ wav \in Sounds /\ Len(wav) \in Nat
      /\ \A n \in 1 .. Len(wav) : wav[n] = from + n
      /\ mics[m].posted = <<>> => clock - (from + Len(wav)) < SoundBatch
  BY <1>5, <1>6, <1>7, PageHas
<1>9. PICK pair : pair = PairMade
  OBVIOUS
<1>10. /\ pair.audio = m /\ pair.take = recorder.closing.take
       /\ pair.made = clock /\ pair.wav = wav
       /\ pair.samples = recorder.samples
  BY <1>3, <1>7, <1>9 DEF PairMade
<1>11. pair.early <=> Early
  BY <1>9 DEF PairMade
<1>12. pair.cut <=> mics[m].posted # <<>>
  BY <1>3, <1>9 DEF PairMade
<1>13. SoundRunsOn(pair)
  BY <1>6, <1>8, <1>10, <1>12 DEF SoundRunsOn
<1>14. ASSUME ~takes[pair.take].crossed
       PROVE  /\ SamplesAreIts(pair, takes[pair.take], from - takes[pair.take].from)
              /\ ~pair.early => Finished(pair.take)
  <2>1. pair.take = Latest
    BY <1>2, <1>10, <1>14 DEF PairInv
  <2>2. Own
    BY <1>4, <1>14, <2>1 DEF Own
  <2>3. OwnHook /\ OwnStart /\ OwnWorker /\ OwnSamples /\ InTurn(takes[Latest], clock)
    BY <2>2 DEF CaptureBase, OwnInv
  <2>4. pair.audio = pair.take
    BY <1>2, <1>3, <1>10, <2>1, <2>3 DEF OwnHook
  <2>5. PICK got \in Batches : got = recorder.samples
    BY <1>1 DEF CaptureTypeOK, Recorders
  <2>6. PICK p \in Batches : p = takes[Latest].pushed
    <3>1. takes[Latest] \in Takings
      BY <1>1, <1>4, Elements
    <3> QED
      BY <3>1 DEF Takings
  <2>7. PICK rest \in Batches : rest = FlattenSeq(toPage) \o worker.batch
    <3>1. Joins(Batches)
      BY SequencesJoin DEF Batches
    <3>2. toPage \in Seq(Batches) /\ worker.batch \in Batches
      BY <1>1 DEF CaptureTypeOK, Workers
    <3>3. FlattenSeq(toPage) \in Batches
      BY <3>1, <3>2, FlattenTyped
    <3>4. FlattenSeq(toPage) \o worker.batch \in Batches
      BY <3>1, <3>2, <3>3 DEF Joins
    <3> QED
      BY <3>4
  <2>8. p = got \o rest
    BY <1>2, <2>3, <2>5, <2>6, <2>7 DEF OwnSamples, Gathered
  <2>9. Len(got) \in Nat /\ Len(p) \in Nat /\ Len(rest) \in Nat /\ DOMAIN got = 1 .. Len(got)
    BY BatchIs
  <2>10. Len(got) <= Len(p) /\ \A j \in 1 .. Len(got) : got[j] = p[j]
    <3>1. /\ Len(got \o rest) = Len(got) + Len(rest)
          /\ \A i \in 1 .. Len(got) + Len(rest) : (got \o rest)[i] =
                     IF i <= Len(got) THEN got[i] ELSE rest[i - Len(got)]
      BY ConcatProperties DEF Batches
    <3>2. \A j \in 1 .. Len(got) : j \in 1 .. Len(got) + Len(rest) /\ j <= Len(got)
      BY <2>9
    <3> QED
      BY <2>8, <2>9, <3>1, <3>2
  <2>11. IsPrefix(got, p)
    BY <2>10, PrefixIs DEF Batches
  <2>12. ASSUME ~pair.early
         PROVE  got = p /\ Finished(Latest)
    <3>1. toPage = <<>> /\ \A i \in 1 .. Len(toWorker) : toWorker[i].type # "stop"
      BY <1>1, <1>11, <2>12, Elements DEF Early
    <3>2. worker.take = NoTake
      BY <1>2, <2>3, <3>1 DEF OwnWorker, StopAfter
    <3>3. worker.batch = <<>>
      BY <1>1, <3>2 DEF FrameInv
    <3>4. rest = <<>>
      <4>1. <<>> \o <<>> = <<>>
        OBVIOUS
      <4> QED
        BY <2>7, <3>1, <3>3, <4>1, FlattenEmpty
    <3>5. got = p
      BY <2>8, <3>4, ConcatEmptySeq DEF Batches
    <3>6. \A i \in 1 .. Len(toWorker) : toWorker[i].type # "start"
      BY <1>2, <2>3, <3>1 DEF OwnStart, StopAfter
    <3>7. Latest # NoTake
      BY <1>4 DEF NoTake
    <3> QED
      BY <3>2, <3>5, <3>6, <3>7 DEF Finished
  <2>13. PICK start \in Nat : start = takes[Latest].from
    <3>1. takes[Latest] \in Takings
      BY <1>1, <1>4, Elements
    <3> QED
      BY <3>1 DEF Takings
  <2>14. ASSUME NEW j \in 1 .. Len(got)
         PROVE  /\ got[j].t > (IF j = 1 THEN 0 ELSE got[j - 1].t)
                /\ got[j].frame <= clock
                /\ got[j].t \in DOMAIN wav => wav[got[j].t] = got[j].frame + (from - start)
    <3>1. /\ j \in 1 .. Len(p) /\ got[j] = p[j]
          /\ j # 1 => got[j - 1] = p[j - 1]
      BY <2>9, <2>10
    <3>2. /\ p[j].t = p[j].frame - start
          /\ p[j].t > (IF j = 1 THEN 0 ELSE p[j - 1].t)
          /\ p[j].frame <= clock
      BY <2>3, <2>6, <2>13, <3>1 DEF InTurn
    <3>3. p[j].frame \in Nat
      BY <3>1, BatchIs
    <3>4. DOMAIN wav = 1 .. Len(wav)
      BY <1>8, LenProperties DEF Sounds
    <3>5. got[j].t \in DOMAIN wav => wav[got[j].t] = got[j].frame + (from - start)
      BY <1>8, <3>1, <3>2, <3>3, <3>4
    <3>6. got[j].t > (IF j = 1 THEN 0 ELSE got[j - 1].t)
      <4>1. CASE j = 1
        BY <3>1, <3>2, <4>1
      <4>2. CASE j # 1
        BY <3>1, <3>2, <4>2
      <4> QED
        BY <4>1, <4>2
    <3> QED
      BY <3>1, <3>2, <3>5, <3>6
  <2>15. SamplesAreIts(pair, takes[Latest], from - start)
    BY <1>10, <2>4, <2>5, <2>6, <2>9, <2>11, <2>12, <2>14 DEF SamplesAreIts
  <2> QED
    BY <2>1, <2>12, <2>13, <2>15
<1>15. ItsTake(pair)
  BY <1>6, <1>10, <1>13, <1>14 DEF ItsTake
<1> QED
  BY <1>9, <1>14, <1>15

LEMMA FinishedStays ==
    ASSUME CaptureTypeOK, Numbered, CaptureNext, NEW k \in 1 .. Latest, Finished(k)
    PROVE  Finished(k)'
<1>1. Len(toWorker) \in Nat /\ Latest \in Nat
  BY Elements
<1>2. \A j \in 1 .. Len(toWorker) : toWorker[j].type = "start" => toWorker[j].take # k
  BY DEF Finished
<1>3. ASSUME NEW m, Grown(toWorker, toWorker', m), m.type # "start" \/ m.take # k, worker' = worker
      PROVE  Finished(k)'
  <2>1. ASSUME NEW j \in 1 .. Len(toWorker'), toWorker'[j].type = "start"
        PROVE  toWorker'[j].take # k
    BY <1>1, <1>2, <1>3, <2>1, GrownFrom
  <2> QED
    BY <1>3, <2>1 DEF Finished
<1>4. ASSUME Shrunk(toWorker, toWorker'), worker'.take # k
      PROVE  Finished(k)'
  <2>1. ASSUME NEW j \in 1 .. Len(toWorker'), toWorker'[j].type = "start"
        PROVE  toWorker'[j].take # k
    BY <1>1, <1>2, <1>4, <2>1, ShrunkFrom
  <2> QED
    BY <1>4, <2>1 DEF Finished
<1>5. CASE StartTake
  <2>1. PICK m : m = [type |-> "start", take |-> Latest']
    OBVIOUS
  <2>2. /\ Grown(toWorker, toWorker', m) /\ Latest' = Latest + 1 /\ worker' = worker
    BY <1>5, <2>1, StartTakeIs
  <2>3. m.take # k
    BY <1>1, <2>1, <2>2
  <2> QED
    BY <1>3, <2>2, <2>3
<1>6. ASSUME NEW i \in asking, MicAnswers(i)
      PROVE  Finished(k)'
  <2>1. /\ toWorker' = toWorker \/ Grown(toWorker, toWorker', [type |-> "stop"])
        /\ worker' = worker
    BY <1>6, MicAnswersIs
  <2>2. CASE toWorker' = toWorker
    BY <2>1, <2>2 DEF Finished
  <2> QED
    BY <1>3, <2>1, <2>2, StopMessage
<1>7. CASE StopTake
  BY <1>7, <1>3, StopTakeIs, StopMessage
<1>8. CASE PumpFrame
  <2>1. PICK m : m = [type |-> "frame", at |-> clock']
    OBVIOUS
  <2>2. Grown(toWorker, toWorker', m) /\ worker' = worker
    BY <1>8, <2>1, PumpFrameIs
  <2>3. m.type # "start"
    BY <2>1
  <2> QED
    BY <1>3, <2>2, <2>3
<1>9. CASE WorkerStart
  <2>1. PICK i : i = toWorker[1].take
    OBVIOUS
  <2>2. /\ Shrunk(toWorker, toWorker') /\ worker'.take = i
        /\ toWorker[1].type = "start" /\ 1 \in 1 .. Len(toWorker)
    BY <1>9, <2>1, WorkerStartIs
  <2> QED
    BY <1>2, <1>4, <2>1, <2>2
<1>10. CASE WorkerStop
  <2>1. Shrunk(toWorker, toWorker') /\ worker'.take = NoTake
    BY <1>10, WorkerStopIs
  <2> QED
    BY <1>4, <2>1 DEF NoTake
<1>11. CASE WorkerFrame
  <2>1. Shrunk(toWorker, toWorker') /\ worker'.take = worker.take
    BY <1>11, WorkerFrameIs
  <2> QED
    BY <1>4, <2>1 DEF Finished
<1>12. CASE Recovered
  <2>1. toWorker' = toWorker /\ worker'.take = worker.take
    BY <1>12, RecoveredIs
  <2> QED
    BY <2>1 DEF Finished
<1>13. CASE FlushTimesOut \/ MakePair \/ PageSamples \/ \E i \in DOMAIN mics : PageSound(i)
  <2>1. UNCHANGED <<toWorker, worker>>
    BY <1>13 DEF FlushTimesOut, MakePair, PageSamples, PageSound
  <2> QED
    BY <2>1 DEF Finished
<1> QED
  BY <1>5, <1>6, <1>7, <1>8, <1>9, <1>10, <1>11, <1>12, <1>13 DEF CaptureNext

\* A pair of an earlier step is still its take's.
LEMMA OldPairStays ==
    ASSUME CaptureTypeOK, Numbered, PairInv, PairIsItsTake, CaptureNext, NEW i \in 1 .. Len(pairs),
           NEW pair, pair = pairs[i]
    PROVE  /\ (ItsTake(pair))'
           /\ ~takes'[pair.take].crossed /\ ~pair.early => (Finished(pair.take))'
<1>1. /\ pair \in Pairs /\ pair.audio \in (1 .. Latest) \ asking /\ pair.take \in 1 .. Latest
      /\ i \in DOMAIN pairs
  BY Elements DEF Numbered
<1>2. PICK k \in 1 .. Latest : k = pair.take
  BY <1>1
<1>3. /\ Later(k) /\ Latest <= Latest'
      /\ mics'[pair.audio].from = mics[pair.audio].from
  BY <1>1, TakesGoOn
<1>4. CaptureTypeOK'
  BY NumberedKept
<1>5. ItsTake(pair)
  BY <1>1, PairIsItsTakeIs
<1>6. ~takes[k].crossed /\ ~pair.early => Finished(k)
  BY <1>2 DEF PairInv
<1>7. takes'[k].pushed = takes[k].pushed \/ takes[k].crossed \/ pair.early
  BY <1>3, <1>6 DEF Later, Finished
<1>8. (ItsTake(pair))'
  BY <1>1, <1>2, <1>3, <1>4, <1>5, <1>7, StaysIts
<1>9. ASSUME ~takes'[k].crossed, ~pair.early
      PROVE  (Finished(k))'
  <2>1. ~takes[k].crossed
    BY <1>3, <1>9 DEF Later
  <2>2. Finished(k)
    BY <1>6, <1>9, <2>1
  <2> QED
    BY <2>2, FinishedStays
<1> QED
  BY <1>2, <1>8, <1>9

\* The take doStop is at is the latest, or was crossed by what came after it.
LEMMA ClosingKept ==
    ASSUME CaptureBase, PairInv, CaptureNext, Closing'
    PROVE  recorder'.closing.take # Latest' => takes'[recorder'.closing.take].crossed
<1>1. CaptureTypeOK /\ Numbered
  BY DEF CaptureBase
<1>2. Closing => recorder.closing.take \in 1 .. Latest
  BY <1>1 DEF Numbered
<1>3. \A k \in 1 .. Latest : takes[k].crossed => takes'[k].crossed
  BY <1>1, TakesGoOn DEF Later
<1>4. CASE StartTake
  <2>1. /\ recorder.phase = "ready" /\ recorder'.closing = recorder.closing
        /\ Closing
    BY <1>1, <1>4, StartTakeIs DEF Closing
  <2>2. Latest # 0
    BY <1>1, <1>2, <2>1, Elements
  <2>3. ~Own
    BY <2>1 DEF CaptureBase, OwnInv, OwnHook
  <2>4. takes[Latest].crossed
    BY <2>2, <2>3 DEF Own
  <2>5. takes[recorder.closing.take].crossed
    BY <2>1, <2>4 DEF PairInv
  <2> QED
    BY <1>2, <1>3, <2>1, <2>5
<1>5. CASE StopTake
  <2>1. recorder'.closing.take = Latest /\ takes' = takes
    BY <1>1, <1>5, StopTakeIs DEF StopTake
  <2> QED
    BY <2>1 DEF Latest
<1>6. CASE MakePair
  BY <1>1, <1>6, MakePairIs
<1>7. CASE /\ Closing /\ recorder'.closing.take = recorder.closing.take
           /\ Latest' = Latest
  BY <1>2, <1>3, <1>7 DEF PairInv
<1>8. ASSUME NEW k \in asking, MicAnswers(k)
      PROVE  recorder'.closing = recorder.closing /\ takes' = takes
  BY <1>1, <1>8, MicAnswersIs
<1>9. CASE FlushTimesOut \/ PageSamples
  <2>1. Closing /\ recorder'.closing.take = recorder.closing.take /\ takes' = takes
    BY <1>1, <1>9, FlushTimesOutIs, PageSamplesIs
  <2> QED
    BY <1>7, <2>1 DEF Latest
<1>10. CASE recorder'.closing = recorder.closing /\ Latest' = Latest
  BY <1>7, <1>10 DEF Closing
<1>11. CASE (\E k \in DOMAIN mics : PageSound(k)) \/ PumpFrame \/ WorkerStop
  <2>1. recorder' = recorder /\ takes' = takes
    BY <1>11 DEF PageSound, PumpFrame, WorkerStop
  <2> QED
    BY <1>10, <2>1 DEF Latest
<1>12. CASE WorkerStart \/ WorkerFrame \/ Recovered
  <2>1. recorder' = recorder
    BY <1>12 DEF WorkerStart, WorkerFrame, Recovered
  <2>2. Latest' = Latest
    BY <1>1, <1>12, WorkerStartIs, WorkerFrameIs, RecoveredIs
  <2> QED
    BY <1>10, <2>1, <2>2
<1> QED
  BY <1>4, <1>5, <1>6, <1>8, <1>9, <1>10, <1>11, <1>12 DEF CaptureNext, Latest

LEMMA PairKept ==
    ASSUME CaptureBase, SoundInv, PairInv, PairIsItsTake, CaptureNext
    PROVE  PairInv' /\ PairIsItsTake'
<1>1. CaptureTypeOK /\ Numbered /\ CaptureTypeOK'
  BY NumberedKept DEF CaptureBase
<1>2. /\ Len(pairs) \in Nat /\ Len(pairs') \in Nat /\ DOMAIN pairs' = 1 .. Len(pairs')
  <2>1. pairs' \in Seq(Pairs)
    BY <1>1 DEF CaptureTypeOK
  <2> QED
    BY <1>1, <2>1, Elements, LenProperties
<1>3. \/ pairs' = pairs
      \/ MakePair /\ Grown(pairs, pairs', PairMade)
  <2>1. CASE MakePair
    BY <1>1, <2>1, MakePairIs
  <2>2. CASE StartTake \/ StopTake \/ FlushTimesOut \/ PageSamples \/ PumpFrame \/ WorkerStop
    BY <2>2 DEF StartTake, StopTake, FlushTimesOut, PageSamples, PumpFrame, WorkerStop
  <2>3. CASE \/ \E k \in asking : MicAnswers(k)
             \/ \E k \in DOMAIN mics : PageSound(k)
             \/ WorkerStart \/ WorkerFrame \/ Recovered
    BY <2>3 DEF MicAnswers, PageSound, WorkerStart, WorkerFrame, Recovered
  <2> QED
    BY <2>1, <2>2, <2>3 DEF CaptureNext
<1>4. ASSUME MakePair, NEW pair, pair = PairMade
      PROVE  /\ (ItsTake(pair))'
             /\ ~takes'[pair.take].crossed /\ ~pair.early => (Finished(pair.take))'
  <2>1. /\ ItsTake(pair)
        /\ ~takes[pair.take].crossed /\ ~pair.early => Finished(pair.take)
    BY <1>4, NewPairIs
  <2>2. /\ recorder.closing.mic \in (1 .. Latest) \ asking
        /\ recorder.closing.take \in 1 .. Latest
    BY <1>1, <1>4, MakePairIs DEF Numbered
  <2>3. /\ pair \in Pairs /\ pair.audio \in (1 .. Latest) \ asking
        /\ pair.take \in 1 .. Latest
    BY <1>1, <1>4, <2>2, PairMadeTyped DEF PairMade
  <2>4. PICK k \in 1 .. Latest : k = pair.take
    BY <2>3
  <2>5. /\ Later(k) /\ Latest <= Latest'
        /\ mics'[pair.audio].from = mics[pair.audio].from
    BY <1>1, <2>3, TakesGoOn
  <2>6. takes' = takes
    BY <1>1, <1>4, MakePairIs
  <2>7. takes'[k].pushed = takes[k].pushed
    BY <2>6
  <2>8. (ItsTake(pair))'
    BY <1>1, <2>1, <2>3, <2>4, <2>5, <2>7, StaysIts
  <2>9. Finished(k) => (Finished(k))'
    BY <1>1, FinishedStays
  <2> QED
    BY <2>1, <2>4, <2>6, <2>8, <2>9
<1>5. ASSUME NEW i \in 1 .. Len(pairs'), NEW pair, pair = pairs'[i]
      PROVE  /\ (ItsTake(pair))'
             /\ ~takes'[pair.take].crossed /\ ~pair.early => (Finished(pair.take))'
  <2>1. CASE i \in 1 .. Len(pairs) /\ pairs'[i] = pairs[i]
    BY <1>1, <1>5, <2>1, OldPairStays
  <2>2. CASE MakePair /\ pairs'[i] = PairMade
    BY <1>4, <1>5, <2>2
  <2>3. \/ i \in 1 .. Len(pairs) /\ pairs'[i] = pairs[i]
        \/ MakePair /\ pairs'[i] = PairMade
    <3>1. CASE pairs' = pairs
      BY <3>1
    <3>2. CASE MakePair /\ Grown(pairs, pairs', PairMade)
      <4>1. PICK last : last = PairMade
        OBVIOUS
      <4>2. /\ Len(pairs') = Len(pairs) + 1 /\ pairs'[Len(pairs')] = last
            /\ \A j \in 1 .. Len(pairs) : pairs'[j] = pairs[j]
        BY <3>2, <4>1 DEF Grown
      <4>3. i \in 1 .. Len(pairs) \/ i = Len(pairs')
        BY <1>2, <4>2
      <4> QED
        BY <3>2, <4>1, <4>2, <4>3
    <3> QED
      BY <1>3, <3>1, <3>2
  <2> QED
    BY <2>1, <2>2, <2>3
<1>6. PairIsItsTake'
  <2>1. (\A i \in DOMAIN pairs : ItsTake(pairs[i]))'
    BY <1>2, <1>5
  <2> QED
    BY <2>1 DEF PairIsItsTake, ItsTake, SamplesAreIts
<1>7. (\A i \in 1 .. Len(pairs) :
           ~takes[pairs[i].take].crossed /\ ~pairs[i].early => Finished(pairs[i].take))'
  BY <1>5
<1>8. (Closing /\ recorder.closing.take # Latest => takes[recorder.closing.take].crossed)'
  BY ClosingKept
<1> QED
  BY <1>6, <1>7, <1>8 DEF PairInv

-----------------------------------------------------------------------------

\* The inductive invariant: what the messages under way are of, what the microphones have
\* heard, the take that is on and not crossed, and the pairs already made.
CaptureInv == CaptureBase /\ SoundInv /\ PairInv /\ PairIsItsTake

LEMMA CaptureBegins == CaptureInit => CaptureInv
<1> SUFFICES ASSUME CaptureInit PROVE CaptureInv
  OBVIOUS
<1>1. /\ clock = 1 /\ recorder = NewRecorder /\ asking = {} /\ mishaps = MaxMishaps
      /\ toWorker = <<>> /\ toPage = <<>> /\ mics = <<>> /\ pairs = <<>> /\ takes = <<>>
      /\ \E delegate \in {"GPU", "CPU", "none"} : worker = NewWorker(delegate)
  BY DEF CaptureInit
<1>2. Latest = 0 /\ Len(mics) = 0 /\ Len(toWorker) = 0 /\ Len(pairs) = 0 /\ DOMAIN pairs = {}
  BY <1>1, EmptySeq DEF Latest
<1>3. ~Closing /\ recorder.phase = "ready"
  BY <1>1 DEF Closing, NewRecorder
<1>4. worker.take = 0 /\ worker.batch = <<>> /\ worker.busy = NoFrame /\ worker \in Workers
  BY <1>1, NoSounds DEF NewWorker, Workers, NoTake
<1>5. recorder \in Recorders
  BY <1>1, NoSounds DEF NewRecorder, Recorders, Closings, NotClosing, NoTake
<1>6. CaptureTypeOK
  <2>1. /\ toWorker \in Seq(Messages) /\ toPage \in Seq(Batches) /\ takes \in Seq(Takings)
        /\ mics \in Seq(Mics) /\ pairs \in Seq(Pairs)
    BY <1>1, EmptySeq
  <2>2. MaxMishaps \in Nat
    BY CaptureAssumption
  <2> QED
    BY <1>1, <1>2, <1>4, <1>5, <2>1, <2>2 DEF CaptureTypeOK, Latest
<1>7. Numbered
  BY <1>2, <1>3, <1>4 DEF Numbered
<1>8. FrameInv
  BY <1>2, <1>4 DEF FrameInv, InOrder
<1>9. OwnInv
  BY <1>2 DEF OwnInv, Own
<1>10. SoundInv
  BY <1>2, <1>3 DEF SoundInv
<1>11. PairInv /\ PairIsItsTake
  BY <1>2, <1>3 DEF PairInv, PairIsItsTake
<1> QED
  BY <1>6, <1>7, <1>8, <1>9, <1>10, <1>11 DEF CaptureInv, CaptureBase

LEMMA CaptureHolds ==
    ASSUME CaptureInv, [CaptureNext]_captureVars
    PROVE  CaptureInv'
<1>1. CASE CaptureNext
  <2>1. CaptureBase /\ SoundInv /\ PairInv /\ PairIsItsTake /\ CaptureTypeOK /\ Numbered
    BY DEF CaptureInv, CaptureBase
  <2>2. CaptureTypeOK' /\ Numbered' /\ SoundInv'
    BY <1>1, <2>1, NumberedKept, SoundKept
  <2>3. FrameInv'
    BY <1>1, <2>1, FrameKept DEF CaptureBase
  <2>4. OwnInv'
    BY <1>1, <2>1, OwnKept
  <2>5. PairInv' /\ PairIsItsTake'
    BY <1>1, <2>1, PairKept
  <2> QED
    BY <2>2, <2>3, <2>4, <2>5 DEF CaptureInv, CaptureBase
<1>2. CASE UNCHANGED captureVars
  <2> USE <1>2 DEF captureVars
  <2>1. CaptureTypeOK'
    BY DEF CaptureInv, CaptureBase, CaptureTypeOK
  <2>2. Numbered'
    BY DEF CaptureInv, CaptureBase, Numbered, Latest, Closing
  <2>3. FrameInv'
    BY DEF CaptureInv, CaptureBase, FrameInv, InOrder, Latest
  <2>4. OwnInv'
    BY DEF CaptureInv, CaptureBase, OwnInv, Own, OwnHook, OwnStart, OwnWorker, OwnSamples,
           Gathered, Latest, Closing, InTurn, Fresh
  <2>5. SoundInv'
    BY DEF CaptureInv, SoundInv, Latest, Closing
  <2>6. PairInv'
    BY DEF CaptureInv, PairInv, Latest, Closing, Finished
  <2>7. PairIsItsTake'
    BY DEF CaptureInv, PairIsItsTake, SoundRunsOn
  <2> QED
    BY <2>1, <2>2, <2>3, <2>4, <2>5, <2>6, <2>7 DEF CaptureInv, CaptureBase
<1> QED
  BY <1>1, <1>2

\* Of the capture (useSegmentRecorder, useFaceLandmarker, micCapture and the worker): every
\* pair of audio and blendshapes the hook ever makes is of one take, with the samples of
\* that take, in order, on the clock of its sound, and all of them - with the exceptions
\* PairIsItsTake names - whatever the sizes of the batches and the number of takes, messages
\* under way and failures.
THEOREM PairsStayTheirTakes ==
    CaptureInit /\ [][CaptureNext]_captureVars => []PairIsItsTake
<1>1. CaptureInit => CaptureInv
  BY CaptureBegins
<1>2. CaptureInv /\ [CaptureNext]_captureVars => CaptureInv'
  BY CaptureHolds
<1>3. CaptureInv => PairIsItsTake
  BY DEF CaptureInv
<1> QED
  BY <1>1, <1>2, <1>3, PTL

-----------------------------------------------------------------------------
(* The inductive invariant *)

UploadState ==
    [at : {"free", "encode", "probe", "send", "wait"}, segment : Segments \cup {NoSegment},
     kind : Kind, take : 0 .. Len(Length), offset : Nat, left : Int, shown : BOOLEAN]

RequestState ==
    [slot : Slots \cup {Nobody}, file : Files, take : Takes, offset : Nat,
     at : {"receive", "verify", "publish", "record"}]

SeenState ==
    [skipped : SUBSET (Takes \X Kind), landed : SUBSET (Takes \X Kind),
     saved : SUBSET Takes, overlapped : SUBSET Files]

Content == Seq(Takes \X Nat)

UploadTypeOK ==
    /\ partial \in [Files -> Content]
    /\ final \in [Files -> Content]
    /\ up \in [Slots -> UploadState]
    /\ requests \subseteq RequestState
    /\ seen \in SeenState
    /\ made \in 0 .. Len(Length)

\* The artifacts the server has, as far as the client can know.
KeptArtifacts == seen.landed \cup seen.skipped

\* A pair under way is of a segment and a recording; its second half follows the first, and
\* a call leaves its loop early only when the server has reported the whole size.
PairInOrder(s) ==
    /\ up[s].at # "free" => up[s].segment \in Segments
    /\ up[s].at \in {"encode", "probe"} => up[s].offset = 0
    /\ up[s].at = "encode" => up[s].kind = "audio"
    /\ up[s].at \in {"probe", "send", "wait"} =>
           /\ up[s].take \in Takes
           /\ up[s].kind = "blendshapes" => <<up[s].take, "audio">> \in KeptArtifacts
    /\ up[s].at = "send" /\ up[s].offset = Total(s) => <<up[s].take, up[s].kind>> \in KeptArtifacts

\* A client waits for the one request it has sent.
Awaited(r) ==
    r.slot # Nobody =>
        /\ up[r.slot].at = "wait" /\ r.take = up[r.slot].take /\ r.file = File(r.slot)
        /\ \A q \in requests : q.slot = r.slot => q = r

\* No two requests for a file have written it, and none has since one was found to agree.
AloneWithFile(r) ==
    r.file \notin seen.overlapped /\ r.at # "receive" =>
        /\ \A q \in requests : q.file = r.file /\ q.at # "receive" => q = r
        /\ r.at = "publish" => partial[r.file] \in {<<>>, Whole(r.take, r.file[2])}

UInv ==
    /\ UploadTypeOK
    /\ \A s \in Slots : PairInOrder(s)
    /\ \A r \in requests : Awaited(r) /\ AloneWithFile(r)
    /\ TakeIsWhole
    /\ SavedIsRecorded

-----------------------------------------------------------------------------
(* Lengths and contents *)

LEMMA Lengths ==
    /\ Len(Length) \in Nat
    /\ Takes = 1 .. Len(Length)
    /\ \A t \in Takes, kind \in Kind : Length[t][kind] \in Nat \ {0}
<1>1. Length \in Seq([Kind -> Nat \ {0}])
  BY UploadAssumption DEF Kind
<1>2. Len(Length) \in Nat /\ Takes = 1 .. Len(Length)
  BY <1>1, LenProperties DEF Takes
<1>3. \A t \in Takes : Length[t] \in [Kind -> Nat \ {0}]
  BY <1>1, <1>2, ElementOfSeq
<1> QED
  BY <1>2, <1>3

LEMMA WholeIsContent ==
    ASSUME NEW t \in Takes, NEW kind \in Kind
    PROVE  Whole(t, kind) \in Content /\ Whole(t, kind) # <<>> /\ Whole(t, kind)[1][1] = t
<1>1. Length[t][kind] \in Nat \ {0}
  BY Lengths
<1>2. Whole(t, kind) \in [1 .. Length[t][kind] -> Takes \X Nat]
  BY <1>1 DEF Whole, Unit
<1>3. Whole(t, kind) \in Content /\ Len(Whole(t, kind)) = Length[t][kind]
  BY <1>1, <1>2, SeqDef, LenProperties DEF Content
<1>4. 1 \in 1 .. Length[t][kind]
  BY <1>1
<1>5. Whole(t, kind)[1] = <<t, 1>>
  BY <1>4 DEF Whole, Unit
<1> QED
  BY <1>1, <1>3, <1>5, EmptySeq

LEMMA WrittenIsContent ==
    ASSUME NEW content \in Content, NEW r \in RequestState, r.offset <= Len(content), NEW end \in Nat
    PROVE  Written(content, r, end) \in Content
<1>1. Len(content) \in Nat /\ content \in [1 .. Len(content) -> Takes \X Nat]
  BY LenProperties DEF Content
<1>2. r.offset \in Nat /\ r.take \in Takes
  BY DEF RequestState
<1>3. ASSUME NEW i \in 1 .. end
      PROVE  (IF i <= r.offset THEN content[i] ELSE Unit(r.take, i)) \in Takes \X Nat
  <2>1. CASE i <= r.offset
    <3>1. i \in 1 .. Len(content)
      BY <1>1, <1>2, <2>1
    <3> QED
      BY <1>1, <2>1, <3>1
  <2>2. CASE ~(i <= r.offset)
    BY <1>2, <2>2 DEF Unit
  <2> QED
    BY <2>1, <2>2
<1>4. Written(content, r, end) \in [1 .. end -> Takes \X Nat]
  BY <1>3 DEF Written
<1> QED
  BY <1>4, SeqDef DEF Content

\* Where a chunk ends, and what it is part of.
LEMMA ChunkBounds ==
    ASSUME NEW r \in RequestState
    PROVE  ChunkEnd(r) \in Nat /\ RequestTotal(r) \in Nat \ {0}
<1>1. r.take \in Takes /\ r.file[2] \in Kind /\ r.offset \in Nat
  BY DEF RequestState, Files
<1>2. RequestTotal(r) \in Nat \ {0}
  BY <1>1, Lengths DEF RequestTotal
<1> QED
  BY <1>1, <1>2, UploadAssumption DEF ChunkEnd, Smaller

-----------------------------------------------------------------------------
(* The client *)

OnlySlot(s) == up' \in [Slots -> UploadState] /\ \A z \in Slots \ {s} : up'[z] = up[z]
SeenGrows ==
    /\ seen' \in SeenState /\ KeptArtifacts \subseteq KeptArtifacts'
    /\ seen.overlapped \subseteq seen'.overlapped

LEMMA OthersInOrder ==
    ASSUME \A z \in Slots : PairInOrder(z), NEW s \in Slots, OnlySlot(s), SeenGrows, PairInOrder(s)'
    PROVE  \A z \in Slots : PairInOrder(z)'
<1> SUFFICES ASSUME NEW z \in Slots, z # s
             PROVE  PairInOrder(z)'
  OBVIOUS
<1>1. up'[z] = up[z] /\ PairInOrder(z)
  BY DEF OnlySlot
<1> QED
  BY <1>1 DEF PairInOrder, SeenGrows, Total

LEMMA FreeIsIdle == Free \in UploadState /\ Free.at = "free" /\ Free.offset = 0 /\ Free.kind = "audio"
BY Lengths DEF Free, UploadState, Kind

LEMMA ProbedAgain ==
    ASSUME NEW u \in UploadState, NEW left \in Int, NEW again,
           again = [u EXCEPT !.at = "probe", !.left = left, !.offset = 0]
    PROVE  /\ again \in UploadState /\ again.at = "probe" /\ again.offset = 0
           /\ again.take = u.take /\ again.kind = u.kind /\ again.segment = u.segment
BY DEF UploadState

\* After a failed attempt the pair is asked for from the start again, or given up.
LEMMA AttemptEnds ==
    ASSUME UploadTypeOK, NEW s \in Slots, PairInOrder(s), up[s].at \in {"send", "wait"}, SeenGrows,
           AttemptFails(s)
    PROVE  OnlySlot(s) /\ PairInOrder(s)' /\ up'[s].at # "wait"
<1> USE DEF UploadTypeOK
<1>1. CASE up' = [up EXCEPT ![s] = Free]
  BY <1>1, FreeIsIdle DEF OnlySlot, PairInOrder
<1>2. CASE up[s].left > 1 /\ up' = [up EXCEPT ![s].at = "probe", ![s].left = @ - 1, ![s].offset = 0]
  <2>1. /\ up'[s].at = "probe" /\ up'[s].offset = 0 /\ up'[s].take = up[s].take
        /\ up'[s].kind = up[s].kind /\ up'[s].segment = up[s].segment
        /\ OnlySlot(s)
    <3>1. up[s].left \in Int /\ up[s] \in UploadState
      BY DEF UploadState
    <3>2. up[s].left - 1 \in Int
      BY <3>1
    <3> QED
      BY <1>2, <3>1, <3>2 DEF OnlySlot, UploadState
  <2> QED
    BY <2>1 DEF PairInOrder, SeenGrows
<1> QED
  BY <1>1, <1>2 DEF AttemptFails, UploadFails

\* An artifact that is there by now is followed by the next of its pair.
LEMMA ArtifactEnds ==
    ASSUME UploadTypeOK, NEW s \in Slots, PairInOrder(s), up[s].at \in {"send", "wait"}, SeenGrows,
           <<up[s].take, up[s].kind>> \in KeptArtifacts', ArtifactDone(s)
    PROVE  OnlySlot(s) /\ PairInOrder(s)' /\ up'[s].at # "wait"
<1> USE DEF UploadTypeOK
<1>1. CASE up' = [up EXCEPT ![s] = Free]
  BY <1>1, FreeIsIdle DEF OnlySlot, PairInOrder
<1>2. CASE /\ up[s].kind = "audio"
           /\ up' = [up EXCEPT ![s].at = "probe", ![s].kind = "blendshapes", ![s].left = Attempts,
                               ![s].offset = 0]
  <2>1. /\ up'[s].at = "probe" /\ up'[s].offset = 0 /\ up'[s].take = up[s].take
        /\ up'[s].kind = "blendshapes" /\ up'[s].segment = up[s].segment
        /\ OnlySlot(s)
    BY <1>2 DEF OnlySlot, UploadState, Attempts, Kind
  <2> QED
    BY <1>2, <2>1 DEF PairInOrder, SeenGrows
<1> QED
  BY <1>1, <1>2 DEF ArtifactDone

\* A page shows as saved what is recorded: both halves of the pair.
LEMMA SavesKept ==
    ASSUME UploadTypeOK, SavedIsRecorded, NEW s \in Slots, PairInOrder(s), up[s].at \in {"send", "wait"},
           SeenGrows, <<up[s].take, up[s].kind>> \in KeptArtifacts',
           seen'.saved \subseteq seen.saved \cup Saves(s)
    PROVE  SavedIsRecorded'
<1> SUFFICES ASSUME NEW t \in seen'.saved, NEW kind \in Kind
             PROVE  <<t, kind>> \in KeptArtifacts'
  BY DEF SavedIsRecorded, KeptArtifacts
<1>1. CASE t \in seen.saved
  BY <1>1 DEF SavedIsRecorded, SeenGrows, KeptArtifacts
<1>2. CASE t \in Saves(s)
  <2>1. t = up[s].take /\ up[s].kind = "blendshapes"
    BY <1>2 DEF Saves
  <2> QED
    BY <2>1 DEF PairInOrder, SeenGrows, Kind
<1> QED
  BY <1>1, <1>2

\* A slot that does not wait for an answer has no request.
LEMMA RequestsStay ==
    ASSUME UInv, NEW s \in Slots, up[s].at # "wait", OnlySlot(s), SeenGrows,
           UNCHANGED <<disk, requests>>
    PROVE  \A r \in requests' : Awaited(r)' /\ AloneWithFile(r)'
<1> SUFFICES ASSUME NEW r \in requests
             PROVE  Awaited(r)' /\ AloneWithFile(r)'
  OBVIOUS
<1> USE DEF UInv
<1>1. Awaited(r) /\ AloneWithFile(r) /\ r \in RequestState
  BY DEF UploadTypeOK
<1>2. r.slot # Nobody => r.slot \in Slots /\ up'[r.slot] = up[r.slot]
  BY <1>1 DEF Awaited, OnlySlot, RequestState
<1>3. Awaited(r)'
  BY <1>1, <1>2 DEF Awaited, File
<1>4. AloneWithFile(r)'
  BY <1>1 DEF AloneWithFile, SeenGrows, disk
<1> QED
  BY <1>3, <1>4

\* A step of one slot that neither sends nor serves anything.
LEMMA SlotKeeps ==
    ASSUME UInv, NEW s \in Slots, up[s].at # "wait", OnlySlot(s), SeenGrows, PairInOrder(s)',
           UNCHANGED <<disk, requests>>, made' \in 0 .. Len(Length), SavedIsRecorded'
    PROVE  UInv'
<1>1. UploadTypeOK'
  BY DEF UInv, UploadTypeOK, OnlySlot, SeenGrows, disk
<1>2. TakeIsWhole'
  BY DEF UInv, TakeIsWhole, SeenGrows, disk
<1> QED
  BY <1>1, <1>2, RequestsStay, OthersInOrder DEF UInv

LEMMA ProbeKeeps ==
    ASSUME UInv, NEW s \in Slots, Probe(s)
    PROVE  UInv'
<1> USE DEF UInv, UploadTypeOK
<1>1. /\ up[s].at = "probe" /\ PairInOrder(s) /\ up[s] \in UploadState
      /\ up[s].take \in Takes /\ up[s].kind \in Kind /\ File(s) \in Files
  BY DEF Probe, PairInOrder, UploadState, File, Files
<1>2. Total(s) \in Nat \ {0} /\ Len(partial[File(s)]) \in Nat
  BY <1>1, Lengths, LenProperties DEF Total, Content
<1>3. SeenGrows /\ seen'.saved = seen.saved
  BY <1>1 DEF Probe, Seen, SeenGrows, SeenState, KeptArtifacts
<1>4. SavedIsRecorded'
  BY <1>3 DEF SavedIsRecorded, SeenGrows, KeptArtifacts
<1>5. ASSUME up' = [up EXCEPT ![s].at = "send", ![s].offset = Smaller(Total(s), Len(partial[File(s)]))],
             Len(partial[File(s)]) >= Total(s) => seen' = [seen EXCEPT !["skipped"] = @ \cup {<<up[s].take, up[s].kind>>}]
      PROVE  OnlySlot(s) /\ PairInOrder(s)'
  <2>1. /\ up'[s].at = "send" /\ up'[s].take = up[s].take /\ up'[s].kind = up[s].kind
        /\ up'[s].segment = up[s].segment /\ OnlySlot(s)
        /\ up'[s].offset = Smaller(Total(s), Len(partial[File(s)]))
    BY <1>1, <1>2, <1>5 DEF OnlySlot, UploadState, Smaller
  <2>2. Total(s)' = Total(s)
    BY <2>1 DEF Total
  <2>3. up'[s].offset = Total(s) => <<up[s].take, up[s].kind>> \in KeptArtifacts'
    <3>1. up'[s].offset = Total(s) => Len(partial[File(s)]) >= Total(s)
      BY <1>2, <2>1 DEF Smaller
    <3> QED
      BY <1>5, <3>1 DEF KeptArtifacts, SeenState
  <2> QED
    BY <1>1, <1>3, <2>1, <2>2, <2>3 DEF PairInOrder, SeenGrows
<1>6. ASSUME Goes(s, "send")
      PROVE  OnlySlot(s) /\ PairInOrder(s)'
  <2>1. /\ up'[s].at = "send" /\ up'[s].take = up[s].take /\ up'[s].kind = up[s].kind
        /\ up'[s].segment = up[s].segment /\ up'[s].offset = 0 /\ OnlySlot(s)
    BY <1>1, <1>6 DEF Goes, OnlySlot, UploadState, PairInOrder
  <2>2. Total(s)' = Total(s)
    BY <2>1 DEF Total
  <2> QED
    BY <1>1, <1>2, <1>3, <2>1, <2>2 DEF PairInOrder, SeenGrows
<1>7. ASSUME UploadFails(s)
      PROVE  OnlySlot(s) /\ PairInOrder(s)'
  BY <1>7, FreeIsIdle DEF UploadFails, OnlySlot, PairInOrder
<1>8. OnlySlot(s) /\ PairInOrder(s)'
  BY <1>5, <1>6, <1>7 DEF Probe, Seen
<1> QED
  BY <1>1, <1>3, <1>4, <1>8, SlotKeeps DEF Probe

LEMMA AlreadyCompleteKeeps ==
    ASSUME UInv, NEW s \in Slots, AlreadyComplete(s)
    PROVE  UInv'
<1> USE DEF UInv, UploadTypeOK
<1>1. up[s].at = "send" /\ PairInOrder(s) /\ <<up[s].take, up[s].kind>> \in KeptArtifacts
  BY DEF AlreadyComplete, PairInOrder
<1>2. SeenGrows /\ seen'.saved = seen.saved \cup Saves(s)
  BY <1>1 DEF AlreadyComplete, SeenGrows, SeenState, KeptArtifacts, Saves, PairInOrder
<1>3. <<up[s].take, up[s].kind>> \in KeptArtifacts'
  BY <1>1, <1>2 DEF SeenGrows
<1>4. OnlySlot(s) /\ PairInOrder(s)'
  BY <1>1, <1>2, <1>3, ArtifactEnds DEF AlreadyComplete
<1>5. SavedIsRecorded'
  BY <1>1, <1>2, <1>3, SavesKept
<1> QED
  BY <1>1, <1>2, <1>4, <1>5, SlotKeeps DEF AlreadyComplete

\* A request carries the pair of the slot that sends it.
LEMMA SendChunkKeeps ==
    ASSUME UInv, NEW s \in Slots, SendChunk(s)
    PROVE  UInv'
<1> USE DEF UInv, UploadTypeOK
<1>1. up[s].at = "send" /\ PairInOrder(s) /\ up[s] \in UploadState /\ up[s].take \in Takes
      /\ up[s].segment \in Segments
  BY DEF SendChunk, PairInOrder
<1>2. SeenGrows /\ SavedIsRecorded'
  BY DEF SendChunk, SeenGrows, SavedIsRecorded, KeptArtifacts
<1>3. CASE AttemptFails(s) /\ UNCHANGED requests
  <2>1. OnlySlot(s) /\ PairInOrder(s)'
    BY <1>1, <1>2, <1>3, AttemptEnds
  <2> QED
    BY <1>1, <1>2, <1>3, <2>1, SlotKeeps DEF SendChunk
<1>4. CASE requests' = requests \cup {Request(s)} /\ Goes(s, "wait")
  <2>1. /\ up'[s].at = "wait" /\ up'[s].take = up[s].take /\ up'[s].kind = up[s].kind
        /\ up'[s].segment = up[s].segment /\ OnlySlot(s)
    BY <1>1, <1>4 DEF Goes, OnlySlot, UploadState
  <2>2. PairInOrder(s)'
    BY <1>1, <1>2, <2>1 DEF PairInOrder, SeenGrows
  <2>3. /\ Request(s) \in RequestState /\ Request(s).slot = s /\ Request(s).at = "receive"
        /\ Request(s).take = up[s].take /\ Request(s).file = File(s)
    BY <1>1 DEF Request, RequestState, File, Files, UploadState
  <2>4. \A r \in requests : r \in RequestState /\ r.slot # s /\ Awaited(r) /\ AloneWithFile(r)
    BY <1>1, SlotAssumption DEF Awaited
  <2>5. s # Nobody /\ File(s)' = File(s)
    BY <2>1, SlotAssumption DEF File
  <2>6. ASSUME NEW r \in requests'
        PROVE  Awaited(r)'
    <3>1. CASE r = Request(s)
      BY <1>4, <2>1, <2>3, <2>4, <2>5, <3>1 DEF Awaited
    <3>2. CASE r \in requests
      <4>1. r.slot # Nobody => up'[r.slot] = up[r.slot]
        BY <2>1, <2>4, <3>2 DEF OnlySlot, RequestState
      <4>2. \A q \in requests' : q.slot = r.slot => q \in requests
        BY <1>4, <2>3, <2>4, <3>2
      <4> QED
        BY <2>4, <3>2, <4>1, <4>2 DEF Awaited, File
    <3> QED
      BY <1>4, <3>1, <3>2
  <2>7. ASSUME NEW r \in requests'
        PROVE  AloneWithFile(r)'
    <3>1. \A q \in requests' : q.at # "receive" => q \in requests
      BY <1>4, <2>3
    <3> QED
      BY <2>4, <3>1 DEF AloneWithFile, SendChunk, disk
  <2>8. UploadTypeOK'
    BY <1>2, <1>4, <2>1, <2>3 DEF OnlySlot, SeenGrows, SendChunk, disk
  <2>9. TakeIsWhole'
    BY DEF SendChunk, TakeIsWhole, disk
  <2> QED
    BY <1>2, <2>1, <2>2, <2>6, <2>7, <2>8, <2>9, OthersInOrder
<1> QED
  BY <1>3, <1>4 DEF SendChunk

\* The encoder, and the stop of a recording, have no part in what the server has.
LEMMA RecorderKeeps ==
    ASSUME UInv, NEW s \in Slots, Encoded(s) \/ \E segment \in Segments : Stop(s, segment)
    PROVE  UInv'
<1> USE DEF UInv, UploadTypeOK
<1>1. up[s] \in UploadState /\ PairInOrder(s)
  OBVIOUS
<1>2. UNCHANGED <<disk, requests, seen>>
  BY DEF Encoded, Stop
<1>3. SeenGrows /\ SavedIsRecorded'
  BY <1>2 DEF SeenGrows, SavedIsRecorded, KeptArtifacts
<1>4. CASE Encoded(s)
  <2>1. made + 1 \in 1 .. Len(Length) /\ made' = made + 1
    BY <1>4, Lengths DEF Encoded
  <2>2. /\ up'[s].at = "probe" /\ up'[s].take = made + 1 /\ up'[s].kind = "audio"
        /\ up'[s].segment = up[s].segment /\ up'[s].offset = 0 /\ OnlySlot(s)
    <3>1. up[s].offset = 0 /\ up[s].kind = "audio" /\ made + 1 \in 0 .. Len(Length) /\ Attempts \in Int
      BY <1>1, <1>4, <2>1, Lengths DEF Encoded, PairInOrder, Attempts
    <3> QED
      BY <1>1, <1>4, <3>1 DEF Encoded, OnlySlot, UploadState
  <2>3. PairInOrder(s)'
    BY <1>1, <1>4, <2>1, <2>2, Lengths DEF Encoded, PairInOrder
  <2> QED
    BY <1>2, <1>3, <1>4, <2>1, <2>2, <2>3, SlotKeeps DEF Encoded
<1>5. ASSUME NEW segment \in Segments, Stop(s, segment)
      PROVE  UInv'
  <2>1. /\ up'[s].at = "encode" /\ up'[s].kind = "audio" /\ up'[s].segment = segment
        /\ up'[s].offset = 0 /\ OnlySlot(s) /\ up[s].at = "free"
    BY <1>5, FreeIsIdle DEF Stop, OnlySlot, UploadState, Free
  <2>2. PairInOrder(s)'
    BY <2>1 DEF PairInOrder
  <2> QED
    BY <1>2, <1>3, <1>5, <2>1, <2>2, SlotKeeps DEF Stop
<1> QED
  BY <1>4, <1>5

-----------------------------------------------------------------------------
(* The handler *)

\* A client moves on only when its own request is answered.
Answered(r) ==
    \/ up' = up
    \/ r.slot # Nobody /\ OnlySlot(r.slot) /\ PairInOrder(r.slot)'

\* A request goes on, has come to its end, or has lost its client.
GoesOn(r, next) ==
    /\ requests' = (requests \ {r}) \cup next
    /\ \A q \in next :
          /\ q \in RequestState /\ q.file = r.file /\ q.take = r.take
          /\ q.slot = Nobody \/ (q.slot = r.slot /\ up' = up)
    /\ \A p, q \in next : p = q

LEMMA OthersAwaited ==
    ASSUME UInv, NEW r \in requests, NEW next, GoesOn(r, next), Answered(r)
    PROVE  \A q \in requests' : Awaited(q)'
<1> USE DEF UInv, UploadTypeOK
<1>1. ASSUME NEW q \in requests \ {r}, q.slot # Nobody
      PROVE  Awaited(q)'
  <2>1. q.slot # r.slot /\ q.slot \in Slots /\ Awaited(q)
    BY <1>1 DEF Awaited, RequestState
  <2>2. up'[q.slot] = up[q.slot]
    BY <2>1 DEF Answered, OnlySlot
  <2>3. \A p \in requests' : p.slot = q.slot => p \in requests
    BY <1>1, <2>1 DEF GoesOn
  <2> QED
    BY <1>1, <2>1, <2>2, <2>3 DEF Awaited, File
<1>2. ASSUME NEW q \in next, q.slot # Nobody
      PROVE  Awaited(q)'
  <2>1. q.slot = r.slot /\ up' = up /\ q.take = r.take /\ q.file = r.file /\ Awaited(r)
    BY <1>2 DEF GoesOn
  <2>2. \A p \in requests' : p.slot = q.slot => p = q
    BY <1>2, <2>1 DEF GoesOn, Awaited
  <2> QED
    BY <1>2, <2>1, <2>2 DEF Awaited, File
<1> QED
  BY <1>1, <1>2 DEF GoesOn, Awaited

\* As long as nobody else has gone beyond its body with the file of a request.
LEMMA OthersAlone ==
    ASSUME UInv, NEW r \in requests, NEW next, GoesOn(r, next), SeenGrows,
           \A f \in Files \ {r.file} : partial'[f] = partial[f],
           r.file \notin seen'.overlapped =>
               \A q \in requests \ {r} : q.file = r.file => q.at = "receive",
           \A q \in next : q.at = "publish" => partial'[r.file] = Whole(r.take, r.file[2])
    PROVE  \A q \in requests' : AloneWithFile(q)'
<1> USE DEF UInv, UploadTypeOK
<1>1. ASSUME NEW q \in requests \ {r}, q.file \notin seen'.overlapped, q.at # "receive"
      PROVE  AloneWithFile(q)'
  <2>1. q.file # r.file /\ q.file \in Files /\ AloneWithFile(q) /\ q.file \notin seen.overlapped
    BY <1>1 DEF SeenGrows, RequestState
  <2>2. \A p \in requests' : p.file = q.file => p \in requests
    BY <2>1 DEF GoesOn
  <2> QED
    BY <1>1, <2>1, <2>2 DEF AloneWithFile
<1>2. ASSUME NEW q \in next, q.file \notin seen'.overlapped, q.at # "receive"
      PROVE  AloneWithFile(q)'
  <2>1. \A p \in requests' : p.file = q.file /\ p.at # "receive" => p = q
    BY <1>2 DEF GoesOn
  <2>2. q.file = r.file /\ q.take = r.take
    BY <1>2 DEF GoesOn
  <2> QED
    BY <1>2, <2>1, <2>2 DEF AloneWithFile
<1> QED
  BY <1>1, <1>2 DEF GoesOn, AloneWithFile

LEMMA RequestKeeps ==
    ASSUME UInv, NEW r \in requests, NEW next, GoesOn(r, next), Answered(r), SeenGrows,
           partial' \in [Files -> Content], final' \in [Files -> Content], made' = made,
           TakeIsWhole', SavedIsRecorded', \A q \in requests' : AloneWithFile(q)'
    PROVE  UInv'
<1> USE DEF UInv, UploadTypeOK
<1>1. UploadTypeOK'
  BY DEF GoesOn, Answered, OnlySlot, SeenGrows
<1>2. \A s \in Slots : PairInOrder(s)'
  <2>1. CASE up' = up
    BY <2>1 DEF PairInOrder, SeenGrows, Total
  <2>2. CASE r.slot # Nobody /\ OnlySlot(r.slot) /\ PairInOrder(r.slot)'
    BY <2>2, OthersInOrder DEF RequestState
  <2> QED
    BY <2>1, <2>2 DEF Answered
<1> QED
  BY <1>1, <1>2, OthersAwaited

\* Nothing but the answer to it moves the client of a request.
LEMMA RefusedAnswers ==
    ASSUME UInv, NEW r \in requests, SeenGrows, Refused(r)
    PROVE  Answered(r)
<1>1. CASE r.slot = Nobody
  BY <1>1 DEF Refused, Answered
<1>2. CASE r.slot # Nobody
  <2>1. r.slot \in Slots /\ up[r.slot].at = "wait" /\ PairInOrder(r.slot)
    BY <1>2 DEF UInv, UploadTypeOK, RequestState, Awaited
  <2> QED
    BY <1>2, <2>1, AttemptEnds DEF UInv, Refused, Answered
<1> QED
  BY <1>1, <1>2

LEMMA NextChunkAnswers ==
    ASSUME UInv, NEW r \in requests, SeenGrows, NextChunk(r), ChunkEnd(r) < RequestTotal(r)
    PROVE  Answered(r)
<1> USE DEF UInv, UploadTypeOK
<1>1. CASE r.slot = Nobody
  BY <1>1 DEF NextChunk, Answered
<1>2. CASE r.slot # Nobody
  <2>1. /\ r.slot \in Slots /\ up[r.slot].at = "wait" /\ PairInOrder(r.slot)
        /\ r \in RequestState /\ up[r.slot] \in UploadState
    BY <1>2 DEF RequestState, Awaited
  <2>2. /\ up'[r.slot].at = "send" /\ up'[r.slot].offset = ChunkEnd(r)
        /\ up'[r.slot].take = up[r.slot].take /\ up'[r.slot].kind = up[r.slot].kind
        /\ up'[r.slot].segment = up[r.slot].segment /\ OnlySlot(r.slot)
    BY <1>2, <2>1, ChunkBounds DEF NextChunk, OnlySlot, UploadState
  <2>3. Total(r.slot)' = RequestTotal(r)
    BY <1>2, <2>2 DEF Total, RequestTotal, Awaited, File
  <2>4. up'[r.slot].offset # Total(r.slot)'
    BY <2>1, <2>2, <2>3, ChunkBounds
  <2>5. PairInOrder(r.slot)'
    BY <2>1, <2>2, <2>4 DEF PairInOrder, SeenGrows
  <2> QED
    BY <1>2, <2>2, <2>5 DEF Answered
<1> QED
  BY <1>1, <1>2

LEMMA ReceiveKeeps ==
    ASSUME UInv, NEW r \in requests, Receive(r)
    PROVE  UInv'
<1> USE DEF UInv, UploadTypeOK
<1>1. r \in RequestState /\ r.file \in Files /\ partial[r.file] \in Content /\ r.at = "receive"
  BY DEF Receive, RequestState
<1>2. /\ SeenGrows /\ seen'.saved = seen.saved
      /\ r.file \notin seen'.overlapped => ~Overlaps(r)
  BY <1>1 DEF Receive, Seen, SeenGrows, SeenState, KeptArtifacts
<1>3. SavedIsRecorded'
  BY <1>2 DEF SavedIsRecorded, SeenGrows, KeptArtifacts
<1>4. TakeIsWhole'
  BY <1>2 DEF Receive, TakeIsWhole, SeenGrows
<1>5. PICK written \in Content : partial' = [partial EXCEPT ![r.file] = written]
  <2>1. ASSUME NEW end \in Nat, r.offset <= Len(partial[r.file])
        PROVE  Written(partial[r.file], r, end) \in Content
    BY <1>1, <2>1, WrittenIsContent
  <2>2. \A end \in r.offset .. ChunkEnd(r) - 1 : end \in Nat
    BY <1>1, ChunkBounds DEF RequestState
  <2>3. partial = [partial EXCEPT ![r.file] = partial[r.file]]
    BY <1>1
  <2> QED
    BY <1>1, <2>1, <2>2, <2>3, ChunkBounds DEF Receive
<1>6. ASSUME NEW next, GoesOn(r, next), Answered(r), \A q \in next : q.at # "publish"
      PROVE  UInv'
  <2>1. \A q \in requests' : AloneWithFile(q)'
    BY <1>1, <1>2, <1>5, <1>6, OthersAlone DEF Overlaps
  <2>2. partial' \in [Files -> Content] /\ final' = final /\ made' = made
    BY <1>1, <1>5 DEF Receive
  <2> QED
    BY <1>2, <1>3, <1>4, <1>6, <2>1, <2>2, RequestKeeps
<1>7. CASE Done(r) /\ (Refused(r) \/ (NextChunk(r) /\ ChunkEnd(r) < RequestTotal(r)))
  <2>1. GoesOn(r, {})
    BY <1>7 DEF Done, GoesOn
  <2>2. Answered(r)
    BY <1>2, <1>7, RefusedAnswers, NextChunkAnswers
  <2> QED
    BY <1>6, <2>1, <2>2
<1>8. CASE Serve(r, "verify") /\ UNCHANGED <<up, rec>>
  <2> DEFINE verifying == {[r EXCEPT !.at = "verify"]}
  <2>1. GoesOn(r, verifying)
    BY <1>1, <1>8 DEF Serve, GoesOn, RequestState
  <2>2. \A q \in verifying : q.at # "publish"
    BY <1>1 DEF RequestState
  <2>3. Answered(r)
    BY <1>8 DEF Answered
  <2> HIDE DEF verifying
  <2> QED
    BY <1>6, <2>1, <2>2, <2>3
<1> QED
  BY <1>7, <1>8 DEF Receive

LEMMA VerifyKeeps ==
    ASSUME UInv, NEW r \in requests, Verify(r)
    PROVE  UInv'
<1> USE DEF UInv, UploadTypeOK
<1>1. r \in RequestState /\ r.at = "verify" /\ AloneWithFile(r)
  BY DEF Verify
<1>2. SeenGrows /\ seen' = seen /\ UNCHANGED disk /\ made' = made
  BY DEF Verify, SeenGrows, KeptArtifacts
<1>3. SavedIsRecorded' /\ TakeIsWhole'
  BY <1>2 DEF SavedIsRecorded, TakeIsWhole, disk
<1>4. r.file \notin seen'.overlapped =>
          \A q \in requests \ {r} : q.file = r.file => q.at = "receive"
  BY <1>1, <1>2 DEF AloneWithFile
<1>5. CASE Agrees(r) /\ Serve(r, "publish") /\ UNCHANGED <<up, rec>>
  <2>1. GoesOn(r, {[r EXCEPT !.at = "publish"]})
    BY <1>1, <1>5 DEF Serve, GoesOn, RequestState
  <2>2. partial'[r.file] = Whole(r.take, r.file[2])
    BY <1>2, <1>5 DEF Agrees, disk
  <2>3. \A q \in requests' : AloneWithFile(q)'
    BY <1>2, <1>4, <2>1, <2>2, OthersAlone DEF disk
  <2>4. Answered(r)
    BY <1>5 DEF Answered
  <2> QED
    BY <1>2, <1>3, <2>1, <2>3, <2>4, RequestKeeps DEF disk
<1>6. CASE Done(r) /\ Refused(r)
  <2>1. GoesOn(r, {})
    BY <1>6 DEF Done, GoesOn
  <2>2. \A q \in requests' : AloneWithFile(q)'
    BY <1>2, <1>4, <2>1, OthersAlone DEF disk
  <2> QED
    BY <1>2, <1>3, <1>6, <2>1, <2>2, RefusedAnswers, RequestKeeps DEF disk
<1> QED
  BY <1>5, <1>6 DEF Verify

\* What is renamed is what the checksum was taken of.
LEMMA PublishKeeps ==
    ASSUME UInv, NEW r \in requests, Publish(r)
    PROVE  UInv'
<1> USE DEF UInv, UploadTypeOK
<1>1. r \in RequestState /\ r.at = "publish" /\ AloneWithFile(r) /\ r.file \in Files
      /\ r.take \in Takes /\ r.file[2] \in Kind
  BY DEF Publish, RequestState, Files
<1>2. SeenGrows /\ seen' = seen /\ made' = made
  BY DEF Publish, SeenGrows, KeptArtifacts
<1>3. SavedIsRecorded'
  BY <1>2 DEF SavedIsRecorded
<1>4. r.file \notin seen'.overlapped =>
          \A q \in requests \ {r} : q.file = r.file => q.at = "receive"
  BY <1>1, <1>2 DEF AloneWithFile
<1>5. CASE /\ partial[r.file] # <<>> /\ final' = [final EXCEPT ![r.file] = partial[r.file]]
           /\ partial' = [partial EXCEPT ![r.file] = <<>>]
           /\ Serve(r, "record") /\ UNCHANGED <<up, rec>>
  <2> DEFINE recording == {[r EXCEPT !.at = "record"]}
  <2>1. GoesOn(r, recording)
    BY <1>1, <1>5 DEF Serve, GoesOn, RequestState
  <2>2. \A q \in recording : q.at # "publish"
    BY <1>1 DEF RequestState
  <2> HIDE DEF recording
  <2>3. <<>> \in Content
    BY EmptySeq DEF Content
  <2>4. partial' \in [Files -> Content] /\ final' \in [Files -> Content]
    BY <1>1, <1>5, <2>3
  <2>5. \A q \in requests' : AloneWithFile(q)'
    BY <1>2, <1>4, <1>5, <2>1, <2>2, OthersAlone
  <2>6. r.file \notin seen.overlapped => final'[r.file] = Whole(final'[r.file][1][1], r.file[2])
    <3>1. r.file \notin seen.overlapped => partial[r.file] = Whole(r.take, r.file[2])
      BY <1>1, <1>5 DEF AloneWithFile
    <3> QED
      BY <1>1, <1>5, <3>1, WholeIsContent
  <2>7. TakeIsWhole'
    BY <1>1, <1>2, <1>5, <2>6 DEF TakeIsWhole
  <2>8. Answered(r)
    BY <1>5 DEF Answered
  <2> QED
    BY <1>2, <1>3, <2>1, <2>4, <2>5, <2>7, <2>8, RequestKeeps
<1>6. CASE Done(r) /\ Refused(r) /\ UNCHANGED <<final, partial>>
  <2>1. GoesOn(r, {})
    BY <1>6 DEF Done, GoesOn
  <2>2. \A q \in requests' : AloneWithFile(q)'
    BY <1>2, <1>4, <1>6, <2>1, OthersAlone
  <2>3. TakeIsWhole'
    BY <1>2, <1>6 DEF TakeIsWhole
  <2> QED
    BY <1>2, <1>3, <1>6, <2>1, <2>2, <2>3, RefusedAnswers, RequestKeeps
<1> QED
  BY <1>5, <1>6 DEF Publish

\* The answer that ends the loop of the client comes after the row.
LEMMA RecordKeeps ==
    ASSUME UInv, NEW r \in requests, Record(r)
    PROVE  UInv'
<1> USE DEF UInv, UploadTypeOK
<1>1. /\ r \in RequestState /\ r.at = "record" /\ AloneWithFile(r) /\ r.take \in Takes
      /\ r.file[2] \in Kind
      /\ r.slot # Nobody =>
            /\ r.slot \in Slots /\ up[r.slot].at = "wait" /\ PairInOrder(r.slot)
            /\ r.take = up[r.slot].take /\ r.file[2] = up[r.slot].kind
  BY DEF Record, RequestState, Files, Awaited, File
<1>2. GoesOn(r, {}) /\ UNCHANGED <<partial, final, made>>
  BY DEF Record, Done, GoesOn
<1>3. SeenGrows /\ seen'.overlapped = seen.overlapped
  <2>1. CASE UNCHANGED seen
    BY <2>1 DEF SeenGrows, KeptArtifacts
  <2>2. ASSUME NEW more \in SUBSET Takes,
               seen' = [seen EXCEPT !.landed = @ \cup {<<r.take, r.file[2]>>}, !.saved = @ \cup more]
        PROVE  SeenGrows /\ seen'.overlapped = seen.overlapped
    <3>1. <<r.take, r.file[2]>> \in Takes \X Kind
      BY <1>1
    <3>2. /\ seen'.skipped = seen.skipped /\ seen'.overlapped = seen.overlapped
          /\ seen'.landed = seen.landed \cup {<<r.take, r.file[2]>>}
      BY <2>2 DEF SeenState
    <3>3. seen' \in SeenState
      BY <2>2, <3>1 DEF SeenState
    <3> QED
      BY <3>2, <3>3 DEF SeenGrows, KeptArtifacts
  <2>3. r.slot # Nobody => Saves(r.slot) \in SUBSET Takes
    BY <1>1 DEF Saves, PairInOrder
  <2>4. {} \in SUBSET Takes
    OBVIOUS
  <2>5. CASE r.slot = Nobody
    BY <2>1, <2>2, <2>4, <2>5 DEF Record
  <2>6. CASE r.slot # Nobody
    BY <2>1, <2>2, <2>3, <2>6 DEF Record
  <2> QED
    BY <2>5, <2>6
<1>4. TakeIsWhole'
  BY <1>2, <1>3 DEF TakeIsWhole
<1>5. \A q \in requests' : AloneWithFile(q)'
  <2>1. r.file \notin seen'.overlapped =>
            \A q \in requests \ {r} : q.file = r.file => q.at = "receive"
    BY <1>1, <1>3 DEF AloneWithFile
  <2> QED
    BY <1>2, <1>3, <2>1, OthersAlone
<1>6. ASSUME r.slot # Nobody, ArtifactDone(r.slot),
             seen' = [seen EXCEPT !.landed = @ \cup {<<r.take, r.file[2]>>},
                                  !.saved = @ \cup Saves(r.slot)]
      PROVE  Answered(r) /\ SavedIsRecorded'
  <2>1. <<up[r.slot].take, up[r.slot].kind>> \in KeptArtifacts'
    BY <1>1, <1>6 DEF KeptArtifacts, SeenState
  <2>2. Answered(r)
    BY <1>1, <1>3, <1>6, <2>1, ArtifactEnds DEF Answered
  <2>3. seen'.saved \subseteq seen.saved \cup Saves(r.slot)
    BY <1>6 DEF SeenState
  <2> QED
    BY <1>1, <1>3, <1>6, <2>1, <2>2, <2>3, SavesKept
<1>7. ASSUME seen'.saved = seen.saved
      PROVE  SavedIsRecorded'
  BY <1>3, <1>7 DEF SavedIsRecorded, SeenGrows, KeptArtifacts
<1>8. CASE r.slot # Nobody
  <2>1. CASE Refused(r) /\ UNCHANGED seen
    BY <1>2, <1>3, <1>4, <1>5, <1>7, <2>1, RefusedAnswers, RequestKeeps
  <2>2. CASE /\ ArtifactDone(r.slot)
             /\ seen' = [seen EXCEPT !.landed = @ \cup {<<r.take, r.file[2]>>},
                                     !.saved = @ \cup Saves(r.slot)]
    BY <1>2, <1>3, <1>4, <1>5, <1>6, <1>8, <2>2, RequestKeeps
  <2> QED
    BY <1>8, <2>1, <2>2 DEF Record
<1>9. CASE r.slot = Nobody
  <2>1. Answered(r)
    BY <1>9 DEF Record, Answered
  <2>2. seen'.saved = seen.saved
    <3>1. CASE seen' = [seen EXCEPT !.landed = @ \cup {<<r.take, r.file[2]>>}, !.saved = @ \cup {}]
      BY <3>1 DEF SeenState
    <3> QED
      BY <1>9, <3>1 DEF Record
  <2> QED
    BY <1>2, <1>3, <1>4, <1>5, <1>7, <2>1, <2>2, RequestKeeps
<1> QED
  BY <1>8, <1>9

LEMMA LoseAnswerKeeps ==
    ASSUME UInv, NEW r \in requests, LoseAnswer(r)
    PROVE  UInv'
<1> USE DEF UInv, UploadTypeOK
<1> DEFINE lost == [r EXCEPT !.slot = Nobody]
<1>1. /\ r \in RequestState /\ r.slot # Nobody /\ r.slot \in Slots /\ up[r.slot].at = "wait"
      /\ PairInOrder(r.slot) /\ AloneWithFile(r)
  BY DEF LoseAnswer, RequestState, Awaited
<1>2. SeenGrows /\ UNCHANGED <<partial, final, made, seen>>
  BY DEF LoseAnswer, SeenGrows, KeptArtifacts, disk
<1>3. SavedIsRecorded' /\ TakeIsWhole'
  BY <1>2 DEF SavedIsRecorded, TakeIsWhole
<1>4. Answered(r)
  BY <1>1, <1>2, AttemptEnds DEF LoseAnswer, Answered
<1>5. lost \in RequestState /\ lost.slot = Nobody /\ lost.file = r.file /\ lost.take = r.take /\ lost.at = r.at
  BY <1>1 DEF RequestState
<1>6. requests' = (requests \ {r}) \cup {lost}
  BY DEF LoseAnswer
<1>7. GoesOn(r, {lost})
  BY <1>5, <1>6 DEF GoesOn
<1>8. ASSUME NEW q \in requests'
      PROVE  AloneWithFile(q)'
  <2>1. SUFFICES ASSUME q.file \notin seen.overlapped, q.at # "receive"
                 PROVE  /\ \A p \in requests' : p.file = q.file /\ p.at # "receive" => p = q
                        /\ q.at = "publish" => partial[q.file] \in {<<>>, Whole(q.take, q.file[2])}
    BY <1>2 DEF AloneWithFile
  <2>2. CASE q = lost
    BY <1>1, <1>5, <1>6, <2>1, <2>2 DEF AloneWithFile
  <2>3. CASE q \in requests \ {r}
    <3>1. AloneWithFile(q)
      BY <2>3
    <3>2. ~(r.file = q.file /\ r.at # "receive")
      BY <2>1, <2>3, <3>1 DEF AloneWithFile
    <3> QED
      BY <1>5, <1>6, <2>1, <2>3, <3>1, <3>2 DEF AloneWithFile
  <2> QED
    BY <1>6, <2>2, <2>3
<1> QED
  BY <1>2, <1>3, <1>4, <1>7, <1>8, RequestKeeps

-----------------------------------------------------------------------------
(* The page and the server as a whole *)

\* The server ends: no client waits any more.
LEMMA RestartKeeps ==
    ASSUME UInv, Restart
    PROVE  UInv'
<1> USE DEF UInv, UploadTypeOK
<1>1. UNCHANGED <<disk, made, seen>> /\ requests' = {}
  BY DEF Restart
<1>2. ASSUME NEW s \in Slots
      PROVE  up'[s] \in UploadState /\ PairInOrder(s)'
  <2>1. PairInOrder(s) /\ up[s] \in UploadState
    OBVIOUS
  <2>2. CASE up'[s] = Free
    BY <2>2, FreeIsIdle DEF PairInOrder
  <2>3. CASE up'[s] = up[s]
    BY <1>1, <2>1, <2>3 DEF PairInOrder, Total, KeptArtifacts
  <2>4. CASE /\ up[s].at = "wait" /\ up[s].left # 1
             /\ up'[s] = [up[s] EXCEPT !.at = "probe", !.left = @ - 1, !.offset = 0]
    <3>1. up[s].left - 1 \in Int
      BY <2>1 DEF UploadState
    <3>2. /\ up'[s] \in UploadState /\ up'[s].at = "probe" /\ up'[s].offset = 0
          /\ up'[s].take = up[s].take /\ up'[s].kind = up[s].kind
          /\ up'[s].segment = up[s].segment
      <4>1. PICK left \in Int : left = up[s].left - 1
        BY <3>1
      <4>2. up'[s] = [up[s] EXCEPT !.at = "probe", !.left = left, !.offset = 0]
        BY <2>4, <4>1
      <4>3. PICK old \in UploadState : old = up[s]
        BY <2>1
      <4>4. PICK new : new = up'[s]
        OBVIOUS
      <4>5. new = [old EXCEPT !.at = "probe", !.left = left, !.offset = 0]
        BY <4>2, <4>3, <4>4
      <4>6. /\ new \in UploadState /\ new.at = "probe" /\ new.offset = 0
            /\ new.take = old.take /\ new.kind = old.kind /\ new.segment = old.segment
        BY <4>5, ProbedAgain
      <4> QED
        BY <4>3, <4>4, <4>6
    <3> QED
      BY <1>1, <2>1, <2>4, <3>2 DEF PairInOrder, KeptArtifacts
  <2> QED
    BY <2>2, <2>3, <2>4 DEF Restart
<1>3. up' \in [Slots -> UploadState]
  <2>1. up' = [s \in Slots |-> up'[s]]
    BY DEF Restart
  <2> QED
    BY <1>2, <2>1
<1> QED
  BY <1>1, <1>2, <1>3 DEF TakeIsWhole, SavedIsRecorded, disk

\* A page that is left or loaded again leaves the server to its requests.
LEMMA LeavePageKeeps ==
    ASSUME UInv, LeavePage
    PROVE  UInv'
<1> USE DEF UInv, UploadTypeOK
<1>1. UNCHANGED <<disk, requests, made, seen>>
  BY DEF LeavePage
<1>2. ASSUME NEW s \in Slots
      PROVE  /\ up'[s] \in UploadState
             /\ \A f \in {"at", "segment", "kind", "take", "offset"} : up'[s][f] = up[s][f]
  BY DEF LeavePage, UploadState
<1>3. up' \in [Slots -> UploadState]
  BY <1>2 DEF LeavePage
<1>4. \A s \in Slots : PairInOrder(s)'
  BY <1>1, <1>2 DEF PairInOrder, Total, KeptArtifacts
<1>5. ASSUME NEW r \in requests
      PROVE  Awaited(r)' /\ AloneWithFile(r)'
  BY <1>1, <1>2 DEF Awaited, AloneWithFile, File, RequestState, disk
<1> QED
  BY <1>1, <1>3, <1>4, <1>5 DEF TakeIsWhole, SavedIsRecorded, disk

LEMMA ReloadKeeps ==
    ASSUME UInv, Reload
    PROVE  UInv'
<1> USE DEF UInv, UploadTypeOK
<1>1. UNCHANGED <<disk, made, seen>> /\ up' = [s \in Slots |-> Free]
  BY DEF Reload
<1>2. up' \in [Slots -> UploadState] /\ \A s \in Slots : PairInOrder(s)'
  BY <1>1, FreeIsIdle DEF PairInOrder
<1>3. ASSUME NEW q \in requests'
      PROVE  \E r \in requests :
                /\ q = [r EXCEPT !.slot = Nobody] /\ q \in RequestState /\ q.slot = Nobody
                /\ q.file = r.file /\ q.at = r.at /\ q.take = r.take
  BY <1>3 DEF Reload, RequestState
<1>4. ASSUME NEW q \in requests'
      PROVE  AloneWithFile(q)'
  <2>1. SUFFICES ASSUME q.file \notin seen.overlapped, q.at # "receive"
                 PROVE  /\ \A p \in requests' : p.file = q.file /\ p.at # "receive" => p = q
                        /\ q.at = "publish" => partial[q.file] \in {<<>>, Whole(q.take, q.file[2])}
    BY <1>1 DEF AloneWithFile, disk
  <2>2. PICK r \in requests :
            /\ q = [r EXCEPT !.slot = Nobody]
            /\ q.file = r.file /\ q.at = r.at /\ q.take = r.take
    BY <1>3
  <2>3. AloneWithFile(r)
    OBVIOUS
  <2>4. ASSUME NEW p \in requests', p.file = q.file, p.at # "receive"
        PROVE  p = q
    <3>1. PICK o \in requests :
              p = [o EXCEPT !.slot = Nobody] /\ p.file = o.file /\ p.at = o.at
      BY <1>3
    <3>2. o = r
      BY <2>1, <2>2, <2>3, <2>4, <3>1 DEF AloneWithFile
    <3> QED
      BY <2>2, <3>1, <3>2
  <2> QED
    BY <2>1, <2>2, <2>3, <2>4 DEF AloneWithFile
<1>5. requests' \subseteq RequestState /\ \A q \in requests' : Awaited(q)'
  BY <1>3 DEF Awaited
<1> QED
  BY <1>1, <1>2, <1>4, <1>5 DEF TakeIsWhole, SavedIsRecorded, disk

LEMMA DiscardTakeKeeps ==
    ASSUME UInv, NEW segment \in Segments, DiscardTake(segment)
    PROVE  UInv'
<1> USE DEF UInv, UploadTypeOK
<1>1. UNCHANGED <<requests, up, made, seen>>
  BY DEF DiscardTake
<1>2. \A f \in Files : partial'[f] \in {<<>>, partial[f]} /\ final'[f] \in {<<>>, final[f]}
  BY DEF DiscardTake
<1>3. <<>> \in Content
  BY EmptySeq DEF Content
<1>4. partial' \in [Files -> Content] /\ final' \in [Files -> Content]
  BY <1>3 DEF DiscardTake
<1>5. \A r \in requests : Awaited(r)' /\ AloneWithFile(r)'
  BY <1>1, <1>2 DEF Awaited, AloneWithFile, File, RequestState
<1>6. \A s \in Slots : PairInOrder(s)'
  BY <1>1 DEF PairInOrder, Total, KeptArtifacts
<1>7. TakeIsWhole' /\ SavedIsRecorded'
  BY <1>1, <1>2 DEF TakeIsWhole, SavedIsRecorded
<1> QED
  BY <1>1, <1>4, <1>5, <1>6, <1>7

LEMMA NothingHappens ==
    ASSUME UInv, UNCHANGED <<disk, requests, up, made, seen>>
    PROVE  UInv'
BY DEF UInv, UploadTypeOK, PairInOrder, Awaited, AloneWithFile, TakeIsWhole, SavedIsRecorded,
   KeptArtifacts, Total, File, disk

LEMMA InitUInv == Init => UInv
<1> SUFFICES ASSUME Init
             PROVE  UInv
  OBVIOUS
<1>1. <<>> \in Content
  BY EmptySeq DEF Content
<1>2. UploadTypeOK
  BY <1>1, FreeIsIdle, Lengths DEF Init, UploadTypeOK, Nothing, SeenState
<1>3. \A s \in Slots : PairInOrder(s)
  BY FreeIsIdle DEF Init, PairInOrder
<1> QED
  BY <1>2, <1>3 DEF Init, UInv, TakeIsWhole, SavedIsRecorded, Nothing

LEMMA NextUInv == UInv /\ [Next]_vars => UInv'
<1> SUFFICES ASSUME UInv, [Next]_vars
             PROVE  UInv'
  OBVIOUS
<1>1. CASE Page
  <2>1. CASE OpenPage \/ Start \/ MicOpens
    BY <2>1, NothingHappens DEF OpenPage, Start, MicOpens
  <2> QED
    BY <1>1, <2>1, LeavePageKeeps, ReloadKeeps, DiscardTakeKeeps DEF Page
<1>2. ASSUME NEW s \in Slots, Client(s)
      PROVE  UInv'
  BY <1>2, ProbeKeeps, AlreadyCompleteKeeps, SendChunkKeeps, RecorderKeeps DEF Client
<1>3. ASSUME NEW r \in requests, HandleChunk(r) \/ LoseAnswer(r)
      PROVE  UInv'
  BY <1>3, ReceiveKeeps, VerifyKeeps, PublishKeeps, RecordKeeps, LoseAnswerKeeps DEF HandleChunk
<1>4. CASE UNCHANGED vars
  BY <1>4, NothingHappens DEF vars, disk
<1> QED
  BY <1>1, <1>2, <1>3, <1>4, RestartKeeps DEF Next

-----------------------------------------------------------------------------
(* The theorems *)

\* The inductive invariant of the upload.
THEOREM UploadInvariant == Spec => []UInv
BY InitUInv, NextUInv, PTL DEF Spec

\* A take on the server is one whole recording ("verify full-file checksum, then atomically
\* publish", internal/upload/upload.go:230), unless two chunks of it overlapped: for any
\* recordings and any chunk size, whatever an upload before it has left behind.
THEOREM TakesAreWhole == Spec => []TakeIsWhole
<1>1. UInv => TakeIsWhole
  BY DEF UInv
<1> QED
  BY <1>1, UploadInvariant, PTL

\* What the page shows as saved is recorded in the database, both halves of it, unless the
\* client has left out an artifact for the size of its partial file
\* (frontend/src/lib/uploadClient.ts:77).
THEOREM SavesAreRecorded == Spec => []SavedIsRecorded
<1>1. UInv => SavedIsRecorded
  BY DEF UInv
<1> QED
  BY <1>1, UploadInvariant, PTL
=============================================================================
