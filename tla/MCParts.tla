------------------------------- MODULE MCParts -------------------------------
(***************************************************************************)
(* Five parts of the system that meet the rest in one place each, in one    *)
(* run: how a post comes in, the draft of a script, a take before the       *)
(* camera, its way to the server, and the playing of what is there.  The    *)
(* pair that Capture makes is all that TakeUpload has of it, which tells    *)
(* recordings apart by a number, and the others share nothing: a behaviour  *)
(* follows one of the five.                                                 *)
(***************************************************************************)
EXTENDS TakeUpload, Capture, ScriptDraft, SegmentAssets, Intake, TLC

VARIABLE follows

\* The second recording is shorter than the first.
ShortThenLong ==
    <<[audio |-> 3, blendshapes |-> 1], [audio |-> 2, blendshapes |-> 1]>>

OneSegment == [id |-> 1, manner |-> "one", narration |-> "first", short |-> NoShort]

\* The links of the two posts end alike.
SlugsOfPosts == <<"a", "a">>

SlotSymmetry == Permutations(Slots)

\* A worker on the CPU, and one without a model, do what one on the GPU does that does not
\* fail, or that finds no face.
MCInit ==
    /\ Init /\ CaptureInit /\ DraftInit /\ AssetsInit /\ IntakeInit
    /\ follows \in {"capture", "upload", "draft", "preview", "intake"}
    /\ worker.delegate = "GPU"
    /\ follows # "draft" => original = <<OneSegment>>
    /\ follows # "preview" => \A s \in DOMAIN stored : stored[s].wav = Missing
    /\ follows # "intake" => posts = 0

Captures == follows = "capture" /\ UNCHANGED <<vars, draftVars, assetsVars, intakeVars, follows>>
Uploads == follows = "upload" /\ UNCHANGED <<captureVars, draftVars, assetsVars, intakeVars, follows>>
Drafts == follows = "draft" /\ UNCHANGED <<vars, captureVars, assetsVars, intakeVars, follows>>
Previews == follows = "preview" /\ UNCHANGED <<vars, captureVars, draftVars, intakeVars, follows>>
Intakes == follows = "intake" /\ UNCHANGED <<vars, captureVars, draftVars, assetsVars, follows>>

\* The actions of the five, one by one, so that TLC counts each.
MCNext ==
    \/ Captures /\ StartTake
    \/ Captures /\ \E k \in asking : MicAnswers(k)
    \/ Captures /\ StopTake
    \/ Captures /\ FlushTimesOut
    \/ Captures /\ MakePair
    \/ Captures /\ PageSamples
    \/ Captures /\ \E k \in DOMAIN mics : PageSound(k)
    \/ Captures /\ PumpFrame
    \/ Captures /\ WorkerStart
    \/ Captures /\ WorkerFrame
    \/ Captures /\ WorkerStop
    \/ Captures /\ Recovered
    \/ Drafts /\ OpenDraft
    \/ Drafts /\ \E i \in DOMAIN draft : Edit(i)
    \/ Drafts /\ SaveDraft
    \/ Drafts /\ DropDraft
    \/ Previews /\ ListTakes
    \/ Previews /\ UseSegment
    \/ \E s \in DOMAIN stored :
           \/ Previews /\ Pick(s)
           \/ Previews /\ RecordAgain(s)
           \/ Previews /\ Discarded(s)
           \/ Previews /\ BuildTimeline(s)
    \/ Previews /\ \E r \in reading : FetchWav(r)
    \/ Previews /\ \E r \in reading : FetchJsonText(r)
    \/ Previews /\ \E r \in reading : EndsReading(r)
    \/ Intakes /\ Publishes
    \/ \E p \in Pollers :
           \/ Intakes /\ Poll(p)
           \/ Intakes /\ CountRssItems(p)
           \/ Intakes /\ InsertRssItem(p)
           \/ Intakes /\ CreateVideo(p)
           \/ Intakes /\ Scaffold(p)
           \/ Intakes /\ UpdateVideoStatus(p)
           \/ Intakes /\ OnScaffolded(p)
           \/ Intakes /\ PollFails(p)
    \/ \E s \in Slug :
           \/ Intakes /\ GenerateScript(s)
           \/ Intakes /\ UpdateScript(s)
           \/ Intakes /\ ObserverReads(s)
           \/ Intakes /\ ApproveScript(s)
           \/ Intakes /\ RejectScript(s)
    \/ Intakes /\ \E w \in writers : Generated(w)
    \/ Intakes /\ \E w \in writers : NotGenerated(w)
    \/ Intakes /\ \E w \in writers : OpenTmp(w)
    \/ Intakes /\ \E w \in writers : WriteTmp(w)
    \/ Intakes /\ \E w \in writers : RenameTmp(w)
    \/ Intakes /\ \E w \in writers : WriterFails(w)
    \/ Intakes /\ \E d \in deciding : TransitionAndRecord(d)
    \/ Intakes /\ ProcessScriptPath
    \/ Intakes /\ ObserverUpdates
    \/ Intakes /\ ObserverFails
    \/ Intakes /\ ServerRestarts
    \/ Uploads /\ OpenPage
    \/ Uploads /\ LeavePage
    \/ Uploads /\ Reload
    \/ Uploads /\ Start
    \/ Uploads /\ MicOpens
    \/ Uploads /\ Restart
    \/ \E segment \in Segments :
           \/ Uploads /\ DiscardTake(segment)
           \/ \E s \in Slots : Uploads /\ Stop(s, segment)
    \/ \E s \in Slots :
           \/ Uploads /\ Encoded(s)
           \/ Uploads /\ Probe(s)
           \/ Uploads /\ AlreadyComplete(s)
           \/ Uploads /\ SendChunk(s)
    \/ Uploads /\ \E r \in requests : Receive(r)
    \/ Uploads /\ \E r \in requests : Verify(r)
    \/ Uploads /\ \E r \in requests : Publish(r)
    \/ Uploads /\ \E r \in requests : Record(r)
    \/ Uploads /\ \E r \in requests : LoseAnswer(r)

MCSpec == MCInit /\ [][MCNext]_<<vars, captureVars, draftVars, assetsVars, intakeVars, follows>>
=============================================================================
