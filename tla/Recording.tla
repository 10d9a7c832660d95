----------------------------- MODULE Recording ------------------------------
(***************************************************************************)
(* From the approved script of one video to its scenes: the studio page     *)
(* uploads the audio and the blendshapes of each segment, the upload        *)
(* handler records them and moves the video to recording, and after each    *)
(* recorded take a goroutine runs the concat service and then the timeline  *)
(* service, which move it on.                                               *)
(*                                                                         *)
(* An upload is one step here up to the rename of the finished file.  From  *)
(* there each database round trip is a step, and in a goroutine each access *)
(* to a group of files.                                                     *)
(***************************************************************************)
EXTENDS FiniteSets, Integers, VideoState

CONSTANTS
    Tabs,      \* studio pages
    Workers,   \* slots for goroutines: a trigger waits when all are taken
    Segments,  \* number of segments of the script
    MaxTakes,  \* bound on the takes recorded
    MaxFaults  \* bound on what goes wrong: lost uploads and answers, failing queries,
               \* unusable files, restarts of the server

Segment == 1 .. Segments

ASSUME SegmentsAssumption == Segments \in Nat \ {0}
ASSUME TakesAssumption == MaxTakes \in Nat
ASSUME FaultsAssumption == MaxFaults \in Nat

VARIABLES
    status,     \* videos.status
    take,       \* rows of takes: the recording each kind and segment has, 0 for none
    file,       \* audio/<segment>.wav and .blendshapes.json: likewise
    fullWav,    \* audio/full.wav: the recording each segment of it comes from
    manifest,   \* recording.manifest.json: the recording it names for each segment
    sidecars,   \* segments that have a visemes sidecar
    timelines,  \* segments that have a timeline file
    tab,        \* what each page is doing, with the request it has in flight
    worker,     \* the goroutines after uploads
    inFly,      \* Service.inFly of the concat service for this video
    made,       \* recordings made so far, which numbers them
    faults,     \* what has gone wrong so far
    outage      \* history: the server restarted or a query failed under a goroutine

vars == <<status, take, file, fullWav, manifest, sidecars, timelines, tab, worker,
          inFly, made, faults, outage>>

store == <<fullWav, manifest, sidecars, timelines>>
recorded == <<take, file>>

-----------------------------------------------------------------------------

Kind == {"audio", "blendshapes"}
Version == 0 .. MaxTakes

\* A page uploads the audio, then the blendshapes, of the pair it has recorded; req is
\* the point its request has reached on the server.
TabState ==
    [at  : {"idle"} \cup Kind,
     seg : Segment,
     rec : Version,
     req : {"none", "upsert", "load", "count", "enter", "entered", "trigger", "unlink"}]

\* Where a goroutine is: first in the concat service, then in the timeline service.
ConcatPc == {"load", "list", "copy", "manifest", "advance", "fail", "leave"}
TimelinePc == {"timeline", "segment", "write", "scenes", "block"}

WorkerState ==
    [at   : {"idle", "start"} \cup ConcatPc \cup TimelinePc,
     seg  : 1 .. Segments + 1,       \* the segment the timeline service is at
     plan : [Segment -> Version]]    \* the takes concat has listed

Nothing == [s \in Segment |-> 0]
Resting == [at |-> "idle", seg |-> 1, plan |-> Nothing]
Idle == [at |-> "idle", seg |-> 1, rec |-> 0, req |-> "none"]

TypeOK ==
    /\ status \in State
    /\ take \in [Kind -> [Segment -> Version]]
    /\ file \in [Kind -> [Segment -> Version]]
    /\ fullWav \in [Segment -> Version]
    /\ manifest \in [Segment -> Version]
    /\ sidecars \subseteq Segment
    /\ timelines \subseteq Segment
    /\ tab \in [Tabs -> TabState]
    /\ worker \in [Workers -> WorkerState]
    /\ inFly \in BOOLEAN
    /\ made \in Version
    /\ faults \in 0 .. MaxFaults
    /\ outage \in BOOLEAN

Init ==
    /\ status = "script_approved"
    /\ take = [k \in Kind |-> Nothing]
    /\ file = [k \in Kind |-> Nothing]
    /\ fullWav = Nothing
    /\ manifest = Nothing
    /\ sidecars = {}
    /\ timelines = {}
    /\ tab = [t \in Tabs |-> Idle]
    /\ worker = [w \in Workers |-> Resting]
    /\ inFly = FALSE
    /\ made = 0
    /\ faults = 0
    /\ outage = FALSE

Complete(paths) == \A s \in Segment : paths[s] # 0

Quiet(t) == tab[t] = Idle
Reached(t, req) == tab[t].req = req

Answer(t, at) ==
    tab' = [tab EXCEPT ![t] = IF at = "idle" THEN Idle ELSE [@ EXCEPT !.at = at, !.req = "none"]]
Serve(t, req) == tab' = [tab EXCEPT ![t].req = req]

Fault == faults < MaxFaults /\ faults' = faults + 1

\* A goroutine goes on, and forgets its plan and its segment unless it still needs them.
Goes(w, at, seg, plan) ==
    worker' = [worker EXCEPT ![w] = [at |-> at, seg |-> seg, plan |-> plan]]
GoTo(w, at) == Goes(w, at, 1, Nothing)
WithPlan(w, at, plan) == Goes(w, at, 1, plan)
AtSegment(w, at, seg) == Goes(w, at, seg, Nothing)

-----------------------------------------------------------------------------
(* The studio page *)

\* A take of a segment is recorded.
\* The page looks at the status when it opens, which may be long ago.
Record(t, s) ==
    /\ Quiet(t)
    /\ made < MaxTakes
    /\ made' = made + 1
    /\ tab' = [tab EXCEPT ![t] = [at |-> "audio", seg |-> s, rec |-> made + 1, req |-> "none"]]
    /\ UNCHANGED <<status, recorded, store, worker, inFly, faults, outage>>

\* The upload does not get through, twice: the page gives the pair up.
UploadFails(t) ==
    /\ Fault
    /\ tab[t].at \in Kind /\ Reached(t, "none")
    /\ Answer(t, "idle")
    /\ UNCHANGED <<status, recorded, store, worker, inFly, made, outage>>

\* After a failed request the client tries again once, and then gives up.
AfterFailure(t) == {tab[t].at, "idle"}

-----------------------------------------------------------------------------
(* The upload handler *)

\* The last chunk has come and its checksum is right: the file replaces the old one.
ReceiveChunk(t) ==
    /\ tab[t].at \in Kind /\ Reached(t, "none")
    /\ file' = [file EXCEPT ![tab[t].at][tab[t].seg] = tab[t].rec]
    /\ Serve(t, "upsert")
    /\ UNCHANGED <<status, take, store, worker, inFly, made, faults, outage>>

UpsertTake(t) ==
    /\ Reached(t, "upsert")
    /\ take' = [take EXCEPT ![tab[t].at][tab[t].seg] = tab[t].rec]
    /\ Serve(t, "load")
    /\ UNCHANGED <<status, file, store, worker, inFly, made, faults, outage>>

UpsertFails(t) ==
    /\ Fault
    /\ Reached(t, "upsert")
    /\ \E at \in AfterFailure(t) : Answer(t, at)
    /\ UNCHANGED <<status, recorded, store, worker, inFly, made, outage>>

\* maybeEnterRecording: reads the status, then counts the takes of the video, then
\* updates the status whatever it has become.
EnterLoad(t) ==
    /\ Reached(t, "load")
    /\ Serve(t, IF status = "script_approved" THEN "count" ELSE "trigger")
    /\ UNCHANGED <<status, recorded, store, worker, inFly, made, faults, outage>>

CountTakes == Cardinality({row \in Kind \X Segment : take[row[1]][row[2]] # 0})

EnterCount(t) ==
    /\ Reached(t, "count")
    /\ Serve(t, IF CountTakes = 1 THEN "enter" ELSE "trigger")
    /\ UNCHANGED <<status, recorded, store, worker, inFly, made, faults, outage>>

EnterRecording(t) ==
    /\ Reached(t, "enter")
    /\ status' = "recording"
    /\ Serve(t, "entered")
    /\ UNCHANGED <<recorded, store, worker, inFly, made, faults, outage>>

\* A query of maybeEnterRecording fails: it returns, and the upload goes on.
EnterFails(t) ==
    /\ Fault
    /\ tab[t].req \in {"load", "count", "enter"}
    /\ Serve(t, "trigger")
    /\ UNCHANGED <<status, recorded, store, worker, inFly, made, outage>>

\* afterUpsert: a goroutine of its own for each call.
AfterUpsert ==
    \E w \in Workers :
        /\ worker[w].at = "idle"
        /\ GoTo(w, "start")

\* The first take of a video has two calls of afterUpsert ...
TriggerEntered(t) ==
    /\ Reached(t, "entered")
    /\ AfterUpsert
    /\ Serve(t, "trigger")
    /\ UNCHANGED <<status, recorded, store, inFly, made, faults, outage>>

NextUpload(at) == IF at = "audio" THEN "blendshapes" ELSE "idle"

\* ... and each take one, with which the request is answered.
Trigger(t) ==
    /\ Reached(t, "trigger")
    /\ AfterUpsert
    /\ Answer(t, NextUpload(tab[t].at))
    /\ UNCHANGED <<status, recorded, store, inFly, made, faults, outage>>

AnswerLost(t) ==
    /\ Fault
    /\ Reached(t, "trigger")
    /\ AfterUpsert
    /\ \E at \in AfterFailure(t) : Answer(t, at)
    /\ UNCHANGED <<status, recorded, store, inFly, made, outage>>

\* Mutant: the files go first.
DeleteFiles(t, s) ==
    /\ Quiet(t)
    /\ file' = [k \in Kind |-> [file[k] EXCEPT ![s] = 0]]
    /\ tab' = [tab EXCEPT ![t].seg = s, ![t].req = "unlink"]
    /\ UNCHANGED <<status, take, store, worker, inFly, made, faults, outage>>

\* DELETE of the takes of a segment: the rows first, then the files.  Sidecars,
\* timelines and the manifest stay.
DeleteTakes(t, s) ==
    /\ Quiet(t)
    /\ take' = [k \in Kind |-> [take[k] EXCEPT ![s] = 0]]
    /\ tab' = [tab EXCEPT ![t].seg = s, ![t].req = "unlink"]
    /\ UNCHANGED <<status, file, store, worker, inFly, made, faults, outage>>

RemoveFiles(t) ==
    /\ Reached(t, "unlink")
    /\ file' = [k \in Kind |-> [file[k] EXCEPT ![tab[t].seg] = 0]]
    /\ Answer(t, "idle")
    /\ UNCHANGED <<status, take, store, worker, inFly, made, faults, outage>>

-----------------------------------------------------------------------------
(* The concat service: Run, run and fail *)

\* Mutant: the in-flight set is not consulted.
ConcatAlways(w) ==
    /\ worker[w].at = "start"
    /\ inFly' = TRUE
    /\ GoTo(w, "load")
    /\ UNCHANGED <<status, recorded, store, tab, made, faults, outage>>

\* A run in flight swallows this one.
ConcatRun(w) ==
    /\ worker[w].at = "start"
    /\ inFly' = TRUE
    /\ GoTo(w, IF inFly THEN "timeline" ELSE "load")
    /\ UNCHANGED <<status, recorded, store, tab, made, faults, outage>>

ConcatLoad(w) ==
    /\ worker[w].at = "load"
    /\ GoTo(w, IF status = "recording" THEN "list" ELSE "leave")
    /\ UNCHANGED <<status, recorded, store, tab, inFly, made, faults, outage>>

\* Only the audio takes are looked at.
ConcatList(w) ==
    /\ worker[w].at = "list"
    /\ IF Complete(take["audio"]) THEN WithPlan(w, "copy", take["audio"]) ELSE GoTo(w, "leave")
    /\ UNCHANGED <<status, recorded, store, tab, inFly, made, faults, outage>>

\* concatWavs copies the files as they are now, and publishes the result by a rename.
ConcatWavs(w) ==
    /\ worker[w].at = "copy"
    /\ IF Complete(file["audio"])
       THEN fullWav' = file["audio"] /\ WithPlan(w, "manifest", worker[w].plan)
       ELSE UNCHANGED fullWav /\ GoTo(w, "fail")
    /\ UNCHANGED <<status, recorded, manifest, sidecars, timelines, tab, inFly, made, faults, outage>>

\* Mutant: the manifest is written from the rows as they are now.
ManifestOfRows(w) ==
    /\ worker[w].at = "manifest"
    /\ manifest' = take["audio"]
    /\ GoTo(w, "advance")
    /\ UNCHANGED <<status, recorded, fullWav, sidecars, timelines, tab, inFly, made, faults, outage>>

WriteManifest(w) ==
    /\ worker[w].at = "manifest"
    /\ manifest' = worker[w].plan
    /\ GoTo(w, "advance")
    /\ UNCHANGED <<status, recorded, fullWav, sidecars, timelines, tab, inFly, made, faults, outage>>

\* Whatever the status has become.
ConcatAdvance(w) ==
    /\ worker[w].at = "advance"
    /\ status' = "voice_processing"
    /\ GoTo(w, "leave")
    /\ UNCHANGED <<recorded, store, tab, inFly, made, faults, outage>>

ConcatFail(w) ==
    /\ worker[w].at = "fail"
    /\ status' = "blocked"
    /\ GoTo(w, "leave")
    /\ UNCHANGED <<recorded, store, tab, inFly, made, faults, outage>>

\* Mutant: nobody processes what concat has finished.
ConcatLeavesAlone(w) ==
    /\ worker[w].at = "leave"
    /\ inFly' = FALSE
    /\ GoTo(w, IF status = "voice_processing" THEN "idle" ELSE "timeline")
    /\ UNCHANGED <<status, recorded, store, tab, made, faults, outage>>

\* The deferred removal from inFly; then the timeline service takes over.
ConcatLeave(w) ==
    /\ worker[w].at = "leave"
    /\ inFly' = FALSE
    /\ GoTo(w, "timeline")
    /\ UNCHANGED <<status, recorded, store, tab, made, faults, outage>>

-----------------------------------------------------------------------------
(* The timeline service: Run, buildSegment and block *)

TimelineLoad(w) ==
    /\ worker[w].at = "timeline"
    /\ IF status = "voice_processing" THEN AtSegment(w, "segment", 1) ELSE GoTo(w, "idle")
    /\ UNCHANGED <<status, recorded, store, tab, inFly, made, faults, outage>>

\* A segment that has a timeline is skipped.
SkipSegment(w) ==
    /\ worker[w].at = "segment"
    /\ worker[w].seg \in timelines
    /\ AtSegment(w, "segment", worker[w].seg + 1)
    /\ UNCHANGED <<status, recorded, store, tab, inFly, made, faults, outage>>

\* buildSegment needs the blendshapes and, for want of a sidecar, the audio, from
\* which it makes a sidecar.
BuildSegment(w) ==
    /\ worker[w].at = "segment"
    /\ worker[w].seg \in Segment \ timelines
    /\ LET s == worker[w].seg IN
       IF file["blendshapes"][s] # 0 /\ (s \in sidecars \/ file["audio"][s] # 0)
       THEN sidecars' = sidecars \cup {s} /\ AtSegment(w, "write", s)
       ELSE UNCHANGED sidecars /\ GoTo(w, "block")
    /\ UNCHANGED <<status, recorded, fullWav, manifest, timelines, tab, inFly, made, faults, outage>>

WriteTimeline(w) ==
    /\ worker[w].at = "write"
    /\ timelines' = timelines \cup {worker[w].seg}
    /\ AtSegment(w, "segment", worker[w].seg + 1)
    /\ UNCHANGED <<status, recorded, fullWav, manifest, sidecars, tab, inFly, made, faults, outage>>

\* Mutant: the last segment is taken for the end of the script.
AllButLastBuilt(w) ==
    /\ worker[w].at = "segment"
    /\ worker[w].seg >= Segments
    /\ GoTo(w, "scenes")
    /\ UNCHANGED <<status, recorded, store, tab, inFly, made, faults, outage>>

AllBuilt(w) ==
    /\ worker[w].at = "segment"
    /\ worker[w].seg > Segments
    /\ GoTo(w, "scenes")
    /\ UNCHANGED <<status, recorded, store, tab, inFly, made, faults, outage>>

\* Whatever the status has become.
TimelineAdvance(w) ==
    /\ worker[w].at = "scenes"
    /\ status' = "scenes_pending"
    /\ GoTo(w, "idle")
    /\ UNCHANGED <<recorded, store, tab, inFly, made, faults, outage>>

TimelineBlock(w) ==
    /\ worker[w].at = "block"
    /\ status' = "blocked"
    /\ GoTo(w, "idle")
    /\ UNCHANGED <<recorded, store, tab, inFly, made, faults, outage>>

-----------------------------------------------------------------------------
(* What goes wrong under a goroutine *)

\* A file cannot be read, written or understood; concat gives up without a word when
\* it is the script.
DiskFails(w) ==
    /\ Fault
    /\ \/ worker[w].at = "list" /\ GoTo(w, "leave")
       \/ worker[w].at \in {"copy", "manifest"} /\ GoTo(w, "fail")
       \/ worker[w].at \in {"segment", "write"} /\ GoTo(w, "block")
    /\ UNCHANGED <<status, recorded, store, tab, inFly, made, outage>>

\* A timeline that cannot be written to its end is a file all the same, and will be
\* skipped from now on.
TimelineCutShort(w) ==
    /\ Fault
    /\ worker[w].at = "write"
    /\ timelines' = timelines \cup {worker[w].seg}
    /\ GoTo(w, "block")
    /\ UNCHANGED <<status, recorded, fullWav, manifest, sidecars, tab, inFly, made, outage>>

\* A query fails.  The update that would block the video after it may fail too.
QueryFails(w) ==
    /\ Fault
    /\ \/ worker[w].at \in {"load", "list", "fail"} /\ GoTo(w, "leave")
       \/ worker[w].at = "advance" /\ GoTo(w, "fail")
       \/ worker[w].at \in {"timeline", "block"} /\ GoTo(w, "idle")
       \/ worker[w].at = "scenes" /\ GoTo(w, "block")
    /\ outage' = TRUE
    /\ UNCHANGED <<status, recorded, store, tab, inFly, made>>

\* The server restarts: requests fail, goroutines are gone, and nothing starts them
\* again.
Restart ==
    /\ Fault
    /\ worker' = [w \in Workers |-> Resting]
    /\ tab' = [t \in Tabs |-> Idle]
    /\ inFly' = FALSE
    /\ outage' = TRUE
    /\ UNCHANGED <<status, recorded, store, made>>

-----------------------------------------------------------------------------
(* The rest of the system: its edges that touch these states, in one step each *)

\* The observer accepts the scenes; the user approves them; a blocked video is
\* resumed with its script approved.
MoveOn ==
    /\ \/ status = "scenes_pending" /\ status' = "scenes_review"
       \/ status = "scenes_review" /\ status' = "queued"
       \/ status = "blocked" /\ status' = "script_approved"
    /\ UNCHANGED <<recorded, store, tab, worker, inFly, made, faults, outage>>

-----------------------------------------------------------------------------

HandlerStep(t) ==
    \/ UpsertTake(t) \/ UpsertFails(t)
    \/ EnterLoad(t) \/ EnterCount(t) \/ EnterRecording(t) \/ EnterFails(t)
    \/ TriggerEntered(t) \/ Trigger(t) \/ AnswerLost(t)
    \/ RemoveFiles(t)

PageStep(t) ==
    \/ \E s \in Segment : Record(t, s) \/ DeleteTakes(t, s)
    \/ UploadFails(t) \/ ReceiveChunk(t)

WorkerStep(w) ==
    \/ ConcatRun(w) \/ ConcatLoad(w) \/ ConcatList(w) \/ ConcatWavs(w)
    \/ WriteManifest(w) \/ ConcatAdvance(w) \/ ConcatFail(w) \/ ConcatLeave(w)
    \/ TimelineLoad(w) \/ SkipSegment(w) \/ BuildSegment(w) \/ WriteTimeline(w)
    \/ AllBuilt(w) \/ TimelineAdvance(w) \/ TimelineBlock(w)
    \/ DiskFails(w) \/ TimelineCutShort(w) \/ QueryFails(w)

Next ==
    \/ \E t \in Tabs : PageStep(t) \/ HandlerStep(t)
    \/ \E w \in Workers : WorkerStep(w)
    \/ Restart
    \/ MoveOn

Spec == Init /\ [][Next]_vars

-----------------------------------------------------------------------------
(* What the pipeline promises *)

\* At most one goroutine is in the concat service, so that nobody else writes
\* full.wav.tmp and the manifest.
OneConcat ==
    \A v, w \in Workers :
        worker[v].at \in ConcatPc /\ worker[w].at \in ConcatPc => v = w

\* No video gets past a stage without the artifacts of the stage for each segment,
\* although the status is set whatever it and the takes have become meanwhile.
StageHasArtifacts ==
    /\ status \in {"voice_processing", "scenes_pending", "scenes_review", "queued"} =>
           Complete(fullWav) /\ Complete(manifest)
    /\ status \in {"scenes_pending", "scenes_review", "queued"} => timelines = Segment

\* A row of takes has its file, and one that is at least as new: rows are written
\* after files and deleted before them.
TakeHasFile ==
    \A k \in Kind, s \in Segment : take[k][s] <= file[k][s]

\* The manifest never names a take that is newer than what full.wav holds of the
\* segment.
ManifestNotAhead ==
    \A s \in Segment : manifest[s] <= fullWav[s]

\* A video in voice processing is in the hands of a goroutine that will read its
\* status or set it, unless a restart or a failing query has got in the way: no
\* upload is needed, or able, to start one.
VoiceIsAttended ==
    status = "voice_processing" =>
        \/ outage
        \/ \E w \in Workers : worker[w].at \in TimelinePc \cup {"leave"}

-----------------------------------------------------------------------------
(* What a comment says, and the code does not do *)

\* "it no-ops unless every segment has both artifacts" (Service.Run of recording):
\* concat publishes nothing before every segment has its audio and its blendshapes.
BothArtifacts ==
    [][\A w \in Workers :
           ConcatAdvance(w) => \A k \in Kind : Complete(take[k])]_vars
=============================================================================
