---------------------------- MODULE RenderStages ----------------------------
(***************************************************************************)
(* The stages a runner takes a claimed render job through: download of the  *)
(* manifest, soundtrack, bundle, the long video frame by frame, the shorts  *)
(* and the chunked upload; with the working directory it keeps from job to  *)
(* job, and the server's side of the two HTTP endpoints it talks to.        *)
(*                                                                         *)
(* One video, one runner.  The workspace on the server goes through the     *)
(* versions of a history; a job carries the manifest of the version it was  *)
(* enqueued for.  The content of a file is the version that last wrote it.  *)
(***************************************************************************)
EXTENDS Playback, Timelines

CONSTANTS
    Histories,    \* sequences of workspace versions, see Version
    Metas,        \* the sprite sheets the runner may pass to the kit
    Routed,       \* whether the server finds the workspace the runner addresses
    MaxShorts,    \* bound on the shorts of a script
    MaxAttempts,  \* jobs.max_attempts, of a job that has not failed yet
    MaxFaults,    \* bound on the failures of a behaviour
    Faults        \* the kinds of failure that may happen, see FaultKind

\* "error":   a request is refused or lost before the server acts
\* "corrupt": a download arrives with other bytes
\* "lost":    the server acts and its answer is lost
\* "render":  Remotion fails
\* "cut":     a write of the server stops in the middle, or a file is not removed
\* "report":  UpdateProgress fails, or FailJob, which counts for none: the job is over
\* "crash":   the runner process ends
\* "cancel":  cancel_requested is set on the job
\* "manifest": the workspace cannot be read when the job is enqueued
FaultKind ==
    {"error", "corrupt", "lost", "cut", "render", "report", "crash", "cancel", "manifest"}

ASSUME StagesAssumption ==
    /\ Faults \subseteq FaultKind /\ MaxFaults \in Nat
    /\ MaxAttempts \in Nat \ {0} /\ MaxShorts \in Nat
    /\ Metas \subseteq {SpriteSheet, NoSheet} /\ Routed \subseteq BOOLEAN

VARIABLES
    world,      \* what does not change: the history, the sheet and the routes
    workspace,  \* the version on the server's disk
    job,        \* the row of the job and what the runner decoded of it
    run,        \* where the runner is in its stages
    dir,        \* the downloaded inputs in WORK_DIR/<slug>: the version of each
    bundle,     \* the inputs as the bundle stage copied them
    out,        \* WORK_DIR/<slug>/out: what was rendered or mixed
    part,       \* .uploads/<slug>/<file>.part on the server, by chunk
    published,  \* renders/<file> on the server, by chunk
    faults      \* how many failures are left

vars == <<world, workspace, job, run, dir, bundle, out, part, published, faults>>

-----------------------------------------------------------------------------
(* The workspace and its manifest *)

\* A version writes segments, a sequence of [id, scene, markers, tl, wav]
\* (markers are [n, text], tl may be NoTimeline, wav says whether the concat is
\* there), and declares and holds a soundtrack or not.
\* The markers of some segments, by segment and place in it, and what they say.
Marks(segs) == UNION {{<<i, k>> : k \in DOMAIN segs[i].markers} : i \in DOMAIN segs}
Marker(segs, p) == segs[p[1]].markers[p[2]]
Spellings(segs) == {Marker(segs, p).text : p \in Marks(segs)}

ASSUME HistoriesAssumption ==
    \A h \in Histories :
        /\ IsSequence(h) /\ h # <<>>
        /\ \A v \in ToSet(h) :
               /\ IsSequence(v.segments)
               /\ \A s \in ToSet(v.segments) :
                      /\ IsSequence(s.markers) /\ \A m \in ToSet(s.markers) : m.n \in Nat
                      /\ MadeOfTake(s.tl)
               /\ Cardinality(Spellings(v.segments)) <= MaxShorts

Nothing == [size |-> 0]
NoChunks == <<>>

Script(v) == world.history[v]
Segment(v, id) == LET s == Script(v).segments
                  IN  s[CHOOSE i \in DOMAIN s : s[i].id = id]
SegmentIds(v) == {Script(v).segments[i].id : i \in DOMAIN Script(v).segments}

\* The files version v puts in the directories the manifest lists.
Writes(v) ==
    {<<"script", "">>}
    \cup {<<"timelines", id>> : id \in {i \in SegmentIds(v) : Segment(v, i).tl # NoTimeline}}
    \cup {<<"audio", id>> : id \in {i \in SegmentIds(v) : Segment(v, i).wav}}
    \cup (IF Script(v).track THEN {<<"assets", "soundtrack">>} ELSE {})

Files == UNION {Writes(v) : v \in DOMAIN world.history}

\* Files are replaced and never deleted: the last version to write f, or 0.
ServerFile(v, f) ==
    LET writers == {u \in 1 .. v : f \in Writes(u)}
    IN  IF writers = {} THEN 0 ELSE CHOOSE u \in writers : \A w \in writers : w <= u

\* BuildManifest at version v: what there is, with its checksum.
Manifest(v) == {f \in Files : ServerFile(v, f) # 0}

\* Distinct [SHORT#n] markers as they are written.
CountShortMarkers(v) == Cardinality(Spellings(Script(v).segments))

-----------------------------------------------------------------------------
(* The job and the runner at rest *)

Stages == <<"sync", "soundtrack", "bundle", "render_long", "shorts", "upload", "complete">>
Following(stage) == Stages[(CHOOSE i \in DOMAIN Stages : Stages[i] = stage) + 1]

\* The status tells apart what the row does not: "requeued" is pending again, when every
\* claim is refused, for the video is rendering (RenderQueue.tla); "left" is claimed, by a
\* runner that is through with it.  listed: BuildJobManifest could read the workspace; else
\* the manifest is empty.
NewJob(v, listed) ==
    [status |-> "pending", version |-> v, listed |-> listed,
     cancel |-> FALSE, expected |-> CountShortMarkers(v)]

\* step counts within the stage, left has the files it has still to do (in an order that
\* nothing depends on), try counts within the file, chunk within the try; props has at most
\* one element, the input props of the video being rendered, and frames is its length.
At(stage) == [stage |-> stage, step |-> 1, left |-> {}, try |-> 0, chunk |-> 0,
              props |-> <<>>, frames |-> 0,
              warnings |-> run.warnings, artifacts |-> run.artifacts]
Idle == [stage |-> "idle", step |-> 1, left |-> {}, try |-> 0, chunk |-> 0,
         props |-> <<>>, frames |-> 0, warnings |-> {}, artifacts |-> {}]

ShortNumbers == 1 .. MaxShorts
Short(n) == <<"short", n>>
Long == <<"long", 0>>
MixedTrack == <<"mixed", 0>>
Renders == {Long} \cup {Short(n) : n \in ShortNumbers}

Init ==
    /\ world \in [history : Histories, meta : Metas, routed : Routed]
    /\ workspace = 1
    /\ \E listed \in BOOLEAN :
           /\ job = NewJob(1, listed)
           /\ \/ listed /\ faults = MaxFaults
              \/ ~listed /\ "manifest" \in Faults /\ MaxFaults > 0 /\ faults = MaxFaults - 1
    /\ run = Idle
    /\ dir = [f \in Files |-> 0]
    /\ bundle = [dir |-> dir, mixed |-> Nothing]
    /\ out = [r \in Renders \cup {MixedTrack} |-> Nothing]
    /\ part = [r \in Renders |-> NoChunks]
    /\ published = [r \in Renders |-> NoChunks]

Local == <<dir, bundle, out>>
Remote == <<part, published>>

Fault(kind) == kind \in Faults /\ faults > 0 /\ faults' = faults - 1
NoFault == UNCHANGED faults

\* FailJob counts the attempt.  When the report fails the row stays claimed: nothing reads
\* heartbeat_at.
AfterFailure(retryable) ==
    {IF retryable /\ 1 < MaxAttempts THEN "requeued" ELSE "failed"}
    \cup (IF "report" \in Faults THEN {"left"} ELSE {})

Leave == job' = [job EXCEPT !.status = "left"] /\ run' = Idle

\* The catch clause of runStages: FailJob, and the runner is free again.
FailJob(retryable) ==
    /\ \E status \in AfterFailure(retryable) : job' = [job EXCEPT !.status = status]
    /\ run' = Idle

GoOn == run' = At(Following(run.stage)) /\ UNCHANGED job

\* An awaited report that fails makes the stage throw.
ReportThen(next) ==
    \/ NoFault /\ next
    \/ Fault("report") /\ FailJob(TRUE)

\* The next action of the stage, once checkCancelled let it pass.
In(stage) == run.stage = stage /\ UNCHANGED <<world, workspace>>
Checked(stage) == In(stage) /\ ~job.cancel

-----------------------------------------------------------------------------
(* sync: every file of the manifest, verified, with one more try *)

Entries == IF job.listed THEN Manifest(job.version) ELSE {}
FileUnderWay == CHOOSE f \in run.left : TRUE
LastFile == run.left = {FileUnderWay}
NextFile == run' = [run EXCEPT !.left = @ \ {FileUnderWay}, !.try = 0] /\ UNCHANGED job

SkipSync ==
    /\ Checked("sync") /\ run.left = {}
    /\ ReportThen(GoOn)
    /\ UNCHANGED <<Local, Remote>>

\* Mutant: every mismatch is worth another try.
RefetchForever == run' = [run EXCEPT !.try = 1] /\ UNCHANGED <<job, dir>>

Mismatch ==
    /\ IF run.try = 0 THEN run' = [run EXCEPT !.try = 1] /\ UNCHANGED job
                      ELSE FailJob(TRUE)
    /\ UNCHANGED dir

\* Mutant: a file that is there already is kept.
VerifiedOnce ==
    /\ dir' = [dir EXCEPT ![FileUnderWay] =
                   IF dir[FileUnderWay] # 0 THEN dir[FileUnderWay]
                   ELSE ServerFile(job.version, FileUnderWay)]
    /\ ReportThen(IF LastFile THEN GoOn ELSE NextFile)

Verified ==
    /\ dir' = [dir EXCEPT ![FileUnderWay] = ServerFile(job.version, FileUnderWay)]
    /\ ReportThen(IF LastFile THEN GoOn ELSE NextFile)

\* checkCancelled is asked before the first try of a file only.
DownloadFile ==
    /\ In("sync") /\ run.left # {}
    /\ (run.try = 0 => ~job.cancel)
    /\ \/ ~world.routed /\ NoFault /\ FailJob(TRUE) /\ UNCHANGED dir
       \/ Fault("error") /\ FailJob(TRUE) /\ UNCHANGED dir
       \/ world.routed /\ Fault("corrupt") /\ Mismatch
       \/ /\ world.routed
          /\ IF ServerFile(workspace, FileUnderWay) = ServerFile(job.version, FileUnderWay)
             THEN Verified ELSE NoFault /\ Mismatch
    /\ UNCHANGED <<bundle, out, Remote>>

-----------------------------------------------------------------------------
(* soundtrack and bundle *)

HasScript == dir[<<"script", "">>] # 0
LocalScript == Script(dir[<<"script", "">>])
LocalTimeline(id) == Segment(dir[<<"timelines", id>>], id).tl

Soundtrack == <<"assets", "soundtrack">>
HasTrack == Soundtrack \in Files /\ dir[Soundtrack] # 0

\* The timelines of a directory, those of segments long gone included; and the narrations
\* beside them, of which the mix takes one.
TimelinesOf(d) == {f \in Files : f[1] = "timelines" /\ d[f] # 0}
NarrationsOf(d) ==
    {f \in Files : f[1] = "audio" /\ d[f] # 0 /\ <<"timelines", f[2]>> \in TimelinesOf(d)}
TimelinesHere == TimelinesOf(dir)

\* The directory of timelines does not exist: unlike a missing track, a plain error.
NoTimelines == HasTrack /\ TimelinesHere = {}

\* What ffmpeg makes of a directory: the track, as long as all the timelines, ducked under
\* a narration.
Mix(d) ==
    LET under == CHOOSE f \in NarrationsOf(d) : TRUE
    IN  [files |-> {<<f, d[f]>> : f \in {Soundtrack, under} \cup TimelinesOf(d)}]

\* Mutant: a mix that is there is not made again.
MixedOnce == IF out[MixedTrack] # Nothing THEN out[MixedTrack] ELSE Mix(dir)

Mixed == Mix(dir)

MixSoundtrack ==
    /\ Checked("soundtrack")
    /\ \/ ~HasScript /\ NoFault /\ FailJob(TRUE) /\ UNCHANGED out
       \/ HasScript /\ ~LocalScript.soundtrack /\ ReportThen(GoOn) /\ UNCHANGED out
       \/ /\ HasScript /\ LocalScript.soundtrack
          /\ \/ Fault("render") /\ FailJob(FALSE) /\ UNCHANGED out
             \/ IF HasTrack /\ NarrationsOf(dir) # {}
                THEN out' = [out EXCEPT ![MixedTrack] = Mixed] /\ ReportThen(GoOn)
                ELSE NoFault /\ FailJob(NoTimelines) /\ UNCHANGED out
    /\ UNCHANGED <<dir, bundle, Remote>>

MakeBundle ==
    /\ Checked("bundle")
    /\ \/ Fault("render") /\ FailJob(TRUE) /\ UNCHANGED bundle
       \/ bundle' = [dir |-> dir, mixed |-> out[MixedTrack]] /\ ReportThen(GoOn)
    /\ UNCHANGED <<dir, out, Remote>>

-----------------------------------------------------------------------------
(* render_long *)

\* The inputs buildInputProps accepts; others never get better.
Accepted(s) ==
    /\ <<"timelines", s.id>> \in Files /\ dir[<<"timelines", s.id>>] # 0
    /\ LocalTimeline(s.id).dur > 0
    /\ <<"audio", s.id>> \in Files /\ dir[<<"audio", s.id>>] # 0
    /\ s.scene # NoScene => ParseScene(s.scene).ok

GoodInputs ==
    LocalScript.segments # <<>> /\ \A s \in ToSet(LocalScript.segments) : Accepted(s)

\* The segments of some ids, in the order they have.
Nth(places, n) == CHOOSE i \in places : Cardinality({j \in places : j <= i}) = n
Picked(segs, ids) ==
    LET places == {i \in DOMAIN segs : segs[i].id \in ids}
    IN  [n \in 1 .. Cardinality(places) |-> segs[Nth(places, n)]]

\* The props for some of the segments of the script.
BuildInputProps(ids) ==
    LET segs == Picked(LocalScript.segments, ids)
    IN  [segments  |-> [i \in DOMAIN segs |->
                           [id    |-> segs[i].id,
                            scene |-> IF segs[i].scene = NoScene THEN NoScene
                                      ELSE ParseScene(segs[i].scene).scene]],
         timelines |-> [id \in ids |-> LocalTimeline(id)],
         audio     |-> [id \in ids |-> <<"audio", id>>],
         meta      |-> world.meta,
         subtitles |-> FALSE,
         cues      |-> [id \in ids |-> <<>>],
         single    |-> IF out[MixedTrack] = Nothing THEN NoTrack ELSE MixedTrack]

\* What a render is made of: the version of every file that went into it.
Rendered(name, ids) ==
    [name  |-> name,
     files |-> {<<f, dir[f]>> : f \in {<<"script", "">>} \cup {<<"timelines", id>> : id \in ids}}
               \cup {<<f, bundle.dir[f]>> : f \in {<<"audio", id>> : id \in ids}},
     mixed |-> bundle.mixed,
     size  |-> Cardinality(ids)]

AllIds == {s.id : s \in ToSet(LocalScript.segments)}
LongProps == run.props[1]

\* checkCancelled is asked before the stage only.
RefuseInputs ==
    /\ Checked("render_long") /\ run.props = <<>>
    /\ ~(HasScript /\ GoodInputs)
    /\ NoFault /\ FailJob(~HasScript)
    /\ UNCHANGED <<Local, Remote>>

PrepareLong ==
    /\ Checked("render_long") /\ run.props = <<>>
    /\ HasScript /\ GoodInputs
    /\ NoFault
    /\ \E props \in {BuildInputProps(AllIds)} :
           run' = [run EXCEPT !.props = <<props>>, !.frames = VideoFrames(props)]
    /\ UNCHANGED <<job, Local, Remote>>

\* The frame being drawn, from 0.
Frame == run.step - 1
Drawing == run.stage = "render_long" /\ run.props # <<>>

FramesLeft == Frame < run.frames

RenderFrame ==
    /\ In("render_long") /\ Drawing /\ FramesLeft
    /\ \/ Fault("render") /\ FailJob(TRUE)
       \/ /\ NoFault
          /\ IF \A i \in OnScreen(LongProps, Frame) : Draws(LongProps, i)
             THEN run' = [run EXCEPT !.step = run.step + 1] /\ UNCHANGED job
             ELSE FailJob(TRUE)
    /\ UNCHANGED <<Local, Remote>>

FinishLong ==
    /\ In("render_long") /\ Drawing /\ Frame = run.frames
    /\ out' = [out EXCEPT ![Long] = Rendered(Long, AllIds)]
    /\ NoFault /\ GoOn
    /\ UNCHANGED <<dir, bundle, Remote>>

-----------------------------------------------------------------------------
(* shorts *)

\* planShorts: a short is cut for every number among the markers, and each number has to
\* appear after all the smaller ones, from one on.
Numbers(segs) == {Marker(segs, p).n : p \in Marks(segs)}
Earlier(p, q) == p[1] < q[1] \/ (p[1] = q[1] /\ p[2] < q[2])
InSequence(segs) ==
    \A p \in Marks(segs) :
        /\ Marker(segs, p).n # 0
        /\ \A n \in 1 .. Marker(segs, p).n - 1 :
               \E q \in Marks(segs) : Marker(segs, q).n = n /\ Earlier(q, p)

\* Mutant: a marker counts once for every segment that bears it.
CutsRepeated(segs) == Cardinality({<<p[1], Marker(segs, p).n>> : p \in Marks(segs)})
Cuts(segs) == Cardinality(Numbers(segs))
CutIds(n) == {s.id : s \in {t \in ToSet(LocalScript.segments) :
                               \E m \in ToSet(t.markers) : m.n = n}}

\* Also: as many shorts as the server has counted.
Planned == InSequence(LocalScript.segments) /\ Cuts(LocalScript.segments) = job.expected

RefuseShorts ==
    /\ Checked("shorts") /\ run.step = 1
    /\ ~Planned
    /\ NoFault /\ FailJob(FALSE)
    /\ UNCHANGED <<Local, Remote>>

Warn(n) == run' = [run EXCEPT !.step = n + 1, !.warnings = run.warnings \cup {n}]

\* A short that fails, or whose last report fails, is a warning and no more.
RenderShort ==
    /\ Checked("shorts") /\ Planned
    /\ run.step <= job.expected
    /\ LET n == run.step
           done == out' = [out EXCEPT ![Short(n)] = Rendered(Short(n), CutIds(n))]
       IN  \/ RendersThrough(BuildInputProps(CutIds(n)))
              /\ done /\ NoFault /\ run' = [run EXCEPT !.step = n + 1]
           \/ ~RendersThrough(BuildInputProps(CutIds(n))) /\ NoFault /\ Warn(n) /\ UNCHANGED out
           \/ Fault("render") /\ Warn(n) /\ UNCHANGED out
           \/ Fault("report") /\ Warn(n) /\ done
    /\ UNCHANGED <<job, dir, bundle, Remote>>

FinishShorts ==
    /\ In("shorts") /\ Planned
    /\ run.step = job.expected + 1
    /\ NoFault /\ GoOn /\ UNCHANGED <<Local, Remote>>

-----------------------------------------------------------------------------
(* upload: every video of out/, in chunks, finalized with its checksum.      *)
(* run.artifacts is what collectRenderFiles lists, run.left what is not sent. *)

Chunks(content) == [k \in 1 .. content.size |-> <<content, k>>]

RenderFiles == {r \in Renders : out[r] # Nothing}

FileSent == CHOOSE r \in run.left : TRUE
Content == out[FileSent]

CollectRenderFiles ==
    /\ Checked("upload") /\ run.artifacts = {}
    /\ NoFault
    /\ IF RenderFiles = {} THEN FailJob(TRUE)
       ELSE run' = [run EXCEPT !.artifacts = RenderFiles, !.left = RenderFiles] /\ UNCHANGED job
    /\ UNCHANGED <<Local, Remote>>

\* What a chunk that was written in part leaves.
Torn == <<Nothing, 0>>

\* handleChunk: the file is opened without truncating it, so what lies beyond
\* the chunk stays.
WriteChunk(r, k, cell) ==
    part' = [part EXCEPT ![r] = [i \in 1 .. Larger(k, Len(part[r])) |->
                                    IF i = k THEN cell ELSE part[r][i]]]

SendChunk ==
    /\ Checked("upload") /\ run.artifacts # {}
    /\ run.chunk < Content.size
    /\ \/ /\ world.routed /\ run.chunk <= Len(part[FileSent])
          /\ \/ /\ WriteChunk(FileSent, run.chunk + 1, <<Content, run.chunk + 1>>)
                /\ \/ NoFault /\ run' = [run EXCEPT !.chunk = run.chunk + 1] /\ UNCHANGED job
                   \/ Fault("lost") /\ FailJob(TRUE)
             \/ WriteChunk(FileSent, run.chunk + 1, Torn) /\ Fault("cut") /\ FailJob(TRUE)
       \/ /\ ~world.routed \/ run.chunk > Len(part[FileSent])
          /\ NoFault /\ FailJob(TRUE) /\ UNCHANGED part
       \/ Fault("error") /\ FailJob(TRUE) /\ UNCHANGED part
    /\ UNCHANGED <<Local, published>>

\* handleFinalize: the part is written over the file when size and checksum agree, and
\* is wiped, then or when they do not.
Agrees(r, content) == part[r] = Chunks(content)

\* Mutant: the part is published without its checksum.
FinalizeUnchecked(r, content) ==
    /\ part' = [part EXCEPT ![r] = NoChunks]
    /\ published' = [published EXCEPT ![r] = part[r]]

HandleFinalize(r, content) ==
    /\ part' = [part EXCEPT ![r] = NoChunks]
    /\ published' = IF Agrees(r, content) THEN [published EXCEPT ![r] = part[r]] ELSE published

\* os.WriteFile truncates the file, then writes it: it may stop anywhere, and the part is
\* still there.
WriteStops(r, content) ==
    /\ Agrees(r, content)
    /\ \E n \in 0 .. content.size :
           published' = [published EXCEPT ![r] = SubSeq(Chunks(content), 1, n)]
    /\ UNCHANGED part

\* os.Remove fails, and nobody looks.
PartStays(r, content) ==
    /\ UNCHANGED part
    /\ published' = IF Agrees(r, content) THEN [published EXCEPT ![r] = part[r]] ELSE published

\* A try that ended without the file in place is followed by another from zero.
TryAgain ==
    IF run.try < 2 THEN run' = [run EXCEPT !.try = run.try + 1, !.chunk = 0] /\ UNCHANGED job
    ELSE FailJob(TRUE)

LastSent == run.left = {FileSent}
FileDone == IF LastSent THEN GoOn
            ELSE /\ run' = [run EXCEPT !.left = @ \ {FileSent}, !.try = 0, !.chunk = 0]
                 /\ UNCHANGED job

Finalize ==
    /\ In("upload") /\ run.artifacts # {}
    /\ run.chunk = Content.size
    /\ \/ /\ HandleFinalize(FileSent, Content)
          /\ \/ Agrees(FileSent, Content) /\ ReportThen(FileDone)
             \/ ~Agrees(FileSent, Content) /\ NoFault /\ TryAgain
             \/ Fault("lost") /\ TryAgain
       \/ WriteStops(FileSent, Content) /\ Fault("cut") /\ TryAgain
       \/ /\ PartStays(FileSent, Content) /\ Fault("cut")
          /\ IF Agrees(FileSent, Content) THEN FileDone ELSE TryAgain
       \/ Fault("error") /\ TryAgain /\ UNCHANGED Remote
    /\ UNCHANGED Local

-----------------------------------------------------------------------------
(* The job *)

\* ClaimJob, of a job whose video is queued.
Claim ==
    /\ run.stage = "idle" /\ job.status = "pending"
    /\ job' = [job EXCEPT !.status = "claimed"]
    /\ run' = [Idle EXCEPT !.stage = "sync", !.left = Entries]
    /\ UNCHANGED <<world, workspace, Local, Remote, faults>>

\* CompleteJob: the server verifies every reported checksum against its file.  It
\* has completed the row before: when they differ the video stays where it is and
\* the FailJob that follows finds no claim.  Such a job is "unverified" here.
CompleteJob ==
    /\ In("complete")
    /\ \/ /\ NoFault
          /\ job' = [job EXCEPT !.status =
                IF \A r \in run.artifacts : published[r] = Chunks(out[r])
                THEN "completed" ELSE "unverified"]
          /\ run' = [run EXCEPT !.stage = "idle"]
       \/ Fault("error") /\ FailJob(TRUE)
    /\ UNCHANGED <<Local, Remote>>

\* In the middle of a call that does not ask whether the job is cancelled.
MidCall ==
    \/ run.stage \in {"idle", "complete"}
    \/ run.stage = "sync" /\ run.try = 1
    \/ Drawing
    \/ run.stage = "upload" /\ run.artifacts # {} /\ run.chunk = Content.size

\* Throws JobCancelled: the runner leaves the job and tells nobody.
DropJob ==
    /\ job.cancel /\ ~MidCall
    /\ Leave
    /\ UNCHANGED <<world, workspace, Local, Remote, faults>>

RequestCancel ==
    /\ run.stage # "idle" /\ ~job.cancel
    /\ Fault("cancel")
    /\ job' = [job EXCEPT !.cancel = TRUE]
    /\ UNCHANGED <<world, workspace, run, Local, Remote>>

\* The process ends, also of a progress report that fails during a render: nobody
\* awaits it, and its rejection is nobody's.
Crash ==
    /\ run.stage # "idle"
    /\ \/ Fault("crash")
       \/ (Drawing \/ run.stage = "shorts") /\ Fault("report")
    /\ Leave
    /\ UNCHANGED <<world, workspace, Local, Remote>>

\* The script or the takes are written again, in the middle of a job or not.
Rewrite ==
    /\ workspace < Len(world.history)
    /\ workspace' = workspace + 1
    /\ UNCHANGED <<world, job, run, Local, Remote, faults>>

\* RequestRerender: a new job for the video, from final_review, where only a job that was
\* verified takes it.
Enqueue ==
    /\ job.status = "completed" /\ job.version < workspace
    /\ \/ NoFault /\ job' = NewJob(workspace, TRUE)
       \/ Fault("manifest") /\ job' = NewJob(workspace, FALSE)
    /\ run' = Idle
    /\ UNCHANGED <<world, workspace, Local, Remote>>

Runner ==
    \/ Claim \/ SkipSync \/ DownloadFile \/ MixSoundtrack \/ MakeBundle
    \/ RefuseInputs \/ PrepareLong \/ RenderFrame \/ FinishLong
    \/ RefuseShorts \/ RenderShort \/ FinishShorts
    \/ CollectRenderFiles \/ SendChunk \/ Finalize \/ CompleteJob \/ DropJob

Next == Runner \/ RequestCancel \/ Crash \/ Rewrite \/ Enqueue

Spec == Init /\ [][Next]_vars

\* The runner's loop goes on as long as the process runs.
FairSpec == Spec /\ WF_vars(Runner)

-----------------------------------------------------------------------------
(* Properties of the job *)

\* A file of the workspace is there as of version job.version.
FreshDir == [f \in Files |-> ServerFile(job.version, f)]

Fresh(content) ==
    /\ \A p \in content.files : p[2] = ServerFile(job.version, p[1])
    /\ Script(job.version).soundtrack => content.mixed = Mix(FreshDir)

\* The first chunks of one content.
Beginning(chunks) ==
    LET content == chunks[1][1]
    IN  Len(chunks) <= content.size /\ chunks = SubSeq(Chunks(content), 1, Len(chunks))
Whole(chunks) == chunks = Chunks(chunks[1][1])

\* A completed job has published a long video, and every short it does not warn
\* about, made of exactly the versions of script, timelines and narration that
\* its manifest lists, and of the mix of its own soundtrack - whatever older jobs left in
\* the working directory (stages/sync.ts, soundtrack.ts, shorts.ts, upload.ts).  But for one
\* thing: a job whose script declares no soundtrack plays the mix of an older one that did,
\* as render-long.ts:80-82 takes the out/mixed.wav that is there.
ArtifactsAreThisJobs ==
    job.status = "completed" /\ job.listed =>
        \A r \in {Long} \cup {Short(n) : n \in (1 .. job.expected) \ run.warnings} :
            published[r] # NoChunks /\ Fresh(published[r][1][1])

\* A file under renders/ is one render from its beginning, never a short new one in front
\* of the tail of a longer old one: what the chunk handler leaves beyond a chunk is caught
\* when the upload is finalized.  It may be cut short, over a whole one of an older job, when
\* the write stops (renders_upload.go:159 writes the file in its place); but not when the
\* job is completed, as the runner sends again what it has no answer for, and the server
\* compares every file.
PublishedIsWhole ==
    \A r \in Renders : published[r] # NoChunks =>
        /\ Beginning(published[r])
        /\ job.status = "completed" => Whole(published[r])

\* The runner comes to an end of every job it has claimed, in whatever order things fail:
\* every try is bounded.  What becomes of the row is another matter: it stays claimed when
\* the runner is "left" with it - by a crash, a cancelled job, a report that fails - and pending
\* when it is requeued, for ever (ClaimEnds and RequeuedIsRetried of RenderQueue.tla).
JobEnds == job.status = "claimed" ~> job.status # "claimed"

\* What stage handlers refuse whatever happens around them.
SoundScript(v) ==
    LET segs == Script(v).segments IN
    /\ segs # <<>>
    /\ \A i \in DOMAIN segs :
           segs[i].tl.dur > 0 /\ segs[i].wav
           /\ (segs[i].scene # NoScene => ParseScene(segs[i].scene).ok)
    /\ InSequence(segs)
    /\ CountShortMarkers(v) = Cardinality(Numbers(segs))
    /\ Script(v).soundtrack => Script(v).track

\* A job on whole inputs in which nothing fails completes, given the routes and the
\* sprite sheet the runner was written for: the server's count of shorts and the
\* runner's, its checksums and the server's, the parse of a scene before and after
\* its defaults are filled in all agree.  The code as it is has neither: its routes
\* are keyed by the slug where the runner sends the id of the video (main.go:90,
\* stages/sync.ts:86), and render-long.ts:90 passes an empty sheet.
CleanJobCompletes ==
    job.status \in {"failed", "requeued", "left", "unverified"} =>
        \/ ~world.routed \/ world.meta = NoSheet
        \/ faults < MaxFaults \/ workspace # job.version \/ ~SoundScript(job.version)
=============================================================================
