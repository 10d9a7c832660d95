# Guigas Studio in TLA+

Guigas Studio turns a blog post into a long video and several shorts: a script is
generated and reviewed, its segments are recorded in the browser, the recording is
cut into avatar timelines, a runner on another machine renders it, and the result
is packaged and ticked off platform by platform. This directory is a TLA+ model of
that whole way, the TLC configurations that check it on small instances, and TLAPS
proofs of what holds for instances of any size: every safety property but one that TLC
finds to hold is a theorem as well (section 9).

    tlc -workers 2 -config MCQueueSerial.cfg MCRenderQueue.tla
    tlapm RenderQueue_proofs.tla

1. [The system](#1-the-system)
2. [Modules](#2-modules)
3. [The render queue](#3-the-render-queue)
4. [The release](#4-the-release)
5. [The recording](#5-the-recording)
6. [Rendering a job](#6-rendering-a-job)
7. [Five parts](#7-five-parts)
8. [The studio](#8-the-studio)
9. [What is proved](#9-what-is-proved)
10. [Where code and comments disagree](#10-where-code-and-comments-disagree)
11. [Not modelled](#11-not-modelled)
12. [What remains](#12-what-remains)

Paths below are relative to `src/`; `internal/` is short for `backend/internal/`.

## 1. The system

One Go server (`backend/cmd/api/main.go`) serves Connect RPCs, plain HTTP uploads
and an SSE stream. Its state is a PostgreSQL database, a workspace directory per
video (a git repository whose binaries are ignored) and an in-memory event hub.
Runners (`runner/`) are daemons that poll it; browsers (`frontend/`) record and
review. There is no lock across any two of these: **the status column of `videos`
is the only coordination**, and every handler that changes it follows the same
pattern, read the status, check it, work, then `UPDATE ... WHERE id = $1` whatever
the status has become.

| Component | State | Operations | Hard behaviour | What makes it correct |
| --- | --- | --- | --- | --- |
| `internal/domain/videostate` | thirteen states and their edges | `CanTransition`, `Transition` | checked far from where the update happens | every status change is an edge |
| `services/video_service.go`, scenes | `videos.status`, `jobs` | `ApproveScenes`, `RequestRerender` | check and transaction apart | one pending job per video, and only while queued or rendering |
| `services/job_service.go`, `jobs_queue.go`, `queries/jobs.sql` | `jobs` (status, claimed_by, attempts, run_after, cancel_requested) | `ClaimJob`, `CompleteJob`, `FailJob`, `UpdateProgress` | statements without a transaction, compensation, retries, late requests | one holder per job, attempts bounded, settled is final, queued gets rendered |
| `runner/src/run.ts`, `index.ts` | the job in hand | poll, stages, report | stops at any point, drops cancelled jobs | its report is accepted, nothing it holds is lost |
| `services/release_builder.go` | `releases/`, `release_checklist` rows | `Build` | file by file under a possible re-render, fails half-way | packages of one cut, a package for each row |
| checklist (`SetChecklistItemPublished`) | `release_checklist.published`, status | toggle, close | READ COMMITTED count, stale status | released exactly when all is published, and for good |
| `artifacts/observer.go` | debounce timers | fsnotify events, `ProcessScriptPath` | timers on other goroutines, stale update | never undoes an approval |
| script review (`UpdateScript`, `ApproveScript`, `RejectScript`, `GenerateScript`) | `script.json`, status | edit, approve, reject, generate | shares its file with the observer and the generator | the approved script is the one reviewed |
| `watcher/rss.go`, `workspace/scaffold.go` | `rss_items`, `videos` | `Poll`, scaffold | marked seen before created, two pollers | one video per post, none lost |
| `upload/upload.go`, `frontend/src/lib/uploadClient.ts` | `.part` files, `takes` | probe, chunk, delete | resumed, concurrent and repeated chunks | a published take is the bytes the client sent |
| `services/recording/concat.go` | `full.wav`, manifest, in-flight set | `Run` after each take | swallowed triggers, missing blendshapes | runs once everything is there |
| `timeline/service.go` | `timelines/*.json` | `Run` after concat | no guard, stale files skipped | timelines of the takes that count |
| `artifacts/renders_upload.go`, runner `stages/upload.ts` | `.uploads/*.part`, `renders/` | chunk, finalize | resumed uploads, route names | the file has the reported hash |
| `events/hub.go`, `http.go`, `frontend/src/lib/sse.ts` | subscribers, backlog, sequence | subscribe, publish, replay | slow consumers, reconnects | no event missed silently |
| runner stages (`runner/src/stages/`) | working directory of the video | sync, soundtrack, long, shorts, upload | files of earlier jobs, a workspace that changes meanwhile | what is published is whole and of this job |
| studio recorder (`useSegmentRecorder.ts`, `faceLandmarker.worker.ts`, `micCapture.ts`) | the take in hand, batches under way | start, stop, flush, fall back to the CPU | three threads, late messages, a second start | a pair is one take, on one clock |
| pages (`frontend/src/pages/`, `hooks/useStudioEvents.ts`) | query cache, draft, decisions | read, offer, call | stale queries, events that re-read nothing | no stage is a dead end for who goes on |
| Remotion kit (`remotion-kit/src/`) | none | draw a frame | rounding, boundaries, defaults filled in twice | the cut shows what the preview showed |
| pure algorithms (`timeline/build.go`, `avatar/states.go`, `recording/stateMapping.ts`, `remotion-kit/src/subtitles`, `runner/src/script/shorts.ts`) | none | | boundaries, rounding | ordered, gap-free, within the duration |

How they interact: the observer, the watcher and the RPCs move the status along the
script states; each finished take calls back (`SetAfterUpsert`) into concat and then
timeline on a new goroutine; `ApproveScenes` enqueues a job; a runner claims it,
downloads its inputs, renders, uploads and completes it; `ApproveFinalCut` runs the
release builder inside the request; the checklist closes the video. Every status
change but those of the takes publishes to the hub; browsers hear of it, but read again only
when a page is opened, looked at again, or has called (section 8).

`PROJECT.json` lists the hazards at their lines with the properties that cover them.

## 2. Modules

| Module | What it is |
| --- | --- |
| `VideoState` | the states and edges of `videostate` |
| `VideoLifecycle` | abstract: one status that moves along edges only |
| `RenderQueue` | jobs, JobService, the enqueueing RPCs, runners |
| `Release` | ApproveFinalCut, the release builder, the checklist, re-renders |
| `Recording` | the studio page's uploads, the upload handler, concat, timeline |
| `Expressions`, `Timelines` | operators: what a face says, what Build makes of a take |
| `Cues`, `Avatar`, `Scenes`, `SceneViews`, `Playback` | operators: what the kit draws at a frame |
| `RenderStages` | one runner through the stages of its job; the manifest and the upload handler |
| `RenderedFrames` | properties of the frames that job draws |
| `Intake` | feed, workspace, script generation, observer, review |
| `ScriptDraft` | the editing of a script and the two copies of its rules |
| `Capture` | a take before the camera: page, worker, worklet |
| `TakeUpload` | the chunks of a take, client and server |
| `SegmentAssets` | the playing of a segment while it is recorded again |
| `EventHub` | the SSE broker, its endpoint and its reader |
| `Studio` | one video and one browser tab, from script to release, on `EventHub` |
| `MCRenderQueue`, `MCRelease`, `MCRenderStages`, `MCParts` | symmetry, inputs and the sets of all faults, for TLC |
| `RenderQueue_proofs` | the queue: what holds always; when no request outlives its runner; with one tab as well |
| `Release_proofs` | the release: what holds always; with one tab |
| `Recording_proofs` | the recording: what holds always; with one studio page |
| `RenderStages_proofs` | the stages of a job, and which segment and scene its frames show |
| `RenderedFrames_proofs` | the avatar, the subtitles and the diffs of those frames |
| `Pages_proofs` | `TakeUpload`, `SegmentAssets`, `ScriptDraft` and `Capture` |
| `Intake_proofs` | what becomes of a post |
| `Studio_proofs` | the events of a video and the page that listens (`EventHub`, `Studio`) |

One part is a step of another: the upload that `Recording` takes as one step is opened
by `TakeUpload`, the pair that `TakeUpload` sends is made in `Capture`; the job that a
runner of `RenderQueue` works off in one step is opened by `RenderStages`; `Studio` has
one step for each of them and adds what a person sees; what happens before `Recording`
begins is `Intake`.

`VideoLifecycle` is what the queue and the release promise to the rest of the system:
each instantiates it with its own status (`INSTANCE VideoLifecycle WITH status <-
video[v]` in the queue) and `FollowsLifecycle` is a PROPERTY of the runs in which
the code keeps it.

Operators introduced by a comment that begins with `Mutant:` are not part of a
specification. They are plausible bugs (a dropped guard, an off-by-one, a swapped
order), kept beside the operator they would replace; `PROJECT.json` says which
property notices which. A property that no such bug breaks would say nothing.

**Granularity.** One action per database round trip (or file copy) of a request.
`handler[t]` is the request client `t` has in flight: its operation, the point it has
reached, and what it has read so far. Single statements and transactions are atomic,
as they are in PostgreSQL; the only transaction whose isolation level matters,
`SetChecklistItemPublished`, has its update, its count and its commit as three steps.

**Faults** are a constant, a set of names, so that a run can say which failures it
admits. `abort` stands for everything that ends a handler between two round trips:
the request context cancelled, the database gone, the server killed. The process
keeps nothing of a request in memory, so a restart is an abort of every request.

## 3. The render queue

`RenderQueue` keeps `videos.status`, the `jobs` table, the requests and the runners.

| Code | Model |
| --- | --- |
| `ApproveScenes`, `RequestRerender` up to the payload | `ApproveScenes`, `RequestRerender` |
| their transactions | `ApproveScenesCommit`, `RequestRerenderCommit` (both `ArmRender`) |
| `jobs.sql` ClaimJob, one `UPDATE ... SKIP LOCKED` | `ClaimJob` (`Runnable`, oldest first) |
| `GetVideo` and the check in `JobService.ClaimJob` | `ClaimLoadVideo` |
| its transaction; `releaseToPending` | `ClaimCommit`, `ClaimTxFails`; `ClaimRelease` |
| `loadOwnedClaimed` | `LoadOwnedClaimed`: the owner a report presents is the one just read |
| `CompleteJob`, `finalizeRenderArtifacts` | `CompleteUpdate`, `FinalizeVerify`, `FinalizeCommit` |
| `FailJob`, `FailJobTerminal` | `FailUpdate` (`AfterFailure`) |
| `runStages` ends | `RunnerCompletes`, `RunnerFails`, `RunnerDrops` |
| the runner's process ends, or a payload does not decode | `RunnerStops` |
| a runner's call fails while the server works on | `Disconnect`: the request moves to a zombie slot |
| the script and recording side | `Prepare`: its edges, in one step each |
| checklist and failed builds | `Review`, in one step; `Release` has the parts |

`run_after` is the boolean `due`; `BackoffElapses` makes it true. An empty poll
changes nothing and is no action. `heartbeat_at` and progress are left out: no
statement reads them. `MarkCancelRequested` has no RPC yet; the fault `cancel` is
its use by tests or by hand. `NoRow` stands for ids not inserted yet, so `MaxJobs`
bounds the rows a run can create.

`Review` and `Prepare` take effect in one step of a user or of the pipeline. Their
own races are the subject of `Intake`, `Recording`, `Studio` and `Release`; here they
only provide the statuses the queue reads.

| Run | Bounds | Shows |
| --- | --- | --- |
| `MCQueueSerial` | 2 videos, 1 tab, 2 runners, 2 jobs, every fault but `abort` | `JobMatchesVideo`, `QueuedIsRunnable`, `WorkerHoldsClaim`, `ReviewedWasRendered`, `SettledIsFinal`, `FollowsLifecycle`, `QueuedIsReviewed` |
| `MCQueueZombies` | 1 video, 1 tab, 2 runners, 2 late requests, 2 jobs, all faults | `OneHolder`, `AttemptsBounded` |

Two jobs are enough for one to be re-claimed while another waits, and for a video to
be rendered a second time; two runners for every race over one claim; two attempts
(`max_attempts` is 3 in the schema) for one requeue and one exhaustion; two late
requests for a late claim and a late report of the same job.

What holds needs an explanation in each case:

- `OneHolder` and `AttemptsBounded` hold even with late requests, although reports
  present whatever owner they read and `ResetToPending` checks nothing: a claim that
  fails is the only one that resets, and the job is in its hands until then.
- `SettledIsFinal`, `WorkerHoldsClaim` and `ReviewedWasRendered` need that no request
  outlives its runner (`Zombies = {}`). Otherwise: a runner's `CompleteJob` times out
  on the client, the runner reports a failure, claims the same job again, and the
  first `CompleteJob` then finds the job claimed under the same name and completes
  it; if the new claim is refused it even puts the completed job back into the queue.
  That is all they need: section 9 proves them for any number of tabs and every fault.
- `JobMatchesVideo`, `QueuedIsRunnable` and `FollowsLifecycle` also need one tab, and
  `QueuedIsRunnable` that no request is cut short between two of its statements.
  Section 9 proves them from that; section 10 shows what happens without.
- `QueuedIsReviewed` says that a queued video comes to its final review *or* a failure
  has left its mark (`Setback`): a video rendering with its job in nobody's hands
  (`Abandoned`), a cancelled job, a claim being taken back. The exception is as wide as
  the code makes it. After one retryable failure a job is never rendered again, it
  stays at the head of the queue, and each poll claims and releases it, so nothing is
  promised to the video behind it either.

Fairness (`FairSpec`): each handler, each runner and each backoff timer that can go
on does. The Go scheduler, the runner's polling loop and the clock justify these. No
user is fair, and nothing else ever picks a job up.

Deadlock is not checked for the queue: when every video is released and nobody acts,
the system rests.

## 4. The release

`Release` follows one video from its queued render to `released`. It keeps the
status, the checklist rows, and which cut (render number) each file of `renders/` and
each package of `releases/` comes from.

| Code | Model |
| --- | --- |
| `ApproveFinalCut` up to the recorded approval | `ApproveFinalCut` |
| `Build`: its own check of the status | `BuildLoad` |
| long render, thumbnail, metadata, subtitles | `CopyLong` |
| one short; its row; a platform's row | `CopyShort`; `UpsertChecklistItem` |
| `workspace.Commit` and the answer | `BuildCommit` |
| any step of `Build` returns an error | `BuildFails`, then `BlockVideo` |
| `SetChecklistItemPublished`: GetVideo; update; count; commit | `SetChecklistItemPublished`; `ToggleUpdate`; `ToggleCount`; `ToggleCommit` |
| `RequestRerender` | `RequestRerender`, `RerenderCommit` |
| `ClaimJob` and `CompleteJob` as the release sees them | `RenderStarts`, `RenderDone` |
| `renders_upload.go`, a finalize that verifies | `RenderUploaded` |
| from blocked back to queued | `Rearm`: the whole way through script and scenes, as one step |

Items are numbered in the order in which `Build` seeds their rows: the shorts, then
`youtube`, then the text platforms (their texts are not files of a cut). The number
of shorts is a constant: a script that changes it between two cuts is left out, and
so are two jobs of one video at once, which `RenderQueue` is about. The transaction
of a toggle is READ COMMITTED, PostgreSQL's default and the one `pool.Begin` asks for:
what it writes is published by `ToggleCommit`, its count sees what others have
committed, and the row it updated stays locked in between (`Locked`).

`RenderUploaded` models the handler as its own tests wire it. In `cmd/api/main.go`
the chunk route binds the path value `videoSlug` while the handler reads `slug`, so
that there a chunk is refused; `RenderStages` checks both (section 6).

| Run | Bounds | Shows |
| --- | --- | --- |
| `MCReleaseOneTab` | 1 tab, 3 items, 3 cuts, all faults | `ReleasedIsFinal`, `ReleasedWhenComplete`, `PackagesOfOneCut`, `FollowsLifecycle` |
| `MCReleaseTwoTabs` | 2 tabs, 2 items, 2 cuts, builds fail | `SeededHasPackage`, `ReleasedWasBuilt`, `TicksSurvive`, `ApprovalSettles` |

Three items are one of each kind (a short, YouTube, a text platform); two items leave
out the text platform, whose row needs no file. Two cuts let a file be replaced under
a build, three let a release be rebuilt twice. Two tabs give every race between an
approval, a toggle and a re-render. `FairSpec` asks that a request, once received, is
served; neither users nor runners need act. Deadlock is checked in these runs:
somebody can always press a button.

`PackagesOfOneCut` is about a build that has seeded every row and commits: its
packages come from one render. It holds for one tab, whatever fails and however often
the release is rebuilt (proved in section 9); with a second tab a re-render may replace files under the
build. `ApprovalSettles` needs that the request is not cut short: `abort` is left out
of the run that checks it (section 10).

## 5. The recording

`Recording` follows one video from `script_approved` to its scenes. A recording is
numbered by the order in which it was made; `take`, `file`, `fullWav` and `manifest`
say which recording each segment has in the `takes` table, in `audio/`, in
`audio/full.wav` and in `recording.manifest.json`.

| Code | Model |
| --- | --- |
| `doStop` of the studio page: audio, then blendshapes, the client's one retry | `Record`, `NextUpload`, `UploadFails`, `AfterFailure` |
| `receiveChunk` up to the rename, from there to the upsert | `ReceiveChunk`; `UpsertTake`, `UpsertFails` |
| `maybeEnterRecording`: status; count; update | `EnterLoad`; `EnterCount`; `EnterRecording`, `EnterFails` |
| `afterUpsert`, twice for the take that starts the recording | `TriggerEntered`; `Trigger`, `AnswerLost` |
| `deleteTake`: rows; files | `DeleteTakes`; `RemoveFiles` |
| concat `Run` and `run`: inFly; status; takes; full.wav; manifest; update; deferred delete | `ConcatRun`; `ConcatLoad`; `ConcatList`; `ConcatWavs`; `WriteManifest`; `ConcatAdvance`; `ConcatLeave` |
| concat `fail` | `ConcatFail` |
| timeline `Run`: status; each segment; update | `TimelineLoad`; `SkipSegment`, `BuildSegment`, `WriteTimeline`; `AllBuilt`, `TimelineAdvance` |
| timeline `block` | `TimelineBlock` |
| a file or a query fails under a goroutine | `DiskFails`, `TimelineCutShort`; `QueryFails` |
| the server restarts | `Restart`: requests, goroutines and `inFly` are gone |
| observer, scene approval, a blocked video approved again | `MoveOn` |

Requests and goroutines take one step per database round trip, and goroutines one per
group of files. Every failure counts against `MaxFaults`. `Workers` are the goroutines
that may run at once: a trigger waits when none is free, which a real `go` statement
never does, so that the bound only delays them. A page may have looked at the
status long ago, so `Record` does not read it. The script keeps its segments. What a
WAV or a sidecar contains is left out, and so is the order in which `concatWavs` reads
the files of one run; what a timeline says is in `Timelines`. The dev page
`/dev/recorder`, which alone offers `retryUploads`, is left out as well: it would send the pair it holds under
whatever segment id it shows by then.

| Run | Bounds | Shows |
| --- | --- | --- |
| `MCRecording` | 1 page, 2 goroutines, 2 segments, 3 takes, 1 failure | `OneConcat`, `StageHasArtifacts`, `TakeHasFile`, `ManifestNotAhead`, `VoiceIsAttended` |

Two segments are the least for which some are recorded and some are not, and the third
take records one again while concat or the timeline service is at work; each take
starts two goroutines or three. One failure is one lost upload or answer,
one bad file, one failing query or one restart, at any point.

- `OneConcat` is what the in-memory set is for; without it, two runs would write the
  same temporary file.
- `StageHasArtifacts` holds although `voice_processing` and `scenes_pending` are set
  whatever the status and the takes have become: artifacts are replaced, never removed.
  A timeline counts as soon as its file exists; `os.WriteFile` may leave it cut short.
- `TakeHasFile` and `ManifestNotAhead` need one page, and no more (section 9): with two, one may publish a file
  that the other's discard removes before the row is written, or an older take of a
  segment over a newer one.
- `ManifestNotAhead`: takes recorded between the listing and the copy are in `full.wav`
  under the hash of the older take. The opposite, a hash of audio that `full.wav` lacks,
  does not occur.
- `VoiceIsAttended` is stated as an invariant and not as a liveness property because
  what it promises is custody: whoever sets `voice_processing` is on the way to the
  timeline service, so that no further upload is needed. After a restart nobody
  takes the video up; `outage` excludes that case.

Not promised, and visible in the model: a run in flight swallows the trigger of a take
recorded after it listed the takes, and a complete video may stay in `recording`; a
video that was blocked and approved again has takes already, so the count is not one
and it never returns to `recording`; two goroutines may be in the timeline service at
once, so that `scenes_pending` or `blocked` is set again after the video has moved on,
although `timeline/service.go:52` says "exactly once", and
`docs/tasks/03-voz-e-avatar/S3-04-avatar-timeline-generator.md:61` too; a
segment recorded again keeps its old sidecar and timeline.

## 6. Rendering a job

`RenderStages` follows one runner through the jobs of one video: what it downloads,
mixes, bundles, draws and uploads, and the working directory that no job cleans. The
content of a file is the version of the workspace that last wrote it, a file under way
is a sequence of chunks, and a frame is what the operators of the kit make of it.

| Code | Model |
| --- | --- |
| `stages/sync.ts`: manifest, skip, download, verify, again | `SkipSync`, `DownloadFile` |
| `stages/soundtrack.ts` | `MixSoundtrack` (`Mix`) |
| `stages/bundle.ts` | `MakeBundle` |
| `stages/render-long.ts`: inputs; frames; the file | `PrepareLong`, `RefuseInputs`; `RenderFrame`; `FinishLong` |
| `script/shorts.ts`, `stages/shorts.ts` | `RefuseShorts`, `RenderShort`, `FinishShorts` |
| `stages/upload.ts`; `renders_upload.go` | `CollectRenderFiles`, `SendChunk`, `Finalize`; `WriteChunk`, `HandleFinalize`, `WriteStops`, `PartStays` |
| claim, failure and its report, completion | `Claim`, `FailJob` (`AfterFailure`), `CompleteJob` |
| cancellation, the process | `RequestCancel`, `DropJob`, `Crash` (`Leave`: the row stays claimed) |
| the script or the takes written again; another job | `Rewrite`; `Enqueue` |

What a frame shows is computed by `Playback` (compositions, offsets, layouts), `Avatar`
(mouth and body, cell of the sheet), `Scenes` and `SceneViews` (grammar and components)
and `Cues` (subtitles), and the timelines it draws are made by `Timelines` and
`Expressions` from the takes. These are operators, not state machines: the stages call
them, so that the properties of `RenderedFrames` are about the frames of a job and not
about arbitrary inputs. Times are whole milliseconds, compared with frames by
multiplication; characters of code are classes; other texts are lengths. The histories
of a workspace are a constant; `HistoriesAssumption` says of each version only that its
segments and their markers are sequences, that each timeline is what `BuildSegment` made
of a take, or none (`MadeOfTake`), and that the spellings of its short markers are at
most `MaxShorts`. Of a take, `Recordable` says what the page and the engine see to: samples
in the order of time, cues that end no sooner than they start, words counted in order; it
may have any number of each, of any length, and words may overlap.

| Run | Bounds | Shows |
| --- | --- | --- |
| `MCRenderStages` | 1 runner, 6 histories of at most 2 versions and 3 segments, 2 attempts, 3 failures of 9 kinds, both sprite sheets, both routings | `ArtifactsAreThisJobs`, `PublishedIsWhole`, `CleanJobCompletes`, `JobEnds`; of the frames `OneSegmentOnScreen`, `AvatarFollowsVoice`, `CutMatchesPreview`, `SceneUnfolds`; of the script `CuesCoverWords`, `DiffIsMinimal` |

The histories are chosen for what they leave behind. `Shrinks` puts a shorter video, with
another scene and without a soundtrack, over a longer one that has one; `Grows` adds a
segment to the video and to a short, and keeps its track; `Plain` has neither track nor
short; `Refused` has a broken scene, overlapping cues and a sidecar of the engine;
`Astray` a marker out of sequence; `Respelt` two spellings of one marker. Between them every
kind of scene is drawn, every state of a face and every shape of a mouth. Segments last a
third to two thirds of a second: at 30 frames a second they are long enough for each scene
to come to its end or be cut short, and short enough that every frame is drawn. Three
failures are a request that goes wrong, the retry that does so too, and the report of it.

- `ArtifactsAreThisJobs` holds although nothing is deleted from the working directory:
  sync downloads all that the manifest lists, and the soundtrack is mixed again. Not covered
  are a script that declares no soundtrack, which plays the `out/mixed.wav` of an older one
  that did (`render-long.ts:80-82` asks only whether the file exists); shorts the job only
  warns about (an older `short-N.mp4` is then uploaded as if it were new); and jobs whose
  manifest could not be read when they were enqueued.
- `PublishedIsWhole`: a chunk leaves the tail of a longer partial file where it is, may stop
  half-way (`io.Copy`), and only the checksum at the end notices. The file is then written
  in its place (`os.WriteFile`), not renamed into it: a write that stops leaves the beginning of
  the new render where an older one may have been whole. What holds is that a published file
  is one render from its start, and all of it once the job is completed.
- `OneSegmentOnScreen` says when exactly one segment is drawn, and that no offset is
  further from its narration than half a frame for each segment before it. The second
  half excepts segments shorter than half a frame (16 ms): `Math.max(1, ...)` in
  `LongFormVideo.tsx:82` gives each of them a whole frame, and the sum runs ahead.
- `CleanJobCompletes` is stated for the routes and the sprite sheet the runner was
  written for (`Routed`, `Metas`). The code has neither: section 10.
- `AvatarFollowsVoice`, `CutMatchesPreview` and `SceneUnfolds` are about the frames of
  jobs with the sheet; with the empty one the first frame throws.
- `CuesCoverWords` is about every run of a narration's words. That a word's cue is on
  screen while it is spoken is said for words that follow one another (`Follow`), as
  those of the histories do: of two cues that overlap only the first is drawn.
- `AvatarFollowsVoice` compares the body with what the live avatar showed, by the
  thresholds of the two ports of one mapping; the two differ where no face is found.
  Between them the page rounds scores to three decimals and times to whole milliseconds
  (`stateMapping.ts:205-216`): a score of 0.1496 is idle to the live avatar and, as 0.15,
  talking in the timeline. Scores here are in ten-thousandths and times in tenths of a
  millisecond, so that both are rounded as in the code. A face within half a thousandth
  below a threshold (`OnTheBrink`) is excepted, and so are frames within half a millisecond
  of a sample. It is given takes whose blendshapes have names, which those of the page lack.
- `JobEnds` is about the runner: it comes to an end of each job it has claimed. The row need
  not: after a crash, a cancelled job or a report that fails it is `left`, claimed for ever,
  and a requeued one is pending for ever, as each claim is refused. `MCQueueClaimEnds` and
  `MCQueueRetried` show both (section 10); here neither is claimed again, and the history of the video
  ends with it.

`FairSpec` is weak fairness of the runner and the server together: `run.ts` goes on
after any failure, and each of its loops counts its attempts. A process that ended does not
take its job up again.

## 7. Five parts

`MCParts` checks five modules that meet the rest of the system in one place each. They
share nothing, so that a behaviour follows one of them.

**`Intake`**: from the feed to a script under review.

| Code | Model |
| --- | --- |
| `rss.go` `Poll`, by the ticker or the button: fetch; count; per item insert, create, scaffold, status, hook | `Poll`; `CountRssItems`; `InsertRssItem`, `CreateVideo`, `Scaffold`, `UpdateVideoStatus`, `OnScaffolded` |
| any of these returns an error | `PollFails` |
| `GenerateForSlug`, by the hook or the button; its attempts | `GenerateScript`, `Generated`, `NotGenerated` |
| no `GEMINI_API_KEY`: the hook is nil | `OnScaffolded` starts no writer |
| `writeScriptAtomic`: open, write, rename | `OpenTmp`, `WriteTmp`, `RenameTmp`; `WriterFails` |
| `UpdateScript` | `UpdateScript`, with the same three steps; a failure removes the file |
| the observer: file; status; update; a query that fails | `ObserverReads`; `ProcessScriptPath`; `ObserverUpdates`; `ObserverFails` |
| `ApproveScript`, `RejectScript`: check; `TransitionAndRecord` | `ApproveScript`, `RejectScript` (`Decides`); `TransitionAndRecord` |

`PostsSettle` says, of every post the feed ever showed, what has become of it once
everyone rests: nothing if it is of the backlog, else a video of its slug that is or was
under review. Its exceptions are kept as history (`past`) and are as wide as the code
makes them: a step of that post failed, nobody generates, a person rejected the script, two
writers mixed their texts, or a first poll was crossed by another or cut short. An approval
and an observer that have both looked at a status may each write theirs over the other's.

**`Capture`**: a take before the camera. The hook of the page, the worker that finds the
face and the worklet that records the sound are three threads with messages between
them, each in order. `PairIsItsTake` says that the pair a stop makes is of one take and
on one clock. The page stays open and at most one `doStop` is at work.

**`TakeUpload`**: the way of that pair to the server, chunk by chunk: the probe, the
offset, the partial file, the checksum, the rename, the row; over lost requests and
answers, connections cut in the body, a tab loaded again, a server started again.
`TakeIsWhole` says what is published, `SavedIsRecorded` what the page may claim. Each
has one exception, named in its comment and in section 10; both are proved in section 9.

**`ScriptDraft`**: the editing of a script. The page has its own copy of the rules and
says nothing of what the server refuses; `DraftIsSavable` says that the copies agree on
every draft that can be typed, that each error has a place to be shown, and that the
index marks what the comparison shows.

**`SegmentAssets`**: the playing of a segment on the voice page while another is picked,
a take is recorded again or discarded, and a timeline is built. `PreviewIsOfSegment`
says that what plays is what is picked.

| Run | Bounds | Shows |
| --- | --- | --- |
| `MCParts` | two recordings of 3 and 2 units in chunks of 2, two stops at a time, 1 fault of 9 kinds; 4 frames, batches of 2, 2 starts, 1 mishap; scripts of 2 segments, 3 edits; 2 segments, 2 readings, 1 retake; 2 posts of one slug, 3 polls, 2 attempts, 1 button, 1 failure | `TakeIsWhole`, `SavedIsRecorded`; `PairIsItsTake`; `DraftIsSavable`; `PreviewIsOfSegment`; `PostsSettle` |

A second recording that is shorter than the first leaves a partial file longer than
itself; a chunk of two units gives a recording of two chunks and one of one; batches of
two leave a rest at every other frame. Two posts whose links end alike are the only way
for two posts to meet; three polls are a baseline and two that cross. No fairness:
these are safety properties. Deadlock is not checked: a page may be left alone.

## 8. The studio

`Studio` follows one video from `new` to `released` through one browser tab. It has the
routes (`App.tsx`), the pages with what they offer in each status, the query cache, the
mutations, the services that move the video while nobody asks, and, by `EventHub`, the
events of its changes. They are meant to make a page read again, and do not: the hook
invalidates the queries whose key begins with a text that includes "VideoService"
(`useStudioEvents.ts:33-36`), and the keys of the pinned `@connectrpc/connect-query` 2.3.1
begin with "connect-query". A page reads when it is opened, when the window is looked at
again, and after some of its own calls.

| Code | Model |
| --- | --- |
| a query is asked, answered, kept, forgotten | `Load`, `Answer`, `Kept`, `Forget` |
| a mutation names a query, or the page refetches; the window has the focus again | `Invalidate`; `Focus` |
| `useStudioEvents`, `lib/sse.ts` | `Hear`, `Listen` |
| `hub.go` Publish, SubscribeSince, the stream of `http.go` | `Publish`, `Connect`, `Deliver`, `Break` |
| a handler changes the status; publishes it | `Moves`; `Announce` (`Silently` for those that do not) |
| what a page offers to a person who goes on | `Forward`: `ApproveScript`, `FirstTake`, `ApproveCard`, `ApproveFinalCut`, ... |
| the goroutine of the takes, the queue, the runner; a take refused, a job that is left or fails | `Animate`, `Render`; `WorkStops` |
| what a person does besides, and what fails | `Astray`: thirteen kinds |

| Run | Bounds | Shows |
| --- | --- | --- |
| `MCStudio` | 1 video of 1 segment, opened at any stage and taken 2 changes of status on, 1 detour of 13 kinds, 1 call at a time, a channel and a history of 1 event | `EventsAreHeard`, `StagesEnd` |

Two changes from every stage reach each stage from the one before, so that the run
covers the whole way without one behaviour that is as long. A channel and a history of
one (32 and 100 in the code) are outrun by two changes, which is what makes a loss
possible at all.

- `EventsAreHeard` is about the way of an event to the hook of the page, which is what
  `sse.ts:20` promises: once nothing is under way, each event of this life of the server was
  handed on, in order and none twice. The ways for one to be lost are the history variable
  `missed`: a full channel, and a history that is too short when the reader comes back or
  counts by the numbers of an earlier life of the server. A tab that was loaded on the login
  page has no reader at all (`NoReader`): logging in does not start one.
- `StagesEnd` says that no stage is a dead end for a person who does what the pages
  offer, but for those it names. A scene that was rejected is never approved in that
  browser (`ScenesReviewPage.tsx:174`). And nobody may be at work on the stage any more
  (`Stranded`): a take was refused, which blocks the video; the goroutine of the takes died
  with the server, and nothing starts another; the job has failed, is left, or is refused
  at every claim; or the script was written while the observer was not watching.
  It is given a person who looks for the next step (weakly fair) and takes one that is
  offered again and again (strongly fair), an agent that answers a waiting video, and a
  server and a page that go on. A page that keeps reading is the reason for strong fairness
  of `Load`: a reading may be put off by each next one. Since no event makes a page read,
  the person finds each next stage by opening a page.

Assumed, since they are outside the repository: TanStack Query asks when a query is
mounted, looked at again or invalidated, keeps an answer for its `gcTime`, and ignores the
answer of a cancelled one; connect-query makes its keys as the pinned version does.

## 9. What is proved

For every value of the constants, with the assumptions the modules state on them
(numbers are naturals, the three kinds of client are disjoint):

| Module | Theorem | Says |
| --- | --- | --- |
| `RenderQueue_proofs` | `TypeCorrect`, `NeverTwoHolders`, `AttemptsAreBounded` | `[]TypeOK`, `[]OneHolder`, `[]AttemptsBounded` |
| the same, `Zombies = {}` | `WorkersHoldClaims`, `SettledStaysSettled`, `ReviewFollowsRender` | `[]WorkerHoldsClaim`, `SettledIsFinal`, `[]ReviewedWasRendered` |
| the same, one tab, `Zombies = {}` | `JobsMatchVideos`, `QueueFollowsLifecycle`, `QueuedAreRunnable` (no `abort` either) | `[]JobMatchesVideo`, `FollowsLifecycle`, `[]QueuedIsRunnable` |
| `Release_proofs` | `TypeCorrect`, `RowsHavePackages`, `ReleaseNeedsBuild`, `TicksAreKept` | `[]TypeOK`, `[]SeededHasPackage`, `[]ReleasedWasBuilt`, `TicksSurvive` |
| the same, one tab | `ReleasedStays`, `BuildsAreOfOneCut`, `ReleaseFollowsLifecycle` | `ReleasedIsFinal`, `PackagesOfOneCut`, `FollowsLifecycle` |
| `Recording_proofs` | `TypeCorrect`, `OneConcatAtATime`, `StagesHaveArtifacts`, `VoiceAttended` | `[]TypeOK`, `[]OneConcat`, `[]StageHasArtifacts`, `[]VoiceIsAttended` |
| the same, one page | `TakesHaveFiles`, `ManifestStaysBehind` | `[]TakeHasFile`, `[]ManifestNotAhead` |
| `RenderStages_proofs` | `StagesTyped`, `PublishedStaysWhole`, `ArtifactsAreFresh`, `CleanJobsComplete` | `[]TInv`, `[]PublishedIsWhole`, `[]ArtifactsAreThisJobs`, `[]CleanJobCompletes` |
| the same, of the frames | `OneSegmentAtATime`, `CutIsAsApproved`, `ScenesOnlyGrow` | `[]OneSegmentOnScreen`, `[]CutMatchesPreview`, `[]SceneUnfolds` |
| `RenderedFrames_proofs` | `AvatarFollowsTheVoice`, `CuesCoverTheWords`, `DiffsAreMinimal` | `[]AvatarFollowsVoice`, `[]CuesCoverWords`, `[]DiffIsMinimal` |
| `Pages_proofs` | `TakesAreWhole`, `SavesAreRecorded` | `[]TakeIsWhole`, `[]SavedIsRecorded` |
| the same | `PreviewStaysOfSegment`, `DraftStaysSavable`, `PairsStayTheirTakes` | `[]PreviewIsOfSegment`, `[]DraftIsSavable`, `[]PairIsItsTake` |
| `Intake_proofs` | `PostsStaySettled` | `[]PostsSettle` |
| `Studio_proofs` | `EventsReachThePage` | `[]EventsAreHeard` |

The parts of section 7 have no `Spec` of their own: their theorems are of the form
`CaptureInit /\ [][CaptureNext]_captureVars => []PairIsItsTake`, which is what a
behaviour of `MCParts` is while that part moves.

"One tab" is `OneTab`, at most one element of `Users`, and "one page" is `OnePage`, at
most one of `Tabs`: one request of a person at a time, next to any number of runners
or goroutines. Both are hypotheses of the theorems and not of the modules, since
nothing in the code enforces them. The two `FollowsLifecycle` are refinements: every
step of the queue is a step of `VideoLifecycle` or a stutter for each video, every step
of the release for its one.

**The queue.** `OneHolder` is not inductive: a second holder could appear if a job
were pending while somebody still held it. `IInv` adds custody: a request and its
runner agree on their job (`InSync`), and what is held is a row that exists and is not
waiting in the queue (`HeldIsLive`), so that `ClaimJob`, which takes pending rows
only, never takes a held one; custody passes from a claim to its runner, from the
runner to its report, and ends where the row is put back or settled. `AttemptLeft`
carries the bound on the attempts: only a row that was claimed counts one, and a row
that may run again has one left.

**Claims.** Without late requests `IInv` is strengthened by `ClaimKept`: the row a
runner works on, or a request of it still has to settle, is claimed in its name.
Only the runner's own requests change such a row (`RowKept`), which makes the owner
that a report reads its own, the row a failed claim resets its own, and every
completed job that leads to a final review its own as well.

**The release.** `SeededHasPackage` needs to know how far a build has come
(`Built`: the package of the row about to be seeded is there) and that there was
something to copy (`RendersThere`: a video in review has all its renders, and files
are replaced but never removed). `ReleasedWasBuilt` needs that a toggle past its
update has found a row (`RowsSeeded`): an empty checklist counts zero open rows, and
only the update that reports a missing row stops it from releasing the video.

**The recording.** `OneConcat` becomes inductive with the other half of the lock: who
is in the concat service has `inFly` set (`InFlight`). `StageHasArtifacts` needs to
know what a goroutine leaves behind on its way (`Behind`): a plan of every segment
before it copies, `full.wav` before it writes the manifest, both before it advances, and
in the timeline service each timeline up to the segment it is at. Only that goroutine
moves, and no step of another takes an artifact away (`Grows`, `OthersKeep`), so the
artifacts are still there when it sets the status without looking again.
`VoiceIsAttended` is inductive as it stands.

**One tab, the queue.** Every update of a status is unconditional, so the argument is
that whoever is about to make one still has what it checked (`Stands`). An approval in
flight finds its video under review, where neither queue nor pipeline touches it
(`ApprovalStands`); a claim that may commit finds its video queued (`ClaimStands`); a
completion has settled the only job its video had, and is alone with it
(`CompletionStands`). `JobMatchesVideo` is part of the invariant and not only a
consequence: that no job of a video is pending or claimed is what keeps a second
completion, or a claim, away from it. `QueuedIsRunnable` follows without being inductive
in itself: a job of a queued video waits, or a claim has it that either puts it back or
sets the video rendering.

**One tab, the release.** A request past its check still finds the video in review, and
a toggle about to release it still has no open row (`Stands`): the only tab is its own,
and the runner is at work exactly while the video renders, so that it changes no file
during a review (`RunnerAgrees`). What a build has copied so far is therefore of the
latest cut (`Copied`).

**One page.** Rows are written after files and removed before them, and the page waits
for its answer (`PageAgrees`), which gives `TakeHasFile`. `ManifestNotAhead` needs that
what a goroutine has listed stays usable although the files change under it: each of the
files is gone since, or as new as the take that was listed (`Fits`). The copy succeeds
only when none is gone, so `full.wav` is as new as the list, and `OneConcat` keeps it
still until the manifest is written (`PlanAgrees`).

**The upload.** A client waits for one request at most (`Awaited`) and sends the second
half of a pair after the first is settled (`PairInOrder`). `TakeIsWhole` rests on
`AloneWithFile`: unless two chunks overlapped, no second request is past its body with
the same file, so that between the checksum and the rename the partial file is the
whole recording or, when the take was discarded meanwhile, gone. Lengths, chunk size, and what
earlier uploads left behind are arbitrary; what is written where is settled by lemmas
on sequences.

**The stages.** The working directory is never emptied, the endpoint never cuts a
partial file, and the workspace may be written again while the job runs. `TInv` says of
a runner at each stage what it has still to do, and which inputs it prepared; with it
each published file is the beginning of a render (`PublishedBegins`), since nothing is
written out whose checksum differs. That a completed job has published all of each, and
what was reported (`PublishedIsMade`), needs the rest:
`ArtifactsAreThisJobs` spans all stages. The invariant `AInv` says what each leaves for the
next: nothing is in the directory that no version up to the job's lists (`DirIsPast`), so
that a file the manifest lacks is absent and not old; what sync is done with is what
the manifest lists (`SyncKept`), and the bundle is made of that; past the soundtrack stage, a
script that declares a track has its mix of just those files (`MixKept`); a render that is
reported without a warning is of those inputs (`RendersKept`); and the upload leaves
out none of them (`SendingKept`). `CleanJobCompletes` adds that, as long as nothing has
failed and the routes are the runner's (`Undisturbed`), a partial file is exactly
the chunks sent so far of the one file under way (`UploadKept`): a job left without its
cut, or failed, has met something that the property excepts.

**The frames.** What a frame shows depends on the script, the timelines and the bundle
of its job, so the invariant is short (`FInv`: a file in the directory is of a version
that wrote it) and the work is in lemmas on the operators. Offsets are sums of rounded
durations: `Sums` is a recursive function, its values are fixed by induction over the
segments, and `Close` bounds what each rounding adds. The cut parses a scene twice, the
runner before it sends its props and the composition on receiving them, the preview
once: `ParseTwice` shows that filling in defaults is idempotent, for every kind of
scene. For `SceneUnfolds` each clock of a scene is monotone in the frame, and the lines
a terminal has completed are a prefix of its script.

**The diff.** The table of common lengths and the walk through it are recursive functions
over the cells of two texts. That they are what their definitions say is not for free:
`RecursionTheorem` shows that a function each of whose values depends on those at places of
lower rank exists, and `TableExists` and `WalkExists` apply it, with the distance to
the last cell as the rank. `CellInduction` then goes from the last cell to the first.
`WalkTells`: from each cell the walk says the rest of both texts and has as many common
lines as the table has there. `TableIsGreatest`: no alignment of the two rests, a strictly
increasing map between equal lines, has more; where the lines differ, one of the two is
outside any alignment, and where they are equal the pair costs at most one line.

**The avatar.** With cues, the windows of the mouth tile the time (`Tiles`): by induction
over the cues, each is preceded by silence exactly where something is left before it
(`GapsAre`), so the window that holds a time is the cue under it, or silence
(`MouthSays`). The body is made of stretches of equal samples; `RunsOf` is the invariant
of the pass that makes them (each sample is in a stretch of its state, and the next one
begins with a later sample), so that from a sample to the next the body is in that
sample's state (`BodyRepeats`): the state of its rounded scores, which off the brink of a
bound reach the bounds that the scores themselves reach. The changes a file tells of are the stretches that were
held (`ChangesTold`). Rows and columns of the sheet are compared with the live avatar's for
every face and shape (`FaceRow`, `MouthColumn`).

**The subtitles.** One invariant of the pass over the words (`Kept`): the groups made so
far, with the one still open, are the words to be shown in the order they are spoken; each
group fits two lines, has no silence in it and stands beside every word without a time.
`WordTaken` keeps it for any next word, whether that is dropped, closes the group or joins
it. `WrapKeepsToLines` shows that the break chosen for a group that fits leaves both lines
within the limit. For `SelectCue`, groups that follow one another have windows of frames
that do not overlap, rounding included (`FramesUnder`, `OnScreenUnder`).

**The preview of a take.** Readings overlap, and each may be answered late. One at
most will be taken, and what it has read so far is of the segment the hook has turned to
(`OneReading`); what the server has of that segment is no older than that moment
(`TakesGrow`), so an answer is not older either.

**The draft.** Both copies of the rules are compared operator by operator; that an
error has a card, and that the index marks what the comparison shows, needs that no edit
changes the ids of segments and shorts or their order (`DraftInv`).

**The capture.** Three threads, and messages under way between them. A microphone has
every unit of sound since it was opened, in the buffer, on the way or received, without
a gap (`SoundInv`); frames are handled in the order they were shot (`FrameInv`). Of
the take that was started last, unless an earlier one was still under way (`crossed`), the
invariant follows each sample from the worker to the hook: what the hook has gathered,
what is posted and what the worker's batch holds are together what was taken, in order
(`OwnSamples`), and after `start` nothing older comes (`OwnStart`, `OwnWorker`). A pair
that was not cut off early is of a take for which nothing more will be taken
(`PairInv`), so it has all its samples for good.

**Posts.** `PostsSettle` is about rest, its invariant about who has each post in hand
meanwhile (`PostInv`: a poll between two statements, a writer, or the script on disk),
what a writer or the observer still owes a script that is there (`TextInv`), and that a
video in its first steps belongs to one poll only (`RowInv`). For the backlog it says
what keeps a baseline a baseline: unless a second poll crosses it, every post of it is
marked or about to be (`FloodInv`, `Unflooded`). `SlugOf` is any sequence of strings, so that any
number of posts may meet in one slug.

**The page.** Each event of this life of the server was handed on, or was missed, or is
still coming (`Followed`): in the backlog of the stream, in its channel, or to be replayed
when the stream is opened again. That needs the events of a stream in order, backlog
before channel (`HubOK`), and that what was handed on is not beyond the number the reader
would resume from (`HeardOK`). `StudioInv` carries this through the steps of the page and
the services, none of which moves the hub but by publishing the next number.

Three things came out of the proofs and not of the runs. `OneSegmentOnScreen` as first stated
failed in its step for segments of a few milliseconds, which the histories of the run
do not have; the property now names them (section 6). And `Capture` counted a take as
undisturbed although the hook was still stopping the one before: the invariant was not
inductive, and with three mishaps and three takes TLC found a behaviour that breaks
`PairIsItsTake`. `UnderWay` now counts what the hook has in hand too. And `CuesCoverWords`
promised every word its time on screen; where one word begins before another has ended,
the induction stops, for the cue drawn is then the earlier one. The premise `Follow` says so.

Model-checked only, for the instances above:

- `QueuedIsReviewed`, `ApprovalSettles`, `JobEnds` and `StagesEnd`: liveness under
  fairness, and ENABLED, are out of reach of the installed provers.
- `ReleasedWhenComplete`: with one tab it follows from what a toggle has counted, so a proof
  would say no more than the run; with two it is broken (section 10).

Induction is used where it is needed: over natural numbers, by the least element of a
set (`LeastElement`, `NatSetInduction`), which is a fact about sets and needs no theorem with
an operator as its parameter; recursive functions (`Sums`, the table of a diff, the passes
over samples and words, the `FlattenSeq` of the community modules) are then unfolded one
step at a time. The operators of the kit and of the timeline service are written with them
and with sets of indices rather than with `SelectSeq` and folds, whose parameter is an
operator that the provers take as opaque. No module has a RECURSIVE operator.

## 10. Where code and comments disagree

Each of these runs checks one statement that a comment, a test or a task document of
the repository makes, and TLC shows a behaviour of the code that breaks it. The
quotations are in `PROJECT.json`.

| Run | Statement | What happens |
| --- | --- | --- |
| `MCQueueClaimEnds` | expired heartbeats give jobs back | nothing reads `heartbeat_at`; a stopped runner's job stays claimed |
| `MCQueueRetried` | a failed job below `max_attempts` runs again | its video is still `rendering`, so each claim is refused |
| `MCReleaseLastBoxes` | the last tick releases | two last ticks each count the other as open |
| `MCRecordingBoth` | concat waits for both artifacts of every segment | it looks at the audio only; the timeline service may then block the video for want of blendshapes that are on their way |

Further disagreements show when a listed configuration is given one more tab or one
more fault; the property named fails with a trace of the behaviour:

| Change | Fails | What the code does, and what is said of it |
| --- | --- | --- |
| `MCQueueSerial`, `Users = {u1, u2}` | `JobMatchesVideo` | two approvals pass the check and both enqueue; "exactly one pending render job" (`services/video_service.go:465`) |
| the same | `FollowsLifecycle` | the second approval takes rendering back to queued, an edge the machine does not have; "Every status change in the system MUST go through this package" (`domain/videostate/state.go:2`) |
| `MCQueueSerial`, fault `abort` | `QueuedIsRunnable` | a claim cut short after its UPDATE strands a claimed job of a queued video; "a claimed job never sits without an owner" (`services/job_service.go:85-88`) |
| `MCQueueSerial`, `QueuedIsReviewed` without `Abandoned` | `QueuedIsReviewed` | the last failed attempt leaves its video rendering, and so does an artifact that does not verify, whose job is completed by then; "attempt exhaustion → failed + video → blocked" (`integration/jobs_queue_test.go:4`) |
| `MCReleaseOneTab`, `Users = {u1, u2}` | `ReleasedIsFinal` | a re-render checked before the checklist closed queues a released video; "released é terminal" (`docs/tasks/05-montagem/S5-11-release-checklist-ui.md:45`) |
| the same | `FollowsLifecycle` | a toggle that has read final_review releases a video sent back to rendering; "non final_review video must not be released via checklist" (`integration/jobs_queue_test.go:933`) |
| the same | `ReleasedWhenComplete` | a row is seeded between the last tick's count and its commit; "flips only when EVERY row is published" (`migrations/0011_release_checklist.up.sql:2`) |
| `MCReleaseTwoTabs`, fault `abort` | `ApprovalSettles` | the block after a failed build is written with the cancelled context of the request; "bloqueia o vídeo com motivo (nunca silencioso)" (`docs/tasks/05-montagem/S5-09-release-builder.md:79`) |

Two more are visible in the modules without a run. `ApproveFinalCut` starts from
final_review only, so that after a failed build blocked the video it is not
"re-runnable" as `services/video_service.go:707` says: the way back is `Rearm`,
through script, scenes and a new render. And the rows of a build that failed half-way
are a checklist of their own: once they are ticked, the video is released without the
rest, since complete means that no existing row is open.

### Seen while modelling

The following are in the modules as the code has them. No run singles them out; a
property that passes says in its comment which of them it excepts.

Intake:

- A failed item is not retried by a "natural retry next poll" (`internal/watcher/rss.go:170`):
  it is marked as seen first. A first poll that is crossed by another, or that ends
  early, lets the backlog in, against "avoids flooding from backlog" (`rss.go:102`).
- The hook, the button and `UpdateScript` share `script.json.tmp`, so that a mixed text
  can be renamed into place although the generator "never writes invalid content"
  (`internal/scriptgen/generator.go:26`). Its status is looked at when it starts, by the
  hook never: a late script goes over one that is being reviewed.
- A script rejected with a comment is not generated again, although the page says so
  (`frontend/src/pages/ScriptReviewPage.tsx:92` and `:437`); with a valid script on disk
  and `script_pending`, the page offers nothing but writing the file again.

Recording:

- The hook serializes blendshapes without names (`useSegmentRecorder.ts:160`), and the
  timeline service refuses such a file (`internal/timeline/service.go:156`).
- An engine that recognizes visemes writes each shape as a number, which the timeline
  service cannot read back; only the fallback without cues gets through.
- A stop takes any batch for the last one (`useSegmentRecorder.ts:86` and `:135`), and
  gives up after 600 ms. "Webcam lost mid-take" is looked at when a take starts only.
- "An incomplete pair never leaves the browser" (`useSegmentRecorder.ts:49`): the audio
  is sent first, and stays when the blendshapes fail.
- A partial file of the size of the take is taken for the take (`uploadClient.ts:77`):
  the page then shows as saved what was never recorded. The checksum and the rename
  (`internal/upload/upload.go:230`) are not one step for two chunks that overlap.

Rendering:

- The runner asks by the id of the video (`stages/sync.ts:86`) where the route goes by the
  slug (`cmd/api/main.go:90`); and the chunk route binds `videoSlug` (`main.go:92`) where
  its handler reads `slug` (`internal/artifacts/renders_upload.go:55`).
- `render-long.ts:90` passes an empty sprite sheet, with which every frame throws, while
  the previews have one.
- "A corrupted upload is rejected without ever polluting the workspace", as finalize verifies
  "BEFORE moving the file into renders/" (`renders_upload.go:19-20`). Nothing is moved: the
  file is written in place (`:159`), and a write that stops leaves it cut short.
- A script without a soundtrack plays the `out/mixed.wav` an older one left in the working
  directory (`render-long.ts:80-82`); and each short plays the mix of the long video
  (`shorts.ts` takes over its inputs), although the mix is "for the LONG only".
- A report of a failure that fails itself leaves the job claimed; "server heartbeat expiry will
  reclaim" (`run.ts:116`) is what nothing does.
- `avatar/states.go:1-2` promises "the exact same decisions" as the live avatar, which decides
  by scores that are not rounded yet; the file's own `state_changes` are of those too.
- A word without a time is dropped "with what was being grouped" (`cues.ts:79`, and the title
  of the test at `cues.test.ts:78`); `flush()` shows what was being grouped, and only the
  word is dropped. `CuesCoverWords` says what the code does.
- `void ctx.report` (`render-long.ts:133`, `shorts.ts:131`) is not awaited: its rejection
  ends the runner.
- The mix of the soundtrack has the ducked music only, yet takes the place of the
  narration (`LongFormVideo.tsx`, single audio).
- The server counts the spellings of the short markers, the runner their numbers: with
  `[SHORT#1]` and `[SHORT#01]` a complete job is held to be unverified.

Pages:

- An event that is dropped at a full channel is gone for the page until the next one, and
  a new life of the server numbers anew, although "no events are lost across drops"
  (`frontend/src/lib/sse.ts:20`).
- A scene card that is rejected can never be approved in that browser
  (`ScenesReviewPage.tsx:174`): its decision is kept under the time of the last change of
  status, which a new script leaves as it is.
- No event makes a page read again, against "invalidates TanStack Query caches when studio
  events arrive" (`useStudioEvents.ts:8-9`) and "Connect-RPC query keys embed the service
  name" (`:29`): the pinned connect-query has the service in an object, the second part of
  the key. The pages that wait for an event wait for ever, as `ScriptReviewPage.tsx:201` ("Esta
  tela atualiza sozinha") and `VoicePreviewPage.tsx:102` ("Esta lista atualiza sozinha"). The
  same test is in `useSegmentRecorder.ts:183`, `ScenesReviewPage.tsx:288`,
  `FinalReviewPage.tsx` and `StudioRecordingPage.tsx:130`.
- Who logs in has no events until the tab is loaded again: the hook looks for the token
  once, when the shell is mounted (`useStudioEvents.ts:14-16`).
- A save the server refuses shows nothing (`ScriptReviewPage.tsx:74`); "Nenhuma diferença"
  (`ScriptDiff.tsx:51`) is said of scripts that differ in hook, cta or manner.
- While the hook reads, the voice page has the player of the segment before
  (`VoicePreviewPage.tsx:126`), with a URL that is revoked.
- The final cut never plays: the page asks with `access_token` and the id, the handler
  reads `token` and the slug (`FinalReviewPage.tsx:40`).

## 11. Not modelled

| Part | Why |
| --- | --- |
| storage back ends (`internal/storage`) | built at start-up, used by no handler |
| database set-up and migrations | the tables are state of the models; their creation is not |
| process wiring, configuration, the seeded account | straight-line code at start-up |
| tokens and passwords | stateless checks in front of the handlers; `Studio` has login, logout and a token that is refused |
| layout, texts, theming, filters, level meter, the pages for developers | no state of the pipeline depends on them |
| `transcription/alignment`, `subtitles` of the server | called by no production code |
| recognition of visemes, the language model and its prompt, ffmpeg, Remotion's browser | other programs: an answer or a failure |
| `CreateVideo` as an RPC | called by no page; it leaves a video in `new` |
| `UpdateProgress`, `heartbeat_at` | no statement reads them to decide anything |

A workspace is watched by the time something is written into it: the observer adds new
directories as it sees them, and the modules leave out the moment before. The race of the
debouncer's map (`internal/artifacts/observer.go:119`), when the runtime notices it, ends
the process, and is a restart.

Three hazards have no property of a passing run, with the reason beside them in
`PROJECT.json`: a timeline that is never built again, the count of takes that must be
one, and blendshapes without names. In each the code does what it should not, whatever
happens around it.

## 12. What remains

1. `TakeUpload` as a refinement of the one step `Recording` takes for it; the modules
   share names and bounds, and each is checked alone.
2. The queue and the studio in one model, so that two tabs see two jobs of one video.
