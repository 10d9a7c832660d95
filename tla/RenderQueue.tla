---------------------------- MODULE RenderQueue -----------------------------
(***************************************************************************)
(* The render job queue: the jobs table, the JobService RPCs the runner     *)
(* calls, the two VideoService RPCs that enqueue a job, and the runner      *)
(* daemon itself.                                                           *)
(*                                                                         *)
(* Every RPC is served by a goroutine that goes through several database    *)
(* round trips; each round trip is one action, so that two requests         *)
(* interleave here wherever they interleave on the server.  A request is    *)
(* identified by its client: a browser tab, a runner (a runner awaits one   *)
(* RPC at a time), or a "zombie": a request whose client has hung up while  *)
(* the server still works on it.                                            *)
(*                                                                         *)
(* UpdateProgress and heartbeat_at are left out: nothing ever reads either  *)
(* to decide anything.                                                      *)
(***************************************************************************)
EXTENDS Integers, VideoState

CONSTANTS
    Videos,       \* rows of the videos table
    Users,        \* browser tabs that may have a request in flight
    Runners,      \* runner daemons, by RUNNER_ID
    Zombies,      \* slots for requests that outlive their client
    MaxJobs,      \* bound on the rows of the jobs table
    MaxAttempts,  \* jobs.max_attempts (3 in the schema)
    Faults,       \* the kinds of failure that may happen, see FaultKind
    None          \* SQL NULL

\* "stage":      a stage of the runner throws (the job fails)
\* "stop":       the runner process ends while it holds a job
\* "abort":      a request ends between two round trips (database error, server
\*               crash, request context cancelled)
\* "db":         a query of ClaimJob fails and ClaimJob compensates
\* "mismatch":   a reported artifact is missing on the server or has another hash
\* "noartifact": the runner reports completion without artifacts
\* "cancel":     cancel_requested is set on a job
FaultKind == {"stage", "stop", "abort", "db", "mismatch", "noartifact", "cancel"}

Threads == Users \cup Runners \cup Zombies
JobId == 1 .. MaxJobs
NoJob == 0

ASSUME BoundsAssumption == MaxJobs \in Nat /\ MaxAttempts \in Nat \ {0}
ASSUME FaultsAssumption == Faults \subseteq FaultKind
ASSUME ClientsAssumption ==
    /\ Users \cap Runners = {}
    /\ Users \cap Zombies = {}
    /\ Runners \cap Zombies = {}
ASSUME NullAssumption == None \notin Videos \cup Runners

VARIABLES
    video,    \* videos.status
    job,      \* the jobs table; ids follow created_at
    handler,  \* the request each client has in flight on the server
    runner    \* the runner daemon's main loop

vars == <<video, job, handler, runner>>

-----------------------------------------------------------------------------
(* Rows, requests and runners *)

JobRow ==
    [status   : {"absent", "pending", "claimed", "completed", "failed"},
     video    : Videos \cup {None},
     owner    : Runners \cup {None},  \* claimed_by
     attempts : 0 .. MaxAttempts,
     due      : BOOLEAN,              \* run_after <= now()
     cancel   : BOOLEAN]              \* cancel_requested

NoRow == [status |-> "absent", video |-> None, owner |-> None,
          attempts |-> 0, due |-> FALSE, cancel |-> FALSE]

\* What INSERT INTO jobs leaves: the defaults of the columns.
PendingRow(v) == [status |-> "pending", video |-> v, owner |-> None,
                  attempts |-> 0, due |-> TRUE, cancel |-> FALSE]

Request ==
    [op    : {"none", "claim", "complete", "fail", "approve_scenes", "rerender"},
     pc    : {"done", "load", "commit", "release", "update", "verify"},
     job   : JobId \cup {NoJob},
     video : Videos \cup {None},
     owner : Runners \cup {None},  \* claimed_by as the request read it
     flag  : BOOLEAN]              \* complete: has artifacts; fail: retryable

NoRequest == [op |-> "none", pc |-> "done", job |-> NoJob, video |-> None,
              owner |-> None, flag |-> FALSE]

JobRequest(op, j, flag) == [op |-> op, pc |-> "load", job |-> j, video |-> None,
                            owner |-> None, flag |-> flag]

VideoRequest(op, v) == [op |-> op, pc |-> "commit", job |-> NoJob, video |-> v,
                        owner |-> None, flag |-> FALSE]

RunnerState ==
    [at  : {"idle", "claiming", "working", "completing", "failing"},
     job : JobId \cup {NoJob}]

Resting == [at |-> "idle", job |-> NoJob]

Active(j) == job[j].status \in {"pending", "claimed"}
Settled(j) == job[j].status \in {"completed", "failed"}

TypeOK ==
    /\ video \in [Videos -> State]
    /\ job \in [JobId -> JobRow]
    /\ handler \in [Threads -> Request]
    /\ runner \in [Runners -> RunnerState]

Init ==
    /\ video = [v \in Videos |-> "new"]
    /\ job = [j \in JobId |-> NoRow]
    /\ handler = [t \in Threads |-> NoRequest]
    /\ runner = [r \in Runners |-> Resting]

Serving(t, op, pc) == handler[t].op = op /\ handler[t].pc = pc

GoTo(t, pc) == handler' = [handler EXCEPT ![t].pc = pc]
Finish(t) == handler' = [handler EXCEPT ![t] = NoRequest]

\* The response of t's request reaches its client if that is a runner still waiting.
Deliver(t, state) ==
    runner' = IF t \in Runners THEN [runner EXCEPT ![t] = state] ELSE runner

-----------------------------------------------------------------------------
(* Enqueueing: VideoService.ApproveScenes and VideoService.RequestRerender.  *)
(* Both read the status, check it, prepare the payload and only then open    *)
(* the transaction that sets the status and inserts the job.                 *)

Enqueue(v) ==
    \E j \in JobId :
        /\ job[j].status = "absent"
        /\ \A i \in JobId : i < j => job[i].status # "absent"
        /\ job' = [job EXCEPT ![j] = PendingRow(v)]

\* Mutant: inserts no second job for a video, not even for a re-render.
ArmRenderOnce(u) ==
    LET v == handler[u].video IN
    /\ video' = [video EXCEPT ![v] = "queued"]
    /\ \/ (\E j \in JobId : job[j].video = v) /\ UNCHANGED job
       \/ (\A j \in JobId : job[j].video # v) /\ Enqueue(v)
    /\ Finish(u)
    /\ UNCHANGED runner

ArmRender(u) ==
    LET v == handler[u].video IN
    /\ video' = [video EXCEPT ![v] = "queued"]
    /\ Enqueue(v)
    /\ Finish(u)
    /\ UNCHANGED runner

ApproveScenes(u, v) ==
    /\ handler[u].op = "none"
    /\ video[v] = "scenes_review"
    /\ handler' = [handler EXCEPT ![u] = VideoRequest("approve_scenes", v)]
    /\ UNCHANGED <<video, job, runner>>

ApproveScenesCommit(u) ==
    /\ Serving(u, "approve_scenes", "commit")
    /\ ArmRender(u)

\* Mutant: also accepts a video that is still rendering.
RerenderWhileRendering(u, v) ==
    /\ handler[u].op = "none"
    /\ video[v] \in {"rendering", "final_review"}
    /\ handler' = [handler EXCEPT ![u] = VideoRequest("rerender", v)]
    /\ UNCHANGED <<video, job, runner>>

\* Mutant: also accepts a video that is out.
RerenderReleased(u, v) ==
    /\ handler[u].op = "none"
    /\ video[v] \in {"final_review", "released"}
    /\ handler' = [handler EXCEPT ![u] = VideoRequest("rerender", v)]
    /\ UNCHANGED <<video, job, runner>>

RequestRerender(u, v) ==
    /\ handler[u].op = "none"
    /\ video[v] = "final_review"
    /\ handler' = [handler EXCEPT ![u] = VideoRequest("rerender", v)]
    /\ UNCHANGED <<video, job, runner>>

RequestRerenderCommit(u) ==
    /\ Serving(u, "rerender", "commit")
    /\ ArmRender(u)

-----------------------------------------------------------------------------
(* JobService.ClaimJob *)

\* Mutant: the UPDATE skips only rows locked right now, not rows claimed before.
RunnableWhenUnlocked(j) == Active(j) /\ job[j].due /\ ~job[j].cancel

Runnable(j) == job[j].status = "pending" /\ job[j].due /\ ~job[j].cancel

\* The single UPDATE ... FOR UPDATE SKIP LOCKED statement.  An empty queue
\* changes nothing and is not an action.
ClaimJob(r) ==
    /\ runner[r] = Resting
    /\ handler[r].op = "none"
    /\ \E j \in JobId :
        /\ Runnable(j)
        /\ \A i \in JobId : Runnable(i) => j <= i
        /\ job' = [job EXCEPT ![j].status = "claimed", ![j].owner = r]
        /\ handler' = [handler EXCEPT ![r] = JobRequest("claim", j, FALSE)]
        /\ runner' = [runner EXCEPT ![r] = [at |-> "claiming", job |-> j]]
    /\ UNCHANGED video

\* GetVideo and the check of the transition to rendering.
ClaimLoadVideo(t) ==
    /\ Serving(t, "claim", "load")
    /\ LET legal == CanTransition(video[job[handler[t].job].video], "rendering") IN
        \/ legal /\ GoTo(t, "commit")
        \/ (~legal \/ "db" \in Faults) /\ GoTo(t, "release")
    /\ UNCHANGED <<video, job, runner>>

\* The transaction that sets the status; then the job is answered to the runner.
ClaimCommit(t) ==
    /\ Serving(t, "claim", "commit")
    /\ LET j == handler[t].job IN
        /\ video' = [video EXCEPT ![job[j].video] = "rendering"]
        /\ Deliver(t, [at |-> "working", job |-> j])
    /\ Finish(t)
    /\ UNCHANGED job

ClaimTxFails(t) ==
    /\ "db" \in Faults
    /\ Serving(t, "claim", "commit")
    /\ GoTo(t, "release")
    /\ UNCHANGED <<video, job, runner>>

\* Mutant: a claim that fails leaves its row claimed.
ClaimLeaks(t) ==
    /\ Serving(t, "claim", "release")
    /\ Finish(t)
    /\ Deliver(t, Resting)
    /\ UNCHANGED <<video, job>>

\* Mutant: answers the job it has put back.
ClaimAnswersReleased(t) ==
    /\ Serving(t, "claim", "release")
    /\ LET j == handler[t].job IN
        /\ job' = [job EXCEPT ![j].status = "pending", ![j].owner = None]
        /\ Deliver(t, [at |-> "working", job |-> j])
    /\ Finish(t)
    /\ UNCHANGED video

\* ResetToPending: by id alone, whatever the row has become; run_after and
\* attempts keep their values.
ClaimRelease(t) ==
    /\ Serving(t, "claim", "release")
    /\ LET j == handler[t].job IN
        job' = [job EXCEPT ![j].status = "pending", ![j].owner = None]
    /\ Finish(t)
    /\ Deliver(t, Resting)
    /\ UNCHANGED video

-----------------------------------------------------------------------------
(* JobService.CompleteJob and JobService.FailJob *)

\* A runner whose CompleteJob fails reports a retryable failure of the same job.
CompleteFails(t) ==
    LET j == handler[t].job IN
    /\ handler' = [handler EXCEPT ![t] =
                     IF t \in Runners THEN JobRequest("fail", j, TRUE) ELSE NoRequest]
    /\ Deliver(t, [at |-> "failing", job |-> j])

\* loadOwnedClaimed: the claimed_by the request will present as its own.
LoadOwnedClaimed(t) ==
    /\ handler[t].op \in {"complete", "fail"}
    /\ handler[t].pc = "load"
    /\ handler' = [handler EXCEPT ![t].pc = "update",
                                  ![t].owner = job[handler[t].job].owner]
    /\ UNCHANGED <<video, job, runner>>

\* Mutant: WHERE claimed_by = $2
OwnedByName(t) == job[handler[t].job].owner = handler[t].owner

\* WHERE status = 'claimed' AND claimed_by = $2
Owned(t) ==
    /\ job[handler[t].job].status = "claimed"
    /\ job[handler[t].job].owner = handler[t].owner

\* Mutant: the artifacts first; nothing settles the job of a finalized render.
FinalizeUnsettled(t) ==
    /\ Serving(t, "complete", "update")
    /\ Owned(t)
    /\ handler[t].flag
    /\ GoTo(t, "verify")
    /\ UNCHANGED <<video, job, runner>>

CompleteUpdate(t) ==
    /\ Serving(t, "complete", "update")
    /\ \/ /\ Owned(t)
          /\ job' = [job EXCEPT ![handler[t].job].status = "completed"]
          /\ \/ handler[t].flag /\ GoTo(t, "verify") /\ UNCHANGED runner
             \/ ~handler[t].flag /\ Finish(t) /\ Deliver(t, Resting)
       \/ ~Owned(t) /\ CompleteFails(t) /\ UNCHANGED job
    /\ UNCHANGED video

\* finalizeRenderArtifacts: the status check and the hashes on disk.
FinalizeVerify(t) ==
    /\ Serving(t, "complete", "verify")
    /\ LET rendering == video[job[handler[t].job].video] = "rendering" IN
        \/ rendering /\ GoTo(t, "commit") /\ UNCHANGED runner
        \/ (~rendering \/ "mismatch" \in Faults) /\ CompleteFails(t)
    /\ UNCHANGED <<video, job>>

FinalizeCommit(t) ==
    /\ Serving(t, "complete", "commit")
    /\ video' = [video EXCEPT ![job[handler[t].job].video] = "final_review"]
    /\ Finish(t)
    /\ Deliver(t, Resting)
    /\ UNCHANGED job

Requeued(row) == [row EXCEPT !.status = "pending", !.owner = None,
                             !.attempts = @ + 1, !.due = FALSE]
GivenUp(row) == [row EXCEPT !.status = "failed", !.owner = None, !.attempts = @ + 1]

\* Mutant: attempts + 1 <= max_attempts
OneAttemptTooMany(row, retryable) ==
    IF retryable /\ row.attempts + 1 <= MaxAttempts THEN Requeued(row) ELSE GivenUp(row)

\* FailJob and FailJobTerminal.
AfterFailure(row, retryable) ==
    IF retryable /\ row.attempts + 1 < MaxAttempts THEN Requeued(row) ELSE GivenUp(row)

FailUpdate(t) ==
    /\ Serving(t, "fail", "update")
    /\ LET j == handler[t].job IN
        job' = IF Owned(t)
               THEN [job EXCEPT ![j] = AfterFailure(job[j], handler[t].flag)]
               ELSE job
    /\ Finish(t)
    /\ Deliver(t, Resting)
    /\ UNCHANGED video

BackoffElapses(j) ==
    /\ job[j].status = "pending"
    /\ ~job[j].due
    /\ job' = [job EXCEPT ![j].due = TRUE]
    /\ UNCHANGED <<video, handler, runner>>

\* MarkCancelRequested.  No RPC calls it yet: its tests do, or an operator in SQL.
CancelRequested(j) ==
    /\ "cancel" \in Faults
    /\ Active(j)
    /\ job' = [job EXCEPT ![j].cancel = TRUE]
    /\ UNCHANGED <<video, handler, runner>>

-----------------------------------------------------------------------------
(* The runner: runStages ends in completeJob, failJob, or neither *)

Report(r, op, at, flag) ==
    LET j == runner[r].job IN
    /\ runner[r].at = "working"
    /\ handler[r].op = "none"
    /\ handler' = [handler EXCEPT ![r] = JobRequest(op, j, flag)]
    /\ runner' = [runner EXCEPT ![r].at = at]
    /\ UNCHANGED <<video, job>>

RunnerCompletes(r) ==
    \E artifacts \in BOOLEAN :
        /\ artifacts \/ "noartifact" \in Faults
        /\ Report(r, "complete", "completing", artifacts)

RunnerFails(r) ==
    /\ "stage" \in Faults
    /\ \E retryable \in BOOLEAN : Report(r, "fail", "failing", retryable)

\* checkCancelled: the runner drops the job and tells nobody.
RunnerDrops(r) ==
    /\ runner[r].at = "working"
    /\ job[runner[r].job].cancel
    /\ runner' = [runner EXCEPT ![r] = Resting]
    /\ UNCHANGED <<video, job, handler>>

\* The process ends and starts again; it does not remember its job.
RunnerStops(r) ==
    /\ "stop" \in Faults
    /\ runner[r].at = "working"
    /\ runner' = [runner EXCEPT ![r] = Resting]
    /\ UNCHANGED <<video, job, handler>>

-----------------------------------------------------------------------------
(* Requests that fail on the way *)

\* What the client of a failed request does next.
GivesUp(t) ==
    \/ handler[t].op = "complete" /\ CompleteFails(t)
    \/ handler[t].op \notin {"none", "complete"} /\ Finish(t) /\ Deliver(t, Resting)

\* The handler stops where it is; what it has committed stays committed.
Abort(t) ==
    /\ "abort" \in Faults
    /\ GivesUp(t)
    /\ UNCHANGED <<video, job>>

\* The runner loses its connection, the handler runs on.
Disconnect(r, z) ==
    /\ handler[r].op # "none"
    /\ handler[z].op = "none"
    /\ LET j == handler[r].job
           retry == handler[r].op = "complete"
       IN /\ handler' = [handler EXCEPT
                           ![z] = handler[r],
                           ![r] = IF retry THEN JobRequest("fail", j, TRUE) ELSE NoRequest]
          /\ runner' = [runner EXCEPT
                          ![r] = IF retry THEN [at |-> "failing", job |-> j] ELSE Resting]
    /\ UNCHANGED <<video, job>>

-----------------------------------------------------------------------------
(* The rest of the pipeline, which owns the other edges *)

Upstream == {"new", "script_pending", "script_review", "script_approved",
             "recording", "voice_processing", "scenes_pending"}

\* The script and recording side: any legal edge between its own states, to
\* scenes_review and to blocked.  Out of blocked lead ApproveScript, RejectScript
\* and a rewritten script.json.
Prepare(v) ==
    /\ video[v] \in Upstream \cup {"blocked"}
    /\ \E to \in Upstream \cup {"scenes_review", "blocked"} :
        /\ CanTransition(video[v], to)
        /\ video[v] = "blocked" =>
             to \in {"script_pending", "script_review", "script_approved"}
        /\ video' = [video EXCEPT ![v] = to]
    /\ UNCHANGED <<job, handler, runner>>

\* The final review, here as one step of the user: the checklist closes, or the
\* release cannot be built.
Review(u, v) ==
    /\ handler[u].op = "none"
    /\ video[v] = "final_review"
    /\ \E to \in {"released", "blocked"} : video' = [video EXCEPT ![v] = to]
    /\ UNCHANGED <<job, handler, runner>>

-----------------------------------------------------------------------------

HandlerStep(t) ==
    \/ ClaimLoadVideo(t) \/ ClaimCommit(t) \/ ClaimTxFails(t) \/ ClaimRelease(t)
    \/ LoadOwnedClaimed(t)
    \/ CompleteUpdate(t) \/ FinalizeVerify(t) \/ FinalizeCommit(t)
    \/ FailUpdate(t)
    \/ ApproveScenesCommit(t) \/ RequestRerenderCommit(t)

RunnerStep(r) == ClaimJob(r) \/ RunnerCompletes(r) \/ RunnerFails(r) \/ RunnerDrops(r)

UserStep(u, v) == ApproveScenes(u, v) \/ RequestRerender(u, v) \/ Review(u, v)

Next ==
    \/ \E t \in Threads : HandlerStep(t) \/ Abort(t)
    \/ \E r \in Runners : RunnerStep(r) \/ RunnerStops(r)
    \/ \E r \in Runners, z \in Zombies : Disconnect(r, z)
    \/ \E u \in Users, v \in Videos : UserStep(u, v)
    \/ \E j \in JobId : BackoffElapses(j) \/ CancelRequested(j)
    \/ \E v \in Videos : Prepare(v)

Spec == Init /\ [][Next]_vars

\* Handlers and runners keep running, and time passes.  Nothing makes a user act,
\* and nothing but a claim ever picks a job up again.
Fairness ==
    /\ \A t \in Threads : WF_vars(HandlerStep(t))
    /\ \A r \in Runners : WF_vars(RunnerStep(r))
    /\ \A j \in JobId : WF_vars(BackoffElapses(j))

FairSpec == Spec /\ Fairness

-----------------------------------------------------------------------------
(* What the queue promises *)

\* A job is in at most one pair of hands: one claim or failure report in progress
\* on the server, or one runner that works on it or reports it complete.
Holds(t, j) ==
    \/ handler[t].op \in {"claim", "fail"} /\ handler[t].job = j
    \/ t \in Runners /\ runner[t].at \in {"working", "completing"} /\ runner[t].job = j

\* Two runners never work on the same job, and no failure report races with
\* another claim of it: whatever outlives its client, a job has one holder.
OneHolder ==
    \A j \in JobId : \A s, t \in Threads : Holds(s, j) /\ Holds(t, j) => s = t

\* The attempts of a job never exceed max_attempts, and a job that may still
\* run has one left, even though ResetToPending revives a job by its id alone.
AttemptsBounded ==
    \A j \in JobId :
        /\ job[j].attempts <= MaxAttempts
        /\ Active(j) => job[j].attempts < MaxAttempts

\* A runner that works on a job holds its claim: the job is claimed, and in
\* this runner's name, so its report will be accepted.
WorkerHoldsClaim ==
    \A r \in Runners :
        runner[r].at = "working" =>
            /\ job[runner[r].job].status = "claimed"
            /\ job[runner[r].job].owner = r

\* A completed or failed job never changes again, although ResetToPending has no
\* condition on the status.
SettledIsFinal == [][\A j \in JobId : Settled(j) => job'[j] = job[j]]_vars

\* A video has at most one pending or claimed job, and only while it is queued
\* or rendering: whatever the queue may still run is what the status announces.
JobMatchesVideo ==
    \A i \in JobId :
        Active(i) =>
            /\ video[job[i].video] \in {"queued", "rendering"}
            /\ \A j \in JobId : Active(j) /\ job[j].video = job[i].video => i = j

\* A video in final review, or released, has a completed render job.
ReviewedWasRendered ==
    \A v \in Videos :
        video[v] \in {"final_review", "released"} =>
            \E j \in JobId : job[j].video = v /\ job[j].status = "completed"

\* A queued video is in somebody's hands: one of its jobs waits in the queue or
\* is being claimed by a request in progress.
QueuedIsRunnable ==
    \A v \in Videos :
        video[v] = "queued" =>
            \E j \in JobId :
                /\ job[j].video = v
                /\ \/ job[j].status = "pending"
                   \/ \E t \in Threads : handler[t].op = "claim" /\ handler[t].job = j

\* Each video follows the canonical state machine, although no UPDATE of its
\* status has a condition on the old one.
Lifecycle(v) == INSTANCE VideoLifecycle WITH status <- video[v]
FollowsLifecycle ==
    /\ \A v \in Videos : Lifecycle(v)!Init
    /\ [][\A v \in Videos : [Lifecycle(v)!Next]_(video[v])]_vars

\* A video is rendering and none of its jobs is in anybody's hands.
Abandoned(v) ==
    /\ video[v] = "rendering"
    /\ \A j \in JobId, t \in Threads : Holds(t, j) => job[j].video # v

\* A failure has just left its mark on the queue.
Setback ==
    \/ \E v \in Videos : Abandoned(v)
    \/ \E j \in JobId : job[j].cancel
    \/ \E t \in Threads : Serving(t, "claim", "release")

\* Every queued video comes to its final review, unless a failure interferes with
\* a render, possibly that of another video in front of it.
QueuedIsReviewed ==
    \A v \in Videos : video[v] = "queued" ~> (video[v] = "final_review" \/ Setback)

-----------------------------------------------------------------------------
(* What comments and documents of the repository say, and the code does not do *)

\* "an in-flight job keeps its claim until the server-side heartbeat expiry
\* reclaims it": no claim outlives its runner forever (runner/src/index.ts).
ClaimEnds ==
    \A j \in JobId : job[j].status = "claimed" ~> job[j].status # "claimed"

\* "below max_attempts it requeues with exponential backoff": a requeued job is
\* worked on again (JobsQueue.Fail).
RequeuedIsRetried ==
    \A j \in JobId :
        (job[j].status = "pending" /\ job[j].attempts > 0) ~>
            (\E r \in Runners : runner[r].at = "working" /\ runner[r].job = j)
=============================================================================
