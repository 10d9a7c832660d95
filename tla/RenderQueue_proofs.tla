------------------------- MODULE RenderQueue_proofs -------------------------
(***************************************************************************)
(* Proofs about RenderQueue for every value of its constants: any number   *)
(* of videos, users, runners and jobs, and of requests that outlive their  *)
(* clients.                                                                *)
(*                                                                         *)
(* The argument is about custody.  ResetToPending and the two failure      *)
(* updates put a job back, or settle it, knowing only its id (and for the  *)
(* latter an owner they have just read from the row itself), so nothing in *)
(* the database stops two of them from working on one job.  What does is    *)
(* that a job in somebody's hands is never pending, and that whoever puts   *)
(* it back lets go of it in the same step: OneHolder and HeldIsLive         *)
(* maintain each other.                                                    *)
(***************************************************************************)
EXTENDS RenderQueue, TLAPS

-----------------------------------------------------------------------------
(* The inductive invariant *)

JobOp == {"claim", "complete", "fail"}

\* Each runner waits for exactly the request its main loop has sent.
InSync ==
    /\ \A t \in Threads : handler[t].op \in JobOp => handler[t].job \in JobId
    /\ \A r \in Runners :
        /\ handler[r].op \in JobOp \cup {"none"}
        /\ handler[r].op = "none" => runner[r].at \in {"idle", "working"}
        /\ handler[r].op = "claim" => runner[r].at = "claiming"
        /\ handler[r].op = "complete" => runner[r].at = "completing"
        /\ handler[r].op = "fail" => runner[r].at = "failing"
        /\ handler[r].op # "none" => handler[r].job = runner[r].job
        /\ runner[r].at # "idle" => runner[r].job \in JobId

\* A job somebody holds is not in the queue and has not failed.
HeldIsLive ==
    \A t \in Threads, j \in JobId :
        Holds(t, j) => job[j].status \in {"claimed", "completed"}

\* Any job that could still return to the queue has an attempt left.
AttemptLeft ==
    \A j \in JobId :
        job[j].status \in {"pending", "claimed", "completed"} =>
            job[j].attempts < MaxAttempts

IInv == TypeOK /\ InSync /\ OneHolder /\ HeldIsLive /\ AttemptLeft

-----------------------------------------------------------------------------
(* Facts about the data *)

\* What the assumptions say of the constants.
LEMMA Constants ==
    /\ MaxJobs \in Nat
    /\ MaxAttempts \in Nat
    /\ MaxAttempts > 0
    /\ None \notin Videos
    /\ None \notin Runners
    /\ Runners \subseteq Threads
    /\ Users \subseteq Threads
    /\ Zombies \subseteq Threads
    /\ \A r \in Runners : r \notin Zombies
    /\ NoJob \notin JobId
BY BoundsAssumption, ClientsAssumption, NullAssumption DEF Threads, NoJob, JobId

\* The updates of a row that the statements of jobs.sql make.
LEMMA RowTypes ==
    ASSUME NEW row \in JobRow
    PROVE  /\ \A r \in Runners : [row EXCEPT !.status = "claimed", !.owner = r] \in JobRow
           /\ [row EXCEPT !.status = "pending", !.owner = None] \in JobRow
           /\ [row EXCEPT !.status = "completed"] \in JobRow
           /\ [row EXCEPT !.due = TRUE] \in JobRow
           /\ [row EXCEPT !.cancel = TRUE] \in JobRow
<1>1. \A r \in Runners : [row EXCEPT !.status = "claimed", !.owner = r] \in JobRow
  BY DEF JobRow
<1>2. [row EXCEPT !.status = "pending", !.owner = None] \in JobRow
  BY DEF JobRow
<1>3. [row EXCEPT !.status = "completed"] \in JobRow
  BY DEF JobRow
<1>4. [row EXCEPT !.due = TRUE] \in JobRow
  BY DEF JobRow
<1>5. [row EXCEPT !.cancel = TRUE] \in JobRow
  BY DEF JobRow
<1> QED
  BY <1>1, <1>2, <1>3, <1>4, <1>5

\* The row FailJob or FailJobTerminal leaves behind.
LEMMA FailedRow ==
    ASSUME NEW row \in JobRow, NEW retryable \in BOOLEAN, row.attempts < MaxAttempts
    PROVE  LET next == AfterFailure(row, retryable) IN
           /\ next \in JobRow
           /\ next.status \in {"pending", "failed"}
           /\ next.status = "pending" => next.attempts < MaxAttempts
           /\ next.video = row.video
<1>1. row.attempts \in 0 .. MaxAttempts
  BY DEF JobRow
<1>2. row.attempts + 1 \in 0 .. MaxAttempts
  BY <1>1, Constants
<1>3. ASSUME row.attempts + 1 < MaxAttempts
      PROVE  /\ Requeued(row) \in JobRow
             /\ Requeued(row).status = "pending"
             /\ Requeued(row).attempts < MaxAttempts
             /\ Requeued(row).video = row.video
  BY <1>2, <1>3 DEF Requeued, JobRow
<1>4. /\ GivenUp(row) \in JobRow
      /\ GivenUp(row).status = "failed"
      /\ GivenUp(row).video = row.video
  BY <1>2 DEF GivenUp, JobRow
<1> QED
  BY <1>3, <1>4 DEF AfterFailure

\* Absent rows and new rows are rows.
LEMMA NewRows ==
    /\ NoRow \in JobRow
    /\ \A v \in Videos \cup {None} : PendingRow(v) \in JobRow
<1>1. 0 \in 0 .. MaxAttempts
  BY Constants
<1> QED
  BY <1>1 DEF NoRow, PendingRow, JobRow

\* New requests are requests.
LEMMA RequestTypes ==
    /\ NoRequest \in Request
    /\ \A op \in JobOp, j \in JobId, flag \in BOOLEAN : JobRequest(op, j, flag) \in Request
    /\ \A op \in {"approve_scenes", "rerender"}, v \in Videos : VideoRequest(op, v) \in Request
<1>1. NoRequest \in Request
  BY DEF NoRequest, Request
<1>2. \A op \in JobOp, j \in JobId, flag \in BOOLEAN : JobRequest(op, j, flag) \in Request
  BY DEF JobRequest, JobOp, Request
<1>3. \A op \in {"approve_scenes", "rerender"}, v \in Videos : VideoRequest(op, v) \in Request
  BY DEF VideoRequest, Request
<1> QED
  BY <1>1, <1>2, <1>3

\* So is a request that has gone one step further.
LEMMA ProgressTypes ==
    ASSUME NEW request \in Request
    PROVE  /\ \A pc \in {"commit", "release", "verify"} : [request EXCEPT !.pc = pc] \in Request
           /\ \A r \in Runners \cup {None} :
                [request EXCEPT !.pc = "update", !.owner = r] \in Request
BY DEF Request


-----------------------------------------------------------------------------
(* Type correctness *)

\* Every step keeps the types; only FailUpdate needs AttemptLeft for it.
LEMMA TypeStep ==
    ASSUME TypeOK, InSync, AttemptLeft, [Next]_vars
    PROVE  TypeOK'
<1> USE Constants, RequestTypes
<1>1. ASSUME NEW t \in Threads, ClaimLoadVideo(t) \/ ClaimTxFails(t) PROVE TypeOK'
  <2>1. PICK pc \in {"commit", "release"} : GoTo(t, pc) /\ UNCHANGED <<video, job, runner>>
    BY <1>1 DEF ClaimLoadVideo, ClaimTxFails
  <2> QED
    BY <2>1, ProgressTypes DEF TypeOK, GoTo
<1>2. ASSUME NEW t \in Threads, ClaimCommit(t) PROVE TypeOK'
  <2>1. handler[t].job \in JobId
    BY <1>2 DEF ClaimCommit, Serving, InSync, JobOp
  <2> QED
    BY <1>2, <2>1 DEF TypeOK, ClaimCommit, Finish, Deliver, RunnerState, State
<1>3. ASSUME NEW t \in Threads, ClaimRelease(t) PROVE TypeOK'
  <2>1. handler[t].job \in JobId
    BY <1>3 DEF ClaimRelease, Serving, InSync, JobOp
  <2> QED
    BY <1>3, <2>1, RowTypes DEF TypeOK, ClaimRelease, Finish, Deliver, RunnerState, Resting
<1>4. ASSUME NEW t \in Threads, handler[t].op = "complete", CompleteFails(t)
      PROVE  handler' \in [Threads -> Request] /\ runner' \in [Runners -> RunnerState]
  <2>1. handler[t].job \in JobId
    BY <1>4 DEF InSync, JobOp
  <2>2. JobRequest("fail", handler[t].job, TRUE) \in Request
    BY <2>1 DEF JobOp
  <2> QED
    BY <1>4, <2>1, <2>2 DEF TypeOK, CompleteFails, Deliver, RunnerState
<1>5. ASSUME NEW t \in Threads, LoadOwnedClaimed(t) PROVE TypeOK'
  <2>1. job[handler[t].job].owner \in Runners \cup {None}
    BY <1>5 DEF LoadOwnedClaimed, InSync, JobOp, TypeOK, JobRow
  <2> QED
    BY <1>5, <2>1, ProgressTypes DEF TypeOK, LoadOwnedClaimed
<1>6. ASSUME NEW t \in Threads, CompleteUpdate(t) PROVE TypeOK'
  <2>1. handler[t].op = "complete" /\ handler[t].job \in JobId
    BY <1>6 DEF CompleteUpdate, Serving, InSync, JobOp
  <2>2. CASE Owned(t) /\ handler[t].flag /\ GoTo(t, "verify") /\ UNCHANGED <<runner, video>>
             /\ job' = [job EXCEPT ![handler[t].job].status = "completed"]
    BY <2>1, <2>2, RowTypes, ProgressTypes DEF TypeOK, GoTo
  <2>3. CASE Owned(t) /\ Finish(t) /\ Deliver(t, Resting) /\ UNCHANGED video
             /\ job' = [job EXCEPT ![handler[t].job].status = "completed"]
    BY <2>1, <2>3, RowTypes DEF TypeOK, Finish, Deliver, RunnerState, Resting
  <2>4. CASE CompleteFails(t) /\ UNCHANGED <<job, video>>
    BY <1>4, <2>1, <2>4 DEF TypeOK
  <2> QED
    BY <1>6, <2>2, <2>3, <2>4 DEF CompleteUpdate
<1>7. ASSUME NEW t \in Threads, FinalizeVerify(t) PROVE TypeOK'
  <2>1. handler[t].op = "complete"
    BY <1>7 DEF FinalizeVerify, Serving
  <2>2. CASE GoTo(t, "commit") /\ UNCHANGED runner
    BY <1>7, <2>2, ProgressTypes DEF TypeOK, FinalizeVerify, GoTo
  <2>3. CASE CompleteFails(t)
    BY <1>4, <1>7, <2>1, <2>3 DEF TypeOK, FinalizeVerify
  <2> QED
    BY <1>7, <2>2, <2>3 DEF FinalizeVerify
<1>8. ASSUME NEW t \in Threads, FinalizeCommit(t) PROVE TypeOK'
  BY <1>8 DEF TypeOK, FinalizeCommit, Finish, Deliver, RunnerState, Resting, State
<1>9. ASSUME NEW t \in Threads, FailUpdate(t) PROVE TypeOK'
  <2>1. handler[t].job \in JobId /\ handler[t].flag \in BOOLEAN
    BY <1>9 DEF FailUpdate, Serving, InSync, JobOp, TypeOK, Request
  <2>2. Owned(t) => AfterFailure(job[handler[t].job], handler[t].flag) \in JobRow
    BY <2>1, FailedRow DEF Owned, AttemptLeft, TypeOK
  <2> QED
    BY <1>9, <2>1, <2>2 DEF TypeOK, FailUpdate, Finish, Deliver, RunnerState, Resting
<1>10. ASSUME NEW t \in Threads, ArmRender(t) PROVE TypeOK'
  <2>1. handler[t].video \in Videos \cup {None}
    BY DEF TypeOK, Request
  <2> QED
    BY <1>10, <2>1, NewRows DEF TypeOK, ArmRender, Enqueue, Finish, State
<1>11. ASSUME NEW t \in Threads, Abort(t) PROVE TypeOK'
  <2>1. CASE handler[t].op = "complete" /\ CompleteFails(t)
    BY <1>4, <1>11, <2>1 DEF TypeOK, Abort
  <2>2. CASE Finish(t) /\ Deliver(t, Resting)
    BY <1>11, <2>2 DEF TypeOK, Abort, Finish, Deliver, RunnerState, Resting
  <2> QED
    BY <1>11, <2>1, <2>2 DEF Abort, GivesUp
<1>12. ASSUME NEW r \in Runners, ClaimJob(r) PROVE TypeOK'
  <2>1. PICK j \in JobId :
          /\ job' = [job EXCEPT ![j].status = "claimed", ![j].owner = r]
          /\ handler' = [handler EXCEPT ![r] = JobRequest("claim", j, FALSE)]
          /\ runner' = [runner EXCEPT ![r] = [at |-> "claiming", job |-> j]]
    BY <1>12 DEF ClaimJob
  <2>2. JobRequest("claim", j, FALSE) \in Request
    BY DEF JobOp
  <2> QED
    BY <1>12, <2>1, <2>2, RowTypes DEF TypeOK, ClaimJob, RunnerState
<1>13. ASSUME NEW r \in Runners, NEW op \in JobOp, NEW at \in {"completing", "failing"},
              NEW flag \in BOOLEAN, Report(r, op, at, flag)
       PROVE  TypeOK'
  <2>1. runner[r].job \in JobId
    BY <1>13 DEF Report, InSync
  <2> QED
    BY <1>13, <2>1 DEF TypeOK, Report, RunnerState
<1>14. ASSUME NEW r \in Runners, RunnerDrops(r) \/ RunnerStops(r) PROVE TypeOK'
  BY <1>14 DEF TypeOK, RunnerDrops, RunnerStops, RunnerState, Resting
<1>15. ASSUME NEW r \in Runners, NEW z \in Zombies, Disconnect(r, z) PROVE TypeOK'
  <2>1. handler[r].job \in JobId
    BY <1>15 DEF Disconnect, InSync
  <2>2. JobRequest("fail", handler[r].job, TRUE) \in Request
    BY <2>1 DEF JobOp
  <2> QED
    BY <1>15, <2>1, <2>2 DEF TypeOK, Disconnect, RunnerState, Resting
<1>16. ASSUME NEW u \in Users, NEW v \in Videos, UserStep(u, v) PROVE TypeOK'
  BY <1>16 DEF TypeOK, UserStep, ApproveScenes, RequestRerender, Review, State
<1>17. ASSUME NEW j \in JobId, BackoffElapses(j) \/ CancelRequested(j) PROVE TypeOK'
  <2>1. PICK row \in JobRow :
          job' = [job EXCEPT ![j] = row] /\ UNCHANGED <<video, handler, runner>>
    <3>1. job[j] \in JobRow
      BY DEF TypeOK
    <3>2. CASE BackoffElapses(j)
      BY <3>1, <3>2, RowTypes DEF BackoffElapses
    <3>3. CASE CancelRequested(j)
      BY <3>1, <3>3, RowTypes DEF CancelRequested
    <3> QED
      BY <1>17, <3>2, <3>3
  <2> QED
    BY <2>1 DEF TypeOK
<1>18. ASSUME NEW v \in Videos, Prepare(v) PROVE TypeOK'
  BY <1>18 DEF TypeOK, Prepare, Upstream, State
<1>19. CASE UNCHANGED vars
  BY <1>19 DEF TypeOK, vars
<1>20. ASSUME NEW r \in Runners, RunnerCompletes(r) \/ RunnerFails(r) PROVE TypeOK'
  BY <1>13, <1>20 DEF RunnerCompletes, RunnerFails, JobOp
<1>21. ASSUME NEW t \in Threads, HandlerStep(t) PROVE TypeOK'
  BY <1>1, <1>2, <1>3, <1>5, <1>6, <1>7, <1>8, <1>9, <1>10, <1>21
     DEF HandlerStep, ApproveScenesCommit, RequestRerenderCommit
<1> QED
  BY <1>11, <1>12, <1>14, <1>15, <1>16, <1>17, <1>18, <1>19, <1>20, <1>21
     DEF Next, RunnerStep

-----------------------------------------------------------------------------
(* A runner and its request *)

\* Every step keeps each runner in step with its request.
LEMMA SyncStep ==
    ASSUME TypeOK, InSync, [Next]_vars
    PROVE  InSync'
<1> USE Constants DEF JobOp
<1>1. ASSUME NEW t \in Threads, NEW pc, GoTo(t, pc), UNCHANGED runner PROVE InSync'
  BY <1>1 DEF TypeOK, Request, InSync, GoTo
<1>2. ASSUME NEW t \in Threads, handler[t].op = "claim", Finish(t),
             Deliver(t, [at |-> "working", job |-> handler[t].job])
      PROVE  InSync'
  BY <1>2 DEF TypeOK, InSync, Finish, NoRequest, Deliver
<1>3. ASSUME NEW t \in Threads, Finish(t), Deliver(t, Resting) PROVE InSync'
  BY <1>3 DEF TypeOK, InSync, Finish, NoRequest, Deliver, Resting
<1>4. ASSUME NEW t \in Threads, handler[t].op = "complete", CompleteFails(t) PROVE InSync'
  <2>1. CASE t \in Runners
    BY <1>4, <2>1 DEF TypeOK, InSync, CompleteFails, JobRequest, Deliver
  <2>2. CASE t \notin Runners
    BY <1>4, <2>2 DEF TypeOK, InSync, CompleteFails, NoRequest, Deliver
  <2> QED
    BY <2>1, <2>2
<1>5. ASSUME NEW t \in Threads, LoadOwnedClaimed(t) PROVE InSync'
  BY <1>5 DEF TypeOK, Request, InSync, LoadOwnedClaimed
<1>6. ASSUME NEW t \in Threads, handler[t].op \notin JobOp \cup {"none"}, Finish(t),
             UNCHANGED runner
      PROVE  InSync'
  BY <1>6 DEF TypeOK, InSync, Finish, NoRequest
<1>7. ASSUME NEW r \in Runners, ClaimJob(r) PROVE InSync'
  BY <1>7 DEF TypeOK, InSync, ClaimJob, JobRequest
<1>8. ASSUME NEW r \in Runners, NEW flag, Report(r, "complete", "completing", flag)
      PROVE  InSync'
  BY <1>8 DEF TypeOK, RunnerState, InSync, Report, JobRequest
<1>9. ASSUME NEW r \in Runners, NEW flag, Report(r, "fail", "failing", flag)
      PROVE  InSync'
  BY <1>9 DEF TypeOK, RunnerState, InSync, Report, JobRequest
<1>10. ASSUME NEW r \in Runners, RunnerDrops(r) \/ RunnerStops(r) PROVE InSync'
  BY <1>10 DEF TypeOK, InSync, RunnerDrops, RunnerStops, Resting
<1>11. ASSUME NEW r \in Runners, NEW z \in Zombies, Disconnect(r, z) PROVE InSync'
  <2>1. CASE handler[r].op = "complete"
    BY <1>11, <2>1 DEF TypeOK, InSync, Disconnect, JobRequest
  <2>2. CASE handler[r].op # "complete"
    BY <1>11, <2>2 DEF TypeOK, InSync, Disconnect, NoRequest, Resting
  <2> QED
    BY <2>1, <2>2
<1>12. ASSUME NEW u \in Users, NEW v \in Videos, UserStep(u, v) PROVE InSync'
  BY <1>12, ClientsAssumption
     DEF TypeOK, InSync, UserStep, ApproveScenes, RequestRerender, Review, VideoRequest
<1>13. ASSUME UNCHANGED <<handler, runner>> PROVE InSync'
  BY <1>13 DEF InSync
<1>14. ASSUME NEW t \in Threads, HandlerStep(t) PROVE InSync'
  <2>1. CASE ClaimLoadVideo(t) \/ ClaimTxFails(t)
    BY <1>1, <2>1 DEF ClaimLoadVideo, ClaimTxFails
  <2>2. CASE ClaimCommit(t)
    BY <1>2, <2>2 DEF ClaimCommit, Serving
  <2>3. CASE ClaimRelease(t) \/ FinalizeCommit(t) \/ FailUpdate(t)
    BY <1>3, <2>3 DEF ClaimRelease, FinalizeCommit, FailUpdate
  <2>4. CASE CompleteUpdate(t) \/ FinalizeVerify(t)
    BY <1>1, <1>3, <1>4, <2>4 DEF CompleteUpdate, FinalizeVerify, Serving
  <2>5. CASE ApproveScenesCommit(t) \/ RequestRerenderCommit(t)
    BY <1>6, <2>5 DEF ApproveScenesCommit, RequestRerenderCommit, ArmRender, Serving
  <2> QED
    BY <1>5, <1>14, <2>1, <2>2, <2>3, <2>4, <2>5 DEF HandlerStep
<1>15. ASSUME NEW t \in Threads, Abort(t) PROVE InSync'
  BY <1>3, <1>4, <1>15 DEF Abort, GivesUp
<1>16. ASSUME NEW r \in Runners, RunnerStep(r) PROVE InSync'
  BY <1>7, <1>8, <1>9, <1>10, <1>16 DEF RunnerStep, RunnerCompletes, RunnerFails
<1> QED
  BY <1>10, <1>11, <1>12, <1>13, <1>14, <1>15, <1>16
     DEF Next, vars, BackoffElapses, CancelRequested, Prepare

-----------------------------------------------------------------------------
(* Holders: a job passes from hand to hand, and never into two *)

\* Except for ClaimJob and Disconnect, no step puts a job into new hands.
LEMMA HoldersShrink ==
    ASSUME TypeOK, InSync, [Next]_vars,
           ~ \E r \in Runners : ClaimJob(r),
           ~ \E r \in Runners, z \in Zombies : Disconnect(r, z),
           NEW s \in Threads, NEW j \in JobId, Holds(s, j)'
    PROVE  Holds(s, j)
<1> USE Constants DEF JobOp
<1>1. ASSUME NEW t \in Threads, NEW pc, GoTo(t, pc), UNCHANGED runner PROVE Holds(s, j)
  BY <1>1 DEF TypeOK, Request, Holds, GoTo
<1>2. ASSUME NEW t \in Threads, handler[t].op = "claim", Finish(t),
             Deliver(t, [at |-> "working", job |-> handler[t].job])
      PROVE  Holds(s, j)
  BY <1>2 DEF TypeOK, InSync, Holds, Finish, NoRequest, Deliver
<1>3. ASSUME NEW t \in Threads, Finish(t), Deliver(t, Resting) PROVE Holds(s, j)
  BY <1>3 DEF TypeOK, InSync, Holds, Finish, NoRequest, Deliver, Resting
<1>4. ASSUME NEW t \in Threads, handler[t].op = "complete", CompleteFails(t)
      PROVE  Holds(s, j)
  <2>1. CASE t \in Runners
    BY <1>4, <2>1 DEF TypeOK, InSync, Holds, CompleteFails, JobRequest, Deliver
  <2>2. CASE t \notin Runners
    BY <1>4, <2>2 DEF TypeOK, InSync, Holds, CompleteFails, NoRequest, Deliver
  <2> QED
    BY <2>1, <2>2
<1>5. ASSUME NEW t \in Threads, LoadOwnedClaimed(t) PROVE Holds(s, j)
  BY <1>5 DEF TypeOK, Request, Holds, LoadOwnedClaimed
<1>6. ASSUME NEW t \in Threads, Finish(t), UNCHANGED runner PROVE Holds(s, j)
  BY <1>6 DEF TypeOK, Holds, Finish, NoRequest
<1>7. ASSUME NEW r \in Runners, NEW flag, Report(r, "complete", "completing", flag)
      PROVE  Holds(s, j)
  BY <1>7 DEF TypeOK, RunnerState, Holds, Report, JobRequest
<1>8. ASSUME NEW r \in Runners, NEW flag, Report(r, "fail", "failing", flag)
      PROVE  Holds(s, j)
  BY <1>8 DEF TypeOK, RunnerState, Holds, Report, JobRequest
<1>9. ASSUME NEW r \in Runners, RunnerDrops(r) \/ RunnerStops(r) PROVE Holds(s, j)
  BY <1>9 DEF TypeOK, Holds, RunnerDrops, RunnerStops, Resting
<1>10. ASSUME NEW u \in Users, NEW v \in Videos, UserStep(u, v) PROVE Holds(s, j)
  BY <1>10 DEF TypeOK, Holds, UserStep, ApproveScenes, RequestRerender, Review, VideoRequest
<1>11. ASSUME UNCHANGED <<handler, runner>> PROVE Holds(s, j)
  BY <1>11 DEF Holds
<1>12. ASSUME NEW t \in Threads, HandlerStep(t) PROVE Holds(s, j)
  <2>1. CASE ClaimLoadVideo(t) \/ ClaimTxFails(t)
    BY <1>1, <2>1 DEF ClaimLoadVideo, ClaimTxFails
  <2>2. CASE ClaimCommit(t)
    BY <1>2, <2>2 DEF ClaimCommit, Serving
  <2>3. CASE ClaimRelease(t) \/ FinalizeCommit(t) \/ FailUpdate(t)
    BY <1>3, <2>3 DEF ClaimRelease, FinalizeCommit, FailUpdate
  <2>4. CASE CompleteUpdate(t) \/ FinalizeVerify(t)
    BY <1>1, <1>3, <1>4, <2>4 DEF CompleteUpdate, FinalizeVerify, Serving
  <2>5. CASE ApproveScenesCommit(t) \/ RequestRerenderCommit(t)
    BY <1>6, <2>5 DEF ApproveScenesCommit, RequestRerenderCommit, ArmRender
  <2> QED
    BY <1>5, <1>12, <2>1, <2>2, <2>3, <2>4, <2>5 DEF HandlerStep
<1>13. ASSUME NEW t \in Threads, Abort(t) PROVE Holds(s, j)
  BY <1>3, <1>4, <1>13 DEF Abort, GivesUp
<1>14. ASSUME NEW r \in Runners, RunnerStep(r) PROVE Holds(s, j)
  BY <1>7, <1>8, <1>9, <1>14 DEF RunnerStep, RunnerCompletes, RunnerFails
<1> QED
  BY <1>9, <1>10, <1>11, <1>12, <1>13, <1>14
     DEF Next, vars, BackoffElapses, CancelRequested, Prepare

\* ClaimJob puts one job, which nobody held, into the claimer's hands.
LEMMA HoldersOfClaim ==
    ASSUME TypeOK, InSync, HeldIsLive, NEW r \in Runners, ClaimJob(r)
    PROVE  \E c \in JobId :
             /\ job[c].status = "pending"
             /\ job' = [job EXCEPT ![c].status = "claimed", ![c].owner = r]
             /\ \A s \in Threads : ~Holds(s, c)
             /\ \A s \in Threads, j \in JobId : Holds(s, j)' => Holds(s, j) \/ (s = r /\ j = c)
<1> USE Constants
<1>1. PICK c \in JobId :
        /\ Runnable(c)
        /\ job' = [job EXCEPT ![c].status = "claimed", ![c].owner = r]
        /\ handler' = [handler EXCEPT ![r] = JobRequest("claim", c, FALSE)]
        /\ runner' = [runner EXCEPT ![r] = [at |-> "claiming", job |-> c]]
  BY DEF ClaimJob
<1>2. job[c].status = "pending"
  BY <1>1 DEF Runnable
<1>3. \A s \in Threads : ~Holds(s, c)
  BY <1>2 DEF HeldIsLive
<1>4. \A s \in Threads, j \in JobId : Holds(s, j)' => Holds(s, j) \/ (s = r /\ j = c)
  BY <1>1 DEF TypeOK, Holds, JobRequest
<1> QED
  BY <1>1, <1>2, <1>3, <1>4

\* Disconnect at most hands a job over, from the runner to the request it has left.
LEMMA HoldersOfDisconnect ==
    ASSUME TypeOK, InSync, NEW r \in Runners, NEW z \in Zombies, Disconnect(r, z)
    PROVE  \A s \in Threads, j \in JobId :
             Holds(s, j)' => \/ s # z /\ Holds(s, j)
                             \/ s = z /\ Holds(r, j) /\ ~Holds(r, j)'
<1> USE Constants DEF JobOp
<1>1. handler[r].op \in JobOp /\ r # z /\ z \notin Runners
  BY DEF Disconnect, InSync
<1>2. CASE handler[r].op = "complete"
  BY <1>1, <1>2 DEF TypeOK, InSync, Holds, Disconnect, JobRequest
<1>3. CASE handler[r].op # "complete"
  BY <1>1, <1>3 DEF TypeOK, InSync, Holds, Disconnect, NoRequest, Resting
<1> QED
  BY <1>2, <1>3

-----------------------------------------------------------------------------
(* What a step may do to a job, and who must let go of it *)

\* What happens to the status and the attempts of a job in one step: a row that
\* goes back to the queue, or fails, leaves nobody who holds it.
JobStep(j) ==
    LET old == job[j]
        new == job'[j]
    IN
    \/ new.status = old.status /\ new.attempts = old.attempts
    \/ old.status = "absent" /\ new.status = "pending" /\ new.attempts = 0
    \/ old.status = "pending" /\ new.status = "claimed" /\ new.attempts = old.attempts
    \/ old.status = "claimed" /\ new.status = "completed" /\ new.attempts = old.attempts
    \/ /\ old.status \in {"claimed", "completed"}
       /\ new.status \in {"pending", "failed"}
       /\ new.status = "pending" => new.attempts < MaxAttempts
       /\ \A s \in Threads : ~Holds(s, j)'

\* The request that releases or fails a job was its only holder, and is done.
LEMMA LastHolder ==
    ASSUME TypeOK, InSync, OneHolder, NEW t \in Threads, handler[t].op \in {"claim", "fail"},
           Finish(t), Deliver(t, Resting), NEW j \in JobId, j = handler[t].job
    PROVE  \A s \in Threads : ~Holds(s, j)'
<1>1. Holds(t, j)
  BY DEF Holds
<1>2. \A s \in Threads : Holds(s, j) => s = t
  BY <1>1 DEF OneHolder
<1>3. ~Holds(t, j)'
  BY Constants DEF TypeOK, Holds, Finish, NoRequest, Deliver, Resting
<1>4. ASSUME NEW s \in Threads, s # t PROVE Holds(s, j)' => Holds(s, j)
  BY <1>4, Constants DEF TypeOK, Holds, Finish, Deliver
<1> QED
  BY <1>2, <1>3, <1>4

\* Every step is of that form.
LEMMA EveryJobStep ==
    ASSUME TypeOK, InSync, OneHolder, HeldIsLive, AttemptLeft, [Next]_vars, NEW j \in JobId
    PROVE  JobStep(j)
<1> USE Constants
<1>1. ASSUME job' = job PROVE JobStep(j)
  BY <1>1 DEF JobStep
<1>2. ASSUME NEW t \in Threads, ClaimRelease(t) PROVE JobStep(j)
  <2>1. PICK i \in JobId : i = handler[t].job /\ Holds(t, i)
    BY <1>2 DEF ClaimRelease, Serving, InSync, JobOp, Holds
  <2>2. \A s \in Threads : ~Holds(s, i)'
    BY <1>2, <2>1, LastHolder DEF ClaimRelease, Serving
  <2>3. job[i].status \in {"claimed", "completed"} /\ job[i].attempts < MaxAttempts
    BY <2>1 DEF HeldIsLive, AttemptLeft
  <2>4. job' = [job EXCEPT ![i].status = "pending", ![i].owner = None]
    BY <1>2, <2>1 DEF ClaimRelease
  <2>5. CASE i = j
    BY <2>2, <2>3, <2>4, <2>5 DEF TypeOK, JobRow, JobStep
  <2>6. CASE i # j
    BY <2>4, <2>6 DEF TypeOK, JobStep
  <2> QED
    BY <2>5, <2>6
<1>3. ASSUME NEW t \in Threads, CompleteUpdate(t) PROVE JobStep(j)
  BY <1>3 DEF TypeOK, JobRow, JobStep, CompleteUpdate, Owned
<1>4. ASSUME NEW t \in Threads, FailUpdate(t) PROVE JobStep(j)
  <2>1. PICK i \in JobId : i = handler[t].job
    BY <1>4 DEF FailUpdate, Serving, InSync, JobOp
  <2>2. \A s \in Threads : ~Holds(s, i)'
    BY <1>4, <2>1, LastHolder DEF FailUpdate, Serving
  <2>3. CASE ~Owned(t)
    BY <1>1, <1>4, <2>3 DEF FailUpdate
  <2>4. CASE Owned(t)
    <3>1. job[i] \in JobRow /\ job[i].status = "claimed" /\ job[i].attempts < MaxAttempts
      BY <2>1, <2>4 DEF Owned, AttemptLeft, TypeOK
    <3>2. PICK new : /\ job' = [job EXCEPT ![i] = new]
                     /\ new.status \in {"pending", "failed"}
                     /\ new.status = "pending" => new.attempts < MaxAttempts
      <4>1. handler[t].flag \in BOOLEAN
        BY DEF TypeOK, Request
      <4>2. job' = [job EXCEPT ![i] = AfterFailure(job[i], handler[t].flag)]
        BY <1>4, <2>1, <2>4 DEF FailUpdate
      <4> QED
        BY <3>1, <4>1, <4>2, FailedRow
    <3>3. CASE i = j
      BY <2>2, <3>1, <3>2, <3>3 DEF TypeOK, JobStep
    <3>4. CASE i # j
      BY <3>2, <3>4 DEF TypeOK, JobStep
    <3> QED
      BY <3>3, <3>4
  <2> QED
    BY <2>3, <2>4
<1>5. ASSUME NEW t \in Threads, ArmRender(t) PROVE JobStep(j)
  BY <1>5 DEF TypeOK, JobStep, ArmRender, Enqueue, PendingRow
<1>6. ASSUME NEW r \in Runners, ClaimJob(r) PROVE JobStep(j)
  BY <1>6 DEF TypeOK, JobRow, JobStep, ClaimJob, Runnable
<1>7. ASSUME NEW i \in JobId, BackoffElapses(i) \/ CancelRequested(i) PROVE JobStep(j)
  BY <1>7 DEF TypeOK, JobRow, JobStep, BackoffElapses, CancelRequested
<1>8. ASSUME NEW t \in Threads, HandlerStep(t) PROVE JobStep(j)
  BY <1>1, <1>2, <1>3, <1>4, <1>5, <1>8
     DEF HandlerStep, ClaimLoadVideo, ClaimCommit, ClaimTxFails, LoadOwnedClaimed,
         FinalizeVerify, FinalizeCommit, ApproveScenesCommit, RequestRerenderCommit
<1>9. ASSUME NEW r \in Runners, RunnerStep(r) PROVE JobStep(j)
  BY <1>1, <1>6, <1>9
     DEF RunnerStep, RunnerCompletes, RunnerFails, Report, RunnerDrops
<1> QED
  BY <1>1, <1>7, <1>8, <1>9
     DEF Next, vars, Abort, RunnerStops, Disconnect, UserStep, ApproveScenes,
         RequestRerender, Review, Prepare

\* Every step leaves a job with one holder at most, and only a live job with one.
LEMMA HoldersStep ==
    ASSUME IInv, [Next]_vars
    PROVE  OneHolder' /\ HeldIsLive'
<1> USE DEF IInv
<1>1. \A j \in JobId : JobStep(j)
  BY EveryJobStep
<1>2. ASSUME \A s \in Threads, j \in JobId : Holds(s, j)' => Holds(s, j)
      PROVE  OneHolder' /\ HeldIsLive'
  BY <1>1, <1>2 DEF OneHolder, HeldIsLive, JobStep
<1>3. ASSUME NEW r \in Runners, ClaimJob(r) PROVE OneHolder' /\ HeldIsLive'
  <2>1. PICK c \in JobId :
          /\ job[c].status = "pending"
          /\ job' = [job EXCEPT ![c].status = "claimed", ![c].owner = r]
          /\ \A s \in Threads : ~Holds(s, c)
          /\ \A s \in Threads, j \in JobId : Holds(s, j)' => Holds(s, j) \/ (s = r /\ j = c)
    BY <1>3, HoldersOfClaim
  <2>2. OneHolder'
    BY <2>1 DEF OneHolder
  <2>3. HeldIsLive'
    BY <2>1 DEF HeldIsLive, TypeOK, JobRow
  <2> QED
    BY <2>2, <2>3
<1>4. ASSUME NEW r \in Runners, NEW z \in Zombies, Disconnect(r, z)
      PROVE  OneHolder' /\ HeldIsLive'
  <2>1. \A s \in Threads, j \in JobId :
          Holds(s, j)' => \/ s # z /\ Holds(s, j)
                          \/ s = z /\ Holds(r, j) /\ ~Holds(r, j)'
    BY <1>4, HoldersOfDisconnect
  <2>2. OneHolder'
    BY <2>1, Constants DEF OneHolder
  <2>3. HeldIsLive'
    BY <1>4, <2>1, Constants DEF HeldIsLive, Disconnect
  <2> QED
    BY <2>2, <2>3
<1> QED
  BY <1>2, <1>3, <1>4, HoldersShrink

\* Every step leaves an attempt to a job that may return to the queue.
LEMMA AttemptStep ==
    ASSUME IInv, [Next]_vars
    PROVE  AttemptLeft'
BY EveryJobStep, Constants DEF IInv, AttemptLeft, JobStep

-----------------------------------------------------------------------------
(* The theorems *)

\* The invariant holds at the start.
LEMMA InitIInv == Init => IInv
<1> SUFFICES ASSUME Init PROVE IInv
  OBVIOUS
<1> USE Constants DEF Init
<1>1. TypeOK
  BY RequestTypes, NewRows DEF TypeOK, State, RunnerState, Resting
<1>2. InSync
  BY DEF InSync, NoRequest, Resting, JobOp
<1>3. OneHolder /\ HeldIsLive
  BY DEF OneHolder, HeldIsLive, Holds, NoRequest, Resting
<1>4. AttemptLeft
  BY DEF AttemptLeft, NoRow
<1> QED
  BY <1>1, <1>2, <1>3, <1>4 DEF IInv

\* The invariant is inductive.
LEMMA NextIInv == IInv /\ [Next]_vars => IInv'
<1> SUFFICES ASSUME IInv, [Next]_vars PROVE IInv'
  OBVIOUS
<1> QED
  BY TypeStep, SyncStep, HoldersStep, AttemptStep DEF IInv

\* The inductive invariant: what every state of the queue satisfies, for any number
\* of videos, users, runners, jobs and abandoned requests.
THEOREM Invariant == Spec => []IInv
  BY InitIInv, NextIInv, PTL DEF Spec

\* Type correctness of the queue.
THEOREM TypeCorrect == Spec => []TypeOK
<1>1. IInv => TypeOK
  BY DEF IInv
<1> QED
  BY <1>1, Invariant, PTL

\* A job is never in two hands, whichever requests outlive their runners.
THEOREM NeverTwoHolders == Spec => []OneHolder
<1>1. IInv => OneHolder
  BY DEF IInv
<1> QED
  BY <1>1, Invariant, PTL

\* No job is attempted more than max_attempts times, and none waits in the queue
\* without an attempt left.
THEOREM AttemptsAreBounded == Spec => []AttemptsBounded
<1>1. IInv => AttemptsBounded
  <2> SUFFICES ASSUME IInv, NEW j \in JobId
               PROVE  /\ job[j].attempts <= MaxAttempts
                      /\ Active(j) => job[j].attempts < MaxAttempts
    BY DEF AttemptsBounded
  <2>1. job[j].attempts \in 0 .. MaxAttempts
    BY DEF IInv, TypeOK, JobRow
  <2>2. Active(j) => job[j].attempts < MaxAttempts
    BY DEF IInv, AttemptLeft, Active
  <2> QED
    BY <2>1, <2>2, Constants
<1> QED
  BY <1>1, Invariant, PTL

-----------------------------------------------------------------------------
(***************************************************************************)
(* What RenderQueue guarantees, besides, as long as no request outlives    *)
(* its client (Zombies = {}), for any number of users, runners and jobs.   *)
(* A stale report is then impossible: every claim, completion and failure  *)
(* in progress belongs to the runner that waits for it, so the row a       *)
(* runner has claimed is changed by its own requests only.                 *)
(***************************************************************************)

-----------------------------------------------------------------------------
(* The inductive invariant *)

Mine(r) == job[runner[r].job].status = "claimed" /\ job[runner[r].job].owner = r
Done(r) == job[runner[r].job].status = "completed"

\* What runner r may rely on while it holds its job.
Kept(r) ==
    /\ runner[r].at \in {"claiming", "working"} => Mine(r)
    /\ runner[r].at = "completing" =>
        \/ handler[r].pc = "load" /\ Mine(r)
        \/ handler[r].pc = "update" /\ Mine(r) /\ handler[r].owner = r
        \/ handler[r].pc \in {"verify", "commit"} /\ Done(r)
    /\ runner[r].at = "failing" => Mine(r) \/ Done(r)

ClaimKept ==
    /\ \A u \in Users : handler[u].op \notin JobOp
    /\ \A r \in Runners : Kept(r)

CInv == IInv /\ ClaimKept

-----------------------------------------------------------------------------
\* A runner that is not idle holds its job.
LEMMA BusyHolds ==
    ASSUME TypeOK, InSync, NEW r \in Runners, runner[r].at # "idle"
    PROVE  runner[r].job \in JobId /\ Holds(r, runner[r].job)
BY DEF TypeOK, RunnerState, InSync, JobOp, Holds

\* Without abandoned requests, reports and claims come from runners only.
LEMMA ReportsAreRunners ==
    ASSUME Zombies = {}, ClaimKept, NEW t \in Threads, handler[t].op \in JobOp
    PROVE  t \in Runners
BY DEF Threads, ClaimKept

\* The row a runner works on is changed by the runner's own requests only.
LEMMA RowKept ==
    ASSUME Zombies = {}, CInv, [Next]_vars,
           NEW r \in Runners, runner[r].at # "idle",
           NEW j \in JobId, j = runner[r].job,
           ~ClaimRelease(r), ~FailUpdate(r), ~CompleteUpdate(r)
    PROVE  job'[j].status = job[j].status /\ job'[j].owner = job[j].owner
<1> USE Constants DEF CInv, IInv
<1>1. Holds(r, j) /\ job[j].status \in {"claimed", "completed"}
  BY BusyHolds DEF HeldIsLive
<1>2. ASSUME NEW t \in Threads, handler[t].op \in JobOp, handler[t].job = j PROVE t = r
  <2>1. t \in Runners
    BY <1>2, ReportsAreRunners
  <2>2. Holds(t, j)
    BY <1>2, <2>1, BusyHolds DEF InSync, JobOp
  <2> QED
    BY <1>1, <2>2 DEF OneHolder
<1>3. ASSUME job' = job PROVE job'[j].status = job[j].status /\ job'[j].owner = job[j].owner
  BY <1>3
<1>4. ASSUME NEW t \in Threads, ClaimRelease(t)
      PROVE  job'[j].status = job[j].status /\ job'[j].owner = job[j].owner
  <2>1. handler[t].job # j
    BY <1>2, <1>4 DEF ClaimRelease, Serving, JobOp
  <2> QED
    BY <1>4, <2>1 DEF TypeOK, ClaimRelease
<1>5. ASSUME NEW t \in Threads, CompleteUpdate(t)
      PROVE  job'[j].status = job[j].status /\ job'[j].owner = job[j].owner
  <2>1. handler[t].job # j
    BY <1>2, <1>5 DEF CompleteUpdate, Serving, JobOp
  <2> QED
    BY <1>5, <2>1 DEF TypeOK, CompleteUpdate
<1>6. ASSUME NEW t \in Threads, FailUpdate(t)
      PROVE  job'[j].status = job[j].status /\ job'[j].owner = job[j].owner
  <2>1. handler[t].job # j
    BY <1>2, <1>6 DEF FailUpdate, Serving, JobOp
  <2> QED
    BY <1>6, <2>1 DEF TypeOK, FailUpdate
<1>7. ASSUME NEW t \in Threads, ArmRender(t)
      PROVE  job'[j].status = job[j].status /\ job'[j].owner = job[j].owner
  BY <1>1, <1>7 DEF TypeOK, ArmRender, Enqueue
<1>8. ASSUME NEW s \in Runners, ClaimJob(s)
      PROVE  job'[j].status = job[j].status /\ job'[j].owner = job[j].owner
  BY <1>1, <1>8 DEF TypeOK, ClaimJob, Runnable
<1>9. ASSUME NEW i \in JobId, BackoffElapses(i) \/ CancelRequested(i)
      PROVE  job'[j].status = job[j].status /\ job'[j].owner = job[j].owner
  BY <1>9 DEF TypeOK, JobRow, BackoffElapses, CancelRequested
<1>10. ASSUME NEW t \in Threads, HandlerStep(t)
       PROVE  job'[j].status = job[j].status /\ job'[j].owner = job[j].owner
  BY <1>3, <1>4, <1>5, <1>6, <1>7, <1>10
     DEF HandlerStep, ClaimLoadVideo, ClaimCommit, ClaimTxFails, LoadOwnedClaimed,
         FinalizeVerify, FinalizeCommit, ApproveScenesCommit, RequestRerenderCommit
<1>11. ASSUME NEW s \in Runners, RunnerStep(s)
       PROVE  job'[j].status = job[j].status /\ job'[j].owner = job[j].owner
  BY <1>3, <1>8, <1>11
     DEF RunnerStep, RunnerCompletes, RunnerFails, Report, RunnerDrops
<1> QED
  BY <1>3, <1>9, <1>10, <1>11
     DEF Next, vars, Abort, RunnerStops, Disconnect, UserStep, ApproveScenes,
         RequestRerender, Review, Prepare

\* A runner that takes no step of its own keeps what it relies on.
LEMMA KeptByOthers ==
    ASSUME Zombies = {}, CInv, [Next]_vars, NEW r \in Runners,
           handler'[r] = handler[r], runner'[r] = runner[r],
           ~ClaimRelease(r), ~FailUpdate(r), ~CompleteUpdate(r)
    PROVE  Kept(r)'
<1>1. CASE runner[r].at = "idle"
  BY <1>1 DEF Kept
<1>2. CASE runner[r].at # "idle"
  <2>1. PICK j \in JobId : j = runner[r].job
    BY <1>2, BusyHolds DEF CInv, IInv
  <2>2. job'[j].status = job[j].status /\ job'[j].owner = job[j].owner
    BY <1>2, <2>1, RowKept
  <2> QED
    BY <2>1, <2>2 DEF CInv, ClaimKept, Kept, Mine, Done
<1> QED
  BY <1>1, <1>2

\* What a runner relies on also survives the runner's own steps.
LEMMA KeptStep ==
    ASSUME Zombies = {}, CInv, [Next]_vars, NEW r \in Runners
    PROVE  Kept(r)'
<1> USE Constants DEF CInv, IInv
<1>1. Kept(r) /\ r \in Threads
  BY DEF ClaimKept
<1>2. handler[r].op \in JobOp => handler[r].job = runner[r].job /\ handler[r].job \in JobId
  BY DEF InSync, JobOp
<1>3. handler[r] \in Request /\ runner[r] \in RunnerState
  BY DEF TypeOK
<1>4. ASSUME Finish(r), Deliver(r, Resting) PROVE Kept(r)'
  BY <1>4 DEF TypeOK, Finish, NoRequest, Deliver, Resting, Kept
<1>5. ASSUME handler[r].op = "complete", CompleteFails(r), Mine(r) \/ Done(r), UNCHANGED job
      PROVE  Kept(r)'
  BY <1>2, <1>5 DEF TypeOK, CompleteFails, Deliver, Kept, Mine, Done, JobOp
<1>6. CASE ClaimLoadVideo(r) \/ ClaimTxFails(r)
  <2>1. handler[r].op = "claim" /\ runner[r].at = "claiming"
    BY <1>6 DEF ClaimLoadVideo, ClaimTxFails, Serving, InSync
  <2> QED
    BY <1>1, <1>6, <2>1 DEF ClaimLoadVideo, ClaimTxFails, Kept, Mine, Done
<1>7. CASE ClaimCommit(r)
  <2>1. handler[r].op = "claim" /\ runner[r].at = "claiming" /\ Mine(r)
    BY <1>1, <1>7 DEF ClaimCommit, Serving, InSync, Kept
  <2> QED
    BY <1>2, <1>7, <2>1 DEF TypeOK, ClaimCommit, Deliver, Kept, Mine, JobOp
<1>8. CASE ClaimRelease(r) \/ FinalizeCommit(r) \/ FailUpdate(r)
  BY <1>4, <1>8 DEF ClaimRelease, FinalizeCommit, FailUpdate
<1>9. CASE LoadOwnedClaimed(r)
  <2>1. handler[r].op \in {"complete", "fail"} /\ handler[r].pc = "load"
    BY <1>9 DEF LoadOwnedClaimed
  <2>2. /\ handler'[r].pc = "update"
        /\ handler'[r].owner = job[runner[r].job].owner
        /\ UNCHANGED <<job, runner>>
    BY <1>2, <1>9, <2>1 DEF TypeOK, Request, LoadOwnedClaimed, JobOp
  <2>3. runner[r].at \in {"completing", "failing"}
    BY <2>1 DEF InSync
  <2> QED
    BY <1>1, <2>1, <2>2, <2>3 DEF Kept, Mine, Done
<1>10. CASE CompleteUpdate(r)
  <2>1. /\ handler[r].op = "complete" /\ handler[r].pc = "update"
        /\ runner[r].at = "completing" /\ handler[r].job = runner[r].job
        /\ runner[r].job \in JobId
    BY <1>2, <1>10 DEF CompleteUpdate, Serving, InSync, JobOp
  <2>2. Mine(r)
    BY <1>1, <2>1 DEF Kept
  <2>3. CASE CompleteFails(r) /\ UNCHANGED job
    BY <1>5, <2>1, <2>2, <2>3
  <2>4. CASE /\ job' = [job EXCEPT ![handler[r].job].status = "completed"]
             /\ GoTo(r, "verify")
             /\ UNCHANGED runner
    BY <2>1, <2>4 DEF TypeOK, JobRow, Request, GoTo, Kept, Done
  <2> QED
    BY <1>4, <1>10, <2>3, <2>4 DEF CompleteUpdate
<1>11. CASE FinalizeVerify(r)
  <2>1. handler[r].op = "complete" /\ handler[r].pc = "verify" /\ runner[r].at = "completing"
    BY <1>11 DEF FinalizeVerify, Serving, InSync
  <2>2. Done(r)
    BY <1>1, <2>1 DEF Kept
  <2>3. CASE GoTo(r, "commit") /\ UNCHANGED runner
    BY <1>11, <2>1, <2>2, <2>3 DEF TypeOK, Request, FinalizeVerify, GoTo, Kept, Done
  <2>4. CASE CompleteFails(r)
    BY <1>5, <1>11, <2>1, <2>2, <2>4 DEF FinalizeVerify
  <2> QED
    BY <1>11, <2>3, <2>4 DEF FinalizeVerify
<1>12. CASE Abort(r)
  <2>1. CASE handler[r].op = "complete" /\ CompleteFails(r)
    <3>1. Mine(r) \/ Done(r)
      BY <1>1, <2>1 DEF Kept, InSync
    <3> QED
      BY <1>5, <1>12, <2>1, <3>1 DEF Abort
  <2> QED
    BY <1>4, <1>12, <2>1 DEF Abort, GivesUp
<1>13. CASE ClaimJob(r)
  BY <1>13 DEF TypeOK, JobRow, ClaimJob, Kept, Mine
<1>14. ASSUME NEW op, NEW flag, NEW at \in {"completing", "failing"}, Report(r, op, at, flag)
       PROVE  Kept(r)'
  <2>1. Mine(r)
    BY <1>1, <1>14 DEF Report, Kept
  <2> QED
    BY <1>14, <2>1 DEF TypeOK, RunnerState, Report, JobRequest, Kept, Mine
<1>15. CASE RunnerDrops(r) \/ RunnerStops(r)
  BY <1>15 DEF TypeOK, RunnerDrops, RunnerStops, Resting, Kept
<1>16. ASSUME handler'[r] = handler[r], runner'[r] = runner[r], UNCHANGED job PROVE Kept(r)'
  BY <1>1, <1>16 DEF Kept, Mine, Done
<1>17. CASE ApproveScenesCommit(r) \/ RequestRerenderCommit(r)
  BY <1>17 DEF ApproveScenesCommit, RequestRerenderCommit, Serving, InSync, JobOp
<1>18. CASE \/ HandlerStep(r) \/ Abort(r)
            \/ RunnerStep(r) \/ RunnerStops(r)
  BY <1>6, <1>7, <1>8, <1>9, <1>10, <1>11, <1>12, <1>13, <1>14, <1>15, <1>17, <1>18
     DEF HandlerStep, RunnerStep, RunnerCompletes, RunnerFails
<1>19. CASE ~(HandlerStep(r) \/ Abort(r) \/ RunnerStep(r) \/ RunnerStops(r))
  <2>1. ASSUME NEW t \in Threads, t # r, HandlerStep(t) \/ Abort(t)
        PROVE  handler'[r] = handler[r] /\ runner'[r] = runner[r]
    BY <2>1 DEF TypeOK, HandlerStep, Abort, GivesUp, ClaimLoadVideo, ClaimCommit, ClaimTxFails,
         ClaimRelease, LoadOwnedClaimed, CompleteUpdate, FinalizeVerify, FinalizeCommit,
         FailUpdate, ApproveScenesCommit, RequestRerenderCommit, ArmRender, GoTo, Finish,
         Deliver, CompleteFails
  <2>2. ASSUME NEW s \in Runners, s # r, RunnerStep(s) \/ RunnerStops(s)
        PROVE  handler'[r] = handler[r] /\ runner'[r] = runner[r]
    BY <2>2 DEF TypeOK, RunnerStep, RunnerStops, ClaimJob, RunnerCompletes, RunnerFails,
         Report, RunnerDrops
  <2>3. ASSUME NEW u \in Users, NEW v \in Videos, UserStep(u, v)
        PROVE  handler'[r] = handler[r] /\ runner'[r] = runner[r]
    <3>1. u # r
      BY ClientsAssumption
    <3> QED
      BY <2>3, <3>1 DEF TypeOK, UserStep, ApproveScenes, RequestRerender, Review
  <2>4. handler'[r] = handler[r] /\ runner'[r] = runner[r]
    BY <1>19, <2>1, <2>2, <2>3
       DEF Next, vars, BackoffElapses, CancelRequested, Prepare
  <2> QED
    BY <1>19, <2>4, KeptByOthers DEF HandlerStep
<1> QED
  BY <1>18, <1>19

\* Browser tabs never report on a job.
LEMMA UsersDoNotReport ==
    ASSUME Zombies = {}, CInv, [Next]_vars, NEW u \in Users
    PROVE  handler'[u].op \notin JobOp
<1> USE Constants DEF CInv, IInv, JobOp
<1>1. handler[u].op \notin JobOp /\ u \in Threads /\ u \notin Runners
  BY ClientsAssumption DEF ClaimKept
<1>2. ASSUME NEW t \in Threads, HandlerStep(t) \/ Abort(t) PROVE handler'[u].op \notin JobOp
  <2>1. CASE t = u
    BY <1>1, <1>2, <2>1
       DEF TypeOK, HandlerStep, Abort, GivesUp, ClaimLoadVideo, ClaimCommit, ClaimTxFails,
           ClaimRelease, LoadOwnedClaimed, CompleteUpdate, FinalizeVerify, FinalizeCommit,
           FailUpdate, ApproveScenesCommit, RequestRerenderCommit, ArmRender, Serving, Finish,
           NoRequest
  <2>2. CASE t # u
    BY <1>1, <1>2, <2>2
       DEF TypeOK, HandlerStep, Abort, GivesUp, ClaimLoadVideo, ClaimCommit, ClaimTxFails,
           ClaimRelease, LoadOwnedClaimed, CompleteUpdate, FinalizeVerify, FinalizeCommit,
           FailUpdate, ApproveScenesCommit, RequestRerenderCommit, ArmRender, GoTo, Finish,
           CompleteFails
  <2> QED
    BY <2>1, <2>2
<1>3. ASSUME NEW r \in Runners, RunnerStep(r) \/ RunnerStops(r) PROVE handler'[u] = handler[u]
  BY <1>1, <1>3 DEF TypeOK, RunnerStep, RunnerStops, ClaimJob, RunnerCompletes, RunnerFails,
       Report, RunnerDrops
<1>4. ASSUME NEW w \in Users, NEW v \in Videos, UserStep(w, v)
      PROVE  handler'[u].op \notin JobOp
  BY <1>1, <1>4 DEF TypeOK, UserStep, ApproveScenes, RequestRerender, Review, VideoRequest
<1> QED
  BY <1>1, <1>2, <1>3, <1>4 DEF Next, vars, BackoffElapses, CancelRequested, Prepare

\* The invariant holds at the start.
LEMMA InitCInv == Init => CInv
<1> SUFFICES ASSUME Init PROVE CInv
  OBVIOUS
<1> QED
  BY InitIInv, Constants DEF CInv, ClaimKept, Kept, Init, NoRequest, Resting, JobOp

\* The invariant is inductive.
LEMMA NextCInv ==
    ASSUME Zombies = {}, CInv, [Next]_vars
    PROVE  CInv'
BY NextIInv, UsersDoNotReport, KeptStep DEF CInv, ClaimKept

\* Only a claim that still holds its job resets it, and every other update of
\* a row asks for a status that is not settled.
LEMMA SettledStep ==
    ASSUME Zombies = {}, CInv, [Next]_vars, NEW j \in JobId, Settled(j)
    PROVE  job'[j] = job[j]
<1> USE Constants DEF CInv, IInv, Settled
<1>1. ASSUME NEW t \in Threads, ClaimRelease(t) PROVE job'[j] = job[j]
  <2>1. handler[t].op = "claim"
    BY <1>1 DEF ClaimRelease, Serving
  <2>2. t \in Runners
    BY <2>1, ReportsAreRunners DEF JobOp
  <2>3. job[handler[t].job].status = "claimed"
    BY <2>1, <2>2 DEF InSync, ClaimKept, Kept, Mine
  <2> QED
    BY <1>1, <2>3 DEF TypeOK, ClaimRelease
<1>2. ASSUME NEW t \in Threads, CompleteUpdate(t) \/ FailUpdate(t) PROVE job'[j] = job[j]
  BY <1>2 DEF TypeOK, CompleteUpdate, FailUpdate, Owned
<1>3. ASSUME NEW t \in Threads, ArmRender(t) PROVE job'[j] = job[j]
  BY <1>3 DEF TypeOK, ArmRender, Enqueue
<1>4. ASSUME NEW r \in Runners, ClaimJob(r) PROVE job'[j] = job[j]
  BY <1>4 DEF TypeOK, ClaimJob, Runnable
<1>5. ASSUME NEW i \in JobId, BackoffElapses(i) \/ CancelRequested(i) PROVE job'[j] = job[j]
  BY <1>5 DEF TypeOK, BackoffElapses, CancelRequested, Active
<1>6. ASSUME NEW t \in Threads, HandlerStep(t) PROVE job'[j] = job[j]
  BY <1>1, <1>2, <1>3, <1>6
     DEF HandlerStep, ClaimLoadVideo, ClaimCommit, ClaimTxFails, LoadOwnedClaimed,
         FinalizeVerify, FinalizeCommit, ApproveScenesCommit, RequestRerenderCommit
<1>7. ASSUME NEW r \in Runners, RunnerStep(r) PROVE job'[j] = job[j]
  BY <1>4, <1>7 DEF RunnerStep, RunnerCompletes, RunnerFails, Report, RunnerDrops
<1> QED
  BY <1>5, <1>6, <1>7
     DEF Next, vars, Abort, RunnerStops, Disconnect, UserStep, ApproveScenes,
         RequestRerender, Review, Prepare

\* What a completion commits to the video, it commits for a completed job.
LEMMA ReviewedStep ==
    ASSUME Zombies = {}, CInv, ReviewedWasRendered, [Next]_vars
    PROVE  ReviewedWasRendered'
<1> USE Constants DEF CInv, IInv
<1> SUFFICES ASSUME NEW v \in Videos, video'[v] \in {"final_review", "released"}
             PROVE  \E j \in JobId : job'[j].video = v /\ job'[j].status = "completed"
  BY DEF ReviewedWasRendered
<1>1. CASE video[v] \in {"final_review", "released"}
  <2>1. PICK j \in JobId : job[j].video = v /\ job[j].status = "completed"
    BY <1>1 DEF ReviewedWasRendered
  <2> QED
    BY <2>1, SettledStep DEF Settled
<1>2. CASE video[v] \notin {"final_review", "released"}
  <2>1. ASSUME NEW t \in Threads, FinalizeCommit(t)
        PROVE  \E j \in JobId : job'[j].video = v /\ job'[j].status = "completed"
    <3>1. handler[t].op = "complete" /\ handler[t].pc = "commit"
      BY <2>1 DEF FinalizeCommit, Serving
    <3>2. t \in Runners
      BY <3>1, ReportsAreRunners DEF JobOp
    <3>3. handler[t].job \in JobId /\ job[handler[t].job].status = "completed"
      BY <3>1, <3>2 DEF InSync, JobOp, ClaimKept, Kept, Done
    <3>4. job[handler[t].job].video = v
      BY <1>2, <2>1 DEF TypeOK, FinalizeCommit
    <3> QED
      BY <2>1, <3>3, <3>4 DEF FinalizeCommit
  <2>2. ASSUME NEW t \in Threads, ClaimCommit(t) \/ ArmRender(t) PROVE FALSE
    BY <1>2, <2>2 DEF TypeOK, ClaimCommit, ArmRender
  <2>3. ASSUME NEW u \in Users, NEW w \in Videos, UserStep(u, w) PROVE FALSE
    BY <1>2, <2>3 DEF TypeOK, UserStep, ApproveScenes, RequestRerender, Review
  <2>4. ASSUME NEW w \in Videos, Prepare(w) PROVE FALSE
    BY <1>2, <2>4 DEF TypeOK, Prepare, Upstream
  <2>5. ASSUME video' = video PROVE FALSE
    BY <1>2, <2>5
  <2> QED
    BY <2>1, <2>2, <2>3, <2>4, <2>5
       DEF Next, vars, HandlerStep, ClaimLoadVideo, ClaimTxFails, ClaimRelease,
           LoadOwnedClaimed, CompleteUpdate, FinalizeVerify, FailUpdate, ApproveScenesCommit,
           RequestRerenderCommit, Abort, RunnerStep, RunnerStops, ClaimJob, RunnerCompletes,
           RunnerFails, Report, RunnerDrops, Disconnect, BackoffElapses, CancelRequested
<1> QED
  BY <1>1, <1>2

-----------------------------------------------------------------------------
(* The theorems *)

\* The inductive invariant of a queue whose requests end with their clients.
THEOREM ClaimsInvariant ==
    ASSUME Zombies = {}
    PROVE  Spec => []CInv
BY InitCInv, NextCInv, PTL DEF Spec

\* A runner that works on a job holds its claim (loadOwnedClaimed and the
\* conditions of CompleteJob and FailJob accept its report).
THEOREM WorkersHoldClaims ==
    ASSUME Zombies = {}
    PROVE  Spec => []WorkerHoldsClaim
<1>1. CInv => WorkerHoldsClaim
  BY DEF CInv, ClaimKept, Kept, Mine, WorkerHoldsClaim
<1> QED
  BY <1>1, ClaimsInvariant, PTL

\* The unconditional ResetToPending never revives a completed or failed job.
THEOREM SettledStaysSettled ==
    ASSUME Zombies = {}
    PROVE  Spec => SettledIsFinal
<1>1. CInv /\ [Next]_vars => [\A j \in JobId : Settled(j) => job'[j] = job[j]]_vars
  BY SettledStep
<1> QED
  BY <1>1, ClaimsInvariant, PTL DEF Spec, SettledIsFinal

\* No video reaches its final review, or is released, without a completed render,
\* whatever else happens to it on the way.
THEOREM ReviewFollowsRender ==
    ASSUME Zombies = {}
    PROVE  Spec => []ReviewedWasRendered
<1>1. Init => ReviewedWasRendered
  BY DEF Init, ReviewedWasRendered
<1>2. CInv /\ ReviewedWasRendered /\ [Next]_vars => ReviewedWasRendered'
  BY ReviewedStep
<1> QED
  BY <1>1, <1>2, ClaimsInvariant, PTL DEF Spec

-----------------------------------------------------------------------------
(***************************************************************************)
(* What RenderQueue guarantees, besides, as long as one browser tab at most *)
(* has a request in flight, and no request outlives its client: the queue   *)
(* and the status of the videos agree, and each video follows the canonical *)
(* state machine.  Every update of a status is unconditional; the argument  *)
(* is that whoever is about to make one still has what it has checked.      *)
(***************************************************************************)

-----------------------------------------------------------------------------
(* The inductive invariant *)

OneTab == \A s, t \in Users : s = t

ApproveOp == {"approve_scenes", "rerender"}

\* Who is about to change the status of v.
Approves(u, v) == handler[u].op \in ApproveOp /\ handler[u].video = v
Claims(r, v) == Serving(r, "claim", "commit") /\ job[handler[r].job].video = v
Completes(r, v) ==
    /\ handler[r].op = "complete" /\ handler[r].pc \in {"verify", "commit"}
    /\ job[handler[r].job].video = v

RowsHaveVideos == \A j \in JobId : job[j].status # "absent" => job[j].video \in Videos

\* An enqueueing finds the status it was checked for: no job is there yet.
ApprovalStands ==
    \A u \in Users : handler[u].op \in ApproveOp =>
        /\ handler[u].video \in Videos
        /\ video[handler[u].video] \in {"scenes_review", "final_review"}

ClaimStands == \A r \in Runners, v \in Videos : Claims(r, v) => video[v] = "queued"

\* A completion has settled the only job the video had, and is alone with it.
CompletionStands ==
    \A r \in Runners, v \in Videos : Completes(r, v) =>
        /\ video[v] \in {"queued", "rendering"}
        /\ handler[r].pc = "commit" => video[v] = "rendering"
        /\ \A j \in JobId : Active(j) => job[j].video # v
        /\ \A s \in Runners : Completes(s, v) => s = r

Stands == ApprovalStands /\ ClaimStands /\ CompletionStands

OInv == CInv /\ RowsHaveVideos /\ JobMatchesVideo /\ Stands

-----------------------------------------------------------------------------
(* What a step does to a row and to a status *)

\* A row keeps its video, and becomes one the queue may run only when it is enqueued.
LEMMA RowStep ==
    ASSUME Zombies = {}, OInv, [Next]_vars, NEW j \in JobId
    PROVE  \/ /\ job'[j].video = job[j].video
              /\ job[j].status = "absent" <=> job'[j].status = "absent"
              /\ Active(j)' => Active(j)
           \/ /\ job[j].status = "absent" /\ job'[j].status = "pending"
              /\ \E u \in Users :
                    /\ Approves(u, job'[j].video)
                    /\ \A i \in JobId : i # j => job'[i] = job[i]
                    /\ video' = [video EXCEPT ![job'[j].video] = "queued"]
<1> USE Constants DEF OInv, CInv, IInv
<1> DEFINE Same == /\ job'[j].video = job[j].video
                   /\ job[j].status = "absent" <=> job'[j].status = "absent"
                   /\ Active(j)' => Active(j)
<1>1. CASE job' = job
  BY <1>1 DEF Active
<1>2. ASSUME NEW t \in Threads, ClaimRelease(t) PROVE Same
  <2>1. t \in Runners /\ handler[t].op = "claim"
    BY <1>2, ReportsAreRunners DEF ClaimRelease, Serving, JobOp
  <2>2. handler[t].job \in JobId /\ job[handler[t].job].status = "claimed"
    BY <2>1 DEF InSync, JobOp, ClaimKept, Kept, Mine
  <2> QED
    BY <1>2, <2>2 DEF TypeOK, JobRow, ClaimRelease, Active
<1>3. ASSUME NEW t \in Threads, CompleteUpdate(t) PROVE Same
  BY <1>3 DEF TypeOK, JobRow, CompleteUpdate, Owned, Active
<1>4. ASSUME NEW t \in Threads, FailUpdate(t) PROVE Same
  <2>1. handler[t].job \in JobId
    BY <1>4 DEF FailUpdate, Serving, InSync, JobOp
  <2> QED
    BY <1>4, <2>1 DEF TypeOK, JobRow, FailUpdate, Owned, AfterFailure, Requeued, GivenUp, Active
<1>5. ASSUME NEW r \in Runners, ClaimJob(r) PROVE Same
  BY <1>5 DEF TypeOK, JobRow, ClaimJob, Runnable, Active
<1>6. ASSUME NEW i \in JobId, BackoffElapses(i) \/ CancelRequested(i) PROVE Same
  BY <1>6 DEF TypeOK, JobRow, BackoffElapses, CancelRequested, Active
<1>7. ASSUME NEW t \in Threads, ApproveScenesCommit(t) \/ RequestRerenderCommit(t),
             job'[j] # job[j]
      PROVE  /\ job[j].status = "absent" /\ job'[j].status = "pending"
             /\ \E u \in Users :
                    /\ Approves(u, job'[j].video)
                    /\ \A i \in JobId : i # j => job'[i] = job[i]
                    /\ video' = [video EXCEPT ![job'[j].video] = "queued"]
  <2>1. handler[t].op \in ApproveOp /\ ArmRender(t)
    BY <1>7 DEF ApproveScenesCommit, RequestRerenderCommit, Serving, ApproveOp
  <2>2. t \in Users
    BY <2>1 DEF Threads, InSync, ApproveOp, JobOp
  <2>3. PICK k \in JobId : /\ job[k].status = "absent"
                           /\ job' = [job EXCEPT ![k] = PendingRow(handler[t].video)]
    BY <2>1 DEF ArmRender, Enqueue
  <2>4. k = j
    BY <1>7, <2>3 DEF TypeOK
  <2>5. job'[j] = PendingRow(handler[t].video)
    BY <2>3, <2>4 DEF TypeOK
  <2> QED
    BY <2>1, <2>2, <2>3, <2>4, <2>5 DEF TypeOK, ArmRender, Approves, PendingRow
<1>8. ASSUME NEW t \in Threads, HandlerStep(t)
      PROVE  job'[j] = job[j] \/ Same \/ ApproveScenesCommit(t) \/ RequestRerenderCommit(t)
  BY <1>2, <1>3, <1>4, <1>8
     DEF HandlerStep, ClaimLoadVideo, ClaimCommit, ClaimTxFails, LoadOwnedClaimed,
         FinalizeVerify, FinalizeCommit
<1>9. ASSUME NEW r \in Runners, RunnerStep(r) PROVE job' = job \/ Same
  BY <1>5, <1>9 DEF RunnerStep, RunnerCompletes, RunnerFails, Report, RunnerDrops
<1>10. job'[j] = job[j] => Same
  BY DEF Active
<1> QED
  BY <1>1, <1>6, <1>7, <1>8, <1>9, <1>10
     DEF Next, vars, Abort, RunnerStops, Disconnect, UserStep, ApproveScenes,
         RequestRerender, Review, Prepare

\* Who takes the steps that commit a status, and what they find.
LEMMA CommitsStand ==
    ASSUME Zombies = {}, OInv, NEW t \in Threads
    PROVE  /\ ApproveScenesCommit(t) \/ RequestRerenderCommit(t) =>
                  /\ t \in Users /\ ArmRender(t) /\ handler[t].op \in ApproveOp
                  /\ handler[t].video \in Videos
                  /\ video[handler[t].video] \in {"scenes_review", "final_review"}
           /\ ClaimCommit(t) =>
                  /\ t \in Runners /\ handler[t].job \in JobId
                  /\ job[handler[t].job].status = "claimed" /\ job[handler[t].job].owner = t
                  /\ job[handler[t].job].video \in Videos
                  /\ Claims(t, job[handler[t].job].video)
           /\ FinalizeCommit(t) =>
                  /\ t \in Runners /\ handler[t].job \in JobId
                  /\ job[handler[t].job].video \in Videos
                  /\ handler[t].pc = "commit"
                  /\ Completes(t, job[handler[t].job].video)
<1> USE Constants DEF OInv, CInv, IInv
<1>1. ASSUME ApproveScenesCommit(t) \/ RequestRerenderCommit(t)
      PROVE  /\ t \in Users /\ ArmRender(t) /\ handler[t].op \in ApproveOp
             /\ handler[t].video \in Videos
             /\ video[handler[t].video] \in {"scenes_review", "final_review"}
  <2>1. handler[t].op \in ApproveOp /\ ArmRender(t)
    BY <1>1 DEF ApproveScenesCommit, RequestRerenderCommit, Serving, ApproveOp
  <2>2. t \in Users
    BY <2>1 DEF Threads, InSync, ApproveOp, JobOp
  <2> QED
    BY <2>1, <2>2 DEF Stands, ApprovalStands
<1>2. ASSUME ClaimCommit(t)
      PROVE  /\ t \in Runners /\ handler[t].job \in JobId
             /\ job[handler[t].job].status = "claimed" /\ job[handler[t].job].owner = t
             /\ job[handler[t].job].video \in Videos
             /\ Claims(t, job[handler[t].job].video)
  <2>1. t \in Runners /\ handler[t].op = "claim"
    BY <1>2, ReportsAreRunners DEF ClaimCommit, Serving, JobOp
  <2>2. handler[t].job \in JobId /\ job[handler[t].job].status = "claimed" /\ job[handler[t].job].owner = t
    BY <2>1 DEF InSync, JobOp, ClaimKept, Kept, Mine
  <2> QED
    BY <1>2, <2>1, <2>2 DEF RowsHaveVideos, Claims, ClaimCommit
<1>3. ASSUME FinalizeCommit(t)
      PROVE  /\ t \in Runners /\ handler[t].job \in JobId
             /\ job[handler[t].job].video \in Videos
             /\ handler[t].pc = "commit"
             /\ Completes(t, job[handler[t].job].video)
  <2>1. t \in Runners /\ handler[t].op = "complete" /\ handler[t].pc = "commit"
    BY <1>3, ReportsAreRunners DEF FinalizeCommit, Serving, JobOp
  <2>2. handler[t].job \in JobId /\ job[handler[t].job].status = "completed"
    BY <2>1 DEF InSync, JobOp, ClaimKept, Kept, Done
  <2> QED
    BY <2>1, <2>2 DEF RowsHaveVideos, Completes
<1> QED
  BY <1>1, <1>2, <1>3

\* Every change of a status is one of five, and each finds what was checked for it.
LEMMA VideoStep ==
    ASSUME OneTab, Zombies = {}, OInv, [Next]_vars, NEW v \in Videos, video'[v] # video[v]
    PROVE  \/ /\ video[v] \in {"scenes_review", "final_review"} /\ video'[v] = "queued"
              /\ \E u \in Users : Approves(u, v) /\ handler'[u] = NoRequest
              /\ \E j \in JobId : job'[j].video = v /\ job'[j].status = "pending"
           \/ /\ video[v] = "queued" /\ video'[v] = "rendering" /\ job' = job
              /\ \E r \in Runners : ClaimCommit(r) /\ Claims(r, v)
           \/ /\ video[v] = "rendering" /\ video'[v] = "final_review" /\ job' = job
              /\ \E r \in Runners : Completes(r, v) /\ handler'[r] = NoRequest
           \/ /\ video[v] = "final_review" /\ video'[v] \in {"released", "blocked"}
              /\ job' = job /\ \A u \in Users : handler[u].op = "none"
           \/ /\ video[v] \in Upstream \cup {"blocked"}
              /\ video'[v] \in Upstream \cup {"scenes_review", "blocked"}
              /\ CanTransition(video[v], video'[v]) /\ job' = job /\ handler' = handler
<1> USE Constants DEF OInv, CInv, IInv
<1>1. ASSUME NEW t \in Threads, ApproveScenesCommit(t) \/ RequestRerenderCommit(t)
      PROVE  /\ video[v] \in {"scenes_review", "final_review"} /\ video'[v] = "queued"
             /\ \E u \in Users : Approves(u, v) /\ handler'[u] = NoRequest
             /\ \E j \in JobId : job'[j].video = v /\ job'[j].status = "pending"
  <2>1. /\ t \in Users /\ ArmRender(t) /\ handler[t].op \in ApproveOp
        /\ handler[t].video \in Videos
        /\ video[handler[t].video] \in {"scenes_review", "final_review"}
    BY <1>1, CommitsStand
  <2>2. v = handler[t].video /\ video'[v] = "queued" /\ handler'[t] = NoRequest
    BY <2>1 DEF TypeOK, ArmRender, Finish
  <2>3. \E j \in JobId : job'[j].video = v /\ job'[j].status = "pending"
    BY <2>1, <2>2 DEF TypeOK, ArmRender, Enqueue, PendingRow
  <2> QED
    BY <2>1, <2>2, <2>3 DEF Approves
<1>2. ASSUME NEW t \in Threads, ClaimCommit(t)
      PROVE  /\ video[v] = "queued" /\ video'[v] = "rendering" /\ job' = job
             /\ \E r \in Runners : ClaimCommit(r) /\ Claims(r, v)
  <2>1. t \in Runners /\ job[handler[t].job].video \in Videos /\ Claims(t, job[handler[t].job].video)
    BY <1>2, CommitsStand
  <2>2. v = job[handler[t].job].video /\ video'[v] = "rendering"
    BY <1>2, <2>1 DEF TypeOK, ClaimCommit
  <2> QED
    BY <1>2, <2>1, <2>2 DEF Stands, ClaimStands, ClaimCommit
<1>3. ASSUME NEW t \in Threads, FinalizeCommit(t)
      PROVE  /\ video[v] = "rendering" /\ video'[v] = "final_review" /\ job' = job
             /\ \E r \in Runners : Completes(r, v) /\ handler'[r] = NoRequest
  <2>1. /\ t \in Runners /\ job[handler[t].job].video \in Videos /\ handler[t].pc = "commit"
        /\ Completes(t, job[handler[t].job].video)
    BY <1>3, CommitsStand
  <2>2. v = job[handler[t].job].video /\ video'[v] = "final_review" /\ handler'[t] = NoRequest
    BY <1>3, <2>1 DEF TypeOK, FinalizeCommit, Finish
  <2> QED
    BY <1>3, <2>1, <2>2 DEF Stands, CompletionStands, FinalizeCommit
<1>4. ASSUME NEW u \in Users, NEW w \in Videos, UserStep(u, w)
      PROVE  /\ video[v] = "final_review" /\ video'[v] \in {"released", "blocked"}
             /\ job' = job /\ \A s \in Users : handler[s].op = "none"
  <2>1. Review(u, w)
    BY <1>4 DEF UserStep, ApproveScenes, RequestRerender
  <2> QED
    BY <2>1 DEF TypeOK, Review, OneTab
<1>5. ASSUME NEW w \in Videos, Prepare(w)
      PROVE  /\ video[v] \in Upstream \cup {"blocked"}
             /\ video'[v] \in Upstream \cup {"scenes_review", "blocked"}
             /\ CanTransition(video[v], video'[v]) /\ job' = job /\ handler' = handler
  BY <1>5 DEF TypeOK, Prepare
<1>6. ASSUME NEW t \in Threads, HandlerStep(t)
      PROVE  \/ ApproveScenesCommit(t) \/ RequestRerenderCommit(t)
             \/ ClaimCommit(t) \/ FinalizeCommit(t)
  BY <1>6 DEF HandlerStep, ClaimLoadVideo, ClaimTxFails, ClaimRelease, LoadOwnedClaimed,
       CompleteUpdate, FinalizeVerify, FailUpdate
<1>7. ASSUME NEW r \in Runners, RunnerStep(r) PROVE FALSE
  BY <1>7 DEF RunnerStep, ClaimJob, RunnerCompletes, RunnerFails, Report, RunnerDrops
<1>8. \/ \E t \in Threads : HandlerStep(t)
      \/ \E u \in Users, w \in Videos : UserStep(u, w)
      \/ \E w \in Videos : Prepare(w)
  BY <1>7 DEF Next, vars, Abort, RunnerStops, Disconnect, BackoffElapses, CancelRequested
<1>9. CASE \E t \in Threads : HandlerStep(t)
  BY <1>1, <1>2, <1>3, <1>6, <1>9
<1> QED
  BY <1>4, <1>5, <1>8, <1>9

\* A video with a job that may run is neither approved nor completed meanwhile.
LEMMA MatchStep ==
    ASSUME OneTab, Zombies = {}, OInv, [Next]_vars
    PROVE  RowsHaveVideos' /\ JobMatchesVideo'
<1> USE DEF OInv
<1>1. ASSUME NEW j \in JobId, job'[j].status # "absent" PROVE job'[j].video \in Videos
  BY <1>1, RowStep DEF RowsHaveVideos, Stands, ApprovalStands, Approves
<1>2. ASSUME NEW u \in Users, NEW v \in Videos, Approves(u, v)
      PROVE  \A i \in JobId : ~(Active(i) /\ job[i].video = v)
  BY <1>2 DEF Stands, ApprovalStands, Approves, JobMatchesVideo
<1>3. ASSUME NEW j \in JobId, ~Active(j), Active(j)'
      PROVE  \E u \in Users :
                 /\ Approves(u, job'[j].video) /\ job'[j].video \in Videos
                 /\ \A i \in JobId : i # j => job'[i] = job[i]
                 /\ video'[job'[j].video] = "queued"
  <2>1. PICK u \in Users : /\ Approves(u, job'[j].video)
                           /\ \A i \in JobId : i # j => job'[i] = job[i]
                           /\ video' = [video EXCEPT ![job'[j].video] = "queued"]
    BY <1>3, RowStep
  <2>2. job'[j].video \in Videos
    BY <1>1, <1>3 DEF Active
  <2> QED
    BY <2>1, <2>2 DEF CInv, IInv, TypeOK
<1>4. ASSUME NEW i \in JobId, Active(i), Active(i)'
      PROVE  job'[i].video = job[i].video /\ video'[job[i].video] \in {"queued", "rendering"}
  <2>1. job'[i].video = job[i].video /\ job[i].video \in Videos
    BY <1>4, RowStep DEF Active, RowsHaveVideos
  <2>2. video[job[i].video] \in {"queued", "rendering"}
    BY <1>4 DEF JobMatchesVideo
  <2>3. CASE video'[job[i].video] = video[job[i].video]
    BY <2>1, <2>2, <2>3
  <2>4. CASE video'[job[i].video] # video[job[i].video]
    <3>1. ASSUME NEW r \in Runners, Completes(r, job[i].video) PROVE FALSE
      BY <1>4, <2>1, <3>1 DEF Stands, CompletionStands
    <3> QED
      BY <2>1, <2>2, <2>4, <3>1, VideoStep DEF Upstream
  <2> QED
    BY <2>3, <2>4
<1>5. ASSUME NEW i \in JobId, NEW j \in JobId, Active(i)', Active(j)',
             job'[j].video = job'[i].video, i # j, ~Active(j)
      PROVE  FALSE
  <2>1. PICK u \in Users : /\ Approves(u, job'[j].video) /\ job'[j].video \in Videos
                           /\ \A k \in JobId : k # j => job'[k] = job[k]
    BY <1>3, <1>5
  <2>2. Active(i) /\ job[i].video = job'[j].video
    BY <1>5, <2>1 DEF Active
  <2> QED
    BY <1>2, <2>1, <2>2
<1>6. ASSUME NEW i \in JobId, Active(i)'
      PROVE  /\ video'[job'[i].video] \in {"queued", "rendering"}
             /\ \A j \in JobId : Active(j)' /\ job'[j].video = job'[i].video => i = j
  <2>1. video'[job'[i].video] \in {"queued", "rendering"}
    BY <1>3, <1>4, <1>6
  <2>2. ASSUME NEW j \in JobId, Active(j)', job'[j].video = job'[i].video, i # j PROVE FALSE
    <3>1. Active(i) /\ Active(j)
      BY <1>5, <1>6, <2>2
    <3> QED
      BY <1>4, <1>6, <2>2, <3>1 DEF JobMatchesVideo
  <2> QED
    BY <2>1, <2>2
<1> QED
  BY <1>1, <1>6 DEF RowsHaveVideos, JobMatchesVideo

-----------------------------------------------------------------------------
(* Whoever is about to commit a status still has what it has checked *)

\* A request of the other kind is not touched by the steps of a thread.
LEMMA OtherRequest ==
    ASSUME Zombies = {}, OInv, NEW t \in Threads, NEW s \in Threads, s # t,
           HandlerStep(t) \/ Abort(t)
    PROVE  handler'[s] = handler[s]
BY DEF OInv, CInv, IInv, TypeOK, HandlerStep, Abort, GivesUp, ClaimLoadVideo, ClaimCommit,
       ClaimTxFails, ClaimRelease, LoadOwnedClaimed, CompleteUpdate, FinalizeVerify,
       FinalizeCommit, FailUpdate, ApproveScenesCommit, RequestRerenderCommit, ArmRender, GoTo,
       Finish, CompleteFails

\* A tab with an approval or a re-render in flight has just checked, or has it for longer.
LEMMA ApprovalBegins ==
    ASSUME Zombies = {}, OInv, [Next]_vars, NEW u \in Users, handler'[u].op \in ApproveOp
    PROVE  \/ handler'[u] = handler[u]
           \/ /\ video' = video /\ handler'[u].video \in Videos
              /\ video[handler'[u].video] \in {"scenes_review", "final_review"}
<1> USE Constants DEF OInv, CInv, IInv
<1>1. u \in Threads /\ u \notin Runners /\ handler[u].op \notin JobOp
  BY ClientsAssumption DEF ClaimKept
<1>2. ASSUME NEW t \in Threads, HandlerStep(t) \/ Abort(t) PROVE handler'[u] = handler[u]
  <2>1. CASE t # u
    BY <1>1, <1>2, <2>1, OtherRequest
  <2>2. CASE t = u
    BY <1>1, <1>2, <2>2
       DEF TypeOK, HandlerStep, Abort, GivesUp, ClaimLoadVideo, ClaimCommit, ClaimTxFails,
           ClaimRelease, LoadOwnedClaimed, CompleteUpdate, FinalizeVerify, FinalizeCommit,
           FailUpdate, ApproveScenesCommit, RequestRerenderCommit, ArmRender, Serving, Finish,
           NoRequest, JobOp, ApproveOp
  <2> QED
    BY <2>1, <2>2
<1>3. ASSUME NEW r \in Runners, RunnerStep(r) \/ RunnerStops(r) PROVE handler'[u] = handler[u]
  BY <1>1, <1>3 DEF TypeOK, RunnerStep, RunnerStops, ClaimJob, RunnerCompletes, RunnerFails,
       Report, RunnerDrops
<1>4. ASSUME NEW w \in Users, NEW v \in Videos, UserStep(w, v)
      PROVE  \/ handler'[u] = handler[u]
             \/ /\ video' = video /\ handler'[u].video \in Videos
                /\ video[handler'[u].video] \in {"scenes_review", "final_review"}
  BY <1>1, <1>4 DEF TypeOK, UserStep, ApproveScenes, RequestRerender, Review, VideoRequest
<1> QED
  BY <1>2, <1>3, <1>4 DEF Next, vars, BackoffElapses, CancelRequested, Prepare

\* What an approval has checked stays so until it commits: nobody else has the tab, and
\* neither queue nor pipeline touches a video under review.
LEMMA ApprovalStep ==
    ASSUME OneTab, Zombies = {}, OInv, [Next]_vars
    PROVE  ApprovalStands'
<1> SUFFICES ASSUME NEW u \in Users, handler'[u].op \in ApproveOp
             PROVE  /\ handler'[u].video \in Videos
                    /\ video'[handler'[u].video] \in {"scenes_review", "final_review"}
  BY DEF ApprovalStands
<1>1. CASE handler'[u] = handler[u]
  <2> DEFINE v == handler[u].video
  <2>1. Approves(u, v) /\ v \in Videos /\ video[v] \in {"scenes_review", "final_review"}
    BY <1>1 DEF OInv, Stands, ApprovalStands, Approves
  <2>2. handler[u].op # "none" /\ handler[u] # NoRequest
    BY <1>1 DEF ApproveOp, NoRequest
  <2>3. ASSUME video'[v] # video[v] PROVE FALSE
    <3> HIDE DEF v
    <3> QED
      BY <1>1, <2>1, <2>2, <2>3, VideoStep DEF Upstream, OneTab
  <2> QED
    BY <1>1, <2>1, <2>3
<1> QED
  BY <1>1, ApprovalBegins

\* A claim that may commit has just found its video queued, or has it for longer.
LEMMA ClaimBegins ==
    ASSUME OneTab, Zombies = {}, OInv, [Next]_vars,
           NEW r \in Runners, NEW v \in Videos, Claims(r, v)'
    PROVE  \/ Claims(r, v)
           \/ video' = video /\ video[v] = "queued"
<1> USE Constants DEF OInv, CInv, IInv
<1>1. r \in Threads /\ handler'[r].op = "claim" /\ handler'[r].pc = "commit"
  BY DEF Claims, Serving
<1>2. ASSUME handler'[r] = handler[r] PROVE Claims(r, v)
  <2>1. handler[r].job \in JobId /\ job[handler[r].job].status # "absent"
    BY <1>1, <1>2 DEF InSync, JobOp, ClaimKept, Kept, Mine
  <2>2. job'[handler[r].job].video = job[handler[r].job].video
    BY <2>1, RowStep
  <2> QED
    BY <1>1, <1>2, <2>2 DEF Claims, Serving
<1>3. ASSUME NEW t \in Threads, HandlerStep(t) \/ Abort(t)
      PROVE  handler'[r] = handler[r] \/ (video' = video /\ video[v] = "queued")
  <2>1. CASE t # r
    BY <1>3, <2>1, OtherRequest
  <2>2. CASE t = r /\ ClaimLoadVideo(r)
    <3>1. /\ handler[r].op = "claim" /\ handler[r].job \in JobId
          /\ job[handler[r].job].status = "claimed"
      BY <2>2 DEF ClaimLoadVideo, Serving, InSync, JobOp, ClaimKept, Kept, Mine
    <3>2. /\ job' = job /\ video' = video /\ handler'[r].job = handler[r].job
          /\ CanTransition(video[job[handler[r].job].video], "rendering")
      BY <1>1, <2>2, <3>1 DEF TypeOK, Request, ClaimLoadVideo, GoTo
    <3>3. video[v] \in {"queued", "rendering"} /\ job[handler[r].job].video = v
      BY <3>1, <3>2 DEF JobMatchesVideo, Active, Claims
    <3> QED
      BY <3>2, <3>3 DEF CanTransition, Edges, ChainEdges, ReverseEdges, BlockEdges
  <2>3. CASE t = r /\ ~ClaimLoadVideo(r)
    BY <1>1, <1>3, <2>3
       DEF TypeOK, Request, HandlerStep, Abort, GivesUp, ClaimCommit, ClaimTxFails,
           ClaimRelease, LoadOwnedClaimed, CompleteUpdate, FinalizeVerify, FinalizeCommit,
           FailUpdate, ApproveScenesCommit, RequestRerenderCommit, ArmRender, Serving, GoTo,
           Finish, NoRequest, CompleteFails, JobRequest
  <2> QED
    BY <2>1, <2>2, <2>3
<1>4. ASSUME NEW s \in Runners, RunnerStep(s) \/ RunnerStops(s) PROVE handler'[r] = handler[r]
  <2>1. CASE RunnerDrops(s) \/ RunnerStops(s)
    BY <2>1 DEF RunnerDrops, RunnerStops
  <2>2. ASSUME NEW op, NEW j, NEW flag,
               handler' = [handler EXCEPT ![s] = JobRequest(op, j, flag)]
        PROVE  handler'[r] = handler[r]
    BY <1>1, <2>2 DEF TypeOK, JobRequest
  <2>3. CASE ClaimJob(s)
    BY <2>2, <2>3 DEF ClaimJob
  <2>4. CASE RunnerCompletes(s) \/ RunnerFails(s)
    BY <2>2, <2>4 DEF RunnerCompletes, RunnerFails, Report
  <2> QED
    BY <1>4, <2>1, <2>3, <2>4 DEF RunnerStep
<1>5. ASSUME NEW u \in Users, NEW w \in Videos, UserStep(u, w) PROVE handler'[r] = handler[r]
  <2>1. u # r
    BY ClientsAssumption
  <2> QED
    BY <1>5, <2>1 DEF TypeOK, UserStep, ApproveScenes, RequestRerender, Review
<1> QED
  BY <1>2, <1>3, <1>4, <1>5 DEF Next, vars, BackoffElapses, CancelRequested, Prepare

\* The video of a claim stays queued until the claim commits.
LEMMA ClaimStep ==
    ASSUME OneTab, Zombies = {}, OInv, [Next]_vars
    PROVE  ClaimStands'
<1> USE Constants DEF OInv, CInv, IInv
<1> SUFFICES ASSUME NEW r \in Runners, NEW v \in Videos, Claims(r, v)'
             PROVE  video'[v] = "queued"
  BY DEF ClaimStands
<1>1. CASE video' = video /\ video[v] = "queued"
  BY <1>1
<1>2. CASE Claims(r, v)
  <2>1. /\ handler[r].job \in JobId /\ job[handler[r].job].status = "claimed"
        /\ job[handler[r].job].owner = r /\ job[handler[r].job].video = v
    BY <1>2 DEF Claims, Serving, InSync, JobOp, ClaimKept, Kept, Mine
  <2>2. video[v] = "queued"
    BY <1>2 DEF Stands, ClaimStands
  <2>3. ASSUME NEW s \in Runners, ClaimCommit(s), Claims(s, v) PROVE FALSE
    <3>1. /\ handler[s].job \in JobId /\ job[handler[s].job].status = "claimed"
          /\ job[handler[s].job].owner = s /\ job[handler[s].job].video = v
      BY <2>3 DEF Claims, Serving, InSync, JobOp, ClaimKept, Kept, Mine
    <3>2. s = r
      BY <2>1, <3>1 DEF JobMatchesVideo, Active
    <3>3. handler'[r] = NoRequest
      BY <2>3, <3>2 DEF TypeOK, ClaimCommit, Finish
    <3> QED
      BY <3>3 DEF Claims, Serving, NoRequest
  <2>4. ASSUME video'[v] # video[v] PROVE FALSE
    BY <2>2, <2>3, <2>4, VideoStep DEF Upstream
  <2> QED
    BY <2>2, <2>4
<1> QED
  BY <1>1, <1>2, ClaimBegins

\* A completion that may commit has just settled the only job its video had, or has it for
\* longer; and it has found the video rendering before it commits.
LEMMA CompletionBegins ==
    ASSUME OneTab, Zombies = {}, OInv, [Next]_vars,
           NEW r \in Runners, NEW v \in Videos, Completes(r, v)'
    PROVE  \/ /\ Completes(r, v)
              /\ \/ handler'[r].pc = handler[r].pc
                 \/ video' = video /\ video[v] = "rendering"
           \/ /\ video' = video
              /\ CompleteUpdate(r) /\ handler'[r].pc = "verify"
              /\ \E j \in JobId : /\ Active(j) /\ job[j].video = v
                                  /\ job' = [job EXCEPT ![j].status = "completed"]
<1> USE Constants DEF OInv, CInv, IInv
<1> DEFINE Goes == /\ Completes(r, v)
                   /\ \/ handler'[r].pc = handler[r].pc
                      \/ video' = video /\ video[v] = "rendering"
           Starts == /\ video' = video
                     /\ CompleteUpdate(r) /\ handler'[r].pc = "verify"
                     /\ \E j \in JobId : /\ Active(j) /\ job[j].video = v
                                         /\ job' = [job EXCEPT ![j].status = "completed"]
<1>1. r \in Threads /\ handler'[r].op = "complete" /\ handler'[r].pc \in {"verify", "commit"}
  BY DEF Completes
<1>2. ASSUME handler'[r] = handler[r] PROVE Goes
  <2>1. handler[r].job \in JobId /\ job[handler[r].job].status # "absent"
    BY <1>1, <1>2 DEF InSync, JobOp, ClaimKept, Kept, Done
  <2>2. job'[handler[r].job].video = job[handler[r].job].video
    BY <2>1, RowStep
  <2> QED
    BY <1>1, <1>2, <2>2 DEF Completes
<1>3. ASSUME NEW t \in Threads, HandlerStep(t) \/ Abort(t)
      PROVE  handler'[r] = handler[r] \/ Goes \/ Starts
  <2>1. CASE t # r
    BY <1>3, <2>1, OtherRequest
  <2>2. CASE t = r /\ CompleteUpdate(r)
    <3>1. /\ handler[r].op = "complete" /\ handler[r].pc = "update" /\ handler[r].job \in JobId
          /\ job[handler[r].job].status = "claimed"
      BY <2>2 DEF CompleteUpdate, Serving, InSync, JobOp, ClaimKept, Kept, Mine
    <3>2. CASE CompleteFails(r)
      BY <1>1, <3>2 DEF TypeOK, CompleteFails, JobRequest
    <3>3. CASE Finish(r)
      BY <1>1, <3>3 DEF TypeOK, Finish, NoRequest
    <3>4. CASE /\ job' = [job EXCEPT ![handler[r].job].status = "completed"]
               /\ GoTo(r, "verify")
      <4>1. handler'[r].pc = "verify" /\ handler'[r].job = handler[r].job
        BY <1>1, <3>4 DEF TypeOK, Request, GoTo
      <4>2. job'[handler[r].job].video = job[handler[r].job].video
        BY <3>1, <3>4 DEF TypeOK, JobRow
      <4>3. job[handler[r].job].video = v /\ Active(handler[r].job)
        BY <3>1, <4>1, <4>2 DEF Completes, Active
      <4> QED
        BY <2>2, <3>1, <3>4, <4>1, <4>3 DEF CompleteUpdate
    <3> QED
      BY <2>2, <3>2, <3>3, <3>4 DEF CompleteUpdate
  <2>3. CASE t = r /\ FinalizeVerify(r)
    <3>1. /\ handler[r].op = "complete" /\ handler[r].pc = "verify"
          /\ job' = job /\ video' = video
      BY <2>3 DEF FinalizeVerify, Serving
    <3>2. CASE CompleteFails(r)
      BY <1>1, <3>2 DEF TypeOK, CompleteFails, JobRequest
    <3>3. CASE video[job[handler[r].job].video] = "rendering" /\ GoTo(r, "commit")
      <4>1. handler'[r].job = handler[r].job
        BY <1>1, <3>3 DEF TypeOK, Request, GoTo
      <4> QED
        BY <3>1, <3>3, <4>1 DEF Completes
    <3> QED
      BY <2>3, <3>2, <3>3 DEF FinalizeVerify
  <2>4. CASE t = r /\ ~CompleteUpdate(r) /\ ~FinalizeVerify(r)
    BY <1>1, <1>3, <2>4
       DEF TypeOK, Request, HandlerStep, Abort, GivesUp, ClaimLoadVideo, ClaimCommit,
           ClaimTxFails, ClaimRelease, LoadOwnedClaimed, FinalizeCommit,
           FailUpdate, ApproveScenesCommit, RequestRerenderCommit, ArmRender, Serving, GoTo,
           Finish, NoRequest, CompleteFails, JobRequest
  <2> QED
    BY <2>1, <2>2, <2>3, <2>4
<1>4. ASSUME NEW s \in Runners, RunnerStep(s) \/ RunnerStops(s) PROVE handler'[r] = handler[r]
  <2>1. CASE RunnerDrops(s) \/ RunnerStops(s)
    BY <2>1 DEF RunnerDrops, RunnerStops
  <2>2. ASSUME NEW op, NEW j, NEW flag,
               handler' = [handler EXCEPT ![s] = JobRequest(op, j, flag)]
        PROVE  handler'[r] = handler[r]
    BY <1>1, <2>2 DEF TypeOK, JobRequest
  <2>3. CASE ClaimJob(s)
    BY <2>2, <2>3 DEF ClaimJob
  <2>4. CASE RunnerCompletes(s) \/ RunnerFails(s)
    BY <2>2, <2>4 DEF RunnerCompletes, RunnerFails, Report
  <2> QED
    BY <1>4, <2>1, <2>3, <2>4 DEF RunnerStep
<1>5. ASSUME NEW u \in Users, NEW w \in Videos, UserStep(u, w) PROVE handler'[r] = handler[r]
  <2>1. u # r
    BY ClientsAssumption
  <2> QED
    BY <1>5, <2>1 DEF TypeOK, UserStep, ApproveScenes, RequestRerender, Review
<1> QED
  BY <1>2, <1>3, <1>4, <1>5 DEF Next, vars, BackoffElapses, CancelRequested, Prepare

\* A completion stays alone with its video until it commits.
LEMMA CompletionStep ==
    ASSUME OneTab, Zombies = {}, OInv, [Next]_vars
    PROVE  CompletionStands'
<1> USE Constants DEF OInv
<1>1. ASSUME NEW r \in Runners, NEW v \in Videos, Completes(r, v), Completes(r, v)'
      PROVE  /\ video'[v] = video[v]
             /\ \A j \in JobId : Active(j)' => job'[j].video # v
  <2>1. /\ video[v] \in {"queued", "rendering"}
        /\ \A j \in JobId : Active(j) => job[j].video # v
        /\ \A s \in Runners : Completes(s, v) => s = r
    BY <1>1 DEF Stands, CompletionStands
  <2>2. ASSUME NEW s \in Runners, Claims(s, v) PROVE FALSE
    <3>1. /\ handler[s].job \in JobId /\ job[handler[s].job].status = "claimed"
          /\ job[handler[s].job].video = v
      BY <2>2 DEF CInv, IInv, Claims, Serving, InSync, JobOp, ClaimKept, Kept, Mine
    <3> QED
      BY <2>1, <3>1 DEF Active
  <2>3. handler'[r] # NoRequest
    BY <1>1 DEF Completes, NoRequest
  <2>4. ASSUME video'[v] # video[v] PROVE FALSE
    BY <2>1, <2>2, <2>3, <2>4, VideoStep DEF Upstream
  <2>5. ASSUME NEW u \in Users, Approves(u, v) PROVE FALSE
    BY <2>1, <2>5 DEF Stands, ApprovalStands, Approves
  <2>6. ASSUME NEW j \in JobId, Active(j)', job'[j].video = v PROVE FALSE
    BY <2>1, <2>5, <2>6, RowStep
  <2> QED
    BY <2>4, <2>6
<1>2. ASSUME NEW r \in Runners, NEW v \in Videos, Completes(r, v)', ~Completes(r, v)
      PROVE  /\ video'[v] \in {"queued", "rendering"}
             /\ handler'[r].pc = "verify"
             /\ \A j \in JobId : Active(j)' => job'[j].video # v
             /\ \A s \in Runners : ~Completes(s, v)
  <2>1. /\ video' = video /\ handler'[r].pc = "verify"
        /\ \E j \in JobId : /\ Active(j) /\ job[j].video = v
                            /\ job' = [job EXCEPT ![j].status = "completed"]
    BY <1>2, CompletionBegins
  <2>2. PICK j \in JobId : /\ Active(j) /\ job[j].video = v
                           /\ job' = [job EXCEPT ![j].status = "completed"]
    BY <2>1
  <2>3. video[v] \in {"queued", "rendering"}
    BY <2>2 DEF JobMatchesVideo
  <2>4. ASSUME NEW s \in Runners, Completes(s, v) PROVE FALSE
    BY <2>2, <2>4 DEF Stands, CompletionStands
  <2>5. ASSUME NEW i \in JobId, Active(i)', job'[i].video = v PROVE FALSE
    <3>1. i # j
      BY <2>2, <2>5 DEF CInv, IInv, TypeOK, JobRow, Active
    <3>2. Active(i) /\ job[i].video = v
      BY <2>2, <2>5, <3>1 DEF CInv, IInv, TypeOK, Active
    <3> QED
      BY <2>2, <3>1, <3>2 DEF JobMatchesVideo
  <2> QED
    BY <2>1, <2>3, <2>4, <2>5
<1>3. ASSUME NEW r \in Runners, NEW v \in Videos, Completes(r, v)'
      PROVE  /\ video'[v] \in {"queued", "rendering"}
             /\ handler'[r].pc = "commit" => video'[v] = "rendering"
             /\ \A j \in JobId : Active(j)' => job'[j].video # v
  <2>1. CASE Completes(r, v)
    <3>1. video[v] \in {"queued", "rendering"} /\ (handler[r].pc = "commit" => video[v] = "rendering")
      BY <2>1 DEF Stands, CompletionStands
    <3>2. handler'[r].pc = handler[r].pc \/ video[v] = "rendering" \/ handler'[r].pc = "verify"
      BY <1>3, CompletionBegins
    <3> QED
      BY <1>1, <1>3, <2>1, <3>1, <3>2
  <2>2. CASE ~Completes(r, v)
    BY <1>2, <1>3, <2>2
  <2> QED
    BY <2>1, <2>2
<1>4. ASSUME NEW r \in Runners, NEW s \in Runners, NEW v \in Videos,
             Completes(r, v)', Completes(s, v)', s # r
      PROVE  FALSE
  <2>1. CASE Completes(r, v) /\ Completes(s, v)
    BY <1>4, <2>1 DEF Stands, CompletionStands
  <2>2. CASE ~Completes(r, v) /\ Completes(s, v)
    BY <1>2, <1>4, <2>2
  <2>3. CASE Completes(r, v) /\ ~Completes(s, v)
    BY <1>2, <1>4, <2>3
  <2>4. CASE ~Completes(r, v) /\ ~Completes(s, v)
    <3>1. CompleteUpdate(r) /\ CompleteUpdate(s)
      BY <1>4, <2>4, CompletionBegins
    <3>2. handler'[s] = handler[s]
      BY <1>4, <3>1, OtherRequest DEF HandlerStep
    <3> QED
      BY <1>4, <3>1, <3>2 DEF CompleteUpdate, Serving, Completes
  <2> QED
    BY <2>1, <2>2, <2>3, <2>4
<1> QED
  BY <1>3, <1>4 DEF CompletionStands

\* The invariant holds at the start.
LEMMA InitOInv == Init => OInv
<1> SUFFICES ASSUME Init PROVE OInv
  OBVIOUS
<1>1. /\ \A j \in JobId : job[j].status = "absent"
      /\ \A t \in Threads : handler[t].op = "none"
  BY DEF Init, NoRow, NoRequest
<1> QED
  BY <1>1, InitCInv, Constants
     DEF OInv, RowsHaveVideos, JobMatchesVideo, Active, Stands, ApprovalStands, ApproveOp,
         ClaimStands, Claims, Serving, CompletionStands, Completes

\* The invariant is inductive.
LEMMA NextOInv ==
    ASSUME OneTab, Zombies = {}, OInv, [Next]_vars
    PROVE  OInv'
BY NextCInv, MatchStep, ApprovalStep, ClaimStep, CompletionStep DEF OInv, Stands

\* A status that changes goes along an edge.
LEMMA EdgeStep ==
    ASSUME OneTab, Zombies = {}, OInv, [Next]_vars, NEW v \in Videos
    PROVE  [Lifecycle(v)!Next]_(video[v])
<1>1. CASE video'[v] = video[v]
  BY <1>1
<1>2. CASE video'[v] # video[v]
  <2>1. CanTransition(video[v], video'[v])
    BY <1>2, VideoStep
       DEF CanTransition, Edges, ChainEdges, ReverseEdges, BlockEdges, State
  <2>2. video'[v] \in State
    BY NextCInv DEF OInv, CInv, IInv, TypeOK
  <2> QED
    BY <2>1, <2>2 DEF Lifecycle!Next, Lifecycle!Move, Lifecycle!CanTransition,
       Lifecycle!Edges, Lifecycle!ChainEdges, Lifecycle!ReverseEdges, Lifecycle!BlockEdges,
       Lifecycle!State, CanTransition, Edges, ChainEdges, ReverseEdges, BlockEdges, State
<1> QED
  BY <1>1, <1>2

\* A job of a queued video waits, or is in the hands of a claim that puts it back or sets
\* the video rendering.
LEMMA RunnableStep ==
    ASSUME OneTab, Zombies = {}, "abort" \notin Faults, OInv, QueuedIsRunnable, [Next]_vars
    PROVE  QueuedIsRunnable'
<1> USE Constants DEF OInv, CInv, IInv
<1> DEFINE Waits(j) == job[j].status = "pending"
           Claimed(t, j) == handler[t].op = "claim" /\ handler[t].job = j
<1>1. ASSUME NEW j \in JobId, Waits(j)
      PROVE  Waits(j)' \/ \E t \in Threads : Claimed(t, j)'
  <2>1. ASSUME NEW t \in Threads, NEW i \in JobId, handler[t].job = i,
               handler[t].op \in JobOp, Holds(t, i)
        PROVE  i # j
    BY <1>1, <2>1 DEF HeldIsLive
  <2>2. ASSUME NEW t \in Threads, ClaimRelease(t) \/ CompleteUpdate(t) \/ FailUpdate(t)
        PROVE  Waits(j)'
    <3>1. handler[t].op \in JobOp
      BY <2>2 DEF ClaimRelease, CompleteUpdate, FailUpdate, Serving, JobOp
    <3>2. t \in Runners /\ handler[t].job \in JobId
      BY <3>1, ReportsAreRunners DEF InSync
    <3>3. Holds(t, handler[t].job)
      BY <3>1, <3>2, BusyHolds DEF InSync, JobOp
    <3>4. handler[t].job # j
      BY <2>1, <3>1, <3>2, <3>3
    <3> QED
      BY <1>1, <2>2, <3>2, <3>4 DEF TypeOK, ClaimRelease, CompleteUpdate, FailUpdate
  <2>3. ASSUME NEW t \in Threads, ArmRender(t) PROVE Waits(j)'
    BY <1>1, <2>3 DEF TypeOK, ArmRender, Enqueue
  <2>4. ASSUME NEW r \in Runners, ClaimJob(r) PROVE Waits(j)' \/ \E t \in Threads : Claimed(t, j)'
    <3>1. PICK i \in JobId :
              /\ job' = [job EXCEPT ![i].status = "claimed", ![i].owner = r]
              /\ handler' = [handler EXCEPT ![r] = JobRequest("claim", i, FALSE)]
      BY <2>4 DEF ClaimJob
    <3>2. Claimed(r, i)'
      BY <3>1 DEF TypeOK, JobRequest
    <3>3. i # j => Waits(j)'
      BY <1>1, <3>1 DEF TypeOK
    <3> QED
      BY <3>2, <3>3
  <2>5. ASSUME NEW i \in JobId, BackoffElapses(i) \/ CancelRequested(i) PROVE Waits(j)'
    BY <1>1, <2>5 DEF TypeOK, JobRow, BackoffElapses, CancelRequested
  <2>6. ASSUME NEW t \in Threads, HandlerStep(t) PROVE Waits(j)'
    BY <1>1, <2>2, <2>3, <2>6
       DEF HandlerStep, ClaimLoadVideo, ClaimCommit, ClaimTxFails, LoadOwnedClaimed,
           FinalizeVerify, FinalizeCommit, ApproveScenesCommit, RequestRerenderCommit
  <2>7. ASSUME NEW r \in Runners, RunnerStep(r)
        PROVE  Waits(j)' \/ \E t \in Threads : Claimed(t, j)'
    BY <1>1, <2>4, <2>7 DEF RunnerStep, RunnerCompletes, RunnerFails, Report, RunnerDrops
  <2> QED
    BY <1>1, <2>5, <2>6, <2>7
       DEF Next, vars, Abort, RunnerStops, Disconnect, UserStep, ApproveScenes,
           RequestRerender, Review, Prepare
<1>2. ASSUME NEW j \in JobId, NEW t \in Threads, Claimed(t, j),
             video'[job[j].video] = "queued"
      PROVE  Waits(j)' \/ Claimed(t, j)'
  <2>1. t \in Runners
    BY <1>2, ReportsAreRunners DEF JobOp
  <2>2. ASSUME NEW s \in Threads, s # t, HandlerStep(s) PROVE Claimed(t, j)'
    BY <1>2, <2>2, OtherRequest
  <2>3. ASSUME HandlerStep(t) PROVE Waits(j)' \/ Claimed(t, j)'
    <3>1. CASE ClaimCommit(t)
      <4>1. video' = [video EXCEPT ![job[j].video] = "rendering"] /\ job[j].video \in Videos
        BY <1>2, <3>1, CommitsStand DEF ClaimCommit
      <4> QED
        BY <1>2, <4>1 DEF TypeOK
    <3>2. CASE ClaimRelease(t)
      BY <1>2, <3>2 DEF TypeOK, JobRow, ClaimRelease
    <3>3. CASE ClaimLoadVideo(t) \/ ClaimTxFails(t)
      BY <1>2, <3>3 DEF TypeOK, Request, ClaimLoadVideo, ClaimTxFails, GoTo
    <3> QED
      BY <1>2, <2>3, <3>1, <3>2, <3>3
         DEF HandlerStep, LoadOwnedClaimed, CompleteUpdate, FinalizeVerify, FinalizeCommit,
             FailUpdate, ApproveScenesCommit, RequestRerenderCommit, Serving
  <2>4. ASSUME NEW r \in Runners, RunnerStep(r) \/ RunnerStops(r) PROVE Claimed(t, j)'
    <3>1. CASE RunnerDrops(r) \/ RunnerStops(r)
      BY <1>2, <3>1 DEF RunnerDrops, RunnerStops
    <3>2. CASE ClaimJob(r) \/ RunnerCompletes(r) \/ RunnerFails(r)
      <4>1. handler[r].op = "none"
        BY <3>2 DEF ClaimJob, RunnerCompletes, RunnerFails, Report
      <4>2. r # t
        BY <1>2, <4>1
      <4> QED
        BY <1>2, <3>2, <4>2 DEF TypeOK, ClaimJob, RunnerCompletes, RunnerFails, Report
    <3> QED
      BY <2>4, <3>1, <3>2 DEF RunnerStep
  <2>5. ASSUME NEW u \in Users, NEW w \in Videos, UserStep(u, w) PROVE Claimed(t, j)'
    <3>1. u # t
      BY <2>1, ClientsAssumption
    <3> QED
      BY <1>2, <2>5, <3>1 DEF TypeOK, UserStep, ApproveScenes, RequestRerender, Review
  <2> QED
    BY <1>2, <2>2, <2>3, <2>4, <2>5
       DEF Next, vars, Abort, BackoffElapses, CancelRequested, Prepare
<1> SUFFICES ASSUME NEW v \in Videos, video'[v] = "queued"
             PROVE  \E j \in JobId : /\ job'[j].video = v
                                     /\ Waits(j)' \/ \E t \in Threads : Claimed(t, j)'
  BY DEF QueuedIsRunnable
<1>3. CASE video[v] = "queued"
  <2>1. PICK j \in JobId : job[j].video = v /\ (Waits(j) \/ \E t \in Threads : Claimed(t, j))
    BY <1>3 DEF QueuedIsRunnable
  <2>2. job[j].status # "absent"
    <3>1. CASE Waits(j)
      BY <3>1
    <3>2. CASE \E t \in Threads : Claimed(t, j)
      BY <3>2, ReportsAreRunners DEF InSync, JobOp, ClaimKept, Kept, Mine
    <3> QED
      BY <2>1, <3>1, <3>2
  <2>3. job'[j].video = v
    BY <2>1, <2>2, RowStep
  <2>4. Waits(j)' \/ \E t \in Threads : Claimed(t, j)'
    BY <1>1, <1>2, <2>1
  <2> QED
    BY <2>3, <2>4
<1>4. CASE video[v] # "queued"
  BY <1>4, VideoStep DEF Upstream
<1> QED
  BY <1>3, <1>4

-----------------------------------------------------------------------------
(* The theorems *)

\* The inductive invariant of a queue with one tab.
THEOREM TabInvariant ==
    ASSUME OneTab, Zombies = {}
    PROVE  Spec => []OInv
BY InitOInv, NextOInv, PTL DEF Spec

\* A video has one pending or claimed job at most, and only while it is queued or
\* rendering ("exactly one pending render job", services/video_service.go:465): with one
\* tab, whatever runners, stages and requests do, and wherever they are cut short.
THEOREM JobsMatchVideos ==
    ASSUME OneTab, Zombies = {}
    PROVE  Spec => []JobMatchesVideo
<1>1. OInv => JobMatchesVideo
  BY DEF OInv
<1> QED
  BY <1>1, TabInvariant, PTL

\* The queue implements the canonical state machine of each video ("Every status change in
\* the system MUST go through this package", domain/videostate/state.go:2).
THEOREM QueueFollowsLifecycle ==
    ASSUME OneTab, Zombies = {}
    PROVE  Spec => FollowsLifecycle
<1>1. Init => \A v \in Videos : Lifecycle(v)!Init
  BY DEF Init, Lifecycle!Init, Lifecycle!State
<1>2. OInv /\ [Next]_vars => [\A v \in Videos : [Lifecycle(v)!Next]_(video[v])]_vars
  BY EdgeStep
<1> QED
  BY <1>1, <1>2, TabInvariant, PTL DEF Spec, FollowsLifecycle

\* A queued video has a job that waits, or that a request in progress is claiming ("a claimed
\* job never sits without an owner", services/job_service.go:85), as long as no request is
\* cut short between two of its statements.
THEOREM QueuedAreRunnable ==
    ASSUME OneTab, Zombies = {}, "abort" \notin Faults
    PROVE  Spec => []QueuedIsRunnable
<1>1. Init => QueuedIsRunnable
  BY DEF Init, QueuedIsRunnable
<1>2. OInv /\ QueuedIsRunnable /\ [Next]_vars => QueuedIsRunnable'
  BY RunnableStep
<1> QED
  BY <1>1, <1>2, TabInvariant, PTL DEF Spec
=============================================================================
