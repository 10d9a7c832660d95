------------------------------ MODULE Release -------------------------------
(***************************************************************************)
(* From the rendered cut of one video to its release: ApproveFinalCut and   *)
(* the release builder it runs, the launch checklist, RequestRerender, and  *)
(* the runner that replaces the render files under all of them.             *)
(*                                                                         *)
(* As in RenderQueue each database round trip of a request is one action,   *)
(* and so is each copy of a render file.  SetChecklistItemPublished is a    *)
(* READ COMMITTED transaction: what it writes is seen by the others when it *)
(* commits, its count sees what the others have committed, and the row it   *)
(* has updated stays locked in between.                                     *)
(***************************************************************************)
EXTENDS Integers, VideoState

CONSTANTS
    Users,    \* browser tabs that may have a request in flight
    Shorts,   \* number of short-N.mp4 renders
    Items,    \* number of checklist items: the shorts, YouTube, the text platforms
    MaxCuts,  \* bound on the number of renders of the video
    Faults    \* what may go wrong, see FaultKind

\* "build": a step of the release builder fails (ffmpeg, disk, git, database)
\* "abort": a request ends between two steps (client gone, so that its context is
\*          cancelled and every later query of it fails; server crash)
FaultKind == {"build", "abort"}

\* Checklist items in the order in which Build seeds them.
Item == 1 .. Items
YouTube == Shorts + 1

\* The items whose package is a copied render file.
Packaged == 1 .. YouTube

ASSUME ItemsAssumption == Shorts \in Nat /\ Items \in Nat /\ Shorts < Items
ASSUME CutsAssumption == MaxCuts \in Nat
ASSUME FaultsAssumption == Faults \subseteq FaultKind

VARIABLES
    status,     \* videos.status
    checklist,  \* release_checklist: is the row there, and is it published
    renders,    \* renders/*.mp4: the cut each file comes from, 0 when missing
    packages,   \* releases/**/video.mp4: likewise
    cut,        \* the render the runner is at, or was at last
    runner,     \* whether the runner works on a render of the video
    handler     \* the request each tab has in flight on the server

vars == <<status, checklist, renders, packages, cut, runner, handler>>

-----------------------------------------------------------------------------

Cut == 0 .. MaxCuts
ReviewState == {"queued", "rendering", "final_review", "released", "blocked"}

Request ==
    [op      : {"none", "approve", "toggle", "rerender"},
     pc      : {"done", "build", "long", "copy", "row", "git", "block",
                "update", "count", "commit"},
     item    : Item,
     publish : BOOLEAN,      \* the box is ticked, or cleared
     from    : ReviewState,  \* the status a toggle has read
     closes  : BOOLEAN]      \* the toggle has found the checklist complete

NoRequest == [op |-> "none", pc |-> "done", item |-> YouTube, publish |-> FALSE,
              from |-> "queued", closes |-> FALSE]

TypeOK ==
    /\ status \in ReviewState
    /\ checklist \in [Item -> {"absent", "open", "published"}]
    /\ renders \in [Packaged -> Cut]
    /\ packages \in [Packaged -> Cut]
    /\ cut \in Cut
    /\ runner \in {"idle", "rendering"}
    /\ handler \in [Users -> Request]

Init ==
    /\ status = "queued"
    /\ checklist = [i \in Item |-> "absent"]
    /\ renders = [i \in Packaged |-> 0]
    /\ packages = [i \in Packaged |-> 0]
    /\ cut = 0
    /\ runner = "idle"
    /\ handler = [u \in Users |-> NoRequest]

At(u, op, pc) == handler[u].op = op /\ handler[u].pc = pc
Free(u) == handler[u].op = "none"
Finish(u) == handler' = [handler EXCEPT ![u] = NoRequest]
Start(u, request) == handler' = [handler EXCEPT ![u] = request]
Step(u, pc, item) == handler' = [handler EXCEPT ![u].pc = pc, ![u].item = item]
GoTo(u, pc) == handler' = [handler EXCEPT ![u].pc = pc]

\* The row of an item a toggle has updated and not committed.
Locked(i) ==
    \E u \in Users :
        /\ handler[u].op = "toggle"
        /\ handler[u].pc \in {"count", "commit"}
        /\ handler[u].item = i

\* One row per package, all there once a build has come to its end.
AllSeeded == \A i \in Item : checklist[i] # "absent"
AllPublished == \A i \in Item : checklist[i] = "published"

-----------------------------------------------------------------------------
(* ApproveFinalCut and ReleaseBuilder.Build *)

Unbuilt == [NoRequest EXCEPT !.op = "approve", !.pc = "build"]

\* The check of the status; the approval is recorded in the history.
ApproveFinalCut(u) ==
    /\ Free(u)
    /\ status = "final_review"
    /\ Start(u, Unbuilt)
    /\ UNCHANGED <<status, checklist, renders, packages, cut, runner>>

\* Build reads the video again.
BuildLoad(u) ==
    /\ At(u, "approve", "build")
    /\ GoTo(u, IF status = "final_review" THEN "long" ELSE "block")
    /\ UNCHANGED <<status, checklist, renders, packages, cut, runner>>

CopyRender(i) == packages' = [packages EXCEPT ![i] = renders[i]]

\* Mutant: all rows at once, before the shorts are copied.
AfterRowUncopied(u, i) ==
    \/ i < Items /\ Step(u, "row", i + 1)
    \/ i = Items /\ GoTo(u, "git")

\* What follows the row of item i: each short is copied before its row is seeded,
\* the rows of the platforms come last.
AfterRow(u, i) ==
    \/ i < Shorts /\ Step(u, "copy", i + 1)
    \/ i >= Shorts /\ i < Items /\ Step(u, "row", i + 1)
    \/ i = Items /\ GoTo(u, "git")

\* youtube/: the long render, before everything else.
CopyLong(u) ==
    /\ At(u, "approve", "long")
    /\ CopyRender(YouTube)
    /\ AfterRow(u, 0)
    /\ UNCHANGED <<status, checklist, renders, cut, runner>>

CopyShort(u) ==
    /\ At(u, "approve", "copy")
    /\ CopyRender(handler[u].item)
    /\ GoTo(u, "row")
    /\ UNCHANGED <<status, checklist, renders, cut, runner>>

\* Mutant: ON CONFLICT DO UPDATE SET published = excluded.published
SeededAnew(row) == "open"

\* ON CONFLICT keeps published as it is.
Seeded(row) == IF row = "absent" THEN "open" ELSE row

UpsertChecklistItem(u) ==
    LET i == handler[u].item IN
    /\ At(u, "approve", "row")
    /\ ~Locked(i)
    /\ checklist' = [checklist EXCEPT ![i] = Seeded(@)]
    /\ AfterRow(u, i)
    /\ UNCHANGED <<status, renders, packages, cut, runner>>

\* workspace.Commit, then the answer.
BuildCommit(u) ==
    /\ At(u, "approve", "git")
    /\ Finish(u)
    /\ UNCHANGED <<status, checklist, renders, packages, cut, runner>>

\* Mutant: the failure is logged only.
BuildFailsSilently(u) ==
    /\ "build" \in Faults
    /\ handler[u].op = "approve"
    /\ handler[u].pc \in {"build", "long", "copy", "row", "git"}
    /\ Finish(u)
    /\ UNCHANGED <<status, checklist, renders, packages, cut, runner>>

BuildFails(u) ==
    /\ "build" \in Faults
    /\ handler[u].op = "approve"
    /\ handler[u].pc \in {"build", "long", "copy", "row", "git"}
    /\ GoTo(u, "block")
    /\ UNCHANGED <<status, checklist, renders, packages, cut, runner>>

\* The status is set without videostate, and whatever it has become.
BlockVideo(u) ==
    /\ At(u, "approve", "block")
    /\ status' = "blocked"
    /\ Finish(u)
    /\ UNCHANGED <<checklist, renders, packages, cut, runner>>

-----------------------------------------------------------------------------
(* SetChecklistItemPublished *)

\* GetVideo, before the transaction.
SetChecklistItemPublished(u, i, publish) ==
    /\ Free(u)
    /\ Start(u, [NoRequest EXCEPT !.op = "toggle", !.pc = "update", !.item = i,
                                  !.publish = publish, !.from = status])
    /\ UNCHANGED <<status, checklist, renders, packages, cut, runner>>

\* Mutant: an upsert instead of the UPDATE.
ToggleUpserts(u) ==
    /\ At(u, "toggle", "update")
    /\ ~Locked(handler[u].item)
    /\ GoTo(u, "count")
    /\ UNCHANGED <<status, checklist, renders, packages, cut, runner>>

\* The UPDATE: it waits for the row's lock, and reports a row that is not there.
ToggleUpdate(u) ==
    LET i == handler[u].item IN
    /\ At(u, "toggle", "update")
    /\ \/ checklist[i] = "absent" /\ Finish(u)
       \/ checklist[i] # "absent" /\ ~Locked(i) /\ GoTo(u, "count")
    /\ UNCHANGED <<status, checklist, renders, packages, cut, runner>>

\* The checklist as the transaction of u leaves it.
Toggled(u) ==
    [checklist EXCEPT ![handler[u].item] = IF handler[u].publish THEN "published" ELSE "open"]

\* Mutant: every tick in review closes the checklist.
ToggleCountsNothing(u) ==
    /\ At(u, "toggle", "count")
    /\ handler' = [handler EXCEPT
                     ![u].pc = "commit",
                     ![u].closes = handler[u].from = "final_review" /\ handler[u].publish]
    /\ UNCHANGED <<status, checklist, renders, packages, cut, runner>>

\* Mutant: releases whatever the status.
ToggleAnyStatus(u) ==
    /\ At(u, "toggle", "count")
    /\ handler' = [handler EXCEPT
                     ![u].pc = "commit",
                     ![u].closes = /\ \A i \in Item : Toggled(u)[i] # "open"
                                   /\ handler[u].publish]
    /\ UNCHANGED <<status, checklist, renders, packages, cut, runner>>

\* CountUnpublishedItems, and the decision.
ToggleCount(u) ==
    /\ At(u, "toggle", "count")
    /\ handler' = [handler EXCEPT
                     ![u].pc = "commit",
                     ![u].closes = /\ \A i \in Item : Toggled(u)[i] # "open"
                                   /\ handler[u].from = "final_review"
                                   /\ handler[u].publish]
    /\ UNCHANGED <<status, checklist, renders, packages, cut, runner>>

ToggleCommit(u) ==
    /\ At(u, "toggle", "commit")
    /\ checklist' = Toggled(u)
    /\ status' = IF handler[u].closes THEN "released" ELSE status
    /\ Finish(u)
    /\ UNCHANGED <<renders, packages, cut, runner>>

-----------------------------------------------------------------------------
(* RequestRerender, the runner, and the way back from blocked *)

\* Mutant: also reopens a released video.
RerenderReleased(u) ==
    /\ Free(u)
    /\ status \in {"final_review", "released"}
    /\ Start(u, [NoRequest EXCEPT !.op = "rerender", !.pc = "commit"])
    /\ UNCHANGED <<status, checklist, renders, packages, cut, runner>>

RequestRerender(u) ==
    /\ Free(u)
    /\ status = "final_review"
    /\ Start(u, [NoRequest EXCEPT !.op = "rerender", !.pc = "commit"])
    /\ UNCHANGED <<status, checklist, renders, packages, cut, runner>>

RerenderCommit(u) ==
    /\ At(u, "rerender", "commit")
    /\ status' = "queued"
    /\ Finish(u)
    /\ UNCHANGED <<checklist, renders, packages, cut, runner>>

\* ClaimJob, as one step; RenderQueue has its parts.
RenderStarts ==
    /\ status = "queued"
    /\ runner = "idle"
    /\ cut < MaxCuts
    /\ status' = "rendering"
    /\ runner' = "rendering"
    /\ cut' = cut + 1
    /\ UNCHANGED <<checklist, renders, packages, handler>>

\* One finalized upload: the file moves over the one of the cut before.
RenderUploaded(i) ==
    /\ runner = "rendering"
    /\ renders[i] # cut
    /\ renders' = [renders EXCEPT ![i] = cut]
    /\ UNCHANGED <<status, checklist, packages, cut, runner, handler>>

\* Mutant: does not wait for every artifact.
RenderDoneEarly ==
    /\ runner = "rendering"
    /\ \E i \in Packaged : renders[i] = cut
    /\ status' = IF status = "rendering" THEN "final_review" ELSE status
    /\ runner' = "idle"
    /\ UNCHANGED <<checklist, renders, packages, cut, handler>>

\* CompleteJob, as one step: all artifacts have the hashes of this cut.
RenderDone ==
    /\ runner = "rendering"
    /\ \A i \in Packaged : renders[i] = cut
    /\ status' = IF status = "rendering" THEN "final_review" ELSE status
    /\ runner' = "idle"
    /\ UNCHANGED <<checklist, renders, packages, cut, handler>>

\* A blocked video goes the whole way through script, recording and scenes again;
\* here that is one step.
Rearm ==
    /\ status = "blocked"
    /\ status' = "queued"
    /\ UNCHANGED <<checklist, renders, packages, cut, runner, handler>>

Abort(u) ==
    /\ "abort" \in Faults
    /\ ~Free(u)
    /\ Finish(u)
    /\ UNCHANGED <<status, checklist, renders, packages, cut, runner>>

-----------------------------------------------------------------------------

HandlerStep(u) ==
    \/ BuildLoad(u) \/ CopyLong(u) \/ CopyShort(u) \/ UpsertChecklistItem(u)
    \/ BuildCommit(u) \/ BuildFails(u) \/ BlockVideo(u)
    \/ ToggleUpdate(u) \/ ToggleCount(u) \/ ToggleCommit(u)
    \/ RerenderCommit(u)

Next ==
    \/ \E u \in Users : \/ ApproveFinalCut(u) \/ RequestRerender(u)
                        \/ HandlerStep(u) \/ Abort(u)
    \/ \E u \in Users, i \in Item, publish \in BOOLEAN :
            SetChecklistItemPublished(u, i, publish)
    \/ RenderStarts \/ RenderDone \/ Rearm
    \/ \E i \in Packaged : RenderUploaded(i)

Spec == Init /\ [][Next]_vars

\* A handler that has started keeps running.  Users and the runner need not act.
FairSpec == Spec /\ \A u \in Users : WF_vars(HandlerStep(u))

-----------------------------------------------------------------------------
(* What the release promises *)

\* Whatever tabs and failures do, an item of the checklist has its package: a row
\* is seeded after the file it offers for download.
SeededHasPackage == \A i \in Packaged : checklist[i] # "absent" => packages[i] # 0

\* A released video has been through a release build: an empty checklist has no
\* open item either, and must not release anything.
ReleasedWasBuilt == status = "released" => packages[YouTube] # 0

\* Building again never takes back a tick of the checklist: only a request that
\* clears the box does.
TicksSurvive ==
    [][\A i \in Item :
         checklist[i] = "published" /\ checklist'[i] # "published" =>
            \E u \in Users : At(u, "toggle", "commit") /\ handler[u].item = i
                             /\ ~handler[u].publish]_vars

\* released is terminal.
ReleasedIsFinal == [][status = "released" => status' = "released"]_vars

Releases == status # "released" /\ status' = "released"

\* A video is released only when every row there is has been published.
ReleasedWhenComplete == [][Releases => \A i \in Item : checklist'[i] # "open"]_vars

\* The change that completes the checklist of a video in review releases it.
CompletingReleases ==
    [][~AllPublished /\ AllPublished' /\ status = "final_review" => status' = "released"]_vars

\* A build that comes to its end leaves the packages of the latest cut, all of them.
PackagesOfOneCut ==
    [][\A u \in Users : BuildCommit(u) => \A i \in Packaged : packages[i] = cut]_vars

\* An approval ends with the whole checklist seeded, or with a blocked video.
ApprovalSettles ==
    \A u \in Users : handler[u].op = "approve" ~> (AllSeeded \/ status = "blocked")

\* The status moves along the canonical edges only.
Lifecycle == INSTANCE VideoLifecycle
FollowsLifecycle == Lifecycle!Spec
=============================================================================
