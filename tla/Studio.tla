------------------------------- MODULE Studio -------------------------------
(***************************************************************************)
(* One video on its way through the studio, and one browser tab through     *)
(* which a person takes it there: the routes and pages of the frontend,     *)
(* what each of them shows and offers, the query cache behind them, the     *)
(* handlers their buttons call, the observer of script.json, and the        *)
(* events (EventHub.tla) that are to tell a page to read again, and do not:  *)
(* useStudioEvents, and the mutations that do as it does, look for the name  *)
(* of the service in String(queryKey[0]), and the keys of connect-query      *)
(* begin with "connect-query".  What a page shows is what it read when it    *)
(* opened, when its window was looked at again, or after a call of the      *)
(* script page.                                                             *)
(*                                                                         *)
(* What the other modules open is one step here: the takes and the services *)
(* that follow them (Recording.tla, TakeUpload.tla), the job and its runner *)
(* (RenderQueue.tla, RenderStages.tla), the release (Release.tla).  A call   *)
(* the server refuses changes nothing but an error on the page: a handler   *)
(* is there with the condition under which it goes through.                 *)
(***************************************************************************)
EXTENDS EventHub, VideoState

CONSTANTS
    Segments,    \* segments of the script
    MaxChanges,  \* bound on the changes of status after the first state
    MaxDetours,  \* bound on what nobody needs: see Detour
    Detours      \* the kinds of detour that may happen

DetourKind ==
    {"go", "reload", "logout", "expire", "reject", "rejectCard", "regenerate", "rerender",
     "write", "break", "restart", "focus", "stop"}

ASSUME StudioAssumption ==
    /\ IsFiniteSet(Segments) /\ Segments # {}
    /\ MaxChanges \in Nat
    /\ Detours \subseteq DetourKind /\ MaxDetours \in Nat

VARIABLES
    video,        \* its row and its script.json, see Snapshot
    touched,      \* script.json was written and the observer has not looked at it yet
    atWork,       \* what the stage waits for is on its way, see Waits
    built,        \* the checklist has its rows
    unannounced,  \* changes of status committed, whose event is still to be published
    tab,          \* the page, the token and what is open on the page
    cache,        \* the last answer to each query
    fetch,        \* the query of the page, when it is being asked
    call,         \* the mutation whose answer is under way
    cards,        \* the decisions the browser keeps on the scenes
    detours       \* how many are left

serverVars == <<video, touched, atWork, built, unannounced>>
pageVars == <<tab, cache, fetch, call, cards>>
vars == <<hubVars, serverVars, pageVars, detours>>

-----------------------------------------------------------------------------
(* What is on the server *)

\* "broken": not a script; "plain": a script, with a scene the grammar refuses or none where
\* one is due; "scened": a script whose scenes are accepted.
Script == {"none", "broken", "plain", "scened"}
Valid == {"plain", "scened"}

\* at counts the changes of status, from one.  A script that is no script is not answered.
\* The final page reads the checklist with the video.
Snapshot ==
    [status |-> video.status, script |-> IF video.script = "broken" THEN "none" ELSE video.script,
     at |-> video.at, built |-> built]
NoData == [status |-> "none", script |-> "none", at |-> 0, built |-> FALSE]

\* In these stages a video waits for the agent to write, for the goroutine that concatenates
\* its takes and derives its timelines, or for its job.
ForAgent == {"script_pending", "scenes_pending"}
Waits == ForAgent \cup {"voice_processing", "queued", "rendering"}

\* A change of status, with or without an event that tells of it.
Silently(to) ==
    /\ video.at <= MaxChanges
    /\ CanTransition(video.status, to)
    /\ video' = [video EXCEPT !.status = to, !.at = @ + 1]
    /\ atWork' = (to \in Waits)
    /\ UNCHANGED unannounced

Moves(to) ==
    /\ video.at <= MaxChanges
    /\ CanTransition(video.status, to)
    /\ video' = [video EXCEPT !.status = to, !.at = @ + 1]
    /\ atWork' = (to \in Waits)
    /\ unannounced' = unannounced \cup {video.at + 1}

WritesScript(script) ==
    /\ video' = [video EXCEPT !.script = script]
    /\ touched' = TRUE
    /\ UNCHANGED unannounced

\* publishStatusChanged and the observer's publisher come after the commit.
Announce(change) ==
    /\ Publish(change)
    /\ unannounced' = unannounced \ {change}
    /\ UNCHANGED <<video, touched, atWork, built, pageVars, detours>>

-----------------------------------------------------------------------------
(* The browser: pages, queries and their cache *)

\* The tabs of VideoPipelineNav, one for each stage of a video; what the shell leads to.
Tabs == {"roteiro", "studio", "voz", "cenas", "final"}
ShellPages == {"dashboard"}
Page == {"login"} \cup ShellPages \cup Tabs

\* The dashboard lists the videos; the studio asks for its video by slug and the other pages
\* by id, which are two entries of the cache.
QueryOf(page) ==
    IF page = "dashboard" THEN "list" ELSE IF page = "studio" THEN "slug" ELSE "id"
Query == {"list", "slug", "id"}
Shown == cache[QueryOf(tab.page)]
Loading == Shown = NoData
Empty == [q \in Query |-> NoData]

Idle == [at |-> "idle", answer |-> NoData]
Asked == [Idle EXCEPT !.at = "asked"]

NotEditing == "none"
NoCall == [change |-> 0, reads |-> FALSE]

\* Mutant: the studio opens once the first take is there.
RecordableLater(status) == status = "recording"

\* isRecordable.
Recordable(status) == status \in {"script_approved", "recording"}

\* getStageUrl.
StageOf(status) ==
    CASE status \in {"script_approved", "recording"} -> "studio"
      [] status = "voice_processing" -> "voz"
      [] status \in {"scenes_pending", "scenes_review"} -> "cenas"
      [] status \in {"queued", "rendering", "final_review", "released"} -> "final"
      [] OTHER -> "roteiro"

\* A page that opens shows what the cache has of its query and asks again, and what the
\* page before was asking for is dropped.  The studio sends one whose video is not to be
\* recorded to the script page - by what the cache says, before it has asked.
Redirected(page, known) ==
    IF page = "studio" /\ known # NoData /\ ~Recordable(known.status) THEN "roteiro" ELSE page

Visit(page) ==
    /\ tab' = [tab EXCEPT !.page = Redirected(page, cache[QueryOf(page)]), !.editing = NotEditing]
    /\ fetch' = IF page = "login" THEN Idle ELSE Asked

\* useRpcMutation, and refetch: the query of the page is asked again, and the answer under way
\* is dropped - but for the first one, which stays.  The list of videos is not among the
\* queries that a mutation of a video names.
Invalidate ==
    fetch' = IF tab.page \in {"login", "dashboard"} \/ (Loading /\ fetch # Idle) THEN fetch ELSE Asked

\* A video somewhere on its way, and a person who opens the studio.
Stage ==
    {"script_pending", "script_review", "script_approved", "recording", "voice_processing",
     "scenes_pending", "scenes_review", "queued", "rendering", "final_review", "released"}
Rendered == {"queued", "rendering", "final_review", "released"}

ScriptAt(status) ==
    IF status = "script_pending" THEN "none"
    ELSE IF status \in Rendered \cup {"scenes_review"} THEN "scened" ELSE "plain"

Init ==
    /\ HubInit
    /\ \E status \in Stage :
           /\ video = [status |-> status, script |-> ScriptAt(status), at |-> 1]
           /\ cards = [s \in Segments |-> IF status \in Rendered THEN "approved" ELSE "none"]
           /\ built = (status = "released")
           /\ atWork = (status \in Waits)
    /\ touched = FALSE /\ unannounced = {}
    /\ tab = [page |-> "dashboard", token |-> TRUE, editing |-> NotEditing]
    /\ cache = Empty
    /\ fetch = Asked
    /\ call = NoCall
    /\ detours = MaxDetours

\* GetVideo and ListVideos answer with what they find.
Answer ==
    /\ fetch.at = "asked"
    /\ fetch' = [at |-> "answered", answer |-> Snapshot]
    /\ UNCHANGED <<hubVars, serverVars, tab, cache, call, cards, detours>>

Load ==
    /\ fetch.at = "answered"
    /\ cache' = [cache EXCEPT ![QueryOf(tab.page)] = fetch.answer]
    /\ LET page == Redirected(tab.page, fetch.answer)
       IN  /\ tab' = [tab EXCEPT !.page = page]
           /\ fetch' = IF page = tab.page THEN Idle ELSE Asked
    /\ UNCHANGED <<hubVars, serverVars, call, cards, detours>>

\* An event comes: no query has a key that its predicate takes for one of VideoService.
Hear == Deliver /\ UNCHANGED <<serverVars, pageVars, detours>>

\* The queries no page shows are dropped from the cache after gcTime.
Kept == [q \in Query |-> IF tab.page # "login" /\ QueryOf(tab.page) = q THEN cache[q] ELSE NoData]
Forget ==
    /\ cache # Kept
    /\ cache' = Kept
    /\ UNCHANGED <<hubVars, serverVars, tab, fetch, call, cards, detours>>

\* The answer to a mutation: those of the script page name getVideo to be read again, the
\* others have the predicate that takes no query.
Answered ==
    /\ call # NoCall /\ call.change \notin unannounced
    /\ call' = NoCall
    /\ IF call.reads THEN Invalidate ELSE UNCHANGED fetch
    /\ tab' = [tab EXCEPT !.editing = NotEditing]
    /\ UNCHANGED <<hubVars, serverVars, cache, cards, detours>>

\* A person at a page calls: one call at a time.  Its answer comes when the handler has
\* published the change.
Sends(reads) ==
    /\ call = NoCall
    /\ call' = [change |-> video'.at, reads |-> reads]
    /\ UNCHANGED <<hubVars, tab, cache>>

Calls(reads) == Sends(reads) /\ UNCHANGED fetch

-----------------------------------------------------------------------------
(* What the pages offer *)

\* The script page without a script offers to generate one; with one in review, to edit,
\* approve or reject it.
OffersGenerate ==
    /\ tab.page = "roteiro" /\ ~Loading /\ Shown.script = "none"
    /\ Shown.status \in {"script_pending", "script_review"}
OffersReview ==
    /\ tab.page = "roteiro" /\ Shown.script \in Valid
    /\ Shown.status = "script_review" /\ tab.editing = NotEditing
Reviewing == tab.page = "cenas" /\ Shown.script \in Valid /\ Shown.status = "scenes_review"
Finishing == tab.page = "final" /\ Shown.status = "final_review"

GenerateScript ==
    /\ OffersGenerate
    /\ video.status \in {"script_pending", "script_review"}
    /\ \E script \in Valid : WritesScript(script)
    /\ Calls(TRUE)
    /\ UNCHANGED <<atWork, built, cards>>

\* handleApprove reads again and calls.
ApproveScript ==
    /\ OffersReview
    /\ Moves("script_approved")
    /\ Sends(TRUE) /\ Invalidate
    /\ UNCHANGED <<touched, built, cards>>

\* The studio: the first take of the video moves it to recording, the last to
\* voice_processing; neither is published, and the page does not read again.
AtStudio == tab.page = "studio" /\ Shown.script \in Valid
TakeMoves(to) ==
    /\ Silently(to)
    /\ UNCHANGED <<hubVars, touched, built, pageVars>>

FirstTake == AtStudio /\ video.status = "script_approved" /\ TakeMoves("recording")

LastTake == AtStudio /\ video.status = "recording" /\ TakeMoves("voice_processing")

\* What the card of a scene offers: when it is approved nothing, when it is rejected only to
\* be rejected again.
Offered(s) ==
    IF ~Reviewing \/ cards[s] = "approved" THEN {}
    ELSE IF cards[s] = "rejected" THEN {"rejected"} ELSE {"approved", "rejected"}

\* updateDecision: the decisions are those of this browser, in its localStorage.
Decide(s, decision) ==
    /\ decision \in Offered(s)
    /\ cards' = [cards EXCEPT ![s] = decision]
    /\ UNCHANGED <<hubVars, serverVars, tab, cache, fetch, call>>

ApproveCard(s) == Decide(s, "approved")

\* reviewProgress.
IsComplete == \A s \in Segments : cards[s] = "approved"

\* prepareRender.
ApproveScenes ==
    /\ Reviewing /\ IsComplete
    /\ video.status = "scenes_review"
    /\ Moves("queued")
    /\ Calls(FALSE)
    /\ UNCHANGED <<touched, built, cards>>

ApproveFinalCut ==
    /\ Finishing /\ ~built
    /\ video.status = "final_review"
    /\ built' = TRUE
    /\ UNCHANGED <<video, touched, atWork, unannounced, cards>>
    /\ Calls(FALSE)

\* The last open row of the checklist, once the page has read the rows.
SetChecklistItemPublished ==
    /\ Finishing /\ Shown.built
    /\ video.status = "final_review"
    /\ Moves("released")
    /\ Calls(FALSE)
    /\ UNCHANGED <<touched, built, cards>>

\* "Ir para Estudio" of the script page; "Avancar para Voz" of the studio, which it has when it
\* has read a take of each segment, and here as soon as it has read of a first one (the takes
\* are those of Recording.tla); "Avancar para Cenas" of the voice page.
ToStudio == tab.page = "roteiro" /\ Shown.script \in Valid /\ Recordable(Shown.status) /\ Visit("studio")
ToVoice == AtStudio /\ Shown.status = "recording" /\ Visit("voz")
ToScenes == tab.page = "voz" /\ ~Loading /\ Visit("cenas")

\* The card of a video on the dashboard.
OpensCard == tab.page = "dashboard" /\ Visit(StageOf(Shown.status))

Forward ==
    /\ \/ GenerateScript \/ ApproveScript \/ FirstTake \/ LastTake
       \/ \E s \in Segments : ApproveCard(s)
       \/ ApproveScenes \/ ApproveFinalCut \/ SetChecklistItemPublished
    /\ UNCHANGED detours

\* A person without a thing to do on a page goes on, or looks at the list of videos, and
\* from there opens the page of the video's stage; each page when it is loaded.
Browse ==
    /\ fetch = Idle /\ tab.page # "login"
    /\ \/ ToStudio \/ ToVoice \/ ToScenes \/ OpensCard
       \/ tab.page # "dashboard" /\ Visit("dashboard")
    /\ UNCHANGED <<hubVars, serverVars, cache, call, cards, detours>>

\* The token is stored and the page asked for opens; the reader of events is not started.
Login ==
    /\ tab.page = "login"
    /\ tab' = [tab EXCEPT !.page = "dashboard", !.token = TRUE]
    /\ fetch' = Asked
    /\ UNCHANGED <<hubVars, serverVars, cache, call, cards, detours>>

\* A draft is the script the page showed when it was opened; what comes in meanwhile does
\* not touch it.
StartEditing ==
    /\ OffersReview /\ call = NoCall
    /\ tab' = [tab EXCEPT !.editing = Shown.script]
    /\ UNCHANGED <<hubVars, serverVars, cache, fetch, call, cards, detours>>

\* The form is there as long as the page has a script to show.
Editing == tab.editing # NotEditing /\ Shown.script \in Valid

Discard ==
    /\ Editing
    /\ tab' = [tab EXCEPT !.editing = NotEditing]
    /\ UNCHANGED <<hubVars, serverVars, cache, fetch, call, cards, detours>>

\* UpdateScript writes the draft over whatever script.json is by now.  When its commit
\* fails the file is written and the call refused.
Save ==
    /\ Editing /\ call = NoCall
    /\ video.status = "script_review"
    /\ WritesScript(tab.editing)
    /\ \/ Calls(TRUE)
       \/ UNCHANGED <<hubVars, tab, cache, fetch, call>>
    /\ UNCHANGED <<atWork, built, cards, detours>>

-----------------------------------------------------------------------------
(* The rest of the system *)

\* ProcessScriptPath and processScenes: scenes that are refused are told of, too.
Observe ==
    /\ touched
    /\ touched' = FALSE
    /\ \/ /\ video.status = "scenes_pending"
          /\ \/ video.script = "scened" /\ Moves("scenes_review")
             \/ /\ video.script = "plain"
                /\ unannounced' = unannounced \cup {video.at} /\ UNCHANGED <<video, atWork>>
             \/ video.script = "broken" /\ UNCHANGED <<video, atWork, unannounced>>
       \/ /\ video.script \in Valid
          /\ Moves("script_review")
       \/ /\ video.status # "scenes_pending"
          /\ ~(video.script \in Valid /\ CanTransition(video.status, "script_review"))
          /\ UNCHANGED <<video, atWork, unannounced>>
    /\ UNCHANGED <<hubVars, built, pageVars, detours>>

\* The goroutine of the takes and the timeline service, whose event no page heeds (its
\* StudioEvent is empty, and useStudioEvents looks for a change of status); the queue and the
\* runner.
Animate == video.status = "voice_processing" /\ atWork /\ Silently("scenes_pending")
Render ==
    /\ atWork
    /\ \/ video.status = "queued" /\ Moves("rendering")
       \/ video.status = "rendering" /\ Moves("final_review")

Services ==
    /\ Animate \/ Render
    /\ UNCHANGED <<hubVars, touched, built, pageVars, detours>>

\* What the observer moves a video on for.
Accepted == video.script \in (IF video.status = "script_pending" THEN Valid ELSE {"scened"})

\* The agent writes the script of a video that waits for one, once, and again when what is
\* there is refused.
AgentWrites ==
    /\ \/ video.status \in ForAgent /\ (atWork \/ ~Accepted)
       \/ video.script = "broken"
    /\ WritesScript("scened")
    /\ atWork' = (atWork /\ video.status \notin ForAgent)
    /\ UNCHANGED <<hubVars, built, pageVars, detours>>

Listen == Connect /\ UNCHANGED <<serverVars, pageVars, detours>>

-----------------------------------------------------------------------------
(* What nobody needs, and what fails *)

Detour(kind) == kind \in Detours /\ detours > 0 /\ detours' = detours - 1

\* Any page, by a tab, a link of the shell, or the history of the browser.
Go ==
    /\ Detour("go")
    /\ tab.page # "login"
    /\ \E page \in (Tabs \cup ShellPages) \ {tab.page} : Visit(page)
    /\ UNCHANGED <<hubVars, serverVars, cache, call, cards>>

\* The tab is loaded again: its memory is gone, and the reader starts anew.
Loaded(page) ==
    /\ tab' = [tab EXCEPT !.page = page, !.token = (page # "login"), !.editing = NotEditing]
    /\ cache' = Empty
    /\ fetch' = IF page = "login" THEN Idle ELSE Asked
    /\ call' = NoCall
    /\ HubLoads(page # "login")
    /\ UNCHANGED <<serverVars, cards>>

Reload == Detour("reload") /\ Loaded(tab.page)

\* The window is looked at again (refetchOnWindowFocus).
Focus ==
    /\ Detour("focus")
    /\ fetch = Idle /\ tab.page # "login"
    /\ fetch' = Asked
    /\ UNCHANGED <<hubVars, serverVars, tab, cache, call, cards>>

\* A token the server refuses: the transport forgets it and loads the login page.
Expire == Detour("expire") /\ fetch.at = "asked" /\ Loaded("login")

\* The cache is cleared; the reader goes on with the token it has.
Logout ==
    /\ Detour("logout")
    /\ tab.page # "login"
    /\ tab' = [tab EXCEPT !.page = "login", !.token = FALSE, !.editing = NotEditing]
    /\ cache' = Empty /\ fetch' = Idle
    /\ UNCHANGED <<hubVars, serverVars, call, cards>>

RejectScript ==
    /\ Detour("reject")
    /\ OffersReview
    /\ Moves("script_pending")
    /\ Calls(TRUE)
    /\ UNCHANGED <<touched, built, cards>>

RejectCard(s) ==
    /\ Detour("rejectCard")
    /\ Decide(s, "rejected")

Regenerate ==
    /\ Detour("regenerate")
    /\ OffersReview /\ video.status \in {"script_pending", "script_review"}
    /\ \E script \in Valid : WritesScript(script)
    /\ Calls(TRUE)
    /\ UNCHANGED <<atWork, built, cards>>

RequestRerender ==
    /\ Detour("rerender")
    /\ Finishing /\ video.status = "final_review"
    /\ Moves("queued")
    /\ Calls(FALSE)
    /\ UNCHANGED <<touched, built, cards>>

\* The agent, or whoever else has the workspace, writes what it likes, a bound being that
\* it does while the script is under review.
UnderReview == {"script_pending", "script_review", "scenes_pending", "scenes_review"}
AnyoneWrites ==
    /\ Detour("write") /\ video.status \in UnderReview
    /\ \E script \in Script \ {"none"} : WritesScript(script)
    /\ UNCHANGED <<hubVars, atWork, built, pageVars>>

StreamBreaks == Detour("break") /\ Break /\ UNCHANGED <<serverVars, pageVars>>

\* The timeline service refuses a take, which blocks the video, or a query of it fails
\* (Recording.tla); a job has failed for good, is refused for ever, or is left by its runner
\* (RenderQueue.tla, RenderStages.tla).
WorkStops ==
    /\ Detour("stop")
    /\ video.status \in {"voice_processing", "rendering"} /\ atWork
    /\ \/ video.status = "voice_processing" /\ Silently("blocked")
       \/ atWork' = FALSE /\ UNCHANGED <<video, unannounced>>
    /\ UNCHANGED <<hubVars, touched, built, pageVars>>

\* What was committed and not yet published stays untold, a call unanswered; the observer
\* does not look at what was written before it watches again; and nothing starts the
\* goroutine of the takes again, as jobs are started again from their rows.
Restart ==
    /\ Detour("restart")
    /\ HubRestarts
    /\ touched' = FALSE /\ unannounced' = {}
    /\ atWork' = (atWork /\ video.status # "voice_processing")
    /\ call' = NoCall
    /\ UNCHANGED <<video, built, tab, cache, fetch, cards>>

Astray ==
    \/ Go \/ Reload \/ Expire \/ Logout \/ RejectScript \/ Regenerate \/ RequestRerender
    \/ AnyoneWrites \/ StreamBreaks \/ Focus \/ WorkStops \/ Restart
    \/ \E s \in Segments : RejectCard(s)

-----------------------------------------------------------------------------

Next ==
    \/ Forward \/ Browse \/ Login \/ StartEditing \/ Discard \/ Save
    \/ Answer \/ Load \/ Hear \/ Listen \/ Answered
    \/ Forget
    \/ \E change \in unannounced : Announce(change)
    \/ Observe \/ Services \/ AgentWrites
    \/ Astray

Spec == Init /\ [][Next]_vars

\* The goroutines of the server and the scripts of the page are not stopped for ever, a
\* query no page shows is forgotten, and the agent answers a video that waits for it.  The
\* person takes a step that is offered again and again, and otherwise looks for one.
Fairness ==
    /\ WF_vars(Answer) /\ SF_vars(Load) /\ WF_vars(Answered)
    /\ WF_vars(\E change \in unannounced : Announce(change))
    /\ WF_vars(Observe) /\ WF_vars(Services) /\ WF_vars(AgentWrites)
    /\ WF_vars(Forget)
    /\ WF_vars(Browse \/ Login)
    /\ SF_vars(Forward)

FairSpec == Spec /\ Fairness

-----------------------------------------------------------------------------
(* Properties *)

\* Stages in which nobody is at work any more: a take was refused, which blocks the video; the
\* goroutine of the takes died with the server, the job has failed or is left; or the
\* observer was not watching when the script was written that the video waits for.
Stranded ==
    /\ ~atWork
    /\ \/ video.status \in (Waits \ ForAgent) \cup {"blocked"}
       \/ video.status \in ForAgent /\ ~touched /\ Accepted

\* No stage is a dead end but those named: a video leaves each one, and is released in the
\* end, with a person who does what the pages offer and finds them from the dashboard,
\* whatever events were lost and pages were stale on the way - unless a scene was rejected,
\* which its card never takes back (ScenesReviewPage.tsx:174), or the video is stranded.
StagesEnd ==
    <>(\/ video.status = "released" \/ video.at > MaxChanges \/ Stranded
       \/ \E s \in Segments : cards[s] = "rejected")
=============================================================================
