-------------------------------- MODULE Intake --------------------------------
(***************************************************************************)
(* How a post of the blog becomes a video with a script to review: the      *)
(* polls of the feed (watcher/rss.go), by the ticker and by the button of   *)
(* the dashboard; the workspace each new video gets; the generation of its  *)
(* script (scriptgen/generator.go), by the hook of the watcher and by the   *)
(* button of the script page; the saving of an edited one; and the observer *)
(* that looks at what was written.                                          *)
(*                                                                         *)
(* Posts are numbered as they appear, and the feed lists the newest first.  *)
(* An observer is assumed to watch a workspace by the time a script is      *)
(* written into it.                                                         *)
(***************************************************************************)
EXTENDS Integers, SequencesExt, VideoState

CONSTANTS
    Pollers,     \* the ticker's loop and the callers of TriggerRssPoll
    SlugOf,      \* of each post there may be: the slug of its link
    MaxPolls,    \* bound on the polls
    MaxAttempts, \* SCRIPTGEN_MAX_ATTEMPTS
    MaxButtons,  \* bound on the texts that pages ask for or save
    MaxFailures  \* bound on what fails

BlogPost == DOMAIN SlugOf
Slug == {SlugOf[p] : p \in BlogPost}

ASSUME IntakeAssumption ==
    /\ SlugOf \in Seq(STRING)
    /\ {MaxPolls, MaxButtons, MaxFailures} \subseteq Nat /\ MaxAttempts \in Nat \ {0}

VARIABLES
    posts,      \* how many posts the blog has
    rssItems,       \* rss_items
    row,        \* the video of a slug: its status, and the post it was made for
    poll,       \* the calls of processItems
    writers,    \* who is about to write a script
    tmp,        \* script.json.tmp of a slug
    script,     \* script.json of a slug
    written,    \* slugs whose script.json the observer is to look at
    observing,  \* the slug it has read, whether the script was one, and how far it is
    deciding,   \* calls of ApproveScript and RejectScript that have read the status
    left,       \* what is left of the bounds
    past        \* history: see NoPast

intakeVars ==
    <<posts, rssItems, row, poll, writers, tmp, script, written, observing, deciding, left, past>>

-----------------------------------------------------------------------------

NoVideo == [status |-> "none", post |-> 0]
AtRest == [at |-> "rest", items |-> <<>>, baseline |-> FALSE]
NotObserving == [slug |-> "", valid |-> FALSE, at |-> "rest"]

\* "part": opened and not yet written; "mixed": the text of one writer with the tail of
\* another's.
NoText == "none"
Content == {NoText, "part", "whole", "mixed"}

\* backlog: the posts of the feed when a poll found no item.
\* flooded: some other poll met a baseline half marked, or one ended before its end.
\* failed:  posts of whose way a step failed or was not there, or a person thought otherwise.
NoPast == [backlog |-> {}, flooded |-> FALSE, failed |-> {}]
PostsOf(slug) == {p \in BlogPost : SlugOf[p] = slug}

IntakeInit ==
    /\ posts \in 0..Len(SlugOf)
    /\ rssItems = {}
    /\ row = [s \in Slug |-> NoVideo]
    /\ poll = [p \in Pollers |-> AtRest]
    /\ writers = {}
    /\ tmp = [s \in Slug |-> NoText] /\ script = [s \in Slug |-> NoText]
    /\ written = {} /\ observing = NotObserving /\ deciding = {}
    /\ left = [polls |-> MaxPolls, buttons |-> MaxButtons, failures |-> MaxFailures]
    /\ past = NoPast

\* A bound: nobody polls a feed that has nothing to tell the first time.
Publishes ==
    /\ posts < Len(SlugOf)
    /\ posts' = posts + 1
    /\ UNCHANGED <<rssItems, row, poll, writers, tmp, script, written, observing, deciding, left, past>>

-----------------------------------------------------------------------------
(* Polls *)

Item(p) == Head(poll[p].items)
Turn(p, state) == poll' = [poll EXCEPT ![p] = state]
At(p, at) == [poll[p] EXCEPT !.at = at]
NextItem(p) ==
    IF Len(poll[p].items) = 1 THEN AtRest
    ELSE [poll[p] EXCEPT !.at = "insert", !.items = Tail(@)]

\* The feed as it is now.
Poll(p) ==
    /\ poll[p] = AtRest
    /\ posts > 0 /\ left.polls > 0
    /\ left' = [left EXCEPT !.polls = @ - 1]
    /\ Turn(p, [AtRest EXCEPT !.at = "count", !.items = [i \in 1..posts |-> posts + 1 - i]])
    /\ UNCHANGED <<posts, rssItems, row, writers, tmp, script, written, observing, deciding, past>>

CountRssItems(p) ==
    /\ poll[p].at = "count"
    /\ Turn(p, [poll[p] EXCEPT !.at = "insert", !.baseline = (rssItems = {})])
    /\ past' = IF rssItems = {} THEN [past EXCEPT !.backlog = @ \cup ToSet(poll[p].items)]
               ELSE [past EXCEPT !.flooded = @ \/ \E q \in Pollers : poll[q].baseline]
    /\ UNCHANGED <<posts, rssItems, row, writers, tmp, script, written, observing, deciding, left>>

\* Mutant: the items are counted for each of them.
BaselineRecounted(p) == rssItems = {}

IsBaseline(p) == poll[p].baseline

\* ON CONFLICT DO NOTHING: an item that is there is passed by.
InsertRssItem(p) ==
    /\ poll[p].at = "insert"
    /\ rssItems' = rssItems \cup {Item(p)}
    /\ Turn(p, IF Item(p) \in rssItems \/ IsBaseline(p) THEN NextItem(p) ELSE At(p, "create"))
    /\ UNCHANGED <<posts, row, writers, tmp, script, written, observing, deciding, left, past>>

\* The slug is unique: a post whose slug is taken gets no video.
CreateVideo(p) ==
    /\ poll[p].at = "create"
    /\ LET slug == SlugOf[Item(p)]
       IN  IF row[slug] # NoVideo
           THEN /\ Turn(p, NextItem(p))
                /\ past' = [past EXCEPT !.failed = @ \cup {Item(p)}]
                /\ UNCHANGED row
           ELSE /\ row' = [row EXCEPT ![slug] = [status |-> "new", post |-> Item(p)]]
                /\ Turn(p, At(p, "scaffold"))
                /\ UNCHANGED past
    /\ UNCHANGED <<posts, rssItems, writers, tmp, script, written, observing, deciding, left>>

\* The steps of scaffoldWorkspace: the tree, the status, the commit, the hook.
Scaffold(p) ==
    /\ poll[p].at = "scaffold"
    /\ Turn(p, At(p, "status"))
    /\ UNCHANGED <<posts, rssItems, row, writers, tmp, script, written, observing, deciding, left, past>>

UpdateVideoStatus(p) ==
    /\ poll[p].at = "status"
    /\ row' = [row EXCEPT ![SlugOf[Item(p)]].status = "script_pending"]
    /\ Turn(p, At(p, "commit"))
    /\ UNCHANGED <<posts, rssItems, writers, tmp, script, written, observing, deciding, left, past>>

\* file: what a writer has open, script.json.tmp, or what has become of it since.
Writer(slug, by, at) == [slug |-> slug, by |-> by, at |-> at, tries |-> 0, file |-> "tmp"]

\* Without GEMINI_API_KEY there is no hook, and the post waits for somebody to write.
OnScaffolded(p) ==
    /\ poll[p].at = "commit"
    /\ \/ writers' = writers \cup {Writer(SlugOf[Item(p)], "hook", "ask")} /\ UNCHANGED past
       \/ past' = [past EXCEPT !.failed = @ \cup {Item(p)}] /\ UNCHANGED writers
    /\ Turn(p, NextItem(p))
    /\ UNCHANGED <<posts, rssItems, row, tmp, script, written, observing, deciding, left>>

\* A statement or a file operation fails; or the context of the poll ends (after 20 s, or
\* with the request), and every statement after it fails, too.  An item that could not be
\* inserted is tried again by the next poll, and all others are never.
PollFails(p) ==
    /\ poll[p] # AtRest
    /\ left.failures > 0 /\ left' = [left EXCEPT !.failures = @ - 1]
    /\ \/ poll[p].at # "count" /\ Turn(p, NextItem(p))
       \/ Turn(p, AtRest)
    /\ past' = CASE poll[p].at = "count" -> past
                 [] poll[p].at = "insert" -> [past EXCEPT !.flooded = @ \/ poll[p].baseline]
                 [] OTHER -> [past EXCEPT !.failed = @ \cup {Item(p)}]
    /\ UNCHANGED <<posts, rssItems, row, writers, tmp, script, written, observing, deciding>>

-----------------------------------------------------------------------------
(* Writers of scripts *)

GivenUp(slug) == [past EXCEPT !.failed = @ \cup PostsOf(slug)]
Becomes(w, next) == writers' = (writers \ {w}) \cup {next}

\* The buttons of the script page: GenerateScript and, once edited, UpdateScript.  One text
\* of a page at a time.
Asks(slug, statuses, by, at) ==
    /\ row[slug].status \in statuses
    /\ ~\E w \in writers : w.slug = slug /\ w.by # "hook"
    /\ left.buttons > 0 /\ left' = [left EXCEPT !.buttons = @ - 1]
    /\ writers' = writers \cup {Writer(slug, by, at)}
    /\ UNCHANGED <<posts, rssItems, row, poll, tmp, script, written, observing, deciding, past>>

GenerateScript(slug) == Asks(slug, {"script_pending", "script_review"}, "page", "ask")
UpdateScript(slug) == Asks(slug, {"script_review"}, "edit", "open")

\* The loop of GenerateForSlug: an answer that is no script is asked for again, with what
\* was wrong with it.
Generated(w) ==
    /\ w.at = "ask"
    /\ Becomes(w, [w EXCEPT !.at = "open"])
    /\ UNCHANGED <<posts, rssItems, row, poll, tmp, script, written, observing, deciding, left, past>>

NotGenerated(w) ==
    /\ w.at = "ask"
    /\ IF w.tries + 1 = MaxAttempts
       THEN writers' = writers \ {w} /\ past' = GivenUp(w.slug)
       ELSE Becomes(w, [w EXCEPT !.tries = @ + 1]) /\ UNCHANGED past
    /\ UNCHANGED <<posts, rssItems, row, poll, tmp, script, written, observing, deciding, left>>

\* writeScriptAtomic.  All writers of a slug share one script.json.tmp: who opens it cuts it,
\* and who writes after another has may leave a tail of the other's text.
OpenTmp(w) ==
    /\ w.at = "open"
    /\ tmp' = [tmp EXCEPT ![w.slug] = "part"]
    /\ Becomes(w, [w EXCEPT !.at = "write"])
    /\ UNCHANGED <<posts, rssItems, row, poll, script, written, observing, deciding, left, past>>

Filled(file) == IF file = "part" THEN {"whole"} ELSE {"whole", "mixed"}

\* Into script.json, when another has renamed the file meanwhile; into none that has a name,
\* when another has removed it, or renamed one over it.
WriteTmp(w) ==
    /\ w.at = "write"
    /\ CASE w.file = "tmp" ->
              /\ \E text \in Filled(tmp[w.slug]) : tmp' = [tmp EXCEPT ![w.slug] = text]
              /\ UNCHANGED <<script, written>>
         [] w.file = "script" ->
              /\ \E text \in Filled(script[w.slug]) : script' = [script EXCEPT ![w.slug] = text]
              /\ written' = written \cup {w.slug}
              /\ UNCHANGED tmp
         [] OTHER -> UNCHANGED <<tmp, script, written>>
    /\ Becomes(w, [w EXCEPT !.at = "rename"])
    /\ UNCHANGED <<posts, rssItems, row, poll, observing, deciding, left, past>>

\* The writers but w, with what became of the files they have open.
Others(w, become) ==
    {IF o.slug = w.slug /\ o.at = "write" THEN [o EXCEPT !.file = become[@]] ELSE o :
        o \in writers \ {w}}
Renamed == [tmp |-> "script", script |-> "none", none |-> "none"]
Removed == [tmp |-> "none", script |-> "script", none |-> "none"]

\* Without the file, which another has renamed or removed, there is an error and no more.
RenameTmp(w) ==
    /\ w.at = "rename"
    /\ IF tmp[w.slug] = NoText
       THEN writers' = writers \ {w} /\ UNCHANGED <<tmp, script, written>>
       ELSE /\ script' = [script EXCEPT ![w.slug] = tmp[w.slug]]
            /\ tmp' = [tmp EXCEPT ![w.slug] = NoText]
            /\ written' = written \cup {w.slug}
            /\ writers' = Others(w, Renamed)
    /\ UNCHANGED <<posts, rssItems, row, poll, observing, deciding, left, past>>

\* A file operation fails.  UpdateScript removes the file it could not rename.
WriterFails(w) ==
    /\ w.at # "ask"
    /\ left.failures > 0 /\ left' = [left EXCEPT !.failures = @ - 1]
    /\ IF w.at = "rename" /\ w.by = "edit"
       THEN tmp' = [tmp EXCEPT ![w.slug] = NoText] /\ writers' = Others(w, Removed)
       ELSE UNCHANGED tmp /\ writers' = writers \ {w}
    /\ past' = GivenUp(w.slug)
    /\ UNCHANGED <<posts, rssItems, row, poll, script, written, observing, deciding>>

-----------------------------------------------------------------------------
(* The observer, and the person who reviews *)

ObserverReads(slug) ==
    /\ slug \in written /\ observing = NotObserving
    /\ written' = written \ {slug}
    /\ observing' = [slug |-> slug, valid |-> script[slug] = "whole", at |-> "read"]
    /\ UNCHANGED <<posts, rssItems, row, poll, writers, tmp, script, deciding, left, past>>

\* The status is read, and set in a statement of its own, whatever it is by then.
ProcessScriptPath ==
    /\ observing.at = "read"
    /\ observing' = IF /\ observing.valid
                       /\ CanTransition(row[observing.slug].status, "script_review")
                    THEN [observing EXCEPT !.at = "update"] ELSE NotObserving
    /\ UNCHANGED <<posts, rssItems, row, poll, writers, tmp, script, written, deciding, left, past>>

ObserverUpdates ==
    /\ observing.at = "update"
    /\ row' = [row EXCEPT ![observing.slug].status = "script_review"]
    /\ observing' = NotObserving
    /\ UNCHANGED <<posts, rssItems, poll, writers, tmp, script, written, deciding, left, past>>

\* A query of the observer fails, which it logs.
ObserverFails ==
    /\ observing # NotObserving
    /\ left.failures > 0 /\ left' = [left EXCEPT !.failures = @ - 1]
    /\ observing' = NotObserving
    /\ past' = GivenUp(observing.slug)
    /\ UNCHANGED <<posts, rssItems, row, poll, writers, tmp, script, written, deciding>>

\* transitionAndRecord: the status is read and checked, and set in a statement of its own.
Decides(slug, to) ==
    /\ row[slug].status = "script_review"
    /\ deciding' = deciding \cup {[slug |-> slug, to |-> to]}
    /\ UNCHANGED <<posts, rssItems, row, poll, writers, tmp, script, written, observing, past>>

ApproveScript(slug) == Decides(slug, "script_approved") /\ UNCHANGED left

RejectScript(slug) ==
    /\ left.buttons > 0 /\ left' = [left EXCEPT !.buttons = @ - 1]
    /\ Decides(slug, "script_pending")

\* Nothing generates another script for the comment that is given.
TransitionAndRecord(d) ==
    /\ deciding' = deciding \ {d}
    /\ row' = [row EXCEPT ![d.slug].status = d.to]
    /\ past' = IF d.to = "script_pending" THEN GivenUp(d.slug) ELSE past
    /\ UNCHANGED <<posts, rssItems, poll, writers, tmp, script, written, observing, left>>

\* The process ends and starts again: who was at work is gone, and what was written is not
\* looked at.
ServerRestarts ==
    /\ left.failures > 0 /\ left' = [left EXCEPT !.failures = @ - 1]
    /\ poll' = [p \in Pollers |-> AtRest]
    /\ writers' = {} /\ written' = {} /\ observing' = NotObserving /\ deciding' = {}
    /\ LET busy == {p \in Pollers : poll[p].at \notin {"rest", "count", "insert"}}
           slugs == {w.slug : w \in writers} \cup written \cup {observing.slug}
       IN  past' = [past EXCEPT
                !.flooded = @ \/ \E p \in Pollers : poll[p].baseline,
                !.failed = @ \cup {Item(p) : p \in busy} \cup UNION {PostsOf(s) : s \in slugs}]
    /\ UNCHANGED <<posts, rssItems, row, tmp, script>>

IntakeNext ==
    \/ Publishes
    \/ \E p \in Pollers :
           \/ Poll(p) \/ CountRssItems(p) \/ InsertRssItem(p) \/ CreateVideo(p) \/ Scaffold(p)
           \/ UpdateVideoStatus(p) \/ OnScaffolded(p) \/ PollFails(p)
    \/ \E s \in Slug :
           \/ GenerateScript(s) \/ UpdateScript(s) \/ ObserverReads(s)
           \/ ApproveScript(s) \/ RejectScript(s)
    \/ \E w \in writers :
           \/ Generated(w) \/ NotGenerated(w) \/ OpenTmp(w) \/ WriteTmp(w) \/ RenameTmp(w)
           \/ WriterFails(w)
    \/ \E d \in deciding : TransitionAndRecord(d)
    \/ ProcessScriptPath \/ ObserverUpdates \/ ObserverFails \/ ServerRestarts

-----------------------------------------------------------------------------

Settled ==
    /\ \A p \in Pollers : poll[p] = AtRest
    /\ writers = {} /\ written = {} /\ observing = NotObserving

Reviewed(slug) == row[slug].status \in {"script_review", "script_approved"}

\* Once polls, generators and the observer are at rest: the posts of the first poll have no
\* videos ("avoids flooding from backlog", rss.go:102), unless that poll did not end or
\* another crossed it; and each later post it knows has a video of its slug whose script was
\* there to review, unless a step of it failed, or there was no generator, or a person
\* rejected the script, or two writers mixed their texts - whatever polls, generators and
\* edits went on side by side.
PostsSettle ==
    Settled => \A p \in rssItems :
        IF p \in past.backlog
        THEN past.flooded \/ row[SlugOf[p]].post # p
        ELSE p \in past.failed \/ Reviewed(SlugOf[p]) \/ script[SlugOf[p]] = "mixed"
=============================================================================
