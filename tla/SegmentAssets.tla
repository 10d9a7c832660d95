---------------------------- MODULE SegmentAssets ----------------------------
(***************************************************************************)
(* What the voice page plays: the list of segments with a take, the segment *)
(* that is picked, and the hook that reads its sound and its timeline from  *)
(* the server, one after the other, while the person picks another, a take  *)
(* is recorded again or discarded in another tab, and timelines are built.  *)
(* The cards of the scenes page use the same hook, each for one segment.    *)
(*                                                                         *)
(* The sound is held by an object URL, which the hook revokes when it turns *)
(* to another segment.  Takes are numbered as they are recorded.            *)
(***************************************************************************)
EXTENDS FiniteSetsExt, Integers

CONSTANTS
    NumSegments, \* segments of the script
    MaxReadings, \* bound on the readings that go on
    MaxRetakes   \* bound on the takes recorded meanwhile

ASSUME AssetsAssumption == {NumSegments, MaxReadings, MaxRetakes} \subseteq Nat

VARIABLES
    stored,   \* on the server, of each segment: the takes its WAV and its timeline are of
    listed,   \* the segments with an audio take, as the page knows them
    picked,   \* the segment that was picked on the page
    assets,   \* what the hook has
    reading,  \* the readings of the hook that have not ended
    retakes   \* how many are left

assetsVars == <<stored, listed, picked, assets, reading, retakes>>

-----------------------------------------------------------------------------

NoPick == 0
Missing == 0
NoFile == [segment |-> NoPick, take |-> Missing, revoked |-> FALSE]

\* segment: the one the effect of the hook has run for
\* since:   history: the take that was there by then
NoAssets ==
    [segment |-> NoPick, wav |-> NoFile, timeline |-> NoFile, loading |-> FALSE,
     since |-> Missing]

\* Without a pick, the first segment that has a take.
Active == IF picked # NoPick THEN picked ELSE IF listed # {} THEN Min(listed) ELSE NoPick

AssetsInit ==
    /\ stored \in [1..NumSegments -> {[wav |-> t, timeline |-> t] : t \in {Missing, 1}}]
    /\ listed = {} /\ picked = NoPick
    /\ assets = NoAssets
    /\ reading = {}
    /\ retakes = MaxRetakes

ListTakes ==
    /\ listed' = {s \in DOMAIN stored : stored[s].wav # Missing}
    /\ UNCHANGED <<stored, picked, assets, reading, retakes>>

\* A segment without a take cannot be picked.
Pick(s) ==
    /\ s \in listed
    /\ picked' = s
    /\ UNCHANGED <<stored, listed, assets, reading, retakes>>

\* The URL of a sound is revoked by the effect that made it, when the next one runs.
Revoked(file) == IF file = NoFile THEN NoFile ELSE [file EXCEPT !.revoked = TRUE]

\* The effect runs after the page has been drawn with another segment.  What was read for
\* the one before stays until the next reading ends; a reading that goes on is aborted.
UseSegment ==
    /\ assets.segment # Active /\ Cardinality(reading) < MaxReadings
    /\ assets' = IF Active = NoPick THEN NoAssets
                 ELSE [assets EXCEPT !.segment = Active, !.loading = TRUE,
                                     !.wav = Revoked(@), !.since = stored[Active].wav]
    /\ reading' = {[r EXCEPT !.at = "end", !.cancelled = TRUE, !.wav = Revoked(@)] : r \in reading}
            \cup {[segment |-> s, at |-> "wav", wav |-> NoFile, timeline |-> NoFile,
                   cancelled |-> FALSE] : s \in {Active} \ {NoPick}}
    /\ UNCHANGED <<stored, listed, picked, retakes>>

Found(s, take) == IF take = Missing THEN NoFile ELSE [NoFile EXCEPT !.segment = s, !.take = take]
Turns(r, next) == reading' = (reading \ {r}) \cup {next}

\* A file that is not there is none; when the network fails the rest is not asked for.
FetchWav(r) ==
    /\ r.at = "wav"
    /\ \/ Turns(r, [r EXCEPT !.at = "timeline", !.wav = Found(r.segment, stored[r.segment].wav)])
       \/ Turns(r, [r EXCEPT !.at = "end"])
    /\ UNCHANGED <<stored, listed, picked, assets, retakes>>

FetchJsonText(r) ==
    /\ r.at = "timeline"
    /\ \/ Turns(r, [r EXCEPT !.at = "end", !.timeline = Found(r.segment, stored[r.segment].timeline)])
       \/ Turns(r, [r EXCEPT !.at = "end"])
    /\ UNCHANGED <<stored, listed, picked, assets, retakes>>

Kept(r) == [assets EXCEPT !.wav = r.wav, !.timeline = r.timeline, !.loading = FALSE]

\* Mutant: whatever the reading was for.
ResultAnyway(r) == Kept(r)

Result(r) == IF r.cancelled THEN assets ELSE Kept(r)

EndsReading(r) ==
    /\ r.at = "end"
    /\ reading' = reading \ {r}
    /\ assets' = Result(r)
    /\ UNCHANGED <<stored, listed, picked, retakes>>

-----------------------------------------------------------------------------
(* The server *)

RecordAgain(s) ==
    /\ retakes > 0 /\ retakes' = retakes - 1
    /\ stored' = [stored EXCEPT ![s].wav = 2 + MaxRetakes - retakes]
    /\ UNCHANGED <<listed, picked, assets, reading>>

\* deleteTake leaves the timeline, and the timeline service one that is there.
Discarded(s) ==
    /\ stored' = [stored EXCEPT ![s].wav = Missing]
    /\ UNCHANGED <<listed, picked, assets, reading, retakes>>

BuildTimeline(s) ==
    /\ stored[s].timeline = Missing
    /\ stored' = [stored EXCEPT ![s].timeline = stored[s].wav]
    /\ UNCHANGED <<listed, picked, assets, reading, retakes>>

AssetsNext ==
    \/ ListTakes \/ UseSegment
    \/ \E s \in DOMAIN stored : Pick(s) \/ RecordAgain(s) \/ Discarded(s) \/ BuildTimeline(s)
    \/ \E r \in reading : FetchWav(r) \/ FetchJsonText(r) \/ EndsReading(r)

-----------------------------------------------------------------------------

Plays == assets.wav # NoFile /\ assets.timeline # NoFile

\* Once the hook has turned to the segment the page names, it either has an answer under way
\* that it will take, or has read: and then what the page plays is that segment, its sound
\* and its timeline, through a URL that holds, and a take no older than the one that was
\* there when it turned to it ("stale URLs would show ghost takes",
\* useSegmentAssets.ts:14) - in whatever order segments were picked and readings ended.
PreviewIsOfSegment ==
    assets.segment = Active =>
        /\ assets.loading <=> \E r \in reading : ~r.cancelled
        /\ \A r \in reading : r.cancelled \/ r.segment = Active
        /\ ~assets.loading =>
               /\ Plays => assets.wav.segment = Active /\ assets.timeline.segment = Active
               /\ assets.wav # NoFile =>
                      ~assets.wav.revoked /\ assets.wav.take >= assets.since
=============================================================================
