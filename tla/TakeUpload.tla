----------------------------- MODULE TakeUpload -----------------------------
(***************************************************************************)
(* The resumable upload of takes: the studio page of one browser tab, its   *)
(* recorder hook, the upload client the hook calls, and the handler of      *)
(* POST, GET and DELETE /api/v1/videos/{videoSlug}/takes with the partial   *)
(* and final files it keeps.  Recording.tla takes an upload as one step up  *)
(* to the rename of the file and follows the rows of takes from there; here *)
(* that step is opened, and a row is only noted when it is made.            *)
(*                                                                         *)
(* A file is the sequence of its units, a unit being a recording and a      *)
(* position in it, so that two recordings never have a unit in common and   *)
(* equal checksums are equal sequences.  A chunk has ChunkSize units.       *)
(***************************************************************************)
EXTENDS FiniteSets, Integers, Sequences

CONSTANTS
    Segments,   \* segments of the script
    Slots,      \* slots for calls of doStop: the hook's uploads that are going on
    Length,     \* units of each recording, by kind; its domain bounds the recordings
    ChunkSize,  \* CHUNK_SIZE
    MaxFaults,  \* bound on the failures of a behaviour
    Faults      \* the kinds of failure that may happen, see FaultKind

\* "request": a request is refused or lost before the server acts
\* "cut":     the connection breaks in the body of a chunk
\* "answer":  the connection breaks after it
\* "row":     UpsertTake fails
\* "restart": the server ends and starts again
\* "reload":  the tab is loaded again, or closed and opened
\* "device":  the microphone is refused, or the camera is off when it opens
\* "twice":   a recording is started again before its microphone has opened
\* "late":    a take is discarded when the next is on its way
FaultKind ==
    {"request", "cut", "answer", "row", "restart", "reload", "device", "twice", "late"}

ASSUME UploadAssumption ==
    /\ Faults \subseteq FaultKind /\ MaxFaults \in Nat
    /\ ChunkSize \in Nat \ {0}
    /\ Length \in Seq([{"audio", "blendshapes"} -> Nat \ {0}])

VARIABLES
    partial,   \* audio/.partials/<segment>.<kind>.part; empty when there is none
    final,     \* audio/<segment>.wav and .blendshapes.json, likewise
    requests,  \* the chunks the handler is at
    up,        \* per slot: the upload of a pair
    rec,       \* the recorder of the page that is open
    made,      \* recordings made so far, which numbers them
    faults,    \* how many failures are left
    seen       \* history, see Seen

vars == <<partial, final, requests, up, rec, made, faults, seen>>
disk == <<partial, final>>

-----------------------------------------------------------------------------

Kind == {"audio", "blendshapes"}
Takes == DOMAIN Length
Files == Segments \X Kind

Smaller(a, b) == IF a < b THEN a ELSE b

Unit(t, i) == <<t, i>>
Whole(t, kind) == [i \in 1 .. Length[t][kind] |-> Unit(t, i)]

\* skipped:    artifacts the client found a partial of their size, or more, for
\* landed:     artifacts UpsertTake has made a row for
\* saved:      recordings the page has shown as saved
\* overlapped: files two chunks of which have been in the handler at a time
Nothing == [skipped |-> {}, landed |-> {}, saved |-> {}, overlapped |-> {}]
Seen(field, x) == seen' = [seen EXCEPT ![field] = @ \cup {x}]

NoSegment == 0
Free == [at |-> "free", segment |-> NoSegment, kind |-> "audio", take |-> 0,
         offset |-> 0, left |-> 0, shown |-> FALSE]

\* starting counts the calls of doStart that wait for the microphone.  The phases idle,
\* done and error, in each of which the page lets a recording start, are "ready", encoding
\* and uploading "sending".
Closed == [open |-> FALSE, phase |-> "ready", starting |-> 0]

Init ==
    /\ partial = [f \in Files |-> <<>>]
    /\ final = [f \in Files |-> <<>>]
    /\ requests = {}
    /\ up = [s \in Slots |-> Free]
    /\ rec = Closed
    /\ made = 0
    /\ faults = MaxFaults
    /\ seen = Nothing

Fault(kind) == kind \in Faults /\ faults > 0 /\ faults' = faults - 1
NoFault == UNCHANGED faults

-----------------------------------------------------------------------------
(* The upload client *)

Attempts == 2    \* attemptsLeft of the first call

File(s) == <<up[s].segment, up[s].kind>>
Total(s) == Length[up[s].take][up[s].kind]

\* The hook's own page shows what becomes of the pair; another page does not.
Shows(s, phase) == rec' = IF up[s].shown THEN [rec EXCEPT !.phase = phase] ELSE rec

Goes(s, at) == up' = [up EXCEPT ![s].at = at]

\* uploadTakeArtifact returns: the blendshapes follow the audio, and the pair is saved.
ArtifactDone(s) ==
    \/ /\ up[s].kind = "audio"
       /\ up' = [up EXCEPT ![s].at = "probe", ![s].kind = "blendshapes", ![s].left = Attempts,
                           ![s].offset = 0]
       /\ UNCHANGED rec
    \/ /\ up[s].kind = "blendshapes"
       /\ up' = [up EXCEPT ![s] = Free]
       /\ Shows(s, "ready")

Saves(s) == IF up[s].kind = "blendshapes" THEN {up[s].take} ELSE {}

\* It throws: the pair stays in the hook, which offers it to nobody.
UploadFails(s) == up' = [up EXCEPT ![s] = Free] /\ Shows(s, "ready")

AttemptFails(s) ==
    \/ /\ up[s].left > 1
       /\ up' = [up EXCEPT ![s].at = "probe", ![s].left = @ - 1, ![s].offset = 0]
       /\ UNCHANGED rec
    \/ up[s].left = 1 /\ UploadFails(s)

\* A call begins: the token is read, which is gone when the user has logged out since,
\* and the server asked for what it holds.  An answer that is no size counts as zero.
Probe(s) ==
    /\ up[s].at = "probe"
    /\ \/ /\ NoFault
          /\ up' = [up EXCEPT ![s].at = "send",
                              ![s].offset = Smaller(Total(s), Len(partial[File(s)]))]
          /\ IF Len(partial[File(s)]) >= Total(s)
             THEN Seen("skipped", <<up[s].take, up[s].kind>>) ELSE UNCHANGED seen
          /\ UNCHANGED rec
       \/ /\ Fault("request")
          /\ Goes(s, "send") /\ UNCHANGED <<rec, seen>>
       \/ /\ ~up[s].shown /\ NoFault
          /\ UploadFails(s) /\ UNCHANGED seen
    /\ UNCHANGED <<disk, requests, made>>

\* The loop over the chunks is left without a word from the server.
AlreadyComplete(s) ==
    /\ up[s].at = "send" /\ up[s].offset = Total(s)
    /\ ArtifactDone(s)
    /\ seen' = [seen EXCEPT !.saved = @ \cup Saves(s)]
    /\ UNCHANGED <<disk, requests, made, faults>>

Request(s) ==
    [slot |-> s, file |-> File(s), take |-> up[s].take, offset |-> up[s].offset,
     at |-> "receive"]

SendChunk(s) ==
    /\ up[s].at = "send" /\ up[s].offset < Total(s)
    /\ \/ /\ NoFault
          /\ requests' = requests \cup {Request(s)}
          /\ Goes(s, "wait") /\ UNCHANGED rec
       \/ Fault("request") /\ AttemptFails(s) /\ UNCHANGED requests
    /\ UNCHANGED <<disk, made, seen>>

-----------------------------------------------------------------------------
(* The handler: a chunk is written; the last one is followed by the checksum   *)
(* and the rename, and by the row.                                           *)

\* Requests whose client no longer listens have this slot.
Nobody == 0
ASSUME SlotAssumption == Nobody \notin Slots /\ NoSegment \notin Segments

RequestTotal(r) == Length[r.take][r.file[2]]
ChunkEnd(r) == Smaller(r.offset + ChunkSize, RequestTotal(r))
Serve(r, at) == requests' = (requests \ {r}) \cup {[r EXCEPT !.at = at]}
Done(r) == requests' = requests \ {r}

NextChunk(r) ==
    /\ up' = IF r.slot = Nobody THEN up
             ELSE [up EXCEPT ![r.slot].at = "send", ![r.slot].offset = ChunkEnd(r)]
    /\ UNCHANGED rec

\* Mutant: the client takes any answer for a chunk received.
RefusedUnseen(r) == NextChunk(r)

\* What the client makes of an answer that is not ok.
Refused(r) == IF r.slot = Nobody THEN UNCHANGED <<up, rec>> ELSE AttemptFails(r.slot)

Overlaps(r) == \E q \in requests \ {r} : q.file = r.file

\* A partial that is longer than the offset is cut back to it.
Written(content, r, end) ==
    [i \in 1 .. end |-> IF i <= r.offset THEN content[i] ELSE Unit(r.take, i)]

\* receiveChunk: one that starts beyond the partial is refused.
Receive(r) ==
    /\ r.at = "receive"
    /\ \/ /\ r.offset > Len(partial[r.file])
          /\ Done(r) /\ Refused(r) /\ NoFault /\ UNCHANGED partial
       \/ /\ r.offset <= Len(partial[r.file]) /\ NoFault
          /\ partial' = [partial EXCEPT ![r.file] = Written(@, r, ChunkEnd(r))]
          /\ IF ChunkEnd(r) < RequestTotal(r)
             THEN Done(r) /\ NextChunk(r)
             ELSE Serve(r, "verify") /\ UNCHANGED <<up, rec>>
       \/ /\ r.offset <= Len(partial[r.file]) /\ Fault("cut")
          /\ \E end \in r.offset .. ChunkEnd(r) - 1 :
                 partial' = [partial EXCEPT ![r.file] = Written(@, r, end)]
          /\ Done(r) /\ Refused(r)
    /\ IF Overlaps(r) THEN Seen("overlapped", r.file) ELSE UNCHANGED seen
    /\ UNCHANGED <<final, made>>

\* Mutant: the size is enough.
AgreesInSize(r) == Len(partial[r.file]) = RequestTotal(r)

\* The checksum of the whole partial file against the one the client sent.
Agrees(r) == partial[r.file] = Whole(r.take, r.file[2])

\* A partial that does not agree stays where it is.
Verify(r) ==
    /\ r.at = "verify"
    /\ \/ Agrees(r) /\ Serve(r, "publish") /\ UNCHANGED <<up, rec>>
       \/ ~Agrees(r) /\ Done(r) /\ Refused(r)
    /\ UNCHANGED <<disk, made, faults, seen>>

\* os.Rename, which fails when a DELETE or another chunk has taken the partial away.
Publish(r) ==
    /\ r.at = "publish"
    /\ \/ /\ partial[r.file] # <<>>
          /\ final' = [final EXCEPT ![r.file] = partial[r.file]]
          /\ partial' = [partial EXCEPT ![r.file] = <<>>]
          /\ Serve(r, "record") /\ UNCHANGED <<up, rec>>
       \/ /\ partial[r.file] = <<>>
          /\ Done(r) /\ Refused(r) /\ UNCHANGED <<final, partial>>
    /\ UNCHANGED <<made, faults, seen>>

\* UpsertTake runs in the context of the request, which ends with its connection.
\* A complete artifact ends the client's loop.
Record(r) ==
    /\ r.at = "record"
    /\ Done(r)
    /\ \/ /\ NoFault
          /\ IF r.slot = Nobody THEN UNCHANGED <<up, rec>> ELSE ArtifactDone(r.slot)
          /\ seen' = [seen EXCEPT !.landed = @ \cup {<<r.take, r.file[2]>>},
                                  !.saved = @ \cup IF r.slot = Nobody THEN {} ELSE Saves(r.slot)]
       \/ /\ r.slot # Nobody /\ Fault("row") /\ Refused(r) /\ UNCHANGED seen
       \/ /\ r.slot = Nobody /\ NoFault /\ UNCHANGED <<seen, up, rec>>
    /\ UNCHANGED <<partial, final, made>>

HandleChunk(r) == Receive(r) \/ Verify(r) \/ Publish(r) \/ Record(r)

\* The client sees the connection break; the handler goes on.
LoseAnswer(r) ==
    /\ r.slot # Nobody
    /\ Fault("answer")
    /\ requests' = (requests \ {r}) \cup {[r EXCEPT !.slot = Nobody]}
    /\ AttemptFails(r.slot)
    /\ UNCHANGED <<disk, made, seen>>

\* The server ends in the middle of what it was handling; each client's attempt fails.
Restart ==
    /\ Fault("restart")
    /\ requests # {}
    /\ requests' = {}
    /\ LET waiting == {s \in Slots : up[s].at = "wait"}
           over == {s \in waiting : up[s].left = 1}
       IN  /\ up' = [s \in Slots |->
                        IF s \in over THEN Free
                        ELSE IF s \in waiting THEN [up[s] EXCEPT !.at = "probe", !.left = @ - 1, !.offset = 0]
                        ELSE up[s]]
           /\ rec' = IF \E s \in over : up[s].shown THEN [rec EXCEPT !.phase = "ready"] ELSE rec
    /\ UNCHANGED <<disk, made, seen>>

-----------------------------------------------------------------------------
(* The studio page and its recorder *)

\* Uploads may be going on of a page left before.
OpenPage ==
    /\ ~rec.open
    /\ rec' = [Closed EXCEPT !.open = TRUE]
    /\ UNCHANGED <<disk, requests, up, made, faults, seen>>

\* To another page of the application, or out of it: what is being sent goes on,
\* unseen; a recording is never stopped.
LeavePage ==
    /\ rec.open
    /\ rec' = Closed
    /\ up' = [s \in Slots |-> [up[s] EXCEPT !.shown = FALSE]]
    /\ UNCHANGED <<disk, requests, made, faults, seen>>

\* The scripts of the tab end, with the uploads they were at.
Reload ==
    /\ Fault("reload")
    /\ rec' = Closed
    /\ up' = [s \in Slots |-> Free]
    /\ requests' = {[r EXCEPT !.slot = Nobody] : r \in requests}
    /\ UNCHANGED <<disk, made, seen>>

\* toggleRecording and doStart up to the microphone: the phase stays what it is until
\* it opens, so that a second start may follow the first.
Start ==
    /\ rec.open
    /\ rec.phase = "ready"
    /\ \/ rec.starting = 0 /\ NoFault
       \/ rec.starting = 1 /\ Fault("twice")
    /\ made + Cardinality({s \in Slots : up[s].at = "encode"}) + rec.starting < Len(Length)
    /\ rec' = [rec EXCEPT !.starting = @ + 1]
    /\ UNCHANGED <<disk, requests, up, made, seen>>

\* A later capture takes the place of an earlier one, which nobody stops any more.
\* Refused, or without a camera, the recorder is ready again.
MicOpens ==
    /\ rec.starting > 0
    /\ \/ NoFault /\ rec' = [rec EXCEPT !.starting = @ - 1, !.phase = "recording"]
       \/ Fault("device") /\ rec' = [rec EXCEPT !.starting = @ - 1, !.phase = "ready"]
    /\ UNCHANGED <<disk, requests, up, made, seen>>

\* doStop takes the segment the page is at by now - its cards and the arrows of its
\* teleprompter work while a take is recorded - and encodes what was recorded.
Stop(s, segment) ==
    /\ rec.open /\ rec.phase = "recording"
    /\ up[s] = Free
    /\ rec' = [rec EXCEPT !.phase = "sending"]
    /\ up' = [up EXCEPT ![s] = [Free EXCEPT !.at = "encode", !.segment = segment, !.shown = TRUE]]
    /\ UNCHANGED <<disk, requests, made, faults, seen>>

Encoded(s) ==
    /\ up[s].at = "encode" /\ made < Len(Length)
    /\ made' = made + 1
    /\ up' = [up EXCEPT ![s].at = "probe", ![s].take = made + 1, ![s].left = Attempts]
    /\ Shows(s, "sending")
    /\ UNCHANGED <<disk, requests, faults, seen>>

\* The page asks first, before a new take is recorded; when the answer comes a new
\* take may be on its way.  deleteTake removes every file of the take.
DiscardTake(segment) ==
    /\ rec.open /\ \E t \in Takes : <<t, "audio">> \in seen.landed
    /\ \/ rec.phase = "ready" /\ NoFault
       \/ rec.phase # "ready" /\ Fault("late")
    /\ final' = [f \in Files |-> IF f[1] = segment THEN <<>> ELSE final[f]]
    /\ partial' = [f \in Files |-> IF f[1] = segment THEN <<>> ELSE partial[f]]
    /\ UNCHANGED <<requests, up, rec, made, seen>>

Client(s) ==
    \/ Probe(s) \/ AlreadyComplete(s) \/ SendChunk(s) \/ Encoded(s)
    \/ \E segment \in Segments : Stop(s, segment)

Page ==
    \/ OpenPage \/ LeavePage \/ Reload \/ Start \/ MicOpens
    \/ \E segment \in Segments : DiscardTake(segment)

Next ==
    \/ Page \/ Restart
    \/ \E s \in Slots : Client(s)
    \/ \E r \in requests : HandleChunk(r) \/ LoseAnswer(r)

Spec == Init /\ [][Next]_vars

-----------------------------------------------------------------------------
(* Properties *)

\* A take on the server is one whole recording, whatever was left in its partial file
\* by an upload that broke off, by another recording or by a page that is gone
\* ("verify full-file checksum, then atomically publish", upload.go:230) - as long as
\* no two chunks of it were in the handler at a time, when one may write between the
\* checksum and the rename of the other.
TakeIsWhole ==
    \A f \in Files \ seen.overlapped :
        final[f] # <<>> => final[f] = Whole(final[f][1][1], f[2])

\* A recording the page shows as saved was, audio and blendshapes, recorded in the
\* database - whatever was lost, cut short or sent twice - unless the client took a
\* partial file of its size for the file itself (uploadClient.ts:77).
SavedIsRecorded ==
    \A t \in seen.saved : \A kind \in Kind : <<t, kind>> \in seen.landed \cup seen.skipped
=============================================================================
