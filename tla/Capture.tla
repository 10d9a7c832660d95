------------------------------- MODULE Capture -------------------------------
(***************************************************************************)
(* How a take is captured: the recorder hook of the studio page             *)
(* (useSegmentRecorder), the pump that sends it frames of the camera        *)
(* (useFaceLandmarker), the worker that finds the face in them              *)
(* (faceLandmarker.worker), and the microphone (micCapture) with its        *)
(* recorder-worklet.  Page, worker and worklet are threads that send each   *)
(* other messages, each in order.                                           *)
(*                                                                         *)
(* The hook's pair of audio and blendshapes is what TakeUpload.tla sends.    *)
(* The page stays open here.  The clock counts frames of the camera; a      *)
(* sample is the frame whose scores it has, and a block the sound from one  *)
(* frame to the next.  What the scores say is in Expressions.tla; level     *)
(* and silence of the sound change no take.                                 *)
(***************************************************************************)
EXTENDS Integers, SequencesExt

CONSTANTS
    BatchSize,   \* samples after which the worker posts a batch
    SoundBatch,  \* blocks after which the worklet does
    MaxClock,    \* bound on the frames of a behaviour
    FramesAhead, \* bound on the messages the worker has not read
    MaxCaptures, \* bound on the calls of doStart
    MaxMishaps   \* bound on the failures of a behaviour

ASSUME CaptureAssumption ==
    /\ {BatchSize, SoundBatch, FramesAhead} \subseteq Nat \ {0}
    /\ {MaxClock, MaxCaptures, MaxMishaps} \subseteq Nat

VARIABLES
    clock,     \* performance.now, in frames
    recorder,  \* the hook: its phase and refs
    asking,    \* calls of doStart that wait for the microphone, by number
    toWorker,  \* messages posted to the worker
    worker,    \* the worker's variables
    toPage,    \* batches posted to the page
    mics,      \* of each call of doStart, its microphone
    pairs,     \* the pairs made
    mishaps,   \* how many are left
    takes      \* history: of each call of doStart, see NewTake

captureVars == <<clock, recorder, asking, toWorker, worker, toPage, mics, pairs, mishaps, takes>>

-----------------------------------------------------------------------------

NoTake == 0
NoFrame == [type |-> "none"]

\* mic is captureRef, the capture that was opened last; closing is what doStop is at: the
\* capture it took, the take that was on, and what became of awaitingFlush.
NotClosing == [mic |-> NoTake, take |-> NoTake, flush |-> "none"]
NewRecorder ==
    [phase |-> "ready", mic |-> NoTake, samples |-> <<>>, aborted |-> FALSE,
     closing |-> NotClosing]

\* take stands for t0, which is where that take started, or null; busy is the frame whose
\* handling waits for the model to be loaded again.
NewWorker(delegate) ==
    [delegate |-> delegate, take |-> NoTake, batch |-> <<>>, busy |-> NoFrame]

\* from:    where t0 is
\* pushed:  the samples the worker took for it, in order
\* crossed: something of an earlier take was still under way when it started
NewTake(crossed) == [from |-> clock, pushed |-> <<>>, crossed |-> crossed]

\* from:   when it was opened
\* buffer: the blocks the worklet has not posted
\* posted: its batches under way to the page
\* chunks: what the page has
Mic(open) == [open |-> open, from |-> clock, buffer |-> <<>>, posted |-> <<>>, chunks |-> <<>>]

\* A model that could not be loaded at all takes every frame for nothing.
CaptureInit ==
    /\ clock = 1
    /\ recorder = NewRecorder
    /\ asking = {}
    /\ toWorker = <<>> /\ toPage = <<>>
    /\ \E delegate \in {"GPU", "CPU", "none"} : worker = NewWorker(delegate)
    /\ mics = <<>>
    /\ pairs = <<>>
    /\ mishaps = MaxMishaps
    /\ takes = <<>>

Mishap == mishaps > 0 /\ mishaps' = mishaps - 1
Post(message) == toWorker' = Append(toWorker, message)

-----------------------------------------------------------------------------
(* The hook *)

\* Mutant: the samples of the take before are left.
StartedOver(r) == [r EXCEPT !.aborted = FALSE]

\* What doStart sets before it asks for the microphone.
Started(r) == [r EXCEPT !.samples = <<>>, !.aborted = FALSE]

\* Something the page or the worker has of an earlier take will still come to the hook, or a
\* call of it still waits.
UnderWay ==
    \/ asking # {} \/ recorder.closing # NotClosing
    \/ worker.take # NoTake \/ worker.busy # NoFrame \/ toPage # <<>>
    \/ \E i \in DOMAIN toWorker : toWorker[i].type = "start"

\* The phase stays what it is until the microphone opens; to start again meanwhile is one of
\* the mishaps.
StartTake ==
    /\ recorder.phase = "ready" /\ Len(takes) < MaxCaptures
    /\ \/ asking = {} /\ UNCHANGED mishaps
       \/ asking # {} /\ Mishap
    /\ takes' = Append(takes, NewTake(UnderWay))
    /\ recorder' = Started(recorder)
    /\ asking' = asking \cup {Len(takes) + 1}
    /\ mics' = Append(mics, Mic(FALSE))
    /\ Post([type |-> "start", take |-> Len(takes) + 1])
    /\ UNCHANGED <<clock, worker, toPage, pairs>>

\* startMicCapture comes back, and guard looks at the camera.  One that opens while another
\* is there takes its place, and nobody closes the other.
MicGranted(k) ==
    /\ recorder' = [recorder EXCEPT !.mic = k, !.phase = "recording"]
    /\ mics' = [mics EXCEPT ![k] = Mic(TRUE)]
    /\ UNCHANGED <<toWorker, mishaps>>

\* Refused, not there, or not at 48 kHz.
MicDenied ==
    /\ Mishap
    /\ Post([type |-> "stop"])
    /\ recorder' = [recorder EXCEPT !.phase = "ready"]
    /\ UNCHANGED mics

CameraOff(k) ==
    /\ Mishap
    /\ Post([type |-> "stop"])
    /\ recorder' = [recorder EXCEPT !.mic = k, !.phase = "ready", !.aborted = TRUE]
    /\ UNCHANGED mics

MicAnswers(k) ==
    /\ k \in asking
    /\ asking' = asking \ {k}
    /\ MicGranted(k) \/ MicDenied \/ CameraOff(k)
    /\ UNCHANGED <<clock, worker, toPage, pairs, takes>>

\* doStop asks the worker for what it has, and waits for the next batch.  A bound is that
\* it is called once at a time.
StopTake ==
    /\ recorder.phase = "recording" /\ recorder.closing = NotClosing
    /\ recorder' = [recorder EXCEPT
            !.phase = "encoding", !.mic = NoTake,
            !.closing = [mic |-> recorder.mic, take |-> Len(takes), flush |-> "awaited"]]
    /\ Post([type |-> "stop"])
    /\ UNCHANGED <<clock, asking, worker, toPage, mics, pairs, mishaps, takes>>

\* "never hang forever".
FlushTimesOut ==
    /\ recorder.closing.flush = "awaited"
    /\ recorder' = [recorder EXCEPT !.closing.flush = "over"]
    /\ UNCHANGED <<clock, asking, toWorker, worker, toPage, mics, pairs, mishaps, takes>>

\* The worker has not handled the last stop, or the page not its answer.
Early == toPage # <<>> \/ \E i \in DOMAIN toWorker : toWorker[i].type = "stop"

\* encodeWavPcm16: the chunks one after the other.
EncodeWav(chunks) == FlattenSeq(chunks)

\* stop of the capture: what the worklet has, and what is under way, is gone.
Stopped(mic) == [Mic(FALSE) EXCEPT !.from = mic.from]

\* The end of doStop: the capture is closed, and the pair made of what has come by then.
\* A capture that is gone, or a take that is aborted, makes none.
MakePair ==
    /\ recorder.closing.flush = "over"
    /\ recorder' = [recorder EXCEPT
            !.phase = "ready", !.closing = NotClosing,
            !.samples = IF recorder.closing.mic = NoTake THEN @ ELSE <<>>,
            !.aborted = @ /\ recorder.closing.mic = NoTake]
    /\ mics' = IF recorder.closing.mic = NoTake THEN mics
               ELSE [mics EXCEPT ![recorder.closing.mic] = Stopped(@)]
    /\ pairs' = IF recorder.closing.mic = NoTake \/ recorder.aborted THEN pairs
                ELSE Append(pairs,
                        [audio |-> recorder.closing.mic, take |-> recorder.closing.take,
                         early |-> Early, made |-> clock,
                         wav |-> EncodeWav(mics[recorder.closing.mic].chunks),
                         cut |-> mics[recorder.closing.mic].posted # <<>>,
                         samples |-> recorder.samples])
    /\ UNCHANGED <<clock, asking, toWorker, worker, toPage, mishaps, takes>>

\* onSamples: a batch of whichever take ends the wait.
PageSamples ==
    /\ toPage # <<>>
    /\ toPage' = Tail(toPage)
    /\ recorder' = IF recorder.aborted THEN recorder
                   ELSE [recorder EXCEPT
                            !.samples = @ \o Head(toPage),
                            !.closing.flush = IF @ = "awaited" THEN "over" ELSE @]
    /\ UNCHANGED <<clock, asking, toWorker, worker, mics, pairs, mishaps, takes>>

\* onmessage of the capture.
PageSound(k) ==
    /\ mics[k].posted # <<>>
    /\ mics' = [mics EXCEPT ![k].chunks = Append(@, Head(mics[k].posted)),
                            ![k].posted = Tail(@)]
    /\ UNCHANGED <<clock, recorder, asking, toWorker, worker, toPage, pairs, mishaps, takes>>

-----------------------------------------------------------------------------
(* The worklet, the pump and the worker *)

\* process: a microphone that is open hears the sound up to the next frame.
Heard(mic, block) ==
    LET buffer == Append(mic.buffer, block)
    IN  IF ~mic.open THEN mic
        ELSE IF Len(buffer) < SoundBatch THEN [mic EXCEPT !.buffer = buffer]
        ELSE [mic EXCEPT !.buffer = <<>>, !.posted = Append(@, buffer)]

\* A frame is stamped when it is posted.
PumpFrame ==
    /\ clock < MaxClock /\ Len(toWorker) < FramesAhead
    /\ clock' = clock + 1
    /\ Post([type |-> "frame", at |-> clock + 1])
    /\ mics' = [k \in DOMAIN mics |-> Heard(mics[k], clock + 1)]
    /\ UNCHANGED <<recorder, asking, worker, toPage, pairs, mishaps, takes>>

Reads(type) == toWorker # <<>> /\ Head(toWorker).type = type /\ toWorker' = Tail(toWorker)

WorkerStart ==
    /\ Reads("start")
    /\ LET k == Head(toWorker).take
       IN  /\ worker' = [worker EXCEPT !.take = k, !.batch = <<>>]
           /\ takes' = [takes EXCEPT ![k].crossed = @ \/ worker.busy # NoFrame]
    /\ UNCHANGED <<clock, recorder, asking, toPage, mics, pairs, mishaps>>

\* flushBatch.
Flush(batch) == toPage' = IF batch = <<>> THEN toPage ELSE Append(toPage, batch)

WorkerStop ==
    /\ Reads("stop")
    /\ IF worker.take = NoTake THEN UNCHANGED toPage ELSE Flush(worker.batch)
    /\ worker' = [worker EXCEPT !.take = NoTake, !.batch = <<>>]
    /\ UNCHANGED <<clock, recorder, asking, mics, pairs, mishaps, takes>>

\* What is done with a frame: when there is a face in it and a take is on, its scores are
\* kept, and posted when there are enough of them or it is time.
Inferred(w, frame) ==
    \/ worker' = w /\ UNCHANGED <<toPage, takes>>
    \/ /\ w.take # NoTake
       /\ LET sample == [t |-> frame.at - takes[w.take].from, frame |-> frame.at]
              batch == Append(w.batch, sample)
          IN  /\ takes' = [takes EXCEPT ![w.take].pushed = Append(@, sample)]
              /\ \/ Flush(batch) /\ worker' = [w EXCEPT !.batch = <<>>]
                 \/ /\ Len(batch) < BatchSize
                    /\ UNCHANGED toPage /\ worker' = [w EXCEPT !.batch = batch]

\* A frame that comes while the model is being loaded is dropped.  One at which the CPU
\* fails is one without a face.
WorkerFrame ==
    /\ Reads("frame")
    /\ \/ worker.delegate = "none" /\ UNCHANGED <<worker, toPage, takes, mishaps>>
       \/ worker.delegate # "none" /\ Inferred(worker, Head(toWorker)) /\ UNCHANGED mishaps
       \/ /\ worker.delegate = "GPU" /\ Mishap
          /\ worker' = [worker EXCEPT !.delegate = "none", !.busy = Head(toWorker)]
          /\ UNCHANGED <<toPage, takes>>
    /\ UNCHANGED <<clock, recorder, asking, mics, pairs>>

\* fallbackToCpu comes back, and its frame is taken for the take that is on by then; when
\* it has failed no frame will be.
Recovered ==
    /\ worker.busy # NoFrame
    /\ \/ Inferred([worker EXCEPT !.delegate = "CPU", !.busy = NoFrame], worker.busy)
       \/ worker' = [worker EXCEPT !.busy = NoFrame] /\ UNCHANGED <<toPage, takes>>
    /\ UNCHANGED <<clock, recorder, asking, toWorker, mics, pairs, mishaps>>

-----------------------------------------------------------------------------

CaptureNext ==
    \/ StartTake \/ (\E k \in asking : MicAnswers(k)) \/ StopTake \/ FlushTimesOut \/ MakePair
    \/ PageSamples \/ (\E k \in DOMAIN mics : PageSound(k))
    \/ PumpFrame \/ WorkerStart \/ WorkerFrame \/ WorkerStop \/ Recovered

\* The sound of a pair runs on without a gap from the opening of its microphone, and what it
\* lacks at the end is less than a batch, but for a batch the page had not read.
SoundRunsOn(pair) ==
    LET from == mics[pair.audio].from
        last == Len(pair.wav)
    IN  /\ \A n \in 1..last : pair.wav[n] = from + n
        /\ pair.cut \/ pair.made - (from + last) < SoundBatch

\* A pair is of one take: its audio is of the microphone that take opened, and runs on; the
\* samples in it are those the worker took for it, in order, none twice, as far from the
\* sound of their moment as the microphone took to open ("shared clock for both pipelines",
\* useSegmentRecorder.ts:206), and all of them, whichever batches and messages were under
\* way, starts refused and frames dropped, and however long the model was loaded ("wait for
\* the final message", line 134) - unless something of an earlier take was still under way
\* when it started, and, for all of them, unless the hook took an earlier batch for the last
\* one or gave up waiting for it.
PairIsItsTake ==
    \A i \in DOMAIN pairs :
        LET pair == pairs[i]
            take == takes[pair.take]
            got == pair.samples
            opening == mics[pair.audio].from - take.from
        IN  /\ SoundRunsOn(pair)
            /\ ~take.crossed =>
                /\ pair.audio = pair.take
                /\ IsPrefix(got, take.pushed)
                /\ ~pair.early => got = take.pushed
                /\ \A j \in DOMAIN got :
                       /\ got[j].t > (IF j = 1 THEN 0 ELSE got[j - 1].t)
                       /\ got[j].frame <= pair.made
                       /\ got[j].t \in DOMAIN pair.wav =>
                              pair.wav[got[j].t] = got[j].frame + opening
=============================================================================
