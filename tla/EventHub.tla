------------------------------ MODULE EventHub ------------------------------
(***************************************************************************)
(* The SSE broker of the server (events.Hub), its endpoint, and the reader  *)
(* of one browser tab (lib/sse.ts), for the topic every page listens to.    *)
(*                                                                         *)
(* Events are numbered from one in each life of the server.  What an event  *)
(* says is the number of the change it is about; see Studio.tla, which      *)
(* publishes them.  Events that say nothing of a video's status are left    *)
(* out.                                                                     *)
(***************************************************************************)
EXTENDS Integers, SequencesExt

CONSTANTS
    ChannelCap,  \* capacity of the channel of a subscription
    HistoryCap   \* historyCapPerTopic

ASSUME HubAssumption == ChannelCap \in Nat \ {0} /\ HistoryCap \in Nat \ {0}

VARIABLES
    log,      \* what the events of this life of the server say, by their number
    stream,   \* the tab's reader and its subscription
    heard,    \* history: the events this reader handed to its page, of this life, in order
    missed    \* history: events that went past the reader, see Gone

hubVars == <<log, stream, heard, missed>>

\* "off":    the tab was loaded without a token: there is no reader
\* "closed": the reader waits to connect, or again
\* last is the reader's lastEventId, old when it is one of an earlier life of the server;
\* backlog and channel are the numbers of the events the endpoint has still to write.
Off == [at |-> "off", last |-> 0, old |-> FALSE, backlog |-> <<>>, channel |-> <<>>]
NewReader == [Off EXCEPT !.at = "closed"]

HubInit ==
    /\ log = <<>>
    /\ stream = [NewReader EXCEPT !.at = "open"]
    /\ heard = <<>> /\ missed = {}

\* Publish: the event is kept for those who come back and handed to the subscription,
\* which loses it when the channel is full.
Publish(change) ==
    /\ log' = Append(log, change)
    /\ IF stream.at = "open" /\ Len(stream.channel) < ChannelCap
       THEN stream' = [stream EXCEPT !.channel = Append(@, Len(log) + 1)]
       ELSE UNCHANGED stream
    /\ missed' = IF stream.at = "open" /\ Len(stream.channel) = ChannelCap
                 THEN missed \cup {Len(log) + 1} ELSE missed
    /\ UNCHANGED heard

\* The history keeps the last events: how many it has dropped.
Dropped == IF Len(log) > HistoryCap THEN Len(log) - HistoryCap ELSE 0

\* The numbers of the events after the n-th.
After(n) == [i \in 1..(Len(log) - n) |-> n + i]

\* Mutant: the event after the one resumed from is taken for it.
BacklogFromNext(since) == After(IF since + 1 > Dropped THEN since + 1 ELSE Dropped)

\* SubscribeSince: what is kept and has a greater number than the reader's last.
Backlog(since) == After(IF since > Dropped THEN since ELSE Dropped)

\* Events the reader will never see: those that are kept no more, and those to which a
\* server that has started again gave numbers the reader has passed.
Gone == {n \in DOMAIN log : n <= Dropped \/ (stream.old /\ n <= stream.last)}

\* The reader connects, with the number of the last event it has read.
Connect ==
    /\ stream.at = "closed"
    /\ stream' = [stream EXCEPT !.at = "open", !.backlog = Backlog(stream.last), !.channel = <<>>]
    /\ missed' = missed \cup (Gone \ ToSet(heard))
    /\ UNCHANGED <<log, heard>>

\* The endpoint writes what is next, the backlog first; the reader reads it and hands it on.
Deliver ==
    /\ stream.at = "open"
    /\ \/ /\ stream.backlog # <<>>
          /\ stream' = [stream EXCEPT !.last = Head(stream.backlog), !.old = FALSE, !.backlog = Tail(@)]
       \/ /\ stream.backlog = <<>> /\ stream.channel # <<>>
          /\ stream' = [stream EXCEPT !.last = Head(stream.channel), !.old = FALSE, !.channel = Tail(@)]
    /\ heard' = Append(heard, stream'.last)
    /\ UNCHANGED <<log, missed>>

Closed(reader) ==
    IF reader.at = "open" THEN [reader EXCEPT !.at = "closed", !.backlog = <<>>, !.channel = <<>>]
    ELSE reader

\* The connection breaks: what was under way to the reader is not read.
Break ==
    /\ stream.at = "open"
    /\ stream' = Closed(stream)
    /\ UNCHANGED <<log, heard, missed>>

\* The tab is loaded: with a reader that has read nothing, or none.
HubLoads(withToken) ==
    /\ stream' = IF withToken THEN NewReader ELSE Off
    /\ heard' = <<>> /\ missed' = {}
    /\ UNCHANGED log

\* The server starts again, without history and from number one.
HubRestarts ==
    /\ log' = <<>>
    /\ stream' = [Closed(stream) EXCEPT !.old = TRUE]
    /\ heard' = <<>> /\ missed' = {}

-----------------------------------------------------------------------------

Quiet == stream.at # "closed" /\ stream.backlog = <<>> /\ stream.channel = <<>>

\* A tab that was loaded on the login page: its reader is not started by logging in
\* (useStudioEvents.ts:14-16).
NoReader == stream.at = "off"

\* "No events are lost across drops" (sse.ts:20): once nothing is under way, each event the
\* server has published was handed to the page's hook, in order and none twice, whatever
\* connections broke and servers and tabs started again while events were published -
\* unless the tab has no reader, or the event was dropped at a full channel (hub.go's
\* default case), out of the history when the reader came back, or numbered anew by another
\* life of the server.
EventsAreHeard ==
    /\ Quiet => NoReader \/ DOMAIN log \subseteq ToSet(heard) \cup missed
    /\ \A i, j \in DOMAIN heard : i < j => heard[i] < heard[j]
=============================================================================
