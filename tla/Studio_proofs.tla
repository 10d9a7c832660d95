---------------------------- MODULE Studio_proofs ----------------------------
(***************************************************************************)
(* Proofs about the events of a video and the reader of them in a browser   *)
(* tab (EventHub, Studio): for any history and channel of the hub, any      *)
(* number of changes, events, scenes and detours of every kind.             *)
(***************************************************************************)
EXTENDS Studio, TLAPS

Reader ==
    [at : {"off", "closed", "open"}, last : Nat, old : BOOLEAN, backlog : Seq(Nat),
     channel : Seq(Nat)]

\* What is to be written to the reader is in the order it was published, and what the reader
\* has not had - unless the reader has its number from an earlier life of the server.
InOrder(seq) ==
    /\ \A i \in DOMAIN seq : seq[i] \in DOMAIN log /\ (stream.old \/ seq[i] > stream.last)
    /\ \A i, j \in DOMAIN seq : i < j => seq[i] < seq[j]

HubOK ==
    /\ log \in Seq(Nat)
    /\ stream \in Reader
    /\ stream.old \/ stream.last <= Len(log)
    /\ Len(stream.channel) <= ChannelCap
    /\ stream.at # "open" => stream.backlog = <<>> /\ stream.channel = <<>>
    /\ InOrder(stream.backlog) /\ InOrder(stream.channel)
    /\ \A i \in DOMAIN stream.backlog, j \in DOMAIN stream.channel :
           stream.backlog[i] < stream.channel[j]

\* What the reader handed on it had before the number it would resume from; of a life of the
\* server whose numbers it does not have yet it handed nothing on.
HeardOK ==
    /\ heard \in Seq(Nat)
    /\ stream.old => heard = <<>>
    /\ ~stream.old => \A i \in DOMAIN heard : heard[i] <= stream.last
    /\ \A i, j \in DOMAIN heard : i < j => heard[i] < heard[j]

\* The reader will have event n: it is under way, or the endpoint will find it in what it
\* keeps, or that it is gone.
Coming(n) ==
    \/ stream.at = "off"
    \/ stream.at = "closed" /\ (stream.old \/ n > stream.last)
    \/ /\ stream.at = "open"
       /\ \/ \E i \in DOMAIN stream.backlog : stream.backlog[i] = n
          \/ \E i \in DOMAIN stream.channel : stream.channel[i] = n

\* Every event is one of the three, from the moment it is published.
Followed == \A n \in DOMAIN log : n \in ToSet(heard) \/ n \in missed \/ Coming(n)

HubInv == HubOK /\ HeardOK /\ Followed

-----------------------------------------------------------------------------
(* The hub and the reader *)

LEMMA RestOf ==
    ASSUME NEW seq \in Seq(Nat), seq # <<>>
    PROVE  /\ Head(seq) = seq[1] /\ Head(seq) \in Nat /\ 1 \in DOMAIN seq
           /\ Tail(seq) \in Seq(Nat)
           /\ \A i \in DOMAIN Tail(seq) : i + 1 \in DOMAIN seq /\ i + 1 > 1 /\ Tail(seq)[i] = seq[i + 1]
           /\ Len(Tail(seq)) <= Len(seq)
           /\ \A i \in DOMAIN seq : i = 1 \/ \E k \in DOMAIN Tail(seq) : Tail(seq)[k] = seq[i]
<1>1. Len(seq) \in Nat /\ Len(seq) > 0 /\ DOMAIN seq = 1 .. Len(seq)
  OBVIOUS
<1>2. Tail(seq) \in Seq(Nat) /\ Len(Tail(seq)) = Len(seq) - 1
  OBVIOUS
<1>3. DOMAIN Tail(seq) = 1 .. Len(seq) - 1
  BY <1>2
<1>4. \A i \in DOMAIN seq : i = 1 \/ (i - 1 \in DOMAIN Tail(seq) /\ Tail(seq)[i - 1] = seq[i])
  BY <1>1, <1>2, <1>3
<1>5. Len(Tail(seq)) <= Len(seq)
  BY <1>1, <1>2
<1>6. \A i \in DOMAIN seq : i = 1 \/ \E k \in DOMAIN Tail(seq) : Tail(seq)[k] = seq[i]
  BY <1>4
<1>7. Head(seq) = seq[1] /\ Head(seq) \in Nat /\ 1 \in DOMAIN seq
  BY <1>1
<1>8. \A i \in DOMAIN Tail(seq) : i + 1 \in DOMAIN seq /\ i + 1 > 1 /\ Tail(seq)[i] = seq[i + 1]
  BY <1>1, <1>2, <1>3
<1> QED
  BY <1>2, <1>5, <1>6, <1>7, <1>8

LEMMA QuietHub ==
    ASSUME HubInv, UNCHANGED hubVars
    PROVE  HubInv'
<1>1. HubOK'
  BY DEF HubInv, HubOK, hubVars, InOrder
<1>2. HeardOK'
  BY DEF HubInv, HeardOK, hubVars
<1>3. Followed'
  BY DEF HubInv, Followed, Coming, hubVars
<1> QED
  BY <1>1, <1>2, <1>3 DEF HubInv

\* What is published is handed to the subscription, or dropped, or is there for the reader
\* who comes back.
LEMMA PublishStep ==
    ASSUME HubInv, NEW change \in Nat, Publish(change)
    PROVE  HubInv'
<1> USE DEF HubInv
<1>1. /\ log' = Append(log, change) /\ UNCHANGED heard
      /\ log \in Seq(Nat) /\ stream \in Reader
  BY DEF Publish, HubOK
<1>3. PICK new \in Nat : new = Len(log) + 1
  BY <1>1
<1>4. /\ log' \in Seq(Nat) /\ Len(log') = new /\ new \in DOMAIN log' /\ new > 0
      /\ DOMAIN log = 1 .. new - 1 /\ DOMAIN log' = 1 .. new
  BY <1>1, <1>3
<1>5. missed' = missed \/ missed' = missed \cup {new}
  BY <1>3 DEF Publish
<1> DEFINE Handed ==
             /\ Len(stream.channel) < ChannelCap
             /\ stream' = [stream EXCEPT !.channel = Append(@, new)]
           channel == stream.channel
<1>8. CASE stream.at = "open" /\ Handed
  <2>1. /\ stream' \in Reader /\ stream'.at = "open" /\ stream'.last = stream.last
        /\ stream'.old = stream.old /\ stream'.backlog = stream.backlog
        /\ stream'.channel = Append(channel, new) /\ channel \in Seq(Nat)
    <3>1. channel \in Seq(Nat) /\ Append(channel, new) \in Seq(Nat)
      BY <1>1, <1>4 DEF Reader
    <3> QED
      BY <1>1, <1>8, <3>1 DEF Reader
  <2>2. /\ DOMAIN stream'.channel = 1 .. Len(channel) + 1 /\ DOMAIN channel = 1 .. Len(channel)
        /\ Len(channel) \in Nat /\ stream'.channel[Len(channel) + 1] = new
        /\ \A i \in DOMAIN channel : stream'.channel[i] = channel[i]
    <3> HIDE DEF channel
    <3> QED
      BY <1>4, <2>1
  <2>3. /\ \A i \in DOMAIN channel : stream.old \/ channel[i] > stream.last
        /\ \A i, j \in DOMAIN channel : i < j => channel[i] < channel[j]
    BY <1>4 DEF HubOK, InOrder
  <2>4. \A i \in DOMAIN stream.backlog, j \in DOMAIN channel : stream.backlog[i] < channel[j]
    BY <1>4 DEF HubOK, InOrder
  <2>5. /\ \A i \in DOMAIN channel : channel[i] \in DOMAIN log' /\ channel[i] < new
        /\ \A i \in DOMAIN stream.backlog : stream.backlog[i] < new
    <3>1. \A m \in DOMAIN log : m \in DOMAIN log' /\ m < new
      BY <1>4
    <3> QED
      BY <3>1 DEF HubOK, InOrder
  <2>6. stream.old \/ stream.last < new
    BY <1>1, <1>3 DEF HubOK, Reader
  <2>7. \A j \in DOMAIN stream'.channel :
            \/ j \in DOMAIN channel /\ stream'.channel[j] = channel[j]
            \/ j = Len(channel) + 1 /\ stream'.channel[j] = new
    BY <2>2
  <2>8. InOrder(stream.backlog)'
    BY <1>4, <2>1 DEF HubOK, InOrder
  <2> HIDE DEF HubInv
  <2>9. InOrder(stream.channel)'
    <3>1. \A i \in DOMAIN stream'.channel :
              stream'.channel[i] \in DOMAIN log' /\ (stream.old \/ stream'.channel[i] > stream.last)
      <4> TAKE i \in DOMAIN stream'.channel
      <4>1. CASE i \in DOMAIN channel /\ stream'.channel[i] = channel[i]
        BY <2>3, <2>5, <4>1
      <4>2. CASE i = Len(channel) + 1 /\ stream'.channel[i] = new
        BY <1>4, <2>6, <4>2
      <4> QED
        BY <2>7, <4>1, <4>2
    <3>2. \A i, j \in DOMAIN stream'.channel : i < j => stream'.channel[i] < stream'.channel[j]
      <4> TAKE i, j \in DOMAIN stream'.channel
      <4> HAVE i < j
      <4>1. i \in DOMAIN channel /\ stream'.channel[i] = channel[i]
        BY <2>2
      <4>2. CASE j \in DOMAIN channel /\ stream'.channel[j] = channel[j]
        BY <2>3, <4>1, <4>2
      <4>3. CASE stream'.channel[j] = new
        BY <2>3, <2>5, <4>1, <4>3
      <4> QED
        BY <2>7, <4>2, <4>3
    <3> QED
      BY <1>4, <2>1, <3>1, <3>2 DEF InOrder
  <2>10. \A i \in DOMAIN stream'.backlog, j \in DOMAIN stream'.channel :
             stream'.backlog[i] < stream'.channel[j]
    <3> TAKE i \in DOMAIN stream'.backlog, j \in DOMAIN stream'.channel
    <3>1. i \in DOMAIN stream.backlog /\ stream'.backlog[i] = stream.backlog[i]
      BY <2>1
    <3>2. CASE j \in DOMAIN channel /\ stream'.channel[j] = channel[j]
      BY <2>4, <3>1, <3>2
    <3>3. CASE stream'.channel[j] = new
      BY <2>4, <2>5, <3>1, <3>3
    <3> QED
      BY <2>7, <3>2, <3>3
  <2> USE DEF HubInv
  <2>11. HubOK'
    <3>1. stream'.old \/ stream'.last <= Len(log')
      BY <1>1, <1>3, <1>4, <2>1 DEF HubOK, Reader
    <3>2. Len(stream'.channel) <= ChannelCap
      BY <1>8, <2>1, HubAssumption
    <3> QED
      BY <1>4, <2>1, <2>8, <2>9, <2>10, <3>1, <3>2 DEF HubOK
  <2>12. \A n \in DOMAIN log : Coming(n) => Coming(n)'
    BY <1>8, <2>1, <2>2 DEF Coming
  <2>13. Coming(new)'
    <3>1. \E i \in DOMAIN stream'.channel : stream'.channel[i] = new
      BY <2>1, <2>2
    <3> QED
      BY <2>1, <3>1 DEF Coming
  <2>14. HeardOK'
    BY <1>1, <2>1 DEF HeardOK
  <2>15. Followed'
    <3>1. \A n \in DOMAIN log' : n \in DOMAIN log \/ n = new
      BY <1>4
    <3> QED
      BY <1>1, <1>5, <2>12, <2>13, <3>1 DEF Followed
  <2> QED
    BY <2>11, <2>14, <2>15
<1>9. CASE stream' = stream /\ (stream.at = "open" => new \in missed')
  <2>1. HubOK'
    BY <1>1, <1>3, <1>4, <1>9 DEF HubOK, InOrder, Reader
  <2>2. \A n \in DOMAIN log : Coming(n) => Coming(n)'
    BY <1>9 DEF Coming
  <2>3. stream.at # "open" => Coming(new)'
    BY <1>1, <1>3, <1>4, <1>9 DEF Coming, HubOK, Reader
  <2>4. HeardOK'
    BY <1>1, <1>9 DEF HeardOK
  <2>5. Followed'
    <3>1. \A n \in DOMAIN log' : n \in DOMAIN log \/ n = new
      BY <1>4
    <3> QED
      BY <1>1, <1>5, <1>9, <2>2, <2>3, <3>1 DEF Followed
  <2> QED
    BY <2>1, <2>4, <2>5
<1>10. \/ stream.at = "open" /\ Handed
       \/ stream' = stream /\ (stream.at = "open" => new \in missed')
  <2>1. Len(stream.channel) < ChannelCap \/ Len(stream.channel) = ChannelCap
    <3>1. Len(stream.channel) \in Nat
      BY <1>1 DEF Reader
    <3> QED
      BY <3>1, HubAssumption DEF HubOK
  <2>2. CASE stream.at = "open" /\ Len(stream.channel) < ChannelCap
    BY <1>1, <1>3, <2>2 DEF Publish
  <2>3. CASE stream.at = "open" /\ Len(stream.channel) = ChannelCap
    <3>1. ~(Len(stream.channel) < ChannelCap)
      BY <2>3, HubAssumption
    <3> QED
      BY <1>1, <1>3, <2>3, <3>1 DEF Publish
  <2>4. CASE stream.at # "open"
    BY <1>1, <2>4 DEF Publish
  <2> QED
    BY <2>1, <2>2, <2>3, <2>4
<1> QED
  BY <1>8, <1>9, <1>10

\* A sequence with what comes after all of it at its end.
LEMMA GrowsOrdered ==
    ASSUME NEW seq \in Seq(Nat), NEW n \in Nat,
           \A i \in DOMAIN seq : seq[i] < n,
           \A i, j \in DOMAIN seq : i < j => seq[i] < seq[j]
    PROVE  LET longer == Append(seq, n)
           IN  /\ longer \in Seq(Nat)
               /\ ToSet(longer) = ToSet(seq) \cup {n}
               /\ \A i \in DOMAIN longer : longer[i] <= n
               /\ \A i, j \in DOMAIN longer : i < j => longer[i] < longer[j]
<1> DEFINE longer == Append(seq, n)
<1>1. /\ Len(seq) \in Nat /\ DOMAIN seq = 1 .. Len(seq) /\ longer \in Seq(Nat)
      /\ DOMAIN longer = 1 .. Len(seq) + 1 /\ longer[Len(seq) + 1] = n
      /\ \A i \in DOMAIN seq : longer[i] = seq[i]
  OBVIOUS
<1> HIDE DEF longer
<1>2. \A i \in DOMAIN longer : i \in DOMAIN seq \/ i = Len(seq) + 1
  BY <1>1
<1>3. ToSet(longer) = ToSet(seq) \cup {n}
  <2>1. DOMAIN seq \subseteq DOMAIN longer /\ Len(seq) + 1 \in DOMAIN longer
    BY <1>1
  <2> QED
    BY <1>1, <1>2, <2>1 DEF ToSet
<1>4. \A i \in DOMAIN seq : seq[i] \in Nat
  BY <1>1
<1>5. \A i \in DOMAIN longer : longer[i] <= n
  BY <1>1, <1>2, <1>4
<1>6. \A i, j \in DOMAIN longer : i < j => longer[i] < longer[j]
  <2> TAKE i, j \in DOMAIN longer
  <2> HAVE i < j
  <2>1. i \in DOMAIN seq
    BY <1>1
  <2>2. CASE j \in DOMAIN seq
    BY <1>1, <2>1, <2>2
  <2>3. CASE j = Len(seq) + 1
    BY <1>1, <2>1, <2>3
  <2> QED
    BY <1>2, <2>2, <2>3
<1> QED
  BY <1>1, <1>3, <1>5, <1>6 DEF longer

\* What the reader hands on is its new number, greater than the one it had.
LEMMA HandsOn ==
    ASSUME HubOK, HeardOK, Deliver, stream'.last \in Nat, ~stream'.old,
           stream.old \/ stream'.last > stream.last
    PROVE  HeardOK' /\ ToSet(heard') = ToSet(heard) \cup {stream'.last}
<1>1. heard' = Append(heard, stream'.last) /\ heard \in Seq(Nat)
  BY DEF Deliver, HeardOK
<1>2. \A i \in DOMAIN heard : heard[i] < stream'.last
  <2>1. CASE stream.old
    <3>1. DOMAIN heard = {}
      BY <2>1 DEF HeardOK
    <3> QED
      BY <3>1
  <2>2. CASE ~stream.old
    <3>1. stream.last \in Nat
      BY DEF HubOK, Reader
    <3>2. \A i \in DOMAIN heard : heard[i] \in Nat
      BY <1>1
    <3>3. stream'.last > stream.last /\ \A i \in DOMAIN heard : heard[i] <= stream.last
      BY <2>2 DEF HeardOK
    <3> QED
      BY <3>1, <3>2, <3>3
  <2> QED
    BY <2>1, <2>2
<1>3. \A i, j \in DOMAIN heard : i < j => heard[i] < heard[j]
  BY DEF HeardOK
<1>4. /\ heard' \in Seq(Nat) /\ ToSet(heard') = ToSet(heard) \cup {stream'.last}
      /\ \A i \in DOMAIN heard' : heard'[i] <= stream'.last
      /\ \A i, j \in DOMAIN heard' : i < j => heard'[i] < heard'[j]
  BY <1>1, <1>2, <1>3, GrowsOrdered
<1> QED
  BY <1>4 DEF HeardOK

\* Deliver: the first of what is under way is handed on; what is left comes after it.
LEMMA DeliverStep ==
    ASSUME HubInv, Deliver
    PROVE  HubInv'
<1> USE DEF HubInv
<1>1. /\ stream.at = "open" /\ log' = log /\ missed' = missed
      /\ stream \in Reader /\ stream.backlog \in Seq(Nat) /\ stream.channel \in Seq(Nat)
      /\ stream.last \in Nat
  BY DEF Deliver, HubOK, Reader
<1>5. CASE stream.backlog # <<>>
  <2> DEFINE seq == stream.backlog
  <2>1. /\ Head(seq) = seq[1] /\ Head(seq) \in Nat /\ 1 \in DOMAIN seq /\ Tail(seq) \in Seq(Nat)
        /\ \A i \in DOMAIN Tail(seq) : i + 1 \in DOMAIN seq /\ i + 1 > 1 /\ Tail(seq)[i] = seq[i + 1]
    BY <1>1, <1>5, RestOf
  <2>0. \A i \in DOMAIN seq : i = 1 \/ \E k \in DOMAIN Tail(seq) : Tail(seq)[k] = seq[i]
    BY <1>1, <1>5, RestOf
  <2>2. /\ stream' \in Reader /\ stream'.last = seq[1] /\ ~stream'.old /\ stream'.at = "open"
        /\ stream'.backlog = Tail(seq) /\ stream'.channel = stream.channel
    <3>1. stream' = [stream EXCEPT !.last = Head(seq), !.old = FALSE, !.backlog = Tail(@)]
      BY <1>1, <1>5 DEF Deliver
    <3> HIDE DEF seq
    <3>2. stream' = [at |-> stream.at, last |-> Head(seq), old |-> FALSE, backlog |-> Tail(seq),
                     channel |-> stream.channel]
      BY <1>1, <3>1 DEF Reader, seq
    <3> QED
      BY <1>1, <2>1, <3>2 DEF Reader
  <2>3. \A i, j \in DOMAIN seq : i < j => seq[i] < seq[j]
    BY DEF HubOK, InOrder
  <2>4. \A i \in DOMAIN seq : seq[i] \in DOMAIN log
    BY DEF HubOK, InOrder
  <2>5. InOrder(stream.backlog)'
    <3>1. \A i \in DOMAIN Tail(seq) : Tail(seq)[i] \in DOMAIN log /\ Tail(seq)[i] > seq[1]
      BY <2>1, <2>3, <2>4
    <3>2. \A i, j \in DOMAIN Tail(seq) : i < j => Tail(seq)[i] < Tail(seq)[j]
      <4>1. DOMAIN Tail(seq) \subseteq Nat
        BY <2>1
      <4>2. \A i, j \in DOMAIN Tail(seq) : i < j => i + 1 < j + 1
        BY <4>1
      <4> QED
        BY <2>1, <2>3, <4>2
    <3> HIDE DEF seq
    <3> QED
      BY <1>1, <2>2, <3>1, <3>2 DEF InOrder
  <2>6. InOrder(stream.channel)'
    <3>1. \A j \in DOMAIN stream.channel : stream.channel[j] > seq[1]
      BY <2>1 DEF HubOK
    <3> QED
      BY <1>1, <2>2, <3>1 DEF HubOK, InOrder
  <2>7. \A i \in DOMAIN stream'.backlog, j \in DOMAIN stream'.channel :
            stream'.backlog[i] < stream'.channel[j]
    BY <2>1, <2>2 DEF HubOK
  <2>8. stream'.last <= Len(log')
    BY <1>1, <2>1, <2>2, <2>4 DEF HubOK
  <2> HIDE DEF seq
  <2>9. HubOK'
    BY <1>1, <2>2, <2>5, <2>6, <2>7, <2>8 DEF HubOK
  <2>10. HeardOK' /\ ToSet(heard') = ToSet(heard) \cup {seq[1]}
    <3>1. stream.old \/ stream'.last > stream.last
      BY <2>1, <2>2 DEF HubOK, InOrder, seq
    <3> QED
      BY <2>1, <2>2, <3>1, HandsOn
  <2>11. Followed'
    <3> SUFFICES ASSUME NEW n \in DOMAIN log, ~(n \in ToSet(heard')), ~(n \in missed)
                 PROVE  Coming(n)'
      BY <1>1 DEF Followed
    <3>1. n # seq[1] /\ Coming(n)
      BY <2>10 DEF Followed
    <3>2. CASE \E i \in DOMAIN seq : seq[i] = n
      BY <2>0, <2>2, <3>1, <3>2 DEF Coming
    <3>3. CASE \E i \in DOMAIN stream.channel : stream.channel[i] = n
      BY <2>2, <3>3 DEF Coming
    <3> QED
      BY <1>1, <3>1, <3>2, <3>3 DEF Coming, seq
  <2> QED
    BY <2>9, <2>10, <2>11
<1>6. CASE stream.backlog = <<>>
  <2> DEFINE seq == stream.channel
  <2>1. seq # <<>> /\ stream' = [stream EXCEPT !.last = Head(seq), !.old = FALSE, !.channel = Tail(@)]
    BY <1>1, <1>6 DEF Deliver
  <2>2. /\ Head(seq) = seq[1] /\ Head(seq) \in Nat /\ 1 \in DOMAIN seq /\ Tail(seq) \in Seq(Nat)
        /\ \A i \in DOMAIN Tail(seq) : i + 1 \in DOMAIN seq /\ i + 1 > 1 /\ Tail(seq)[i] = seq[i + 1]
        /\ Len(Tail(seq)) <= Len(seq)
    BY <1>1, <2>1, RestOf
  <2>0. \A i \in DOMAIN seq : i = 1 \/ \E k \in DOMAIN Tail(seq) : Tail(seq)[k] = seq[i]
    BY <1>1, <2>1, RestOf
  <2>3. /\ stream' \in Reader /\ stream'.last = seq[1] /\ ~stream'.old /\ stream'.at = "open"
        /\ stream'.channel = Tail(seq) /\ stream'.backlog = <<>>
    <3> HIDE DEF seq
    <3>1. stream' = [at |-> stream.at, last |-> Head(seq), old |-> FALSE, backlog |-> stream.backlog,
                     channel |-> Tail(seq)]
      BY <1>1, <2>1 DEF Reader, seq
    <3> QED
      BY <1>1, <1>6, <2>2, <3>1 DEF Reader
  <2>4. \A i, j \in DOMAIN seq : i < j => seq[i] < seq[j]
    BY DEF HubOK, InOrder
  <2>5. \A i \in DOMAIN seq : seq[i] \in DOMAIN log
    BY DEF HubOK, InOrder
  <2>6. InOrder(stream.channel)'
    <3>1. \A i \in DOMAIN Tail(seq) : Tail(seq)[i] \in DOMAIN log /\ Tail(seq)[i] > seq[1]
      BY <2>2, <2>4, <2>5
    <3>2. \A i, j \in DOMAIN Tail(seq) : i < j => Tail(seq)[i] < Tail(seq)[j]
      <4>1. DOMAIN Tail(seq) \subseteq Nat
        BY <2>2
      <4>2. \A i, j \in DOMAIN Tail(seq) : i < j => i + 1 < j + 1
        BY <4>1
      <4> QED
        BY <2>2, <2>4, <4>2
    <3> HIDE DEF seq
    <3> QED
      BY <1>1, <2>3, <3>1, <3>2 DEF InOrder
  <2>7. InOrder(stream.backlog)' /\ DOMAIN stream'.backlog = {}
    BY <2>3 DEF InOrder
  <2>8. Len(stream'.channel) <= ChannelCap
    <3>1. Len(Tail(seq)) \in Nat /\ Len(seq) \in Nat /\ Len(seq) <= ChannelCap
      BY <1>1, <2>2 DEF HubOK
    <3> HIDE DEF seq
    <3> QED
      BY <2>2, <2>3, <3>1, HubAssumption
  <2>9. stream'.last <= Len(log')
    BY <1>1, <2>2, <2>3, <2>5 DEF HubOK
  <2> HIDE DEF seq
  <2>10. HubOK'
    BY <1>1, <2>3, <2>6, <2>7, <2>8, <2>9 DEF HubOK
  <2>11. HeardOK' /\ ToSet(heard') = ToSet(heard) \cup {seq[1]}
    <3>1. stream.old \/ stream'.last > stream.last
      BY <2>2, <2>3 DEF HubOK, InOrder, seq
    <3> QED
      BY <2>2, <2>3, <3>1, HandsOn
  <2>12. Followed'
    <3> SUFFICES ASSUME NEW n \in DOMAIN log, ~(n \in ToSet(heard')), ~(n \in missed)
                 PROVE  Coming(n)'
      BY <1>1 DEF Followed
    <3>1. n # seq[1] /\ Coming(n)
      BY <2>11 DEF Followed
    <3>2. DOMAIN stream.backlog = {}
      BY <1>6
    <3>3. \E i \in DOMAIN seq : seq[i] = n
      BY <1>1, <3>1, <3>2 DEF Coming, seq
    <3> QED
      BY <2>0, <2>3, <3>1, <3>3 DEF Coming
  <2> QED
    BY <2>10, <2>11, <2>12
<1> QED
  BY <1>5, <1>6

LEMMA AfterIs ==
    ASSUME log \in Seq(Nat), NEW n \in Nat
    PROVE  /\ After(n) \in Seq(Nat)
           /\ \A i \in DOMAIN After(n) : After(n)[i] = n + i /\ n + i \in DOMAIN log /\ n + i > n /\ i \in Nat
           /\ \A m \in DOMAIN log : m > n => \E i \in DOMAIN After(n) : After(n)[i] = m
<1> DEFINE k == Len(log) - n
<1>1. Len(log) \in Nat /\ DOMAIN log = 1 .. Len(log) /\ k \in Int /\ DOMAIN After(n) = 1 .. k
  BY DEF After
<1>2. \A i \in 1 .. k : After(n)[i] = n + i /\ n + i \in 1 .. Len(log) /\ n + i > n /\ i \in Nat
  BY <1>1 DEF After
<1>3. \A m \in 1 .. Len(log) : m > n => m - n \in 1 .. k /\ After(n)[m - n] = m
  BY <1>1 DEF After
<1>4. After(n) \in Seq(Nat)
  <2>1. CASE k \in Nat
    BY <1>2, <2>1 DEF After
  <2>2. CASE k \notin Nat
    <3>1. 1 .. k = 1 .. 0
      BY <1>1, <2>2
    <3>2. After(n) = [i \in 1 .. 0 |-> n + i]
      BY <3>1 DEF After
    <3> QED
      BY <3>2
  <2> QED
    BY <2>1, <2>2
<1> HIDE DEF k
<1> QED
  BY <1>1, <1>2, <1>3, <1>4

\* Connect: what comes after the reader's number is written to it, or is gone.
LEMMA ConnectStep ==
    ASSUME HubInv, Connect
    PROVE  HubInv'
<1> USE DEF HubInv
<1> DEFINE since == IF stream.last > Dropped THEN stream.last ELSE Dropped
<1>1. /\ UNCHANGED <<log, heard>> /\ stream.at = "closed"
      /\ stream' = [stream EXCEPT !.at = "open", !.backlog = After(since), !.channel = <<>>]
      /\ missed' = missed \cup (Gone \ ToSet(heard))
      /\ log \in Seq(Nat) /\ stream \in Reader /\ stream.last \in Nat
  BY DEF Connect, Backlog, HubOK, Reader
<1>2. Dropped \in Nat /\ Dropped <= Len(log)
  BY <1>1, HubAssumption DEF Dropped
<1>3. since \in Nat /\ since >= stream.last
  BY <1>1, <1>2
<1> HIDE DEF since
<1>4. /\ After(since) \in Seq(Nat)
      /\ \A i \in DOMAIN After(since) : /\ After(since)[i] = since + i
                                       /\ since + i \in DOMAIN log /\ since + i > since /\ i \in Nat
      /\ \A m \in DOMAIN log : m > since => \E i \in DOMAIN After(since) : After(since)[i] = m
  BY <1>1, <1>3, AfterIs
<1>5. stream' = [at |-> "open", last |-> stream.last, old |-> stream.old, backlog |-> After(since),
                 channel |-> <<>>]
  BY <1>1 DEF Reader
<1>6. stream' \in Reader /\ stream'.at = "open" /\ stream'.last = stream.last
      /\ stream'.old = stream.old /\ stream'.backlog = After(since) /\ stream'.channel = <<>>
  <2>1. <<>> \in Seq(Nat)
    OBVIOUS
  <2>2. stream.old \in BOOLEAN
    BY <1>1 DEF Reader
  <2> QED
    BY <1>1, <1>4, <1>5, <2>1, <2>2 DEF Reader
<1>7. InOrder(stream.backlog)'
  <2>1. \A i \in DOMAIN After(since) : After(since)[i] \in DOMAIN log /\ After(since)[i] > stream.last
    BY <1>1, <1>3, <1>4
  <2>2. \A i, j \in DOMAIN After(since) : i < j => After(since)[i] < After(since)[j]
    BY <1>3, <1>4
  <2> QED
    BY <1>1, <1>6, <2>1, <2>2 DEF InOrder
<1>8. HubOK'
  <2>1. DOMAIN stream'.channel = {} /\ Len(stream'.channel) <= ChannelCap
    BY <1>6, HubAssumption
  <2> QED
    BY <1>1, <1>6, <1>7, <2>1 DEF HubOK, InOrder
<1>9. HeardOK'
  BY <1>1, <1>6 DEF HeardOK
<1>10. Followed'
  <2> SUFFICES ASSUME NEW n \in DOMAIN log, ~(n \in ToSet(heard)), ~(n \in missed')
               PROVE  Coming(n)'
    BY <1>1 DEF Followed
  <2>1. ~(n \in Gone) /\ Coming(n)
    BY <1>1 DEF Followed
  <2>2. n \in Nat
    BY <1>1
  <2>3. n > since
    BY <1>1, <1>2, <2>1, <2>2 DEF Gone, Coming, since
  <2>4. \E i \in DOMAIN stream'.backlog : stream'.backlog[i] = n
    BY <1>4, <1>6, <2>3
  <2> QED
    BY <1>6, <2>4 DEF Coming
<1> QED
  BY <1>8, <1>9, <1>10

\* A reader that is closed keeps the number of what it read last.
LEMMA ClosedIs ==
    ASSUME HubOK
    PROVE  /\ Closed(stream) \in Reader /\ Closed(stream).last = stream.last
           /\ Closed(stream).old = stream.old /\ Closed(stream).at # "open"
           /\ Closed(stream).at = "off" <=> stream.at = "off"
           /\ stream.at = "open" => Closed(stream).backlog = <<>> /\ Closed(stream).channel = <<>>
           /\ stream.at # "open" => Closed(stream) = stream
<1>1. CASE stream.at = "open"
  <2>1. Closed(stream) = [at |-> "closed", last |-> stream.last, old |-> stream.old,
                          backlog |-> <<>>, channel |-> <<>>]
    BY <1>1 DEF Closed, HubOK, Reader
  <2>2. <<>> \in Seq(Nat) /\ stream.last \in Nat /\ stream.old \in BOOLEAN
    BY DEF HubOK, Reader
  <2> QED
    BY <1>1, <2>1, <2>2 DEF Reader
<1>2. CASE stream.at # "open"
  BY <1>2 DEF Closed, HubOK, Reader
<1> QED
  BY <1>1, <1>2

\* What was under way is there for the reader who comes back.
LEMMA BreakStep ==
    ASSUME HubInv, Break
    PROVE  HubInv'
<1> USE DEF HubInv
<1>1. /\ stream.at = "open" /\ stream' = Closed(stream) /\ UNCHANGED <<log, heard, missed>>
      /\ log \in Seq(Nat)
  BY DEF Break, HubOK
<1>2. /\ stream' \in Reader /\ stream'.last = stream.last /\ stream'.old = stream.old
      /\ stream'.at = "closed" /\ stream'.backlog = <<>> /\ stream'.channel = <<>>
  BY <1>1, ClosedIs DEF Reader
<1>3. HubOK'
  <2>1. DOMAIN stream'.channel = {} /\ DOMAIN stream'.backlog = {} /\ Len(stream'.channel) <= ChannelCap
    BY <1>2, HubAssumption
  <2> QED
    BY <1>1, <1>2, <2>1 DEF HubOK, InOrder
<1>4. HeardOK'
  BY <1>1, <1>2 DEF HeardOK
<1>5. \A n : Coming(n) => Coming(n)'
  BY <1>1, <1>2 DEF Coming, HubOK, InOrder
<1>6. Followed'
  BY <1>1, <1>5 DEF Followed
<1> QED
  BY <1>3, <1>4, <1>6

LEMMA RestartsStep ==
    ASSUME HubInv, HubRestarts
    PROVE  HubInv'
<1> USE DEF HubInv
<1>1. /\ log' = <<>> /\ stream' = [Closed(stream) EXCEPT !.old = TRUE]
      /\ heard' = <<>>
  BY DEF HubRestarts
<1>2. log' \in Seq(Nat) /\ DOMAIN log' = {} /\ heard' \in Seq(Nat) /\ DOMAIN heard' = {}
  BY <1>1
<1>3. /\ stream' \in Reader /\ stream'.old
      /\ stream'.backlog = <<>> /\ stream'.channel = <<>>
  <2>1. /\ Closed(stream) \in Reader /\ Closed(stream).backlog = <<>>
        /\ Closed(stream).channel = <<>>
    BY ClosedIs DEF HubOK
  <2> QED
    BY <1>1, <2>1 DEF Reader
<1>4. HubOK'
  <2>1. DOMAIN stream'.channel = {} /\ DOMAIN stream'.backlog = {} /\ Len(stream'.channel) <= ChannelCap
    BY <1>3, HubAssumption
  <2> QED
    BY <1>2, <1>3, <2>1 DEF HubOK, InOrder
<1>5. HeardOK' /\ Followed'
  BY <1>1, <1>2, <1>3 DEF HeardOK, Followed
<1> QED
  BY <1>4, <1>5

\* A tab that is loaded has all events to come, or no reader.
LEMMA LoadsStep ==
    ASSUME HubInv, NEW withToken \in BOOLEAN, HubLoads(withToken)
    PROVE  HubInv'
<1> USE DEF HubInv
<1>1. stream' \in {Off, NewReader} /\ log' = log /\ heard' = <<>> /\ log \in Seq(Nat)
  BY DEF HubLoads, HubOK
<1>2. <<>> \in Seq(Nat) /\ DOMAIN <<>> = {} /\ Len(<<>>) = 0
  OBVIOUS
<1>3. /\ stream' \in Reader /\ stream'.last = 0 /\ stream'.at \in {"off", "closed"} /\ ~stream'.old
      /\ stream'.backlog = <<>> /\ stream'.channel = <<>>
  <2>1. /\ Off \in Reader /\ Off.last = 0 /\ Off.at = "off" /\ ~Off.old
        /\ Off.backlog = <<>> /\ Off.channel = <<>>
    BY <1>2 DEF Off, Reader
  <2>2. /\ NewReader \in Reader /\ NewReader.last = Off.last /\ NewReader.at = "closed"
        /\ NewReader.old = Off.old
        /\ NewReader.backlog = Off.backlog /\ NewReader.channel = Off.channel
    BY <2>1 DEF NewReader, Reader
  <2> QED
    BY <1>1, <2>1, <2>2
<1>4. HubOK'
  BY <1>1, <1>2, <1>3, HubAssumption DEF HubOK, InOrder
<1>5. HeardOK'
  BY <1>1, <1>2, <1>3 DEF HeardOK
<1>6. Followed'
  <2>1. \A n \in DOMAIN log : n \in Nat /\ n > 0
    BY <1>1
  <2> QED
    BY <1>1, <1>3, <2>1 DEF Followed, Coming
<1> QED
  BY <1>4, <1>5, <1>6

LEMMA HubStarts ==
    ASSUME HubInit
    PROVE  HubInv
<1>1. log = <<>> /\ stream = [NewReader EXCEPT !.at = "open"] /\ heard = <<>>
  BY DEF HubInit
<1>2. <<>> \in Seq(Nat) /\ DOMAIN <<>> = {} /\ Len(<<>>) = 0
  OBVIOUS
<1>3. /\ stream \in Reader /\ stream.last = 0 /\ stream.at = "open" /\ ~stream.old
      /\ stream.backlog = <<>> /\ stream.channel = <<>>
  BY <1>1, <1>2 DEF Off, NewReader, Reader
<1>4. HubOK
  BY <1>1, <1>2, <1>3, HubAssumption DEF HubOK, InOrder
<1> QED
  BY <1>1, <1>2, <1>3, <1>4 DEF HubInv, HeardOK, Followed

-----------------------------------------------------------------------------
(* The studio around them *)

\* Changes of status are counted.
Counted == \E status, script : \E at \in Nat : video = [status |-> status, script |-> script, at |-> at]
ServerOK == Counted /\ unannounced \subseteq Nat

StudioInv == HubInv /\ ServerOK

LEMMA SameServer ==
    ASSUME ServerOK, UNCHANGED video, unannounced' \subseteq unannounced
    PROVE  ServerOK'
BY DEF ServerOK, Counted

LEMMA VideoMoves ==
    ASSUME ServerOK, NEW to, Silently(to) \/ Moves(to)
    PROVE  ServerOK'
<1>1. /\ video' = [video EXCEPT !.status = to, !.at = @ + 1]
      /\ unannounced' \in {unannounced, unannounced \cup {video.at + 1}}
  BY DEF Silently, Moves
<1>2. PICK status, script : \E at \in Nat : video = [status |-> status, script |-> script, at |-> at]
  BY DEF ServerOK, Counted
<1>3. PICK n \in Nat : video = [status |-> status, script |-> script, at |-> n]
  BY <1>2
<1>4. video' = [status |-> to, script |-> script, at |-> n + 1] /\ video.at = n /\ n + 1 \in Nat
  <2>1. video.at = n /\ n + 1 \in Nat
    BY <1>3
  <2>2. video' = [status |-> to, script |-> script, at |-> n + 1]
    BY <1>1, <1>3
  <2> QED
    BY <2>1, <2>2
<1>5. Counted'
  BY <1>4 DEF Counted
<1>6. unannounced' \subseteq Nat
  BY <1>1, <1>4 DEF ServerOK
<1> QED
  BY <1>5, <1>6 DEF ServerOK

LEMMA ScriptWritten ==
    ASSUME ServerOK, NEW script, WritesScript(script)
    PROVE  ServerOK'
<1>1. PICK status, was : \E at \in Nat : video = [status |-> status, script |-> was, at |-> at]
  BY DEF ServerOK, Counted
<1>2. PICK n \in Nat : video = [status |-> status, script |-> was, at |-> n]
  BY <1>1
<1>3. video' = [status |-> status, script |-> script, at |-> n] /\ unannounced' = unannounced
  BY <1>2 DEF WritesScript
<1> QED
  BY <1>3 DEF ServerOK, Counted

\* Steps that leave the hub alone.
LEMMA OffTheHub ==
    ASSUME StudioInv, UNCHANGED hubVars, ServerOK'
    PROVE  StudioInv'
BY QuietHub DEF StudioInv

LEMMA ForwardStep ==
    ASSUME StudioInv, Forward
    PROVE  StudioInv'
<1> USE DEF StudioInv
<1>1. UNCHANGED hubVars
  BY DEF Forward, GenerateScript, ApproveScript, FirstTake, LastTake, TakeMoves, ApproveCard, Decide,
         ApproveScenes, ApproveFinalCut, SetChecklistItemPublished, Calls, Sends
<1> SUFFICES ServerOK'
  BY <1>1, OffTheHub
<1>2. CASE GenerateScript
  BY <1>2, ScriptWritten DEF GenerateScript
<1>3. CASE ApproveScript \/ ApproveScenes \/ SetChecklistItemPublished \/ FirstTake \/ LastTake
  BY <1>3, VideoMoves
     DEF ApproveScript, ApproveScenes, SetChecklistItemPublished, FirstTake, LastTake, TakeMoves
<1>4. CASE ApproveFinalCut \/ \E s \in Segments : ApproveCard(s)
  BY <1>4, SameServer DEF ApproveFinalCut, ApproveCard, Decide, serverVars
<1> QED
  BY <1>2, <1>3, <1>4 DEF Forward

\* Steps of the person and of the tab that change nothing on the server.
LEMMA TabStep ==
    ASSUME StudioInv,
           Browse \/ Login \/ StartEditing \/ Discard \/ Answer \/ Load \/ Answered \/ Forget
    PROVE  StudioInv'
<1>1. UNCHANGED <<hubVars, serverVars>>
  BY DEF Browse, Login, StartEditing, Discard, Answer, Load, Answered, Forget
<1> QED
  BY <1>1, SameServer, OffTheHub DEF serverVars, StudioInv

\* Steps of the server and of others, and the saving of a draft.
LEMMA ServerStep ==
    ASSUME StudioInv, Save \/ Observe \/ Services \/ AgentWrites
    PROVE  StudioInv'
<1> USE DEF StudioInv
<1>1. UNCHANGED hubVars
  BY DEF Save, Observe, Services, AgentWrites, Calls, Sends
<1> SUFFICES ServerOK'
  BY <1>1, OffTheHub
<1>2. CASE Save \/ AgentWrites
  BY <1>2, ScriptWritten DEF Save, AgentWrites
<1>3. CASE Observe
  <2>1. CASE Moves("scenes_review") \/ Moves("script_review")
    BY <2>1, VideoMoves
  <2>2. CASE unannounced' = unannounced \cup {video.at} /\ UNCHANGED video
    <3>1. video.at \in Nat
      BY DEF ServerOK, Counted
    <3> QED
      BY <2>2, <3>1 DEF ServerOK, Counted
  <2>3. CASE UNCHANGED <<video, unannounced>>
    BY <2>3, SameServer
  <2> QED
    BY <1>3, <2>1, <2>2, <2>3 DEF Observe
<1>4. CASE Services
  BY <1>4, VideoMoves DEF Services, Animate, Render
<1> QED
  BY <1>2, <1>3, <1>4

\* Steps of the hub.
LEMMA EventStep ==
    ASSUME StudioInv, Hear \/ Listen \/ \E change \in unannounced : Announce(change)
    PROVE  StudioInv'
<1> USE DEF StudioInv
<1>1. CASE Hear \/ Listen
  BY <1>1, DeliverStep, ConnectStep, SameServer DEF Hear, Listen, serverVars
<1>2. CASE \E change \in unannounced : Announce(change)
  <2>1. PICK change \in unannounced : Announce(change)
    BY <1>2
  <2>2. change \in Nat
    BY DEF ServerOK
  <2> QED
    BY <2>1, <2>2, PublishStep, SameServer DEF Announce
<1> QED
  BY <1>1, <1>2

\* What goes astray.
LEMMA AstrayStep ==
    ASSUME StudioInv, Astray
    PROVE  StudioInv'
<1> USE DEF StudioInv
<1>1. CASE Reload \/ Expire
  <2>1. /\ UNCHANGED serverVars
        /\ \E page : HubLoads(page # "login")
    BY <1>1 DEF Reload, Expire, Loaded
  <2>2. \A page : (page # "login") \in BOOLEAN
    OBVIOUS
  <2> QED
    BY <2>1, <2>2, LoadsStep, SameServer DEF serverVars
<1>2. CASE StreamBreaks
  BY <1>2, BreakStep, SameServer DEF StreamBreaks, serverVars
<1>3. CASE Restart
  BY <1>3, RestartsStep, SameServer DEF Restart
<1>4. CASE RejectScript \/ RequestRerender
  BY <1>4, VideoMoves, OffTheHub DEF RejectScript, RequestRerender, Calls, Sends
<1>5. CASE Regenerate \/ AnyoneWrites
  BY <1>5, ScriptWritten, OffTheHub DEF Regenerate, AnyoneWrites, Calls, Sends
<1>6. CASE Go \/ Focus \/ Logout \/ \E s \in Segments : RejectCard(s)
  <2>1. UNCHANGED <<hubVars, video, unannounced>>
    BY <1>6 DEF Go, Focus, Logout, RejectCard, Decide, serverVars
  <2> QED
    BY <2>1, SameServer, OffTheHub
<1>7. CASE WorkStops
  <2>1. UNCHANGED hubVars
    BY <1>7 DEF WorkStops
  <2>2. CASE Silently("blocked")
    BY <2>1, <2>2, VideoMoves, OffTheHub
  <2>3. CASE UNCHANGED <<video, unannounced>>
    BY <2>1, <2>3, SameServer, OffTheHub
  <2> QED
    BY <1>7, <2>2, <2>3 DEF WorkStops
<1> QED
  BY <1>1, <1>2, <1>3, <1>4, <1>5, <1>6, <1>7 DEF Astray

\* Each event the server has published is handed to the page, in order and none twice, for
\* any capacity of channel and history and any number of changes, whatever connections broke
\* and servers and tabs started again - but for those that sse.ts and hub.go lose: an event
\* of a tab without a reader, one dropped at a full channel, one that has left the history,
\* one with a number the reader has of another life of the server.  The invariant follows
\* each event from the moment it is published: it was heard, it went past, or it is under
\* way, in the order of the numbers, or has a greater number than the one resumed from.
THEOREM EventsReachThePage == Spec => []EventsAreHeard
<1>1. Init => StudioInv
  <2> SUFFICES ASSUME Init PROVE StudioInv
    OBVIOUS
  <2>1. HubInv
    BY HubStarts DEF Init
  <2>2. Counted /\ unannounced = {}
    BY DEF Init, Counted
  <2> QED
    BY <2>1, <2>2 DEF StudioInv, ServerOK
<1>2. StudioInv /\ [Next]_vars => StudioInv'
  <2> SUFFICES ASSUME StudioInv, [Next]_vars PROVE StudioInv'
    OBVIOUS
  <2>1. CASE UNCHANGED vars
    BY <2>1, SameServer, OffTheHub DEF vars, serverVars, StudioInv
  <2>2. CASE Next
    BY <2>2, ForwardStep, TabStep, ServerStep, EventStep, AstrayStep DEF Next
  <2> QED
    BY <2>1, <2>2
<1>3. StudioInv => EventsAreHeard
  <2> SUFFICES ASSUME StudioInv PROVE EventsAreHeard
    OBVIOUS
  <2>1. \A n : Quiet /\ ~NoReader => ~Coming(n)
    BY DEF Quiet, NoReader, Coming
  <2>2. Quiet => NoReader \/ DOMAIN log \subseteq ToSet(heard) \cup missed
    BY <2>1 DEF StudioInv, HubInv, Followed
  <2> QED
    BY <2>2 DEF EventsAreHeard, StudioInv, HubInv, HeardOK
<1> QED
  BY <1>1, <1>2, <1>3, PTL DEF Spec
=============================================================================
