---------------------------- MODULE Intake_proofs ----------------------------
(***************************************************************************)
(* Proofs about how posts come in (Intake), for any list of posts, any      *)
(* number of polls that cross, of attempts, writers, buttons and failures.  *)
(***************************************************************************)
EXTENDS Intake, TLAPS

\* The states of a poll that has an item in hand, which it has inserted.
Busy == {"create", "scaffold", "status", "commit"}
Polling ==
    [at : {"count", "insert"} \cup Busy, items : Seq(BlogPost) \ {<<>>}, baseline : BOOLEAN]

\* The statuses of a video that has its workspace.
Scaffolded == {"script_pending", "script_review", "script_approved"}
Row == [status : {"none", "new"} \cup Scaffolded, post : {0} \cup BlogPost]

File == {"tmp", "script", "none"}
WriterRecord ==
    [slug : Slug, by : {"hook", "page", "edit"}, at : {"ask", "open", "write", "rename"},
     tries : Nat, file : File]
Observing == [slug : Slug, valid : BOOLEAN, at : {"read", "update"}]
Decision == [slug : Slug, to : {"script_approved", "script_pending"}]

Lost(slug) == PostsOf(slug) \subseteq past.failed
Observed(slug) == observing.valid /\ observing.slug = slug

IntakeTypeOK ==
    /\ posts \in 0 .. Len(SlugOf)
    /\ rssItems \subseteq BlogPost
    /\ row \in [Slug -> Row]
    /\ poll \in [Pollers -> {AtRest} \cup Polling]
    /\ writers \subseteq WriterRecord
    /\ tmp \in [Slug -> Content] /\ script \in [Slug -> Content]
    /\ written \subseteq Slug
    /\ observing \in {NotObserving} \cup Observing /\ (observing.at = "update" => observing.valid)
    /\ deciding \subseteq Decision
    /\ past \in [backlog : SUBSET BlogPost, flooded : BOOLEAN, failed : SUBSET BlogPost]

\* A baseline marks what was in the feed; unless it was broken or crossed, every post of it
\* is marked or about to be, no poll that is not one goes on meanwhile, and no video is made
\* for a post of it.
FloodInv ==
    /\ \A q \in Pollers : poll[q].baseline =>
           poll[q].at = "insert" /\ ToSet(poll[q].items) \subseteq past.backlog
    /\ \A q \in Pollers : poll[q].at \in {"insert"} \cup Busy =>
           poll[q].baseline \/ rssItems # {}
    /\ \A q \in Pollers : poll[q].at \in Busy => Item(q) \in rssItems
    /\ \A s \in Slug : row[s].post = 0 \/ row[s].post \in rssItems

Unflooded ==
    ~past.flooded =>
        /\ \A n \in past.backlog : n \in rssItems \/
               \E q \in Pollers : poll[q].baseline /\ n \in ToSet(poll[q].items)
        /\ \A q, r \in Pollers : poll[q].baseline => poll[r].baseline \/ poll[r].at \in {"rest", "count"}
        /\ \A q \in Pollers : poll[q].at \in Busy => Item(q) \notin past.backlog
        /\ \A n \in past.backlog : row[SlugOf[n]].post # n

\* Only one poll takes a video through its first steps, and until they are done nobody else
\* has to do with it.
Starting(q) == poll[q].at \in {"scaffold", "status"}
SlugAt(q) == SlugOf[Item(q)]
Begun(slug) ==
    \/ \E w \in writers : w.slug = slug
    \/ \E d \in deciding : d.slug = slug
    \/ slug \in written \/ Observed(slug) \/ script[slug] # NoText

RowInv ==
    /\ \A q \in Pollers : Starting(q) => row[SlugAt(q)].status = "new"
    /\ \A q \in Pollers : poll[q].at = "commit" => row[SlugAt(q)].status \in Scaffolded
    /\ \A q, r \in Pollers : Starting(q) /\ Starting(r) /\ SlugAt(q) = SlugAt(r) => q = r
    /\ \A s \in Slug : Begun(s) => row[s].status \in Scaffolded

\* A file that was opened is written by someone, and one that was written is looked at.
Writes(slug, file) == \E w \in writers : w.slug = slug /\ w.at = "write" /\ w.file = file
HasText(slug) == tmp[slug] # NoText \/ script[slug] # NoText \/ Lost(slug)
TextInv ==
    /\ \A w \in writers : w.file # "tmp" => w.at \in {"write", "rename"}
    /\ \A w \in writers : w.file = "none" => script[w.slug] # NoText \/ Lost(w.slug)
    /\ \A w \in writers : w.at = "rename" => HasText(w.slug)
    /\ \A s \in Slug :
           /\ tmp[s] = "part" => Lost(s) \/ Writes(s, "tmp")
           /\ script[s] = "part" => Lost(s) \/ Writes(s, "script")
           /\ script[s] = "whole" => Lost(s) \/ s \in written \/ Observed(s) \/ Reviewed(s)

\* A post the watcher knows, and that was not there at first, is in somebody's hands.
PostInv ==
    \A n \in rssItems : n \notin past.backlog =>
        \/ n \in past.failed
        \/ \E q \in Pollers : poll[q].at \in Busy /\ Item(q) = n
        \/ \E w \in writers : w.slug = SlugOf[n]
        \/ script[SlugOf[n]] # NoText

IntakeInv == IntakeTypeOK /\ FloodInv /\ Unflooded /\ RowInv /\ TextInv /\ PostInv

-----------------------------------------------------------------------------
(* Posts and items *)

LEMMA PostsAre ==
    /\ Len(SlugOf) \in Nat /\ BlogPost = 1 .. Len(SlugOf)
    /\ \A n \in BlogPost : n # 0 /\ SlugOf[n] \in Slug /\ n \in PostsOf(SlugOf[n])
    /\ \A slug : PostsOf(slug) \subseteq BlogPost
<1>1. SlugOf \in Seq(STRING)
  BY IntakeAssumption
<1>2. Len(SlugOf) \in Nat /\ DOMAIN SlugOf = 1 .. Len(SlugOf)
  BY <1>1
<1> QED
  BY <1>2 DEF BlogPost, Slug, PostsOf

\* A sequence that is not empty, its first and the rest.
LEMMA HeadAndTail ==
    ASSUME NEW S, NEW seq \in Seq(S), seq # <<>>
    PROVE  /\ Head(seq) \in S /\ Head(seq) \in ToSet(seq) /\ ToSet(seq) \subseteq S
           /\ Len(seq) = 1 => ToSet(seq) = {Head(seq)}
           /\ Len(seq) # 1 => Tail(seq) \in Seq(S) \ {<<>>}
           /\ ToSet(Tail(seq)) \subseteq ToSet(seq)
           /\ \A x \in ToSet(seq) : x = Head(seq) \/ x \in ToSet(Tail(seq))
<1>1. /\ Len(seq) \in Nat /\ Len(seq) >= 1 /\ DOMAIN seq = 1 .. Len(seq)
      /\ Head(seq) = seq[1] /\ \A i \in DOMAIN seq : seq[i] \in S
  OBVIOUS
<1>2. /\ Tail(seq) \in Seq(S) /\ Len(Tail(seq)) = Len(seq) - 1
      /\ \A i \in 1 .. Len(seq) - 1 : Tail(seq)[i] = seq[i + 1]
  OBVIOUS
<1>3. DOMAIN Tail(seq) = 1 .. Len(seq) - 1
  BY <1>2
<1>4. Len(seq) # 1 => Tail(seq) # <<>>
  <2>1. Len(seq) # 1 => Len(Tail(seq)) # 0
    BY <1>1, <1>2
  <2> QED
    BY <2>1
<1>5. 1 \in DOMAIN seq /\ (Len(seq) = 1 => DOMAIN seq = {1})
  BY <1>1
<1>6. \A i \in DOMAIN Tail(seq) : i + 1 \in DOMAIN seq /\ Tail(seq)[i] = seq[i + 1]
  BY <1>1, <1>2, <1>3
<1>7. \A i \in DOMAIN seq : i = 1 \/ (i - 1 \in DOMAIN Tail(seq) /\ Tail(seq)[i - 1] = seq[i])
  BY <1>1, <1>2, <1>3
<1>8. ToSet(Tail(seq)) \subseteq ToSet(seq)
  BY <1>6 DEF ToSet
<1>9. \A x \in ToSet(seq) : x = Head(seq) \/ x \in ToSet(Tail(seq))
  BY <1>1, <1>7 DEF ToSet
<1>10. /\ Head(seq) \in S /\ Head(seq) \in ToSet(seq) /\ ToSet(seq) \subseteq S
       /\ Len(seq) = 1 => ToSet(seq) = {Head(seq)}
  BY <1>1, <1>5 DEF ToSet
<1> QED
  BY <1>2, <1>4, <1>8, <1>9, <1>10

\* A poll that is at work, and what it has left when an item is done with.
LEMMA ItemsAre ==
    ASSUME IntakeTypeOK, NEW p \in Pollers, poll[p] \in Polling
    PROVE  /\ Item(p) \in BlogPost /\ Item(p) \in ToSet(poll[p].items)
           /\ NextItem(p) \in {AtRest} \cup Polling
           /\ NextItem(p) = AtRest \/ (NextItem(p).at = "insert" /\ NextItem(p).baseline = poll[p].baseline)
           /\ \A n \in ToSet(poll[p].items) : n = Item(p) \/ n \in ToSet(NextItem(p).items)
           /\ ToSet(NextItem(p).items) \subseteq ToSet(poll[p].items)
           /\ poll[p].baseline => NextItem(p).baseline \/ ToSet(poll[p].items) = {Item(p)}
<1> DEFINE items == poll[p].items
<1>1. items \in Seq(BlogPost) /\ items # <<>>
  BY DEF Polling
<1>2. /\ Item(p) \in BlogPost /\ Item(p) \in ToSet(items)
      /\ Len(items) = 1 => ToSet(items) = {Item(p)}
      /\ Len(items) # 1 => Tail(items) \in Seq(BlogPost) \ {<<>>}
      /\ ToSet(Tail(items)) \subseteq ToSet(items)
      /\ \A n \in ToSet(items) : n = Item(p) \/ n \in ToSet(Tail(items))
  BY <1>1, HeadAndTail DEF Item
<1>3. CASE Len(items) = 1
  <2>1. NextItem(p) = AtRest /\ NextItem(p).items = <<>> /\ ~NextItem(p).baseline
    BY <1>3 DEF NextItem, AtRest
  <2>2. ToSet(<<>>) = {}
    BY DEF ToSet
  <2> QED
    BY <1>2, <1>3, <2>1, <2>2
<1>4. CASE Len(items) # 1
  <2>1. NextItem(p) = [poll[p] EXCEPT !.at = "insert", !.items = Tail(items)]
    BY <1>4 DEF NextItem
  <2>2. /\ NextItem(p) \in Polling /\ NextItem(p).at = "insert"
        /\ NextItem(p).baseline = poll[p].baseline /\ NextItem(p).items = Tail(items)
    <3> HIDE DEF items
    <3> QED
      BY <1>2, <1>4, <2>1 DEF Polling
  <2> QED
    BY <1>2, <2>2
<1> QED
  BY <1>3, <1>4

\* What the observer has in hand, if it has anything.
LEMMA ObservingIs ==
    /\ NotObserving.at = "rest" /\ ~NotObserving.valid
    /\ IntakeTypeOK /\ observing.at # "rest" =>
           /\ observing \in Observing
           /\ [observing EXCEPT !.at = "update"] \in Observing
           /\ [observing EXCEPT !.at = "update"].slug = observing.slug
           /\ [observing EXCEPT !.at = "update"].valid = observing.valid
<1>1. NotObserving.at = "rest" /\ ~NotObserving.valid
  BY DEF NotObserving
<1>2. IntakeTypeOK /\ observing.at # "rest" => observing \in Observing
  BY <1>1 DEF IntakeTypeOK
<1>3. observing \in Observing =>
          /\ [observing EXCEPT !.at = "update"] \in Observing
          /\ [observing EXCEPT !.at = "update"].slug = observing.slug
          /\ [observing EXCEPT !.at = "update"].valid = observing.valid
  BY DEF Observing
<1> QED
  BY <1>1, <1>2, <1>3

LEMMA AtWork ==
    ASSUME IntakeTypeOK, NEW p \in Pollers, poll[p].at # "rest" \/ poll[p] # AtRest
    PROVE  poll[p] \in Polling
BY DEF IntakeTypeOK, AtRest

\* A poll with an item in hand goes on to the next step.
LEMMA AtIs ==
    ASSUME NEW p \in Pollers, poll[p] \in Polling, NEW at \in {"insert"} \cup Busy
    PROVE  /\ At(p, at) \in Polling /\ At(p, at).at = at /\ At(p, at).items = poll[p].items
           /\ At(p, at).baseline <=> poll[p].baseline
BY DEF At, Polling

\* What a poll does to the polls: one of them turns, the others stay.
LEMMA TurnIs ==
    ASSUME IntakeTypeOK, NEW p \in Pollers, NEW state \in {AtRest} \cup Polling, Turn(p, state)
    PROVE  /\ poll' \in [Pollers -> {AtRest} \cup Polling]
           /\ poll'[p] = state /\ \A q \in Pollers : q # p => poll'[q] = poll[q]
BY DEF Turn, IntakeTypeOK

\* The history of the polls only grows.
PastGrows ==
    /\ past' \in [backlog : SUBSET BlogPost, flooded : BOOLEAN, failed : SUBSET BlogPost]
    /\ past.failed \subseteq past'.failed /\ past.backlog \subseteq past'.backlog
    /\ past.flooded => past'.flooded

LEMMA PastStays ==
    ASSUME IntakeTypeOK, past' = past
    PROVE  PastGrows
BY DEF IntakeTypeOK, PastGrows

\* More posts of whose way a step failed.
LEMMA MoreFailed ==
    ASSUME IntakeTypeOK, NEW more \in SUBSET BlogPost, past' = [past EXCEPT !.failed = @ \cup more]
    PROVE  /\ PastGrows /\ past'.failed = past.failed \cup more
           /\ past'.backlog = past.backlog /\ past'.flooded = past.flooded
BY DEF IntakeTypeOK, PastGrows

-----------------------------------------------------------------------------
(* Types *)

LEMMA PollTypes ==
    ASSUME IntakeTypeOK, NEW p \in Pollers,
           \/ Poll(p) \/ CountRssItems(p) \/ InsertRssItem(p) \/ CreateVideo(p) \/ Scaffold(p)
           \/ UpdateVideoStatus(p) \/ OnScaffolded(p)
    PROVE  IntakeTypeOK' /\ PastGrows
<1> USE DEF IntakeTypeOK
<1>1. CASE Poll(p)
  <2> DEFINE items == [i \in 1 .. posts |-> posts + 1 - i]
             state == [AtRest EXCEPT !.at = "count", !.items = items]
  <2>1. /\ posts \in 1 .. Len(SlugOf) /\ Turn(p, state)
        /\ UNCHANGED <<posts, rssItems, row, writers, tmp, script, written, observing, deciding, past>>
    BY <1>1, PostsAre DEF Poll
  <2>2. items \in Seq(BlogPost) \ {<<>>}
    <3>1. posts \in Nat /\ posts >= 1 /\ \A i \in 1 .. posts : posts + 1 - i \in BlogPost
      BY <2>1, PostsAre
    <3>2. items \in [1 .. posts -> BlogPost] /\ 1 \in DOMAIN items
      BY <3>1
    <3>3. items \in Seq(BlogPost) /\ items # <<>>
      <4> HIDE DEF items
      <4> QED
        BY <3>1, <3>2
    <3> QED
      BY <3>3
  <2>3. state \in Polling
    <3> HIDE DEF items
    <3> QED
      BY <2>2 DEF AtRest, Polling
  <2>4. poll' \in [Pollers -> {AtRest} \cup Polling]
    <3> HIDE DEF state
    <3> QED
      BY <2>1, <2>3, TurnIs
  <2> QED
    BY <2>1, <2>4, PastStays
<1>2. CASE CountRssItems(p)
  <2> DEFINE state == [poll[p] EXCEPT !.at = "insert", !.baseline = (rssItems = {})]
  <2>1. /\ poll[p] \in Polling /\ Turn(p, state)
        /\ UNCHANGED <<posts, rssItems, row, writers, tmp, script, written, observing, deciding>>
    BY <1>2, AtWork DEF CountRssItems
  <2>2. state \in Polling
    <3>1. (rssItems = {}) \in BOOLEAN
      OBVIOUS
    <3> QED
      BY <2>1, <3>1 DEF Polling
  <2>3. poll' \in [Pollers -> {AtRest} \cup Polling]
    <3> HIDE DEF state
    <3> QED
      BY <2>1, <2>2, TurnIs
  <2>4. PastGrows
    <3>1. ToSet(poll[p].items) \subseteq BlogPost
      BY <2>1, HeadAndTail DEF Polling
    <3> QED
      BY <1>2, <3>1 DEF CountRssItems, PastGrows
  <2> QED
    BY <2>1, <2>3, <2>4 DEF PastGrows
<1>3. CASE InsertRssItem(p)
  <2>1. /\ poll[p] \in Polling
        /\ UNCHANGED <<posts, row, writers, tmp, script, written, observing, deciding, past>>
        /\ rssItems' = rssItems \cup {Item(p)}
        /\ Turn(p, NextItem(p)) \/ Turn(p, At(p, "create"))
    BY <1>3, AtWork DEF InsertRssItem
  <2>2. /\ NextItem(p) \in {AtRest} \cup Polling /\ At(p, "create") \in {AtRest} \cup Polling
        /\ Item(p) \in BlogPost
    BY <2>1, ItemsAre, AtIs DEF Busy
  <2>3. poll' \in [Pollers -> {AtRest} \cup Polling]
    BY <2>1, <2>2, TurnIs
  <2> QED
    BY <2>1, <2>2, <2>3, PastStays
<1>4. CASE CreateVideo(p)
  <2>1. /\ poll[p] \in Polling
        /\ UNCHANGED <<posts, rssItems, writers, tmp, script, written, observing, deciding>>
        /\ Turn(p, NextItem(p)) \/ Turn(p, At(p, "scaffold"))
        /\ row' \in {row, [row EXCEPT ![SlugOf[Item(p)]] = [status |-> "new", post |-> Item(p)]]}
        /\ past' \in {past, [past EXCEPT !.failed = @ \cup {Item(p)}]}
    BY <1>4, AtWork DEF CreateVideo
  <2>2. /\ NextItem(p) \in {AtRest} \cup Polling /\ At(p, "scaffold") \in {AtRest} \cup Polling
        /\ Item(p) \in BlogPost
    BY <2>1, ItemsAre, AtIs DEF Busy
  <2>3. poll' \in [Pollers -> {AtRest} \cup Polling]
    BY <2>1, <2>2, TurnIs
  <2>4. row' \in [Slug -> Row]
    BY <2>1, <2>2 DEF Row
  <2>5. PastGrows
    <3>1. {Item(p)} \in SUBSET BlogPost
      BY <2>2
    <3>2. CASE past' = past
      BY <3>2, PastStays
    <3>3. CASE past' = [past EXCEPT !.failed = @ \cup {Item(p)}]
      BY <3>1, <3>3, MoreFailed
    <3> QED
      BY <2>1, <3>2, <3>3
  <2> QED
    BY <2>1, <2>3, <2>4, <2>5 DEF PastGrows
<1>5. CASE Scaffold(p)
  <2>1. /\ poll[p] \in Polling /\ Turn(p, At(p, "status"))
        /\ UNCHANGED <<posts, rssItems, row, writers, tmp, script, written, observing, deciding, past>>
    BY <1>5, AtWork DEF Scaffold
  <2>2. poll' \in [Pollers -> {AtRest} \cup Polling]
    BY <2>1, AtIs, TurnIs DEF Busy
  <2> QED
    BY <2>1, <2>2, PastStays
<1>6. CASE UpdateVideoStatus(p)
  <2>1. /\ poll[p] \in Polling /\ Turn(p, At(p, "commit"))
        /\ UNCHANGED <<posts, rssItems, writers, tmp, script, written, observing, deciding, past>>
        /\ row' = [row EXCEPT ![SlugOf[Item(p)]].status = "script_pending"]
    BY <1>6, AtWork DEF UpdateVideoStatus
  <2>2. poll' \in [Pollers -> {AtRest} \cup Polling]
    BY <2>1, AtIs, TurnIs DEF Busy
  <2>3. row' \in [Slug -> Row]
    BY <2>1 DEF Row, Scaffolded
  <2> QED
    BY <2>1, <2>2, <2>3, PastStays
<1>7. CASE OnScaffolded(p)
  <2>1. /\ poll[p] \in Polling /\ Turn(p, NextItem(p))
        /\ UNCHANGED <<posts, rssItems, row, tmp, script, written, observing, deciding>>
        /\ writers' \in {writers, writers \cup {Writer(SlugOf[Item(p)], "hook", "ask")}}
        /\ past' \in {past, [past EXCEPT !.failed = @ \cup {Item(p)}]}
    BY <1>7, AtWork DEF OnScaffolded
  <2>2. poll' \in [Pollers -> {AtRest} \cup Polling] /\ Item(p) \in BlogPost
    BY <2>1, ItemsAre, TurnIs
  <2>3. Writer(SlugOf[Item(p)], "hook", "ask") \in WriterRecord
    BY <2>2, PostsAre DEF Writer, WriterRecord, File
  <2>4. PastGrows
    <3>1. {Item(p)} \in SUBSET BlogPost
      BY <2>2
    <3> QED
      BY <2>1, <3>1, PastStays, MoreFailed
  <2> QED
    BY <2>1, <2>2, <2>3, <2>4 DEF PastGrows
<1> QED
  BY <1>1, <1>2, <1>3, <1>4, <1>5, <1>6, <1>7

LEMMA PollFailsTypes ==
    ASSUME IntakeTypeOK, NEW p \in Pollers, PollFails(p)
    PROVE  /\ IntakeTypeOK' /\ PastGrows /\ poll[p] \in Polling /\ past'.backlog = past.backlog
           /\ poll[p].at = "insert" => past'.flooded = (past.flooded \/ poll[p].baseline)
           /\ poll[p].at \in Busy => Item(p) \in past'.failed
<1> USE DEF IntakeTypeOK
<1>1. /\ poll[p] \in Polling
      /\ UNCHANGED <<posts, rssItems, row, writers, tmp, script, written, observing, deciding>>
      /\ Turn(p, NextItem(p)) \/ Turn(p, AtRest)
      /\ past' = CASE poll[p].at = "count" -> past
                   [] poll[p].at = "insert" -> [past EXCEPT !.flooded = @ \/ poll[p].baseline]
                   [] OTHER -> [past EXCEPT !.failed = @ \cup {Item(p)}]
  BY AtWork DEF PollFails
<1>2. poll' \in [Pollers -> {AtRest} \cup Polling]
  BY <1>1, ItemsAre, TurnIs
<1>3. {Item(p)} \in SUBSET BlogPost
  BY <1>1, ItemsAre
<1>4. CASE poll[p].at = "count"
  <2>1. past' = past
    BY <1>1, <1>4
  <2> QED
    BY <1>1, <1>2, <1>4, <2>1, PastStays DEF Busy
<1>5. CASE poll[p].at = "insert"
  <2>1. past' = [past EXCEPT !.flooded = @ \/ poll[p].baseline]
    BY <1>1, <1>5
  <2>2. (past.flooded \/ poll[p].baseline) \in BOOLEAN
    OBVIOUS
  <2>3. /\ PastGrows /\ past'.backlog = past.backlog
        /\ past'.flooded = (past.flooded \/ poll[p].baseline)
    BY <2>1, <2>2 DEF PastGrows
  <2> QED
    BY <1>1, <1>2, <1>5, <2>3 DEF Busy, PastGrows
<1>6. CASE poll[p].at \in Busy
  <2>1. past' = [past EXCEPT !.failed = @ \cup {Item(p)}]
    BY <1>1, <1>6 DEF Busy
  <2>2. PastGrows /\ past'.failed = past.failed \cup {Item(p)} /\ past'.backlog = past.backlog
    BY <1>3, <2>1, MoreFailed
  <2> QED
    BY <1>1, <1>2, <1>6, <2>2 DEF Busy, PastGrows
<1> QED
  BY <1>1, <1>4, <1>5, <1>6 DEF Polling

LEMMA GivenUpIs ==
    ASSUME IntakeTypeOK, NEW slug, past' = GivenUp(slug)
    PROVE  /\ PastGrows /\ Lost(slug)' /\ past'.backlog = past.backlog
           /\ past'.flooded = past.flooded
<1>1. PostsOf(slug) \in SUBSET BlogPost
  BY PostsAre
<1>2. /\ PastGrows /\ past'.failed = past.failed \cup PostsOf(slug)
      /\ past'.backlog = past.backlog /\ past'.flooded = past.flooded
  BY <1>1, MoreFailed DEF GivenUp
<1> QED
  BY <1>2 DEF Lost

\* The steps of writers, of the observer and of the person leave the polls and the posts of
\* the videos alone.
Aside ==
    /\ UNCHANGED <<rssItems, poll>>
    /\ past'.backlog = past.backlog /\ past'.flooded = past.flooded
    /\ \A s \in Slug : row'[s].post = row[s].post

\* The writers that are left, when one of them has renamed the file or removed it.
LEMMA OthersAre ==
    ASSUME IntakeTypeOK, NEW w \in writers, NEW become \in [File -> File]
    PROVE  /\ Others(w, become) \subseteq WriterRecord
           /\ \A v \in Others(w, become) : \E o \in writers \ {w} :
                  /\ v.slug = o.slug /\ v.at = o.at
                  /\ \/ v = o /\ (o.slug # w.slug \/ o.at # "write")
                     \/ o.slug = w.slug /\ o.at = "write" /\ v.file = become[o.file]
           /\ \A o \in writers \ {w} : \E v \in Others(w, become) :
                  /\ v.slug = o.slug /\ v.at = o.at
                  /\ o.slug # w.slug \/ o.at # "write" => v = o
                  /\ o.slug = w.slug /\ o.at = "write" => v.file = become[o.file]
<1> DEFINE with(o) == [o EXCEPT !.file = become[@]]
           after(o) == IF o.slug = w.slug /\ o.at = "write" THEN with(o) ELSE o
<1>1. Others(w, become) = {after(o) : o \in writers \ {w}}
  BY DEF Others
<1>2. \A o \in writers : o \in WriterRecord /\ o.file \in File
  BY DEF IntakeTypeOK, WriterRecord
<1>3. \A o \in writers : /\ with(o) \in WriterRecord /\ with(o).slug = o.slug
                         /\ with(o).at = o.at /\ with(o).file = become[o.file]
  BY <1>2 DEF WriterRecord
<1>4. \A o \in writers :
          /\ after(o) \in WriterRecord /\ after(o).slug = o.slug /\ after(o).at = o.at
          /\ o.slug # w.slug \/ o.at # "write" => after(o) = o
          /\ o.slug = w.slug /\ o.at = "write" => after(o).file = become[o.file]
  <2> HIDE DEF with
  <2> QED
    BY <1>2, <1>3
<1> HIDE DEF after
<1> QED
  BY <1>1, <1>4

LEMMA BecomeAre ==
    /\ Renamed \in [File -> File] /\ Removed \in [File -> File]
    /\ Renamed["tmp"] = "script" /\ Renamed["script"] = "none" /\ Renamed["none"] = "none"
    /\ Removed["tmp"] = "none" /\ Removed["script"] = "script" /\ Removed["none"] = "none"
BY DEF Renamed, Removed, File

LEMMA WriterTypes ==
    ASSUME IntakeTypeOK, NEW w \in writers,
           \/ Generated(w) \/ NotGenerated(w) \/ OpenTmp(w) \/ WriteTmp(w) \/ RenameTmp(w)
           \/ WriterFails(w)
    PROVE  IntakeTypeOK' /\ PastGrows /\ Aside
<1> USE DEF IntakeTypeOK
<1>1. w \in WriterRecord /\ w.slug \in Slug
  BY DEF WriterRecord
<1>2. CASE Generated(w)
  <2>1. [w EXCEPT !.at = "open"] \in WriterRecord
    BY <1>1 DEF WriterRecord
  <2> QED
    BY <1>2, <2>1, PastStays DEF Generated, Becomes, Aside
<1>3. CASE NotGenerated(w)
  <2>1. [w EXCEPT !.tries = @ + 1] \in WriterRecord
    BY <1>1 DEF WriterRecord
  <2>2. /\ UNCHANGED <<posts, rssItems, row, poll, tmp, script, written, observing, deciding>>
        /\ writers' \subseteq writers \cup {[w EXCEPT !.tries = @ + 1]}
        /\ past' \in {past, GivenUp(w.slug)}
    BY <1>3 DEF NotGenerated, Becomes
  <2>3. PastGrows /\ past'.backlog = past.backlog /\ past'.flooded = past.flooded
    BY <2>2, PastStays, GivenUpIs
  <2> QED
    BY <2>1, <2>2, <2>3 DEF Aside, PastGrows
<1>4. CASE OpenTmp(w)
  <2>1. [w EXCEPT !.at = "write"] \in WriterRecord
    BY <1>1 DEF WriterRecord
  <2>2. tmp' \in [Slug -> Content]
    BY <1>4 DEF OpenTmp, Content
  <2> QED
    BY <1>4, <2>1, <2>2, PastStays DEF OpenTmp, Becomes, Aside
<1>5. CASE WriteTmp(w)
  <2>1. [w EXCEPT !.at = "rename"] \in WriterRecord
    BY <1>1 DEF WriterRecord
  <2>2. \A file : Filled(file) \subseteq Content
    BY DEF Filled, Content
  <2>3. /\ tmp' \in [Slug -> Content] /\ script' \in [Slug -> Content] /\ written' \subseteq Slug
    BY <1>1, <1>5, <2>2 DEF WriteTmp
  <2> QED
    BY <1>5, <2>1, <2>3, PastStays DEF WriteTmp, Becomes, Aside
<1>6. CASE RenameTmp(w)
  <2>1. Others(w, Renamed) \subseteq WriterRecord
    BY OthersAre, BecomeAre
  <2>2. /\ tmp' \in [Slug -> Content] /\ script' \in [Slug -> Content] /\ written' \subseteq Slug
        /\ writers' \subseteq WriterRecord
    BY <1>1, <1>6, <2>1 DEF RenameTmp, Content
  <2> QED
    BY <1>6, <2>2, PastStays DEF RenameTmp, Aside
<1>7. CASE WriterFails(w)
  <2>1. /\ UNCHANGED <<posts, rssItems, row, poll, script, written, observing, deciding>>
        /\ tmp' \in {tmp, [tmp EXCEPT ![w.slug] = NoText]}
        /\ writers' \in {writers \ {w}, Others(w, Removed)}
        /\ past' = GivenUp(w.slug)
    BY <1>7 DEF WriterFails
  <2>2. tmp' \in [Slug -> Content] /\ writers' \subseteq WriterRecord
    BY <2>1, OthersAre, BecomeAre DEF Content
  <2>3. PastGrows /\ past'.backlog = past.backlog /\ past'.flooded = past.flooded
    BY <2>1, GivenUpIs
  <2> QED
    BY <2>1, <2>2, <2>3 DEF Aside, PastGrows
<1> QED
  BY <1>2, <1>3, <1>4, <1>5, <1>6, <1>7

\* What the blog, the pages, the observer and the person do.
Rest ==
    \/ Publishes \/ ProcessScriptPath \/ ObserverUpdates \/ ObserverFails
    \/ \E s \in Slug :
           \/ GenerateScript(s) \/ UpdateScript(s) \/ ObserverReads(s) \/ ApproveScript(s)
           \/ RejectScript(s)
    \/ \E d \in deciding : TransitionAndRecord(d)

LEMMA OtherTypes ==
    ASSUME IntakeTypeOK, Rest
    PROVE  IntakeTypeOK' /\ PastGrows /\ Aside
<1> USE DEF IntakeTypeOK
<1>1. CASE Publishes
  <2>1. posts' \in 0 .. Len(SlugOf)
    BY <1>1, PostsAre DEF Publishes
  <2> QED
    BY <1>1, <2>1, PastStays DEF Publishes, Aside
<1>2. CASE ProcessScriptPath
  <2>1. /\ observing \in Observing /\ observing.at = "read"
        /\ observing' \in {NotObserving, [observing EXCEPT !.at = "update"]}
        /\ ~observing.valid => observing' = NotObserving
        /\ UNCHANGED <<posts, rssItems, row, poll, writers, tmp, script, written, deciding, past>>
    BY <1>2, ObservingIs DEF ProcessScriptPath
  <2>2. /\ [observing EXCEPT !.at = "update"] \in Observing
        /\ [observing EXCEPT !.at = "update"].valid = observing.valid
    BY <2>1, ObservingIs
  <2>3. /\ observing' \in {NotObserving} \cup Observing
        /\ observing'.at = "update" => observing'.valid
    BY <2>1, <2>2, ObservingIs
  <2> QED
    BY <2>1, <2>3, PastStays DEF Aside
<1>3. CASE ObserverUpdates
  <2>1. /\ row' = [row EXCEPT ![observing.slug].status = "script_review"]
        /\ observing' = NotObserving
        /\ UNCHANGED <<posts, rssItems, poll, writers, tmp, script, written, deciding, past>>
    BY <1>3 DEF ObserverUpdates
  <2>2. row' \in [Slug -> Row] /\ \A s \in Slug : row'[s].post = row[s].post
    BY <2>1 DEF Row, Scaffolded
  <2>3. NotObserving.at # "update"
    BY DEF NotObserving
  <2> QED
    BY <2>1, <2>2, <2>3, PastStays DEF Aside
<1>4. CASE ObserverFails
  <2>1. /\ observing' = NotObserving /\ past' = GivenUp(observing.slug)
        /\ UNCHANGED <<posts, rssItems, row, poll, writers, tmp, script, written, deciding>>
    BY <1>4 DEF ObserverFails
  <2>2. PastGrows /\ past'.backlog = past.backlog /\ past'.flooded = past.flooded
    BY <2>1, GivenUpIs
  <2>3. NotObserving.at # "update"
    BY DEF NotObserving
  <2> QED
    BY <2>1, <2>2, <2>3 DEF Aside, PastGrows
<1>5. ASSUME NEW s \in Slug, GenerateScript(s) \/ UpdateScript(s)
      PROVE  IntakeTypeOK' /\ PastGrows /\ Aside
  <2>1. Writer(s, "page", "ask") \in WriterRecord /\ Writer(s, "edit", "open") \in WriterRecord
    BY DEF Writer, WriterRecord, File
  <2>2. /\ UNCHANGED <<posts, rssItems, row, poll, tmp, script, written, observing, deciding, past>>
        /\ writers' \subseteq writers \cup {Writer(s, "page", "ask"), Writer(s, "edit", "open")}
    BY <1>5 DEF GenerateScript, UpdateScript, Asks
  <2> QED
    BY <2>1, <2>2, PastStays DEF Aside
<1>6. ASSUME NEW s \in Slug, ObserverReads(s)
      PROVE  IntakeTypeOK' /\ PastGrows /\ Aside
  <2>1. /\ observing' = [slug |-> s, valid |-> script[s] = "whole", at |-> "read"]
        /\ written' = written \ {s}
        /\ UNCHANGED <<posts, rssItems, row, poll, writers, tmp, script, deciding, past>>
    BY <1>6 DEF ObserverReads
  <2>2. (script[s] = "whole") \in BOOLEAN
    OBVIOUS
  <2>3. observing' \in Observing /\ observing'.at = "read"
    BY <2>1, <2>2 DEF Observing
  <2> QED
    BY <2>1, <2>3, PastStays DEF Aside
<1>7. ASSUME NEW s \in Slug, ApproveScript(s) \/ RejectScript(s)
      PROVE  IntakeTypeOK' /\ PastGrows /\ Aside
  <2>1. /\ \E to \in {"script_approved", "script_pending"} :
               deciding' = deciding \cup {[slug |-> s, to |-> to]}
        /\ UNCHANGED <<posts, rssItems, row, poll, writers, tmp, script, written, observing, past>>
    BY <1>7 DEF ApproveScript, RejectScript, Decides
  <2>2. deciding' \subseteq Decision
    BY <2>1 DEF Decision
  <2> QED
    BY <2>1, <2>2, PastStays DEF Aside
<1>8. ASSUME NEW d \in deciding, TransitionAndRecord(d)
      PROVE  IntakeTypeOK' /\ PastGrows /\ Aside
  <2>1. /\ row' = [row EXCEPT ![d.slug].status = d.to] /\ deciding' \subseteq deciding
        /\ past' \in {past, GivenUp(d.slug)}
        /\ UNCHANGED <<posts, rssItems, poll, writers, tmp, script, written, observing>>
    BY <1>8 DEF TransitionAndRecord
  <2>2. d.to \in Scaffolded
    BY DEF Decision, Scaffolded
  <2>3. row' \in [Slug -> Row] /\ \A o \in Slug : row'[o].post = row[o].post
    BY <2>1, <2>2 DEF Row
  <2>4. PastGrows /\ past'.backlog = past.backlog /\ past'.flooded = past.flooded
    BY <2>1, PastStays, GivenUpIs
  <2> QED
    BY <2>1, <2>3, <2>4 DEF Aside, PastGrows
<1> QED
  BY <1>1, <1>2, <1>3, <1>4, <1>5, <1>6, <1>7, <1>8 DEF Rest

LEMMA RestartTypes ==
    ASSUME IntakeTypeOK, ServerRestarts
    PROVE  /\ IntakeTypeOK' /\ PastGrows /\ \A p \in Pollers : poll'[p] = AtRest
           /\ UNCHANGED <<rssItems, row, tmp, script>>
           /\ writers' = {} /\ written' = {} /\ observing' = NotObserving /\ deciding' = {}
           /\ past'.backlog = past.backlog
           /\ past'.flooded = (past.flooded \/ \E p \in Pollers : poll[p].baseline)
           /\ \A p \in Pollers : poll[p].at \in Busy => Item(p) \in past'.failed
           /\ \A s \in Slug :
                  (\E w \in writers : w.slug = s) \/ s \in written \/ observing.slug = s => Lost(s)'
<1> USE DEF IntakeTypeOK
<1> DEFINE busy == {p \in Pollers : poll[p].at \notin {"rest", "count", "insert"}}
           slugs == {w.slug : w \in writers} \cup written \cup {observing.slug}
           lost == {Item(p) : p \in busy} \cup UNION {PostsOf(s) : s \in slugs}
           flooded == past.flooded \/ \E p \in Pollers : poll[p].baseline
<1>1. /\ UNCHANGED <<posts, rssItems, row, tmp, script>>
      /\ poll' = [p \in Pollers |-> AtRest]
      /\ writers' = {} /\ written' = {} /\ observing' = NotObserving /\ deciding' = {}
      /\ past' = [past EXCEPT !.flooded = flooded, !.failed = @ \cup lost]
  BY DEF ServerRestarts
<1>2. lost \subseteq BlogPost
  <2>1. \A p \in busy : Item(p) \in BlogPost
    <3> SUFFICES ASSUME NEW p \in busy PROVE Item(p) \in BlogPost
      OBVIOUS
    <3>1. poll[p] \in Polling
      BY AtWork
    <3> QED
      BY <3>1, ItemsAre
  <2>2. \A s : PostsOf(s) \subseteq BlogPost
    BY PostsAre
  <2> QED
    BY <2>1, <2>2
<1>3. flooded \in BOOLEAN
  OBVIOUS
<1>4. /\ past'.backlog = past.backlog /\ past'.flooded = flooded
      /\ past'.failed = past.failed \cup lost
      /\ past' \in [backlog : SUBSET BlogPost, flooded : BOOLEAN, failed : SUBSET BlogPost]
  <2> HIDE DEF lost, flooded
  <2> QED
    BY <1>1, <1>2, <1>3
<1>5. PastGrows
  BY <1>4 DEF PastGrows
<1>6. \A p \in Pollers : poll[p].at \in Busy => Item(p) \in past'.failed
  BY <1>4 DEF Busy
<1>7. \A s \in slugs : Lost(s)'
  BY <1>4 DEF Lost
<1>8. NotObserving.at # "update"
  BY DEF NotObserving
<1> QED
  BY <1>1, <1>4, <1>5, <1>6, <1>7, <1>8

LEMMA Types ==
    ASSUME IntakeTypeOK, [IntakeNext]_intakeVars
    PROVE  IntakeTypeOK' /\ PastGrows
<1>1. CASE UNCHANGED intakeVars
  BY <1>1, PastStays DEF intakeVars, IntakeTypeOK
<1>2. CASE IntakeNext
  BY <1>2, PollTypes, PollFailsTypes, WriterTypes, OtherTypes, RestartTypes
  DEF IntakeNext, Rest
<1> QED
  BY <1>1, <1>2

-----------------------------------------------------------------------------
(* No video for the posts of the first poll *)

LEMMA FloodAside ==
    ASSUME IntakeTypeOK, FloodInv, Unflooded, Aside
    PROVE  FloodInv' /\ Unflooded'
<1>1. \A n \in past.backlog : SlugOf[n] \in Slug
  BY PostsAre DEF IntakeTypeOK
<1> QED
  BY <1>1 DEF FloodInv, Unflooded, Aside, Item

\* A poll that goes on with its items, once it has counted.
LEMMA FloodTurn ==
    ASSUME IntakeTypeOK, FloodInv, Unflooded, NEW p \in Pollers,
           NEW state \in {AtRest} \cup Polling, Turn(p, state), rssItems \subseteq rssItems',
           past'.backlog = past.backlog, past.flooded => past'.flooded,
           state.baseline =>
               /\ poll[p].baseline /\ state.at = "insert"
               /\ ToSet(state.items) \subseteq ToSet(poll[p].items),
           state.at \in {"insert"} \cup Busy => state.baseline \/ rssItems' # {},
           state.at \in Busy =>
               Head(state.items) \in rssItems' /\
               (past'.flooded \/ Head(state.items) \notin past.backlog),
           past'.flooded \/ \A n \in ToSet(poll[p].items) : poll[p].baseline =>
               n \in rssItems' \/ (state.baseline /\ n \in ToSet(state.items)),
           past'.flooded \/ state.at \in {"rest", "count"} \/
               (poll[p].at \notin {"rest", "count"} /\ (state.baseline <=> poll[p].baseline)),
           \A s \in Slug : row'[s].post = 0 \/ row'[s].post \in rssItems',
           past'.flooded \/ \A n \in past.backlog : row'[SlugOf[n]].post # n
    PROVE  FloodInv' /\ Unflooded'
<1>1. poll'[p] = state /\ \A q \in Pollers : q # p => poll'[q] = poll[q]
  BY TurnIs
<1>2. FloodInv'
  <2>1. \A q \in Pollers : poll'[q].baseline =>
            poll'[q].at = "insert" /\ ToSet(poll'[q].items) \subseteq past'.backlog
    BY <1>1 DEF FloodInv
  <2>2. \A q \in Pollers : poll'[q].at \in {"insert"} \cup Busy =>
            poll'[q].baseline \/ rssItems' # {}
    BY <1>1 DEF FloodInv
  <2>3. \A q \in Pollers : poll'[q].at \in Busy => Head(poll'[q].items) \in rssItems'
    BY <1>1 DEF FloodInv, Item
  <2> QED
    BY <2>1, <2>2, <2>3 DEF FloodInv, Item
<1>3. ASSUME ~past'.flooded PROVE Unflooded'
  <2>1. ~past.flooded
    BY <1>3
  <2>2. \A n \in past.backlog : n \in rssItems' \/
            \E q \in Pollers : poll'[q].baseline /\ n \in ToSet(poll'[q].items)
    <3> SUFFICES ASSUME NEW n \in past.backlog, n \notin rssItems'
                 PROVE  \E q \in Pollers : poll'[q].baseline /\ n \in ToSet(poll'[q].items)
      OBVIOUS
    <3>1. PICK q \in Pollers : poll[q].baseline /\ n \in ToSet(poll[q].items)
      BY <2>1 DEF Unflooded
    <3> QED
      BY <1>1, <1>3, <3>1
  <2>3. \A q, r \in Pollers :
            poll'[q].baseline => poll'[r].baseline \/ poll'[r].at \in {"rest", "count"}
    <3> SUFFICES ASSUME NEW q \in Pollers, NEW r \in Pollers, poll'[q].baseline
                 PROVE  poll'[r].baseline \/ poll'[r].at \in {"rest", "count"}
      OBVIOUS
    <3>1. poll[q].baseline
      BY <1>1
    <3>2. poll[r].baseline \/ poll[r].at \in {"rest", "count"}
      BY <2>1, <3>1 DEF Unflooded
    <3> QED
      BY <1>1, <1>3, <3>2
  <2>4. \A q \in Pollers : poll'[q].at \in Busy => Head(poll'[q].items) \notin past.backlog
    BY <1>1, <1>3, <2>1 DEF Unflooded, Item
  <2> QED
    BY <1>3, <2>2, <2>3, <2>4 DEF Unflooded, Item
<1> QED
  BY <1>2, <1>3 DEF Unflooded

\* While a poll has a post in hand, no other marks a baseline: or it is known that they met.
LEMMA BusyAlone ==
    ASSUME IntakeTypeOK, FloodInv, Unflooded, NEW p \in Pollers, poll[p] \in Polling,
           poll[p].at \in Busy
    PROVE  /\ ~poll[p].baseline /\ Item(p) \in rssItems
           /\ past.flooded \/ Item(p) \notin past.backlog
           /\ past.flooded \/ \A q \in Pollers : ~poll[q].baseline
<1>1. ~poll[p].baseline /\ Item(p) \in rssItems
  BY DEF FloodInv, Busy
<1>2. ASSUME ~past.flooded PROVE Item(p) \notin past.backlog /\ \A q \in Pollers : ~poll[q].baseline
  BY <1>1, <1>2 DEF Unflooded, Busy
<1> QED
  BY <1>1, <1>2

\* A poll that has a post in hand, and goes on with it.
LEMMA FloodHand ==
    ASSUME IntakeTypeOK, FloodInv, Unflooded, NEW p \in Pollers, poll[p] \in Polling,
           poll[p].at \in {"insert"} \cup Busy, NEW at \in Busy, Turn(p, At(p, at)),
           ~poll[p].baseline, rssItems \subseteq rssItems', Item(p) \in rssItems',
           past'.backlog = past.backlog, past'.flooded = past.flooded,
           past.flooded \/ Item(p) \notin past.backlog,
           \A s \in Slug : row'[s].post = 0 \/ row'[s].post \in rssItems',
           past.flooded \/ \A n \in past.backlog : row'[SlugOf[n]].post # n
    PROVE  FloodInv' /\ Unflooded'
<1>1. PICK state \in {AtRest} \cup Polling : state = At(p, at)
  BY AtIs
<1>2. Turn(p, state)
  BY <1>1 DEF Turn
<1>3. state.at \in Busy /\ ~state.baseline /\ state.items = poll[p].items
  BY <1>1, AtIs
<1>4. Head(state.items) = Item(p)
  BY <1>3 DEF Item
<1>5. poll[p].at \notin {"rest", "count"} /\ state.at # "rest"
  BY <1>3 DEF Busy
<1> QED
  BY <1>2, <1>3, <1>4, <1>5, FloodTurn

LEMMA FloodPolls ==
    ASSUME IntakeTypeOK, FloodInv, Unflooded, NEW p \in Pollers,
           \/ InsertRssItem(p) \/ CreateVideo(p) \/ Scaffold(p)
           \/ UpdateVideoStatus(p) \/ OnScaffolded(p) \/ PollFails(p)
    PROVE  FloodInv' /\ Unflooded'
<1>1. poll[p] \in Polling
  BY AtWork DEF InsertRssItem, CreateVideo, Scaffold, UpdateVideoStatus, OnScaffolded, PollFails
<1>2. /\ Item(p) \in BlogPost /\ Item(p) \in ToSet(poll[p].items)
      /\ NextItem(p) \in {AtRest} \cup Polling
      /\ NextItem(p) = AtRest \/ (NextItem(p).at = "insert" /\ NextItem(p).baseline = poll[p].baseline)
      /\ \A n \in ToSet(poll[p].items) : n = Item(p) \/ n \in ToSet(NextItem(p).items)
      /\ ToSet(NextItem(p).items) \subseteq ToSet(poll[p].items)
      /\ poll[p].baseline => NextItem(p).baseline \/ ToSet(poll[p].items) = {Item(p)}
  BY <1>1, ItemsAre
<1>3. /\ AtRest \in {AtRest} \cup Polling /\ AtRest.at = "rest" /\ ~AtRest.baseline
      /\ Item(p) = Head(poll[p].items)
  BY DEF AtRest, Item
<1>4. \A n \in past.backlog : n \in BlogPost /\ SlugOf[n] \in Slug
  BY PostsAre DEF IntakeTypeOK
<1>5. /\ \A s \in Slug : row[s].post = 0 \/ row[s].post \in rssItems
      /\ past.flooded \/ \A n \in past.backlog : row[SlugOf[n]].post # n
      /\ poll[p].at \in {"insert"} \cup Busy => poll[p].baseline \/ rssItems # {}
  BY DEF FloodInv, Unflooded
<1>6. ASSUME poll[p].at \in Busy
      PROVE  /\ ~poll[p].baseline /\ Item(p) \in rssItems
             /\ past.flooded \/ Item(p) \notin past.backlog
             /\ rssItems # {}
  BY <1>1, <1>6, BusyAlone
<1>7. poll[p].at = "insert" => poll[p].at \notin Busy /\ poll[p].at \notin {"rest", "count"}
  BY DEF Busy
<1>8. poll[p].at \in Busy => poll[p].at \notin {"rest", "count", "insert"}
  BY DEF Busy
<1>9. CASE InsertRssItem(p)
  <2>1. /\ poll[p].at = "insert" /\ rssItems' = rssItems \cup {Item(p)} /\ UNCHANGED <<row, past>>
        /\ Turn(p, IF Item(p) \in rssItems \/ IsBaseline(p) THEN NextItem(p) ELSE At(p, "create"))
    BY <1>9 DEF InsertRssItem
  <2>2. CASE Item(p) \in rssItems \/ poll[p].baseline
    <3>1. Turn(p, NextItem(p))
      BY <2>1, <2>2 DEF IsBaseline
    <3> QED
      BY <1>2, <1>3, <1>5, <1>7, <2>1, <3>1, FloodTurn DEF Busy
  <2>3. CASE Item(p) \notin rssItems /\ ~poll[p].baseline
    <3>1. Turn(p, At(p, "create"))
      BY <2>1, <2>3 DEF IsBaseline
    <3>2. past.flooded \/ Item(p) \notin past.backlog
      <4>1. ASSUME ~past.flooded, Item(p) \in past.backlog PROVE FALSE
        <5>1. PICK q \in Pollers : poll[q].baseline
          BY <2>3, <4>1 DEF Unflooded
        <5>2. poll[p].baseline \/ poll[p].at \in {"rest", "count"}
          BY <4>1, <5>1 DEF Unflooded
        <5> QED
          BY <2>1, <2>3, <5>2
      <4> QED
        BY <4>1
    <3>3. /\ rssItems \subseteq rssItems' /\ Item(p) \in rssItems' /\ "create" \in Busy
          /\ \A s \in Slug : row'[s].post = 0 \/ row'[s].post \in rssItems'
          /\ past.flooded \/ \A n \in past.backlog : row'[SlugOf[n]].post # n
      BY <1>5, <2>1 DEF Busy
    <3> QED
      BY <1>1, <2>1, <2>3, <3>1, <3>2, <3>3, FloodHand
  <2> QED
    BY <2>2, <2>3
<1>10. CASE Scaffold(p) \/ UpdateVideoStatus(p)
  <2>1. /\ poll[p].at \in Busy /\ UNCHANGED <<rssItems, past>>
        /\ \A s \in Slug : row'[s].post = row[s].post
    BY <1>10, <1>2, PostsAre DEF Scaffold, UpdateVideoStatus, IntakeTypeOK, Row, Busy
  <2>2. PICK at \in Busy : Turn(p, At(p, at))
    BY <1>10 DEF Scaffold, UpdateVideoStatus, Busy
  <2>3. \A n \in past.backlog : row'[SlugOf[n]].post = row[SlugOf[n]].post
    BY <1>4, <2>1
  <2> QED
    BY <1>1, <1>5, <1>6, <2>1, <2>2, <2>3, FloodHand
<1>11. CASE OnScaffolded(p)
  <2>1. /\ poll[p].at \in Busy /\ UNCHANGED <<rssItems, row>> /\ Turn(p, NextItem(p))
        /\ past'.backlog = past.backlog /\ past'.flooded = past.flooded
    BY <1>11 DEF OnScaffolded, Busy, IntakeTypeOK
  <2> QED
    BY <1>2, <1>3, <1>5, <1>6, <1>8, <2>1, FloodTurn DEF Busy
<1>12. CASE CreateVideo(p)
  <2>1. /\ poll[p].at \in Busy /\ UNCHANGED rssItems
        /\ past'.backlog = past.backlog /\ past'.flooded = past.flooded
    BY <1>12 DEF CreateVideo, Busy, IntakeTypeOK
  <2>2. CASE row[SlugOf[Item(p)]] # NoVideo
    <3>1. Turn(p, NextItem(p)) /\ UNCHANGED row
      BY <1>12, <2>2 DEF CreateVideo
    <3> QED
      BY <1>2, <1>3, <1>5, <1>6, <1>8, <2>1, <3>1, FloodTurn DEF Busy
  <2>3. CASE row[SlugOf[Item(p)]] = NoVideo
    <3>1. /\ Turn(p, At(p, "scaffold"))
          /\ row' = [row EXCEPT ![SlugOf[Item(p)]] = [status |-> "new", post |-> Item(p)]]
      BY <1>12, <2>3 DEF CreateVideo
    <3>2. \A s \in Slug : row'[s].post \in {row[s].post, Item(p)}
      BY <3>1 DEF IntakeTypeOK
    <3>3. past.flooded \/ \A n \in past.backlog : row'[SlugOf[n]].post # n
      BY <1>4, <1>5, <1>6, <2>1, <3>2
    <3>4. \A s \in Slug : row'[s].post = 0 \/ row'[s].post \in rssItems
      BY <1>5, <1>6, <2>1, <3>2
    <3>5. "scaffold" \in Busy
      BY DEF Busy
    <3> QED
      BY <1>1, <1>6, <2>1, <3>1, <3>3, <3>4, <3>5, FloodHand
  <2> QED
    BY <2>2, <2>3
<1>13. CASE PollFails(p)
  <2>1. /\ UNCHANGED <<rssItems, row>>
        /\ past'.backlog = past.backlog /\ (past.flooded => past'.flooded)
        /\ poll[p].at = "insert" => past'.flooded = (past.flooded \/ poll[p].baseline)
    BY <1>13, PollFailsTypes DEF PollFails, PastGrows
  <2>2. poll[p].at # "insert" => ~poll[p].baseline
    BY DEF FloodInv
  <2>3. past'.flooded \/ ~poll[p].baseline
    BY <2>1, <2>2
  <2>4. CASE Turn(p, AtRest)
    <3>1. ToSet(AtRest.items) \subseteq ToSet(poll[p].items)
      BY DEF AtRest, ToSet
    <3> QED
      BY <1>3, <1>5, <2>1, <2>3, <2>4, FloodTurn DEF Busy
  <2>5. CASE Turn(p, NextItem(p)) /\ poll[p].at # "count"
    <3>1. poll[p].at \in {"insert"} \cup Busy
      BY <1>1, <2>5 DEF Polling
    <3>2. poll[p].at \notin {"rest", "count"}
      BY <3>1, <1>7, <1>8
    <3> QED
      BY <1>2, <1>3, <1>5, <1>6, <2>1, <2>3, <2>5, <3>1, <3>2, FloodTurn DEF Busy
  <2> QED
    BY <1>13, <2>4, <2>5 DEF PollFails
<1> QED
  BY <1>9, <1>10, <1>11, <1>12, <1>13

\* A poll that found no item marks all of the feed, and no other has counted otherwise.
LEMMA FloodCount ==
    ASSUME IntakeTypeOK, FloodInv, Unflooded, NEW p \in Pollers, CountRssItems(p)
    PROVE  FloodInv' /\ Unflooded'
<1> DEFINE first == rssItems = {}
           state == [poll[p] EXCEPT !.at = "insert", !.baseline = first]
<1>1. /\ poll[p] \in Polling /\ poll[p].at = "count" /\ Turn(p, state)
      /\ UNCHANGED <<rssItems, row>>
  BY AtWork DEF CountRssItems
<1>2. first \in BOOLEAN
  OBVIOUS
<1>3. /\ state \in Polling /\ state.at = "insert" /\ state.items = poll[p].items
      /\ state.baseline <=> first
  <2> HIDE DEF first
  <2> QED
    BY <1>1, <1>2 DEF Polling
<1>4. poll'[p] = state /\ \A q \in Pollers : q # p => poll'[q] = poll[q]
  <2> HIDE DEF state
  <2> QED
    BY <1>1, <1>3, TurnIs
<1>5. /\ poll'[p].at = "insert" /\ ToSet(poll'[p].items) = ToSet(poll[p].items)
      /\ poll'[p].baseline <=> rssItems = {}
  BY <1>3, <1>4
<1>6. ToSet(poll[p].items) \subseteq BlogPost
  BY <1>1, HeadAndTail DEF Polling
<1>7. \A n \in past.backlog : SlugOf[n] \in Slug /\ n # 0
  BY PostsAre DEF IntakeTypeOK
<1>8. rssItems = {} => /\ past'.backlog = past.backlog \cup ToSet(poll[p].items)
                       /\ past'.flooded = past.flooded
  BY DEF CountRssItems, IntakeTypeOK
<1>9. rssItems # {} =>
          past'.backlog = past.backlog /\ (~past'.flooded => ~past.flooded /\ \A q \in Pollers : ~poll[q].baseline)
  <2> SUFFICES ASSUME rssItems # {}
               PROVE  past'.backlog = past.backlog /\
                      (~past'.flooded => ~past.flooded /\ \A q \in Pollers : ~poll[q].baseline)
    OBVIOUS
  <2> DEFINE met == past.flooded \/ \E q \in Pollers : poll[q].baseline
  <2>1. past' = [past EXCEPT !.flooded = met]
    BY DEF CountRssItems
  <2>2. met \in BOOLEAN
    OBVIOUS
  <2>3. past'.backlog = past.backlog /\ (past'.flooded <=> met)
    <3> HIDE DEF met
    <3> QED
      BY <2>1, <2>2 DEF IntakeTypeOK
  <2> QED
    BY <2>3
<1> HIDE DEF state, first
<1>10. FloodInv'
  <2>1. \A q \in Pollers : poll'[q].baseline =>
            poll'[q].at = "insert" /\ ToSet(poll'[q].items) \subseteq past'.backlog
    BY <1>4, <1>5, <1>8, <1>9 DEF FloodInv
  <2>2. \A q \in Pollers : poll'[q].at \in {"insert"} \cup Busy =>
            poll'[q].baseline \/ rssItems' # {}
    BY <1>1, <1>4, <1>5 DEF FloodInv
  <2>3. \A q \in Pollers : poll'[q].at \in Busy => Head(poll'[q].items) \in rssItems'
    BY <1>1, <1>4, <1>5 DEF FloodInv, Item, Busy
  <2>4. \A s \in Slug : row'[s].post = 0 \/ row'[s].post \in rssItems'
    BY <1>1 DEF FloodInv
  <2> QED
    BY <2>1, <2>2, <2>3, <2>4 DEF FloodInv, Item
<1>11. CASE rssItems = {}
  <2>1. \A q \in Pollers : poll[q].at \notin Busy /\ (poll[q].at = "insert" => poll[q].baseline)
    BY <1>11 DEF FloodInv
  <2>2. \A q \in Pollers : poll[q].at \in {"rest", "count", "insert"} \cup Busy
    BY DEF IntakeTypeOK, AtRest, Polling
  <2>3. \A n \in past'.backlog : row'[SlugOf[n]].post # n
    BY <1>1, <1>6, <1>8, <1>11, PostsAre DEF FloodInv, IntakeTypeOK
  <2>4. \A q \in Pollers : poll'[q].at \notin Busy
    BY <1>4, <1>5, <2>1 DEF Busy
  <2>5. \A q \in Pollers : poll'[q].baseline \/ poll'[q].at \in {"rest", "count"}
    BY <1>4, <1>5, <1>11, <2>1, <2>2
  <2>6. ~past'.flooded => \A n \in past'.backlog :
            \E q \in Pollers : poll'[q].baseline /\ n \in ToSet(poll'[q].items)
    <3> SUFFICES ASSUME ~past'.flooded, NEW n \in past'.backlog
                 PROVE  \E q \in Pollers : poll'[q].baseline /\ n \in ToSet(poll'[q].items)
      OBVIOUS
    <3>1. CASE n \in ToSet(poll[p].items)
      BY <1>5, <1>11, <3>1
    <3>2. CASE n \in past.backlog
      <4>1. PICK q \in Pollers : poll[q].baseline /\ n \in ToSet(poll[q].items)
        BY <1>8, <1>11, <3>2 DEF Unflooded
      <4> QED
        BY <1>4, <1>5, <1>11, <4>1
    <3> QED
      BY <1>8, <1>11, <3>1, <3>2
  <2> QED
    BY <1>10, <2>3, <2>4, <2>5, <2>6 DEF Unflooded
<1>12. CASE rssItems # {}
  <2> SUFFICES ASSUME ~past'.flooded PROVE Unflooded'
    BY <1>10 DEF Unflooded
  <2>1. ~past.flooded /\ \A q \in Pollers : ~poll[q].baseline
    BY <1>9, <1>12
  <2>2. \A q \in Pollers : ~poll'[q].baseline
    BY <1>4, <1>5, <1>12, <2>1
  <2>3. past'.backlog = past.backlog /\ \A n \in past.backlog : n \in rssItems /\ row'[SlugOf[n]].post # n
    BY <1>1, <1>9, <1>12, <2>1 DEF Unflooded
  <2>4. \A q \in Pollers : poll'[q].at \in Busy => Head(poll'[q].items) \notin past.backlog
    BY <1>4, <1>5, <2>1 DEF Unflooded, Item, Busy
  <2> QED
    BY <1>1, <2>2, <2>3, <2>4 DEF Unflooded, Item
<1> QED
  BY <1>10, <1>11, <1>12

LEMMA FloodStep ==
    ASSUME IntakeTypeOK, FloodInv, Unflooded, [IntakeNext]_intakeVars
    PROVE  FloodInv' /\ Unflooded'
<1>1. CASE UNCHANGED intakeVars
  <2>1. Aside
    BY <1>1 DEF intakeVars, Aside
  <2> QED
    BY <2>1, FloodAside
<1>2. ASSUME NEW p \in Pollers, Poll(p) PROVE FloodInv' /\ Unflooded'
  <2>1. poll[p] = AtRest /\ UNCHANGED <<rssItems, row, past>>
    BY <1>2 DEF Poll
  <2>2. PICK items : Turn(p, [AtRest EXCEPT !.at = "count", !.items = items])
    BY <1>2 DEF Poll
  <2>3. PICK state : state = [AtRest EXCEPT !.at = "count", !.items = items]
    OBVIOUS
  <2>4. poll'[p] = state /\ state.at = "count" /\ ~state.baseline /\ Turn(p, state)
    BY <2>2, <2>3 DEF Turn, AtRest, IntakeTypeOK
  <2>5. state \in {AtRest} \cup Polling
    BY <1>2, <2>4, PollTypes DEF IntakeTypeOK
  <2>6. ToSet(poll[p].items) = {}
    BY <2>1 DEF AtRest, ToSet
  <2>7. /\ \A s \in Slug : row[s].post = 0 \/ row[s].post \in rssItems
        /\ past.flooded \/ \A n \in past.backlog : row[SlugOf[n]].post # n
    BY DEF FloodInv, Unflooded
  <2> QED
    BY <2>1, <2>4, <2>5, <2>6, <2>7, FloodTurn DEF Busy
<1>3. CASE ServerRestarts
  <2>1. /\ \A p \in Pollers : poll'[p] = AtRest
        /\ UNCHANGED <<rssItems, row>> /\ past'.backlog = past.backlog
        /\ ~past'.flooded => ~past.flooded /\ \A p \in Pollers : ~poll[p].baseline
    BY <1>3, RestartTypes
  <2>2. \A p \in Pollers : poll'[p].at = "rest" /\ ~poll'[p].baseline
    BY <2>1 DEF AtRest
  <2>3. FloodInv'
    BY <2>1, <2>2 DEF FloodInv, Busy
  <2>4. ~past'.flooded => \A n \in past'.backlog : n \in rssItems' /\ row'[SlugOf[n]].post # n
    BY <2>1 DEF Unflooded
  <2> QED
    BY <2>2, <2>3, <2>4 DEF Unflooded, Busy
<1>4. CASE Rest \/ \E w \in writers : \/ Generated(w) \/ NotGenerated(w) \/ OpenTmp(w) \/ WriteTmp(w) \/ RenameTmp(w)
           \/ WriterFails(w)
  <2>1. Aside
    BY <1>4, OtherTypes, WriterTypes
  <2> QED
    BY <2>1, FloodAside
<1>5. CASE IntakeNext
  BY <1>2, <1>3, <1>4, <1>5, FloodPolls, FloodCount DEF IntakeNext, Rest
<1> QED
  BY <1>1, <1>5

-----------------------------------------------------------------------------
(* The first steps of a video *)

\* A video without its workspace keeps its status and is not begun; one that has it keeps it.
Proceeds ==
    \A s \in Slug :
        /\ row'[s].status = row[s].status \/ {row[s].status, row'[s].status} \subseteq Scaffolded
        /\ Begun(s)' => Begun(s) \/ row[s].status \in Scaffolded

LEMMA RowAside ==
    ASSUME IntakeTypeOK, RowInv, Proceeds, UNCHANGED poll
    PROVE  RowInv'
<1>1. \A q \in Pollers : poll[q].at \in Busy => SlugAt(q) \in Slug
  BY AtWork, ItemsAre, PostsAre DEF SlugAt, Busy
<1>2. /\ \A q \in Pollers : Starting(q)' <=> Starting(q)
      /\ \A q \in Pollers : SlugAt(q)' = SlugAt(q)
  BY DEF Starting, SlugAt, Item
<1>3. \A q \in Pollers : Starting(q) => SlugAt(q) \in Slug /\ row'[SlugAt(q)].status = "new"
  BY <1>1 DEF RowInv, Proceeds, Starting, Busy, Scaffolded
<1>4. \A q \in Pollers : poll[q].at = "commit" => row'[SlugAt(q)].status \in Scaffolded
  BY <1>1 DEF RowInv, Proceeds, Busy
<1>5. \A s \in Slug : Begun(s)' => row'[s].status \in Scaffolded
  BY DEF RowInv, Proceeds
<1> QED
  BY <1>2, <1>3, <1>4, <1>5 DEF RowInv

LEMMA RowTurn ==
    ASSUME IntakeTypeOK, RowInv, Proceeds, UNCHANGED row, NEW p \in Pollers,
           NEW state \in {AtRest} \cup Polling, Turn(p, state), state.at # "commit",
           state.at \in {"scaffold", "status"} => Starting(p) /\ Head(state.items) = Item(p)
    PROVE  RowInv'
<1>1. poll'[p] = state /\ \A q \in Pollers : q # p => poll'[q] = poll[q]
  BY TurnIs
<1>2. \A q \in Pollers : Starting(q)' => Starting(q) /\ SlugAt(q)' = SlugAt(q)
  BY <1>1 DEF Starting, SlugAt, Item
<1>3. \A q \in Pollers : poll'[q].at = "commit" => poll[q].at = "commit" /\ SlugAt(q)' = SlugAt(q)
  BY <1>1 DEF SlugAt, Item
<1>4. \A s \in Slug : Begun(s)' => row[s].status \in Scaffolded
  BY DEF RowInv, Proceeds
<1> QED
  BY <1>2, <1>3, <1>4 DEF RowInv

LEMMA WriterProceeds ==
    ASSUME IntakeTypeOK, RowInv, NEW w \in writers,
           \/ Generated(w) \/ NotGenerated(w) \/ OpenTmp(w) \/ WriteTmp(w) \/ RenameTmp(w)
           \/ WriterFails(w)
    PROVE  Proceeds
<1>1. w.slug \in Slug /\ Begun(w.slug) /\ UNCHANGED <<row, observing, deciding>>
  <2>1. UNCHANGED <<row, observing, deciding>>
    BY DEF Generated, NotGenerated, OpenTmp, WriteTmp, RenameTmp, WriterFails
  <2> QED
    BY <2>1 DEF IntakeTypeOK, WriterRecord, Begun
<1>2. \A o \in writers' : \E v \in writers : o.slug = v.slug
  <2>1. /\ [w EXCEPT !.at = "open"].slug = w.slug /\ [w EXCEPT !.at = "write"].slug = w.slug
        /\ [w EXCEPT !.at = "rename"].slug = w.slug /\ [w EXCEPT !.tries = @ + 1].slug = w.slug
    BY DEF IntakeTypeOK, WriterRecord
  <2>2. ASSUME NEW next, next.slug = w.slug, Becomes(w, next)
        PROVE  \A o \in writers' : \E v \in writers : o.slug = v.slug
    BY <2>2 DEF Becomes
  <2>3. CASE writers' = writers \ {w}
    BY <2>3
  <2>4. CASE Generated(w)
    BY <2>1, <2>2, <2>4 DEF Generated
  <2>5. CASE NotGenerated(w)
    <3>1. writers' = writers \ {w} \/ Becomes(w, [w EXCEPT !.tries = @ + 1])
      BY <2>5 DEF NotGenerated
    <3> QED
      BY <2>1, <2>2, <2>3, <3>1
  <2>6. CASE OpenTmp(w)
    <3>1. Becomes(w, [w EXCEPT !.at = "write"])
      BY <2>6 DEF OpenTmp
    <3> QED
      BY <2>1, <2>2, <3>1
  <2>7. CASE WriteTmp(w)
    <3>1. Becomes(w, [w EXCEPT !.at = "rename"])
      BY <2>7 DEF WriteTmp
    <3> QED
      BY <2>1, <2>2, <3>1
  <2>8. CASE RenameTmp(w) \/ WriterFails(w)
    <3>1. \/ writers' = writers \ {w}
          \/ writers' = Others(w, Renamed) \/ writers' = Others(w, Removed)
      BY <2>8 DEF RenameTmp, WriterFails
    <3> QED
      BY <2>3, <3>1, OthersAre, BecomeAre
  <2> QED
    BY <2>4, <2>5, <2>6, <2>7, <2>8
<1>3. written' \subseteq written \cup {w.slug}
  <2>1. written' = written \/ written' = written \cup {w.slug}
    BY DEF Generated, NotGenerated, OpenTmp, WriteTmp, RenameTmp, WriterFails
  <2> QED
    BY <2>1
<1>4. \A s \in Slug : s # w.slug => script'[s] = script[s]
  <2>1. CASE Generated(w) \/ NotGenerated(w) \/ OpenTmp(w) \/ WriterFails(w)
    BY <2>1 DEF Generated, NotGenerated, OpenTmp, WriterFails
  <2>2. CASE WriteTmp(w) \/ RenameTmp(w)
    <3>1. script' = script \/ \E text : script' = [script EXCEPT ![w.slug] = text]
      <4>1. CASE WriteTmp(w) /\ w.file = "tmp"
        BY <4>1 DEF WriteTmp
      <4>2. CASE WriteTmp(w) /\ w.file = "script"
        BY <4>2 DEF WriteTmp
      <4>3. CASE WriteTmp(w) /\ w.file \notin {"tmp", "script"}
        BY <4>3 DEF WriteTmp
      <4>4. CASE RenameTmp(w)
        BY <4>4 DEF RenameTmp
      <4> QED
        BY <2>2, <4>1, <4>2, <4>3, <4>4
    <3> QED
      BY <3>1 DEF IntakeTypeOK
  <2> QED
    BY <2>1, <2>2
<1> QED
  BY <1>1, <1>2, <1>3, <1>4 DEF Proceeds, Begun, Observed, RowInv

LEMMA OtherProceeds ==
    ASSUME IntakeTypeOK, RowInv, Rest
    PROVE  Proceeds
<1>1. CASE Publishes
  BY <1>1 DEF Publishes, Proceeds, Begun, Observed
<1>2. CASE ProcessScriptPath
  <2>1. /\ UNCHANGED <<row, writers, script, written, deciding>> /\ observing \in Observing
        /\ observing' \in {NotObserving, [observing EXCEPT !.at = "update"]}
    BY <1>2, ObservingIs DEF ProcessScriptPath
  <2>2. observing'.valid => observing.valid /\ observing'.slug = observing.slug
    BY <1>2, <2>1, ObservingIs DEF ProcessScriptPath
  <2>3. \A s \in Slug : Observed(s)' => Observed(s)
    BY <2>2 DEF Observed
  <2> QED
    BY <2>1, <2>3 DEF Proceeds, Begun
<1>3. CASE ObserverUpdates
  <2>1. /\ observing' = NotObserving /\ UNCHANGED <<writers, script, written, deciding>>
        /\ row' = [row EXCEPT ![observing.slug].status = "script_review"]
        /\ observing \in Observing /\ observing.valid
    BY <1>3, ObservingIs DEF ObserverUpdates, IntakeTypeOK
  <2>2. \A s \in Slug : Begun(s)' => Begun(s)
    BY <2>1 DEF Begun, Observed, NotObserving
  <2>3. observing.slug \in Slug /\ Begun(observing.slug)
    BY <2>1 DEF Begun, Observed, Observing
  <2>4. \A s \in Slug : row'[s].status = IF s = observing.slug THEN "script_review" ELSE row[s].status
    BY <2>1, <2>3 DEF IntakeTypeOK, Row
  <2> QED
    BY <2>2, <2>3, <2>4 DEF Proceeds, RowInv, Scaffolded
<1>4. CASE ObserverFails
  BY <1>4 DEF ObserverFails, Proceeds, Begun, Observed, NotObserving
<1>5. ASSUME NEW s \in Slug, GenerateScript(s) \/ UpdateScript(s)
      PROVE  Proceeds
  <2>1. /\ UNCHANGED <<row, script, written, observing, deciding>> /\ row[s].status \in Scaffolded
        /\ \E by, at : writers' = writers \cup {Writer(s, by, at)}
    BY <1>5 DEF GenerateScript, UpdateScript, Asks, Scaffolded
  <2> QED
    BY <2>1 DEF Proceeds, Begun, Observed, Writer
<1>6. ASSUME NEW s \in Slug, ObserverReads(s)
      PROVE  Proceeds
  <2>1. /\ UNCHANGED <<row, script, writers, deciding>> /\ written' \subseteq written
        /\ s \in written /\ observing'.slug = s
    BY <1>6 DEF ObserverReads
  <2> QED
    BY <2>1 DEF Proceeds, Begun, Observed
<1>7. ASSUME NEW s \in Slug, ApproveScript(s) \/ RejectScript(s)
      PROVE  Proceeds
  <2>1. /\ UNCHANGED <<row, script, writers, written, observing>> /\ row[s].status \in Scaffolded
        /\ \E to : deciding' = deciding \cup {[slug |-> s, to |-> to]}
    BY <1>7 DEF ApproveScript, RejectScript, Decides, Scaffolded
  <2> QED
    BY <2>1 DEF Proceeds, Begun, Observed
<1>8. ASSUME NEW d \in deciding, TransitionAndRecord(d)
      PROVE  Proceeds
  <2>1. /\ UNCHANGED <<script, writers, written, observing>> /\ deciding' \subseteq deciding
        /\ row' = [row EXCEPT ![d.slug].status = d.to]
    BY <1>8 DEF TransitionAndRecord
  <2>2. d.slug \in Slug /\ d.to \in Scaffolded
    BY DEF IntakeTypeOK, Decision, Scaffolded
  <2>3. Begun(d.slug)
    BY DEF Begun
  <2>4. \A o \in Slug : row'[o].status = row[o].status \/ (o = d.slug /\ row'[o].status \in Scaffolded)
    BY <2>1, <2>2 DEF IntakeTypeOK, Row
  <2>5. \A o \in Slug : Begun(o)' => Begun(o)
    BY <2>1 DEF Begun, Observed
  <2>6. row[d.slug].status \in Scaffolded
    BY <2>2, <2>3 DEF RowInv
  <2> QED
    BY <2>4, <2>5, <2>6 DEF Proceeds
<1> QED
  BY <1>1, <1>2, <1>3, <1>4, <1>5, <1>6, <1>7, <1>8 DEF Rest

LEMMA RowPolls ==
    ASSUME IntakeTypeOK, RowInv, NEW p \in Pollers,
           \/ Poll(p) \/ CountRssItems(p) \/ InsertRssItem(p) \/ CreateVideo(p) \/ Scaffold(p)
           \/ UpdateVideoStatus(p) \/ OnScaffolded(p) \/ PollFails(p)
    PROVE  RowInv'
<1>1. CASE Poll(p) \/ CountRssItems(p)
  <2>1. /\ UNCHANGED <<row, script, writers, written, observing, deciding>>
        /\ \E state : Turn(p, state) /\ state.at \in {"count", "insert"}
    <3>1. CASE Poll(p)
      <4>1. /\ UNCHANGED <<row, script, writers, written, observing, deciding>>
            /\ \E items : Turn(p, [AtRest EXCEPT !.at = "count", !.items = items])
        BY <3>1 DEF Poll
      <4>2. \A items : [AtRest EXCEPT !.at = "count", !.items = items].at = "count"
        BY DEF AtRest
      <4> QED
        BY <4>1, <4>2
    <3>2. CASE CountRssItems(p)
      <4>1. poll[p] \in Polling
        BY <3>2, AtWork DEF CountRssItems
      <4>2. /\ UNCHANGED <<row, script, writers, written, observing, deciding>>
            /\ \E first : Turn(p, [poll[p] EXCEPT !.at = "insert", !.baseline = first])
        BY <3>2 DEF CountRssItems
      <4>3. \A first : [poll[p] EXCEPT !.at = "insert", !.baseline = first].at = "insert"
        BY <4>1 DEF Polling
      <4> QED
        BY <4>2, <4>3
    <3> QED
      BY <1>1, <3>1, <3>2
  <2>2. PICK state : Turn(p, state) /\ state.at \in {"count", "insert"}
    BY <2>1
  <2>3. state = poll'[p] /\ poll'[p] \in {AtRest} \cup Polling
    BY <1>1, <2>2, PollTypes DEF Turn, IntakeTypeOK
  <2>4. Proceeds
    BY <2>1 DEF Proceeds, Begun, Observed
  <2> QED
    BY <2>1, <2>2, <2>3, <2>4, RowTurn
<1>2. ASSUME ~Poll(p), ~CountRssItems(p)
      PROVE  /\ poll[p] \in Polling /\ NextItem(p) \in {AtRest} \cup Polling
             /\ NextItem(p).at \notin {"commit", "scaffold", "status"}
             /\ Item(p) \in BlogPost /\ SlugAt(p) \in Slug /\ SlugAt(p) = SlugOf[Item(p)]
  <2>1. poll[p] \in Polling
    BY <1>2, AtWork DEF InsertRssItem, CreateVideo, Scaffold, UpdateVideoStatus, OnScaffolded, PollFails
  <2> QED
    BY <2>1, ItemsAre, PostsAre DEF AtRest, SlugAt
<1>3. CASE InsertRssItem(p)
  <2>1. /\ UNCHANGED <<row, script, writers, written, observing, deciding>> /\ poll[p].at = "insert"
        /\ Turn(p, NextItem(p)) \/ Turn(p, At(p, "create"))
    BY <1>3 DEF InsertRssItem
  <2>2. ~Poll(p) /\ ~CountRssItems(p)
    BY <2>1 DEF Poll, CountRssItems, AtRest
  <2>3. Proceeds
    BY <2>1 DEF Proceeds, Begun, Observed
  <2>4. At(p, "create") \in Polling /\ At(p, "create").at = "create"
    BY <1>2, <2>2, AtIs DEF Busy
  <2> QED
    BY <1>2, <2>1, <2>2, <2>3, <2>4, RowTurn
<1>4. CASE Scaffold(p)
  <2>1. /\ UNCHANGED <<row, script, writers, written, observing, deciding>> /\ Starting(p)
        /\ Turn(p, At(p, "status"))
    BY <1>4 DEF Scaffold, Starting
  <2>2. ~Poll(p) /\ ~CountRssItems(p)
    BY <2>1 DEF Poll, CountRssItems, AtRest, Starting
  <2>3. Proceeds
    BY <2>1 DEF Proceeds, Begun, Observed
  <2>4. /\ At(p, "status") \in Polling /\ At(p, "status").at = "status"
        /\ At(p, "status").items = poll[p].items
    BY <1>2, <2>2, AtIs DEF Busy
  <2>5. Head(At(p, "status").items) = Item(p)
    BY <2>4 DEF Item
  <2> QED
    BY <2>1, <2>3, <2>4, <2>5, RowTurn
<1>5. CASE PollFails(p)
  <2>1. /\ UNCHANGED <<row, script, writers, written, observing, deciding>>
        /\ Turn(p, NextItem(p)) \/ Turn(p, AtRest)
    BY <1>5 DEF PollFails
  <2>2. poll[p] \in Polling
    BY <1>5, AtWork DEF PollFails
  <2>3. /\ NextItem(p) \in {AtRest} \cup Polling
        /\ NextItem(p).at \notin {"commit", "scaffold", "status"}
    BY <2>2, ItemsAre DEF AtRest
  <2>4. Proceeds
    BY <2>1 DEF Proceeds, Begun, Observed
  <2>5. AtRest.at = "rest"
    BY DEF AtRest
  <2> QED
    BY <2>1, <2>3, <2>4, <2>5, RowTurn
<1>6. CASE OnScaffolded(p)
  <2>1. /\ UNCHANGED <<row, script, written, observing, deciding>> /\ Turn(p, NextItem(p))
        /\ writers' \in {writers, writers \cup {Writer(SlugAt(p), "hook", "ask")}}
        /\ poll[p].at = "commit"
    BY <1>6 DEF OnScaffolded, SlugAt
  <2>2. ~Poll(p) /\ ~CountRssItems(p)
    BY <2>1 DEF Poll, CountRssItems, AtRest
  <2>3. row[SlugAt(p)].status \in Scaffolded
    BY <2>1 DEF RowInv
  <2>4. Proceeds
    BY <2>1, <2>3 DEF Proceeds, Begun, Observed, Writer
  <2> QED
    BY <1>2, <2>1, <2>2, <2>4, RowTurn
<1>7. CASE CreateVideo(p)
  <2>1. UNCHANGED <<script, writers, written, observing, deciding>> /\ poll[p].at = "create"
    BY <1>7 DEF CreateVideo
  <2>2. ~Poll(p) /\ ~CountRssItems(p)
    BY <2>1 DEF Poll, CountRssItems, AtRest
  <2>3. CASE row[SlugAt(p)] # NoVideo
    <3>1. Turn(p, NextItem(p)) /\ UNCHANGED row
      BY <1>7, <2>3 DEF CreateVideo, SlugAt
    <3>2. Proceeds
      BY <2>1, <3>1 DEF Proceeds, Begun, Observed
    <3> QED
      BY <1>2, <2>2, <3>1, <3>2, RowTurn
  <2>4. CASE row[SlugAt(p)] = NoVideo
    <3>1. /\ Turn(p, At(p, "scaffold"))
          /\ row' = [row EXCEPT ![SlugAt(p)] = [status |-> "new", post |-> Item(p)]]
      BY <1>7, <2>4 DEF CreateVideo, SlugAt
    <3>2. /\ At(p, "scaffold") \in Polling /\ At(p, "scaffold").at = "scaffold"
          /\ At(p, "scaffold").items = poll[p].items
      BY <1>2, <2>2, AtIs DEF Busy
    <3>3. /\ poll'[p] = At(p, "scaffold") /\ \A q \in Pollers : q # p => poll'[q] = poll[q]
      BY <3>1, <3>2, TurnIs
    <3>4. /\ SlugAt(p)' = SlugAt(p) /\ ~(poll'[p].at = "commit") /\ Starting(p)'
          /\ \A q \in Pollers : q # p =>
                 SlugAt(q)' = SlugAt(q) /\ (Starting(q)' <=> Starting(q)) /\ poll'[q] = poll[q]
      BY <3>2, <3>3 DEF SlugAt, Item, Starting
    <3>5. /\ row'[SlugAt(p)].status = "new"
          /\ \A s \in Slug : s # SlugAt(p) => row'[s] = row[s]
      BY <1>2, <2>2, <3>1 DEF IntakeTypeOK
    <3>6. row[SlugAt(p)].status = "none" /\ "none" \notin Scaffolded
      BY <2>4 DEF NoVideo, Scaffolded
    <3>7. \A q \in Pollers : poll[q].at \in Busy => SlugAt(q) \in Slug
      BY AtWork, ItemsAre, PostsAre DEF SlugAt, Busy
    <3>8. \A q \in Pollers : q # p /\ (Starting(q) \/ poll[q].at = "commit") =>
              SlugAt(q) # SlugAt(p) /\ row'[SlugAt(q)] = row[SlugAt(q)]
      BY <3>5, <3>6, <3>7 DEF RowInv, Starting, Busy
    <3>9. \A s \in Slug : Begun(s)' => Begun(s)
      BY <2>1 DEF Begun, Observed
    <3>10. ~Begun(SlugAt(p))
      BY <1>2, <2>2, <3>6 DEF RowInv
    <3>11. \A q \in Pollers : Starting(q)' => row'[SlugAt(q)'].status = "new"
      BY <3>4, <3>5, <3>8 DEF RowInv
    <3>12. \A q \in Pollers : poll'[q].at = "commit" => row'[SlugAt(q)'].status \in Scaffolded
      BY <3>4, <3>8 DEF RowInv
    <3>13. \A q, r \in Pollers : Starting(q)' /\ Starting(r)' /\ SlugAt(q)' = SlugAt(r)' => q = r
      BY <3>4, <3>8 DEF RowInv
    <3>14. \A s \in Slug : Begun(s)' => row'[s].status \in Scaffolded
      BY <3>5, <3>9, <3>10 DEF RowInv
    <3> QED
      BY <3>11, <3>12, <3>13, <3>14 DEF RowInv
  <2> QED
    BY <2>3, <2>4
<1>8. CASE UpdateVideoStatus(p)
  <2>1. /\ UNCHANGED <<script, writers, written, observing, deciding>> /\ Starting(p)
        /\ Turn(p, At(p, "commit"))
        /\ row' = [row EXCEPT ![SlugAt(p)].status = "script_pending"]
    BY <1>8 DEF UpdateVideoStatus, Starting, SlugAt
  <2>2. ~Poll(p) /\ ~CountRssItems(p)
    BY <2>1 DEF Poll, CountRssItems, AtRest, Starting
  <2>3. /\ At(p, "commit") \in Polling /\ At(p, "commit").at = "commit"
        /\ At(p, "commit").items = poll[p].items
    BY <1>2, <2>2, AtIs DEF Busy
  <2>4. poll'[p] = At(p, "commit") /\ \A q \in Pollers : q # p => poll'[q] = poll[q]
    BY <2>1, <2>3, TurnIs
  <2>5. /\ SlugAt(p)' = SlugAt(p) /\ ~Starting(p)'
        /\ \A q \in Pollers : q # p =>
               SlugAt(q)' = SlugAt(q) /\ (Starting(q)' <=> Starting(q)) /\ poll'[q] = poll[q]
    BY <2>3, <2>4 DEF SlugAt, Item, Starting
  <2>6. /\ row'[SlugAt(p)].status \in Scaffolded
        /\ \A s \in Slug : s # SlugAt(p) => row'[s] = row[s]
    BY <1>2, <2>1, <2>2 DEF IntakeTypeOK, Row, Scaffolded
  <2>7. \A q \in Pollers : poll[q].at \in Busy => SlugAt(q) \in Slug
    BY AtWork, ItemsAre, PostsAre DEF SlugAt, Busy
  <2>8. \A s \in Slug : Begun(s)' => Begun(s)
    BY <2>1 DEF Begun, Observed
  <2>9. \A q \in Pollers : Starting(q)' => row'[SlugAt(q)'].status = "new"
    <3>1. \A q \in Pollers : q # p /\ Starting(q) => SlugAt(q) # SlugAt(p) /\ SlugAt(q) \in Slug
      BY <2>1, <2>7 DEF RowInv, Starting, Busy
    <3> QED
      BY <2>5, <2>6, <3>1 DEF RowInv
  <2>10. \A q \in Pollers : poll'[q].at = "commit" => row'[SlugAt(q)'].status \in Scaffolded
    BY <2>5, <2>6, <2>7 DEF RowInv, Busy
  <2>11. \A q, r \in Pollers : Starting(q)' /\ Starting(r)' /\ SlugAt(q)' = SlugAt(r)' => q = r
    BY <2>5 DEF RowInv
  <2>12. \A s \in Slug : Begun(s)' => row'[s].status \in Scaffolded
    BY <2>6, <2>8 DEF RowInv
  <2> QED
    BY <2>9, <2>10, <2>11, <2>12 DEF RowInv
<1> QED
  BY <1>1, <1>3, <1>4, <1>5, <1>6, <1>7, <1>8

LEMMA RowStep ==
    ASSUME IntakeTypeOK, RowInv, [IntakeNext]_intakeVars
    PROVE  RowInv'
<1>1. CASE UNCHANGED intakeVars
  <2>1. Proceeds /\ UNCHANGED poll
    BY <1>1 DEF intakeVars, Proceeds, Begun, Observed
  <2> QED
    BY <2>1, RowAside
<1>2. CASE ServerRestarts
  <2>1. /\ \A p \in Pollers : poll'[p].at = "rest"
        /\ UNCHANGED <<row, script>> /\ writers' = {} /\ written' = {} /\ deciding' = {}
        /\ ~observing'.valid
    <3>1. AtRest.at = "rest" /\ ~NotObserving.valid
      BY DEF AtRest, NotObserving
    <3> QED
      BY <1>2, <3>1, RestartTypes
  <2>2. \A p \in Pollers : ~Starting(p)' /\ poll'[p].at # "commit"
    BY <2>1 DEF Starting
  <2>3. \A s \in Slug : Begun(s)' => Begun(s)
    BY <2>1 DEF Begun, Observed
  <2> QED
    BY <2>1, <2>2, <2>3 DEF RowInv
<1>3. CASE \E w \in writers : \/ Generated(w) \/ NotGenerated(w) \/ OpenTmp(w) \/ WriteTmp(w) \/ RenameTmp(w)
           \/ WriterFails(w)
  <2>1. Proceeds /\ Aside
    BY <1>3, WriterProceeds, WriterTypes
  <2> QED
    BY <2>1, RowAside DEF Aside
<1>4. CASE Rest
  <2>1. Proceeds /\ Aside
    BY <1>4, OtherProceeds, OtherTypes
  <2> QED
    BY <2>1, RowAside DEF Aside
<1>5. CASE IntakeNext
  BY <1>2, <1>3, <1>4, <1>5, RowPolls DEF IntakeNext, Rest
<1> QED
  BY <1>1, <1>5

-----------------------------------------------------------------------------
(* What is written is looked at *)

\* A step that writes nothing, and leaves who is about to write at work.
Unwritten ==
    /\ UNCHANGED <<tmp, script, written, observing>>
    /\ \A w \in writers' : w \in writers \/ (w.file = "tmp" /\ w.at # "rename")
    /\ \A w \in writers : w.at = "write" => w \in writers'
    /\ \A s \in Slug : Reviewed(s) => Reviewed(s)' \/ Lost(s)'

LEMMA TextUnwritten ==
    ASSUME IntakeTypeOK, TextInv, PastGrows, Unwritten
    PROVE  TextInv'
<1>1. \A s \in Slug, file \in File : Writes(s, file) => Writes(s, file)'
  BY DEF Writes, Unwritten
<1>2. \A s \in Slug : Lost(s) => Lost(s)'
  BY DEF Lost, PastGrows
<1>3. \A w : Lost(w.slug) => Lost(w.slug)'
  BY DEF Lost, PastGrows
<1>4. \A w \in writers' : w.file # "tmp" => w.at \in {"write", "rename"}
  BY DEF TextInv, Unwritten
<1>5. \A w \in writers' : w.file = "none" => script'[w.slug] # NoText \/ Lost(w.slug)'
  BY <1>3 DEF TextInv, Unwritten
<1>6. \A w \in writers' : w.at = "rename" => HasText(w.slug)'
  BY <1>3 DEF TextInv, Unwritten, HasText
<1>7. "tmp" \in File /\ "script" \in File
  BY DEF File
<1>8. \A s \in Slug : /\ tmp'[s] = "part" => Lost(s)' \/ Writes(s, "tmp")'
                      /\ script'[s] = "part" => Lost(s)' \/ Writes(s, "script")'
  BY <1>1, <1>2, <1>7 DEF TextInv, Unwritten
<1>9. \A s \in Slug :
          script'[s] = "whole" => Lost(s)' \/ s \in written' \/ Observed(s)' \/ Reviewed(s)'
  BY <1>2 DEF TextInv, Unwritten, Observed
<1> QED
  BY <1>4, <1>5, <1>6, <1>8, <1>9 DEF TextInv

LEMMA PollsWriteNothing ==
    ASSUME IntakeTypeOK, RowInv, NEW p \in Pollers,
           \/ Poll(p) \/ CountRssItems(p) \/ InsertRssItem(p) \/ CreateVideo(p) \/ Scaffold(p)
           \/ UpdateVideoStatus(p) \/ OnScaffolded(p) \/ PollFails(p)
    PROVE  Unwritten /\ writers \subseteq writers'
<1>1. /\ UNCHANGED <<tmp, script, written, observing>>
      /\ writers' = writers \/ writers' = writers \cup {Writer(SlugOf[Item(p)], "hook", "ask")}
  BY DEF Poll, CountRssItems, InsertRssItem, CreateVideo, Scaffold, UpdateVideoStatus,
         OnScaffolded, PollFails
<1>2. \A s \in Slug : Reviewed(s) => row'[s] = row[s]
  <2>1. CASE UNCHANGED row
    BY <2>1
  <2>2. CASE CreateVideo(p)
    <3>1. row' = row \/ (row[SlugOf[Item(p)]] = NoVideo /\ \E r : row' = [row EXCEPT ![SlugOf[Item(p)]] = r])
      BY <2>2 DEF CreateVideo
    <3> QED
      BY <3>1 DEF Reviewed, NoVideo, IntakeTypeOK
  <2>3. CASE UpdateVideoStatus(p)
    <3>1. Starting(p) /\ row' = [row EXCEPT ![SlugAt(p)].status = "script_pending"]
      BY <2>3 DEF UpdateVideoStatus, Starting, SlugAt
    <3>2. row[SlugAt(p)].status = "new"
      BY <3>1 DEF RowInv
    <3> QED
      BY <3>1, <3>2 DEF Reviewed, IntakeTypeOK
  <2> QED
    BY <2>1, <2>2, <2>3 DEF Poll, CountRssItems, InsertRssItem, Scaffold, OnScaffolded, PollFails
<1> QED
  BY <1>1, <1>2 DEF Unwritten, Writer, Reviewed

LEMMA TextWriters ==
    ASSUME IntakeTypeOK, TextInv, NEW w \in writers,
           \/ Generated(w) \/ NotGenerated(w) \/ OpenTmp(w) \/ WriteTmp(w) \/ RenameTmp(w)
           \/ WriterFails(w)
    PROVE  TextInv'
<1>1. /\ PastGrows /\ UNCHANGED <<row, observing>> /\ w \in WriterRecord /\ w.slug \in Slug
      /\ \A s \in Slug : (Lost(s) => Lost(s)') /\ (Reviewed(s) <=> Reviewed(s)')
      /\ \A s \in Slug : Observed(s) <=> Observed(s)'
      /\ \A v \in writers : v.slug \in Slug
  <2>1. PastGrows /\ UNCHANGED <<row, observing>>
    BY WriterTypes DEF Generated, NotGenerated, OpenTmp, WriteTmp, RenameTmp, WriterFails
  <2> QED
    BY <2>1 DEF PastGrows, Lost, Reviewed, Observed, IntakeTypeOK, WriterRecord
<1>2. "tmp" \in File /\ "script" \in File /\ "none" \in File
  BY DEF File
<1>3. CASE Generated(w) \/ NotGenerated(w)
  <2>1. w.at = "ask" /\ w.file = "tmp" /\ UNCHANGED <<tmp, script, written, observing>>
    BY <1>3 DEF Generated, NotGenerated, TextInv
  <2>2. /\ writers' \subseteq (writers \ {w}) \cup {[w EXCEPT !.at = "open"], [w EXCEPT !.tries = @ + 1]}
        /\ writers \ {w} \subseteq writers'
    BY <1>3 DEF Generated, NotGenerated, Becomes
  <2>3. /\ [w EXCEPT !.at = "open"].at = "open" /\ [w EXCEPT !.at = "open"].file = "tmp"
        /\ [w EXCEPT !.tries = @ + 1].at = "ask" /\ [w EXCEPT !.tries = @ + 1].file = "tmp"
    BY <1>1, <2>1 DEF WriterRecord
  <2>4. Unwritten
    BY <1>1, <2>1, <2>2, <2>3 DEF Unwritten
  <2> QED
    BY <1>1, <2>4, TextUnwritten
<1>4. CASE OpenTmp(w)
  <2> DEFINE next == [w EXCEPT !.at = "write"]
  <2>1. /\ w.at = "open" /\ w.file = "tmp" /\ UNCHANGED <<script, written>>
        /\ tmp' = [tmp EXCEPT ![w.slug] = "part"] /\ writers' = (writers \ {w}) \cup {next}
    BY <1>4 DEF OpenTmp, TextInv, Becomes
  <2>2. next.at = "write" /\ next.slug = w.slug /\ next.file = "tmp"
    BY <1>1, <2>1 DEF WriterRecord
  <2> HIDE DEF next
  <2>3. tmp'[w.slug] = "part" /\ \A s \in Slug : s # w.slug => tmp'[s] = tmp[s]
    BY <1>1, <2>1 DEF IntakeTypeOK
  <2>4. \A s \in Slug, file \in File : Writes(s, file) => Writes(s, file)'
    BY <2>1 DEF Writes
  <2>5. Writes(w.slug, "tmp")'
    BY <2>1, <2>2 DEF Writes
  <2>6. \A v \in writers' : v.file # "tmp" => v.at \in {"write", "rename"}
    BY <2>1, <2>2 DEF TextInv
  <2>7. \A v \in writers' : v.file = "none" => script'[v.slug] # NoText \/ Lost(v.slug)'
    BY <1>1, <2>1, <2>2 DEF TextInv
  <2>8. \A v \in writers' : v.at = "rename" => HasText(v.slug)'
    <3> SUFFICES ASSUME NEW v \in writers', v.at = "rename"
                 PROVE  HasText(v.slug)'
      OBVIOUS
    <3>1. v \in writers /\ v.slug \in Slug
      BY <1>1, <2>1, <2>2
    <3> QED
      BY <1>1, <2>1, <2>3, <3>1 DEF TextInv, NoText, HasText
  <2>9. \A s \in Slug : tmp'[s] = "part" => Lost(s)' \/ Writes(s, "tmp")'
    BY <1>1, <1>2, <2>3, <2>4, <2>5 DEF TextInv
  <2>10. \A s \in Slug : script'[s] = "part" => Lost(s)' \/ Writes(s, "script")'
    BY <1>1, <1>2, <2>1, <2>4 DEF TextInv
  <2>11. \A s \in Slug :
             script'[s] = "whole" => Lost(s)' \/ s \in written' \/ Observed(s)' \/ Reviewed(s)'
    BY <1>1, <2>1 DEF TextInv
  <2> QED
    BY <2>6, <2>7, <2>8, <2>9, <2>10, <2>11 DEF TextInv
<1>5. CASE WriteTmp(w)
  <2> DEFINE next == [w EXCEPT !.at = "rename"]
  <2>1. /\ w.at = "write" /\ writers' = (writers \ {w}) \cup {next}
    BY <1>5 DEF WriteTmp, Becomes
  <2>2. next.at = "rename" /\ next.slug = w.slug /\ next.file = w.file
    BY <1>1 DEF WriterRecord
  <2> HIDE DEF next
  <2>3. w.file \in File
    BY <1>1 DEF WriterRecord
  <2>4. /\ \A s \in Slug : s # w.slug => tmp'[s] = tmp[s] /\ script'[s] = script[s]
        /\ written \subseteq written'
        /\ w.file = "tmp" => script' = script /\ tmp'[w.slug] \in {"whole", "mixed"}
        /\ w.file = "script" =>
               tmp' = tmp /\ script'[w.slug] \in {"whole", "mixed"} /\ w.slug \in written'
        /\ w.file = "none" => UNCHANGED <<tmp, script>>
    BY <1>1, <1>5, <2>3 DEF WriteTmp, Filled, IntakeTypeOK, File
  <2>5. \A s \in Slug, file \in File :
            Writes(s, file) /\ (s # w.slug \/ file # w.file) => Writes(s, file)'
    BY <2>1 DEF Writes
  <2>6. \A v \in writers' : v.file # "tmp" => v.at \in {"write", "rename"}
    BY <2>1, <2>2 DEF TextInv
  <2>7. \A s \in Slug : script[s] # NoText => script'[s] # NoText
    BY <2>3, <2>4 DEF File, NoText
  <2>8. \A v \in writers' : v.file = "none" => script'[v.slug] # NoText \/ Lost(v.slug)'
    BY <1>1, <2>1, <2>2, <2>7 DEF TextInv
  <2>9. HasText(w.slug)'
    <3>1. CASE w.file = "none"
      BY <1>1, <2>7, <3>1 DEF TextInv, HasText
    <3>2. CASE w.file # "none"
      BY <2>3, <2>4, <3>2 DEF HasText, File, NoText
    <3> QED
      BY <3>1, <3>2
  <2>10. \A v \in writers' : v.at = "rename" => HasText(v.slug)'
    <3> SUFFICES ASSUME NEW v \in writers', v.at = "rename", v.slug # w.slug
                 PROVE  HasText(v.slug)'
      BY <2>9
    <3>1. v \in writers /\ v.slug \in Slug
      BY <1>1, <2>1, <2>2
    <3> QED
      BY <1>1, <2>4, <3>1 DEF TextInv, HasText
  <2>11. \A s \in Slug : tmp'[s] = "part" => Lost(s)' \/ Writes(s, "tmp")'
    <3> SUFFICES ASSUME NEW s \in Slug, tmp'[s] = "part" PROVE Lost(s)' \/ Writes(s, "tmp")'
      OBVIOUS
    <3>1. tmp[s] = "part" /\ (s # w.slug \/ w.file # "tmp")
      BY <2>3, <2>4 DEF File
    <3> QED
      BY <1>1, <1>2, <2>5, <3>1 DEF TextInv
  <2>12. \A s \in Slug : script'[s] = "part" => Lost(s)' \/ Writes(s, "script")'
    <3> SUFFICES ASSUME NEW s \in Slug, script'[s] = "part" PROVE Lost(s)' \/ Writes(s, "script")'
      OBVIOUS
    <3>1. script[s] = "part" /\ (s # w.slug \/ w.file # "script")
      BY <2>3, <2>4 DEF File
    <3> QED
      BY <1>1, <1>2, <2>5, <3>1 DEF TextInv
  <2>13. \A s \in Slug :
             script'[s] = "whole" => Lost(s)' \/ s \in written' \/ Observed(s)' \/ Reviewed(s)'
    <3> SUFFICES ASSUME NEW s \in Slug, script'[s] = "whole"
                 PROVE  Lost(s)' \/ s \in written' \/ Observed(s)' \/ Reviewed(s)'
      OBVIOUS
    <3>1. script[s] = "whole" \/ s \in written'
      BY <2>3, <2>4 DEF File
    <3> QED
      BY <1>1, <2>4, <3>1 DEF TextInv
  <2> QED
    BY <2>6, <2>8, <2>10, <2>11, <2>12, <2>13 DEF TextInv
<1>6. CASE RenameTmp(w) /\ tmp[w.slug] = NoText
  <2>1. w.at = "rename" /\ writers' = writers \ {w} /\ UNCHANGED <<tmp, script, written>>
    BY <1>6 DEF RenameTmp
  <2>2. Unwritten
    BY <1>1, <2>1 DEF Unwritten
  <2> QED
    BY <1>1, <2>2, TextUnwritten
<1>7. CASE RenameTmp(w) /\ tmp[w.slug] # NoText
  <2>1. /\ w.at = "rename" /\ writers' = Others(w, Renamed) /\ written' = written \cup {w.slug}
        /\ script' = [script EXCEPT ![w.slug] = tmp[w.slug]]
        /\ tmp' = [tmp EXCEPT ![w.slug] = NoText]
    BY <1>7 DEF RenameTmp
  <2>2. /\ script'[w.slug] = tmp[w.slug] /\ tmp'[w.slug] = NoText
        /\ \A s \in Slug : s # w.slug => tmp'[s] = tmp[s] /\ script'[s] = script[s]
    BY <1>1, <2>1 DEF IntakeTypeOK
  <2>3. \A v \in writers' : \E o \in writers \ {w} :
            /\ v.slug = o.slug /\ v.at = o.at
            /\ v = o \/ (o.slug = w.slug /\ o.at = "write")
    BY <2>1, OthersAre, BecomeAre
  <2>4. \A o \in writers \ {w} : \E v \in writers' :
            /\ v.slug = o.slug /\ v.at = o.at /\ (o.slug # w.slug => v = o)
            /\ o.slug = w.slug /\ o.at = "write" /\ o.file = "tmp" => v.file = "script"
    <3>1. PICK become \in [File -> File] : become = Renamed /\ become["tmp"] = "script"
      BY BecomeAre
    <3>2. writers' = Others(w, become)
      BY <2>1, <3>1
    <3>3. \A o \in writers \ {w} : \E v \in Others(w, become) :
              /\ v.slug = o.slug /\ v.at = o.at
              /\ o.slug # w.slug \/ o.at # "write" => v = o
              /\ o.slug = w.slug /\ o.at = "write" => v.file = become[o.file]
      BY OthersAre
    <3> QED
      BY <3>1, <3>2, <3>3
  <2>5. \A s \in Slug, file \in File : Writes(s, file) /\ s # w.slug => Writes(s, file)'
    BY <2>4 DEF Writes
  <2>6. Writes(w.slug, "tmp") => Writes(w.slug, "script")'
    <3> SUFFICES ASSUME NEW o \in writers, o.slug = w.slug, o.at = "write", o.file = "tmp"
                 PROVE  Writes(w.slug, "script")'
      BY DEF Writes
    <3> QED
      BY <2>1, <2>4 DEF Writes
  <2>7. \A v \in writers' : v.file # "tmp" => v.at \in {"write", "rename"}
    BY <2>3 DEF TextInv
  <2>8. \A v \in writers' : v.file = "none" => script'[v.slug] # NoText \/ Lost(v.slug)'
    BY <1>1, <1>7, <2>2, <2>3 DEF TextInv
  <2>9. \A v \in writers' : v.at = "rename" => HasText(v.slug)'
    BY <1>1, <1>7, <2>2, <2>3 DEF TextInv, HasText
  <2>10. \A s \in Slug : tmp'[s] = "part" => Lost(s)' \/ Writes(s, "tmp")'
    BY <1>1, <1>2, <2>2, <2>5 DEF TextInv, NoText
  <2>11. \A s \in Slug : script'[s] = "part" => Lost(s)' \/ Writes(s, "script")'
    BY <1>1, <1>2, <2>2, <2>5, <2>6 DEF TextInv
  <2>12. \A s \in Slug :
             script'[s] = "whole" => Lost(s)' \/ s \in written' \/ Observed(s)' \/ Reviewed(s)'
    BY <1>1, <2>1, <2>2 DEF TextInv
  <2> QED
    BY <2>7, <2>8, <2>9, <2>10, <2>11, <2>12 DEF TextInv
<1>8. CASE WriterFails(w)
  <2>1. /\ Lost(w.slug)' /\ UNCHANGED <<script, written>>
        /\ \A s \in Slug : s # w.slug => tmp'[s] = tmp[s]
    BY <1>1, <1>8, GivenUpIs DEF WriterFails, IntakeTypeOK
  <2>2. \A v \in writers' : \E o \in writers :
            v.slug = o.slug /\ v.at = o.at /\ (v = o \/ (v.slug = w.slug /\ v.at = "write"))
    <3>1. writers' = writers \ {w} \/ writers' = Others(w, Removed)
      BY <1>8 DEF WriterFails
    <3>2. CASE writers' = Others(w, Removed)
      <4>1. \A v \in Others(w, Removed) : \E o \in writers \ {w} :
                /\ v.slug = o.slug /\ v.at = o.at
                /\ v = o \/ (o.slug = w.slug /\ o.at = "write")
        BY OthersAre, BecomeAre
      <4> QED
        BY <3>2, <4>1
    <3> QED
      BY <3>1, <3>2
  <2>3. \A s \in Slug, file \in File : Writes(s, file) /\ s # w.slug => Writes(s, file)'
    <3>1. \A o \in writers : o.slug # w.slug => o \in writers'
      BY <1>8, OthersAre, BecomeAre DEF WriterFails
    <3> QED
      BY <3>1 DEF Writes
  <2>4. \A v \in writers' : v.file # "tmp" => v.at \in {"write", "rename"}
    BY <2>2 DEF TextInv
  <2>5. \A v \in writers' : v.file = "none" => script'[v.slug] # NoText \/ Lost(v.slug)'
    BY <1>1, <2>1, <2>2 DEF TextInv
  <2>6. \A v \in writers' : v.at = "rename" => HasText(v.slug)'
    BY <1>1, <2>1, <2>2 DEF TextInv, HasText
  <2>7. \A s \in Slug : tmp'[s] = "part" => Lost(s)' \/ Writes(s, "tmp")'
    BY <1>1, <1>2, <2>1, <2>3 DEF TextInv
  <2>8. \A s \in Slug : script'[s] = "part" => Lost(s)' \/ Writes(s, "script")'
    BY <1>1, <1>2, <2>1, <2>3 DEF TextInv
  <2>9. \A s \in Slug :
             script'[s] = "whole" => Lost(s)' \/ s \in written' \/ Observed(s)' \/ Reviewed(s)'
    BY <1>1, <2>1 DEF TextInv
  <2> QED
    BY <2>4, <2>5, <2>6, <2>7, <2>8, <2>9 DEF TextInv
<1> QED
  BY <1>3, <1>4, <1>5, <1>6, <1>7, <1>8

\* What the observer is to look at, and what becomes of it.
LEMMA TextLooked ==
    ASSUME IntakeTypeOK, TextInv, PastGrows, UNCHANGED <<writers, tmp, script>>,
           \A s \in Slug : script[s] = "whole" /\ (s \in written \/ Observed(s) \/ Reviewed(s)) =>
               Lost(s)' \/ s \in written' \/ Observed(s)' \/ Reviewed(s)'
    PROVE  TextInv'
<1>1. \A s : Lost(s) => Lost(s)'
  BY DEF Lost, PastGrows
<1>2. \A w : Lost(w.slug) => Lost(w.slug)'
  BY DEF Lost, PastGrows
<1>3. \A s, file : Writes(s, file)' <=> Writes(s, file)
  BY DEF Writes
<1>4. \A w \in writers' : w.file # "tmp" => w.at \in {"write", "rename"}
  BY DEF TextInv
<1>5. \A w \in writers' : w.file = "none" => script'[w.slug] # NoText \/ Lost(w.slug)'
  BY <1>2 DEF TextInv
<1>6. \A w \in writers' : w.at = "rename" => HasText(w.slug)'
  BY <1>2 DEF TextInv, HasText
<1>7. \A s \in Slug : /\ tmp'[s] = "part" => Lost(s)' \/ Writes(s, "tmp")'
                      /\ script'[s] = "part" => Lost(s)' \/ Writes(s, "script")'
  BY <1>1, <1>3 DEF TextInv
<1>8. \A s \in Slug :
          script'[s] = "whole" => Lost(s)' \/ s \in written' \/ Observed(s)' \/ Reviewed(s)'
  BY <1>1 DEF TextInv
<1> QED
  BY <1>4, <1>5, <1>6, <1>7, <1>8 DEF TextInv

LEMMA TextOthers ==
    ASSUME IntakeTypeOK, RowInv, TextInv, Rest
    PROVE  TextInv'
<1>1. PastGrows /\ \A s \in Slug : Lost(s) => Lost(s)'
  BY OtherTypes DEF PastGrows, Lost
<1>2. CASE Publishes
  <2>1. Unwritten
    BY <1>2 DEF Publishes, Unwritten, Reviewed
  <2> QED
    BY <1>1, <2>1, TextUnwritten
<1>3. CASE ProcessScriptPath
  <2> DEFINE slug == observing.slug
             looks == observing.valid /\ CanTransition(row[slug].status, "script_review")
  <2>1. /\ observing \in Observing /\ UNCHANGED <<row, writers, tmp, script, written>>
        /\ looks => observing' = [observing EXCEPT !.at = "update"]
    BY <1>3, ObservingIs DEF ProcessScriptPath
  <2>2. /\ [observing EXCEPT !.at = "update"].slug = slug
        /\ [observing EXCEPT !.at = "update"].valid = observing.valid
    BY <1>3, ObservingIs DEF ProcessScriptPath
  <2>3. CanTransition("script_pending", "script_review")
    BY DEF CanTransition, Edges, ChainEdges
  <2>4. \A s \in Slug : Observed(s) => Observed(s)' \/ Reviewed(s)'
    <3> SUFFICES ASSUME NEW s \in Slug, Observed(s) PROVE Observed(s)' \/ Reviewed(s)'
      OBVIOUS
    <3>1. observing.valid /\ s = slug /\ row[s].status \in Scaffolded
      BY DEF Observed, RowInv, Begun
    <3>2. CASE row[s].status = "script_pending"
      BY <2>1, <2>2, <2>3, <3>1, <3>2 DEF Observed
    <3>3. CASE row[s].status # "script_pending"
      BY <2>1, <3>1, <3>3 DEF Reviewed, Scaffolded
    <3> QED
      BY <3>2, <3>3
  <2>5. \A s \in Slug : Reviewed(s) => Reviewed(s)'
    BY <2>1 DEF Reviewed
  <2> QED
    BY <1>1, <2>1, <2>4, <2>5, TextLooked
<1>4. CASE ObserverUpdates
  <2>1. /\ observing \in Observing /\ UNCHANGED <<writers, tmp, script, written>>
        /\ row' = [row EXCEPT ![observing.slug].status = "script_review"]
    BY <1>4, ObservingIs DEF ObserverUpdates
  <2>2. \A s \in Slug : /\ row'[s].status = row[s].status \/ row'[s].status = "script_review"
                        /\ s = observing.slug => row'[s].status = "script_review"
    BY <2>1 DEF IntakeTypeOK, Row
  <2>3. \A s \in Slug : Reviewed(s) \/ Observed(s) => Reviewed(s)'
    BY <2>2 DEF Reviewed, Observed
  <2> QED
    BY <1>1, <2>1, <2>3, TextLooked
<1>5. CASE ObserverFails
  <2>1. PICK slug : slug = observing.slug
    OBVIOUS
  <2>2. UNCHANGED <<row, writers, tmp, script, written>> /\ past' = GivenUp(slug)
    BY <1>5, <2>1 DEF ObserverFails
  <2>3. Lost(slug)'
    BY <2>2, GivenUpIs
  <2>4. \A s \in Slug : (Reviewed(s) => Reviewed(s)') /\ (Observed(s) => s = slug)
    BY <2>1, <2>2 DEF Reviewed, Observed
  <2> QED
    BY <1>1, <2>2, <2>3, <2>4, TextLooked
<1>6. ASSUME NEW s \in Slug, GenerateScript(s) \/ UpdateScript(s)
      PROVE  TextInv'
  <2>1. /\ UNCHANGED <<row, tmp, script, written, observing>>
        /\ \E by, at : at # "rename" /\ writers' = writers \cup {Writer(s, by, at)}
    BY <1>6 DEF GenerateScript, UpdateScript, Asks
  <2>2. \A by, at : Writer(s, by, at).file = "tmp" /\ Writer(s, by, at).at = at
    BY DEF Writer
  <2>3. Unwritten
    BY <2>1, <2>2 DEF Unwritten, Reviewed
  <2> QED
    BY <1>1, <2>3, TextUnwritten
<1>7. ASSUME NEW s \in Slug, ObserverReads(s)
      PROVE  TextInv'
  <2>1. /\ UNCHANGED <<row, writers, tmp, script>> /\ written' = written \ {s}
        /\ observing = NotObserving
        /\ observing' = [slug |-> s, valid |-> script[s] = "whole", at |-> "read"]
    BY <1>7 DEF ObserverReads
  <2>2. observing'.slug = s /\ (observing'.valid <=> script[s] = "whole") /\ ~observing.valid
    BY <2>1 DEF NotObserving
  <2>3. \A o \in Slug : script[o] = "whole" /\ (o \in written \/ Observed(o)) =>
            o \in written' \/ Observed(o)'
    BY <2>1, <2>2 DEF Observed
  <2>4. \A o \in Slug : Reviewed(o) => Reviewed(o)'
    BY <2>1 DEF Reviewed
  <2> QED
    BY <1>1, <2>1, <2>3, <2>4, TextLooked
<1>8. ASSUME NEW s \in Slug, ApproveScript(s) \/ RejectScript(s)
      PROVE  TextInv'
  <2>1. UNCHANGED <<row, writers, tmp, script, written, observing>>
    BY <1>8 DEF ApproveScript, RejectScript, Decides
  <2> QED
    BY <1>1, <2>1, TextLooked DEF Reviewed, Observed
<1>9. ASSUME NEW d \in deciding, TransitionAndRecord(d)
      PROVE  TextInv'
  <2>1. /\ UNCHANGED <<writers, tmp, script, written, observing>>
        /\ row' = [row EXCEPT ![d.slug].status = d.to]
        /\ d.to = "script_pending" => past' = GivenUp(d.slug)
        /\ d.to = "script_approved" \/ d.to = "script_pending"
    BY <1>9 DEF TransitionAndRecord, IntakeTypeOK, Decision
  <2>2. \A o \in Slug : /\ row'[o].status = IF o = d.slug THEN d.to ELSE row[o].status
    BY <2>1 DEF IntakeTypeOK, Row
  <2>3. d.to = "script_pending" => Lost(d.slug)'
    BY <2>1, GivenUpIs
  <2>4. \A o \in Slug : Reviewed(o) => Reviewed(o)' \/ Lost(o)'
    BY <2>1, <2>2, <2>3 DEF Reviewed
  <2> QED
    BY <1>1, <2>1, <2>4, TextLooked DEF Observed
<1> QED
  BY <1>2, <1>3, <1>4, <1>5, <1>6, <1>7, <1>8, <1>9 DEF Rest

LEMMA TextStep ==
    ASSUME IntakeTypeOK, RowInv, TextInv, [IntakeNext]_intakeVars
    PROVE  TextInv'
<1>1. CASE UNCHANGED intakeVars
  <2>1. Unwritten
    BY <1>1 DEF intakeVars, Unwritten, Reviewed
  <2>2. PastGrows
    BY <1>1, PastStays DEF intakeVars
  <2> QED
    BY <2>1, <2>2, TextUnwritten
<1>2. CASE ServerRestarts
  <2>1. /\ UNCHANGED <<row, tmp, script>> /\ writers' = {}
        /\ \A s \in Slug : (\E w \in writers : w.slug = s) \/ s \in written \/ observing.slug = s => Lost(s)'
        /\ PastGrows
    BY <1>2, RestartTypes
  <2>2. \A s \in Slug : (Lost(s) => Lost(s)') /\ (Reviewed(s) => Reviewed(s)')
    BY <2>1 DEF PastGrows, Lost, Reviewed
  <2>3. \A s \in Slug : Writes(s, "script") \/ Writes(s, "tmp") \/ Observed(s) => Lost(s)'
    BY <2>1 DEF Writes, Observed
  <2>4. \A s \in Slug : /\ tmp[s] = "part" => Lost(s) \/ Writes(s, "tmp")
                        /\ script[s] = "part" => Lost(s) \/ Writes(s, "script")
                        /\ script[s] = "whole" => Lost(s) \/ s \in written \/ Observed(s) \/ Reviewed(s)
    BY DEF TextInv
  <2> QED
    BY <2>1, <2>2, <2>3, <2>4 DEF TextInv
<1>3. ASSUME NEW p \in Pollers,
             \/ Poll(p) \/ CountRssItems(p) \/ InsertRssItem(p) \/ CreateVideo(p) \/ Scaffold(p)
             \/ UpdateVideoStatus(p) \/ OnScaffolded(p) \/ PollFails(p)
      PROVE  TextInv'
  <2>1. Unwritten
    BY <1>3, PollsWriteNothing
  <2>2. PastGrows
    BY <1>3, PollTypes, PollFailsTypes
  <2> QED
    BY <2>1, <2>2, TextUnwritten
<1>4. CASE IntakeNext
  BY <1>2, <1>3, <1>4, TextWriters, TextOthers DEF IntakeNext, Rest
<1> QED
  BY <1>1, <1>4

-----------------------------------------------------------------------------
(* Every post is in somebody's hands *)

\* Whoever has a post in hand still has it, or has handed it to a writer, or a step failed.
HandsOn ==
    /\ rssItems' = rssItems
    /\ \A n \in rssItems, q \in Pollers : poll[q].at \in Busy /\ Item(q) = n =>
           \/ n \in past'.failed
           \/ \E r \in Pollers : poll'[r].at \in Busy /\ Head(poll'[r].items) = n
           \/ \E w \in writers' : w.slug = SlugOf[n]
    /\ \A w \in writers : Lost(w.slug)' \/ script'[w.slug] # NoText \/ \E v \in writers' : v.slug = w.slug
    /\ \A s \in Slug : script[s] # NoText => script'[s] # NoText

LEMMA PostHandedOn ==
    ASSUME IntakeTypeOK, PostInv, PastGrows, HandsOn
    PROVE  PostInv'
<1> SUFFICES ASSUME NEW n \in rssItems', n \notin past'.backlog
             PROVE  \/ n \in past'.failed
                    \/ \E q \in Pollers : poll'[q].at \in Busy /\ Head(poll'[q].items) = n
                    \/ \E w \in writers' : w.slug = SlugOf[n]
                    \/ script'[SlugOf[n]] # NoText
  BY DEF PostInv, Item
<1>1. n \in rssItems /\ n \notin past.backlog /\ n \in PostsOf(SlugOf[n]) /\ SlugOf[n] \in Slug
  BY PostsAre DEF HandsOn, PastGrows, IntakeTypeOK
<1>2. CASE n \in past.failed
  BY <1>2 DEF PastGrows
<1>3. ASSUME NEW q \in Pollers, poll[q].at \in Busy, Item(q) = n
      PROVE  \/ n \in past'.failed
             \/ \E r \in Pollers : poll'[r].at \in Busy /\ Head(poll'[r].items) = n
             \/ \E w \in writers' : w.slug = SlugOf[n]
  BY <1>1, <1>3 DEF HandsOn
<1>4. ASSUME NEW w \in writers, w.slug = SlugOf[n]
      PROVE  \/ n \in past'.failed \/ script'[SlugOf[n]] # NoText
             \/ \E v \in writers' : v.slug = SlugOf[n]
  BY <1>1, <1>4 DEF HandsOn, Lost
<1>5. CASE script[SlugOf[n]] # NoText
  BY <1>1, <1>5 DEF HandsOn
<1> QED
  BY <1>1, <1>2, <1>3, <1>4, <1>5 DEF PostInv

LEMMA PostPolls ==
    ASSUME IntakeTypeOK, FloodInv, RowInv, PostInv, NEW p \in Pollers,
           \/ Poll(p) \/ CountRssItems(p) \/ InsertRssItem(p) \/ CreateVideo(p) \/ Scaffold(p)
           \/ UpdateVideoStatus(p) \/ OnScaffolded(p) \/ PollFails(p)
    PROVE  PostInv'
<1>1. PastGrows /\ writers \subseteq writers' /\ UNCHANGED script
  BY PollTypes, PollFailsTypes, PollsWriteNothing DEF Unwritten
<1>2. \A q \in Pollers : q # p => poll'[q] = poll[q]
  BY DEF Poll, CountRssItems, InsertRssItem, CreateVideo, Scaffold, UpdateVideoStatus,
         OnScaffolded, PollFails, Turn, IntakeTypeOK
<1> DEFINE Kept ==
        poll[p].at \in Busy =>
            \/ Item(p) \in past'.failed
            \/ poll'[p].at \in Busy /\ Head(poll'[p].items) = Item(p)
            \/ \E w \in writers' : w.slug = SlugOf[Item(p)]
<1>3. ASSUME UNCHANGED rssItems, Kept PROVE PostInv'
  <2>1. HandsOn
    BY <1>1, <1>2, <1>3 DEF HandsOn, Item
  <2> QED
    BY <1>1, <2>1, PostHandedOn
<1>4. CASE Poll(p) \/ CountRssItems(p)
  <2>1. UNCHANGED rssItems /\ poll[p].at \notin Busy
    BY <1>4 DEF Poll, CountRssItems, AtRest, Busy
  <2> QED
    BY <1>3, <2>1
<1>5. CASE PollFails(p)
  <2>1. UNCHANGED rssItems /\ (poll[p].at \in Busy => Item(p) \in past'.failed)
    BY <1>5, PollFailsTypes DEF PollFails
  <2> QED
    BY <1>3, <2>1
<1>6. CASE OnScaffolded(p)
  <2>1. /\ UNCHANGED rssItems
        /\ \/ Writer(SlugOf[Item(p)], "hook", "ask") \in writers'
           \/ Item(p) \in past'.failed
        /\ Writer(SlugOf[Item(p)], "hook", "ask").slug = SlugOf[Item(p)]
    BY <1>6 DEF OnScaffolded, Writer, IntakeTypeOK
  <2> QED
    BY <1>3, <2>1
<1>7. ASSUME NEW at \in Busy, poll[p].at \in {"insert"} \cup Busy, Turn(p, At(p, at))
      PROVE  /\ poll'[p].at \in Busy /\ Head(poll'[p].items) = Item(p)
             /\ poll[p] \in Polling
  <2>1. poll[p] \in Polling
    BY <1>7, AtWork DEF Busy
  <2>2. At(p, at) \in Polling /\ At(p, at).at = at /\ At(p, at).items = poll[p].items
    BY <2>1, AtIs
  <2>3. poll'[p] = At(p, at)
    BY <1>7, <2>2, TurnIs
  <2> QED
    BY <2>1, <2>2, <2>3 DEF Item
<1>8. CASE Scaffold(p) \/ UpdateVideoStatus(p)
  <2>1. /\ UNCHANGED rssItems /\ poll[p].at \in Busy
        /\ Turn(p, At(p, "status")) \/ Turn(p, At(p, "commit"))
    BY <1>8 DEF Scaffold, UpdateVideoStatus, Busy
  <2>2. "status" \in Busy /\ "commit" \in Busy
    BY DEF Busy
  <2> QED
    BY <1>3, <1>7, <2>1, <2>2
<1>9. CASE CreateVideo(p)
  <2>1. UNCHANGED rssItems /\ poll[p].at \in Busy /\ "scaffold" \in Busy
    BY <1>9 DEF CreateVideo, Busy
  <2>2. CASE Turn(p, At(p, "scaffold"))
    BY <1>3, <1>7, <2>1, <2>2
  <2>3. CASE past' = [past EXCEPT !.failed = @ \cup {Item(p)}]
    <3>1. Item(p) \in past'.failed
      BY <2>3 DEF IntakeTypeOK
    <3> QED
      BY <1>3, <2>1, <3>1
  <2> QED
    BY <1>9, <2>2, <2>3 DEF CreateVideo
<1>10. CASE InsertRssItem(p)
  <2>1. /\ poll[p].at = "insert" /\ poll[p].at \notin Busy /\ UNCHANGED past
        /\ rssItems' = rssItems \cup {Item(p)}
    BY <1>10 DEF InsertRssItem, Busy
  <2>2. CASE Item(p) \in rssItems
    <3>1. UNCHANGED rssItems
      BY <2>1, <2>2
    <3> QED
      BY <1>3, <2>1, <3>1
  <2>3. CASE Item(p) \notin rssItems
    <3>1. \/ Item(p) \in past.backlog
          \/ poll'[p].at \in Busy /\ Head(poll'[p].items) = Item(p)
      <4>1. CASE poll[p].baseline
        <5>1. ToSet(poll[p].items) \subseteq past.backlog /\ poll[p] \in Polling
          BY <2>1, <4>1, AtWork DEF FloodInv
        <5> QED
          BY <5>1, ItemsAre
      <4>2. CASE ~poll[p].baseline
        <5>1. Turn(p, At(p, "create")) /\ "create" \in Busy
          BY <1>10, <2>3, <4>2 DEF InsertRssItem, IsBaseline, Busy
        <5> QED
          BY <1>7, <2>1, <5>1
      <4> QED
        BY <4>1, <4>2
    <3>2. \A n \in rssItems : n \notin past.backlog =>
              \/ n \in past.failed
              \/ \E q \in Pollers : poll[q].at \in Busy /\ Item(q) = n
              \/ \E w \in writers : w.slug = SlugOf[n]
              \/ script[SlugOf[n]] # NoText
      BY DEF PostInv
    <3>3. \A q \in Pollers : poll[q].at \in Busy => poll'[q] = poll[q]
      BY <1>2, <2>1
    <3>4. \A n \in rssItems : n \notin past'.backlog =>
              \/ n \in past'.failed
              \/ \E q \in Pollers : poll'[q].at \in Busy /\ Head(poll'[q].items) = n
              \/ \E w \in writers' : w.slug = SlugOf[n]
              \/ script'[SlugOf[n]] # NoText
      BY <1>1, <2>1, <3>2, <3>3 DEF Item
    <3> QED
      BY <2>1, <3>1, <3>4 DEF PostInv, Item
  <2> QED
    BY <2>2, <2>3
<1> QED
  BY <1>4, <1>5, <1>6, <1>8, <1>9, <1>10

LEMMA PostAside ==
    ASSUME IntakeTypeOK, PostInv, PastGrows, Aside,
           \A w \in writers : Lost(w.slug)' \/ script'[w.slug] # NoText \/ \E v \in writers' : v.slug = w.slug,
           \A s \in Slug : script[s] # NoText => script'[s] # NoText
    PROVE  PostInv'
<1>1. HandsOn
  BY DEF HandsOn, Aside, Item
<1> QED
  BY <1>1, PostHandedOn

LEMMA PostStep ==
    ASSUME IntakeInv, [IntakeNext]_intakeVars
    PROVE  PostInv'
<1> USE DEF IntakeInv
<1>1. CASE UNCHANGED intakeVars
  <2>1. Aside /\ PastGrows /\ UNCHANGED <<writers, script>>
    BY <1>1, PastStays DEF intakeVars, Aside
  <2> QED
    BY <2>1, PostAside
<1>2. CASE ServerRestarts
  <2>1. /\ PastGrows /\ UNCHANGED <<rssItems, script>>
        /\ \A p \in Pollers : poll[p].at \in Busy => Item(p) \in past'.failed
        /\ \A s \in Slug : (\E w \in writers : w.slug = s) => Lost(s)'
    BY <1>2, RestartTypes
  <2>2. \A w \in writers : w.slug \in Slug
    BY DEF IntakeTypeOK, WriterRecord
  <2>3. HandsOn
    BY <2>1, <2>2 DEF HandsOn
  <2> QED
    BY <2>1, <2>3, PostHandedOn
<1>3. CASE Rest
  <2>1. Aside /\ PastGrows /\ UNCHANGED script /\ writers \subseteq writers'
    <3>1. UNCHANGED script /\ writers \subseteq writers'
      BY <1>3 DEF Rest, Publishes, ProcessScriptPath, ObserverUpdates, ObserverFails,
                  GenerateScript, UpdateScript, Asks, ObserverReads, ApproveScript, RejectScript,
                  Decides, TransitionAndRecord
    <3> QED
      BY <1>3, <3>1, OtherTypes
  <2> QED
    BY <2>1, PostAside
<1>4. ASSUME NEW w \in writers,
             \/ Generated(w) \/ NotGenerated(w) \/ OpenTmp(w) \/ WriteTmp(w) \/ RenameTmp(w)
           \/ WriterFails(w)
      PROVE  PostInv'
  <2>1. Aside /\ PastGrows /\ w.slug \in Slug
    BY <1>4, WriterTypes DEF IntakeTypeOK, WriterRecord
  <2>2. \A s \in Slug : script[s] # NoText => script'[s] # NoText
    BY <1>4, <2>1 DEF Generated, NotGenerated, OpenTmp, WriteTmp, RenameTmp, WriterFails, Filled, NoText, IntakeTypeOK
  <2>3. \A o \in writers : o # w => \E v \in writers' : v.slug = o.slug
    <3>1. CASE writers' = Others(w, Renamed) \/ writers' = Others(w, Removed)
      BY <3>1, OthersAre, BecomeAre
    <3> QED
      BY <1>4, <3>1 DEF Generated, NotGenerated, OpenTmp, WriteTmp, RenameTmp, WriterFails, Becomes
  <2>4. Lost(w.slug)' \/ script'[w.slug] # NoText \/ \E v \in writers' : v.slug = w.slug
    <3>1. /\ [w EXCEPT !.at = "open"].slug = w.slug /\ [w EXCEPT !.at = "write"].slug = w.slug
          /\ [w EXCEPT !.at = "rename"].slug = w.slug /\ [w EXCEPT !.tries = @ + 1].slug = w.slug
      BY DEF IntakeTypeOK, WriterRecord
    <3>2. CASE Generated(w) \/ OpenTmp(w) \/ WriteTmp(w)
      BY <3>1, <3>2 DEF Generated, OpenTmp, WriteTmp, Becomes
    <3>3. CASE NotGenerated(w)
      BY <3>1, <3>3, GivenUpIs DEF NotGenerated, Becomes
    <3>4. CASE RenameTmp(w)
      <4>1. script'[w.slug] # NoText \/ Lost(w.slug)
        BY <2>1, <3>4 DEF RenameTmp, TextInv, HasText, IntakeTypeOK
      <4> QED
        BY <2>1, <4>1 DEF PastGrows, Lost
    <3>5. CASE WriterFails(w)
      BY <3>5, GivenUpIs DEF WriterFails
    <3> QED
      BY <1>4, <3>2, <3>3, <3>4, <3>5
  <2> QED
    BY <2>1, <2>2, <2>3, <2>4, PostAside
<1>5. CASE IntakeNext
  BY <1>2, <1>3, <1>4, <1>5, PostPolls DEF IntakeNext, Rest
<1> QED
  BY <1>1, <1>5

-----------------------------------------------------------------------------

LEMMA IntakeStarts == IntakeInit => IntakeInv
<1> SUFFICES ASSUME IntakeInit PROVE IntakeInv
  OBVIOUS
<1>1. /\ rssItems = {} /\ row = [s \in Slug |-> NoVideo] /\ poll = [p \in Pollers |-> AtRest]
      /\ writers = {} /\ tmp = [s \in Slug |-> NoText] /\ script = [s \in Slug |-> NoText]
      /\ written = {} /\ observing = NotObserving /\ deciding = {} /\ past = NoPast
  BY DEF IntakeInit
<1>2. /\ NoVideo \in Row /\ NoVideo.status = "none" /\ NoVideo.post = 0
      /\ AtRest.at = "rest" /\ ~AtRest.baseline
      /\ NoPast.backlog = {} /\ NoPast.failed = {} /\ ~NoPast.flooded
      /\ NoPast \in [backlog : SUBSET BlogPost, flooded : BOOLEAN, failed : SUBSET BlogPost]
  BY DEF NoVideo, Row, AtRest, NoPast
<1>3. IntakeTypeOK
  BY <1>1, <1>2, ObservingIs DEF IntakeInit, IntakeTypeOK, Content
<1>4. FloodInv /\ Unflooded
  BY <1>1, <1>2 DEF FloodInv, Unflooded, Busy
<1>5. RowInv
  BY <1>1, <1>2, ObservingIs DEF RowInv, Starting, Begun, Observed
<1>6. TextInv /\ PostInv
  BY <1>1, <1>2 DEF TextInv, PostInv, NoText
<1> QED
  BY <1>3, <1>4, <1>5, <1>6 DEF IntakeInv

LEMMA IntakeStays == IntakeInv /\ [IntakeNext]_intakeVars => IntakeInv'
<1> SUFFICES ASSUME IntakeInv, [IntakeNext]_intakeVars PROVE IntakeInv'
  OBVIOUS
<1>1. IntakeTypeOK /\ FloodInv /\ Unflooded /\ RowInv /\ TextInv
  BY DEF IntakeInv
<1> QED
  BY <1>1, Types, FloodStep, RowStep, TextStep, PostStep DEF IntakeInv

LEMMA IntakeSettles == IntakeInv => PostsSettle
<1> SUFFICES ASSUME IntakeInv, Settled, NEW n \in rssItems
             PROVE  IF n \in past.backlog
                    THEN past.flooded \/ row[SlugOf[n]].post # n
                    ELSE n \in past.failed \/ Reviewed(SlugOf[n]) \/ script[SlugOf[n]] = "mixed"
  BY DEF PostsSettle
<1>1. SlugOf[n] \in Slug /\ n \in PostsOf(SlugOf[n])
  BY PostsAre DEF IntakeInv, IntakeTypeOK
<1>2. /\ \A p \in Pollers : poll[p].at \notin Busy
      /\ writers = {} /\ written = {} /\ ~Observed(SlugOf[n])
  <2>1. AtRest.at \notin Busy /\ ~NotObserving.valid
    BY DEF AtRest, NotObserving, Busy
  <2> QED
    BY <2>1 DEF Settled, Observed
<1>3. CASE n \in past.backlog
  BY <1>3 DEF IntakeInv, Unflooded
<1>4. CASE n \notin past.backlog /\ n \notin past.failed
  <2>1. script[SlugOf[n]] \in {"part", "whole", "mixed"}
    BY <1>1, <1>2, <1>4 DEF IntakeInv, IntakeTypeOK, PostInv, Content
  <2>2. ~Lost(SlugOf[n])
    BY <1>1, <1>4 DEF Lost
  <2>3. script[SlugOf[n]] # "part"
    BY <1>1, <1>2, <2>2 DEF IntakeInv, TextInv, Writes
  <2>4. script[SlugOf[n]] = "whole" => Reviewed(SlugOf[n])
    BY <1>1, <1>2, <2>2 DEF IntakeInv, TextInv
  <2> QED
    BY <1>4, <2>1, <2>3, <2>4
<1> QED
  BY <1>3, <1>4

\* Once polls, generators and the observer are at rest, each post the watcher knows has found
\* its place: none of the first poll has a video, and every later one has a script to review,
\* unless a step of its way failed or a person thought otherwise (watcher/rss.go,
\* scriptgen/generator.go) - whatever crossed on the way.
THEOREM PostsStaySettled == IntakeInit /\ [][IntakeNext]_intakeVars => []PostsSettle
<1>1. IntakeInit /\ [][IntakeNext]_intakeVars => []IntakeInv
  BY IntakeStarts, IntakeStays, PTL
<1> QED
  BY <1>1, IntakeSettles, PTL
=============================================================================
