----------------------------- MODULE ScriptDraft -----------------------------
(***************************************************************************)
(* The editing of a script on the script page: the draft, the cards of its  *)
(* segments and what is typed into them, the rules by which the page lets   *)
(* it be saved, those by which the server takes it, and the comparison with *)
(* the script the agent wrote first.                                        *)
(*                                                                         *)
(* The page has its own copy of the rules and shows nothing of what the      *)
(* server answers to a save it refuses (ScriptReviewPage.tsx:75), so that   *)
(* the two must agree.  Who else writes the script meanwhile, and when the  *)
(* page reads it again, is in Studio.tla.  What no card shows is left out.  *)
(***************************************************************************)
EXTENDS FiniteSets, Integers, Sequences

CONSTANTS
    MaxSegments, \* bound on the segments of a script
    MaxEdits     \* bound on what is typed

ASSUME DraftAssumption == MaxSegments \in Nat \ {0} /\ MaxEdits \in Nat

VARIABLES
    original,  \* the script the agent wrote first, kept in the database
    shown,     \* script.json, as the page has it
    draft,     \* what is being edited, or NoDraft
    edits      \* how many are left

draftVars == <<original, shown, draft, edits>>

-----------------------------------------------------------------------------

\* The beats and emotions that can be picked (BEAT_OPTIONS, EMOTION_OPTIONS), two of them
\* for all; what a script has for the ones the page does not know is not among them.
Options == {"one", "other"}

\* Two texts, one of nothing but space, and none.
Text == {"empty", "blank", "first", "second"}

\* Mutant: a text of nothing but space is one.
SaysSomething(text) == text # "empty"

\* What is left when the space around it is taken away.
Says(text) == text \in {"first", "second"}

NoShort == [id |-> 0, hook |-> "empty", cta |-> "empty"]
NoDraft == <<>>

\* The number the short of segment i should have: they count from one in their order.
ShortDue(script, i) == Cardinality({j \in 1..i : script[j].short # NoShort})

Repeated(script, i) == \E j \in 1..(i - 1) : script[j].id = script[i].id

\* What the page finds wrong in segment i: the fields whose message the card shows.
FieldErrors(script, i) ==
    LET segment == script[i]
        short == segment.short
    IN  {field \in {"narration", "shortHook", "shortCta"} :
            \/ field = "narration" /\ (Repeated(script, i) \/ ~Says(segment.narration))
            \/ /\ short # NoShort
               /\ \/ field = "shortHook" /\ (~Says(short.hook) \/ short.id # ShortDue(script, i))
                  \/ field = "shortCta" /\ ~Says(short.cta)}

\* validateSegments: of each segment by its id, where the last one of an id decides.
ValidateSegments(script) ==
    LET faulty == {i \in DOMAIN script : FieldErrors(script, i) # {}}
        last(id) == CHOOSE i \in faulty :
                        script[i].id = id /\ \A j \in faulty : script[j].id = id => j <= i
    IN  [id \in {script[i].id : i \in faulty} |-> FieldErrors(script, last(id))]

\* The server: the schema, which asks for a text, be it of space, and the rules it cannot say.
RelationalRules(script) ==
    \A i \in DOMAIN script :
        /\ ~Repeated(script, i)
        /\ LET short == script[i].short
           IN  short # NoShort =>
                   /\ short.id = ShortDue(script, i)
                   /\ short.hook \notin {"empty", "blank"} /\ short.cta \notin {"empty", "blank"}

ValidateScript(script) ==
    /\ script # <<>>
    /\ \A i \in DOMAIN script : script[i].narration # "empty" /\ script[i].manner \in Options
    /\ RelationalRules(script)

\* The segments the index marks as altered, and those for which the comparison has a card.
Narration(script, id) == {script[i].narration : i \in {j \in DOMAIN script : script[j].id = id}}
ChangedIds(before, script) ==
    {script[i].id : i \in {j \in DOMAIN script :
        Narration(before, script[j].id) # {script[j].narration}}}
ScriptDiff(before, script) ==
    {id \in {script[i].id : i \in DOMAIN script} :
        Narration(before, id) = {} \/ Narration(before, id) # Narration(script, id)}

-----------------------------------------------------------------------------

\* A script is there when the server takes it.
Scripts ==
    LET short == {NoShort} \cup [id : 1..MaxSegments, hook : {"first"}, cta : {"first"}]
        segment == [id : 1..MaxSegments, manner : {"one"}, narration : {"blank", "first"}, short : short]
    IN  {script \in UNION {[1..n -> segment] : n \in 1..MaxSegments} : ValidateScript(script)}

DraftInit ==
    /\ original \in Scripts
    /\ shown = original
    /\ draft = NoDraft
    /\ edits = MaxEdits

\* "Editar": a copy of what the page shows.
OpenDraft ==
    /\ draft = NoDraft
    /\ draft' = shown
    /\ UNCHANGED <<original, shown, edits>>

\* Something typed into the card of segment i replaces every segment of its id.
Change(i, segment) ==
    /\ edits > 0 /\ edits' = edits - 1
    /\ draft' = [j \in DOMAIN draft |-> IF draft[j].id = segment.id THEN segment ELSE draft[j]]
    /\ UNCHANGED <<original, shown>>

\* The card has two lists to pick from, a field for the narration, and two more when there is
\* a short.
Edit(i) ==
    LET segment == draft[i]
    IN  \/ \E manner \in Options : Change(i, [segment EXCEPT !.manner = manner])
        \/ \E text \in Text :
                \/ Change(i, [segment EXCEPT !.narration = text])
                \/ /\ segment.short # NoShort
                   /\ \/ Change(i, [segment EXCEPT !.short.hook = text])
                      \/ Change(i, [segment EXCEPT !.short.cta = text])

CanSave == draft # NoDraft /\ DOMAIN ValidateSegments(draft) = {}

\* UpdateScript: a script that is refused leaves the draft as it is.
SaveDraft ==
    /\ CanSave
    /\ shown' = IF ValidateScript(draft) THEN draft ELSE shown
    /\ draft' = IF ValidateScript(draft) THEN NoDraft ELSE draft
    /\ UNCHANGED <<original, edits>>

DropDraft ==
    /\ draft # NoDraft
    /\ draft' = NoDraft
    /\ UNCHANGED <<original, shown, edits>>

DraftNext == OpenDraft \/ (\E i \in DOMAIN draft : Edit(i)) \/ SaveDraft \/ DropDraft

-----------------------------------------------------------------------------

\* What the page lets be saved the server takes ("Client-side mirror of the S1-02 contract
\* rules", ScriptReviewPage.tsx:22), so that nobody presses a button to which nothing
\* answers; a draft that may not be saved has a message on a card that is there, in a field
\* the card has; whatever was typed, saved and dropped, the segments and the shorts are those
\* of the first script; and the index marks what the comparison shows.
DraftIsSavable ==
    /\ CanSave => ValidateScript(draft)
    /\ LET errors == ValidateSegments(draft)
       IN  draft # NoDraft => \A id \in DOMAIN errors :
               \E i \in DOMAIN draft :
                   /\ draft[i].id = id /\ errors[id] # {}
                   /\ errors[id] # {"narration"} => draft[i].short # NoShort
    /\ \A script \in {shown, draft} \ {NoDraft} :
           /\ DOMAIN script = DOMAIN original
           /\ \A i \in DOMAIN script :
                  script[i].id = original[i].id /\ script[i].short.id = original[i].short.id
    /\ ChangedIds(original, shown) = ScriptDiff(original, shown)
=============================================================================
