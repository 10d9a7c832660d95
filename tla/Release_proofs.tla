--------------------------- MODULE Release_proofs ---------------------------
(***************************************************************************)
(* Proofs about Release for any number of tabs, shorts, items and cuts,    *)
(* whatever fails.                                                         *)
(*                                                                         *)
(* The order of the release builder carries them: a render file is never    *)
(* lost once the video has been in review, so each copy of a build finds    *)
(* one, the long copy comes before every row, and the row of a short after  *)
(* its copy.  A toggle only ever touches a row that a build has seeded.     *)
(***************************************************************************)
EXTENDS Release, TLAPS

Rendered == \A i \in Packaged : renders[i] # 0

Building(u) == handler[u].op = "approve"
Toggling(u) == handler[u].op = "toggle"

\* The runner uploads the files of a cut, and a review has all of them.
RendersThere ==
    /\ runner = "rendering" => cut # 0
    /\ status = "final_review" => Rendered
    /\ \A u \in Users : Building(u) => Rendered

\* How far the build has come, in packages.
Built(u) ==
    Building(u) =>
        /\ handler[u].pc \in {"copy", "row", "git"} => packages[YouTube] # 0
        /\ handler[u].pc = "copy" => handler[u].item \in 1 .. Shorts
        /\ handler[u].pc = "row" /\ handler[u].item \in 1 .. Shorts =>
             packages[handler[u].item] # 0

\* No row without the long video, and none that a toggle finds is ever deleted.
RowsSeeded ==
    /\ \A i \in Item : checklist[i] # "absent" => packages[YouTube] # 0
    /\ \A u \in Users :
         Toggling(u) /\ handler[u].pc \in {"count", "commit"} =>
            checklist[handler[u].item] # "absent"

IInv ==
    /\ TypeOK
    /\ RendersThere
    /\ \A u \in Users : Built(u)
    /\ RowsSeeded
    /\ SeededHasPackage
    /\ ReleasedWasBuilt

-----------------------------------------------------------------------------
\* Items are numbers; YouTube is one of them, after the shorts.
LEMMA Numbers ==
    /\ Shorts \in Nat
    /\ Items \in Nat
    /\ YouTube \in Item
    /\ YouTube \in Packaged
    /\ Packaged \subseteq Item
    /\ 1 .. Shorts \subseteq Packaged
    /\ \A i \in Packaged : i \in 1 .. Shorts \/ i = YouTube
    /\ \A i \in Item \cup {0} :
         /\ i < Shorts => i + 1 \in 1 .. Shorts
         /\ i < Items => i + 1 \in Item
         /\ i >= Shorts => i + 1 \notin 1 .. Shorts
    /\ MaxCuts \in Nat
BY ItemsAssumption, CutsAssumption DEF YouTube, Item, Packaged

LEMMA NoRequestType == NoRequest \in Request
BY Numbers DEF NoRequest, Request, ReviewState

\* What a step of the build leaves of the request when the row of i is done.
LEMMA AfterRowType ==
    ASSUME TypeOK, NEW u \in Users, NEW i \in Item \cup {0}, AfterRow(u, i)
    PROVE  /\ handler' \in [Users -> Request]
           /\ \A w \in Users : w # u => handler'[w] = handler[w]
           /\ handler'[u].op = handler[u].op
           /\ \/ handler'[u].pc = "copy" /\ handler'[u].item \in 1 .. Shorts
              \/ handler'[u].pc = "row" /\ handler'[u].item \in Item \ (1 .. Shorts)
              \/ handler'[u].pc = "git"
<1>1. handler[u] \in Request
  BY DEF TypeOK
<1>2. ASSUME NEW pc \in {"copy", "row"}, NEW n \in Item, Step(u, pc, n)
      PROVE  /\ handler' \in [Users -> Request]
             /\ \A w \in Users : w # u => handler'[w] = handler[w]
             /\ handler'[u].op = handler[u].op
             /\ handler'[u].pc = pc
             /\ handler'[u].item = n
  BY <1>1, <1>2 DEF TypeOK, Step, Request
<1>3. CASE i < Shorts /\ Step(u, "copy", i + 1)
  <2>1. i + 1 \in 1 .. Shorts /\ i + 1 \in Item
    BY <1>3, Numbers
  <2> QED
    BY <1>2, <1>3, <2>1
<1>4. CASE i >= Shorts /\ i < Items /\ Step(u, "row", i + 1)
  <2>1. i + 1 \in Item /\ i + 1 \notin 1 .. Shorts
    BY <1>4, Numbers
  <2> QED
    BY <1>2, <1>4, <2>1
<1>5. CASE GoTo(u, "git")
  BY <1>1, <1>5 DEF TypeOK, GoTo, Request
<1> QED
  BY <1>3, <1>4, <1>5 DEF AfterRow

-----------------------------------------------------------------------------
(* One lemma per family of actions *)

\* A request that comes to its end, or has just begun, relies on nothing.
LEMMA QuietStep ==
    ASSUME IInv, NEW u \in Users,
           \/ Finish(u)
           \/ \E pc \in {"long", "block"} : GoTo(u, pc) /\ Building(u)
           \/ Start(u, Unbuilt) /\ Rendered
           \/ Start(u, [NoRequest EXCEPT !.op = "rerender", !.pc = "commit"])
           \/ \E i \in Item, publish \in BOOLEAN :
                Start(u, [NoRequest EXCEPT !.op = "toggle", !.pc = "update", !.item = i,
                                           !.publish = publish, !.from = status])
    PROVE  /\ handler' \in [Users -> Request]
           /\ \A w \in Users : w # u => handler'[w] = handler[w]
           /\ handler'[u].op = "approve" => handler'[u].pc \in {"build", "long", "block"}
           /\ handler'[u].op = "approve" => Rendered
           /\ handler'[u].op = "toggle" => handler'[u].pc = "update"
<1>1. handler \in [Users -> Request] /\ handler[u] \in Request /\ status \in ReviewState
  BY DEF IInv, TypeOK
<1>2. CASE Finish(u)
  BY <1>1, <1>2, NoRequestType DEF Finish, NoRequest
<1>3. ASSUME NEW pc \in {"long", "block"}, GoTo(u, pc), Building(u)
      PROVE  /\ handler'[u] = [handler[u] EXCEPT !.pc = pc]
             /\ handler'[u] \in Request
             /\ handler' \in [Users -> Request]
             /\ \A w \in Users : w # u => handler'[w] = handler[w]
             /\ handler'[u].op = "approve"
             /\ handler'[u].pc = pc
  BY <1>1, <1>3 DEF GoTo, Request, Building
<1>4. ASSUME Building(u) PROVE Rendered
  BY <1>4 DEF IInv, RendersThere
<1>5. CASE Start(u, Unbuilt) /\ Rendered
  <2>1. Unbuilt \in Request /\ Unbuilt.op = "approve" /\ Unbuilt.pc = "build"
    BY Numbers DEF Unbuilt, NoRequest, Request, ReviewState
  <2> QED
    BY <1>1, <1>5, <2>1 DEF Start
<1>6. CASE Start(u, [NoRequest EXCEPT !.op = "rerender", !.pc = "commit"])
  <2> DEFINE r == [NoRequest EXCEPT !.op = "rerender", !.pc = "commit"]
  <2>1. r \in Request /\ r.op = "rerender"
    BY Numbers DEF NoRequest, Request, ReviewState
  <2> QED
    BY <1>1, <1>6, <2>1 DEF Start
<1>7. ASSUME NEW i \in Item, NEW publish \in BOOLEAN,
             Start(u, [NoRequest EXCEPT !.op = "toggle", !.pc = "update", !.item = i,
                                        !.publish = publish, !.from = status])
      PROVE  /\ handler' \in [Users -> Request]
             /\ \A w \in Users : w # u => handler'[w] = handler[w]
             /\ handler'[u].op = "toggle"
             /\ handler'[u].pc = "update"
  <2> DEFINE r == [NoRequest EXCEPT !.op = "toggle", !.pc = "update", !.item = i,
                                    !.publish = publish, !.from = status]
  <2>1. r \in Request /\ r.op = "toggle" /\ r.pc = "update"
    BY <1>1, Numbers DEF NoRequest, Request, ReviewState
  <2> QED
    BY <1>1, <1>7, <2>1 DEF Start
<1> QED
  BY <1>2, <1>3, <1>4, <1>5, <1>6, <1>7

\* Steps that leave the files and the rows alone, apart from one request going quiet.
LEMMA StatusStep ==
    ASSUME IInv, NEW u \in Users,
           \/ ApproveFinalCut(u) \/ BuildLoad(u) \/ BuildCommit(u) \/ BuildFails(u)
           \/ BlockVideo(u) \/ RequestRerender(u) \/ RerenderCommit(u) \/ Abort(u)
           \/ \E i \in Item, publish \in BOOLEAN : SetChecklistItemPublished(u, i, publish)
    PROVE  IInv'
<1>1. UNCHANGED <<checklist, renders, packages, cut, runner>>
  BY DEF ApproveFinalCut, BuildLoad, BuildCommit, BuildFails, BlockVideo, RequestRerender,
         RerenderCommit, Abort, SetChecklistItemPublished
<1>2. status' = status \/ status' \in {"blocked", "queued"}
  BY DEF ApproveFinalCut, BuildLoad, BuildCommit, BuildFails, BlockVideo, RequestRerender,
         RerenderCommit, Abort, SetChecklistItemPublished
<1>3. /\ handler' \in [Users -> Request]
      /\ \A w \in Users : w # u => handler'[w] = handler[w]
      /\ handler'[u].op = "approve" => handler'[u].pc \in {"build", "long", "block"}
      /\ handler'[u].op = "approve" => Rendered
      /\ handler'[u].op = "toggle" => handler'[u].pc = "update"
  <2>1. ApproveFinalCut(u) => Rendered
    BY DEF ApproveFinalCut, IInv, RendersThere
  <2> QED
    BY <2>1, QuietStep
       DEF ApproveFinalCut, BuildLoad, BuildCommit, BuildFails, BlockVideo, RequestRerender,
           RerenderCommit, Abort, SetChecklistItemPublished, At, Building
<1>4. TypeOK'
  BY <1>1, <1>2, <1>3 DEF IInv, TypeOK, ReviewState
<1>5. RendersThere'
  BY <1>1, <1>2, <1>3 DEF IInv, RendersThere, Rendered, Building
<1>6. \A w \in Users : Built(w)'
  BY <1>1, <1>3 DEF IInv, Built, Building
<1>7. RowsSeeded'
  BY <1>1, <1>3 DEF IInv, RowsSeeded, Toggling
<1>8. SeededHasPackage' /\ ReleasedWasBuilt'
  BY <1>1, <1>2 DEF IInv, SeededHasPackage, ReleasedWasBuilt
<1> QED
  BY <1>4, <1>5, <1>6, <1>7, <1>8 DEF IInv

\* The copies of the build: each finds its render.
LEMMA CopyStep ==
    ASSUME IInv, NEW u \in Users, CopyLong(u) \/ CopyShort(u)
    PROVE  IInv'
<1> USE Numbers DEF IInv
<1>1. PICK i \in Packaged : CopyRender(i)
  BY DEF CopyLong, CopyShort, At, Built, Building
<1>2. renders[i] # 0 /\ renders[i] \in Cut
  BY DEF CopyLong, CopyShort, At, RendersThere, Rendered, Building, TypeOK
<1>3. /\ packages' \in [Packaged -> Cut]
      /\ packages'[i] # 0
      /\ \A k \in Packaged : packages[k] # 0 => packages'[k] # 0
  BY <1>1, <1>2 DEF TypeOK, CopyRender
<1>4. UNCHANGED <<status, checklist, renders, cut, runner>>
  BY DEF CopyLong, CopyShort
<1>5. /\ handler' \in [Users -> Request]
      /\ \A w \in Users : w # u => handler'[w] = handler[w]
      /\ handler'[u].op = "approve"
      /\ handler[u].op = "approve"
  <2>1. CASE CopyLong(u)
    BY <2>1, AfterRowType DEF CopyLong, At
  <2>2. CASE CopyShort(u)
    BY <2>2 DEF CopyShort, At, GoTo, TypeOK, Request
  <2> QED
    BY <2>1, <2>2
<1>6. Built(u)'
  <2>1. CASE CopyLong(u)
    <3>1. packages'[YouTube] # 0
      BY <1>2, <2>1 DEF CopyLong, CopyRender, TypeOK, RendersThere, Rendered, Building, At
    <3>2. \/ handler'[u].pc = "copy" /\ handler'[u].item \in 1 .. Shorts
          \/ handler'[u].pc = "row" /\ handler'[u].item \in Item \ (1 .. Shorts)
          \/ handler'[u].pc = "git"
      BY <2>1, AfterRowType DEF CopyLong
    <3> QED
      BY <3>1, <3>2 DEF Built
  <2>2. CASE CopyShort(u)
    <3>1. packages[YouTube] # 0 /\ handler[u].item \in 1 .. Shorts
      BY <2>2 DEF CopyShort, At, Built, Building
    <3>2. handler'[u].pc = "row" /\ handler'[u].item = handler[u].item
      BY <2>2 DEF CopyShort, At, GoTo, TypeOK, Request
    <3>3. packages'[handler[u].item] # 0
      BY <2>2, <3>1 DEF CopyShort, CopyRender, TypeOK, At, RendersThere, Rendered, Building
    <3> QED
      BY <1>3, <3>1, <3>2, <3>3 DEF Built
  <2> QED
    BY <2>1, <2>2
<1>7. ASSUME NEW w \in Users, w # u PROVE Built(w)'
  BY <1>3, <1>5, <1>7 DEF Built, Building
<1>8. TypeOK' /\ RendersThere'
  BY <1>3, <1>4, <1>5 DEF TypeOK, RendersThere, Rendered, Building
<1>9. RowsSeeded' /\ SeededHasPackage' /\ ReleasedWasBuilt'
  BY <1>3, <1>4, <1>5 DEF RowsSeeded, Toggling, SeededHasPackage, ReleasedWasBuilt
<1> QED
  BY <1>6, <1>7, <1>8, <1>9

\* The rows of the build: the package is there before the row.
LEMMA SeedStep ==
    ASSUME IInv, NEW u \in Users, UpsertChecklistItem(u)
    PROVE  IInv'
<1> USE Numbers DEF IInv
<1>1. PICK i \in Item : i = handler[u].item
  BY DEF TypeOK, Request
<1>2. /\ Building(u) /\ handler[u].pc = "row"
      /\ AfterRow(u, i)
      /\ checklist' = [checklist EXCEPT ![i] = Seeded(@)]
      /\ UNCHANGED <<status, renders, packages, cut, runner>>
  BY <1>1 DEF UpsertChecklistItem, At, Building
<1>3. packages[YouTube] # 0 /\ (i \in Packaged => packages[i] # 0)
  BY <1>1, <1>2 DEF Built
<1>4. /\ handler' \in [Users -> Request]
      /\ \A w \in Users : w # u => handler'[w] = handler[w]
      /\ handler'[u].op = "approve"
      /\ \/ handler'[u].pc = "copy" /\ handler'[u].item \in 1 .. Shorts
         \/ handler'[u].pc = "row" /\ handler'[u].item \in Item \ (1 .. Shorts)
         \/ handler'[u].pc = "git"
  BY <1>2, AfterRowType DEF Building
<1>5. /\ checklist' \in [Item -> {"absent", "open", "published"}]
      /\ \A k \in Item : k # i => checklist'[k] = checklist[k]
      /\ checklist'[i] # "absent"
  BY <1>2 DEF TypeOK, Seeded
<1>6. TypeOK' /\ RendersThere'
  BY <1>2, <1>4, <1>5 DEF TypeOK, RendersThere, Rendered, Building
<1>7. \A w \in Users : Built(w)'
  BY <1>2, <1>3, <1>4 DEF Built, Building
<1>8. RowsSeeded'
  <2>1. \A k \in Item : checklist[k] # "absent" => checklist'[k] # "absent"
    BY <1>5
  <2>2. \A w \in Users : handler[w].item \in Item
    BY DEF TypeOK, Request
  <2> QED
    BY <1>2, <1>3, <1>4, <2>1, <2>2 DEF RowsSeeded, Toggling
<1>9. SeededHasPackage' /\ ReleasedWasBuilt'
  BY <1>2, <1>3, <1>5 DEF SeededHasPackage, ReleasedWasBuilt
<1> QED
  BY <1>6, <1>7, <1>8, <1>9

\* The three steps of a toggle: it finds its row, counts, and commits.
LEMMA ToggleStep ==
    ASSUME IInv, NEW u \in Users, ToggleUpdate(u) \/ ToggleCount(u) \/ ToggleCommit(u)
    PROVE  IInv'
<1> USE Numbers DEF IInv
<1>1. handler \in [Users -> Request] /\ handler[u] \in Request /\ handler[u].item \in Item
  BY DEF TypeOK, Request
<1>2. Toggling(u) /\ UNCHANGED <<renders, packages, cut, runner>>
  BY DEF ToggleUpdate, ToggleCount, ToggleCommit, At, Toggling
<1>3. /\ handler' \in [Users -> Request]
      /\ \A w \in Users : w # u => handler'[w] = handler[w]
      /\ handler'[u].op \in {"none", "toggle"}
      /\ handler'[u].op = "toggle" =>
           checklist[handler'[u].item] # "absent" /\ handler'[u].item \in Item
  <2>1. CASE Finish(u)
    BY <1>1, <2>1, NoRequestType DEF Finish, NoRequest
  <2>2. CASE ToggleUpdate(u) /\ checklist[handler[u].item] # "absent" /\ GoTo(u, "count")
    <3>1. handler'[u] = [handler[u] EXCEPT !.pc = "count"]
      BY <1>1, <2>2 DEF GoTo
    <3> QED
      BY <1>1, <1>2, <2>2, <3>1 DEF GoTo, Request, Toggling
  <2>3. CASE ToggleCount(u)
    <3> DEFINE closes == /\ \A i \in Item : Toggled(u)[i] # "open"
                         /\ handler[u].from = "final_review"
                         /\ handler[u].publish
    <3>1. closes \in BOOLEAN
      OBVIOUS
    <3>2. handler' = [handler EXCEPT ![u] = [@ EXCEPT !.pc = "commit", !.closes = closes]]
      BY <1>1, <2>3 DEF ToggleCount
    <3> HIDE DEF closes
    <3>3. [handler[u] EXCEPT !.pc = "commit", !.closes = closes] \in Request
      BY <1>1, <3>1 DEF Request
    <3>4. handler'[u] = [handler[u] EXCEPT !.pc = "commit", !.closes = closes]
      BY <1>1, <3>2
    <3>5. handler'[u].op = handler[u].op /\ handler'[u].item = handler[u].item
      BY <1>1, <3>4 DEF Request
    <3>6. checklist[handler[u].item] # "absent"
      BY <1>2, <2>3 DEF ToggleCount, At, RowsSeeded
    <3> QED
      BY <1>1, <1>2, <3>2, <3>3, <3>5, <3>6 DEF Toggling
  <2> QED
    BY <2>1, <2>2, <2>3 DEF ToggleUpdate, ToggleCommit
<1>4. /\ checklist' \in [Item -> {"absent", "open", "published"}]
      /\ \A i \in Item : checklist'[i] = "absent" <=> checklist[i] = "absent"
  <2>1. CASE ToggleCommit(u)
    <3>1. checklist[handler[u].item] # "absent"
      BY <1>2, <2>1 DEF ToggleCommit, At, RowsSeeded
    <3> QED
      BY <1>1, <2>1, <3>1 DEF TypeOK, ToggleCommit, Toggled
  <2>2. CASE UNCHANGED checklist
    BY <2>2 DEF TypeOK
  <2> QED
    BY <2>1, <2>2 DEF ToggleUpdate, ToggleCount
<1>5. status' = status \/ (status' = "released" /\ packages[YouTube] # 0)
  <2>1. CASE ToggleCommit(u)
    BY <1>1, <1>2, <2>1 DEF ToggleCommit, At, RowsSeeded
  <2>2. CASE UNCHANGED status
    BY <2>2
  <2> QED
    BY <2>1, <2>2 DEF ToggleUpdate, ToggleCount
<1>6. TypeOK' /\ RendersThere'
  BY <1>2, <1>3, <1>4, <1>5 DEF TypeOK, ReviewState, RendersThere, Rendered, Building
<1>7. \A w \in Users : Built(w)'
  BY <1>2, <1>3 DEF Built, Building
<1>8. RowsSeeded'
  <2>1. \A w \in Users : handler[w].item \in Item
    BY DEF TypeOK, Request
  <2>2. ASSUME NEW w \in Users, Toggling(w)', handler'[w].pc \in {"count", "commit"}
        PROVE  checklist'[handler'[w].item] # "absent"
    BY <1>2, <1>3, <1>4, <2>1, <2>2 DEF RowsSeeded, Toggling
  <2>3. \A i \in Item : checklist'[i] # "absent" => packages'[YouTube] # 0
    BY <1>2, <1>4 DEF RowsSeeded
  <2> QED
    BY <2>2, <2>3 DEF RowsSeeded
<1>9. SeededHasPackage' /\ ReleasedWasBuilt'
  BY <1>2, <1>4, <1>5 DEF SeededHasPackage, ReleasedWasBuilt
<1> QED
  BY <1>6, <1>7, <1>8, <1>9

\* The runner only adds renders, and a review begins when all of them are there.
LEMMA RunnerStep ==
    ASSUME IInv,
           RenderStarts \/ RenderDone \/ Rearm \/ \E i \in Packaged : RenderUploaded(i)
    PROVE  IInv'
<1> USE Numbers DEF IInv
<1>1. UNCHANGED <<checklist, packages, handler>>
  BY DEF RenderStarts, RenderDone, Rearm, RenderUploaded
<1>2. status' \in ReviewState /\ (status' = "released" => status = "released")
  BY DEF TypeOK, ReviewState, RenderStarts, RenderDone, Rearm, RenderUploaded
<1>3. cut' \in Cut /\ runner' \in {"idle", "rendering"} /\ (runner' = "rendering" => cut' # 0)
  BY DEF TypeOK, Cut, RendersThere, RenderStarts, RenderDone, Rearm, RenderUploaded
<1>4. renders' \in [Packaged -> Cut] /\ (\A i \in Packaged : renders[i] # 0 => renders'[i] # 0)
  <2>1. ASSUME NEW i \in Packaged, RenderUploaded(i)
        PROVE  /\ renders' \in [Packaged -> Cut]
               /\ \A k \in Packaged : renders[k] # 0 => renders'[k] # 0
    BY <2>1 DEF TypeOK, RendersThere, RenderUploaded
  <2> QED
    BY <2>1 DEF TypeOK, RenderStarts, RenderDone, Rearm
<1>5. status' = "final_review" => Rendered'
  <2>1. CASE RenderDone
    BY <2>1 DEF RenderDone, RendersThere, Rendered
  <2>2. CASE ~RenderDone
    BY <1>4, <2>2 DEF RendersThere, Rendered, RenderStarts, Rearm, RenderUploaded
  <2> QED
    BY <2>1, <2>2
<1>6. TypeOK' /\ RendersThere'
  BY <1>1, <1>2, <1>3, <1>4, <1>5 DEF TypeOK, RendersThere, Rendered, Building
<1>7. (\A u \in Users : Built(u)') /\ RowsSeeded' /\ SeededHasPackage' /\ ReleasedWasBuilt'
  BY <1>1, <1>2 DEF Built, Building, RowsSeeded, Toggling, SeededHasPackage, ReleasedWasBuilt
<1> QED
  BY <1>6, <1>7

LEMMA InitIInv == Init => IInv
<1> SUFFICES ASSUME Init PROVE IInv
  OBVIOUS
<1> USE Numbers, NoRequestType DEF Init
<1>1. TypeOK
  BY DEF TypeOK, ReviewState, Cut
<1>2. RendersThere /\ (\A u \in Users : Built(u)) /\ RowsSeeded
  BY DEF RendersThere, Built, RowsSeeded, Building, Toggling, NoRequest
<1>3. SeededHasPackage /\ ReleasedWasBuilt
  BY DEF SeededHasPackage, ReleasedWasBuilt
<1> QED
  BY <1>1, <1>2, <1>3 DEF IInv

LEMMA NextIInv == IInv /\ [Next]_vars => IInv'
<1> SUFFICES ASSUME IInv, [Next]_vars PROVE IInv'
  OBVIOUS
<1>1. CASE UNCHANGED vars
  <2>1. UNCHANGED <<status, checklist, renders, packages, cut, runner, handler>>
    BY <1>1 DEF vars
  <2> QED
    BY <2>1 DEF IInv, TypeOK, RendersThere, Rendered, Built, Building, RowsSeeded, Toggling,
         SeededHasPackage, ReleasedWasBuilt
<1>2. CASE Next
  BY <1>2, StatusStep, CopyStep, SeedStep, ToggleStep, RunnerStep DEF Next, HandlerStep
<1> QED
  BY <1>1, <1>2

-----------------------------------------------------------------------------
(* The theorems *)

\* The inductive invariant, for any number of tabs and whatever fails.
THEOREM Invariant == Spec => []IInv
  BY InitIInv, NextIInv, PTL DEF Spec

\* Type correctness of the release.
THEOREM TypeCorrect == Spec => []TypeOK
<1>1. IInv => TypeOK
  BY DEF IInv
<1> QED
  BY <1>1, Invariant, PTL

\* No item of the checklist without its package, however builds, renders and
\* toggles interleave and wherever a build fails.
THEOREM RowsHavePackages == Spec => []SeededHasPackage
<1>1. IInv => SeededHasPackage
  BY DEF IInv
<1> QED
  BY <1>1, Invariant, PTL

\* No release without a build, not even by a checklist that is empty or half seeded.
THEOREM ReleaseNeedsBuild == Spec => []ReleasedWasBuilt
<1>1. IInv => ReleasedWasBuilt
  BY DEF IInv
<1> QED
  BY <1>1, Invariant, PTL

\* A tick of the checklist survives every build and every other request.
THEOREM TicksAreKept == Spec => TicksSurvive
<1> DEFINE Kept(i) ==
      checklist[i] = "published" /\ checklist'[i] # "published" =>
         \E u \in Users : At(u, "toggle", "commit") /\ handler[u].item = i
                          /\ ~handler[u].publish
<1>1. ASSUME TypeOK, [Next]_vars, NEW i \in Item PROVE Kept(i)
  <2>1. ASSUME NEW u \in Users, ToggleCommit(u) PROVE Kept(i)
    BY <1>1, <2>1 DEF TypeOK, ToggleCommit, Toggled
  <2>2. ASSUME NEW u \in Users, UpsertChecklistItem(u) PROVE Kept(i)
    BY <1>1, <2>2 DEF TypeOK, UpsertChecklistItem, Seeded
  <2>3. ASSUME checklist' = checklist PROVE Kept(i)
    BY <2>3
  <2> QED
    BY <1>1, <2>1, <2>2, <2>3
       DEF Next, vars, HandlerStep, ApproveFinalCut, BuildLoad, CopyLong, CopyShort, BuildCommit,
           BuildFails, BlockVideo, SetChecklistItemPublished, ToggleUpdate, ToggleCount,
           RequestRerender, RerenderCommit, RenderStarts, RenderUploaded, RenderDone, Rearm, Abort
<1>2. TypeOK /\ [Next]_vars => [\A i \in Item : Kept(i)]_vars
  BY <1>1
<1> QED
  BY <1>2, TypeCorrect, PTL DEF Spec, TicksSurvive

-----------------------------------------------------------------------------
(***************************************************************************)
(* What Release guarantees, besides, as long as one browser tab has a       *)
(* request in flight: whoever has found the video in its final review will  *)
(* find it there when it commits, and a build copies the files of one cut.  *)
(***************************************************************************)

-----------------------------------------------------------------------------
(* The inductive invariant *)

OneTab == \A s, t \in Users : s = t

\* A request that acts on a review finds the video in review, and a toggle that is to
\* release it has no open row left.
Stands(u) ==
    /\ handler[u].op \in {"approve", "rerender"} => status = "final_review"
    /\ Toggling(u) /\ handler[u].from = "final_review" => status = "final_review"
    /\ Toggling(u) /\ handler[u].closes =>
          /\ handler[u].from = "final_review"
          /\ \A i \in Item : Toggled(u)[i] # "open"

\* How far the build has come with the packages of this cut.
Copied(u) ==
    Building(u) =>
        /\ handler[u].pc \in {"copy", "row", "git"} => packages[YouTube] = cut
        /\ \A i \in 1 .. Shorts :
              \/ handler[u].pc = "copy" /\ i < handler[u].item
              \/ handler[u].pc = "row" /\ i <= handler[u].item
              \/ handler[u].pc = "git"
              => packages[i] = cut

\* The runner is at work exactly while the video renders, and has left the files of one
\* cut when it is done.
RunnerAgrees ==
    /\ runner = "rendering" <=> status = "rendering"
    /\ status = "final_review" => \A i \in Packaged : renders[i] = cut

TInv ==
    /\ IInv
    /\ RunnerAgrees
    /\ \A u \in Users : Stands(u) /\ Copied(u)

-----------------------------------------------------------------------------
(* What a step does to the status *)

LEMMA StatusMoves ==
    ASSUME TInv, [Next]_vars, status' # status
    PROVE  \/ \E u \in Users :
                \/ BlockVideo(u) /\ status = "final_review" /\ status' = "blocked"
                \/ /\ ToggleCommit(u) /\ handler[u].closes
                   /\ status = "final_review" /\ status' = "released"
                \/ RerenderCommit(u) /\ status = "final_review" /\ status' = "queued"
           \/ RenderStarts /\ status = "queued" /\ status' = "rendering"
           \/ RenderDone /\ status = "rendering" /\ status' = "final_review"
           \/ Rearm /\ status = "blocked" /\ status' = "queued"
<1> USE DEF TInv
<1>1. ASSUME NEW u \in Users, BlockVideo(u) \/ RerenderCommit(u)
      PROVE  /\ status = "final_review"
             /\ \/ BlockVideo(u) /\ status' = "blocked"
                \/ RerenderCommit(u) /\ status' = "queued"
  BY <1>1 DEF BlockVideo, RerenderCommit, At, Stands
<1>2. ASSUME NEW u \in Users, ToggleCommit(u)
      PROVE  handler[u].closes /\ status = "final_review" /\ status' = "released"
  BY <1>2 DEF ToggleCommit, At, Stands, Toggling
<1>3. CASE RenderStarts \/ RenderDone \/ Rearm
  BY <1>3 DEF RenderStarts, RenderDone, Rearm
<1> QED
  BY <1>1, <1>2, <1>3
     DEF Next, vars, HandlerStep, ApproveFinalCut, BuildLoad, CopyLong, CopyShort,
         UpsertChecklistItem, BuildCommit, BuildFails, SetChecklistItemPublished, ToggleUpdate,
         ToggleCount, RequestRerender, RenderUploaded, Abort

\* The runner has done its work before the review begins, and does not come back to it.
LEMMA RunnerStepAgrees ==
    ASSUME TInv, [Next]_vars
    PROVE  RunnerAgrees'
<1> USE DEF TInv, IInv, TypeOK
<1>1. CASE RenderStarts \/ RenderDone
  BY <1>1 DEF RenderStarts, RenderDone, RunnerAgrees
<1>2. ASSUME NEW i \in Packaged, RenderUploaded(i)
      PROVE  RunnerAgrees'
  BY <1>2 DEF RenderUploaded, RunnerAgrees
<1>3. CASE UNCHANGED <<runner, renders, cut>>
  BY <1>3, StatusMoves DEF RunnerAgrees, RenderStarts, RenderDone
<1> QED
  BY <1>1, <1>2, <1>3
     DEF Next, vars, HandlerStep, ApproveFinalCut, BuildLoad, CopyLong, CopyShort,
         UpsertChecklistItem, BuildCommit, BuildFails, BlockVideo, SetChecklistItemPublished,
         ToggleUpdate, ToggleCount, ToggleCommit, RequestRerender, RerenderCommit, Rearm, Abort

-----------------------------------------------------------------------------
(* The request of the tab *)

Tab(u) == Stands(u) /\ Copied(u)

\* Without a request nothing is promised.
LEMMA NothingStands ==
    ASSUME NEW u \in Users, handler \in [Users -> Request], Finish(u)
    PROVE  Tab(u)'
BY DEF Finish, NoRequest, Tab, Stands, Copied, Toggling, Building

\* A step of a build, with the packages of this cut that it has made so far.
LEMMA BuildGoesOn ==
    ASSUME NEW u \in Users, TypeOK, Building(u), status' = status, status = "final_review",
           NEW i \in Item \cup {0}, AfterRow(u, i), packages'[YouTube] = cut',
           \A j \in 1 .. Shorts : j <= i => packages'[j] = cut'
    PROVE  Tab(u)'
<1> USE Numbers DEF TypeOK
<1>1. handler'[u].op = "approve"
  BY AfterRowType DEF Building
<1>2. Stands(u)'
  BY <1>1 DEF Stands, Toggling
<1>3. \A j \in 1 .. Shorts : j \in Int /\ j <= Shorts
  OBVIOUS
<1>4. i \in Nat /\ i <= Items
  BY DEF Item
<1>5. CASE i < Shorts /\ Step(u, "copy", i + 1)
  <2>1. handler'[u].pc = "copy" /\ handler'[u].item = i + 1
    BY <1>5 DEF Step, Request
  <2>2. \A j \in 1 .. Shorts : j < i + 1 => j <= i
    BY <1>4
  <2> QED
    BY <1>2, <2>1, <2>2 DEF Tab, Copied
<1>6. CASE i >= Shorts /\ i < Items /\ Step(u, "row", i + 1)
  <2>1. handler'[u].pc = "row"
    BY <1>6 DEF Step, Request
  <2>2. \A j \in 1 .. Shorts : j <= i
    BY <1>3, <1>4, <1>6
  <2> QED
    BY <1>2, <2>1, <2>2 DEF Tab, Copied
<1>7. CASE i = Items /\ GoTo(u, "git")
  <2>1. \A j \in 1 .. Shorts : j <= i
    BY <1>7, ItemsAssumption
  <2> QED
    BY <1>2, <2>1 DEF Tab, Copied
<1> QED
  BY <1>5, <1>6, <1>7 DEF AfterRow

LEMMA RequestBegins ==
    ASSUME TInv, NEW u \in Users,
           \/ ApproveFinalCut(u) \/ RequestRerender(u)
           \/ \E i \in Item, publish \in BOOLEAN : SetChecklistItemPublished(u, i, publish)
    PROVE  Tab(u)'
<1> USE DEF TInv, IInv, TypeOK
<1>1. CASE ApproveFinalCut(u)
  BY <1>1 DEF ApproveFinalCut, Start, Unbuilt, NoRequest, Tab, Stands, Copied, Toggling, Building
<1>2. CASE RequestRerender(u)
  BY <1>2 DEF RequestRerender, Start, NoRequest, Tab, Stands, Copied, Toggling, Building
<1>3. ASSUME NEW i \in Item, NEW publish \in BOOLEAN, SetChecklistItemPublished(u, i, publish)
      PROVE  Tab(u)'
  BY <1>3 DEF SetChecklistItemPublished, Start, NoRequest, Tab, Stands, Copied, Toggling, Building
<1> QED
  BY <1>1, <1>2, <1>3

LEMMA BuildStep ==
    ASSUME TInv, NEW u \in Users,
           BuildLoad(u) \/ CopyLong(u) \/ CopyShort(u) \/ UpsertChecklistItem(u) \/ BuildFails(u)
    PROVE  Tab(u)'
<1> USE Numbers DEF TInv, IInv, TypeOK
<1>1. Building(u) /\ status = "final_review" /\ status' = status /\ cut' = cut
  BY DEF BuildLoad, CopyLong, CopyShort, UpsertChecklistItem, BuildFails, At, Building, Stands
<1>2. \A i \in Packaged : renders[i] = cut
  BY <1>1 DEF RunnerAgrees
<1>3. CASE BuildLoad(u) \/ BuildFails(u)
  <2>1. handler'[u].op = "approve" /\ handler'[u].pc \in {"long", "block"}
    BY <1>1, <1>3 DEF BuildLoad, BuildFails, GoTo, Building, Request
  <2> QED
    BY <1>1, <2>1 DEF Tab, Stands, Copied, Toggling
<1>4. CASE CopyLong(u)
  <2>1. packages'[YouTube] = cut'
    BY <1>1, <1>2, <1>4 DEF CopyLong, CopyRender
  <2>2. \A j \in 1 .. Shorts : ~(j <= 0)
    OBVIOUS
  <2> QED
    BY <1>1, <1>4, <2>1, <2>2, BuildGoesOn DEF CopyLong
<1>5. CASE CopyShort(u)
  <2>1. handler[u].pc = "copy" /\ handler[u].item \in 1 .. Shorts
    BY <1>1, <1>5 DEF CopyShort, At, Built
  <2>2. /\ handler'[u].op = "approve" /\ handler'[u].pc = "row"
        /\ handler'[u].item = handler[u].item
    BY <1>1, <1>5 DEF CopyShort, GoTo, Building, Request
  <2>3. /\ packages'[handler[u].item] = cut
        /\ \A j \in Packaged : j # handler[u].item => packages'[j] = packages[j]
    BY <1>2, <1>5, <2>1 DEF CopyShort, CopyRender
  <2>4. packages'[YouTube] = cut
    BY <1>1, <2>1, <2>3 DEF Copied
  <2>5. \A j \in 1 .. Shorts : j <= handler[u].item => packages'[j] = cut
    BY <1>1, <2>1, <2>3 DEF Copied
  <2> QED
    BY <1>1, <2>2, <2>4, <2>5 DEF Tab, Stands, Copied, Toggling
<1>6. CASE UpsertChecklistItem(u)
  <2>1. /\ handler[u].pc = "row" /\ handler[u].item \in Item /\ packages' = packages
        /\ AfterRow(u, handler[u].item)
    BY <1>6 DEF UpsertChecklistItem, At, Request
  <2>2. packages'[YouTube] = cut' /\ \A j \in 1 .. Shorts : j <= handler[u].item => packages'[j] = cut'
    BY <1>1, <2>1 DEF Copied
  <2> QED
    BY <1>1, <2>1, <2>2, BuildGoesOn
<1> QED
  BY <1>3, <1>4, <1>5, <1>6

\* The count is taken under the lock of the row, and nobody else seeds one.
LEMMA ToggleStands ==
    ASSUME TInv, NEW u \in Users, ToggleUpdate(u) \/ ToggleCount(u)
    PROVE  Tab(u)'
<1> USE DEF TInv, IInv, TypeOK
<1>1. Toggling(u) /\ status' = status /\ checklist' = checklist
  BY DEF ToggleUpdate, ToggleCount, At, Toggling
<1>2. CASE Finish(u)
  BY <1>2, NothingStands
<1>3. CASE ToggleUpdate(u) /\ GoTo(u, "count")
  <2>1. \A f \in {"op", "item", "publish", "from", "closes"} : handler'[u][f] = handler[u][f]
    BY <1>3 DEF GoTo, Request
  <2>2. Toggled(u)' = Toggled(u)
    BY <1>1, <2>1 DEF Toggled
  <2> QED
    BY <1>1, <2>1, <2>2 DEF Tab, Stands, Copied, Toggling, Building
<1>4. CASE ToggleCount(u)
  <2>1. /\ \A f \in {"op", "item", "publish", "from"} : handler'[u][f] = handler[u][f]
        /\ handler'[u].closes = /\ \A i \in Item : Toggled(u)[i] # "open"
                                /\ handler[u].from = "final_review"
                                /\ handler[u].publish
    BY <1>4 DEF ToggleCount, Request
  <2>2. Toggled(u)' = Toggled(u)
    BY <1>1, <2>1 DEF Toggled
  <2> QED
    BY <1>1, <2>1, <2>2 DEF Tab, Stands, Copied, Toggling, Building
<1> QED
  BY <1>2, <1>3, <1>4 DEF ToggleUpdate

LEMMA RequestEnds ==
    ASSUME TInv, NEW u \in Users,
           BuildCommit(u) \/ BlockVideo(u) \/ ToggleCommit(u) \/ RerenderCommit(u) \/ Abort(u)
    PROVE  Tab(u)'
BY NothingStands DEF TInv, IInv, TypeOK, BuildCommit, BlockVideo, ToggleCommit, RerenderCommit, Abort

\* What the runner does while a request is under way, it does not do to a review.
LEMMA RunnerLetsStand ==
    ASSUME TInv, RenderStarts \/ RenderDone \/ Rearm \/ \E i \in Packaged : RenderUploaded(i),
           NEW u \in Users
    PROVE  Tab(u)'
<1> USE DEF TInv
<1>1. UNCHANGED <<checklist, packages, handler>>
  BY DEF RenderStarts, RenderDone, Rearm, RenderUploaded
<1>2. Toggled(u)' = Toggled(u)
  BY <1>1 DEF Toggled
<1>3. status = "final_review" => status' = status
  BY DEF RenderStarts, RenderDone, Rearm, RenderUploaded
<1>4. Stands(u)'
  BY <1>1, <1>2, <1>3 DEF Stands, Toggling
<1>5. Building(u) => cut' = cut
  BY DEF RenderStarts, RenderDone, Rearm, RenderUploaded, Stands, Building
<1>6. Copied(u)'
  BY <1>1, <1>5 DEF Copied, Building
<1> QED
  BY <1>4, <1>6 DEF Tab

LEMMA InitTInv == Init => TInv
<1> SUFFICES ASSUME Init
             PROVE  TInv
  OBVIOUS
<1>1. IInv
  BY InitIInv
<1>2. RunnerAgrees
  BY DEF Init, RunnerAgrees
<1>3. \A u \in Users : Stands(u) /\ Copied(u)
  BY DEF Init, NoRequest, Stands, Copied, Toggling, Building
<1> QED
  BY <1>1, <1>2, <1>3 DEF TInv

LEMMA NextTInv ==
    ASSUME OneTab
    PROVE  TInv /\ [Next]_vars => TInv'
<1> SUFFICES ASSUME TInv, [Next]_vars
             PROVE  TInv'
  OBVIOUS
<1>1. IInv' /\ RunnerAgrees'
  BY NextIInv, RunnerStepAgrees DEF TInv
<1>2. ASSUME NEW u \in Users
      PROVE  Tab(u)'
  <2>1. ASSUME NEW t \in Users, Tab(t)'
        PROVE  Tab(u)'
    BY <2>1 DEF OneTab
  <2>2. CASE UNCHANGED vars
    BY <2>2 DEF vars, TInv, Tab, Stands, Copied, Toggling, Building, Toggled
  <2> QED
    BY <2>1, <2>2, RequestBegins, BuildStep, ToggleStands, RequestEnds, RunnerLetsStand
       DEF Next, HandlerStep
<1> QED
  BY <1>1, <1>2 DEF TInv, Tab

-----------------------------------------------------------------------------
(* The theorems *)

\* The inductive invariant of a release with one tab.
THEOREM TabInvariant ==
    ASSUME OneTab
    PROVE  Spec => []TInv
BY InitTInv, NextTInv, PTL DEF Spec

\* "released é terminal" (docs/tasks/05-montagem/S5-11-release-checklist-ui.md:45): no
\* request that was checked before the release finds the video released when it commits.
THEOREM ReleasedStays ==
    ASSUME OneTab
    PROVE  Spec => ReleasedIsFinal
<1>1. TInv /\ [Next]_vars => [status = "released" => status' = "released"]_vars
  BY StatusMoves
<1> QED
  BY <1>1, TabInvariant, PTL DEF Spec, ReleasedIsFinal

\* A build that comes to its end has copied the latest cut, and nothing but it.
THEOREM BuildsAreOfOneCut ==
    ASSUME OneTab
    PROVE  Spec => PackagesOfOneCut
<1>1. TInv => \A u \in Users : BuildCommit(u) => \A i \in Packaged : packages[i] = cut
  BY Numbers DEF TInv, Copied, BuildCommit, At, Building
<1>2. TInv /\ [Next]_vars => [\A u \in Users : BuildCommit(u) => \A i \in Packaged : packages[i] = cut]_vars
  BY <1>1
<1> QED
  BY <1>2, TabInvariant, PTL DEF Spec, PackagesOfOneCut

\* The release implements the canonical state machine of the video ("Every status change in
\* the system MUST go through this package", domain/videostate/state.go:2).
THEOREM ReleaseFollowsLifecycle ==
    ASSUME OneTab
    PROVE  Spec => FollowsLifecycle
<1>1. Init => Lifecycle!Init
  BY DEF Init, Lifecycle!Init, Lifecycle!State
<1>2. TInv /\ [Next]_vars => [Lifecycle!Next]_status
  BY StatusMoves
     DEF Lifecycle!Next, Lifecycle!Move, Lifecycle!CanTransition, Lifecycle!Edges,
         Lifecycle!ChainEdges, Lifecycle!ReverseEdges, Lifecycle!BlockEdges, Lifecycle!State
<1> QED
  BY <1>1, <1>2, TabInvariant, PTL DEF Spec, FollowsLifecycle, Lifecycle!Spec
=============================================================================
