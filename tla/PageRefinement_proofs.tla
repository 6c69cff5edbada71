----------------------- MODULE PageRefinement_proofs -----------------------
(***************************************************************************)
(* PageLifecycle implements PageCatalog.  Every step of the write side     *)
(* changes what the catalog knows of at most one slug (Moves), and changes *)
(* it as one of the catalog's actions does.                                *)
(***************************************************************************)
EXTENDS PageLifecycle_proofs

\* What the catalog knows of slug t stays as it is.
Kept(t) ==
    /\ status'[t] = status[t]
    /\ t \in gone' <=> t \in gone
    /\ \A prefix \in Sides, f \in Files :
          <<prefix, t, f>> \in bucket' <=> <<prefix, t, f>> \in bucket

\* The state, files and visible files of slug s become a, F and V, and nothing
\* else changes.
Moves(s, a, F, V) ==
    /\ CatalogState' = [CatalogState EXCEPT ![s] = a]
    /\ CatalogFiles' = [CatalogFiles EXCEPT ![s] = F]
    /\ CatalogVisible' = [CatalogVisible EXCEPT ![s] = V]

CatalogStep == [Catalog!CatalogNext]_(Catalog!catalog)

\* The state of a slug by its row, under the invariant.
Named(s) ==
    /\ s \in gone <=> CatalogState[s] = "removed"
    /\ status[s] = NoRow /\ s \notin gone <=> CatalogState[s] = "unused"
    /\ status[s] = "live" <=> CatalogState[s] = "public"
    /\ status[s] = "parking" <=> CatalogState[s] = "hiding"
    /\ status[s] = "parked" <=> CatalogState[s] = "hidden"
    /\ status[s] = "unparking" <=> CatalogState[s] = "showing"
    /\ status[s] = "deleting" <=> CatalogState[s] = "removing"
    /\ CatalogVisible[s] = Under("live", s)
    /\ CatalogFiles[s] = IF status[s] = NoRow THEN {}
                         ELSE Under("live", s) \cup Under("parked", s)

\* What the catalog sees of a slug is read off its row and its objects.
LEMMA Names == IInv => \A s \in Slugs : Named(s)
<1> SUFFICES ASSUME IInv, NEW s \in Slugs PROVE Named(s) OBVIOUS
<1>1. /\ s \in gone => status[s] = NoRow
      /\ status[s] \in {"live", "parking", "parked", "unparking", "deleting", "none"}
  BY DEF IInv, TypeOK, Page, Statuses, Settled, Transient, NoRow
<1>2. CASE s \in gone
  BY <1>1, <1>2 DEF Named, CatalogState, CatalogVisible, CatalogFiles, NoRow
<1>3. CASE s \notin gone
  BY <1>1, <1>3 DEF Named, CatalogState, StateOf, CatalogVisible, CatalogFiles, NoRow
<1> QED BY <1>2, <1>3

\* The same in the state after a step.
LEMMA NamesNext == IInv' => (\A s \in Slugs : Named(s))'
  BY Names, PTL

\* A step that changes neither objects nor statuses is a stutter of the catalog.
LEMMA Silent ==
    ASSUME UNCHANGED <<bucket, status, gone>> PROVE CatalogStep
  BY DEF CatalogStep, Catalog!catalog, CatalogState, CatalogFiles, CatalogVisible, Under

\* A step that changes one slug moves it.
LEMMA OneSlug ==
    ASSUME IInv, NEW s \in Slugs, \A t \in Slugs \ {s} : Kept(t)
    PROVE  Moves(s, CatalogState'[s], CatalogFiles'[s], CatalogVisible'[s])
<1>1. \A t \in Slugs \ {s} : /\ Under("live", t)' = Under("live", t)
                             /\ Under("parked", t)' = Under("parked", t)
  BY DEF Kept, Under, Sides
<1>2. \A t \in Slugs \ {s} : CatalogState'[t] = CatalogState[t]
  BY DEF Kept, CatalogState
<1>3. \A t \in Slugs \ {s} : CatalogFiles'[t] = CatalogFiles[t]
  BY <1>1 DEF Kept, CatalogFiles
<1>4. \A t \in Slugs \ {s} : CatalogVisible'[t] = CatalogVisible[t]
  BY <1>1 DEF CatalogVisible
<1>5. CatalogState' = [t \in Slugs |-> CatalogState'[t]]
      /\ CatalogState = [t \in Slugs |-> CatalogState[t]]
  BY DEF CatalogState
<1>6. CatalogFiles' = [t \in Slugs |-> CatalogFiles'[t]]
      /\ CatalogFiles = [t \in Slugs |-> CatalogFiles[t]]
  BY DEF CatalogFiles
<1>7. CatalogVisible' = [t \in Slugs |-> CatalogVisible'[t]]
      /\ CatalogVisible = [t \in Slugs |-> CatalogVisible[t]]
  BY DEF CatalogVisible
<1>8. CatalogState' = [CatalogState EXCEPT ![s] = CatalogState'[s]] BY <1>2, <1>5
<1>9. CatalogFiles' = [CatalogFiles EXCEPT ![s] = CatalogFiles'[s]] BY <1>3, <1>6
<1>10. CatalogVisible' = [CatalogVisible EXCEPT ![s] = CatalogVisible'[s]] BY <1>4, <1>7
<1> QED BY <1>8, <1>9, <1>10 DEF Moves

\* How one step may move a slug: the actions of the catalog, by what they change.
Legal(s, a, F, V) ==
    LET st == CatalogState[s]
        fs == CatalogFiles[s]
        vs == CatalogVisible[s]
    IN
    \/ a = st /\ F = fs /\ V = vs
    \/ st = "unused" /\ a = st /\ F = fs /\ V \subseteq Files
    \/ st = "unused" /\ a = "public" /\ F = vs /\ V = vs /\ vs # {}
    \/ st = "public" /\ a \in {"hiding", "removing"} /\ F = fs /\ V = vs
    \/ st = "hidden" /\ a \in {"showing", "removing"} /\ F = fs /\ V = vs
    \/ st = "hiding" /\ a = st /\ F = fs /\ V \subseteq vs
    \/ st = "showing" /\ a = st /\ F = fs /\ vs \subseteq V /\ V \subseteq fs
    \/ st = "hiding" /\ a = "hidden" /\ F = fs /\ V = vs /\ vs = {}
    \/ st = "showing" /\ a = "public" /\ F = fs /\ V = vs /\ vs = fs
    \/ st = "removing" /\ a = st /\ F \subseteq fs /\ V \subseteq vs
    \/ st = "removing" /\ a = "removed" /\ F = fs /\ V = vs /\ fs = {} /\ vs = {}

\* Each way of moving is an action of the catalog, or a stutter.
LEMMA LegalStep ==
    ASSUME NEW s \in Slugs, NEW a, NEW F, NEW V, Moves(s, a, F, V), Legal(s, a, F, V)
    PROVE  CatalogStep
<1> DEFINE st == CatalogState[s]
           fs == CatalogFiles[s]
           vs == CatalogVisible[s]
<1>1. /\ CatalogState' = [CatalogState EXCEPT ![s] = a]
      /\ CatalogFiles' = [CatalogFiles EXCEPT ![s] = F]
      /\ CatalogVisible' = [CatalogVisible EXCEPT ![s] = V]
  BY DEF Moves
<1>2. /\ a = st => CatalogState' = CatalogState
      /\ F = fs => CatalogFiles' = CatalogFiles
      /\ V = vs => CatalogVisible' = CatalogVisible
  <2>1. CatalogState = [t \in Slugs |-> CatalogState[t]] BY DEF CatalogState
  <2>2. CatalogFiles = [t \in Slugs |-> CatalogFiles[t]] BY DEF CatalogFiles
  <2>3. CatalogVisible = [t \in Slugs |-> CatalogVisible[t]] BY DEF CatalogVisible
  <2> QED BY <1>1, <2>1, <2>2, <2>3
<1>3. /\ Catalog!Publish(s) => CatalogStep
      /\ Catalog!Begin(s) => CatalogStep
      /\ Catalog!Hide(s) => CatalogStep
      /\ Catalog!Show(s) => CatalogStep
      /\ Catalog!End(s) => CatalogStep
      /\ Catalog!Remove(s) => CatalogStep
      /\ Catalog!Removed(s) => CatalogStep
      /\ Catalog!Fragment(s) => CatalogStep
  BY DEF CatalogStep, Catalog!CatalogNext
<1>4. CASE a = st /\ F = fs /\ V = vs
  BY <1>2, <1>4 DEF CatalogStep, Catalog!catalog
<1>5. CASE st = "unused" /\ a = st /\ F = fs /\ V \subseteq Files
  BY <1>1, <1>2, <1>3, <1>5 DEF Catalog!Fragment
<1>6. CASE st = "unused" /\ a = "public" /\ F = vs /\ V = vs /\ vs # {}
  BY <1>1, <1>2, <1>3, <1>6 DEF Catalog!Publish
<1>7. CASE /\ st = "public" /\ a \in {"hiding", "removing"}
           /\ F = fs /\ V = vs
  BY <1>1, <1>2, <1>3, <1>7 DEF Catalog!Begin, Catalog!Successors
<1>8. CASE /\ st = "hidden" /\ a \in {"showing", "removing"}
           /\ F = fs /\ V = vs
  BY <1>1, <1>2, <1>3, <1>8 DEF Catalog!Begin, Catalog!Successors
<1>9. CASE st = "hiding" /\ a = st /\ F = fs /\ V \subseteq vs
  BY <1>1, <1>2, <1>3, <1>9 DEF Catalog!Hide
<1>10. CASE st = "showing" /\ a = st /\ F = fs /\ vs \subseteq V /\ V \subseteq fs
  BY <1>1, <1>2, <1>3, <1>10 DEF Catalog!Show
<1>11. CASE st = "hiding" /\ a = "hidden" /\ F = fs /\ V = vs /\ vs = {}
  BY <1>1, <1>2, <1>3, <1>11 DEF Catalog!End, Catalog!Successors
<1>12. CASE st = "showing" /\ a = "public" /\ F = fs /\ V = vs /\ vs = fs
  BY <1>1, <1>2, <1>3, <1>12 DEF Catalog!End, Catalog!Successors
<1>13. CASE st = "removing" /\ a = st /\ F \subseteq fs /\ V \subseteq vs
  BY <1>1, <1>2, <1>3, <1>13 DEF Catalog!Remove
<1>14. CASE /\ st = "removing" /\ a = "removed"
            /\ F = fs /\ V = vs /\ fs = {} /\ vs = {}
  BY <1>1, <1>2, <1>3, <1>14 DEF Catalog!Removed, Catalog!Successors
<1> QED
  BY <1>4, <1>5, <1>6, <1>7, <1>8, <1>9, <1>10, <1>11, <1>12, <1>13, <1>14 DEF Legal

\* Hence: a step that changes one slug, legally, is a step of the catalog.
LEMMA SlugStep ==
    ASSUME IInv, NEW s \in Slugs, \A t \in Slugs \ {s} : Kept(t),
           Legal(s, CatalogState'[s], CatalogFiles'[s], CatalogVisible'[s])
    PROVE  CatalogStep
  BY OneSlug, LegalStep

-----------------------------------------------------------------------------
(* Steps that change objects, by the status of their slug.                 *)

\* Objects come and go under a slug that has no row.
LEMMA FragmentMoves ==
    ASSUME IInv, IInv', NEW s \in Slugs, \A t \in Slugs \ {s} : Kept(t),
           status[s] = NoRow, s \notin gone, UNCHANGED <<status, gone>>
    PROVE  CatalogStep
<1>1. Named(s) /\ Named(s)' BY Names, NamesNext
<1>2. /\ CatalogState[s] = "unused" /\ CatalogState'[s] = "unused"
      /\ CatalogFiles[s] = {} /\ CatalogFiles'[s] = {}
      /\ CatalogVisible'[s] \subseteq Files
  BY <1>1 DEF Named, Under
<1> QED BY <1>2, SlugStep DEF Legal

\* A toggle moves objects: its page keeps all its files, and what a visitor can
\* fetch shrinks or grows as it should.
LEMMA ToggleMoves ==
    ASSUME IInv, IInv', NEW s \in Slugs, \A t \in Slugs \ {s} : Kept(t),
           UNCHANGED <<status, manifest, gone>>,
           \/ status[s] = "parking"
              /\ \A f \in Files : <<"live", s, f>> \in bucket' => <<"live", s, f>> \in bucket
           \/ status[s] = "unparking"
              /\ \A f \in Files : <<"live", s, f>> \in bucket => <<"live", s, f>> \in bucket'
    PROVE  CatalogStep
<1>1. Named(s) /\ Named(s)' BY Names, NamesNext
<1>2. Page(s) /\ Page(s)' /\ manifest[s] \subseteq Files BY DEF IInv, TypeOK
<1>3. status[s] \in {"parking", "unparking"} /\ status[s] # NoRow BY DEF NoRow
<1>4. /\ CatalogFiles[s] = Under("live", s) \cup Under("parked", s)
      /\ CatalogFiles'[s] = Under("live", s)' \cup Under("parked", s)'
  BY <1>1, <1>3 DEF Named
<1>5. CatalogFiles[s] = manifest[s] /\ CatalogFiles'[s] = manifest[s]
  BY <1>2, <1>3, <1>4 DEF Page, Has, Under
<1>6. CatalogVisible[s] = Under("live", s) /\ CatalogVisible'[s] = Under("live", s)'
  BY <1>1 DEF Named
<1>7. CASE status[s] = "parking"
  <2>1. CatalogState[s] = "hiding" /\ CatalogState'[s] = "hiding" BY <1>1, <1>7 DEF Named
  <2>2. CatalogVisible'[s] \subseteq CatalogVisible[s] BY <1>6, <1>7 DEF Under
  <2> QED BY <1>5, <2>1, <2>2, SlugStep DEF Legal
<1>8. CASE status[s] = "unparking"
  <2>1. CatalogState[s] = "showing" /\ CatalogState'[s] = "showing" BY <1>1, <1>8 DEF Named
  <2>2. /\ CatalogVisible[s] \subseteq CatalogVisible'[s]
        /\ CatalogVisible'[s] \subseteq CatalogFiles'[s]
    BY <1>4, <1>6, <1>8 DEF Under
  <2> QED BY <1>5, <2>1, <2>2, SlugStep DEF Legal
<1> QED BY <1>3, <1>7, <1>8

\* A delete removes objects.
LEMMA DeleteMoves ==
    ASSUME IInv, IInv', NEW s \in Slugs, \A t \in Slugs \ {s} : Kept(t),
           UNCHANGED <<status, gone>>, status[s] = "deleting", bucket' \subseteq bucket
    PROVE  CatalogStep
<1>1. Named(s) /\ Named(s)' BY Names, NamesNext
<1>2. CatalogState[s] = "removing" /\ CatalogState'[s] = "removing" /\ status[s] # NoRow
  BY <1>1 DEF Named, NoRow
<1>3. /\ CatalogFiles'[s] \subseteq CatalogFiles[s]
      /\ CatalogVisible'[s] \subseteq CatalogVisible[s]
  BY <1>1, <1>2 DEF Named, Under
<1> QED BY <1>2, <1>3, SlugStep DEF Legal

\* A row changes its status while the objects stay where they are.
LEMMA StatusMoves ==
    ASSUME IInv, IInv', NEW s \in Slugs, NEW st \in Statuses,
           status' = [status EXCEPT ![s] = st], UNCHANGED <<bucket, manifest, gone>>,
           \/ st = status[s]
           \/ status[s] = "live" /\ st \in {"parking", "deleting"}
           \/ status[s] = "parked" /\ st \in {"unparking", "deleting"}
           \/ status[s] = "parking" /\ st = "parked"
           \/ status[s] = "unparking" /\ st = "live"
    PROVE  CatalogStep
<1>1. Named(s) /\ Named(s)' BY Names, NamesNext
<1>2. Page(s) /\ Page(s)' /\ manifest[s] \subseteq Files BY DEF IInv, TypeOK
<1>3. status'[s] = st /\ st # NoRow /\ \A t \in Slugs \ {s} : Kept(t)
  BY DEF IInv, TypeOK, Statuses, Settled, Transient, NoRow, Kept
<1>4. CASE st = status[s]
  <2>1. UNCHANGED status BY <1>4 DEF IInv, TypeOK
  <2> QED BY <2>1, Silent
<1>5. CASE st # status[s]
  <2>1. status[s] \in Statuses /\ status[s] # NoRow
    BY <1>5 DEF Statuses, Settled, Transient, NoRow
  <2>2. /\ CatalogFiles'[s] = CatalogFiles[s] /\ CatalogVisible'[s] = CatalogVisible[s]
        /\ CatalogVisible[s] = Under("live", s)
        /\ CatalogFiles[s] = Under("live", s) \cup Under("parked", s)
    BY <1>1, <1>3, <2>1 DEF Named, Under
  <2>3. CASE status[s] = "live" /\ st \in {"parking", "deleting"}
    <3>1. CatalogState[s] = "public" /\ CatalogState'[s] \in {"hiding", "removing"}
      BY <1>1, <1>3, <2>3 DEF Named
    <3> QED BY <1>3, <2>2, <3>1, SlugStep DEF Legal
  <2>4. CASE status[s] = "parked" /\ st \in {"unparking", "deleting"}
    <3>1. CatalogState[s] = "hidden" /\ CatalogState'[s] \in {"showing", "removing"}
      BY <1>1, <1>3, <2>4 DEF Named
    <3> QED BY <1>3, <2>2, <3>1, SlugStep DEF Legal
  <2>5. CASE status[s] = "parking" /\ st = "parked"
    <3>1. CatalogState[s] = "hiding" /\ CatalogState'[s] = "hidden"
      BY <1>1, <1>3, <2>5 DEF Named
    <3>2. CatalogVisible[s] = {}
      BY <1>2, <1>3, <2>2, <2>5 DEF Page, Has, Under, Settled, Other
    <3> QED BY <1>3, <2>2, <3>1, <3>2, SlugStep DEF Legal
  <2>6. CASE status[s] = "unparking" /\ st = "live"
    <3>1. CatalogState[s] = "showing" /\ CatalogState'[s] = "public"
      BY <1>1, <1>3, <2>6 DEF Named
    <3>2. CatalogVisible[s] = CatalogFiles[s]
      BY <1>2, <1>3, <2>2, <2>6 DEF Page, Has, Under, Settled, Other
    <3> QED BY <1>3, <2>2, <3>1, <3>2, SlugStep DEF Legal
  <2> QED BY <1>5, <2>3, <2>4, <2>5, <2>6
<1> QED BY <1>4, <1>5

-----------------------------------------------------------------------------
(* The actions.                                                            *)

\* Upload: a put is invisible to the catalog, the insert publishes the files.
LEMMA UploadMoves ==
    ASSUME IInv, IInv', NEW p \in Procs, Put(p) \/ PutError(p) \/ Insert(p)
    PROVE  CatalogStep
<1>1. pc[p] \in {"put", "insert"} BY DEF Put, PutError, Insert, At
<1>2. PICK s \in Slugs : s = Slug(p) BY <1>1 DEF IInv, Control
<1>3. Uploading(p) BY <1>1 DEF IInv, Control, Uploading
<1>4. /\ status[s] = NoRow /\ s \notin gone
      /\ pc[p] = "insert" => \A f \in Pack(p) : <<"live", s, f>> \in bucket
      /\ \A f \in Files : <<"live", s, f>> \in bucket => f \in Pack(p)
      /\ Index \in Pack(p) /\ Pack(p) \subseteq Files
  BY <1>2, <1>3
  DEF IInv, UploadProgress, Has, Control, Uploading, TypeOK, Requests, Pack
<1>5. CASE Put(p) \/ PutError(p)
  <2>1. UNCHANGED <<status, gone>> BY <1>5 DEF Put, PutError, rows
  <2>2. PICK f : bucket' = bucket \/ bucket' = bucket \cup {<<"live", s, f>>}
    BY <1>2, <1>5 DEF Put, PutError
  <2>3. \A t \in Slugs \ {s} : Kept(t) BY <2>1, <2>2 DEF Kept
  <2> QED BY <1>4, <2>1, <2>3, FragmentMoves
<1>6. CASE Insert(p)
  <2>1. /\ status' = [status EXCEPT ![s] = "live"] /\ UNCHANGED <<bucket, gone>>
        /\ pc[p] = "insert"
    BY <1>2, <1>4, <1>6 DEF Insert, At
  <2>2. status'[s] = "live" /\ \A t \in Slugs \ {s} : Kept(t)
    BY <2>1 DEF Kept, IInv, TypeOK
  <2>3. Named(s) /\ Named(s)' BY Names, NamesNext
  <2>4. Page(s) BY DEF IInv
  <2>5. Under("live", s)' = Under("live", s) /\ Under("parked", s)' = {}
    BY <1>4, <2>1, <2>4 DEF Under, Page, Has
  <2>6. Index \in Under("live", s) BY <1>4, <2>1 DEF Under
  <2>7. CatalogState[s] = "unused" /\ CatalogState'[s] = "public"
    BY <1>4, <2>2, <2>3 DEF Named
  <2>8. /\ CatalogVisible[s] = Under("live", s) /\ CatalogVisible'[s] = Under("live", s)
        /\ CatalogFiles'[s] = Under("live", s)
    BY <2>2, <2>3, <2>5 DEF Named, NoRow
  <2> QED BY <2>2, <2>6, <2>7, <2>8, SlugStep DEF Legal
<1> QED BY <1>5, <1>6

\* The copies of a park or an unpark move no file of the page, only what is visible.
LEMMA CopyMoves ==
    ASSUME IInv, IInv', NEW p \in Procs, CopyOne(p) \/ CopyOneError(p)
    PROVE  CatalogStep
<1>1. pc[p] = "copying" /\ UNCHANGED <<status, manifest, gone>>
  BY DEF CopyOne, CopyOneError, At, rows
<1>2. PICK s \in Slugs : s = Slug(p) BY <1>1 DEF IInv, Control
<1>3. Job(p) \in Toggles /\ Working(p) /\ status[s] = Intent(Job(p))
  BY <1>1, <1>2 DEF IInv, Control, WorkProgress, Working, Holding, Toggles
<1>4. PICK f : bucket' = bucket \/ bucket' = bucket \cup Copied(p, f)
  BY DEF CopyOne, CopyOneError
<1>5. Copied(p, f) \subseteq {<<Other(Source(Job(p))), s, g>> : g \in {f}}
  BY <1>2 DEF Copied
<1>6. \A t \in Slugs \ {s} : Kept(t) BY <1>1, <1>4, <1>5 DEF Kept
<1>7. CASE Job(p) = "park"
  <2>1. status[s] = "parking" /\ Other(Source(Job(p))) = "parked"
    BY <1>3, <1>7 DEF Intent, Source, Other
  <2>2. \A g \in Files : <<"live", s, g>> \in bucket' => <<"live", s, g>> \in bucket
    BY <1>4, <1>5, <2>1
  <2> QED BY <1>1, <1>6, <2>1, <2>2, ToggleMoves
<1>8. CASE Job(p) = "unpark"
  <2>1. status[s] = "unparking" BY <1>3, <1>8 DEF Intent
  <2>2. \A g \in Files : <<"live", s, g>> \in bucket => <<"live", s, g>> \in bucket'
    BY <1>4
  <2> QED BY <1>1, <1>6, <2>1, <2>2, ToggleMoves
<1> QED BY <1>3, <1>7, <1>8 DEF Toggles

\* The deletes at the end of a park, an unpark or a delete take away only what
\* the page's state has given up.
LEMMA WipeMoves ==
    ASSUME IInv, IInv', NEW p \in Procs, WipeOne(p) \/ WipeError(p)
    PROVE  CatalogStep
<1>1. pc[p] \in {"wipe", "wiping"} /\ UNCHANGED <<status, manifest, gone>>
  BY DEF WipeOne, WipeError, At, rows
<1>2. PICK s \in Slugs : s = Slug(p) BY <1>1 DEF IInv, Control
<1>3. PICK f : bucket' = bucket \/ bucket' = bucket \ {<<side[p], s, f>>}
  BY <1>2 DEF WipeOne, WipeError
<1>4. bucket' \subseteq bucket /\ \A t \in Slugs \ {s} : Kept(t)
  BY <1>1, <1>3 DEF Kept
<1>5. CASE Job(p) = "upload"
  <2>1. status[s] = NoRow /\ s \notin gone
    BY <1>1, <1>2, <1>5 DEF IInv, UploadProgress, Uploading
  <2> QED BY <1>1, <1>4, <2>1, FragmentMoves
<1>6. CASE Job(p) = "delete"
  <2>1. status[s] = "deleting"
    BY <1>1, <1>2, <1>6 DEF IInv, WorkProgress, Working, Holding, Intent
  <2> QED BY <1>1, <1>4, <2>1, DeleteMoves
<1>7. CASE Job(p) \in Toggles
  <2>1. /\ status[s] = Intent(Job(p)) /\ side[p] = Source(Job(p))
    BY <1>1, <1>2, <1>7 DEF IInv, WorkProgress, Working, Holding, Toggles
  <2>2. CASE Job(p) = "park"
    <3>1. status[s] = "parking" BY <2>1, <2>2 DEF Intent
    <3>2. \A g \in Files : <<"live", s, g>> \in bucket' => <<"live", s, g>> \in bucket
      BY <1>4
    <3> QED BY <1>1, <1>4, <3>1, <3>2, ToggleMoves
  <2>3. CASE Job(p) = "unpark"
    <3>1. status[s] = "unparking" /\ side[p] = "parked"
      BY <2>1, <2>3 DEF Intent, Source
    <3>2. \A g \in Files : <<"live", s, g>> \in bucket => <<"live", s, g>> \in bucket'
      BY <1>3, <3>1
    <3> QED BY <1>1, <1>4, <3>1, <3>2, ToggleMoves
  <2> QED BY <1>7, <2>2, <2>3 DEF Toggles
<1>8. Job(p) \in Jobs BY DEF IInv, TypeOK, Requests, Job
<1> QED BY <1>5, <1>6, <1>7, <1>8 DEF Jobs

\* Mark and Settle move the state of the page along its lifecycle.
LEMMA RowMoves ==
    ASSUME IInv, IInv', NEW p \in Procs,
           Mark(p) \/ MarkError(p) \/ Settle(p) \/ SettleError(p)
    PROVE  CatalogStep
<1>1. /\ pc[p] \in {"mark", "settle"} /\ UNCHANGED <<bucket, manifest, gone>>
      /\ pc[p] = "settle" <=> Settle(p) \/ SettleError(p)
  BY DEF Mark, MarkError, Settle, SettleError, At
<1>2. PICK s \in Slugs : s = Slug(p) BY <1>1 DEF IInv, Control
<1>3. /\ Job(p) \in {"park", "unpark", "delete"}
      /\ pc[p] = "settle" => Job(p) \in Toggles
  BY <1>1 DEF IInv, Control, TypeOK, Requests, Job, Jobs, Toggles
<1>4. CASE UNCHANGED status BY <1>1, <1>4, Silent
<1>5. CASE ~UNCHANGED status /\ pc[p] = "mark"
  <2>1. /\ status' = [status EXCEPT ![s] = Intent(Job(p))]
        /\ status[s] \in Prev(Job(p))
    BY <1>1, <1>2, <1>5 DEF Mark, MarkError
  <2>2. Intent(Job(p)) \in Statuses BY <1>3 DEF Intent, Statuses, Transient
  <2>3. \/ Intent(Job(p)) = status[s]
        \/ status[s] = "live" /\ Intent(Job(p)) \in {"parking", "deleting"}
        \/ status[s] = "parked" /\ Intent(Job(p)) \in {"unparking", "deleting"}
    BY <1>3, <2>1 DEF Prev, Intent
  <2> HIDE DEF Intent
  <2> QED BY <1>1, <2>1, <2>2, <2>3, StatusMoves
<1>6. CASE ~UNCHANGED status /\ pc[p] = "settle"
  <2>1. /\ status' = [status EXCEPT ![s] = Done(Job(p))]
        /\ status[s] = Intent(Job(p))
    BY <1>1, <1>2, <1>6 DEF Settle, SettleError
  <2>2. Done(Job(p)) \in Statuses BY DEF Done, Statuses, Settled
  <2>3. \/ status[s] = "parking" /\ Done(Job(p)) = "parked"
        \/ status[s] = "unparking" /\ Done(Job(p)) = "live"
    BY <1>3, <1>6, <2>1 DEF Done, Intent, Toggles
  <2> QED BY <1>1, <2>1, <2>2, <2>3, StatusMoves
<1> QED BY <1>1, <1>4, <1>5, <1>6

\* Removing the row of a deleted page is the last move of its slug.
LEMMA DropMoves ==
    ASSUME IInv, IInv', NEW p \in Procs, Drop(p) \/ DropError(p)
    PROVE  CatalogStep
<1>1. pc[p] = "drop" /\ UNCHANGED bucket BY DEF Drop, DropError, At
<1>2. PICK s \in Slugs : s = Slug(p) BY <1>1 DEF IInv, Control
<1>3. /\ status[s] = "deleting"
      /\ \A f \in Files : <<"live", s, f>> \notin bucket /\ <<"parked", s, f>> \notin bucket
  BY <1>1, <1>2 DEF IInv, Control, WorkProgress, Working, Holding, Intent, Has
<1>4. CASE UNCHANGED <<status, gone>> BY <1>1, <1>4, Silent
<1>5. CASE RemoveRow(Slug(p))
  <2>1. /\ status'[s] = NoRow /\ s \in gone'
        /\ \A t \in Slugs \ {s} : Kept(t)
    BY <1>1, <1>2, <1>3, <1>5 DEF RemoveRow, Kept, IInv, TypeOK, NoRow
  <2>2. Named(s) /\ Named(s)' BY Names, NamesNext
  <2>3. CatalogState[s] = "removing" /\ CatalogState'[s] = "removed"
    BY <1>3, <2>1, <2>2 DEF Named
  <2>4. Under("live", s) = {} /\ Under("parked", s) = {} /\ Under("live", s)' = {}
    BY <1>1, <1>3 DEF Under
  <2>5. /\ CatalogFiles[s] = {} /\ CatalogFiles'[s] = {}
        /\ CatalogVisible[s] = {} /\ CatalogVisible'[s] = {}
    BY <1>3, <2>1, <2>2, <2>4 DEF Named, NoRow
  <2> QED BY <2>1, <2>3, <2>5, SlugStep DEF Legal
<1> QED BY <1>4, <1>5 DEF Drop, DropError

\* Every step of the write side is a step of the catalog or a stutter.
LEMMA NextSimulates == ASSUME IInv, [Next]_vars PROVE CatalogStep
<1>1. IInv' BY NextSafe
<1>2. CASE \E w \in Workers : Request(w)
  BY <1>2, Silent DEF Request, RequestLifecycle, RequestUpload, Arrive, rows
<1>3. ASSUME NEW p \in Procs, Work(p) \/ Failure(p) PROVE CatalogStep
  <2>1. CASE \/ Put(p) \/ PutError(p) \/ Insert(p) \/ CopyOne(p) \/ CopyOneError(p)
             \/ WipeOne(p) \/ WipeError(p) \/ Mark(p) \/ MarkError(p) \/ Settle(p)
             \/ SettleError(p) \/ Drop(p) \/ DropError(p)
    BY <1>1, <2>1, UploadMoves, CopyMoves, WipeMoves, RowMoves, DropMoves
  <2>2. CASE Alloc(p) \/ AllocError(p) \/ Ingest(p) \/ IngestReject(p) \/ InsertError(p)
    BY <2>2, Silent DEF Alloc, AllocError, Ingest, IngestReject, InsertError, rows
  <2>3. CASE Lock(p) \/ Ask(p) \/ AskError(p)
    BY <2>3, Silent DEF Lock, Ask, AskError, rows
  <2>4. CASE CopyList(p) \/ CopyListError(p) \/ CopyDone(p) \/ WipeList(p) \/ WipeDone(p)
    BY <2>4, Silent DEF CopyList, CopyListError, CopyDone, WipeList, WipeDone, rows
  <2> QED
    BY <1>3, <2>1, <2>2, <2>3, <2>4
    DEF Work, Failure, UploadStep, DriverStep, RowStep
<1>4. CASE Start \/ Resume \/ Listen \/ Crash
  BY <1>4, Silent DEF Start, Resume, Listen, Crash, rows
<1>5. CASE UNCHANGED vars BY <1>5, Silent DEF vars, rows
<1> QED BY <1>2, <1>3, <1>4, <1>5 DEF Next

\* An empty database and an empty bucket are the catalog's initial state.
LEMMA InitSimulates == Init => Catalog!CatalogInit
<1> SUFFICES ASSUME Init PROVE Catalog!CatalogInit OBVIOUS
<1>1. \A s \in Slugs : s \notin gone /\ status[s] = NoRow /\ Under("live", s) = {}
  BY DEF Init, Under
<1>2. CatalogState = [s \in Slugs |-> "unused"] BY <1>1 DEF CatalogState, StateOf, NoRow
<1>3. CatalogFiles = [s \in Slugs |-> {}] BY <1>1 DEF CatalogFiles
<1>4. CatalogVisible = [s \in Slugs |-> {}] BY <1>1 DEF CatalogVisible
<1> QED BY <1>2, <1>3, <1>4 DEF Catalog!CatalogInit

\* The write side, with every failure, crash and sweep, implements the catalog: a
\* page is one set of files that parking hides and unparking restores, and
\* that only a delete takes away.
THEOREM WriteSideImplementsCatalog == Spec => ImplementsCatalog
<1>1. IInv /\ [Next]_vars => [Catalog!CatalogNext]_(Catalog!catalog)
  BY NextSimulates DEF CatalogStep
<1> QED
  BY <1>1, Inductive, InitSimulates, PTL DEF Spec, ImplementsCatalog, Catalog!CatalogSpec
=============================================================================
