-------------------------------- MODULE Bake --------------------------------
(***************************************************************************)
(* The ingest pipeline: Pipeline.Process of internal/ingest/pipeline.go    *)
(* with the fetch pool of internal/ingest/fetch.go, inside one attempt of  *)
(* the upload handler, up to its answer.                                   *)
(*                                                                         *)
(* The caller parses the entry, plans every reference it finds, scans      *)
(* stylesheets and fetches what must be baked, in rounds, until there is   *)
(* nothing left; each round is one FetchAll, a goroutine per URL over a    *)
(* shared semaphore and deadline.  It then rewrites the documents, writes  *)
(* the manifest and stores both.                                           *)
(*                                                                         *)
(* What a document says is data: web[d] is the set of references of d, by  *)
(* the identity planIdentity gives them and the form they are written in.  *)
(* Failing objects and rows are in PageLifecycle; here storage and         *)
(* database work, and only the web fails.                                  *)
(***************************************************************************)
EXTENDS Integers, FiniteSets, Sequences, SequencesExt

CONSTANTS
    Urls,       \* absolute URLs that documents name, canonical
    Names,      \* pack-local names, and fragments and the like no pack holds
    Entry,      \* the pack's entry document
    Allowed,    \* URLs whose host is on the keep-external allowlist
    Signed,     \* URLs with signed or expiring query parameters
    Sheets,     \* identities whose path ends in .css, and URLs served as text/css
    StorePath,  \* externalStorePath: scheme, port and query are dropped
    Packs,      \* the sets of files that may be uploaded
    Webs,       \* what the documents may refer to
    Slots       \* the concurrency cap of the fetch pool

Ids == Urls \cup Names
Forms == {"url", "single", "double"}    \* url(..) and attributes; @import '..' and ".."

ASSUME BakeAssumption ==
    /\ Slots \in Nat \ {0}
    /\ Entry \in Names /\ Urls \cap Names = {} /\ IsFiniteSet(Ids)
    /\ Sheets \subseteq Ids \ {Entry}
    /\ DOMAIN StorePath = Urls
    \* a URL keeps the extension of its path
    /\ \A u \in Urls : StorePath[u] \in Sheets => u \in Sheets
    /\ \A pack \in Packs : pack \subseteq Names /\ Entry \in pack
    /\ Webs \subseteq [Ids -> SUBSET [id : Ids, form : Forms]]
    \* what a fetched stylesheet names is resolved against its own URL
    /\ \A w \in Webs, u \in Urls : \A r \in w[u] : r.id \notin UNION Packs

VARIABLES
    imported,   \* whether the entry was fetched from a URL, or uploaded
    pack,       \* the files of the pack
    web,        \* the references of every document
    pc,         \* where Process is
    plan,       \* identity -> what is decided for it
    kept,       \* identities left at their origin, in the order of b.kept
    seen,       \* stylesheets queued so far (cssScanned)
    queue,      \* stylesheets to scan (cssQueue)
    jobs,       \* stylesheets scanned (scannedLocalCSS)
    order,      \* URLs to fetch in the next round (bakeOrder)
    round,      \* URLs of the current round not applied yet
    task,       \* URL -> how far its goroutine is
    slots,      \* slots of the semaphore that are taken
    expired,    \* whether the deadline of the current round has passed
    result,     \* URL -> what FetchAll returned for it
    store,      \* path -> the document or asset stored there
    baked,      \* paths that hold a fetched asset (bakedPaths)
    manifest,   \* the rows of the manifest
    answer,     \* the answer to the upload
    requests    \* URL -> requests sent, for the properties

inputs == <<imported, pack, web>>
caller == <<pc, plan, kept, seen, queue, jobs, order, round, store, baked, manifest, answer>>
pool == <<task, slots, expired, result, requests>>
vars == <<inputs, caller, pool>>

Local(id) == ~imported /\ id \in pack

\* IsSignedURL before ShouldKeep; a local reference without its file is skipped.
Decision(id) ==
    CASE id \in Urls -> IF id \in Allowed \ Signed THEN "kept-cdn" ELSE "bake"
      [] Local(id) -> "local"
      [] OTHER -> "skip"

\* cssRefs reads group 2 or 5 of an @import: the double-quoted form is group 4.
Scanned(d) == {r.id : r \in {s \in web[d] : s.form # "double"}}

\* What is stored, before any rewriting: every file but the entry.
Stored(of) == [of |-> of, rewritten |-> FALSE]

Init ==
    /\ imported \in BOOLEAN
    /\ pack \in IF imported THEN {{Entry}} ELSE Packs
    /\ web \in Webs
    /\ pc = "parse"
    /\ plan = [id \in Ids |-> "none"]
    /\ kept = {} /\ seen = {} /\ queue = <<>> /\ jobs = <<>>
    /\ order = {} /\ round = {}
    /\ task = [u \in Urls |-> "idle"] /\ slots = 0 /\ expired = FALSE
    /\ result = [u \in Urls |-> "none"]
    /\ store = [p \in pack \ {Entry} |-> Stored(p)]
    /\ baked = {} /\ manifest = {} /\ answer = "none"
    /\ requests = [u \in Urls |-> 0]

\* Mutant: a reference is planned each time it is met.
PlanAnew(d) ==
    LET fresh == Scanned(d)
    IN  /\ plan' = [id \in Ids |-> IF id \in fresh THEN Decision(id) ELSE plan[id]]
        /\ order' = order \cup {id \in fresh : Decision(id) = "bake"}
        /\ kept' = kept \cup {id \in fresh : Decision(id) = "kept-cdn"}

(* planFor for every reference of a document: identities that have a plan  *)
(* keep it, the others are decided, queued or ordered.                     *)
Plan(d) ==
    LET fresh == {id \in Scanned(d) : plan[id] = "none"}
    IN  /\ plan' = [id \in Ids |-> IF id \in fresh THEN Decision(id) ELSE plan[id]]
        /\ order' = order \cup {id \in fresh : Decision(id) = "bake"}
        /\ kept' = kept \cup {id \in fresh : Decision(id) = "kept-cdn"}

\* Local stylesheets that are not queued yet.  The entry names its stylesheets as
\* such: a file that only an image, say, calls a stylesheet is not in the model.
Unseen(d) == {id \in Scanned(d) \cap Sheets : Local(id)} \ seen

\* Phase 1: the entry.
ParseEntry ==
    /\ pc = "parse" /\ pc' = "run"
    /\ Plan(Entry)
    /\ seen' = seen \cup Unseen(Entry)
    /\ queue' = queue \o SetToSeq(Unseen(Entry))
    /\ UNCHANGED <<inputs, jobs, round, store, baked, manifest, answer, pool>>

\* Phase 2, the inner loop: the next stylesheet of the queue.
ScanSheet ==
    /\ pc = "run" /\ queue # <<>>
    /\ Plan(Head(queue))
    /\ seen' = seen \cup Unseen(Head(queue))
    /\ queue' = Tail(queue) \o SetToSeq(Unseen(Head(queue)))
    /\ jobs' = Append(jobs, Head(queue))
    /\ UNCHANGED <<inputs, pc, round, store, baked, manifest, answer, pool>>

(* FetchAll: a goroutine for each URL and a deadline for all of them.      *)
StartRound ==
    /\ pc = "run" /\ queue = <<>> /\ order # {}
    /\ pc' = "wait"
    /\ round' = order /\ order' = {}
    /\ task' = [u \in Urls |-> IF u \in order THEN "waiting" ELSE task[u]]
    /\ expired' = FALSE
    /\ UNCHANGED <<inputs, plan, kept, seen, queue, jobs, store, baked, manifest, answer,
                   slots, result, requests>>

Acquire(u) ==
    /\ task[u] = "waiting" /\ slots < Slots /\ ~expired
    /\ task' = [task EXCEPT ![u] = "fetching"]
    /\ slots' = slots + 1
    /\ requests' = [requests EXCEPT ![u] = @ + 1]
    /\ UNCHANGED <<inputs, caller, expired, result>>

\* Mutant: the deferred release is set up before the slot is taken.
GiveUpReleasing(u) ==
    /\ task[u] = "waiting" /\ expired
    /\ task' = [task EXCEPT ![u] = "returned"]
    /\ result' = [result EXCEPT ![u] = "failed"]
    /\ slots' = slots - 1
    /\ UNCHANGED <<inputs, caller, expired, requests>>

\* No slot within the budget, or a slot that comes too late to send anything.
GiveUp(u) ==
    /\ task[u] = "waiting" /\ expired
    /\ task' = [task EXCEPT ![u] = "returned"]
    /\ result' = [result EXCEPT ![u] = "failed"]
    /\ UNCHANGED <<inputs, caller, slots, expired, requests>>

\* Mutant: a slot is released on success only.
ReturnLeaking(u, r) ==
    /\ task[u] = "fetching" /\ r \in {"data", "failed"}
    /\ task' = [task EXCEPT ![u] = "returned"]
    /\ slots' = IF r = "data" THEN slots - 1 ELSE slots
    /\ result' = [result EXCEPT ![u] = r]
    /\ UNCHANGED <<inputs, caller, expired, requests>>

\* Mutant: the requests are not bound to the deadline.
ReturnUnbounded(u, r) ==
    /\ task[u] = "fetching" /\ r \in {"data", "failed"} /\ ~expired
    /\ task' = [task EXCEPT ![u] = "returned"]
    /\ slots' = slots - 1
    /\ result' = [result EXCEPT ![u] = r]
    /\ UNCHANGED <<inputs, caller, expired, requests>>

\* The server answers, or the request fails: a bad status, too many bytes, a
\* timeout, a blocked address, or the deadline.
Return(u, r) ==
    /\ task[u] = "fetching" /\ r \in {"data", "failed"}
    /\ task' = [task EXCEPT ![u] = "returned"]
    /\ slots' = slots - 1
    /\ result' = [result EXCEPT ![u] = r]
    /\ UNCHANGED <<inputs, caller, expired, requests>>

Expire ==
    /\ pc = "wait" /\ ~expired
    /\ expired' = TRUE
    /\ UNCHANGED <<inputs, caller, task, slots, result, requests>>

\* wg.Wait returns when every goroutine of the round has.
EndRound ==
    /\ pc = "wait" /\ \A u \in round : task[u] = "returned"
    /\ pc' = "apply"
    /\ UNCHANGED <<inputs, plan, kept, seen, queue, jobs, order, round, store, baked,
                   manifest, answer, pool>>

\* Mutant: a failure leaves the path it would have been stored under.
ApplyFailureUnmarked(u) ==
    /\ result[u] = "failed"
    /\ kept' = kept \cup {u}
    /\ UNCHANGED <<plan, seen, queue, store, baked>>

\* Mutant: a failure is not reported.
ApplyFailureUnreported(u) ==
    /\ result[u] = "failed"
    /\ plan' = [plan EXCEPT ![u] = "kept-external"]
    /\ UNCHANGED <<kept, seen, queue, store, baked>>

(* Results are applied one after the other, in the order of the references *)
(* in the documents, which may be any.                                     *)
ApplyFailure(u) ==
    /\ result[u] = "failed"
    /\ plan' = [plan EXCEPT ![u] = "kept-external"]
    /\ kept' = kept \cup {u}
    /\ UNCHANGED <<seen, queue, store, baked>>

Place(path, of) ==
    [p \in DOMAIN store \cup {path} |-> IF p = path THEN Stored(of) ELSE store[p]]

\* Mutant: fetched stylesheets are not scanned.
ApplyDataUnscanned(u) ==
    /\ result[u] = "data"
    /\ store' = Place(StorePath[u], u)
    /\ baked' = baked \cup {StorePath[u]}
    /\ UNCHANGED <<plan, kept, seen, queue>>

ApplyData(u) ==
    LET isNew == u \in Sheets \ seen
    IN  /\ result[u] = "data"
        /\ store' = Place(StorePath[u], u)
        /\ baked' = baked \cup {StorePath[u]}
        /\ seen' = IF isNew THEN seen \cup {u} ELSE seen
        /\ queue' = IF isNew THEN Append(queue, u) ELSE queue
        /\ UNCHANGED <<plan, kept>>

Apply(u) ==
    /\ pc = "apply" /\ u \in round
    /\ ApplyFailure(u) \/ ApplyData(u)
    /\ round' = round \ {u}
    /\ pc' = IF round = {u} THEN "run" ELSE "apply"
    /\ UNCHANGED <<inputs, jobs, order, manifest, answer, pool>>

(* Phase 3 and the rest of the attempt.  Scanned stylesheets replace what  *)
(* is stored under their path; a later one of the same path wins.          *)
PathOf(id) == IF id \in Urls THEN StorePath[id] ELSE id
Rewritten ==
    LET last(p) == {i \in DOMAIN jobs : PathOf(jobs[i]) = p
                        /\ \A j \in DOMAIN jobs : PathOf(jobs[j]) = p => j <= i}
    IN  [p \in DOMAIN store |->
            IF last(p) = {} THEN store[p]
            ELSE [of |-> jobs[CHOOSE i \in last(p) : TRUE], rewritten |-> TRUE]]

Row(path, source, status) == [path |-> path, source |-> source, status |-> status]

\* Mutant: a packed file that a fetched asset has replaced keeps its row.
ManifestOfPack ==
         {Row(p, p, "local") : p \in pack \ {Entry}}
    \cup {Row(StorePath[u], u, "baked") : u \in {v \in Urls : plan[v] = "bake"}}
    \cup {Row(u, u, plan[u]) : u \in kept}

Manifest ==
         {Row(p, p, "local") : p \in DOMAIN store \ baked}
    \cup {Row(StorePath[u], u, "baked") : u \in {v \in Urls : plan[v] = "bake"}}
    \cup {Row(u, u, plan[u]) : u \in kept}

\* The gate of an import, and the primary key (slug, path) of the assets.
Verdict(rows) ==
    IF imported /\ (\E r \in rows : r.status = "kept-external") THEN "incomplete"
    ELSE IF \E r, s \in rows : r # s /\ r.path = s.path THEN "failed"
    ELSE "created"

Finalize ==
    /\ pc = "run" /\ queue = <<>> /\ order = {}
    /\ pc' = "done"
    /\ store' = Rewritten
    /\ manifest' = Manifest
    /\ answer' = Verdict(Manifest)
    /\ UNCHANGED <<inputs, plan, kept, seen, queue, jobs, order, round, baked, pool>>

Answered == pc = "done" /\ UNCHANGED vars

Next ==
    \/ ParseEntry \/ ScanSheet \/ StartRound \/ Expire \/ EndRound \/ Finalize
    \/ \E u \in Urls : \/ Acquire(u) \/ GiveUp(u) \/ Apply(u)
                       \/ \E r \in {"data", "failed"} : Return(u, r)
    \/ Answered

Spec == Init /\ [][Next]_vars

(* The scheduler runs the handler and its goroutines; the deadline passes. *)
(* Nothing is asked of the servers: only once the deadline has passed must *)
(* a request that is under way return.                                     *)
Fairness ==
    /\ WF_vars(ParseEntry \/ ScanSheet \/ StartRound \/ EndRound \/ Finalize)
    /\ WF_vars(\E u \in Urls : Apply(u))
    /\ WF_vars(Expire)
    /\ \A u \in Urls : WF_vars(GiveUp(u)) /\ WF_vars(expired /\ Return(u, "failed"))

FairSpec == Spec /\ Fairness

-----------------------------------------------------------------------------
(* Properties.                                                             *)

\* Every variable keeps its type.
TypeOK ==
    /\ imported \in BOOLEAN /\ pack \in Packs \cup {{Entry}} /\ web \in Webs
    /\ pc \in {"parse", "run", "wait", "apply", "done"}
    /\ plan \in [Ids -> {"none", "skip", "local", "bake", "kept-cdn", "kept-external"}]
    /\ kept \subseteq Urls /\ seen \subseteq Sheets
    /\ queue \in Seq(Sheets) /\ jobs \in Seq(Sheets)
    /\ order \subseteq Urls /\ round \subseteq Urls
    /\ task \in [Urls -> {"idle", "waiting", "fetching", "returned"}]
    /\ slots \in 0..Slots /\ expired \in BOOLEAN
    /\ result \in [Urls -> {"none", "data", "failed"}]
    /\ DOMAIN store \subseteq Ids \cup {StorePath[u] : u \in Urls}
    /\ \A p \in DOMAIN store : store[p] \in [of : Ids, rewritten : BOOLEAN]
    /\ baked \subseteq DOMAIN store
    /\ answer \in {"none", "created", "incomplete", "failed"}
    /\ requests \in [Urls -> Nat]

\* The documents the pipeline can read: the entry, packed stylesheets, and
\* stylesheets that a server has delivered.
Readable == {Entry} \cup {id \in Sheets : Local(id) \/ (id \in Urls /\ result[id] = "data")}

\* Closed under "is named by a document that can be read".
Closed(S) ==
    /\ Scanned(Entry) \subseteq S
    /\ \A d \in S \cap Readable : Scanned(d) \subseteq S

\* The rounds of fetching and scanning end exactly at the least set of
\* references that is closed: no chain of stylesheets is cut short, and
\* nothing is planned that no document names (pipeline.go:258-308).
NothingMissed ==
    pc = "done" =>
        \A id \in Ids : plan[id] # "none" <=> \A S \in SUBSET Ids : Closed(S) => id \in S

\* However often and wherever a URL is named, in whichever round, it is asked
\* for at most once per attempt, and never when its host is allowed to keep it
\* (pipeline.go:45-47, "fetched once").
FetchedOnce ==
    \A u \in Urls : requests[u] <= IF u \in Allowed \ Signed THEN 0 ELSE 1

\* The semaphore counts the requests under way, whatever way each of them ends,
\* and every URL of the round has a result when FetchAll returns (fetch.go:50-81).
PoolAccounts ==
    /\ slots = Cardinality({u \in Urls : task[u] = "fetching"})
    /\ pc = "apply" => \A u \in round : result[u] # "none"
    /\ pc # "wait" => slots = 0

\* The documents that are stored with their references rewritten.
Documents == {Entry} \cup {store[p].of : p \in {q \in DOMAIN store : store[q].rewritten}}

\* What a created page's documents point to under /a/{slug}/ is there, and is
\* what the original document meant (pipeline.go:133-172).  Two references are
\* not covered: to the entry itself, which is stored as index.html and under no
\* other name, and to a packed file under external/ whose path a fetched asset
\* takes.
ReferencesLead ==
    answer = "created" =>
        \A d \in Documents : \A r \in web[d] :
            plan[r.id] \in {"local", "bake"} =>
                \/ r.id = Entry
                \/ /\ PathOf(r.id) \in DOMAIN store
                   /\ store[PathOf(r.id)].of = r.id \/ (Local(r.id) /\ r.id \in baked)

\* The manifest has exactly one row for each stored file, and in a created page
\* that row names what the file holds; the other rows are references that were
\* left at their origin (pipeline.go:179-205, upload.go:283-302).
ManifestAgrees ==
    pc = "done" =>
        /\ {r.path : r \in {s \in manifest : s.status \in {"local", "baked"}}} = DOMAIN store
        /\ \A r \in manifest : r.status = "local" => r.path \notin baked
        /\ answer = "created" =>
               \A r \in manifest : r.status \in {"local", "baked"} => store[r.path].of = r.source

\* An import is all or nothing: unless it is refused, every reference that a
\* document of the page names by a form that is scanned is stored with it, kept
\* by policy, or of a kind that is never fetched; and it is refused only for a
\* reference that the entry or a stylesheet names (upload.go:256-275).
ImportIsWhole ==
    imported /\ pc = "done" =>
        (answer # "incomplete") <=>
            \A d \in {Entry} \cup ToSet(jobs) : \A id \in Scanned(d) : plan[id] # "kept-external"

\* Every upload is answered, with servers that never answer and stylesheets
\* that import each other.
EveryUploadEnds == <>(pc = "done")

\* upload.go:258-259: an upload is best effort, so with storage and database at
\* work it is created, whatever the web does.
UploadsAreBestEffort == ~imported /\ pc = "done" => answer = "created"
=============================================================================
