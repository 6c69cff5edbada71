--------------------------- MODULE PageLifecycle ---------------------------
(***************************************************************************)
(* The admin plane's write side: uploads, park / unpark / delete and the   *)
(* boot sweep, over one SQLite database and one S3 bucket.                 *)
(*                                                                         *)
(*   src/internal/lifecycle/lifecycle.go   toggle, Delete, Sweep           *)
(*   src/internal/upload/upload.go         create, putObjects              *)
(*   src/internal/slug/slug.go             Allocate                        *)
(*   src/internal/db/db.go                 CreatePage, DeletePage          *)
(*   src/internal/storage/s3compat/s3.go   Copy, DeletePrefix              *)
(*   src/cmd/server/main.go                boot order                      *)
(*                                                                         *)
(* Every request is a goroutine that takes one step per SQL statement and  *)
(* one step per S3 call.  A step that talks to the database or the bucket  *)
(* may fail, with or without its effect (a lost answer, a cancelled        *)
(* request context), and the process may die between any two steps.        *)
(* MaxFaults bounds the failures and crashes of a behaviour; no theorem    *)
(* depends on its value.                                                   *)
(***************************************************************************)
EXTENDS Naturals

CONSTANTS
    Identifiers,  \* sanitized page identifiers
    MaxCode,      \* bound: the largest code the model allocates
    Files,        \* object names inside one page's prefix
    Index,        \* "index.html", the entry every page has
    Workers,      \* request goroutines
    Boot,         \* the goroutine that runs Sweep before listening
    Free,         \* the owner of an unlocked mutex
    MaxFaults     \* bound: failures and crashes in one behaviour

ASSUME IndexAssumption == Index \in Files
ASSUME ProcAssumption == Boot \notin Workers /\ Free \notin Workers \cup {Boot}
ASSUME BoundAssumption == MaxCode \in Nat /\ MaxFaults \in Nat

Procs == Workers \cup {Boot}

\* slug.Compose: "{identifier}-{code}", kept as the pair it is made of.
\* Code 0 stands for a slug that is not allocated yet.
Slugs   == Identifiers \X (1..MaxCode)
NoSlug  == <<>>
AnySlug == Slugs \cup (Identifiers \X {0}) \cup {NoSlug}

\* The two prefixes of a page: "{slug}/" and "_parked/{slug}/".
Sides == {"live", "parked"}
Other(side) == IF side = "live" THEN "parked" ELSE "live"

Settled   == {"live", "parked"}
Transient == {"parking", "unparking", "deleting"}
Statuses  == Settled \cup Transient
NoRow     == "none"

Toggles == {"park", "unpark"}
Jobs    == Toggles \cup {"delete", "upload"}

\* What each operation of lifecycle.Service passes to its guarded UPDATE.
Intent(job) == CASE job = "park"   -> "parking"
                 [] job = "unpark" -> "unparking"
                 [] job = "delete" -> "deleting"
Done(job) == IF job = "park" THEN "parked" ELSE "live"
\* Mutant: a delete takes every status, the DELETE's guard dropped.
PrevAnyStatus(job) == CASE job = "park"   -> {"live", "parking"}
                        [] job = "unpark" -> {"parked", "unparking"}
                        [] job = "delete" -> Statuses
Prev(job) == CASE job = "park"   -> {"live", "parking"}
               [] job = "unpark" -> {"parked", "unparking"}
               [] job = "delete" -> {"live", "parked", "deleting"}
Source(job) == IF job = "park" THEN "live" ELSE "parked"
JobOf(st) == CASE st = "parking" -> "park" [] st = "unparking" -> "unpark"
               [] st = "deleting" -> "delete"

Answers == {"none", "parked", "live", "deleted", "created",
            "busy", "notFound", "error"}
Places  == {"idle", "alloc", "ingest", "put", "insert", "lock", "mark", "ask",
            "copy", "copying", "wipe", "wiping", "settle", "drop"}

VARIABLES
    bucket,    \* the S3 objects: <<side, slug, file>>
    status,    \* pages.status per slug, NoRow when there is no row
    manifest,  \* the files the row's asset manifest accounts for
    next,      \* the code each identifier gets next (the counters table)
    gone,      \* history: slugs whose row DeletePage removed
    phase,     \* "down", "sweeping" (boot) or "up" (listening)
    sweep,     \* Sweep's todos: <<slug, status>> still to resume
    lock,      \* lockFor: the holder of each slug's mutex
    pc,        \* where each goroutine stands
    req,       \* its job, its slug, and the files an upload stores
    attempt,   \* the attempt of the upload loop
    answer,    \* its answer (of an upload that cleans up: the one it will give)
    side,      \* the prefix a DeletePrefix removes
    todo,      \* the keys a put loop, Copy or DeletePrefix has still to do
    failed,    \* whether a key of a Copy has failed
    faults     \* failures and crashes so far, at most MaxFaults

rows == <<status, manifest, next, gone>>
boot == <<phase, sweep>>
call == <<req, attempt, answer>>
driver == <<side, todo, failed>>
vars == <<bucket, rows, boot, lock, pc, call, driver, faults>>

Requests == [job : Jobs, slug : AnySlug, pack : SUBSET Files]
NoRequest == [job |-> "upload", slug |-> NoSlug, pack |-> {}]

Job(p)  == req[p].job
Slug(p) == req[p].slug
Pack(p) == req[p].pack

Under(prefix, s) == {f \in Files : <<prefix, s, f>> \in bucket}
At(p, place) == pc[p] = place
Go(p, place) == pc' = [pc EXCEPT ![p] = place]
SetTodo(p, keys) == todo' = [todo EXCEPT ![p] = keys]

\* One more storage, database or process failure.
Fault == faults < MaxFaults /\ faults' = faults + 1


\* Mutant: the mutex is released only on success, not by a deferred unlock.
FinishLocked(p, result) ==
    /\ Go(p, "idle")
    /\ req' = [req EXCEPT ![p] = NoRequest]
    /\ attempt' = [attempt EXCEPT ![p] = 0]
    /\ answer' = [answer EXCEPT ![p] = result]
    /\ side' = [side EXCEPT ![p] = "live"]
    /\ SetTodo(p, {})
    /\ failed' = [failed EXCEPT ![p] = FALSE]
    /\ lock' = [s \in Slugs |-> IF lock[s] = p /\ result # "error" THEN Free ELSE lock[s]]
    /\ UNCHANGED boot

\* A request or a resumed row ends: the deferred unlock, and the answer.  An error
\* in Sweep ends the boot, and with it the process.
Finish(p, result) ==
    /\ Go(p, "idle")
    /\ req' = [req EXCEPT ![p] = NoRequest]
    /\ attempt' = [attempt EXCEPT ![p] = 0]
    /\ answer' = [answer EXCEPT ![p] = result]
    /\ side' = [side EXCEPT ![p] = "live"]
    /\ SetTodo(p, {})
    /\ failed' = [failed EXCEPT ![p] = FALSE]
    /\ lock' = [s \in Slugs |-> IF lock[s] = p THEN Free ELSE lock[s]]
    /\ IF p = Boot /\ result = "error"
       THEN phase' = "down" /\ sweep' = {}
       ELSE UNCHANGED boot

Init ==
    /\ phase = "down"
    /\ sweep = {}
    /\ lock = [s \in Slugs |-> Free]
    /\ pc = [p \in Procs |-> "idle"]
    /\ req = [p \in Procs |-> NoRequest]
    /\ attempt = [p \in Procs |-> 0]
    /\ answer = [p \in Procs |-> "none"]
    /\ side = [p \in Procs |-> "live"]
    /\ todo = [p \in Procs |-> {}]
    /\ failed = [p \in Procs |-> FALSE]
    /\ bucket = {}
    /\ status = [s \in Slugs |-> NoRow]
    /\ manifest = [s \in Slugs |-> {}]
    /\ next = [i \in Identifiers |-> 1]
    /\ gone = {}
    /\ faults = 0

-----------------------------------------------------------------------------
(* Requests arrive only while the process listens.                         *)

Arrive(p, place, request) ==
    /\ phase = "up" /\ At(p, "idle")
    /\ Go(p, place)
    /\ req' = [req EXCEPT ![p] = request]
    /\ answer' = [answer EXCEPT ![p] = "none"]
    /\ UNCHANGED <<bucket, rows, boot, lock, attempt, driver, faults>>

RequestLifecycle(p) == \E job \in Jobs \ {"upload"}, s \in Slugs :
    Arrive(p, "lock", [job |-> job, slug |-> s, pack |-> {}])

RequestUpload(p) == \E i \in Identifiers, pack \in SUBSET Files :
    /\ Index \in pack
    /\ Arrive(p, "alloc", [job |-> "upload", slug |-> <<i, 0>>, pack |-> pack])

-----------------------------------------------------------------------------
(* Upload: allocate, ingest, put every object, insert the row.             *)

Rename(p, s) ==
    req' = [req EXCEPT ![p] = [job |-> "upload", slug |-> s, pack |-> Pack(p)]]

\* Mutant: the code is read, and its increment is lost.
AllocUncounted(p) ==
    LET i == Slug(p)[1] IN
    /\ At(p, "alloc") /\ next[i] <= MaxCode
    /\ Rename(p, <<i, next[i]>>)
    /\ attempt' = [attempt EXCEPT ![p] = @ + 1]
    /\ Go(p, "ingest")
    /\ UNCHANGED <<bucket, rows, boot, lock, answer, driver, faults>>

\* The code a request takes.  Beyond MaxCode the model lets it fail instead.
Alloc(p) ==
    LET i == Slug(p)[1] IN
    /\ At(p, "alloc")
    /\ IF next[i] <= MaxCode
       THEN /\ next' = [next EXCEPT ![i] = @ + 1]
            /\ Rename(p, <<i, next[i]>>)
            /\ attempt' = [attempt EXCEPT ![p] = @ + 1]
            /\ Go(p, "ingest")
            /\ UNCHANGED <<boot, lock, answer, driver>>
       ELSE UNCHANGED next /\ Finish(p, "error")
    /\ UNCHANGED <<bucket, status, manifest, gone, faults>>

\* The upsert fails, or takes a code whose answer is lost: the request ends.
AllocError(p) ==
    LET i == Slug(p)[1] IN
    /\ At(p, "alloc")
    /\ Fault
    /\ \/ UNCHANGED next
       \/ next[i] <= MaxCode /\ next' = [next EXCEPT ![i] = @ + 1]
    /\ Finish(p, "error")
    /\ UNCHANGED <<bucket, status, manifest, gone>>

Ingest(p) ==
    /\ At(p, "ingest")
    /\ Go(p, "put")
    /\ SetTodo(p, Pack(p))
    /\ UNCHANGED <<bucket, rows, boot, lock, call, side, failed, faults>>

\* Every failure after the slug is allocated cleans the slug's prefix up
\* before it answers.
CleanUp(p, result) ==
    /\ Go(p, "wipe")
    /\ SetTodo(p, {})
    /\ answer' = [answer EXCEPT ![p] = result]
    /\ UNCHANGED <<req, attempt, side, failed>>

\* Process fails, or an import has an asset it could not fetch.
IngestReject(p) ==
    /\ At(p, "ingest")
    /\ CleanUp(p, "error")
    /\ UNCHANGED <<bucket, rows, boot, lock, faults>>

\* putObjects stores index.html before any asset.
NextPut(p) == IF Index \in todo[p] THEN {Index} ELSE todo[p]

Put(p) ==
    /\ At(p, "put")
    /\ \E f \in NextPut(p) :
          /\ bucket' = bucket \cup {<<"live", Slug(p), f>>}
          /\ SetTodo(p, todo[p] \ {f})
          /\ Go(p, IF todo[p] = {f} THEN "insert" ELSE "put")
    /\ UNCHANGED <<rows, boot, lock, call, side, failed, faults>>

\* Mutant: an object that could not be stored is skipped.
PutErrorSkipped(p) ==
    /\ At(p, "put")
    /\ Fault
    /\ \E f \in NextPut(p) :
          /\ SetTodo(p, todo[p] \ {f})
          /\ Go(p, IF todo[p] = {f} THEN "insert" ELSE "put")
    /\ UNCHANGED <<bucket, rows, boot, lock, call, side, failed>>

PutError(p) ==
    /\ At(p, "put")
    /\ Fault
    /\ \E f \in NextPut(p) :
          bucket' \in {bucket, bucket \cup {<<"live", Slug(p), f>>}}
    /\ CleanUp(p, "error")
    /\ UNCHANGED <<rows, boot, lock>>

\* CreatePage is one transaction.  A row with this slug is a unique violation:
\* the loop cleans up and starts over (the backstop).
Insert(p) ==
    LET s == Slug(p) IN
    /\ At(p, "insert")
    /\ IF status[s] = NoRow
       THEN /\ status' = [status EXCEPT ![s] = "live"]
            /\ manifest' = [manifest EXCEPT ![s] = Pack(p)]
            /\ Finish(p, "created")
       ELSE /\ CleanUp(p, "none")
            /\ UNCHANGED <<status, manifest, boot, lock>>
    /\ UNCHANGED <<bucket, next, gone, faults>>

InsertError(p) ==
    /\ At(p, "insert")
    /\ Fault
    /\ CleanUp(p, "error")
    /\ UNCHANGED <<bucket, rows, boot, lock>>

-----------------------------------------------------------------------------
(* Park, unpark and delete: lock, record the intent, move or remove the    *)
(* objects, finalize.                                                      *)

\* Mutant: no mutex, so two operations work on one page.
LockNothing(p) ==
    /\ At(p, "lock")
    /\ Go(p, "mark")
    /\ UNCHANGED <<bucket, rows, boot, lock, call, driver, faults>>

Lock(p) ==
    /\ At(p, "lock")
    /\ lock[Slug(p)] = Free
    /\ lock' = [lock EXCEPT ![Slug(p)] = p]
    /\ Go(p, "mark")
    /\ UNCHANGED <<bucket, rows, boot, call, driver, faults>>

\* Where the work on the objects begins: a toggle copies, a delete wipes.
FirstPlace(job) == IF job = "delete" THEN "wipe" ELSE "copy"

\* The guarded UPDATE: from a legal status to the intent, or no row matches.
Mark(p) ==
    LET s == Slug(p) IN
    /\ At(p, "mark")
    /\ IF status[s] \in Prev(Job(p))
       THEN /\ status' = [status EXCEPT ![s] = Intent(Job(p))]
            /\ Go(p, FirstPlace(Job(p)))
       ELSE UNCHANGED status /\ Go(p, "ask")
    /\ UNCHANGED <<bucket, manifest, next, gone, boot, lock, call, driver, faults>>

MarkError(p) ==
    LET s == Slug(p) IN
    /\ At(p, "mark")
    /\ Fault
    /\ \/ UNCHANGED status
       \/ /\ status[s] \in Prev(Job(p))
          /\ status' = [status EXCEPT ![s] = Intent(Job(p))]
    /\ Finish(p, "error")
    /\ UNCHANGED <<bucket, manifest, next, gone>>

\* Mutant: a toggle that matched no row reports the status it finds.
VerdictRaw(job, st) ==
    IF job = "delete"
    THEN IF st \in {"parking", "unparking"} THEN "busy" ELSE "notFound"
    ELSE st

\* What a request is told when its guarded UPDATE matched no row.
Verdict(job, st) ==
    IF job = "delete"
    THEN IF st \in {"parking", "unparking"} THEN "busy" ELSE "notFound"
    ELSE IF st = Done(job) THEN Done(job)
    ELSE IF st \in {"parking", "unparking"} \ {Intent(job)} THEN "busy"
    ELSE "notFound"

Ask(p) ==
    /\ At(p, "ask")
    /\ Finish(p, Verdict(Job(p), status[Slug(p)]))
    /\ UNCHANGED <<bucket, rows, faults>>

AskError(p) ==
    /\ At(p, "ask")
    /\ Fault
    /\ Finish(p, "error")
    /\ UNCHANGED <<bucket, rows>>

\* Store.Copy lists the source and copies the keys in any order; it goes on
\* after a failed key and reports the first error at the end.  A listing may
\* break off after some of the keys.
CopyList(p) ==
    /\ At(p, "copy")
    /\ Go(p, "copying")
    /\ SetTodo(p, Under(Source(Job(p)), Slug(p)))
    /\ UNCHANGED <<bucket, rows, boot, lock, call, side, failed, faults>>

CopyListError(p) ==
    /\ At(p, "copy")
    /\ Fault
    /\ Go(p, "copying")
    /\ \E some \in SUBSET Under(Source(Job(p)), Slug(p)) : SetTodo(p, some)
    /\ failed' = [failed EXCEPT ![p] = TRUE]
    /\ UNCHANGED <<bucket, rows, boot, lock, call, side>>

\* CopyObject on one key; a key that is no longer there fails.
Copied(p, f) ==
    LET src == Source(Job(p)) IN
    {<<Other(src), Slug(p), g>> : g \in {f} \cap Under(src, Slug(p))}

CopyOne(p) ==
    /\ At(p, "copying")
    /\ \E f \in todo[p] :
          /\ bucket' = bucket \cup Copied(p, f)
          /\ failed' = [failed EXCEPT ![p] = @ \/ Copied(p, f) = {}]
          /\ SetTodo(p, todo[p] \ {f})
    /\ UNCHANGED <<rows, boot, lock, pc, call, side, faults>>

CopyOneError(p) ==
    /\ At(p, "copying")
    /\ Fault
    /\ \E f \in todo[p] :
          /\ bucket' \in {bucket, bucket \cup Copied(p, f)}
          /\ failed' = [failed EXCEPT ![p] = TRUE]
          /\ SetTodo(p, todo[p] \ {f})
    /\ UNCHANGED <<rows, boot, lock, pc, call, side>>

\* Mutants: the source is removed although a key failed; it is not removed at all.
CopyDoneRegardless(p) ==
    /\ At(p, "copying") /\ todo[p] = {}
    /\ Go(p, "wipe")
    /\ side' = [side EXCEPT ![p] = Source(Job(p))]
    /\ UNCHANGED <<bucket, rows, boot, lock, call, todo, failed, faults>>
CopyDoneLeavesSource(p) ==
    /\ At(p, "copying") /\ todo[p] = {}
    /\ IF failed[p]
       THEN Finish(p, "error")
       ELSE Go(p, "settle") /\ UNCHANGED <<boot, lock, call, driver>>
    /\ UNCHANGED <<bucket, rows, faults>>

CopyDone(p) ==
    /\ At(p, "copying") /\ todo[p] = {}
    /\ IF failed[p]
       THEN Finish(p, "error")
       ELSE /\ Go(p, "wipe")
            /\ side' = [side EXCEPT ![p] = Source(Job(p))]
            /\ UNCHANGED <<boot, lock, call, todo, failed>>
    /\ UNCHANGED <<bucket, rows, faults>>

\* Store.DeletePrefix lists a prefix and removes its keys one by one; it stops
\* at the first error.  (Keys come in name order; names are abstract here.)
WipeList(p) ==
    /\ At(p, "wipe")
    /\ Go(p, "wiping")
    /\ SetTodo(p, Under(side[p], Slug(p)))
    /\ UNCHANGED <<bucket, rows, boot, lock, call, side, failed, faults>>

WipeOne(p) ==
    /\ At(p, "wiping")
    /\ \E f \in todo[p] :
          /\ bucket' = bucket \ {<<side[p], Slug(p), f>>}
          /\ SetTodo(p, todo[p] \ {f})
    /\ UNCHANGED <<rows, boot, lock, pc, call, side, failed, faults>>

\* The end of an upload's clean-up, whatever became of it: the pending answer,
\* or after a unique violation the next of three attempts.
CleanedUp(p) ==
    IF answer[p] = "none" /\ attempt[p] < 3
    THEN /\ Go(p, "alloc")
         /\ Rename(p, <<Slug(p)[1], 0>>)
         /\ SetTodo(p, {})
         /\ UNCHANGED <<boot, lock, attempt, answer, side, failed>>
    ELSE Finish(p, "error")

\* Mutant: a delete forgets the parked copy.
AfterWipeLiveOnly(p) == IF Job(p) # "delete" THEN "settle" ELSE "drop"

\* Where a lifecycle operation goes on after a prefix is gone.
AfterWipe(p) ==
    IF Job(p) # "delete" THEN "settle"
    ELSE IF side[p] = "live" THEN "wipe" ELSE "drop"

WipeDone(p) ==
    /\ At(p, "wiping") /\ todo[p] = {}
    /\ IF Job(p) = "upload"
       THEN CleanedUp(p)
       ELSE /\ Go(p, AfterWipe(p))
            /\ side' = [side EXCEPT ![p] = IF Job(p) = "delete" THEN "parked" ELSE @]
            /\ UNCHANGED <<boot, lock, call, todo, failed>>
    /\ UNCHANGED <<bucket, rows, faults>>

\* A listing or a removal fails; a removal may have taken effect.
WipeError(p) ==
    /\ At(p, "wipe") \/ At(p, "wiping")
    /\ Fault
    /\ \/ UNCHANGED bucket
       \/ \E f \in todo[p] : bucket' = bucket \ {<<side[p], Slug(p), f>>}
    /\ IF Job(p) = "upload" THEN CleanedUp(p) ELSE Finish(p, "error")
    /\ UNCHANGED rows

\* finalize: UPDATE ... WHERE status = intent, one row or an error.
Settle(p) ==
    LET s == Slug(p) IN
    /\ At(p, "settle")
    /\ IF status[s] = Intent(Job(p))
       THEN /\ status' = [status EXCEPT ![s] = Done(Job(p))]
            /\ Finish(p, Done(Job(p)))
       ELSE UNCHANGED status /\ Finish(p, "error")
    /\ UNCHANGED <<bucket, manifest, next, gone, faults>>

SettleError(p) ==
    LET s == Slug(p) IN
    /\ At(p, "settle")
    /\ Fault
    /\ \/ UNCHANGED status
       \/ /\ status[s] = Intent(Job(p))
          /\ status' = [status EXCEPT ![s] = Done(Job(p))]
    /\ Finish(p, "error")
    /\ UNCHANGED <<bucket, manifest, next, gone>>

\* DeletePage: the row goes, its assets cascade; no row is an error.
RemoveRow(s) ==
    /\ status' = [status EXCEPT ![s] = NoRow]
    /\ manifest' = [manifest EXCEPT ![s] = {}]
    /\ gone' = gone \cup ({s} \cap {t \in Slugs : status[t] # NoRow})

Drop(p) ==
    /\ At(p, "drop")
    /\ RemoveRow(Slug(p))
    /\ Finish(p, IF status[Slug(p)] = NoRow THEN "error" ELSE "deleted")
    /\ UNCHANGED <<bucket, next, faults>>

DropError(p) ==
    /\ At(p, "drop")
    /\ Fault
    /\ RemoveRow(Slug(p)) \/ UNCHANGED <<status, manifest, gone>>
    /\ Finish(p, "error")
    /\ UNCHANGED <<bucket, next>>

-----------------------------------------------------------------------------
(* Boot and crash.                                                         *)

\* Mutant: the boot sweep forgets interrupted deletes.
StartTogglesOnly ==
    /\ phase = "down"
    /\ phase' = "sweeping"
    /\ sweep' = {<<s, status[s]>> : s \in {t \in Slugs : status[t] \in {"parking", "unparking"}}}
    /\ UNCHANGED <<bucket, rows, lock, pc, call, driver, faults>>

\* Boot reads the unsettled rows before anything listens.
Start ==
    /\ phase = "down"
    /\ phase' = "sweeping"
    /\ sweep' = {<<s, status[s]>> : s \in {t \in Slugs : status[t] \in Transient}}
    /\ UNCHANGED <<bucket, rows, lock, pc, call, driver, faults>>

\* Mutant: Sweep works on a row without its mutex.
ResumeUnlocked ==
    /\ phase = "sweeping" /\ At(Boot, "idle")
    /\ \E r \in sweep :
          /\ sweep' = sweep \ {r}
          /\ req' = [req EXCEPT ![Boot] =
                       [job |-> JobOf(r[2]), slug |-> r[1], pack |-> {}]]
          /\ Go(Boot, FirstPlace(JobOf(r[2])))
    /\ UNCHANGED <<bucket, rows, lock, phase, attempt, answer, driver, faults>>

\* Sweep takes the next row, under the same lock, straight to its objects.
Resume ==
    /\ phase = "sweeping" /\ At(Boot, "idle")
    /\ \E r \in sweep :
          /\ lock[r[1]] = Free
          /\ lock' = [lock EXCEPT ![r[1]] = Boot]
          /\ sweep' = sweep \ {r}
          /\ req' = [req EXCEPT ![Boot] =
                       [job |-> JobOf(r[2]), slug |-> r[1], pack |-> {}]]
          /\ Go(Boot, FirstPlace(JobOf(r[2])))
    /\ UNCHANGED <<bucket, rows, phase, attempt, answer, driver, faults>>

Listen ==
    /\ phase = "sweeping" /\ At(Boot, "idle") /\ sweep = {}
    /\ phase' = "up"
    /\ UNCHANGED <<bucket, rows, sweep, lock, pc, call, driver, faults>>

\* A kill, a panic or a shutdown that outlives its grace period: the mutexes
\* and the goroutines are gone, the database and the bucket stay.
Crash ==
    /\ phase # "down"
    /\ Fault
    /\ phase' = "down"
    /\ sweep' = {}
    /\ lock' = [s \in Slugs |-> Free]
    /\ pc' = [p \in Procs |-> "idle"]
    /\ req' = [p \in Procs |-> NoRequest]
    /\ attempt' = [p \in Procs |-> 0]
    /\ answer' = [p \in Procs |-> "none"]
    /\ side' = [p \in Procs |-> "live"]
    /\ todo' = [p \in Procs |-> {}]
    /\ failed' = [p \in Procs |-> FALSE]
    /\ UNCHANGED <<bucket, rows>>

-----------------------------------------------------------------------------

Request(p) == RequestLifecycle(p) \/ RequestUpload(p)

UploadStep(p) == Alloc(p) \/ Ingest(p) \/ IngestReject(p) \/ Put(p) \/ Insert(p)
DriverStep(p) == CopyList(p) \/ CopyOne(p) \/ CopyDone(p)
                 \/ WipeList(p) \/ WipeOne(p) \/ WipeDone(p)
RowStep(p) == Lock(p) \/ Mark(p) \/ Ask(p) \/ Settle(p) \/ Drop(p)
Work(p) == UploadStep(p) \/ DriverStep(p) \/ RowStep(p)

Failure(p) == AllocError(p) \/ PutError(p) \/ InsertError(p) \/ MarkError(p)
              \/ AskError(p) \/ CopyListError(p) \/ CopyOneError(p)
              \/ WipeError(p) \/ SettleError(p) \/ DropError(p)

Next ==
    \/ \E p \in Workers : Request(p)
    \/ \E p \in Procs : Work(p) \/ Failure(p)
    \/ Start \/ Resume \/ Listen \/ Crash

Spec == Init /\ [][Next]_vars

(***************************************************************************)
(* Fairness: the scheduler runs every goroutine that can go on, a Go mutex *)
(* hands itself to every waiter in the end (starvation mode), and the      *)
(* deployment restarts a process that went down.                           *)
(***************************************************************************)
Fairness ==
    /\ \A p \in Procs : WF_vars(Work(p)) /\ SF_vars(Lock(p))
    /\ WF_vars(Start \/ Resume \/ Listen)

FairSpec == Spec /\ Fairness

-----------------------------------------------------------------------------
TypeOK ==
    /\ bucket \subseteq Sides \X Slugs \X Files
    /\ status \in [Slugs -> Statuses \cup {NoRow}]
    /\ manifest \in [Slugs -> SUBSET Files]
    /\ next \in [Identifiers -> 1..(MaxCode + 1)]
    /\ gone \subseteq Slugs
    /\ phase \in {"down", "sweeping", "up"}
    /\ sweep \subseteq Slugs \X Transient
    /\ lock \in [Slugs -> Procs \cup {Free}]
    /\ pc \in [Procs -> Places]
    /\ req \in [Procs -> Requests]
    /\ attempt \in [Procs -> 0..3]
    /\ answer \in [Procs -> Answers]
    /\ side \in [Procs -> Sides]
    /\ todo \in [Procs -> SUBSET Files]
    /\ failed \in [Procs -> BOOLEAN]
    /\ faults \in 0..MaxFaults

(***************************************************************************)
(* Safety.                                                                 *)
(***************************************************************************)

\* An upload that has its slug.
Uploading(p) == Job(p) = "upload" /\ pc[p] \notin {"idle", "alloc"}

\* A park, unpark or delete that has the slug's mutex, and one that has also
\* recorded its intent.
Holding(p) == Job(p) # "upload" /\ pc[p] \notin {"idle", "lock"}
Working(p) == Holding(p) /\ pc[p] \notin {"mark", "ask"}

\* A settled row tells exactly where the page is: a live page has every file
\* of its manifest under {slug}/ and nothing under _parked/{slug}/, and
\* a parked page the reverse.  (toggle finalizes after move, move copies
\* before it deletes; lifecycle.go:84-184)
SettledPlacement ==
    \A s \in Slugs : status[s] \in Settled =>
        /\ Under(status[s], s) = manifest[s]
        /\ Under(Other(status[s]), s) = {}

\* Whatever fails or crashes between two S3 calls, a page that is not being
\* deleted never loses a file: each is under one of the two prefixes, and no
\* foreign file is.  (copy-before-delete "never destroys the only copy",
\* lifecycle.go:138-140)
NoFileLost ==
    \A s \in Slugs : status[s] \in Statuses \ {"deleting"} =>
        Under("live", s) \cup Under("parked", s) = manifest[s]

\* A completed delete is complete and final: no row, no object of either
\* prefix, ever again.  (finishDelete takes the row last, lifecycle.go:228-239,
\* and codes are never reused, README.md:66)
DeletedIsGone ==
    \A s \in gone : /\ status[s] = NoRow
                    /\ \A prefix \in Sides : Under(prefix, s) = {}

\* An upload owns its slug until its row exists: no other upload has it, no row
\* and no deleted page ever had it, and what lies under its prefix is its own.
\* So neither its puts nor its clean-up ever touch another page, and
\* the unique-violation backstop (upload.go:296-299) is never needed.
UploadOwnsSlug ==
    \A p \in Workers : Uploading(p) =>
        LET s == Slug(p) IN
        /\ status[s] = NoRow
        /\ s \notin gone
        /\ Under("live", s) \subseteq Pack(p)
        /\ Under("parked", s) = {}
        /\ \A q \in Workers : Uploading(q) /\ Slug(q) = s => q = p

\* When finalize or DeletePage runs, the row still has the intent this
\* goroutine recorded: the branch the code calls "unreachable in practice"
\* (lifecycle.go:178-182) and DeletePage's ErrNotFound (db.go:201-203) are.
FinalizeMatches ==
    \A p \in Procs : pc[p] \in {"settle", "drop"} =>
        status[Slug(p)] = Intent(Job(p))

\* A 200 or 201 is true when it is sent: "parked" means nothing of the page is
\* left under the served prefix, "live" and "created" that all of it is there,
\* "deleted" that nothing is left at all.  (page-lifecycle/spec.md, park a
\* page via API, unpark restores the page)
AnswersAreTrue ==
    [][\A p \in Workers, s \in Slugs :
         Slug(p) = s /\ pc[p] # "idle" /\ pc'[p] = "idle" =>
            /\ answer'[p] = "parked" =>
                  Under("live", s)' = {} /\ Under("parked", s)' = manifest'[s]
            /\ answer'[p] \in {"live", "created"} =>
                  Under("live", s)' = manifest'[s] /\ Index \in manifest'[s]
            /\ answer'[p] = "deleted" =>
                  status'[s] = NoRow /\ \A prefix \in Sides : Under(prefix, s)' = {}
      ]_vars

\* When the process starts to listen no row is left in mid-transition, however many
\* boots it took.  (main.go:157-161, Sweep before the listener)
ListenSettled ==
    [][phase # "up" /\ phase' = "up" =>
          \A s \in Slugs : status[s] \notin Transient]_vars

(***************************************************************************)
(* Liveness.                                                               *)
(***************************************************************************)

\* Every request is answered: the per-slug mutex is always released, and no
\* request waits for ever behind it.  (lifecycle.go:104-106, 199-201)
EveryRequestEnds == \A p \in Workers : pc[p] # "idle" ~> pc[p] = "idle"

\* A page a crash left in mid-transition is settled or removed again without
\* anybody repeating the request.  (Sweep, lifecycle.go:241-298)
CrashHeals ==
    \A s \in Slugs :
        (phase = "down" /\ status[s] \in Transient) ~> status[s] \notin Transient

(***************************************************************************)
(* The inductive invariant behind the safety properties, in four parts:    *)
(* which goroutine may stand where, who may hold what, what a page's rows  *)
(* and objects look like, and how far a goroutine's work on them is.       *)
(***************************************************************************)
Control(p) ==
    /\ pc[p] = "idle" => attempt[p] = 0
    /\ pc[p] \in {"idle", "lock", "mark"} \/ Job(p) = "upload" => side[p] = "live"
    /\ pc[p] \notin {"idle", "alloc"} => Slug(p) \in Slugs
    /\ pc[p] = "alloc" =>
          Job(p) = "upload" /\ Slug(p) \in Identifiers \X {0} /\ attempt[p] < 3
    /\ pc[p] \in {"ingest", "put", "insert"} => Job(p) = "upload"
    /\ pc[p] \in {"lock", "mark", "ask"} => Job(p) # "upload"
    /\ pc[p] \in {"copy", "copying", "settle"} => Job(p) \in Toggles
    /\ pc[p] = "drop" => Job(p) = "delete"
    /\ Job(p) = "upload" /\ pc[p] # "idle" => p \in Workers /\ Index \in Pack(p)

Exclusion ==
    /\ phase # "up" => \A w \in Workers : pc[w] = "idle"
    /\ phase # "sweeping" => pc[Boot] = "idle" /\ sweep = {}
    /\ \A p \in Procs : Holding(p) => lock[Slug(p)] = p
    /\ \A r \in sweep : /\ status[r[1]] = r[2]
                        /\ pc[Boot] # "idle" => Slug(Boot) # r[1]

Has(prefix, s, f) == <<prefix, s, f>> \in bucket

\* The rows and objects of slug s.  Below the counter is everything that was ever used.
Page(s) ==
    /\ s[2] >= next[s[1]] => /\ status[s] = NoRow /\ s \notin gone
                             /\ \A f \in Files : ~Has("live", s, f)
    /\ s \in gone => status[s] = NoRow /\ \A f \in Files : ~Has("live", s, f)
    /\ status[s] = NoRow => \A f \in Files : ~Has("parked", s, f)
    /\ status[s] \in Settled => \A f \in Files :
          /\ Has(status[s], s, f) <=> f \in manifest[s]
          /\ ~Has(Other(status[s]), s, f)
    /\ status[s] \in {"parking", "unparking"} => \A f \in Files :
          (Has("live", s, f) \/ Has("parked", s, f)) <=> f \in manifest[s]
    /\ status[s] # NoRow => Index \in manifest[s]

\* What an upload, a toggle or a delete has done to the objects so far.
UploadProgress(p) ==
    Uploading(p) =>
    /\ status[Slug(p)] = NoRow /\ Slug(p) \notin gone
    /\ Slug(p)[2] < next[Slug(p)[1]]
    /\ \A q \in Workers : Uploading(q) /\ Slug(q) = Slug(p) => q = p
    /\ \A f \in Files : Has("live", Slug(p), f) => f \in Pack(p)
    /\ pc[p] = "ingest" => \A f \in Files : ~Has("live", Slug(p), f)
    /\ pc[p] = "put" => todo[p] \subseteq Pack(p) /\ todo[p] # {}
                       /\ \A f \in Pack(p) \ todo[p] : Has("live", Slug(p), f)
    /\ pc[p] = "insert" => \A f \in Pack(p) : Has("live", Slug(p), f)

WorkProgress(p) ==
    LET src == Source(Job(p)) IN Working(p) =>
    /\ status[Slug(p)] = Intent(Job(p))
    /\ pc[p] = "copying" /\ ~failed[p] => \A f \in Files \ todo[p] :
          Has(src, Slug(p), f) => Has(Other(src), Slug(p), f)
    /\ pc[p] \in {"wipe", "wiping", "settle"} /\ Job(p) \in Toggles =>
          /\ \A f \in manifest[Slug(p)] : Has(Other(src), Slug(p), f)
          /\ pc[p] # "settle" => side[p] = src
          /\ pc[p] = "settle" => \A f \in Files : ~Has(src, Slug(p), f)
    /\ pc[p] = "wiping" => \A f \in Files : Has(side[p], Slug(p), f) => f \in todo[p]
    /\ Job(p) = "delete" /\ (pc[p] = "drop" \/ side[p] = "parked") =>
          \A f \in Files : ~Has("live", Slug(p), f)
    /\ pc[p] = "drop" => \A f \in Files : ~Has("parked", Slug(p), f)

IInv ==
    /\ TypeOK
    /\ Exclusion
    /\ \A s \in Slugs : Page(s)
    /\ \A p \in Procs : Control(p) /\ UploadProgress(p) /\ WorkProgress(p)

(***************************************************************************)
(* The abstract specification this one implements: PageCatalog.            *)
(***************************************************************************)
StateOf(st) ==
    CASE st = NoRow       -> "unused"
      [] st = "live"      -> "public"
      [] st = "parking"   -> "hiding"
      [] st = "parked"    -> "hidden"
      [] st = "unparking" -> "showing"
      [] st = "deleting"  -> "removing"

CatalogState ==
    [s \in Slugs |-> IF s \in gone THEN "removed" ELSE StateOf(status[s])]

CatalogFiles == [s \in Slugs |->
    IF status[s] = NoRow THEN {} ELSE Under("live", s) \cup Under("parked", s)]

CatalogVisible == [s \in Slugs |-> Under("live", s)]

Catalog == INSTANCE PageCatalog WITH
    state <- CatalogState, files <- CatalogFiles, visible <- CatalogVisible

\* Uploads, toggles, deletes, failures, crashes and sweeps together are an
\* implementation of the catalog: "restores the page at the same URL with byte-identical
\* content" (page-lifecycle/spec.md), and a deleted page stays deleted.
ImplementsCatalog == Catalog!CatalogSpec

(***************************************************************************)
(* What lifecycle.go:39-41 says of ErrBusy: "a toggle is running in the    *)
(* opposite direction; retry after it settles".                            *)
(***************************************************************************)
BusyMeansRunning ==
    [][\A p \in Workers : pc[p] # "idle" /\ answer'[p] = "busy" =>
          \E q \in Procs \ {p} : Slug(q) = Slug(p)
                                 /\ pc[q] \in {"copy", "copying", "wipe", "wiping", "settle"}
      ]_vars
=============================================================================
