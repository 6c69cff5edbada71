----------------------- MODULE PageLifecycle_proofs -----------------------
(***************************************************************************)
(* Type correctness and the safety invariants of PageLifecycle, for every  *)
(* set of identifiers, files and workers and every bound.                  *)
(*                                                                         *)
(* The types are inductive together with Control, which says which kind of *)
(* request stands at which place: that is what makes Slug(p) an allocated  *)
(* slug wherever a row or an object is written.  IInv is the inductive     *)
(* invariant for the rest; every step of a goroutine changes the row and   *)
(* the objects of its own slug only (Frame), and no two goroutines work on *)
(* one slug (Alone), so a step has to be checked against the page and the  *)
(* progress of the goroutine that takes it.                                *)
(***************************************************************************)
EXTENDS PageLifecycle, TLAPS

Controlled == \A q \in Procs : Control(q)

\* The initial state is well typed, and every goroutine is idle in it.
LEMMA InitTyped == Init => TypeOK /\ Controlled
  BY BoundAssumption, ProcAssumption
  DEF Init, TypeOK, Controlled, Control, Statuses, Places, Requests, NoRequest,
      Jobs, Toggles, AnySlug, NoSlug, Answers, Sides, Procs

\* Whatever ends a request leaves the process state well typed.
LEMMA FinishTyped ==
    ASSUME TypeOK, Controlled, NEW p \in Procs, NEW r \in Answers, Finish(p, r)
    PROVE  /\ phase' \in {"down", "sweeping", "up"}
           /\ sweep' \subseteq Slugs \X Transient
           /\ lock' \in [Slugs -> Procs \cup {Free}]
           /\ pc' \in [Procs -> Places]
           /\ req' \in [Procs -> Requests]
           /\ attempt' \in [Procs -> 0..3]
           /\ answer' \in [Procs -> Answers]
           /\ side' \in [Procs -> Sides]
           /\ todo' \in [Procs -> SUBSET Files]
           /\ failed' \in [Procs -> BOOLEAN]
           /\ Controlled'
<1>1. /\ phase' \in {"down", "sweeping", "up"}
      /\ sweep' \subseteq Slugs \X Transient
      /\ lock' \in [Slugs -> Procs \cup {Free}]
      /\ pc' \in [Procs -> Places]
  BY DEF TypeOK, Finish, Go, boot, Places
<1>2. /\ attempt' \in [Procs -> 0..3]
      /\ answer' \in [Procs -> Answers]
      /\ side' \in [Procs -> Sides]
      /\ todo' \in [Procs -> SUBSET Files]
      /\ failed' \in [Procs -> BOOLEAN]
  BY DEF TypeOK, Finish, SetTodo, Sides
<1>3. req' \in [Procs -> Requests]
  BY DEF TypeOK, Finish, NoRequest, Requests, Jobs, Toggles, AnySlug
<1>4. Controlled'
  BY DEF TypeOK, Finish, Go, Controlled, Control, Slug, Job, Pack, Places
<1> QED BY <1>1, <1>2, <1>3, <1>4

\* So does whatever sends an upload into its clean-up.
LEMMA CleanUpTyped ==
    ASSUME TypeOK, Controlled, NEW p \in Procs, NEW r \in Answers, CleanUp(p, r),
           Job(p) = "upload", pc[p] \notin {"idle", "alloc"}
    PROVE  /\ pc' \in [Procs -> Places]
           /\ req' \in [Procs -> Requests]
           /\ attempt' \in [Procs -> 0..3]
           /\ answer' \in [Procs -> Answers]
           /\ side' \in [Procs -> Sides]
           /\ todo' \in [Procs -> SUBSET Files]
           /\ failed' \in [Procs -> BOOLEAN]
           /\ Controlled'
  BY DEF TypeOK, CleanUp, Go, SetTodo, Places, Controlled, Control, Slug, Job, Pack

\* An upload that changes its slug stays an upload with the same pack.
LEMMA RenameTyped ==
    ASSUME TypeOK, NEW p \in Procs, NEW s \in AnySlug, Rename(p, s)
    PROVE  /\ req' \in [Procs -> Requests]
           /\ Slug(p)' = s /\ Job(p)' = "upload" /\ Pack(p)' = Pack(p)
           /\ \A q \in Procs \ {p} : req'[q] = req[q]
<1>1. Pack(p) \in SUBSET Files BY DEF TypeOK, Requests, Pack
<1>2. [job |-> "upload", slug |-> s, pack |-> Pack(p)] \in Requests
  BY <1>1 DEF Requests, Jobs
<1> QED BY <1>2 DEF Rename, TypeOK, Slug, Job, Pack

\* A request takes its code and its slug, or finds no code left.
LEMMA AllocTyped ==
    ASSUME TypeOK, Controlled, NEW p \in Procs, Alloc(p) \/ AllocError(p)
    PROVE  TypeOK' /\ Controlled'
<1> DEFINE i == Slug(p)[1]
<1>1. At(p, "alloc") BY DEF Alloc, AllocError
<1>2. /\ i \in Identifiers /\ Slug(p) = <<i, 0>> /\ Job(p) = "upload" /\ p \in Workers
      /\ Index \in Pack(p) /\ attempt[p] \in 0..2
  BY <1>1 DEF At, Controlled, Control, TypeOK
<1>3. next[i] \in 1..(MaxCode + 1) BY <1>2 DEF TypeOK
<1>4. next' \in [Identifiers -> 1..(MaxCode + 1)]
  BY <1>2, <1>3, BoundAssumption DEF TypeOK, Alloc, AllocError
<1>5. CASE Finish(p, "error") /\ UNCHANGED <<bucket, status, manifest, gone>>
  <2>1. faults' \in 0..MaxFaults
    BY BoundAssumption DEF TypeOK, Alloc, AllocError, Fault
  <2> QED BY <1>4, <1>5, <2>1, FinishTyped DEF TypeOK, Answers
<1>6. CASE next[i] <= MaxCode /\ Alloc(p) /\ ~Finish(p, "error")
  <2>1. <<i, next[i]>> \in Slugs BY <1>2, <1>3, <1>6 DEF Slugs
  <2>2. Rename(p, <<i, next[i]>>) BY <1>6 DEF Alloc
  <2>3. /\ req' \in [Procs -> Requests]
        /\ Slug(p)' \in Slugs /\ Job(p)' = "upload" /\ Pack(p)' = Pack(p)
        /\ \A q \in Procs \ {p} : req'[q] = req[q]
    BY <2>1, <2>2, RenameTyped DEF AnySlug
  <2>4. attempt' \in [Procs -> 0..3] BY <1>2, <1>6 DEF Alloc, TypeOK
  <2>5. pc' = [pc EXCEPT ![p] = "ingest"] /\ pc' \in [Procs -> Places]
    BY <1>6 DEF Alloc, Go, Places, TypeOK
  <2>6. Controlled'
    <3> SUFFICES ASSUME NEW q \in Procs PROVE Control(q)' BY DEF Controlled
    <3>1. UNCHANGED side BY <1>6 DEF Alloc, driver
    <3>2. CASE q = p
      BY <1>2, <2>3, <2>5, <3>1, <3>2 DEF Controlled, Control, TypeOK
    <3>3. CASE q # p
      BY <1>6, <2>3, <2>5, <3>1, <3>3
      DEF Alloc, Controlled, Control, Slug, Job, Pack, TypeOK
    <3> QED BY <3>2, <3>3
  <2> QED BY <1>4, <1>6, <2>3, <2>4, <2>5, <2>6 DEF Alloc, TypeOK, boot, driver
<1> QED BY <1>5, <1>6 DEF Alloc, AllocError

\* Every other step of an upload up to its row.
LEMMA UploadTyped ==
    ASSUME TypeOK, Controlled, NEW p \in Procs,
           Ingest(p) \/ IngestReject(p) \/ Put(p) \/ PutError(p) \/ Insert(p) \/ InsertError(p)
    PROVE  TypeOK' /\ Controlled'
<1>1. /\ pc[p] \in {"ingest", "put", "insert"} /\ Slug(p) \in Slugs /\ Job(p) = "upload"
  BY DEF Ingest, IngestReject, Put, PutError, Insert, InsertError, At, Controlled, Control
<1>2. Pack(p) \in SUBSET Files BY DEF TypeOK, Requests, Pack
<1>3. CASE Ingest(p)
  BY <1>1, <1>2, <1>3
  DEF Ingest, Go, SetTodo, TypeOK, Places, rows, boot, call, Controlled, Control,
      Slug, Job, Pack
<1>4. CASE IngestReject(p)
  BY <1>1, <1>4, CleanUpTyped DEF IngestReject, TypeOK, Answers, rows, boot
<1>5. CASE Put(p)
  BY <1>1, <1>5
  DEF Put, NextPut, At, Go, SetTodo, TypeOK, Places, rows, boot, call, Controlled,
      Control, Slug, Job, Pack, Sides
<1>6. CASE PutError(p)
  <2>1. bucket' \subseteq Sides \X Slugs \X Files
    BY <1>1, <1>6, IndexAssumption DEF PutError, NextPut, TypeOK, Sides
  <2>2. faults' \in 0..MaxFaults BY <1>6, BoundAssumption DEF PutError, Fault, TypeOK
  <2> QED BY <1>1, <1>6, <2>1, <2>2, CleanUpTyped DEF PutError, TypeOK, Answers, rows, boot
<1>7. CASE Insert(p)
  <2>1. CASE Finish(p, "created") /\ status' = [status EXCEPT ![Slug(p)] = "live"]
            /\ manifest' = [manifest EXCEPT ![Slug(p)] = Pack(p)]
    BY <1>1, <1>2, <1>7, <2>1, FinishTyped DEF TypeOK, Insert, Answers, Statuses, Settled
  <2>2. CASE CleanUp(p, "none") /\ UNCHANGED <<status, manifest, boot, lock>>
    BY <1>1, <1>7, <2>2, CleanUpTyped DEF TypeOK, Insert, Answers, boot
  <2> QED BY <1>7, <2>1, <2>2 DEF Insert
<1>8. CASE InsertError(p)
  <2>1. faults' \in 0..MaxFaults BY <1>8, BoundAssumption DEF InsertError, Fault, TypeOK
  <2> QED BY <1>1, <1>8, <2>1, CleanUpTyped DEF InsertError, TypeOK, Answers, rows, boot
<1> QED BY <1>3, <1>4, <1>5, <1>6, <1>7, <1>8

\* The copies a toggle makes are objects of its slug.
LEMMA CopiedTyped ==
    ASSUME NEW p, Slug(p) \in Slugs, NEW f
    PROVE  Copied(p, f) \subseteq Sides \X Slugs \X Files
<1> DEFINE to == Other(Source(Job(p)))
<1>1. to \in Sides BY DEF Other, Source, Sides
<1>2. Under(Source(Job(p)), Slug(p)) \subseteq Files BY DEF Under
<1> HIDE DEF to
<1>3. Copied(p, f) = {<<to, Slug(p), g>> : g \in {f} \cap Under(Source(Job(p)), Slug(p))}
  BY DEF Copied, to
<1> QED BY <1>1, <1>2, <1>3

\* Every step of a Copy.
LEMMA CopyTyped ==
    ASSUME TypeOK, Controlled, NEW p \in Procs,
           CopyList(p) \/ CopyListError(p) \/ CopyOne(p) \/ CopyOneError(p) \/ CopyDone(p)
    PROVE  TypeOK' /\ Controlled'
<1>1. pc[p] \in {"copy", "copying"} /\ Slug(p) \in Slugs /\ Job(p) \in Toggles
  BY DEF CopyList, CopyListError, CopyOne, CopyOneError, CopyDone, At, Controlled, Control
<1>2. \A f : Copied(p, f) \subseteq Sides \X Slugs \X Files BY <1>1, CopiedTyped
<1>3. CASE CopyList(p)
  BY <1>1, <1>3
  DEF CopyList, Under, Go, SetTodo, TypeOK, Places, rows, boot, call, Controlled,
      Control, Slug, Job, Pack
<1>4. CASE CopyListError(p)
  <2>1. faults' \in 0..MaxFaults BY <1>4, BoundAssumption DEF CopyListError, Fault, TypeOK
  <2>2. \A S \in SUBSET Under(Source(Job(p)), Slug(p)) : S \subseteq Files BY DEF Under
  <2>3. todo' \in [Procs -> SUBSET Files]
    BY <1>4, <2>2 DEF CopyListError, SetTodo, TypeOK
  <2> QED
    BY <1>1, <1>4, <2>1, <2>3
    DEF CopyListError, Go, TypeOK, Places, rows, boot, call, Controlled, Control, Slug,
        Job, Pack
<1>5. CASE CopyOne(p)
  BY <1>2, <1>5
  DEF CopyOne, SetTodo, TypeOK, rows, boot, call, Controlled, Control, Slug, Job, Pack
<1>6. CASE CopyOneError(p)
  <2>1. faults' \in 0..MaxFaults BY <1>6, BoundAssumption DEF CopyOneError, Fault, TypeOK
  <2>2. bucket' \subseteq Sides \X Slugs \X Files BY <1>2, <1>6 DEF CopyOneError, TypeOK
  <2> QED
    BY <1>6, <2>1, <2>2
    DEF CopyOneError, SetTodo, TypeOK, rows, boot, call, Controlled, Control, Slug, Job, Pack
<1>7. CASE CopyDone(p)
  <2>1. CASE Finish(p, "error")
    BY <1>7, <2>1, FinishTyped DEF CopyDone, TypeOK, Answers, rows
  <2>2. CASE ~Finish(p, "error")
    <3>1. /\ Go(p, "wipe") /\ side' = [side EXCEPT ![p] = Source(Job(p))]
          /\ UNCHANGED <<bucket, rows, boot, lock, call, todo, failed, faults>>
      BY <1>7, <2>2 DEF CopyDone
    <3>2. Source(Job(p)) \in Sides /\ Job(p) # "upload"
      BY <1>1 DEF Source, Sides, Toggles
    <3>3. pc' \in [Procs -> Places] /\ side' \in [Procs -> Sides]
      BY <3>1, <3>2 DEF Go, Places, TypeOK
    <3>4. Controlled'
      BY <1>1, <3>1, <3>2 DEF Go, Controlled, Control, Slug, Job, Pack, call, TypeOK
    <3> QED BY <3>1, <3>3, <3>4 DEF TypeOK, rows, boot, call
  <2> QED BY <2>1, <2>2
<1> QED BY <1>3, <1>4, <1>5, <1>6, <1>7

\* An upload that has cleaned up answers, or starts its next attempt.
LEMMA CleanedUpTyped ==
    ASSUME TypeOK, Controlled, NEW p \in Procs, CleanedUp(p), Job(p) = "upload",
           pc[p] \in {"wipe", "wiping"}
    PROVE  /\ phase' \in {"down", "sweeping", "up"}
           /\ sweep' \subseteq Slugs \X Transient
           /\ lock' \in [Slugs -> Procs \cup {Free}]
           /\ pc' \in [Procs -> Places]
           /\ req' \in [Procs -> Requests]
           /\ attempt' \in [Procs -> 0..3]
           /\ answer' \in [Procs -> Answers]
           /\ side' \in [Procs -> Sides]
           /\ todo' \in [Procs -> SUBSET Files]
           /\ failed' \in [Procs -> BOOLEAN]
           /\ Controlled'
<1>1. Slug(p) \in Slugs /\ Index \in Pack(p) /\ p \in Workers
  BY DEF Controlled, Control
<1>2. CASE Finish(p, "error") BY <1>2, FinishTyped DEF Answers
<1>3. CASE ~Finish(p, "error")
  <2> DEFINE fresh == <<Slug(p)[1], 0>>
  <2>1. attempt[p] < 3 /\ Rename(p, fresh) /\ Go(p, "alloc") /\ SetTodo(p, {})
        /\ UNCHANGED <<boot, lock, attempt, answer, side, failed>>
    BY <1>3 DEF CleanedUp
  <2>2. fresh \in Identifiers \X {0} BY <1>1 DEF Slugs
  <2> HIDE DEF fresh
  <2>3. /\ req' \in [Procs -> Requests]
        /\ Slug(p)' = fresh /\ Job(p)' = "upload" /\ Pack(p)' = Pack(p)
        /\ \A q \in Procs \ {p} : req'[q] = req[q]
    BY <2>1, <2>2, RenameTyped DEF AnySlug
  <2>4. pc' = [pc EXCEPT ![p] = "alloc"] /\ pc' \in [Procs -> Places]
    BY <2>1 DEF Go, Places, TypeOK
  <2>5. Controlled'
    <3> SUFFICES ASSUME NEW q \in Procs PROVE Control(q)' BY DEF Controlled
    <3>1. CASE q = p
      BY <1>1, <2>1, <2>2, <2>3, <2>4, <3>1 DEF Controlled, Control, TypeOK
    <3>2. CASE q # p
      BY <2>1, <2>3, <2>4, <3>2 DEF Controlled, Control, Slug, Job, Pack, TypeOK
    <3> QED BY <3>1, <3>2
  <2> QED BY <2>1, <2>3, <2>4, <2>5 DEF TypeOK, boot, SetTodo
<1> QED BY <1>2, <1>3

\* Every step of a DeletePrefix.
LEMMA WipeTyped ==
    ASSUME TypeOK, Controlled, NEW p \in Procs,
           WipeList(p) \/ WipeOne(p) \/ WipeDone(p) \/ WipeError(p)
    PROVE  TypeOK' /\ Controlled'
<1>1. pc[p] \in {"wipe", "wiping"} /\ Slug(p) \in Slugs
  BY DEF WipeList, WipeOne, WipeDone, WipeError, At, Controlled, Control
<1>2. Job(p) \in Jobs BY DEF TypeOK, Requests, Job
<1>3. CASE WipeList(p)
  BY <1>1, <1>3
  DEF WipeList, Under, Go, SetTodo, TypeOK, Places, rows, boot, call, Controlled,
      Control, Slug, Job, Pack
<1>4. CASE WipeOne(p)
  BY <1>4
  DEF WipeOne, SetTodo, TypeOK, rows, boot, call, Controlled, Control, Slug, Job, Pack
<1>5. CASE WipeDone(p)
  <2>1. CASE Job(p) = "upload"
    BY <1>1, <1>5, <2>1, CleanedUpTyped DEF WipeDone, TypeOK, rows
  <2>2. CASE Job(p) # "upload"
    <3>1. /\ Go(p, AfterWipe(p))
          /\ side' = [side EXCEPT ![p] = IF Job(p) = "delete" THEN "parked" ELSE @]
          /\ UNCHANGED <<boot, lock, call, todo, failed, bucket, rows, faults>>
      BY <1>5, <2>2 DEF WipeDone
    <3>2. /\ AfterWipe(p) \in {"settle", "wipe", "drop"}
          /\ AfterWipe(p) = "settle" => Job(p) \in Toggles
          /\ AfterWipe(p) = "drop" => Job(p) = "delete"
      BY <1>2, <2>2 DEF AfterWipe, Jobs
    <3>3. pc' \in [Procs -> Places] BY <3>1, <3>2 DEF Go, Places, TypeOK
    <3>4. side' \in [Procs -> Sides] BY <3>1 DEF Sides, TypeOK
    <3>5. Controlled'
      <4> HIDE DEF Toggles
      <4> QED
        BY <1>1, <2>2, <3>1, <3>2 DEF Go, Controlled, Control, Slug, Job, Pack, call, TypeOK
    <3> QED BY <3>1, <3>3, <3>4, <3>5 DEF TypeOK, rows, boot, call
  <2> QED BY <2>1, <2>2
<1>6. CASE WipeError(p)
  <2>1. faults' \in 0..MaxFaults BY <1>6, BoundAssumption DEF WipeError, Fault, TypeOK
  <2>2. bucket' \subseteq Sides \X Slugs \X Files BY <1>6 DEF WipeError, TypeOK
  <2>3. CASE Job(p) = "upload"
    BY <1>1, <1>6, <2>1, <2>2, <2>3, CleanedUpTyped DEF WipeError, TypeOK, rows
  <2>4. CASE Job(p) # "upload"
    BY <1>6, <2>1, <2>2, <2>4, FinishTyped DEF WipeError, TypeOK, rows, Answers
  <2> QED BY <2>3, <2>4
<1> QED BY <1>3, <1>4, <1>5, <1>6

\* A verdict is one of the answers, and so is what a toggle ends in.
LEMMA VerdictTyped ==
    ASSUME NEW job \in Jobs, NEW st PROVE Verdict(job, st) \in Answers
  BY DEF Verdict, Done, Answers, Jobs, Toggles

\* Every step of a lifecycle operation on its mutex and its row.
LEMMA RowTyped ==
    ASSUME TypeOK, Controlled, NEW p \in Procs,
           \/ Lock(p) \/ Mark(p) \/ MarkError(p) \/ Ask(p) \/ AskError(p)
           \/ Settle(p) \/ SettleError(p) \/ Drop(p) \/ DropError(p)
    PROVE  TypeOK' /\ Controlled'
<1>1. /\ pc[p] \in {"lock", "mark", "ask", "settle", "drop"}
      /\ Slug(p) \in Slugs /\ Job(p) # "upload"
      /\ pc[p] = "settle" => Job(p) \in Toggles
  BY DEF Lock, Mark, MarkError, Ask, AskError, Settle, SettleError, Drop, DropError, At,
         Controlled, Control, Toggles
<1>2. Job(p) \in Jobs \ {"upload"} BY <1>1 DEF TypeOK, Requests, Job
<1>3. Intent(Job(p)) \in Statuses
  BY <1>2 DEF Intent, Statuses, Transient, Jobs, Toggles
<1>4. Done(Job(p)) \in Statuses /\ Done(Job(p)) \in Answers
  BY DEF Done, Statuses, Settled, Answers
<1>5. CASE Lock(p)
  <2>1. /\ lock' \in [Slugs -> Procs \cup {Free}] /\ pc' \in [Procs -> Places]
        /\ UNCHANGED <<bucket, rows, boot, call, driver, faults>>
    BY <1>1, <1>5 DEF Lock, Go, Places, TypeOK
  <2>2. Controlled'
    BY <1>1, <1>5
    DEF Lock, At, Go, Controlled, Control, Slug, Job, Pack, call, driver, TypeOK
  <2> QED BY <2>1, <2>2 DEF TypeOK, rows, boot, call, driver
<1>6. CASE Mark(p)
  <2>1. /\ FirstPlace(Job(p)) \in {"wipe", "copy"}
        /\ FirstPlace(Job(p)) = "copy" => Job(p) \in Toggles
    BY <1>2 DEF FirstPlace, Jobs, Toggles
  <2>2. status' \in [Slugs -> Statuses \cup {NoRow}] BY <1>3, <1>6 DEF Mark, TypeOK
  <2>3. pc' \in [Procs -> Places] BY <1>6, <2>1 DEF Mark, Go, Places, TypeOK
  <2>4. Controlled'
    BY <1>1, <1>6, <2>1
    DEF Mark, Go, Controlled, Control, Slug, Job, Pack, call, driver, TypeOK
  <2> QED BY <1>6, <2>2, <2>3, <2>4 DEF Mark, TypeOK, rows, boot, call, driver
<1>7. CASE MarkError(p)
  <2>1. faults' \in 0..MaxFaults BY <1>7, BoundAssumption DEF MarkError, Fault, TypeOK
  <2>2. status' \in [Slugs -> Statuses \cup {NoRow}] BY <1>3, <1>7 DEF MarkError, TypeOK
  <2> QED BY <1>7, <2>1, <2>2, FinishTyped DEF MarkError, TypeOK, Answers
<1>8. CASE Ask(p)
  BY <1>2, <1>8, VerdictTyped, FinishTyped DEF Ask, TypeOK, rows
<1>9. CASE AskError(p)
  <2>1. faults' \in 0..MaxFaults BY <1>9, BoundAssumption DEF AskError, Fault, TypeOK
  <2> QED BY <1>9, <2>1, FinishTyped DEF AskError, TypeOK, rows, Answers
<1>10. CASE Settle(p)
  <2>1. status' \in [Slugs -> Statuses \cup {NoRow}] BY <1>4, <1>10 DEF Settle, TypeOK
  <2>2. \E r \in Answers : Finish(p, r) BY <1>4, <1>10 DEF Settle, Answers
  <2> QED BY <1>10, <2>1, <2>2, FinishTyped DEF Settle, TypeOK
<1>11. CASE SettleError(p)
  <2>1. faults' \in 0..MaxFaults BY <1>11, BoundAssumption DEF SettleError, Fault, TypeOK
  <2>2. status' \in [Slugs -> Statuses \cup {NoRow}] BY <1>4, <1>11 DEF SettleError, TypeOK
  <2> QED BY <1>11, <2>1, <2>2, FinishTyped DEF SettleError, TypeOK, Answers
<1>12. RemoveRow(Slug(p)) => /\ status' \in [Slugs -> Statuses \cup {NoRow}]
                             /\ manifest' \in [Slugs -> SUBSET Files]
                             /\ gone' \subseteq Slugs
  BY <1>1 DEF RemoveRow, TypeOK
<1>13. CASE Drop(p)
  <2>1. \E r \in Answers : Finish(p, r) BY <1>13 DEF Drop, Answers
  <2> QED BY <1>12, <1>13, <2>1, FinishTyped DEF Drop, TypeOK
<1>14. CASE DropError(p)
  <2>1. faults' \in 0..MaxFaults BY <1>14, BoundAssumption DEF DropError, Fault, TypeOK
  <2> QED BY <1>12, <1>14, <2>1, FinishTyped DEF DropError, TypeOK, Answers
<1> QED BY <1>5, <1>6, <1>7, <1>8, <1>9, <1>10, <1>11, <1>13, <1>14

\* A request arrives.
LEMMA RequestTyped ==
    ASSUME TypeOK, Controlled, NEW p \in Workers, Request(p)
    PROVE  TypeOK' /\ Controlled'
<1>1. p \in Procs BY DEF Procs
<1>2. PICK place \in {"lock", "alloc"}, r \in Requests :
        /\ Arrive(p, place, r)
        /\ place = "lock" => r.job # "upload" /\ r.slug \in Slugs
        /\ place = "alloc" => r.job = "upload" /\ r.slug \in Identifiers \X {0}
                              /\ Index \in r.pack
  <2>1. CASE RequestLifecycle(p)
    BY <2>1 DEF RequestLifecycle, Requests, AnySlug, Jobs
  <2>2. CASE RequestUpload(p)
    <3>1. PICK i \in Identifiers, pack \in SUBSET Files :
            Index \in pack
            /\ Arrive(p, "alloc", [job |-> "upload", slug |-> <<i, 0>>, pack |-> pack])
      BY <2>2 DEF RequestUpload
    <3>2. [job |-> "upload", slug |-> <<i, 0>>, pack |-> pack] \in Requests
      BY DEF Requests, AnySlug, Jobs
    <3> QED BY <3>1, <3>2
  <2> QED BY <2>1, <2>2 DEF Request
<1>3. attempt[p] = 0 BY <1>1, <1>2 DEF Arrive, At, Controlled, Control
<1> QED
  BY <1>1, <1>2, <1>3
  DEF Arrive, Go, At, TypeOK, Places, Answers, rows, boot, driver, Controlled, Control,
      Slug, Job, Pack

\* Boot, the resumption of a row, the listener and a crash.
LEMMA BootTyped ==
    ASSUME TypeOK, Controlled, Start \/ Resume \/ Listen \/ Crash
    PROVE  TypeOK' /\ Controlled'
<1>1. CASE Start
  BY <1>1 DEF Start, TypeOK, rows, call, driver, Controlled, Control, Slug, Job, Pack
<1>2. CASE Resume
  <2>1. Boot \in Procs BY DEF Procs
  <2>2. PICK r \in sweep :
          /\ lock' = [lock EXCEPT ![r[1]] = Boot]
          /\ sweep' = sweep \ {r}
          /\ req' = [req EXCEPT ![Boot] =
                       [job |-> JobOf(r[2]), slug |-> r[1], pack |-> {}]]
          /\ Go(Boot, FirstPlace(JobOf(r[2])))
    BY <1>2 DEF Resume
  <2>3. r[1] \in Slugs /\ r[2] \in Transient BY DEF TypeOK
  <2>4. JobOf(r[2]) \in {"park", "unpark", "delete"}
    BY <2>3 DEF JobOf, Transient
  <2>5. [job |-> JobOf(r[2]), slug |-> r[1], pack |-> {}] \in Requests
    BY <2>3, <2>4 DEF Requests, Jobs, Toggles, AnySlug
  <2>6. /\ FirstPlace(JobOf(r[2])) \in {"wipe", "copy"}
        /\ FirstPlace(JobOf(r[2])) = "copy" => JobOf(r[2]) \in Toggles
    BY <2>4 DEF FirstPlace, Toggles
  <2>7. At(Boot, "idle")  /\ UNCHANGED <<bucket, rows, phase, attempt, answer, driver, faults>>
    BY <1>2 DEF Resume
  <2>8. lock' \in [Slugs -> Procs \cup {Free}] /\ sweep' \subseteq Slugs \X Transient
    BY <2>1, <2>2, <2>3 DEF TypeOK
  <2>9. pc' = [pc EXCEPT ![Boot] = FirstPlace(JobOf(r[2]))] /\ pc' \in [Procs -> Places]
    BY <2>2, <2>6 DEF Go, Places, TypeOK
  <2>10. Controlled'
    <3> SUFFICES ASSUME NEW q \in Procs PROVE Control(q)' BY DEF Controlled
    <3>1. CASE q = Boot
      BY <2>1, <2>2, <2>3, <2>4, <2>6, <2>9, <3>1 DEF Control, Slug, Job, TypeOK
    <3>2. CASE q # Boot
      BY <2>2, <2>7, <2>9, <3>2
      DEF driver, Controlled, Control, Slug, Job, Pack, TypeOK
    <3> QED BY <3>1, <3>2
  <2> QED BY <2>2, <2>5, <2>7, <2>8, <2>9, <2>10 DEF TypeOK, rows, driver
<1>3. CASE Listen
  BY <1>3 DEF Listen, TypeOK, rows, call, driver, Controlled, Control, Slug, Job, Pack
<1>4. CASE Crash
  <2>1. faults' \in 0..MaxFaults BY <1>4, BoundAssumption DEF Crash, Fault, TypeOK
  <2>2. NoRequest \in Requests BY DEF NoRequest, Requests, Jobs, AnySlug
  <2> QED
    BY <1>4, <2>1, <2>2
    DEF Crash, TypeOK, rows, Places, Answers, Sides, Controlled, Control, NoRequest, Job
<1> QED BY <1>1, <1>2, <1>3, <1>4

\* Types and control are inductive.
LEMMA NextTyped ==
    ASSUME TypeOK, Controlled, [Next]_vars PROVE TypeOK' /\ Controlled'
<1>1. CASE \E p \in Workers : Request(p) BY <1>1, RequestTyped
<1>2. ASSUME NEW p \in Procs, Work(p) \/ Failure(p) PROVE TypeOK' /\ Controlled'
  BY <1>2, AllocTyped, UploadTyped, CopyTyped, WipeTyped, RowTyped
  DEF Work, Failure, UploadStep, DriverStep, RowStep
<1>3. CASE Start \/ Resume \/ Listen \/ Crash BY <1>3, BootTyped
<1>4. CASE UNCHANGED vars
  BY <1>4
  DEF vars, rows, boot, call, driver, TypeOK, Controlled, Control, Slug, Job, Pack
<1> QED BY <1>1, <1>2, <1>3, <1>4 DEF Next

\* Every reachable state is well typed: an object is always under an allocated
\* slug's prefix, a row is written only under an allocated slug, and the loop
\* in upload.create makes at most three attempts.
THEOREM TypeCorrect == Spec => []TypeOK
<1>1. Init => TypeOK /\ Controlled BY InitTyped
<1>2. TypeOK /\ Controlled /\ [Next]_vars => (TypeOK /\ Controlled)' BY NextTyped
<1> QED BY <1>1, <1>2, PTL DEF Spec

-----------------------------------------------------------------------------
\* The row and the objects of slug s stay as they are.
Same(s) ==
    /\ status'[s] = status[s] /\ manifest'[s] = manifest[s]
    /\ s \in gone' <=> s \in gone
    /\ \A prefix \in Sides, f \in Files : Has(prefix, s, f)' <=> Has(prefix, s, f)

\* A step of p: no other goroutine moves.
OthersIdle(p) ==
    \A q \in Procs \ {p} : /\ pc'[q] = pc[q] /\ req'[q] = req[q]
                           /\ side'[q] = side[q] /\ todo'[q] = todo[q]
                           /\ failed'[q] = failed[q]

\* A step of p that leaves every other goroutine and every slug but s alone.
Frame(p, s) ==
    /\ next' = next
    /\ \A t \in Slugs \ {s} : Same(t)
    /\ OthersIdle(p)

\* No goroutine but p uploads to slug s or works on it.
Alone(p, s) == \A q \in Procs \ {p} : Uploading(q) \/ Working(q) => Slug(q) # s

\* Uploads are alone on their slugs, and so is whoever has recorded an intent.
LEMMA UploadAlone ==
    ASSUME IInv, NEW p \in Procs, Uploading(p) PROVE Alone(p, Slug(p))
<1> SUFFICES ASSUME NEW q \in Procs \ {p}, Uploading(q) \/ Working(q), Slug(q) = Slug(p)
             PROVE  FALSE
  BY DEF Alone
<1>1. p \in Workers /\ status[Slug(p)] = NoRow
  BY DEF IInv, Control, UploadProgress, Uploading
<1>2. CASE Uploading(q)
  BY <1>1, <1>2 DEF IInv, Control, UploadProgress, Uploading
<1>3. CASE Working(q)
  <2>1. Job(q) \in Jobs \ {"upload"}
    BY <1>3 DEF Working, Holding, IInv, TypeOK, Requests, Job
  <2>2. Intent(Job(q)) # NoRow BY <2>1 DEF Intent, NoRow, Jobs, Toggles
  <2> QED BY <1>1, <1>3, <2>2 DEF IInv, WorkProgress
<1> QED BY <1>2, <1>3

\* Whoever works on a slug does so alone: no other process is inside an
\* operation on it.
LEMMA WorkAlone ==
    ASSUME IInv, NEW p \in Procs, Holding(p), status[Slug(p)] # NoRow
    PROVE  Alone(p, Slug(p))
  BY DEF IInv, Exclusion, Alone, Working, UploadProgress

\* What p's step leaves alone stays as the invariant wants it.
LEMMA Others ==
    ASSUME IInv, NEW p \in Procs, NEW s \in Slugs, Frame(p, s),
           Same(s) \/ Alone(p, s),
           Uploading(p)' => Uploading(p) /\ Slug(p)' = Slug(p)
    PROVE  /\ \A t \in Slugs : Same(t) => Page(t)'
           /\ \A q \in Procs \ {p} : UploadProgress(q)' /\ WorkProgress(q)'
<1>1. ASSUME NEW t \in Slugs, Same(t) PROVE Page(t)'
  <2>1. Page(t) /\ next' = next BY DEF IInv, Frame, OthersIdle
  <2>2. status[t] \in Statuses \cup {NoRow} BY DEF IInv, TypeOK
  <2> QED
    BY <1>1, <2>1, <2>2
    DEF Page, Same, Sides, Other, Settled, Transient, Statuses
<1>2. ASSUME NEW q \in Procs \ {p} PROVE UploadProgress(q)'
  <2> SUFFICES ASSUME Uploading(q)' PROVE UploadProgress(q)' BY DEF UploadProgress
  <2>1. Uploading(q) /\ Slug(q)' = Slug(q) /\ Pack(q)' = Pack(q) /\ pc'[q] = pc[q]
        /\ todo'[q] = todo[q] /\ next' = next
    BY DEF Frame, OthersIdle, Uploading, Slug, Job, Pack
  <2>2. Slug(q) \in Slugs /\ UploadProgress(q) BY <2>1 DEF IInv, Control, Uploading
  <2>3. PICK t \in Slugs : t = Slug(q) /\ Same(t) BY <2>1, <2>2 DEF Frame, OthersIdle, Alone
  <2>4. \A r \in Procs : Uploading(r)' => Uploading(r) /\ Slug(r)' = Slug(r)
    BY DEF Frame, OthersIdle, Uploading, Slug, Job
  <2>5. \A r \in Workers : Uploading(r)' /\ Slug(r)' = Slug(q)' => r = q
    BY <2>1, <2>2, <2>4 DEF UploadProgress, Procs
  <2>6. \A f \in Files : <<"live", t, f>> \in bucket' <=> <<"live", t, f>> \in bucket
    BY <2>3 DEF Same, Has, Sides
  <2>7. /\ status'[t] = NoRow /\ t \notin gone' /\ t[2] < next'[t[1]]
        /\ \A f \in Files : <<"live", t, f>> \in bucket' => f \in Pack(q)
    BY <2>1, <2>2, <2>3, <2>6 DEF UploadProgress, Same, Has
  <2>8. /\ pc[q] = "ingest" => \A f \in Files : <<"live", t, f>> \notin bucket'
        /\ pc[q] = "put" => todo[q] \subseteq Pack(q) /\ todo[q] # {}
                       /\ \A f \in Pack(q) \ todo[q] : <<"live", t, f>> \in bucket'
        /\ pc[q] = "insert" => \A f \in Pack(q) : <<"live", t, f>> \in bucket'
    <3>1. Pack(q) \subseteq Files BY DEF IInv, TypeOK, Requests, Pack
    <3> QED BY <2>1, <2>2, <2>3, <2>6, <3>1 DEF UploadProgress, Has
  <2> QED BY <2>1, <2>3, <2>5, <2>7, <2>8 DEF UploadProgress, Has
<1>3. ASSUME NEW q \in Procs \ {p} PROVE WorkProgress(q)'
  <2> SUFFICES ASSUME Working(q)' PROVE WorkProgress(q)' BY DEF WorkProgress
  <2>1. Working(q) /\ Slug(q)' = Slug(q) /\ Job(q)' = Job(q) /\ pc'[q] = pc[q]
        /\ todo'[q] = todo[q] /\ side'[q] = side[q] /\ failed'[q] = failed[q]
    BY DEF Frame, OthersIdle, Working, Holding, Slug, Job
  <2>2. Slug(q) \in Slugs /\ WorkProgress(q) /\ side[q] \in Sides
    BY <2>1 DEF IInv, Control, Working, Holding, TypeOK
  <2>3. PICK t \in Slugs : t = Slug(q) /\ Same(t) BY <2>1, <2>2 DEF Frame, OthersIdle, Alone
  <2>4. Source(Job(q)) \in Sides /\ Other(Source(Job(q))) \in Sides
    BY DEF Source, Other, Sides
  <2>5. "live" \in Sides /\ "parked" \in Sides BY DEF Sides
  <2> DEFINE src == Source(Job(q))
  <2>6. \A prefix \in Sides, f \in Files :
          <<prefix, t, f>> \in bucket' <=> <<prefix, t, f>> \in bucket
    BY <2>3 DEF Same, Has
  <2>7. /\ status'[t] = status[t] /\ manifest'[t] = manifest[t]
        /\ manifest[t] \subseteq Files
    BY <2>3 DEF Same, IInv, TypeOK
  <2>8. src' = src BY <2>1
  <2> HIDE DEF Sides, src
  <2> QED BY <2>1, <2>2, <2>3, <2>4, <2>5, <2>6, <2>7, <2>8 DEF WorkProgress, Has, src
<1> QED BY <1>1, <1>2, <1>3 DEF Frame, OthersIdle

\* Nothing runs before the listener but Sweep, and Sweep never uploads.
LEMMA Running ==
    ASSUME IInv, NEW p \in Procs, pc[p] # "idle"
    PROVE  /\ phase = IF p = Boot THEN "sweeping" ELSE "up"
           /\ p = Boot => Job(p) # "upload"
  BY ProcAssumption DEF IInv, Exclusion, Control, Procs

\* While Sweep runs a step changes no row that is still to be resumed.
LEMMA SweepKept ==
    ASSUME IInv, NEW p \in Procs, pc[p] # "idle", NEW s \in Slugs, s = Slug(p),
           Frame(p, s), UNCHANGED sweep
    PROVE  \A r \in sweep' : status'[r[1]] = r[2]
<1> SUFFICES ASSUME NEW r \in sweep PROVE status'[r[1]] = r[2] OBVIOUS
<1>1. p = Boot BY Running DEF IInv, Exclusion
<1>2. r[1] \in Slugs \ {s} /\ status[r[1]] = r[2]
  BY <1>1 DEF IInv, TypeOK, Exclusion
<1> QED BY <1>2 DEF Frame, OthersIdle, Same

\* A step of p that does not end its request.
LEMMA Onward ==
    ASSUME IInv, NEW p \in Procs, pc[p] # "idle", NEW s \in Slugs, s = Slug(p),
           TypeOK', Controlled', Frame(p, s),
           Same(s) \/ (Alone(p, s) /\ Page(s)'),
           Uploading(p)' => Uploading(p) /\ Slug(p)' = Slug(p),
           UNCHANGED <<boot, lock>>,
           pc'[p] # "idle",
           p = Boot => Slug(p)' = Slug(p),
           Holding(p)' => Holding(p) /\ Slug(p)' = Slug(p),
           UploadProgress(p)', WorkProgress(p)'
    PROVE  IInv'
<1>1. Exclusion'
  <2>1. phase' # "up" => \A w \in Workers : pc'[w] = "idle"
    BY Running DEF IInv, Exclusion, boot, Frame, OthersIdle, Procs
  <2>2. phase' # "sweeping" => pc'[Boot] = "idle" /\ sweep' = {}
    BY Running DEF IInv, Exclusion, boot, Frame, OthersIdle, Procs
  <2>3. \A q \in Procs : Holding(q)' => lock'[Slug(q)'] = q
    BY DEF IInv, Exclusion, Frame, OthersIdle, Holding, Slug, Job
  <2>4. \A r \in sweep' : status'[r[1]] = r[2] BY SweepKept DEF boot
  <2>5. \A r \in sweep' : pc'[Boot] # "idle" => Slug(Boot)' # r[1]
    BY Running DEF IInv, Exclusion, Frame, OthersIdle, Slug, boot, Procs
  <2> QED BY <2>1, <2>2, <2>3, <2>4, <2>5 DEF Exclusion
<1>2. \A t \in Slugs : Page(t)' BY Others DEF Frame, OthersIdle
<1>3. \A q \in Procs : UploadProgress(q)' /\ WorkProgress(q)' BY Others
<1> QED BY <1>1, <1>2, <1>3 DEF IInv, Controlled

\* A step of p that ends its request, or one of Sweep's rows.
LEMMA Ending ==
    ASSUME IInv, NEW p \in Procs, pc[p] # "idle", NEW s \in Slugs, s = Slug(p),
           TypeOK', Controlled', Frame(p, s),
           Same(s) \/ (Alone(p, s) /\ Page(s)'),
           NEW r, Finish(p, r)
    PROVE  IInv'
<1>1. pc'[p] = "idle" BY DEF Finish, Go, IInv, TypeOK
<1>2. ~Uploading(p)' /\ ~Holding(p)' /\ ~Working(p)'
  BY <1>1 DEF Uploading, Holding, Working
<1>3. UploadProgress(p)' /\ WorkProgress(p)' BY <1>2 DEF UploadProgress, WorkProgress
<1>4. Exclusion'
  <2>1. phase' # "up" => \A w \in Workers : pc'[w] = "idle"
    BY <1>1, Running DEF IInv, Exclusion, boot, Frame, OthersIdle, Finish, Procs
  <2>2. phase' # "sweeping" => pc'[Boot] = "idle" /\ sweep' = {}
    BY <1>1, Running DEF IInv, Exclusion, boot, Frame, OthersIdle, Finish, Procs
  <2>3. \A q \in Procs : Holding(q)' => lock'[Slug(q)'] = q
    <3> SUFFICES ASSUME NEW q \in Procs, Holding(q)' PROVE lock'[Slug(q)'] = q OBVIOUS
    <3>1. q # p BY <1>2
    <3>2. Holding(q) /\ Slug(q)' = Slug(q) BY <3>1 DEF Frame, OthersIdle, Holding, Slug, Job
    <3>3. Slug(q) \in Slugs /\ lock[Slug(q)] = q
      BY <3>2 DEF IInv, Control, Exclusion, Holding
    <3> QED BY <3>1, <3>2, <3>3 DEF Finish
  <2>4. \A x \in sweep' : status'[x[1]] = x[2] /\ (pc'[Boot] # "idle" => Slug(Boot)' # x[1])
    <3>1. CASE sweep' = {} BY <3>1
    <3>2. CASE UNCHANGED boot
      BY <1>1, <3>2, SweepKept, Running DEF IInv, Exclusion, Frame, OthersIdle, Slug, boot, Procs
    <3> QED BY <3>1, <3>2 DEF Finish
  <2> QED BY <2>1, <2>2, <2>3, <2>4 DEF Exclusion
<1>5. \A t \in Slugs : Page(t)' BY <1>2, Others DEF Frame, OthersIdle
<1>6. \A q \in Procs : UploadProgress(q)' /\ WorkProgress(q)' BY <1>2, <1>3, Others
<1> QED BY <1>4, <1>5, <1>6 DEF IInv, Controlled

\* Codes are numbers that can be compared.
LEMMA Codes ==
    ASSUME TypeOK, NEW s \in Slugs
    PROVE  s[1] \in Identifiers /\ s[2] \in Nat /\ next[s[1]] \in Nat
  BY DEF Slugs, TypeOK

\* An upload that goes on changes neither phase, sweep nor mutexes; what it may
\* change is the live objects of its slug, and never beyond its own pack.
LEMMA UploadOnward ==
    ASSUME IInv, NEW p \in Procs, Uploading(p), NEW s \in Slugs, s = Slug(p),
           TypeOK', Controlled', Frame(p, s), UNCHANGED <<rows, boot, lock>>,
           pc'[p] # "idle",
           Job(p)' = "upload", Pack(p)' = Pack(p),
           pc'[p] # "alloc" => Slug(p)' = s,
           \A f \in Files : Has("live", s, f)' => f \in Pack(p),
           \A f \in Files : Has("parked", s, f)' => Has("parked", s, f),
           pc'[p] = "ingest" => pc[p] = "ingest" /\ UNCHANGED bucket,
           pc'[p] = "put" => todo'[p] \subseteq Pack(p) /\ todo'[p] # {}
                       /\ \A f \in Pack(p) \ todo'[p] : Has("live", s, f)',
           pc'[p] = "insert" => \A f \in Pack(p) : Has("live", s, f)'
    PROVE  IInv'
<1>1. pc[p] # "idle" /\ p \in Workers BY DEF Uploading, IInv, Control
<1>2. UploadProgress(p) /\ Page(s) BY DEF IInv
<1>3. status[s] = NoRow BY <1>2 DEF UploadProgress
<1>4. Page(s)'
  BY <1>2, <1>3, Codes DEF IInv, Page, UploadProgress, Has, rows, NoRow, Settled
<1>5. ~Holding(p)' /\ ~Working(p)' BY DEF Holding, Working
<1>6. WorkProgress(p)' BY <1>5 DEF WorkProgress
<1>7. Alone(p, s) BY UploadAlone
<1>8. UploadProgress(p)'
  <2> SUFFICES ASSUME Uploading(p)' PROVE UploadProgress(p)' BY DEF UploadProgress
  <2>1. Slug(p)' = s /\ Uploading(p) BY DEF Uploading
  <2>2. /\ status'[s] = NoRow /\ s \notin gone' /\ s[2] < next'[s[1]]
    BY <1>2, <1>3 DEF UploadProgress, rows
  <2>3. \A q \in Workers : Uploading(q)' /\ Slug(q)' = s => q = p
    BY <1>7 DEF Alone, Frame, OthersIdle, Uploading, Slug, Job, Procs
  <2>4. pc'[p] = "ingest" => \A f \in Files : ~Has("live", s, f)'
    BY <1>2 DEF UploadProgress, Has
  <2> QED BY <2>1, <2>2, <2>3, <2>4 DEF UploadProgress, Has
<1>9. p # Boot BY <1>1, ProcAssumption
<1>10. Uploading(p)' => Uploading(p) /\ Slug(p)' = Slug(p) BY DEF Uploading
<1> QED BY <1>1, <1>4, <1>5, <1>6, <1>7, <1>8, <1>9, <1>10, Onward DEF rows

\* An upload that answers without a row leaves its page as the invariant wants it.
LEMMA UploadEnding ==
    ASSUME IInv, NEW p \in Procs, Uploading(p), NEW s \in Slugs, s = Slug(p),
           TypeOK', Controlled', Frame(p, s), UNCHANGED rows,
           \A f \in Files : Has("parked", s, f)' => Has("parked", s, f),
           NEW r, Finish(p, r)
    PROVE  IInv'
<1>1. pc[p] # "idle" /\ UploadProgress(p) /\ Page(s) BY DEF Uploading, IInv
<1>2. Page(s)'
  BY <1>1, Codes DEF IInv, Page, UploadProgress, Has, rows, NoRow, Settled
<1> QED BY <1>1, <1>2, UploadAlone, Ending

\* The part of a step that runs in p alone, with objects of slug s only.
LEMMA OwnObjects ==
    ASSUME TypeOK, NEW p \in Procs, NEW s \in Slugs, NEW prefix \in Sides,
           bucket' \in {bucket} \cup {bucket \cup {<<prefix, s, f>>} : f \in Files}
                                \cup {bucket \ {<<prefix, s, f>>} : f \in Files},
           UNCHANGED rows,
           OthersIdle(p)
    PROVE  Frame(p, s)
<1>1. ASSUME NEW t \in Slugs \ {s} PROVE Same(t)
  BY DEF Same, Has, rows
<1> QED BY <1>1 DEF Frame, OthersIdle, rows

\* Every step of an upload up to its row keeps the invariant.
LEMMA UploadStepSafe ==
    ASSUME IInv, TypeOK', Controlled', NEW p \in Procs,
           Ingest(p) \/ IngestReject(p) \/ Put(p) \/ PutError(p) \/ Insert(p) \/ InsertError(p)
    PROVE  IInv'
<1>1. /\ pc[p] \in {"ingest", "put", "insert"} /\ Slug(p) \in Slugs /\ Job(p) = "upload"
      /\ p \in Workers /\ Index \in Pack(p)
  BY DEF Ingest, IngestReject, Put, PutError, Insert, InsertError, At, IInv, Control
<1>2. Uploading(p) BY <1>1 DEF Uploading
<1>3. PICK s \in Slugs : s = Slug(p) BY <1>1
<1>4. TypeOK /\ Page(s) /\ UploadProgress(p) /\ Alone(p, s) BY <1>2, <1>3, UploadAlone DEF IInv
<1>5. Pack(p) \subseteq Files BY <1>4 DEF TypeOK, Requests, Pack
<1>6. "live" \in Sides BY DEF Sides
<1>7. CASE Ingest(p)
  <2>1. Frame(p, s)
    BY <1>4, <1>6, <1>7, OwnObjects DEF OthersIdle, Ingest, Go, SetTodo, call, TypeOK
  <2>2. pc'[p] = "put" /\ todo'[p] = Pack(p) /\ req' = req /\ bucket' = bucket
    BY <1>4, <1>7 DEF Ingest, Go, SetTodo, call, TypeOK
  <2>3. \A f \in Files : Has("live", s, f)' => f \in Pack(p)
    BY <1>2, <1>3, <1>4, <2>2 DEF UploadProgress, Has
  <2> QED
    BY <1>1, <1>2, <1>3, <1>7, <2>1, <2>2, <2>3, UploadOnward
    DEF Ingest, Slug, Job, Pack, Has
<1>8. ASSUME NEW r, CleanUp(p, r), UNCHANGED <<rows, boot, lock>>,
             bucket' \in {bucket} \cup {bucket \cup {<<"live", s, f>>} : f \in Pack(p)}
      PROVE  IInv'
  <2>1. Frame(p, s)
    BY <1>4, <1>5, <1>6, <1>8, OwnObjects DEF OthersIdle, CleanUp, Go, SetTodo, TypeOK
  <2>2. pc'[p] = "wipe" /\ req' = req BY <1>4, <1>8 DEF CleanUp, Go, TypeOK
  <2>3. \A f \in Files : Has("live", s, f)' => f \in Pack(p)
    BY <1>2, <1>3, <1>4, <1>8 DEF UploadProgress, Has
  <2>4. \A f \in Files : Has("parked", s, f)' => Has("parked", s, f) BY <1>8 DEF Has
  <2> QED
    BY <1>1, <1>2, <1>3, <1>8, <2>1, <2>2, <2>3, <2>4, UploadOnward DEF Slug, Job, Pack
<1>9. CASE IngestReject(p) BY <1>8, <1>9 DEF IngestReject
<1>10. ASSUME NEW f \in NextPut(p), pc[p] = "put" PROVE f \in Pack(p)
  BY <1>1, <1>2, <1>4, <1>10 DEF NextPut, UploadProgress
<1>11. CASE Put(p)
  <2>1. PICK f \in NextPut(p) :
          /\ bucket' = bucket \cup {<<"live", s, f>>}
          /\ SetTodo(p, todo[p] \ {f})
          /\ Go(p, IF todo[p] = {f} THEN "insert" ELSE "put")
    BY <1>3, <1>11 DEF Put
  <2>2. pc[p] = "put" /\ f \in Pack(p) BY <1>10, <1>11 DEF Put, At
  <2>3. Frame(p, s)
    <3>1. OthersIdle(p) /\ UNCHANGED rows
      BY <1>4, <1>11, <2>1 DEF OthersIdle, Put, Go, SetTodo, call, TypeOK
    <3> QED BY <1>4, <1>5, <1>6, <2>1, <2>2, <3>1, OwnObjects
  <2>4. pc'[p] = (IF todo[p] = {f} THEN "insert" ELSE "put") /\ todo'[p] = todo[p] \ {f}
    BY <1>4, <2>1 DEF Go, SetTodo, TypeOK
  <2>5. /\ todo[p] \subseteq Pack(p) /\ todo[p] # {}
        /\ \A g \in Pack(p) \ todo[p] : Has("live", s, g)
        /\ \A g \in Files : Has("live", s, g) => g \in Pack(p)
    BY <1>2, <1>3, <1>4, <2>2 DEF UploadProgress
  <2>6. f \in todo[p] BY <2>5 DEF NextPut
  <2>7. /\ \A g \in Files : Has("live", s, g)' => g \in Pack(p)
        /\ \A g \in Files : Has("parked", s, g)' => Has("parked", s, g)
        /\ \A g \in Pack(p) \ todo'[p] : Has("live", s, g)'
    BY <2>1, <2>2, <2>4, <2>5 DEF Has
  <2>8. req' = req /\ UNCHANGED <<rows, boot, lock>> BY <1>11 DEF Put, call
  <2>9. todo'[p] # {} \/ todo[p] = {f} BY <2>4, <2>6
  <2> QED
    BY <1>1, <1>2, <1>3, <2>3, <2>4, <2>5, <2>7, <2>8, <2>9, UploadOnward
    DEF Slug, Job, Pack
<1>12. CASE PutError(p)
  BY <1>3, <1>8, <1>10, <1>12 DEF PutError, At
<1>13. CASE Insert(p)
  <2>1. CASE status[s] = NoRow
    <3>1. /\ pc[p] = "insert" /\ Finish(p, "created") /\ UNCHANGED <<bucket, next, gone>>
          /\ status' = [status EXCEPT ![s] = "live"]
          /\ manifest' = [manifest EXCEPT ![s] = Pack(p)]
      BY <1>3, <1>13, <2>1 DEF Insert, At
    <3>2. Frame(p, s)
      BY <1>4, <3>1 DEF Frame, OthersIdle, Same, Has, TypeOK, Finish, Go, SetTodo
    <3>3. status'[s] = "live" /\ manifest'[s] = Pack(p) BY <1>4, <3>1 DEF TypeOK
    <3>4. /\ s[2] < next[s[1]] /\ s \notin gone
          /\ \A f \in Files : Has("live", s, f) <=> f \in Pack(p)
          /\ \A f \in Files : ~Has("parked", s, f)
      BY <1>2, <1>3, <1>4, <1>5, <2>1, <3>1 DEF UploadProgress, Page
    <3>5. s[1] \in Identifiers /\ s[2] \in Nat /\ next[s[1]] \in Nat
      BY <1>4, Codes
    <3>6. Page(s)'
      BY <1>1, <3>1, <3>3, <3>4, <3>5 DEF Page, Has, NoRow, Other
    <3> QED BY <1>1, <1>3, <1>4, <3>1, <3>2, <3>6, Ending
  <2>2. CASE status[s] # NoRow
    BY <1>2, <1>3, <1>4, <2>2 DEF UploadProgress
  <2> QED BY <2>1, <2>2
<1>14. CASE InsertError(p) BY <1>8, <1>14 DEF InsertError
<1> QED BY <1>7, <1>9, <1>11, <1>12, <1>13, <1>14

\* A park, unpark or delete that goes on under its mutex.
LEMMA WorkOnward ==
    ASSUME IInv, NEW p \in Procs, Holding(p), NEW s \in Slugs, s = Slug(p),
           TypeOK', Controlled', Frame(p, s), UNCHANGED <<boot, lock, req>>,
           pc'[p] \notin {"idle", "lock"},
           Same(s) \/ (Alone(p, s) /\ Page(s)'),
           WorkProgress(p)'
    PROVE  IInv'
<1>1. pc[p] # "idle" /\ Job(p) # "upload" BY DEF Holding
<1>2. ~Uploading(p)' BY <1>1 DEF Uploading, Job
<1>3. UploadProgress(p)' BY <1>2 DEF UploadProgress
<1> QED BY <1>1, <1>2, <1>3, Onward DEF Slug

\* Every step on the mutex and the row keeps the invariant: lock, mark and ask.
LEMMA MarkStepSafe ==
    ASSUME IInv, TypeOK', Controlled', NEW p \in Procs,
           Mark(p) \/ MarkError(p) \/ Ask(p) \/ AskError(p)
    PROVE  IInv'
<1>1. pc[p] \in {"mark", "ask"} /\ Slug(p) \in Slugs /\ Job(p) # "upload"
  BY DEF Mark, MarkError, Ask, AskError, At, IInv, Control
<1>2. Holding(p) BY <1>1 DEF Holding
<1>3. PICK s \in Slugs : s = Slug(p) BY <1>1
<1>4. TypeOK /\ Page(s) BY DEF IInv
<1>5. Job(p) \in {"park", "unpark", "delete"}
  BY <1>1, <1>4 DEF TypeOK, Requests, Jobs, Toggles, Job
<1>6. ASSUME status[s] \in Prev(Job(p)),
             status' = [status EXCEPT ![s] = Intent(Job(p))],
             UNCHANGED <<bucket, manifest, next, gone>>
      PROVE  /\ status'[s] = Intent(Job(p)) /\ Alone(p, s) /\ Page(s)'
             /\ \A t \in Slugs \ {s} : Same(t)
  <2>1. status'[s] = Intent(Job(p)) BY <1>4, <1>6 DEF TypeOK
  <2>2. status[s] # NoRow BY <1>5, <1>6 DEF Prev, NoRow
  <2>3. Alone(p, s) BY <1>2, <1>3, <2>2, WorkAlone
  <2>4. \A t \in Slugs \ {s} : Same(t) BY <1>4, <1>6 DEF Same, Has, TypeOK
  <2>5. ~(s[2] >= next[s[1]]) /\ s \notin gone /\ Index \in manifest[s]
    BY <1>4, <2>2 DEF Page
  <2>6. Job(p) # "delete" => \A f \in Files :
          (Has("live", s, f) \/ Has("parked", s, f)) <=> f \in manifest[s]
    BY <1>4, <1>5, <1>6 DEF Page, Prev, Settled, Other
  <2>7. Intent(Job(p)) \in Transient
        /\ (Intent(Job(p)) \in {"parking", "unparking"} => Job(p) # "delete")
    BY <1>5 DEF Intent, Transient
  <2>8. Page(s)'
    BY <1>6, <2>1, <2>5, <2>6, <2>7 DEF Page, Has, Transient, NoRow, Settled
  <2> QED BY <2>1, <2>3, <2>4, <2>8
<1>7. CASE Mark(p)
  <2>1. CASE status[s] \in Prev(Job(p))
    <3>1. /\ status' = [status EXCEPT ![s] = Intent(Job(p))]
          /\ Go(p, FirstPlace(Job(p))) /\ pc[p] = "mark"
          /\ UNCHANGED <<bucket, manifest, next, gone, boot, lock, call, driver, faults>>
      BY <1>3, <1>7, <2>1 DEF Mark, At
    <3>2. /\ status'[s] = Intent(Job(p)) /\ Alone(p, s) /\ Page(s)'
          /\ \A t \in Slugs \ {s} : Same(t)
      BY <1>6, <2>1, <3>1
    <3>3. Frame(p, s) BY <1>4, <3>1, <3>2 DEF Frame, OthersIdle, Go, call, driver, TypeOK
    <3>4. /\ pc'[p] = FirstPlace(Job(p)) /\ FirstPlace(Job(p)) \in {"wipe", "copy"}
          /\ FirstPlace(Job(p)) = "wipe" => Job(p) = "delete"
      BY <1>4, <1>5, <3>1 DEF Go, FirstPlace, TypeOK
    <3>5. side'[p] = "live" BY <3>1 DEF IInv, Control, driver
    <3>6. req' = req /\ Slug(p)' = s /\ Job(p)' = Job(p)
      BY <1>3, <3>1 DEF call, Slug, Job
    <3>7. WorkProgress(p)'
      BY <1>3, <1>5, <3>2, <3>4, <3>5, <3>6 DEF WorkProgress, Toggles, Slug, Job
    <3>8. UNCHANGED <<boot, lock, req>> BY <3>1, <3>6
    <3>9. pc'[p] \notin {"idle", "lock"} BY <3>4
    <3> QED BY <1>2, <1>3, <3>2, <3>3, <3>7, <3>8, <3>9, WorkOnward
  <2>2. CASE status[s] \notin Prev(Job(p))
    <3>1. Go(p, "ask") /\ UNCHANGED <<bucket, rows, boot, lock, call, driver, faults>>
      BY <1>3, <1>7, <2>2 DEF Mark, rows
    <3>2. Same(s) /\ Frame(p, s)
      BY <1>4, <3>1 DEF Same, Frame, OthersIdle, Has, Go, rows, call, driver, TypeOK
    <3>3. pc'[p] = "ask" BY <1>4, <3>1 DEF Go, TypeOK
    <3>4. WorkProgress(p)' BY <3>3 DEF WorkProgress, Working
    <3> QED BY <1>2, <1>3, <3>1, <3>2, <3>3, <3>4, WorkOnward DEF call
  <2> QED BY <2>1, <2>2
<1>8. ASSUME NEW r, Finish(p, r) PROVE OthersIdle(p)
  BY <1>4, <1>8 DEF OthersIdle, Finish, Go, SetTodo, TypeOK
<1>9. CASE MarkError(p)
  <2>1. Finish(p, "error") /\ UNCHANGED <<bucket, manifest, next, gone>>
    BY <1>9 DEF MarkError
  <2>2. CASE UNCHANGED status
    <3>1. Same(s) /\ Frame(p, s) BY <1>8, <2>1, <2>2 DEF Same, Frame, OthersIdle, Has
    <3> QED BY <1>1, <1>3, <2>1, <3>1, Ending
  <2>3. CASE status[s] \in Prev(Job(p))
             /\ status' = [status EXCEPT ![s] = Intent(Job(p))]
    <3>1. Frame(p, s) BY <1>6, <1>8, <2>1, <2>3 DEF Frame, OthersIdle
    <3> QED BY <1>1, <1>3, <1>6, <2>1, <2>3, <3>1, Ending
  <2> QED BY <1>3, <1>9, <2>2, <2>3 DEF MarkError
<1>10. CASE Ask(p) \/ AskError(p)
  <2>1. PICK r : Finish(p, r) /\ UNCHANGED <<bucket, rows>> BY <1>10 DEF Ask, AskError
  <2>2. Same(s) /\ Frame(p, s) BY <1>8, <2>1 DEF Same, Frame, OthersIdle, Has, rows
  <2> QED BY <1>1, <1>3, <2>1, <2>2, Ending
<1> QED BY <1>7, <1>9, <1>10

\* A mutex that was free is taken: nobody else held it.
LEMMA LockSafe ==
    ASSUME IInv, TypeOK', Controlled', NEW p \in Procs, Lock(p) PROVE IInv'
<1>1. PICK s \in Slugs : s = Slug(p) BY DEF Lock, At, IInv, Control
<1>2. /\ pc[p] = "lock" /\ pc' = [pc EXCEPT ![p] = "mark"] /\ lock[s] = Free
      /\ lock' = [lock EXCEPT ![s] = p] /\ Job(p) # "upload"
      /\ UNCHANGED <<bucket, rows, boot, call, driver>>
  BY <1>1 DEF Lock, At, Go, IInv, Control
<1>3. TypeOK /\ req' = req BY <1>2 DEF IInv, call
<1>4. Same(s) /\ Frame(p, s)
  BY <1>2, <1>3 DEF Same, Frame, OthersIdle, Has, rows, driver, TypeOK
<1>5. pc'[p] = "mark" BY <1>2, <1>3 DEF TypeOK
<1>6. ~Uploading(p)' /\ ~Working(p)' /\ UploadProgress(p)' /\ WorkProgress(p)'
  BY <1>2, <1>3, <1>5 DEF Uploading, Working, UploadProgress, WorkProgress, Job
<1>7. /\ \A t \in Slugs : Page(t)'
      /\ \A q \in Procs : UploadProgress(q)' /\ WorkProgress(q)'
  BY <1>4, <1>6, Others DEF Frame
<1>8. Exclusion'
  <2>1. phase' # "up" => \A w \in Workers : pc'[w] = "idle"
    BY <1>2, <1>4, Running DEF IInv, Exclusion, boot, Frame, OthersIdle, Procs
  <2>2. phase' # "sweeping" => pc'[Boot] = "idle" /\ sweep' = {}
    BY <1>2, <1>4, Running DEF IInv, Exclusion, boot, Frame, OthersIdle, Procs
  <2>3. \A q \in Procs : Holding(q)' => lock'[Slug(q)'] = q
    <3> SUFFICES ASSUME NEW q \in Procs, Holding(q)' PROVE lock'[Slug(q)'] = q OBVIOUS
    <3>1. CASE q = p BY <1>1, <1>2, <1>3, <3>1 DEF Slug, TypeOK
    <3>2. CASE q # p
      <4>1. Holding(q) /\ Slug(q)' = Slug(q)
        BY <1>2, <1>3, <3>2 DEF Holding, Slug, Job, TypeOK
      <4>2. Slug(q) \in Slugs /\ lock[Slug(q)] = q
        BY <4>1 DEF IInv, Control, Exclusion, Holding
      <4>3. Slug(q) # s BY <1>2, <4>2, ProcAssumption DEF Procs
      <4> QED BY <1>2, <1>3, <4>1, <4>2, <4>3 DEF TypeOK
    <3> QED BY <3>1, <3>2
  <2>4. \A r \in sweep' : status'[r[1]] = r[2] /\ (pc'[Boot] # "idle" => Slug(Boot)' # r[1])
    <3>1. \A r \in sweep : p = Boot BY <1>2, Running DEF IInv, Exclusion
    <3> QED BY <1>2, <1>3, <3>1 DEF IInv, Exclusion, boot, rows, Slug
  <2> QED BY <2>1, <2>2, <2>3, <2>4 DEF Exclusion
<1> QED BY <1>7, <1>8 DEF IInv, Controlled

\* Whatever ends a request moves no other goroutine.
LEMMA FinishIdle ==
    ASSUME TypeOK, NEW p \in Procs, NEW r, Finish(p, r) PROVE OthersIdle(p)
  BY DEF OthersIdle, Finish, Go, SetTodo, TypeOK

\* What a toggle's page looks like while its objects move.
LEMMA Moving ==
    ASSUME IInv, NEW p \in Procs, Working(p), Job(p) \in Toggles
    PROVE  /\ status[Slug(p)] \in {"parking", "unparking"}
           /\ \A f \in Files : (Has("live", Slug(p), f) \/ Has("parked", Slug(p), f))
                                <=> f \in manifest[Slug(p)]
           /\ Alone(p, Slug(p))
<1>1. Slug(p) \in Slugs /\ Holding(p) /\ Page(Slug(p)) /\ WorkProgress(p)
  BY DEF IInv, Control, Working, Holding
<1>2. status[Slug(p)] = Intent(Job(p)) BY <1>1 DEF WorkProgress
<1>3. status[Slug(p)] \in {"parking", "unparking"} BY <1>2 DEF Intent, Toggles
<1> QED BY <1>1, <1>3, WorkAlone DEF Page, NoRow

\* Every step of a Copy keeps the invariant.
LEMMA CopyStepSafe ==
    ASSUME IInv, TypeOK', Controlled', NEW p \in Procs,
           CopyList(p) \/ CopyListError(p) \/ CopyOne(p) \/ CopyOneError(p) \/ CopyDone(p)
    PROVE  IInv'
<1>1. pc[p] \in {"copy", "copying"} /\ Slug(p) \in Slugs /\ Job(p) \in Toggles
  BY DEF CopyList, CopyListError, CopyOne, CopyOneError, CopyDone, At, IInv, Control
<1>2. Holding(p) /\ Working(p) BY <1>1 DEF Holding, Working, Toggles
<1>3. PICK s \in Slugs : s = Slug(p) BY <1>1
<1>4. /\ TypeOK /\ Page(s) /\ WorkProgress(p)
      /\ status[s] \in {"parking", "unparking"}
      /\ \A f \in Files : (Has("live", s, f) \/ Has("parked", s, f)) <=> f \in manifest[s]
      /\ Alone(p, s)
  BY <1>2, <1>1, <1>3, Moving DEF IInv
<1>5. PICK src \in Sides : /\ src = Source(Job(p)) /\ Sides = {src, Other(src)}
                          /\ src # Other(src)
  BY DEF Source, Other, Sides
<1>6. ASSUME pc[p] = "copy", pc' = [pc EXCEPT ![p] = "copying"],
             NEW T \in SUBSET Under(src, s), todo' = [todo EXCEPT ![p] = T],
             failed'[p] \/ T = Under(src, s), \A q \in Procs \ {p} : failed'[q] = failed[q],
             UNCHANGED <<bucket, rows, boot, lock, call, side>>
      PROVE  IInv'
  <2>1. Same(s) /\ Frame(p, s) /\ req' = req
    BY <1>4, <1>6 DEF Same, Frame, OthersIdle, Has, rows, call, TypeOK
  <2>2. pc'[p] = "copying" /\ todo'[p] = T BY <1>4, <1>6 DEF TypeOK
  <2>3. failed'[p] \/ \A f \in Files : Has(src, s, f)' => f \in todo'[p]
    BY <1>6, <2>2 DEF Under, Has
  <2>4. Slug(p)' = s /\ Job(p)' = Job(p) /\ status'[s] = Intent(Job(p))
    BY <1>2, <1>3, <1>4, <1>6, <2>1 DEF WorkProgress, Slug, Job, rows
  <2>5. WorkProgress(p)' BY <1>1, <1>5, <2>2, <2>3, <2>4 DEF WorkProgress, Has, Toggles
  <2> QED BY <1>2, <1>3, <1>6, <2>1, <2>2, <2>5, WorkOnward
<1>7. CASE CopyList(p)
  BY <1>3, <1>5, <1>6, <1>7 DEF CopyList, At, Go, SetTodo
<1>8. CASE CopyListError(p)
  <2>1. failed' = [failed EXCEPT ![p] = TRUE] BY <1>8 DEF CopyListError
  <2>2. failed'[p] /\ \A q \in Procs \ {p} : failed'[q] = failed[q] BY <1>4, <2>1 DEF TypeOK
  <2> QED BY <1>3, <1>5, <1>6, <1>8, <2>2 DEF CopyListError, At, Go, SetTodo
<1>9. ASSUME NEW f \in todo[p], bucket' \in {bucket, bucket \cup Copied(p, f)},
             pc[p] = "copying",
             failed'[p] \/ (~failed[p] /\ Copied(p, f) # {} /\ bucket' = bucket \cup Copied(p, f)),
             \A q \in Procs \ {p} : failed'[q] = failed[q],
             todo' = [todo EXCEPT ![p] = todo[p] \ {f}],
             UNCHANGED <<rows, boot, lock, pc, call, side>>
      PROVE  IInv'
  <2>1. f \in Files BY <1>4 DEF TypeOK
  <2>2. Copied(p, f) = IF Has(src, s, f) THEN {<<Other(src), s, f>>} ELSE {}
    BY <1>3, <1>5, <2>1 DEF Copied, Under, Has
  <2>3. /\ \A g \in Files : Has(src, s, g)' <=> Has(src, s, g)
        /\ \A g \in Files : Has(Other(src), s, g) => Has(Other(src), s, g)'
        /\ \A g \in Files : Has(Other(src), s, g)' => Has(Other(src), s, g) \/ Has(src, s, g)
    BY <1>5, <1>9, <2>1, <2>2 DEF Has
  <2>4. \A g \in Files : (Has("live", s, g) \/ Has("parked", s, g))'
                         <=> (Has("live", s, g) \/ Has("parked", s, g))
    BY <1>5, <2>3 DEF Sides
  <2>5. Page(s)'
    BY <1>4, <1>9, <2>4 DEF Page, Has, rows, NoRow, Settled
  <2>6. OthersIdle(p) BY <1>4, <1>9 DEF OthersIdle, call, TypeOK
  <2>7. Frame(p, s)
    BY <1>5, <1>9, <2>1, <2>2, <2>6 DEF Frame, Same, Has, rows
  <2>8. /\ Slug(p)' = s /\ Job(p)' = Job(p) /\ status'[s] = Intent(Job(p)) /\ req' = req
        /\ pc'[p] = "copying" /\ todo'[p] = todo[p] \ {f}
    BY <1>2, <1>3, <1>4, <1>9 DEF WorkProgress, Slug, Job, rows, call, TypeOK
  <2>9. failed'[p] \/ \A g \in Files \ todo'[p] : Has(src, s, g)' => Has(Other(src), s, g)'
    <3> SUFFICES ASSUME ~failed'[p], NEW g \in Files \ todo'[p], Has(src, s, g)
                 PROVE  Has(Other(src), s, g)'
      BY <2>3
    <3>1. CASE g = f BY <1>9, <2>2, <3>1 DEF Has
    <3>2. CASE g # f
      <4>1. Has(Other(src), s, g)
        BY <1>2, <1>3, <1>4, <1>5, <1>9, <2>8, <3>2 DEF WorkProgress
      <4> QED BY <2>3, <4>1
    <3> QED BY <3>1, <3>2
  <2>10. WorkProgress(p)' BY <1>1, <1>5, <2>8, <2>9 DEF WorkProgress, Has, Toggles
  <2> QED BY <1>2, <1>3, <1>4, <1>9, <2>5, <2>7, <2>8, <2>10, WorkOnward
<1>10. CASE CopyOne(p)
  <2>1. PICK f \in todo[p] :
          /\ bucket' = bucket \cup Copied(p, f)
          /\ failed' = [failed EXCEPT ![p] = @ \/ Copied(p, f) = {}]
          /\ SetTodo(p, todo[p] \ {f})
    BY <1>10 DEF CopyOne
  <2>2. /\ failed'[p] \/ (~failed[p] /\ Copied(p, f) # {})
        /\ \A q \in Procs \ {p} : failed'[q] = failed[q]
    BY <1>4, <2>1 DEF TypeOK
  <2> QED BY <1>9, <1>10, <2>1, <2>2 DEF CopyOne, At, SetTodo
<1>11. CASE CopyOneError(p)
  <2>1. PICK f \in todo[p] :
          /\ bucket' \in {bucket, bucket \cup Copied(p, f)}
          /\ failed' = [failed EXCEPT ![p] = TRUE]
          /\ SetTodo(p, todo[p] \ {f})
    BY <1>11 DEF CopyOneError
  <2>2. failed'[p] /\ \A q \in Procs \ {p} : failed'[q] = failed[q]
    BY <1>4, <2>1 DEF TypeOK
  <2> QED BY <1>9, <1>11, <2>1, <2>2 DEF CopyOneError, At, SetTodo
<1>12. CASE CopyDone(p)
  <2>1. CASE failed[p]
    <3>1. Finish(p, "error") /\ UNCHANGED <<bucket, rows>> BY <1>12, <2>1 DEF CopyDone
    <3>2. Same(s) /\ Frame(p, s)
      BY <1>4, <3>1, FinishIdle DEF Same, Frame, Has, rows
    <3> QED BY <1>1, <1>3, <3>1, <3>2, Ending
  <2>2. CASE ~failed[p]
    <3>1. /\ pc[p] = "copying" /\ todo[p] = {} /\ pc' = [pc EXCEPT ![p] = "wipe"]
          /\ side' = [side EXCEPT ![p] = src]
          /\ UNCHANGED <<bucket, rows, boot, lock, call, todo, failed>>
      BY <1>5, <1>12, <2>2 DEF CopyDone, At, Go
    <3>2. Same(s) /\ Frame(p, s) /\ req' = req
      BY <1>4, <3>1 DEF Same, Frame, OthersIdle, Has, rows, call, TypeOK
    <3>3. \A f \in manifest[s] : Has(Other(src), s, f)
      <4>1. \A f \in Files : Has(src, s, f) => Has(Other(src), s, f)
        BY <1>2, <1>3, <1>4, <1>5, <2>2, <3>1 DEF WorkProgress
      <4>2. manifest[s] \subseteq Files BY <1>4 DEF TypeOK
      <4> QED BY <1>4, <1>5, <4>1, <4>2 DEF Sides
    <3>4. /\ Slug(p)' = s /\ Job(p)' = Job(p) /\ status'[s] = Intent(Job(p))
          /\ pc'[p] = "wipe" /\ side'[p] = src /\ manifest' = manifest
      BY <1>2, <1>3, <1>4, <3>1, <3>2 DEF WorkProgress, Slug, Job, rows, TypeOK
    <3>5. WorkProgress(p)'
      BY <1>1, <1>5, <3>1, <3>3, <3>4 DEF WorkProgress, Has, Toggles
    <3> QED BY <1>2, <1>3, <3>1, <3>2, <3>4, <3>5, WorkOnward
  <2> QED BY <2>1, <2>2
<1> QED BY <1>7, <1>8, <1>10, <1>11, <1>12

\* An upload's clean-up removes live objects of its own slug only.
LEMMA UploadWipeSafe ==
    ASSUME IInv, TypeOK', Controlled', NEW p \in Procs, Job(p) = "upload",
           WipeList(p) \/ WipeOne(p) \/ WipeDone(p) \/ WipeError(p)
    PROVE  IInv'
<1>1. pc[p] \in {"wipe", "wiping"} /\ Slug(p) \in Slugs /\ p \in Workers /\ side[p] = "live"
  BY DEF WipeList, WipeOne, WipeDone, WipeError, At, IInv, Control
<1>2. Uploading(p) BY <1>1 DEF Uploading
<1>3. PICK s \in Slugs : s = Slug(p) BY <1>1
<1>4. TypeOK /\ UploadProgress(p) BY DEF IInv
<1>5. \A f \in Files : Has("live", s, f) => f \in Pack(p)
  BY <1>2, <1>3, <1>4 DEF UploadProgress
<1>6. "live" \in Sides BY DEF Sides
<1>7. ASSUME bucket' \in {bucket} \cup {bucket \ {<<"live", s, f>>} : f \in Files}
      PROVE  /\ \A f \in Files : Has("live", s, f)' => f \in Pack(p)
             /\ \A f \in Files : Has("parked", s, f)' => Has("parked", s, f)
  BY <1>5, <1>7 DEF Has
<1>8. ASSUME pc'[p] \in {"wipe", "wiping"}, OthersIdle(p),
             bucket' \in {bucket} \cup {bucket \ {<<"live", s, f>>} : f \in Files},
             UNCHANGED <<rows, boot, lock, req>>
      PROVE  IInv'
  <2>1. Frame(p, s) BY <1>4, <1>6, <1>8, OwnObjects
  <2> QED BY <1>2, <1>3, <1>7, <1>8, <2>1, UploadOnward DEF Slug, Job, Pack
<1>9. ASSUME CleanedUp(p), UNCHANGED rows,
             bucket' \in {bucket} \cup {bucket \ {<<"live", s, f>>} : f \in Files}
      PROVE  IInv'
  <2>1. CASE Finish(p, "error")
    <3>1. Frame(p, s) BY <1>4, <1>6, <1>9, <2>1, FinishIdle, OwnObjects
    <3> QED BY <1>2, <1>3, <1>7, <1>9, <2>1, <3>1, UploadEnding
  <2>2. CASE ~Finish(p, "error")
    <3> DEFINE fresh == <<Slug(p)[1], 0>>
    <3>1. /\ pc' = [pc EXCEPT ![p] = "alloc"] /\ Rename(p, fresh) /\ SetTodo(p, {})
          /\ UNCHANGED <<boot, lock, side, failed>>
      BY <1>9, <2>2 DEF CleanedUp, Go
    <3>2. fresh \in AnySlug BY <1>1 DEF Slugs, AnySlug
    <3> HIDE DEF fresh
    <3>3. Job(p)' = "upload" /\ Pack(p)' = Pack(p) /\ \A q \in Procs \ {p} : req'[q] = req[q]
      BY <1>4, <3>1, <3>2, RenameTyped
    <3>4. OthersIdle(p) /\ pc'[p] = "alloc"
      BY <1>4, <3>1, <3>3 DEF OthersIdle, SetTodo, TypeOK
    <3>5. Frame(p, s) BY <1>4, <1>6, <1>9, <3>4, OwnObjects
    <3> QED BY <1>2, <1>3, <1>7, <1>9, <3>1, <3>3, <3>4, <3>5, UploadOnward
  <2> QED BY <2>1, <2>2
<1>10. CASE WipeList(p)
  <2>1. OthersIdle(p) /\ pc'[p] = "wiping"
    BY <1>4, <1>10 DEF OthersIdle, WipeList, Go, SetTodo, call, TypeOK
  <2> QED BY <1>8, <1>10, <2>1 DEF WipeList, call
<1>11. CASE WipeOne(p)
  <2>1. OthersIdle(p) /\ pc'[p] = "wiping"
    BY <1>4, <1>11 DEF OthersIdle, WipeOne, At, SetTodo, call, TypeOK
  <2>2. bucket' \in {bucket \ {<<"live", s, f>>} : f \in Files}
    BY <1>1, <1>3, <1>4, <1>11 DEF WipeOne, TypeOK
  <2> QED BY <1>8, <1>11, <2>1, <2>2 DEF WipeOne, call
<1>12. CASE WipeDone(p) BY <1>9, <1>12 DEF WipeDone
<1>13. CASE WipeError(p)
  <2>1. bucket' \in {bucket} \cup {bucket \ {<<"live", s, f>>} : f \in Files}
    BY <1>1, <1>3, <1>4, <1>13 DEF WipeError, TypeOK
  <2> QED BY <1>9, <1>13, <2>1 DEF WipeError
<1> QED BY <1>10, <1>11, <1>12, <1>13

\* A toggle removes only what it has copied, a delete only what is to go.
LEMMA WorkWipeSafe ==
    ASSUME IInv, TypeOK', Controlled', NEW p \in Procs, Job(p) # "upload",
           WipeList(p) \/ WipeOne(p) \/ WipeDone(p) \/ WipeError(p)
    PROVE  IInv'
<1>1. pc[p] \in {"wipe", "wiping"} /\ Slug(p) \in Slugs
  BY DEF WipeList, WipeOne, WipeDone, WipeError, At, IInv, Control
<1>2. Holding(p) /\ Working(p) BY <1>1 DEF Holding, Working
<1>3. PICK s \in Slugs : s = Slug(p) BY <1>1
<1>4. TypeOK /\ Page(s) /\ WorkProgress(p) BY DEF IInv
<1>5. Job(p) \in {"park", "unpark", "delete"} /\ side[p] \in Sides
  BY <1>4 DEF TypeOK, Requests, Jobs, Toggles, Job
<1>6. status[s] = Intent(Job(p)) /\ status[s] \in Transient /\ Alone(p, s)
  <2>1. status[s] = Intent(Job(p)) BY <1>2, <1>3, <1>4 DEF WorkProgress
  <2>2. status[s] \in Transient BY <1>5, <2>1 DEF Intent, Transient
  <2> QED BY <1>2, <1>3, <2>1, <2>2, WorkAlone DEF Transient, NoRow
<1>7. PICK d \in Sides, src \in Sides :
        /\ d = side[p] /\ src = Source(Job(p)) /\ Sides = {src, Other(src)} /\ src # Other(src)
  BY <1>5 DEF Source, Other, Sides
<1>8. /\ Job(p) \in Toggles =>
            d = src /\ \A f \in manifest[s] : Has(Other(src), s, f)
      /\ pc[p] = "wiping" => \A f \in Files : Has(d, s, f) => f \in todo[p]
      /\ Job(p) = "delete" /\ d = "parked" => \A f \in Files : ~Has("live", s, f)
  BY <1>1, <1>2, <1>3, <1>4, <1>7 DEF WorkProgress
<1>9. manifest[s] \subseteq Files BY <1>4 DEF TypeOK
<1>10. ASSUME bucket' \in {bucket} \cup {bucket \ {<<d, s, f>>} : f \in Files},
              UNCHANGED rows
       PROVE  /\ Page(s)'
              /\ \A f \in Files : Has(d, s, f)' => Has(d, s, f)
              /\ \A f \in Files : d # "live" => (Has("live", s, f)' <=> Has("live", s, f))
              /\ Job(p) \in Toggles => \A f \in manifest[s] : Has(Other(src), s, f)'
  <2>1. \A prefix \in Sides, f \in Files :
          /\ Has(prefix, s, f)' => Has(prefix, s, f)
          /\ prefix # d => (Has(prefix, s, f)' <=> Has(prefix, s, f))
    BY <1>10 DEF Has
  <2>2. Job(p) \in Toggles => \A f \in manifest[s] : Has(Other(src), s, f)'
    BY <1>7, <1>8, <1>9, <2>1
  <2>3. Job(p) \notin Toggles => status[s] = "deleting"
    BY <1>5, <1>6 DEF Toggles, Intent
  <2>4. Job(p) \in Toggles => \A f \in Files :
          (Has("live", s, f) \/ Has("parked", s, f))' <=> f \in manifest[s]
    <3>1. Job(p) \in Toggles => status[s] \in {"parking", "unparking"}
      BY <1>6 DEF Toggles, Intent
    <3>2. Sides = {"live", "parked"} BY DEF Sides
    <3> QED BY <1>4, <1>7, <2>1, <2>2, <3>1, <3>2 DEF Page
  <2>5. Page(s)'
    BY <1>4, <1>6, <1>10, <2>3, <2>4 DEF Page, Has, rows, NoRow, Settled, Transient
  <2> QED BY <2>1, <2>2, <2>5 DEF Sides
<1>11. ASSUME bucket' \in {bucket} \cup {bucket \ {<<d, s, f>>} : f \in Files},
              UNCHANGED <<rows, boot, lock, call>>, OthersIdle(p),
              pc'[p] \notin {"idle", "lock"}, WorkProgress(p)'
       PROVE  IInv'
  <2>1. Frame(p, s) BY <1>4, <1>7, <1>11, OwnObjects
  <2> QED BY <1>2, <1>3, <1>6, <1>10, <1>11, <2>1, WorkOnward DEF call
<1>12. ASSUME UNCHANGED <<rows, call>>
       PROVE  /\ Slug(p)' = s /\ Job(p)' = Job(p) /\ status'[s] = Intent(Job(p))
              /\ manifest'[s] = manifest[s]
  BY <1>3, <1>6, <1>12 DEF Slug, Job, rows, call
<1>13. CASE WipeList(p)
  <2>1. /\ pc'[p] = "wiping" /\ todo'[p] = Under(d, s) /\ side'[p] = d /\ OthersIdle(p)
        /\ UNCHANGED <<bucket, rows, boot, lock, call>>
    BY <1>3, <1>4, <1>7, <1>13
    DEF OthersIdle, WipeList, Go, SetTodo, call, TypeOK
  <2>2. \A f \in Files : Has(d, s, f)' => f \in todo'[p] BY <2>1 DEF Under, Has
  <2>3. WorkProgress(p)'
    BY <1>5, <1>7, <1>8, <1>12, <2>1, <2>2 DEF WorkProgress, Has, Toggles
  <2> QED BY <1>11, <2>1, <2>3
<1>14. CASE WipeOne(p)
  <2>1. PICK f \in todo[p] : bucket' = bucket \ {<<d, s, f>>} /\ SetTodo(p, todo[p] \ {f})
    BY <1>3, <1>7, <1>14 DEF WipeOne
  <2>2. /\ pc[p] = "wiping" /\ pc' = pc /\ side' = side /\ OthersIdle(p) /\ f \in Files
        /\ todo'[p] = todo[p] \ {f} /\ UNCHANGED <<rows, boot, lock, call>>
    BY <1>4, <1>14, <2>1 DEF OthersIdle, WipeOne, At, SetTodo, call, TypeOK
  <2>3. bucket' \in {bucket} \cup {bucket \ {<<d, s, g>>} : g \in Files} BY <2>1, <2>2
  <2>4. /\ \A g \in Files : Has(d, s, g)' => g \in todo'[p]
        /\ Job(p) = "delete" /\ d = "parked" => \A g \in Files : ~Has("live", s, g)'
    BY <1>8, <1>10, <2>1, <2>2, <2>3 DEF Has
  <2>5. Job(p) \in Toggles => d = src /\ \A g \in manifest[s] : Has(Other(src), s, g)'
    BY <1>8, <1>10, <2>2, <2>3
  <2>6. WorkProgress(p)'
    BY <1>5, <1>7, <1>12, <2>2, <2>4, <2>5 DEF WorkProgress, Has, Toggles
  <2> QED BY <1>11, <2>2, <2>3, <2>6
<1>15. CASE WipeDone(p)
  <2>1. /\ pc[p] = "wiping" /\ todo[p] = {} /\ pc'[p] = AfterWipe(p)
        /\ side'[p] = IF Job(p) = "delete" THEN "parked" ELSE d
        /\ OthersIdle(p) /\ UNCHANGED <<bucket, rows, boot, lock, call, todo, failed>>
    BY <1>4, <1>7, <1>15 DEF OthersIdle, WipeDone, At, Go, call, TypeOK
  <2>2. \A f \in Files : ~Has(d, s, f)' BY <1>8, <2>1 DEF Has
  <2>3. pc'[p] = IF Job(p) # "delete" THEN "settle"
                 ELSE IF d = "live" THEN "wipe" ELSE "drop"
    BY <1>7, <2>1 DEF AfterWipe
  <2>4. WorkProgress(p)'
    <3>1. CASE Job(p) \in Toggles
      BY <1>5, <1>7, <1>8, <1>12, <2>1, <2>2, <2>3, <3>1 DEF WorkProgress, Has, Toggles
    <3>2. CASE Job(p) = "delete"
      <4>1. \A f \in Files : ~Has("live", s, f)' BY <1>8, <2>1, <2>2, <3>2 DEF Has, Sides
      <4> QED
        BY <1>12, <2>1, <2>2, <2>3, <3>2, <4>1 DEF WorkProgress, Has, Toggles, Sides
    <3> QED BY <1>5, <3>1, <3>2 DEF Toggles
  <2> QED BY <1>11, <2>1, <2>3, <2>4
<1>16. CASE WipeError(p)
  <2>1. Finish(p, "error") /\ UNCHANGED rows BY <1>5, <1>16 DEF WipeError
  <2>2. bucket' \in {bucket} \cup {bucket \ {<<d, s, f>>} : f \in Files}
    BY <1>3, <1>4, <1>7, <1>16 DEF WipeError, TypeOK
  <2>3. Frame(p, s) BY <1>4, <1>7, <2>1, <2>2, FinishIdle, OwnObjects
  <2> QED BY <1>1, <1>3, <1>6, <1>10, <2>1, <2>2, <2>3, Ending
<1> QED BY <1>13, <1>14, <1>15, <1>16

\* finalize and DeletePage find the page as the new status promises it.
LEMMA SettleStepSafe ==
    ASSUME IInv, TypeOK', Controlled', NEW p \in Procs,
           Settle(p) \/ SettleError(p) \/ Drop(p) \/ DropError(p)
    PROVE  IInv'
<1>1. /\ pc[p] \in {"settle", "drop"} /\ Slug(p) \in Slugs /\ Job(p) # "upload"
      /\ pc[p] = "settle" => Job(p) \in Toggles
      /\ pc[p] = "drop" => Job(p) = "delete"
  BY DEF Settle, SettleError, Drop, DropError, At, IInv, Control, Toggles
<1>2. Holding(p) /\ Working(p) BY <1>1 DEF Holding, Working
<1>3. PICK s \in Slugs : s = Slug(p) BY <1>1
<1>4. TypeOK /\ Page(s) /\ WorkProgress(p) /\ status[s] = Intent(Job(p))
  BY <1>2, <1>3 DEF IInv, WorkProgress
<1>5. Intent(Job(p)) # NoRow BY <1>1 DEF Intent, NoRow, Toggles
<1>6. Alone(p, s) BY <1>2, <1>3, <1>4, <1>5, WorkAlone
<1>7. ASSUME NEW r, Finish(p, r), UNCHANGED <<bucket, rows>> PROVE IInv'
  <2>1. Same(s) /\ Frame(p, s) BY <1>4, <1>7, FinishIdle DEF Same, Frame, Has, rows
  <2> QED BY <1>1, <1>3, <1>7, <2>1, Ending
<1>8. ASSUME pc[p] = "settle", status' = [status EXCEPT ![s] = Done(Job(p))],
             UNCHANGED <<bucket, manifest, next, gone>>, NEW r, Finish(p, r)
      PROVE  IInv'
  <2>1. PICK src \in Sides : src = Source(Job(p)) /\ Done(Job(p)) = Other(src)
    BY <1>1, <1>8 DEF Source, Other, Sides, Done, Toggles
  <2>2. /\ \A f \in manifest[s] : Has(Other(src), s, f)
        /\ \A f \in Files : ~Has(src, s, f)
    BY <1>1, <1>2, <1>3, <1>4, <1>8, <2>1 DEF WorkProgress
  <2>3. /\ status[s] \in {"parking", "unparking"} /\ s \notin gone /\ Index \in manifest[s]
        /\ \A f \in Files : (Has("live", s, f) \/ Has("parked", s, f)) <=> f \in manifest[s]
        /\ ~(s[2] >= next[s[1]])
    BY <1>1, <1>4, <1>8 DEF Page, Intent, Toggles, NoRow
  <2>4. status'[s] = Other(src) BY <1>4, <1>8, <2>1 DEF TypeOK
  <2>5. \A f \in Files : Has(Other(src), s, f) <=> f \in manifest[s]
    BY <2>2, <2>3 DEF Sides, Other
  <2>6. Page(s)'
    BY <1>8, <2>2, <2>3, <2>4, <2>5 DEF Page, Has, Other, Sides, Settled, NoRow
  <2>7. Frame(p, s) BY <1>4, <1>8, FinishIdle DEF Frame, Same, Has, TypeOK
  <2> QED BY <1>1, <1>3, <1>6, <1>8, <2>6, <2>7, Ending
<1>9. CASE Settle(p) \/ SettleError(p)
  BY <1>3, <1>4, <1>7, <1>8, <1>9 DEF Settle, SettleError, At, rows
<1>10. ASSUME pc[p] = "drop", RemoveRow(s), UNCHANGED <<bucket, next>>, NEW r, Finish(p, r)
       PROVE  IInv'
  <2>1. \A f \in Files : ~Has("live", s, f) /\ ~Has("parked", s, f)
    BY <1>1, <1>2, <1>3, <1>4, <1>10 DEF WorkProgress
  <2>2. status'[s] = NoRow /\ ~(s[2] >= next[s[1]])
    BY <1>4, <1>5, <1>10 DEF RemoveRow, TypeOK, Page
  <2>3. Page(s)' BY <1>10, <2>1, <2>2 DEF Page, Has, NoRow, Settled
  <2>4. Frame(p, s)
    BY <1>4, <1>10, FinishIdle DEF Frame, Same, Has, RemoveRow, TypeOK
  <2> QED BY <1>1, <1>3, <1>6, <1>10, <2>3, <2>4, Ending
<1>11. CASE Drop(p) \/ DropError(p)
  BY <1>3, <1>7, <1>10, <1>11 DEF Drop, DropError, At, rows
<1> QED BY <1>9, <1>11

\* A code is taken once, by one upload; nothing is stored under its slug yet.
LEMMA AllocSafe ==
    ASSUME IInv, TypeOK', Controlled', NEW p \in Procs, Alloc(p) \/ AllocError(p)
    PROVE  IInv'
<1> DEFINE i == Slug(p)[1]
<1>1. pc[p] = "alloc" /\ i \in Identifiers /\ Slug(p) = <<i, 0>> /\ Job(p) = "upload"
      /\ p \in Workers
  BY DEF Alloc, AllocError, At, IInv, Control
<1>2. TypeOK /\ ~Uploading(p) /\ ~Working(p) /\ p # Boot /\ phase = "up" /\ sweep = {}
  BY <1>1, Running, ProcAssumption DEF IInv, Uploading, Working, Holding, Exclusion
<1>3. /\ UNCHANGED <<bucket, status, manifest, gone>>
      /\ next' = next \/ (next[i] <= MaxCode /\ next' = [next EXCEPT ![i] = @ + 1])
  BY DEF Alloc, AllocError
<1>4. \A j \in Identifiers : next[j] \in Nat /\ next'[j] \in Nat /\ next[j] <= next'[j]
  BY <1>1, <1>2, <1>3 DEF TypeOK
<1>5. \A t \in Slugs : Page(t)'
  <2> SUFFICES ASSUME NEW t \in Slugs PROVE Page(t)' OBVIOUS
  <2>1. Page(t) /\ t[1] \in Identifiers /\ t[2] \in Nat BY <1>2, Codes DEF IInv
  <2>2. t[2] >= next'[t[1]] => t[2] >= next[t[1]] BY <1>4, <2>1
  <2> QED BY <1>3, <2>1, <2>2 DEF Page, Has
<1>6. OthersIdle(p) /\ UNCHANGED boot
  <2>1. CASE Finish(p, "error")
    BY <1>2, <2>1, FinishIdle DEF Finish
  <2>2. CASE ~Finish(p, "error")
    BY <1>2, <2>2 DEF Alloc, AllocError, OthersIdle, Go, Rename, driver, TypeOK
  <2> QED BY <2>1, <2>2
<1>7. ASSUME NEW q \in Procs \ {p}
      PROVE  WorkProgress(q)' /\ (Uploading(q)' <=> Uploading(q)) /\ Slug(q)' = Slug(q)
  <2>1. /\ pc'[q] = pc[q] /\ req'[q] = req[q] /\ side'[q] = side[q] /\ todo'[q] = todo[q]
        /\ failed'[q] = failed[q] /\ WorkProgress(q)
    BY <1>6 DEF OthersIdle, IInv
  <2> QED BY <1>3, <2>1 DEF WorkProgress, Working, Holding, Uploading, Has, Slug, Job
<1>8. \A q \in Procs \ {p} : Uploading(q) => Slug(q) \in Slugs /\ UploadProgress(q)
                             /\ Slug(q)[2] < next[Slug(q)[1]]
  BY DEF IInv, Control, Uploading, UploadProgress
<1>9. Exclusion'
  <2>1. \A w \in Workers : phase' # "up" => pc'[w] = "idle" BY <1>2, <1>6 DEF boot
  <2>2. phase' # "sweeping" => pc'[Boot] = "idle" /\ sweep' = {}
    BY <1>2, <1>6 DEF boot, OthersIdle, IInv, Exclusion, Procs
  <2>3. \A q \in Procs : Holding(q)' => lock'[Slug(q)'] = q
    <3> SUFFICES ASSUME NEW q \in Procs, Holding(q)' PROVE lock'[Slug(q)'] = q OBVIOUS
    <3>1. ~Holding(p)'
      <4>1. CASE Finish(p, "error")
        BY <1>2, <4>1 DEF Finish, Go, Holding, TypeOK
      <4>2. CASE ~Finish(p, "error")
        BY <1>2, <4>2 DEF Alloc, AllocError, Rename, Holding, Job, TypeOK
      <4> QED BY <4>1, <4>2
    <3>2. q # p BY <3>1
    <3>3. Holding(q) /\ Slug(q)' = Slug(q) BY <1>6, <3>2 DEF OthersIdle, Holding, Slug, Job
    <3>4. Slug(q) \in Slugs /\ lock[Slug(q)] = q
      BY <3>3 DEF IInv, Control, Exclusion, Holding
    <3>5. UNCHANGED lock \/ lock' = [t \in Slugs |-> IF lock[t] = p THEN Free ELSE lock[t]]
      BY DEF Alloc, AllocError, Finish
    <3> QED BY <3>2, <3>3, <3>4, <3>5
  <2>4. sweep' = {} BY <1>2, <1>6 DEF boot
  <2> QED BY <2>1, <2>2, <2>3, <2>4 DEF Exclusion
<1>10. ASSUME \A q \in Procs \ {p} : Uploading(p)' /\ Uploading(q)' => Slug(q)' # Slug(p)',
              UploadProgress(p)', WorkProgress(p)'
       PROVE  IInv'
  <2>1. ASSUME NEW q \in Procs \ {p} PROVE UploadProgress(q)'
    <3> SUFFICES ASSUME Uploading(q)' PROVE UploadProgress(q)' BY DEF UploadProgress
    <3>1. PICK t \in Slugs : t = Slug(q) /\ t[2] < next[t[1]] /\ Slug(q)' = t
                             /\ Uploading(q) /\ UploadProgress(q)
      BY <1>7, <1>8
    <3>2. t[2] < next'[t[1]]
      <4>1. t[1] \in Identifiers /\ t[2] \in Nat BY <1>2, Codes
      <4> QED BY <1>4, <3>1, <4>1
    <3>3. \A r \in Workers : Uploading(r)' /\ Slug(r)' = t => r = q
      BY <1>7, <1>10, <3>1 DEF UploadProgress, Procs
    <3>4. pc'[q] = pc[q] /\ req'[q] = req[q] /\ todo'[q] = todo[q] BY <1>6 DEF OthersIdle
    <3>5. Pack(q)' = Pack(q) BY <3>4 DEF Pack
    <3> QED BY <1>3, <3>1, <3>2, <3>3, <3>4, <3>5 DEF UploadProgress, Has
  <2> QED BY <1>5, <1>7, <1>9, <1>10, <2>1 DEF IInv, Controlled
<1>11. CASE Finish(p, "error")
  <2>1. pc'[p] = "idle" BY <1>2, <1>11 DEF Finish, Go, TypeOK
  <2>2. ~Uploading(p)' /\ ~Working(p)' BY <2>1 DEF Uploading, Working, Holding
  <2> QED BY <1>10, <2>2 DEF UploadProgress, WorkProgress
<1>12. CASE ~Finish(p, "error")
  <2>1. PICK s : s = <<i, next[i]>> OBVIOUS
  <2>2. /\ next[i] <= MaxCode /\ next' = [next EXCEPT ![i] = @ + 1] /\ Rename(p, s)
        /\ pc' = [pc EXCEPT ![p] = "ingest"] /\ UNCHANGED <<boot, lock, answer, driver>>
    BY <1>12, <2>1 DEF Alloc, AllocError, Go
  <2>3. s \in Slugs /\ s[1] = i /\ s[2] = next[i]
    BY <1>1, <1>2, <2>1, <2>2 DEF Slugs, TypeOK
  <2>4. Slug(p)' = s /\ Job(p)' = "upload" /\ Pack(p)' = Pack(p)
    BY <1>2, <2>2, <2>3, RenameTyped DEF AnySlug
  <2>5. /\ status[s] = NoRow /\ s \notin gone /\ \A f \in Files : ~Has("live", s, f)
    <3>1. s[2] >= next[s[1]] BY <1>1, <1>4, <2>3
    <3> QED BY <2>3, <3>1 DEF IInv, Page
  <2>6. s[2] < next'[s[1]] BY <1>1, <1>2, <1>4, <2>2, <2>3 DEF TypeOK
  <2>7. \A q \in Procs \ {p} : Uploading(q)' => Slug(q)' # s
    <3> SUFFICES ASSUME NEW q \in Procs \ {p}, Uploading(q)', Slug(q)' = s PROVE FALSE
      OBVIOUS
    <3>1. Slug(q) = s /\ s[2] < next[s[1]] BY <1>7, <1>8
    <3> QED BY <1>1, <1>4, <2>3, <3>1
  <2>8. pc'[p] = "ingest" BY <1>2, <2>2 DEF TypeOK
  <2>9. UploadProgress(p)'
    BY <1>3, <2>4, <2>5, <2>6, <2>7, <2>8 DEF UploadProgress, Has, Procs
  <2>10. WorkProgress(p)' BY <2>4 DEF WorkProgress, Working, Holding
  <2> QED BY <1>10, <2>4, <2>7, <2>9, <2>10
<1> QED BY <1>11, <1>12

\* A request that arrives waits for its code or its mutex; it changes nothing yet.
LEMMA RequestSafe ==
    ASSUME IInv, TypeOK', Controlled', NEW p \in Workers, Request(p) PROVE IInv'
<1>1. PICK place \in {"lock", "alloc"}, r \in Requests :
        /\ Arrive(p, place, r)
        /\ place = "alloc" <=> r.job = "upload"
  <2>1. CASE RequestLifecycle(p)
    <3>1. PICK job \in Jobs \ {"upload"}, s \in Slugs :
            Arrive(p, "lock", [job |-> job, slug |-> s, pack |-> {}])
      BY <2>1 DEF RequestLifecycle
    <3>2. [job |-> job, slug |-> s, pack |-> {}] \in Requests
      BY DEF AnySlug, Requests
    <3> QED BY <3>1, <3>2
  <2>2. CASE RequestUpload(p)
    <3>1. PICK i \in Identifiers, pack \in SUBSET Files :
            Arrive(p, "alloc", [job |-> "upload", slug |-> <<i, 0>>, pack |-> pack])
      BY <2>2 DEF RequestUpload
    <3>2. [job |-> "upload", slug |-> <<i, 0>>, pack |-> pack] \in Requests
      BY DEF AnySlug, Jobs, Requests
    <3> QED BY <3>1, <3>2
  <2> QED BY <2>1, <2>2 DEF Request
<1>2. p \in Procs /\ TypeOK /\ phase = "up" /\ p # Boot
  BY <1>1, ProcAssumption DEF IInv, Procs, Arrive
<1>3. /\ pc'[p] = place /\ req'[p] = r /\ OthersIdle(p)
      /\ UNCHANGED <<bucket, rows, boot, lock>>
  BY <1>1, <1>2 DEF Arrive, Go, OthersIdle, driver, TypeOK
<1>4. ~Uploading(p)' /\ ~Holding(p)' /\ ~Working(p)'
  BY <1>1, <1>3 DEF Uploading, Holding, Working, Job
<1>5. UploadProgress(p)' /\ WorkProgress(p)' BY <1>4 DEF UploadProgress, WorkProgress
<1>6. (\A s \in Slugs : Page(s)') /\ \A q \in Procs : UploadProgress(q)' /\ WorkProgress(q)'
  <2>1. \A s \in Slugs : Same(s) BY <1>3 DEF Same, Has, rows
  <2>2. \A s \in Slugs : Frame(p, s) BY <1>3, <2>1 DEF Frame, rows
  <2>3. \A s \in Slugs : Page(s)' BY <1>2, <1>4, <2>1, <2>2, Others
  <2>4. \A q \in Procs \ {p} : UploadProgress(q)' /\ WorkProgress(q)'
    <3>1. CASE Slugs = {}
      BY <1>3, <3>1
      DEF OthersIdle, IInv, Control, UploadProgress, WorkProgress, Uploading, Working,
          Holding, Slug, Job
    <3>2. CASE Slugs # {} BY <1>2, <1>4, <2>1, <2>2, <3>2, Others
    <3> QED BY <3>1, <3>2
  <2> QED BY <1>5, <2>3, <2>4
<1>7. Exclusion'
  BY <1>2, <1>3, <1>4
  DEF IInv, Exclusion, OthersIdle, Holding, Slug, Job, boot, rows, Procs
<1> QED BY <1>6, <1>7 DEF IInv, Controlled

\* Where nobody works there is nothing to be said of anybody's progress.
LEMMA NobodyWorks ==
    ASSUME NEW p, pc'[p] = "idle"
    PROVE  ~Holding(p)' /\ UploadProgress(p)' /\ WorkProgress(p)'
  BY DEF UploadProgress, WorkProgress, Uploading, Working, Holding

\* A boot and a crash leave rows and objects alone.
LEMMA BootSafe ==
    ASSUME IInv, TypeOK', Controlled', Start \/ Resume \/ Listen \/ Crash PROVE IInv'
<1>1. UNCHANGED <<bucket, rows>> BY DEF Start, Resume, Listen, Crash
<1>2. \A s \in Slugs : Page(s)' BY <1>1 DEF IInv, Page, Has, rows
<1>3. TypeOK /\ Boot \in Procs BY DEF IInv, Procs
<1>4. ASSUME UNCHANGED <<pc, call, driver>>
      PROVE  \A q \in Procs : /\ UploadProgress(q)' /\ WorkProgress(q)'
                              /\ Holding(q)' <=> Holding(q)
  BY <1>1, <1>4
  DEF IInv, UploadProgress, WorkProgress, Uploading, Working, Holding, Has, Slug, Job,
      Pack, rows, call, driver
<1>5. CASE Start
  <2>1. Exclusion'
    BY <1>5, <1>4
    DEF Start, IInv, Exclusion, rows, call, Slug, Procs
  <2> QED BY <1>2, <1>4, <1>5, <2>1 DEF Start, IInv, Controlled
<1>6. CASE Listen
  <2>1. /\ phase = "sweeping" /\ phase' = "up" /\ sweep' = {} /\ pc[Boot] = "idle"
        /\ UNCHANGED <<pc, req, lock, call, driver>>
    BY <1>6 DEF Listen, At, call
  <2>2. Exclusion' BY <1>4, <2>1 DEF IInv, Exclusion, Slug
  <2> QED BY <1>2, <1>4, <2>1, <2>2 DEF IInv, Controlled
<1>7. CASE Crash
  <2>1. \A q \in Procs : pc'[q] = "idle" BY <1>7 DEF Crash
  <2>2. phase' = "down" /\ sweep' = {} BY <1>7 DEF Crash
  <2>3. Exclusion' BY <1>3, <2>1, <2>2, NobodyWorks DEF Exclusion, Procs
  <2> QED BY <1>2, <2>1, <2>3, NobodyWorks DEF IInv, Controlled
<1>8. CASE Resume
  <2>1. PICK r \in sweep :
          /\ lock[r[1]] = Free
          /\ lock' = [lock EXCEPT ![r[1]] = Boot]
          /\ sweep' = sweep \ {r}
          /\ req' = [req EXCEPT ![Boot] =
                       [job |-> JobOf(r[2]), slug |-> r[1], pack |-> {}]]
          /\ Go(Boot, FirstPlace(JobOf(r[2])))
    BY <1>8 DEF Resume
  <2>2. PICK s \in Slugs, st \in Transient : r = <<s, st>> BY <1>3 DEF TypeOK
  <2>3. r[1] = s /\ r[2] = st /\ status[s] = st BY <2>2 DEF IInv, Exclusion
  <2>4. /\ phase = "sweeping" /\ phase' = phase /\ pc[Boot] = "idle"
        /\ UNCHANGED <<answer, attempt, driver>>
    BY <1>8 DEF Resume, At
  <2>5. JobOf(st) \in {"park", "unpark", "delete"} /\ Intent(JobOf(st)) = st
    BY DEF JobOf, Intent, Transient
  <2>6. /\ Job(Boot)' = JobOf(st) /\ Slug(Boot)' = s /\ pc'[Boot] = FirstPlace(JobOf(st))
        /\ side'[Boot] = "live"
    BY <1>3, <2>1, <2>3, <2>4 DEF Job, Slug, Go, TypeOK, driver, IInv, Control
  <2>7. \A q \in Procs \ {Boot} : pc'[q] = "idle"
    BY <1>3, <2>1, <2>4 DEF Go, IInv, Exclusion, Procs, TypeOK
  <2>8. UploadProgress(Boot)' BY <2>5, <2>6 DEF UploadProgress, Uploading
  <2>9. WorkProgress(Boot)'
    BY <1>1, <2>3, <2>5, <2>6 DEF WorkProgress, FirstPlace, Toggles, rows
  <2>10. Exclusion'
    <3>1. \A q \in Procs : Holding(q)' => lock'[Slug(q)'] = q
      BY <1>3, <2>1, <2>3, <2>6, <2>7, NobodyWorks DEF TypeOK
    <3>2. \A x \in sweep' : status'[x[1]] = x[2] /\ x[1] # s
      <4> SUFFICES ASSUME NEW x \in sweep' PROVE status'[x[1]] = x[2] /\ x[1] # s OBVIOUS
      <4>1. PICK t \in Slugs, u \in Transient : x = <<t, u>> BY <1>3, <2>1 DEF TypeOK
      <4>2. status[t] = u BY <2>1, <4>1 DEF IInv, Exclusion
      <4>3. t # s BY <2>1, <2>2, <2>3, <4>1, <4>2
      <4> QED BY <1>1, <4>1, <4>2, <4>3 DEF rows
    <3> QED BY <2>4, <2>6, <2>7, <3>1, <3>2, ProcAssumption DEF Exclusion, Procs
  <2> QED BY <1>2, <2>7, <2>8, <2>9, <2>10, NobodyWorks DEF IInv, Controlled
<1> QED BY <1>5, <1>6, <1>7, <1>8

\* The empty system satisfies the invariant.
LEMMA InitSafe == Init => IInv
<1> SUFFICES ASSUME Init PROVE IInv OBVIOUS
<1>1. TypeOK /\ Controlled BY InitTyped
<1>2. \A q \in Procs : pc[q] = "idle" BY DEF Init
<1>3. \A q \in Procs : ~Holding(q) /\ UploadProgress(q) /\ WorkProgress(q)
  BY <1>2 DEF UploadProgress, WorkProgress, Uploading, Working, Holding
<1>4. Exclusion BY <1>2, <1>3 DEF Init, Exclusion, Procs
<1>5. \A s \in Slugs : Page(s) BY DEF Init, Page, Has, NoRow, Settled
<1> QED BY <1>1, <1>3, <1>4, <1>5 DEF IInv, Controlled

\* Every step preserves the invariant.
LEMMA NextSafe == ASSUME IInv, [Next]_vars PROVE IInv'
<1>1. TypeOK /\ Controlled BY DEF IInv, Controlled
<1>2. TypeOK' /\ Controlled' BY <1>1, NextTyped
<1>3. CASE \E p \in Workers : Request(p) BY <1>2, <1>3, RequestSafe
<1>4. ASSUME NEW p \in Procs, Work(p) \/ Failure(p) PROVE IInv'
  BY <1>2, <1>4, AllocSafe, UploadStepSafe, CopyStepSafe, UploadWipeSafe, WorkWipeSafe,
     LockSafe, MarkStepSafe, SettleStepSafe
  DEF Work, Failure, UploadStep, DriverStep, RowStep
<1>5. CASE Start \/ Resume \/ Listen \/ Crash BY <1>2, <1>5, BootSafe
<1>6. CASE UNCHANGED vars
  <2>1. Exclusion' /\ (\A s \in Slugs : Page(s)')
    BY <1>6
    DEF IInv, Exclusion, Page, Has, Holding, Slug, Job, vars, rows, boot, call
  <2>2. \A q \in Procs : UploadProgress(q)' /\ WorkProgress(q)'
    BY <1>6
    DEF IInv, UploadProgress, WorkProgress, Uploading, Working, Holding, Has, Slug, Job,
        Pack, vars, rows, boot, call, driver
  <2> QED BY <1>2, <2>1, <2>2 DEF IInv, Controlled
<1> QED BY <1>3, <1>4, <1>5, <1>6 DEF Next

\* The inductive invariant holds in every reachable state.
THEOREM Inductive == Spec => []IInv
<1>1. Init => IInv BY InitSafe
<1>2. IInv /\ [Next]_vars => IInv' BY NextSafe
<1> QED BY <1>1, <1>2, PTL DEF Spec

\* A settled row tells exactly where the page's files are, whatever failed or
\* crashed before.  (toggle, move and finalize, lifecycle.go:84-184)
THEOREM SettledSafe == Spec => []SettledPlacement
<1>1. IInv => SettledPlacement
  BY DEF IInv, TypeOK, Page, SettledPlacement, Under, Has
<1> QED BY <1>1, Inductive, PTL

\* A page that is not being deleted has all its files, each at one of the two
\* prefixes.  (copy before delete, lifecycle.go:138-165)
THEOREM NothingLost == Spec => []NoFileLost
<1>1. IInv => NoFileLost
  <2> SUFFICES ASSUME IInv, NEW s \in Slugs, status[s] \in Statuses \ {"deleting"}
               PROVE  Under("live", s) \cup Under("parked", s) = manifest[s]
    BY DEF NoFileLost
  <2>1. Page(s) /\ manifest[s] \subseteq Files BY DEF IInv, TypeOK
  <2>2. \A f \in Files : (Has("live", s, f) \/ Has("parked", s, f)) <=> f \in manifest[s]
    BY <2>1 DEF Page, Statuses, Settled, Transient, Other
  <2> QED BY <2>1, <2>2 DEF Under, Has
<1> QED BY <1>1, Inductive, PTL

\* A deleted page has neither a row nor an object, ever again.
\* (finishDelete, lifecycle.go:228-239)
THEOREM DeletedForGood == Spec => []DeletedIsGone
<1>1. IInv => DeletedIsGone
  BY DEF IInv, TypeOK, Page, DeletedIsGone, Under, Has, Sides
<1> QED BY <1>1, Inductive, PTL

\* An upload is alone on its slug until its row exists, so its clean-up and the
\* unique-violation backstop (upload.go:296-299) never touch another page.
THEOREM UploadsAlone == Spec => []UploadOwnsSlug
<1>1. IInv => UploadOwnsSlug
  <2> SUFFICES ASSUME IInv, NEW p \in Workers, Uploading(p)
               PROVE  /\ status[Slug(p)] = NoRow /\ Slug(p) \notin gone
                      /\ Under("live", Slug(p)) \subseteq Pack(p)
                      /\ Under("parked", Slug(p)) = {}
                      /\ \A q \in Workers : Uploading(q) /\ Slug(q) = Slug(p) => q = p
    BY DEF UploadOwnsSlug
  <2>1. p \in Procs BY DEF Procs
  <2>2. Slug(p) \in Slugs /\ UploadProgress(p) BY <2>1 DEF IInv, Control, Uploading
  <2>3. Page(Slug(p)) BY <2>2 DEF IInv
  <2> QED BY <2>2, <2>3 DEF UploadProgress, Page, Under, Has
<1> QED BY <1>1, Inductive, PTL

\* finalize and DeletePage always find the intent their goroutine recorded: the
\* branch lifecycle.go:178-182 calls unreachable is.
THEOREM FinalizeFinds == Spec => []FinalizeMatches
<1>1. IInv => FinalizeMatches
  <2> SUFFICES ASSUME IInv, NEW p \in Procs, pc[p] \in {"settle", "drop"}
               PROVE  status[Slug(p)] = Intent(Job(p))
    BY DEF FinalizeMatches
  <2>1. Job(p) # "upload" BY DEF IInv, Control, Toggles
  <2>2. Working(p) BY <2>1 DEF Working, Holding
  <2> QED BY <2>2 DEF IInv, WorkProgress
<1> QED BY <1>1, Inductive, PTL
=============================================================================
