------------------------- MODULE PageAnswers_proofs -------------------------
(***************************************************************************)
(* What PageLifecycle and PageReaders claim about answers: what is true    *)
(* when a request is answered, and when the process starts to listen, and  *)
(* what a reader may find between its two statements.  All follow from     *)
(* what a single step of a goroutine does to the rows (Effect, Identity),  *)
(* the inductive invariant and one more invariant each (SweepCovers,       *)
(* DetailIsOnePage itself).                                                *)
(***************************************************************************)
EXTENDS PageLifecycle_proofs, PageReaders

\* The row of s is settled, or gone for good, in the way the answer says.
Justified(result, s) ==
    /\ result \in {"parked", "live"} => status'[s] = result
    /\ result = "created" => status'[s] = "live"
    /\ result = "deleted" => s \in gone'

\* What a step of goroutine p does outside the objects: it changes the row of its
\* own slug only, and when it ends the request the answer is justified.  The
\* other goroutines stay where they are, and the boot phase changes only if it
\* fails.
Effect(p) ==
    /\ pc[p] # "idle"
    /\ pc'[p] \notin {"lock", "mark"} \/ pc[p] = "lock"
    /\ pc'[p] = "ask" => pc[p] = "mark"
    /\ \A q \in Procs \ {p} : pc'[q] = pc[q]
    /\ \A t \in Slugs : t # Slug(p) => status'[t] = status[t]
    /\ pc'[p] = "idle" /\ Slug(p) \in Slugs => Justified(answer'[p], Slug(p))
    /\ pc'[p] # "idle" => phase' = phase /\ sweep' = sweep
    /\ pc'[p] # "idle" /\ Job(p) # "upload" => Slug(p)' = Slug(p)
    /\ pc'[p] = "idle" => (phase' = phase /\ sweep' = sweep) \/ phase' = "down"
    /\ pc'[p] = "idle" /\ p = Boot /\ answer'[p] = "error" => phase' = "down"
    /\ pc'[p] = "idle" /\ Job(p) # "upload" /\ answer'[p] # "error" =>
          pc[p] = "ask" \/ status'[Slug(p)] \notin Transient

\* Steps that end a request, with whatever answer.
LEMMA FinishEffect ==
    ASSUME TypeOK, NEW p \in Procs, NEW r \in Answers, Finish(p, r)
    PROVE  /\ pc'[p] = "idle" /\ answer'[p] = r
           /\ \A q \in Procs \ {p} : pc'[q] = pc[q]
           /\ (phase' = phase /\ sweep' = sweep) \/ phase' = "down"
           /\ p = Boot /\ r = "error" => phase' = "down"
  BY DEF TypeOK, Finish, Go, boot

\* An error is justified by anything.
LEMMA ErrorEffect ==
    ASSUME TypeOK, NEW p \in Procs, pc[p] # "idle", Finish(p, "error"),
           \A t \in Slugs : t # Slug(p) => status'[t] = status[t]
    PROVE  Effect(p)
<1>1. "error" \in Answers BY DEF Answers
<1> QED BY <1>1, FinishEffect DEF Effect, Justified

\* The effect of an upload's steps.
LEMMA UploadEffect ==
    ASSUME TypeOK, Controlled, NEW p \in Procs,
           UploadStep(p) \/ AllocError(p) \/ PutError(p) \/ InsertError(p)
    PROVE  Effect(p)
<1>1. \A t \in Slugs : t # Slug(p) => status'[t] = status[t]
  BY DEF TypeOK, UploadStep, Alloc, AllocError, Ingest, IngestReject, Put, PutError,
         Insert, InsertError, rows
<1>2. pc[p] # "idle" /\ Job(p) = "upload"
  BY DEF UploadStep, Alloc, AllocError, Ingest, IngestReject, Put, PutError,
         Insert, InsertError, At, Controlled, Control
<1>3. CASE Finish(p, "error") BY <1>1, <1>2, <1>3, ErrorEffect
<1>4. CASE ~Finish(p, "error") /\ (Alloc(p) \/ AllocError(p))
  BY <1>1, <1>2, <1>4 DEF Alloc, AllocError, Go, TypeOK, boot, Effect
<1>5. CASE Ingest(p) \/ IngestReject(p) \/ Put(p) \/ PutError(p) \/ InsertError(p)
  BY <1>1, <1>2, <1>5
  DEF Ingest, IngestReject, Put, PutError, InsertError, CleanUp, Go, TypeOK, boot, Effect
<1>6. CASE Insert(p) /\ status[Slug(p)] # NoRow
  BY <1>1, <1>2, <1>6 DEF Insert, CleanUp, Go, TypeOK, boot, Effect
<1>7. CASE Insert(p) /\ status[Slug(p)] = NoRow
  <2>1. "created" \in Answers /\ Finish(p, "created") BY <1>7 DEF Answers, Insert
  <2>2. Slug(p) \in Slugs => status'[Slug(p)] = "live" BY <1>7 DEF Insert, TypeOK
  <2> QED BY <1>1, <1>2, <2>1, <2>2, FinishEffect DEF Effect, Justified
<1> QED BY <1>3, <1>4, <1>5, <1>6, <1>7 DEF UploadStep

\* The effect of the copy and delete loops of the lifecycle driver.
LEMMA DriverEffect ==
    ASSUME TypeOK, Controlled, NEW p \in Procs,
           DriverStep(p) \/ CopyListError(p) \/ CopyOneError(p) \/ WipeError(p)
    PROVE  Effect(p)
<1>1. UNCHANGED status
  BY DEF DriverStep, CopyList, CopyOne, CopyDone, WipeList, WipeOne, WipeDone,
         CopyListError, CopyOneError, WipeError, rows
<1>2. pc[p] \in {"copy", "copying", "wipe", "wiping"}
  BY DEF DriverStep, CopyList, CopyOne, CopyDone, WipeList, WipeOne, WipeDone,
         CopyListError, CopyOneError, WipeError, At
<1>3. CASE Finish(p, "error") BY <1>1, <1>2, <1>3, ErrorEffect
<1>4. CASE CopyList(p) \/ CopyOne(p) \/ WipeList(p) \/ WipeOne(p)
           \/ CopyListError(p) \/ CopyOneError(p)
  BY <1>1, <1>2, <1>4
  DEF CopyList, CopyOne, WipeList, WipeOne, CopyListError, CopyOneError, At, Go, TypeOK,
      boot, call, Effect, Slug
<1>5. CASE CopyDone(p) /\ ~Finish(p, "error")
  BY <1>1, <1>2, <1>5 DEF CopyDone, Go, TypeOK, boot, call, Effect, Slug
<1>6. CASE CleanedUp(p) /\ Job(p) = "upload" /\ ~Finish(p, "error")
  BY <1>1, <1>2, <1>6 DEF CleanedUp, Go, TypeOK, boot, Effect
<1>7. CASE WipeDone(p) /\ Job(p) # "upload"
  <2>1. AfterWipe(p) \in {"settle", "wipe", "drop"} BY DEF AfterWipe
  <2> QED BY <1>1, <1>2, <1>7, <2>1 DEF WipeDone, Go, TypeOK, boot, call, Effect, Slug
<1> QED BY <1>3, <1>4, <1>5, <1>6, <1>7 DEF DriverStep, WipeDone, WipeError

\* The effect of the steps that read or write the row.
LEMMA RowEffect ==
    ASSUME TypeOK, Controlled, NEW p \in Procs,
           RowStep(p) \/ MarkError(p) \/ AskError(p) \/ SettleError(p) \/ DropError(p)
    PROVE  Effect(p)
<1>1. \A t \in Slugs : t # Slug(p) => status'[t] = status[t]
  BY DEF TypeOK, RowStep, Lock, Mark, MarkError, Ask, AskError, Settle, SettleError,
         Drop, DropError, RemoveRow, rows
<1>2. /\ pc[p] \in {"lock", "mark", "ask", "settle", "drop"}
      /\ Slug(p) \in Slugs /\ Job(p) \in Jobs \ {"upload"}
      /\ pc[p] = "settle" => Job(p) \in Toggles
  BY DEF RowStep, Lock, Mark, MarkError, Ask, AskError, Settle, SettleError, Drop,
         DropError, At, Controlled, Control, Toggles, Jobs, TypeOK, Requests, Job
<1>3. CASE Finish(p, "error") BY <1>1, <1>2, <1>3, ErrorEffect
<1>4. CASE Lock(p)
  BY <1>1, <1>2, <1>4 DEF Lock, At, Go, TypeOK, boot, call, Effect, Slug
<1>5. CASE Mark(p)
  <2>1. pc[p] = "mark" /\ UNCHANGED <<phase, sweep, req>>
    BY <1>5 DEF Mark, At, boot, call
  <2>2. /\ pc'[p] \in {"copy", "wipe", "ask"}
        /\ \A q \in Procs \ {p} : pc'[q] = pc[q]
    BY <1>5 DEF Mark, Go, FirstPlace, TypeOK
  <2> QED BY <1>1, <2>1, <2>2 DEF Effect, Slug
<1>6. CASE Ask(p)
  <2> DEFINE v == Verdict(Job(p), status[Slug(p)])
  <2>1. Finish(p, v) /\ status' = status /\ pc[p] = "ask" BY <1>6 DEF Ask, rows, At
  <2>2. v \in Answers /\ v \notin {"created", "deleted"}
    BY <1>2 DEF Verdict, Done, Answers, Jobs, Toggles
  <2>3. v \in {"parked", "live"} => status[Slug(p)] = v
    BY <1>2 DEF Verdict, Done, Jobs, Toggles
  <2> HIDE DEF v
  <2> QED BY <1>1, <1>2, <2>1, <2>2, <2>3, FinishEffect DEF Effect, Justified
<1>7. CASE Settle(p) /\ ~Finish(p, "error")
  <2>1. /\ Finish(p, Done(Job(p))) /\ pc[p] = "settle"
        /\ status'[Slug(p)] = Done(Job(p))
    BY <1>2, <1>7 DEF Settle, At, TypeOK
  <2>2. Done(Job(p)) \in {"parked", "live"} BY DEF Done
  <2>3. \A r \in {"parked", "live"} : r \in Answers /\ r \notin Transient
    BY DEF Answers, Transient
  <2> QED BY <1>1, <1>2, <2>1, <2>2, <2>3, FinishEffect DEF Effect, Justified
<1>8. CASE Drop(p) /\ ~Finish(p, "error")
  <2>1. /\ Finish(p, "deleted") /\ pc[p] = "drop" /\ status[Slug(p)] # NoRow
        /\ status'[Slug(p)] = NoRow /\ Slug(p) \in gone'
    BY <1>2, <1>8 DEF Drop, RemoveRow, At, TypeOK
  <2>2. "deleted" \in Answers /\ NoRow \notin Transient BY DEF Answers, Transient, NoRow
  <2> QED BY <1>1, <1>2, <2>1, <2>2, FinishEffect DEF Effect, Justified
<1> QED
  BY <1>3, <1>4, <1>5, <1>6, <1>7, <1>8
  DEF RowStep, MarkError, AskError, SettleError, DropError

\* The effect of every step of a goroutine.
LEMMA StepEffect ==
    ASSUME TypeOK, Controlled, NEW p \in Procs, Work(p) \/ Failure(p)
    PROVE  Effect(p)
  BY UploadEffect, DriverEffect, RowEffect DEF Work, Failure

-----------------------------------------------------------------------------
\* While the process boots, every row in mid-transition waits in sweep or is
\* being resumed, and the boot goroutine never asks for permission.
SweepCovers ==
    /\ pc[Boot] \notin {"lock", "mark", "ask"}
    /\ phase = "sweeping" => \A s \in Slugs : status[s] \in Transient =>
          \/ \E r \in sweep : r[1] = s
          \/ pc[Boot] # "idle" /\ Slug(Boot) = s

\* The boot covers every unsettled row, whatever step is taken.
LEMMA SweepCoversKept ==
    ASSUME IInv, SweepCovers, [Next]_vars PROVE SweepCovers'
<1>1. TypeOK /\ Controlled /\ Boot \in Procs BY DEF IInv, Controlled, Procs
<1>2. ASSUME NEW w \in Workers, Request(w) PROVE SweepCovers'
  <2>1. w # Boot /\ w \in Procs BY ProcAssumption DEF Procs
  <2>2. /\ phase = "up" /\ phase' = "up"
        /\ pc'[Boot] = pc[Boot]
    BY <1>1, <1>2, <2>1
    DEF Request, RequestLifecycle, RequestUpload, Arrive, Go, boot, TypeOK
  <2> QED BY <2>2 DEF SweepCovers
<1>3. ASSUME NEW p \in Procs, Work(p) \/ Failure(p) PROVE SweepCovers'
  <2>1. Effect(p) BY <1>1, <1>3, StepEffect
  <2>2. pc'[Boot] \notin {"lock", "mark", "ask"}
    BY <1>1, <2>1 DEF Effect, SweepCovers
  <2>3. CASE phase' # "sweeping" BY <2>2, <2>3 DEF SweepCovers
  <2>4. CASE phase' = "sweeping"
    <3>1. phase = "sweeping" /\ sweep' = sweep BY <2>1, <2>4 DEF Effect
    <3>2. p = Boot /\ Job(p) # "upload"
      BY <2>1, <3>1, Running DEF Effect
    <3>3. ASSUME NEW s \in Slugs, status'[s] \in Transient
          PROVE  (\E r \in sweep' : r[1] = s) \/ (pc'[Boot] # "idle" /\ Slug(Boot)' = s)
      <4>1. CASE s # Slug(Boot)
        BY <2>1, <3>1, <3>2, <3>3, <4>1 DEF Effect, SweepCovers
      <4>2. CASE s = Slug(Boot)
        BY <2>1, <2>4, <3>2, <3>3, <4>2 DEF Effect, SweepCovers
      <4> QED BY <4>1, <4>2
    <3> QED BY <2>2, <3>3 DEF SweepCovers
  <2> QED BY <2>3, <2>4
<1>4. CASE Start
  <2>1. pc' = pc /\ \A s \in Slugs : status'[s] = status[s] BY <1>4 DEF Start, rows
  <2>2. \A s \in Slugs : status[s] \in Transient => <<s, status[s]>> \in sweep'
    BY <1>4 DEF Start
  <2> QED BY <2>1, <2>2 DEF SweepCovers
<1>5. CASE Resume
  <2>1. PICK r \in sweep :
          /\ sweep' = sweep \ {r}
          /\ req' = [req EXCEPT ![Boot] =
                       [job |-> JobOf(r[2]), slug |-> r[1], pack |-> {}]]
          /\ Go(Boot, FirstPlace(JobOf(r[2])))
    BY <1>5 DEF Resume
  <2>2. /\ pc'[Boot] \in {"copy", "wipe"} /\ Slug(Boot)' = r[1]
    BY <1>1, <2>1 DEF Go, FirstPlace, TypeOK, Slug
  <2>3. pc[Boot] = "idle" /\ phase = "sweeping" /\ status' = status
    BY <1>5 DEF Resume, At, rows
  <2> QED BY <2>1, <2>2, <2>3 DEF SweepCovers
<1>6. CASE Listen BY <1>6 DEF Listen, SweepCovers
<1>7. CASE Crash
  <2>1. pc'[Boot] = "idle" /\ phase' = "down" BY <1>1, <1>7 DEF Crash
  <2> QED BY <2>1 DEF SweepCovers
<1>8. CASE UNCHANGED vars
  BY <1>8 DEF SweepCovers, Slug, vars, rows, boot, call
<1> QED BY <1>2, <1>3, <1>4, <1>5, <1>6, <1>7, <1>8 DEF Next

\* When the process starts to listen, no row is left in mid-transition.
\* (Sweep before the listener, main.go:157-161)
THEOREM BootSettles == Spec => ListenSettled
<1> DEFINE J == IInv /\ SweepCovers
           A == phase # "up" /\ phase' = "up" =>
                  \A s \in Slugs : status[s] \notin Transient
<1>1. Init => J
  <2>1. Init => SweepCovers BY DEF Init, SweepCovers, Procs
  <2> QED BY <2>1, InitSafe
<1>2. J /\ [Next]_vars => J' BY NextSafe, SweepCoversKept
<1>3. J /\ [Next]_vars => [A]_vars
  <2> SUFFICES ASSUME J, Next, phase # "up", phase' = "up",
                      NEW s \in Slugs, status[s] \in Transient
               PROVE  FALSE
    OBVIOUS
  <2>1. TypeOK /\ Controlled BY DEF IInv, Controlled
  <2>2. CASE \E w \in Workers : Request(w)
    BY <2>2 DEF Request, RequestLifecycle, RequestUpload, Arrive
  <2>3. ASSUME NEW p \in Procs, Work(p) \/ Failure(p) PROVE FALSE
    <3>1. Effect(p) BY <2>1, <2>3, StepEffect
    <3> QED BY <3>1 DEF Effect
  <2>4. CASE Start \/ Resume \/ Crash BY <2>4 DEF Start, Resume, Crash
  <2>5. CASE Listen BY <2>5 DEF Listen, At, SweepCovers
  <2> QED BY <2>2, <2>3, <2>4, <2>5 DEF Next
<1>4. J /\ [Next]_vars => [phase # "up" /\ phase' = "up" =>
                             \A s \in Slugs : status[s] \notin Transient]_vars
  BY <1>3
<1> HIDE DEF J
<1> QED BY <1>1, <1>2, <1>4, PTL DEF Spec, ListenSettled

\* Whoever's request ends with an answer, it ended by his own step, or a crash
\* took the answer away.
LEMMA OwnAnswer ==
    ASSUME IInv, Next, NEW p \in Workers, pc[p] # "idle", pc'[p] = "idle"
    PROVE  Effect(p) \/ answer'[p] = "none"
<1>1. TypeOK /\ Controlled /\ p \in Procs BY DEF IInv, Controlled, Procs
<1>2. ASSUME NEW w \in Workers, Request(w) PROVE FALSE
  BY <1>1, <1>2 DEF Request, RequestLifecycle, RequestUpload, Arrive, At, Go, TypeOK
<1>3. ASSUME NEW q \in Procs, Work(q) \/ Failure(q) PROVE Effect(p)
  <2>1. Effect(q) BY <1>1, <1>3, StepEffect
  <2>2. q = p BY <1>1, <2>1 DEF Effect
  <2> QED BY <2>1, <2>2
<1>4. CASE Start \/ Listen BY <1>4 DEF Start, Listen
<1>5. CASE Resume
  BY <1>1, <1>5, ProcAssumption DEF Resume, Go, TypeOK
<1>6. CASE Crash BY <1>1, <1>6 DEF Crash
<1> QED BY <1>2, <1>3, <1>4, <1>5, <1>6 DEF Next

\* A 200 or 201 is true when it is sent.  (toggle and Delete answer after they
\* have settled or removed the row, create after the row exists)
THEOREM AnswersTrue == Spec => AnswersAreTrue
<1> DEFINE A(p, s) == Slug(p) = s /\ pc[p] # "idle" /\ pc'[p] = "idle" =>
            /\ answer'[p] = "parked" =>
                  Under("live", s)' = {} /\ Under("parked", s)' = manifest'[s]
            /\ answer'[p] \in {"live", "created"} =>
                  Under("live", s)' = manifest'[s] /\ Index \in manifest'[s]
            /\ answer'[p] = "deleted" =>
                  status'[s] = NoRow /\ \A prefix \in Sides : Under(prefix, s)' = {}
<1>1. ASSUME IInv, Next, NEW p \in Workers, NEW s \in Slugs PROVE A(p, s)
  <2> SUFFICES ASSUME Slug(p) = s, pc[p] # "idle", pc'[p] = "idle", answer'[p] # "none"
               PROVE  A(p, s)
    OBVIOUS
  <2>1. Justified(answer'[p], s) BY <1>1, OwnAnswer DEF Effect
  <2>2. IInv' BY <1>1, NextSafe
  <2>3. Page(s)' /\ manifest'[s] \subseteq Files BY <2>2 DEF IInv, TypeOK
  <2>4. CASE answer'[p] \in {"parked", "live", "created"}
    <3>1. status'[s] = IF answer'[p] = "parked" THEN "parked" ELSE "live"
      BY <2>1, <2>4 DEF Justified
    <3>2. /\ \A f \in Files : /\ <<status'[s], s, f>> \in bucket' <=> f \in manifest'[s]
                              /\ <<Other(status'[s]), s, f>> \notin bucket'
          /\ Index \in manifest'[s]
      BY <2>3, <3>1 DEF Page, Has, Settled, NoRow
    <3> QED BY <2>3, <2>4, <3>1, <3>2 DEF Under, Other
  <2>5. CASE answer'[p] = "deleted"
    <3>1. /\ status'[s] = NoRow
          /\ \A prefix \in Sides, f \in Files : <<prefix, s, f>> \notin bucket'
      BY <2>1, <2>3, <2>5 DEF Justified, Page, Has, Sides
    <3> QED BY <2>5, <3>1 DEF Under
  <2> QED BY <2>4, <2>5
<1>2. IInv /\ [Next]_vars => [\A p \in Workers, s \in Slugs : A(p, s)]_vars BY <1>1
<1> QED BY <1>2, Inductive, PTL DEF Spec, AnswersAreTrue

-----------------------------------------------------------------------------
\* A page is one page until its row is removed, and a slug whose row was removed
\* stays without one: what Insert, Drop and the failing drop do to the rows.
LEMMA Identity ==
    ASSUME IInv, [Next]_vars, NEW s \in Slugs
    PROVE  /\ status[s] # NoRow =>
                 \/ status'[s] # NoRow /\ manifest'[s] = manifest[s]
                 \/ s \in gone' /\ manifest'[s] = {}
           /\ s \in gone /\ manifest[s] = {} => s \in gone' /\ manifest'[s] = {}
<1> DEFINE I == /\ status[s] # NoRow =>
                     \/ status'[s] # NoRow /\ manifest'[s] = manifest[s]
                     \/ s \in gone' /\ manifest'[s] = {}
                /\ s \in gone /\ manifest[s] = {} => s \in gone' /\ manifest'[s] = {}
<1>1. ASSUME UNCHANGED <<status, manifest, gone>> PROVE I BY <1>1
<1>2. ASSUME NEW p \in Procs, RemoveRow(Slug(p)) PROVE I
  BY <1>2 DEF RemoveRow, IInv, TypeOK
<1>3. ASSUME NEW p \in Procs, Insert(p) PROVE I
  <2>1. CASE status[Slug(p)] # NoRow BY <1>1, <1>3, <2>1 DEF Insert
  <2>2. CASE status[Slug(p)] = NoRow
    <3>1. Slug(p) \in Slugs /\ Slug(p) \notin gone
      BY <1>3 DEF Insert, At, IInv, Control, UploadProgress, Uploading
    <3> QED BY <1>3, <2>2, <3>1 DEF Insert, IInv, TypeOK
  <2> QED BY <2>1, <2>2
<1>4. ASSUME NEW p \in Workers, Request(p) PROVE I
  BY <1>1, <1>4 DEF Request, RequestLifecycle, RequestUpload, Arrive, rows
<1>5. ASSUME NEW p \in Procs, Work(p) \/ Failure(p) PROVE I
  <2>1. CASE UploadStep(p) \/ AllocError(p) \/ PutError(p) \/ InsertError(p)
    BY <1>1, <1>3, <2>1
    DEF UploadStep, Alloc, AllocError, Ingest, IngestReject, Put, PutError, InsertError, rows
  <2>2. CASE DriverStep(p) \/ CopyListError(p) \/ CopyOneError(p) \/ WipeError(p)
    BY <1>1, <2>2
    DEF DriverStep, CopyList, CopyOne, CopyDone, WipeList, WipeOne, WipeDone,
        CopyListError, CopyOneError, WipeError, rows
  <2>3. CASE Lock(p) \/ Ask(p) \/ AskError(p)
    BY <1>1, <2>3 DEF Lock, Ask, AskError, rows
  <2>4. CASE Mark(p) \/ MarkError(p) \/ Settle(p) \/ SettleError(p)
    <3>1. Job(p) \in Jobs \ {"upload"}
      BY <2>4
      DEF Mark, MarkError, Settle, SettleError, At, IInv, Control, Toggles, Jobs, TypeOK,
          Requests, Job
    <3>2. Intent(Job(p)) # NoRow /\ Done(Job(p)) # NoRow
      BY <3>1 DEF Intent, Done, NoRow, Jobs, Toggles
    <3>3. UNCHANGED <<manifest, gone>> /\ (status[s] # NoRow => status'[s] # NoRow)
      BY <2>4, <3>2 DEF Mark, MarkError, Settle, SettleError, IInv, TypeOK
    <3> QED BY <3>3
  <2>5. CASE Drop(p) \/ DropError(p) BY <1>1, <1>2, <2>5 DEF Drop, DropError
  <2> QED BY <1>5, <2>1, <2>2, <2>3, <2>4, <2>5 DEF Work, Failure, RowStep
<1>6. CASE Start \/ Resume \/ Listen \/ Crash
  BY <1>1, <1>6 DEF Start, Resume, Listen, Crash, rows
<1>7. CASE UNCHANGED vars BY <1>1, <1>7 DEF vars, rows
<1> HIDE DEF I
<1> QED BY <1>4, <1>5, <1>6, <1>7 DEF Next, I

\* A detail never mixes two pages, although its two statements see the database
\* at different moments.  (db.go:98-130)
THEOREM DetailHolds == ReaderSpec => []DetailIsOnePage
<1> DEFINE Known(s, count) == \/ status[s] # NoRow /\ manifest[s] = count
                              \/ s \in gone /\ manifest[s] = {}
           J == /\ IInv
                /\ detail # Nothing => /\ detail.slug \in Slugs
                                       /\ Known(detail.slug, detail.count)
<1>1. ReaderInit => J BY InitSafe DEF ReaderInit
<1>2. ASSUME J, [ReaderNext]_<<vars, detail>> PROVE J'
  <2>1. [Next]_vars BY <1>2 DEF ReaderNext, GetRow, GetAssets, Write
  <2>2. IInv' BY <1>2, <2>1, NextSafe
  <2>3. CASE detail' = Nothing BY <2>2, <2>3
  <2>4. CASE GetRow
    <3>1. PICK s \in Slugs : /\ status[s] # NoRow /\ UNCHANGED vars
                             /\ detail' = [slug |-> s, count |-> manifest[s]]
      BY <2>4 DEF GetRow
    <3> QED BY <2>2, <3>1 DEF vars, rows
  <2>5. CASE detail' = detail
    <3> SUFFICES ASSUME detail # Nothing PROVE Known(detail.slug, detail.count)'
      BY <1>2, <2>2, <2>5
    <3> QED BY <1>2, <2>1, <2>5, Identity
  <2> QED BY <1>2, <2>3, <2>4, <2>5 DEF ReaderNext, GetAssets, Write
<1>3. J => DetailIsOnePage BY DEF DetailIsOnePage, Assets
<1> QED BY <1>1, <1>2, <1>3, PTL DEF ReaderSpec
=============================================================================
