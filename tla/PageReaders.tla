---------------------------- MODULE PageReaders -----------------------------
(***************************************************************************)
(* GET /api/pages/{slug} beside the writers of PageLifecycle.              *)
(*                                                                         *)
(*   src/internal/upload/upload.go   get                                   *)
(*   src/internal/db/db.go           GetPage                               *)
(*                                                                         *)
(* GetPage reads the page's row and then, in a statement of its own and    *)
(* without a transaction, its assets.  Neither statement waits for the     *)
(* page's mutex: any number of writers' steps may come between them.       *)
(***************************************************************************)
EXTENDS PageLifecycle

VARIABLE detail  \* a request between its two statements: the slug asked for
                 \* and the files its row counted

Nothing == [slug |-> NoSlug, count |-> {}]

ReaderInit == Init /\ detail = Nothing

\* The row, with its asset_count; without one there is a 404 and nothing more.
GetRow ==
    /\ phase = "up" /\ detail = Nothing
    /\ \E s \in {t \in Slugs : status[t] # NoRow} :
          detail' = [slug |-> s, count |-> manifest[s]]
    /\ UNCHANGED vars

\* The rows of assets with that slug, whatever page they belong to by now.
Assets == manifest[detail.slug]

GetAssets ==
    /\ detail # Nothing
    /\ detail' = Nothing  \* answered with the row and Assets
    /\ UNCHANGED vars

\* The writers go on; a request does not survive the process.
Write ==
    /\ Next
    /\ detail' = IF phase' = "up" THEN detail ELSE Nothing

ReaderNext == GetRow \/ GetAssets \/ Write

ReaderSpec == ReaderInit /\ [][ReaderNext]_<<vars, detail>>

-----------------------------------------------------------------------------
\* Whenever the second statement runs, the two halves of a detail belong to
\* the same page: the assets are all the row counted, or none because the page was
\* deleted in between; they are never those of a later page.  (db.go:98-130
\* has no transaction: it rests on slugs that are never used again, and on CreatePage
\* and the cascade being atomic)
DetailIsOnePage ==
    detail # Nothing =>
        \/ Assets = detail.count
        \/ Assets = {} /\ detail.slug \in gone
=============================================================================
