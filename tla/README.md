# A verification project for *page*

*page* (`src/`, Go) hosts static pages. An admin uploads an HTML file, a zip
or a URL; the server rewrites and stores it under a slug `{identifier}-{code}`;
visitors fetch it at `/p/{slug}/`. A page can be parked (hidden), unparked and
deleted. Metadata lives in one SQLite file, content in one S3 bucket, and
nothing makes the two change together: most of what can go wrong lies there.

This directory holds TLA+ modules translated from that code, the TLC runs that
check them on small instances and the TLAPS proofs about them for all
instances. `PROJECT.json` lists the runs, the mutants, the theorems, the
hazards, and for every definition the lines it models.

## 1. The system

| component | state | operations | talks to |
|---|---|---|---|
| lifecycle service (`internal/lifecycle`) | a mutex per slug, in memory; `pages.status` | Park, Unpark, Delete, Sweep | SQLite, bucket |
| upload write path (`internal/upload`) | none of its own | create: allocate, ingest, put, insert | slug, ingest, SQLite, bucket |
| slug allocation (`internal/slug`) | table `counters` | Sanitize, Validate, Allocate | SQLite |
| page store (`internal/db`) | tables `pages`, `assets` | CreatePage, DeletePage, GetPage, ListPages, Migrate | SQLite |
| object storage (`internal/storage`) | the bucket | Put, Get, Stat, Copy, DeletePrefix | S3 |
| boot and shutdown (`cmd/server`) | the process | open, migrate, sweep, listen, shut down | all of the above |
| serve plane (`internal/serve`) | the entry-HTML cache | pageIndex, pageAsset, asset, healthz | bucket only |
| ingest (`internal/ingest`, `internal/fetch`) | per upload: plans, fetch pool, budget | OpenPack, DetectEntry, Process, FetchAll | the web |
| authentication (`internal/auth`) | JWKS cache; cookies at the browser | Allow, Login, Callback, Logout | identity provider |
| configuration (`internal/config`) | none | Load | environment |
| admin UI (`serve/static/app.js`) | the view | load list and detail, act, publish | HTTP API |

The serve plane and the admin plane share nothing but the bucket. A park is
visible to a visitor because the keys under `{slug}/` are gone, never because
somebody looked at a row; a page's row and its objects are related only by the
order in which the admin plane touches them.

What is hard in it:

* **Two stores, no transaction.** Every operation is a row update, a series of
  S3 calls and another row update. Each of them can fail, with or without its
  effect, and the process can die between any two.
* **Goroutines.** Requests on one slug meet at a mutex (lifecycle) or not at
  all (uploads, which rely on the counter).
* **Recovery.** The boot sweep resumes what a crash left, before anything
  listens, and may be interrupted itself.
* **A cache beside the truth.** The serve plane learns of a park only when it
  revalidates, and other visitors share the entry while it does.
* **Time and budgets** in ingest and authentication.

What makes each component correct:

* lifecycle: a settled row tells where the page's files are; no file is lost
  before a delete is asked for; a deleted page is gone from both stores for
  good; an answer is true when it is sent; every request ends; a crash heals.
* upload and slugs: a slug is nobody else's, before or after; a page appears
  whole or not at all.
* cache: list, map and byte count agree and stay in the budget; a removed page
  is not shown much longer than the TTL; a 404 says that the page was gone
  during the request, or that the bucket refused a call of that very request.
* ingest: caps hold at their limits; the entry does not depend on the order of
  a map; an import never leaves the permitted addresses; the rounds of fetching
  reach exactly what the documents name, each URL once; what a document refers
  to is stored, and the manifest says so; an import is whole or refused.
* authentication: cookies alone let nobody in without a session that a verified
  token paid for; a withdrawn key fades, a new one breaks no login; a state that
  is refused has been interfered with.
* boot and migrations: the schema moves in one step whatever is killed; what
  listens has all it needs; every boot ends.

## 2. The modules

| module | what it is |
|---|---|
| `PageCatalog` | abstract specification of the write side: a page is one set of files, and what a visitor can fetch of it |
| `PageLifecycle` | the write side, one step per SQL statement and S3 call; its properties, its inductive invariant and the refinement to `PageCatalog` |
| `PageLifecycle_proofs` | type correctness, the inductive invariant and the safety invariants |
| `PageAnswers_proofs` | what an answer, a boot and a detail may claim |
| `PageRefinement_proofs` | `PageLifecycle` implements `PageCatalog` |
| `MCPageLifecycle` | instance for TLC |
| `PageReaders`, `MCPageReaders` | `GetPage` beside the writers: extends `PageLifecycle` by a reader with two statements |
| `HTMLCache`, `MCHTMLCache` | the entry-HTML cache and `pageIndex` around it |
| `Intake`, `MCIntake` | what the upload handler does before it has a slug: form, zip, entry document, identifier |
| `Bake`, `MCBake` | the ingest pipeline with its fetch pool, manifest and verdict |
| `Login`, `MCLogin` | checker, OIDC flow, key cache and session cookie |
| `Boot`, `MCBoot` | configuration, database and migrations, bucket, sweep, discovery, listener, shutdown |
| `HTMLCache_proofs`, `Intake_proofs`, `Bake_proofs`, `Login_proofs`, `Boot_proofs` | for each of these an inductive invariant, and every safety property |

One upload is described by three modules: `Intake` ends where an identifier
is accepted, `Bake` is what `Ingest` of `PageLifecycle` abstracts to
"some set of files, or a refusal", and `PageLifecycle` has allocation, puts, insert
and clean-up. Likewise `Boot` is the boot of which `PageLifecycle` has the
sweep in full (`Start`, `Resume`, `Listen`): `Boot` keeps one bit of what there is to
sweep and `PageLifecycle` one process. No refinement between them is
stated; what they share is named here.

### PageLifecycle

State and its counterpart:

| variables | code |
|---|---|
| `bucket` | the objects, as triples of prefix (`{slug}/` or `_parked/{slug}/`), slug and file |
| `status`, `manifest` | `pages.status`, and the page's files (its `assets` rows and the entry) |
| `next` | `counters.next` |
| `gone` | history only: slugs whose row `DeletePage` removed |
| `phase`, `sweep` | down, sweeping, listening; Sweep's `todos` |
| `lock` | `Service.locks` |
| `pc`, `req`, `attempt`, `answer` | each goroutine: its place, its request, the attempt of the upload loop, its answer |
| `side`, `todo`, `failed` | inside a put loop, `Copy` or `DeletePrefix`: the prefix, the keys left, a key that failed |
| `faults` | bound: failures and crashes so far |

A slug is the pair of identifier and code; pages consist of abstract files, one
of which is `index.html`. `Boot` is the goroutine of the sweep, `Workers` are
requests.

| code | actions |
|---|---|
| `upload.create` | `RequestUpload`, `Alloc`, `Ingest`, `IngestReject`, `Put`, `Insert`, and the clean-up `WipeList`, `WipeOne`, `WipeDone` |
| `lifecycle.toggle`, `Delete` | `RequestLifecycle`, `Lock`, `Mark` (the guarded UPDATE), `Ask` (no row matched), `Settle` (finalize), `Drop` (DeletePage) |
| `s3compat.Copy` | `CopyList`, `CopyOne`, `CopyDone` |
| `s3compat.DeletePrefix` | `WipeList`, `WipeOne`, `WipeDone` |
| `Sweep`, `runAdminAll` | `Start`, `Resume`, `Listen` |
| failures | every action that talks to a store has an `...Error` twin; `Crash` |

Choices that a reader may ask about:

* An `...Error` step happens with or without the effect of the call: a lost
  answer, a cancelled request context. `InsertError` is the exception:
  `CreatePage` is one local SQLite transaction which a failure rolls back, and
  the driver does not cancel a commit that has begun.
* A failed `Copy` goes on with its other keys and fails at the end, a failed
  `DeletePrefix` stops at once, as in the driver. A listing that breaks off
  has delivered some of the keys.
* The clean-up of a failed upload may fail as well. What it leaves stays under
  the prefix, without a row; nothing in the code ever collects it.
* The mutex of an operation is released by the same step that answers (`defer`),
  so also on every error path.
* An error in Sweep ends the boot; a process that is down starts again.
* S3 calls of a process that died do not take effect after its restart, and
  one admin process runs at a time (the deployment rule of
  `openspec/specs/deployment-modes/spec.md:71`). Both are assumptions.
* Beyond `MaxCode` an allocation fails in the model; `MaxFaults` bounds
  failures. No proof uses either value.

### PageCatalog and the refinement

The catalog knows neither mutexes nor goroutines nor prefixes: a slug is
unused, public, being hidden, hidden, being shown, being removed or removed;
a page's `files` never change until it is removed; `visible` only shrinks while a page is being
hidden, only grows while it is being shown, and an operation ends only when
nothing or everything is visible. `ImplementsCatalog` says that
`PageLifecycle`, with failures, crashes and sweeps, does this:
`state` comes from the row (and `gone`), `files` from the union of the two
prefixes, `visible` from the served one. An unused slug may show fragments:
that is the honest statement of what an upload in flight, or one that could
not clean up, leaves.

### HTMLCache

| variables | code |
|---|---|
| `maxBytes` | the budget, `Options.CacheMaxBytes`: any of `Budgets`, chosen in `Init` |
| `origin`, `absentFor` | the ETag of `{slug}/index.html` in storage; ticks since it disappeared |
| `items`, `ll`, `curBytes` | the same fields of `htmlCache`; an entry keeps its ETag and its age (`storedAt`) |
| `pc`, `want`, `tag`, `took` | a visitor's `pageIndex`: place, slug, ETag in hand, ticks since it arrived |
| `driver` | `STORAGE_DRIVER`: `mem` or `s3compat` |
| `answer`, `missed` | its last answer; history: its page was absent at some time meanwhile |
| `refused` | history: the bucket refused a call of its last request |

Each cache operation is one step, since it runs under the cache's mutex;
between `Lookup`, `Stat` or `Get`, and `Touch`, `Evict` or `Put` everything
else may happen, in particular `Hide` and `Show`, which are the admin plane's
effect on the key. The ETag may be another one after an unpark: the driver
expects `CopyObject` to keep it (`s3.go:55-58`, an ETag is the MD5 of an object
put in one part), which is a promise of the store that `pageIndex` does
not need; the model has both. Bytes never change, so an entry's length is
its page's; `Bytes` counts them as pairs of a page and a number, which adds
the lengths up without a recursion. `Put` evicts from the back as the loop in the code does: until the total
fits or one entry is left; a page that is longer than the budget is never
cached, and an entry that is replaced returns before the loop.

A storage call fails in two ways. `StorageError` ends in 500. `Refuse` is a 403
or `NoSuchBucket`: the S3 driver makes `ErrNotFound` of both (`notFound`,
`s3.go:180-190`, because S3 answers 403 for an absent key on some paths), and
`pageIndex` takes it for one, evicts and answers 404. It may happen at any
call and as often as it likes, whether the page is there or not; the in-memory
driver never does it. `NotFoundIsTrue` therefore names the refusal as the other
reason for a 404, and confines it to the request that met it: no other request is
told 404 on that account.

`MaxLatency` bounds how long one request takes. The code has no such bound (no
timeout around the storage calls of a request); it is there to state how long
a removed page can be shown in terms of it.

### PageReaders

`GetRow` and `GetAssets` are the two statements of `GetPage` (`db.go:98-130`),
`detail` what the handler holds between them, and `Write` any step of
`PageLifecycle`. A request that finds no row is answered at once and does not
appear; one that is under way does not survive the process.

### Intake

| variables | code |
|---|---|
| `request` | the form: which of `url` and `file`, the body's content and length, the zip's entries, the identifier |
| `i`, `total`, `read`, `files` | OpenPack's loop: entries done, bytes kept, bytes decompressed, the pack |
| `left`, `best` | DetectEntry's walk over the map |
| `hops`, `dialled` | requests of an import, addresses connected to |
| `identifier`, `answer` | what Sanitize returned; the status |

| code | actions |
|---|---|
| `upload.create` up to ingest | `Form` |
| `OpenPack`, `isSizeErr` | `Unzip`, `Unzipped` |
| `EntryFetcher.Fetch`, the guarded transport, `fetchFailure` | `InvalidURL`, `Blocked`, `Hop` |
| `DetectEntry` | `StartDetect`, `Consider` (any order), `Detected` |
| `slug.New`, `Sanitize`, `Validate` | `Name` |

Every request of an import may resolve to another set of addresses, so a name
that changes its address between two hops is included. An identifier
is a sequence over `Characters`, in which "?" is anything that is no letter, digit
or dash; lowering case changes none of these. `Collapsed` writes one character
after the other and never a dash behind a dash, which is what the two
replacements in `Sanitize` come to (`slug.go:38-41`). Names (`Names`) are told apart by
extension, depth and order; `NameAssumption` says that `path.Clean` returns no empty
name and that the order is total.

`PackAsDeclared` compares the loop with the zip as a whole: `WellFormed` says what
may pass (the number of entries, each entry's kind and length, all bytes together), and the
property holds in both directions, whichever entry a refusal comes at, the
first included, and before any entry at all, as the count's does.

### Bake

| variables | code |
|---|---|
| `imported`, `pack`, `web` | import or upload; its files; what every document refers to |
| `plan`, `kept`, `order` | `b.plans`, `b.kept`, `b.bakeOrder` |
| `seen`, `queue`, `jobs` | `cssScanned`, `cssQueue`, `scannedLocalCSS` |
| `task`, `slots`, `expired`, `result` | FetchAll: its goroutines, semaphore, deadline and result map |
| `store`, `baked`, `manifest`, `answer` | the assets to store, `bakedPaths`, the manifest, the answer |
| `requests` | history: requests sent per URL |

| code | actions |
|---|---|
| phase 1 and 2 of `Process` | `ParseEntry`, `ScanSheet`, `StartRound`, `EndRound`, `Apply` |
| `FetchAll` | `Acquire`, `GiveUp`, `Return`, `Expire` |
| phase 3, manifest, import gate, primary key of `assets` | `Finalize` |

References are data: an identity and the form it is written in, because the
scanner skips one form that the rewriter handles. `BakeAssumption` says what the
constants are: URLs and file names differ, each URL has a path to be stored under, whose
extension is the URL's, and every pack has its entry. An entry
reference to a stylesheet of the pack is taken to come from a stylesheet link,
a style element or a style attribute: `pipeline.go:144` scans no `.css` file that, say, only an
`<img>` names, and `Bake` has no such reference. The order in which a
round's results are applied is any; the code applies them in document order.
Database and storage do not fail here (they do in `PageLifecycle`); the web
does, at any time and for ever.

### Login

| variables | code |
|---|---|
| `cookie`, `cookieEnds`, `session` | the browser's jar: which login's state cookie, until when; the end of the session cookie |
| `tab` | per tab: home, at the provider, in the callback's exchange, key lookup or response |
| `cached`, `fetchedAt`, `fetch` | `jwksCache.keys`, `fetchedAt`, the mutex with the fetch it is held over |
| `signing`, `withdrawn`, `form`, `used` | the provider (external): newest key, withdrawals, the form each key is published in, spent codes |
| `disturbed`, `minted` | history |

| code | actions |
|---|---|
| `Login`, `Callback`, `exchange` | `Begin`, `Callback`, `Exchange` |
| `validateIDToken`, `mintSession` | `Judge`, within the step that found the key |
| `jwksCache.key`, `fetch` | `FindKey`, `Serve`, `Fetched`, `FetchFails` |
| `Set-Cookie` of the callback's response | `Respond` |
| `Logout` | `Logout` |
| `Checker.Allow`, `sessionFrom` | `Allow`, `SessionOK`, evaluated in every state |

Of a provider's answer `Fetched` keeps what `publicKey` understands (`Usable`): a key
is `good`, or `skipped` (another type, another curve, no `alg`), or `malformed`, which
fails the whole fetch and leaves the cache as it was. `Publications` says in which forms the
keys may be published.

A cookie changes when a response arrives, not when the handler decides on it.
Login k has state k, nonce k and code k: random values are taken not to
collide, signatures not to be forged. The one clock stands for those of browser, server and
provider.

### Boot

| variables | code |
|---|---|
| `env` | the environment `config.Load` reads |
| `pc`, `stopping`, `stalled` | the process; its context is cancelled; it makes no progress |
| `conn`, `attempt`, `view` | the pool's connection, Migrate's retries, what its transaction sees |
| `todo`, `flow` | the sweep's list; the OIDC flow |
| `wal`, `lock`, `schema`, `intent`, `bucket` | the file: journal converted, write lock, `schema_migrations`, a row in the middle of a toggle; the bucket |

| code | actions |
|---|---|
| `config.Load` | `Load` (`Valid`) |
| `db.Open`, `PingContext`, `db.Migrate` | `Connect`, `Convert`, `Reuse`, `PingBusy`, `AcquireBusy`, `Retry`, `Begin`, `WaitTimeout`, `Apply`, `Record`, `Commit`, `MigrateFails`, `Rollback` |
| `storage.Open`, `EnsureBucket` | `OpenStorage`, `BucketExists`, `MakeBucket` |
| `Sweep` | `SweepQuery`, `SweepSettle` |
| `Discover` | `Discover`, `DiscoverFails` |
| `listen`, signals | `Shutdown`, `Signal`, `Cancelled` |
| the world | `StepFails`, `Stall`, `Wake`, `Kill`, `Restart` |

SQLite is external. Of it the model assumes that the conversion of a fresh file's journal
refuses a second first connection at once, without the busy timeout (the
comment at `migrate.go:88-92` says so, and the retry exists for it), that
BEGIN IMMEDIATE waits for the busy timeout, and that a transaction that
does not commit leaves nothing. `HasAdmin` says whether an environment has an
admin plane; `seed` always has, and a `seed` without a path works on a
temporary database of its own, so `BootAssumption` lets only one with a path
share the file. A wait times out only behind a holder that is
stalled: five seconds are taken to be long. A commit that takes effect while its
answer is lost has no action of its own: the process fails and the schema has
moved, which is what `Commit` followed by `StepFails` leaves.

## 3. The runs

| run | bounds | checks |
|---|---|---|
| `lifecycle_one_page` | 1 slug, 2 files, 2 workers and the boot, 3 faults | `TypeOK`, `IInv`, `SettledPlacement`, `NoFileLost`, `FinalizeMatches`, `AnswersAreTrue`, `ListenSettled`, `ImplementsCatalog` |
| `lifecycle_two_codes` | 2 codes of one identifier, a reader, 1 fault | `DeletedIsGone`, `UploadOwnsSlug`, `DetailIsOnePage` |
| `lifecycle_liveness` | 1 slug, 2 faults, fair | `EveryRequestEnds`, `CrashHeals` |
| `lifecycle_busy` | 1 slug, 2 faults | `BusyMeansRunning` is violated |
| `cache_staleness` | 2 pages of different length, budgets 1 to 3, 2 ETags, TTL 1, latency 1, 2 visitors, both drivers | `TypeOK`, `CacheAccounts`, `StalenessBounded`, `NotFoundIsTrue` |
| `cache_window` | the same, budget 3 | `WithinWindow` is violated |
| `bake` | 128 webs over 5 URLs and 4 files, 2 packs and imports, 2 slots, fair | `TypeOK`, `NothingMissed`, `FetchedOnce`, `PoolAccounts`, `ReferencesLead`, `ManifestAgrees`, `ImportIsWhole`, `EveryUploadEnds` |
| `bake_collision` | the same | `UploadsAreBestEffort` is violated |
| `intake` | all zips of up to 3 of 14 entries, all identifiers of up to 5 characters, 3 hops | `TypeOK`, `PackAsDeclared`, `EntryIsBest`, `ImportsStayInside`, `IdentifiersAreClean` |
| `login` | 2 tabs, 2 logins, 2 keys of which the second has any form, clock to 3, 1 fault, fair | `TypeOK`, `WithdrawnKeysFade`, `RotationBreaksNoLogin`, `AllowedIsEarned`, `UndisturbedLoginPasses`, `EveryCallbackEnds` |
| `boot` | every environment of a server, and of a seed with a path, alone; 4 pairs on one file, 2 migrations, 2 faults, 2 boots each, fair | `TypeOK`, `ListeningIsReady`, `SchemaMovesWhole`, `EveryBootEnds` |
| `boot_race` | 2 admin processes, no fault | `BothBootsSucceed` is violated |

Why these bounds are enough.

* Slugs interact only through the counter of their identifier, so one slug
  shows everything about park, unpark, delete and sweep, and two codes show what
  uploads and deletes of successive pages can do to each other. Two files are
  the least with which a page can be half copied and half removed, `index.html`
  first or last. Two workers and the boot goroutine are enough for a holder, a
  waiter and a predecessor that died. Three faults allow an operation that
  fails, a sweep that crashes over it and another failure after that.
* In the cache, the budgets let it hold the shorter page only, either page
  but one at a time, and both; two visitors are the least that can interleave on
  an entry.
* In `bake` the webs hold two stylesheets that import each other, a fetched one
  that names further URLs (so that there is a second round), the same URL in two
  documents, two URLs of one path, a file at a path that a URL also gets, an allowed
  host, plain and signed, and the import form the scanner skips. Two slots make
  goroutines wait; nothing in the pool depends on how many do.
* In `intake` each cap is a few units above what one entry needs, so that it is
  met, missed by one, and met by one entry alone and by several together, by the first
  entry and by a later one, and so is the number of entries; three
  hops are a request, redirects that are followed, and one too many. Five characters
  with a length of three give every way in which trimming and cutting meet.
* Two logins are one and the one that disturbs it; two keys are a rotation, from one that is
  understood to one that is, is skipped, or cannot be read. The
  clock reaches past every time to live of the instance (1 or 2), with
  another tick for a slow answer.
* The repository embeds one migration; two show what a run that is cut between them
  leaves. Three processes on one file add nothing to two: the lock has one
  holder, and the others wait in the same way. Two faults
  are a stall and a kill, or a failure in each of two boots.

With symmetry over workers and visitors (not where liveness is checked) each run
takes two minutes or less.

Deadlock is checked in all runs but `boot` and `boot_race`, in which all
processes may have ended for good. In `bake`, `intake` and `login` the end that
is wanted (answered; nobody logging in) stutters, and no other end does.

**Fairness.** `FairSpec` assumes that a goroutine that can go on goes on
(weak fairness of `Work(p)`), that a waiter for a mutex gets it in the end
(strong fairness of `Lock(p)`: Go's `sync.Mutex` hands over to waiters in
starvation mode), and that a process that is down boots and sweeps. It does
not assume that calls succeed; `MaxFaults` only keeps failures from recurring
for ever, without which no retry would ever end.

In `bake` it assumes that the handler and its goroutines run and that the
deadline passes; of servers it asks nothing: only once the deadline has passed must a
request return, because its context has ended. In `login` handlers run, the
provider answers or the client's timeout ends the call (`Serve`, then `Fetched`
or `FetchFails`), and `FindKey` has strong fairness for the same reason as
`Lock`. In `boot` each process goes on if it can (`Progress`), except while it is stalled,
which may be for ever; retries, waits and shutdown are steps like
others.

**Findings.** Four runs show where the code parts from what is written about it:

* `lifecycle_busy`: `ErrBusy` is described as "a toggle is running in the
  opposite direction; retry after it settles" (`lifecycle.go:40-41`). As the
  check runs under the slug's mutex, no toggle can be running: the
  answer means that an earlier one failed and left its intent in the row. It
  does not settle by waiting, only by the same request again or by a restart.
* `cache_window`: `serve.go:342-344` says that a parked page stops being
  served within the cache TTL. `touch` and `put` take the time after the
  storage call has returned; a park during the call is followed by a whole TTL
  in which also new requests are shown the page. The true bound is
  `StalenessBounded`: the TTL and the time of one request.
* `bake_collision`: `upload.go:258-259` says that uploads stay best-effort. A
  document that names `https://h/a.png?v=1` and `?v=2` cannot be uploaded at
  all: `externalStorePath` (`pipeline.go:458`) drops the query, both get one
  path, the manifest has it twice, and the insert violates the primary key of
  `assets`. The answer is 500, as often as one tries. (`ReferencesLead` and
  `ManifestAgrees` therefore speak of created pages only where this matters.)
* `boot_race`: `openspec/specs/sqlite-persistence/spec.md:25` promises that two
  first boots on one fresh file both succeed. Migrate retries on the busy
  connection, but `runAdminAll` has pinged the pool before, without a retry
  (`main.go:128`): the ping opens the connection, and fails. Two
  later steps can do the same to a second process: `EnsureBucket` checks and
  then makes (`s3.go:41-52`), and the second of two sweeps finds no row to
  finalize, which `lifecycle.go:178-182` calls unreachable in practice.

**Seen, without a run.** Reading the code for these models also turned up:

* `cssRefs` (`scan.go:114-132`) does not see `@import "..."` with double quotes,
  which `rewriteCSS` handles; such an import is neither stored nor counted
  against an import's completeness. `ImportIsWhole` is stated of the scanned
  forms.
* The fetch budget is per round and per attempt (`fetch.go:55`), while
  `upload.go:232-234` describes it as per upload. `EveryUploadEnds` holds all the
  same.
* A reference to the entry itself, and one to a pack file under
  `external/` whose path a fetched asset takes, lead to nothing or to
  another file; `ReferencesLead` names both exceptions.
* `isSizeErr` looks for "cap" and "exceeds" in a message that quotes the
  entry's name: a refused `recap.zip` is answered 413 instead of 422.
* `storage.go:12` says that `ErrNotFound` is returned when the key does not
  exist. The S3 driver returns it for every 403 and for a missing bucket as well
  (`s3.go:180-190`), so a visitor of a page that is there is told 404, where any other
  failure of the bucket is a 500, and its cache entry is thrown away.
  `NotFoundIsTrue` names the exception.
* `admin-auth/spec.md:71` promises that a login succeeds if the key is found in the
  re-fetched set, and `jwks.go:47-48` that a rotation never breaks a login.
  `publicKey` keeps only keys that name `RS256` or `ES256` themselves
  (`jwks.go:144-176`); `alg` is optional in a JWK, and a provider that leaves it out for
  its new key locks everybody out with "unknown signing key".
  `RotationBreaksNoLogin` names the exception. A key that cannot be read does more: it
  fails the fetch, and with it every login that needs one.
* `verifyES256` (`jwks.go:39-44`) expects ASN.1, a JWS carries `r || s`: an ES256
  login cannot succeed with a provider that follows the standard.
* The response of a callback removes the state cookie of whichever login is in
  the jar by then: `UndisturbedLoginPasses` says "began a login or got an
  answer" for that reason.

**Mutants.** For every property of a passing run `PROJECT.json` names a change
of the model, of the kind a slip in the code would make, that violates it:
a swallowed copy error, a missing lock, a sweep that forgets deletes, a
sliding cache expiry and so on. They stand before the definitions they change.

## 4. The proofs

Every safety property of a passing run, invariant or action property, is a
theorem here, for every value of the constants; what stays with TLC is named at
the end. The bounds of the runs (`MaxFaults`, `MaxCode`, `MaxTime`, ...) are
constants like others, and no proof uses the value of one.

**PageLifecycle.** `PageLifecycle_proofs` proves `TypeCorrect` (`Spec => []TypeOK`),
`Inductive` (`Spec => []IInv`) and from it `SettledSafe`, `NothingLost`, `DeletedForGood`, `UploadsAlone` and
`FinalizeFinds`. They hold for every set of identifiers, files and workers,
any number of codes and of faults, from the three assumptions at the head of
`PageLifecycle` (the index is a file; `Boot` and `Free` are not workers and
not each other; the bounds are numbers).

None of the safety properties is inductive. `IInv` adds, in four parts, why
they hold:

* `Control`: which job may stand at which place.
* `Exclusion`: requests run only while the process listens, the boot
  goroutine only while it sweeps; who is past `lock` holds its slug's mutex; a row
  that waits in `sweep` still has the status it was read with.
* `Page`: what the rows and objects of one slug look like in each status, and that
  a slug at or above the counter has never been used.
* `UploadProgress`, `WorkProgress`: what a goroutine has done to the objects
  so far, for example that a toggle that wipes has every file of the
  manifest at the other side already, or that a delete that wipes the parked
  prefix has emptied the served one.

The step proof has one lemma per action. `WorkAlone` says that no two
goroutines work on one slug; a step of one therefore leaves the progress of
all others alone. For a step that changes only one slug's row
or objects, framing lemmas carry `Page` and the progress of the others over,
so that each action's own proof only speaks of its slug.

`PageAnswers_proofs` proves the two action properties and `DetailHolds`. The former follow from what
one step of a goroutine may do to the rows, the sweep and its own answer
(`Effect`, proved of every step): `AnswersTrue` because the step that answers
is the one that wrote or read the row, under the mutex; `BootSettles` because,
while the process boots, every transient row is in `sweep` or in the hands of the boot
goroutine (`SweepCovers`, an invariant of its own), and `Listen` waits for both to be empty.
`DetailHolds` takes `IInv` to the specification with the reader: between the two
statements the row may go, but no other can come under its slug, because the
counter is past it.

`PageRefinement_proofs` proves `WriteSideImplementsCatalog`
(`Spec => ImplementsCatalog`). By `IInv`, a step changes what the catalog knows of
at most one slug, and the change is one that the catalog allows:
a copy adds to the visible files of a page that is being shown and to nothing
else, a wipe takes files that the other prefix has already, or files of a page that is
being removed, a
settle finds the visible set complete or empty. All other steps, mutex,
counter, listings and crashes included, are stutters of the catalog.

The other modules have one proof module each. It begins with the inductive
invariant `IInv`, then come the lemmas about operators, one lemma per action, and
the theorems, which follow from `IInv` without another induction.

**HTMLCache.** From the assumptions that an ETag is not `Absent`, that lengths and
budgets are numbers, and so are the two times. `CacheAccounts` is inductive but for
the bytes, for which the proof goes through the set of the listed pages: a list
without repetition weighs what its set weighs, and adding or removing a page moves
that by its length. The loop of `Put` keeps a
prefix of the list, as long as possible (`Greatest`: a set of numbers with a bound
has a largest one). `StalenessBounded` needs `Dated` (a fresh entry's page has
been gone no longer than the entry is old and one request takes) and `Handling`
(what a handler that will stamp the cache holds was true since it began, and one that
will evict has met an absence or a refusal, from which `Truthful` follows).

**Bake.** From `BakeAssumption`. `IInv` follows every URL through plan, order,
round, task and result (`Fetching`), says what each phase has settled (`Phases`), what
a stored path holds (`Shelf`), that what is queued or scanned is what was seen and
that all a scanned document names is planned (`Scanning`), and that what is planned
is in every set closed under naming (`Named`). The last two meet in `NothingMissed`: the
planned set is closed, and inside every closed set, so it is the least one, although
nothing in the module computes it.

**Intake.** From the three assumptions of `Intake`. The first half of
`Intake_proofs` is about `Sanitize`, for texts of any length: `Collapsed` and `Words` are
characterised by the values they go through (`Collapsing`, `Finding`), single dashes
are kept by each of them, and what is clean already is left alone (`CollapsedAgain`).
`Sanitized` puts the steps together. In the second half `Unpacked` says of every place what
has become of the zip (well-formed as a whole, or refused for a reason that is still in it), `Kept(n)` says what the
loop of OpenPack has made of the first n entries, and `Leads` that the best
document so far leads all that were seen, in whatever order; `Routed` has an import
count its requests from zero, without which its bound would not be inductive.

**Login.** From `LoginAssumption`. `IInv` relates a tab to what it knows (`Logins`), the
mutex's holder to the answer it waits for (`Mutex`), and every answer and cache
to the time it was written (`Answers`): a key that is missing from an answer is one that
had been withdrawn when the provider wrote it, so one that is not kept of an answer is
withdrawn or skipped; and a key in the cache is no older than the
answer that brought it.

**Boot.** From `BootAssumption`. `IInv` says for each process what it has secured at its
step: the configuration it passed (`Configured`), the connection (`Connected`), the
write lock and a view no shorter than the schema (`Migrating`), the schema, bucket and
flow behind it (`Secured`). A step of one process leaves the others' part alone
because the schema moves only under the lock, and only forward (`Frame`, `Others`).

Recursive functions (`Collapsed`, `Words`) and lists are handled by induction
without an operator as a parameter: `Upward` and `Greatest` are about a set of numbers,
and follow from the well-foundedness of the order on them.

**Only model-checked.** Liveness (`EveryRequestEnds`, `CrashHeals`, `EveryUploadEnds`,
`EveryCallbackEnds`, `EveryBootEnds`): fairness needs ENABLED, which is beyond the
prover.

## 5. Not modelled, and the plan

Not modelled, and why:

* The admin UI (`app.js`). Its `loadList` and `loadDetail` number no requests,
  so a late answer can overwrite the view of a newer one. The view is only a
  rendering; what a click does is decided by the server.
* `ListPages`: its two statements may count a page that the other does not
  list. Nothing depends on it but the pager.
* A database restored from a replica that lags behind the bucket. An operator
  does it outside the program; no code handles it. It would break the assumption
  that codes are never given again, on which `DetailIsOnePage`,
  `UploadOwnsSlug` and `DeletedIsGone` rest.
* Routes: `validSlugSegment` accepts `_parked` as a slug (`serve.go:449`), a
  predicate without state; asset handlers read one key and answer.
* Parsing and serialising HTML and CSS, content types, and signature
  arithmetic: `Bake` and `Login` take their results as data.
* Telemetry, the storage decorator that measures calls, HTTP helpers, the seed
  tool's sample pages, styles and markup.

What is left to prove: that `Bake` and `Intake` implement what `PageLifecycle` takes of
them (`Ingest`, and an identifier), once that is stated as a refinement; and the parts of
liveness that need no fairness, such as a measure that each step of a round decreases.
