----------------------------- MODULE HTMLCache -----------------------------
(***************************************************************************)
(* The serving side's entry-HTML cache and the handler around it.          *)
(*                                                                         *)
(*   src/internal/serve/cache.go   lookup, touch, evict, put               *)
(*   src/internal/serve/serve.go   pageIndex                               *)
(*   src/internal/storage/s3compat/s3.go   notFound                        *)
(*                                                                         *)
(* Each cache operation runs under the cache's mutex and is one step.  The *)
(* handler's storage calls run outside it: between them pages come and go, *)
(* and other visitors use the same entry.  A page's bytes never change;    *)
(* its key disappears when the page is parked or deleted, and comes back   *)
(* when it is unparked, perhaps with another ETag.                         *)
(*                                                                         *)
(* Time passes in ticks.  MaxLatency bounds how long one request may take; *)
(* the code has no such bound.                                             *)
(***************************************************************************)
EXTENDS Integers, FiniteSets, SequencesExt

CONSTANTS
    Slugs,       \* pages
    Visitors,    \* concurrent requests for entry HTML
    Tags,        \* ETags the storage gives to index.html
    Absent,      \* no such key
    Size,        \* the length of each page's index.html
    Budgets,     \* the byte budgets a cache may be given
    TTL,         \* ticks between revalidations
    MaxLatency   \* ticks a request takes at most

ASSUME TagAssumption == Absent \notin Tags
ASSUME SizeAssumption == Size \in [Slugs -> Nat] /\ Budgets \subseteq Nat
ASSUME TimeAssumption == TTL \in Nat /\ MaxLatency \in Nat

VARIABLES
    driver,    \* STORAGE_DRIVER
    maxBytes,  \* the cache's byte budget
    origin,    \* the ETag of {slug}/index.html in storage, or Absent
    absentFor, \* ticks since the key disappeared, counted up to Horizon
    items,     \* the entries by slug: ETag, age in ticks since storedAt
    ll,        \* the slugs with an entry, most recently used first
    curBytes,  \* the running total of the entries' lengths
    pc,        \* where each visitor's handler stands
    want,      \* the slug it is asked for
    tag,       \* the ETag of the bytes it holds
    took,      \* ticks since its request arrived
    answer,    \* what it answered last, 200, 404 or 500, or none yet
    missed,    \* history: whether its page was absent at any time meanwhile
    refused    \* history: visitors of whose last request storage refused a call

storage == <<driver, maxBytes, origin, absentFor, refused>>
cache == <<items, ll, curBytes>>
handler == <<pc, want, tag, took>>
outcome == <<answer, missed>>
vars == <<storage, cache, handler, outcome>>

\* Nothing tells a longer absence from Horizon.
Horizon == TTL + MaxLatency + 2
Places == {"idle", "lookup", "stat", "touch", "evict", "get", "put"}
Answers == {"none", "ok", "notFound", "error"}

Upto(n, limit) == IF n < limit THEN n ELSE limit
NoEntry == [etag |-> Absent, age |-> 0]
Cached(s) == items[s] # NoEntry
Stale(s) == items[s].age > TTL
MoveToFront(s) == <<s>> \o RemoveFirst(ll, s)

Init ==
    /\ driver \in {"mem", "s3compat"}
    /\ maxBytes \in Budgets
    /\ refused = {}
    /\ origin = [s \in Slugs |-> Absent]
    /\ absentFor = [s \in Slugs |-> Horizon]
    /\ items = [s \in Slugs |-> NoEntry]
    /\ ll = <<>>
    /\ curBytes = 0
    /\ pc = [v \in Visitors |-> "idle"]
    /\ want = [v \in Visitors |-> Absent]
    /\ tag = [v \in Visitors |-> Absent]
    /\ took = [v \in Visitors |-> 0]
    /\ answer = [v \in Visitors |-> "none"]
    /\ missed = [v \in Visitors |-> FALSE]

-----------------------------------------------------------------------------
(* Steps of a handler.                                                     *)

Go(v, place) == pc' = [pc EXCEPT ![v] = place]

\* The handler goes on holding the bytes with this ETag.
Proceed(v, place, etag) ==
    /\ Go(v, place)
    /\ tag' = [tag EXCEPT ![v] = etag]
    /\ UNCHANGED <<want, took, outcome>>

\* The handler answers.
Answer(v, result) ==
    /\ Go(v, "idle")
    /\ want' = [want EXCEPT ![v] = Absent]
    /\ tag' = [tag EXCEPT ![v] = Absent]
    /\ took' = [took EXCEPT ![v] = 0]
    /\ answer' = [answer EXCEPT ![v] = result]
    /\ missed' = [missed EXCEPT ![v] = FALSE]

Request(v, s) ==
    /\ pc[v] = "idle"
    /\ Go(v, "lookup")
    /\ want' = [want EXCEPT ![v] = s]
    /\ answer' = [answer EXCEPT ![v] = "none"]
    /\ missed' = [missed EXCEPT ![v] = origin[s] = Absent]
    /\ refused' = refused \ {v}
    /\ UNCHANGED <<driver, maxBytes, origin, absentFor, cache, tag, took>>

\* Mutant: every hit refreshes the entry, so a popular one never gets stale.
LookupSliding(v) ==
    LET s == want[v] IN
    /\ pc[v] = "lookup"
    /\ \/ /\ Cached(s) /\ ~Stale(s) /\ Answer(v, "ok")
          /\ items' = [items EXCEPT ![s].age = 0]
       \/ Cached(s) /\ Stale(s) /\ Proceed(v, "stat", items[s].etag) /\ UNCHANGED items
       \/ ~Cached(s) /\ Proceed(v, "get", Absent) /\ UNCHANGED items
    /\ ll' = IF Cached(s) THEN MoveToFront(s) ELSE ll
    /\ UNCHANGED <<storage, curBytes>>

\* A fresh entry is the answer, a stale one has to be revalidated, and a miss is
\* fetched.
Lookup(v) ==
    LET s == want[v] IN
    /\ pc[v] = "lookup"
    /\ \/ Cached(s) /\ ~Stale(s) /\ Answer(v, "ok")
       \/ Cached(s) /\ Stale(s) /\ Proceed(v, "stat", items[s].etag)
       \/ ~Cached(s) /\ Proceed(v, "get", Absent)
    /\ ll' = IF Cached(s) THEN MoveToFront(s) ELSE ll
    /\ UNCHANGED <<storage, items, curBytes>>

\* Mutant: a changed object is treated like one that is gone.
StatStrict(v) ==
    /\ pc[v] = "stat"
    /\ \/ origin[want[v]] # tag[v] /\ Proceed(v, "evict", Absent)
       \/ origin[want[v]] = tag[v] /\ Proceed(v, "touch", tag[v])
    /\ UNCHANGED <<storage, cache>>

\* Stat: gone, unchanged, or another object than the cached one.
Stat(v) ==
    /\ pc[v] = "stat"
    /\ \/ origin[want[v]] = Absent /\ Proceed(v, "evict", Absent)
       \/ origin[want[v]] = tag[v] /\ Proceed(v, "touch", tag[v])
       \/ origin[want[v]] \in Tags \ {tag[v]} /\ Proceed(v, "get", Absent)
    /\ UNCHANGED <<storage, cache>>

Touch(v) ==
    LET s == want[v] IN
    /\ pc[v] = "touch"
    /\ items' = [items EXCEPT ![s].age = 0]
    /\ Answer(v, "ok")
    /\ UNCHANGED <<storage, ll, curBytes>>

\* Mutants: an entry leaves the map but not the total; one that another visitor
\* evicted already is subtracted again.
EvictKeepsTotal(v) ==
    LET s == want[v] IN
    /\ pc[v] = "evict"
    /\ items' = [items EXCEPT ![s] = NoEntry]
    /\ ll' = RemoveFirst(ll, s)
    /\ Answer(v, "notFound")
    /\ UNCHANGED <<storage, curBytes>>
EvictTwice(v) ==
    LET s == want[v] IN
    /\ pc[v] = "evict"
    /\ items' = [items EXCEPT ![s] = NoEntry]
    /\ ll' = RemoveFirst(ll, s)
    /\ curBytes' = curBytes - Size[s]
    /\ Answer(v, "notFound")
    /\ UNCHANGED storage

Evict(v) ==
    LET s == want[v] IN
    /\ pc[v] = "evict"
    /\ items' = [items EXCEPT ![s] = NoEntry]
    /\ ll' = RemoveFirst(ll, s)
    /\ curBytes' = IF Cached(s) THEN curBytes - Size[s] ELSE curBytes
    /\ Answer(v, "notFound")
    /\ UNCHANGED storage

Get(v) ==
    /\ pc[v] = "get"
    /\ IF origin[want[v]] = Absent
       THEN Answer(v, "notFound")
       ELSE Proceed(v, "put", origin[want[v]])
    /\ UNCHANGED <<storage, cache>>

\* The bucket refuses the call, with 403 or NoSuchBucket, whatever it holds: S3
\* answers 403 for an absent key too, so the driver calls all of it not found.
Refuse(v) ==
    /\ driver = "s3compat"
    /\ \/ pc[v] = "stat" /\ Proceed(v, "evict", Absent)
       \/ pc[v] = "get" /\ Answer(v, "notFound")
    /\ refused' = refused \cup {v}
    /\ UNCHANGED <<driver, maxBytes, origin, absentFor, cache>>

\* Stat, Get or the reading of the object fails in any other way.
StorageError(v) ==
    /\ pc[v] \in {"stat", "get"}
    /\ Answer(v, "error")
    /\ UNCHANGED <<storage, cache>>

\* The bytes of the entries in a list, which has a slug at most once.
Bytes(queue) == Cardinality(UNION {{s} \X (1..Size[s]) : s \in ToSet(queue)})

\* put's loop: entries leave at the back until the total fits or one is left.
\* How many of the list's entries it keeps.
Keeps(queue, total) ==
    LET fits(n) == total - Bytes(SubSeq(queue, n + 1, Len(queue))) <= maxBytes
    IN  Max({1} \cup {n \in 1..Len(queue) : fits(n)})

\* put of a new entry: it goes to the front, and old ones make room for it.
Add(s, etag) ==
    LET queue == <<s>> \o ll
        keeps == Keeps(queue, curBytes + Size[s])
        out   == SubSeq(queue, keeps + 1, Len(queue))
    IN  /\ ll' = SubSeq(queue, 1, keeps)
        /\ items' = [t \in Slugs |-> IF t = s THEN [etag |-> etag, age |-> 0]
                                     ELSE IF t \in ToSet(out) THEN NoEntry ELSE items[t]]
        /\ curBytes' = curBytes + Size[s] - Bytes(out)

\* put of an entry another visitor has put meanwhile, or of a changed one.  The
\* bytes are the same, so the total stays.
Replace(s, etag) ==
    /\ ll' = MoveToFront(s)
    /\ items' = [items EXCEPT ![s] = [etag |-> etag, age |-> 0]]
    /\ UNCHANGED curBytes

\* put: what is longer than the whole budget is not cached.
Put(v) ==
    LET s == want[v] IN
    /\ pc[v] = "put"
    /\ \/ Size[s] > maxBytes /\ UNCHANGED cache
       \/ Size[s] <= maxBytes /\ Cached(s) /\ Replace(s, tag[v])
       \/ Size[s] <= maxBytes /\ ~Cached(s) /\ Add(s, tag[v])
    /\ Answer(v, "ok")
    /\ UNCHANGED storage

-----------------------------------------------------------------------------
(* The pages and the clock.                                                *)

\* A park or a delete removes the key.
Hide(s) ==
    /\ origin[s] # Absent
    /\ origin' = [origin EXCEPT ![s] = Absent]
    /\ absentFor' = [absentFor EXCEPT ![s] = 0]
    /\ missed' = [v \in Visitors |-> missed[v] \/ (pc[v] # "idle" /\ want[v] = s)]
    /\ UNCHANGED <<driver, maxBytes, refused, cache, handler, answer>>

\* An upload or an unpark stores it.
Show(s) ==
    /\ origin[s] = Absent
    /\ \E etag \in Tags : origin' = [origin EXCEPT ![s] = etag]
    /\ absentFor' = [absentFor EXCEPT ![s] = 0]
    /\ UNCHANGED <<driver, maxBytes, refused, cache, handler, outcome>>

Tick ==
    /\ \A v \in Visitors : pc[v] # "idle" => took[v] < MaxLatency
    /\ took' = [v \in Visitors |-> IF pc[v] = "idle" THEN 0 ELSE took[v] + 1]
    /\ items' = [s \in Slugs |->
           IF Cached(s) THEN [items[s] EXCEPT !.age = Upto(@ + 1, TTL + 1)] ELSE NoEntry]
    /\ absentFor' = [s \in Slugs |->
           IF origin[s] = Absent THEN Upto(absentFor[s] + 1, Horizon) ELSE 0]
    /\ UNCHANGED <<driver, maxBytes, origin, refused, ll, curBytes, pc, want, tag, outcome>>

Step(v) == \/ \E s \in Slugs : Request(v, s)
           \/ Lookup(v) \/ Stat(v) \/ Touch(v) \/ Evict(v) \/ Get(v) \/ Put(v)
           \/ Refuse(v) \/ StorageError(v)

Next == \/ \E v \in Visitors : Step(v)
        \/ \E s \in Slugs : Hide(s) \/ Show(s)
        \/ Tick

Spec == Init /\ [][Next]_vars

-----------------------------------------------------------------------------
TypeOK ==
    /\ origin \in [Slugs -> Tags \cup {Absent}]
    /\ absentFor \in [Slugs -> 0..Horizon]
    /\ items \in [Slugs -> [etag : Tags \cup {Absent}, age : 0..(TTL + 1)]]
    /\ ll \in Seq(Slugs)
    /\ curBytes \in Nat
    /\ pc \in [Visitors -> Places]
    /\ want \in [Visitors -> Slugs \cup {Absent}]
    /\ tag \in [Visitors -> Tags \cup {Absent}]
    /\ took \in [Visitors -> 0..MaxLatency]
    /\ answer \in [Visitors -> Answers]
    /\ missed \in [Visitors -> BOOLEAN]
    /\ refused \subseteq Visitors

\* The list, the map and the running total never drift apart, in whatever order
\* visitors put, touch and evict the same entries, and the total never leaves
\* the budget.  (cache.go:88-142)
CacheAccounts ==
    /\ \A i, j \in 1..Len(ll) : ll[i] = ll[j] => i = j
    /\ ToSet(ll) = {s \in Slugs : Cached(s)}
    /\ curBytes = Bytes(ll)
    /\ curBytes <= maxBytes

\* A step in which a visitor is shown a page.
Answers200(v) == pc[v] # "idle" /\ pc'[v] = "idle" /\ answer'[v] = "ok"

\* A page that was parked or deleted is shown at most for the revalidation
\* interval and the time of one request after that: whoever looked it up, or
\* fetched it, just before may put or touch the entry at the end of its request.
\* (serve.go:342-389)
StalenessBounded ==
    [][\A v \in Visitors : Answers200(v) => absentFor[want[v]] <= TTL + MaxLatency]_vars

\* A step in which a visitor is told that there is no such page.
Answers404(v) == pc[v] # "idle" /\ pc'[v] = "idle" /\ answer'[v] = "notFound"

\* Nobody is told that a page is not there unless it was gone at some time
\* during his request, or the bucket refused a call of this very request:
\* neither a miss, nor another visitor's eviction, nor the refusal another
\* visitor met is remembered as an absence.  (cache.go:18, 98-109;
\* serve.go:357-379)
NotFoundIsTrue ==
    [][\A v \in Visitors :
         Answers404(v) => missed[v] \/ (driver = "s3compat" /\ v \in refused')]_vars

\* What serve.go:342-344 says: "Entries are revalidated via Stat after the cache
\* TTL, so a parked page stops being served within that window even if its bytes
\* were cached."  So a request that arrives later than that is not shown the page.
WithinWindow ==
    [][\A v \in Visitors :
         Answers200(v) => absentFor[want[v]] <= TTL + took[v]]_vars
=============================================================================
