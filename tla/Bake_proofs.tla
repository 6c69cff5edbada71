----------------------------- MODULE Bake_proofs ----------------------------
(***************************************************************************)
(* The safety properties of Bake, for every pack, web and number of slots. *)
(* IInv says of every URL how far its fetch is and what that entitles it   *)
(* to (Fetching), of every phase what is settled by then (Phases), of      *)
(* every stored path what it holds (Shelf), of every stylesheet whether it *)
(* is queued or scanned (Scanning), and that nothing is planned that a     *)
(* readable document does not name (Named).                                *)
(***************************************************************************)
EXTENDS Bake, FiniteSetTheorems, SequenceTheorems, TLAPS

\* Planned to be baked, fetched, and applied.
Applied(u) == plan[u] = "bake" /\ u \notin order \cup round

\* A plan is the decision, or what a failed fetch made of it.
Decided ==
    \A id \in Ids : \/ plan[id] \in {"none", Decision(id)}
                    \/ plan[id] = "kept-external" /\ Decision(id) = "bake"

Fetching(u) ==
    /\ u \in order => plan[u] = "bake" /\ task[u] = "idle"
    /\ u \in round => plan[u] = "bake" /\ task[u] # "idle"
    /\ task[u] # "idle" => plan[u] \in {"bake", "kept-external"}
    /\ task[u] = "returned" <=> result[u] # "none"
    /\ requests[u] <= 1 /\ (task[u] \in {"idle", "waiting"} => requests[u] = 0)
    /\ task[u] \in {"waiting", "fetching"} => pc = "wait" /\ u \in round
    /\ u \in kept <=> plan[u] \in {"kept-cdn", "kept-external"}
    /\ plan[u] = "kept-external" => result[u] = "failed" /\ u \notin round
    /\ Applied(u) => /\ result[u] = "data" /\ StorePath[u] \in baked
                     /\ u \in Sheets => u \in seen
    /\ u \in seen => Applied(u)

Phases ==
    /\ pc = "parse" => /\ order = {} /\ jobs = <<>> /\ queue = <<>>
                       /\ \A id \in Ids : plan[id] = "none"
    /\ pc \in {"parse", "run", "done"} => round = {}
    /\ pc \in {"wait", "apply"} => order = {} /\ ToSet(queue) \subseteq Urls
    /\ pc = "apply" => \A u \in round : task[u] = "returned"
    /\ pc # "done" => answer = "none"
    /\ pc = "done" => /\ order = {} /\ queue = <<>>
                      /\ manifest = Manifest /\ answer = Verdict(Manifest)

\* What the pack brought is under its name unless a fetched asset is there.
Shelf ==
    /\ IF imported THEN pack = {Entry} ELSE pack \in Packs
    /\ DOMAIN store = (pack \ {Entry}) \cup baked
    /\ \A p \in DOMAIN store : LET of == store[p].of IN
           IF p \in baked THEN of \in Urls /\ StorePath[of] = p /\ Applied(of) ELSE of = p

\* Stylesheets are queued once they are named and there, the packed ones
\* before the fetched ones, and what they name is planned once scanned.
Scanning ==
    /\ ToSet(queue) \cup ToSet(jobs) = seen
    /\ \A id \in seen : plan[id] # "none" /\ (id \in Urls \/ Local(id))
    /\ \A id \in Sheets : plan[id] # "none" /\ Local(id) => id \in seen
    /\ pc # "parse" => \A id \in Scanned(Entry) : plan[id] # "none"
    /\ \A d \in ToSet(jobs), id \in Ids : id \in Scanned(d) => plan[id] # "none"
    /\ \A id \in Ids : plan[id] # "none" => \E d \in {Entry} \cup ToSet(jobs) : id \in Scanned(d)
    /\ seen \cap Urls # {} => ToSet(queue) \subseteq Urls
    /\ \A i, j \in DOMAIN jobs : i < j /\ jobs[i] \in Urls => jobs[j] \in Urls

Named == \A id \in Ids : plan[id] # "none" => \A S \in SUBSET Ids : Closed(S) => id \in S

Busy == {u \in Urls : task[u] = "fetching"}

IInv ==
    /\ TypeOK /\ Decided /\ Phases /\ Shelf /\ Scanning /\ Named
    /\ slots = Cardinality(Busy)
    /\ \A u \in Urls : Fetching(u)

-----------------------------------------------------------------------------
(* Queues and sets                                                         *)

\* SetToSeq lists a set of stylesheets, each of them and nothing else.
LEMMA Listing ==
    ASSUME NEW S \in SUBSET Sheets
    PROVE  SetToSeq(S) \in Seq(S) /\ ToSet(SetToSeq(S)) = S
<1>1. IsFiniteSet(S)
  <2>1. S \in SUBSET Ids BY BakeAssumption
  <2> QED BY <2>1, BakeAssumption, FS_Subset
<1>2. ExistsBijection(1..Cardinality(S), S) /\ Cardinality(S) \in Nat
  BY <1>1, FS_CardinalityType
<1>3. SetToSeq(S) \in Injection(1..Cardinality(S), S)
  BY <1>2 DEF SetToSeq, IsInjective, ExistsBijection, Bijection, Injection
<1>4. SetToSeq(S) \in Surjection(1..Cardinality(S), S)
  <2>1. Cardinality(1..Cardinality(S)) = Cardinality(S) BY <1>2, FS_Interval
  <2> QED BY <1>1, <1>3, <2>1, FS_Injection
<1> QED BY <1>2, <1>3, <1>4 DEF Injection, Surjection, ToSet

LEMMA Joined ==
    ASSUME NEW X, NEW s \in Seq(X), NEW t \in Seq(X)
    PROVE  s \o t \in Seq(X) /\ ToSet(s \o t) = ToSet(s) \cup ToSet(t)
<1>1. /\ s \o t \in Seq(X) /\ Len(s \o t) = Len(s) + Len(t)
      /\ \A i \in 1..Len(s) + Len(t) :
            (s \o t)[i] = IF i <= Len(s) THEN s[i] ELSE t[i - Len(s)]
  OBVIOUS
<1>2. ASSUME NEW i \in 1..Len(s) PROVE s[i] = (s \o t)[i] /\ i \in 1..Len(s) + Len(t)
  BY <1>1
<1>3. ASSUME NEW i \in 1..Len(t)
      PROVE  t[i] = (s \o t)[i + Len(s)] /\ i + Len(s) \in 1..Len(s) + Len(t)
  BY <1>1
<1>4. ASSUME NEW i \in 1..Len(s) + Len(t)
      PROVE  \/ i \in 1..Len(s) /\ (s \o t)[i] = s[i]
             \/ i - Len(s) \in 1..Len(t) /\ (s \o t)[i] = t[i - Len(s)]
  BY <1>1
<1>5. /\ ToSet(s) = {s[i] : i \in 1..Len(s)} /\ ToSet(t) = {t[i] : i \in 1..Len(t)}
      /\ ToSet(s \o t) = {(s \o t)[i] : i \in 1..Len(s) + Len(t)}
  BY <1>1 DEF ToSet
<1> QED BY <1>1, <1>2, <1>3, <1>4, <1>5

LEMMA Appended ==
    ASSUME NEW X, NEW s \in Seq(X), NEW x \in X
    PROVE  Append(s, x) \in Seq(X) /\ ToSet(Append(s, x)) = ToSet(s) \cup {x}
<1> DEFINE t == <<x>>
<1>1. Append(s, x) = s \o t /\ t \in Seq(X) /\ ToSet(t) = {x} BY DEF ToSet
<1> HIDE DEF t
<1>2. s \o t \in Seq(X) /\ ToSet(s \o t) = ToSet(s) \cup ToSet(t) BY <1>1, Joined
<1> QED BY <1>1, <1>2

LEMMA Headed ==
    ASSUME NEW X, NEW s \in Seq(X), s # <<>>
    PROVE  /\ Head(s) \in X /\ Tail(s) \in Seq(X)
           /\ ToSet(s) = {Head(s)} \cup ToSet(Tail(s))
<1> DEFINE h == <<Head(s)>>
           t == Tail(s)
<1>1. Head(s) \in X /\ t \in Seq(X) /\ h \in Seq(X) /\ s = h \o t OBVIOUS
<1>2. ToSet(h) = {Head(s)} BY DEF ToSet
<1> HIDE DEF h
<1>3. ASSUME NEW u \in Seq(X) PROVE ToSet(h \o u) = ToSet(h) \cup ToSet(u) BY <1>1, Joined
<1> QED BY <1>1, <1>2, <1>3

-----------------------------------------------------------------------------
(* Planning the references of a document                                   *)

Plans == {"none", "skip", "local", "bake", "kept-cdn", "kept-external"}

\* What the assumption and the types say of identities and documents.
LEMMA Documents1 ==
    ASSUME IInv
    PROVE  /\ \A d \in Ids : Scanned(d) \subseteq Ids
           /\ \A id \in Ids : Local(id) => id \in Names /\ id \notin Urls /\ id \in pack
           /\ \A u \in Urls : \A id \in Scanned(u) : ~Local(id)
           /\ Sheets \subseteq Ids /\ Urls \subseteq Ids /\ Entry \in Ids /\ Entry \notin Sheets
<1>1. TypeOK /\ Shelf BY DEF IInv
<1>2. web \in [Ids -> SUBSET [id : Ids, form : Forms]] /\ web \in Webs
  BY <1>1, BakeAssumption DEF TypeOK
<1>3. \A d \in Ids : Scanned(d) \subseteq Ids BY <1>2 DEF Scanned
<1>4. ~imported => pack \in Packs BY <1>1 DEF Shelf
<1>5. \A id \in Ids : Local(id) => id \in Names /\ id \notin Urls /\ id \in pack
  BY <1>4, BakeAssumption DEF Local
<1>6. \A u \in Urls : \A id \in Scanned(u) : ~Local(id)
  BY <1>2, <1>4, BakeAssumption DEF Local, Scanned
<1> QED BY <1>3, <1>5, <1>6, BakeAssumption DEF Ids

\* The documents do not change, and those that can be read only get more.
LEMMA Reading ==
    ASSUME IInv, UNCHANGED inputs,
           \A u \in Urls : result[u] = "data" => result'[u] = "data"
    PROVE  /\ \A d \in Ids : /\ Scanned(d)' = Scanned(d) /\ Decision(d)' = Decision(d)
                             /\ Local(d)' <=> Local(d)
           /\ \A S \in SUBSET Ids : Closed(S)' => Closed(S)
<1>1. \A d \in Ids : /\ Scanned(d)' = Scanned(d) /\ Decision(d)' = Decision(d)
                     /\ Local(d)' <=> Local(d)
  BY DEF inputs, Scanned, Decision, Local
<1>2. Sheets \subseteq Ids /\ Entry \in Ids BY Documents1
<1>3. Readable \subseteq Readable' /\ Readable \subseteq Ids BY <1>1, <1>2 DEF Readable
<1>4. ASSUME NEW S \in SUBSET Ids, Closed(S)' PROVE Closed(S)
  <2>1. Scanned(Entry) \subseteq S BY <1>1, <1>2, <1>4 DEF Closed
  <2>2. \A d \in S \cap Readable : Scanned(d) \subseteq S BY <1>1, <1>3, <1>4 DEF Closed
  <2> QED BY <2>1, <2>2 DEF Closed
<1> QED BY <1>1, <1>4

\* Plan decides what was not decided, and nothing else.
LEMMA Planning ==
    ASSUME IInv, NEW d \in Ids, Plan(d), UNCHANGED inputs
    PROVE  /\ plan' \in [Ids -> Plans] /\ Decided'
           /\ order' \subseteq Urls /\ kept' \subseteq Urls
           /\ \A id \in Ids : plan[id] # "none" => plan'[id] = plan[id]
           /\ \A id \in Scanned(d) : plan'[id] # "none"
           /\ \A id \in Ids : plan'[id] # "none" => (plan[id] # "none" \/ id \in Scanned(d))
           /\ \A u \in Urls : plan[u] # "none" => /\ u \in order' <=> u \in order
                                                  /\ u \in kept' <=> u \in kept
           /\ \A u \in Urls : plan[u] = "none" => /\ u \in order' <=> plan'[u] = "bake"
                                                  /\ u \in kept' <=> plan'[u] = "kept-cdn"
                                                  /\ plan'[u] # "kept-external"
<1> DEFINE fresh == {id \in Scanned(d) : plan[id] = "none"}
<1>1. /\ plan \in [Ids -> Plans] /\ Decided /\ fresh \subseteq Ids
      /\ order \subseteq Urls /\ kept \subseteq Urls
  BY Documents1 DEF IInv, TypeOK, Plans
<1>2. \A id \in Ids : /\ Decision(id) \in Plans \ {"none", "kept-external"}
                      /\ Decision(id) \in {"bake", "kept-cdn"} => id \in Urls
  BY DEF Decision, Plans
<1>3. /\ plan' = [id \in Ids |-> IF id \in fresh THEN Decision(id) ELSE plan[id]]
      /\ order' = order \cup {id \in fresh : Decision(id) = "bake"}
      /\ kept' = kept \cup {id \in fresh : Decision(id) = "kept-cdn"}
  BY DEF Plan
<1>4. \A u \in Urls : Fetching(u) BY DEF IInv
<1>5. \A u \in Urls : plan[u] = "none" => u \notin order /\ u \notin kept /\ u \in Ids
  BY <1>4 DEF Fetching, Ids
<1>6. \A id \in Scanned(d) : id \in Ids BY Documents1
<1>7. \A id \in Ids : id \in fresh <=> id \in Scanned(d) /\ plan[id] = "none" OBVIOUS
<1> HIDE DEF fresh
<1>8. plan' \in [Ids -> Plans] /\ order' \subseteq Urls /\ kept' \subseteq Urls
  <2>1. \A id \in Ids : Decision(id) \in Plans /\ plan[id] \in Plans BY <1>1, <1>2
  <2>2. \A id \in fresh : Decision(id) \in {"bake", "kept-cdn"} => id \in Urls
    BY <1>1, <1>2
  <2>3. plan' \in [Ids -> Plans] BY <1>3, <2>1
  <2>4. order' \subseteq Urls BY <1>1, <1>3, <2>2
  <2>5. kept' \subseteq Urls BY <1>1, <1>3, <2>2
  <2> QED BY <2>3, <2>4, <2>5
<1>9. \A id \in Ids : plan'[id] = IF id \in fresh THEN Decision(id) ELSE plan[id] BY <1>3
<1>10. Decided'
  <2>1. \A id \in Ids : Decision(id)' = Decision(id) BY DEF Decision, Local, inputs
  <2> QED BY <1>1, <1>2, <1>9, <2>1 DEF Decided
<1>11. \A u \in Urls : u \in Ids BY DEF Ids
<1>12. /\ \A id \in Ids : plan[id] # "none" => plan'[id] = plan[id]
       /\ \A id \in Scanned(d) : plan'[id] # "none"
       /\ \A id \in Ids : plan'[id] # "none" => (plan[id] # "none" \/ id \in Scanned(d))
  <2>1. \A id \in Ids : Decision(id) # "none" BY <1>2
  <2>2. \A id \in Ids : plan[id] # "none" => plan'[id] = plan[id] BY <1>7, <1>9
  <2>3. \A id \in Scanned(d) : plan'[id] # "none" BY <1>6, <1>7, <1>9, <2>1
  <2>4. \A id \in Ids : plan'[id] # "none" => (plan[id] # "none" \/ id \in Scanned(d))
    BY <1>7, <1>9
  <2> QED BY <2>2, <2>3, <2>4
<1>13. \A u \in Urls : plan[u] # "none" => /\ u \in order' <=> u \in order
                                           /\ u \in kept' <=> u \in kept
  BY <1>3, <1>7, <1>11
<1>14. \A u \in Urls : plan[u] = "none" => /\ u \in order' <=> plan'[u] = "bake"
                                           /\ u \in kept' <=> plan'[u] = "kept-cdn"
                                           /\ plan'[u] # "kept-external"
  BY <1>2, <1>3, <1>5, <1>9, <1>11
<1> QED BY <1>8, <1>10, <1>12, <1>13, <1>14

\* A document is scanned: its references are planned, its packed stylesheets
\* queued, and the pool is left alone.
Scan(d) ==
    /\ pc \in {"parse", "run"} /\ pc' = "run"
    /\ Plan(d) /\ seen' = seen \cup Unseen(d)
    /\ queue' \in Seq(Sheets) /\ jobs' \in Seq(Sheets)
    /\ UNCHANGED <<inputs, round, store, baked, manifest, answer, pool>>

LEMMA ScanFetching ==
    ASSUME IInv, NEW d \in Ids, Scan(d), NEW u \in Urls PROVE Fetching(u)'
<1>1. Fetching(u) /\ u \notin round /\ task[u] \notin {"waiting", "fetching"}
      /\ pc # "wait" /\ pc' # "wait"
  BY DEF IInv, Fetching, Phases, Scan
<1>2. u \in seen' <=> u \in seen
  <2>1. Unseen(d) \cap Urls = {} BY Documents1 DEF Unseen
  <2> QED BY <2>1 DEF Scan
<1>3. u \in Ids /\ plan \in [Ids -> Plans] BY DEF IInv, Ids, TypeOK, Plans
<1>4. /\ task'[u] = task[u] /\ result'[u] = result[u] /\ requests'[u] = requests[u]
      /\ round' = round /\ baked' = baked
  BY DEF Scan, pool
<1>5. CASE plan[u] # "none"
  <2>1. plan'[u] = plan[u] /\ (u \in order' <=> u \in order) /\ (u \in kept' <=> u \in kept)
    BY <1>3, <1>5, Planning DEF Scan
  <2>2. Applied(u)' <=> Applied(u) BY <1>4, <2>1 DEF Applied
  <2> QED BY <1>1, <1>2, <1>4, <2>1, <2>2 DEF Fetching
<1>6. CASE plan[u] = "none"
  <2>1. /\ u \in order' <=> plan'[u] = "bake"
        /\ u \in kept' <=> plan'[u] = "kept-cdn"
        /\ plan'[u] # "kept-external"
    BY <1>3, <1>6, Planning DEF Scan
  <2>2. ~Applied(u) /\ ~Applied(u)' BY <1>6, <2>1 DEF Applied
  <2>3. task[u] = "idle" /\ u \notin seen BY <1>1, <1>6, <2>2 DEF Fetching
  <2> QED BY <1>1, <1>2, <1>4, <2>1, <2>2, <2>3 DEF Fetching
<1> QED BY <1>5, <1>6

LEMMA ScanTypes ==
    ASSUME IInv, NEW d \in Ids, Scan(d)
    PROVE  TypeOK' /\ Decided' /\ Shelf' /\ (slots = Cardinality(Busy))'
<1>1. TypeOK /\ Shelf /\ slots = Cardinality(Busy) BY DEF IInv
<1>2. seen' \subseteq Sheets BY <1>1 DEF Scan, Unseen, TypeOK
<1>3. plan' \in [Ids -> Plans] /\ order' \subseteq Urls /\ kept' \subseteq Urls
      /\ Decided' /\ \A id \in Ids : plan[id] # "none" => plan'[id] = plan[id]
  BY Planning DEF Scan
<1>4. TypeOK' BY <1>1, <1>2, <1>3 DEF Scan, TypeOK, Plans, inputs, pool
<1>5. \A u \in Urls : Applied(u) => Applied(u)'
  <2>1. \A u \in Urls : plan[u] # "none" => (u \in order' <=> u \in order)
    BY Planning DEF Scan
  <2>2. \A u \in Urls : u \in Ids /\ round' = round BY DEF Ids, Scan
  <2>3. ASSUME NEW u \in Urls, Applied(u) PROVE Applied(u)'
    <3>1. plan[u] = "bake" /\ u \notin order \cup round BY <2>3 DEF Applied
    <3>2. plan'[u] = plan[u] /\ u \notin order' BY <1>3, <2>1, <2>2, <3>1
    <3> QED BY <2>2, <3>1, <3>2 DEF Applied
  <2> QED BY <2>3
<1>6. Shelf' BY <1>1, <1>5 DEF Shelf, Scan, inputs
<1>7. (slots = Cardinality(Busy))' BY <1>1 DEF Scan, pool, Busy
<1> QED BY <1>3, <1>4, <1>6, <1>7

\* What is planned after a scan was planned before, or is named by the document.
LEMMA ScanNamed ==
    ASSUME IInv, NEW d \in Ids, Scan(d), d = Entry \/ d \in seen
    PROVE  Named'
<1>1. Named /\ TypeOK /\ Scanning BY DEF IInv
<1>2. UNCHANGED <<inputs, result>> BY DEF Scan, pool
<1>3. \A S \in SUBSET Ids : Closed(S)' => Closed(S) BY <1>2, Reading
<1>4. d # Entry => d \in Readable /\ plan[d] # "none"
  <2>1. d \in seen /\ d \in Urls => result[d] = "data" BY DEF IInv, Fetching
  <2> QED BY <1>1, <2>1 DEF Scanning, Readable, TypeOK
<1>5. ASSUME NEW id \in Ids, plan'[id] # "none", NEW S \in SUBSET Ids, Closed(S)'
      PROVE  id \in S
  <2>1. Closed(S) BY <1>3, <1>5
  <2>2. CASE plan[id] # "none" BY <1>1, <2>1, <2>2 DEF Named
  <2>3. CASE id \in Scanned(d)
    <3>1. CASE d = Entry BY <2>1, <2>3, <3>1 DEF Closed
    <3>2. CASE d # Entry
      <4>1. d \in S BY <1>1, <1>4, <2>1, <3>2 DEF Named
      <4> QED BY <1>4, <2>1, <2>3, <3>2, <4>1 DEF Closed
    <3> QED BY <3>1, <3>2
  <2>4. plan[id] # "none" \/ id \in Scanned(d)
    <3>1. Plan(d) BY DEF Scan
    <3> QED BY <1>2, <1>5, <3>1, Planning
  <2> QED BY <2>2, <2>3, <2>4
<1> QED BY <1>5 DEF Named

LEMMA ParseEntryKeeps == ASSUME IInv, ParseEntry PROVE IInv'
<1>1. TypeOK /\ Phases /\ Scanning BY DEF IInv
<1>2. /\ pc = "parse" /\ pc' = "run" /\ queue = <<>> /\ jobs = <<>> /\ jobs' = jobs
      /\ round' = {} /\ answer' = "none" /\ \A id \in Ids : plan[id] = "none"
  BY <1>1 DEF ParseEntry, Phases
<1>3. Unseen(Entry) \subseteq Sheets /\ Entry \in Ids BY Documents1 DEF Unseen
<1> DEFINE new == SetToSeq(Unseen(Entry))
<1>4. new \in Seq(Unseen(Entry)) /\ ToSet(new) = Unseen(Entry) BY <1>3, Listing
<1>5. queue' = queue \o new BY DEF ParseEntry
<1> HIDE DEF new
<1>6. new \in Seq(Sheets) BY <1>3, <1>4
<1>7. queue' = new BY <1>2, <1>5, <1>6
<1>8. Scan(Entry) BY <1>1, <1>2, <1>6, <1>7 DEF ParseEntry, Scan, TypeOK
<1>9. TypeOK' /\ Decided' /\ Shelf' /\ (slots = Cardinality(Busy))' BY <1>3, <1>8, ScanTypes
<1>10. Named' /\ \A u \in Urls : Fetching(u)'
  BY <1>3, <1>8, ScanNamed, ScanFetching
<1>11. Phases' BY <1>2 DEF Phases
<1>12. Scanning'
  <2>1. seen = {} /\ ToSet(jobs') = {} /\ ToSet(queue') = Unseen(Entry)
    BY <1>1, <1>2, <1>4, <1>7 DEF Scanning, ToSet
  <2>2. seen' = Unseen(Entry) BY <2>1 DEF ParseEntry
  <2>3. \A id \in Ids : plan'[id] # "none" <=> id \in Scanned(Entry)
    BY <1>2, <1>3, <1>8, Planning, Documents1 DEF Scan
  <2>4. \A id \in Ids : Scanned(id)' = Scanned(id) /\ (Local(id)' <=> Local(id))
    <3>1. UNCHANGED <<inputs, result>> BY <1>8 DEF Scan, pool
    <3> QED BY <3>1, Reading
  <2>5. \A id \in seen' : plan'[id] # "none" /\ (id \in Urls \/ Local(id)')
    BY <1>3, <2>2, <2>3, <2>4, Documents1 DEF Unseen
  <2>6. \A id \in Sheets : plan'[id] # "none" /\ Local(id)' => id \in seen'
    BY <2>1, <2>2, <2>3, <2>4, Documents1 DEF Unseen
  <2>7. \A id \in Scanned(Entry)' : plan'[id] # "none" BY <1>3, <2>3, <2>4, Documents1
  <2>8. \A id \in Ids : plan'[id] # "none" => id \in Scanned(Entry)' BY <1>3, <2>3, <2>4
  <2>9. seen' \cap Urls = {} BY <2>2, Documents1 DEF Unseen
  <2>10. DOMAIN jobs' = {} BY <1>2
  <2> QED BY <2>1, <2>2, <2>5, <2>6, <2>7, <2>8, <2>9, <2>10 DEF Scanning
<1> QED BY <1>9, <1>10, <1>11, <1>12 DEF IInv
LEMMA ScanSheetKeeps == ASSUME IInv, ScanSheet PROVE IInv'
<1> DEFINE d == Head(queue)
           rest == Tail(queue)
<1>1. TypeOK /\ Phases /\ Scanning BY DEF IInv
<1>2. /\ pc = "run" /\ pc' = "run" /\ queue # <<>> /\ jobs' = Append(jobs, d)
      /\ Plan(d) /\ seen' = seen \cup Unseen(d) /\ queue' = rest \o SetToSeq(Unseen(d))
      /\ round' = {} /\ answer' = "none" /\ queue \in Seq(Sheets) /\ jobs \in Seq(Sheets)
      /\ UNCHANGED <<inputs, result>>
  BY <1>1 DEF ScanSheet, Phases, TypeOK, pool
<1>3. d \in Sheets /\ rest \in Seq(Sheets) /\ ToSet(queue) = {d} \cup ToSet(rest)
  BY <1>2, Headed
<1> DEFINE new == SetToSeq(Unseen(d))
<1>4. Unseen(d) \subseteq Sheets BY DEF Unseen
<1>5. new \in Seq(Unseen(d)) /\ ToSet(new) = Unseen(d) BY <1>4, Listing
<1>6. queue' = rest \o new BY <1>2
<1>7. Scan(d)
  <2>1. new \in Seq(Sheets) BY <1>4, <1>5
  <2> HIDE DEF new, rest
  <2>2. queue' \in Seq(Sheets) BY <1>3, <1>6, <2>1, Joined
  <2>3. jobs' \in Seq(Sheets) BY <1>2, <1>3
  <2> QED BY <2>2, <2>3 DEF ScanSheet, Scan
<1>8. /\ ToSet(queue') = ToSet(rest) \cup Unseen(d) /\ ToSet(jobs') = ToSet(jobs) \cup {d}
  <2>1. new \in Seq(Sheets) BY <1>4, <1>5
  <2>2. ToSet(jobs') = ToSet(jobs) \cup {d} BY <1>2, <1>3, Appended
  <2> HIDE DEF new, rest
  <2> QED BY <1>3, <1>5, <1>6, <2>1, <2>2, Joined
<1> HIDE DEF new, rest
<1>9. d \in Ids /\ d # Entry /\ d \in seen BY <1>1, <1>3, Documents1 DEF Scanning
<1> HIDE DEF d
<1>10. TypeOK' /\ Decided' /\ Shelf' /\ (slots = Cardinality(Busy))' BY <1>7, <1>9, ScanTypes
<1>11. Named' /\ \A u \in Urls : Fetching(u)' BY <1>7, <1>9, ScanNamed, ScanFetching
<1>12. Phases' BY <1>2 DEF Phases
<1>13. Scanning'
  <2>1. \A id \in Ids : Scanned(id)' = Scanned(id) /\ (Local(id)' <=> Local(id))
    BY <1>2, Reading
  <2>2. /\ \A id \in Ids : plan[id] # "none" => plan'[id] # "none"
        /\ \A id \in Scanned(d) : plan'[id] # "none"
        /\ \A id \in Ids : plan'[id] # "none" => (plan[id] # "none" \/ id \in Scanned(d))
    BY <1>2, <1>9, Planning
  <2>3. \A id \in Unseen(d) : id \in Scanned(d) /\ id \in Ids /\ Local(id) /\ id \notin Urls
    BY <1>9, Documents1 DEF Unseen
  <2>4. Sheets \subseteq Ids /\ Entry \in Ids /\ seen \subseteq Sheets
    BY <1>1, Documents1 DEF TypeOK
  <2>5. (ToSet(queue) \cup ToSet(jobs) = seen)' BY <1>1, <1>2, <1>3, <1>8 DEF Scanning
  <2>6. \A id \in seen' : plan'[id] # "none" /\ (id \in Urls \/ Local(id)')
    BY <1>1, <1>2, <2>1, <2>2, <2>3, <2>4 DEF Scanning
  <2>7. \A id \in Sheets : plan'[id] # "none" /\ Local(id)' => id \in seen'
    BY <1>1, <1>2, <2>1, <2>2, <2>4 DEF Scanning, Unseen
  <2>8. \A id \in Scanned(Entry)' : plan'[id] # "none"
    BY <1>1, <1>2, <2>1, <2>2, <2>4, Documents1 DEF Scanning
  <2>9. \A e \in ToSet(jobs'), id \in Ids : id \in Scanned(e)' => plan'[id] # "none"
    <3>1. \A e \in ToSet(jobs) : e \in Ids BY <1>1, <2>4 DEF Scanning
    <3> QED BY <1>1, <1>8, <1>9, <2>1, <2>2, <3>1 DEF Scanning
  <2>10. \A id \in Ids : plan'[id] # "none" => \E e \in {Entry} \cup ToSet(jobs') : id \in Scanned(e)'
    <3>1. \A e \in {Entry} \cup ToSet(jobs) : e \in Ids BY <1>1, <2>4 DEF Scanning
    <3> QED BY <1>1, <1>8, <1>9, <2>1, <2>2, <3>1 DEF Scanning
  <2>11. seen' \cap Urls # {} => ToSet(queue') \subseteq Urls
    <3>1. SUFFICES ASSUME seen' \cap Urls # {} PROVE ToSet(queue') \subseteq Urls OBVIOUS
    <3>2. seen \cap Urls # {} BY <1>2, <2>3, <3>1
    <3>3. ToSet(queue) \subseteq Urls BY <1>1, <3>2 DEF Scanning
    <3>4. d \in Urls BY <1>3, <3>3
    <3>5. Unseen(d) = {} BY <2>3, <3>4, Documents1
    <3> QED BY <1>3, <1>8, <3>3, <3>5
  <2>12. \A i, j \in DOMAIN jobs' : i < j /\ jobs'[i] \in Urls => jobs'[j] \in Urls
    <3>1. /\ DOMAIN jobs' = 1..Len(jobs) + 1 /\ jobs'[Len(jobs) + 1] = d /\ Len(jobs) \in Nat
          /\ DOMAIN jobs = 1..Len(jobs) /\ \A i \in 1..Len(jobs) : jobs'[i] = jobs[i]
      BY <1>2
    <3>2. ASSUME NEW i \in DOMAIN jobs', NEW j \in DOMAIN jobs', i < j, jobs'[i] \in Urls
          PROVE  jobs'[j] \in Urls
      <4>1. i \in 1..Len(jobs) /\ jobs[i] \in Urls BY <3>1, <3>2
      <4>2. CASE j \in 1..Len(jobs) BY <1>1, <3>1, <3>2, <4>1, <4>2 DEF Scanning
      <4>3. CASE j = Len(jobs) + 1
        <5>1. jobs[i] \in seen BY <1>1, <3>1, <4>1 DEF Scanning, ToSet
        <5>2. ToSet(queue) \subseteq Urls BY <1>1, <4>1, <5>1 DEF Scanning
        <5> QED BY <1>3, <3>1, <4>3, <5>2
      <4> QED BY <3>1, <4>2, <4>3
    <3> QED BY <3>2
  <2> QED BY <2>5, <2>6, <2>7, <2>8, <2>9, <2>10, <2>11, <2>12 DEF Scanning
<1> QED BY <1>10, <1>11, <1>12, <1>13 DEF IInv
-----------------------------------------------------------------------------
(* The pool                                                                *)

\* While the caller waits, what it has planned and stored stays.
LEMMA CallerWaits ==
    ASSUME IInv, UNCHANGED <<inputs, plan, kept, seen, queue, jobs, store, baked>>,
           order' \cup round' = order \cup round, pc # "parse", pc' # "parse",
           \A u \in Urls : result[u] = "data" => result'[u] = "data"
    PROVE  Decided' /\ Shelf' /\ Scanning' /\ Named'
<1>1. Decided /\ Shelf /\ Scanning /\ Named /\ Sheets \subseteq Ids /\ Entry \in Ids
      /\ seen \subseteq Sheets
  BY Documents1 DEF IInv, TypeOK
<1>2. \A id \in Ids : /\ Scanned(id)' = Scanned(id) /\ Decision(id)' = Decision(id)
                      /\ Local(id)' <=> Local(id)
  BY Reading
<1>3. \A S \in SUBSET Ids : Closed(S)' => Closed(S) BY Reading
<1>4. Decided' BY <1>1, <1>2 DEF Decided
<1>5. \A u \in Urls : Applied(u)' <=> Applied(u) BY DEF Applied
<1>6. Shelf' BY <1>1, <1>5 DEF Shelf, inputs
<1>7. Named' BY <1>1, <1>3 DEF Named
<1>8. Scanning'
  <2>1. ToSet(jobs) \subseteq Ids BY <1>1 DEF Scanning
  <2>2. \A id \in seen : Local(id)' <=> Local(id) BY <1>1, <1>2
  <2>3. \A d \in {Entry} \cup ToSet(jobs) : Scanned(d)' = Scanned(d) BY <1>1, <1>2, <2>1
  <2>4. Scanned(Entry)' = Scanned(Entry) BY <1>1, <1>2
  <2>5. \A id \in Sheets : plan[id] # "none" /\ Local(id)' => id \in seen
    BY <1>1, <1>2 DEF Scanning
  <2> QED BY <1>1, <2>2, <2>3, <2>4, <2>5 DEF Scanning
<1> QED BY <1>4, <1>6, <1>7, <1>8

LEMMA StartRoundKeeps == ASSUME IInv, StartRound PROVE IInv'
<1>1. TypeOK /\ Phases /\ slots = Cardinality(Busy) /\ \A u \in Urls : Fetching(u) BY DEF IInv
<1>2. /\ pc = "run" /\ pc' = "wait" /\ queue = <<>> /\ queue' = <<>>
      /\ round = {} /\ round' = order /\ order' = {} /\ answer' = "none"
      /\ task' = [u \in Urls |-> IF u \in order THEN "waiting" ELSE task[u]]
      /\ UNCHANGED <<inputs, plan, kept, seen, jobs, store, baked, slots, result, requests>>
  BY <1>1 DEF StartRound, Phases
<1>3. Decided' /\ Shelf' /\ Scanning' /\ Named' BY <1>2, CallerWaits
<1>4. TypeOK' BY <1>1 DEF StartRound, TypeOK, inputs
<1>5. ToSet(queue') = {} BY <1>2 DEF ToSet
<1>6. Phases' BY <1>2, <1>5 DEF Phases
<1>7. \A u \in Urls : Fetching(u)'
  <2>1. SUFFICES ASSUME NEW u \in Urls PROVE Fetching(u)' OBVIOUS
  <2>2. Fetching(u) /\ task[u] \notin {"waiting", "fetching"} BY <1>1, <1>2 DEF Fetching
  <2>3. Applied(u)' <=> Applied(u) BY <1>2 DEF Applied
  <2>4. CASE u \in order
    <3>1. task'[u] = "waiting" BY <1>2, <2>4
    <3> QED BY <1>2, <2>2, <2>3, <2>4, <3>1 DEF Fetching
  <2>5. CASE u \notin order
    <3>1. task'[u] = task[u] BY <1>2, <2>5
    <3> QED BY <1>2, <2>2, <2>3, <2>5, <3>1 DEF Fetching
  <2> QED BY <2>4, <2>5
<1>8. Busy' = Busy
  <2>1. \A u \in order : task[u] = "idle" BY <1>1 DEF Fetching, TypeOK
  <2> QED BY <1>2, <2>1 DEF Busy
<1> QED BY <1>1, <1>2, <1>3, <1>4, <1>6, <1>7, <1>8 DEF IInv

\* A goroutine of the pool takes a step: the others and the caller stay.
LEMMA TaskSteps ==
    ASSUME IInv, NEW u \in Urls, UNCHANGED <<inputs, caller>>, task[u] \in {"waiting", "fetching"},
           \A v \in Urls \ {u} : /\ task'[v] = task[v] /\ result'[v] = result[v]
                                 /\ requests'[v] = requests[v]
    PROVE  /\ Decided' /\ Phases' /\ Shelf' /\ Scanning' /\ Named'
           /\ \A v \in Urls \ {u} : Fetching(v)'
           /\ pc = "wait" /\ u \in round /\ Fetching(u) /\ result[u] = "none" /\ ~Applied(u)
           /\ plan[u] = "bake" /\ u \notin order /\ (Applied(u)' <=> Applied(u))
<1>1. TypeOK /\ Phases /\ \A v \in Urls : Fetching(v) BY DEF IInv
<1>2. Fetching(u) /\ pc = "wait" /\ u \in round /\ result[u] = "none" /\ plan[u] = "bake"
      /\ u \notin order /\ ~Applied(u)
  BY <1>1 DEF Fetching, TypeOK, Applied
<1>3. UNCHANGED <<pc, plan, kept, seen, queue, jobs, order, round, store, baked, manifest, answer>>
  BY DEF caller
<1>4. \A v \in Urls : result[v] = "data" => result'[v] = "data" BY <1>2
<1>5. Decided' /\ Shelf' /\ Scanning' /\ Named' BY <1>2, <1>3, <1>4, CallerWaits
<1>6. Phases' BY <1>1, <1>2, <1>3 DEF Phases
<1>7. ASSUME NEW v \in Urls \ {u} PROVE Fetching(v)'
  BY <1>1, <1>3 DEF Fetching, Applied
<1>8. Applied(u)' <=> Applied(u) BY <1>3 DEF Applied
<1> QED BY <1>2, <1>5, <1>6, <1>7, <1>8

LEMMA BusyIsFinite == ASSUME IInv PROVE IsFiniteSet(Busy) /\ Cardinality(Busy) \in Nat
<1>1. Busy \subseteq Ids BY Documents1 DEF Busy
<1>2. IsFiniteSet(Busy) BY <1>1, BakeAssumption, FS_Subset
<1> QED BY <1>2, FS_CardinalityType

LEMMA AcquireKeeps == ASSUME IInv, NEW u \in Urls, Acquire(u) PROVE IInv'
<1>1. TypeOK /\ slots = Cardinality(Busy) BY DEF IInv
<1>2. /\ task[u] = "waiting" /\ slots < Slots /\ task' = [task EXCEPT ![u] = "fetching"]
      /\ slots' = slots + 1 /\ requests' = [requests EXCEPT ![u] = @ + 1]
      /\ UNCHANGED <<inputs, caller, expired, result>>
  BY DEF Acquire
<1>3. /\ task \in [Urls -> {"idle", "waiting", "fetching", "returned"}]
      /\ requests \in [Urls -> Nat] /\ slots \in 0..Slots /\ Slots \in Nat
  BY <1>1, BakeAssumption DEF TypeOK
<1>4. /\ task'[u] = "fetching" /\ requests'[u] = requests[u] + 1
      /\ \A v \in Urls \ {u} : task'[v] = task[v] /\ requests'[v] = requests[v]
  BY <1>2, <1>3
<1>5. /\ Decided' /\ Phases' /\ Shelf' /\ Scanning' /\ Named'
      /\ \A v \in Urls \ {u} : Fetching(v)'
      /\ pc = "wait" /\ u \in round /\ Fetching(u) /\ result[u] = "none" /\ ~Applied(u)
      /\ plan[u] = "bake" /\ u \notin order /\ (Applied(u)' <=> Applied(u))
  BY <1>2, <1>4, TaskSteps
<1>6. TypeOK'
  <2>1. /\ task' \in [Urls -> {"idle", "waiting", "fetching", "returned"}]
        /\ requests' \in [Urls -> Nat] /\ slots' \in 0..Slots
    BY <1>2, <1>3
  <2> QED BY <1>1, <1>2, <2>1 DEF TypeOK, inputs, caller
<1>7. Fetching(u)'
  <2>1. requests'[u] = 1 BY <1>2, <1>3, <1>4, <1>5 DEF Fetching
  <2> QED BY <1>2, <1>4, <1>5, <2>1 DEF Fetching, caller
<1>8. (slots = Cardinality(Busy))'
  <2>1. Busy' = Busy \cup {u} /\ u \notin Busy BY <1>2, <1>4 DEF Busy
  <2> QED BY <1>1, <1>2, <2>1, BusyIsFinite, FS_AddElement
<1> QED BY <1>5, <1>6, <1>7, <1>8 DEF IInv

\* The two ways a goroutine ends: GiveUp without a slot, Return with one.
LEMMA EndsKeep ==
    ASSUME IInv, NEW u \in Urls, GiveUp(u) \/ \E r \in {"data", "failed"} : Return(u, r)
    PROVE  IInv'
<1>1. TypeOK /\ slots = Cardinality(Busy) BY DEF IInv
<1>2. PICK r \in {"data", "failed"} :
        /\ task[u] \in {"waiting", "fetching"} /\ task' = [task EXCEPT ![u] = "returned"]
        /\ result' = [result EXCEPT ![u] = r]
        /\ slots' = IF task[u] = "fetching" THEN slots - 1 ELSE slots
        /\ UNCHANGED <<inputs, caller, expired, requests>>
  <2>1. CASE GiveUp(u)
    <3>1. /\ task[u] = "waiting" /\ task' = [task EXCEPT ![u] = "returned"]
          /\ result' = [result EXCEPT ![u] = "failed"]
          /\ UNCHANGED <<inputs, caller, slots, expired, requests>>
      BY <2>1 DEF GiveUp
    <3> QED BY <3>1
  <2>2. CASE \E r \in {"data", "failed"} : Return(u, r) BY <2>2 DEF Return
  <2> QED BY <2>1, <2>2
<1>3. /\ task \in [Urls -> {"idle", "waiting", "fetching", "returned"}]
      /\ result \in [Urls -> {"none", "data", "failed"}] /\ slots \in 0..Slots /\ Slots \in Nat
  BY <1>1, BakeAssumption DEF TypeOK
<1>4. /\ task'[u] = "returned" /\ result'[u] = r
      /\ \A v \in Urls \ {u} : task'[v] = task[v] /\ result'[v] = result[v]
  BY <1>2, <1>3
<1>5. /\ Decided' /\ Phases' /\ Shelf' /\ Scanning' /\ Named'
      /\ \A v \in Urls \ {u} : Fetching(v)'
      /\ pc = "wait" /\ u \in round /\ Fetching(u) /\ result[u] = "none" /\ ~Applied(u)
      /\ plan[u] = "bake" /\ u \notin order /\ (Applied(u)' <=> Applied(u))
  BY <1>2, <1>4, TaskSteps
<1>6. (slots = Cardinality(Busy))'
  <2>1. Busy' = Busy \ {u} /\ (u \in Busy <=> task[u] = "fetching") BY <1>2, <1>4 DEF Busy
  <2>2. IsFiniteSet(Busy) /\ Cardinality(Busy) \in Nat BY BusyIsFinite
  <2>3. Cardinality(Busy \ {u}) = IF u \in Busy THEN Cardinality(Busy) - 1 ELSE Cardinality(Busy)
    BY <2>2, FS_RemoveElement
  <2> QED BY <1>1, <1>2, <2>1, <2>3
<1>7. TypeOK'
  <2>1. /\ task' \in [Urls -> {"idle", "waiting", "fetching", "returned"}]
        /\ result' \in [Urls -> {"none", "data", "failed"}]
    BY <1>2, <1>3
  <2>2. slots' \in 0..Slots
    <3>1. IsFiniteSet(Busy) /\ Cardinality(Busy) \in Nat BY BusyIsFinite
    <3>2. task[u] = "fetching" => Cardinality(Busy) # 0
      BY <3>1, FS_EmptySet DEF Busy
    <3> QED BY <1>1, <1>2, <1>3, <3>1, <3>2
  <2> QED BY <1>1, <1>2, <2>1, <2>2 DEF TypeOK, inputs, caller
<1>8. Fetching(u)'
  <2>1. UNCHANGED <<pc, plan, kept, seen, order, round, baked>> BY <1>2 DEF caller
  <2> QED BY <1>2, <1>4, <1>5, <2>1 DEF Fetching
<1> QED BY <1>5, <1>6, <1>7, <1>8 DEF IInv

LEMMA TurnsKeep == ASSUME IInv, Expire \/ EndRound \/ UNCHANGED vars PROVE IInv'
<1>1. TypeOK /\ Phases /\ slots = Cardinality(Busy) /\ \A u \in Urls : Fetching(u) BY DEF IInv
<1>2. CASE Expire \/ EndRound
  <2>1. /\ pc = "wait" /\ pc' \in {"wait", "apply"} /\ expired' \in BOOLEAN
        /\ pc' = "apply" => \A u \in round : task[u] = "returned"
        /\ UNCHANGED <<inputs, plan, kept, seen, queue, jobs, order, round, store, baked,
                       manifest, answer, task, slots, result, requests>>
    BY <1>1, <1>2 DEF Expire, EndRound, caller, pool, TypeOK
  <2>2. Decided' /\ Shelf' /\ Scanning' /\ Named' BY <2>1, CallerWaits
  <2>3. TypeOK' BY <1>1, <2>1 DEF TypeOK, inputs
  <2>4. Phases' BY <1>1, <2>1 DEF Phases
  <2>5. (slots = Cardinality(Busy))' BY <1>1, <2>1 DEF Busy
  <2>6. ASSUME NEW u \in Urls PROVE Fetching(u)'
    <3>1. Fetching(u) BY <1>1
    <3>2. Applied(u)' <=> Applied(u) BY <2>1 DEF Applied
    <3> QED BY <2>1, <3>1, <3>2 DEF Fetching
  <2> QED BY <2>2, <2>3, <2>4, <2>5, <2>6 DEF IInv
<1>3. CASE UNCHANGED vars
  <2>1. UNCHANGED <<imported, pack, web, pc, plan, kept, seen, queue, jobs, order, round, store, baked,
                   manifest, answer, task, slots, expired, result, requests>>
    BY <1>3 DEF vars, inputs, caller, pool
  <2>2. TypeOK' BY <1>1, <2>1 DEF TypeOK
  <2>3. Decided' BY <2>1 DEF IInv, Decided, Decision, Local
  <2>4. Manifest' = Manifest BY <2>1 DEF Manifest, Row
  <2>5. Verdict(Manifest)' = Verdict(Manifest)
    <3>1. Verdict(Manifest)' = Verdict(Manifest') BY <2>1 DEF Verdict
    <3> QED BY <2>1, <2>4, <3>1 DEF Verdict
  <2>6. Phases' BY <1>1, <2>1, <2>4, <2>5 DEF Phases
  <2>7. Shelf' BY <2>1 DEF IInv, Shelf, Applied
  <2>8. Scanning' BY <2>1 DEF IInv, Scanning, Scanned, Local
  <2>9. Named' BY <2>1 DEF IInv, Named, Closed, Readable, Scanned, Local
  <2>10. (slots = Cardinality(Busy))' BY <1>1, <2>1 DEF Busy
  <2>11. \A u \in Urls : Fetching(u)' BY <1>1, <2>1 DEF Fetching, Applied
  <2> QED BY <2>2, <2>3, <2>6, <2>7, <2>8, <2>9, <2>10, <2>11 DEF IInv
<1> QED BY <1>2, <1>3
-----------------------------------------------------------------------------
(* Applying the results of a round                                         *)

\* What both outcomes of Apply need to know, and the URLs they leave alone.
LEMMA Applying ==
    ASSUME IInv, NEW u \in Urls, Apply(u)
    PROVE  /\ pc = "apply" /\ u \in round /\ round' = round \ {u} /\ order = {} /\ order' = {}
           /\ pc' = (IF round = {u} THEN "run" ELSE "apply")
           /\ plan[u] = "bake" /\ Decision(u) = "bake" /\ u \in Ids /\ u \notin seen
           /\ task[u] = "returned" /\ ToSet(queue) \subseteq Urls
           /\ UNCHANGED <<inputs, jobs, answer, task, slots, expired, result, requests>>
           /\ Phases /\ TypeOK /\ Fetching(u)
<1>1. Phases /\ TypeOK /\ Fetching(u) /\ Decided BY DEF IInv
<1>2. /\ pc = "apply" /\ u \in round /\ round' = round \ {u} /\ order' = order
      /\ pc' = (IF round = {u} THEN "run" ELSE "apply")
      /\ UNCHANGED <<inputs, jobs, answer, task, slots, expired, result, requests>>
  BY DEF Apply, pool
<1>3. order = {} /\ ToSet(queue) \subseteq Urls /\ task[u] = "returned" BY <1>1, <1>2 DEF Phases
<1>4. plan[u] = "bake" /\ u \in Ids BY <1>1, <1>2 DEF Fetching, Ids
<1>5. Decision(u) = "bake" BY <1>1, <1>4 DEF Decided
<1>6. u \notin seen BY <1>1, <1>2 DEF Fetching, Applied
<1> QED BY <1>1, <1>2, <1>3, <1>4, <1>5, <1>6

LEMMA ApplyFailureKeeps ==
    ASSUME IInv, NEW u \in Urls, Apply(u), ApplyFailure(u) PROVE IInv'
<1>1. /\ pc = "apply" /\ u \in round /\ round' = round \ {u} /\ order = {} /\ order' = {}
      /\ pc' = (IF round = {u} THEN "run" ELSE "apply")
      /\ plan[u] = "bake" /\ Decision(u) = "bake" /\ u \in Ids /\ u \notin seen
      /\ task[u] = "returned" /\ ToSet(queue) \subseteq Urls
      /\ UNCHANGED <<inputs, jobs, answer, task, slots, expired, result, requests>>
      /\ Phases /\ TypeOK /\ Fetching(u)
  BY Applying
<1>2. /\ result[u] = "failed" /\ plan' = [plan EXCEPT ![u] = "kept-external"]
      /\ kept' = kept \cup {u} /\ UNCHANGED <<seen, queue, store, baked>>
  BY DEF ApplyFailure
<1>3. plan \in [Ids -> Plans] BY <1>1 DEF TypeOK, Plans
<1>4. /\ plan' \in [Ids -> Plans] /\ plan'[u] = "kept-external"
      /\ \A id \in Ids : id # u => plan'[id] = plan[id]
      /\ \A id \in Ids : plan'[id] # "none" <=> plan[id] # "none"
  BY <1>1, <1>2, <1>3 DEF Plans
<1>5. /\ \A d \in Ids : /\ Scanned(d)' = Scanned(d) /\ Decision(d)' = Decision(d)
                        /\ Local(d)' <=> Local(d)
      /\ \A S \in SUBSET Ids : Closed(S)' => Closed(S)
  BY <1>1, Reading
<1>6. TypeOK' BY <1>1, <1>2, <1>4 DEF TypeOK, Plans, inputs, Apply
<1>7. Decided' BY <1>1, <1>4, <1>5 DEF IInv, Decided
<1>8. Phases'
  <2>1. pc' \in {"run", "apply"} /\ (pc' = "run" => round' = {}) BY <1>1
  <2>2. \A v \in round' : task'[v] = "returned" BY <1>1 DEF Phases
  <2>3. answer' = "none" /\ ToSet(queue') \subseteq Urls BY <1>1, <1>2 DEF Phases
  <2> QED BY <1>1, <2>1, <2>2, <2>3 DEF Phases
<1>9. \A v \in Urls : v # u => /\ plan'[v] = plan[v] /\ (v \in round' <=> v \in round)
                             /\ (Applied(v)' <=> Applied(v))
  BY <1>1, <1>4 DEF Applied, Ids
<1>10. ~Applied(u) /\ ~Applied(u)' BY <1>1, <1>4 DEF Applied
<1>11. Shelf'
  <2>1. Shelf BY DEF IInv
  <2>2. \A v \in Urls : Applied(v)' <=> Applied(v) BY <1>9, <1>10
  <2> QED BY <1>1, <1>2, <2>1, <2>2 DEF Shelf, inputs
<1>12. Named' BY <1>4, <1>5 DEF IInv, Named
<1>13. Scanning'
  <2>1. Scanning /\ seen \subseteq Ids /\ Sheets \subseteq Ids /\ Entry \in Ids
    BY <1>1, Documents1 DEF IInv, TypeOK
  <2>2. ToSet(jobs) \subseteq Ids BY <2>1 DEF Scanning
  <2>3. \A d \in {Entry} \cup ToSet(jobs) : Scanned(d)' = Scanned(d) /\ Scanned(d) \subseteq Ids
    BY <1>5, <2>1, <2>2, Documents1
  <2>4. /\ \A id \in seen : plan'[id] # "none" /\ (id \in Urls \/ Local(id)')
        /\ \A id \in Sheets : plan'[id] # "none" /\ Local(id)' => id \in seen
    BY <1>4, <1>5, <2>1 DEF Scanning
  <2>5. /\ \A id \in Scanned(Entry)' : plan'[id] # "none"
        /\ \A d \in ToSet(jobs), id \in Ids : id \in Scanned(d)' => plan'[id] # "none"
        /\ \A id \in Ids : plan'[id] # "none" => \E d \in {Entry} \cup ToSet(jobs) : id \in Scanned(d)'
    BY <1>1, <1>4, <2>1, <2>3 DEF Scanning
  <2> QED BY <1>1, <1>2, <2>1, <2>4, <2>5 DEF Scanning
<1>14. (slots = Cardinality(Busy))' BY <1>1 DEF IInv, Busy
<1>15. ASSUME NEW v \in Urls PROVE Fetching(v)'
  <2>1. CASE v = u
    <3>1. u \notin round' /\ u \in kept' /\ u \notin seen' BY <1>1, <1>2
    <3> QED BY <1>1, <1>2, <1>4, <1>10, <2>1, <3>1 DEF Fetching
  <2>2. CASE v # u
    <3>1. Fetching(v) /\ task[v] \notin {"waiting", "fetching"} BY <1>1 DEF IInv, Fetching
    <3>2. (v \in kept' <=> v \in kept) BY <1>2, <2>2
    <3> QED BY <1>1, <1>2, <1>9, <2>2, <3>1, <3>2 DEF Fetching
  <2> QED BY <2>1, <2>2
<1> QED BY <1>6, <1>7, <1>8, <1>11, <1>12, <1>13, <1>14, <1>15 DEF IInv

LEMMA ApplyDataKeeps ==
    ASSUME IInv, NEW u \in Urls, Apply(u), ApplyData(u) PROVE IInv'
<1> DEFINE path == StorePath[u]
           new == {u} \cap Sheets
<1>1. /\ pc = "apply" /\ u \in round /\ round' = round \ {u} /\ order = {} /\ order' = {}
      /\ pc' = (IF round = {u} THEN "run" ELSE "apply")
      /\ plan[u] = "bake" /\ Decision(u) = "bake" /\ u \in Ids /\ u \notin seen
      /\ task[u] = "returned" /\ ToSet(queue) \subseteq Urls
      /\ UNCHANGED <<inputs, jobs, answer, task, slots, expired, result, requests>>
      /\ Phases /\ TypeOK /\ Fetching(u)
  BY Applying
<1>2. /\ result[u] = "data" /\ store' = Place(path, u) /\ baked' = baked \cup {path}
      /\ seen' = (IF u \in Sheets THEN seen \cup {u} ELSE seen)
      /\ queue' = (IF u \in Sheets THEN Append(queue, u) ELSE queue)
      /\ UNCHANGED <<plan, kept>>
  BY <1>1 DEF ApplyData
<1>3. /\ seen' = seen \cup new /\ queue' \in Seq(Sheets) /\ ToSet(queue') = ToSet(queue) \cup new
  <2>1. queue \in Seq(Sheets) BY <1>1 DEF TypeOK
  <2>2. CASE u \in Sheets BY <1>2, <2>1, <2>2, Appended
  <2>3. CASE u \notin Sheets BY <1>2, <2>1, <2>3
  <2> QED BY <2>2, <2>3
<1>4. /\ DOMAIN store' = DOMAIN store \cup {path} /\ store'[path] = Stored(u)
      /\ \A p \in DOMAIN store : p # path => store'[p] = store[p]
  BY <1>2 DEF Place
<1>5. /\ \A d \in Ids : /\ Scanned(d)' = Scanned(d) /\ Decision(d)' = Decision(d)
                        /\ Local(d)' <=> Local(d)
      /\ \A S \in SUBSET Ids : Closed(S)' => Closed(S)
  BY <1>1, Reading
<1> HIDE DEF path
<1>6. TypeOK'
  <2>1. seen' \subseteq Sheets BY <1>1, <1>3 DEF TypeOK
  <2>2. DOMAIN store' \subseteq Ids \cup {StorePath[v] : v \in Urls} BY <1>1, <1>4 DEF TypeOK, path
  <2>3. \A p \in DOMAIN store' : store'[p] \in [of : Ids, rewritten : BOOLEAN]
    <3>1. Stored(u) \in [of : Ids, rewritten : BOOLEAN] BY <1>1 DEF Stored
    <3> QED BY <1>1, <1>4, <3>1 DEF TypeOK
  <2>4. baked' \subseteq DOMAIN store' BY <1>1, <1>2, <1>4 DEF TypeOK
  <2> QED BY <1>1, <1>2, <1>3, <2>1, <2>2, <2>3, <2>4 DEF TypeOK, inputs
<1>7. Decided' BY <1>2, <1>5 DEF IInv, Decided
<1>8. Phases'
  <2>1. pc' \in {"run", "apply"} /\ (pc' = "run" => round' = {}) BY <1>1
  <2>2. \A v \in round' : task'[v] = "returned" BY <1>1 DEF Phases
  <2>3. answer' = "none" /\ ToSet(queue') \subseteq Urls BY <1>1, <1>3 DEF Phases
  <2> QED BY <1>1, <2>1, <2>2, <2>3 DEF Phases
<1>9. \A v \in Urls : v # u => (v \in round' <=> v \in round) /\ (Applied(v)' <=> Applied(v))
  BY <1>1, <1>2 DEF Applied
<1>10. ~Applied(u) /\ Applied(u)' BY <1>1, <1>2 DEF Applied
<1>11. Shelf'
  <2>1. Shelf BY DEF IInv
  <2>2. \A v \in Urls : Applied(v) => Applied(v)' BY <1>9, <1>10
  <2>3. (IF imported THEN pack = {Entry} ELSE pack \in Packs)' BY <1>1, <2>1 DEF Shelf, inputs
  <2>4. (DOMAIN store = (pack \ {Entry}) \cup baked)'
    BY <1>1, <1>2, <1>4, <2>1 DEF Shelf, inputs
  <2>5. ASSUME NEW p \in DOMAIN store'
        PROVE  IF p \in baked'
               THEN \E v \in Urls : store'[p].of = v /\ StorePath[v] = p /\ Applied(v)'
               ELSE store'[p].of = p
    <3>1. CASE p = path
      <4>1. store'[p].of = u /\ p \in baked' BY <1>2, <1>4, <3>1 DEF Stored
      <4> QED BY <1>10, <3>1, <4>1 DEF path
    <3>2. CASE p # path
      <4>1. p \in DOMAIN store /\ store'[p] = store[p] /\ (p \in baked' <=> p \in baked)
        BY <1>2, <1>4, <2>5, <3>2
      <4>2. CASE p \in baked
        <5> DEFINE v == store[p].of
        <5>1. v \in Urls /\ StorePath[v] = p /\ Applied(v) BY <2>1, <4>1, <4>2 DEF Shelf
        <5> QED BY <2>2, <4>1, <4>2, <5>1
      <4>3. CASE p \notin baked BY <2>1, <4>1, <4>3 DEF Shelf
      <4> QED BY <4>2, <4>3
    <3> QED BY <3>1, <3>2
  <2>6. \A p \in DOMAIN store' :
           (IF p \in baked THEN store[p].of \in Urls /\ StorePath[store[p].of] = p /\ Applied(store[p].of)
                           ELSE store[p].of = p)'
    BY <2>5 DEF Applied
  <2> QED BY <2>3, <2>4, <2>6 DEF Shelf, Applied
<1>12. Named' BY <1>2, <1>5 DEF IInv, Named
<1>13. Scanning'
  <2>1. Scanning /\ seen \subseteq Ids /\ Sheets \subseteq Ids /\ Entry \in Ids
    BY <1>1, Documents1 DEF IInv, TypeOK
  <2>2. ToSet(jobs) \subseteq Ids BY <2>1 DEF Scanning
  <2>3. \A d \in {Entry} \cup ToSet(jobs) : Scanned(d)' = Scanned(d)
    BY <1>5, <2>1, <2>2
  <2>4. ToSet(queue') \cup ToSet(jobs') = seen' BY <1>1, <1>3, <2>1 DEF Scanning
  <2>5. \A id \in seen' : plan'[id] # "none" /\ (id \in Urls \/ Local(id)')
    BY <1>1, <1>2, <1>3, <1>5, <2>1 DEF Scanning
  <2>6. \A id \in Sheets : plan'[id] # "none" /\ Local(id)' => id \in seen'
    BY <1>2, <1>3, <1>5, <2>1 DEF Scanning
  <2>7. /\ \A id \in Scanned(Entry)' : plan'[id] # "none"
        /\ \A d \in ToSet(jobs), id \in Ids : id \in Scanned(d)' => plan'[id] # "none"
        /\ \A id \in Ids : plan'[id] # "none" => \E d \in {Entry} \cup ToSet(jobs) : id \in Scanned(d)'
    BY <1>1, <1>2, <2>1, <2>3 DEF Scanning
  <2>8. ToSet(queue') \subseteq Urls BY <1>1, <1>3
  <2> QED BY <1>1, <2>1, <2>4, <2>5, <2>6, <2>7, <2>8 DEF Scanning
<1>14. (slots = Cardinality(Busy))' BY <1>1 DEF IInv, Busy
<1>15. ASSUME NEW v \in Urls PROVE Fetching(v)'
  <2>1. CASE v = u
    <3>1. u \notin round' /\ path \in baked' /\ (u \in seen' <=> u \in Sheets) BY <1>1, <1>2, <1>3
    <3> QED BY <1>1, <1>2, <1>10, <2>1, <3>1 DEF Fetching, path
  <2>2. CASE v # u
    <3>1. Fetching(v) /\ task[v] \notin {"waiting", "fetching"} BY <1>1 DEF IInv, Fetching
    <3>2. (v \in seen' <=> v \in seen) /\ baked \subseteq baked' BY <1>2, <1>3, <2>2
    <3> QED BY <1>1, <1>2, <1>9, <2>2, <3>1, <3>2 DEF Fetching
  <2> QED BY <2>1, <2>2
<1> QED BY <1>6, <1>7, <1>8, <1>11, <1>12, <1>13, <1>14, <1>15 DEF IInv
-----------------------------------------------------------------------------
(* The end of the attempt                                                  *)

\* Rewriting puts under a path a document that belongs there: a packed
\* stylesheet never replaces a fetched one, for it was scanned before.
LEMMA RewritingShelf ==
    ASSUME IInv, queue = <<>>, order = {}
    PROVE  /\ DOMAIN Rewritten = DOMAIN store
           /\ \A p \in DOMAIN store :
                 /\ Rewritten[p] \in [of : Ids, rewritten : BOOLEAN]
                 /\ p \in baked => \E v \in Urls : /\ Rewritten[p].of = v /\ StorePath[v] = p
                                                 /\ Applied(v)
                 /\ p \notin baked => Rewritten[p].of = p
<1>1. TypeOK /\ Shelf /\ Scanning /\ (\A u \in Urls : Fetching(u)) /\ Sheets \subseteq Ids
  BY Documents1 DEF IInv
<1>2. ToSet(queue) = {} BY DEF ToSet
<1>3. ToSet(jobs) = seen /\ \A i \in DOMAIN jobs : jobs[i] \in seen /\ jobs[i] \in Sheets
  BY <1>1, <1>2 DEF Scanning, ToSet, TypeOK
<1>4. ASSUME NEW p \in DOMAIN store
      PROVE  /\ Rewritten[p] \in [of : Ids, rewritten : BOOLEAN]
             /\ p \in baked => \E v \in Urls : /\ Rewritten[p].of = v /\ StorePath[v] = p
                                             /\ Applied(v)
             /\ p \notin baked => Rewritten[p].of = p
  <2> DEFINE last == {i \in DOMAIN jobs : PathOf(jobs[i]) = p
                          /\ \A j \in DOMAIN jobs : PathOf(jobs[j]) = p => j <= i}
             n == CHOOSE i \in last : TRUE
  <2>1. Rewritten[p] = (IF last = {} THEN store[p] ELSE [of |-> jobs[n], rewritten |-> TRUE])
    BY <1>4 DEF Rewritten
  <2>2. CASE last = {} BY <1>1, <1>4, <2>1, <2>2 DEF Shelf, TypeOK
  <2>3. CASE last # {}
    <3>1. n \in last BY <2>3
    <3>2. /\ n \in DOMAIN jobs /\ PathOf(jobs[n]) = p
          /\ \A j \in DOMAIN jobs : PathOf(jobs[j]) = p => j <= n
      BY <3>1
    <3>3. Rewritten[p] = [of |-> jobs[n], rewritten |-> TRUE] BY <2>1, <2>3
    <3> HIDE DEF n, last
    <3> DEFINE id == jobs[n]
    <3>4. id \in seen /\ id \in Ids /\ PathOf(id) = p BY <1>1, <1>3, <3>2
    <3>5. Rewritten[p] \in [of : Ids, rewritten : BOOLEAN] /\ Rewritten[p].of = id
      BY <3>3, <3>4
    <3>6. id \in Urls => StorePath[id] = p /\ Applied(id) /\ p \in baked
      BY <1>1, <3>4 DEF PathOf, Fetching
    <3>7. id \notin Urls => id = p BY <3>4 DEF PathOf
    <3>8. ASSUME p \in baked, id \notin Urls PROVE FALSE
      <4> DEFINE v == store[p].of
      <4>1. v \in Urls /\ StorePath[v] = p /\ Applied(v) BY <1>1, <1>4, <3>8 DEF Shelf
      <4>2. p \in Sheets BY <1>3, <3>2, <3>7, <3>8
      <4>3. v \in Sheets BY <4>1, <4>2, BakeAssumption
      <4>4. v \in seen BY <1>1, <4>1, <4>3 DEF Fetching
      <4>5. PICK j \in DOMAIN jobs : jobs[j] = v BY <1>3, <4>4 DEF ToSet
      <4>6. j <= n /\ j # n BY <3>2, <3>8, <4>1, <4>5 DEF PathOf
      <4>7. j \in Nat /\ n \in Nat BY <1>1, <3>2, <4>5 DEF TypeOK
      <4> QED BY <1>1, <3>2, <3>8, <4>1, <4>5, <4>6, <4>7 DEF Scanning
    <3> QED BY <3>5, <3>6, <3>7, <3>8
  <2> QED BY <2>2, <2>3
<1> QED BY <1>4 DEF Rewritten

LEMMA FinalizeKeeps == ASSUME IInv, Finalize PROVE IInv'
<1>1. TypeOK /\ Phases /\ Shelf /\ slots = Cardinality(Busy) /\ (\A u \in Urls : Fetching(u))
      /\ Decided /\ Scanning /\ Named
  BY DEF IInv
<1>2. /\ pc = "run" /\ pc' = "done" /\ queue = <<>> /\ order = {}
      /\ store' = Rewritten /\ manifest' = Manifest /\ answer' = Verdict(Manifest)
      /\ UNCHANGED <<imported, pack, web, plan, kept, seen, queue, jobs, order, round, baked,
                     task, slots, expired, result, requests>>
  BY DEF Finalize, inputs, pool
<1>3. /\ DOMAIN store' = DOMAIN store
      /\ \A p \in DOMAIN store :
            /\ store'[p] \in [of : Ids, rewritten : BOOLEAN]
            /\ p \in baked => \E v \in Urls : /\ store'[p].of = v /\ StorePath[v] = p
                                            /\ Applied(v)
            /\ p \notin baked => store'[p].of = p
  BY <1>2, RewritingShelf
<1>4. Manifest' = Manifest BY <1>2, <1>3 DEF Manifest, Row
<1>5. TypeOK' BY <1>1, <1>2, <1>3 DEF TypeOK, Verdict
<1>6. Phases'
  <2>1. Verdict(Manifest)' = Verdict(Manifest)
    <3>1. Verdict(Manifest)' = Verdict(Manifest') BY <1>2 DEF Verdict
    <3> QED BY <1>4, <3>1
  <2>2. manifest' = Manifest' /\ answer' = Verdict(Manifest)' BY <1>2, <1>4, <2>1
  <2>3. round' = {} BY <1>1, <1>2 DEF Phases
  <2> QED BY <1>2, <2>2, <2>3 DEF Phases
<1>7. Shelf'
  <2>1. \A p \in DOMAIN store' :
           (IF p \in baked THEN store[p].of \in Urls /\ StorePath[store[p].of] = p /\ Applied(store[p].of)
                           ELSE store[p].of = p)'
    <3>1. \A v \in Urls : Applied(v)' <=> Applied(v) BY <1>2 DEF Applied
    <3> QED BY <1>2, <1>3, <3>1 DEF Applied
  <2> QED BY <1>1, <1>2, <1>3, <2>1 DEF Shelf, Applied
<1>8. Decided' BY <1>1, <1>2 DEF Decided, Decision, Local
<1>9. Scanning' BY <1>1, <1>2 DEF Scanning, Scanned, Local
<1>10. Named' BY <1>1, <1>2 DEF Named, Closed, Readable, Scanned, Local
<1>11. (slots = Cardinality(Busy))' BY <1>1, <1>2 DEF Busy
<1>12. ASSUME NEW u \in Urls PROVE Fetching(u)'
  <2>1. Fetching(u) /\ (Applied(u)' <=> Applied(u)) BY <1>1, <1>2 DEF Applied
  <2> QED BY <1>2, <2>1 DEF Fetching
<1> QED BY <1>5, <1>6, <1>7, <1>8, <1>9, <1>10, <1>11, <1>12 DEF IInv

-----------------------------------------------------------------------------
(* The invariant and what follows from it                                  *)

LEMMA InitIInv == Init => IInv
<1> SUFFICES ASSUME Init PROVE IInv OBVIOUS
<1>1. /\ pc = "parse" /\ kept = {} /\ seen = {} /\ queue = <<>> /\ jobs = <<>>
      /\ order = {} /\ round = {} /\ slots = 0 /\ baked = {} /\ manifest = {} /\ answer = "none"
      /\ expired = FALSE /\ web \in Webs /\ imported \in BOOLEAN
      /\ plan = [id \in Ids |-> "none"] /\ task = [u \in Urls |-> "idle"]
      /\ result = [u \in Urls |-> "none"] /\ requests = [u \in Urls |-> 0]
      /\ store = [p \in pack \ {Entry} |-> Stored(p)]
      /\ IF imported THEN pack = {Entry} ELSE pack \in Packs
  BY DEF Init
<1>2. Slots \in Nat \ {0} /\ Entry \in Names /\ \A f \in Packs : f \subseteq Names
  BY BakeAssumption
<1>3. TypeOK
  <2>1. pack \subseteq Ids BY <1>1, <1>2 DEF Ids
  <2>2. \A p \in DOMAIN store : store[p] \in [of : Ids, rewritten : BOOLEAN]
    BY <1>1, <2>1 DEF Stored
  <2>3. DOMAIN store \subseteq Ids BY <1>1, <2>1
  <2>4. /\ plan \in [Ids -> {"none", "skip", "local", "bake", "kept-cdn", "kept-external"}]
        /\ task \in [Urls -> {"idle", "waiting", "fetching", "returned"}]
        /\ result \in [Urls -> {"none", "data", "failed"}] /\ requests \in [Urls -> Nat]
    BY <1>1
  <2>5. queue \in Seq(Sheets) /\ jobs \in Seq(Sheets) /\ slots \in 0..Slots BY <1>1, <1>2
  <2>6. pack \in Packs \cup {{Entry}} BY <1>1
  <2> QED BY <1>1, <2>2, <2>3, <2>4, <2>5, <2>6 DEF TypeOK
<1>4. Decided /\ Named BY <1>1 DEF Decided, Named
<1>5. Phases BY <1>1 DEF Phases
<1>6. Shelf BY <1>1 DEF Shelf, Stored
<1>7. Scanning
  <2>1. ToSet(queue) = {} /\ ToSet(jobs) = {} /\ DOMAIN jobs = {} BY <1>1 DEF ToSet
  <2>2. \A id \in Ids : plan[id] = "none" BY <1>1
  <2>3. Sheets \subseteq Ids BY BakeAssumption
  <2> QED BY <1>1, <2>1, <2>2, <2>3 DEF Scanning
<1>8. slots = Cardinality(Busy)
  <2>1. Busy = {} BY <1>1 DEF Busy
  <2> QED BY <1>1, <2>1, FS_EmptySet
<1>9. \A u \in Urls : Fetching(u) BY <1>1 DEF Fetching, Applied, Ids
<1> QED BY <1>3, <1>4, <1>5, <1>6, <1>7, <1>8, <1>9 DEF IInv

LEMMA Invariance == Spec => []IInv
<1>1. Init => IInv BY InitIInv
<1>2. IInv /\ [Next]_vars => IInv'
  <2> SUFFICES ASSUME IInv, [Next]_vars PROVE IInv' OBVIOUS
  <2>1. CASE ParseEntry BY <2>1, ParseEntryKeeps
  <2>2. CASE ScanSheet BY <2>2, ScanSheetKeeps
  <2>3. CASE StartRound BY <2>3, StartRoundKeeps
  <2>4. CASE Expire \/ EndRound \/ Answered \/ UNCHANGED vars BY <2>4, TurnsKeep DEF Answered
  <2>5. CASE Finalize BY <2>5, FinalizeKeeps
  <2>6. ASSUME NEW u \in Urls, Acquire(u) PROVE IInv' BY <2>6, AcquireKeeps
  <2>7. ASSUME NEW u \in Urls, GiveUp(u) \/ \E r \in {"data", "failed"} : Return(u, r)
        PROVE  IInv'
    BY <2>7, EndsKeep
  <2>8. ASSUME NEW u \in Urls, Apply(u) PROVE IInv'
    <3>1. ApplyFailure(u) \/ ApplyData(u) BY <2>8 DEF Apply
    <3> QED BY <2>8, <3>1, ApplyFailureKeeps, ApplyDataKeeps
  <2> QED BY <2>1, <2>2, <2>3, <2>4, <2>5, <2>6, <2>7, <2>8 DEF Next
<1> QED BY <1>1, <1>2, PTL DEF Spec

-----------------------------------------------------------------------------
(* The properties                                                          *)

\* Every variable keeps its type, whatever the documents and the web say
\* (pipeline.go, fetch.go).
THEOREM TypeCorrect == Spec => []TypeOK
<1>1. IInv => TypeOK BY DEF IInv
<1> QED BY <1>1, Invariance, PTL

\* A URL is asked for at most once per attempt, however many documents name it
\* and in however many rounds, and never when its host may keep it
\* (pipeline.go:45-47).
THEOREM Once == Spec => []FetchedOnce
<1>1. ASSUME IInv, NEW u \in Urls PROVE requests[u] <= IF u \in Allowed \ Signed THEN 0 ELSE 1
  <2>1. Fetching(u) /\ Decided /\ u \in Ids /\ TypeOK BY <1>1 DEF IInv, Ids
  <2>2. CASE u \in Allowed \ Signed
    <3>1. Decision(u) = "kept-cdn" BY <1>1, <2>1, <2>2, Documents1 DEF Decision
    <3>2. plan[u] \notin {"bake", "kept-external"} BY <2>1, <3>1 DEF Decided
    <3> QED BY <2>1, <2>2, <3>2 DEF Fetching
  <2>3. CASE u \notin Allowed \ Signed BY <2>1, <2>3 DEF Fetching
  <2> QED BY <2>2, <2>3
<1>2. IInv => FetchedOnce BY <1>1 DEF FetchedOnce
<1> QED BY <1>2, Invariance, PTL

\* The semaphore counts the requests under way whatever way each ends, nothing
\* is under way between rounds, and FetchAll returns a result for every URL of
\* the round (fetch.go:50-81).
THEOREM PoolCounts == Spec => []PoolAccounts
<1>1. ASSUME IInv PROVE PoolAccounts
  <2>1. slots = Cardinality(Busy) /\ Phases /\ \A u \in Urls : Fetching(u) BY <1>1 DEF IInv
  <2>2. pc = "apply" => \A u \in round : result[u] # "none"
    BY <1>1, <2>1 DEF Phases, Fetching, IInv, TypeOK
  <2>3. ASSUME pc # "wait" PROVE slots = 0
    <3>1. Busy = {} BY <2>1, <2>3 DEF Fetching, Busy
    <3> QED BY <2>1, <3>1, FS_EmptySet
  <2> QED BY <2>1, <2>2, <2>3 DEF PoolAccounts, Busy
<1> QED BY <1>1, Invariance, PTL

\* At the end every fetched URL has been applied.
LEMMA AtTheEnd ==
    ASSUME IInv, pc = "done"
    PROVE  /\ order = {} /\ round = {} /\ ToSet(jobs) = seen
           /\ manifest = Manifest /\ answer = Verdict(Manifest)
           /\ \A u \in Urls : Applied(u) <=> plan[u] = "bake"
<1>1. Phases /\ Scanning BY DEF IInv
<1>2. order = {} /\ round = {} /\ queue = <<>> /\ manifest = Manifest /\ answer = Verdict(Manifest)
  BY <1>1 DEF Phases
<1>3. ToSet(queue) = {} BY <1>2 DEF ToSet
<1> QED BY <1>1, <1>2, <1>3 DEF Scanning, Applied

\* What is planned when the pipeline ends is exactly what the readable documents
\* name, from the entry on: the least closed set (pipeline.go:258-308).
THEOREM Complete == Spec => []NothingMissed
<1>1. ASSUME IInv, pc = "done", NEW id \in Ids
      PROVE  plan[id] # "none" <=> \A S \in SUBSET Ids : Closed(S) => id \in S
  <2> DEFINE P == {i \in Ids : plan[i] # "none"}
  <2>1. TypeOK /\ Scanning /\ Named /\ \A u \in Urls : Fetching(u) BY <1>1 DEF IInv
  <2>2. /\ Sheets \subseteq Ids /\ Urls \subseteq Ids /\ Entry \in Ids
        /\ \A d \in Ids : Scanned(d) \subseteq Ids
        /\ \A i \in Ids : Local(i) => i \notin Urls
    BY <1>1, Documents1
  <2>3. Scanned(Entry) \subseteq P BY <1>1, <2>1, <2>2 DEF Scanning
  <2>4. ASSUME NEW d \in P \cap Readable PROVE Scanned(d) \subseteq P
    <3>1. CASE d = Entry BY <2>3, <3>1
    <3>2. CASE d # Entry
      <4>1. d \in Sheets /\ plan[d] # "none" /\ (Local(d) \/ (d \in Urls /\ result[d] = "data"))
        BY <2>4, <3>2 DEF Readable
      <4>2. ASSUME Local(d) PROVE d \in seen BY <2>1, <4>1, <4>2 DEF Scanning
      <4>3. ASSUME d \in Urls, result[d] = "data" PROVE d \in seen
        <5>1. task[d] = "returned" BY <2>1, <4>3 DEF Fetching
        <5>2. plan[d] = "bake" BY <2>1, <4>3, <5>1 DEF Fetching
        <5>3. Applied(d) BY <1>1, <4>3, <5>2, AtTheEnd
        <5> QED BY <2>1, <4>1, <4>3, <5>3 DEF Fetching
      <4>4. ToSet(jobs) = seen BY <1>1, AtTheEnd
      <4>5. d \in ToSet(jobs) /\ Scanned(d) \subseteq Ids BY <2>2, <4>1, <4>2, <4>3, <4>4
      <4> QED BY <2>1, <4>5 DEF Scanning
    <3> QED BY <3>1, <3>2
  <2>5. Closed(P) /\ P \in SUBSET Ids BY <2>3, <2>4 DEF Closed
  <2>6. (\A S \in SUBSET Ids : Closed(S) => id \in S) => id \in P BY <2>5
  <2> QED BY <2>1, <2>6 DEF Named
<1>2. IInv => NothingMissed BY <1>1 DEF NothingMissed
<1> QED BY <1>2, Invariance, PTL
\* No two different rows of a created page have the same path.
LEMMA OneRowPerPath ==
    ASSUME IInv, answer = "created"
    PROVE  /\ pc = "done" /\ \A r, s \in Manifest : r.path = s.path => r = s
           /\ \A u, v \in Urls :
                 plan[u] = "bake" /\ plan[v] = "bake" /\ StorePath[u] = StorePath[v] => u = v
<1>1. pc = "done" BY DEF IInv, Phases
<1>2. answer = Verdict(Manifest) BY <1>1, AtTheEnd
<1>3. \A r, s \in Manifest : r.path = s.path => r = s BY <1>2 DEF Verdict
<1>4. \A u \in Urls : plan[u] = "bake" => Row(StorePath[u], u, "baked") \in Manifest
  BY DEF Manifest
<1>5. ASSUME NEW u \in Urls, NEW v \in Urls, plan[u] = "bake", plan[v] = "bake",
             StorePath[u] = StorePath[v]
      PROVE  u = v
  <2>1. Row(StorePath[u], u, "baked") = Row(StorePath[v], v, "baked")
    <3>1. Row(StorePath[u], u, "baked").path = Row(StorePath[v], v, "baked").path
      BY <1>5 DEF Row
    <3> QED BY <1>3, <1>4, <1>5, <3>1
  <2> QED BY <2>1 DEF Row
<1> QED BY <1>1, <1>3, <1>5

\* What the documents of a created page point to is stored with it, and is what
\* the original named (pipeline.go:133-172).
THEOREM LinksLead == Spec => []ReferencesLead
<1>1. ASSUME IInv, answer = "created", NEW d \in Documents, NEW r \in web[d],
             plan[r.id] \in {"local", "bake"}, r.id # Entry
      PROVE  /\ PathOf(r.id) \in DOMAIN store
             /\ store[PathOf(r.id)].of = r.id \/ (Local(r.id) /\ r.id \in baked)
  <2>1. pc = "done" /\ TypeOK /\ Shelf /\ Decided /\ \A u \in Urls : Fetching(u)
    BY <1>1, OneRowPerPath DEF IInv
  <2>2. d \in Ids /\ r.id \in Ids
    <3>1. d \in Ids BY <1>1, <2>1, Documents1 DEF Documents, TypeOK
    <3>2. web[d] \subseteq [id : Ids, form : Forms]
      BY <2>1, <3>1, BakeAssumption DEF TypeOK
    <3> QED BY <1>1, <3>1, <3>2
  <2> DEFINE id == r.id
  <2>3. /\ id \in Ids /\ plan[id] \in {"local", "bake"} /\ id # Entry BY <1>1, <2>2
  <2> HIDE DEF id
  <2>4. plan[id] = Decision(id) BY <2>1, <2>3 DEF Decided
  <2>5. CASE plan[id] = "local"
    <3>1. Local(id) /\ id \notin Urls BY <1>1, <2>3, <2>4, <2>5, Documents1 DEF Decision
    <3>2. id \in DOMAIN store /\ PathOf(id) = id
      BY <2>1, <2>3, <3>1 DEF Shelf, Local, PathOf
    <3> QED BY <2>1, <3>1, <3>2 DEF Shelf, id
  <2>6. CASE plan[id] = "bake"
    <3>1. id \in Urls BY <2>3, <2>4, <2>6 DEF Decision
    <3>2. Applied(id) BY <1>1, <2>1, <2>6, <3>1, AtTheEnd
    <3>3. StorePath[id] \in baked /\ StorePath[id] \in DOMAIN store
      BY <2>1, <3>1, <3>2 DEF Fetching, TypeOK
    <3> DEFINE v == store[StorePath[id]].of
    <3>4. v \in Urls /\ StorePath[v] = StorePath[id] /\ plan[v] = "bake"
      BY <2>1, <3>3 DEF Shelf, Applied
    <3>5. v = id BY <1>1, <2>6, <3>1, <3>4, OneRowPerPath
    <3> QED BY <3>1, <3>3, <3>5 DEF PathOf, id
  <2> QED BY <2>3, <2>5, <2>6
<1>2. IInv => ReferencesLead BY <1>1 DEF ReferencesLead
<1> QED BY <1>2, Invariance, PTL

\* The manifest has one row for each stored file, and in a created page that row
\* names what the file holds (pipeline.go:179-205, upload.go:283-302).
THEOREM RowsAgree == Spec => []ManifestAgrees
<1>1. ASSUME IInv, pc = "done"
      PROVE  /\ {r.path : r \in {s \in manifest : s.status \in {"local", "baked"}}} = DOMAIN store
             /\ \A r \in manifest : r.status = "local" => r.path \notin baked
             /\ answer = "created" =>
                    \A r \in manifest : r.status \in {"local", "baked"} => store[r.path].of = r.source
  <2>1. Shelf /\ TypeOK /\ \A u \in Urls : Fetching(u) BY <1>1 DEF IInv
  <2>2. manifest = Manifest /\ \A u \in Urls : Applied(u) <=> plan[u] = "bake"
    BY <1>1, AtTheEnd
  <2>3. \A u \in kept : u \in Urls /\ plan[u] \in {"kept-cdn", "kept-external"}
    BY <2>1 DEF Fetching, TypeOK
  <2>4. ASSUME NEW r \in manifest
        PROVE  \/ /\ r.status = "local" /\ r.path \in DOMAIN store \ baked /\ r.source = r.path
               \/ \E u \in Urls : /\ r.status = "baked" /\ plan[u] = "bake"
                                  /\ r.path = StorePath[u] /\ r.source = u
               \/ r.status \notin {"local", "baked"}
    BY <2>2, <2>3 DEF Manifest, Row
  <2>5. \A u \in Urls : plan[u] = "bake" => StorePath[u] \in baked /\ StorePath[u] \in DOMAIN store
    BY <2>1, <2>2 DEF Fetching, TypeOK
  <2>6. ASSUME NEW p \in DOMAIN store
        PROVE  \E r \in manifest : r.status \in {"local", "baked"} /\ r.path = p
    <3>1. CASE p \in baked
      <4> DEFINE v == store[p].of
      <4>1. v \in Urls /\ StorePath[v] = p /\ plan[v] = "bake" BY <2>1, <2>6, <3>1 DEF Shelf, Applied
      <4>2. Row(p, v, "baked") \in manifest BY <2>2, <4>1 DEF Manifest
      <4> QED BY <4>2 DEF Row
    <3>2. CASE p \notin baked
      <4>1. Row(p, p, "local") \in manifest BY <2>2, <2>6, <3>2 DEF Manifest
      <4> QED BY <4>1 DEF Row
    <3> QED BY <3>1, <3>2
  <2>7. {r.path : r \in {s \in manifest : s.status \in {"local", "baked"}}} = DOMAIN store
    <3>1. \A r \in manifest : r.status \in {"local", "baked"} => r.path \in DOMAIN store
      BY <2>4, <2>5
    <3> QED BY <2>6, <3>1
  <2>8. \A r \in manifest : r.status = "local" => r.path \notin baked BY <2>4
  <2>9. ASSUME answer = "created", NEW r \in manifest, r.status \in {"local", "baked"}
        PROVE  store[r.path].of = r.source
    <3>1. CASE /\ r.status = "local" /\ r.path \in DOMAIN store \ baked /\ r.source = r.path
      BY <2>1, <3>1 DEF Shelf
    <3>2. ASSUME NEW u \in Urls, plan[u] = "bake", r.path = StorePath[u], r.source = u
          PROVE  store[r.path].of = r.source
      <4> DEFINE v == store[StorePath[u]].of
      <4>1. v \in Urls /\ StorePath[v] = StorePath[u] /\ plan[v] = "bake"
        BY <2>1, <2>5, <3>2 DEF Shelf, Applied
      <4>2. v = u BY <1>1, <2>9, <3>2, <4>1, OneRowPerPath
      <4> QED BY <3>2, <4>2
    <3> QED BY <2>4, <2>9, <3>1, <3>2
  <2> QED BY <2>7, <2>8, <2>9
<1>2. IInv => ManifestAgrees BY <1>1 DEF ManifestAgrees
<1> QED BY <1>2, Invariance, PTL

\* An import is refused exactly when a scanned document of it names a reference
\* that could not be fetched (upload.go:256-275).
THEOREM ImportWhole == Spec => []ImportIsWhole
<1>1. ASSUME IInv, imported, pc = "done"
      PROVE  (answer # "incomplete") <=>
                 \A d \in {Entry} \cup ToSet(jobs) : \A id \in Scanned(d) : plan[id] # "kept-external"
  <2>1. Scanning /\ TypeOK /\ Decided /\ \A u \in Urls : Fetching(u) BY <1>1 DEF IInv
  <2>2. answer = Verdict(Manifest) BY <1>1, AtTheEnd
  <2>3. answer = "incomplete" <=> \E r \in Manifest : r.status = "kept-external"
    BY <1>1, <2>2 DEF Verdict
  <2>4. \A d \in {Entry} \cup ToSet(jobs) : Scanned(d) \subseteq Ids
    <3>1. ToSet(jobs) \subseteq Ids /\ Entry \in Ids
      BY <1>1, <2>1, Documents1 DEF Scanning, TypeOK
    <3> QED BY <1>1, <3>1, Documents1
  <2>5. ASSUME NEW r \in Manifest, r.status = "kept-external"
        PROVE  \E d \in {Entry} \cup ToSet(jobs) : \E id \in Scanned(d) : plan[id] = "kept-external"
    <3>1. PICK u \in kept : r = Row(u, u, plan[u])
      <4>1. \A p, s : Row(p, s, "local").status = "local" /\ Row(p, s, "baked").status = "baked"
        BY DEF Row
      <4> QED BY <2>5, <4>1 DEF Manifest
    <3>2. plan[u] = "kept-external" BY <2>5, <3>1 DEF Row
    <3>3. u \in Ids BY <1>1, <2>1, Documents1 DEF TypeOK
    <3> QED BY <2>1, <3>2, <3>3 DEF Scanning
  <2>6. ASSUME NEW d \in {Entry} \cup ToSet(jobs), NEW id \in Scanned(d), plan[id] = "kept-external"
        PROVE  \E r \in Manifest : r.status = "kept-external"
    <3>1. id \in Ids BY <2>4, <2>6
    <3>2. Decision(id) = "bake" BY <2>1, <2>6, <3>1 DEF Decided, Decision
    <3>3. id \in Urls BY <3>2 DEF Decision
    <3>4. id \in kept BY <2>1, <2>6, <3>3 DEF Fetching
    <3>5. Row(id, id, plan[id]) \in Manifest BY <3>4 DEF Manifest
    <3> QED BY <2>6, <3>5 DEF Row
  <2> QED BY <2>3, <2>5, <2>6
<1>2. IInv => ImportIsWhole BY <1>1 DEF ImportIsWhole
<1> QED BY <1>2, Invariance, PTL
=============================================================================
