-------------------------- MODULE HTMLCache_proofs --------------------------
(***************************************************************************)
(* The properties of HTMLCache for any set of pages, visitors and ETags,   *)
(* any lengths and budgets, and any interval and latency.                  *)
(* Dated says how long the page of a fresh entry may have been gone, and   *)
(* Handling what a handler knows of its page where it stands: what it      *)
(* holds was stored no longer ago than its request is old.                 *)
(***************************************************************************)
EXTENDS HTMLCache, FiniteSetTheorems, SequenceTheorems, WellFoundedInduction, TLAPS

Distinct(queue) == \A i, j \in 1..Len(queue) : queue[i] = queue[j] => i = j

Dated(s) ==
    /\ origin[s] # Absent => absentFor[s] = 0
    /\ Cached(s) => items[s].etag \in Tags
    /\ Cached(s) /\ ~Stale(s) => absentFor[s] <= items[s].age + MaxLatency

Handling(v) ==
    pc[v] # "idle" =>
    /\ want[v] \in Slugs
    /\ origin[want[v]] = Absent => missed[v]
    /\ pc[v] = "evict" => missed[v] \/ (driver = "s3compat" /\ v \in refused)
    /\ pc[v] \in {"stat", "touch", "put"} => tag[v] \in Tags
    /\ pc[v] \in {"touch", "put"} => absentFor[want[v]] <= took[v]

IInv ==
    /\ TypeOK /\ CacheAccounts /\ maxBytes \in Nat
    /\ \A s \in Slugs : Dated(s)
    /\ \A v \in Visitors : Handling(v)

-----------------------------------------------------------------------------
(* Lists without repetition and their bytes                                *)

LEMMA Concatenated ==
    ASSUME NEW X, NEW s \in Seq(X), NEW t \in Seq(X)
    PROVE  /\ s \o t \in Seq(X) /\ Len(s \o t) = Len(s) + Len(t)
           /\ \A i \in 1..Len(s) + Len(t) :
                 (s \o t)[i] = IF i <= Len(s) THEN s[i] ELSE t[i - Len(s)]
OBVIOUS

\* Taking an entry out of the list leaves the others.
LEMMA Without ==
    ASSUME NEW q \in Seq(Slugs), Distinct(q), NEW s \in Slugs
    PROVE  LET r == RemoveFirst(q, s) IN
           r \in Seq(Slugs) /\ Distinct(r) /\ ToSet(r) = ToSet(q) \ {s}
<1>1. CASE \E i \in 1..Len(q) : q[i] = s
  <2>1. PICK k \in 1..Len(q) : q[k] = s BY <1>1
  <2>2. {i \in 1..Len(q) : q[i] = s} = {k} BY <2>1 DEF Distinct
  <2>3. SelectInSeq(q, LAMBDA v : v = s) = k BY <2>2 DEF SelectInSeq, Min
  <2>4. RemoveFirst(q, s) = SubSeq(q, 1, k - 1) \o SubSeq(q, k + 1, Len(q))
    BY <1>1, <2>3 DEF RemoveFirst, RemoveAt
  <2> DEFINE r == SubSeq(q, 1, k - 1) \o SubSeq(q, k + 1, Len(q))
  <2>5. /\ r \in Seq(Slugs) /\ Len(r) = Len(q) - 1
        /\ \A i \in 1..Len(q) - 1 : r[i] = IF i < k THEN q[i] ELSE q[i + 1]
    <3> DEFINE a == SubSeq(q, 1, k - 1)
               b == SubSeq(q, k + 1, Len(q))
    <3>1. /\ a \in Seq(Slugs) /\ Len(a) = k - 1 /\ \A i \in 1..k - 1 : a[i] = q[i] OBVIOUS
    <3>2. /\ b \in Seq(Slugs) /\ Len(b) = Len(q) - k /\ \A i \in 1..Len(q) - k : b[i] = q[k + i]
      OBVIOUS
    <3> HIDE DEF a, b
    <3>3. /\ a \o b \in Seq(Slugs) /\ Len(a \o b) = Len(q) - 1
          /\ \A i \in 1..Len(q) - 1 : (a \o b)[i] = IF i < k THEN a[i] ELSE b[i - (k - 1)]
      <4>1. /\ a \o b \in Seq(Slugs) /\ Len(a \o b) = Len(a) + Len(b)
            /\ \A i \in 1..Len(a) + Len(b) :
                  (a \o b)[i] = IF i <= Len(a) THEN a[i] ELSE b[i - Len(a)]
        BY <3>1, <3>2, Concatenated
      <4>2. Len(a) + Len(b) = Len(q) - 1 /\ \A i \in 1..Len(q) - 1 : i <= Len(a) <=> i < k
        BY <3>1, <3>2
      <4> QED BY <3>1, <4>1, <4>2
    <3>4. \A i \in 1..Len(q) - 1 : /\ i < k => i \in 1..k - 1
                                   /\ i >= k => i - (k - 1) \in 1..Len(q) - k
                                   /\ k + (i - (k - 1)) = i + 1
      OBVIOUS
    <3>5. ASSUME NEW i \in 1..Len(q) - 1 PROVE (a \o b)[i] = IF i < k THEN q[i] ELSE q[i + 1]
      <4>1. CASE i < k BY <3>1, <3>3, <3>4, <4>1
      <4>2. CASE i >= k
        <5>1. ~(i < k) BY <4>2
        <5> QED BY <3>2, <3>3, <3>4, <4>2, <5>1
      <4>3. i < k \/ i >= k OBVIOUS
      <4> QED BY <4>1, <4>2, <4>3
    <3>6. r = a \o b BY DEF a, b, r
    <3> HIDE DEF r
    <3> QED BY <3>3, <3>5, <3>6
  <2> HIDE DEF r
  <2>6. Distinct(r) BY <2>5 DEF Distinct
  <2>7. ASSUME NEW x PROVE x \in ToSet(r) <=> x \in ToSet(q) \ {s}
    <3>1. x \in ToSet(r) <=> \E i \in 1..Len(q) - 1 : r[i] = x BY <2>5 DEF ToSet
    <3>2. x \in ToSet(q) <=> \E i \in 1..Len(q) : q[i] = x BY DEF ToSet
    <3>3. ASSUME NEW i \in 1..Len(q) - 1, r[i] = x PROVE x \in ToSet(q) /\ x # s
      BY <2>1, <2>5, <3>2, <3>3 DEF Distinct
    <3>4. ASSUME NEW i \in 1..Len(q), q[i] = x, x # s PROVE x \in ToSet(r)
      <4>1. i # k BY <2>1, <3>4
      <4>2. CASE i < k
        <5>1. i \in 1..Len(q) - 1 /\ r[i] = x BY <2>5, <3>4, <4>2
        <5> QED BY <3>1, <5>1
      <4>3. CASE i > k
        <5>1. i - 1 \in 1..Len(q) - 1 /\ r[i - 1] = x BY <2>5, <3>4, <4>3
        <5> QED BY <3>1, <5>1
      <4> QED BY <4>1, <4>2, <4>3
    <3> QED BY <3>1, <3>2, <3>3, <3>4
  <2> QED BY <2>4, <2>5, <2>6, <2>7 DEF r
<1>2. CASE ~\E i \in 1..Len(q) : q[i] = s
  <2>1. RemoveFirst(q, s) = q BY <1>2 DEF RemoveFirst
  <2>2. s \notin ToSet(q) BY <1>2 DEF ToSet
  <2> QED BY <2>1, <2>2
<1> QED BY <1>1, <1>2

LEMMA Fronted ==
    ASSUME NEW q \in Seq(Slugs), Distinct(q), NEW s \in Slugs, s \notin ToSet(q)
    PROVE  LET r == <<s>> \o q IN
           /\ r \in Seq(Slugs) /\ Distinct(r) /\ ToSet(r) = ToSet(q) \cup {s}
           /\ Len(r) = Len(q) + 1 /\ r[1] = s
<1> DEFINE r == <<s>> \o q
<1>1. /\ r \in Seq(Slugs) /\ Len(r) = Len(q) + 1 /\ r[1] = s
      /\ \A i \in 1..Len(q) : r[i + 1] = q[i]
      /\ \A i \in 2..Len(q) + 1 : r[i] = q[i - 1]
  OBVIOUS
<1> HIDE DEF r
<1>2. \A i \in 1..Len(q) : q[i] # s BY DEF ToSet
<1>3. Distinct(r)
  <2>1. SUFFICES ASSUME NEW i \in 1..Len(r), NEW j \in 1..Len(r), r[i] = r[j] PROVE i = j
    BY DEF Distinct
  <2>2. CASE i = 1 BY <1>1, <1>2, <2>1, <2>2
  <2>3. CASE j = 1 BY <1>1, <1>2, <2>1, <2>3
  <2>4. CASE i # 1 /\ j # 1
    <3>1. i - 1 \in 1..Len(q) /\ j - 1 \in 1..Len(q) /\ q[i - 1] = q[j - 1] BY <1>1, <2>1, <2>4
    <3> QED BY <2>1, <3>1 DEF Distinct
  <2> QED BY <2>2, <2>3, <2>4
<1>4. ToSet(r) = ToSet(q) \cup {s}
  <2>1. ToSet(r) = {r[i] : i \in 1..Len(q) + 1} /\ ToSet(q) = {q[i] : i \in 1..Len(q)}
    <3>1. DOMAIN r = 1..Len(q) + 1 /\ DOMAIN q = 1..Len(q) BY <1>1
    <3> QED BY <3>1 DEF ToSet
  <2>2. \A i \in 1..Len(q) : i + 1 \in 1..Len(q) + 1 OBVIOUS
  <2>3. \A i \in 1..Len(q) + 1 : i = 1 \/ (i \in 2..Len(q) + 1 /\ i - 1 \in 1..Len(q)) OBVIOUS
  <2>4. 1 \in 1..Len(q) + 1 OBVIOUS
  <2>5. ASSUME NEW i \in 1..Len(q) + 1 PROVE r[i] \in ToSet(q) \cup {s} BY <1>1, <2>1, <2>3
  <2>6. ASSUME NEW i \in 1..Len(q) PROVE q[i] \in ToSet(r) BY <1>1, <2>1, <2>2
  <2>7. s \in ToSet(r) BY <1>1, <2>1, <2>4
  <2> QED BY <2>1, <2>5, <2>6, <2>7
<1> QED BY <1>1, <1>3, <1>4 DEF r

\* A list is cut in two.
LEMMA Cut ==
    ASSUME NEW q \in Seq(Slugs), Distinct(q), NEW k \in 1..Len(q)
    PROVE  LET a == SubSeq(q, 1, k)
               b == SubSeq(q, k + 1, Len(q))
           IN  /\ a \in Seq(Slugs) /\ b \in Seq(Slugs) /\ Distinct(a) /\ q[1] \in ToSet(a)
               /\ ToSet(a) \cup ToSet(b) = ToSet(q) /\ ToSet(a) \cap ToSet(b) = {}
<1> DEFINE a == SubSeq(q, 1, k)
           b == SubSeq(q, k + 1, Len(q))
<1>1. /\ a \in Seq(Slugs) /\ Len(a) = k /\ \A i \in 1..k : a[i] = q[i]
      /\ b \in Seq(Slugs) /\ Len(b) = Len(q) - k /\ \A i \in 1..Len(q) - k : b[i] = q[k + i]
  <2>1. a \in Seq(Slugs) /\ Len(a) = k OBVIOUS
  <2>2. \A i \in 1..k : a[i] = q[i] OBVIOUS
  <2>3. b \in Seq(Slugs) OBVIOUS
  <2>4. Len(b) = Len(q) - k OBVIOUS
  <2>5. \A i \in 1..Len(q) - k : b[i] = q[k + i] OBVIOUS
  <2> QED BY <2>1, <2>2, <2>3, <2>4, <2>5
<1> HIDE DEF a, b
<1>2. Distinct(a)
  <2>1. Len(a) = k /\ \A i \in 1..k : a[i] = q[i] /\ i \in 1..Len(q) BY <1>1
  <2> QED BY <2>1 DEF Distinct
<1>3. DOMAIN q = 1..Len(q) /\ DOMAIN a = 1..k /\ DOMAIN b = 1..Len(q) - k BY <1>1
<1>4. ToSet(q) = {q[i] : i \in 1..Len(q)} BY <1>3 DEF ToSet
<1>5. ToSet(a) = {q[i] : i \in 1..k}
  <2>1. ToSet(a) = {a[i] : i \in 1..k} BY <1>3 DEF ToSet
  <2> QED BY <1>1, <2>1
<1>6. ToSet(b) = {q[k + i] : i \in 1..Len(q) - k}
  <2>1. ToSet(b) = {b[i] : i \in 1..Len(q) - k} BY <1>3 DEF ToSet
  <2>2. \A i \in 1..Len(q) - k : b[i] = q[k + i] BY <1>1
  <2> QED BY <2>1, <2>2
<1>7. /\ \A i \in 1..Len(q) : i \in 1..k \/ (i - k \in 1..Len(q) - k /\ i = k + (i - k))
      /\ \A i \in 1..Len(q) - k : k + i \in 1..Len(q) /\ k + i \notin 1..k
      /\ 1 \in 1..k /\ 1..k \subseteq 1..Len(q)
  OBVIOUS
<1>8. ToSet(a) \cup ToSet(b) = ToSet(q)
  <2>1. ToSet(a) \subseteq ToSet(q) /\ ToSet(b) \subseteq ToSet(q) BY <1>4, <1>5, <1>6, <1>7
  <2>2. ASSUME NEW i \in 1..Len(q) PROVE q[i] \in ToSet(a) \cup ToSet(b) BY <1>4, <1>5, <1>6, <1>7
  <2> QED BY <1>4, <1>5, <1>6, <2>1, <2>2
<1>9. ToSet(a) \cap ToSet(b) = {}
  <2>1. ASSUME NEW i \in 1..k, NEW j \in 1..Len(q) - k PROVE q[i] # q[k + j]
    BY <1>7 DEF Distinct
  <2> QED BY <1>4, <1>5, <1>6, <2>1
<1>10. q[1] \in ToSet(a) BY <1>4, <1>5, <1>6, <1>7
<1> QED BY <1>1, <1>2, <1>8, <1>9, <1>10 DEF a, b

\* The bytes of a page, and of a set of pages.
Extent(s) == 1..Size[s]
Load(S) == UNION {{s} \X Extent(s) : s \in S}
Weight(S) == Cardinality(Load(S))

LEMMA Extents ==
    ASSUME NEW s \in Slugs
    PROVE  IsFiniteSet(Extent(s)) /\ Cardinality(Extent(s)) = Size[s]
<1> DEFINE n == Size[s]
<1>1. n \in Nat BY SizeAssumption
<1>2. Extent(s) = 1..n BY DEF Extent
<1> HIDE DEF n
<1>3. IsFiniteSet(1..n) BY <1>1, FS_Interval
<1>4. Cardinality(1..n) = IF 1 > n THEN 0 ELSE n - 1 + 1 BY <1>1, FS_Interval
<1>5. Cardinality(1..n) = n BY <1>1, <1>4
<1>6. IsFiniteSet(Extent(s)) /\ Cardinality(Extent(s)) = n BY <1>2, <1>3, <1>5
<1> QED BY <1>6 DEF n

LEMMA LoadIsFinite ==
    ASSUME NEW S \in SUBSET Slugs, IsFiniteSet(S) PROVE IsFiniteSet(Load(S))
<1> DEFINE f == [s \in S |-> {s} \X Extent(s)]
           T == {{s} \X Extent(s) : s \in S}
<1>1. f \in Surjection(S, T) BY DEF Surjection
<1>2. IsFiniteSet(T) BY <1>1, FS_Surjection
<1>3. ASSUME NEW s \in S PROVE IsFiniteSet({s} \X Extent(s))
  <2>1. Size[s] \in Nat BY SizeAssumption
  <2>2. IsFiniteSet({s}) /\ IsFiniteSet(Extent(s))
    <3>1. IsFiniteSet({s}) BY FS_Singleton
    <3>2. IsFiniteSet(Extent(s)) BY Extents
    <3> QED BY <3>1, <3>2
  <2> DEFINE A == {s}
             B == Extent(s)
  <2> HIDE DEF A, B
  <2>3. IsFiniteSet(A \X B) BY <2>2, FS_Product DEF A, B
  <2> QED BY <2>3 DEF A, B
<1> HIDE DEF f
<1>4. \A X \in T : IsFiniteSet(X) BY <1>3
<1> HIDE DEF T
<1>5. IsFiniteSet(UNION T) BY <1>2, <1>4, FS_UNION
<1> QED BY <1>5 DEF T, Load

LEMMA Weighing ==
    /\ Weight({}) = 0
    /\ \A s \in Slugs : Weight({s}) = Size[s]
    /\ \A S, T \in SUBSET Slugs : IsFiniteSet(S) /\ IsFiniteSet(T) /\ S \cap T = {} =>
          Weight(S \cup T) = Weight(S) + Weight(T) /\ Weight(S) \in Nat /\ Weight(T) \in Nat
<1>1. Weight({}) = 0
  <2>1. Load({}) = {} BY DEF Load
  <2> QED BY <2>1, FS_EmptySet DEF Weight
<1>2. ASSUME NEW s \in Slugs PROVE Weight({s}) = Size[s]
  <2>1. Size[s] \in Nat BY SizeAssumption
  <2>2. IsFiniteSet({s}) /\ Cardinality({s}) = 1 BY FS_Singleton
  <2>3. IsFiniteSet(Extent(s)) /\ Cardinality(Extent(s)) = Size[s] BY Extents
  <2> DEFINE A == {s}
             B == Extent(s)
             C == A \X B
  <2>4. Load({s}) = C BY DEF Load
  <2>5. IsFiniteSet(A) /\ Cardinality(A) = 1 /\ IsFiniteSet(B) /\ Cardinality(B) = Size[s]
    BY <2>2, <2>3
  <2> HIDE DEF A, B
  <2>6. Cardinality(C) = Cardinality(A) * Cardinality(B) BY <2>5, FS_Product
  <2> HIDE DEF C
  <2> QED BY <2>1, <2>4, <2>5, <2>6 DEF Weight
<1>3. ASSUME NEW S \in SUBSET Slugs, NEW T \in SUBSET Slugs,
             IsFiniteSet(S), IsFiniteSet(T), S \cap T = {}
      PROVE  /\ Weight(S \cup T) = Weight(S) + Weight(T)
             /\ Weight(S) \in Nat /\ Weight(T) \in Nat
  <2>1. IsFiniteSet(Load(S)) /\ IsFiniteSet(Load(T)) BY <1>3, LoadIsFinite
  <2>2. Load(S \cup T) = Load(S) \cup Load(T) BY DEF Load
  <2>3. Load(S) \cap Load(T) = {}
    <3>1. \A x \in Load(S) : x[1] \in S BY DEF Load
    <3>2. \A x \in Load(T) : x[1] \in T BY DEF Load
    <3> QED BY <1>3, <3>1, <3>2
  <2>4. Weight(S) \in Nat /\ Weight(T) \in Nat BY <2>1, FS_CardinalityType DEF Weight
  <2>5. Cardinality(Load(S) \cup Load(T)) = Weight(S) + Weight(T) - Cardinality(Load(S) \cap Load(T))
    BY <2>1, FS_Union DEF Weight
  <2>6. Cardinality(Load(S) \cap Load(T)) = 0 BY <2>3, FS_EmptySet
  <2>7. Weight(S \cup T) = Cardinality(Load(S) \cup Load(T)) BY <2>2, Zenon DEF Weight
  <2>8. Weight(S \cup T) = Weight(S) + Weight(T) - 0 BY <2>5, <2>6, <2>7, Zenon
  <2> QED BY <2>4, <2>8
<1> QED BY <1>1, <1>2, <1>3

LEMMA ListBytes ==
    ASSUME NEW q \in Seq(Slugs)
    PROVE  Bytes(q) = Weight(ToSet(q)) /\ IsFiniteSet(ToSet(q)) /\ ToSet(q) \in SUBSET Slugs
           /\ Bytes(q) \in Nat
<1>1. ToSet(q) \in SUBSET Slugs BY DEF ToSet
<1>2. q \in Surjection(1..Len(q), ToSet(q)) BY DEF Surjection, ToSet
<1>3. IsFiniteSet(1..Len(q)) BY FS_Interval
<1>4. IsFiniteSet(ToSet(q)) BY <1>2, <1>3, FS_Surjection
<1>5. Bytes(q) = Weight(ToSet(q)) BY DEF Bytes, Weight, Load, Extent
<1>6. Weight(ToSet(q)) \in Nat BY <1>1, <1>4, LoadIsFinite, FS_CardinalityType DEF Weight
<1> QED BY <1>1, <1>4, <1>5, <1>6
-----------------------------------------------------------------------------
(* Steps of a handler                                                      *)

HandlerTypes ==
    /\ pc \in [Visitors -> Places] /\ want \in [Visitors -> Slugs \cup {Absent}]
    /\ tag \in [Visitors -> Tags \cup {Absent}] /\ took \in [Visitors -> 0..MaxLatency]
    /\ answer \in [Visitors -> Answers] /\ missed \in [Visitors -> BOOLEAN]

CacheTypes ==
    /\ items \in [Slugs -> [etag : Tags \cup {Absent}, age : 0..(TTL + 1)]]
    /\ ll \in Seq(Slugs) /\ curBytes \in Nat

\* The handlers of the other visitors are where they were.
OthersStay(v) ==
    \A w \in Visitors \ {v} : /\ pc'[w] = pc[w] /\ want'[w] = want[w] /\ tag'[w] = tag[w]
                              /\ took'[w] = took[w] /\ missed'[w] = missed[w]

\* Neither are the pages touched, nor what is on record of the other visitors.
PagesStay(v) ==
    /\ UNCHANGED <<driver, maxBytes, origin, absentFor>>
    /\ refused' \subseteq Visitors
    /\ \A w \in Visitors \ {v} : w \in refused' <=> w \in refused

LEMMA Quiet ==
    ASSUME IInv, NEW v \in Visitors, UNCHANGED storage PROVE PagesStay(v)
BY DEF IInv, TypeOK, storage, PagesStay

LEMMA Answering ==
    ASSUME IInv, NEW v \in Visitors, NEW result \in Answers, Answer(v, result)
    PROVE  HandlerTypes' /\ OthersStay(v) /\ pc'[v] = "idle"
<1>1. HandlerTypes BY DEF IInv, TypeOK, HandlerTypes
<1>2. /\ pc' = [pc EXCEPT ![v] = "idle"] /\ want' = [want EXCEPT ![v] = Absent]
      /\ tag' = [tag EXCEPT ![v] = Absent] /\ took' = [took EXCEPT ![v] = 0]
      /\ answer' = [answer EXCEPT ![v] = result] /\ missed' = [missed EXCEPT ![v] = FALSE]
  BY DEF Answer, Go
<1>3. 0 \in 0..MaxLatency /\ "idle" \in Places BY TimeAssumption DEF Places
<1> QED BY <1>1, <1>2, <1>3 DEF HandlerTypes, OthersStay

LEMMA Proceeding ==
    ASSUME IInv, NEW v \in Visitors, NEW place \in Places, NEW etag \in Tags \cup {Absent},
           Proceed(v, place, etag)
    PROVE  /\ HandlerTypes' /\ OthersStay(v) /\ pc'[v] = place /\ tag'[v] = etag
           /\ want' = want /\ took' = took /\ missed' = missed
<1>1. HandlerTypes BY DEF IInv, TypeOK, HandlerTypes
<1>2. /\ pc' = [pc EXCEPT ![v] = place] /\ tag' = [tag EXCEPT ![v] = etag]
      /\ UNCHANGED <<want, took, answer, missed>>
  BY DEF Proceed, Go, outcome
<1> QED BY <1>1, <1>2 DEF HandlerTypes, OthersStay

\* A visitor's step does not change what the others know of their pages.
LEMMA HandlersStay ==
    ASSUME IInv, NEW v \in Visitors, OthersStay(v), PagesStay(v), Handling(v)'
    PROVE  \A w \in Visitors : Handling(w)'
<1>1. \A w \in Visitors : Handling(w) BY DEF IInv
<1>2. ASSUME NEW w \in Visitors \ {v} PROVE Handling(w)'
  BY <1>1 DEF Handling, OthersStay, PagesStay
<1> QED BY <1>2

\* The list after an entry has moved to its front.
LEMMA Moving ==
    ASSUME IInv, NEW s \in Slugs, Cached(s)
    PROVE  LET r == MoveToFront(s) IN
           r \in Seq(Slugs) /\ Distinct(r) /\ ToSet(r) = ToSet(ll) /\ Bytes(r) = Bytes(ll)
<1> DEFINE q == RemoveFirst(ll, s)
           r == <<s>> \o q
<1>1. ll \in Seq(Slugs) /\ Distinct(ll) /\ s \in ToSet(ll)
  BY DEF IInv, TypeOK, CacheAccounts, Distinct
<1>2. q \in Seq(Slugs) /\ Distinct(q) /\ ToSet(q) = ToSet(ll) \ {s} BY <1>1, Without
<1> HIDE DEF q
<1>3. r \in Seq(Slugs) /\ Distinct(r) /\ ToSet(r) = ToSet(q) \cup {s} BY <1>2, Fronted
<1> HIDE DEF r
<1>4. ToSet(r) = ToSet(ll) BY <1>1, <1>2, <1>3
<1>5. Bytes(r) = Weight(ToSet(r)) /\ Bytes(ll) = Weight(ToSet(ll)) BY <1>1, <1>3, ListBytes
<1>6. Bytes(r) = Bytes(ll) BY <1>4, <1>5, Zenon
<1> QED BY <1>3, <1>4, <1>6 DEF r, q, MoveToFront

\* A cache in which the same pages are listed, in another order perhaps.
LEMMA SameContents ==
    ASSUME IInv, ll' \in Seq(Slugs), Distinct(ll'), ToSet(ll') = ToSet(ll),
           Bytes(ll') = Bytes(ll), curBytes' = curBytes, maxBytes' = maxBytes,
           \A s \in Slugs : Cached(s)' <=> Cached(s)
    PROVE  CacheAccounts'
<1>1. CacheAccounts BY DEF IInv
<1>2. {s \in Slugs : Cached(s)}' = {s \in Slugs : Cached(s)} OBVIOUS
<1>3. ToSet(ll') = {s \in Slugs : Cached(s)}' BY <1>1, <1>2 DEF CacheAccounts
<1>4. Bytes(ll)' = Bytes(ll') BY DEF Bytes
<1> QED BY <1>1, <1>3, <1>4 DEF CacheAccounts, Distinct

\* Steps that leave the cache and the pages alone.
LEMMA CacheStays ==
    ASSUME IInv, UNCHANGED <<maxBytes, origin, absentFor, cache>>
    PROVE  CacheTypes' /\ CacheAccounts' /\ \A s \in Slugs : Dated(s)'
<1>1. TypeOK /\ CacheAccounts /\ \A s \in Slugs : Dated(s) BY DEF IInv
<1>2. UNCHANGED <<maxBytes, origin, absentFor, items, ll, curBytes>> BY DEF cache
<1>3. CacheTypes' BY <1>1, <1>2 DEF TypeOK, CacheTypes
<1>4. CacheAccounts' BY <1>1, <1>2 DEF CacheAccounts, Cached, Bytes
<1>5. \A s \in Slugs : Dated(s)' BY <1>1, <1>2 DEF Dated, Cached, Stale
<1> QED BY <1>3, <1>4, <1>5

\* What a step of a visitor has to keep.
LEMMA Together ==
    ASSUME IInv, NEW v \in Visitors, PagesStay(v), HandlerTypes', CacheTypes',
           CacheAccounts', \A s \in Slugs : Dated(s)', OthersStay(v), Handling(v)'
    PROVE  IInv'
<1>1. TypeOK' BY DEF IInv, TypeOK, HandlerTypes, CacheTypes, PagesStay
<1>2. \A w \in Visitors : Handling(w)' BY HandlersStay
<1>3. maxBytes' \in Nat BY DEF IInv, PagesStay
<1> QED BY <1>1, <1>2, <1>3 DEF IInv

LEMMA RequestKeeps == ASSUME IInv, NEW v \in Visitors, NEW s \in Slugs, Request(v, s) PROVE IInv'
<1>1. HandlerTypes BY DEF IInv, TypeOK, HandlerTypes
<1>2. /\ pc' = [pc EXCEPT ![v] = "lookup"] /\ want' = [want EXCEPT ![v] = s]
      /\ answer' = [answer EXCEPT ![v] = "none"]
      /\ missed' = [missed EXCEPT ![v] = origin[s] = Absent]
      /\ UNCHANGED <<driver, maxBytes, origin, absentFor, cache, tag, took>>
      /\ refused' = refused \ {v}
  BY DEF Request, Go
<1>3. HandlerTypes' /\ OthersStay(v)
  <2>1. "lookup" \in Places /\ "none" \in Answers BY DEF Places, Answers
  <2> QED BY <1>1, <1>2, <2>1 DEF HandlerTypes, OthersStay
<1>4. Handling(v)'
  <2>1. pc'[v] = "lookup" /\ want'[v] = s /\ (missed'[v] <=> origin[s] = Absent)
    BY <1>1, <1>2 DEF HandlerTypes
  <2> QED BY <1>2, <2>1 DEF Handling
<1>5. CacheTypes' /\ CacheAccounts' /\ \A t \in Slugs : Dated(t)' BY <1>2, CacheStays
<1>6. PagesStay(v)
  <2>1. refused \subseteq Visitors BY DEF IInv, TypeOK
  <2> QED BY <1>2, <2>1 DEF PagesStay
<1> QED BY <1>3, <1>4, <1>5, <1>6, Together

LEMMA LookupKeeps == ASSUME IInv, NEW v \in Visitors, Lookup(v) PROVE IInv'
<1> DEFINE s == want[v]
<1>1. /\ pc[v] = "lookup" /\ UNCHANGED <<storage, items, curBytes>>
      /\ ll' = IF Cached(s) THEN MoveToFront(s) ELSE ll
      /\ \/ Cached(s) /\ ~Stale(s) /\ Answer(v, "ok")
         \/ Cached(s) /\ Stale(s) /\ Proceed(v, "stat", items[s].etag)
         \/ ~Cached(s) /\ Proceed(v, "get", Absent)
  BY DEF Lookup
<1>2. s \in Slugs /\ Handling(v) /\ Dated(s) BY <1>1 DEF IInv, Handling
<1> HIDE DEF s
<1>3. ll' \in Seq(Slugs) /\ Distinct(ll') /\ ToSet(ll') = ToSet(ll) /\ Bytes(ll') = Bytes(ll)
  <2>1. CASE Cached(s) BY <1>1, <1>2, <2>1, Moving
  <2>2. CASE ~Cached(s) BY <1>1, <2>2 DEF IInv, TypeOK, CacheAccounts, Distinct
  <2> QED BY <2>1, <2>2
<1>4. \A t \in Slugs : Cached(t)' <=> Cached(t) BY <1>1 DEF Cached
<1>5. CacheAccounts' BY <1>1, <1>3, <1>4, SameContents DEF storage
<1>6. CacheTypes' BY <1>1, <1>3 DEF IInv, TypeOK, CacheTypes
<1>7. \A t \in Slugs : Dated(t)' BY <1>1 DEF IInv, Dated, Cached, Stale, storage
<1>8. HandlerTypes' /\ OthersStay(v) /\ Handling(v)'
  <2>1. CASE Answer(v, "ok")
    <3>1. HandlerTypes' /\ OthersStay(v) /\ pc'[v] = "idle" BY <2>1, Answering DEF Answers
    <3> QED BY <3>1 DEF Handling
  <2>2. CASE Cached(s) /\ Proceed(v, "stat", items[s].etag)
    <3>1. items[s].etag \in Tags BY <1>2, <2>2 DEF Dated
    <3>2. /\ HandlerTypes' /\ OthersStay(v) /\ pc'[v] = "stat" /\ tag'[v] = items[s].etag
          /\ want' = want /\ took' = took /\ missed' = missed
      BY <2>2, <3>1, Proceeding DEF Places
    <3> QED BY <1>1, <1>2, <3>1, <3>2 DEF Handling, storage
  <2>3. CASE Proceed(v, "get", Absent)
    <3>1. /\ HandlerTypes' /\ OthersStay(v) /\ pc'[v] = "get"
          /\ want' = want /\ took' = took /\ missed' = missed
      BY <2>3, Proceeding DEF Places
    <3> QED BY <1>1, <1>2, <3>1 DEF Handling, storage
  <2> QED BY <1>1, <2>1, <2>2, <2>3
<1>9. PagesStay(v) BY <1>1, Quiet
<1> QED BY <1>5, <1>6, <1>7, <1>8, <1>9, Together

\* Stat, Get and their failures: the cache is left alone.
LEMMA AskingKeeps ==
    ASSUME IInv, NEW v \in Visitors, Stat(v) \/ Get(v) \/ StorageError(v) PROVE IInv'
<1>1. /\ pc[v] \in {"stat", "get"} /\ UNCHANGED <<storage, cache>>
      /\ \/ origin[want[v]] = Absent /\ Proceed(v, "evict", Absent)
         \/ pc[v] = "stat" /\ origin[want[v]] = tag[v] /\ Proceed(v, "touch", tag[v])
         \/ Proceed(v, "get", Absent)
         \/ \E result \in {"notFound", "error"} : Answer(v, result)
         \/ origin[want[v]] # Absent /\ Proceed(v, "put", origin[want[v]])
  BY DEF Stat, Get, StorageError
<1>2. Handling(v) /\ want[v] \in Slugs /\ Dated(want[v]) /\ HandlerTypes
      /\ origin \in [Slugs -> Tags \cup {Absent}] /\ origin' = origin /\ absentFor' = absentFor
  BY <1>1 DEF IInv, Handling, TypeOK, HandlerTypes, storage
<1>3. HandlerTypes' /\ OthersStay(v) /\ Handling(v)'
  <2>1. CASE \E result \in {"notFound", "error"} : Answer(v, result)
    <3>1. HandlerTypes' /\ OthersStay(v) /\ pc'[v] = "idle" BY <2>1, Answering DEF Answers
    <3> QED BY <3>1 DEF Handling
  <2>2. CASE origin[want[v]] = Absent /\ Proceed(v, "evict", Absent)
    <3>1. /\ HandlerTypes' /\ OthersStay(v) /\ pc'[v] = "evict"
          /\ want' = want /\ took' = took /\ missed' = missed
      BY <2>2, Proceeding DEF Places
    <3> QED BY <1>1, <1>2, <2>2, <3>1 DEF Handling
  <2>3. CASE pc[v] = "stat" /\ origin[want[v]] = tag[v] /\ Proceed(v, "touch", tag[v])
    <3>1. tag[v] \in Tags BY <1>2, <2>3 DEF Handling
    <3>2. /\ HandlerTypes' /\ OthersStay(v) /\ pc'[v] = "touch" /\ tag'[v] = tag[v]
          /\ want' = want /\ took' = took /\ missed' = missed
      BY <2>3, <3>1, Proceeding DEF Places
    <3>3. absentFor[want[v]] = 0 BY <1>2, <2>3, <3>1, TagAssumption DEF Dated
    <3>4. absentFor[want[v]] <= took[v] BY <1>2, <3>3 DEF HandlerTypes
    <3> QED BY <1>1, <1>2, <3>1, <3>2, <3>4 DEF Handling
  <2>4. CASE Proceed(v, "get", Absent)
    <3>1. /\ HandlerTypes' /\ OthersStay(v) /\ pc'[v] = "get"
          /\ want' = want /\ took' = took /\ missed' = missed
      BY <2>4, Proceeding DEF Places
    <3> QED BY <1>1, <1>2, <3>1 DEF Handling
  <2>5. CASE origin[want[v]] # Absent /\ Proceed(v, "put", origin[want[v]])
    <3>1. origin[want[v]] \in Tags BY <1>2, <2>5
    <3>2. /\ HandlerTypes' /\ OthersStay(v) /\ pc'[v] = "put" /\ tag'[v] = origin[want[v]]
          /\ want' = want /\ took' = took /\ missed' = missed
      BY <2>5, <3>1, Proceeding DEF Places
    <3>3. absentFor[want[v]] <= took[v] BY <1>2, <2>5 DEF Dated, HandlerTypes
    <3> QED BY <1>1, <1>2, <2>5, <3>1, <3>2, <3>3 DEF Handling
  <2> QED BY <1>1, <2>1, <2>2, <2>3, <2>4, <2>5
<1>4. CacheTypes' /\ CacheAccounts' /\ \A s \in Slugs : Dated(s)' BY <1>1, CacheStays DEF storage
<1>5. PagesStay(v) BY <1>1, Quiet
<1> QED BY <1>3, <1>4, <1>5, Together

\* A refusal is on record before it becomes an answer.
LEMMA RefuseKeeps == ASSUME IInv, NEW v \in Visitors, Refuse(v) PROVE IInv'
<1>1. /\ driver = "s3compat" /\ refused' = refused \cup {v}
      /\ UNCHANGED <<driver, maxBytes, origin, absentFor, cache>>
      /\ \/ pc[v] = "stat" /\ Proceed(v, "evict", Absent)
         \/ pc[v] = "get" /\ Answer(v, "notFound")
  BY DEF Refuse
<1>2. PagesStay(v)
  <2>1. refused \subseteq Visitors BY DEF IInv, TypeOK
  <2> QED BY <1>1, <2>1 DEF PagesStay
<1>3. HandlerTypes' /\ OthersStay(v) /\ Handling(v)'
  <2>1. CASE Answer(v, "notFound")
    <3>1. HandlerTypes' /\ OthersStay(v) /\ pc'[v] = "idle" BY <2>1, Answering DEF Answers
    <3> QED BY <3>1 DEF Handling
  <2>2. CASE pc[v] = "stat" /\ Proceed(v, "evict", Absent)
    <3>1. /\ HandlerTypes' /\ OthersStay(v) /\ pc'[v] = "evict"
          /\ want' = want /\ took' = took /\ missed' = missed
      BY <2>2, Proceeding DEF Places
    <3>2. Handling(v) BY DEF IInv
    <3> QED BY <1>1, <2>2, <3>1, <3>2 DEF Handling
  <2> QED BY <1>1, <2>1, <2>2
<1>4. CacheTypes' /\ CacheAccounts' /\ \A s \in Slugs : Dated(s)' BY <1>1, CacheStays
<1> QED BY <1>2, <1>3, <1>4, Together

\* Answering is the last step of a handler, whatever happens to the cache.
LEMMA Ending ==
    ASSUME IInv, NEW v \in Visitors, NEW result \in Answers, Answer(v, result), UNCHANGED storage,
           CacheTypes', CacheAccounts', \A s \in Slugs : Dated(s)'
    PROVE  IInv'
<1>1. HandlerTypes' /\ OthersStay(v) /\ pc'[v] = "idle" BY Answering
<1>2. Handling(v)' BY <1>1 DEF Handling
<1>3. PagesStay(v) BY Quiet
<1> QED BY <1>1, <1>2, <1>3, Together

LEMMA TouchKeeps == ASSUME IInv, NEW v \in Visitors, Touch(v) PROVE IInv'
<1>0. PICK s \in Slugs : s = want[v] BY DEF IInv, Handling, Touch
<1>1. /\ pc[v] = "touch" /\ items' = [items EXCEPT ![s].age = 0] /\ Answer(v, "ok")
      /\ UNCHANGED <<storage, ll, curBytes>>
  BY <1>0 DEF Touch
<1>2. s \in Slugs /\ absentFor[s] <= took[v] /\ took[v] \in 0..MaxLatency
  BY <1>0, <1>1 DEF IInv, Handling, TypeOK
<1>3. items \in [Slugs -> [etag : Tags \cup {Absent}, age : 0..(TTL + 1)]]
      /\ absentFor \in [Slugs -> 0..Horizon]
  BY DEF IInv, TypeOK
<1>4. /\ items'[s].etag = items[s].etag /\ items'[s].age = 0
      /\ items'[s] \in [etag : Tags \cup {Absent}, age : 0..(TTL + 1)]
      /\ \A t \in Slugs : t # s => items'[t] = items[t]
      /\ items' \in [Slugs -> [etag : Tags \cup {Absent}, age : 0..(TTL + 1)]]
  BY <1>1, <1>2, <1>3, TimeAssumption
<1>5. Cached(s)' <=> Cached(s)
  <2>1. Cached(s) => items[s].etag # Absent
    BY <1>2, TagAssumption DEF IInv, Dated
  <2>2. ~Cached(s) => items'[s] = NoEntry
    <3>1. ASSUME ~Cached(s) PROVE items'[s] = NoEntry
      <4>1. items[s] = [etag |-> Absent, age |-> 0] BY <3>1 DEF Cached, NoEntry
      <4>2. items'[s].etag = Absent BY <1>4, <4>1
      <4> QED BY <1>4, <4>2 DEF NoEntry
    <3> QED BY <3>1
  <2>3. items'[s] = NoEntry => items'[s].etag = Absent BY DEF NoEntry
  <2> QED BY <1>4, <2>1, <2>2, <2>3 DEF Cached
<1>6. \A t \in Slugs : Cached(t)' <=> Cached(t) BY <1>4, <1>5 DEF Cached
<1>7. CacheTypes' BY <1>1, <1>4 DEF IInv, TypeOK, CacheTypes
<1>8. CacheAccounts' BY <1>1, <1>6, SameContents DEF storage, IInv, TypeOK, CacheAccounts, Distinct
<1>9. \A t \in Slugs : Dated(t)'
  <2>1. Dated(s)'
    <3>1. absentFor'[s] <= 0 + MaxLatency BY <1>1, <1>2, <1>3, TimeAssumption DEF storage, Horizon
    <3> QED BY <1>1, <1>2, <1>4, <1>5, <3>1 DEF IInv, Dated, storage
  <2>2. ASSUME NEW t \in Slugs, t # s PROVE Dated(t)'
    BY <1>1, <1>4, <1>6, <2>2 DEF IInv, Dated, Stale, storage
  <2> QED BY <2>1, <2>2
<1> QED BY <1>1, <1>7, <1>8, <1>9, Ending DEF Answers

LEMMA EvictKeeps == ASSUME IInv, NEW v \in Visitors, Evict(v) PROVE IInv'
<1> DEFINE s == want[v]
           q == RemoveFirst(ll, s)
<1>1. /\ pc[v] = "evict" /\ items' = [items EXCEPT ![s] = NoEntry] /\ ll' = q
      /\ curBytes' = (IF Cached(s) THEN curBytes - Size[s] ELSE curBytes)
      /\ Answer(v, "notFound") /\ UNCHANGED storage
  BY DEF Evict
<1>2. s \in Slugs BY <1>1 DEF IInv, Handling
<1> HIDE DEF s
<1>3. items \in [Slugs -> [etag : Tags \cup {Absent}, age : 0..(TTL + 1)]] /\ ll \in Seq(Slugs)
      /\ Distinct(ll) /\ ToSet(ll) = {t \in Slugs : Cached(t)} /\ curBytes = Bytes(ll)
      /\ curBytes <= maxBytes /\ maxBytes \in Nat
  BY DEF IInv, TypeOK, CacheAccounts, Distinct
<1>4. items'[s] = NoEntry /\ (\A t \in Slugs : t # s => items'[t] = items[t])
      /\ items' \in [Slugs -> [etag : Tags \cup {Absent}, age : 0..(TTL + 1)]]
  <2>1. NoEntry \in [etag : Tags \cup {Absent}, age : 0..(TTL + 1)]
    BY TimeAssumption DEF NoEntry
  <2> QED BY <1>1, <1>2, <1>3, <2>1
<1>5. q \in Seq(Slugs) /\ Distinct(q) /\ ToSet(q) = ToSet(ll) \ {s} BY <1>2, <1>3, Without
<1> HIDE DEF q
<1>6. ToSet(q) = {t \in Slugs : Cached(t)}' BY <1>2, <1>3, <1>4, <1>5 DEF Cached
<1>7. curBytes' = Bytes(q) /\ Bytes(q) \in Nat /\ Bytes(q) <= maxBytes
  <2>1. /\ Bytes(q) = Weight(ToSet(q)) /\ Bytes(ll) = Weight(ToSet(ll)) /\ IsFiniteSet(ToSet(q))
        /\ ToSet(q) \in SUBSET Slugs /\ Bytes(q) \in Nat /\ Bytes(ll) \in Nat
    BY <1>3, <1>5, ListBytes
  <2>2. CASE Cached(s)
    <3>1. ToSet(ll) = ToSet(q) \cup {s} /\ ToSet(q) \cap {s} = {} BY <1>2, <1>3, <1>5, <2>2
    <3>2. IsFiniteSet({s}) /\ {s} \in SUBSET Slugs BY <1>2, FS_Singleton
    <3>3. Weight(ToSet(q) \cup {s}) = Weight(ToSet(q)) + Weight({s}) BY <2>1, <3>1, <3>2, Weighing
    <3>4. Weight({s}) = Size[s] /\ Size[s] \in Nat BY <1>2, Weighing, SizeAssumption
    <3>5. Weight(ToSet(ll)) = Weight(ToSet(q)) + Weight({s}) BY <3>1, <3>3, Zenon
    <3> QED BY <1>1, <1>3, <2>1, <2>2, <3>4, <3>5
  <2>3. CASE ~Cached(s)
    <3>1. ToSet(ll) = ToSet(q) BY <1>3, <1>5, <2>3
    <3>2. Weight(ToSet(ll)) = Weight(ToSet(q)) BY <3>1, Zenon
    <3> QED BY <1>1, <1>3, <2>1, <2>3, <3>2
  <2> QED BY <2>2, <2>3
<1>8. CacheAccounts'
  <2>1. Bytes(ll)' = Bytes(q) BY <1>1 DEF Bytes
  <2> QED BY <1>1, <1>5, <1>6, <1>7, <2>1 DEF CacheAccounts, Distinct, storage
<1>9. CacheTypes' BY <1>1, <1>4, <1>5, <1>7 DEF CacheTypes
<1>10. \A t \in Slugs : Dated(t)' BY <1>1, <1>4 DEF IInv, Dated, Cached, Stale, storage
<1> QED BY <1>1, <1>8, <1>9, <1>10, Ending DEF Answers

\* A finite set of naturals has a greatest element.
LEMMA Greatest ==
    ASSUME NEW n \in Nat, NEW S \in SUBSET (1..n), S # {}
    PROVE  Max(S) \in S /\ \A m \in S : Max(S) >= m
<1> DEFINE T == {n - m : m \in S}
<1>1. T \subseteq Nat /\ T # {}
  <2>1. \A m \in S : n - m \in Nat OBVIOUS
  <2>2. PICK m \in S : TRUE OBVIOUS
  <2>3. n - m \in T OBVIOUS
  <2> QED BY <2>1, <2>3
<1>2. PICK x \in T : \A y \in T : ~(<<y, x>> \in OpToRel(<, Nat))
  BY <1>1, NatLessThanWellFounded, WFMin
<1>3. \A y \in T : ~(y < x) BY <1>1, <1>2 DEF OpToRel
<1>4. PICK m \in S : x = n - m OBVIOUS
<1>5. ASSUME NEW k \in S PROVE m >= k BY <1>3, <1>4
<1> QED BY <1>4, <1>5 DEF Max

\* put's loop keeps a front part of the list that fits the budget.
LEMMA Keeping ==
    ASSUME NEW q \in Seq(Slugs), Distinct(q), Len(q) > 0, Size[q[1]] <= maxBytes, maxBytes \in Nat
    PROVE  LET k == Keeps(q, Bytes(q))
               a == SubSeq(q, 1, k)
               b == SubSeq(q, k + 1, Len(q))
           IN  k \in 1..Len(q) /\ Bytes(q) - Bytes(b) = Bytes(a) /\ Bytes(a) <= maxBytes
<1> DEFINE fits(n) == Bytes(q) - Bytes(SubSeq(q, n + 1, Len(q))) <= maxBytes
           S == {1} \cup {n \in 1..Len(q) : fits(n)}
           k == Keeps(q, Bytes(q))
           a == SubSeq(q, 1, k)
           b == SubSeq(q, k + 1, Len(q))
<1>1. k = Max(S) BY DEF Keeps
<1>2. Len(q) \in Nat /\ S \in SUBSET (1..Len(q)) /\ S # {} OBVIOUS
<1> HIDE DEF S
<1>3. k \in S BY <1>1, <1>2, Greatest
<1>4. k \in 1..Len(q) /\ (k = 1 \/ fits(k)) BY <1>2, <1>3 DEF S
<1> HIDE DEF k
<1>5. /\ a \in Seq(Slugs) /\ b \in Seq(Slugs) /\ Distinct(a)
      /\ ToSet(a) \cup ToSet(b) = ToSet(q) /\ ToSet(a) \cap ToSet(b) = {}
  BY <1>4, Cut
<1>6. k = 1 => ToSet(a) = {q[1]}
  <2>1. ASSUME k = 1 PROVE ToSet(a) = {q[1]}
    <3>1. a \in Seq(Slugs) /\ Len(a) = 1 /\ a[1] = q[1] BY <2>1
    <3> HIDE DEF a
    <3>2. DOMAIN a = {1} BY <3>1
    <3> QED BY <3>1, <3>2 DEF ToSet
  <2> QED BY <2>1
<1>7. fits(k) => Bytes(q) - Bytes(b) <= maxBytes OBVIOUS
<1> HIDE DEF a, b, fits
<1>8. /\ Bytes(q) = Weight(ToSet(q)) /\ Bytes(a) = Weight(ToSet(a)) /\ Bytes(b) = Weight(ToSet(b))
      /\ IsFiniteSet(ToSet(a)) /\ IsFiniteSet(ToSet(b)) /\ ToSet(a) \in SUBSET Slugs
      /\ ToSet(b) \in SUBSET Slugs /\ Bytes(a) \in Nat /\ Bytes(b) \in Nat /\ Bytes(q) \in Nat
  BY <1>5, ListBytes
<1>9. Weight(ToSet(a) \cup ToSet(b)) = Weight(ToSet(a)) + Weight(ToSet(b)) BY <1>5, <1>8, Weighing
<1>10. Bytes(q) = Bytes(a) + Bytes(b) BY <1>5, <1>8, <1>9, Zenon
<1>11. Bytes(q) - Bytes(b) = Bytes(a) BY <1>8, <1>10
<1>12. Bytes(a) <= maxBytes
  <2>1. CASE k = 1
    <3>1. q[1] \in Slugs OBVIOUS
    <3>2. Weight({q[1]}) = Size[q[1]] BY <3>1, Weighing
    <3>3. Bytes(a) = Size[q[1]] BY <1>6, <1>8, <2>1, <3>2, Zenon
    <3> QED BY <3>3
  <2>2. CASE fits(k) BY <1>7, <1>11, <2>2
  <2> QED BY <1>4, <2>1, <2>2
<1> QED BY <1>4, <1>11, <1>12 DEF k, a, b

LEMMA AddKeeps ==
    ASSUME IInv, NEW v \in Visitors, pc[v] = "put", Size[want[v]] <= maxBytes, ~Cached(want[v]),
           Add(want[v], tag[v]), Answer(v, "ok"), UNCHANGED storage
    PROVE  IInv'
<1>0. PICK s \in Slugs : s = want[v] BY DEF IInv, Handling
<1> DEFINE queue == <<s>> \o ll
           k == Keeps(queue, Bytes(queue))
           kept == SubSeq(queue, 1, k)
           out == SubSeq(queue, k + 1, Len(queue))
<1>1. /\ ll \in Seq(Slugs) /\ Distinct(ll) /\ ToSet(ll) = {t \in Slugs : Cached(t)}
      /\ curBytes = Bytes(ll) /\ maxBytes \in Nat /\ Size[s] \in Nat
      /\ items \in [Slugs -> [etag : Tags \cup {Absent}, age : 0..(TTL + 1)]]
      /\ tag[v] \in Tags /\ absentFor[s] <= took[v] /\ took[v] \in 0..MaxLatency
      /\ Size[s] <= maxBytes /\ ~Cached(s) /\ absentFor \in [Slugs -> 0..Horizon]
  BY <1>0, SizeAssumption DEF IInv, TypeOK, CacheAccounts, Distinct, Handling
<1>2. s \notin ToSet(ll) BY <1>1
<1>3. /\ queue \in Seq(Slugs) /\ Distinct(queue) /\ ToSet(queue) = ToSet(ll) \cup {s}
      /\ Len(queue) = Len(ll) + 1 /\ queue[1] = s
  BY <1>1, <1>2, Fronted
<1>4. curBytes + Size[s] = Bytes(queue)
  <2> HIDE DEF queue
  <2>1. /\ Bytes(ll) = Weight(ToSet(ll)) /\ IsFiniteSet(ToSet(ll)) /\ ToSet(ll) \in SUBSET Slugs
        /\ Bytes(queue) = Weight(ToSet(queue))
    BY <1>1, <1>3, ListBytes
  <2>2. IsFiniteSet({s}) /\ {s} \in SUBSET Slugs /\ ToSet(ll) \cap {s} = {} BY <1>2, FS_Singleton
  <2>3. Weight(ToSet(ll) \cup {s}) = Weight(ToSet(ll)) + Weight({s}) BY <2>1, <2>2, Weighing
  <2>4. Weight({s}) = Size[s] BY Weighing
  <2> QED BY <1>1, <1>3, <2>1, <2>3, <2>4, Zenon
<1>5. k \in 1..Len(queue) /\ Bytes(queue) - Bytes(out) = Bytes(kept) /\ Bytes(kept) <= maxBytes
  <2> HIDE DEF queue
  <2>1. Len(queue) > 0 BY <1>1, <1>3
  <2> QED BY <1>1, <1>3, <2>1, Keeping
<1>6. /\ ll' = kept /\ curBytes' = Bytes(queue) - Bytes(out)
      /\ items' = [t \in Slugs |-> IF t = s THEN [etag |-> tag[v], age |-> 0]
                                   ELSE IF t \in ToSet(out) THEN NoEntry ELSE items[t]]
  <2> DEFINE n == Keeps(queue, curBytes + Size[s])
             rest == SubSeq(queue, n + 1, Len(queue))
  <2>1. Add(s, tag[v]) BY <1>0
  <2>2. /\ ll' = SubSeq(queue, 1, n) /\ curBytes' = curBytes + Size[s] - Bytes(rest)
        /\ items' = [t \in Slugs |-> IF t = s THEN [etag |-> tag[v], age |-> 0]
                                     ELSE IF t \in ToSet(rest) THEN NoEntry ELSE items[t]]
    BY <2>1 DEF Add
  <2> HIDE DEF queue
  <2>3. n = k BY <1>4, Zenon
  <2> HIDE DEF n, k
  <2>4. rest = out BY <2>3
  <2> HIDE DEF rest, out
  <2>5. ll' = kept BY <2>2, <2>3
  <2>6. curBytes' = Bytes(queue) - Bytes(out)
    <3>1. curBytes' = curBytes + (Size[s] - Bytes(rest)) BY <2>2
    <3>2. Bytes(rest) = Bytes(out) BY <2>4, Zenon
    <3>3. out \in Seq(Slugs) BY <1>3, <1>5, Cut DEF out
    <3>4. Bytes(out) \in Nat /\ Bytes(queue) \in Nat /\ Bytes(ll) \in Nat
      BY <1>1, <1>3, <3>3, ListBytes
    <3> QED BY <1>1, <1>4, <3>1, <3>2, <3>4
  <2>7. items' = [t \in Slugs |-> IF t = s THEN [etag |-> tag[v], age |-> 0]
                                  ELSE IF t \in ToSet(out) THEN NoEntry ELSE items[t]]
    BY <2>2, <2>4, Zenon
  <2> QED BY <2>5, <2>6, <2>7
<1> HIDE DEF queue, k
<1>7. /\ kept \in Seq(Slugs) /\ Distinct(kept) /\ s \in ToSet(kept)
      /\ ToSet(kept) \cup ToSet(out) = ToSet(queue) /\ ToSet(kept) \cap ToSet(out) = {}
  BY <1>3, <1>5, Cut
<1> HIDE DEF kept, out
<1>8. /\ items'[s] = [etag |-> tag[v], age |-> 0]
      /\ \A t \in Slugs : t # s => items'[t] = IF t \in ToSet(out) THEN NoEntry ELSE items[t]
  BY <1>6
<1>9. CacheTypes'
  <2>1. /\ NoEntry \in [etag : Tags \cup {Absent}, age : 0..(TTL + 1)]
        /\ [etag |-> tag[v], age |-> 0] \in [etag : Tags \cup {Absent}, age : 0..(TTL + 1)]
    BY <1>1, TimeAssumption DEF NoEntry
  <2>2. items' \in [Slugs -> [etag : Tags \cup {Absent}, age : 0..(TTL + 1)]] BY <1>1, <1>6, <2>1
  <2>3. Bytes(kept) \in Nat BY <1>7, ListBytes
  <2> QED BY <1>6, <1>5, <1>7, <2>2, <2>3 DEF CacheTypes
<1>10. Cached(s)' /\ items'[s].etag = tag[v] /\ items'[s].age = 0
  BY <1>1, <1>8, TagAssumption DEF Cached, NoEntry
<1>11. ToSet(kept) = {t \in Slugs : Cached(t)}'
  <2>1. ASSUME NEW t \in Slugs PROVE t \in ToSet(kept) <=> Cached(t)'
    <3>1. CASE t = s BY <1>7, <1>10, <3>1
    <3>2. CASE t # s /\ t \in ToSet(out) BY <1>7, <1>8, <3>2 DEF Cached
    <3>3. CASE t # s /\ t \notin ToSet(out)
      <4>1. Cached(t)' <=> Cached(t) BY <1>8, <3>3 DEF Cached
      <4> QED BY <1>1, <1>3, <1>7, <3>3, <4>1
    <3> QED BY <3>1, <3>2, <3>3
  <2>2. ToSet(kept) \subseteq Slugs BY <1>7 DEF ToSet
  <2> QED BY <2>1, <2>2
<1>12. CacheAccounts'
  <2>1. Bytes(ll)' = Bytes(kept) BY <1>6 DEF Bytes
  <2>2. maxBytes' = maxBytes BY DEF storage
  <2> QED BY <1>6, <1>5, <1>7, <1>11, <2>1, <2>2 DEF CacheAccounts, Distinct
<1>13. \A t \in Slugs : Dated(t)'
  <2>1. Dated(s)'
    <3>1. absentFor'[s] <= 0 + MaxLatency BY <1>1, TimeAssumption DEF storage, Horizon
    <3> QED BY <1>1, <1>10, <3>1 DEF IInv, Dated, storage
  <2>2. ASSUME NEW t \in Slugs, t # s PROVE Dated(t)'
    BY <1>8, <2>2 DEF IInv, Dated, Cached, Stale, storage
  <2> QED BY <2>1, <2>2
<1> QED BY <1>9, <1>12, <1>13, Ending DEF Answers

LEMMA PutKeeps == ASSUME IInv, NEW v \in Visitors, Put(v) PROVE IInv'
<1>0. PICK s \in Slugs : s = want[v] BY DEF IInv, Handling, Put
<1>1. pc[v] = "put" /\ Answer(v, "ok") /\ UNCHANGED storage BY DEF Put
<1>2. CASE UNCHANGED cache
  <2>1. CacheTypes' /\ CacheAccounts' /\ \A t \in Slugs : Dated(t)'
    BY <1>1, <1>2, CacheStays DEF storage
  <2> QED BY <1>1, <2>1, Ending DEF Answers
<1>3. CASE Size[s] <= maxBytes /\ Cached(s) /\ Replace(s, tag[v])
  <2>1. /\ ll' = MoveToFront(s) /\ items' = [items EXCEPT ![s] = [etag |-> tag[v], age |-> 0]]
        /\ curBytes' = curBytes
    BY <1>3 DEF Replace
  <2>2. /\ items \in [Slugs -> [etag : Tags \cup {Absent}, age : 0..(TTL + 1)]]
        /\ tag[v] \in Tags /\ absentFor[s] <= took[v] /\ took[v] \in 0..MaxLatency
        /\ absentFor \in [Slugs -> 0..Horizon]
    BY <1>0, <1>1 DEF IInv, TypeOK, Handling
  <2>3. items'[s] = [etag |-> tag[v], age |-> 0] /\ \A t \in Slugs : t # s => items'[t] = items[t]
    BY <2>1, <2>2
  <2>4. Cached(s)' /\ items'[s].etag = tag[v] /\ items'[s].age = 0
    BY <2>2, <2>3, TagAssumption DEF Cached, NoEntry
  <2>5. \A t \in Slugs : Cached(t)' <=> Cached(t) BY <1>3, <2>3, <2>4 DEF Cached
  <2>6. ll' \in Seq(Slugs) /\ Distinct(ll') /\ ToSet(ll') = ToSet(ll) /\ Bytes(ll') = Bytes(ll)
    BY <1>3, <2>1, Moving
  <2>7. CacheAccounts' BY <1>1, <2>1, <2>5, <2>6, SameContents DEF storage
  <2>8. CacheTypes'
    <3>1. [etag |-> tag[v], age |-> 0] \in [etag : Tags \cup {Absent}, age : 0..(TTL + 1)]
      BY <2>2, TimeAssumption
    <3>2. items' \in [Slugs -> [etag : Tags \cup {Absent}, age : 0..(TTL + 1)]]
      BY <2>1, <2>2, <3>1
    <3> QED BY <2>1, <2>6, <3>2 DEF CacheTypes, IInv, TypeOK
  <2>9. \A t \in Slugs : Dated(t)'
    <3>1. Dated(s)'
      <4>1. absentFor'[s] <= 0 + MaxLatency BY <1>1, <2>2, TimeAssumption DEF storage, Horizon
      <4> QED BY <1>1, <2>2, <2>4, <4>1 DEF IInv, Dated, storage
    <3>2. ASSUME NEW t \in Slugs, t # s PROVE Dated(t)'
      BY <1>1, <2>3, <3>2 DEF IInv, Dated, Cached, Stale, storage
    <3> QED BY <3>1, <3>2
  <2> QED BY <1>1, <2>7, <2>8, <2>9, Ending DEF Answers
<1>4. CASE Size[s] <= maxBytes /\ ~Cached(s) /\ Add(s, tag[v]) BY <1>0, <1>1, <1>4, AddKeeps
<1> QED BY <1>0, <1>2, <1>3, <1>4 DEF Put

-----------------------------------------------------------------------------
(* The pages and the clock                                                 *)

\* Pages come and go beside the cache, which is left alone.
LEMMA HideKeeps == ASSUME IInv, NEW s \in Slugs, Hide(s) PROVE IInv'
<1>1. /\ origin[s] # Absent
      /\ origin' = [origin EXCEPT ![s] = Absent] /\ absentFor' = [absentFor EXCEPT ![s] = 0]
      /\ missed' = [v \in Visitors |-> missed[v] \/ (pc[v] # "idle" /\ want[v] = s)]
      /\ UNCHANGED <<driver, maxBytes, refused, items, ll, curBytes, pc, want, tag, took, answer>>
  BY DEF Hide, cache, handler
<1>2. TypeOK /\ CacheAccounts /\ maxBytes \in Nat BY DEF IInv
<1>3. TypeOK'
  <2>1. 0 \in 0..Horizon BY TimeAssumption DEF Horizon
  <2>2. origin' \in [Slugs -> Tags \cup {Absent}] /\ absentFor' \in [Slugs -> 0..Horizon]
    BY <1>1, <1>2, <2>1 DEF TypeOK
  <2>3. missed' \in [Visitors -> BOOLEAN] BY <1>1, <1>2 DEF TypeOK
  <2> QED BY <1>1, <1>2, <2>2, <2>3 DEF TypeOK
<1>4. CacheAccounts' BY <1>1, <1>2 DEF CacheAccounts, Cached, Bytes
<1>5. /\ origin'[s] = Absent /\ absentFor'[s] = 0
      /\ \A t \in Slugs : t # s => origin'[t] = origin[t] /\ absentFor'[t] = absentFor[t]
  BY <1>1, <1>2 DEF TypeOK
<1>6. ASSUME NEW t \in Slugs PROVE Dated(t)'
  <2>1. Dated(t) BY DEF IInv
  <2>2. (Cached(t)' <=> Cached(t)) /\ (Stale(t)' <=> Stale(t)) BY <1>1 DEF Cached, Stale
  <2>3. CASE t = s
    <3>1. items[t].age + MaxLatency >= 0 BY <1>2, TimeAssumption DEF TypeOK
    <3> QED BY <1>1, <1>5, <2>1, <2>2, <2>3, <3>1 DEF Dated
  <2>4. CASE t # s BY <1>1, <1>5, <2>1, <2>2, <2>4 DEF Dated
  <2> QED BY <2>3, <2>4
<1>7. ASSUME NEW v \in Visitors PROVE Handling(v)'
  <2>1. Handling(v) BY DEF IInv
  <2>2. missed'[v] <=> missed[v] \/ (pc[v] # "idle" /\ want[v] = s) BY <1>1
  <2>3. took[v] >= 0 BY <1>2 DEF TypeOK
  <2>4. CASE want[v] = s BY <1>1, <1>5, <2>1, <2>2, <2>3, <2>4 DEF Handling
  <2>5. CASE want[v] # s BY <1>1, <1>5, <2>1, <2>2, <2>5 DEF Handling
  <2> QED BY <2>4, <2>5
<1> QED BY <1>1, <1>2, <1>3, <1>4, <1>6, <1>7 DEF IInv

LEMMA ShowKeeps == ASSUME IInv, NEW s \in Slugs, Show(s) PROVE IInv'
<1>1. PICK etag \in Tags : origin' = [origin EXCEPT ![s] = etag] BY DEF Show
<1>2. /\ absentFor' = [absentFor EXCEPT ![s] = 0]
      /\ UNCHANGED <<driver, maxBytes, refused, items, ll, curBytes, pc, want, tag, took, answer, missed>>
  BY DEF Show, cache, handler, outcome
<1>3. TypeOK /\ CacheAccounts /\ maxBytes \in Nat BY DEF IInv
<1>4. TypeOK' BY <1>1, <1>2, <1>3, TimeAssumption DEF TypeOK, Horizon
<1>5. CacheAccounts' BY <1>2, <1>3 DEF CacheAccounts, Cached, Bytes
<1>6. /\ origin'[s] # Absent /\ absentFor'[s] = 0
      /\ \A t \in Slugs : t # s => origin'[t] = origin[t] /\ absentFor'[t] = absentFor[t]
  BY <1>1, <1>2, <1>3, TagAssumption DEF TypeOK
<1>7. ASSUME NEW t \in Slugs PROVE Dated(t)'
  <2>1. Dated(t) BY DEF IInv
  <2>2. (Cached(t)' <=> Cached(t)) /\ (Stale(t)' <=> Stale(t)) BY <1>2 DEF Cached, Stale
  <2>3. CASE t = s
    <3>1. items[t].age + MaxLatency >= 0 BY <1>3, TimeAssumption DEF TypeOK
    <3> QED BY <1>2, <1>6, <2>1, <2>2, <2>3, <3>1 DEF Dated
  <2>4. CASE t # s BY <1>2, <1>6, <2>1, <2>2, <2>4 DEF Dated
  <2> QED BY <2>3, <2>4
<1>8. ASSUME NEW v \in Visitors PROVE Handling(v)'
  <2>1. Handling(v) BY DEF IInv
  <2>2. took[v] >= 0 BY <1>3 DEF TypeOK
  <2>3. CASE want[v] = s BY <1>2, <1>6, <2>1, <2>2, <2>3 DEF Handling
  <2>4. CASE want[v] # s BY <1>2, <1>6, <2>1, <2>4 DEF Handling
  <2> QED BY <2>3, <2>4
<1> QED BY <1>2, <1>3, <1>4, <1>5, <1>7, <1>8 DEF IInv

\* An entry and the absence of its page grow older together, and so does a
\* request and the absence it has not noticed.
LEMMA TickKeeps == ASSUME IInv, Tick PROVE IInv'
<1>1. /\ \A v \in Visitors : pc[v] # "idle" => took[v] < MaxLatency
      /\ took' = [v \in Visitors |-> IF pc[v] = "idle" THEN 0 ELSE took[v] + 1]
      /\ items' = [s \in Slugs |->
             IF Cached(s) THEN [items[s] EXCEPT !.age = Upto(@ + 1, TTL + 1)] ELSE NoEntry]
      /\ absentFor' = [s \in Slugs |->
             IF origin[s] = Absent THEN Upto(absentFor[s] + 1, Horizon) ELSE 0]
      /\ UNCHANGED <<driver, maxBytes, origin, refused, ll, curBytes, pc, want, tag, answer, missed>>
  BY DEF Tick, outcome
<1>2. TypeOK /\ CacheAccounts /\ maxBytes \in Nat BY DEF IInv
<1>3. ASSUME NEW v \in Visitors
      PROVE  took'[v] \in 0..MaxLatency /\ (pc[v] # "idle" => took'[v] = took[v] + 1)
  <2>1. took[v] \in 0..MaxLatency BY <1>2 DEF TypeOK
  <2> QED BY <1>1, <2>1, TimeAssumption
<1>4. ASSUME NEW s \in Slugs
      PROVE  /\ absentFor'[s] \in 0..Horizon /\ absentFor'[s] <= absentFor[s] + 1
             /\ origin[s] # Absent => absentFor'[s] = 0
  <2>1. absentFor[s] \in 0..Horizon /\ Horizon \in Nat BY <1>2, TimeAssumption DEF TypeOK, Horizon
  <2>2. absentFor'[s] = IF origin[s] = Absent THEN Upto(absentFor[s] + 1, Horizon) ELSE 0 BY <1>1
  <2> HIDE DEF Horizon
  <2> QED BY <2>1, <2>2 DEF Upto
<1>5. ASSUME NEW s \in Slugs
      PROVE  /\ items'[s] \in [etag : Tags \cup {Absent}, age : 0..(TTL + 1)]
             /\ Cached(s)' <=> Cached(s)
             /\ Cached(s) => items'[s].etag = items[s].etag
             /\ Cached(s) /\ ~Stale(s)' => ~Stale(s) /\ items'[s].age = items[s].age + 1
  <2>1. items[s] \in [etag : Tags \cup {Absent}, age : 0..(TTL + 1)] BY <1>2 DEF TypeOK
  <2>2. CASE Cached(s)
    <3>1. items'[s] = [items[s] EXCEPT !.age = Upto(@ + 1, TTL + 1)] BY <1>1, <2>2
    <3>2. Upto(items[s].age + 1, TTL + 1) \in 0..(TTL + 1)
          /\ (Upto(items[s].age + 1, TTL + 1) <= TTL =>
                  items[s].age <= TTL /\ Upto(items[s].age + 1, TTL + 1) = items[s].age + 1)
      BY <2>1, TimeAssumption DEF Upto
    <3>3. items'[s].etag = items[s].etag /\ items'[s].age = Upto(items[s].age + 1, TTL + 1)
          /\ items'[s] \in [etag : Tags \cup {Absent}, age : 0..(TTL + 1)]
      BY <2>1, <3>1, <3>2
    <3>4. items[s].etag \in Tags BY <2>2 DEF IInv, Dated
    <3>5. Cached(s)' BY <3>3, <3>4, TagAssumption DEF Cached, NoEntry
    <3>6. ~Stale(s)' => Upto(items[s].age + 1, TTL + 1) <= TTL
      BY <3>2, <3>3, TimeAssumption DEF Stale
    <3>7. ~Stale(s)' => ~Stale(s) /\ items'[s].age = items[s].age + 1
      BY <2>1, <3>2, <3>3, <3>6, TimeAssumption DEF Stale
    <3> QED BY <2>2, <3>3, <3>5, <3>7
  <2>3. CASE ~Cached(s)
    <3>1. items'[s] = NoEntry BY <1>1, <2>3
    <3>2. NoEntry \in [etag : Tags \cup {Absent}, age : 0..(TTL + 1)]
      BY TimeAssumption DEF NoEntry
    <3> QED BY <2>3, <3>1, <3>2 DEF Cached
  <2> QED BY <2>2, <2>3
<1>6. TypeOK'
  <2>1. took' \in [Visitors -> 0..MaxLatency] BY <1>1, <1>3
  <2>2. absentFor' \in [Slugs -> 0..Horizon] BY <1>1, <1>4
  <2>3. items' \in [Slugs -> [etag : Tags \cup {Absent}, age : 0..(TTL + 1)]] BY <1>1, <1>5
  <2> QED BY <1>1, <1>2, <2>1, <2>2, <2>3 DEF TypeOK, Horizon
<1>7. CacheAccounts'
  <2>1. {s \in Slugs : Cached(s)}' = {s \in Slugs : Cached(s)} BY <1>5
  <2>2. Bytes(ll)' = Bytes(ll) BY <1>1 DEF Bytes
  <2> QED BY <1>1, <1>2, <2>1, <2>2 DEF CacheAccounts
<1>8. ASSUME NEW s \in Slugs PROVE Dated(s)'
  <2>1. Dated(s) BY DEF IInv
  <2>2. absentFor[s] \in Nat /\ absentFor'[s] \in Nat /\ items[s].age \in Nat
    BY <1>2, <1>4, TimeAssumption DEF TypeOK, Horizon
  <2>3. Cached(s) /\ ~Stale(s)' => absentFor'[s] <= items'[s].age + MaxLatency
    BY <1>4, <1>5, <2>1, <2>2, TimeAssumption DEF Dated
  <2> QED BY <1>1, <1>4, <1>5, <2>1, <2>3 DEF Dated
<1>9. ASSUME NEW v \in Visitors PROVE Handling(v)'
  <2>1. Handling(v) BY DEF IInv
  <2>2. SUFFICES ASSUME pc[v] # "idle" PROVE Handling(v)' BY <1>1 DEF Handling
  <2>3. want[v] \in Slugs BY <2>1, <2>2 DEF Handling
  <2>4. took[v] \in Nat /\ took'[v] = took[v] + 1 BY <1>2, <1>3, <2>2 DEF TypeOK
  <2>5. absentFor[want[v]] \in Nat /\ absentFor'[want[v]] \in Nat
        /\ absentFor'[want[v]] <= absentFor[want[v]] + 1
    BY <1>2, <1>4, <2>3 DEF TypeOK
  <2>6. absentFor[want[v]] <= took[v] => absentFor'[want[v]] <= took'[v] BY <2>4, <2>5
  <2> QED BY <1>1, <2>1, <2>2, <2>6 DEF Handling
<1> QED BY <1>1, <1>2, <1>6, <1>7, <1>8, <1>9 DEF IInv

-----------------------------------------------------------------------------
LEMMA InitIInv == Init => IInv
<1> SUFFICES ASSUME Init PROVE IInv OBVIOUS
<1>1. TypeOK
  <2>1. Horizon \in 0..Horizon BY TimeAssumption DEF Horizon
  <2>2. NoEntry \in [etag : Tags \cup {Absent}, age : 0..(TTL + 1)] BY TimeAssumption DEF NoEntry
  <2>3. "idle" \in Places /\ "none" \in Answers /\ 0 \in 0..MaxLatency
    BY TimeAssumption DEF Places, Answers
  <2> HIDE DEF Horizon, NoEntry
  <2> QED BY <2>1, <2>2, <2>3 DEF Init, TypeOK
<1>2. maxBytes \in Nat BY SizeAssumption DEF Init
<1>3. CacheAccounts
  <2>1. ll = <<>> /\ Len(ll) = 0 /\ curBytes = 0 /\ ll \in Seq(Slugs) BY DEF Init
  <2>2. \A s \in Slugs : ~Cached(s) BY DEF Init, Cached
  <2>3. ToSet(ll) = {} BY <2>1 DEF ToSet
  <2>4. Bytes(ll) = 0
    <3>1. Bytes(ll) = Weight(ToSet(ll)) BY <2>1, ListBytes
    <3>2. Weight({}) = 0 BY Weighing
    <3> QED BY <2>3, <3>1, <3>2, Zenon
  <2> QED BY <1>2, <2>1, <2>2, <2>3, <2>4 DEF CacheAccounts
<1>4. \A s \in Slugs : Dated(s) BY DEF Init, Dated, Cached
<1>5. \A v \in Visitors : Handling(v) BY DEF Init, Handling
<1> QED BY <1>1, <1>2, <1>3, <1>4, <1>5 DEF IInv

LEMMA NextIInv == IInv /\ [Next]_vars => IInv'
<1> SUFFICES ASSUME IInv, [Next]_vars PROVE IInv' OBVIOUS
<1>1. ASSUME NEW v \in Visitors, Step(v) PROVE IInv'
  BY <1>1, RequestKeeps, LookupKeeps, AskingKeeps, RefuseKeeps, TouchKeeps, EvictKeeps, PutKeeps
  DEF Step
<1>2. ASSUME NEW s \in Slugs, Hide(s) \/ Show(s) PROVE IInv' BY <1>2, HideKeeps, ShowKeeps
<1>3. CASE Tick BY <1>3, TickKeeps
<1>4. CASE UNCHANGED vars
  <2>1. UNCHANGED <<storage, cache, pc, want, tag, took, answer, missed>>
    BY <1>4 DEF vars, handler, outcome
  <2>2. CacheTypes' /\ CacheAccounts' /\ \A s \in Slugs : Dated(s)' BY <2>1, CacheStays DEF storage
  <2>3. TypeOK' BY <2>1 DEF IInv, TypeOK, storage, cache
  <2>4. \A v \in Visitors : Handling(v)' BY <2>1 DEF IInv, Handling, storage
  <2> QED BY <2>1, <2>2, <2>3, <2>4 DEF IInv, storage
<1> QED BY <1>1, <1>2, <1>3, <1>4 DEF Next

LEMMA Invariance == Spec => []IInv
<1> QED BY InitIInv, NextIInv, PTL DEF Spec

\* Which steps of a handler give which answer.
LEMMA Answered ==
    ASSUME IInv, Next, NEW v \in Visitors, pc[v] # "idle", pc'[v] = "idle"
    PROVE  /\ answer'[v] = "ok" => Lookup(v) \/ Touch(v) \/ Put(v)
           /\ answer'[v] = "notFound" => Evict(v) \/ Get(v) \/ Refuse(v)
<1>1. HandlerTypes BY DEF IInv, TypeOK, HandlerTypes
<1>2. PICK w \in Visitors : Step(w)
  BY DEF Next, Hide, Show, Tick, handler
<1>3. \E place \in Places : Go(w, place)
  BY <1>2 DEF Step, Request, Lookup, Stat, Touch, Evict, Get, Refuse, StorageError, Put,
              Answer, Proceed, Places
<1>4. w = v BY <1>1, <1>3 DEF Go, HandlerTypes
<1>5. \A etag : \A place \in Places : Proceed(v, place, etag) => place = "idle"
  BY <1>1 DEF Proceed, Go, HandlerTypes
<1>6. \A result : Answer(v, result) => answer'[v] = result BY <1>1 DEF Answer, HandlerTypes
<1>7. \A s \in Slugs : ~Request(v, s) BY DEF Request
<1>8. ~Stat(v) BY <1>5 DEF Stat, Places
<1>9. StorageError(v) => answer'[v] = "error" BY <1>6 DEF StorageError
<1>10. Lookup(v) \/ Touch(v) \/ Put(v) => answer'[v] = "ok"
  <2>1. Lookup(v) => answer'[v] = "ok" BY <1>5, <1>6 DEF Lookup, Places
  <2>2. Touch(v) \/ Put(v) => answer'[v] = "ok" BY <1>6 DEF Touch, Put
  <2> QED BY <2>1, <2>2
<1>11. Evict(v) \/ Get(v) \/ Refuse(v) => answer'[v] = "notFound"
  <2>1. Evict(v) \/ Get(v) => answer'[v] = "notFound" BY <1>5, <1>6 DEF Evict, Get, Places
  <2>2. Refuse(v) => answer'[v] = "notFound" BY <1>5, <1>6 DEF Refuse, Places
  <2> QED BY <2>1, <2>2
<1> QED BY <1>2, <1>4, <1>7, <1>8, <1>9, <1>10, <1>11 DEF Step

-----------------------------------------------------------------------------
(* Theorems                                                                *)

\* Every variable keeps its type (serve/cache.go, pageIndex in serve/serve.go).
THEOREM TypeCorrect == Spec => []TypeOK
<1>1. IInv => TypeOK BY DEF IInv
<1> QED BY <1>1, Invariance, PTL

\* The list, the map and the running total of the cache never drift apart, and
\* the total never leaves the budget, for any lengths and any budget, however
\* many visitors put, touch and evict (serve/cache.go lookup, touch, evict, put).
THEOREM Accounts == Spec => []CacheAccounts
<1>1. IInv => CacheAccounts BY DEF IInv
<1> QED BY <1>1, Invariance, PTL

\* A visitor is shown a parked or deleted page at most for the revalidation
\* interval and the time one request may take (pageIndex in serve/serve.go).
THEOREM Bounded == Spec => StalenessBounded
<1>1. IInv /\ [Next]_vars =>
        [\A v \in Visitors : Answers200(v) => absentFor[want[v]] <= TTL + MaxLatency]_vars
  <2> SUFFICES ASSUME IInv, Next, NEW v \in Visitors, Answers200(v)
               PROVE  absentFor[want[v]] <= TTL + MaxLatency
    OBVIOUS
  <2>1. PICK s \in Slugs : s = want[v] BY DEF IInv, Handling, Answers200
  <2>2. pc[v] # "idle" /\ pc'[v] = "idle" /\ answer'[v] = "ok" BY DEF Answers200
  <2>3. Lookup(v) \/ Touch(v) \/ Put(v) BY <2>2, Answered
  <2>4. CASE Lookup(v)
    <3>1. pc \in [Visitors -> Places] BY DEF IInv, TypeOK
    <3>2. ~Proceed(v, "stat", items[s].etag) /\ ~Proceed(v, "get", Absent)
      BY <2>2, <3>1 DEF Proceed, Go
    <3>3. Cached(s) /\ ~Stale(s) BY <2>1, <2>4, <3>2 DEF Lookup
    <3>4. absentFor[s] <= items[s].age + MaxLatency /\ ~(items[s].age > TTL)
      BY <3>3 DEF IInv, Dated, Stale
    <3>5. absentFor[s] \in 0..Horizon /\ items[s].age \in 0..(TTL + 1) BY DEF IInv, TypeOK
    <3> QED BY <2>1, <3>4, <3>5, TimeAssumption DEF Horizon
  <2>5. CASE Touch(v) \/ Put(v)
    <3>1. absentFor[s] <= took[v] BY <2>1, <2>5 DEF IInv, Handling, Touch, Put
    <3> QED BY <2>1, <3>1, TimeAssumption DEF IInv, TypeOK, Horizon
  <2> QED BY <2>3, <2>4, <2>5
<1> QED BY <1>1, Invariance, PTL DEF Spec, StalenessBounded

\* Nobody is told that a page is not there that was there all along, unless the
\* bucket refused a call of his own request
\* (pageIndex in serve/serve.go, notFound in storage/s3compat/s3.go).
THEOREM Truthful == Spec => NotFoundIsTrue
<1>1. IInv /\ [Next]_vars =>
        [\A v \in Visitors :
           Answers404(v) => missed[v] \/ (driver = "s3compat" /\ v \in refused')]_vars
  <2> SUFFICES ASSUME IInv, Next, NEW v \in Visitors, Answers404(v)
               PROVE  missed[v] \/ (driver = "s3compat" /\ v \in refused')
    OBVIOUS
  <2>1. pc[v] # "idle" /\ pc'[v] = "idle" /\ answer'[v] = "notFound" BY DEF Answers404
  <2>2. Evict(v) \/ Get(v) \/ Refuse(v) BY <2>1, Answered
  <2>3. Handling(v) /\ pc \in [Visitors -> Places] BY DEF IInv, TypeOK
  <2>4. CASE Evict(v) BY <2>3, <2>4 DEF Handling, Evict, storage
  <2>5. CASE Get(v)
    <3>1. origin[want[v]] = Absent BY <2>1, <2>3, <2>5 DEF Get, Proceed, Go
    <3> QED BY <2>1, <2>3, <3>1 DEF Handling
  <2>6. CASE Refuse(v) BY <2>6 DEF Refuse
  <2> QED BY <2>2, <2>4, <2>5, <2>6
<1> QED BY <1>1, Invariance, PTL DEF Spec, NotFoundIsTrue
=============================================================================
