---------------------------- MODULE Login_proofs ---------------------------
(***************************************************************************)
(* The safety properties of Login, for any number of tabs, logins, keys    *)
(* and failures and for every choice of the three lifetimes.  IInv says    *)
(* how far a tab can be with what it knows (Logins), what the holder of    *)
(* the key cache's mutex and the answer under way are worth (Mutex), how   *)
(* old the knowledge in the cache can be (Answers) and where sessions come *)
(* from (Sessions).                                                        *)
(***************************************************************************)
EXTENDS Login, TLAPS

\* A tab at the provider has the state cookie, or was interfered with; one
\* that asks for a key holds a token signed with a key the provider made.
Logins(t) ==
    /\ tab[t].step \in {"provider", "exchange", "key"} => tab[t].outcome = "none"
    /\ tab[t].step = "provider" => cookie = tab[t].login \/ tab[t].login \in disturbed
    /\ tab[t].step \in {"provider", "exchange", "key"} => tab[t].login # 0
    /\ tab[t].step = "key" => tab[t].key \in 1..signing
    /\ tab[t].outcome = "unknown" => /\ tab[t].key \in 1..signing
                                     /\ \/ withdrawn[tab[t].key] # -1
                                        \/ form[tab[t].key] = "skipped"
    /\ tab[t].outcome = "ok" => \E m \in minted : m.ends = tab[t].ends

\* The holder of the mutex waits for its key, and an answer without that key
\* was written after the provider withdrew it.
Mutex(t) ==
    fetch.by = t => /\ tab[t].step = "key" /\ fetch.nth \in {1, 2}
                    /\ fetch.at # -1 => \/ tab[t].key \in fetch.body
                                        \/ withdrawn[tab[t].key] # -1

\* A key in an answer or in the cache was published when the answer was
\* written, which is at most FetchTimeout before it arrived.
Answers ==
    /\ fetch.body \subseteq 1..signing
    /\ fetch.at # -1 => now - fetch.at <= FetchTimeout
    /\ \A k \in fetch.body : withdrawn[k] # -1 => withdrawn[k] >= fetch.at
    /\ \A k \in cached : withdrawn[k] # -1 => fetchedAt - withdrawn[k] <= FetchTimeout

\* A session in the jar was minted, and none has been minted in the future.
Sessions ==
    /\ session # 0 => \E m \in minted : m.ends = session
    /\ \A m \in minted : m.at <= now /\ m.ends = m.at + SessionTTL

IInv ==
    /\ TypeOK /\ Answers /\ Sessions /\ WithdrawnKeysFade
    /\ \A t \in Tabs : Logins(t) /\ Mutex(t)

-----------------------------------------------------------------------------
(* The induction                                                           *)

\* What TypeOK and the assumption say, in the form the steps use.
LEMMA Types ==
    ASSUME TypeOK
    PROVE  /\ now \in 0..MaxTime /\ now \in Int /\ logins \in Nat /\ signing \in 1..MaxKey
           /\ MaxKey \in Nat /\ MaxTime \in Nat
           /\ cookie \in 0..logins /\ cookieEnds \in Int /\ session \in Int
           /\ withdrawn \in [Keys -> Int] /\ cached \subseteq 1..signing /\ fetchedAt \in Int
           /\ fetchedAt <= now
           /\ fetch \in [by : Tabs \cup {Nobody}, nth : 0..2, body : SUBSET Keys, at : -1..now]
           /\ \A m \in minted : m.key \in Keys /\ m.at \in Int /\ m.ends \in Int
           /\ form \in [Keys -> Forms]
           /\ tab \in [Tabs -> TabStates]
           /\ JWKSMaxAge \in Nat /\ SessionTTL \in Nat /\ StateTTL \in Nat
           /\ FetchTimeout \in Nat /\ Nobody \notin Tabs
<1>1. /\ MaxKey \in Nat \ {0} /\ MaxTime \in Nat /\ JWKSMaxAge \in Nat /\ SessionTTL \in Nat
      /\ StateTTL \in Nat /\ FetchTimeout \in Nat /\ MaxLogin \in Nat /\ Nobody \notin Tabs
  BY LoginAssumption
<1>2. /\ now \in 0..MaxTime /\ now \in Int /\ fetchedAt \in Int /\ fetchedAt <= now
      /\ logins \in Nat /\ signing \in 1..MaxKey
      /\ cookie \in 0..logins /\ cookieEnds \in Int /\ session \in Int
  BY <1>1 DEF TypeOK, Keys
<1>3. /\ \A m \in minted : m.key \in Keys /\ m.at \in Int /\ m.ends \in Int
      /\ form \in [Keys -> Forms]
  BY <1>1, LoginAssumption DEF TypeOK
<1>4. withdrawn \in [Keys -> Int] BY <1>1 DEF TypeOK
<1> QED BY <1>1, <1>2, <1>3, <1>4 DEF TypeOK

\* Every key made so far is a key, withdrawn at some time or not yet.
LEMMA KeysMade ==
    ASSUME TypeOK
    PROVE  /\ \A k \in 1..signing : k \in Keys /\ withdrawn[k] \in Int
           /\ 1..signing \subseteq Keys
<1>1. \A k \in 1..signing : k \in Keys
  <2>1. signing \in 1..MaxKey /\ MaxKey \in Nat BY Types
  <2> QED BY <2>1 DEF Keys
<1>2. withdrawn \in [Keys -> Int] BY Types
<1> QED BY <1>1, <1>2

LEMMA InitIInv == Init => IInv
<1> SUFFICES ASSUME Init PROVE IInv OBVIOUS
<1>1. AtHome \in TabStates
  BY LoginAssumption DEF Init, AtHome, TabStates, Outcomes
<1>2. Unlocked \in [by : Tabs \cup {Nobody}, nth : 0..2, body : SUBSET Keys, at : -1..now]
  BY DEF Init, Unlocked
<1>3. TypeOK BY <1>1, <1>2, LoginAssumption DEF Init, TypeOK, Keys
<1>4. Answers /\ Sessions /\ WithdrawnKeysFade
  BY DEF Init, Answers, Sessions, WithdrawnKeysFade, Unlocked
<1>5. ASSUME NEW t \in Tabs PROVE Logins(t) /\ Mutex(t)
  BY LoginAssumption DEF Init, Logins, Mutex, AtHome, Unlocked
<1> QED BY <1>3, <1>4, <1>5 DEF IInv

\* A tab takes a state while the others keep theirs.
Becomes(t, r) == tab' = [tab EXCEPT ![t] = r]

LEMMA Becoming ==
    ASSUME TypeOK, NEW t \in Tabs, NEW r \in TabStates', Becomes(t, r),
           logins' \in Nat, logins <= logins'
    PROVE  /\ tab' \in [Tabs -> TabStates'] /\ tab'[t] = r
           /\ \A s \in Tabs \ {t} : tab'[s] = tab[s]
<1>1. \A r0 \in TabStates : r0 \in TabStates' BY Types DEF TabStates
<1> QED BY <1>1, Types DEF Becomes

\* The state a tab whose callback is answered takes.
Answered(t, r, outcome, ends) ==
    /\ Becomes(t, r) /\ r.step = "answer" /\ r.outcome = outcome /\ r.ends = ends
    /\ r.login = tab[t].login /\ r.key = tab[t].key

LEMMA Ending ==
    ASSUME TypeOK, NEW t \in Tabs, NEW outcome \in Outcomes, End(t, outcome)
    PROVE  \E r \in TabStates : Answered(t, r, outcome, tab[t].ends)
<1> DEFINE r == [tab[t] EXCEPT !.step = "answer"]
           u == [r EXCEPT !.outcome = outcome]
<1>1. Becomes(t, u) BY Types DEF End, Becomes
<1>2. r \in TabStates /\ r.step = "answer" /\ r.ends = tab[t].ends
      /\ r.login = tab[t].login /\ r.key = tab[t].key
  BY Types DEF TabStates
<1>3. u \in TabStates /\ u.step = r.step /\ u.outcome = outcome /\ u.ends = r.ends
      /\ u.login = r.login /\ u.key = r.key
  <2> HIDE DEF r
  <2> QED BY <1>2 DEF TabStates, Outcomes
<1> HIDE DEF r, u
<1> QED BY <1>1, <1>2, <1>3 DEF Answered

LEMMA SessionEnds ==
    ASSUME TypeOK PROVE SessionEnd \in SessionTTL..MaxTime + SessionTTL /\ SessionEnd \in Nat
  BY Types DEF SessionEnd

LEMMA Judging ==
    ASSUME TypeOK, NEW t \in Tabs, Judge(t)
    PROVE  \E r \in TabStates :
             \/ /\ Answered(t, r, "ok", SessionEnd) /\ UNCHANGED faults
                /\ minted' = minted \cup {[key |-> tab[t].key, at |-> now, ends |-> SessionEnd]}
             \/ Answered(t, r, "claims", tab[t].ends) /\ Fault /\ UNCHANGED minted
<1>1. CASE Fault /\ End(t, "claims") /\ UNCHANGED minted BY <1>1, Ending DEF Outcomes
<1>2. CASE /\ tab' = [tab EXCEPT ![t].step = "answer", ![t].outcome = "ok",
                                 ![t].ends = SessionEnd]
           /\ minted' = minted \cup {[key |-> tab[t].key, at |-> now, ends |-> SessionEnd]}
           /\ UNCHANGED faults
  <2> DEFINE r == [tab[t] EXCEPT !.step = "answer"]
             u == [r EXCEPT !.outcome = "ok"]
             v == [u EXCEPT !.ends = SessionEnd]
  <2>1. Becomes(t, v) BY <1>2, Types DEF Becomes
  <2>2. r \in TabStates /\ r.step = "answer" /\ r.login = tab[t].login /\ r.key = tab[t].key
    BY Types DEF TabStates
  <2>3. /\ u \in TabStates /\ u.step = r.step /\ u.outcome = "ok"
        /\ u.login = r.login /\ u.key = r.key
    <3> HIDE DEF r
    <3> QED BY <2>2 DEF TabStates, Outcomes
  <2>5. /\ v \in TabStates /\ v.step = u.step /\ v.outcome = u.outcome
        /\ v.ends = SessionEnd /\ v.login = u.login /\ v.key = u.key
    <3> HIDE DEF u
    <3> QED BY <2>3, SessionEnds DEF TabStates
  <2> HIDE DEF r, u, v
  <2> QED BY <1>2, <2>1, <2>2, <2>3, <2>5 DEF Answered
<1> QED BY <1>1, <1>2 DEF Judge

\* What a step of one tab does to the others: the history and the provider's
\* keys only grow, and the mutex stays with who has it.
Grows ==
    /\ disturbed \subseteq disturbed' /\ minted \subseteq minted'
    /\ signing' \in Nat /\ signing <= signing'
    /\ form' = form /\ \A k \in Keys : withdrawn[k] # -1 => withdrawn'[k] # -1

LEMMA OtherTab ==
    ASSUME IInv, Grows, NEW s \in Tabs, tab'[s] = tab[s],
           tab[s].step = "provider" => cookie' = cookie \/ tab[s].login \in disturbed',
           fetch'.by = s => fetch' = fetch
    PROVE  Logins(s)' /\ Mutex(s)'
<1>1. Logins(s) /\ Mutex(s) /\ signing \in 1..MaxKey /\ MaxKey \in Nat BY Types DEF IInv
<1>2. \A k \in 1..signing : k \in 1..signing' /\ k \in Keys BY <1>1 DEF Grows, Keys
<1>3. Logins(s)' BY <1>1, <1>2 DEF Logins, Grows
<1>4. Mutex(s)' BY <1>1, <1>2 DEF Mutex, Logins, Grows
<1> QED BY <1>3, <1>4

\* GET /login
LEMMA BeginStep == ASSUME IInv, NEW t \in Tabs, Begin(t) PROVE IInv'
<1> DEFINE a == [AtHome EXCEPT !.step = "provider"]
           r == [a EXCEPT !.login = logins + 1]
<1> USE DEF jar, provider, cache, history
<1>1. TypeOK /\ Answers /\ Sessions /\ WithdrawnKeysFade BY DEF IInv
<1>2. Becomes(t, r) /\ logins' = logins + 1 BY DEF Begin, Becomes
<1>3. r \in TabStates' /\ r.step = "provider" /\ r.login = logins + 1 /\ r.outcome = "none"
  <2>1. AtHome \in TabStates /\ AtHome.outcome = "none" BY <1>1, Types DEF AtHome, TabStates, Outcomes
  <2>2. a \in TabStates /\ a.step = "provider" /\ a.outcome = "none"
    <3> HIDE DEF AtHome
    <3> QED BY <2>1 DEF TabStates
  <2>3. logins + 1 \in 0..logins' BY <1>1, <1>2, Types
  <2>4. a \in TabStates' BY <2>2, <1>1, <1>2, Types DEF TabStates
  <2> HIDE DEF a
  <2> QED BY <2>2, <2>3, <2>4 DEF TabStates
<1> HIDE DEF r
<1>4. /\ tab' \in [Tabs -> TabStates'] /\ tab'[t] = r
      /\ \A s \in Tabs \ {t} : tab'[s] = tab[s]
  BY <1>1, <1>2, <1>3, Types, Becoming
<1>5. disturbed' = disturbed \cup Pending(Tabs) /\ Pending(Tabs) \subseteq 1..logins
  <2>1. ASSUME NEW s \in Tabs, tab[s].step = "provider" PROVE tab[s].login \in 1..logins
    BY <2>1, <1>1, Types DEF IInv, Logins, TabStates
  <2> QED BY <2>1 DEF Pending, Begin
<1>6. TypeOK'
  <2>1. logins' \in 0..MaxLogin /\ cookie' \in 0..logins'
    BY <1>1, Types, LoginAssumption DEF Begin, TypeOK
  <2>2. cookieEnds' \in 0..MaxTime + StateTTL BY <1>1, Types DEF Begin
  <2>3. disturbed' \subseteq 1..logins' /\ used' \subseteq 1..logins'
    BY <1>1, <1>2, <1>5, Types DEF Begin, TypeOK
  <2> QED BY <2>1, <2>2, <2>3, <1>4, <1>1 DEF Begin, TypeOK
<1>7. Answers' /\ Sessions' /\ WithdrawnKeysFade'
  BY <1>1 DEF Begin, Answers, Sessions, WithdrawnKeysFade
<1>8. ASSUME NEW s \in Tabs PROVE Logins(s)' /\ Mutex(s)'
  <2>1. CASE s = t
    <3>1. cookie' = tab'[t].login /\ tab'[t].login # 0
      BY <1>1, <1>2, <1>3, <1>4, Types DEF Begin
    <3>2. Logins(s)' BY <2>1, <3>1, <1>3, <1>4 DEF Logins
    <3>3. fetch'.by # t BY DEF Begin, IInv, Mutex
    <3> QED BY <3>2, <3>3, <2>1 DEF Mutex
  <2>2. CASE s # t
    <3>1. Grows BY <1>1, Types DEF Begin, Grows
    <3>2. tab[s].step = "provider" => tab[s].login \in disturbed' BY <1>5 DEF Pending
    <3> QED BY <2>2, <1>4, <3>1, <3>2, OtherTab DEF Begin
  <2> QED BY <2>1, <2>2
<1> QED BY <1>6, <1>7, <1>8 DEF IInv

\* An answered callback keeps the invariant of its own tab if its outcome is
\* earned.
LEMMA AnsweredTab ==
    ASSUME NEW t \in Tabs, tab'[t].step = "answer", fetch'.by # t,
           tab'[t].outcome = "unknown" =>
               /\ tab'[t].key \in 1..signing'
               /\ withdrawn'[tab'[t].key] # -1 \/ form'[tab'[t].key] = "skipped",
           tab'[t].outcome = "ok" => \E m \in minted' : m.ends = tab'[t].ends
    PROVE  Logins(t)' /\ Mutex(t)'
  BY DEF Logins, Mutex

\* GET /auth/callback, up to the state check.
LEMMA CallbackStep == ASSUME IInv, NEW t \in Tabs, Callback(t) PROVE IInv'
<1> USE DEF jar, provider, cache, history
<1>1. TypeOK /\ Answers /\ Sessions /\ WithdrawnKeysFade BY DEF IInv
<1>2. PICK r \in TabStates :
        /\ Becomes(t, r) /\ r.login = tab[t].login
        /\ r.outcome \notin {"unknown", "ok"}
        /\ r.step = "answer" \/ (r.step = "exchange" /\ r.outcome = "none")
  <2>1. CASE \/ Fault /\ End(t, "provider")
             \/ ~StateOK(t) /\ End(t, "state")
    <3>1. PICK o \in {"provider", "state"} : End(t, o) BY <2>1
    <3>2. PICK r \in TabStates : Answered(t, r, o, tab[t].ends)
      BY <3>1, <1>1, Ending DEF Outcomes
    <3> QED BY <3>2 DEF Answered
  <2>2. CASE tab' = [tab EXCEPT ![t].step = "exchange"]
    <3> DEFINE r == [tab[t] EXCEPT !.step = "exchange"]
    <3>1. Becomes(t, r) BY <2>2 DEF Becomes
    <3>2. r \in TabStates /\ r.login = tab[t].login /\ r.step = "exchange"
          /\ r.outcome = tab[t].outcome
      BY <1>1, Types DEF TabStates
    <3>3. tab[t].outcome = "none" BY DEF Callback, IInv, Logins
    <3> QED BY <3>1, <3>2, <3>3
  <2> QED BY <2>1, <2>2 DEF Callback
<1>3. logins' = logins /\ TabStates' = TabStates BY DEF Callback, TabStates
<1>4. /\ tab' \in [Tabs -> TabStates] /\ tab'[t] = r
      /\ \A s \in Tabs \ {t} : tab'[s] = tab[s]
  BY <1>1, <1>2, <1>3, Types, Becoming
<1>5. TypeOK'
  <2>1. faults' \in 0..MaxFaults BY <1>1, LoginAssumption DEF Callback, Fault, TypeOK
  <2> QED BY <2>1, <1>1, <1>3, <1>4 DEF Callback, TypeOK
<1>6. Answers' /\ Sessions' /\ WithdrawnKeysFade'
  BY <1>1 DEF Callback, Answers, Sessions, WithdrawnKeysFade
<1>7. fetch'.by # t BY DEF Callback, IInv, Mutex
<1>8. Logins(t)' BY <1>2, <1>4 DEF Callback, Logins, IInv
<1>9. ASSUME NEW s \in Tabs \ {t} PROVE Logins(s)' /\ Mutex(s)'
  <2>1. Grows BY <1>1, Types DEF Callback, Grows
  <2> QED BY <1>4, <2>1, OtherTab DEF Callback
<1> QED BY <1>5, <1>6, <1>7, <1>8, <1>9 DEF IInv, Mutex

\* The code for a token.
LEMMA ExchangeStep == ASSUME IInv, NEW t \in Tabs, Exchange(t) PROVE IInv'
<1> USE DEF jar, cache, history
<1>1. TypeOK /\ Answers /\ Sessions /\ WithdrawnKeysFade BY DEF IInv
<1>2. tab[t].login \in 1..logins /\ signing \in 1..MaxKey
  BY <1>1, Types DEF Exchange, IInv, Logins, TabStates
<1>3. PICK r \in TabStates :
        /\ Becomes(t, r) /\ r.login = tab[t].login /\ r.outcome \notin {"unknown", "ok"}
        /\ r.step = "answer" \/ (r.step = "key" /\ r.key = signing /\ r.outcome = "none")
  <2>1. CASE End(t, "exchange")
    BY <2>1, <1>1, Ending DEF Answered, Outcomes
  <2>2. CASE tab' = [tab EXCEPT ![t].step = "key", ![t].key = signing]
    <3> DEFINE u == [tab[t] EXCEPT !.step = "key"]
               r == [u EXCEPT !.key = signing]
    <3>1. Becomes(t, r) BY <2>2, <1>1, Types DEF Becomes
    <3>2. u \in TabStates /\ u.login = tab[t].login /\ u.step = "key"
          /\ u.outcome = tab[t].outcome
      BY <1>1, Types DEF TabStates
    <3>3. /\ r \in TabStates /\ r.login = u.login /\ r.step = u.step /\ r.key = signing
          /\ r.outcome = u.outcome
      <4> HIDE DEF u
      <4> QED BY <3>2, <1>2, <1>1, Types DEF TabStates
    <3>4. tab[t].outcome = "none" BY DEF Exchange, IInv, Logins
    <3> HIDE DEF u, r
    <3> QED BY <3>1, <3>2, <3>3, <3>4
  <2> QED BY <2>1, <2>2 DEF Exchange
<1>4. logins' = logins /\ TabStates' = TabStates BY DEF Exchange, TabStates
<1>5. /\ tab' \in [Tabs -> TabStates] /\ tab'[t] = r
      /\ \A s \in Tabs \ {t} : tab'[s] = tab[s]
  BY <1>1, <1>3, <1>4, Types, Becoming
<1>6. TypeOK'
  <2>1. faults' \in 0..MaxFaults BY <1>1, LoginAssumption DEF Exchange, Fault, TypeOK
  <2>2. used' \subseteq 1..logins BY <1>1, <1>2 DEF Exchange, TypeOK
  <2> QED BY <2>1, <2>2, <1>1, <1>4, <1>5 DEF Exchange, TypeOK
<1>7. Answers' /\ Sessions' /\ WithdrawnKeysFade'
  BY <1>1 DEF Exchange, Answers, Sessions, WithdrawnKeysFade
<1>8. fetch'.by # t BY DEF Exchange, IInv, Mutex
<1>9. Logins(t)' BY <1>2, <1>3, <1>5 DEF Exchange, Logins
<1>10. ASSUME NEW s \in Tabs \ {t} PROVE Logins(s)' /\ Mutex(s)'
  <2>1. Grows BY <1>1, Types DEF Exchange, Grows
  <2> QED BY <1>5, <2>1, OtherTab DEF Exchange
<1> QED BY <1>6, <1>7, <1>8, <1>9, <1>10 DEF IInv, Mutex

\* A callback that is answered leaves the keys alone; what it mints is minted
\* now, on a key that Judge was given.
LEMMA Judged ==
    ASSUME IInv, NEW t \in Tabs, tab[t].step = "key", Judge(t), fetch'.by = Nobody,
           UNCHANGED <<now, mode, logins, cookie, cookieEnds, session, signing, withdrawn,
                       form, used, disturbed>>,
           withdrawn[tab[t].key] # -1
               => now - withdrawn[tab[t].key] <= JWKSMaxAge + FetchTimeout
    PROVE  /\ tab' \in [Tabs -> TabStates'] /\ faults' \in 0..MaxFaults
           /\ minted' \subseteq [key : Keys, at : 0..MaxTime, ends : SessionTTL..MaxTime + SessionTTL]
           /\ Sessions' /\ WithdrawnKeysFade' /\ Logins(t)' /\ Mutex(t)'
           /\ \A s \in Tabs \ {t} : tab'[s] = tab[s]
           /\ Grows
<1>1. TypeOK /\ Sessions /\ WithdrawnKeysFade /\ Logins(t) BY DEF IInv
<1>2. PICK r \in TabStates :
        \/ /\ Answered(t, r, "ok", SessionEnd) /\ UNCHANGED faults
           /\ minted' = minted \cup {[key |-> tab[t].key, at |-> now, ends |-> SessionEnd]}
        \/ Answered(t, r, "claims", tab[t].ends) /\ Fault /\ UNCHANGED minted
  BY <1>1, Judging
<1>3. logins' = logins /\ TabStates' = TabStates BY DEF TabStates
<1>4. /\ tab' \in [Tabs -> TabStates] /\ tab'[t] = r
      /\ \A s \in Tabs \ {t} : tab'[s] = tab[s]
  BY <1>1, <1>2, <1>3, Types, Becoming DEF Answered
<1>5. faults' \in 0..MaxFaults BY <1>1, <1>2, LoginAssumption DEF Fault, TypeOK
<1>6. tab[t].key \in Keys BY <1>1, KeysMade DEF Logins
<1> DEFINE m0 == [key |-> tab[t].key, at |-> now, ends |-> SessionEnd]
<1>7. minted' \subseteq minted \cup {m0} /\ minted \subseteq minted' BY <1>2
<1>8. /\ m0 \in [key : Keys, at : 0..MaxTime, ends : SessionTTL..MaxTime + SessionTTL]
      /\ m0.key = tab[t].key /\ m0.at = now /\ m0.ends = now + SessionTTL /\ m0.ends = SessionEnd
  BY <1>1, <1>6, SessionEnds, Types DEF SessionEnd
<1>9. minted' \subseteq [key : Keys, at : 0..MaxTime, ends : SessionTTL..MaxTime + SessionTTL]
  BY <1>1, <1>7, <1>8 DEF TypeOK
<1> HIDE DEF m0
<1>10. Sessions'
  <2>1. ASSUME NEW m \in minted' PROVE m.at <= now /\ m.ends = m.at + SessionTTL
    BY <1>1, <1>7, <1>8, Types DEF Sessions
  <2> QED BY <2>1, <1>1, <1>7 DEF Sessions
<1>11. WithdrawnKeysFade' BY <1>1, <1>7, <1>8 DEF WithdrawnKeysFade
<1>12. tab'[t].outcome = "ok" => \E m \in minted' : m.ends = tab'[t].ends
  BY <1>2, <1>4, <1>8 DEF Answered, m0
<1>13. tab'[t].step = "answer" /\ tab'[t].outcome # "unknown" BY <1>2, <1>4 DEF Answered
<1>14. fetch'.by # t BY <1>1, Types
<1>15. Logins(t)' /\ Mutex(t)' BY <1>12, <1>13, <1>14, AnsweredTab
<1>16. Grows BY <1>1, <1>7, Types DEF Grows
<1> QED BY <1>3, <1>4, <1>5, <1>9, <1>10, <1>11, <1>15, <1>16

\* jwksCache.key: the cache, or the mutex for a fetch.
LEMMA FindKeyStep == ASSUME IInv, NEW t \in Tabs, FindKey(t) PROVE IInv'
<1> USE DEF jar, provider
<1>1. TypeOK /\ Answers /\ Sessions /\ WithdrawnKeysFade /\ Logins(t) BY DEF IInv
<1>2. CASE Fresh /\ tab[t].key \in cached /\ Judge(t) /\ UNCHANGED fetch
  <2>1. withdrawn[tab[t].key] # -1
          => now - withdrawn[tab[t].key] <= JWKSMaxAge + FetchTimeout
    <3>1. tab[t].key \in Keys BY <1>1, KeysMade DEF FindKey, Logins
    <3> QED BY <3>1, <1>1, <1>2, Types DEF Answers, Fresh
  <2>2. /\ tab' \in [Tabs -> TabStates'] /\ faults' \in 0..MaxFaults
        /\ minted' \subseteq [key : Keys, at : 0..MaxTime, ends : SessionTTL..MaxTime + SessionTTL]
        /\ Sessions' /\ WithdrawnKeysFade' /\ Logins(t)' /\ Mutex(t)'
        /\ \A s \in Tabs \ {t} : tab'[s] = tab[s]
        /\ Grows
    BY <2>1, <1>2, Judged DEF FindKey
  <2>3. TypeOK' BY <1>1, <1>2, <2>2 DEF FindKey, TypeOK
  <2>4. Answers' BY <1>1, <1>2 DEF FindKey, Answers
  <2>5. \A s \in Tabs \ {t} : Logins(s)' /\ Mutex(s)'
    BY <1>2, <2>2, OtherTab DEF FindKey
  <2> QED BY <2>2, <2>3, <2>4, <2>5 DEF IInv
<1>3. CASE /\ fetch' = [by |-> t, nth |-> IF Fresh THEN 2 ELSE 1, body |-> {}, at |-> -1]
           /\ UNCHANGED <<tab, faults, minted>>
  <2>1. /\ fetch' \in [by : Tabs \cup {Nobody}, nth : 0..2, body : SUBSET Keys, at : -1..now]
        /\ fetch'.by = t /\ fetch'.nth \in {1, 2} /\ fetch'.body = {} /\ fetch'.at = -1
    BY <1>1, <1>3, Types
  <2>2. TypeOK'
    <3>1. TabStates' = TabStates BY DEF FindKey, TabStates
    <3> QED BY <1>1, <1>3, <2>1, <3>1 DEF FindKey, TypeOK
  <2>3. Answers' /\ Sessions' /\ WithdrawnKeysFade'
    BY <1>1, <1>3, <2>1 DEF FindKey, Answers, Sessions, WithdrawnKeysFade
  <2>4. ASSUME NEW s \in Tabs PROVE Logins(s)' /\ Mutex(s)'
    <3>1. Logins(s)' BY <1>3 DEF FindKey, Logins, IInv
    <3>2. Mutex(s)' BY <1>3, <2>1 DEF FindKey, Mutex
    <3> QED BY <3>1, <3>2
  <2> QED BY <2>2, <2>3, <2>4 DEF IInv
<1> QED BY <1>2, <1>3 DEF FindKey

LEMMA FetchTypes ==
    Unlocked \in [by : {Nobody}, nth : {0}, body : {{}}, at : {-1}]
  BY DEF Unlocked

\* The fetch fails and the callback with it.
LEMMA FetchFailsStep == ASSUME IInv, NEW t \in Tabs, FetchFails(t) PROVE IInv'
<1> USE DEF jar, provider, history
<1>1. TypeOK /\ Answers /\ Sessions /\ WithdrawnKeysFade BY DEF IInv
<1>2. PICK r \in TabStates : Answered(t, r, "fetch", tab[t].ends)
  BY <1>1, Ending DEF FetchFails, Outcomes
<1>3. logins' = logins /\ TabStates' = TabStates BY DEF FetchFails, TabStates
<1>4. /\ tab' \in [Tabs -> TabStates] /\ tab'[t] = r
      /\ \A s \in Tabs \ {t} : tab'[s] = tab[s]
  BY <1>1, <1>2, <1>3, Types, Becoming DEF Answered
<1>5. fetch'.by = Nobody /\ fetch'.body = {} /\ fetch'.at = -1
      /\ fetch' \in [by : Tabs \cup {Nobody}, nth : 0..2, body : SUBSET Keys, at : -1..now]
  BY <1>1, FetchTypes, Types DEF FetchFails, Unlocked
<1>6. TypeOK'
  <2>1. faults' \in 0..MaxFaults BY <1>1, LoginAssumption DEF FetchFails, Fault, TypeOK
  <2> QED BY <2>1, <1>1, <1>3, <1>4, <1>5 DEF FetchFails, TypeOK
<1>7. Answers' /\ Sessions' /\ WithdrawnKeysFade'
  BY <1>1, <1>5 DEF FetchFails, Answers, Sessions, WithdrawnKeysFade
<1>8. Logins(t)' /\ Mutex(t)'
  BY <1>1, <1>2, <1>4, <1>5, Types, AnsweredTab DEF Answered
<1>9. ASSUME NEW s \in Tabs \ {t} PROVE Logins(s)' /\ Mutex(s)'
  <2>1. Grows BY <1>1, Types DEF FetchFails, Grows
  <2>2. fetch'.by # s BY <1>1, <1>5, Types
  <2> QED BY <1>4, <2>1, <2>2, OtherTab DEF FetchFails
<1> QED BY <1>6, <1>7, <1>8, <1>9 DEF IInv

\* The answer arrives: the cache is what can be used of it, and the callback is
\* judged by it, asks again or gives up; or the answer cannot be read.
LEMMA FetchedStep == ASSUME IInv, NEW t \in Tabs, Fetched(t) PROVE IInv'
<1> USE DEF jar, provider
<1>1. TypeOK /\ Answers /\ Sessions /\ WithdrawnKeysFade /\ Logins(t) /\ Mutex(t)
  BY DEF IInv
<1>2. fetch.body \subseteq 1..signing /\ now - fetch.at <= FetchTimeout /\ fetch.at \in Int
      /\ tab[t].key \in Keys /\ tab[t].key \in 1..signing
  <2>1. fetch.body \subseteq 1..signing /\ now - fetch.at <= FetchTimeout
    BY DEF IInv, Fetched, Answers
  <2>2. fetch.at \in Int BY <1>1, Types
  <2>3. tab[t].key \in 1..signing BY <1>1 DEF Fetched, Logins
  <2>4. tab[t].key \in Keys BY <2>3, <1>1, KeysMade
  <2> QED BY <2>1, <2>2, <2>3, <2>4
<1>3. \A k \in fetch.body : withdrawn[k] # -1 => now - withdrawn[k] <= FetchTimeout
  <2>1. \A k \in 1..signing : withdrawn[k] \in Int BY <1>1, KeysMade
  <2> QED BY <1>1, <1>2, <2>1, Types DEF Answers
<1>4. cached' \subseteq 1..signing' /\ fetchedAt' \in -1..now'
      /\ \A k \in cached' : withdrawn'[k] # -1 => fetchedAt' - withdrawn'[k] <= FetchTimeout
  <2>1. CASE UNCHANGED <<cached, fetchedAt>> BY <2>1, <1>1 DEF Fetched, Answers, TypeOK
  <2>2. CASE cached' = Usable(fetch.body) /\ fetchedAt' = now
    <3>1. cached' \subseteq fetch.body BY <2>2 DEF Usable
    <3> QED BY <2>2, <3>1, <1>1, <1>2, <1>3, Types DEF Fetched
  <2> QED BY <2>1, <2>2 DEF Fetched
<1>5. TabStates' = TabStates BY DEF Fetched, TabStates
<1>6. CASE tab[t].key \in Usable(fetch.body) /\ Judge(t) /\ fetch' = Unlocked
  <2>1. fetch'.by = Nobody /\ fetch'.body = {} /\ fetch'.at = -1
        /\ fetch' \in [by : Tabs \cup {Nobody}, nth : 0..2, body : SUBSET Keys, at : -1..now]
    BY <1>1, <1>6, FetchTypes, Types DEF Unlocked
  <2>2. withdrawn[tab[t].key] # -1
          => now - withdrawn[tab[t].key] <= JWKSMaxAge + FetchTimeout
    BY <1>1, <1>2, <1>3, <1>6, Types DEF Usable
  <2>3. /\ tab' \in [Tabs -> TabStates'] /\ faults' \in 0..MaxFaults
        /\ minted' \subseteq [key : Keys, at : 0..MaxTime, ends : SessionTTL..MaxTime + SessionTTL]
        /\ Sessions' /\ WithdrawnKeysFade' /\ Logins(t)' /\ Mutex(t)'
        /\ \A s \in Tabs \ {t} : tab'[s] = tab[s]
        /\ Grows
    BY <2>1, <2>2, <1>6, Judged DEF Fetched
  <2>4. TypeOK' BY <1>1, <1>4, <2>1, <2>3 DEF Fetched, TypeOK
  <2>5. Answers' BY <1>4, <2>1 DEF Answers
  <2>6. ASSUME NEW s \in Tabs \ {t} PROVE Logins(s)' /\ Mutex(s)'
    <3>1. fetch'.by # s BY <1>1, <2>1, Types
    <3> QED BY <2>3, <3>1, OtherTab DEF Fetched
  <2> QED BY <2>3, <2>4, <2>5, <2>6 DEF IInv
<1>7. CASE /\ fetch' = [by |-> t, nth |-> 2, body |-> {}, at |-> -1]
           /\ UNCHANGED <<tab, faults, minted>>
  <2>1. /\ fetch' \in [by : Tabs \cup {Nobody}, nth : 0..2, body : SUBSET Keys, at : -1..now]
        /\ fetch'.by = t /\ fetch'.nth = 2 /\ fetch'.body = {} /\ fetch'.at = -1
    BY <1>1, <1>7, Types
  <2>2. TypeOK' BY <1>1, <1>4, <1>5, <1>7, <2>1 DEF Fetched, TypeOK
  <2>3. Answers' /\ Sessions' /\ WithdrawnKeysFade'
    BY <1>1, <1>4, <1>7, <2>1 DEF Fetched, Answers, Sessions, WithdrawnKeysFade
  <2>4. ASSUME NEW s \in Tabs PROVE Logins(s)' /\ Mutex(s)'
    <3>1. Logins(s)' BY <1>7 DEF Fetched, Logins, IInv
    <3>2. Mutex(s)' BY <1>7, <2>1 DEF Fetched, Mutex
    <3> QED BY <3>1, <3>2
  <2> QED BY <2>2, <2>3, <2>4 DEF IInv
<1>8. CASE /\ \/ tab[t].key \notin Usable(fetch.body) /\ Readable(fetch.body) /\ End(t, "unknown")
              \/ End(t, "fetch")
           /\ fetch' = Unlocked /\ UNCHANGED <<faults, minted>>
  <2>1. fetch'.by = Nobody /\ fetch'.body = {} /\ fetch'.at = -1
        /\ fetch' \in [by : Tabs \cup {Nobody}, nth : 0..2, body : SUBSET Keys, at : -1..now]
    BY <1>1, <1>8, FetchTypes, Types DEF Unlocked
  <2>2. PICK r \in TabStates :
          \/ /\ Answered(t, r, "unknown", tab[t].ends)
             /\ tab[t].key \notin Usable(fetch.body) /\ Readable(fetch.body)
          \/ Answered(t, r, "fetch", tab[t].ends)
    BY <1>1, <1>8, Ending DEF Outcomes
  <2>3. /\ tab' \in [Tabs -> TabStates] /\ tab'[t] = r
        /\ \A s \in Tabs \ {t} : tab'[s] = tab[s]
    BY <1>1, <2>2, <1>5, Types, Becoming DEF Answered, Fetched
  <2>4. TypeOK' BY <1>1, <1>4, <1>5, <1>8, <2>1, <2>3 DEF Fetched, TypeOK
  <2>5. Answers' /\ Sessions' /\ WithdrawnKeysFade'
    BY <1>1, <1>4, <1>8, <2>1 DEF Fetched, Answers, Sessions, WithdrawnKeysFade
  <2>6. r.outcome = "unknown" => withdrawn[tab[t].key] # -1 \/ form[tab[t].key] = "skipped"
    <3>1. tab[t].key \in fetch.body \/ withdrawn[tab[t].key] # -1 BY <1>1 DEF Fetched, Mutex
    <3>2. form[tab[t].key] \in Forms BY <1>1, <1>2, Types
    <3>3. r.outcome = "unknown" =>
             tab[t].key \notin Usable(fetch.body) /\ Readable(fetch.body)
      BY <2>2 DEF Answered
    <3> QED BY <3>1, <3>2, <3>3 DEF Usable, Readable, Forms
  <2>7. Logins(t)' /\ Mutex(t)'
    BY <1>1, <1>2, <2>1, <2>2, <2>3, <2>6, Types, AnsweredTab DEF Answered, Fetched
  <2>8. ASSUME NEW s \in Tabs \ {t} PROVE Logins(s)' /\ Mutex(s)'
    <3>1. Grows BY <1>1, <1>8, Types DEF Fetched, Grows
    <3>2. fetch'.by # s BY <1>1, <2>1, Types
    <3> QED BY <2>3, <3>1, <3>2, OtherTab DEF Fetched
  <2> QED BY <2>4, <2>5, <2>7, <2>8 DEF IInv
<1> QED BY <1>6, <1>7, <1>8 DEF Fetched

\* The response reaches the browser.
LEMMA RespondStep == ASSUME IInv, NEW t \in Tabs, Respond(t) PROVE IInv'
<1> USE DEF provider, cache
<1>1. TypeOK /\ Answers /\ Sessions /\ WithdrawnKeysFade /\ Logins(t) BY DEF IInv
<1>2. AtHome \in TabStates /\ AtHome.step = "home" /\ AtHome.outcome = "none"
  BY <1>1, Types DEF AtHome, TabStates, Outcomes
<1>3. logins' = logins /\ TabStates' = TabStates BY DEF Respond, TabStates
<1>4. /\ tab' \in [Tabs -> TabStates] /\ tab'[t] = AtHome
      /\ \A s \in Tabs \ {t} : tab'[s] = tab[s]
  BY <1>1, <1>2, <1>3, Types, Becoming DEF Respond, Becomes
<1>5. Pending(Tabs \ {t}) \subseteq 1..logins
  <2>1. ASSUME NEW s \in Tabs, tab[s].step = "provider" PROVE tab[s].login \in 1..logins
    BY <2>1, <1>1, Types DEF IInv, Logins, TabStates
  <2> QED BY <2>1 DEF Pending
<1>6. TypeOK'
  <2>1. session' \in 0..MaxTime + SessionTTL
    BY <1>1, Types DEF Respond, TypeOK, TabStates
  <2>2. disturbed' \subseteq 1..logins BY <1>1, <1>5 DEF Respond, TypeOK
  <2>3. cookie' \in 0..logins BY <1>1, Types DEF Respond
  <2> QED BY <2>1, <2>2, <2>3, <1>1, <1>3, <1>4 DEF Respond, TypeOK
<1>7. Answers' /\ WithdrawnKeysFade' BY <1>1 DEF Respond, Answers, WithdrawnKeysFade
<1>8. Sessions' BY <1>1 DEF Respond, Sessions, Logins
<1>9. Logins(t)' BY <1>2, <1>4 DEF Logins
<1>10. Mutex(t)' BY <1>1 DEF Respond, IInv, Mutex
<1>11. ASSUME NEW s \in Tabs \ {t} PROVE Logins(s)' /\ Mutex(s)'
  <2>1. Grows BY <1>1, Types DEF Respond, Grows
  <2>2. tab[s].step = "provider" => tab[s].login \in disturbed' BY DEF Respond, Pending
  <2> QED BY <1>4, <2>1, <2>2, OtherTab DEF Respond
<1> QED BY <1>6, <1>7, <1>8, <1>9, <1>10, <1>11 DEF IInv

\* The provider writes its answer: what it does not publish it has withdrawn.
LEMMA ServeStep == ASSUME IInv, Serve PROVE IInv'
<1> USE DEF jar, provider, history
<1>1. TypeOK /\ Answers /\ Sessions /\ WithdrawnKeysFade BY DEF IInv
<1>2. /\ Published \subseteq 1..signing /\ Published \subseteq Keys
      /\ \A k \in 1..signing : k \in Published \/ withdrawn[k] # -1
      /\ \A k \in Published : withdrawn[k] = -1
  <2>1. Published \subseteq 1..signing BY DEF Published
  <2>2. Published \subseteq Keys BY <2>1, <1>1, KeysMade
  <2>3. /\ \A k \in 1..signing : k \in Published \/ withdrawn[k] # -1
        /\ \A k \in Published : withdrawn[k] = -1
    BY DEF Published
  <2> QED BY <2>1, <2>2, <2>3
<1>3. /\ fetch'.by = fetch.by /\ fetch'.nth = fetch.nth
      /\ fetch'.body = Published /\ fetch'.at = now
      /\ fetch' \in [by : Tabs \cup {Nobody}, nth : 0..2, body : SUBSET Keys, at : -1..now]
  <2> DEFINE f == [fetch EXCEPT !.body = Published]
  <2>1. /\ f \in [by : Tabs \cup {Nobody}, nth : 0..2, body : SUBSET Keys, at : -1..now]
        /\ f.by = fetch.by /\ f.nth = fetch.nth /\ f.body = Published
    BY <1>1, <1>2, Types
  <2>2. fetch' = [f EXCEPT !.at = now] BY DEF Serve
  <2>3. now \in -1..now BY <1>1, Types
  <2> HIDE DEF f
  <2> QED BY <2>1, <2>2, <2>3
<1>4. TabStates' = TabStates BY DEF Serve, TabStates
<1>5. TypeOK' BY <1>1, <1>3, <1>4 DEF Serve, TypeOK
<1>6. Answers'
  <2>1. now - now <= FetchTimeout BY <1>1, Types
  <2> QED BY <1>1, <1>2, <1>3, <2>1 DEF Serve, Answers
<1>7. Sessions' /\ WithdrawnKeysFade' BY <1>1 DEF Serve, Sessions, WithdrawnKeysFade
<1>8. ASSUME NEW s \in Tabs PROVE Logins(s)' /\ Mutex(s)'
  <2>1. Logins(s) /\ Mutex(s) BY DEF IInv
  <2>2. Logins(s)' BY <2>1 DEF Serve, Logins
  <2>3. Mutex(s)' BY <2>1, <1>2, <1>3 DEF Serve, Mutex, Logins
  <2> QED BY <2>2, <2>3
<1> QED BY <1>5, <1>6, <1>7, <1>8 DEF IInv

LEMMA LogoutStep == ASSUME IInv, Logout PROVE IInv'
<1> USE DEF provider, cache, history
<1>1. TypeOK /\ Answers /\ Sessions /\ WithdrawnKeysFade BY DEF IInv
<1>2. TypeOK'
  <2>1. TabStates' = TabStates BY DEF Logout, TabStates
  <2>2. session' \in 0..MaxTime + SessionTTL BY <1>1, Types DEF Logout
  <2> QED BY <1>1, <2>1, <2>2 DEF Logout, TypeOK
<1>3. Answers' /\ Sessions' /\ WithdrawnKeysFade'
  BY <1>1 DEF Logout, Answers, Sessions, WithdrawnKeysFade
<1>4. ASSUME NEW s \in Tabs PROVE Logins(s)' /\ Mutex(s)'
  BY DEF Logout, IInv, Logins, Mutex
<1> QED BY <1>2, <1>3, <1>4 DEF IInv

LEMMA RotateStep == ASSUME IInv, Rotate PROVE IInv'
<1> USE DEF jar, cache, history
<1>1. TypeOK /\ Answers /\ Sessions /\ WithdrawnKeysFade BY DEF IInv
<1>2. signing' \in 1..MaxKey /\ \A k \in 1..signing : k \in 1..signing'
  BY <1>1, Types DEF Rotate
<1>3. TypeOK'
  <2>1. TabStates' = TabStates BY DEF Rotate, TabStates
  <2>2. cached' \subseteq 1..signing' BY <1>1, <1>2 DEF Rotate, TypeOK
  <2> QED BY <1>1, <1>2, <2>1, <2>2 DEF Rotate, TypeOK, Keys
<1>4. Answers' /\ Sessions' /\ WithdrawnKeysFade'
  BY <1>1, <1>2 DEF Rotate, Answers, Sessions, WithdrawnKeysFade
<1>5. ASSUME NEW s \in Tabs PROVE Logins(s)' /\ Mutex(s)'
  BY <1>2 DEF Rotate, IInv, Logins, Mutex
<1> QED BY <1>3, <1>4, <1>5 DEF IInv

\* A key withdrawn now has not been in the cache for long.
LEMMA WithdrawStep == ASSUME IInv, NEW k \in Keys, Withdraw(k) PROVE IInv'
<1> USE DEF jar, cache, history
<1>1. TypeOK /\ Answers /\ Sessions /\ WithdrawnKeysFade BY DEF IInv
<1>2. /\ now \in 0..MaxTime /\ now # -1 /\ k \in 1..signing
      /\ withdrawn'[k] = now /\ withdrawn' \in [Keys -> -1..MaxTime]
      /\ \A j \in Keys \ {k} : withdrawn'[j] = withdrawn[j]
  BY <1>1, Types DEF Withdraw, Published, TypeOK
<1>3. TypeOK'
  <2>1. TabStates' = TabStates BY DEF Withdraw, TabStates
  <2> QED BY <1>1, <1>2, <2>1 DEF Withdraw, TypeOK
<1>4. Answers'
  <2>1. 1..signing \subseteq Keys BY <1>1, KeysMade
  <2>2. fetch.at \in Int /\ fetch.at <= now BY <1>1, Types
  <2>3. fetchedAt - now <= FetchTimeout BY <1>1, Types
  <2>4. ASSUME NEW j \in fetch.body, withdrawn'[j] # -1 PROVE withdrawn'[j] >= fetch.at
    BY <2>1, <2>2, <2>4, <1>1, <1>2 DEF Answers
  <2>5. ASSUME NEW j \in cached, withdrawn'[j] # -1
        PROVE  fetchedAt - withdrawn'[j] <= FetchTimeout
    BY <2>1, <2>3, <2>5, <1>1, <1>2, Types DEF Answers
  <2> QED BY <2>4, <2>5, <1>1 DEF Withdraw, Answers
<1>5. Sessions' BY <1>1 DEF Withdraw, Sessions
<1>6. WithdrawnKeysFade'
  <2>1. ASSUME NEW m \in minted, withdrawn'[m.key] # -1
        PROVE  m.at - withdrawn'[m.key] <= JWKSMaxAge + FetchTimeout
    <3>1. m.key \in Keys /\ m.at \in Int /\ m.at <= now
      BY <1>1, Types DEF Sessions
    <3>2. CASE m.key = k BY <3>1, <3>2, <1>1, <1>2, Types
    <3>3. CASE m.key # k BY <3>1, <3>3, <2>1, <1>1, <1>2 DEF WithdrawnKeysFade
    <3> QED BY <3>2, <3>3
  <2> QED BY <2>1 DEF Withdraw, WithdrawnKeysFade
<1>7. ASSUME NEW s \in Tabs PROVE Logins(s)' /\ Mutex(s)'
  <2>1. Grows BY <1>1, <1>2, Types DEF Withdraw, Grows
  <2> QED BY <2>1, OtherTab DEF Withdraw
<1> QED BY <1>3, <1>4, <1>5, <1>6, <1>7 DEF IInv

LEMMA TickStep == ASSUME IInv, Tick PROVE IInv'
<1> USE DEF jar, provider, cache, history
<1>1. TypeOK /\ Answers /\ Sessions /\ WithdrawnKeysFade BY DEF IInv
<1>2. now' = now + 1 /\ now' \in 0..MaxTime /\ now <= now'
  BY <1>1, Types DEF Tick
<1>3. TypeOK'
  <2>1. TabStates' = TabStates BY DEF Tick, TabStates
  <2>2. fetchedAt' \in -1..now' BY <1>1, <1>2, Types DEF Tick, TypeOK
  <2>3. fetch' \in [by : Tabs \cup {Nobody}, nth : 0..2, body : SUBSET Keys, at : -1..now']
    BY <1>1, <1>2, Types DEF Tick
  <2> QED BY <1>1, <1>2, <2>1, <2>2, <2>3 DEF Tick, TypeOK
<1>4. Answers'
  <2>1. fetch.at # -1 => now' - fetch.at <= FetchTimeout BY <1>1, <1>2, Types DEF Tick
  <2> QED BY <2>1, <1>1 DEF Tick, Answers
<1>5. Sessions' BY <1>1, <1>2, Types DEF Tick, Sessions
<1>6. WithdrawnKeysFade' BY <1>1 DEF Tick, WithdrawnKeysFade
<1>7. ASSUME NEW s \in Tabs PROVE Logins(s)' /\ Mutex(s)'
  BY DEF Tick, IInv, Logins, Mutex
<1> QED BY <1>3, <1>4, <1>5, <1>6, <1>7 DEF IInv

LEMMA NextIInv == IInv /\ [Next]_vars => IInv'
<1> SUFFICES ASSUME IInv, [Next]_vars PROVE IInv' OBVIOUS
<1>1. CASE UNCHANGED vars
  BY <1>1 DEF vars, jar, provider, cache, history, IInv, TypeOK, TabStates, Answers, Sessions,
     WithdrawnKeysFade, Logins, Mutex
<1>2. CASE Next
  BY <1>1, <1>2, BeginStep, CallbackStep, ExchangeStep, FindKeyStep, FetchedStep,
     FetchFailsStep, RespondStep, ServeStep, LogoutStep, RotateStep, TickStep, WithdrawStep
  DEF Next, Idle
<1> QED BY <1>1, <1>2

LEMMA Invariance == Spec => []IInv
  BY InitIInv, NextIInv, PTL DEF Spec

-----------------------------------------------------------------------------
(* The properties                                                          *)

\* Every variable keeps its type: no key is cached that was never published, and
\* no session outlives its TTL from the last tick on (oidc.go, jwks.go, session.go).
THEOREM TypeCorrect == Spec => []TypeOK
<1>1. IInv => TypeOK BY DEF IInv
<1> QED BY <1>1, Invariance, PTL

\* No session is minted on a key that the provider withdrew longer ago than
\* the cache's bound and the time an answer may take, whatever these are
\* (jwksCache.key, jwks.go:82-98).
THEOREM KeysFade == Spec => []WithdrawnKeysFade
<1>1. IInv => WithdrawnKeysFade BY DEF IInv
<1> QED BY <1>1, Invariance, PTL

\* A login fails for an unknown key only if the key was withdrawn, or is published
\* in a form that is skipped: the one immediate re-fetch is enough for every
\* rotation among keys that are understood (jwks.go:84-103, 126-177).
THEOREM RotationHarmless == Spec => []RotationBreaksNoLogin
<1>1. IInv => RotationBreaksNoLogin BY DEF IInv, Logins, RotationBreaksNoLogin
<1> QED BY <1>1, Invariance, PTL

\* What cookies alone reach was paid for by a session that was minted no longer
\* ago than a session lasts (Checker.Allow, auth.go:82-142; sessionFrom, session.go:43-64).
THEOREM Earned == Spec => []AllowedIsEarned
<1>1. IInv => AllowedIsEarned
  <2> SUFFICES ASSUME IInv, mode = "oidc", NEW browser \in BOOLEAN, NEW get \in BOOLEAN,
                      NEW header \in BOOLEAN, Allow(browser, get, FALSE, header)
               PROVE  /\ get \/ header
                      /\ \E m \in minted : m.ends = session /\ now - m.at < SessionTTL
    BY DEF AllowedIsEarned
  <2>1. now < session /\ (get \/ header) BY DEF Allow, SessionOK
  <2>2. session # 0 BY <2>1, Types DEF IInv
  <2>3. PICK m \in minted : m.ends = session /\ m.ends = m.at + SessionTTL
    BY <2>2 DEF IInv, Sessions
  <2>4. m.at \in Int /\ now \in Int /\ SessionTTL \in Int BY Types DEF IInv
  <2> QED BY <2>1, <2>3, <2>4
<1> QED BY <1>1, Invariance, PTL

\* A login that no other tab interferes with passes the state check in time
\* (Callback, oidc.go:137-147).
THEOREM Undisturbed == Spec => UndisturbedLoginPasses
<1>1. IInv /\ [Next]_vars =>
        [\A t \in Tabs : tab[t].step = "provider" /\ tab[t]'.outcome = "state" =>
            tab[t].login \in disturbed \/ now >= cookieEnds]_vars
  <2> SUFFICES ASSUME IInv, Next, NEW t \in Tabs, tab[t].step = "provider",
                      tab[t]'.outcome = "state"
               PROVE  tab[t].login \in disturbed \/ now >= cookieEnds
    BY DEF vars
  <2>1. tab'[t] # tab[t] /\ TypeOK BY DEF IInv, Logins
  <2>2. ASSUME NEW s \in Tabs,
               \/ Begin(s) \/ Callback(s) \/ Exchange(s) \/ FindKey(s)
               \/ Fetched(s) \/ FetchFails(s) \/ Respond(s)
        PROVE  Callback(t) /\ ~StateOK(t)
    <3>1. s = t
      BY <2>1, <2>2, Types DEF Begin, Callback, Exchange, FindKey, Fetched, FetchFails, Respond,
         Judge, End
    <3>2. Begin(t) \/ Callback(t)
      BY <2>2, <3>1 DEF Exchange, FindKey, Fetched, FetchFails, Respond
    <3>3. ~Begin(t)
      <4> DEFINE a == [AtHome EXCEPT !.step = "provider"]
                 r == [a EXCEPT !.login = logins + 1]
      <4>1. r.outcome # "state"
        <5>1. a \in [DOMAIN AtHome -> {a[f] : f \in DOMAIN AtHome}] /\ a.outcome = "none"
          BY DEF AtHome
        <5> HIDE DEF a
        <5> QED BY <5>1 DEF AtHome
      <4> HIDE DEF r
      <4>2. Begin(t) => tab'[t] = r BY <2>1, Types DEF Begin, r
      <4> QED BY <4>1, <4>2
    <3>4. ASSUME End(t, "provider") PROVE FALSE
      <4>1. PICK r \in TabStates : Answered(t, r, "provider", tab[t].ends)
        BY <3>4, <2>1, Ending DEF Outcomes
      <4>2. tab'[t] = r BY <4>1, <2>1, Types DEF Answered, Becomes
      <4> QED BY <4>1, <4>2 DEF Answered
    <3>5. ASSUME tab' = [tab EXCEPT ![t].step = "exchange"] PROVE FALSE
      <4>1. tab'[t] = [tab[t] EXCEPT !.step = "exchange"] BY <3>5, <2>1, Types
      <4>2. tab'[t].outcome = tab[t].outcome BY <4>1, <2>1, Types DEF TabStates
      <4> QED BY <4>2 DEF IInv, Logins
    <3> QED BY <3>2, <3>3, <3>4, <3>5 DEF Callback
  <2>3. ~(Serve \/ Logout \/ Rotate \/ Tick \/ Idle \/ \E k \in Keys : Withdraw(k))
    BY <2>1 DEF Serve, Logout, Rotate, Tick, Idle, Withdraw, vars
  <2>4. Callback(t) /\ ~StateOK(t) BY <2>2, <2>3 DEF Next
  <2> QED BY <2>1, <2>4, Types DEF StateOK, IInv, Logins
<1> QED BY <1>1, Invariance, PTL DEF Spec, UndisturbedLoginPasses
=============================================================================
