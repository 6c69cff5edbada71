------------------------------- MODULE Login --------------------------------
(***************************************************************************)
(* The admin plane's authentication: the Checker (internal/auth/auth.go),  *)
(* the OIDC browser flow (oidc.go), the key cache (jwks.go) and the        *)
(* session cookie (session.go).                                            *)
(*                                                                         *)
(* One browser with several tabs has one cookie jar, and every tab may be  *)
(* in a login of its own.  The handlers keep nothing between requests but  *)
(* the key cache, whose mutex is held over its fetches.  A cookie changes  *)
(* when the response arrives: by then another tab may have sent a request  *)
(* or begun a login.                                                       *)
(*                                                                         *)
(* The identity provider is external: it signs with its newest key,        *)
(* withdraws old ones, and accepts a code once.  It may publish keys in a  *)
(* form that this program skips or cannot read.  A token's claims are      *)
(* right or wrong as a whole.                                              *)
(***************************************************************************)
EXTENDS Integers, FiniteSets

CONSTANTS
    Tabs,
    Modes,        \* AUTH_MODE, and "nil" for a handler without a Checker
    MaxLogin,     \* bound: logins begun
    MaxKey,       \* bound: signing keys of the provider
    Publications, \* the forms in which a provider may publish its keys
    MaxTime,      \* bound: the clock
    MaxFaults,    \* bound: failed calls to the provider and bad tokens
    JWKSMaxAge, StateTTL, SessionTTL,
    FetchTimeout, \* the client's timeout: how old a fetched answer can be
    Nobody

Keys == 1..MaxKey
\* "skipped": of another type than RS256 and ES256 over P-256, or without the
\* member "alg"; "malformed": of such a type, with numbers that cannot be read.
Forms == {"good", "skipped", "malformed"}

ASSUME LoginAssumption ==
    /\ \A n \in {MaxLogin, MaxKey, MaxTime, MaxFaults, JWKSMaxAge, StateTTL, SessionTTL,
                 FetchTimeout} : n \in Nat
    /\ StateTTL > 0 /\ SessionTTL > 0 /\ MaxKey > 0
    /\ Modes \subseteq {"nil", "none", "token", "oidc"}
    /\ Nobody \notin Tabs
    /\ Publications \subseteq [Keys -> Forms]

VARIABLES
    mode,       \* AUTH_MODE
    now,        \* the clock
    faults,     \* failures so far
    logins,     \* logins begun: login k has state k, nonce k and code k
    cookie,     \* the state cookie in the jar: a login, or 0
    cookieEnds, \* when the browser drops it
    session,    \* the session cookie in the jar: when it ends, or 0
    tab,        \* tab -> how far its login is
    signing,    \* the provider's newest key
    withdrawn,  \* key -> when the provider withdrew it, or -1
    form,       \* key -> the form in which it is published
    used,       \* codes that were exchanged
    cached,     \* the keys of the cache
    fetchedAt,  \* when they were fetched, or -1
    fetch,      \* the fetch under way: by whom (the holder of the mutex), for
                \* which of the two reasons, and the answer with its age
    disturbed,  \* logins that another login or response has interfered with
    minted      \* the sessions handed out: their keys, when, and their ends

jar == <<cookie, cookieEnds, session>>
provider == <<signing, withdrawn, form, used>>
cache == <<cached, fetchedAt, fetch>>
history == <<disturbed, minted>>
vars == <<mode, now, faults, logins, jar, tab, provider, cache, history>>

Published == {k \in 1..signing : withdrawn[k] = -1}
Unlocked == [by |-> Nobody, nth |-> 0, body |-> {}, at |-> -1]
AtHome == [step |-> "home", login |-> 0, key |-> 0, ends |-> 0, outcome |-> "none"]

Init ==
    /\ mode \in Modes
    /\ now = 0 /\ faults = 0 /\ logins = 0
    /\ cookie = 0 /\ cookieEnds = 0 /\ session = 0
    /\ tab = [t \in Tabs |-> AtHome]
    /\ signing = 1 /\ withdrawn = [k \in Keys |-> -1] /\ form \in Publications /\ used = {}
    /\ cached = {} /\ fetchedAt = -1 /\ fetch = Unlocked
    /\ disturbed = {} /\ minted = {}

Fault == faults < MaxFaults /\ faults' = faults + 1
End(t, outcome) == tab' = [tab EXCEPT ![t].step = "answer", ![t].outcome = outcome]

\* The logins whose callback is still to come.
Pending(others) == {tab[t].login : t \in {s \in others : tab[s].step = "provider"}}

\* Mutant: a state cookie that is there is not replaced.
BeginOnce(t) ==
    /\ mode = "oidc" /\ logins < MaxLogin /\ tab[t].step \in {"home", "provider"}
    /\ logins' = logins + 1
    /\ cookie' = IF cookie = 0 THEN logins + 1 ELSE cookie
    /\ cookieEnds' = now + StateTTL
    /\ tab' = [tab EXCEPT ![t] = [AtHome EXCEPT !.step = "provider", !.login = logins + 1]]
    /\ disturbed' = disturbed \cup Pending(Tabs)
    /\ UNCHANGED <<mode, now, faults, session, provider, cache, minted>>

\* GET /login: a fresh state and nonce replace those in the jar, and the tab is
\* sent to the provider, possibly a second time.
Begin(t) ==
    /\ mode = "oidc" /\ logins < MaxLogin /\ tab[t].step \in {"home", "provider"}
    /\ logins' = logins + 1
    /\ cookie' = logins + 1
    /\ cookieEnds' = now + StateTTL
    /\ tab' = [tab EXCEPT ![t] = [AtHome EXCEPT !.step = "provider", !.login = logins + 1]]
    /\ disturbed' = disturbed \cup Pending(Tabs)
    /\ UNCHANGED <<mode, now, faults, session, provider, cache, minted>>

\* GET /auth/callback: the provider reports an error, or the state in the
\* address is compared with the cookie the browser still has.
StateOK(t) == cookie = tab[t].login /\ now < cookieEnds
Callback(t) ==
    /\ tab[t].step = "provider"
    /\ \/ Fault /\ End(t, "provider")
       \/ StateOK(t) /\ tab' = [tab EXCEPT ![t].step = "exchange"] /\ UNCHANGED faults
       \/ ~StateOK(t) /\ End(t, "state") /\ UNCHANGED faults
    /\ UNCHANGED <<mode, now, logins, jar, provider, cache, history>>

\* The code for a token, at the token endpoint.
Exchange(t) ==
    /\ tab[t].step = "exchange"
    /\ \/ /\ tab[t].login \notin used
          /\ used' = used \cup {tab[t].login}
          /\ tab' = [tab EXCEPT ![t].step = "key", ![t].key = signing]
          /\ UNCHANGED faults
       \/ tab[t].login \in used /\ End(t, "exchange") /\ UNCHANGED <<used, faults>>
       \/ Fault /\ End(t, "exchange") /\ UNCHANGED used
    /\ UNCHANGED <<mode, now, logins, jar, signing, withdrawn, form, cache, history>>

\* Mutant: the session is given its time twice.
JudgeTwice(t) ==
    \/ /\ tab' = [tab EXCEPT ![t].step = "answer", ![t].outcome = "ok", ![t].ends = now + 2 * SessionTTL]
       /\ minted' = minted \cup {[key |-> tab[t].key, at |-> now, ends |-> now + 2 * SessionTTL]}
       /\ UNCHANGED faults
    \/ Fault /\ End(t, "claims") /\ UNCHANGED minted

\* validateIDToken with the key at hand, and mintSession.
SessionEnd == now + SessionTTL
Judge(t) ==
    \/ /\ tab' = [tab EXCEPT ![t].step = "answer", ![t].outcome = "ok", ![t].ends = SessionEnd]
       /\ minted' = minted \cup {[key |-> tab[t].key, at |-> now, ends |-> SessionEnd]}
       /\ UNCHANGED faults
    \/ Fault /\ End(t, "claims") /\ UNCHANGED minted

\* Mutant: keys that have been fetched never get old.
FreshForever == fetchedAt # -1
Fresh == fetchedAt # -1 /\ now - fetchedAt <= JWKSMaxAge

\* Mutant: a key that is not among fresh ones is unknown.
FindKeyCached(t) ==
    /\ tab[t].step = "key" /\ fetch.by = Nobody
    /\ \/ Fresh /\ tab[t].key \in cached /\ Judge(t) /\ UNCHANGED fetch
       \/ /\ Fresh /\ tab[t].key \notin cached
          /\ End(t, "unknown") /\ UNCHANGED <<fetch, faults, minted>>
       \/ /\ ~Fresh
          /\ fetch' = [by |-> t, nth |-> 1, body |-> {}, at |-> -1]
          /\ UNCHANGED <<tab, faults, minted>>
    /\ UNCHANGED <<mode, now, logins, jar, provider, cached, fetchedAt, disturbed>>

\* jwksCache.key: a key that is cached, or the mutex is kept over a fetch: the
\* first because there are no keys or they are old, the second because the key
\* is not among them.
FindKey(t) ==
    /\ tab[t].step = "key" /\ fetch.by = Nobody
    /\ \/ Fresh /\ tab[t].key \in cached /\ Judge(t) /\ UNCHANGED fetch
       \/ /\ ~(Fresh /\ tab[t].key \in cached)
          /\ fetch' = [by |-> t, nth |-> IF Fresh THEN 2 ELSE 1, body |-> {}, at |-> -1]
          /\ UNCHANGED <<tab, faults, minted>>
    /\ UNCHANGED <<mode, now, logins, jar, provider, cached, fetchedAt, disturbed>>

\* The provider writes its answer, which takes up to FetchTimeout to arrive.
Serve ==
    /\ fetch.by # Nobody /\ fetch.at = -1
    /\ fetch' = [fetch EXCEPT !.body = Published, !.at = now]
    /\ UNCHANGED <<mode, now, faults, logins, jar, tab, provider, cached, fetchedAt, history>>

\* Mutant: a failed fetch returns without unlocking the mutex.
FetchFailsLocked(t) ==
    /\ fetch.by = t /\ tab[t].step = "key" /\ Fault
    /\ End(t, "fetch")
    /\ UNCHANGED <<mode, now, logins, jar, provider, cache, history>>

FetchFails(t) ==
    /\ fetch.by = t /\ tab[t].step = "key" /\ Fault
    /\ fetch' = Unlocked
    /\ End(t, "fetch")
    /\ UNCHANGED <<mode, now, logins, jar, provider, cached, fetchedAt, history>>

\* What is kept of a provider's answer, and whether it is kept at all.
Usable(body) == {k \in body : form[k] = "good"}
Readable(body) == \A k \in body : form[k] # "malformed"

\* The answer arrives.  One key that cannot be read fails the whole fetch, and
\* the cache stays as it was.
Fetched(t) ==
    LET keys == Usable(fetch.body) IN
    /\ fetch.by = t /\ tab[t].step = "key" /\ fetch.at # -1
    /\ \/ /\ ~Readable(fetch.body)
          /\ End(t, "fetch") /\ fetch' = Unlocked
          /\ UNCHANGED <<cached, fetchedAt, faults, minted>>
       \/ /\ Readable(fetch.body)
          /\ cached' = keys /\ fetchedAt' = now
          /\ \/ /\ tab[t].key \in keys
                /\ Judge(t) /\ fetch' = Unlocked
             \/ /\ tab[t].key \notin keys /\ fetch.nth = 1
                /\ fetch' = [by |-> t, nth |-> 2, body |-> {}, at |-> -1]
                /\ UNCHANGED <<tab, faults, minted>>
             \/ /\ tab[t].key \notin keys /\ fetch.nth = 2
                /\ End(t, "unknown") /\ fetch' = Unlocked
                /\ UNCHANGED <<faults, minted>>
    /\ UNCHANGED <<mode, now, logins, jar, provider, disturbed>>

\* Mutant: the session is set before the token is known to be good.
RespondAlways(t) ==
    /\ tab[t].step = "answer"
    /\ cookie' = 0
    /\ session' = now + SessionTTL
    /\ disturbed' = disturbed \cup Pending(Tabs \ {t})
    /\ tab' = [tab EXCEPT ![t] = AtHome]
    /\ UNCHANGED <<mode, now, faults, logins, cookieEnds, provider, cache, minted>>

\* The response arrives: it removes the state cookie, whichever login that is
\* from by now, and brings the session if there is one.
Respond(t) ==
    /\ tab[t].step = "answer"
    /\ cookie' = 0
    /\ session' = IF tab[t].outcome = "ok" THEN tab[t].ends ELSE session
    /\ disturbed' = disturbed \cup Pending(Tabs \ {t})
    /\ tab' = [tab EXCEPT ![t] = AtHome]
    /\ UNCHANGED <<mode, now, faults, logins, cookieEnds, provider, cache, minted>>

\* POST /logout removes the cookie; there is nothing else to remove.
Logout ==
    /\ mode = "oidc" /\ session # 0
    /\ session' = 0
    /\ UNCHANGED <<mode, now, faults, logins, cookie, cookieEnds, tab, provider, cache, history>>

Rotate ==
    /\ mode = "oidc" /\ signing < MaxKey
    /\ signing' = signing + 1
    /\ UNCHANGED <<mode, now, faults, logins, jar, tab, withdrawn, form, used, cache, history>>

Withdraw(k) ==
    /\ k \in Published /\ k # signing
    /\ withdrawn' = [withdrawn EXCEPT ![k] = now]
    /\ UNCHANGED <<mode, now, faults, logins, jar, tab, signing, form, used, cache, history>>

\* An answer that is under way for longer than the timeout has failed.
Tick ==
    /\ mode = "oidc" /\ now < MaxTime
    /\ fetch.at = -1 \/ now - fetch.at < FetchTimeout
    /\ now' = now + 1
    /\ UNCHANGED <<mode, faults, logins, jar, tab, provider, cache, history>>

\* Nobody has to log in, and the clock of the model ends.
Idle == (\A t \in Tabs : tab[t].step = "home") /\ UNCHANGED vars

Next ==
    \/ \E t \in Tabs : \/ Begin(t) \/ Callback(t) \/ Exchange(t) \/ FindKey(t)
                       \/ Fetched(t) \/ FetchFails(t) \/ Respond(t)
    \/ Serve \/ Logout \/ Rotate \/ Tick \/ Idle
    \/ \E k \in Keys : Withdraw(k)

Spec == Init /\ [][Next]_vars

(* The scheduler runs handlers that can run; the provider answers or the   *)
(* client's timeout ends the call; a mutex in starvation mode is handed to *)
(* whoever waits longest.  Users and time owe nothing.                     *)
Fairness ==
    /\ WF_vars(Serve)
    /\ \A t \in Tabs : /\ WF_vars(Exchange(t)) /\ WF_vars(Fetched(t)) /\ WF_vars(Respond(t))
                       /\ SF_vars(FindKey(t))

FairSpec == Spec /\ Fairness

-----------------------------------------------------------------------------
(* What the Checker answers to a request that carries this jar.            *)

\* sessionFrom: the signature stands for a session that was minted here.
SessionOK == now < session

Allow(browser, get, bearer, header) ==
    CASE mode = "nil" -> browser
      [] mode = "none" -> TRUE
      [] mode = "token" -> browser \/ bearer
      [] mode = "oidc" -> bearer \/ (SessionOK /\ (get \/ header))

-----------------------------------------------------------------------------
(* Properties.                                                             *)

Outcomes == {"none", "ok", "provider", "state", "exchange", "claims", "fetch", "unknown"}
TabStates ==
    [step : {"home", "provider", "exchange", "key", "answer"}, login : 0..logins,
     key : 0..MaxKey, ends : 0..MaxTime + SessionTTL, outcome : Outcomes]

\* Every variable keeps its type.
TypeOK ==
    /\ mode \in Modes /\ now \in 0..MaxTime /\ faults \in 0..MaxFaults /\ logins \in 0..MaxLogin
    /\ cookie \in 0..logins /\ cookieEnds \in 0..MaxTime + StateTTL
    /\ session \in 0..MaxTime + SessionTTL
    /\ tab \in [Tabs -> TabStates]
    /\ signing \in Keys /\ withdrawn \in [Keys -> -1..MaxTime]
    /\ form \in Publications /\ used \subseteq 1..logins
    /\ cached \subseteq 1..signing /\ fetchedAt \in -1..now
    /\ fetch \in [by : Tabs \cup {Nobody}, nth : 0..2, body : SUBSET Keys, at : -1..now]
    /\ disturbed \subseteq 1..logins
    /\ minted \subseteq [key : Keys, at : 0..MaxTime, ends : SessionTTL..MaxTime + SessionTTL]

\* A login whose state is refused was interfered with by another tab, which
\* began a login or got an answer in between, or its cookie had run out: with
\* one login at a time, the state cookie never fails (oidc.go:88-148).
UndisturbedLoginPasses ==
    [][\A t \in Tabs :
           tab[t].step = "provider" /\ tab[t]'.outcome = "state" =>
               tab[t].login \in disturbed \/ now >= cookieEnds]_vars

\* A session is never minted on a key the provider withdrew longer ago than the
\* cache's bound and the time an answer may take (jwks.go:46-51, 84-103).
WithdrawnKeysFade ==
    \A m \in minted :
        withdrawn[m.key] # -1 =>
            m.at - withdrawn[m.key] <= JWKSMaxAge + FetchTimeout

\* A login fails for an unknown key only if the provider has withdrawn the key
\* that signed its token, or publishes it in a form that is skipped: whatever the
\* other tabs fetch meanwhile, one re-fetch keeps up with every rotation among
\* keys that are understood (jwks.go:46-51, 84-103, 126-177).
RotationBreaksNoLogin ==
    \A t \in Tabs :
        tab[t].outcome = "unknown" =>
            withdrawn[tab[t].key] # -1 \/ form[tab[t].key] = "skipped"

\* Whatever reaches the admin plane on the strength of cookies alone does so on
\* a session that a verified token paid for within SessionTTL, and changes
\* something only with the header that a foreign site cannot set
\* (auth.go:84-126, session.go:29-71).
AllowedIsEarned ==
    mode = "oidc" =>
        \A browser, get, header \in BOOLEAN :
            Allow(browser, get, FALSE, header) =>
                /\ get \/ header
                /\ \E m \in minted : m.ends = session /\ now - m.at < SessionTTL

\* A callback that the state check let through is answered, with the mutex of
\* the key cache held over slow and failing fetches by the other tabs.
EveryCallbackEnds ==
    \A t \in Tabs : tab[t].step \notin {"home", "provider"} ~> tab[t].step = "home"
=============================================================================
