\* Two tabs, two logins, a key and its successor in any form, one failure, keys
\* that live one tick.
CONSTANTS
    Tabs = {t1, t2}
    Modes = {"nil", "none", "token", "oidc"}
    MaxLogin = 2
    MaxKey = 2
    Publications <- MCPublications
    MaxTime = 3
    MaxFaults = 1
    JWKSMaxAge = 1
    StateTTL = 2
    SessionTTL = 2
    FetchTimeout = 1
    Nobody = nobody
SPECIFICATION FairSpec
INVARIANTS TypeOK WithdrawnKeysFade RotationBreaksNoLogin AllowedIsEarned
PROPERTIES UndisturbedLoginPasses EveryCallbackEnds
