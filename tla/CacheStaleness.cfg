\* Two pages and every budget; entries that live one tick, requests that take one.
CONSTANTS
    Slugs = {"note", "post"}
    Visitors = {v1, v2}
    Tags = {x, y}
    Absent = absent
    Size <- MCSizes
    Budgets = {1, 2, 3}
    TTL = 1
    MaxLatency = 1
SPECIFICATION Spec
SYMMETRY Symmetric
INVARIANTS TypeOK CacheAccounts
PROPERTIES StalenessBounded NotFoundIsTrue
