\* The comment on pageIndex against the code.
CONSTANTS
    Slugs = {"note", "post"}
    Visitors = {v1, v2}
    Tags = {x, y}
    Absent = absent
    Size <- MCSizes
    Budgets = {3}
    TTL = 1
    MaxLatency = 1
SPECIFICATION Spec
SYMMETRY Symmetric
PROPERTIES WithinWindow
