\* Docstrings of utils.py and spec 4.1: no identity header value, None returned.
CONSTANTS
    None = None
    e1 = e1
    e2 = e2
    k1 = k1
    k2 = k2
    r1 = r1
    r2 = r2
    Values <- MCValues
    NameValues <- MCAllNames
    Keys <- MCKeys
    ValidKeys <- MCValidKeys
    Requests = {r1}
SPECIFICATION Spec
INVARIANTS
    NoIdentityIsNone
