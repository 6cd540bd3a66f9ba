\* Spec 4.5 step 2: internal requests must reach LiteLLM with a key.
CONSTANTS
    None = None
    e1 = e1
    e2 = e2
    k1 = k1
    k2 = k2
    r1 = r1
    r2 = r2
    Values <- MCValues
    NameValues <- MCNoName
    Keys <- MCKeys
    ValidKeys <- MCValidKeys
    Requests = {r1}
SPECIFICATION Spec
INVARIANTS
    InternalRequestCarriesKey
