\* One request task with every identity-header combination: routing,
\* extraction against the two-tier reference, and forwarding under the
\* event loop's fairness.  Dispatch tasks share no state, so one task
\* slot covers every behaviour of each request.
CONSTANTS
    None = None
    e1 = e1
    e2 = e2
    k1 = k1
    k2 = k2
    r1 = r1
    r2 = r2
    Values <- MCValues
    NameValues <- MCAllNames
    Keys <- MCKeys
    ValidKeys <- MCValidKeys
    Requests = {r1}
SPECIFICATION Spec
INVARIANTS
    TypeOK
    RoutingByIdentity
    ExtractionMatchesReference
PROPERTIES
    EveryRequestForwarded
    ResponseIsDownstream
