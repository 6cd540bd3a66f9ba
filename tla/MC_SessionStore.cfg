\* Two sessions, three concurrent get/delete/refresh calls, Redis failures
\* and TTL expiry.
CONSTANTS
    None = None
    a1 = a1
    u1 = u1
    k1 = k1
    k2 = k2
    s1 = s1
    s2 = s2
    c1 = c1
    c2 = c2
    c3 = c3
    Emails <- MCEmails
    UserIds <- MCUserIds
    Keys <- MCKeys
    Creators <- MCCreators
    Clients <- MCClients
SYMMETRY MCSymmetry
SPECIFICATION Spec
INVARIANTS
    TypeOK
    SessionRoundTrip
    EndedStaysEnded
