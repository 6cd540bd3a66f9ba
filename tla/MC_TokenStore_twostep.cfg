\* hgetall-then-delete verify (unit tests): types, and authenticity of what it returns, and a won link is gone.
CONSTANTS
    None = None
    a1 = a1
    a2 = a2
    t1 = t1
    t2 = t2
    v1 = v1
    v2 = v2
    Emails <- MCEmails
    Issuers <- MCIssuers
    Verifiers <- MCVerifiers
SPECIFICATION Spec
SYMMETRY MCSymmetry
INVARIANTS
    TypeOK
    VerifyReturnsIssued
    ConsumedLinkGone
