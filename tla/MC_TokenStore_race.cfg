\* hgetall-then-delete verify against the single-use guarantee.
CONSTANTS
    None = None
    a1 = a1
    a2 = a2
    t1 = t1
    t2 = t2
    v1 = v1
    v2 = v2
    Emails <- MCEmails
    Issuers <- MCIssuers
    Verifiers <- MCVerifiers
SPECIFICATION Spec
INVARIANTS
    SingleUse
