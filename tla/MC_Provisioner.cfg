\* Racing get_or_create_user_key calls against the Credential Authority.
CONSTANTS
    None = None
    e1 = e1
    e2 = e2
    u1 = u1
    u2 = u2
    c1 = c1
    c2 = c2
    c3 = c3
    Emails <- MCEmails
    UserIds <- MCUserIds
    UserIdOf <- MCUserIdOf
    Callers <- MCCallers
SYMMETRY MCSymmetry
SPECIFICATION Spec
INVARIANTS
    TypeOK
    ProvisionedKeyOwned
PROPERTIES
    AbsSpec
