\* Two verify requests presenting the same magic link, with the
\* hgetall-then-delete verify the unit tests drive: one link, two sessions.
CONSTANTS
    None = None
    a1 = a1
    a2 = a2
    u1 = u1
    u2 = u2
    h1 = h1
    l1 = l1
    v1 = v1
    v2 = v2
    Emails <- MCEmails
    UserIds <- MCUserIds
    UserIdOf <- MCUserIdOf
    Signups = {h1}
    Logins = {l1}
    Verifies = {v1, v2}
SPECIFICATION Spec
INVARIANTS
    OneSessionPerLink
