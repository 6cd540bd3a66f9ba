-------------------------- MODULE MC_SessionStore --------------------------
(* Model-checking instance of SessionStore: two sessions of one user with *)
(* different virtual keys, and three request tasks using them.            *)
EXTENDS SessionStore, TLC

CONSTANTS a1, u1, k1, k2, s1, s2, c1, c2, c3

MCEmails == {a1}
MCUserIds == {u1}
MCKeys == {k1, k2}
MCCreators == {s1, s2}
MCClients == {c1, c2, c3}
\* Client tasks are interchangeable.
MCSymmetry == Permutations(MCClients)
=============================================================================
