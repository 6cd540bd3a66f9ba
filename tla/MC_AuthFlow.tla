---------------------------- MODULE MC_AuthFlow ----------------------------
(* Model-checking instance of AuthFlow: two emails, one signup, one login *)
(* and two verify requests, which may present the same magic link.        *)
EXTENDS AuthFlow, TLC

CONSTANTS a1, a2, u1, u2, h1, l1, v1, v2

MCEmails == {a1, a2}
MCUserIds == {u1, u2}
MCUserIdOf == (a1 :> u1) @@ (a2 :> u2)
\* The two verify requests are interchangeable.
MCSymmetry == Permutations({v1, v2})
=============================================================================
