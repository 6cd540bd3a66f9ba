--------------------------- MODULE MC_TokenStore ---------------------------
(* Model-checking instance of TokenStore: two tokens, two concurrent     *)
(* verifiers that may click the same link, two emails.                   *)
EXTENDS TokenStore, TLC

CONSTANTS a1, a2, t1, t2, v1, v2

MCEmails == {a1, a2}
MCIssuers == {t1, t2}
MCVerifiers == {v1, v2}
\* Verifiers are interchangeable (safety runs only).
MCSymmetry == Permutations(MCVerifiers)
=============================================================================
