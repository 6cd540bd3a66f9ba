--------------------------- MODULE MC_Provisioner ---------------------------
(* Model-checking instance of Provisioner: three concurrent calls over two *)
(* emails, so that two calls can race to create the same new user while a *)
(* third provisions another or an existing one.                            *)
EXTENDS Provisioner, TLC

CONSTANTS e1, e2, u1, u2, c1, c2, c3

MCEmails == {e1, e2}
MCUserIds == {u1, u2}
\* generate_user_id on the two emails: distinct ids.
MCUserIdOf == (e1 :> u1) @@ (e2 :> u2)
MCCallers == {c1, c2, c3}
MCSymmetry == Permutations(MCCallers)
=============================================================================
