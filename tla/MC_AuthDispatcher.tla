------------------------- MODULE MC_AuthDispatcher -------------------------
(* Model-checking instance of AuthDispatcher: two emails, one accepted    *)
(* and one rejected bearer key; request slots are given by each cfg.      *)
EXTENDS AuthDispatcher

CONSTANTS e1, e2, k1, k2, r1, r2

MCValues == {e1, e2, k1, k2}
MCKeys == {k1, k2}
MCValidKeys == {k1}
\* User-name headers: absent only, or every value truthiness tells apart.
MCNoName == {None}
MCAllNames == {None, Empty, e1, e2}
=============================================================================
