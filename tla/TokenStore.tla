----------------------------- MODULE TokenStore -----------------------------
(***************************************************************************)
(* The magic-link Token Store (spec 4.2, 5): create_magic_link_token,      *)
(* verify_magic_link_token and invalidate_token of orizon.auth.tokens, a   *)
(* module that is not part of this snapshot (only its tests are).  The    *)
(* backing store is Redis: one hash per token with a per-key TTL.          *)
(*                                                                         *)
(* Issuers and verifiers are concurrent request tasks.  Each issuer        *)
(* creates one fresh token, named after the issuer (secrets-generated      *)
(* tokens never collide).  Every Redis call may fail; the functions catch  *)
(* the failure, issue still returns its token and verify returns None.     *)
(* verify is the hgetall-then-delete sequence the unit tests pin           *)
(* (test_tokens.py 92-112), two Redis calls from the client, not the       *)
(* atomic get-and-delete spec 5 asks for.                                  *)
(***************************************************************************)
EXTENDS Naturals

CONSTANTS
    None,          \* Python's None; also an empty hgetall result
    Emails,        \* claimed identities
    Issuers,       \* issuing tasks, each creating the token of its name
    Verifiers      \* verifying tasks (clicks on magic links)

\* The hash stored under magic_link:<token>; is_signup is stored as "1"/"0".
StoredToken == [email : Emails, is_signup : {"1", "0"}]
\* What verify returns: is_signup coerced back to a boolean.
TokenData == [email : Emails, is_signup : BOOLEAN]

ASSUME TokenStoreAssumption ==
    /\ None \notin Issuers
    /\ None \notin StoredToken \cup TokenData

VARIABLES
    store,   \* store[t]: the hash of token t, None when the key is absent
    ttl,     \* ttl[t]: the key of token t carries an expiry
    ipc,     \* ipc[i]: where issuer i is in create_magic_link_token
    ireq,    \* ireq[i]: the email and flow issuer i was called with
    vpc,     \* vpc[v]: where verifier v is in verify_magic_link_token
    vtok,    \* vtok[v]: the token verifier v was given
    vdata,   \* vdata[v]: what verifier v's hgetall returned
    vres     \* vres[v]: what verify_magic_link_token returned to v

vars == <<store, ttl, ipc, ireq, vpc, vtok, vdata, vres>>

TypeOK ==
    /\ store \in [Issuers -> StoredToken \cup {None}]
    /\ ttl \in [Issuers -> BOOLEAN]
    /\ ipc \in [Issuers -> {"idle", "expire", "done"}]
    /\ ireq \in [Issuers -> TokenData \cup {None}]
    /\ vpc \in [Verifiers -> {"idle", "delete", "done"}]
    /\ vtok \in [Verifiers -> Issuers \cup {None}]
    /\ vdata \in [Verifiers -> StoredToken \cup {None}]
    /\ vres \in [Verifiers -> TokenData \cup {None}]

Init ==
    /\ store = [t \in Issuers |-> None]
    /\ ttl = [t \in Issuers |-> FALSE]
    /\ ipc = [i \in Issuers |-> "idle"]
    /\ ireq = [i \in Issuers |-> None]
    /\ vpc = [v \in Verifiers |-> "idle"]
    /\ vtok = [v \in Verifiers |-> None]
    /\ vdata = [v \in Verifiers |-> None]
    /\ vres = [v \in Verifiers |-> None]

\* Fault variant: str(is_signup) stored in place of the "1"/"0" flag.
EncodeStr(d) == [email |-> d.email, is_signup |-> IF d.is_signup THEN "True" ELSE "False"]

\* The mapping hset writes: "1" if is_signup else "0".
Encode(d) == [email |-> d.email, is_signup |-> IF d.is_signup THEN "1" ELSE "0"]

\* Fault variant of the coercion: a test against the wrong literal.
DecodeTrueString(s) == [email |-> s.email, is_signup |-> s.is_signup = "true"]

\* The dict verify returns: data["is_signup"] == "1".
Decode(s) == [email |-> s.email, is_signup |-> s.is_signup = "1"]

\* A token whose link was handed out: create_magic_link_token returned it.
Delivered(t) == ipc[t] = "done"

(***************************************************************************)
(* create_magic_link_token: generate the token, hset its hash, then expire *)
(* it after the TTL.  A failure of the client or of hset is caught and the *)
(* token returned unstored; a failure of expire is caught too, after the   *)
(* hash was written.                                                       *)
(***************************************************************************)
create_magic_link_token_hset(i) ==
    /\ ipc[i] = "idle"
    /\ \E d \in TokenData :
         /\ ireq' = [ireq EXCEPT ![i] = d]
         /\ \/ /\ store' = [store EXCEPT ![i] = Encode(d)]
               /\ ipc' = [ipc EXCEPT ![i] = "expire"]
            \/ /\ ipc' = [ipc EXCEPT ![i] = "done"]
               /\ UNCHANGED store
    /\ UNCHANGED <<ttl, vpc, vtok, vdata, vres>>

create_magic_link_token_expire(i) ==
    /\ ipc[i] = "expire"
    /\ \/ ttl' = [ttl EXCEPT ![i] = TRUE]
       \/ UNCHANGED ttl
    /\ ipc' = [ipc EXCEPT ![i] = "done"]
    /\ UNCHANGED <<store, ireq, vpc, vtok, vdata, vres>>

(***************************************************************************)
(* verify_magic_link_token as the unit tests drive it: hgetall, return     *)
(* None on an empty hash, otherwise delete and return the data.            *)
(***************************************************************************)
verify_magic_link_token_hgetall(v, t) ==
    /\ vpc[v] = "idle"
    /\ Delivered(t)
    /\ vtok' = [vtok EXCEPT ![v] = t]
    /\ \/ /\ store[t] # None
          /\ vdata' = [vdata EXCEPT ![v] = store[t]]
          /\ vpc' = [vpc EXCEPT ![v] = "delete"]
          /\ UNCHANGED vres
       \/ /\ vpc' = [vpc EXCEPT ![v] = "done"]   \* empty hash, or a failure
          /\ UNCHANGED <<vdata, vres>>
    /\ UNCHANGED <<store, ttl, ipc, ireq>>

\* Fault variant: the delete is best effort, its failure logged and the
\* data returned all the same.
verify_magic_link_token_delete_best_effort(v) ==
    /\ vpc[v] = "delete"
    /\ vpc' = [vpc EXCEPT ![v] = "done"]
    /\ vres' = [vres EXCEPT ![v] = Decode(vdata[v])]
    /\ \/ /\ store' = [store EXCEPT ![vtok[v]] = None]
          /\ ttl' = [ttl EXCEPT ![vtok[v]] = FALSE]
       \/ UNCHANGED <<store, ttl>>
    /\ UNCHANGED <<ipc, ireq, vtok, vdata>>

\* The delete of the key just read; a failure is caught and None returned.
verify_magic_link_token_delete(v) ==
    /\ vpc[v] = "delete"
    /\ vpc' = [vpc EXCEPT ![v] = "done"]
    /\ \/ /\ store' = [store EXCEPT ![vtok[v]] = None]
          /\ ttl' = [ttl EXCEPT ![vtok[v]] = FALSE]
          /\ vres' = [vres EXCEPT ![v] = Decode(vdata[v])]
       \/ /\ UNCHANGED <<store, ttl, vres>>
    /\ UNCHANGED <<ipc, ireq, vtok, vdata>>

\* invalidate_token: delete the key of a delivered token (or fail).
invalidate_token(t) ==
    /\ Delivered(t)
    /\ store[t] # None
    /\ store' = [store EXCEPT ![t] = None]
    /\ ttl' = [ttl EXCEPT ![t] = FALSE]
    /\ UNCHANGED <<ipc, ireq, vpc, vtok, vdata, vres>>

\* Redis removes a key whose TTL has run out.
RedisExpire(t) ==
    /\ ttl[t]
    /\ store[t] # None
    /\ store' = [store EXCEPT ![t] = None]
    /\ ttl' = [ttl EXCEPT ![t] = FALSE]
    /\ UNCHANGED <<ipc, ireq, vpc, vtok, vdata, vres>>

\* Every call has returned: the workload of this instance is over.
Terminated ==
    /\ \A i \in Issuers : ipc[i] = "done"
    /\ \A v \in Verifiers : vpc[v] = "done"
    /\ UNCHANGED vars

IssuerStep(i) ==
    create_magic_link_token_hset(i) \/ create_magic_link_token_expire(i)

Next ==
    \/ \E i \in Issuers : IssuerStep(i)
    \/ \E v \in Verifiers, t \in Issuers :
          verify_magic_link_token_hgetall(v, t)
    \/ \E v \in Verifiers : verify_magic_link_token_delete(v)
    \/ \E t \in Issuers : invalidate_token(t) \/ RedisExpire(t)
    \/ Terminated

\* A started request runs on; Redis expires keys whose TTL ran out.
Fairness ==
    /\ \A i \in Issuers : WF_vars(create_magic_link_token_expire(i))
    /\ \A v \in Verifiers : WF_vars(verify_magic_link_token_delete(v))
    /\ \A t \in Issuers : WF_vars(RedisExpire(t))

Spec == Init /\ [][Next]_vars /\ Fairness

-----------------------------------------------------------------------------
(***************************************************************************)
(* Properties.                                                             *)
(***************************************************************************)

\* Verifier v got the data of its token back.
Won(v) == vpc[v] = "done" /\ vres[v] # None

(* Single use (spec 4.2, 5, 8): however verify calls on the same token     *)
(* interleave, at most one of them returns the token's data.               *)
SingleUse ==
    \A v, w \in Verifiers :
        (Won(v) /\ Won(w) /\ vtok[v] = vtok[w]) => v = w

(* A verify that succeeds returns the email and flow its token was issued  *)
(* with: the hash written by create is the one read back, and is_signup    *)
(* survives its "1"/"0" encoding.                                          *)
VerifyReturnsIssued ==
    \A v \in Verifiers : Won(v) => vres[v] = ireq[vtok[v]]

(* A link that logged someone in is gone from Redis for good: once a       *)
(* verify has returned a token's data, every later click on that link      *)
(* misses.  With the hgetall-then-delete verify only clicks whose hgetall  *)
(* came before that delete can also win (run tokens_two_step_race); the    *)
(* delete must succeed before the data is returned, and no create ever     *)
(* writes a token that was already handed out.                             *)
ConsumedLinkGone ==
    \A v \in Verifiers : Won(v) => store[vtok[v]] = None

(* A token left unconsumed does not stay valid forever: every stored token *)
(* is eventually consumed, invalidated or expired by its TTL (spec 3).     *)
TokenEventuallyUnusable ==
    \A t \in Issuers : store[t] # None ~> store[t] = None

=============================================================================
