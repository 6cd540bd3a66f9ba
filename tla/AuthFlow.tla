------------------------------ MODULE AuthFlow ------------------------------
(***************************************************************************)
(* The external sign-in flow (spec 2, 6): the route handlers of            *)
(* orizon.auth.routes composed with the Token Store, the Credential        *)
(* Provisioner and the Session Store, each an INSTANCE of its own module   *)
(* whose variables are shared with this one.  Every handler is a request   *)
(* task; each of its awaits is a step of the component it calls, so the   *)
(* tasks interleave at every store and Authority call.                     *)
(*                                                                         *)
(*   POST /api/auth/signup  get_or_create_user_key(email), 500 on failure,  *)
(*                          else create_magic_link_token(email, True), 200 *)
(*   POST /api/auth/login   get_user(email) (result not revealed), then     *)
(*                          create_magic_link_token(email, False), 200     *)
(*   GET  /api/auth/verify  verify_magic_link_token(token), 400 on None;    *)
(*                          get_or_create_user_key(email), 500 on failure; *)
(*                          create_session(...), set the cookie, 200       *)
(*                                                                         *)
(* The routes module is not part of this snapshot: the order of the calls  *)
(* and the status codes are the ones test_routes.py pins.  A token is      *)
(* named after the signup or login that issued it, a session after the     *)
(* verify that created it, a virtual key after the provisioning call.      *)
(***************************************************************************)
EXTENDS Naturals

CONSTANTS
    None,         \* Python's None
    Emails,       \* user emails
    UserIds,      \* Authority user ids
    UserIdOf,     \* generate_user_id, as a function of the email
    Signups,      \* POST /api/auth/signup requests
    Logins,       \* POST /api/auth/login requests
    Verifies      \* GET /api/auth/verify requests

Tokens == Signups \cup Logins
Callers == Signups \cup Verifies
Handlers == Signups \cup Logins \cup Verifies

VARIABLES
    store, ttl, ipc, ireq, vpc, vtok, vdata, vres,         \* Token Store
    users, keyOwner, cpc, cemail, cres,                    \* Provisioner
    sess, sttl, spc, sreq, opc, oop, otok, ores, oflag,    \* Session Store
    ended, oended,
    rpc,      \* rpc[h]: where handler h is
    remail,   \* remail[h]: the email a login request names
    rresp,    \* rresp[h]: the status code handler h answered
    rcookie   \* rcookie[v]: the session cookie verify v set, None if none

Tok == INSTANCE TokenStore WITH Issuers <- Tokens, Verifiers <- Verifies
Prov == INSTANCE Provisioner
Sess == INSTANCE SessionStore WITH Keys <- Callers, Creators <- Verifies, Clients <- {}

\* The components' own assumptions on None and generate_user_id, and each
\* request is a task of its own: no request is both a signup and a verify.
ASSUME AuthFlowAssumption ==
    /\ None \notin Tokens \cup Tok!StoredToken \cup Tok!TokenData
    /\ None \notin Emails \cup UserIds \cup Callers \cup Prov!Result
    /\ UserIdOf \in [Emails -> UserIds]
    /\ \A e, f \in Emails : UserIdOf[e] = UserIdOf[f] => e = f
    /\ Signups \cap Logins = {}
    /\ Signups \cap Verifies = {}
    /\ Logins \cap Verifies = {}

tvars == <<store, ttl, ipc, ireq, vpc, vtok, vdata, vres>>
pvars == <<users, keyOwner, cpc, cemail, cres>>
svars == <<sess, sttl, spc, sreq, opc, oop, otok, ores, oflag, ended, oended>>
rvars == <<rpc, remail, rresp, rcookie>>
vars == <<tvars, pvars, svars, rvars>>

Statuses == {200, 400, 500}

TypeOK ==
    /\ Tok!TypeOK
    /\ Prov!TypeOK
    /\ Sess!TypeOK
    /\ rpc \in [Handlers -> {"idle", "provision", "get_user", "issue", "verify", "session", "done"}]
    /\ remail \in [Handlers -> Emails \cup {None}]
    /\ rresp \in [Handlers -> Statuses \cup {None}]
    /\ rcookie \in [Verifies -> Verifies \cup {None}]

Init ==
    /\ Tok!Init /\ Prov!Init /\ Sess!Init
    /\ rpc = [h \in Handlers |-> "idle"]
    /\ remail = [h \in Handlers |-> None]
    /\ rresp = [h \in Handlers |-> None]
    /\ rcookie = [v \in Verifies |-> None]

\* Handler h answers with status code.
Respond(h, code) ==
    /\ rpc' = [rpc EXCEPT ![h] = "done"]
    /\ rresp' = [rresp EXCEPT ![h] = code]

\* A step of create_magic_link_token for h; once it has returned, the
\* handler answers 200 (the token is never echoed).
IssueStep(h, step) ==
    /\ step
    /\ IF ipc'[h] = "done" THEN Respond(h, 200)
       ELSE rpc' = [rpc EXCEPT ![h] = "issue"] /\ UNCHANGED rresp
    /\ UNCHANGED <<pvars, svars, remail, rcookie>>

-----------------------------------------------------------------------------
(* POST /api/auth/signup *)

signup_request(h) ==
    /\ rpc[h] = "idle"
    /\ \E e \in Emails : Prov!Call(h) /\ cemail'[h] = e
    /\ rpc' = [rpc EXCEPT ![h] = "provision"]
    /\ UNCHANGED <<tvars, svars, remail, rresp, rcookie>>

signup_provision(h) ==
    /\ rpc[h] = "provision"
    /\ Prov!CallStep(h)
    /\ UNCHANGED <<tvars, svars, rvars>>

\* get_or_create_user_key returned: 500 on (None, None), else
\* create_magic_link_token(email, is_signup=True).
signup_issue(h) ==
    /\ rpc[h] = "provision" /\ cpc[h] = "done"
    /\ \/ /\ cres[h] = None
          /\ Respond(h, 500)
          /\ UNCHANGED <<tvars, pvars, svars, remail, rcookie>>
       \/ /\ cres[h] # None
          /\ IssueStep(h, Tok!create_magic_link_token_hset(h)
                          /\ ireq'[h] = [email |-> cemail[h], is_signup |-> TRUE])

SignupStep(h) ==
    \/ signup_provision(h)
    \/ signup_issue(h)
    \/ rpc[h] = "issue" /\ IssueStep(h, Tok!create_magic_link_token_expire(h))

-----------------------------------------------------------------------------
(* POST /api/auth/login: get_user is awaited and its answer only logged, *)
(* so the response is the same whether the user exists or not.          *)

login_get_user(h) ==
    /\ rpc[h] = "idle"
    /\ \E e \in Emails : remail' = [remail EXCEPT ![h] = e]
    /\ rpc' = [rpc EXCEPT ![h] = "get_user"]
    /\ UNCHANGED <<tvars, pvars, svars, rresp, rcookie>>

\* get_user returned (user or None alike):
\* create_magic_link_token(email, is_signup=False).
login_issue(h) ==
    /\ rpc[h] = "get_user"
    /\ IssueStep(h, Tok!create_magic_link_token_hset(h)
                    /\ ireq'[h] = [email |-> remail[h], is_signup |-> FALSE])

LoginStep(h) ==
    \/ login_issue(h)
    \/ rpc[h] = "issue" /\ IssueStep(h, Tok!create_magic_link_token_expire(h))

-----------------------------------------------------------------------------
(* GET /api/auth/verify?token=t *)

verify_request(v) ==
    /\ rpc[v] = "idle"
    /\ \E t \in Tokens :
          Tok!verify_magic_link_token_hgetall(v, t)
    /\ rpc' = [rpc EXCEPT ![v] = "verify"]
    /\ UNCHANGED <<pvars, svars, remail, rresp, rcookie>>

verify_delete(v) ==
    /\ rpc[v] = "verify"
    /\ Tok!verify_magic_link_token_delete(v)
    /\ UNCHANGED <<pvars, svars, rvars>>

\* Fault variant: the user is provisioned for an email the request names,
\* not the one the consumed token carries.
verify_provision_start_request_email(v) ==
    /\ rpc[v] = "verify" /\ vpc[v] = "done"
    /\ \/ /\ vres[v] = None
          /\ Respond(v, 400)
          /\ UNCHANGED <<pvars, remail, rcookie>>
       \/ /\ vres[v] # None
          /\ \E e \in Emails : Prov!Call(v) /\ cemail'[v] = e
          /\ rpc' = [rpc EXCEPT ![v] = "provision"]
          /\ UNCHANGED <<remail, rresp, rcookie>>
    /\ UNCHANGED <<tvars, svars>>

\* verify_magic_link_token returned: 400 on None, else provision the user
\* of the email the token carries.
verify_provision_start(v) ==
    /\ rpc[v] = "verify" /\ vpc[v] = "done"
    /\ \/ /\ vres[v] = None
          /\ Respond(v, 400)
          /\ UNCHANGED <<pvars, remail, rcookie>>
       \/ /\ vres[v] # None
          /\ Prov!Call(v) /\ cemail'[v] = vres[v].email
          /\ rpc' = [rpc EXCEPT ![v] = "provision"]
          /\ UNCHANGED <<remail, rresp, rcookie>>
    /\ UNCHANGED <<tvars, svars>>

verify_provision(v) ==
    /\ rpc[v] = "provision"
    /\ Prov!CallStep(v)
    /\ UNCHANGED <<tvars, svars, rvars>>

\* A step of create_session for v; once it has returned, the cookie is set
\* to the session token and the handler answers 200 with the email.
SessionStep(v, step) ==
    /\ step
    /\ IF spc'[v] = "done"
       THEN Respond(v, 200) /\ rcookie' = [rcookie EXCEPT ![v] = v]
       ELSE rpc' = [rpc EXCEPT ![v] = "session"] /\ UNCHANGED <<rresp, rcookie>>
    /\ UNCHANGED <<tvars, pvars, remail, opc, oop, otok, ores, oflag, ended, oended>>

\* get_or_create_user_key returned: 500 on (None, None), else
\* create_session(email, user_id, virtual_key).
verify_session(v) ==
    /\ rpc[v] = "provision" /\ cpc[v] = "done"
    /\ \/ /\ cres[v] = None
          /\ Respond(v, 500)
          /\ UNCHANGED <<tvars, pvars, svars, remail, rcookie>>
       \/ /\ cres[v] # None
          /\ SessionStep(v, Sess!create_session_hset(v,
                   [email |-> cemail[v], user_id |-> cres[v].user_id,
                    virtual_key |-> cres[v].key]))

VerifyStep(v) ==
    \/ verify_delete(v)
    \/ verify_provision_start(v)
    \/ verify_provision(v)
    \/ verify_session(v)
    \/ rpc[v] = "session" /\ SessionStep(v, Sess!create_session_expire(v))

-----------------------------------------------------------------------------

\* Redis drops keys whose TTL ran out.
Expiry ==
    \/ \E t \in Tokens : Tok!RedisExpire(t) /\ UNCHANGED <<pvars, svars, rvars>>
    \/ \E s \in Verifies : Sess!RedisExpire(s) /\ UNCHANGED <<tvars, pvars, rvars>>

Terminated ==
    /\ \A h \in Handlers : rpc[h] = "done"
    /\ UNCHANGED vars

Next ==
    \/ \E h \in Signups : signup_request(h) \/ SignupStep(h)
    \/ \E h \in Logins : login_get_user(h) \/ LoginStep(h)
    \/ \E v \in Verifies : verify_request(v) \/ VerifyStep(v)
    \/ Expiry
    \/ Terminated

Spec == Init /\ [][Next]_vars

-----------------------------------------------------------------------------
(***************************************************************************)
(* Properties.                                                             *)
(***************************************************************************)

(* Every session the verify route creates is for the email whose magic     *)
(* link that verify consumed, under the user id generate_user_id gives     *)
(* that email, and carries a virtual key the Authority holds for that      *)
(* user: however signups, logins and verifies of the same email race       *)
(* through the three stores.                                               *)
SessionOwnedByVerifiedEmail ==
    \A v \in Verifies :
        sreq[v] # None =>
            LET e == sreq[v].email IN
            /\ vres[v] # None
            /\ e = ireq[vtok[v]].email
            /\ sreq[v].user_id = UserIdOf[e]
            /\ keyOwner[sreq[v].virtual_key] = sreq[v].user_id

(* A verify that answered 200 set a cookie naming a session that was       *)
(* stored: the browser is signed in (spec 2: "Session Store issues a        *)
(* session -> session cookie returned"), unless it since expired.          *)
VerifiedSessionStored ==
    \A v \in Verifies :
        rresp[v] = 200 => (sess[v] # None \/ v \in ended)


(* One magic link signs in at most one browser: two verify requests that   *)
(* presented the same token never both create a session (spec 4.2, 5:      *)
(* single use).                                                           *)
OneSessionPerLink ==
    \A v, w \in Verifies :
        (sreq[v] # None /\ sreq[w] # None /\ vtok[v] = vtok[w]) => v = w

=============================================================================
