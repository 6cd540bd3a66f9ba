----------------------------- MODULE Provisioner -----------------------------
(***************************************************************************)
(* The Credential Provisioner, get_or_create_user_key(email) (spec 4.3),   *)
(* against the Credential Authority, LiteLLM, whose API the integration    *)
(* tests drive: GET /user/info, POST /user/new (creates the user and       *)
(* returns its first key), POST /key/generate (a new key for a user).      *)
(* The provisioning code itself is not part of this snapshot.              *)
(*                                                                         *)
(* Callers are concurrent request tasks, each making one call.  Each       *)
(* Authority call is a suspension point and may fail; a failure yields the *)
(* (None, None) result.  A create that loses a race with another create of *)
(* the same user gets "user already exists" and falls back to generating a *)
(* key.  The key a call mints is named after the call.                     *)
(***************************************************************************)
EXTENDS Naturals

CONSTANTS
    None,        \* Python's None
    Emails,      \* user emails
    UserIds,     \* Authority user ids
    UserIdOf,    \* generate_user_id, as a function of the email
    Callers      \* concurrent get_or_create_user_key calls

\* What a successful call returns: the user record and the virtual key.
Result == [user_id : UserIds, email : Emails, key : Callers]

ASSUME ProvisionerAssumption ==
    /\ None \notin Emails \cup UserIds \cup Callers \cup Result
    /\ UserIdOf \in [Emails -> UserIds]
    \* spec 3, 8: the derivation is deterministic and injective
    /\ \A e, f \in Emails : UserIdOf[e] = UserIdOf[f] => e = f

VARIABLES
    users,     \* users[u]: the email of Authority user u, None if none
    keyOwner,  \* keyOwner[c]: the user the key minted by call c belongs to
    cpc,       \* cpc[c]: where call c is
    cemail,    \* cemail[c]: the email call c provisions
    cres       \* cres[c]: the (user, key) call c returned, None on failure

vars == <<users, keyOwner, cpc, cemail, cres>>

TypeOK ==
    /\ users \in [UserIds -> Emails \cup {None}]
    /\ keyOwner \in [Callers -> UserIds \cup {None}]
    /\ cpc \in [Callers -> {"idle", "get", "create", "generate", "done"}]
    /\ cemail \in [Callers -> Emails \cup {None}]
    /\ cres \in [Callers -> Result \cup {None}]

Init ==
    /\ users = [u \in UserIds |-> None]
    /\ keyOwner = [c \in Callers |-> None]
    /\ cpc = [c \in Callers |-> "idle"]
    /\ cemail = [c \in Callers |-> None]
    /\ cres = [c \in Callers |-> None]

generate_user_id(e) == UserIdOf[e]

\* The call returns (None, None) after a failed Authority call.
Fail(c) ==
    /\ cpc' = [cpc EXCEPT ![c] = "done"]
    /\ UNCHANGED <<users, keyOwner, cres>>

\* Fault variants of a success: the user id returned in place of the key,
\* and /key/generate called without user_id (a key owned by nobody).
SucceedUserIdAsKey(c, u) ==
    /\ keyOwner' = [keyOwner EXCEPT ![c] = u]
    /\ cres' = [cres EXCEPT ![c] = [user_id |-> u, email |-> users'[u], key |-> u]]
    /\ cpc' = [cpc EXCEPT ![c] = "done"]

SucceedKeyWithoutUser(c, u) ==
    /\ keyOwner' = [keyOwner EXCEPT ![c] = None]
    /\ cres' = [cres EXCEPT ![c] = [user_id |-> u, email |-> users'[u], key |-> c]]
    /\ cpc' = [cpc EXCEPT ![c] = "done"]

\* The call returns the user record of u and its freshly minted key.
Succeed(c, u) ==
    /\ keyOwner' = [keyOwner EXCEPT ![c] = u]
    /\ cres' = [cres EXCEPT ![c] = [user_id |-> u, email |-> users'[u], key |-> c]]
    /\ cpc' = [cpc EXCEPT ![c] = "done"]

\* The Authority carried out the call, which then timed out at the caller:
\* the key it minted for c exists, and c returns (None, None) (spec 5).
TimedOut(c, u) ==
    /\ keyOwner' = [keyOwner EXCEPT ![c] = u]
    /\ cpc' = [cpc EXCEPT ![c] = "done"]
    /\ UNCHANGED cres

\* get_or_create_user_key(email) is called.
Call(c) ==
    /\ cpc[c] = "idle"
    /\ \E e \in Emails : cemail' = [cemail EXCEPT ![c] = e]
    /\ cpc' = [cpc EXCEPT ![c] = "get"]
    /\ UNCHANGED <<users, keyOwner, cres>>

\* get_user: GET /user/info?user_id=generate_user_id(email).
get_user(c) ==
    LET u == generate_user_id(cemail[c]) IN
    /\ cpc[c] = "get"
    /\ \/ /\ users[u] = None
          /\ cpc' = [cpc EXCEPT ![c] = "create"]
          /\ UNCHANGED <<users, keyOwner, cres>>
       \/ /\ users[u] # None
          /\ cpc' = [cpc EXCEPT ![c] = "generate"]
          /\ UNCHANGED <<users, keyOwner, cres>>
       \/ Fail(c)
    /\ UNCHANGED cemail

\* create_user: POST /user/new; the Authority rejects an existing user id,
\* and the provisioner falls back to generating a key for it.
create_user(c) ==
    LET u == generate_user_id(cemail[c]) IN
    /\ cpc[c] = "create"
    /\ \/ /\ users[u] = None
          /\ users' = [users EXCEPT ![u] = cemail[c]]
          /\ Succeed(c, u) \/ TimedOut(c, u)
       \/ /\ users[u] # None
          /\ cpc' = [cpc EXCEPT ![c] = "generate"]
          /\ UNCHANGED <<users, keyOwner, cres>>
       \/ Fail(c)
    /\ UNCHANGED cemail

\* generate_key: POST /key/generate for the existing user.
generate_key(c) ==
    LET u == generate_user_id(cemail[c]) IN
    /\ cpc[c] = "generate"
    /\ \/ /\ UNCHANGED users
          /\ Succeed(c, u) \/ TimedOut(c, u)
       \/ Fail(c)
    /\ UNCHANGED cemail

Terminated ==
    /\ \A c \in Callers : cpc[c] \in {"idle", "done"}
    /\ UNCHANGED vars

CallStep(c) == get_user(c) \/ create_user(c) \/ generate_key(c)

Next ==
    \/ \E c \in Callers : Call(c) \/ CallStep(c)
    \/ Terminated

\* A started call runs to its end.
Spec == Init /\ [][Next]_vars /\ \A c \in Callers : WF_vars(CallStep(c))

-----------------------------------------------------------------------------
(***************************************************************************)
(* Properties.                                                             *)
(***************************************************************************)

(* Every successful get_or_create_user_key(e) returns the user record of   *)
(* e, under the id generate_user_id(e), and a key the Authority holds for  *)
(* that same user, however the calls for e race (spec 4.3).                *)
ProvisionedKeyOwned ==
    \A c \in Callers :
        cres[c] # None =>
            /\ cres[c].user_id = generate_user_id(cemail[c])
            /\ cres[c].email = cemail[c]
            /\ keyOwner[cres[c].key] = cres[c].user_id

-----------------------------------------------------------------------------
(***************************************************************************)
(* Refinement of the promise UserKeys.  The Authority's user records are   *)
(* the accounts, the key minted by a call is owned as keyOwner says, a     *)
(* call is asked once Call ran and has answered once it is done; get_user  *)
(* and the fall-back from create to generate are internal steps.           *)
(***************************************************************************)
Abs == INSTANCE UserKeys
         WITH account <- users, owner <- keyOwner, asked <- cemail,
              answer <- cres, answered <- {c \in Callers : cpc[c] = "done"}

(* The provisioner implements its promise: every step of a call is an ask, *)
(* a serve that registers at most the user of the call's own email and     *)
(* mints one key for it, a refusal that changes nothing, or is invisible.  *)
AbsSpec == Abs!Spec

=============================================================================
