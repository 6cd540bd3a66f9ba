------------------------------ MODULE UserKeys ------------------------------
(***************************************************************************)
(* What the Credential Provisioner promises (spec 3, 4.3, 5), with no      *)
(* Authority round trips in it: a call is asked once for an email and      *)
(* answers once.  Serving it may register the email's user, never anyone   *)
(* else's, and mints one key for that user; the call then answers the user *)
(* and the key, or (when it timed out after the Authority acted) nothing,  *)
(* leaving the key minted.  A call may also answer nothing and change      *)
(* nothing (an Authority failure).                                         *)
(***************************************************************************)
CONSTANTS
    None,       \* no answer, no user, no key
    Emails,     \* user emails
    UserIds,    \* Authority user ids
    UserIdOf,   \* generate_user_id, as a function of the email
    Callers     \* calls; the key a call mints is named after it

VARIABLES
    account,    \* account[u]: the email user u was registered for, None if none
    owner,      \* owner[c]: the user of the key call c minted, None if none
    asked,      \* asked[c]: the email call c was asked for, None before
    answer,     \* answer[c]: what call c answered, None for nothing
    answered    \* the calls that have answered

uvars == <<account, owner, asked, answer, answered>>

Init ==
    /\ account = [u \in UserIds |-> None]
    /\ owner = [c \in Callers |-> None]
    /\ asked = [c \in Callers |-> None]
    /\ answer = [c \in Callers |-> None]
    /\ answered = {}

\* Call c is asked to provision email e.
Ask(c, e) ==
    /\ asked[c] = None
    /\ asked' = [asked EXCEPT ![c] = e]
    /\ UNCHANGED <<account, owner, answer, answered>>

\* Call c is served: the user of its email exists afterwards, and a key is
\* minted for that user; c answers both, or nothing if it timed out.
Provide(c) ==
    LET e == asked[c]
        u == UserIdOf[e]
    IN  /\ e # None /\ c \notin answered
        /\ account[u] \in {None, e}
        /\ account' = [account EXCEPT ![u] = e]
        /\ owner' = [owner EXCEPT ![c] = u]
        /\ \/ answer' = [answer EXCEPT ![c] = [user_id |-> u, email |-> e, key |-> c]]
           \/ UNCHANGED answer
        /\ answered' = answered \cup {c}
        /\ UNCHANGED asked

\* Call c answers nothing and changes nothing.
Refuse(c) ==
    /\ asked[c] # None /\ c \notin answered
    /\ answered' = answered \cup {c}
    /\ UNCHANGED <<account, owner, asked, answer>>

Next ==
    \E c \in Callers :
        \/ \E e \in Emails : Ask(c, e)
        \/ Provide(c)
        \/ Refuse(c)

Spec == Init /\ [][Next]_uvars

=============================================================================
