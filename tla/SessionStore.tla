---------------------------- MODULE SessionStore ----------------------------
(***************************************************************************)
(* The Session Store, orizon.auth.sessions (spec 4.4), over Redis.  The    *)
(* module is not part of this snapshot; the Redis calls are the ones its   *)
(* unit tests pin: create_session is hset of the snapshot then expire,     *)
(* get_session is one hgetall (an empty hash is "no session"),             *)
(* delete_session one delete whose count is returned as a bool,            *)
(* refresh_session one expire whose reply is returned.                     *)
(*                                                                         *)
(* Each creator makes the one fresh session token named after it.  A       *)
(* Redis failure inside create is swallowed and the token still returned   *)
(* (the verify route answers 200 with the store unreachable); get, delete  *)
(* and refresh treat a failure as "absent" (spec 5, 7).  Clients are       *)
(* request tasks each making one get, delete or refresh on a token that    *)
(* was handed out.                                                         *)
(***************************************************************************)
EXTENDS Naturals

CONSTANTS
    None,       \* Python's None
    Emails,     \* user emails
    UserIds,    \* Credential Authority user ids
    Keys,       \* virtual keys
    Creators,   \* create_session calls; each makes the session token named after it
    Clients     \* get_session / delete_session / refresh_session calls

\* The snapshot hset stores: email, user_id, virtual_key (the display name
\* is carried the same way and left out).
SessionData == [email : Emails, user_id : UserIds, virtual_key : Keys]

ASSUME SessionStoreAssumption ==
    /\ None \notin SessionData \cup Creators
    /\ Creators # {}

Ops == {"get", "delete", "refresh"}

VARIABLES
    sess,     \* sess[s]: the Redis hash of session s, None when the key is absent
    sttl,     \* sttl[s]: the key of s carries an expiry
    spc,      \* spc[s]: where create_session for s is
    sreq,     \* sreq[s]: the snapshot create_session was called with
    opc,      \* opc[c]: where client c is
    oop,      \* oop[c]: the operation client c made
    otok,     \* otok[c]: the session token client c used
    ores,     \* ores[c]: the record get_session returned, None otherwise
    oflag,    \* oflag[c]: the bool delete_session or refresh_session returned
    ended,    \* ended: sessions whose delete returned True or whose TTL ran out (history)
    oended    \* oended[c]: otok[c] had ended when client c's call ran (history)

svars == <<sess, sttl, spc, sreq>>
ovars == <<opc, oop, otok, ores, oflag, ended, oended>>
vars == <<svars, ovars>>

TypeOK ==
    /\ sess \in [Creators -> SessionData \cup {None}]
    /\ sttl \in [Creators -> BOOLEAN]
    /\ spc \in [Creators -> {"idle", "expire", "done"}]
    /\ sreq \in [Creators -> SessionData \cup {None}]
    /\ opc \in [Clients -> {"idle", "done"}]
    /\ oop \in [Clients -> Ops \cup {None}]
    /\ otok \in [Clients -> Creators \cup {None}]
    /\ ores \in [Clients -> SessionData \cup {None}]
    /\ oflag \in [Clients -> BOOLEAN]
    /\ ended \subseteq Creators
    /\ oended \in [Clients -> BOOLEAN]

Init ==
    /\ sess = [s \in Creators |-> None]
    /\ sttl = [s \in Creators |-> FALSE]
    /\ spc = [s \in Creators |-> "idle"]
    /\ sreq = [s \in Creators |-> None]
    /\ opc = [c \in Clients |-> "idle"]
    /\ oop = [c \in Clients |-> None]
    /\ otok = [c \in Clients |-> None]
    /\ ores = [c \in Clients |-> None]
    /\ oflag = [c \in Clients |-> FALSE]
    /\ ended = {}
    /\ oended = [c \in Clients |-> FALSE]

\* A session token handed out: create_session returned it.
Issued(s) == spc[s] = "done"

\* Fault variant: the hash keyed by the user id rather than the session
\* token, so every session of one user shares a single Redis key.
create_session_hset_by_user(s, d) ==
    /\ spc[s] = "idle"
    /\ sreq' = [sreq EXCEPT ![s] = d]
    /\ \/ /\ sess' = [t \in Creators |->
                      IF t = s \/ (sreq[t] # None /\ sreq[t].user_id = d.user_id)
                      THEN d ELSE sess[t]]
          /\ spc' = [spc EXCEPT ![s] = "expire"]
       \/ /\ spc' = [spc EXCEPT ![s] = "done"]
          /\ UNCHANGED sess
    /\ UNCHANGED sttl

\* create_session, first call: hset of the snapshot, or a caught failure
\* after which the (never stored) token is still returned.
create_session_hset(s, d) ==
    /\ spc[s] = "idle"
    /\ sreq' = [sreq EXCEPT ![s] = d]
    /\ \/ /\ sess' = [sess EXCEPT ![s] = d]
          /\ spc' = [spc EXCEPT ![s] = "expire"]
       \/ /\ spc' = [spc EXCEPT ![s] = "done"]
          /\ UNCHANGED sess
    /\ UNCHANGED sttl

\* create_session, second call: expire(key, SESSION_TTL), or a caught failure.
create_session_expire(s) ==
    /\ spc[s] = "expire"
    /\ \/ sttl' = [sttl EXCEPT ![s] = TRUE]
       \/ UNCHANGED sttl
    /\ spc' = [spc EXCEPT ![s] = "done"]
    /\ UNCHANGED <<sess, sreq>>

\* Client c's single call on token s ran: record it and its results.
Answer(c, s, op, r, b) ==
    /\ opc' = [opc EXCEPT ![c] = "done"]
    /\ oop' = [oop EXCEPT ![c] = op]
    /\ otok' = [otok EXCEPT ![c] = s]
    /\ ores' = [ores EXCEPT ![c] = r]
    /\ oflag' = [oflag EXCEPT ![c] = b]
    /\ oended' = [oended EXCEPT ![c] = s \in ended]

\* Fault variant: hgetall's empty dict returned as it is, not as None.
get_session_raw(c, s) ==
    /\ opc[c] = "idle" /\ Issued(s)
    /\ \/ Answer(c, s, "get", IF sess[s] = None THEN [f \in {} |-> None] ELSE sess[s], FALSE)
       \/ Answer(c, s, "get", None, FALSE)
    /\ UNCHANGED <<svars, ended>>

\* get_session: hgetall; an empty hash or a failure is None.
get_session(c, s) ==
    /\ opc[c] = "idle" /\ Issued(s)
    /\ \/ Answer(c, s, "get", sess[s], FALSE)
       \/ Answer(c, s, "get", None, FALSE)
    /\ UNCHANGED <<svars, ended>>

\* delete_session: delete; True when a key was removed, False on failure.
delete_session(c, s) ==
    /\ opc[c] = "idle" /\ Issued(s)
    /\ \/ /\ sess' = [sess EXCEPT ![s] = None]
          /\ sttl' = [sttl EXCEPT ![s] = FALSE]
          /\ ended' = IF sess[s] # None THEN ended \cup {s} ELSE ended
          /\ Answer(c, s, "delete", None, sess[s] # None)
       \/ /\ Answer(c, s, "delete", None, FALSE)
          /\ UNCHANGED <<sess, sttl, ended>>
    /\ UNCHANGED <<spc, sreq>>

\* Fault variant: the expiry renewed by rewriting the snapshot with a TTL
\* (SET ... EX without a check that the key still exists).
refresh_session_rewrite(c, s) ==
    /\ opc[c] = "idle" /\ Issued(s)
    /\ sess' = [sess EXCEPT ![s] = IF sreq[s] = None THEN @ ELSE sreq[s]]
    /\ sttl' = [sttl EXCEPT ![s] = sreq[s] # None]
    /\ Answer(c, s, "refresh", None, sreq[s] # None)
    /\ UNCHANGED <<spc, sreq, ended>>

\* refresh_session: expire(key, SESSION_TTL); Redis answers False, and sets
\* nothing, for a key that does not exist; a failure is False.
refresh_session(c, s) ==
    /\ opc[c] = "idle" /\ Issued(s)
    /\ \/ /\ sttl' = [sttl EXCEPT ![s] = IF sess[s] # None THEN TRUE ELSE @]
          /\ Answer(c, s, "refresh", None, sess[s] # None)
       \/ /\ Answer(c, s, "refresh", None, FALSE)
          /\ UNCHANGED sttl
    /\ UNCHANGED <<sess, spc, sreq, ended>>

\* Redis removes a key whose TTL ran out.
RedisExpire(s) ==
    /\ sess[s] # None /\ sttl[s]
    /\ sess' = [sess EXCEPT ![s] = None]
    /\ sttl' = [sttl EXCEPT ![s] = FALSE]
    /\ ended' = ended \cup {s}
    /\ UNCHANGED <<spc, sreq, opc, oop, otok, ores, oflag, oended>>

\* Every call has returned.
Terminated ==
    /\ \A s \in Creators : spc[s] = "done"
    /\ \A c \in Clients : opc[c] = "done"
    /\ UNCHANGED vars

Next ==
    \/ \E s \in Creators :
          \/ \E d \in SessionData : create_session_hset(s, d) /\ UNCHANGED ovars
          \/ create_session_expire(s) /\ UNCHANGED ovars
          \/ RedisExpire(s)
    \/ \E c \in Clients, s \in Creators :
          get_session(c, s) \/ delete_session(c, s) \/ refresh_session(c, s)
    \/ Terminated

Spec == Init /\ [][Next]_vars

-----------------------------------------------------------------------------
(***************************************************************************)
(* Properties.                                                             *)
(***************************************************************************)

(* Session round trip (spec 8): a get_session that returns a record       *)
(* returns exactly the email, user_id and virtual_key create_session was   *)
(* called with for that token, whatever the interleaving with deletes,     *)
(* refreshes and expiry.                                                   *)
SessionRoundTrip ==
    \A c \in Clients :
        ores[c] # None => ores[c] = sreq[otok[c]]

(* Once a logout (delete_session returning True) or the TTL has ended a    *)
(* session, no later get_session returns it and no later refresh_session   *)
(* reports it alive: refresh extends an existing key and never recreates   *)
(* a deleted one (spec 4.4, 8).                                            *)
EndedStaysEnded ==
    \A c \in Clients :
        oended[c] => ores[c] = None /\ ~oflag[c]

=============================================================================
