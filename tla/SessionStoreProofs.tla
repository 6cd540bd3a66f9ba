------------------------- MODULE SessionStoreProofs -------------------------
(***************************************************************************)
(* Proofs about SessionStore for every set of emails, user ids, keys,      *)
(* sessions and clients: type correctness, that get_session returns only   *)
(* the snapshot create_session stored for that token, and that a session   *)
(* a logout or its TTL ended is never returned or reported alive again.    *)
(***************************************************************************)
EXTENDS SessionStore, TLAPS

(***************************************************************************)
(* The inductive invariant.  The two properties speak of answers given in  *)
(* the past; they stay true because a session key is written only by the  *)
(* one create_session call that names it, before it is handed out, and so  *)
(* is never written again once a client can use it or once it has ended.   *)
(***************************************************************************)
StoredIsRequested ==
    \A s \in Creators : sess[s] # None => spc[s] # "idle" /\ sess[s] = sreq[s]

EndedIsGone ==
    \A s \in ended : sess[s] = None /\ spc[s] # "idle"

AnsweredIssued ==
    \A c \in Clients :
        opc[c] = "done" => otok[c] \in Creators /\ spc[otok[c]] = "done"

IdleUnanswered ==
    \A c \in Clients : opc[c] = "idle" => ores[c] = None /\ ~oended[c]

IInv ==
    /\ TypeOK
    /\ StoredIsRequested
    /\ EndedIsGone
    /\ AnsweredIssued
    /\ IdleUnanswered
    /\ SessionRoundTrip
    /\ EndedStaysEnded

USE SessionStoreAssumption

LEMMA InitIInv == Init => IInv
BY DEF Init, IInv, TypeOK, StoredIsRequested, EndedIsGone, AnsweredIssued,
       IdleUnanswered, SessionRoundTrip, EndedStaysEnded

LEMMA NextIInv == IInv /\ [Next]_vars => IInv'
<1> SUFFICES ASSUME IInv, [Next]_vars PROVE IInv'
  OBVIOUS
<1> USE DEF IInv, TypeOK, StoredIsRequested, EndedIsGone, AnsweredIssued,
            IdleUnanswered, SessionRoundTrip, EndedStaysEnded
<1>1. ASSUME NEW s \in Creators, NEW d \in SessionData,
             create_session_hset(s, d), UNCHANGED ovars
      PROVE  IInv'
  BY <1>1 DEF create_session_hset, ovars
<1>2. ASSUME NEW s \in Creators, create_session_expire(s), UNCHANGED ovars
      PROVE  IInv'
  BY <1>2 DEF create_session_expire, ovars
<1>3. ASSUME NEW s \in Creators, RedisExpire(s) PROVE IInv'
  BY <1>3 DEF RedisExpire
<1>4. ASSUME NEW c \in Clients, NEW s \in Creators, get_session(c, s)
      PROVE  IInv'
  <2>1. opc[c] = "idle" /\ spc[s] = "done" /\ UNCHANGED <<svars, ended>>
    BY <1>4 DEF get_session, Issued
  <2>2. CASE Answer(c, s, "get", sess[s], FALSE)
    BY <2>1, <2>2 DEF Answer, svars, Ops
  <2>3. CASE Answer(c, s, "get", None, FALSE)
    BY <2>1, <2>3 DEF Answer, svars, Ops
  <2>4. QED
    BY <1>4, <2>2, <2>3 DEF get_session
<1>5. ASSUME NEW c \in Clients, NEW s \in Creators, delete_session(c, s)
      PROVE  IInv'
  <2>1. opc[c] = "idle" /\ spc[s] = "done" /\ UNCHANGED <<spc, sreq>>
    BY <1>5 DEF delete_session, Issued
  <2>2. CASE /\ sess' = [sess EXCEPT ![s] = None]
             /\ sttl' = [sttl EXCEPT ![s] = FALSE]
             /\ ended' = IF sess[s] # None THEN ended \cup {s} ELSE ended
             /\ Answer(c, s, "delete", None, sess[s] # None)
    BY <2>1, <2>2 DEF Answer, Ops
  <2>3. CASE /\ Answer(c, s, "delete", None, FALSE)
             /\ UNCHANGED <<sess, sttl, ended>>
    BY <2>1, <2>3 DEF Answer, Ops
  <2>4. QED
    BY <1>5, <2>2, <2>3 DEF delete_session
<1>6. ASSUME NEW c \in Clients, NEW s \in Creators, refresh_session(c, s)
      PROVE  IInv'
  <2>1. /\ opc[c] = "idle" /\ spc[s] = "done"
        /\ UNCHANGED <<sess, spc, sreq, ended>>
    BY <1>6 DEF refresh_session, Issued
  <2>2. CASE /\ sttl' = [sttl EXCEPT ![s] = IF sess[s] # None THEN TRUE ELSE @]
             /\ Answer(c, s, "refresh", None, sess[s] # None)
    <3>1. sttl' \in [Creators -> BOOLEAN]
      BY <2>2
    <3>2. Answer(c, s, "refresh", None, sess[s] # None)
      BY <2>2
    <3>3. TypeOK'
      BY <2>1, <3>1, <3>2 DEF Answer, Ops
    <3>4. StoredIsRequested' /\ EndedIsGone' /\ AnsweredIssued' /\ IdleUnanswered'
      BY <2>1, <3>2 DEF Answer
    <3>5. SessionRoundTrip' /\ EndedStaysEnded'
      BY <2>1, <3>2 DEF Answer
    <3>6. QED
      BY <3>3, <3>4, <3>5
  <2>3. CASE /\ Answer(c, s, "refresh", None, FALSE)
             /\ UNCHANGED sttl
    BY <2>1, <2>3 DEF Answer, Ops
  <2>4. QED
    BY <1>6, <2>2, <2>3 DEF refresh_session
<1>7. CASE Terminated \/ UNCHANGED vars
  BY <1>7 DEF Terminated, vars, svars, ovars
<1>8. QED
  BY <1>1, <1>2, <1>3, <1>4, <1>5, <1>6, <1>7 DEF Next

THEOREM IInvariant == Spec => []IInv
BY InitIInv, NextIInv, PTL DEF Spec

-----------------------------------------------------------------------------
(***************************************************************************)
(* The theorems.                                                           *)
(***************************************************************************)

(* Type correctness of every reachable state of the session store.         *)
THEOREM TypeCorrect == Spec => []TypeOK
BY IInvariant, PTL DEF IInv

(* SessionRoundTrip: a get_session that returns a record returns exactly  *)
(* the snapshot create_session stored under that token, whatever deletes,  *)
(* refreshes, expiries and failures interleave with it.                    *)
THEOREM RoundTrip == Spec => []SessionRoundTrip
BY IInvariant, PTL DEF IInv

(* EndedStaysEnded: once a logout or the TTL ended a session, no later     *)
(* get_session returns it and no later refresh_session reports it alive.   *)
THEOREM NoResurrection == Spec => []EndedStaysEnded
BY IInvariant, PTL DEF IInv

=============================================================================
