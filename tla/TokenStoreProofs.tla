-------------------------- MODULE TokenStoreProofs --------------------------
(***************************************************************************)
(* Proofs about TokenStore for every set of emails, issuers and verifiers: *)
(* type correctness, authenticity of what the hgetall-then-delete verify   *)
(* returns, and that a link that logged someone in is gone for good.       *)
(***************************************************************************)
EXTENDS TokenStore, TLAPS

\* The "1"/"0" encoding of is_signup is undone by verify's coercion.
LEMMA DecodeEncode ==
    ASSUME NEW d \in TokenData
    PROVE  /\ Encode(d) \in StoredToken
           /\ Decode(Encode(d)) = d
BY DEF Encode, Decode, TokenData, StoredToken

-----------------------------------------------------------------------------
(***************************************************************************)
(* The inductive invariant.  TypeOK alone is not inductive: the delete     *)
(* step of the two-step verify decodes the hash its hgetall read, so that  *)
(* hash must be known to be the issued one.  ConsumedLinkGone rests on a   *)
(* delivered token never being written again (VerifierToken: a verifier   *)
(* only holds a delivered token) and on a failed delete returning None     *)
(* (NotYetReturned).                                                       *)
(***************************************************************************)
IssuedRecord ==
    \A t \in Issuers : ipc[t] # "idle" => ireq[t] \in TokenData

StoreFromIssue ==
    \A t \in Issuers : store[t] # None => ipc[t] # "idle" /\ store[t] = Encode(ireq[t])

VerifierToken ==
    \A v \in Verifiers : vpc[v] # "idle" => vtok[v] \in Issuers /\ ipc[vtok[v]] = "done"

PendingDelete ==
    \A v \in Verifiers :
        vpc[v] = "delete" => vdata[v] = Encode(ireq[vtok[v]])

NotYetReturned ==
    \A v \in Verifiers : vpc[v] # "done" => vres[v] = None

IInv ==
    /\ TypeOK
    /\ IssuedRecord
    /\ StoreFromIssue
    /\ VerifierToken
    /\ PendingDelete
    /\ NotYetReturned
    /\ VerifyReturnsIssued
    /\ ConsumedLinkGone

USE TokenStoreAssumption

LEMMA InitIInv == Init => IInv
BY DEF Init, IInv, TypeOK, IssuedRecord, StoreFromIssue, VerifierToken,
       PendingDelete, NotYetReturned, VerifyReturnsIssued, ConsumedLinkGone, Won

LEMMA NextIInv == IInv /\ [Next]_vars => IInv'
<1> SUFFICES ASSUME IInv, [Next]_vars PROVE IInv'
  OBVIOUS
<1> USE DEF IInv, TypeOK, IssuedRecord, StoreFromIssue, VerifierToken,
            PendingDelete, NotYetReturned, VerifyReturnsIssued, ConsumedLinkGone, Won
<1>1. ASSUME NEW i \in Issuers, create_magic_link_token_hset(i) PROVE IInv'
  BY <1>1, DecodeEncode DEF create_magic_link_token_hset
<1>2. ASSUME NEW i \in Issuers, create_magic_link_token_expire(i) PROVE IInv'
  BY <1>2 DEF create_magic_link_token_expire
<1>4. ASSUME NEW v \in Verifiers, NEW t \in Issuers,
             verify_magic_link_token_hgetall(v, t)
      PROVE IInv'
  <2>1. /\ vpc[v] = "idle" /\ ipc[t] = "done"
        /\ vtok' = [vtok EXCEPT ![v] = t]
        /\ UNCHANGED <<store, ttl, ipc, ireq>>
    BY <1>4 DEF verify_magic_link_token_hgetall, Delivered
  <2>2. CASE /\ store[t] # None
             /\ vdata' = [vdata EXCEPT ![v] = store[t]]
             /\ vpc' = [vpc EXCEPT ![v] = "delete"]
             /\ UNCHANGED vres
    BY <2>1, <2>2
  <2>3. CASE /\ vpc' = [vpc EXCEPT ![v] = "done"]
             /\ UNCHANGED <<vdata, vres>>
    BY <2>1, <2>3
  <2>4. QED
    BY <1>4, <2>2, <2>3 DEF verify_magic_link_token_hgetall
<1>5. ASSUME NEW v \in Verifiers, verify_magic_link_token_delete(v) PROVE IInv'
  <2>1. /\ vpc[v] = "delete"
        /\ vdata[v] = Encode(ireq[vtok[v]]) /\ vtok[v] \in Issuers
        /\ ireq[vtok[v]] \in TokenData
        /\ vpc' = [vpc EXCEPT ![v] = "done"]
        /\ UNCHANGED <<ipc, ireq, vtok, vdata>>
    BY <1>5 DEF verify_magic_link_token_delete
  <2>2. Decode(vdata[v]) = ireq[vtok[v]]
    BY <2>1, DecodeEncode
  <2>3. CASE /\ store' = [store EXCEPT ![vtok[v]] = None]
             /\ ttl' = [ttl EXCEPT ![vtok[v]] = FALSE]
             /\ vres' = [vres EXCEPT ![v] = Decode(vdata[v])]
    BY <2>1, <2>2, <2>3
  <2>4. CASE UNCHANGED <<store, ttl, vres>>
    BY <2>1, <2>4
  <2>5. QED
    BY <1>5, <2>3, <2>4 DEF verify_magic_link_token_delete
<1>6. ASSUME NEW t \in Issuers, invalidate_token(t) PROVE IInv'
  BY <1>6 DEF invalidate_token
<1>7. ASSUME NEW t \in Issuers, RedisExpire(t) PROVE IInv'
  BY <1>7 DEF RedisExpire
<1>8. CASE Terminated \/ UNCHANGED vars
  BY <1>8 DEF Terminated, vars
<1>9. QED
  BY <1>1, <1>2, <1>4, <1>5, <1>6, <1>7, <1>8 DEF Next, IssuerStep

THEOREM IInvariant == Spec => []IInv
BY InitIInv, NextIInv, PTL DEF Spec

-----------------------------------------------------------------------------
(***************************************************************************)
(* The theorems.                                                           *)
(***************************************************************************)

(* Type correctness of every reachable state of the token store.           *)
THEOREM TypeCorrect == Spec => []TypeOK
BY IInvariant, PTL DEF IInv

(* VerifyReturnsIssued: a successful verify_magic_link_token returns the   *)
(* email and is_signup flag create_magic_link_token stored for that token, *)
(* whatever Redis calls fail and however verifies of one link interleave.  *)
THEOREM VerifyAuthentic == Spec => []VerifyReturnsIssued
BY IInvariant, PTL DEF IInv

(* ConsumedLinkGone: once verify_magic_link_token has returned a token's  *)
(* data, that token's key is gone from Redis and no later create writes it *)
(* again, so every later click on the link misses: the two-step verify's   *)
(* race is confined to clicks whose hgetall overlapped the winning delete. *)
THEOREM LinkConsumed == Spec => []ConsumedLinkGone
BY IInvariant, PTL DEF IInv

=============================================================================
