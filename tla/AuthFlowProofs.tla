---------------------------- MODULE AuthFlowProofs ----------------------------
(***************************************************************************)
(* Proofs about the composed sign-in flow for every set of emails, user    *)
(* ids, signups, logins and verifies: every session the verify route       *)
(* creates belongs to the email of the magic link it consumed, under that  *)
(* email's user id, with a key the Authority holds for that user.          *)
(*                                                                         *)
(* The argument is compositional.  Every step of the flow is a step of     *)
(* the Token Store and of the Provisioner (or leaves it alone), so their   *)
(* inductive invariants, proved in TokenStoreProofs and ProvisionerProofs, *)
(* carry over unchanged; the flow adds three facts about how the verify    *)
(* handler chains one component's answer into the next component's call.  *)
(***************************************************************************)
EXTENDS AuthFlow, TLAPS

TP == INSTANCE TokenStoreProofs WITH Issuers <- Tokens, Verifiers <- Verifies
PP == INSTANCE ProvisionerProofs

(***************************************************************************)
(* The flow's own invariant.  A verify provisions only once its token      *)
(* verified, for the email that token carried; it creates its session only *)
(* once provisioning succeeded, with the snapshot of that result; and the  *)
(* snapshot is written once.  Each of these values is written once and     *)
(* never again, which is what lets a later step rely on an earlier answer. *)
(***************************************************************************)

\* The session bookkeeping of each verify has its type.
SessionTyped ==
    /\ spc \in [Verifies -> {"idle", "expire", "done"}]
    /\ sreq \in [Verifies -> Sess!SessionData \cup {None}]

\* create_session was called only by a verify that reached it.
RequestedOnlyWhenCreated ==
    \A v \in Verifies : sreq[v] # None => spc[v] # "idle"

\* get_or_create_user_key(email) runs only after the token verified, and
\* for the email that verify_magic_link_token returned.
ProvisionedFromToken ==
    \A v \in Verifies :
        cpc[v] # "idle" =>
            /\ vpc[v] = "done"
            /\ vres[v] # None
            /\ cemail[v] = vres[v].email

\* create_session runs only after provisioning succeeded, with the email,
\* user id and key that provisioning returned.
SessionFromProvision ==
    \A v \in Verifies :
        spc[v] # "idle" =>
            /\ cpc[v] = "done"
            /\ cres[v] # None
            /\ sreq[v] = [email |-> cemail[v], user_id |-> cres[v].user_id,
                          virtual_key |-> cres[v].key]

IInv ==
    /\ TP!IInv
    /\ PP!IInv
    /\ SessionTyped
    /\ RequestedOnlyWhenCreated
    /\ ProvisionedFromToken
    /\ SessionFromProvision

\* The flow's own conjuncts.
FlowInv ==
    /\ SessionTyped
    /\ RequestedOnlyWhenCreated
    /\ ProvisionedFromToken
    /\ SessionFromProvision

USE AuthFlowAssumption

(***************************************************************************)
(* The components' assumptions hold of the constants the flow gives them.  *)
(***************************************************************************)
LEMMA TokenStoreAssumptionHolds == TP!TokenStoreAssumption
BY DEF TP!TokenStoreAssumption, TP!StoredToken, Tok!StoredToken,
       TP!TokenData, Tok!TokenData

LEMMA ProvisionerAssumptionHolds == PP!ProvisionerAssumption
BY DEF PP!ProvisionerAssumption, PP!Result, Prov!Result

(***************************************************************************)
(* Every step of the flow is a step of the Token Store, or leaves its      *)
(* variables alone; the same holds of the Provisioner.                     *)
(***************************************************************************)
LEMMA TokenStoreSteps == [Next]_vars => [TP!Next]_TP!vars
<1> SUFFICES ASSUME [Next]_vars PROVE [TP!Next]_TP!vars
  OBVIOUS
<1>1. UNCHANGED tvars => UNCHANGED TP!vars
  BY DEF tvars, TP!vars
<1>2. ASSUME NEW h \in Tokens,
             Tok!create_magic_link_token_hset(h) \/ Tok!create_magic_link_token_expire(h)
      PROVE  TP!Next
  BY <1>2 DEF TP!Next, TP!IssuerStep, TP!create_magic_link_token_hset,
              Tok!create_magic_link_token_hset, TP!create_magic_link_token_expire,
              Tok!create_magic_link_token_expire, TP!Encode, Tok!Encode,
              TP!TokenData, Tok!TokenData
<1>3. ASSUME NEW v \in Verifies, NEW t \in Tokens,
             Tok!verify_magic_link_token_hgetall(v, t)
      PROVE  TP!Next
  BY <1>3 DEF TP!Next, TP!verify_magic_link_token_hgetall, Tok!verify_magic_link_token_hgetall,
              TP!Delivered, Tok!Delivered, TP!Decode, Tok!Decode
<1>4. ASSUME NEW v \in Verifies, Tok!verify_magic_link_token_delete(v) PROVE TP!Next
  BY <1>4 DEF TP!Next, TP!verify_magic_link_token_delete, Tok!verify_magic_link_token_delete,
              TP!Decode, Tok!Decode
<1>5. ASSUME NEW t \in Tokens, Tok!RedisExpire(t) PROVE TP!Next
  BY <1>5 DEF TP!Next, TP!RedisExpire, Tok!RedisExpire
<1>6. CASE \E h \in Signups : signup_request(h) \/ SignupStep(h)
  BY <1>1, <1>2, <1>6 DEF signup_request, SignupStep, signup_provision, signup_issue,
                          IssueStep, Tokens
<1>7. CASE \E h \in Logins : login_get_user(h) \/ LoginStep(h)
  BY <1>1, <1>2, <1>7 DEF login_get_user, LoginStep, login_issue, IssueStep, Tokens
<1>8. CASE \E v \in Verifies : verify_request(v) \/ VerifyStep(v)
  BY <1>1, <1>3, <1>4, <1>8 DEF verify_request, VerifyStep, verify_delete,
                                verify_provision_start, verify_provision, verify_session,
                                SessionStep
<1>9. CASE Expiry \/ Terminated \/ UNCHANGED vars
  BY <1>1, <1>5, <1>9 DEF Expiry, Terminated, vars
<1>10. QED
  BY <1>6, <1>7, <1>8, <1>9 DEF Next

LEMMA ProvisionerSteps == [Next]_vars => [PP!Next]_PP!vars
<1> SUFFICES ASSUME [Next]_vars PROVE [PP!Next]_PP!vars
  OBVIOUS
<1>1. UNCHANGED pvars => UNCHANGED PP!vars
  BY DEF pvars, PP!vars
<1>2. ASSUME NEW c \in Callers, Prov!Call(c) \/ Prov!CallStep(c) PROVE PP!Next
  BY <1>2 DEF PP!Next, PP!Call, Prov!Call, PP!CallStep, Prov!CallStep,
              PP!get_user, Prov!get_user, PP!create_user, Prov!create_user,
              PP!generate_key, Prov!generate_key, PP!Fail, Prov!Fail,
              PP!Succeed, Prov!Succeed, PP!TimedOut, Prov!TimedOut,
              PP!generate_user_id, Prov!generate_user_id
<1>3. CASE \E h \in Signups : signup_request(h) \/ SignupStep(h)
  BY <1>1, <1>2, <1>3 DEF signup_request, SignupStep, signup_provision, signup_issue,
                          IssueStep, Respond, Callers
<1>4. CASE \E h \in Logins : login_get_user(h) \/ LoginStep(h)
  BY <1>1, <1>4 DEF login_get_user, LoginStep, login_issue, IssueStep
<1>5. CASE \E v \in Verifies : verify_request(v) \/ VerifyStep(v)
  BY <1>1, <1>2, <1>5 DEF verify_request, VerifyStep, verify_delete,
                          verify_provision_start, verify_provision, verify_session,
                          SessionStep, Callers
<1>6. CASE Expiry \/ Terminated \/ UNCHANGED vars
  BY <1>1, <1>6 DEF Expiry, Terminated, vars
<1>7. QED
  BY <1>3, <1>4, <1>5, <1>6 DEF Next

(***************************************************************************)
(* What a component call changes for the verify handlers: a provisioning   *)
(* call only its own slot, and a verify call only its own verifier.        *)
(***************************************************************************)
LEMMA CallFrame ==
    ASSUME PP!TypeOK, NEW c \in Callers, Prov!Call(c)
    PROVE  /\ cpc[c] = "idle"
           /\ cpc'[c] = "get"
           /\ cres' = cres
           /\ \A d \in Callers \ {c} : cpc'[d] = cpc[d] /\ cemail'[d] = cemail[d]
BY DEF Prov!Call, PP!TypeOK

LEMMA CallStepFrame ==
    ASSUME PP!TypeOK, NEW c \in Callers, Prov!CallStep(c)
    PROVE  /\ cpc[c] \in {"get", "create", "generate"}
           /\ cpc'[c] # "idle"
           /\ cemail' = cemail
           /\ \A d \in Callers \ {c} : cpc'[d] = cpc[d] /\ cres'[d] = cres[d]
<1> USE DEF PP!TypeOK, Prov!Fail, Prov!Succeed, Prov!TimedOut
<1>1. CASE Prov!get_user(c)
  BY <1>1 DEF Prov!get_user
<1>2. CASE Prov!create_user(c)
  BY <1>2 DEF Prov!create_user
<1>3. CASE Prov!generate_key(c)
  BY <1>3 DEF Prov!generate_key
<1>4. QED
  BY <1>1, <1>2, <1>3 DEF Prov!CallStep

LEMMA VerifyCallFrame ==
    ASSUME TP!TypeOK, NEW v \in Verifies,
           \/ \E t \in Tokens : Tok!verify_magic_link_token_hgetall(v, t)
           \/ Tok!verify_magic_link_token_delete(v)
    PROVE  /\ vpc[v] \in {"idle", "delete"}
           /\ \A w \in Verifies \ {v} : vpc'[w] = vpc[w] /\ vres'[w] = vres[w]
BY DEF TP!TypeOK, Tok!verify_magic_link_token_hgetall, Tok!verify_magic_link_token_delete

\* A step that leaves every verify's slot in the three stores alone keeps
\* the flow's conjuncts.
LEMMA FlowFrame ==
    ASSUME FlowInv,
           \A w \in Verifies : /\ cpc'[w] = cpc[w] /\ cemail'[w] = cemail[w]
                               /\ cres'[w] = cres[w]
                               /\ vpc'[w] = vpc[w] /\ vres'[w] = vres[w],
           spc' = spc, sreq' = sreq
    PROVE  FlowInv'
BY DEF FlowInv, SessionTyped, RequestedOnlyWhenCreated, ProvisionedFromToken,
       SessionFromProvision

(***************************************************************************)
(* The flow's conjuncts are preserved: one step per handler action.        *)
(***************************************************************************)
LEMMA NextFlow ==
    ASSUME IInv, [Next]_vars PROVE FlowInv'
<1>0. /\ TP!TypeOK /\ PP!TypeOK /\ PP!CallerEmail /\ FlowInv
  BY DEF IInv, TP!IInv, PP!IInv, FlowInv
<1>1. ASSUME NEW h \in Signups, signup_request(h) PROVE FlowInv'
  <2>1. h \in Callers /\ h \notin Verifies
    BY DEF Callers
  <2>2. Prov!Call(h) /\ UNCHANGED <<tvars, svars>>
    BY <1>1 DEF signup_request
  <2>3. QED
    BY <1>0, <2>1, <2>2, CallFrame, FlowFrame DEF tvars, svars, Callers
<1>2. ASSUME NEW h \in Signups, SignupStep(h) PROVE FlowInv'
  <2>1. h \in Callers /\ h \notin Verifies
    BY DEF Callers
  <2>2. CASE signup_provision(h)
    <3>1. Prov!CallStep(h) /\ UNCHANGED <<tvars, svars>>
      BY <2>2 DEF signup_provision
    <3>2. QED
      BY <1>0, <2>1, <3>1, CallStepFrame, FlowFrame DEF tvars, svars, Callers
  <2>3. CASE signup_issue(h) \/ (rpc[h] = "issue" /\ IssueStep(h, Tok!create_magic_link_token_expire(h)))
    <3>1. UNCHANGED <<pvars, svars, vpc, vres>>
      BY <2>3 DEF signup_issue, IssueStep, Tok!create_magic_link_token_hset,
                  Tok!create_magic_link_token_expire, tvars
    <3>2. QED
      BY <1>0, <3>1, FlowFrame DEF pvars, svars
  <2>4. QED
    BY <1>2, <2>2, <2>3 DEF SignupStep
<1>3. ASSUME NEW h \in Logins, login_get_user(h) \/ LoginStep(h) PROVE FlowInv'
  <2>1. UNCHANGED <<pvars, svars, vpc, vres>>
    BY <1>3 DEF login_get_user, LoginStep, login_issue, IssueStep,
                Tok!create_magic_link_token_hset, Tok!create_magic_link_token_expire, tvars
  <2>2. QED
    BY <1>0, <2>1, FlowFrame DEF pvars, svars
<1>4. ASSUME NEW v \in Verifies,
             verify_request(v) \/ verify_delete(v)
      PROVE  FlowInv'
  <2>1. /\ UNCHANGED <<pvars, svars>>
        /\ \/ \E t \in Tokens : Tok!verify_magic_link_token_hgetall(v, t)
           \/ Tok!verify_magic_link_token_delete(v)
    BY <1>4 DEF verify_request, verify_delete
  <2>2. /\ vpc[v] \in {"idle", "delete"}
        /\ \A w \in Verifies \ {v} : vpc'[w] = vpc[w] /\ vres'[w] = vres[w]
    BY <1>0, <2>1, VerifyCallFrame
  <2>3. cpc[v] = "idle" /\ spc[v] = "idle"
    BY <1>0, <2>2 DEF FlowInv, ProvisionedFromToken, SessionFromProvision
  <2>4. QED
    BY <1>0, <2>1, <2>2, <2>3
       DEF FlowInv, SessionTyped, RequestedOnlyWhenCreated, ProvisionedFromToken,
           SessionFromProvision, pvars, svars
<1>5. ASSUME NEW v \in Verifies, verify_provision_start(v) PROVE FlowInv'
  <2>1. CASE UNCHANGED <<pvars, svars, vpc, vres>>
    BY <1>0, <2>1, FlowFrame DEF pvars, svars
  <2>2. CASE /\ vpc[v] = "done" /\ vres[v] # None
             /\ Prov!Call(v) /\ cemail'[v] = vres[v].email
             /\ UNCHANGED <<tvars, svars>>
    <3>1. v \in Callers /\ \A w \in Verifies \ {v} : w \in Callers
      BY DEF Callers
    <3>2. /\ cpc[v] = "idle" /\ cpc'[v] = "get" /\ cres' = cres
          /\ \A d \in Callers \ {v} : cpc'[d] = cpc[d] /\ cemail'[d] = cemail[d]
      BY <1>0, <2>2, <3>1, CallFrame
    <3>3. spc[v] = "idle"
      BY <1>0, <3>2 DEF FlowInv, SessionFromProvision
    <3>4. QED
      BY <1>0, <2>2, <3>1, <3>2, <3>3
         DEF FlowInv, SessionTyped, RequestedOnlyWhenCreated, ProvisionedFromToken,
             SessionFromProvision, tvars, svars
  <2>3. QED
    BY <1>5, <2>1, <2>2 DEF verify_provision_start, Respond, tvars
<1>6. ASSUME NEW v \in Verifies, verify_provision(v) PROVE FlowInv'
  <2>1. Prov!CallStep(v) /\ UNCHANGED <<tvars, svars>> /\ v \in Callers
    BY <1>6 DEF verify_provision, Callers
  <2>2. /\ cpc[v] \in {"get", "create", "generate"} /\ cpc'[v] # "idle"
        /\ cemail' = cemail
        /\ \A d \in Callers \ {v} : cpc'[d] = cpc[d] /\ cres'[d] = cres[d]
    BY <1>0, <2>1, CallStepFrame
  <2>3. spc[v] = "idle"
    BY <1>0, <2>2 DEF FlowInv, SessionFromProvision
  <2>4. \A w \in Verifies \ {v} : w \in Callers
    BY DEF Callers
  <2>5. QED
    BY <1>0, <2>1, <2>2, <2>3, <2>4
       DEF FlowInv, SessionTyped, RequestedOnlyWhenCreated, ProvisionedFromToken,
           SessionFromProvision, tvars, svars
<1>7. ASSUME NEW v \in Verifies, verify_session(v) PROVE FlowInv'
  <2>1. CASE UNCHANGED <<tvars, pvars, svars>>
    BY <1>0, <2>1, FlowFrame DEF tvars, pvars, svars
  <2>2. CASE /\ cpc[v] = "done" /\ cres[v] # None
             /\ Sess!create_session_hset(v,
                   [email |-> cemail[v], user_id |-> cres[v].user_id,
                    virtual_key |-> cres[v].key])
             /\ UNCHANGED <<tvars, pvars>>
    <3> DEFINE d == [email |-> cemail[v], user_id |-> cres[v].user_id,
                     virtual_key |-> cres[v].key]
    <3>1. /\ spc[v] = "idle"
          /\ sreq' = [sreq EXCEPT ![v] = d]
          /\ spc' \in {[spc EXCEPT ![v] = "expire"], [spc EXCEPT ![v] = "done"]}
      BY <2>2 DEF Sess!create_session_hset
    <3>2. d \in Sess!SessionData
      BY <1>0, <2>2 DEF PP!TypeOK, PP!CallerEmail, PP!Result, Sess!SessionData, Callers
    <3>3. QED
      BY <1>0, <2>2, <3>1, <3>2
         DEF FlowInv, SessionTyped, RequestedOnlyWhenCreated, ProvisionedFromToken,
             SessionFromProvision, tvars, pvars
  <2>3. QED
    BY <1>7, <2>1, <2>2 DEF verify_session, Respond, SessionStep
<1>8. ASSUME NEW v \in Verifies,
             rpc[v] = "session" /\ SessionStep(v, Sess!create_session_expire(v))
      PROVE  FlowInv'
  <2>1. /\ spc[v] = "expire" /\ spc' = [spc EXCEPT ![v] = "done"]
        /\ UNCHANGED <<sreq, tvars, pvars>>
    BY <1>8 DEF SessionStep, Sess!create_session_expire
  <2>2. QED
    BY <1>0, <2>1
       DEF FlowInv, SessionTyped, RequestedOnlyWhenCreated, ProvisionedFromToken,
           SessionFromProvision, tvars, pvars
<1>9. CASE Expiry \/ Terminated \/ UNCHANGED vars
  <2>1. UNCHANGED <<pvars, spc, sreq, vpc, vres>>
    BY <1>9 DEF Expiry, Terminated, vars, tvars, svars, Tok!RedisExpire, Sess!RedisExpire
  <2>2. QED
    BY <1>0, <2>1, FlowFrame DEF pvars
<1>10. QED
  BY <1>1, <1>2, <1>3, <1>4, <1>5, <1>6, <1>7, <1>8, <1>9 DEF Next, VerifyStep

LEMMA InitIInv == Init => IInv
<1> SUFFICES ASSUME Init PROVE IInv
  OBVIOUS
<1>1. TP!IInv
  <2>1. TP!Init
    BY DEF Init, Tok!Init, TP!Init
  <2>2. QED
    BY <2>1, TP!InitIInv, TokenStoreAssumptionHolds
<1>2. PP!IInv
  <2>1. PP!Init
    BY DEF Init, Prov!Init, PP!Init
  <2>2. QED
    BY <2>1, PP!InitIInv, ProvisionerAssumptionHolds
<1>3. FlowInv
  BY DEF Init, Sess!Init, Prov!Init, FlowInv, SessionTyped, RequestedOnlyWhenCreated,
         ProvisionedFromToken, SessionFromProvision, Callers
<1>4. QED
  BY <1>1, <1>2, <1>3 DEF IInv, FlowInv

\* The components' invariants carry over through the steps they take part
\* in; the flow's conjuncts are NextFlow.
LEMMA NextIInv == IInv /\ [Next]_vars => IInv'
<1> SUFFICES ASSUME IInv, [Next]_vars PROVE IInv'
  OBVIOUS
<1>1. TP!IInv'
  BY TokenStoreSteps, TP!NextIInv, TokenStoreAssumptionHolds DEF IInv
<1>2. PP!IInv'
  BY ProvisionerSteps, PP!NextIInv, ProvisionerAssumptionHolds DEF IInv
<1>3. FlowInv'
  BY NextFlow
<1>4. QED
  BY <1>1, <1>2, <1>3 DEF IInv, FlowInv

THEOREM IInvariant == Spec => []IInv
BY InitIInv, NextIInv, PTL DEF Spec

\* A session's owner, traced back: the snapshot is the provisioning result,
\* whose email is the one the verified token returned, which is the one the
\* token was issued with; the result's user and key are the Authority's.
LEMMA OwnershipFromIInv == IInv => SessionOwnedByVerifiedEmail
<1> SUFFICES ASSUME IInv, NEW v \in Verifies, sreq[v] # None
             PROVE  LET e == sreq[v].email IN
                    /\ vres[v] # None
                    /\ e = ireq[vtok[v]].email
                    /\ sreq[v].user_id = UserIdOf[e]
                    /\ keyOwner[sreq[v].virtual_key] = sreq[v].user_id
  BY DEF SessionOwnedByVerifiedEmail
<1>1. /\ cpc[v] = "done" /\ cres[v] # None
      /\ sreq[v] = [email |-> cemail[v], user_id |-> cres[v].user_id,
                    virtual_key |-> cres[v].key]
  BY DEF IInv, RequestedOnlyWhenCreated, SessionFromProvision
<1>2. vpc[v] = "done" /\ vres[v] # None /\ cemail[v] = vres[v].email
  BY <1>1 DEF IInv, ProvisionedFromToken
<1>3. vres[v] = ireq[vtok[v]]
  BY <1>2 DEF IInv, TP!IInv, TP!VerifyReturnsIssued, TP!Won
<1>4. /\ cres[v].user_id = UserIdOf[cemail[v]]
      /\ keyOwner[cres[v].key] = cres[v].user_id
  <2>1. v \in Callers
    BY DEF Callers
  <2>2. QED
    BY <1>1, <2>1 DEF IInv, PP!IInv, PP!ProvisionedKeyOwned, PP!generate_user_id
<1>5. QED
  BY <1>1, <1>2, <1>3, <1>4

-----------------------------------------------------------------------------
(***************************************************************************)
(* The theorem.                                                            *)
(***************************************************************************)

(* SessionOwnedByVerifiedEmail: every session the verify route creates is  *)
(* for the email of the magic link that verify consumed, under the user id *)
(* generate_user_id gives that email, with a virtual key the Authority     *)
(* holds for that user, however signups, logins and verifies race through  *)
(* the Token Store, the Provisioner and the Session Store, with the        *)
(* hgetall-then-delete verify and any store or Authority call failing.     *)
THEOREM SessionOwnership == Spec => []SessionOwnedByVerifiedEmail
BY IInvariant, OwnershipFromIInv, PTL
=============================================================================
