-------------------------- MODULE ProvisionerProofs --------------------------
(***************************************************************************)
(* Proofs about Provisioner for every set of emails, user ids and callers  *)
(* and every injective generate_user_id: type correctness, that every      *)
(* successful get_or_create_user_key returns the caller's own user with a  *)
(* key the Authority holds for it, and that the provisioner implements its *)
(* promise UserKeys, with Authority failures and late-landing timeouts     *)
(* included.                                                               *)
(***************************************************************************)
EXTENDS Provisioner, TLAPS

(***************************************************************************)
(* The inductive invariant.  The properties alone are not inductive: the   *)
(* result of generate_key reads the email back from the Authority's user   *)
(* record, so that record must be known to exist and to be the caller's    *)
(* (which rests on injectivity of generate_user_id); and a result must     *)
(* name the key its own call minted, so that other calls' keys, minted     *)
(* later, cannot disturb it.                                               *)
(***************************************************************************)
UserIdsDerived ==
    \A u \in UserIds : users[u] # None => generate_user_id(users[u]) = u

CallerEmail ==
    \A c \in Callers : cpc[c] # "idle" => cemail[c] \in Emails

IdleFresh ==
    \A c \in Callers : cpc[c] = "idle" => cres[c] = None /\ cemail[c] = None

GenerateHasUser ==
    \A c \in Callers :
        cpc[c] = "generate" => users[generate_user_id(cemail[c])] # None

ResultOwnKey ==
    \A c \in Callers : cres[c] # None => cpc[c] = "done" /\ cres[c].key = c

IInv ==
    /\ TypeOK
    /\ UserIdsDerived
    /\ CallerEmail
    /\ IdleFresh
    /\ GenerateHasUser
    /\ ResultOwnKey
    /\ ProvisionedKeyOwned

USE ProvisionerAssumption

\* An existing Authority user under the id of e is e's own user.
LEMMA UserOfEmail ==
    ASSUME UserIdsDerived, TypeOK, NEW e \in Emails,
           users[generate_user_id(e)] # None
    PROVE  users[generate_user_id(e)] = e
BY DEF UserIdsDerived, TypeOK, generate_user_id

LEMMA InitIInv == Init => IInv
BY DEF Init, IInv, TypeOK, UserIdsDerived, CallerEmail, IdleFresh,
       GenerateHasUser, ResultOwnKey, ProvisionedKeyOwned

\* A call's success or timeout, on the user record the Authority now has,
\* keeps the invariant.
LEMMA FinishIInv ==
    ASSUME IInv, NEW c \in Callers, cpc[c] \in {"create", "generate"},
           NEW u \in UserIds, u = generate_user_id(cemail[c]),
           users' \in [UserIds -> Emails \cup {None}],
           users'[u] = cemail[c],
           \A w \in UserIds \ {u} : users'[w] = users[w],
           UNCHANGED cemail,
           Succeed(c, u) \/ TimedOut(c, u)
    PROVE  IInv'
<1> USE DEF IInv, TypeOK, UserIdsDerived, CallerEmail, IdleFresh,
            GenerateHasUser, ResultOwnKey, ProvisionedKeyOwned,
            generate_user_id
<1>1. cemail[c] \in Emails
  OBVIOUS
<1>2. CASE Succeed(c, u)
  <2>1. /\ keyOwner' = [keyOwner EXCEPT ![c] = u]
        /\ cres' = [cres EXCEPT ![c] = [user_id |-> u, email |-> cemail[c], key |-> c]]
        /\ cpc' = [cpc EXCEPT ![c] = "done"]
    BY <1>2 DEF Succeed
  <2>2. [user_id |-> u, email |-> cemail[c], key |-> c] \in Result
    BY <1>1 DEF Result
  <2>3. TypeOK'
    BY <2>1, <2>2
  <2>4. UserIdsDerived' /\ CallerEmail' /\ IdleFresh' /\ GenerateHasUser'
    BY <2>1
  <2>5. cres'[c] # None
    BY <2>1, <2>2
  <2>6. ResultOwnKey'
    BY <2>1
  <2>8. ProvisionedKeyOwned'
    BY <2>1
  <2>9. QED
    BY <2>3, <2>4, <2>6, <2>8
<1>3. CASE TimedOut(c, u)
  BY <1>1, <1>3 DEF TimedOut
<1>4. QED
  BY <1>2, <1>3

LEMMA NextIInv == IInv /\ [Next]_vars => IInv'
<1> SUFFICES ASSUME IInv, [Next]_vars PROVE IInv'
  OBVIOUS
<1> USE DEF IInv, TypeOK, UserIdsDerived, CallerEmail, IdleFresh,
            GenerateHasUser, ResultOwnKey, ProvisionedKeyOwned,
            generate_user_id
<1>1. ASSUME NEW c \in Callers, Call(c) PROVE IInv'
  BY <1>1 DEF Call
<1>2. ASSUME NEW c \in Callers, get_user(c) PROVE IInv'
  <2> DEFINE u == generate_user_id(cemail[c])
  <2>1. cpc[c] = "get" /\ UNCHANGED cemail /\ u \in UserIds
    BY <1>2 DEF get_user
  <2>2. CASE /\ users[u] = None
             /\ cpc' = [cpc EXCEPT ![c] = "create"]
             /\ UNCHANGED <<users, keyOwner, cres>>
    BY <2>1, <2>2
  <2>3. CASE /\ users[u] # None
             /\ cpc' = [cpc EXCEPT ![c] = "generate"]
             /\ UNCHANGED <<users, keyOwner, cres>>
    BY <2>1, <2>3
  <2>4. CASE Fail(c)
    BY <2>1, <2>4 DEF Fail
  <2>5. QED
    BY <1>2, <2>2, <2>3, <2>4 DEF get_user
<1>3. ASSUME NEW c \in Callers, create_user(c) PROVE IInv'
  <2> DEFINE u == generate_user_id(cemail[c])
  <2>1. cpc[c] = "create" /\ UNCHANGED cemail /\ u \in UserIds
    BY <1>3 DEF create_user
  <2>2. CASE /\ users[u] = None
             /\ users' = [users EXCEPT ![u] = cemail[c]]
             /\ Succeed(c, u) \/ TimedOut(c, u)
    <3>1. UserIdsDerived'
      BY <2>1, <2>2
    <3>2. QED
      BY <2>1, <2>2, FinishIInv
  <2>3. CASE /\ users[u] # None
             /\ cpc' = [cpc EXCEPT ![c] = "generate"]
             /\ UNCHANGED <<users, keyOwner, cres>>
    BY <2>1, <2>3
  <2>4. CASE Fail(c)
    BY <2>1, <2>4 DEF Fail
  <2>5. QED
    BY <1>3, <2>2, <2>3, <2>4 DEF create_user
<1>4. ASSUME NEW c \in Callers, generate_key(c) PROVE IInv'
  <2> DEFINE u == generate_user_id(cemail[c])
  <2>1. cpc[c] = "generate" /\ UNCHANGED cemail /\ u \in UserIds
    BY <1>4 DEF generate_key
  <2>2. users[u] = cemail[c]
    BY <2>1, UserOfEmail
  <2>3. CASE UNCHANGED users /\ (Succeed(c, u) \/ TimedOut(c, u))
    BY <2>1, <2>2, <2>3, FinishIInv
  <2>4. CASE Fail(c)
    BY <2>1, <2>4 DEF Fail
  <2>5. QED
    BY <1>4, <2>3, <2>4 DEF generate_key
<1>5. CASE Terminated \/ UNCHANGED vars
  BY <1>5 DEF Terminated, vars
<1>6. QED
  BY <1>1, <1>2, <1>3, <1>4, <1>5 DEF Next, CallStep

THEOREM IInvariant == Spec => []IInv
BY InitIInv, NextIInv, PTL DEF Spec

-----------------------------------------------------------------------------
(***************************************************************************)
(* The theorems.                                                           *)
(***************************************************************************)

(* Type correctness of every reachable state of the provisioner.           *)
THEOREM TypeCorrect == Spec => []TypeOK
BY IInvariant, PTL DEF IInv

(* ProvisionedKeyOwned: every successful get_or_create_user_key(e) returns *)
(* e's user under generate_user_id(e) and a key the Authority holds for    *)
(* that user, however many calls race and whatever fails or times out.     *)
THEOREM KeysOwned == Spec => []ProvisionedKeyOwned
BY IInvariant, PTL DEF IInv


-----------------------------------------------------------------------------
(***************************************************************************)
(* Refinement of UserKeys.  Each step of a call maps to one step of the    *)
(* promise: Call to Ask; a success or a timeout, from create_user or from  *)
(* generate_key, to Provide; a failure to Refuse; get_user and the         *)
(* fall-back from create to generate to a stutter.  That a serve registers *)
(* nothing but the caller's own user rests on UserIdsDerived.              *)
(***************************************************************************)
Answered == {c \in Callers : cpc[c] = "done"}

\* A success or timeout of call c on user u is a Provide of the promise.
LEMMA FinishRefines ==
    ASSUME IInv, NEW c \in Callers, cpc[c] \in {"create", "generate"},
           NEW u \in UserIds, u = generate_user_id(cemail[c]),
           users[u] \in {None, cemail[c]},
           users' = [users EXCEPT ![u] = cemail[c]],
           UNCHANGED cemail,
           Succeed(c, u) \/ TimedOut(c, u)
    PROVE  Abs!Provide(c)
<1> USE DEF IInv, TypeOK, CallerEmail, generate_user_id
<1>1. cemail[c] \in Emails /\ c \notin Answered
  BY DEF Answered
<1>2. Answered' = Answered \cup {c}
  BY DEF Answered, Succeed, TimedOut
<1>3. users'[u] = cemail[c]
  OBVIOUS
<1>4. QED
  BY <1>1, <1>2, <1>3 DEF Abs!Provide, Succeed, TimedOut, Answered

\* A failed Authority call is a Refuse of the promise.
LEMMA FailRefines ==
    ASSUME IInv, NEW c \in Callers, cpc[c] \in {"get", "create", "generate"},
           Fail(c), UNCHANGED cemail
    PROVE  Abs!Refuse(c)
<1>1. cemail[c] \in Emails /\ c \notin Answered /\ Answered' = Answered \cup {c}
  BY DEF IInv, TypeOK, CallerEmail, Answered, Fail
<1>2. QED
  BY <1>1 DEF Abs!Refuse, Fail, Answered

LEMMA StepRefines == IInv /\ [Next]_vars => [Abs!Next]_Abs!uvars
<1> SUFFICES ASSUME IInv, [Next]_vars PROVE [Abs!Next]_Abs!uvars
  OBVIOUS
<1>1. ASSUME NEW c \in Callers, Call(c) PROVE Abs!Next
  <2>1. PICK e \in Emails : cemail' = [cemail EXCEPT ![c] = e]
    BY <1>1 DEF Call
  <2>2. cemail[c] = None /\ Answered' = Answered
    BY <1>1 DEF Call, IInv, TypeOK, IdleFresh, Answered
  <2>3. Abs!Ask(c, e)
    BY <1>1, <2>1, <2>2 DEF Abs!Ask, Call, Answered
  <2>4. QED
    BY <2>3 DEF Abs!Next
<1>2. ASSUME NEW c \in Callers, get_user(c) PROVE [Abs!Next]_Abs!uvars
  <2>1. cpc[c] = "get" /\ UNCHANGED cemail
    BY <1>2 DEF get_user
  <2>2. CASE Fail(c)
    BY <2>1, <2>2, FailRefines DEF Abs!Next
  <2>3. CASE /\ cpc'[c] \in {"create", "generate"}
             /\ cpc' = [cpc EXCEPT ![c] = cpc'[c]]
             /\ UNCHANGED <<users, keyOwner, cres>>
    <3>1. Answered' = Answered
      BY <2>1, <2>3 DEF Answered, IInv, TypeOK
    <3>2. QED
      BY <2>1, <2>3, <3>1 DEF Abs!uvars, Answered
  <2>4. QED
    BY <1>2, <2>2, <2>3 DEF get_user, IInv, TypeOK
<1>3. ASSUME NEW c \in Callers, create_user(c) PROVE [Abs!Next]_Abs!uvars
  <2> DEFINE u == generate_user_id(cemail[c])
  <2>1. cpc[c] = "create" /\ UNCHANGED cemail /\ u \in UserIds
    BY <1>3 DEF create_user, IInv, TypeOK, CallerEmail, generate_user_id
  <2>2. CASE /\ users[u] = None
             /\ users' = [users EXCEPT ![u] = cemail[c]]
             /\ Succeed(c, u) \/ TimedOut(c, u)
    BY <2>1, <2>2, FinishRefines DEF Abs!Next
  <2>3. CASE /\ cpc' = [cpc EXCEPT ![c] = "generate"]
             /\ UNCHANGED <<users, keyOwner, cres>>
    <3>1. Answered' = Answered
      BY <2>1, <2>3 DEF Answered, IInv, TypeOK
    <3>2. QED
      BY <2>1, <2>3, <3>1 DEF Abs!uvars, Answered
  <2>4. CASE Fail(c)
    BY <2>1, <2>4, FailRefines DEF Abs!Next
  <2>5. QED
    BY <1>3, <2>2, <2>3, <2>4 DEF create_user
<1>4. ASSUME NEW c \in Callers, generate_key(c) PROVE Abs!Next
  <2> DEFINE u == generate_user_id(cemail[c])
  <2>1. cpc[c] = "generate" /\ UNCHANGED cemail /\ u \in UserIds
    BY <1>4 DEF generate_key, IInv, TypeOK, CallerEmail, generate_user_id
  <2>2. users[u] = cemail[c]
    BY <2>1, UserOfEmail DEF IInv, GenerateHasUser, CallerEmail
  <2>3. CASE UNCHANGED users /\ (Succeed(c, u) \/ TimedOut(c, u))
    <3>1. users' = [users EXCEPT ![u] = cemail[c]]
      BY <2>2, <2>3 DEF IInv, TypeOK
    <3>2. QED
      BY <2>1, <2>2, <2>3, <3>1, FinishRefines DEF Abs!Next
  <2>4. CASE Fail(c)
    BY <2>1, <2>4, FailRefines DEF Abs!Next
  <2>5. QED
    BY <1>4, <2>3, <2>4 DEF generate_key
<1>5. CASE Terminated \/ UNCHANGED vars
  BY <1>5 DEF Terminated, vars, Abs!uvars, Answered
<1>6. QED
  BY <1>1, <1>2, <1>3, <1>4, <1>5 DEF Next, CallStep

(* AbsSpec: the provisioner implements UserKeys.  Whatever the races and   *)
(* failures, each call is asked once and answers once, and serving a call  *)
(* registers no user but its own email's and mints one key, for that user. *)
THEOREM Refinement == Spec => AbsSpec
<1>1. Init => Abs!Init
  BY DEF Init, Abs!Init
<1>2. QED
  BY <1>1, IInvariant, StepRefines, PTL DEF Spec, AbsSpec, Abs!Spec

=============================================================================
