------------------------ MODULE AuthDispatcherProofs ------------------------
(***************************************************************************)
(* Proofs about OrizonAuthMiddleware.dispatch and the Header Extractor for *)
(* every set of header values, keys and concurrent request tasks: that     *)
(* get_user_email and get_user_name agree with the two-tier reference of   *)
(* spec 4.1 on every header map whatsoever, and that every dispatch takes  *)
(* the branch the reference prescribes for its own request, however the    *)
(* tasks interleave.                                                       *)
(***************************************************************************)
EXTENDS AuthDispatcher, TLAPS

USE ExtractorAssumption, DispatcherAssumption

(***************************************************************************)
(* Lemmas about the extractor.  PyOr(a, b) is `a or b`: the only way it    *)
(* differs from the reference is by returning a falsy b, which a caller's  *)
(* truthiness test cannot tell from None.  No hypothesis on the values is  *)
(* needed: the argument is about truthiness alone.                         *)
(***************************************************************************)

\* `h[p] or h[s]` is truthy exactly when the reference finds an identity,
\* and then it is that identity.
LEMMA PyOrTwoTier ==
    ASSUME NEW h, NEW p, NEW s
    PROVE  /\ Truthy(PyOr(h[p], h[s])) <=> TwoTier(h, p, s) # None
           /\ Truthy(PyOr(h[p], h[s])) => PyOr(h[p], h[s]) = TwoTier(h, p, s)
           /\ Identity(PyOr(h[p], h[s])) = TwoTier(h, p, s)
BY DEF Truthy, PyOr, TwoTier, Identity, Empty

\* get_user_email and get_user_name against the reference, on any headers.
LEMMA ExtractorMatchesTwoTier ==
    ASSUME NEW h
    PROVE  /\ Truthy(get_user_email(h))
                 <=> TwoTier(h, "X-Auth-Request-Email", "X-Email") # None
           /\ Truthy(get_user_email(h))
                 => get_user_email(h) = TwoTier(h, "X-Auth-Request-Email", "X-Email")
           /\ Identity(get_auth_headers(h).email)
                 = TwoTier(h, "X-Auth-Request-Email", "X-Email")
           /\ Identity(get_auth_headers(h).user)
                 = TwoTier(h, "X-Auth-Request-User", "X-User")
<1>1. get_user_email(h) = PyOr(h["X-Auth-Request-Email"], h["X-Email"])
  BY DEF get_user_email, HeaderGet
<1>2. get_auth_headers(h).email = get_user_email(h)
  BY DEF get_auth_headers
<1>3. get_auth_headers(h).user = PyOr(h["X-Auth-Request-User"], h["X-User"])
  BY DEF get_auth_headers, get_user_name, HeaderGet
<1>4. QED
  BY <1>1, <1>2, <1>3, PyOrTwoTier

\* Every inbound header map is a map from the header names to header values.
LEMMA InboundHeadersTyped ==
    InboundHeaders \subseteq [HeaderNames -> HeaderValue]
<1> SUFFICES ASSUME NEW a \in {None, Empty} \cup (Values \ Keys),
                    NEW b \in {None, Empty} \cup (Values \ Keys),
                    NEW c \in NameValues, NEW d \in NameValues,
                    NEW z \in {None} \cup Keys
             PROVE  [n \in HeaderNames |->
                       CASE n = "X-Auth-Request-Email" -> a
                         [] n = "X-Email"              -> b
                         [] n = "X-Auth-Request-User"  -> c
                         [] n = "X-User"               -> d
                         [] n = "Authorization"        -> z
                         [] OTHER                      -> None]
                    \in [HeaderNames -> HeaderValue]
  BY DEF InboundHeaders
<1>1. {a, b, c, d, z, None} \subseteq HeaderValue
  BY DEF HeaderValue
<1>2. QED
  BY <1>1

(***************************************************************************)
(* The inductive invariant: RoutingByIdentity together with the types.     *)
(* Each task only ever writes its own slot, and a slot's route is reset    *)
(* whenever its request is replaced, so the route always speaks of the     *)
(* request it was chosen for.  A busy slot holds a request, not the empty *)
(* NoRequest: without that, the headers the branch tests are unknown.      *)
(***************************************************************************)
BusyHasRequest ==
    \A r \in Requests : pc[r] # "idle" => req[r] \in Request

\* A task awaiting call_next handed it its own request.
AwaitingForwarded ==
    \A r \in Requests : pc[r] = "awaiting" => fwd[r] = req[r]

IInv == TypeOK /\ BusyHasRequest /\ RoutingByIdentity /\ AwaitingForwarded

LEMMA InitIInv == Init => IInv
BY DEF Init, IInv, TypeOK, BusyHasRequest, RoutingByIdentity, AwaitingForwarded,
       NoRequest, PCs, Routes

LEMMA NextIInv == IInv /\ [Next]_vars => IInv'
<1> SUFFICES ASSUME IInv, [Next]_vars PROVE IInv'
  OBVIOUS
<1> USE DEF IInv, TypeOK, BusyHasRequest, RoutingByIdentity, AwaitingForwarded, PCs, Routes
<1>1. ASSUME NEW r \in Requests, Arrive(r) PROVE IInv'
  <2>1. PICK p \in Paths, h \in InboundHeaders :
              req' = [req EXCEPT ![r] = [path |-> p, headers |-> h]]
    BY <1>1 DEF Arrive
  <2>2. [path |-> p, headers |-> h] \in Request
    BY InboundHeadersTyped DEF Request
  <2>3. TypeOK'
    BY <1>1, <2>1, <2>2 DEF Arrive
  <2>4. RoutingByIdentity'
    BY <1>1, <2>1 DEF Arrive
  <2>5. BusyHasRequest' /\ AwaitingForwarded'
    BY <1>1, <2>1, <2>2 DEF Arrive
  <2>6. QED
    BY <2>3, <2>4, <2>5
<1>2. ASSUME NEW r \in Requests, DispatchHealth(r) PROVE IInv'
  BY <1>2 DEF DispatchHealth, IsHealthPath, ExpectedRoute
<1>3. ASSUME NEW r \in Requests, DispatchInternal(r) PROVE IInv'
  <2> DEFINE h == req[r].headers
  <2>1. /\ Truthy(get_user_email(h))
        /\ get_user_email(h) = TwoTier(h, "X-Auth-Request-Email", "X-Email")
        /\ TwoTier(h, "X-Auth-Request-Email", "X-Email") # None
    BY <1>3, ExtractorMatchesTwoTier DEF DispatchInternal
  <2>2. get_user_email(h) \in Values
    <3>1. h \in [HeaderNames -> HeaderValue]
      BY <1>3 DEF DispatchInternal, Request
    <3>2. get_user_email(h) \in {h["X-Auth-Request-Email"], h["X-Email"]}
      BY DEF get_user_email, PyOr, HeaderGet
    <3>3. QED
      BY <2>1, <3>1, <3>2 DEF Truthy, HeaderValue, HeaderNames
  <2>3. TypeOK'
    BY <1>3, <2>2 DEF DispatchInternal
  <2>4. RoutingByIdentity'
    BY <1>3, <2>1 DEF DispatchInternal, IsHealthPath, ExpectedRoute
  <2>5. BusyHasRequest' /\ AwaitingForwarded'
    BY <1>3 DEF DispatchInternal
  <2>6. QED
    BY <2>3, <2>4, <2>5
<1>4. ASSUME NEW r \in Requests, DispatchExternal(r) PROVE IInv'
  <2>1. TwoTier(req[r].headers, "X-Auth-Request-Email", "X-Email") = None
    BY <1>4, ExtractorMatchesTwoTier DEF DispatchExternal
  <2>2. QED
    BY <1>4, <2>1 DEF DispatchExternal, IsHealthPath, ExpectedRoute
<1>5. ASSUME NEW r \in Requests, CallNext(r) PROVE IInv'
  BY <1>5 DEF CallNext
<1>6. ASSUME NEW r \in Requests, ReturnResponse(r) PROVE IInv'
  BY <1>6 DEF ReturnResponse, Downstream, Responses
<1>7. CASE UNCHANGED vars
  BY <1>7 DEF vars
<1>8. QED
  BY <1>1, <1>2, <1>3, <1>4, <1>5, <1>6, <1>7 DEF Next, dispatch

THEOREM IInvariant == Spec => []IInv
BY InitIInv, NextIInv, PTL DEF Spec

\* Every step keeps the promise of ResponseIsDownstream: the only step that
\* ends a task is ReturnResponse, which answers what call_next was given.
LEMMA ReturnStep ==
    ASSUME IInv, [Next]_vars
    PROVE  [\A r \in Requests :
              (pc[r] # "done" /\ pc'[r] = "done") =>
                  /\ fwd'[r] = req[r]
                  /\ resp'[r] = Downstream(req[r])]_vars
<1> USE DEF IInv, TypeOK
<1>1. ASSUME NEW r \in Requests, ReturnResponse(r)
      PROVE  \A s \in Requests :
                (pc[s] # "done" /\ pc'[s] = "done") =>
                    fwd'[s] = req[s] /\ resp'[s] = Downstream(req[s])
  BY <1>1 DEF ReturnResponse, AwaitingForwarded
<1>2. ASSUME NEW r \in Requests,
             Arrive(r) \/ DispatchHealth(r) \/ DispatchInternal(r)
             \/ DispatchExternal(r) \/ CallNext(r)
      PROVE  \A s \in Requests : pc[s] # "done" => pc'[s] # "done"
  BY <1>2 DEF Arrive, DispatchHealth, DispatchInternal, DispatchExternal, CallNext
<1>3. QED
  BY <1>1, <1>2 DEF Next, dispatch, vars

-----------------------------------------------------------------------------
(***************************************************************************)
(* The theorems.                                                           *)
(***************************************************************************)

(* Type correctness of every reachable state of the dispatcher.            *)
THEOREM TypeCorrect == Spec => []TypeOK
BY IInvariant, PTL DEF IInv

(* RoutingByIdentity: every dispatch task took the branch spec 4.5         *)
(* prescribes for its own request, and the internal branch acted on the    *)
(* primary oauth2-proxy email, on X-Email only when the primary is falsy,  *)
(* whatever the other tasks do between its awaits.                         *)
THEOREM Routing == Spec => []RoutingByIdentity
BY IInvariant, PTL DEF IInv

(* ExtractionMatchesReference: on every request the gateway has received,  *)
(* get_auth_headers agrees with the two-tier reference on email and user   *)
(* name.  It follows from ExtractorMatchesTwoTier, which holds for every   *)
(* header map, not only those TLC enumerates.                              *)
THEOREM ExtractionCorrect == Spec => []ExtractionMatchesReference
<1>1. ExtractionMatchesReference
  BY ExtractorMatchesTwoTier DEF ExtractionMatchesReference
<1>2. QED
  BY <1>1, PTL
(* ResponseIsDownstream: whenever dispatch returns, it returns the        *)
(* downstream answer to the request as it arrived, which is what call_next *)
(* was handed: the middleware never answers by itself nor alters the      *)
(* request, whatever the other tasks do (fail-open, spec 4.5 steps 4, 7). *)
THEOREM NoSelfAnswer == Spec => ResponseIsDownstream
BY IInvariant, ReturnStep, PTL DEF Spec, ResponseIsDownstream
=============================================================================
