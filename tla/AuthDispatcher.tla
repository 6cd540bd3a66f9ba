--------------------------- MODULE AuthDispatcher ---------------------------
(***************************************************************************)
(* OrizonAuthMiddleware.dispatch (src/orizon/auth/middleware.py): one      *)
(* asyncio task per inbound request, all sharing one middleware instance.  *)
(* Each task classifies its request (health bypass, internal identity,     *)
(* external), then awaits call_next and returns the downstream response.   *)
(* The downstream application (LiteLLM) is the environment: it answers a   *)
(* health path, and any other path whose Authorization carries a key it    *)
(* accepts, with 200, and everything else with 401.                        *)
(***************************************************************************)
EXTENDS HeaderExtractor

CONSTANTS
    Requests,    \* request task slots served concurrently
    NameValues,  \* values the two user-name headers take in requests
    Keys,        \* bearer credentials a client may send
    ValidKeys    \* the ones the downstream Credential Authority accepts

ASSUME DispatcherAssumption ==
    /\ Requests # {}
    /\ NameValues \subseteq HeaderValue
    /\ Keys \subseteq Values
    /\ ValidKeys \subseteq Keys

\* A URL path, abstracted to its first segment and the rest of it:
\* request.url.path.startswith("/health") holds exactly for head "/health".
Paths == [head : {"/health", "/v1"}, rest : {"", "/liveliness"}]

\* Inbound headers: the email, user-name and Authorization headers vary.
InboundHeaders ==
    LET V == {None, Empty} \cup (Values \ Keys) IN
    { [n \in HeaderNames |->
          CASE n = "X-Auth-Request-Email" -> a
            [] n = "X-Email"              -> b
            [] n = "X-Auth-Request-User"  -> c
            [] n = "X-User"               -> d
            [] n = "Authorization"        -> z
            [] OTHER                      -> None] :
          a \in V, b \in V, c \in NameValues, d \in NameValues,
          z \in {None} \cup Keys }

Request == [path : Paths, headers : [HeaderNames -> HeaderValue]]
NoRequest == [path |-> None, headers |-> None]

Responses == {200, 401}

VARIABLES
    pc,      \* pc[r]: where task r is in dispatch
    req,     \* req[r]: the request task r is serving
    route,   \* route[r]: the branch of dispatch that task r took
    ident,   \* ident[r]: the user_email the internal branch acted on
    fwd,     \* fwd[r]: the request as passed to call_next
    resp     \* resp[r]: the response dispatch returned

vars == <<pc, req, route, ident, fwd, resp>>

PCs == {"idle", "dispatch", "call_next", "awaiting", "done"}
Routes == {"none", "health", "internal", "external"}

TypeOK ==
    /\ pc \in [Requests -> PCs]
    /\ req \in [Requests -> Request \cup {NoRequest}]
    /\ route \in [Requests -> Routes]
    /\ ident \in [Requests -> Values \cup {None}]
    /\ fwd \in [Requests -> Request \cup {NoRequest}]
    /\ resp \in [Requests -> Responses \cup {None}]

Init ==
    /\ pc = [r \in Requests |-> "idle"]
    /\ req = [r \in Requests |-> NoRequest]
    /\ route = [r \in Requests |-> "none"]
    /\ ident = [r \in Requests |-> None]
    /\ fwd = [r \in Requests |-> NoRequest]
    /\ resp = [r \in Requests |-> None]

\* What the downstream application answers to the request it receives.
Downstream(q) ==
    IF q.path.head = "/health" \/ q.headers["Authorization"] \in ValidKeys
    THEN 200 ELSE 401

\* A client sends a new request on slot r (after the previous one returned).
Arrive(r) ==
    /\ pc[r] \in {"idle", "done"}
    /\ \E p \in Paths, h \in InboundHeaders :
          req' = [req EXCEPT ![r] = [path |-> p, headers |-> h]]
    /\ pc' = [pc EXCEPT ![r] = "dispatch"]
    /\ route' = [route EXCEPT ![r] = "none"]
    /\ ident' = [ident EXCEPT ![r] = None]
    /\ fwd' = [fwd EXCEPT ![r] = NoRequest]
    /\ resp' = [resp EXCEPT ![r] = None]

\* Fault variant: an exact comparison, path == "/health".
IsHealthPathExact(p) == p.head = "/health" /\ p.rest = ""

\* request.url.path.startswith("/health")
IsHealthPath(p) == p.head = "/health"

\* Health endpoints skip auth and go straight to call_next.
DispatchHealth(r) ==
    /\ pc[r] = "dispatch"
    /\ IsHealthPath(req[r].path)
    /\ pc' = [pc EXCEPT ![r] = "call_next"]
    /\ route' = [route EXCEPT ![r] = "health"]
    /\ UNCHANGED <<req, ident, fwd, resp>>

\* Fault variant: `if user_email is not None:` in place of `if user_email:`.
DispatchInternalIsNotNone(r) ==
    /\ pc[r] = "dispatch"
    /\ ~IsHealthPath(req[r].path)
    /\ get_user_email(req[r].headers) # None
    /\ pc' = [pc EXCEPT ![r] = "call_next"]
    /\ route' = [route EXCEPT ![r] = "internal"]
    /\ ident' = [ident EXCEPT ![r] = get_user_email(req[r].headers)]
    /\ UNCHANGED <<req, fwd, resp>>

\* Fault variant: the internal branch answers 401 itself (fail-closed)
\* instead of continuing to call_next.
DispatchInternalFailClosed(r) ==
    /\ pc[r] = "dispatch"
    /\ ~IsHealthPath(req[r].path)
    /\ Truthy(get_user_email(req[r].headers))
    /\ pc' = [pc EXCEPT ![r] = "done"]
    /\ route' = [route EXCEPT ![r] = "internal"]
    /\ ident' = [ident EXCEPT ![r] = get_user_email(req[r].headers)]
    /\ resp' = [resp EXCEPT ![r] = 401]
    /\ UNCHANGED <<req, fwd>>

\* An oauth2-proxy email header is present: the internal branch.  Its try
\* block is still empty (provisioning and the Authorization header are
\* TODO), so nothing can raise and the request is left as it is.
DispatchInternal(r) ==
    /\ pc[r] = "dispatch"
    /\ ~IsHealthPath(req[r].path)
    /\ Truthy(get_user_email(req[r].headers))
    /\ pc' = [pc EXCEPT ![r] = "call_next"]
    /\ route' = [route EXCEPT ![r] = "internal"]
    /\ ident' = [ident EXCEPT ![r] = get_user_email(req[r].headers)]
    /\ UNCHANGED <<req, fwd, resp>>

\* No internal identity: the external branch only reads Authorization to
\* choose a log line and leaves the request as it is.
DispatchExternal(r) ==
    /\ pc[r] = "dispatch"
    /\ ~IsHealthPath(req[r].path)
    /\ ~Truthy(get_user_email(req[r].headers))
    /\ pc' = [pc EXCEPT ![r] = "call_next"]
    /\ route' = [route EXCEPT ![r] = "external"]
    /\ UNCHANGED <<req, ident, fwd, resp>>

\* await call_next(request): the request object is handed on as it is.
CallNext(r) ==
    /\ pc[r] = "call_next"
    /\ fwd' = [fwd EXCEPT ![r] = req[r]]
    /\ pc' = [pc EXCEPT ![r] = "awaiting"]
    /\ UNCHANGED <<req, route, ident, resp>>

\* call_next returns; dispatch returns the downstream response unmodified.
ReturnResponse(r) ==
    /\ pc[r] = "awaiting"
    /\ resp' = [resp EXCEPT ![r] = Downstream(fwd[r])]
    /\ pc' = [pc EXCEPT ![r] = "done"]
    /\ UNCHANGED <<req, route, ident, fwd>>

dispatch(r) ==
    \/ DispatchHealth(r)
    \/ DispatchInternal(r)
    \/ DispatchExternal(r)
    \/ CallNext(r)
    \/ ReturnResponse(r)

Next == \E r \in Requests : Arrive(r) \/ dispatch(r)

\* The event loop runs every ready task; clients need not send requests.
Fairness == \A r \in Requests : WF_vars(dispatch(r))

Spec == Init /\ [][Next]_vars /\ Fairness

-----------------------------------------------------------------------------
(***************************************************************************)
(* Properties.                                                             *)
(***************************************************************************)

\* The route the reference asks for (spec 4.5 steps 1-3, 4.1).
ExpectedRoute(q) ==
    IF q.path.head = "/health" THEN "health"
    ELSE IF TwoTier(q.headers, "X-Auth-Request-Email", "X-Email") # None
         THEN "internal" ELSE "external"

(* Every dispatch took the branch the spec prescribes for its own request, *)
(* and the internal branch acted on the primary oauth2-proxy email when    *)
(* that header is set, on X-Email only otherwise: get_user_email's `or`    *)
(* precedence and the `if user_email:` truthiness test in dispatch.        *)
RoutingByIdentity ==
    \A r \in Requests :
        route[r] # "none" =>
            /\ route[r] = ExpectedRoute(req[r])
            /\ route[r] = "internal" =>
                 ident[r] = TwoTier(req[r].headers, "X-Auth-Request-Email", "X-Email")

(* On every request the gateway has received, get_auth_headers of utils.py *)
(* agrees with the two-tier reference of spec 4.1 on the email and the     *)
(* user name, up to the falsy values a caller's truthiness test does not   *)
(* tell apart: the `or` precedence of get_user_email and get_user_name.    *)
ExtractionMatchesReference ==
    \A r \in Requests :
        req[r] # NoRequest =>
            LET h == req[r].headers IN
            /\ Identity(get_auth_headers(h).email)
                  = TwoTier(h, "X-Auth-Request-Email", "X-Email")
            /\ Identity(get_auth_headers(h).user)
                  = TwoTier(h, "X-Auth-Request-User", "X-User")

(* Every request that reaches dispatch is eventually handed, unmodified,   *)
(* to call_next and the downstream answer to it is what dispatch returns:  *)
(* the middleware never answers by itself (spec 4.5 step 4, 7).            *)
EveryRequestForwarded ==
    \A r \in Requests :
        pc[r] = "dispatch" ~>
            (pc[r] = "done" /\ fwd[r] = req[r] /\ resp[r] = Downstream(req[r]))

(* Whenever dispatch returns, it returns what the downstream application  *)
(* answered to the request as it arrived, and call_next was handed that    *)
(* very request: no branch answers by itself or alters the request, with  *)
(* other tasks' requests arriving and returning in between (spec 4.5      *)
(* step 4, 7: fail-open, the response passed through unmodified).          *)
ResponseIsDownstream ==
    [][\A r \in Requests :
          (pc[r] # "done" /\ pc'[r] = "done") =>
              /\ fwd'[r] = req[r]
              /\ resp'[r] = Downstream(req[r])]_vars

(* The docstrings of get_user_email and get_user_name (utils.py 28-29,     *)
(* 54-55: "Email string or None if not found") and spec 4.1 ("if neither   *)
(* present, result is absent"): on a request whose identity headers carry  *)
(* no value, get_auth_headers reports the email and the user name as None, *)
(* not as the empty value of a fallback header that `a or b` hands back.   *)
NoIdentityIsNone ==
    \A r \in Requests :
        req[r] # NoRequest =>
            LET h == req[r].headers IN
            /\ TwoTier(h, "X-Auth-Request-Email", "X-Email") = None
                  => get_auth_headers(h).email = None
            /\ TwoTier(h, "X-Auth-Request-User", "X-User") = None
                  => get_auth_headers(h).user = None

(* The module docstring and spec 4.5 step 2: a request of an internal user *)
(* reaches LiteLLM with an Authorization header carrying a virtual key.    *)
InternalRequestCarriesKey ==
    \A r \in Requests :
        (route[r] = "internal" /\ fwd[r] # NoRequest) =>
            fwd[r].headers["Authorization"] \in ValidKeys

=============================================================================
