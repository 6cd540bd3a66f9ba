-------------------------- MODULE HeaderExtractor --------------------------
(***************************************************************************)
(* The Header Extractor of src/orizon/auth/utils.py: pure functions that   *)
(* read the identity headers injected by the oauth2-proxy / nginx reverse  *)
(* proxy.  A request's headers are a function from header names to values, *)
(* with None for a header that is absent (what request.headers.get         *)
(* returns).  Header values are abstracted to None, the empty string and a *)
(* few model values: what Python's truthiness and equality tell apart.     *)
(***************************************************************************)
EXTENDS TLC

CONSTANTS
    None,       \* Python's None: the value of an absent header
    Values      \* non-empty header values (emails, user names, tokens)

Empty == ""

ASSUME ExtractorAssumption ==
    /\ None \notin Values
    /\ Empty \notin Values

\* The headers get_auth_headers reads, and the downstream Authorization.
HeaderNames == {"X-Auth-Request-Email", "X-Email",
                "X-Auth-Request-User", "X-User",
                "X-Auth-Request-Groups", "X-Auth-Request-Access-Token",
                "Authorization"}

HeaderValue == Values \cup {Empty, None}

\* Python truthiness of a header value: None and "" are false.
Truthy(v) == v \notin {None, Empty}

\* Python's `a or b`: a when a is truthy, b otherwise (even when b is falsy).
PyOr(a, b) == IF Truthy(a) THEN a ELSE b

\* request.headers.get(name)
HeaderGet(h, name) == h[name]

\* Fault variant: the fallback header consulted first.
get_user_email_swapped(h) ==
    PyOr(HeaderGet(h, "X-Email"), HeaderGet(h, "X-Auth-Request-Email"))

\* get_user_email: X-Auth-Request-Email, falling back to X-Email.
get_user_email(h) ==
    PyOr(HeaderGet(h, "X-Auth-Request-Email"), HeaderGet(h, "X-Email"))

\* get_user_name: X-Auth-Request-User, falling back to X-User.
get_user_name(h) ==
    PyOr(HeaderGet(h, "X-Auth-Request-User"), HeaderGet(h, "X-User"))

\* get_auth_headers: the four identity fields, groups and token unvalidated.
get_auth_headers(h) ==
    [email        |-> get_user_email(h),
     user         |-> get_user_name(h),
     groups       |-> HeaderGet(h, "X-Auth-Request-Groups"),
     access_token |-> HeaderGet(h, "X-Auth-Request-Access-Token")]

(***************************************************************************)
(* Reference definition (spec 4.1): the primary header takes precedence    *)
(* over the secondary one; with neither carrying a value the identity is   *)
(* absent.  Identity(v) is what a caller that tests `if v:` acts on.       *)
(***************************************************************************)
TwoTier(h, primary, secondary) ==
    IF Truthy(h[primary]) THEN h[primary]
    ELSE IF Truthy(h[secondary]) THEN h[secondary]
    ELSE None

Identity(v) == IF Truthy(v) THEN v ELSE None

=============================================================================
