# Orizon authentication gateway: TLA+ verification project

This directory models the identity-and-credential lifecycle of the Orizon
authentication gateway (`src/orizon/auth/`), checks the models with TLC on
small instances, and proves the central token-store properties with TLAPS for
every value of the constants.

## 1. The system and what this snapshot contains

The gateway sits in front of LiteLLM (the *Credential Authority*). It turns
two kinds of caller into one Authorization credential:

* *internal* users, whom the oauth2-proxy reverse proxy authenticated and
  whose identity arrives in trusted headers;
* *external* users, who sign up or log in by magic link and then hold a
  session cookie that resolves to a LiteLLM virtual key.

The repository snapshot contains only two implementation files:

| file | what it is |
|---|---|
| `src/orizon/auth/utils.py` | the Header Extractor: `get_user_email`, `get_user_name`, `get_auth_headers` |
| `src/orizon/auth/middleware.py` | the Auth Dispatcher: `OrizonAuthMiddleware.dispatch` |

The token store (`orizon.auth.tokens`), the session store
(`orizon.auth.sessions`), the routes (`orizon.auth.routes`) and the provisioning
functions (`generate_user_id`, `get_or_create_user_key`, `get_user`) are
*not* in the snapshot. The tests under `src/tests/orizon/auth/` import them.
They even import `generate_user_id` and `get_or_create_user_key` from `utils.py`,
which does not define them. These parts are modelled from the spec
(`spec.md` §4). The model follows the Redis and LiteLLM calls that the unit and
integration tests pin down. Their map entries are marked `spec_modelled`, or
point at the test lines that fix the behaviour.

### Inventory

| component | state | operations | interacts with |
|---|---|---|---|
| Header Extractor (`utils.py`) | none | `get_user_email`, `get_user_name`, `get_auth_headers` | read by the dispatcher |
| Auth Dispatcher (`middleware.py`) | none of its own; one asyncio task per request on one shared middleware instance | `dispatch`: health bypass, internal branch, external branch, `await call_next`, return the response | Header Extractor; the downstream app (LiteLLM) through `call_next` |
| Token Store (`tokens`, absent) | Redis hash `magic_link:<token>` with a TTL | `create_magic_link_token` (hset, expire), `verify_magic_link_token` (hgetall, delete), `invalidate_token` (delete) | Redis; called by the signup/login/verify routes |
| Session Store (`sessions`, absent) | Redis hash per session token with a TTL; a cookie in the browser | `create_session`, `get_session`, `delete_session`, `refresh_session`, cookie set/get/clear, `get_current_session` | Redis; the routes and, by design, the dispatcher |
| Credential Provisioner (absent) | none locally; users and keys live in LiteLLM | `generate_user_id`, `get_or_create_user_key` = `GET /user/info`, then `POST /user/new` or `POST /key/generate` | LiteLLM |
| Routes (`routes`, absent) | none | `POST /api/auth/signup`, `POST /api/auth/login`, `GET /api/auth/verify` | Provisioner, Token Store, Session Store |
| External: oauth2-proxy, e-mail delivery, LiteLLM | outside this repository | interface only | |

How they interact:
* The dispatcher calls the extractor.
* The routes call the provisioner and the token store, and on verify the
  session store.
* All shared mutable state lives in Redis and in LiteLLM.
* Every store and Authority call is an `await`, so request tasks interleave
  between any two such calls.

### What is hard

* **Interleaving at await points.** Two verifies of one magic link. Two
  provisioning calls for one new email. A refresh racing a logout.
* **Partial failure.** Every Redis call may fail and is swallowed by design
  (spec 4.2). An operation made of two calls can stop halfway: `hset` without
  `expire`, or a token consumed before provisioning fails.
* **Timeouts whose effect lands anyway.** A `/user/new` that times out after
  LiteLLM created the user.
* **Boundaries.** An empty header value, a `/health` prefix match, and
  truncated-hash user ids.

### Properties that make each component correct

* **Extractor.** The primary header wins, the fallback is used otherwise, and
  absent or empty values mean "no identity".
* **Dispatcher.**
  * Each request takes the branch spec 4.5 prescribes.
  * Every request is forwarded and answered (fail-open), and what dispatch
    returns is the downstream answer to the request as it arrived.
  * Internal requests carry a virtual key.
* **Token store.**
  * Single use under concurrency.
  * Verify returns exactly what was issued.
  * An unused token eventually stops being valid.
* **Provisioner.**
  * One user per email.
  * The result is the caller's own user and a key owned by that user.
  * Losing a create race is not a failure.
* **Session store.**
  * A round trip returns what was stored.
  * Refresh never creates a session.
  * A session's key was issued to the session's user.
* **Routes.**
  * A session for email *e* exists only after a token for *e* was consumed.
  * One magic link creates at most one session.
  * Login does not reveal whether the user exists.

## 2. Modules

| module | models | source |
|---|---|---|
| `HeaderExtractor` | `get_user_email`, `get_user_name`, `get_auth_headers`, Python truthiness and `or` | `utils.py` 18-82 |
| `AuthDispatcher` (EXTENDS HeaderExtractor) | `dispatch`, one task per request slot | `middleware.py` 36-79 |
| `TokenStore` | the magic-link token store over Redis | spec 4.2, 5; `test_tokens.py` |
| `TokenStoreProofs` (EXTENDS TokenStore, TLAPS) | inductive invariant and theorems | |
| `Provisioner` | `get_or_create_user_key` against LiteLLM | spec 4.3; `test_integration.py` |
| `UserKeys` | the abstract promise of the provisioner: ask, provide (register only the email's own user, mint one key for it), refuse | spec 3, 4.3, 5 |
| `ProvisionerProofs` (EXTENDS Provisioner, TLAPS) | inductive invariant and theorems, refinement of `UserKeys` | |
| `SessionStore` | the session store over Redis | spec 4.4; `test_sessions.py` |
| `SessionStoreProofs` (EXTENDS SessionStore, TLAPS) | inductive invariant and theorems | |
| `AuthFlow` | the signup, login and verify routes, composing `TokenStore`, `Provisioner` and `SessionStore` by INSTANCE | spec 4.6; `test_routes.py` |
| `AuthDispatcherProofs` (EXTENDS AuthDispatcher, TLAPS) | extractor lemmas, inductive invariant and theorems | |
| `AuthFlowProofs` (EXTENDS AuthFlow, TLAPS) | the composed inductive invariant and theorems, reusing the store proofs by INSTANCE | |
| `MC_*` | model-checking instances (model values, symmetry) | |

### AuthDispatcher

* **State.** Each request slot `r` has `pc[r]` (the position in `dispatch`),
  `req[r]` (the inbound request), `route[r]` (the branch taken),
  `ident[r]` (the `user_email` the internal branch acted on), `fwd[r]` (what
  was passed to `call_next`) and `resp[r]` (what `dispatch` returned).
* **Paths.** A path is abstracted to `[head, rest]`, so that
  `startswith("/health")` is `head = "/health"`.
* **Header values.** `None`, `""` and model values: what truthiness and
  equality tell apart.
* **Actions.**
  * `Arrive`: the client sends a request.
  * `DispatchHealth`: lines 41-43.
  * `DispatchInternal`: lines 45-66. The try body is `pass`, so nothing
    raises.
  * `DispatchExternal`: lines 68-75.
  * `CallNext`: lines 77-78.
  * `ReturnResponse`: lines 78-79.
* **Downstream.** LiteLLM answers a health path, or a request whose
  Authorization carries a valid key, with 200, and everything else with 401.
* **Fairness.** Weak fairness of each task's `dispatch` steps. The asyncio
  event loop runs every ready task, and `call_next` returns in-process. Clients
  (`Arrive`) are not fair.

### TokenStore

* **Workload.**
  * Each issuer `i` creates the one fresh token `i`. `secrets` tokens do not
    collide.
  * Each verifier `v` verifies one delivered token. A delivered token is one
    whose create call returned.
* **State.**
  * `store[t]`: the hash, or None.
  * `ttl[t]`: whether the key carries an expiry.
  * The issuers' `ipc` and `ireq`.
  * The verifiers' `vpc`, `vtok`, `vdata` and `vres`.
* **Actions.**
  * `create_magic_link_token_hset`: hset, or a caught failure that still
    returns the token.
  * `create_magic_link_token_expire`: expire, or a caught failure.
  * Verify as the unit tests drive it (`test_tokens.py` 92-112):
    `verify_magic_link_token_hgetall`, then `verify_magic_link_token_delete`.
    These are two Redis calls from the client, not the atomic get-and-delete
    spec 5 asks for. An empty hash, or a failure of either call, returns
    None.
  * `invalidate_token`.
  * `RedisExpire`: Redis's TTL expiry.
* **Fairness.** A started request continues (WF on the second step of create
  and of the two-step verify). Redis expires a key whose TTL ran out (WF on
  `RedisExpire`).

### Provisioner

* **State.**
  * `users[u]`: the email of LiteLLM user `u`, or None.
  * `keyOwner[c]`: the owner of the key minted by call `c`.
  * Per call: `cpc`, `cemail` and `cres` (the `(user, key)` result, or
    None).
* **Actions.**
  * `Call`.
  * `get_user` (`/user/info`): absent, present, or failure.
  * `create_user` (`/user/new`): created; or "already exists", which falls
    back to generate; or failure.
  * `generate_key` (`/key/generate`).
  * `TimedOut` (inside `create_user` and `generate_key`): LiteLLM carried out
    the call, which then timed out at the caller. The user or key exists, and
    the call returns `(None, None)`. Spec 5 bounds every Authority call with a
    timeout.
* **Assumption.** `generate_user_id` is the constant function `UserIdOf`,
  assumed injective (spec 8). `None` is not a result record.
* **Refinement.** `Abs == INSTANCE UserKeys` maps `users` to `account`,
  `keyOwner` to `owner`, `cemail` to `asked`, `cres` to `answer`, and the
  finished calls to `answered`. The Authority round trips are stutters. A
  successful or timed-out finish is `Provide` (a timeout answers nothing but
  leaves the key minted), and a failure is `Refuse`. `AbsSpec == Abs!Spec` is
  checked as a PROPERTY and proved.

### SessionStore

* **Workload.** Each creator `s` makes the one session token `s`. Each
  client `c` makes one `get_session`, `delete_session` or `refresh_session`
  on a token that was handed out.
* **State.**
  * `sess[s]`: the hash, or None.
  * `sttl[s]`: whether the key carries an expiry.
  * Per creator: `spc` and `sreq` (the snapshot create was called with).
  * Per client: `opc`, `oop`, `otok`, and the results `ores` (record) and
    `oflag` (bool).
  * Two history variables: `ended` (sessions ended by a delete that returned
    True, or by TTL) and `oended` (the client's token had ended when its call
    ran).
* **Actions.** The Redis calls come from the unit tests:
  * `create_session_hset` and `create_session_expire`. A failure is swallowed
    and the token still returned, because the verify route test expects 200
    without mocking the store.
  * `get_session` is one hgetall. An empty hash, or a failure, is None.
  * `delete_session` is one delete; its count becomes a bool.
  * `refresh_session` is one expire. Redis answers False for a missing key.
  * `RedisExpire`.
* The cookie helpers only format headers and are left out.

### AuthFlow

* **Composition.** `AuthFlow` declares the variables of the three stores and
  takes their actions through `Tok == INSTANCE TokenStore`, `Prov == INSTANCE
  Provisioner` and `Sess == INSTANCE SessionStore`. A signup and a login
  request are issuers of the token store. A verify request is a verifier, a
  provisioning caller, and the creator of the session token named after it.
* **State.** Per request: `rpc` (where the handler is), `remail` (the email
  of a login), `rresp` (the status answered) and `rcookie` (the session
  cookie set).
* **Signup.**
  * `signup_request`, then `signup_provision`, runs `get_or_create_user_key`.
  * `signup_issue` answers 500 on `(None, None)`. Otherwise it calls
    `create_magic_link_token(is_signup=True)`, through `IssueStep`, and
    answers 200.
* **Login.**
  * `login_get_user` awaits `get_user`. The result is ignored.
  * `login_issue` calls `create_magic_link_token(is_signup=False)` and
    answers 200.
* **Verify.**
  * `verify_request` and `verify_delete` run `verify_magic_link_token`.
  * `verify_provision_start` answers 400 on None. Otherwise it provisions the
    token's email.
  * `verify_session` answers 500 on `(None, None)`. Otherwise it runs
    `create_session` through `SessionStep`, sets the cookie, and answers 200.
* **No fairness.** Only safety is checked of the routes, so `Spec` is
  `Init /\ [][Next]_vars`. A handler that never gets an answer would need an
  unbounded await, which spec 5 excludes and the code cannot show.

## 3. Runs

| run | cfg | expect | checks | instance |
|---|---|---|---|---|
| dispatch | MC_AuthDispatcher.cfg | pass | TypeOK, RoutingByIdentity, ExtractionMatchesReference, EveryRequestForwarded, ResponseIsDownstream | 1 request slot; requests carry every combination of the two email and two user-name headers over {None, "", e1, e2}, 2 emails, 1 valid + 1 invalid key, 4 paths |
| dispatch_internal_key | MC_AuthDispatcher_bearer.cfg | violation | InternalRequestCarriesKey | 1 slot |
| dispatch_empty_identity | MC_AuthDispatcher_empty.cfg | violation | NoIdentityIsNone | 1 slot, every user-name value |
| tokens_two_step | MC_TokenStore_twostep.cfg | pass | TypeOK, VerifyReturnsIssued, ConsumedLinkGone | 2 tokens, 2 verifiers (symmetric), 2 emails |
| tokens_two_step_race | MC_TokenStore_race.cfg | violation | SingleUse | same, no symmetry |
| tokens_ttl | MC_TokenStore_ttl.cfg | violation | TokenEventuallyUnusable | same |
| provisioning_race | MC_Provisioner.cfg | pass | TypeOK, ProvisionedKeyOwned, AbsSpec | 3 calls (symmetric), 2 emails |
| sessions | MC_SessionStore.cfg | pass | TypeOK, SessionRoundTrip, EndedStaysEnded | 2 sessions of one user with 2 keys, 3 clients (symmetric) |
| authflow | MC_AuthFlow.cfg | pass | SessionOwnedByVerifiedEmail | 2 emails, 1 signup, 1 login, 2 verifies |
| authflow_link_replay | MC_AuthFlow_replay.cfg | violation | OneSessionPerLink | same, two-step verify |
| authflow_session_stored | MC_AuthFlow_stored.cfg | violation | VerifiedSessionStored | same |

**Why these bounds are enough.**
* Two verifiers on two tokens include two verifiers on the same token, which
  is the single-use race, and a wrong-token mix-up.
* Dispatch tasks share no state: the middleware instance has no fields and
  each task reads only its own request. One task slot therefore shows every
  behaviour of a request, and the interleavings of two slots add nothing.
* Two emails tell apart the two header precedences and an email mix-up.
  With `""` and None among the header values, every case of Python's `or`
  and `if user_email:` occurs. The user-name headers vary as well, for the
  extraction comparison.
* Three provisioning calls let two calls race to create one user while a
  third takes the existing-user path or provisions another email.
* Two sessions of one user with two keys tell a session's own snapshot from
  its sibling's. Three clients can get, delete and refresh one session in
  every order, around its expiry.
* In AuthFlow, two tokens (signup and login), two emails and two verifies
  let two verifies present one link, or each present the link of a different
  email. They also let a verify provision a user while a signup provisions
  the same one.
* Each property's fault variant (see `mutants` in PROJECT.json) is caught at
  these bounds.

**What the runs show.**
* **Routing.** Every request takes the branch the spec prescribes. The
  primary email header wins over X-Email. An empty header is "no identity".
  Health paths bypass auth, prefix-matched. An exact-match variant misroutes
  `/health/liveliness`. The prefix test itself (that `/healthz` also
  bypasses) is not checked: spec 4.5 names no health paths, so there is no
  list to hold the code's prefix against.
* **Forwarding.** Every request is eventually passed unmodified to
  `call_next`, and the downstream response is returned. As an action
  property, every step that ends a task returns the downstream answer to the
  request as it arrived. A fail-closed internal branch breaks both.
* **Findings.**
  * `dispatch_internal_key`: the internal branch is a stub. Internal requests
    reach LiteLLM with no key, or with the client's own Authorization.
  * `tokens_two_step_race`: the hgetall-then-delete verify lets two
    concurrent clicks on one magic link both log in.
  * `dispatch_empty_identity`: `get_auth_headers` folds an empty header into
    None only for the email. `X-User: ""` comes back as `""`, not the None
    its docstring and spec 4.1 promise.
  * `tokens_ttl`: `expire` failing after `hset` leaves a token that never
    expires, because the failure is swallowed.
* **Tokens.** A verify that won a token has deleted it: the link is gone
  for good once one click succeeds, so replay is confined to clicks that
  overlap. A best-effort delete that may leave the hash behind breaks this.
* **Provisioning.** Every result names the caller's user and a key owned by
  that user. Every step of the provisioner is a step of `UserKeys`; a
  success that mints a key without creating its user breaks this.
* **Sessions.** A get returns only its own token's snapshot. A session ended
  by logout or TTL is never returned again, and never reported alive by
  refresh. A refresh that rewrites the snapshot with SET ... EX breaks this.
* **Routes.**
  * Every session verify creates is for the email of the link it consumed,
    with that email's user id and a key of that user. Provisioning the email
    named in the request, rather than the token's, breaks this.
* **Further findings.**
  * `authflow_link_replay`: with the two-step verify, two verify requests
    carrying one link both read the token before either deletes it. The
    second delete finds the key gone and is still not treated as a miss.
    Both provision a key and both create a session: one link, two sessions
    and two live virtual keys.
  * `authflow_session_stored`: verify burns the link, `create_session`'s
    hset fails and is swallowed, and verify still answers 200 with a cookie
    naming a session that does not exist.

## 4. Proofs

Five modules hold the proofs: `AuthDispatcherProofs`, `TokenStoreProofs`,
`ProvisionerProofs`, `SessionStoreProofs` and `AuthFlowProofs`. Each one
follows the same pattern:
* it states an inductive invariant `IInv` that strengthens the properties;
* it proves `Init => IInv` and `IInv /\ [Next]_vars => IInv'`, with one step
  per action and one case per disjunct of the action;
* it derives each theorem from `IInvariant: Spec => []IInv` by PTL.

Every inductive invariant was first checked by TLC as an invariant of its
component's run, before it was proved.

### AuthDispatcherProofs

The following hold for every set of header values, keys and request tasks
(`ExtractorAssumption`, `DispatcherAssumption`):

* `ExtractionCorrect`: `Spec => []ExtractionMatchesReference`. It rests on
  lemma `ExtractorMatchesTwoTier`, which holds for every header map at all,
  not only the ones TLC enumerates. Its core, `PyOrTwoTier`, shows that
  `a or b` is truthy exactly when the two-tier reference finds an identity,
  and is then that identity.
* `TypeCorrect`: `Spec => []TypeOK`.
* `Routing`: `Spec => []RoutingByIdentity`.
* `NoSelfAnswer`: `Spec => ResponseIsDownstream`, the action property.

`IInv` adds two facts to `TypeOK` and `RoutingByIdentity`:
* `BusyHasRequest`: a task that is not idle holds a real request, not the
  empty `NoRequest`. Without it the headers the branch tests are unknown, and
  the email the internal branch records cannot be shown to be a value.
* `AwaitingForwarded`: a task awaiting `call_next` handed it its own request.
  The action property needs this: `ReturnResponse` answers `Downstream(fwd)`,
  and only this fact makes that `Downstream(req)`.

Lemma `ReturnStep` shows that under `IInv` every step satisfies the action
property's body. Only `ReturnResponse` ends a task, and every other action
leaves a task that has not finished unfinished.

### TokenStoreProofs

The following hold for every set of emails, issuers and verifiers. They
assume `TokenStoreAssumption`: None is not a token, a record or a stored
hash.

* `TypeCorrect`: `Spec => []TypeOK`.
* `VerifyAuthentic`: `Spec => []VerifyReturnsIssued`.
* `LinkConsumed`: `Spec => []ConsumedLinkGone`.

`IInv` is the conjunction of:

* `TypeOK`.
* `IssuedRecord`: a started issuer has its request.
* `StoreFromIssue`: a stored hash is the encoding of its issuer's request, and
  that issuer has started.
* `VerifierToken`: a started verifier holds a delivered token.
* `PendingDelete`: a verifier between hgetall and delete holds the issued
  hash.
* `NotYetReturned`: an unfinished verifier has no result.
* `VerifyReturnsIssued` and `ConsumedLinkGone`.

`TypeOK` alone is not inductive. The delete step decodes the hash its hgetall
read, so that hash must be known to be well formed and the issued one.
`ConsumedLinkGone` rests on `VerifierToken`: a verifier holds only a
delivered token, and create writes only its own token, which is not yet
delivered. So nothing writes a won token again once verify deleted it.
`DecodeEncode` shows that verify's `== "1"` coercion undoes create's
`"1"/"0"` encoding.

### ProvisionerProofs

The following hold for every set of emails, user ids and callers, and every
injective `UserIdOf` (`ProvisionerAssumption`):

* `TypeCorrect`: `Spec => []TypeOK`.
* `KeysOwned`: `Spec => []ProvisionedKeyOwned`.
* `Refinement`: `Spec => AbsSpec` (below).

These hold with Authority failures and late-landing timeouts included.
`IInv` adds five facts:
* `UserIdsDerived`: a LiteLLM user sits under `generate_user_id` of its email.
* `CallerEmail`: a started call has its email.
* `IdleFresh`: an idle call has no result.
* `GenerateHasUser`: a call at `/key/generate` has its user present.
* `ResultOwnKey`: a result names the key its own call minted.

The generate step reads the email back from LiteLLM's user record. That
record is the caller's own because of `UserIdsDerived` and injectivity
(lemma `UserOfEmail`). `ResultOwnKey` keeps later calls, which mint other
keys, from disturbing an earlier result.

### SessionStoreProofs

The following hold for every set of emails, user ids, keys, sessions and
clients:

* `TypeCorrect`: `Spec => []TypeOK`.
* `RoundTrip`: `Spec => []SessionRoundTrip`.
* `NoResurrection`: `Spec => []EndedStaysEnded`.

Both properties are about answers given in the past. `IInv` adds four facts:
* `StoredIsRequested`: a stored hash is its creator's snapshot, and that
  creator has started.
* `EndedIsGone`: an ended session is absent, and its creator has started.
* `AnsweredIssued`: an answered client used a token that was handed out.
* `IdleUnanswered`: an idle client has no result.

Together these say that a session key is written only by the one create that
names it, before it is handed out.

The provisioner also implements `UserKeys`: `Refinement` proves
`Spec => AbsSpec`. `Init` maps to `Abs!Init`. Under `IInv`, the Authority
round trips map to stutters (`StepRefines`). A success or a timeout maps to
`Provide` (`FinishRefines`), and a failure to `Refuse` (`FailRefines`).
`Provide` requires the email's user to be absent or already the email's own,
which is `UserIdsDerived` with injectivity. `IdleFresh` had to be
strengthened to say that an idle call has no email yet either: that is the
guard of the abstract `Ask`.

### AuthFlowProofs

The following hold for every set of tokens, emails, user ids and requests,
under `AuthFlowAssumption`. This assumption gives the three stores' own
assumptions for the composition's constants, and asks that the signup,
login and verify requests are disjoint sets.

* `SessionOwnership`: `Spec => []SessionOwnedByVerifiedEmail`.

The store proofs are reused, not redone. `TP == INSTANCE TokenStoreProofs`
and `PP == INSTANCE ProvisionerProofs` bring in their invariants and step
lemmas. `TokenStoreSteps` and `ProvisionerSteps` show that every step of
`AuthFlow` is a step of the store, or leaves it unchanged. Therefore
`TP!NextIInv` and `PP!NextIInv` apply, once the instances' assumptions are
proved (`TokenStoreAssumptionHolds`, `ProvisionerAssumptionHolds`).

`IInv` is `TP!IInv /\ PP!IInv` and four facts that link the handler to the
stores:
* `SessionTyped`.
* `RequestedOnlyWhenCreated`: a session request exists only once its
  create has started.
* `ProvisionedFromToken`: a verify that has started provisioning has
  finished verifying its token successfully, and provisions that token's
  email.
* `SessionFromProvision`: a verify that has started `create_session`
  finished provisioning, and the session snapshot is its email, its user
  id and its key.

`NextFlow` proves the four facts preserved, with one step per handler
action. The frame lemmas (`CallFrame`, `FlowFrame` and others) show that a
store step leaves the other stores' state alone.
* **Ownership.** The chain leads from a session to its verify's token, which
  `TP!VerifyReturnsIssued` says was issued for that email. It then leads to
  its result, which `PP!ProvisionedKeyOwned` says is that email's user with
  a key it owns.

### What stays with TLC

* Liveness: `EveryRequestForwarded` and `TokenEventuallyUnusable`.
* Anything about ENABLED.
* The violations: `InternalRequestCarriesKey`, `NoIdentityIsNone`,
  `SingleUse`, `TokenEventuallyUnusable`, `OneSessionPerLink` and
  `VerifiedSessionStored`. These are shown by TLC counterexamples.
* Liveness needs the fairness and ENABLED reasoning that these provers do
  not support. The properties are checked at the runs' bounds only.

## 5. Not modelled, and why

* **oauth2-proxy, e-mail delivery and LiteLLM's internals.** These are
  external (spec 1). Only their interface appears.
* **Logging, wording of responses, cookie attributes, request validation
  (422).** No property tells them apart. FastAPI rejects invalid requests
  before a handler runs.
* **`get_current_session` and the cookie helpers.** They read and write
  headers only. The dispatcher's external branch does not call them yet
  (`middleware.py` 68-75).
* **Collisions of `generate_user_id`.** The model assumes the injectivity
  spec 8 requires, and the Provisioner proofs rest on it. The hazard is
  listed in PROJECT.json.

## 6. Plan

Done:
* `HeaderExtractor`, `AuthDispatcher`, `TokenStore`, `Provisioner` (with
  timeouts), `SessionStore`, `AuthFlow`.
* Proofs for every component: dispatcher and extractor, token store,
  provisioner, session store, and the composed routes.
* The `UserKeys` refinement, with its proof.

Next, in order of importance:
1. A refinement of `SessionStore` by an abstract session map, with its proof.
2. An abstract promise of the routes: a session for *e* only after a link
   for *e* is consumed. One session per link does not hold of the code
   (`authflow_link_replay`), so the promise must leave it out or the code
   must change first.
3. Anti-enumeration of login: the response is the same whether the user
   exists or not. This is a property of pairs of runs; state it as equality
   of `rresp` over a product of two copies of the login handler.
