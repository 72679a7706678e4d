----------------------------- MODULE OtterClient -----------------------------
(***************************************************************************)
(* The Otter HTTP client and the OAuth token manager it relies on:         *)
(* ingestion/otter_client.py, ingestion/oauth.py, ingestion/backoff.py.    *)
(*                                                                         *)
(* Each member of Proc is one thread of control using an OtterClient and   *)
(* an OAuthRefresher (a CLI run, or a Streamlit session).  They share the  *)
(* credential record of "merchant_001", the only merchant the client loads *)
(* tokens for, through a SecretsPort.  A step ends wherever the code       *)
(* performs I/O, so that other processes run between an HTTP reply, a load *)
(* of the credentials and a save.                                          *)
(*                                                                         *)
(* The Otter server is external: it answers a resource call according to   *)
(* the validity of the bearer token and the faults the configuration       *)
(* allows, and it issues tokens, numbered by the grant that made them.     *)
(***************************************************************************)
EXTENDS Naturals, Sequences

CONSTANTS
    Proc,            \* threads of control sharing the stored credentials
    MaxRetries,      \* rate_limit_policy.max_retries
    Lifetime,        \* expires_in of a token reply, in ticks
    Threshold,       \* _PRE_EXPIRY_THRESHOLD, in ticks
    Margin,          \* the safety margin taken off expires_in, in ticks
    Latency,         \* longest time one I/O step may take, in ticks
    RefreshInReply,  \* may a token reply carry a refresh token?
    Operations,      \* which entry points the processes call
    Seeds,           \* which credential records exist at the start
    Faults,          \* which faults the environment may produce
    MaxTime,         \* bound: the clock stops here
    MaxGrants        \* bound: the server refuses further grants

AllSeeds      == {"absent", "bare", "granted"}
AllOperations == {"resource", "authorization_code", "client_credentials"}
GrantTypes    == {"refresh_token", "authorization_code", "client_credentials"}
AllFaults     == {"401", "403", "429", "5xx", "unreachable", "refused",
                  "reply_lost", "secrets", "crash"}

ASSUME ClientAssumption ==
    /\ MaxRetries \in Nat /\ Lifetime \in Nat /\ Threshold \in Nat
    /\ Margin \in Nat /\ Latency \in Nat /\ MaxTime \in Nat /\ MaxGrants \in Nat
    /\ Margin <= Lifetime
    /\ RefreshInReply \in (SUBSET BOOLEAN) \ {{}}
    /\ Operations \subseteq AllOperations
    /\ Seeds \in (SUBSET AllSeeds) \ {{}}
    /\ Faults \subseteq AllFaults

VARIABLES
    now,       \* the UTC clock
    store,     \* the stored credentials of merchant_001
    expiry,    \* server: expiry[n] is the instant access token n expires
    live,      \* server: the refresh tokens it accepts
    pc,        \* where each process is
    since,     \* when the process's current I/O step began
    seen,      \* HTTP statuses the process's current request has received
    token,     \* the access token in the request's Authorization header
    loaded,    \* the credentials ensure_fresh_token or a grant loaded
    grant,     \* grant_type of the token request in progress
    reply,     \* tokens the server returned, not yet saved
    outcome,   \* how the process's last operation ended
    orphaned   \* refresh tokens spent by a grant whose reply was never saved

serverVars  == <<expiry, live>>
requestVars == <<seen, token>>
grantVars   == <<loaded, grant, reply>>
vars == <<now, store, serverVars, pc, since, requestVars, grantVars, outcome, orphaned>>

None == 0
Credentials ==
    [found : BOOLEAN, access : Nat, refresh : Nat, expires_at : Nat]
Tokens == [access : Nat, refresh : Nat]
NoTokens == [access |-> None, refresh |-> None]

\* Bare: a merchant saved with client credentials but no token yet.
Absent  == [found |-> FALSE, access |-> None, refresh |-> None, expires_at |-> 0]
Bare    == [found |-> TRUE,  access |-> None, refresh |-> None, expires_at |-> 0]
Granted == [found |-> TRUE,  access |-> 1, refresh |-> 1, expires_at |-> Lifetime - Margin]
Seed    == [s \in AllSeeds |->
              CASE s = "absent" -> Absent [] s = "bare" -> Bare [] s = "granted" -> Granted]

Init ==
    /\ now = 0
    /\ store \in {Seed[s] : s \in Seeds}
    /\ expiry = <<Lifetime>>
    /\ live = {1}
    /\ pc = [p \in Proc |-> "idle"]
    /\ since = [p \in Proc |-> 0]
    /\ seen = [p \in Proc |-> <<>>]
    /\ token = [p \in Proc |-> None]
    /\ loaded = [p \in Proc |-> Absent]
    /\ grant = [p \in Proc |-> "refresh_token"]
    /\ reply = [p \in Proc |-> NoTokens]
    /\ outcome = [p \in Proc |-> "none"]
    /\ orphaned = {}

(***************************************************************************)
(* Control flow of one process                                             *)
(***************************************************************************)
Goto(p, label) ==
    /\ pc' = [pc EXCEPT ![p] = label]
    /\ since' = [since EXCEPT ![p] = now]
    /\ UNCHANGED outcome

Finish(p, result) ==
    /\ pc' = [pc EXCEPT ![p] = "idle"]
    /\ since' = [since EXCEPT ![p] = 0]
    /\ outcome' = [outcome EXCEPT ![p] = result]

Attempt(p) == Len(seen[p])

Valid(t) == t \in DOMAIN expiry /\ now < expiry[t]

\* Mutant: one retry too many.
ShouldRetryOffByOne(n) == n <= MaxRetries

\* RetryPolicy.should_retry of the rate limit policy.
ShouldRetry(n) == n < MaxRetries

\* fetch_orders, request_report and poll_report begin alike: load the
\* credentials, put the access token in the header, issue the request.
StartRequest(p) ==
    /\ pc[p] = "idle" /\ "resource" \in Operations
    /\ IF store.found
       THEN /\ Goto(p, "call")
            /\ token' = [token EXCEPT ![p] = store.access]
            /\ seen' = [seen EXCEPT ![p] = <<>>]
       ELSE Finish(p, "MerchantNotFoundError") /\ UNCHANGED requestVars
    /\ UNCHANGED <<now, store, serverVars, grantVars, orphaned>>

\* What a resource call may bring back.
Statuses(p) ==
    (IF Valid(token[p]) THEN {"2xx"} ELSE {"401"})
        \union (Faults \intersect {"401", "403", "429", "5xx"})

\* The branches of _request_with_401_recovery on a reply.
Unauthorized(p) ==
    CASE Attempt(p) + 1 = 1 -> Goto(p, "call")
      [] Attempt(p) + 1 = 2 -> Goto(p, "ensure_fresh")
      [] OTHER              -> Finish(p, "Tier1AuthError")

RateLimited(p) ==
    IF ShouldRetry(Attempt(p)) THEN Goto(p, "call") ELSE Finish(p, "Tier2LatencyError")

React(p, status) ==
    CASE status = "401" -> Unauthorized(p)
      [] status = "429" -> RateLimited(p)
      [] status = "5xx" -> Finish(p, "Tier2LatencyError")
      [] OTHER          -> Finish(p, "returned")

\* Mutant: the wait for the rate limit starts the count anew.
ReceiveRestarts(p, status) ==
    seen' = IF status = "429" /\ seen[p] # <<>> THEN [seen EXCEPT ![p] = <<>>]
            ELSE [seen EXCEPT ![p] = Append(@, status)]

Receive(p, status) == seen' = [seen EXCEPT ![p] = Append(@, status)]

Call(p) ==
    /\ pc[p] = "call"
    /\ \E status \in Statuses(p) : Receive(p, status) /\ React(p, status)
    /\ UNCHANGED <<now, store, serverVars, token, grantVars, orphaned>>

\* session.request raises: nothing in the client catches it.
CallRaises(p) ==
    /\ pc[p] = "call" /\ "unreachable" \in Faults
    /\ Finish(p, "ConnectionError")
    /\ UNCHANGED <<now, store, serverVars, requestVars, grantVars, orphaned>>

\* Mutant: every second 401 refreshes, however fresh the token.
NeverFarFromExpiry(creds) == FALSE

\* Mutant: a token is fresh until it expires.
NotYetExpired(creds) == creds.expires_at >= now

\* creds.expires_at - clock() >= _PRE_EXPIRY_THRESHOLD
FarFromExpiry(creds) == creds.expires_at >= now + Threshold

\* Mutant: no check that there is anything to refresh.
AlwaysUsable(creds) == TRUE

\* ensure_fresh_token raises without an access token, _refresh without a
\* refresh token.
Usable(creds) == creds.access # None /\ creds.refresh # None

\* ensure_fresh_token up to the HTTP request of _refresh.  Whatever it raises
\* is swallowed by its caller, which goes on to reload the credentials.
EnsureFreshToken(p) ==
    /\ pc[p] = "ensure_fresh"
    /\ IF ~Usable(store) \/ FarFromExpiry(store)
       THEN Goto(p, "reload") /\ UNCHANGED <<loaded, grant>>
       ELSE /\ Goto(p, "post")
            /\ loaded' = [loaded EXCEPT ![p] = store]
            /\ grant' = [grant EXCEPT ![p] = "refresh_token"]
    /\ UNCHANGED <<now, store, serverVars, seen, token, reply, orphaned>>

\* Mutant: the Authorization header is not patched.
ReloadKeepsHeader(p) ==
    /\ pc[p] = "reload"
    /\ Goto(p, "call")
    /\ UNCHANGED <<now, store, serverVars, requestVars, grantVars, orphaned>>

\* Reload the credentials after ensure_fresh_token and patch the header.
ReloadCredentials(p) ==
    /\ pc[p] = "reload"
    /\ token' = [token EXCEPT ![p] = store.access]
    /\ Goto(p, "call")
    /\ UNCHANGED <<now, store, serverVars, seen, grantVars, orphaned>>

(***************************************************************************)
(* Token grants                                                            *)
(***************************************************************************)
\* exchange_authorization_code: the merchant must already be stored.
StartExchange(p) ==
    /\ pc[p] = "idle" /\ "authorization_code" \in Operations
    /\ IF store.found
       THEN /\ Goto(p, "post")
            /\ loaded' = [loaded EXCEPT ![p] = store]
            /\ grant' = [grant EXCEPT ![p] = "authorization_code"]
       ELSE Finish(p, "MerchantNotFoundError") /\ UNCHANGED <<loaded, grant>>
    /\ UNCHANGED <<now, store, serverVars, requestVars, reply, orphaned>>

\* request_initial_token: stored credentials, or minimal ones when the
\* merchant is unknown.
StartInitialToken(p) ==
    /\ pc[p] = "idle" /\ "client_credentials" \in Operations
    /\ loaded' = [loaded EXCEPT ![p] = IF store.found THEN store ELSE Bare]
    /\ grant' = [grant EXCEPT ![p] = "client_credentials"]
    /\ Goto(p, "post")
    /\ UNCHANGED <<now, store, serverVars, requestVars, reply, orphaned>>

\* An exception in a grant: a refresh is made inside ensure_fresh_token, whose
\* caller swallows it; the other grants propagate it.
GrantRaises(p, error) ==
    IF grant[p] = "refresh_token" THEN Goto(p, "reload") ELSE Finish(p, error)

\* A refresh grant needs a live refresh token; a reply that carries a new
\* refresh token ends the life of the one it was asked with.
ServerAccepts(p) ==
    /\ grant[p] = "refresh_token" => loaded[p].refresh \in live
    /\ Len(expiry) < MaxGrants

Grant(p) ==
    /\ pc[p] = "post" /\ ServerAccepts(p)
    /\ LET n == Len(expiry) + 1
           spent == IF grant[p] = "refresh_token" THEN {loaded[p].refresh} ELSE {}
       IN /\ expiry' = Append(expiry, now + Lifetime)
          /\ \E withRefresh \in RefreshInReply :
                /\ reply' = [reply EXCEPT ![p] =
                      [access |-> n, refresh |-> IF withRefresh THEN n ELSE None]]
                /\ live' = IF withRefresh THEN (live \ spent) \union {n} ELSE live
    /\ Goto(p, "save")
    /\ UNCHANGED <<now, store, requestVars, loaded, grant, orphaned>>

\* A reply other than 200, or no connection to the token endpoint.
GrantRefused(p) ==
    /\ pc[p] = "post"
    /\ ~ServerAccepts(p) \/ "refused" \in Faults
    /\ GrantRaises(p, "OAuthError")
    /\ UNCHANGED <<now, store, serverVars, requestVars, grantVars, orphaned>>

\* Mutant: the old refresh token is preferred to the new one.
KeepOldRefreshToken(p) ==
    IF grant[p] = "refresh_token" THEN loaded[p].refresh ELSE reply[p].refresh

\* Mutant: _refresh has no fallback either.
TakeReplyAsIs(p) == reply[p].refresh

\* The saved record: _refresh keeps the old refresh token when the reply has
\* none, the other two grants do not.
RefreshTokenToSave(p) ==
    IF reply[p].refresh = None /\ grant[p] = "refresh_token"
    THEN loaded[p].refresh ELSE reply[p].refresh

\* Mutant: no safety margin.
ExpiresAtWithoutMargin == now + Lifetime

ExpiresAt == now + Lifetime - Margin

SaveTokens(p) ==
    /\ pc[p] = "save"
    /\ store' = [found |-> TRUE, access |-> reply[p].access,
                 refresh |-> RefreshTokenToSave(p), expires_at |-> ExpiresAt]
    /\ IF grant[p] = "refresh_token" THEN Goto(p, "reload") ELSE Finish(p, "returned")
    /\ UNCHANGED <<now, serverVars, requestVars, grantVars, orphaned>>

\* The refresh token a process has spent and not yet replaced in the store.
Spent(p) ==
    IF pc[p] = "save" /\ grant[p] = "refresh_token" THEN {loaded[p].refresh} ELSE {}

\* The server granted the tokens, but the process never saves them: the reply
\* is lost on its way, or SecretsPort.save raises.
TokensNotSaved(p) ==
    /\ pc[p] = "save" /\ Faults \intersect {"reply_lost", "secrets"} # {}
    /\ GrantRaises(p, "ConnectionError")
    /\ orphaned' = orphaned \union Spent(p)
    /\ UNCHANGED <<now, store, serverVars, requestVars, grantVars>>

\* SecretsPort.load raises: inside ensure_fresh_token it is swallowed, while
\* the reload that follows is not protected.  At the start of a request, before
\* any call, a load that raises changes nothing: the request is not started.
LoadRaises(p) ==
    /\ "secrets" \in Faults
    /\ \/ pc[p] = "ensure_fresh" /\ Goto(p, "reload")
       \/ pc[p] = "reload" /\ Finish(p, "SecretsError")
    /\ UNCHANGED <<now, store, serverVars, requestVars, grantVars, orphaned>>

\* The process is killed; a new one takes its place.
Crash(p) ==
    /\ pc[p] # "idle" /\ "crash" \in Faults
    /\ Finish(p, "crashed")
    /\ orphaned' = orphaned \union Spent(p)
    /\ UNCHANGED <<now, store, serverVars, requestVars, grantVars>>

\* Time passes, but no I/O step takes longer than Latency.
Tick ==
    /\ now < MaxTime
    /\ \A p \in Proc : pc[p] # "idle" => now < since[p] + Latency
    /\ now' = now + 1
    /\ UNCHANGED <<store, serverVars, pc, since, requestVars, grantVars, outcome, orphaned>>

Start(p) == StartRequest(p) \/ StartExchange(p) \/ StartInitialToken(p)

Step(p) ==
    \/ Call(p) \/ CallRaises(p)
    \/ EnsureFreshToken(p) \/ ReloadCredentials(p)
    \/ Grant(p) \/ GrantRefused(p) \/ SaveTokens(p) \/ TokensNotSaved(p)
    \/ LoadRaises(p)

Next == Tick \/ \E p \in Proc : Start(p) \/ Step(p) \/ Crash(p)

\* Weak fairness of a process's own steps: the code has no wait other than
\* bounded sleeps and I/O, and I/O is assumed to answer or to raise.
Spec == Init /\ [][Next]_vars /\ \A p \in Proc : WF_vars(Step(p))

(***************************************************************************)
(* Properties                                                              *)
(***************************************************************************)
Labels == {"idle", "call", "ensure_fresh", "reload", "post", "save"}
Outcomes == {"none", "returned", "Tier1AuthError", "Tier2LatencyError",
             "MerchantNotFoundError", "ConnectionError", "OAuthError",
             "SecretsError", "crashed"}

\* The state has the shape the code's objects have.
Shape ==
    /\ now \in Nat
    /\ store \in Credentials
    /\ expiry \in Seq(Nat)
    /\ live \subseteq Nat
    /\ pc \in [Proc -> Labels]
    /\ since \in [Proc -> Nat]
    /\ seen \in [Proc -> Seq({"2xx", "401", "403", "429", "5xx"})]
    /\ token \in [Proc -> Nat]
    /\ loaded \in [Proc -> Credentials]
    /\ grant \in [Proc -> GrantTypes]
    /\ reply \in [Proc -> Tokens]
    /\ outcome \in [Proc -> Outcomes]
    /\ orphaned \subseteq Nat

Refreshing(p) == pc[p] \in {"post", "save"} /\ grant[p] = "refresh_token"

\* A refresh grant in progress has a refresh token to ask with.
RefreshesHaveTokens ==
    \A p \in Proc : Refreshing(p) => loaded[p].refresh # None

\* The state is well shaped, and no refresh grant is attempted without a
\* refresh token, whatever other processes stored or lost before.
TypeOK == Shape /\ RefreshesHaveTokens

\* A stored refresh token is one the server still accepts, unless a process
\* has spent it and is about to store its successor, or such a process lost
\* the successor.  No interleaving of concurrent refreshes and exchanges
\* (read credentials, POST, write them back) puts a dead token in the store.
RefreshTokenUsable ==
    store.refresh # None =>
        store.refresh \in live \union orphaned \union UNION {Spent(p) : p \in Proc}

\* The stored expires_at is never later than the true expiry of the stored
\* access token, although the clock is read after the reply arrives.
ExpiryIsConservative ==
    store.access # None => store.expires_at <= expiry[store.access]

\* A request makes a bounded number of HTTP calls, whatever mix of 401 and 429
\* it meets: two recovery retries, or the rate limit's, never their sum.
CallBudget ==
    \A p \in Proc : Len(seen[p]) <= 1 + (IF MaxRetries > 2 THEN MaxRetries ELSE 2)

\* Credentials still far from expiry are not overwritten by a refresh, even
\* one that another process decided on before they were stored.
FreshTokensAreKept ==
    [][store.found /\ store.expires_at >= now + Threshold => store' = store]_vars

\* A refresh never leaves the merchant without a refresh token, although the
\* server may not send a new one.
RefreshTokenIsNotForgotten ==
    [][store.refresh # None => store'.refresh # None]_vars

\* With a server that only rejects expired tokens, a request ends in
\* Tier1AuthError only if a 429 took one of its attempts: otherwise an expired
\* token is refreshed and the request retried with the new one.
ExpiredTokenIsRecovered ==
    \A p \in Proc : pc[p] = "idle" /\ outcome[p] = "Tier1AuthError" =>
        \E i \in DOMAIN seen[p] : seen[p][i] = "429"

\* What a request reloads after its second 401 is a valid access token, unless
\* the refresh token stored beside it has been spent by a process that has yet
\* to store its successor, or that lost it: a recovery fails for a race or a
\* lost grant, never because a refresh came too late or was undone.
RecoveryLosesOnlyRaces ==
    \A p \in Proc : pc[p] = "reload" =>
        Valid(store.access) \/ store.refresh \in orphaned \union UNION {Spent(q) : q \in Proc}

\* Every operation ends.
OperationsEnd == \A p \in Proc : pc[p] # "idle" ~> pc[p] = "idle"
=============================================================================
