------------------------- MODULE OtterRecoveryProofs --------------------------
(***************************************************************************)
(* Recovery from an expired token: otter_client.py's                       *)
(* _request_with_401_recovery together with oauth.py's ensure_fresh_token. *)
(*                                                                         *)
(* ExpiredTokenIsRecovered speaks of a request that has ended; that it     *)
(* holds depends on the whole chain before it.  A refresh must have a      *)
(* refresh token the server accepts (TokensLive), and the token a request  *)
(* goes back to the server with must have enough of its life left for the  *)
(* I/O steps still ahead (FreshTokens).                                    *)
(***************************************************************************)
EXTENDS OtterClientProofs

\* The merchant has granted access, and the processes make requests only.
RequestsOnly == Operations = {"resource"} /\ Seeds = {"granted"}

\* The server rejects expired tokens only, grants every refresh with a refresh
\* token it accepts, and its replies are stored.
ReliableGrants == Faults \subseteq {"403", "429", "5xx", "unreachable"}

\* An I/O step is short beside the margin, and three of them (to save, to
\* reload, to call) beside a token's life.
PromptSteps == Latency <= Margin /\ 3 * Latency < Lifetime

\* Either one process uses the credentials, or refresh tokens do not rotate
\* and credentials count as fresh only while two I/O steps do not age them.
OneAtATime == \E p \in Proc : Proc = {p}
LastingTokens == RefreshInReply = {FALSE} /\ Threshold > 2 * Latency
Undisturbed == (OneAtATime /\ Threshold > 0) \/ LastingTokens

\* The bound on the number of grants is not what refuses a refresh.
GrantsLeft == \A p \in Proc : pc[p] = "post" => Len(expiry) < MaxGrants

\* Every grant is a refresh.
OnlyRefreshes == \A p \in Proc : pc[p] \in {"post", "save"} => grant[p] = "refresh_token"

\* The stored refresh token, the one a refresh asks with and the one it is
\* about to store are alive.
TokensLive ==
    /\ None \notin live
    /\ \A p \in Proc : pc[p] = "post" => loaded[p].refresh \in live
    /\ \A p \in Proc : pc[p] = "save" => RefreshTokenToSave(p) \in live
    /\ store.refresh \in live \/ (OneAtATime /\ \E p \in Proc : pc[p] = "save")

NoRateLimit(p) == \A i \in DOMAIN seen[p] : seen[p][i] # "429"

\* The stored token outlives a reload and a call; the token of a request that
\* has come to its third attempt outlives the call.
OutlivesReload(p) ==
    pc[p] = "reload" => expiry[store.access] > since[p] + 2 * Latency

OutlivesCall(p) ==
    pc[p] = "call" /\ Len(seen[p]) >= 2 /\ NoRateLimit(p) =>
        token[p] \in DOMAIN expiry /\ expiry[token[p]] > since[p] + Latency

FreshTokens ==
    /\ store.access \in DOMAIN expiry
    /\ \A p \in Proc : OutlivesReload(p) /\ OutlivesCall(p)

\* One process alone goes to ensure_fresh_token because the stored token has
\* expired.
StoredExpired ==
    OneAtATime => \A p \in Proc :
        /\ pc[p] = "call" /\ Len(seen[p]) < 2 => token[p] = store.access
        /\ pc[p] = "ensure_fresh" => store.expires_at <= now

RecoveryInv ==
    OnlyRefreshes /\ store.found /\ TokensLive /\ FreshTokens /\ StoredExpired
    /\ ExpiredTokenIsRecovered

-----------------------------------------------------------------------------
\* With resource requests only, a step of a process is one of these.
LEMMA RequestSteps ==
    ASSUME Operations = {"resource"}, NEW p \in Proc, Start(p) \/ Step(p) \/ Crash(p)
    PROVE  \/ StartRequest(p) \/ Call(p) \/ CallRaises(p) \/ EnsureFreshToken(p)
           \/ ReloadCredentials(p) \/ Grant(p) \/ GrantRefused(p) \/ SaveTokens(p)
           \/ TokensNotSaved(p) \/ LoadRaises(p) \/ Crash(p)
BY DEF Start, Step, StartExchange, StartInitialToken

\* Every step keeps grants refreshes.
LEMMA NextOnlyRefreshes ==
    ASSUME Operations = {"resource"}, TypeOK, OnlyRefreshes, [Next]_vars
    PROVE  OnlyRefreshes'
<1>0. Shape
  BY DEF TypeOK
<1>1. CASE UNCHANGED vars \/ Tick
  BY <1>1 DEF vars, grantVars, Tick, OnlyRefreshes
<1>2. ASSUME NEW p \in Proc, Start(p) \/ Step(p) \/ Crash(p) PROVE OnlyRefreshes'
  <2>1. \A q \in Proc \ {p} : pc'[q] = pc[q]
    BY <1>0, <1>2, Moves DEF Start, Step, Moved
  <2>2. CASE EnsureFreshToken(p)
    <3>1. (grant' = grant /\ pc'[p] = "reload") \/ grant' = [grant EXCEPT ![p] = "refresh_token"]
      BY <1>0, <2>2 DEF EnsureFreshToken, Goto, Shape
    <3>2. QED
      BY <1>0, <2>1, <3>1 DEF OnlyRefreshes, Shape
  <2>3. CASE Grant(p)
    BY <1>0, <2>1, <2>3 DEF Grant, OnlyRefreshes
  <2>4. CASE StartRequest(p) \/ Call(p) \/ CallRaises(p) \/ ReloadCredentials(p) \/ Crash(p)
    <3>1. pc'[p] \notin {"post", "save"}
      BY <1>0, <2>4, Moves DEF Moved
    <3>2. grant' = grant
      BY <2>4 DEF StartRequest, Call, CallRaises, ReloadCredentials, Crash, grantVars
    <3>3. QED
      BY <2>1, <3>1, <3>2 DEF OnlyRefreshes
  <2>5. CASE GrantRefused(p) \/ SaveTokens(p) \/ TokensNotSaved(p) \/ LoadRaises(p)
    <3>1. pc'[p] \notin {"post", "save"}
      BY <1>0, <2>5, Moves DEF Moved
    <3>2. grant' = grant
      BY <2>5 DEF GrantRefused, SaveTokens, TokensNotSaved, LoadRaises, grantVars
    <3>3. QED
      BY <2>1, <3>1, <3>2 DEF OnlyRefreshes
  <2>6. QED
    BY <1>2, <2>2, <2>3, <2>4, <2>5, RequestSteps
<1>3. QED
  BY <1>1, <1>2 DEF Next

\* While only requests are made, no refresh ever leaves the merchant without a
\* refresh token, whether or not the server sends new ones, and whatever is
\* lost, refused or killed on the way, for any number of processes.
THEOREM RefreshTokenKept ==
    ASSUME Operations = {"resource"}
    PROVE  Spec => RefreshTokenIsNotForgotten
<1>1. Init => TypeOK
  BY InitTypeOK
<1>2. Init => OnlyRefreshes
  BY DEF Init, OnlyRefreshes
<1>3. TypeOK /\ [Next]_vars => TypeOK'
  BY NextTypeOK
<1>4. TypeOK /\ OnlyRefreshes /\ [Next]_vars => OnlyRefreshes'
  BY NextOnlyRefreshes
<1>5. TypeOK /\ OnlyRefreshes /\ [Next]_vars => [store.refresh # None => store'.refresh # None]_vars
  <2> SUFFICES ASSUME TypeOK, OnlyRefreshes, Next, store.refresh # None
               PROVE  store'.refresh # None
    OBVIOUS
  <2>1. CASE Tick
    BY <2>1 DEF Tick
  <2>2. ASSUME NEW p \in Proc, Start(p) \/ Step(p) \/ Crash(p) PROVE store'.refresh # None
    <3>1. CASE SaveTokens(p)
      <4>1. grant[p] = "refresh_token" /\ loaded[p].refresh # None
        BY <3>1 DEF SaveTokens, OnlyRefreshes, TypeOK, RefreshesHaveTokens, Refreshing
      <4>2. RefreshTokenToSave(p) # None
        BY <4>1 DEF RefreshTokenToSave
      <4>3. store'.refresh = RefreshTokenToSave(p)
        BY <3>1 DEF SaveTokens
      <4>4. QED
        BY <4>2, <4>3
    <3>2. CASE ~SaveTokens(p)
      <4>1. store' = store
        BY <2>2, <3>2, RequestSteps DEF StartRequest, Call, CallRaises, EnsureFreshToken,
           ReloadCredentials, Grant, GrantRefused, TokensNotSaved, LoadRaises, Crash
      <4>2. QED
        BY <4>1
    <3>3. QED
      BY <3>1, <3>2
  <2>3. QED
    BY <2>1, <2>2 DEF Next
<1>6. QED
  BY <1>1, <1>2, <1>3, <1>4, <1>5, PTL DEF Spec, RefreshTokenIsNotForgotten
-----------------------------------------------------------------------------
\* What makes recovery possible, together.
Recoverable == RequestsOnly /\ ReliableGrants /\ PromptSteps /\ Undisturbed

\* The invariants a step starts from.
Before == TypeOK /\ ExpiryInv /\ GrantsLeft /\ RecoveryInv

\* No refresh is refused or lost, no load fails and nobody is killed.
LEMMA ReliableSteps ==
    ASSUME Recoverable, Before, NEW p \in Proc, Start(p) \/ Step(p) \/ Crash(p)
    PROVE  \/ StartRequest(p) \/ Call(p) \/ CallRaises(p) \/ EnsureFreshToken(p)
           \/ ReloadCredentials(p) \/ Grant(p) \/ SaveTokens(p)
<1>1. ~GrantRefused(p)
  <2>1. pc[p] = "post" => ServerAccepts(p)
    BY DEF Before, GrantsLeft, RecoveryInv, TokensLive, ServerAccepts
  <2>2. QED
    BY <2>1 DEF GrantRefused, Recoverable, ReliableGrants
<1>2. ~TokensNotSaved(p) /\ ~LoadRaises(p) /\ ~Crash(p)
  BY DEF TokensNotSaved, LoadRaises, Crash, Recoverable, ReliableGrants
<1>3. Operations = {"resource"}
  BY DEF Recoverable, RequestsOnly
<1>4. QED
  BY <1>1, <1>2, <1>3, RequestSteps

\* A step leaves the other processes as they are.
LEMMA OthersKeep ==
    ASSUME TypeOK, NEW p \in Proc, NEW q \in Proc \ {p}, Start(p) \/ Step(p) \/ Crash(p)
    PROVE  /\ pc'[q] = pc[q] /\ since'[q] = since[q] /\ outcome'[q] = outcome[q]
           /\ seen'[q] = seen[q] /\ token'[q] = token[q]
           /\ loaded'[q] = loaded[q] /\ grant'[q] = grant[q] /\ reply'[q] = reply[q]
<1> USE DEF serverVars, requestVars, grantVars
<1>0. Shape
  BY DEF TypeOK
<1>1. pc'[q] = pc[q] /\ since'[q] = since[q]
  BY <1>0, Moves DEF Start, Step, Moved
<1>2. outcome'[q] = outcome[q]
  <2>1. ASSUME NEW label, Goto(p, label) PROVE outcome'[q] = outcome[q]
    BY <2>1 DEF Goto
  <2>2. ASSUME NEW result, Finish(p, result) PROVE outcome'[q] = outcome[q]
    BY <1>0, <2>2 DEF Finish, Shape
  <2>3. CASE Start(p)
    BY <2>1, <2>2, <2>3 DEF Start, StartRequest, StartExchange, StartInitialToken
  <2>4. CASE Call(p)
    BY <2>1, <2>2, <2>4 DEF Call, React, Unauthorized, RateLimited
  <2>5. CASE Step(p) /\ ~Call(p)
    BY <2>1, <2>2, <2>5 DEF Step, CallRaises, EnsureFreshToken, ReloadCredentials, Grant,
       GrantRefused, SaveTokens, TokensNotSaved, LoadRaises, GrantRaises
  <2>6. CASE Crash(p)
    BY <2>2, <2>6 DEF Crash
  <2>7. QED
    BY <2>3, <2>4, <2>5, <2>6
<1>3. seen'[q] = seen[q] /\ token'[q] = token[q]
  <2>1. CASE Start(p)
    BY <1>0, <2>1 DEF Start, StartRequest, StartExchange, StartInitialToken, Shape
  <2>2. CASE Call(p)
    BY <1>0, <2>2 DEF Call, Receive, Shape
  <2>3. CASE (Step(p) /\ ~Call(p)) \/ Crash(p)
    BY <1>0, <2>3 DEF Step, CallRaises, EnsureFreshToken, ReloadCredentials, Grant,
       GrantRefused, SaveTokens, TokensNotSaved, LoadRaises, Crash, Shape
  <2>4. QED
    BY <2>1, <2>2, <2>3
<1>4. loaded'[q] = loaded[q] /\ grant'[q] = grant[q] /\ reply'[q] = reply[q]
  <2>1. CASE Start(p)
    BY <1>0, <2>1 DEF Start, StartRequest, StartExchange, StartInitialToken, Shape
  <2>2. CASE Grant(p)
    BY <1>0, <2>2 DEF Grant, Shape
  <2>3. CASE (Step(p) /\ ~Grant(p)) \/ Crash(p)
    BY <1>0, <2>3 DEF Step, Call, CallRaises, EnsureFreshToken, ReloadCredentials,
       GrantRefused, SaveTokens, TokensNotSaved, LoadRaises, Crash, Shape
  <2>4. QED
    BY <2>1, <2>2, <2>3
<1>5. QED
  BY <1>1, <1>2, <1>3, <1>4

\* The refresh token to save of another process is what it was.
LEMMA OthersSave ==
    ASSUME TypeOK, NEW p \in Proc, NEW q \in Proc \ {p}, Start(p) \/ Step(p) \/ Crash(p)
    PROVE  RefreshTokenToSave(q)' = RefreshTokenToSave(q)
BY OthersKeep DEF RefreshTokenToSave

-----------------------------------------------------------------------------
\* Refreshes spend only tokens nobody else will ask with or store.
LEMMA NextTokensLive ==
    ASSUME Recoverable, Before, NEW p \in Proc, Start(p) \/ Step(p) \/ Crash(p)
    PROVE  TokensLive'
<1> USE DEF serverVars, grantVars
<1>0. /\ Shape /\ TokensLive /\ OnlyRefreshes
      /\ \A q \in Proc \ {p} : pc'[q] = pc[q] /\ loaded'[q] = loaded[q]
      /\ \A q \in Proc \ {p} : RefreshTokenToSave(q)' = RefreshTokenToSave(q)
  BY OthersKeep, OthersSave DEF Before, TypeOK, RecoveryInv
<1>1. CASE StartRequest(p) \/ Call(p) \/ CallRaises(p) \/ ReloadCredentials(p)
  <2>1. pc[p] # "save" /\ pc'[p] \notin {"post", "save"}
    BY <1>0, <1>1, Moves DEF Moved, StartRequest, Call, CallRaises, ReloadCredentials
  <2>2. UNCHANGED <<store, live>>
    BY <1>1 DEF StartRequest, Call, CallRaises, ReloadCredentials
  <2>3. QED
    BY <1>0, <2>1, <2>2 DEF TokensLive
<1>2. CASE EnsureFreshToken(p)
  <2>1. /\ pc[p] = "ensure_fresh" /\ pc'[p] \in {"reload", "post"} /\ UNCHANGED <<store, live>>
        /\ pc'[p] = "post" => loaded'[p] = store
    BY <1>0, <1>2 DEF EnsureFreshToken, Goto, Shape
  <2>2. store.refresh \in live
    BY <1>0, <2>1 DEF TokensLive, OneAtATime
  <2>3. QED
    BY <1>0, <2>1, <2>2 DEF TokensLive
<1>3. CASE Grant(p)
  <2> DEFINE n == Len(expiry) + 1
  <2>1. /\ pc[p] = "post" /\ pc'[p] = "save" /\ UNCHANGED <<store, loaded, grant>>
        /\ grant[p] = "refresh_token" /\ loaded[p].refresh \in live
    BY <1>0, <1>3 DEF Grant, Goto, Shape, OnlyRefreshes, TokensLive
  <2>2. PICK withRefresh \in RefreshInReply :
          /\ reply' = [reply EXCEPT ![p] =
                [access |-> n, refresh |-> IF withRefresh THEN n ELSE None]]
          /\ live' = IF withRefresh THEN (live \ {loaded[p].refresh}) \union {n} ELSE live
    BY <1>3, <2>1 DEF Grant
  <2>3. reply'[p].refresh = IF withRefresh THEN n ELSE None
    BY <1>0, <2>2 DEF Shape
  <2>4. n \in Nat /\ n # None
    BY <1>0 DEF Shape, None
  <2>5. CASE withRefresh
    <3>1. Proc = {p}
      BY <2>2, <2>5 DEF Recoverable, Undisturbed, LastingTokens, OneAtATime
    <3>2. RefreshTokenToSave(p)' = n /\ n \in live' /\ None \notin live'
      BY <1>0, <2>2, <2>3, <2>4, <2>5 DEF RefreshTokenToSave, TokensLive
    <3>3. OneAtATime
      BY <3>1 DEF OneAtATime
    <3>4. QED
      BY <2>1, <3>1, <3>2, <3>3 DEF TokensLive, OneAtATime
  <2>6. CASE ~withRefresh
    <3>1. live' = live /\ RefreshTokenToSave(p)' = loaded[p].refresh
      BY <2>1, <2>2, <2>3, <2>6 DEF RefreshTokenToSave
    <3>2. QED
      BY <1>0, <2>1, <3>1 DEF TokensLive, OneAtATime
  <2>7. QED
    BY <2>5, <2>6
<1>4. CASE SaveTokens(p)
  <2>1. /\ pc[p] = "save" /\ pc'[p] \notin {"post", "save"}
        /\ store'.refresh = RefreshTokenToSave(p) /\ live' = live
    BY <1>0, <1>4, Moves DEF SaveTokens, Moved
  <2>2. QED
    BY <1>0, <2>1 DEF TokensLive
<1>5. QED
  BY <1>1, <1>2, <1>3, <1>4, ReliableSteps

\* A refresh begins only when no fresh token is stored: what ensure_fresh_token
\* takes for fresh outlives the reload and the call to come.
LEMMA FarOutlives ==
    ASSUME Recoverable, Before, NEW p \in Proc, pc[p] = "ensure_fresh", FarFromExpiry(store)
    PROVE  expiry[store.access] > now + 2 * Latency
<1>1. /\ now \in Nat /\ store.expires_at \in Nat /\ store.access \in DOMAIN expiry
      /\ expiry \in Seq(Nat) /\ store.access # None
      /\ store.expires_at <= expiry[store.access]
      /\ expiry[store.access] \in Nat /\ Latency \in Nat /\ Threshold \in Nat
  <2>1. store.access \in DOMAIN expiry /\ expiry \in Seq(Nat)
    BY DEF Before, TypeOK, Shape, RecoveryInv, FreshTokens
  <2>2. store.access \in 1..Len(expiry)
    BY <2>1
  <2>3. store.access # None
    BY <2>2 DEF None
  <2>4. QED
    BY <2>1, <2>3, ClientAssumption
       DEF Before, TypeOK, Shape, Credentials, ExpiryInv, ExpiryIsConservative
<1>2. store.expires_at >= now + Threshold
  BY DEF FarFromExpiry
<1>3. CASE LastingTokens
  BY <1>1, <1>2, <1>3 DEF LastingTokens
<1>4. CASE OneAtATime /\ Threshold > 0
  <2>1. store.expires_at <= now
    BY <1>4 DEF Before, RecoveryInv, StoredExpired
  <2>2. QED
    BY <1>1, <1>2, <1>4, <2>1
<1>5. QED
  BY <1>3, <1>4 DEF Recoverable, Undisturbed

\* Time may pass while a token that is fresh enough waits for its next step.
LEMMA TickRecovery ==
    ASSUME Recoverable, Before, Tick
    PROVE  RecoveryInv'
<1> USE DEF serverVars, requestVars, grantVars
<1>1. /\ UNCHANGED <<store, expiry, live, pc, since, seen, token, loaded, grant, reply, outcome>>
      /\ now' = now + 1 /\ now \in Nat /\ store.expires_at \in Nat
  BY DEF Tick, Before, TypeOK, Shape, Credentials
<1>2. OnlyRefreshes' /\ store'.found /\ TokensLive'
  BY <1>1 DEF Before, RecoveryInv, OnlyRefreshes, TokensLive, RefreshTokenToSave
<1>3. FreshTokens'
  BY <1>1 DEF Before, RecoveryInv, FreshTokens, OutlivesReload, OutlivesCall, NoRateLimit
<1>4. StoredExpired'
  BY <1>1 DEF Before, RecoveryInv, StoredExpired
<1>5. ExpiredTokenIsRecovered'
  BY <1>1 DEF Before, RecoveryInv, ExpiredTokenIsRecovered
<1>6. QED
  BY <1>2, <1>3, <1>4, <1>5 DEF RecoveryInv

\* A reply leaves the process with another call to make only before its third
\* attempt, or after a 429.
LEMMA RetriedCall ==
    ASSUME Shape, NEW p \in Proc, Call(p), pc'[p] = "call", NoRateLimit(p)'
    PROVE  Len(seen'[p]) < 2
<1>1. PICK status \in Statuses(p) : Receive(p, status) /\ React(p, status)
  BY DEF Call
<1>2. status \in {"2xx", "401", "403", "429", "5xx"}
  BY <1>1 DEF Statuses
<1>3. seen[p] \in Seq({"2xx", "401", "403", "429", "5xx"}) /\ seen'[p] = Append(seen[p], status)
  BY <1>1 DEF Shape, Receive
<1>4. /\ Len(seen[p]) \in Nat /\ Len(seen'[p]) = Len(seen[p]) + 1
      /\ Len(seen'[p]) \in DOMAIN seen'[p] /\ seen'[p][Len(seen'[p])] = status
  BY <1>2, <1>3
<1>5. status # "429"
  BY <1>4 DEF NoRateLimit
<1>6. Len(seen[p]) + 1 = 1
  BY <1>1, <1>4, <1>5 DEF React, Unauthorized, Goto, Finish, Attempt, Shape
<1>7. QED
  BY <1>4, <1>6

\* A request without a 429 that failed for the third time met a token the
\* server had no reason to reject.
LEMMA ThirdCallSucceeds ==
    ASSUME Recoverable, Before, NEW p \in Proc, Call(p), pc'[p] = "idle",
           outcome'[p] = "Tier1AuthError"
    PROVE  ~NoRateLimit(p)'
<1>0. Shape
  BY DEF Before, TypeOK
<1>1. PICK status \in Statuses(p) : Receive(p, status) /\ React(p, status)
  BY DEF Call
<1>2. status \in {"2xx", "401", "403", "429", "5xx"}
  BY <1>1 DEF Statuses
<1>3. seen[p] \in Seq({"2xx", "401", "403", "429", "5xx"}) /\ seen'[p] = Append(seen[p], status)
  BY <1>0, <1>1 DEF Shape, Receive
<1>4. /\ Len(seen[p]) \in Nat /\ Len(seen'[p]) = Len(seen[p]) + 1
      /\ \A i \in DOMAIN seen[p] : i \in DOMAIN seen'[p] /\ seen'[p][i] = seen[p][i]
  BY <1>2, <1>3
<1>5. status = "401" /\ Len(seen[p]) + 1 # 1 /\ Len(seen[p]) + 1 # 2
  <2>1. CASE status = "401"
    BY <1>0, <1>1, <2>1 DEF React, Unauthorized, Goto, Finish, Attempt, Shape
  <2>2. CASE status # "401"
    <3>1. \/ Goto(p, "call") \/ Finish(p, "Tier2LatencyError") \/ Finish(p, "returned")
      BY <1>1, <2>2 DEF React, RateLimited
    <3>2. QED
      BY <1>0, <3>1 DEF Goto, Finish, Shape
  <2>3. QED
    BY <2>1, <2>2
<1>6. Len(seen[p]) >= 2
  BY <1>4, <1>5
<1>7. ~Valid(token[p])
  BY <1>1, <1>5 DEF Statuses, Recoverable, ReliableGrants
<1>8. ~NoRateLimit(p)
  <2> SUFFICES ASSUME NoRateLimit(p) PROVE FALSE
    OBVIOUS
  <2>1. token[p] \in DOMAIN expiry /\ expiry[token[p]] > since[p] + Latency
    BY <1>6 DEF Call, Before, RecoveryInv, FreshTokens, OutlivesCall
  <2>2. now <= since[p] + Latency
    BY DEF Call, Before, ExpiryInv, GrantTimes
  <2>3. /\ expiry[token[p]] \in Nat /\ now \in Nat /\ since[p] + Latency \in Nat
    BY <1>0, <2>1, ClientAssumption DEF Shape
  <2>4. now < expiry[token[p]]
    BY <2>1, <2>2, <2>3
  <2>5. QED
    BY <1>7, <2>1, <2>4 DEF Valid
<1>9. QED
  BY <1>4, <1>8 DEF NoRateLimit

\* Only a resource call ends a request with Tier1AuthError.
LEMMA NextRecovered ==
    ASSUME Recoverable, Before, NEW p \in Proc, Start(p) \/ Step(p) \/ Crash(p)
    PROVE  ExpiredTokenIsRecovered'
<1> USE DEF serverVars, requestVars, grantVars
<1>0. Shape /\ ExpiredTokenIsRecovered
  BY DEF Before, TypeOK, RecoveryInv
<1>1. ASSUME NEW q \in Proc, pc'[q] = "idle", outcome'[q] = "Tier1AuthError"
      PROVE  \E i \in DOMAIN seen'[q] : seen'[q][i] = "429"
  <2>1. CASE q # p
    BY <1>0, <1>1, <2>1, OthersKeep DEF ExpiredTokenIsRecovered, Before
  <2>2. CASE q = p
    <3>1. CASE Call(p)
      BY <1>1, <2>2, <3>1, ThirdCallSucceeds DEF NoRateLimit
    <3>2. CASE StartRequest(p)
      BY <1>0, <1>1, <2>2, <3>2 DEF StartRequest, Goto, Finish, Shape
    <3>3. CASE CallRaises(p)
      BY <1>0, <1>1, <2>2, <3>3 DEF CallRaises, Finish, Shape
    <3>4. CASE EnsureFreshToken(p) \/ ReloadCredentials(p) \/ Grant(p)
      BY <1>0, <1>1, <2>2, <3>4 DEF EnsureFreshToken, ReloadCredentials, Grant, Goto, Shape
    <3>5. CASE SaveTokens(p)
      BY <1>0, <1>1, <2>2, <3>5 DEF SaveTokens, Goto, Finish, Shape
    <3>6. QED
      BY <3>1, <3>2, <3>3, <3>4, <3>5, ReliableSteps
  <2>3. QED
    BY <2>1, <2>2
<1>2. QED
  BY <1>1 DEF ExpiredTokenIsRecovered

\* One process alone refreshes because the stored token has expired.
LEMMA NextStoredExpired ==
    ASSUME Recoverable, Before, NEW p \in Proc, Start(p) \/ Step(p) \/ Crash(p)
    PROVE  StoredExpired'
<1> USE DEF serverVars, requestVars, grantVars
<1> SUFFICES ASSUME OneAtATime
             PROVE  /\ pc'[p] = "call" /\ Len(seen'[p]) < 2 => token'[p] = store'.access
                    /\ pc'[p] = "ensure_fresh" => store'.expires_at <= now'
  BY DEF StoredExpired, OneAtATime
<1>0. Shape /\ StoredExpired
  BY DEF Before, TypeOK, RecoveryInv
<1>1. CASE StartRequest(p)
  BY <1>0, <1>1 DEF StartRequest, Goto, Finish, Shape
<1>2. CASE ReloadCredentials(p)
  BY <1>0, <1>2 DEF ReloadCredentials, Goto, Shape
<1>3. CASE Call(p)
  <2>1. PICK status \in Statuses(p) : Receive(p, status) /\ React(p, status)
    BY <1>3 DEF Call
  <2>2. /\ status \in {"2xx", "401", "403", "429", "5xx"}
        /\ seen[p] \in Seq({"2xx", "401", "403", "429", "5xx"})
        /\ seen'[p] = Append(seen[p], status)
    BY <1>0, <2>1 DEF Statuses, Shape, Receive
  <2>3. Len(seen[p]) \in Nat /\ Len(seen'[p]) = Len(seen[p]) + 1
    BY <2>2
  <2>4. pc[p] = "call" /\ UNCHANGED <<now, store, token>>
    BY <1>3 DEF Call
  <2>5. ASSUME pc'[p] = "ensure_fresh" PROVE store.expires_at <= now
    <3>1. status = "401" /\ Len(seen[p]) + 1 = 2
      BY <1>0, <2>1, <2>5 DEF React, Unauthorized, RateLimited, Goto, Finish, Attempt, Shape
    <3>2. ~Valid(store.access)
      <4>1. token[p] = store.access
        BY <1>0, <2>3, <2>4, <3>1 DEF StoredExpired
      <4>2. QED
        BY <2>1, <3>1, <4>1 DEF Statuses, Recoverable, ReliableGrants
    <3>3. store.access \in DOMAIN expiry /\ expiry \in Seq(Nat)
      BY <1>0 DEF Before, RecoveryInv, FreshTokens, Shape
    <3>4. store.access # None
      BY <3>3 DEF None
    <3>5. store.expires_at <= expiry[store.access]
      BY <3>4 DEF Before, ExpiryInv, ExpiryIsConservative
    <3>6. now >= expiry[store.access] /\ expiry[store.access] \in Nat
      BY <1>0, <3>2, <3>3 DEF Valid, Shape
    <3>7. store.expires_at \in Nat /\ now \in Nat
      BY <1>0 DEF Shape, Credentials
    <3>8. QED
      BY <3>5, <3>6, <3>7
  <2>6. pc'[p] = "call" /\ Len(seen'[p]) < 2 => token'[p] = store'.access
    BY <1>0, <2>3, <2>4 DEF StoredExpired
  <2>7. QED
    BY <2>4, <2>5, <2>6
<1>4. CASE CallRaises(p) \/ EnsureFreshToken(p) \/ Grant(p) \/ SaveTokens(p)
  <2>1. pc'[p] \notin {"call", "ensure_fresh"}
    BY <1>0, <1>4, Moves DEF Moved
  <2>2. QED
    BY <2>1
<1>5. QED
  BY <1>1, <1>2, <1>3, <1>4, ReliableSteps

\* A step that leaves the stored token and its expiry alone ages nobody else's.
LEMMA OthersStayFresh ==
    ASSUME Recoverable, Before, NEW p \in Proc, Start(p) \/ Step(p) \/ Crash(p),
           UNCHANGED <<store, expiry>>, OutlivesReload(p)', OutlivesCall(p)'
    PROVE  FreshTokens'
<1>1. FreshTokens /\ TypeOK
  BY DEF Before, RecoveryInv
<1>2. ASSUME NEW q \in Proc \ {p} PROVE OutlivesReload(q)' /\ OutlivesCall(q)'
  <2>1. /\ pc'[q] = pc[q] /\ since'[q] = since[q] /\ seen'[q] = seen[q] /\ token'[q] = token[q]
    BY <1>1, OthersKeep
  <2>2. OutlivesReload(q) /\ OutlivesCall(q)
    BY <1>1 DEF FreshTokens
  <2>3. OutlivesReload(q)'
    BY <2>1, <2>2 DEF OutlivesReload
  <2>4. OutlivesCall(q)'
    BY <2>1, <2>2 DEF OutlivesCall, NoRateLimit
  <2>5. QED
    BY <2>3, <2>4
<1>3. QED
  BY <1>1, <1>2 DEF FreshTokens

\* What every step brings back to the server has enough of its life left.
LEMMA NextFreshTokens ==
    ASSUME Recoverable, Before, NEW p \in Proc, Start(p) \/ Step(p) \/ Crash(p)
    PROVE  FreshTokens'
<1> USE DEF serverVars, requestVars, grantVars
<1>0. /\ Shape /\ TypeOK /\ FreshTokens /\ now \in Nat /\ Latency \in Nat /\ Lifetime \in Nat
      /\ expiry \in Seq(Nat) /\ \A q \in Proc : since[q] \in Nat
      /\ \A t \in DOMAIN expiry : expiry[t] \in Nat
  BY ClientAssumption DEF Before, TypeOK, Shape, RecoveryInv
<1>1. \A q \in Proc : pc[q] # "idle" => since[q] <= now /\ now <= since[q] + Latency
  BY DEF Before, ExpiryInv, GrantTimes
<1>2. CASE StartRequest(p) \/ CallRaises(p)
  <2>1. /\ UNCHANGED <<store, expiry>>
        /\ pc'[p] = "idle" \/ (pc'[p] = "call" /\ seen'[p] = <<>>)
    BY <1>0, <1>2 DEF StartRequest, CallRaises, Goto, Finish, Shape
  <2>2. OutlivesReload(p)' /\ OutlivesCall(p)'
    <3>1. Len(<<>>) = 0
      OBVIOUS
    <3>2. QED
      BY <2>1, <3>1 DEF OutlivesReload, OutlivesCall
  <2>3. QED
    BY <2>1, <2>2, OthersStayFresh
<1>3. CASE Call(p)
  <2>1. UNCHANGED <<store, expiry>> /\ pc'[p] \in {"call", "ensure_fresh", "idle"}
    BY <1>0, <1>3, Moves DEF Call, Moved
  <2>2. pc'[p] = "call" /\ NoRateLimit(p)' => Len(seen'[p]) < 2
    BY <1>0, <1>3, RetriedCall
  <2>3. Len(seen'[p]) \in Nat
    <3>1. PICK status \in Statuses(p) : Receive(p, status)
      BY <1>3 DEF Call
    <3>2. seen'[p] = Append(seen[p], status) /\ seen[p] \in Seq({"2xx", "401", "403", "429", "5xx"})
          /\ status \in {"2xx", "401", "403", "429", "5xx"}
      BY <1>0, <3>1 DEF Receive, Shape, Statuses
    <3>3. QED
      BY <3>2
  <2>4. OutlivesReload(p)' /\ OutlivesCall(p)'
    BY <2>1, <2>2, <2>3 DEF OutlivesReload, OutlivesCall
  <2>5. QED
    BY <2>1, <2>4, OthersStayFresh
<1>4. CASE EnsureFreshToken(p)
  <2>1. /\ UNCHANGED <<now, store, expiry>> /\ pc[p] = "ensure_fresh" /\ pc'[p] \in {"reload", "post"}
        /\ since'[p] = now
        /\ pc'[p] = "reload" => ~Usable(store) \/ FarFromExpiry(store)
    BY <1>0, <1>4 DEF EnsureFreshToken, Goto, Shape
  <2>2. Usable(store)
    <3>1. store.access # None
      BY <1>0 DEF FreshTokens, None
    <3>2. store.refresh \in live /\ None \notin live
      BY <1>0, <2>1 DEF Before, RecoveryInv, TokensLive, OneAtATime
    <3>3. QED
      BY <3>1, <3>2 DEF Usable
  <2>3. pc'[p] = "reload" => expiry[store.access] > now + 2 * Latency
    BY <2>1, <2>2, FarOutlives
  <2>4. OutlivesReload(p)' /\ OutlivesCall(p)'
    BY <2>1, <2>3 DEF OutlivesReload, OutlivesCall
  <2>5. QED
    BY <2>1, <2>4, OthersStayFresh
<1>5. CASE ReloadCredentials(p)
  <2>1. /\ UNCHANGED <<now, store, expiry>> /\ pc[p] = "reload" /\ pc'[p] = "call"
        /\ since'[p] = now /\ token'[p] = store.access
    BY <1>0, <1>5 DEF ReloadCredentials, Goto, Shape
  <2>2. /\ store.access \in DOMAIN expiry /\ expiry[store.access] \in Nat
        /\ expiry[store.access] > since[p] + 2 * Latency
    BY <1>0, <2>1 DEF FreshTokens, OutlivesReload
  <2>3. now <= since[p] + Latency /\ since[p] \in Nat
    BY <1>0, <1>1, <2>1
  <2>4. expiry[store.access] > now + Latency
    BY <1>0, <2>2, <2>3
  <2>5. OutlivesReload(p)' /\ OutlivesCall(p)'
    BY <2>1, <2>2, <2>4 DEF OutlivesReload, OutlivesCall
  <2>6. QED
    BY <2>1, <2>5, OthersStayFresh
<1>6. CASE Grant(p)
  <2>1. /\ store' = store /\ pc'[p] = "save" /\ expiry' = Append(expiry, now + Lifetime)
    BY <1>0, <1>6 DEF Grant, Goto, Shape
  <2>2. \A t \in DOMAIN expiry : t \in DOMAIN expiry' /\ expiry'[t] = expiry[t]
    BY <1>0, <2>1
  <2>3. ASSUME NEW q \in Proc \ {p} PROVE OutlivesReload(q)' /\ OutlivesCall(q)'
    <3>1. /\ pc'[q] = pc[q] /\ since'[q] = since[q] /\ seen'[q] = seen[q] /\ token'[q] = token[q]
      BY <1>0, OthersKeep
    <3>2. OutlivesReload(q) /\ OutlivesCall(q) /\ store.access \in DOMAIN expiry
      BY <1>0 DEF FreshTokens
    <3>3. OutlivesReload(q)'
      BY <2>1, <2>2, <3>1, <3>2 DEF OutlivesReload
    <3>4. OutlivesCall(q)'
      BY <2>2, <3>1, <3>2 DEF OutlivesCall, NoRateLimit
    <3>5. QED
      BY <3>3, <3>4
  <2>4. OutlivesReload(p)' /\ OutlivesCall(p)'
    BY <2>1 DEF OutlivesReload, OutlivesCall
  <2>5. store'.access \in DOMAIN expiry'
    BY <1>0, <2>1, <2>2 DEF FreshTokens
  <2>6. QED
    BY <2>3, <2>4, <2>5 DEF FreshTokens
<1>7. CASE SaveTokens(p)
  <2>1. /\ UNCHANGED <<now, expiry>> /\ pc[p] = "save" /\ pc'[p] \in {"reload", "idle"}
        /\ store'.access = reply[p].access
        /\ pc'[p] = "reload" => since'[p] = now
    BY <1>0, <1>7 DEF SaveTokens, Goto, Finish, Shape
  <2>2. /\ reply[p].access \in DOMAIN expiry /\ expiry[reply[p].access] = since[p] + Lifetime
        /\ now <= since[p] + Latency
    BY <1>1, <2>1 DEF Before, ExpiryInv, GrantTimes
  <2>3. 3 * Latency < Lifetime
    BY DEF Recoverable, PromptSteps
  <2>4. expiry'[store'.access] > now + 2 * Latency /\ expiry'[store'.access] \in Nat
    BY <1>0, <2>1, <2>2, <2>3
  <2>5. ASSUME NEW q \in Proc \ {p} PROVE OutlivesReload(q)' /\ OutlivesCall(q)'
    <3>1. /\ pc'[q] = pc[q] /\ since'[q] = since[q] /\ seen'[q] = seen[q] /\ token'[q] = token[q]
      BY <1>0, OthersKeep
    <3>2. OutlivesCall(q)
      BY <1>0 DEF FreshTokens
    <3>3. OutlivesCall(q)'
      BY <2>1, <3>1, <3>2 DEF OutlivesCall, NoRateLimit
    <3>4. OutlivesReload(q)'
      <4>1. pc'[q] = "reload" => since'[q] <= now /\ since'[q] \in Nat
        BY <1>0, <1>1, <3>1
      <4>2. QED
        BY <1>0, <2>4, <4>1 DEF OutlivesReload
    <3>5. QED
      BY <3>3, <3>4
  <2>6. OutlivesReload(p)' /\ OutlivesCall(p)'
    BY <2>1, <2>4 DEF OutlivesReload, OutlivesCall
  <2>7. QED
    BY <2>1, <2>2, <2>5, <2>6 DEF FreshTokens
<1>8. QED
  BY <1>2, <1>3, <1>4, <1>5, <1>6, <1>7, ReliableSteps

\* Every step keeps the invariant of recovery.
LEMMA NextRecoveryInv ==
    ASSUME Recoverable, Before, [Next]_vars
    PROVE  RecoveryInv'
<1> USE DEF serverVars, requestVars, grantVars
<1>1. CASE UNCHANGED vars
  <2>1. OnlyRefreshes' /\ store'.found /\ TokensLive'
    BY <1>1 DEF vars, Before, RecoveryInv, OnlyRefreshes, TokensLive, RefreshTokenToSave
  <2>2. FreshTokens' /\ StoredExpired' /\ ExpiredTokenIsRecovered'
    BY <1>1 DEF vars, Before, RecoveryInv, FreshTokens, OutlivesReload, OutlivesCall, NoRateLimit,
       StoredExpired, ExpiredTokenIsRecovered
  <2>3. QED
    BY <2>1, <2>2 DEF RecoveryInv
<1>2. CASE Tick
  BY <1>2, TickRecovery
<1>3. ASSUME NEW p \in Proc, Start(p) \/ Step(p) \/ Crash(p) PROVE RecoveryInv'
  <2>1. OnlyRefreshes'
    <3>1. Next
      BY <1>3 DEF Next
    <3>2. QED
      BY <3>1, NextOnlyRefreshes DEF Recoverable, RequestsOnly, Before, RecoveryInv
  <2>2. store'.found
    <3>1. CASE SaveTokens(p)
      BY <3>1 DEF SaveTokens
    <3>2. CASE ~SaveTokens(p)
      <4>1. store' = store
        BY <1>3, <3>2, ReliableSteps DEF StartRequest, Call, CallRaises, EnsureFreshToken,
           ReloadCredentials, Grant
      <4>2. QED
        BY <4>1 DEF Before, RecoveryInv
    <3>3. QED
      BY <3>1, <3>2
  <2>3. TokensLive' /\ FreshTokens' /\ StoredExpired' /\ ExpiredTokenIsRecovered'
    BY <1>3, NextTokensLive, NextFreshTokens, NextStoredExpired, NextRecovered
  <2>4. QED
    BY <2>1, <2>2, <2>3 DEF RecoveryInv
<1>4. QED
  BY <1>1, <1>2, <1>3 DEF Next

\* A granted merchant's tokens are alive and fresh.
LEMMA InitRecoveryInv ==
    ASSUME RequestsOnly, Init
    PROVE  ExpiryInv /\ RecoveryInv
<1> USE ClientAssumption
<1>1. store = Granted
  <2>1. "granted" \in AllSeeds /\ Seed["granted"] = Granted
    BY DEF Seed, AllSeeds
  <2>2. QED
    BY <2>1 DEF Init, RequestsOnly
<1>2. expiry = <<Lifetime>> /\ DOMAIN expiry = {1} /\ live = {1}
  BY DEF Init
<1>3. ExpiryInv
  BY <1>1, <1>2 DEF Init, ExpiryInv, StoredTokenExists, GrantTimes, ExpiryIsConservative, Granted, None
<1>4. RecoveryInv
  BY <1>1, <1>2 DEF Init, RecoveryInv, OnlyRefreshes, TokensLive, FreshTokens, OutlivesReload,
     OutlivesCall, StoredExpired, ExpiredTokenIsRecovered, Granted, None
<1>5. QED
  BY <1>3, <1>4

\* A server that rejects expired tokens only, and a token endpoint that answers:
\* then a request fails with Tier1AuthError only if a 429 took one of its
\* attempts.  It holds for one process whatever the token endpoint's replies
\* carry, and for any number of processes where refresh tokens do not rotate,
\* as long as the model's bound on grants is not met.
THEOREM RecoveredWhileGrantsLast ==
    ASSUME Recoverable
    PROVE  Spec /\ []GrantsLeft => []ExpiredTokenIsRecovered
<1>1. Init => TypeOK
  BY InitTypeOK
<1>2. Init => ExpiryInv /\ RecoveryInv
  BY InitRecoveryInv DEF Recoverable
<1>3. TypeOK /\ [Next]_vars => TypeOK'
  BY NextTypeOK
<1>4. TypeOK /\ ExpiryInv /\ [Next]_vars => ExpiryInv'
  BY NextExpiryInv DEF Recoverable, PromptSteps, PromptReplies
<1>5. TypeOK /\ ExpiryInv /\ GrantsLeft /\ RecoveryInv /\ [Next]_vars => RecoveryInv'
  BY NextRecoveryInv DEF Before
<1>6. RecoveryInv => ExpiredTokenIsRecovered
  BY DEF RecoveryInv
<1>7. QED
  BY <1>1, <1>2, <1>3, <1>4, <1>5, <1>6, PTL DEF Spec

-----------------------------------------------------------------------------
\* A token outlives the margin and the threshold, so that a refresh is not
\* followed by another at once; the bound on grants is no smaller than the
\* bound on time.
LongLived == Lifetime > Margin + Threshold /\ MaxTime <= MaxGrants

\* One process: it refreshes the stored credentials, and no more tokens were
\* granted than instants have passed since the first.
GrantsPaced ==
    /\ now <= MaxTime
    /\ \A p \in Proc : pc[p] = "post" => loaded[p] = store /\ ~FarFromExpiry(store)
    /\ \A p \in Proc : pc[p] = "save" => Len(expiry) <= now + 1
    /\ (\A p \in Proc : pc[p] # "save") => Len(expiry) + Lifetime <= store.expires_at + Margin + 1

\* One process does not refresh more often than the clock ticks.
LEMMA NextGrantsPaced ==
    ASSUME OneAtATime, LongLived, RequestsOnly, ReliableGrants, TypeOK, GrantsPaced, [Next]_vars
    PROVE  GrantsPaced'
<1> USE DEF serverVars, requestVars, grantVars
<1>0. /\ Shape /\ now \in Nat /\ Len(expiry) \in Nat /\ Lifetime \in Nat /\ Margin \in Nat
      /\ Threshold \in Nat /\ MaxTime \in Nat /\ store.expires_at \in Nat /\ Margin <= Lifetime
  BY ClientAssumption DEF TypeOK, Shape, Credentials
<1>1. CASE UNCHANGED vars
  BY <1>1 DEF vars, GrantsPaced, FarFromExpiry
<1>2. CASE Tick
  BY <1>0, <1>2 DEF Tick, GrantsPaced, FarFromExpiry
<1>3. ASSUME NEW p \in Proc, Start(p) \/ Step(p) \/ Crash(p) PROVE GrantsPaced'
  <2>0. Proc = {p}
    BY DEF OneAtATime
  <2>1. now' = now /\ now <= MaxTime
    BY <1>3, RequestSteps DEF RequestsOnly, GrantsPaced, StartRequest, Call, CallRaises, EnsureFreshToken,
       ReloadCredentials, Grant, GrantRefused, SaveTokens, TokensNotSaved, LoadRaises, Crash
  <2>2. CASE Grant(p)
    <3>1. /\ pc[p] = "post" /\ pc'[p] = "save" /\ store' = store
          /\ Len(expiry') = Len(expiry) + 1
      BY <1>0, <2>2 DEF Grant, Goto, Shape
    <3>2. /\ Len(expiry) + Lifetime <= store.expires_at + Margin + 1
          /\ store.expires_at < now + Threshold
      BY <1>0, <2>0, <3>1 DEF GrantsPaced, FarFromExpiry
    <3>3. Len(expiry') <= now' + 1
      BY <1>0, <2>1, <3>1, <3>2 DEF LongLived
    <3>4. QED
      BY <2>0, <2>1, <3>1, <3>3 DEF GrantsPaced
  <2>3. CASE SaveTokens(p)
    <3>1. /\ pc[p] = "save" /\ pc'[p] \notin {"post", "save"} /\ expiry' = expiry
          /\ store'.expires_at = now + Lifetime - Margin
      BY <1>0, <2>3, Moves DEF SaveTokens, Moved, ExpiresAt
    <3>2. Len(expiry) <= now + 1
      BY <3>1 DEF GrantsPaced
    <3>3. Len(expiry') + Lifetime <= store'.expires_at + Margin + 1
      BY <1>0, <3>1, <3>2
    <3>4. QED
      BY <2>0, <2>1, <3>1, <3>3 DEF GrantsPaced
  <2>4. CASE EnsureFreshToken(p)
    <3>1. /\ pc[p] = "ensure_fresh" /\ pc'[p] \in {"reload", "post"}
          /\ UNCHANGED <<store, expiry>>
          /\ pc'[p] = "post" => loaded'[p] = store /\ ~FarFromExpiry(store)
      BY <1>0, <2>4 DEF EnsureFreshToken, Goto, Shape
    <3>2. QED
      BY <2>0, <2>1, <3>1 DEF GrantsPaced, FarFromExpiry
  <2>5. CASE \/ StartRequest(p) \/ Call(p) \/ CallRaises(p) \/ ReloadCredentials(p)
             \/ GrantRefused(p) \/ LoadRaises(p)
    <3>1. pc[p] # "save" /\ pc'[p] \notin {"post", "save"}
      BY <1>0, <2>5, Moves DEF Moved, StartRequest, Call, CallRaises, ReloadCredentials,
         GrantRefused, LoadRaises
    <3>2. UNCHANGED <<store, expiry>>
      BY <2>5 DEF StartRequest, Call, CallRaises, ReloadCredentials, GrantRefused, LoadRaises
    <3>3. QED
      BY <2>0, <2>1, <3>1, <3>2 DEF GrantsPaced
  <2>6. ~TokensNotSaved(p) /\ ~Crash(p)
    BY DEF TokensNotSaved, Crash, ReliableGrants
  <2>7. QED
    BY <1>3, <2>2, <2>3, <2>4, <2>5, <2>6, RequestSteps DEF RequestsOnly
<1>4. QED
  BY <1>1, <1>2, <1>3 DEF Next

\* One process never meets the bound on grants.
THEOREM GrantsAreLeft ==
    ASSUME OneAtATime, LongLived, RequestsOnly, ReliableGrants
    PROVE  Spec => []GrantsLeft
<1> USE ClientAssumption
<1>1. Init => TypeOK
  BY InitTypeOK
<1>2. Init => GrantsPaced
  <2> SUFFICES ASSUME Init PROVE GrantsPaced
    OBVIOUS
  <2>1. store = Granted
    <3>1. "granted" \in AllSeeds /\ Seed["granted"] = Granted
      BY DEF Seed, AllSeeds
    <3>2. QED
      BY <3>1 DEF Init, RequestsOnly
  <2>2. Len(expiry) = 1 /\ now = 0
    BY DEF Init
  <2>3. store.expires_at = Lifetime - Margin
    BY <2>1 DEF Granted
  <2>4. Len(expiry) + Lifetime <= store.expires_at + Margin + 1
    BY <2>2, <2>3
  <2>5. QED
    BY <2>2, <2>4 DEF Init, GrantsPaced
<1>3. TypeOK /\ [Next]_vars => TypeOK'
  BY NextTypeOK
<1>4. TypeOK /\ GrantsPaced /\ [Next]_vars => GrantsPaced'
  BY NextGrantsPaced
<1>5. TypeOK /\ GrantsPaced => GrantsLeft
  <2> SUFFICES ASSUME TypeOK, GrantsPaced, NEW p \in Proc, pc[p] = "post"
               PROVE  Len(expiry) < MaxGrants
    BY DEF GrantsLeft
  <2>1. Proc = {p}
    BY DEF OneAtATime
  <2>2. Len(expiry) + Lifetime <= store.expires_at + Margin + 1 /\ ~(store.expires_at >= now + Threshold)
    BY <2>1 DEF GrantsPaced, FarFromExpiry
  <2>3. now <= MaxTime
    BY DEF GrantsPaced
  <2>4. now \in Nat /\ Len(expiry) \in Nat /\ store.expires_at \in Nat
    BY DEF TypeOK, Shape, Credentials
  <2>5. Lifetime > Margin + Threshold /\ MaxTime <= MaxGrants
    BY DEF LongLived
  <2>6. QED
    BY <2>2, <2>3, <2>4, <2>5
<1>6. QED
  BY <1>1, <1>2, <1>3, <1>4, <1>5, PTL DEF Spec

\* One process, a server that rejects expired tokens only and a token endpoint
\* that answers: an expired token is refreshed and the request retried with
\* the new one, so that a request ends in Tier1AuthError only if a 429 took one
\* of its attempts.
THEOREM ExpiredTokensRecovered ==
    ASSUME OneAtATime, Threshold > 0, LongLived, RequestsOnly, ReliableGrants, PromptSteps
    PROVE  Spec => []ExpiredTokenIsRecovered
<1>1. Spec => []GrantsLeft
  BY GrantsAreLeft
<1>2. Spec /\ []GrantsLeft => []ExpiredTokenIsRecovered
  BY RecoveredWhileGrantsLast DEF Recoverable, Undisturbed
<1>3. QED
  BY <1>1, <1>2

-----------------------------------------------------------------------------
(***************************************************************************)
(* Recoveries of any number of processes at once, with a server that       *)
(* rotates refresh tokens.  A refresh that comes second is refused, and    *)
(* the process reloads what is stored then.  What it finds depends on what *)
(* the others did while it waited: the token it had loaded is still stored *)
(* and spent, or other credentials were stored since, which are young      *)
(* (StoredSince).                                                          *)
(***************************************************************************)
\* Refreshes are not refused at random, loads do not fail, and what counts as
\* far from expiry outlives the step to come.
RaceAssumption ==
    /\ RotatingRefreshes /\ Seeds = {"granted"} /\ PromptSteps /\ Threshold > Latency
    /\ Faults \subseteq {"401", "403", "429", "5xx", "unreachable", "reply_lost", "crash"}

\* Refresh tokens that were spent and whose successor is not stored.
Gone == orphaned \union UNION {Spent(p) : p \in Proc}

StoredSince ==
    \A p \in Proc : pc[p] = "post" =>
        store = loaded[p] \/ expiry[store.access] > since[p] + 2 * Latency

StoredOrGone ==
    \A p \in Proc : pc[p] = "reload" =>
        expiry[store.access] > since[p] + Latency \/ store.refresh \in Gone

RaceInv ==
    store.access \in DOMAIN expiry /\ store.refresh # None /\ StoredSince /\ StoredOrGone

\* The invariants a step starts from.
BeforeRace == TypeOK /\ RefreshInv /\ RefreshOfStored /\ ExpiryInv /\ GrantsLeft /\ RaceInv

\* A spent token stays spent, whatever else a process does.
LEMMA GoneStays ==
    ASSUME NEW p \in Proc, Quiet(p)
    PROVE  Gone \subseteq Gone'
<1>1. \A q \in Proc \ {p} : Spent(q)' = Spent(q)
  BY DEF Quiet, Moved, Spent, grantVars
<1>2. orphaned \union Spent(p) \subseteq orphaned'
  BY DEF Quiet
<1>3. QED
  BY <1>1, <1>2 DEF Gone

\* A process that comes to the reload finds a valid token or a spent one.
LEMMA ComesToReload ==
    ASSUME RaceAssumption, BeforeRace, NEW p \in Proc, Quiet(p),
           Start(p) \/ Step(p) \/ Crash(p), pc'[p] = "reload"
    PROVE  expiry[store.access] > now + Latency \/ store.refresh \in Gone'
<1>0. /\ Shape /\ now \in Nat /\ Latency \in Nat /\ Threshold \in Nat
      /\ store.access \in DOMAIN expiry /\ expiry[store.access] \in Nat
      /\ store.refresh # None /\ store.access # None /\ store.expires_at \in Nat
      /\ since[p] \in Nat
  <2>1. store.access \in DOMAIN expiry /\ expiry \in Seq(Nat) /\ store.refresh # None
    BY DEF BeforeRace, TypeOK, Shape, RaceInv
  <2>2. store.access \in 1..Len(expiry)
    BY <2>1
  <2>3. store.access # None /\ expiry[store.access] \in Nat
    BY <2>1, <2>2 DEF None
  <2>4. Latency \in Nat /\ Threshold \in Nat
    BY ClientAssumption
  <2>5. QED
    BY <2>1, <2>3, <2>4 DEF BeforeRace, TypeOK, Shape, Credentials
<1>1. CASE EnsureFreshToken(p)
  <2>1. FarFromExpiry(store)
    BY <1>0, <1>1 DEF EnsureFreshToken, Usable, Goto, Shape
  <2>2. store.expires_at >= now + Threshold /\ store.expires_at <= expiry[store.access]
    BY <1>0, <2>1 DEF FarFromExpiry, BeforeRace, ExpiryInv, ExpiryIsConservative
  <2>3. Threshold > Latency
    BY DEF RaceAssumption
  <2>4. QED
    BY <1>0, <2>2, <2>3
<1>2. CASE GrantRefused(p)
  <2>1. pc[p] = "post" /\ loaded[p].refresh \notin live
    <3>1. ~ServerAccepts(p) /\ pc[p] = "post"
      BY <1>2 DEF GrantRefused, RaceAssumption
    <3>2. QED
      BY <3>1 DEF ServerAccepts, BeforeRace, GrantsLeft
  <2>2. CASE store = loaded[p]
    <3>1. store.refresh \in Gone
      BY <1>0, <2>1, <2>2 DEF BeforeRace, RefreshInv, RefreshTokenUsable, Gone
    <3>2. QED
      BY <3>1, GoneStays
  <2>3. CASE expiry[store.access] > since[p] + 2 * Latency
    <3>1. now <= since[p] + Latency
      BY <2>1 DEF BeforeRace, ExpiryInv, GrantTimes
    <3>2. QED
      BY <1>0, <2>3, <3>1
  <2>4. QED
    BY <2>1, <2>2, <2>3 DEF BeforeRace, RaceInv, StoredSince
<1>3. CASE TokensNotSaved(p)
  <2>1. pc[p] = "save" /\ orphaned' = orphaned \union Spent(p)
    BY <1>3 DEF TokensNotSaved
  <2>2. grant[p] = "refresh_token" /\ store = loaded[p]
    BY <2>1 DEF BeforeRace, RefreshOfStored
  <2>3. Spent(p) = {store.refresh}
    BY <2>1, <2>2 DEF Spent
  <2>4. QED
    BY <2>1, <2>3 DEF Gone
<1>4. CASE StartRequest(p) \/ Call(p) \/ CallRaises(p) \/ ReloadCredentials(p) \/ Crash(p)
  <2>1. pc'[p] # "reload"
    BY <1>0, <1>4, Moves DEF Moved
  <2>2. QED
    BY <2>1
<1>5. CASE LoadRaises(p)
  BY <1>5 DEF LoadRaises, RaceAssumption
<1>6. CASE Grant(p) \/ SaveTokens(p)
  <2>1. CASE Grant(p)
    BY <1>0, <2>1, Moves DEF Moved
  <2>2. CASE SaveTokens(p)
    <3>1. store' = store /\ reply' = reply /\ store'.access = reply[p].access /\ pc[p] = "save"
      BY <2>2 DEF Quiet, grantVars, SaveTokens
    <3>2. store'.refresh = RefreshTokenToSave(p) /\ reply[p].refresh # None
      BY <2>2, <3>1 DEF SaveTokens, BeforeRace, RefreshOfStored
    <3>3. store.refresh = reply[p].refresh
      BY <3>1, <3>2 DEF RefreshTokenToSave
    <3>4. QED
      BY <3>1, <3>2, <3>3 DEF BeforeRace, RefreshInv, Unshared
  <2>3. QED
    BY <1>6, <2>1, <2>2
<1>7. QED
  <2>1. Operations = {"resource"}
    BY DEF RaceAssumption, RotatingRefreshes
  <2>2. QED
    BY <2>1, <1>1, <1>2, <1>3, <1>4, <1>5, <1>6, RequestSteps

\* A token granted at most one delay ago outlives two more.
LEMMA YoungOutlives ==
    ASSUME NEW n \in Nat, NEW s \in Nat, NEW l \in Nat, NEW life \in Nat,
           n <= s + l, 3 * l < life
    PROVE  s + life \in Nat /\ s + life > n + 2 * l
OBVIOUS

\* What lasts two delays from now on lasts two and one from before.
LEMMA LaterThanBoth ==
    ASSUME NEW e \in Nat, NEW n \in Nat, NEW s \in Nat, NEW l \in Nat,
           e > n + 2 * l, s <= n
    PROVE  e > s + 2 * l /\ e > s + l
OBVIOUS

\* Every step keeps the invariant of races.
LEMMA NextRaceInv ==
    ASSUME RaceAssumption, BeforeRace, [Next]_vars
    PROVE  RaceInv'
<1>0. /\ TypeOK /\ Shape /\ now \in Nat /\ Latency \in Nat /\ Lifetime \in Nat
      /\ expiry \in Seq(Nat) /\ Len(expiry) \in Nat
      /\ store.access \in DOMAIN expiry /\ store.refresh # None
      /\ expiry[store.access] \in Nat /\ StoredSince /\ StoredOrGone
      /\ \A q \in Proc : since[q] \in Nat
      /\ \A q \in Proc : pc[q] # "idle" => since[q] <= now /\ now <= since[q] + Latency
      /\ 3 * Latency < Lifetime
  BY ClientAssumption DEF BeforeRace, TypeOK, Shape, RaceInv, ExpiryInv, GrantTimes,
     RaceAssumption, PromptSteps
<1>1. CASE UNCHANGED vars \/ Tick
  <2>1. UNCHANGED <<store, expiry, pc, since, loaded, grant, orphaned>>
    BY <1>1 DEF vars, Tick, serverVars, grantVars
  <2>2. Gone' = Gone
    BY <2>1 DEF Gone, Spent
  <2>3. QED
    BY <1>0, <2>1, <2>2 DEF RaceInv, StoredSince, StoredOrGone
<1>2. ASSUME NEW p \in Proc, Quiet(p), Start(p) \/ Step(p) \/ Crash(p) PROVE RaceInv'
  <2>1. /\ UNCHANGED <<now, store, expiry, loaded>> /\ pc'[p] # "post"
        /\ pc'[p] = "reload" => since'[p] = now
        /\ \A q \in Proc \ {p} : pc'[q] = pc[q] /\ since'[q] = since[q]
    BY <1>2 DEF Quiet, Moved, serverVars, grantVars
  <2>2. Gone \subseteq Gone'
    BY <1>2, GoneStays
  <2>3. pc'[p] = "reload" => expiry[store.access] > now + Latency \/ store.refresh \in Gone'
    BY <1>2, ComesToReload
  <2>4. StoredSince'
    BY <1>0, <2>1 DEF StoredSince
  <2>5. StoredOrGone'
    BY <1>0, <2>1, <2>2, <2>3 DEF StoredOrGone
  <2>6. QED
    BY <1>0, <2>1, <2>4, <2>5 DEF RaceInv
<1>3. ASSUME NEW p \in Proc, EnsureFreshToken(p), Moved(p, {"post"}) PROVE RaceInv'
  <2>1. /\ UNCHANGED <<store, expiry, orphaned>> /\ pc[p] = "ensure_fresh" /\ pc'[p] = "post"
        /\ \A q \in Proc \ {p} : pc'[q] = pc[q] /\ since'[q] = since[q]
    BY <1>3 DEF EnsureFreshToken, Moved, serverVars
  <2>2. /\ loaded' = [loaded EXCEPT ![p] = store]
        /\ grant' = [grant EXCEPT ![p] = "refresh_token"]
    BY <1>0, <1>3, <2>1 DEF EnsureFreshToken, Goto, Shape
  <2>3. /\ loaded'[p] = store
        /\ \A q \in Proc \ {p} : loaded'[q] = loaded[q] /\ grant'[q] = grant[q]
    BY <1>0, <2>2 DEF Shape
  <2>4. Gone' = Gone
    <3>1. \A q \in Proc : Spent(q)' = Spent(q)
      BY <2>1, <2>3 DEF Spent
    <3>2. QED
      BY <2>1, <3>1 DEF Gone
  <2>5. StoredSince'
    BY <1>0, <2>1, <2>3 DEF StoredSince
  <2>6. StoredOrGone'
    BY <1>0, <2>1, <2>4 DEF StoredOrGone
  <2>7. QED
    BY <1>0, <2>1, <2>5, <2>6 DEF RaceInv
<1>4. ASSUME NEW p \in Proc, Grant(p), Moved(p, {"save"}) PROVE RaceInv'
  <2>1. /\ UNCHANGED <<store, loaded, grant, orphaned>> /\ pc[p] = "post" /\ pc'[p] = "save"
        /\ \A q \in Proc \ {p} : pc'[q] = pc[q] /\ since'[q] = since[q]
        /\ expiry' = Append(expiry, now + Lifetime)
    BY <1>4 DEF Grant, Moved
  <2>2. store.access \in DOMAIN expiry' /\ expiry'[store.access] = expiry[store.access]
    BY <1>0, <2>1
  <2>3. Gone \subseteq Gone'
    <3>1. \A q \in Proc : Spent(q) \subseteq Spent(q)'
      BY <2>1 DEF Spent
    <3>2. QED
      BY <2>1, <3>1 DEF Gone
  <2>4. StoredSince'
    BY <1>0, <2>1, <2>2 DEF StoredSince
  <2>5. StoredOrGone'
    BY <1>0, <2>1, <2>2, <2>3 DEF StoredOrGone
  <2>6. QED
    BY <1>0, <2>1, <2>2, <2>4, <2>5 DEF RaceInv
<1>5. ASSUME NEW p \in Proc, SaveTokens(p), Moved(p, {"reload", "idle"}) PROVE RaceInv'
  <2>1. /\ UNCHANGED <<now, expiry>> /\ pc[p] = "save" /\ pc'[p] \in {"reload", "idle"}
        /\ pc'[p] = "reload" => since'[p] = now
        /\ \A q \in Proc \ {p} : pc'[q] = pc[q] /\ since'[q] = since[q]
        /\ store'.access = reply[p].access /\ store'.refresh = RefreshTokenToSave(p)
    BY <1>5 DEF SaveTokens, Moved, serverVars
  <2>2. /\ reply[p].access \in DOMAIN expiry /\ expiry[reply[p].access] = since[p] + Lifetime
        /\ reply[p].refresh # None
    BY <2>1 DEF BeforeRace, ExpiryInv, GrantTimes, RefreshOfStored
  <2>3. /\ expiry'[store'.access] \in Nat /\ expiry'[store'.access] > now + 2 * Latency
    <3>1. expiry'[store'.access] = since[p] + Lifetime
      BY <2>1, <2>2
    <3>2. /\ now <= since[p] + Latency /\ since[p] \in Nat /\ now \in Nat
          /\ Latency \in Nat /\ Lifetime \in Nat /\ 3 * Latency < Lifetime
      BY <1>0, <2>1
    <3>3. since[p] + Lifetime \in Nat /\ since[p] + Lifetime > now + 2 * Latency
      BY <3>2, YoungOutlives
    <3>4. QED
      BY <3>1, <3>3
  <2>4. \A q \in Proc : pc'[q] \in {"post", "reload"} => since'[q] \in Nat /\ since'[q] <= now
    BY <1>0, <2>1
  <2>5. ASSUME NEW q \in Proc, pc'[q] \in {"post", "reload"}
        PROVE  /\ expiry'[store'.access] > since'[q] + 2 * Latency
               /\ expiry'[store'.access] > since'[q] + Latency
    <3>1. since'[q] \in Nat /\ since'[q] <= now
      BY <2>4, <2>5
    <3>2. now \in Nat /\ Latency \in Nat
      BY <1>0
    <3>3. QED
      BY <2>3, <3>1, <3>2, LaterThanBoth
  <2>6. StoredSince' /\ StoredOrGone'
    BY <2>5 DEF StoredSince, StoredOrGone
  <2>7. store'.refresh # None /\ store'.access \in DOMAIN expiry'
    BY <2>1, <2>2 DEF RefreshTokenToSave
  <2>8. QED
    BY <2>6, <2>7 DEF RaceInv
<1>6. QED
  BY <1>0, <1>1, <1>2, <1>3, <1>4, <1>5, OnlyRefreshesBegin DEF Next, RaceAssumption

\* With a server that rotates refresh tokens, any number of processes recovering
\* at once, replies lost and processes killed: what a process reloads after its
\* second 401 is a valid access token, unless another process has spent the
\* refresh token stored with it and not stored the next one, or will never.
THEOREM RecoveriesLoseOnlyRaces ==
    ASSUME RaceAssumption
    PROVE  Spec /\ []GrantsLeft => []RecoveryLosesOnlyRaces
<1>0. RotatingRefreshes /\ UniformReplies /\ PromptReplies
  BY DEF RaceAssumption, RotatingRefreshes, UniformReplies, PromptSteps, PromptReplies
<1>1. Init => TypeOK /\ RefreshInv /\ RefreshOfStored
  BY InitTypeOK, InitRefreshInv DEF Init, RefreshOfStored
<1>2. Init => ExpiryInv /\ RaceInv
  <2> SUFFICES ASSUME Init PROVE ExpiryInv /\ RaceInv
    OBVIOUS
  <2>1. RequestsOnly
    BY DEF RaceAssumption, RotatingRefreshes, RequestsOnly
  <2>2. ExpiryInv /\ RecoveryInv
    BY <2>1, InitRecoveryInv
  <2>3. store.access \in DOMAIN expiry /\ store.refresh # None
    <3>1. store.refresh \in live /\ None \notin live /\ store.access \in DOMAIN expiry
      BY <2>2 DEF RecoveryInv, TokensLive, FreshTokens, Init
    <3>2. QED
      BY <3>1
  <2>4. StoredSince /\ StoredOrGone
    BY DEF Init, StoredSince, StoredOrGone
  <2>5. QED
    BY <2>2, <2>3, <2>4 DEF RaceInv
<1>3. TypeOK /\ [Next]_vars => TypeOK'
  BY NextTypeOK
<1>4. TypeOK /\ RefreshInv /\ [Next]_vars => RefreshInv'
  BY <1>0, NextRefreshInv
<1>5. TypeOK /\ RefreshInv /\ RefreshOfStored /\ [Next]_vars => RefreshOfStored'
  BY <1>0, NextRefreshOfStored
<1>6. TypeOK /\ ExpiryInv /\ [Next]_vars => ExpiryInv'
  BY <1>0, NextExpiryInv
<1>7. TypeOK /\ RefreshInv /\ RefreshOfStored /\ ExpiryInv /\ GrantsLeft /\ RaceInv /\ [Next]_vars
        => RaceInv'
  BY NextRaceInv DEF BeforeRace
<1>8. TypeOK /\ ExpiryInv /\ RaceInv => RecoveryLosesOnlyRaces
  <2> SUFFICES ASSUME TypeOK, ExpiryInv, RaceInv, NEW p \in Proc, pc[p] = "reload"
               PROVE  Valid(store.access) \/ store.refresh \in Gone
    BY DEF RecoveryLosesOnlyRaces, Gone
  <2>1. /\ now \in Nat /\ since[p] \in Nat /\ Latency \in Nat /\ expiry[store.access] \in Nat
        /\ store.access \in DOMAIN expiry
    BY ClientAssumption DEF TypeOK, Shape, RaceInv
  <2>2. now <= since[p] + Latency
    BY DEF ExpiryInv, GrantTimes
  <2>3. QED
    BY <2>1, <2>2 DEF RaceInv, StoredOrGone, Valid
<1>9. QED
  BY <1>1, <1>2, <1>3, <1>4, <1>5, <1>6, <1>7, <1>8, PTL DEF Spec
=============================================================================
