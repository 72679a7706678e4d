-------------------------- MODULE OtterClientProofs ---------------------------
(***************************************************************************)
(* Type correctness of OtterClient, three properties of the stored         *)
(* credentials and the bound on HTTP calls, for any number of processes    *)
(* and any set of faults.                                                  *)
(*                                                                         *)
(* RefreshTokenUsable is not inductive: it has to know that the token a    *)
(* process is about to save has been seen by nobody else (Unshared), so    *)
(* that nobody can spend it before it is stored.  ExpiryIsConservative     *)
(* has to know when the token a process is about to save was granted       *)
(* (GrantTimes).                                                           *)
(***************************************************************************)
EXTENDS OtterClient, SequenceTheorems, TLAPS

\* The token endpoint either always sends a new refresh token and ends the
\* life of the old one, or never does.
UniformReplies == RefreshInReply \in {{TRUE}, {FALSE}}

\* An I/O step takes no longer than the margin taken off a token's lifetime.
PromptReplies == Latency <= Margin

\* Every refresh token anyone knows of was issued.
Issued ==
    /\ live \subseteq 1..Len(expiry)
    /\ store.refresh \in 0..Len(expiry)
    /\ \A p \in Proc :
          /\ loaded[p].refresh \in 0..Len(expiry)
          /\ pc[p] = "save" => reply[p].refresh \in 0..Len(expiry)

\* The refresh token a process is about to save is live, and known to it alone.
Unshared ==
    \A p \in Proc : pc[p] = "save" /\ reply[p].refresh # None =>
        /\ reply[p].refresh \in live
        /\ store.refresh # reply[p].refresh
        /\ \A q \in Proc : Refreshing(q) => loaded[q].refresh # reply[p].refresh
        /\ \A q \in Proc \ {p} : pc[q] = "save" => reply[q].refresh # reply[p].refresh

\* A refresh whose reply has no refresh token will store the old one again.
OldTokenStillLive ==
    \A p \in Proc : pc[p] = "save" /\ grant[p] = "refresh_token" /\ reply[p].refresh = None =>
        RefreshInReply = {FALSE} /\ loaded[p].refresh \in live

RefreshInv ==
    Issued /\ Unshared /\ OldTokenStillLive /\ RefreshTokenUsable

\* The token a process is about to save expires Lifetime after its grant, and
\* no I/O step is longer than Latency.
GrantTimes ==
    \A p \in Proc :
        /\ pc[p] # "idle" => since[p] <= now /\ now <= since[p] + Latency
        /\ pc[p] = "save" => reply[p].access \in DOMAIN expiry
                             /\ expiry[reply[p].access] = since[p] + Lifetime

StoredTokenExists == store.access \in {None} \union DOMAIN expiry

ExpiryInv == StoredTokenExists /\ GrantTimes /\ ExpiryIsConservative

-----------------------------------------------------------------------------
\* Every credential record a seed stands for is a credential record.
LEMMA SeedTypes ==
    /\ {Absent, Bare, Granted} \subseteq Credentials
    /\ {Seed[s] : s \in Seeds} \subseteq {Absent, Bare, Granted}
<1> USE ClientAssumption DEF None
<1>1. Absent \in Credentials /\ Bare \in Credentials
  BY DEF Absent, Bare, Credentials
<1>2. Granted \in Credentials
  BY DEF Granted, Credentials
<1>3. ASSUME NEW s \in AllSeeds PROVE Seed[s] \in {Absent, Bare, Granted}
  <2>1. Seed[s] = CASE s = "absent" -> Absent [] s = "bare" -> Bare [] s = "granted" -> Granted
    BY DEF Seed
  <2>2. s = "absent" \/ s = "bare" \/ s = "granted"
    BY DEF AllSeeds
  <2>3. QED
    BY <2>1, <2>2
<1>4. QED
  BY <1>1, <1>2, <1>3

\* What a step of p leaves of the control variables, wherever it goes.
Moved(p, labels) ==
    /\ pc' \in [Proc -> Labels] /\ since' \in [Proc -> Nat] /\ outcome' \in [Proc -> Outcomes]
    /\ pc'[p] \in labels
    /\ \A q \in Proc \ {p} : pc'[q] = pc[q] /\ since'[q] = since[q]
    /\ pc'[p] # "idle" => since'[p] = now

\* Going to a label moves the process there and starts a new I/O step.
LEMMA GotoMoves ==
    ASSUME Shape, NEW p \in Proc, NEW label \in Labels, Goto(p, label)
    PROVE  Moved(p, {label})
BY DEF Shape, Goto, Moved

\* Ending an operation leaves the process idle.
LEMMA FinishMoves ==
    ASSUME Shape, NEW p \in Proc, NEW result \in Outcomes, Finish(p, result)
    PROVE  Moved(p, {"idle"})
BY DEF Shape, Finish, Moved, Labels

\* A reply to a resource call is retried, leads to a refresh or ends the request.
LEMMA ReactMoves ==
    ASSUME Shape, NEW p \in Proc, NEW status, React(p, status)
    PROVE  Moved(p, {"call", "ensure_fresh", "idle"})
<1>1. CASE Goto(p, "call")
  BY <1>1, GotoMoves DEF Labels, Moved
<1>2. CASE Goto(p, "ensure_fresh")
  BY <1>2, GotoMoves DEF Labels, Moved
<1>3. ASSUME NEW r \in {"Tier1AuthError", "Tier2LatencyError", "returned"}, Finish(p, r)
      PROVE  Moved(p, {"call", "ensure_fresh", "idle"})
  BY <1>3, FinishMoves DEF Outcomes, Moved
<1>4. QED
  <2>1. Unauthorized(p) =>
          Goto(p, "call") \/ Goto(p, "ensure_fresh") \/ Finish(p, "Tier1AuthError")
    BY DEF Unauthorized
  <2>2. RateLimited(p) => Goto(p, "call") \/ Finish(p, "Tier2LatencyError")
    BY DEF RateLimited
  <2>3. Unauthorized(p) \/ RateLimited(p) \/ Finish(p, "Tier2LatencyError") \/ Finish(p, "returned")
    BY DEF React
  <2>4. QED
    BY <2>1, <2>2, <2>3, <1>1, <1>2, <1>3

\* A grant that raises leaves the process reloading or idle.
LEMMA GrantRaisesMoves ==
    ASSUME Shape, NEW p \in Proc, NEW error \in Outcomes, GrantRaises(p, error)
    PROVE  Moved(p, {"reload", "idle"})
<1>1. CASE Goto(p, "reload")
  BY <1>1, GotoMoves DEF Labels, Moved
<1>2. CASE Finish(p, error)
  BY <1>2, FinishMoves DEF Moved
<1>3. QED
  BY <1>1, <1>2 DEF GrantRaises

\* Where each action leaves the process.
LEMMA Moves ==
    ASSUME Shape, NEW p \in Proc
    PROVE  /\ StartRequest(p) => Moved(p, {"call", "idle"})
           /\ StartExchange(p) => Moved(p, {IF store.found THEN "post" ELSE "idle"})
           /\ StartInitialToken(p) => Moved(p, {"post"})
           /\ Call(p) => Moved(p, {"call", "ensure_fresh", "idle"})
           /\ CallRaises(p) => Moved(p, {"idle"})
           /\ EnsureFreshToken(p) =>
                 Moved(p, {IF Usable(store) /\ ~FarFromExpiry(store) THEN "post" ELSE "reload"})
           /\ ReloadCredentials(p) => Moved(p, {"call"})
           /\ Grant(p) => Moved(p, {"save"})
           /\ GrantRefused(p) \/ TokensNotSaved(p) \/ SaveTokens(p) \/ LoadRaises(p) =>
                 Moved(p, {"reload", "idle"})
           /\ Crash(p) => Moved(p, {"idle"})
<1>1. ASSUME NEW label \in Labels, Goto(p, label) PROVE Moved(p, {label})
  BY <1>1, GotoMoves
<1>2. ASSUME NEW result \in Outcomes, Finish(p, result) PROVE Moved(p, {"idle"})
  BY <1>2, FinishMoves
<1>3. StartRequest(p) => Moved(p, {"call", "idle"})
  <2>1. StartRequest(p) => Goto(p, "call") \/ Finish(p, "MerchantNotFoundError")
    BY DEF StartRequest
  <2>2. QED
    BY <2>1, <1>1, <1>2 DEF Labels, Outcomes, Moved
<1>4. StartExchange(p) => Moved(p, {IF store.found THEN "post" ELSE "idle"})
  BY <1>1, <1>2 DEF StartExchange, Labels, Outcomes
<1>5. StartInitialToken(p) => Moved(p, {"post"})
  BY <1>1 DEF StartInitialToken, Labels
<1>6. Call(p) => Moved(p, {"call", "ensure_fresh", "idle"})
  BY ReactMoves DEF Call
<1>7. CallRaises(p) => Moved(p, {"idle"})
  BY <1>2 DEF CallRaises, Outcomes
<1>8. EnsureFreshToken(p) =>
        Moved(p, {IF Usable(store) /\ ~FarFromExpiry(store) THEN "post" ELSE "reload"})
  BY <1>1 DEF EnsureFreshToken, Labels
<1>9. ReloadCredentials(p) => Moved(p, {"call"})
  BY <1>1 DEF ReloadCredentials, Labels
<1>10. Grant(p) => Moved(p, {"save"})
  BY <1>1 DEF Grant, Labels
<1>11. GrantRefused(p) \/ TokensNotSaved(p) => Moved(p, {"reload", "idle"})
  BY GrantRaisesMoves DEF GrantRefused, TokensNotSaved, Outcomes
<1>12. SaveTokens(p) \/ LoadRaises(p) => Moved(p, {"reload", "idle"})
  <2>1. SaveTokens(p) \/ LoadRaises(p) =>
          Goto(p, "reload") \/ Finish(p, "returned") \/ Finish(p, "SecretsError")
    BY DEF SaveTokens, LoadRaises
  <2>2. QED
    BY <2>1, <1>1, <1>2 DEF Labels, Outcomes, Moved
<1>13. Crash(p) => Moved(p, {"idle"})
  BY <1>2 DEF Crash, Outcomes
<1>14. QED
  BY <1>3, <1>4, <1>5, <1>6, <1>7, <1>8, <1>9, <1>10, <1>11, <1>12, <1>13

\* A step that moves p out of its grant, or does not concern one, keeps
\* RefreshesHaveTokens.
LEMMA NoNewRefresh ==
    ASSUME TypeOK, NEW p \in Proc, NEW labels \in SUBSET Labels,
           Moved(p, labels), "post" \notin labels, "save" \notin labels,
           UNCHANGED grantVars
    PROVE  RefreshesHaveTokens'
BY DEF TypeOK, RefreshesHaveTokens, Refreshing, Moved, grantVars

\* Every step keeps the inductive type invariant.
LEMMA NextTypeOK ==
    ASSUME TypeOK, [Next]_vars
    PROVE  TypeOK'
<1> USE ClientAssumption
<1> USE DEF serverVars, requestVars, grantVars
<1>0. Shape
  BY DEF TypeOK
<1>1. CASE UNCHANGED vars
  BY <1>1 DEF vars, TypeOK, Shape, RefreshesHaveTokens, Refreshing
<1>2. CASE Tick
  BY <1>2 DEF Tick, TypeOK, Shape, RefreshesHaveTokens, Refreshing
<1>3. ASSUME NEW p \in Proc, StartRequest(p) PROVE TypeOK'
  <2>1. Moved(p, {"call", "idle"})
    BY <1>0, <1>3, Moves
  <2>2. RefreshesHaveTokens'
    BY <1>3, <2>1, NoNewRefresh DEF StartRequest, Labels
  <2>3. seen' \in [Proc -> Seq({"2xx", "401", "403", "429", "5xx"})]
    <3>1. <<>> \in Seq({"2xx", "401", "403", "429", "5xx"})
      OBVIOUS
    <3>2. seen' = seen \/ seen' = [seen EXCEPT ![p] = <<>>]
      BY <1>3 DEF StartRequest
    <3>3. QED
      BY <1>0, <3>1, <3>2 DEF Shape
  <2>4. token' \in [Proc -> Nat]
    BY <1>0, <1>3 DEF StartRequest, Shape, Credentials
  <2>5. QED
    BY <1>0, <1>3, <2>1, <2>2, <2>3, <2>4 DEF StartRequest, TypeOK, Shape, Moved
<1>4. ASSUME NEW p \in Proc, StartExchange(p) PROVE TypeOK'
  <2>1. CASE store.found
    <3>1. Goto(p, "post")
      BY <1>4, <2>1 DEF StartExchange
    <3>2. Moved(p, {"post"})
      BY <1>0, <1>4, <2>1, Moves
    <3>3. loaded' \in [Proc -> Credentials] /\ grant' \in [Proc -> GrantTypes]
      BY <1>0, <1>4, <2>1 DEF StartExchange, Shape, GrantTypes
    <3>4. RefreshesHaveTokens'
      BY <1>4, <2>1, <3>2 DEF StartExchange, TypeOK, Shape, RefreshesHaveTokens, Refreshing, Moved
    <3>5. QED
      BY <1>0, <1>4, <3>2, <3>3, <3>4 DEF StartExchange, TypeOK, Shape, Moved
  <2>2. CASE ~store.found
    <3>1. Finish(p, "MerchantNotFoundError") /\ UNCHANGED grantVars
      BY <1>4, <2>2 DEF StartExchange
    <3>2. Moved(p, {"idle"})
      BY <1>0, <1>4, <2>2, Moves
    <3>3. RefreshesHaveTokens'
      BY <3>1, <3>2, NoNewRefresh DEF Labels
    <3>4. QED
      BY <1>0, <1>4, <3>1, <3>2, <3>3 DEF StartExchange, TypeOK, Shape, Moved
  <2>3. QED
    BY <2>1, <2>2
<1>5. ASSUME NEW p \in Proc, StartInitialToken(p) PROVE TypeOK'
  <2>1. Goto(p, "post")
    BY <1>5 DEF StartInitialToken
  <2>2. Moved(p, {"post"})
    BY <1>0, <1>5, Moves
  <2>3. loaded' \in [Proc -> Credentials] /\ grant' \in [Proc -> GrantTypes]
    BY <1>0, <1>5, SeedTypes DEF StartInitialToken, Shape, GrantTypes
  <2>4. RefreshesHaveTokens'
    BY <1>5, <2>2 DEF StartInitialToken, TypeOK, Shape, RefreshesHaveTokens, Refreshing, Moved
  <2>5. QED
    BY <1>0, <1>5, <2>2, <2>3, <2>4 DEF StartInitialToken, TypeOK, Shape, Moved
<1>6. ASSUME NEW p \in Proc, Call(p) PROVE TypeOK'
  <2>1. PICK status \in Statuses(p) : Receive(p, status) /\ React(p, status)
    BY <1>6 DEF Call
  <2>2. Moved(p, {"call", "ensure_fresh", "idle"})
    BY <1>0, <1>6, Moves
  <2>3. RefreshesHaveTokens'
    BY <1>6, <2>2, NoNewRefresh DEF Call, Labels
  <2>4. seen' \in [Proc -> Seq({"2xx", "401", "403", "429", "5xx"})]
    <3>1. status \in {"2xx", "401", "403", "429", "5xx"}
      BY <2>1 DEF Statuses
    <3>2. Append(seen[p], status) \in Seq({"2xx", "401", "403", "429", "5xx"})
      BY <1>0, <3>1 DEF Shape
    <3>3. QED
      BY <1>0, <2>1, <3>2 DEF Receive, Shape
  <2>5. QED
    BY <1>0, <1>6, <2>2, <2>3, <2>4 DEF Call, TypeOK, Shape, Moved
<1>7. ASSUME NEW p \in Proc, CallRaises(p) PROVE TypeOK'
  <2>1. Moved(p, {"idle"})
    BY <1>0, <1>7, Moves
  <2>2. RefreshesHaveTokens'
    BY <1>7, <2>1, NoNewRefresh DEF CallRaises, Labels
  <2>3. QED
    BY <1>0, <1>7, <2>1, <2>2 DEF CallRaises, TypeOK, Shape, Moved
<1>8. ASSUME NEW p \in Proc, EnsureFreshToken(p) PROVE TypeOK'
  <2>1. CASE ~Usable(store) \/ FarFromExpiry(store)
    <3>1. Goto(p, "reload") /\ UNCHANGED grantVars
      BY <1>8, <2>1 DEF EnsureFreshToken
    <3>2. Moved(p, {"reload"})
      BY <1>0, <1>8, <2>1, Moves
    <3>3. RefreshesHaveTokens'
      BY <3>1, <3>2, NoNewRefresh DEF Labels
    <3>4. QED
      BY <1>0, <1>8, <3>1, <3>2, <3>3 DEF EnsureFreshToken, TypeOK, Shape, Moved
  <2>2. CASE Usable(store) /\ ~FarFromExpiry(store)
    <3>1. Goto(p, "post")
      BY <1>8, <2>2 DEF EnsureFreshToken
    <3>2. Moved(p, {"post"})
      BY <1>0, <1>8, <2>2, Moves
    <3>3. loaded' \in [Proc -> Credentials] /\ grant' \in [Proc -> GrantTypes]
      BY <1>0, <1>8, <2>2 DEF EnsureFreshToken, Shape, GrantTypes
    <3>4. RefreshesHaveTokens'
      BY <1>8, <2>2, <3>2 DEF EnsureFreshToken, TypeOK, Shape, RefreshesHaveTokens, Refreshing,
         Moved, Usable
    <3>5. QED
      BY <1>0, <1>8, <3>2, <3>3, <3>4 DEF EnsureFreshToken, TypeOK, Shape, Moved
  <2>3. QED
    BY <2>1, <2>2
<1>9. ASSUME NEW p \in Proc, ReloadCredentials(p) PROVE TypeOK'
  <2>1. Moved(p, {"call"})
    BY <1>0, <1>9, Moves
  <2>2. RefreshesHaveTokens'
    BY <1>9, <2>1, NoNewRefresh DEF ReloadCredentials, Labels
  <2>3. token' \in [Proc -> Nat]
    BY <1>0, <1>9 DEF ReloadCredentials, Shape, Credentials
  <2>4. QED
    BY <1>0, <1>9, <2>1, <2>2, <2>3 DEF ReloadCredentials, TypeOK, Shape, Moved
<1>10. ASSUME NEW p \in Proc, Grant(p) PROVE TypeOK'
  <2>1. Moved(p, {"save"})
    BY <1>0, <1>10, Moves
  <2>2. RefreshesHaveTokens'
    BY <1>10, <2>1 DEF Grant, TypeOK, RefreshesHaveTokens, Refreshing, Moved
  <2>3. expiry' \in Seq(Nat) /\ Len(expiry) + 1 \in Nat
    BY <1>0, <1>10 DEF Grant, Shape
  <2>4. live' \subseteq Nat
    BY <1>0, <1>10, <2>3 DEF Grant, Shape
  <2>5. reply' \in [Proc -> Tokens]
    BY <1>0, <1>10, <2>3 DEF Grant, Shape, Tokens, None
  <2>6. QED
    BY <1>0, <1>10, <2>1, <2>2, <2>3, <2>4, <2>5 DEF Grant, TypeOK, Shape, Moved
<1>11. ASSUME NEW p \in Proc, GrantRefused(p) PROVE TypeOK'
  <2>1. Moved(p, {"reload", "idle"})
    BY <1>0, <1>11, Moves
  <2>2. RefreshesHaveTokens'
    BY <1>11, <2>1, NoNewRefresh DEF GrantRefused, Labels
  <2>3. QED
    BY <1>0, <1>11, <2>1, <2>2 DEF GrantRefused, TypeOK, Shape, Moved
<1>12. ASSUME NEW p \in Proc, SaveTokens(p) PROVE TypeOK'
  <2>1. Moved(p, {"reload", "idle"})
    BY <1>0, <1>12, Moves
  <2>2. RefreshesHaveTokens'
    BY <1>12, <2>1, NoNewRefresh DEF SaveTokens, Labels
  <2>3. RefreshTokenToSave(p) \in Nat /\ reply[p].access \in Nat
    BY <1>0 DEF Shape, RefreshTokenToSave, Credentials, Tokens
  <2>4. ExpiresAt \in Nat
    BY <1>0 DEF Shape, ExpiresAt
  <2>5. store' \in Credentials
    BY <1>12, <2>3, <2>4 DEF SaveTokens, Credentials
  <2>6. QED
    BY <1>0, <1>12, <2>1, <2>2, <2>5 DEF SaveTokens, TypeOK, Shape, Moved
<1>13. ASSUME NEW p \in Proc, TokensNotSaved(p) PROVE TypeOK'
  <2>1. Moved(p, {"reload", "idle"})
    BY <1>0, <1>13, Moves
  <2>2. RefreshesHaveTokens'
    BY <1>13, <2>1, NoNewRefresh DEF TokensNotSaved, Labels
  <2>3. orphaned' \subseteq Nat
    BY <1>0, <1>13 DEF TokensNotSaved, Shape, Spent, Credentials
  <2>4. QED
    BY <1>0, <1>13, <2>1, <2>2, <2>3 DEF TokensNotSaved, TypeOK, Shape, Moved
<1>14. ASSUME NEW p \in Proc, LoadRaises(p) PROVE TypeOK'
  <2>1. Moved(p, {"reload", "idle"})
    BY <1>0, <1>14, Moves
  <2>2. RefreshesHaveTokens'
    BY <1>14, <2>1, NoNewRefresh DEF LoadRaises, Labels
  <2>3. QED
    BY <1>0, <1>14, <2>1, <2>2 DEF LoadRaises, TypeOK, Shape, Moved
<1>15. ASSUME NEW p \in Proc, Crash(p) PROVE TypeOK'
  <2>1. Moved(p, {"idle"})
    BY <1>0, <1>15, Moves
  <2>2. RefreshesHaveTokens'
    BY <1>15, <2>1, NoNewRefresh DEF Crash, Labels
  <2>3. orphaned' \subseteq Nat
    <3>1. loaded[p].refresh \in Nat
      BY <1>0 DEF Shape, Credentials
    <3>2. Spent(p) \subseteq Nat
      BY <3>1 DEF Spent
    <3>3. QED
      BY <1>0, <1>15, <3>2 DEF Crash, Shape
  <2>4. QED
    BY <1>0, <1>15, <2>1, <2>2, <2>3 DEF Crash, TypeOK, Shape, Moved
<1>16. QED
  BY <1>1, <1>2, <1>3, <1>4, <1>5, <1>6, <1>7, <1>8, <1>9, <1>10, <1>11, <1>12, <1>13, <1>14,
     <1>15 DEF Next, Start, Step

\* The initial states have the types.
LEMMA InitTypeOK == Init => TypeOK
<1> USE ClientAssumption
<1> SUFFICES ASSUME Init PROVE TypeOK
  OBVIOUS
<1>1. store \in Credentials /\ Absent \in Credentials
  BY SeedTypes DEF Init
<1>2. expiry \in Seq(Nat)
  BY DEF Init
<1>3. QED
  BY <1>1, <1>2 DEF Init, TypeOK, Shape, RefreshesHaveTokens, Refreshing, Tokens, NoTokens, None,
      Labels, Outcomes, GrantTypes

\* The state always has the shape of the code's objects, and a refresh grant
\* has a refresh token.
THEOREM TypeCorrect == Spec => []TypeOK
<1>1. Init => TypeOK
  BY InitTypeOK
<1>2. TypeOK /\ [Next]_vars => TypeOK'
  BY NextTypeOK
<1>3. QED
  BY <1>1, <1>2, PTL DEF Spec

-----------------------------------------------------------------------------
(***************************************************************************)
(* The steps of a process, by what they do to the tokens                   *)
(***************************************************************************)
\* A step that touches no token, or gives up a grant.
Quiet(p) ==
    /\ Moved(p, {"idle", "call", "ensure_fresh", "reload"})
    /\ UNCHANGED <<now, store, serverVars, grantVars>>
    /\ orphaned \union Spent(p) \subseteq orphaned'

\* A step that loads credentials and begins a grant with them.
Begins(p) ==
    /\ pc[p] # "save"
    /\ Moved(p, {"post"})
    /\ UNCHANGED <<now, store, serverVars, reply, orphaned>>
    /\ \E creds \in {store, Bare}, kind \in GrantTypes :
          /\ loaded' = [loaded EXCEPT ![p] = creds]
          /\ grant' = [grant EXCEPT ![p] = kind]

\* Every step is of one of these kinds.
LEMMA StepKinds ==
    ASSUME TypeOK, [Next]_vars
    PROVE  \/ UNCHANGED vars
           \/ Tick
           \/ \E p \in Proc :
                 \/ Quiet(p)
                 \/ Begins(p)
                 \/ Grant(p) /\ Moved(p, {"save"})
                 \/ SaveTokens(p) /\ Moved(p, {"reload", "idle"})
<1> USE DEF TypeOK, serverVars, requestVars, grantVars, GrantTypes
<1>1. ASSUME NEW p \in Proc, Start(p) PROVE Quiet(p) \/ Begins(p)
  <2>1. CASE StartRequest(p)
    BY <2>1, Moves DEF StartRequest, Quiet, Moved, Spent
  <2>2. CASE StartExchange(p)
    BY <2>2, Moves DEF StartExchange, Quiet, Begins, Moved, Spent
  <2>3. CASE StartInitialToken(p)
    BY <2>3, Moves DEF StartInitialToken, Begins
  <2>4. QED
    BY <1>1, <2>1, <2>2, <2>3 DEF Start
<1>2. ASSUME NEW p \in Proc, Call(p) \/ CallRaises(p) PROVE Quiet(p)
  BY <1>2, Moves DEF Call, CallRaises, Quiet, Moved, Spent
<1>3. ASSUME NEW p \in Proc, EnsureFreshToken(p) PROVE Quiet(p) \/ Begins(p)
  BY <1>3, Moves DEF EnsureFreshToken, Quiet, Begins, Moved, Spent
<1>4. ASSUME NEW p \in Proc, ReloadCredentials(p) \/ GrantRefused(p) \/ LoadRaises(p)
      PROVE  Quiet(p)
  BY <1>4, Moves DEF ReloadCredentials, GrantRefused, LoadRaises, Quiet, Moved, Spent
<1>5. ASSUME NEW p \in Proc, TokensNotSaved(p) \/ Crash(p) PROVE Quiet(p)
  BY <1>5, Moves DEF TokensNotSaved, Crash, Quiet, Moved
<1>6. ASSUME NEW p \in Proc, Grant(p) PROVE Moved(p, {"save"})
  BY <1>6, Moves
<1>7. ASSUME NEW p \in Proc, SaveTokens(p) PROVE Moved(p, {"reload", "idle"})
  BY <1>7, Moves
<1>8. QED
  BY <1>1, <1>2, <1>3, <1>4, <1>5, <1>6, <1>7 DEF Next, Step

\* Every step keeps the inductive invariant about refresh tokens.
LEMMA NextRefreshInv ==
    ASSUME UniformReplies, TypeOK, RefreshInv, [Next]_vars
    PROVE  RefreshInv'
<1> USE ClientAssumption DEF RefreshInv
<1>0. /\ Len(expiry) \in Nat /\ now \in Nat
      /\ \A p \in Proc : pc[p] \in Labels /\ grant[p] \in GrantTypes
  BY DEF TypeOK, Shape
<1>1. CASE UNCHANGED vars
  BY <1>1 DEF vars, serverVars, requestVars, grantVars, Issued, Unshared, OldTokenStillLive,
     RefreshTokenUsable, Refreshing, Spent
<1>2. CASE Tick
  BY <1>2 DEF Tick, serverVars, requestVars, grantVars, Issued, Unshared, OldTokenStillLive,
     RefreshTokenUsable, Refreshing, Spent
<1>3. ASSUME NEW p \in Proc, Quiet(p) PROVE RefreshInv'
  <2> USE DEF Quiet, Moved, serverVars, grantVars
  <2>1. Issued'
    BY <1>3 DEF Issued
  <2>2. Unshared'
    BY <1>3 DEF Unshared, Refreshing
  <2>3. OldTokenStillLive'
    BY <1>3 DEF OldTokenStillLive
  <2>4. RefreshTokenUsable'
    <3>1. \A q \in Proc \ {p} : Spent(q)' = Spent(q)
      BY <1>3 DEF Spent
    <3>2. QED
      BY <1>3, <3>1 DEF RefreshTokenUsable
  <2>5. QED
    BY <2>1, <2>2, <2>3, <2>4
<1>4. ASSUME NEW p \in Proc, Begins(p) PROVE RefreshInv'
  <2> USE DEF Moved, serverVars
  <2>1. PICK creds \in {store, Bare}, kind \in GrantTypes :
          /\ loaded' = [loaded EXCEPT ![p] = creds]
          /\ grant' = [grant EXCEPT ![p] = kind]
    BY <1>4 DEF Begins
  <2>2. /\ loaded'[p] = creds /\ creds.refresh \in {store.refresh, None}
        /\ \A q \in Proc \ {p} : loaded'[q] = loaded[q] /\ grant'[q] = grant[q]
    BY <2>1 DEF Bare, TypeOK, Shape
  <2>3. Issued'
    BY <1>0, <1>4, <2>2 DEF Begins, Issued, None
  <2>4. Unshared'
    BY <1>4, <2>2 DEF Begins, Unshared, Refreshing
  <2>5. OldTokenStillLive'
    BY <1>4, <2>2 DEF Begins, OldTokenStillLive
  <2>6. RefreshTokenUsable'
    <3>1. \A q \in Proc : Spent(q)' = Spent(q)
      BY <1>4, <2>2 DEF Begins, Spent
    <3>2. QED
      BY <1>4, <3>1 DEF Begins, RefreshTokenUsable
  <2>7. QED
    BY <2>3, <2>4, <2>5, <2>6
<1>5. ASSUME NEW p \in Proc, Grant(p), Moved(p, {"save"}) PROVE RefreshInv'
  <2> DEFINE n == Len(expiry) + 1
  <2>1. PICK withRefresh \in RefreshInReply :
          /\ reply' = [reply EXCEPT ![p] =
                [access |-> n, refresh |-> IF withRefresh THEN n ELSE None]]
          /\ live' = IF withRefresh
                     THEN (live \ IF grant[p] = "refresh_token" THEN {loaded[p].refresh} ELSE {})
                          \union {n}
                     ELSE live
    BY <1>5 DEF Grant
  <2>2. /\ pc[p] = "post" /\ pc'[p] = "save"
        /\ \A q \in Proc \ {p} : pc'[q] = pc[q]
        /\ UNCHANGED <<store, loaded, grant, orphaned>>
        /\ ServerAccepts(p)
    BY <1>5 DEF Grant, Moved
  <2>3. Len(expiry') = n /\ n \in Nat
    BY <1>0, <1>5 DEF Grant, TypeOK, Shape
  <2>4. /\ reply'[p].refresh = IF withRefresh THEN n ELSE None
        /\ \A q \in Proc \ {p} : reply'[q] = reply[q]
    BY <2>1 DEF TypeOK, Shape
  <2>5. Issued'
    <3>1. live' \subseteq 1..n
      <4>1. live' \subseteq live \union {n}
        BY <2>1
      <4>2. live \subseteq 1..n
        BY <1>0 DEF Issued
      <4>3. QED
        BY <1>0, <4>1, <4>2
    <3>2. store'.refresh \in 0..n
      BY <1>0, <2>2 DEF Issued
    <3>3. ASSUME NEW q \in Proc
          PROVE  loaded'[q].refresh \in 0..n /\ (pc'[q] = "save" => reply'[q].refresh \in 0..n)
      BY <1>0, <2>2, <2>4 DEF Issued, None
    <3>4. QED
      BY <2>3, <3>1, <3>2, <3>3 DEF Issued
  <2>6. \A q \in Proc : q # p /\ pc[q] = "save" /\ reply[q].refresh # None =>
          reply[q].refresh \in live'
    BY <2>1, <2>2 DEF Unshared, Refreshing
  <2>7. Unshared'
    <3>1. ASSUME NEW q \in Proc, pc'[q] = "save", reply'[q].refresh # None
          PROVE  /\ reply'[q].refresh \in live'
                 /\ store'.refresh # reply'[q].refresh
                 /\ \A r \in Proc : Refreshing(r)' => loaded'[r].refresh # reply'[q].refresh
                 /\ \A r \in Proc \ {q} : pc'[r] = "save" => reply'[r].refresh # reply'[q].refresh
      <4>1. CASE q = p
        <5>1. withRefresh /\ reply'[q].refresh = n
          BY <3>1, <4>1, <2>4
        <5>2. n \in live'
          BY <5>1, <2>1
        <5>3. store'.refresh # n /\ \A r \in Proc : loaded'[r].refresh # n
          BY <1>0, <2>2 DEF Issued
        <5>4. \A r \in Proc \ {q} : pc'[r] = "save" => reply'[r].refresh # n
          BY <1>0, <2>2, <2>4, <4>1 DEF Issued
        <5>5. QED
          BY <5>1, <5>2, <5>3, <5>4
      <4>2. CASE q # p
        <5>1. pc[q] = "save" /\ reply'[q] = reply[q] /\ reply[q].refresh # None
          BY <3>1, <4>2, <2>2, <2>4
        <5>2. reply[q].refresh \in live'
          BY <5>1, <4>2, <2>6
        <5>3. store'.refresh # reply[q].refresh
          BY <5>1, <2>2 DEF Unshared
        <5>4. \A r \in Proc : Refreshing(r)' => loaded'[r].refresh # reply[q].refresh
          BY <5>1, <2>2 DEF Unshared, Refreshing
        <5>5. ASSUME NEW r \in Proc \ {q}, pc'[r] = "save" PROVE reply'[r].refresh # reply[q].refresh
          <6>1. CASE r = p
            <7>1. reply[q].refresh < n
              BY <1>0, <5>1 DEF Issued
            <7>2. reply'[r].refresh \in {n, None}
              BY <6>1, <2>4
            <7>3. QED
              BY <1>0, <5>1, <7>1, <7>2 DEF Issued
          <6>2. CASE r # p
            BY <5>1, <5>5, <6>2, <2>2, <2>4 DEF Unshared
          <6>3. QED
            BY <6>1, <6>2
        <5>6. QED
          BY <5>1, <5>2, <5>3, <5>4, <5>5
      <4>3. QED
        BY <4>1, <4>2
    <3>2. QED
      BY <3>1 DEF Unshared
  <2>8. OldTokenStillLive'
    <3>1. ASSUME NEW q \in Proc, pc'[q] = "save", grant'[q] = "refresh_token",
                 reply'[q].refresh = None
          PROVE  RefreshInReply = {FALSE} /\ loaded'[q].refresh \in live'
      <4>1. CASE q = p
        <5>1. ~withRefresh
          BY <3>1, <4>1, <2>3, <2>4, <1>0 DEF None
        <5>2. RefreshInReply = {FALSE} /\ live' = live
          BY <5>1, <2>1 DEF UniformReplies
        <5>3. QED
          BY <5>2, <3>1, <4>1, <2>2 DEF ServerAccepts
      <4>2. CASE q # p
        <5>1. RefreshInReply = {FALSE} /\ loaded[q].refresh \in live
          BY <3>1, <4>2, <2>2, <2>4 DEF OldTokenStillLive
        <5>2. live' = live
          BY <5>1, <2>1
        <5>3. QED
          BY <5>1, <5>2, <2>2
      <4>3. QED
        BY <4>1, <4>2
    <3>2. QED
      BY <3>1 DEF OldTokenStillLive
  <2>9. RefreshTokenUsable'
    <3>1. \A q \in Proc \ {p} : Spent(q)' = Spent(q)
      BY <2>2 DEF Spent
    <3>2. Spent(p) = {} /\ (grant[p] = "refresh_token" => Spent(p)' = {loaded[p].refresh})
      BY <2>2 DEF Spent
    <3>3. live \subseteq live' \union Spent(p)'
      BY <2>1, <3>2
    <3>4. live \union orphaned \union UNION {Spent(q) : q \in Proc} \subseteq
              live' \union orphaned' \union UNION {Spent(q)' : q \in Proc}
      BY <2>2, <3>1, <3>2, <3>3
    <3>5. QED
      BY <2>2, <3>4 DEF RefreshTokenUsable
  <2>10. QED
    BY <2>5, <2>7, <2>8, <2>9
<1>6. ASSUME NEW p \in Proc, SaveTokens(p), Moved(p, {"reload", "idle"}) PROVE RefreshInv'
  <2>1. /\ pc[p] = "save" /\ pc'[p] \in {"reload", "idle"}
        /\ \A q \in Proc \ {p} : pc'[q] = pc[q]
        /\ UNCHANGED <<expiry, live, loaded, grant, reply, orphaned>>
        /\ store'.refresh = RefreshTokenToSave(p)
    BY <1>6 DEF SaveTokens, Moved, serverVars, grantVars
  <2>2. \/ /\ grant[p] = "refresh_token" /\ store'.refresh = loaded[p].refresh
           /\ loaded[p].refresh \in live
        \/ store'.refresh = reply[p].refresh
    BY <2>1 DEF RefreshTokenToSave, OldTokenStillLive
  <2>3. Issued'
    BY <2>1, <2>2 DEF Issued
  <2>4. Unshared'
    BY <2>1, <2>2 DEF Unshared, Refreshing
  <2>5. OldTokenStillLive'
    BY <2>1 DEF OldTokenStillLive
  <2>6. RefreshTokenUsable'
    BY <2>1, <2>2 DEF RefreshTokenUsable, Unshared
  <2>7. QED
    BY <2>3, <2>4, <2>5, <2>6
<1>7. QED
  BY <1>1, <1>2, <1>3, <1>4, <1>5, <1>6, StepKinds

\* The seeds satisfy it.
LEMMA InitRefreshInv == Init => RefreshInv
<1> SUFFICES ASSUME Init PROVE RefreshInv
  OBVIOUS
<1>1. store \in {Absent, Bare, Granted}
  BY SeedTypes DEF Init
<1>2. store.refresh \in {0, 1}
  BY <1>1 DEF Absent, Bare, Granted, None
<1>3. Len(expiry) = 1
  BY DEF Init
<1>4. QED
  BY <1>2, <1>3 DEF Init, RefreshInv, Issued, Unshared, OldTokenStillLive, RefreshTokenUsable,
     Absent, None

\* If the token endpoint always rotates refresh tokens or never does, then no
\* interleaving of requests, refreshes, exchanges, losses and crashes, of any
\* number of processes, stores a refresh token the server has ended, except
\* where the process holding its successor lost it.
THEOREM StoredRefreshTokenUsable ==
    ASSUME UniformReplies
    PROVE  Spec => []RefreshTokenUsable
<1> USE ClientAssumption
<1>1. Init => TypeOK
  BY InitTypeOK
<1>2. Init => RefreshInv
  BY InitRefreshInv
<1>3. TypeOK /\ [Next]_vars => TypeOK'
  BY NextTypeOK
<1>4. TypeOK /\ RefreshInv /\ [Next]_vars => RefreshInv'
  BY NextRefreshInv
<1>5. RefreshInv => RefreshTokenUsable
  BY DEF RefreshInv
<1>6. QED
  BY <1>1, <1>2, <1>3, <1>4, <1>5, PTL DEF Spec

\* Every step keeps the inductive invariant about expiry times.
LEMMA NextExpiryInv ==
    ASSUME PromptReplies, TypeOK, ExpiryInv, [Next]_vars
    PROVE  ExpiryInv'
<1> USE ClientAssumption DEF ExpiryInv
<1>0. /\ now \in Nat /\ expiry \in Seq(Nat) /\ Len(expiry) \in Nat
      /\ \A p \in Proc : since[p] \in Nat /\ pc[p] \in Labels
  BY DEF TypeOK, Shape
<1>1. CASE UNCHANGED vars
  BY <1>1 DEF vars, serverVars, requestVars, grantVars, StoredTokenExists, GrantTimes,
     ExpiryIsConservative
<1>2. CASE Tick
  BY <1>0, <1>2 DEF Tick, serverVars, requestVars, grantVars, StoredTokenExists, GrantTimes,
     ExpiryIsConservative
<1>3. ASSUME NEW p \in Proc, Quiet(p) \/ Begins(p) PROVE ExpiryInv'
  <2>1. /\ UNCHANGED <<now, store, expiry, reply>> /\ pc'[p] # "save"
        /\ pc'[p] # "idle" => since'[p] = now
        /\ \A q \in Proc \ {p} : pc'[q] = pc[q] /\ since'[q] = since[q]
    BY <1>3 DEF Quiet, Begins, Moved, serverVars, grantVars
  <2>2. GrantTimes'
    BY <1>0, <2>1 DEF GrantTimes
  <2>3. QED
    BY <2>1, <2>2 DEF StoredTokenExists, ExpiryIsConservative
<1>4. ASSUME NEW p \in Proc, Grant(p), Moved(p, {"save"}) PROVE ExpiryInv'
  <2> DEFINE n == Len(expiry) + 1
  <2>1. /\ UNCHANGED <<now, store>> /\ pc'[p] = "save" /\ since'[p] = now
        /\ \A q \in Proc \ {p} : pc'[q] = pc[q] /\ since'[q] = since[q] /\ reply'[q] = reply[q]
        /\ reply'[p].access = n
        /\ expiry' = Append(expiry, now + Lifetime)
    BY <1>4 DEF Grant, Moved, TypeOK, Shape
  <2>2. /\ DOMAIN expiry' = DOMAIN expiry \union {n} /\ expiry'[n] = now + Lifetime
        /\ \A i \in DOMAIN expiry : expiry'[i] = expiry[i]
    BY <1>0, <2>1
  <2>3. GrantTimes'
    <3>1. ASSUME NEW q \in Proc
          PROVE  /\ pc'[q] # "idle" => since'[q] <= now' /\ now' <= since'[q] + Latency
                 /\ pc'[q] = "save" => /\ reply'[q].access \in DOMAIN expiry'
                                       /\ expiry'[reply'[q].access] = since'[q] + Lifetime
      <4>1. CASE q = p
        BY <1>0, <4>1, <2>1, <2>2
      <4>2. CASE q # p
        BY <4>2, <2>1, <2>2 DEF GrantTimes
      <4>3. QED
        BY <4>1, <4>2
    <3>2. QED
      BY <3>1 DEF GrantTimes
  <2>4. StoredTokenExists'
    BY <2>1, <2>2 DEF StoredTokenExists
  <2>5. ExpiryIsConservative'
    BY <2>1, <2>2 DEF StoredTokenExists, ExpiryIsConservative
  <2>6. QED
    BY <2>3, <2>4, <2>5
<1>5. ASSUME NEW p \in Proc, SaveTokens(p), Moved(p, {"reload", "idle"}) PROVE ExpiryInv'
  <2>1. /\ pc[p] = "save" /\ UNCHANGED <<now, expiry, reply>>
        /\ pc'[p] # "save" /\ (pc'[p] # "idle" => since'[p] = now)
        /\ \A q \in Proc \ {p} : pc'[q] = pc[q] /\ since'[q] = since[q]
        /\ store'.access = reply[p].access /\ store'.expires_at = now + Lifetime - Margin
    BY <1>5 DEF SaveTokens, Moved, serverVars, grantVars, ExpiresAt
  <2>2. reply[p].access \in DOMAIN expiry /\ expiry[reply[p].access] = since[p] + Lifetime
    BY <2>1 DEF GrantTimes
  <2>3. now + Lifetime - Margin <= since[p] + Lifetime
    <3>1. now <= since[p] + Latency
      BY <2>1 DEF GrantTimes
    <3>2. QED
      BY <1>0, <3>1 DEF PromptReplies
  <2>4. GrantTimes'
    <3>1. now' \in Nat /\ now' <= now' + Latency
      BY <1>0, <2>1
    <3>2. ASSUME NEW q \in Proc
          PROVE  /\ pc'[q] # "idle" => since'[q] <= now' /\ now' <= since'[q] + Latency
                 /\ pc'[q] = "save" => /\ reply'[q].access \in DOMAIN expiry'
                                       /\ expiry'[reply'[q].access] = since'[q] + Lifetime
      <4>1. CASE q = p
        BY <4>1, <2>1, <3>1
      <4>2. CASE q # p
        BY <4>2, <2>1 DEF GrantTimes
      <4>3. QED
        BY <4>1, <4>2
    <3>3. QED
      BY <3>2 DEF GrantTimes
  <2>5. QED
    BY <2>1, <2>2, <2>3, <2>4 DEF StoredTokenExists, ExpiryIsConservative
<1>6. QED
  BY <1>1, <1>2, <1>3, <1>4, <1>5, StepKinds

\* If no I/O step takes longer than the safety margin, the stored expires_at is
\* never later than the true expiry of the stored access token.
THEOREM StoredExpiryConservative ==
    ASSUME PromptReplies
    PROVE  Spec => []ExpiryIsConservative
<1> USE ClientAssumption
<1>1. Init => TypeOK
  BY InitTypeOK
<1>2. Init => ExpiryInv
  <2> SUFFICES ASSUME Init PROVE ExpiryInv
    OBVIOUS
  <2>1. store \in {Absent, Bare, Granted}
    BY SeedTypes DEF Init
  <2>2. expiry = <<Lifetime>> /\ DOMAIN expiry = {1}
    BY DEF Init
  <2>3. StoredTokenExists /\ ExpiryIsConservative
    BY <2>1, <2>2 DEF Absent, Bare, Granted, None, StoredTokenExists, ExpiryIsConservative
  <2>4. QED
    BY <2>3 DEF Init, ExpiryInv, GrantTimes
<1>3. TypeOK /\ [Next]_vars => TypeOK'
  BY NextTypeOK
<1>4. TypeOK /\ ExpiryInv /\ [Next]_vars => ExpiryInv'
  BY NextExpiryInv
<1>5. ExpiryInv => ExpiryIsConservative
  BY DEF ExpiryInv
<1>6. QED
  BY <1>1, <1>2, <1>3, <1>4, <1>5, PTL DEF Spec
-----------------------------------------------------------------------------
\* CallBudget is not inductive either: a process that calls has an attempt
\* left, and one that refreshes for its request has made exactly two.
MostCalls == 1 + (IF MaxRetries > 2 THEN MaxRetries ELSE 2)

WithinBudget(p) ==
    /\ Len(seen[p]) <= MostCalls
    /\ pc[p] = "call" => Len(seen[p]) < MostCalls
    /\ pc[p] \in {"ensure_fresh", "reload"} \/ Refreshing(p) => Len(seen[p]) = 2

BudgetInv == \A p \in Proc : WithinBudget(p)

\* A reply sends the request to its next call only while the budget lasts.
LEMMA CallWithinBudget ==
    ASSUME Shape, NEW p \in Proc, WithinBudget(p), Call(p)
    PROVE  WithinBudget(p)'
<1> USE ClientAssumption
<1>1. PICK status \in Statuses(p) : Receive(p, status) /\ React(p, status)
  BY DEF Call
<1>2. /\ pc[p] = "call" /\ Len(seen[p]) \in Nat /\ Len(seen[p]) < MostCalls
      /\ Len(seen'[p]) = Len(seen[p]) + 1
  <2>1. status \in {"2xx", "401", "403", "429", "5xx"}
    BY <1>1 DEF Statuses
  <2>2. seen[p] \in Seq({"2xx", "401", "403", "429", "5xx"}) /\ seen'[p] = Append(seen[p], status)
    BY <1>1 DEF Shape, Receive
  <2>3. QED
    BY <2>1, <2>2 DEF Call, WithinBudget
<1>3. MostCalls \in Nat /\ MostCalls > MaxRetries /\ MostCalls >= 3
  BY DEF MostCalls
<1>4. CASE Goto(p, "call")
  <2>1. Len(seen[p]) + 1 = 1 \/ Len(seen[p]) < MaxRetries
    <3>1. CASE status = "401"
      BY <1>1, <1>4, <3>1 DEF React, Unauthorized, Goto, Finish, Attempt, Shape
    <3>2. CASE status = "429"
      BY <1>1, <1>4, <3>2 DEF React, RateLimited, ShouldRetry, Goto, Finish, Attempt, Shape
    <3>3. CASE status # "401" /\ status # "429"
      BY <1>1, <1>4, <3>3 DEF React, Goto, Finish, Shape
    <3>4. QED
      BY <3>1, <3>2, <3>3
  <2>2. pc'[p] = "call"
    BY <1>4 DEF Goto, Shape
  <2>3. QED
    BY <1>2, <1>3, <2>1, <2>2 DEF WithinBudget, Refreshing
<1>5. CASE Goto(p, "ensure_fresh")
  <2>1. Len(seen[p]) + 1 = 2
    <3>1. CASE status = "401"
      BY <1>1, <1>5, <3>1 DEF React, Unauthorized, Goto, Finish, Attempt, Shape
    <3>2. CASE status # "401"
      BY <1>1, <1>5, <3>2 DEF React, RateLimited, Goto, Finish, Shape
    <3>3. QED
      BY <3>1, <3>2
  <2>2. pc'[p] = "ensure_fresh"
    BY <1>5 DEF Goto, Shape
  <2>3. QED
    BY <1>2, <1>3, <2>1, <2>2 DEF WithinBudget, Refreshing
<1>6. CASE pc'[p] = "idle"
  BY <1>2, <1>3, <1>6 DEF WithinBudget, Refreshing
<1>7. QED
  <2>1. Goto(p, "call") \/ Goto(p, "ensure_fresh") \/ pc'[p] = "idle"
    BY <1>1 DEF React, Unauthorized, RateLimited, Finish, Shape
  <2>2. QED
    BY <2>1, <1>4, <1>5, <1>6

\* Every step keeps every process within its budget.
LEMMA NextBudgetInv ==
    ASSUME TypeOK, BudgetInv, [Next]_vars
    PROVE  BudgetInv'
<1> USE ClientAssumption DEF serverVars, requestVars, grantVars
<1>0. Shape /\ MostCalls \in Nat /\ MostCalls >= 3 /\ \A p \in Proc : WithinBudget(p)
  BY DEF TypeOK, MostCalls, BudgetInv
<1>1. CASE UNCHANGED vars
  BY <1>1 DEF vars, BudgetInv, WithinBudget, Refreshing
<1>2. CASE Tick
  BY <1>2 DEF Tick, BudgetInv, WithinBudget, Refreshing
<1>3. ASSUME NEW p \in Proc, Start(p) \/ Step(p) \/ Crash(p)
      PROVE  BudgetInv'
  <2>1. WithinBudget(p)'
    <3>1. CASE StartRequest(p)
      <4>1. CASE store.found
        <5>1. pc'[p] = "call" /\ seen'[p] = <<>>
          BY <1>0, <3>1, <4>1 DEF StartRequest, Goto, Shape
        <5>2. QED
          BY <1>0, <5>1 DEF WithinBudget, Refreshing
      <4>2. CASE ~store.found
        <5>1. pc'[p] = "idle" /\ seen' = seen
          BY <1>0, <3>1, <4>2 DEF StartRequest, Finish, Shape
        <5>2. QED
          BY <1>0, <5>1 DEF WithinBudget, Refreshing
      <4>3. QED
        BY <4>1, <4>2
    <3>2. CASE StartExchange(p) \/ StartInitialToken(p)
      <4>1. pc'[p] = "idle" \/ (pc'[p] = "post" /\ grant'[p] # "refresh_token")
        BY <1>0, <3>2 DEF StartExchange, StartInitialToken, Goto, Finish, Shape
      <4>2. seen' = seen
        BY <3>2 DEF StartExchange, StartInitialToken
      <4>3. QED
        BY <1>0, <4>1, <4>2 DEF WithinBudget, Refreshing
    <3>3. CASE Call(p)
      BY <1>0, <3>3, CallWithinBudget
    <3>4. CASE CallRaises(p) \/ Crash(p)
      <4>1. pc'[p] = "idle" /\ seen' = seen
        BY <1>0, <3>4 DEF CallRaises, Crash, Finish, Shape
      <4>2. QED
        BY <1>0, <4>1 DEF WithinBudget, Refreshing
    <3>5. CASE EnsureFreshToken(p)
      <4>1. pc[p] = "ensure_fresh" /\ pc'[p] \in {"reload", "post"} /\ seen' = seen
        BY <1>0, <3>5 DEF EnsureFreshToken, Goto, Shape
      <4>2. QED
        BY <1>0, <4>1 DEF WithinBudget, Refreshing
    <3>6. CASE ReloadCredentials(p)
      <4>1. pc[p] = "reload" /\ pc'[p] = "call" /\ seen' = seen
        BY <1>0, <3>6 DEF ReloadCredentials, Goto, Shape
      <4>2. Len(seen'[p]) = 2
        BY <1>0, <4>1 DEF WithinBudget
      <4>3. Len(seen'[p]) < MostCalls /\ Len(seen'[p]) <= MostCalls
        BY <1>0, <4>2
      <4>4. QED
        BY <4>1, <4>3 DEF WithinBudget, Refreshing
    <3>7. CASE Grant(p)
      <4>1. pc[p] = "post" /\ pc'[p] = "save" /\ seen' = seen /\ grant' = grant
        BY <1>0, <3>7 DEF Grant, Goto, Shape
      <4>2. QED
        BY <1>0, <4>1 DEF WithinBudget, Refreshing
    <3>8. CASE GrantRefused(p) \/ TokensNotSaved(p) \/ SaveTokens(p)
      <4>1. /\ pc[p] \in {"post", "save"} /\ seen' = seen
            /\ pc'[p] = "idle" \/ (grant[p] = "refresh_token" /\ pc'[p] = "reload")
        BY <1>0, <3>8 DEF GrantRefused, TokensNotSaved, SaveTokens, GrantRaises, Goto, Finish, Shape
      <4>2. QED
        BY <1>0, <4>1 DEF WithinBudget, Refreshing
    <3>9. CASE LoadRaises(p)
      <4>1. /\ pc[p] \in {"ensure_fresh", "reload"} /\ pc'[p] \in {"reload", "idle"}
            /\ seen' = seen
        BY <1>0, <3>9 DEF LoadRaises, Goto, Finish, Shape
      <4>2. QED
        BY <1>0, <4>1 DEF WithinBudget, Refreshing
    <3>10. QED
      BY <1>3, <3>1, <3>2, <3>3, <3>4, <3>5, <3>6, <3>7, <3>8, <3>9 DEF Start, Step
  <2>2. ASSUME NEW q \in Proc \ {p} PROVE WithinBudget(q)'
    <3>1. pc'[q] = pc[q] /\ seen'[q] = seen[q] /\ grant'[q] = grant[q]
      <4>1. pc'[q] = pc[q]
        BY <1>0, <1>3, Moves DEF Start, Step, Moved
      <4>2. CASE Start(p)
        BY <1>0, <4>1, <4>2 DEF Start, StartRequest, StartExchange, StartInitialToken, Shape
      <4>3. CASE Call(p)
        BY <1>0, <4>1, <4>3 DEF Call, Receive, Shape
      <4>4. CASE (Step(p) /\ ~Call(p)) \/ Crash(p)
        BY <1>0, <4>1, <4>4 DEF Step, CallRaises, EnsureFreshToken, ReloadCredentials, Grant,
           GrantRefused, SaveTokens, TokensNotSaved, LoadRaises, Crash, Shape
      <4>5. QED
        BY <1>3, <4>1, <4>2, <4>3, <4>4
    <3>2. QED
      BY <1>0, <3>1 DEF WithinBudget, Refreshing
  <2>3. QED
    BY <2>1, <2>2 DEF BudgetInv
<1>4. QED
  BY <1>1, <1>2, <1>3 DEF Next

\* A request makes a bounded number of HTTP calls, whatever mix of 401 and 429
\* it meets and whatever other processes do to the tokens.
THEOREM CallsAreBounded == Spec => []CallBudget
<1>1. Init => TypeOK
  BY InitTypeOK
<1>2. Init => BudgetInv
  <2>1. MostCalls \in Nat
    BY ClientAssumption DEF MostCalls
  <2>2. ASSUME Init, NEW p \in Proc PROVE pc[p] = "idle" /\ seen[p] = <<>>
    BY <2>2 DEF Init
  <2>3. Len(<<>>) = 0
    OBVIOUS
  <2>4. ASSUME Init, NEW p \in Proc PROVE WithinBudget(p)
    <3>1. pc[p] = "idle" /\ Len(seen[p]) = 0
      BY <2>2, <2>3, <2>4
    <3>2. 0 <= MostCalls
      BY <2>1
    <3>3. QED
      BY <3>1, <3>2 DEF WithinBudget, Refreshing
  <2>5. QED
    BY <2>4 DEF BudgetInv
<1>3. TypeOK /\ [Next]_vars => TypeOK'
  BY NextTypeOK
<1>4. TypeOK /\ BudgetInv /\ [Next]_vars => BudgetInv'
  BY NextBudgetInv
<1>5. BudgetInv => CallBudget
  BY DEF BudgetInv, WithinBudget, MostCalls, CallBudget
<1>6. QED
  BY <1>1, <1>2, <1>3, <1>4, <1>5, PTL DEF Spec
-----------------------------------------------------------------------------
\* The processes make requests only, and a refresh ends the old token's life.
RotatingRefreshes == RefreshInReply = {TRUE} /\ Operations = {"resource"}

\* Only one refresh token is alive.  A refresh that can still succeed, or has,
\* was decided on credentials that are still stored and close to expiry.
RefreshOfStored ==
    /\ \E t \in Nat : live = {t}
    /\ \A p \in Proc : pc[p] \in {"post", "save"} =>
          grant[p] = "refresh_token" /\ ~FarFromExpiry(loaded[p])
    /\ \A p \in Proc : pc[p] = "post" /\ loaded[p].refresh \in live => store = loaded[p]
    /\ \A p \in Proc : pc[p] = "save" =>
          /\ store = loaded[p]
          /\ reply[p].refresh # None /\ live = {reply[p].refresh}
          /\ \A q \in Proc \ {p} : pc[q] # "save"

\* The only grant that begins is a refresh of stored credentials.
LEMMA OnlyRefreshesBegin ==
    ASSUME RotatingRefreshes, TypeOK, NEW p \in Proc, Start(p) \/ Step(p) \/ Crash(p)
    PROVE  \/ Quiet(p)
           \/ EnsureFreshToken(p) /\ Moved(p, {"post"}) /\ ~FarFromExpiry(store)
           \/ Grant(p) /\ Moved(p, {"save"})
           \/ SaveTokens(p) /\ Moved(p, {"reload", "idle"})
<1> USE DEF TypeOK, serverVars, requestVars, grantVars
<1>1. CASE Start(p)
  <2>1. StartRequest(p)
    BY <1>1 DEF Start, StartExchange, StartInitialToken, RotatingRefreshes
  <2>2. QED
    BY <2>1, Moves DEF StartRequest, Quiet, Moved, Spent
<1>2. CASE Call(p) \/ CallRaises(p)
  BY <1>2, Moves DEF Call, CallRaises, Quiet, Moved, Spent
<1>3. CASE EnsureFreshToken(p)
  <2>1. CASE Usable(store) /\ ~FarFromExpiry(store)
    BY <1>3, <2>1, Moves
  <2>2. CASE ~(Usable(store) /\ ~FarFromExpiry(store))
    BY <1>3, <2>2, Moves DEF EnsureFreshToken, Quiet, Moved, Spent
  <2>3. QED
    BY <2>1, <2>2
<1>4. CASE ReloadCredentials(p) \/ GrantRefused(p) \/ LoadRaises(p)
  BY <1>4, Moves DEF ReloadCredentials, GrantRefused, LoadRaises, Quiet, Moved, Spent
<1>5. CASE TokensNotSaved(p) \/ Crash(p)
  BY <1>5, Moves DEF TokensNotSaved, Crash, Quiet, Moved
<1>6. CASE Grant(p) \/ SaveTokens(p)
  BY <1>6, Moves
<1>7. QED
  BY <1>1, <1>2, <1>3, <1>4, <1>5, <1>6 DEF Step

\* Every step keeps the invariant.
LEMMA NextRefreshOfStored ==
    ASSUME RotatingRefreshes, TypeOK, RefreshInv, RefreshOfStored, [Next]_vars
    PROVE  RefreshOfStored'
<1> USE ClientAssumption
<1>0. /\ Len(expiry) \in Nat /\ now \in Nat
      /\ \A p \in Proc : loaded[p].expires_at \in Nat
  BY DEF TypeOK, Shape, Credentials
<1>1. CASE UNCHANGED vars
  BY <1>1 DEF vars, serverVars, requestVars, grantVars, RefreshOfStored, FarFromExpiry
<1>2. CASE Tick
  <2>1. \A p \in Proc : ~FarFromExpiry(loaded[p]) => ~FarFromExpiry(loaded[p])'
    BY <1>0, <1>2 DEF Tick, FarFromExpiry, grantVars
  <2>2. QED
    BY <1>2, <2>1 DEF Tick, serverVars, requestVars, grantVars, RefreshOfStored
<1>3. ASSUME NEW p \in Proc, Quiet(p) PROVE RefreshOfStored'
  BY <1>3 DEF Quiet, Moved, serverVars, grantVars, RefreshOfStored, FarFromExpiry
<1>4. ASSUME NEW p \in Proc, EnsureFreshToken(p), Moved(p, {"post"}), ~FarFromExpiry(store)
      PROVE  RefreshOfStored'
  <2>1. /\ pc[p] = "ensure_fresh" /\ pc'[p] = "post"
        /\ \A q \in Proc \ {p} : pc'[q] = pc[q]
        /\ UNCHANGED <<now, store, live, reply>>
    BY <1>4 DEF EnsureFreshToken, Moved, serverVars
  <2>2. /\ loaded' = [loaded EXCEPT ![p] = store]
        /\ grant' = [grant EXCEPT ![p] = "refresh_token"]
    BY <1>4, <2>1 DEF EnsureFreshToken, Goto, TypeOK, Shape
  <2>3. /\ loaded'[p] = store /\ grant'[p] = "refresh_token"
        /\ \A q \in Proc \ {p} : loaded'[q] = loaded[q] /\ grant'[q] = grant[q]
    BY <2>2 DEF TypeOK, Shape
  <2>4. QED
    BY <1>4, <2>1, <2>3 DEF RefreshOfStored, FarFromExpiry
<1>5. ASSUME NEW p \in Proc, Grant(p), Moved(p, {"save"}) PROVE RefreshOfStored'
  <2> DEFINE n == Len(expiry) + 1
  <2>1. /\ pc[p] = "post" /\ pc'[p] = "save"
        /\ \A q \in Proc \ {p} : pc'[q] = pc[q]
        /\ UNCHANGED <<now, store, loaded, grant>>
    BY <1>5 DEF Grant, Moved
  <2>2. grant[p] = "refresh_token" /\ loaded[p].refresh \in live /\ store = loaded[p]
    BY <1>5, <2>1 DEF Grant, ServerAccepts, RefreshOfStored
  <2>3. /\ reply' = [reply EXCEPT ![p] = [access |-> n, refresh |-> n]]
        /\ live' = (live \ {loaded[p].refresh}) \union {n}
    BY <1>5, <2>2 DEF Grant, RotatingRefreshes
  <2>4. reply'[p].refresh = n /\ live' = {n} /\ n \in Nat /\ n # None
    <3>1. reply'[p].refresh = n
      BY <2>3 DEF TypeOK, Shape
    <3>2. live = {loaded[p].refresh}
      BY <2>2 DEF RefreshOfStored
    <3>3. QED
      BY <1>0, <2>3, <3>1, <3>2 DEF None
  <2>5. \A q \in Proc : loaded'[q].refresh \notin live'
    BY <1>0, <2>1, <2>4 DEF RefreshInv, Issued
  <2>6. \A q \in Proc \ {p} : pc[q] # "save"
    <3>1. ASSUME NEW q \in Proc, pc[q] = "save" PROVE FALSE
      <4>1. reply[q].refresh # None /\ live = {reply[q].refresh}
        BY <3>1 DEF RefreshOfStored
      <4>2. store.refresh # reply[q].refresh
        BY <3>1, <4>1 DEF RefreshInv, Unshared
      <4>3. QED
        BY <2>2, <4>1, <4>2
    <3>2. QED
      BY <3>1
  <2>7. QED
    BY <2>1, <2>2, <2>4, <2>5, <2>6 DEF RefreshOfStored, FarFromExpiry
<1>6. ASSUME NEW p \in Proc, SaveTokens(p), Moved(p, {"reload", "idle"}) PROVE RefreshOfStored'
  <2>1. /\ pc[p] = "save" /\ pc'[p] \notin {"post", "save"}
        /\ \A q \in Proc \ {p} : pc'[q] = pc[q]
        /\ UNCHANGED <<now, live, loaded, grant, reply>>
    BY <1>6 DEF SaveTokens, Moved, serverVars, grantVars
  <2>2. /\ reply[p].refresh # None /\ live = {reply[p].refresh}
        /\ \A q \in Proc \ {p} : pc[q] # "save"
    BY <2>1 DEF RefreshOfStored
  <2>3. \A q \in Proc : pc[q] = "post" => loaded[q].refresh \notin live
    <3>1. \A q \in Proc : pc[q] = "post" => Refreshing(q)
      BY DEF RefreshOfStored, Refreshing
    <3>2. QED
      BY <2>1, <2>2, <3>1 DEF RefreshInv, Unshared
  <2>4. QED
    BY <2>1, <2>2, <2>3 DEF RefreshOfStored, FarFromExpiry
<1>7. QED
  BY <1>1, <1>2, <1>3, <1>4, <1>5, <1>6, OnlyRefreshesBegin DEF Next

\* With a server that rotates refresh tokens, no refresh replaces stored
\* credentials that are still far from expiry, however many processes refresh
\* at once: a refresh they had decided on before is refused.
THEOREM FreshStayFresh ==
    ASSUME RotatingRefreshes
    PROVE  Spec => FreshTokensAreKept
<1>0. UniformReplies
  BY DEF RotatingRefreshes, UniformReplies
<1>1. Init => TypeOK /\ RefreshInv
  BY InitTypeOK, InitRefreshInv
<1>2. Init => RefreshOfStored
  BY DEF Init, RefreshOfStored
<1>3. TypeOK /\ [Next]_vars => TypeOK'
  BY NextTypeOK
<1>4. TypeOK /\ RefreshInv /\ [Next]_vars => RefreshInv'
  BY <1>0, NextRefreshInv
<1>5. TypeOK /\ RefreshInv /\ RefreshOfStored /\ [Next]_vars => RefreshOfStored'
  BY NextRefreshOfStored
<1>6. TypeOK /\ RefreshOfStored /\ [Next]_vars =>
        [store.found /\ store.expires_at >= now + Threshold => store' = store]_vars
  <2> SUFFICES ASSUME TypeOK, RefreshOfStored, Next, FarFromExpiry(store)
               PROVE  store' = store
    BY DEF FarFromExpiry
  <2>1. CASE Tick
    BY <2>1 DEF Tick
  <2>2. ASSUME NEW p \in Proc, Start(p) \/ Step(p) \/ Crash(p) PROVE store' = store
    <3>1. ~SaveTokens(p)
      BY DEF SaveTokens, RefreshOfStored
    <3>2. QED
      BY <2>2, <3>1, OnlyRefreshesBegin DEF Quiet, EnsureFreshToken, Grant
  <2>3. QED
    BY <2>1, <2>2 DEF Next
<1>7. QED
  BY <1>1, <1>2, <1>3, <1>4, <1>5, <1>6, PTL DEF Spec, FreshTokensAreKept
=============================================================================
