---------------------------- MODULE BackendsProofs ----------------------------
(***************************************************************************)
(* For every set of environments and keys and every number of days: both   *)
(* credential adapters implement SecretsPort, stored tokens are not        *)
(* replaced by initial ones, no process starts work in an incomplete       *)
(* environment, and exit code 0 means that every day is logged.            *)
(*                                                                         *)
(* IInv is the inductive invariant: what each stage of a process has set   *)
(* up, where each granted token is, and which rows the days before the     *)
(* present one have left.                                                  *)
(***************************************************************************)
EXTENDS Backends, TLAPS

\* No adapter before its factory has returned, none but the one it returns.
Staged ==
    /\ pc \in {"none", "secrets_factory"} => secrets = "none"
    /\ pc \in {"none", "secrets_factory", "logs_factory"} => logs = "none"
    /\ pc \notin {"none", "secrets_factory", "exit"} => secrets # "none"
    /\ pc \notin {"none", "secrets_factory", "logs_factory", "exit"} => logs # "none"
    /\ secrets # "none" => secrets = SecretsAdapter
    /\ logs # "none" => logs = LogsAdapter /\ secrets # "none"
    /\ logs = "none" =>
          /\ plain = NoToken /\ blob = NoBlob /\ answer = NoToken
          /\ tokens = 0 /\ lost = 0 /\ rows = NoRows

\* A granted token is stored, lost, or about to be saved.
Accounted ==
    /\ Held = NoToken /\ pc # "save" => tokens = lost
    /\ pc = "save" => Held = NoToken /\ tokens = lost + 1
    /\ pc = "grant" => Held = NoToken
    /\ pc = "refresh_save" => Held # NoToken /\ lost < tokens

\* The days gone by have their rows, unless one of them failed.
Logged ==
    /\ pc = "none" => day = 1
    /\ pc # "exit" => exit = "none"
    /\ ~failed => \A d \in 1..last : d < day => rows[d] = "SUCCESS"
    /\ exit = "zero" => \A d \in 1..last : rows[d] = "SUCCESS"

IInv == TypeOK /\ Staged /\ Accounted /\ Logged

-----------------------------------------------------------------------------
LEMMA Bounds == Days \in Nat /\ Days >= 1 /\ MaxTokens \in Nat /\ MaxTokens >= 1
  BY BackendsAssumption

LEMMA EnvironmentType ==
    ASSUME ProcessOK
    PROVE  /\ env.kms_key_id \in Key \union {NoKey}
           /\ SecretsAdapter = "kms" => env.kms_key_id \in Key
           /\ SecretsAdapter \in {"none", "memory", "kms"}
           /\ LogsAdapter \in {"none", "memory", "sqlite", "postgres"}
  BY BackendsAssumption DEF ProcessOK, SecretsAdapter, LogsAdapter

\* What a load answers, in terms of what is held.
LEMMA LoadedType ==
    ASSUME CredentialsOK
    PROVE  /\ Loaded \in Token \union {NotFound, Raised}
           /\ Loaded \in {NotFound, Raised} \/ Loaded = Held
           /\ Loaded = NotFound <=> Held = NoToken
  <1>1. NoToken \notin Token /\ NotFound \notin Token /\ Raised \notin Token
    BY BackendsAssumption DEF Token
  <1>2. CASE secrets = "memory"
    BY <1>1, <1>2, BackendsAssumption DEF CredentialsOK, Loaded, Held
  <1>3. CASE secrets # "memory" /\ blob = NoBlob
    BY <1>1, <1>3, BackendsAssumption DEF Loaded, Held, NoBlob
  <1>4. CASE secrets # "memory" /\ blob # NoBlob
    <2>1. blob.token \in Token
      BY <1>4 DEF CredentialsOK
    <2>2. Loaded = Decrypt /\ Held = blob.token
      BY <1>4 DEF Loaded, Held
    <2> QED
      BY <2>1, <2>2, <1>1, BackendsAssumption DEF Decrypt
  <1> QED
    BY <1>2, <1>3, <1>4

LEMMA InitIInv == Init => IInv
  <1> SUFFICES ASSUME Init PROVE IInv
    OBVIOUS
  <1>1. ProcessOK
    BY DEF Init, ProcessOK, Labels
  <1>2. CredentialsOK
    BY Bounds DEF Init, CredentialsOK
  <1>3. DaysOK
    <2>1. day \in 1..last /\ last \in 1..Days
      BY Bounds DEF Init
    <2>2. rows \in [1..Days -> {"NONE", "STARTED", "SUCCESS", "FAILED"}]
      BY DEF Init, NoRows
    <2> QED
      BY <2>1, <2>2, Zenon DEF Init, DaysOK
  <1>4. Staged
    BY DEF Init, Staged
  <1>5. Accounted
    BY DEF Init, Accounted, Held, NoBlob
  <1>6. Logged
    BY DEF Init, Logged
  <1> QED
    BY <1>1, <1>2, <1>3, <1>4, <1>5, <1>6 DEF IInv, TypeOK

(***************************************************************************)
(* The steps of a process                                                  *)
(***************************************************************************)
LEMMA EndDayType ==
    ASSUME DaysOK, NEW ok \in BOOLEAN, EndDay(ok), last' = last
    PROVE  day' \in 1..last' /\ failed' \in BOOLEAN
  <1>1. day \in 1..last /\ last \in 1..Days /\ Days \in Nat
    BY Bounds DEF DaysOK
  <1>2. day' \in 1..last'
    BY <1>1 DEF EndDay
  <1>3. failed' \in BOOLEAN
    BY Zenon DEF EndDay
  <1> QED
    BY <1>2, <1>3

LEMMA NextIInv == IInv /\ [Next]_vars => IInv'
  <1> SUFFICES ASSUME ProcessOK, CredentialsOK, DaysOK, Staged, Accounted, Logged,
                      [Next]_vars
               PROVE  IInv'
    BY DEF IInv, TypeOK
  <1>A. /\ SecretsAdapter \in {"none", "memory", "kms"}
        /\ LogsAdapter \in {"none", "memory", "sqlite", "postgres"}
        /\ SecretsAdapter = "kms" => env.kms_key_id \in Key
    BY EnvironmentType
  <1>B. /\ Loaded \in Token \union {NotFound, Raised}
        /\ Loaded \in {NotFound, Raised} \/ Loaded = Held
        /\ Loaded = NotFound <=> Held = NoToken
    BY LoadedType
  <1>C. tokens \in 0..MaxTokens /\ lost \in 0..tokens
    BY DEF CredentialsOK
  <1>D. day \in 1..last /\ last \in 1..Days
    BY DEF DaysOK
  <1>E. NoToken \notin Token /\ NotFound \notin Token /\ Raised \notin Token
    BY BackendsAssumption DEF Token
  <1>1. CASE Launch
    <2>1. ProcessOK'
      BY <1>1, <1>A DEF Launch, ProcessOK, Labels, credVars, dayVars, Goto
    <2>2. CredentialsOK'
      BY <1>1, <1>B DEF Launch, CredentialsOK, credVars, dayVars, Goto
    <2>3. DaysOK'
      BY <1>1, <1>D, Bounds DEF Launch, DaysOK, Logged, NoRows, credVars, dayVars, Goto
    <2>4. Staged'
      BY <1>1, <1>A, <1>E DEF Launch, Staged, SecretsAdapter, LogsAdapter, credVars, dayVars, Goto
    <2>5. Accounted'
      BY <1>1, <1>B, <1>C, <1>E DEF Launch, Accounted, Staged, Held, NoBlob, Token, credVars, dayVars, Goto
    <2>6. Logged'
      BY <1>1, <1>D, Bounds DEF Launch, Logged, DaysOK, credVars, dayVars, Goto
    <2> QED
      BY <2>1, <2>2, <2>3, <2>4, <2>5, <2>6 DEF IInv, TypeOK
  <1>2. CASE SecretsFactory
    <2>1. ProcessOK'
      BY <1>2, <1>A DEF SecretsFactory, ConfigError, ProcessOK, Labels, credVars, dayVars, Goto
    <2>2. CredentialsOK'
      BY <1>2, <1>B DEF SecretsFactory, ConfigError, CredentialsOK, credVars, dayVars, Goto
    <2>3. DaysOK'
      BY <1>2, <1>D, Bounds DEF SecretsFactory, ConfigError, DaysOK, Logged, NoRows, credVars, dayVars, Goto
    <2>4. Staged'
      BY <1>2, <1>A, <1>E DEF SecretsFactory, ConfigError, Staged, SecretsAdapter, LogsAdapter, credVars, dayVars, Goto
    <2>5. Accounted'
      BY <1>2, <1>B, <1>C, <1>E DEF SecretsFactory, ConfigError, Accounted, Staged, Held, NoBlob, Token, credVars, dayVars, Goto
    <2>6. Logged'
      BY <1>2, <1>D, Bounds DEF SecretsFactory, ConfigError, Logged, DaysOK, credVars, dayVars, Goto
    <2> QED
      BY <2>1, <2>2, <2>3, <2>4, <2>5, <2>6 DEF IInv, TypeOK
  <1>3. CASE LogsFactory
    <2>1. ProcessOK'
      BY <1>3, <1>A DEF LogsFactory, ConfigError, ProcessOK, Labels, credVars, dayVars, Goto
    <2>2. CredentialsOK'
      BY <1>3, <1>B DEF LogsFactory, ConfigError, CredentialsOK, credVars, dayVars, Goto
    <2>3. DaysOK'
      BY <1>3, <1>D, Bounds DEF LogsFactory, ConfigError, DaysOK, Logged, NoRows, credVars, dayVars, Goto
    <2>4. Staged'
      BY <1>3, <1>A, <1>E DEF LogsFactory, ConfigError, Staged, SecretsAdapter, LogsAdapter, credVars, dayVars, Goto
    <2>5. Accounted'
      BY <1>3, <1>B, <1>C, <1>E DEF LogsFactory, ConfigError, Accounted, Staged, Held, NoBlob, Token, credVars, dayVars, Goto
    <2>6. Logged'
      BY <1>3, <1>D, Bounds DEF LogsFactory, ConfigError, Logged, DaysOK, credVars, dayVars, Goto
    <2> QED
      BY <2>1, <2>2, <2>3, <2>4, <2>5, <2>6 DEF IInv, TypeOK
  <1>4. CASE LoadCredentials
    <2>1. ProcessOK'
      BY <1>4, <1>A DEF LoadCredentials, EndDay, Bootstraps, ProcessOK, Labels, credVars, dayVars, Goto
    <2>2. CredentialsOK'
      BY <1>4, <1>B DEF LoadCredentials, EndDay, Bootstraps, CredentialsOK, credVars, dayVars, Goto
    <2>3. DaysOK'
      <3>1. EndDay(FALSE) \/ UNCHANGED <<day, failed>>
        BY <1>4 DEF LoadCredentials
      <3>2. UNCHANGED <<last, rows>>
        BY <1>4 DEF LoadCredentials
      <3>3. day' \in 1..last' /\ failed' \in BOOLEAN
        BY <3>1, <3>2, EndDayType, Zenon DEF DaysOK
      <3> QED
        BY <3>2, <3>3 DEF DaysOK
    <2>4. Staged'
      BY <1>4, <1>A, <1>E DEF LoadCredentials, EndDay, Bootstraps, Staged, SecretsAdapter, LogsAdapter, credVars, dayVars, Goto
    <2>5. Accounted'
      BY <1>4, <1>B, <1>C, <1>E DEF LoadCredentials, EndDay, Bootstraps, Accounted, Staged, Held, NoBlob, Token, credVars, dayVars, Goto
    <2>6. Logged'
      BY <1>4, <1>D, Bounds DEF LoadCredentials, EndDay, Bootstraps, Logged, DaysOK, credVars, dayVars, Goto
    <2> QED
      BY <2>1, <2>2, <2>3, <2>4, <2>5, <2>6 DEF IInv, TypeOK
  <1>5. CASE RequestInitialToken
    <2>1. ProcessOK'
      BY <1>5, <1>A DEF RequestInitialToken, EndDay, ProcessOK, Labels, credVars, dayVars, Goto
    <2>2. CredentialsOK'
      BY <1>5, <1>A, <1>B, <1>C, Bounds DEF RequestInitialToken, EndDay, CredentialsOK, Token, credVars, dayVars, Goto
    <2>3. DaysOK'
      <3>1. EndDay(FALSE) \/ UNCHANGED <<day, failed>>
        BY <1>5 DEF RequestInitialToken
      <3>2. UNCHANGED <<last, rows>>
        BY <1>5 DEF RequestInitialToken
      <3>3. day' \in 1..last' /\ failed' \in BOOLEAN
        BY <3>1, <3>2, EndDayType, Zenon DEF DaysOK
      <3> QED
        BY <3>2, <3>3 DEF DaysOK
    <2>4. Staged'
      BY <1>5, <1>A, <1>E DEF RequestInitialToken, EndDay, Staged, SecretsAdapter, LogsAdapter, credVars, dayVars, Goto
    <2>5. Accounted'
      BY <1>5, <1>B, <1>C, <1>E DEF RequestInitialToken, EndDay, Accounted, Staged, Held, NoBlob, Token, credVars, dayVars, Goto
    <2>6. Logged'
      BY <1>5, <1>D, Bounds DEF RequestInitialToken, EndDay, Logged, DaysOK, credVars, dayVars, Goto
    <2> QED
      BY <2>1, <2>2, <2>3, <2>4, <2>5, <2>6 DEF IInv, TypeOK
  <1>6. CASE SaveInitialToken
    <2>1. ProcessOK'
      BY <1>6, <1>A DEF SaveInitialToken, EndDay, Save, ProcessOK, Labels, credVars, dayVars, Goto
    <2>2. CredentialsOK'
      <3>1. pc = "save" /\ UNCHANGED <<enabled, tokens>>
        BY <1>6 DEF SaveInitialToken
      <3>2. tokens \in Token /\ lost < tokens
        BY <3>1, <1>C, Bounds DEF Accounted, Token
      <3>3. secrets = "memory" \/ env.kms_key_id \in Key
        BY <3>1, <1>A DEF Staged
      <3>4. plain' \in Token \union {NoToken} /\ blob' \in [cmk : Key, token : Token] \union {NoBlob}
        <4>1. Save(tokens) \/ UNCHANGED <<plain, blob>>
          BY <1>6 DEF SaveInitialToken
        <4> QED
          BY <4>1, <3>2, <3>3 DEF Save, CredentialsOK
      <3>5. lost' \in 0..tokens' /\ answer' \in Token \union {NoToken, NotFound, Raised}
        <4>1. \/ lost' = lost /\ answer' = NoToken
              \/ lost' = lost + 1 /\ answer' = answer
          BY <1>6 DEF SaveInitialToken, Save
        <4> QED
          BY <4>1, <3>1, <3>2, <1>C DEF CredentialsOK
      <3> QED
        BY <3>1, <3>4, <3>5, <1>C DEF CredentialsOK
    <2>3. DaysOK'
      <3>1. EndDay(FALSE) \/ UNCHANGED <<day, failed>>
        BY <1>6 DEF SaveInitialToken
      <3>2. UNCHANGED <<last, rows>>
        BY <1>6 DEF SaveInitialToken
      <3>3. day' \in 1..last' /\ failed' \in BOOLEAN
        BY <3>1, <3>2, EndDayType, Zenon DEF DaysOK
      <3> QED
        BY <3>2, <3>3 DEF DaysOK
    <2>4. Staged'
      BY <1>6, <1>A, <1>E DEF SaveInitialToken, EndDay, Save, Staged, SecretsAdapter, LogsAdapter, credVars, dayVars, Goto
    <2>5. Accounted'
      BY <1>6, <1>B, <1>C, <1>E DEF SaveInitialToken, EndDay, Save, Accounted, Staged, Held, NoBlob, Token, credVars, dayVars, Goto
    <2>6. Logged'
      BY <1>6, <1>D, Bounds DEF SaveInitialToken, EndDay, Save, Logged, DaysOK, credVars, dayVars, Goto
    <2> QED
      BY <2>1, <2>2, <2>3, <2>4, <2>5, <2>6 DEF IInv, TypeOK
  <1>7. CASE InsertStarted
    <2>1. ProcessOK'
      BY <1>7, <1>A DEF InsertStarted, ProcessOK, Labels, credVars, dayVars, Goto
    <2>2. CredentialsOK'
      BY <1>7, <1>B DEF InsertStarted, CredentialsOK, credVars, dayVars, Goto
    <2>3. DaysOK'
      BY <1>7, <1>D, Bounds DEF InsertStarted, DaysOK, Logged, NoRows, credVars, dayVars, Goto
    <2>4. Staged'
      BY <1>7, <1>A, <1>E DEF InsertStarted, Staged, SecretsAdapter, LogsAdapter, credVars, dayVars, Goto
    <2>5. Accounted'
      BY <1>7, <1>B, <1>C, <1>E DEF InsertStarted, Accounted, Staged, Held, NoBlob, Token, credVars, dayVars, Goto
    <2>6. Logged'
      BY <1>7, <1>D, Bounds DEF InsertStarted, Logged, DaysOK, credVars, dayVars, Goto
    <2> QED
      BY <2>1, <2>2, <2>3, <2>4, <2>5, <2>6 DEF IInv, TypeOK
  <1>8. CASE Refresh
    <2>1. ProcessOK'
      BY <1>8, <1>A DEF Refresh, ProcessOK, Labels, credVars, dayVars, Goto
    <2>2. CredentialsOK'
      BY <1>8, <1>A, <1>B, <1>C, Bounds DEF Refresh, CredentialsOK, Token, credVars, dayVars, Goto
    <2>3. DaysOK'
      BY <1>8, <1>D, Bounds DEF Refresh, DaysOK, Logged, NoRows, credVars, dayVars, Goto
    <2>4. Staged'
      BY <1>8, <1>A, <1>E DEF Refresh, Staged, SecretsAdapter, LogsAdapter, credVars, dayVars, Goto
    <2>5. Accounted'
      BY <1>8, <1>B, <1>C, <1>E DEF Refresh, Accounted, Staged, Held, NoBlob, Token, credVars, dayVars, Goto
    <2>6. Logged'
      BY <1>8, <1>D, Bounds DEF Refresh, Logged, DaysOK, credVars, dayVars, Goto
    <2> QED
      BY <2>1, <2>2, <2>3, <2>4, <2>5, <2>6 DEF IInv, TypeOK
  <1>9. CASE SaveRefreshed
    <2>1. ProcessOK'
      BY <1>9, <1>A DEF SaveRefreshed, Save, ProcessOK, Labels, credVars, dayVars, Goto
    <2>2. CredentialsOK'
      <3>1. pc = "refresh_save" /\ UNCHANGED <<enabled, tokens>>
        BY <1>9 DEF SaveRefreshed
      <3>2. tokens \in Token /\ lost < tokens
        BY <3>1, <1>C, Bounds DEF Accounted, Token
      <3>3. secrets = "memory" \/ env.kms_key_id \in Key
        BY <3>1, <1>A DEF Staged
      <3>4. plain' \in Token \union {NoToken} /\ blob' \in [cmk : Key, token : Token] \union {NoBlob}
        BY <1>9, <3>2, <3>3 DEF SaveRefreshed, Save, CredentialsOK
      <3>5. lost' \in 0..tokens' /\ answer' \in Token \union {NoToken, NotFound, Raised}
        BY <1>9, <3>1, <3>2, <1>C DEF SaveRefreshed, Save, CredentialsOK
      <3> QED
        BY <3>1, <3>4, <3>5, <1>C DEF CredentialsOK
    <2>3. DaysOK'
      BY <1>9, <1>D, Bounds DEF SaveRefreshed, Save, DaysOK, Logged, NoRows, credVars, dayVars, Goto
    <2>4. Staged'
      BY <1>9, <1>A, <1>E DEF SaveRefreshed, Save, Staged, SecretsAdapter, LogsAdapter, credVars, dayVars, Goto
    <2>5. Accounted'
      BY <1>9, <1>B, <1>C, <1>E DEF SaveRefreshed, Save, Accounted, Staged, Held, NoBlob, Token, credVars, dayVars, Goto
    <2>6. Logged'
      BY <1>9, <1>D, Bounds DEF SaveRefreshed, Save, Logged, DaysOK, credVars, dayVars, Goto
    <2> QED
      BY <2>1, <2>2, <2>3, <2>4, <2>5, <2>6 DEF IInv, TypeOK
  <1>10. CASE Work
    <2>1. ProcessOK'
      BY <1>10, <1>A DEF Work, ProcessOK, Labels, credVars, dayVars, Goto
    <2>2. CredentialsOK'
      BY <1>10, <1>A, <1>B, <1>C, Bounds DEF Work, CredentialsOK, Token, credVars, dayVars, Goto
    <2>3. DaysOK'
      BY <1>10, <1>D, Bounds DEF Work, DaysOK, Logged, NoRows, credVars, dayVars, Goto
    <2>4. Staged'
      BY <1>10, <1>A, <1>E DEF Work, Staged, SecretsAdapter, LogsAdapter, credVars, dayVars, Goto
    <2>5. Accounted'
      BY <1>10, <1>B, <1>C, <1>E DEF Work, Accounted, Staged, Held, NoBlob, Token, credVars, dayVars, Goto
    <2>6. Logged'
      BY <1>10, <1>D, Bounds DEF Work, Logged, DaysOK, credVars, dayVars, Goto
    <2> QED
      BY <2>1, <2>2, <2>3, <2>4, <2>5, <2>6 DEF IInv, TypeOK
  <1>11. CASE MarkSuccess
    <2>1. ProcessOK'
      BY <1>11, <1>A DEF MarkSuccess, EndDay, ProcessOK, Labels, credVars, dayVars, Goto
    <2>2. CredentialsOK'
      BY <1>11, <1>B DEF MarkSuccess, EndDay, CredentialsOK, credVars, dayVars, Goto
    <2>3. DaysOK'
      BY <1>11, <1>D, Bounds DEF MarkSuccess, EndDay, DaysOK, Logged, NoRows, credVars, dayVars, Goto
    <2>4. Staged'
      BY <1>11, <1>A, <1>E DEF MarkSuccess, EndDay, Staged, SecretsAdapter, LogsAdapter, credVars, dayVars, Goto
    <2>5. Accounted'
      BY <1>11, <1>B, <1>C, <1>E DEF MarkSuccess, EndDay, Accounted, Staged, Held, NoBlob, Token, credVars, dayVars, Goto
    <2>6. Logged'
      BY <1>11, <1>D, Bounds DEF MarkSuccess, EndDay, Logged, DaysOK, credVars, dayVars, Goto
    <2> QED
      BY <2>1, <2>2, <2>3, <2>4, <2>5, <2>6 DEF IInv, TypeOK
  <1>12. CASE MarkFailure
    <2>1. ProcessOK'
      BY <1>12, <1>A DEF MarkFailure, EndDay, ProcessOK, Labels, credVars, dayVars, Goto
    <2>2. CredentialsOK'
      BY <1>12, <1>B DEF MarkFailure, EndDay, CredentialsOK, credVars, dayVars, Goto
    <2>3. DaysOK'
      BY <1>12, <1>D, Bounds DEF MarkFailure, EndDay, DaysOK, Logged, NoRows, credVars, dayVars, Goto
    <2>4. Staged'
      BY <1>12, <1>A, <1>E DEF MarkFailure, EndDay, Staged, SecretsAdapter, LogsAdapter, credVars, dayVars, Goto
    <2>5. Accounted'
      BY <1>12, <1>B, <1>C, <1>E DEF MarkFailure, EndDay, Accounted, Staged, Held, NoBlob, Token, credVars, dayVars, Goto
    <2>6. Logged'
      BY <1>12, <1>D, Bounds DEF MarkFailure, EndDay, Logged, DaysOK, credVars, dayVars, Goto
    <2> QED
      BY <2>1, <2>2, <2>3, <2>4, <2>5, <2>6 DEF IInv, TypeOK
  <1>13. CASE ToggleKey
    <2>1. ProcessOK'
      BY <1>13, <1>A DEF ToggleKey, ProcessOK, Labels, credVars, dayVars, Goto
    <2>2. CredentialsOK'
      BY <1>13, <1>B DEF ToggleKey, CredentialsOK, credVars, dayVars, Goto
    <2>3. DaysOK'
      BY <1>13, <1>D, Bounds DEF ToggleKey, DaysOK, Logged, NoRows, credVars, dayVars, Goto
    <2>4. Staged'
      BY <1>13, <1>A, <1>E DEF ToggleKey, Staged, SecretsAdapter, LogsAdapter, credVars, dayVars, Goto
    <2>5. Accounted'
      BY <1>13, <1>B, <1>C, <1>E DEF ToggleKey, Accounted, Staged, Held, NoBlob, Token, credVars, dayVars, Goto
    <2>6. Logged'
      BY <1>13, <1>D, Bounds DEF ToggleKey, Logged, DaysOK, credVars, dayVars, Goto
    <2> QED
      BY <2>1, <2>2, <2>3, <2>4, <2>5, <2>6 DEF IInv, TypeOK
  <1>14. CASE Exit \/ Kill
    <2>1. ProcessOK'
      BY <1>14, Bounds DEF Exit, Kill, Gone, ProcessOK, Labels, NoRows, Held, NoBlob, credVars, dayVars, Goto
    <2>2. CredentialsOK'
      BY <1>14, Bounds DEF Exit, Kill, Gone, CredentialsOK, Labels, NoRows, Held, NoBlob, credVars, dayVars, Goto
    <2>3. DaysOK'
      <3>1. day' \in 1..last' /\ last' \in 1..Days
        BY <1>14, Bounds DEF Exit, Kill, Gone
      <3>2. rows' \in [1..Days -> {"NONE", "STARTED", "SUCCESS", "FAILED"}]
        BY <1>14 DEF Exit, Kill, Gone, NoRows
      <3>3. failed' \in BOOLEAN
        BY <1>14, Zenon DEF Exit, Kill, Gone
      <3> QED
        BY <3>1, <3>2, <3>3 DEF DaysOK
    <2>4. Staged'
      BY <1>14, Bounds DEF Exit, Kill, Gone, Staged, Labels, NoRows, Held, NoBlob, credVars, dayVars, Goto
    <2>5. Accounted'
      BY <1>14, Bounds DEF Exit, Kill, Gone, Accounted, Labels, NoRows, Held, NoBlob, credVars, dayVars, Goto
    <2>6. Logged'
      BY <1>14, Bounds DEF Exit, Kill, Gone, Logged, Labels, NoRows, Held, NoBlob, credVars, dayVars, Goto
    <2> QED
      BY <2>1, <2>2, <2>3, <2>4, <2>5, <2>6 DEF IInv, TypeOK
  <1>15. CASE UNCHANGED vars
    <2>1. ProcessOK'
      BY <1>15 DEF vars, credVars, dayVars, Goto, ProcessOK
    <2>2. CredentialsOK'
      BY <1>15 DEF vars, credVars, dayVars, Goto, CredentialsOK
    <2>3. DaysOK'
      BY <1>15 DEF vars, credVars, dayVars, Goto, DaysOK
    <2>4. Staged'
      BY <1>15 DEF vars, credVars, dayVars, Goto, Staged, SecretsAdapter, LogsAdapter
    <2>5. Accounted'
      BY <1>15 DEF vars, credVars, dayVars, Goto, Accounted, Held
    <2>6. Logged'
      BY <1>15 DEF vars, credVars, dayVars, Goto, Logged
    <2> QED
      BY <2>1, <2>2, <2>3, <2>4, <2>5, <2>6 DEF IInv, TypeOK
  <1> QED
    BY <1>1, <1>2, <1>3, <1>4, <1>5, <1>6, <1>7, <1>8, <1>9, <1>10, <1>11, <1>12, <1>13, <1>14, <1>15 DEF Next, Step

LEMMA IInvariance == Spec => []IInv
  BY InitIInv, NextIInv, PTL DEF Spec

(***************************************************************************)
(* Theorems                                                                *)
(***************************************************************************)
\* Type correctness, for every environment, key and number of days: no process
\* of run-bronze goes past its last day.
THEOREM TypeCorrect == Spec => []TypeOK
  <1>1. IInv => TypeOK
    BY DEF IInv
  <1> QED
    BY <1>1, IInvariance, PTL

\* Stored tokens are never replaced by initial ones, however often KMS comes
\* and goes: bootstrap_credentials is reached with nothing in the store.
THEOREM NoSecondBootstrap == Spec => []BootstrapsOnce
  <1>1. IInv => BootstrapsOnce
    BY DEF IInv, TypeOK, CredentialsOK, Accounted, BootstrapsOnce
  <1> QED
    BY <1>1, IInvariance, PTL

\* The factories of common/config.py refuse an incomplete environment before
\* anything is asked of Otter or written to a log.
THEOREM FailsFast == Spec => []FailFast
  <1>1. IInv => FailFast
    <2> SUFFICES ASSUME IInv, tokens > 0 \/ rows # NoRows PROVE FailFast
      BY DEF FailFast
    <2>1. logs # "none" /\ secrets # "none"
      BY DEF IInv, Staged
    <2>2. SecretsAdapter # "none" /\ LogsAdapter # "none"
      BY <2>1 DEF IInv, Staged
    <2> QED
      BY <2>2 DEF FailFast, SecretsAdapter, LogsAdapter
  <1> QED
    BY <1>1, IInvariance, PTL

\* A run-bronze process that exits with 0 has logged every one of its days as
\* SUCCESS.
THEOREM ZeroIsLogged == Spec => []ExitZeroIsLogged
  <1>1. IInv => ExitZeroIsLogged
    BY DEF IInv, Logged, ExitZeroIsLogged
  <1> QED
    BY <1>1, IInvariance, PTL

LEMMA StepImplementsPort == IInv /\ [Next]_vars => [Port!Next]_<<Held, answer>>
  <1> SUFFICES ASSUME IInv, [Next]_vars
               PROVE  Port!Next \/ UNCHANGED <<Held, answer>>
    OBVIOUS
  <1> USE DEF Port!Next, Port!Save, Port!Load, Port!Found, Port!Close
  <1>1. CASE LoadCredentials \/ Refresh \/ Work
    <2>1. Loaded \in {NotFound, Raised} \/ Loaded = Held
      BY LoadedType DEF IInv, TypeOK
    <2>2. Loaded = NotFound <=> Held = NoToken
      BY LoadedType DEF IInv, TypeOK
    <2>3. answer' = Loaded /\ Held' = Held
      BY <1>1 DEF LoadCredentials, Refresh, Work, Held, dayVars
    <2> QED
      BY <2>1, <2>2, <2>3
  <1>2. CASE SaveInitialToken \/ SaveRefreshed
    <2>1. tokens \in Token /\ secrets' = secrets
      <3>1. lost < tokens /\ secrets' = secrets
        <4>1. pc \in {"save", "refresh_save"} /\ secrets' = secrets
          BY <1>2 DEF SaveInitialToken, SaveRefreshed
        <4>2. tokens \in 0..MaxTokens /\ lost \in 0..tokens
          BY DEF IInv, TypeOK, CredentialsOK
        <4> QED
          BY <4>1, <4>2, Bounds DEF IInv, Accounted
      <3> QED
        BY <3>1, Bounds DEF IInv, TypeOK, CredentialsOK, Token
    <2>2. CASE Save(tokens)
      <3>1. Held' = tokens /\ answer' = NoToken
        BY <2>1, <2>2 DEF Save, Held
      <3> QED
        BY <3>1, <2>1
    <2>3. CASE UNCHANGED <<plain, blob, answer>>
      BY <2>1, <2>3 DEF Held
    <2> QED
      BY <1>2, <2>2, <2>3 DEF SaveInitialToken, SaveRefreshed
  <1>3. CASE Exit \/ Kill
    BY <1>3 DEF Exit, Kill, Gone, Held, NoBlob
  <1>4. CASE SecretsFactory
    BY <1>4 DEF SecretsFactory, credVars, Held, IInv, Staged, NoBlob
  <1>5. CASE Launch \/ LogsFactory \/ RequestInitialToken \/ InsertStarted
             \/ MarkSuccess \/ MarkFailure \/ ToggleKey \/ UNCHANGED vars
    BY <1>5
    DEF Launch, LogsFactory, ConfigError, RequestInitialToken, InsertStarted,
        MarkSuccess, MarkFailure, ToggleKey, vars, credVars, Held
  <1> QED
    BY <1>1, <1>2, <1>3, <1>4, <1>5 DEF Next, Step

\* InMemorySecrets and KMSSecrets implement SecretsPort: a KMS that is out of
\* reach never makes a load answer with anything but an exception.
THEOREM ImplementsSecretsPort == Spec => PortSpec
  <1>1. Init => Port!Init
    BY DEF Init, Port!Init, Held, NoBlob
  <1> QED
    BY <1>1, IInvariance, StepImplementsPort, PTL DEF Spec, PortSpec, Port!Spec
=============================================================================
