------------------------------- MODULE Backends -------------------------------
(***************************************************************************)
(* The adapters behind a run: the factories of common/config.py, called by *)
(* the run-bronze command, KMSSecrets and its blob store, InMemorySecrets, *)
(* and the three logs.  One process after another is launched, each under  *)
(* an environment of its own; every adapter keeps its data in the memory   *)
(* of the process.  A day is the one of BronzeRun, shortened: its orders   *)
(* and its report are one step that returns or raises.                     *)
(*                                                                         *)
(* KMS is external: a data key can be generated and decrypted as long as   *)
(* its master key is enabled.  A sealed blob shows nothing without it.     *)
(***************************************************************************)
EXTENDS Naturals

CONSTANTS
    Environment,  \* the settings of the OMCAE_*, AWS_* and OTTER_* variables
    Key,          \* the KMS master keys
    NoKey,        \* OMCAE_KMS_KEY_ID is not set
    NoToken, NotFound, Raised,
    Days,         \* the days of a backfill
    MaxTokens     \* bound: grants of one process

ASSUME BackendsAssumption ==
    /\ Environment \subseteq
           [secrets : {"memory", "kms", "vault"},
            logs : {"memory", "sqlite", "postgres", "mysql"},
            kms_key_id : Key \union {NoKey},
            aws : BOOLEAN, pg_dsn : BOOLEAN, otter_client : BOOLEAN]
    /\ NoKey \notin Key
    /\ Days \in Nat \ {0} /\ MaxTokens \in Nat \ {0}
    /\ NoToken \notin Nat /\ NotFound \notin Nat /\ Raised \notin Nat
    /\ NoToken # NotFound /\ NoToken # Raised /\ NotFound # Raised

VARIABLES
    env,      \* the environment of the process
    pc,       \* where it is, "none" if there is none
    secrets,  \* its SecretsPort adapter
    logs,     \* its LogsPort adapter
    plain,    \* InMemorySecrets: the tokens, NoToken if absent
    blob,     \* InMemoryBlobStore: the sealed tokens
    enabled,  \* KMS: the master keys that are enabled
    tokens,   \* the tokens Otter has granted the process, numbered
    lost,     \* auxiliary: those it could not save
    answer,   \* what its last load came back with, NoToken since its last save
    day,      \* the day it is at
    last,     \* its last day
    rows,     \* pipeline_execution_logs: the status of each day's row
    failed,   \* any_failed
    exit      \* its exit code

credVars == <<plain, blob, tokens, lost, answer>>
dayVars == <<day, last, rows, failed, exit>>
vars == <<env, pc, secrets, logs, enabled, credVars, dayVars>>

Token == 1..MaxTokens
NoBlob == [cmk |-> NoKey, token |-> NoToken]
NoRows == [d \in 1..Days |-> "NONE"]

Init ==
    /\ env \in Environment
    /\ pc = "none" /\ secrets = "none" /\ logs = "none"
    /\ plain = NoToken /\ blob = NoBlob
    /\ enabled = Key
    /\ tokens = 0 /\ lost = 0 /\ answer = NoToken
    /\ day = 1 /\ last = 1 /\ rows = NoRows /\ failed = FALSE /\ exit = "none"

Goto(label) == pc' = label

(***************************************************************************)
(* The factories                                                           *)
(***************************************************************************)
\* run_bronze: one day, or those of a backfill.
Launch ==
    /\ pc = "none"
    /\ env' \in Environment
    /\ last' \in {1, Days}
    /\ exit' = "none" /\ rows' = NoRows
    /\ Goto("secrets_factory")
    /\ UNCHANGED <<secrets, logs, enabled, credVars, day, failed>>

ConfigError ==
    /\ Goto("exit")
    /\ exit' = "config error"
    /\ UNCHANGED <<secrets, logs>>

\* The adapters the factories choose, "none" for a ConfigError.
SecretsAdapter ==
    CASE env.secrets = "memory" -> "memory"
      [] env.secrets = "kms" /\ env.kms_key_id # NoKey -> IF env.aws THEN "kms" ELSE "memory"
      [] OTHER -> "none"

\* Mutant: the DSN is only needed once a connection is.
LogsAdapterUnchecked ==
    CASE env.logs \in {"memory", "sqlite", "postgres"} -> env.logs
      [] OTHER -> "none"

LogsAdapter ==
    CASE env.logs \in {"memory", "sqlite"} -> env.logs
      [] env.logs = "postgres" /\ env.pg_dsn -> "postgres"
      [] OTHER -> "none"

SecretsFactory ==
    /\ pc = "secrets_factory"
    /\ IF SecretsAdapter = "none" THEN ConfigError
       ELSE /\ secrets' = SecretsAdapter
            /\ Goto("logs_factory")
            /\ UNCHANGED <<logs, exit>>
    /\ UNCHANGED <<env, enabled, credVars, day, last, rows, failed>>

\* logs_factory, and alerts_factory, which finds the default of RunContext.
LogsFactory ==
    /\ pc = "logs_factory"
    /\ IF LogsAdapter = "none" THEN ConfigError
       ELSE /\ logs' = LogsAdapter
            /\ Goto("load")
            /\ UNCHANGED <<secrets, exit>>
    /\ UNCHANGED <<env, enabled, credVars, day, last, rows, failed>>

(***************************************************************************)
(* The credentials                                                         *)
(***************************************************************************)
\* Mutant: what cannot be decrypted is not found.
DecryptNotFound == NotFound

Decrypt == IF blob.cmk \in enabled THEN blob.token ELSE Raised

\* load of InMemorySecrets, of KMSSecrets
Loaded ==
    IF secrets = "memory" THEN IF plain = NoToken THEN NotFound ELSE plain
    ELSE IF blob = NoBlob THEN NotFound ELSE Decrypt

\* save raises if no data key can be generated.
CanSave == secrets = "memory" \/ env.kms_key_id \in enabled

Save(token) ==
    /\ answer' = NoToken
    /\ IF secrets = "memory" THEN plain' = token /\ UNCHANGED blob
       ELSE blob' = [cmk |-> env.kms_key_id, token |-> token] /\ UNCHANGED plain

\* Mutants: the loop runs a day too far; a day that fails is tried again.
EndDayTooFar(ok) ==
    /\ failed' = (failed \/ ~ok)
    /\ IF day <= last
       THEN day' = day + 1 /\ Goto("load") /\ UNCHANGED exit
       ELSE Goto("exit") /\ exit' = "zero" /\ UNCHANGED day

EndDayRetries(ok) ==
    /\ failed' = (failed \/ ~ok)
    /\ IF day < last \/ ~ok
       THEN day' = (IF ok THEN day + 1 ELSE day) /\ Goto("load") /\ UNCHANGED exit
       ELSE Goto("exit") /\ exit' = "zero" /\ UNCHANGED day

\* The day is over; a later one is tried, whatever became of this one.
EndDay(ok) ==
    /\ failed' = (failed \/ ~ok)
    /\ IF day < last
       THEN day' = day + 1 /\ Goto("load") /\ UNCHANGED exit
       ELSE /\ Goto("exit")
            /\ exit' = IF failed' THEN "one" ELSE "zero"
            /\ UNCHANGED day

\* Mutant: `except Exception` instead of `except MerchantNotFoundError`.
BootstrapsOnAnyError == Loaded \in {NotFound, Raised}

Bootstraps == Loaded = NotFound

\* Step 1: load; if there are no credentials, bootstrap.
LoadCredentials ==
    /\ pc = "load"
    /\ answer' = Loaded
    /\ IF Bootstraps THEN Goto("grant") /\ UNCHANGED <<day, failed, exit>>
       ELSE IF Loaded = Raised THEN EndDay(FALSE)
       ELSE Goto("insert") /\ UNCHANGED <<day, failed, exit>>
    /\ UNCHANGED <<env, secrets, logs, enabled, plain, blob, tokens, lost, last, rows>>

\* request_initial_token; without client credentials it raises "not found".
RequestInitialToken ==
    /\ pc = "grant"
    /\ \/ /\ env.otter_client /\ tokens < MaxTokens
          /\ tokens' = tokens + 1
          /\ Goto("save")
          /\ UNCHANGED <<day, failed, exit>>
       \/ EndDay(FALSE) /\ UNCHANGED tokens
    /\ UNCHANGED <<env, secrets, logs, enabled, plain, blob, lost, answer, last, rows>>

SaveInitialToken ==
    /\ pc = "save"
    /\ IF CanSave
       THEN Save(tokens) /\ Goto("insert") /\ UNCHANGED <<lost, day, failed, exit>>
       ELSE lost' = lost + 1 /\ EndDay(FALSE) /\ UNCHANGED <<plain, blob, answer>>
    /\ UNCHANGED <<env, secrets, logs, enabled, tokens, last, rows>>

(***************************************************************************)
(* The day                                                                 *)
(***************************************************************************)
\* getconn of PostgresLogs: psycopg2 calls the CLI's connection factory, a
\* partial of connect, with the DSN once more, which is a TypeError.
LogRaises == logs = "postgres"

\* Step 2, swallowed if it raises.
InsertStarted ==
    /\ pc = "insert"
    /\ rows' = IF LogRaises THEN rows ELSE [rows EXCEPT ![day] = "STARTED"]
    /\ Goto("work")
    /\ UNCHANGED <<env, secrets, logs, enabled, credVars, day, last, failed, exit>>

\* A token expires in the middle of the day and is refreshed; whatever raises
\* is swallowed by the client.
Refresh ==
    /\ pc = "work" /\ tokens < MaxTokens
    /\ answer' = Loaded
    /\ Loaded \in Token
    /\ tokens' = tokens + 1
    /\ Goto("refresh_save")
    /\ UNCHANGED <<env, secrets, logs, enabled, plain, blob, lost, dayVars>>

SaveRefreshed ==
    /\ pc = "refresh_save"
    /\ IF CanSave THEN Save(tokens) /\ UNCHANGED lost
       ELSE lost' = lost + 1 /\ UNCHANGED <<plain, blob, answer>>
    /\ Goto("work")
    /\ UNCHANGED <<env, secrets, logs, enabled, tokens, dayVars>>

\* Steps 3 to 6: the client loads the credentials for each of its calls.
Work ==
    /\ pc = "work"
    /\ answer' = Loaded
    /\ \/ Loaded \in Token /\ Goto("success")
       \/ Goto("failure")
    /\ UNCHANGED <<env, secrets, logs, enabled, plain, blob, tokens, lost, dayVars>>

\* Mutant: an update that raises is swallowed, as the insert is.
MarkSuccessBestEffort ==
    /\ pc = "success"
    /\ rows' = IF LogRaises THEN rows ELSE [rows EXCEPT ![day] = "SUCCESS"]
    /\ EndDay(TRUE)
    /\ UNCHANGED <<env, secrets, logs, enabled, credVars, last>>

\* Step 7, inside the try block.
MarkSuccess ==
    /\ pc = "success"
    /\ IF LogRaises THEN Goto("failure") /\ UNCHANGED <<rows, day, failed, exit>>
       ELSE rows' = [rows EXCEPT ![day] = "SUCCESS"] /\ EndDay(TRUE)
    /\ UNCHANGED <<env, secrets, logs, enabled, credVars, last>>

\* The exception handler; the alert goes into the memory of the process.
MarkFailure ==
    /\ pc = "failure"
    /\ rows' = IF LogRaises THEN rows ELSE [rows EXCEPT ![day] = "FAILED"]
    /\ EndDay(FALSE)
    /\ UNCHANGED <<env, secrets, logs, enabled, credVars, last>>

\* The process ends, by itself or killed, and its memory with it: the log's rows
\* and the credentials are gone.
Gone ==
    /\ Goto("none")
    /\ secrets' = "none" /\ logs' = "none"
    /\ plain' = NoToken /\ blob' = NoBlob
    /\ tokens' = 0 /\ lost' = 0 /\ answer' = NoToken
    /\ day' = 1 /\ last' = 1 /\ rows' = NoRows /\ failed' = FALSE
    /\ UNCHANGED <<env, enabled>>

Exit == pc = "exit" /\ Gone /\ exit' = "none"
Kill == pc # "none" /\ Gone /\ exit' = "none"

\* The keys' administrator.
ToggleKey ==
    /\ \E k \in Key :
          enabled' = IF k \in enabled THEN enabled \ {k} ELSE enabled \union {k}
    /\ UNCHANGED <<env, pc, secrets, logs, credVars, dayVars>>

Step ==
    \/ SecretsFactory \/ LogsFactory
    \/ LoadCredentials \/ RequestInitialToken \/ SaveInitialToken
    \/ InsertStarted \/ SaveRefreshed \/ Work \/ MarkSuccess \/ MarkFailure \/ Exit

Next == Launch \/ Step \/ Refresh \/ Kill \/ ToggleKey

Spec == Init /\ [][Next]_vars /\ WF_vars(Step)

(***************************************************************************)
(* Properties                                                              *)
(***************************************************************************)
Labels == {"none", "secrets_factory", "logs_factory", "load", "grant", "save",
           "insert", "work", "refresh_save", "success", "failure", "exit"}

\* The parts of the type invariant: the process,
ProcessOK ==
    /\ env \in Environment
    /\ pc \in Labels
    /\ secrets \in {"none", "memory", "kms"}
    /\ logs \in {"none", "memory", "sqlite", "postgres"}
    /\ exit \in {"none", "zero", "one", "config error"}

\* its credentials, in the store and on their way to it,
CredentialsOK ==
    /\ plain \in Token \union {NoToken}
    /\ blob \in [cmk : Key, token : Token] \union {NoBlob}
    /\ enabled \subseteq Key
    /\ tokens \in 0..MaxTokens /\ lost \in 0..tokens
    /\ answer \in Token \union {NoToken, NotFound, Raised}

\* and its days.
DaysOK ==
    /\ day \in 1..last /\ last \in 1..Days
    /\ rows \in [1..Days -> {"NONE", "STARTED", "SUCCESS", "FAILED"}]
    /\ failed \in BOOLEAN

\* The state is well typed: no process goes past its last day, no adapter holds
\* a token Otter did not grant.
TypeOK == ProcessOK /\ CredentialsOK /\ DaysOK

\* Both adapters implement SecretsPort: a load never answers "not found", or
\* anything but the tokens saved last, because KMS is out of reach.
Held == IF secrets = "memory" THEN plain ELSE blob.token
Port == INSTANCE CredentialStore WITH held <- Held, Tokens <- Token
PortSpec == Port!Spec

\* However often KMS comes and goes, tokens that are stored are never replaced
\* by initial ones: a process bootstraps again only after a save has failed.
BootstrapsOnce ==
    /\ pc \in {"grant", "save"} => Held = NoToken
    /\ Held = NoToken => tokens \in {lost, lost + 1}

\* No process asks Otter for anything or opens a log before its environment has
\* been found complete.
FailFast ==
    tokens > 0 \/ rows # NoRows =>
        /\ env.secrets = "kms" => env.kms_key_id # NoKey
        /\ env.logs = "postgres" => env.pg_dsn
        /\ env.secrets # "vault" /\ env.logs # "mysql"

\* Exit code 0 means that every day has its SUCCESS row in the log the factory
\* chose.
ExitZeroIsLogged ==
    exit = "zero" => \A d \in 1..last : rows[d] = "SUCCESS"

\* Every process ends, whatever KMS, Otter and the log do.
ProcessesEnd == pc # "none" ~> pc = "none"
=============================================================================
