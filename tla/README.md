# A TLA+ model of omnichannel-analytics

The repository ingests a restaurant's Otter orders and reports into an S3
*Bronze* bucket, turns them into *Silver* and *Gold* DuckDB tables with dbt, and
shows them in a Streamlit application. This directory models the parts of it
where order, failure and concurrency decide whether the numbers are right. TLC
checks the models on small instances, and TLAPS proves the main safety
properties for every value of the constants. Paths below are relative to the
repository; `omc/` stands for `src/omc_analytics/`.

    tlc -config OtterClientGrants.cfg MCOtterClient     # one run
    tlapm BronzeRunProofs.tla                           # one proof module

Sections: 1 the system, 2 the modules, 3 the runs, 4 the proofs, 5 what is not
modelled, 6 what the plan has left.

## 1. The system

| component | source | state it keeps | operations |
|---|---|---|---|
| Otter client | `omc/ingestion/otter_client.py`, `backoff.py`, `errors.py` | per request: attempt counter, header | `fetch_orders`, `request_report`, `poll_report`, all through `_request_with_401_recovery` |
| OAuth token manager | `omc/ingestion/oauth.py` | none of its own; the stored credentials | `ensure_fresh_token`, `request_initial_token`, `exchange_authorization_code` |
| Credential stores | `omc/common/secrets.py`, `kms_secrets.py`, `models.py` | `MerchantCredentials` of each merchant | `load`, `save` |
| Bronze run | `omc/ingestion/run.py` | day of the loop, `any_failed`, exit code, run id and timestamp of the day | `run_bronze_impl`, `run_bronze_with_backfill`, `poll_report_until_ready`, the windows |
| Bronze writer and keys | `omc/ingestion/bronze_writer.py`, `bronze_keys.py` | the objects in S3 | `write_raw`, `write_report_pair` |
| Execution log | `omc/common/logs.py`, `postgres_logs.py`, `sqlite_logs.py` | rows of `pipeline_execution_logs` | `insert_started`, `update_finished` |
| Engineering alerts | `omc/common/alerts.py`, `postgres_alerts.py` | rows of `engineering_alerts` | `insert` |
| dbt runner | `omc/transformation/dbt_runner.py`, `cli.py` | a log row per build | `run_dbt_build` |
| Silver | `dbt_project/models/silver` | `silver_orders`, `silver_reports` | incremental build and tests |
| Gold | `dbt_project/models/gold`, `seeds` | `dim_menu_catalog`, `fact_financial_sales`, the COGS seed | incremental build and tests |
| Browser sessions | `omc/serving/streamlit_app.py` (Streamlit itself is external) | page, session state, queued rerun of each session | navigate, press, reload |
| Onboarding wizard | `omc/serving/pages/onboarding.py`, `error_banners.py` | the step, the code in the URL | OAuth redirect, exchange, sync, banners |
| COGS editor | `omc/serving/pages/cogs_editor.py`, `cogs_writer.py` | the grid of a session, `merchant_cogs` | load, edit, save |
| Dashboard | `omc/serving/pages/dashboard.py`, `data_access.py` | none | read-only queries |
| Backend factories | `omc/common/config.py`, set up by `run_bronze` in `run.py` | none; the environment | choose the adapters |

How they interact:

- A **CLI process** (`omc-ingest run-bronze`) ingests one day (T-1) or the
  days of a backfill. For each day it loads or bootstraps credentials, inserts a
  STARTED row, fetches the orders and puts them, requests a report and puts the
  reply, polls the report until it is ready and puts it, and updates the row.
  Only the code after the insert is inside a `try`; the handler marks the
  row FAILED, inserts an alert and re-raises. The backfill loop catches and goes on.
- The **Otter client** loads the token itself before each call, and on the second
  401 calls the **token manager**, which reads the credentials, asks the token
  endpoint and writes them back, with nothing to stop another process from
  doing the same in between. Otter may retire a refresh token when it is used.
- A **build** reads all of Bronze and the tables earlier builds left. It can
  run while days are being ingested, fail at any node, or be killed.
- Processes share the bucket and the DuckDB file, and nothing coordinates them.
  The command builds a credential store and, unless Postgres is configured, a log
  for each process, in its memory. The ports foresee that processes share
  these too, and `OtterClient` and `BronzeRun` model them shared.
- A **browser session** runs the script of the page it shows, from top to bottom, again
  and again. What the user does while it runs queues a rerun, which stops the
  script at its next `st.*` call. The editor's save is a loop of database calls between
  two such calls; the wizard's exchange and sync are one call each, followed by one.
- The **wizard** calls the token manager and `run_bronze_impl` with stores made for that
  script alone.

What is hard, and what correctness means there:

| component | hard behaviour | what must hold |
|---|---|---|
| Otter client | replies of several kinds share one attempt counter | bounded calls; every request ends; an expired token is recovered |
| token manager | concurrent read-request-write of one record; lost replies | no dead refresh token is stored unless its successor was lost; the stored expiry is never late; fresh tokens are kept; a recovery fails only for a race or a lost grant |
| Bronze run | every call may raise, before or after taking effect; a kill anywhere; two runs within one second | SUCCESS means the data is there; alerts point at FAILED rows; exit code 0 means all days; one bad day does not stop the rest |
| windows | the store's day is not the UTC day; its clocks change | an object holds its whole day, under the right date |
| Silver | watermark, merge and first build, over days that arrive in any order and twice | what is in Bronze gets to Silver, once |
| Gold | built from tables of different builds, after partial failures | a line item counts once; costs follow the seed |
| factories, stores | many environments; KMS keys disabled and enabled at any time | an outage is not "not found"; stored tokens are not replaced by initial ones; incomplete environments stop at once |
| COGS editor | concurrent sessions, reruns in the middle of a save, per-row commits, a pool per click | a save that reports success is whole; what is stored is what was typed; no connection is left open |
| onboarding | session state that reruns, reloads and exceptions cut | a step is shown only when it was earned; no step hangs |

The full list, with lines, is under `hazards` in `PROJECT.json`.

## 2. The modules

| module | what it is |
|---|---|
| `OtterClient` | client and token manager, any number of processes |
| `RunContract` | abstract: what the log and the bucket promise their readers |
| `BronzeRun` | the ingestion of days by CLI processes; implements `RunContract` |
| `Medallion` | windows, Bronze objects, dbt builds, Silver and Gold |
| `CredentialStore` | abstract: what `SecretsPort` promises |
| `Backends` | a `run-bronze` process under every environment: factories, credential stores, logs; implements `CredentialStore` |
| `AppSession` | Streamlit's sessions: pages, queued reruns, where they stop a script |
| `CogsEditor`, `Onboarding` | the two pages that change something, as parts of a session |
| `Serving` | their composition, with navigation, reloads and kills |
| `MC*` | model values, symmetry and inputs for TLC |
| `OtterClientProofs`, `OtterRecoveryProofs`, `BronzeRunProofs`, `MedallionProofs`, `WindowProofs`, `BackendsProofs`, `ServingProofs` | theorems and their proofs |

### OtterClient

`store` is the credential record of `merchant_001`: the client loads that
literal whatever it is asked for. A process is a program counter (`pc`) with
the locals of the code: `seen`, the statuses received so far (its length is the
code's `attempt`), `token`, the header, `loaded`, the credentials read before a
grant, and `reply`, the tokens not yet saved. A step ends at each piece of I/O: the
HTTP call, the load, the token request, the save. `Call` is one turn of the
retry loop with its branches (`Unauthorized`, `RateLimited`, `React`);
`EnsureFreshToken` is `ensure_fresh_token` up to its request, whose exceptions
its caller swallows; `ReloadCredentials` the reload that follows in any case;
`Grant`/`GrantRefused` the token endpoint; `SaveTokens` the write.
The server numbers tokens by grant; `live` are the refresh tokens it accepts
and `expiry` when access tokens end. `orphaned` is auxiliary: it
records refresh tokens whose successor was lost. Bodies, headers, waiting times and jitter are left out.

### BronzeRun and RunContract

A worker is one CLI process. `Launch` starts it, `NextDay` is the head of the
loop and assigns a fresh run id (worker, launch, day) and timestamp, and the
actions that follow are the steps of `run_bronze_impl`, one per call:
`LoadCredentials` (load or bootstrap; outside the `try`), `InsertStarted`
(swallowed), `FetchOrders`, `RequestReport`, `PollReport`, `WriteRaw` (three
puts), `UpdateSuccess`, and the handler's `UpdateFailed` and `InsertAlert`. A call
that raises goes where the code's exception goes: `Except` (the handler) or
`EndDay` (out of the function). With the fault "ambiguous", a put or an
update that raises may have taken effect. `Crash` kills a worker anywhere.
Object keys have the run's second (`stamp`), so two runs can write one key.

`RunContract` knows only `status` and `written`: objects are put in order and never
after the row ended, SUCCESS only with all three, FAILED is final, and so is
SUCCESS unless the UPDATE itself can commit and raise (`AmbiguousCommit`). The refinement maps `row`
and `puts` to them. That exception is the code's: step 7 is inside the `try`, so
an UPDATE to SUCCESS whose reply is lost is followed by FAILED. The contract tolerates this and nothing else: with
puts that commit and raise, but not updates, a SUCCESS row is final (`BronzeRunWorkers`).

### Medallion

Time is in ticks of the UTC clock. The store's wall clock (`Wall`) is `Offset`
behind it, and `NewOffset` from `Shift` on, so that one local day is an hour longer or
shorter; `Instant` is what `astimezone` makes of a wall time, the first of two where the clock
repeats itself, and by the offset before the change where it skips the time (`fold = 0`). `Launch` computes the days of a T-1 run or of a backfill
as `compute_t1_window` and `compute_backfill_dates` do, `WindowStart` and `WindowEnd` are
`compute_window_for_date`. `IngestDay` appends an orders
object with the orders of the day that exist by then, filed under `TargetDate`. What happens
inside a day is `BronzeRun`'s subject, so here it puts its object or fails.
`silver` and `fact` count the rows of each line item, since duplicates are
what can go wrong (an order has at most one line of a SKU: two would fail the uniqueness test as two
of different SKUs do); `costed` is the seed version a fact row's costs come from.
`StartBuild` selects nodes; each node (models, seed and the tests that can stop a
build) runs after its parents and their tests, in any order dbt's threads allow, and
fails when its SQL must (`MustFail`) or when the environment lets it; `BuildStops` is an
exception out of dbt or a kill. dbt and DuckDB are external: `merge` inserts
what does not match, the first run of a model creates its table without merging.

### Backends and CredentialStore

One process lives at a time. `env` is its environment, chosen anew at each `Launch`;
`SecretsFactory` and `LogsFactory` pick its adapters or end it with a `ConfigError`, and
alerts always get the default of `RunContext`. `plain` is `InMemorySecrets`, `blob` the blob
store of `KMSSecrets`; a sealed blob can be read while its master key is `enabled`,
which `ToggleKey` may change at any time. The envelope encryption is no more than that. A day
is the one of `BronzeRun` in short: load or bootstrap, the swallowed insert, `Work`, the
refreshes in it, and the final update. `LogRaises` is
`ThreadedConnectionPool` calling the command's `partial(connect, dsn=...)` with arguments it
does not take: `getconn` raises, so with Postgres no row is ever written. When the process
ends, everything it held is `Gone`.

`CredentialStore` is what `SecretsPort` promises: a load answers with what was saved last,
says "not found" only if nothing was, or raises. The refinement maps `held` to the tokens of
whichever adapter the process has.

### Serving, AppSession, CogsEditor and Onboarding

A session has a `page`, the `queued` rerun and the I/O its `script` is at. Every action of the
user queues a rerun (`Request`); it is taken when the script is idle (`TakeRerun`), or stops it at its
next `st.*` call, which the pages test with `Interrupted`. Opening another page drops the
page's widgets and the query parameters; a reload makes a new session with the same URL.

The editor (`CogsEditor`) keeps the cells edited since the grid was drawn; the grid itself is
always the sample data with costs of 0, since `GoldReader` opens an empty in-memory
database. `StartSave` takes the grid as it is at the click; then each row is `Connect` (a pool of
its own makes a new connection, or the server refuses one), `Upsert` or `UpsertRaises` (before or
after the commit), and at the end `Report`, the `st.success`. `saved`, `writer` and `attempt` are
auxiliary.

The wizard (`Onboarding`) has its `step` and the `code` in the URL. `FirstCall` is the
dispatcher; `Exchange`, `SyncReturns` and `SyncRaises` are the two calls with their outcomes, `Exchanged`
and `Synced` the `st.success` after each, where a queued rerun keeps the step from advancing; `ShowError` is
the banner, an `st.*` call as well, of whatever tier. No line of the application sets step 1, so with sessions that
start at step 0 nothing beyond the first step could be reached. `FirstSteps` therefore lets a session also start at
step 1: a session state seeded from outside, in the way `tests/unit/serving/test_onboarding.py:56` seeds step 3. This adds
behaviours to those of the application, so what holds of them holds of it. What is synced is `BronzeRun`'s subject.

On a reload Streamlit starts the new session at once, and the old script runs beside it until its next `st.*` call. In
`NewSession` the old script ends first; a save that overlaps with one of another session is what two sessions show.
A cell of the grid that is cleared is NaN for `float()` and for the column: one more cost.

## 3. Runs

Passing runs (bounds in parentheses):

| run | shows |
|---|---|
| `OtterClientRequests` (1 process, a server that rejects only expired tokens, rotating or not, but may answer 403, 429 or 5xx or be unreachable; 16 ticks) | `ExpiredTokenIsRecovered` and `RefreshTokenIsNotForgotten` over several lifetimes of a token, `CallBudget` (at most 4 calls a request), `OperationsEnd` |
| `OtterClientRefreshers` (2 processes, a server that rotates and answers 401 at will, lost replies, crashes; 5 ticks, 4 grants) | `FreshTokensAreKept`, `RecoveryLosesOnlyRaces` |
| `OtterClientGrants` (2 processes, all three grants, failing storage, lost replies, crashes; 4 ticks, 4 grants) | `TypeOK`, `RefreshTokenUsable`, `ExpiryIsConservative` |
| `BronzeRunRelaunch` (1 worker, 2 days, 2 polls, 2 launches, every fault) | `TypeOK`, `SuccessMeansComplete`, `ExitZeroMeansAllDaysLoaded`, `FailSoft`, `ContractSpec` |
| `BronzeRunWorkers` (2 workers, the same day, clock 0..1, every fault but failing updates and alerts) | `ContractSpec` with final SUCCESS rows and `ObjectsAreKept` when both write the same keys, `StartedRowsAreAlive`, `FailuresAreAlerted`, `LaunchesEnd` |
| `MedallionDaily` (T-1, across a change of the clocks, 3 objects, 3 builds, partial selections, all faults) | `TypeOK`, `ObjectsAreComplete`, `T1IsLastClosedDay`, `BronzeReachesSilver` |
| `MedallionGold` (T-1 and backfill, two-item order, 2 builds, 2 seeds, all faults) | `GoldUnique`, `GoldFollowsSilver`, `PartitionedByLocalDay` |
| `Backends` (all 192 environments, 1 master key, 2 days, 3 grants a process) | `TypeOK`, `BootstrapsOnce`, `FailFast`, `ExitZeroIsLogged`, `PortSpec`, `ProcessesEnd` |
| `Serving` (2 sessions, 2 rows, a server that accepts 1 connection, 3 user actions, syncs counted to 2, all faults) | `TypeOK`, `SavesAreWhole`, `SavedRowsAreStored`, `IdleHoldsNoConnection`, `StepsAreEarned`, `RepeatsWereCut`, `ScriptsEnd`, `WizardSettles` |

Why the bounds are enough. The client's attempts end after at most four
calls, so one or two requests per process and a clock that outlives a token show every
branch; two processes suffice for a lost update of one record, and four grants let
each of them refresh after the other. In `OtterClientRefreshers` the threshold is longer than one I/O step, as in the
code, a token granted at once expires again within the five ticks, and four grants are never used up; refusals for no reason are
left to `OtterClientGrants`, since what is reloaded after one is just what was there. Lifetime, threshold and margin
keep their order in the code (an hour, ten minutes, one minute: margin and threshold
are both below the lifetime). In `BronzeRun` two days show the effect
of a day on the next, two polls both outcomes of the poll limit, and a
clock of 0..1 runs within and across a second. In `Medallion` a day has
four ticks and the store up to half a day behind, so that both calendar
days open and close within the run; three orders give a day with none, one
and two of them; three objects allow a duplicate and a late day; three builds a
first one, one after a partial failure, and one after it. The clocks change on the day
in the middle. In `Backends` one key is enough for every order of seal, disable, enable and
open; two days show a failed day before a good one, and three grants a
bootstrap, a refresh and one more of either. In `Serving` a single connection lets one session's leak
be felt by the other, two rows make a save that can stop half-way, of the two costs one
does not fit the column, and three user actions suffice to edit, save and interrupt. The proved
properties need no bound at all.

`CHECK_DEADLOCK FALSE` is set where the modelled system may stop: workers have exited and no
launch is left, no build and no object is left, or the users have stopped acting. The runs of the client and of
`Backends` check deadlock: an idle process can always start a request, a new process can
always be launched.

Violation runs: each checks one sentence of the documentation that the code
does not keep. All are listed with quotes under `findings`.

| run | property | the code |
|---|---|---|
| `MedallionBackfill` | `BronzeReachesSilver` | the watermark skips backfilled days |
| `MedallionLines` | `LineItemsPassTests` | the test allows one line per order |
| `ServingEdits` | `EditedRowsOnly` | Save writes every row, those nobody edited with a cost of 0 |

`BronzeReachesSilver` is checked twice: it holds for daily T-1 ingestion and fails
with a backfill. `ObjectsAreComplete` is checked for T-1 only; see `run.py:137` below.
`FreshTokensAreKept` is about refreshes with a rotating server; without rotation a second
refresh is granted and replaces a fresh token, harmlessly. `StartedRowsAreAlive` is not
checked with failing updates, which do leave rows of runs STARTED that have ended; it is checked with one launch of each
worker, and proved for any number. `FailuresAreAlerted` is not checked with failing updates or alerts either, which skip or lose
the alert, and speaks of runs with a row: a day that fails at its credentials is outside the handler, and without a row the
handler's update raises. `ObjectsAreKept` allows what the code's keys allow: of two runs of one day that begin in one
second, the later put replaces the earlier object, but there is an object all the same. `GoldUnique` needs selections that
build the tests of `silver_orders` whenever they build the fact table.

The modules also reproduce the following disagreements between the code and its
documentation, each of which is one branch of an action; no run is kept for them.

- `otter_client.py:186`, `oauth.py:66`: the second 401 does not refresh a token that is far
  from expiry ("On second 401: refresh token + retry once more", `otter_client.py:161`).
- `otter_client.py:175`: the attempt counter is shared, so a 429 counts as a 401 ("3
  consecutive 401s", `:196`) and 401s use up the retries of the rate limit.
- `otter_client.py:216`: a 403 is returned to the caller, who stores its body as the day's
  orders (`errors.py:64` documents `Tier1AuthError` for 401 and 403).
- `otter_client.py:82`: nothing refreshes before a call, whatever the token's age
  (`openspec/specs/bronze-ingestion/spec.md:30`).
- `run.py:246`: a day that fails at its credentials has no log row ("Each day gets its
  own `pipeline_execution_logs` row", `README.md:128`).
- `run.py:351`: when the update of the handler raises, no alert is inserted ("Insert engineering alert
  for all failures", `:357`).
- `bronze_keys.py:61`: two runs of one day in one second share their keys and leave one object each
  ("multiple timestamped objects under the same partition", `README.md:121`).
- `run.py:271` and `:342`: a swallowed failure of `insert_started` makes the day FAIL at its end,
  after all puts ("Best-effort logging", `:273`).
- `run.py:137`: a backfill takes UTC dates for days of the store, and in the store's
  evening fetches a day that is still open ("Excludes today", `:122`). `ObjectsAreComplete` is
  therefore checked for T-1 only.
- `silver_orders.sql:39`: two objects of one day, in the first build, put each order into
  Silver twice: that build creates the table without merging. The uniqueness test then fails
  for good; `GoldUnique` says that this keeps the duplicates out of Gold.
- `dbt_runner.py:102` swallows an exception its specification says is re-raised.
- `oauth.py:175` and `:225`: the initial grant and the code exchange store no refresh token when the
  reply has none, so such a merchant can never refresh.
- `dim_menu_catalog.sql:16`: `min(line_item_name)` is not the most common name.
- `fact_financial_sales.sql:46`: `gross_order_value` repeats the order's total on each of its lines.
- `otter_client.py:187`: `ExpiredTokenIsRecovered` holds for one process. Of two that share a
  store, the loser of a concurrent refresh reloads the old tokens before the winner has saved
  its own, and ends in `Tier1AuthError`. `RecoveryLosesOnlyRaces` bounds the damage.
- `otter_client.py:82`, `oauth.py:200`: the tokens are always those of `merchant_001`, whatever
  `--merchant-id` says (`README.md:110`).
- `silver_reports.sql:68` reads `created_at` and `status` from the enqueue objects, which
  have only a `jobId` (`run.py:316`): the model fails to bind, so a full build never succeeds
  (`openspec/specs/silver-reports-pr3b/spec.md:30`, `:96`).
- `onboarding.py:58`: after the redirect "you'll be redirected back to complete setup", but no line
  sets step 1: the new session is at step 0 again.
- `onboarding.py:102`: a rerun queued during the exchange stops the script at `st.success`. Step 2
  is not set, the code is spent, and the wizard shows the error of tier 3 although the
  connection was made. The same after the sync (`:201`) loads the day again.
- `onboarding.py:84`: the exchanged tokens are saved in a store that is dropped with the script; the
  sync starts from an empty one and asks for initial tokens.
- `onboarding.py:121`, `:229`: the alert of "Our engineering team has been notified" goes into an
  `InMemoryAlerts` nobody holds; and the page of "This page will update automatically" does not.
- `sqlite_logs.py` with the command's settings is `:memory:` ("file-based", `README.md:65`).
- `postgres_logs.py:80`: as set up by the command, no row is ever written (example of `README.md:85`). A
  backfill then ends with exit code 1, as `ExitZeroIsLogged` says; but all objects were put.
- `run.py:629`: KMS credentials do not outlive the process; and without AWS keys in the
  environment `config.py:175` silently falls back to memory.
- `config.py:107`: `OMCAE_ALERTS_BACKEND` is read, and the command does not pass it on.
- `streamlit_app.py` has no merchant input (`openspec/specs/streamlit-serving/spec.md:17`), and the
  dashboard always says that there is no financial data: its reader opens `:memory:`.

### Fairness

`OtterClient` and `BronzeRun` assume weak fairness of each process's own `Step`: the
code has no wait other than bounded sleeps and I/O, and I/O is assumed to answer
or to raise. The latter is an assumption about the network: no HTTP call of the code sets a
timeout, so a connection that stays open and silent would block a run for ever. There is
no fairness on starting an operation, on launching, on crashes or on the clock. `Backends` assumes weak fairness of the process's own `Step`, `Serving` of each
session's `Script`: the database, KMS and Otter answer or fail, and Streamlit runs a queued rerun when
the script is idle. Users, refreshes, kills and the keys' administrator are under no fairness.
`Medallion` assumes none: its properties are safety.

## 4. What is proved

All theorems hold for every value of the constants that satisfies the modules'
assumptions (`ClientAssumption`, `BronzeAssumption`, `MedallionAssumption`, `BackendsAssumption`,
`SessionAssumption`, `CogsAssumption`, `OnboardingAssumption`), in particular for any number of
processes, workers, days, sessions and rows and any set of faults. Further assumptions are named.

| theorem | statement | assuming |
|---|---|---|
| `OtterClientProofs!TypeCorrect` | `[]TypeOK` | |
| `OtterClientProofs!StoredRefreshTokenUsable` | `[]RefreshTokenUsable` | `UniformReplies` |
| `OtterClientProofs!StoredExpiryConservative` | `[]ExpiryIsConservative` | `PromptReplies` |
| `OtterClientProofs!CallsAreBounded` | `[]CallBudget` | |
| `OtterClientProofs!FreshStayFresh` | `FreshTokensAreKept` | `RotatingRefreshes` |
| `OtterRecoveryProofs!RefreshTokenKept` | `RefreshTokenIsNotForgotten` | requests only |
| `OtterRecoveryProofs!ExpiredTokensRecovered` | `[]ExpiredTokenIsRecovered` | one process, `LongLived`, `RequestsOnly`, `ReliableGrants`, `PromptSteps` |
| `OtterRecoveryProofs!RecoveredWhileGrantsLast` | `[]GrantsLeft => []ExpiredTokenIsRecovered` | `Recoverable` |
| `OtterRecoveryProofs!RecoveriesLoseOnlyRaces` | `[]GrantsLeft => []RecoveryLosesOnlyRaces` | `RaceAssumption` |
| `BronzeRunProofs!TypeCorrect` | `[]TypeOK` | |
| `BronzeRunProofs!SuccessComplete` | `[]SuccessMeansComplete` | |
| `BronzeRunProofs!AlertsAreOfFailedRuns` | `[]AlertsHaveFailedRows` | |
| `BronzeRunProofs!ExitZeroIsTruthful` | `[]ExitZeroMeansAllDaysLoaded` | |
| `BronzeRunProofs!DaysAreTried` | `[]FailSoft` | |
| `BronzeRunProofs!StartedIsAlive` | `[]StartedRowsAreAlive` | `LogIsUp` |
| `BronzeRunProofs!FailuresAlerted` | `[]FailuresAreAlerted` | `LogIsUp`, `AlertsAreUp` |
| `BronzeRunProofs!ObjectsKept` | `[]ObjectsAreKept` | |
| `BronzeRunProofs!ImplementsContract` | `ContractSpec` | |
| `MedallionProofs!TypeCorrect` | `[]TypeOK` | |
| `MedallionProofs!GoldMatchesSilver` | `[]GoldFollowsSilver` | |
| `MedallionProofs!GoldHasNoDuplicates` | `[]GoldUnique` | `GatedSelections` |
| `WindowProofs!FiledUnderLocalDay` | `[]PartitionedByLocalDay` | |
| `WindowProofs!T1TakesLastClosedDay` | `T1IsLastClosedDay` | `ChangeWithinDay` |
| `WindowProofs!T1ObjectsComplete` | `[]ObjectsAreComplete` | `ChangeWithinDay`, no backfills |
| `WindowProofs!DailyOrdersReachSilver` | `BronzeReachesSilver` | `ChangeWithinDay`, no backfills |
| `BackendsProofs!TypeCorrect` | `[]TypeOK` | |
| `BackendsProofs!NoSecondBootstrap` | `[]BootstrapsOnce` | |
| `BackendsProofs!FailsFast` | `[]FailFast` | |
| `BackendsProofs!ZeroIsLogged` | `[]ExitZeroIsLogged` | |
| `BackendsProofs!ImplementsSecretsPort` | `PortSpec` | |
| `ServingProofs!TypeCorrect` | `[]TypeOK` | |
| `ServingProofs!WholeSaves` | `[]SavesAreWhole` | |
| `ServingProofs!StoredRows` | `[]SavedRowsAreStored` | |
| `ServingProofs!NoIdleConnection` | `[]IdleHoldsNoConnection` | |
| `ServingProofs!EarnedSteps` | `[]StepsAreEarned` | |
| `ServingProofs!CutRepeats` | `[]RepeatsWereCut` | |

**Client types.** `TypeOK` is inductive because it includes `RefreshesHaveTokens`: every
refresh grant in progress has a token to ask with. That is what
`ensure_fresh_token` and `_refresh` check before they ask. The lemma `Moves` says once
where each action leaves a process, and `StepKinds` reduces the many actions to six kinds (clock, quiet step, load,
grant, save, loss), so that further invariants are proved once per kind.

**Refresh tokens.** `RefreshInv` adds to `RefreshTokenUsable` that tokens in use were
issued (`Issued`), that a token about to be saved is live and known to no one else (`Unshared`),
and that a server which does not rotate never retires the old one
(`OldTokenStillLive`). `Unshared` is the heart: because nobody else holds the
new token, nobody can spend it before it is stored. `UniformReplies`: the server
always rotates or never does. For a server that does either at will the code
has a hole (a refresh without rotation can write a token back that another refresh has retired).

**Expiry.** `ExpiryInv` adds `GrantTimes`: the token about to be saved expires
`Lifetime` after its grant, and no I/O step has lasted longer than `Latency`.
With `PromptReplies` (`Latency <= Margin`) the margin the code takes off covers the
reply's delay; the code does not enforce it, since its calls have no timeout. The mutant without margin shows it is needed.

**Calls.** `BudgetInv` says where in its budget a process is: one that calls has an
attempt left, and one that refreshes for its request has made exactly two calls.

**Fresh tokens.** `RefreshOfStored` builds on `RefreshInv`: with a server that rotates
(`RotatingRefreshes`) one refresh token is alive, so a refresh that can still succeed, or has, was decided on
credentials that are still stored and close to expiry. No other process can be saving.

**Kept refresh tokens.** `OnlyRefreshes` (every grant of a process that only makes requests is a refresh) and `TypeOK`
give each save a refresh token that was there before, which `RefreshTokenToSave` falls back on.

**Recovery.** `ExpiredTokenIsRecovered` speaks of the end of a request and rests on the whole chain
before it. `RecoveryInv` says that the refresh token a process asks with is alive (`TokensLive`), that the stored
token outlives a reload and a call, and the header of a third attempt the call (`FreshTokens`), and that one process
alone comes to `ensure_fresh_token` only when the stored token has expired (`StoredExpired`). The
assumptions: the processes make requests and the merchant has granted access (`RequestsOnly`); the token endpoint
answers, and the server rejects expired tokens only (`ReliableGrants`); an I/O step is shorter than the margin, and
three of them than a token's life (`PromptSteps`: one minute and an hour in the code, not enforced there). `Recoverable` is for one
process, or for any number where refresh tokens do not rotate and the threshold exceeds two I/O
steps. `GrantsLeft` says that `MaxGrants`, a bound of the model and not of the code, is not what
refuses a refresh. For one process it is proved (`GrantsAreLeft`): a token that lives longer than margin and
threshold together (`LongLived`; an hour against eleven minutes) is not refreshed twice in one tick, so the grants are at
most as many as the ticks (`GrantsPaced`). One process on its own store is what each command is today.

**Races.** With a server that rotates, and several processes, that does not hold: of two refreshes the second is refused, and the
process reloads too early. `RecoveryLosesOnlyRaces` says that nothing else goes wrong. `StoredSince` follows a
process through its token request: either what it loaded is still stored, or what was stored since is
young enough for its reload. `StoredOrGone` is the same after the request, when the refresh token it asked with is stored,
and spent. `RaceAssumption` leaves out failing loads and refusals for no reason, after which
an old token is reloaded for that reason, and asks for a threshold longer than one I/O step.

**Runs.** `IInv` relates the control point of a worker to the row and the puts of
its current run (`CurrentRun`), says that run ids not used yet have left no trace
(`NoTraceBeforeRun`), that what was put is still found at the run's key although
another run may overwrite it (`PutsAreInBronze`), that SUCCESS rows have all
puts (`SuccessHasPuts`), and that days behind the loop either have SUCCESS rows or set
`any_failed` (`DaysBehind`). `StepInDay` proves once what every step inside a day has in
common. The refinement follows step by step from `IInv` (`StepsKeepContract`). `FailSoft` needs that every day
before the current one was tried (`DaysTried`), `StartedRowsAreAlive` that only such days have a result
(`ResultsAreBehind`): then a run that is killed, or whose worker is launched again, has none. `LogIsUp` excludes what
does leave rows of ended runs at STARTED: updates that raise. `FailuresAreAlerted` follows from the same facts: a run
that raises has no row, or ends at its alert; `AlertsAreUp` says that inserting one does not fail. `ObjectsAreKept` is inductive
with `ObjectsArePut`, since a run gets its second before it puts anything.

**Gold.** `MedallionProofs!IInv` says how far a build may have come: a node that is ok has
nothing pending before it, so what it read has not changed since, and a line item that has reached
Silver keeps its number of rows. `GateInv` adds that a fact table was built from a Silver that had passed its
tests. `GatedSelections`: whoever builds the fact table builds those tests, as `dbt build` without
`--select` does.

**Windows.** `LocalDayOf` replaces the division by two inequalities, and `WindowIsDay` shows
that a window holds exactly the instants of its local day. `ChangeWithinDay`: the wall times before and after the
change of the clocks are of one day, of which the change may be the first instant. Clocks that go back or forward over a
midnight show the end of a day twice or not at all, and the window does miss or add an hour.
`DaysGoOn` (the date never goes back although the clock may) carries `CompleteInv`: a day still to be
ingested is over, so no order of it can come later.

**Bronze to Silver.** The watermark is safe for daily runs because days are ingested in order
(`DaysInOrder`) and objects are complete (`CompleteInv`). So an order older than the newest one in Silver is of a day
whose object was there when that one was built: `SilverIsPrefix` says that Silver holds all of Bronze up to its
watermark, and what is later passes the filter.

**Backends.** `Staged` says what each stage of a process has set up, `Accounted` that each granted
token is stored, lost or about to be saved, `Logged` which rows the days gone by have.

**Serving.** `SaveInv` ties the I/O a save is at to the rows it has committed (`ProgressInv`) and to
its connection; `WizardInv` ties each script of the wizard to its step. Neither page changes the other's state, so each
part is shown against the steps of its own page and framed for all others.

No module declares a RECURSIVE operator, so every module can be proved about.

Only model-checked: liveness (`OperationsEnd`, `LaunchesEnd`, `ProcessesEnd`, `ScriptsEnd`,
`WizardSettles`), which is out of the prover's reach. Every invariant and every action property of the passing runs is proved;
`AlertsHaveFailedRows`, a part of `IInv`, is proved only.

## 5. What is not modelled

- **The envelope encryption** of `kms_secrets.py`: cryptography. A sealed blob is opaque without its key.
- **SQL**: the adapters of logs and alerts are operations that may fail before or after they
  commit; the translation of the schema to SQLite is left out.
- **`write_report_pair`, `CogsWriter.delete`, `build_run_context`**: nothing calls them.
- **Pagination**: the client ignores `next_cursor`, so an orders object is one reply.
- **Value tests, hashing and margin arithmetic** of dbt; the join of `silver_reports`, which
  does not bind on the objects the run writes.
- **Stores east of UTC**: `MerchantCredentials` has no `store_tz`, so that `run.py:280` always takes New York,
  which is west of it and changes its clocks at two. East of UTC a T-1 run
  would file its objects under the day before (`run.py:289`). Zones that change their clocks over a midnight are
  modelled, and the proofs exclude them.
- **Dashboard and Gold reader**: they change nothing, and as wired they read an empty in-memory database. Going to
  the dashboard is an action of a session.
- **Merchants**: one, since client, token manager and application all name `merchant_001`.

## 6. Plan

Done, in this order: `OtterClient` (every number depends on getting data at all),
`RunContract` and `BronzeRun` (whether a log row can be believed), `Medallion` (whether
the data gets through), `Backends` (what a process runs on), `Serving` (what users change), and the
proofs of all five.

Left:

1. The integer arithmetic of `fact_financial_sales` against a reference
   definition over bounded amounts, and the sum a dashboard shows for an order of several lines.
2. Windows and partitions east of UTC.
3. The dashboard, once its reader is given the file that dbt builds.
