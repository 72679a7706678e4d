------------------------------ MODULE BronzeRun ------------------------------
(***************************************************************************)
(* Bronze ingestion: run_bronze_impl and run_bronze_with_backfill of       *)
(* ingestion/run.py, with the LogsPort, AlertsPort, SecretsPort and S3     *)
(* stores they write to.                                                   *)
(*                                                                         *)
(* A worker is one process of the CLI: it ingests the days 1..Days, oldest *)
(* first, then exits; it may be killed, and launched again.  A plain T-1   *)
(* run is a worker with Days = 1, whose exception ends the process with    *)
(* exit code 1 as a failed day does.  A step is one call to a store or to  *)
(* the Otter client; the client (see OtterClient) returns or raises.       *)
(***************************************************************************)
EXTENDS Naturals

CONSTANTS
    Worker,      \* CLI processes, sharing the stores
    Merchant,    \* the --merchant-id of each worker
    Days,        \* --backfill-days
    MaxPolls,    \* report_poll_policy.max_retries
    SeedCreds,   \* merchants whose credentials are stored at the start
    Faults,      \* which calls may raise
    MaxLaunches, \* bound: how often a worker is launched
    MaxClock     \* bound: the clock stops here

AllFaults == {"secrets", "bootstrap", "insert", "update", "otter", "job",
              "s3", "alerts", "ambiguous", "crash"}

\* The only merchant whose token the Otter client ever loads.
TokenOwner == "merchant_001"

ASSUME BronzeAssumption ==
    /\ Days \in Nat \ {0} /\ MaxPolls \in Nat \ {0}
    /\ MaxLaunches \in Nat /\ MaxClock \in Nat
    /\ Faults \subseteq AllFaults

VARIABLES
    clock,      \* the UTC clock, in seconds
    creds,      \* SecretsPort: merchants with stored credentials
    row,        \* LogsPort: status of the row of each run, "NONE" without row
    alerts,     \* AlertsPort: runs an engineering alert was inserted for
    bronze,     \* S3: objects, each with its key and the run that put it
    puts,       \* the endpoints each run has put an object for
    stamp,      \* run_timestamp_utc of each run
    result,     \* how each call of run_bronze_impl ended
    pc,         \* where each worker is
    launches,   \* how often each worker was launched
    day,        \* the day the worker ingests
    polls,      \* attempts poll_report_until_ready has made
    any_failed, \* any_failed of run_bronze_with_backfill
    exit        \* the worker's exit code

stores == <<creds, row, alerts, bronze, puts>>
loop   == <<launches, stamp, exit>>
vars   == <<clock, stores, loop, result, pc, day, polls, any_failed>>

Endpoint  == {"orders", "reports_enqueue", "reports_result"}
RunStatus == {"NONE", "STARTED", "SUCCESS", "FAILED"}
NotExited == 2

\* A uuid4 is fresh: a run id names the worker, its launch and the iteration.
RunId == Worker \X (1..MaxLaunches) \X (1..Days)

Contract == INSTANCE RunContract
              WITH status <- row, written <- puts,
                   AmbiguousCommit <- {"ambiguous", "update"} \subseteq Faults

\* Mutant: run_id_override is not passed, every day uses the context's run_id.
RunOfContext(w) == <<w, launches[w], 1>>

Run(w) == <<w, launches[w], day[w]>>

Init ==
    /\ clock = 0
    /\ creds = SeedCreds
    /\ row = [r \in RunId |-> "NONE"]
    /\ alerts = {}
    /\ bronze = {}
    /\ puts = [r \in RunId |-> {}]
    /\ stamp = [r \in RunId |-> 0]
    /\ result = [r \in RunId |-> "none"]
    /\ pc = [w \in Worker |-> "idle"]
    /\ launches = [w \in Worker |-> 0]
    /\ day = [w \in Worker |-> 1]
    /\ polls = [w \in Worker |-> 0]
    /\ any_failed = [w \in Worker |-> FALSE]
    /\ exit = [w \in Worker |-> NotExited]

(***************************************************************************)
(* The loop over the days: run_bronze_with_backfill                        *)
(***************************************************************************)
Stopped == {"idle", "exited", "crashed"}

Launch(w) ==
    /\ pc[w] \in Stopped /\ launches[w] < MaxLaunches
    /\ launches' = [launches EXCEPT ![w] = @ + 1]
    /\ day' = [day EXCEPT ![w] = 1]
    /\ any_failed' = [any_failed EXCEPT ![w] = FALSE]
    /\ exit' = [exit EXCEPT ![w] = NotExited]
    /\ pc' = [pc EXCEPT ![w] = "next_day"]
    /\ UNCHANGED <<clock, stores, stamp, result, polls>>

\* The next iteration gets a fresh run id and timestamp; after the last one
\* the process exits.
NextDay(w) ==
    /\ pc[w] = "next_day"
    /\ IF day[w] <= Days
       THEN /\ stamp' = [stamp EXCEPT ![Run(w)] = clock]
            /\ pc' = [pc EXCEPT ![w] = "load_creds"]
            /\ UNCHANGED exit
       ELSE /\ exit' = [exit EXCEPT ![w] = IF any_failed[w] THEN 1 ELSE 0]
            /\ pc' = [pc EXCEPT ![w] = "exited"]
            /\ UNCHANGED stamp
    /\ UNCHANGED <<clock, stores, launches, result, day, polls, any_failed>>

Goto(w, label) ==
    /\ pc' = [pc EXCEPT ![w] = label]
    /\ UNCHANGED <<result, day, any_failed>>

\* Mutant: the loop breaks at the first failing day.
EndDayBreaks(w, how) ==
    /\ pc' = [pc EXCEPT ![w] = "next_day"]
    /\ day' = [day EXCEPT ![w] = IF how = "raised" THEN Days + 1 ELSE @ + 1]
    /\ result' = [result EXCEPT ![Run(w)] = how]
    /\ any_failed' = [any_failed EXCEPT ![w] = @ \/ how = "raised"]

\* Mutant: a failing day is tried again until it succeeds.
EndDayRetries(w, how) ==
    /\ pc' = [pc EXCEPT ![w] = "next_day"]
    /\ day' = [day EXCEPT ![w] = IF how = "raised" THEN @ ELSE @ + 1]
    /\ result' = [result EXCEPT ![Run(w)] = how]
    /\ any_failed' = [any_failed EXCEPT ![w] = @ \/ how = "raised"]

\* Mutant: any_failed only reflects the last day.
EndDayForgets(w, how) ==
    /\ pc' = [pc EXCEPT ![w] = "next_day"]
    /\ day' = [day EXCEPT ![w] = @ + 1]
    /\ result' = [result EXCEPT ![Run(w)] = how]
    /\ any_failed' = [any_failed EXCEPT ![w] = how = "raised"]

\* run_bronze_impl returns, or an exception leaves it and the loop catches it.
EndDay(w, how) ==
    /\ pc' = [pc EXCEPT ![w] = "next_day"]
    /\ day' = [day EXCEPT ![w] = @ + 1]
    /\ result' = [result EXCEPT ![Run(w)] = how]
    /\ any_failed' = [any_failed EXCEPT ![w] = @ \/ how = "raised"]

(***************************************************************************)
(* One day: run_bronze_impl                                                *)
(***************************************************************************)
\* An exception inside the try block.
Except(w) == Goto(w, "update_failed")

\* Step 1, outside the try block: no row and no alert when it raises.
LoadCredentials(w) ==
    /\ pc[w] = "load_creds"
    /\ \/ Merchant[w] \in creds /\ Goto(w, "insert_started") /\ UNCHANGED creds
       \/ /\ Merchant[w] \notin creds
          /\ creds' = creds \union {Merchant[w]}
          /\ Goto(w, "insert_started")
       \/ /\ \/ Merchant[w] \notin creds /\ "bootstrap" \in Faults
             \/ "secrets" \in Faults
          /\ EndDay(w, "raised") /\ UNCHANGED creds
    /\ UNCHANGED <<clock, row, alerts, bronze, puts, loop, polls>>

\* Step 2, best effort; a duplicate id violates the primary key.
InsertStarted(w) ==
    /\ pc[w] = "insert_started"
    /\ Goto(w, "fetch_orders")
    /\ \/ row[Run(w)] = "NONE" /\ row' = [row EXCEPT ![Run(w)] = "STARTED"]
       \/ (row[Run(w)] # "NONE" \/ "insert" \in Faults) /\ UNCHANGED row
    /\ UNCHANGED <<clock, creds, alerts, bronze, puts, loop, polls>>

\* A call of the Otter client starts by loading the TokenOwner's credentials.
OtterReturns == TokenOwner \in creds
OtterRaises  == TokenOwner \notin creds \/ "otter" \in Faults

\* Mutant: the client is called outside the try block.
OtterCallOutsideTry(w, label) ==
    \/ OtterReturns /\ Goto(w, label)
    \/ OtterRaises /\ EndDay(w, "raised")

OtterCall(w, label) ==
    \/ OtterReturns /\ Goto(w, label)
    \/ OtterRaises /\ Except(w)

\* Step 4, and the report request of step 5.
FetchOrders(w) ==
    /\ pc[w] = "fetch_orders"
    /\ OtterCall(w, "put_orders")
    /\ UNCHANGED <<clock, stores, loop, polls>>

RequestReport(w) ==
    /\ pc[w] = "request_report"
    /\ OtterCall(w, "put_enqueue")
    /\ polls' = [polls EXCEPT ![w] = 0]
    /\ UNCHANGED <<clock, stores, loop>>

\* Mutant: the key has the run's day only.
KeyOfDay(r, e) == [merchant |-> Merchant[r[1]], day |-> r[3], endpoint |-> e, stamp |-> 0]

\* build_bronze_key: the run's second distinguishes runs of one day.
Key(r, e) == [merchant |-> Merchant[r[1]], day |-> r[3], endpoint |-> e, stamp |-> stamp[r]]

\* put_object replaces what the key held.
Store(w, e) ==
    LET key == Key(Run(w), e) IN
    /\ bronze' = {o \in bronze : o.key # key} \union {[key |-> key, run |-> Run(w)]}
    /\ puts' = [puts EXCEPT ![Run(w)] = @ \union {e}]

\* A call that raises may have taken effect when Faults has "ambiguous".
Ambiguous == "ambiguous" \in Faults

\* Mutant: a failed put_object is swallowed.
PutObjectBestEffort(w, e, label) ==
    /\ Goto(w, label)
    /\ Store(w, e) \/ ("s3" \in Faults /\ UNCHANGED <<bronze, puts>>)

PutObject(w, e, label) ==
    \/ Store(w, e) /\ Goto(w, label)
    \/ /\ "s3" \in Faults /\ Except(w)
       /\ UNCHANGED <<bronze, puts>> \/ (Ambiguous /\ Store(w, e))

\* Where each endpoint's object is put, and where the run goes from there.
PutAt  == [put_orders |-> "orders", put_enqueue |-> "reports_enqueue",
           put_result |-> "reports_result"]

\* Mutant: the run is marked SUCCESS once the report is enqueued.
PutThenSkipsResult ==
    [put_orders |-> "request_report", put_enqueue |-> "update_success",
     put_result |-> "update_success"]

PutThen == [put_orders |-> "request_report", put_enqueue |-> "poll",
            put_result |-> "update_success"]

WriteRaw(w) ==
    /\ pc[w] \in DOMAIN PutAt
    /\ PutObject(w, PutAt[pc[w]], PutThen[pc[w]])
    /\ UNCHANGED <<clock, creds, row, alerts, loop, polls>>

\* Mutant: one poll too many.
PollPendingOffByOne(w) ==
    \/ polls[w] < MaxPolls /\ Goto(w, "poll")
    \/ polls[w] >= MaxPolls /\ "job" \in Faults /\ Except(w)

\* Step 6: a PENDING report is polled again until max_retries attempts are
\* made; a healthy server is ready by then.
PollPending(w) ==
    \/ polls[w] + 1 < MaxPolls /\ Goto(w, "poll")
    \/ polls[w] + 1 >= MaxPolls /\ "job" \in Faults /\ Except(w)

PollReport(w) ==
    /\ pc[w] = "poll"
    /\ polls' = [polls EXCEPT ![w] = @ + 1]
    /\ \/ OtterCall(w, "put_result")             \* READY
       \/ OtterReturns /\ PollPending(w)
       \/ OtterReturns /\ "job" \in Faults /\ Except(w)  \* FAILED, CANCELLED
    /\ UNCHANGED <<clock, stores, loop>>

UpdateFinished(w, status) ==
    row[Run(w)] # "NONE" /\ row' = [row EXCEPT ![Run(w)] = status]

\* RunNotFoundError, or the UPDATE raises, before or after its commit.
UpdateRaises(w, status) ==
    \/ row[Run(w)] = "NONE" /\ UNCHANGED row
    \/ "update" \in Faults /\ UNCHANGED row
    \/ "update" \in Faults /\ Ambiguous /\ UpdateFinished(w, status)

\* Step 7 is still inside the try block.
UpdateSuccess(w) ==
    /\ pc[w] = "update_success"
    /\ \/ UpdateFinished(w, "SUCCESS") /\ EndDay(w, "returned")
       \/ UpdateRaises(w, "SUCCESS") /\ Except(w)
    /\ UNCHANGED <<clock, creds, alerts, bronze, puts, loop, polls>>

\* Mutant: the handler raises again before it inserts the alert.
UpdateFailedReraises(w) ==
    /\ pc[w] = "update_failed"
    /\ EndDay(w, "raised")
    /\ UpdateFinished(w, "FAILED") \/ UpdateRaises(w, "FAILED")
    /\ UNCHANGED <<clock, creds, alerts, bronze, puts, loop, polls>>

\* The handler: an update that raises replaces the exception in flight and
\* skips the alert.
UpdateFailed(w) ==
    /\ pc[w] = "update_failed"
    /\ \/ UpdateFinished(w, "FAILED") /\ Goto(w, "alert")
       \/ UpdateRaises(w, "FAILED") /\ EndDay(w, "raised")
    /\ UNCHANGED <<clock, creds, alerts, bronze, puts, loop, polls>>

\* _insert_engineering_alert never raises.
InsertAlert(w) ==
    /\ pc[w] = "alert"
    /\ alerts' = alerts \union {Run(w)} \/ ("alerts" \in Faults /\ UNCHANGED alerts)
    /\ EndDay(w, "raised")
    /\ UNCHANGED <<clock, creds, row, bronze, puts, loop, polls>>

Crash(w) ==
    /\ pc[w] \notin Stopped /\ "crash" \in Faults
    /\ Goto(w, "crashed")
    /\ UNCHANGED <<clock, stores, loop, polls>>

Tick ==
    /\ clock < MaxClock
    /\ clock' = clock + 1
    /\ UNCHANGED <<stores, loop, result, pc, day, polls, any_failed>>

Step(w) ==
    \/ NextDay(w)
    \/ LoadCredentials(w) \/ InsertStarted(w)
    \/ FetchOrders(w) \/ RequestReport(w) \/ WriteRaw(w) \/ PollReport(w)
    \/ UpdateSuccess(w) \/ UpdateFailed(w) \/ InsertAlert(w)

Next == Tick \/ \E w \in Worker : Launch(w) \/ Step(w) \/ Crash(w)

\* A launched process runs on: every call returns or raises.
Spec == Init /\ [][Next]_vars /\ \A w \in Worker : WF_vars(Step(w))

(***************************************************************************)
(* Properties                                                              *)
(***************************************************************************)
Body == {"load_creds", "insert_started", "fetch_orders", "put_orders",
         "request_report", "put_enqueue", "poll", "put_result",
         "update_success", "update_failed", "alert"}
KeySet == [merchant : {Merchant[w] : w \in Worker}, day : 1..Days,
           endpoint : Endpoint, stamp : Nat]

\* The state is well typed: among others, the days and the polls of a worker
\* stay within --backfill-days and max_retries.
TypeOK ==
    /\ clock \in Nat
    /\ row \in [RunId -> RunStatus]
    /\ alerts \subseteq RunId
    /\ bronze \subseteq [key : KeySet, run : RunId]
    /\ puts \in [RunId -> SUBSET Endpoint]
    /\ stamp \in [RunId -> Nat]
    /\ result \in [RunId -> {"none", "returned", "raised"}]
    /\ pc \in [Worker -> Stopped \union Body \union {"next_day"}]
    /\ launches \in [Worker -> 0..MaxLaunches]
    /\ day \in [Worker -> 1..(Days + 1)]
    /\ polls \in [Worker -> 0..MaxPolls]
    /\ any_failed \in [Worker -> BOOLEAN]
    /\ exit \in [Worker -> {0, 1, NotExited}]

\* The object of a run's endpoint is in Bronze (perhaps put again by a run of
\* the same second).
InBronze(r, e) == \E o \in bronze : o.key = Key(r, e)

\* A SUCCESS row means the day's three objects are in Bronze, whatever call
\* failed, was retried or took effect unseen.
SuccessMeansComplete ==
    \A r \in RunId : row[r] = "SUCCESS" => \A e \in Endpoint : InBronze(r, e)

\* Exit code 0 tells the scheduler that every day is loaded: each has a
\* SUCCESS row of this launch.
ExitZeroMeansAllDaysLoaded ==
    \A w \in Worker : exit[w] = 0 =>
        \A d \in 1..Days : row[<<w, launches[w], d>>] = "SUCCESS"

\* A run is in progress until it returns or raises, or its process is killed.
InProgress(r) == r = Run(r[1]) /\ pc[r[1]] \in Body
Killed(r) == result[r] = "none" /\ (pc[r[1]] = "crashed" \/ r[2] < launches[r[1]])

\* A row stays STARTED only while its run is in progress, or when its process
\* was killed: neither a failing day, nor the days after it, nor a new launch
\* leave another row behind that looks alive.
StartedRowsAreAlive ==
    \A r \in RunId : row[r] = "STARTED" => InProgress(r) \/ Killed(r)

\* Every failure of a run that has a row reaches the engineers, as the comment
\* in the handler says, while the log and the alerts can be written.
FailuresAreAlerted ==
    \A r \in RunId : result[r] = "raised" /\ row[r] # "NONE" => r \in alerts

\* Runs add objects to Bronze: one is lost only to another run of the same
\* merchant and day that began in the same second, whose object is then there.
SameSecond(q, r) ==
    q # r /\ Merchant[q[1]] = Merchant[r[1]] /\ q[3] = r[3] /\ stamp[q] = stamp[r]
ObjectsAreKept ==
    \A r \in RunId : \A e \in puts[r] :
        \/ [key |-> Key(r, e), run |-> r] \in bronze
        \/ \E q \in RunId :
              SameSecond(q, r) /\ [key |-> Key(r, e), run |-> q] \in bronze

\* A merchant's days are tried once per launch and one failing day does not
\* stop the others.
FailSoft ==
    \A w \in Worker : exit[w] # NotExited =>
        \A d \in 1..Days : result[<<w, launches[w], d>>] # "none"

\* The log and the bucket keep the contract readers rely on.
ContractSpec == Contract!Spec

\* Every launch ends.
LaunchesEnd == \A w \in Worker : pc[w] = "next_day" ~> pc[w] \in Stopped
=============================================================================
