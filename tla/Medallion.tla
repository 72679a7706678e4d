------------------------------ MODULE Medallion ------------------------------
(***************************************************************************)
(* From Bronze to Gold: the days a CLI process ingests (the windows of     *)
(* ingestion/run.py), and `dbt build` (transformation/dbt_runner.py over   *)
(* the models of dbt_project) that turns the orders objects into           *)
(* silver_orders, dim_menu_catalog and fact_financial_sales.               *)
(*                                                                         *)
(* One merchant.  Time is the UTC clock in ticks, DayLength to a day; the  *)
(* store's wall clock is behind it, by Offset ticks until the change of    *)
(* the clocks at Shift and by NewOffset from then on, so that one local    *)
(* day is longer or shorter than the others.  How a day is ingested is     *)
(* the subject of BronzeRun: here it puts its orders object or it fails.   *)
(* dbt is external: it runs the selected nodes in dependency order, as     *)
(* many at once as it has threads, and a node whose parent failed is       *)
(* skipped.  A tick passes, and days are ingested, while dbt builds.       *)
(*                                                                         *)
(* An order has at most one line of a SKU: Items is a set.  Two lines of   *)
(* one SKU would be two rows of the order, which the uniqueness test       *)
(* refuses as it does two rows of different SKUs.                          *)
(***************************************************************************)
EXTENDS Integers, Sequences, FiniteSets

CONSTANTS
    Order,        \* the merchant's orders, one marketplace
    Sku,          \* the menu
    Created,      \* when each order was created
    Items,        \* the SKUs of each order's line items
    DayLength,
    Offset, NewOffset, Shift, \* the time zone of the store
    Modes,        \* how the CLI is launched: "t1", "backfill"
    BackfillDays, \* --backfill-days
    Selections,   \* the --select arguments of dbt build
    Faults,       \* what may fail: "day", "node", "kill"
    FirstTime, LastTime, \* bounds: where the clock starts and stops
    MaxObjects,   \* bound: orders objects ever put
    MaxBuilds,    \* bound: builds started
    MaxSeeds      \* bound: versions of the COGS seed file

ASSUME MedallionAssumption ==
    /\ Created \in [Order -> Int] /\ Items \in [Order -> (SUBSET Sku) \ {{}}]
    /\ DayLength \in Nat \ {0} /\ Shift \in Int
    /\ Offset \in 0..(DayLength - 1) /\ NewOffset \in 0..(DayLength - 1)
    /\ Modes \subseteq {"t1", "backfill"} /\ BackfillDays \in 1..90
    /\ Faults \subseteq {"day", "node", "kill"}
    /\ FirstTime \in Nat /\ LastTime \in Nat /\ FirstTime <= LastTime
    /\ MaxObjects \in Nat /\ MaxBuilds \in Nat /\ MaxSeeds \in Nat \ {0}

VARIABLES
    now,       \* the UTC clock
    todo,      \* the local days the CLI process has yet to ingest: <<next, last, mode>>
    objects,   \* Bronze: the orders objects, in the order they were put
    seed_file, \* version of seeds/merchant_cogs_seed.csv in the project
    cogs,      \* version loaded in the merchant_cogs_seed table, 0 if none
    tables,    \* the models that exist in the DuckDB file
    silver,    \* silver_orders: how many rows each line item has
    dim,       \* dim_menu_catalog: its SKUs
    fact,      \* fact_financial_sales: how many rows each line item has
    costed,    \* the seed version each fact row's costs come from
    node,      \* dbt: status of each node in the present or last build
    status,    \* the LogsPort row of the last build
    building,  \* is dbt running?
    builds     \* builds started

ingestVars == <<now, todo, objects>>
goldVars   == <<dim, fact, costed>>
buildVars  == <<status, building, builds>>
vars == <<ingestVars, seed_file, cogs, tables, silver, goldVars, node, buildVars>>

Line == {l \in Order \X Sku : l[2] \in Items[l[1]]}

Model == {"merchant_cogs_seed", "silver_orders", "silver_reports",
          "dim_menu_catalog", "fact_financial_sales"}
Test  == {"silver_orders_tests", "dim_menu_catalog_tests"}
Node  == Model \union Test

\* The ref() calls of the models and tests; dbt build also runs a model after
\* the tests of its parents.
Parents(n) ==
    CASE n = "silver_orders_tests"    -> {"silver_orders"}
      [] n = "dim_menu_catalog"       -> {"silver_orders", "silver_orders_tests"}
      [] n = "dim_menu_catalog_tests" -> {"dim_menu_catalog"}
      [] n = "fact_financial_sales"   ->
             {"silver_orders", "silver_orders_tests", "merchant_cogs_seed"}
      [] OTHER                        -> {}

Idle == <<1, 0, "t1">>

Init ==
    /\ now = FirstTime
    /\ todo = Idle
    /\ objects = <<>>
    /\ seed_file = 1
    /\ cogs = 0
    /\ tables = {}
    /\ silver = [l \in Line |-> 0]
    /\ dim = {}
    /\ fact = [l \in Line |-> 0]
    /\ costed = [l \in Line |-> 0]
    /\ node = [n \in Node |-> "idle"]
    /\ status = "NONE"
    /\ building = FALSE
    /\ builds = 0

(***************************************************************************)
(* Ingestion                                                               *)
(***************************************************************************)
UtcDay(t) == t \div DayLength

\* The wall clock of the store, and the instant a wall time stands for: the
\* first of two where the clock repeats, and by the offset before the change
\* where it skips the time (fold = 0).
Wall(t)     == t - (IF t < Shift THEN Offset ELSE NewOffset)
LocalDay(t) == Wall(t) \div DayLength
Instant(wall) ==
    wall + (IF wall + Offset < Shift \/ wall + NewOffset < Shift THEN Offset ELSE NewOffset)

\* compute_window_for_date: midnight to the last instant before midnight.
WindowStart(d) == Instant(d * DayLength)

\* Mutant: every day lasts as long as any other.
WindowEndAfterFixedDay(d) == WindowStart(d) + DayLength - 1

WindowEnd(d)   == Instant((d + 1) * DayLength - 1)

\* Mutant: the local day of a day's length ago.
DayAgo == LocalDay(now - DayLength)

\* compute_t1_window: the day before the store's local day.
T1Day == LocalDay(now) - 1

\* compute_backfill_dates: the days before the UTC day, oldest first.
BackfillFirst == UtcDay(now) - BackfillDays
BackfillLast  == UtcDay(now) - 1

Days(range) == range[2] - range[1] + 1

Launch ==
    /\ Days(todo) = 0
    /\ \/ "t1" \in Modes /\ todo' = <<T1Day, T1Day, "t1">>
       \/ "backfill" \in Modes /\ todo' = <<BackfillFirst, BackfillLast, "backfill">>
    /\ Len(objects) + Days(todo') <= MaxObjects
    /\ UNCHANGED <<now, objects, seed_file, cogs, tables, silver, goldVars, node, buildVars>>

\* The window's orders that exist when Otter is asked.
Fetched(d) ==
    {o \in Order : Created[o] \in WindowStart(d)..WindowEnd(d) /\ Created[o] <= now}

NextDay == todo' = IF Days(todo) = 1 THEN Idle ELSE <<todo[1] + 1, todo[2], todo[3]>>

\* Mutant: the date of the window's last instant.
EndDate(mode, d) == IF mode = "t1" THEN UtcDay(WindowEnd(d)) ELSE d

\* The partition of the day's objects: in a T-1 run the UTC date of the
\* window's start, in a backfill the date itself.
TargetDate(mode, d) == IF mode = "t1" THEN UtcDay(WindowStart(d)) ELSE d

\* run_bronze_impl of one day; the report objects it goes on to put are read by
\* silver_reports alone.
IngestDay ==
    /\ Days(todo) > 0
    /\ objects' = Append(objects, [day |-> todo[1], orders |-> Fetched(todo[1]),
                                   partition |-> TargetDate(todo[3], todo[1])])
    /\ NextDay
    /\ UNCHANGED <<now, seed_file, cogs, tables, silver, goldVars, node, buildVars>>

\* The day fails before its object is put; the next one is tried.
DayFails ==
    /\ Days(todo) > 0 /\ "day" \in Faults
    /\ NextDay
    /\ UNCHANGED <<now, objects, seed_file, cogs, tables, silver, goldVars, node, buildVars>>

IngestKilled ==
    /\ Days(todo) > 0 /\ "kill" \in Faults
    /\ todo' = Idle
    /\ UNCHANGED <<now, objects, seed_file, cogs, tables, silver, goldVars, node, buildVars>>

(***************************************************************************)
(* dbt build                                                               *)
(***************************************************************************)
\* run_dbt_build: the STARTED row, then dbt.
StartBuild ==
    /\ ~building /\ builds < MaxBuilds
    /\ builds' = builds + 1
    /\ building' = TRUE
    /\ status' = "STARTED"
    /\ \E selected \in Selections :
          node' = [n \in Node |-> IF n \in selected THEN "pending" ELSE "idle"]
    /\ UNCHANGED <<ingestVars, seed_file, cogs, tables, silver, goldVars>>

Runnable(n) ==
    /\ building /\ node[n] = "pending"
    /\ \A p \in Parents(n) : node[p] \in {"ok", "idle"}

\* A model that succeeds exists from then on; one that fails changes nothing.
Succeeds(n) ==
    /\ node' = [node EXCEPT ![n] = "ok"]
    /\ tables' = tables \union ({n} \intersect Model)

Fails(n) == node' = [node EXCEPT ![n] = "error"]

First(n) == n \notin tables

RunSeed ==
    /\ Runnable("merchant_cogs_seed")
    /\ Succeeds("merchant_cogs_seed")
    /\ cogs' = seed_file
    /\ UNCHANGED <<ingestVars, seed_file, silver, goldVars, buildVars>>

\* The rows of silver_orders.sql: an object contributes a row for each of its
\* line items.
Copies(o) == Cardinality({i \in DOMAIN objects : o \in objects[i].orders})

\* Mutant: the watermark is that of the source, not of {{ this }}.
NewerThanSource(o) ==
    \A i \in DOMAIN objects : \A u \in objects[i].orders : Created[o] > Created[u]

\* created_at > max(created_at) of {{ this }}
Newer(o) == \A l \in Line : silver[l] > 0 => Created[o] > Created[l[1]]

\* merge on the order: rows of an order in the table are updated in place.
Merged(rows, l, new) == IF \E k \in Line : k[1] = l[1] /\ rows[k] > 0 THEN rows[l] ELSE new

\* Mutant: the strategy is append, and there is no incremental filter.
SilverAppends(l) == silver[l] + Copies(l[1])

\* The first build creates the table from all rows; merge does not apply.
SilverAfter(l) ==
    IF First("silver_orders") THEN Copies(l[1])
    ELSE IF Newer(l[1]) THEN Merged(silver, l, Copies(l[1])) ELSE silver[l]

\* read_json_auto fails on a glob that matches no object.
RunSilverOrders ==
    /\ Runnable("silver_orders") /\ objects # <<>>
    /\ Succeeds("silver_orders")
    /\ silver' = [l \in Line |-> SilverAfter(l)]
    /\ UNCHANGED <<ingestVars, seed_file, cogs, goldVars, buildVars>>

\* Mutant: the uniqueness test only warns.
TestsWarn == TRUE

\* silver_orders_unique_order_marketplace: one row per order.
OrdersAreUnique ==
    \A k, l \in Line : k[1] = l[1] /\ silver[k] > 0 => silver[k] = 1 /\ (silver[l] > 0 => k = l)

TestSilverOrders ==
    /\ Runnable("silver_orders_tests") /\ OrdersAreUnique
    /\ Succeeds("silver_orders_tests")
    /\ UNCHANGED <<ingestVars, seed_file, cogs, silver, goldVars, buildVars>>

SkusInSilver == {l[2] : l \in {k \in Line : silver[k] > 0}}

\* One row per SKU, from the whole of silver_orders.
RunDim ==
    /\ Runnable("dim_menu_catalog")
    /\ Succeeds("dim_menu_catalog")
    /\ dim' = dim \union SkusInSilver
    /\ UNCHANGED <<ingestVars, seed_file, cogs, silver, fact, costed, buildVars>>

TestDim ==
    /\ Runnable("dim_menu_catalog_tests")
    /\ Succeeds("dim_menu_catalog_tests")
    /\ UNCHANGED <<ingestVars, seed_file, cogs, silver, goldVars, buildVars>>

\* Mutant: the fact table gets an incremental filter of its own.
OnlyNewLines(l) == silver[l] > 0 /\ fact[l] = 0

\* No filter: every build selects all of silver_orders.
Selected(l) == silver[l] > 0

\* merge on the line item: a row of the table is updated, costs included.
RunFact ==
    /\ Runnable("fact_financial_sales")
    /\ Succeeds("fact_financial_sales")
    /\ fact' = [l \in Line |->
                   IF Selected(l) /\ fact[l] = 0 THEN silver[l] ELSE fact[l]]
    /\ costed' = [l \in Line |-> IF Selected(l) THEN cogs ELSE costed[l]]
    /\ UNCHANGED <<ingestVars, seed_file, cogs, silver, dim, buildVars>>

\* The fields of the reports_enqueue object, and those silver_reports reads.
EnqueueFields  == {"jobId"}
EnqueueColumns == {"jobId", "created_at", "status"}

\* What fails whatever the database does, and what may fail.
MustFail(n) ==
    \/ n = "silver_orders" /\ objects = <<>>
    \/ n = "silver_reports" /\ ~(EnqueueColumns \subseteq EnqueueFields)
    \/ n = "silver_orders_tests" /\ ~OrdersAreUnique

NodeFails ==
    /\ \E n \in Node :
          Runnable(n) /\ (MustFail(n) \/ "node" \in Faults) /\ Fails(n)
    /\ UNCHANGED <<ingestVars, seed_file, cogs, tables, silver, goldVars, buildVars>>

\* What is still pending is skipped: an ancestor failed.
FinishBuild ==
    /\ building /\ \A n \in Node : ~Runnable(n)
    /\ building' = FALSE
    /\ status' = IF \A n \in Node : node[n] \in {"ok", "idle"} THEN "SUCCESS" ELSE "FAILED"
    /\ node' = [n \in Node |-> IF node[n] = "pending" THEN "skipped" ELSE node[n]]
    /\ UNCHANGED <<ingestVars, seed_file, cogs, tables, silver, goldVars, builds>>

\* An exception out of dbt, KeyboardInterrupt included, is swallowed and
\* logged; a kill leaves the row STARTED.
BuildStops ==
    /\ building /\ "kill" \in Faults
    /\ building' = FALSE
    /\ status' \in {"STARTED", "FAILED"}
    /\ node' = [n \in Node |-> IF node[n] = "pending" THEN "skipped" ELSE node[n]]
    /\ UNCHANGED <<ingestVars, seed_file, cogs, tables, silver, goldVars, builds>>

\* Someone edits the COGS seed of the project.
EditSeed ==
    /\ seed_file < MaxSeeds
    /\ seed_file' = seed_file + 1
    /\ UNCHANGED <<ingestVars, cogs, tables, silver, goldVars, node, buildVars>>

Tick ==
    /\ now < LastTime
    /\ now' = now + 1
    /\ UNCHANGED <<todo, objects, seed_file, cogs, tables, silver, goldVars, node, buildVars>>

Ingest == Launch \/ IngestDay \/ DayFails \/ IngestKilled
Build ==
    \/ StartBuild \/ FinishBuild \/ BuildStops \/ NodeFails
    \/ RunSeed \/ RunSilverOrders \/ TestSilverOrders \/ RunDim \/ TestDim \/ RunFact

Next == Ingest \/ Build \/ EditSeed \/ Tick

Spec == Init /\ [][Next]_vars

(***************************************************************************)
(* Properties                                                              *)
(***************************************************************************)
Statuses == {"idle", "pending", "ok", "error", "skipped"}

\* The state is well typed; a line item has at most one Silver row for each
\* orders object ever put.
TypeOK ==
    /\ now \in FirstTime..LastTime
    /\ todo \in Int \X Int \X {"t1", "backfill"}
    /\ objects \in Seq([day : Int, orders : SUBSET Order, partition : Int])
    /\ seed_file \in 1..MaxSeeds /\ cogs \in 0..seed_file
    /\ tables \subseteq Model
    /\ silver \in [Line -> 0..Len(objects)]
    /\ dim \subseteq Sku
    /\ fact \in [Line -> 0..Len(objects)]
    /\ costed \in [Line -> 0..MaxSeeds]
    /\ node \in [Node -> Statuses]
    /\ status \in {"NONE", "STARTED", "SUCCESS", "FAILED"}
    /\ building \in BOOLEAN
    /\ builds \in 0..MaxBuilds

\* No line item is ever counted twice in Gold, although ingesting a day again
\* and reordering a build's nodes may leave duplicates in Silver.
GoldUnique == \A l \in Line : fact[l] <= 1

\* A build that succeeded on Gold left it with exactly the line items of
\* Silver, costed with the seed loaded in that build, also for the rows that
\* were there before.
GoldFollowsSilver ==
    /\ node["fact_financial_sales"] = "ok" =>
           \A l \in Line : fact[l] = silver[l] /\ (fact[l] > 0 => costed[l] = cogs)
    /\ node["dim_menu_catalog"] = "ok" => dim = SkusInSilver

\* A run of silver_orders takes in every order Bronze holds by then, whatever
\* was ingested, failed or built before, in whatever order.
BronzeReachesSilver ==
    [][node["silver_orders"] # "ok" /\ node'["silver_orders"] = "ok" =>
          \A i \in DOMAIN objects : \A o \in objects[i].orders :
              \A s \in Items[o] : silver'[<<o, s>>] > 0]_vars

\* An orders object holds all the orders of its day, by the date on the store's
\* wall clock: the window misses no hour of a day on which the clocks change,
\* and no order is created in the day after the object was fetched.
ObjectsAreComplete ==
    \A i \in DOMAIN objects :
        objects[i].orders = {o \in Order : LocalDay(Created[o]) = objects[i].day}

\* Objects are filed under the store's date, whichever mode put them: a T-1 run
\* and a backfill of one day write to one partition.
PartitionedByLocalDay ==
    \A i \in DOMAIN objects : objects[i].partition = objects[i].day

\* A T-1 run takes the last day that is over for the store: neither one that is
\* still open nor the one before it, on the days the clocks change as well.
T1IsLastClosedDay ==
    [][Days(todo) = 0 /\ todo' # todo /\ todo'[3] = "t1" =>
          WindowEnd(todo'[1]) < now /\ now <= WindowEnd(todo'[1] + 1)]_vars

(***************************************************************************)
(* What the documentation says                                             *)
(***************************************************************************)
\* "producing one Parquet row per line item": with every order ingested once
\* and nothing failing, Silver's tests pass.
LineItemsPassTests == node["silver_orders_tests"] # "error"
=============================================================================
