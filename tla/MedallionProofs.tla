--------------------------- MODULE MedallionProofs ---------------------------
(***************************************************************************)
(* For any orders, menu, time zone, selections and faults: the types of    *)
(* Medallion, that Gold follows Silver and the seed whatever builds failed *)
(* before, and that it counts no line item twice as long as nobody builds  *)
(* the fact table without the tests of silver_orders.                      *)
(*                                                                         *)
(* IInv says how far a build may have come: a node that is ok has nothing  *)
(* pending before it, so the tables it read have not changed since; and a  *)
(* line item that has reached Silver keeps its number of rows for good.    *)
(***************************************************************************)
EXTENDS Medallion, FiniteSetTheorems, TLAPS

IngestOK ==
    /\ now \in FirstTime..LastTime
    /\ todo \in Int \X Int \X {"t1", "backfill"}
    /\ objects \in Seq([day : Int, orders : SUBSET Order, partition : Int])

SeedOK == seed_file \in 1..MaxSeeds /\ cogs \in 0..seed_file

RowsOK ==
    /\ silver \in [Line -> 0..Len(objects)]
    /\ fact \in [Line -> 0..Len(objects)]
    /\ costed \in [Line -> 0..MaxSeeds]
    /\ dim \subseteq Sku

DbtOK ==
    /\ tables \subseteq Model
    /\ node \in [Node -> Statuses]
    /\ status \in {"NONE", "STARTED", "SUCCESS", "FAILED"}
    /\ building \in BOOLEAN
    /\ builds \in 0..MaxBuilds

\* A table that was never built is empty; what Gold holds came from Silver.
TablesInv ==
    /\ "silver_orders" \notin tables => \A l \in Line : silver[l] = 0
    /\ \A l \in Line : fact[l] > 0 => fact[l] = silver[l]
    /\ dim \subseteq SkusInSilver

Settled(n) == node[n] # "pending"

\* What a node has read stays as it was until the next build.
BuildInv ==
    /\ GoldFollowsSilver
    /\ node["fact_financial_sales"] = "ok" =>
           Settled("silver_orders") /\ Settled("merchant_cogs_seed")
    /\ node["dim_menu_catalog"] = "ok" => Settled("silver_orders")

IInv == IngestOK /\ SeedOK /\ RowsOK /\ DbtOK /\ TablesInv /\ BuildInv

-----------------------------------------------------------------------------
LEMMA LineType == \A l \in Line : l[1] \in Order /\ l[2] \in Sku
  BY DEF Line

LEMMA CopiesType ==
    ASSUME IngestOK, NEW o
    PROVE  Copies(o) \in 0..Len(objects)
  <1> DEFINE holding == {i \in DOMAIN objects : o \in objects[i].orders}
  <1>1. Len(objects) \in Nat /\ DOMAIN objects = 1..Len(objects)
    BY DEF IngestOK
  <1>2. IsFiniteSet(1..Len(objects)) /\ Cardinality(1..Len(objects)) = Len(objects)
    <2>1. /\ IsFiniteSet(1..Len(objects))
          /\ Cardinality(1..Len(objects)) =
                 IF 1 > Len(objects) THEN 0 ELSE Len(objects) - 1 + 1
      BY <1>1, FS_Interval
    <2> QED
      BY <1>1, <2>1
  <1>3. holding \subseteq 1..Len(objects)
    BY <1>1
  <1>4. /\ IsFiniteSet(holding)
        /\ Cardinality(holding) <= Len(objects)
    BY <1>2, <1>3, FS_Subset
  <1>5. Cardinality(holding) \in Nat
    BY <1>4, FS_CardinalityType
  <1> QED
    BY <1>1, <1>4, <1>5 DEF Copies

\* A line item that is in Silver keeps its rows: the watermark hides its order.
LEMMA SilverAfterType ==
    ASSUME IngestOK, RowsOK, TablesInv, NEW l \in Line
    PROVE  /\ SilverAfter(l) \in 0..Len(objects)
           /\ silver[l] > 0 => SilverAfter(l) = silver[l]
  <1>1. silver[l] \in 0..Len(objects) /\ Copies(l[1]) \in 0..Len(objects) /\ Len(objects) \in Nat
    BY CopiesType DEF RowsOK, IngestOK
  <1>2. Created[l[1]] \in Int
    BY LineType, MedallionAssumption
  <1>3. silver[l] > 0 => ~Newer(l[1])
    BY <1>2 DEF Newer
  <1>4. silver[l] > 0 => ~First("silver_orders")
    BY DEF TablesInv, First
  <1> QED
    BY <1>1, <1>3, <1>4 DEF SilverAfter, Merged

LEMMA InitIInv == Init => IInv
  <1> SUFFICES ASSUME Init PROVE IInv
    OBVIOUS
  <1>1. IngestOK
    BY MedallionAssumption DEF Init, IngestOK, Idle
  <1>2. SeedOK
    BY MedallionAssumption DEF Init, SeedOK
  <1>3. RowsOK
    <2>1. Len(objects) = 0 /\ 0 \in 0..0 /\ 0 \in 0..MaxSeeds
      BY MedallionAssumption DEF Init
    <2> QED
      BY <2>1 DEF Init, RowsOK
  <1>4. DbtOK
    <2>1. builds \in 0..MaxBuilds /\ node \in [Node -> Statuses] /\ tables \subseteq Model
      BY MedallionAssumption DEF Init, Statuses
    <2>2. building \in BOOLEAN /\ status \in {"NONE", "STARTED", "SUCCESS", "FAILED"}
      BY DEF Init
    <2> QED
      BY <2>1, <2>2 DEF DbtOK
  <1>5. TablesInv
    BY DEF Init, TablesInv
  <1>6. BuildInv
    <2>1. \A n \in Node : node[n] = "idle"
      BY DEF Init
    <2>2. node["fact_financial_sales"] = "idle" /\ node["dim_menu_catalog"] = "idle"
      BY <2>1 DEF Node, Model
    <2> QED
      BY <2>2 DEF BuildInv, GoldFollowsSilver
  <1> QED
    BY <1>1, <1>2, <1>3, <1>4, <1>5, <1>6 DEF IInv

(***************************************************************************)
(* Steps                                                                   *)
(***************************************************************************)
\* Steps that leave every table and the build alone keep its invariants.
LEMMA FrameTables ==
    ASSUME IInv, UNCHANGED <<cogs, tables, silver, goldVars, node, buildVars>>
    PROVE  DbtOK' /\ TablesInv' /\ BuildInv'
  <1> USE DEF IInv, goldVars, buildVars
  <1>1. DbtOK'
    BY DEF DbtOK
  <1>2. SkusInSilver' = SkusInSilver
    BY DEF SkusInSilver
  <1>3. TablesInv'
    BY <1>2 DEF TablesInv
  <1>4. BuildInv'
    BY <1>2 DEF BuildInv, GoldFollowsSilver, Settled
  <1> QED
    BY <1>1, <1>3, <1>4

LEMMA DayTypes ==
    ASSUME NEW t \in Int
    PROVE  /\ UtcDay(t) \in Int /\ LocalDay(t) \in Int
           /\ \A mode : TargetDate(mode, t) \in Int
  <1>1. /\ DayLength \in Int /\ DayLength > 0 /\ Offset \in Int /\ NewOffset \in Int
    BY MedallionAssumption
  <1>2. ASSUME NEW u \in Int PROVE u \div DayLength \in Int /\ Wall(u) \in Int /\ Instant(u) \in Int
    BY <1>1 DEF Wall, Instant
  <1>3. t * DayLength \in Int
    BY <1>1
  <1> QED
    BY <1>2, <1>3 DEF UtcDay, LocalDay, TargetDate, WindowStart

\* Ingestion, the clock and the seed file.
LEMMA IngestKeeps ==
    ASSUME IInv, Ingest \/ EditSeed \/ Tick
    PROVE  IInv'
  <1> USE DEF IInv
  <1>1. DbtOK' /\ TablesInv' /\ BuildInv'
    <2>1. UNCHANGED <<cogs, tables, silver, goldVars, node, buildVars>>
      BY DEF Ingest, Launch, IngestDay, DayFails, IngestKilled, EditSeed, Tick
    <2> QED
      BY <2>1, FrameTables
  <1>2. SeedOK'
    <2>1. UNCHANGED <<seed_file, cogs>> \/ (seed_file < MaxSeeds /\ seed_file' = seed_file + 1 /\ cogs' = cogs)
      BY DEF Ingest, Launch, IngestDay, DayFails, IngestKilled, EditSeed, Tick
    <2> QED
      BY <2>1, MedallionAssumption DEF SeedOK
  <1>3. now' \in FirstTime..LastTime
    BY MedallionAssumption
    DEF Ingest, Launch, IngestDay, DayFails, IngestKilled, EditSeed, Tick, IngestOK, ingestVars
  <1>4. todo' \in Int \X Int \X {"t1", "backfill"}
    <2>1. now \in Int /\ todo[1] \in Int /\ todo[2] \in Int /\ todo[3] \in {"t1", "backfill"}
      BY MedallionAssumption DEF IngestOK
    <2>2. UtcDay(now) \in Int /\ LocalDay(now) \in Int /\ BackfillDays \in Int
      BY <2>1, DayTypes, MedallionAssumption
    <2>3. CASE Launch
      BY <2>2, <2>3 DEF Launch, T1Day, BackfillFirst, BackfillLast
    <2>4. CASE IngestDay \/ DayFails \/ IngestKilled
      BY <2>1, <2>4 DEF IngestDay, DayFails, IngestKilled, NextDay, Idle
    <2>5. CASE EditSeed \/ Tick
      BY <2>5 DEF EditSeed, Tick, IngestOK, ingestVars
    <2> QED
      BY <2>3, <2>4, <2>5 DEF Ingest
  <1>5. /\ objects' \in Seq([day : Int, orders : SUBSET Order, partition : Int])
        /\ Len(objects) \in Nat /\ Len(objects') \in Nat /\ Len(objects) <= Len(objects')
    <2>1. CASE IngestDay
      <3>1. todo[1] \in Int /\ todo[3] \in {"t1", "backfill"}
        BY DEF IngestOK
      <3>2. Fetched(todo[1]) \in SUBSET Order
        BY DEF Fetched
      <3>3. TargetDate(todo[3], todo[1]) \in Int
        BY <3>1, DayTypes
      <3>4. [day |-> todo[1], orders |-> Fetched(todo[1]),
             partition |-> TargetDate(todo[3], todo[1])]
                \in [day : Int, orders : SUBSET Order, partition : Int]
        BY <3>1, <3>2, <3>3
      <3> QED
        BY <2>1, <3>4 DEF IngestDay, IngestOK
    <2>2. CASE ~IngestDay
      <3>1. objects' = objects
        BY <2>2 DEF Ingest, Launch, DayFails, IngestKilled, EditSeed, Tick, ingestVars
      <3> QED
        BY <3>1 DEF IngestOK
    <2> QED
      BY <2>1, <2>2
  <1>6. RowsOK'
    <2>1. UNCHANGED <<silver, goldVars>>
      BY DEF Ingest, Launch, IngestDay, DayFails, IngestKilled, EditSeed, Tick
    <2>2. 0..Len(objects) \subseteq 0..Len(objects')
      BY <1>5
    <2> QED
      BY <2>1, <2>2 DEF RowsOK, goldVars
  <1> QED
    BY <1>1, <1>2, <1>3, <1>4, <1>5, <1>6 DEF IngestOK

\* What a build leaves of IngestOK and the seed file.
LEMMA BuildFrame ==
    ASSUME IInv, Build
    PROVE  IngestOK' /\ UNCHANGED <<objects, seed_file>>
  BY DEF IInv, IngestOK, ingestVars, Build, StartBuild, FinishBuild, BuildStops, NodeFails,
         Fails, RunSeed, RunSilverOrders, TestSilverOrders, RunDim, TestDim, RunFact

\* A node of a build succeeds.
LEMMA SucceedsType ==
    ASSUME DbtOK, NEW n \in Node, Runnable(n), Succeeds(n), UNCHANGED buildVars
    PROVE  /\ DbtOK'
           /\ node'[n] = "ok" /\ node[n] = "pending"
           /\ \A k \in Node : k # n => node'[k] = node[k]
           /\ tables \subseteq tables'
           /\ tables' \subseteq tables \union {n}
           /\ \A p \in Parents(n) : Settled(p)
  BY DEF DbtOK, Runnable, Succeeds, Statuses, buildVars, Settled

LEMMA NodeNames ==
    /\ {"merchant_cogs_seed", "silver_orders", "dim_menu_catalog",
        "fact_financial_sales"} \subseteq Node
    /\ {"silver_orders_tests", "dim_menu_catalog_tests"} \subseteq Node
    /\ Parents("fact_financial_sales") =
           {"silver_orders", "silver_orders_tests", "merchant_cogs_seed"}
    /\ Parents("dim_menu_catalog") = {"silver_orders", "silver_orders_tests"}
    /\ Parents("silver_orders_tests") = {"silver_orders"}
  BY DEF Node, Model, Test, Parents

\* The build starts, ends, or a node of it fails.
LEMMA StatusKeeps ==
    ASSUME IInv, StartBuild \/ FinishBuild \/ BuildStops \/ NodeFails
    PROVE  IInv'
  <1> USE DEF IInv
  <1>1. IngestOK' /\ UNCHANGED <<objects, seed_file>>
    BY BuildFrame DEF Build
  <1>2. UNCHANGED <<cogs, tables, silver, goldVars>>
    BY DEF StartBuild, FinishBuild, BuildStops, NodeFails
  <1>3. SeedOK' /\ RowsOK'
    BY <1>1, <1>2 DEF SeedOK, RowsOK, goldVars
  <1>4. /\ node' \in [Node -> Statuses]
        /\ \A n \in Node : node'[n] \in {"ok", "error", "skipped", "idle", "pending"}
        /\ \A n \in Node : node'[n] = "ok" => node[n] = "ok"
        /\ (\E n \in Node : node'[n] = "ok") => \A n \in Node : node'[n] = "pending" => node[n] = "pending"
    BY DEF StartBuild, FinishBuild, BuildStops, NodeFails, Fails, DbtOK, Statuses
  <1>5. DbtOK'
    <2>1. builds' \in 0..MaxBuilds
      BY MedallionAssumption
      DEF StartBuild, FinishBuild, BuildStops, NodeFails, DbtOK, buildVars
    <2>2. status' \in {"NONE", "STARTED", "SUCCESS", "FAILED"}
      BY DEF StartBuild, FinishBuild, BuildStops, NodeFails, DbtOK, buildVars
    <2>3. building' \in BOOLEAN
      BY Zenon DEF StartBuild, FinishBuild, BuildStops, NodeFails, DbtOK, buildVars
    <2> QED
      BY <1>2, <1>4, <2>1, <2>2, <2>3 DEF DbtOK
  <1>6. SkusInSilver' = SkusInSilver
    BY <1>2 DEF SkusInSilver
  <1>7. TablesInv'
    BY <1>2, <1>6 DEF TablesInv, goldVars
  <1>8. BuildInv'
    BY <1>2, <1>4, <1>6, NodeNames DEF BuildInv, GoldFollowsSilver, Settled, goldVars
  <1> QED
    BY <1>1, <1>3, <1>5, <1>7, <1>8

LEMMA RunSeedKeeps ==
    ASSUME IInv, RunSeed
    PROVE  IInv'
  <1> USE DEF IInv
  <1>1. IngestOK' /\ UNCHANGED <<objects, seed_file>>
    BY BuildFrame DEF Build
  <1>2. cogs' = seed_file /\ UNCHANGED <<silver, goldVars, buildVars>>
    BY DEF RunSeed
  <1>3. /\ DbtOK' /\ node["merchant_cogs_seed"] = "pending"
        /\ \A k \in Node : k # "merchant_cogs_seed" => node'[k] = node[k]
        /\ tables \subseteq tables' /\ tables' \subseteq tables \union {"merchant_cogs_seed"}
    BY <1>2, SucceedsType, NodeNames DEF RunSeed
  <1>4. SeedOK' /\ RowsOK'
    BY <1>1, <1>2, MedallionAssumption DEF SeedOK, RowsOK, goldVars
  <1>5. SkusInSilver' = SkusInSilver
    BY <1>2 DEF SkusInSilver
  <1>6. TablesInv'
    BY <1>2, <1>3, <1>5 DEF TablesInv, goldVars
  <1>7. BuildInv'
    BY <1>2, <1>3, <1>5, NodeNames DEF BuildInv, GoldFollowsSilver, Settled, goldVars
  <1> QED
    BY <1>1, <1>3, <1>4, <1>6, <1>7

LEMMA RunSilverOrdersKeeps ==
    ASSUME IInv, RunSilverOrders
    PROVE  IInv'
  <1> USE DEF IInv
  <1>1. IngestOK' /\ UNCHANGED <<objects, seed_file>>
    BY BuildFrame DEF Build
  <1>2. silver' = [l \in Line |-> SilverAfter(l)] /\ UNCHANGED <<cogs, goldVars, buildVars>>
    BY DEF RunSilverOrders
  <1>3. /\ DbtOK' /\ node["silver_orders"] = "pending"
        /\ \A k \in Node : k # "silver_orders" => node'[k] = node[k]
        /\ "silver_orders" \in tables'
    <2>1. "silver_orders" \in tables'
      BY DEF RunSilverOrders, Succeeds, Model
    <2> QED
      BY <1>2, <2>1, SucceedsType, NodeNames DEF RunSilverOrders
  <1>4. \A l \in Line : silver[l] > 0 => silver'[l] = silver[l]
    BY <1>2, SilverAfterType
  <1>5. SeedOK' /\ RowsOK'
    <2>1. silver' \in [Line -> 0..Len(objects)]
      BY <1>2, SilverAfterType
    <2> QED
      BY <2>1, <1>1, <1>2 DEF SeedOK, RowsOK, goldVars
  <1>6. TablesInv'
    <2>1. \A l \in Line : fact'[l] > 0 => fact'[l] = silver'[l]
      BY <1>2, <1>4 DEF TablesInv, goldVars
    <2>2. SkusInSilver \subseteq SkusInSilver'
      BY <1>4 DEF SkusInSilver
    <2> QED
      BY <2>1, <2>2, <1>2, <1>3 DEF TablesInv, goldVars
  <1>7. BuildInv'
    BY <1>3, NodeNames DEF BuildInv, GoldFollowsSilver, Settled
  <1> QED
    BY <1>1, <1>3, <1>5, <1>6, <1>7

LEMMA TestsKeep ==
    ASSUME IInv, TestSilverOrders \/ TestDim
    PROVE  IInv'
  <1> USE DEF IInv
  <1>1. IngestOK' /\ UNCHANGED <<objects, seed_file>>
    BY BuildFrame DEF Build
  <1>2. UNCHANGED <<cogs, silver, goldVars, buildVars>>
    BY DEF TestSilverOrders, TestDim
  <1>3. /\ DbtOK'
        /\ \A k \in Model : node'[k] = node[k]
        /\ tables' \intersect Model = tables \intersect Model
    <2>1. PICK n \in Test : Runnable(n) /\ Succeeds(n)
      BY DEF TestSilverOrders, TestDim, Test
    <2>2. n \in Node /\ n \notin Model
      BY DEF Node, Test, Model
    <2> QED
      BY <1>2, <2>1, <2>2, SucceedsType DEF Node
  <1>4. SeedOK' /\ RowsOK'
    BY <1>1, <1>2 DEF SeedOK, RowsOK, goldVars
  <1>5. SkusInSilver' = SkusInSilver
    BY <1>2 DEF SkusInSilver
  <1>6. TablesInv'
    BY <1>2, <1>3, <1>5 DEF TablesInv, goldVars, Model
  <1>7. BuildInv'
    BY <1>2, <1>3, <1>5 DEF BuildInv, GoldFollowsSilver, Settled, goldVars, Model
  <1> QED
    BY <1>1, <1>3, <1>4, <1>6, <1>7

LEMMA RunDimKeeps ==
    ASSUME IInv, RunDim
    PROVE  IInv'
  <1> USE DEF IInv
  <1>1. IngestOK' /\ UNCHANGED <<objects, seed_file>>
    BY BuildFrame DEF Build
  <1>2. dim' = dim \union SkusInSilver /\ UNCHANGED <<cogs, silver, fact, costed, buildVars>>
    BY DEF RunDim
  <1>3. /\ DbtOK' /\ Settled("silver_orders")
        /\ \A k \in Node : k # "dim_menu_catalog" => node'[k] = node[k]
        /\ tables \subseteq tables' /\ tables' \subseteq tables \union {"dim_menu_catalog"}
    BY <1>2, SucceedsType, NodeNames DEF RunDim
  <1>4. SkusInSilver' = SkusInSilver /\ SkusInSilver \subseteq Sku
    BY <1>2, LineType DEF SkusInSilver
  <1>5. SeedOK' /\ RowsOK'
    BY <1>1, <1>2, <1>4 DEF SeedOK, RowsOK
  <1>6. TablesInv'
    BY <1>2, <1>3, <1>4 DEF TablesInv
  <1>7. BuildInv'
    <2>1. dim' = SkusInSilver'
      BY <1>2, <1>4 DEF TablesInv
    <2> QED
      BY <2>1, <1>2, <1>3, NodeNames DEF BuildInv, GoldFollowsSilver, Settled
  <1> QED
    BY <1>1, <1>3, <1>5, <1>6, <1>7

LEMMA RunFactKeeps ==
    ASSUME IInv, RunFact
    PROVE  IInv'
  <1> USE DEF IInv
  <1>1. IngestOK' /\ UNCHANGED <<objects, seed_file>>
    BY BuildFrame DEF Build
  <1>2. /\ UNCHANGED <<cogs, silver, dim, buildVars>>
        /\ fact' = [l \in Line |-> IF silver[l] > 0 /\ fact[l] = 0 THEN silver[l] ELSE fact[l]]
        /\ costed' = [l \in Line |-> IF silver[l] > 0 THEN cogs ELSE costed[l]]
    BY DEF RunFact, Selected
  <1>3. /\ DbtOK' /\ Settled("silver_orders") /\ Settled("merchant_cogs_seed")
        /\ \A k \in Node : k # "fact_financial_sales" => node'[k] = node[k]
        /\ tables \subseteq tables' /\ tables' \subseteq tables \union {"fact_financial_sales"}
    BY <1>2, SucceedsType, NodeNames DEF RunFact
  <1>4. \A l \in Line : silver[l] \in Nat /\ fact[l] \in Nat
    BY DEF RowsOK, IngestOK
  <1>5. \A l \in Line : fact'[l] = silver[l] /\ (fact'[l] > 0 => costed'[l] = cogs)
    BY <1>2, <1>4 DEF TablesInv
  <1>6. SkusInSilver' = SkusInSilver
    BY <1>2 DEF SkusInSilver
  <1>7. SeedOK' /\ RowsOK'
    <2>1. cogs \in 0..MaxSeeds
      BY MedallionAssumption DEF SeedOK
    <2> QED
      BY <2>1, <1>1, <1>2 DEF SeedOK, RowsOK
  <1>8. TablesInv'
    BY <1>2, <1>3, <1>5, <1>6 DEF TablesInv
  <1>9. BuildInv'
    BY <1>2, <1>3, <1>5, <1>6, NodeNames DEF BuildInv, GoldFollowsSilver, Settled
  <1> QED
    BY <1>1, <1>3, <1>7, <1>8, <1>9

LEMMA NextIInv == IInv /\ [Next]_vars => IInv'
  <1> SUFFICES ASSUME IInv, [Next]_vars PROVE IInv'
    OBVIOUS
  <1>1. CASE Ingest \/ EditSeed \/ Tick
    BY <1>1, IngestKeeps
  <1>2. CASE Build
    BY <1>2, StatusKeeps, RunSeedKeeps, RunSilverOrdersKeeps, TestsKeep, RunDimKeeps,
       RunFactKeeps
    DEF Build
  <1>3. CASE UNCHANGED vars
    <2>1. UNCHANGED <<now, todo, objects, seed_file, cogs, tables, silver, goldVars, node, buildVars>>
      BY <1>3 DEF vars, ingestVars
    <2>2. IngestOK' /\ SeedOK' /\ RowsOK'
      BY <2>1 DEF IInv, IngestOK, SeedOK, RowsOK, goldVars
    <2> QED
      BY <2>1, <2>2, FrameTables DEF IInv
  <1> QED
    BY <1>1, <1>2, <1>3 DEF Next

LEMMA IInvariance == Spec => []IInv
  BY InitIInv, NextIInv, PTL DEF Spec

(***************************************************************************)
(* No duplicates in Gold                                                   *)
(***************************************************************************)
\* Nobody builds the fact table without the tests of silver_orders.
GatedSelections ==
    \A selected \in Selections :
        "fact_financial_sales" \in selected => "silver_orders_tests" \in selected

GateInv ==
    /\ node["silver_orders_tests"] = "ok" => OrdersAreUnique /\ Settled("silver_orders")
    /\ node["fact_financial_sales"] = "pending" => node["silver_orders_tests"] # "idle"
    /\ GoldUnique

LEMMA InitGate == Init => GateInv
  <1> SUFFICES ASSUME Init PROVE GateInv
    OBVIOUS
  <1>1. node["silver_orders_tests"] = "idle" /\ node["fact_financial_sales"] = "idle"
    BY NodeNames DEF Init
  <1> QED
    BY <1>1 DEF Init, GateInv, GoldUnique

\* What a build does to one line item once the tests have passed.
LEMMA UniqueRows ==
    ASSUME OrdersAreUnique, NEW l \in Line, silver[l] > 0
    PROVE  silver[l] = 1
  BY DEF OrdersAreUnique

LEMMA NextGate == GatedSelections /\ IInv /\ GateInv /\ [Next]_vars => GateInv'
  <1> SUFFICES ASSUME GatedSelections, IInv, GateInv, [Next]_vars PROVE GateInv'
    OBVIOUS
  <1> USE DEF IInv
  <1>1. CASE Ingest \/ EditSeed \/ Tick \/ UNCHANGED vars
    <2>1. UNCHANGED <<silver, fact, node>>
      BY <1>1
      DEF Ingest, Launch, IngestDay, DayFails, IngestKilled, EditSeed, Tick, vars, goldVars
    <2> QED
      BY <2>1 DEF GateInv, OrdersAreUnique, GoldUnique, Settled
  <1>2. CASE StartBuild
    <2>1. PICK selected \in Selections :
             node' = [n \in Node |-> IF n \in selected THEN "pending" ELSE "idle"]
      BY <1>2 DEF StartBuild
    <2>2. UNCHANGED fact
      BY <1>2 DEF StartBuild, goldVars
    <2> QED
      BY <2>1, <2>2, NodeNames DEF GatedSelections, GateInv, GoldUnique
  <1>3. CASE FinishBuild \/ BuildStops \/ NodeFails
    <2>1. /\ \A n \in Node : node'[n] = "ok" => node[n] = "ok"
          /\ \A n \in Node : node'[n] = "pending" => node[n] = "pending"
          /\ \A n \in Node : node'[n] = "idle" => node[n] = "idle"
          /\ UNCHANGED <<silver, fact>>
      BY <1>3 DEF FinishBuild, BuildStops, NodeFails, Fails, DbtOK, goldVars
    <2> QED
      BY <2>1, NodeNames DEF GateInv, OrdersAreUnique, GoldUnique, Settled
  <1>4. ASSUME NEW n \in Node, Runnable(n), Succeeds(n), UNCHANGED buildVars
        PROVE  /\ node'[n] = "ok" /\ node[n] = "pending"
               /\ \A k \in Node : k # n => node'[k] = node[k]
    BY <1>4, SucceedsType
  <1>5. CASE RunSeed \/ RunDim \/ TestDim
    <2>1. PICK n \in {"merchant_cogs_seed", "dim_menu_catalog", "dim_menu_catalog_tests"} :
             Runnable(n) /\ Succeeds(n)
      BY <1>5 DEF RunSeed, RunDim, TestDim
    <2>2. UNCHANGED <<silver, fact, buildVars>>
      BY <1>5 DEF RunSeed, RunDim, TestDim, goldVars
    <2> QED
      BY <1>4, <2>1, <2>2, NodeNames DEF GateInv, OrdersAreUnique, GoldUnique, Settled
  <1>6. CASE RunSilverOrders
    <2>1. node["silver_orders"] = "pending" /\ Succeeds("silver_orders") /\ UNCHANGED <<fact, buildVars>>
      BY <1>6 DEF RunSilverOrders, Runnable, goldVars
    <2>2. node'["silver_orders_tests"] # "ok"
      BY <1>4, <1>6, <2>1, NodeNames DEF RunSilverOrders, GateInv, Settled
    <2> QED
      BY <1>4, <1>6, <2>1, <2>2, NodeNames DEF RunSilverOrders, GateInv, GoldUnique
  <1>7. CASE TestSilverOrders
    <2>1. OrdersAreUnique /\ UNCHANGED <<silver, fact, buildVars>>
      BY <1>7 DEF TestSilverOrders, goldVars
    <2>2. Settled("silver_orders")
      BY <1>7, NodeNames DEF TestSilverOrders, Runnable, Settled
    <2> QED
      BY <1>4, <1>7, <2>1, <2>2, NodeNames
      DEF TestSilverOrders, GateInv, OrdersAreUnique, GoldUnique, Settled
  <1>8. CASE RunFact
    <2>1. /\ Runnable("fact_financial_sales") /\ Succeeds("fact_financial_sales")
          /\ UNCHANGED <<silver, buildVars>>
          /\ fact' = [l \in Line |-> IF silver[l] > 0 /\ fact[l] = 0 THEN silver[l] ELSE fact[l]]
      BY <1>8 DEF RunFact, Selected
    <2>2. node["silver_orders_tests"] \in {"ok", "idle"}
      BY <2>1, NodeNames DEF Runnable
    <2>3. OrdersAreUnique
      BY <2>1, <2>2 DEF GateInv, Runnable
    <2>4. GoldUnique'
      BY <2>1, <2>3, UniqueRows DEF GateInv, GoldUnique
    <2> QED
      BY <1>4, <2>1, <2>4, NodeNames DEF GateInv, OrdersAreUnique, Settled
  <1> QED
    BY <1>1, <1>2, <1>3, <1>5, <1>6, <1>7, <1>8 DEF Next, Build

(***************************************************************************)
(* Theorems                                                                *)
(***************************************************************************)
\* Type correctness, for any orders and bounds: silver_orders and the fact table
\* hold at most one row of a line item for each orders object ever put.
THEOREM TypeCorrect == Spec => []TypeOK
  <1>1. IInv => TypeOK
    BY DEF IInv, IngestOK, SeedOK, RowsOK, DbtOK, TypeOK
  <1> QED
    BY <1>1, IInvariance, PTL

\* After a build that succeeded on Gold, however many failed before it, Gold has
\* the rows of Silver and costs them with the seed of that build.
THEOREM GoldMatchesSilver == Spec => []GoldFollowsSilver
  <1>1. IInv => GoldFollowsSilver
    BY DEF IInv, BuildInv
  <1> QED
    BY <1>1, IInvariance, PTL

\* The uniqueness test of silver_orders keeps duplicates out of Gold, as long as
\* whoever builds the fact table builds the test.
THEOREM GoldHasNoDuplicates == ASSUME GatedSelections PROVE Spec => []GoldUnique
  <1>1. IInv /\ GateInv /\ [Next]_vars => GateInv'
    BY NextGate
  <1>2. GateInv => GoldUnique
    BY DEF GateInv
  <1> QED
    BY <1>1, <1>2, InitGate, IInvariance, PTL DEF Spec
=============================================================================
