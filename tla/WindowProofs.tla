----------------------------- MODULE WindowProofs -----------------------------
(***************************************************************************)
(* The windows of ingestion/run.py for every store west of UTC, every      *)
(* change of its clocks and every length of a day: a window holds exactly  *)
(* the instants of its local day, a T-1 run takes the last day that is     *)
(* over, its object is complete, and objects are filed under that day.     *)
(*                                                                         *)
(* The window of a day is well defined when the change of the clocks stays *)
(* within a day, whose first instant it may be: clocks that go back or     *)
(* forward over a midnight show the end of a day twice or not at all.      *)
(***************************************************************************)
EXTENDS MedallionProofs, TLAPS

\* The wall times the clocks change from and to are of one day.
ChangeWithinDay ==
    \E k \in Int :
        {Shift - Offset, Shift - NewOffset} \subseteq
            k * DayLength .. k * DayLength + DayLength - 1

\* A day that is still to be ingested is over.
PendingDaysAreOver ==
    /\ now \in Int /\ todo \in Int \X Int \X {"t1", "backfill"}
    /\ Days(todo) > 0 => todo[2] < LocalDay(now)

CompleteInv == PendingDaysAreOver /\ ObjectsAreComplete

-----------------------------------------------------------------------------
(***************************************************************************)
(* Days and instants                                                       *)
(***************************************************************************)
\* A later day starts at least a day's length later.
LEMMA LaterDay ==
    ASSUME NEW D \in Nat \ {0}, NEW c \in Int, NEW d \in Int, c < d
    PROVE  c * D + D <= d * D
<1> DEFINE k == d - c - 1
<1>1. k \in Nat /\ d = c + 1 + k
  OBVIOUS
<1>2. d * D = c * D + D + k * D
  BY <1>1
<1>3. k * D >= 0
  BY <1>1
<1>4. c * D \in Int /\ k * D \in Int
  BY <1>1
<1>5. QED
  BY <1>2, <1>3, <1>4

\* The day of an instant is the one it lies in.
LEMMA DayOf ==
    ASSUME NEW D \in Nat \ {0}, NEW t \in Int, NEW d \in Int
    PROVE  t \div D = d <=> d * D <= t /\ t < d * D + D
<1> DEFINE q == t \div D
<1>1. q \in Int /\ q * D <= t /\ t < q * D + D
  OBVIOUS
<1> HIDE DEF q
<1>2. d * D \in Int /\ q * D \in Int
  BY <1>1
<1>3. CASE d < q
  BY <1>1, <1>2, <1>3, LaterDay
<1>4. CASE q < d
  BY <1>1, <1>2, <1>4, LaterDay
<1>5. CASE q = d
  BY <1>1, <1>5
<1>6. QED
  BY <1>1, <1>3, <1>4, <1>5 DEF q

\* The constants are integers, and the store is less than a day behind UTC.
LEMMA Zone ==
    /\ DayLength \in Nat \ {0} /\ Shift \in Int
    /\ Offset \in Int /\ 0 <= Offset /\ Offset < DayLength
    /\ NewOffset \in Int /\ 0 <= NewOffset /\ NewOffset < DayLength
    /\ \A d \in Int : d * DayLength \in Int
BY MedallionAssumption

\* The local day of an instant, without the division.
LEMMA LocalDayOf ==
    ASSUME NEW t \in Int, NEW d \in Int
    PROVE  /\ Wall(t) \in Int /\ LocalDay(t) \in Int
           /\ LocalDay(t) = d <=> d * DayLength <= Wall(t) /\ Wall(t) < d * DayLength + DayLength
<1>1. Wall(t) \in Int
  BY Zone DEF Wall
<1>2. QED
  BY <1>1, Zone, DayOf DEF LocalDay

\* compute_window_for_date: the window of a day holds the instants at which the
\* store's clock shows that day, and no others.
LEMMA WindowIsDay ==
    ASSUME ChangeWithinDay, NEW d \in Int, NEW t \in Int
    PROVE  /\ WindowStart(d) \in Int /\ WindowEnd(d) \in Int
           /\ LocalDay(t) = d <=> t \in WindowStart(d)..WindowEnd(d)
<1> DEFINE A == d * DayLength
<1>1. (d + 1) * DayLength - 1 = A + DayLength - 1 /\ A \in Int
  BY Zone
<1>2. WindowStart(d) = Instant(A) /\ WindowEnd(d) = Instant(A + DayLength - 1)
  BY <1>1 DEF WindowStart, WindowEnd
<1>3. LocalDay(t) = d <=> A <= Wall(t) /\ Wall(t) < A + DayLength
  BY LocalDayOf
<1> HIDE DEF A
<1>4. CASE Offset = NewOffset
  BY <1>1, <1>2, <1>3, <1>4, Zone DEF Instant, Wall
<1>5. CASE Offset # NewOffset
  <2>1. PICK k \in Int :
          {Shift - Offset, Shift - NewOffset} \subseteq
              k * DayLength .. k * DayLength + DayLength - 1
    BY DEF ChangeWithinDay
  <2> DEFINE K == k * DayLength
  <2>2. /\ K \in Int
        /\ K <= Shift - Offset /\ Shift - Offset < K + DayLength
        /\ K <= Shift - NewOffset /\ Shift - NewOffset < K + DayLength
    BY <2>1, Zone
  <2>3. A = K \/ A + DayLength <= K \/ K + DayLength <= A
    BY LaterDay, Zone DEF A
  <2> HIDE DEF K
  <2>4. CASE A = K
    BY <1>1, <1>2, <1>3, <2>2, <2>4, Zone DEF Instant, Wall
  <2>5. CASE A + DayLength <= K
    BY <1>1, <1>2, <1>3, <2>2, <2>5, Zone DEF Instant, Wall
  <2>6. CASE K + DayLength <= A
    BY <1>1, <1>2, <1>3, <2>2, <2>6, Zone DEF Instant, Wall
  <2>7. QED
    BY <2>3, <2>4, <2>5, <2>6
<1>6. QED
  BY <1>4, <1>5

\* The store's date never goes back, although its clock may.
LEMMA DaysGoOn ==
    ASSUME ChangeWithinDay, NEW s \in Int, NEW t \in Int, s <= t
    PROVE  LocalDay(s) <= LocalDay(t)
<1> DEFINE d == LocalDay(s)
           e == LocalDay(t)
<1>1. d \in Int /\ e \in Int
  BY LocalDayOf
<1>2. /\ Wall(s) \in Int /\ Wall(t) \in Int
      /\ d * DayLength \in Int /\ e * DayLength \in Int
      /\ d * DayLength <= Wall(s) /\ Wall(t) < e * DayLength + DayLength
  BY <1>1, LocalDayOf, Zone
<1> HIDE DEF d, e
<1>3. ASSUME e < d PROVE FALSE
  <2>1. e * DayLength + DayLength <= d * DayLength
    BY <1>1, <1>3, LaterDay, Zone
  <2>2. Wall(t) < Wall(s)
    BY <1>2, <2>1, Zone
  <2>3. s < Shift /\ Shift <= t /\ Offset # NewOffset
    BY <2>2, Zone DEF Wall
  <2>4. PICK k \in Int :
          {Shift - Offset, Shift - NewOffset} \subseteq
              k * DayLength .. k * DayLength + DayLength - 1
    BY <2>3 DEF ChangeWithinDay
  <2>5. Wall(s) < k * DayLength + DayLength /\ k * DayLength <= Wall(t)
    BY <2>3, <2>4, Zone DEF Wall
  <2>6. ~(k < d)
    <3>1. k < d => k * DayLength + DayLength <= d * DayLength
      BY <1>1, LaterDay, Zone
    <3>2. QED
      BY <1>2, <2>5, <3>1, Zone
  <2>7. ~(e < k)
    <3>1. e < k => e * DayLength + DayLength <= k * DayLength
      BY <1>1, LaterDay, Zone
    <3>2. QED
      BY <1>2, <2>5, <3>1, Zone
  <2>8. QED
    BY <1>1, <1>3, <2>6, <2>7
<1>4. QED
  BY <1>1, <1>3 DEF d, e

\* The last instant of a window shows its day.
LEMMA WindowEndsInDay ==
    ASSUME ChangeWithinDay, NEW d \in Int
    PROVE  LocalDay(WindowEnd(d)) = d
<1>1. WindowStart(d) \in Int /\ WindowEnd(d) \in Int
  BY WindowIsDay
<1>2. WindowStart(d) <= WindowEnd(d)
  <2>1. (d + 1) * DayLength - 1 = d * DayLength + DayLength - 1 /\ d * DayLength \in Int
    BY Zone
  <2>2. PICK t \in Int : LocalDay(t) = d
    <3> DEFINE A == d * DayLength
    <3>1. A \in Int
      BY Zone
    <3>2. ASSUME NEW t \in Int, A <= Wall(t), Wall(t) < A + DayLength
          PROVE  LocalDay(t) = d
      BY <3>2, LocalDayOf
    <3> HIDE DEF A
    <3>3. CASE A + Offset < Shift
      <4>1. A + Offset \in Int /\ Wall(A + Offset) = A
        BY <3>1, <3>3, Zone DEF Wall
      <4>2. QED
        BY <3>1, <3>2, <4>1, Zone
    <3>4. CASE Shift <= A + NewOffset
      <4>1. A + NewOffset \in Int /\ Wall(A + NewOffset) = A
        BY <3>1, <3>4, Zone DEF Wall
      <4>2. QED
        BY <3>1, <3>2, <4>1, Zone
    <3>5. CASE Shift <= A + Offset /\ A + NewOffset < Shift
      <4>1. Wall(Shift) = Shift - NewOffset
        BY Zone DEF Wall
      <4>2. A <= Shift - NewOffset /\ Shift - NewOffset < A + DayLength
        BY <3>1, <3>5, Zone
      <4>3. QED
        BY <3>2, <4>1, <4>2, Zone
    <3>6. QED
      BY <3>1, <3>3, <3>4, <3>5, Zone
  <2>3. QED
    BY <1>1, <2>2, WindowIsDay
<1>3. WindowEnd(d) \in WindowStart(d)..WindowEnd(d)
  BY <1>1, <1>2
<1>4. QED
  BY <1>1, <1>3, WindowIsDay

-----------------------------------------------------------------------------
(***************************************************************************)
(* The steps                                                               *)
(***************************************************************************)
\* Time goes on; a day is to do because it was, or because a run has just been
\* launched for it.
LEMMA IngestTypes ==
    ASSUME now \in Int, todo \in Int \X Int \X {"t1", "backfill"}, [Next]_vars
    PROVE  /\ now' \in Int /\ now <= now'
           /\ todo' \in Int \X Int \X {"t1", "backfill"}
           /\ Days(todo') > 0 =>
                 \/ Days(todo) > 0 /\ todo'[2] = todo[2]
                 \/ now' = now /\ Days(todo) = 0 /\ todo' = <<T1Day, T1Day, "t1">>
                 \/ "backfill" \in Modes
<1> USE DEF ingestVars, goldVars, buildVars
<1>0. T1Day \in Int /\ BackfillFirst \in Int /\ BackfillLast \in Int
  <2>1. LocalDay(now) \in Int
    BY LocalDayOf
  <2>2. UtcDay(now) \in Int
    BY Zone DEF UtcDay
  <2>3. QED
    BY <2>1, <2>2, MedallionAssumption DEF T1Day, BackfillFirst, BackfillLast
<1>1. CASE Launch
  BY <1>0, <1>1 DEF Launch
<1>2. CASE IngestDay \/ DayFails \/ IngestKilled
  <2>1. now' = now /\ Days(todo) > 0 /\ (NextDay \/ todo' = Idle)
    BY <1>2 DEF IngestDay, DayFails, IngestKilled
  <2>2. Days(Idle) = 0 /\ Idle \in Int \X Int \X {"t1", "backfill"}
    BY DEF Idle, Days
  <2>3. QED
    BY <2>1, <2>2 DEF NextDay, Days
<1>3. CASE Tick
  BY <1>3 DEF Tick
<1>4. CASE UNCHANGED ingestVars
  BY <1>4 DEF Days
<1>5. CASE Build \/ EditSeed \/ UNCHANGED vars
  BY <1>4, <1>5 DEF Build, EditSeed, vars, StartBuild, FinishBuild, BuildStops, NodeFails, RunSeed,
     RunSilverOrders, TestSilverOrders, RunDim, TestDim, RunFact
<1>6. QED
  BY <1>1, <1>2, <1>3, <1>5 DEF Next, Ingest

\* Only ingesting a day puts an object.
LEMMA ObjectsChange ==
    ASSUME [Next]_vars
    PROVE  objects' = objects \/ (Days(todo) > 0 /\ IngestDay)
<1> USE DEF ingestVars, goldVars, buildVars
<1>1. CASE Ingest \/ Tick \/ EditSeed \/ UNCHANGED vars
  BY <1>1 DEF Ingest, Launch, IngestDay, DayFails, IngestKilled, Tick, EditSeed, vars
<1>2. CASE Build
  BY <1>2 DEF Build, StartBuild, FinishBuild, BuildStops, NodeFails, RunSeed,
     RunSilverOrders, TestSilverOrders, RunDim, TestDim, RunFact
<1>3. QED
  BY <1>1, <1>2 DEF Next

\* The objects after a day is ingested.
LEMMA ObjectsAfter ==
    ASSUME TypeOK, IngestDay
    PROVE  /\ DOMAIN objects' = DOMAIN objects \union {Len(objects) + 1}
           /\ \A i \in DOMAIN objects : objects'[i] = objects[i]
           /\ objects'[Len(objects) + 1] =
                 [day |-> todo[1], orders |-> Fetched(todo[1]),
                  partition |-> TargetDate(todo[3], todo[1])]
<1> DEFINE object == [day |-> todo[1], orders |-> Fetched(todo[1]),
                      partition |-> TargetDate(todo[3], todo[1])]
<1>1. objects \in Seq([day : Int, orders : SUBSET Order, partition : Int])
  BY DEF TypeOK
<1>2. objects' = Append(objects, object)
  BY DEF IngestDay
<1>3. Len(objects) \in Nat /\ DOMAIN objects = 1..Len(objects)
  BY <1>1
<1> HIDE DEF object
<1>4. /\ DOMAIN Append(objects, object) = 1..(Len(objects) + 1)
      /\ \A i \in 1..Len(objects) : Append(objects, object)[i] = objects[i]
      /\ Append(objects, object)[Len(objects) + 1] = object
  BY <1>1
<1>5. QED
  BY <1>2, <1>3, <1>4 DEF object

\* An object was there before the step or is that of the day it ingests.
LEMMA ObjectsKeep ==
    ASSUME TypeOK, [Next]_vars, NEW i \in DOMAIN objects'
    PROVE  \/ i \in DOMAIN objects /\ objects'[i] = objects[i]
           \/ /\ Days(todo) > 0
              /\ objects'[i].day = todo[1] /\ objects'[i].orders = Fetched(todo[1])
              /\ objects'[i].partition = TargetDate(todo[3], todo[1])
<1>1. CASE objects' = objects
  BY <1>1
<1>2. CASE Days(todo) > 0 /\ IngestDay
  BY <1>2, ObjectsAfter
<1>3. QED
  BY <1>1, <1>2, ObjectsChange

\* The part of the type invariant the windows need.
LEMMA TodoType == TypeOK => now \in Int /\ todo \in Int \X Int \X {"t1", "backfill"}
BY MedallionAssumption DEF TypeOK

-----------------------------------------------------------------------------
(***************************************************************************)
(* Theorems                                                                *)
(***************************************************************************)
\* The objects of a day are filed under the store's date by T-1 runs as by
\* backfills, for every store west of UTC: midnight there is on the same UTC day.
THEOREM FiledUnderLocalDay == Spec => []PartitionedByLocalDay
<1>1. Init => PartitionedByLocalDay
  BY DEF Init, PartitionedByLocalDay
<1>2. ASSUME TypeOK, PartitionedByLocalDay, [Next]_vars PROVE PartitionedByLocalDay'
  <2>1. TargetDate(todo[3], todo[1]) = todo[1]
    <3> DEFINE d == todo[1]
    <3>1. d \in Int
      BY <1>2, TodoType
    <3> HIDE DEF d
    <3>2. WindowStart(d) \in {d * DayLength + Offset, d * DayLength + NewOffset}
      BY DEF WindowStart, Instant
    <3>3. UtcDay(WindowStart(d)) = d
      BY <3>1, <3>2, DayOf, Zone DEF UtcDay
    <3>4. QED
      BY <3>3 DEF d, TargetDate
  <2>2. QED
    BY <1>2, <2>1, ObjectsKeep DEF PartitionedByLocalDay
<1>3. QED
  BY <1>1, <1>2, TypeCorrect, PTL DEF Spec

\* compute_t1_window takes the last day that is over for the store, on the days
\* its clocks change as on all others.
THEOREM T1TakesLastClosedDay == ASSUME ChangeWithinDay PROVE Spec => T1IsLastClosedDay
<1>1. TypeOK /\ [Next]_vars =>
        [Days(todo) = 0 /\ todo' # todo /\ todo'[3] = "t1" =>
           WindowEnd(todo'[1]) < now /\ now <= WindowEnd(todo'[1] + 1)]_vars
  <2> SUFFICES ASSUME TypeOK, Next, Days(todo) = 0, todo' # todo, todo'[3] = "t1"
               PROVE  WindowEnd(todo'[1]) < now /\ now <= WindowEnd(todo'[1] + 1)
    OBVIOUS
  <2>1. todo'[1] = LocalDay(now) - 1
    BY DEF Next, Ingest, Launch, IngestDay, DayFails, IngestKilled, Build, EditSeed, Tick,
       StartBuild, FinishBuild, BuildStops, NodeFails, RunSeed, RunSilverOrders,
       TestSilverOrders, RunDim, TestDim, RunFact, ingestVars, T1Day
  <2> DEFINE d == LocalDay(now)
  <2>2. now \in Int /\ d \in Int
    BY TodoType, LocalDayOf
  <2> HIDE DEF d
  <2>3. WindowEnd(d - 1) < now
    <3>1. WindowEnd(d - 1) \in Int /\ LocalDay(WindowEnd(d - 1)) = d - 1
      BY <2>2, WindowIsDay, WindowEndsInDay
    <3>2. ASSUME now <= WindowEnd(d - 1) PROVE FALSE
      <4>1. LocalDay(now) <= d - 1
        BY <2>2, <3>1, <3>2, DaysGoOn
      <4>2. QED
        BY <2>2, <4>1 DEF d
    <3>3. QED
      BY <2>2, <3>1, <3>2
  <2>4. now <= WindowEnd(d)
    BY <2>2, WindowIsDay DEF d
  <2>5. QED
    BY <2>1, <2>2, <2>3, <2>4 DEF d
<1>2. QED
  BY <1>1, TypeCorrect, PTL DEF Spec, T1IsLastClosedDay

\* While only T-1 runs are launched, pending days are over and objects complete.
LEMMA CompleteInvariance ==
    ASSUME ChangeWithinDay, Modes \subseteq {"t1"}
    PROVE  Spec => []CompleteInv
<1>1. Init => CompleteInv
  BY MedallionAssumption DEF Init, Idle, Days, CompleteInv, PendingDaysAreOver, ObjectsAreComplete
<1>2. ASSUME TypeOK, CompleteInv, [Next]_vars PROVE CompleteInv'
  <2>1. /\ now \in Int /\ now' \in Int /\ now <= now'
        /\ todo \in Int \X Int \X {"t1", "backfill"} /\ todo' \in Int \X Int \X {"t1", "backfill"}
    BY <1>2, TodoType, IngestTypes
  <2>2. LocalDay(now) \in Int /\ LocalDay(now') \in Int /\ LocalDay(now) <= LocalDay(now')
    BY <2>1, LocalDayOf, DaysGoOn
  <2>3. PendingDaysAreOver'
    <3>1. ASSUME Days(todo') > 0 PROVE todo'[2] < LocalDay(now')
      <4>1. CASE Days(todo) > 0 /\ todo'[2] = todo[2]
        BY <1>2, <2>1, <2>2, <4>1 DEF CompleteInv, PendingDaysAreOver
      <4>2. CASE todo' = <<T1Day, T1Day, "t1">>
        BY <2>2, <4>2 DEF T1Day
      <4>3. QED
        BY <1>2, <2>1, <3>1, <4>1, <4>2, IngestTypes
    <3>2. LocalDay(now)' = LocalDay(now')
      BY DEF LocalDay, Wall
    <3>3. Days(todo)' = Days(todo')
      BY DEF Days
    <3>4. QED
      BY <2>1, <3>1, <3>2, <3>3 DEF PendingDaysAreOver
  <2>4. Days(todo) > 0 => Fetched(todo[1]) = {o \in Order : LocalDay(Created[o]) = todo[1]}
    <3> DEFINE d == todo[1]
    <3>1. SUFFICES ASSUME Days(todo) > 0
                   PROVE  Fetched(d) = {o \in Order : LocalDay(Created[o]) = d}
      OBVIOUS
    <3>2. d \in Int /\ d < LocalDay(now)
      BY <1>2, <2>1, <2>2, <3>1 DEF CompleteInv, PendingDaysAreOver, Days
    <3> HIDE DEF d
    <3>3. ASSUME NEW o \in Order
          PROVE  Created[o] \in WindowStart(d)..WindowEnd(d) /\ Created[o] <= now
                    <=> LocalDay(Created[o]) = d
      <4>1. Created[o] \in Int
        BY MedallionAssumption
      <4>2. Created[o] \in WindowStart(d)..WindowEnd(d) <=> LocalDay(Created[o]) = d
        BY <3>2, <4>1, WindowIsDay
      <4>3. ~(Created[o] <= now) => LocalDay(now) <= LocalDay(Created[o])
        BY <2>1, <4>1, DaysGoOn
      <4>4. QED
        BY <2>2, <3>2, <4>2, <4>3
    <3>4. QED
      BY <3>3 DEF Fetched
  <2>5. ObjectsAreComplete'
    BY <1>2, <2>4, ObjectsKeep DEF CompleteInv, ObjectsAreComplete, LocalDay, Wall
  <2>6. QED
    BY <2>3, <2>5 DEF CompleteInv
<1>3. QED
  BY <1>1, <1>2, TypeCorrect, PTL DEF Spec

\* Every orders object a T-1 run puts holds all the orders of its local day, and
\* no others.
THEOREM T1ObjectsComplete ==
    ASSUME ChangeWithinDay, Modes \subseteq {"t1"}
    PROVE  Spec => []ObjectsAreComplete
<1>1. CompleteInv => ObjectsAreComplete
  BY DEF CompleteInv
<1>2. QED
  BY <1>1, CompleteInvariance, PTL

-----------------------------------------------------------------------------
(***************************************************************************)
(* silver_orders misses nothing of what daily runs ingest                  *)
(*                                                                         *)
(* The filter on the watermark drops an order that is no newer than the    *)
(* newest one in the table.  That is safe as long as such an order is in   *)
(* the table already: days are ingested in their order (DaysInOrder), each *)
(* object is complete (ObjectsAreComplete), and so the table holds Bronze  *)
(* up to the watermark (SilverIsPrefix).                                   *)
(***************************************************************************)
InBronze(o) == \E i \in DOMAIN objects : o \in objects[i].orders
InSilver(o) == \A s \in Items[o] : silver[<<o, s>>] > 0

DaysInOrder ==
    \A i \in DOMAIN objects :
        /\ objects[i].day \in Int /\ objects[i].day < LocalDay(now)
        /\ Days(todo) > 0 => objects[i].day <= todo[1]

SilverIsPrefix ==
    \A l \in Line : silver[l] > 0 =>
        /\ InBronze(l[1])
        /\ \A o \in Order : InBronze(o) /\ Created[o] <= Created[l[1]] => InSilver(o)

ReachInv == DaysInOrder /\ SilverIsPrefix

\* An object holds orders.
LEMMA ObjectOrders ==
    ASSUME IngestOK, NEW i \in DOMAIN objects
    PROVE  objects[i].orders \subseteq Order
<1> DEFINE Object == [day : Int, orders : SUBSET Order, partition : Int]
<1>1. \A object \in Object : object.orders \subseteq Order
  OBVIOUS
<1>2. objects \in Seq(Object)
  BY DEF IngestOK
<1> HIDE DEF Object
<1>3. objects[i] \in Object
  BY <1>2
<1>4. QED
  BY <1>1, <1>3

\* The line items of an order.
LEMMA LinesOf ==
    /\ \A o \in Order : \A s \in Items[o] : <<o, s>> \in Line
    /\ \A l \in Line : l[1] \in Order /\ l[2] \in Items[l[1]] /\ l = <<l[1], l[2]>>
    /\ \A o \in Order : Created[o] \in Int
BY MedallionAssumption DEF Line

\* An order has a copy for each object that holds it.
LEMMA CopiesOfBronze ==
    ASSUME IngestOK, NEW o
    PROVE  Copies(o) > 0 <=> InBronze(o)
<1> DEFINE holding == {i \in DOMAIN objects : o \in objects[i].orders}
<1>1. IsFiniteSet(holding)
  <2>1. DOMAIN objects = 1..Len(objects) /\ Len(objects) \in Nat
    BY DEF IngestOK
  <2>2. IsFiniteSet(1..Len(objects))
    BY <2>1, FS_Interval
  <2>3. holding \subseteq 1..Len(objects)
    BY <2>1
  <2>4. QED
    BY <2>2, <2>3, FS_Subset
<1>2. Cardinality(holding) \in Nat /\ (Cardinality(holding) = 0 <=> holding = {})
  BY <1>1, FS_CardinalityType, FS_EmptySet
<1>3. holding = {} <=> ~InBronze(o)
  BY DEF InBronze
<1>4. QED
  BY <1>2, <1>3 DEF Copies

\* A run of silver_orders brings every order of Bronze into the table.
LEMMA RunReaches ==
    ASSUME IInv, ReachInv, RunSilverOrders, NEW o \in Order, InBronze(o), NEW s \in Items[o]
    PROVE  silver'[<<o, s>>] > 0
<1> DEFINE l == <<o, s>>
<1>1. l \in Line /\ l[1] = o
  BY LinesOf
<1>2. silver'[l] = SilverAfter(l)
  BY <1>1 DEF RunSilverOrders
<1>3. Copies(o) > 0
  BY CopiesOfBronze DEF IInv
<1> HIDE DEF l
<1>4. CASE First("silver_orders")
  <2>1. SilverAfter(l) = Copies(o)
    BY <1>1, <1>4 DEF SilverAfter
  <2>2. QED
    BY <1>2, <1>3, <2>1 DEF l
<1>5. CASE ~First("silver_orders") /\ Newer(o)
  <2>1. ~ \E k \in Line : k[1] = o /\ silver[k] > 0
    BY <1>5, LinesOf DEF Newer
  <2>2. SilverAfter(l) = Copies(o)
    BY <1>1, <1>5, <2>1 DEF SilverAfter, Merged
  <2>3. QED
    BY <1>2, <1>3, <2>2 DEF l
<1>6. CASE ~First("silver_orders") /\ ~Newer(o)
  <2>1. PICK k \in Line : silver[k] > 0 /\ ~(Created[o] > Created[k[1]])
    BY <1>6 DEF Newer
  <2>2. Created[o] <= Created[k[1]]
    BY <2>1, LinesOf
  <2>3. InSilver(o)
    BY <2>1, <2>2 DEF ReachInv, SilverIsPrefix
  <2>4. silver[l] > 0
    BY <2>3 DEF InSilver, l
  <2>5. SilverAfter(l) = silver[l]
    BY <1>1, <2>4, SilverAfterType DEF IInv
  <2>6. QED
    BY <1>2, <2>4, <2>5 DEF l
<1>7. QED
  BY <1>4, <1>5, <1>6 DEF l

\* Only the run of silver_orders changes the table or makes the node ok.
LEMMA SilverChanges ==
    ASSUME IInv, [Next]_vars, ~RunSilverOrders
    PROVE  silver' = silver /\ (node'["silver_orders"] = "ok" => node["silver_orders"] = "ok")
<1> USE DEF ingestVars, goldVars, buildVars
<1>1. node \in [Node -> Statuses] /\ "silver_orders" \in Node
  BY NodeNames DEF IInv, DbtOK
<1>2. CASE Ingest \/ Tick \/ EditSeed \/ UNCHANGED vars
  BY <1>2 DEF Ingest, Launch, IngestDay, DayFails, IngestKilled, Tick, EditSeed, vars
<1>3. CASE StartBuild \/ FinishBuild \/ BuildStops \/ NodeFails
  BY <1>1, <1>3 DEF StartBuild, FinishBuild, BuildStops, NodeFails, Fails
<1>4. CASE RunSeed \/ TestSilverOrders \/ RunDim \/ TestDim \/ RunFact
  BY <1>1, <1>4 DEF RunSeed, TestSilverOrders, RunDim, TestDim, RunFact, Succeeds
<1>5. QED
  BY <1>2, <1>3, <1>4 DEF Next, Build

\* Days are ingested in their order, the clocks changing or not.
LEMMA NextDaysInOrder ==
    ASSUME ChangeWithinDay, Modes \subseteq {"t1"}, TypeOK, CompleteInv, DaysInOrder, [Next]_vars
    PROVE  DaysInOrder'
<1>1. /\ now \in Int /\ now' \in Int /\ LocalDay(now) \in Int /\ LocalDay(now') \in Int
      /\ LocalDay(now) <= LocalDay(now')
      /\ todo \in Int \X Int \X {"t1", "backfill"} /\ todo' \in Int \X Int \X {"t1", "backfill"}
  BY TodoType, IngestTypes, LocalDayOf, DaysGoOn
<1>2. LocalDay(now)' = LocalDay(now') /\ Days(todo)' = Days(todo')
  BY DEF LocalDay, Wall, Days
<1>3. Days(todo) > 0 => todo[1] < LocalDay(now)
  BY <1>1 DEF CompleteInv, PendingDaysAreOver, Days
<1>4. Days(todo') > 0 =>
        \/ Days(todo) > 0 /\ todo[1] <= todo'[1]
        \/ todo'[1] = LocalDay(now) - 1 /\ now' = now /\ Days(todo) = 0
  <2> USE DEF ingestVars, goldVars, buildVars
  <2>1. CASE Launch
    BY <2>1 DEF Launch, T1Day
  <2>2. CASE IngestDay \/ DayFails \/ IngestKilled
    <3>1. Days(todo) > 0 /\ (NextDay \/ todo' = Idle)
      BY <2>2 DEF IngestDay, DayFails, IngestKilled
    <3>2. Days(Idle) = 0
      BY DEF Days, Idle
    <3>3. todo' = <<todo[1] + 1, todo[2], todo[3]>> => todo[1] <= todo'[1]
      BY <1>1
    <3>4. QED
      BY <3>1, <3>2, <3>3 DEF NextDay
  <2>3. CASE todo' = todo
    BY <1>1, <2>3
  <2>4. CASE Tick \/ Build \/ EditSeed \/ UNCHANGED vars
    BY <2>3, <2>4 DEF Tick, Build, EditSeed, vars, StartBuild, FinishBuild, BuildStops, NodeFails,
       RunSeed, RunSilverOrders, TestSilverOrders, RunDim, TestDim, RunFact
  <2>5. QED
    BY <2>1, <2>2, <2>4 DEF Next, Ingest
<1>5. ASSUME NEW i \in DOMAIN objects'
      PROVE  /\ objects'[i].day \in Int /\ objects'[i].day < LocalDay(now)
             /\ Days(todo) > 0 => objects'[i].day <= todo[1]
  <2>1. CASE i \in DOMAIN objects /\ objects'[i] = objects[i]
    BY <2>1 DEF DaysInOrder
  <2>2. CASE Days(todo) > 0 /\ objects'[i].day = todo[1]
    BY <1>1, <1>3, <2>2
  <2>3. QED
    BY <2>1, <2>2, ObjectsKeep
<1>6. ASSUME NEW i \in DOMAIN objects'
      PROVE  /\ objects'[i].day \in Int /\ objects'[i].day < LocalDay(now')
             /\ Days(todo') > 0 => objects'[i].day <= todo'[1]
  <2> DEFINE d == objects'[i].day
             t == todo[1]
             u == todo'[1]
  <2>1. d \in Int /\ t \in Int /\ u \in Int
    BY <1>1, <1>5
  <2>2. d < LocalDay(now) /\ (Days(todo) > 0 => d <= t)
    BY <1>5
  <2>3. Days(todo') > 0 => (Days(todo) > 0 /\ t <= u) \/ u = LocalDay(now) - 1
    BY <1>4
  <2> HIDE DEF d, t, u
  <2>4. d < LocalDay(now') /\ (Days(todo') > 0 => d <= u)
    BY <1>1, <2>1, <2>2, <2>3
  <2>5. QED
    BY <2>1, <2>4 DEF d, u
<1>7. QED
  BY <1>2, <1>6 DEF DaysInOrder

\* An order of a day that is ingested now is newer than the table's, or its day
\* was ingested before.
LEMMA NextSilverIsPrefix ==
    ASSUME ChangeWithinDay, IInv, CompleteInv, CompleteInv', ReachInv, [Next]_vars
    PROVE  SilverIsPrefix'
<1>0. TypeOK
  BY DEF IInv, IngestOK, SeedOK, RowsOK, DbtOK, TypeOK
<1>1. \A o : InBronze(o) => InBronze(o)'
  <2>1. \A i \in DOMAIN objects : i \in DOMAIN objects' /\ objects'[i] = objects[i]
    BY <1>0, ObjectsChange, ObjectsAfter
  <2>2. QED
    BY <2>1 DEF InBronze
<1>2. CASE RunSilverOrders
  <2>1. objects' = objects
    BY <1>2 DEF RunSilverOrders, ingestVars
  <2>2. \A o : InBronze(o)' <=> InBronze(o)
    BY <2>1 DEF InBronze
  <2>3. ASSUME NEW l \in Line, silver'[l] > 0 PROVE InBronze(l[1])
    <3>1. CASE silver[l] > 0
      BY <3>1 DEF ReachInv, SilverIsPrefix
    <3>2. CASE ~(silver[l] > 0)
      <4>1. silver[l] = 0
        BY <3>2 DEF IInv, RowsOK, IngestOK
      <4>2. silver'[l] = SilverAfter(l)
        BY <1>2 DEF RunSilverOrders
      <4>3. SilverAfter(l) \in {Copies(l[1]), silver[l]}
        BY DEF SilverAfter, Merged
      <4>4. Copies(l[1]) > 0
        BY <2>3, <4>1, <4>2, <4>3
      <4>5. QED
        BY <4>4, CopiesOfBronze DEF IInv
    <3>3. QED
      BY <3>1, <3>2
  <2>4. \A o \in Order : InBronze(o) => InSilver(o)'
    BY <1>2, RunReaches DEF InSilver
  <2>5. QED
    BY <2>2, <2>3, <2>4 DEF SilverIsPrefix
<1>3. CASE ~RunSilverOrders
  <2>1. silver' = silver /\ \A o : InSilver(o)' <=> InSilver(o)
    BY <1>3, SilverChanges DEF InSilver
  <2>2. ASSUME NEW l \in Line, silver[l] > 0, NEW o \in Order, InBronze(o)',
               Created[o] <= Created[l[1]]
        PROVE  InSilver(o)
    <3>1. CASE InBronze(o)
      BY <2>2, <3>1 DEF ReachInv, SilverIsPrefix
    <3>2. CASE ~InBronze(o)
      <4>1. PICK i \in DOMAIN objects' : o \in objects'[i].orders
        BY <2>2 DEF InBronze
      <4>2. Days(todo) > 0 /\ objects'[i].day = todo[1]
        BY <1>0, <3>2, <4>1, ObjectsKeep DEF InBronze
      <4>3. PICK j \in DOMAIN objects : l[1] \in objects[j].orders
        BY <2>2 DEF ReachInv, SilverIsPrefix, InBronze
      <4>4. LocalDay(Created[l[1]]) = objects[j].day
        BY <4>3 DEF CompleteInv, ObjectsAreComplete
      <4>5. LocalDay(Created[o]) = objects'[i].day
        <5>1. objects'[i].orders = {u \in Order : LocalDay(Created[u]) = objects'[i].day}
          BY DEF CompleteInv, ObjectsAreComplete, LocalDay, Wall
        <5>2. QED
          BY <4>1, <5>1
      <4>6. LocalDay(Created[o]) <= LocalDay(Created[l[1]])
        BY <2>2, LinesOf, DaysGoOn
      <4>7. objects[j].day <= todo[1] /\ objects[j].day \in Int
        BY <4>2 DEF ReachInv, DaysInOrder
      <4>8. todo[1] \in Int
        BY <1>0, TodoType
      <4>9. LocalDay(Created[o]) = objects[j].day
        BY <4>2, <4>4, <4>5, <4>6, <4>7, <4>8
      <4>10. o \in objects[j].orders
        BY <4>9 DEF CompleteInv, ObjectsAreComplete
      <4>11. QED
        BY <3>2, <4>10 DEF InBronze
    <3>3. QED
      BY <3>1, <3>2
  <2>3. \A l \in Line : silver[l] > 0 => InBronze(l[1])'
    BY <1>1 DEF ReachInv, SilverIsPrefix
  <2>4. QED
    BY <2>1, <2>2, <2>3 DEF SilverIsPrefix
<1>4. QED
  BY <1>2, <1>3

\* While Bronze is fed by daily runs, a run of silver_orders takes in every order
\* Bronze holds by then: no failed, killed or repeated day, failed build or change
\* of the clocks hides an order behind the watermark.
THEOREM DailyOrdersReachSilver ==
    ASSUME ChangeWithinDay, Modes \subseteq {"t1"}
    PROVE  Spec => BronzeReachesSilver
<1>1. Spec => []CompleteInv
  BY CompleteInvariance
<1>2. Init => ReachInv
  BY DEF Init, ReachInv, DaysInOrder, SilverIsPrefix
<1>3. IInv => TypeOK
  BY DEF IInv, IngestOK, SeedOK, RowsOK, DbtOK, TypeOK
<1>4. IInv /\ CompleteInv /\ CompleteInv' /\ ReachInv /\ [Next]_vars => ReachInv'
  BY <1>3, NextDaysInOrder, NextSilverIsPrefix DEF ReachInv
<1>5. IInv /\ ReachInv /\ [Next]_vars =>
        [node["silver_orders"] # "ok" /\ node'["silver_orders"] = "ok" =>
           \A i \in DOMAIN objects : \A o \in objects[i].orders :
               \A s \in Items[o] : silver'[<<o, s>>] > 0]_vars
  <2> SUFFICES ASSUME IInv, ReachInv, Next,
                      node["silver_orders"] # "ok", node'["silver_orders"] = "ok",
                      NEW i \in DOMAIN objects, NEW o \in objects[i].orders, NEW s \in Items[o]
               PROVE  silver'[<<o, s>>] > 0
    OBVIOUS
  <2>1. RunSilverOrders
    BY SilverChanges
  <2>2. o \in Order /\ InBronze(o)
    BY ObjectOrders DEF IInv, InBronze
  <2>3. QED
    BY <2>1, <2>2, RunReaches
<1>6. QED
  BY <1>1, <1>2, <1>4, <1>5, IInvariance, PTL DEF Spec, BronzeReachesSilver
=============================================================================
