--------------------------- MODULE BronzeRunProofs ----------------------------
(***************************************************************************)
(* Type correctness and safety of BronzeRun for any number of workers,     *)
(* days, polls and launches and any set of faults, and the proof that it   *)
(* implements RunContract.                                                 *)
(*                                                                         *)
(* None of the safety properties is inductive: a row may only become       *)
(* SUCCESS where the code says so because of where the run's program       *)
(* counter is.  The inductive invariant IInv ties, for the run a worker is *)
(* in, the counter to the row and to the objects put so far, and says that *)
(* a run which has not begun has left no trace.                            *)
(***************************************************************************)
EXTENDS BronzeRun, TLAPS

\* A worker that was launched has a run id while it is inside a day.
PositionOK ==
    \A w \in Worker :
        /\ pc[w] # "idle" => launches[w] >= 1
        /\ pc[w] \in Body => day[w] <= Days
        /\ pc[w] = "put_enqueue" => polls[w] = 0
        /\ pc[w] = "poll" => polls[w] < MaxPolls

\* A run has not begun while its worker is still before it.
NotBegun(w, l, d) ==
    \/ l > launches[w]
    \/ l = launches[w] /\ (d > day[w] \/ (d = day[w] /\ pc[w] = "next_day"))

NoTraceBeforeRun ==
    \A w \in Worker, l \in 1..MaxLaunches, d \in 1..Days :
        NotBegun(w, l, d) => row[<<w, l, d>>] = "NONE" /\ puts[<<w, l, d>>] = {}

\* What the row and the objects of the current run are at each label.
BeforePut    == {"load_creds", "insert_started", "fetch_orders", "put_orders"}
AfterOrders  == {"request_report", "put_enqueue"}
AfterEnqueue == {"poll", "put_result"}

PutsFit(label, objects) ==
    /\ label \in BeforePut => objects = {}
    /\ label \in AfterOrders => {"orders"} \subseteq objects
    /\ label \in AfterEnqueue => {"orders", "reports_enqueue"} \subseteq objects
    /\ label = "update_success" => objects = Endpoint

RowFits(label, status) ==
    /\ label \in {"load_creds", "insert_started"} => status = "NONE"
    /\ label \in Body \ {"update_failed", "alert"} => status \in {"NONE", "STARTED"}
    /\ label = "update_failed" =>
          \/ status \in {"NONE", "STARTED"}
          \/ status = "SUCCESS" /\ Ambiguous /\ "update" \in Faults
    /\ label = "alert" => status = "FAILED"

CurrentRun ==
    \A w \in Worker : pc[w] \in Body =>
        PutsFit(pc[w], puts[Run(w)]) /\ RowFits(pc[w], row[Run(w)])

\* An engineer who follows an alert finds the failure in the log.
AlertsHaveFailedRows == \A r \in alerts : row[r] = "FAILED"

\* Nothing a run has put disappears from Bronze.
PutsAreInBronze == \A r \in RunId : \A e \in puts[r] : InBronze(r, e)

\* The row of a complete run.
SuccessHasPuts == \A r \in RunId : row[r] = "SUCCESS" => puts[r] = Endpoint

\* The days behind a worker that has seen no failure.
DaysBehind ==
    \A w \in Worker :
        /\ pc[w] # "idle" /\ ~any_failed[w] =>
              \A d \in 1..Days : d < day[w] => row[<<w, launches[w], d>>] = "SUCCESS"
        /\ exit[w] = 0 => pc[w] = "exited" /\ ~any_failed[w] /\ day[w] = Days + 1

TypeInv == TypeOK /\ PositionOK

IInv ==
    /\ NoTraceBeforeRun
    /\ CurrentRun
    /\ PutsAreInBronze
    /\ SuccessHasPuts
    /\ AlertsHaveFailedRows
    /\ DaysBehind

-----------------------------------------------------------------------------
\* The run a worker is inside has an id.
LEMMA RunInRunId ==
    ASSUME TypeInv, NEW w \in Worker, pc[w] \in Body
    PROVE  Run(w) \in RunId
BY DEF TypeInv, TypeOK, PositionOK, Run, RunId, Body

\* What the tables of the three puts say.
LEMMA PutTables ==
    /\ DOMAIN PutAt = {"put_orders", "put_enqueue", "put_result"}
    /\ PutAt["put_orders"] = "orders"
    /\ PutAt["put_enqueue"] = "reports_enqueue"
    /\ PutAt["put_result"] = "reports_result"
    /\ PutThen["put_orders"] = "request_report"
    /\ PutThen["put_enqueue"] = "poll"
    /\ PutThen["put_result"] = "update_success"
BY DEF PutAt, PutThen

\* What the end of a day does to the variables EndDay assigns.
LEMMA EndDayTypes ==
    ASSUME TypeInv, NEW w \in Worker, pc[w] \in Body,
           NEW how \in {"returned", "raised"}, EndDay(w, how)
    PROVE  /\ pc' \in [Worker -> Stopped \union Body \union {"next_day"}]
           /\ pc'[w] = "next_day"
           /\ \A v \in Worker : v # w => pc'[v] = pc[v] /\ day'[v] = day[v]
           /\ day' \in [Worker -> 1..(Days + 1)]
           /\ result' \in [RunId -> {"none", "returned", "raised"}]
           /\ any_failed' \in [Worker -> BOOLEAN]
<1> USE BronzeAssumption DEF TypeInv, TypeOK, PositionOK, EndDay, Body
<1>1. any_failed' \in [Worker -> BOOLEAN]
  <2>1. (any_failed[w] \/ how = "raised") \in BOOLEAN
    OBVIOUS
  <2>2. QED
    BY <2>1, Zenon
<1>2. result' \in [RunId -> {"none", "returned", "raised"}]
  OBVIOUS
<1>3. day' \in [Worker -> 1..(Days + 1)]
  OBVIOUS
<1>4. QED
  BY <1>1, <1>2, <1>3

\* The state has its type, a worker inside a day has a run id, and its polling
\* stays within max_retries.
LEMMA SpecTypeInv == Spec => []TypeInv
<1> USE BronzeAssumption
<1>1. Init => TypeInv
  BY DEF Init, TypeInv, TypeOK, PositionOK, RunId, RunStatus, Stopped, Body, NotExited
<1>2. TypeInv /\ [Next]_vars => TypeInv'
  <2> SUFFICES ASSUME TypeInv, [Next]_vars
               PROVE  TypeInv'
    OBVIOUS
  <2> USE DEF TypeInv, TypeOK, PositionOK
  <2>0. ASSUME NEW w \in Worker, pc[w] \in Body
        PROVE  Run(w) \in RunId
    BY <2>0, RunInRunId
  <2>1. CASE UNCHANGED vars
    BY <2>1 DEF vars, stores, loop
  <2>2. CASE Tick
    BY <2>2 DEF Tick, stores, loop
  <2>3. ASSUME NEW w \in Worker, Launch(w) PROVE TypeInv'
    BY <2>3 DEF Launch, stores, Stopped, Body, NotExited
  <2>4. ASSUME NEW w \in Worker, Crash(w) PROVE TypeInv'
    BY <2>4 DEF Crash, Goto, stores, loop, Stopped, Body
  <2>5. ASSUME NEW w \in Worker, NextDay(w) PROVE TypeInv'
    BY <2>5 DEF NextDay, stores, Stopped, Body, NotExited
  <2>6. ASSUME NEW w \in Worker, LoadCredentials(w) PROVE TypeInv'
    <3>1. CASE Goto(w, "insert_started")
      BY <2>6, <3>1 DEF LoadCredentials, Goto, loop, Stopped, Body
    <3>2. CASE EndDay(w, "raised")
      BY <2>6, <3>2, EndDayTypes DEF LoadCredentials, loop, Stopped, Body
    <3>3. QED
      BY <2>6, <3>1, <3>2 DEF LoadCredentials
  <2>7. ASSUME NEW w \in Worker, InsertStarted(w) PROVE TypeInv'
    BY <2>7 DEF InsertStarted, Goto, loop, Stopped, Body, RunStatus
  <2>8. ASSUME NEW w \in Worker, FetchOrders(w) PROVE TypeInv'
    BY <2>8 DEF FetchOrders, OtterCall, Except, Goto, stores, loop, Stopped, Body
  <2>9. ASSUME NEW w \in Worker, RequestReport(w) PROVE TypeInv'
    BY <2>9 DEF RequestReport, OtterCall, Except, Goto, stores, loop, Stopped, Body
  <2>10. ASSUME NEW w \in Worker, WriteRaw(w) PROVE TypeInv'
    <3>1. PICK e \in Endpoint, l \in {"request_report", "poll", "update_success"} :
             /\ PutObject(w, e, l)
             /\ l = "poll" => pc[w] = "put_enqueue"
      BY <2>10, PutTables DEF WriteRaw, Endpoint
    <3>2. Run(w) \in RunId /\ pc[w] \in Body
      BY <2>10, <2>0, PutTables DEF WriteRaw, Body
    <3>3. Key(Run(w), e) \in KeySet
      BY <3>2 DEF Key, KeySet, Run, RunId
    <3>4. /\ bronze' \subseteq [key : KeySet, run : RunId]
          /\ puts' \in [RunId -> SUBSET Endpoint]
      BY <3>1, <3>2, <3>3 DEF PutObject, Store
    <3>5. Goto(w, l) \/ Goto(w, "update_failed")
      BY <3>1 DEF PutObject, Except
    <3>6. QED
      BY <2>10, <3>1, <3>2, <3>4, <3>5 DEF WriteRaw, Goto, loop, Stopped, Body
  <2>11. ASSUME NEW w \in Worker, PollReport(w) PROVE TypeInv'
    BY <2>11 DEF PollReport, PollPending, OtterCall, Except, Goto, stores, loop, Stopped, Body
  <2>12. ASSUME NEW w \in Worker, UpdateSuccess(w) PROVE TypeInv'
    BY <2>12 DEF UpdateSuccess, UpdateFinished, UpdateRaises, EndDay, Except, Goto, loop,
       Stopped, Body, RunStatus
  <2>13. ASSUME NEW w \in Worker, UpdateFailed(w) PROVE TypeInv'
    <3>1. row' \in [RunId -> RunStatus]
      BY <2>13 DEF UpdateFailed, UpdateFinished, UpdateRaises, RunStatus
    <3>2. CASE Goto(w, "alert")
      BY <2>13, <3>1, <3>2 DEF UpdateFailed, Goto, loop, Stopped, Body
    <3>3. CASE EndDay(w, "raised")
      BY <2>13, <3>1, <3>3, EndDayTypes DEF UpdateFailed, loop, Stopped, Body
    <3>4. QED
      BY <2>13, <3>2, <3>3 DEF UpdateFailed
  <2>14. ASSUME NEW w \in Worker, InsertAlert(w) PROVE TypeInv'
    BY <2>14, <2>0 DEF InsertAlert, EndDay, loop, Stopped, Body
  <2>15. QED
    BY <2>1, <2>2, <2>3, <2>4, <2>5, <2>6, <2>7, <2>8, <2>9, <2>10, <2>11, <2>12, <2>13, <2>14
       DEF Next, Step
<1>3. QED
  BY <1>1, <1>2, PTL DEF Spec

\* The state always has the shape of the code's objects.
THEOREM TypeCorrect == Spec => []TypeOK
<1>1. TypeInv => TypeOK
  BY DEF TypeInv
<1>2. QED
  BY <1>1, SpecTypeInv, PTL

-----------------------------------------------------------------------------
\* The invariant holds before anything ran.
LEMMA InitIInv == Init => IInv
<1> USE BronzeAssumption
<1>1. QED
  BY DEF Init, IInv, NoTraceBeforeRun, CurrentRun, PutsAreInBronze, SuccessHasPuts,
         AlertsHaveFailedRows, DaysBehind, RunId, Body, NotExited

\* A step inside a day: it may change the row, the objects and the alert of the
\* worker's own run, and either moves to another label or ends the day.
LEMMA StepInDay ==
    ASSUME TypeInv, TypeInv', IInv, NEW w \in Worker, pc[w] \in Body,
           UNCHANGED loop,
           \A q \in RunId : q # Run(w) => row'[q] = row[q] /\ puts'[q] = puts[q],
           alerts' \subseteq alerts \union {Run(w)},
           Run(w) \in alerts' => row'[Run(w)] = "FAILED",
           row'[Run(w)] = "SUCCESS" => puts'[Run(w)] = Endpoint,
           PutsAreInBronze',
           \/ \E label \in Body : /\ Goto(w, label)
                                   /\ PutsFit(label, puts'[Run(w)])
                                   /\ RowFits(label, row'[Run(w)])
           \/ \E how \in {"returned", "raised"} :
                 EndDay(w, how) /\ (how = "returned" => row'[Run(w)] = "SUCCESS")
    PROVE  IInv'
<1> USE BronzeAssumption DEF TypeInv, TypeOK, PositionOK, IInv, loop
<1>1. Run(w) \in RunId /\ \A v \in Worker : v # w => Run(v) # Run(w)
  BY RunInRunId DEF Run
<1>2. \A v \in Worker : v # w => pc'[v] = pc[v] /\ day'[v] = day[v] /\ any_failed'[v] = any_failed[v]
  BY DEF Goto, EndDay
<1>3. NoTraceBeforeRun'
  <2> SUFFICES ASSUME NEW v \in Worker, NEW l \in 1..MaxLaunches, NEW d \in 1..Days,
                      NotBegun(v, l, d)'
               PROVE  row'[<<v, l, d>>] = "NONE" /\ puts'[<<v, l, d>>] = {}
    BY DEF NoTraceBeforeRun
  <2>1. <<v, l, d>> \in RunId
    BY DEF RunId
  <2>2. NotBegun(v, l, d)
    <3>1. CASE v # w
      BY <1>2, <3>1 DEF NotBegun
    <3>2. CASE v = w /\ \E label \in Body : Goto(w, label)
      BY <3>2 DEF NotBegun, Goto, Body
    <3>3. CASE v = w /\ \E how \in {"returned", "raised"} : EndDay(w, how)
      <4>1. day'[w] = day[w] + 1 /\ day[w] \in Nat /\ launches'[w] = launches[w]
        BY <3>3 DEF EndDay
      <4>2. QED
        BY <3>3, <4>1 DEF NotBegun
    <3>4. QED
      BY <3>1, <3>2, <3>3
  <2>3. <<v, l, d>> # Run(w)
    <3>1. CASE v = w
      BY <3>1 DEF NotBegun, Goto, EndDay, Run, Body
    <3>2. CASE v # w
      BY <3>2 DEF Run
    <3>3. QED
      BY <3>1, <3>2
  <2>4. QED
    BY <2>1, <2>2, <2>3 DEF NoTraceBeforeRun
<1>4. CurrentRun'
  <2> SUFFICES ASSUME NEW v \in Worker, pc'[v] \in Body
               PROVE  PutsFit(pc'[v], puts'[Run(v)']) /\ RowFits(pc'[v], row'[Run(v)'])
    BY DEF CurrentRun, PutsFit, RowFits, Ambiguous
  <2>1. CASE v = w
    <3>1. ~\E how \in {"returned", "raised"} : EndDay(w, how)
      BY <2>1 DEF EndDay, Body
    <3>2. PICK label \in Body : /\ Goto(w, label)
                                /\ PutsFit(label, puts'[Run(w)])
                                /\ RowFits(label, row'[Run(w)])
      BY <3>1
    <3>3. pc'[w] = label /\ Run(w)' = Run(w)
      BY <3>2 DEF Goto, Run
    <3>4. QED
      BY <2>1, <3>2, <3>3
  <2>2. CASE v # w
    <3>1. Run(v)' = Run(v) /\ pc[v] \in Body
      BY <1>2, <2>2 DEF Run
    <3>2. Run(v) \in RunId
      BY <3>1, RunInRunId
    <3>3. QED
      BY <1>1, <1>2, <2>2, <3>1, <3>2 DEF CurrentRun
  <2>3. QED
    BY <2>1, <2>2
<1>5. SuccessHasPuts'
  BY <1>1 DEF SuccessHasPuts
<1>6. AlertsHaveFailedRows'
  BY <1>1 DEF AlertsHaveFailedRows
<1>7. DaysBehind'
  <2> SUFFICES ASSUME NEW v \in Worker
               PROVE  /\ pc'[v] # "idle" /\ ~any_failed'[v] =>
                           \A d \in 1..Days :
                              d < day'[v] => row'[<<v, launches[v], d>>] = "SUCCESS"
                      /\ exit[v] = 0 =>
                           pc'[v] = "exited" /\ ~any_failed'[v] /\ day'[v] = Days + 1
    BY DEF DaysBehind
  <2>1. CASE v # w
    BY <1>1, <1>2, <2>1 DEF DaysBehind, Run, RunId
  <2>2. CASE v = w
    <3>1. exit[w] # 0 /\ pc[w] # "idle"
      BY DEF DaysBehind, Body
    <3>2. ASSUME NEW d \in 1..Days, d < day[w]
          PROVE  row'[<<w, launches[w], d>>] = row[<<w, launches[w], d>>]
      BY <1>1, <3>2 DEF Run, RunId
    <3>3. CASE \E label \in Body : Goto(w, label)
      BY <2>2, <3>1, <3>2, <3>3 DEF DaysBehind, Goto
    <3>4. CASE EndDay(w, "returned") /\ row'[Run(w)] = "SUCCESS"
      <4>1. any_failed'[w] = any_failed[w] /\ day'[w] = day[w] + 1
        BY <3>4 DEF EndDay
      <4>2. QED
        <5>1. SUFFICES ASSUME ~any_failed[w], NEW d \in 1..Days, d < day[w] + 1
                       PROVE  row'[<<w, launches[w], d>>] = "SUCCESS"
          BY <2>2, <3>1, <4>1
        <5>2. CASE d = day[w]
          BY <3>4, <5>2 DEF Run
        <5>3. CASE d < day[w]
          BY <3>1, <3>2, <5>1, <5>3 DEF DaysBehind
        <5>4. QED
          BY <5>1, <5>2, <5>3
    <3>5. CASE EndDay(w, "raised")
      <4>1. any_failed'[w]
        <5>1. any_failed'[w] = (any_failed[w] \/ "raised" = "raised")
          <6>1. w \in DOMAIN any_failed
            OBVIOUS
          <6>2. QED
            BY <3>5, <6>1, Zenon DEF EndDay
        <5>2. QED
          BY <5>1, Zenon
      <4>2. QED
        BY <2>2, <3>1, <4>1
    <3>6. QED
      BY <3>3, <3>4, <3>5
  <2>3. QED
    BY <2>1, <2>2
<1>8. QED
  BY <1>3, <1>4, <1>5, <1>6, <1>7

\* Steps that leave the bucket and the timestamps alone lose no object.
LEMMA BronzeUnchanged ==
    ASSUME PutsAreInBronze, UNCHANGED <<bronze, puts, stamp>>
    PROVE  PutsAreInBronze'
BY DEF PutsAreInBronze, InBronze, Key

\* An object put at its run's key is found there, and what it replaces is found
\* at the same key.
LEMMA StoreKeepsPuts ==
    ASSUME TypeInv, PutsAreInBronze, NEW w \in Worker, pc[w] \in Body,
           NEW e \in Endpoint, Store(w, e), UNCHANGED stamp
    PROVE  /\ PutsAreInBronze'
           /\ puts'[Run(w)] = puts[Run(w)] \union {e}
           /\ \A q \in RunId : q # Run(w) => puts'[q] = puts[q]
<1>1. Run(w) \in RunId
  BY RunInRunId
<1>2. /\ puts'[Run(w)] = puts[Run(w)] \union {e}
      /\ \A q \in RunId : q # Run(w) => puts'[q] = puts[q]
  BY <1>1 DEF Store, TypeInv, TypeOK
<1>3. ASSUME NEW q \in RunId, NEW f \in puts'[q]
      PROVE  InBronze(q, f)'
  <2> DEFINE key == Key(Run(w), e)
  <2>1. /\ \A o \in bronze : o.key # key => o \in bronze'
        /\ [key |-> key, run |-> Run(w)] \in bronze'
    BY DEF Store
  <2>2. Key(q, f)' = Key(q, f)
    BY DEF Key
  <2>3. CASE Key(q, f) = key
    BY <2>1, <2>2, <2>3 DEF InBronze
  <2>4. CASE Key(q, f) # key
    <3>1. f \in puts[q]
      BY <1>2, <1>3, <2>4
    <3>2. PICK o \in bronze : o.key = Key(q, f)
      BY <3>1 DEF PutsAreInBronze, InBronze
    <3>3. QED
      BY <2>1, <2>2, <2>4, <3>2 DEF InBronze
  <2>5. QED
    BY <2>3, <2>4
<1>4. QED
  BY <1>2, <1>3 DEF PutsAreInBronze

\* Every step keeps the invariant.
LEMMA NextIInv == ASSUME TypeInv, TypeInv', IInv, [Next]_vars PROVE IInv'
<1> USE BronzeAssumption DEF TypeInv, TypeOK, PositionOK, IInv
<1>0. ASSUME NEW w \in Worker, pc[w] \in Body
      PROVE  /\ Run(w) \in RunId
             /\ PutsFit(pc[w], puts[Run(w)]) /\ RowFits(pc[w], row[Run(w)])
  BY <1>0, RunInRunId DEF CurrentRun
<1>1. CASE UNCHANGED vars
  BY <1>1 DEF vars, stores, loop, Run, InBronze, Key, NotBegun, NoTraceBeforeRun, CurrentRun,
     PutsAreInBronze, SuccessHasPuts, AlertsHaveFailedRows, DaysBehind
<1>2. CASE Tick
  BY <1>2 DEF Tick, stores, loop, Run, InBronze, Key, NotBegun, NoTraceBeforeRun, CurrentRun,
     PutsAreInBronze, SuccessHasPuts, AlertsHaveFailedRows, DaysBehind
<1>3. ASSUME NEW w \in Worker, Launch(w) PROVE IInv'
  BY <1>3 DEF Launch, stores, Stopped, Body, NotExited, Run, InBronze, Key, NotBegun,
     NoTraceBeforeRun, CurrentRun, PutsAreInBronze, SuccessHasPuts, AlertsHaveFailedRows, DaysBehind
<1>4. ASSUME NEW w \in Worker, Crash(w) PROVE IInv'
  BY <1>4 DEF Crash, Goto, stores, loop, Stopped, Body, Run, InBronze, Key, NotBegun,
     NoTraceBeforeRun, CurrentRun, PutsAreInBronze, SuccessHasPuts, AlertsHaveFailedRows, DaysBehind
<1>5. ASSUME NEW w \in Worker, NextDay(w) PROVE IInv'
  <2> USE <1>5 DEF NextDay, stores
  <2>1. NoTraceBeforeRun'
    <3> SUFFICES ASSUME NEW v \in Worker, NEW l \in 1..MaxLaunches, NEW d \in 1..Days,
                        NotBegun(v, l, d)'
                 PROVE  row'[<<v, l, d>>] = "NONE" /\ puts'[<<v, l, d>>] = {}
      BY DEF NoTraceBeforeRun
    <3>1. UNCHANGED <<row, puts, launches, day>>
      OBVIOUS
    <3>2. pc'[v] = "next_day" => pc[v] = "next_day"
      OBVIOUS
    <3>3. NotBegun(v, l, d)
      BY <3>1, <3>2 DEF NotBegun
    <3>4. QED
      BY <3>1, <3>3 DEF NoTraceBeforeRun
  <2>2. CASE day[w] <= Days
    <3>1. Run(w) \in RunId /\ row[Run(w)] = "NONE" /\ puts[Run(w)] = {}
      BY <2>2 DEF NoTraceBeforeRun, NotBegun, Run, RunId
    <3>2. PutsAreInBronze'
      <4>1. ASSUME NEW q \in RunId, NEW f \in puts[q]
            PROVE  InBronze(q, f)'
        <5>1. InBronze(q, f)
          BY <4>1 DEF PutsAreInBronze
        <5>2. stamp'[q] = stamp[q]
          BY <2>2, <3>1, <4>1
        <5>3. QED
          BY <5>1, <5>2 DEF InBronze, Key
      <4>2. QED
        BY <4>1 DEF PutsAreInBronze
    <3>3. CurrentRun'
      <4>1. SUFFICES ASSUME NEW v \in Worker, pc'[v] \in Body
                     PROVE  PutsFit(pc'[v], puts[Run(v)]) /\ RowFits(pc'[v], row[Run(v)])
        BY DEF CurrentRun, Run, PutsFit, RowFits, Ambiguous
      <4>2. CASE v = w
        <5>1. pc'[v] = "load_creds"
          BY <2>2, <4>2
        <5>2. QED
          BY <3>1, <4>2, <5>1 DEF PutsFit, RowFits, BeforePut, AfterOrders, AfterEnqueue
      <4>3. CASE v # w
        <5>1. pc'[v] = pc[v]
          BY <2>2, <4>3
        <5>2. QED
          BY <4>1, <5>1 DEF CurrentRun
      <4>4. QED
        BY <4>2, <4>3
    <3>4. DaysBehind'
      BY <2>2 DEF DaysBehind
    <3>5. QED
      BY <2>1, <3>2, <3>3, <3>4 DEF SuccessHasPuts, AlertsHaveFailedRows
  <2>3. CASE day[w] > Days
    <3>1. PutsAreInBronze'
      BY <2>3, BronzeUnchanged
    <3>2. CurrentRun'
      BY <2>3 DEF CurrentRun, Run, Body
    <3>3. DaysBehind'
      BY <2>3 DEF DaysBehind, NotExited
    <3>4. QED
      BY <2>1, <3>1, <3>2, <3>3 DEF SuccessHasPuts, AlertsHaveFailedRows
  <2>4. QED
    BY <2>2, <2>3
<1>6. ASSUME NEW w \in Worker, LoadCredentials(w) PROVE IInv'
  BY <1>6, <1>0, StepInDay, BronzeUnchanged
     DEF LoadCredentials, Body, loop, PutsFit, RowFits, BeforePut, AfterOrders, AfterEnqueue,
         SuccessHasPuts, AlertsHaveFailedRows
<1>7. ASSUME NEW w \in Worker, InsertStarted(w) PROVE IInv'
  BY <1>7, <1>0, StepInDay, BronzeUnchanged
     DEF InsertStarted, Body, loop, PutsFit, RowFits, BeforePut, AfterOrders, AfterEnqueue,
         SuccessHasPuts, AlertsHaveFailedRows
<1>8. ASSUME NEW w \in Worker, FetchOrders(w) PROVE IInv'
  BY <1>8, <1>0, StepInDay, BronzeUnchanged
     DEF FetchOrders, OtterCall, Except, stores, Body, loop, PutsFit, RowFits, BeforePut,
         AfterOrders, AfterEnqueue, SuccessHasPuts, AlertsHaveFailedRows
<1>9. ASSUME NEW w \in Worker, RequestReport(w) PROVE IInv'
  BY <1>9, <1>0, StepInDay, BronzeUnchanged
     DEF RequestReport, OtterCall, Except, stores, Body, loop, PutsFit, RowFits, BeforePut,
         AfterOrders, AfterEnqueue, SuccessHasPuts, AlertsHaveFailedRows
<1>10. ASSUME NEW w \in Worker, WriteRaw(w) PROVE IInv'
  <2> USE <1>10 DEF WriteRaw, loop
  <2>1. PICK e \in Endpoint, l \in {"request_report", "poll", "update_success"} :
           /\ PutObject(w, e, l)
           /\ PutsFit(l, puts[Run(w)] \union {e})
    BY <1>0, PutTables DEF Endpoint, PutsFit, BeforePut, AfterOrders, AfterEnqueue, Body
  <2>2. pc[w] \in Body /\ row[Run(w)] \in {"NONE", "STARTED"} /\ Run(w) \in RunId
    BY <1>0, PutTables DEF RowFits, Body
  <2>3. /\ PutsAreInBronze'
        /\ \A q \in RunId : q # Run(w) => puts'[q] = puts[q]
        /\ \/ Goto(w, l) /\ puts'[Run(w)] = puts[Run(w)] \union {e}
           \/ Goto(w, "update_failed")
    <3>1. CASE Store(w, e)
      BY <2>1, <2>2, <3>1, StoreKeepsPuts DEF PutObject, Except
    <3>2. CASE UNCHANGED <<bronze, puts>> /\ Goto(w, "update_failed")
      BY <3>2, BronzeUnchanged
    <3>3. QED
      BY <2>1, <3>1, <3>2 DEF PutObject, Except
  <2>4. \E label \in Body :
           Goto(w, label) /\ PutsFit(label, puts'[Run(w)]) /\ RowFits(label, row'[Run(w)])
    <3>1. CASE Goto(w, l) /\ puts'[Run(w)] = puts[Run(w)] \union {e}
      BY <2>1, <2>2, <3>1 DEF RowFits, Body
    <3>2. CASE Goto(w, "update_failed")
      BY <2>2, <3>2 DEF RowFits, PutsFit, Body, BeforePut, AfterOrders, AfterEnqueue
    <3>3. QED
      BY <2>3, <3>1, <3>2
  <2>5. QED
    BY <2>2, <2>3, <2>4, StepInDay DEF AlertsHaveFailedRows, Endpoint
<1>11. ASSUME NEW w \in Worker, PollReport(w) PROVE IInv'
  BY <1>11, <1>0, StepInDay, BronzeUnchanged
     DEF PollReport, PollPending, OtterCall, Except, stores, Body, loop, PutsFit, RowFits,
         BeforePut, AfterOrders, AfterEnqueue, SuccessHasPuts, AlertsHaveFailedRows
<1>12. ASSUME NEW w \in Worker, UpdateSuccess(w) PROVE IInv'
  <2> USE <1>12 DEF UpdateSuccess, UpdateRaises, UpdateFinished, loop
  <2>1. /\ pc[w] \in Body /\ Run(w) \in RunId
        /\ row[Run(w)] \in {"NONE", "STARTED"} /\ puts[Run(w)] = Endpoint
    BY <1>0 DEF PutsFit, RowFits, Body
  <2>2. \A q \in RunId : q # Run(w) => row'[q] = row[q]
    BY <2>1
  <2>3. PutsAreInBronze'
    BY BronzeUnchanged
  <2>4. \/ EndDay(w, "returned") /\ row'[Run(w)] = "SUCCESS"
        \/ /\ Goto(w, "update_failed")
           /\ \/ row'[Run(w)] = row[Run(w)]
              \/ row'[Run(w)] = "SUCCESS" /\ Ambiguous /\ "update" \in Faults
    BY <2>1 DEF Except
  <2>6. PutsFit("update_failed", puts'[Run(w)])
    BY DEF PutsFit, BeforePut, AfterOrders, AfterEnqueue
  <2>7. QED
    <3>1. Run(w) \notin alerts'
      BY <2>1 DEF AlertsHaveFailedRows
    <3>2. \/ \E label \in Body : Goto(w, label) /\ PutsFit(label, puts'[Run(w)])
                                 /\ RowFits(label, row'[Run(w)])
          \/ EndDay(w, "returned") /\ row'[Run(w)] = "SUCCESS"
      <4>1. "update_failed" \in Body
        BY DEF Body
      <4>2. CASE Goto(w, "update_failed")
        BY <2>1, <2>4, <2>6, <4>1, <4>2 DEF RowFits, Body, Goto
      <4>3. QED
        BY <2>4, <4>2
    <3>3. QED
      BY <2>1, <2>2, <2>3, <3>1, <3>2, StepInDay
<1>13. ASSUME NEW w \in Worker, UpdateFailed(w) PROVE IInv'
  <2> USE <1>13 DEF UpdateFailed, UpdateRaises, UpdateFinished, loop
  <2>1. /\ pc[w] \in Body /\ Run(w) \in RunId /\ row[Run(w)] # "FAILED"
    BY <1>0 DEF PutsFit, RowFits, Body
  <2>2. \A q \in RunId : q # Run(w) => row'[q] = row[q]
    BY <2>1
  <2>3. PutsAreInBronze'
    BY BronzeUnchanged
  <2>4. \/ EndDay(w, "raised") /\ row'[Run(w)] \in {row[Run(w)], "FAILED"}
        \/ Goto(w, "alert") /\ row'[Run(w)] = "FAILED"
    BY <2>1
  <2>5. RowFits("alert", "FAILED") /\ PutsFit("alert", puts'[Run(w)])
    BY DEF RowFits, PutsFit, BeforePut, AfterOrders, AfterEnqueue, Body
  <2>6. Run(w) \notin alerts
    BY <2>1 DEF AlertsHaveFailedRows
  <2>7. QED
    BY <2>1, <2>2, <2>3, <2>4, <2>5, <2>6, StepInDay DEF SuccessHasPuts, Body
<1>14. ASSUME NEW w \in Worker, InsertAlert(w) PROVE IInv'
  BY <1>14, <1>0, StepInDay, BronzeUnchanged
     DEF InsertAlert, Body, loop, RowFits, SuccessHasPuts
<1>15. QED
  BY <1>1, <1>2, <1>3, <1>4, <1>5, <1>6, <1>7, <1>8, <1>9, <1>10, <1>11, <1>12, <1>13, <1>14
     DEF Next, Step

\* The invariant always holds.
LEMMA SpecIInv == Spec => []IInv
<1>1. TypeInv /\ TypeInv' /\ IInv /\ [Next]_vars => IInv'
  BY NextIInv
<1>2. QED
  BY InitIInv, SpecTypeInv, <1>1, PTL DEF Spec

-----------------------------------------------------------------------------
\* A SUCCESS row means the day's three objects are in Bronze.
THEOREM SuccessComplete == Spec => []SuccessMeansComplete
<1>1. IInv => SuccessMeansComplete
  BY DEF IInv, SuccessMeansComplete, SuccessHasPuts, PutsAreInBronze
<1>2. QED
  BY <1>1, SpecIInv, PTL

\* An engineer who follows an alert finds a FAILED row.
THEOREM AlertsAreOfFailedRuns == Spec => []AlertsHaveFailedRows
<1>1. IInv => AlertsHaveFailedRows
  BY DEF IInv
<1>2. QED
  BY <1>1, SpecIInv, PTL

\* Exit code 0 means every day of the backfill has a SUCCESS row of this launch.
THEOREM ExitZeroIsTruthful == Spec => []ExitZeroMeansAllDaysLoaded
<1>1. TypeInv /\ IInv => ExitZeroMeansAllDaysLoaded
  BY BronzeAssumption DEF TypeInv, TypeOK, IInv, ExitZeroMeansAllDaysLoaded, DaysBehind
<1>2. QED
  BY <1>1, SpecTypeInv, SpecIInv, PTL

-----------------------------------------------------------------------------
\* Every step of the ingestion is a step of the contract, or leaves the log and
\* the bucket alone.
LEMMA StepsKeepContract ==
    ASSUME TypeInv, IInv, [Next]_vars
    PROVE  [Contract!Next]_Contract!vars
<1> USE DEF TypeInv, TypeOK, IInv, Contract!vars
<1>0. ASSUME NEW w \in Worker, pc[w] \in Body
      PROVE  /\ Run(w) \in RunId
             /\ PutsFit(pc[w], puts[Run(w)]) /\ RowFits(pc[w], row[Run(w)])
  BY <1>0, RunInRunId DEF CurrentRun
<1>1. ASSUME NEW w \in Worker, InsertStarted(w) PROVE [Contract!Next]_Contract!vars
  BY <1>1, <1>0 DEF InsertStarted, Contract!Next, Contract!Insert, PutsFit, RowFits, Body, BeforePut
<1>2. ASSUME NEW w \in Worker, WriteRaw(w) PROVE [Contract!Next]_Contract!vars
  <2>1. PICK e \in Endpoint : 
           /\ Store(w, e) \/ UNCHANGED puts
           /\ Contract!Before[e] \subseteq puts[Run(w)]
    BY <1>2, <1>0, PutTables
       DEF WriteRaw, PutObject, Contract!Before, Contract!Endpoint, Endpoint, PutsFit, AfterOrders,
           AfterEnqueue, Body
  <2>2. Run(w) \in RunId /\ row[Run(w)] \in {"NONE", "STARTED"} /\ UNCHANGED row
    BY <1>2, <1>0, PutTables DEF WriteRaw, RowFits, Body
  <2>3. CASE Store(w, e)
    BY <2>1, <2>2, <2>3 DEF Store, Contract!Next, Contract!Write, Contract!Endpoint, Endpoint
  <2>4. QED
    BY <2>1, <2>2, <2>3
<1>3. ASSUME NEW w \in Worker, UpdateSuccess(w) PROVE [Contract!Next]_Contract!vars
  BY <1>3, <1>0
     DEF UpdateSuccess, UpdateRaises, UpdateFinished, Contract!Next, Contract!Succeed,
         Contract!Endpoint, Endpoint, PutsFit, RowFits, Body
<1>4. ASSUME NEW w \in Worker, UpdateFailed(w) PROVE [Contract!Next]_Contract!vars
  BY <1>4, <1>0
     DEF UpdateFailed, UpdateRaises, UpdateFinished, Contract!Next, Contract!Fail, Ambiguous,
         RowFits, Body
<1>5. CASE UNCHANGED <<row, puts>>
  BY <1>5
<1>6. QED
  BY <1>1, <1>2, <1>3, <1>4, <1>5
     DEF Next, Step, Tick, Launch, Crash, NextDay, LoadCredentials, FetchOrders, RequestReport,
         PollReport, InsertAlert, vars, stores

\* The log and the bucket keep the contract their readers rely on.
THEOREM ImplementsContract == Spec => ContractSpec
<1>1. Init => Contract!Init
  BY DEF Init, Contract!Init
<1>2. TypeInv /\ IInv /\ [Next]_vars => [Contract!Next]_Contract!vars
  BY StepsKeepContract
<1>3. QED
  BY <1>1, <1>2, SpecTypeInv, SpecIInv, PTL DEF Spec, ContractSpec, Contract!Spec
-----------------------------------------------------------------------------
\* The days behind a worker have a result, and one that has exited has them all
\* behind it.
DaysTried ==
    \A w \in Worker :
        /\ pc[w] # "idle" =>
              \A d \in 1..Days : d < day[w] => result[<<w, launches[w], d>>] # "none"
        /\ exit[w] # NotExited => pc[w] = "exited" /\ day[w] = Days + 1

\* Inside a day only its end gives a result, and it goes on to the next day.
LEMMA DayStep ==
    ASSUME TypeInv, NEW w \in Worker, pc[w] \in Body, Step(w)
    PROVE  /\ UNCHANGED loop
           /\ \/ \E label \in Body : Goto(w, label)
              \/ \E how \in {"returned", "raised"} : EndDay(w, how)
<1> USE DEF Step, Body, loop
<1>1. CASE NextDay(w)
  BY <1>1 DEF NextDay
<1>2. CASE LoadCredentials(w) \/ InsertStarted(w)
  BY <1>2 DEF LoadCredentials, InsertStarted
<1>3. CASE FetchOrders(w) \/ RequestReport(w) \/ PollReport(w)
  BY <1>3 DEF FetchOrders, RequestReport, PollReport, PollPending, OtterCall, Except
<1>4. CASE WriteRaw(w)
  BY <1>4, PutTables DEF WriteRaw, PutObject, Except
<1>5. CASE UpdateSuccess(w) \/ UpdateFailed(w) \/ InsertAlert(w)
  BY <1>5 DEF UpdateSuccess, UpdateFailed, InsertAlert, Except
<1>6. QED
  BY <1>1, <1>2, <1>3, <1>4, <1>5

\* A day before the next one is this one or before it.
LEMMA DayBefore ==
    ASSUME NEW n \in Nat, NEW this \in 1..(n + 1), NEW d \in 1..n, d < this + 1
    PROVE  d = this \/ d < this
OBVIOUS

\* Whatever a worker does, it forgets no result and skips no day.
LEMMA NextDaysTried ==
    ASSUME TypeInv, TypeInv', DaysTried, [Next]_vars
    PROVE  DaysTried'
<1> USE BronzeAssumption DEF TypeInv, TypeOK, PositionOK, DaysTried, NotExited
<1>1. CASE UNCHANGED vars
  BY <1>1 DEF vars, loop
<1>2. CASE Tick
  BY <1>2 DEF Tick, loop
<1>3. ASSUME NEW w \in Worker, Launch(w) PROVE DaysTried'
  BY <1>3 DEF Launch
<1>4. ASSUME NEW w \in Worker, Crash(w) PROVE DaysTried'
  BY <1>4 DEF Crash, Goto, loop, Stopped
<1>5. ASSUME NEW w \in Worker, NextDay(w) PROVE DaysTried'
  BY <1>5 DEF NextDay
<1>6. ASSUME NEW w \in Worker, pc[w] \in Body, Step(w) PROVE DaysTried'
  <2> USE <1>6 DEF loop
  <2>0. UNCHANGED <<launches, exit>> /\ exit[w] = NotExited /\ pc[w] # "idle"
    BY DayStep DEF Body
  <2>1. CASE \E label \in Body : Goto(w, label)
    <3>1. UNCHANGED <<result, day>> /\ \A v \in Worker : v # w => pc'[v] = pc[v]
      BY <2>1 DEF Goto
    <3>2. QED
      BY <2>0, <3>1
  <2>2. CASE \E how \in {"returned", "raised"} : EndDay(w, how)
    <3>1. Run(w) \in RunId
      BY RunInRunId
    <3>2. /\ pc'[w] = "next_day" /\ day'[w] = day[w] + 1
          /\ \A v \in Worker : v # w => pc'[v] = pc[v] /\ day'[v] = day[v]
      BY <2>2 DEF EndDay
    <3>3. /\ result'[Run(w)] # "none"
          /\ \A q \in RunId : q # Run(w) => result'[q] = result[q]
      BY <2>2, <3>1 DEF EndDay
    <3>4. ASSUME NEW v \in Worker, pc'[v] # "idle", NEW d \in 1..Days, d < day'[v]
          PROVE  result'[<<v, launches[v], d>>] # "none"
      <4>1. CASE v # w
        BY <2>0, <3>2, <3>3, <3>4, <4>1 DEF Run, RunId
      <4>2. CASE v = w /\ d = day[w]
        BY <3>3, <4>2 DEF Run
      <4>3. CASE v = w /\ d < day[w]
        BY <2>0, <3>3, <4>3 DEF Run, RunId
      <4>4. ASSUME v = w PROVE d = day[w] \/ d < day[w]
        <5>1. day[w] \in 1..(Days + 1) /\ d < day[w] + 1
          BY <3>2, <3>4, <4>4
        <5>2. QED
          BY <5>1, DayBefore
      <4>5. QED
        BY <4>1, <4>2, <4>3, <4>4
    <3>5. QED
      BY <2>0, <3>2, <3>4
  <2>3. QED
    BY <2>1, <2>2, DayStep
<1>7. ASSUME NEW w \in Worker, Step(w) PROVE NextDay(w) \/ pc[w] \in Body
  BY <1>7, PutTables
     DEF Step, LoadCredentials, InsertStarted, FetchOrders, RequestReport, WriteRaw, PollReport,
         UpdateSuccess, UpdateFailed, InsertAlert, Body
<1>8. QED
  BY <1>1, <1>2, <1>3, <1>4, <1>5, <1>6, <1>7 DEF Next

\* One failing day does not stop the others: a worker that has exited has tried
\* every day of its launch.
THEOREM DaysAreTried == Spec => []FailSoft
<1>1. Init => DaysTried
  BY DEF Init, DaysTried
<1>2. TypeInv /\ TypeInv' /\ DaysTried /\ [Next]_vars => DaysTried'
  BY NextDaysTried
<1>3. TypeInv /\ DaysTried => FailSoft
  BY BronzeAssumption DEF DaysTried, FailSoft, TypeInv, TypeOK, NotExited
<1>4. QED
  BY <1>1, <1>2, <1>3, SpecTypeInv, PTL DEF Spec

-----------------------------------------------------------------------------
\* No update of the log raises.
LogIsUp == "update" \notin Faults

\* Only days behind a worker have a result.
ResultsAreBehind ==
    \A w \in Worker, l \in 1..MaxLaunches, d \in 1..Days :
        result[<<w, l, d>>] # "none" =>
            l < launches[w] \/ (l = launches[w] /\ d < day[w])

\* Whatever a worker does, a day gets its result when it is left behind.
LEMMA NextResults ==
    ASSUME TypeInv, TypeInv', ResultsAreBehind, [Next]_vars
    PROVE  ResultsAreBehind'
<1> USE BronzeAssumption DEF TypeInv, TypeOK, PositionOK, ResultsAreBehind
<1>1. CASE UNCHANGED vars
  BY <1>1 DEF vars, loop
<1>2. CASE Tick
  BY <1>2 DEF Tick, loop
<1>3. ASSUME NEW w \in Worker, Launch(w) PROVE ResultsAreBehind'
  BY <1>3 DEF Launch
<1>4. ASSUME NEW w \in Worker, Crash(w) PROVE ResultsAreBehind'
  BY <1>4 DEF Crash, Goto, loop
<1>5. ASSUME NEW w \in Worker, NextDay(w) PROVE ResultsAreBehind'
  BY <1>5 DEF NextDay
<1>6. ASSUME NEW w \in Worker, pc[w] \in Body, Step(w) PROVE ResultsAreBehind'
  <2> USE <1>6 DEF loop
  <2>1. CASE \E label \in Body : Goto(w, label)
    BY <2>1, DayStep DEF Goto
  <2>2. CASE \E how \in {"returned", "raised"} : EndDay(w, how)
    <3>1. Run(w) \in RunId /\ UNCHANGED launches
      BY RunInRunId, DayStep
    <3>2. /\ day'[w] = day[w] + 1
          /\ \A v \in Worker : v # w => day'[v] = day[v]
          /\ \A q \in RunId : q # Run(w) => result'[q] = result[q]
      BY <2>2, <3>1 DEF EndDay
    <3>3. ASSUME NEW v \in Worker, NEW l \in 1..MaxLaunches, NEW d \in 1..Days,
                 result'[<<v, l, d>>] # "none"
          PROVE  l < launches[v] \/ (l = launches[v] /\ d < day'[v])
      <4>1. CASE <<v, l, d>> = Run(w)
        BY <3>2, <4>1 DEF Run
      <4>2. CASE <<v, l, d>> # Run(w)
        <5>1. result[<<v, l, d>>] # "none"
          BY <3>2, <3>3, <4>2 DEF RunId
        <5>2. day'[v] = day[v] \/ day'[v] = day[v] + 1
          BY <3>2
        <5>3. QED
          BY <5>1, <5>2
      <4>3. QED
        BY <4>1, <4>2
    <3>4. QED
      BY <3>1, <3>3
  <2>3. QED
    BY <2>1, <2>2, DayStep
<1>7. ASSUME NEW w \in Worker, Step(w) PROVE NextDay(w) \/ pc[w] \in Body
  BY <1>7, PutTables
     DEF Step, LoadCredentials, InsertStarted, FetchOrders, RequestReport, WriteRaw, PollReport,
         UpdateSuccess, UpdateFailed, InsertAlert, Body
<1>8. QED
  BY <1>1, <1>2, <1>3, <1>4, <1>5, <1>6, <1>7 DEF Next

\* The rows of a worker's other runs are not touched, and its own is not STARTED
\* when the day ends.
LEMMA RowStep ==
    ASSUME LogIsUp, TypeInv, IInv, NEW w \in Worker, pc[w] \in Body, Step(w)
    PROVE  /\ \A q \in RunId : q # Run(w) => row'[q] = row[q]
           /\ \A how \in {"returned", "raised"} :
                 EndDay(w, how) => row'[Run(w)] # "STARTED" \/ pc'[w] \in Body
<1> USE DEF Step, Body, LogIsUp, TypeInv, TypeOK
<1>0. Run(w) \in RunId /\ RowFits(pc[w], row[Run(w)])
  BY RunInRunId DEF IInv, CurrentRun
<1>1. CASE NextDay(w)
  BY <1>1 DEF NextDay
<1>2. CASE LoadCredentials(w)
  BY <1>0, <1>2 DEF LoadCredentials, RowFits
<1>3. CASE InsertStarted(w)
  BY <1>0, <1>3 DEF InsertStarted, Goto
<1>4. CASE FetchOrders(w) \/ RequestReport(w) \/ PollReport(w)
  BY <1>4 DEF FetchOrders, RequestReport, PollReport, PollPending, OtterCall, Except, Goto, stores
<1>5. CASE WriteRaw(w)
  BY <1>5, PutTables DEF WriteRaw, PutObject, Except, Goto
<1>6. CASE UpdateSuccess(w)
  BY <1>0, <1>6 DEF UpdateSuccess, UpdateRaises, UpdateFinished, Except, Goto
<1>7. CASE UpdateFailed(w)
  BY <1>0, <1>7 DEF UpdateFailed, UpdateRaises, UpdateFinished, Goto
<1>8. CASE InsertAlert(w)
  BY <1>0, <1>8 DEF InsertAlert, RowFits
<1>9. QED
  BY <1>1, <1>2, <1>3, <1>4, <1>5, <1>6, <1>7, <1>8

\* The row of a run that ended by itself is not STARTED.
LEMMA NextStartedRows ==
    ASSUME LogIsUp, TypeInv, TypeInv', IInv, ResultsAreBehind, StartedRowsAreAlive, [Next]_vars
    PROVE  StartedRowsAreAlive'
<1> USE BronzeAssumption DEF TypeInv, TypeOK
<1>0. ASSUME NEW r \in RunId
      PROVE  r[1] \in Worker /\ r = <<r[1], r[2], r[3]>>
  BY <1>0 DEF RunId
<1>1. CASE UNCHANGED vars
  BY <1>1 DEF vars, stores, loop, StartedRowsAreAlive, InProgress, Killed, Run
<1>2. CASE Tick
  BY <1>2 DEF Tick, stores, loop, StartedRowsAreAlive, InProgress, Killed, Run
<1>3. ASSUME NEW w \in Worker, Launch(w) PROVE StartedRowsAreAlive'
  <2> SUFFICES ASSUME NEW r \in RunId, row[r] = "STARTED"
               PROVE  InProgress(r)' \/ Killed(r)'
    BY <1>3 DEF StartedRowsAreAlive, Launch, stores
  <2>1. InProgress(r) \/ Killed(r)
    BY DEF StartedRowsAreAlive
  <2>2. CASE r[1] # w
    BY <1>0, <1>3, <2>1, <2>2 DEF Launch, InProgress, Killed, Run
  <2>3. CASE r[1] = w
    <3>1. ~NotBegun(w, r[2], r[3])
      BY <1>0, <2>3 DEF IInv, NoTraceBeforeRun, RunId
    <3>2. r[2] <= launches[w] /\ r[2] \in Nat
      BY <3>1 DEF NotBegun, RunId
    <3>3. Killed(r)
      BY <1>3, <2>1, <2>3 DEF InProgress, Launch, Stopped, Body
    <3>4. QED
      BY <1>3, <2>3, <3>2, <3>3 DEF Launch, Killed
  <2>4. QED
    BY <2>2, <2>3
<1>4. ASSUME NEW w \in Worker, Crash(w) PROVE StartedRowsAreAlive'
  <2> SUFFICES ASSUME NEW r \in RunId, row[r] = "STARTED"
               PROVE  InProgress(r)' \/ Killed(r)'
    BY <1>4 DEF StartedRowsAreAlive, Crash, stores
  <2>1. InProgress(r) \/ Killed(r)
    BY DEF StartedRowsAreAlive
  <2>2. CASE r[1] # w
    BY <1>0, <1>4, <2>1, <2>2 DEF Crash, Goto, loop, InProgress, Killed, Run
  <2>3. CASE r[1] = w /\ InProgress(r)
    <3>1. r = <<w, launches[w], day[w]>>
      BY <2>3 DEF InProgress, Run
    <3>2. launches[w] \in 1..MaxLaunches /\ day[w] \in 1..Days
      BY <3>1 DEF RunId
    <3>3. result[r] = "none"
      <4>1. ~(launches[w] < launches[w]) /\ ~(day[w] < day[w])
        BY <3>2
      <4>2. result[<<w, launches[w], day[w]>>] = "none"
        BY <3>2, <4>1 DEF ResultsAreBehind
      <4>3. QED
        BY <3>1, <4>2
    <3>4. QED
      BY <1>4, <2>3, <3>3 DEF Crash, Goto, loop, Killed
  <2>4. CASE r[1] = w /\ Killed(r)
    BY <1>4, <2>4 DEF Crash, Goto, loop, Killed
  <2>5. QED
    BY <2>1, <2>2, <2>3, <2>4
<1>5. ASSUME NEW w \in Worker, NextDay(w) PROVE StartedRowsAreAlive'
  <2> SUFFICES ASSUME NEW r \in RunId, row[r] = "STARTED"
               PROVE  InProgress(r)' \/ Killed(r)'
    BY <1>5 DEF StartedRowsAreAlive, NextDay, stores
  <2>1. InProgress(r) \/ Killed(r)
    BY DEF StartedRowsAreAlive
  <2>2. CASE r[1] # w
    BY <1>0, <1>5, <2>1, <2>2 DEF NextDay, InProgress, Killed, Run
  <2>3. CASE r[1] = w
    BY <1>5, <2>1, <2>3 DEF NextDay, InProgress, Killed, Body
  <2>4. QED
    BY <2>2, <2>3
<1>6. ASSUME NEW w \in Worker, pc[w] \in Body, Step(w) PROVE StartedRowsAreAlive'
  <2> USE <1>6 DEF loop
  <2> SUFFICES ASSUME NEW r \in RunId, row'[r] = "STARTED"
               PROVE  InProgress(r)' \/ Killed(r)'
    BY DEF StartedRowsAreAlive
  <2>1. CASE r # Run(w)
    <3>1. InProgress(r) \/ Killed(r)
      BY <2>1, RowStep DEF StartedRowsAreAlive
    <3>2. result'[r] = result[r] /\ UNCHANGED launches
      BY <2>1, RunInRunId, DayStep DEF Goto, EndDay
    <3>3. CASE r[1] # w
      <4>1. UNCHANGED <<pc[r[1]], day[r[1]]>>
        BY <1>0, <3>3, DayStep DEF Goto, EndDay
      <4>2. QED
        BY <3>1, <3>2, <4>1 DEF InProgress, Killed, Run
    <3>4. CASE r[1] = w
      <4>1. Killed(r) /\ r[2] < launches[r[1]]
        BY <2>1, <3>1, <3>4 DEF InProgress, Killed, Run, Body
      <4>2. QED
        BY <3>2, <4>1 DEF Killed
    <3>5. QED
      BY <3>3, <3>4
  <2>2. CASE r = Run(w)
    <3>1. r = <<w, launches[w], day[w]>> /\ r[1] = w
      BY <2>2 DEF Run
    <3>2. CASE \E label \in Body : Goto(w, label)
      BY <3>1, <3>2, DayStep DEF Goto, InProgress, Run
    <3>3. CASE \E how \in {"returned", "raised"} : EndDay(w, how)
      <4>1. pc'[w] \notin Body
        BY <3>3 DEF EndDay, Body
      <4>2. row'[Run(w)] # "STARTED"
        BY <3>3, <4>1, RowStep
      <4>3. QED
        BY <2>2, <4>2
    <3>4. QED
      BY <3>2, <3>3, DayStep
  <2>3. QED
    BY <2>1, <2>2
<1>7. ASSUME NEW w \in Worker, Step(w) PROVE NextDay(w) \/ pc[w] \in Body
  BY <1>7, PutTables
     DEF Step, LoadCredentials, InsertStarted, FetchOrders, RequestReport, WriteRaw, PollReport,
         UpdateSuccess, UpdateFailed, InsertAlert, Body
<1>8. QED
  BY <1>1, <1>2, <1>3, <1>4, <1>5, <1>6, <1>7 DEF Next

\* Unless an update of the log raises, a row that says STARTED belongs to a run
\* that is in progress or whose process was killed.
THEOREM StartedIsAlive == ASSUME LogIsUp PROVE Spec => []StartedRowsAreAlive
<1>1. Init => ResultsAreBehind /\ StartedRowsAreAlive
  BY DEF Init, ResultsAreBehind, StartedRowsAreAlive, RunId
<1>2. TypeInv /\ TypeInv' /\ ResultsAreBehind /\ [Next]_vars => ResultsAreBehind'
  BY NextResults
<1>3. /\ TypeInv /\ TypeInv' /\ IInv
      /\ ResultsAreBehind /\ StartedRowsAreAlive /\ [Next]_vars
      => StartedRowsAreAlive'
  BY LogIsUp, NextStartedRows
<1>4. QED
  BY <1>1, <1>2, <1>3, SpecTypeInv, SpecIInv, PTL DEF Spec
-----------------------------------------------------------------------------
\* The alerts can be written.
AlertsAreUp == "alerts" \notin Faults

\* A run that raises leaves no row, or an alert.
LEMMA RaisedRun ==
    ASSUME LogIsUp, AlertsAreUp, TypeInv, IInv, NEW w \in Worker, pc[w] \in Body, Step(w),
           EndDay(w, "raised")
    PROVE  row'[Run(w)] = "NONE" \/ Run(w) \in alerts'
<1> USE DEF Step, Body, LogIsUp, AlertsAreUp, TypeInv, TypeOK
<1>0. /\ Run(w) \in RunId /\ RowFits(pc[w], row[Run(w)])
      /\ pc'[w] = "next_day"
  BY RunInRunId DEF IInv, CurrentRun, EndDay
<1>1. CASE NextDay(w)
  BY <1>1 DEF NextDay
<1>2. CASE LoadCredentials(w)
  BY <1>0, <1>2 DEF LoadCredentials, RowFits
<1>3. CASE InsertStarted(w) \/ FetchOrders(w) \/ RequestReport(w) \/ PollReport(w)
  BY <1>0, <1>3 DEF InsertStarted, FetchOrders, RequestReport, PollReport, PollPending,
     OtterCall, Except, Goto
<1>4. CASE WriteRaw(w)
  BY <1>0, <1>4, PutTables DEF WriteRaw, PutObject, Except, Goto
<1>5. CASE UpdateSuccess(w)
  <2>1. Run(w) \in DOMAIN result /\ result'[Run(w)] = "raised"
    BY <1>0 DEF EndDay
  <2>2. ~EndDay(w, "returned")
    BY <2>1 DEF EndDay
  <2>3. QED
    BY <1>0, <1>5, <2>2 DEF UpdateSuccess, Except, Goto
<1>6. CASE UpdateFailed(w)
  BY <1>0, <1>6 DEF UpdateFailed, UpdateRaises, Goto
<1>7. CASE InsertAlert(w)
  BY <1>7 DEF InsertAlert
<1>8. QED
  BY <1>1, <1>2, <1>3, <1>4, <1>5, <1>6, <1>7

\* A step inside a day takes no alert back.
LEMMA AlertsGrow ==
    ASSUME NEW w \in Worker, pc[w] \in Body, Step(w)
    PROVE  alerts \subseteq alerts'
BY DEF Step, NextDay, LoadCredentials, InsertStarted, FetchOrders, RequestReport, WriteRaw,
   PollReport, UpdateSuccess, UpdateFailed, InsertAlert, stores

\* The run a worker is in has no result yet, and the others keep theirs.
LEMMA NextFailures ==
    ASSUME LogIsUp, AlertsAreUp, TypeInv, TypeInv', IInv, ResultsAreBehind,
           FailuresAreAlerted, [Next]_vars
    PROVE  FailuresAreAlerted'
<1> USE BronzeAssumption DEF TypeInv, TypeOK, FailuresAreAlerted
<1>1. CASE UNCHANGED <<result, row, alerts>>
  BY <1>1
<1>2. ASSUME NEW w \in Worker, pc[w] \in Body, Step(w) PROVE FailuresAreAlerted'
  <2> USE <1>2
  <2>1. Run(w) \in RunId
    BY RunInRunId
  <2>2. result[Run(w)] = "none"
    <3>1. launches[w] \in 1..MaxLaunches /\ day[w] \in 1..Days
      BY <2>1 DEF Run, RunId
    <3>2. ~(launches[w] < launches[w]) /\ ~(day[w] < day[w])
      BY <3>1
    <3>3. result[<<w, launches[w], day[w]>>] = "none"
      BY <3>1, <3>2 DEF ResultsAreBehind
    <3>4. QED
      BY <3>3 DEF Run
  <2>3. SUFFICES ASSUME NEW r \in RunId, result'[r] = "raised", row'[r] # "NONE"
                 PROVE  r \in alerts'
    OBVIOUS
  <2>4. CASE r # Run(w)
    <3>1. result'[r] = result[r]
      BY <2>1, <2>4, DayStep DEF Goto, EndDay
    <3>2. QED
      BY <2>3, <2>4, <3>1, RowStep, AlertsGrow
  <2>5. CASE r = Run(w)
    <3>1. EndDay(w, "raised")
      <4>1. ~\E label \in Body : Goto(w, label)
        BY <2>2, <2>3, <2>5 DEF Goto
      <4>2. ~EndDay(w, "returned")
        BY <2>1, <2>3, <2>5 DEF EndDay
      <4>3. QED
        BY <4>1, <4>2, DayStep
    <3>2. QED
      BY <2>3, <2>5, <3>1, RaisedRun
  <2>6. QED
    BY <2>4, <2>5
<1>3. ASSUME NEW w \in Worker, Step(w) PROVE NextDay(w) \/ pc[w] \in Body
  BY <1>3, PutTables
     DEF Step, LoadCredentials, InsertStarted, FetchOrders, RequestReport, WriteRaw, PollReport,
         UpdateSuccess, UpdateFailed, InsertAlert, Body
<1>4. QED
  BY <1>1, <1>2, <1>3 DEF Next, Tick, Launch, Crash, Goto, NextDay, vars, stores, loop

\* While log and alerts can be written, every failure of a run that has a row is
\* alerted, kills and launches in between included.
THEOREM FailuresAlerted == ASSUME LogIsUp, AlertsAreUp PROVE Spec => []FailuresAreAlerted
<1>1. Init => ResultsAreBehind /\ FailuresAreAlerted
  BY DEF Init, ResultsAreBehind, FailuresAreAlerted, RunId
<1>2. TypeInv /\ TypeInv' /\ ResultsAreBehind /\ [Next]_vars => ResultsAreBehind'
  BY NextResults
<1>3. /\ TypeInv /\ TypeInv' /\ IInv
      /\ ResultsAreBehind /\ FailuresAreAlerted /\ [Next]_vars
      => FailuresAreAlerted'
  BY LogIsUp, AlertsAreUp, NextFailures
<1>4. QED
  BY <1>1, <1>2, <1>3, SpecTypeInv, SpecIInv, PTL DEF Spec

-----------------------------------------------------------------------------
\* Objects in Bronze are those their runs have put.
ObjectsArePut == \A o \in bronze : o.key.endpoint \in puts[o.run]

BucketInv == ObjectsAreKept /\ ObjectsArePut

\* What a put replaces is an object of the same merchant, day, endpoint and second.
LEMMA StoreReplaces ==
    ASSUME TypeInv, BucketInv, NEW w \in Worker, pc[w] \in Body,
           NEW e \in Endpoint, Store(w, e), UNCHANGED stamp
    PROVE  BucketInv'
<1> DEFINE Own == [key |-> Key(Run(w), e), run |-> Run(w)]
<1>0. Run(w) \in RunId
  BY RunInRunId
<1>1. /\ puts'[Run(w)] = puts[Run(w)] \union {e}
      /\ \A q \in RunId : puts[q] \subseteq puts'[q]
      /\ \A q \in RunId : q # Run(w) => puts'[q] = puts[q]
  BY <1>0 DEF Store, TypeInv, TypeOK
<1>2. /\ bronze' \subseteq bronze \union {Own}
      /\ Own \in bronze'
      /\ \A o \in bronze : o.key # Key(Run(w), e) => o \in bronze'
  BY DEF Store
<1>3. ObjectsAreKept'
  <2>1. SUFFICES ASSUME NEW r \in RunId, NEW f \in puts'[r]
                 PROVE  \/ [key |-> Key(r, f), run |-> r] \in bronze'
                        \/ \E q \in RunId :
                              SameSecond(q, r) /\ [key |-> Key(r, f), run |-> q] \in bronze'
    BY DEF ObjectsAreKept, Key, SameSecond
  <2>2. CASE r = Run(w) /\ f = e
    BY <1>2, <2>2
  <2>3. CASE ~(r = Run(w) /\ f = e) /\ Key(r, f) = Key(Run(w), e)
    <3>1. SameSecond(Run(w), r)
      BY <2>3 DEF Key, SameSecond
    <3>2. QED
      BY <1>0, <1>2, <2>3, <3>1
  <2>4. CASE Key(r, f) # Key(Run(w), e)
    <3>1. f \in puts[r]
      BY <1>1, <2>4
    <3>2. QED
      BY <1>2, <2>4, <3>1 DEF BucketInv, ObjectsAreKept
  <2>5. QED
    BY <2>2, <2>3, <2>4
<1>4. ObjectsArePut'
  <2>1. SUFFICES ASSUME NEW o \in bronze'
                 PROVE  o.key.endpoint \in puts'[o.run]
    BY DEF ObjectsArePut
  <2>2. CASE o = Own
    BY <1>1, <2>2 DEF Key
  <2>3. CASE o \in bronze
    BY <1>1, <2>3 DEF BucketInv, ObjectsArePut, TypeInv, TypeOK
  <2>4. QED
    BY <1>2, <2>2, <2>3
<1>5. QED
  BY <1>3, <1>4 DEF BucketInv

\* A run gets its second before it has put anything.
LEMMA NextObjects ==
    ASSUME TypeInv, IInv, BucketInv, [Next]_vars
    PROVE  BucketInv'
<1> USE DEF TypeInv, TypeOK
<1>1. CASE UNCHANGED <<bronze, puts, stamp>>
  BY <1>1 DEF BucketInv, ObjectsArePut, ObjectsAreKept, Key, SameSecond
<1>2. ASSUME NEW w \in Worker, NextDay(w), day[w] <= Days PROVE BucketInv'
  <2>1. Run(w) \in RunId /\ puts[Run(w)] = {}
    BY <1>2, BronzeAssumption DEF PositionOK, NextDay, IInv, NoTraceBeforeRun, NotBegun, Run, RunId
  <2>2. UNCHANGED <<bronze, puts>> /\ \A q \in RunId : q # Run(w) => stamp'[q] = stamp[q]
    BY <1>2 DEF NextDay, stores
  <2>3. ASSUME NEW r \in RunId, NEW e \in puts[r]
        PROVE  \/ [key |-> Key(r, e)', run |-> r] \in bronze
               \/ \E q \in RunId :
                     SameSecond(q, r)' /\ [key |-> Key(r, e)', run |-> q] \in bronze
    <3>1. stamp'[r] = stamp[r]
      BY <2>1, <2>2, <2>3
    <3>2. Key(r, e)' = Key(r, e)
      BY <3>1 DEF Key
    <3>3. CASE [key |-> Key(r, e), run |-> r] \in bronze
      BY <3>2, <3>3
    <3>4. CASE \E q \in RunId : SameSecond(q, r) /\ [key |-> Key(r, e), run |-> q] \in bronze
      <4>1. PICK q \in RunId : SameSecond(q, r) /\ [key |-> Key(r, e), run |-> q] \in bronze
        BY <3>4
      <4>2. stamp'[q] = stamp[q]
        BY <2>1, <2>2, <4>1 DEF BucketInv, ObjectsArePut, Key
      <4>3. QED
        BY <3>1, <3>2, <4>1, <4>2 DEF SameSecond
    <3>5. QED
      BY <2>3, <3>3, <3>4 DEF BucketInv, ObjectsAreKept
  <2>4. QED
    BY <2>2, <2>3 DEF BucketInv, ObjectsAreKept, ObjectsArePut
<1>3. ASSUME NEW w \in Worker, WriteRaw(w) PROVE BucketInv'
  <2>1. PICK e \in Endpoint : Store(w, e) \/ UNCHANGED <<bronze, puts>>
    BY <1>3, PutTables DEF WriteRaw, PutObject, Endpoint
  <2>2. pc[w] \in Body /\ UNCHANGED stamp
    BY <1>3, PutTables DEF WriteRaw, Body, loop
  <2>3. QED
    BY <1>1, <2>1, <2>2, StoreReplaces
<1>4. QED
  BY <1>1, <1>2, <1>3
     DEF Next, Step, Tick, Launch, Crash, NextDay, LoadCredentials, InsertStarted, FetchOrders,
         RequestReport, PollReport, UpdateSuccess, UpdateFailed, InsertAlert, vars, stores, loop

\* An object is lost only to a run of the same merchant, day and second.
THEOREM ObjectsKept == Spec => []ObjectsAreKept
<1>1. Init => BucketInv
  BY DEF Init, BucketInv, ObjectsAreKept, ObjectsArePut
<1>2. TypeInv /\ IInv /\ BucketInv /\ [Next]_vars => BucketInv'
  BY NextObjects
<1>3. BucketInv => ObjectsAreKept
  BY DEF BucketInv
<1>4. QED
  BY <1>1, <1>2, <1>3, SpecTypeInv, SpecIInv, PTL DEF Spec
=============================================================================
