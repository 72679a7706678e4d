------------------------------ MODULE CogsEditor ------------------------------
(***************************************************************************)
(* The COGS editor (pages/cogs_editor.py) and CogsWriter (cogs_writer.py): *)
(* sessions edit a grid of costs and save it, row by row, into the table   *)
(* merchant_cogs.  There is one merchant: the sidebar shows merchant_001   *)
(* and offers no way to change it.  The two costs of a row travel together *)
(* and are one value.  GoldReader opens an empty in-memory database, so    *)
(* the rows are always those of the sample data, with costs of 0.  A cell  *)
(* the user clears is NaN in the grid and for float(), and a DECIMAL takes *)
(* it: it is one more cost.                                                *)
(***************************************************************************)
EXTENDS AppSession

CONSTANTS
    Sku,           \* the menu items of the grid
    Rows,          \* its rows, from top to bottom
    Typed,         \* the costs users type; 0 is the default
    Storable,      \* those that fit a DECIMAL(10,4)
    NoRow, NoOne,
    MaxConnections \* what the database server accepts

ASSUME CogsAssumption ==
    /\ Rows \in Seq(Sku) /\ Sku = {Rows[i] : i \in DOMAIN Rows}
    /\ 0 \in Storable /\ Storable \subseteq Typed \union {0} /\ NoRow \notin Storable
    /\ NoOne \notin Session
    /\ MaxConnections \in Nat

VARIABLES
    dsn,         \* is OMCAE_COGS_DSN set?
    cogs,        \* the table merchant_cogs: the cost of each SKU
    edits,       \* the grid's widget state: the cells edited since it was drawn
    save,        \* the save the script is at: the edits it was given, its row
    connections, \* open database connections of each session
    shown,       \* the message of the last save
    saved,       \* auxiliary: the rows the last save has committed
    writer,      \* auxiliary: who wrote each row of the table last
    attempt      \* auxiliary: has the last save begun, has it failed?

tableVars == <<cogs, saved, writer>>
cogsVars == <<dsn, tableVars, edits, save, connections, shown, attempt>>

NoEdits == [sku \in {} |-> 0]

CogsInit ==
    /\ dsn \in BOOLEAN
    /\ cogs = [sku \in Sku |-> NoRow]
    /\ edits = [s \in Session |-> NoEdits]
    /\ save = [s \in Session |-> [edits |-> NoEdits, row |-> 1]]
    /\ connections = [s \in Session |-> 0]
    /\ shown = [s \in Session |-> "none"]
    /\ saved = [s \in Session |-> {}]
    /\ writer = [sku \in Sku |-> NoOne]
    /\ attempt = [s \in Session |-> "none"]

\* edited_df: the sample rows with the edits applied.
Grid(edited, sku) == IF sku \in DOMAIN edited THEN edited[sku] ELSE 0

\* The user types a cost into the grid.
Edit(s) ==
    /\ Shows(s, "cogs_editor") /\ ~Leaving(s)
    /\ Request(s, "cogs_editor")
    /\ \E sku \in Sku, cost \in Typed :
          edits' = [edits EXCEPT ![s] =
                       [k \in DOMAIN @ \union {sku} |-> IF k = sku THEN cost ELSE @[k]]]
    /\ UNCHANGED <<dsn, tableVars, save, connections, shown, attempt>>

PressSave(s) ==
    /\ Shows(s, "cogs_editor") /\ ~Leaving(s)
    /\ Request(s, "save")
    /\ UNCHANGED cogsVars

\* The editor is rendered with the button pressed.
StartSave(s) ==
    /\ script' = [script EXCEPT ![s] = IF dsn THEN "connect" ELSE "idle"]
    /\ shown' = [shown EXCEPT ![s] = IF dsn THEN "none" ELSE "dev mode"]
    /\ save' = [save EXCEPT ![s] = [edits |-> edits[s], row |-> 1]]
    /\ saved' = [saved EXCEPT ![s] = {}]
    /\ attempt' = [attempt EXCEPT ![s] = IF dsn THEN "begun" ELSE "none"]
    /\ UNCHANGED <<dsn, cogs, writer, edits, connections>>

\* An exception leaves the page as an error; putconn has closed the connection.
SaveFails(s) ==
    /\ Continue(s, "idle")
    /\ connections' = [connections EXCEPT ![s] = 0]
    /\ shown' = [shown EXCEPT ![s] = "error"]
    /\ attempt' = [attempt EXCEPT ![s] = "failed"]

Open == {s \in Session : connections[s] > 0}

\* getconn: the pool is empty, so every row opens a connection of its own.
Connect(s) ==
    /\ script[s] = "connect" /\ save[s].row <= Len(Rows)
    /\ \/ /\ Cardinality(Open) < MaxConnections
          /\ Continue(s, "upsert")
          /\ connections' = [connections EXCEPT ![s] = @ + 1]
          /\ UNCHANGED <<shown, attempt>>
       \/ /\ Cardinality(Open) >= MaxConnections \/ "database" \in Faults
          /\ SaveFails(s)
    /\ UNCHANGED <<dsn, tableVars, edits, save>>

\* Mutants: putconn keeps the connection in the pool, a pool with min_conn = 1;
\* the loop draws a progress bar.
KeptByPool(s)  == connections
DrawProgress(s) == IF Interrupted(s) THEN "idle" ELSE "connect"

\* putconn: a pool with min_conn = 0 closes what is returned to it.
PutConn(s) == [connections EXCEPT ![s] = @ - 1]

\* The loop goes on to its next row; it makes no st.* call.
NextRow(s) == "connect"

\* Mutant: ON CONFLICT DO NOTHING.
InsertOnly(sku, cost) == [cogs EXCEPT ![sku] = IF @ = NoRow THEN cost ELSE @]

\* INSERT ... ON CONFLICT DO UPDATE
InsertOrUpdate(sku, cost) == [cogs EXCEPT ![sku] = cost]

\* Mutant: a NUMERIC column, without precision.
FitsAnyNumeric(cost) == TRUE

Fits(cost) == cost \in Storable

Commit(s) ==
    LET sku == Rows[save[s].row] IN
    /\ Fits(Grid(save[s].edits, sku))
    /\ cogs' = InsertOrUpdate(sku, Grid(save[s].edits, sku))
    /\ saved' = [saved EXCEPT ![s] = @ \union {sku}]
    /\ writer' = [writer EXCEPT ![sku] = s]

\* CogsWriter.upsert of a row.
Upsert(s) ==
    /\ script[s] = "upsert"
    /\ Commit(s)
    /\ Continue(s, NextRow(s))
    /\ connections' = PutConn(s)
    /\ save' = [save EXCEPT ![s].row = @ + 1]
    /\ UNCHANGED <<dsn, edits, shown, attempt>>

\* Mutant: a row that raises is tried again.
UpsertRetries(s) ==
    /\ script[s] = "upsert" /\ "database" \in Faults
    /\ Continue(s, "connect")
    /\ connections' = PutConn(s)
    /\ UNCHANGED <<dsn, tableVars, edits, save, shown, attempt>>

\* The row does not fit the column or the database fails, before the commit or
\* in it: the row may be there nevertheless.
UpsertRaises(s) ==
    /\ script[s] = "upsert"
    /\ \/ /\ ~Fits(Grid(save[s].edits, Rows[save[s].row])) \/ "database" \in Faults
          /\ UNCHANGED tableVars
       \/ "database" \in Faults /\ Commit(s)
    /\ SaveFails(s)
    /\ UNCHANGED <<dsn, edits, save>>

\* st.success: the first st.* call after the click, where a queued rerun stops
\* the script.
Report(s) ==
    /\ script[s] = "connect" /\ save[s].row > Len(Rows)
    /\ Continue(s, "idle")
    /\ shown' = IF Interrupted(s) THEN shown ELSE [shown EXCEPT ![s] = "saved"]
    /\ UNCHANGED <<dsn, tableVars, edits, save, connections, attempt>>

SaveStep(s) == Connect(s) \/ Upsert(s) \/ UpsertRaises(s) \/ Report(s)

(***************************************************************************)
(* Properties                                                              *)
(***************************************************************************)
Edits == UNION {[E -> Typed] : E \in SUBSET Sku}

\* The editor's part of the type invariant: a session holds at most one connection,
\* and the table only costs that fit its column.
CogsTypeOK ==
    /\ dsn \in BOOLEAN
    /\ cogs \in [Sku -> Storable \union {NoRow}]
    /\ edits \in [Session -> Edits]
    /\ save \in [Session -> [edits : Edits, row : 1..(Len(Rows) + 1)]]
    /\ connections \in [Session -> 0..1]
    /\ shown \in [Session -> {"none", "dev mode", "saved", "error"}]
    /\ saved \in [Session -> SUBSET Sku]
    /\ writer \in [Sku -> Session \union {NoOne}]
    /\ attempt \in [Session -> {"none", "begun", "failed"}]

\* A save that reports success, or whose script has ended without an error,
\* has committed every row: what the user does next never cuts a save short.
SavesAreWhole ==
    \A s \in Session :
        shown[s] = "saved" \/ (Idle(s) /\ attempt[s] = "begun") => saved[s] = Sku

\* The rows a save has committed hold the costs its session saw at the click,
\* whatever it typed since, until another session saves them.
SavedRowsAreStored ==
    \A s \in Session : \A sku \in saved[s] :
        writer[sku] = s => cogs[sku] = Grid(save[s].edits, sku)

\* No connection outlives its row, so no session keeps others from saving while
\* it is not itself in the middle of one.
IdleHoldsNoConnection ==
    \A s \in Session : script[s] # "upsert" => connections[s] = 0

\* "CogsWriter.upsert per modified row": a save writes the rows that were edited.
EditedRowsOnly ==
    [][\A s \in Session : saved'[s] \ saved[s] \subseteq DOMAIN save[s].edits]_cogsVars
=============================================================================
