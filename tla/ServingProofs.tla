---------------------------- MODULE ServingProofs -----------------------------
(***************************************************************************)
(* Type correctness and safety of the Streamlit application for any number *)
(* of sessions, rows and requests and any set of faults.                   *)
(*                                                                         *)
(* The inductive invariant ties, for each session, the I/O its script is   *)
(* at to what the page has done: SaveInv is about the COGS editor,         *)
(* WizardInv about the wizard.  Neither page changes the other's state, so *)
(* each part is shown against the steps of its own page, and against all   *)
(* others by what they do to the scripts (FrameSave, FrameWizard).         *)
(***************************************************************************)
EXTENDS Serving, TLAPS

SessionOK ==
    /\ page \in [Session -> Page]
    /\ queued \in [Session -> Rerun \union {"none"}]
    /\ script \in [Session -> IO]
    /\ requests \in 0..MaxRequests

Saving(s) == script[s] \in {"connect", "upsert"}

\* A connection is open exactly while a row is written.
ConnectionInv ==
    \A s \in Session :
        /\ connections[s] = IF script[s] = "upsert" THEN 1 ELSE 0
        /\ script[s] = "upsert" => save[s].row <= Len(Rows)

\* The rows a save has passed are committed; once it is over, all are.
ProgressInv ==
    \A s \in Session :
        /\ Saving(s) => /\ attempt[s] = "begun"
                        /\ \A i \in 1..Len(Rows) : i < save[s].row => Rows[i] \in saved[s]
        /\ ~Saving(s) /\ attempt[s] = "begun" => saved[s] = Sku
        /\ shown[s] = "saved" => saved[s] = Sku

\* Each script of the wizard runs at its step.
StepInv ==
    \A s \in Session :
        /\ script[s] = "exchange" => step[s] = 1 /\ code[s] # "none"
        /\ script[s] = "exchanged" => step[s] = 1 /\ code[s] # "none" /\ connected[s]
        /\ script[s] \in {"sync", "synced"} => step[s] = 2
        /\ script[s] = "synced" => synced[s] > 0
        /\ queued[s] = "back" => step[s] = 1 /\ code[s] = "none"

\* A day was loaded without the step that says so only if it was cut.
RepeatInv ==
    \A s \in Session :
        /\ synced[s] <= cut[s] + 1
        /\ step[s] <= 2 /\ script[s] # "synced" => synced[s] <= cut[s]

SaveInv   == CogsTypeOK /\ ConnectionInv /\ ProgressInv /\ SavedRowsAreStored
WizardInv == WizardTypeOK /\ StepInv /\ StepsAreEarned /\ RepeatInv

IInv == SessionOK /\ SaveInv /\ WizardInv

-----------------------------------------------------------------------------
LEMMA RowsFacts ==
    /\ Len(Rows) \in Nat
    /\ \A i \in 1..Len(Rows) : Rows[i] \in Sku
    /\ \A sku \in Sku : \E i \in 1..Len(Rows) : sku = Rows[i]
  BY CogsAssumption

LEMMA NoEditsType == NoEdits \in Edits
  <1>1. NoEdits \in [{} -> Typed]
    BY DEF NoEdits
  <1> QED
    BY <1>1 DEF Edits

LEMMA InitIInv == Init => IInv
  <1> SUFFICES ASSUME Init PROVE IInv
    OBVIOUS
  <1> USE DEF Init, SessionInit, CogsInit, WizardInit
  <1>1. SessionOK
    <2>1. FirstPages \subseteq Page
      BY SessionAssumption DEF Page
    <2>2. page \in [Session -> Page]
      BY <2>1
    <2>3. queued \in [Session -> Rerun \union {"none"}]
      BY <2>2 DEF Rerun
    <2>4. script \in [Session -> IO] /\ requests \in 0..MaxRequests
      BY SessionAssumption DEF IO
    <2> QED
      BY <2>2, <2>3, <2>4 DEF SessionOK
  <1>2. CogsTypeOK
    <2>1. NoEdits \in Edits
      BY NoEditsType
    <2>2. [edits |-> NoEdits, row |-> 1] \in [edits : Edits, row : 1..(Len(Rows) + 1)]
      BY <2>1, RowsFacts
    <2> QED
      BY <2>1, <2>2 DEF CogsTypeOK
  <1>3. WizardTypeOK
    <2>1. step \in [Session -> 0..3]
      <3>1. FirstSteps \union {0} \subseteq 0..3
        BY OnboardingAssumption
      <3> QED
        BY <3>1
    <2>2. synced \in [Session -> 0..MaxSyncs] /\ cut \in [Session -> 0..MaxSyncs]
      BY OnboardingAssumption
    <2> QED
      BY <2>1, <2>2 DEF WizardTypeOK
  <1>4. ConnectionInv /\ ProgressInv /\ SavedRowsAreStored
    BY DEF ConnectionInv, ProgressInv, SavedRowsAreStored, Saving
  <1>5. StepInv /\ StepsAreEarned /\ RepeatInv
    <2>1. \A s \in Session : step[s] \in {0, 1} /\ script[s] = "idle" /\ synced[s] = 0 /\ cut[s] = 0
      BY OnboardingAssumption
    <2>2. \A s \in Session : queued[s] # "back"
      BY SessionAssumption
    <2> QED
      BY <2>1, <2>2 DEF StepInv, StepsAreEarned, RepeatInv
  <1> QED
    BY <1>1, <1>2, <1>3, <1>4, <1>5 DEF IInv, SaveInv, WizardInv

(***************************************************************************)
(* The session machine                                                     *)
(***************************************************************************)
LEMMA RequestEffect ==
    ASSUME SessionOK, NEW s \in Session, NEW rerun \in Rerun, Request(s, rerun)
    PROVE  /\ SessionOK'
           /\ UNCHANGED <<page, script>>
           /\ \A t \in Session : queued'[t] = queued[t] \/ queued'[t] = rerun
  <1>1. requests' \in 0..MaxRequests
    BY SessionAssumption DEF Request, SessionOK
  <1>2. \A t \in Session : queued'[t] = queued[t] \/ queued'[t] = rerun
    BY DEF Request, SessionOK
  <1>3. queued' \in [Session -> Rerun \union {"none"}]
    BY DEF Request, SessionOK
  <1> QED
    BY <1>1, <1>2, <1>3 DEF Request, SessionOK

LEMMA ContinueEffect ==
    ASSUME SessionOK, NEW s \in Session, NEW io \in IO, Continue(s, io)
    PROVE  /\ SessionOK'
           /\ UNCHANGED queued
           /\ script'[s] = io
           /\ \A t \in Session : t # s => script'[t] = script[t]
  BY DEF Continue, SessionOK

LEMMA RerunEffect ==
    ASSUME SessionOK, NEW s \in Session, RerunPage(s)
    PROVE  /\ SessionOK'
           /\ script'[s] = "idle" /\ queued'[s] # "back"
           /\ \A t \in Session : t # s => script'[t] = script[t] /\ queued'[t] = queued[t]
  BY DEF RerunPage, SessionOK, Page, Rerun, IO

LEMMA TakeEffect ==
    ASSUME SessionOK, NEW s \in Session, NEW p \in Page, Take(s, p)
    PROVE  /\ page' \in [Session -> Page] /\ queued' \in [Session -> Rerun \union {"none"}]
           /\ requests' = requests
           /\ script[s] = "idle" /\ queued'[s] = "none"
           /\ \A t \in Session : t # s => queued'[t] = queued[t]
  BY DEF Take, Idle, SessionOK

\* Steps that leave the editor's state alone keep its invariant.
LEMMA FrameSave ==
    ASSUME SessionOK, SaveInv, UNCHANGED cogsVars,
           \A t \in Session : \/ script'[t] = script[t]
                             \/ {script[t], script'[t]} \cap {"connect", "upsert"} = {}
    PROVE  SaveInv'
  <1> USE DEF SaveInv, cogsVars, tableVars
  <1>1. CogsTypeOK'
    BY DEF CogsTypeOK
  <1>2. ConnectionInv'
    BY DEF ConnectionInv, Saving
  <1>3. ProgressInv'
    BY DEF ProgressInv, Saving
  <1>4. SavedRowsAreStored'
    BY DEF SavedRowsAreStored
  <1> QED
    BY <1>1, <1>2, <1>3, <1>4

\* Steps that leave the wizard's state alone keep its invariant.
LEMMA FrameWizard ==
    ASSUME SessionOK, WizardInv, UNCHANGED wizardVars,
           \A t \in Session :
               /\ \/ script'[t] = script[t]
                  \/ script[t] # "synced"
                     /\ script'[t] \notin {"exchange", "exchanged", "sync", "synced"}
               /\ queued'[t] = queued[t] \/ queued'[t] # "back"
    PROVE  WizardInv'
  <1> USE DEF WizardInv, wizardVars
  <1>1. WizardTypeOK'
    BY DEF WizardTypeOK
  <1>2. StepInv'
    BY DEF StepInv
  <1>3. StepsAreEarned'
    BY DEF StepsAreEarned
  <1>4. RepeatInv'
    BY DEF RepeatInv
  <1> QED
    BY <1>1, <1>2, <1>3, <1>4

(***************************************************************************)
(* What users do                                                           *)
(***************************************************************************)
LEMMA EditKeeps ==
    ASSUME IInv, NEW s \in Session, Edit(s)
    PROVE  SaveInv'
  <1> USE DEF IInv, SaveInv
  <1>1. UNCHANGED <<dsn, tableVars, save, connections, shown, attempt, script>>
    BY DEF Edit, Request
  <1>2. edits' \in [Session -> Edits]
    <2>1. PICK sku \in Sku, cost \in Typed :
             edits' = [edits EXCEPT ![s] =
                          [k \in DOMAIN @ \union {sku} |-> IF k = sku THEN cost ELSE @[k]]]
      BY DEF Edit
    <2>2. PICK E \in SUBSET Sku : edits[s] \in [E -> Typed]
      <3>1. edits[s] \in Edits
        BY DEF CogsTypeOK
      <3> QED
        BY <3>1 DEF Edits
    <2> DEFINE new == [k \in E \union {sku} |-> IF k = sku THEN cost ELSE edits[s][k]]
    <2>3. new \in [E \union {sku} -> Typed]
      BY <2>2
    <2>4. new \in Edits
      BY <2>3 DEF Edits
    <2>5. edits' = [edits EXCEPT ![s] = new]
      BY <2>1, <2>2 DEF CogsTypeOK
    <2> QED
      BY <2>4, <2>5 DEF CogsTypeOK
  <1>3. CogsTypeOK'
    BY <1>1, <1>2 DEF CogsTypeOK, tableVars
  <1>4. ConnectionInv' /\ ProgressInv' /\ SavedRowsAreStored'
    BY <1>1 DEF ConnectionInv, ProgressInv, Saving, SavedRowsAreStored, tableVars
  <1> QED
    BY <1>3, <1>4

LEMMA UserKeeps ==
    ASSUME IInv, NEW s \in Session, User(s)
    PROVE  IInv'
  <1> USE DEF IInv
  <1>1. PICK rerun \in Rerun : Request(s, rerun) /\ (rerun = "back" => PressBack(s))
    BY DEF User, Edit, PressSave, Authorize, PressBack, GoToDashboard, Navigate, Rerun, Page
  <1>2. /\ SessionOK'
        /\ UNCHANGED <<page, script>>
        /\ \A t \in Session : queued'[t] = queued[t] \/ queued'[t] = rerun
    BY <1>1, RequestEffect
  <1>3. SaveInv'
    <2>1. CASE Edit(s)
      BY <2>1, EditKeeps
    <2>2. CASE ~Edit(s)
      <3>1. UNCHANGED cogsVars
        BY <2>2 DEF User, PressSave
      <3>2. \A t \in Session : script'[t] = script[t]
        BY <1>2
      <3> QED
        BY <3>1, <3>2, FrameSave
    <2> QED
      BY <2>1, <2>2
  <1>4. WizardInv'
    <2>1. CASE PressBack(s)
      <3>1. UNCHANGED wizardVars /\ step[s] = 1 /\ code[s] = "none"
        BY <2>1 DEF PressBack
      <3>2. \A t \in Session : t # s => queued'[t] = queued[t]
        BY <2>1 DEF PressBack, Request, SessionOK
      <3>3. WizardTypeOK' /\ StepsAreEarned' /\ RepeatInv'
        BY <3>1, <1>2 DEF WizardInv, WizardTypeOK, StepsAreEarned, RepeatInv, wizardVars
      <3>4. StepInv'
        BY <3>1, <3>2, <1>2 DEF WizardInv, StepInv, wizardVars
      <3> QED
        BY <3>3, <3>4 DEF WizardInv
    <2>2. CASE Authorize(s)
      <3>1. /\ step[s] = 0 /\ UNCHANGED <<step, banner, connected, synced, cut>>
            /\ code' = [code EXCEPT ![s] = "valid"]
            /\ \A t \in Session : queued'[t] = queued[t] \/ queued'[t] = "refresh"
        BY <2>2, RequestEffect DEF Authorize, Rerun
      <3>2. WizardTypeOK' /\ StepsAreEarned' /\ RepeatInv'
        BY <3>1, <1>2 DEF WizardInv, WizardTypeOK, StepsAreEarned, RepeatInv
      <3>3. StepInv'
        BY <3>1, <1>2 DEF WizardInv, WizardTypeOK, StepInv
      <3> QED
        BY <3>2, <3>3 DEF WizardInv
    <2>3. CASE ~PressBack(s) /\ ~Authorize(s)
      <3>1. UNCHANGED wizardVars
        BY <2>3 DEF User, GoToDashboard
      <3> QED
        BY <3>1, <2>3, <1>1, <1>2, FrameWizard
    <2> QED
      BY <2>1, <2>2, <2>3
  <1> QED
    BY <1>2, <1>3, <1>4

(***************************************************************************)
(* The steps of a save                                                     *)
(***************************************************************************)
\* What a step of a save does to the sessions' scripts.
LEMMA SaveStepEffect ==
    ASSUME IInv, NEW s \in Session, SaveStep(s)
    PROVE  /\ SessionOK'
           /\ UNCHANGED queued
           /\ script[s] \in {"connect", "upsert"} /\ script'[s] \in {"idle", "connect", "upsert"}
           /\ \A t \in Session : t # s => script'[t] = script[t]
  <1>1. PICK io \in {"idle", "connect", "upsert"} : Continue(s, io)
    BY DEF SaveStep, Connect, Upsert, UpsertRaises, Report, SaveFails, NextRow
  <1>2. script[s] \in {"connect", "upsert"}
    BY DEF SaveStep, Connect, Upsert, UpsertRaises, Report
  <1> QED
    BY <1>1, <1>2, ContinueEffect DEF IInv, IO

LEMMA GridType ==
    ASSUME NEW e \in Edits, NEW sku \in Sku
    PROVE  Grid(e, sku) \in Typed \union {0}
  BY DEF Edits, Grid

LEMMA WriteState ==
    ASSUME IInv, NEW s \in Session
    PROVE  /\ save[s].edits \in Edits /\ save[s].row \in 1..(Len(Rows) + 1)
           /\ connections[s] = IF script[s] = "upsert" THEN 1 ELSE 0
           /\ script[s] = "upsert" => save[s].row \in 1..Len(Rows)
  <1>1. save[s] \in [edits : Edits, row : 1..(Len(Rows) + 1)]
    BY DEF IInv, SaveInv, CogsTypeOK
  <1>2. save[s].row \in 1..(Len(Rows) + 1)
    BY <1>1
  <1>3. script[s] = "upsert" => save[s].row <= Len(Rows)
    BY DEF IInv, SaveInv, ConnectionInv
  <1>4. script[s] = "upsert" => save[s].row \in 1..Len(Rows)
    BY <1>2, <1>3, RowsFacts
  <1> QED
    BY <1>1, <1>4 DEF IInv, SaveInv, ConnectionInv

LEMMA CommitKeeps ==
    ASSUME IInv, NEW s \in Session, Commit(s), script[s] = "upsert"
    PROVE  LET sku == Rows[save[s].row] IN
           /\ sku \in Sku
           /\ cogs' = [cogs EXCEPT ![sku] = Grid(save[s].edits, sku)]
           /\ cogs' \in [Sku -> Storable \union {NoRow}]
           /\ saved' = [saved EXCEPT ![s] = @ \union {sku}]
           /\ saved' \in [Session -> SUBSET Sku]
           /\ writer' = [writer EXCEPT ![sku] = s]
           /\ writer' \in [Sku -> Session \union {NoOne}]
  <1>1. save[s].row \in 1..Len(Rows)
    BY WriteState
  <1>2. Rows[save[s].row] \in Sku
    BY <1>1, RowsFacts
  <1> QED
    BY <1>2 DEF Commit, Fits, InsertOrUpdate, IInv, SaveInv, CogsTypeOK

\* A commit leaves the rows of every save, this one's included, as they were
\* seen at its click.
LEMMA CommitStored ==
    ASSUME IInv, NEW s \in Session, Commit(s), script[s] = "upsert",
           \A t \in Session : save'[t].edits = save[t].edits
    PROVE  SavedRowsAreStored'
  <1> DEFINE sku == Rows[save[s].row]
  <1>1. /\ sku \in Sku
        /\ cogs' = [cogs EXCEPT ![sku] = Grid(save[s].edits, sku)]
        /\ saved' = [saved EXCEPT ![s] = @ \union {sku}]
        /\ writer' = [writer EXCEPT ![sku] = s]
    BY CommitKeeps
  <1>2. /\ cogs \in [Sku -> Storable \union {NoRow}]
        /\ saved \in [Session -> SUBSET Sku]
        /\ writer \in [Sku -> Session \union {NoOne}]
    BY DEF IInv, SaveInv, CogsTypeOK
  <1>3. SUFFICES ASSUME NEW t \in Session, NEW k \in saved'[t], writer'[k] = t
                 PROVE  cogs'[k] = Grid(save[t].edits, k)
    BY DEF SavedRowsAreStored
  <1> HIDE DEF sku
  <1>4. CASE k = sku
    BY <1>1, <1>2, <1>3, <1>4
  <1>5. CASE k # sku
    <2>1. k \in saved[t] /\ k \in Sku
      BY <1>1, <1>2, <1>3, <1>5
    <2>2. writer[k] = t /\ cogs'[k] = cogs[k]
      BY <1>1, <1>2, <1>3, <1>5, <2>1
    <2> QED
      BY <2>1, <2>2 DEF IInv, SaveInv, SavedRowsAreStored
  <1> QED
    BY <1>4, <1>5

LEMMA UpdateType ==
    ASSUME NEW f \in [Session -> 0..1], NEW s \in Session, NEW n \in {0, 1}
    PROVE  [f EXCEPT ![s] = n] \in [Session -> 0..1]
  <1>1. n \in 0..1
    OBVIOUS
  <1> QED
    BY <1>1

\* A save that fails leaves the table, and its own record, as they are.
LEMMA FailureKeeps ==
    ASSUME IInv, NEW s \in Session, SaveFails(s), Saving(s),
           UNCHANGED <<dsn, cogs, saved, writer, edits, save>>
    PROVE  SaveInv'
  <1> USE DEF IInv, SaveInv
  <1>1. /\ script'[s] = "idle"
        /\ \A t \in Session : t # s => script'[t] = script[t]
    BY ContinueEffect DEF SaveFails, IO
  <1>2. /\ connections' = [connections EXCEPT ![s] = 0]
        /\ shown' = [shown EXCEPT ![s] = "error"]
        /\ attempt' = [attempt EXCEPT ![s] = "failed"]
    BY DEF SaveFails
  <1>3. /\ connections \in [Session -> 0..1]
        /\ shown \in [Session -> {"none", "dev mode", "saved", "error"}]
        /\ attempt \in [Session -> {"none", "begun", "failed"}]
    BY DEF CogsTypeOK
  <1>4. CogsTypeOK'
    <2>1. connections' \in [Session -> 0..1]
      <3>1. connections \in [Session -> 0..1] /\ connections' = [connections EXCEPT ![s] = 0]
        BY <1>2, <1>3
      <3> QED
        BY <3>1, UpdateType
    <2>2. shown' \in [Session -> {"none", "dev mode", "saved", "error"}]
      BY <1>2, <1>3
    <2>3. attempt' \in [Session -> {"none", "begun", "failed"}]
      BY <1>2, <1>3
    <2> QED
      BY <2>1, <2>2, <2>3 DEF CogsTypeOK
  <1>5. ConnectionInv'
    BY <1>1, <1>2, <1>3 DEF ConnectionInv
  <1>6. ProgressInv'
    BY <1>1, <1>2, <1>3 DEF ProgressInv, Saving
  <1>7. SavedRowsAreStored'
    BY DEF SavedRowsAreStored
  <1> QED
    BY <1>4, <1>5, <1>6, <1>7

LEMMA ConnectKeeps ==
    ASSUME IInv, NEW s \in Session, Connect(s)
    PROVE  SaveInv'
  <1> USE DEF IInv, SaveInv
  <1>1. /\ script[s] = "connect" /\ save[s].row <= Len(Rows)
        /\ UNCHANGED <<dsn, cogs, saved, writer, edits, save>>
        /\ \A t \in Session : t # s => script'[t] = script[t]
    BY SaveStepEffect DEF Connect, SaveStep, tableVars
  <1>2. connections[s] = 0
    BY <1>1, WriteState
  <1>3. /\ connections \in [Session -> 0..1]
        /\ shown \in [Session -> {"none", "dev mode", "saved", "error"}]
        /\ attempt \in [Session -> {"none", "begun", "failed"}]
    BY DEF CogsTypeOK
  <1>4. CASE Continue(s, "upsert") /\ connections' = [connections EXCEPT ![s] = @ + 1]
             /\ UNCHANGED <<shown, attempt>>
    <2>1. script'[s] = "upsert"
      BY <1>4, ContinueEffect DEF IO
    <2>2. connections' = [connections EXCEPT ![s] = 1]
      <3>1. connections[s] + 1 = 1
        BY <1>2
      <3> QED
        BY <3>1, <1>4
    <2>3. CogsTypeOK'
      <3>1. connections' \in [Session -> 0..1]
        BY <1>3, <2>2, UpdateType
      <3> QED
        BY <3>1, <1>1, <1>4 DEF CogsTypeOK
    <2>4. ConnectionInv'
      BY <1>1, <1>3, <2>1, <2>2 DEF ConnectionInv
    <2>5. ProgressInv'
      BY <1>1, <1>4, <2>1 DEF ProgressInv, Saving
    <2> QED
      BY <2>3, <2>4, <2>5, <1>1 DEF SavedRowsAreStored
  <1>5. CASE SaveFails(s)
    BY <1>1, <1>5, FailureKeeps DEF Saving
  <1> QED
    BY <1>4, <1>5 DEF Connect

LEMMA UpsertKeeps ==
    ASSUME IInv, NEW s \in Session, Upsert(s)
    PROVE  SaveInv'
  <1> USE DEF IInv, SaveInv
  <1>1. /\ script[s] = "upsert" /\ script'[s] = "connect"
        /\ UNCHANGED <<dsn, edits, shown, attempt>>
        /\ \A t \in Session : t # s => script'[t] = script[t]
    BY SaveStepEffect, ContinueEffect DEF Upsert, SaveStep, NextRow, IO
  <1>2. connections[s] = 1 /\ save[s].row \in 1..Len(Rows)
    BY <1>1, WriteState
  <1>3. connections \in [Session -> 0..1] /\ connections' = [connections EXCEPT ![s] = 0]
    <2>1. connections[s] - 1 = 0
      BY <1>2
    <2> QED
      BY <2>1 DEF Upsert, PutConn, CogsTypeOK
  <1>4. /\ save' = [save EXCEPT ![s].row = @ + 1]
        /\ save' \in [Session -> [edits : Edits, row : 1..(Len(Rows) + 1)]]
        /\ \A t \in Session : save'[t].edits = save[t].edits
    <2>1. save' = [save EXCEPT ![s].row = @ + 1]
      BY DEF Upsert
    <2>2. save \in [Session -> [edits : Edits, row : 1..(Len(Rows) + 1)]]
      BY DEF CogsTypeOK
    <2>3. save[s].row + 1 \in 1..(Len(Rows) + 1)
      BY <1>2, RowsFacts
    <2> QED
      BY <2>1, <2>2, <2>3
  <1>5. /\ cogs' \in [Sku -> Storable \union {NoRow}]
        /\ saved' \in [Session -> SUBSET Sku]
        /\ writer' \in [Sku -> Session \union {NoOne}]
        /\ saved' = [saved EXCEPT ![s] = @ \union {Rows[save[s].row]}]
    BY <1>1, CommitKeeps DEF Upsert
  <1>6. CogsTypeOK'
    <2>1. connections' \in [Session -> 0..1]
      BY <1>3
    <2> QED
      BY <2>1, <1>1, <1>4, <1>5 DEF CogsTypeOK
  <1>7. ConnectionInv'
    BY <1>1, <1>3, <1>4 DEF ConnectionInv, CogsTypeOK
  <1>8. ProgressInv'
    <2>1. ASSUME NEW t \in Session, t # s
          PROVE  saved'[t] = saved[t] /\ save'[t] = save[t]
      BY <2>1, <1>4, <1>5 DEF CogsTypeOK
    <2>2. ASSUME NEW i \in 1..Len(Rows), i < save'[s].row
          PROVE  Rows[i] \in saved'[s]
      <3>1. save'[s].row = save[s].row + 1
        BY <1>4 DEF CogsTypeOK
      <3>2. i = save[s].row \/ i < save[s].row
        BY <3>1, <2>2, <1>2, RowsFacts
      <3>3. saved'[s] = saved[s] \union {Rows[save[s].row]}
        BY <1>5 DEF CogsTypeOK
      <3> QED
        BY <3>2, <3>3, <1>1 DEF ProgressInv, Saving
    <2>3. shown[s] = "saved" => saved'[s] = Sku
      BY <1>5 DEF ProgressInv, CogsTypeOK
    <2> QED
      BY <2>1, <2>2, <2>3, <1>1 DEF ProgressInv, Saving
  <1>9. SavedRowsAreStored'
    BY <1>1, <1>4, CommitStored DEF Upsert
  <1> QED
    BY <1>6, <1>7, <1>8, <1>9

LEMMA UpsertRaisesKeeps ==
    ASSUME IInv, NEW s \in Session, UpsertRaises(s)
    PROVE  SaveInv'
  <1> USE DEF IInv, SaveInv
  <1>1. /\ script[s] = "upsert" /\ SaveFails(s)
        /\ UNCHANGED <<dsn, edits, save>>
    BY DEF UpsertRaises
  <1>2. CASE UNCHANGED tableVars
    BY <1>1, <1>2, FailureKeeps DEF Saving, tableVars
  <1>3. CASE Commit(s)
    <2>1. /\ script'[s] = "idle"
          /\ \A t \in Session : t # s => script'[t] = script[t]
      BY <1>1, ContinueEffect DEF SaveFails, IO
    <2>2. /\ connections' = [connections EXCEPT ![s] = 0]
          /\ shown' = [shown EXCEPT ![s] = "error"]
          /\ attempt' = [attempt EXCEPT ![s] = "failed"]
      BY <1>1 DEF SaveFails
    <2>3. /\ cogs' \in [Sku -> Storable \union {NoRow}]
          /\ saved' \in [Session -> SUBSET Sku]
          /\ writer' \in [Sku -> Session \union {NoOne}]
          /\ saved' = [saved EXCEPT ![s] = @ \union {Rows[save[s].row]}]
      BY <1>1, <1>3, CommitKeeps
    <2>4. /\ connections' \in [Session -> 0..1]
          /\ shown' \in [Session -> {"none", "dev mode", "saved", "error"}]
          /\ attempt' \in [Session -> {"none", "begun", "failed"}]
      <3>1. connections \in [Session -> 0..1]
        BY DEF CogsTypeOK
      <3>2. connections' \in [Session -> 0..1]
        BY <2>2, <3>1, UpdateType
      <3> QED
        BY <2>2, <3>2 DEF CogsTypeOK
    <2>5. CogsTypeOK'
      BY <1>1, <2>3, <2>4 DEF CogsTypeOK
    <2>6. ConnectionInv'
      BY <1>1, <2>1, <2>2 DEF ConnectionInv, CogsTypeOK
    <2>7. ProgressInv'
      <3>1. \A t \in Session : t # s => saved'[t] = saved[t] /\ shown'[t] = shown[t] /\ attempt'[t] = attempt[t]
        BY <2>2, <2>3 DEF CogsTypeOK
      <3>2. shown'[s] = "error" /\ attempt'[s] = "failed"
        BY <2>2 DEF CogsTypeOK
      <3> QED
        BY <3>1, <3>2, <1>1, <2>1 DEF ProgressInv, Saving
    <2>8. SavedRowsAreStored'
      BY <1>1, <1>3, CommitStored
    <2> QED
      BY <2>5, <2>6, <2>7, <2>8
  <1> QED
    BY <1>2, <1>3 DEF UpsertRaises

LEMMA ReportKeeps ==
    ASSUME IInv, NEW s \in Session, Report(s)
    PROVE  SaveInv'
  <1> USE DEF IInv, SaveInv
  <1>1. /\ script[s] = "connect" /\ script'[s] = "idle" /\ save[s].row > Len(Rows)
        /\ UNCHANGED <<dsn, tableVars, edits, save, connections, attempt>>
        /\ \A t \in Session : t # s => script'[t] = script[t]
    BY ContinueEffect DEF Report, IO
  <1>2. /\ shown' \in [Session -> {"none", "dev mode", "saved", "error"}]
        /\ \A t \in Session : t # s => shown'[t] = shown[t]
    BY DEF Report, CogsTypeOK
  <1>3. saved[s] = Sku
    <2>1. \A i \in 1..Len(Rows) : Rows[i] \in saved[s]
      <3>1. save[s].row \in 1..(Len(Rows) + 1)
        BY WriteState
      <3>2. \A i \in 1..Len(Rows) : i < save[s].row
        BY <1>1, <3>1, RowsFacts
      <3> QED
        BY <3>2, <1>1 DEF ProgressInv, Saving
    <2>2. saved[s] \subseteq Sku
      BY DEF CogsTypeOK
    <2> QED
      BY <2>1, <2>2, RowsFacts
  <1>4. CogsTypeOK'
    BY <1>1, <1>2 DEF CogsTypeOK, tableVars
  <1>5. ConnectionInv'
    BY <1>1 DEF ConnectionInv
  <1>6. ProgressInv'
    BY <1>1, <1>2, <1>3 DEF ProgressInv, Saving, tableVars
  <1>7. SavedRowsAreStored'
    BY <1>1 DEF SavedRowsAreStored, tableVars
  <1> QED
    BY <1>4, <1>5, <1>6, <1>7

(***************************************************************************)
(* The steps of the wizard                                                 *)
(***************************************************************************)
\* What a step of the wizard does to the sessions' scripts.
LEMMA WizardStepEffect ==
    ASSUME SessionOK, NEW s \in Session, WizardStep(s)
    PROVE  /\ SessionOK'
           /\ script[s] \in {"exchange", "exchanged", "sync", "synced"}
           /\ script'[s] \in {"idle", "exchanged", "synced"}
           /\ \A t \in Session : t # s => script'[t] = script[t] /\ queued'[t] = queued[t]
           /\ queued'[s] = queued[s] \/ queued'[s] # "back"
  <1>1. (\E io \in {"idle", "exchanged", "synced"} : Continue(s, io)) \/ RerunPage(s)
    BY DEF WizardStep, Exchange, Exchanged, SyncReturns, SyncRaises, Synced
  <1>2. script[s] \in {"exchange", "exchanged", "sync", "synced"}
    BY DEF WizardStep, Exchange, Exchanged, SyncReturns, SyncRaises, Synced
  <1> QED
    BY <1>1, <1>2, ContinueEffect, RerunEffect DEF IO

LEMMA ExchangeKeeps ==
    ASSUME IInv, NEW s \in Session, Exchange(s)
    PROVE  WizardInv'
  <1> USE DEF IInv, WizardInv
  <1>1. /\ script[s] = "exchange" /\ UNCHANGED <<step, synced, cut, queued>>
        /\ \A t \in Session : t # s => script'[t] = script[t]
        /\ \/ script'[s] = "exchanged" /\ connected' = [connected EXCEPT ![s] = TRUE]
           \/ script'[s] = "idle" /\ connected' = connected
    BY ContinueEffect DEF Exchange, IO
  <1>2. code' = code \/ code' = [code EXCEPT ![s] = "spent"]
    BY DEF Exchange
  <1>3. banner' \in [Session -> {"none", "error"}]
    BY DEF Exchange, ShowError, WizardTypeOK
  <1>4. WizardTypeOK'
    BY <1>1, <1>2, <1>3 DEF WizardTypeOK
  <1>5. StepInv'
    BY <1>1, <1>2 DEF StepInv, WizardTypeOK
  <1>6. StepsAreEarned'
    BY <1>1 DEF StepsAreEarned, WizardTypeOK
  <1>7. RepeatInv'
    BY <1>1 DEF RepeatInv
  <1> QED
    BY <1>4, <1>5, <1>6, <1>7

LEMMA ExchangedKeeps ==
    ASSUME IInv, NEW s \in Session, Exchanged(s)
    PROVE  WizardInv'
  <1> USE DEF IInv, WizardInv
  <1>1. /\ script[s] = "exchanged" /\ script'[s] = "idle"
        /\ UNCHANGED <<code, banner, connected, synced, cut>>
        /\ \A t \in Session : t # s => script'[t] = script[t] /\ queued'[t] = queued[t]
        /\ \/ step' = step /\ queued' = queued
           \/ step' = [step EXCEPT ![s] = 2] /\ queued'[s] # "back"
    BY ContinueEffect, RerunEffect DEF Exchanged, IO
  <1>2. step[s] = 1 /\ connected[s] /\ queued[s] # "back"
    BY <1>1 DEF StepInv
  <1>3. WizardTypeOK'
    BY <1>1 DEF WizardTypeOK
  <1>4. StepInv'
    BY <1>1, <1>2 DEF StepInv, WizardTypeOK
  <1>5. StepsAreEarned'
    BY <1>1, <1>2 DEF StepsAreEarned, WizardTypeOK
  <1>6. RepeatInv'
    BY <1>1, <1>2 DEF RepeatInv, WizardTypeOK
  <1> QED
    BY <1>3, <1>4, <1>5, <1>6

LEMMA SyncReturnsKeeps ==
    ASSUME IInv, NEW s \in Session, SyncReturns(s)
    PROVE  WizardInv'
  <1> USE DEF IInv, WizardInv
  <1>1. /\ script[s] = "sync" /\ script'[s] = "synced"
        /\ UNCHANGED <<step, code, banner, connected, cut, queued>>
        /\ \A t \in Session : t # s => script'[t] = script[t]
    BY ContinueEffect DEF SyncReturns, IO
  <1>2. MaxSyncs \in Nat /\ MaxSyncs >= 1
    BY OnboardingAssumption
  <1>3. synced[s] \in 0..MaxSyncs /\ cut[s] \in 0..MaxSyncs
    BY DEF WizardTypeOK
  <1>4. /\ synced'[s] \in 0..MaxSyncs /\ synced'[s] > 0 /\ synced'[s] <= synced[s] + 1
        /\ \A t \in Session : t # s => synced'[t] = synced[t]
    BY <1>2, <1>3 DEF SyncReturns, WizardTypeOK
  <1>5. synced' \in [Session -> 0..MaxSyncs]
    BY <1>4 DEF SyncReturns, WizardTypeOK
  <1>6. step[s] = 2 /\ synced[s] <= cut[s]
    BY <1>1 DEF StepInv, RepeatInv
  <1>7. WizardTypeOK'
    BY <1>1, <1>5 DEF WizardTypeOK
  <1>8. StepInv'
    BY <1>1, <1>4 DEF StepInv
  <1>9. StepsAreEarned'
    BY <1>1, <1>4, <1>6 DEF StepsAreEarned
  <1>10. RepeatInv'
    <2>1. synced'[s] <= cut[s] + 1
      BY <1>3, <1>4, <1>6, <1>2
    <2> QED
      BY <2>1, <1>1, <1>4 DEF RepeatInv
  <1> QED
    BY <1>7, <1>8, <1>9, <1>10

LEMMA SyncRaisesKeeps ==
    ASSUME IInv, NEW s \in Session, SyncRaises(s)
    PROVE  WizardInv'
  <1> USE DEF IInv, WizardInv
  <1>1. /\ script[s] = "sync" /\ script'[s] = "idle"
        /\ UNCHANGED <<step, code, connected, synced, cut, queued>>
        /\ \A t \in Session : t # s => script'[t] = script[t]
    BY ContinueEffect DEF SyncRaises, IO
  <1>2. banner' \in [Session -> {"none", "error"}]
    BY DEF SyncRaises, ShowError, WizardTypeOK
  <1>3. WizardTypeOK'
    BY <1>1, <1>2 DEF WizardTypeOK
  <1>4. StepInv' /\ StepsAreEarned' /\ RepeatInv'
    BY <1>1 DEF StepInv, StepsAreEarned, RepeatInv
  <1> QED
    BY <1>3, <1>4

LEMMA SyncedKeeps ==
    ASSUME IInv, NEW s \in Session, Synced(s)
    PROVE  WizardInv'
  <1> USE DEF IInv, WizardInv
  <1>1. /\ script[s] = "synced" /\ script'[s] = "idle"
        /\ UNCHANGED <<code, banner, connected, synced>>
        /\ \A t \in Session : t # s => script'[t] = script[t] /\ queued'[t] = queued[t]
    BY ContinueEffect, RerunEffect DEF Synced, IO
  <1>2. /\ step[s] = 2 /\ synced[s] > 0 /\ connected[s]
        /\ queued[s] # "back" /\ synced[s] <= cut[s] + 1
    BY <1>1 DEF StepInv, StepsAreEarned, RepeatInv
  <1>3. MaxSyncs \in Nat /\ synced[s] \in 0..MaxSyncs /\ cut[s] \in 0..MaxSyncs
    BY OnboardingAssumption DEF WizardTypeOK
  <1>4. CASE Interrupted(s)
    <2>1. /\ UNCHANGED <<step, queued>>
          /\ cut' = [cut EXCEPT ![s] = IF @ < MaxSyncs THEN @ + 1 ELSE @]
      BY <1>4, ContinueEffect DEF Synced, IO
    <2>2. /\ cut'[s] \in 0..MaxSyncs /\ synced[s] <= cut'[s]
          /\ \A t \in Session : t # s => cut'[t] = cut[t]
      BY <2>1, <1>2, <1>3 DEF WizardTypeOK
    <2>3. cut' \in [Session -> 0..MaxSyncs]
      BY <2>1, <2>2 DEF WizardTypeOK
    <2>4. WizardTypeOK'
      BY <1>1, <2>1, <2>3 DEF WizardTypeOK
    <2>5. StepInv' /\ StepsAreEarned'
      BY <1>1, <2>1 DEF StepInv, StepsAreEarned
    <2>6. RepeatInv'
      <3>1. synced[s] <= cut'[s] + 1
        BY <2>2, <1>3
      <3> QED
        BY <3>1, <1>1, <2>1, <2>2 DEF RepeatInv
    <2> QED
      BY <2>4, <2>5, <2>6
  <1>5. CASE ~Interrupted(s)
    <2>1. cut' = cut /\ step' = [step EXCEPT ![s] = 3] /\ queued'[s] # "back"
      BY <1>5, RerunEffect DEF Synced
    <2>2. WizardTypeOK'
      BY <1>1, <2>1 DEF WizardTypeOK
    <2>3. StepInv'
      BY <1>1, <2>1 DEF StepInv, WizardTypeOK
    <2>4. StepsAreEarned'
      BY <1>1, <1>2, <2>1 DEF StepsAreEarned, WizardTypeOK
    <2>5. RepeatInv'
      BY <1>1, <1>2, <2>1 DEF RepeatInv, WizardTypeOK
    <2> QED
      BY <2>2, <2>3, <2>4, <2>5
  <1> QED
    BY <1>4, <1>5

(***************************************************************************)
(* Reruns                                                                  *)
(***************************************************************************)
LEMMA OpenPageKeeps ==
    ASSUME IInv, NEW s \in Session, OpenPage(s)
    PROVE  IInv'
  <1> USE DEF IInv
  <1>1. queued[s] \in Page /\ Take(s, queued[s])
    BY DEF OpenPage
  <1>2. /\ page' \in [Session -> Page] /\ queued' \in [Session -> Rerun \union {"none"}]
        /\ requests' = requests
        /\ script[s] = "idle" /\ queued'[s] = "none"
        /\ \A t \in Session : t # s => queued'[t] = queued[t]
    BY <1>1, TakeEffect
  <1>3. /\ UNCHANGED <<dsn, tableVars, save, connections, attempt, step, connected, synced, cut>>
        /\ shown' = [shown EXCEPT ![s] = "none"]
        /\ banner' = [banner EXCEPT ![s] = "none"]
        /\ code' \in [Session -> {"none", "valid", "spent"}]
        /\ code'[s] \in {code[s], "none"}
        /\ \A t \in Session : t # s => code'[t] = code[t]
    BY DEF OpenPage, ClearMessages, WizardInv, WizardTypeOK
  <1>4. edits' \in [Session -> Edits]
    <2>1. edits \in [Session -> Edits] /\ NoEdits \in Edits
      BY NoEditsType DEF SaveInv, CogsTypeOK
    <2>2. edits' = [edits EXCEPT ![s] = edits[s]] \/ edits' = [edits EXCEPT ![s] = NoEdits]
      BY DEF OpenPage
    <2> QED
      BY <2>1, <2>2
  <1>5. /\ script' \in [Session -> IO]
        /\ \A t \in Session : t # s => script'[t] = script[t]
        /\ \/ script'[s] = "exchange" /\ step[s] = 1 /\ code'[s] # "none"
           \/ script'[s] = "sync" /\ step[s] = 2
           \/ script'[s] = "idle"
    <2>1. \/ script' = [script EXCEPT ![s] = "exchange"] /\ step[s] = 1 /\ code'[s] # "none"
          \/ script' = [script EXCEPT ![s] = "sync"] /\ step[s] = 2
          \/ script' = [script EXCEPT ![s] = "idle"]
      <3>1. \/ FirstCall(s, code'[s]) = "exchange" /\ step[s] = 1 /\ code'[s] # "none"
            \/ FirstCall(s, code'[s]) = "sync" /\ step[s] = 2
            \/ FirstCall(s, code'[s]) = "idle"
        BY DEF FirstCall
      <3>2. \/ script' = [script EXCEPT ![s] = FirstCall(s, code'[s])]
            \/ script' = [script EXCEPT ![s] = "idle"]
        BY DEF OpenPage
      <3> QED
        BY <3>1, <3>2
    <2> QED
      BY <2>1 DEF SessionOK, IO
  <1>6. SessionOK'
    BY <1>2, <1>5 DEF SessionOK
  <1>7. SaveInv'
    <2>1. CogsTypeOK'
      BY <1>3, <1>4 DEF SaveInv, CogsTypeOK, tableVars
    <2>2. ConnectionInv' /\ ProgressInv' /\ SavedRowsAreStored'
      BY <1>2, <1>3, <1>5
      DEF SaveInv, CogsTypeOK, ConnectionInv, ProgressInv, Saving, SavedRowsAreStored, tableVars
    <2> QED
      BY <2>1, <2>2 DEF SaveInv
  <1>8. WizardInv'
    <2>1. WizardTypeOK'
      BY <1>3 DEF WizardInv, WizardTypeOK
    <2>2. StepInv' /\ StepsAreEarned' /\ RepeatInv'
      BY <1>2, <1>3, <1>5 DEF WizardInv, StepInv, StepsAreEarned, RepeatInv
    <2> QED
      BY <2>1, <2>2 DEF WizardInv
  <1> QED
    BY <1>6, <1>7, <1>8

LEMMA SavePressedKeeps ==
    ASSUME IInv, NEW s \in Session, SavePressed(s)
    PROVE  IInv'
  <1> USE DEF IInv
  <1>1. /\ page' \in [Session -> Page] /\ queued' \in [Session -> Rerun \union {"none"}]
        /\ requests' = requests
        /\ script[s] = "idle" /\ queued'[s] = "none"
        /\ \A t \in Session : t # s => queued'[t] = queued[t]
    BY TakeEffect DEF SavePressed, SessionOK
  <1>2. script' = [script EXCEPT ![s] = IF dsn THEN "connect" ELSE "idle"]
    BY DEF SavePressed, StartSave
  <1>3. SessionOK'
    BY <1>1, <1>2 DEF SessionOK, IO
  <1>4. SaveInv'
    <2>1. UNCHANGED <<dsn, cogs, writer, edits, connections>>
      BY DEF SavePressed, StartSave
    <2>2. /\ save' = [save EXCEPT ![s] = [edits |-> edits[s], row |-> 1]]
          /\ saved' = [saved EXCEPT ![s] = {}]
          /\ shown' = [shown EXCEPT ![s] = IF dsn THEN "none" ELSE "dev mode"]
          /\ attempt' = [attempt EXCEPT ![s] = IF dsn THEN "begun" ELSE "none"]
      BY DEF SavePressed, StartSave
    <2>3. CogsTypeOK'
      <3>1. [edits |-> edits[s], row |-> 1] \in [edits : Edits, row : 1..(Len(Rows) + 1)]
        <4>1. 1 \in 1..(Len(Rows) + 1)
          BY RowsFacts
        <4>2. edits[s] \in Edits
          BY DEF SaveInv, CogsTypeOK
        <4> QED
          BY <4>1, <4>2
      <3>2. save' \in [Session -> [edits : Edits, row : 1..(Len(Rows) + 1)]]
        BY <2>2, <3>1 DEF SaveInv, CogsTypeOK
      <3> QED
        BY <2>1, <2>2, <3>2 DEF SaveInv, CogsTypeOK
    <2>4. ConnectionInv'
      BY <1>1, <1>2, <2>1, <2>2 DEF SaveInv, CogsTypeOK, ConnectionInv, SessionOK
    <2>5. ProgressInv'
      <3>1. /\ saved'[s] = {} /\ save'[s].row = 1 /\ shown'[s] # "saved"
            /\ script'[s] = (IF dsn THEN "connect" ELSE "idle")
            /\ attempt'[s] = (IF dsn THEN "begun" ELSE "none")
        BY <1>2, <2>2 DEF SaveInv, CogsTypeOK, SessionOK
      <3>2. \A t \in Session : t # s =>
               /\ saved'[t] = saved[t] /\ save'[t] = save[t] /\ shown'[t] = shown[t]
               /\ script'[t] = script[t] /\ attempt'[t] = attempt[t]
        BY <1>2, <2>2 DEF SaveInv, CogsTypeOK, SessionOK
      <3>3. \A i \in 1..Len(Rows) : ~(i < 1)
        BY RowsFacts
      <3> QED
        BY <3>1, <3>2, <3>3 DEF SaveInv, ProgressInv, Saving
    <2>6. SavedRowsAreStored'
      BY <2>1, <2>2 DEF SaveInv, CogsTypeOK, SavedRowsAreStored
    <2> QED
      BY <2>3, <2>4, <2>5, <2>6 DEF SaveInv
  <1>5. WizardInv'
    <2>1. UNCHANGED wizardVars
      BY DEF SavePressed
    <2>2. /\ script'[s] \in {"connect", "idle"}
          /\ \A t \in Session : t # s => script'[t] = script[t]
      BY <1>2 DEF SessionOK
    <2> QED
      BY <2>1, <2>2, <1>1, FrameWizard
  <1> QED
    BY <1>3, <1>4, <1>5

LEMMA BackPressedKeeps ==
    ASSUME IInv, NEW s \in Session, BackPressed(s)
    PROVE  IInv'
  <1> USE DEF IInv
  <1>1. /\ SessionOK'
        /\ script[s] = "idle" /\ script'[s] = "idle" /\ queued'[s] # "back"
        /\ \A t \in Session : t # s => script'[t] = script[t] /\ queued'[t] = queued[t]
    BY RerunEffect DEF BackPressed, Idle
  <1>2. /\ UNCHANGED <<cogsVars, code, banner, connected, synced, cut>>
        /\ step' = [step EXCEPT ![s] = 0] /\ queued[s] = "back"
    BY DEF BackPressed
  <1>3. SaveInv'
    <2>1. \A t \in Session : script'[t] = script[t]
      BY <1>1
    <2> QED
      BY <2>1, <1>2, FrameSave
  <1>4. step[s] = 1
    BY <1>2 DEF WizardInv, StepInv
  <1>5. WizardTypeOK'
    BY <1>2 DEF WizardInv, WizardTypeOK
  <1>6. StepInv' /\ StepsAreEarned' /\ RepeatInv'
    BY <1>1, <1>2, <1>4 DEF WizardInv, WizardTypeOK, StepInv, StepsAreEarned, RepeatInv
  <1> QED
    BY <1>1, <1>3, <1>5, <1>6 DEF WizardInv

LEMMA NewSessionKeeps ==
    ASSUME IInv, NEW s \in Session, NewSession(s)
    PROVE  IInv'
  <1> USE DEF IInv
  <1>1. /\ page' \in [Session -> Page] /\ queued' \in [Session -> Rerun \union {"none"}]
        /\ requests' = requests
        /\ script[s] = "idle" /\ queued'[s] = "none"
        /\ \A t \in Session : t # s => queued'[t] = queued[t]
    BY TakeEffect DEF NewSession, SessionOK
  <1>2. /\ UNCHANGED <<script, dsn, cogs, writer, save, connections, code>>
        /\ edits' = [edits EXCEPT ![s] = NoEdits]
        /\ saved' = [saved EXCEPT ![s] = {}]
        /\ attempt' = [attempt EXCEPT ![s] = "none"]
        /\ shown' = [shown EXCEPT ![s] = "none"]
        /\ banner' = [banner EXCEPT ![s] = "none"]
    BY DEF NewSession, ClearMessages
  <1>3. /\ step' = [step EXCEPT ![s] = 0]
        /\ connected' = [connected EXCEPT ![s] = FALSE]
        /\ synced' = [synced EXCEPT ![s] = 0]
        /\ cut' = [cut EXCEPT ![s] = 0]
    BY DEF NewSession
  <1>4. SessionOK'
    BY <1>1, <1>2 DEF SessionOK
  <1>5. SaveInv'
    <2>1. CogsTypeOK'
      BY <1>2, NoEditsType DEF SaveInv, CogsTypeOK
    <2>2. ConnectionInv' /\ ProgressInv' /\ SavedRowsAreStored'
      BY <1>1, <1>2
      DEF SaveInv, CogsTypeOK, ConnectionInv, ProgressInv, Saving, SavedRowsAreStored
    <2> QED
      BY <2>1, <2>2 DEF SaveInv
  <1>6. WizardInv'
    <2>1. MaxSyncs \in Nat
      BY OnboardingAssumption
    <2>2. WizardTypeOK'
      BY <1>2, <1>3, <2>1 DEF WizardInv, WizardTypeOK
    <2>3. StepInv' /\ StepsAreEarned' /\ RepeatInv'
      BY <1>1, <1>2, <1>3 DEF WizardInv, WizardTypeOK, StepInv, StepsAreEarned, RepeatInv
    <2> QED
      BY <2>2, <2>3 DEF WizardInv
  <1> QED
    BY <1>4, <1>5, <1>6

LEMMA KillKeeps ==
    ASSUME IInv, Kill
    PROVE  IInv'
  <1> USE DEF IInv, Kill
  <1>1. SessionOK'
    BY DEF SessionOK, IO
  <1>2. CogsTypeOK'
    <2>1. edits' \in [Session -> Edits]
      BY NoEditsType
    <2>2. connections' \in [Session -> 0..1]
      OBVIOUS
    <2>3. saved' \in [Session -> SUBSET Sku]
      OBVIOUS
    <2> QED
      BY <2>1, <2>2, <2>3 DEF SaveInv, CogsTypeOK
  <1>3. ConnectionInv' /\ ProgressInv' /\ SavedRowsAreStored'
    BY DEF ConnectionInv, ProgressInv, Saving, SavedRowsAreStored
  <1>4. WizardTypeOK'
    BY OnboardingAssumption DEF WizardInv, WizardTypeOK
  <1>5. StepInv' /\ StepsAreEarned' /\ RepeatInv'
    BY DEF StepInv, StepsAreEarned, RepeatInv
  <1> QED
    BY <1>1, <1>2, <1>3, <1>4, <1>5 DEF SaveInv, WizardInv

-----------------------------------------------------------------------------
LEMMA NextIInv == IInv /\ [Next]_vars => IInv'
  <1> SUFFICES ASSUME IInv, [Next]_vars PROVE IInv'
    OBVIOUS
  <1>1. CASE UNCHANGED vars
    <2>1. UNCHANGED <<page, queued, script, requests>> /\ UNCHANGED cogsVars /\ UNCHANGED wizardVars
      BY <1>1 DEF vars, sessionVars
    <2>2. SessionOK'
      BY <2>1 DEF IInv, SessionOK
    <2> QED
      BY <2>1, <2>2, FrameSave, FrameWizard DEF IInv
  <1>2. CASE Kill
    BY <1>2, KillKeeps
  <1>3. ASSUME NEW s \in Session, User(s) PROVE IInv'
    BY <1>3, UserKeeps
  <1>4. ASSUME NEW s \in Session, SaveStep(s), UNCHANGED wizardVars PROVE IInv'
    <2>1. /\ SessionOK'
          /\ UNCHANGED queued
          /\ script[s] \in {"connect", "upsert"} /\ script'[s] \in {"idle", "connect", "upsert"}
          /\ \A t \in Session : t # s => script'[t] = script[t]
      BY <1>4, SaveStepEffect
    <2>2. SaveInv'
      BY <1>4, ConnectKeeps, UpsertKeeps, UpsertRaisesKeeps, ReportKeeps DEF SaveStep
    <2>3. WizardInv'
      BY <1>4, <2>1, FrameWizard DEF IInv
    <2> QED
      BY <2>1, <2>2, <2>3 DEF IInv
  <1>5. ASSUME NEW s \in Session, WizardStep(s), UNCHANGED cogsVars PROVE IInv'
    <2>1. /\ SessionOK'
          /\ script[s] \in {"exchange", "exchanged", "sync", "synced"}
          /\ script'[s] \in {"idle", "exchanged", "synced"}
          /\ \A t \in Session : t # s => script'[t] = script[t] /\ queued'[t] = queued[t]
      BY <1>5, WizardStepEffect DEF IInv
    <2>2. SaveInv'
      <3>1. \A t \in Session : \/ script'[t] = script[t]
                              \/ {script[t], script'[t]} \cap {"connect", "upsert"} = {}
        BY <2>1
      <3> QED
        BY <1>5, <3>1, FrameSave DEF IInv
    <2>3. WizardInv'
      BY <1>5, ExchangeKeeps, ExchangedKeeps, SyncReturnsKeeps, SyncRaisesKeeps, SyncedKeeps
      DEF WizardStep
    <2> QED
      BY <2>1, <2>2, <2>3 DEF IInv
  <1>6. ASSUME NEW s \in Session, TakeRerun(s) PROVE IInv'
    BY <1>6, OpenPageKeeps, SavePressedKeeps, BackPressedKeeps, NewSessionKeeps DEF TakeRerun
  <1> QED
    BY <1>1, <1>2, <1>3, <1>4, <1>5, <1>6 DEF Next, Script

LEMMA IInvariance == Spec => []IInv
  BY InitIInv, NextIInv, PTL DEF Spec

(***************************************************************************)
(* Theorems                                                                *)
(***************************************************************************)
\* Type correctness, for any number of sessions and rows: no session opens a
\* second connection, no cost that does not fit its column is stored.
THEOREM TypeCorrect == Spec => []TypeOK
  <1>1. IInv => TypeOK
    BY DEF IInv, SaveInv, WizardInv, SessionOK, TypeOK
  <1> QED
    BY <1>1, IInvariance, PTL

\* A save of the COGS editor that reports success, or ends without an error,
\* has committed every row, whatever else the user does.
THEOREM WholeSaves == Spec => []SavesAreWhole
  <1>1. IInv => SavesAreWhole
    BY DEF IInv, SaveInv, ProgressInv, Saving, Idle, SavesAreWhole
  <1> QED
    BY <1>1, IInvariance, PTL

\* What a save has committed stays as its user saw it at the click until another
\* session saves the row.
THEOREM StoredRows == Spec => []SavedRowsAreStored
  <1>1. IInv => SavedRowsAreStored
    BY DEF IInv, SaveInv
  <1> QED
    BY <1>1, IInvariance, PTL

\* The pool of CogsWriter, which nobody closes, holds no connection between two
\* rows.
THEOREM NoIdleConnection == Spec => []IdleHoldsNoConnection
  <1>1. IInv => IdleHoldsNoConnection
    BY DEF IInv, SaveInv, ConnectionInv, IdleHoldsNoConnection
  <1> QED
    BY <1>1, IInvariance, PTL

\* The onboarding wizard never says more than it has done.
THEOREM EarnedSteps == Spec => []StepsAreEarned
  <1>1. IInv => StepsAreEarned
    BY DEF IInv, WizardInv
  <1> QED
    BY <1>1, IInvariance, PTL

\* Every day a session has loaded but one was followed by an interruption.
THEOREM CutRepeats == Spec => []RepeatsWereCut
  <1>1. IInv => RepeatsWereCut
    BY DEF IInv, WizardInv, RepeatInv, RepeatsWereCut
  <1> QED
    BY <1>1, IInvariance, PTL
=============================================================================
