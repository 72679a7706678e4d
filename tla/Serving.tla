------------------------------- MODULE Serving -------------------------------
(***************************************************************************)
(* The Streamlit application: the pages of CogsEditor and Onboarding, and  *)
(* the dashboard, which changes nothing, in the sessions of AppSession.    *)
(***************************************************************************)
EXTENDS CogsEditor, Onboarding

vars == <<sessionVars, cogsVars, wizardVars>>

Init == SessionInit /\ CogsInit /\ WizardInit

(***************************************************************************)
(* Reruns                                                                  *)
(***************************************************************************)
Take(s, p) ==
    /\ Idle(s)
    /\ page' = [page EXCEPT ![s] = p]
    /\ queued' = [queued EXCEPT ![s] = "none"]
    /\ UNCHANGED requests

\* What the script drew before is gone.
ClearMessages(s) ==
    /\ shown' = [shown EXCEPT ![s] = "none"]
    /\ banner' = [banner EXCEPT ![s] = "none"]

\* A page runs.  If it is another one, the widgets of the page before and the
\* query parameters of its URL are dropped.
OpenPage(s) ==
    LET p == queued[s] IN
    /\ p \in Page /\ Take(s, p)
    /\ ClearMessages(s)
    /\ edits' = [edits EXCEPT ![s] = IF p = "cogs_editor" THEN @ ELSE NoEdits]
    /\ code' = [code EXCEPT ![s] = IF p = page[s] THEN @ ELSE "none"]
    /\ script' = [script EXCEPT ![s] =
                     IF p = "onboarding" THEN FirstCall(s, code'[s]) ELSE "idle"]
    /\ UNCHANGED <<dsn, tableVars, save, connections, attempt,
                   step, connected, synced, cut>>

\* The editor runs with its button pressed.
SavePressed(s) ==
    /\ queued[s] = "save" /\ Take(s, page[s])
    /\ StartSave(s)
    /\ UNCHANGED wizardVars

\* "Back to Connect" of step 1: step 0 and st.rerun().
BackPressed(s) ==
    /\ queued[s] = "back" /\ Idle(s)
    /\ RerunPage(s)
    /\ step' = [step EXCEPT ![s] = 0]
    /\ UNCHANGED <<cogsVars, code, banner, connected, synced, cut>>

\* A new session; the URL is what survives of the old one.  The old script goes
\* first to where it ends: it could run on beside the new session until its next
\* st.* call, as two sessions do.
NewSession(s) ==
    /\ queued[s] = "refresh" /\ Take(s, page[s])
    /\ ClearMessages(s)
    /\ edits' = [edits EXCEPT ![s] = NoEdits]
    /\ saved' = [saved EXCEPT ![s] = {}]
    /\ attempt' = [attempt EXCEPT ![s] = "none"]
    /\ step' = [step EXCEPT ![s] = 0]
    /\ connected' = [connected EXCEPT ![s] = FALSE]
    /\ synced' = [synced EXCEPT ![s] = 0]
    /\ cut' = [cut EXCEPT ![s] = 0]
    /\ UNCHANGED <<script, dsn, cogs, writer, save, connections, code>>

TakeRerun(s) == OpenPage(s) \/ SavePressed(s) \/ BackPressed(s) \/ NewSession(s)

\* The application's server is killed in the middle of a script: all sessions
\* are lost, and the database rolls back what was not committed.
Kill ==
    /\ "kill" \in Faults /\ \E s \in Session : ~Idle(s)
    /\ script' = [s \in Session |-> "idle"]
    /\ queued' = [s \in Session |-> "none"]
    /\ edits' = [s \in Session |-> NoEdits]
    /\ connections' = [s \in Session |-> 0]
    /\ shown' = [s \in Session |-> "none"]
    /\ saved' = [s \in Session |-> {}]
    /\ attempt' = [s \in Session |-> "none"]
    /\ step' = [s \in Session |-> 0]
    /\ banner' = [s \in Session |-> "none"]
    /\ connected' = [s \in Session |-> FALSE]
    /\ synced' = [s \in Session |-> 0]
    /\ cut' = [s \in Session |-> 0]
    /\ UNCHANGED <<page, requests, dsn, cogs, writer, save, code>>

(***************************************************************************)
(* The application                                                         *)
(***************************************************************************)
User(s) ==
    \/ Edit(s) /\ UNCHANGED wizardVars
    \/ PressSave(s) /\ UNCHANGED wizardVars
    \/ Authorize(s) /\ UNCHANGED cogsVars
    \/ PressBack(s) /\ UNCHANGED cogsVars
    \/ GoToDashboard(s) /\ UNCHANGED cogsVars
    \/ Navigate(s) /\ UNCHANGED <<cogsVars, wizardVars>>

Script(s) ==
    \/ SaveStep(s) /\ UNCHANGED wizardVars
    \/ WizardStep(s) /\ UNCHANGED cogsVars
    \/ TakeRerun(s)

Next == (\E s \in Session : User(s) \/ Script(s)) \/ Kill

\* Scripts run on: the database and Otter answer or fail.
Fairness == \A s \in Session : WF_vars(Script(s))

Spec == Init /\ [][Next]_vars /\ Fairness

(***************************************************************************)
(* Properties                                                              *)
(***************************************************************************)
IO == {"idle", "connect", "upsert", "exchange", "exchanged", "sync", "synced"}

\* The state is well typed.
TypeOK ==
    /\ page \in [Session -> Page]
    /\ queued \in [Session -> Rerun \union {"none"}]
    /\ script \in [Session -> IO]
    /\ requests \in 0..MaxRequests
    /\ CogsTypeOK
    /\ WizardTypeOK

\* Every save, exchange and sync ends, whatever fails.
ScriptsEnd == \A s \in Session : ~Idle(s) ~> Idle(s)

\* A session that is to sync gets to the end of the wizard or shows why not,
\* unless its user goes somewhere else.
WizardSettles ==
    \A s \in Session :
        Shows(s, "onboarding") /\ step[s] = 2 ~>
            \/ step[s] \in {0, 3}
            \/ banner[s] # "none"
            \/ ~Shows(s, "onboarding")
=============================================================================
