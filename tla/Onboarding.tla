------------------------------ MODULE Onboarding ------------------------------
(***************************************************************************)
(* The onboarding wizard (pages/onboarding.py, error_banners.py): connect  *)
(* (step 0), exchange the authorization code (1), sync (2), done (3).      *)
(*                                                                         *)
(* The step lives in the session.  Otter's redirect comes back with a code *)
(* in a new session, whose step is 0, and no line of the application sets  *)
(* step 1: FirstSteps says at which step sessions start.  It is 0 in the   *)
(* application; 1 stands for a session state seeded from outside, in the   *)
(* way a test seeds step 3, and adds behaviours to those of the            *)
(* application.  The stores of the exchange and of the sync live as long   *)
(* as one run of the script.  The sync is run_bronze_impl, the subject of  *)
(* BronzeRun: here it loads the day or raises.                             *)
(***************************************************************************)
EXTENDS AppSession

CONSTANTS
    FirstSteps,  \* the steps sessions start at
    MaxSyncs     \* bound: up to where the syncs of a session are counted

ASSUME OnboardingAssumption == FirstSteps \subseteq {0, 1} /\ MaxSyncs \in Nat \ {0}

VARIABLES
    step,        \* st.session_state.step
    code,        \* the code in the page's URL: "none", "valid" or "spent"
    banner,      \* is an error banner shown, "none" or "error"?
    connected,   \* auxiliary: has a code of this session been exchanged?
    synced,      \* auxiliary: the syncs of this session that loaded the day
    cut          \* auxiliary: those of them whose script was then interrupted

wizardVars == <<step, code, banner, connected, synced, cut>>

\* A session that opens another page has neither a step nor a code.
WizardInit ==
    /\ step \in [Session -> FirstSteps \union {0}]
    /\ code \in [Session -> {"none", "valid"}]
    /\ \A s \in Session : ~Shows(s, "onboarding") => step[s] = 0 /\ code[s] = "none"
    /\ banner = [s \in Session |-> "none"]
    /\ connected = [s \in Session |-> FALSE]
    /\ synced = [s \in Session |-> 0]
    /\ cut = [s \in Session |-> 0]

\* The user follows the link of step 0 and comes back with a code.
Authorize(s) ==
    /\ Shows(s, "onboarding") /\ ~Leaving(s) /\ step[s] = 0 /\ Idle(s)
    /\ Request(s, "refresh")
    /\ code' = [code EXCEPT ![s] = "valid"]
    /\ UNCHANGED <<step, banner, connected, synced, cut>>

\* The buttons of steps 1 and 3.
PressBack(s) ==
    /\ Shows(s, "onboarding") /\ ~Leaving(s) /\ step[s] = 1 /\ code[s] = "none"
    /\ Request(s, "back")
    /\ UNCHANGED wizardVars

GoToDashboard(s) ==
    /\ Shows(s, "onboarding") /\ ~Leaving(s) /\ step[s] = 3
    /\ Request(s, "dashboard")
    /\ UNCHANGED wizardVars

\* The dispatcher: step 1 with a code and step 2 act as soon as they are
\* rendered.
FirstCall(s, codeInURL) ==
    CASE step[s] = 1 /\ codeInURL # "none" -> "exchange"
      [] step[s] = 2                       -> "sync"
      [] OTHER                             -> "idle"

\* The banner of whatever tier: an st.* call, where a queued rerun stops the
\* script.  The alert of tier 3 goes into an InMemoryAlerts nobody holds.
ShowError(s) ==
    banner' = IF Interrupted(s) THEN banner ELSE [banner EXCEPT ![s] = "error"]

\* exchange_authorization_code.  Otter takes a code once; its reply may be lost.
Exchange(s) ==
    /\ script[s] = "exchange"
    /\ \/ /\ code[s] = "valid"
          /\ code' = [code EXCEPT ![s] = "spent"]
          /\ connected' = [connected EXCEPT ![s] = TRUE]
          /\ Continue(s, "exchanged")
          /\ UNCHANGED banner
       \/ /\ code[s] = "spent" \/ "otter" \in Faults
          /\ code' \in {code, [code EXCEPT ![s] = "spent"]}
          /\ Continue(s, "idle")
          /\ ShowError(s)
          /\ UNCHANGED connected
    /\ UNCHANGED <<step, synced, cut>>

\* st.success, where a queued rerun stops the script, then step 2 and st.rerun.
Exchanged(s) ==
    /\ script[s] = "exchanged"
    /\ IF Interrupted(s)
       THEN Continue(s, "idle") /\ UNCHANGED step
       ELSE RerunPage(s) /\ step' = [step EXCEPT ![s] = 2]
    /\ UNCHANGED <<code, banner, connected, synced, cut>>

\* run_bronze_impl
SyncReturns(s) ==
    /\ script[s] = "sync"
    /\ synced' = [synced EXCEPT ![s] = IF @ < MaxSyncs THEN @ + 1 ELSE @]
    /\ Continue(s, "synced")
    /\ UNCHANGED <<step, code, banner, connected, cut>>

\* Mutant: the wizard goes on in a finally clause.
SyncRaisesAndGoesOn(s) ==
    /\ script[s] = "sync" /\ "otter" \in Faults
    /\ step' = [step EXCEPT ![s] = 3]
    /\ RerunPage(s)
    /\ UNCHANGED <<code, banner, connected, synced, cut>>

SyncRaises(s) ==
    /\ script[s] = "sync" /\ "otter" \in Faults
    /\ ShowError(s)
    /\ Continue(s, "idle")
    /\ UNCHANGED <<step, code, connected, synced, cut>>

\* Mutant: the step is not advanced before the rerun.
SyncedStays(s) ==
    /\ script[s] = "synced"
    /\ RerunPage(s)
    /\ UNCHANGED wizardVars

\* st.success again, then step 3 and st.rerun.
Synced(s) ==
    /\ script[s] = "synced"
    /\ IF Interrupted(s)
       THEN Continue(s, "idle") /\ cut' = [cut EXCEPT ![s] = IF @ < MaxSyncs THEN @ + 1 ELSE @] /\ UNCHANGED step
       ELSE RerunPage(s) /\ step' = [step EXCEPT ![s] = 3] /\ UNCHANGED cut
    /\ UNCHANGED <<code, banner, connected, synced>>

WizardStep(s) == Exchange(s) \/ Exchanged(s) \/ SyncReturns(s) \/ SyncRaises(s) \/ Synced(s)

(***************************************************************************)
(* Properties                                                              *)
(***************************************************************************)
\* The wizard's part of the type invariant.
WizardTypeOK ==
    /\ step \in [Session -> 0..3]
    /\ code \in [Session -> {"none", "valid", "spent"}]
    /\ banner \in [Session -> {"none", "error"}]
    /\ connected \in [Session -> BOOLEAN]
    /\ synced \in [Session -> 0..MaxSyncs]
    /\ cut \in [Session -> 0..MaxSyncs]

\* The wizard never claims more than it has done: a session past step 1 has
\* exchanged a code, and one that says "your data is synced" has loaded a day.
StepsAreEarned ==
    \A s \in Session :
        /\ step[s] >= 2 => connected[s]
        /\ step[s] = 3 => synced[s] > 0

\* A session loads a day a second time only because the script of the first was
\* interrupted before it could say so.
RepeatsWereCut == \A s \in Session : synced[s] <= cut[s] + 1
=============================================================================
