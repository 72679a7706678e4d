------------------------------ MODULE AppSession ------------------------------
(***************************************************************************)
(* The browser sessions of the Streamlit application (streamlit_app.py).   *)
(* Streamlit is external.  It runs one script at a time for a session, the *)
(* page the user is on, from top to bottom; whatever the user does only    *)
(* queues a rerun, which is taken when the script ends or makes its next   *)
(* st.* call.  There the script stops: Streamlit raises an exception that  *)
(* `except Exception` does not catch.                                      *)
(***************************************************************************)
EXTENDS Naturals, Sequences, FiniteSets

CONSTANTS
    Session,      \* the browser sessions
    FirstPages,   \* the pages they open first
    Faults,       \* what may fail: "database", "otter", "kill"
    MaxRequests   \* bound: what the users do, over all sessions

ASSUME SessionAssumption ==
    /\ FirstPages \subseteq {"onboarding", "cogs_editor", "dashboard"}
    /\ Faults \subseteq {"database", "otter", "kill"}
    /\ MaxRequests \in Nat

VARIABLES
    page,     \* the page each session shows
    queued,   \* what its next rerun will show, "none" if none is queued
    script,   \* the I/O its script is at, "idle" if none is running
    requests  \* bound: interactions so far

sessionVars == <<page, queued, script, requests>>

\* st.navigation; each page has a URL of its own.
Page == {"onboarding", "cogs_editor", "dashboard"}

\* What a rerun shows: a page, the page "save" or "back" is a button of, with
\* that button pressed, or, for "refresh", a new session in place of this one.
Rerun == Page \union {"save", "back", "refresh"}

\* The first run of each session is due.
SessionInit ==
    /\ page \in [Session -> FirstPages]
    /\ queued = page
    /\ script = [s \in Session |-> "idle"]
    /\ requests = 0

Idle(s)        == script[s] = "idle"
Interrupted(s) == queued[s] # "none"
Shows(s, p)    == page[s] = p

\* The browser has already left the page the script belongs to.
Leaving(s) == queued[s] \in (Page \ {page[s]}) \union {"refresh"}

\* The user acts: the latest page wins, but a pressed button stays pressed.
Request(s, rerun) ==
    /\ requests < MaxRequests
    /\ requests' = requests + 1
    /\ queued' = [queued EXCEPT ![s] =
                     IF @ \in {"save", "back"} /\ rerun = page[s] THEN @ ELSE rerun]
    /\ UNCHANGED <<page, script>>

\* The script of a session goes on to its next I/O, or ends.
Continue(s, io) ==
    /\ script' = [script EXCEPT ![s] = io]
    /\ UNCHANGED <<page, queued, requests>>

\* The user picks a page, presses "rerun", or reloads the browser's tab.
Navigate(s) == \E rerun \in Page \union {"refresh"} : Request(s, rerun)

\* st.rerun(): a rerun is queued and the script stops.
RerunPage(s) ==
    /\ script' = [script EXCEPT ![s] = "idle"]
    /\ queued' = [queued EXCEPT ![s] = page[s]]
    /\ UNCHANGED <<page, requests>>
=============================================================================
