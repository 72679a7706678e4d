--------------------------- MODULE CredentialStore ---------------------------
(***************************************************************************)
(* What SecretsPort (common/secrets.py) promises about the credentials of  *)
(* a merchant: a load answers with what was saved last, says "not found"   *)
(* only if nothing was, or raises.  The difference between the last two    *)
(* matters: on "not found" a run asks Otter for new tokens and saves them. *)
(***************************************************************************)
CONSTANTS Tokens, NoToken, NotFound, Raised

VARIABLES
    held,    \* the tokens saved last, NoToken if none
    answer   \* what the last load came back with, NoToken since the last save

Init == held = NoToken /\ answer = NoToken

Save == held' \in Tokens /\ answer' = NoToken

\* What a load answers when it does not raise.
Found == IF held = NoToken THEN NotFound ELSE held

Load == answer' \in {Found, Raised} /\ UNCHANGED held

\* The process that holds the store ends.
Close == held' = NoToken /\ answer' = NoToken

Next == Save \/ Load \/ Close

Spec == Init /\ [][Next]_<<held, answer>>
=============================================================================
