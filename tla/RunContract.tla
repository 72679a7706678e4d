----------------------------- MODULE RunContract -----------------------------
(***************************************************************************)
(* What a Bronze ingestion run promises to the readers of                  *)
(* pipeline_execution_logs and of the Bronze bucket, whatever fails:       *)
(*   - objects are put in the order orders, reports_enqueue,               *)
(*     reports_result, and none is put once the row has ended;             *)
(*   - the row goes STARTED -> SUCCESS only when all three are in Bronze;  *)
(*   - a FAILED row stays FAILED, and a SUCCESS row stays SUCCESS unless   *)
(*     an UPDATE may commit and still raise (AmbiguousCommit).             *)
(***************************************************************************)
CONSTANTS RunId, AmbiguousCommit

VARIABLES
    status,   \* the pipeline_execution_logs row of each run
    written   \* the endpoints whose object the run has put into Bronze

vars == <<status, written>>

Endpoint == {"orders", "reports_enqueue", "reports_result"}
Status   == {"NONE", "STARTED", "SUCCESS", "FAILED"}

\* The objects that must be in Bronze before an endpoint's object is put.
Before == [e \in Endpoint |->
             CASE e = "orders" -> {}
               [] e = "reports_enqueue" -> {"orders"}
               [] e = "reports_result" -> {"orders", "reports_enqueue"}]

Init ==
    /\ status = [r \in RunId |-> "NONE"]
    /\ written = [r \in RunId |-> {}]

Insert(r) ==
    /\ status[r] = "NONE" /\ written[r] = {}
    /\ status' = [status EXCEPT ![r] = "STARTED"]
    /\ UNCHANGED written

Write(r, e) ==
    /\ status[r] \in {"NONE", "STARTED"}
    /\ Before[e] \subseteq written[r]
    /\ written' = [written EXCEPT ![r] = @ \union {e}]
    /\ UNCHANGED status

Succeed(r) ==
    /\ status[r] = "STARTED" /\ written[r] = Endpoint
    /\ status' = [status EXCEPT ![r] = "SUCCESS"]
    /\ UNCHANGED written

Fail(r) ==
    /\ status[r] = "STARTED" \/ (status[r] = "SUCCESS" /\ AmbiguousCommit)
    /\ status' = [status EXCEPT ![r] = "FAILED"]
    /\ UNCHANGED written

Next ==
    \E r \in RunId :
        \/ Insert(r) \/ Succeed(r) \/ Fail(r)
        \/ \E e \in Endpoint : Write(r, e)

Spec == Init /\ [][Next]_vars
=============================================================================
