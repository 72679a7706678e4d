--------------------------- MODULE MCOtterClient ----------------------------
(* Model values, symmetry and a view for checking OtterClient with TLC. *)
EXTENDS OtterClient, TLC

CONSTANTS p1, p2

OneProcess   == {p1}
TwoProcesses == {p1, p2}
Symmetry     == Permutations(TwoProcesses)

Always    == {TRUE}
Resource  == {"resource"}
WithToken == {"granted"}
NoFaults      == {}
RefreshFaults == {"401", "reply_lost", "crash"}
StorageFaults == {"secrets", "reply_lost", "crash", "refused"}

\* Locals that are out of scope are masked: the next operation of the process
\* assigns them before it reads them.
Local(p) ==
    <<pc[p], since[p],
      IF pc[p] = "call" THEN <<token[p], seen[p]>> ELSE <<>>,
      IF pc[p] \in {"post", "save"} THEN <<loaded[p], grant[p]>> ELSE <<>>,
      IF pc[p] = "save" THEN reply[p] ELSE NoTokens>>
View == <<now, store, serverVars, orphaned, [p \in Proc |-> Local(p)]>>
=============================================================================
