----------------------------- MODULE MCBronzeRun ------------------------------
(* Model values for checking BronzeRun with TLC. *)
EXTENDS BronzeRun

CONSTANTS w1, w2

OneWorker  == {w1}
TwoWorkers == {w1, w2}

OwnerOnly   == [w \in Worker |-> TokenOwner]
OtherOnly   == [w \in Worker |-> "M1"]
NoCreds     == {}
NoFaults    == {}
=============================================================================
