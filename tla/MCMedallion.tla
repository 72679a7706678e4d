----------------------------- MODULE MCMedallion ------------------------------
(* Days, orders and selections for checking Medallion with TLC. *)
EXTENDS Medallion

\* Four ticks to a day, the store one tick behind UTC and, from tick 8, two:
\* local day 1 has five ticks, 5 to 9, although the UTC day ends with tick 7.
\* "early" is of local day 0, "noon" and "evening" of local day 1.
Orders    == {"early", "noon", "evening"}
Menu      == {"burger", "fries"}
CreatedAt == [early |-> 3, noon |-> 7, evening |-> 9]
OneItem   == [early |-> {"burger"}, noon |-> {"fries"}, evening |-> {"burger"}]
TwoItems  == [early |-> {"burger", "fries"}, noon |-> {"fries"}, evening |-> {"burger"}]

Everything == {Node}
SilverOnly == {"silver_orders", "silver_orders_tests"}
SilverOrEverything == {Node, SilverOnly}
T1       == {"t1"}
BothModes == {"t1", "backfill"}
NoFaults  == {}
AllFaults == {"day", "node", "kill"}
=============================================================================
