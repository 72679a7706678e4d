------------------------------ MODULE MCServing -------------------------------
(* Sessions, rows and costs for checking Serving with TLC. *)
EXTENDS Serving

CONSTANTS ana, ben

Two      == {ana, ben}
OpenedPages == {"onboarding", "cogs_editor"}
Menu     == {"burger", "fries"}
Grid2    == <<"burger", "fries">>

\* 2 stands for an amount with more than six digits before the point.
Amounts  == {1, 2}
SmallAmounts == {0, 1}
SeededSteps == {0, 1}
NoFaults == {}
AllFaults == {"database", "otter", "kill"}
=============================================================================
