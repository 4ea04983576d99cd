---------------------------- MODULE MCDashboard ----------------------------
(* Finite instances of Dashboard for TLC.                                  *)
EXTENDS Dashboard

OneEach == [c \in Components |-> 1]

(* Responses of Overview, which sets the status, may overtake each other.  *)
TwoOfUptime == [OneEach EXCEPT !["uptime"] = 2]
=============================================================================
