------------------------------ MODULE MCDashboard -----------------------------
(* A small instance of Dashboard for TLC: two targets of two kinds.  The mock *)
(* knows one, the live graph the other, with grades a scan may not repeat.    *)
EXTENDS Dashboard

CONSTANTS site, phone, safe, danger

MCTargets == {site, phone}
MCNodes == MCTargets
MCKindOf == [t \in MCTargets |-> IF t = site THEN "url" ELSE "phone"]
MCMock == [n \in MCNodes |-> IF n = phone THEN danger ELSE Absent]
MCLive == [n \in MCNodes |-> IF n = site THEN danger ELSE Absent]
==============================================================================
