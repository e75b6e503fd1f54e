----------------------------- MODULE MCClassicNode -----------------------------
(* ClassicNode for TLC: the reasons its rules treat differently, one of them *)
(* copied from NHC's own, and every kind of event.                           *)
EXTENDS ClassicNode

MCReasons == {{"nhc", "hardware"}, {"maint"}}
AllFaults == FaultKinds

===============================================================================
