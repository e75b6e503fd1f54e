------------------------------ MODULE MCSlinkyNode ------------------------------
(* SlinkyNode for TLC: which disruptions a run allows, and the two kinds of *)
(* drain reason the rules treat differently.                                *)
EXTENDS SlinkyNode

MCReasons == {{"maint"}, {"hardware"}}
AllFaults == FaultKinds

===============================================================================
