----------------------------- MODULE MCDrillEngine -----------------------------
(* DrillEngine for TLC: which drills a run starts. *)
EXTENDS DrillEngine

AllDrills   == DOMAIN REGISTRY
NodeDeaths  == {"node_death"}

===============================================================================
