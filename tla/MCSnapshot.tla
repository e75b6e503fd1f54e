------------------------------- MODULE MCSnapshot -------------------------------
(* Snapshot for TLC: the lab's three sources, two Slinky nodes, and time    *)
(* bounds that leave room for a call to hang after others have answered.    *)
EXTENDS Snapshot

CONSTANTS lab, slinky, n0, n1

MCClusters == {lab, slinky}
MCREST     == {slinky}
MCPods     == [c \in MCClusters |-> IF c = slinky THEN {n0, n1} ELSE {}]

===============================================================================
