-------------------------------- MODULE MCFleet --------------------------------
(* Two classic nodes whose numbers differ in length, one Slinky node, and two   *)
(* Kubernetes nodes.  NameFlags calls the classic cluster slinky too.           *)
EXTENDS Fleet

Host(prefix, digits) == [prefix |-> prefix, digits |-> digits, suffix |-> ""]
c9  == Host("c", <<9>>)
c10 == Host("c", <<1, 0>>)
s0  == Host("s", <<0>>)
k1  == Host("k", <<1>>)
k2  == Host("k", <<2>>)

MCClassic  == {c9, c10}
MCSlinky   == {s0}
MCKube     == {k1, k2}
MCHostOf   == [n \in {s0} |-> k2]
AllLive == [noSlurm |-> FALSE, fixtures |-> FALSE, kubeFix |-> FALSE, kubeDir |-> TRUE,
            slinkyFix |-> FALSE, slinkyDir |-> TRUE, adminToken |-> TRUE,
            allowWrites |-> TRUE, clusterName |-> "lab"]
MCFlags == {AllLive,
            [AllLive EXCEPT !.allowWrites = FALSE],
            [AllLive EXCEPT !.adminToken = FALSE],
            [AllLive EXCEPT !.kubeDir = FALSE],
            [AllLive EXCEPT !.slinkyDir = FALSE],
            [AllLive EXCEPT !.fixtures = TRUE, !.clusterName = "kubernetes"],
            [AllLive EXCEPT !.noSlurm = TRUE, !.kubeFix = TRUE, !.slinkyFix = TRUE]}
NameFlags == {[AllLive EXCEPT !.clusterName = "slinky"]}
MCJobHosts == {{c9}, {c9, c10}, {s0}}

Pod(name, ns, component, node) ==
    [name |-> name, ns |-> ns, phase |-> "Running", mirror |-> FALSE, daemonset |-> FALSE,
     labels |-> [component |-> component, part |-> "slurm"], extra |-> FALSE, node |-> node]
Budget(name, ns, component) ==
    [name |-> name, ns |-> ns, selector |-> {[component |-> component]}, exprs |-> FALSE, allowed |-> 0]

MCPods == {Pod("restapi", "slurm", "restapi", k1), Pod("restapi2", "slurm", "restapi", k2),
           Pod("worker", "slurm", "worker", k2), Pod("other", "apps", "worker", k1),
           [Pod("agent", "slurm", "worker", k1) EXCEPT !.daemonset = TRUE],
           [Pod("done", "slurm", "worker", k1) EXCEPT !.phase = "Succeeded"]}
MCStart == {p \in MCPods : p.name \in {"restapi", "worker", "agent", "done"}}
MCPDBs  == {Budget("workers", "slurm", "worker"),
            [Budget("some", "apps", "worker") EXCEPT !.exprs = TRUE]}
===============================================================================
