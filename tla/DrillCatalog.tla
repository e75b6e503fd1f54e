------------------------------ MODULE DrillCatalog ------------------------------
(***************************************************************************)
(* The drills (drills/catalog.py) as scripts, and the lab they act on.     *)
(* The lab is what a drill can do to it: what is broken, what was left     *)
(* there, and how the scheduler sees the node under drill.                 *)
(***************************************************************************)
EXTENDS Naturals, Sequences

-------------------------------------------------------------------------------
(* The lab *)

\* What a drill breaks.  The first six stop slurmd from answering slurmctld,
\* the next two fail a node health check.
Silencing     == {"power", "key", "clock", "slurmd", "pod", "kubelet"}
HealthChecked == {"disk", "gpu"}
Breakable     == Silencing \cup HealthChecked \cup {"slurmctld", "slurmdbd", "control_plane"}

\* What a drill puts there, and what follows from that: a namespace that is
\* being deleted, a Kubernetes node reported not ready, a new node drained on
\* its way out.
Leavings == {"jobs", "reservation", "namespace", "cordon", "annotation", "new_node",
             "deleting", "unready", "new_node_drained"}

\* "silent": NOT_RESPONDING.  "held": DOWN after a reboot nobody asked for.
\* "nhc", "hardware", "operator": drained by the health check, by triage's
\* label, by the Slinky operator.
NodeStates == {"in", "silent", "down", "booting", "held", "nhc", "hardware", "operator"}

Labs == [broken : SUBSET Breakable, left : SUBSET Leavings, node : NodeStates]

CleanLab == [broken |-> {}, left |-> {}, node |-> "in"]

\* Mutant: the lab is green when its nodes are.
GreenNodes(l) == l.node = "in"

\* lab_problems() finds nothing.  It asks the schedulers, so it sees neither a
\* fault they have not noticed yet, nor an annotation, nor a node too many.
Green(l) ==
    /\ l.node = "in"
    /\ l.left \cap {"jobs", "reservation", "namespace", "cordon", "unready",
                    "new_node_drained"} = {}
    /\ l.broken \cap {"slurmctld", "slurmdbd", "pod", "control_plane"} = {}

-------------------------------------------------------------------------------
(* What a drill's commands do.  Each effect is a verb and its object. *)

Break(x)    == <<"break", x>>
Repair(x)   == <<"repair", x>>
Put(x)      == <<"put", x>>
TakeAway(x) == <<"take_away", x>>
Resume      == <<"resume", "node">>
Relabel     == <<"relabel", "node">>
Retire      == <<"retire", "new_node">>

\* resume_if_out, and scontrol ... state=resume: a node that does not answer is
\* still out afterwards.
Resumed(l) ==
    [l EXCEPT !.node = IF @ \in {"held", "nhc", "hardware"} THEN "in"
                       ELSE IF @ = "down" THEN "silent" ELSE @]

\* scancel needs slurmctld.  A namespace with pods on a dead kubelet goes when
\* the kubelet is back.
TakenAway(l, x) ==
    IF x = "jobs" /\ "slurmctld" \in l.broken THEN l
    ELSE IF x = "namespace" /\ x \in l.left /\ "kubelet" \in l.broken
        THEN [l EXCEPT !.left = @ \cup {"deleting"}]
    ELSE IF x = "new_node" THEN [l EXCEPT !.left = @ \ {x, "new_node_drained"}]
    ELSE [l EXCEPT !.left = @ \ {x}]

Apply(e, l) ==
    LET x == e[2]
    IN  CASE e[1] = "break"     -> [l EXCEPT !.broken = @ \cup {x}]
          [] e[1] = "repair"    -> [l EXCEPT !.broken = @ \ {x},
                                             !.node = IF x = "power" /\ x \in l.broken
                                                      THEN "booting" ELSE @]
          [] e[1] = "put"       -> [l EXCEPT !.left = @ \cup {x}]
          [] e[1] = "take_away" -> TakenAway(l, x)
          [] e[1] = "resume"    -> Resumed(l)
          [] e[1] = "relabel"   -> [l EXCEPT !.node = "hardware"]
          [] e[1] = "retire"    -> [l EXCEPT !.left = IF x \in @ THEN @ \cup {"new_node_drained"}
                                                       ELSE @]

-------------------------------------------------------------------------------
(* Scripts.  Steps: register a cleanup, run a command, wait until the node is *)
(* in one of some states, ask node-triage, check.                             *)

Cleanup(e)    == [op |-> "cleanup", effect |-> e]
Do(e)         == [op |-> "do", effect |-> e]
Await(states) == [op |-> "await", states |-> states]
Decide        == [op |-> "decide"]
Check         == [op |-> "check"]

NoAnswer == {"silent", "down"}

NodeDeath ==
    << Cleanup(TakeAway("jobs")), Cleanup(Repair("power")),
       Do(Put("jobs")), Do(Break("power")),
       Await(NoAnswer), Decide, Await({"down"}), Check, Decide,
       Do(Repair("power")), Await({"held"}), Decide, Do(Resume), Await({"in"}) >>

NHCDiskFull ==
    << Cleanup(Repair("disk")), Cleanup(Resume),
       Do(Break("disk")), Await({"nhc"}), Decide, Do(Repair("disk")), Await({"in"}) >>

NHCGpuLost ==
    << Cleanup(Repair("gpu")), Cleanup(TakeAway("reservation")),
       Cleanup(TakeAway("jobs")), Cleanup(Resume),
       Do(Break("gpu")), Await({"nhc"}), Decide,
       Do(Relabel), Do(Repair("gpu")), Check, Decide,
       Do(Put("reservation")), Do(Resume), Do(Put("jobs")), Check, Check,
       Do(TakeAway("reservation")), Await({"in"}) >>

MungeKeyMismatch ==
    << Cleanup(Repair("key")), Cleanup(TakeAway("jobs")),
       Do(Put("jobs")), Do(Break("key")), Await(NoAnswer), Decide,
       Do(Repair("key")), Await({"in"}), Check, Check >>

ClockSkew ==
    << Cleanup(Repair("clock")), Cleanup(Resume),
       Do(Break("clock")), Await(NoAnswer), Decide,
       Do(Repair("clock")), Await({"in"}), Check >>

SlurmctldOutage ==
    << Cleanup(Repair("slurmctld")), Cleanup(TakeAway("jobs")),
       Do(Put("jobs")), Do(Break("slurmctld")), Check, Check, Decide,
       Do(Repair("slurmctld")), Check, Check >>

SlurmdbdOutage ==
    << Cleanup(Repair("slurmdbd")), Cleanup(TakeAway("jobs")),
       Do(Break("slurmdbd")), Do(Put("jobs")), Decide, Do(Repair("slurmdbd")) >>

\* Both ends of its branch: a node that is back by itself is not changed by Resume.
SlinkyPodKill ==
    << Cleanup(Repair("slurmd")), Cleanup(TakeAway("jobs")), Cleanup(Resume),
       Do(Put("jobs")), Do(Break("slurmd")), Check, Do(Repair("slurmd")),
       Do(Put("jobs")), Do(Break("pod")), Decide, Do(Resume), Await({"in"}), Check >>

\* Mutant: the fault goes in before anything that undoes it is registered.
K8sKubeletStopHasty ==
    << Do(Put("namespace")), Do(Put("jobs")), Do(Break("kubelet")),
       Cleanup(Repair("kubelet")), Cleanup(TakeAway("namespace")), Cleanup(TakeAway("jobs")),
       Decide, Do(Repair("kubelet")), Await({"in"}) >>

K8sKubeletStop ==
    << Cleanup(Repair("kubelet")), Cleanup(TakeAway("namespace")), Cleanup(TakeAway("jobs")),
       Do(Put("namespace")), Do(Put("jobs")), Do(Break("kubelet")),
       Decide, Decide, Decide, Do(Repair("kubelet")), Await({"in"}) >>

\* kubectl drain cordons before it evicts.
K8sPDBDrain ==
    << Cleanup(TakeAway("namespace")), Cleanup(TakeAway("cordon")), Cleanup(TakeAway("jobs")),
       Do(Put("namespace")), Do(Put("jobs")),
       Do(Put("annotation")), Cleanup(TakeAway("annotation")), Do(Put("cordon")),
       Check, Decide, Decide, Check, Decide,
       Do(TakeAway("cordon")), Do(TakeAway("annotation")), Await({"in"}) >>

K8sCertRenewal ==
    << Cleanup(Repair("control_plane")), Check,
       Do(Break("control_plane")), Do(Repair("control_plane")), Check, Check, Decide >>

\* Only its cleanup takes the new node away again: remove() drains it and then
\* rebuilds the lab without it.
NodeBringup ==
    << Cleanup(TakeAway("new_node")), Cleanup(Retire), Do(Put("new_node")), Await({"in"}), Decide, Check,
       Do(Put("jobs")), Check, Decide, Decide >>

REGISTRY ==
    [node_death |-> NodeDeath, nhc_disk_full |-> NHCDiskFull, nhc_gpu_lost |-> NHCGpuLost,
     munge_key_mismatch |-> MungeKeyMismatch, clock_skew |-> ClockSkew,
     slurmctld_outage |-> SlurmctldOutage, slurmdbd_outage |-> SlurmdbdOutage,
     slinky_pod_kill |-> SlinkyPodKill, k8s_pdb_drain |-> K8sPDBDrain,
     k8s_kubelet_stop |-> K8sKubeletStop, k8s_cert_renewal |-> K8sCertRenewal,
     node_bringup |-> NodeBringup]

===============================================================================
