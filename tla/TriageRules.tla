------------------------------ MODULE TriageRules ------------------------------
(***************************************************************************)
(* node-triage's deterministic rules: what triage recommends for one Slurm *)
(* node and for one Kubernetes node, from what it has read about them      *)
(* (triage/internal/triage).  Everything here is a function of its         *)
(* arguments; the state machines that feed it are in other modules.        *)
(*                                                                         *)
(* Free text is abstracted to the set of marks the rules look for in it.   *)
(* A drain reason is a set of marks; the empty set is the blank reason.    *)
(***************************************************************************)
EXTENDS Integers, FiniteSets, Sequences

CONSTANTS
    KubeEventThreshold,   \* Policy.KubeEventThreshold
    NoView                \* the Kubernetes node was not read, or is not listed

ASSUME KubeEventThresholdAssumption == KubeEventThreshold \in Nat \ {0}

-------------------------------------------------------------------------------
(* Reasons and categories *)

\* What a reason may say.  "nhc" is the prefix "NHC:"; "health" is any other
\* health check; "terminating" is the operator's "Pod is terminating"; "words"
\* is text no pattern recognises.
Marks == {"operator", "terminating", "triage", "hardware", "kill_task",
          "not_responding", "rebooted", "nhc", "health", "maint", "words"}

Blank == {}

\* categoryPatterns, in the order they are tried.
Patterns == << <<"operator",       "kubernetes_managed">>,
               <<"hardware",       "hardware">>,
               <<"kill_task",      "stuck_process">>,
               <<"not_responding", "unreachable">>,
               <<"rebooted",       "unexpected_reboot">>,
               <<"nhc",            "health_check">>,
               <<"health",         "health_check">>,
               <<"maint",          "maintenance">> >>

\* The category of the first pattern that matches, "other" when none does.
FirstMatch(body) ==
    LET hits == {i \in DOMAIN Patterns : Patterns[i][1] \in body}
    IN  IF hits = {} THEN "other"
        ELSE Patterns[CHOOSE i \in hits : \A j \in hits : i <= j][2]

\* Mutant: the prefix alone decides.
ClassifyByPrefix(reason) ==
    IF "triage" \in reason THEN "triage"
    ELSE IF reason = Blank THEN "none" ELSE FirstMatch(reason)

\* Classify: a drain triage made keeps the category of what it is about.
Classify(reason) ==
    LET body == reason \ {"triage"}
        cat  == IF body = Blank THEN "none" ELSE FirstMatch(body)
    IN  IF "triage" \in reason /\ cat \in {"none", "other"} THEN "triage" ELSE cat

-------------------------------------------------------------------------------
(* Recommendations *)

Actions == {"none", "wait", "drain", "resume", "investigate",
            "escalate_hardware", "burn_in", "promote"}
Severities == {"info", "warning", "critical"}
Categories == {"none", "other", "triage", "kubernetes_managed", "hardware",
               "stuck_process", "unreachable", "unexpected_reboot",
               "health_check", "maintenance", "kubelet", "resource_pressure",
               "kernel_events", "pod_restarted", "kubernetes_node",
               "qualification", "control_plane", "accounting"}

\* confirm: the recommendation carries preconditions triage cannot verify.
Recommendation == [action : Actions, severity : Severities,
                   category : Categories, confirm : BOOLEAN]

Rec(a, s, c) == [action |-> a, severity |-> s, category |-> c, confirm |-> FALSE]
Confirm(r)   == [r EXCEPT !.confirm = TRUE]

-------------------------------------------------------------------------------
(* One Kubernetes node.  A view k is what one read of the API says of it:   *)
(*   ready         status of the Ready condition                             *)
(*   conditions    the other conditions whose status is True                 *)
(*   cordoned      spec.unschedulable                                        *)
(*   reason        the slurm-k8s-lab/triage-reason annotation                *)
(*   pods          workload pods on the node                                 *)
(*   pdbs          [allowed |-> disruptions allowed, covers |-> set of pods] *)
(*   kernelEvents  node-problem-detector kernel warnings, occurrences summed *)

Pressures == {"MemoryPressure", "DiskPressure", "PIDPressure"}

\* blockingPDBs
BlockingPDBs(k) == {b \in k.pdbs : b.allowed <= 0 /\ b.covers \cap k.pods # {}}

\* kubeAssessor.cordoned
Cordoned(k) ==
    LET named == Classify(k.reason)
        cat   == IF named = "none" THEN "other" ELSE named
    IN  IF k.pods # {} /\ BlockingPDBs(k) # {} THEN Rec("investigate", "warning", cat)
        ELSE IF k.pods # {} THEN Rec("drain", "info", cat)
        ELSE IF cat = "maintenance" THEN Confirm(Rec("resume", "info", cat))
        ELSE Rec("investigate", "warning", cat)

\* kubeAssessor.assess under a policy's KubeEventThreshold.
AssessKubeBy(threshold, k) ==
    IF "ReadonlyFilesystem" \in k.conditions
        THEN Rec("escalate_hardware", "critical", "hardware")
    ELSE IF k.ready = "Unknown" THEN Rec("investigate", "critical", "unreachable")
    ELSE IF k.ready = "False" THEN Rec("investigate", "critical", "kubelet")
    ELSE IF "KernelDeadlock" \in k.conditions
        THEN Rec("investigate", "critical", "stuck_process")
    ELSE IF Pressures \cap k.conditions # {}
        THEN Rec("investigate", "warning", "resource_pressure")
    ELSE IF k.cordoned THEN Cordoned(k)
    ELSE IF k.kernelEvents >= threshold
        THEN Rec("investigate", "warning", "kernel_events")
    ELSE Rec("none", "info", "none")

\* AssessKube with the configured policy.
AssessKube(k) == AssessKubeBy(KubeEventThreshold, k)

\* nodeFault: the recommendation is about the node itself, not planned work.
NodeFault(cat) == cat \in {"hardware", "unreachable", "kubelet", "stuck_process",
                           "resource_pressure", "kernel_events"}

\* The Kubernetes node has a fault of its own that someone must look at.
Faulty(kr) == /\ NodeFault(kr.category)
              /\ kr.action \in {"investigate", "escalate_hardware"}

\* kubeNodeTrouble
KubeNodeTrouble(k) == k # NoView /\ Faulty(AssessKube(k))

-------------------------------------------------------------------------------
(* One Slurm node.  A view n holds what was read from slurmctld:            *)
(*   flags    state flags                                                    *)
(*   reason   drain/down reason                                              *)
(*   pod      TRUE for a Slinky node (it runs as a pod)                      *)
(*   back     slurmd started after the reason was set (both times known)     *)
(*   parts    its partitions                                                 *)
(*   jobs     RUNNING jobs on it, each [limit : BOOLEAN, burnin : BOOLEAN]   *)
(* and h what accounting says of it:                                         *)
(*   read     accounting was read (AccountingError = "")                     *)
(*   chronic  incidents reached ChronicEventThreshold                        *)
(*   eats     unexplained NODE_FAIL jobs reached NodeFailDrainThreshold      *)
(*   burnin   last burn-in since boot: "none", "passed" or "failed"          *)

\* Mutant: the recommendation keeps the operator's category.
PodReplacedManaged(n) ==
    IF n.back THEN Rec("resume", "info", "kubernetes_managed")
    ELSE Rec("wait", "info", "kubernetes_managed")

\* kubernetesManaged, with podReplaced for the pod-termination reason.
PodReplaced(n) ==
    IF n.back THEN Rec("resume", "info", "pod_restarted")
    ELSE Rec("wait", "info", "pod_restarted")

KubernetesManaged(n, k) ==
    IF "terminating" \in n.reason THEN PodReplaced(n)
    ELSE IF k = NoView THEN Rec("investigate", "warning", "kubernetes_managed")
    ELSE LET kr == AssessKube(k)
         IN  IF \/ kr.action = "escalate_hardware"
                \/ kr.action = "investigate" /\ NodeFault(kr.category)
             THEN Rec(kr.action, kr.severity, "kubernetes_managed")
             ELSE Rec("wait", "info", "kubernetes_managed")

Hardware(n) == Rec("escalate_hardware", "critical", "hardware")

Down(n, cat, chronic) ==
    LET lost == "NOT_RESPONDING" \in n.flags
        c    == IF lost THEN "unreachable" ELSE cat
    IN  IF chronic THEN Rec("escalate_hardware", "critical", c)
        ELSE IF cat = "unexpected_reboot" /\ ~lost THEN Rec("investigate", "warning", cat)
        ELSE Rec("investigate", "critical", c)

Unresponsive(n) == Rec("investigate", "critical", "unreachable")

\* Mutant: a drained node for maintenance is left to come back by itself.
DrainOut(n, cat, chronic) ==
    IF n.jobs # {} \/ cat = "maintenance" THEN Rec("wait", "info", cat)
    ELSE IF chronic THEN Rec("escalate_hardware", "critical", cat)
    ELSE Rec("investigate", "warning", cat)

Drain(n, cat, chronic) ==
    IF n.jobs # {}
        THEN Rec("wait", IF \E j \in n.jobs : ~j.limit THEN "warning" ELSE "info", cat)
    ELSE IF chronic THEN Rec("escalate_hardware", "critical", cat)
    ELSE IF cat = "maintenance" THEN Confirm(Rec("resume", "info", cat))
    ELSE Rec("investigate", "warning", cat)

\* Mutant: the jobs that a requested reboot waits for are not looked at.
RebootWithoutJobs(n, cat) ==
    Rec("wait", "info", IF cat \in {"none", "other"} THEN "maintenance" ELSE cat)

Reboot(n, cat) ==
    LET c == IF cat \in {"none", "other"} THEN "maintenance" ELSE cat
    IN  IF "REBOOT_ISSUED" \notin n.flags /\ n.jobs # {} THEN Drain(n, c, FALSE)
        ELSE Rec("wait", "info", c)

InQualification(n) == "burnin" \in n.parts /\ "batch" \notin n.parts

Qualify(n, h) ==
    IF \E j \in n.jobs : j.burnin THEN Rec("wait", "info", "qualification")
    ELSE IF ~h.read THEN Rec("investigate", "warning", "qualification")
    ELSE IF h.burnin = "none" THEN Rec("burn_in", "info", "qualification")
    ELSE IF h.burnin = "failed" THEN Rec("escalate_hardware", "critical", "qualification")
    ELSE Rec("promote", "info", "qualification")

OnTroubledKubeNode(k) ==
    LET kr == AssessKube(k)
    IN  Rec(IF kr.action = "escalate_hardware" THEN kr.action ELSE "investigate",
            kr.severity, "kubernetes_node")

\* assessor.assess.  Without accounting there are no incidents and no failed
\* jobs to count.
AssessSlurm(n, k, h) ==
    LET cat     == Classify(n.reason)
        chronic == h.read /\ h.chronic
        eats    == h.read /\ h.eats
    IN  IF n.pod /\ cat = "kubernetes_managed" THEN KubernetesManaged(n, k)
        ELSE IF {"INVALID", "INVALID_REG"} \cap n.flags # {} \/ cat = "hardware"
            THEN Hardware(n)
        ELSE IF {"REBOOT_REQUESTED", "REBOOT_ISSUED"} \cap n.flags # {} THEN Reboot(n, cat)
        ELSE IF "DOWN" \in n.flags THEN Down(n, cat, chronic)
        ELSE IF "NOT_RESPONDING" \in n.flags THEN Unresponsive(n)
        ELSE IF "DRAIN" \in n.flags THEN Drain(n, cat, chronic)
        ELSE IF InQualification(n) THEN Qualify(n, h)
        ELSE IF n.pod /\ KubeNodeTrouble(k) THEN OnTroubledKubeNode(k)
        ELSE IF eats THEN Rec("drain", "warning", cat)
        ELSE Rec("none", "info", cat)

-------------------------------------------------------------------------------
(* What resume_node makes of an assessment. *)

\* Mutant: force also overrides the operator's drain.
ResumeVerdictForced(r, force) ==
    IF force THEN "done"
    ELSE IF r.category = "kubernetes_managed" \/ r.action = "escalate_hardware"
    THEN "refused" ELSE "done"

\* "done" means that it goes on to write.
ResumeVerdict(r, force) ==
    IF r.category = "kubernetes_managed" THEN "refused"
    ELSE IF r.action = "escalate_hardware" /\ ~force THEN "refused"
    ELSE "done"

===============================================================================
