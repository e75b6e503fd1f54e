------------------------------- MODULE SlinkyNode -------------------------------
(***************************************************************************)
(* A Slinky node: a Slurm node whose slurmd is a pod on one Kubernetes     *)
(* node.  The Slinky operator copies the Kubernetes node's cordon and the  *)
(* pod's end into Slurm; engineers, faults and jobs change both sides; and *)
(* node-triage's tools read both sides, one call after another, decide by  *)
(* the rules of TriageRules, and write (server.go: drainNode, resumeNode). *)
(* Several tool calls may run at the same time.  triage_node answers the   *)
(* same assessments and writes nothing: it is KubeAdvice and SlurmAdvice.  *)
(*                                                                         *)
(* The operator, Kubernetes, Slurm and the engineers are outside the       *)
(* repository; they do here what its docs, fixtures and drill results      *)
(* record of them.                                                         *)
(***************************************************************************)
EXTENDS TriageRules

CONSTANTS
    Callers,          \* tool calls that may be in flight at the same time
    DrainReasons,     \* reasons a caller or an engineer may give, without prefix
    ReturnToService,  \* slurm.conf: 2 returns a DOWN node once slurmd registers
    Faults,           \* the things that may go wrong or be done (see Disrupt)
    MaxDisruptions    \* bound on how many of them happen

FaultKinds == {"cordon", "delete_pod", "kubelet", "disk", "job", "scontrol", "drain", "resume"}

ASSUME SlinkyAssumption ==
    /\ DrainReasons \subseteq SUBSET (Marks \ {"operator", "terminating", "triage"})
    /\ Blank \notin DrainReasons
    /\ ReturnToService \in {0, 2}
    /\ Faults \subseteq FaultKinds
    /\ MaxDisruptions \in Nat

VARIABLES
    knode,       \* the Kubernetes node: ready, conditions, cordoned, reason
    pod,         \* the worker pod: "up", "terminating" or "pending"
    slurm,       \* the Slurm node: flags, reason, back
    job,         \* "none", "running", or "protected" by a disruption budget
    call,        \* call[c]: the tool call caller c has in flight
    disruptions  \* how many of the bounded things have happened

cluster == <<knode, pod, slurm, job>>
vars    == <<knode, pod, slurm, job, call, disruptions>>

-------------------------------------------------------------------------------
(* What a read returns. *)

\* The Kubernetes node as its Nodes call lists it.
KubeNode == [ready |-> knode.ready, conditions |-> knode.conditions,
             cordoned |-> knode.cordoned, reason |-> knode.reason, kernelEvents |-> 0]

\* Workload pods on the node.  A pod being deleted still runs there; one that
\* waits to be scheduled is on no node.
KubePods == IF pod = "pending" THEN {} ELSE {"worker"}

\* The operator's budget over workers with running jobs.
KubePDBs == IF job = "protected" THEN {[allowed |-> 0, covers |-> {"worker"}]} ELSE {}

View(node, pods, pdbs) ==
    [ready |-> node.ready, conditions |-> node.conditions, cordoned |-> node.cordoned,
     reason |-> node.reason, kernelEvents |-> node.kernelEvents,
     pods |-> pods, pdbs |-> pdbs]

RunningJobs == IF job = "none" THEN {} ELSE {[limit |-> TRUE, burnin |-> FALSE]}

SlurmView(node, jobs) ==
    [flags |-> node.flags, reason |-> node.reason, back |-> node.back,
     pod |-> TRUE, parts |-> {"batch"}, jobs |-> jobs]

\* slurmrestd here serves no accounting, and says so without an error.
NoHistory == [read |-> TRUE, chronic |-> FALSE, eats |-> FALSE, burnin |-> "none"]

\* The rules applied to what is true now, as if all of it were read at once.
KubeAdvice  == AssessKube(View(KubeNode, KubePods, KubePDBs))
SlurmAdvice == AssessSlurm(SlurmView(slurm, RunningJobs), View(KubeNode, KubePods, KubePDBs),
                           NoHistory)

-------------------------------------------------------------------------------
(* Facts the properties speak of, and which of them have held ever since a  *)
(* call began.                                                              *)

OperatorDrained == "DRAIN" \in slurm.flags /\ "operator" \in slurm.reason /\ knode.cordoned

Facts ==
    {f \in {"hardware", "kube_hardware", "hardware_cordon", "operator_drained",
            "cordon_drained"} :
        CASE f = "hardware"         -> "hardware" \in slurm.reason
          [] f = "kube_hardware"    -> "ReadonlyFilesystem" \in knode.conditions
          [] f = "hardware_cordon"  -> knode.cordoned /\ "hardware" \in knode.reason
          [] f = "operator_drained" -> OperatorDrained
          [] f = "cordon_drained"   -> OperatorDrained /\ "terminating" \notin slurm.reason}

NoCall == [tool |-> "none"]

InFlight(c) == call[c].tool # "none"

\* Every step of the cluster is noted by the calls in flight.
Note(c, facts) == [call[c] EXCEPT !.since = @ \cap facts]

Noted == call' = [c \in Callers |-> IF InFlight(c) THEN Note(c, Facts') ELSE call[c]]

-------------------------------------------------------------------------------
Init ==
    /\ knode = [ready |-> "True", conditions |-> {}, cordoned |-> FALSE, reason |-> Blank]
    /\ pod = "up"
    /\ slurm = [flags |-> {}, reason |-> Blank, back |-> TRUE]
    /\ job = "none"
    /\ call = [c \in Callers |-> NoCall]
    /\ disruptions = 0

\* The bounded actions: one of kind f happens.
Disrupt(f) ==
    /\ f \in Faults
    /\ disruptions < MaxDisruptions
    /\ disruptions' = disruptions + 1

-------------------------------------------------------------------------------
(* Slurm. *)

\* slurmctld takes a new state and reason; slurmd's start is then in the past.
SetSlurm(flags, reason) ==
    slurm' = [flags |-> flags, reason |-> IF flags = {} THEN Blank ELSE reason, back |-> FALSE]

\* A slurmd that is gone is noticed when SlurmdTimeout expires.
SlurmdTimeout ==
    /\ pod # "up"
    /\ "DOWN" \notin slurm.flags
    /\ SetSlurm(slurm.flags \cup {"DOWN", "NOT_RESPONDING"},
                IF slurm.reason = Blank THEN {"not_responding"} ELSE slurm.reason)
    /\ UNCHANGED <<knode, pod, job, disruptions>>

\* slurmd registers from a new pod.  ReturnToService=2 clears DOWN, never DRAIN.
Registered ==
    LET flags == slurm.flags \ (IF ReturnToService = 2 THEN {"DOWN", "NOT_RESPONDING"}
                                ELSE {"NOT_RESPONDING"})
    IN  slurm' = [flags |-> flags, back |-> TRUE,
                  reason |-> IF flags = {} THEN Blank ELSE slurm.reason]

JobStart ==
    /\ Disrupt("job")
    /\ job = "none" /\ pod = "up" /\ slurm.flags = {}
    /\ job' = "running"
    /\ UNCHANGED <<knode, pod, slurm>>

JobEnd ==
    /\ job # "none"
    /\ job' = "none"
    /\ UNCHANGED <<knode, pod, slurm, disruptions>>

-------------------------------------------------------------------------------
(* The Slinky operator. *)

\* It drains the Slurm node of a worker pod on a cordoned Kubernetes node,
\* unless it is already drained.
OperatorDrain ==
    /\ knode.cordoned
    /\ pod = "up"
    /\ "DRAIN" \notin slurm.flags
    /\ SetSlurm(slurm.flags \cup {"DRAIN"}, {"operator"})
    /\ UNCHANGED <<knode, pod, job, disruptions>>

\* After the uncordon it undrains what it drained, and leaves other drains alone.
OperatorUndrain ==
    /\ ~knode.cordoned
    /\ "DRAIN" \in slurm.flags
    /\ "operator" \in slurm.reason
    /\ LET flags == slurm.flags \ {"DRAIN"}
       IN  slurm' = [slurm EXCEPT !.flags = flags,
                                  !.reason = IF flags = {} THEN Blank ELSE @]
    /\ UNCHANGED <<knode, pod, job, disruptions>>

\* It puts a disruption budget over a worker whose job has run for a while.
OperatorProtect ==
    /\ job = "running"
    /\ job' = "protected"
    /\ UNCHANGED <<knode, pod, slurm, disruptions>>

\* A deleted pod takes its jobs with it, and the operator marks its node DOWN.
\* A drain of somebody else's may keep its reason.
Terminate ==
    /\ pod = "up"
    /\ pod' = "terminating"
    /\ job' = "none"
    /\ \/ SetSlurm(slurm.flags \cup {"DOWN"}, {"operator", "terminating"})
       \/ /\ "DRAIN" \in slurm.flags /\ "operator" \notin slurm.reason
          /\ SetSlurm(slurm.flags \cup {"DOWN"}, slurm.reason)
    /\ UNCHANGED <<knode>>

-------------------------------------------------------------------------------
(* Kubernetes. *)

\* The kubelet confirms that a deleted pod is gone; the operator recreates it,
\* and it waits for its node.
PodGone ==
    /\ pod = "terminating"
    /\ knode.ready = "True"
    /\ pod' = "pending"
    /\ UNCHANGED <<knode, slurm, job, disruptions>>

PodStart ==
    /\ pod = "pending"
    /\ ~knode.cordoned
    /\ knode.ready = "True"
    /\ pod' = "up"
    /\ Registered
    /\ UNCHANGED <<knode, job, disruptions>>

\* The unreachable taint evicts the pods of a node whose kubelet is gone.
TaintEvict ==
    /\ knode.ready = "Unknown"
    /\ Terminate
    /\ UNCHANGED disruptions

-------------------------------------------------------------------------------
(* Faults and engineers. *)

KubeletStop ==
    /\ Disrupt("kubelet")
    /\ knode.ready = "True"
    /\ knode' = [knode EXCEPT !.ready = "Unknown"]
    /\ UNCHANGED <<pod, slurm, job>>

KubeletStart ==
    /\ knode.ready = "Unknown"
    /\ knode' = [knode EXCEPT !.ready = "True"]
    /\ UNCHANGED <<pod, slurm, job, disruptions>>

DiskFail ==
    /\ Disrupt("disk")
    /\ knode.conditions = {}
    /\ knode' = [knode EXCEPT !.conditions = {"ReadonlyFilesystem"}]
    /\ UNCHANGED <<pod, slurm, job>>

DiskRepair ==
    /\ knode.conditions # {}
    /\ knode' = [knode EXCEPT !.conditions = {}]
    /\ UNCHANGED <<pod, slurm, job, disruptions>>

\* kubectl cordon leaves the annotation as it is, unless the engineer follows
\* triage's convention; kubectl uncordon leaves it.
KubectlCordon ==
    /\ Disrupt("cordon")
    /\ ~knode.cordoned
    /\ \E note \in {knode.reason} \cup DrainReasons :
          knode' = [knode EXCEPT !.cordoned = TRUE, !.reason = note]
    /\ UNCHANGED <<pod, slurm, job>>

KubectlUncordon ==
    /\ knode.cordoned
    /\ knode' = [knode EXCEPT !.cordoned = FALSE]
    /\ UNCHANGED <<pod, slurm, job, disruptions>>

\* kubectl drain of a cordoned node evicts what no budget protects.
KubectlDrain ==
    /\ knode.cordoned
    /\ job # "protected"
    /\ Terminate
    /\ UNCHANGED disruptions

DeletePod ==
    /\ Disrupt("delete_pod")
    /\ Terminate

\* An engineer drains or resumes the Slurm node by hand.
Scontrol ==
    /\ Disrupt("scontrol")
    /\ \/ \E r \in DrainReasons : SetSlurm(slurm.flags \cup {"DRAIN"}, r)
       \/ slurm.flags # {} /\ SetSlurm({}, Blank)
    /\ UNCHANGED <<knode, pod, job>>

Environment ==
    \/ SlurmdTimeout \/ JobStart \/ JobEnd
    \/ OperatorDrain \/ OperatorUndrain \/ OperatorProtect
    \/ PodGone \/ PodStart \/ TaintEvict
    \/ KubeletStop \/ KubeletStart \/ DiskFail \/ DiskRepair
    \/ KubectlCordon \/ KubectlUncordon \/ KubectlDrain \/ DeletePod \/ Scontrol

-------------------------------------------------------------------------------
(* Tool calls. *)

\* A call names a node ("kube" or "slurm") and a reason, or whether to force.
Begin(c, tool, target, force, reason) ==
    /\ Disrupt(tool)
    /\ ~InFlight(c)
    /\ call' = [call EXCEPT ![c] =
                  [tool |-> tool, target |-> target, force |-> force, reason |-> reason,
                   kube |-> "nodes", k |-> NoView, slurmd |-> "nodes", n |-> NoView,
                   since |-> Facts]]
    /\ UNCHANGED cluster

\* readKube: nodes, then pods (events and budgets with them).
ReadKubeNodes(c) ==
    /\ InFlight(c) /\ call[c].kube = "nodes"
    /\ call' = [call EXCEPT ![c].kube = "pods", ![c].k = KubeNode]
    /\ UNCHANGED <<cluster, disruptions>>

ReadKubePods(c) ==
    /\ InFlight(c) /\ call[c].kube = "pods"
    /\ call' = [call EXCEPT ![c].kube = "done", ![c].k = View(@, KubePods, KubePDBs)]
    /\ UNCHANGED <<cluster, disruptions>>

\* Mutant: what was read before the Kubernetes API stopped answering is used.
KubeFailsPartly(c) ==
    /\ InFlight(c) /\ call[c].kube # "done"
    /\ call' = [call EXCEPT ![c].kube = "done"]
    /\ UNCHANGED <<cluster, disruptions>>

\* The Kubernetes API does not answer in time.
KubeFails(c) ==
    /\ InFlight(c) /\ call[c].kube # "done"
    /\ call' = [call EXCEPT ![c].kube = "done", ![c].k = NoView]
    /\ UNCHANGED <<cluster, disruptions>>

\* readSlurm: nodes, then jobs.
ReadSlurmNodes(c) ==
    /\ InFlight(c) /\ call[c].slurmd = "nodes"
    /\ call' = [call EXCEPT ![c].slurmd = "jobs", ![c].n = slurm]
    /\ UNCHANGED <<cluster, disruptions>>

ReadSlurmJobs(c) ==
    /\ InFlight(c) /\ call[c].slurmd = "jobs"
    /\ call' = [call EXCEPT ![c].slurmd = "done", ![c].n = SlurmView(@, RunningJobs)]
    /\ UNCHANGED <<cluster, disruptions>>

SlurmFails(c) ==
    /\ InFlight(c) /\ call[c].slurmd # "done"
    /\ call' = [call EXCEPT ![c].slurmd = "done", ![c].n = NoView]
    /\ UNCHANGED <<cluster, disruptions>>

SnapshotReady(c) == InFlight(c) /\ call[c].kube = "done" /\ call[c].slurmd = "done"

\* locate: the node is in a snapshot that was read.
Located(c) == IF call[c].target = "kube" THEN call[c].k # NoView ELSE call[c].n # NoView

\* handlers.assess
Advice(c) == IF call[c].target = "kube" THEN AssessKube(call[c].k)
             ELSE AssessSlurm(call[c].n, call[c].k, NoHistory)

\* SetUnschedulable: one merge patch sets or clears the cordon and its reason.
Patch(cordon, reason) ==
    /\ knode' = [knode EXCEPT !.cordoned = cordon, !.reason = reason]
    /\ UNCHANGED <<pod, slurm, job>>

\* Drain and Resume of the Slurm source.
Update(drain, reason) ==
    /\ SetSlurm(IF drain THEN slurm.flags \cup {"DRAIN"} ELSE {}, reason)
    /\ UNCHANGED <<knode, pod, job>>

Write(target, drain, reason) ==
    IF target = "kube" THEN Patch(drain, reason) ELSE Update(drain, reason)

Return(c) ==
    /\ call' = [d \in Callers |-> IF d = c THEN NoCall
                                  ELSE IF InFlight(d) THEN Note(d, Facts') ELSE call[d]]
    /\ UNCHANGED disruptions

\* drainNode writes whatever the assessment is; the reason gets its prefix.
\* The write may be lost and answered with an error, or be answered with an
\* error after it took effect.
DrainNode(c) ==
    /\ SnapshotReady(c) /\ call[c].tool = "drain" /\ Located(c)
    /\ \/ Write(call[c].target, TRUE, call[c].reason \cup {"triage"})
       \/ UNCHANGED cluster
    /\ Return(c)

\* Whether resumeNode goes on to its write.
Resumes(c) == Located(c) /\ ResumeVerdict(Advice(c), call[c].force) = "done"

ResumeNode(c) ==
    /\ SnapshotReady(c) /\ call[c].tool = "resume" /\ Resumes(c)
    /\ Write(call[c].target, FALSE, Blank)
    /\ Return(c)

\* Every call that changes nothing: a refusal, an unknown node, a lost write.
AnswerOnly(c) ==
    /\ SnapshotReady(c)
    /\ call[c].tool = "drain" => ~Located(c)
    /\ UNCHANGED cluster
    /\ Return(c)

Targets == {"kube", "slurm"}

Tools ==
    \E c \in Callers :
        \/ \E t \in Targets, r \in DrainReasons : Begin(c, "drain", t, FALSE, r)
        \/ \E t \in Targets, f \in BOOLEAN : Begin(c, "resume", t, f, Blank)
        \/ ReadKubeNodes(c) \/ ReadKubePods(c) \/ KubeFails(c)
        \/ ReadSlurmNodes(c) \/ ReadSlurmJobs(c) \/ SlurmFails(c)
        \/ DrainNode(c) \/ ResumeNode(c) \/ AnswerOnly(c)

Next == (Environment /\ Noted) \/ Tools

\* The operator, Kubernetes and Slurm do what they are due to do, jobs end, and
\* engineers finish the work they have on the Kubernetes node: a repair, a
\* kubelet, an uncordon.  Nobody has to touch the Slurm node.
Fairness ==
    /\ WF_vars(OperatorDrain /\ Noted) /\ WF_vars(OperatorUndrain /\ Noted)
    /\ WF_vars(PodGone /\ Noted) /\ WF_vars(PodStart /\ Noted)
    /\ WF_vars(JobEnd /\ Noted) /\ WF_vars(SlurmdTimeout /\ Noted)
    /\ WF_vars(KubeletStart /\ Noted) /\ WF_vars(DiskRepair /\ Noted)
    /\ WF_vars(KubectlUncordon /\ Noted)

Spec == Init /\ [][Next]_vars /\ Fairness

-------------------------------------------------------------------------------
(* Properties *)

Reasons == SUBSET Marks

\* The variables stay in their types; a snapshot that is ready holds whole
\* views or none.
TypeOK ==
    /\ knode \in [ready : {"True", "Unknown"}, conditions : SUBSET {"ReadonlyFilesystem"},
                  cordoned : BOOLEAN, reason : Reasons]
    /\ pod \in {"up", "terminating", "pending"}
    /\ slurm \in [flags : SUBSET {"DRAIN", "DOWN", "NOT_RESPONDING"}, reason : Reasons,
                  back : BOOLEAN]
    /\ job \in {"none", "running", "protected"}
    /\ disruptions \in 0..MaxDisruptions
    /\ \A c \in Callers : SnapshotReady(c) =>
          /\ call[c].k # NoView => DOMAIN call[c].k = DOMAIN View(KubeNode, {}, {})
          /\ call[c].n # NoView => DOMAIN call[c].n = DOMAIN SlurmView(slurm, {})

\* "Refuses when triage says the node has a hardware fault, unless force is
\* true" (resume_node): a node whose drain reason, or whose Kubernetes
\* conditions, have said hardware since the call began is not resumed unforced,
\* whatever changes between the call's reads and its write.
HardwareHeld ==
    [][\A c \in Callers : ResumeNode(c) /\ ~call[c].force =>
          IF call[c].target = "kube" THEN "kube_hardware" \notin call[c].since
          ELSE "hardware" \notin call[c].since]_vars

\* "No force" (resumeNode): a Slurm node that the operator has kept drained for
\* its cordoned Kubernetes node since the call began is not resumed, forced or
\* not, even when the Kubernetes API did not answer.
CordonDrainHeld ==
    [][\A c \in Callers : ResumeNode(c) /\ call[c].target = "slurm" =>
          "cordon_drained" \notin call[c].since]_vars

\* Advice to resume a node is advice that resume_node takes: what triage_node
\* recommends and what the write tool refuses never contradict each other.
ResumeAdviceAccepted ==
    /\ SlurmAdvice.action = "resume" => ResumeVerdict(SlurmAdvice, FALSE) = "done"
    /\ KubeAdvice.action = "resume"  => ResumeVerdict(KubeAdvice, FALSE) = "done"

\* "wait" is for what comes by itself: with only the Kubernetes node worked on,
\* triage does not tell the Slurm node's owner to wait forever.
WaitEnds == SlurmAdvice.action = "wait" ~> SlurmAdvice.action # "wait"

\* "A Slinky node the operator drained follows its Kubernetes node: resuming it
\* in Slurm is reverted within seconds, so don't pretend it worked. No force."
\* (server.go:603): no resume of a Slurm node that has been drained by the
\* operator, under a cordon, since the call began.
OperatorDrainRefused ==
    [][\A c \in Callers : ResumeNode(c) /\ call[c].target = "slurm" =>
          "operator_drained" \notin call[c].since]_vars

\* "A Slinky node whose own Kubernetes node is in trouble also inherits that,
\* even while Slurm still sees it as fine" (docs/drills.md:110): no node that is
\* in service or out of it by the operator's doing is given calmer advice.
TroubleInherited ==
    Faulty(KubeAdvice) /\ (slurm.flags = {} \/ "operator" \in slurm.reason) =>
        Faulty(SlurmAdvice) \/ SlurmAdvice.action \in {"investigate", "escalate_hardware"}

\* "resume_node refuses nodes triage flags as hardware faults unless force=true"
\* (README.md:101), for a Kubernetes node: one whose cordon has said hardware
\* since the call began, as drain_node wrote it, is not uncordoned unforced.
HardwareCordonHeld ==
    [][\A c \in Callers : ResumeNode(c) /\ ~call[c].force /\ call[c].target = "kube" =>
          "hardware_cordon" \notin call[c].since]_vars

===============================================================================
