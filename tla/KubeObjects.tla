------------------------------ MODULE KubeObjects ------------------------------
(***************************************************************************)
(* The Kubernetes objects triage reads (triage/internal/kube) and what it  *)
(* sees of one node in them (triage/internal/triage/kube.go):              *)
(*   pod    [name, ns, labels, extra, phase, mirror, daemonset, node]      *)
(*   pdb    [name, ns, selector, exprs, allowed]                           *)
(*   event  [node, type, reason, count]                                    *)
(* labels is a function from keys to values; selector the set of the       *)
(* budget's matchLabels, empty when it has no selector; exprs says that it *)
(* also has matchExpressions, and extra that the pod meets them.           *)
(***************************************************************************)
EXTENDS Integers, FiniteSets
LOCAL INSTANCE FiniteSetsExt

\* Pod.Workload: a drain would have to evict it.
Workload(p) == /\ p.phase \notin {"Succeeded", "Failed"}
               /\ ~p.mirror /\ ~p.daemonset

\* A Go map yields the empty string for a key it lacks.
Label(p, key) == IF key \in DOMAIN p.labels THEN p.labels[key] ELSE ""

\* Mutant: the namespaces are not compared.
CoversAnywhere(b, p) ==
    /\ ~b.exprs
    /\ \E sel \in b.selector : /\ DOMAIN sel # {}
                              /\ \A key \in DOMAIN sel : Label(p, key) = sel[key]

\* PDB.Covers
Covers(b, p) ==
    /\ p.ns = b.ns
    /\ ~b.exprs
    /\ \E sel \in b.selector : /\ DOMAIN sel # {}
                              /\ \A key \in DOMAIN sel : Label(p, key) = sel[key]

\* workloadPods
WorkloadPods(pods, k) == {p \in pods : p.node = k /\ Workload(p)}

NPDKernelEvents == 
    {"TaskHung", "KernelOops", "OOMKilling", "MemoryReadError", "UnregisterNetDevice"}

\* Event.Occurrences
Occurrences(e) == IF e.count > 1 THEN e.count ELSE 1

\* How often the events happened, repeats included.
Total(events) == MapThenSumSet(Occurrences, events)

\* kernelEvents
KernelEvents(events, k) ==
    Total({e \in events : e.node = k /\ e.type = "Warning" /\ e.reason \in NPDKernelEvents})

\* What AssessKube goes by.  n is the node's own [ready, conditions, cordoned,
\* reason].
KubeView(k, n, pods, pdbs, events) ==
    [ready |-> n.ready, conditions |-> n.conditions, cordoned |-> n.cordoned,
     reason |-> n.reason, pods |-> WorkloadPods(pods, k),
     pdbs |-> {[allowed |-> b.allowed,
                covers |-> {p \in pods : Covers(b, p)}] : b \in pdbs},
     kernelEvents |-> KernelEvents(events, k)]

-------------------------------------------------------------------------------
(* What Kubernetes itself does: an eviction is refused by a budget that       *)
(* selects the pod and allows no disruption.  An empty selector selects all.  *)

Selects(b, p) ==
    /\ p.ns = b.ns
    /\ \E sel \in b.selector : \A key \in DOMAIN sel :
          key \in DOMAIN p.labels /\ p.labels[key] = sel[key]
    /\ b.exprs => p.extra

EvictionRefused(p, pdbs) == \E b \in pdbs : Selects(b, p) /\ b.allowed <= 0
===============================================================================
