---------------------------- MODULE SlinkyNodeProofs ----------------------------
(***************************************************************************)
(* Proofs about SlinkyNode for any set of callers, any drain reasons and   *)
(* any number of disruptions.                                              *)
(*                                                                         *)
(* A resume decides on views that were read earlier, perhaps in different  *)
(* states of the cluster.  The inductive invariant IInv connects what a    *)
(* call has read with what has been true all the time since it began: a    *)
(* fact that still holds since then held when the node was read, so the    *)
(* view shows it (Seen), and the rules refuse to resume such a view        *)
(* (TriageRulesProofs).  OneAuthor closes the one way around: a reason     *)
(* that says hardware in the operator's words would be the operator's.     *)
(***************************************************************************)
EXTENDS SlinkyNode, TriageRulesProofs

KubeNodes == [ready : {"True", "Unknown"}, conditions : SUBSET {"ReadonlyFilesystem"},
              cordoned : BOOLEAN, reason : Reasons, kernelEvents : {0}]

KubeViews == [ready : {"True", "Unknown"}, conditions : SUBSET {"ReadonlyFilesystem"},
              cordoned : BOOLEAN, reason : Reasons, kernelEvents : {0},
              pods : SUBSET {"worker"},
              pdbs : SUBSET {[allowed |-> 0, covers |-> {"worker"}]}]

SlurmNodes == [flags : SUBSET {"DRAIN", "DOWN", "NOT_RESPONDING"}, reason : Reasons,
               back : BOOLEAN]

SlurmViews == [flags : SUBSET {"DRAIN", "DOWN", "NOT_RESPONDING"}, reason : Reasons,
               back : BOOLEAN, pod : {TRUE}, parts : {{"batch"}},
               jobs : SUBSET {[limit |-> TRUE, burnin |-> FALSE]}]

FactNames == {"hardware", "kube_hardware", "hardware_cordon", "operator_drained",
              "cordon_drained"}

Calls == [tool : {"drain", "resume"}, target : Targets, force : BOOLEAN,
          reason : {r \in Reasons : "operator" \notin r},
          kube : {"nodes", "pods", "done"}, k : KubeNodes \cup KubeViews \cup {NoView},
          slurmd : {"nodes", "jobs", "done"}, n : SlurmNodes \cup SlurmViews \cup {NoView},
          since : SUBSET FactNames]

\* The types of the cluster, and of the count.
ClusterType ==
    /\ knode \in [ready : {"True", "Unknown"}, conditions : SUBSET {"ReadonlyFilesystem"},
                  cordoned : BOOLEAN, reason : Reasons]
    /\ pod \in {"up", "terminating", "pending"}
    /\ slurm \in SlurmNodes
    /\ job \in {"none", "running", "protected"}
    /\ disruptions \in 0..MaxDisruptions

\* The operator writes its reason over another's, and nobody writes over half
\* of the operator's.
OneAuthor == "operator" \in slurm.reason => "hardware" \notin slurm.reason

\* What a call has read by each point of its two sequences of reads.
HasRead(q) ==
    /\ q.kube = "pods" => q.k \in KubeNodes
    /\ q.kube = "done" => q.k \in KubeViews \cup {NoView}
    /\ q.slurmd = "jobs" => q.n \in SlurmNodes
    /\ q.slurmd = "done" => q.n \in SlurmViews \cup {NoView}

\* What has been true since the call began is in what it has read.
Seen(q) ==
    /\ q.kube = "pods" \/ (q.kube = "done" /\ q.k # NoView) =>
          ("kube_hardware" \in q.since => "ReadonlyFilesystem" \in q.k.conditions)
    /\ q.slurmd = "jobs" \/ (q.slurmd = "done" /\ q.n # NoView) =>
          /\ "hardware" \in q.since => "hardware" \in q.n.reason /\ "operator" \notin q.n.reason
          /\ "cordon_drained" \in q.since =>
                "operator" \in q.n.reason /\ "terminating" \notin q.n.reason

\* The calls in flight, in the cluster as it is.
CallInv ==
    /\ call \in [Callers -> Calls \cup {NoCall}]
    /\ \A c \in Callers : InFlight(c) =>
          HasRead(call[c]) /\ Seen(call[c]) /\ call[c].since \subseteq Facts

IInv == ClusterType /\ OneAuthor /\ CallInv

-------------------------------------------------------------------------------
(* Helpers *)

\* A caller's or an engineer's reason is never in the operator's words.
LEMMA GivenReasons ==
    ASSUME NEW r \in DrainReasons
    PROVE  r \in Reasons /\ "operator" \notin r /\ r \cup {"triage"} \in Reasons
  BY SlinkyAssumption DEF Reasons, Marks

\* What the facts say of the cluster.
LEMMA FactsMean ==
    /\ "hardware" \in Facts <=> "hardware" \in slurm.reason
    /\ "kube_hardware" \in Facts <=> "ReadonlyFilesystem" \in knode.conditions
    /\ "cordon_drained" \in Facts =>
          "operator" \in slurm.reason /\ "terminating" \notin slurm.reason
    /\ Facts \subseteq FactNames
  BY DEF Facts, OperatorDrained, FactNames

\* A call is in flight when it is not NoCall.
LEMMA FlightIsCall ==
    ASSUME CallInv, NEW c \in Callers
    PROVE  /\ InFlight(c) <=> call[c] # NoCall
           /\ InFlight(c) => call[c] \in Calls
  BY DEF CallInv, InFlight, Calls, NoCall

\* SetSlurm keeps the node's type and its single author.
LEMMA SetSlurmKeeps ==
    ASSUME NEW flags \in SUBSET {"DRAIN", "DOWN", "NOT_RESPONDING"}, NEW reason \in Reasons,
           "operator" \in reason => "hardware" \notin reason,
           SetSlurm(flags, reason)
    PROVE  slurm' \in SlurmNodes /\ OneAuthor'
  BY DEF SetSlurm, SlurmNodes, OneAuthor, Blank, Reasons

-------------------------------------------------------------------------------
(* The cluster *)

\* The end of a pod keeps the types of what it touches.
LEMMA TerminateKeeps ==
    ASSUME ClusterType, OneAuthor, Terminate
    PROVE  /\ knode' = knode
           /\ pod' = "terminating" /\ job' = "none"
           /\ slurm' \in SlurmNodes /\ OneAuthor'
  <1> USE DEF Terminate
  <1>1. CASE SetSlurm(slurm.flags \cup {"DOWN"}, {"operator", "terminating"})
    <2>1. slurm.flags \cup {"DOWN"} \in SUBSET {"DRAIN", "DOWN", "NOT_RESPONDING"}
      BY DEF ClusterType, SlurmNodes
    <2>2. {"operator", "terminating"} \in Reasons /\ "hardware" \notin {"operator", "terminating"}
      BY DEF Reasons, Marks
    <2> QED
      BY <1>1, <2>1, <2>2, SetSlurmKeeps
  <1>2. CASE "operator" \notin slurm.reason /\ SetSlurm(slurm.flags \cup {"DOWN"}, slurm.reason)
    <2>1. slurm.flags \cup {"DOWN"} \in SUBSET {"DRAIN", "DOWN", "NOT_RESPONDING"}
      BY DEF ClusterType, SlurmNodes
    <2>2. slurm.reason \in Reasons
      BY DEF ClusterType, SlurmNodes
    <2> QED
      BY <1>2, <2>1, <2>2, SetSlurmKeeps
  <1> QED
    BY <1>1, <1>2

\* What Slurm, the operator, Kubernetes and the engineers do.
LEMMA EnvironmentKeeps ==
    ASSUME ClusterType, OneAuthor, Environment
    PROVE  ClusterType' /\ OneAuthor'
  <1>0. MaxDisruptions \in Nat
    BY SlinkyAssumption
  <1>1. CASE SlurmdTimeout
    <2>1. slurm.flags \cup {"DOWN", "NOT_RESPONDING"} \in SUBSET {"DRAIN", "DOWN", "NOT_RESPONDING"}
      BY DEF ClusterType, SlurmNodes
    <2> DEFINE r == IF slurm.reason = Blank THEN {"not_responding"} ELSE slurm.reason
    <2>2. r \in Reasons /\ ("operator" \in r => "hardware" \notin r)
      BY DEF ClusterType, SlurmNodes, OneAuthor, Reasons, Marks
    <2>3. slurm' \in SlurmNodes /\ OneAuthor'
      BY <1>1, <2>1, <2>2, SetSlurmKeeps DEF SlurmdTimeout
    <2> QED
      BY <1>1, <2>3 DEF SlurmdTimeout, ClusterType
  <1>2. CASE JobStart
    BY <1>0, <1>2 DEF JobStart, Disrupt, ClusterType, OneAuthor
  <1>3. CASE JobEnd
    BY <1>3 DEF JobEnd, ClusterType, OneAuthor
  <1>4. CASE OperatorDrain
    <2>1. slurm.flags \cup {"DRAIN"} \in SUBSET {"DRAIN", "DOWN", "NOT_RESPONDING"}
      BY DEF ClusterType, SlurmNodes
    <2>2. {"operator"} \in Reasons /\ "hardware" \notin {"operator"}
      BY DEF Reasons, Marks
    <2>3. slurm' \in SlurmNodes /\ OneAuthor'
      BY <1>4, <2>1, <2>2, SetSlurmKeeps DEF OperatorDrain
    <2> QED
      BY <1>4, <2>3 DEF OperatorDrain, ClusterType
  <1>5. CASE OperatorUndrain
    BY <1>5 DEF OperatorUndrain, ClusterType, SlurmNodes, OneAuthor, Reasons, Blank
  <1>6. CASE OperatorProtect
    BY <1>6 DEF OperatorProtect, ClusterType, OneAuthor
  <1>7. CASE PodGone
    BY <1>7 DEF PodGone, ClusterType, OneAuthor
  <1>8. CASE PodStart
    BY <1>8 DEF PodStart, Registered, ClusterType, SlurmNodes, OneAuthor, Reasons, Blank
  <1>9. CASE TaintEvict
    BY <1>9, TerminateKeeps DEF TaintEvict, ClusterType
  <1>10. CASE KubeletStop
    BY <1>0, <1>10 DEF KubeletStop, Disrupt, ClusterType, OneAuthor
  <1>11. CASE KubeletStart
    BY <1>11 DEF KubeletStart, ClusterType, OneAuthor
  <1>12. CASE DiskFail
    BY <1>0, <1>12 DEF DiskFail, Disrupt, ClusterType, OneAuthor
  <1>13. CASE DiskRepair
    BY <1>13 DEF DiskRepair, ClusterType, OneAuthor
  <1>14. CASE KubectlCordon
    <2>1. PICK note \in {knode.reason} \cup DrainReasons :
              knode' = [knode EXCEPT !.cordoned = TRUE, !.reason = note]
      BY <1>14 DEF KubectlCordon
    <2>2. note \in Reasons
      BY GivenReasons DEF ClusterType
    <2>3. knode' \in [ready : {"True", "Unknown"}, conditions : SUBSET {"ReadonlyFilesystem"},
                      cordoned : BOOLEAN, reason : Reasons]
      BY <2>1, <2>2 DEF ClusterType
    <2>4. UNCHANGED <<pod, slurm, job>> /\ disruptions' \in 0..MaxDisruptions
      BY <1>0, <1>14 DEF KubectlCordon, Disrupt, ClusterType
    <2> QED
      BY <2>3, <2>4 DEF ClusterType, OneAuthor
  <1>15. CASE KubectlUncordon
    BY <1>15 DEF KubectlUncordon, ClusterType, OneAuthor
  <1>16. CASE KubectlDrain
    BY <1>16, TerminateKeeps DEF KubectlDrain, ClusterType
  <1>17. CASE DeletePod
    BY <1>0, <1>17, TerminateKeeps DEF DeletePod, Disrupt, ClusterType
  <1>18. CASE Scontrol
    <2>1. slurm.flags \cup {"DRAIN"} \in SUBSET {"DRAIN", "DOWN", "NOT_RESPONDING"}
      BY DEF ClusterType, SlurmNodes
    <2>2. \A r \in DrainReasons : SetSlurm(slurm.flags \cup {"DRAIN"}, r) =>
              slurm' \in SlurmNodes /\ OneAuthor'
      BY <2>1, SetSlurmKeeps, GivenReasons
    <2>3. SetSlurm({}, Blank) => slurm' \in SlurmNodes /\ OneAuthor'
      BY DEF SetSlurm, SlurmNodes, OneAuthor, Blank, Reasons
    <2>4. slurm' \in SlurmNodes /\ OneAuthor'
      BY <1>18, <2>2, <2>3 DEF Scontrol
    <2>5. UNCHANGED <<knode, pod, job>> /\ disruptions' \in 0..MaxDisruptions
      BY <1>0, <1>18 DEF Scontrol, Disrupt, ClusterType
    <2> QED
      BY <2>4, <2>5 DEF ClusterType
  <1> QED
    BY <1>1, <1>2, <1>3, <1>4, <1>5, <1>6, <1>7, <1>8, <1>9, <1>10, <1>11, <1>12, <1>13,
       <1>14, <1>15, <1>16, <1>17, <1>18 DEF Environment

-------------------------------------------------------------------------------
(* The calls *)

\* The calls are told of a step of the cluster, and have read what they had.
LEMMA NotedKeeps ==
    ASSUME CallInv, Noted
    PROVE  CallInv'
  <1>1. \A c \in Callers : ~InFlight(c) => call'[c] = call[c] /\ call[c] = NoCall
    BY FlightIsCall DEF Noted
  <1>2. ASSUME NEW c \in Callers, InFlight(c)
        PROVE  /\ call'[c] \in Calls /\ call'[c].since = call[c].since \cap Facts'
               /\ call'[c].kube = call[c].kube /\ call'[c].k = call[c].k
               /\ call'[c].slurmd = call[c].slurmd /\ call'[c].n = call[c].n
    <2>1. call[c] \in Calls
      BY <1>2, FlightIsCall
    <2>2. call'[c] = [call[c] EXCEPT !.since = @ \cap Facts']
      BY <1>2 DEF Noted, Note
    <2> QED
      BY <2>1, <2>2 DEF Calls
  <1>3. call' \in [Callers -> Calls \cup {NoCall}]
    BY <1>1, <1>2 DEF Noted
  <1>4. ASSUME NEW c \in Callers, InFlight(c)'
        PROVE  (HasRead(call[c]) /\ Seen(call[c]) /\ call[c].since \subseteq Facts)'
    <2>1. InFlight(c)
      BY <1>1, <1>4 DEF InFlight
    <2>2. HasRead(call[c]) /\ Seen(call[c])
      BY <2>1 DEF CallInv
    <2> QED
      BY <1>2, <2>1, <2>2 DEF HasRead, Seen
  <1> QED
    BY <1>3, <1>4 DEF CallInv

\* A call that returns leaves; the others are told of its write.
LEMMA ReturnKeeps ==
    ASSUME CallInv, NEW c \in Callers, Return(c)
    PROVE  CallInv'
  <1>1. \A d \in Callers : d # c /\ ~InFlight(d) => call'[d] = call[d] /\ call[d] = NoCall
    BY FlightIsCall DEF Return
  <1>2. ASSUME NEW d \in Callers, d # c, InFlight(d)
        PROVE  /\ call'[d] \in Calls /\ call'[d].since = call[d].since \cap Facts'
               /\ call'[d].kube = call[d].kube /\ call'[d].k = call[d].k
               /\ call'[d].slurmd = call[d].slurmd /\ call'[d].n = call[d].n
    <2>1. call[d] \in Calls
      BY <1>2, FlightIsCall
    <2>2. call'[d] = [call[d] EXCEPT !.since = @ \cap Facts']
      BY <1>2 DEF Return, Note
    <2> QED
      BY <2>1, <2>2 DEF Calls
  <1>3. call'[c] = NoCall
    BY DEF Return
  <1>4. call' \in [Callers -> Calls \cup {NoCall}]
    BY <1>1, <1>2, <1>3 DEF Return
  <1>5. ASSUME NEW d \in Callers, InFlight(d)'
        PROVE  (HasRead(call[d]) /\ Seen(call[d]) /\ call[d].since \subseteq Facts)'
    <2>1. d # c /\ InFlight(d)
      BY <1>1, <1>3, <1>5 DEF InFlight, NoCall
    <2>2. HasRead(call[d]) /\ Seen(call[d])
      BY <2>1 DEF CallInv
    <2> QED
      BY <1>2, <2>1, <2>2 DEF HasRead, Seen
  <1> QED
    BY <1>4, <1>5 DEF CallInv

\* One call changes in an unchanged cluster: what it becomes is all there is to
\* check.
LEMMA OneCallKeeps ==
    ASSUME CallInv, UNCHANGED cluster, NEW c \in Callers, NEW q \in Calls,
           call' = [call EXCEPT ![c] = q],
           HasRead(q), Seen(q), q.since \subseteq Facts
    PROVE  CallInv'
  <1>1. Facts' = Facts
    BY DEF Facts, OperatorDrained, cluster
  <1>2. call' \in [Callers -> Calls \cup {NoCall}]
    BY DEF CallInv
  <1>3. ASSUME NEW d \in Callers, InFlight(d)'
        PROVE  (HasRead(call[d]) /\ Seen(call[d]) /\ call[d].since \subseteq Facts)'
    <2>1. CASE d = c
      <3>1. call'[d] = q
        BY <2>1 DEF CallInv
      <3> QED
        BY <1>1, <3>1 DEF HasRead, Seen
    <2>2. CASE d # c
      <3>1. call'[d] = call[d]
        BY <2>2 DEF CallInv
      <3>2. InFlight(d)
        BY <1>3, <3>1 DEF InFlight
      <3>3. HasRead(call[d]) /\ Seen(call[d]) /\ call[d].since \subseteq Facts
        BY <3>2 DEF CallInv
      <3> QED
        BY <1>1, <3>1, <3>3 DEF HasRead, Seen
    <2> QED
      BY <2>1, <2>2
  <1> QED
    BY <1>2, <1>3 DEF CallInv

\* What the reads return has the types of what was read.
LEMMA ReadTypes ==
    ASSUME ClusterType
    PROVE  /\ KubeNode \in KubeNodes
           /\ \A k \in KubeNodes : View(k, KubePods, KubePDBs) \in KubeViews
           /\ \A n \in SlurmNodes : SlurmView(n, RunningJobs) \in SlurmViews
  BY DEF ClusterType, KubeNode, KubeNodes, View, KubeViews, KubePods, KubePDBs,
         SlurmView, SlurmNodes, SlurmViews, RunningJobs

\* A call that begins has read nothing.
LEMMA BeginKeeps ==
    ASSUME CallInv, NEW c \in Callers, NEW tool \in {"drain", "resume"}, NEW t \in Targets,
           NEW force \in BOOLEAN, NEW reason \in {r \in Reasons : "operator" \notin r},
           Begin(c, tool, t, force, reason)
    PROVE  CallInv'
  <1> DEFINE q == [tool |-> tool, target |-> t, force |-> force, reason |-> reason,
                   kube |-> "nodes", k |-> NoView, slurmd |-> "nodes", n |-> NoView,
                   since |-> Facts]
  <1>1. q \in Calls
    BY FactsMean DEF Calls
  <1>2. HasRead(q) /\ Seen(q) /\ q.since \subseteq Facts
    BY DEF HasRead, Seen
  <1>3. UNCHANGED cluster /\ call' = [call EXCEPT ![c] = q]
    BY DEF Begin
  <1> HIDE DEF q
  <1> QED
    BY <1>1, <1>2, <1>3, OneCallKeeps

\* Each read, and each failure to read, leaves a sound call.
LEMMA ReadsKeep ==
    ASSUME ClusterType, OneAuthor, CallInv, NEW c \in Callers,
           \/ ReadKubeNodes(c) \/ ReadKubePods(c) \/ KubeFails(c)
           \/ ReadSlurmNodes(c) \/ ReadSlurmJobs(c) \/ SlurmFails(c)
    PROVE  CallInv'
  <1> DEFINE q == call[c]
  <1>1. q \in Calls /\ HasRead(q) /\ Seen(q) /\ q.since \subseteq Facts
    BY FlightIsCall DEF CallInv, ReadKubeNodes, ReadKubePods, KubeFails, ReadSlurmNodes,
                        ReadSlurmJobs, SlurmFails
  <1>2. CASE ReadKubeNodes(c)
    <2> DEFINE r == [q EXCEPT !.kube = "pods", !.k = KubeNode]
    <2>1. r \in Calls
      BY <1>1, ReadTypes DEF Calls
    <2>2. HasRead(r) /\ Seen(r) /\ r.since \subseteq Facts
      BY <1>1, FactsMean, ReadTypes DEF Calls, HasRead, Seen, KubeNode
    <2>3. UNCHANGED cluster /\ call' = [call EXCEPT ![c] = r]
      BY <1>2 DEF ReadKubeNodes
    <2> HIDE DEF r, q
    <2> QED
      BY <2>1, <2>2, <2>3, OneCallKeeps
  <1>3. CASE ReadKubePods(c)
    <2> DEFINE v == View(q.k, KubePods, KubePDBs)
               r == [q EXCEPT !.kube = "done", !.k = v]
    <2>1. q.kube = "pods" /\ q.k \in KubeNodes /\ v \in KubeViews /\ v.conditions = q.k.conditions
      BY <1>1, <1>3, ReadTypes DEF ReadKubePods, HasRead, View
    <2>2. UNCHANGED cluster /\ call' = [call EXCEPT ![c] = r]
      BY <1>3 DEF ReadKubePods
    <2> HIDE DEF v
    <2>3. r \in Calls
      BY <1>1, <2>1 DEF Calls
    <2>4. HasRead(r) /\ Seen(r) /\ r.since \subseteq Facts
      BY <1>1, <2>1 DEF Calls, HasRead, Seen
    <2> HIDE DEF r, q
    <2> QED
      BY <2>2, <2>3, <2>4, OneCallKeeps
  <1>4. CASE KubeFails(c)
    <2> DEFINE r == [q EXCEPT !.kube = "done", !.k = NoView]
    <2>1. r \in Calls
      BY <1>1 DEF Calls
    <2>2. HasRead(r) /\ Seen(r) /\ r.since \subseteq Facts
      BY <1>1 DEF Calls, HasRead, Seen
    <2>3. UNCHANGED cluster /\ call' = [call EXCEPT ![c] = r]
      BY <1>4 DEF KubeFails
    <2> HIDE DEF r, q
    <2> QED
      BY <2>1, <2>2, <2>3, OneCallKeeps
  <1>5. CASE ReadSlurmNodes(c)
    <2> DEFINE r == [q EXCEPT !.slurmd = "jobs", !.n = slurm]
    <2>1. slurm \in SlurmNodes
      BY DEF ClusterType
    <2>2. r \in Calls
      BY <1>1, <2>1 DEF Calls
    <2>3. HasRead(r) /\ Seen(r) /\ r.since \subseteq Facts
      BY <1>1, <2>1, FactsMean DEF Calls, HasRead, Seen, OneAuthor
    <2>4. UNCHANGED cluster /\ call' = [call EXCEPT ![c] = r]
      BY <1>5 DEF ReadSlurmNodes
    <2> HIDE DEF r, q
    <2> QED
      BY <2>2, <2>3, <2>4, OneCallKeeps
  <1>6. CASE ReadSlurmJobs(c)
    <2> DEFINE v == SlurmView(q.n, RunningJobs)
               r == [q EXCEPT !.slurmd = "done", !.n = v]
    <2>1. q.slurmd = "jobs" /\ q.n \in SlurmNodes /\ v \in SlurmViews /\ v.reason = q.n.reason
      BY <1>1, <1>6, ReadTypes DEF ReadSlurmJobs, HasRead, SlurmView
    <2>2. UNCHANGED cluster /\ call' = [call EXCEPT ![c] = r]
      BY <1>6 DEF ReadSlurmJobs
    <2> HIDE DEF v
    <2>3. r \in Calls
      BY <1>1, <2>1 DEF Calls
    <2>4. HasRead(r) /\ Seen(r) /\ r.since \subseteq Facts
      BY <1>1, <2>1 DEF Calls, HasRead, Seen
    <2> HIDE DEF r, q
    <2> QED
      BY <2>2, <2>3, <2>4, OneCallKeeps
  <1>7. CASE SlurmFails(c)
    <2> DEFINE r == [q EXCEPT !.slurmd = "done", !.n = NoView]
    <2>1. r \in Calls
      BY <1>1 DEF Calls
    <2>2. HasRead(r) /\ Seen(r) /\ r.since \subseteq Facts
      BY <1>1 DEF Calls, HasRead, Seen
    <2>3. UNCHANGED cluster /\ call' = [call EXCEPT ![c] = r]
      BY <1>7 DEF SlurmFails
    <2> HIDE DEF r, q
    <2> QED
      BY <2>1, <2>2, <2>3, OneCallKeeps
  <1> QED
    BY <1>2, <1>3, <1>4, <1>5, <1>6, <1>7

\* What the write tools write, and what they leave alone.
LEMMA WriteKeeps ==
    ASSUME ClusterType, OneAuthor, NEW target, NEW drain \in BOOLEAN,
           NEW reason \in Reasons, "operator" \notin reason,
           Write(target, drain, reason), UNCHANGED disruptions
    PROVE  ClusterType' /\ OneAuthor'
  <1>1. CASE Patch(drain, reason)
    BY <1>1 DEF Patch, ClusterType, OneAuthor
  <1>2. CASE Update(drain, reason)
    <2> DEFINE flags == IF drain THEN slurm.flags \cup {"DRAIN"} ELSE {}
    <2>1. flags \in SUBSET {"DRAIN", "DOWN", "NOT_RESPONDING"}
      BY DEF ClusterType, SlurmNodes
    <2>2. SetSlurm(flags, reason) /\ UNCHANGED <<knode, pod, job>>
      BY <1>2 DEF Update
    <2> HIDE DEF flags
    <2>3. slurm' \in SlurmNodes /\ OneAuthor'
      BY <2>1, <2>2, SetSlurmKeeps
    <2> QED
      BY <2>2, <2>3 DEF ClusterType
  <1> QED
    BY <1>1, <1>2 DEF Write

\* What is left alone keeps its type.
LEMMA ClusterUnchanged ==
    ASSUME ClusterType, OneAuthor, UNCHANGED cluster, disruptions' \in 0..MaxDisruptions
    PROVE  ClusterType' /\ OneAuthor'
  BY DEF ClusterType, OneAuthor, cluster

\* Every step of a tool call.
LEMMA ToolsKeep ==
    ASSUME IInv, Tools
    PROVE  IInv'
  <1> USE DEF IInv
  <1>1. PICK c \in Callers :
            \/ \E t \in Targets, r \in DrainReasons : Begin(c, "drain", t, FALSE, r)
            \/ \E t \in Targets, f \in BOOLEAN : Begin(c, "resume", t, f, Blank)
            \/ ReadKubeNodes(c) \/ ReadKubePods(c) \/ KubeFails(c)
            \/ ReadSlurmNodes(c) \/ ReadSlurmJobs(c) \/ SlurmFails(c)
            \/ DrainNode(c) \/ ResumeNode(c) \/ AnswerOnly(c)
    BY DEF Tools
  <1>2. ASSUME NEW t \in Targets, NEW r \in DrainReasons, Begin(c, "drain", t, FALSE, r)
        PROVE  IInv'
    <2>1. UNCHANGED cluster /\ disruptions' \in 0..MaxDisruptions
      BY <1>2, SlinkyAssumption DEF Begin, Disrupt, ClusterType
    <2>2. CallInv'
      BY <1>2, BeginKeeps, GivenReasons
    <2> QED
      BY <2>1, <2>2, ClusterUnchanged
  <1>3. ASSUME NEW t \in Targets, NEW f \in BOOLEAN, Begin(c, "resume", t, f, Blank)
        PROVE  IInv'
    <2>1. UNCHANGED cluster /\ disruptions' \in 0..MaxDisruptions
      BY <1>3, SlinkyAssumption DEF Begin, Disrupt, ClusterType
    <2>2. Blank \in Reasons /\ "operator" \notin Blank
      BY DEF Reasons, Blank
    <2>3. CallInv'
      BY <1>3, <2>2, BeginKeeps
    <2> QED
      BY <2>1, <2>3, ClusterUnchanged
  <1>4. CASE \/ ReadKubeNodes(c) \/ ReadKubePods(c) \/ KubeFails(c)
             \/ ReadSlurmNodes(c) \/ ReadSlurmJobs(c) \/ SlurmFails(c)
    <2>1. UNCHANGED <<cluster, disruptions>>
      BY <1>4 DEF ReadKubeNodes, ReadKubePods, KubeFails, ReadSlurmNodes, ReadSlurmJobs, SlurmFails
    <2>2. ClusterType' /\ OneAuthor'
      BY <2>1, ClusterUnchanged DEF ClusterType
    <2> QED
      BY <1>4, <2>2, ReadsKeep
  <1>5. CASE DrainNode(c)
    <2>1. Return(c) /\ UNCHANGED disruptions
      BY <1>5 DEF DrainNode, Return
    <2>2. call[c] \in Calls
      BY <1>5, FlightIsCall DEF DrainNode, SnapshotReady
    <2> DEFINE reason == call[c].reason \cup {"triage"}
    <2>3. reason \in Reasons /\ "operator" \notin reason
      BY <2>2 DEF Calls, Reasons, Marks
    <2>4. UNCHANGED cluster \/ Write(call[c].target, TRUE, reason)
      BY <1>5 DEF DrainNode
    <2> HIDE DEF reason
    <2>5. ClusterType' /\ OneAuthor'
      BY <2>1, <2>3, <2>4, WriteKeeps, ClusterUnchanged DEF ClusterType
    <2> QED
      BY <2>1, <2>5, ReturnKeeps
  <1>6. CASE ResumeNode(c)
    <2>1. Return(c) /\ UNCHANGED disruptions /\ Write(call[c].target, FALSE, Blank)
      BY <1>6 DEF ResumeNode, Return
    <2>2. Blank \in Reasons /\ "operator" \notin Blank
      BY DEF Reasons, Blank
    <2>3. ClusterType' /\ OneAuthor'
      BY <2>1, <2>2, WriteKeeps
    <2> QED
      BY <2>1, <2>3, ReturnKeeps
  <1>7. CASE AnswerOnly(c)
    <2>1. Return(c) /\ UNCHANGED <<cluster, disruptions>>
      BY <1>7 DEF AnswerOnly, Return
    <2>2. ClusterType' /\ OneAuthor'
      BY <2>1, ClusterUnchanged DEF ClusterType
    <2> QED
      BY <2>1, <2>2, ReturnKeeps
  <1> QED
    BY <1>1, <1>2, <1>3, <1>4, <1>5, <1>6, <1>7

-------------------------------------------------------------------------------
(* The invariant *)

\* A green cluster without calls.
LEMMA InitIInv == Init => IInv
  <1> SUFFICES ASSUME Init PROVE IInv
    OBVIOUS
  <1>1. ClusterType /\ OneAuthor
    BY SlinkyAssumption DEF Init, ClusterType, SlurmNodes, OneAuthor, Reasons, Blank
  <1>2. CallInv
    BY DEF Init, CallInv, InFlight, NoCall
  <1> QED
    BY <1>1, <1>2 DEF IInv

\* Every step keeps it.
LEMMA StepIInv == IInv /\ [Next]_vars => IInv'
  <1> SUFFICES ASSUME IInv, [Next]_vars PROVE IInv'
    OBVIOUS
  <1>1. CASE Environment /\ Noted
    BY <1>1, EnvironmentKeeps, NotedKeeps DEF IInv
  <1>2. CASE Tools
    BY <1>2, ToolsKeep
  <1>3. CASE UNCHANGED vars
    <2>1. Facts' = Facts /\ UNCHANGED call
      BY <1>3 DEF Facts, OperatorDrained, vars
    <2>2. CallInv'
      BY <2>1 DEF IInv, CallInv, InFlight, HasRead, Seen
    <2> QED
      BY <1>3, <2>2 DEF IInv, ClusterType, OneAuthor, vars
  <1> QED
    BY <1>1, <1>2, <1>3 DEF Next

\* The inductive invariant holds always.
THEOREM Inductive == Spec => []IInv
  BY InitIInv, StepIInv, PTL DEF Spec

-------------------------------------------------------------------------------
(* The properties *)

\* The variables stay in their types, and a snapshot that is ready holds whole
\* views or none.
THEOREM TypeCorrect == Spec => []TypeOK
  <1>1. IInv => TypeOK
    <2> SUFFICES ASSUME IInv PROVE TypeOK
      OBVIOUS
    <2>1. ASSUME NEW c \in Callers, SnapshotReady(c)
          PROVE  /\ call[c].k # NoView => DOMAIN call[c].k = DOMAIN View(KubeNode, {}, {})
                 /\ call[c].n # NoView => DOMAIN call[c].n = DOMAIN SlurmView(slurm, {})
      <3>1. HasRead(call[c])
        BY <2>1 DEF IInv, CallInv, SnapshotReady
      <3>2. /\ call[c].k # NoView => call[c].k \in KubeViews
            /\ call[c].n # NoView => call[c].n \in SlurmViews
        BY <2>1, <3>1 DEF HasRead, SnapshotReady
      <3> QED
        BY <3>2 DEF KubeViews, SlurmViews, View, SlurmView
    <2> QED
      BY <2>1 DEF TypeOK, IInv, ClusterType, SlurmNodes
  <1> QED
    BY <1>1, Inductive, PTL

\* Advice to resume a node is advice that resume_node takes.
THEOREM ResumeAdviceTaken == Spec => []ResumeAdviceAccepted
  <1>1. ResumeAdviceAccepted
    BY KubeResumeAccepted, SlurmResumeAccepted DEF ResumeAdviceAccepted, KubeAdvice, SlurmAdvice
  <1> QED
    BY <1>1, PTL

\* What a ready snapshot shows of a fact that has held since the call began.
LEMMA ReadyShows ==
    ASSUME IInv, NEW c \in Callers, ResumeNode(c)
    PROVE  /\ call[c].target = "kube" /\ "kube_hardware" \in call[c].since =>
                 "ReadonlyFilesystem" \in call[c].k.conditions
           /\ call[c].target = "slurm" =>
                 /\ call[c].n.pod = TRUE
                 /\ "hardware" \in call[c].since =>
                       "hardware" \in call[c].n.reason /\ "operator" \notin call[c].n.reason
                 /\ "cordon_drained" \in call[c].since =>
                       "operator" \in call[c].n.reason /\ "terminating" \notin call[c].n.reason
  <1>1. /\ InFlight(c) /\ call[c].kube = "done" /\ call[c].slurmd = "done"
        /\ call[c].target = "kube" => call[c].k # NoView
        /\ call[c].target # "kube" => call[c].n # NoView
    BY DEF ResumeNode, Resumes, Located, SnapshotReady
  <1>2. Seen(call[c]) /\ HasRead(call[c])
    BY <1>1 DEF IInv, CallInv
  <1>3. call[c].target = "slurm" => call[c].n \in SlurmViews
    BY <1>1, <1>2 DEF HasRead
  <1> QED
    BY <1>1, <1>2, <1>3 DEF Seen, SlurmViews

\* A node whose reason or whose conditions have said hardware since an unforced
\* resume began is not resumed, whatever happened between its reads and its write.
THEOREM HardwareIsHeld == Spec => HardwareHeld
  <1>1. ASSUME IInv, NEW c \in Callers, ResumeNode(c), ~call[c].force
        PROVE  IF call[c].target = "kube" THEN "kube_hardware" \notin call[c].since
               ELSE "hardware" \notin call[c].since
    <2>1. ResumeVerdict(Advice(c), FALSE) = "done" /\ call[c] \in Calls
      BY <1>1, FlightIsCall DEF ResumeNode, Resumes, SnapshotReady, IInv, Calls
    <2>2. CASE call[c].target = "kube"
      <3>1. ResumeVerdict(AssessKube(call[c].k), FALSE) = "done"
        BY <2>1, <2>2 DEF Advice
      <3> QED
        BY <1>1, <2>2, <3>1, ReadyShows, ReadonlyRefused
    <2>3. CASE call[c].target = "slurm"
      <3>1. ResumeVerdict(AssessSlurm(call[c].n, call[c].k, NoHistory), FALSE) = "done"
        BY <2>1, <2>3 DEF Advice
      <3> QED
        BY <1>1, <2>3, <3>1, ReadyShows, HardwareRefused
    <2> QED
      BY <2>1, <2>2, <2>3 DEF Calls, Targets
  <1>2. IInv => (\A c \in Callers : ResumeNode(c) /\ ~call[c].force =>
                    IF call[c].target = "kube" THEN "kube_hardware" \notin call[c].since
                    ELSE "hardware" \notin call[c].since)
    BY <1>1
  <1> QED
    BY <1>2, Inductive, PTL DEF HardwareHeld

\* A Slurm node that the operator has kept drained since a resume began is not
\* resumed, forced or not.
THEOREM CordonDrainIsHeld == Spec => CordonDrainHeld
  <1>1. ASSUME IInv, NEW c \in Callers, ResumeNode(c), call[c].target = "slurm"
        PROVE  "cordon_drained" \notin call[c].since
    <2>1. ResumeVerdict(AssessSlurm(call[c].n, call[c].k, NoHistory), call[c].force) = "done"
      BY <1>1 DEF ResumeNode, Resumes, Advice
    <2> QED
      BY <1>1, <2>1, ReadyShows, ManagedRefused
  <1>2. IInv => (\A c \in Callers : ResumeNode(c) /\ call[c].target = "slurm" =>
                    "cordon_drained" \notin call[c].since)
    BY <1>1
  <1> QED
    BY <1>2, Inductive, PTL DEF CordonDrainHeld

===============================================================================
