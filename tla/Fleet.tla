--------------------------------- MODULE Fleet ---------------------------------
(***************************************************************************)
(* node-triage over several clusters: which sources the command sets up    *)
(* (cmd/node-triage), what the tools answer from a snapshot of them, and   *)
(* drain_node and resume_node up to the reply (server.go), with what the   *)
(* clients make of the answers they get (rest.go, kube.go, slurm.go).      *)
(*                                                                         *)
(* Sources fail and return, nodes, pods and jobs change between the        *)
(* snapshot a write decides on and the write.  A snapshot is taken in one  *)
(* step here; module Snapshot has its reads.  A node name has one owner.   *)
(***************************************************************************)
EXTENDS TriageRules, KubeObjects, HostList

CONSTANTS
    ClassicNodes, SlinkyNodes, KubeNodes,   \* the host names of each source
    HostOf,          \* the Kubernetes node under each Slinky node
    StartFlags,      \* the command lines
    Pods, PDBs,      \* the pods and budgets there may be
    StartPods,       \* the pods at first
    JobHosts,        \* the sets of Slurm nodes a job may run on
    MaxEvents        \* bound: changes of the world and write calls

SlurmNodes == ClassicNodes \cup SlinkyNodes
ASSUME UniqueNames ==
    ClassicNodes \cap SlinkyNodes = {} /\ SlurmNodes \cap KubeNodes = {}
ASSUME FiniteAssumption == IsFiniteSet(SlurmNodes \cup KubeNodes)
\* Jobs run on Slurm nodes, whose numbers Decimal can write.
ASSUME HostAssumption == SlurmNodes \subseteq HostNames /\ JobHosts \subseteq SUBSET SlurmNodes
ASSUME PodAssumption == StartPods \subseteq Pods

\* The budgets: a selector is the set of its matchLabels, at most one function.
Selectors == UNION {b.selector : b \in PDBs}
BudgetObjects == [name : STRING, ns : STRING, selector : SUBSET Selectors, exprs : BOOLEAN, allowed : 0..1]
ASSUME BudgetAssumption == PDBs \subseteq BudgetObjects

Sources == {"classic", "slinky", "kubernetes"}

VARIABLES
    setup,    \* what main made of its flags
    up,       \* the sources, and slurmdbd, that answer
    slurm,    \* [flags, reason] of each Slurm node
    knode,    \* [ready, conditions, cordoned, reason] of each Kubernetes node
    pods, pdbs, kevents,
    jobs,     \* the running jobs, each the set of its nodes
    call,     \* the write call between its decision and its write
    reply,    \* the last write call's reply, and what became of it
    events

world == <<up, slurm, knode, pods, pdbs, kevents, jobs>>
vars  == <<setup, world, call, reply, events>>

-------------------------------------------------------------------------------
(* main: the sources and whether they are live or replayed fixtures. *)

\* The setup of a command line f and of the credentials it finds: [noSlurm,
\* fixtures, kubeFix, kubeDir, slinkyFix, slinkyDir, adminToken, allowWrites,
\* clusterName].
Setup(f) ==
    [kind |-> [classic |-> IF f.noSlurm THEN "absent"
                           ELSE IF f.fixtures THEN "replay" ELSE "live",
               kubernetes |-> IF f.kubeFix THEN "replay"
                              ELSE IF f.kubeDir THEN "live" ELSE "absent",
               slinky |-> IF f.slinkyFix THEN "replay"
                          ELSE IF f.slinkyDir THEN "live" ELSE "absent"],
     admin |-> f.adminToken /\ ~f.slinkyFix /\ f.slinkyDir,
     writes |-> f.allowWrites, name |-> f.clusterName]

Has(src) == setup.kind[src] # "absent"

-------------------------------------------------------------------------------
(* The snapshot: what can be read now. *)

\* slurmSources: the clusters' names in order, and the source of each.  It keeps
\* the sources by name: a classic cluster that is called slinky too is read from
\* Slinky.
ClusterLabels == (IF Has("classic") THEN <<setup.name>> ELSE <<>>)
                 \o (IF Has("slinky") THEN <<"slinky">> ELSE <<>>)

\* Mutant: every cluster is the classic one.
ClassicOf(label) == IF Has("classic") THEN "classic" ELSE "slinky"

SourceOf(label) == IF label = "slinky" /\ Has("slinky") THEN "slinky" ELSE "classic"

\* The clusters that were read, in the same order.
Order == LET read(src, label) == IF Has(src) /\ SourceOf(label) \in up THEN <<label>> ELSE <<>>
         IN  read("classic", setup.name) \o read("slinky", "slinky")
KubeRead == Has("kubernetes") /\ "kubernetes" \in up
NodesOf(label) == IF SourceOf(label) = "classic" THEN ClassicNodes ELSE SlinkyNodes

\* schedulerComponent
Scheduler(label) == IF label = "slinky" THEN "slurmrestd" ELSE "slurmctld"

\* The sources that could not be read.  Slinky has no accounting to read.
Unavailable ==
    LET down(label) ==
            IF SourceOf(label) \notin up
            THEN <<[cluster |-> label, component |-> Scheduler(label)]>>
            ELSE IF SourceOf(label) = "classic" /\ "slurmdbd" \notin up
            THEN <<[cluster |-> label, component |-> "slurmdbd"]>> ELSE <<>>
    IN  (IF Has("kubernetes") /\ ~KubeRead
         THEN <<[cluster |-> "kubernetes", component |-> "kube-apiserver"]>> ELSE <<>>)
        \o FlattenSeq([i \in DOMAIN ClusterLabels |-> down(ClusterLabels[i])])

\* The jobs a Slurm view shows on a node: slurmctld writes each job's nodes as a
\* host list, RunsOn expands it.
JobsOn(n) == {hosts \in jobs : Names(HostListOf(hosts), n)}

ViewOf(k) == IF KubeRead THEN KubeView(k, knode[k], pods, pdbs, kevents) ELSE NoView

SlurmAdvice(n) ==
    AssessSlurm([flags |-> slurm[n].flags, reason |-> slurm[n].reason,
                 pod |-> n \in SlinkyNodes, back |-> FALSE, parts |-> {"batch"},
                 jobs |-> {[limit |-> TRUE, burnin |-> FALSE, on |-> hosts] : hosts \in JobsOn(n)}],
                IF n \in SlinkyNodes THEN ViewOf(HostOf[n]) ELSE NoView,
                [read |-> n \in SlinkyNodes \/ "slurmdbd" \in up,
                 chronic |-> FALSE, eats |-> FALSE, burnin |-> "none"])

\* Mutant: a node that is not in a Slurm cluster needs all of them read.
LocateStrictly(n) ==
    LET hits == {i \in DOMAIN Order : n \in NodesOf(Order[i])}
    IN  IF hits # {} THEN [scheduler |-> "slurm", cluster |-> Order[CHOOSE i \in hits : \A j \in hits : i <= j]]
        ELSE IF KubeRead /\ n \in KubeNodes /\ Unavailable = <<>>
        THEN [scheduler |-> "kubernetes", cluster |-> "kubernetes"]
        ELSE [scheduler |-> "none", cluster |-> "none"]

\* locate: the first Slurm cluster that has the name, then Kubernetes.
Locate(n) ==
    LET hits == {i \in DOMAIN Order : n \in NodesOf(Order[i])}
    IN  IF hits # {} THEN [scheduler |-> "slurm", cluster |-> Order[CHOOSE i \in hits : \A j \in hits : i <= j]]
        ELSE IF KubeRead /\ n \in KubeNodes
        THEN [scheduler |-> "kubernetes", cluster |-> "kubernetes"]
        ELSE [scheduler |-> "none", cluster |-> "none"]

\* assess, and triageNode
Assess(n) == IF Locate(n).scheduler = "slurm" THEN SlurmAdvice(n)
             ELSE AssessKube(ViewOf(n))

-------------------------------------------------------------------------------
(* The read tools. *)

Rank(severity) == CASE severity = "critical" -> 2 [] severity = "warning" -> 1 [] OTHER -> 0

\* list_nodes
ListNodes ==
    FlattenSeq([i \in DOMAIN Order |->
                   SetToSeq({[node |-> n, cluster |-> Order[i]] : n \in NodesOf(Order[i])})])
    \o SetToSeq({[node |-> k, cluster |-> "kubernetes"] : k \in IF KubeRead THEN KubeNodes ELSE {}})

\* slurmControlPlaneNode: the nodes it may find, the API lists pods in any
\* order.  It assesses them under the default policy.
DefaultKubeEvents == 3

ControlPlane(p) == p.labels.component \in {"controller", "restapi"} /\ p.labels.part = "slurm"

\* Mutant: any node with a control-plane pod.
AnyControlPlaneNode ==
    IF ~KubeRead THEN {} ELSE {k \in KubeNodes : \E p \in pods : p.node = k /\ ControlPlane(p)}

ControlPlaneNodes ==
    IF ~KubeRead THEN {}
    ELSE {k \in KubeNodes :
             /\ \E p \in pods : p.node = k /\ ControlPlane(p)
             /\ NodeFault(AssessKubeBy(DefaultKubeEvents, ViewOf(k)).category)}

\* ComponentUnavailable.  Its text blames a node of blames, when there is one.
ComponentUnavailable(u) ==
    [node |-> [prefix |-> u.component, digits |-> <<>>, suffix |-> ""], cluster |-> u.cluster,
     rec |-> IF u.component = "slurmdbd" THEN Rec("investigate", "warning", "accounting")
             ELSE Rec("investigate", "critical", "control_plane"),
     blames |-> IF u.component = "slurmrestd" THEN ControlPlaneNodes ELSE {}]

\* AssessAll of each cluster and AssessKubeAll.
NodeRecs ==
    LET rec(n) == IF n \in KubeNodes THEN AssessKube(ViewOf(n)) ELSE SlurmAdvice(n)
        listed == ListNodes
    IN  [i \in DOMAIN listed |-> [node |-> listed[i].node, cluster |-> listed[i].cluster,
                                  rec |-> rec(listed[i].node), blames |-> {}]]

\* unavailableRecommendations
UnavailableRecs ==
    LET down == Unavailable IN [i \in DOMAIN down |-> ComponentUnavailable(down[i])]

\* The recommendations that are in kept, in their order.
Among(recs, kept) == FoldLeft(LAMBDA acc, r : IF r \in kept THEN Append(acc, r) ELSE acc, <<>>, recs)

\* SortRecommendations; the order within a severity is left out.
Ranked(recs) ==
    LET ofRank(rank) == Among(recs, {r \in ToSet(recs) : Rank(r.rec.severity) = rank})
    IN  ofRank(2) \o ofRank(1) \o ofRank(0)

\* Mutant: the components are put after the ranked nodes.
AppendedUnranked == Ranked(NodeRecs) \o UnavailableRecs

AllRanked == Ranked(NodeRecs \o UnavailableRecs)

\* triage_cluster
TriageCluster(includeHealthy) ==
    LET all     == AllRanked
        healthy == {r \in ToSet(all) : r.rec.action = "none"}
    IN  [total   |-> Len(ListNodes),
         healthy |-> Len(Among(all, healthy)),
         recs    |-> IF includeHealthy THEN all ELSE Among(all, ToSet(all) \ healthy)]

\* Mutant: the budgets that would let a pod go.
OpenBudgets(k) == {b \in pdbs : b.allowed > 0 /\ \E p \in WorkloadPods(pods, k) : Covers(b, p)}

\* kubeDetail: the budgets that cover a workload pod of the node.
Budgets(k) == {b \in pdbs : \E p \in WorkloadPods(pods, k) : Covers(b, p)}

\* node_detail: slurmDetail or kubeDetail.  Past jobs and accounting events are
\* left out, wording too.  It lists every job in the queue that names the node,
\* here the running ones.
NodeDetail(n) ==
    IF Locate(n).scheduler = "slurm"
    THEN [state |-> slurm[n].flags, reason |-> slurm[n].reason, running |-> JobsOn(n)]
    ELSE [state |-> knode[n].conditions \cup {knode[n].ready}
                    \cup (IF knode[n].cordoned THEN {"cordoned"} ELSE {}),
          reason |-> knode[n].reason, pods |-> WorkloadPods(pods, n), pdbs |-> Budgets(n),
          events |-> {e \in kevents : e.node = n}]

-------------------------------------------------------------------------------
(* The clients: did the write succeed, given what came back?  An answer is   *)
(* [sent, ok, errors]: ok is exit status 0, or an HTTP status of 2xx.        *)

Answers == [ok : BOOLEAN, errors : BOOLEAN]

\* Mutant: the status alone decides.
UpdateByStatus(a) == setup.admin /\ a.ok

\* RESTClient.update and do: slurmrestd reports errors in the body, also with 200.
UpdateSucceeds(a) == setup.admin /\ ~a.errors /\ a.ok

\* Client.Drain, Client.Resume; kube.Client.SetUnschedulable.
CommandSucceeds(a) == a.ok
PatchSucceeds(a) == a.ok

\* Mutant: an uncordon leaves the annotation alone.
CordonPatchOnly(n, unschedulable, reason) ==
    [n EXCEPT !.cordoned = unschedulable, !.reason = IF unschedulable THEN reason ELSE @]

\* cordonPatch: the reason is deleted with the cordon.
CordonPatch(n, unschedulable, reason) ==
    [n EXCEPT !.cordoned = unschedulable, !.reason = IF unschedulable THEN reason ELSE Blank]

Succeeds(src, a) ==
    CASE setup.kind[src] = "replay" -> TRUE   \* recorded
      [] src = "classic"            -> CommandSucceeds(a)
      [] src = "slinky"             -> UpdateSucceeds(a)
      [] src = "kubernetes"         -> PatchSucceeds(a)

\* Whether the source may have carried the write out when it answers a.  What
\* answers a success has; one that is down has not.
MayApply(src, a) ==
    IF setup.kind[src] = "replay" \/ src \notin up \/ (src = "slinky" /\ ~setup.admin)
    THEN {FALSE}
    ELSE IF a.ok /\ (src = "slinky" => ~a.errors) THEN {TRUE} ELSE BOOLEAN

\* A source that is down answers nothing; only slurmrestd's body has errors.
MayAnswer(src) == {a \in Answers : (src \notin up => ~a.ok /\ ~a.errors)
                                   /\ (src # "slinky" => ~a.errors)}

-------------------------------------------------------------------------------
(* The world *)

Fine == [ready |-> "True", conditions |-> {}, cordoned |-> FALSE, reason |-> Blank]
InService == [flags |-> {}, reason |-> Blank]

SlurmStates == {InService,
                [flags |-> {"DRAIN"}, reason |-> {"nhc"}],
                [flags |-> {"DRAIN"}, reason |-> {"hardware"}]}
KubeStates == {Fine,
               [Fine EXCEPT !.cordoned = TRUE, !.reason = {"maint"}],
               [Fine EXCEPT !.conditions = {"ReadonlyFilesystem"}],
               [Fine EXCEPT !.ready = "Unknown"]}

NoCall  == [tool |-> "none"]
NoReply == [tool |-> "none", done |-> FALSE]

Init ==
    /\ setup \in {Setup(f) : f \in StartFlags}
    /\ \E src \in Sources : Has(src)    \* main exits: nothing to triage
    /\ up = Sources \cup {"slurmdbd"}
    /\ slurm = [n \in SlurmNodes |-> InService]
    /\ knode = [k \in KubeNodes |-> Fine]
    /\ pods = StartPods /\ pdbs = PDBs /\ kevents = {} /\ jobs = {}
    /\ call = NoCall /\ reply = NoReply /\ events = 0

Happens == events < MaxEvents /\ events' = events + 1 /\ UNCHANGED <<setup, call, reply>>

SourceFails == /\ Happens /\ \E src \in up : up' = up \ {src}
               /\ UNCHANGED <<slurm, knode, pods, pdbs, kevents, jobs>>

SourceReturns == /\ Happens /\ \E src \in Sources \cup {"slurmdbd"} : src \notin up /\ up' = up \cup {src}
                 /\ UNCHANGED <<slurm, knode, pods, pdbs, kevents, jobs>>

SlurmChanges == /\ Happens /\ \E n \in SlurmNodes, s \in SlurmStates : slurm' = [slurm EXCEPT ![n] = s]
                /\ UNCHANGED <<up, knode, pods, pdbs, kevents, jobs>>

KubeChanges == /\ Happens /\ \E k \in KubeNodes, s \in KubeStates : knode' = [knode EXCEPT ![k] = s]
               /\ UNCHANGED <<up, slurm, pods, pdbs, kevents, jobs>>

\* A pod comes or goes.
PodsChange == /\ Happens
              /\ \E p \in Pods : pods' = (pods \ {p}) \cup ({p} \ pods)
              /\ UNCHANGED <<up, slurm, knode, pdbs, kevents, jobs>>

\* A budget comes to allow a disruption, or none any more.
BudgetChanges == /\ Happens
                 /\ \E b \in pdbs : pdbs' = (pdbs \ {b}) \cup {[b EXCEPT !.allowed = 1 - @]}
                 /\ UNCHANGED <<up, slurm, knode, pods, kevents, jobs>>

\* node-problem-detector has seen a kernel warning, one time or several.
KernelWarns == /\ Happens
               /\ \E k \in KubeNodes, c \in {0, 3} :
                     kevents' = kevents \cup {[node |-> k, type |-> "Warning", reason |-> "TaskHung", count |-> c]}
               /\ UNCHANGED <<up, slurm, knode, pods, pdbs, jobs>>

JobsChange == /\ Happens
              /\ \E h \in JobHosts : jobs' = (jobs \ {h}) \cup ({h} \ jobs)
              /\ UNCHANGED <<up, slurm, knode, pods, pdbs, kevents>>

-------------------------------------------------------------------------------
(* The write tools. *)

\* drainNode and resumeNode up to their write.
Decide(tool, n, force) ==
    /\ setup.writes /\ call = NoCall
    /\ events < MaxEvents /\ events' = events + 1
    /\ LET loc == Locate(n)
           src == IF loc.scheduler = "kubernetes" THEN "kubernetes" ELSE SourceOf(loc.cluster)
       IN  IF \/ loc.scheduler = "none"
              \/ tool = "resume_node" /\ ResumeVerdict(Assess(n), force) = "refused"
           THEN /\ reply' = [tool |-> tool, done |-> FALSE]
                /\ UNCHANGED call
           ELSE /\ call' = [tool |-> tool, node |-> n, src |-> src]
                /\ reply' = NoReply
    /\ UNCHANGED <<setup, world>>

Write ==
    /\ call # NoCall
    /\ \E a \in MayAnswer(call.src) : \E applied \in MayApply(call.src, a) :
        LET n == call.node  drain == call.tool = "drain_node"
        IN  /\ reply' = [tool |-> call.tool, node |-> n, src |-> call.src, applied |-> applied,
                         done |-> Succeeds(call.src, a)]
            /\ slurm' = IF ~applied \/ call.src = "kubernetes" THEN slurm
                        ELSE [slurm EXCEPT ![n] =
                              IF drain THEN [flags |-> @.flags \cup {"DRAIN"}, reason |-> {"triage", "words"}]
                              ELSE InService]
            /\ knode' = IF ~applied \/ call.src # "kubernetes" THEN knode
                        ELSE [knode EXCEPT ![n] = CordonPatch(@, drain, {"triage", "words"})]
    /\ call' = NoCall
    /\ UNCHANGED <<setup, up, pods, pdbs, kevents, jobs, events>>

World == SourceFails \/ SourceReturns \/ SlurmChanges \/ KubeChanges \/ PodsChange
         \/ BudgetChanges \/ KernelWarns \/ JobsChange

Next ==
    \/ World
    \/ \E n \in SlurmNodes \cup KubeNodes :
          Decide("drain_node", n, FALSE) \/ \E force \in BOOLEAN : Decide("resume_node", n, force)
    \/ Write

Spec == Init /\ [][Next]_vars

-------------------------------------------------------------------------------
(* Properties *)

\* The variables stay in their types.
TypeOK ==
    /\ setup.kind \in [Sources -> {"absent", "live", "replay"}]
    /\ up \subseteq Sources \cup {"slurmdbd"}
    /\ DOMAIN slurm = SlurmNodes /\ \A n \in SlurmNodes : slurm[n].reason \in SUBSET Marks
    /\ \A k \in KubeNodes : /\ knode[k].reason \in SUBSET Marks
                            /\ ~knode[k].cordoned => knode[k].reason = Blank
    /\ pods \subseteq Pods
    /\ call # NoCall => call.node \in SlurmNodes \cup KubeNodes /\ Has(call.src)

OwnerOf(n) == IF n \in ClassicNodes THEN "classic"
              ELSE IF n \in SlinkyNodes THEN "slinky" ELSE "kubernetes"

\* snapshot "reads every configured source"; "A source that fails is reported in
\* unavailable; the others are still triaged" (server.go:258-260): whatever fails,
\* every node of a configured source is listed exactly once, or its source is
\* reported.  It holds when the classic cluster is not called slinky.
NoNodeLost ==
    \A n \in SlurmNodes \cup KubeNodes : Has(OwnerOf(n)) =>
        LET all     == ListNodes
            listed  == {i \in DOMAIN all : all[i].node = n}
            reports == {u \in ToSet(Unavailable) : u.component \in
                           CASE OwnerOf(n) = "classic" -> {"slurmctld"}
                             [] OwnerOf(n) = "slinky"  -> {"slurmrestd"}
                             [] OTHER                  -> {"kube-apiserver"}}
        IN  Cardinality(listed) = IF reports = {} THEN 1 ELSE 0

\* list_nodes, triage_node and triage_cluster tell one story: a node that list_nodes
\* lists or triage_cluster assesses can be asked about by name, in the same cluster
\* and with the same recommendation, whatever else is unreachable.
AnswersAgree ==
    /\ \A entry \in ToSet(ListNodes) : Locate(entry.node).cluster = entry.cluster
    /\ \A assessed \in {ToSet(NodeRecs)}, n \in SlurmNodes \cup KubeNodes :
          Locate(n).scheduler # "none" =>
              \E r \in assessed : /\ r.node = n
                                  /\ r.cluster = Locate(n).cluster
                                  /\ r.rec = Assess(n)

\* ComponentUnavailable "goes in the same ranked list as node problems"
\* (unavailable.go:8): a component that is down is never ranked below something
\* less severe, and never counted as a node; and no recommendation is lost on the
\* way into the ranked list.
RankedAndCounted ==
    \A includeHealthy \in BOOLEAN : \A t \in {TriageCluster(includeHealthy)} :
        LET trouble == {i \in DOMAIN t.recs : t.recs[i].rec.action # "none"}
        IN  /\ \A i, j \in DOMAIN t.recs :
                  i < j => Rank(t.recs[i].rec.severity) >= Rank(t.recs[j].rec.severity)
            /\ t.total = t.healthy + Cardinality(trouble) - Len(Unavailable)
            /\ includeHealthy => ToSet(t.recs) = ToSet(NodeRecs) \cup ToSet(UnavailableRecs)

\* ComponentUnavailable says "which node the Slurm control-plane pods run on, and
\* whether that node is the real problem" (unavailable.go:14): a node it tells the
\* reader to fix first is one triage_node has something to say about.
BlameIsShared ==
    \A u \in ToSet(Unavailable) : \A k \in ComponentUnavailable(u).blames :
        Assess(k).action # "none"

\* "triage never claims a PDB blocks a drain unless it can show it"
\* (kube.go:180): when a cordoned node is to be investigated because its drain is
\* blocked, Kubernetes does refuse to evict one of its pods.
BlockedDrainIsRefused ==
    \A k \in KubeNodes : KubeRead /\ knode[k].cordoned =>
        (BlockingPDBs(ViewOf(k)) # {} =>
            \E p \in pods : p.node = k /\ Workload(p) /\ EvictionRefused(p, pdbs))

\* What triage_node says is there to be seen in node_detail, whose description
\* (server.go:86) is "everything known about one node": the jobs it waits for,
\* the budgets and pods that block a drain, the kernel warnings it counted.
AdviceShows ==
    \A n \in SlurmNodes \cup KubeNodes : Locate(n).scheduler # "none" =>
        LET r == Assess(n)  d == NodeDetail(n)
        IN  IF Locate(n).scheduler = "slurm"
            THEN r.action = "wait" /\ r.category # "kubernetes_managed" => d.running # {}
            ELSE /\ r.category = "kernel_events" =>
                       Total(d.events) >= KubeEventThreshold
                 /\ "cordoned" \in d.state /\ r.action = "investigate" /\ r.category = "maintenance" =>
                       \E b \in d.pdbs : b.allowed <= 0 /\ \E p \in d.pods : Covers(b, p)

\* A node's running jobs decide whether a drain is still waited for
\* (triage.go:486): triage sees the jobs Slurm runs on it, all and no others.
RunningJobsSeen == \A n \in SlurmNodes : JobsOn(n) = {h \in jobs : n \in h}

\* "Never tell the user a node was drained, cordoned or resumed unless
\* drain_node/resume_node returned done=true" (server.go:55): done means that the
\* cluster that has the node carried the write out, unless it is replayed.
DoneMeansDone ==
    reply.done => /\ reply.src = OwnerOf(reply.node)
                  /\ setup.kind[reply.src] = "live" => reply.applied
===============================================================================
