------------------------------- MODULE FleetProofs -------------------------------
(***************************************************************************)
(* Proofs about Fleet for any clusters, any command lines, pods and        *)
(* budgets, and any number of events.                                      *)
(*                                                                         *)
(* The inductive invariant IInv says that the setup is one main makes of a *)
(* command line, types the world, and ties the write call in flight to the *)
(* source that owns its node (CallInv): between the decision and the write *)
(* sources fail and return, and the write must still go to the owner.      *)
(***************************************************************************)
EXTENDS Fleet, TriageRulesProofs, FunctionTheorems, DataLemmas

Nodes == SlurmNodes \cup KubeNodes

Kinds == {"absent", "live", "replay"}

\* The rules are asked about other states of a Slurm node, and other reasons, in
\* TriageRulesProofs, SlinkyNodeProofs and ClassicNodeProofs.
SlurmRecords == [flags : SUBSET {"DRAIN"}, reason : SUBSET (Marks \ {"terminating"})]

KubeRecords == {k \in [ready : {"True", "Unknown"}, conditions : SUBSET {"ReadonlyFilesystem"},
                       cordoned : BOOLEAN, reason : SUBSET Marks] :
                    ~k.cordoned => k.reason = Blank}

\* The classic cluster has a name of its own.
OwnName == \A f \in StartFlags : f.clusterName # "slinky"

SetupInv ==
    /\ setup.kind \in [Sources -> Kinds]
    /\ OwnName => setup.name # "slinky"

WorldType ==
    /\ up \subseteq Sources \cup {"slurmdbd"}
    /\ slurm \in [SlurmNodes -> SlurmRecords]
    /\ knode \in [KubeNodes -> KubeRecords]
    /\ pods \subseteq Pods
    /\ pdbs \subseteq BudgetObjects
    /\ \A e \in kevents : e.type = "Warning" /\ e.reason = "TaskHung"

\* A write that was decided on goes to the source that owns the node.
CallInv ==
    call # NoCall => /\ call.node \in Nodes
                     /\ call.src = OwnerOf(call.node) /\ Has(call.src)

IInv == SetupInv /\ WorldType /\ CallInv /\ DoneMeansDone

-------------------------------------------------------------------------------
(* Lemmas *)

LEMMA Owners ==
    ASSUME NEW n \in Nodes
    PROVE  /\ OwnerOf(n) \in Sources
           /\ n \in ClassicNodes => OwnerOf(n) = "classic"
           /\ n \in SlinkyNodes => OwnerOf(n) = "slinky"
           /\ n \in KubeNodes => OwnerOf(n) = "kubernetes" /\ n \notin SlurmNodes
  BY UniqueNames DEF Nodes, SlurmNodes, OwnerOf, Sources

\* At most two labels, one after the other.
LEMMA Joined ==
    ASSUME NEW x, NEW y
    PROVE  /\ <<>> \o <<>> = <<>>
           /\ <<x>> \o <<>> = <<x>>
           /\ <<>> \o <<y>> = <<y>>
           /\ <<x>> \o <<y>> = <<x, y>>
  <1>1. /\ <<>> \o <<>> = <<>>
        /\ <<x>> \o <<>> = <<x>>
        /\ <<>> \o <<y>> = <<y>>
    OBVIOUS
  <1>2. <<x>> \o <<y>> = <<x, y>>
    <2> DEFINE s == <<x>> \o <<y>>
    <2>1. s \in Seq({x, y}) /\ Len(s) = 2 /\ s[1] = x /\ s[2] = y
      OBVIOUS
    <2> HIDE DEF s
    <2>2. s = <<x, y>>
      BY <2>1
    <2> QED
      BY <2>2 DEF s
  <1> QED
    BY <1>1, <1>2

\* The clusters that were read, one label each.
LEMMA OrderForms ==
    LET c == Has("classic") /\ SourceOf(setup.name) \in up
        s == Has("slinky") /\ SourceOf("slinky") \in up
    IN  \/ Order = <<>>
        \/ Order = <<setup.name>> /\ c
        \/ Order = <<"slinky">> /\ s
        \/ Order = <<setup.name, "slinky">> /\ c /\ s
  <1> DEFINE c == Has("classic") /\ SourceOf(setup.name) \in up
             s == Has("slinky") /\ SourceOf("slinky") \in up
             a == IF c THEN <<setup.name>> ELSE <<>>
             b == IF s THEN <<"slinky">> ELSE <<>>
  <1>1. Order = a \o b
    BY DEF Order
  <1>2. a = <<>> \/ (a = <<setup.name>> /\ c)
    OBVIOUS
  <1>3. b = <<>> \/ (b = <<"slinky">> /\ s)
    OBVIOUS
  <1> HIDE DEF a, b, c, s
  <1>4. \/ Order = <<>>
        \/ Order = <<setup.name>> /\ c
        \/ Order = <<"slinky">> /\ s
        \/ Order = <<setup.name, "slinky">> /\ c /\ s
    BY <1>1, <1>2, <1>3, Joined
  <1> QED
    BY <1>4 DEF c, s

\* They are set up and answer, also when both Slurm clusters go by one name.
LEMMA OrderLabels ==
    /\ DOMAIN Order \subseteq 1..2
    /\ \A i \in DOMAIN Order :
          /\ Order[i] \in {setup.name, "slinky"}
          /\ Has(SourceOf(Order[i])) /\ SourceOf(Order[i]) \in up
  <1> DEFINE ok(label) == /\ label \in {setup.name, "slinky"}
                          /\ Has(SourceOf(label)) /\ SourceOf(label) \in up
             c == Has("classic") /\ SourceOf(setup.name) \in up
             s == Has("slinky") /\ SourceOf("slinky") \in up
  <1>1. (c => ok(setup.name)) /\ (s => ok("slinky"))
    BY DEF SourceOf
  <1>2. \/ Order = <<>>
        \/ Order = <<setup.name>> /\ c
        \/ Order = <<"slinky">> /\ s
        \/ Order = <<setup.name, "slinky">> /\ c /\ s
    BY OrderForms
  <1> HIDE DEF ok, c, s
  <1>3. DOMAIN Order \subseteq 1..2 /\ \A i \in DOMAIN Order : ok(Order[i])
    <2>1. CASE Order = <<>>
      BY <2>1
    <2>2. CASE Order = <<setup.name>> /\ c
      BY <1>1, <2>2
    <2>3. CASE Order = <<"slinky">> /\ s
      BY <1>1, <2>3
    <2>4. CASE Order = <<setup.name, "slinky">> /\ c /\ s
      BY <1>1, <2>4
    <2> QED
      BY <1>2, <2>1, <2>2, <2>3, <2>4
  <1> QED
    BY <1>3 DEF ok

\* locate finds a node in the source that owns it, which is set up and answers.
LEMMA LocateFinds ==
    ASSUME NEW n \in Nodes, Locate(n).scheduler # "none"
    PROVE  LET loc == Locate(n)
               src == IF loc.scheduler = "kubernetes" THEN "kubernetes" ELSE SourceOf(loc.cluster)
           IN  src = OwnerOf(n) /\ Has(src) /\ src \in up
  <1> DEFINE hits == {i \in DOMAIN Order : n \in NodesOf(Order[i])}
             first == CHOOSE i \in hits : \A j \in hits : i <= j
  <1>1. CASE hits # {}
    <2>1. hits \subseteq 1..2
      BY OrderLabels
    <2>2. \E i \in hits : \A j \in hits : i <= j
      <3> HIDE DEF hits, first
      <3>1. CASE 1 \in hits
        BY <2>1, <3>1
      <3>2. CASE 1 \notin hits
        <4>1. \A i \in hits : i = 2
          BY <2>1, <3>2
        <4>2. PICK i \in hits : TRUE
          BY <1>1
        <4> QED
          BY <4>1, <4>2
      <3> QED
        BY <3>1, <3>2
    <2>3. first \in hits
      BY <2>2
    <2>4. Locate(n) = [scheduler |-> "slurm", cluster |-> Order[first]]
      BY <1>1 DEF Locate
    <2> HIDE DEF first
    <2>5. n \in NodesOf(Order[first]) /\ Has(SourceOf(Order[first])) /\ SourceOf(Order[first]) \in up
      BY <2>3, OrderLabels
    <2>6. SourceOf(Order[first]) = OwnerOf(n)
      BY <2>5, Owners DEF NodesOf, SourceOf
    <2> QED
      BY <2>4, <2>5, <2>6
  <1>2. CASE hits = {}
    <2>1. KubeRead /\ n \in KubeNodes
          /\ Locate(n) = [scheduler |-> "kubernetes", cluster |-> "kubernetes"]
      BY <1>2 DEF Locate
    <2> QED
      BY <2>1, Owners DEF KubeRead
  <1> QED
    BY <1>1, <1>2

\* What resumes and drains do to a node keeps its type.
LEMMA CordonPatchType ==
    ASSUME NEW k \in KubeRecords, NEW drain \in BOOLEAN
    PROVE  CordonPatch(k, drain, {"triage", "words"}) \in KubeRecords
  <1>1. {"triage", "words"} \in SUBSET Marks /\ Blank \in SUBSET Marks
    BY DEF Marks, Blank
  <1> QED
    BY <1>1 DEF CordonPatch, KubeRecords

\* A live source that is not forced to tell of a failure has carried out a write
\* whose answer the client takes for a success.
LEMMA SuccessApplied ==
    ASSUME NEW src \in Sources, setup.kind[src] = "live", NEW a \in MayAnswer(src),
           NEW applied \in MayApply(src, a), Succeeds(src, a)
    PROVE  applied = TRUE
  <1>1. CASE src = "classic"
    BY <1>1 DEF Succeeds, CommandSucceeds, MayAnswer, MayApply
  <1>2. CASE src = "slinky"
    BY <1>2 DEF Succeeds, UpdateSucceeds, MayAnswer, MayApply
  <1>3. CASE src = "kubernetes"
    BY <1>3 DEF Succeeds, PatchSucceeds, MayAnswer, MayApply
  <1> QED
    BY <1>1, <1>2, <1>3 DEF Sources

-------------------------------------------------------------------------------
(* The invariant *)

\* The setup main makes of a command line, and a world that answers.
LEMMA InitIInv == Init => IInv
  <1> SUFFICES ASSUME Init PROVE IInv
    OBVIOUS
  <1>1. SetupInv
    <2>1. PICK f \in StartFlags : setup = Setup(f)
      BY DEF Init
    <2> QED
      BY <2>1 DEF SetupInv, OwnName, Setup, Sources, Kinds
  <1>2. WorldType
    BY PodAssumption, BudgetAssumption
    DEF Init, WorldType, InService, Fine, SlurmRecords, KubeRecords, Blank
  <1>3. CallInv /\ DoneMeansDone
    BY DEF Init, CallInv, NoReply, DoneMeansDone
  <1> QED
    BY <1>1, <1>2, <1>3 DEF IInv

\* What happens in the world keeps its types.
LEMMA WorldKeeps ==
    ASSUME WorldType, World
    PROVE  WorldType' /\ UNCHANGED <<setup, call, reply>>
  <1> USE DEF WorldType
  <1>1. UNCHANGED <<setup, call, reply>>
    BY DEF World, Happens, SourceFails, SourceReturns, SlurmChanges, KubeChanges, PodsChange,
           BudgetChanges, KernelWarns, JobsChange
  <1>2. CASE SourceFails \/ SourceReturns
    BY <1>1, <1>2 DEF SourceFails, SourceReturns
  <1>3. CASE SlurmChanges
    <2>1. SlurmStates \subseteq SlurmRecords
      BY DEF SlurmStates, SlurmRecords, InService, Blank, Marks
    <2>2. PICK n \in SlurmNodes, r \in SlurmStates : slurm' = [slurm EXCEPT ![n] = r]
      BY <1>3 DEF SlurmChanges
    <2>3. slurm' \in [SlurmNodes -> SlurmRecords]
      BY <2>1, <2>2
    <2> QED
      BY <1>1, <1>3, <2>3 DEF SlurmChanges
  <1>4. CASE KubeChanges
    <2>1. KubeStates \subseteq KubeRecords
      <3>1. Fine \in KubeRecords
        BY DEF Fine, KubeRecords, Blank
      <3>2. [Fine EXCEPT !.cordoned = TRUE, !.reason = {"maint"}] \in KubeRecords
        BY DEF Fine, KubeRecords, Marks
      <3>3. [Fine EXCEPT !.conditions = {"ReadonlyFilesystem"}] \in KubeRecords
        BY DEF Fine, KubeRecords, Blank
      <3>4. [Fine EXCEPT !.ready = "Unknown"] \in KubeRecords
        BY DEF Fine, KubeRecords, Blank
      <3> QED
        BY <3>1, <3>2, <3>3, <3>4 DEF KubeStates
    <2>2. PICK k \in KubeNodes, r \in KubeStates : knode' = [knode EXCEPT ![k] = r]
      BY <1>4 DEF KubeChanges
    <2>3. knode' \in [KubeNodes -> KubeRecords]
      BY <2>1, <2>2
    <2> QED
      BY <1>1, <1>4, <2>3 DEF KubeChanges
  <1>5. CASE PodsChange
    BY <1>1, <1>5 DEF PodsChange
  <1>6. CASE BudgetChanges
    <2>1. PICK b \in pdbs : pdbs' = (pdbs \ {b}) \cup {[b EXCEPT !.allowed = 1 - @]}
      BY <1>6 DEF BudgetChanges
    <2>2. b \in BudgetObjects
      OBVIOUS
    <2>3. [b EXCEPT !.allowed = 1 - @] \in BudgetObjects
      BY <2>2 DEF BudgetObjects
    <2> DEFINE new == [b EXCEPT !.allowed = 1 - @]
    <2> HIDE DEF new
    <2>4. pdbs' \subseteq BudgetObjects
      BY <2>1, <2>3 DEF new
    <2> QED
      BY <1>1, <1>6, <2>4 DEF BudgetChanges
  <1>7. CASE KernelWarns \/ JobsChange
    BY <1>1, <1>7 DEF KernelWarns, JobsChange
  <1> QED
    BY <1>2, <1>3, <1>4, <1>5, <1>6, <1>7 DEF World

\* A decision sends the write to the node's owner.
LEMMA DecideKeeps ==
    ASSUME IInv, NEW tool, NEW n \in Nodes, NEW force, Decide(tool, n, force)
    PROVE  IInv'
  <1> DEFINE loc == Locate(n)
             src == IF loc.scheduler = "kubernetes" THEN "kubernetes" ELSE SourceOf(loc.cluster)
  <1>1. UNCHANGED <<setup, world>>
    BY DEF Decide
  <1>2. SetupInv' /\ WorldType'
    BY <1>1 DEF IInv, SetupInv, WorldType, world
  <1>3. \/ reply' = [tool |-> tool, done |-> FALSE] /\ call' = call
        \/ /\ loc.scheduler # "none"
           /\ call' = [tool |-> tool, node |-> n, src |-> src] /\ reply' = NoReply
    BY DEF Decide
  <1>4. loc.scheduler # "none" => src = OwnerOf(n) /\ Has(src)
    BY LocateFinds
  <1> HIDE DEF loc, src
  <1>5. CallInv'
    BY <1>1, <1>3, <1>4 DEF IInv, CallInv, Has, world
  <1>6. DoneMeansDone'
    BY <1>3 DEF DoneMeansDone, NoReply
  <1> QED
    BY <1>2, <1>5, <1>6 DEF IInv

\* The write is made where the node is, and what a live source is said to have
\* done it has done.
LEMMA WriteKeeps ==
    ASSUME IInv, Write
    PROVE  IInv'
  <1> DEFINE n     == call.node
             drain == call.tool = "drain_node"
  <1>1. /\ call # NoCall /\ call' = NoCall
        /\ UNCHANGED <<setup, up, pods, pdbs, kevents, jobs, events>>
    BY DEF Write
  <1>2. PICK a \in MayAnswer(call.src) : \E applied \in MayApply(call.src, a) :
            /\ reply' = [tool |-> call.tool, node |-> n, src |-> call.src, applied |-> applied,
                         done |-> Succeeds(call.src, a)]
            /\ slurm' = IF ~applied \/ call.src = "kubernetes" THEN slurm
                        ELSE [slurm EXCEPT ![n] =
                              IF drain THEN [flags |-> @.flags \cup {"DRAIN"}, reason |-> {"triage", "words"}]
                              ELSE InService]
            /\ knode' = IF ~applied \/ call.src # "kubernetes" THEN knode
                        ELSE [knode EXCEPT ![n] = CordonPatch(@, drain, {"triage", "words"})]
    BY DEF Write
  <1>3. PICK applied \in MayApply(call.src, a) :
            /\ reply' = [tool |-> call.tool, node |-> n, src |-> call.src, applied |-> applied,
                         done |-> Succeeds(call.src, a)]
            /\ slurm' = IF ~applied \/ call.src = "kubernetes" THEN slurm
                        ELSE [slurm EXCEPT ![n] =
                              IF drain THEN [flags |-> @.flags \cup {"DRAIN"}, reason |-> {"triage", "words"}]
                              ELSE InService]
            /\ knode' = IF ~applied \/ call.src # "kubernetes" THEN knode
                        ELSE [knode EXCEPT ![n] = CordonPatch(@, drain, {"triage", "words"})]
    BY <1>2
  <1>4. /\ n \in Nodes /\ call.src = OwnerOf(n) /\ Has(call.src) /\ call.src \in Sources
        /\ setup.kind[call.src] \in Kinds
    BY <1>1, Owners DEF IInv, CallInv, SetupInv
  <1>5. slurm' \in [SlurmNodes -> SlurmRecords]
    <2>1. {"triage", "words"} \in SUBSET Marks /\ InService \in SlurmRecords
      BY DEF Marks, InService, SlurmRecords, Blank
    <2>2. \A r \in SlurmRecords :
              [flags |-> r.flags \cup {"DRAIN"}, reason |-> {"triage", "words"}] \in SlurmRecords
      BY <2>1 DEF SlurmRecords
    <2> HIDE DEF n, drain
    <2> QED
      BY <1>3, <2>1, <2>2 DEF IInv, WorldType
  <1>6. knode' \in [KubeNodes -> KubeRecords]
    <2>1. drain \in BOOLEAN
      OBVIOUS
    <2> HIDE DEF n, drain
    <2> QED
      BY <1>3, <2>1, CordonPatchType DEF IInv, WorldType
  <1>7. SetupInv' /\ WorldType' /\ CallInv'
    BY <1>1, <1>5, <1>6 DEF IInv, SetupInv, WorldType, CallInv
  <1>8. DoneMeansDone'
    <2> SUFFICES ASSUME reply'.done
                 PROVE  /\ reply'.src = OwnerOf(reply'.node)
                        /\ setup.kind[reply'.src] = "live" => reply'.applied
      BY <1>1 DEF DoneMeansDone, OwnerOf
    <2>1. reply'.src = call.src /\ reply'.node = n /\ reply'.applied = applied
          /\ Succeeds(call.src, a)
      BY <1>3
    <2>2. setup.kind[call.src] = "live" => applied
      BY <1>4, <2>1, SuccessApplied
    <2> QED
      BY <1>4, <2>1, <2>2
  <1> QED
    BY <1>7, <1>8 DEF IInv

\* Every step keeps it.
LEMMA StepIInv == IInv /\ [Next]_vars => IInv'
  <1> SUFFICES ASSUME IInv, [Next]_vars PROVE IInv'
    OBVIOUS
  <1>1. CASE World
    <2>1. WorldType' /\ UNCHANGED <<setup, call, reply>>
      BY <1>1, WorldKeeps DEF IInv
    <2> QED
      BY <2>1 DEF IInv, SetupInv, CallInv, DoneMeansDone, Has
  <1>2. CASE \E n \in Nodes : \/ Decide("drain_node", n, FALSE)
                              \/ \E force \in BOOLEAN : Decide("resume_node", n, force)
    BY <1>2, DecideKeeps
  <1>3. CASE Write
    BY <1>3, WriteKeeps
  <1>4. CASE UNCHANGED vars
    BY <1>4 DEF vars, world, IInv, SetupInv, WorldType, CallInv, Has, DoneMeansDone
  <1> QED
    BY <1>1, <1>2, <1>3, <1>4 DEF Next, Nodes

\* The inductive invariant holds always.
THEOREM Inductive == Spec => []IInv
  BY InitIInv, StepIInv, PTL DEF Spec

-------------------------------------------------------------------------------
(* The properties *)

\* The variables stay in their types; a node that is not cordoned keeps no
\* reason, and a write in flight has a source to go to.
THEOREM TypeCorrect == Spec => []TypeOK
  <1>1. IInv => TypeOK
    <2> SUFFICES ASSUME IInv PROVE TypeOK
      OBVIOUS
    <2>1. setup.kind \in [Sources -> {"absent", "live", "replay"}]
      BY DEF IInv, SetupInv, Kinds
    <2>2. /\ up \subseteq Sources \cup {"slurmdbd"} /\ pods \subseteq Pods
          /\ DOMAIN slurm = SlurmNodes /\ \A n \in SlurmNodes : slurm[n] \in SlurmRecords
          /\ \A k \in KubeNodes : knode[k] \in KubeRecords
      BY DEF IInv, WorldType
    <2>3. call # NoCall => call.node \in SlurmNodes \cup KubeNodes /\ Has(call.src)
      BY DEF IInv, CallInv, Nodes
    <2> QED
      BY <2>1, <2>2, <2>3 DEF TypeOK, SlurmRecords, KubeRecords
  <1> QED
    BY <1>1, Inductive, PTL

\* Done means done: the source that owns the node carried the write out, or
\* recorded it, whatever failed, returned or changed since the decision.
THEOREM DoneIsDone == Spec => []DoneMeansDone
  <1>1. IInv => DoneMeansDone
    BY DEF IInv
  <1> QED
    BY <1>1, Inductive, PTL

\* A name of a Kubernetes node is a Kubernetes node to triage, whichever sources
\* were read.
LEMMA KubeNodeAssessed ==
    ASSUME NEW k \in KubeNodes
    PROVE  Assess(k) = AssessKube(ViewOf(k))
  <1>1. \A label : k \notin NodesOf(label)
    BY UniqueNames DEF NodesOf, SlurmNodes
  <1>2. Locate(k).scheduler # "slurm"
    BY <1>1 DEF Locate
  <1> QED
    BY <1>2 DEF Assess

\* Under the threshold that unavailable components are assessed by, a node blamed
\* for one is never a node that triage_node has nothing to say about.
THEOREM BlameShared ==
    ASSUME KubeEventThreshold = DefaultKubeEvents
    PROVE  Spec => []BlameIsShared
  <1>1. BlameIsShared
    <2> SUFFICES ASSUME NEW u, NEW k \in ComponentUnavailable(u).blames
                 PROVE  Assess(k).action # "none"
      BY DEF BlameIsShared
    <2>1. k \in ControlPlaneNodes
      BY DEF ComponentUnavailable
    <2>2. k \in KubeNodes /\ NodeFault(AssessKubeBy(DefaultKubeEvents, ViewOf(k)).category)
      BY <2>1 DEF ControlPlaneNodes
    <2>3. NodeFault(AssessKube(ViewOf(k)).category)
      BY <2>2 DEF AssessKube
    <2>4. AssessKube(ViewOf(k)).action # "none"
      BY <2>3 DEF AssessKube, AssessKubeBy, Cordoned, NodeFault, Rec, Confirm
    <2> QED
      BY <2>2, <2>4, KubeNodeAssessed
  <1> QED
    BY <1>1, PTL

\* A budget that triage finds to cover a pod does select it, unless it asks for a
\* label with the empty value.
LEMMA CoversSelects ==
    ASSUME NEW b, NEW p, Covers(b, p),
           \A sel \in b.selector : \A key \in DOMAIN sel : sel[key] # ""
    PROVE  Selects(b, p)
  BY DEF Covers, Selects, Label

\* When no budget asks for a label with the empty value, a drain that triage finds
\* to be blocked is one that Kubernetes refuses.
THEOREM BlockIsReal ==
    ASSUME \A sel \in Selectors : \A key \in DOMAIN sel : sel[key] # ""
    PROVE  Spec => []BlockedDrainIsRefused
  <1>1. IInv => BlockedDrainIsRefused
    <2> SUFFICES ASSUME IInv, NEW k \in KubeNodes, KubeRead, BlockingPDBs(ViewOf(k)) # {}
                 PROVE  \E p \in pods : p.node = k /\ Workload(p) /\ EvictionRefused(p, pdbs)
      BY DEF BlockedDrainIsRefused
    <2> DEFINE shown == {[allowed |-> b.allowed, covers |-> {p \in pods : Covers(b, p)}] : b \in pdbs}
               here  == WorkloadPods(pods, k)
    <2>1. ViewOf(k).pdbs = shown /\ ViewOf(k).pods = here
      BY DEF ViewOf, KubeView
    <2>2. PICK blocking \in BlockingPDBs(ViewOf(k)) : TRUE
      OBVIOUS
    <2>3. blocking \in shown /\ blocking.allowed <= 0 /\ blocking.covers \cap here # {}
      <3> HIDE DEF shown, here
      <3> QED
        BY <2>1, <2>2 DEF BlockingPDBs
    <2>4. PICK b \in pdbs :
              blocking = [allowed |-> b.allowed, covers |-> {p \in pods : Covers(b, p)}]
      BY <2>3
    <2>5. PICK p \in pods : Covers(b, p) /\ p \in WorkloadPods(pods, k)
      BY <2>3, <2>4
    <2>6. b.selector \subseteq Selectors
      BY DEF IInv, WorldType, BudgetObjects
    <2>7. Selects(b, p) /\ b.allowed <= 0
      BY <2>3, <2>4, <2>5, <2>6, CoversSelects
    <2> QED
      BY <2>5, <2>7 DEF WorkloadPods, EvictionRefused
  <1> QED
    BY <1>1, Inductive, PTL

-------------------------------------------------------------------------------
(* Lists *)

\* The cluster that the source of a node is listed as.
ClusterOf(n) == IF OwnerOf(n) = "classic" THEN setup.name ELSE OwnerOf(n)

\* A list of entries that has each node of A once, in its cluster, and no other node.
Lists(s, A) ==
    /\ s \in Seq([node : Nodes, cluster : {setup.name, "slinky", "kubernetes"}])
    /\ \A i \in DOMAIN s : s[i].node \in A /\ s[i].cluster = ClusterOf(s[i].node)
    /\ \A n \in A : \E i \in DOMAIN s : s[i].node = n
    /\ \A i, j \in DOMAIN s : s[i].node = s[j].node => i = j

Entries(A, label) == {[node |-> n, cluster |-> label] : n \in A}

\* SetToSeq lists the elements of a finite set, each once.
LEMMA Listed ==
    ASSUME NEW S, IsFiniteSet(S)
    PROVE  /\ SetToSeq(S) \in Seq(S)
           /\ \A x \in S : \E i \in DOMAIN SetToSeq(S) : SetToSeq(S)[i] = x
           /\ \A i, j \in DOMAIN SetToSeq(S) : SetToSeq(S)[i] = SetToSeq(S)[j] => i = j
  <1> DEFINE n == Cardinality(S)
             f == SetToSeq(S)
  <1>1. n \in Nat /\ ExistsBijection(1..n, S)
    BY FS_CardinalityType
  <1>a. PICK g : g \in Bijection(1..n, S)
    BY <1>1 DEF ExistsBijection
  <1>2. g \in [1..n -> S] /\ IsInjective(g)
    BY <1>a DEF Bijection, Injection
  <1>3. f \in [1..n -> S] /\ IsInjective(f)
    BY <1>2 DEF SetToSeq
  <1>4. f \in Surjection(1..n, S)
    <2>1. f \in Injection(1..n, S)
      BY <1>3 DEF Injection
    <2>2. Cardinality(1..n) = n
      BY <1>1, FS_Interval
    <2> HIDE DEF f
    <2>3. Cardinality(1..n) = Cardinality(S) <=> f \in Surjection(1..n, S)
      BY <2>1, FS_Injection
    <2> QED
      BY <2>2, <2>3
  <1> QED
    BY <1>1, <1>3, <1>4 DEF Surjection, IsInjective

\* What a function makes of a finite set is finite.
LEMMA FiniteImage ==
    ASSUME NEW S, IsFiniteSet(S), NEW f, DOMAIN f = S
    PROVE  IsFiniteSet({f[x] : x \in S})
  <1> DEFINE T == {f[x] : x \in S}
             g == [x \in S |-> f[x]]
  <1>1. g \in Surjection(S, T)
    BY DEF Surjection
  <1> HIDE DEF T, g
  <1>2. IsFiniteSet(T)
    BY <1>1, FS_Surjection
  <1> QED
    BY <1>2 DEF T

\* The sequence that a finite set is written as has its elements.
LEMMA ListedSet ==
    ASSUME NEW S, IsFiniteSet(S)
    PROVE  ToSet(SetToSeq(S)) = S
  <1> DEFINE s == SetToSeq(S)
  <1>1. s \in Seq(S) /\ \A x \in S : \E i \in DOMAIN s : s[i] = x
    BY Listed
  <1> HIDE DEF s
  <1>2. \A i \in DOMAIN s : s[i] \in S
    BY <1>1
  <1>3. ToSet(s) = S
    BY <1>1, <1>2 DEF ToSet
  <1> QED
    BY <1>3 DEF s

LEMMA Flattened ==
    ASSUME NEW a, NEW b
    PROVE  /\ FlattenSeq(<<>>) = <<>>
           /\ FlattenSeq(<<a>>) = a
           /\ FlattenSeq(<<a, b>>) = a \o b
  <1>1. FlattenSeq(<<>>) = <<>>
    BY DEF FlattenSeq
  <1>2. FlattenSeq(<<a>>) = a
    <2> DEFINE s == <<a>>
               f[i \in 1..Len(s)] == IF i = 1 THEN s[i] ELSE f[i - 1] \o s[i]
    <2>1. Len(s) = 1 /\ s[1] = a
      OBVIOUS
    <2>2. FlattenSeq(s) = f[Len(s)]
      BY <2>1 DEF FlattenSeq
    <2> QED
      BY <2>1, <2>2
  <1>3. FlattenSeq(<<a, b>>) = a \o b
    <2> DEFINE s == <<a, b>>
               G == [i \in 1..Len(s) |-> IF i = 1 THEN a ELSE a \o b]
               Fl(f) == f = [i \in 1..Len(s) |-> IF i = 1 THEN s[i] ELSE f[i - 1] \o s[i]]
               f == CHOOSE f : Fl(f)
    <2>1. Len(s) = 2 /\ s[1] = a /\ s[2] = b
      OBVIOUS
    <2>2. FlattenSeq(s) = f[Len(s)]
      BY <2>1 DEF FlattenSeq
    <2>3. Fl(G)
      <3>1. \A i \in 1..2 : i = 1 \/ (i = 2 /\ i # 1 /\ i - 1 = 1)
        OBVIOUS
      <3> HIDE DEF s
      <3>2. \A i \in 1..2 : G[i] = IF i = 1 THEN s[i] ELSE G[i - 1] \o s[i]
        BY <2>1, <3>1
      <3> QED
        BY <2>1, <3>2
    <2>4. Fl(f)
      BY <2>3
    <2> HIDE DEF f, s
    <2>5. f[1] = a
      BY <2>1, <2>4
    <2>6. f[2] = f[1] \o b
      <3>1. \A i \in 1..2 : f[i] = IF i = 1 THEN s[i] ELSE f[i - 1] \o s[i]
        BY <2>1, <2>4
      <3>2. 2 \in 1..2 /\ 2 # 1 /\ 2 - 1 = 1
        OBVIOUS
      <3>3. f[2] = IF 2 = 1 THEN s[2] ELSE f[2 - 1] \o s[2]
        BY <3>1, <3>2
      <3> QED
        BY <2>1, <3>2, <3>3
    <2> QED
      BY <2>1, <2>2, <2>5, <2>6 DEF s
  <1> QED
    BY <1>1, <1>2, <1>3

LEMMA Listing ==
    ASSUME NEW A \in SUBSET Nodes, IsFiniteSet(A), NEW label \in {setup.name, "slinky", "kubernetes"},
           \A n \in A : ClusterOf(n) = label
    PROVE  Lists(SetToSeq(Entries(A, label)), A)
  <1> DEFINE E == Entries(A, label)
             s == SetToSeq(E)
             f == [n \in A |-> [node |-> n, cluster |-> label]]
  <1>1. f \in Bijection(A, E)
    BY DEF Bijection, Injection, Surjection, IsInjective, Entries
  <1>2. IsFiniteSet(E)
    BY <1>1, FS_Bijection DEF ExistsBijection
  <1> HIDE DEF f, s
  <1>3. /\ s \in Seq(E)
        /\ \A x \in E : \E i \in DOMAIN s : s[i] = x
        /\ \A i, j \in DOMAIN s : s[i] = s[j] => i = j
    BY <1>2, Listed DEF s
  <1>4. E \subseteq [node : Nodes, cluster : {setup.name, "slinky", "kubernetes"}]
    BY DEF Entries
  <1>5. \A i \in DOMAIN s : s[i] \in E
    BY <1>3
  <1>6. \A x \in E : x.node \in A /\ x = [node |-> x.node, cluster |-> label]
                     /\ x.cluster = label
    BY DEF Entries
  <1>7. \A n \in A : [node |-> n, cluster |-> label] \in E
    BY DEF Entries
  <1> HIDE DEF E
  <1>8. s \in Seq([node : Nodes, cluster : {setup.name, "slinky", "kubernetes"}])
    <2> DEFINE F == [node : Nodes, cluster : {setup.name, "slinky", "kubernetes"}]
    <2> HIDE DEF F
    <2>1. s \in Seq(E) /\ E \subseteq F
      BY <1>3, <1>4 DEF F
    <2>2. Len(s) \in Nat /\ s = [i \in 1..Len(s) |-> s[i]] /\ \A i \in 1..Len(s) : s[i] \in F
      BY <2>1
    <2>3. s \in Seq(F)
      BY <2>2
    <2> QED
      BY <2>3 DEF F
  <1>9. ASSUME NEW n \in A
        PROVE  \E i \in DOMAIN s : s[i].node = n
    <2>1. PICK i \in DOMAIN s : s[i] = [node |-> n, cluster |-> label]
      BY <1>3, <1>7
    <2> QED
      BY <2>1
  <1>10. \A i, j \in DOMAIN s : s[i].node = s[j].node => i = j
    BY <1>3, <1>5, <1>6
  <1>11. \A i \in DOMAIN s : s[i].node \in A /\ s[i].cluster = ClusterOf(s[i].node)
    BY <1>5, <1>6
  <1> QED
    BY <1>8, <1>9, <1>10, <1>11 DEF Lists, s, E

LEMMA NoneListed == Lists(<<>>, {})
  BY DEF Lists

LEMMA ListsJoined ==
    ASSUME NEW A, NEW B, NEW s, NEW t, Lists(s, A), Lists(t, B), A \cap B = {}
    PROVE  Lists(s \o t, A \cup B)
  <1> DEFINE Entry == [node : Nodes, cluster : {setup.name, "slinky", "kubernetes"}]
             u == s \o t
             n == Len(s)
  <1>1. s \in Seq(Entry) /\ t \in Seq(Entry)
    BY DEF Lists
  <1> HIDE DEF Entry
  <1>2. /\ u \in Seq(Entry) /\ n \in Nat /\ Len(t) \in Nat /\ Len(u) = n + Len(t)
        /\ DOMAIN u = 1..(n + Len(t)) /\ DOMAIN s = 1..n /\ DOMAIN t = 1..Len(t)
    BY <1>1
  <1>3. /\ \A i \in 1..n : u[i] = s[i]
        /\ \A i \in 1..Len(t) : u[n + i] = t[i]
    BY <1>1
  <1>4. \A i \in DOMAIN u : \/ i \in DOMAIN s /\ u[i] = s[i]
                            \/ i - n \in DOMAIN t /\ u[i] = t[i - n]
    <2> SUFFICES ASSUME NEW i \in 1..(n + Len(t)) 
                 PROVE  \/ i \in DOMAIN s /\ u[i] = s[i]
                        \/ i - n \in DOMAIN t /\ u[i] = t[i - n]
      BY <1>2
    <2> HIDE DEF u, n
    <2>1. CASE i <= n
      BY <1>2, <1>3, <2>1
    <2>2. CASE i > n
      <3>1. i - n \in 1..Len(t) /\ n + (i - n) = i
        BY <1>2, <2>2
      <3> QED
        BY <1>2, <1>3, <3>1
    <2> QED
      BY <1>2, <2>1, <2>2
  <1>5. /\ \A i \in DOMAIN s : i \in DOMAIN u /\ u[i] = s[i]
        /\ \A i \in DOMAIN t : n + i \in DOMAIN u /\ u[n + i] = t[i]
    BY <1>2, <1>3
  <1>6. DOMAIN u \subseteq Int /\ n \in Int
    BY <1>2
  <1> HIDE DEF u, n
  <1>7. \A i \in DOMAIN u : u[i].node \in A \cup B /\ u[i].cluster = ClusterOf(u[i].node)
    BY <1>4 DEF Lists
  <1>8. \A m \in A \cup B : \E i \in DOMAIN u : u[i].node = m
    BY <1>5 DEF Lists
  <1>9. \A i, j \in DOMAIN u : u[i].node = u[j].node => i = j
    <2> SUFFICES ASSUME NEW i \in DOMAIN u, NEW j \in DOMAIN u, u[i].node = u[j].node
                 PROVE  i = j
      OBVIOUS
    <2>1. i \in Int /\ j \in Int
      BY <1>6
    <2>2. CASE i \in DOMAIN s /\ u[i] = s[i] /\ j \in DOMAIN s /\ u[j] = s[j]
      BY <2>2 DEF Lists
    <2>3. CASE i - n \in DOMAIN t /\ u[i] = t[i - n] /\ j - n \in DOMAIN t /\ u[j] = t[j - n]
      <3>1. i - n = j - n
        BY <2>3 DEF Lists
      <3> QED
        BY <1>6, <2>1, <3>1
    <2>4. CASE i \in DOMAIN s /\ u[i] = s[i] /\ j - n \in DOMAIN t /\ u[j] = t[j - n]
      BY <2>4 DEF Lists
    <2>5. CASE i - n \in DOMAIN t /\ u[i] = t[i - n] /\ j \in DOMAIN s /\ u[j] = s[j]
      BY <2>5 DEF Lists
    <2> QED
      BY <1>4, <2>2, <2>3, <2>4, <2>5
  <1> QED
    BY <1>2, <1>7, <1>8, <1>9 DEF Lists, u, Entry

\* What locate goes through: the clusters that are set up and answer.
LEMMA OrderIs ==
    ASSUME SetupInv, OwnName
    PROVE  LET c == Has("classic") /\ "classic" \in up
               s == Has("slinky") /\ "slinky" \in up
           IN  /\ c /\ s => Order = <<setup.name, "slinky">>
               /\ c /\ ~s => Order = <<setup.name>>
               /\ ~c /\ s => Order = <<"slinky">>
               /\ ~c /\ ~s => Order = <<>>
               /\ c => NodesOf(setup.name) = ClassicNodes
               /\ s => NodesOf("slinky") = SlinkyNodes
  <1>1. /\ SourceOf(setup.name) = "classic"
        /\ Has("slinky") => SourceOf("slinky") = "slinky"
    BY DEF SetupInv, SourceOf
  <1> DEFINE a == IF Has("classic") /\ SourceOf(setup.name) \in up THEN <<setup.name>> ELSE <<>>
             b == IF Has("slinky") /\ SourceOf("slinky") \in up THEN <<"slinky">> ELSE <<>>
  <1>2. Order = a \o b
    BY DEF Order
  <1>3. /\ a = IF Has("classic") /\ "classic" \in up THEN <<setup.name>> ELSE <<>>
        /\ b = IF Has("slinky") /\ "slinky" \in up THEN <<"slinky">> ELSE <<>>
    BY <1>1
  <1>4. /\ NodesOf(setup.name) = ClassicNodes
        /\ Has("slinky") => NodesOf("slinky") = SlinkyNodes
    BY <1>1 DEF NodesOf
  <1> HIDE DEF a, b
  <1> QED
    BY <1>2, <1>3, <1>4, Joined

\* The nodes of the sources that are set up and answer.
Readable == {n \in Nodes : Has(OwnerOf(n)) /\ OwnerOf(n) \in up}

LEMMA ListsReadable ==
    ASSUME SetupInv, OwnName
    PROVE  Lists(ListNodes, Readable)
  <1> DEFINE c == Has("classic") /\ "classic" \in up
             s == Has("slinky") /\ "slinky" \in up
             of(label) == SetToSeq(Entries(NodesOf(label), label))
             K == IF KubeRead THEN KubeNodes ELSE {}
             kube == SetToSeq(Entries(K, "kubernetes"))
             slurms == [i \in DOMAIN Order |-> of(Order[i])]
  <1>1. ListNodes = FlattenSeq(slurms) \o kube
    BY DEF ListNodes, Entries
  <1>2. /\ IsFiniteSet(ClassicNodes) /\ IsFiniteSet(SlinkyNodes) /\ IsFiniteSet(K)
        /\ ClassicNodes \subseteq Nodes /\ SlinkyNodes \subseteq Nodes /\ K \subseteq Nodes
    BY FiniteAssumption, FS_Subset DEF Nodes, SlurmNodes
  <1>a. /\ \A n \in ClassicNodes : ClusterOf(n) = setup.name
        /\ \A n \in SlinkyNodes : ClusterOf(n) = "slinky"
        /\ \A n \in K : ClusterOf(n) = "kubernetes"
    BY <1>2, Owners DEF ClusterOf
  <1>3. Lists(kube, K)
    BY <1>2, <1>a, Listing
  <1>4. c => Lists(of(setup.name), ClassicNodes)
    BY <1>2, <1>a, OrderIs, Listing
  <1>5. s => Lists(of("slinky"), SlinkyNodes)
    BY <1>2, <1>a, OrderIs, Listing
  <1> DEFINE A == (IF c THEN ClassicNodes ELSE {}) \cup (IF s THEN SlinkyNodes ELSE {})
  <1>6. Lists(FlattenSeq(slurms), A)
    <2>1. CASE c /\ s
      <3>1. slurms = <<of(setup.name), of("slinky")>>
        BY <2>1, OrderIs
      <3>2. FlattenSeq(slurms) = of(setup.name) \o of("slinky")
        BY <3>1, Flattened
      <3>3. A = ClassicNodes \cup SlinkyNodes
        BY <2>1
      <3> HIDE DEF A, slurms, of
      <3>4. Lists(of(setup.name) \o of("slinky"), ClassicNodes \cup SlinkyNodes)
        BY <1>4, <1>5, <2>1, ListsJoined, UniqueNames
      <3> QED
        BY <3>2, <3>3, <3>4
    <2>2. CASE c /\ ~s
      <3>1. slurms = <<of(setup.name)>>
        BY <2>2, OrderIs
      <3> QED
        BY <1>4, <2>2, <3>1, Flattened
    <2>3. CASE ~c /\ s
      <3>1. slurms = <<of("slinky")>>
        BY <2>3, OrderIs
      <3> QED
        BY <1>5, <2>3, <3>1, Flattened
    <2>4. CASE ~c /\ ~s
      <3>1. slurms = <<>>
        BY <2>4, OrderIs
      <3> QED
        BY <2>4, <3>1, Flattened, NoneListed
    <2> QED
      BY <2>1, <2>2, <2>3, <2>4
  <1>7. A \cap K = {}
    BY UniqueNames DEF SlurmNodes
  <1>8. A \cup K = Readable
    <2>1. \A n \in Nodes : n \in A \cup K <=> n \in Readable
      BY UniqueNames DEF Nodes, SlurmNodes, OwnerOf, Readable, KubeRead
    <2>2. A \cup K \subseteq Nodes /\ Readable \subseteq Nodes
      BY <1>2 DEF Readable
    <2> QED
      BY <2>1, <2>2
  <1> HIDE DEF A, slurms, kube, K
  <1> QED
    BY <1>1, <1>3, <1>6, <1>7, <1>8, ListsJoined

-------------------------------------------------------------------------------
(* What is reported *)

LEMMA JoinedSets ==
    ASSUME NEW S, NEW s \in Seq(S), NEW t \in Seq(S)
    PROVE  s \o t \in Seq(S) /\ ToSet(s \o t) = ToSet(s) \cup ToSet(t)
  <1> DEFINE u == s \o t
             n == Len(s)
  <1>1. /\ u \in Seq(S) /\ n \in Nat /\ Len(t) \in Nat
        /\ DOMAIN u = 1..(n + Len(t)) /\ DOMAIN s = 1..n /\ DOMAIN t = 1..Len(t)
        /\ \A i \in 1..n : u[i] = s[i]
        /\ \A i \in 1..Len(t) : u[n + i] = t[i]
    OBVIOUS
  <1> HIDE DEF u, n
  <1>2. \A i \in DOMAIN u : \/ i \in DOMAIN s /\ u[i] = s[i]
                            \/ i - n \in DOMAIN t /\ u[i] = t[i - n]
    <2> SUFFICES ASSUME NEW i \in 1..(n + Len(t))
                 PROVE  \/ i \in DOMAIN s /\ u[i] = s[i]
                        \/ i - n \in DOMAIN t /\ u[i] = t[i - n]
      BY <1>1
    <2>1. CASE i <= n
      BY <1>1, <2>1
    <2>2. CASE i > n
      <3>1. i - n \in 1..Len(t) /\ n + (i - n) = i
        BY <1>1, <2>2
      <3> QED
        BY <1>1, <3>1
    <2> QED
      BY <1>1, <2>1, <2>2
  <1>3. /\ \A i \in DOMAIN s : i \in DOMAIN u /\ u[i] = s[i]
        /\ \A i \in DOMAIN t : n + i \in DOMAIN u /\ u[n + i] = t[i]
    BY <1>1
  <1>4. ToSet(u) = ToSet(s) \cup ToSet(t)
    <2>1. \A x \in ToSet(u) : x \in ToSet(s) \/ x \in ToSet(t)
      BY <1>2 DEF ToSet
    <2>2. \A x \in ToSet(s) : x \in ToSet(u)
      BY <1>3 DEF ToSet
    <2>3. \A x \in ToSet(t) : x \in ToSet(u)
      BY <1>3 DEF ToSet
    <2> QED
      BY <2>1, <2>2, <2>3
  <1> QED
    BY <1>1, <1>4 DEF u

Entry == [node : Nodes, cluster : {setup.name, "slinky", "kubernetes"}]

\* The entries of some nodes of one cluster, listed.
LEMMA EntriesListed ==
    ASSUME NEW A \in SUBSET Nodes, NEW label \in {setup.name, "slinky", "kubernetes"}
    PROVE  /\ SetToSeq(Entries(A, label)) \in Seq(Entry)
           /\ ToSet(SetToSeq(Entries(A, label))) = Entries(A, label)
  <1> DEFINE E == Entries(A, label)
             f == [n \in A |-> [node |-> n, cluster |-> label]]
             s == SetToSeq(E)
  <1>1. IsFiniteSet(A)
    BY FiniteAssumption, FS_Subset DEF Nodes
  <1>2. DOMAIN f = A /\ E = {f[n] : n \in A}
    BY DEF Entries
  <1> HIDE DEF f, E
  <1>3. IsFiniteSet(E)
    BY <1>1, <1>2, FiniteImage
  <1>4. ToSet(s) = E /\ s \in Seq(E)
    BY <1>3, ListedSet, Listed
  <1>5. E \subseteq Entry
    BY DEF E, Entries, Entry
  <1> HIDE DEF s
  <1>6. Len(s) \in Nat /\ s = [i \in 1..Len(s) |-> s[i]] /\ \A i \in 1..Len(s) : s[i] \in Entry
    BY <1>4, <1>5
  <1>7. s \in Seq(Entry)
    BY <1>6
  <1> QED
    BY <1>4, <1>7 DEF s, E

\* A Slurm cluster that was read lists n under the label c.
InSlurm(n, c) == \E i \in DOMAIN Order : n \in NodesOf(Order[i]) /\ c = Order[i]

\* What list_nodes lists: the nodes of each cluster that was read, under its label,
\* and the Kubernetes nodes.
LEMMA ListsEntries ==
    /\ ListNodes \in Seq(Entry)
    /\ \A n, c : [node |-> n, cluster |-> c] \in ToSet(ListNodes) <=>
          \/ InSlurm(n, c)
          \/ KubeRead /\ n \in KubeNodes /\ c = "kubernetes"
  <1> DEFINE of(label) == SetToSeq(Entries(NodesOf(label), label))
             K == IF KubeRead THEN KubeNodes ELSE {}
             kube == SetToSeq(Entries(K, "kubernetes"))
             slurms == [i \in DOMAIN Order |-> of(Order[i])]
             x == of(setup.name)
             y == of("slinky")
             all == FlattenSeq(slurms)
             X == Entries(NodesOf(setup.name), setup.name)
             Y == Entries(NodesOf("slinky"), "slinky")
  <1>1. ListNodes = all \o kube
    BY DEF ListNodes, Entries
  <1>2. K \subseteq Nodes /\ \A label : NodesOf(label) \subseteq Nodes
    BY DEF NodesOf, Nodes, SlurmNodes
  <1>3. /\ x \in Seq(Entry) /\ ToSet(x) = X
        /\ y \in Seq(Entry) /\ ToSet(y) = Y
        /\ kube \in Seq(Entry) /\ ToSet(kube) = Entries(K, "kubernetes")
    BY <1>2, EntriesListed
  <1>4. \A n, c : /\ [node |-> n, cluster |-> c] \in X <=> n \in NodesOf(setup.name) /\ c = setup.name
                  /\ [node |-> n, cluster |-> c] \in Y <=> n \in NodesOf("slinky") /\ c = "slinky"
                  /\ [node |-> n, cluster |-> c] \in Entries(K, "kubernetes")
                        <=> KubeRead /\ n \in KubeNodes /\ c = "kubernetes"
    <2>1. \A A, label, n, c : [node |-> n, cluster |-> c] \in Entries(A, label) <=> n \in A /\ c = label
      <3> SUFFICES ASSUME NEW A, NEW label, NEW n, NEW c
                   PROVE  [node |-> n, cluster |-> c] \in Entries(A, label) <=> n \in A /\ c = label
        OBVIOUS
      <3>1. [node |-> n, cluster |-> c].node = n /\ [node |-> n, cluster |-> c].cluster = c
        OBVIOUS
      <3>2. \A m : [node |-> m, cluster |-> label].node = m /\ [node |-> m, cluster |-> label].cluster = label
        OBVIOUS
      <3> QED
        BY <3>1, <3>2 DEF Entries
    <2>2. \A n : n \in K <=> KubeRead /\ n \in KubeNodes
      OBVIOUS
    <2> HIDE DEF K
    <2> QED
      BY <2>1, <2>2
  <1> HIDE DEF x, y, X, Y, K, kube, of
  <1>5. all \in Seq(Entry) /\ \A n, c : [node |-> n, cluster |-> c] \in ToSet(all) <=> InSlurm(n, c)
    <2>1. CASE Order = <<>>
      <3>1. slurms = <<>>
        BY <2>1
      <3>2. all = <<>>
        BY <3>1, Flattened
      <3>3. <<>> \in Seq(Entry) /\ ToSet(<<>>) = {}
        BY DEF ToSet
      <3>4. \A n, c : ~InSlurm(n, c)
        BY <2>1 DEF InSlurm
      <3> HIDE DEF all
      <3> QED
        BY <3>2, <3>3, <3>4
    <2>2. CASE Order = <<setup.name>>
      <3>1. slurms = <<x>>
        BY <2>2 DEF x
      <3>2. all = x
        BY <3>1, Flattened
      <3>3. \A n, c : InSlurm(n, c) <=> n \in NodesOf(setup.name) /\ c = setup.name
        BY <2>2 DEF InSlurm
      <3> QED
        BY <1>3, <1>4, <3>2, <3>3
    <2>3. CASE Order = <<"slinky">>
      <3>1. slurms = <<y>>
        BY <2>3 DEF y
      <3>2. all = y
        BY <3>1, Flattened
      <3>3. \A n, c : InSlurm(n, c) <=> n \in NodesOf("slinky") /\ c = "slinky"
        BY <2>3 DEF InSlurm
      <3> QED
        BY <1>3, <1>4, <3>2, <3>3
    <2>4. CASE Order = <<setup.name, "slinky">>
      <3>1. slurms = <<x, y>>
        BY <2>4 DEF x, y
      <3>2. all = x \o y
        BY <3>1, Flattened
      <3>3. \A n, c : InSlurm(n, c) <=> \/ n \in NodesOf(setup.name) /\ c = setup.name
                                        \/ n \in NodesOf("slinky") /\ c = "slinky"
        <4>1. /\ DOMAIN Order = {1, 2} /\ Order[1] = setup.name /\ Order[2] = "slinky"
          BY <2>4
        <4>2. ASSUME NEW n, NEW c
              PROVE  InSlurm(n, c) <=> \/ n \in NodesOf(Order[1]) /\ c = Order[1]
                                       \/ n \in NodesOf(Order[2]) /\ c = Order[2]
          BY <4>1 DEF InSlurm
        <4> QED
          BY <4>1, <4>2
      <3> HIDE DEF all
      <3>4. all \in Seq(Entry) /\ ToSet(all) = X \cup Y
        BY <1>3, <3>2, JoinedSets
      <3>5. ASSUME NEW n, NEW c
            PROVE  [node |-> n, cluster |-> c] \in ToSet(all) <=> InSlurm(n, c)
        <4> DEFINE e == [node |-> n, cluster |-> c]
        <4>1. /\ e \in X <=> n \in NodesOf(setup.name) /\ c = setup.name
              /\ e \in Y <=> n \in NodesOf("slinky") /\ c = "slinky"
          BY <1>4
        <4> HIDE DEF e
        <4>2. e \in ToSet(all) <=> e \in X \/ e \in Y
          BY <3>4
        <4>a. InSlurm(n, c) <=> \/ n \in NodesOf(setup.name) /\ c = setup.name
                                \/ n \in NodesOf("slinky") /\ c = "slinky"
          BY <3>3
        <4>3. e \in ToSet(all) <=> InSlurm(n, c)
          BY <4>1, <4>2, <4>a
        <4> QED
          BY <4>3 DEF e
      <3> QED
        BY <3>4, <3>5
    <2> QED
      BY <2>1, <2>2, <2>3, <2>4, OrderForms
  <1> HIDE DEF all
  <1>6. ListNodes \in Seq(Entry) /\ ToSet(ListNodes) = ToSet(all) \cup Entries(K, "kubernetes")
    BY <1>1, <1>3, <1>5, JoinedSets
  <1> QED
    BY <1>4, <1>5, <1>6

Component(src) == CASE src = "classic" -> "slurmctld" [] src = "slinky" -> "slurmrestd"
                    [] OTHER -> "kube-apiserver"

Reports == [cluster : {setup.name, "slinky", "kubernetes"},
            component : {"slurmctld", "slurmrestd", "slurmdbd", "kube-apiserver"}]
Report(label, component) == [cluster |-> label, component |-> component]

\* The sources that are reported; which they are, when the names differ.
LEMMA UnavailableIs ==
    ASSUME SetupInv
    PROVE  /\ Unavailable \in Seq(Reports)
           /\ OwnName => ToSet(Unavailable) =
                 (IF Has("kubernetes") /\ "kubernetes" \notin up
                  THEN {Report("kubernetes", "kube-apiserver")} ELSE {})
                 \cup ((IF Has("classic")
                        THEN IF "classic" \notin up THEN {Report(setup.name, "slurmctld")}
                             ELSE IF "slurmdbd" \notin up THEN {Report(setup.name, "slurmdbd")} ELSE {}
                        ELSE {})
                       \cup (IF Has("slinky") /\ "slinky" \notin up
                             THEN {Report("slinky", "slurmrestd")} ELSE {}))
  <1> DEFINE S == Reports
             entry(label, c) == Report(label, c)
             down(label) ==
                IF SourceOf(label) \notin up THEN <<entry(label, Scheduler(label))>>
                ELSE IF SourceOf(label) = "classic" /\ "slurmdbd" \notin up
                THEN <<entry(label, "slurmdbd")>> ELSE <<>>
             kube == IF Has("kubernetes") /\ ~KubeRead
                     THEN <<entry("kubernetes", "kube-apiserver")>> ELSE <<>>
             downs == [i \in DOMAIN ClusterLabels |-> down(ClusterLabels[i])]
             c == down(setup.name)
             s == down("slinky")
  <1>1. Unavailable = kube \o FlattenSeq(downs)
    BY DEF Unavailable, Report
  <1>2. /\ OwnName => SourceOf(setup.name) = "classic" /\ Scheduler(setup.name) = "slurmctld"
        /\ Has("slinky") => SourceOf("slinky") = "slinky"
        /\ Scheduler("slinky") = "slurmrestd"
    BY DEF SetupInv, SourceOf, Scheduler
  <1>3. \A x \in S : <<x>> \in Seq(S) /\ ToSet(<<x>>) = {x}
    BY DEF ToSet
  <1>4. <<>> \in Seq(S) /\ ToSet(<<>>) = {}
    BY DEF ToSet
  <1>5. /\ entry("kubernetes", "kube-apiserver") \in S
        /\ entry(setup.name, Scheduler(setup.name)) \in S /\ entry(setup.name, "slurmdbd") \in S
        /\ entry("slinky", "slurmrestd") \in S
    BY DEF Report, Reports, Scheduler
  <1>6. /\ kube \in Seq(S)
        /\ ToSet(kube) = IF Has("kubernetes") /\ "kubernetes" \notin up
                         THEN {entry("kubernetes", "kube-apiserver")} ELSE {}
    <2> HIDE DEF S, entry
    <2> QED
      BY <1>3, <1>4, <1>5 DEF KubeRead
  <1>7. /\ c \in Seq(S)
        /\ OwnName => ToSet(c) = IF "classic" \notin up THEN {entry(setup.name, "slurmctld")}
                                 ELSE IF "slurmdbd" \notin up THEN {entry(setup.name, "slurmdbd")} ELSE {}
    <2> HIDE DEF S, entry
    <2> QED
      BY <1>2, <1>3, <1>4, <1>5
  <1>8. ASSUME Has("slinky")
        PROVE  /\ s \in Seq(S)
               /\ ToSet(s) = IF "slinky" \notin up THEN {entry("slinky", "slurmrestd")} ELSE {}
    <2> HIDE DEF S, entry
    <2> QED
      BY <1>2, <1>3, <1>4, <1>5, <1>8
  <1> DEFINE slurms == (IF Has("classic") THEN ToSet(c) ELSE {})
                       \cup (IF Has("slinky") THEN ToSet(s) ELSE {})
  <1>9. FlattenSeq(downs) \in Seq(S) /\ ToSet(FlattenSeq(downs)) = slurms
    <2>1. CASE Has("classic") /\ Has("slinky")
      <3>1. ClusterLabels = <<setup.name, "slinky">>
        BY <2>1, Joined DEF ClusterLabels
      <3>2. downs = <<c, s>>
        <4> HIDE DEF down
        <4> QED
          BY <3>1
      <3>3. FlattenSeq(downs) = c \o s
        BY <3>2, Flattened
      <3>4. c \o s \in Seq(S) /\ ToSet(c \o s) = ToSet(c) \cup ToSet(s)
        <4> HIDE DEF down, S, entry
        <4> QED
          BY <1>7, <1>8, <2>1, JoinedSets
      <3> QED
        BY <2>1, <3>3, <3>4
    <2>2. CASE Has("classic") /\ ~Has("slinky")
      <3>1. ClusterLabels = <<setup.name>>
        BY <2>2, Joined DEF ClusterLabels
      <3>2. downs = <<c>>
        <4> HIDE DEF down
        <4> QED
          BY <3>1
      <3> QED
        BY <1>7, <2>2, <3>2, Flattened
    <2>3. CASE ~Has("classic") /\ Has("slinky")
      <3>1. ClusterLabels = <<"slinky">>
        BY <2>3, Joined DEF ClusterLabels
      <3>2. downs = <<s>>
        <4> HIDE DEF down
        <4> QED
          BY <3>1
      <3> QED
        BY <1>8, <2>3, <3>2, Flattened
    <2>4. CASE ~Has("classic") /\ ~Has("slinky")
      <3>1. ClusterLabels = <<>>
        BY <2>4, Joined DEF ClusterLabels
      <3>2. downs = <<>>
        BY <3>1
      <3> QED
        BY <1>4, <2>4, <3>2, Flattened
    <2> QED
      BY <2>1, <2>2, <2>3, <2>4
  <1> HIDE DEF down, kube, downs, S
  <1>10. Unavailable \in Seq(S) /\ ToSet(Unavailable) = ToSet(kube) \cup slurms
    <2> HIDE DEF slurms
    <2> QED
      BY <1>1, <1>6, <1>9, JoinedSets
  <1> HIDE DEF entry
  <1>11. slurms = (IF Has("classic") THEN ToSet(c) ELSE {})
                  \cup (IF Has("slinky") THEN ToSet(s) ELSE {})
    OBVIOUS
  <1> HIDE DEF c, s, slurms
  <1> QED
    BY <1>6, <1>7, <1>8, <1>10, <1>11 DEF S, entry

\* A source that is set up is reported when it does not answer, and only then.
LEMMA Reported ==
    ASSUME SetupInv, OwnName, NEW src \in Sources, Has(src)
    PROVE  (\E u \in ToSet(Unavailable) : u.component = Component(src)) <=> src \notin up
  <1> DEFINE entry(label, component) == Report(label, component)
             kube == IF Has("kubernetes") /\ "kubernetes" \notin up
                     THEN {entry("kubernetes", "kube-apiserver")} ELSE {}
             c == IF Has("classic")
                  THEN IF "classic" \notin up THEN {entry(setup.name, "slurmctld")}
                       ELSE IF "slurmdbd" \notin up THEN {entry(setup.name, "slurmdbd")} ELSE {}
                  ELSE {}
             s == IF Has("slinky") /\ "slinky" \notin up THEN {entry("slinky", "slurmrestd")} ELSE {}
  <1>10. ToSet(Unavailable) = kube \cup (c \cup s)
    BY UnavailableIs
  <1>11. /\ entry("kubernetes", "kube-apiserver").component = "kube-apiserver"
         /\ entry(setup.name, "slurmctld").component = "slurmctld"
         /\ entry(setup.name, "slurmdbd").component = "slurmdbd"
         /\ entry("slinky", "slurmrestd").component = "slurmrestd"
    BY DEF Report
  <1>12. /\ Component("classic") = "slurmctld" /\ Component("slinky") = "slurmrestd"
         /\ Component("kubernetes") = "kube-apiserver"
    BY DEF Component
  <1> HIDE DEF entry
  <1>13. (\E u \in kube : u.component = Component(src)) <=> src = "kubernetes" /\ src \notin up
    BY <1>11, <1>12 DEF Sources
  <1>14. (\E u \in c : u.component = Component(src)) <=> src = "classic" /\ src \notin up
    BY <1>11, <1>12 DEF Sources
  <1>15. (\E u \in s : u.component = Component(src)) <=> src = "slinky" /\ src \notin up
    BY <1>11, <1>12 DEF Sources
  <1> HIDE DEF kube, c, s
  <1> QED
    BY <1>10, <1>13, <1>14, <1>15 DEF Sources

\* Unless the classic cluster is called slinky, every node of a configured source is
\* listed exactly once, or its source is reported, whatever fails.  Under that name
\* the sources share one key of slurmSources' map and the classic nodes are lost.
THEOREM NoNodeIsLost ==
    ASSUME OwnName
    PROVE  Spec => []NoNodeLost
  <1>1. IInv => NoNodeLost
    <2> SUFFICES ASSUME IInv, NEW n \in Nodes, Has(OwnerOf(n))
                 PROVE  LET all     == ListNodes
                            listed  == {i \in DOMAIN all : all[i].node = n}
                            reports == {u \in ToSet(Unavailable) : u.component = Component(OwnerOf(n))}
                        IN  Cardinality(listed) = IF reports = {} THEN 1 ELSE 0
      BY Owners DEF NoNodeLost, Nodes, Component, Sources
    <2> DEFINE all     == ListNodes
               listed  == {i \in DOMAIN all : all[i].node = n}
               reports == {u \in ToSet(Unavailable) : u.component = Component(OwnerOf(n))}
    <2>1. reports = {} <=> OwnerOf(n) \in up
      BY Reported, Owners DEF IInv
    <2>2. Lists(all, Readable)
      BY ListsReadable DEF IInv
    <2> HIDE DEF all, reports
    <2>3. CASE OwnerOf(n) \in up
      <3>1. n \in Readable
        BY <2>3 DEF Readable
      <3>2. PICK i \in DOMAIN all : all[i].node = n
        BY <2>2, <3>1 DEF Lists
      <3>3. listed = {i}
        BY <2>2, <3>2 DEF Lists
      <3> QED
        BY <2>1, <2>3, <3>3, FS_Singleton DEF all, reports
    <2>4. CASE OwnerOf(n) \notin up
      <3>1. listed = {}
        BY <2>2, <2>4 DEF Lists, Readable
      <3> QED
        BY <2>1, <2>4, <3>1, FS_EmptySet DEF all, reports
    <2> QED
      BY <2>3, <2>4
  <1> QED
    BY <1>1, Inductive, PTL

-------------------------------------------------------------------------------
(* What is listed is found *)

\* Two labels that list one node are the same.
LEMMA OneLabel ==
    ASSUME NEW i \in DOMAIN Order, NEW j \in DOMAIN Order, NEW n,
           n \in NodesOf(Order[i]), n \in NodesOf(Order[j])
    PROVE  Order[i] = Order[j]
  <1>1. SourceOf(Order[i]) = SourceOf(Order[j])
    BY UniqueNames DEF NodesOf, SourceOf
  <1>2. CASE Order = <<setup.name, "slinky">> /\ Has("slinky")
    <2>1. Order[i] \in {setup.name, "slinky"} /\ Order[j] \in {setup.name, "slinky"}
      BY OrderLabels
    <2> QED
      BY <1>1, <1>2, <2>1 DEF SourceOf
  <1>3. CASE Order = <<setup.name>>
    BY <1>3
  <1>4. CASE Order = <<"slinky">>
    BY <1>4
  <1>5. CASE Order = <<>>
    BY <1>5
  <1> QED
    BY <1>2, <1>3, <1>4, <1>5, OrderForms

\* list_nodes lists what locate finds, in the cluster where it finds it.
LEMMA LocateListed ==
    ASSUME NEW n \in Nodes, NEW c
    PROVE  [node |-> n, cluster |-> c] \in ToSet(ListNodes)
              <=> Locate(n).scheduler # "none" /\ Locate(n).cluster = c
  <1> DEFINE hits == {i \in DOMAIN Order : n \in NodesOf(Order[i])}
             first == CHOOSE i \in hits : \A j \in hits : i <= j
             kube == KubeRead /\ n \in KubeNodes
  <1>1. [node |-> n, cluster |-> c] \in ToSet(ListNodes)
           <=> (\E i \in hits : c = Order[i]) \/ (kube /\ c = "kubernetes")
    BY ListsEntries DEF InSlurm
  <1>2. CASE hits # {}
    <2>1. hits \subseteq 1..2
      BY OrderLabels
    <2>2. \E i \in hits : \A j \in hits : i <= j
      <3> HIDE DEF hits, first
      <3>1. CASE 1 \in hits
        BY <2>1, <3>1
      <3>2. CASE 1 \notin hits
        <4>1. \A i \in hits : i = 2
          BY <2>1, <3>2
        <4>2. PICK i \in hits : TRUE
          BY <1>2
        <4> QED
          BY <4>1, <4>2
      <3> QED
        BY <3>1, <3>2
    <2>3. first \in hits
      BY <2>2
    <2>4. Locate(n) = [scheduler |-> "slurm", cluster |-> Order[first]]
      BY <1>2 DEF Locate
    <2> HIDE DEF first
    <2>5. \A i \in hits : Order[i] = Order[first]
      BY <2>3, OneLabel
    <2>6. ~kube
      BY <1>2, UniqueNames DEF NodesOf, SlurmNodes
    <2> HIDE DEF hits, kube
    <2> QED
      BY <1>1, <2>3, <2>4, <2>5, <2>6
  <1>3. CASE hits = {}
    <2>1. kube => Locate(n) = [scheduler |-> "kubernetes", cluster |-> "kubernetes"]
      BY <1>3 DEF Locate
    <2>2. ~kube => Locate(n) = [scheduler |-> "none", cluster |-> "none"]
      BY <1>3 DEF Locate
    <2> HIDE DEF hits, kube
    <2> QED
      BY <1>1, <1>3, <2>1, <2>2
  <1> QED
    BY <1>2, <1>3

\* locate names the scheduler that has the node.
LEMMA LocateKinds ==
    ASSUME NEW n \in Nodes, Locate(n).scheduler # "none"
    PROVE  \/ Locate(n).scheduler = "slurm" /\ n \in SlurmNodes
           \/ Locate(n).scheduler = "kubernetes" /\ n \in KubeNodes /\ KubeRead
  <1> DEFINE hits == {i \in DOMAIN Order : n \in NodesOf(Order[i])}
  <1>1. CASE hits # {}
    <2>1. Locate(n).scheduler = "slurm"
      BY <1>1 DEF Locate
    <2>2. n \in SlurmNodes
      BY <1>1 DEF NodesOf, SlurmNodes
    <2> QED
      BY <2>1, <2>2
  <1>2. CASE hits = {}
    BY <1>2 DEF Locate
  <1> QED
    BY <1>1, <1>2

\* list_nodes, triage_node and triage_cluster tell one story, whatever is
\* unreachable, and whatever the clusters are called.
THEOREM AnswersAlwaysAgree == Spec => []AnswersAgree
  <1>1. AnswersAgree
    <2> DEFINE all == ListNodes
               rec(m) == IF m \in KubeNodes THEN AssessKube(ViewOf(m)) ELSE SlurmAdvice(m)
    <2>1. all \in Seq(Entry)
      BY ListsEntries
    <2> HIDE DEF all, rec
    <2>2. \A i \in DOMAIN all : /\ all[i].node \in Nodes
                                /\ all[i] = [node |-> all[i].node, cluster |-> all[i].cluster]
      <3>1. \A i \in DOMAIN all : all[i] \in Entry
        BY <2>1
      <3> QED
        BY <3>1 DEF Entry
    <2>3. \A i \in DOMAIN all : Locate(all[i].node).cluster = all[i].cluster
      <3> SUFFICES ASSUME NEW i \in DOMAIN all
                   PROVE  Locate(all[i].node).cluster = all[i].cluster
        OBVIOUS
      <3>1. [node |-> all[i].node, cluster |-> all[i].cluster] \in ToSet(ListNodes)
        BY <2>2 DEF ToSet, all
      <3> QED
        BY <2>2, <3>1, LocateListed
    <2>4. \A entry \in ToSet(ListNodes) : Locate(entry.node).cluster = entry.cluster
      BY <2>3 DEF ToSet, all
    <2>5. ASSUME NEW n \in Nodes, Locate(n).scheduler # "none"
          PROVE  \E r \in ToSet(NodeRecs) : /\ r.node = n
                                            /\ r.cluster = Locate(n).cluster
                                            /\ r.rec = Assess(n)
      <3>1. [node |-> n, cluster |-> Locate(n).cluster] \in ToSet(ListNodes)
        BY <2>5, LocateListed
      <3>2. PICK i \in DOMAIN all : all[i] = [node |-> n, cluster |-> Locate(n).cluster]
        BY <3>1 DEF ToSet, all
      <3>3. rec(n) = Assess(n)
        BY <2>5, LocateKinds, Owners DEF Assess, rec
      <3>4. NodeRecs = [j \in DOMAIN all |-> [node |-> all[j].node, cluster |-> all[j].cluster,
                                             rec |-> rec(all[j].node), blames |-> {}]]
        BY DEF NodeRecs, all, rec
      <3>a. all[i].node = n /\ all[i].cluster = Locate(n).cluster
        BY <3>2
      <3>5. i \in DOMAIN NodeRecs
            /\ NodeRecs[i] = [node |-> n, cluster |-> Locate(n).cluster, rec |-> rec(n), blames |-> {}]
        BY <3>4, <3>a
      <3>6. NodeRecs[i] \in ToSet(NodeRecs)
        BY <3>5 DEF ToSet
      <3> QED
        BY <3>3, <3>5, <3>6
    <2> QED
      BY <2>4, <2>5 DEF AnswersAgree, Nodes
  <1> QED
    BY <1>1, PTL

-------------------------------------------------------------------------------
(* What triage goes by is there to be seen *)

\* A node that is drained is waited for because of the jobs on it, unless the
\* operator drained it.
LEMMA WaitsForJobs ==
    ASSUME NEW n, NEW k, NEW h,
           n.flags \subseteq {"DRAIN"}, "terminating" \notin n.reason, "batch" \in n.parts,
           AssessSlurm(n, k, h).action = "wait",
           AssessSlurm(n, k, h).category # "kubernetes_managed"
    PROVE  n.jobs # {}
  <1> DEFINE cat     == Classify(n.reason)
             chronic == h.read /\ h.chronic
             r       == AssessSlurm(n, k, h)
  <1> USE DEF Rec, Confirm
  <1>1. CASE n.pod /\ cat = "kubernetes_managed"
    <2>1. r = KubernetesManaged(n, k)
      BY <1>1 DEF AssessSlurm
    <2>2. r.category = "kubernetes_managed"
      BY <2>1 DEF KubernetesManaged
    <2> QED
      BY <2>2
  <1>2. CASE ~(n.pod /\ cat = "kubernetes_managed")
    <2>1. Drain(n, cat, chronic).action = "wait" => n.jobs # {}
      BY DEF Drain
    <2>2. OnTroubledKubeNode(k).action # "wait" /\ Hardware(n).action # "wait"
      BY DEF OnTroubledKubeNode, Hardware
    <2>3. \/ r = Hardware(n) \/ r = Drain(n, cat, chronic) \/ r = OnTroubledKubeNode(k)
          \/ r = Rec("drain", "warning", cat) \/ r = Rec("none", "info", cat)
      BY <1>2 DEF AssessSlurm, InQualification
    <2> QED
      BY <2>1, <2>2, <2>3
  <1> QED
    BY <1>1, <1>2

\* Which views of a Kubernetes node these answers come from.
LEMMA KubeGrounds ==
    ASSUME NEW k
    PROVE  /\ AssessKube(k).category = "kernel_events" => k.kernelEvents >= KubeEventThreshold
           /\ AssessKube(k).action = "investigate" /\ AssessKube(k).category = "maintenance"
                 => BlockingPDBs(k) # {}
  <1> DEFINE named == Classify(k.reason)
             cat   == IF named = "none" THEN "other" ELSE named
  <1>1. cat # "kernel_events"
    BY ClassifyType DEF PatternCategories
  <1>2. Cordoned(k).category = cat
    BY DEF Cordoned, Rec, Confirm
  <1>3. Cordoned(k).action = "investigate" /\ cat = "maintenance" => BlockingPDBs(k) # {}
    BY DEF Cordoned, Rec, Confirm
  <1> HIDE DEF named, cat
  <1> QED
    BY <1>1, <1>2, <1>3 DEF AssessKube, AssessKubeBy, Rec

\* The jobs triage_node waits for, the budgets and pods that block a drain and the
\* kernel warnings it counted are in node_detail's answer.
THEOREM AdviceIsShown == Spec => []AdviceShows
  <1>1. IInv => AdviceShows
    <2> SUFFICES ASSUME IInv, NEW n \in Nodes, Locate(n).scheduler # "none"
                 PROVE  LET r == Assess(n)  d == NodeDetail(n)
                        IN  IF Locate(n).scheduler = "slurm"
                            THEN r.action = "wait" /\ r.category # "kubernetes_managed" => d.running # {}
                            ELSE /\ r.category = "kernel_events" => Total(d.events) >= KubeEventThreshold
                                 /\ "cordoned" \in d.state /\ r.action = "investigate" /\ r.category = "maintenance" =>
                                       \E b \in d.pdbs : b.allowed <= 0 /\ \E p \in d.pods : Covers(b, p)
      BY DEF AdviceShows, Nodes
    <2>1. CASE Locate(n).scheduler = "slurm"
      <3>1. n \in SlurmNodes
        BY <2>1, LocateKinds
      <3>2. slurm[n].flags \subseteq {"DRAIN"} /\ "terminating" \notin slurm[n].reason
        BY <3>1 DEF IInv, WorldType, SlurmRecords
      <3>3. SlurmAdvice(n).action = "wait" /\ SlurmAdvice(n).category # "kubernetes_managed" => JobsOn(n) # {}
        BY <3>2, WaitsForJobs DEF SlurmAdvice
      <3>4. Assess(n) = SlurmAdvice(n) /\ NodeDetail(n).running = JobsOn(n)
        BY <2>1 DEF Assess, NodeDetail
      <3> QED
        BY <2>1, <3>3, <3>4
    <2>2. CASE Locate(n).scheduler # "slurm"
      <3>1. n \in KubeNodes /\ KubeRead
        BY <2>2, LocateKinds
      <3> DEFINE v == ViewOf(n)  d == NodeDetail(n)
      <3>2. /\ v.kernelEvents = KernelEvents(kevents, n)
            /\ v.pods = WorkloadPods(pods, n)
            /\ v.pdbs = {[allowed |-> b.allowed, covers |-> {p \in pods : Covers(b, p)}] : b \in pdbs}
        BY <3>1 DEF ViewOf, KubeView
      <3>3. /\ d.events = {e \in kevents : e.node = n}
            /\ d.pods = WorkloadPods(pods, n) /\ d.pdbs = Budgets(n)
        BY <2>2 DEF NodeDetail
      <3>4. KernelEvents(kevents, n) = Total(d.events)
        <4>1. {e \in kevents : e.node = n /\ e.type = "Warning" /\ e.reason \in NPDKernelEvents} = d.events
          BY <3>3 DEF IInv, WorldType, NPDKernelEvents
        <4> HIDE DEF d
        <4> QED
          BY <4>1 DEF KernelEvents
      <3>5. BlockingPDBs(v) # {} =>
               \E b \in d.pdbs : b.allowed <= 0 /\ \E p \in d.pods : Covers(b, p)
        <4> SUFFICES ASSUME NEW shown \in BlockingPDBs(v)
                     PROVE  \E b \in d.pdbs : b.allowed <= 0 /\ \E p \in d.pods : Covers(b, p)
          OBVIOUS
        <4>1. shown \in v.pdbs /\ shown.allowed <= 0 /\ shown.covers \cap v.pods # {}
          BY DEF BlockingPDBs
        <4>2. PICK b \in pdbs : shown = [allowed |-> b.allowed, covers |-> {p \in pods : Covers(b, p)}]
          BY <3>2, <4>1
        <4>3. PICK p \in WorkloadPods(pods, n) : Covers(b, p)
          BY <3>2, <4>1, <4>2
        <4> QED
          BY <3>3, <4>1, <4>2, <4>3 DEF Budgets
      <3>6. Assess(n) = AssessKube(v)
        BY <3>1, KubeNodeAssessed
      <3> HIDE DEF v, d
      <3> QED
        BY <2>2, <3>2, <3>4, <3>5, <3>6, KubeGrounds DEF d
    <2> QED
      BY <2>1, <2>2
  <1> QED
    BY <1>1, Inductive, PTL


-------------------------------------------------------------------------------
(* What is ranked *)

\* Among goes through the recommendations, one after the other.
LEMMA AmongSteps ==
    ASSUME NEW R, NEW recs \in Seq(R), NEW kept
    PROVE  \E g : /\ Among(recs, kept) = g[Len(recs)] /\ g[0] = <<>>
                  /\ \A k \in 1..Len(recs) :
                        g[k] = IF recs[k] \in kept THEN Append(g[k - 1], recs[k]) ELSE g[k - 1]
  <1> DEFINE n == Len(recs)
             op(x, acc) == IF recs[x] \in kept THEN Append(acc, recs[x]) ELSE acc
             F == [p \in (1..n) \X Seq(R) |-> op(p[1], p[2])]
             Is(h) == h = [s \in SUBSET DOMAIN recs |->
                              IF s = {} THEN <<>> ELSE op(Max(s), h[s \ {Max(s)}])]
             iter == CHOOSE h : Is(h)
  <1>1. n \in Nat /\ DOMAIN recs = 1..n
    OBVIOUS
  <1>2. Among(recs, kept) = iter[DOMAIN recs]
    BY DEF Among, FoldLeft, MapThenFoldSet
  <1>3. F \in [(1..n) \X Seq(R) -> Seq(R)]
    OBVIOUS
  <1>4. <<>> \in Seq(R)
    OBVIOUS
  <1>5. \A x \in 1..n, acc \in Seq(R) : F[<<x, acc>>] = op(x, acc)
    OBVIOUS
  <1> HIDE DEF n, op, F
  <1>6. PICK h \in [SUBSET (1..n) -> Seq(R)] : IsFold(h, n, <<>>, F)
    BY <1>1, <1>3, <1>4, FoldExists
  <1>7. Is(h)
    <2>1. ASSUME NEW s \in SUBSET (1..n)
          PROVE  h[s] = IF s = {} THEN <<>> ELSE op(Max(s), h[s \ {Max(s)}])
      <3>1. CASE s = {}
        BY <1>6, <3>1 DEF IsFold
      <3>2. CASE s # {}
        <4>1. Max(s) \in 1..n
          BY <1>1, <3>2, MaxOfSubset
        <4>2. h[s \ {Max(s)}] \in Seq(R)
          BY <1>6
        <4>3. h[s] = F[<<Max(s), h[s \ {Max(s)}]>>]
          BY <1>6, <3>2 DEF IsFold
        <4> QED
          BY <1>5, <3>2, <4>1, <4>2, <4>3
      <3> QED
        BY <3>1, <3>2
    <2> QED
      BY <1>1, <1>6, <2>1
  <1>8. Is(iter)
    BY <1>7
  <1> HIDE DEF iter
  <1> DEFINE g == [k \in 0..n |-> iter[1..k]]
  <1>9. g[0] = <<>>
    <2>1. 1..0 = {} /\ 0 \in 0..n
      BY <1>1
    <2> QED
      BY <1>8, <2>1
  <1>10. ASSUME NEW k \in 1..n
         PROVE  g[k] = op(k, g[k - 1])
    <2>1. 1..k # {} /\ Max(1..k) = k /\ (1..k) \ {k} = 1..(k - 1)
      BY MaxOfPrefix
    <2>2. 1..k \in SUBSET DOMAIN recs /\ k \in 0..n /\ k - 1 \in 0..n
      BY <1>1
    <2>3. iter[1..k] = op(k, iter[1..(k - 1)])
      BY <1>8, <2>1, <2>2
    <2> QED
      BY <2>2, <2>3
  <1>11. Among(recs, kept) = g[n]
    BY <1>1, <1>2
  <1> HIDE DEF g
  <1> QED
    BY <1>9, <1>10, <1>11 DEF op, n

\* The severities of a list do not rise.
Falling(s) == \A i, j \in DOMAIN s : i < j => Rank(s[i].rec.severity) >= Rank(s[j].rec.severity)

\* s is what is kept of the first k recommendations.
KeptOf(s, recs, kept, R, k) ==
    /\ s \in Seq(R)
    /\ ToSet(s) = {recs[i] : i \in 1..k} \cap kept
    /\ Len(s) = Cardinality({i \in 1..k : recs[i] \in kept})
    /\ Falling(recs) => Falling(s)

\* One more recommendation.
LEMMA KeptStep ==
    ASSUME NEW R, NEW recs \in Seq(R), NEW kept, NEW k \in Nat, k + 1 \in DOMAIN recs,
           NEW s, KeptOf(s, recs, kept, R, k)
    PROVE  KeptOf(IF recs[k + 1] \in kept THEN Append(s, recs[k + 1]) ELSE s, recs, kept, R, k + 1)
  <1> DEFINE x == recs[k + 1]
             before == {recs[i] : i \in 1..k}
             at == {i \in 1..k : recs[i] \in kept}
             n == Len(s)
  <1>1. /\ s \in Seq(R) /\ n \in Nat /\ DOMAIN s = 1..n
        /\ ToSet(s) = before \cap kept /\ n = Cardinality(at) /\ (Falling(recs) => Falling(s))
    BY DEF KeptOf
  <1>2. x \in R /\ DOMAIN recs = 1..Len(recs) /\ Len(recs) \in Nat
    OBVIOUS
  <1>3. IsFiniteSet(at)
    <2>1. at \in SUBSET (1..k) /\ IsFiniteSet(1..k)
      BY FS_Interval
    <2> QED
      BY <2>1, FS_Subset
  <1>4. 1..(k + 1) = (1..k) \cup {k + 1} /\ k + 1 \notin 1..k
    OBVIOUS
  <1>5. {recs[i] : i \in 1..(k + 1)} = before \cup {x}
    BY <1>4
  <1>6. {i \in 1..(k + 1) : recs[i] \in kept} = IF x \in kept THEN at \cup {k + 1} ELSE at
    BY <1>4
  <1>7. k + 1 \notin at
    OBVIOUS
  <1> HIDE DEF before, at
  <1>8. CASE x \notin kept
    BY <1>1, <1>2, <1>5, <1>6, <1>8 DEF KeptOf
  <1>9. CASE x \in kept
    <2> DEFINE t == Append(s, x)
    <2>1. /\ t \in Seq(R) /\ Len(t) = n + 1 /\ DOMAIN t = 1..(n + 1) /\ t[n + 1] = x
          /\ \A i \in 1..n : t[i] = s[i]
      BY <1>1, <1>2
    <2> HIDE DEF t, n
    <2>2. \A i \in 1..(n + 1) : i \in 1..n \/ i = n + 1
      BY <1>1
    <2>3. \A i \in 1..n : i \in 1..(n + 1)
      BY <1>1
    <2>a. n + 1 \in 1..(n + 1)
      BY <1>1
    <2>4. ToSet(t) = ToSet(s) \cup {x}
      BY <1>1, <2>1, <2>2, <2>3, <2>a DEF ToSet
    <2>5. ToSet(t) = (before \cup {x}) \cap kept
      BY <1>1, <1>9, <2>4
    <2>6. Len(t) = Cardinality(at \cup {k + 1})
      BY <1>1, <1>3, <1>7, <2>1, FS_AddElement
    <2>7. ASSUME Falling(recs) PROVE Falling(t)
      <3>1. ASSUME NEW i \in 1..n, NEW j \in 1..n, i < j
            PROVE  Rank(t[i].rec.severity) >= Rank(t[j].rec.severity)
        BY <1>1, <2>1, <2>7, <3>1 DEF Falling
      <3>2. ASSUME NEW i \in 1..n PROVE Rank(t[i].rec.severity) >= Rank(x.rec.severity)
        <4>1. s[i] \in before
          BY <1>1 DEF ToSet
        <4>2. PICK m \in 1..k : s[i] = recs[m]
          BY <4>1 DEF before
        <4>3. m \in DOMAIN recs /\ m < k + 1
          BY <1>2
        <4> QED
          BY <2>1, <2>7, <4>2, <4>3 DEF Falling
      <3>3. \A i, j \in 1..(n + 1) : i < j => i \in 1..n /\ (j \in 1..n \/ j = n + 1)
        BY <1>1
      <3> QED
        BY <2>1, <3>1, <3>2, <3>3 DEF Falling
    <2> QED
      BY <1>5, <1>6, <1>9, <2>1, <2>5, <2>6, <2>7 DEF KeptOf, t
  <1> QED
    BY <1>8, <1>9

\* What Among keeps: those that are in kept, as often as they are there, in their
\* order of severity.
LEMMA AmongKept ==
    ASSUME NEW R, NEW recs \in Seq(R), NEW kept
    PROVE  KeptOf(Among(recs, kept), recs, kept, R, Len(recs))
  <1> DEFINE n == Len(recs)
  <1>1. n \in Nat /\ DOMAIN recs = 1..n
    OBVIOUS
  <1>2. PICK g : /\ Among(recs, kept) = g[n] /\ g[0] = <<>>
                 /\ \A k \in 1..n :
                       g[k] = IF recs[k] \in kept THEN Append(g[k - 1], recs[k]) ELSE g[k - 1]
    BY AmongSteps
  <1> DEFINE Q(k) == k <= n => KeptOf(g[k], recs, kept, R, k)
             P == {k \in Nat : Q(k)}
  <1> HIDE DEF n, Q
  <1>3. Q(0)
    <2>1. /\ 1..0 = {} /\ <<>> \in Seq(R) /\ Len(<<>>) = 0 /\ DOMAIN <<>> = {}
      OBVIOUS
    <2>2. {i \in 1..0 : recs[i] \in kept} = {} /\ {recs[i] : i \in 1..0} = {}
      BY <2>1
    <2>3. ToSet(<<>>) = {} /\ Falling(<<>>)
      BY DEF ToSet, Falling
    <2>4. KeptOf(<<>>, recs, kept, R, 0)
      BY <2>1, <2>2, <2>3, FS_EmptySet DEF KeptOf
    <2> QED
      BY <1>2, <2>4 DEF Q
  <1>4. ASSUME NEW k \in Nat, Q(k) PROVE Q(k + 1)
    <2> SUFFICES ASSUME k + 1 <= n PROVE KeptOf(g[k + 1], recs, kept, R, k + 1)
      BY DEF Q
    <2>1. k + 1 \in 1..n /\ (k + 1) - 1 = k /\ k <= n
      BY <1>1
    <2>2. KeptOf(g[k], recs, kept, R, k)
      BY <1>4, <2>1 DEF Q
    <2>3. g[k + 1] = IF recs[k + 1] \in kept THEN Append(g[k], recs[k + 1]) ELSE g[k]
      BY <1>2, <2>1
    <2> QED
      BY <1>1, <2>1, <2>2, <2>3, KeptStep
  <1>5. n \in P
    <2>1. 0 \in P /\ \A k \in Nat : k \in P => k + 1 \in P
      BY <1>3, <1>4
    <2> HIDE DEF P
    <2> QED
      BY <1>1, <2>1, SetInduction
  <1>6. Q(n) /\ n <= n
    BY <1>1, <1>5
  <1>7. KeptOf(g[n], recs, kept, R, n)
    BY <1>6, Zenon DEF Q
  <1> QED
    BY <1>2, <1>7 DEF n

\* Two lists one after the other, the first no less severe than the second.
LEMMA FallingJoined ==
    ASSUME NEW R, NEW s \in Seq(R), NEW t \in Seq(R), Falling(s), Falling(t),
           \A x \in ToSet(s), y \in ToSet(t) : Rank(x.rec.severity) >= Rank(y.rec.severity)
    PROVE  Falling(s \o t)
  <1> DEFINE u == s \o t
             n == Len(s)
             rank(x) == Rank(x.rec.severity)
  <1>1. /\ n \in Nat /\ Len(t) \in Nat
        /\ DOMAIN u = 1..(n + Len(t)) /\ DOMAIN s = 1..n /\ DOMAIN t = 1..Len(t)
        /\ \A i \in 1..n : u[i] = s[i]
        /\ \A i \in 1..Len(t) : u[n + i] = t[i]
    OBVIOUS
  <1> HIDE DEF u, n
  <1> SUFFICES ASSUME NEW i \in DOMAIN u, NEW j \in DOMAIN u, i < j
               PROVE  rank(u[i]) >= rank(u[j])
    BY DEF Falling, u
  <1>2. /\ i \in 1..n \/ (i - n \in 1..Len(t) /\ n + (i - n) = i)
        /\ j \in 1..n \/ (j - n \in 1..Len(t) /\ n + (j - n) = j)
    BY <1>1
  <1>3. CASE i \in 1..n /\ j \in 1..n
    BY <1>1, <1>3 DEF Falling
  <1>4. CASE i \in 1..n /\ j - n \in 1..Len(t) /\ n + (j - n) = j
    <2>1. u[i] = s[i] /\ u[j] = t[j - n]
      BY <1>1, <1>4
    <2>2. s[i] \in ToSet(s) /\ t[j - n] \in ToSet(t)
      BY <1>1, <1>4 DEF ToSet
    <2> QED
      BY <2>1, <2>2
  <1>5. CASE i - n \in 1..Len(t) /\ n + (i - n) = i /\ j - n \in 1..Len(t) /\ n + (j - n) = j
    <2>1. u[i] = t[i - n] /\ u[j] = t[j - n] /\ i - n < j - n
      BY <1>1, <1>5
    <2> QED
      BY <1>1, <1>5, <2>1 DEF Falling
  <1>6. ~(i - n \in 1..Len(t) /\ j \in 1..n)
    BY <1>1
  <1> QED
    BY <1>2, <1>3, <1>4, <1>5, <1>6

\* Ranking keeps the recommendations and puts them in order of severity.
LEMMA RankedIs ==
    ASSUME NEW R, NEW recs \in Seq(R)
    PROVE  /\ Ranked(recs) \in Seq(R) /\ Len(Ranked(recs)) = Len(recs)
           /\ ToSet(Ranked(recs)) = ToSet(recs) /\ Falling(Ranked(recs))
  <1> DEFINE n == Len(recs)
             rank(x) == Rank(x.rec.severity)
             of(k) == {x \in ToSet(recs) : rank(x) = k}
             at(k) == {i \in 1..n : recs[i] \in of(k)}
             a == Among(recs, of(2))
             b == Among(recs, of(1))
             c == Among(recs, of(0))
  <1>1. n \in Nat /\ DOMAIN recs = 1..n /\ ToSet(recs) = {recs[i] : i \in 1..n}
    BY DEF ToSet
  <1>2. Ranked(recs) = a \o b \o c
    BY DEF Ranked
  <1>3. \A x : rank(x) \in {0, 1, 2}
    BY DEF Rank
  <1> HIDE DEF rank
  <1>4. ASSUME NEW k
        PROVE  /\ Among(recs, of(k)) \in Seq(R)
               /\ ToSet(Among(recs, of(k))) = of(k)
               /\ Len(Among(recs, of(k))) = Cardinality(at(k))
    <2>1. KeptOf(Among(recs, of(k)), recs, of(k), R, n)
      BY AmongKept
    <2> QED
      BY <1>1, <2>1 DEF KeptOf
  <1>5. \A s : (\E k \in {0, 1, 2} : ToSet(s) = of(k)) => Falling(s)
    <2> SUFFICES ASSUME NEW s, NEW k \in {0, 1, 2}, ToSet(s) = of(k) PROVE Falling(s)
      OBVIOUS
    <2>1. \A i \in DOMAIN s : rank(s[i]) = k
      BY DEF ToSet
    <2> QED
      BY <2>1 DEF Falling, rank
  <1>6. /\ a \in Seq(R) /\ ToSet(a) = of(2) /\ Len(a) = Cardinality(at(2)) /\ Falling(a)
        /\ b \in Seq(R) /\ ToSet(b) = of(1) /\ Len(b) = Cardinality(at(1)) /\ Falling(b)
        /\ c \in Seq(R) /\ ToSet(c) = of(0) /\ Len(c) = Cardinality(at(0)) /\ Falling(c)
    BY <1>4, <1>5
  <1> HIDE DEF a, b, c
  <1>7. /\ a \o b \in Seq(R) /\ Len(a \o b) = Len(a) + Len(b)
    <2>1. a \in Seq(R) /\ b \in Seq(R)
      BY <1>6
    <2> QED
      BY <2>1
  <1> DEFINE ab == a \o b
  <1>a. ab \in Seq(R) /\ c \in Seq(R) /\ Len(ab) = Len(a) + Len(b)
    BY <1>6, <1>7
  <1> HIDE DEF ab
  <1>b. ab \o c \in Seq(R) /\ Len(ab \o c) = Len(a) + Len(b) + Len(c)
    BY <1>a
  <1>8. ToSet(ab) = of(2) \cup of(1)
    <2>1. ToSet(a \o b) = ToSet(a) \cup ToSet(b)
      BY <1>6, JoinedSets
    <2> QED
      BY <1>6, <2>1 DEF ab
  <1>9. ToSet(ab \o c) = of(2) \cup of(1) \cup of(0)
    <2>1. ToSet(ab \o c) = ToSet(ab) \cup ToSet(c)
      BY <1>a, JoinedSets
    <2> QED
      BY <1>6, <1>8, <2>1
  <1>10. Falling(ab)
    <2>1. \A x \in ToSet(a), y \in ToSet(b) : Rank(x.rec.severity) >= Rank(y.rec.severity)
      BY <1>6 DEF rank
    <2> QED
      BY <1>6, <2>1, FallingJoined DEF ab
  <1>11. Falling(ab \o c)
    <2>1. \A x \in ToSet(ab), y \in ToSet(c) : Rank(x.rec.severity) >= Rank(y.rec.severity)
      BY <1>6, <1>8 DEF rank
    <2> QED
      BY <1>6, <1>a, <1>10, <2>1, FallingJoined
  <1>12. of(2) \cup of(1) \cup of(0) = ToSet(recs)
    BY <1>3
  <1>13. Cardinality(at(2)) + Cardinality(at(1)) + Cardinality(at(0)) = n
    <2>1. IsFiniteSet(1..n) /\ Cardinality(1..n) = n
      BY <1>1, FS_Interval
    <2>2. \A k : at(k) \in SUBSET (1..n)
      OBVIOUS
    <2>3. \A k : IsFiniteSet(at(k)) /\ Cardinality(at(k)) \in Nat
      BY <2>1, <2>2, FS_Subset, FS_CardinalityType
    <2>4. at(2) \cup at(1) \cup at(0) = 1..n
      BY <1>1, <1>12
    <2>5. at(2) \cap at(1) = {} /\ (at(2) \cup at(1)) \cap at(0) = {}
      OBVIOUS
    <2> HIDE DEF at
    <2>6. /\ IsFiniteSet(at(2) \cup at(1))
          /\ Cardinality(at(2) \cup at(1)) = Cardinality(at(2)) + Cardinality(at(1))
      BY <2>3, <2>5, DisjointUnion
    <2>7. Cardinality((at(2) \cup at(1)) \cup at(0))
             = Cardinality(at(2) \cup at(1)) + Cardinality(at(0))
      BY <2>3, <2>5, <2>6, DisjointUnion
    <2> QED
      BY <2>1, <2>4, <2>6, <2>7
  <1> QED
    BY <1>2, <1>6, <1>b, <1>9, <1>11, <1>12, <1>13 DEF ab

\* The recommendations that triage_cluster ranks: the nodes' and the components'.
LEMMA AllRankedIs ==
    ASSUME SetupInv
    PROVE  LET R == ToSet(NodeRecs) \cup ToSet(UnavailableRecs)
           IN  /\ AllRanked \in Seq(R) /\ ToSet(AllRanked) = R /\ Falling(AllRanked)
               /\ Len(AllRanked) = Len(ListNodes) + Len(Unavailable)
               /\ Len(ListNodes) \in Nat /\ Len(Unavailable) \in Nat
  <1> DEFINE a == NodeRecs
             b == UnavailableRecs
             R == ToSet(a) \cup ToSet(b)
             l == ListNodes
             u == Unavailable
  <1>1. Len(l) \in Nat /\ DOMAIN l = 1..Len(l) /\ Len(u) \in Nat /\ DOMAIN u = 1..Len(u)
    BY ListsEntries, UnavailableIs
  <1>2. DOMAIN a = DOMAIN l /\ a = [i \in DOMAIN l |-> a[i]]
    BY DEF NodeRecs
  <1>3. DOMAIN b = DOMAIN u /\ b = [i \in DOMAIN u |-> b[i]]
    BY DEF UnavailableRecs
  <1> HIDE DEF a, b, l, u
  <1>4. /\ \A i \in DOMAIN a : a[i] \in R
        /\ \A i \in DOMAIN b : b[i] \in R
    BY DEF ToSet
  <1> HIDE DEF R
  <1>5. a \in Seq(R) /\ Len(a) = Len(l)
    BY <1>1, <1>2, <1>4
  <1>6. b \in Seq(R) /\ Len(b) = Len(u)
    BY <1>1, <1>3, <1>4
  <1>7. ToSet(a \o b) = R
    BY <1>5, <1>6, JoinedSets DEF R
  <1>8. a \o b \in Seq(R) /\ Len(a \o b) = Len(a) + Len(b)
    BY <1>5, <1>6
  <1>9. AllRanked = Ranked(a \o b)
    BY DEF AllRanked, a, b
  <1> DEFINE ab == a \o b
  <1> HIDE DEF ab
  <1>10. /\ Ranked(ab) \in Seq(R) /\ Len(Ranked(ab)) = Len(ab)
         /\ ToSet(Ranked(ab)) = ToSet(ab) /\ Falling(Ranked(ab))
    BY <1>8, RankedIs DEF ab
  <1> QED
    BY <1>1, <1>5, <1>6, <1>7, <1>8, <1>9, <1>10 DEF ab, R, a, b, l, u

\* A component that is down is never ranked below something less severe, and never
\* counted as a node; and no recommendation is lost, whatever fails.
THEOREM RanksAndCounts == Spec => []RankedAndCounted
  <1>1. IInv => RankedAndCounted
    <2> SUFFICES ASSUME IInv PROVE RankedAndCounted
      OBVIOUS
    <2> DEFINE R == ToSet(NodeRecs) \cup ToSet(UnavailableRecs)
               all == AllRanked
               n == Len(all)
               healthy == {r \in ToSet(all) : r.rec.action = "none"}
               rest == ToSet(all) \ healthy
               well == {i \in 1..n : all[i] \in healthy}
               ill == {i \in 1..n : all[i] \in rest}
               sick == Among(all, rest)
               trouble(s) == {i \in DOMAIN s : s[i].rec.action # "none"}
    <2>1. /\ all \in Seq(R) /\ ToSet(all) = R /\ Falling(all)
          /\ n = Len(ListNodes) + Len(Unavailable)
          /\ Len(ListNodes) \in Nat /\ Len(Unavailable) \in Nat
      BY AllRankedIs DEF IInv
    <2>2. \A h \in BOOLEAN :
             TriageCluster(h) = [total   |-> Len(ListNodes),
                                 healthy |-> Len(Among(all, healthy)),
                                 recs    |-> IF h THEN all ELSE sick]
      BY DEF TriageCluster
    <2> HIDE DEF R
    <2>3. n \in Nat /\ DOMAIN all = 1..n
      BY <2>1
    <2>4. Len(Among(all, healthy)) = Cardinality(well)
      <3>1. KeptOf(Among(all, healthy), all, healthy, R, n)
        <4> HIDE DEF all, healthy
        <4> QED
          BY <2>1, AmongKept
      <3> QED
        BY <2>3, <3>1 DEF KeptOf
    <2>5. /\ sick \in Seq(R) /\ Falling(sick) /\ Len(sick) = Cardinality(ill)
          /\ ToSet(sick) \subseteq rest
      <3>1. KeptOf(sick, all, rest, R, n)
        <4> HIDE DEF all, rest
        <4> QED
          BY <2>1, AmongKept
      <3> HIDE DEF sick, all, rest
      <3> QED
        BY <2>1, <2>3, <3>1 DEF KeptOf
    <2>6. Cardinality(well) + Cardinality(ill) = n /\ Cardinality(well) \in Nat /\ Cardinality(ill) \in Nat
      <3>1. IsFiniteSet(1..n) /\ Cardinality(1..n) = n
        BY <2>3, FirstNumbers
      <3>2. well \in SUBSET (1..n) /\ ill \in SUBSET (1..n)
        OBVIOUS
      <3>3. /\ IsFiniteSet(well) /\ Cardinality(well) \in Nat
            /\ IsFiniteSet(ill) /\ Cardinality(ill) \in Nat
        BY <3>1, <3>2, FS_Subset, FS_CardinalityType
      <3>4. well \cap ill = {} /\ well \cup ill = 1..n
        BY <2>3 DEF ToSet
      <3> HIDE DEF well, ill
      <3> QED
        BY <3>1, <3>3, <3>4, DisjointUnion
    <2>7. trouble(all) = ill
      BY <2>3 DEF ToSet
    <2>8. Cardinality(trouble(sick)) = Cardinality(ill)
      <3>1. DOMAIN sick = 1..Len(sick) /\ Len(sick) \in Nat
        BY <2>5
      <3>2. \A i \in DOMAIN sick : sick[i] \in rest
        BY <2>5 DEF ToSet
      <3>3. \A r \in rest : r.rec.action # "none"
        OBVIOUS
      <3> HIDE DEF sick, rest
      <3>4. trouble(sick) = 1..Len(sick)
        BY <3>1, <3>2, <3>3
      <3> QED
        BY <2>5, <3>1, <3>4, FirstNumbers
    <2> HIDE DEF all, healthy, sick, ill, well, trouble
    <2>a. ASSUME NEW h \in BOOLEAN
          PROVE  /\ TriageCluster(h).total = Len(ListNodes)
                 /\ TriageCluster(h).healthy = Len(Among(all, healthy))
                 /\ TriageCluster(h).recs = IF h THEN all ELSE sick
      BY <2>2
    <2>9. ASSUME NEW h \in BOOLEAN
          PROVE  LET t == TriageCluster(h)
                 IN  /\ Falling(t.recs)
                     /\ t.total = t.healthy + Cardinality(trouble(t.recs)) - Len(Unavailable)
      <3>1. CASE h
        <4>1. Len(ListNodes) = Cardinality(well) + Cardinality(ill) - Len(Unavailable)
          BY <2>1, <2>6
        <4>2. TriageCluster(h).recs = all
          BY <2>a, <3>1
        <4> QED
          BY <2>1, <2>a, <2>4, <2>7, <4>1, <4>2
      <3>2. CASE ~h
        <4>1. Len(ListNodes) = Cardinality(well) + Cardinality(ill) - Len(Unavailable)
          BY <2>1, <2>6
        <4>2. TriageCluster(h).recs = sick
          BY <2>a, <3>2
        <4> QED
          BY <2>a, <2>4, <2>5, <2>8, <4>1, <4>2
      <3> QED
        BY <3>1, <3>2
    <2>10. ASSUME NEW h \in BOOLEAN, h
           PROVE  ToSet(TriageCluster(h).recs) = R
      BY <2>1, <2>a, <2>10
    <2> QED
      BY <2>9, <2>10 DEF RankedAndCounted, Falling, trouble, R
  <1> QED
    BY <1>1, Inductive, PTL

-------------------------------------------------------------------------------
(* Host lists *)

\* Atoi goes through the digits.
LEMMA ValueSteps ==
    ASSUME NEW n \in Nat, NEW d \in [1..n -> 0..9]
    PROVE  \E g : /\ Value(d) = g[n] /\ g[0] = 0
                  /\ \A k \in 1..n : g[k] = 10 * g[k - 1] + d[k]
  <1> DEFINE op(x, acc) == 10 * acc + d[x]
             F == [p \in (1..n) \X Nat |-> op(p[1], p[2])]
             Is(h) == h = [s \in SUBSET DOMAIN d |->
                              IF s = {} THEN 0 ELSE op(Max(s), h[s \ {Max(s)}])]
             iter == CHOOSE h : Is(h)
  <1>1. DOMAIN d = 1..n
    OBVIOUS
  <1>2. Value(d) = iter[DOMAIN d]
    BY DEF Value, FoldLeft, MapThenFoldSet
  <1>3. F \in [(1..n) \X Nat -> Nat]
    OBVIOUS
  <1>4. \A x \in 1..n, acc \in Nat : F[<<x, acc>>] = op(x, acc)
    OBVIOUS
  <1> HIDE DEF op, F
  <1>5. PICK h \in [SUBSET (1..n) -> Nat] : IsFold(h, n, 0, F)
    BY <1>3, FoldExists
  <1>6. Is(h)
    <2>1. ASSUME NEW s \in SUBSET (1..n)
          PROVE  h[s] = IF s = {} THEN 0 ELSE op(Max(s), h[s \ {Max(s)}])
      <3>1. CASE s = {}
        BY <1>5, <3>1 DEF IsFold
      <3>2. CASE s # {}
        <4>1. Max(s) \in 1..n
          BY <3>2, MaxOfSubset
        <4>2. h[s \ {Max(s)}] \in Nat
          BY <1>5
        <4>3. h[s] = F[<<Max(s), h[s \ {Max(s)}]>>]
          BY <1>5, <3>2 DEF IsFold
        <4> QED
          BY <1>4, <3>2, <4>1, <4>2, <4>3
      <3> QED
        BY <3>1, <3>2
    <2> QED
      BY <1>1, <1>5, <2>1
  <1>7. Is(iter)
    BY <1>6
  <1> HIDE DEF iter
  <1> DEFINE g == [k \in 0..n |-> iter[1..k]]
  <1>8. g[0] = 0
    <2>1. 1..0 = {} /\ 0 \in 0..n
      OBVIOUS
    <2> QED
      BY <1>7, <2>1
  <1>9. ASSUME NEW k \in 1..n
        PROVE  g[k] = op(k, g[k - 1])
    <2>1. k \in Nat /\ k # 0
      OBVIOUS
    <2>2. 1..k # {} /\ Max(1..k) = k /\ (1..k) \ {k} = 1..(k - 1)
      BY <2>1, MaxOfPrefix
    <2>3. 1..k \in SUBSET DOMAIN d /\ k \in 0..n /\ k - 1 \in 0..n
      BY <1>1
    <2>4. iter[1..k] = op(k, iter[1..(k - 1)])
      BY <1>7, <2>2, <2>3
    <2> QED
      BY <2>3, <2>4
  <1>10. Value(d) = g[n]
    BY <1>1, <1>2
  <1> HIDE DEF g
  <1> QED
    BY <1>8, <1>9, <1>10 DEF op

\* The numbers of at most three digits, one by one.
LEMMA DigitsAre ==
    ASSUME NEW d \in Digits
    PROVE  /\ d \in Seq(0..9)
           /\ \/ Len(d) = 1 /\ d = <<d[1]>> /\ d[1] \in 0..9 /\ Value(d) = d[1]
              \/ /\ Len(d) = 2 /\ d = <<d[1], d[2]>> /\ d[1] \in 0..9 /\ d[2] \in 0..9
                 /\ Value(d) = 10 * d[1] + d[2]
              \/ /\ Len(d) = 3 /\ d = <<d[1], d[2], d[3]>>
                 /\ d[1] \in 0..9 /\ d[2] \in 0..9 /\ d[3] \in 0..9
                 /\ Value(d) = 100 * d[1] + 10 * d[2] + d[3]
  <1>1. PICK n \in 1..3 : d \in [1..n -> 0..9]
    BY DEF Digits
  <1>2. n \in Nat
    OBVIOUS
  <1>3. d \in Seq(0..9) /\ Len(d) = n
    BY <1>1, <1>2
  <1>4. PICK g : /\ Value(d) = g[n] /\ g[0] = 0
                 /\ \A k \in 1..n : g[k] = 10 * g[k - 1] + d[k]
    BY <1>1, <1>2, ValueSteps
  <1>5. \A k \in 1..n : d[k] \in 0..9
    BY <1>1
  <1>6. CASE n = 1
    <2>1. 1 \in 1..n /\ 1 - 1 = 0
      BY <1>6
    <2>2. g[1] = d[1]
      BY <1>4, <1>5, <2>1
    <2>3. d = <<d[1]>>
      BY <1>1, <1>6
    <2> QED
      BY <1>3, <1>4, <1>5, <1>6, <2>1, <2>2, <2>3
  <1>7. CASE n = 2
    <2>1. 1 \in 1..n /\ 2 \in 1..n /\ 1 - 1 = 0 /\ 2 - 1 = 1
      BY <1>7
    <2>2. g[1] = d[1] /\ g[2] = 10 * d[1] + d[2]
      BY <1>4, <1>5, <2>1
    <2>3. d = <<d[1], d[2]>>
      BY <1>1, <1>7
    <2> QED
      BY <1>3, <1>4, <1>5, <1>7, <2>1, <2>2, <2>3
  <1>8. CASE n = 3
    <2>1. 1 \in 1..n /\ 2 \in 1..n /\ 3 \in 1..n /\ 1 - 1 = 0 /\ 2 - 1 = 1 /\ 3 - 1 = 2
      BY <1>8
    <2>2. g[1] = d[1] /\ g[2] = 10 * g[1] + d[2] /\ g[3] = 10 * g[2] + d[3]
      BY <1>4, <1>5, <2>1
    <2>3. d[1] \in 0..9 /\ d[2] \in 0..9 /\ d[3] \in 0..9
      BY <1>5, <2>1
    <2>4. g[3] = 100 * d[1] + 10 * d[2] + d[3]
      BY <2>2, <2>3
    <2>5. d = <<d[1], d[2], d[3]>>
      BY <1>1, <1>8
    <2> QED
      BY <1>3, <1>4, <1>8, <2>3, <2>4, <2>5
  <1> QED
    BY <1>6, <1>7, <1>8

\* A number of one, two or three digits, given by its digits.
IsNumber(d, v, n) == d \in Digits /\ Value(d) = v /\ Len(d) = n

LEMMA OneDigit ==
    ASSUME NEW x \in 0..9
    PROVE  IsNumber(<<x>>, x, 1)
  <1>1. <<x>> \in [1..1 -> 0..9] /\ 1 \in 1..3
    OBVIOUS
  <1>2. <<x>> \in Digits
    BY <1>1 DEF Digits
  <1>3. Len(<<x>>) = 1 /\ <<x>>[1] = x
    OBVIOUS
  <1> QED
    BY <1>2, <1>3, DigitsAre DEF IsNumber

LEMMA TwoDigits ==
    ASSUME NEW x \in 0..9, NEW y \in 0..9
    PROVE  IsNumber(<<x, y>>, 10 * x + y, 2)
  <1>1. <<x, y>> \in [1..2 -> 0..9] /\ 2 \in 1..3
    OBVIOUS
  <1>2. <<x, y>> \in Digits
    BY <1>1 DEF Digits
  <1>3. Len(<<x, y>>) = 2 /\ <<x, y>>[1] = x /\ <<x, y>>[2] = y
    OBVIOUS
  <1> QED
    BY <1>2, <1>3, DigitsAre DEF IsNumber

LEMMA ThreeDigits ==
    ASSUME NEW x \in 0..9, NEW y \in 0..9, NEW z \in 0..9
    PROVE  IsNumber(<<x, y, z>>, 100 * x + 10 * y + z, 3)
  <1>1. <<x, y, z>> \in [1..3 -> 0..9] /\ 3 \in 1..3
    OBVIOUS
  <1>2. <<x, y, z>> \in Digits
    BY <1>1 DEF Digits
  <1>3. Len(<<x, y, z>>) = 3 /\ <<x, y, z>>[1] = x /\ <<x, y, z>>[2] = y /\ <<x, y, z>>[3] = z
    OBVIOUS
  <1> QED
    BY <1>2, <1>3, DigitsAre DEF IsNumber

\* Up to two zeros in front.
LEMMA Zeros ==
    ASSUME NEW x, NEW y
    PROVE  /\ <<0>> \o <<x>> = <<0, x>>
           /\ <<0, 0>> \o <<x>> = <<0, 0, x>>
           /\ <<0>> \o <<x, y>> = <<0, x, y>>
  <1>1. <<0>> \o <<x>> = <<0, x>>
    <2> DEFINE s == <<0>> \o <<x>>
    <2>0. s \in Seq({0, x}) /\ <<0, x>> \in Seq({0, x})
      OBVIOUS
    <2>1. Len(s) = 2 /\ s[1] = 0 /\ s[2] = x
      OBVIOUS
    <2> HIDE DEF s
    <2>2. s = <<0, x>>
      BY <2>0, <2>1
    <2> QED
      BY <2>2 DEF s
  <1>2. <<0, 0>> \o <<x>> = <<0, 0, x>>
    <2> DEFINE s == <<0, 0>> \o <<x>>
    <2>0. s \in Seq({0, x}) /\ <<0, 0, x>> \in Seq({0, x})
      OBVIOUS
    <2>1. Len(s) = 3 /\ s[1] = 0 /\ s[2] = 0 /\ s[3] = x
      OBVIOUS
    <2> HIDE DEF s
    <2>2. s = <<0, 0, x>>
      BY <2>0, <2>1
    <2> QED
      BY <2>2 DEF s
  <1>3. <<0>> \o <<x, y>> = <<0, x, y>>
    <2> DEFINE s == <<0>> \o <<x, y>>
    <2>0. s \in Seq({0, x, y}) /\ <<0, x, y>> \in Seq({0, x, y})
      OBVIOUS
    <2>1. Len(s) = 3 /\ s[1] = 0 /\ s[2] = x /\ s[3] = y
      OBVIOUS
    <2> HIDE DEF s
    <2>2. s = <<0, x, y>>
      BY <2>0, <2>1
    <2> QED
      BY <2>2 DEF s
  <1> QED
    BY <1>1, <1>2, <1>3

\* %0*d, by how large the number is.
LEMMA PaddedIs ==
    ASSUME NEW i \in Nat, NEW w \in 1..3
    PROVE  Padded(i, w) =
             IF i < 10 THEN IF w = 1 THEN <<i>> ELSE IF w = 2 THEN <<0, i>> ELSE <<0, 0, i>>
             ELSE IF i < 100 THEN IF w = 3 THEN <<0, i \div 10, i % 10>> ELSE <<i \div 10, i % 10>>
             ELSE <<i \div 100, (i \div 10) % 10, i % 10>>
  <1> DEFINE zeros(k) == [j \in 1..k |-> 0]
  <1>1. zeros(1) = <<0>> /\ zeros(2) = <<0, 0>>
    OBVIOUS
  <1> HIDE DEF zeros
  <1>w. w = 1 \/ w = 2 \/ w = 3
    OBVIOUS
  <1>2. CASE i < 10
    <2>1. Decimal(i) = <<i>>
      BY <1>2 DEF Decimal
    <2>2. Len(Decimal(i)) = 1
      BY <2>1
    <2>3. Padded(i, w) = IF 1 < w THEN zeros(w - 1) \o <<i>> ELSE <<i>>
      BY <2>1, <2>2 DEF Padded, zeros
    <2>4. CASE w = 1
      BY <1>2, <2>3, <2>4
    <2>5. CASE w = 2
      <3>1. Padded(i, w) = zeros(1) \o <<i>>
        BY <2>3, <2>5
      <3> QED
        BY <1>1, <1>2, <2>5, <3>1, Zeros
    <2>6. CASE w = 3
      <3>1. Padded(i, w) = zeros(2) \o <<i>>
        BY <2>3, <2>6
      <3>2. Padded(i, w) = <<0, 0, i>>
        BY <1>1, <3>1, Zeros
      <3>3. w # 1 /\ w # 2
        BY <2>6
      <3> QED
        BY <1>2, <3>2, <3>3
    <2> QED
      BY <1>w, <2>4, <2>5, <2>6
  <1>3. CASE ~(i < 10) /\ i < 100
    <2> DEFINE x == i \div 10
               y == i % 10
    <2>1. Decimal(i) = <<x, y>>
      BY <1>3 DEF Decimal
    <2> HIDE DEF x, y
    <2>2. Len(Decimal(i)) = 2
      BY <2>1
    <2>3. Padded(i, w) = IF 2 < w THEN zeros(w - 2) \o <<x, y>> ELSE <<x, y>>
      BY <2>1, <2>2 DEF Padded, zeros
    <2>4. Padded(i, w) = IF w = 3 THEN <<0, x, y>> ELSE <<x, y>>
      <3>1. CASE w = 3
        <4>1. Padded(i, w) = zeros(1) \o <<x, y>>
          BY <2>3, <3>1
        <4> QED
          BY <1>1, <3>1, <4>1, Zeros
      <3>2. CASE w # 3
        BY <1>w, <2>3, <3>2
      <3> QED
        BY <3>1, <3>2
    <2> QED
      BY <1>3, <2>4 DEF x, y
  <1>4. CASE ~(i < 100)
    <2> DEFINE x == i \div 100
               y == (i \div 10) % 10
               z == i % 10
    <2>1. Decimal(i) = <<x, y, z>>
      BY <1>4 DEF Decimal
    <2> HIDE DEF x, y, z
    <2>2. Len(Decimal(i)) = 3
      BY <2>1
    <2>3. Padded(i, w) = <<x, y, z>>
      BY <2>1, <2>2 DEF Padded
    <2> QED
      BY <1>4, <2>3 DEF x, y, z
  <1> QED
    BY <1>2, <1>3, <1>4

\* What the digits are of a number given by them.
LEMMA DivMod ==
    ASSUME NEW x \in 0..9, NEW y \in 0..9, NEW z \in 0..9
    PROVE  /\ (10 * x + y) \div 10 = x /\ (10 * x + y) % 10 = y
           /\ (100 * x + 10 * y + z) \div 100 = x
           /\ (100 * x + 10 * y + z) \div 10 = 10 * x + y
           /\ (100 * x + 10 * y + z) % 10 = z
  OBVIOUS

\* Atoi and %0*d undo each other.
LEMMA PaddedValue ==
    ASSUME NEW d \in Digits
    PROVE  Value(d) \in 0..999 /\ Len(d) \in 1..3 /\ Padded(Value(d), Len(d)) = d
  <1>1. CASE Len(d) = 1 /\ d = <<d[1]>> /\ d[1] \in 0..9 /\ Value(d) = d[1]
    <2>1. Padded(d[1], 1) = <<d[1]>>
      BY <1>1, PaddedIs
    <2> QED
      BY <1>1, <2>1
  <1>2. CASE /\ Len(d) = 2 /\ d = <<d[1], d[2]>> /\ d[1] \in 0..9 /\ d[2] \in 0..9
             /\ Value(d) = 10 * d[1] + d[2]
    <2> DEFINE v == 10 * d[1] + d[2]
    <2>1. v \in 0..99 /\ v \div 10 = d[1] /\ v % 10 = d[2] /\ (v < 10 => d[1] = 0 /\ v = d[2])
      BY <1>2, DivMod
    <2> HIDE DEF v
    <2>2. Padded(v, 2) = <<d[1], d[2]>>
      BY <2>1, PaddedIs
    <2> QED
      BY <1>2, <2>1, <2>2 DEF v
  <1>3. CASE /\ Len(d) = 3 /\ d = <<d[1], d[2], d[3]>>
             /\ d[1] \in 0..9 /\ d[2] \in 0..9 /\ d[3] \in 0..9
             /\ Value(d) = 100 * d[1] + 10 * d[2] + d[3]
    <2> DEFINE v == 100 * d[1] + 10 * d[2] + d[3]
    <2>1. v \in 0..999 /\ v \div 100 = d[1] /\ (v \div 10) % 10 = d[2] /\ v % 10 = d[3]
      BY <1>3, DivMod
    <2>2. v < 100 => d[1] = 0 /\ v \div 10 = d[2]
      BY <1>3, DivMod
    <2>3. v < 10 => d[1] = 0 /\ d[2] = 0 /\ v = d[3]
      BY <1>3
    <2> HIDE DEF v
    <2>4. Padded(v, 3) = <<d[1], d[2], d[3]>>
      <3>1. Padded(v, 3) = IF v < 10 THEN <<0, 0, v>>
                           ELSE IF v < 100 THEN <<0, v \div 10, v % 10>>
                           ELSE <<v \div 100, (v \div 10) % 10, v % 10>>
        BY <2>1, PaddedIs
      <3>2. CASE v < 10
        BY <2>3, <3>1, <3>2
      <3>3. CASE ~(v < 10) /\ v < 100
        BY <2>1, <2>2, <3>1, <3>3
      <3>4. CASE ~(v < 100)
        BY <2>1, <3>1, <3>4
      <3> QED
        BY <3>2, <3>3, <3>4
    <2> QED
      BY <1>3, <2>1, <2>4 DEF v
  <1> QED
    BY <1>1, <1>2, <1>3, DigitsAre

LEMMA ValuePadded ==
    ASSUME NEW i \in 0..999, NEW w \in 1..3
    PROVE  /\ Padded(i, w) \in Digits /\ Value(Padded(i, w)) = i
           /\ Len(Padded(i, w)) = IF i >= 100 THEN 3 ELSE IF i >= 10 /\ w = 1 THEN 2 ELSE w
  <1>1. w = 1 \/ w = 2 \/ w = 3
    OBVIOUS
  <1>2. CASE i < 10
    <2>1. i \in 0..9 /\ 0 \in 0..9
      BY <1>2
    <2>2. w = 1 => Padded(i, w) = <<i>>
      BY <1>2, PaddedIs
    <2>3. w = 2 => Padded(i, w) = <<0, i>>
      BY <1>2, PaddedIs
    <2>4. w = 3 => Padded(i, w) = <<0, 0, i>>
      BY <1>2, PaddedIs
    <2>5. IsNumber(<<i>>, i, 1)
      BY <2>1, OneDigit
    <2>6. IsNumber(<<0, i>>, 10 * 0 + i, 2)
      BY <2>1, TwoDigits
    <2>7. IsNumber(<<0, 0, i>>, 100 * 0 + 10 * 0 + i, 3)
      BY <2>1, ThreeDigits
    <2>8. i >= 0 /\ ~(i >= 10) /\ ~(i >= 100) /\ 10 * 0 + i = i /\ 100 * 0 + 10 * 0 + i = i
      BY <1>2
    <2>9. CASE w = 1
      BY <2>2, <2>5, <2>8, <2>9 DEF IsNumber
    <2>10. CASE w = 2
      BY <2>3, <2>6, <2>8, <2>10 DEF IsNumber
    <2>11. CASE w = 3
      BY <2>4, <2>7, <2>8, <2>11 DEF IsNumber
    <2> QED
      BY <1>1, <2>9, <2>10, <2>11
  <1>3. CASE i >= 10 /\ i < 100
    <2> DEFINE x == i \div 10
               y == i % 10
    <2>1. x \in 0..9 /\ y \in 0..9 /\ 0 \in 0..9 /\ 10 * x + y = i
      BY <1>3
    <2>2. w # 3 => Padded(i, w) = <<x, y>>
      BY <1>3, PaddedIs
    <2>3. w = 3 => Padded(i, w) = <<0, x, y>>
      BY <1>3, PaddedIs
    <2> HIDE DEF x, y
    <2>4. IsNumber(<<x, y>>, 10 * x + y, 2)
      BY <2>1, TwoDigits
    <2>5. IsNumber(<<0, x, y>>, 100 * 0 + 10 * x + y, 3)
      BY <2>1, ThreeDigits
    <2>6. i >= 10 /\ ~(i >= 100) /\ 100 * 0 + 10 * x + y = i
      BY <1>3, <2>1
    <2>7. CASE w = 3
      BY <2>3, <2>5, <2>6, <2>7 DEF IsNumber
    <2>8. CASE w # 3
      BY <1>1, <2>1, <2>2, <2>4, <2>6, <2>8 DEF IsNumber
    <2> QED
      BY <2>7, <2>8
  <1>4. CASE i >= 100
    <2> DEFINE x == i \div 100
               y == (i \div 10) % 10
               z == i % 10
    <2>1. x \in 0..9 /\ y \in 0..9 /\ z \in 0..9 /\ 100 * x + 10 * y + z = i
      BY <1>4
    <2>2. Padded(i, w) = <<x, y, z>>
      BY <1>4, PaddedIs
    <2> HIDE DEF x, y, z
    <2>3. IsNumber(<<x, y, z>>, 100 * x + 10 * y + z, 3)
      BY <2>1, ThreeDigits
    <2> QED
      BY <1>4, <2>1, <2>2, <2>3 DEF IsNumber
  <1> QED
    BY <1>2, <1>3, <1>4

\* A number printed in the width of a smaller one is printed in the width that
\* one was printed in: a run keeps the width of its start.
KeepsWidth(j, w) == \A i \in Nat : j <= i => Padded(i, Len(Padded(j, w))) = Padded(i, w)

LEMMA WidthKept ==
    ASSUME NEW w \in 1..3, NEW j \in 0..999
    PROVE  KeepsWidth(j, w)
  <1> SUFFICES ASSUME NEW i \in Nat, j <= i
               PROVE  Padded(i, Len(Padded(j, w))) = Padded(i, w)
    BY DEF KeepsWidth
  <1> DEFINE v == IF j >= 100 THEN 3 ELSE IF j >= 10 /\ w = 1 THEN 2 ELSE w
  <1>1. Len(Padded(j, w)) = v
    BY ValuePadded
  <1>2. v \in 1..3 /\ (v # w => (v = 3 /\ i >= 100) \/ (v = 2 /\ w = 1 /\ i >= 10))
    OBVIOUS
  <1> HIDE DEF v
  <1>3. Padded(i, v) = Padded(i, w)
    <2>1. CASE v = w
      BY <2>1
    <2>2. CASE v = 3 /\ i >= 100
      BY <2>2, PaddedIs
    <2>3. CASE v = 2 /\ w = 1 /\ i >= 10
      BY <2>3, PaddedIs
    <2> QED
      BY <1>2, <2>1, <2>2, <2>3
  <1> QED
    BY <1>1, <1>3

\* A host name's number has at most three digits.
LEMMA TooLarge ==
    ASSUME NEW i \in Nat, NEW w \in 1..3, Padded(i, w) \in Digits
    PROVE  i \in 0..999
  <1> SUFFICES ASSUME i >= 1000 PROVE FALSE
    OBVIOUS
  <1> DEFINE x == i \div 100
             y == (i \div 10) % 10
             z == i % 10
  <1>1. Padded(i, w) = <<x, y, z>> /\ x >= 10
    BY PaddedIs
  <1> HIDE DEF x, y, z
  <1>2. <<x, y, z>>[1] = x
    OBVIOUS
  <1> QED
    BY <1>1, <1>2, DigitsAre

\* From each number a run goes on to a number that ends one: were all that follow
\* there, one of them would have more than three digits.
LEMMA RunEnds ==
    ASSUME NEW nums \in SUBSET Digits, NEW a \in nums
    PROVE  RunEnd(a, nums) \in Ends(nums) /\ Run(a, RunEnd(a, nums), nums)
  <1> DEFINE v == Value(a)
             w == Len(a)
             Q(k) == \A i \in v..(v + k) : Padded(i, w) \in nums
             P == {k \in Nat : Q(k)}
  <1>1. a \in Digits /\ v \in 0..999 /\ w \in 1..3 /\ Padded(v, w) = a
    BY PaddedValue
  <1> HIDE DEF v, w
  <1>2. 0 \in P
    <2>1. \A i \in v..(v + 0) : i = v
      BY <1>1
    <2> QED
      BY <1>1, <2>1
  <1>3. PICK k \in Nat : Q(k) /\ ~Q(k + 1)
    <2> SUFFICES ASSUME \A k \in Nat : Q(k) => Q(k + 1)
                 PROVE  FALSE
      OBVIOUS
    <2>1. \A k \in Nat : k \in P => k + 1 \in P
      OBVIOUS
    <2> HIDE DEF P, Q
    <2>2. 1000 \in P
      BY <1>2, <2>1, SetInduction
    <2>3. v + 1000 \in v..(v + 1000) /\ v + 1000 \in Nat
      BY <1>1
    <2>4. Padded(v + 1000, w) \in Digits
      BY <2>2, <2>3 DEF P, Q
    <2>5. v + 1000 \in 0..999
      BY <1>1, <2>3, <2>4, TooLarge
    <2>6. v + 1000 <= 999 /\ v >= 0 /\ v \in Int
      BY <1>1, <2>5
    <2> QED
      BY <2>6
  <1> DEFINE i == v + k
             e == Padded(i, w)
  <1>4. i \in Nat /\ i \in v..i
    BY <1>1
  <1>5. \A x \in v..i : Padded(x, w) \in nums
    BY <1>3
  <1>6. Padded(i + 1, w) \notin nums
    <2>1. PICK x \in v..(v + (k + 1)) : Padded(x, w) \notin nums
      BY <1>3
    <2>2. x = i + 1
      BY <1>1, <1>5, <2>1
    <2> QED
      BY <2>1, <2>2
  <1> HIDE DEF i
  <1>7. e \in nums /\ e \in Digits
    BY <1>4, <1>5
  <1>8. i \in 0..999
    BY <1>1, <1>4, <1>7, TooLarge
  <1>9. Value(e) = i
    BY <1>1, <1>8, ValuePadded
  <1>10. Padded(i + 1, Len(e)) = Padded(i + 1, w)
    <2>1. KeepsWidth(i, w)
      BY <1>1, <1>8, WidthKept
    <2>2. i + 1 \in Nat /\ i <= i + 1
      BY <1>4
    <2> QED
      BY <2>1, <2>2 DEF KeepsWidth
  <1>11. e \in Ends(nums)
    BY <1>6, <1>7, <1>9, <1>10 DEF Ends, NextNumber
  <1>12. Run(a, e, nums)
    <2>1. v <= i
      BY <1>1, <1>4
    <2> HIDE DEF Q, P
    <2> QED
      BY <1>5, <1>9, <2>1 DEF Run, v, w
  <1> HIDE DEF e
  <1> QED
    BY <1>11, <1>12 DEF RunEnd

\* Each number is in a run from a number that starts one: were there always one
\* before it, one of them would be less than zero.
LEMMA RunsStart ==
    ASSUME NEW nums \in SUBSET Digits, NEW n \in nums
    PROVE  \E a \in Starts(nums) : Run(a, n, nums)
  <1> SUFFICES ASSUME \A b \in nums : Run(b, n, nums) => \E c \in nums : NextNumber(c) = b
               PROVE  FALSE
    BY DEF Starts
  <1> DEFINE v == Value(n)
             Q(k) == \E b \in nums : Run(b, n, nums) /\ Value(b) + k = v
             P == {k \in Nat : Q(k)}
  <1>1. n \in Digits /\ v \in 0..999 /\ Len(n) \in 1..3 /\ Padded(v, Len(n)) = n
    BY PaddedValue
  <1> HIDE DEF v
  <1>a. v \in Nat /\ v + 1 \in Nat
    BY <1>1
  <1>2. 0 \in P
    <2>1. v <= v /\ v + 0 = v /\ \A i \in v..v : i = v
      BY <1>1
    <2>2. \A i \in v..v : Padded(i, Len(n)) \in nums
      BY <1>1, <2>1
    <2>3. Run(n, n, nums)
      BY <1>1, <2>1, <2>2 DEF Run, v
    <2>4. Q(0)
      BY <2>1, <2>3 DEF v
    <2> QED
      BY <2>4
  <1>3. ASSUME NEW k \in Nat, k \in P PROVE k + 1 \in P
    <2>1. PICK b \in nums : Run(b, n, nums) /\ Value(b) + k = v
      BY <1>3
    <2>2. PICK c \in nums : NextNumber(c) = b
      BY <2>1
    <2> DEFINE u == Value(c)
               w == Len(c)
    <2>3. u \in 0..999 /\ w \in 1..3 /\ Padded(u, w) = c /\ c \in Digits
      BY PaddedValue
    <2>4. Padded(u + 1, w) = b /\ b \in Digits
      BY <2>2 DEF NextNumber
    <2> HIDE DEF u, w, P
    <2>5. u + 1 \in Nat
      BY <2>3
    <2>6. u + 1 \in 0..999
      BY <2>3, <2>4, <2>5, TooLarge
    <2>7. Value(b) = u + 1
      BY <2>3, <2>4, <2>6, ValuePadded
    <2>8. ASSUME NEW i \in Nat, u + 1 <= i
          PROVE  Padded(i, Len(b)) = Padded(i, w)
      <3>1. KeepsWidth(u + 1, w)
        BY <2>3, <2>6, WidthKept
      <3>2. Padded(i, Len(Padded(u + 1, w))) = Padded(i, w)
        BY <2>8, <3>1 DEF KeepsWidth
      <3> QED
        BY <2>4, <3>2
    <2>9. u + 1 <= v /\ n = Padded(v, Len(b)) /\ \A i \in (u + 1)..v : Padded(i, Len(b)) \in nums
      BY <2>1, <2>7 DEF Run, v
    <2>10. n = Padded(v, w)
      BY <1>1, <2>8, <2>9
    <2>11. ASSUME NEW i \in u..v
           PROVE  Padded(i, w) \in nums
      <3>1. CASE i = u
        BY <2>3, <3>1
      <3>2. CASE i # u
        <4>1. i \in Nat /\ u + 1 <= i /\ i \in (u + 1)..v
          BY <1>1, <2>3, <3>2
        <4> QED
          BY <2>8, <2>9, <4>1
      <3> QED
        BY <3>1, <3>2
    <2>12. u <= v
      BY <1>1, <2>3, <2>9
    <2>13. Run(c, n, nums)
      BY <2>10, <2>11, <2>12 DEF Run, u, v, w
    <2>14. Value(c) + (k + 1) = v
      <3>1. u + 1 + k = v
        BY <2>1, <2>7
      <3>2. u + (k + 1) = v
        BY <2>3, <3>1
      <3> QED
        BY <3>2 DEF u
    <2>15. Q(k + 1)
      BY <2>13, <2>14
    <2> QED
      BY <2>15 DEF P
  <1> HIDE DEF P
  <1>4. v + 1 \in P
    BY <1>2, <1>3, <1>a, SetInduction
  <1>5. PICK b \in nums : Value(b) + (v + 1) = v
    BY <1>4 DEF P
  <1>6. Value(b) \in 0..999
    BY PaddedValue
  <1>7. Value(b) \in Nat
    BY <1>6
  <1> QED
    BY <1>a, <1>5, <1>7

\* The ranges that Slurm writes stand for the numbers there are, all and no others.
LEMMA RangesCover ==
    ASSUME NEW nums \in SUBSET Digits
    PROVE  /\ \A a \in Starts(nums) : ~BadPart([lo |-> a, hi |-> RunEnd(a, nums)])
           /\ UNION {PartDigits([lo |-> a, hi |-> RunEnd(a, nums)]) : a \in Starts(nums)} = nums
  <1> DEFINE part(a) == [lo |-> a, hi |-> RunEnd(a, nums)]
  <1>1. ASSUME NEW a \in Starts(nums)
        PROVE  ~BadPart(part(a)) /\ PartDigits(part(a)) \subseteq nums
    <2> DEFINE e == RunEnd(a, nums)
    <2>1. a \in nums
      BY DEF Starts
    <2>2. e \in Ends(nums) /\ Run(a, e, nums)
      BY <2>1, RunEnds
    <2>3. e \in nums
      BY <2>2 DEF Ends
    <2>4. /\ a \in Digits /\ e \in Digits /\ Len(a) \in 1..3 /\ Len(e) \in 1..3
          /\ Value(a) \in 0..999 /\ Value(e) \in 0..999
      BY <2>1, <2>3, PaddedValue
    <2> HIDE DEF e, part
    <2>5. part(a).lo = a /\ part(a).hi = e
      BY DEF e, part
    <2>6. a # <<>> /\ e # <<>>
      <3>1. Len(<<>>) = 0 /\ 0 \notin 1..3
        OBVIOUS
      <3> QED
        BY <2>4, <3>1
    <2>a. Value(a) <= Value(e) /\ ~(Value(e) < Value(a))
      <3> DEFINE x == Value(a)
                 z == Value(e)
      <3>1. x <= z
        BY <2>2 DEF Run
      <3>3. x \in Int /\ z \in Int
        <4>1. x \in 0..999 /\ z \in 0..999
          BY <2>4
        <4> HIDE DEF x, z
        <4> QED
          BY <4>1
      <3> HIDE DEF x, z
      <3>2. x <= z /\ ~(z < x)
        BY <3>1, <3>3
      <3> QED
        BY <3>2 DEF x, z
    <2>7. ~BadPart(part(a))
      BY <2>5, <2>6, <2>a DEF BadPart
    <2>8. PartDigits(part(a)) \subseteq nums
      BY <2>2, <2>5 DEF PartDigits, Run
    <2> QED
      BY <2>7, <2>8
  <1>2. ASSUME NEW n \in nums
        PROVE  \E a \in Starts(nums) : n \in PartDigits(part(a))
    <2>1. PICK a \in Starts(nums) : Run(a, n, nums)
      BY RunsStart
    <2> DEFINE e == RunEnd(a, nums)
               w == Len(a)
               x == Value(a)
               y == Value(n)
               z == Value(e)
    <2>2. a \in nums
      BY DEF Starts
    <2>3. e \in Ends(nums) /\ Run(a, e, nums)
      BY <2>2, RunEnds
    <2>4. e \in nums
      BY <2>3 DEF Ends
    <2>5. x \in 0..999 /\ y \in 0..999 /\ z \in 0..999 /\ w \in 1..3
      BY <2>2, <2>4, PaddedValue
    <2>6. x <= y /\ n = Padded(y, w) /\ \A i \in x..y : Padded(i, w) \in nums
      BY <2>1 DEF Run
    <2>7. x <= z /\ e = Padded(z, w)
      BY <2>3 DEF Run
    <2>9. Padded(z + 1, Len(e)) \notin nums
      BY <2>3 DEF Ends, NextNumber
    <2> HIDE DEF e, w, x, y, z
    <2>8. z + 1 \in Nat /\ z <= z + 1
      BY <2>5
    <2>a. Padded(z + 1, Len(Padded(z, w))) = Padded(z + 1, w)
      <3>1. KeepsWidth(z, w)
        <4>1. z \in 0..999 /\ w \in 1..3
          BY <2>5
        <4> QED
          BY <4>1, WidthKept
      <3> QED
        BY <2>8, <3>1 DEF KeepsWidth
    <2>10. z + 1 \notin x..y
      BY <2>6, <2>7, <2>9, <2>a
    <2>11. y \in x..z
      BY <2>5, <2>6, <2>7, <2>10
    <2>12. n \in PartDigits(part(a))
      BY <2>6, <2>11 DEF PartDigits, part, e, w, x, y, z
    <2> QED
      BY <2>12
  <1>3. UNION {PartDigits(part(a)) : a \in Starts(nums)} = nums
    BY <1>1, <1>2
  <1> QED
    BY <1>1, <1>3 DEF part

\* The item that Slurm writes for the hosts of one prefix and suffix stands for
\* these hosts.
LEMMA ItemStands ==
    ASSUME NEW hosts \in SUBSET HostNames, IsFiniteSet(hosts), NEW p, NEW s,
           NEW h0 \in hosts, \A x \in hosts : x.prefix = p /\ x.suffix = s
    PROVE  ~BadItem(ItemOf(hosts)) /\ ItemHosts(ItemOf(hosts)) = hosts
  <1> DEFINE nums  == {x.digits : x \in hosts}
             part  == [a \in Starts(nums) |-> [lo |-> a, hi |-> RunEnd(a, nums)]]
             parts == {part[a] : a \in Starts(nums)}
             it    == ItemOf(hosts)
             of(d) == [prefix |-> p, digits |-> d, suffix |-> s]
  <1>1. nums \in SUBSET Digits /\ IsFiniteSet(nums) /\ nums # {}
    <2> DEFINE f == [x \in hosts |-> x.digits]
    <2>1. DOMAIN f = hosts /\ nums = {f[x] : x \in hosts}
      OBVIOUS
    <2> HIDE DEF f
    <2>2. IsFiniteSet(nums)
      BY <2>1, FiniteImage
    <2> QED
      BY <2>2 DEF HostNames
  <1>2. \A x : x \in hosts <=> \E d \in nums : x = of(d)
    <2>1. \A x \in hosts : x = of(x.digits)
      BY DEF HostNames
    <2> QED
      BY <2>1
  <1>3. it = [prefix |-> p, suffix |-> s,
              brackets |-> IF Cardinality(nums) = 1 THEN "none" ELSE "pair",
              parts |-> SetToSeq(parts)]
    <2>1. (CHOOSE x \in hosts : TRUE) \in hosts
      OBVIOUS
    <2>2. parts = {[lo |-> a, hi |-> RunEnd(a, nums)] : a \in Starts(nums)}
      OBVIOUS
    <2> HIDE DEF parts
    <2> QED
      BY <2>1, <2>2 DEF ItemOf
  <1>4. IsFiniteSet(parts)
    <2>1. Starts(nums) \in SUBSET nums
      BY DEF Starts
    <2> HIDE DEF nums
    <2>2. IsFiniteSet(Starts(nums)) /\ DOMAIN part = Starts(nums)
      BY <1>1, <2>1, FS_Subset
    <2> HIDE DEF part
    <2> QED
      BY <2>2, FiniteImage
  <1>5. ToSet(it.parts) = parts
    <2> HIDE DEF parts, it
    <2> QED
      BY <1>3, <1>4, ListedSet
  <1> HIDE DEF nums, it
  <1>6. /\ \A q \in parts : ~BadPart(q)
        /\ UNION {PartDigits(q) : q \in parts} = nums
    <2>1. /\ \A a \in Starts(nums) : ~BadPart(part[a])
          /\ UNION {PartDigits(part[a]) : a \in Starts(nums)} = nums
      BY <1>1, RangesCover
    <2>2. UNION {PartDigits(q) : q \in parts} = UNION {PartDigits(part[a]) : a \in Starts(nums)}
      OBVIOUS
    <2> QED
      BY <2>1, <2>2
  <1>7. ~BadItem(it)
    <2> HIDE DEF parts
    <2> QED
      BY <1>3, <1>5, <1>6 DEF BadItem
  <1> DEFINE numbers == IF it.brackets = "none" THEN {it.parts[1].lo}
                        ELSE UNION {PartDigits(q) : q \in ToSet(it.parts)}
  <1>8. numbers = nums
    <2>1. CASE Cardinality(nums) = 1
      <3>1. PICK d : nums = {d}
        BY <1>1, <2>1, FS_Singleton
      <3>2. PICK a : a \in Starts(nums)
        BY <1>1, RunsStart
      <3>3. Starts(nums) = {d}
        BY <3>1, <3>2 DEF Starts
      <3>4. parts = {part[d]} /\ part[d].lo = d
        BY <3>3
      <3> DEFINE q == part[d]
                 l == it.parts
      <3>5. l \in Seq(parts) /\ \E i \in DOMAIN l : l[i] = q
        <4>1. l = SetToSeq(parts) /\ q \in parts
          BY <1>3, <3>4
        <4> HIDE DEF parts, l, q
        <4> QED
          BY <1>4, <4>1, Listed
      <3> HIDE DEF parts, l, q
      <3>6. l[1] = q
        <4>1. parts = {q}
          BY <3>4 DEF q
        <4>2. 1 \in DOMAIN l /\ l \in Seq({q})
          BY <3>5, <4>1
        <4> QED
          BY <4>2
      <3> QED
        BY <1>3, <2>1, <3>1, <3>4, <3>6 DEF l, q
    <2>2. CASE Cardinality(nums) # 1
      <3> HIDE DEF parts
      <3> QED
        BY <1>3, <1>5, <1>6, <2>2
    <2> QED
      BY <2>1, <2>2
  <1>9. ItemHosts(it) = {of(d) : d \in numbers}
    BY <1>3 DEF ItemHosts
  <1> QED
    BY <1>2, <1>7, <1>8, <1>9 DEF it

\* What Expand makes of the host list that Slurm writes is the set it was written for.
LEMMA ListStands ==
    ASSUME NEW hosts \in SUBSET HostNames, IsFiniteSet(hosts)
    PROVE  Expands(HostListOf(hosts)) /\ Expand(HostListOf(hosts)) = hosts
  <1> DEFINE group(h) == {x \in hosts : x.prefix = h.prefix /\ x.suffix = h.suffix}
             item == [h \in hosts |-> ItemOf(group(h))]
             items == {item[h] : h \in hosts}
  <1>1. ASSUME NEW h \in hosts
        PROVE  ~BadItem(item[h]) /\ ItemHosts(item[h]) = group(h)
    <2> DEFINE g == group(h)
    <2>1. g \in SUBSET hosts /\ g \in SUBSET HostNames /\ h \in g
      OBVIOUS
    <2>2. \A x \in g : x.prefix = h.prefix /\ x.suffix = h.suffix
      OBVIOUS
    <2>3. item[h] = ItemOf(g)
      OBVIOUS
    <2> HIDE DEF g, item
    <2>4. IsFiniteSet(g)
      BY <2>1, FS_Subset
    <2>5. ~BadItem(ItemOf(g)) /\ ItemHosts(ItemOf(g)) = g
      BY <2>1, <2>2, <2>4, ItemStands
    <2> QED
      BY <2>3, <2>5 DEF g
  <1>2. HostListOf(hosts) = SetToSeq(items)
    BY DEF HostListOf
  <1>3. ToSet(HostListOf(hosts)) = items
    <2>1. DOMAIN item = hosts
      OBVIOUS
    <2> HIDE DEF item
    <2>2. IsFiniteSet(items)
      BY <2>1, FiniteImage
    <2> HIDE DEF items
    <2> QED
      BY <1>2, <2>2, ListedSet
  <1>4. Expand(HostListOf(hosts)) = UNION {ItemHosts(item[h]) : h \in hosts}
    <2>1. UNION {ItemHosts(it) : it \in items} = UNION {ItemHosts(item[h]) : h \in hosts}
      OBVIOUS
    <2> HIDE DEF items
    <2> QED
      BY <1>3, <2>1 DEF Expand
  <1> HIDE DEF item
  <1>5. UNION {ItemHosts(item[h]) : h \in hosts} = hosts
    <2>1. \A h \in hosts : h \in group(h) /\ group(h) \subseteq hosts
      OBVIOUS
    <2> HIDE DEF group
    <2> QED
      BY <1>1, <2>1
  <1>6. Expands(HostListOf(hosts))
    BY <1>1, <1>3 DEF Expands
  <1> QED
    BY <1>4, <1>5, <1>6

\* triage sees on each Slurm node the running jobs that Slurm runs there, all and no
\* others: what Expand makes of a job's host list is the set of the job's nodes.
THEOREM JobsAreSeen == Spec => []RunningJobsSeen
  <1> DEFINE Runnable == jobs \subseteq JobHosts
  <1>1. Init => Runnable
    BY DEF Init
  <1>2. Runnable /\ [Next]_vars => Runnable'
    <2> SUFFICES ASSUME Runnable, [Next]_vars PROVE Runnable'
      OBVIOUS
    <2>1. CASE World
      BY <2>1 DEF World, SourceFails, SourceReturns, SlurmChanges, KubeChanges, PodsChange,
                  BudgetChanges, KernelWarns, JobsChange
    <2>2. ASSUME NEW n \in Nodes, NEW tool, NEW force \in BOOLEAN, Decide(tool, n, force)
          PROVE  Runnable'
      BY <2>2 DEF Decide, world
    <2>3. CASE Write
      BY <2>3 DEF Write
    <2>4. CASE UNCHANGED vars
      BY <2>4 DEF vars, world
    <2> QED
      BY <2>1, <2>2, <2>3, <2>4 DEF Next, Nodes
  <1>3. Runnable => RunningJobsSeen
    <2> SUFFICES ASSUME Runnable, NEW n \in SlurmNodes, NEW h \in jobs
                 PROVE  Names(HostListOf(h), n) <=> n \in h
      BY DEF RunningJobsSeen, JobsOn
    <2>1. h \in SUBSET SlurmNodes /\ SlurmNodes \subseteq HostNames
      BY HostAssumption
    <2>2. IsFiniteSet(h)
      <3>1. h \in SUBSET (SlurmNodes \cup KubeNodes)
        BY <2>1
      <3> QED
        BY <3>1, FiniteAssumption, FS_Subset
    <2>3. Expands(HostListOf(h)) /\ Expand(HostListOf(h)) = h
      BY <2>1, <2>2, ListStands
    <2> QED
      BY <2>3 DEF Names
  <1> QED
    BY <1>1, <1>2, <1>3, PTL DEF Spec
===============================================================================
