---------------------------- MODULE DrillEngineProofs ----------------------------
(***************************************************************************)
(* Proofs about DrillEngine.  What a script owes the engine is stated of   *)
(* any script (Ordered, Undone) and checked of every drill in the          *)
(* catalogue; that the engine then keeps its promises is proved from those *)
(* two alone, so a drill that is added has only them to meet.              *)
(***************************************************************************)
EXTENDS DrillEngine, FiniteSetTheorems, TLAPS

-------------------------------------------------------------------------------
(* Scripts *)

Undo   == {Repair(x) : x \in Breakable} \cup {TakeAway(x) : x \in Leavings} \cup {Resume, Retire}
Inject == {Break(x) : x \in Breakable} \cup {Put(x) : x \in Leavings} \cup {Relabel}

Steps == [op : {"cleanup"}, effect : Undo] \cup [op : {"do"}, effect : Undo \cup Inject]
         \cup [op : {"await"}, states : SUBSET NodeStates] \cup [op : {"decide", "check"}]

\* What a script breaks or puts, it has registered a cleanup for before.  A pod is
\* recreated by Kubernetes, and jobs end.
Ordered(s) ==
    \A i \in DOMAIN s : \A x :
        /\ s[i] = Do(Break(x)) /\ x # "pod" => \E j \in 1..(i - 1) : s[j] = Cleanup(Repair(x))
        /\ s[i] = Do(Put(x)) /\ x # "jobs" => \E j \in 1..(i - 1) : s[j] = Cleanup(TakeAway(x))

\* What a script can leave that lab_problems sees.
SeenByGreen == {"jobs", "reservation", "namespace", "cordon"}

\* What a script breaks or puts, it takes back itself, unless Kubernetes does or
\* lab_problems sees it.
Undone(s) ==
    \A i \in DOMAIN s : \A x :
        /\ s[i] = Do(Break(x)) /\ x # "pod" => \E j \in (i + 1)..Len(s) : s[j] = Do(Repair(x))
        /\ s[i] = Do(Put(x)) => x \in SeenByGreen \cup {"annotation"}
        /\ s[i] = Do(Put("annotation")) => \E j \in (i + 1)..Len(s) : s[j] = Do(TakeAway("annotation"))
        /\ s[i] # Do(TakeAway("namespace")) /\ s[i] # Do(Retire)

\* Every drill is a script.
LEMMA CatalogueTyped == \A d \in DOMAIN REGISTRY : REGISTRY[d] \in Seq(Steps)
  <1> USE DEF Steps, Undo, Inject, Breakable, Leavings, Silencing, HealthChecked,
             Cleanup, Do, Await, Decide, Check, NoAnswer, NodeStates,
             Break, Repair, Put, TakeAway, Resume, Relabel, Retire
  <1>1. NodeDeath \in Seq(Steps)
    BY DEF NodeDeath
  <1>2. NHCDiskFull \in Seq(Steps)
    BY DEF NHCDiskFull
  <1>3. NHCGpuLost \in Seq(Steps)
    BY DEF NHCGpuLost
  <1>4. MungeKeyMismatch \in Seq(Steps)
    BY DEF MungeKeyMismatch
  <1>5. ClockSkew \in Seq(Steps)
    BY DEF ClockSkew
  <1>6. SlurmctldOutage \in Seq(Steps)
    BY DEF SlurmctldOutage
  <1>7. SlurmdbdOutage \in Seq(Steps)
    BY DEF SlurmdbdOutage
  <1>8. SlinkyPodKill \in Seq(Steps)
    BY DEF SlinkyPodKill
  <1>9. K8sPDBDrain \in Seq(Steps)
    BY DEF K8sPDBDrain
  <1>10. K8sKubeletStop \in Seq(Steps)
    BY DEF K8sKubeletStop
  <1>11. K8sCertRenewal \in Seq(Steps)
    BY DEF K8sCertRenewal
  <1>12. NodeBringup \in Seq(Steps)
    BY DEF NodeBringup
  <1> HIDE DEF Steps, Undo, Inject
  <1> QED
    BY <1>1, <1>2, <1>3, <1>4, <1>5, <1>6, <1>7, <1>8, <1>9, <1>10, <1>11, <1>12 DEF REGISTRY

\* Every drill but one registers what undoes its damage first.
LEMMA CatalogueOrdered == \A d \in DOMAIN REGISTRY \ {"k8s_pdb_drain"} : Ordered(REGISTRY[d])
  <1> USE DEF Ordered, Breakable, Leavings, Silencing, HealthChecked,
             Cleanup, Do, Await, Decide, Check, NoAnswer, NodeStates,
             Break, Repair, Put, TakeAway, Resume, Relabel, Retire
  <1>1. Ordered(NodeDeath)
    BY DEF NodeDeath
  <1>2. Ordered(NHCDiskFull)
    BY DEF NHCDiskFull
  <1>3. Ordered(NHCGpuLost)
    BY DEF NHCGpuLost
  <1>4. Ordered(MungeKeyMismatch)
    BY DEF MungeKeyMismatch
  <1>5. Ordered(ClockSkew)
    BY DEF ClockSkew
  <1>6. Ordered(SlurmctldOutage)
    BY DEF SlurmctldOutage
  <1>7. Ordered(SlurmdbdOutage)
    BY DEF SlurmdbdOutage
  <1>8. Ordered(SlinkyPodKill)
    BY DEF SlinkyPodKill
  <1>9. Ordered(K8sKubeletStop)
    BY DEF K8sKubeletStop
  <1>10. Ordered(K8sCertRenewal)
    BY DEF K8sCertRenewal
  <1>11. Ordered(NodeBringup)
    BY DEF NodeBringup
  <1> HIDE DEF Ordered
  <1> QED
    BY <1>1, <1>2, <1>3, <1>4, <1>5, <1>6, <1>7, <1>8, <1>9, <1>10, <1>11 DEF REGISTRY

\* Every drill but one undoes its damage itself.
LEMMA CatalogueUndone == \A d \in DOMAIN REGISTRY \ {"node_bringup"} : Undone(REGISTRY[d])
  <1> USE DEF Undone, SeenByGreen, Breakable, Leavings, Silencing, HealthChecked,
             Cleanup, Do, Await, Decide, Check, NoAnswer, NodeStates,
             Break, Repair, Put, TakeAway, Resume, Relabel, Retire
  <1>1. Undone(NodeDeath)
    BY DEF NodeDeath
  <1>2. Undone(NHCDiskFull)
    BY DEF NHCDiskFull
  <1>3. Undone(NHCGpuLost)
    <2>1. \A i \in DOMAIN NHCGpuLost : \A x : NHCGpuLost[i] = Do(Break(x)) /\ x # "pod" =>
              \E j \in (i + 1)..Len(NHCGpuLost) : NHCGpuLost[j] = Do(Repair(x))
      BY DEF NHCGpuLost
    <2>2. \A i \in DOMAIN NHCGpuLost : \A x :
              NHCGpuLost[i] = Do(Put(x)) => x \in SeenByGreen \cup {"annotation"}
      BY DEF NHCGpuLost
    <2>3. \A i \in DOMAIN NHCGpuLost : NHCGpuLost[i] = Do(Put("annotation")) =>
              \E j \in (i + 1)..Len(NHCGpuLost) : NHCGpuLost[j] = Do(TakeAway("annotation"))
      BY DEF NHCGpuLost
    <2>4. \A i \in DOMAIN NHCGpuLost : NHCGpuLost[i] # Do(TakeAway("namespace")) /\ NHCGpuLost[i] # Do(Retire)
      BY DEF NHCGpuLost
    <2> QED
      BY <2>1, <2>2, <2>3, <2>4, Zenon DEF Undone
  <1>4. Undone(MungeKeyMismatch)
    BY DEF MungeKeyMismatch
  <1>5. Undone(ClockSkew)
    BY DEF ClockSkew
  <1>6. Undone(SlurmctldOutage)
    BY DEF SlurmctldOutage
  <1>7. Undone(SlurmdbdOutage)
    BY DEF SlurmdbdOutage
  <1>8. Undone(SlinkyPodKill)
    <2>1. \A i \in DOMAIN SlinkyPodKill : \A x : SlinkyPodKill[i] = Do(Break(x)) /\ x # "pod" =>
              \E j \in (i + 1)..Len(SlinkyPodKill) : SlinkyPodKill[j] = Do(Repair(x))
      BY DEF SlinkyPodKill
    <2>2. \A i \in DOMAIN SlinkyPodKill : \A x :
              SlinkyPodKill[i] = Do(Put(x)) => x \in SeenByGreen \cup {"annotation"}
      BY DEF SlinkyPodKill
    <2>3. \A i \in DOMAIN SlinkyPodKill : SlinkyPodKill[i] = Do(Put("annotation")) =>
              \E j \in (i + 1)..Len(SlinkyPodKill) : SlinkyPodKill[j] = Do(TakeAway("annotation"))
      BY DEF SlinkyPodKill
    <2>4. \A i \in DOMAIN SlinkyPodKill : SlinkyPodKill[i] # Do(TakeAway("namespace")) /\ SlinkyPodKill[i] # Do(Retire)
      BY DEF SlinkyPodKill
    <2> QED
      BY <2>1, <2>2, <2>3, <2>4, Zenon DEF Undone
  <1>9. Undone(K8sPDBDrain)
    <2>1. \A i \in DOMAIN K8sPDBDrain : \A x : K8sPDBDrain[i] = Do(Break(x)) /\ x # "pod" =>
              \E j \in (i + 1)..Len(K8sPDBDrain) : K8sPDBDrain[j] = Do(Repair(x))
      BY DEF K8sPDBDrain
    <2>2. \A i \in DOMAIN K8sPDBDrain : \A x :
              K8sPDBDrain[i] = Do(Put(x)) => x \in SeenByGreen \cup {"annotation"}
      BY DEF K8sPDBDrain
    <2>3. \A i \in DOMAIN K8sPDBDrain : K8sPDBDrain[i] = Do(Put("annotation")) =>
              \E j \in (i + 1)..Len(K8sPDBDrain) : K8sPDBDrain[j] = Do(TakeAway("annotation"))
      BY DEF K8sPDBDrain
    <2>4. \A i \in DOMAIN K8sPDBDrain : K8sPDBDrain[i] # Do(TakeAway("namespace")) /\ K8sPDBDrain[i] # Do(Retire)
      BY DEF K8sPDBDrain
    <2> QED
      BY <2>1, <2>2, <2>3, <2>4, Zenon DEF Undone
  <1>10. Undone(K8sKubeletStop)
    BY DEF K8sKubeletStop
  <1>11. Undone(K8sCertRenewal)
    BY DEF K8sCertRenewal
  <1> HIDE DEF Undone, SeenByGreen
  <1> QED
    BY <1>1, <1>2, <1>3, <1>4, <1>5, <1>6, <1>7, <1>8, <1>9, <1>10, <1>11 DEF REGISTRY

LEMMA ScriptType ==
    ASSUME drill \in Drills
    PROVE  Script \in Seq(Steps) /\ Len(Script) \in Nat
  BY CatalogueTyped, DrillsAssumption DEF Script

-------------------------------------------------------------------------------
(* Damage that is still open *)

\* Before step p the script has done a, and not done b since.
Open(s, p, a, b) ==
    \E i \in 1..(p - 1) : s[i] = Do(a) /\ \A j \in (i + 1)..(p - 1) : s[j] # Do(b)

LEMMA OpenStays ==
    ASSUME NEW s, NEW p \in Nat \ {0}, NEW a, NEW b, Open(s, p, a, b), s[p] # Do(b)
    PROVE  Open(s, p + 1, a, b)
  <1>1. PICK i \in 1..(p - 1) : s[i] = Do(a) /\ \A j \in (i + 1)..(p - 1) : s[j] # Do(b)
    BY DEF Open
  <1>2. i \in 1..((p + 1) - 1)
    OBVIOUS
  <1>3. ASSUME NEW j \in (i + 1)..((p + 1) - 1)
        PROVE  s[j] # Do(b)
    <2>1. j \in (i + 1)..(p - 1) \/ j = p
      OBVIOUS
    <2> QED
      BY <1>1, <2>1
  <1> QED
    BY <1>1, <1>2, <1>3 DEF Open

LEMMA OpenNow ==
    ASSUME NEW s, NEW p \in Nat \ {0}, NEW a, NEW b, s[p] = Do(a)
    PROVE  Open(s, p + 1, a, b)
  <1>1. p \in 1..((p + 1) - 1) /\ (p + 1)..((p + 1) - 1) = {}
    OBVIOUS
  <1> QED
    BY <1>1 DEF Open

LEMMA NothingOpen ==
    ASSUME NEW s, Len(s) \in Nat, DOMAIN s = 1..Len(s), NEW a, NEW b,
           \A i \in DOMAIN s : s[i] = Do(a) => \E j \in (i + 1)..Len(s) : s[j] = Do(b)
    PROVE  ~Open(s, Len(s) + 1, a, b)
  <1>1. (Len(s) + 1) - 1 = Len(s)
    OBVIOUS
  <1> QED
    BY <1>1 DEF Open

-------------------------------------------------------------------------------
(* Counting cleanups *)

LEMMA Counted ==
    ASSUME NEW s, NEW n \in Nat
    PROVE  /\ Registered(s, n) \in Nat
           /\ \A m \in 0..n : Registered(s, m) \in Nat /\ Registered(s, m) <= Registered(s, n)
           /\ Registered(s, n + 1) = IF s[n + 1].op = "cleanup" THEN Registered(s, n) + 1
                                     ELSE Registered(s, n)
           /\ \A i \in 1..n : s[i].op = "cleanup" => Registered(s, i - 1) + 1 = Registered(s, i)
           /\ Registered(s, 0) = 0
  <1> DEFINE C(m) == {i \in 1..m : s[i].op = "cleanup"}
  <1>1. \A m \in Nat : IsFiniteSet(1..m)
    BY FS_Interval
  <1>2. \A m \in Nat : IsFiniteSet(C(m)) /\ Registered(s, m) \in Nat
    BY <1>1, FS_Subset, FS_CardinalityType DEF Registered
  <1>3. ASSUME NEW m \in 0..n
        PROVE  Registered(s, m) <= Registered(s, n)
    <2>1. C(m) \subseteq C(n) /\ m \in Nat
      OBVIOUS
    <2> QED
      BY <1>2, <2>1, FS_Subset DEF Registered
  <1>4. ASSUME NEW m \in Nat
        PROVE  Registered(s, m + 1) = IF s[m + 1].op = "cleanup" THEN Registered(s, m) + 1
                                      ELSE Registered(s, m)
    <2>1. 1..(m + 1) = (1..m) \cup {m + 1} /\ m + 1 \notin 1..m
      OBVIOUS
    <2>2. C(m + 1) = IF s[m + 1].op = "cleanup" THEN C(m) \cup {m + 1} ELSE C(m)
      BY <2>1
    <2>3. m + 1 \notin C(m)
      BY <2>1
    <2> HIDE DEF C
    <2>4. Cardinality(C(m) \cup {m + 1}) = Cardinality(C(m)) + 1
      BY <1>2, <2>3, FS_AddElement
    <2> QED
      BY <2>2, <2>4 DEF Registered, C
  <1>5. ASSUME NEW i \in 1..n, s[i].op = "cleanup"
        PROVE  Registered(s, i - 1) + 1 = Registered(s, i)
    <2>1. i - 1 \in Nat /\ (i - 1) + 1 = i
      OBVIOUS
    <2> QED
      BY <1>4, <1>5, <2>1
  <1>6. Registered(s, 0) = 0
    <2>1. C(0) = {}
      OBVIOUS
    <2> QED
      BY <2>1, FS_EmptySet DEF Registered
  <1>7. \A m \in 0..n : m \in Nat
    OBVIOUS
  <1> QED
    BY <1>2, <1>3, <1>4, <1>5, <1>6, <1>7

-------------------------------------------------------------------------------
(* Effects *)

\* What a command or a cleanup does to a lab.
LEMMA Applied ==
    ASSUME NEW l \in Labs, NEW e \in Undo \cup Inject
    PROVE  /\ Apply(e, l) \in Labs
           /\ \A x \in Apply(e, l).broken : x \in l.broken \/ e = Break(x)
           /\ \A x : e = Repair(x) => x \notin Apply(e, l).broken
           /\ \A x \in Apply(e, l).left :
                 \/ x \in l.left
                 \/ e = Put(x)
                 \/ x = "deleting" /\ e = TakeAway("namespace") /\ "kubelet" \in l.broken
                 \/ x = "new_node_drained" /\ e = Retire /\ "new_node" \in l.left
           /\ e = TakeAway("annotation") => "annotation" \notin Apply(e, l).left
  <1> DEFINE r == Apply(e, l)
  <1> USE DEF Break, Repair, Put, TakeAway, Resume, Relabel, Retire, Labs
  <1>1. ASSUME NEW x \in Breakable, e = Repair(x)
        PROVE  r = [l EXCEPT !.broken = @ \ {x},
                             !.node = IF x = "power" /\ x \in l.broken THEN "booting" ELSE @]
    BY <1>1 DEF Apply
  <1>2. CASE \E x \in Breakable : e = Repair(x)
    <2>1. PICK y \in Breakable : e = Repair(y)
      BY <1>2
    <2>2. r = [broken |-> l.broken \ {y}, left |-> l.left,
               node |-> IF y = "power" /\ y \in l.broken THEN "booting" ELSE l.node]
      BY <1>1, <2>1
    <2>3. r \in Labs
      BY <2>2 DEF NodeStates
    <2> HIDE DEF r
    <2> QED
      BY <2>1, <2>2, <2>3 DEF r
  <1>3. ASSUME NEW x \in Leavings, e = TakeAway(x)
        PROVE  r = TakenAway(l, x)
    BY <1>3 DEF Apply
  <1>4. CASE \E x \in Leavings : e = TakeAway(x)
    BY <1>3, <1>4 DEF TakenAway, Leavings
  <1>5. CASE e = Resume
    BY <1>5 DEF Apply, Resumed, NodeStates
  <1>6. CASE e = Retire
    BY <1>6 DEF Apply, Leavings
  <1>7. CASE e = Relabel
    BY <1>7 DEF Apply, NodeStates
  <1>8. CASE \E x \in Breakable : e = Break(x)
    BY <1>8 DEF Apply
  <1>9. CASE \E x \in Leavings : e = Put(x)
    BY <1>9 DEF Apply
  <1> QED
    BY <1>2, <1>4, <1>5, <1>6, <1>7, <1>8, <1>9 DEF Undo, Inject

-------------------------------------------------------------------------------
(* The inductive invariant *)

\* Where the run is, and how many cleanups it has.
Progress ==
    /\ TypeOK
    /\ cleanups \in Seq(Undo)
    /\ Stopped => pc = 1 /\ cleanups = << >>
    /\ phase \in {"cleanup", "green"} => pc = Len(Script) + 1
    /\ phase = "script" => Len(cleanups) = Registered(Script, pc - 1)

\* What a drill that has not failed has left in a lab it found clean: what its
\* script has broken and not repaired yet, or what lab_problems sees.
Traced ==
    phase \in {"script", "cleanup", "green"} /\ drill # "node_bringup" /\ clean /\ status # "FAIL" =>
        /\ \A x \in lab.broken \ {"pod"} : Open(Script, pc, Break(x), Repair(x))
        /\ \A x \in lab.left \ (SeenByGreen \cup {"unready"}) :
              x = "annotation" /\ Open(Script, pc, Put(x), TakeAway(x))

IInv == Progress /\ CleanupFirst /\ Traced /\ PassLeavesNothing

LEMMA InitIInv == Init => IInv
  <1> SUFFICES ASSUME Init PROVE IInv
    OBVIOUS
  <1>1. Len(Script) \in Nat
    BY ScriptType DEF Init
  <1>2. CleanLab \in Labs
    BY DEF CleanLab, Labs, NodeStates
  <1>3. Registered(Script, 0) = 0
    BY Counted
  <1>4. Len(cleanups) = 0 /\ cleanups \in Seq(Undo) /\ pc - 1 = 0 /\ pc \in 1..Len(Script) + 1
    BY <1>1 DEF Init
  <1>5. TypeOK
    <2>1. 1..(pc - 1) = {} /\ Len(cleanups) <= Registered(Script, pc - 1)
      BY <1>3, <1>4
    <2>2. {failed, gap, clean, spoiled} \subseteq BOOLEAN
      BY DEF Init
    <2> QED
      BY <1>2, <1>4, <2>1, <2>2 DEF Init, TypeOK
  <1> QED
    BY <1>4, <1>5 DEF Init, IInv, Progress, CleanupFirst, Traced, PassLeavesNothing, Stopped

\* By itself the lab heals, or its node is reported not ready.
LEMMA LabHeals ==
    ASSUME lab \in Labs, Lab
    PROVE  /\ UNCHANGED run /\ lab' \in Labs
           /\ lab'.broken \subseteq lab.broken
           /\ lab'.left \subseteq lab.left \cup {"unready"}
  <1> USE DEF Labs
  <1>1. ASSUME NEW state \in NodeStates, Becomes(state)
        PROVE  /\ UNCHANGED run /\ lab' \in Labs
               /\ lab'.broken = lab.broken /\ lab'.left = lab.left
    BY <1>1 DEF Becomes
  <1>2. CASE SlurmdLost \/ SlurmdTimeout \/ Returned \/ UnexpectedReboot
    BY <1>1, <1>2 DEF SlurmdLost, SlurmdTimeout, Returned, UnexpectedReboot, NodeStates
  <1>3. CASE NHCDrain \/ NHCResume \/ OperatorDrain \/ OperatorUndrain
    BY <1>1, <1>3 DEF NHCDrain, NHCResume, OperatorDrain, OperatorUndrain, NodeStates
  <1>4. CASE PodRecreated
    BY <1>4 DEF PodRecreated
  <1>5. CASE KubeletSilent
    BY <1>5 DEF KubeletSilent, Leavings
  <1>6. CASE KubeletBack \/ NamespaceGone \/ JobsEnd
    BY <1>6 DEF KubeletBack, NamespaceGone, JobsEnd
  <1> QED
    BY <1>2, <1>3, <1>4, <1>5, <1>6 DEF Lab

\* A lab that changes by itself, or in the hands of an engineer.
LEMMA LabKeeps ==
    ASSUME IInv, UNCHANGED run, lab' \in Labs,
           lab'.broken \subseteq lab.broken, lab'.left \subseteq lab.left \cup {"unready"}
    PROVE  IInv'
  <1> USE DEF run
  <1>1. Script' = Script
    BY DEF Script
  <1>2. TypeOK'
    BY <1>1 DEF IInv, Progress, TypeOK
  <1>3. Progress'
    BY <1>1, <1>2 DEF IInv, Progress, Stopped
  <1>4. CleanupFirst'
    BY DEF IInv, CleanupFirst
  <1>5. Traced'
    BY <1>1 DEF IInv, Traced
  <1>6. PassLeavesNothing'
    BY DEF IInv, PassLeavesNothing
  <1> QED
    BY <1>3, <1>4, <1>5, <1>6 DEF IInv

LEMMA StartKeeps ==
    ASSUME IInv, NEW d \in Drills, Start(d)
    PROVE  IInv'
  <1>1. /\ phase' = "script" /\ drill' = d /\ pc' = 1 /\ cleanups' = << >>
        /\ status' = "PASS" /\ clean' = (lab = CleanLab) /\ lab' = lab
    BY DEF Start, IInv, Progress
  <1>2. Len(Script') \in Nat
    BY <1>1, CatalogueTyped, DrillsAssumption DEF Script
  <1>3. /\ Len(cleanups') = 0 /\ cleanups' \in Seq(Undo) /\ pc' - 1 = 0
        /\ pc' \in 1..Len(Script') + 1
    BY <1>1, <1>2
  <1>4. Registered(Script', 0) = 0
    BY Counted
  <1>5. TypeOK'
    <2>1. 1..(pc' - 1) = {} /\ Len(cleanups') <= Registered(Script', pc' - 1)
      BY <1>3, <1>4
    <2>2. clean' \in BOOLEAN
      BY <1>1, Zenon
    <2>3. {failed, gap, clean, spoiled}' \subseteq BOOLEAN
      BY <2>2 DEF Start, IInv, Progress, TypeOK
    <2> QED
      BY <1>1, <1>3, <2>1, <2>3 DEF IInv, Progress, TypeOK
  <1>6. Progress'
    BY <1>1, <1>3, <1>4, <1>5 DEF Progress, Stopped
  <1>7. ASSUME clean'
        PROVE  lab'.broken = {} /\ lab'.left = {}
    <2>1. lab' = CleanLab
      BY <1>1, <1>7, Zenon
    <2> QED
      BY <2>1 DEF CleanLab
  <1> QED
    BY <1>1, <1>6, <1>7 DEF IInv, CleanupFirst, Traced, PassLeavesNothing

LEMMA TidyUpKeeps == ASSUME IInv, TidyUp PROVE IInv'
  <1>1. CleanLab \in Labs /\ CleanLab.broken = {} /\ CleanLab.left = {}
    BY DEF CleanLab, Labs, NodeStates
  <1> QED
    BY <1>1, LabKeeps DEF TidyUp

-------------------------------------------------------------------------------
(* The script's steps *)

\* The step the script is at.
LEMMA StepType ==
    ASSUME Progress, phase = "script", pc <= Len(Script)
    PROVE  /\ pc \in Nat \ {0} /\ pc \in DOMAIN Script /\ pc - 1 \in Nat /\ (pc - 1) + 1 = pc
           /\ pc + 1 \in 1..Len(Script) + 1 /\ (pc + 1) - 1 = pc
           /\ Script[pc] \in Steps
  <1>1. pc \in 1..Len(Script) + 1 /\ Script \in Seq(Steps) /\ Len(Script) \in Nat
    BY ScriptType DEF Progress, TypeOK
  <1>2. pc \in 1..Len(Script) /\ DOMAIN Script = 1..Len(Script)
    BY <1>1
  <1> QED
    BY <1>1, <1>2

\* While the script runs, the cleanups of all its steps so far are registered.
LEMMA AllRegistered ==
    ASSUME Progress, phase = "script", NEW i \in 1..(pc - 1), NEW e, Script[i] = Cleanup(e)
    PROVE  \E k \in DOMAIN cleanups : cleanups[k] = e
  <1> DEFINE n == pc - 1
             k == Registered(Script, i)
  <1>1. n \in Nat /\ i \in 1..n /\ i \in 0..n /\ i - 1 \in 0..n
    BY ScriptType DEF Progress, TypeOK
  <1>2. Script[i].op = "cleanup" /\ Script[i].effect = e
    BY DEF Cleanup
  <1> HIDE DEF n
  <1>3. k \in Nat /\ k <= Registered(Script, n) /\ Registered(Script, i - 1) + 1 = k
        /\ Registered(Script, i - 1) \in Nat
    BY <1>1, <1>2, Counted
  <1>4. Len(cleanups) = Registered(Script, n)
    BY DEF Progress, n
  <1>5. k \in 1..Len(cleanups)
    BY <1>3, <1>4
  <1>6. cleanups[k] = e
    BY <1>2, <1>5 DEF Progress, TypeOK
  <1>7. DOMAIN cleanups = 1..Len(cleanups)
    BY DEF Progress
  <1> HIDE DEF k
  <1> QED
    BY <1>5, <1>6, <1>7

\* The script goes on to its next step.
LEMMA Advances ==
    ASSUME Progress, phase = "script", pc <= Len(Script), pc' = pc + 1,
           UNCHANGED <<phase, drill, status, clean, spoiled>>,
           lab' \in Labs, {failed', gap'} \subseteq BOOLEAN,
           IF Script[pc].op = "cleanup" THEN cleanups' = Append(cleanups, Script[pc].effect)
           ELSE cleanups' = cleanups
    PROVE  Progress'
  <1> DEFINE n == pc - 1
             m == Len(cleanups)
  <1>1. /\ n \in Nat /\ n + 1 = pc /\ pc' - 1 = pc /\ pc' \in 1..Len(Script) + 1
        /\ \A i \in 1..pc : i \in 1..n \/ i = pc
    BY StepType
  <1>2. Script' = Script
    BY DEF Script
  <1>3. Script[pc].op = "cleanup" => Script[pc].effect \in Undo
    BY StepType DEF Steps
  <1>4. cleanups \in Seq(Undo) /\ m \in Nat /\ m = Registered(Script, n)
    BY DEF Progress
  <1>5. Registered(Script, pc) = IF Script[pc].op = "cleanup" THEN Registered(Script, n) + 1
                                 ELSE Registered(Script, n)
    <2> HIDE DEF n
    <2>1. Registered(Script, n + 1) = IF Script[n + 1].op = "cleanup" THEN Registered(Script, n) + 1
                                      ELSE Registered(Script, n)
      BY <1>1, Counted
    <2> QED
      BY <1>1, <2>1
  <1>6. /\ cleanups' \in Seq(Undo)
        /\ Len(cleanups') = Registered(Script, pc)
        /\ \A k \in 1..m : cleanups'[k] = cleanups[k]
        /\ Script[pc].op = "cleanup" => cleanups'[m + 1] = Script[pc].effect
    <2> HIDE DEF n
    <2>1. CASE Script[pc].op = "cleanup"
      <3> DEFINE e == Script[pc].effect
      <3>1. e \in Undo /\ cleanups' = Append(cleanups, e)
        BY <1>3, <2>1
      <3> HIDE DEF e
      <3>2. /\ cleanups' \in Seq(Undo) /\ Len(cleanups') = m + 1
            /\ \A k \in 1..m : cleanups'[k] = cleanups[k]
            /\ cleanups'[m + 1] = e
        BY <1>4, <3>1
      <3> QED
        BY <1>4, <1>5, <2>1, <3>2 DEF e
    <2>2. CASE Script[pc].op # "cleanup"
      BY <1>4, <1>5, <2>2
    <2> QED
      BY <2>1, <2>2
  <1>7. \A i \in 1..n : Registered(Script, i) \in Nat /\ Registered(Script, i) <= m
                       /\ (Script[i].op = "cleanup" => Registered(Script, i) \in 1..m)
    <2> HIDE DEF m, n
    <2> SUFFICES ASSUME NEW i \in 1..n
                 PROVE  /\ Registered(Script, i) \in Nat /\ Registered(Script, i) <= m
                        /\ (Script[i].op = "cleanup" => Registered(Script, i) \in 1..m)
      OBVIOUS
    <2>1. i \in 0..n /\ i - 1 \in 0..n
      BY <1>1
    <2>2. /\ Registered(Script, i) \in Nat /\ Registered(Script, i) <= m
          /\ Registered(Script, i - 1) \in Nat
          /\ Script[i].op = "cleanup" => Registered(Script, i - 1) + 1 = Registered(Script, i)
      BY <1>1, <1>4, <2>1, Counted
    <2> QED
      BY <1>4, <2>2
  <1>8. \A i \in 1..n : Script[i].op = "cleanup" => cleanups[Registered(Script, i)] = Script[i].effect
    <2> HIDE DEF m
    <2> QED
      BY <1>7 DEF Progress, TypeOK, m
  <1> HIDE DEF n, m
  <1>9. ASSUME NEW i \in 1..pc, Script[i].op = "cleanup"
        PROVE  cleanups'[Registered(Script, i)] = Script[i].effect
    <2>1. CASE i \in 1..n
      BY <1>6, <1>7, <1>8, <1>9, <2>1
    <2>2. CASE i = pc
      BY <1>4, <1>5, <1>6, <1>9, <2>2
    <2> QED
      BY <1>1, <2>1, <2>2
  <1>10. {failed, gap, clean, spoiled}' \subseteq BOOLEAN
    BY DEF Progress, TypeOK
  <1>11. Len(cleanups') <= Registered(Script, pc)
    BY <1>4, <1>5, <1>6
  <1>12. TypeOK'
    BY <1>1, <1>2, <1>9, <1>10, <1>11 DEF Progress, TypeOK
  <1> QED
    BY <1>1, <1>2, <1>6, <1>12 DEF Progress, Stopped

\* A step that does nothing to the lab.
LEMMA QuietStepKeeps ==
    ASSUME IInv, phase = "script", pc <= Len(Script), Script[pc].op # "do", pc' = pc + 1,
           UNCHANGED <<lab, phase, drill, status, clean, spoiled>>,
           {failed', gap'} \subseteq BOOLEAN,
           IF Script[pc].op = "cleanup" THEN cleanups' = Append(cleanups, Script[pc].effect)
           ELSE cleanups' = cleanups
    PROVE  IInv'
  <1>1. Progress'
    BY Advances DEF IInv, Progress, TypeOK
  <1>2. {cleanups[k] : k \in DOMAIN cleanups} \subseteq {cleanups'[k] : k \in DOMAIN cleanups'}
    <2>1. cleanups \in Seq(Undo)
      BY DEF IInv, Progress
    <2>2. \A k \in DOMAIN cleanups : k \in DOMAIN cleanups' /\ cleanups'[k] = cleanups[k]
      <3>1. CASE Script[pc].op = "cleanup"
        <4>1. Script[pc].effect \in Undo
          BY <3>1, StepType DEF IInv, Steps
        <4> QED
          BY <2>1, <3>1, <4>1
      <3>2. CASE Script[pc].op # "cleanup"
        BY <3>2
      <3> QED
        BY <3>1, <3>2
    <2> QED
      BY <2>2
  <1>3. CleanupFirst'
    BY <1>2 DEF IInv, CleanupFirst
  <1>4. Script' = Script /\ pc \in Nat \ {0} /\ \A e : Script[pc] # Do(e)
    BY StepType DEF IInv, Script, Do
  <1>5. Traced'
    BY <1>4, OpenStays DEF IInv, Traced
  <1> QED
    BY <1>1, <1>3, <1>5 DEF IInv, PassLeavesNothing

LEMMA CommandKeeps == ASSUME IInv, Command PROVE IInv'
  <1> DEFINE e == Script[pc].effect
  <1>1. /\ phase = "script" /\ pc <= Len(Script) /\ Script[pc].op = "do"
        /\ lab' = Apply(e, lab) /\ pc' = pc + 1
        /\ UNCHANGED <<phase, drill, cleanups, status, failed, gap, clean, spoiled>>
    BY DEF Command, At
  <1>2. /\ pc \in Nat \ {0} /\ pc \in DOMAIN Script /\ Script' = Script
        /\ Script[pc] = Do(e) /\ e \in Undo \cup Inject
    BY <1>1, StepType DEF IInv, Steps, Do, Script
  <1>3. lab \in Labs /\ {failed', gap'} \subseteq BOOLEAN
    BY <1>1 DEF IInv, Progress, TypeOK
  <1> HIDE DEF e
  <1>4. /\ lab' \in Labs
        /\ \A x \in lab'.broken : x \in lab.broken \/ e = Break(x)
        /\ \A x : e = Repair(x) => x \notin lab'.broken
        /\ \A x \in lab'.left :
              \/ x \in lab.left
              \/ e = Put(x)
              \/ x = "deleting" /\ e = TakeAway("namespace") /\ "kubelet" \in lab.broken
              \/ x = "new_node_drained" /\ e = Retire /\ "new_node" \in lab.left
        /\ e = TakeAway("annotation") => "annotation" \notin lab'.left
    BY <1>1, <1>2, <1>3, Applied
  <1>5. Progress'
    BY <1>1, <1>3, <1>4, Advances DEF IInv
  <1>6. CleanupFirst'
    <2> SUFFICES ASSUME drill # "k8s_pdb_drain", clean
                 PROVE  LET undone == {cleanups[i] : i \in DOMAIN cleanups}
                        IN  /\ \A x \in lab'.broken \ {"pod"} : Repair(x) \in undone
                            /\ \A x \in lab'.left \ {"jobs", "deleting", "unready", "new_node_drained"} :
                                  TakeAway(x) \in undone
      BY <1>1 DEF CleanupFirst
    <2> DEFINE undone == {cleanups[i] : i \in DOMAIN cleanups}
    <2>1. Ordered(Script)
      BY CatalogueOrdered, DrillsAssumption DEF IInv, Progress, TypeOK, Script
    <2>2. \A c : (\E j \in 1..(pc - 1) : Script[j] = Cleanup(c)) => c \in undone
      BY <1>1, AllRegistered DEF IInv
    <2>3. /\ \A x \in lab.broken \ {"pod"} : Repair(x) \in undone
          /\ \A x \in lab.left \ {"jobs", "deleting", "unready", "new_node_drained"} :
                TakeAway(x) \in undone
      BY <1>1 DEF IInv, CleanupFirst
    <2> HIDE DEF undone
    <2>4. ASSUME NEW x \in lab'.broken \ {"pod"}
          PROVE  Repair(x) \in undone
      <3>1. CASE e = Break(x)
        BY <1>2, <2>1, <2>2, <3>1 DEF Ordered
      <3> QED
        BY <1>4, <2>3, <3>1
    <2>5. ASSUME NEW x \in lab'.left \ {"jobs", "deleting", "unready", "new_node_drained"}
          PROVE  TakeAway(x) \in undone
      <3>1. CASE e = Put(x)
        BY <1>2, <2>1, <2>2, <3>1 DEF Ordered
      <3> QED
        BY <1>4, <2>3, <3>1
    <2> QED
      BY <2>4, <2>5 DEF undone
  <1>7. Traced'
    <2> SUFFICES ASSUME drill # "node_bringup", clean, status # "FAIL"
                 PROVE  /\ \A x \in lab'.broken \ {"pod"} : Open(Script, pc + 1, Break(x), Repair(x))
                        /\ \A x \in lab'.left \ (SeenByGreen \cup {"unready"}) :
                              x = "annotation" /\ Open(Script, pc + 1, Put(x), TakeAway(x))
      BY <1>1, <1>2 DEF Traced
    <2>1. Undone(Script)
      BY CatalogueUndone, DrillsAssumption DEF IInv, Progress, TypeOK, Script
    <2>2. /\ \A x \in lab.broken \ {"pod"} : Open(Script, pc, Break(x), Repair(x))
          /\ \A x \in lab.left \ (SeenByGreen \cup {"unready"}) :
                x = "annotation" /\ Open(Script, pc, Put(x), TakeAway(x))
      BY <1>1 DEF IInv, Traced
    <2>3. \A c : Script[pc] = Do(c) => c = e
      BY <1>2 DEF Do
    <2>4. ASSUME NEW x \in lab'.broken \ {"pod"}
          PROVE  Open(Script, pc + 1, Break(x), Repair(x))
      <3>1. CASE e = Break(x)
        BY <1>2, <3>1, OpenNow
      <3>2. CASE x \in lab.broken
        <4>1. Script[pc] # Do(Repair(x))
          BY <1>4, <2>3
        <4> QED
          BY <1>2, <2>2, <3>2, <4>1, OpenStays
      <3> QED
        BY <1>4, <3>1, <3>2
    <2>5. e # TakeAway("namespace") /\ e # Retire
      BY <1>2, <2>1 DEF Undone
    <2>6. ASSUME NEW x \in lab'.left \ (SeenByGreen \cup {"unready"})
          PROVE  x = "annotation" /\ Open(Script, pc + 1, Put(x), TakeAway(x))
      <3>1. CASE e = Put(x)
        <4>1. x \in SeenByGreen \cup {"annotation"}
          BY <1>2, <2>1, <3>1 DEF Undone
        <4> QED
          BY <1>2, <3>1, <4>1, OpenNow
      <3>2. CASE x \in lab.left
        <4>1. x = "annotation" /\ Open(Script, pc, Put(x), TakeAway(x))
          BY <2>2, <3>2
        <4>2. Script[pc] # Do(TakeAway(x))
          BY <1>4, <2>3, <4>1
        <4> QED
          BY <1>2, <4>1, <4>2, OpenStays
      <3> QED
        BY <1>4, <2>5, <3>1, <3>2
    <2> QED
      BY <2>4, <2>6
  <1> QED
    BY <1>1, <1>5, <1>6, <1>7 DEF IInv, PassLeavesNothing

-------------------------------------------------------------------------------
(* From the script to the result *)

\* The script is over, or was stopped: its cleanups stay registered.
LEMMA Leaves ==
    ASSUME Progress, phase = "script", phase' = "cleanup", pc' = Len(Script) + 1,
           UNCHANGED <<drill, cleanups, clean, spoiled>>, lab' \in Labs,
           status' \in {"PASS", "GAP", "FAIL"}, {failed', gap'} \subseteq BOOLEAN
    PROVE  Progress'
  <1> DEFINE n == pc - 1
             last == Len(Script)
  <1>1. /\ last \in Nat /\ n \in 0..last /\ n \in Nat /\ pc' - 1 = last /\ pc' \in 1..last + 1
    BY ScriptType DEF Progress, TypeOK
  <1>2. Script' = Script /\ Len(cleanups) = Registered(Script, n) /\ Len(cleanups) \in Nat
    BY DEF Script, Progress
  <1>3. \A i \in 1..n : Script[i].op = "cleanup" /\ Registered(Script, i) <= Len(cleanups) =>
            cleanups[Registered(Script, i)] = Script[i].effect
    BY DEF Progress, TypeOK
  <1> HIDE DEF n, last
  <1>4. Len(cleanups) <= Registered(Script, last)
    BY <1>1, <1>2, Counted
  <1>5. ASSUME NEW i \in 1..last, Script[i].op = "cleanup", Registered(Script, i) <= Len(cleanups)
        PROVE  i \in 1..n
    <2>1. CASE i > n
      <3>1. i - 1 \in Nat /\ n \in 0..(i - 1) /\ i - 1 \in 0..last
        BY <1>1, <2>1
      <3>2. Registered(Script, n) <= Registered(Script, i - 1)
        BY <3>1, Counted
      <3>3. Registered(Script, i - 1) + 1 = Registered(Script, i) /\ Registered(Script, i - 1) \in Nat
        BY <1>1, <1>5, <3>1, Counted
      <3> QED
        BY <1>2, <1>5, <3>2, <3>3
    <2> QED
      BY <1>1, <2>1
  <1>6. {failed, gap, clean, spoiled}' \subseteq BOOLEAN
    BY DEF Progress, TypeOK
  <1>7. TypeOK'
    BY <1>1, <1>2, <1>3, <1>4, <1>5, <1>6 DEF Progress, TypeOK
  <1> QED
    BY <1>1, <1>2, <1>7 DEF Progress, Stopped, last

\* The last cleanup is taken off the list.
LEMMA Popped ==
    ASSUME Progress, phase = "cleanup", cleanups # << >>,
           cleanups' = SubSeq(cleanups, 1, Len(cleanups) - 1),
           UNCHANGED <<phase, drill, pc, status, failed, gap, clean>>,
           spoiled' \in BOOLEAN, lab' \in Labs
    PROVE  Progress' /\ cleanups[Len(cleanups)] \in Undo
  <1> DEFINE m == Len(cleanups)
  <1>1. cleanups \in Seq(Undo) /\ m \in Nat /\ m # 0 /\ cleanups[m] \in Undo
    BY DEF Progress
  <1>2. /\ cleanups' \in Seq(Undo) /\ Len(cleanups') = m - 1 /\ Len(cleanups') <= m
        /\ \A k \in 1..(m - 1) : cleanups'[k] = cleanups[k]
    <2> HIDE DEF m
    <2>1. cleanups' = SubSeq(cleanups, 1, m - 1) /\ m - 1 \in Nat /\ m - 1 <= m
      BY <1>1 DEF m
    <2>2. cleanups' = [k \in 1..(m - 1) |-> cleanups[k]]
      BY <1>1, <2>1 DEF m
    <2>3. \A k \in 1..(m - 1) : cleanups[k] \in Undo
      BY <1>1, <2>1 DEF m
    <2> QED
      BY <2>1, <2>2, <2>3
  <1>3. Script' = Script /\ pc - 1 \in Nat
    BY ScriptType DEF Script, Progress, TypeOK
  <1>4. m <= Registered(Script, pc - 1) /\ Registered(Script, pc - 1) \in Nat
    BY <1>3, Counted DEF Progress, TypeOK
  <1>5. \A i \in 1..(pc - 1) : Script[i].op = "cleanup" /\ Registered(Script, i) <= m =>
            cleanups[Registered(Script, i)] = Script[i].effect
    BY DEF Progress, TypeOK
  <1> HIDE DEF m
  <1>6. ASSUME NEW i \in 1..(pc - 1), Script[i].op = "cleanup",
               Registered(Script, i) <= Len(cleanups')
        PROVE  cleanups'[Registered(Script, i)] = Script[i].effect
    <2>1. i - 1 \in 0..(pc - 1) /\ i \in 0..(pc - 1)
      BY <1>3
    <2>2. Registered(Script, i) \in Nat /\ Registered(Script, i - 1) \in Nat
          /\ Registered(Script, i - 1) + 1 = Registered(Script, i)
      BY <1>3, <1>6, <2>1, Counted
    <2>3. Registered(Script, i) \in 1..(m - 1) /\ Registered(Script, i) <= m
      BY <1>1, <1>2, <1>6, <2>2
    <2>4. cleanups[Registered(Script, i)] = Script[i].effect
      BY <1>5, <1>6, <2>3
    <2> QED
      BY <1>2, <2>3, <2>4
  <1>7. {failed, gap, clean, spoiled}' \subseteq BOOLEAN
    BY DEF Progress, TypeOK
  <1>8. Len(cleanups') <= Registered(Script, pc - 1)
    BY <1>1, <1>2, <1>4
  <1>9. TypeOK'
    BY <1>3, <1>6, <1>7, <1>8 DEF Progress, TypeOK
  <1> QED
    BY <1>1, <1>2, <1>3, <1>9 DEF Progress, Stopped, m

\* The Run is over.
LEMMA Ended ==
    ASSUME Progress, NEW how \in {"done", "aborted"}, Ends(how),
           status' \in {"PASS", "GAP", "FAIL"}, spoiled' \in BOOLEAN
    PROVE  Progress'
  <1>1. /\ phase' = how /\ pc' = 1 /\ cleanups' = << >>
        /\ failed' = FALSE /\ gap' = FALSE /\ UNCHANGED <<lab, drill, clean>>
    BY DEF Ends
  <1>2. Script' = Script /\ Len(Script) \in Nat
    BY <1>1, ScriptType DEF Script, Progress, TypeOK
  <1>3. /\ Len(cleanups') = 0 /\ cleanups' \in Seq(Undo) /\ pc' - 1 = 0
        /\ pc' \in 1..Len(Script') + 1
    BY <1>1, <1>2
  <1>4. 1..(pc' - 1) = {} /\ Len(cleanups') <= Registered(Script', pc' - 1)
    BY <1>3, Counted
  <1>5. {failed, gap, clean, spoiled}' \subseteq BOOLEAN
    BY <1>1 DEF Progress, TypeOK
  <1>6. TypeOK'
    BY <1>1, <1>3, <1>4, <1>5 DEF Progress, TypeOK
  <1> QED
    BY <1>1, <1>3, <1>6 DEF Progress, Stopped

\* When the script is over, nothing of it is open.
LEMMA AtTheEnd ==
    ASSUME IInv, pc = Len(Script) + 1, phase \in {"script", "cleanup", "green"},
           drill # "node_bringup", clean, status # "FAIL"
    PROVE  lab.broken \subseteq {"pod"} /\ lab.left \subseteq SeenByGreen \cup {"unready"}
  <1>1. Undone(Script)
    BY CatalogueUndone, DrillsAssumption DEF IInv, Progress, TypeOK, Script
  <1>2. Len(Script) \in Nat /\ DOMAIN Script = 1..Len(Script)
    BY ScriptType DEF IInv, Progress, TypeOK
  <1>3. ASSUME NEW x \in lab.broken \ {"pod"}
        PROVE  FALSE
    <2>1. Open(Script, pc, Break(x), Repair(x))
      BY DEF IInv, Traced
    <2>2. \A i \in DOMAIN Script : Script[i] = Do(Break(x)) =>
             \E j \in (i + 1)..Len(Script) : Script[j] = Do(Repair(x))
      BY <1>1 DEF Undone
    <2> QED
      BY <1>2, <2>1, <2>2, NothingOpen
  <1>4. ASSUME NEW x \in lab.left \ (SeenByGreen \cup {"unready"})
        PROVE  FALSE
    <2>1. x = "annotation" /\ Open(Script, pc, Put("annotation"), TakeAway("annotation"))
      BY DEF IInv, Traced
    <2>2. \A i \in DOMAIN Script : Script[i] = Do(Put("annotation")) =>
             \E j \in (i + 1)..Len(Script) : Script[j] = Do(TakeAway("annotation"))
      BY <1>1 DEF Undone
    <2> QED
      BY <1>2, <2>1, <2>2, NothingOpen
  <1> QED
    BY <1>3, <1>4

LEMMA ScriptSteps ==
    ASSUME IInv, Register \/ Observe \/ AskTriage \/ CheckFact
    PROVE  IInv'
  <1>1. {failed, gap} \subseteq BOOLEAN
    BY DEF IInv, Progress, TypeOK
  <1>2. CASE Register
    BY <1>1, <1>2, QuietStepKeeps DEF Register, At
  <1>3. CASE Observe
    BY <1>1, <1>3, QuietStepKeeps DEF Observe, At
  <1>4. CASE AskTriage
    BY <1>1, <1>4, QuietStepKeeps DEF AskTriage, At
  <1>5. CASE CheckFact
    BY <1>1, <1>5, QuietStepKeeps DEF CheckFact, At
  <1> QED
    BY <1>2, <1>3, <1>4, <1>5

\* What stops the script.
LEMMA StopSteps == ASSUME IInv, TimesOut \/ Raises PROVE IInv'
  <1>1. phase = "script" /\ Fails
    BY DEF TimesOut, Raises, At
  <1>2. lab' \in Labs
    <2>1. CASE UNCHANGED lab
      BY <2>1 DEF IInv, Progress, TypeOK
    <2>2. CASE At("do") /\ lab' = Apply(Script[pc].effect, lab)
      <3>1. Script[pc] \in Steps /\ Script[pc].op = "do" /\ lab \in Labs
        BY <2>2, StepType DEF At, IInv, Progress, TypeOK
      <3>2. Script[pc].effect \in Undo \cup Inject
        BY <3>1 DEF Steps
      <3> QED
        BY <2>2, <3>1, <3>2, Applied
    <2> QED
      BY <2>1, <2>2 DEF TimesOut, Raises
  <1>3. Progress'
    BY <1>1, <1>2, Leaves DEF IInv, Fails
  <1> QED
    BY <1>1, <1>3 DEF IInv, Fails, CleanupFirst, Traced, PassLeavesNothing

LEMMA ScriptOverKeeps == ASSUME IInv, ScriptOver PROVE IInv'
  <1>1. pc = Len(Script) + 1
    BY ScriptType DEF IInv, Progress, TypeOK, ScriptOver
  <1>2. Progress'
    BY <1>1, Leaves DEF IInv, Progress, TypeOK, ScriptOver
  <1>3. Traced'
    BY DEF IInv, ScriptOver, Traced, Script
  <1> QED
    BY <1>2, <1>3 DEF IInv, ScriptOver, CleanupFirst, PassLeavesNothing

\* A cleanup that does its work, or fails.
LEMMA CleanupSteps == ASSUME IInv, RunCleanup \/ CleanupFails PROVE IInv'
  <1> DEFINE e == cleanups[Len(cleanups)]
  <1>1. /\ phase = "cleanup" /\ phase' = phase /\ cleanups # << >>
        /\ cleanups' = SubSeq(cleanups, 1, Len(cleanups) - 1)
        /\ UNCHANGED <<drill, pc, status, failed, gap, clean>>
        /\ spoiled' \in BOOLEAN
        /\ lab' = Apply(e, lab) \/ lab' = lab
    BY DEF RunCleanup, CleanupFails, IInv, Progress, TypeOK
  <1>2. lab \in Labs /\ cleanups \in Seq(Undo) /\ pc = Len(Script) + 1
    BY <1>1 DEF IInv, Progress, TypeOK
  <1>3. e \in Undo
    BY <1>1, <1>2
  <1> HIDE DEF e
  <1>4. /\ lab' \in Labs
        /\ \A x \in lab'.broken : x \in lab.broken \/ e = Break(x)
        /\ \A x \in lab'.left :
              \/ x \in lab.left
              \/ e = Put(x)
              \/ x = "deleting" /\ "kubelet" \in lab.broken
              \/ x = "new_node_drained" /\ "new_node" \in lab.left
    BY <1>1, <1>2, <1>3, Applied
  <1>5. \A x : e # Break(x) /\ e # Put(x)
    BY <1>3 DEF Undo, Break, Put, Repair, TakeAway, Resume, Retire
  <1>6. Progress'
    BY <1>1, <1>4, Popped DEF IInv
  <1>7. Traced'
    <2> SUFFICES ASSUME drill # "node_bringup", clean, status # "FAIL"
                 PROVE  lab'.broken \subseteq {"pod"} /\ lab'.left \subseteq SeenByGreen \cup {"unready"}
      BY <1>1 DEF Traced
    <2>1. lab.broken \subseteq {"pod"} /\ lab.left \subseteq SeenByGreen \cup {"unready"}
      BY <1>1, <1>2, AtTheEnd
    <2> QED
      BY <1>4, <1>5, <2>1 DEF SeenByGreen
  <1> QED
    BY <1>1, <1>6, <1>7 DEF IInv, CleanupFirst, PassLeavesNothing

LEMMA CleanedUpKeeps == ASSUME IInv, CleanedUp PROVE IInv'
  <1> USE DEF CleanedUp
  <1>1. Script' = Script
    BY DEF Script
  <1>2. TypeOK'
    BY <1>1 DEF IInv, Progress, TypeOK
  <1>3. Progress'
    BY <1>1, <1>2 DEF IInv, Progress, Stopped
  <1>4. Traced'
    BY <1>1 DEF IInv, Traced
  <1> QED
    BY <1>3, <1>4 DEF IInv, CleanupFirst, PassLeavesNothing

\* The result: a lab seen green, without what lab_problems sees.
LEMMA EndSteps == ASSUME IInv, Aborted \/ SeenGreen \/ StillNotGreen PROVE IInv'
  <1>1. PICK how \in {"done", "aborted"} : Ends(how)
    BY DEF Aborted, SeenGreen, StillNotGreen
  <1>2. status' \in {"PASS", "GAP", "FAIL"} /\ spoiled' \in BOOLEAN
    BY DEF Aborted, SeenGreen, StillNotGreen, Verdict, IInv, Progress, TypeOK
  <1>3. Progress' /\ phase' \in {"done", "aborted"}
    BY <1>1, <1>2, Ended DEF IInv, Ends
  <1>4. PassLeavesNothing'
    <2> SUFFICES ASSUME phase' = "done", drill # "node_bringup", clean, status' # "FAIL"
                 PROVE  lab.broken = {} /\ lab.left \subseteq {"unready"}
      BY <1>1 DEF PassLeavesNothing, Ends
    <2>1. phase = "green" /\ Green(lab) /\ status # "FAIL"
      BY DEF Aborted, SeenGreen, StillNotGreen, Verdict, Ends
    <2>2. pc = Len(Script) + 1
      BY <2>1 DEF IInv, Progress
    <2>3. lab.broken \subseteq {"pod"} /\ lab.left \subseteq SeenByGreen \cup {"unready"}
      BY <2>1, <2>2, AtTheEnd
    <2> QED
      BY <2>1, <2>3 DEF Green, SeenByGreen
  <1> QED
    BY <1>3, <1>4 DEF IInv, CleanupFirst, Traced

LEMMA StepIInv == IInv /\ [Next]_vars => IInv'
  <1> SUFFICES ASSUME IInv, [Next]_vars PROVE IInv'
    OBVIOUS
  <1>1. lab \in Labs
    BY DEF IInv, Progress, TypeOK
  <1>2. CASE UNCHANGED vars
    BY <1>1, <1>2, LabKeeps DEF vars, run
  <1>3. CASE Lab
    BY <1>1, <1>3, LabHeals, LabKeeps
  <1>4. CASE Step
    BY <1>4, ScriptSteps, CommandKeeps, StopSteps, ScriptOverKeeps, CleanupSteps, CleanedUpKeeps,
       EndSteps DEF Step
  <1> QED
    BY <1>2, <1>3, <1>4, StartKeeps, TidyUpKeeps, StopSteps, CleanupSteps, EndSteps DEF Next

\* The inductive invariant holds always.
THEOREM Inductive == Spec => []IInv
  BY InitIInv, StepIInv, PTL DEF Spec

-------------------------------------------------------------------------------
(* The properties *)

\* The variables stay in their types, and a drill runs its own cleanups, those of
\* the steps it has passed.
THEOREM TypeCorrect == Spec => []TypeOK
  <1>1. IInv => TypeOK
    BY DEF IInv, Progress
  <1> QED
    BY <1>1, Inductive, PTL

\* At every step of a drill (but k8s-pdb-drain, see CleanupFirst), a registered
\* cleanup undoes each thing it has broken or put into a lab it found clean.
THEOREM CleanupComesFirst == Spec => []CleanupFirst
  <1>1. IInv => CleanupFirst
    BY DEF IInv
  <1> QED
    BY <1>1, Inductive, PTL

\* After PASS or GAP nothing of the drill (but node-bringup's new node) is left in
\* the lab it found clean, whichever of its cleanups failed.
THEOREM NothingIsLeft == Spec => []PassLeavesNothing
  <1>1. IInv => PassLeavesNothing
    BY DEF IInv
  <1> QED
    BY <1>1, Inductive, PTL

===============================================================================
