---------------------------- MODULE TriageRulesProofs ----------------------------
(***************************************************************************)
(* What the rules of TriageRules guarantee whatever they are asked about:  *)
(* no argument below has a type, so the lemmas hold of any view, also of   *)
(* one put together from reads made at different times.                    *)
(***************************************************************************)
EXTENDS TriageRules, TLAPS

-------------------------------------------------------------------------------
(* Reasons *)

PatternCategories == {"kubernetes_managed", "hardware", "stuck_process", "unreachable",
                      "unexpected_reboot", "health_check", "maintenance"}

\* The categories of categoryPatterns, and none twice but health_check.
LEMMA PatternTable ==
    /\ DOMAIN Patterns = 1..8
    /\ \A i \in 1..8 : Patterns[i][2] \in PatternCategories
    /\ Patterns[1][1] = "operator" /\ Patterns[1][2] = "kubernetes_managed"
    /\ Patterns[2][1] = "hardware" /\ Patterns[2][2] = "hardware"
    /\ \A i \in 1..8 : Patterns[i][1] = "operator" => i = 1
  BY DEF Patterns, PatternCategories

\* The first pattern that matches decides, whichever others do.
LEMMA FirstDecides ==
    ASSUME NEW body, NEW i \in 1..8,
           Patterns[i][1] \in body,
           \A j \in 1..8 : Patterns[j][1] \in body => i <= j
    PROVE  FirstMatch(body) = Patterns[i][2]
  <1> DEFINE hits == {j \in DOMAIN Patterns : Patterns[j][1] \in body}
  <1>1. i \in hits /\ \A j \in hits : i <= j
    BY PatternTable
  <1>2. hits \subseteq 1..8
    BY PatternTable
  <1> HIDE DEF hits
  <1>3. \A j \in hits : (\A h \in hits : j <= h) => j = i
    BY <1>1, <1>2
  <1>4. (CHOOSE j \in hits : \A h \in hits : j <= h) = i
    BY <1>1, <1>3
  <1>5. FirstMatch(body) = IF hits = {} THEN "other"
                           ELSE Patterns[CHOOSE j \in hits : \A h \in hits : j <= h][2]
    BY DEF FirstMatch, hits
  <1> QED
    BY <1>1, <1>4, <1>5

\* A reason that some pattern matches has a first one that does.
LEMMA FirstExists ==
    ASSUME NEW body, NEW i \in 1..8, Patterns[i][1] \in body
    PROVE  \E j \in 1..8 : /\ Patterns[j][1] \in body
                           /\ \A h \in 1..8 : Patterns[h][1] \in body => j <= h
  <1> DEFINE In(j) == Patterns[j][1] \in body
  <1> HIDE DEF In
  <1>1. In(i)
    BY DEF In
  <1>2. \E j \in 1..8 : In(j) /\ \A h \in 1..8 : In(h) => j <= h
    BY <1>1
  <1> QED
    BY <1>2 DEF In

\* A category of the table, or "other".
LEMMA FirstMatchType == ASSUME NEW body PROVE FirstMatch(body) \in PatternCategories \cup {"other"}
  <1>1. CASE \E i \in 1..8 : Patterns[i][1] \in body
    <2>1. PICK j \in 1..8 : /\ Patterns[j][1] \in body
                            /\ \A h \in 1..8 : Patterns[h][1] \in body => j <= h
      BY <1>1, FirstExists
    <2> QED
      BY <2>1, FirstDecides, PatternTable
  <1>2. CASE ~\E i \in 1..8 : Patterns[i][1] \in body
    BY <1>2, PatternTable DEF FirstMatch
  <1> QED
    BY <1>1, <1>2

\* Classify answers with a category, whatever the reason says.
LEMMA ClassifyType ==
    ASSUME NEW reason
    PROVE  Classify(reason) \in PatternCategories \cup {"none", "other", "triage"}
  BY FirstMatchType DEF Classify

\* The operator's text comes before every other pattern.
LEMMA OperatorFirst ==
    ASSUME NEW reason, "operator" \in reason
    PROVE  Classify(reason) = "kubernetes_managed"
  <1> DEFINE body == reason \ {"triage"}
  <1>1. FirstMatch(body) = "kubernetes_managed"
    BY FirstDecides, PatternTable
  <1> QED
    BY <1>1 DEF Classify, Blank

\* A reason that says hardware is a hardware matter, whoever wrote it and
\* whatever else it says, unless the Slinky operator wrote it.
LEMMA HardwareNext ==
    ASSUME NEW reason, "hardware" \in reason, "operator" \notin reason
    PROVE  Classify(reason) = "hardware"
  <1> DEFINE body == reason \ {"triage"}
  <1>1. \A j \in 1..8 : Patterns[j][1] \in body => 2 <= j
    BY PatternTable
  <1>2. FirstMatch(body) = "hardware"
    BY <1>1, FirstDecides, PatternTable
  <1> QED
    BY <1>2 DEF Classify, Blank

-------------------------------------------------------------------------------
(* Recommendations *)

\* What Rec and Confirm build is a recommendation.
LEMMA RecType ==
    ASSUME NEW a \in Actions, NEW s \in Severities, NEW c \in Categories
    PROVE  /\ Rec(a, s, c) \in Recommendation
           /\ Confirm(Rec(a, s, c)) \in Recommendation
  BY DEF Rec, Confirm, Recommendation

\* A Kubernetes node gets a recommendation, under any policy and for any view.
THEOREM KubeAdviceType ==
    ASSUME NEW threshold, NEW k
    PROVE  AssessKubeBy(threshold, k) \in Recommendation
  <1> USE DEF Actions, Severities, Categories
  <1>1. Cordoned(k) \in Recommendation
    <2> DEFINE named == Classify(k.reason)
               cat   == IF named = "none" THEN "other" ELSE named
    <2>1. cat \in Categories
      BY ClassifyType DEF PatternCategories
    <2> HIDE DEF named, cat
    <2>2. \/ Cordoned(k) = Rec("investigate", "warning", cat)
          \/ Cordoned(k) = Rec("drain", "info", cat)
          \/ Cordoned(k) = Confirm(Rec("resume", "info", cat))
      BY DEF Cordoned, named, cat
    <2> QED
      BY <2>1, <2>2, RecType
  <1> QED
    BY <1>1, RecType DEF AssessKubeBy

\* The advice about a drained node is a recommendation in the category given.
LEMMA DrainType ==
    ASSUME NEW n, NEW cat \in Categories, NEW chronic
    PROVE  Drain(n, cat, chronic) \in Recommendation
  BY RecType DEF Drain, Actions, Severities

\* A Slurm node gets a recommendation, whatever was read of it.
THEOREM SlurmAdviceType ==
    ASSUME NEW n, NEW k, NEW h
    PROVE  AssessSlurm(n, k, h) \in Recommendation
  <1> DEFINE cat     == Classify(n.reason)
             chronic == h.read /\ h.chronic
  <1>1. cat \in Categories
    BY ClassifyType DEF PatternCategories, Categories
  <1>2. AssessKube(k).action \in Actions /\ AssessKube(k).severity \in Severities
    BY KubeAdviceType DEF AssessKube, Recommendation
  <1> HIDE DEF cat, chronic
  <1> USE DEF Actions, Severities, Categories
  <1>3. KubernetesManaged(n, k) \in Recommendation
    BY <1>2, RecType DEF KubernetesManaged, PodReplaced
  <1>4. Hardware(n) \in Recommendation /\ Unresponsive(n) \in Recommendation
    BY RecType DEF Hardware, Unresponsive
  <1>5. Reboot(n, cat) \in Recommendation
    BY <1>1, RecType, DrainType DEF Reboot
  <1>6. Down(n, cat, chronic) \in Recommendation
    BY <1>1, RecType DEF Down
  <1>7. Drain(n, cat, chronic) \in Recommendation
    BY <1>1, DrainType
  <1>8. Qualify(n, h) \in Recommendation
    BY RecType DEF Qualify
  <1>9. OnTroubledKubeNode(k) \in Recommendation
    BY <1>2, RecType DEF OnTroubledKubeNode
  <1>10. Rec("drain", "warning", cat) \in Recommendation /\ Rec("none", "info", cat) \in Recommendation
    BY <1>1, RecType
  <1> QED
    BY <1>3, <1>4, <1>5, <1>6, <1>7, <1>8, <1>9, <1>10 DEF AssessSlurm, cat, chronic

-------------------------------------------------------------------------------
(* Advice and refusals *)

\* Advice to resume a Kubernetes node is advice resume_node takes.
THEOREM KubeResumeAccepted ==
    ASSUME NEW k, AssessKube(k).action = "resume"
    PROVE  ResumeVerdict(AssessKube(k), FALSE) = "done"
  BY DEF AssessKube, AssessKubeBy, Cordoned, ResumeVerdict, Rec, Confirm

\* Advice to resume a Slurm node is advice resume_node takes, without force: no
\* rule that answers resume does so for a node the operator manages.
THEOREM SlurmResumeAccepted ==
    ASSUME NEW n, NEW k, NEW h, AssessSlurm(n, k, h).action = "resume"
    PROVE  ResumeVerdict(AssessSlurm(n, k, h), FALSE) = "done"
  <1> DEFINE cat     == Classify(n.reason)
             chronic == h.read /\ h.chronic
  <1> USE DEF Rec, Confirm
  <1>1. CASE n.pod /\ cat = "kubernetes_managed"
    <2>1. AssessSlurm(n, k, h) = KubernetesManaged(n, k)
      BY <1>1 DEF AssessSlurm
    <2> QED
      BY <2>1 DEF KubernetesManaged, PodReplaced, ResumeVerdict
  <1>2. CASE ~(n.pod /\ cat = "kubernetes_managed")
    <2> HIDE DEF cat, chronic
    <2>1. \A c, ch : Drain(n, c, ch).action = "resume" =>
              c = "maintenance" /\ n.jobs = {} /\ Drain(n, c, ch).category = c
      BY DEF Drain
    <2>2. AssessSlurm(n, k, h).action = "resume" =>
              AssessSlurm(n, k, h) = Drain(n, cat, chronic) /\ cat = "maintenance"
      BY <1>2, <2>1 DEF AssessSlurm, cat, chronic, Hardware, Reboot, Down, Unresponsive,
                        Qualify, OnTroubledKubeNode
    <2> QED
      BY <2>1, <2>2 DEF ResumeVerdict
  <1> QED
    BY <1>1, <1>2

\* A Slurm node whose reason says hardware is not resumed unforced, whatever
\* else was read of it, unless the operator wrote the reason.
THEOREM HardwareRefused ==
    ASSUME NEW n, NEW k, NEW h,
           "hardware" \in n.reason, "operator" \notin n.reason
    PROVE  ResumeVerdict(AssessSlurm(n, k, h), FALSE) = "refused"
  BY HardwareNext DEF AssessSlurm, Hardware, ResumeVerdict, Rec

\* A Slinky node that the operator drained is not resumed at all, forced or not,
\* whether or not its Kubernetes node could be read.
THEOREM ManagedRefused ==
    ASSUME NEW n, NEW k, NEW h, NEW force,
           n.pod, "operator" \in n.reason, "terminating" \notin n.reason
    PROVE  ResumeVerdict(AssessSlurm(n, k, h), force) = "refused"
  BY OperatorFirst DEF AssessSlurm, KubernetesManaged, ResumeVerdict, Rec

\* A Kubernetes node with a read-only filesystem is not uncordoned unforced.
THEOREM ReadonlyRefused ==
    ASSUME NEW k, "ReadonlyFilesystem" \in k.conditions
    PROVE  ResumeVerdict(AssessKube(k), FALSE) = "refused"
  BY DEF AssessKube, AssessKubeBy, ResumeVerdict, Rec

\* Only a burn-in that passed, in accounting that was read, earns a promotion.
THEOREM PromoteNeedsPass ==
    ASSUME NEW n, NEW k, NEW h, AssessSlurm(n, k, h).action = "promote"
    PROVE  h.read /\ h.burnin \notin {"none", "failed"}
  <1> USE DEF Rec, Confirm
  <1>1. AssessKube(k).action # "promote"
    BY DEF AssessKube, AssessKubeBy, Cordoned
  <1>2. AssessSlurm(n, k, h) = Qualify(n, h)
    BY <1>1 DEF AssessSlurm, KubernetesManaged, PodReplaced, Hardware, Reboot, Drain, Down,
                Unresponsive, OnTroubledKubeNode
  <1> QED
    BY <1>2 DEF Qualify

-------------------------------------------------------------------------------
(* Faults add up *)

\* The view g shows of the same node what k shows, and maybe more faults.
Graver(g, k) ==
    /\ k # NoView /\ g # NoView
    /\ k.conditions \subseteq g.conditions
    /\ k.ready \in {"False", "Unknown"} => g.ready \in {"False", "Unknown"}
    /\ k.kernelEvents \in Nat /\ g.kernelEvents \in Nat /\ k.kernelEvents <= g.kernelEvents
    /\ g.cordoned = k.cordoned /\ g.reason = k.reason /\ g.pods = k.pods /\ g.pdbs = k.pdbs

\* The recommendation r is no calmer than s: no less severe, and it is to leave the
\* node alone, or to put it back, only if s is.
NoCalmer(r, s) ==
    /\ s.severity = "critical" => r.severity = "critical"
    /\ s.severity = "warning" => r.severity # "info"
    /\ r.action \in {"none", "resume"} => s.action = r.action

\* The faults that are critical, and those that are not but still go before a cordon.
Critical(k) == "ReadonlyFilesystem" \in k.conditions \/ k.ready \in {"Unknown", "False"}
               \/ "KernelDeadlock" \in k.conditions
Pressed(k)  == Pressures \cap k.conditions # {}

\* The answer by the gravest thing the view shows.
LEMMA KubeAnswers ==
    ASSUME NEW k
    PROVE  LET r == AssessKube(k)
           IN  /\ Critical(k) => r.severity = "critical" /\ Faulty(r)
               /\ ~Critical(k) /\ Pressed(k) =>
                     r = Rec("investigate", "warning", "resource_pressure")
               /\ ~Critical(k) /\ ~Pressed(k) /\ k.cordoned => r = Cordoned(k)
               /\ ~Critical(k) /\ ~Pressed(k) /\ ~k.cordoned =>
                     r = IF k.kernelEvents >= KubeEventThreshold
                         THEN Rec("investigate", "warning", "kernel_events")
                         ELSE Rec("none", "info", "none")
  BY DEF AssessKube, AssessKubeBy, Critical, Pressed, Faulty, NodeFault, Rec

LEMMA CordonAnswers ==
    ASSUME NEW k
    PROVE  Cordoned(k).severity \in {"info", "warning"} /\ Cordoned(k).action # "none"
  BY DEF Cordoned, Rec, Confirm

\* No read of a Kubernetes node that shows more faults gives calmer advice, and a
\* node with trouble of its own is still one.
THEOREM KubeFaultsAddUp ==
    ASSUME NEW g, NEW k, Graver(g, k)
    PROVE  /\ NoCalmer(AssessKube(g), AssessKube(k))
           /\ Faulty(AssessKube(k)) => Faulty(AssessKube(g))
  <1> USE DEF Rec
  <1>1. Critical(k) => Critical(g)
    BY DEF Graver, Critical
  <1>2. Pressed(k) => Pressed(g)
    BY DEF Graver, Pressed
  <1>3. Faulty(Rec("investigate", "warning", "resource_pressure"))
    BY DEF Faulty, NodeFault
  <1>4. CASE Critical(g)
    BY <1>4, KubeAnswers DEF NoCalmer, Faulty
  <1>5. CASE ~Critical(g) /\ Pressed(g)
    <2>1. AssessKube(g) = Rec("investigate", "warning", "resource_pressure")
      BY <1>5, KubeAnswers
    <2>2. AssessKube(k).severity \in {"info", "warning"}
      BY <1>1, <1>5, KubeAnswers, CordonAnswers
    <2> QED
      BY <1>3, <2>1, <2>2 DEF NoCalmer
  <1>6. CASE ~Critical(g) /\ ~Pressed(g)
    <2>1. ~Critical(k) /\ ~Pressed(k)
      BY <1>1, <1>2, <1>6
    <2>2. CASE g.cordoned
      <3>1. Cordoned(g) = Cordoned(k) /\ k.cordoned
        BY <2>2 DEF Graver, Cordoned, BlockingPDBs
      <3>2. AssessKube(g) = AssessKube(k)
        BY <1>6, <2>1, <2>2, <3>1, KubeAnswers
      <3> QED
        BY <3>2 DEF NoCalmer
    <2>3. CASE ~g.cordoned
      <3>1. ~k.cordoned
        BY <2>3 DEF Graver
      <3>2. k.kernelEvents >= KubeEventThreshold => g.kernelEvents >= KubeEventThreshold
        BY KubeEventThresholdAssumption DEF Graver
      <3>3. /\ AssessKube(g) = IF g.kernelEvents >= KubeEventThreshold
                               THEN Rec("investigate", "warning", "kernel_events")
                               ELSE Rec("none", "info", "none")
            /\ AssessKube(k) = IF k.kernelEvents >= KubeEventThreshold
                               THEN Rec("investigate", "warning", "kernel_events")
                               ELSE Rec("none", "info", "none")
        BY <1>6, <2>1, <2>3, <3>1, KubeAnswers
      <3>4. CASE g.kernelEvents >= KubeEventThreshold
        BY <3>3, <3>4 DEF NoCalmer, Faulty, NodeFault
      <3>5. CASE ~(g.kernelEvents >= KubeEventThreshold)
        BY <3>2, <3>3, <3>5 DEF NoCalmer
      <3> QED
        BY <3>4, <3>5
    <2> QED
      BY <2>2, <2>3
  <1> QED
    BY <1>4, <1>5, <1>6

\* A node with trouble of its own is never just worth an info.
LEMMA FaultySevere ==
    ASSUME NEW k, Faulty(AssessKube(k))
    PROVE  AssessKube(k).severity \in {"warning", "critical"}
  <1>1. Cordoned(k).action = "investigate" => Cordoned(k).severity = "warning"
    BY DEF Cordoned, Rec, Confirm
  <1>2. CASE Critical(k)
    BY <1>2, KubeAnswers
  <1>3. CASE ~Critical(k) /\ Pressed(k)
    BY <1>3, KubeAnswers DEF Rec
  <1>4. CASE ~Critical(k) /\ ~Pressed(k) /\ k.cordoned
    <2>1. Cordoned(k).action # "escalate_hardware"
      BY DEF Cordoned, Rec, Confirm
    <2> QED
      BY <1>1, <1>4, <2>1, KubeAnswers DEF Faulty
  <1>5. CASE ~Critical(k) /\ ~Pressed(k) /\ ~k.cordoned
    BY <1>5, KubeAnswers DEF Rec, Faulty, NodeFault
  <1> QED
    BY <1>2, <1>3, <1>4, <1>5

\* The same for the Slinky node on it, whatever Slurm and accounting say of it: the
\* rules that look at the Kubernetes node pass its severity on.
THEOREM SlurmFaultsAddUp ==
    ASSUME NEW n, NEW h, NEW g, NEW k, Graver(g, k)
    PROVE  NoCalmer(AssessSlurm(n, g, h), AssessSlurm(n, k, h))
  <1> DEFINE rg == AssessKube(g)
             rk == AssessKube(k)
             ag == AssessSlurm(n, g, h)
             ak == AssessSlurm(n, k, h)
             cat == Classify(n.reason)
  <1> SUFFICES NoCalmer(ag, ak)
    OBVIOUS
  <1>1. NoCalmer(rg, rk) /\ (Faulty(rk) => Faulty(rg))
    BY KubeFaultsAddUp
  <1>2. /\ Faulty(rg) => rg.severity \in {"warning", "critical"}
        /\ Faulty(rk) => rk.severity \in {"warning", "critical"}
    BY FaultySevere
  <1>3. g # NoView /\ k # NoView
    BY DEF Graver
  <1>4. ag = ak => NoCalmer(ag, ak)
    BY DEF NoCalmer
  <1>5. CASE n.pod /\ cat = "kubernetes_managed"
    <2>1. ag = KubernetesManaged(n, g) /\ ak = KubernetesManaged(n, k)
      BY <1>5 DEF AssessSlurm
    <2>2. CASE "terminating" \in n.reason
      BY <1>4, <2>1, <2>2 DEF KubernetesManaged
    <2>3. CASE "terminating" \notin n.reason
      <3>1. ASSUME NEW v, v # NoView
            PROVE  KubernetesManaged(n, v) =
                     IF AssessKube(v).action = "escalate_hardware" \/ Faulty(AssessKube(v))
                     THEN Rec(AssessKube(v).action, AssessKube(v).severity, "kubernetes_managed")
                     ELSE Rec("wait", "info", "kubernetes_managed")
        BY <2>3, <3>1 DEF KubernetesManaged, Faulty
      <3>2. \A v : AssessKube(v).action = "escalate_hardware" => Faulty(AssessKube(v))
        BY DEF AssessKube, AssessKubeBy, Cordoned, Rec, Confirm, Faulty, NodeFault
      <3>3. /\ ag = IF Faulty(rg) THEN Rec(rg.action, rg.severity, "kubernetes_managed")
                    ELSE Rec("wait", "info", "kubernetes_managed")
            /\ ak = IF Faulty(rk) THEN Rec(rk.action, rk.severity, "kubernetes_managed")
                    ELSE Rec("wait", "info", "kubernetes_managed")
        BY <1>3, <2>1, <3>1, <3>2
      <3>4. Faulty(rg) => rg.action \notin {"none", "resume"}
        BY DEF Faulty
      <3> HIDE DEF rg, rk, ag, ak
      <3>5. CASE Faulty(rg) /\ Faulty(rk)
        BY <1>1, <3>3, <3>4, <3>5 DEF NoCalmer, Rec
      <3>6. CASE Faulty(rg) /\ ~Faulty(rk)
        BY <1>2, <3>3, <3>4, <3>6 DEF NoCalmer, Rec
      <3>7. CASE ~Faulty(rg)
        BY <1>1, <1>4, <3>3, <3>7
      <3> QED
        BY <3>5, <3>6, <3>7
    <2> QED
      BY <2>2, <2>3
  <1>6. CASE ~(n.pod /\ cat = "kubernetes_managed")
    <2> DEFINE eats == h.read /\ h.eats
               other == IF eats THEN Rec("drain", "warning", cat) ELSE Rec("none", "info", cat)
    <2>1. \/ ag = ak
          \/ /\ ag = IF n.pod /\ KubeNodeTrouble(g) THEN OnTroubledKubeNode(g) ELSE other
             /\ ak = IF n.pod /\ KubeNodeTrouble(k) THEN OnTroubledKubeNode(k) ELSE other
      BY <1>6 DEF AssessSlurm
    <2>2. (KubeNodeTrouble(g) <=> Faulty(rg)) /\ (KubeNodeTrouble(k) <=> Faulty(rk))
      BY <1>3 DEF KubeNodeTrouble
    <2>3. /\ OnTroubledKubeNode(g).severity = rg.severity
          /\ OnTroubledKubeNode(g).action \in {"investigate", "escalate_hardware"}
          /\ OnTroubledKubeNode(k).severity = rk.severity
      BY DEF OnTroubledKubeNode, Rec
    <2>4. other.severity \in {"info", "warning"}
      BY DEF Rec
    <2> HIDE DEF rg, rk, ag, ak, other
    <2>5. CASE ag = ak
      BY <1>4, <2>5
    <2>6. CASE n.pod /\ Faulty(rg) /\ Faulty(rk)
      BY <1>1, <1>4, <2>1, <2>2, <2>3, <2>6 DEF NoCalmer
    <2>7. CASE n.pod /\ Faulty(rg) /\ ~Faulty(rk)
      BY <1>2, <1>4, <2>1, <2>2, <2>3, <2>4, <2>7 DEF NoCalmer
    <2>8. CASE ~(n.pod /\ Faulty(rg))
      <3>1. ~(n.pod /\ Faulty(rk))
        BY <1>1, <2>8
      <3>2. ag = ak
        BY <2>1, <2>2, <2>8, <3>1
      <3> QED
        BY <1>4, <3>2
    <2> QED
      BY <2>6, <2>7, <2>8
  <1> QED
    BY <1>5, <1>6

\* Accounting adds to the advice and takes nothing away: without it, a Slurm node
\* that is not in qualification gets advice that is as calm or calmer, so nothing is
\* escalated or drained for what could not be read (AccountingError, triage.go:110).
THEOREM AccountingAddsUp ==
    ASSUME NEW n, NEW k, NEW h, NEW none, ~none.read, ~InQualification(n)
    PROVE  NoCalmer(AssessSlurm(n, k, h), AssessSlurm(n, k, none))
  <1> DEFINE cat     == Classify(n.reason)
             chronic == h.read /\ h.chronic
             eats    == h.read /\ h.eats
             a       == AssessSlurm(n, k, h)
             b       == AssessSlurm(n, k, none)
  <1>1. \/ a = b
        \/ a = Down(n, cat, chronic) /\ b = Down(n, cat, FALSE)
        \/ a = Drain(n, cat, chronic) /\ b = Drain(n, cat, FALSE)
        \/ a = Rec("drain", "warning", cat) /\ b = Rec("none", "info", cat)
    BY DEF AssessSlurm
  <1>2. NoCalmer(Down(n, cat, chronic), Down(n, cat, FALSE))
    BY DEF Down, NoCalmer, Rec
  <1>3. NoCalmer(Drain(n, cat, chronic), Drain(n, cat, FALSE))
    BY DEF Drain, NoCalmer, Rec, Confirm
  <1>4. NoCalmer(Rec("drain", "warning", cat), Rec("none", "info", cat))
    BY DEF NoCalmer, Rec
  <1>5. a = b => NoCalmer(a, b)
    BY DEF NoCalmer
  <1> HIDE DEF a, b, cat
  <1>6. NoCalmer(a, b)
    BY <1>1, <1>2, <1>3, <1>4, <1>5
  <1> QED
    BY <1>6 DEF a, b
===============================================================================
