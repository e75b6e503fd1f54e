---------------------------- MODULE ClassicNodeProofs ----------------------------
(***************************************************************************)
(* Proofs about ClassicNode for any set of callers, any reasons and any    *)
(* number of events.                                                       *)
(*                                                                         *)
(* The inductive invariant IInv says of the node that its boot in Slurm is *)
(* the machine's last or not set, that a running burn-in started in it, that every    *)
(* ended burn-in ran from one boot to another of the machine's and within  *)
(* one when it passed (BurnIns), and that a hold is a drain in triage's    *)
(* words (Held).  Of a call it says what it has read by each point of its  *)
(* reads, and how that relates to a history that only grows (HasRead).     *)
(***************************************************************************)
EXTENDS ClassicNode, TriageRulesProofs, SequenceTheorems

\* Ended burn-ins of a machine that has booted so many times.
BurnIns(boots) ==
    {b \in [began : Nat, ended : Nat, passed : BOOLEAN] :
        /\ 1 <= b.began /\ b.began <= b.ended /\ b.ended <= boots
        /\ b.passed => b.began = b.ended}

Calls == [tool : {"triage", "drain", "resume"}, force : BOOLEAN,
          reason : {r \in SUBSET Marks : "operator" \notin r},
          at : {"nodes", "jobs", "history", "done"}, n : SlurmViews \cup {NoView},
          booted : Nat, held : BOOLEAN, recorded : Nat,
          h : [read : BOOLEAN, chronic : {FALSE}, eats : {FALSE},
               burnin : {"none", "passed", "failed"}]]

Hosts == [power : {"on", "silent", "off"}, boots : Nat \ {0}, wrong : SUBSET {"gpu", "disk"}]

Nodes == {n \in [flags : SUBSET NodeFlags, reason : SUBSET Marks, booted : Nat, resume : BOOLEAN] :
             (n.flags = {} => n.reason = Blank) /\ "operator" \notin n.reason}

MachineType ==
    /\ host \in Hosts
    /\ node \in Nodes
    /\ node.booted \in {0, host.boots}
    /\ stage \in {"burnin", "production"}
    /\ events \in 0..MaxEvents

\* The burn-in that runs, and those that have ended.
Tested ==
    /\ job \in {"none", "burnin", "bounded", "unbounded"}
    /\ started \in Nat
    /\ job = "burnin" => started = host.boots
    /\ sent \in Seq(BurnIns(host.boots))
    /\ history \in Seq(BurnIns(host.boots))

\* A hold is a drain in triage's words.
Held == held \in BOOLEAN /\ (held => "DRAIN" \in node.flags /\ {"triage", "hardware"} \subseteq node.reason)

\* What a call has read by each point of its reads, of a machine that has booted
\* so many times and the burn-ins in its history.
HasRead(q, boots, past) ==
    /\ q.at # "nodes" =>
          /\ q.n \in SlurmViews /\ "operator" \notin q.n.reason
          /\ q.booted <= boots
          /\ q.held => "hardware" \in q.n.reason
    /\ q.at = "done" =>
          /\ q.recorded <= Len(past)
          /\ q.h.burnin = "passed" =>
                /\ 0 < q.recorded
                /\ past[q.recorded].passed /\ q.booted <= past[q.recorded].ended

CallInv ==
    /\ call \in [Callers -> Calls \cup {NoCall}]
    /\ \A c \in Callers : call[c] # NoCall => HasRead(call[c], host.boots, history)

IInv == MachineType /\ Tested /\ Held /\ CallInv

-------------------------------------------------------------------------------
(* Helpers *)

\* A caller's reason is never in the operator's words.
LEMMA GivenReasons ==
    ASSUME NEW r \in Reasons
    PROVE  r \in SUBSET Marks /\ "operator" \notin r
  BY ClassicAssumption DEF Marks

\* SetNode keeps the node's type and its boot.
LEMMA SetNodeKeeps ==
    ASSUME node \in Nodes,
           NEW flags \in SUBSET NodeFlags, NEW reason \in SUBSET Marks, "operator" \notin reason,
           SetNode(flags, reason)
    PROVE  /\ node' \in Nodes /\ node'.booted = node.booted
           /\ node'.flags = flags
           /\ flags # {} => node'.reason = reason
  BY DEF SetNode, Nodes, Blank

\* A node that is not written keeps its type.
LEMMA NodeKept ==
    ASSUME MachineType
    PROVE  /\ node.flags \in SUBSET NodeFlags
           /\ node.reason \in SUBSET Marks /\ "operator" \notin node.reason
  BY DEF MachineType, Nodes

\* More boots allow more burn-ins.
LEMMA BurnInsGrow ==
    ASSUME NEW m \in Nat, NEW n \in Nat, m <= n
    PROVE  BurnIns(m) \subseteq BurnIns(n) /\ Seq(BurnIns(m)) \subseteq Seq(BurnIns(n))
  <1>1. BurnIns(m) \subseteq BurnIns(n)
    BY DEF BurnIns
  <1> QED
    BY <1>1, SeqMonotonic

\* What the jobs leave behind stays sound while they are left alone.
LEMMA JobKeptTested ==
    ASSUME Tested, JobKept, host'.boots = host.boots
    PROVE  Tested' /\ stage' = stage /\ history' = history
  BY DEF Tested, JobKept

\* What JobOver makes of the jobs: a burn-in, if one ran, ended in the node's
\* last boot, and in the machine's present one when it passed.
JobEnded ==
    /\ job' = "none"
    /\ UNCHANGED <<stage, started, history>>
    /\ \/ sent' = sent
       \/ \E passed \in BOOLEAN :
             /\ job = "burnin" /\ (passed => host'.boots = host.boots)
             /\ sent' = Append(sent, [began |-> started, ended |-> host'.boots, passed |-> passed])

\* A job that is over leaves sound burn-ins behind.
LEMMA JobOverTested ==
    ASSUME Tested, JobEnded,
           host.boots \in Nat \ {0}, host'.boots \in Nat, host.boots <= host'.boots
    PROVE  Tested' /\ stage' = stage /\ history' = history
  <1> DEFINE S == BurnIns(host'.boots)
             burnin(passed) == [began |-> started, ended |-> host'.boots, passed |-> passed]
  <1>1. job' = "none" /\ UNCHANGED <<stage, started, history>>
    BY DEF JobEnded
  <1>2. sent \in Seq(S) /\ history \in Seq(S)
    BY BurnInsGrow DEF Tested
  <1>3. CASE sent' = sent
    BY <1>1, <1>2, <1>3 DEF Tested
  <1>4. CASE sent' # sent
    <2>1. PICK passed \in BOOLEAN : /\ job = "burnin" /\ (passed => host'.boots = host.boots)
                                    /\ sent' = Append(sent, burnin(passed))
      BY <1>4 DEF JobEnded
    <2>2. burnin(passed) \in S
      BY <2>1 DEF Tested, BurnIns
    <2> HIDE DEF burnin, S
    <2>3. sent' \in Seq(S)
      BY <1>2, <2>1, <2>2
    <2> QED
      BY <1>1, <1>2, <2>3 DEF Tested, S
  <1> QED
    BY <1>3, <1>4

-------------------------------------------------------------------------------
(* The machine, slurmctld, NHC and the engineers *)

\* The history only grows.
HistoryGrows == history' = history \/ (sent # <<>> /\ history' = Append(history, Head(sent)))

\* What a step of the environment has to keep.
MachineStep == MachineType' /\ Tested' /\ host.boots <= host'.boots /\ HistoryGrows

\* A step that touches the machine only.
LEMMA HostStep ==
    ASSUME MachineType, Tested, host' \in Hosts, host'.boots = host.boots, UNCHANGED node,
           JobKept, events' \in 0..MaxEvents
    PROVE  MachineStep
  BY JobKeptTested DEF MachineStep, MachineType, HistoryGrows, Hosts

\* A step that writes the node in slurmctld, and may turn the machine off.
LEMMA NodeStep ==
    ASSUME MachineType, Tested, host' \in Hosts, host'.boots = host.boots,
           node' \in Nodes, node'.booted = node.booted,
           JobKept, events' \in 0..MaxEvents
    PROVE  MachineStep
  BY JobKeptTested DEF MachineStep, MachineType, HistoryGrows, Hosts

\* A step after which slurmctld has another boot of the node, or none.
LEMMA BootStated ==
    ASSUME MachineType, Tested, UNCHANGED host, JobKept, events' \in 0..MaxEvents,
           NEW b \in {0, host.boots}, node' = [node EXCEPT !.booted = b]
    PROVE  MachineStep
  <1>1. b \in Nat
    BY DEF MachineType, Hosts
  <1>2. node' \in Nodes /\ node'.booted = b
    BY <1>1 DEF MachineType, Nodes
  <1> QED
    BY <1>2, JobKeptTested DEF MachineStep, MachineType, HistoryGrows, Hosts

\* Counting an event keeps the count within its bound.
LEMMA Counted ==
    ASSUME MachineType, NEW f, Happens(f)
    PROVE  events' \in 0..MaxEvents
  BY ClassicAssumption DEF MachineType, Happens

\* What is left alone keeps its type.
LEMMA Kept ==
    ASSUME MachineType
    PROVE  /\ host \in Hosts /\ node \in Nodes /\ node.booted \in {0, host.boots}
           /\ events \in 0..MaxEvents /\ host.boots \in Nat \ {0}
  BY DEF MachineType, Hosts

LEMMA MachineSteps ==
    ASSUME MachineType, Tested,
           PowerLoss \/ Silence \/ Breaks \/ Repaired \/ Answers
    PROVE  MachineStep
  <1>1. CASE PowerLoss
    <2>1. host' \in Hosts /\ host'.boots = host.boots
      BY <1>1, Kept DEF PowerLoss, Hosts
    <2> QED
      BY <1>1, <2>1, HostStep, Counted DEF PowerLoss
  <1>2. CASE Silence
    <2>1. host' \in Hosts /\ host'.boots = host.boots
      BY <1>2, Kept DEF Silence, Hosts
    <2> QED
      BY <1>2, <2>1, HostStep, Counted DEF Silence
  <1>3. CASE Breaks
    <2>1. PICK w \in {"gpu", "disk"} : Happens(w) /\ host' = [host EXCEPT !.wrong = @ \cup {w}]
      BY <1>3 DEF Breaks
    <2>2. host' \in Hosts /\ host'.boots = host.boots
      BY <2>1, Kept DEF Hosts
    <2> QED
      BY <1>3, <2>1, <2>2, HostStep, Counted DEF Breaks
  <1>4. CASE Repaired
    <2>1. PICK w \in host.wrong : host' = [host EXCEPT !.wrong = @ \ {w}]
      BY <1>4 DEF Repaired
    <2>2. host' \in Hosts /\ host'.boots = host.boots
      BY <2>1, Kept DEF Hosts
    <2> QED
      BY <1>4, <2>2, HostStep, Kept DEF Repaired
  <1>5. CASE Answers
    <2>1. host' \in Hosts /\ host'.boots = host.boots
      BY <1>5, Kept DEF Answers, Hosts
    <2> DEFINE flags == node.flags \ ({"NOT_RESPONDING"} \cup
                            (IF "not_responding" \in node.reason THEN {"DOWN"} ELSE {}))
    <2>2. flags \in SUBSET NodeFlags /\ SetNode(flags, node.reason)
      BY <1>5, NodeKept DEF Answers
    <2> HIDE DEF flags
    <2>3. node' \in Nodes /\ node'.booted = node.booted
      BY <2>2, SetNodeKeeps, NodeKept, Kept
    <2> QED
      BY <1>5, <2>1, <2>3, NodeStep, Kept DEF Answers
  <1> QED
    BY <1>1, <1>2, <1>3, <1>4, <1>5

\* A boot starts a new boot in the machine and in Slurm, and ends the job.
LEMMA BootStep ==
    ASSUME MachineType, Tested, NEW asked \in BOOLEAN, Boots(asked)
    PROVE  MachineStep
  <1> DEFINE flags == IF ~asked THEN (node.flags \ {"NOT_RESPONDING"}) \cup {"DOWN"}
                      ELSE node.flags \ ({"REBOOT_REQUESTED", "REBOOT_ISSUED", "DOWN", "NOT_RESPONDING"}
                                           \cup IF node.resume THEN {"DRAIN"} ELSE {})
             why   == IF asked \/ "DRAIN" \in node.flags THEN node.reason ELSE {"rebooted"}
  <1>1. host' = [host EXCEPT !.power = "on", !.boots = @ + 1]
    BY DEF Boots
  <1>2. host' \in Hosts /\ host'.boots = host.boots + 1
    <2>1. host \in Hosts
      BY Kept
    <2>2. host' = [power |-> "on", boots |-> host.boots + 1, wrong |-> host.wrong]
      BY <1>1, <2>1 DEF Hosts
    <2>3. host.boots + 1 \in Nat \ {0} /\ host.wrong \in SUBSET {"gpu", "disk"}
      BY <2>1 DEF Hosts
    <2> QED
      BY <2>2, <2>3 DEF Hosts
  <1>3. node' = [flags |-> flags, reason |-> IF flags = {} THEN Blank ELSE why,
                 booted |-> host.boots + 1, resume |-> FALSE]
    BY DEF Boots
  <1>4. flags \in SUBSET NodeFlags /\ why \in SUBSET Marks /\ "operator" \notin why
    BY NodeKept DEF NodeFlags, Marks
  <1> HIDE DEF flags, why
  <1>5. node' \in Nodes /\ node'.booted = host'.boots
    BY <1>2, <1>3, <1>4, Kept DEF Nodes, Blank
  <1>6. Tested' /\ stage' = stage /\ history' = history
    <2>1. JobEnded
      BY DEF Boots, JobOver, JobEnded
    <2> QED
      BY <1>2, <1>5, <2>1, Kept, JobOverTested DEF Hosts
  <1>7. host.boots <= host'.boots
    BY <1>2, Kept
  <1> QED
    BY <1>2, <1>5, <1>6, <1>7, Kept DEF Boots, MachineStep, MachineType, HistoryGrows

LEMMA SlurmctldSteps ==
    ASSUME MachineType, Tested,
           Unanswered \/ SlurmdTimeout \/ SlurmctldRestarts \/ Registers
             \/ RebootAsked \/ RebootIssued \/ RebootTimesOut
    PROVE  MachineStep
  <1> USE NodeKept, Kept
  <1>1. CASE Unanswered
    <2>1. node.flags \cup {"NOT_RESPONDING"} \in SUBSET NodeFlags
      BY DEF NodeFlags
    <2>2. node' \in Nodes /\ node'.booted = node.booted
      BY <1>1, <2>1, SetNodeKeeps DEF Unanswered
    <2> QED
      BY <1>1, <2>2, NodeStep DEF Unanswered
  <1>2. CASE SlurmdTimeout
    <2> DEFINE why == IF node.reason = Blank THEN {"not_responding"} ELSE node.reason
    <2>1. node.flags \cup {"DOWN"} \in SUBSET NodeFlags
      BY DEF NodeFlags
    <2>2. why \in SUBSET Marks /\ "operator" \notin why
      BY DEF Marks
    <2>3. SetNode(node.flags \cup {"DOWN"}, why)
      BY <1>2 DEF SlurmdTimeout
    <2> HIDE DEF why
    <2>4. node' \in Nodes /\ node'.booted = node.booted
      BY <2>1, <2>2, <2>3, SetNodeKeeps
    <2>5. host' = host /\ events' = events /\ JobOver(FALSE)
      BY <1>2 DEF SlurmdTimeout
    <2>6. Tested' /\ stage' = stage /\ history' = history
      <3>1. JobEnded
        BY <2>5 DEF JobOver, JobEnded
      <3> QED
        BY <2>4, <2>5, <3>1, JobOverTested
    <2> QED
      BY <2>4, <2>5, <2>6 DEF MachineStep, MachineType, HistoryGrows
  <1>3. CASE RebootAsked
    <2>1. PICK next \in BOOLEAN :
              node' = [node EXCEPT !.flags = @ \cup {"DRAIN", "REBOOT_REQUESTED"},
                                   !.reason = IF @ = Blank THEN {"maint"} ELSE @, !.resume = next]
      BY <1>3 DEF RebootAsked
    <2>2. node' \in Nodes /\ node'.booted = node.booted
      BY <2>1 DEF Nodes, NodeFlags, Marks, Blank
    <2> QED
      BY <1>3, <2>2, NodeStep, Counted DEF RebootAsked
  <1>4. CASE RebootIssued
    <2>1. (node.flags \ {"REBOOT_REQUESTED"}) \cup {"REBOOT_ISSUED", "DOWN"} \in SUBSET NodeFlags
      BY DEF NodeFlags
    <2>2. node' \in Nodes /\ node'.booted = node.booted
      BY <1>4, <2>1, SetNodeKeeps DEF RebootIssued
    <2>3. host' \in Hosts /\ host'.boots = host.boots
      BY <1>4 DEF RebootIssued, Hosts
    <2> QED
      BY <1>4, <2>2, <2>3, NodeStep DEF RebootIssued
  <1>5. CASE RebootTimesOut
    <2>1. (node.flags \ {"REBOOT_ISSUED"}) \cup {"DOWN"} \in SUBSET NodeFlags
      BY DEF NodeFlags
    <2>2. {"words"} \in SUBSET Marks /\ "operator" \notin {"words"}
      BY DEF Marks
    <2>3. node' \in Nodes /\ node'.booted = node.booted
      BY <1>5, <2>1, <2>2, SetNodeKeeps DEF RebootTimesOut
    <2> QED
      BY <1>5, <2>3, NodeStep DEF RebootTimesOut
  <1>6. CASE SlurmctldRestarts
    <2>1. node' = [node EXCEPT !.booted = 0] /\ events' \in 0..MaxEvents
      BY <1>6, Counted DEF SlurmctldRestarts
    <2> QED
      BY <1>6, <2>1, BootStated DEF SlurmctldRestarts
  <1>7. CASE Registers
    BY <1>7, BootStated DEF Registers
  <1> QED
    BY <1>1, <1>2, <1>3, <1>4, <1>5, <1>6, <1>7

LEMMA JobSteps ==
    ASSUME MachineType, Tested,
           JobStarts \/ JobEnds \/ JobCancelled \/ Recorded
    PROVE  MachineStep
  <1> USE Kept
  <1>1. CASE JobStarts
    <2>1. UNCHANGED <<host, node, stage, sent, history>>
      BY <1>1 DEF JobStarts
    <2>2. events' \in 0..MaxEvents
      BY <1>1, Counted DEF JobStarts
    <2>3. \/ job' \in {"bounded", "unbounded"} /\ started' = started
          \/ job' = "burnin" /\ started' = host.boots
      BY <1>1 DEF JobStarts
    <2>4. Tested'
      BY <2>1, <2>3 DEF Tested
    <2> QED
      BY <2>1, <2>2, <2>4 DEF MachineStep, MachineType, HistoryGrows
  <1>2. CASE JobEnds
    <2>1. UNCHANGED <<host, node, events>> /\ JobOver(host.wrong = {})
      BY <1>2 DEF JobEnds
    <2>2. JobEnded
      BY <2>1 DEF JobOver, JobEnded
    <2>3. Tested' /\ stage' = stage /\ history' = history
      BY <2>1, <2>2, JobOverTested
    <2> QED
      BY <2>1, <2>3 DEF MachineStep, MachineType, HistoryGrows
  <1>3. CASE JobCancelled
    <2>1. UNCHANGED <<host, node, events>> /\ JobOver(FALSE)
      BY <1>3 DEF JobCancelled
    <2>2. JobEnded
      BY <2>1 DEF JobOver, JobEnded
    <2>3. Tested' /\ stage' = stage /\ history' = history
      BY <2>1, <2>2, JobOverTested
    <2> QED
      BY <2>1, <2>3 DEF MachineStep, MachineType, HistoryGrows
  <1>4. CASE Recorded
    <2>1. UNCHANGED <<host, node, stage, job, started, events>> /\ sent # <<>>
          /\ history' = Append(history, Head(sent)) /\ sent' = Tail(sent)
      BY <1>4 DEF Recorded
    <2>2. sent' \in Seq(BurnIns(host.boots)) /\ history' \in Seq(BurnIns(host.boots))
      BY <2>1 DEF Tested
    <2>3. Tested'
      BY <2>1, <2>2 DEF Tested
    <2> QED
      BY <2>1, <2>3 DEF MachineStep, MachineType, HistoryGrows
  <1> QED
    BY <1>1, <1>2, <1>3, <1>4

\* What a resume makes of a node.
LEMMA ResumeKeeps ==
    ASSUME MachineType, Resume
    PROVE  node' \in Nodes /\ node'.booted = node.booted
  <1> DEFINE flags(p) == p \cup (IF host.power = "on" THEN {} ELSE {"NOT_RESPONDING"})
  <1>1. PICK p \in SUBSET ({"REBOOT_REQUESTED", "REBOOT_ISSUED"} \cap node.flags) :
            SetNode(flags(p), node.reason)
    BY DEF Resume
  <1>2. flags(p) \in SUBSET NodeFlags
    BY DEF NodeFlags
  <1> HIDE DEF flags
  <1> QED
    BY <1>1, <1>2, SetNodeKeeps, NodeKept, Kept

LEMMA PeopleSteps ==
    ASSUME MachineType, Tested,
           NHCDrains \/ NHCResumes \/ Scontrol \/ Promote
    PROVE  MachineStep
  <1> USE NodeKept, Kept
  <1>1. CASE NHCDrains
    <2>1. node.flags \cup {"DRAIN"} \in SUBSET NodeFlags
      BY DEF NodeFlags
    <2>2. NHCReason \in SUBSET Marks /\ "operator" \notin NHCReason
      BY DEF NHCReason, Marks
    <2>3. node' \in Nodes /\ node'.booted = node.booted
      BY <1>1, <2>1, <2>2, SetNodeKeeps DEF NHCDrains
    <2> QED
      BY <1>1, <2>3, NodeStep DEF NHCDrains
  <1>2. CASE NHCResumes
    <2>1. node' \in Nodes /\ node'.booted = node.booted
      BY <1>2, SetNodeKeeps DEF NHCResumes
    <2> QED
      BY <1>2, <2>1, NodeStep DEF NHCResumes
  <1>3. CASE Scontrol
    <2>1. node.flags \cup {"DRAIN"} \in SUBSET NodeFlags
          /\ node.flags \ {"REBOOT_REQUESTED"} \in SUBSET NodeFlags
      BY DEF NodeFlags
    <2>2. \A r \in Reasons : SetNode(node.flags \cup {"DRAIN"}, r) =>
              node' \in Nodes /\ node'.booted = node.booted
      BY <2>1, SetNodeKeeps, GivenReasons
    <2>3. node' \in Nodes /\ node'.booted = node.booted
      BY <1>3, <2>1, <2>2, SetNodeKeeps, ResumeKeeps DEF Scontrol
    <2> QED
      BY <1>3, <2>3, NodeStep, Counted DEF Scontrol
  <1>4. CASE Promote
    <2>1. UNCHANGED <<host, node, job, started, sent, history>> /\ stage' = "production"
      BY <1>4 DEF Promote
    <2>2. events' \in 0..MaxEvents
      BY <1>4, Counted DEF Promote
    <2> QED
      BY <2>1, <2>2 DEF MachineStep, MachineType, Tested, HistoryGrows
  <1> QED
    BY <1>1, <1>2, <1>3, <1>4

\* Every step of the environment.
LEMMA EnvironmentKeeps ==
    ASSUME MachineType, Tested, Held, Environment
    PROVE  MachineStep /\ Held'
  <1>1. MachineStep
    BY MachineSteps, BootStep, SlurmctldSteps, JobSteps, PeopleSteps DEF Environment
  <1>2. Held'
    BY DEF Environment, HoldKept, Held
  <1> QED
    BY <1>1, <1>2

-------------------------------------------------------------------------------
(* Tool calls *)

\* The machine's boots and its history, before and after a step.
LEMMA GoesOn ==
    ASSUME MachineType, Tested, MachineStep
    PROVE  /\ host.boots \in Nat /\ host'.boots \in Nat /\ host.boots <= host'.boots
           /\ Len(history) \in Nat /\ Len(history') \in Nat /\ Len(history) <= Len(history')
           /\ \A i \in 1..Len(history) : history'[i] = history[i]
  <1>1. host.boots \in Nat /\ host'.boots \in Nat /\ host.boots <= host'.boots
    BY DEF MachineType, Hosts, MachineStep
  <1>2. history \in Seq(BurnIns(host.boots)) /\ history' \in Seq(BurnIns(host'.boots))
    BY DEF Tested, MachineStep
  <1>3. CASE history' = history
    BY <1>1, <1>2, <1>3
  <1>4. CASE sent # <<>> /\ history' = Append(history, Head(sent))
    <2>1. Head(sent) \in BurnIns(host.boots)
      BY <1>4 DEF Tested
    <2> QED
      BY <1>1, <1>2, <1>4, <2>1
  <1> QED
    BY <1>3, <1>4 DEF MachineStep, HistoryGrows

\* What a call has read stays true when the machine boots and its history grows.
LEMMA HasReadKept ==
    ASSUME NEW q \in Calls, NEW m \in Nat, NEW n \in Nat, m <= n,
           NEW past, NEW more, Len(past) \in Nat, Len(more) \in Nat, Len(past) <= Len(more),
           \A i \in 1..Len(past) : more[i] = past[i],
           HasRead(q, m, past)
    PROVE  HasRead(q, n, more)
  <1>1. q.recorded \in Nat /\ q.booted \in Nat
    BY DEF Calls
  <1>2. ASSUME q.at # "nodes"
        PROVE  /\ q.n \in SlurmViews /\ "operator" \notin q.n.reason
               /\ q.booted <= n
               /\ q.held => "hardware" \in q.n.reason
    BY <1>1, <1>2 DEF HasRead
  <1>3. ASSUME q.at = "done"
        PROVE  /\ q.recorded <= Len(more)
               /\ q.h.burnin = "passed" =>
                     /\ 0 < q.recorded
                     /\ more[q.recorded].passed /\ q.booted <= more[q.recorded].ended
    <2>1. q.recorded <= Len(past)
      BY <1>3 DEF HasRead
    <2>2. q.h.burnin = "passed" => 0 < q.recorded /\ more[q.recorded] = past[q.recorded]
      BY <1>1, <1>3, <2>1 DEF HasRead
    <2> QED
      BY <1>1, <1>3, <2>1, <2>2 DEF HasRead
  <1> QED
    BY <1>2, <1>3 DEF HasRead

\* A step that goes on with one call, or none, and leaves the others alone.
LEMMA OneCallKeeps ==
    ASSUME MachineType, Tested, MachineStep, CallInv, NEW c \in Callers,
           NEW q \in Calls \cup {NoCall},
           call' = [call EXCEPT ![c] = q] \/ call' = call,
           q # NoCall => HasRead(q, host'.boots, history')
    PROVE  CallInv'
  <1>1. call' \in [Callers -> Calls \cup {NoCall}]
    BY DEF CallInv
  <1>2. ASSUME NEW d \in Callers, call'[d] # NoCall
        PROVE  HasRead(call'[d], host'.boots, history')
    <2>1. call'[d] = q \/ call'[d] = call[d]
      BY DEF CallInv
    <2>2. CASE call'[d] = q
      BY <1>2, <2>2
    <2>3. CASE call'[d] = call[d]
      <3>1. call[d] \in Calls /\ HasRead(call[d], host.boots, history)
        BY <1>2, <2>3 DEF CallInv
      <3> QED
        BY <2>3, <3>1, HasReadKept, GoesOn
    <2> QED
      BY <2>1, <2>2, <2>3
  <1> QED
    BY <1>1, <1>2 DEF CallInv

\* A step of the environment leaves every call alone.
LEMMA NoCallMoves ==
    ASSUME MachineType, Tested, MachineStep, CallInv, call' = call
    PROVE  CallInv'
  <1>1. CASE Callers = {}
    BY <1>1 DEF CallInv
  <1>2. CASE Callers # {}
    <2>1. PICK c \in Callers : TRUE
      BY <1>2
    <2> QED
      BY <2>1, OneCallKeeps
  <1> QED
    BY <1>1, <1>2

\* A step that leaves the machine alone.
LEMMA MachineStays ==
    ASSUME MachineType, Tested, UNCHANGED machine, events' \in 0..MaxEvents
    PROVE  MachineStep
  BY DEF machine, MachineType, Tested, MachineStep, HistoryGrows, Hosts

\* Such a step leaves a hold alone, too, when it writes no hold.
LEMMA HeldStays ==
    ASSUME Held, UNCHANGED <<machine, held>>
    PROVE  Held'
  BY DEF Held, machine

\* A call that begins has read nothing.
LEMMA BeginKeeps ==
    ASSUME IInv, NEW c \in Callers, NEW tool \in {"triage", "drain", "resume"},
           NEW force \in BOOLEAN, NEW reason \in SUBSET Marks, "operator" \notin reason,
           Begin(c, tool, force, reason)
    PROVE  IInv'
  <1> DEFINE q == [tool |-> tool, force |-> force, reason |-> reason,
                   at |-> "nodes", n |-> NoView, booted |-> 0, held |-> FALSE,
                   recorded |-> 0, h |-> Past(FALSE, 0, <<>>)]
  <1>1. call' = [call EXCEPT ![c] = q] /\ UNCHANGED <<machine, held>>
    BY DEF Begin
  <1>2. events' \in 0..MaxEvents
    BY Counted, Kept DEF Begin, IInv
  <1>3. Past(FALSE, 0, <<>>) \in [read : BOOLEAN, chronic : {FALSE}, eats : {FALSE},
                                  burnin : {"none", "passed", "failed"}]
    BY DEF Past, BurnIn
  <1>4. q \in Calls /\ HasRead(q, host'.boots, history')
    BY <1>3 DEF Calls, HasRead
  <1> HIDE DEF q
  <1>5. MachineStep /\ Held'
    BY <1>1, <1>2, MachineStays, HeldStays DEF IInv
  <1>6. CallInv'
    BY <1>1, <1>4, <1>5, OneCallKeeps DEF IInv
  <1> QED
    BY <1>5, <1>6 DEF IInv, MachineStep

\* A read, or a failure to read, leaves a sound call.
LEMMA ReadKeeps ==
    ASSUME IInv, NEW c \in Callers, NEW q \in Calls \cup {NoCall},
           q # NoCall => HasRead(q, host.boots, history),
           call' = [call EXCEPT ![c] = q], UNCHANGED <<machine, held, events>>
    PROVE  IInv'
  <1>1. MachineStep /\ Held'
    BY MachineStays, HeldStays, Kept DEF IInv
  <1>2. q # NoCall => HasRead(q, host'.boots, history')
    BY DEF machine
  <1>3. CallInv'
    BY <1>1, <1>2, OneCallKeeps DEF IInv
  <1> QED
    BY <1>1, <1>3 DEF IInv, MachineStep

\* What the reads return has the types of what was read.
LEMMA ReadTypes ==
    ASSUME MachineType, Tested
    PROVE  /\ RunningJobs \in SUBSET [limit : BOOLEAN, burnin : BOOLEAN]
           /\ SlurmView(node, {}) \in SlurmViews
           /\ SlurmView(node, {}).reason = node.reason /\ "operator" \notin node.reason
           /\ node.booted \in {0, host.boots} /\ host.boots \in Nat \ {0}
  <1>1. RunningJobs \in SUBSET [limit : BOOLEAN, burnin : BOOLEAN]
    BY DEF RunningJobs, Tested
  <1>2. Parts \in {{"batch", "burnin"}, {"burnin"}}
    BY DEF Parts
  <1>3. SlurmView(node, {}) \in SlurmViews
    BY <1>2, NodeKept DEF SlurmView, SlurmViews
  <1> QED
    BY <1>1, <1>3, NodeKept, Kept DEF SlurmView

\* The three reads of a call, in their order.
LEMMA ReadsKeep ==
    ASSUME IInv, NEW c \in Callers, call[c] # NoCall,
           ReadNodes(c) \/ ReadJobs(c) \/ ReadHistory(c) \/ SlurmFails(c)
    PROVE  IInv'
  <1> DEFINE p == call[c]
  <1>1. p \in Calls /\ HasRead(p, host.boots, history) /\ MachineType /\ Tested /\ Held
    BY DEF IInv, CallInv
  <1>2. CASE ReadNodes(c)
    <2> DEFINE n == SlurmView(node, {})
               q == [p EXCEPT !.at = "jobs", !.n = n, !.booted = node.booted, !.held = held]
    <2>1. call' = [call EXCEPT ![c] = q] /\ UNCHANGED <<machine, held, events>>
      BY <1>2 DEF ReadNodes, Reads
    <2>2. n \in SlurmViews /\ n.reason = node.reason /\ "operator" \notin n.reason
      BY <1>1, ReadTypes
    <2>3. node.booted \in {0, host.boots} /\ host.boots \in Nat \ {0}
      BY <1>1, Kept
    <2>4. held \in BOOLEAN /\ (held => "hardware" \in n.reason)
      BY <1>1, <2>2 DEF Held
    <2> HIDE DEF n, p
    <2>a. node.booted \in Nat
      BY <1>1, Kept DEF Nodes
    <2>5. q \in Calls /\ q.at = "jobs" /\ q.n = n /\ q.booted = node.booted /\ q.held = held
      BY <1>1, <2>2, <2>4, <2>a DEF Calls
    <2> HIDE DEF q
    <2>6. HasRead(q, host.boots, history)
      BY <2>2, <2>3, <2>4, <2>5 DEF HasRead
    <2> QED
      BY <2>1, <2>5, <2>6, ReadKeeps
  <1>3. CASE ReadJobs(c)
    <2> DEFINE q == [p EXCEPT !.at = "history", !.n.jobs = RunningJobs]
               n == [p.n EXCEPT !.jobs = RunningJobs]
    <2>1. p.at = "jobs" /\ call' = [call EXCEPT ![c] = q] /\ UNCHANGED <<machine, held, events>>
      BY <1>3 DEF ReadJobs, Reads
    <2>2. p.n \in SlurmViews /\ "operator" \notin p.n.reason /\ (p.held => "hardware" \in p.n.reason)
          /\ p.booted <= host.boots
      BY <1>1, <2>1 DEF HasRead
    <2>3. n \in SlurmViews /\ n.reason = p.n.reason
      BY <1>1, <2>2, ReadTypes DEF SlurmViews
    <2>4. q = [p EXCEPT !.at = "history", !.n = n]
      OBVIOUS
    <2> HIDE DEF n, p, q
    <2>5. q \in Calls /\ q.n = n /\ q.at = "history" /\ q.booted = p.booted /\ q.held = p.held
      BY <1>1, <2>3, <2>4 DEF Calls
    <2>6. HasRead(q, host.boots, history)
      BY <2>2, <2>3, <2>5 DEF HasRead
    <2> QED
      BY <2>1, <2>5, <2>6, ReadKeeps DEF q
  <1>4. CASE ReadHistory(c)
    <2>1. PICK read \in BOOLEAN :
              Reads(c, "history", [p EXCEPT !.at = "done", !.recorded = Len(history),
                                            !.h = Past(read, p.booted, history)])
      BY <1>4 DEF ReadHistory
    <2> DEFINE h == Past(read, p.booted, history)
               q == [p EXCEPT !.at = "done", !.recorded = Len(history), !.h = h]
    <2>2. p.at = "history" /\ call' = [call EXCEPT ![c] = q] /\ UNCHANGED <<machine, held, events>>
      BY <2>1 DEF Reads
    <2>3. p.n \in SlurmViews /\ "operator" \notin p.n.reason /\ (p.held => "hardware" \in p.n.reason)
          /\ p.booted <= host.boots
      BY <1>1, <2>2 DEF HasRead
    <2>4. /\ h \in [read : BOOLEAN, chronic : {FALSE}, eats : {FALSE},
                    burnin : {"none", "passed", "failed"}]
          /\ h.burnin = "passed" => /\ history # <<>> /\ history[Len(history)].passed
                                    /\ ~(p.booted # 0 /\ history[Len(history)].ended < p.booted)
      BY DEF Past, BurnIn
    <2>5. Len(history) \in Nat /\ (history # <<>> => Len(history) \in 1..Len(history)
                                         /\ history[Len(history)] \in BurnIns(host.boots))
      BY <1>1 DEF Tested
    <2> HIDE DEF h, p
    <2>6. q \in Calls /\ q.at = "done" /\ q.n = p.n /\ q.booted = p.booted /\ q.held = p.held
          /\ q.recorded = Len(history) /\ q.h = h
      BY <1>1, <2>4, <2>5 DEF Calls
    <2>7. h.burnin = "passed" => 0 < Len(history) /\ history[Len(history)].passed
                                    /\ p.booted <= history[Len(history)].ended
      <3>1. p.booted \in Nat
        BY <1>1 DEF Calls
      <3> QED
        BY <2>4, <2>5, <3>1 DEF BurnIns
    <2> HIDE DEF q
    <2>8. HasRead(q, host.boots, history)
      BY <2>3, <2>5, <2>6, <2>7 DEF HasRead
    <2> QED
      BY <2>2, <2>6, <2>8, ReadKeeps
  <1>5. CASE SlurmFails(c)
    BY <1>5, ReadKeeps DEF SlurmFails
  <1> QED
    BY <1>2, <1>3, <1>4, <1>5

\* A tool call that writes the node and is over.
LEMMA WriteKeeps ==
    ASSUME IInv, NEW c \in Callers, call' = [call EXCEPT ![c] = NoCall],
           UNCHANGED <<host, events>>, JobKept, node' \in Nodes, node'.booted = node.booted
    PROVE  MachineStep /\ CallInv'
  <1>1. MachineStep
    BY NodeStep, Kept DEF IInv
  <1>2. CallInv'
    BY <1>1, OneCallKeeps DEF IInv
  <1> QED
    BY <1>1, <1>2

\* The drain that drain_node writes is never in the operator's words, and is a
\* hold when the caller's reason says hardware.
LEMMA DrainKeeps ==
    ASSUME IInv, NEW c \in Callers, DrainNode(c)
    PROVE  IInv'
  <1> DEFINE why == Prefixed(call[c].reason)
             drained == node.flags \cup {"DRAIN"}
  <1>1. /\ call' = [call EXCEPT ![c] = NoCall] /\ UNCHANGED <<host, events>> /\ JobKept
        /\ \/ SetNode(drained, why) /\ held' = ("hardware" \in call[c].reason)
           \/ UNCHANGED <<node, held>>
    BY DEF DrainNode
  <1>2. MachineType /\ node \in Nodes /\ node.flags \in SUBSET NodeFlags
    BY NodeKept, Kept DEF IInv
  <1>3. call[c].reason \in SUBSET Marks /\ "operator" \notin call[c].reason
    BY DEF DrainNode, Read, IInv, CallInv, Calls
  <1>4. why \in SUBSET Marks /\ "operator" \notin why /\ drained \in SUBSET NodeFlags /\ drained # {}
    BY <1>2, <1>3 DEF Prefixed, Marks, NodeFlags
  <1>5. /\ node' \in Nodes /\ node'.booted = node.booted
        /\ \/ node'.flags = drained /\ node'.reason = why /\ held' = ("hardware" \in call[c].reason)
           \/ node' = node /\ held' = held
    <2> HIDE DEF why, drained
    <2>1. CASE SetNode(drained, why) /\ held' = ("hardware" \in call[c].reason)
      BY <1>2, <1>4, <2>1, SetNodeKeeps
    <2>2. CASE UNCHANGED <<node, held>>
      BY <1>2, <2>2
    <2> QED
      BY <1>1, <2>1, <2>2
  <1>6. MachineStep /\ CallInv'
    BY <1>1, <1>5, WriteKeeps
  <1>7. Held'
    <2>1. CASE node' = node /\ held' = held
      BY <2>1 DEF IInv, Held
    <2>2. CASE node'.flags = drained /\ node'.reason = why /\ held' = ("hardware" \in call[c].reason)
      <3>1. held' \in BOOLEAN
        BY <2>2
      <3>2. held' => "DRAIN" \in node'.flags /\ {"triage", "hardware"} \subseteq node'.reason
        BY <2>2 DEF Prefixed
      <3> QED
        BY <3>1, <3>2 DEF Held
    <2> QED
      BY <1>5, <2>1, <2>2
  <1> QED
    BY <1>6, <1>7 DEF IInv, MachineStep

\* A resume leaves no hold that its node does not show.
LEMMA ResumeNodeKeeps ==
    ASSUME IInv, NEW c \in Callers, ResumeNode(c)
    PROVE  IInv'
  <1>1. /\ call' = [call EXCEPT ![c] = NoCall] /\ UNCHANGED <<host, events>> /\ JobKept
        /\ Resume /\ HoldKept
    BY DEF ResumeNode
  <1>2. node' \in Nodes /\ node'.booted = node.booted
    BY <1>1, ResumeKeeps DEF IInv
  <1>3. MachineStep /\ CallInv'
    BY <1>1, <1>2, WriteKeeps
  <1>4. Held'
    BY <1>1 DEF HoldKept, Held
  <1> QED
    BY <1>3, <1>4 DEF IInv, MachineStep

LEMMA ToolsKeep ==
    ASSUME IInv, Tools
    PROVE  IInv'
  <1>1. PICK c \in Callers :
            \/ Begin(c, "triage", FALSE, Blank)
            \/ \E r \in Reasons : Begin(c, "drain", FALSE, r)
            \/ \E f \in BOOLEAN : Begin(c, "resume", f, Blank)
            \/ ReadNodes(c) \/ ReadJobs(c) \/ ReadHistory(c) \/ SlurmFails(c)
            \/ DrainNode(c) \/ ResumeNode(c) \/ Answer(c)
    BY DEF Tools
  <1>2. Blank \in SUBSET Marks /\ "operator" \notin Blank
    BY DEF Blank
  <1>3. CASE Begin(c, "triage", FALSE, Blank)
    BY <1>2, <1>3, BeginKeeps
  <1>4. ASSUME NEW r \in Reasons, Begin(c, "drain", FALSE, r)
        PROVE  IInv'
    BY <1>4, BeginKeeps, GivenReasons
  <1>5. ASSUME NEW f \in BOOLEAN, Begin(c, "resume", f, Blank)
        PROVE  IInv'
    BY <1>2, <1>5, BeginKeeps
  <1>6. CASE ReadNodes(c) \/ ReadJobs(c) \/ ReadHistory(c) \/ SlurmFails(c)
    <2>1. call[c] # NoCall
      BY <1>6 DEF ReadNodes, ReadJobs, ReadHistory, Reads, SlurmFails
    <2> QED
      BY <1>6, <2>1, ReadsKeep
  <1>7. CASE Answer(c)
    BY <1>7, ReadKeeps DEF Answer
  <1> QED
    BY <1>1, <1>3, <1>4, <1>5, <1>6, <1>7, DrainKeeps, ResumeNodeKeeps

-------------------------------------------------------------------------------
(* The invariant *)

\* A registered node, without calls.
LEMMA InitIInv == Init => IInv
  <1> SUFFICES ASSUME Init PROVE IInv
    OBVIOUS
  <1>1. MachineType
    <2>1. host \in Hosts /\ host.boots = 1
      BY DEF Init, Hosts
    <2>2. node \in Nodes /\ node.booted = 1
      BY DEF Init, Nodes, Blank
    <2> QED
      BY <2>1, <2>2, ClassicAssumption DEF Init, MachineType
  <1>2. Tested /\ Held
    <2>1. Tested
      BY DEF Init, Tested
    <2>2. Held
      BY DEF Init, Held
    <2> QED
      BY <2>1, <2>2
  <1>3. CallInv
    BY DEF Init, CallInv
  <1> QED
    BY <1>1, <1>2, <1>3 DEF IInv

\* Every step keeps it.
LEMMA StepIInv == IInv /\ [Next]_vars => IInv'
  <1> SUFFICES ASSUME IInv, [Next]_vars PROVE IInv'
    OBVIOUS
  <1>1. CASE Environment
    <2>1. MachineStep /\ Held'
      BY <1>1, EnvironmentKeeps DEF IInv
    <2>2. call' = call
      BY <1>1 DEF Environment
    <2>3. CallInv'
      BY <2>1, <2>2, NoCallMoves DEF IInv
    <2> QED
      BY <2>1, <2>3 DEF IInv, MachineStep
  <1>2. CASE Tools
    BY <1>2, ToolsKeep
  <1>3. CASE UNCHANGED vars
    <2>1. UNCHANGED <<machine, held, events>> /\ call' = call
      BY <1>3 DEF vars, machine
    <2>2. MachineStep /\ Held'
      BY <2>1, MachineStays, HeldStays, Kept DEF IInv
    <2>3. CallInv'
      BY <2>1, <2>2, NoCallMoves DEF IInv
    <2> QED
      BY <2>2, <2>3 DEF IInv, MachineStep
  <1> QED
    BY <1>1, <1>2, <1>3 DEF Next

\* The inductive invariant holds always.
THEOREM Inductive == Spec => []IInv
  BY InitIInv, StepIInv, PTL DEF Spec

-------------------------------------------------------------------------------
(* The properties *)

\* The variables stay in their types, every burn-in lies within the machine's
\* boots, and a call that has read everything holds a view.
THEOREM TypeCorrect == Spec => []TypeOK
  <1>1. IInv => TypeOK
    <2> SUFFICES ASSUME IInv PROVE TypeOK
      OBVIOUS
    <2>1. host.power \in {"on", "silent", "off"} /\ host.boots \in Nat \ {0}
      BY DEF IInv, MachineType, Hosts
    <2>2. /\ node.flags \subseteq NodeFlags /\ node.reason \subseteq Marks
          /\ node.flags = {} => node.reason = Blank
      BY DEF IInv, MachineType, Nodes
    <2>3. node.booted \in {0, host.boots} /\ events \in 0..MaxEvents
      BY <2>1 DEF IInv, MachineType
    <2>4. ASSUME NEW b \in {history[i] : i \in DOMAIN history} \cup {sent[i] : i \in DOMAIN sent}
          PROVE  b.began \in 1..b.ended /\ b.ended \in 1..host.boots
      <3>1. b \in BurnIns(host.boots)
        BY DEF IInv, Tested
      <3> QED
        BY <2>1, <3>1 DEF BurnIns
    <2>5. ASSUME NEW c \in Callers, Read(c)
          PROVE  call[c].n # NoView /\ call[c].booted \in 0..host.boots
      <3>1. call[c] \in Calls /\ HasRead(call[c], host.boots, history) /\ call[c].at = "done"
        BY <2>5 DEF Read, IInv, CallInv
      <3>2. call[c].n \in SlurmViews /\ call[c].booted <= host.boots
        BY <3>1 DEF HasRead
      <3>3. call[c].booted \in Nat
        BY <3>1 DEF Calls
      <3> QED
        BY <2>1, <3>2, <3>3, NoViewAssumption
    <2>6. job \in {"none", "burnin", "bounded", "unbounded"}
      BY DEF IInv, Tested
    <2> QED
      BY <2>1, <2>2, <2>3, <2>4, <2>5, <2>6 DEF TypeOK
  <1> QED
    BY <1>1, Inductive, PTL

\* A call that answers promote does so on a burn-in that passed within one boot,
\* and, if Slurm had a boot of the node when it was read, in that one or a later.
THEOREM PromoteIsEarned == Spec => []PromoteEarned
  <1>1. IInv => PromoteEarned
    <2> SUFFICES ASSUME IInv, NEW c \in Callers, Read(c), Advice(c).action = "promote"
                 PROVE  /\ call[c].recorded > 0
                        /\ history[call[c].recorded].passed
                        /\ history[call[c].recorded].began = history[call[c].recorded].ended
                        /\ call[c].booted # 0 =>
                              history[call[c].recorded].began >= call[c].booted
      BY DEF PromoteEarned
    <2> DEFINE q == call[c]
               b == history[q.recorded]
    <2>1. q \in Calls /\ HasRead(q, host.boots, history) /\ q.at = "done"
      BY DEF Read, IInv, CallInv
    <2>2. q.h.burnin \notin {"none", "failed"}
      BY PromoteNeedsPass DEF Advice
    <2>3. q.h.burnin = "passed"
      BY <2>1, <2>2 DEF Calls
    <2>4. q.recorded \in Nat /\ q.recorded <= Len(history) /\ 0 < q.recorded
          /\ b.passed /\ q.booted <= b.ended
      BY <2>1, <2>3 DEF Calls, HasRead
    <2>5. b \in BurnIns(host.boots)
      BY <2>4 DEF IInv, Tested
    <2>6. q.booted \in Nat
      BY <2>1 DEF Calls
    <2> QED
      BY <2>4, <2>5, <2>6 DEF BurnIns
  <1> QED
    BY <1>1, Inductive, PTL

\* What a hold needs of its node.
Holds == "DRAIN" \in node.flags /\ {"triage", "hardware"} \subseteq node.reason

\* SetNode leaves a drain in the words that it is given.
LEMMA SetNodeHolds ==
    ASSUME node \in Nodes, NEW flags, NEW reason, SetNode(flags, reason),
           "DRAIN" \in flags, {"triage", "hardware"} \subseteq reason
    PROVE  Holds'
  BY DEF SetNode, Nodes, Holds

\* No other step of the environment releases a hold: neither the repair, nor a
\* crash, nor the health check.
LEMMA HoldLasts ==
    ASSUME IInv, held, Environment, ~held'
    PROVE  Scontrol \/ Boots(TRUE) \/ RebootTimesOut
  <1>1. ~Holds' /\ Holds /\ node \in Nodes
    BY Kept DEF Environment, HoldKept, Holds, IInv, Held
  <1>2. node' # node
    BY <1>1 DEF Holds
  <1>3. ~(PowerLoss \/ Silence \/ Breaks \/ Repaired \/ JobStarts \/ JobEnds
           \/ JobCancelled \/ Recorded \/ Promote)
    BY <1>2 DEF PowerLoss, Silence, Breaks, Repaired, JobStarts, JobEnds, JobCancelled,
                Recorded, Promote
  <1>4. ~Answers
    BY <1>1, SetNodeHolds DEF Answers, Holds
  <1>5. ~Unanswered
    BY <1>1, SetNodeHolds DEF Unanswered, Holds
  <1>6. ~SlurmdTimeout
    BY <1>1, SetNodeHolds DEF SlurmdTimeout, Holds, Blank
  <1>7. ~RebootIssued
    BY <1>1, SetNodeHolds DEF RebootIssued, Holds
  <1>8. ~RebootAsked
    BY <1>1 DEF RebootAsked, Holds, Nodes, Blank
  <1>11. ~SlurmctldRestarts /\ ~Registers
    BY <1>1 DEF SlurmctldRestarts, Registers, Holds, Nodes
  <1>9. ~NHCDrains /\ ~NHCResumes
    BY <1>1 DEF NHCDrains, NHCResumes, Holds
  <1>10. ~Boots(FALSE)
    <2> SUFFICES ASSUME Boots(FALSE) PROVE FALSE
      OBVIOUS
    <2> DEFINE flags == (node.flags \ {"NOT_RESPONDING"}) \cup {"DOWN"}
    <2>1. node' = [flags |-> flags, reason |-> node.reason, booted |-> host.boots + 1,
                   resume |-> FALSE]
      BY <1>1 DEF Boots, Holds
    <2>2. "DRAIN" \in flags
      BY <1>1 DEF Holds
    <2> HIDE DEF flags
    <2> QED
      BY <1>1, <2>1, <2>2 DEF Holds
  <1> QED
    BY <1>3, <1>4, <1>5, <1>6, <1>7, <1>8, <1>9, <1>10, <1>11 DEF Environment

\* A call that read the node under a hold does not resume it unforced.
LEMMA HeldRefused ==
    ASSUME IInv, NEW c \in Callers, ResumeNode(c)
    PROVE  call[c].force \/ ~call[c].held
  <1> DEFINE q == call[c]
  <1>1. q \in Calls /\ HasRead(q, host.boots, history) /\ q.at = "done"
    BY DEF ResumeNode, Read, IInv, CallInv
  <1>2. ResumeVerdict(AssessSlurm(q.n, NoView, q.h), q.force) = "done"
    BY DEF ResumeNode, Advice
  <1>3. "operator" \notin q.n.reason /\ (q.held => "hardware" \in q.n.reason)
    BY <1>1 DEF HasRead
  <1>4. q.force \in BOOLEAN
    BY <1>1 DEF Calls
  <1> HIDE DEF q
  <1>5. CASE q.force
    BY <1>5 DEF q
  <1>6. CASE ~q.force
    <2>1. ResumeVerdict(AssessSlurm(q.n, NoView, q.h), FALSE) = "done"
      BY <1>2, <1>4, <1>6
    <2>2. "hardware" \notin q.n.reason
      BY <1>3, <2>1, HardwareRefused
    <2> QED
      BY <1>3, <2>2 DEF q
  <1> QED
    BY <1>4, <1>5, <1>6

\* A hardware drain that drain_node made ends by a person's decision, and by no
\* repair, crash, health check or stale resume.
THEOREM HardwareDrainIsHeld == Spec => HardwareDrainHeld
  <1> DEFINE Released ==
                held /\ ~held' =>
                  \/ Scontrol
                  \/ \E c \in Callers : DrainNode(c)
                  \/ \E c \in Callers : ResumeNode(c) /\ (call[c].force \/ ~call[c].held)
                  \/ Boots(TRUE) \/ RebootTimesOut
  <1>1. ASSUME IInv, [Next]_vars PROVE Released
    <2>1. CASE Environment
      BY <1>1, <2>1, HoldLasts
    <2>2. CASE Tools
      <3> SUFFICES ASSUME held, ~held' PROVE Released
        OBVIOUS
      <3>1. PICK c \in Callers : DrainNode(c) \/ ResumeNode(c)
        BY <2>2 DEF Tools, Begin, ReadNodes, ReadJobs, ReadHistory, Reads, SlurmFails, Answer
      <3> QED
        BY <1>1, <3>1, HeldRefused
    <2>3. CASE UNCHANGED vars
      BY <2>3 DEF vars
    <2> QED
      BY <1>1, <2>1, <2>2, <2>3 DEF Next
  <1>2. IInv /\ [Next]_vars => [Released]_vars
    BY <1>1
  <1> QED
    BY <1>2, Inductive, PTL DEF Spec, HardwareDrainHeld

===============================================================================
