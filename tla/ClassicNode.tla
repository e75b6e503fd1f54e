------------------------------ MODULE ClassicNode ------------------------------
(***************************************************************************)
(* A node of the classic cluster, from bring-up to repair: it boots,       *)
(* registers, runs burn-ins and jobs, loses a GPU or its disk space, is    *)
(* drained and resumed by its health check (NHC), rebooted on request and  *)
(* by accident, and promoted to production once its burn-in has passed.    *)
(* node-triage's tools read it in steps (nodes, jobs, history), decide by  *)
(* the rules of TriageRules, and drain_node and resume_node write.         *)
(*                                                                         *)
(* Time is counted in boots: all the rules ask of a burn-in's end is       *)
(* whether it lies before the node's BootTime (triage.go: qualify).        *)
(* slurmctld, slurmd, NHC, sbatch and the engineers are outside the        *)
(* repository; they do what its configuration, drills and fixtures record. *)
(***************************************************************************)
EXTENDS TriageRules

CONSTANTS
    Callers,     \* tool calls that may be in flight at the same time
    Reasons,     \* reasons a caller may give drain_node
    Faults,      \* the bounded kinds of events (see Happens)
    MaxEvents    \* bound on how many of them happen

FaultKinds == {"power", "silence", "gpu", "disk", "job", "burnin", "reboot",
               "slurmctld", "scontrol", "promote", "drain", "resume"}

ASSUME ClassicAssumption ==
    /\ Reasons \subseteq SUBSET (Marks \ {"operator", "terminating", "triage"})
    /\ Blank \notin Reasons
    /\ Faults \subseteq FaultKinds
    /\ MaxEvents \in Nat

VARIABLES
    host,     \* the machine: on, "silent" (slurmd does not answer) or off; its
              \* boots so far, and what is wrong with it
    node,     \* the node in slurmctld: flags, reason, its boot (0: not set), what
              \* follows a reboot
    stage,    \* "burnin" or "production" in the node table
    job,      \* what runs on it: "none", "burnin", "bounded" or "unbounded"
    started,  \* the boot the burn-in that runs, or ran last, started in
    sent,     \* ended burn-ins that slurmdbd has not recorded yet
    history,  \* burn-ins as slurmdbd has them, in the order they ended
    held,     \* drain_node holds the node for its hardware
    call,     \* call[c]: the tool call caller c has in flight
    events    \* how many of the bounded events have happened

machine == <<host, node, stage, job, started, sent, history>>
vars    == <<host, node, stage, job, started, sent, history, held, call, events>>

-------------------------------------------------------------------------------
(* What the rules see. *)

NodeFlags == {"DRAIN", "DOWN", "NOT_RESPONDING", "REBOOT_REQUESTED", "REBOOT_ISSUED"}

SlurmViews == [flags : SUBSET NodeFlags, reason : SUBSET Marks, pod : {FALSE}, back : {FALSE},
               parts : {{"batch", "burnin"}, {"burnin"}},
               jobs : SUBSET [limit : BOOLEAN, burnin : BOOLEAN]]

\* A node that was not read is no node.
ASSUME NoViewAssumption == NoView \notin SlurmViews

\* The partitions slurm.conf puts a node of this stage in.
Parts == IF stage = "production" THEN {"batch", "burnin"} ELSE {"burnin"}

\* RUNNING jobs.  The burn-in partition has a time limit.
RunningJobs == IF job = "none" THEN {}
               ELSE {[limit |-> job # "unbounded", burnin |-> job = "burnin"]}

SlurmView(n, jobs) == [flags |-> n.flags, reason |-> n.reason, pod |-> FALSE,
                       back |-> FALSE, parts |-> Parts, jobs |-> jobs]

\* Mutant: any burn-in in the history counts, whenever the node booted.
BurnInEver(booted, h) ==
    IF h = <<>> THEN "none" ELSE IF h[Len(h)].passed THEN "passed" ELSE "failed"

\* qualify: the burn-in that ended last decides, unless the node booted since.
\* Without a BootTime any burn-in counts.
BurnIn(booted, h) ==
    IF h = <<>> \/ (booted # 0 /\ h[Len(h)].ended < booted) THEN "none"
    ELSE IF h[Len(h)].passed THEN "passed" ELSE "failed"

\* Without accounting there is no history to look at.
Past(read, booted, h) == [read |-> read, chronic |-> FALSE, eats |-> FALSE,
                          burnin |-> BurnIn(booted, h)]

\* The rules applied to what is true now.
AdviceNow == AssessSlurm(SlurmView(node, RunningJobs), NoView,
                         Past(TRUE, node.booted, history))

-------------------------------------------------------------------------------
Happens(f) ==
    /\ f \in Faults
    /\ events < MaxEvents
    /\ events' = events + 1

NoCall == [tool |-> "none"]

\* A node of either stage, newly registered.
Init ==
    /\ host = [power |-> "on", boots |-> 1, wrong |-> {}]
    /\ node = [flags |-> {}, reason |-> Blank, booted |-> 1, resume |-> FALSE]
    /\ stage \in {"burnin", "production"}
    /\ job = "none" /\ started = 0 /\ sent = <<>> /\ history = <<>>
    /\ held = FALSE
    /\ call = [c \in Callers |-> NoCall]
    /\ events = 0

\* slurmctld's record of the node; a node without flags keeps no reason.
SetNode(flags, reason) ==
    node' = [node EXCEPT !.flags = flags, !.reason = IF flags = {} THEN Blank ELSE reason]

\* A hold ends with the drain, or when somebody gives it another reason.
HoldKept == held' = (held /\ "DRAIN" \in node'.flags /\ {"triage", "hardware"} \subseteq node'.reason)

\* A job ends: accounting hears of a burn-in some time later.
JobOver(passed) ==
    /\ job' = "none"
    /\ sent' = IF job = "burnin"
               THEN Append(sent, [began |-> started, ended |-> host'.boots, passed |-> passed])
               ELSE sent
    /\ UNCHANGED <<stage, started, history>>

JobKept == UNCHANGED <<stage, job, started, sent, history>>

-------------------------------------------------------------------------------
(* The machine. *)

PowerLoss ==
    /\ Happens("power")
    /\ host.power # "off"
    /\ host' = [host EXCEPT !.power = "off"]
    /\ UNCHANGED node /\ JobKept

\* slurmd dies, hangs, or cannot authenticate; the jobs go on.
Silence ==
    /\ Happens("silence")
    /\ host.power = "on"
    /\ host' = [host EXCEPT !.power = "silent"]
    /\ UNCHANGED node /\ JobKept

Breaks ==
    /\ \E w \in {"gpu", "disk"} \ host.wrong :
          Happens(w) /\ host' = [host EXCEPT !.wrong = @ \cup {w}]
    /\ UNCHANGED node /\ JobKept

Repaired ==
    /\ \E w \in host.wrong : host' = [host EXCEPT !.wrong = @ \ {w}]
    /\ UNCHANGED <<node, events>> /\ JobKept

\* slurmd answers again.  ReturnToService=1 returns a node that went DOWN for
\* not responding.
Answers ==
    /\ host.power = "silent"
    /\ host' = [host EXCEPT !.power = "on"]
    /\ SetNode(node.flags \ ({"NOT_RESPONDING"} \cup
                   (IF "not_responding" \in node.reason THEN {"DOWN"} ELSE {})), node.reason)
    /\ UNCHANGED events /\ JobKept

\* The machine boots and slurmd registers.  A reboot Slurm asked for ends, and
\* with nextstate=RESUME so does the drain; any other is held DOWN as
\* unexpected.  A job that was running is lost.
Boots(asked) ==
    /\ host.power = "off"
    /\ asked = ("REBOOT_ISSUED" \in node.flags)
    /\ host' = [host EXCEPT !.power = "on", !.boots = @ + 1]
    /\ LET flags == IF ~asked THEN (node.flags \ {"NOT_RESPONDING"}) \cup {"DOWN"}
                    ELSE node.flags \ ({"REBOOT_REQUESTED", "REBOOT_ISSUED", "DOWN", "NOT_RESPONDING"}
                                         \cup IF node.resume THEN {"DRAIN"} ELSE {})
           why   == IF asked \/ "DRAIN" \in node.flags THEN node.reason ELSE {"rebooted"}
       IN  node' = [flags |-> flags, reason |-> IF flags = {} THEN Blank ELSE why,
                    booted |-> host.boots + 1, resume |-> FALSE]
    /\ JobOver(FALSE)
    /\ UNCHANGED events

-------------------------------------------------------------------------------
(* slurmctld. *)

Unanswered ==
    /\ host.power # "on"
    /\ {"DOWN", "NOT_RESPONDING"} \cap node.flags = {}
    /\ SetNode(node.flags \cup {"NOT_RESPONDING"}, node.reason)
    /\ UNCHANGED <<host, events>> /\ JobKept

\* SlurmdTimeout marks the node DOWN and kills its job.
SlurmdTimeout ==
    /\ host.power # "on" /\ "NOT_RESPONDING" \in node.flags /\ "DOWN" \notin node.flags
    /\ SetNode(node.flags \cup {"DOWN"},
               IF node.reason = Blank THEN {"not_responding"} ELSE node.reason)
    /\ UNCHANGED <<host, events>>
    /\ JobOver(FALSE)

\* slurmctld restarts: it has kept the node's state, but not its boot time.
SlurmctldRestarts ==
    /\ Happens("slurmctld")
    /\ node' = [node EXCEPT !.booted = 0]
    /\ UNCHANGED host /\ JobKept

\* slurmd tells it again.
Registers ==
    /\ host.power = "on" /\ node.booted = 0
    /\ node' = [node EXCEPT !.booted = host.boots]
    /\ UNCHANGED <<host, events>> /\ JobKept

\* scontrol reboot ASAP [nextstate=RESUME]: the node drains first.
RebootAsked ==
    /\ Happens("reboot")
    /\ {"REBOOT_REQUESTED", "REBOOT_ISSUED", "DOWN"} \cap node.flags = {}
    /\ \E next \in BOOLEAN :
          node' = [node EXCEPT !.flags = @ \cup {"DRAIN", "REBOOT_REQUESTED"},
                               !.reason = IF @ = Blank THEN {"maint"} ELSE @, !.resume = next]
    /\ UNCHANGED host /\ JobKept

\* An idle node is told to reboot, and is DOWN while it does.
RebootIssued ==
    /\ "REBOOT_REQUESTED" \in node.flags
    /\ job = "none" /\ host.power = "on"
    /\ SetNode((node.flags \ {"REBOOT_REQUESTED"}) \cup {"REBOOT_ISSUED", "DOWN"}, node.reason)
    /\ host' = [host EXCEPT !.power = "off"]
    /\ UNCHANGED events /\ JobKept

\* It has missed ResumeTimeout: "reboot timed out".
RebootTimesOut ==
    /\ "REBOOT_ISSUED" \in node.flags
    /\ SetNode((node.flags \ {"REBOOT_ISSUED"}) \cup {"DOWN"}, {"words"})
    /\ UNCHANGED <<host, events>> /\ JobKept

\* A job starts: production work in batch, a burn-in on any node.
JobStarts ==
    /\ job = "none" /\ node.flags = {} /\ host.power = "on"
    /\ \/ /\ stage = "production" /\ Happens("job")
          /\ job' \in {"bounded", "unbounded"}
          /\ UNCHANGED started
       \/ /\ Happens("burnin")
          /\ job' = "burnin"
          /\ started' = host.boots
    /\ UNCHANGED <<host, node, stage, sent, history>>

\* A burn-in passes on a machine with nothing wrong.
JobEnds ==
    /\ job \in {"burnin", "bounded"} /\ host.power = "on"
    /\ UNCHANGED <<host, node, events>>
    /\ JobOver(host.wrong = {})

\* scancel
JobCancelled ==
    /\ job # "none" /\ host.power = "on"
    /\ UNCHANGED <<host, node, events>>
    /\ JobOver(FALSE)

Recorded ==
    /\ sent # <<>>
    /\ history' = Append(history, Head(sent))
    /\ sent' = Tail(sent)
    /\ UNCHANGED <<host, node, stage, job, started, events>>

-------------------------------------------------------------------------------
(* NHC, and the engineers. *)

\* What NHC writes of a machine: a lost GPU is a hardware matter.
NHCReason == {"nhc"} \cup (IF "gpu" \in host.wrong THEN {"hardware"} ELSE {})

NHCDrains ==
    /\ host.power = "on" /\ host.wrong # {}
    /\ {"DRAIN", "DOWN"} \cap node.flags = {}
    /\ SetNode(node.flags \cup {"DRAIN"}, NHCReason)
    /\ UNCHANGED <<host, events>> /\ JobKept

\* NHC resumes what it drained itself: the reason starts with "NHC:".
NHCResumes ==
    /\ host.power = "on" /\ host.wrong = {}
    /\ "DRAIN" \in node.flags /\ "nhc" \in node.reason /\ "triage" \notin node.reason
    /\ SetNode(node.flags \ {"DRAIN"}, node.reason)
    /\ UNCHANGED <<host, events>> /\ JobKept

\* What a resume makes of a node; it may or may not call a reboot off.
Resume ==
    \E pending \in SUBSET ({"REBOOT_REQUESTED", "REBOOT_ISSUED"} \cap node.flags) :
        SetNode(pending \cup (IF host.power = "on" THEN {} ELSE {"NOT_RESPONDING"}), node.reason)

\* An engineer drains, resumes or takes back a reboot by hand.
Scontrol ==
    /\ Happens("scontrol")
    /\ \/ \E r \in Reasons : SetNode(node.flags \cup {"DRAIN"}, r)
       \/ node.flags # {} /\ Resume
       \/ SetNode(node.flags \ {"REBOOT_REQUESTED"}, node.reason)
    /\ UNCHANGED host /\ JobKept

\* The stage is changed in the node table, and the partitions with it.
Promote ==
    /\ Happens("promote")
    /\ stage = "burnin"
    /\ stage' = "production"
    /\ UNCHANGED <<host, node, job, started, sent, history>>

Environment ==
    /\ \/ PowerLoss \/ Silence \/ Breaks \/ Repaired \/ Answers
       \/ Boots(TRUE) \/ Boots(FALSE)
       \/ Unanswered \/ SlurmdTimeout \/ SlurmctldRestarts \/ Registers \/ RebootAsked \/ RebootIssued \/ RebootTimesOut
       \/ JobStarts \/ JobEnds \/ JobCancelled \/ Recorded
       \/ NHCDrains \/ NHCResumes \/ Scontrol \/ Promote
    /\ HoldKept
    /\ UNCHANGED call

-------------------------------------------------------------------------------
(* Tool calls. *)

Begin(c, tool, force, reason) ==
    /\ call[c] = NoCall
    /\ IF tool = "triage" THEN UNCHANGED events ELSE Happens(tool)
    /\ call' = [call EXCEPT ![c] = [tool |-> tool, force |-> force, reason |-> reason,
                                    at |-> "nodes", n |-> NoView, booted |-> 0, held |-> FALSE,
                                    recorded |-> 0, h |-> Past(FALSE, 0, <<>>)]]
    /\ UNCHANGED <<machine, held>>

\* readSlurm: one call after another.
Reads(c, at, next) ==
    /\ call[c] # NoCall /\ call[c].at = at
    /\ UNCHANGED <<machine, held, events>>
    /\ call' = [call EXCEPT ![c] = next]

ReadNodes(c) ==
    Reads(c, "nodes", [call[c] EXCEPT !.at = "jobs", !.n = SlurmView(node, {}),
                                      !.booted = node.booted, !.held = held])

ReadJobs(c) ==
    Reads(c, "jobs", [call[c] EXCEPT !.at = "history", !.n.jobs = RunningJobs])

\* The history, or accounting that does not answer.
ReadHistory(c) ==
    \E read \in BOOLEAN :
        Reads(c, "history", [call[c] EXCEPT !.at = "done", !.recorded = Len(history),
                                            !.h = Past(read, call[c].booted, history)])

\* Mutant: the tool goes on with what it has.
SlurmFailsPartly(c) ==
    /\ call[c] # NoCall /\ call[c].at \in {"nodes", "jobs"}
    /\ call' = [call EXCEPT ![c].at = "done"]
    /\ UNCHANGED <<machine, held, events>>

\* The cluster does not answer: the node is in no snapshot, and the call over.
SlurmFails(c) ==
    /\ call[c] # NoCall /\ call[c].at \in {"nodes", "jobs"}
    /\ call' = [call EXCEPT ![c] = NoCall]
    /\ UNCHANGED <<machine, held, events>>

Read(c)   == call[c] # NoCall /\ call[c].at = "done"
Advice(c) == AssessSlurm(call[c].n, NoView, call[c].h)

\* Mutant: a reason that already names its tool is left as it is.
PrefixOnce(r) == IF "nhc" \in r THEN r ELSE r \cup {"triage"}

\* drainNode puts triage's prefix before the reason.
Prefixed(r) == r \cup {"triage"}

\* drainNode: the write is made whatever triage says of the node, and an error
\* may mean that it was not made.
DrainNode(c) ==
    /\ Read(c) /\ call[c].tool = "drain"
    /\ \/ /\ SetNode(node.flags \cup {"DRAIN"}, Prefixed(call[c].reason))
          /\ held' = ("hardware" \in call[c].reason)
       \/ UNCHANGED <<node, held>>
    /\ call' = [call EXCEPT ![c] = NoCall]
    /\ UNCHANGED <<host, events>> /\ JobKept

ResumeNode(c) ==
    /\ Read(c) /\ call[c].tool = "resume"
    /\ ResumeVerdict(Advice(c), call[c].force) = "done"
    /\ Resume
    /\ HoldKept
    /\ call' = [call EXCEPT ![c] = NoCall]
    /\ UNCHANGED <<host, events>> /\ JobKept

\* triage_node's answer, a refusal, or a resume that was not carried out.
Answer(c) ==
    /\ Read(c) /\ call[c].tool # "drain"
    /\ call' = [call EXCEPT ![c] = NoCall]
    /\ UNCHANGED <<machine, held, events>>

Tools ==
    \E c \in Callers :
        \/ Begin(c, "triage", FALSE, Blank)
        \/ \E r \in Reasons : Begin(c, "drain", FALSE, r)
        \/ \E f \in BOOLEAN : Begin(c, "resume", f, Blank)
        \/ ReadNodes(c) \/ ReadJobs(c) \/ ReadHistory(c) \/ SlurmFails(c)
        \/ DrainNode(c) \/ ResumeNode(c) \/ Answer(c)

Next == Environment \/ Tools

\* Slurm does what it is due to do and jobs with a limit end.  No engineer has
\* to act, and no machine to come back.
Fairness ==
    LET Does(A) == A /\ HoldKept /\ UNCHANGED call
    IN  /\ WF_vars(Does(Unanswered)) /\ WF_vars(Does(SlurmdTimeout))
        /\ WF_vars(Does(RebootIssued)) /\ WF_vars(Does(RebootTimesOut))
        /\ WF_vars(Does(JobEnds))

Spec == Init /\ [][Next]_vars /\ Fairness

-------------------------------------------------------------------------------
(* Properties *)

\* The variables stay in their types, and a snapshot that was read holds a view.
TypeOK ==
    /\ host.power \in {"on", "silent", "off"} /\ host.boots \in Nat
    /\ node.flags \subseteq NodeFlags
    /\ node.reason \subseteq Marks /\ node.booted \in {0, host.boots}
    /\ (node.flags = {} => node.reason = Blank)
    /\ job \in {"none", "burnin", "bounded", "unbounded"}
    /\ \A b \in {history[i] : i \in DOMAIN history} \cup {sent[i] : i \in DOMAIN sent} :
          b.began \in 1..b.ended /\ b.ended \in 1..host.boots
    /\ events \in 0..MaxEvents
    /\ \A c \in Callers : Read(c) => call[c].n # NoView /\ call[c].booted \in 0..host.boots

\* "burn_in until a burn-in job passes since the node last booted, then promote,
\* or escalate_hardware if it failed" (docs/drills.md:131): a call that answers
\* promote does so on the last burn-in accounting had, one that passed and ran
\* from start to end within one boot, and in the boot slurmctld reported or a
\* later one, although the rules only compare its end, and the node may crash,
\* reboot or have its burn-in cancelled before and between the reads.  When
\* slurmctld reports no boot, the sentence does not hold: the rules take a
\* burn-in from before the boot too (triage.go:638).
PromoteEarned ==
    \A c \in Callers : Read(c) /\ Advice(c).action = "promote" =>
        /\ call[c].recorded > 0
        /\ LET b == history[call[c].recorded]
           IN  /\ b.passed /\ b.began = b.ended
               /\ call[c].booted # 0 => b.began >= call[c].booted

\* "NHC never resumes a drain it didn't set", "take the drain over before the
\* repair" (triage.go: hardware): a hardware drain that drain_node made ends by
\* a forced resume_node, by one that read the node before it was made, by
\* somebody else's reason, or by the reboot an engineer asked to be followed by
\* a resume; never by the repair or by triage on its own.
HardwareDrainHeld ==
    [][held /\ ~held' =>
          \/ Scontrol
          \/ \E c \in Callers : DrainNode(c)
          \/ \E c \in Callers : ResumeNode(c) /\ (call[c].force \/ ~call[c].held)
          \/ Boots(TRUE) \/ RebootTimesOut]_vars

\* A reboot that was asked for and cannot be issued: nobody is told of it, as
\* REBOOT_REQUESTED is looked at before DOWN and NOT_RESPONDING.
DeadBeforeReboot == host.power # "on" /\ "REBOOT_REQUESTED" \in node.flags

\* "wait" that is only information ends with nobody acting on the node: a job
\* without a limit makes it a warning, and a node that does not come back from
\* its reboot is noticed.
WaitEnds ==
    LET Waits == AdviceNow.action = "wait" /\ AdviceNow.severity = "info"
    IN  Waits ~> (~Waits \/ DeadBeforeReboot)

===============================================================================
