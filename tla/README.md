# A verification project for slurm-k8s-lab

The repository runs a classic Slurm cluster, a Kubernetes cluster and a Slinky
(Slurm-on-Kubernetes) cluster, an MCP server that triages their nodes
(`triage/`), and drills that break the lab and check that server (`drills/`).
The TLA+ modules here model the parts of it that carry state or decide
something: how the server reads its sources, what its rules say, what it makes
of accounting, how its tools answer over several clusters, how its write tools
meet a cluster that goes on changing, and how the drill engine puts the lab back.
TLC checks them on small instances; TLAPS proves the most important properties
for every value of the constants (section 4).

Run `tlc -config X.cfg M` for a module M and one of its configurations, and
`tlapm M.tla` for a module M whose name ends in `Proofs`.

## 1. The system

### Components

| Component | State it keeps | Operations | Interacts with | Modelled in |
|---|---|---|---|---|
| MCP server, reading (`server.go`: `snapshot`, `readKube`, `readSlurm`) | one snapshot per tool call, in goroutines | read every source under a deadline, assemble | the three clients | `Snapshot`, `SourceReport` |
| MCP server, write tools (`drainNode`, `resumeNode`) | none between calls | snapshot, locate, assess, refuse or write | rules, clients | `SlinkyNode`, `ClassicNode`, `Fleet` |
| MCP server, read tools (`triage_node`, `triage_cluster`, `list_nodes`, `node_detail`) | none | assess, rank, count | rules | `Fleet` |
| Rules for Slurm nodes (`triage/triage.go`) | none | `Classify`, `assess`, incidents, failed jobs, burn-ins | Kubernetes rules, for Slinky nodes | `TriageRules`, `Accounting`, `ClassicNode` |
| Rules for Kubernetes nodes (`triage/kube.go`) | none | `assess`, `cordoned` | | `TriageRules`, `KubeObjects` |
| Rules for components that do not answer (`triage/unavailable.go`) | none | one recommendation per outage | Kubernetes rules | `Fleet` |
| Slurm client, REST client, Kubernetes client | none | reads that fail or hang, drain, resume, cordon patch | Slurm, Kubernetes | calls of `Snapshot`, writes and their answers in `Fleet`, `SlinkyNode`, `ClassicNode` |
| Host lists (`hostlist.go`) | none | `Expand` | Slurm client | `HostList` |
| Command line (`main.go`), fixtures | none | which sources there are, live or replayed | clients | `Setup` and `Succeeds` of `Fleet` |
| Drill engine (`engine.py`) | a `Run`: events, checks, decisions, cleanups | run a drill, clean up, wait for green, verdict | catalogue, lab, MCP server | `DrillEngine` |
| Drill catalogue (`catalog.py`) | none | 13 scripts | engine, lab | `DrillCatalog` (12) |
| Lab access (`lab.py`) | none | commands, `lab_problems` | Slurm, Kubernetes, Proxmox | `Green` and `Apply` of `DrillCatalog` |
| Slurm, Slinky operator, Kubernetes, NHC, engineers | the clusters | | everything | external actions of `SlinkyNode`, `ClassicNode`, `Accounting`, `Fleet`, `DrillEngine` |
| Ansible, GitOps, Terraform, scripts, demos, skill, docs | configuration and text | | | not modelled |

### What is hard in it

* **Concurrency inside a call.** One goroutine per source, a shared deadline
  each, answers in any order, hung calls (`server.go:258-317`).
* **Reads that are not one moment.** Nodes and jobs, or nodes and pods, are read
  by separate calls; decisions are made on them, and writes follow later
  (`server.go:319-356`, `590-615`).
* **Two controllers over one node.** A Slinky node has a Kubernetes side and a
  Slurm side; the operator copies between them, engineers and triage write to
  both, and the reason text is the only record of who owns a drain.
* **Partial failure.** Accounting, a cluster, or the Kubernetes API may be
  missing while the rest is still triaged; a write may take effect and be
  answered with an error.
* **Records that arrive late.** Jobs and node events reach slurmdbd one by one,
  behind a queue, and are read by two calls; the rules then relate them by time.
* **Names.** Every tool goes by a node's name; which cluster it means depends on
  which clusters can be read, and Slurm writes names as compressed lists.
* **Drills that stop anywhere.** An exception, a timeout or Ctrl-C at each step
  of 13 scripts; cleanups that fail, or that depend on each other's order.

### What makes each component correct

* Reading: every source is accounted for, accounting is all or nothing, views
  are linked whatever order they arrive in, one timeout bounds the call, and
  there is always an answer.
* Rules: a hardware reason stays one through triage's own prefix; advice to
  resume is advice the tool takes; `wait` is for what comes by itself.
* Write tools: no unforced resume of a node that has been marked for hardware
  all along; none at all, forced or not, of one the operator keeps drained; a
  drain taken over for hardware is not handed back; done means done.
* Accounting: one outage counts once, its casualties not again, planned
  maintenance never, and every job a healthy-looking node killed does.
* Read tools: no node of a configured source disappears unreported, and list,
  detail, triage of one and triage of all agree.
* Engine: a drill ends; its cleanups are registered before the faults; they put
  the lab back; PASS means that nothing is left.

The full list of hazards, with the lines where they bite and the properties
that cover them, is in `PROJECT.json`.

## 2. Modules

| Module | What it models |
|---|---|
| `SourceReport` | abstract: each source settles once; the answer says how each did |
| `Snapshot` | one tool call reading its sources: goroutines, calls, deadlines, assembly |
| `SnapshotProofs`, `TriageRulesProofs`, `AccountingProofs`, `SlinkyNodeProofs`, `ClassicNodeProofs`, `FleetProofs`, `DrillEngineProofs` | the proofs about the module of that name (section 4) |
| `DataLemmas` | induction over numbers as a fact about sets, and what it gives for folds and maxima; used by the proofs of `Accounting` and `Fleet` |
| `TriageRules` | the rules as functions, and `resume_node`'s refusals |
| `Accounting` | what accounting says of a classic node, late and in pieces, and what the rules count from it |
| `HostList` | Slurm host lists: how triage expands what Slurm writes |
| `KubeObjects` | pods, budgets, events, and what the rules see of them |
| `Fleet` | several clusters: the command's sources, the read tools' answers, writes and their replies. Composes with `TriageRules`, `KubeObjects`, `HostList` |
| `ClassicNode` | a classic node: machine, slurmctld, NHC, burn-ins, reboots, tool calls. Composes with `TriageRules` |
| `SlinkyNode` | a Slinky node: Kubernetes node, pod, Slurm node, operator, engineers, tool calls. Composes with `TriageRules` |
| `DrillCatalog` | the drills as scripts of effects on a lab |
| `DrillEngine` | the engine that runs them. Composes with `DrillCatalog` |
| `MCSnapshot`, `MCAccounting`, `MCFleet`, `MCClassicNode`, `MCSlinkyNode`, `MCDrillEngine` | the values TLC needs |

Definitions marked `Mutant:` in their comment are deliberately wrong variants
of the definition after them. They are in no specification; substituting one
makes the property it is paired with in `PROJECT.json` fail.

### Snapshot

`Call` is the entry of `handlers.snapshot`; `Answer` and `Fail` are the return of
the call a source's goroutine is in (`stage`); `Assemble` is the code after
`wg.Wait()`. `got` is the data the goroutine's result holds. `Fail` follows
`readKube` (any failure loses the source) and `readSlurm` (accounting may be
lost alone, and then both halves are dropped). `Explained` is `explain`: once the
context has expired the error is reported as the timeout. `RESTClient.History`
and `Events` return nothing without touching the network (`CannotFail`). Time is
a counter; a call whose context expired returns before more time passes.
Handlers share no mutable state, so one call at a time is enough.

### TriageRules

Free text is a set of marks: what the patterns in `categoryPatterns` can find in
it. `Classify` strips triage's prefix and tries the patterns in their order.
`AssessSlurm` and `AssessKube` are `assess` of each assessor: same tests, same
order, returning action, severity, category and whether there are preconditions
to confirm. Evidence, summaries, next steps and commands are left out. Counts
that come from accounting (`chronic`, `eats`) and the burn-in result are fields
of the accounting view `h`; `Accounting` and `ClassicNode` say how they come about.
KubeEventThreshold is the only policy number left.

### Accounting

State: the clock, the node and its job in slurmctld, slurmdbd's tables (`history`
of ended jobs, `events` of the node), and `pending`, the records slurmctld has not
got in yet, taken in order. `Take(f, s)` is what `readSlurm` gets when f pending
records are in by its history read and s by its events read; the properties
range over all such pairs (`Reads`). `Incidents`, `NodeFailJobs` and `Unexplained`
are the functions of the same names. `outTimes` and `downTimes` record what really
happened, from slurmctld's state and never from the records.

Two assumptions. `WindowAssumption`: the events window covers the history window
and the slack, as the defaults do (7 days, 24 hours); with `-history` longer
than `-events` an old job loses the event that explains it. `DrainingDeath`: the
state slurmctld logs when a draining node dies is taken to be DOWN; only events
whose state starts with DOWN explain a job. A tick is short enough to see one
change of the node.

A requested reboot is logged with state BOOT and its caller's reason. One whose
reason no pattern takes for maintenance counts as an incident, in the code and
here (`OutAt`), although `reboot()` calls all of them planned work.

### HostList and KubeObjects

Both are functions without state, used by `Fleet`. A host name is a prefix, a
sequence of digits and a suffix, because padding is what an expansion can get
wrong; it has up to three (`Digits`, `Decimal`). The upper half of `HostList` is
`Expand`; the lower half is how Slurm compresses a set of names, which is external:
a run of numbers that follow each other (`NextNumber`) from one that follows none
(`Starts`) to one that none follows (`Ends`), all in the width of the first. `KubeObjects` has `Workload`,
`Covers`, `workloadPods` and `kernelEvents`, and, external, what Kubernetes itself
does with a budget (`Selects`, `EvictionRefused`). `Label` is what a Go map answers:
"" for a label that a pod does not have, so a selector that asks for the empty
value covers pods that Kubernetes does not select. The instance has no such budget.

### Fleet

`Setup` is the part of `main` that decides which of the three sources exist and
whether they are live or replayed. `Unavailable`, `Locate`, `ListNodes`,
`NodeDetail`, `Assess` (triage_node) and `TriageCluster` are the handlers, as
functions of the state: they write nothing, and the invariants ask them in every
state. A snapshot is one step here; its reads are `Snapshot`'s. A write is
two steps, `Decide` (locate, assess, refuse) and `Write`, with anything in between.
`MayAnswer` and `MayApply` say what a source may answer and whether the write was
then carried out, at worst; `Succeeds` is what the client makes of the answer:
exit status, HTTP status, slurmrestd's errors array, the missing admin
token, or a recording fixture.

`UniqueNames` is an assumption about the lab, not a check in the code: a node name in
two clusters breaks `AnswersAgree`. A classic cluster called "slinky", which
`main.go:48` accepts, is in the model: `slurmSources` keeps the sources by name, so
both names then lead to the Slinky client (`SourceOf`). The run `fleet` has command
lines with two names, `v_cluster_name` has this one.

`NodeDetail` has the running jobs. `node_detail` itself lists every queued job that
names the node; the rules, and `AdviceShows`, only ask for those that run.

### ClassicNode

State: the machine (on, silent, off; its boots; what is broken), the node in
slurmctld, its stage, the job on it, burn-ins that ended and whether slurmdbd
has them, whether `drain_node` holds the node for hardware, and the calls. Time is
counted in boots, since the rules ask of a burn-in's end only whether it
lies before the node's BootTime; a burn-in killed by a crash ends when the node
registers again, in the new boot. slurmctld may not have the node's boot time
(`booted` 0: `SlurmctldRestarts`, until the node `Registers`): BootTime is then unset
(`slurm.go:48-53`), and `qualify` counts any burn-in of the past (`triage.go:638`), as
`BurnIn` does. `PromoteEarned` asks such a call for a burn-in that passed and ran within
one boot, and not for the boot it ran in: the "since the node last booted" of
`docs/drills.md:131` is what the code gives up there. A call reads nodes, jobs and history one after the
other, then runs the handler. `held` and the burn-in's first boot (`began`) are for
the properties only.

The environment follows `slurm.conf.j2` (`ReturnToService=1`, SlurmdTimeout,
`RebootProgram`, the partitions of each stage), the header of `nhc.conf.j2` (NHC resumes
what it drained, by the reason's prefix, and touches no other drain) and the
drills nhc-gpu-lost, node-death, maintenance-reboot and node-bringup. What a resume
does to a pending reboot is left open (`Resume`). INVALID_REG is left out.

### SlinkyNode

State: the Kubernetes node, the worker pod, the Slurm node, a job, and the tool
calls in flight. A call reads
Kubernetes (nodes, then pods with the budgets) and Slurm (nodes, then jobs) in any
interleaving, each of which may fail, and then runs the whole handler: locate,
assess, refuse or write. `since` records which facts have held at every moment
since the call began; the properties speak of those, because no snapshot can
know of a change made after it was read.

Slurm, the operator, Kubernetes and the engineers are not in the repository.
Their actions do what it records of them: `docs/classic-vs-slinky.md:28-36`
(cordon and drain, pod-protect, ReturnToService), `docs/drills.md:84-115`, the
results of the drills, `gitops/apps/slurm.yaml:29-35` (`ReturnToService: 2`).
A drain whose reason is not the operator's is left alone by it.

### DrillCatalog and DrillEngine

A drill is a sequence of steps: register a cleanup, run a command, wait for the
node, ask node-triage, check. A command is an effect on the lab (`Apply`): break
or repair something, put something there or take it away, resume, relabel or
retire a node. The lab's own actions (slurmd noticed missing, NHC, the operator,
namespace deletion, jobs that end) run between the steps. The engine's actions
are the steps, plus what may stop them: `TimesOut`, `Raises` (an exception or
Ctrl-C before or after the command took effect), `CleanupFails`, `Aborted` (a
second Ctrl-C, which nothing catches). `Green` is `lab_problems() == []`: it sees
what the schedulers report, not annotations, unnoticed faults or a node too many.

`maintenance-reboot` is left out: its cleanup resumes a node with a pending
reboot, and what Slurm does then is not recorded in the repository. Starting
with `--force` in a lab that is not green is left out; nothing is promised then.

## 3. Runs

| Run | Checks | Instance |
|---|---|---|
| `snapshot` | `TypeOK`, `EverySourceAccountedFor`, `AccountingAllOrNothing`, `CrossLinked`, `OneTimeoutAtMost`, `AlwaysAnswered`, `ReportsEverySource` | the lab's three sources, two Slinky nodes, SourceTimeout 2, clock to 5; 1,003 states |
| `slinky` | `TypeOK`, `ResumeAdviceAccepted`, `HardwareHeld`, `CordonDrainHeld`, `WaitEnds` | one call, 3 disruptions of 8 kinds, 2 reasons; 632 thousand states |
| `classic` | `TypeOK`, `PromoteEarned`, `HardwareDrainHeld`, `WaitEnds` | one call, 3 events of 12 kinds, both stages, 2 reasons; 367 thousand states |
| `accounting` | `TypeOK`, `CasualtiesExplained`, `EatenJobsCounted`, `IncidentsAreOutages` | 6 ticks, 3 changes of the node, one job, slurmdbd 2 records behind; 1.15 million states |
| `fleet` | `TypeOK`, `NoNodeLost`, `AnswersAgree`, `RankedAndCounted`, `BlameIsShared`, `BlockedDrainIsRefused`, `AdviceShows`, `RunningJobsSeen`, `DoneMeansDone` | 7 command lines, 5 nodes in 3 clusters, 6 pods, 2 budgets, 3 events; 153,916 states |
| `drills` | `TypeOK`, `PassLeavesNothing`, `CleanupFirst`, `PutBack`, `DrillEnds` | all 12 drills, following each other; 1.06 million states |
| `v_operator_drain`, `v_trouble_inherited`, `v_hardware_cordon`, `v_control_plane`, `v_cluster_name`, `v_put_back` | one claim each that the code does not keep | as above; with another threshold, another cluster name, or the one drill concerned |

**Bounds.** In `snapshot` the clock may run past the deadline (5 > 2), so that
`OneTimeoutAtMost` is not true by its bound, and there are enough ticks for one
source to hang after another answered. In `SlinkyNode`, `MaxDisruptions = 3`
bounds how many cordons, pod deletions, kubelet failures, disk failures, jobs,
manual state changes and tool calls happen in a behaviour; what follows from
them (the operator, the timeouts, evictions, repairs) is not bounded. Three is
a call, a change before it and another in the middle of it; with four (5.5
million states) the safety properties of `slinky` hold too. One caller is enough for the
properties: another caller's writes are among the changes `Scontrol` and
`KubectlCordon` make (with triage's annotation convention). Two drain reasons,
maintenance and hardware, are the two the rules treat apart.
In `Accounting` the code's ten minutes and one minute become one tick each, and its
windows 2 and 3 ticks, so that 6 ticks hold events inside, at and beyond the gap,
and jobs and events that leave their windows; three changes are two outages, or one
logged as three events. In `Fleet` three events are a change, a write's decision
and a change before the write, or two sources down and a change of the node under them.
The instance: its nodes are the least with two names of different
length (c9, c10), a Kubernetes node with the control plane, and one under the Slinky
node; its command lines have each source absent, live and replayed, with and
without writes and the admin token. In `ClassicNode` three events are enough for a
burn-in, a crash and a reset by hand, two burn-ins with different results, or a
fault, NHC's drain and the call that takes it over; recovery, repair, NHC and
slurmctld are not bounded.
In `DrillEngine` nothing is bounded: the scripts are finite, and drills
follow each other without limit.

**Deadlock.** Checked for `Snapshot` and `DrillEngine`. The others
may really stop: once their bounded events are used up and all has settled,
nothing is due.

**Fairness.** `Snapshot`: time passes, a call whose context has expired returns
(Go's contexts cancel the HTTP request or kill the command), the handler's code
runs. Nothing makes a source answer. `SlinkyNode`: the controllers (operator,
kubelet, slurmctld's timeout) act on what is due, jobs end (they have limits), and
engineers finish what they have under way on the Kubernetes side: a repair, a
kubelet, an uncordon. Nobody is assumed to touch the Slurm node or to call a tool, as
the advice under test is to wait. Strong fairness is nowhere assumed.
`ClassicNode`: slurmctld acts on its timeouts and on a reboot it can issue, and jobs
with a limit end (burn-in jobs have the partition's). No engineer acts and no
machine comes back. `Accounting` and `Fleet` check safety only.
`DrillEngine`: the engine runs on, waits time out, and the lab does what is due
when a fault is gone; nothing makes a fault be noticed in time, so that every
wait may time out.

### What the passing runs show

* No order of answers, failures and timeouts makes the server forget a source,
  blame the wrong component, keep half of the accounting or answer late.
* A hardware drain set through `drain_node`, or by an engineer, survives the race
  between `resume_node`'s reads and its write, as does the operator's drain of
  a cordoned node, even when the Kubernetes API does not answer.
* `triage_node` never recommends a resume that `resume_node` refuses, and never
  says `wait` about a node that does not come back.
* `promote` always rests on the last burn-in accounting had, one that ran whole in
  the boot slurmctld reported, if it did, or a later one, however crashes, cancelled burn-ins
  and late records fall between the reads.
* A hardware drain that `drain_node` made outlives the repair and NHC's next run,
  also when its caller copied NHC's own reason.
* On a classic node too, `wait` ends, or comes as a warning with a job that has no
  limit. One state is excepted (`DeadBeforeReboot`): a machine that is gone before
  the reboot someone asked for could be issued reads as `wait`.
* One outage is one incident whatever events it was logged as, and its casualties
  are explained even while slurmdbd is catching up between the two reads: the
  history must be read before the events, as it is.
* No source's failure hides a node without a report (the clusters having names of
  their own), makes two tools disagree,
  or lets `done=true` stand for a write that was not made.
* The jobs Slurm writes as a host list are those triage sees on each node.
* Whichever step of whichever drill stops, the registered cleanups undo what was
  done, in the two cases excepted below.

### What the violation runs show

Each checks one sentence of the repository. The sentences and the counterexamples
are quoted in `PROJECT.json`; in short:

* `OperatorDrainRefused`, `TroubleInherited`: the "Pod is terminating" rule comes
  before everything else, changes the category and does not look at the
  Kubernetes node, so the refusal and the inherited trouble are both lost for a
  node that is DOWN and DRAIN at once.
* `HardwareCordonHeld`: a hardware cordon of a Kubernetes node is not
  `escalate_hardware`, so `resume_node` lifts it without force.
* `BlameIsShared`, with `-kube-event-threshold` 5 (it holds with the default):
  the unreachable slurmrestd's recommendation assesses its node under the default
  policy, and tells the reader to fix a node that `triage_node` calls healthy.
* `NoNodeLost`, with `-cluster-name slinky` (it holds with any other name): the classic
  cluster and Slinky share one key in the map of sources, so Slinky is read twice and its
  nodes are listed twice, and the classic nodes are in no list while no source is
  reported as unavailable. The other properties of `fleet` hold with that name too.
* `PutBackEverywhere`: an interrupted `node-death` leaves slurm-c2 held DOWN.

Met on the way and not the subject of a run: a node whose BootTime is unset is promoted
on a burn-in from before its boot (`triage.go:638`, against `docs/drills.md:131`), a
state `classic` reaches and `PromoteEarned` excepts, because the repository does not
say when slurmctld has no boot time for a node in service; the comment at `triage.go:356-358`
says that Slinky runs `ReturnToService=0`, while `gitops/apps/slurm.yaml` sets 2;
`triage.Snapshot` is documented as taken at one instant and is read call by call;
`k8s-pdb-drain` annotates its node one line before it registers the annotation's
removal (`catalog.py:486`), so `CleanupFirst` leaves it out; `node-bringup` can
end PASS with slurm-c3 still in the cluster after its cleanup failed, so
`PassLeavesNothing` leaves it out; and `kubectl uncordon` leaves triage's annotation
behind for the next plain cordon to inherit.

## 4. Proofs

The proofs hold for every value of the constants that satisfies their
assumptions, so for any number of clusters, nodes, callers, reasons, boots and
events. Each state machine's theorems rest on one inductive invariant `IInv`, with a
lemma for each group of actions, and the properties follow from it.

### Snapshot

For any sets of clusters and REST clusters, with or without Kubernetes, any
placement of pods and any `SourceTimeout`:

| Theorem | Property |
|---|---|
| `TypeCorrect` | `TypeOK` |
| `OneTimeout` | `OneTimeoutAtMost` |
| `NoSourceLost` | `EverySourceAccountedFor` |
| `AccountingConsistent` | `AccountingAllOrNothing` |
| `LinksComplete` | `CrossLinked` |
| `Implements` | `ReportsEverySource`: `Snapshot` implements `SourceReport` |

Assumptions: `SourcesAssumption` (there is at least one source, and the Kubernetes
source is not one of the clusters) and `TimeAssumption` (a positive timeout and a
clock that may exceed it).

The safety properties speak of the reply alone and are not inductive. `IInv`
adds three things. `Progress`: before a goroutine's next call its data is exactly
that of the calls before it, and it has no error; once it has returned, it failed
whole, lost only its accounting, or holds everything (`Settled`). `Deadlines`: all
deadlines are the one set at the start, and the clock has not passed it, which
is why `Tick` keeps to one timeout. `Replied`: nothing changes between the
assembly and the reply. The theorems follow from `Settled` and from what `Assembled`
makes of it. For the refinement, `sourceStatus` maps a settled goroutine to full,
partial or missing, and `ReportStep` shows that each step settles one source,
answers, starts over or stutters.

### TriageRules

These need no invariant and no types: they hold of any view, so also of one put
together from reads made at different times, which is what a call has.

| Theorem | What it says |
|---|---|
| `KubeAdviceType`, `SlurmAdviceType` | the rules always give a recommendation of the known actions, severities and categories |
| `KubeResumeAccepted`, `SlurmResumeAccepted` | advice to resume is advice that `resume_node` takes unforced |
| `HardwareRefused`, `ReadonlyRefused` | a reason that says hardware, and a read-only filesystem, are refused unforced, whatever else was read |
| `ManagedRefused` | a Slinky node the operator drained is refused, forced or not, while its pod is not terminating |
| `PromoteNeedsPass` | promote needs accounting that was read, and a burn-in that passed |
| `KubeFaultsAddUp`, `SlurmFaultsAddUp` | a view of a Kubernetes node that shows more faults never makes calmer advice, for it or for the Slinky node on it |
| `AccountingAddsUp` | outside qualification, accounting that cannot be read only makes advice calmer: nothing is escalated or drained for the lack of it |

The lemmas under them are about the table of patterns: the first pattern that
matches decides (`FirstDecides`), so the operator's text comes before hardware
(`OperatorFirst`), and hardware before all the others (`HardwareNext`). The exception in
`ManagedRefused` is where `v_operator_drain` finds its violation. In the last three,
calmer (`NoCalmer`) is less severe, or to leave the node alone or put it back where the
other did not; more faults (`Graver`) are conditions, a Ready that is not True,
kernel warnings. The first two say it of a view that was read: without one the rules for
Slurm see no trouble. And the cordon must be the same: a cordoned node's kernel
warnings are not looked at, so that a cordon can make the advice calmer.

### Accounting

For any windows, slack and gap, any number of changes and jobs, and slurmdbd any
number of records behind:

| Theorem | Property |
|---|---|
| `TypeCorrect` | `TypeOK` |
| `CasualtiesAreExplained` | `CasualtiesExplained`, if `DrainingDeath` is DOWN |
| `EatenJobsAreCounted` | `EatenJobsCounted` |
| `IncidentsCountOutages` | `IncidentsAreOutages` |

Assumptions: `WindowAssumption` and the hypothesis on `DrainingDeath` (see Accounting above),
`GapAssumption` (a positive gap, as the code's constant is: with none, the
events of one outage would not be merged), `DeathAssumption` and `BoundAssumption` (the
types of the constants). A call reads the tables as they will be after some of the
pending records, so `IInv` speaks of every chain T, where T[k] is the tables once k
of them are in (`AllSound`). No induction over the records is needed: sending one
lengthens T at its end, taking one in shortens it at its beginning, and the
invariant follows T. Three parts carry the theorems. An event that has not ended
is the only one, and is the one the node is in (`Sound`, `OpenIs`), so closing events
closes the right one. A job that went with its node has the outage's event in
every T that has the job (`Casualties`), which needs the record of the outage to be sent
before the job's (`Lost`). A DOWN event lies within the times the node really was DOWN
(`Sound`), so that no event of another kind explains an eaten job.

`IncidentsCountOutages` needs more of the chain, `LogInv`: the events of each T
follow one another in time, the node is in the open one, and together the events that
count are the times the node really was out (`outTimes`), those not yet in
excepted. Then it is about data: `incidents` puts the events that
count in order, which exists (`SortedExists`, by induction over the time before which they start), and
the fold over them counts those that start more than the gap after the last end
(`CountIs`, by induction over the fold's steps). Each of these begins an
outage, and each outage begins with one of them, so there are as many
(`StartsAreOutages`).

### SlinkyNode

For any set of callers, any drain reasons and any number of disruptions:

| Theorem | Property |
|---|---|
| `TypeCorrect` | `TypeOK` |
| `ResumeAdviceTaken` | `ResumeAdviceAccepted` |
| `HardwareIsHeld` | `HardwareHeld` |
| `CordonDrainIsHeld` | `CordonDrainHeld` |

Assumption: `SlinkyAssumption` (no caller or engineer gives a reason in the operator's
words). A resume decides on reads that may lie in different states of the
cluster, so the properties do not follow from the state. `IInv` ties a call's views
to `since`, the facts that have held all the time since it began: such a fact held
when the node was read, so the view shows it (`Seen`), and then `TriageRulesProofs`
says that the resume is refused. `OneAuthor` is needed as well: a reason that says
hardware in the operator's words would be taken for the operator's, and no step
writes one.

### ClassicNode

For any set of callers, any reasons and any number of events and boots:

| Theorem | Property |
|---|---|
| `TypeCorrect` | `TypeOK` |
| `PromoteIsEarned` | `PromoteEarned` |
| `HardwareDrainIsHeld` | `HardwareDrainHeld` |

Assumptions: `ClassicAssumption` (reasons, as above) and `NoViewAssumption` (the value
that stands for no view is none). `PromoteEarned` relates two reads of one call to
what happened to the machine, so `IInv` says of the burn-in that runs that it
started in the machine's present boot, of those that have ended that one which
passed ran within one boot (`BurnIns`), and of a call that the burn-in it counts is
in a history that only grows, and ended no earlier than the boot of the node it
had read, if that had one (`HasRead`). `Held`: a hold is a drain in triage's words; this is why NHC,
which goes by its own prefix, does not lift it, and why a call that read the node
under the hold refuses (`HeldRefused`).

### Fleet

For any clusters and command lines, any pods and budgets and any number of events:

| Theorem | Property |
|---|---|
| `TypeCorrect` | `TypeOK` |
| `DoneIsDone` | `DoneMeansDone` |
| `NoNodeIsLost` | `NoNodeLost`, if no command line calls the classic cluster slinky |
| `AnswersAlwaysAgree` | `AnswersAgree` |
| `AdviceIsShown` | `AdviceShows` |
| `RanksAndCounts` | `RankedAndCounted` |
| `JobsAreSeen` | `RunningJobsSeen` |
| `BlameShared` | `BlameIsShared`, if the event threshold is the default one |
| `BlockIsReal` | `BlockedDrainIsRefused`, if no budget asks for a label with the empty value |

Assumptions: `UniqueNames` (see Fleet above), `FiniteAssumption`
(finitely many nodes), `HostAssumption` (jobs run on Slurm nodes, whose names have one
number of up to three digits), `PodAssumption` and `BudgetAssumption` (pods and budgets are what
Kubernetes calls so). `IInv` ties the write
in flight to the source that owns its node: sources fail and return between the
decision and the write, and what `locate` found then must still be the owner
(`LocateFinds`, over the order in which the clusters are read). `NoNodeIsLost` needs no
history, only what the lists are: `Lists(s, A)` says that s has each node of A once, in
its cluster, and no other; it holds of what each source contributes (`Listing`), of lists put one
after the other (`ListsJoined`), and so of `ListNodes` and the nodes of the sources
that answer. `AnswersAlwaysAgree` rests on another fact, that `list_nodes` lists exactly
what `locate` finds, in the cluster where it finds it (`LocateListed`), which also
holds when both clusters have one name. `AdviceIsShown` is about the states of the world in this model: Slurm
nodes in service or drained, and kernel warnings as the only events.

Two theorems are about data, for lists and sets of any size. `RanksAndCounts`:
what `Among` keeps of a list, and in how many places, is shown along the list
(`AmongKept`); the three severities put one after the other are then the
recommendations, ordered and none lost (`RankedIs`). `JobsAreSeen`: `Expand` undoes
what Slurm does to a set of host names (`ListStands`). That `%0*d` undoes `Atoi`
(`PaddedValue`, `ValuePadded`) and that a run keeps the width of its first number
(`WidthKept`) make a range stand for its run; each number is in a run that
starts somewhere (`RunsStart`) and ends somewhere (`RunEnds`), each by induction:
otherwise there would be a number below zero, or one of more than three digits.

The hypotheses of `NoNodeIsLost`, `BlameShared` and `BlockIsReal` are needed:
`v_cluster_name` is the run without the first, `v_control_plane` without the second, and a budget
that asks for the empty value covers every pod without the label, which
Kubernetes does not select.

### DrillEngine

For any set of the catalogue's drills, in any order and any number:

| Theorem | Property |
|---|---|
| `TypeCorrect` | `TypeOK` |
| `CleanupComesFirst` | `CleanupFirst` |
| `NothingIsLeft` | `PassLeavesNothing` |

Assumption: `DrillsAssumption` (the drills are in `REGISTRY`). The catalogue is
finite and the run `drills` has all of it, so what the proofs add to the run is the
reason: they rest on two conditions on a script, and on nothing else of the
catalogue. `Ordered`: before it breaks or puts something, a script registers the
cleanup for it. `Undone`: after that it undoes it itself, or leaves something that
`lab_problems` sees. `CatalogueOrdered` checks the first of every drill but
k8s-pdb-drain, `CatalogueUndone` the second of every drill but node-bringup; a
drill that is added has these two to meet. In `IInv`, `Progress` counts the
registered cleanups against the steps passed, also while they are run from the
last, and `Traced` says that what is broken or left of a drill that has not failed
is what its script has done before `pc` and not undone since (`Open`). At the end of
an `Undone` script nothing is open (`NothingOpen`), and the cleanups, which only undo,
keep it so: PASS does not depend on their work.

### Only model-checked

* Liveness (`AlwaysAnswered`, `WaitEnds`, `DrillEnds`, `PutBack`), which needs
  fairness and ENABLED.

Every invariant and every action property that a passing run checks is a theorem,
under the assumptions above. Induction over data, which the library offers only with
an operator as a parameter, is done with `DataLemmas`: `SetInduction` says it of a set
of numbers, by the pigeonhole principle, and `FoldExists` and `MaxOfPrefix` turn the folds
into functions that go step by step.

## 5. Plan

In the order of their worth:

1. `Snapshot`, `SourceReport`, `TriageRules`, `SlinkyNode`, `DrillCatalog`,
   `DrillEngine` and the proofs about `Snapshot`: done.
2. `Accounting`, `HostList`, `KubeObjects`, `Fleet`, `ClassicNode`: done.
3. Proofs about `TriageRules`, `Accounting`, `SlinkyNode`, `ClassicNode`, `Fleet` and
   `DrillEngine`, those about data with `DataLemmas`: done.
4. Open: Slurm host lists with two numbers in a name, which `Expand` does not read.

Left out for good: what text says (summaries, evidence, commands), HTTP, JSON and
command output, metrics and reports, Terraform, Ansible and GitOps as
configuration, demos. They keep no state a property could be about, or they
are programs of others.
