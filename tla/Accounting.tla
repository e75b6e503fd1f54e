------------------------------- MODULE Accounting -------------------------------
(***************************************************************************)
(* What triage makes of accounting: a classic node that leaves service and *)
(* returns, the records slurmctld sends about it, the tables of slurmdbd   *)
(* that hold them, and a triage call that reads the tables one after the   *)
(* other and counts incidents and failed jobs.                             *)
(*                                                                         *)
(* The code under check is incidents, unexplained and nodeFailJobs         *)
(* (triage/triage.go) and the order of the reads (readSlurm in server.go). *)
(* outTimes and downTimes record what really happened to the node.         *)
(***************************************************************************)
EXTENDS TriageRules, SequencesExt

CONSTANTS
    IncidentGap,      \* incidentGap, in ticks of the clock
    CasualtySlack,    \* how far from a DOWN event a failed job may end to belong to it
    HistoryWindow,    \* Config.HistoryWindow
    EventWindow,      \* Config.EventWindow
    DrainingDeath,    \* the state slurmctld logs when a draining node dies
    MaxTime,          \* bound: the clock's last value
    MaxChanges,       \* bound: how often the node leaves service or changes its reason
    MaxJobs,          \* bound: jobs started
    MaxPending        \* bound: records slurmdbd is behind

ASSUME GapAssumption == IncidentGap \in Nat \ {0} /\ CasualtySlack \in Nat
\* The events that explain a job are still read when the job is.
ASSUME WindowAssumption ==
    HistoryWindow \in Nat /\ EventWindow \in Nat /\ HistoryWindow + CasualtySlack <= EventWindow
ASSUME DeathAssumption == DrainingDeath \in {"DRAIN", "DOWN"}
ASSUME BoundAssumption == MaxTime \in Nat

Open == -1   \* Event.End is zero: the event has not ended

VARIABLES
    clock,
    node,        \* [state, reason, since] in slurmctld
    job,         \* [state, since]: "none", "running", or "lost" with its node
    tables,      \* what slurmdbd holds: [history, events]
    pending,     \* the records slurmctld has not got into slurmdbd yet, oldest first
    outTimes,    \* when the node was out of service and not for maintenance
    downTimes,   \* when it was DOWN
    changes, jobs

truth == <<outTimes, downTimes>>
vars  == <<clock, node, job, tables, pending, outTimes, downTimes, changes, jobs>>

NoJob == [state |-> "none", since |-> 0]

-------------------------------------------------------------------------------
(* The counting (triage.go). *)

Later(a, b) == IF b > a THEN b ELSE a

EndOf(e) == IF e.end = Open THEN e.start ELSE e.end

\* Mutant: only an event's start counts towards the gap.
CountEventFromStart(acc, e) ==
    [n    |-> IF acc.n = 0 \/ e.start - acc.last > IncidentGap THEN acc.n + 1 ELSE acc.n,
     last |-> Later(acc.last, e.start)]

CountEvent(acc, e) ==
    [n    |-> IF acc.n = 0 \/ e.start - acc.last > IncidentGap THEN acc.n + 1 ELSE acc.n,
     last |-> Later(acc.last, EndOf(e))]

\* slices.SortFunc: the events, one after the other, by start.
ByStart(evs) ==
    CHOOSE s \in Bijection(1..Cardinality(evs), evs) :
       \A i, j \in DOMAIN s : i < j => s[i].start <= s[j].start

Counted(evs) == {e \in evs : Classify(e.reason) # "maintenance"}

\* incidents: the node's events by start, maintenance left out; a new incident
\* when one starts later than the gap after all that came before.
Incidents(evs) == FoldLeft(CountEvent, [n |-> 0, last |-> 0], ByStart(Counted(evs))).n

\* nodeFailJobs: Slurm names the node that failed, or names none.
NodeFailJobs(hist) == {j \in hist : j.state = "NODE_FAIL" /\ j.failed \in {"this", ""}}

\* Mutant: any event explains a failed job, also a drain.
ExplainedByAny(j, e) == j.end >= e.start - CasualtySlack /\ j.end <= EndOf(e) + CasualtySlack

Explains(j, e) ==
    /\ e.state = "DOWN"
    /\ j.end >= e.start - CasualtySlack
    /\ j.end <= EndOf(e) + CasualtySlack

\* unexplained
Unexplained(hist, evs) == {j \in NodeFailJobs(hist) : ~\E e \in evs : Explains(j, e)}

-------------------------------------------------------------------------------
(* slurmdbd and the records slurmctld sends it, in order. *)

\* A record of the node leaving service, or returning, ends the event before.
CloseEvent(evs, at) == {IF e.end = Open THEN [e EXCEPT !.end = at] ELSE e : e \in evs}

\* Mutant: an event stays open when the next one starts.
RecordKeepsOpen(t, r) ==
    CASE r.kind = "job"     -> [t EXCEPT !.history = @ \cup {r.job}]
      [] r.kind = "returns" -> [t EXCEPT !.events = CloseEvent(@, r.at)]
      [] r.kind = "leaves"  -> [t EXCEPT !.events = @ \cup
             {[start |-> r.at, end |-> Open, state |-> r.state, reason |-> r.reason]}]

Record(t, r) ==
    CASE r.kind = "job"     -> [t EXCEPT !.history = @ \cup {r.job}]
      [] r.kind = "returns" -> [t EXCEPT !.events = CloseEvent(@, r.at)]
      [] r.kind = "leaves"  -> [t EXCEPT !.events = CloseEvent(@, r.at) \cup
             {[start |-> r.at, end |-> Open, state |-> r.state, reason |-> r.reason]}]

\* The tables once the first i pending records are in.
TablesAfter(i) ==
    LET T[k \in 0..Len(pending)] == IF k = 0 THEN tables ELSE Record(T[k - 1], pending[k])
    IN  T[i]

Send(r) == Len(pending) < MaxPending /\ pending' = Append(pending, r)

\* What sacct and sacctmgr return of the tables: what is in the window.
History(t) == {j \in t.history : j.end >= clock - HistoryWindow}
Events(t)  == {e \in t.events : e.end = Open \/ e.end >= clock - EventWindow}

Init ==
    /\ clock = 0
    /\ node = [state |-> "UP", reason |-> Blank, since |-> 0]
    /\ job = NoJob
    /\ tables = [history |-> {}, events |-> {}] /\ pending = <<>>
    /\ outTimes = {} /\ downTimes = {}
    /\ changes = 0 /\ jobs = 0

OutAt(n, t)  == IF n.state # "UP" /\ Classify(n.reason) # "maintenance" THEN {t} ELSE {}
DownAt(n, t) == IF n.state = "DOWN" THEN {t} ELSE {}

\* A minute passes.  A lost job is ended within the slack.
Tick ==
    /\ clock < MaxTime
    /\ job.state = "lost" => clock < job.since + CasualtySlack
    /\ clock' = clock + 1
    /\ outTimes' = outTimes \cup OutAt(node, clock')
    /\ downTimes' = downTimes \cup DownAt(node, clock')
    /\ UNCHANGED <<node, job, tables, pending, changes, jobs>>

-------------------------------------------------------------------------------
(* slurmctld: the node and its jobs. *)

\* The node leaves service, or is out of it in another way.  A tick is short: it
\* sees one change of the node at most.
Leaves(state, reason) ==
    /\ changes < MaxChanges /\ node.since < clock
    /\ changes' = changes + 1
    /\ node' = [state |-> state, reason |-> reason, since |-> clock]
    /\ Send([kind |-> "leaves", at |-> clock, state |-> state, reason |-> reason])
    /\ outTimes' = outTimes \cup OutAt(node', clock)
    /\ downTimes' = downTimes \cup DownAt(node', clock)
    /\ UNCHANGED <<clock, tables, jobs>>

\* Slurmd is not heard of any more.  A reason that is set stays.
NodeDies ==
    /\ node.state \in {"UP", "DRAIN"}
    /\ Leaves(IF node.state = "DRAIN" THEN DrainingDeath ELSE "DOWN",
              IF node.reason = Blank THEN {"not_responding"} ELSE node.reason)
    /\ job' = IF job.state = "running" THEN [state |-> "lost", since |-> clock] ELSE job

\* It is back, and slurmctld holds it DOWN for having rebooted by itself.
RebootNoticed ==
    /\ node.state = "DOWN" /\ node.reason = {"not_responding"}
    /\ Leaves("DOWN", {"rebooted"})
    /\ UNCHANGED job

\* A drain, or another reason for the one there is.
Drained ==
    /\ node.state \in {"UP", "DRAIN"}
    /\ \E r \in {{"nhc"}, {"maint"}, {"triage", "hardware"}} :
          node.reason # r /\ Leaves("DRAIN", r)
    /\ UNCHANGED job

\* scontrol reboot of an idle node: the event has what its caller gave as the
\* reason.
RebootAsked ==
    /\ node.state \in {"UP", "DRAIN"} /\ job.state = "none"
    /\ \E r \in {{"maint"}, {"words"}} : Leaves("BOOT", r)
    /\ UNCHANGED job

Returns ==
    /\ node.state # "UP" /\ node.since < clock
    /\ node' = [state |-> "UP", reason |-> Blank, since |-> clock]
    /\ Send([kind |-> "returns", at |-> clock])
    /\ UNCHANGED <<clock, job, tables, truth, changes, jobs>>

JobStarts ==
    /\ node.state = "UP" /\ job.state = "none" /\ jobs < MaxJobs
    /\ job' = [state |-> "running", since |-> clock]
    /\ jobs' = jobs + 1
    /\ UNCHANGED <<clock, node, tables, pending, truth, changes>>

JobEnds(state, failed, cause) ==
    /\ job' = NoJob
    /\ Send([kind |-> "job", at |-> clock,
                               job |-> [end |-> clock, state |-> state,
                                        failed |-> failed, cause |-> cause]])
    /\ UNCHANGED <<clock, node, tables, truth, changes, jobs>>

\* The job its node took with it.
JobLost == job.state = "lost" /\ \E f \in {"this", ""} : JobEnds("NODE_FAIL", f, "outage")

\* A job that ends well, one that fails on a node that goes on, and one that
\* another of its nodes takes down.
JobDone  == job.state = "running" /\ JobEnds("COMPLETED", "", "done")
JobEaten == job.state = "running" /\ \E f \in {"this", ""} : JobEnds("NODE_FAIL", f, "eaten")
JobElsewhere == job.state = "running" /\ JobEnds("NODE_FAIL", "other", "elsewhere")

-------------------------------------------------------------------------------
(* The triage call: readSlurm reads the jobs, then the events, and slurmdbd *)
(* may take more records in between.  It is over within the minute.         *)

SlurmdbdTakes ==
    /\ pending # <<>>
    /\ tables' = Record(tables, Head(pending))
    /\ pending' = Tail(pending)
    /\ UNCHANGED <<clock, node, job, truth, changes, jobs>>

\* Mutant: the events are read first.
TakeEventsFirst(first, second) ==
    [history |-> History(TablesAfter(second)), events |-> Events(TablesAfter(first))]

\* What a call has when first records are in by its first answer, and second by
\* its second.
Take(first, second) ==
    [history |-> History(TablesAfter(first)), events |-> Events(TablesAfter(second))]

Reads == UNION {{Take(f, s) : s \in f..Len(pending)} : f \in 0..Len(pending)}

Next ==
    \/ Tick
    \/ NodeDies \/ RebootNoticed \/ Drained \/ RebootAsked \/ Returns
    \/ SlurmdbdTakes
    \/ JobStarts \/ JobLost \/ JobDone \/ JobEaten \/ JobElsewhere

Spec == Init /\ [][Next]_vars

-------------------------------------------------------------------------------
(* Properties *)

\* The variables stay in their types.
TypeOK ==
    /\ clock \in 0..MaxTime
    /\ node \in [state : {"UP", "DRAIN", "DOWN", "BOOT"}, reason : SUBSET Marks,
              since : 0..MaxTime]
    /\ job \in [state : {"none", "running", "lost"}, since : 0..MaxTime]
    /\ \A e \in tables.events : e.start \in 0..clock /\ e.end \in {Open} \cup e.start..clock
    /\ \A i \in DOMAIN pending : pending[i].at \in 0..clock
    /\ Cardinality({e \in tables.events : e.end = Open}) <= 1
    /\ outTimes \subseteq 0..clock /\ downTimes \subseteq 0..clock

\* unexplained "drops NODE_FAIL jobs that ended as this node went DOWN"
\* (triage.go:746): a job its node took down is never held against the node
\* again, however far slurmdbd is behind and whatever it is told between the two
\* reads.
CasualtiesExplained ==
    \A r \in Reads : \A j \in Unexplained(r.history, r.events) : j.cause # "outage"

\* "The NODE_FAIL rule is for a node that keeps killing jobs while it looks
\* healthy" (triage.go:748): each job the node failed while it had not been DOWN,
\* nor would be, within the slack counts; a job another node failed never does.
EatenJobsCounted ==
    \A r \in Reads :
        LET counted    == Unexplained(r.history, r.events)
            healthy(j) == \A t \in downTimes : t < j.end - CasualtySlack
                                               \/ t > j.end + CasualtySlack
        IN  \A j \in r.history : /\ j.cause = "elsewhere" => j \notin counted
                                 /\ j.cause = "eaten" /\ healthy(j) => j \in counted

\* How many times the node was out of service and not for maintenance, when
\* times no further apart than the gap are one.
Outages(times) == Cardinality({t \in times : \A u \in times : u < t => t - u > IncidentGap})

\* "One outage often logs several events, and planned maintenance isn't a
\* failure" (triage.go:784): once slurmdbd has caught up, the incidents counted
\* are the outages there were, whatever events they were logged as.
IncidentsAreOutages ==
    Incidents(Events(TablesAfter(Len(pending)))) = Outages({t \in outTimes : t >= clock - EventWindow})

===============================================================================
