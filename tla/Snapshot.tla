-------------------------------- MODULE Snapshot --------------------------------
(***************************************************************************)
(* How the MCP server reads the clusters before it answers a tool call     *)
(* (triage/internal/server/server.go: snapshot, readKube, readSlurm,       *)
(* explain).  Every configured source is read by a goroutine of its own,   *)
(* a fixed sequence of calls under one deadline.  A source may answer,     *)
(* fail, or hang.  When all goroutines have returned, the reads are        *)
(* assembled into one snapshot and its list of unavailable components.     *)
(*                                                                         *)
(* One tool call is followed by the next: handlers share no mutable state, *)
(* so concurrent calls are independent copies of this one.                 *)
(***************************************************************************)
EXTENDS Naturals, FiniteSets

CONSTANTS
    Clusters,       \* configured Slurm clusters: "lab" and "slinky" in the code
    RESTClusters,   \* those read through slurmrestd, which runs no accounting
    Kube,           \* the Kubernetes source
    KubeConfigured, \* whether it is configured
    Pods,           \* Pods[c]: the nodes of c that run as pods on Kubernetes
    SourceTimeout,  \* Config.SourceTimeout, in ticks
    MaxClock        \* bound on the clock, above SourceTimeout

Sources == Clusters \cup (IF KubeConfigured THEN {Kube} ELSE {})

ASSUME SourcesAssumption ==
    /\ Kube \notin Clusters
    /\ RESTClusters \subseteq Clusters
    /\ KubeConfigured \in BOOLEAN
    /\ Sources # {}
    /\ DOMAIN Pods = Clusters

ASSUME TimeAssumption ==
    /\ SourceTimeout \in Nat \ {0}
    /\ MaxClock \in Nat
    /\ MaxClock > SourceTimeout

VARIABLES
    phase,    \* "idle", "reading", or "replied"
    clock,    \* time since the tool call began
    deadline, \* deadline[s]: when the context of s's goroutine expires
    stage,    \* stage[s]: the call s's goroutine is in, "done" once it returned
    got,      \* got[s]: the calls whose data s's result holds
    err,      \* err[s]: why the source could not be read, "none" if it could
    acctErr,  \* acctErr[s]: why only its accounting could not be read
    reply     \* the assembled snapshot

vars == <<phase, clock, deadline, stage, got, err, acctErr, reply>>

-------------------------------------------------------------------------------
(* The calls of one source, in order. *)

KubeCalls  == {"nodes", "pods", "node_events", "pdbs"}
SlurmCalls == {"nodes", "jobs", "history", "events"}
Stages     == KubeCalls \cup SlurmCalls \cup {"done"}

CallsOf(s) == IF s = Kube THEN KubeCalls ELSE SlurmCalls

\* readKube: nodes, pods, events, disruption budgets.
KubeNext == [nodes |-> "pods", pods |-> "node_events",
             node_events |-> "pdbs", pdbs |-> "done"]

\* readSlurm: nodes, jobs, then the two accounting reads.
SlurmNext == [nodes |-> "jobs", jobs |-> "history",
              history |-> "events", events |-> "done"]

\* Mutant: one sequence of calls for every source.
AfterAsKube(s, call) == KubeNext[call]

After(s, call) == IF s = Kube THEN KubeNext[call] ELSE SlurmNext[call]

\* Mutant: a cluster whose jobs cannot be read is triaged from its nodes alone.
AccountingAndJobs == {"jobs", "history", "events"}

\* The calls a cluster can be triaged without.
Accounting == {"history", "events"}

\* RESTClient.History and Events return nothing, at once and without an error.
CannotFail(s) == s \in RESTClusters /\ stage[s] \in Accounting

Errors == {"none", "failed", "timeout"}

\* explain: once the source's context has expired, the error is the timeout.
Explained(s) == IF clock >= deadline[s] THEN "timeout" ELSE "failed"

-------------------------------------------------------------------------------
(* What the loop after wg.Wait() makes of the reads. *)

\* schedulerComponent
Scheduler(s) == IF s = Kube THEN "kube-apiserver"
                ELSE IF s \in RESTClusters THEN "slurmrestd" ELSE "slurmctld"

Unavailable ==
    {[source |-> s, component |-> Scheduler(s), error |-> err[s]] :
        s \in {x \in Sources : err[x] # "none"}}
    \cup
    {[source |-> c, component |-> "slurmdbd", error |-> acctErr[c]] :
        c \in {x \in Clusters : err[x] = "none" /\ acctErr[x] # "none"}}

PodNames == UNION {Pods[c] : c \in Clusters}

\* Mutant: the loop stops, instead of going on, at a cluster that was not read.
LinksUntilFailure(readable) ==
    IF readable = Clusters THEN {l \in readable \X PodNames : l[2] \in Pods[l[1]]} ELSE {}

\* The SlurmNodeRefs put on the Kubernetes view: cluster and node.
Links(readable) == {l \in readable \X PodNames : l[2] \in Pods[l[1]]}

Assembled ==
    LET kube     == Kube \in Sources /\ err[Kube] = "none"
        readable == {c \in Clusters : err[c] = "none"}
    IN  [kube            |-> kube,
         triaged         |-> readable,
         unavailable     |-> Unavailable,
         accountingError |-> {c \in readable : acctErr[c] # "none"},
         \* the data each snapshot carries, and whether it points at the
         \* Kubernetes view
         data            |-> [c \in readable |-> got[c]],
         seesKube        |-> {c \in readable : kube},
         \* Slinky nodes listed on the Kubernetes view
         links           |-> IF kube THEN Links(readable) ELSE {}]

NoReply == [kube |-> FALSE, triaged |-> {}, unavailable |-> {}, accountingError |-> {},
            data |-> [c \in {} |-> {}], seesKube |-> {}, links |-> {}]

-------------------------------------------------------------------------------
Init ==
    /\ phase = "idle"
    /\ clock = 0
    /\ deadline = [s \in Sources |-> 0]
    /\ stage = [s \in Sources |-> "done"]
    /\ got = [s \in Sources |-> {}]
    /\ err = [s \in Sources |-> "none"]
    /\ acctErr = [s \in Sources |-> "none"]
    /\ reply = NoReply

\* A tool call: one goroutine per source, each with its own timeout.
Call ==
    /\ phase \in {"idle", "replied"}
    /\ phase' = "reading"
    /\ clock' = 0
    /\ deadline' = [s \in Sources |-> SourceTimeout]
    /\ stage' = [s \in Sources |-> "nodes"]
    /\ got' = [s \in Sources |-> {}]
    /\ err' = [s \in Sources |-> "none"]
    /\ acctErr' = [s \in Sources |-> "none"]
    /\ reply' = NoReply

Running(s) == phase = "reading" /\ stage[s] # "done"

\* Mutant: every call has a timeout of its own.
AnswerWithFreshTimeout(s) ==
    /\ Running(s)
    /\ clock < deadline[s] \/ CannotFail(s)
    /\ got' = [got EXCEPT ![s] = @ \cup {stage[s]}]
    /\ stage' = [stage EXCEPT ![s] = After(s, @)]
    /\ deadline' = [deadline EXCEPT ![s] = clock + SourceTimeout]
    /\ UNCHANGED <<phase, clock, err, acctErr, reply>>

\* The call in flight returns data; it can only do so before the deadline.
Answer(s) ==
    /\ Running(s)
    /\ clock < deadline[s] \/ CannotFail(s)
    /\ got' = [got EXCEPT ![s] = @ \cup {stage[s]}]
    /\ stage' = [stage EXCEPT ![s] = After(s, @)]
    /\ UNCHANGED <<phase, clock, deadline, err, acctErr, reply>>

\* Mutant: the job history read before the node events failed is kept.
KeptAll(s) == got[s]

\* What a cluster's snapshot keeps when an accounting call fails.
Kept(s) == got[s] \ {"history"}

\* The call in flight returns an error.  Without nodes or jobs (for Kubernetes,
\* without any of its calls) the source is not read at all.
Fail(s) ==
    /\ Running(s)
    /\ ~CannotFail(s)
    /\ stage' = [stage EXCEPT ![s] = "done"]
    /\ IF s # Kube /\ stage[s] \in Accounting
       THEN /\ acctErr' = [acctErr EXCEPT ![s] = Explained(s)]
            /\ got' = [got EXCEPT ![s] = Kept(s)]
            /\ UNCHANGED err
       ELSE /\ err' = [err EXCEPT ![s] = Explained(s)]
            /\ got' = [got EXCEPT ![s] = {}]
            /\ UNCHANGED acctErr
    /\ UNCHANGED <<phase, clock, deadline, reply>>

\* Time passes while calls are in flight.  An expired context makes its call
\* return before more time passes.
Tick ==
    /\ clock < MaxClock
    /\ \E s \in Sources : Running(s)
    /\ \A s \in Sources : Running(s) => clock < deadline[s]
    /\ clock' = clock + 1
    /\ UNCHANGED <<phase, deadline, stage, got, err, acctErr, reply>>

\* Mutant: the Kubernetes goroutine is not waited for.
AssembleWithoutKube ==
    /\ phase = "reading"
    /\ \A c \in Clusters : stage[c] = "done"
    /\ phase' = "replied"
    /\ reply' = Assembled
    /\ UNCHANGED <<clock, deadline, stage, got, err, acctErr>>

\* wg.Wait() returns once every goroutine has.
Assemble ==
    /\ phase = "reading"
    /\ \A s \in Sources : stage[s] = "done"
    /\ phase' = "replied"
    /\ reply' = Assembled
    /\ UNCHANGED <<clock, deadline, stage, got, err, acctErr>>

Next ==
    \/ Call
    \/ \E s \in Sources : Answer(s)
    \/ \E s \in Sources : Fail(s)
    \/ Tick
    \/ Assemble

\* Mutant: the accounting calls ignore the context.
ExpireEssential(s) == clock >= deadline[s] /\ stage[s] \notin Accounting /\ Fail(s)

\* A call past its deadline returns, and so do the reads that cannot hang.
Expire(s) == clock >= deadline[s] /\ Fail(s)
Return(s) == CannotFail(s) /\ Answer(s)

\* Time passes and the handler runs on.  Nothing makes a source answer, and
\* nobody has to make another tool call.
Fairness ==
    /\ WF_vars(Tick)
    /\ \A s \in Sources : WF_vars(Expire(s)) /\ WF_vars(Return(s))
    /\ WF_vars(Assemble)

Spec == Init /\ [][Next]_vars /\ Fairness

-------------------------------------------------------------------------------
(* Properties *)

Components == {"kube-apiserver", "slurmrestd", "slurmctld", "slurmdbd"}

\* The variables stay in their types.
TypeOK ==
    /\ phase \in {"idle", "reading", "replied"}
    /\ clock \in 0..MaxClock
    /\ deadline \in [Sources -> Nat]
    /\ stage \in [Sources -> Stages]
    /\ \A s \in Sources : stage[s] \in CallsOf(s) \cup {"done"}
    /\ got \in [Sources -> SUBSET (KubeCalls \cup SlurmCalls)]
    /\ err \in [Sources -> Errors]
    /\ acctErr \in [Sources -> Errors]

\* An answer leaves no source out, and blames none for another's failure: a
\* source is listed as unavailable exactly when its own essential reads failed,
\* is triaged otherwise, and what is listed carries that source's own error.
EverySourceAccountedFor ==
    phase = "replied" =>
        /\ reply.triaged = {c \in Clusters : {"nodes", "jobs"} \subseteq got[c]}
        /\ reply.kube <=> (KubeConfigured /\ got[Kube] = KubeCalls)
        /\ \A s \in Sources :
              LET listed == {u \in reply.unavailable :
                                u.source = s /\ u.component = Scheduler(s)}
              IN  IF s \in reply.triaged \/ (s = Kube /\ reply.kube)
                  THEN listed = {}
                  ELSE \E e \in Errors \ {"none"} :
                          listed = {[source |-> s, component |-> Scheduler(s), error |-> e]}

\* "Accounting is all or nothing, so evidence stays consistent" (readSlurm): a
\* triaged cluster has job history and node events both, or neither and then
\* says so, in its snapshot and in the list of unavailable components.
AccountingAllOrNothing ==
    phase = "replied" =>
        \A c \in reply.triaged :
            LET partial == c \in reply.accountingError
                listed  == \E u \in reply.unavailable : u.source = c /\ u.component = "slurmdbd"
            IN  /\ reply.data[c] \cap Accounting = (IF partial THEN {} ELSE Accounting)
                /\ listed <=> partial

\* Whatever order the sources answer in, every Slinky node of a cluster that
\* was read is linked to the Kubernetes view if that was read, and the cluster's
\* rules see that view; there are no links to a view that was not read.
CrossLinked ==
    phase = "replied" =>
        IF reply.kube
        THEN /\ reply.seesKube = reply.triaged
             /\ \A c \in reply.triaged : \A n \in Pods[c] : <<c, n>> \in reply.links
        ELSE reply.seesKube = {} /\ reply.links = {}

\* "A dead controller costs this much at most" (Config.SourceTimeout): however
\* many calls hang, reading takes no longer than one SourceTimeout.
OneTimeoutAtMost == clock <= SourceTimeout

\* A tool call whose sources hang is still answered.
AlwaysAnswered == phase = "reading" ~> phase = "replied"

\* What a caller may count on, stated without goroutines, calls or clocks.
statusOf(s) ==
    IF phase = "idle" THEN "unread"
    ELSE IF stage[s] # "done" THEN "unread"
    ELSE IF err[s] # "none" THEN "missing"
    ELSE IF acctErr[s] # "none" THEN "partial" ELSE "full"

saidOf(s) ==
    IF s \notin reply.triaged /\ ~(s = Kube /\ reply.kube) THEN "missing"
    ELSE IF s \in reply.accountingError THEN "partial" ELSE "full"

sourceStatus == [s \in Sources |-> statusOf(s)]
sourceReport == IF phase = "replied" THEN [s \in Sources |-> saidOf(s)]
                ELSE [s \in {} |-> "full"]

Report == INSTANCE SourceReport WITH
    Sources <- Sources, status <- sourceStatus, report <- sourceReport

\* Reading and assembling implements the report: each source settles once, and
\* the answer says of each exactly how it settled, after all of them have.
ReportsEverySource == Report!Spec

===============================================================================
