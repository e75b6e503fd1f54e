----------------------------- MODULE SnapshotProofs -----------------------------
(***************************************************************************)
(* Proofs about Snapshot for any set of clusters, any placement of pods    *)
(* and any timeout.  The inductive invariant IInv says, for each source,   *)
(* which data its goroutine holds at each point of its sequence of calls   *)
(* (Progress), that every deadline is the one set when the call began      *)
(* (Deadlines), and that a reply is what the reads assemble to (Replied).  *)
(***************************************************************************)
EXTENDS Snapshot, TLAPS

\* The data held when a call is about to be made.
BeforeKube  == [nodes |-> {}, pods |-> {"nodes"}, node_events |-> {"nodes", "pods"},
                pdbs |-> {"nodes", "pods", "node_events"}]
BeforeSlurm == [nodes |-> {}, jobs |-> {"nodes"}, history |-> {"nodes", "jobs"},
                events |-> {"nodes", "jobs", "history"}]
Before(s)   == IF s = Kube THEN BeforeKube[stage[s]] ELSE BeforeSlurm[stage[s]]

Settled(s) ==
    \/ err[s] # "none" /\ acctErr[s] = "none" /\ got[s] = {}
    \/ err[s] = "none" /\ acctErr[s] = "none" /\ got[s] = CallsOf(s)
    \/ s # Kube /\ err[s] = "none" /\ acctErr[s] # "none" /\ got[s] = {"nodes", "jobs"}

Progress ==
    \A s \in Sources :
        /\ stage[s] # "done" =>
              err[s] = "none" /\ acctErr[s] = "none" /\ got[s] = Before(s)
        /\ phase # "idle" /\ stage[s] = "done" => Settled(s)

Deadlines ==
    /\ clock <= SourceTimeout
    /\ phase # "idle" => \A s \in Sources : deadline[s] = SourceTimeout

Replied ==
    /\ phase # "reading" => \A s \in Sources : stage[s] = "done"
    /\ phase = "replied" => reply = Assembled

IInv == TypeOK /\ Progress /\ Deadlines /\ Replied

-------------------------------------------------------------------------------
\* The inductive invariant holds before the first call.
LEMMA InitIInv == Init => IInv
  <1> SUFFICES ASSUME Init PROVE IInv
    OBVIOUS
  <1> USE DEF Init
  <1>1. TypeOK
    BY TimeAssumption DEF TypeOK, Errors, Stages
  <1>2. Progress /\ Deadlines /\ Replied
    BY TimeAssumption DEF Progress, Deadlines, Replied
  <1> QED
    BY <1>1, <1>2 DEF IInv

\* A new call starts every source afresh, with a deadline ahead of the clock.
LEMMA CallStep == IInv /\ Call => IInv'
  <1> SUFFICES ASSUME IInv, Call PROVE IInv'
    OBVIOUS
  <1> USE DEF Call
  <1>1. TypeOK'
    BY TimeAssumption DEF TypeOK, Errors, Stages, CallsOf, KubeCalls, SlurmCalls
  <1>2. Progress'
    BY DEF Progress, Before, BeforeKube, BeforeSlurm
  <1>3. Deadlines' /\ Replied'
    BY TimeAssumption DEF Deadlines, Replied
  <1> QED
    BY <1>1, <1>2, <1>3 DEF IInv

\* A call that returns data moves its goroutine to the next one.
LEMMA AnswerStep ==
    ASSUME IInv, NEW s \in Sources, Answer(s)
    PROVE  IInv'
  <1> USE DEF Answer, Running
  <1>1. TypeOK'
    BY DEF IInv, TypeOK, After, KubeNext, SlurmNext, CallsOf, KubeCalls, SlurmCalls, Stages
  <1>2. Progress'
    <2> SUFFICES ASSUME NEW t \in Sources
                 PROVE  /\ stage'[t] # "done" =>
                              err'[t] = "none" /\ acctErr'[t] = "none" /\ got'[t] = Before(t)'
                        /\ phase' # "idle" /\ stage'[t] = "done" => Settled(t)'
      BY DEF Progress
    <2>1. CASE t # s
      BY <2>1 DEF IInv, TypeOK, Progress, Before, Settled, CallsOf
    <2>2. CASE t = s /\ s = Kube
      BY <2>2 DEF IInv, TypeOK, Progress, Before, BeforeKube, Settled, CallsOf, KubeCalls,
                  After, KubeNext
    <2>3. CASE t = s /\ s # Kube
      BY <2>3 DEF IInv, TypeOK, Progress, Before, BeforeSlurm, Settled, CallsOf, SlurmCalls,
                  After, SlurmNext
    <2> QED
      BY <2>1, <2>2, <2>3
  <1>3. Deadlines' /\ Replied'
    BY DEF IInv, Deadlines, Replied
  <1> QED
    BY <1>1, <1>2, <1>3 DEF IInv

\* A call that fails ends its goroutine.
LEMMA FailStep ==
    ASSUME IInv, NEW s \in Sources, Fail(s)
    PROVE  IInv'
  <1> USE DEF Fail, Running
  <1>1. TypeOK'
    BY DEF IInv, TypeOK, Explained, Errors, Stages, Kept, CallsOf, KubeCalls, SlurmCalls
  <1>2. Progress'
    <2> SUFFICES ASSUME NEW t \in Sources
                 PROVE  /\ stage'[t] # "done" =>
                              err'[t] = "none" /\ acctErr'[t] = "none" /\ got'[t] = Before(t)'
                        /\ phase' # "idle" /\ stage'[t] = "done" => Settled(t)'
      BY DEF Progress
    <2>1. CASE t # s
      BY <2>1 DEF IInv, TypeOK, Progress, Before, Settled, CallsOf
    <2>2. CASE t = s /\ s # Kube /\ stage[s] \in Accounting
      BY <2>2 DEF IInv, TypeOK, Progress, Before, BeforeSlurm, Settled, Accounting,
                  Kept, Explained
    <2>3. CASE t = s /\ ~(s # Kube /\ stage[s] \in Accounting)
      BY <2>3 DEF IInv, TypeOK, Progress, Settled, Explained
    <2> QED
      BY <2>1, <2>2, <2>3
  <1>3. Deadlines' /\ Replied'
    BY DEF IInv, Deadlines, Replied
  <1> QED
    BY <1>1, <1>2, <1>3 DEF IInv

\* Time never passes the deadline of a goroutine that is still running.
LEMMA TickStep == IInv /\ Tick => IInv'
  <1> SUFFICES ASSUME IInv, Tick PROVE IInv'
    OBVIOUS
  <1> USE DEF Tick, Running
  <1>1. TypeOK'
    BY TimeAssumption DEF IInv, TypeOK, CallsOf
  <1>2. Progress'
    BY DEF IInv, Progress, Before, Settled, CallsOf
  <1>3. Deadlines'
    BY TimeAssumption DEF IInv, TypeOK, Deadlines
  <1>4. Replied'
    BY DEF IInv, Replied
  <1> QED
    BY <1>1, <1>2, <1>3, <1>4 DEF IInv

\* Assembling stores exactly what the settled sources amount to.
LEMMA AssembleStep == IInv /\ Assemble => IInv'
  <1> SUFFICES ASSUME IInv, Assemble PROVE IInv'
    OBVIOUS
  <1> USE DEF Assemble
  <1>1. TypeOK' /\ Progress' /\ Deadlines'
    BY DEF IInv, TypeOK, Progress, Before, Settled, CallsOf, Deadlines
  <1>2. Replied'
    BY DEF IInv, Replied, Assembled, Unavailable, Links
  <1> QED
    BY <1>1, <1>2 DEF IInv

\* A stuttering step changes nothing the invariant speaks of.
LEMMA StutterStep == IInv /\ UNCHANGED vars => IInv'
  BY DEF vars, IInv, TypeOK, Progress, Before, Settled, CallsOf, Deadlines, Replied,
         Assembled, Unavailable, Links

\* Every step of the handler preserves the inductive invariant.
LEMMA NextIInv == IInv /\ [Next]_vars => IInv'
  BY CallStep, AnswerStep, FailStep, TickStep, AssembleStep, StutterStep DEF Next

\* The inductive invariant holds throughout every behaviour.
LEMMA Inductive == Spec => []IInv
  BY InitIInv, NextIInv, PTL DEF Spec

-------------------------------------------------------------------------------
\* The variables stay in their types.
THEOREM TypeCorrect == Spec => []TypeOK
  <1>1. IInv => TypeOK
    BY DEF IInv
  <1> QED
    BY <1>1, Inductive, PTL

\* Reading takes no longer than one SourceTimeout, whatever hangs.
THEOREM OneTimeout == Spec => []OneTimeoutAtMost
  <1>1. IInv => OneTimeoutAtMost
    BY DEF IInv, Deadlines, OneTimeoutAtMost
  <1> QED
    BY <1>1, Inductive, PTL


\* What the assembled snapshot says, field by field.
LEMMA AssembledFields ==
    /\ Assembled.triaged = {c \in Clusters : err[c] = "none"}
    /\ Assembled.kube = (Kube \in Sources /\ err[Kube] = "none")
    /\ Assembled.unavailable = Unavailable
    /\ Assembled.accountingError = {c \in Assembled.triaged : acctErr[c] # "none"}
    /\ Assembled.data = [c \in Assembled.triaged |-> got[c]]
    /\ Assembled.seesKube = {c \in Assembled.triaged : Assembled.kube}
    /\ Assembled.links = (IF Assembled.kube THEN Links(Assembled.triaged) ELSE {})
  <1>1. Assembled.triaged = {c \in Clusters : err[c] = "none"}
    BY DEF Assembled
  <1>2. Assembled.kube = (Kube \in Sources /\ err[Kube] = "none")
    BY Zenon DEF Assembled
  <1>3. Assembled.unavailable = Unavailable
    BY DEF Assembled
  <1>4. Assembled.accountingError = {c \in Assembled.triaged : acctErr[c] # "none"}
    BY <1>1 DEF Assembled
  <1>5. Assembled.data = [c \in Assembled.triaged |-> got[c]]
    BY <1>1 DEF Assembled
  <1>6. Assembled.seesKube = {c \in Assembled.triaged : Assembled.kube}
    BY <1>1, <1>2 DEF Assembled
  <1>7. Assembled.links = (IF Assembled.kube THEN Links(Assembled.triaged) ELSE {})
    BY <1>1, <1>2 DEF Assembled
  <1> QED
    BY <1>1, <1>2, <1>3, <1>4, <1>5, <1>6, <1>7

\* A reply says the same, and every source it is made of has settled.
LEMMA RepliedFields ==
    ASSUME IInv, phase = "replied"
    PROVE  /\ reply.triaged = {c \in Clusters : err[c] = "none"}
           /\ reply.kube = (Kube \in Sources /\ err[Kube] = "none")
           /\ reply.unavailable = Unavailable
           /\ reply.accountingError = {c \in reply.triaged : acctErr[c] # "none"}
           /\ reply.data = [c \in reply.triaged |-> got[c]]
           /\ reply.seesKube = {c \in reply.triaged : reply.kube}
           /\ reply.links = (IF reply.kube THEN Links(reply.triaged) ELSE {})
           /\ \A s \in Sources : Settled(s)
  <1>1. reply = Assembled
    BY DEF IInv, Replied
  <1>2. \A s \in Sources : Settled(s)
    BY DEF IInv, Progress, Replied
  <1> QED
    BY <1>1, <1>2, AssembledFields

\* An answer leaves no source out and blames none for another's failure.
THEOREM NoSourceLost == Spec => []EverySourceAccountedFor
  <1>1. IInv => EverySourceAccountedFor
    <2> SUFFICES ASSUME IInv, phase = "replied" PROVE EverySourceAccountedFor
      BY DEF EverySourceAccountedFor
    <2> DEFINE listed(s) == {u \in reply.unavailable :
                                u.source = s /\ u.component = Scheduler(s)}
    <2>1. \A s \in Sources : Settled(s)
      BY RepliedFields
    <2>2. /\ reply.triaged = {c \in Clusters : err[c] = "none"}
          /\ reply.kube <=> (Kube \in Sources /\ err[Kube] = "none")
          /\ reply.unavailable = Unavailable
      BY RepliedFields
    <2>3. \A c \in Clusters : c \in Sources /\ c # Kube
      BY SourcesAssumption DEF Sources
    <2>4. Kube \in Sources <=> KubeConfigured
      BY SourcesAssumption DEF Sources
    <2>5. reply.triaged = {c \in Clusters : {"nodes", "jobs"} \subseteq got[c]}
      BY <2>1, <2>2, <2>3 DEF Settled, CallsOf, SlurmCalls
    <2>6. reply.kube <=> (KubeConfigured /\ got[Kube] = KubeCalls)
      BY <2>1, <2>2, <2>4 DEF Settled, CallsOf, KubeCalls
    <2>7. ASSUME NEW s \in Sources
          PROVE  IF s \in reply.triaged \/ (s = Kube /\ reply.kube)
                 THEN listed(s) = {}
                 ELSE \E e \in Errors \ {"none"} :
                         listed(s) = {[source |-> s, component |-> Scheduler(s), error |-> e]}
      <3>1. Scheduler(s) # "slurmdbd"
        BY DEF Scheduler
      <3>2. (s \in reply.triaged \/ (s = Kube /\ reply.kube)) <=> err[s] = "none"
        BY <2>2, <2>3 DEF Sources
      <3>3. CASE err[s] = "none"
        BY <2>2, <3>1, <3>2, <3>3 DEF Unavailable
      <3>4. CASE err[s] # "none"
        <4>1. err[s] \in Errors \ {"none"}
          BY <3>4 DEF IInv, TypeOK
        <4>2. listed(s) = {[source |-> s, component |-> Scheduler(s), error |-> err[s]]}
          BY <2>2, <3>1, <3>4 DEF Unavailable
        <4> QED
          BY <3>2, <3>4, <4>1, <4>2
      <3> QED
        BY <3>3, <3>4
    <2> QED
      BY <2>5, <2>6, <2>7 DEF EverySourceAccountedFor
  <1> QED
    BY <1>1, Inductive, PTL

\* A triaged cluster has all of its accounting, or none and says so.
THEOREM AccountingConsistent == Spec => []AccountingAllOrNothing
  <1>1. IInv => AccountingAllOrNothing
    <2> SUFFICES ASSUME IInv, phase = "replied", NEW c \in reply.triaged
                 PROVE  /\ reply.data[c] \cap Accounting =
                              (IF c \in reply.accountingError THEN {} ELSE Accounting)
                        /\ (\E u \in reply.unavailable :
                              u.source = c /\ u.component = "slurmdbd")
                              <=> c \in reply.accountingError
      BY DEF AccountingAllOrNothing
    <2>1. /\ reply.triaged = {x \in Clusters : err[x] = "none"}
          /\ reply.accountingError = {x \in reply.triaged : acctErr[x] # "none"}
          /\ reply.data = [x \in reply.triaged |-> got[x]]
          /\ reply.unavailable = Unavailable
      BY RepliedFields
    <2>2. c \in Sources /\ c # Kube /\ err[c] = "none"
      BY <2>1, SourcesAssumption DEF Sources
    <2>3. Settled(c)
      BY <2>2, RepliedFields
    <2>4. reply.data[c] \cap Accounting =
             (IF c \in reply.accountingError THEN {} ELSE Accounting)
      BY <2>1, <2>2, <2>3 DEF Settled, Accounting, CallsOf, SlurmCalls
    <2>5. (\E u \in reply.unavailable : u.source = c /\ u.component = "slurmdbd")
             <=> c \in reply.accountingError
      <3>1. ASSUME NEW u \in reply.unavailable, u.source = c, u.component = "slurmdbd"
            PROVE  c \in reply.accountingError
        BY <2>1, <2>2, <3>1 DEF Unavailable, Scheduler
      <3>2. ASSUME c \in reply.accountingError
            PROVE  [source |-> c, component |-> "slurmdbd", error |-> acctErr[c]]
                      \in reply.unavailable
        BY <2>1, <2>2, <3>2 DEF Unavailable
      <3> QED
        BY <3>1, <3>2
    <2> QED
      BY <2>4, <2>5
  <1> QED
    BY <1>1, Inductive, PTL

\* Every Slinky node that was read is linked to the Kubernetes view that was.
THEOREM LinksComplete == Spec => []CrossLinked
  <1>1. IInv => CrossLinked
    <2> SUFFICES ASSUME IInv, phase = "replied" PROVE CrossLinked
      BY DEF CrossLinked
    <2>1. /\ reply.seesKube = {c \in reply.triaged : reply.kube}
          /\ reply.triaged \subseteq Clusters
          /\ reply.links = IF reply.kube THEN Links(reply.triaged) ELSE {}
      BY RepliedFields
    <2>2. \A c \in reply.triaged : \A n \in Pods[c] : <<c, n>> \in Links(reply.triaged)
      BY <2>1 DEF Links, PodNames
    <2> QED
      BY <2>1, <2>2 DEF CrossLinked
  <1> QED
    BY <1>1, Inductive, PTL

-------------------------------------------------------------------------------
(* The refinement: reading and assembling implements SourceReport. *)

\* Before the first call no source has settled and nothing is reported.
LEMMA ReportInit == Init => Report!Init
  BY DEF Init, Report!Init, Report!None, sourceStatus, sourceReport, statusOf

\* A reply is never empty: there is at least one source to speak of.
LEMMA SomethingSaid ==
    ASSUME phase = "replied" PROVE sourceReport # Report!None
  <1>1. PICK s \in Sources : TRUE
    BY SourcesAssumption
  <1> QED
    BY <1>1 DEF sourceReport, Report!None

\* Each settled source is reported as it settled.
LEMMA SaidIsStatus == IInv /\ phase = "replied" => sourceReport = sourceStatus
  <1> SUFFICES ASSUME IInv, phase = "replied" PROVE sourceReport = sourceStatus
    OBVIOUS
  <1>1. \A s \in Sources : saidOf(s) = statusOf(s)
    <2> SUFFICES ASSUME NEW s \in Sources PROVE saidOf(s) = statusOf(s)
      OBVIOUS
    <2>1. stage[s] = "done" /\ Settled(s)
      BY DEF IInv, Progress, Replied
    <2>2. (s \in reply.triaged \/ (s = Kube /\ reply.kube)) <=> err[s] = "none"
      BY RepliedFields, SourcesAssumption DEF Sources
    <2>3. s \in reply.accountingError <=> (s # Kube /\ err[s] = "none" /\ acctErr[s] # "none")
      BY RepliedFields, SourcesAssumption DEF Sources
    <2> QED
      BY <2>1, <2>2, <2>3 DEF saidOf, statusOf, Settled
  <1> QED
    BY <1>1 DEF sourceReport, sourceStatus

\* Every step settles one source, reports, begins again or is a stutter.
LEMMA ReportStep ==
    ASSUME IInv, IInv', [Next]_vars
    PROVE  [Report!Next]_(Report!vars)
  <1>1. CASE Call
    <2>1. CASE phase = "replied"
      <3>1. sourceReport # Report!None
        BY <2>1, SomethingSaid
      <3>2. sourceStatus' = [s \in Sources |-> "unread"] /\ sourceReport' = Report!None
        BY <1>1 DEF Call, sourceStatus, sourceReport, statusOf, Report!None
      <3> QED
        BY <3>1, <3>2 DEF Report!Next, Report!Again, Report!Init
    <2>2. CASE phase = "idle"
      <3>1. sourceStatus' = sourceStatus /\ sourceReport' = sourceReport
        BY <1>1, <2>2 DEF Call, sourceStatus, sourceReport, statusOf, IInv, Replied
      <3> QED
        BY <3>1 DEF Report!vars
    <2> QED
      BY <1>1, <2>1, <2>2 DEF Call
  <1>2. ASSUME NEW s \in Sources, Answer(s) \/ Fail(s)
        PROVE  [Report!Next]_(Report!vars)
    <2>1. phase = "reading" /\ phase' = "reading" /\ stage[s] # "done"
      BY <1>2 DEF Answer, Fail, Running
    <2>2. \A t \in Sources \ {s} : statusOf(t)' = statusOf(t)
      BY <1>2, <2>1 DEF IInv, TypeOK, Answer, Fail, statusOf
    <2>3. sourceReport = Report!None /\ sourceReport' = Report!None
      BY <2>1 DEF sourceReport, Report!None
    <2>4. statusOf(s) = "unread"
      BY <2>1 DEF statusOf
    <2>5. CASE statusOf(s)' = "unread"
      <3>1. sourceStatus' = sourceStatus
        BY <2>2, <2>4, <2>5 DEF sourceStatus
      <3> QED
        BY <2>3, <3>1 DEF Report!vars
    <2>6. CASE statusOf(s)' # "unread"
      <3>1. statusOf(s)' \in Report!Outcomes
        BY <2>6 DEF statusOf, Report!Outcomes
      <3>2. sourceStatus' = [sourceStatus EXCEPT ![s] = statusOf(s)']
        BY <2>2 DEF sourceStatus
      <3>3. Report!Settle(s, statusOf(s)')
        BY <2>3, <2>4, <3>2 DEF Report!Settle, sourceStatus
      <3> QED
        BY <3>1, <3>3 DEF Report!Next
    <2> QED
      BY <2>5, <2>6
  <1>3. CASE Tick
    <2>1. sourceStatus' = sourceStatus /\ sourceReport' = sourceReport
      BY <1>3 DEF Tick, sourceStatus, sourceReport, statusOf, saidOf
    <2> QED
      BY <2>1 DEF Report!vars
  <1>4. CASE Assemble
    <2>1. phase = "reading" /\ phase' = "replied" /\ \A s \in Sources : stage[s] = "done"
      BY <1>4 DEF Assemble
    <2>2. sourceReport' = sourceStatus'
      <3>1. (IInv /\ phase = "replied" => sourceReport = sourceStatus)'
        BY SaidIsStatus, PTL
      <3> QED
        BY <2>1, <3>1
    <2>3. sourceStatus' = sourceStatus
      BY <1>4, <2>1 DEF Assemble, sourceStatus, statusOf
    <2>4. \A s \in Sources : sourceStatus[s] # "unread"
      BY <2>1 DEF sourceStatus, statusOf
    <2>5. sourceReport = Report!None
      BY <2>1 DEF sourceReport, Report!None
    <2> QED
      BY <2>2, <2>3, <2>4, <2>5 DEF Report!Next, Report!Answer
  <1>5. CASE UNCHANGED vars
    <2>1. sourceStatus' = sourceStatus /\ sourceReport' = sourceReport
      BY <1>5 DEF vars, sourceStatus, sourceReport, statusOf, saidOf
    <2> QED
      BY <2>1 DEF Report!vars
  <1> QED
    BY <1>1, <1>2, <1>3, <1>4, <1>5 DEF Next

\* Reading the sources and assembling what was read implements SourceReport.
THEOREM Implements == Spec => ReportsEverySource
  <1>1. Init => Report!Init
    BY ReportInit
  <1>2. IInv /\ IInv' /\ [Next]_vars => [Report!Next]_(Report!vars)
    BY ReportStep
  <1> QED
    BY <1>1, <1>2, Inductive, PTL DEF Spec, ReportsEverySource, Report!Spec

===============================================================================
