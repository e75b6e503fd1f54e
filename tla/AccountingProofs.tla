---------------------------- MODULE AccountingProofs ----------------------------
(***************************************************************************)
(* Proofs about Accounting for any windows, slack and gap, any number of   *)
(* changes and jobs, and slurmdbd any number of records behind.            *)
(*                                                                         *)
(* A call reads the tables as they will be after some of the records that  *)
(* are still under way, so the inductive invariant IInv speaks of all of   *)
(* them: of every T[k], the tables once k pending records are in.  There   *)
(* is no induction over the records: a record that is sent makes T longer  *)
(* at its end, one that is taken in makes it shorter at its beginning, and *)
(* the invariant follows T from step to step.  LogInv, on top of it, says  *)
(* what the last of the tables has to do with what happened to the node;   *)
(* the count of incidents is by induction over the events, in order.       *)
(***************************************************************************)
EXTENDS Accounting, DataLemmas

-------------------------------------------------------------------------------
(* The records *)

EventRecords ==
    [start : Nat, end : Nat \cup {Open}, state : {"DRAIN", "DOWN", "BOOT"}, reason : SUBSET Marks]

\* A job another node failed names that node; one this node failed does not.
JobRecords ==
    {j \in [end : Nat, state : {"COMPLETED", "NODE_FAIL"}, failed : {"this", "", "other"},
            cause : {"outage", "done", "eaten", "elsewhere"}] :
        /\ j.cause = "elsewhere" => j.failed = "other"
        /\ j.cause = "eaten" => j.state = "NODE_FAIL" /\ j.failed # "other"}

Tables == [history : SUBSET JobRecords, events : SUBSET EventRecords]

Records == [kind : {"job"}, at : Nat, job : JobRecords]
           \cup [kind : {"returns"}, at : Nat]
           \cup [kind : {"leaves"}, at : Nat, state : {"DRAIN", "DOWN", "BOOT"}, reason : SUBSET Marks]

\* T[k] is the tables t once the first k records of p are in.
IsChain(T, t, p) ==
    T = [k \in 0..Len(p) |-> IF k = 0 THEN t ELSE Record(T[k - 1], p[k])]

\* An event lies in the past, there is one at most that has not ended, and while
\* a DOWN event lasted the node was DOWN.
Sound(t, now, downs) ==
    /\ t \in Tables
    /\ \A e \in t.events :
          /\ e.start <= now
          /\ e.end # Open => e.start <= e.end /\ e.end <= now
          /\ e.state = "DOWN" => \A u \in e.start..EndOf(e) : u \in downs
    /\ \A e, f \in t.events : e.end = Open /\ f.end = Open => e = f

\* The event that has not ended is the one the node is in.
OpenIs(t, n) ==
    \A e \in t.events : e.end = Open => e.start = n.since /\ e.state = n.state

\* A DOWN event that a job with this end belongs to.
DownEvent(t, end) ==
    \E e \in t.events : /\ e.state = "DOWN"
                        /\ e.start <= end /\ end <= e.start + CasualtySlack

\* The jobs that went with their node have its outage beside them; so will the
\* job that is lost and not ended yet.
Casualties(t) == \A j \in t.history : j.cause = "outage" => DownEvent(t, j.end)
Lost(t, j) ==
    j.state = "lost" => \E e \in t.events : e.state = "DOWN" /\ e.start = j.since

\* All this of the tables after any number k of n pending records, and what a
\* call finds in them grows.
AllSound(T, n, now, downs, nd, jb) ==
    /\ \A k \in 0..n : Sound(T[k], now, downs)
    /\ \A i, k \in 0..n : i <= k => T[i].history \subseteq T[k].history
    /\ OpenIs(T[n], nd)
    /\ DrainingDeath = "DOWN" => Lost(T[n], jb) /\ \A k \in 0..n : Casualties(T[k])

\* The types of what slurmctld has; downTimes has the whole of an outage.
Present ==
    /\ clock \in 0..MaxTime
    /\ node \in [state : {"UP", "DRAIN", "DOWN", "BOOT"}, reason : SUBSET Marks, since : 0..MaxTime]
    /\ node.since <= clock
    /\ job \in [state : {"none", "running", "lost"}, since : 0..MaxTime]
    /\ job.since <= clock
    /\ job.state = "lost" => clock <= job.since + CasualtySlack
    /\ outTimes \subseteq 0..clock /\ downTimes \subseteq 0..clock
    /\ node.state = "DOWN" => \A u \in node.since..clock : u \in downTimes
    /\ pending \in Seq(Records)
    /\ \A i \in DOMAIN pending : pending[i].at <= clock

ChainsSound ==
    \A T : IsChain(T, tables, pending) =>
              AllSound(T, Len(pending), clock, downTimes, node, job)

IInv == Present /\ (\E T : IsChain(T, tables, pending)) /\ ChainsSound

-------------------------------------------------------------------------------
(* Chains *)

\* TablesAfter goes through the tables of a chain, when there is one.
LEMMA AfterIsChain ==
    ASSUME \E T : IsChain(T, tables, pending)
    PROVE  \E T : /\ IsChain(T, tables, pending)
                  /\ \A i \in 0..Len(pending) : TablesAfter(i) = T[i]
  <1> DEFINE T == CHOOSE T : IsChain(T, tables, pending)
  <1>1. IsChain(T, tables, pending)
    OBVIOUS
  <1>2. \A i : TablesAfter(i) = T[i]
    BY DEF TablesAfter, IsChain
  <1> QED
    BY <1>1, <1>2

\* What a chain is, link by link.
LEMMA ChainLinks ==
    ASSUME NEW T, NEW t, NEW p \in Seq(Records), IsChain(T, t, p)
    PROVE  /\ T[0] = t
           /\ \A k \in 1..Len(p) : T[k] = Record(T[k - 1], p[k])
  <1>1. Len(p) \in Nat
    OBVIOUS
  <1>2. \A k \in 0..Len(p) : T[k] = IF k = 0 THEN t ELSE Record(T[k - 1], p[k])
    BY DEF IsChain
  <1> QED
    BY <1>1, <1>2

\* And the other way round.
LEMMA LinksChain ==
    ASSUME NEW p \in Seq(Records), NEW t, NEW T,
           T = [k \in 0..Len(p) |-> T[k]],
           T[0] = t, \A k \in 1..Len(p) : T[k] = Record(T[k - 1], p[k])
    PROVE  IsChain(T, t, p)
  <1>1. Len(p) \in Nat
    OBVIOUS
  <1>2. ASSUME NEW k \in 0..Len(p)
        PROVE  T[k] = IF k = 0 THEN t ELSE Record(T[k - 1], p[k])
    <2>1. k = 0 \/ k \in 1..Len(p)
      BY <1>1
    <2> QED
      BY <2>1
  <1> QED
    BY <1>2 DEF IsChain

\* A chain without its last link, and with one more.
LEMMA ChainShortened ==
    ASSUME NEW p \in Seq(Records), NEW r \in Records, NEW t, NEW T,
           IsChain(T, t, Append(p, r))
    PROVE  /\ IsChain([k \in 0..Len(p) |-> T[k]], t, p)
           /\ T[Len(p) + 1] = Record(T[Len(p)], r)
  <1> DEFINE q == Append(p, r)
             U == [k \in 0..Len(p) |-> T[k]]
  <1>1. /\ q \in Seq(Records) /\ Len(p) \in Nat /\ Len(q) = Len(p) + 1
        /\ q[Len(p) + 1] = r /\ \A k \in 1..Len(p) : q[k] = p[k]
    OBVIOUS
  <1>2. T[0] = t /\ \A k \in 1..Len(q) : T[k] = Record(T[k - 1], q[k])
    BY <1>1, ChainLinks
  <1> HIDE DEF q
  <1>3. U[0] = t /\ \A k \in 1..Len(p) : U[k] = Record(U[k - 1], p[k])
    <2> SUFFICES ASSUME NEW k \in 1..Len(p)
                 PROVE  U[k] = Record(U[k - 1], p[k])
      BY <1>1, <1>2
    <2>1. T[k] = Record(T[k - 1], p[k])
      BY <1>1, <1>2
    <2> QED
      BY <1>1, <2>1
  <1>4. U = [k \in 0..Len(p) |-> U[k]]
    OBVIOUS
  <1> HIDE DEF U
  <1>5. IsChain(U, t, p)
    BY <1>3, <1>4, LinksChain
  <1> QED
    BY <1>1, <1>2, <1>5 DEF U

LEMMA ChainLengthened ==
    ASSUME NEW p \in Seq(Records), NEW r \in Records, NEW t, NEW T, IsChain(T, t, p)
    PROVE  \E U : IsChain(U, t, Append(p, r))
  <1> DEFINE q == Append(p, r)
             n == Len(p)
             U == [k \in 0..Len(q) |-> IF k = n + 1 THEN Record(T[n], r) ELSE T[k]]
  <1>1. /\ q \in Seq(Records) /\ n \in Nat /\ Len(q) = n + 1
        /\ q[n + 1] = r /\ \A k \in 1..n : q[k] = p[k]
    OBVIOUS
  <1>2. T[0] = t /\ \A k \in 1..n : T[k] = Record(T[k - 1], p[k])
    BY ChainLinks
  <1> HIDE DEF q, n
  <1>3. /\ U[n + 1] = Record(T[n], r)
        /\ \A k \in 0..n : U[k] = T[k]
    BY <1>1
  <1>4. U = [k \in 0..Len(q) |-> U[k]]
    OBVIOUS
  <1> HIDE DEF U
  <1>5. U[0] = t /\ \A k \in 1..Len(q) : U[k] = Record(U[k - 1], q[k])
    <2>1. U[0] = t
      BY <1>1, <1>2, <1>3
    <2>2. ASSUME NEW k \in 1..n PROVE U[k] = Record(U[k - 1], q[k])
      <3>1. U[k] = T[k] /\ U[k - 1] = T[k - 1]
        BY <1>1, <1>3
      <3> QED
        BY <1>1, <1>2, <3>1
    <2>3. U[n + 1] = Record(U[(n + 1) - 1], q[n + 1])
      <3>1. (n + 1) - 1 = n /\ U[n] = T[n]
        BY <1>1, <1>3
      <3> QED
        BY <1>1, <1>3, <3>1
    <2>4. \A k \in 1..Len(q) : k \in 1..n \/ k = n + 1
      BY <1>1
    <2> QED
      BY <2>1, <2>2, <2>3, <2>4
  <1> QED
    BY <1>1, <1>4, <1>5, LinksChain DEF q

\* A chain with one more link before its first, and without its first.
LEMMA ChainBefore ==
    ASSUME NEW p \in Seq(Records), p # <<>>, NEW t, NEW T,
           IsChain(T, Record(t, Head(p)), Tail(p))
    PROVE  IsChain([k \in 0..Len(p) |-> IF k = 0 THEN t ELSE T[k - 1]], t, p)
  <1> DEFINE q == Tail(p)
             n == Len(q)
             U == [k \in 0..Len(p) |-> IF k = 0 THEN t ELSE T[k - 1]]
  <1>1. /\ q \in Seq(Records) /\ n \in Nat /\ Len(p) = n + 1
        /\ Head(p) = p[1] /\ \A k \in 1..n : q[k] = p[k + 1]
    OBVIOUS
  <1>2. T[0] = Record(t, p[1]) /\ \A k \in 1..n : T[k] = Record(T[k - 1], q[k])
    BY <1>1, ChainLinks
  <1> HIDE DEF q, n
  <1>3. U[0] = t /\ \A k \in 0..n : U[k + 1] = T[k]
    BY <1>1
  <1>4. U = [k \in 0..Len(p) |-> U[k]]
    OBVIOUS
  <1> HIDE DEF U
  <1>5. \A k \in 1..Len(p) : U[k] = Record(U[k - 1], p[k])
    <2>1. U[1] = Record(U[1 - 1], p[1])
      BY <1>1, <1>2, <1>3
    <2>2. ASSUME NEW k \in 2..Len(p) PROVE U[k] = Record(U[k - 1], p[k])
      <3>1. k - 1 \in 1..n /\ k - 2 \in 0..n /\ (k - 1) + 1 = k /\ (k - 2) + 1 = k - 1 /\ (k - 1) - 1 = k - 2
        BY <1>1
      <3>2. U[k] = T[k - 1] /\ U[k - 1] = T[k - 2]
        BY <1>1, <1>3, <3>1
      <3>3. T[k - 1] = Record(T[k - 2], q[k - 1]) /\ q[k - 1] = p[k]
        BY <1>1, <1>2, <3>1
      <3> QED
        BY <3>2, <3>3
    <2> QED
      BY <1>1, <2>1, <2>2
  <1> QED
    BY <1>3, <1>4, <1>5, LinksChain DEF U

LEMMA ChainAfter ==
    ASSUME NEW p \in Seq(Records), p # <<>>, NEW t, NEW T, IsChain(T, t, p)
    PROVE  \E U : IsChain(U, Record(t, Head(p)), Tail(p))
  <1> DEFINE q == Tail(p)
             n == Len(q)
             U == [k \in 0..Len(q) |-> T[k + 1]]
  <1>1. /\ q \in Seq(Records) /\ n \in Nat /\ Len(p) = n + 1
        /\ Head(p) = p[1] /\ \A k \in 1..n : q[k] = p[k + 1]
    OBVIOUS
  <1>2. T[0] = t /\ \A k \in 1..Len(p) : T[k] = Record(T[k - 1], p[k])
    BY <1>1, ChainLinks
  <1>3. T[1] = Record(t, p[1])
    BY <1>1, <1>2
  <1> HIDE DEF q
  <1>4. U[0] = T[1] /\ \A k \in 1..n : U[k] = T[k + 1] /\ U[k - 1] = T[(k + 1) - 1]
    BY <1>1
  <1>5. U = [k \in 0..Len(q) |-> U[k]]
    OBVIOUS
  <1> HIDE DEF U, n
  <1>6. ASSUME NEW k \in 1..n PROVE U[k] = Record(U[k - 1], q[k])
    <2>1. k + 1 \in 1..Len(p)
      BY <1>1
    <2>2. T[k + 1] = Record(T[(k + 1) - 1], p[k + 1])
      BY <1>2, <2>1
    <2> QED
      BY <1>1, <1>4, <2>2
  <1> QED
    BY <1>1, <1>3, <1>4, <1>5, <1>6, LinksChain DEF n, q
-------------------------------------------------------------------------------
(* One record *)

\* Ending what has not ended changes no event's start, state and reason.
LEMMA Closed ==
    ASSUME NEW evs \in SUBSET EventRecords, NEW at \in Nat
    PROVE  /\ CloseEvent(evs, at) \subseteq EventRecords
           /\ \A g \in CloseEvent(evs, at) :
                 \E e \in evs : /\ g.start = e.start /\ g.state = e.state /\ g.reason = e.reason
                                /\ g.end = IF e.end = Open THEN at ELSE e.end
           /\ \A e \in evs : \E g \in CloseEvent(evs, at) :
                                /\ g.start = e.start /\ g.state = e.state /\ g.reason = e.reason
                                /\ g.end = IF e.end = Open THEN at ELSE e.end
           /\ \A g \in CloseEvent(evs, at) : g.end # Open
  <1> DEFINE C(e) == IF e.end = Open THEN [e EXCEPT !.end = at] ELSE e
  <1>1. at # Open
    BY DEF Open
  <1>2. ASSUME NEW e \in evs
        PROVE  /\ C(e) \in EventRecords
               /\ C(e).start = e.start /\ C(e).state = e.state /\ C(e).reason = e.reason
               /\ C(e).end = IF e.end = Open THEN at ELSE e.end
    <2>1. e \in EventRecords
      OBVIOUS
    <2>2. CASE e.end = Open
      <3>1. C(e) = [start |-> e.start, end |-> at, state |-> e.state, reason |-> e.reason]
        BY <2>1, <2>2 DEF EventRecords
      <3> QED
        BY <2>1, <2>2, <3>1 DEF EventRecords
    <2>3. CASE e.end # Open
      BY <2>1, <2>3
    <2> QED
      BY <2>2, <2>3
  <1>3. CloseEvent(evs, at) = {C(e) : e \in evs}
    BY DEF CloseEvent
  <1> HIDE DEF C
  <1> QED
    BY <1>1, <1>2, <1>3

\* What each kind of record makes of the tables.
LEMMA RecordMakes ==
    ASSUME NEW t \in Tables, NEW r \in Records
    PROVE  /\ r.at \in Nat
           /\ \/ /\ r.kind = "job" /\ r.job \in JobRecords
                 /\ Record(t, r) = [history |-> t.history \cup {r.job}, events |-> t.events]
              \/ /\ r.kind = "returns"
                 /\ Record(t, r) = [history |-> t.history, events |-> CloseEvent(t.events, r.at)]
              \/ /\ r.kind = "leaves"
                 /\ [start |-> r.at, end |-> Open, state |-> r.state, reason |-> r.reason] \in EventRecords
                 /\ Record(t, r) =
                       [history |-> t.history,
                        events  |-> CloseEvent(t.events, r.at) \cup
                           {[start |-> r.at, end |-> Open, state |-> r.state, reason |-> r.reason]}]
  <1>1. t = [history |-> t.history, events |-> t.events]
    BY DEF Tables
  <1>2. CASE r \in [kind : {"job"}, at : Nat, job : JobRecords]
    <2>1. r.kind = "job"
      BY <1>2
    <2>2. Record(t, r) = [t EXCEPT !.history = @ \cup {r.job}]
      BY <2>1 DEF Record
    <2> QED
      BY <1>1, <1>2, <2>2
  <1>3. CASE r \in [kind : {"returns"}, at : Nat]
    <2>1. r.kind = "returns"
      BY <1>3
    <2>2. Record(t, r) = [t EXCEPT !.events = CloseEvent(@, r.at)]
      BY <2>1 DEF Record
    <2> QED
      BY <1>1, <1>3, <2>2
  <1>4. CASE r \in [kind : {"leaves"}, at : Nat, state : {"DRAIN", "DOWN", "BOOT"}, reason : SUBSET Marks]
    <2> DEFINE e == [start |-> r.at, end |-> Open, state |-> r.state, reason |-> r.reason]
    <2>1. r.kind = "leaves" /\ e \in EventRecords
      BY <1>4 DEF EventRecords
    <2>2. Record(t, r) = [t EXCEPT !.events = CloseEvent(@, r.at) \cup {e}]
      BY <2>1 DEF Record
    <2> HIDE DEF e
    <2>3. Record(t, r) = [history |-> t.history, events |-> CloseEvent(t.events, r.at) \cup {e}]
      BY <1>1, <2>2
    <2> QED
      BY <1>4, <2>1, <2>3 DEF e
  <1> QED
    BY <1>2, <1>3, <1>4 DEF Records

\* No record loses a job, or an event's start or state.
LEMMA RecordKeeps ==
    ASSUME NEW t \in Tables, NEW r \in Records
    PROVE  /\ Record(t, r) \in Tables
           /\ t.history \subseteq Record(t, r).history
           /\ \A e \in t.events : \E g \in Record(t, r).events :
                 g.start = e.start /\ g.state = e.state
  <1>1. t.events \in SUBSET EventRecords /\ t.history \in SUBSET JobRecords
    BY DEF Tables
  <1>2. CloseEvent(t.events, r.at) \subseteq EventRecords
    BY <1>1, Closed, RecordMakes
  <1>3. \A e \in t.events : \E g \in CloseEvent(t.events, r.at) : g.start = e.start /\ g.state = e.state
    BY <1>1, Closed, RecordMakes
  <1> DEFINE new == [start |-> r.at, end |-> Open, state |-> r.state, reason |-> r.reason]
  <1>4. CASE /\ r.job \in JobRecords
             /\ Record(t, r) = [history |-> t.history \cup {r.job}, events |-> t.events]
    BY <1>1, <1>4 DEF Tables
  <1>5. CASE Record(t, r) = [history |-> t.history, events |-> CloseEvent(t.events, r.at)]
    BY <1>1, <1>2, <1>3, <1>5 DEF Tables
  <1>6. CASE /\ new \in EventRecords
             /\ Record(t, r) = [history |-> t.history, events |-> CloseEvent(t.events, r.at) \cup {new}]
    <2> HIDE DEF new
    <2> QED
      BY <1>1, <1>2, <1>3, <1>6 DEF Tables
  <1> QED
    BY <1>4, <1>5, <1>6, RecordMakes

\* A record of what happens now leaves sound tables.
LEMMA RecordSound ==
    ASSUME NEW t, NEW r \in Records, NEW now \in Nat, NEW downs, NEW later, NEW n,
           Sound(t, now, downs), OpenIs(t, n), downs \subseteq later, r.at = now,
           n.state = "DOWN" => \A u \in n.since..now : u \in downs,
           r.kind = "leaves" /\ r.state = "DOWN" => now \in later
    PROVE  Sound(Record(t, r), now, later)
  <1>1. t \in Tables /\ t.events \in SUBSET EventRecords
    BY DEF Sound, Tables
  <1>2. Record(t, r) \in Tables
    BY <1>1, RecordKeeps
  <1> DEFINE Past(e) == /\ e.start <= now
                        /\ e.end # Open => e.start <= e.end /\ e.end <= now
                        /\ e.state = "DOWN" => \A u \in e.start..EndOf(e) : u \in later
  <1>3. \A e \in t.events : Past(e)
    BY DEF Sound
  <1>4. ASSUME NEW g \in CloseEvent(t.events, now) PROVE Past(g)
    <2>1. PICK e \in t.events : /\ g.start = e.start /\ g.state = e.state
                                /\ g.end = IF e.end = Open THEN now ELSE e.end
      BY <1>1, <1>4, Closed
    <2>2. e \in EventRecords /\ Past(e)
      BY <1>1, <1>3
    <2>3. CASE e.end = Open
      <3>1. e.start = n.since /\ e.state = n.state
        BY <2>3 DEF OpenIs
      <3>2. EndOf(g) = now
        BY <2>1, <2>3 DEF EndOf, Open
      <3> QED
        BY <2>1, <2>2, <2>3, <3>1, <3>2
    <2>4. CASE e.end # Open
      <3>1. EndOf(g) = EndOf(e)
        BY <2>1, <2>4 DEF EndOf
      <3> QED
        BY <2>1, <2>2, <2>4, <3>1
    <2> QED
      BY <2>3, <2>4
  <1>5. \A g \in CloseEvent(t.events, now) : g.end # Open
    BY <1>1, Closed
  <1>6. CASE r.kind = "job" /\ Record(t, r) = [history |-> t.history \cup {r.job}, events |-> t.events]
    <2>1. Record(t, r).events = t.events
      BY <1>6
    <2> QED
      BY <1>2, <1>3, <2>1 DEF Sound
  <1>7. CASE /\ r.kind = "returns"
             /\ Record(t, r) = [history |-> t.history, events |-> CloseEvent(t.events, r.at)]
    <2>1. Record(t, r).events = CloseEvent(t.events, now)
      BY <1>7
    <2> QED
      BY <1>2, <1>4, <1>5, <2>1 DEF Sound
  <1> DEFINE new == [start |-> r.at, end |-> Open, state |-> r.state, reason |-> r.reason]
  <1>8. CASE /\ r.kind = "leaves"
             /\ Record(t, r) = [history |-> t.history, events |-> CloseEvent(t.events, r.at) \cup {new}]
    <2>1. Record(t, r).events = CloseEvent(t.events, now) \cup {new}
      BY <1>8
    <2>2. Past(new)
      <3>1. new.start = now /\ new.end = Open /\ new.state = r.state
        OBVIOUS
      <3>2. EndOf(new) = now
        BY <3>1 DEF EndOf
      <3> HIDE DEF new
      <3> QED
        BY <1>8, <3>1, <3>2
    <2> HIDE DEF new
    <2>3. \A e \in Record(t, r).events : Past(e)
      BY <1>4, <2>1, <2>2
    <2>4. \A e, f \in Record(t, r).events : e.end = Open /\ f.end = Open => e = f
      BY <1>5, <2>1
    <2> QED
      BY <1>2, <2>3, <2>4 DEF Sound
  <1> QED
    BY <1>1, <1>6, <1>7, <1>8, RecordMakes
\* A job's outage stays beside it, and the lost job's event stays, too.
LEMMA RecordCasualties ==
    ASSUME NEW t \in Tables, NEW r \in Records
    PROVE  /\ \A end : DownEvent(t, end) => DownEvent(Record(t, r), end)
           /\ \A j : Lost(t, j) => Lost(Record(t, r), j)
           /\ Casualties(t) /\ (r.kind = "job" /\ r.job.cause = "outage" => DownEvent(t, r.job.end))
                 => Casualties(Record(t, r))
  <1>1. \A e \in t.events : \E g \in Record(t, r).events : g.start = e.start /\ g.state = e.state
    BY RecordKeeps
  <1>2. \A end : DownEvent(t, end) => DownEvent(Record(t, r), end)
    <2> SUFFICES ASSUME NEW end, DownEvent(t, end) PROVE DownEvent(Record(t, r), end)
      OBVIOUS
    <2>1. PICK e \in t.events : /\ e.state = "DOWN" /\ e.start <= end
                                /\ end <= e.start + CasualtySlack
      BY DEF DownEvent
    <2>2. PICK g \in Record(t, r).events : g.start = e.start /\ g.state = e.state
      BY <1>1
    <2> QED
      BY <2>1, <2>2 DEF DownEvent
  <1>3. \A j : Lost(t, j) => Lost(Record(t, r), j)
    BY <1>1 DEF Lost
  <1>4. \A j \in Record(t, r).history : j \in t.history \/ (r.kind = "job" /\ j = r.job)
    <2> DEFINE new == [start |-> r.at, end |-> Open, state |-> r.state, reason |-> r.reason]
    <2>1. CASE /\ r.kind = "job"
               /\ Record(t, r) = [history |-> t.history \cup {r.job}, events |-> t.events]
      BY <2>1
    <2>2. CASE Record(t, r) = [history |-> t.history, events |-> CloseEvent(t.events, r.at)]
      BY <2>2
    <2>3. CASE Record(t, r) = [history |-> t.history, events |-> CloseEvent(t.events, r.at) \cup {new}]
      <3>1. Record(t, r).history = t.history
        BY <2>3
      <3> QED
        BY <3>1
    <2> QED
      BY <2>1, <2>2, <2>3, RecordMakes
  <1>5. ASSUME Casualties(t), r.kind = "job" /\ r.job.cause = "outage" => DownEvent(t, r.job.end)
        PROVE  Casualties(Record(t, r))
    <2> SUFFICES ASSUME NEW j \in Record(t, r).history, j.cause = "outage"
                 PROVE  DownEvent(Record(t, r), j.end)
      BY DEF Casualties
    <2>1. DownEvent(t, j.end)
      BY <1>4, <1>5 DEF Casualties
    <2> QED
      BY <1>2, <2>1
  <1> QED
    BY <1>2, <1>3, <1>5

\* What one more record makes of the event that has not ended.
LEMMA RecordLast ==
    ASSUME NEW t \in Tables, NEW r \in Records, NEW n, NEW n2, OpenIs(t, n),
           r.kind = "job" => n2 = n,
           r.kind = "leaves" => n2.since = r.at /\ n2.state = r.state
    PROVE  OpenIs(Record(t, r), n2)
  <1>1. t.events \in SUBSET EventRecords
    BY DEF Tables
  <1>2. \A g \in CloseEvent(t.events, r.at) : g.end # Open
    BY <1>1, Closed, RecordMakes
  <1> DEFINE new == [start |-> r.at, end |-> Open, state |-> r.state, reason |-> r.reason]
  <1>3. CASE r.kind = "job" /\ Record(t, r) = [history |-> t.history \cup {r.job}, events |-> t.events]
    BY <1>3 DEF OpenIs
  <1>4. CASE Record(t, r) = [history |-> t.history, events |-> CloseEvent(t.events, r.at)]
    BY <1>2, <1>4 DEF OpenIs
  <1>5. CASE /\ r.kind = "leaves"
             /\ Record(t, r) = [history |-> t.history, events |-> CloseEvent(t.events, r.at) \cup {new}]
    <2>1. new.start = n2.since /\ new.state = n2.state
      BY <1>5
    <2> HIDE DEF new
    <2> QED
      BY <1>2, <1>5, <2>1 DEF OpenIs
  <1> QED
    BY <1>3, <1>4, <1>5, RecordMakes

-------------------------------------------------------------------------------
(* All the tables *)

\* AllSound looks at the first n + 1 links only.
LEMMA SameLinks ==
    ASSUME NEW n \in Nat, NEW T, NEW U, NEW now, NEW downs, NEW nd, NEW jb,
           \A k \in 0..n : U[k] = T[k], AllSound(T, n, now, downs, nd, jb)
    PROVE  AllSound(U, n, now, downs, nd, jb)
  <1>1. n \in 0..n /\ U[n] = T[n]
    OBVIOUS
  <1> QED
    BY <1>1 DEF AllSound

\* A record that is sent of what happens now.
LEMMA Extended ==
    ASSUME NEW n \in Nat, NEW T, NEW now \in Nat, NEW downs, NEW later,
           NEW nd, NEW nd2, NEW jb, NEW jb2, NEW r \in Records,
           AllSound(T, n, now, downs, nd, jb),
           T[n + 1] = Record(T[n], r), downs \subseteq later, r.at = now,
           nd.state = "DOWN" => \A u \in nd.since..now : u \in downs,
           r.kind = "job" => nd2 = nd,
           r.kind = "leaves" => /\ nd2.since = now /\ nd2.state = r.state
                                /\ r.state = "DOWN" => now \in later,
           r.kind = "job" /\ r.job.cause = "outage" /\ DrainingDeath = "DOWN" =>
              DownEvent(T[n], r.job.end),
           \/ jb2.state # "lost"
           \/ jb2 = jb
           \/ /\ r.kind = "leaves" /\ jb2.since = now
              /\ DrainingDeath = "DOWN" => r.state = "DOWN"
    PROVE  AllSound(T, n + 1, now, later, nd2, jb2)
  <1> DEFINE t == T[n]
  <1>1. /\ \A k \in 0..n : Sound(T[k], now, downs)
        /\ \A i, k \in 0..n : i <= k => T[i].history \subseteq T[k].history
        /\ OpenIs(t, nd)
        /\ DrainingDeath = "DOWN" => Lost(t, jb) /\ \A k \in 0..n : Casualties(T[k])
    BY DEF AllSound
  <1>2. \A k \in 0..(n + 1) : k \in 0..n \/ k = n + 1
    OBVIOUS
  <1>3. n \in 0..n /\ t \in Tables
    BY <1>1 DEF Sound
  <1>4. \A k \in 0..(n + 1) : Sound(T[k], now, later)
    <2>1. \A k \in 0..n : Sound(T[k], now, later)
      BY <1>1 DEF Sound
    <2>2. Sound(t, now, downs)
      BY <1>1, <1>3
    <2> HIDE DEF t
    <2>3. Sound(Record(t, r), now, later)
      BY <1>1, <2>2, RecordSound
    <2> QED
      BY <1>2, <2>1, <2>3 DEF t
  <1>5. ASSUME NEW i \in 0..(n + 1), NEW k \in 0..(n + 1), i <= k
        PROVE  T[i].history \subseteq T[k].history
    <2>1. t.history \subseteq T[n + 1].history
      BY <1>3, RecordKeeps
    <2>2. CASE k \in 0..n
      BY <1>1, <1>5, <2>2
    <2>3. CASE k = n + 1 /\ i \in 0..n
      <3>1. T[i].history \subseteq t.history
        BY <1>1, <1>3, <2>3
      <3> QED
        BY <2>1, <2>3, <3>1
    <2> QED
      BY <1>2, <2>2, <2>3
  <1>6. OpenIs(T[n + 1], nd2)
    <2> HIDE DEF t
    <2>1. OpenIs(Record(t, r), nd2)
      BY <1>1, <1>3, RecordLast
    <2> QED
      BY <2>1 DEF t
  <1>7. ASSUME DrainingDeath = "DOWN"
        PROVE  Lost(T[n + 1], jb2) /\ \A k \in 0..(n + 1) : Casualties(T[k])
    <2>1. Lost(t, jb) /\ Casualties(t)
      BY <1>1, <1>3, <1>7
    <2>2. Casualties(Record(t, r))
      BY <1>3, <1>7, <2>1, RecordCasualties
    <2>3. Lost(Record(t, r), jb2)
      <3>1. CASE jb2.state # "lost"
        BY <3>1 DEF Lost
      <3>2. CASE jb2 = jb
        BY <1>3, <2>1, <3>2, RecordCasualties
      <3>3. CASE r.kind = "leaves" /\ jb2.since = now /\ r.state = "DOWN"
        <4> DEFINE new == [start |-> r.at, end |-> Open, state |-> r.state, reason |-> r.reason]
        <4>1. new \in Record(t, r).events
          BY <1>3, <3>3, RecordMakes
        <4>2. new.state = "DOWN" /\ new.start = jb2.since
          BY <3>3
        <4> HIDE DEF new
        <4> QED
          BY <4>1, <4>2 DEF Lost
      <3> QED
        BY <1>7, <3>1, <3>2, <3>3
    <2> QED
      BY <1>1, <1>2, <1>7, <2>2, <2>3
  <1> QED
    BY <1>4, <1>5, <1>6, <1>7 DEF AllSound
\* Time that passes, and jobs that start or were never lost, change nothing.
LEMMA Aged ==
    ASSUME NEW n \in Nat, NEW T, NEW now \in Nat, NEW now2 \in Nat, NEW downs, NEW later,
           NEW nd, NEW jb, NEW jb2,
           AllSound(T, n, now, downs, nd, jb), now <= now2, downs \subseteq later,
           jb2.state # "lost" \/ jb2 = jb
    PROVE  AllSound(T, n, now2, later, nd, jb2)
  <1>1. ASSUME NEW t, Sound(t, now, downs) PROVE Sound(t, now2, later)
    <2>1. t.events \in SUBSET EventRecords
      BY <1>1 DEF Sound, Tables
    <2>2. ASSUME NEW e \in t.events
          PROVE  /\ e.start <= now2
                 /\ e.end # Open => e.start <= e.end /\ e.end <= now2
                 /\ e.state = "DOWN" => \A u \in e.start..EndOf(e) : u \in later
      <3>1. e.start \in Nat /\ e.end \in Nat \cup {Open}
        BY <2>1 DEF EventRecords
      <3> QED
        BY <1>1, <3>1 DEF Sound
    <2> QED
      BY <1>1, <2>2 DEF Sound
  <1>2. ASSUME NEW t, Lost(t, jb) PROVE Lost(t, jb2)
    BY <1>2 DEF Lost
  <1> QED
    BY <1>1, <1>2 DEF AllSound

-------------------------------------------------------------------------------
(* The steps *)

\* A step that leaves slurmdbd and its records alone.
LEMMA KeptChains ==
    ASSUME IInv, UNCHANGED <<tables, pending, node>>, Present', clock <= clock',
           downTimes \subseteq downTimes', job'.state # "lost" \/ job' = job
    PROVE  IInv'
  <1>1. clock \in Nat /\ clock' \in Nat /\ Len(pending) \in Nat
    BY BoundAssumption DEF IInv, Present
  <1>2. (\E T : IsChain(T, tables, pending))'
    BY DEF IInv
  <1>3. ASSUME NEW T, IsChain(T, tables', pending')
        PROVE  AllSound(T, Len(pending'), clock', downTimes', node', job')
    <2>1. AllSound(T, Len(pending), clock, downTimes, node, job)
      BY <1>3 DEF IInv, ChainsSound
    <2> QED
      BY <1>1, <2>1, Aged
  <1> QED
    BY <1>2, <1>3 DEF IInv, ChainsSound

\* A step that sends a record of what happens now.
LEMMA SentChains ==
    ASSUME IInv, Present', UNCHANGED <<tables, clock>>, NEW r \in Records, r.at = clock,
           pending' = Append(pending, r), downTimes \subseteq downTimes',
           r.kind = "job" => node' = node,
           r.kind = "leaves" => /\ node'.since = clock /\ node'.state = r.state
                                /\ r.state = "DOWN" => clock \in downTimes',
           r.kind = "job" /\ r.job.cause = "outage" =>
              job.state = "lost" /\ r.job.end = clock,
           \/ job'.state # "lost"
           \/ job' = job
           \/ /\ r.kind = "leaves" /\ job'.since = clock
              /\ DrainingDeath = "DOWN" => r.state = "DOWN"
    PROVE  IInv'
  <1> DEFINE n == Len(pending)
  <1>1. /\ clock \in Nat /\ pending \in Seq(Records) /\ n \in Nat
        /\ node.state = "DOWN" => \A u \in node.since..clock : u \in downTimes
        /\ job.state = "lost" => clock <= job.since + CasualtySlack
        /\ job.since <= clock
    BY BoundAssumption DEF IInv, Present
  <1>2. Len(pending') = n + 1
    BY <1>1
  <1>3. (\E T : IsChain(T, tables, pending))'
    <2>1. PICK T : IsChain(T, tables, pending)
      BY DEF IInv
    <2> QED
      BY <1>1, <2>1, ChainLengthened
  <1>4. ASSUME NEW T, IsChain(T, tables', pending')
        PROVE  AllSound(T, Len(pending'), clock', downTimes', node', job')
    <2> DEFINE U == [k \in 0..n |-> T[k]]
    <2>1. IsChain(U, tables, pending) /\ T[n + 1] = Record(T[n], r)
      BY <1>1, <1>4, ChainShortened
    <2>2. AllSound(U, n, clock, downTimes, node, job)
      BY <2>1 DEF IInv, ChainsSound
    <2>3. AllSound(T, n, clock, downTimes, node, job)
      <3>1. \A k \in 0..n : T[k] = U[k]
        OBVIOUS
      <3> HIDE DEF U
      <3> QED
        BY <1>1, <2>2, <3>1, SameLinks
    <2>4. ASSUME r.kind = "job", r.job.cause = "outage", DrainingDeath = "DOWN"
          PROVE  DownEvent(T[n], r.job.end)
      <3>1. Lost(T[n], job) /\ Sound(T[n], clock, downTimes)
        BY <1>1, <2>3, <2>4 DEF AllSound
      <3>2. PICK e \in T[n].events : e.state = "DOWN" /\ e.start = job.since
        BY <2>4, <3>1 DEF Lost
      <3> QED
        BY <1>1, <2>4, <3>2 DEF DownEvent
    <2>5. AllSound(T, n + 1, clock, downTimes', node', job')
      <3> HIDE DEF n, U
      <3> QED
        BY <1>1, <2>1, <2>3, <2>4, Extended
    <2> QED
      BY <1>2, <2>5
  <1> QED
    BY <1>3, <1>4 DEF IInv, ChainsSound

\* A record that is taken in: the tables that are to come stay the same.
LEMMA TakenChains ==
    ASSUME IInv, SlurmdbdTakes
    PROVE  IInv'
  <1> DEFINE n == Len(pending)
             m == Len(Tail(pending))
  <1>1. /\ pending \in Seq(Records) /\ pending # <<>> /\ pending' = Tail(pending)
        /\ tables' = Record(tables, Head(pending))
        /\ UNCHANGED <<clock, node, job, truth>>
    BY DEF IInv, Present, SlurmdbdTakes
  <1>2. /\ Tail(pending) \in Seq(Records) /\ n \in Nat /\ m \in Nat /\ n = m + 1
        /\ \A i \in 1..m : Tail(pending)[i] = pending[i + 1]
        /\ DOMAIN pending = 1..n /\ DOMAIN Tail(pending) = 1..m
    BY <1>1
  <1>3. Present'
    <2>1. \A i \in DOMAIN pending' : pending'[i].at <= clock
      <3> SUFFICES ASSUME NEW i \in 1..m PROVE pending[i + 1].at <= clock
        BY <1>1, <1>2
      <3>1. i + 1 \in 1..n
        BY <1>2
      <3> QED
        BY <1>2, <3>1 DEF IInv, Present
    <2> QED
      BY <1>1, <1>2, <2>1 DEF IInv, Present, truth
  <1>4. (\E T : IsChain(T, tables, pending))'
    <2>1. PICK T : IsChain(T, tables, pending)
      BY DEF IInv
    <2> QED
      BY <1>1, <2>1, ChainAfter
  <1>5. ASSUME NEW T, IsChain(T, tables', pending')
        PROVE  AllSound(T, Len(pending'), clock', downTimes', node', job')
    <2> DEFINE U == [k \in 0..n |-> IF k = 0 THEN tables ELSE T[k - 1]]
    <2>1. IsChain(U, tables, pending)
      BY <1>1, <1>5, ChainBefore
    <2>2. AllSound(U, n, clock, downTimes, node, job)
      BY <2>1 DEF IInv, ChainsSound
    <2>3. \A k \in 0..m : k + 1 \in 0..n /\ U[k + 1] = T[k]
      BY <1>2
    <2> HIDE DEF U, n, m
    <2>4. \A k \in 0..m : Sound(T[k], clock, downTimes)
      BY <1>2, <2>2, <2>3 DEF AllSound
    <2>5. \A i, k \in 0..m : i <= k => T[i].history \subseteq T[k].history
      <3> SUFFICES ASSUME NEW i \in 0..m, NEW k \in 0..m, i <= k
                   PROVE  T[i].history \subseteq T[k].history
        OBVIOUS
      <3>1. i + 1 <= k + 1
        OBVIOUS
      <3>2. U[i + 1].history \subseteq U[k + 1].history
        BY <2>2, <2>3, <3>1 DEF AllSound
      <3> QED
        BY <2>3, <3>2
    <2>6. U[n] = T[m]
      BY <1>2, <2>3
    <2>7. AllSound(T, m, clock, downTimes, node, job)
      BY <1>2, <2>2, <2>3, <2>4, <2>5, <2>6 DEF AllSound
    <2> QED
      BY <1>1, <2>7 DEF m, truth
  <1> QED
    BY <1>3, <1>4, <1>5 DEF IInv, ChainsSound
LEMMA InitIInv == Init => IInv
  <1> SUFFICES ASSUME Init PROVE IInv
    OBVIOUS
  <1>1. Present
    <2>1. Blank \in SUBSET Marks
      BY DEF Blank
    <2> QED
      BY <2>1, BoundAssumption DEF Init, Present, NoJob
  <1>2. Len(pending) = 0 /\ pending \in Seq(Records) /\ tables \in Tables
    BY DEF Init, Tables
  <1>3. \E T : IsChain(T, tables, pending)
    <2> DEFINE T == [k \in 0..Len(pending) |-> tables]
    <2>1. T[0] = tables /\ T = [k \in 0..Len(pending) |-> T[k]] /\ \A k \in 1..Len(pending) : FALSE
      BY <1>2
    <2> HIDE DEF T
    <2>2. IsChain(T, tables, pending)
      BY <1>2, <2>1, LinksChain
    <2> QED
      BY <2>2
  <1>4. ASSUME NEW T, IsChain(T, tables, pending)
        PROVE  AllSound(T, Len(pending), clock, downTimes, node, job)
    <2>1. T[0] = tables
      BY <1>2, <1>4, ChainLinks
    <2>2. tables.events = {} /\ tables.history = {} /\ job.state # "lost"
      BY DEF Init, NoJob
    <2>3. \A k \in 0..0 : k = 0
      OBVIOUS
    <2> QED
      BY <1>2, <2>1, <2>2, <2>3 DEF AllSound, Sound, OpenIs, Lost, Casualties
  <1> QED
    BY <1>1, <1>3, <1>4 DEF IInv, ChainsSound

\* The node leaves service, or is out of it in another way.
LEMMA LeavesKeeps ==
    ASSUME IInv, NEW state \in {"DRAIN", "DOWN", "BOOT"}, NEW reason \in SUBSET Marks,
           Leaves(state, reason),
           \/ job' = job
           \/ /\ job' = [state |-> "lost", since |-> clock]
              /\ DrainingDeath = "DOWN" => state = "DOWN"
    PROVE  IInv'
  <1> DEFINE r == [kind |-> "leaves", at |-> clock, state |-> state, reason |-> reason]
  <1>1. clock \in 0..MaxTime /\ clock \in Nat /\ Present /\ CasualtySlack \in Nat /\ MaxTime \in Nat
    BY BoundAssumption, GapAssumption DEF IInv, Present
  <1>2. r \in Records
    BY <1>1 DEF Records
  <1>3. /\ node' = [state |-> state, reason |-> reason, since |-> clock]
        /\ pending' = Append(pending, r) /\ UNCHANGED <<clock, tables>>
        /\ outTimes' = outTimes \cup OutAt(node', clock)
        /\ downTimes' = downTimes \cup DownAt(node', clock)
    BY DEF Leaves, Send
  <1>4. OutAt(node', clock) \subseteq {clock} /\ DownAt(node', clock) \subseteq {clock}
        /\ (state = "DOWN" => clock \in downTimes')
    BY <1>3 DEF OutAt, DownAt
  <1>5. Present'
    <2>1. pending' \in Seq(Records) /\ \A i \in DOMAIN pending' : pending'[i].at <= clock
      <3> DEFINE n == Len(pending)
      <3>1. pending \in Seq(Records) /\ \A i \in DOMAIN pending : pending[i].at <= clock
        BY <1>1 DEF Present
      <3>2. r.at <= clock
        BY <1>1
      <3> HIDE DEF r
      <3> QED
        BY <1>2, <1>3, <3>1, <3>2
    <2>2. /\ node' \in [state : {"UP", "DRAIN", "DOWN", "BOOT"}, reason : SUBSET Marks, since : 0..MaxTime]
          /\ node'.since = clock /\ node'.state = state
      BY <1>1, <1>3
    <2>3. /\ job' \in [state : {"none", "running", "lost"}, since : 0..MaxTime]
          /\ job'.since <= clock
          /\ job'.state = "lost" => clock <= job'.since + CasualtySlack
      BY <1>1 DEF Present
    <2>4. outTimes' \subseteq 0..clock /\ downTimes' \subseteq 0..clock
      BY <1>1, <1>3, <1>4 DEF Present
    <2>5. node'.state = "DOWN" => \A u \in node'.since..clock : u \in downTimes'
      BY <1>1, <1>4, <2>2
    <2> HIDE DEF r
    <2> QED
      BY <1>1, <1>3, <2>1, <2>2, <2>3, <2>4, <2>5 DEF Present
  <1>6. /\ r.kind = "leaves" /\ r.at = clock /\ r.state = state
        /\ node'.since = clock /\ node'.state = state
    BY <1>3
  <1>7. \/ job' = job
        \/ job'.since = clock /\ (DrainingDeath = "DOWN" => r.state = "DOWN")
    OBVIOUS
  <1> HIDE DEF r
  <1> QED
    BY <1>2, <1>3, <1>4, <1>5, <1>6, <1>7, SentChains

\* What leaving service is, whatever brought it about.
LEMMA NodeLeaves ==
    ASSUME IInv, NodeDies \/ RebootNoticed \/ Drained \/ RebootAsked
    PROVE  \E state \in {"DRAIN", "DOWN", "BOOT"}, reason \in SUBSET Marks :
              /\ Leaves(state, reason)
              /\ \/ job' = job
                 \/ /\ job' = [state |-> "lost", since |-> clock]
                    /\ DrainingDeath = "DOWN" => state = "DOWN"
  <1> USE DEF Marks
  <1>1. node.reason \in SUBSET Marks
    BY DEF IInv, Present
  <1>2. CASE NodeDies
    <2> DEFINE state  == IF node.state = "DRAIN" THEN DrainingDeath ELSE "DOWN"
               reason == IF node.reason = Blank THEN {"not_responding"} ELSE node.reason
    <2>1. /\ state \in {"DRAIN", "DOWN", "BOOT"} /\ reason \in SUBSET Marks
          /\ DrainingDeath = "DOWN" => state = "DOWN"
      BY <1>1, DeathAssumption
    <2>2. Leaves(state, reason) /\ (job' = job \/ job' = [state |-> "lost", since |-> clock])
      BY <1>2 DEF NodeDies
    <2> HIDE DEF state, reason
    <2> QED
      BY <2>1, <2>2
  <1>3. CASE RebootNoticed
    <2>1. Leaves("DOWN", {"rebooted"}) /\ job' = job
      BY <1>3 DEF RebootNoticed
    <2>2. {"rebooted"} \in SUBSET Marks
      OBVIOUS
    <2> QED
      BY <2>1, <2>2
  <1>4. CASE Drained
    <2>1. PICK r \in {{"nhc"}, {"maint"}, {"triage", "hardware"}} : Leaves("DRAIN", r)
      BY <1>4 DEF Drained
    <2>2. job' = job /\ r \in SUBSET Marks
      BY <1>4 DEF Drained
    <2> QED
      BY <2>1, <2>2
  <1>5. CASE RebootAsked
    <2>1. PICK r \in {{"maint"}, {"words"}} : Leaves("BOOT", r)
      BY <1>5 DEF RebootAsked
    <2>2. job' = job /\ r \in SUBSET Marks
      BY <1>5 DEF RebootAsked
    <2> QED
      BY <2>1, <2>2
  <1> QED
    BY <1>2, <1>3, <1>4, <1>5

\* A record sent leaves the sequence of records well typed.
LEMMA PendingKeeps ==
    ASSUME Present, NEW r \in Records, r.at = clock, pending' = Append(pending, r), clock' = clock
    PROVE  pending' \in Seq(Records) /\ \A i \in DOMAIN pending' : pending'[i].at <= clock'
  <1>1. /\ pending \in Seq(Records) /\ \A i \in DOMAIN pending : pending[i].at <= clock
        /\ clock \in Nat
    BY BoundAssumption DEF Present
  <1> QED
    BY <1>1

LEMMA ReturnsKeeps ==
    ASSUME IInv, Returns
    PROVE  IInv'
  <1> DEFINE r == [kind |-> "returns", at |-> clock]
  <1>1. Present /\ clock \in 0..MaxTime /\ clock \in Nat /\ MaxTime \in Nat
    BY BoundAssumption DEF IInv, Present
  <1>2. r \in Records /\ r.at = clock /\ r.kind = "returns"
    BY <1>1 DEF Records
  <1>3. /\ node' = [state |-> "UP", reason |-> Blank, since |-> clock]
        /\ pending' = Append(pending, r)
        /\ UNCHANGED <<clock, job, tables, outTimes, downTimes>>
    BY DEF Returns, Send, truth
  <1> HIDE DEF r
  <1>4. Present'
    <2>1. pending' \in Seq(Records) /\ \A i \in DOMAIN pending' : pending'[i].at <= clock'
      BY <1>1, <1>2, <1>3, PendingKeeps
    <2>2. /\ node' \in [state : {"UP", "DRAIN", "DOWN", "BOOT"}, reason : SUBSET Marks, since : 0..MaxTime]
          /\ node'.since = clock /\ node'.state = "UP"
      BY <1>1, <1>3 DEF Blank
    <2> QED
      BY <1>1, <1>3, <2>1, <2>2 DEF Present
  <1> QED
    BY <1>2, <1>3, <1>4, SentChains

\* A job that ends, for a reason that goes with its state and the node blamed.
LEMMA JobEndKeeps ==
    ASSUME IInv, NEW state, NEW failed, NEW cause, JobEnds(state, failed, cause),
           [end |-> 0, state |-> state, failed |-> failed, cause |-> cause] \in JobRecords,
           cause = "outage" => job.state = "lost"
    PROVE  IInv'
  <1> DEFINE j == [end |-> clock, state |-> state, failed |-> failed, cause |-> cause]
             r == [kind |-> "job", at |-> clock, job |-> j]
  <1>1. Present /\ clock \in 0..MaxTime /\ clock \in Nat /\ MaxTime \in Nat
    BY BoundAssumption DEF IInv, Present
  <1>2. j \in JobRecords
    <2> DEFINE k == [end |-> 0, state |-> state, failed |-> failed, cause |-> cause]
    <2>1. k \in JobRecords /\ k.state = state /\ k.failed = failed /\ k.cause = cause
      OBVIOUS
    <2> HIDE DEF k
    <2> QED
      BY <1>1, <2>1 DEF JobRecords
  <1>3. pending' = Append(pending, r) /\ job' = NoJob
        /\ UNCHANGED <<clock, node, tables, outTimes, downTimes>>
    BY DEF JobEnds, Send, truth
  <1>4. /\ r \in Records /\ r.at = clock /\ r.kind = "job"
        /\ r.job.cause = "outage" => job.state = "lost" /\ r.job.end = clock
    <2>1. r \in Records
      <3> HIDE DEF j
      <3> QED
        BY <1>1, <1>2 DEF Records
    <2> QED
      BY <2>1
  <1> HIDE DEF r, j
  <1>5. Present'
    <2>1. pending' \in Seq(Records) /\ \A i \in DOMAIN pending' : pending'[i].at <= clock'
      BY <1>1, <1>3, <1>4, PendingKeeps
    <2> QED
      BY <1>1, <1>3, <2>1 DEF Present, NoJob
  <1>6. job'.state # "lost"
    BY <1>3 DEF NoJob
  <1> QED
    BY <1>3, <1>4, <1>5, <1>6, SentChains

\* The records of jobs are jobs.
LEMMA JobRecorded ==
    ASSUME JobLost \/ JobDone \/ JobEaten \/ JobElsewhere
    PROVE  \E state, failed, cause :
              /\ JobEnds(state, failed, cause)
              /\ [end |-> 0, state |-> state, failed |-> failed, cause |-> cause] \in JobRecords
              /\ cause = "outage" => job.state = "lost"
  <1> DEFINE Ended(state, failed, cause) ==
                [end |-> 0, state |-> state, failed |-> failed, cause |-> cause] \in JobRecords
  <1>1. /\ \A f \in {"this", ""} : Ended("NODE_FAIL", f, "outage") /\ Ended("NODE_FAIL", f, "eaten")
        /\ Ended("COMPLETED", "", "done") /\ Ended("NODE_FAIL", "other", "elsewhere")
    BY DEF JobRecords
  <1>2. CASE JobLost
    <2>1. PICK f \in {"this", ""} : JobEnds("NODE_FAIL", f, "outage")
      BY <1>2 DEF JobLost
    <2>2. job.state = "lost"
      BY <1>2 DEF JobLost
    <2> WITNESS "NODE_FAIL", f, "outage"
    <2> QED
      BY <1>1, <2>1, <2>2
  <1>3. CASE JobDone
    <2>1. JobEnds("COMPLETED", "", "done")
      BY <1>3 DEF JobDone
    <2> WITNESS "COMPLETED", "", "done"
    <2> QED
      BY <1>1, <2>1
  <1>4. CASE JobEaten
    <2>1. PICK f \in {"this", ""} : JobEnds("NODE_FAIL", f, "eaten")
      BY <1>4 DEF JobEaten
    <2> WITNESS "NODE_FAIL", f, "eaten"
    <2> QED
      BY <1>1, <2>1
  <1>5. CASE JobElsewhere
    <2>1. JobEnds("NODE_FAIL", "other", "elsewhere")
      BY <1>5 DEF JobElsewhere
    <2> WITNESS "NODE_FAIL", "other", "elsewhere"
    <2> QED
      BY <1>1, <2>1
  <1> QED
    BY <1>2, <1>3, <1>4, <1>5

\* A minute passes: the node is in the state it was in for one minute more.
LEMMA TickKeeps ==
    ASSUME IInv, Tick
    PROVE  IInv'
  <1>1. Present /\ clock \in 0..MaxTime /\ clock \in Nat /\ MaxTime \in Nat /\ CasualtySlack \in Nat
    BY BoundAssumption, GapAssumption DEF IInv, Present
  <1>2. /\ clock' = clock + 1 /\ clock < MaxTime
        /\ job.state = "lost" => clock < job.since + CasualtySlack
        /\ outTimes' = outTimes \cup OutAt(node, clock')
        /\ downTimes' = downTimes \cup DownAt(node, clock')
        /\ UNCHANGED <<node, job, tables, pending>>
    BY DEF Tick
  <1>3. /\ OutAt(node, clock') \subseteq {clock'} /\ DownAt(node, clock') \subseteq {clock'}
        /\ node.state = "DOWN" => clock' \in downTimes'
    BY <1>2 DEF OutAt, DownAt
  <1>4. Present'
    <2>1. outTimes' \subseteq 0..clock' /\ downTimes' \subseteq 0..clock'
      <3>1. 0..clock \subseteq 0..clock' /\ clock' \in 0..clock'
        BY <1>1, <1>2
      <3>2. outTimes \subseteq 0..clock /\ downTimes \subseteq 0..clock
        BY <1>1 DEF Present
      <3> QED
        BY <1>2, <1>3, <3>1, <3>2
    <2>2. node.state = "DOWN" => \A u \in node.since..clock' : u \in downTimes'
      <3> SUFFICES ASSUME node.state = "DOWN", NEW u \in node.since..clock' PROVE u \in downTimes'
        OBVIOUS
      <3>1. node.since \in Nat
        BY <1>1 DEF Present
      <3>2. u \in node.since..clock \/ u = clock'
        BY <1>1, <1>2, <3>1
      <3> QED
        BY <1>1, <1>2, <1>3, <3>2 DEF Present
    <2>3. job.state = "lost" => clock' <= job.since + CasualtySlack
      <3>1. job.since \in Nat
        BY <1>1 DEF Present
      <3> QED
        BY <1>1, <1>2, <3>1
    <2>4. node.since <= clock' /\ job.since <= clock'
      <3>1. node.since \in Nat /\ job.since \in Nat
        BY <1>1 DEF Present
      <3> QED
        BY <1>1, <1>2, <3>1 DEF Present
    <2>5. \A i \in DOMAIN pending : pending[i].at <= clock'
      <3> SUFFICES ASSUME NEW i \in DOMAIN pending PROVE pending[i].at <= clock'
        OBVIOUS
      <3>1. pending[i] \in Records /\ pending[i].at <= clock
        BY <1>1 DEF Present
      <3>2. pending[i].at \in Nat
        BY <3>1 DEF Records
      <3> QED
        BY <1>1, <1>2, <3>1, <3>2
    <2>6. clock' \in 0..MaxTime
      BY <1>1, <1>2
    <2> QED
      BY <1>1, <1>2, <2>1, <2>2, <2>3, <2>4, <2>5, <2>6 DEF Present
  <1>5. clock <= clock' /\ downTimes \subseteq downTimes'
    BY <1>1, <1>2
  <1> QED
    BY <1>2, <1>4, <1>5, KeptChains

LEMMA JobStartsKeeps ==
    ASSUME IInv, JobStarts
    PROVE  IInv'
  <1>1. /\ job' = [state |-> "running", since |-> clock]
        /\ UNCHANGED <<clock, node, tables, pending, outTimes, downTimes>>
    BY DEF JobStarts, truth
  <1>2. clock \in 0..MaxTime /\ clock \in Nat /\ Present
    BY BoundAssumption DEF IInv, Present
  <1>3. Present'
    BY <1>1, <1>2 DEF Present
  <1> QED
    BY <1>1, <1>2, <1>3, KeptChains

\* Every step keeps the invariant.
LEMMA StepIInv == IInv /\ [Next]_vars => IInv'
  <1> SUFFICES ASSUME IInv, [Next]_vars PROVE IInv'
    OBVIOUS
  <1>1. CASE UNCHANGED vars
    BY <1>1 DEF vars, IInv, Present, ChainsSound
  <1> QED
    BY <1>1, NodeLeaves, LeavesKeeps, ReturnsKeeps, JobRecorded, JobEndKeeps, TickKeeps,
       JobStartsKeeps, TakenChains DEF Next

\* The inductive invariant holds always.
THEOREM Inductive == Spec => []IInv
  BY InitIInv, StepIInv, PTL DEF Spec
-------------------------------------------------------------------------------
(* The properties *)

\* The variables stay in their types; the events in slurmdbd lie in the past, and
\* at most one of them has not ended.
THEOREM TypeCorrect == Spec => []TypeOK
  <1>1. IInv => TypeOK
    <2> SUFFICES ASSUME IInv PROVE TypeOK
      OBVIOUS
    <2>1. PICK T : IsChain(T, tables, pending)
      BY DEF IInv
    <2>2. AllSound(T, Len(pending), clock, downTimes, node, job) /\ Present
      BY <2>1 DEF IInv, ChainsSound
    <2>3. pending \in Seq(Records) /\ Len(pending) \in Nat /\ clock \in Nat
      BY <2>2, BoundAssumption DEF Present
    <2>4. T[0] = tables /\ Sound(T[0], clock, downTimes)
      BY <2>1, <2>2, <2>3, ChainLinks DEF AllSound
    <2>5. Sound(tables, clock, downTimes)
      BY <2>4
    <2>6. ASSUME NEW e \in tables.events
          PROVE  e.start \in 0..clock /\ e.end \in {Open} \cup e.start..clock
      <3>1. e \in EventRecords
        BY <2>5 DEF Sound, Tables
      <3> QED
        BY <2>3, <2>5, <3>1 DEF Sound, EventRecords
    <2>7. ASSUME NEW i \in DOMAIN pending PROVE pending[i].at \in 0..clock
      <3>1. pending[i] \in Records /\ pending[i].at <= clock
        BY <2>2, <2>3 DEF Present
      <3>2. pending[i].at \in Nat
        BY <3>1 DEF Records
      <3> QED
        BY <2>3, <3>1, <3>2
    <2>8. Cardinality({e \in tables.events : e.end = Open}) <= 1
      <3> DEFINE open == {e \in tables.events : e.end = Open}
      <3>1. open = {} \/ \E e : open = {e}
        BY <2>5 DEF Sound
      <3> HIDE DEF open
      <3>2. Cardinality(open) = 0 \/ Cardinality(open) = 1
        BY <3>1, FS_EmptySet, FS_Singleton
      <3>3. Cardinality(open) <= 1
        BY <3>2
      <3> QED
        BY <3>3 DEF open
    <2> QED
      BY <2>2, <2>6, <2>7, <2>8 DEF TypeOK, Present
  <1> QED
    BY <1>1, Inductive, PTL

\* What a call reads of a chain of tables.
LEMMA ReadsOfChain ==
    ASSUME IInv, NEW r \in Reads
    PROVE  \E t, u : /\ Sound(t, clock, downTimes) /\ Sound(u, clock, downTimes)
                     /\ t.history \subseteq u.history
                     /\ r = [history |-> History(t), events |-> Events(u)]
                     /\ DrainingDeath = "DOWN" => Casualties(u)
  <1> DEFINE n == Len(pending)
  <1>1. n \in Nat
    BY DEF IInv, Present
  <1>2. PICK T : /\ IsChain(T, tables, pending)
                 /\ \A i \in 0..n : TablesAfter(i) = T[i]
    BY AfterIsChain DEF IInv
  <1>3. AllSound(T, n, clock, downTimes, node, job)
    BY <1>2 DEF IInv, ChainsSound
  <1>4. PICK f \in 0..n : \E s \in f..n : r = Take(f, s)
    BY DEF Reads
  <1>5. PICK s \in f..n : r = Take(f, s)
    BY <1>4
  <1>6. s \in 0..n /\ f <= s
    BY <1>1, <1>4
  <1>7. r = [history |-> History(T[f]), events |-> Events(T[s])]
    BY <1>2, <1>5, <1>6 DEF Take
  <1> HIDE DEF n
  <1> QED
    BY <1>3, <1>6, <1>7 DEF AllSound

\* A job that an outage of its node took down never counts against the node,
\* wherever slurmdbd is in its records at either read, when a draining node's
\* death is logged as DOWN.
THEOREM CasualtiesAreExplained ==
    ASSUME DrainingDeath = "DOWN"
    PROVE  Spec => []CasualtiesExplained
  <1>1. IInv => CasualtiesExplained
    <2> SUFFICES ASSUME IInv, NEW r \in Reads, NEW j \in Unexplained(r.history, r.events),
                        j.cause = "outage"
                 PROVE  FALSE
      BY DEF CasualtiesExplained
    <2>1. PICK t, u : /\ Sound(t, clock, downTimes) /\ Sound(u, clock, downTimes)
                      /\ t.history \subseteq u.history
                      /\ r = [history |-> History(t), events |-> Events(u)]
                      /\ Casualties(u)
      BY ReadsOfChain
    <2>2. j \in t.history /\ j.end >= clock - HistoryWindow
      BY <2>1 DEF Unexplained, NodeFailJobs, History
    <2>3. j.end \in Nat
      BY <2>1, <2>2 DEF Sound, Tables, JobRecords
    <2>4. PICK e \in u.events : /\ e.state = "DOWN" /\ e.start <= j.end
                                /\ j.end <= e.start + CasualtySlack
      BY <2>1, <2>2 DEF Casualties, DownEvent
    <2>5. /\ e.start \in Nat /\ e.end \in Nat \cup {Open}
          /\ e.end # Open => e.start <= e.end
      BY <2>1, <2>4 DEF Sound, Tables, EventRecords
    <2>6. clock \in Nat /\ CasualtySlack \in Nat /\ HistoryWindow \in Nat /\ EventWindow \in Nat
          /\ HistoryWindow + CasualtySlack <= EventWindow
      BY BoundAssumption, GapAssumption, WindowAssumption DEF IInv, Present
    <2>7. EndOf(e) \in Nat /\ e.start <= EndOf(e)
      BY <2>5 DEF EndOf
    <2>8. Explains(j, e)
      BY <2>3, <2>4, <2>5, <2>6, <2>7 DEF Explains
    <2>9. e \in Events(u)
      BY <2>2, <2>3, <2>4, <2>5, <2>6 DEF Events
    <2> QED
      BY <2>1, <2>8, <2>9 DEF Unexplained
  <1> QED
    BY <1>1, Inductive, PTL

\* A job that failed on a node that had not been DOWN, nor would be, within the
\* slack always counts, as soon as it is read; another node's failure never does.
THEOREM EatenJobsAreCounted == Spec => []EatenJobsCounted
  <1>1. IInv => EatenJobsCounted
    <2> SUFFICES ASSUME IInv, NEW r \in Reads, NEW j \in r.history
                 PROVE  /\ j.cause = "elsewhere" => j \notin Unexplained(r.history, r.events)
                        /\ /\ j.cause = "eaten"
                           /\ \A d \in downTimes : d < j.end - CasualtySlack \/ d > j.end + CasualtySlack
                           => j \in Unexplained(r.history, r.events)
      BY DEF EatenJobsCounted
    <2>1. PICK t, u : /\ Sound(t, clock, downTimes) /\ Sound(u, clock, downTimes)
                      /\ r = [history |-> History(t), events |-> Events(u)]
      BY ReadsOfChain
    <2>2. j \in JobRecords
      BY <2>1 DEF History, Sound, Tables
    <2>3. j.cause = "elsewhere" => j \notin NodeFailJobs(r.history)
      BY <2>2 DEF JobRecords, NodeFailJobs
    <2>4. ASSUME j.cause = "eaten",
                 \A d \in downTimes : d < j.end - CasualtySlack \/ d > j.end + CasualtySlack,
                 NEW e \in r.events, Explains(j, e)
          PROVE  FALSE
      <3>1. e \in u.events
        BY <2>1 DEF Events
      <3>2. /\ e.state = "DOWN" /\ e.start - CasualtySlack <= j.end
            /\ j.end <= EndOf(e) + CasualtySlack
        BY <2>4 DEF Explains
      <3>3. /\ e.start \in Nat /\ e.end \in Nat \cup {Open}
            /\ e.end # Open => e.start <= e.end
            /\ \A d \in e.start..EndOf(e) : d \in downTimes
        BY <2>1, <3>1, <3>2 DEF Sound, Tables, EventRecords
      <3>4. EndOf(e) \in Nat /\ e.start <= EndOf(e)
        BY <3>3 DEF EndOf
      <3>5. j.end \in Nat /\ CasualtySlack \in Nat
        BY <2>2, GapAssumption DEF JobRecords
      <3>6. PICK d \in e.start..EndOf(e) :
               j.end - CasualtySlack <= d /\ d <= j.end + CasualtySlack
        <4>1. CASE j.end < e.start
          <5>1. e.start \in e.start..EndOf(e)
            BY <3>3, <3>4
          <5> QED
            BY <3>2, <3>3, <3>5, <4>1, <5>1
        <4>2. CASE j.end > EndOf(e)
          <5>1. EndOf(e) \in e.start..EndOf(e)
            BY <3>3, <3>4
          <5> QED
            BY <3>2, <3>4, <3>5, <4>2, <5>1
        <4>3. CASE j.end \in e.start..EndOf(e)
          BY <3>5, <4>3
        <4> QED
          BY <3>3, <3>4, <3>5, <4>1, <4>2, <4>3
      <3>7. d \in downTimes /\ d \in Nat
        BY <3>3, <3>4, <3>6
      <3> QED
        BY <2>4, <3>5, <3>6, <3>7
    <2>5. j.cause = "eaten" => j \in NodeFailJobs(r.history)
      BY <2>2 DEF JobRecords, NodeFailJobs
    <2> QED
      BY <2>3, <2>4, <2>5 DEF Unexplained
  <1> QED
    BY <1>1, Inductive, PTL
-------------------------------------------------------------------------------
(* What the events say once slurmdbd has caught up *)

\* An event's last moment, so far.
Until(e, now) == IF e.end = Open THEN now ELSE e.end

\* The events follow one another, the node is in the one that has not ended, and
\* together they are the times it was out of service and not for maintenance.
Logged(evs, nd, now, outs) ==
    /\ \A e \in evs :
          /\ e.start <= nd.since
          /\ e.end # Open => e.start < e.end /\ e.end <= nd.since
          /\ e.end = Open => nd.state # "UP" /\ e.start = nd.since /\ e.reason = nd.reason
    /\ nd.state # "UP" => \E e \in evs : e.end = Open
    /\ \A e, f \in evs : e.start = f.start => e = f
    /\ \A e, f \in evs : e.start < f.start => e.end # Open /\ e.end <= f.start
    /\ \A t : t \in outs <=> \E e \in Counted(evs) : t \in e.start..Until(e, now)

LogInv ==
    \A T : IsChain(T, tables, pending) =>
              Logged(T[Len(pending)].events, node, clock, outTimes)

\* A moment passes.
LEMMA TickLogged ==
    ASSUME NEW evs \in SUBSET EventRecords, NEW nd, nd.since \in Nat, NEW now \in Nat, nd.since <= now,
           NEW outs, Logged(evs, nd, now, outs)
    PROVE  Logged(evs, nd, now + 1, outs \cup OutAt(nd, now + 1))
  <1>1. \A e \in evs : e.start \in Nat /\ e.end \in Nat \cup {Open}
    BY DEF EventRecords
  <1>2. Counted(evs) \subseteq evs
    BY DEF Counted
  <1>3. Open \notin Nat
    BY DEF Open
  <1>4. ASSUME NEW t
        PROVE  t \in outs \cup OutAt(nd, now + 1)
                  <=> \E e \in Counted(evs) : t \in e.start..Until(e, now + 1)
    <2>1. ASSUME t \in outs PROVE \E e \in Counted(evs) : t \in e.start..Until(e, now + 1)
      <3>1. PICK e \in Counted(evs) : t \in e.start..Until(e, now)
        BY <2>1 DEF Logged
      <3>2. t \in e.start..Until(e, now + 1)
        BY <1>1, <1>2, <3>1 DEF Until
      <3> QED
        BY <3>1, <3>2
    <2>2. ASSUME t \in OutAt(nd, now + 1)
          PROVE  \E e \in Counted(evs) : t \in e.start..Until(e, now + 1)
      <3>1. nd.state # "UP" /\ Classify(nd.reason) # "maintenance" /\ t = now + 1
        BY <2>2 DEF OutAt
      <3>2. PICK e \in evs : e.end = Open
        BY <3>1 DEF Logged
      <3>3. e.start = nd.since /\ e.reason = nd.reason
        BY <3>2 DEF Logged
      <3>4. e \in Counted(evs)
        BY <3>1, <3>3 DEF Counted
      <3>5. t \in e.start..Until(e, now + 1)
        BY <3>1, <3>2, <3>3 DEF Until
      <3> QED
        BY <3>4, <3>5
    <2>3. ASSUME NEW e \in Counted(evs), t \in e.start..Until(e, now + 1)
          PROVE  t \in outs \cup OutAt(nd, now + 1)
      <3>1. CASE t \in e.start..Until(e, now)
        BY <3>1 DEF Logged
      <3>2. CASE t \notin e.start..Until(e, now)
        <4>1. e.end = Open /\ t = now + 1
          BY <1>1, <1>2, <2>3, <3>2 DEF Until
        <4>2. nd.state # "UP" /\ e.reason = nd.reason
          BY <1>2, <4>1 DEF Logged
        <4>3. Classify(nd.reason) # "maintenance"
          BY <4>2 DEF Counted
        <4> QED
          BY <4>1, <4>2, <4>3 DEF OutAt
      <3> QED
        BY <3>1, <3>2
    <2> QED
      BY <2>1, <2>2, <2>3
  <1> QED
    BY <1>4 DEF Logged

\* The same of events that have all ended.
AllEnded(done, now, outs) ==
    /\ done \subseteq EventRecords
    /\ \A g \in done : /\ g.start < now
                       /\ g.end # Open /\ g.start < g.end /\ g.end <= now
    /\ \A e, f \in done : e.start = f.start => e = f
    /\ \A e, f \in done : e.start < f.start => e.end <= f.start
    /\ \A t : t \in outs <=> \E e \in Counted(done) : t \in e.start..Until(e, now)

\* The event the node was in has ended now; all else stays.
LEMMA LogClosed ==
    ASSUME NEW evs \in SUBSET EventRecords, NEW nd, nd.since \in Nat, NEW now \in Nat, nd.since < now,
           NEW outs, Logged(evs, nd, now, outs), NEW done, done = CloseEvent(evs, now)
    PROVE  AllEnded(done, now, outs)
  <1>1. \A e \in evs : e.start \in Nat /\ e.end \in Nat \cup {Open}
    BY DEF EventRecords
  <1>2. Open \notin Nat
    BY DEF Open
  <1>3. /\ done \subseteq EventRecords
        /\ \A g \in done :
              \E e \in evs : /\ g.start = e.start /\ g.state = e.state /\ g.reason = e.reason
                             /\ g.end = Until(e, now)
        /\ \A e \in evs : \E g \in done :
                             /\ g.start = e.start /\ g.state = e.state /\ g.reason = e.reason
                             /\ g.end = Until(e, now)
        /\ \A g \in done : g.end # Open
    BY Closed DEF Until
  <1>4. ASSUME NEW g \in done
        PROVE  g.start < now /\ g.end # Open /\ g.start < g.end /\ g.end <= now
    <2>1. PICK e \in evs : g.start = e.start /\ g.end = Until(e, now)
      BY <1>3
    <2> QED
      BY <1>1, <1>3, <2>1 DEF Logged, Until
  <1>5. ASSUME NEW g \in done, NEW h \in done, g.start = h.start PROVE g = h
    <2>1. PICK e \in evs : /\ g.start = e.start /\ g.state = e.state /\ g.reason = e.reason
                           /\ g.end = Until(e, now)
      BY <1>3
    <2>2. PICK f \in evs : /\ h.start = f.start /\ h.state = f.state /\ h.reason = f.reason
                           /\ h.end = Until(f, now)
      BY <1>3
    <2>3. e = f
      BY <1>5, <2>1, <2>2 DEF Logged
    <2>4. g \in EventRecords /\ h \in EventRecords
      BY <1>3
    <2> QED
      BY <2>1, <2>2, <2>3, <2>4 DEF EventRecords
  <1>6. ASSUME NEW g \in done, NEW h \in done, g.start < h.start PROVE g.end <= h.start
    <2>1. PICK e \in evs : g.start = e.start /\ g.end = Until(e, now)
      BY <1>3
    <2>2. PICK f \in evs : h.start = f.start
      BY <1>3
    <2>3. e.end # Open /\ e.end <= f.start
      BY <1>6, <2>1, <2>2 DEF Logged
    <2> QED
      BY <2>1, <2>2, <2>3 DEF Until
  <1>7. ASSUME NEW t
        PROVE  t \in outs <=> \E e \in Counted(done) : t \in e.start..Until(e, now)
    <2>1. t \in outs <=> \E e \in Counted(evs) : t \in e.start..Until(e, now)
      BY DEF Logged
    <2>2. ASSUME NEW g \in Counted(done), t \in g.start..Until(g, now)
          PROVE  \E e \in Counted(evs) : t \in e.start..Until(e, now)
      <3>1. PICK e \in evs : g.start = e.start /\ g.reason = e.reason /\ g.end = Until(e, now)
        BY <1>3 DEF Counted
      <3>2. e \in Counted(evs)
        BY <3>1 DEF Counted
      <3>3. Until(g, now) = Until(e, now)
        BY <1>4, <3>1 DEF Counted, Until
      <3> QED
        BY <2>2, <3>1, <3>2, <3>3
    <2>3. ASSUME NEW e \in Counted(evs), t \in e.start..Until(e, now)
          PROVE  \E g \in Counted(done) : t \in g.start..Until(g, now)
      <3>1. PICK g \in done : g.start = e.start /\ g.reason = e.reason /\ g.end = Until(e, now)
        BY <1>3 DEF Counted
      <3>2. g \in Counted(done)
        BY <3>1 DEF Counted
      <3>3. Until(g, now) = Until(e, now)
        BY <1>4, <3>1 DEF Until
      <3> QED
        BY <2>3, <3>1, <3>2, <3>3
    <2> QED
      BY <2>1, <2>2, <2>3
  <1> QED
    BY <1>3, <1>4, <1>5, <1>6, <1>7 DEF AllEnded

\* The node is in service again.
LEMMA ReturnsLogged ==
    ASSUME NEW evs \in SUBSET EventRecords, NEW nd, nd.since \in Nat, NEW now \in Nat, nd.since < now,
           NEW outs, Logged(evs, nd, now, outs),
           NEW nd2, nd2.state = "UP", nd2.since = now
    PROVE  Logged(CloseEvent(evs, now), nd2, now, outs)
  <1> DEFINE done == CloseEvent(evs, now)
  <1>1. AllEnded(done, now, outs)
    BY LogClosed
  <1> HIDE DEF done
  <1>2. \A g \in done : g.start \in Nat
    BY <1>1 DEF AllEnded, EventRecords
  <1>3. Logged(done, nd2, now, outs)
    BY <1>1, <1>2 DEF Logged, AllEnded
  <1> QED
    BY <1>3 DEF done

\* The node leaves service, or is out of it for another reason.
LEMMA LeavesLogged ==
    ASSUME NEW evs \in SUBSET EventRecords, NEW nd, nd.since \in Nat, NEW now \in Nat, nd.since < now,
           NEW outs, Logged(evs, nd, now, outs),
           NEW nd2, nd2.state # "UP", nd2.since = now,
           NEW new, new.start = now, new.end = Open, new.reason = nd2.reason
    PROVE  Logged(CloseEvent(evs, now) \cup {new}, nd2, now, outs \cup OutAt(nd2, now))
  <1> DEFINE done == CloseEvent(evs, now)
             all  == done \cup {new}
  <1>1. AllEnded(done, now, outs)
    BY LogClosed
  <1> HIDE DEF done
  <1>2. \A g \in done : g.start \in Nat
    BY <1>1 DEF AllEnded, EventRecords
  <1>3. \A e \in all : /\ e.start <= nd2.since
                       /\ e.end # Open => e.start < e.end /\ e.end <= nd2.since
                       /\ e.end = Open => /\ nd2.state # "UP" /\ e.start = nd2.since
                                          /\ e.reason = nd2.reason
    BY <1>1, <1>2 DEF AllEnded
  <1>4. \A e, f \in all : e.start = f.start => e = f
    BY <1>1, <1>2 DEF AllEnded
  <1>5. \A e, f \in all : e.start < f.start => e.end # Open /\ e.end <= f.start
    BY <1>1, <1>2 DEF AllEnded
  <1>6. ASSUME NEW t
        PROVE  t \in outs \cup OutAt(nd2, now)
                  <=> \E e \in Counted(all) : t \in e.start..Until(e, now)
    <2>1. t \in OutAt(nd2, now) <=> new \in Counted(all) /\ t \in new.start..Until(new, now)
      BY DEF OutAt, Counted, Until
    <2>2. \A e : e \in Counted(all) <=> e \in Counted(done) \/ (e = new /\ new \in Counted(all))
      BY DEF Counted
    <2> HIDE DEF all
    <2> QED
      BY <1>1, <2>1, <2>2 DEF AllEnded
  <1>7. new \in all
    OBVIOUS
  <1>8. Logged(all, nd2, now, outs \cup OutAt(nd2, now))
    <2> HIDE DEF all
    <2> QED
      BY <1>3, <1>4, <1>5, <1>6, <1>7 DEF Logged
  <1> QED
    BY <1>8 DEF all, done

\* The tables there will be, at the end of a chain.
LEMMA EndOfChain ==
    ASSUME IInv, NEW T, IsChain(T, tables, pending)
    PROVE  /\ Len(pending) \in Nat /\ Sound(T[Len(pending)], clock, downTimes)
           /\ T[Len(pending)] \in Tables /\ T[Len(pending)].events \in SUBSET EventRecords
  <1>1. Len(pending) \in Nat
    BY DEF IInv, Present
  <1>2. AllSound(T, Len(pending), clock, downTimes, node, job)
    BY DEF IInv, ChainsSound
  <1>3. Sound(T[Len(pending)], clock, downTimes)
    BY <1>1, <1>2 DEF AllSound
  <1> QED
    BY <1>1, <1>3 DEF Sound, Tables

\* A step that sends a record.
LEMMA SentLog ==
    ASSUME IInv, LogInv, NEW r \in Records, tables' = tables, pending' = Append(pending, r),
           \A t \in Tables : Logged(t.events, node, clock, outTimes) =>
                                Logged(Record(t, r).events, node', clock', outTimes')
    PROVE  LogInv'
  <1> DEFINE n == Len(pending)
  <1>1. pending \in Seq(Records) /\ n \in Nat /\ Len(pending') = n + 1
    BY DEF IInv, Present
  <1>2. ASSUME NEW T, IsChain(T, tables', pending')
        PROVE  Logged(T[Len(pending')].events, node', clock', outTimes')
    <2> DEFINE U == [k \in 0..n |-> T[k]]
    <2>1. IsChain(U, tables, pending) /\ T[n + 1] = Record(T[n], r)
      BY <1>1, <1>2, ChainShortened
    <2>2. Logged(U[n].events, node, clock, outTimes) /\ U[n] \in Tables
      BY <2>1, EndOfChain DEF LogInv
    <2>3. U[n] = T[n]
      BY <1>1
    <2> QED
      BY <1>1, <2>1, <2>2, <2>3
  <1> QED
    BY <1>2 DEF LogInv

\* A step that sends none.
LEMMA KeptLog ==
    ASSUME IInv, LogInv, UNCHANGED <<tables, pending>>,
           \A evs \in SUBSET EventRecords : Logged(evs, node, clock, outTimes) =>
                                               Logged(evs, node', clock', outTimes')
    PROVE  LogInv'
  <1>1. ASSUME NEW T, IsChain(T, tables', pending')
        PROVE  Logged(T[Len(pending')].events, node', clock', outTimes')
    <2>1. IsChain(T, tables, pending)
      BY <1>1
    <2>2. T[Len(pending)].events \in SUBSET EventRecords
      BY <2>1, EndOfChain
    <2>3. Logged(T[Len(pending)].events, node, clock, outTimes)
      BY <2>1 DEF LogInv
    <2> QED
      BY <2>2, <2>3
  <1> QED
    BY <1>1 DEF LogInv

\* A record that is taken in is one that was under way: they come to the same.
LEMMA TakenLog ==
    ASSUME IInv, LogInv, SlurmdbdTakes
    PROVE  LogInv'
  <1>1. /\ pending \in Seq(Records) /\ pending # <<>> /\ pending' = Tail(pending)
        /\ tables' = Record(tables, Head(pending))
        /\ UNCHANGED <<clock, node, outTimes>>
    BY DEF IInv, Present, SlurmdbdTakes, truth
  <1>2. Len(pending') \in Nat /\ Len(pending) = Len(pending') + 1
    BY <1>1
  <1>3. ASSUME NEW T, IsChain(T, tables', pending')
        PROVE  Logged(T[Len(pending')].events, node, clock, outTimes)
    <2> DEFINE U == [k \in 0..Len(pending) |-> IF k = 0 THEN tables ELSE T[k - 1]]
    <2>1. IsChain(U, tables, pending)
      BY <1>1, <1>3, ChainBefore
    <2>2. U[Len(pending)] = T[Len(pending')]
      BY <1>2
    <2> HIDE DEF U
    <2> QED
      BY <2>1, <2>2 DEF LogInv
  <1> QED
    BY <1>1, <1>3 DEF LogInv

LEMMA LeavesLog ==
    ASSUME IInv, LogInv, NEW state \in {"DRAIN", "DOWN", "BOOT"}, NEW reason \in SUBSET Marks,
           Leaves(state, reason)
    PROVE  LogInv'
  <1> DEFINE r == [kind |-> "leaves", at |-> clock, state |-> state, reason |-> reason]
             new == [start |-> clock, end |-> Open, state |-> state, reason |-> reason]
  <1>1. clock \in Nat /\ node.since \in Nat /\ node.since < clock
    BY BoundAssumption DEF IInv, Present, Leaves
  <1>2. r \in Records
    BY <1>1 DEF Records
  <1>3. /\ node'.state = state /\ node'.reason = reason /\ node'.since = clock
        /\ pending' = Append(pending, r) /\ UNCHANGED <<clock, tables>>
        /\ outTimes' = outTimes \cup OutAt(node', clock)
    BY DEF Leaves, Send
  <1>4. new.start = clock /\ new.end = Open /\ new.reason = reason /\ state # "UP"
    OBVIOUS
  <1>5. r.kind = "leaves" /\ r.at = clock
        /\ new = [start |-> r.at, end |-> Open, state |-> r.state, reason |-> r.reason]
    OBVIOUS
  <1> HIDE DEF r, new
  <1>6. ASSUME NEW t \in Tables, Logged(t.events, node, clock, outTimes)
        PROVE  Logged(Record(t, r).events, node', clock', outTimes')
    <2>1. t.events \in SUBSET EventRecords
      BY DEF Tables
    <2>2. Logged(CloseEvent(t.events, clock) \cup {new}, node', clock, outTimes \cup OutAt(node', clock))
      BY <1>1, <1>3, <1>4, <1>6, <2>1, LeavesLogged
    <2>3. Record(t, r).events = CloseEvent(t.events, clock) \cup {new}
      <3>1. Record(t, r) = [history |-> t.history, events |-> CloseEvent(t.events, clock) \cup {new}]
        BY <1>2, <1>5, RecordMakes
      <3> QED
        BY <3>1
    <2> QED
      BY <1>3, <2>2, <2>3
  <1> QED
    BY <1>2, <1>3, <1>6, SentLog

LEMMA ReturnsLog ==
    ASSUME IInv, LogInv, Returns
    PROVE  LogInv'
  <1> DEFINE r == [kind |-> "returns", at |-> clock]
  <1>1. clock \in Nat /\ node.since \in Nat /\ node.since < clock
    BY BoundAssumption DEF IInv, Present, Returns
  <1>2. r \in Records
    BY <1>1 DEF Records
  <1>3. /\ node'.state = "UP" /\ node'.since = clock
        /\ pending' = Append(pending, r)
        /\ UNCHANGED <<clock, tables, outTimes>>
    BY DEF Returns, Send, truth
  <1>4. r.kind = "returns" /\ r.at = clock
    OBVIOUS
  <1> HIDE DEF r
  <1>5. ASSUME NEW t \in Tables, Logged(t.events, node, clock, outTimes)
        PROVE  Logged(Record(t, r).events, node', clock', outTimes')
    <2>1. t.events \in SUBSET EventRecords
      BY DEF Tables
    <2>2. Logged(CloseEvent(t.events, clock), node', clock, outTimes)
      BY <1>1, <1>3, <1>5, <2>1, ReturnsLogged
    <2>3. Record(t, r).events = CloseEvent(t.events, clock)
      <3>1. Record(t, r) = [history |-> t.history, events |-> CloseEvent(t.events, clock)]
        BY <1>2, <1>4, RecordMakes
      <3> QED
        BY <3>1
    <2> QED
      BY <1>3, <2>2, <2>3
  <1> QED
    BY <1>2, <1>3, <1>5, SentLog

\* A job that ends is no event.
LEMMA JobEndLog ==
    ASSUME IInv, LogInv, NEW state, NEW failed, NEW cause, JobEnds(state, failed, cause),
           [end |-> 0, state |-> state, failed |-> failed, cause |-> cause] \in JobRecords
    PROVE  LogInv'
  <1> DEFINE j == [end |-> clock, state |-> state, failed |-> failed, cause |-> cause]
             k == [end |-> 0, state |-> state, failed |-> failed, cause |-> cause]
             r == [kind |-> "job", at |-> clock, job |-> j]
  <1>1. clock \in Nat
    BY BoundAssumption DEF IInv, Present
  <1>2. j \in JobRecords
    <2>1. k \in JobRecords /\ k.state = state /\ k.failed = failed /\ k.cause = cause
      OBVIOUS
    <2> HIDE DEF k
    <2> QED
      BY <1>1, <2>1 DEF JobRecords
  <1>3. pending' = Append(pending, r) /\ UNCHANGED <<clock, node, tables, outTimes>>
    BY DEF JobEnds, Send, truth
  <1>4. r \in Records /\ r.kind = "job"
    <2> HIDE DEF j
    <2> QED
      BY <1>1, <1>2 DEF Records
  <1> HIDE DEF r, j, k
  <1>5. \A t \in Tables : Record(t, r).events = t.events
    <2> SUFFICES ASSUME NEW t \in Tables PROVE Record(t, r).events = t.events
      OBVIOUS
    <2>1. Record(t, r) = [history |-> t.history \cup {r.job}, events |-> t.events]
      BY <1>4, RecordMakes
    <2> QED
      BY <2>1
  <1> QED
    BY <1>3, <1>4, <1>5, SentLog

LEMMA InitLogInv == Init => LogInv
  <1> SUFFICES ASSUME Init, NEW T, IsChain(T, tables, pending)
               PROVE  Logged(T[Len(pending)].events, node, clock, outTimes)
    BY DEF LogInv
  <1>1. pending \in Seq(Records) /\ Len(pending) = 0
    BY DEF Init
  <1>2. T[0] = tables
    BY <1>1, ChainLinks
  <1>3. T[Len(pending)].events = {} /\ outTimes = {} /\ node.state = "UP"
    BY <1>1, <1>2 DEF Init
  <1> QED
    BY <1>3 DEF Logged, Counted

\* Every step keeps it.
LEMMA StepLogInv == IInv /\ LogInv /\ [Next]_vars => LogInv'
  <1> SUFFICES ASSUME IInv, LogInv, [Next]_vars PROVE LogInv'
    OBVIOUS
  <1>1. CASE UNCHANGED vars
    BY <1>1 DEF vars, LogInv
  <1>2. CASE NodeDies \/ RebootNoticed \/ Drained \/ RebootAsked
    <2>1. \E state \in {"DRAIN", "DOWN", "BOOT"}, reason \in SUBSET Marks : Leaves(state, reason)
      BY <1>2, NodeLeaves
    <2> QED
      BY <2>1, LeavesLog
  <1>3. CASE Tick
    <2>1. /\ clock' = clock + 1 /\ outTimes' = outTimes \cup OutAt(node, clock + 1)
          /\ UNCHANGED <<node, tables, pending>>
      BY <1>3 DEF Tick
    <2>2. clock \in Nat /\ node.since \in Nat /\ node.since <= clock
      BY BoundAssumption DEF IInv, Present
    <2> QED
      BY <2>1, <2>2, TickLogged, KeptLog
  <1>4. CASE JobStarts
    <2>1. UNCHANGED <<clock, node, tables, pending, outTimes>>
      BY <1>4 DEF JobStarts, truth
    <2> QED
      BY <2>1, KeptLog
  <1>5. CASE JobLost \/ JobDone \/ JobEaten \/ JobElsewhere
    <2>1. \E state, failed, cause :
             /\ JobEnds(state, failed, cause)
             /\ [end |-> 0, state |-> state, failed |-> failed, cause |-> cause] \in JobRecords
      BY <1>5, JobRecorded
    <2> QED
      BY <2>1, JobEndLog
  <1> QED
    BY <1>1, <1>2, <1>3, <1>4, <1>5, ReturnsLog, TakenLog DEF Next

THEOREM LogInductive == Spec => [](IInv /\ LogInv)
  BY InitIInv, StepIInv, InitLogInv, StepLogInv, PTL DEF Spec

-------------------------------------------------------------------------------
(* The count *)

InOrder(s) == \A i, j \in DOMAIN s : i < j => s[i].start <= s[j].start

Sortable(evs) ==
    /\ IsFiniteSet(evs)
    /\ \E s \in Bijection(1..Cardinality(evs), evs) : InOrder(s)

\* Events that start at different times can be put in order: by induction on the
\* time before which they all start, the last one goes to the end.
LEMMA SortedExists ==
    ASSUME NEW m \in Nat, NEW evs \in SUBSET EventRecords,
           \A e \in evs : e.start < m, \A e, f \in evs : e.start = f.start => e = f
    PROVE  Sortable(evs)
  <1> DEFINE Q(k) == \A S \in SUBSET EventRecords :
                        /\ \A e \in S : e.start < k
                        /\ \A e, f \in S : e.start = f.start => e = f
                        => Sortable(S)
             P == {k \in Nat : Q(k)}
  <1> HIDE DEF Q
  <1>1. 0 \in P
    <2> SUFFICES ASSUME NEW S \in SUBSET EventRecords, \A e \in S : e.start < 0
                 PROVE  Sortable(S)
      BY DEF Q
    <2>1. S = {}
      BY DEF EventRecords
    <2>2. IsFiniteSet(S) /\ Cardinality(S) = 0
      BY <2>1, FS_EmptySet
    <2> DEFINE s == [i \in 1..0 |-> 0]
    <2>3. s \in Bijection(1..0, S) /\ InOrder(s)
      <3>1. 1..0 = {}
        OBVIOUS
      <3> QED
        BY <2>1, <3>1 DEF Bijection, Injection, Surjection, IsInjective, InOrder
    <2> QED
      BY <2>2, <2>3 DEF Sortable
  <1>2. ASSUME NEW k \in Nat, k \in P PROVE k + 1 \in P
    <2> SUFFICES ASSUME NEW S \in SUBSET EventRecords, \A e \in S : e.start < k + 1,
                        \A e, f \in S : e.start = f.start => e = f
                 PROVE  Sortable(S)
      BY DEF Q
    <2>0. \A e \in S : e.start \in Nat
      BY DEF EventRecords
    <2>1. Q(k)
      BY <1>2
    <2>2. CASE \A e \in S : e.start # k
      <3>1. \A e \in S : e.start < k
        BY <2>0, <2>2
      <3> QED
        BY <2>1, <3>1 DEF Q
    <2>3. CASE \E e \in S : e.start = k
      <3>1. PICK e \in S : e.start = k
        BY <2>3
      <3> DEFINE R == S \ {e}
                 n == Cardinality(R)
      <3>2. \A f \in R : f.start < k
        BY <2>0, <3>1
      <3>3. Sortable(R)
        BY <2>1, <3>2 DEF Q
      <3>4. S = R \cup {e} /\ e \notin R
        OBVIOUS
      <3> HIDE DEF R
      <3>5. /\ IsFiniteSet(R) /\ n \in Nat
            /\ IsFiniteSet(S) /\ Cardinality(S) = n + 1
        BY <3>3, <3>4, FS_AddElement, FS_CardinalityType DEF Sortable
      <3>6. PICK s \in Bijection(1..n, R) : InOrder(s)
        BY <3>3 DEF Sortable
      <3>7. /\ s \in [1..n -> R]
            /\ \A i, j \in 1..n : s[i] = s[j] => i = j
            /\ \A f \in R : \E i \in 1..n : s[i] = f
            /\ \A i, j \in 1..n : i < j => s[i].start <= s[j].start
        BY <3>6 DEF Bijection, Injection, Surjection, IsInjective, InOrder
      <3> HIDE DEF n
      <3> DEFINE u == [i \in 1..(n + 1) |-> IF i = n + 1 THEN e ELSE s[i]]
      <3>8. \A i \in 1..(n + 1) : i \in 1..n \/ i = n + 1
        BY <3>5
      <3>9. /\ u[n + 1] = e /\ \A i \in 1..n : u[i] = s[i]
            /\ DOMAIN u = 1..(n + 1) /\ n + 1 \in 1..(n + 1) /\ 1..n \subseteq 1..(n + 1)
            /\ n + 1 \notin 1..n
        BY <3>5
      <3>10. u \in [1..(n + 1) -> S]
        BY <3>4, <3>7, <3>8
      <3> HIDE DEF u
      <3>11. \A i, j \in 1..(n + 1) : u[i] = u[j] => i = j
        BY <3>4, <3>7, <3>8, <3>9
      <3>12. \A f \in S : \E i \in 1..(n + 1) : u[i] = f
        BY <3>4, <3>7, <3>9
      <3>13. ASSUME NEW i \in 1..(n + 1), NEW j \in 1..(n + 1), i < j
             PROVE  u[i].start <= u[j].start
        <4>1. i \in 1..n
          BY <3>5, <3>13
        <4>2. CASE j \in 1..n
          BY <3>7, <3>9, <3>13, <4>1, <4>2
        <4>3. CASE j = n + 1
          <5>1. s[i] \in R /\ s[i].start < k /\ s[i].start \in Nat
            BY <2>0, <3>2, <3>4, <3>7, <4>1
          <5> QED
            BY <3>1, <3>9, <4>1, <4>3, <5>1
        <4> QED
          BY <3>8, <4>2, <4>3
      <3>14. u \in Bijection(1..(n + 1), S) /\ InOrder(u)
        BY <3>9, <3>10, <3>11, <3>12, <3>13 DEF Bijection, Injection, Surjection, IsInjective, InOrder
      <3> QED
        BY <3>5, <3>14 DEF Sortable
    <2> QED
      BY <2>2, <2>3
  <1> HIDE DEF P
  <1>3. m \in P
    BY <1>1, <1>2, SetInduction
  <1>4. Q(m)
    BY <1>3 DEF P
  <1> QED
    BY <1>4 DEF Q

\* What the counting goes through.
LEMMA ByStartIs ==
    ASSUME NEW m \in Nat, NEW evs \in SUBSET EventRecords,
           \A e \in evs : e.start < m, \A e, f \in evs : e.start = f.start => e = f,
           NEW s, s = ByStart(evs), NEW n, n = Cardinality(evs)
    PROVE  /\ n \in Nat /\ s \in [1..n -> evs]
           /\ \A e \in evs : \E i \in 1..n : s[i] = e
           /\ \A i, j \in 1..n : i < j => s[i].start < s[j].start
  <1>1. Sortable(evs)
    BY SortedExists
  <1>2. n \in Nat
    BY <1>1, FS_CardinalityType DEF Sortable
  <1>3. s \in Bijection(1..n, evs) /\ InOrder(s)
    <2>1. \E b \in Bijection(1..n, evs) :
             \A i, j \in DOMAIN b : i < j => b[i].start <= b[j].start
      BY <1>1 DEF Sortable, InOrder
    <2>2. /\ s \in Bijection(1..n, evs)
          /\ \A i, j \in DOMAIN s : i < j => s[i].start <= s[j].start
      BY <2>1 DEF ByStart
    <2> QED
      BY <2>2 DEF InOrder
  <1>4. /\ s \in [1..n -> evs]
        /\ \A i, j \in 1..n : s[i] = s[j] => i = j
        /\ \A e \in evs : \E i \in 1..n : s[i] = e
        /\ \A i, j \in 1..n : i < j => s[i].start <= s[j].start
    BY <1>3 DEF Bijection, Injection, Surjection, IsInjective, InOrder
  <1>5. ASSUME NEW i \in 1..n, NEW j \in 1..n, i < j PROVE s[i].start < s[j].start
    <2>1. s[i] \in evs /\ s[j] \in evs /\ s[i] # s[j] /\ s[i].start <= s[j].start
      BY <1>2, <1>4, <1>5
    <2>2. s[i].start \in Nat /\ s[j].start \in Nat /\ s[i].start # s[j].start
      BY <2>1 DEF EventRecords
    <2> QED
      BY <2>1, <2>2
  <1> QED
    BY <1>2, <1>4, <1>5

\* incidents takes the events one by one.
LEMMA CountSteps ==
    ASSUME NEW n \in Nat, NEW s \in [1..n -> EventRecords]
    PROVE  \E g : /\ FoldLeft(CountEvent, [n |-> 0, last |-> 0], s) = g[n]
                  /\ g[0] = [n |-> 0, last |-> 0]
                  /\ \A k \in 1..n : g[k] = CountEvent(g[k - 1], s[k])
  <1> DEFINE b == [n |-> 0, last |-> 0]
             T == [n : Nat, last : Nat]
             op(x, acc) == CountEvent(acc, s[x])
             F == [p \in (1..n) \X T |-> op(p[1], p[2])]
             Is(h) == h = [d \in SUBSET DOMAIN s |->
                              IF d = {} THEN b ELSE op(Max(d), h[d \ {Max(d)}])]
             iter == CHOOSE h : Is(h)
  <1>1. DOMAIN s = 1..n
    OBVIOUS
  <1>2. FoldLeft(CountEvent, b, s) = iter[DOMAIN s]
    BY DEF FoldLeft, MapThenFoldSet
  <1>3. F \in [(1..n) \X T -> T]
    <2> SUFFICES ASSUME NEW x \in 1..n, NEW acc \in T PROVE op(x, acc) \in T
      OBVIOUS
    <2>1. s[x].start \in Nat /\ s[x].end \in Nat \cup {Open}
      BY DEF EventRecords
    <2>2. EndOf(s[x]) \in Nat
      BY <2>1 DEF EndOf
    <2>3. Later(acc.last, EndOf(s[x])) \in Nat
      BY <2>2 DEF Later
    <2> QED
      BY <2>3 DEF CountEvent
  <1>4. b \in T
    OBVIOUS
  <1>5. \A x \in 1..n, acc \in T : F[<<x, acc>>] = op(x, acc)
    OBVIOUS
  <1> HIDE DEF op, F, T, b
  <1>6. PICK h \in [SUBSET (1..n) -> T] : IsFold(h, n, b, F)
    BY <1>3, <1>4, FoldExists
  <1>7. Is(h)
    <2>1. ASSUME NEW d \in SUBSET (1..n)
          PROVE  h[d] = IF d = {} THEN b ELSE op(Max(d), h[d \ {Max(d)}])
      <3>1. CASE d = {}
        BY <1>6, <3>1 DEF IsFold
      <3>2. CASE d # {}
        <4>1. Max(d) \in 1..n
          BY <3>2, MaxOfSubset
        <4>2. h[d \ {Max(d)}] \in T
          BY <1>6
        <4>3. h[d] = F[<<Max(d), h[d \ {Max(d)}]>>]
          BY <1>6, <3>2 DEF IsFold
        <4> QED
          BY <1>5, <3>2, <4>1, <4>2, <4>3
      <3> QED
        BY <3>1, <3>2
    <2> QED
      BY <1>1, <1>6, <2>1
  <1>8. Is(iter)
    BY <1>7
  <1> HIDE DEF iter
  <1> DEFINE g == [k \in 0..n |-> iter[1..k]]
  <1>9. g[0] = b
    <2>1. 1..0 = {} /\ 0 \in 0..n
      OBVIOUS
    <2> QED
      BY <1>8, <2>1
  <1>10. ASSUME NEW k \in 1..n
         PROVE  g[k] = op(k, g[k - 1])
    <2>0. k \in Nat /\ k # 0
      OBVIOUS
    <2>1. 1..k # {} /\ Max(1..k) = k /\ (1..k) \ {k} = 1..(k - 1)
      BY <2>0, MaxOfPrefix
    <2>2. 1..k \in SUBSET DOMAIN s /\ k \in 0..n /\ k - 1 \in 0..n
      BY <1>1
    <2>3. iter[1..k] = op(k, iter[1..(k - 1)])
      BY <1>8, <2>1, <2>2
    <2> QED
      BY <2>2, <2>3
  <1>11. FoldLeft(CountEvent, b, s) = g[n]
    BY <1>1, <1>2
  <1> HIDE DEF g
  <1> QED
    BY <1>9, <1>10, <1>11 DEF op, b

\* What incidents sees: events that follow one another from the start of the window
\* on, and the times they lasted.
Lasted(evs, from, now, times) ==
    /\ \A e \in evs : /\ e.start <= now /\ from <= Until(e, now)
                      /\ e.end # Open => e.start < e.end
    /\ \A e, f \in evs : e.start = f.start => e = f
    /\ \A e, f \in evs : e.start < f.start => e.end # Open /\ e.end <= f.start
    /\ \A t : t \in times <=> t \in Int /\ t >= from /\ \E e \in evs : t \in e.start..Until(e, now)

\* The i-th event starts an incident.
Starts(s, i) == i = 1 \/ s[i].start - EndOf(s[i - 1]) > IncidentGap

\* The count is the number of events that start one.
LEMMA CountIs ==
    ASSUME NEW n \in Nat, NEW s \in [1..n -> EventRecords],
           \A i \in 1..n : s[i].end # Open => s[i].start < s[i].end,
           \A i, j \in 1..n : i < j => s[i].end # Open /\ s[i].end <= s[j].start
    PROVE  FoldLeft(CountEvent, [n |-> 0, last |-> 0], s).n = Cardinality({i \in 1..n : Starts(s, i)})
  <1>1. PICK g : /\ FoldLeft(CountEvent, [n |-> 0, last |-> 0], s) = g[n]
                 /\ g[0] = [n |-> 0, last |-> 0]
                 /\ \A k \in 1..n : g[k] = CountEvent(g[k - 1], s[k])
    BY CountSteps
  <1>2. ASSUME NEW i \in 1..n
        PROVE  /\ s[i].start \in Nat /\ EndOf(s[i]) \in Nat /\ s[i].start <= EndOf(s[i])
               /\ \A j \in 1..n : i < j => EndOf(s[i]) <= s[j].start
    <2>1. s[i].start \in Nat /\ s[i].end \in Nat \cup {Open}
      BY DEF EventRecords
    <2> QED
      BY <2>1 DEF EndOf
  <1> DEFINE A(k) == {i \in 1..k : Starts(s, i)}
             Q(k) == k <= n => /\ IsFiniteSet(A(k)) /\ Cardinality(A(k)) \in Nat
                               /\ g[k].n = Cardinality(A(k))
                               /\ k # 0 => g[k].n # 0 /\ g[k].last = EndOf(s[k])
             P == {k \in Nat : Q(k)}
  <1> HIDE DEF Q
  <1>3. 0 \in P
    <2>1. A(0) = {}
      OBVIOUS
    <2> HIDE DEF A
    <2>2. IsFiniteSet(A(0)) /\ Cardinality(A(0)) = 0
      BY <2>1, FS_EmptySet
    <2>3. g[0].n = 0
      BY <1>1
    <2> QED
      BY <2>2, <2>3 DEF Q
  <1>4. ASSUME NEW k \in Nat, k \in P PROVE k + 1 \in P
    <2> SUFFICES ASSUME k + 1 <= n
                 PROVE  /\ IsFiniteSet(A(k + 1)) /\ Cardinality(A(k + 1)) \in Nat
                        /\ g[k + 1].n = Cardinality(A(k + 1))
                        /\ g[k + 1].n # 0 /\ g[k + 1].last = EndOf(s[k + 1])
      BY DEF Q
    <2>1. /\ IsFiniteSet(A(k)) /\ Cardinality(A(k)) \in Nat
          /\ g[k].n = Cardinality(A(k))
          /\ k # 0 => g[k].n # 0 /\ g[k].last = EndOf(s[k])
      BY <1>4 DEF Q
    <2>2. k + 1 \in 1..n /\ (k + 1) - 1 = k /\ (k # 0 => k \in 1..n /\ k < k + 1)
      OBVIOUS
    <2>3. g[k + 1] = CountEvent(g[k], s[k + 1])
      BY <1>1, <2>2
    <2>4. /\ g[k + 1].n = IF g[k].n = 0 \/ s[k + 1].start - g[k].last > IncidentGap
                            THEN g[k].n + 1 ELSE g[k].n
          /\ g[k + 1].last = Later(g[k].last, EndOf(s[k + 1]))
      BY <2>3 DEF CountEvent
    <2>5. Starts(s, k + 1) <=> k = 0 \/ s[k + 1].start - EndOf(s[k]) > IncidentGap
      BY <2>2 DEF Starts
    <2>6. k = 0 => g[k].n = 0 /\ g[k].last = 0
      BY <1>1
    <2>7. g[k + 1].n = IF Starts(s, k + 1) THEN g[k].n + 1 ELSE g[k].n
      BY <2>1, <2>4, <2>5, <2>6
    <2>8. g[k + 1].last = EndOf(s[k + 1])
      <3>1. CASE k = 0
        BY <1>2, <2>2, <2>4, <2>6, <3>1 DEF Later
      <3>2. CASE k # 0
        <4>1. EndOf(s[k]) \in Nat /\ EndOf(s[k]) <= s[k + 1].start
          BY <1>2, <2>2, <3>2
        <4>2. s[k + 1].start \in Nat /\ EndOf(s[k + 1]) \in Nat /\ s[k + 1].start <= EndOf(s[k + 1])
          BY <1>2, <2>2
        <4> QED
          BY <2>1, <2>4, <3>2, <4>1, <4>2 DEF Later
      <3> QED
        BY <3>1, <3>2
    <2>9. A(k + 1) = IF Starts(s, k + 1) THEN A(k) \cup {k + 1} ELSE A(k)
      <3>1. \A i : i \in 1..(k + 1) <=> i \in 1..k \/ i = k + 1
        OBVIOUS
      <3> QED
        BY <3>1
    <2>10. k + 1 \notin A(k)
      OBVIOUS
    <2> HIDE DEF A
    <2>11. CASE Starts(s, k + 1)
      <3>1. IsFiniteSet(A(k + 1)) /\ Cardinality(A(k + 1)) = Cardinality(A(k)) + 1
        BY <2>1, <2>9, <2>10, <2>11, FS_AddElement
      <3> QED
        BY <2>1, <2>7, <2>8, <2>11, <3>1
    <2>12. CASE ~Starts(s, k + 1)
      <3>1. k # 0
        BY <2>5, <2>12
      <3> QED
        BY <2>1, <2>7, <2>8, <2>9, <2>12, <3>1
    <2> QED
      BY <2>11, <2>12
  <1> HIDE DEF P
  <1>5. n \in P
    BY <1>3, <1>4, SetInduction
  <1>6. Q(n) /\ n <= n
    BY <1>5 DEF P
  <1> QED
    BY <1>1, <1>6 DEF Q

\* Each incident starts where an outage does, or where the window does, and the
\* other way round.
LEMMA StartsAreOutages ==
    ASSUME NEW now \in Nat, NEW from \in Int, NEW times, NEW evs \in SUBSET EventRecords,
           Lasted(evs, from, now, times),
           NEW n \in Nat, NEW s \in [1..n -> evs],
           \A e \in evs : \E i \in 1..n : s[i] = e,
           \A i, j \in 1..n : i < j => s[i].start < s[j].start
    PROVE  Outages(times) = Cardinality({i \in 1..n : Starts(s, i)})
  <1> DEFINE I    == {i \in 1..n : Starts(s, i)}
             O    == {t \in times : \A u \in times : u < t => t - u > IncidentGap}
             a(i) == Later(from, s[i].start)
             z(i) == Until(s[i], now)
             f    == [i \in I |-> a(i)]
  <1>1. IncidentGap \in Nat /\ IncidentGap >= 1
    BY GapAssumption
  <1>2. ASSUME NEW i \in 1..n
        PROVE  /\ s[i].start \in Nat /\ z(i) \in Nat /\ a(i) \in Int
               /\ s[i].start <= a(i) /\ from <= a(i) /\ a(i) <= z(i)
               /\ a(i) = from \/ a(i) = s[i].start
               /\ s[i].end # Open => /\ EndOf(s[i]) = z(i) /\ s[i].start < z(i)
    <2>1. s[i] \in evs
      OBVIOUS
    <2>2. s[i].start \in Nat /\ s[i].end \in Nat \cup {Open}
      BY <2>1 DEF EventRecords
    <2>3. s[i].start <= now /\ from <= z(i) /\ (s[i].end # Open => s[i].start < s[i].end)
      BY <2>1 DEF Lasted
    <2>4. z(i) \in Nat /\ s[i].start <= z(i)
      BY <2>2, <2>3 DEF Until
    <2> QED
      BY <2>2, <2>3, <2>4 DEF Until, EndOf, Later
  <1>3. ASSUME NEW i \in 1..n, NEW j \in 1..n, i < j
        PROVE  /\ s[i].start < s[j].start /\ s[i].end # Open
               /\ EndOf(s[i]) = z(i) /\ z(i) <= s[j].start
    <2>1. s[i] \in evs /\ s[j] \in evs /\ s[i].start < s[j].start
      BY <1>3
    <2>2. s[i].end # Open /\ s[i].end <= s[j].start
      BY <2>1 DEF Lasted
    <2> QED
      BY <2>1, <2>2 DEF Until, EndOf
  <1>4. ASSUME NEW t
        PROVE  t \in times <=> t \in Int /\ \E i \in 1..n : a(i) <= t /\ t <= z(i)
    <2>1. t \in times <=> t \in Int /\ t >= from /\ \E e \in evs : t \in e.start..Until(e, now)
      BY DEF Lasted
    <2>2. ASSUME t \in times PROVE t \in Int /\ \E i \in 1..n : a(i) <= t /\ t <= z(i)
      <3>1. PICK e \in evs : t \in e.start..Until(e, now)
        BY <2>1, <2>2
      <3>2. PICK i \in 1..n : s[i] = e
        OBVIOUS
      <3>3. t \in Int /\ t >= from /\ s[i].start <= t /\ t <= z(i)
        BY <1>2, <2>1, <2>2, <3>1, <3>2
      <3> QED
        BY <3>3 DEF Later
    <2>3. ASSUME t \in Int, NEW i \in 1..n, a(i) <= t, t <= z(i) PROVE t \in times
      <3>1. s[i] \in evs /\ t >= from /\ t \in s[i].start..z(i)
        BY <1>2, <2>3
      <3> QED
        BY <2>1, <2>3, <3>1
    <2> QED
      BY <2>2, <2>3
  <1> HIDE DEF a, z
  <1>5. ASSUME NEW i \in I
        PROVE  a(i) \in O
    <2>1. i \in 1..n /\ Starts(s, i) /\ a(i) \in Int
      BY <1>2
    <2>2. a(i) \in times
      BY <1>2, <1>4, <2>1
    <2>3. ASSUME NEW u \in times, u < a(i) PROVE a(i) - u > IncidentGap
      <3>1. u \in Int
        BY <1>4
      <3>2. PICK j \in 1..n : a(j) <= u /\ u <= z(j)
        BY <1>4
      <3>3. a(i) = s[i].start
        BY <1>2, <2>1, <2>3, <3>1, <3>2
      <3>4. j < i
        <4>1. s[j].start < s[i].start
          <5>1. s[j].start \in Nat /\ a(j) \in Int /\ s[j].start <= a(j) /\ s[i].start \in Nat
            BY <1>2, <2>1
          <5> QED
            BY <2>3, <3>1, <3>2, <3>3, <5>1
        <4>2. ~(i < j) /\ i # j
          <5>1. s[j].start \in Nat /\ s[i].start \in Nat
            BY <1>2, <2>1
          <5>2. i < j => s[i].start < s[j].start
            BY <1>3, <2>1
          <5> QED
            BY <4>1, <5>1, <5>2
        <4> QED
          BY <2>1, <4>2
      <3>5. i # 1 /\ i - 1 \in 1..n /\ i - 1 < i /\ j <= i - 1
        BY <2>1, <3>4
      <3>6. s[i].start - z(i - 1) > IncidentGap
        BY <1>3, <2>1, <3>5 DEF Starts
      <3>7. z(j) <= z(i - 1)
        <4>1. CASE j = i - 1
          BY <1>2, <3>5, <4>1
        <4>2. CASE j # i - 1
          <5>1. z(j) <= s[i - 1].start
            BY <1>3, <3>5, <4>2
          <5>2. /\ z(j) \in Nat /\ z(i - 1) \in Nat /\ s[i - 1].start \in Nat /\ a(i - 1) \in Int
                /\ s[i - 1].start <= a(i - 1) /\ a(i - 1) <= z(i - 1)
            BY <1>2, <3>5
          <5> QED
            BY <5>1, <5>2
        <4> QED
          BY <4>1, <4>2
      <3>8. z(j) \in Nat /\ z(i - 1) \in Nat /\ s[i].start \in Nat
        BY <1>2, <2>1, <3>5
      <3> QED
        BY <1>1, <3>1, <3>2, <3>3, <3>6, <3>7, <3>8
    <2> QED
      BY <2>2, <2>3
  <1>6. ASSUME NEW t \in O
        PROVE  \E i \in I : a(i) = t
    <2>1. t \in Int
      BY <1>4
    <2>2. PICK i \in 1..n : a(i) <= t /\ t <= z(i)
      BY <1>4
    \* The moment before is no time the node was out.
    <2>3. t - 1 \notin times
      <3>1. t - 1 < t /\ ~(t - (t - 1) > IncidentGap)
        BY <1>1, <2>1
      <3> QED
        BY <3>1
    <2>4. a(i) = t
      <3>1. t - 1 \in Int /\ t - 1 <= z(i)
        BY <1>2, <2>1, <2>2
      <3>2. ~(a(i) <= t - 1)
        BY <1>4, <2>3, <3>1
      <3> QED
        BY <1>2, <2>1, <2>2, <3>2
    <2>5. CASE i \in I
      BY <2>4, <2>5
    <2>6. CASE i \notin I
      <3>1. i # 1 /\ s[i].start - EndOf(s[i - 1]) <= IncidentGap
        <4>1. ~Starts(s, i)
          BY <2>6
        <4>2. i # 1 /\ ~(s[i].start - EndOf(s[i - 1]) > IncidentGap)
          BY <4>1 DEF Starts
        <4>3. i - 1 \in 1..n /\ i - 1 < i
          BY <4>2
        <4>4. EndOf(s[i - 1]) \in Int /\ s[i].start \in Int
          BY <1>2, <1>3, <4>3
        <4> QED
          BY <1>1, <4>2, <4>4
      <3>2. i - 1 \in 1..n /\ i - 1 < i
        BY <3>1
      <3> DEFINE p == i - 1
      <3>3. /\ z(p) <= s[i].start /\ s[i].start - z(p) <= IncidentGap
            /\ s[p].start < z(p) /\ a(p) <= z(p) /\ from <= z(p) /\ z(p) \in Nat
            /\ s[p].start \in Nat /\ a(p) \in Int
        BY <1>2, <1>3, <3>1, <3>2
      <3>4. z(p) \in times
        BY <1>4, <3>2, <3>3
      <3> HIDE DEF p
      <3>5. ~(z(p) < t)
        <4>1. z(p) < t => t = s[i].start
          <5>1. a(i) = from \/ a(i) = s[i].start
            BY <1>2
          <5> QED
            BY <2>1, <2>4, <3>3, <5>1
        <4>2. z(p) < t => t - z(p) > IncidentGap
          BY <3>4
        <4> QED
          BY <1>1, <1>2, <2>1, <3>3, <4>1, <4>2
      \* So the window starts at t, with the event before still on.
      <3>6. z(p) = t /\ s[i].start = t
        <4>1. s[i].start \in Nat /\ s[i].start <= a(i)
          BY <1>2
        <4> QED
          BY <2>1, <2>4, <3>3, <3>5, <4>1
      <3>7. a(p) = t
        <4>1. t - 1 \in Int /\ t - 1 <= z(p)
          BY <2>1, <3>6
        <4>2. ~(a(p) <= t - 1)
          BY <1>4, <2>3, <3>2, <4>1 DEF p
        <4> QED
          BY <2>1, <3>3, <3>6, <4>2
      <3>8. from = t
        <4>1. a(p) = from \/ a(p) = s[p].start
          BY <1>2, <3>2 DEF p
        <4> QED
          BY <3>3, <3>6, <3>7, <4>1
      <3>9. p = 1
        <4> SUFFICES ASSUME p # 1 PROVE FALSE
          OBVIOUS
        <4>1. p - 1 \in 1..n /\ p \in 1..n /\ p - 1 < p
          BY <3>2 DEF p
        <4>2. z(p - 1) <= s[p].start /\ from <= a(p - 1) /\ a(p - 1) <= z(p - 1)
              /\ z(p - 1) \in Nat /\ a(p - 1) \in Int
          BY <1>2, <1>3, <4>1
        <4> QED
          BY <2>1, <3>3, <3>6, <3>8, <4>2
      <3>10. p \in I
        BY <3>2, <3>9 DEF p, Starts
      <3> QED
        BY <3>7, <3>10
    <2> QED
      BY <2>5, <2>6
  <1>7. ASSUME NEW i \in I, NEW j \in I, i < j
        PROVE  a(i) # a(j)
    <2>1. i \in 1..n /\ j \in 1..n /\ Starts(s, j) /\ j # 1
      BY <1>7
    <2>2. j - 1 \in 1..n /\ j - 1 < j /\ i <= j - 1
      BY <1>7, <2>1
    <2>3. s[j].start - z(j - 1) > IncidentGap
      BY <1>3, <2>1, <2>2 DEF Starts
    <2>4. /\ s[i].start < s[j].start /\ from <= z(j - 1) /\ z(j - 1) \in Nat
          /\ s[i].start \in Nat /\ s[j].start \in Nat
      <3>1. from <= a(j - 1) /\ a(j - 1) <= z(j - 1) /\ z(j - 1) \in Nat /\ a(j - 1) \in Int
        BY <1>2, <2>2
      <3>2. s[i].start < s[j].start
        BY <1>3, <1>7, <2>1
      <3>3. s[i].start \in Nat /\ s[j].start \in Nat
        BY <1>2, <2>1
      <3> QED
        BY <3>1, <3>2, <3>3
    <2>5. from < s[j].start
      BY <1>1, <2>3, <2>4
    <2>6. /\ a(i) = from \/ a(i) = s[i].start
          /\ s[j].start <= a(j) /\ a(j) \in Int
      BY <1>2, <2>1
    <2> QED
      BY <2>4, <2>5, <2>6
  <1>8. IsFiniteSet(I)
    <2>1. I \in SUBSET (1..n) /\ IsFiniteSet(1..n)
      BY FirstNumbers
    <2> QED
      BY <2>1, FS_Subset
  <1>9. f \in Bijection(I, O)
    <2>1. \A i, j \in I : a(i) = a(j) => i = j
      <3>1. \A i, j \in I : i < j \/ j < i \/ i = j
        OBVIOUS
      <3> QED
        BY <1>7, <3>1
    <2> HIDE DEF I, O
    <2>2. f \in [I -> O] /\ (\A i, j \in I : f[i] = f[j] => i = j) /\ \A t \in O : \E i \in I : f[i] = t
      BY <1>5, <1>6, <2>1
    <2> QED
      BY <2>2 DEF Bijection, Injection, Surjection, IsInjective
  <1> HIDE DEF f, I, O
  <1>10. Cardinality(O) = Cardinality(I)
    <2>1. ExistsBijection(I, O)
      BY <1>9 DEF ExistsBijection
    <2> QED
      BY <1>8, <2>1, FS_Bijection
  <1> QED
    BY <1>10 DEF O, I, Outages

\* Once slurmdbd has caught up, the incidents counted are the outages there were,
\* whatever events they were logged as.
THEOREM IncidentsCountOutages == Spec => []IncidentsAreOutages
  <1>1. IInv /\ LogInv => IncidentsAreOutages
    <2> SUFFICES ASSUME IInv, LogInv PROVE IncidentsAreOutages
      OBVIOUS
    <2> DEFINE n     == Len(pending)
               from  == clock - EventWindow
               times == {t \in outTimes : t >= from}
    <2>1. n \in Nat /\ clock \in Nat /\ EventWindow \in Nat /\ from \in Int /\ from <= clock
          /\ outTimes \subseteq 0..clock /\ node.since <= clock /\ node.since \in Nat
      BY BoundAssumption, WindowAssumption DEF IInv, Present
    <2>2. PICK T : /\ IsChain(T, tables, pending)
                   /\ \A i \in 0..n : TablesAfter(i) = T[i]
      BY AfterIsChain DEF IInv
    <2> DEFINE t == T[n]
               evs == Counted(Events(t))
               s   == ByStart(evs)
               m   == Cardinality(evs)
    <2>3. TablesAfter(n) = t
      BY <2>1, <2>2
    <2>4. t.events \in SUBSET EventRecords /\ Logged(t.events, node, clock, outTimes)
      BY <2>2, EndOfChain DEF LogInv
    <2> HIDE DEF t
    <2>5. evs \subseteq t.events /\ evs \in SUBSET EventRecords
          /\ \A e \in evs : e.start \in Nat /\ e.end \in Nat \cup {Open}
      BY <2>4 DEF Counted, Events, EventRecords
    <2>6. Lasted(evs, from, clock, times)
      <3>1. ASSUME NEW e \in evs
            PROVE  /\ e.start <= clock /\ from <= Until(e, clock)
                   /\ e.end # Open => e.start < e.end
        <4>1. e.end = Open \/ e.end >= from
          BY DEF Counted, Events
        <4> QED
          BY <2>1, <2>4, <2>5, <4>1 DEF Logged, Until
      <3>2. ASSUME NEW u
            PROVE  u \in times <=> /\ u \in Int /\ u >= from
                                   /\ \E e \in evs : u \in e.start..Until(e, clock)
        <4>1. u \in outTimes <=> \E e \in Counted(t.events) : u \in e.start..Until(e, clock)
          BY <2>4 DEF Logged
        <4>2. evs \subseteq Counted(t.events)
          BY DEF Counted, Events
        <4>3. ASSUME u \in Int, u >= from, NEW e \in Counted(t.events), u \in e.start..Until(e, clock)
              PROVE  e \in evs
          <5>1. e \in t.events /\ e.start \in Nat /\ e.end \in Nat \cup {Open}
            BY <2>4 DEF Counted, EventRecords
          <5>2. e.end = Open \/ e.end >= from
            BY <2>1, <4>3, <5>1 DEF Until
          <5> QED
            BY <4>3, <5>1, <5>2 DEF Counted, Events
        <4>4. u \in outTimes => u \in Int
          BY <2>1
        <4> HIDE DEF evs, from
        <4> QED
          BY <4>1, <4>2, <4>3, <4>4
      <3> HIDE DEF evs, times, from
      <3> QED
        BY <2>4, <2>5, <3>1, <3>2 DEF Lasted, Logged
    <2> HIDE DEF evs, times, from
    <2>7. /\ m \in Nat /\ s \in [1..m -> evs]
          /\ \A e \in evs : \E i \in 1..m : s[i] = e
          /\ \A i, j \in 1..m : i < j => s[i].start < s[j].start
      <3>1. clock + 1 \in Nat /\ \A e \in evs : e.start < clock + 1
        BY <2>1, <2>5, <2>6 DEF Lasted
      <3>2. \A e, f \in evs : e.start = f.start => e = f
        BY <2>6 DEF Lasted
      <3> HIDE DEF s, m
      <3> QED
        BY <2>5, <3>1, <3>2, ByStartIs DEF s, m
    <2> HIDE DEF s, m
    <2>8. FoldLeft(CountEvent, [n |-> 0, last |-> 0], s).n = Cardinality({i \in 1..m : Starts(s, i)})
      <3>1. s \in [1..m -> EventRecords]
        BY <2>5, <2>7
      <3>2. \A i \in 1..m : s[i] \in evs
        BY <2>7
      <3>3. \A i \in 1..m : s[i].end # Open => s[i].start < s[i].end
        BY <2>6, <3>2 DEF Lasted
      <3>4. \A i, j \in 1..m : i < j => s[i].end # Open /\ s[i].end <= s[j].start
        BY <2>6, <2>7, <3>2 DEF Lasted
      <3> QED
        BY <2>7, <3>1, <3>3, <3>4, CountIs
    <2>9. Outages(times) = Cardinality({i \in 1..m : Starts(s, i)})
      BY <2>1, <2>5, <2>6, <2>7, StartsAreOutages
    <2>10. Incidents(Events(t)) = Outages(times)
      BY <2>8, <2>9 DEF Incidents, s, evs
    <2> QED
      BY <2>3, <2>10 DEF IncidentsAreOutages, times, from
  <1> QED
    BY <1>1, LogInductive, PTL
===============================================================================
