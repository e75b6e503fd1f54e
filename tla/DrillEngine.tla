------------------------------- MODULE DrillEngine -------------------------------
(***************************************************************************)
(* The drill engine (drills/engine.py: Run, run_drill): it runs a script   *)
(* of DrillCatalog against the lab, and whatever happens, undoes it by the *)
(* registered cleanups, last first, waits for the lab to be green, and     *)
(* writes a result.  A command may fail, a wait may time out, Ctrl-C may   *)
(* come at any moment.  Drills follow each other in the same lab.          *)
(***************************************************************************)
EXTENDS DrillCatalog, FiniteSets

CONSTANT Drills   \* the drills to run: names of REGISTRY

ASSUME DrillsAssumption == Drills \subseteq DOMAIN REGISTRY /\ Drills # {}

VARIABLES
    lab,       \* the lab (see DrillCatalog)
    phase,     \* "idle", "script", "cleanup", "green", "done" or "aborted"
    drill,     \* the drill that runs, or ran last
    pc,        \* the step its script is at
    cleanups,  \* Run.cleanups that are still to be run
    status,    \* run_drill's status
    failed,    \* some check is not ok
    gap,       \* some decision is not ok
    clean,     \* the lab was clean when the drill started
    spoiled    \* some cleanup did not do its work

run  == <<phase, drill, pc, cleanups, status, failed, gap, clean, spoiled>>
vars == <<lab, phase, drill, pc, cleanups, status, failed, gap, clean, spoiled>>

Script == REGISTRY[drill]

Init ==
    /\ lab = CleanLab
    /\ phase = "idle"
    /\ drill \in Drills
    /\ pc = 1
    /\ cleanups = << >>
    /\ status = "PASS"
    /\ failed = FALSE /\ gap = FALSE
    /\ clean = TRUE /\ spoiled = FALSE

-------------------------------------------------------------------------------
(* What Slurm, NHC, the Slinky operator and Kubernetes do with the lab. *)

Becomes(state) == lab' = [lab EXCEPT !.node = state] /\ UNCHANGED run
Broken(S)      == lab.broken \cap S # {}

SlurmdLost == lab.node \in {"in", "booting"} /\ Broken(Silencing) /\ Becomes("silent")

SlurmdTimeout == lab.node = "silent" /\ Broken(Silencing) /\ Becomes("down")

\* A node that went DOWN for not responding is returned.
Returned == lab.node \in NoAnswer /\ ~Broken(Silencing) /\ Becomes("in")

\* One that rebooted without being asked is held for a human.
UnexpectedReboot == lab.node = "booting" /\ ~Broken(Silencing) /\ Becomes("held")

NHCDrain  == lab.node = "in" /\ Broken(HealthChecked) /\ Becomes("nhc")
NHCResume == lab.node = "nhc" /\ ~Broken(HealthChecked) /\ Becomes("in")

OperatorDrain   == lab.node = "in" /\ "cordon" \in lab.left /\ Becomes("operator")
OperatorUndrain == lab.node = "operator" /\ "cordon" \notin lab.left /\ Becomes("in")

PodRecreated ==
    /\ "pod" \in lab.broken
    /\ lab' = [lab EXCEPT !.broken = @ \ {"pod"}]
    /\ UNCHANGED run

KubeletSilent ==
    /\ "kubelet" \in lab.broken /\ "unready" \notin lab.left
    /\ lab' = [lab EXCEPT !.left = @ \cup {"unready"}]
    /\ UNCHANGED run

KubeletBack ==
    /\ "kubelet" \notin lab.broken /\ "unready" \in lab.left
    /\ lab' = [lab EXCEPT !.left = @ \ {"unready"}]
    /\ UNCHANGED run

NamespaceGone ==
    /\ "kubelet" \notin lab.broken /\ "deleting" \in lab.left
    /\ lab' = [lab EXCEPT !.left = @ \ {"deleting", "namespace"}]
    /\ UNCHANGED run

\* Drill jobs are sleeps of some minutes.
JobsEnd ==
    /\ "jobs" \in lab.left
    /\ lab' = [lab EXCEPT !.left = @ \ {"jobs"}]
    /\ UNCHANGED run

-------------------------------------------------------------------------------
(* run_drill *)

Stopped == phase \in {"idle", "done", "aborted"}

\* A drill starts in a green lab; otherwise it is skipped.  (With --force it
\* starts in any lab, and then nothing is promised.)
Start(d) ==
    /\ Stopped
    /\ Green(lab)
    /\ phase' = "script" /\ drill' = d
    /\ status' = "PASS" /\ clean' = (lab = CleanLab) /\ spoiled' = FALSE
    /\ UNCHANGED <<lab, pc, cleanups, failed, gap>>

\* Between drills an engineer may put the lab right.
TidyUp ==
    /\ Stopped
    /\ lab # CleanLab
    /\ lab' = CleanLab
    /\ UNCHANGED run

At(op) == phase = "script" /\ pc <= Len(Script) /\ Script[pc].op = op

Register ==
    /\ At("cleanup")
    /\ cleanups' = Append(cleanups, Script[pc].effect)
    /\ pc' = pc + 1
    /\ UNCHANGED <<lab, phase, drill, status, failed, gap, clean, spoiled>>

Command ==
    /\ At("do")
    /\ lab' = Apply(Script[pc].effect, lab)
    /\ pc' = pc + 1
    /\ UNCHANGED <<phase, drill, cleanups, status, failed, gap, clean, spoiled>>

Observe ==
    /\ At("await") /\ lab.node \in Script[pc].states
    /\ pc' = pc + 1
    /\ UNCHANGED <<lab, phase, drill, cleanups, status, failed, gap, clean, spoiled>>

\* Run.decide and decide_cluster: a wrong answer, or an error, is a gap.
AskTriage ==
    /\ At("decide")
    /\ gap' \in {gap, TRUE}
    /\ pc' = pc + 1
    /\ UNCHANGED <<lab, phase, drill, cleanups, status, failed, clean, spoiled>>

CheckFact ==
    /\ At("check")
    /\ failed' \in {failed, TRUE}
    /\ pc' = pc + 1
    /\ UNCHANGED <<lab, phase, drill, cleanups, status, gap, clean, spoiled>>

\* Mutant: what stops the drill stops its cleanups too.
FailsUncleaned ==
    /\ status' = "FAIL" /\ phase' = "green" /\ pc' = Len(Script) + 1
    /\ failed' = FALSE /\ gap' = FALSE
    /\ UNCHANGED <<drill, cleanups, clean, spoiled>>

\* An exception or Ctrl-C in the drill: on to the cleanups.  The grades no
\* longer matter.
Fails ==
    /\ status' = "FAIL" /\ phase' = "cleanup" /\ pc' = Len(Script) + 1
    /\ failed' = FALSE /\ gap' = FALSE
    /\ UNCHANGED <<drill, cleanups, clean, spoiled>>

\* Mutant: the wait goes on until the node gets there.
TimesOutNever == status = "FAIL" /\ At("await") /\ Fails /\ UNCHANGED lab

\* DrillTimeout
TimesOut == At("await") /\ lab.node \notin Script[pc].states /\ Fails /\ UNCHANGED lab

\* Ctrl-C, or a command's error, before or after the command took effect.
Raises ==
    /\ phase = "script"
    /\ \/ UNCHANGED lab
       \/ At("do") /\ lab' = Apply(Script[pc].effect, lab)
    /\ Fails

ScriptOver ==
    /\ phase = "script" /\ pc > Len(Script)
    /\ phase' = "cleanup"
    /\ UNCHANGED <<lab, drill, pc, cleanups, status, failed, gap, clean, spoiled>>

\* Mutant: the cleanups run in the order they were registered.
RunCleanupInOrder ==
    /\ phase = "cleanup" /\ cleanups # << >>
    /\ lab' = Apply(cleanups[1], lab)
    /\ cleanups' = Tail(cleanups)
    /\ UNCHANGED <<phase, drill, pc, status, failed, gap, clean, spoiled>>

\* The cleanups run last first.
RunCleanup ==
    /\ phase = "cleanup" /\ cleanups # << >>
    /\ lab' = Apply(cleanups[Len(cleanups)], lab)
    /\ cleanups' = SubSeq(cleanups, 1, Len(cleanups) - 1)
    /\ UNCHANGED <<phase, drill, pc, status, failed, gap, clean, spoiled>>

\* An exception in a cleanup, or a command that fails silently, is passed over.
CleanupFails ==
    /\ phase = "cleanup" /\ cleanups # << >>
    /\ cleanups' = SubSeq(cleanups, 1, Len(cleanups) - 1)
    /\ spoiled' = TRUE
    /\ UNCHANGED <<lab, phase, drill, pc, status, failed, gap, clean>>

CleanedUp ==
    /\ phase = "cleanup" /\ cleanups = << >>
    /\ phase' = "green"
    /\ UNCHANGED <<lab, drill, pc, cleanups, status, failed, gap, clean, spoiled>>

\* The Run is over.
Ends(how) ==
    /\ phase' = how
    /\ pc' = 1 /\ cleanups' = << >> /\ failed' = FALSE /\ gap' = FALSE
    /\ UNCHANGED <<lab, drill, clean>>

\* Ctrl-C once more, while cleaning up or waiting: nothing catches it, and no
\* result is written.
Aborted ==
    /\ phase \in {"cleanup", "green"}
    /\ Ends("aborted")
    /\ spoiled' = TRUE
    /\ UNCHANGED status

\* The verdict on a lab that is green again.
Verdict == IF status = "FAIL" \/ failed THEN "FAIL" ELSE IF gap THEN "GAP" ELSE "PASS"

SeenGreen ==
    /\ phase = "green" /\ Green(lab)
    /\ Ends("done")
    /\ status' = Verdict
    /\ UNCHANGED spoiled

\* 15 minutes have passed.
StillNotGreen ==
    /\ phase = "green" /\ ~Green(lab)
    /\ Ends("done")
    /\ status' = "FAIL"
    /\ UNCHANGED spoiled

Lab ==
    \/ SlurmdLost \/ SlurmdTimeout \/ Returned \/ UnexpectedReboot
    \/ NHCDrain \/ NHCResume \/ OperatorDrain \/ OperatorUndrain
    \/ PodRecreated \/ KubeletSilent \/ KubeletBack \/ NamespaceGone \/ JobsEnd

Step == \/ Register \/ Command \/ Observe \/ AskTriage \/ CheckFact \/ TimesOut \/ ScriptOver
        \/ RunCleanup \/ CleanedUp \/ SeenGreen \/ StillNotGreen

Next ==
    \/ Lab
    \/ (\E d \in Drills : Start(d)) \/ TidyUp
    \/ Step \/ Raises \/ CleanupFails \/ Aborted

\* The engine runs on, waits time out, and the lab does what is due.  Nothing
\* makes a fault be noticed, and nobody has to start a drill.
Fairness ==
    /\ WF_vars(Step)
    /\ WF_vars(Returned) /\ WF_vars(UnexpectedReboot) /\ WF_vars(NHCResume)
    /\ WF_vars(OperatorUndrain) /\ WF_vars(PodRecreated) /\ WF_vars(KubeletBack)
    /\ WF_vars(NamespaceGone) /\ WF_vars(JobsEnd)

Spec == Init /\ [][Next]_vars /\ Fairness

-------------------------------------------------------------------------------
(* Properties *)

\* How many of a script's first n steps register a cleanup.
Registered(script, n) == Cardinality({i \in 1..n : script[i].op = "cleanup"})

\* The variables stay in their types, and a drill has its own cleanups to run,
\* those of the steps it has passed, no other's.
TypeOK ==
    /\ lab \in Labs
    /\ phase \in {"idle", "script", "cleanup", "green", "done", "aborted"}
    /\ drill \in Drills
    /\ pc \in 1..Len(Script) + 1
    /\ status \in {"PASS", "GAP", "FAIL"}
    /\ {failed, gap, clean, spoiled} \subseteq BOOLEAN
    /\ Len(cleanups) <= Registered(Script, pc - 1)
    /\ \A i \in 1..(pc - 1) :
          LET k == Registered(Script, i)
          IN  Script[i].op = "cleanup" /\ k <= Len(cleanups) => cleanups[k] = Script[i].effect

\* "PASS (everything as expected), GAP (the lab recovered ...)" (drill.py): after
\* either, nothing of the drill d is left in the lab it found clean, whichever of
\* its cleanups failed, seen or unseen by lab_problems.  node_bringup is left out:
\* its node is in service, which is all that lab_problems asks, when its removal
\* has failed.
PassLeavesNothing ==
    phase = "done" /\ drill # "node_bringup" /\ clean /\ status # "FAIL" =>
        lab.broken = {} /\ lab.left \subseteq {"unready"}

\* "An error or Ctrl-C still puts the lab back" (drills/README.md:54): a drill
\* that found the lab clean and whose cleanups all ran leaves a lab that is, or
\* comes to be, clean again, wherever the drill stopped.
PutsBack(ds) ==
    (phase = "done" /\ drill \in ds /\ clean /\ ~spoiled) ~> (lab = CleanLab \/ phase = "script")

PutBack == PutsBack(Drills \ {"node_death", "k8s_pdb_drain"})

\* The same of every drill.
PutBackEverywhere == PutsBack(Drills)

\* "Every drill registers its cleanup before it injects" (drills/README.md:53):
\* at every step of a drill, a registered cleanup undoes each thing it has broken
\* or put into a lab it found clean.  A deleted pod is recreated by Kubernetes,
\* and jobs end by themselves.  k8s_pdb_drain is left out: it annotates its node
\* one step before it registers the annotation's removal.
CleanupFirst ==
    phase = "script" /\ drill # "k8s_pdb_drain" /\ clean =>
        LET undone == {cleanups[i] : i \in DOMAIN cleanups}
        IN  /\ \A x \in lab.broken \ {"pod"} : Repair(x) \in undone
            /\ \A x \in lab.left \ {"jobs", "deleting", "unready", "new_node_drained"} :
                  TakeAway(x) \in undone

\* Whatever happens to the node under drill, the drill ends.
DrillEnds == phase = "script" ~> phase \in {"done", "aborted"}

===============================================================================
