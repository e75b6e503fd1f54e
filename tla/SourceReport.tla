------------------------------ MODULE SourceReport ------------------------------
(***************************************************************************)
(* What one tool call promises about the sources it reads, whatever the    *)
(* server does to read them: each source settles once, as read in full, as *)
(* read without its accounting, or as missing; and there is an answer only *)
(* once all have settled, which says of each source how it settled.        *)
(***************************************************************************)
EXTENDS Naturals

CONSTANT Sources

VARIABLES
    status,   \* status[s]: "unread" until s settles
    report    \* what the answer says of each source; empty before the answer

vars == <<status, report>>

Outcomes == {"full", "partial", "missing"}

None == [s \in {} |-> "full"]

Init ==
    /\ status = [s \in Sources |-> "unread"]
    /\ report = None

Settle(s, outcome) ==
    /\ status[s] = "unread"
    /\ report = None
    /\ status' = [status EXCEPT ![s] = outcome]
    /\ UNCHANGED report

Answer ==
    /\ \A s \in Sources : status[s] # "unread"
    /\ report = None
    /\ report' = status
    /\ UNCHANGED status

\* The next tool call reads everything anew.
Again ==
    /\ report # None
    /\ Init'

Next ==
    \/ \E s \in Sources, o \in Outcomes : Settle(s, o)
    \/ Answer
    \/ Again

Spec == Init /\ [][Next]_vars

===============================================================================
