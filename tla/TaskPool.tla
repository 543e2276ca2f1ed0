------------------------------ MODULE TaskPool ------------------------------
(***************************************************************************)
(* What ThreadPool.h promises its caller: tasks are started once each, in  *)
(* the order of submission, every one of them is finished, and the         *)
(* destructor returns when all are.  Tasks are numbered as they come.      *)
(***************************************************************************)
EXTENDS Naturals

VARIABLES
    submitted,  \* the number of tasks submitted
    started,    \* how many of them, the first ones, have been started
    finished,   \* the tasks whose futures are ready
    status      \* "open", "closing" while the destructor runs, "closed"

vars == <<submitted, started, finished, status>>

Init == submitted = 0 /\ started = 0 /\ finished = {} /\ status = "open"

Submit ==
    /\ status = "open"
    /\ submitted' = submitted + 1
    /\ UNCHANGED <<started, finished, status>>

Start ==
    /\ started < submitted
    /\ started' = started + 1
    /\ UNCHANGED <<submitted, finished, status>>

Finish ==
    /\ \E t \in (1..started) \ finished : finished' = finished \cup {t}
    /\ UNCHANGED <<submitted, started, status>>

Close ==
    /\ status = "open" /\ status' = "closing"
    /\ UNCHANGED <<submitted, started, finished>>

Closed ==
    /\ status = "closing" /\ finished = 1..submitted
    /\ status' = "closed"
    /\ UNCHANGED <<submitted, started, finished>>

Next == Submit \/ Start \/ Finish \/ Close \/ Closed

Spec == Init /\ [][Next]_vars

(* Work goes on while there is some.                                       *)
FairSpec == Spec /\ WF_vars(Start) /\ WF_vars(Finish) /\ WF_vars(Closed)
=============================================================================
