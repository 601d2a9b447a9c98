---------------------------- MODULE SerialSaves ----------------------------
(***************************************************************************)
(* What withWriteLock promises for one notebook path (fs-service.ts): the  *)
(* operations submitted to it run one at a time, in the order in which     *)
(* they were submitted, and a restart of the server forgets all of them.   *)
(* Operations are named by their position in the order of submission.      *)
(***************************************************************************)
EXTENDS Naturals

VARIABLES
    submitted,  \* number of operations submitted so far
    waiting,    \* the ones that have not started
    running     \* the one that runs, if any (a set with at most one element)

vars == <<submitted, waiting, running>>

Init == submitted = 0 /\ waiting = {} /\ running = {}

Submit ==
    /\ submitted' = submitted + 1
    /\ waiting' = waiting \cup {submitted'}
    /\ UNCHANGED running

Start ==
    /\ running = {}
    /\ \E t \in waiting :
          /\ \A u \in waiting : t <= u
          /\ running' = {t}
          /\ waiting' = waiting \ {t}
    /\ UNCHANGED submitted

Finish ==
    /\ running # {}
    /\ running' = {}
    /\ UNCHANGED <<submitted, waiting>>

Restart ==
    /\ waiting' = {}
    /\ running' = {}
    /\ UNCHANGED submitted

Next == Submit \/ Start \/ Finish \/ Restart

Spec == Init /\ [][Next]_vars
FairSpec == Spec /\ WF_vars(Start) /\ WF_vars(Finish)
=============================================================================
