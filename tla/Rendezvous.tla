------------------------------ MODULE Rendezvous ------------------------------
(***************************************************************************)
(* What weave.h promises of a pool of threads: each finishes ready() before *)
(* any runs go(), and start_threads() returns once every thread is done.    *)
(***************************************************************************)
CONSTANT Threads

VARIABLES
    stage,          \* "early", "ready" or "gone", for each thread
    returned        \* start_threads() has returned

vars == <<stage, returned>>

Init ==
    /\ stage = [t \in Threads |-> "early"]
    /\ returned = FALSE

FinishReady(t) ==
    /\ stage[t] = "early"
    /\ stage' = [stage EXCEPT ![t] = "ready"]
    /\ UNCHANGED returned

RunGo(t) ==
    /\ stage[t] = "ready"
    /\ \A u \in Threads : stage[u] # "early"
    /\ stage' = [stage EXCEPT ![t] = "gone"]
    /\ UNCHANGED returned

Return ==
    /\ \A t \in Threads : stage[t] = "gone"
    /\ returned' = TRUE
    /\ UNCHANGED stage

Next == Return \/ \E t \in Threads : FinishReady(t) \/ RunGo(t)

Safety == Init /\ [][Next]_vars

\* The whole promise: the pool runs to its end.
Spec == Safety /\ WF_vars(Next)

=============================================================================
