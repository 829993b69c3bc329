----------------------------- MODULE TaskExecutor -----------------------------
(***************************************************************************)
(* What a client of ll::core::ThreadPool may rely on, with no queue, no    *)
(* worker and no condition variable in sight: a task that was handed over  *)
(* runs once, and everything a returned wait_idle() answers for has run.   *)
(* ThreadPool implements this module (see ThreadPool!Executor).            *)
(***************************************************************************)
EXTENDS Naturals

CONSTANT Task           \* the tasks clients may hand over

VARIABLES submitted,    \* tasks handed over with dispatch()
          runs,         \* how often each task's function has been called
          settled       \* tasks some returned wait_idle() has answered for

vars == <<submitted, runs, settled>>

Ran == {t \in Task : runs[t] > 0}

Init == /\ submitted = {}
        /\ runs = [t \in Task |-> 0]
        /\ settled = {}

(* A client hands over a task it has not handed over before. *)
Submit(t) == /\ t \notin submitted
             /\ submitted' = submitted \cup {t}
             /\ UNCHANGED <<runs, settled>>

(* A submitted task runs, for the first and only time. *)
Execute(t) == /\ t \in submitted
              /\ runs[t] = 0
              /\ runs' = [runs EXCEPT ![t] = 1]
              /\ UNCHANGED <<submitted, settled>>

(* wait_idle() returns: it may answer only for tasks that have run. *)
Settle == /\ settled' \in SUBSET Ran
          /\ UNCHANGED <<submitted, runs>>

Next == \/ \E t \in Task : Submit(t) \/ Execute(t)
        \/ Settle

Spec == Init /\ [][Next]_vars

FairSpec == Spec /\ \A t \in Task : WF_vars(Execute(t))
===============================================================================
