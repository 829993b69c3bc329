------------------------------ MODULE ThreadPool ------------------------------
(***************************************************************************)
(* ll::core::ThreadPool (src/core/thread_pool.cpp): a fixed set of worker  *)
(* threads serving one FIFO of tasks, an atomic counter of tasks that are  *)
(* handed over but not finished, and a wait_idle() that sleeps on that     *)
(* counter.                                                                *)
(*                                                                         *)
(* Three kinds of thread take steps: producers (the WebSocket threads that *)
(* call dispatch), workers (worker_loop) and the owner (the thread that    *)
(* constructed the pool, calls wait_idle and runs the destructor).  What a *)
(* thread does while it holds mu_ is one step: tasks_ and stop_ are only   *)
(* touched under it.  idle_mu_ is taken by wait_idle alone, so it orders   *)
(* nothing and the test of inflight_ and the wait that follows are steps   *)
(* of their own.                                                           *)
(***************************************************************************)
EXTENDS Naturals, Sequences, FiniteSets

CONSTANTS Task,         \* the tasks producers may dispatch, each once
          Worker,       \* the worker threads
          Producer,     \* the threads that call dispatch
          NoTask        \* "no task in hand"

(* Both users construct the pool only when parse_workers > 0. *)
ASSUME ConstantsAssumption == /\ NoTask \notin Task
                              /\ IsFiniteSet(Worker) /\ Worker # {}
                              /\ IsFiniteSet(Producer)

VARIABLES tasks,        \* tasks_: the FIFO, guarded by mu_
          inflight,     \* inflight_: atomic<int>
          stop,         \* stop_: guarded by mu_
          ppc,          \* where each producer is in dispatch
          ptask,        \* the task each producer is dispatching
          wpc,          \* where each worker is in worker_loop
          job,          \* the job each worker holds
          opc,          \* where the owner is in wait_idle or ~ThreadPool
          before,       \* tasks counted before the owner's wait_idle call
          submitted,    \* history: tasks whose dispatch has counted them
          runs,         \* history: how often each task has been called
          settled       \* history: tasks a returned wait_idle answers for

producerVars == <<ppc, ptask>>
workerVars == <<wpc, job>>
ownerVars == <<opc, before, settled>>
vars == <<tasks, inflight, stop, producerVars, workerVars, ownerVars,
          submitted, runs>>

-------------------------------------------------------------------------------
(* The owner has not entered the destructor. *)
Constructed == opc \in {"working", "checking", "blocking", "blocked"}

(* Workers blocked in cv_.wait. *)
Sleeping == {w \in Worker : wpc[w] = "waiting"}

(* idle_cv_.notify_all(): wakes the owner only if it is already blocked. *)
WakeOwner == opc' = IF opc = "blocked" THEN "checking" ELSE opc

-------------------------------------------------------------------------------
Init == /\ tasks = <<>>
        /\ inflight = 0
        /\ stop = FALSE
        /\ ppc = [p \in Producer |-> "idle"]
        /\ ptask = [p \in Producer |-> NoTask]
        /\ wpc = [w \in Worker |-> "ready"]
        /\ job = [w \in Worker |-> NoTask]
        /\ opc = "working"
        /\ before = {}
        /\ submitted = {}
        /\ runs = [t \in Task |-> 0]
        /\ settled = {}

(* Mutant of Count: the task is handed over without being counted. *)
CountUncounted(p, t) == /\ Constructed
                        /\ ppc[p] = "idle"
                        /\ t \notin submitted
                        /\ submitted' = submitted \cup {t}
                        /\ ppc' = [ppc EXCEPT ![p] = "counted"]
                        /\ ptask' = [ptask EXCEPT ![p] = t]
                        /\ UNCHANGED <<tasks, inflight, stop, workerVars,
                                       ownerVars, runs>>

(* dispatch(t), first statement: inflight_.fetch_add(1).  Both users of the *)
(* pool stop their WebSocket, and with it every dispatch, before they       *)
(* destroy the pool.                                                        *)
Count(p, t) == /\ Constructed
               /\ ppc[p] = "idle"
               /\ t \notin submitted
               /\ inflight' = inflight + 1
               /\ submitted' = submitted \cup {t}
               /\ ppc' = [ppc EXCEPT ![p] = "counted"]
               /\ ptask' = [ptask EXCEPT ![p] = t]
               /\ UNCHANGED <<tasks, stop, workerVars, ownerVars, runs>>

(* dispatch: tasks_.push under mu_. *)
Push(p) == /\ ppc[p] = "counted"
           /\ tasks' = Append(tasks, ptask[p])
           /\ ppc' = [ppc EXCEPT ![p] = "pushed"]
           /\ ptask' = [ptask EXCEPT ![p] = NoTask]
           /\ UNCHANGED <<inflight, stop, workerVars, ownerVars, submitted, runs>>

(* Mutant of NotifyOne: no worker is woken for the pushed task. *)
NotifyNobody(p) == /\ ppc[p] = "pushed"
                   /\ ppc' = [ppc EXCEPT ![p] = "idle"]
                   /\ UNCHANGED <<tasks, inflight, stop, ptask, workerVars,
                                  ownerVars, submitted, runs>>

(* dispatch: cv_.notify_one() after mu_ is released; lost if nobody sleeps. *)
NotifyOne(p) == /\ ppc[p] = "pushed"
                /\ ppc' = [ppc EXCEPT ![p] = "idle"]
                /\ \/ Sleeping = {} /\ UNCHANGED wpc
                   \/ \E w \in Sleeping : wpc' = [wpc EXCEPT ![w] = "ready"]
                /\ UNCHANGED <<tasks, inflight, stop, ptask, job, ownerVars,
                               submitted, runs>>

-------------------------------------------------------------------------------
(* worker_loop: the predicate holds and there is a task; pop it. *)
Take(w) == /\ wpc[w] = "ready"
           /\ tasks # <<>>
           /\ job' = [job EXCEPT ![w] = Head(tasks)]
           /\ tasks' = Tail(tasks)
           /\ wpc' = [wpc EXCEPT ![w] = "running"]
           /\ UNCHANGED <<inflight, stop, producerVars, ownerVars, submitted, runs>>

(* worker_loop: the predicate is false, cv_.wait releases mu_ and sleeps. *)
Wait(w) == /\ wpc[w] = "ready"
           /\ tasks = <<>> /\ ~stop
           /\ wpc' = [wpc EXCEPT ![w] = "waiting"]
           /\ UNCHANGED <<tasks, inflight, stop, producerVars, job, ownerVars,
                          submitted, runs>>

(* Mutant of Return: a worker leaves on stop_ with tasks still queued. *)
ReturnOnStop(w) == /\ wpc[w] = "ready"
                   /\ stop
                   /\ wpc' = [wpc EXCEPT ![w] = "returned"]
                   /\ UNCHANGED <<tasks, inflight, stop, producerVars, job,
                                  ownerVars, submitted, runs>>

(* worker_loop: stop_ and nothing left to do; the thread returns. *)
Return(w) == /\ wpc[w] = "ready"
             /\ tasks = <<>> /\ stop
             /\ wpc' = [wpc EXCEPT ![w] = "returned"]
             /\ UNCHANGED <<tasks, inflight, stop, producerVars, job, ownerVars,
                            submitted, runs>>

(* worker_loop: job() with no lock held. *)
Run(w) == /\ wpc[w] = "running"
          /\ runs' = [runs EXCEPT ![job[w]] = @ + 1]
          /\ job' = [job EXCEPT ![w] = NoTask]
          /\ wpc' = [wpc EXCEPT ![w] = "ran"]
          /\ UNCHANGED <<tasks, inflight, stop, producerVars, ownerVars, submitted>>

(* worker_loop: inflight_.fetch_sub(1), outside both mutexes. *)
Discount(w) == /\ wpc[w] = "ran"
               /\ inflight' = inflight - 1
               /\ wpc' = [wpc EXCEPT ![w] = "discounted"]
               /\ UNCHANGED <<tasks, stop, producerVars, job, ownerVars,
                              submitted, runs>>

(* worker_loop: idle_cv_.notify_all(), without idle_mu_. *)
NotifyIdle(w) == /\ wpc[w] = "discounted"
                 /\ WakeOwner
                 /\ wpc' = [wpc EXCEPT ![w] = "ready"]
                 /\ UNCHANGED <<tasks, inflight, stop, producerVars, job, before,
                                settled, submitted, runs>>

-------------------------------------------------------------------------------
(* wait_idle is called. *)
CallWaitIdle == /\ opc = "working"
                /\ opc' = "checking"
                /\ before' = submitted
                /\ UNCHANGED <<tasks, inflight, stop, producerVars, workerVars,
                               settled, submitted, runs>>

(* Mutant of ReturnIdle: an empty queue is taken for an idle pool. *)
ReturnOnEmptyQueue == /\ opc = "checking"
                      /\ tasks = <<>>
                      /\ opc' = "working"
                      /\ settled' = before
                      /\ UNCHANGED <<tasks, inflight, stop, producerVars,
                                     workerVars, before, submitted, runs>>

(* wait_idle: the predicate sees zero, the call returns. *)
ReturnIdle == /\ opc = "checking"
              /\ inflight = 0
              /\ opc' = "working"
              /\ settled' = before
              /\ UNCHANGED <<tasks, inflight, stop, producerVars, workerVars,
                             before, submitted, runs>>

(* wait_idle: the predicate sees work; the owner will block next. *)
SeeBusy == /\ opc = "checking"
           /\ inflight # 0
           /\ opc' = "blocking"
           /\ UNCHANGED <<tasks, inflight, stop, producerVars, workerVars,
                          before, settled, submitted, runs>>

(* wait_idle: idle_cv_.wait puts the owner to sleep. *)
Block == /\ opc = "blocking"
         /\ opc' = "blocked"
         /\ UNCHANGED <<tasks, inflight, stop, producerVars, workerVars,
                        before, settled, submitted, runs>>

(* ~ThreadPool: stop_ = true under mu_, once no producer is in dispatch. *)
SetStop == /\ opc = "working"
           /\ \A p \in Producer : ppc[p] = "idle"
           /\ stop' = TRUE
           /\ opc' = "stopping"
           /\ UNCHANGED <<tasks, inflight, producerVars, workerVars, before,
                          settled, submitted, runs>>

(* Mutant of NotifyStop: notify_one where every worker must hear. *)
NotifyStopToOne == /\ opc = "stopping"
                   /\ \/ Sleeping = {} /\ UNCHANGED wpc
                      \/ \E w \in Sleeping : wpc' = [wpc EXCEPT ![w] = "ready"]
                   /\ opc' = "joining"
                   /\ UNCHANGED <<tasks, inflight, stop, producerVars, job,
                                  before, settled, submitted, runs>>

(* ~ThreadPool: cv_.notify_all(). *)
NotifyStop == /\ opc = "stopping"
              /\ wpc' = [w \in Worker |->
                           IF w \in Sleeping THEN "ready" ELSE wpc[w]]
              /\ opc' = "joining"
              /\ UNCHANGED <<tasks, inflight, stop, producerVars, job, before,
                             settled, submitted, runs>>

(* ~ThreadPool: every worker has been joined. *)
Join == /\ opc = "joining"
        /\ \A w \in Worker : wpc[w] = "returned"
        /\ opc' = "destroyed"
        /\ UNCHANGED <<tasks, inflight, stop, producerVars, workerVars, before,
                       settled, submitted, runs>>

-------------------------------------------------------------------------------
(* A condition variable may wake a sleeper without a notification. *)
SpuriousWake == /\ \/ /\ opc = "blocked"
                      /\ opc' = "checking"
                      /\ UNCHANGED wpc
                   \/ \E w \in Sleeping : /\ wpc' = [wpc EXCEPT ![w] = "ready"]
                                          /\ UNCHANGED opc
                /\ UNCHANGED <<tasks, inflight, stop, producerVars, job, before,
                               settled, submitted, runs>>

(* The pool is gone; nothing happens any more. *)
Terminated == opc = "destroyed" /\ UNCHANGED vars

ProducerStep(p) == (\E t \in Task : Count(p, t)) \/ Push(p) \/ NotifyOne(p)

WorkerStep(w) == \/ Take(w) \/ Wait(w) \/ Return(w)
                 \/ Run(w) \/ Discount(w) \/ NotifyIdle(w)

OwnerStep == \/ CallWaitIdle \/ ReturnIdle \/ SeeBusy \/ Block
             \/ SetStop \/ NotifyStop \/ Join

Next == \/ \E p \in Producer : ProducerStep(p)
        \/ \E w \in Worker : WorkerStep(w)
        \/ OwnerStep
        \/ SpuriousWake
        \/ Terminated

Spec == Init /\ [][Next]_vars

(* Threads are scheduled: a producer finishes a dispatch it began, a worker *)
(* that can step does, the owner finishes the call it is in.  Nothing makes *)
(* a producer dispatch, the owner call, or a spurious wakeup happen.        *)
Fairness == /\ \A p \in Producer : WF_vars(Push(p) \/ NotifyOne(p))
            /\ \A w \in Worker : WF_vars(WorkerStep(w))
            /\ WF_vars(ReturnIdle \/ SeeBusy \/ Block \/ NotifyStop \/ Join)

FairSpec == Spec /\ Fairness

-------------------------------------------------------------------------------
WorkerPc == {"ready", "waiting", "running", "ran", "discounted", "returned"}
OwnerPc == {"working", "checking", "blocking", "blocked", "stopping",
            "joining", "destroyed"}

(* Every variable has its type; in particular inflight never goes below 0. *)
TypeOK == /\ tasks \in Seq(Task)
          /\ inflight \in Nat
          /\ stop \in BOOLEAN
          /\ ppc \in [Producer -> {"idle", "counted", "pushed"}]
          /\ ptask \in [Producer -> Task \cup {NoTask}]
          /\ wpc \in [Worker -> WorkerPc]
          /\ job \in [Worker -> Task \cup {NoTask}]
          /\ opc \in OwnerPc
          /\ before \in SUBSET Task
          /\ submitted \in SUBSET Task
          /\ runs \in [Task -> Nat]
          /\ settled \in SUBSET Task

(* Producers between fetch_add and push, and workers between pop and        *)
(* fetch_sub.                                                               *)
Counting == {p \in Producer : ppc[p] = "counted"}
Busy == {w \in Worker : wpc[w] \in {"running", "ran"}}

(* inflight_ counts exactly the tasks that are on their way into the queue, *)
(* in it, or in a worker's hands: the counter wait_idle and nothing else    *)
(* relies on cannot read zero while a dispatched task is still to run.      *)
InflightExact == inflight = Cardinality(Counting) + Len(tasks) + Cardinality(Busy)

(* A counted task that has not run is with its producer, in the queue or    *)
(* with the worker that popped it.                                          *)
Outstanding == {ptask[p] : p \in Counting} \cup {tasks[i] : i \in DOMAIN tasks}
                 \cup {job[w] : w \in {v \in Worker : wpc[v] = "running"}}

Accounted == \A t \in submitted : runs[t] > 0 \/ t \in Outstanding

(* A returned wait_idle() answers for every task dispatched before the call *)
(* was made: each of them has run (StreamClient::stop and the quote feed's  *)
(* stop destroy what the tasks use right after it).                         *)
WaitIdleSound == \A t \in settled : runs[t] > 0

(* The destructor drains: when the last worker is joined no dispatched task *)
(* has been dropped, whether or not the owner called wait_idle first.       *)
DestroyDrains == opc = "destroyed" => \A t \in submitted : runs[t] > 0

(* The pool implements TaskExecutor, with its fairness: a dispatched task   *)
(* runs exactly once, eventually, and wait_idle answers only for tasks that *)
(* have run.                                                                *)
Executor == INSTANCE TaskExecutor
ImplementsExecutor == Executor!FairSpec

(* The destructor, once entered, returns: no worker sleeps through stop_.   *)
DestroyReturns == (opc = "stopping") ~> (opc = "destroyed")

(* wait_idle, once called, returns: the tests and the stop() of both        *)
(* WebSocket clients wait for nothing else.  The tasks are finitely many.   *)
WaitIdleReturns == (opc = "checking") ~> (opc = "working")

(* Workers about to test the queue, and producers about to notify.          *)
Ready == {w \in Worker : wpc[w] = "ready"}
Notifying == {p \in Producer : ppc[p] = "pushed"}

(* No task is left to a busy worker while another sleeps: for every queued  *)
(* task there is a worker about to test the queue, or a notification to     *)
(* come, as long as anybody is left to notify; and somebody always is up.   *)
NoneSleepsOnTasks ==
  /\ Sleeping # {} => Len(tasks) <= Cardinality(Notifying) + Cardinality(Ready)
  /\ tasks # <<>> => Notifying # {} \/ \E w \in Worker : wpc[w] \notin {"waiting", "returned"}
  /\ opc \in {"joining", "destroyed"} => Sleeping = {}

(* A wait_idle that no notification will end any more (only the next task,  *)
(* or a spurious wakeup) got there by the one step between its test and its *)
(* wait, which wait_idle's own mutex does not close against the workers.    *)
Stuck == opc = "blocked" /\ inflight = 0 /\ \A w \in Worker : wpc[w] # "discounted"
OnlyBlockLosesWakeup == [][Stuck' => Stuck \/ opc = "blocking"]_vars
===============================================================================
