--------------------------- MODULE ThreadPoolProofs ---------------------------
(***************************************************************************)
(* Theorems about ThreadPool for any finite set of producers, any finite   *)
(* nonempty set of workers and any set of tasks.                           *)
(*                                                                         *)
(* The argument has four layers.  Typed says what the variables hold (and  *)
(* that a producer or worker in the middle of its work has a task in       *)
(* hand).  InflightExact equates the counter with the number of tasks on   *)
(* their way; it needs Typed for the cardinalities to move by one.         *)
(* Accounted says where a task that has not run must be.  Together a zero  *)
(* counter leaves no place for such a task, which is WaitIdleSound.        *)
(* Draining adds what the destructor knows of the threads.  Once, that a   *)
(* task is in one place and runs once, makes the pool a TaskExecutor; and  *)
(* with Stopping a worker sleeps on a task only if a wakeup was lost.      *)
(***************************************************************************)
EXTENDS ThreadPool, FiniteSetTheorems, SequenceTheorems, TLAPS

Typed == /\ tasks \in Seq(Task)
         /\ inflight \in Int
         /\ stop \in BOOLEAN
         /\ ppc \in [Producer -> {"idle", "counted", "pushed"}]
         /\ ptask \in [Producer -> Task \cup {NoTask}]
         /\ wpc \in [Worker -> WorkerPc]
         /\ job \in [Worker -> Task \cup {NoTask}]
         /\ opc \in OwnerPc
         /\ before \in SUBSET Task
         /\ submitted \in SUBSET Task
         /\ runs \in [Task -> Nat]
         /\ settled \in SUBSET Task
         /\ \A p \in Producer : ppc[p] = "counted" => ptask[p] \in Task
         /\ \A w \in Worker : wpc[w] = "running" => job[w] \in Task

(* Typed is inductive by itself.                                            *)
LEMMA TypedInit == Init => Typed
<1> SUFFICES ASSUME Init PROVE Typed
  OBVIOUS
<1>1. tasks \in Seq(Task)
  BY EmptySeq DEF Init
<1>2. /\ ppc \in [Producer -> {"idle", "counted", "pushed"}]
      /\ ptask \in [Producer -> Task \cup {NoTask}]
      /\ wpc \in [Worker -> WorkerPc]
      /\ job \in [Worker -> Task \cup {NoTask}]
      /\ runs \in [Task -> Nat]
  BY DEF Init, WorkerPc
<1>3. /\ \A p \in Producer : ppc[p] # "counted"
      /\ \A w \in Worker : wpc[w] # "running"
  BY DEF Init
<1>4. inflight \in Int /\ opc \in OwnerPc
  BY DEF Init, OwnerPc
<1>6. stop \in BOOLEAN
  BY Zenon DEF Init
<1>5. before \in SUBSET Task /\ submitted \in SUBSET Task /\ settled \in SUBSET Task
  BY DEF Init
<1> QED BY <1>1, <1>2, <1>3, <1>4, <1>5, <1>6 DEF Typed

LEMMA TypedStep == Typed /\ [Next]_vars => Typed'
<1> SUFFICES ASSUME Typed, [Next]_vars PROVE Typed'
  OBVIOUS
<1> USE DEF Typed, producerVars, workerVars, ownerVars
<1>1. ASSUME NEW p \in Producer, NEW t \in Task, Count(p, t) PROVE Typed'
  BY <1>1 DEF Count
<1>2. ASSUME NEW p \in Producer, Push(p) PROVE Typed'
  <2>1. tasks' \in Seq(Task)
    BY <1>2, AppendProperties DEF Push
  <2> QED BY <1>2, <2>1 DEF Push
<1>3. ASSUME NEW p \in Producer, NotifyOne(p) PROVE Typed'
  BY <1>3 DEF NotifyOne, Sleeping, WorkerPc
<1>4. ASSUME NEW w \in Worker, Take(w) PROVE Typed'
  <2>1. Head(tasks) \in Task /\ tasks' \in Seq(Task)
    BY <1>4, HeadTailProperties DEF Take
  <2> QED BY <1>4, <2>1 DEF Take, WorkerPc
<1>5. ASSUME NEW w \in Worker, Wait(w) PROVE Typed'
  BY <1>5 DEF Wait, WorkerPc
<1>6. ASSUME NEW w \in Worker, Return(w) PROVE Typed'
  BY <1>6 DEF Return, WorkerPc
<1>7. ASSUME NEW w \in Worker, Run(w) PROVE Typed'
  BY <1>7 DEF Run, WorkerPc
<1>8. ASSUME NEW w \in Worker, Discount(w) PROVE Typed'
  BY <1>8 DEF Discount, WorkerPc
<1>9. ASSUME NEW w \in Worker, NotifyIdle(w) PROVE Typed'
  BY <1>9 DEF NotifyIdle, WakeOwner, WorkerPc, OwnerPc
<1>10. ASSUME OwnerStep PROVE Typed'
  <2>1. CASE CallWaitIdle \/ ReturnIdle \/ SeeBusy \/ Block
    BY <2>1 DEF CallWaitIdle, ReturnIdle, SeeBusy, Block, OwnerPc
  <2>2. CASE SetStop \/ Join
    BY <2>2 DEF SetStop, Join, OwnerPc
  <2>3. CASE NotifyStop
    BY <2>3 DEF NotifyStop, Sleeping, OwnerPc, WorkerPc
  <2> QED BY <1>10, <2>1, <2>2, <2>3 DEF OwnerStep
<1>11. ASSUME SpuriousWake PROVE Typed'
  BY <1>11 DEF SpuriousWake, Sleeping, WorkerPc, OwnerPc
<1>12. CASE UNCHANGED vars
  BY <1>12 DEF vars
<1> QED
  BY <1>1, <1>2, <1>3, <1>4, <1>5, <1>6, <1>7, <1>8, <1>9, <1>10, <1>11, <1>12
     DEF Next, ProducerStep, WorkerStep, Terminated

LEMMA TypedAlways == Spec => []Typed
BY TypedInit, TypedStep, PTL DEF Spec

-------------------------------------------------------------------------------
(* The two sets whose sizes InflightExact adds up are finite.               *)
LEMMA FiniteSides == /\ IsFiniteSet(Counting) /\ Cardinality(Counting) \in Nat
                     /\ IsFiniteSet(Busy) /\ Cardinality(Busy) \in Nat
<1>1. Counting \in SUBSET Producer /\ Busy \in SUBSET Worker
  BY DEF Counting, Busy
<1>2. IsFiniteSet(Counting) /\ IsFiniteSet(Busy)
  BY <1>1, FS_Subset, ConstantsAssumption
<1> QED BY <1>2, FS_CardinalityType

LEMMA InflightInit == Init => InflightExact
<1> SUFFICES ASSUME Init PROVE InflightExact
  OBVIOUS
<1>1. Counting = {} /\ Busy = {}
  BY DEF Init, Counting, Busy
<1>2. inflight = 0 /\ Len(tasks) = 0
  BY EmptySeq DEF Init
<1> QED BY <1>1, <1>2, FS_EmptySet DEF InflightExact

(* Each step moves at most one task, so that the sum and the counter change *)
(* together or not at all.                                                  *)
LEMMA InflightStep == Typed /\ InflightExact /\ [Next]_vars => InflightExact'
<1> SUFFICES ASSUME Typed, InflightExact, [Next]_vars PROVE InflightExact'
  OBVIOUS
<1> USE FiniteSides DEF InflightExact
<1>0. Len(tasks) \in Nat /\ inflight \in Int
  BY LenProperties DEF Typed
<1>1. ASSUME NEW p \in Producer, NEW t \in Task, Count(p, t) PROVE InflightExact'
  <2>1. Counting' = Counting \cup {p} /\ p \notin Counting /\ Busy' = Busy
    BY <1>1 DEF Count, Counting, Busy, Typed, workerVars
  <2>2. Cardinality(Counting') = Cardinality(Counting) + 1
    BY <2>1, FS_AddElement
  <2> QED BY <1>0, <1>1, <2>1, <2>2 DEF Count
<1>2. ASSUME NEW p \in Producer, Push(p) PROVE InflightExact'
  <2>1. Counting' = Counting \ {p} /\ p \in Counting /\ Busy' = Busy
    BY <1>2 DEF Push, Counting, Busy, Typed, workerVars
  <2>2. Cardinality(Counting') = Cardinality(Counting) - 1
    BY <2>1, FS_RemoveElement
  <2>3. Len(tasks') = Len(tasks) + 1
    BY <1>2, AppendProperties DEF Push, Typed
  <2> QED BY <1>0, <1>2, <2>1, <2>2, <2>3 DEF Push
<1>3. ASSUME NEW p \in Producer, NotifyOne(p) PROVE InflightExact'
  <2>1. Counting' = Counting /\ Busy' = Busy
    BY <1>3 DEF NotifyOne, Counting, Busy, Typed, Sleeping
  <2> QED BY <1>3, <2>1 DEF NotifyOne
<1>4. ASSUME NEW w \in Worker, Take(w) PROVE InflightExact'
  <2>1. Counting' = Counting /\ Busy' = Busy \cup {w} /\ w \notin Busy
    BY <1>4 DEF Take, Counting, Busy, Typed, producerVars
  <2>2. Cardinality(Busy') = Cardinality(Busy) + 1
    BY <2>1, FS_AddElement
  <2>3. Len(tasks') = Len(tasks) - 1
    BY <1>4, HeadTailProperties DEF Take, Typed
  <2> QED BY <1>0, <1>4, <2>1, <2>2, <2>3 DEF Take
<1>5. ASSUME NEW w \in Worker, Wait(w) \/ Return(w) \/ NotifyIdle(w)
      PROVE  InflightExact'
  <2>1. Counting' = Counting /\ Busy' = Busy
    BY <1>5 DEF Wait, Return, NotifyIdle, Counting, Busy, Typed, producerVars
  <2> QED BY <1>5, <2>1 DEF Wait, Return, NotifyIdle
<1>6. ASSUME NEW w \in Worker, Run(w) PROVE InflightExact'
  <2>1. Counting' = Counting /\ Busy' = Busy
    BY <1>6 DEF Run, Counting, Busy, Typed, producerVars
  <2> QED BY <1>6, <2>1 DEF Run
<1>7. ASSUME NEW w \in Worker, Discount(w) PROVE InflightExact'
  <2>1. Counting' = Counting /\ Busy' = Busy \ {w} /\ w \in Busy
    BY <1>7 DEF Discount, Counting, Busy, Typed, producerVars
  <2>2. Cardinality(Busy') = Cardinality(Busy) - 1
    BY <2>1, FS_RemoveElement
  <2> QED BY <1>0, <1>7, <2>1, <2>2 DEF Discount
<1>8. ASSUME OwnerStep \/ SpuriousWake PROVE InflightExact'
  <2>1. Counting' = Counting /\ Busy' = Busy
    BY <1>8 DEF OwnerStep, SpuriousWake, CallWaitIdle, ReturnIdle, SeeBusy, Block,
                SetStop, NotifyStop, Join, Counting, Busy, Typed, Sleeping,
                producerVars, workerVars
  <2>2. UNCHANGED <<tasks, inflight>>
    BY <1>8 DEF OwnerStep, SpuriousWake, CallWaitIdle, ReturnIdle, SeeBusy, Block,
                SetStop, NotifyStop, Join
  <2> QED BY <2>1, <2>2
<1>9. CASE UNCHANGED vars
  BY <1>9 DEF vars, Counting, Busy, producerVars, workerVars
<1> QED
  BY <1>1, <1>2, <1>3, <1>4, <1>5, <1>6, <1>7, <1>8, <1>9
     DEF Next, ProducerStep, WorkerStep, Terminated

(* inflight_ counts exactly the dispatched tasks that have not finished.    *)
THEOREM InflightCorrect == Spec => []InflightExact
BY InflightInit, InflightStep, TypedAlways, PTL DEF Spec

(* Typed with the counter's exactness gives the full type invariant: the    *)
(* counter is a sum of sizes, so that no order of fetch_add and fetch_sub   *)
(* drives it below zero.                                                    *)
THEOREM TypeCorrect == Spec => []TypeOK
<1>1. Typed /\ InflightExact => TypeOK
  BY FiniteSides, LenProperties DEF Typed, InflightExact, TypeOK
<1> QED BY <1>1, TypedAlways, InflightCorrect, PTL

-------------------------------------------------------------------------------
(* A dispatched task that has not run is somewhere, and wait_idle only ever *)
(* looks back at tasks that were dispatched.                                *)
Whereabouts == /\ Accounted
               /\ before \subseteq submitted
               /\ \A t \in settled : runs[t] > 0

LEMMA WhereaboutsInit == Init => Whereabouts
BY DEF Init, Whereabouts, Accounted

(* A zero counter leaves no place for a task that has not run.              *)
LEMMA IdleMeansRan == Typed /\ InflightExact /\ Accounted /\ inflight = 0
                        => \A t \in submitted : runs[t] > 0
<1> SUFFICES ASSUME Typed, InflightExact, Accounted, inflight = 0
             PROVE  Outstanding = {}
  BY DEF Accounted
<1>1. Len(tasks) = 0 /\ Cardinality(Counting) = 0 /\ Cardinality(Busy) = 0
  BY FiniteSides, LenProperties DEF InflightExact, Typed
<1>2. Counting = {} /\ Busy = {}
  BY <1>1, FiniteSides, FS_EmptySet
<1>3. DOMAIN tasks = {}
  BY <1>1, LenProperties DEF Typed
<1> QED BY <1>2, <1>3 DEF Outstanding, Busy

LEMMA WhereaboutsStep ==
  Typed /\ InflightExact /\ Whereabouts /\ [Next]_vars => Whereabouts'
<1> SUFFICES ASSUME Typed, InflightExact, Whereabouts, [Next]_vars
             PROVE  Whereabouts'
  OBVIOUS
<1> USE DEF Whereabouts
<1>1. ASSUME NEW p \in Producer, NEW t \in Task, Count(p, t) PROVE Whereabouts'
  <2>1. \A u \in Outstanding : u \in Outstanding'
    BY <1>1 DEF Count, Outstanding, Counting, Typed, workerVars
  <2>2. t \in Outstanding'
    BY <1>1 DEF Count, Outstanding, Counting, Typed
  <2> QED BY <1>1, <2>1, <2>2 DEF Count, Accounted, ownerVars
<1>2. ASSUME NEW p \in Producer, Push(p) PROVE Whereabouts'
  <2>1. /\ DOMAIN tasks' = 1 .. Len(tasks) + 1
        /\ DOMAIN tasks = 1 .. Len(tasks)
        /\ Len(tasks) \in Nat
        /\ \A i \in DOMAIN tasks : tasks'[i] = tasks[i]
        /\ tasks'[Len(tasks) + 1] = ptask[p]
    BY <1>2, AppendProperties, LenProperties DEF Push, Typed
  <2>2. \A u \in Outstanding : u \in Outstanding'
    <3> SUFFICES ASSUME NEW u \in Outstanding PROVE u \in Outstanding'
      OBVIOUS
    <3>1. CASE \E q \in Counting : q # p /\ u = ptask[q]
      BY <1>2, <3>1 DEF Push, Outstanding, Counting, Typed
    <3>2. CASE u = ptask[p]
      BY <2>1, <3>2 DEF Outstanding
    <3>3. CASE \E i \in DOMAIN tasks : u = tasks[i]
      BY <2>1, <3>3 DEF Outstanding
    <3>4. CASE \E w \in Worker : wpc[w] = "running" /\ u = job[w]
      BY <1>2, <3>4 DEF Push, Outstanding, workerVars
    <3> QED BY <3>1, <3>2, <3>3, <3>4 DEF Outstanding
  <2> QED BY <1>2, <2>2 DEF Push, Accounted, ownerVars
<1>3. ASSUME NEW p \in Producer, NotifyOne(p) PROVE Whereabouts'
  <2>1. \A u \in Outstanding : u \in Outstanding'
    BY <1>3 DEF NotifyOne, Outstanding, Counting, Sleeping, Typed
  <2> QED BY <1>3, <2>1 DEF NotifyOne, Accounted, ownerVars
<1>4. ASSUME NEW w \in Worker, Take(w) PROVE Whereabouts'
  <2>1. /\ DOMAIN tasks' = 1 .. Len(tasks) - 1
        /\ DOMAIN tasks = 1 .. Len(tasks)
        /\ Len(tasks) \in Nat
        /\ \A i \in DOMAIN tasks' : tasks'[i] = tasks[i + 1]
    BY <1>4, HeadTailProperties, LenProperties DEF Take, Typed
  <2>2. Head(tasks) = tasks[1]
    BY <1>4 DEF Take, Typed
  <2>3. \A u \in Outstanding : u \in Outstanding'
    <3> SUFFICES ASSUME NEW u \in Outstanding PROVE u \in Outstanding'
      OBVIOUS
    <3>1. CASE \E q \in Counting : u = ptask[q]
      BY <1>4, <3>1 DEF Take, Outstanding, Counting, producerVars
    <3>2. CASE u = tasks[1]
      BY <1>4, <2>2, <3>2 DEF Take, Outstanding, Typed
    <3>3. ASSUME NEW i \in DOMAIN tasks, u = tasks[i], i # 1
          PROVE  u \in Outstanding'
      <4>1. i - 1 \in DOMAIN tasks' /\ tasks'[i - 1] = u
        BY <2>1, <3>3
      <4> QED BY <4>1 DEF Outstanding
    <3>4. CASE \E v \in Worker : wpc[v] = "running" /\ u = job[v]
      BY <1>4, <3>4 DEF Take, Outstanding, Typed
    <3> QED BY <3>1, <3>2, <3>3, <3>4 DEF Outstanding
  <2> QED BY <1>4, <2>3 DEF Take, Accounted, ownerVars
<1>5. ASSUME NEW w \in Worker, Run(w) PROVE Whereabouts'
  <2>1. job[w] \in Task /\ runs'[job[w]] > 0 /\ \A t \in Task : runs[t] > 0 => runs'[t] > 0
    BY <1>5 DEF Run, Typed
  <2>2. \A u \in Outstanding : u \in Outstanding' \/ u = job[w]
    BY <1>5 DEF Run, Outstanding, Counting, Typed, producerVars
  <2> QED BY <1>5, <2>1, <2>2 DEF Run, Accounted, ownerVars, Typed
<1>6. ASSUME NEW w \in Worker,
             Wait(w) \/ Return(w) \/ Discount(w) \/ NotifyIdle(w)
      PROVE  Whereabouts'
  <2>1. \A u \in Outstanding : u \in Outstanding'
    BY <1>6 DEF Wait, Return, Discount, NotifyIdle, Outstanding, Counting, Typed,
                producerVars
  <2> QED BY <1>6, <2>1 DEF Wait, Return, Discount, NotifyIdle, Accounted, ownerVars
<1>7. ASSUME OwnerStep \/ SpuriousWake PROVE Whereabouts'
  <2>1. \A u \in Outstanding : u \in Outstanding'
    BY <1>7 DEF OwnerStep, SpuriousWake, CallWaitIdle, ReturnIdle, SeeBusy, Block,
                SetStop, NotifyStop, Join, Outstanding, Counting, Typed, Sleeping,
                producerVars, workerVars
  <2>2. UNCHANGED <<submitted, runs>> /\ (before' = before \/ before' = submitted)
    BY <1>7 DEF OwnerStep, SpuriousWake, CallWaitIdle, ReturnIdle, SeeBusy, Block,
                SetStop, NotifyStop, Join
  <2>3. \/ settled' = settled
        \/ settled' = before /\ inflight = 0
    BY <1>7 DEF OwnerStep, SpuriousWake, CallWaitIdle, ReturnIdle, SeeBusy, Block,
                SetStop, NotifyStop, Join
  <2>4. \A t \in settled' : runs[t] > 0
    BY <2>3, IdleMeansRan
  <2> QED BY <2>1, <2>2, <2>4 DEF Accounted
<1>8. CASE UNCHANGED vars
  BY <1>8 DEF vars, Accounted, Outstanding, Counting, producerVars, workerVars,
              ownerVars
<1> QED
  BY <1>1, <1>2, <1>3, <1>4, <1>5, <1>6, <1>7, <1>8
     DEF Next, ProducerStep, WorkerStep, Terminated

(* When wait_idle returns, every task dispatched before it was called ran.  *)
THEOREM WaitIdleCorrect == Spec => []WaitIdleSound
<1>1. Whereabouts => WaitIdleSound
  BY DEF Whereabouts, WaitIdleSound
<1> QED
  BY <1>1, WhereaboutsInit, WhereaboutsStep, TypedAlways, InflightCorrect, PTL
     DEF Spec

-------------------------------------------------------------------------------
(* What the destructor knows: stop_ is raised only inside it, no producer   *)
(* is in dispatch any more, and a worker that returned saw the queue empty, *)
(* after which nothing refills it.                                          *)
Draining == /\ stop = TRUE => ~Constructed
            /\ ~Constructed => \A p \in Producer : ppc[p] = "idle"
            /\ \A w \in Worker : wpc[w] = "returned" => ~Constructed /\ tasks = <<>>
            /\ opc = "destroyed" => \A w \in Worker : wpc[w] = "returned"

LEMMA DrainingInit == Init => Draining
BY DEF Init, Draining, Constructed

LEMMA DrainingStep == Typed /\ Draining /\ [Next]_vars => Draining'
<1> SUFFICES ASSUME Typed, Draining, [Next]_vars PROVE Draining'
  OBVIOUS
<1> USE DEF Draining, Constructed
<1>1. ASSUME NEW p \in Producer, ProducerStep(p) PROVE Draining'
  <2>1. CASE \E t \in Task : Count(p, t)
    BY <2>1 DEF Count, workerVars, ownerVars, Typed
  <2>2. CASE Push(p)
    BY <2>2 DEF Push, workerVars, ownerVars, Typed
  <2>3. CASE NotifyOne(p)
    BY <2>3 DEF NotifyOne, Sleeping, ownerVars, Typed
  <2> QED BY <1>1, <2>1, <2>2, <2>3 DEF ProducerStep
<1>2. ASSUME NEW w \in Worker, WorkerStep(w) PROVE Draining'
  <2>1. CASE Take(w)
    BY <2>1 DEF Take, producerVars, ownerVars, Typed
  <2>2. CASE Wait(w) \/ Run(w) \/ Discount(w)
    BY <2>2 DEF Wait, Run, Discount, producerVars, ownerVars, Typed
  <2>3. CASE Return(w)
    BY <2>3 DEF Return, producerVars, ownerVars, Typed
  <2>4. CASE NotifyIdle(w)
    BY <2>4 DEF NotifyIdle, WakeOwner, producerVars, Typed
  <2> QED BY <1>2, <2>1, <2>2, <2>3, <2>4 DEF WorkerStep
<1>3. ASSUME OwnerStep PROVE Draining'
  <2>1. CASE CallWaitIdle \/ ReturnIdle \/ SeeBusy \/ Block
    BY <2>1 DEF CallWaitIdle, ReturnIdle, SeeBusy, Block, producerVars, workerVars
  <2>2. CASE SetStop
    BY <2>2 DEF SetStop, producerVars, workerVars
  <2>3. CASE NotifyStop
    BY <2>3 DEF NotifyStop, Sleeping, producerVars, Typed
  <2>4. CASE Join
    BY <2>4 DEF Join, producerVars, workerVars
  <2> QED BY <1>3, <2>1, <2>2, <2>3, <2>4 DEF OwnerStep
<1>4. ASSUME SpuriousWake PROVE Draining'
  BY <1>4 DEF SpuriousWake, Sleeping, producerVars, Typed
<1>5. CASE UNCHANGED vars
  BY <1>5 DEF vars, producerVars, workerVars, ownerVars
<1> QED
  BY <1>1, <1>2, <1>3, <1>4, <1>5 DEF Next, Terminated

(* The destructor returns only after every dispatched task has run.         *)
THEOREM DestroyCorrect == Spec => []DestroyDrains
<1>1. Typed /\ Accounted /\ Draining => DestroyDrains
  <2> SUFFICES ASSUME Typed, Accounted, Draining, opc = "destroyed"
               PROVE  Outstanding = {}
    BY DEF DestroyDrains, Accounted
  <2>1. tasks = <<>> /\ Busy = {}
    BY ConstantsAssumption DEF Draining, Busy
  <2>2. Counting = {}
    BY DEF Draining, Constructed, Counting
  <2>3. DOMAIN tasks = {}
    BY <2>1
  <2> QED BY <2>1, <2>2, <2>3 DEF Outstanding, Busy
<1>2. Spec => []Whereabouts
  BY WhereaboutsInit, WhereaboutsStep, TypedAlways, InflightCorrect, PTL DEF Spec
<1>3. Spec => []Draining
  BY DrainingInit, DrainingStep, TypedAlways, PTL DEF Spec
<1>4. Whereabouts => Accounted
  BY DEF Whereabouts
<1> QED BY <1>1, <1>2, <1>3, <1>4, TypedAlways, PTL
-------------------------------------------------------------------------------
(* Each task is in one place, with its producer, in the queue, or with the  *)
(* worker that runs it, and has not run there yet.                          *)
Running == {w \in Worker : wpc[w] = "running"}
Unrun(t) == t \in submitted /\ runs[t] = 0
Once == /\ \A t \in Task \ submitted : runs[t] = 0
        /\ \A p \in Counting : Unrun(ptask[p])
        /\ \A i \in 1..Len(tasks) : Unrun(tasks[i])
        /\ \A w \in Running : Unrun(job[w])
        /\ \A p, q \in Counting : ptask[p] = ptask[q] => p = q
        /\ \A i, j \in 1..Len(tasks) : tasks[i] = tasks[j] => i = j
        /\ \A v, w \in Running : job[v] = job[w] => v = w
        /\ \A p \in Counting, i \in 1..Len(tasks) : ptask[p] # tasks[i]
        /\ \A p \in Counting, w \in Running : ptask[p] # job[w]
        /\ \A i \in 1..Len(tasks), w \in Running : tasks[i] # job[w]

LEMMA OnceInit == Init => Once
BY DEF Init, Once, Counting, Running

LEMMA OnceCount ==
  ASSUME Typed, Once, NEW p \in Producer, NEW t \in Task, Count(p, t)
  PROVE  Once'
<1>1. /\ Counting' = Counting \cup {p} /\ p \notin Counting /\ Running' = Running
      /\ UNCHANGED <<tasks, job, runs>> /\ submitted' = submitted \cup {t} /\ t \notin submitted
      /\ ptask'[p] = t /\ \A q \in Counting : ptask'[q] = ptask[q]
  BY DEF Count, Counting, Running, Typed, workerVars
<1>2. runs[t] = 0
  BY <1>1 DEF Once
<1> QED BY <1>1, <1>2 DEF Once, Unrun

(* From the producer to the end of the queue.                               *)
LEMMA OncePush ==
  ASSUME Typed, Once, NEW p \in Producer, Push(p)
  PROVE  Once'
<1> DEFINE n == Len(tasks)
<1>1. /\ Counting' = Counting \ {p} /\ p \in Counting /\ Running' = Running
      /\ UNCHANGED <<job, runs, submitted>> /\ \A q \in Counting' : ptask'[q] = ptask[q]
  BY DEF Push, Counting, Running, Typed, workerVars
<1>2. /\ n \in Nat /\ Len(tasks') = n + 1 /\ tasks'[n + 1] = ptask[p]
      /\ \A i \in 1..n : tasks'[i] = tasks[i]
  BY AppendProperties, LenProperties DEF Push, Typed
<1>3. \A i \in 1..n + 1 : i \in 1..n \/ i = n + 1
  BY <1>2
<1> HIDE DEF n
<1>4. \A i \in 1..Len(tasks') : Unrun(tasks'[i])
  BY <1>1, <1>2, <1>3 DEF Once, n
<1>5. \A i, j \in 1..Len(tasks') : tasks'[i] = tasks'[j] => i = j
  BY <1>1, <1>2, <1>3 DEF Once, n
<1>6. \A q \in Counting', i \in 1..Len(tasks') : ptask'[q] # tasks'[i]
  BY <1>1, <1>2, <1>3 DEF Once, n
<1>7. \A i \in 1..Len(tasks'), w \in Running : tasks'[i] # job[w]
  BY <1>1, <1>2, <1>3 DEF Once, n
<1> QED BY <1>1, <1>4, <1>5, <1>6, <1>7 DEF Once, Unrun

(* From the head of the queue to the worker.                                *)
LEMMA OnceTake ==
  ASSUME Typed, Once, NEW w \in Worker, Take(w)
  PROVE  Once'
<1> DEFINE n == Len(tasks)
<1>1. /\ Running' = Running \cup {w} /\ w \notin Running /\ Counting' = Counting
      /\ UNCHANGED <<ptask, runs, submitted>> /\ job'[w] = tasks[1]
      /\ \A v \in Running : job'[v] = job[v]
  BY DEF Take, Counting, Running, Typed, producerVars
<1>2. /\ n \in Nat /\ n >= 1 /\ Len(tasks') = n - 1
      /\ \A i \in 1..n - 1 : tasks'[i] = tasks[i + 1]
  BY HeadTailProperties, LenProperties DEF Take, Typed
<1>3. 1 \in 1..n /\ \A i \in 1..n - 1 : i + 1 \in 1..n /\ i + 1 # 1
  BY <1>2
<1> HIDE DEF n
<1>4. \A i, j \in 1..Len(tasks') : tasks'[i] = tasks'[j] => i = j
  <2> SUFFICES ASSUME NEW i \in 1..n - 1, NEW j \in 1..n - 1, tasks'[i] = tasks'[j] PROVE i = j
    BY <1>2
  <2>1. i + 1 = j + 1
    BY <1>2, <1>3 DEF Once, n
  <2> QED BY <1>2, <2>1
<1>5. \A i \in 1..Len(tasks') : Unrun(tasks'[i])
  BY <1>2, <1>3 DEF Once, n
<1>6. \A q \in Counting, i \in 1..Len(tasks') : ptask[q] # tasks'[i]
  BY <1>2, <1>3 DEF Once, n
<1>7. \A i \in 1..Len(tasks'), v \in Running' : tasks'[i] # job'[v]
  BY <1>1, <1>2, <1>3 DEF Once, n
<1>8. \A u, v \in Running' : job'[u] = job'[v] => u = v
  BY <1>1, <1>3 DEF Once, n
<1>9. \A q \in Counting, v \in Running' : ptask[q] # job'[v]
  BY <1>1, <1>3 DEF Once, n
<1>10. \A v \in Running' : Unrun(job'[v])
  BY <1>1, <1>3 DEF Once, n
<1> QED BY <1>1, <1>4, <1>5, <1>6, <1>7, <1>8, <1>9, <1>10 DEF Once, Unrun

LEMMA OnceRun ==
  ASSUME Typed, Once, NEW w \in Worker, Run(w)
  PROVE  Once'
<1>1. /\ w \in Running /\ Running' = Running \ {w} /\ Counting' = Counting
      /\ UNCHANGED <<ptask, tasks, submitted>> /\ \A v \in Running' : job'[v] = job[v]
  BY DEF Run, Counting, Running, Typed, producerVars
<1>2. /\ job[w] \in submitted
      /\ \A t \in Task : t # job[w] => runs'[t] = runs[t]
  BY <1>1 DEF Run, Once, Unrun, Typed
<1>3. \A i \in 1..Len(tasks) : tasks[i] \in Task
  BY DEF Typed
<1>4. (\A p \in Counting : ptask[p] \in Task) /\ (\A v \in Running : job[v] \in Task)
  BY DEF Typed, Counting, Running
<1> QED BY <1>1, <1>2, <1>3, <1>4 DEF Once, Unrun

LEMMA OnceStep == Typed /\ Once /\ [Next]_vars => Once'
<1> SUFFICES ASSUME Typed, Once, [Next]_vars PROVE Once'
  OBVIOUS
<1>1. ASSUME Counting' = Counting, Running' = Running, UNCHANGED <<tasks, ptask, job, runs, submitted>>
      PROVE  Once'
  BY <1>1 DEF Once, Unrun
<1>2. ASSUME NEW p \in Producer, NotifyOne(p) PROVE Once'
  BY <1>1, <1>2 DEF NotifyOne, Sleeping, Counting, Running, Typed
<1>3. ASSUME NEW w \in Worker, Wait(w) \/ Return(w) \/ Discount(w) \/ NotifyIdle(w) PROVE Once'
  BY <1>1, <1>3 DEF Wait, Return, Discount, NotifyIdle, Counting, Running, Typed, producerVars
<1>4. CASE OwnerStep \/ SpuriousWake
  BY <1>1, <1>4 DEF OwnerStep, SpuriousWake, CallWaitIdle, ReturnIdle, SeeBusy, Block, SetStop,
                    NotifyStop, Join, Counting, Running, Typed, Sleeping, producerVars, workerVars
<1>5. CASE UNCHANGED vars
  BY <1>1, <1>5 DEF vars, producerVars, workerVars, Counting, Running
<1> QED
  BY <1>2, <1>3, <1>4, <1>5, OnceCount, OncePush, OnceTake, OnceRun
     DEF Next, ProducerStep, WorkerStep, Terminated

(* The pool, its queue, threads and condition variables hidden, takes the   *)
(* steps of TaskExecutor only: each task dispatched runs at most once, and  *)
(* wait_idle answers only for tasks that have run.                          *)
THEOREM ExecutorCorrect == Spec => Executor!Spec
<1>1. Init => Executor!Init
  BY DEF Init, Executor!Init
<1>2. Typed /\ InflightExact /\ Whereabouts /\ Once /\ [Next]_vars => [Executor!Next]_Executor!vars
  <2> SUFFICES ASSUME Typed, InflightExact, Whereabouts, Once, [Next]_vars
               PROVE  Executor!Next \/ UNCHANGED <<submitted, runs, settled>>
    BY DEF Executor!vars
  <2>1. ASSUME NEW p \in Producer, NEW t \in Task, Count(p, t) PROVE Executor!Submit(t)
    BY <2>1 DEF Count, Executor!Submit, ownerVars
  <2>2. ASSUME NEW w \in Worker, Run(w) PROVE job[w] \in Task /\ Executor!Execute(job[w])
    <3>1. job[w] \in Task /\ runs[job[w]] = 0 /\ job[w] \in submitted
      BY <2>2 DEF Run, Typed, Once, Running, Unrun
    <3>2. runs' = [runs EXCEPT ![job[w]] = 1] /\ UNCHANGED <<submitted, settled>>
      BY <2>2, <3>1 DEF Run, ownerVars
    <3> QED BY <3>1, <3>2 DEF Executor!Execute
  <2>3. CASE ReturnIdle
    <3>1. inflight = 0 /\ settled' = before /\ UNCHANGED <<submitted, runs>>
      BY <2>3 DEF ReturnIdle
    <3>2. before \subseteq submitted /\ before \subseteq Task
      BY DEF Whereabouts, Typed
    <3>3. \A t \in submitted : runs[t] > 0
      BY <3>1, IdleMeansRan DEF Whereabouts
    <3> QED BY <3>1, <3>2, <3>3 DEF Executor!Next, Executor!Settle, Executor!Ran
  <2>4. ASSUME NEW p \in Producer, Push(p) \/ NotifyOne(p) PROVE UNCHANGED <<submitted, runs, settled>>
    BY <2>4 DEF Push, NotifyOne, ownerVars
  <2>5. ASSUME NEW w \in Worker, WorkerStep(w), ~Run(w) PROVE UNCHANGED <<submitted, runs, settled>>
    BY <2>5 DEF WorkerStep, Take, Wait, Return, Discount, NotifyIdle, ownerVars
  <2>6. CASE OwnerStep /\ ~ReturnIdle
    BY <2>6 DEF OwnerStep, CallWaitIdle, SeeBusy, Block, SetStop, NotifyStop, Join, ownerVars
  <2>7. CASE SpuriousWake \/ UNCHANGED vars
    BY <2>7 DEF SpuriousWake, vars, ownerVars
  <2> QED BY <2>1, <2>2, <2>3, <2>4, <2>5, <2>6, <2>7
             DEF Next, ProducerStep, Terminated, Executor!Next
<1>3. Spec => [](Typed /\ InflightExact /\ Whereabouts)
  BY WhereaboutsInit, WhereaboutsStep, TypedAlways, InflightCorrect, PTL DEF Spec
<1>4. Spec => []Once
  BY OnceInit, OnceStep, TypedAlways, PTL DEF Spec
<1> QED BY <1>1, <1>2, <1>3, <1>4, PTL DEF Spec, Executor!Spec

-------------------------------------------------------------------------------
(* The wakeups.                                                             *)
LEMMA FiniteWaits == /\ IsFiniteSet(Notifying) /\ Cardinality(Notifying) \in Nat
                     /\ IsFiniteSet(Ready) /\ Cardinality(Ready) \in Nat
<1>1. Notifying \in SUBSET Producer /\ Ready \in SUBSET Worker
  BY DEF Notifying, Ready
<1>2. IsFiniteSet(Notifying) /\ IsFiniteSet(Ready)
  BY <1>1, FS_Subset, ConstantsAssumption
<1> QED BY <1>2, FS_CardinalityType

(* Nobody falls asleep once stop_ is raised.                                *)
Stopping == ~Constructed => stop = TRUE

LEMMA StoppingStep == Stopping /\ [Next]_vars => Stopping'
<1> SUFFICES ASSUME Stopping, [Next]_vars PROVE Stopping'
  OBVIOUS
<1> USE DEF Stopping, Constructed
<1>1. ASSUME NEW p \in Producer, ProducerStep(p) PROVE Stopping'
  BY <1>1 DEF ProducerStep, Count, Push, NotifyOne, ownerVars
<1>2. ASSUME NEW w \in Worker, WorkerStep(w) PROVE Stopping'
  BY <1>2 DEF WorkerStep, Take, Wait, Return, Run, Discount, NotifyIdle, WakeOwner, ownerVars
<1>3. CASE OwnerStep \/ SpuriousWake
  BY <1>3 DEF OwnerStep, SpuriousWake, CallWaitIdle, ReturnIdle, SeeBusy, Block, SetStop, NotifyStop, Join
<1>4. CASE UNCHANGED vars
  BY <1>4 DEF vars, ownerVars
<1> QED BY <1>1, <1>2, <1>3, <1>4 DEF Next, Terminated

LEMMA WakeupsInit == Init => NoneSleepsOnTasks /\ Stopping
BY DEF Init, NoneSleepsOnTasks, Sleeping, Stopping, Constructed

LEMMA WakeupsStep ==
  Typed /\ Draining /\ Stopping /\ NoneSleepsOnTasks /\ [Next]_vars => NoneSleepsOnTasks'
<1> SUFFICES ASSUME Typed, Draining, Stopping, NoneSleepsOnTasks, [Next]_vars PROVE NoneSleepsOnTasks'
  OBVIOUS
<1> USE FiniteWaits DEF NoneSleepsOnTasks
<1>0. Len(tasks) \in Nat /\ (tasks = <<>> <=> Len(tasks) = 0)
  BY LenProperties, EmptySeq DEF Typed
<1>1. ASSUME UNCHANGED <<tasks, ppc, wpc>>, opc' \in {"joining", "destroyed"} => opc \in {"joining", "destroyed"}
      PROVE  NoneSleepsOnTasks'
  BY <1>1 DEF Notifying, Ready, Sleeping
<1>2. ASSUME NEW p \in Producer, NEW t \in Task, Count(p, t) PROVE NoneSleepsOnTasks'
  <2>1. Notifying' = Notifying /\ UNCHANGED <<tasks, wpc, opc>>
    BY <1>2 DEF Count, Notifying, Typed, workerVars, ownerVars
  <2> QED BY <2>1 DEF Ready, Sleeping
<1>3. ASSUME NEW p \in Producer, Push(p) PROVE NoneSleepsOnTasks'
  <2>1. Notifying' = Notifying \cup {p} /\ p \notin Notifying /\ UNCHANGED <<wpc, opc>>
    BY <1>3 DEF Push, Notifying, Typed, workerVars, ownerVars
  <2>2. Cardinality(Notifying') = Cardinality(Notifying) + 1
    BY <2>1, FS_AddElement
  <2>3. Len(tasks') = Len(tasks) + 1
    BY <1>3, AppendProperties DEF Push, Typed
  <2>4. Ready' = Ready /\ Sleeping' = Sleeping
    BY <2>1 DEF Ready, Sleeping
  <2> QED BY <1>0, <2>1, <2>2, <2>3, <2>4
(* A sleeper that wakes is ready.                                           *)
<1>4. ASSUME NEW w \in Sleeping, wpc' = [wpc EXCEPT ![w] = "ready"]
      PROVE  /\ Cardinality(Ready') = Cardinality(Ready) + 1 /\ wpc'[w] = "ready"
             /\ w \in Worker /\ Sleeping' \subseteq Sleeping
  <2>1. w \in Worker /\ Ready' = Ready \cup {w} /\ w \notin Ready /\ Sleeping' \subseteq Sleeping /\ wpc'[w] = "ready"
    BY <1>4 DEF Ready, Sleeping, Typed
  <2> QED BY <2>1, FS_AddElement
<1>5. ASSUME NEW p \in Producer, NotifyOne(p) PROVE NoneSleepsOnTasks'
  <2>1. p \in Notifying /\ Notifying' = Notifying \ {p} /\ UNCHANGED <<tasks, opc>>
    BY <1>5 DEF NotifyOne, Notifying, Typed, ownerVars
  <2>2. Cardinality(Notifying') = Cardinality(Notifying) - 1
    BY <2>1, FS_RemoveElement
  <2>3. CASE Sleeping = {} /\ UNCHANGED wpc
    <3>1. Sleeping' = {}
      BY <2>3 DEF Sleeping
    <3>2. ASSUME tasks # <<>> PROVE \E w \in Worker : wpc[w] \notin {"waiting", "returned"}
      BY <2>3, <3>2, ConstantsAssumption DEF Draining, Sleeping
    <3> QED BY <2>1, <2>3, <3>1, <3>2
  <2>4. ASSUME NEW w \in Sleeping, wpc' = [wpc EXCEPT ![w] = "ready"] PROVE NoneSleepsOnTasks'
    <3>1. Sleeping # {} /\ Len(tasks) <= Cardinality(Notifying) + Cardinality(Ready)
      BY <2>4
    <3>2. Cardinality(Ready') = Cardinality(Ready) + 1 /\ wpc'[w] = "ready" /\ w \in Worker /\ Sleeping' \subseteq Sleeping
      BY <1>4, <2>4
    <3>3. Len(tasks') <= Cardinality(Notifying') + Cardinality(Ready')
      BY <1>0, <2>1, <2>2, <3>1, <3>2
    <3> QED BY <2>1, <3>2, <3>3
  <2> QED BY <1>5, <2>3, <2>4 DEF NotifyOne
<1>6. ASSUME NEW w \in Worker, Take(w) PROVE NoneSleepsOnTasks'
  <2>1. /\ Ready' = Ready \ {w} /\ w \in Ready /\ Notifying' = Notifying /\ Sleeping' = Sleeping
        /\ UNCHANGED opc /\ wpc'[w] = "running"
    BY <1>6 DEF Take, Ready, Notifying, Sleeping, Typed, producerVars, ownerVars
  <2>2. Cardinality(Ready') = Cardinality(Ready) - 1
    BY <2>1, FS_RemoveElement
  <2>3. Len(tasks') = Len(tasks) - 1
    BY <1>6, HeadTailProperties DEF Take, Typed
  <2> QED BY <1>0, <2>1, <2>2, <2>3
<1>7. ASSUME NEW w \in Worker, Wait(w) PROVE NoneSleepsOnTasks'
  <2>1. tasks = <<>> /\ UNCHANGED <<tasks, opc, ppc>> /\ ~stop
    BY <1>7 DEF Wait, producerVars, ownerVars
  <2>2. opc \notin {"joining", "destroyed"}
    BY <2>1 DEF Stopping, Constructed
  <2>3. Notifying' = Notifying /\ Ready' = Ready \ {w} /\ w \in Ready
    BY <1>7, <2>1 DEF Wait, Notifying, Ready, Typed
  <2>4. Cardinality(Ready') = Cardinality(Ready) - 1 /\ IsFiniteSet(Ready')
    BY <2>3, FS_RemoveElement
  <2>5. Cardinality(Ready') \in Nat
    BY <2>4, FS_CardinalityType
  <2> QED BY <1>0, <2>1, <2>2, <2>3, <2>5
<1>8. ASSUME NEW w \in Worker, Return(w) PROVE NoneSleepsOnTasks'
  <2>1. tasks = <<>> /\ UNCHANGED <<tasks, opc, ppc>>
    BY <1>8 DEF Return, producerVars, ownerVars
  <2>2. Notifying' = Notifying /\ Ready' = Ready \ {w} /\ w \in Ready /\ Sleeping' = Sleeping
    BY <1>8, <2>1 DEF Return, Notifying, Ready, Sleeping, Typed
  <2>3. Cardinality(Ready') = Cardinality(Ready) - 1 /\ IsFiniteSet(Ready')
    BY <2>2, FS_RemoveElement
  <2>4. Cardinality(Ready') \in Nat
    BY <2>3, FS_CardinalityType
  <2> QED BY <1>0, <2>1, <2>2, <2>4
<1>9. ASSUME NEW w \in Worker, Run(w) \/ Discount(w) PROVE NoneSleepsOnTasks'
  <2>1. /\ Notifying' = Notifying /\ Ready' = Ready /\ Sleeping' = Sleeping /\ UNCHANGED <<tasks, opc>>
        /\ wpc'[w] \in {"ran", "discounted"}
    BY <1>9 DEF Run, Discount, Notifying, Ready, Sleeping, Typed, producerVars, ownerVars
  <2> QED BY <2>1
<1>10. ASSUME NEW w \in Worker, NotifyIdle(w) PROVE NoneSleepsOnTasks'
  <2>1. /\ Notifying' = Notifying /\ Ready' = Ready \cup {w} /\ w \notin Ready /\ Sleeping' = Sleeping
        /\ UNCHANGED tasks /\ wpc'[w] = "ready"
        /\ opc' \in {"joining", "destroyed"} => opc \in {"joining", "destroyed"}
    BY <1>10 DEF NotifyIdle, WakeOwner, Notifying, Ready, Sleeping, Typed, producerVars
  <2>2. Cardinality(Ready') = Cardinality(Ready) + 1
    BY <2>1, FS_AddElement
  <2> QED BY <1>0, <2>1, <2>2
<1>11. CASE NotifyStop
  <2>1. Sleeping' = {} /\ Notifying' = Notifying /\ UNCHANGED tasks
    BY <1>11 DEF NotifyStop, Sleeping, Notifying, producerVars
  <2>2. \A w \in Worker : wpc[w] \notin {"waiting", "returned"} => wpc'[w] \notin {"waiting", "returned"}
    BY <1>11 DEF NotifyStop, Sleeping
  <2> QED BY <2>1, <2>2
<1>12. CASE OwnerStep /\ ~NotifyStop
  BY <1>1, <1>12 DEF OwnerStep, CallWaitIdle, ReturnIdle, SeeBusy, Block, SetStop, Join, producerVars, workerVars
<1>13. CASE SpuriousWake
  <2>1. UNCHANGED <<tasks, ppc>> /\ Notifying' = Notifying
    BY <1>13 DEF SpuriousWake, producerVars, Notifying
  <2>2. CASE opc = "blocked" /\ opc' = "checking" /\ UNCHANGED wpc
    BY <1>1, <2>1, <2>2
  <2>3. ASSUME NEW w \in Sleeping, wpc' = [wpc EXCEPT ![w] = "ready"], UNCHANGED opc PROVE NoneSleepsOnTasks'
    <3>1. Cardinality(Ready') = Cardinality(Ready) + 1 /\ wpc'[w] = "ready" /\ w \in Worker /\ Sleeping' \subseteq Sleeping
      BY <1>4, <2>3
    <3>2. Sleeping # {} /\ Len(tasks') <= Cardinality(Notifying') + Cardinality(Ready')
      BY <1>0, <2>1, <2>3, <3>1
    <3> QED BY <2>1, <2>3, <3>1, <3>2
  <2> QED BY <1>13, <2>2, <2>3 DEF SpuriousWake
<1>14. CASE UNCHANGED vars
  BY <1>1, <1>14 DEF vars, producerVars, workerVars, ownerVars
<1> QED
  BY <1>2, <1>3, <1>5, <1>6, <1>7, <1>8, <1>9, <1>10, <1>11, <1>12, <1>13, <1>14
     DEF Next, ProducerStep, WorkerStep, Terminated

(* Every queued task has a worker about to look for it, or a notification   *)
(* to come, while any worker sleeps; and none sleeps through the destructor *)
(* (NoneSleepsOnTasks): what ImplementsExecutor and DestroyReturns rest on. *)
THEOREM WakeupsCorrect == Spec => []NoneSleepsOnTasks
<1>1. Spec => []Draining
  BY DrainingInit, DrainingStep, TypedAlways, PTL DEF Spec
<1>2. Spec => []Stopping
  BY WakeupsInit, StoppingStep, PTL DEF Spec
<1> QED BY <1>1, <1>2, WakeupsInit, WakeupsStep, TypedAlways, PTL DEF Spec

(* The one way into a wait_idle that only chance will end is the step from  *)
(* its test to its wait (OnlyBlockLosesWakeup): a worker that finishes the  *)
(* last task later wakes the owner, whatever else happens in between.       *)
THEOREM LostWakeupCorrect == Spec => OnlyBlockLosesWakeup
<1>1. Typed /\ InflightExact /\ [Next]_vars => (Stuck' => Stuck \/ opc = "blocking")
  <2> SUFFICES ASSUME Typed, InflightExact, [Next]_vars, Stuck', opc # "blocking" PROVE Stuck
    OBVIOUS
  <2> USE DEF Stuck
  <2>1. ASSUME NEW p \in Producer, ProducerStep(p) PROVE Stuck
    <3>1. CASE \E t \in Task : Count(p, t)
      <4>1. inflight' = inflight + 1 /\ inflight \in Nat
        BY <3>1, FiniteSides, LenProperties DEF Count, Typed, InflightExact
      <4> QED BY <4>1
    <3>2. CASE Push(p)
      BY <3>2 DEF Push, workerVars, ownerVars
    <3>3. CASE NotifyOne(p)
      BY <3>3 DEF NotifyOne, Sleeping, ownerVars, Typed
    <3> QED BY <2>1, <3>1, <3>2, <3>3 DEF ProducerStep
  <2>2. ASSUME NEW w \in Worker, WorkerStep(w) PROVE Stuck
    <3>1. CASE Take(w) \/ Wait(w) \/ Return(w) \/ Run(w)
      BY <2>2, <3>1 DEF Take, Wait, Return, Run, ownerVars, Typed
    <3>2. CASE Discount(w)
      BY <3>2 DEF Discount, Typed
    <3>3. CASE NotifyIdle(w)
      BY <3>3 DEF NotifyIdle, WakeOwner
    <3> QED BY <2>2, <3>1, <3>2, <3>3 DEF WorkerStep
  <2>3. CASE OwnerStep
    BY <2>3 DEF OwnerStep, CallWaitIdle, ReturnIdle, SeeBusy, Block, SetStop, NotifyStop, Join
  <2>4. CASE SpuriousWake
    BY <2>4 DEF SpuriousWake, Sleeping, Typed
  <2>5. CASE UNCHANGED vars
    BY <2>5 DEF vars, workerVars, ownerVars
  <2> QED BY <2>1, <2>2, <2>3, <2>4, <2>5 DEF Next, Terminated
<1> QED BY <1>1, TypedAlways, InflightCorrect, PTL DEF Spec, OnlyBlockLosesWakeup
===============================================================================
