---------------------------- MODULE JsonlWriter ----------------------------
(* AsyncJsonlWriter of live_pipeline: a bounded queue between the threads that *)
(* produce rows and one thread that appends them to a file.  Producers wait    *)
(* while the queue is full; stop_and_flush turns later rows away and returns   *)
(* when everything taken in is in the file.                                    *)
EXTENDS Sequences, Naturals

CONSTANTS
  Producer,  \* the threads that call enqueue
  Row,       \* what they enqueue
  MaxQueue   \* max_queue_

VARIABLES
  queue,     \* q_
  stopped,   \* stop_
  held,      \* <<row>> taken from the queue and not yet appended, else <<>>
  asleep,    \* the writer thread waits on cv_
  blocked,   \* the producers that wait on cv_not_full_
  returned,  \* run() has returned
  file,      \* the rows appended
  accepted,  \* history: the rows enqueue has queued
  refused    \* history: how many rows it has dropped

writer == <<queue, stopped, held, asleep, blocked, returned, file, accepted, refused>>

Init ==
  /\ queue = <<>> /\ held = <<>> /\ file = <<>> /\ accepted = <<>>
  /\ stopped = FALSE /\ asleep = FALSE /\ returned = FALSE
  /\ blocked = {} /\ refused = 0

(* enqueue, by producer p, to the push or the return without it, or into the   *)
(* wait; a wait that is over starts again from its test.                       *)
(* The notifications follow an unlock; whoever is notified tests again under   *)
(* the lock, so they are one step with the change they announce.               *)
EnqueueAnyway(p, row) ==
  /\ p \notin blocked
  /\ queue' = Append(queue, row) /\ accepted' = Append(accepted, row)
  /\ asleep' = FALSE
  /\ UNCHANGED <<stopped, held, blocked, returned, file, refused>>
Enqueue(p, row) ==
  /\ p \notin blocked /\ (stopped \/ Len(queue) < MaxQueue)
  /\ IF stopped
     THEN refused' = refused + 1 /\ UNCHANGED <<queue, accepted, asleep>>
     ELSE /\ queue' = Append(queue, row) /\ accepted' = Append(accepted, row)
          /\ asleep' = FALSE /\ UNCHANGED refused
  /\ UNCHANGED <<stopped, held, blocked, returned, file>>
Wait(p) ==
  /\ p \notin blocked /\ ~stopped /\ Len(queue) >= MaxQueue
  /\ blocked' = blocked \union {p}
  /\ UNCHANGED <<queue, stopped, held, asleep, returned, file, accepted, refused>>

(* run, the writer thread.                                                     *)
Sleep ==
  /\ ~asleep /\ ~returned /\ held = <<>> /\ queue = <<>> /\ ~stopped
  /\ asleep' = TRUE
  /\ UNCHANGED <<queue, stopped, held, blocked, returned, file, accepted, refused>>
(* notify_one: some waiter, if there is one.                                   *)
WakeNobody == UNCHANGED blocked
WakeOne == \/ blocked = {} /\ blocked' = {}
           \/ \E p \in blocked : blocked' = blocked \ {p}
Take ==
  /\ ~asleep /\ ~returned /\ held = <<>> /\ queue # <<>>
  /\ held' = <<Head(queue)>> /\ queue' = Tail(queue)
  /\ WakeOne
  /\ UNCHANGED <<stopped, asleep, returned, file, accepted, refused>>
Write ==
  /\ held # <<>>
  /\ file' = file \o held /\ held' = <<>>
  /\ UNCHANGED <<queue, stopped, asleep, blocked, returned, accepted, refused>>
ReturnOnStop ==
  /\ ~asleep /\ ~returned /\ held = <<>> /\ stopped
  /\ returned' = TRUE
  /\ UNCHANGED <<queue, stopped, held, asleep, blocked, file, accepted, refused>>
Return ==
  /\ ~asleep /\ ~returned /\ held = <<>> /\ queue = <<>> /\ stopped
  /\ returned' = TRUE
  /\ UNCHANGED <<queue, stopped, held, asleep, blocked, file, accepted, refused>>
Run == Sleep \/ Take \/ Write \/ Return

(* A wait may end without a notification.                                      *)
Spurious == \/ /\ asleep /\ asleep' = FALSE /\ UNCHANGED blocked
               /\ UNCHANGED <<queue, stopped, held, returned, file, accepted, refused>>
            \/ \E p \in blocked :
                 /\ blocked' = blocked \ {p}
                 /\ UNCHANGED <<queue, stopped, held, asleep, returned, file, accepted, refused>>

(* stop_and_flush up to the join; it returns once the writer thread has.       *)
Stop ==
  /\ ~stopped /\ stopped' = TRUE
  /\ asleep' = FALSE /\ blocked' = {}
  /\ UNCHANGED <<queue, held, returned, file, accepted, refused>>

Next == \/ \E p \in Producer : Wait(p) \/ \E row \in Row : Enqueue(p, row)
        \/ Run \/ Spurious \/ Stop
Spec == Init /\ [][Next]_writer

----------------------------------------------------------------------------
TypeOK ==
  /\ queue \in Seq(Row) /\ file \in Seq(Row) /\ accepted \in Seq(Row)
  /\ held \in {<<>>} \union {<<row>> : row \in Row}
  /\ {stopped, asleep, returned} \subseteq BOOLEAN
  /\ blocked \subseteq Producer /\ refused \in Nat

(* Nothing taken in is lost, doubled or reordered on its way to the file, and  *)
(* once run() has returned all of it is there.                                 *)
InOrder == /\ accepted = file \o held \o queue
           /\ returned => file = accepted

(* The queue never grows past its limit.                                       *)
Bounded == Len(queue) <= MaxQueue

(* The writer thread sleeps only when nothing is queued.                        *)
NoneSleepsOnWork == asleep => queue = <<>> /\ held = <<>>
=============================================================================
