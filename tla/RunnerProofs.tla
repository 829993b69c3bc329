----------------------------- MODULE RunnerProofs -----------------------------
(* Runner implements Strategy for any number of buckets, any queue and any     *)
(* number of parse workers of the spot and the quote feeds, and so has every   *)
(* safety property of Strategy.                                                *)
(*                                                                             *)
(* Strategy lets a rollover happen only to a later bucket; what has to be      *)
(* shown is that the threads feed it no other.  Ordered is the reason: it      *)
(* follows a rollover from the snapshot through the two switches into the      *)
(* queue.  Overtaken bounds how far Binance ticks are out of order by counting *)
(* the ticks not queued yet along with those queued.                           *)
(* Kept adds that the rollover cannot be lost on that way, Followed that with  *)
(* one parse worker the quotes follow it, and Closed that the shutdown's joins *)
(* wait for nothing that cannot come.                                          *)
EXTENDS Runner, StrategyProofs, SequenceTheorems, FiniteSetTheorems

(* The queue: rollovers ahead of the strategy and behind the monitor.          *)
RolloversAhead(q, h, n, t) ==
  /\ \A i \in 1..Len(q) : IsRollover(q[i]) => h.bucket < q[i].bucket /\ q[i].bucket < n
                                             /\ 2 * q[i].bucket <= t
  /\ \A i, j \in 1..Len(q) :
       i < j /\ IsRollover(q[i]) /\ IsRollover(q[j]) => q[i].bucket < q[j].bucket

(* What the monitor holds between the snapshot and the push.                   *)
SnapAhead(m, sn, q, h, n, t) ==
  /\ m \in {"switchUp", "switchDown", "push"} => sn \in RolloverEvents /\ 2 * sn.bucket <= t
  /\ m \in {"switchUp", "switchDown"} => n <= sn.bucket
  /\ m = "push" => /\ n = sn.bucket + 1 /\ h.bucket < sn.bucket
                   /\ \A i \in 1..Len(q) : IsRollover(q[i]) => q[i].bucket < sn.bucket

Typed ==
  /\ now \in Times
  /\ inflight \in [Side -> SUBSET Quote]
  /\ stamp \in [1..SpotWorkers -> Times \cup {NoTime}]
  /\ evq \in Seq(Events)
  /\ next \in Nat
  /\ snap \in RolloverEvents \cup {NoEvent}

Ordered ==
  /\ RolloversAhead(evq, hot, next, now)
  /\ SnapAhead(monitor, snap, evq, hot, next, now)
  /\ hot.bucket < next /\ 2 * hot.bucket <= now

RInv == IInv /\ Typed /\ Ordered

----------------------------------------------------------------------------
(* The queue.                                                                  *)

LEMMA PushedEvent ==
  ASSUME NEW q \in Seq(Events), NEW e \in Events
  PROVE  /\ Append(q, e) \in Seq(Events)
         /\ Len(Append(q, e)) = Len(q) + 1 /\ Len(q) \in Nat
         /\ \A i \in 1..Len(q) : Append(q, e)[i] = q[i]
         /\ Append(q, e)[Len(q) + 1] = e
OBVIOUS

LEMMA PoppedEvent ==
  ASSUME NEW q \in Seq(Events), q # << >>
  PROVE  /\ Head(q) \in Events /\ Head(q) = q[1] /\ 1 \in 1..Len(q)
         /\ Tail(q) \in Seq(Events)
         /\ Len(Tail(q)) = Len(q) - 1 /\ Len(q) \in Nat
         /\ \A i \in 1..Len(Tail(q)) : Tail(q)[i] = q[i + 1] /\ i + 1 \in 1..Len(q)
<1>1. Len(q) \in Nat /\ Len(q) # 0
  BY EmptySeq
<1> QED
  BY <1>1, HeadTailProperties

(* An event of a given type has the fields of that type.                       *)
LEMMA EventFields ==
  ASSUME NEW e \in Events
  PROVE  /\ e.type = "spot" => e.time \in Times
         /\ e.type = "quote" => e.side \in Side /\ e.quote \in Quote
         /\ e.type = "rollover" => e \in RolloverEvents
BY DEF Events, SpotEvents, QuoteEvents, RolloverEvents, StopEvent

(* Numbers: what the order of events compares.                                 *)
LEMMA Numbers ==
  /\ Bucket \subseteq Nat /\ Times \subseteq Nat
  /\ \A e \in Events : IsRollover(e) => e.bucket \in Nat
  /\ \A e \in Events : e.type = "spot" => e.time \in Nat
  /\ IInv => hot.bucket \in Nat
<1>1. Bucket \subseteq Nat /\ Times \subseteq Nat
  BY MoneyAssumption DEF Bucket
<1>2. \A e \in Events : IsRollover(e) => e.bucket \in Nat
  BY <1>1, EventFields DEF IsRollover, RolloverEvents
<1>3. \A e \in Events : e.type = "spot" => e.time \in Nat
  BY <1>1, EventFields
<1>4. IInv => hot.bucket \in Nat
  BY <1>1 DEF IInv, View
<1> QED
  BY <1>1, <1>2, <1>3, <1>4

(* An event at the end of the queue.                                           *)
LEMMA PushInOrder ==
  ASSUME NEW q \in Seq(Events), NEW e \in Events, NEW h, NEW n, NEW t \in Nat,
         RolloversAhead(q, h, n, t),
         IsRollover(e) => /\ h.bucket < e.bucket /\ e.bucket < n /\ 2 * e.bucket <= t
                          /\ \A i \in 1..Len(q) : IsRollover(q[i]) => q[i].bucket < e.bucket
  PROVE  RolloversAhead(Append(q, e), h, n, t)
<1> DEFINE p == Append(q, e)
<1>1. /\ Len(p) = Len(q) + 1 /\ Len(q) \in Nat
      /\ \A i \in 1..Len(q) : p[i] = q[i]
      /\ p[Len(q) + 1] = e
  BY PushedEvent
<1> HIDE DEF p
<1>2. \A i \in 1..Len(p) : (i \in 1..Len(q) /\ p[i] = q[i]) \/ (i = Len(q) + 1 /\ p[i] = e)
  BY <1>1
<1>3. \A i, j \in 1..Len(p) : i < j => i \in 1..Len(q)
  BY <1>1
<1>4. RolloversAhead(p, h, n, t)
  <2>1. \A i \in 1..Len(p) : IsRollover(p[i]) => /\ h.bucket < p[i].bucket /\ p[i].bucket < n
                                                 /\ 2 * p[i].bucket <= t
    BY <1>2 DEF RolloversAhead
  <2>2. ASSUME NEW i \in 1..Len(p), NEW j \in 1..Len(p), i < j,
               IsRollover(p[i]), IsRollover(p[j])
        PROVE  p[i].bucket < p[j].bucket
    <3>1. i \in 1..Len(q) /\ p[i] = q[i]
      BY <1>1, <1>3, <2>2
    <3>2. CASE j \in 1..Len(q) /\ p[j] = q[j]
      BY <2>2, <3>1, <3>2 DEF RolloversAhead
    <3>3. CASE p[j] = e
      BY <2>2, <3>1, <3>3
    <3> QED
      BY <1>2, <3>2, <3>3
  <2> QED
    BY <2>1, <2>2, Zenon DEF RolloversAhead
<1> QED
  BY <1>4 DEF p

(* The event at the head of the queue, handled: what it says of the view, and  *)
(* what the rest of the queue says of the view that it leaves.                 *)
LEMMA PopInOrder ==
  ASSUME NEW q \in Seq(Events), q # << >>, NEW h, NEW k, NEW n, NEW t \in Nat,
         RolloversAhead(q, h, n, t),
         IF IsRollover(Head(q)) THEN k.bucket = Head(q).bucket ELSE k.bucket = h.bucket
  PROVE  RolloversAhead(Tail(q), k, n, t)
<1> DEFINE p == Tail(q)
<1>1. /\ Head(q) = q[1] /\ 1 \in 1..Len(q)
      /\ \A i \in 1..Len(p) : p[i] = q[i + 1] /\ i + 1 \in 1..Len(q) /\ 1 < i + 1
  BY PoppedEvent
<1> HIDE DEF p
<1>2. \A i, j \in 1..Len(p) : i < j => i + 1 < j + 1
  OBVIOUS
<1>3. RolloversAhead(p, k, n, t)
  BY <1>1, <1>2 DEF RolloversAhead
<1> QED
  BY <1>3 DEF p

----------------------------------------------------------------------------
(* The handlers of Strategy: what they do to the bucket and the quotes.        *)

LEMMA SpotEffect ==
  ASSUME IInv, NEW t, NEW th, OnSpot(t, th)
  PROVE  hot'.bucket = hot.bucket /\ hot'.quote = hot.quote
<1> DEFINE h == [hot EXCEPT !.spot = TRUE, !.clock = t, !.theo = th]
<1>1. h.bucket = hot.bucket /\ h.quote = hot.quote /\ DOMAIN h = DOMAIN hot
  BY DEF IInv, View
<1>2. OnHotUpdate(h)
  BY DEF OnSpot
<1> HIDE DEF h
<1>3. hot' = h \/ \E x : hot' = [h EXCEPT !.since = x]
  BY <1>2, Zenon DEF OnHotUpdate
<1> QED
  BY <1>1, <1>3 DEF IInv, View

LEMMA QuoteEffect ==
  ASSUME IInv, NEW s, NEW q, OnQuote(s, q)
  PROVE  hot'.bucket = hot.bucket /\ hot'.quote = [hot.quote EXCEPT ![s] = q]
<1> DEFINE h == [hot EXCEPT !.quote[s] = q]
<1>1. /\ h.bucket = hot.bucket /\ DOMAIN h = DOMAIN hot
      /\ h.quote = [hot.quote EXCEPT ![s] = q]
  BY DEF IInv, View
<1>2. OnHotUpdate(h)
  BY DEF OnQuote
<1> HIDE DEF h
<1>3. hot' = h \/ \E x : hot' = [h EXCEPT !.since = x]
  BY <1>2, Zenon DEF OnHotUpdate
<1> QED
  BY <1>1, <1>3 DEF IInv, View

LEMMA RolloverEffect ==
  ASSUME IInv, NEW b, NEW known, NEW th, NEW bids, OnRollover(b, known, th, bids)
  PROVE  hot'.bucket = b /\ hot'.quote = hot.quote
BY DEF OnRollover, IInv, View

----------------------------------------------------------------------------
(* Every step is a step of Strategy or leaves its variables alone.             *)

LEMMA SpotRefines == RInv /\ ConsumeSpot => Next
<1> SUFFICES ASSUME RInv, ConsumeSpot
             PROVE  Spot
  BY DEF Next
<1>1. evq \in Seq(Events) /\ evq # << >> /\ Head(evq).type = "spot"
  BY DEF RInv, Typed, ConsumeSpot, Pop
<1>2. Head(evq).time \in Times
  BY <1>1, PoppedEvent, EventFields
<1>3. EntryClock(Head(evq)) \in Times
  BY <1>2 DEF EntryClock, RInv, Typed
<1> QED
  BY <1>3 DEF ConsumeSpot, Spot

LEMMA QuoteRefines == RInv /\ ConsumeQuote => Next
<1> SUFFICES ASSUME RInv, ConsumeQuote
             PROVE  PolyQuote
  BY DEF Next
<1>1. evq \in Seq(Events) /\ evq # << >> /\ Head(evq).type = "quote"
  BY DEF RInv, Typed, ConsumeQuote, Pop
<1>2. Head(evq).side \in Side /\ Head(evq).quote \in Quote
  BY <1>1, PoppedEvent, EventFields
<1> QED
  BY <1>2 DEF ConsumeQuote, PolyQuote

LEMMA RolloverRefines == RInv /\ ConsumeRollover => Next
<1> SUFFICES ASSUME RInv, ConsumeRollover
             PROVE  Rollover
  BY DEF Next
<1> DEFINE e == Head(evq)
           bids == [s \in Side |-> BidOf(e.quotes[s])]
<1>1. evq \in Seq(Events) /\ evq # << >> /\ e.type = "rollover"
  BY DEF RInv, Typed, ConsumeRollover, Pop
<1>2. e \in RolloverEvents
  BY <1>1, PoppedEvent, EventFields
<1>3. e.bucket \in Bucket /\ e.known \in BOOLEAN /\ e.quotes \in [Side -> Quote \cup {NoQuote}]
  BY <1>2 DEF RolloverEvents
<1>4. bids \in [Side -> Bids]
  <2>1. ASSUME NEW s \in Side
        PROVE  BidOf(e.quotes[s]) \in Bids
    BY <1>3 DEF BidOf, Bids
  <2> QED
    BY <2>1
<1>5. e.bucket > hot.bucket
  BY <1>1, PoppedEvent, Numbers DEF RInv, Ordered, RolloversAhead, IsRollover
<1>6. PICK th \in Theo : OnRollover(e.bucket, e.known, th, bids)
  BY DEF ConsumeRollover
<1> HIDE DEF e, bids
<1> QED
  BY <1>3, <1>4, <1>5, <1>6 DEF Rollover

LEMMA StepRefines == RInv /\ [RunnerNext]_rvars => [Next]_vars
<1> SUFFICES ASSUME RInv, RunnerNext, vars' # vars
             PROVE  Next
  BY DEF rvars
<1>1. ConsumeSpot \/ ConsumeQuote \/ ConsumeRollover
  BY DEF RunnerNext, vars, Tick, Signal, SpotFeed, SpotArrives, SpotStamped,
         SpotPushed, SpotStops, Feed, Accept, Deliver, Monitor,
         Snapshot, SwitchUp, SwitchDown, PushRollover, Shutdown, LeaveLoop, CloseFeed, JoinFeed,
         JoinSpot, PushStop, Join, Returned, rvars, Consume, ConsumeStop, ConsumerExit
<1> QED
  BY <1>1, SpotRefines, QuoteRefines, RolloverRefines

----------------------------------------------------------------------------
(* The invariant is inductive.  First the steps that leave the queue alone.    *)

LEMMA InitRInv == RunnerInit => RInv
<1> SUFFICES ASSUME RunnerInit
             PROVE  RInv
  OBVIOUS
<1>1. IInv
  BY InitIInv DEF RunnerInit
<1>2. evq = << >> /\ Len(evq) = 0 /\ 1..Len(evq) = {}
  BY DEF RunnerInit
<1>3. Typed
  BY MoneyAssumption DEF RunnerInit, Typed
<1>4. hot.bucket = 0
  BY DEF RunnerInit, Init
<1>5. Ordered
  BY <1>2, <1>4 DEF RunnerInit, Ordered, RolloversAhead, SnapAhead
<1> QED
  BY <1>1, <1>3, <1>5 DEF RInv

LEMMA StillOrdered ==
  ASSUME RInv, UNCHANGED <<hot, evq, now, next, snap>>,
         monitor' = monitor \/ monitor' \notin {"switchUp", "switchDown", "push"}
  PROVE  Ordered'
BY DEF RInv, Ordered, RolloversAhead, SnapAhead

LEMMA TickOrdered == RInv /\ Tick => Ordered'
<1> SUFFICES ASSUME RInv, Tick
             PROVE  Ordered'
  OBVIOUS
<1>1. now \in Nat /\ now' \in Nat /\ now < now'
  BY Numbers DEF RInv, Typed, Tick
<1>2. /\ UNCHANGED <<hot, evq, next, snap, monitor>>
      /\ hot.bucket \in Nat
  BY Numbers DEF Tick, vars, main, RInv
<1>3. \A i \in 1..Len(evq) : evq[i] \in Events
  BY ElementOfSeq DEF RInv, Typed
<1>4. \A i \in 1..Len(evq) : IsRollover(evq[i]) => evq[i].bucket \in Nat
  BY <1>3, Numbers
<1>5. RolloversAhead(evq, hot, next, now')
  BY <1>1, <1>2, <1>4 DEF RInv, Ordered, RolloversAhead
<1>6. SnapAhead(monitor, snap, evq, hot, next, now')
  <2>1. snap \in RolloverEvents => snap.bucket \in Nat
    BY Numbers DEF RolloverEvents
  <2> QED
    BY <1>1, <2>1 DEF RInv, Ordered, SnapAhead
<1>7. hot.bucket < next /\ 2 * hot.bucket <= now'
  BY <1>1, <1>2 DEF RInv, Ordered
<1> QED
  BY <1>2, <1>5, <1>6, <1>7 DEF Ordered

LEMMA SnapshotOrdered ==
  ASSUME RInv, NEW b \in Bucket, NEW known \in Strikes, Snapshot(b, known)
  PROVE  snap' \in RolloverEvents /\ Ordered'
<1>1. snap' \in RolloverEvents /\ snap'.bucket = b
  BY RunnerAssumption DEF Snapshot, RolloverEvents, RInv, IInv, View
<1>2. UNCHANGED <<hot, evq, next, now>> /\ monitor' = "switchUp" /\ 2 * b <= now /\ b >= next
  BY DEF Snapshot, vars, feeds, MarketOpen
<1>3. SnapAhead(monitor', snap', evq, hot, next, now)
  BY <1>1, <1>2, Numbers DEF SnapAhead, RInv, Typed
<1> QED
  BY <1>1, <1>2, <1>3 DEF RInv, Ordered

LEMMA SwitchUpOrdered == RInv /\ SwitchUp => Ordered'
<1> SUFFICES ASSUME RInv, SwitchUp
             PROVE  Ordered'
  OBVIOUS
<1>1. UNCHANGED <<hot, evq, next, now, snap>> /\ monitor = "switchUp" /\ monitor' = "switchDown"
  BY DEF SwitchUp, vars
<1>2. SnapAhead(monitor', snap, evq, hot, next, now)
  BY <1>1 DEF SnapAhead, RInv, Ordered
<1> QED
  BY <1>1, <1>2 DEF RInv, Ordered

LEMMA SwitchDownOrdered == RInv /\ SwitchDown => next' \in Nat /\ Ordered'
<1> SUFFICES ASSUME RInv, SwitchDown
             PROVE  next' \in Nat /\ Ordered'
  OBVIOUS
<1>1. /\ UNCHANGED <<hot, evq, now, snap>> /\ monitor = "switchDown" /\ monitor' = "push"
      /\ next' = snap.bucket + 1
  BY DEF SwitchDown, vars
<1>2. snap \in RolloverEvents /\ next <= snap.bucket /\ 2 * snap.bucket <= now
  BY <1>1 DEF RInv, Ordered, SnapAhead
<1>3. snap.bucket \in Nat /\ next \in Nat /\ hot.bucket \in Nat
  BY <1>2, Numbers DEF RolloverEvents, RInv, Typed
<1>4. \A i \in 1..Len(evq) : evq[i] \in Events
  BY ElementOfSeq DEF RInv, Typed
<1>5. \A i \in 1..Len(evq) : IsRollover(evq[i]) => evq[i].bucket \in Nat /\ evq[i].bucket < next
  BY <1>4, Numbers DEF RInv, Ordered, RolloversAhead
<1>6. \A i \in 1..Len(evq) : IsRollover(evq[i]) => evq[i].bucket < snap.bucket /\ evq[i].bucket < next'
  BY <1>1, <1>2, <1>3, <1>5
<1>7. RolloversAhead(evq, hot, next', now)
  BY <1>6 DEF RInv, Ordered, RolloversAhead
<1>8. hot.bucket < next
  BY DEF RInv, Ordered
<1>9. hot.bucket < snap.bucket /\ hot.bucket < next'
  BY <1>1, <1>2, <1>3, <1>8
<1>10. SnapAhead("push", snap, evq, hot, next', now)
  BY <1>1, <1>2, <1>6, <1>9 DEF SnapAhead
<1> QED
  BY <1>1, <1>3, <1>7, <1>9, <1>10 DEF RInv, Ordered

(* Then the steps that lengthen it.                                            *)

LEMMA PushOrdered ==
  ASSUME RInv, NEW e \in Events, Push(e), UNCHANGED <<hot, now, next>>,
         IsRollover(e) => /\ hot.bucket < e.bucket /\ e.bucket < next /\ 2 * e.bucket <= now
                          /\ \A i \in 1..Len(evq) : IsRollover(evq[i]) => evq[i].bucket < e.bucket,
         \/ UNCHANGED <<monitor, snap>> /\ ~IsRollover(e)
         \/ monitor' \notin {"switchUp", "switchDown", "push"}
  PROVE  evq' \in Seq(Events) /\ Ordered'
<1>1. evq \in Seq(Events) /\ evq' = Append(evq, e) /\ now \in Nat
  BY Numbers DEF Push, RInv, Typed
<1>2. RolloversAhead(evq, hot, next, now)
  BY DEF RInv, Ordered
<1>4. RolloversAhead(evq', hot, next, now)
  BY <1>1, <1>2, PushInOrder
<1>5. SnapAhead(monitor', snap', evq', hot, next, now)
  <2>1. CASE monitor' \notin {"switchUp", "switchDown", "push"}
    BY <2>1 DEF SnapAhead
  <2>2. CASE UNCHANGED <<monitor, snap>> /\ ~IsRollover(e)
    <3>1. \A i \in 1..Len(evq') : IsRollover(evq'[i]) => i \in 1..Len(evq) /\ evq'[i] = evq[i]
      BY <1>1, <2>2, PushedEvent
    <3>2. SnapAhead(monitor, snap, evq, hot, next, now)
      BY DEF RInv, Ordered
    <3> QED
      BY <2>2, <3>1, <3>2 DEF SnapAhead
  <2> QED
    BY <2>1, <2>2
<1>6. evq' \in Seq(Events)
  BY <1>1, PushedEvent
<1> QED
  BY <1>4, <1>5, <1>6 DEF RInv, Ordered

LEMMA SpotArrivesOrdered == RInv /\ SpotArrives => evq' \in Seq(Events) /\ Ordered'
<1> SUFFICES ASSUME RInv, SpotArrives
             PROVE  evq' \in Seq(Events) /\ Ordered'
  OBVIOUS
<1> DEFINE e == [type |-> "spot", time |-> now]
<1>1. e \in Events /\ ~IsRollover(e)
  BY DEF RInv, Typed, Events, SpotEvents, IsRollover
<1>2. Push(e) /\ UNCHANGED <<hot, now, next, monitor, snap>>
  BY DEF SpotArrives, vars, feeds, main
<1> HIDE DEF e
<1> QED
  BY <1>1, <1>2, PushOrdered

LEMMA StampedTick ==
  ASSUME RInv, NEW w \in 1..SpotWorkers, SpotPushed(w)
  PROVE  stamp[w] \in Times /\ [type |-> "spot", time |-> stamp[w]] \in Events
BY DEF SpotPushed, Stamped, RInv, Typed, Events, SpotEvents

LEMMA SpotPushedOrdered ==
  ASSUME RInv, NEW w \in 1..SpotWorkers, SpotPushed(w)
  PROVE  evq' \in Seq(Events) /\ Ordered'
<1> DEFINE e == [type |-> "spot", time |-> stamp[w]]
<1>1. e \in Events /\ ~IsRollover(e)
  BY StampedTick DEF IsRollover
<1>2. Push(e) /\ UNCHANGED <<hot, now, next, monitor, snap>>
  BY DEF SpotPushed, vars, main
<1> HIDE DEF e
<1> QED
  BY <1>1, <1>2, PushOrdered

LEMMA DeliverOrdered ==
  ASSUME RInv, NEW s \in Side, NEW q \in Quote, Deliver(s, q)
  PROVE  evq' \in Seq(Events) /\ Ordered'
<1> DEFINE e == [type |-> "quote", side |-> s, quote |-> q]
<1>1. e \in Events /\ ~IsRollover(e)
  BY DEF Events, QuoteEvents, IsRollover
<1>2. Push(e) /\ UNCHANGED <<hot, now, next, monitor, snap>>
  BY DEF Deliver, vars, main
<1> HIDE DEF e
<1> QED
  BY <1>1, <1>2, PushOrdered

LEMMA PushStopOrdered == RInv /\ PushStop => evq' \in Seq(Events) /\ Ordered'
<1> SUFFICES ASSUME RInv, PushStop
             PROVE  evq' \in Seq(Events) /\ Ordered'
  OBVIOUS
<1>1. StopEvent \in Events /\ ~IsRollover(StopEvent)
  BY DEF Events, StopEvent, IsRollover
<1>2. Push(StopEvent) /\ UNCHANGED <<hot, now, next>> /\ monitor' = "join"
  BY DEF PushStop, vars, feeds
<1> QED
  BY <1>1, <1>2, PushOrdered

LEMMA PushRolloverOrdered == RInv /\ PushRollover => evq' \in Seq(Events) /\ Ordered'
<1> SUFFICES ASSUME RInv, PushRollover
             PROVE  evq' \in Seq(Events) /\ Ordered'
  OBVIOUS
<1>1. Push(snap) /\ UNCHANGED <<hot, now, next>> /\ monitor = "push" /\ monitor' = "watch"
  BY DEF PushRollover, vars, feeds
<1>2. /\ snap \in RolloverEvents /\ 2 * snap.bucket <= now /\ next = snap.bucket + 1
      /\ hot.bucket < snap.bucket
      /\ \A i \in 1..Len(evq) : IsRollover(evq[i]) => evq[i].bucket < snap.bucket
  BY <1>1 DEF RInv, Ordered, SnapAhead
<1>3. snap \in Events /\ snap.bucket \in Nat
  BY <1>2, Numbers DEF Events, RolloverEvents
<1>4. snap.bucket < next
  BY <1>2, <1>3
<1> QED
  BY <1>1, <1>2, <1>3, <1>4, PushOrdered

(* And the steps that shorten it: k is the view that the handler leaves.       *)

LEMMA PopOrdered ==
  ASSUME RInv, evq # << >>, evq' = Tail(evq), UNCHANGED <<now, next, monitor, snap>>,
         IF IsRollover(Head(evq)) THEN hot'.bucket = Head(evq).bucket ELSE hot'.bucket = hot.bucket
  PROVE  evq' \in Seq(Events) /\ Ordered'
<1> DEFINE e == Head(evq)
<1>1. /\ e \in Events /\ e = evq[1] /\ 1 \in 1..Len(evq)
      /\ evq' \in Seq(Events)
      /\ \A i \in 1..Len(evq') : evq'[i] = evq[i + 1] /\ i + 1 \in 1..Len(evq) /\ 1 < i + 1
  BY PoppedEvent DEF RInv, Typed
<1>2. now \in Nat /\ evq \in Seq(Events)
  BY Numbers DEF RInv, Typed
<1>3. RolloversAhead(evq, hot, next, now)
  BY DEF RInv, Ordered
<1>4. RolloversAhead(evq', hot', next, now)
  BY <1>2, <1>3, PopInOrder
<1>5. hot'.bucket < next /\ 2 * hot'.bucket <= now
  BY <1>1, <1>3 DEF RInv, Ordered, RolloversAhead
<1>6. SnapAhead(monitor, snap, evq', hot', next, now)
  <2>1. SnapAhead(monitor, snap, evq, hot, next, now)
    BY DEF RInv, Ordered
  <2>2. monitor = "push" => hot'.bucket < snap.bucket
    BY <1>1, <2>1 DEF SnapAhead
  <2> QED
    BY <1>1, <2>1, <2>2 DEF SnapAhead
<1> QED
  BY <1>1, <1>4, <1>5, <1>6 DEF RInv, Ordered

LEMMA ConsumeOrdered == RInv /\ Consume => evq' \in Seq(Events) /\ Ordered'
<1> SUFFICES ASSUME RInv, Consume
             PROVE  evq' \in Seq(Events) /\ Ordered'
  OBVIOUS
<1>1. CASE ConsumeSpot
  <2>1. /\ evq # << >> /\ evq' = Tail(evq) /\ UNCHANGED <<now, next, monitor, snap>>
        /\ ~IsRollover(Head(evq))
    BY <1>1 DEF ConsumeSpot, Pop, feeds, main, IsRollover
  <2>2. hot'.bucket = hot.bucket
    BY <1>1, SpotEffect DEF ConsumeSpot, RInv
  <2> QED
    BY <2>1, <2>2, PopOrdered
<1>2. CASE ConsumeQuote
  <2>1. /\ evq # << >> /\ evq' = Tail(evq) /\ UNCHANGED <<now, next, monitor, snap>>
        /\ ~IsRollover(Head(evq))
    BY <1>2 DEF ConsumeQuote, Pop, feeds, main, IsRollover
  <2>2. hot'.bucket = hot.bucket
    BY <1>2, QuoteEffect DEF ConsumeQuote, RInv
  <2> QED
    BY <2>1, <2>2, PopOrdered
<1>3. CASE ConsumeRollover
  <2>1. /\ evq # << >> /\ evq' = Tail(evq) /\ UNCHANGED <<now, next, monitor, snap>>
        /\ IsRollover(Head(evq))
    BY <1>3 DEF ConsumeRollover, Pop, feeds, main, IsRollover
  <2>2. hot'.bucket = Head(evq).bucket
    BY <1>3, RolloverEffect DEF ConsumeRollover, RInv
  <2> QED
    BY <2>1, <2>2, PopOrdered
<1>4. CASE ConsumeStop
  <2>1. /\ evq # << >> /\ evq' = Tail(evq) /\ UNCHANGED <<now, next, monitor, snap, hot>>
        /\ ~IsRollover(Head(evq))
    BY <1>4 DEF ConsumeStop, Pop, feeds, main, vars, IsRollover
  <2> QED
    BY <2>1, PopOrdered
<1>5. CASE ConsumerExit
  BY <1>5, StillOrdered DEF ConsumerExit, vars, feeds, main, RInv, Typed
<1> QED
  BY <1>1, <1>2, <1>3, <1>4, <1>5 DEF Consume

LEMMA NextOrdered == RInv /\ [RunnerNext]_rvars => evq' \in Seq(Events) /\ Ordered'
<1> SUFFICES ASSUME RInv, [RunnerNext]_rvars
             PROVE  evq' \in Seq(Events) /\ Ordered'
  OBVIOUS
<1> USE DEF vars, feeds, main
<1>1. evq \in Seq(Events)
  BY DEF RInv, Typed
<1>2. CASE UNCHANGED rvars \/ Signal \/ Returned
  BY <1>1, <1>2, StillOrdered DEF rvars, Signal, Returned
<1>3. CASE Tick
  BY <1>1, <1>3, TickOrdered DEF Tick
<1>4. CASE SpotFeed
  <2>1. ASSUME NEW w \in 1..SpotWorkers, SpotStamped(w)
        PROVE  evq' \in Seq(Events) /\ Ordered'
    BY <1>1, <2>1, StillOrdered DEF SpotStamped
  <2>2. CASE SpotStops
    BY <1>1, <2>2, StillOrdered DEF SpotStops
  <2> QED
    BY <1>4, <2>1, <2>2, SpotArrivesOrdered, SpotPushedOrdered DEF SpotFeed
<1>5. CASE Feed
  <2>1. PICK s \in Side, q \in Quote : Accept(s, q) \/ Deliver(s, q)
    BY <1>5 DEF Feed
  <2>2. CASE Accept(s, q)
    BY <1>1, <2>2, StillOrdered DEF Accept
  <2> QED
    BY <2>1, <2>2, DeliverOrdered
<1>6. CASE Monitor
  <2>1. ASSUME NEW b \in Bucket, NEW known \in Strikes, Snapshot(b, known)
        PROVE  evq' \in Seq(Events) /\ Ordered'
    BY <1>1, <2>1, SnapshotOrdered DEF Snapshot
  <2>2. CASE SwitchUp
    BY <1>1, <2>2, SwitchUpOrdered DEF SwitchUp
  <2>3. CASE SwitchDown
    BY <1>1, <2>3, SwitchDownOrdered DEF SwitchDown
  <2> QED
    BY <1>6, <2>1, <2>2, <2>3, PushRolloverOrdered DEF Monitor
<1>7. CASE Shutdown
  <2>1. CASE PushStop
    BY <2>1, PushStopOrdered
  <2>2. CASE ~PushStop
    <3>1. /\ UNCHANGED <<hot, evq, now, next, snap>>
          /\ monitor' \notin {"switchUp", "switchDown", "push"}
      BY <1>7, <2>2 DEF Shutdown, LeaveLoop, CloseFeed, JoinFeed, JoinSpot, Join
    <3> QED
      BY <1>1, <3>1, StillOrdered
  <2> QED
    BY <2>1, <2>2
<1>8. CASE Consume
  BY <1>8, ConsumeOrdered
<1> QED
  BY <1>2, <1>3, <1>4, <1>5, <1>6, <1>7, <1>8 DEF RunnerNext

LEMMA NextTyped == RInv /\ [RunnerNext]_rvars => Typed'
<1> SUFFICES ASSUME RInv, [RunnerNext]_rvars
             PROVE  Typed'
  OBVIOUS
<1>1. evq' \in Seq(Events)
  BY NextOrdered
<1>2. now' \in Times
  BY DEF RunnerNext, rvars, feeds, Tick, Signal, SpotFeed, SpotArrives, SpotStamped,
         SpotPushed, SpotStops, Feed, Accept, Deliver,
         Monitor, Snapshot, SwitchUp, SwitchDown, PushRollover, Shutdown, LeaveLoop, CloseFeed,
         JoinFeed, JoinSpot, PushStop, Join, Returned, Consume, ConsumeSpot, ConsumeQuote,
         ConsumeRollover, ConsumeStop, ConsumerExit, Pop, RInv, Typed
<1>3. inflight' \in [Side -> SUBSET Quote]
  <2>1. CASE Feed
    <3>1. PICK s \in Side, q \in Quote : Accept(s, q) \/ Deliver(s, q)
      BY <2>1 DEF Feed
    <3> QED
      BY <3>1 DEF Accept, Deliver, RInv, Typed
  <2>2. CASE ~Feed
    BY <2>2 DEF RunnerNext, rvars, feeds, Tick, Signal, SpotFeed, SpotArrives, SpotStamped,
         SpotPushed, SpotStops, Monitor, Snapshot,
         SwitchUp, SwitchDown, PushRollover, Shutdown, LeaveLoop, CloseFeed, JoinFeed, JoinSpot,
         PushStop, Join, Returned, Consume, ConsumeSpot, ConsumeQuote, ConsumeRollover,
         ConsumeStop, ConsumerExit, Pop, RInv, Typed
  <2> QED
    BY <2>1, <2>2
<1>4. next' \in Nat /\ snap' \in RolloverEvents \cup {NoEvent}
  <2>1. ASSUME NEW b \in Bucket, NEW known \in Strikes, Snapshot(b, known)
        PROVE  next' \in Nat /\ snap' \in RolloverEvents \cup {NoEvent}
    BY <2>1, SnapshotOrdered DEF Snapshot, RInv, Typed
  <2>2. CASE SwitchDown
    BY <2>2, SwitchDownOrdered DEF SwitchDown, RInv, Typed
  <2>3. CASE PushRollover
    BY <2>3 DEF PushRollover, RInv, Typed
  <2>4. CASE UNCHANGED <<next, snap>>
    BY <2>4 DEF RInv, Typed
  <2> QED
    BY <2>1, <2>2, <2>3, <2>4
       DEF RunnerNext, rvars, main, Tick, Signal, SpotFeed, SpotArrives, SpotStamped,
         SpotPushed, SpotStops, Feed, Accept, Deliver,
         Monitor, SwitchUp, Shutdown, LeaveLoop, CloseFeed, JoinFeed, JoinSpot, PushStop, Join,
         Returned, Consume, ConsumeSpot, ConsumeQuote, ConsumeRollover, ConsumeStop, ConsumerExit,
         Pop
<1>5. stamp' \in [1..SpotWorkers -> Times \cup {NoTime}]
  <2>1. CASE SpotFeed
    <3>1. CASE SpotArrives \/ SpotStops
      BY <3>1 DEF SpotArrives, SpotStops, feeds, RInv, Typed
    <3>2. ASSUME NEW w \in 1..SpotWorkers, SpotStamped(w) \/ SpotPushed(w)
          PROVE  stamp' \in [1..SpotWorkers -> Times \cup {NoTime}]
      BY <3>2 DEF SpotStamped, SpotPushed, RInv, Typed
    <3> QED
      BY <2>1, <3>1, <3>2 DEF SpotFeed
  <2>2. CASE ~SpotFeed
    BY <2>2 DEF RunnerNext, rvars, feeds, Tick, Signal, Feed, Accept, Deliver, Monitor, Snapshot,
         SwitchUp, SwitchDown, PushRollover, Shutdown, LeaveLoop, CloseFeed, JoinFeed, JoinSpot,
         PushStop, Join, Returned, Consume, ConsumeSpot, ConsumeQuote, ConsumeRollover,
         ConsumeStop, ConsumerExit, Pop, RInv, Typed
  <2> QED
    BY <2>1, <2>2
<1> QED
  BY <1>1, <1>2, <1>3, <1>4, <1>5 DEF Typed

LEMMA SpecRInv == RunnerSpec => []RInv
<1>1. RInv /\ [RunnerNext]_rvars => RInv'
  BY StepRefines, NextIInv, NextOrdered, NextTyped DEF RInv
<1> QED
  BY InitRInv, <1>1, PTL DEF RunnerSpec

----------------------------------------------------------------------------
(* The rest of the state, on which nothing else depends.                       *)

Stages == {"watch", "switchUp", "switchDown", "push", "closeUp", "joinUp", "closeDown",
           "joinDown", "joinSpot", "pushStop", "join", "done"}
Flags ==
  /\ token \in [Side -> Bucket]
  /\ live \in SUBSET (Side \cup {"spot"})
  /\ monitor \in Stages
  /\ gstop \in BOOLEAN
  /\ consumer \in {"run", "done"}

LEMMA NextFlags == RInv /\ Flags /\ [RunnerNext]_rvars => Flags'
<1> SUFFICES ASSUME RInv, Flags, [RunnerNext]_rvars
             PROVE  Flags'
  OBVIOUS
<1>1. CASE UNCHANGED rvars
  BY <1>1 DEF rvars, feeds, main, Flags
<1>2. CASE Tick \/ Signal \/ SpotFeed
  BY <1>2 DEF Tick, Signal, SpotFeed, SpotArrives, SpotStamped, SpotPushed, SpotStops, feeds, main,
              Flags
<1>3. CASE Feed
  BY <1>3 DEF Feed, Accept, Deliver, main, Flags
<1>4. CASE Monitor
  <2>1. ASSUME NEW b \in Bucket, NEW known \in Strikes, Snapshot(b, known)
        PROVE  Flags'
    BY <2>1 DEF Snapshot, feeds, Flags, Stages
  <2>2. CASE SwitchUp \/ SwitchDown
    <3>1. snap.bucket \in Bucket
      BY <2>2 DEF SwitchUp, SwitchDown, RInv, Ordered, SnapAhead, RolloverEvents
    <3> QED
      BY <2>2, <3>1 DEF SwitchUp, SwitchDown, Flags, Stages
  <2>3. CASE PushRollover
    BY <2>3 DEF PushRollover, feeds, Flags, Stages
  <2> QED
    BY <1>4, <2>1, <2>2, <2>3 DEF Monitor
<1>5. CASE Shutdown
  BY <1>5 DEF Shutdown, LeaveLoop, CloseFeed, JoinFeed, JoinSpot, PushStop, Join, feeds, Flags, Stages
<1>6. CASE Returned
  BY <1>6 DEF Returned, rvars, feeds, main, Flags
<1>7. CASE Consume
  BY <1>7 DEF Consume, ConsumeSpot, ConsumeQuote, ConsumeRollover, ConsumeStop, ConsumerExit, Pop,
              feeds, main, Flags
<1> QED
  BY <1>1, <1>2, <1>3, <1>4, <1>5, <1>6, <1>7 DEF RunnerNext

LEMMA FlagsStart == RunnerInit => Flags
<1>1. 0 \in Bucket
  BY MoneyAssumption DEF Bucket
<1> QED
  BY <1>1 DEF RunnerInit, Flags, Stages

----------------------------------------------------------------------------
(* With one message of a feed in the making at a time its quotes follow the    *)
(* buckets: the view's, those queued, the one in flight and the token are each *)
(* no later than the next.                                                     *)

Of(s, e) == e.type = "quote" /\ e.side = s
QuotesInOrder(s, q, held, under, tok) ==
  /\ \A x, y \in under : x = y
  /\ \A x \in under : x.bucket <= tok
  /\ \A i \in 1..Len(q) : Of(s, q[i]) => /\ q[i].quote.bucket <= tok
                                         /\ \A x \in under : q[i].quote.bucket <= x.bucket
  /\ \A i, j \in 1..Len(q) :
       i < j /\ Of(s, q[i]) /\ Of(s, q[j]) => q[i].quote.bucket <= q[j].quote.bucket
  /\ held # NoQuote =>
       /\ held.bucket <= tok /\ \A x \in under : held.bucket <= x.bucket
       /\ \A i \in 1..Len(q) : Of(s, q[i]) => held.bucket <= q[i].quote.bucket

(* Switches only go to later tokens.                                           *)
TokensBehind ==
  /\ token[Down] < next
  /\ IF monitor = "switchDown" THEN token[Up] = snap.bucket ELSE token[Up] < next

Followed ==
  /\ TokensBehind
  /\ \A s \in Side : QuotesInOrder(s, evq, hot.quote[s], inflight[s], token[s])

LEMMA OtherPushed ==
  ASSUME NEW s, NEW q \in Seq(Events), NEW e \in Events, NEW held, NEW under, NEW tok,
         QuotesInOrder(s, q, held, under, tok), ~Of(s, e)
  PROVE  QuotesInOrder(s, Append(q, e), held, under, tok)
<1> DEFINE p == Append(q, e)
<1>1. \A i \in 1..Len(p) : Of(s, p[i]) => i \in 1..Len(q) /\ p[i] = q[i]
  BY PushedEvent
<1> HIDE DEF p
<1>2. QuotesInOrder(s, p, held, under, tok)
  BY <1>1 DEF QuotesInOrder
<1> QED BY <1>2 DEF p

LEMMA QuotePushed ==
  ASSUME NEW s \in Side, NEW q \in Seq(Events), NEW x \in Quote, NEW held, NEW under, NEW tok,
         QuotesInOrder(s, q, held, under, tok), x \in under
  PROVE  QuotesInOrder(s, Append(q, [type |-> "quote", side |-> s, quote |-> x]), held,
                       under \ {x}, tok)
<1> DEFINE e == [type |-> "quote", side |-> s, quote |-> x]
           p == Append(q, e)
<1>1. e \in Events /\ Of(s, e) /\ e.quote = x
  BY DEF Events, QuoteEvents, Of
<1>2. under \ {x} = {}
  BY DEF QuotesInOrder
<1> HIDE DEF e
<1>3. /\ \A i \in 1..Len(q) : p[i] = q[i]
      /\ \A i \in 1..Len(p) : (i \in 1..Len(q) /\ p[i] = q[i]) \/ (i = Len(q) + 1 /\ p[i] = e)
      /\ \A i, j \in 1..Len(p) : i < j => i \in 1..Len(q)
  BY <1>1, PushedEvent
<1> HIDE DEF p
<1>4. \A i \in 1..Len(p) : Of(s, p[i]) => p[i].quote.bucket <= tok
  BY <1>1, <1>3 DEF QuotesInOrder
<1>5. ASSUME NEW i \in 1..Len(p), NEW j \in 1..Len(p), i < j, Of(s, p[i]), Of(s, p[j])
      PROVE  p[i].quote.bucket <= p[j].quote.bucket
  <2>1. i \in 1..Len(q) /\ p[i] = q[i]
    BY <1>3, <1>5
  <2>2. CASE j \in 1..Len(q) /\ p[j] = q[j]
    BY <1>5, <2>1, <2>2 DEF QuotesInOrder
  <2>3. CASE p[j] = e
    BY <1>1, <1>5, <2>1, <2>3 DEF QuotesInOrder
  <2> QED BY <1>3, <2>2, <2>3
<1>6. held # NoQuote => /\ held.bucket <= tok
                        /\ \A i \in 1..Len(p) : Of(s, p[i]) => held.bucket <= p[i].quote.bucket
  BY <1>1, <1>3 DEF QuotesInOrder
<1>7. QuotesInOrder(s, p, held, {}, tok)
  BY <1>4, <1>5, <1>6 DEF QuotesInOrder
<1> QED BY <1>2, <1>7 DEF p, e

LEMMA EventPopped ==
  ASSUME NEW s, NEW q \in Seq(Events), q # << >>, NEW held, NEW kept, NEW under, NEW tok,
         QuotesInOrder(s, q, held, under, tok),
         IF Of(s, Head(q)) THEN kept = Head(q).quote ELSE kept = held
  PROVE  QuotesInOrder(s, Tail(q), kept, under, tok)
<1> DEFINE p == Tail(q)
<1>1. /\ Head(q) = q[1] /\ 1 \in 1..Len(q)
      /\ \A i \in 1..Len(p) : p[i] = q[i + 1] /\ i + 1 \in 1..Len(q) /\ 1 < i + 1
  BY PoppedEvent
<1> HIDE DEF p
<1>2. \A i, j \in 1..Len(p) : i < j => i + 1 < j + 1
  OBVIOUS
<1>3. \A i, j \in 1..Len(p) :
        i < j /\ Of(s, p[i]) /\ Of(s, p[j]) => p[i].quote.bucket <= p[j].quote.bucket
  BY <1>1, <1>2 DEF QuotesInOrder
<1>4. kept # NoQuote =>
       /\ kept.bucket <= tok /\ \A x \in under : kept.bucket <= x.bucket
       /\ \A i \in 1..Len(p) : Of(s, p[i]) => kept.bucket <= p[i].quote.bucket
  <2>1. CASE Of(s, Head(q))
    BY <1>1, <2>1 DEF QuotesInOrder
  <2>2. CASE ~Of(s, Head(q))
    BY <1>1, <2>2 DEF QuotesInOrder
  <2> QED BY <2>1, <2>2
<1>5. QuotesInOrder(s, p, kept, under, tok)
  BY <1>1, <1>3, <1>4 DEF QuotesInOrder
<1> QED BY <1>5 DEF p

(* Every number the order is about is one.                                     *)
LEMMA Buckets ==
  ASSUME RInv, Flags, NEW s \in Side
  PROVE  /\ token[s] \in Nat /\ next \in Nat
         /\ \A x \in inflight[s] : x.bucket \in Nat
         /\ hot.quote[s] # NoQuote => hot.quote[s].bucket \in Nat
         /\ \A i \in 1..Len(evq) : Of(s, evq[i]) => evq[i].quote.bucket \in Nat
<1>1. \A x \in Quote : x.bucket \in Nat
  BY Numbers, RunnerAssumption
<1>2. token[s] \in Nat
  BY Numbers DEF Flags
<1>3. \A i \in 1..Len(evq) : Of(s, evq[i]) => evq[i].quote \in Quote
  BY ElementOfSeq, EventFields DEF RInv, Typed, Of
<1> QED BY <1>1, <1>2, <1>3 DEF RInv, Typed, IInv, View

LEMMA FollowedStart == RunnerInit => Followed
<1> SUFFICES ASSUME RunnerInit PROVE Followed
  OBVIOUS
<1>1. /\ evq = << >> /\ monitor = "watch" /\ next = 1
      /\ \A s \in Side : token[s] = 0 /\ inflight[s] = {} /\ hot.quote[s] = NoQuote
  BY DEF RunnerInit, Init
<1>2. Len(evq) = 0 /\ 1..Len(evq) = {} /\ Up \in Side /\ Down \in Side
  BY <1>1 DEF Side
<1> QED BY <1>1, <1>2 DEF Followed, TokensBehind, QuotesInOrder

LEMMA TokensStep ==
  ASSUME RInv, Flags, Followed, RunnerNext
  PROVE  TokensBehind' /\ \A s \in Side : token'[s] \in Nat /\ token[s] <= token'[s]
<1>1. /\ Up \in Side /\ Down \in Side /\ Up # Down
      /\ \A s \in Side : token[s] \in Nat /\ next \in Nat
  BY SideAssumption, Buckets DEF Side
<1>2. TokensBehind
  BY DEF Followed
<1>3. ASSUME UNCHANGED <<token, next>>, monitor # "switchDown", monitor' # "switchDown"
      PROVE  TokensBehind' /\ \A s \in Side : token'[s] \in Nat /\ token[s] <= token'[s]
  BY <1>1, <1>2, <1>3 DEF TokensBehind
<1>4. ASSUME UNCHANGED <<token, next, monitor, snap>>
      PROVE  TokensBehind' /\ \A s \in Side : token'[s] \in Nat /\ token[s] <= token'[s]
  BY <1>1, <1>2, <1>4 DEF TokensBehind
<1>5. CASE SwitchUp
  <2>1. /\ monitor = "switchUp" /\ monitor' = "switchDown" /\ UNCHANGED <<next, snap>>
        /\ token' = [token EXCEPT ![Up] = snap.bucket] /\ token \in [Side -> Bucket]
    BY <1>5 DEF SwitchUp, Flags
  <2>2. snap.bucket \in Nat /\ next <= snap.bucket
    BY <2>1, Numbers DEF RInv, Ordered, SnapAhead, RolloverEvents
  <2> QED BY <1>1, <1>2, <2>1, <2>2 DEF TokensBehind
<1>6. CASE SwitchDown
  <2>1. /\ monitor = "switchDown" /\ monitor' = "push" /\ next' = snap.bucket + 1
        /\ token' = [token EXCEPT ![Down] = snap.bucket] /\ token \in [Side -> Bucket]
    BY <1>6 DEF SwitchDown, Flags
  <2>2. snap.bucket \in Nat /\ next <= snap.bucket
    BY <2>1, Numbers DEF RInv, Ordered, SnapAhead, RolloverEvents
  <2> QED BY <1>1, <1>2, <2>1, <2>2 DEF TokensBehind
<1>7. CASE Tick \/ Signal \/ SpotFeed \/ Feed \/ Consume \/ Returned
  BY <1>4, <1>7 DEF Tick, Signal, SpotFeed, SpotArrives, SpotStamped,
         SpotPushed, SpotStops, Feed, Accept, Deliver, Consume,
       ConsumeSpot, ConsumeQuote, ConsumeRollover, ConsumeStop, ConsumerExit, Pop, Returned,
       rvars, feeds, main
<1>8. CASE PushRollover \/ \E b \in Bucket, known \in Strikes : Snapshot(b, known)
  BY <1>3, <1>8 DEF PushRollover, Snapshot, feeds
<1>9. CASE Shutdown
  BY <1>3, <1>9 DEF Shutdown, LeaveLoop, CloseFeed, JoinFeed, JoinSpot, PushStop, Join, feeds
<1> QED BY <1>5, <1>6, <1>7, <1>8, <1>9 DEF RunnerNext, Monitor

LEMMA FollowedAlong ==
  ASSUME RInv, Flags, Followed, RunnerNext, UNCHANGED <<evq, hot, inflight>>
  PROVE  Followed'
<1>1. ASSUME NEW s \in Side
      PROVE  QuotesInOrder(s, evq, hot.quote[s], inflight[s], token'[s])
  <2>1. token[s] <= token'[s] /\ token'[s] \in Nat
    BY TokensStep
  <2>2. QuotesInOrder(s, evq, hot.quote[s], inflight[s], token[s])
    BY DEF Followed
  <2> QED BY <2>1, <2>2, Buckets DEF QuotesInOrder
<1> QED BY <1>1, TokensStep DEF Followed

LEMMA AcceptFollowed ==
  ASSUME Workers = 1, RInv, Flags, Followed, RunnerNext, NEW s \in Side, NEW x \in Quote, Accept(s, x)
  PROVE  Followed'
<1>1. /\ inflight' = [inflight EXCEPT ![s] = @ \cup {x}] /\ x.bucket = token[s]
      /\ Cardinality(inflight[s]) < 1 /\ UNCHANGED <<evq, hot, token>>
  BY DEF Accept, TokenAccepted, vars
<1>2. inflight[s] = {}
  <2>1. \A y, z \in inflight[s] : y = z
    BY DEF Followed, QuotesInOrder
  <2>2. ASSUME NEW y \in inflight[s] PROVE FALSE
    <3>1. inflight[s] = {y}
      BY <2>1
    <3>2. Cardinality({y}) = 1
      BY FS_Singleton, Zenon
    <3> QED BY <1>1, <3>1, <3>2
  <2> QED BY <2>2
<1>3. ASSUME NEW r \in Side
      PROVE  QuotesInOrder(r, evq, hot.quote[r], inflight'[r], token[r])
  <2>1. QuotesInOrder(r, evq, hot.quote[r], inflight[r], token[r])
    BY DEF Followed
  <2>2. CASE r = s
    <3>1. inflight'[r] = {x}
      BY <1>1, <1>2, <2>2 DEF RInv, Typed
    <3> QED BY <1>1, <2>1, <2>2, <3>1, Buckets DEF QuotesInOrder
  <2>3. CASE r # s
    BY <1>1, <2>1, <2>3
  <2> QED BY <2>2, <2>3
<1> QED BY <1>1, <1>3, TokensStep DEF Followed

LEMMA DeliverFollowed ==
  ASSUME RInv, Flags, Followed, RunnerNext, NEW s \in Side, NEW x \in Quote, Deliver(s, x)
  PROVE  Followed'
<1> DEFINE e == [type |-> "quote", side |-> s, quote |-> x]
<1>1. /\ x \in inflight[s] /\ inflight' = [inflight EXCEPT ![s] = @ \ {x}]
      /\ evq' = Append(evq, e) /\ UNCHANGED <<hot, token>> /\ evq \in Seq(Events)
  BY DEF Deliver, Push, vars, RInv, Typed
<1>2. e \in Events /\ \A r \in Side : r # s => ~Of(r, e)
  BY DEF Events, QuoteEvents, Of
<1>3. ASSUME NEW r \in Side
      PROVE  QuotesInOrder(r, evq', hot.quote[r], inflight'[r], token[r])
  <2>1. QuotesInOrder(r, evq, hot.quote[r], inflight[r], token[r])
    BY DEF Followed
  <2>2. CASE r = s
    <3>1. inflight'[r] = inflight[r] \ {x}
      BY <1>1, <2>2 DEF RInv, Typed
    <3> QED BY <1>1, <2>1, <2>2, <3>1, QuotePushed
  <2>3. CASE r # s
    <3>1. inflight'[r] = inflight[r]
      BY <1>1, <2>3 DEF RInv, Typed
    <3> HIDE DEF e
    <3> QED BY <1>1, <1>2, <2>1, <2>3, <3>1, OtherPushed
  <2> QED BY <2>2, <2>3
<1> QED BY <1>1, <1>3, TokensStep DEF Followed

(* A tick, a rollover or the stop event joins the queue.                       *)
LEMMA PushFollowed ==
  ASSUME RInv, Flags, Followed, RunnerNext, NEW e \in Events, Push(e), e.type # "quote",
         UNCHANGED <<hot, inflight, token>>
  PROVE  Followed'
<1>1. ASSUME NEW r \in Side
      PROVE  QuotesInOrder(r, evq', hot.quote[r], inflight[r], token[r])
  <2>1. QuotesInOrder(r, evq, hot.quote[r], inflight[r], token[r]) /\ ~Of(r, e)
    BY DEF Followed, Of
  <2>2. evq \in Seq(Events) /\ evq' = Append(evq, e)
    BY DEF Push, RInv, Typed
  <2> QED BY <2>1, <2>2, OtherPushed
<1> QED BY <1>1, TokensStep DEF Followed

LEMMA PopFollowed ==
  ASSUME RInv, Flags, Followed, RunnerNext, evq # << >>, evq' = Tail(evq),
         UNCHANGED <<inflight, token>>,
         \A r \in Side : IF Of(r, Head(evq)) THEN hot'.quote[r] = Head(evq).quote
                         ELSE hot'.quote[r] = hot.quote[r]
  PROVE  Followed' /\ \A r \in Side : hot.quote[r] # NoQuote => hot'.quote[r].bucket >= hot.quote[r].bucket
<1>1. ASSUME NEW r \in Side
      PROVE  /\ QuotesInOrder(r, evq', hot'.quote[r], inflight[r], token[r])
             /\ hot.quote[r] # NoQuote => hot'.quote[r].bucket >= hot.quote[r].bucket
  <2>1. QuotesInOrder(r, evq, hot.quote[r], inflight[r], token[r])
    BY DEF Followed
  <2>2. evq \in Seq(Events) /\ Head(evq) = evq[1] /\ 1 \in 1..Len(evq)
    BY PoppedEvent DEF RInv, Typed
  <2>3. QuotesInOrder(r, evq', hot'.quote[r], inflight[r], token[r])
    BY <2>1, <2>2, EventPopped
  <2>4. ASSUME hot.quote[r] # NoQuote PROVE hot'.quote[r].bucket >= hot.quote[r].bucket
    <3>1. CASE Of(r, Head(evq))
      BY <2>1, <2>2, <2>4, <3>1, Buckets DEF QuotesInOrder
    <3>2. CASE ~Of(r, Head(evq))
      BY <2>4, <3>2, Buckets
    <3> QED BY <3>1, <3>2
  <2> QED BY <2>3, <2>4
<1> QED BY <1>1, TokensStep DEF Followed

LEMMA ConsumeFollowed ==
  ASSUME RInv, Flags, Followed, RunnerNext, Consume
  PROVE  Followed' /\ \A r \in Side : hot.quote[r] # NoQuote => hot'.quote[r].bucket >= hot.quote[r].bucket
<1>1. UNCHANGED <<inflight, token>>
  BY DEF Consume, ConsumeSpot, ConsumeQuote, ConsumeRollover, ConsumeStop, ConsumerExit, Pop, feeds
<1>2. CASE ConsumeSpot
  <2>1. hot'.quote = hot.quote
    BY <1>2, SpotEffect DEF ConsumeSpot, RInv
  <2> QED BY <1>1, <1>2, <2>1, PopFollowed DEF ConsumeSpot, Pop, Of
<1>3. CASE ConsumeQuote
  <2>1. hot'.quote = [hot.quote EXCEPT ![Head(evq).side] = Head(evq).quote]
    BY <1>3, QuoteEffect DEF ConsumeQuote, RInv
  <2>2. evq # << >> /\ evq' = Tail(evq) /\ Head(evq).type = "quote"
    BY <1>3 DEF ConsumeQuote, Pop
  <2>3. \A r \in Side : IF Of(r, Head(evq)) THEN hot'.quote[r] = Head(evq).quote
                        ELSE hot'.quote[r] = hot.quote[r]
    BY <2>1, <2>2 DEF Of, RInv, IInv, View
  <2> QED BY <1>1, <2>2, <2>3, PopFollowed
<1>4. CASE ConsumeRollover
  <2>1. hot'.quote = hot.quote
    BY <1>4, RolloverEffect DEF ConsumeRollover, RInv
  <2> QED BY <1>1, <1>4, <2>1, PopFollowed DEF ConsumeRollover, Pop, Of
<1>5. CASE ConsumeStop
  BY <1>1, <1>5, PopFollowed DEF ConsumeStop, Pop, Of, vars
<1>6. CASE ConsumerExit
  BY <1>1, <1>6, FollowedAlong, Buckets DEF ConsumerExit, vars
<1> QED BY <1>2, <1>3, <1>4, <1>5, <1>6 DEF Consume

LEMMA NextFollowed ==
  ASSUME Workers = 1, RInv, Flags, Followed, RunnerNext
  PROVE  Followed' /\ \A r \in Side : hot.quote[r] # NoQuote => hot'.quote[r].bucket >= hot.quote[r].bucket
<1>1. CASE Consume
  BY <1>1, ConsumeFollowed
<1>2. ASSUME ~Consume PROVE hot' = hot
  BY <1>2 DEF RunnerNext, vars, Tick, Signal, SpotFeed, SpotArrives, SpotStamped,
         SpotPushed, SpotStops, Feed, Accept, Deliver, Monitor,
     Snapshot, SwitchUp, SwitchDown, PushRollover, Shutdown, LeaveLoop, CloseFeed, JoinFeed,
     JoinSpot, PushStop, Join, Returned, rvars
<1>3. ASSUME ~Consume PROVE Followed'
  <2>1. CASE Feed
    <3>1. PICK s \in Side, x \in Quote : Accept(s, x) \/ Deliver(s, x)
      BY <2>1 DEF Feed
    <3> QED BY <3>1, AcceptFollowed, DeliverFollowed
  <2>2. CASE SpotFeed
    <3>1. CASE SpotArrives
      <4>1. [type |-> "spot", time |-> now] \in Events
        BY DEF RInv, Typed, Events, SpotEvents
      <4> QED BY <3>1, <4>1, PushFollowed DEF SpotArrives, vars, feeds
    <3>2. ASSUME NEW w \in 1..SpotWorkers, SpotPushed(w) PROVE Followed'
      BY <3>2, StampedTick, PushFollowed DEF SpotPushed, vars
    <3>3. ASSUME NEW w \in 1..SpotWorkers, SpotStamped(w) PROVE Followed'
      BY <3>3, FollowedAlong DEF SpotStamped, vars
    <3>4. CASE SpotStops
      BY <3>4, FollowedAlong DEF SpotStops, vars
    <3> QED BY <2>2, <3>1, <3>2, <3>3, <3>4 DEF SpotFeed
  <2>3. CASE PushRollover
    <3>1. snap \in RolloverEvents
      BY <2>3 DEF PushRollover, RInv, Ordered, SnapAhead
    <3>2. snap \in Events /\ snap.type # "quote"
      BY <3>1 DEF Events, RolloverEvents
    <3> QED BY <2>3, <3>2, PushFollowed DEF PushRollover, vars, feeds
  <2>4. CASE PushStop
    <3>1. StopEvent \in Events /\ StopEvent.type # "quote"
      BY DEF Events, StopEvent
    <3> QED BY <2>4, <3>1, PushFollowed DEF PushStop, vars, feeds
  <2>5. CASE Tick \/ Signal \/ Returned
    BY <2>5, FollowedAlong DEF Tick, Signal, Returned, rvars, vars, feeds
  <2>6. CASE SwitchUp \/ SwitchDown \/ \E b \in Bucket, known \in Strikes : Snapshot(b, known)
    BY <2>6, FollowedAlong DEF SwitchUp, SwitchDown, Snapshot, vars, feeds
  <2>7. CASE Shutdown /\ ~PushStop
    BY <2>7, FollowedAlong DEF Shutdown, LeaveLoop, CloseFeed, JoinFeed, JoinSpot, Join, vars, feeds
  <2> QED BY <1>3, <2>1, <2>2, <2>3, <2>4, <2>5, <2>6, <2>7 DEF RunnerNext, Monitor
<1>4. ASSUME hot' = hot, NEW r \in Side, hot.quote[r] # NoQuote
      PROVE  hot'.quote[r].bucket >= hot.quote[r].bucket
  BY <1>4, Buckets
<1> QED BY <1>1, <1>2, <1>3, <1>4

----------------------------------------------------------------------------
(* No rollover is lost: the one of the feeds' bucket waits in the queue until  *)
(* the strategy handles it.                                                    *)

RolloverQueued(q, b) == \E i \in 1..Len(q) : IsRollover(q[i]) /\ q[i].bucket = b
Kept ==
  /\ monitor # "switchDown" => \A s \in Side : token[s] = next - 1
  /\ monitor = "switchDown" => token[Up] = snap.bucket
  /\ hot.bucket = next - 1 \/ monitor = "push" \/ RolloverQueued(evq, next - 1)

LEMMA QueuedPushed ==
  ASSUME NEW q \in Seq(Events), NEW e \in Events, NEW b
  PROVE  RolloverQueued(Append(q, e), b) <=> RolloverQueued(q, b) \/ (IsRollover(e) /\ e.bucket = b)
<1> DEFINE p == Append(q, e)
<1>1. /\ Len(p) = Len(q) + 1 /\ Len(q) \in Nat
      /\ \A i \in 1..Len(q) : p[i] = q[i]
      /\ p[Len(q) + 1] = e
  BY PushedEvent
<1> HIDE DEF p
<1>2. /\ \A i \in 1..Len(p) : i \in 1..Len(q) \/ i = Len(q) + 1
      /\ 1..Len(q) \subseteq 1..Len(p) /\ Len(q) + 1 \in 1..Len(p)
  BY <1>1
<1>3. RolloverQueued(p, b) <=> RolloverQueued(q, b) \/ (IsRollover(e) /\ e.bucket = b)
  BY <1>1, <1>2 DEF RolloverQueued
<1> QED
  BY <1>3 DEF p

LEMMA QueuedPopped ==
  ASSUME NEW q \in Seq(Events), q # << >>, NEW b, RolloverQueued(q, b)
  PROVE  RolloverQueued(Tail(q), b) \/ (IsRollover(Head(q)) /\ Head(q).bucket = b)
<1> DEFINE p == Tail(q)
<1>1. /\ Head(q) = q[1] /\ Len(p) = Len(q) - 1 /\ Len(q) \in Nat
      /\ \A i \in 1..Len(p) : p[i] = q[i + 1]
  BY PoppedEvent
<1> HIDE DEF p
<1>2. PICK i \in 1..Len(q) : IsRollover(q[i]) /\ q[i].bucket = b
  BY DEF RolloverQueued
<1>3. CASE i = 1
  BY <1>1, <1>2, <1>3
<1>4. CASE i # 1
  <2>1. i - 1 \in 1..Len(p) /\ (i - 1) + 1 = i
    BY <1>1, <1>4
  <2>2. p[i - 1] = q[i]
    BY <1>1, <2>1
  <2>3. RolloverQueued(p, b)
    BY <1>2, <2>1, <2>2 DEF RolloverQueued
  <2> QED
    BY <2>3 DEF p
<1> QED
  BY <1>3, <1>4

(* A step of a feed, of the spot stream, or the stop event.                    *)
LEMMA PushKept ==
  ASSUME RInv, Kept, NEW e \in Events, Push(e), UNCHANGED <<hot, token, next, snap>>,
         monitor' = monitor \/ {monitor, monitor'} \cap {"switchDown", "push"} = {}
  PROVE  Kept'
<1>1. evq \in Seq(Events) /\ evq' = Append(evq, e)
  BY DEF Push, RInv, Typed
<1>2. RolloverQueued(evq, next - 1) => RolloverQueued(evq', next - 1)
  BY <1>1, QueuedPushed
<1> QED
  BY <1>2 DEF Kept

LEMMA PopKept ==
  ASSUME RInv, Kept, evq # << >>, evq' = Tail(evq), UNCHANGED <<token, next, snap, monitor>>,
         IF IsRollover(Head(evq)) THEN hot'.bucket = Head(evq).bucket ELSE hot'.bucket = hot.bucket
  PROVE  Kept'
<1>1. /\ evq \in Seq(Events) /\ Head(evq) \in Events /\ Head(evq) = evq[1] /\ 1 \in 1..Len(evq)
      /\ next \in Nat /\ hot.bucket \in Nat
  BY PoppedEvent, Numbers DEF RInv, Typed
<1>2. IsRollover(Head(evq)) => Head(evq).bucket \in Nat /\ hot.bucket < Head(evq).bucket /\ Head(evq).bucket < next
  BY <1>1, Numbers DEF RInv, Ordered, RolloversAhead
<1>3. hot.bucket = next - 1 => hot'.bucket = next - 1
  BY <1>1, <1>2
<1>4. RolloverQueued(evq, next - 1) => RolloverQueued(evq', next - 1) \/ hot'.bucket = next - 1
  BY <1>1, QueuedPopped
<1> QED
  BY <1>3, <1>4 DEF Kept

LEMMA AlongKept ==
  ASSUME RInv, Kept, UNCHANGED <<hot, evq, token, next>>,
         monitor' \in {"switchDown", "push"} \/ monitor \in {"switchDown", "push"} =>
           UNCHANGED <<monitor, snap>>
  PROVE  Kept'
BY DEF Kept

LEMMA MonitorKept ==
  ASSUME RInv, Flags, Kept, Monitor
  PROVE  Kept'
<1>1. ASSUME NEW b \in Bucket, NEW known \in Strikes, Snapshot(b, known)
      PROVE  Kept'
  BY <1>1, AlongKept DEF Snapshot, vars, feeds
<1>2. CASE SwitchUp
  BY <1>2 DEF SwitchUp, vars, Kept, Flags, Side
<1>3. CASE SwitchDown
  <2>1. /\ monitor = "switchDown" /\ monitor' = "push" /\ next' = snap.bucket + 1
        /\ token' = [token EXCEPT ![Down] = snap.bucket] /\ token \in [Side -> Bucket]
    BY <1>3 DEF SwitchDown, Flags
  <2>2. snap.bucket \in Nat
    BY <2>1, Numbers DEF RInv, Ordered, SnapAhead, RolloverEvents
  <2>3. next' - 1 = snap.bucket /\ token[Up] = snap.bucket
    BY <2>1, <2>2 DEF Kept
  <2>4. \A s \in Side : token'[s] = snap.bucket
    BY <2>1, <2>3 DEF Side
  <2> QED
    BY <2>1, <2>3, <2>4 DEF Kept
<1>4. CASE PushRollover
  <2>1. /\ monitor = "push" /\ monitor' = "watch" /\ evq' = Append(evq, snap)
        /\ UNCHANGED <<hot, token, next>> /\ evq \in Seq(Events)
    BY <1>4 DEF PushRollover, Push, vars, feeds, RInv, Typed
  <2>2. snap \in RolloverEvents /\ next = snap.bucket + 1
    BY <2>1 DEF RInv, Ordered, SnapAhead
  <2>3. snap \in Events /\ IsRollover(snap) /\ snap.bucket = next - 1
    <3>1. snap \in Events /\ IsRollover(snap) /\ snap.bucket \in Bucket
      BY <2>2 DEF Events, RolloverEvents, IsRollover
    <3> QED
      BY <2>2, <3>1, Numbers
  <2>4. RolloverQueued(evq', next - 1)
    BY <2>1, <2>3, QueuedPushed
  <2> QED
    BY <2>1, <2>4 DEF Kept
<1> QED
  BY <1>1, <1>2, <1>3, <1>4 DEF Monitor

LEMMA ConsumeKept ==
  ASSUME RInv, Flags, Kept, Consume
  PROVE  Kept'
<1>1. UNCHANGED <<token, next, snap, monitor>>
  BY DEF Consume, ConsumeSpot, ConsumeQuote, ConsumeRollover, ConsumeStop, ConsumerExit, Pop, feeds, main
<1>2. CASE ConsumeSpot
  BY <1>1, <1>2, SpotEffect, PopKept DEF ConsumeSpot, Pop, IsRollover, RInv
<1>3. CASE ConsumeQuote
  BY <1>1, <1>3, QuoteEffect, PopKept DEF ConsumeQuote, Pop, IsRollover, RInv
<1>4. CASE ConsumeRollover
  BY <1>1, <1>4, RolloverEffect, PopKept DEF ConsumeRollover, Pop, IsRollover, RInv
<1>5. CASE ConsumeStop
  BY <1>1, <1>5, PopKept DEF ConsumeStop, Pop, IsRollover, vars
<1>6. CASE ConsumerExit
  BY <1>1, <1>6, AlongKept DEF ConsumerExit, vars
<1> QED
  BY <1>2, <1>3, <1>4, <1>5, <1>6 DEF Consume

LEMMA NextKept == RInv /\ Flags /\ Kept /\ [RunnerNext]_rvars => Kept'
<1> SUFFICES ASSUME RInv, Flags, Kept, [RunnerNext]_rvars
             PROVE  Kept'
  OBVIOUS
<1>1. CASE UNCHANGED rvars \/ Tick \/ Signal \/ Returned
  BY <1>1, AlongKept DEF Tick, Signal, Returned, rvars, vars, feeds, main
<1>2. CASE SpotFeed
  <2>1. CASE SpotArrives
    <3>1. [type |-> "spot", time |-> now] \in Events
      BY DEF RInv, Typed, Events, SpotEvents
    <3> QED
      BY <2>1, <3>1, PushKept DEF SpotArrives, vars, feeds, main
  <2>2. ASSUME NEW w \in 1..SpotWorkers, SpotPushed(w)
        PROVE  Kept'
    BY <2>2, StampedTick, PushKept DEF SpotPushed, vars, main
  <2>3. ASSUME NEW w \in 1..SpotWorkers, SpotStamped(w)
        PROVE  Kept'
    BY <2>3, AlongKept DEF SpotStamped, vars, main
  <2>4. CASE SpotStops
    BY <2>4, AlongKept DEF SpotStops, vars, main
  <2> QED
    BY <1>2, <2>1, <2>2, <2>3, <2>4 DEF SpotFeed
<1>3. CASE Feed
  <2>1. PICK s \in Side, x \in Quote : Accept(s, x) \/ Deliver(s, x)
    BY <1>3 DEF Feed
  <2>2. CASE Accept(s, x)
    BY <2>2, AlongKept DEF Accept, vars, main
  <2>3. CASE Deliver(s, x)
    <3>1. [type |-> "quote", side |-> s, quote |-> x] \in Events
      BY DEF Events, QuoteEvents
    <3> QED
      BY <2>3, <3>1, PushKept DEF Deliver, vars, main
  <2> QED
    BY <2>1, <2>2, <2>3
<1>4. CASE Shutdown
  <2>1. CASE PushStop
    <3>1. StopEvent \in Events
      BY DEF Events, StopEvent
    <3> QED
      BY <2>1, <3>1, PushKept DEF PushStop, vars, feeds
  <2>2. CASE ~PushStop
    BY <1>4, <2>2, AlongKept DEF Shutdown, LeaveLoop, CloseFeed, JoinFeed, JoinSpot, Join, vars, feeds
  <2> QED
    BY <2>1, <2>2
<1> QED
  BY <1>1, <1>2, <1>3, <1>4, MonitorKept, ConsumeKept DEF RunnerNext

----------------------------------------------------------------------------
(* The joins of the shutdown: what was stopped stays so.                       *)

StopQueued(q) == \E i \in 1..Len(q) : q[i].type = "stop"
StopThenTicks(q) ==
  \A i, j \in 1..Len(q) : i < j /\ q[i].type = "stop" => Chainlink /\ q[j].type = "spot"

DownClosed == {"joinDown"} \cup FeedsJoined
UpJoined == {"closeDown"} \cup DownClosed
UpClosed == {"joinUp"} \cup UpJoined
Closed ==
  /\ monitor \in {"closeUp"} \cup UpClosed => gstop
  /\ monitor \in UpClosed => Up \notin live
  /\ monitor \in UpJoined => inflight[Up] = {}
  /\ monitor \in DownClosed => Down \notin live
  /\ monitor \in FeedsJoined => inflight[Down] = {}
  /\ monitor \in {"pushStop", "join", "done"} =>
       (Chainlink \/ "spot" \notin live) /\ \A w \in 1..SpotWorkers : ~Stamped(w)
  /\ StopQueued(evq) => monitor \in {"join", "done"}
  /\ monitor = "join" => consumer = "done" \/ StopQueued(evq)
  /\ StopThenTicks(evq)

LEMMA StopPushed ==
  ASSUME NEW q \in Seq(Events), NEW e \in Events, StopThenTicks(q),
         StopQueued(q) => Chainlink /\ e.type = "spot"
  PROVE  /\ StopThenTicks(Append(q, e))
         /\ StopQueued(Append(q, e)) <=> StopQueued(q) \/ e.type = "stop"
<1> DEFINE p == Append(q, e)
<1>1. /\ Len(p) = Len(q) + 1 /\ Len(q) \in Nat
      /\ \A i \in 1..Len(q) : p[i] = q[i]
      /\ p[Len(q) + 1] = e
  BY PushedEvent
<1> HIDE DEF p
<1>2. /\ \A i \in 1..Len(p) : i \in 1..Len(q) \/ i = Len(q) + 1
      /\ 1..Len(q) \subseteq 1..Len(p) /\ Len(q) + 1 \in 1..Len(p)
      /\ \A i, j \in 1..Len(p) : i < j => i \in 1..Len(q)
  BY <1>1
<1>3. StopQueued(p) <=> StopQueued(q) \/ e.type = "stop"
  BY <1>1, <1>2 DEF StopQueued
<1>4. ASSUME NEW i \in 1..Len(p), NEW j \in 1..Len(p), i < j, p[i].type = "stop"
      PROVE  Chainlink /\ p[j].type = "spot"
  <2>1. i \in 1..Len(q) /\ q[i].type = "stop"
    BY <1>1, <1>2, <1>4
  <2>2. CASE j \in 1..Len(q)
    BY <1>1, <1>4, <2>1, <2>2 DEF StopThenTicks
  <2>3. CASE j = Len(q) + 1
    BY <1>1, <2>1, <2>3 DEF StopQueued
  <2> QED
    BY <1>2, <2>2, <2>3
<1>5. StopThenTicks(p)
  BY <1>4 DEF StopThenTicks
<1> QED
  BY <1>3, <1>5 DEF p

LEMMA StopPopped ==
  ASSUME NEW q \in Seq(Events), q # << >>, StopThenTicks(q)
  PROVE  /\ StopThenTicks(Tail(q))
         /\ StopQueued(Tail(q)) => StopQueued(q)
         /\ StopQueued(q) => StopQueued(Tail(q)) \/ Head(q).type = "stop"
<1> DEFINE p == Tail(q)
<1>1. /\ Head(q) = q[1] /\ Len(p) = Len(q) - 1 /\ Len(q) \in Nat
      /\ \A i \in 1..Len(p) : p[i] = q[i + 1] /\ i + 1 \in 1..Len(q)
  BY PoppedEvent
<1> HIDE DEF p
<1>2. ASSUME NEW i \in 1..Len(p), NEW j \in 1..Len(p), i < j, p[i].type = "stop"
      PROVE  Chainlink /\ p[j].type = "spot"
  <2>1. /\ p[i] = q[i + 1] /\ p[j] = q[j + 1] /\ i + 1 < j + 1
        /\ i + 1 \in 1..Len(q) /\ j + 1 \in 1..Len(q)
    BY <1>1, <1>2
  <2> QED
    BY <1>2, <2>1 DEF StopThenTicks
<1>3. StopThenTicks(p)
  BY <1>2 DEF StopThenTicks
<1>4. StopQueued(p) => StopQueued(q)
  BY <1>1 DEF StopQueued
<1>5. ASSUME NEW i \in 1..Len(q), q[i].type = "stop", i # 1
      PROVE  StopQueued(p)
  <2>1. i - 1 \in 1..Len(p) /\ (i - 1) + 1 = i
    BY <1>1, <1>5
  <2>2. p[i - 1] = q[i]
    BY <1>1, <2>1
  <2> QED
    BY <1>5, <2>1, <2>2 DEF StopQueued
<1>6. StopQueued(q) => StopQueued(p) \/ Head(q).type = "stop"
  BY <1>1, <1>5 DEF StopQueued
<1> QED
  BY <1>3, <1>4, <1>6 DEF p

(* A step that leaves the stages of the shutdown and the queue alone.          *)
LEMMA AlongClosed ==
  ASSUME Closed, UNCHANGED <<evq, monitor, stamp>>, gstop => gstop',
         live' \subseteq live, consumer = "done" => consumer' = "done",
         UNCHANGED inflight \/ monitor \notin FeedsJoined,
         monitor \in UpJoined => inflight'[Up] = {}
  PROVE  Closed'
BY DEF Closed, DownClosed, UpJoined, UpClosed, FeedsJoined, Stamped

LEMMA FeedClosed ==
  ASSUME RInv, Flags, Closed, NEW s \in Side, NEW x \in Quote, Accept(s, x) \/ Deliver(s, x)
  PROVE  Closed'
<1>1. inflight \in [Side -> SUBSET Quote] /\ Up \in Side /\ Down \in Side /\ Up # Down /\ s \in {Up, Down}
  BY SideAssumption DEF RInv, Typed, Side
<1>2. \A r \in Side : r # s => inflight'[r] = inflight[r]
  BY <1>1 DEF Accept, Deliver
<1>3. monitor \notin FeedsJoined /\ (monitor \in UpJoined => s = Down)
  BY <1>1 DEF Accept, Deliver, Closed, DownClosed, UpJoined, UpClosed
<1>4. monitor \in UpJoined => inflight'[Up] = {}
  BY <1>1, <1>2, <1>3 DEF Closed
<1>5. UNCHANGED <<live, stamp, monitor, gstop, consumer>>
  BY DEF Accept, Deliver, main
<1>6. CASE Accept(s, x)
  BY <1>3, <1>4, <1>5, <1>6, AlongClosed DEF Accept
<1>7. CASE Deliver(s, x)
  <2> DEFINE e == [type |-> "quote", side |-> s, quote |-> x]
  <2>1. e \in Events /\ e.type # "stop" /\ evq' = Append(evq, e) /\ evq \in Seq(Events)
    BY <1>7 DEF Deliver, Push, Events, QuoteEvents, RInv, Typed
  <2> HIDE DEF e
  <2>2. ~StopQueued(evq) /\ StopThenTicks(evq)
    BY <1>3 DEF Closed, FeedsJoined
  <2>3. ~StopQueued(evq') /\ StopThenTicks(evq')
    BY <2>1, <2>2, StopPushed
  <2> QED
    BY <1>3, <1>4, <1>5, <2>3 DEF Closed, DownClosed, UpJoined, UpClosed, FeedsJoined, Stamped
<1> QED
  BY <1>6, <1>7

LEMMA MonitorClosed ==
  ASSUME RInv, Flags, Closed, Monitor
  PROVE  Closed'
<1>1. /\ monitor \in {"watch", "switchUp", "switchDown", "push"}
      /\ monitor' \in {"watch", "switchUp", "switchDown", "push"}
  BY DEF Monitor, Snapshot, SwitchUp, SwitchDown, PushRollover
<1>2. ~StopQueued(evq) /\ StopThenTicks(evq)
  BY <1>1 DEF Closed
<1>3. ~StopQueued(evq') /\ StopThenTicks(evq')
  <2>1. CASE UNCHANGED evq
    BY <1>2, <2>1
  <2>2. CASE PushRollover
    <3>1. snap \in RolloverEvents
      BY <2>2 DEF PushRollover, RInv, Ordered, SnapAhead
    <3>2. snap \in Events /\ snap.type # "stop" /\ evq' = Append(evq, snap) /\ evq \in Seq(Events)
      BY <2>2, <3>1 DEF PushRollover, Push, Events, RolloverEvents, RInv, Typed
    <3> QED
      BY <1>2, <3>2, StopPushed
  <2> QED
    BY <2>1, <2>2 DEF Monitor, Snapshot, SwitchUp, SwitchDown
<1> QED
  BY <1>1, <1>3 DEF Closed, DownClosed, UpJoined, UpClosed, FeedsJoined, Stamped

LEMMA ShutdownClosed ==
  ASSUME RInv, Flags, Closed, Shutdown
  PROVE  Closed'
<1> USE DEF Closed, DownClosed, UpJoined, UpClosed, FeedsJoined, Stamped
<1>1. CASE LeaveLoop
  BY <1>1 DEF LeaveLoop, feeds
<1>2. CASE CloseFeed(Up, "closeUp", "joinUp") \/ CloseFeed(Down, "closeDown", "joinDown")
  BY <1>2 DEF CloseFeed
<1>3. CASE JoinFeed(Up, "joinUp", "closeDown") \/ JoinFeed(Down, "joinDown", "joinSpot")
  BY <1>3 DEF JoinFeed, feeds
<1>4. CASE JoinSpot
  BY <1>4 DEF JoinSpot, StampedWorkers, feeds
<1>5. CASE PushStop
  <2>1. StopEvent \in Events /\ StopEvent.type = "stop"
    BY DEF Events, StopEvent
  <2>2. evq' = Append(evq, StopEvent) /\ evq \in Seq(Events) /\ monitor = "pushStop" /\ monitor' = "join"
    BY <1>5 DEF PushStop, Push, RInv, Typed
  <2>3. ~StopQueued(evq) /\ StopThenTicks(evq)
    BY <2>2
  <2>4. StopQueued(evq') /\ StopThenTicks(evq')
    BY <2>1, <2>2, <2>3, StopPushed
  <2> QED
    BY <1>5, <2>2, <2>4 DEF PushStop, feeds
<1>6. CASE Join
  BY <1>6 DEF Join, feeds
<1> QED
  BY <1>1, <1>2, <1>3, <1>4, <1>5, <1>6 DEF Shutdown

LEMMA ConsumeClosed ==
  ASSUME RInv, Flags, Closed, Consume
  PROVE  Closed'
<1>1. UNCHANGED <<live, inflight, stamp, monitor, gstop>> /\ consumer = "run"
  BY DEF Consume, ConsumeSpot, ConsumeQuote, ConsumeRollover, ConsumeStop, ConsumerExit, Pop, feeds, main
<1>2. CASE ConsumerExit
  BY <1>1, <1>2, AlongClosed DEF ConsumerExit, Closed
<1>3. CASE ConsumeSpot \/ ConsumeQuote \/ ConsumeRollover \/ ConsumeStop
  <2>1. evq # << >> /\ evq' = Tail(evq) /\ evq \in Seq(Events)
    BY <1>3 DEF ConsumeSpot, ConsumeQuote, ConsumeRollover, ConsumeStop, Pop, RInv, Typed
  <2>2. /\ StopThenTicks(evq') /\ (StopQueued(evq') => StopQueued(evq))
        /\ StopQueued(evq) => StopQueued(evq') \/ Head(evq).type = "stop"
    BY <2>1, StopPopped DEF Closed
  <2>3. Head(evq).type = "stop" => consumer' = "done"
    BY <1>3 DEF ConsumeSpot, ConsumeQuote, ConsumeRollover, ConsumeStop, Pop
  <2> QED
    BY <1>1, <2>2, <2>3 DEF Closed, Stamped
<1> QED
  BY <1>2, <1>3 DEF Consume

(* A tick on its way to the queue keeps the spot thread from being joined.     *)
LEMMA SpotClosed ==
  ASSUME RInv, Flags, Closed, SpotFeed
  PROVE  Closed'
<1>1. UNCHANGED <<inflight, monitor, gstop, consumer>>
  BY DEF SpotFeed, SpotArrives, SpotStamped, SpotPushed, SpotStops, feeds, main
<1>2. ASSUME NEW t \in Times, Push([type |-> "spot", time |-> t]), StopQueued(evq) => Chainlink
      PROVE  StopThenTicks(evq') /\ (StopQueued(evq') <=> StopQueued(evq))
  <2> DEFINE e == [type |-> "spot", time |-> t]
  <2>1. e \in Events /\ e.type = "spot" /\ evq' = Append(evq, e) /\ evq \in Seq(Events)
    BY <1>2 DEF Push, RInv, Typed, Events, SpotEvents
  <2> HIDE DEF e
  <2> QED
    BY <1>2, <2>1, StopPushed DEF Closed
<1>3. CASE SpotArrives
  <2>1. UNCHANGED <<live, stamp>> /\ Chainlink /\ Push([type |-> "spot", time |-> now]) /\ now \in Times
    BY <1>3 DEF SpotArrives, feeds, RInv, Typed
  <2>2. StopThenTicks(evq') /\ (StopQueued(evq') <=> StopQueued(evq))
    BY <1>2, <2>1
  <2> QED
    BY <1>1, <2>1, <2>2 DEF Closed, Stamped
<1>4. ASSUME NEW w \in 1..SpotWorkers, SpotPushed(w)
      PROVE  Closed'
  <2>1. UNCHANGED live /\ Push([type |-> "spot", time |-> stamp[w]]) /\ stamp[w] \in Times
    BY <1>4, StampedTick DEF SpotPushed
  <2>2. monitor \notin {"pushStop", "join", "done"} /\ ~StopQueued(evq)
    BY <1>4 DEF SpotPushed, Closed
  <2>3. StopThenTicks(evq') /\ (StopQueued(evq') <=> StopQueued(evq))
    BY <1>2, <2>1, <2>2
  <2> QED
    BY <1>1, <2>1, <2>2, <2>3 DEF Closed
<1>5. ASSUME NEW w \in 1..SpotWorkers, SpotStamped(w)
      PROVE  Closed'
  <2>1. UNCHANGED <<live, evq>>
    BY <1>5 DEF SpotStamped
  <2>2. monitor \notin {"pushStop", "join", "done"}
    BY <1>5 DEF SpotStamped, Closed
  <2> QED
    BY <1>1, <2>1, <2>2 DEF Closed
<1>6. CASE SpotStops
  BY <1>6, AlongClosed DEF SpotStops, Closed, main
<1> QED
  BY <1>3, <1>4, <1>5, <1>6 DEF SpotFeed

LEMMA NextClosed == RInv /\ Flags /\ Closed /\ [RunnerNext]_rvars => Closed'
<1> SUFFICES ASSUME RInv, Flags, Closed, [RunnerNext]_rvars
             PROVE  Closed'
  OBVIOUS
<1>1. CASE UNCHANGED rvars \/ Tick \/ Signal \/ Returned
  BY <1>1, AlongClosed DEF Tick, Signal, Returned, rvars, feeds, main, Closed
<1>2. CASE SpotFeed
  BY <1>2, SpotClosed
<1>3. CASE Feed
  BY <1>3, FeedClosed DEF Feed
<1> QED
  BY <1>1, <1>2, <1>3, MonitorClosed, ShutdownClosed, ConsumeClosed DEF RunnerNext

----------------------------------------------------------------------------
(* Binance ticks out of order.  Queued ticks that go back in time from each to *)
(* the next were made by different workers, and a tick that a worker still     *)
(* holds can add itself to them only if it is earlier than all of them: the    *)
(* two together are never more than the workers.                               *)

Slower(st, m) == {w \in 1..SpotWorkers : st[w] # NoTime /\ st[w] < m}
TicksBy(q, t) == \A i \in 1..Len(q) : q[i].type = "spot" => q[i].time \in Nat /\ q[i].time <= t
FewOvertaken(q, st) ==
  \A I \in SUBSET (1..Len(q)), m \in Nat :
    Descending(q, I) /\ (\A i \in I : m <= q[i].time) =>
      Cardinality(I) + Cardinality(Slower(st, m)) <= SpotWorkers
Overtaken ==
  /\ TicksBy(evq, now)
  /\ \A w \in 1..SpotWorkers : stamp[w] # NoTime => stamp[w] <= now
  /\ ~Chainlink => FewOvertaken(evq, stamp)

LEMMA SlowerFinite ==
  ASSUME NEW st, NEW m
  PROVE  /\ IsFiniteSet(Slower(st, m)) /\ Cardinality(Slower(st, m)) \in Nat
         /\ Cardinality(Slower(st, m)) <= SpotWorkers
<1>1. SpotWorkers \in Nat /\ SpotWorkers >= 1
  BY RunnerAssumption
<1>2. IsFiniteSet(1..SpotWorkers) /\ Cardinality(1..SpotWorkers) = SpotWorkers
  BY <1>1, FS_Interval
<1>3. Slower(st, m) \subseteq 1..SpotWorkers
  BY DEF Slower
<1> QED
  BY <1>2, <1>3, FS_Subset, FS_CardinalityType

LEMMA IndicesFinite ==
  ASSUME NEW n \in Nat, NEW I \in SUBSET (1..n)
  PROVE  IsFiniteSet(I) /\ Cardinality(I) \in Nat
<1>1. IsFiniteSet(1..n)
  BY FS_Interval
<1> QED
  BY <1>1, FS_Subset, FS_CardinalityType

(* The fewer ticks the workers hold, the better.                               *)
LEMMA FewerHeld ==
  ASSUME NEW q \in Seq(Events), NEW st, NEW su, NEW I \in SUBSET (1..Len(q)), NEW m \in Nat,
         FewOvertaken(q, st), Descending(q, I), \A i \in I : m <= q[i].time,
         Slower(su, m) \subseteq Slower(st, m)
  PROVE  Cardinality(I) + Cardinality(Slower(su, m)) <= SpotWorkers
<1>1. Cardinality(I) + Cardinality(Slower(st, m)) <= SpotWorkers
  BY DEF FewOvertaken
<1>2. Cardinality(Slower(su, m)) <= Cardinality(Slower(st, m))
  BY SlowerFinite, FS_Subset
<1>3. /\ Cardinality(I) \in Nat /\ SpotWorkers \in Nat
      /\ Cardinality(Slower(su, m)) \in Nat /\ Cardinality(Slower(st, m)) \in Nat
  <2>1. Len(q) \in Nat
    BY LenProperties
  <2> QED
    BY <2>1, IndicesFinite, SlowerFinite, RunnerAssumption
<1> QED
  BY <1>1, <1>2, <1>3

(* A worker stamps a tick: no queued one is later.                             *)
LEMMA TickStamped ==
  ASSUME NEW q \in Seq(Events), NEW t \in Nat, NEW st \in [1..SpotWorkers -> Times \cup {NoTime}],
         NEW w \in 1..SpotWorkers, TicksBy(q, t), FewOvertaken(q, st)
  PROVE  FewOvertaken(q, [st EXCEPT ![w] = t])
<1> DEFINE su == [st EXCEPT ![w] = t]
<1>1. ASSUME NEW I \in SUBSET (1..Len(q)), NEW m \in Nat, Descending(q, I), \A i \in I : m <= q[i].time
      PROVE  Cardinality(I) + Cardinality(Slower(su, m)) <= SpotWorkers
  <2>1. CASE I = {}
    <3>1. Cardinality(I) = 0
      BY <2>1, FS_EmptySet
    <3> QED
      BY <3>1, SlowerFinite
  <2>2. CASE I # {}
    <3>1. PICK i \in I : TRUE
      BY <2>2
    <3>2. m <= q[i].time /\ q[i].time <= t /\ q[i].time \in Nat
      BY <1>1, <3>1 DEF Descending, TicksBy
    <3>3. ~(t < m)
      BY <3>2
    <3>4. \A v \in 1..SpotWorkers : v # w => su[v] = st[v]
      OBVIOUS
    <3>5. su[w] = t
      OBVIOUS
    <3> HIDE DEF su
    <3>6. Slower(su, m) \subseteq Slower(st, m)
      BY <3>3, <3>4, <3>5 DEF Slower
    <3> QED
      BY <1>1, <3>6, FewerHeld
  <2> QED
    BY <2>1, <2>2
<1> QED
  BY <1>1 DEF FewOvertaken

(* Another event is pushed: it adds no tick.                                   *)
LEMMA TicksKept ==
  ASSUME NEW q \in Seq(Events), NEW e \in Events, NEW t, NEW st,
         e.type # "spot", TicksBy(q, t), FewOvertaken(q, st)
  PROVE  FewOvertaken(Append(q, e), st)
<1> DEFINE p == Append(q, e)
<1>1. /\ Len(p) = Len(q) + 1 /\ Len(q) \in Nat
      /\ \A i \in 1..Len(q) : p[i] = q[i]
      /\ p[Len(q) + 1] = e
  BY PushedEvent
<1> HIDE DEF p
<1>2. ASSUME NEW I \in SUBSET (1..Len(p)), NEW m \in Nat, Descending(p, I), \A i \in I : m <= p[i].time
      PROVE  Cardinality(I) + Cardinality(Slower(st, m)) <= SpotWorkers
  <2>1. Len(q) + 1 \notin I
    BY <1>1, <1>2 DEF Descending
  <2>2. I \in SUBSET (1..Len(q))
    BY <1>1, <2>1
  <2>3. \A i \in I : p[i] = q[i]
    BY <1>1, <2>2
  <2>4. Descending(q, I) /\ \A i \in I : m <= q[i].time
    BY <1>2, <2>3 DEF Descending
  <2> QED
    BY <2>2, <2>4 DEF FewOvertaken
<1>3. FewOvertaken(p, st)
  BY <1>2 DEF FewOvertaken
<1> QED
  BY <1>3 DEF p

(* A worker pushes its tick.  Ticks that go back in time to this one are later *)
(* than it, so that its worker counted among those slower than they are.       *)
LEMMA TickPushed ==
  ASSUME NEW q \in Seq(Events), NEW st \in [1..SpotWorkers -> Times \cup {NoTime}],
         NEW w \in 1..SpotWorkers, st[w] \in Times, FewOvertaken(q, st)
  PROVE  FewOvertaken(Append(q, [type |-> "spot", time |-> st[w]]), [st EXCEPT ![w] = NoTime])
<1> DEFINE e == [type |-> "spot", time |-> st[w]]
           p == Append(q, e)
           su == [st EXCEPT ![w] = NoTime]
<1>1. e \in Events /\ e.time = st[w] /\ st[w] \in Nat /\ NoTime \notin Nat
  BY Numbers DEF Events, SpotEvents, NoTime
<1> HIDE DEF e
<1>2. /\ Len(p) = Len(q) + 1 /\ Len(q) \in Nat
      /\ \A i \in 1..Len(q) : p[i] = q[i]
      /\ p[Len(q) + 1] = e
  BY <1>1, PushedEvent
<1>3. su[w] = NoTime /\ \A v \in 1..SpotWorkers : v # w => su[v] = st[v]
  OBVIOUS
<1> HIDE DEF p, su
<1>4. \A m : Slower(su, m) \subseteq Slower(st, m)
  BY <1>3 DEF Slower
<1>5. ASSUME NEW I \in SUBSET (1..Len(p)), NEW m \in Nat, Descending(p, I), \A i \in I : m <= p[i].time
      PROVE  Cardinality(I) + Cardinality(Slower(su, m)) <= SpotWorkers
  <2> DEFINE n == Len(q) + 1
             J == I \ {n}
             k == st[w] + 1
  <2>1. J \in SUBSET (1..Len(q)) /\ \A i \in J : p[i] = q[i] /\ i < n
    <3>1. \A i \in 1..(Len(q) + 1) : i = n \/ (i \in 1..Len(q) /\ i < n)
      BY <1>2
    <3>2. I \subseteq 1..(Len(q) + 1)
      BY <1>2
    <3>3. \A i \in J : i \in 1..Len(q) /\ i < n
      BY <3>1, <3>2
    <3> QED
      BY <1>2, <3>3
  <2>2. Descending(q, J) /\ \A i \in J : m <= q[i].time
    BY <1>5, <2>1 DEF Descending
  <2>3. CASE n \notin I
    <3>1. J = I
      BY <2>3
    <3> QED
      BY <1>4, <2>1, <2>2, <3>1, FewerHeld
  <2>4. CASE n \in I
    <3>1. k \in Nat /\ m <= st[w]
      BY <1>1, <1>2, <1>5, <2>4
    <3>2. ASSUME NEW i \in J PROVE k <= q[i].time
      <4>1. p[i].time > p[n].time
        BY <1>5, <2>1, <2>4 DEF Descending
      <4>2. q[i].type = "spot" /\ q[i] \in Events
        BY <2>1, <2>2, ElementOfSeq DEF Descending
      <4>3. q[i].time \in Nat
        BY <4>2, Numbers
      <4> QED
        BY <1>1, <1>2, <2>1, <4>1, <4>3
    <3>3. Cardinality(J) + Cardinality(Slower(st, k)) <= SpotWorkers
      BY <2>1, <2>2, <3>1, <3>2 DEF FewOvertaken
    <3>4. w \notin Slower(su, m) /\ Slower(su, m) \cup {w} \subseteq Slower(st, k)
      <4>1. w \in Slower(st, k)
        BY <1>1 DEF Slower
      <4>2. ASSUME NEW v \in Slower(su, m) PROVE v \in Slower(st, k)
        <5>1. v \in 1..SpotWorkers /\ v # w /\ st[v] = su[v] /\ st[v] # NoTime /\ st[v] < m
          BY <1>3, <4>2 DEF Slower
        <5>2. st[v] \in Nat
          BY <5>1, Numbers
        <5> QED
          BY <1>1, <3>1, <5>1, <5>2 DEF Slower
      <4>3. w \notin Slower(su, m)
        BY <1>3 DEF Slower
      <4> QED
        BY <4>1, <4>2, <4>3
    <3>5. Cardinality(Slower(su, m) \cup {w}) = Cardinality(Slower(su, m)) + 1
      BY <3>4, SlowerFinite, FS_AddElement
    <3>6. Cardinality(Slower(su, m) \cup {w}) <= Cardinality(Slower(st, k))
      BY <3>4, SlowerFinite, FS_Subset
    <3>7. I = J \cup {n} /\ n \notin J
      BY <2>4
    <3>8. Cardinality(I) = Cardinality(J) + 1
      <4>1. IsFiniteSet(J)
        BY <1>2, <2>1, IndicesFinite
      <4>2. Cardinality(J \cup {n}) = Cardinality(J) + 1
        BY <3>7, <4>1, FS_AddElement
      <4> QED
        BY <3>7, <4>2
    <3>9. /\ Cardinality(J) \in Nat /\ SpotWorkers \in Nat
          /\ Cardinality(Slower(su, m)) \in Nat /\ Cardinality(Slower(st, k)) \in Nat
      BY <1>2, <2>1, IndicesFinite, SlowerFinite, RunnerAssumption
    <3> QED
      BY <3>3, <3>5, <3>6, <3>8, <3>9
  <2> QED
    BY <2>3, <2>4
<1>6. FewOvertaken(p, su)
  BY <1>5 DEF FewOvertaken
<1> QED
  BY <1>6 DEF p, su, e

(* The head of the queue is handled: the others move up.                       *)
LEMMA TickPopped ==
  ASSUME NEW q \in Seq(Events), q # << >>, NEW st, FewOvertaken(q, st)
  PROVE  FewOvertaken(Tail(q), st)
<1> DEFINE p == Tail(q)
<1>1. /\ Len(p) \in Nat /\ Len(q) \in Nat
      /\ \A i \in 1..Len(p) : p[i] = q[i + 1] /\ i + 1 \in 1..Len(q)
  BY PoppedEvent
<1> HIDE DEF p
<1>2. ASSUME NEW I \in SUBSET (1..Len(p)), NEW m \in Nat, Descending(p, I), \A i \in I : m <= p[i].time
      PROVE  Cardinality(I) + Cardinality(Slower(st, m)) <= SpotWorkers
  <2> DEFINE J == {i + 1 : i \in I}
             f == [i \in I |-> i + 1]
  <2>1. J \in SUBSET (1..Len(q)) /\ \A j \in J : j - 1 \in I /\ q[j] = p[j - 1]
    BY <1>1
  <2>2. Descending(q, J) /\ \A j \in J : m <= q[j].time
    <3>1. ASSUME NEW i \in J, NEW j \in J, i < j PROVE q[i].time > q[j].time
      <4>1. i - 1 \in I /\ j - 1 \in I /\ i - 1 < j - 1
        BY <2>1, <3>1
      <4>2. p[i - 1].time > p[j - 1].time
        BY <1>2, <4>1 DEF Descending
      <4> QED
        BY <2>1, <4>2
    <3>2. \A j \in J : q[j].type = "spot" /\ m <= q[j].time
      BY <1>2, <2>1 DEF Descending
    <3> HIDE DEF J
    <3> QED
      BY <3>1, <3>2 DEF Descending
  <2>3. IsFiniteSet(J) /\ Cardinality(J) \in Nat /\ Cardinality(I) \in Nat
    BY <1>1, <2>1, IndicesFinite
  <2>4. f \in Injection(I, J)
    <3>1. f \in [I -> J] /\ \A i, j \in I : f[i] = f[j] => i = j
      BY <1>1
    <3> QED
      BY <3>1 DEF Injection, IsInjective
  <2>5. Cardinality(I) <= Cardinality(J)
    BY <2>3, <2>4, FS_Injection
  <2>6. Cardinality(J) + Cardinality(Slower(st, m)) <= SpotWorkers
    BY <2>1, <2>2 DEF FewOvertaken
  <2>7. Cardinality(Slower(st, m)) \in Nat /\ SpotWorkers \in Nat
    BY SlowerFinite, RunnerAssumption
  <2> QED
    BY <2>3, <2>5, <2>6, <2>7
<1>3. FewOvertaken(p, st)
  BY <1>2 DEF FewOvertaken
<1> QED
  BY <1>3 DEF p

(* The steps of the threads.                                                   *)
LEMMA AlongOvertaken ==
  ASSUME RInv, Overtaken, UNCHANGED <<evq, stamp>>, now' \in Nat, now <= now'
  PROVE  Overtaken'
<1>1. now \in Nat /\ \A w \in 1..SpotWorkers : stamp[w] # NoTime => stamp[w] \in Nat
  BY Numbers DEF RInv, Typed
<1> QED
  BY <1>1 DEF Overtaken, TicksBy, FewOvertaken

LEMMA PushOvertaken ==
  ASSUME RInv, Overtaken, NEW e \in Events, Push(e), e.type # "spot", UNCHANGED <<now, stamp>>
  PROVE  Overtaken'
<1>1. evq \in Seq(Events) /\ evq' = Append(evq, e)
  BY DEF Push, RInv, Typed
<1>2. TicksBy(evq', now)
  BY <1>1, PushedEvent DEF Overtaken, TicksBy
<1>3. ~Chainlink => FewOvertaken(evq', stamp)
  BY <1>1, TicksKept DEF Overtaken
<1> QED
  BY <1>2, <1>3 DEF Overtaken

LEMMA SpotOvertaken ==
  ASSUME RInv, Overtaken, SpotFeed
  PROVE  Overtaken'
<1>1. now \in Nat /\ now' = now /\ evq \in Seq(Events) /\ stamp \in [1..SpotWorkers -> Times \cup {NoTime}]
  BY Numbers DEF RInv, Typed, SpotFeed, SpotArrives, SpotStamped, SpotPushed, SpotStops, feeds
<1>2. ASSUME NEW t \in Times, t <= now, Push([type |-> "spot", time |-> t])
      PROVE  TicksBy(evq', now)
  <2> DEFINE e == [type |-> "spot", time |-> t]
  <2>1. e \in Events /\ e.time = t /\ t \in Nat /\ evq' = Append(evq, e)
    BY <1>2, Numbers DEF Push, Events, SpotEvents
  <2> HIDE DEF e
  <2> QED
    BY <1>1, <1>2, <2>1, PushedEvent DEF Overtaken, TicksBy
<1>3. CASE SpotArrives
  <2>1. Chainlink /\ now \in Times /\ stamp' = stamp /\ Push([type |-> "spot", time |-> now])
    BY <1>3 DEF SpotArrives, feeds, RInv, Typed
  <2>2. TicksBy(evq', now)
    BY <1>1, <1>2, <2>1
  <2> QED
    BY <1>1, <2>1, <2>2 DEF Overtaken
<1>4. ASSUME NEW w \in 1..SpotWorkers, SpotStamped(w)
      PROVE  Overtaken'
  <2>1. stamp' = [stamp EXCEPT ![w] = now] /\ evq' = evq
    BY <1>4 DEF SpotStamped
  <2>2. ~Chainlink => FewOvertaken(evq, stamp')
    BY <1>1, <2>1, TickStamped DEF Overtaken
  <2>3. \A v \in 1..SpotWorkers : stamp'[v] # NoTime => stamp'[v] <= now
    BY <1>1, <2>1 DEF Overtaken
  <2> QED
    BY <1>1, <2>1, <2>2, <2>3 DEF Overtaken
<1>5. ASSUME NEW w \in 1..SpotWorkers, SpotPushed(w)
      PROVE  Overtaken'
  <2>1. /\ stamp[w] \in Times /\ stamp[w] <= now /\ stamp' = [stamp EXCEPT ![w] = NoTime]
        /\ Push([type |-> "spot", time |-> stamp[w]])
    BY <1>5, StampedTick DEF SpotPushed, Stamped, Overtaken
  <2>2. TicksBy(evq', now)
    BY <1>2, <2>1
  <2>3. ~Chainlink => FewOvertaken(evq', stamp')
    BY <1>1, <2>1, TickPushed DEF Overtaken, Push
  <2>4. \A v \in 1..SpotWorkers : stamp'[v] # NoTime => stamp'[v] <= now
    BY <1>1, <2>1 DEF Overtaken
  <2> QED
    BY <1>1, <2>2, <2>3, <2>4 DEF Overtaken
<1>6. CASE SpotStops
  BY <1>1, <1>6, AlongOvertaken DEF SpotStops
<1> QED
  BY <1>3, <1>4, <1>5, <1>6 DEF SpotFeed

LEMMA ConsumeOvertaken ==
  ASSUME RInv, Overtaken, Consume
  PROVE  Overtaken'
<1>1. now' = now /\ stamp' = stamp /\ now \in Nat
  BY Numbers DEF Consume, ConsumeSpot, ConsumeQuote, ConsumeRollover, ConsumeStop, ConsumerExit, Pop,
                 feeds, RInv, Typed
<1>2. CASE ConsumerExit
  BY <1>1, <1>2, AlongOvertaken DEF ConsumerExit
<1>3. CASE ~ConsumerExit
  <2>1. evq # << >> /\ evq' = Tail(evq) /\ evq \in Seq(Events)
    BY <1>3 DEF Consume, ConsumeSpot, ConsumeQuote, ConsumeRollover, ConsumeStop, Pop, RInv, Typed
  <2>2. TicksBy(evq', now)
    BY <2>1, PoppedEvent DEF Overtaken, TicksBy
  <2>3. ~Chainlink => FewOvertaken(evq', stamp)
    BY <2>1, TickPopped DEF Overtaken
  <2> QED
    BY <1>1, <2>2, <2>3 DEF Overtaken
<1> QED
  BY <1>2, <1>3

LEMMA NextOvertaken == RInv /\ Overtaken /\ [RunnerNext]_rvars => Overtaken'
<1> SUFFICES ASSUME RInv, Overtaken, [RunnerNext]_rvars
             PROVE  Overtaken'
  OBVIOUS
<1>1. now \in Nat /\ now <= now
  BY Numbers DEF RInv, Typed
<1>2. CASE UNCHANGED rvars \/ Signal \/ Returned
  BY <1>1, <1>2, AlongOvertaken DEF Signal, Returned, rvars, feeds
<1>3. CASE Tick
  <2>1. now' \in Nat /\ now <= now'
    BY <1>1, <1>3, Numbers DEF Tick
  <2> QED
    BY <1>3, <2>1, AlongOvertaken DEF Tick
<1>4. CASE Feed
  <2>1. PICK s \in Side, x \in Quote : Accept(s, x) \/ Deliver(s, x)
    BY <1>4 DEF Feed
  <2>2. CASE Accept(s, x)
    BY <1>1, <2>2, AlongOvertaken DEF Accept
  <2>3. CASE Deliver(s, x)
    <3> DEFINE e == [type |-> "quote", side |-> s, quote |-> x]
    <3>1. e \in Events /\ e.type # "spot"
      BY DEF Events, QuoteEvents
    <3>2. Push(e) /\ UNCHANGED <<now, stamp>>
      BY <2>3 DEF Deliver
    <3> HIDE DEF e
    <3> QED
      BY <3>1, <3>2, PushOvertaken
  <2> QED
    BY <2>1, <2>2, <2>3
<1>5. CASE PushRollover
  <2>1. snap \in RolloverEvents /\ Push(snap) /\ UNCHANGED <<now, stamp>>
    BY <1>5 DEF PushRollover, RInv, Ordered, SnapAhead, feeds
  <2>2. snap \in Events /\ snap.type # "spot"
    BY <2>1 DEF Events, RolloverEvents
  <2> QED
    BY <2>1, <2>2, PushOvertaken
<1>6. CASE PushStop
  <2>1. StopEvent \in Events /\ StopEvent.type # "spot"
    BY DEF Events, StopEvent
  <2> QED
    BY <1>6, <2>1, PushOvertaken DEF PushStop, feeds
<1>7. CASE (Monitor \/ Shutdown) /\ ~PushRollover /\ ~PushStop
  <2>1. UNCHANGED <<evq, stamp, now>>
    BY <1>7 DEF Monitor, Snapshot, SwitchUp, SwitchDown, Shutdown, LeaveLoop, CloseFeed, JoinFeed,
                JoinSpot, Join, feeds
  <2> QED
    BY <1>1, <2>1, AlongOvertaken
<1> QED
  BY <1>2, <1>3, <1>4, <1>5, <1>6, <1>7, SpotOvertaken, ConsumeOvertaken DEF RunnerNext

----------------------------------------------------------------------------
(* The theorems.                                                               *)

(* Type correctness of the threads, the queue and the strategy together.       *)
THEOREM RunnerTypeCorrect == RunnerSpec => []RunnerTypeOK
<1>1. RInv /\ Flags => RunnerTypeOK
  BY DEF RInv, IInv, Fits, TypeOK, Typed, Flags, Stages, RunnerTypeOK
<1> QED
  BY SpecRInv, NextFlags, FlagsStart, <1>1, PTL DEF RunnerSpec

(* Whatever the threads, the queue and the clock do, the strategy sees one of  *)
(* the event sequences Strategy allows: its bucket only moves forward, and the *)
(* times of its ticks are such as it allows for, in order or not.              *)
THEOREM RunnerImplementsStrategy == RunnerSpec => ImplementsStrategy
<1>1. RunnerInit => Init
  BY DEF RunnerInit
<1> QED
  BY SpecRInv, StepRefines, <1>1, PTL DEF RunnerSpec, ImplementsStrategy, Spec

(* Rollovers queue up in the order of their buckets, ahead of the strategy,    *)
(* and Binance ticks in the order of their times but for the workers that make *)
(* them: never more than SpotWorkers ticks each go back in time from the last. *)
THEOREM EventOrderCorrect == RunnerSpec => []EventsInOrder
<1>1. RInv /\ Overtaken => EventsInOrder
  <2> SUFFICES ASSUME RInv, Overtaken
               PROVE  EventsInOrder
    OBVIOUS
  <2>1. DOMAIN evq = 1..Len(evq) /\ Len(evq) \in Nat
    BY LenProperties DEF RInv, Typed
  <2>2. ASSUME ~Chainlink, NEW I \in SUBSET (1..Len(evq)), Descending(evq, I)
        PROVE  Cardinality(I) <= SpotWorkers
    <3>1. \A i \in I : 0 <= evq[i].time
      BY <2>2 DEF Overtaken, TicksBy, Descending
    <3>2. Cardinality(I) + Cardinality(Slower(stamp, 0)) <= SpotWorkers
      BY <2>2, <3>1 DEF Overtaken, FewOvertaken
    <3>3. /\ Cardinality(I) \in Nat /\ Cardinality(Slower(stamp, 0)) \in Nat
          /\ SpotWorkers \in Nat
      BY <2>1, IndicesFinite, SlowerFinite, RunnerAssumption
    <3> QED
      BY <3>2, <3>3
  <2> QED
    BY <2>1, <2>2 DEF RInv, Ordered, RolloversAhead, EventsInOrder
<1>2. RunnerInit => Overtaken
  <2> SUFFICES ASSUME RunnerInit
               PROVE  Overtaken
    OBVIOUS
  <2>1. evq = << >> /\ Len(evq) = 0 /\ 1..Len(evq) = {} /\ \A w \in 1..SpotWorkers : stamp[w] = NoTime
    BY DEF RunnerInit
  <2>2. ASSUME NEW I \in SUBSET (1..Len(evq)), NEW m \in Nat
        PROVE  Cardinality(I) + Cardinality(Slower(stamp, m)) <= SpotWorkers
    <3>1. Cardinality(I) = 0
      BY <2>1, FS_EmptySet
    <3> QED
      BY <3>1, SlowerFinite
  <2> QED
    BY <2>1, <2>2 DEF Overtaken, TicksBy, FewOvertaken
<1> QED
  BY SpecRInv, NextOvertaken, <1>1, <1>2, PTL DEF RunnerSpec

(* No bucket is priced before it begins.                                       *)
THEOREM BucketStarted == RunnerSpec => []BucketNotAhead
<1>1. RInv => BucketNotAhead
  BY DEF RInv, Ordered, BucketNotAhead
<1> QED
  BY SpecRInv, <1>1, PTL

(* All guarantees of the strategy thread hold in the running program, whatever *)
(* feeds it: types, the account's limits, and that orders and stops fit.       *)
THEOREM RunnerInherits ==
  RunnerSpec =>
    /\ [](TypeOK /\ PendingConsistent /\ PositionInBucket /\ WarmupNotTraded)
    /\ [](DrawdownBounded /\ CashFloor)
    /\ NoBuyAfterRiskStop /\ StopLossExits /\ ImplementsAccount
BY RunnerImplementsStrategy, TypeCorrect, PendingCorrect, PositionBucketCorrect, WarmupCorrect,
   DrawdownCorrect, CashFloorCorrect, RiskStopFinal, StopLossCorrect, StrategyImplementsAccount,
   PTL DEF ImplementsStrategy

(* The bucket the monitor switched the feeds to is the strategy's, or its      *)
(* rollover is on the way, whatever else the queue holds and whichever thread  *)
(* stops first: only the moment between the two switches sees them apart.      *)
THEOREM NoRolloverLostCorrect == RunnerSpec => []NoRolloverLost
<1>1. RunnerInit => Kept
  BY SideAssumption DEF RunnerInit, Init, Kept
<1>2. RInv /\ Kept => NoRolloverLost
  <2> SUFFICES ASSUME RInv, Kept
               PROVE  NoRolloverLost
    OBVIOUS
  <2>1. DOMAIN evq = 1..Len(evq)
    BY LenProperties DEF RInv, Typed
  <2> QED
    BY <2>1 DEF Kept, NoRolloverLost, RolloverQueued
<1> QED
  BY SpecRInv, NextFlags, NextKept, FlagsStart, <1>1, <1>2, PTL DEF RunnerSpec

(* Each join of run_live_impl's shutdown has what it waits for: no feed        *)
(* accepts again, the spot thread was told, and the stop event is in the queue *)
(* with nothing but Chainlink ticks behind it, or the strategy thread is done. *)
THEOREM JoinsEndCorrect == RunnerSpec => []JoinsEnd
<1>1. RunnerInit => Closed
  <2> SUFFICES ASSUME RunnerInit
               PROVE  Closed
    OBVIOUS
  <2>1. evq = << >> /\ Len(evq) = 0 /\ 1..Len(evq) = {} /\ monitor = "watch"
    BY DEF RunnerInit
  <2> QED
    BY <2>1 DEF Closed, DownClosed, UpJoined, UpClosed, FeedsJoined, StopQueued, StopThenTicks
<1>2. RInv /\ Closed => JoinsEnd
  <2> SUFFICES ASSUME RInv, Closed
               PROVE  JoinsEnd
    OBVIOUS
  <2>1. DOMAIN evq = 1..Len(evq)
    BY LenProperties DEF RInv, Typed
  <2>2. \A s \in Side : s = Up \/ s = Down
    BY DEF Side
  <2> QED
    BY <2>1, <2>2 DEF Closed, JoinsEnd, StopQueued, StopThenTicks, DownClosed, UpJoined, UpClosed, FeedsJoined
<1> QED
  BY SpecRInv, NextFlags, NextClosed, FlagsStart, <1>1, <1>2, PTL DEF RunnerSpec

(* With one parse worker a feed the quotes the strategy holds never go back to *)
(* an earlier bucket, whatever races with the switches (QuotesFollowBuckets).  *)
THEOREM QuotesFollowCorrect == ASSUME Workers = 1 PROVE RunnerSpec => QuotesFollowBuckets
<1>1. ASSUME Followed, UNCHANGED rvars PROVE Followed'
  BY <1>1 DEF Followed, TokensBehind, rvars, vars, feeds, main
<1>2. RInv /\ Flags /\ Followed /\ [RunnerNext]_rvars => Followed'
  BY <1>1, NextFollowed
<1>3. RInv /\ Flags /\ Followed /\ [RunnerNext]_rvars =>
        [ \A s \in Side : hot.quote[s] # NoQuote => hot'.quote[s].bucket >= hot.quote[s].bucket ]_rvars
  BY NextFollowed
<1> QED
  BY SpecRInv, NextFlags, FlagsStart, FollowedStart, <1>2, <1>3, PTL
     DEF RunnerSpec, QuotesFollowBuckets
===============================================================================
