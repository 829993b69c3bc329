-------------------------------- MODULE Runner --------------------------------
(* The threads of run_live_impl in discover mode around the strategy thread:   *)
(* the spot feed, one WebSocket feed per outcome (WsFixedTokenQuoteFeed), the  *)
(* rollover monitor on the main thread, and the event queue they fill and the  *)
(* strategy thread (consumer_thr, module Strategy) empties.                    *)
(*                                                                             *)
(* The token a feed subscribes to is named by its bucket, and a quote carries  *)
(* the bucket of the market it was made for (no code reads that field).        *)
(* Gamma discovery and the wait for a strike are one step of the monitor.      *)
EXTENDS Strategy, Sequences

CONSTANTS
  MaxQueue,    \* bound: the feeds start nothing while this much is under way
  Workers,     \* messages of one feed that can be in the making at once
  SpotWorkers, \* Binance messages that can be in the making at once
  Strikes,     \* whether the wait for a strike succeeds: TRUE, FALSE or either
  Chainlink    \* TRUE if spot is the RTDS Chainlink stream, FALSE if Binance

ASSUME RunnerAssumption ==
  /\ MaxQueue \in Nat /\ Workers \in Nat \ {0} /\ SpotWorkers \in Nat \ {0}
  /\ Chainlink \in BOOLEAN /\ Strikes \subseteq BOOLEAN
  /\ \A q \in Quote : q.bucket \in Bucket

VARIABLES
  now,        \* the wall clock
  token,      \* the token each feed is subscribed to
  inflight,   \* quotes past the token check whose callback has not run yet
  stamp,      \* the time of the Binance tick each worker is about to push
  live,       \* the sources whose thread still runs
  evq,        \* ev_q
  monitor,    \* what the main thread does next
  next,       \* next_epoch
  snap,       \* rollover_ev while it is being put together
  gstop,      \* g_stop
  consumer    \* "run", or "done" once the strategy thread has returned

feeds == <<now, token, inflight, stamp, live>>
main == <<monitor, next, snap>>
rvars == <<vars, feeds, evq, main, gstop, consumer>>

NoTime == -1
Stamped(w) == stamp[w] # NoTime

SpotEvents == [type : {"spot"}, time : Times]
QuoteEvents == [type : {"quote"}, side : Side, quote : Quote]
RolloverEvents == [type : {"rollover"}, bucket : Bucket, known : BOOLEAN,
                   quotes : [Side -> Quote \cup {NoQuote}]]
StopEvent == [type |-> "stop"]
NoEvent == [type |-> "none"]
Events == SpotEvents \cup QuoteEvents \cup RolloverEvents \cup {StopEvent}

RunnerInit ==
  /\ Init
  /\ now = 0
  /\ token = [s \in Side |-> 0]
  /\ inflight = [s \in Side |-> {}]
  /\ stamp = [w \in 1..SpotWorkers |-> NoTime]
  /\ live = Side \cup {"spot"}
  /\ evq = << >>
  /\ monitor = "watch" /\ next = 1 /\ snap = NoEvent
  /\ gstop = FALSE /\ consumer = "run"

----------------------------------------------------------------------------
(* push_event: the lock, the append and the notification are one step.         *)

PushFront(e) == evq' = <<e>> \o evq
Push(e) == evq' = Append(evq, e)

----------------------------------------------------------------------------
(* Clock, signal and feeds.  Time may jump: the process can be suspended.      *)

Tick ==
  /\ now' \in {t \in Times : t > now}
  /\ UNCHANGED <<vars, token, inflight, stamp, live, evq, main, gstop, consumer>>

Signal ==
  /\ ~gstop /\ gstop' = TRUE
  /\ UNCHANGED <<vars, feeds, evq, main, consumer>>

StampedWorkers == {w \in 1..SpotWorkers : Stamped(w)}
Underway ==
  Len(evq) + Cardinality(inflight[Up]) + Cardinality(inflight[Down]) + Cardinality(StampedWorkers)

(* A Chainlink tick, pushed by the thread that reads the socket.  Nothing ever *)
(* stops that stream.                                                          *)
SpotArrives ==
  /\ Chainlink /\ Underway < MaxQueue
  /\ Push([type |-> "spot", time |-> now])
  /\ UNCHANGED <<vars, feeds, main, gstop, consumer>>

(* A Binance tick is given its time by a worker of the client's pool (or the   *)
(* thread that reads the socket, if there is no pool), and pushed by the       *)
(* callback that worker calls next.                                            *)
SpotStamped(w) ==
  /\ ~Chainlink /\ "spot" \in live
  /\ ~Stamped(w) /\ Underway < MaxQueue
  /\ stamp' = [stamp EXCEPT ![w] = now]
  /\ UNCHANGED <<vars, now, token, inflight, live, evq, main, gstop, consumer>>

SpotPushed(w) ==
  /\ Stamped(w)
  /\ Push([type |-> "spot", time |-> stamp[w]])
  /\ stamp' = [stamp EXCEPT ![w] = NoTime]
  /\ UNCHANGED <<vars, now, token, inflight, live, main, gstop, consumer>>

(* bin_thread leaves its loop on g_stop and stops the Binance client: no more  *)
(* messages are taken, and it returns once the callbacks have run.             *)
SpotStops ==
  /\ ~Chainlink /\ gstop /\ "spot" \in live
  /\ live' = live \ {"spot"}
  /\ UNCHANGED <<vars, now, token, inflight, stamp, evq, main, gstop, consumer>>

(* emit_quote up to its unlock: a message is accepted if it is about the token *)
(* of the feed; the callback runs later, without the lock.                     *)
AnyTokenAccepted(s, q) == TRUE
TokenAccepted(s, q) == q.bucket = token[s]

Accept(s, q) ==
  /\ s \in live
  /\ TokenAccepted(s, q)
  /\ Cardinality(inflight[s]) < Workers /\ Underway < MaxQueue
  /\ inflight' = [inflight EXCEPT ![s] = @ \cup {q}]
  /\ UNCHANGED <<vars, now, token, stamp, live, evq, main, gstop, consumer>>

Deliver(s, q) ==
  /\ q \in inflight[s]
  /\ inflight' = [inflight EXCEPT ![s] = @ \ {q}]
  /\ Push([type |-> "quote", side |-> s, quote |-> q])
  /\ UNCHANGED <<vars, now, token, stamp, live, main, gstop, consumer>>

----------------------------------------------------------------------------
(* The rollover monitor.                                                       *)

MarketOpenAgain(b) == 2 * b <= now /\ b >= next - 1
MarketOpen(b) == 2 * b <= now /\ b >= next

(* Discovery finds the market of next_epoch or that of the current wall clock, *)
(* and the quotes are read from HotState before the feeds switch.              *)
Snapshot(b, known) ==
  /\ monitor = "watch" /\ ~gstop /\ MarketOpen(b)
  /\ snap' = [type |-> "rollover", bucket |-> b, known |-> known, quotes |-> hot.quote]
  /\ monitor' = "switchUp"
  /\ UNCHANGED <<vars, feeds, evq, next, gstop, consumer>>

SwitchUp ==
  /\ monitor = "switchUp"
  /\ token' = [token EXCEPT ![Up] = snap.bucket]
  /\ monitor' = "switchDown"
  /\ UNCHANGED <<vars, now, inflight, stamp, live, evq, next, snap, gstop, consumer>>

SwitchDown ==
  /\ monitor = "switchDown"
  /\ token' = [token EXCEPT ![Down] = snap.bucket]
  /\ next' = snap.bucket + 1
  /\ monitor' = "push"
  /\ UNCHANGED <<vars, now, inflight, stamp, live, evq, snap, gstop, consumer>>

RolloverLost ==
  /\ monitor = "push"
  /\ snap' = NoEvent /\ monitor' = "watch"
  /\ UNCHANGED <<vars, feeds, evq, next, gstop, consumer>>
PushRollover ==
  /\ monitor = "push"
  /\ Push(snap)
  /\ snap' = NoEvent /\ monitor' = "watch"
  /\ UNCHANGED <<vars, feeds, next, gstop, consumer>>

----------------------------------------------------------------------------
(* Shutdown: stop the feeds, join the spot thread, stop and join the consumer. *)

LeaveLoop ==
  /\ monitor = "watch" /\ gstop
  /\ monitor' = "closeUp"
  /\ UNCHANGED <<vars, feeds, evq, next, snap, gstop, consumer>>

(* stop() takes no more messages, and returns once the callbacks have run.     *)
CloseFeed(s, at, then) ==
  /\ monitor = at
  /\ live' = live \ {s} /\ monitor' = then
  /\ UNCHANGED <<vars, now, token, inflight, stamp, evq, next, snap, gstop, consumer>>

JoinFeed(s, at, then) ==
  /\ monitor = at /\ inflight[s] = {}
  /\ monitor' = then
  /\ UNCHANGED <<vars, feeds, evq, next, snap, gstop, consumer>>

JoinSpot ==
  /\ monitor = "joinSpot"
  /\ Chainlink \/ "spot" \notin live
  /\ StampedWorkers = {}
  /\ monitor' = "pushStop"
  /\ UNCHANGED <<vars, feeds, evq, next, snap, gstop, consumer>>

StopNotPushed ==
  /\ monitor = "pushStop" /\ monitor' = "join"
  /\ UNCHANGED <<vars, feeds, evq, next, snap, gstop, consumer>>
PushStop ==
  /\ monitor = "pushStop" /\ monitor' = "join"
  /\ Push(StopEvent)
  /\ UNCHANGED <<vars, feeds, next, snap, gstop, consumer>>

Join ==
  /\ monitor = "join" /\ consumer = "done"
  /\ monitor' = "done"
  /\ UNCHANGED <<vars, feeds, evq, next, snap, gstop, consumer>>

Returned == monitor = "done" /\ UNCHANGED rvars

----------------------------------------------------------------------------
(* The strategy thread.  A tick's entry clock is the time Binance's tick was   *)
(* given, or the time a Chainlink tick is handled.                             *)

Pop(type) ==
  /\ consumer = "run" /\ evq # << >> /\ Head(evq).type = type
  /\ evq' = Tail(evq)
  /\ UNCHANGED <<feeds, main, gstop>>

EntryClock(e) == IF Chainlink THEN now ELSE e.time

ConsumeSpot ==
  /\ Pop("spot") /\ UNCHANGED consumer
  /\ \E th \in Theo : OnSpot(EntryClock(Head(evq)), th)

ConsumeQuote ==
  /\ Pop("quote") /\ UNCHANGED consumer
  /\ OnQuote(Head(evq).side, Head(evq).quote)

BidOf(q) == IF q = NoQuote THEN 0 ELSE q.bid

ConsumeRollover ==
  /\ Pop("rollover") /\ UNCHANGED consumer
  /\ \E th \in Theo : OnRollover(Head(evq).bucket, Head(evq).known, th,
                                 [s \in Side |-> BidOf(Head(evq).quotes[s])])

ConsumeStop == Pop("stop") /\ consumer' = "done" /\ UNCHANGED vars

(* The wait ends with the queue empty: back to waiting, or return on g_stop.   *)
ConsumerExit ==
  /\ consumer = "run" /\ evq = << >> /\ gstop
  /\ consumer' = "done"
  /\ UNCHANGED <<vars, feeds, evq, main, gstop>>

Consume == ConsumeSpot \/ ConsumeQuote \/ ConsumeRollover \/ ConsumeStop \/ ConsumerExit

----------------------------------------------------------------------------
SpotFeed == SpotArrives \/ SpotStops \/ \E w \in 1..SpotWorkers : SpotStamped(w) \/ SpotPushed(w)
Feed == \E s \in Side, q \in Quote : Accept(s, q) \/ Deliver(s, q)
Monitor ==
  \/ \E b \in Bucket, known \in Strikes : Snapshot(b, known)
  \/ SwitchUp \/ SwitchDown \/ PushRollover
Shutdown ==
  \/ LeaveLoop
  \/ CloseFeed(Up, "closeUp", "joinUp") \/ JoinFeed(Up, "joinUp", "closeDown")
  \/ CloseFeed(Down, "closeDown", "joinDown") \/ JoinFeed(Down, "joinDown", "joinSpot")
  \/ JoinSpot \/ PushStop \/ Join

RunnerNext ==
  Tick \/ Signal \/ SpotFeed \/ Feed \/ Monitor \/ Shutdown \/ Returned \/ Consume

RunnerSpec == RunnerInit /\ [][RunnerNext]_rvars

(* Every thread runs, discovery succeeds in time, and callbacks return; ticks, *)
(* quotes and signals come as they please.                                     *)
Fairness ==
  /\ WF_rvars(Monitor \/ Shutdown)
  /\ WF_rvars(Consume)
  /\ WF_rvars(SpotStops)
  /\ \A w \in 1..SpotWorkers : WF_rvars(SpotPushed(w))
  /\ \A s \in Side : WF_rvars(\E q \in Quote : Deliver(s, q))

RunnerFairSpec == RunnerSpec /\ Fairness

----------------------------------------------------------------------------
(* Properties.                                                                 *)

RunnerTypeOK ==
  /\ TypeOK
  /\ now \in Times
  /\ token \in [Side -> Bucket]
  /\ inflight \in [Side -> SUBSET Quote]
  /\ stamp \in [1..SpotWorkers -> Times \cup {NoTime}]
  /\ live \in SUBSET (Side \cup {"spot"})
  /\ evq \in Seq(Events)
  /\ monitor \in {"watch", "switchUp", "switchDown", "push", "closeUp", "joinUp", "closeDown",
                  "joinDown", "joinSpot", "pushStop", "join", "done"}
  /\ next \in Nat
  /\ snap \in RolloverEvents \cup {NoEvent}
  /\ gstop \in BOOLEAN
  /\ consumer \in {"run", "done"}

IsRollover(e) == e.type = "rollover"

Descending(q, I) ==
  /\ \A i \in I : q[i].type = "spot"
  /\ \A i, j \in I : i < j => q[i].time > q[j].time

(* Rollovers wait in the queue in bucket order, each later than the bucket the *)
(* strategy is in.  Binance ticks change places only among the workers that    *)
(* make them: of ticks each earlier than the one ahead of it there are never   *)
(* more than workers, and one worker keeps them in the order of their times.   *)
EventsInOrder ==
  /\ \A i \in DOMAIN evq : IsRollover(evq[i]) => hot.bucket < evq[i].bucket /\ evq[i].bucket < next
  /\ \A i, j \in DOMAIN evq :
       i < j /\ IsRollover(evq[i]) /\ IsRollover(evq[j]) => evq[i].bucket < evq[j].bucket
  /\ ~Chainlink =>
       \A I \in SUBSET DOMAIN evq : Descending(evq, I) => Cardinality(I) <= SpotWorkers

(* The strategy never prices a bucket that has not begun, though the monitor   *)
(* learns buckets from the exchange and the clock runs on independently.       *)
BucketNotAhead == 2 * hot.bucket <= now

(* The quote the strategy holds for an outcome never goes back to an earlier   *)
(* bucket: messages racing with switch_token, before and after the token       *)
(* check, do not overwrite the new market's quotes.                            *)
QuotesFollowBuckets ==
  [][ \A s \in Side : hot.quote[s] # NoQuote => hot'.quote[s].bucket >= hot.quote[s].bucket ]_rvars

(* No rollover is lost between the monitor, the feeds and the strategy: but    *)
(* for the switch itself both feeds are in one bucket, and the strategy is in  *)
(* it too, or its rollover is about to be pushed or waits in the queue.        *)
NoRolloverLost ==
  /\ monitor # "switchDown" => \A s \in Side : token[s] = next - 1
  /\ \/ hot.bucket = next - 1 \/ monitor = "push"
     \/ \E i \in DOMAIN evq : IsRollover(evq[i]) /\ evq[i].bucket = next - 1

(* No join of the shutdown waits for what cannot come: a feed being joined     *)
(* accepts no more, the spot thread saw the signal, and the strategy thread    *)
(* has the stop event ahead or is done.  Only Chainlink ticks follow the stop. *)
FeedsJoined == {"joinSpot", "pushStop", "join", "done"}
JoinsEnd ==
  /\ monitor = "joinUp" => Up \notin live
  /\ monitor = "joinDown" => Down \notin live
  /\ monitor \in FeedsJoined => gstop /\ \A s \in Side : s \notin live /\ inflight[s] = {}
  /\ monitor = "join" => consumer = "done" \/ \E i \in DOMAIN evq : evq[i].type = "stop"
  /\ \A i, j \in DOMAIN evq : i < j /\ evq[i].type = "stop" => Chainlink /\ evq[j].type = "spot"

(* The strategy reaches every bucket the clock reaches, or the program is      *)
(* being stopped.                                                              *)
RolloverAdopted == \A b \in Bucket : (now >= 2 * b) ~> (hot.bucket >= b \/ gstop)

(* A signal ends the program: the joins of the shutdown sequence all return,   *)
(* whatever the feeds still deliver.                                           *)
ShutdownCompletes == gstop ~> monitor = "done"

(* "BUY when theo - ask >= X", theo and ask being those of one market: the     *)
(* quote a position is opened at was made for the bucket it is booked in.      *)
BoughtAtOwnQuote ==
  [][ ~HavePos(acct) /\ HavePos(acct') => hot'.quote[acct'.side].bucket = acct'.bucket ]_rvars

(* The event handlers of Strategy, in whatever order the threads feed them.    *)
ImplementsStrategy == Spec
===============================================================================
