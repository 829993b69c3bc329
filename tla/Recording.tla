----------------------------- MODULE Recording -----------------------------
(* live_pipeline following the market: the main thread, which looks for the    *)
(* next bucket, rolls two quote feeds over to it and in the end stops          *)
(* everything, the feeds' callbacks, the Chainlink callback, the view they     *)
(* share and the file of quotes and rollovers.  The spot file has a writer of  *)
(* its own, which shares nothing with the rest and is left out.                *)
EXTENDS QuoteFeed, Sequences, FiniteSets

CONSTANT MaxQueue   \* max_queue_ of the writer

ASSUME RecordingAssumption == /\ Feed = {"up", "down"} /\ LastBucket \in Nat
                              /\ MaxQueue \in Nat \ {0}

Main == "main"
QuoteRow == [feed : Feed, token : Bucket, epoch : Bucket, price : Price]
RolloverRow == [rollover : Bucket]

NoBucket == LastBucket + 1

VARIABLES
  now,       \* the bucket the wall clock is in
  stop,      \* g_stop
  pc,        \* where the main thread is
  turn,      \* the feed it deals with: what is done to both is done to "up" first
  active,    \* active_epoch
  ready,     \* next_ready: the next bucket was found ahead of time
  target,    \* new_active, the bucket being rolled over to
  hot,       \* HotState: active_epoch, and the bucket of sigma_bucket
  takenBack, \* history: a quote has moved hot to an older bucket since the rollover
  queue, stopped, held, asleep, blocked, returned, file, accepted, refused

File == INSTANCE JsonlWriter WITH Producer <- Feed \union {Main},
                                  Row <- QuoteRow \union RolloverRow

filing == <<queue, stopped, held, asleep, blocked, returned, file, accepted, refused>>
view == <<hot, takenBack>>
main == <<pc, turn, active, ready, target>>
vars == <<now, stop, main, view, feed, filing>>

Init ==
  /\ now = 0 /\ active = 0 /\ stop = FALSE /\ pc = "loop" /\ turn = "up"
  /\ ready = FALSE /\ target = 0
  /\ hot = [epoch |-> 0, sigma |-> NoBucket]
  /\ takenBack = FALSE
  /\ FeedInit /\ File!Init

----------------------------------------------------------------------------
(* on_quote of a feed: the view follows the quote's label, then the row.       *)
HotQuote(f) ==
  /\ at[f] = "calling" /\ Goes(f, "storing")
  /\ hot' = [hot EXCEPT !.epoch = quote[f].epoch]
  /\ takenBack' = (takenBack \/ quote[f].epoch < hot.epoch)
  /\ UNCHANGED <<now, stop, main, linked, subs, snapshot, token, label, last, ids, quote,
                 joined, events, heard, filing>>
QuoteOf(f) == [feed |-> f, token |-> quote[f].token, epoch |-> quote[f].epoch,
               price |-> quote[f].price]
StoreQuote(f) ==
  /\ at[f] = "storing"
  /\ \/ File!Enqueue(f, QuoteOf(f)) /\ Goes(f, "called")
     \/ File!Wait(f) /\ UNCHANGED at
  /\ UNCHANGED <<now, stop, main, view, linked, subs, snapshot, token, label, last, ids, quote,
                 joined, events, heard>>

(* on_tick: the volatility of the bucket, once, from its start on, if it has a *)
(* strike and the history is long enough.                                      *)
Tick ==
  /\ hot.sigma = NoBucket
  /\ hot' = [hot EXCEPT !.sigma = hot.epoch]
  /\ UNCHANGED <<takenBack, now, stop, main, feed, filing>>

----------------------------------------------------------------------------
(* The main thread.                                                            *)
Moves(from, to) == pc = from /\ pc' = to /\ UNCHANGED turn
(* The last step on one feed: on to the other, or past both.                   *)
ForBoth(from, again, to) ==
  /\ pc = from
  /\ IF turn = "up" THEN pc' = again /\ turn' = "down" ELSE pc' = to /\ turn' = "up"

BucketBegins ==
  /\ now < LastBucket /\ now' = now + 1
  /\ UNCHANGED <<stop, main, view, feed, filing>>
Signal ==
  /\ ~stop /\ stop' = TRUE
  /\ UNCHANGED <<now, main, view, feed, filing>>

(* One round: the next bucket is looked for ahead of time, unless the interval *)
(* is not over or Gamma does not have it (yet); one that is itself over when   *)
(* it is due is dropped.                                                       *)
Look ==
  /\ pc = "loop" /\ ~stop
  /\ \E found \in {ready, active < LastBucket} :
       IF now >= active + 1
       THEN pc' = "find" /\ ready' = (found /\ now < active + 2)
       ELSE pc' = "loop" /\ ready' = found
  /\ UNCHANGED <<now, stop, turn, active, target, view, feed, filing>>
(* Without one, ask for the next by name, then for the one the clock is in.    *)
Found == IF ready THEN {active + 1} ELSE {active + 1, now}
Find ==
  /\ Moves("find", "unsubscribe")
  /\ target' \in Found
  /\ UNCHANGED <<now, stop, active, ready, view, feed, filing>>
FindFails ==
  /\ Moves("find", "loop") /\ ~ready
  /\ UNCHANGED <<now, stop, active, ready, target, view, feed, filing>>

(* switch_token of the one feed, then of the other.                            *)
SwitchSubscribingFirst ==
  /\ \/ Moves("unsubscribe", "token") /\ Unsubscribe(turn)
     \/ Moves("token", "subscribe") /\ SetToken(turn, target)
     \/ Moves("subscribe", "snapshot") /\ Subscribe(turn, target)
     \/ ForBoth("snapshot", "unsubscribe", "context") /\ SetSnapshot(turn, target)
  /\ UNCHANGED <<now, stop, active, ready, target, view, filing>>
Switch ==
  /\ \/ Moves("unsubscribe", "token") /\ Unsubscribe(turn)
     \/ Moves("token", "snapshot") /\ SetToken(turn, target)
     \/ Moves("snapshot", "subscribe") /\ SetSnapshot(turn, target)
     \/ ForBoth("subscribe", "unsubscribe", "context") /\ Subscribe(turn, target)
  /\ UNCHANGED <<now, stop, active, ready, target, view, filing>>
SetContext ==
  /\ ForBoth("context", "context", "view")
  /\ SetMarketContext(turn, target)
  /\ UNCHANGED <<now, stop, active, ready, target, view, filing>>
HotRolloverKeepingSigma ==
  /\ Moves("view", "row")
  /\ hot' = [hot EXCEPT !.epoch = target]
  /\ takenBack' = FALSE
  /\ UNCHANGED <<now, stop, active, ready, target, feed, filing>>
HotRollover ==
  /\ Moves("view", "row")
  /\ hot' = [epoch |-> target, sigma |-> NoBucket]
  /\ takenBack' = FALSE
  /\ UNCHANGED <<now, stop, active, ready, target, feed, filing>>
StoreRollover ==
  /\ pc = "row"
  /\ \/ /\ File!Enqueue(Main, [rollover |-> target])
        /\ pc' = "loop" /\ active' = target /\ ready' = FALSE
     \/ File!Wait(Main) /\ UNCHANGED <<pc, active, ready>>
  /\ UNCHANGED <<now, stop, turn, target, view, feed>>

Leave ==
  /\ Moves("loop", "stop") /\ stop
  /\ UNCHANGED <<now, stop, active, ready, target, view, feed, filing>>
CloseFeed ==
  /\ ForBoth("stop", "stop", "close") /\ StopFeed(turn)
  /\ UNCHANGED <<now, stop, active, ready, target, view, filing>>
CloseFile ==
  /\ Moves("close", "join") /\ File!Stop
  /\ UNCHANGED <<now, stop, active, ready, target, view, feed>>
Exit ==
  /\ Moves("join", "exited") /\ returned
  /\ UNCHANGED <<now, stop, active, ready, target, view, feed, filing>>

Rollover == Look \/ Find \/ FindFails \/ Switch \/ SetContext \/ HotRollover \/ StoreRollover
Shutdown == Leave \/ CloseFeed \/ CloseFile \/ Exit
FeedThread(f) == \/ Socket(f) /\ UNCHANGED <<now, stop, main, view, filing>>
                 \/ HotQuote(f) \/ StoreQuote(f)
Arrive(f, p) == /\ \E t \in Bucket : Receive(f, t, p)
                /\ UNCHANGED <<now, stop, main, view, filing>>
Lose(f) == Drop(f) /\ UNCHANGED <<now, stop, main, view, filing>>
WriterThread == File!Run /\ UNCHANGED <<now, stop, main, view, feed>>
WaitEnds == File!Spurious /\ UNCHANGED <<now, stop, main, view, feed>>

Next == \/ BucketBegins \/ Signal \/ Tick \/ Rollover \/ Shutdown \/ WriterThread \/ WaitEnds
        \/ \E f \in Feed : FeedThread(f) \/ Lose(f) \/ \E p \in Price : Arrive(f, p)
Spec == Init /\ [][Next]_vars

(* The threads run, and the library reconnects.                                *)
FairSpec == /\ Spec /\ WF_vars(Rollover) /\ WF_vars(Shutdown) /\ WF_vars(WriterThread)
            /\ \A f \in Feed : WF_vars(FeedThread(f))

----------------------------------------------------------------------------
Places == {"loop", "find", "unsubscribe", "token", "snapshot", "subscribe", "context", "view",
           "row", "stop", "close", "join", "exited"}

(* Every variable has a value the code gives it, those of the file included.   *)
TypeOK ==
  /\ pc \in Places /\ turn \in Feed /\ {now, active, target} \subseteq Bucket
  /\ {stop, ready} \subseteq BOOLEAN
  /\ hot.epoch \in Bucket /\ hot.sigma \in Bucket \union {NoBucket}
  /\ \A f \in Feed : quote[f] # None <=> at[f] \in {"calling", "storing", "called"}
  /\ File!TypeOK /\ File!Bounded /\ File!NoneSleepsOnWork

(* Every quote and rollover the program has seen is in the file, once and in   *)
(* order, when it exits: rows still queued are written, and no thread is left  *)
(* to offer another to a writer that has stopped.                              *)
NothingLost == /\ File!InOrder
               /\ pc = "exited" => file = accepted /\ refused = 0

IsRollover(row) == row \in RolloverRow
Late(f, i) == {j \in i + 1..Len(accepted) :
                 /\ ~IsRollover(accepted[j]) /\ accepted[j].feed = f
                 /\ accepted[j].epoch < accepted[i].rollover}
(* A quote of an old token is never filed under a newer market, and after the  *)
(* row that announces a market at most one quote of each feed, the one in      *)
(* flight, is still filed under an older one.                                  *)
RowsNearTheirMarket ==
  \A i \in 1..Len(accepted) :
    IF IsRollover(accepted[i]) THEN \A f \in Feed : Cardinality(Late(f, i)) <= 1
    ELSE accepted[i].epoch <= accepted[i].token

(* Between rollovers the view prices the market followed, with its own sigma,  *)
(* unless a quote filed late has taken it back to the bucket before.           *)
ViewOfBucket ==
  pc = "loop" /\ ~takenBack => hot.epoch = active /\ hot.sigma \in {active, NoBucket}

StoredOf(f) == {i \in 1..Len(accepted) : ~IsRollover(accepted[i]) /\ accepted[i].feed = f}
LastStored(f, t, p) ==
  \E i \in StoredOf(f) : /\ \A j \in StoredOf(f) : j <= i
                        /\ accepted[i].token = t /\ accepted[i].price = p
(* Between two messages the last price a feed has read for its token is the    *)
(* last it has passed on: none is taken for a repetition of an older token's.  *)
LastQuoteStored ==
  \A f \in Feed :
    at[f] = "reading" /\ heard[f] # None /\ heard[f].token = token[f] /\ ~stopped =>
      LastStored(f, heard[f].token, heard[f].price)

(* Whoever waits for room in the queue waits for somebody who will come: the   *)
(* writer, awake and with a row to take, or a thread about to offer one.       *)
Offering(p) == p \notin blocked /\ IF p = Main THEN pc = "row" ELSE at[p] = "storing"
NoneWaitsInVain ==
  blocked # {} => \/ queue # <<>> /\ ~asleep /\ ~returned
                  \/ \E p \in Feed \union {Main} : Offering(p)

(* Except while it is switched, a feed whose connection is open and whose      *)
(* snapshot has been sent is subscribed to its token, wherever in a switch the *)
(* connection broke or came back.                                              *)
Switching(f) == turn = f /\ pc \in {"token", "snapshot", "subscribe"}
SubscribedWhileOpen ==
  \A f \in Feed : linked[f] /\ at[f] # "subscribing" /\ ~Switching(f) => token[f] \in subs[f]

(* However the connections come and go around a switch, a feed ends up         *)
(* subscribed to its token, unless the program is told to stop.                *)
SubscribedAgain == \A f \in Feed : []<>(token[f] \in subs[f] \/ stop)

(* A signal ends the program, whoever waits for whom.                          *)
ExitReached == stop ~> pc = "exited"
=============================================================================
