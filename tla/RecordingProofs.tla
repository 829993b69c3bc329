-------------------------- MODULE RecordingProofs --------------------------
(* What holds of Recording for every number of buckets, messages and lost      *)
(* connections and every length of the queue.                                  *)
(*                                                                             *)
(* Inv: a row is queued, held by the writer or in the file, in order, and no   *)
(* feed calls back once the writer was told to stop.  MarketInv: tokens change *)
(* before labels do, labels before the view.  Heard: the last price a feed     *)
(* read is in its hands, was passed on, or was read for another token.         *)
(* Subscribed and Waiting: what reconnecting and joining threads rely on.      *)
EXTENDS Recording, SequenceTheorems, FiniteSetTheorems, TLAPS

AllRows == QuoteRow \union RolloverRow
Midway == {"calling", "storing", "called"}
Twofold == {"unsubscribe", "token", "snapshot", "subscribe", "context", "stop"}

(* The main thread, and the two feeds.                                         *)
MainInv ==
  /\ pc \in Places /\ turn \in Feed
  /\ now \in Bucket /\ active \in Bucket /\ target \in Bucket
  /\ stop \in BOOLEAN /\ ready \in BOOLEAN
  /\ hot \in [epoch : Bucket, sigma : Bucket \union {NoBucket}]
  /\ pc = "find" => active + 1 <= now
FeedInv ==
  /\ linked \in [Feed -> BOOLEAN] /\ joined \in [Feed -> BOOLEAN]
  /\ token \in [Feed -> Bucket] /\ label \in [Feed -> Bucket]
  /\ at \in [Feed -> {"reading", "subscribing"} \union Midway]
  /\ quote \in [Feed -> Quotes \union {None}]
  /\ \A f \in Feed : quote[f] # None <=> at[f] \in Midway
(* Where the rows are.                                                         *)
FileInv ==
  /\ queue \in Seq(AllRows) /\ file \in Seq(AllRows) /\ accepted \in Seq(AllRows)
  /\ held \in {<<>>} \union {<<row>> : row \in AllRows}
  /\ stopped \in BOOLEAN /\ asleep \in BOOLEAN /\ returned \in BOOLEAN
  /\ blocked \subseteq Feed \union {Main} /\ refused \in Nat
  /\ accepted = (file \o held) \o queue
  /\ returned => stopped /\ held = <<>> /\ queue = <<>>
  /\ Len(queue) <= MaxQueue
  /\ asleep => queue = <<>> /\ held = <<>>
(* The order of the shutdown: no feed is left to call back once the writer has *)
(* stopped.                                                                    *)
StopInv ==
  /\ \A f \in Feed : joined[f] => ~linked[f] /\ at[f] = "reading"
  /\ pc \in {"close", "join", "exited"} => \A f \in Feed : joined[f]
  /\ turn = "down" => pc \in Twofold
  /\ turn = "down" /\ pc = "stop" => joined["up"]
  /\ stopped <=> pc \in {"join", "exited"}
  /\ pc = "exited" => returned
  /\ refused = 0

Inv == MainInv /\ FeedInv /\ FileInv /\ StopInv

LEMMA NoneIsNoQuote == None \notin Quotes
<1>1. ASSUME None \in Quotes PROVE FALSE
  <2>1. DOMAIN None = {"none"}
    BY DEF None
  <2>2. PICK q \in Quotes : q = None
    BY <1>1
  <2>3. DOMAIN q = {"token", "epoch", "price"}
    BY DEF Quotes
  <2> QED BY <2>1, <2>2, <2>3
<1> QED BY <1>1

(* enqueue puts the row at the end of what is on its way to the file.          *)
LEMMA EnqueueKeeps ==
  ASSUME NEW p \in Feed \union {Main}, NEW row \in AllRows,
         FileInv, ~stopped, File!Enqueue(p, row)
  PROVE  FileInv' /\ refused' = refused /\ stopped' = stopped /\ returned' = returned
<1>1. /\ queue' = Append(queue, row) /\ accepted' = Append(accepted, row) /\ asleep' = FALSE
      /\ refused' = refused /\ Len(queue) < MaxQueue
      /\ UNCHANGED <<stopped, held, blocked, returned, file>>
  BY DEF File!Enqueue
<1>2. held \in Seq(AllRows)
  BY DEF FileInv
<1>3. file \o held \in Seq(AllRows)
  BY <1>2, ConcatProperties DEF FileInv
<1>4. Append(accepted, row) = (file \o held) \o Append(queue, row)
  <2>1. accepted \in Seq(AllRows) /\ queue \in Seq(AllRows) /\ <<row>> \in Seq(AllRows)
    BY DEF FileInv
  <2>2. Append(accepted, row) = ((file \o held) \o queue) \o <<row>>
    BY <2>1, AppendIsConcat DEF FileInv
  <2>3. ((file \o held) \o queue) \o <<row>> = (file \o held) \o (queue \o <<row>>)
    BY <1>3, <2>1, ConcatAssociative
  <2>4. queue \o <<row>> = Append(queue, row)
    BY <2>1, AppendIsConcat
  <2> QED BY <2>2, <2>3, <2>4
<1>5. Len(Append(queue, row)) = Len(queue) + 1 /\ Len(queue) \in Nat
  BY DEF FileInv
<1>6. Append(queue, row) \in Seq(AllRows) /\ Append(accepted, row) \in Seq(AllRows)
  BY DEF FileInv
<1>7. MaxQueue \in Nat
  BY RecordingAssumption
<1>8. Len(queue') <= MaxQueue
  BY <1>1, <1>5, <1>7
<1>9. accepted' = (file' \o held') \o queue'
  BY <1>1, <1>4
<1> QED BY <1>1, <1>6, <1>8, <1>9 DEF FileInv

(* The writer thread moves rows along and drops none.                          *)
LEMMA RunKeeps ==
  ASSUME FileInv, File!Run
  PROVE  FileInv' /\ refused' = refused /\ stopped' = stopped /\ (returned => returned')
<1>1. CASE File!Sleep
  BY <1>1 DEF File!Sleep, FileInv
<1>2. CASE File!Take
  <2>1. /\ held = <<>> /\ queue # <<>> /\ ~asleep /\ ~returned
        /\ held' = <<Head(queue)>> /\ queue' = Tail(queue)
        /\ UNCHANGED <<stopped, asleep, returned, file, accepted, refused>>
    BY <1>2 DEF File!Take
  <2>2. blocked' \subseteq Feed \union {Main}
    BY <1>2 DEF File!Take, File!WakeOne, FileInv
  <2>3. /\ Head(queue) \in AllRows /\ Tail(queue) \in Seq(AllRows)
        /\ Len(Tail(queue)) = Len(queue) - 1 /\ Len(queue) \in Nat
    BY <2>1, HeadTailProperties DEF FileInv
  <2>4. accepted = (file \o <<Head(queue)>>) \o Tail(queue)
    BY <2>1, <2>3 DEF FileInv
  <2>5. MaxQueue \in Nat
    BY RecordingAssumption
  <2> QED BY <2>1, <2>2, <2>3, <2>4, <2>5 DEF FileInv
<1>3. CASE File!Write
  <2>1. /\ held # <<>> /\ file' = file \o held /\ held' = <<>>
        /\ UNCHANGED <<queue, stopped, asleep, blocked, returned, accepted, refused>>
    BY <1>3 DEF File!Write
  <2>2. held \in Seq(AllRows) /\ ~returned /\ ~asleep
    BY <2>1 DEF FileInv
  <2>3. file \o held \in Seq(AllRows)
    BY <2>2, ConcatProperties DEF FileInv
  <2>4. (file \o held) \o <<>> = file \o held
    BY <2>3, ConcatEmptySeq
  <2> QED BY <2>1, <2>2, <2>3, <2>4 DEF FileInv
<1>4. CASE File!Return
  BY <1>4 DEF File!Return, FileInv
<1> QED BY <1>1, <1>2, <1>3, <1>4 DEF File!Run

LEMMA WaitKeeps ==
  ASSUME NEW p \in Feed \union {Main}, FileInv, File!Wait(p)
  PROVE  FileInv' /\ UNCHANGED <<refused, stopped, returned>>
BY DEF File!Wait, FileInv

LEMMA Start == Init => Inv
<1> SUFFICES ASSUME Init PROVE Inv
  OBVIOUS
<1>1. 0 \in Bucket /\ NoBucket \in Bucket \union {NoBucket}
  BY RecordingAssumption DEF Bucket
<1>2. MainInv
  BY <1>1, RecordingAssumption DEF Init, MainInv, Places
<1>3. FeedInv
  BY <1>1 DEF Init, FeedInit, FeedInv, Midway
<1>4. FileInv
  <2>1. (<<>> \o <<>>) \o <<>> = <<>>
    BY ConcatEmptySeq
  <2>2. Len(<<>>) <= MaxQueue
    BY RecordingAssumption
  <2>3. /\ queue = <<>> /\ held = <<>> /\ file = <<>> /\ accepted = <<>> /\ refused = 0
        /\ stopped = FALSE /\ asleep = FALSE /\ returned = FALSE /\ blocked = {}
    BY DEF Init, File!Init
  <2>4. <<>> \in Seq(AllRows) /\ 0 \in Nat
    OBVIOUS
  <2> QED BY <2>1, <2>2, <2>3, <2>4 DEF FileInv
<1>5. StopInv
  BY DEF Init, FeedInit, File!Init, StopInv, Twofold
<1> QED BY <1>2, <1>3, <1>4, <1>5 DEF Inv

----------------------------------------------------------------------------
(* The feeds.                                                                  *)

LEMMA OpenStep ==
  ASSUME Inv, NEW f \in Feed, Socket(f), UNCHANGED <<now, stop, main, view, filing>>
  PROVE  Inv'
<1> USE DEF Inv, Goes, Forgets
<1>1. MainInv' /\ FileInv'
  BY DEF MainInv, FileInv, main, view, filing
<1>2. CASE Open(f)
  <2>1. FeedInv'
    BY <1>2, NoneIsNoQuote DEF Open, FeedInv, Midway
  <2>2. StopInv'
    BY <1>2 DEF Open, FeedInv, StopInv, main, filing
  <2> QED BY <1>1, <2>1, <2>2
<1>3. CASE SendSnapshot(f)
  <2>1. FeedInv'
    BY <1>3, NoneIsNoQuote DEF SendSnapshot, FeedInv, Midway
  <2>2. StopInv'
    BY <1>3 DEF SendSnapshot, FeedInv, StopInv, main, filing
  <2> QED BY <1>1, <2>1, <2>2
<1>4. CASE Remember(f)
  <2>1. FeedInv'
    BY <1>4, NoneIsNoQuote DEF Remember, FeedInv, Midway
  <2>2. StopInv'
    BY <1>4 DEF Remember, FeedInv, StopInv, main, filing
  <2> QED BY <1>1, <2>1, <2>2
<1> QED BY <1>2, <1>3, <1>4 DEF Socket

LEMMA ArriveStep ==
  ASSUME Inv, NEW f \in Feed, NEW p \in Price, Arrive(f, p)
  PROVE  Inv'
<1> PICK t \in Bucket : Receive(f, t, p)
  BY DEF Arrive
<1>1. MainInv' /\ FileInv'
  BY DEF Inv, Arrive, MainInv, FileInv, main, view, filing
<1>2. [token |-> t, epoch |-> label[f], price |-> p] \in Quotes
  BY DEF Inv, FeedInv, Quotes
<1>3. FeedInv'
  BY <1>2, NoneIsNoQuote DEF Inv, Receive, Goes, FeedInv, Midway
<1>4. StopInv'
  BY DEF Inv, Arrive, Receive, Goes, FeedInv, StopInv, main, filing
<1> QED BY <1>1, <1>3, <1>4 DEF Inv

LEMMA LoseStep ==
  ASSUME Inv, NEW f \in Feed, Lose(f)
  PROVE  Inv'
<1>1. MainInv' /\ FileInv'
  BY DEF Inv, Lose, MainInv, FileInv, main, view, filing
<1>2. FeedInv' /\ StopInv'
  BY DEF Inv, Lose, Drop, FeedInv, StopInv, main, filing
<1> QED BY <1>1, <1>2 DEF Inv

(* A callback is under way, so its feed is not joined and the writer runs.     *)
LEMMA CallbackStep ==
  ASSUME Inv, NEW f \in Feed, HotQuote(f) \/ StoreQuote(f)
  PROVE  Inv'
<1>1. at[f] \in Midway /\ quote[f] \in Quotes /\ ~stopped
  BY DEF Inv, HotQuote, StoreQuote, FeedInv, StopInv, Midway
<1>2. CASE HotQuote(f)
  <2>1. quote[f].epoch \in Bucket
    BY <1>1 DEF Quotes
  <2>2. MainInv'
    BY <1>2, <2>1 DEF Inv, HotQuote, MainInv, main
  <2>3. FileInv'
    BY <1>2 DEF Inv, HotQuote, FileInv, filing
  <2>4. FeedInv' /\ StopInv'
    BY <1>2 DEF Inv, HotQuote, Goes, FeedInv, StopInv, Midway, main, filing
  <2> QED BY <2>2, <2>3, <2>4 DEF Inv
<1>3. CASE StoreQuote(f)
  <2>1. QuoteOf(f) \in AllRows
    BY <1>1 DEF QuoteOf, Quotes, AllRows, QuoteRow
  <2>2. MainInv'
    BY <1>3 DEF Inv, StoreQuote, MainInv, main, view
  <2>3. CASE File!Enqueue(f, QuoteOf(f)) /\ Goes(f, "called")
    <3>1. FileInv' /\ UNCHANGED <<refused, stopped, returned>>
      BY <1>1, <2>1, <2>3, EnqueueKeeps DEF Inv
    <3>2. FeedInv' /\ StopInv'
      BY <1>3, <2>3, <3>1 DEF Inv, StoreQuote, Goes, FeedInv, StopInv, Midway, main
    <3> QED BY <2>2, <3>1, <3>2 DEF Inv
  <2>4. CASE File!Wait(f) /\ UNCHANGED at
    <3>1. FileInv' /\ UNCHANGED <<refused, stopped, returned>>
      BY <2>4, WaitKeeps DEF Inv
    <3>2. FeedInv' /\ StopInv'
      BY <1>3, <2>4, <3>1 DEF Inv, StoreQuote, FeedInv, StopInv, Midway, main
    <3> QED BY <2>2, <3>1, <3>2 DEF Inv
  <2> QED BY <1>3, <2>3, <2>4 DEF StoreQuote
<1> QED BY <1>2, <1>3

LEMMA WriterStep ==
  ASSUME Inv, WriterThread \/ WaitEnds
  PROVE  Inv'
<1>1. MainInv' /\ FeedInv'
  BY DEF Inv, WriterThread, WaitEnds, MainInv, FeedInv, main, view, feed
<1>2. FileInv' /\ refused' = refused /\ stopped' = stopped /\ (returned => returned')
  <2>1. CASE WriterThread
    BY <2>1, RunKeeps DEF Inv, WriterThread
  <2>2. CASE WaitEnds
    <3>1. UNCHANGED <<queue, stopped, held, returned, file, accepted, refused>>
      BY <2>2 DEF WaitEnds, File!Spurious
    <3>2. CASE UNCHANGED blocked /\ asleep' = FALSE
      BY <3>1, <3>2 DEF Inv, FileInv
    <3>3. CASE UNCHANGED asleep /\ blocked' \subseteq blocked
      BY <3>1, <3>3 DEF Inv, FileInv
    <3> QED BY <2>2, <3>2, <3>3 DEF WaitEnds, File!Spurious
  <2> QED BY <2>1, <2>2
<1>3. StopInv'
  BY <1>2 DEF Inv, WriterThread, WaitEnds, StopInv, main, feed
<1> QED BY <1>1, <1>2, <1>3 DEF Inv

----------------------------------------------------------------------------
(* The main thread.                                                            *)

LEMMA FeedNames == "up" \in Feed /\ "down" \in Feed /\ (\A f \in Feed : f \in {"up", "down"})
BY RecordingAssumption

(* Steps that touch no feed and no row.                                        *)
LEMMA LoopStep ==
  ASSUME Inv, Look \/ Find \/ FindFails \/ HotRollover \/ BucketBegins \/ Signal \/ Tick
  PROVE  Inv'
<1>1. FeedInv' /\ FileInv'
  <2>1. UNCHANGED <<feed, filing>>
    BY DEF Look, Find, FindFails, HotRollover, BucketBegins, Signal, Tick
  <2> QED BY <2>1 DEF Inv, FeedInv, FileInv, feed, filing
<1>2. now \in Nat /\ active \in Nat /\ LastBucket \in Nat
  BY RecordingAssumption DEF Inv, MainInv, Bucket
<1>3. MainInv'
  <2>1. CASE Look
    <3>1. PICK found \in {ready, active < LastBucket} :
            IF now >= active + 1
            THEN pc' = "find" /\ ready' = (found /\ now < active + 2)
            ELSE pc' = "loop" /\ ready' = found
      BY <2>1 DEF Look
    <3>2. ready' \in BOOLEAN
      <4>1. (active < LastBucket) \in BOOLEAN /\ ready \in BOOLEAN
        BY DEF Inv, MainInv
      <4>2. found \in BOOLEAN
        BY <4>1, Zenon
      <4>3. (found /\ now < active + 2) \in BOOLEAN
        BY Zenon
      <4>4. ready' = (found /\ now < active + 2) \/ ready' = found
        BY <3>1, Zenon
      <4> QED BY <4>2, <4>3, <4>4, Zenon
    <3>3. pc' \in Places /\ (pc' = "find" => active + 1 <= now)
      BY <3>1, <1>2 DEF Places
    <3> QED BY <2>1, <3>2, <3>3 DEF Inv, MainInv, Look, view
  <2>2. CASE Find
    <3>1. active + 1 \in Bucket
      BY <2>2, <1>2 DEF Inv, MainInv, Find, Moves, Bucket
    <3>2. target' \in Bucket
      BY <2>2, <3>1 DEF Inv, MainInv, Find, Found
    <3> QED BY <2>2, <3>2 DEF Inv, MainInv, Find, Moves, Places, view
  <2>3. CASE FindFails
    BY <2>3 DEF Inv, MainInv, FindFails, Moves, Places, view
  <2>4. CASE HotRollover
    BY <2>4 DEF Inv, MainInv, HotRollover, Moves, Places
  <2>5. CASE BucketBegins
    BY <2>5, <1>2 DEF Inv, MainInv, BucketBegins, Bucket, main, view
  <2>6. CASE Signal
    BY <2>6 DEF Inv, MainInv, Signal, main, view
  <2>7. CASE Tick
    BY <2>7 DEF Inv, MainInv, Tick, main
  <2> QED BY <2>1, <2>2, <2>3, <2>4, <2>5, <2>6, <2>7
<1>4. StopInv'
  <2>1. UNCHANGED <<turn, linked, at, joined, stopped, returned, refused>>
    BY DEF Look, Find, FindFails, HotRollover, BucketBegins, Signal, Tick, Moves, main, feed, filing
  <2>2. CASE UNCHANGED pc
    BY <2>1, <2>2 DEF Inv, StopInv
  <2>3. CASE pc \in {"loop", "find", "view"} /\ pc' \in {"loop", "find", "unsubscribe", "row"}
    BY <2>1, <2>3 DEF Inv, StopInv, Twofold
  <2>4. UNCHANGED pc \/ (pc \in {"loop", "find", "view"} /\ pc' \in {"loop", "find", "unsubscribe", "row"})
    <3>1. CASE Look
      BY <3>1 DEF Look
    <3>2. CASE Find \/ FindFails \/ HotRollover
      BY <3>2 DEF Find, FindFails, HotRollover, Moves
    <3>3. CASE BucketBegins \/ Signal \/ Tick
      BY <3>3 DEF BucketBegins, Signal, Tick, main
    <3> QED BY <3>1, <3>2, <3>3
  <2> QED BY <2>2, <2>3, <2>4
<1> QED BY <1>1, <1>3, <1>4 DEF Inv

LEMMA SwitchStep ==
  ASSUME Inv, Switch \/ SetContext
  PROVE  Inv'
<1>1. FileInv' /\ UNCHANGED <<stopped, returned, refused>>
  <2>1. UNCHANGED filing
    BY DEF Switch, SetContext
  <2> QED BY <2>1 DEF Inv, FileInv, filing
<1>2. pc \in {"unsubscribe", "token", "snapshot", "subscribe", "context"}
      /\ pc' \in {"unsubscribe", "token", "snapshot", "subscribe", "context", "view"}
      /\ turn' \in Feed /\ (turn' = "down" => pc' # "view")
  BY FeedNames DEF Inv, MainInv, Switch, SetContext, Moves, ForBoth
<1>3. MainInv'
  BY <1>2 DEF Inv, MainInv, Switch, SetContext, Places, view
<1>4. UNCHANGED <<linked, at, quote, joined>>
  BY DEF Switch, SetContext, Unsubscribe, SetToken, SetSnapshot, Subscribe, SetMarketContext
<1>5. token' \in [Feed -> Bucket] /\ label' \in [Feed -> Bucket]
  BY DEF Inv, MainInv, FeedInv, Switch, SetContext, Unsubscribe, SetToken, SetSnapshot, Subscribe,
         SetMarketContext
<1>6. FeedInv'
  BY <1>4, <1>5 DEF Inv, FeedInv
<1>7. StopInv'
  BY <1>1, <1>2, <1>4 DEF Inv, StopInv, Twofold
<1> QED BY <1>1, <1>3, <1>6, <1>7 DEF Inv

LEMMA RowStep ==
  ASSUME Inv, StoreRollover
  PROVE  Inv'
<1>1. pc = "row" /\ ~stopped
  BY DEF Inv, StoreRollover, StopInv
<1>2. [rollover |-> target] \in AllRows
  BY DEF Inv, MainInv, AllRows, RolloverRow
<1>3. FileInv' /\ UNCHANGED <<refused, stopped, returned>>
  BY <1>1, <1>2, EnqueueKeeps, WaitKeeps DEF Inv, StoreRollover
<1>4. FeedInv'
  BY DEF Inv, StoreRollover, FeedInv, feed
<1>5. MainInv'
  BY <1>1 DEF Inv, StoreRollover, MainInv, Places, view
<1>6. StopInv'
  BY <1>1, <1>3 DEF Inv, StoreRollover, StopInv, Twofold, feed
<1> QED BY <1>3, <1>4, <1>5, <1>6 DEF Inv

LEMMA ShutdownStep ==
  ASSUME Inv, Shutdown
  PROVE  Inv'
<1>1. CASE Leave
  <2>1. MainInv' /\ FeedInv' /\ FileInv'
    BY <1>1 DEF Inv, Leave, Moves, MainInv, FeedInv, FileInv, Places, view, feed, filing
  <2>2. StopInv'
    BY <1>1 DEF Inv, Leave, Moves, StopInv, Twofold, feed, filing
  <2> QED BY <2>1, <2>2 DEF Inv
<1>2. CASE CloseFeed
  <2>1. MainInv' /\ FileInv'
    BY <1>2, FeedNames DEF Inv, CloseFeed, ForBoth, MainInv, FileInv, Places, view, filing
  <2>2. FeedInv'
    BY <1>2 DEF Inv, CloseFeed, StopFeed, Forgets, MainInv, FeedInv
  <2>3. turn \in Feed /\ at[turn] = "reading" /\ UNCHANGED <<at, stopped, returned, refused>>
        /\ joined' = [joined EXCEPT ![turn] = TRUE] /\ linked' = [linked EXCEPT ![turn] = FALSE]
    BY <1>2 DEF Inv, MainInv, CloseFeed, StopFeed, filing
  <2>4. \A f \in Feed : joined'[f] => ~linked'[f] /\ at'[f] = "reading"
    BY <2>3 DEF Inv, FeedInv, StopInv
  <2>5. joined'[turn] /\ \A f \in Feed : joined[f] => joined'[f]
    BY <2>3 DEF Inv, FeedInv
  <2>6. pc = "stop"
    BY <1>2 DEF CloseFeed, ForBoth
  <2>7. ASSUME turn = "up" PROVE StopInv'
    <3>1. pc' = "stop" /\ turn' = "down"
      BY <1>2, <2>7 DEF CloseFeed, ForBoth
    <3> QED BY <2>3, <2>4, <2>5, <2>6, <2>7, <3>1 DEF Inv, StopInv, Twofold
  <2>8. ASSUME turn = "down" PROVE StopInv'
    <3>1. pc' = "close" /\ turn' = "up"
      BY <1>2, <2>8 DEF CloseFeed, ForBoth
    <3>2. \A f \in Feed : joined'[f]
      BY <2>5, <2>6, <2>8, FeedNames DEF Inv, StopInv
    <3> QED BY <2>3, <2>4, <2>6, <3>1, <3>2 DEF Inv, StopInv, Twofold
  <2>9. StopInv'
    BY <2>3, <2>7, <2>8, FeedNames
  <2> QED BY <2>1, <2>2, <2>9 DEF Inv
<1>3. CASE CloseFile
  <2>1. MainInv' /\ FeedInv'
    BY <1>3 DEF Inv, CloseFile, Moves, MainInv, FeedInv, Places, view, feed
  <2>2. FileInv'
    BY <1>3 DEF Inv, CloseFile, File!Stop, FileInv
  <2>3. StopInv'
    BY <1>3 DEF Inv, CloseFile, Moves, File!Stop, StopInv, Twofold, feed
  <2> QED BY <2>1, <2>2, <2>3 DEF Inv
<1>4. CASE Exit
  <2>1. MainInv' /\ FeedInv' /\ FileInv'
    BY <1>4 DEF Inv, Exit, Moves, MainInv, FeedInv, FileInv, Places, view, feed, filing
  <2>2. StopInv'
    BY <1>4 DEF Inv, Exit, Moves, StopInv, Twofold, feed, filing
  <2> QED BY <2>1, <2>2 DEF Inv
<1> QED BY <1>1, <1>2, <1>3, <1>4 DEF Shutdown

LEMMA StutterStep ==
  ASSUME Inv, UNCHANGED vars
  PROVE  Inv'
BY DEF Inv, MainInv, FeedInv, FileInv, StopInv, vars, main, view, feed, filing

LEMMA Step == Inv /\ [Next]_vars => Inv'
<1> SUFFICES ASSUME Inv, [Next]_vars PROVE Inv'
  OBVIOUS
<1>1. ASSUME NEW f \in Feed, FeedThread(f) PROVE Inv'
  BY <1>1, OpenStep, CallbackStep DEF FeedThread
<1>2. ASSUME NEW f \in Feed, Lose(f) \/ \E p \in Price : Arrive(f, p) PROVE Inv'
  BY <1>2, LoseStep, ArriveStep
<1>3. CASE Rollover
  BY <1>3, LoopStep, SwitchStep, RowStep DEF Rollover
<1>4. CASE BucketBegins \/ Signal \/ Tick
  BY <1>4, LoopStep
<1>5. CASE Shutdown
  BY <1>5, ShutdownStep
<1>6. CASE WriterThread \/ WaitEnds
  BY <1>6, WriterStep
<1>7. CASE UNCHANGED vars
  BY <1>7, StutterStep
<1> QED BY <1>1, <1>2, <1>3, <1>4, <1>5, <1>6, <1>7 DEF Next

(* The program's state at every moment: where a row is, and who is left to     *)
(* bring one (FileInv, StopInv), whatever the feeds and the writer do.         *)
THEOREM InvCorrect == Spec => []Inv
BY Start, Step, PTL DEF Spec

(* Every variable keeps to its type, the queue to its limit, and the writer    *)
(* sleeps on no row (TypeOK).                                                  *)
THEOREM TypeCorrect == Spec => []TypeOK
<1>1. Inv => TypeOK
  <2> SUFFICES ASSUME Inv PROVE TypeOK
    OBVIOUS
  <2>1. File!TypeOK /\ File!Bounded /\ File!NoneSleepsOnWork
    BY DEF Inv, FileInv, AllRows, File!TypeOK, File!Bounded, File!NoneSleepsOnWork
  <2>2. hot.epoch \in Bucket /\ hot.sigma \in Bucket \union {NoBucket}
    BY DEF Inv, MainInv
  <2> QED BY <2>1, <2>2 DEF Inv, MainInv, FeedInv, Midway, TypeOK
<1> QED BY <1>1, InvCorrect, PTL

(* Every row the callbacks and the main thread hand over is in the file when   *)
(* the program exits, once and in order (NothingLost).                         *)
THEOREM NothingLostCorrect == Spec => []NothingLost
<1>1. Inv => NothingLost
  <2> SUFFICES ASSUME Inv PROVE NothingLost
    OBVIOUS
  <2>1. ASSUME returned PROVE file = accepted
    <3>1. held = <<>> /\ queue = <<>> /\ file \in Seq(AllRows)
      BY <2>1 DEF Inv, FileInv
    <3> QED BY <3>1, ConcatEmptySeq DEF Inv, FileInv
  <2> QED BY <2>1 DEF Inv, FileInv, StopInv, NothingLost, File!InOrder
<1> QED BY <1>1, InvCorrect, PTL
----------------------------------------------------------------------------
(* The markets.  A rollover goes forward; tokens change before labels do, and  *)
(* labels before the view and the row.                                         *)

Tokens == {"unsubscribe", "token", "snapshot", "subscribe"}
Labels == {"context", "view", "row"}

Labelled ==
  /\ pc \in Tokens \union Labels => active < target
  /\ \A f \in Feed : active <= label[f] /\ label[f] <= token[f]
  /\ pc \notin Labels => \A f \in Feed : label[f] = active
  /\ pc = "context" /\ turn = "down" => label["up"] = target
  /\ pc \in {"view", "row"} => \A f \in Feed : label[f] = target
  /\ pc \in {"snapshot", "subscribe"} => token[turn] = target
  /\ pc \in Tokens /\ turn = "down" => token["up"] = target
  /\ pc \in Labels => \A f \in Feed : token[f] = target
(* A quote on its way was labelled no later than its feed is now.              *)
Underway ==
  \A f \in Feed : at[f] \in Midway => /\ quote[f].epoch <= label[f]
                                      /\ quote[f].epoch <= quote[f].token
Viewed ==
  ~takenBack =>
    /\ pc \notin Labels => hot.epoch = active /\ hot.sigma \in {active, NoBucket}
    /\ pc = "row" => hot.epoch = target /\ hot.sigma \in {target, NoBucket}
(* No rollover row is ahead of the market followed, and a feed that has filed  *)
(* one quote behind a rollover has no second one on its way.                   *)
Filed ==
  \A i \in 1..Len(accepted) :
    IF IsRollover(accepted[i])
    THEN /\ accepted[i].rollover <= active
         /\ \A f \in Feed :
              /\ \A j, k \in Late(f, i) : j = k
              /\ at[f] \in {"calling", "storing"} /\ Late(f, i) # {} =>
                   accepted[i].rollover <= quote[f].epoch
    ELSE accepted[i].epoch <= accepted[i].token

MarketInv == Labelled /\ Underway /\ Viewed /\ Filed

LEMMA MarketStart == Init => MarketInv
<1> SUFFICES ASSUME Init PROVE MarketInv
  OBVIOUS
<1>1. Labelled /\ Underway /\ Viewed
  BY DEF Init, FeedInit, Labelled, Underway, Viewed, Tokens, Labels, Midway
<1>2. accepted = <<>>
  BY DEF Init, File!Init
<1>3. Filed
  BY <1>2 DEF Filed
<1> QED BY <1>1, <1>3 DEF MarketInv

LEMMA Numbers ==
  ASSUME Inv
  PROVE  /\ active \in Nat /\ target \in Nat /\ now \in Nat
         /\ \A f \in Feed : label[f] \in Nat /\ token[f] \in Nat
BY RecordingAssumption DEF Inv, MainInv, FeedInv, Bucket

LEMMA QuoteNumbers ==
  ASSUME Inv, NEW f \in Feed, at[f] \in Midway
  PROVE  quote[f] \in Quotes /\ quote[f].epoch \in Nat /\ quote[f].token \in Nat
<1>1. quote[f] \in Quotes
  BY DEF Inv, FeedInv
<1> QED BY <1>1, RecordingAssumption DEF Quotes, Bucket

(* Steps that move nothing labels speak of.                                    *)
LEMMA LabelledAlong ==
  ASSUME Labelled, UNCHANGED <<pc, turn, active, target, label, token>>
  PROVE  Labelled'
BY DEF Labelled

LEMMA LabelledStep ==
  ASSUME Inv, Labelled, Next
  PROVE  Labelled'
<1> USE Numbers, FeedNames
<1>1. ASSUME NEW f \in Feed, FeedThread(f) \/ Lose(f) \/ \E p \in Price : Arrive(f, p)
      PROVE  UNCHANGED <<pc, turn, active, target, label, token>>
  <2>1. CASE FeedThread(f)
    BY <2>1 DEF FeedThread, Socket, Open, SendSnapshot, Remember, HotQuote, StoreQuote, main
  <2>2. CASE Lose(f)
    BY <2>2 DEF Lose, Drop, main
  <2>3. CASE \E p \in Price : Arrive(f, p)
    BY <2>3 DEF Arrive, Receive, main
  <2> QED BY <1>1, <2>1, <2>2, <2>3
<1>2. CASE WriterThread \/ WaitEnds \/ BucketBegins \/ Signal \/ Tick
  BY <1>2, LabelledAlong DEF WriterThread, WaitEnds, BucketBegins, Signal, Tick, main, feed
<1>3. CASE Look \/ FindFails
  <2>1. pc \notin Tokens \union Labels /\ pc' \notin Tokens \union Labels
        /\ UNCHANGED <<active, target, label, token>>
    BY <1>3 DEF Look, FindFails, Moves, Tokens, Labels, feed
  <2> QED BY <2>1 DEF Labelled, Tokens, Labels
<1>4. CASE Find
  <2>1. pc = "find" /\ pc' = "unsubscribe" /\ UNCHANGED <<turn, active, label, token>>
    BY <1>4 DEF Find, Moves, feed
  <2>2. active < target' /\ turn = "up"
    BY <1>4, <2>1 DEF Find, Found, Inv, MainInv, StopInv, Twofold
  <2> QED BY <2>1, <2>2 DEF Labelled, Tokens, Labels
<1>5. CASE Switch
  <2>1. turn \in Feed /\ active < target /\ UNCHANGED <<active, target, label>>
        /\ pc \in Tokens
    BY <1>5 DEF Inv, MainInv, Labelled, Switch, Unsubscribe, SetToken, SetSnapshot, Subscribe,
                Tokens, Moves, ForBoth
  <2>2. CASE Moves("unsubscribe", "token") /\ Unsubscribe(turn)
    <3>1. UNCHANGED token
      BY <2>2 DEF Unsubscribe
    <3> QED BY <2>1, <2>2, <3>1 DEF Labelled, Moves, Tokens, Labels
  <2>3. CASE Moves("token", "snapshot") /\ SetToken(turn, target)
    <3>1. token' = [token EXCEPT ![turn] = target] /\ token \in [Feed -> Bucket]
      BY <2>3 DEF Inv, FeedInv, SetToken
    <3>2. \A f \in Feed : label[f] = active
      BY <2>1 DEF Labelled, Tokens, Labels
    <3>3. \A f \in Feed : active <= label'[f] /\ label'[f] <= token'[f]
      BY <2>1, <3>1, <3>2 DEF Labelled
    <3> QED BY <2>1, <2>3, <3>1, <3>2, <3>3 DEF Labelled, Moves, Tokens, Labels
  <2>4. CASE Moves("snapshot", "subscribe") /\ SetSnapshot(turn, target)
    <3>1. UNCHANGED token
      BY <2>4 DEF SetSnapshot
    <3> QED BY <2>1, <2>4, <3>1 DEF Labelled, Moves, Tokens, Labels
  <2>5. CASE ForBoth("subscribe", "unsubscribe", "context") /\ Subscribe(turn, target)
    <3>1. pc = "subscribe" /\ UNCHANGED token
      BY <2>5 DEF Subscribe, ForBoth
    <3>2. token[turn] = target
      BY <3>1 DEF Labelled
    <3>3. CASE turn = "up"
      <4>1. pc' = "unsubscribe" /\ turn' = "down"
        BY <2>5, <3>3 DEF ForBoth
      <4> QED BY <2>1, <3>1, <3>2, <3>3, <4>1 DEF Labelled, Tokens, Labels
    <3>4. CASE turn = "down"
      <4>1. pc' = "context" /\ turn' = "up"
        BY <2>5, <3>4 DEF ForBoth
      <4>2. \A f \in Feed : token[f] = target
        BY <3>1, <3>2, <3>4 DEF Labelled, Tokens
      <4> QED BY <2>1, <3>1, <4>1, <4>2 DEF Labelled, Tokens, Labels
    <3> QED BY <2>1, <3>3, <3>4
  <2> QED BY <1>5, <2>2, <2>3, <2>4, <2>5 DEF Switch
<1>6. CASE SetContext
  <2>1. /\ pc = "context" /\ turn \in Feed /\ UNCHANGED <<active, target, token>>
        /\ label' = [label EXCEPT ![turn] = target] /\ label \in [Feed -> Bucket]
    BY <1>6 DEF Inv, MainInv, FeedInv, SetContext, ForBoth, SetMarketContext
  <2>2. active < target /\ \A f \in Feed : token[f] = target
    BY <2>1 DEF Labelled, Tokens, Labels
  <2>3. \A f \in Feed : active <= label'[f] /\ label'[f] <= token'[f]
    BY <2>1, <2>2 DEF Labelled
  <2>4. CASE turn = "up"
    <3>1. pc' = "context" /\ turn' = "down"
      BY <1>6, <2>4 DEF SetContext, ForBoth
    <3> QED BY <2>1, <2>2, <2>3, <2>4, <3>1 DEF Labelled, Tokens, Labels
  <2>5. CASE turn = "down"
    <3>1. pc' = "view" /\ turn' = "up"
      BY <1>6, <2>5 DEF SetContext, ForBoth
    <3>2. \A f \in Feed : label'[f] = target
      BY <2>1, <2>5 DEF Labelled
    <3> QED BY <2>1, <2>2, <2>3, <3>1, <3>2 DEF Labelled, Tokens, Labels
  <2> QED BY <2>1, <2>4, <2>5
<1>7. CASE HotRollover
  <2>1. pc = "view" /\ pc' = "row" /\ UNCHANGED <<turn, active, target, label, token>>
    BY <1>7 DEF HotRollover, Moves, feed
  <2> QED BY <2>1 DEF Labelled, Tokens, Labels
<1>8. CASE StoreRollover
  <2>1. pc = "row" /\ UNCHANGED <<turn, target, label, token>>
    BY <1>8 DEF StoreRollover, feed
  <2>2. CASE pc' = "loop" /\ active' = target
    BY <2>1, <2>2 DEF Labelled, Tokens, Labels
  <2>3. CASE UNCHANGED <<pc, active>>
    BY <2>1, <2>3, LabelledAlong
  <2> QED BY <1>8, <2>2, <2>3 DEF StoreRollover
<1>9. CASE Shutdown
  <2>1. pc \in {"loop", "stop", "close", "join"} /\ pc' \in {"stop", "close", "join", "exited"}
        /\ UNCHANGED <<active, target, label, token>>
    BY <1>9 DEF Shutdown, Leave, CloseFeed, CloseFile, Exit, Moves, ForBoth, StopFeed, feed
  <2> QED BY <2>1 DEF Labelled, Tokens, Labels
<1> QED BY <1>1, <1>2, <1>3, <1>4, <1>5, <1>6, <1>7, <1>8, <1>9, LabelledAlong DEF Next, Rollover
(* Labels only grow.                                                           *)
LEMMA LabelsGrow ==
  ASSUME Inv, Labelled, Next, NEW f \in Feed
  PROVE  label[f] <= label'[f]
<1> USE Numbers, FeedNames
<1>1. CASE SetContext
  <2>1. label' = [label EXCEPT ![turn] = target] /\ label \in [Feed -> Bucket] /\ turn \in Feed
        /\ pc = "context"
    BY <1>1 DEF Inv, MainInv, FeedInv, SetContext, ForBoth, SetMarketContext
  <2>2. label[f] <= token[f] /\ token[f] = target
    BY <2>1 DEF Labelled, Labels
  <2> QED BY <2>1, <2>2
<1>2. CASE UNCHANGED label
  BY <1>2
<1>3. SetContext \/ UNCHANGED label
  <2>1. ASSUME NEW g \in Feed, FeedThread(g) \/ Lose(g) \/ \E p \in Price : Arrive(g, p)
        PROVE  UNCHANGED label
    <3>1. CASE FeedThread(g)
      BY <3>1 DEF FeedThread, Socket, Open, SendSnapshot, Remember, HotQuote, StoreQuote
    <3>2. CASE Lose(g) \/ \E p \in Price : Arrive(g, p)
      BY <3>2 DEF Lose, Drop, Arrive, Receive
    <3> QED BY <2>1, <3>1, <3>2
  <2>2. CASE WriterThread \/ WaitEnds \/ BucketBegins \/ Signal \/ Tick
    BY <2>2 DEF WriterThread, WaitEnds, BucketBegins, Signal, Tick, feed
  <2>3. CASE Look \/ Find \/ FindFails \/ HotRollover \/ StoreRollover
    BY <2>3 DEF Look, Find, FindFails, HotRollover, StoreRollover, feed
  <2>4. CASE Switch
    BY <2>4 DEF Switch, Unsubscribe, SetToken, SetSnapshot, Subscribe
  <2>5. CASE Shutdown
    BY <2>5 DEF Shutdown, Leave, CloseFeed, CloseFile, Exit, StopFeed, feed
  <2> QED BY <2>1, <2>2, <2>3, <2>4, <2>5 DEF Next, Rollover
<1> QED BY <1>1, <1>2, <1>3

(* A feed reads a quote of its token under its label; nothing else gives a     *)
(* feed a quote to pass on.                                                    *)
LEMMA QuotesStay ==
  ASSUME Inv, Next, NEW f \in Feed, at'[f] \in Midway
  PROVE  \/ /\ at[f] \in Midway /\ quote'[f] = quote[f]
            /\ at[f] = "called" => at'[f] = "called"
         \/ /\ at[f] = "reading" /\ at'[f] = "calling" /\ label[f] = quote'[f].epoch
            /\ quote'[f].token = token[f] /\ UNCHANGED <<accepted, active, label>>
<1>1. at \in [Feed -> {"reading", "subscribing"} \union Midway] /\ quote \in [Feed -> Quotes \union {None}]
  BY DEF Inv, FeedInv
<1>2. CASE UNCHANGED <<at, quote>>
  BY <1>2
<1>3. ASSUME NEW g \in Feed, NEW p \in Price, Arrive(g, p)
      PROVE  \/ /\ at[f] \in Midway /\ quote'[f] = quote[f]
                /\ at[f] = "called" => at'[f] = "called"
             \/ /\ at[f] = "reading" /\ at'[f] = "calling" /\ label[f] = quote'[f].epoch
                /\ quote'[f].token = token[f] /\ UNCHANGED <<accepted, active, label>>
  <2>1. PICK t \in Bucket : Receive(g, t, p)
    BY <1>3 DEF Arrive
  <2>2. UNCHANGED <<accepted, active, label>>
    BY <1>3 DEF Arrive, Receive, main, filing
  <2>3. CASE Fresh(g, t, p) /\ f = g
    <3>1. quote'[f] = [token |-> t, epoch |-> label[f], price |-> p] /\ t = token[f]
          /\ at[f] = "reading" /\ at'[f] = "calling"
      BY <1>1, <2>1, <2>3 DEF Receive, Goes, Fresh
    <3> QED BY <2>2, <3>1
  <2>4. CASE ~(Fresh(g, t, p) /\ f = g)
    BY <1>1, <2>1, <2>4 DEF Receive, Goes, Midway
  <2> QED BY <2>3, <2>4
<1>4. ASSUME NEW g \in Feed, FeedThread(g)
      PROVE  /\ at[f] \in Midway /\ quote'[f] = quote[f]
             /\ at[f] = "called" => at'[f] = "called"
  <2>1. CASE Open(g) \/ SendSnapshot(g) \/ Remember(g)
    BY <1>1, <2>1 DEF Open, SendSnapshot, Remember, Goes, Midway
  <2>2. CASE HotQuote(g) \/ StoreQuote(g)
    BY <1>1, <2>2 DEF HotQuote, StoreQuote, Goes, Midway
  <2> QED BY <1>4, <2>1, <2>2 DEF FeedThread, Socket
<1>5. \/ UNCHANGED <<at, quote>>
      \/ \E g \in Feed : FeedThread(g) \/ \E p \in Price : Arrive(g, p)
  <2>1. CASE WriterThread \/ WaitEnds \/ BucketBegins \/ Signal \/ Tick
    BY <2>1 DEF WriterThread, WaitEnds, BucketBegins, Signal, Tick, feed
  <2>2. CASE Rollover
    BY <2>2 DEF Rollover, Look, Find, FindFails, Switch, SetContext, HotRollover, StoreRollover,
                Unsubscribe, SetToken, SetSnapshot, Subscribe, SetMarketContext, feed
  <2>3. CASE Shutdown
    BY <2>3 DEF Shutdown, Leave, CloseFeed, CloseFile, Exit, StopFeed, feed
  <2>4. ASSUME NEW g \in Feed, Lose(g) PROVE UNCHANGED <<at, quote>>
    BY <2>4 DEF Lose, Drop
  <2> QED BY <2>1, <2>2, <2>3, <2>4 DEF Next
<1> QED BY <1>2, <1>3, <1>4, <1>5

LEMMA UnderwayStep ==
  ASSUME Inv, Labelled, Underway, Next
  PROVE  Underway'
<1> SUFFICES ASSUME NEW f \in Feed, at'[f] \in Midway
             PROVE  quote'[f].epoch <= label'[f] /\ quote'[f].epoch <= quote'[f].token
  BY DEF Underway
<1>1. label[f] <= label'[f] /\ label[f] \in Nat /\ label'[f] \in Nat /\ token[f] \in Nat
  <2>1. Inv'
    BY Step
  <2>2. label'[f] \in Nat
    BY <2>1, RecordingAssumption DEF Inv, FeedInv, Bucket
  <2> QED BY <2>2, LabelsGrow, Numbers
<1>2. CASE at[f] \in Midway /\ quote'[f] = quote[f]
  BY <1>1, <1>2, QuoteNumbers DEF Underway
<1>3. CASE label[f] = quote'[f].epoch /\ quote'[f].token = token[f] /\ UNCHANGED label
  BY <1>1, <1>3 DEF Labelled
<1> QED BY <1>2, <1>3, QuotesStay
LEMMA ViewedStep ==
  ASSUME Inv, Labelled, Underway, Viewed, Next
  PROVE  Viewed'
<1> SUFFICES ASSUME ~takenBack' PROVE Viewed'
  BY DEF Viewed
<1>1. ASSUME NEW f \in Feed, HotQuote(f) PROVE Viewed'
  <2>1. at[f] \in Midway /\ hot' = [hot EXCEPT !.epoch = quote[f].epoch]
        /\ takenBack' = (takenBack \/ quote[f].epoch < hot.epoch)
        /\ UNCHANGED <<pc, active, target>>
    BY <1>1 DEF HotQuote, Midway, main
  <2>2. ~takenBack /\ ~(quote[f].epoch < hot.epoch)
    BY <2>1
  <2>3. quote[f].epoch <= label[f] /\ quote[f].epoch \in Nat /\ label[f] \in Nat
        /\ active \in Nat /\ target \in Nat
    BY <2>1, QuoteNumbers, Numbers DEF Underway
  <2>4. ASSUME pc \notin Labels PROVE hot' = hot
    <3>1. hot.epoch = active /\ label[f] = active
      BY <2>2, <2>4 DEF Viewed, Labelled
    <3>2. quote[f].epoch = hot.epoch
      BY <2>2, <2>3, <3>1
    <3> QED BY <2>1, <3>2 DEF Inv, MainInv
  <2>5. ASSUME pc = "row" PROVE hot' = hot
    <3>1. hot.epoch = target /\ label[f] = target
      BY <2>2, <2>5 DEF Viewed, Labelled
    <3>2. quote[f].epoch = hot.epoch
      BY <2>2, <2>3, <3>1
    <3> QED BY <2>1, <3>2 DEF Inv, MainInv
  <2> QED BY <2>1, <2>2, <2>4, <2>5 DEF Viewed
<1>2. CASE HotRollover
  <2>1. pc' = "row" /\ hot' = [epoch |-> target, sigma |-> NoBucket] /\ UNCHANGED target
    BY <1>2 DEF HotRollover, Moves
  <2> QED BY <2>1 DEF Viewed, Labels
<1>3. CASE Tick
  <2>1. hot' = [hot EXCEPT !.sigma = hot.epoch] /\ UNCHANGED <<takenBack, pc, active, target>>
    BY <1>3 DEF Tick, main
  <2>2. hot'.epoch = hot.epoch /\ hot'.sigma = hot.epoch
    BY <2>1 DEF Inv, MainInv
  <2> QED BY <2>1, <2>2 DEF Viewed
<1>4. CASE StoreRollover
  <2>1. pc = "row" /\ UNCHANGED <<hot, takenBack, target>>
        /\ \/ pc' = "loop" /\ active' = target
           \/ UNCHANGED <<pc, active>>
    BY <1>4 DEF StoreRollover, view
  <2> QED BY <2>1 DEF Viewed, Labels
<1>5. ASSUME UNCHANGED <<hot, takenBack, active>>, pc' \in Labels => pc' \in {"context", "view"},
             pc \notin Labels \/ pc' \in Labels
      PROVE  Viewed'
  BY <1>5 DEF Viewed, Labels
<1>6. ASSUME UNCHANGED <<hot, takenBack, main>> PROVE Viewed'
  BY <1>6 DEF Viewed, main
<1>7. CASE WriterThread \/ WaitEnds \/ BucketBegins \/ Signal
  BY <1>6, <1>7 DEF WriterThread, WaitEnds, BucketBegins, Signal, view
<1>8. CASE Look \/ Find \/ FindFails \/ Switch \/ SetContext
  BY <1>5, <1>8, FeedNames DEF Look, Find, FindFails, Switch, SetContext, Moves, ForBoth, Labels, view
<1>9. CASE Shutdown
  BY <1>5, <1>9 DEF Shutdown, Leave, CloseFeed, CloseFile, Exit, Moves, ForBoth, Labels, view
<1>10. ASSUME NEW f \in Feed, FeedThread(f) \/ Lose(f) \/ \E p \in Price : Arrive(f, p), ~HotQuote(f)
       PROVE  Viewed'
  BY <1>6, <1>10 DEF FeedThread, StoreQuote, Lose, Arrive, view
<1> QED BY <1>1, <1>2, <1>3, <1>4, <1>7, <1>8, <1>9, <1>10 DEF Next, Rollover, FeedThread
----------------------------------------------------------------------------
(* What was filed where.                                                       *)

LEMMA RowKinds ==
  /\ \A row \in QuoteRow : ~IsRollover(row)
  /\ \A row \in RolloverRow : IsRollover(row) /\ row.rollover \in Bucket
  /\ \A row \in AllRows : IsRollover(row) \/ row \in QuoteRow
<1>1. ASSUME NEW row \in QuoteRow, IsRollover(row) PROVE FALSE
  <2>1. DOMAIN row = {"feed", "token", "epoch", "price"}
    BY DEF QuoteRow
  <2>2. DOMAIN row = {"rollover"}
    BY <1>1 DEF IsRollover, RolloverRow
  <2>3. "feed" \in {"feed", "token", "epoch", "price"} /\ "feed" \notin {"rollover"}
    OBVIOUS
  <2> QED BY <2>1, <2>2, <2>3
<1> QED BY <1>1 DEF IsRollover, RolloverRow, AllRows

(* One more row is late at most behind the rollovers before it.                *)
LEMMA LateGrows ==
  ASSUME Inv, NEW row \in AllRows, accepted' = Append(accepted, row), NEW f \in Feed
  PROVE  /\ Len(accepted) \in Nat /\ Len(accepted') = Len(accepted) + 1
         /\ accepted'[Len(accepted) + 1] = row
         /\ \A i \in 1..Len(accepted) : accepted'[i] = accepted[i]
         /\ \A i \in Nat : i = Len(accepted) + 1 => Late(f, i)' = {}
         /\ \A i \in 1..Len(accepted) :
              Late(f, i)' = IF ~IsRollover(row) /\ row.feed = f /\ row.epoch < accepted[i].rollover
                            THEN Late(f, i) \union {Len(accepted) + 1} ELSE Late(f, i)
<1> DEFINE n == Len(accepted)
<1>1. accepted \in Seq(AllRows) /\ n \in Nat
  BY DEF Inv, FileInv
<1>2. Len(accepted') = n + 1 /\ accepted'[n + 1] = row
      /\ \A i \in 1..n : accepted'[i] = accepted[i]
  BY <1>1
<1>3. \A i \in Nat : i = n + 1 => Late(f, i)' = {}
  BY <1>1, <1>2 DEF Late
<1>4. ASSUME NEW i \in 1..n
      PROVE  Late(f, i)' = IF ~IsRollover(row) /\ row.feed = f /\ row.epoch < accepted[i].rollover
                           THEN Late(f, i) \union {n + 1} ELSE Late(f, i)
  <2>1. accepted'[i] = accepted[i]
    BY <1>2
  <2>2. i + 1..n + 1 = (i + 1..n) \union {n + 1} /\ n + 1 \notin i + 1..n
    BY <1>1
  <2>3. \A j \in i + 1..n : accepted'[j] = accepted[j]
    BY <1>1, <1>2
  <2>4. Late(f, i)' = {j \in (i + 1..n) \union {n + 1} :
                         /\ ~IsRollover(accepted'[j]) /\ accepted'[j].feed = f
                         /\ accepted'[j].epoch < accepted[i].rollover}
    BY <1>2, <2>1, <2>2 DEF Late, IsRollover
  <2> QED BY <1>2, <2>2, <2>3, <2>4 DEF Late
<1> QED BY <1>1, <1>2, <1>3, <1>4
(* The market followed only moves forward.                                     *)
LEMMA ActiveGrows ==
  ASSUME Inv, Labelled, Next
  PROVE  active' \in Nat /\ active <= active'
<1>1. Inv'
  BY Step
<1>2. active' \in Nat
  BY <1>1, RecordingAssumption DEF Inv, MainInv, Bucket
<1>3. UNCHANGED active \/ (pc = "row" /\ active' = target)
  <2>1. ASSUME NEW f \in Feed, FeedThread(f) \/ Lose(f) \/ \E p \in Price : Arrive(f, p)
        PROVE  UNCHANGED active
    BY <2>1 DEF FeedThread, HotQuote, StoreQuote, Lose, Arrive, main
  <2>2. CASE WriterThread \/ WaitEnds \/ BucketBegins \/ Signal \/ Tick
    BY <2>2 DEF WriterThread, WaitEnds, BucketBegins, Signal, Tick, main
  <2>3. CASE Rollover
    BY <2>3 DEF Rollover, Look, Find, FindFails, Switch, SetContext, HotRollover, StoreRollover
  <2>4. CASE Shutdown
    BY <2>4 DEF Shutdown, Leave, CloseFeed, CloseFile, Exit
  <2> QED BY <2>1, <2>2, <2>3, <2>4 DEF Next
<1> QED BY <1>2, <1>3, Numbers DEF Labelled, Labels

LEMMA FiledAlong ==
  ASSUME Inv, Labelled, Filed, Next, UNCHANGED accepted
  PROVE  Filed'
<1> SUFFICES ASSUME NEW i \in 1..Len(accepted), IsRollover(accepted[i])
             PROVE  /\ accepted[i].rollover <= active'
                    /\ \A f \in Feed :
                         at'[f] \in {"calling", "storing"} /\ Late(f, i) # {} =>
                           accepted[i].rollover <= quote'[f].epoch
  BY DEF Filed, Late, IsRollover
<1>1. accepted[i].rollover <= active /\ accepted[i].rollover \in Nat
  BY RowKinds, RecordingAssumption DEF Filed, Inv, FileInv, IsRollover, Bucket
<1>2. accepted[i].rollover <= active'
  BY <1>1, ActiveGrows, Numbers
<1>3. ASSUME NEW f \in Feed, at'[f] \in {"calling", "storing"}, Late(f, i) # {}
      PROVE  accepted[i].rollover <= quote'[f].epoch
  <2>1. CASE at[f] \in Midway /\ quote'[f] = quote[f] /\ at[f] # "called"
    BY <1>3, <2>1 DEF Filed, Midway
  <2>2. CASE quote'[f].epoch = label[f]
    BY <1>1, <2>2, Numbers DEF Labelled
  <2>3. at'[f] \in Midway /\ at'[f] # "called"
    BY <1>3 DEF Midway
  <2> QED BY <2>1, <2>2, <2>3, QuotesStay
<1> QED BY <1>2, <1>3

LEMMA FiledQuote ==
  ASSUME Inv, Labelled, Underway, Filed, NEW g \in Feed, StoreQuote(g),
         File!Enqueue(g, QuoteOf(g)), Goes(g, "called")
  PROVE  Filed'
<1> DEFINE row == QuoteOf(g)
<1>1. at[g] = "storing" /\ at[g] \in Midway /\ ~stopped
  BY DEF StoreQuote, Midway, Inv, StopInv
<1>2. /\ row \in QuoteRow /\ row.feed = g /\ row.epoch = quote[g].epoch
      /\ row.epoch <= row.token /\ row.epoch \in Nat
  BY <1>1, QuoteNumbers DEF QuoteOf, QuoteRow, Quotes, Underway
<1>3. accepted' = Append(accepted, row) /\ UNCHANGED <<quote, active>>
      /\ at' = [at EXCEPT ![g] = "called"] /\ at \in [Feed -> {"reading", "subscribing"} \union Midway]
  BY <1>1 DEF StoreQuote, File!Enqueue, Goes, main, Inv, FeedInv
<1>4. row \in AllRows /\ ~IsRollover(row)
  BY <1>2, RowKinds DEF AllRows
<1> HIDE DEF row
<1>5. /\ Len(accepted) \in Nat /\ Len(accepted') = Len(accepted) + 1
      /\ accepted'[Len(accepted) + 1] = row
      /\ \A i \in 1..Len(accepted) : accepted'[i] = accepted[i]
  BY <1>3, <1>4, LateGrows, FeedNames
<1>6. ASSUME NEW i \in 1..Len(accepted), IsRollover(accepted[i]), NEW f \in Feed
      PROVE  /\ \A j, k \in Late(f, i)' : j = k
             /\ at'[f] \in {"calling", "storing"} /\ Late(f, i)' # {} =>
                  accepted[i].rollover <= quote'[f].epoch
  <2>1. CASE f = g
    <3>1. at'[f] = "called"
      BY <1>3, <2>1
    <3>2. CASE Late(f, i) # {}
      <4>1. accepted[i].rollover <= row.epoch
        BY <1>1, <1>2, <1>6, <2>1, <3>2 DEF Filed
      <4>2. accepted[i].rollover \in Nat
        BY <1>6, RowKinds, RecordingAssumption DEF IsRollover, Bucket
      <4>3. ~(row.epoch < accepted[i].rollover)
        BY <1>2, <4>1, <4>2
      <4>4. Late(f, i)' = Late(f, i)
        BY <1>3, <1>4, <4>3, LateGrows
      <4> QED BY <1>6, <3>1, <4>4 DEF Filed
    <3>3. CASE Late(f, i) = {}
      <4>1. Late(f, i)' \subseteq {Len(accepted) + 1}
        BY <1>3, <1>4, <3>3, LateGrows
      <4> QED BY <3>1, <4>1
    <3> QED BY <3>2, <3>3
  <2>2. CASE f # g
    <3>1. Late(f, i)' = Late(f, i)
      BY <1>2, <1>3, <1>4, <2>2, LateGrows
    <3>2. at'[f] = at[f]
      BY <1>3, <2>2
    <3> QED BY <1>3, <1>6, <3>1, <3>2 DEF Filed
  <2> QED BY <2>1, <2>2
<1>7. ASSUME NEW i \in 1..Len(accepted')
      PROVE  IF IsRollover(accepted'[i])
             THEN /\ accepted'[i].rollover <= active'
                  /\ \A f \in Feed :
                       /\ \A j, k \in Late(f, i)' : j = k
                       /\ at'[f] \in {"calling", "storing"} /\ Late(f, i)' # {} =>
                            accepted'[i].rollover <= quote'[f].epoch
             ELSE accepted'[i].epoch <= accepted'[i].token
  <2>1. CASE i = Len(accepted) + 1
    BY <1>2, <1>4, <1>5, <2>1
  <2>2. CASE i \in 1..Len(accepted)
    <3>1. accepted'[i] = accepted[i]
      BY <1>5, <2>2
    <3>2. CASE IsRollover(accepted[i])
      BY <1>3, <1>6, <2>2, <3>1, <3>2 DEF Filed
    <3>3. CASE ~IsRollover(accepted[i])
      BY <2>2, <3>1, <3>3 DEF Filed
    <3> QED BY <3>2, <3>3
  <2> QED BY <1>5, <2>1, <2>2
<1> QED BY <1>7 DEF Filed, IsRollover

LEMMA FiledRollover ==
  ASSUME Inv, Labelled, Filed, StoreRollover, File!Enqueue(Main, [rollover |-> target]),
         active' = target
  PROVE  Filed'
<1> DEFINE row == [rollover |-> target]
<1>1. pc = "row" /\ ~stopped /\ active < target
  BY DEF StoreRollover, Inv, StopInv, Labelled, Labels
<1>2. row \in RolloverRow /\ row.rollover = target
  BY DEF RolloverRow, Inv, MainInv
<1>3. accepted' = Append(accepted, row) /\ UNCHANGED <<quote, at>>
  BY <1>1 DEF StoreRollover, File!Enqueue, feed
<1>4. row \in AllRows /\ IsRollover(row)
  BY <1>2 DEF AllRows, IsRollover
<1> HIDE DEF row
<1>5. /\ Len(accepted) \in Nat /\ Len(accepted') = Len(accepted) + 1
      /\ accepted'[Len(accepted) + 1] = row
      /\ \A i \in 1..Len(accepted) : accepted'[i] = accepted[i]
  BY <1>3, <1>4, LateGrows, FeedNames
<1>6. ASSUME NEW i \in 1..Len(accepted')
      PROVE  IF IsRollover(accepted'[i])
             THEN /\ accepted'[i].rollover <= active'
                  /\ \A f \in Feed :
                       /\ \A j, k \in Late(f, i)' : j = k
                       /\ at'[f] \in {"calling", "storing"} /\ Late(f, i)' # {} =>
                            accepted'[i].rollover <= quote'[f].epoch
             ELSE accepted'[i].epoch <= accepted'[i].token
  <2>1. CASE i = Len(accepted) + 1
    <3>1. \A f \in Feed : Late(f, i)' = {}
      BY <1>3, <1>4, <1>5, <2>1, LateGrows
    <3> QED BY <1>2, <1>4, <1>5, <2>1, <3>1, Numbers
  <2>2. CASE i \in 1..Len(accepted)
    <3>1. accepted'[i] = accepted[i]
      BY <1>5, <2>2
    <3>2. \A f \in Feed : Late(f, i)' = Late(f, i)
      BY <1>3, <1>4, <2>2, LateGrows
    <3>3. CASE IsRollover(accepted[i])
      <4>1. accepted[i].rollover \in Nat
        BY <3>3, RowKinds, RecordingAssumption DEF IsRollover, Bucket
      <4>2. accepted[i].rollover <= active'
        BY <1>1, <2>2, <3>3, <4>1, Numbers DEF Filed
      <4> QED BY <1>3, <2>2, <3>1, <3>2, <3>3, <4>2 DEF Filed
    <3>4. CASE ~IsRollover(accepted[i])
      BY <2>2, <3>1, <3>4 DEF Filed
    <3> QED BY <3>3, <3>4
  <2> QED BY <1>5, <2>1, <2>2
<1> QED BY <1>6 DEF Filed, IsRollover
LEMMA FiledStep ==
  ASSUME Inv, Labelled, Underway, Filed, Next
  PROVE  Filed'
<1>1. CASE UNCHANGED accepted
  BY <1>1, FiledAlong
<1>2. ASSUME NEW f \in Feed, StoreQuote(f) PROVE Filed'
  <2>1. CASE File!Enqueue(f, QuoteOf(f)) /\ Goes(f, "called")
    BY <1>2, <2>1, FiledQuote
  <2>2. CASE File!Wait(f)
    BY <1>1, <2>2 DEF File!Wait
  <2> QED BY <1>2, <2>1, <2>2 DEF StoreQuote
<1>3. CASE StoreRollover
  <2>1. CASE File!Enqueue(Main, [rollover |-> target]) /\ active' = target
    BY <1>3, <2>1, FiledRollover
  <2>2. CASE File!Wait(Main)
    BY <1>1, <2>2 DEF File!Wait
  <2> QED BY <1>3, <2>1, <2>2 DEF StoreRollover
<1>4. ASSUME NEW f \in Feed, FeedThread(f) \/ Lose(f) \/ \E p \in Price : Arrive(f, p), ~StoreQuote(f)
      PROVE  UNCHANGED accepted
  BY <1>4 DEF FeedThread, HotQuote, Lose, Arrive, filing
<1>5. CASE WriterThread \/ WaitEnds
  BY <1>1, <1>5 DEF WriterThread, WaitEnds, File!Run, File!Sleep, File!Take, File!Write,
                    File!Return, File!Spurious
<1>6. CASE BucketBegins \/ Signal \/ Tick
  BY <1>1, <1>6 DEF BucketBegins, Signal, Tick, filing
<1>7. CASE Rollover /\ ~StoreRollover
  BY <1>1, <1>7 DEF Rollover, Look, Find, FindFails, Switch, SetContext, HotRollover, filing
<1>8. CASE Shutdown
  BY <1>1, <1>8 DEF Shutdown, Leave, CloseFeed, CloseFile, Exit, File!Stop, filing
<1> QED BY <1>1, <1>2, <1>3, <1>4, <1>5, <1>6, <1>7, <1>8 DEF Next, FeedThread

LEMMA MarketStutter ==
  ASSUME MarketInv, UNCHANGED vars
  PROVE  MarketInv'
<1>1. UNCHANGED <<pc, turn, active, target, hot, takenBack, label, token, at, quote, accepted>>
  BY DEF vars, main, view, feed, filing
<1> QED BY <1>1 DEF MarketInv, Labelled, Underway, Viewed, Filed, Late, IsRollover

(* At every moment of a rollover, tokens, labels, the view and the rows that   *)
(* are queued or in the file are as far as the main thread has brought them.   *)
THEOREM MarketInvCorrect == Spec => [](Inv /\ MarketInv)
<1>1. Inv /\ MarketInv /\ [Next]_vars => MarketInv'
  BY LabelledStep, UnderwayStep, ViewedStep, FiledStep, MarketStutter DEF MarketInv
<1> QED BY Start, Step, MarketStart, <1>1, PTL DEF Spec

(* After the row that announces a market each feed files at most one more      *)
(* quote under an older market, and none is filed under a market newer than    *)
(* its token (RowsNearTheirMarket).                                            *)
THEOREM RowsCorrect == Spec => []RowsNearTheirMarket
<1>1. Inv /\ MarketInv => RowsNearTheirMarket
  <2> SUFFICES ASSUME Inv, MarketInv, NEW i \in 1..Len(accepted), IsRollover(accepted[i]),
                      NEW f \in Feed
               PROVE  Cardinality(Late(f, i)) <= 1
    BY DEF RowsNearTheirMarket, MarketInv, Filed
  <2>1. \A j, k \in Late(f, i) : j = k
    BY DEF MarketInv, Filed
  <2>2. CASE Late(f, i) = {}
    BY <2>2, FS_EmptySet
  <2>3. CASE Late(f, i) # {}
    <3>1. PICK j : Late(f, i) = {j}
      BY <2>1, <2>3
    <3>2. Cardinality({j}) = 1
      BY FS_Singleton, Zenon
    <3> QED BY <3>1, <3>2
  <2> QED BY <2>2, <2>3
<1> QED BY <1>1, MarketInvCorrect, PTL

(* Between rollovers the view is of the market followed and keeps its sigma,   *)
(* unless a late quote has taken it back (ViewOfBucket).                       *)
THEOREM ViewCorrect == Spec => []ViewOfBucket
<1>1. MarketInv => ViewOfBucket
  BY DEF MarketInv, Viewed, ViewOfBucket, Labels
<1> QED BY <1>1, MarketInvCorrect, PTL
----------------------------------------------------------------------------
(* The tokens: until a feed is switched it has the token of the market         *)
(* followed, so that a switch always brings a token it has not had.            *)
Tokened ==
  /\ pc \notin Tokens \union Labels => \A f \in Feed : token[f] = active
  /\ pc \in {"unsubscribe", "token"} => token[turn] = active
  /\ pc \in Tokens /\ turn = "up" => token["down"] = active

LEMMA TokenedStart == Init => Tokened
BY DEF Init, FeedInit, Tokened, Tokens, Labels

(* Steps that move no token and stay within one phase of the main thread.      *)
LEMMA TokenedStep ==
  ASSUME Inv, Labelled, Tokened, Next
  PROVE  Tokened'
<1> USE FeedNames
<1>1. ASSUME UNCHANGED <<pc, turn, active, token>> PROVE Tokened'
  BY <1>1 DEF Tokened
<1>2. ASSUME NEW f \in Feed, FeedThread(f) \/ Lose(f) \/ \E p \in Price : Arrive(f, p)
      PROVE  UNCHANGED <<pc, turn, active, token>>
  BY <1>2 DEF FeedThread, Socket, Open, SendSnapshot, Remember, HotQuote, StoreQuote, Lose, Drop,
              Arrive, Receive, main
<1>3. CASE WriterThread \/ WaitEnds \/ BucketBegins \/ Signal \/ Tick
  BY <1>1, <1>3 DEF WriterThread, WaitEnds, BucketBegins, Signal, Tick, main, feed
<1>4. CASE Look \/ FindFails
  BY <1>4 DEF Look, FindFails, Moves, Tokened, Tokens, Labels, feed
<1>5. CASE Find
  <2>1. turn = "up"
    BY <1>5 DEF Find, Moves, Inv, MainInv, StopInv, Twofold
  <2> QED BY <1>5, <2>1 DEF Find, Moves, Tokened, Tokens, Labels, feed
<1>6. CASE Switch
  <2>1. UNCHANGED active /\ turn \in Feed /\ token \in [Feed -> Bucket]
    BY <1>6 DEF Switch, Inv, MainInv, FeedInv
  <2>2. CASE Moves("unsubscribe", "token") /\ Unsubscribe(turn)
    BY <2>1, <2>2 DEF Moves, Unsubscribe, Tokened, Tokens, Labels
  <2>3. CASE Moves("token", "snapshot") /\ SetToken(turn, target)
    BY <2>1, <2>3 DEF Moves, SetToken, Tokened, Tokens, Labels
  <2>4. CASE Moves("snapshot", "subscribe") /\ SetSnapshot(turn, target)
    BY <2>1, <2>4 DEF Moves, SetSnapshot, Tokened, Tokens, Labels
  <2>5. CASE ForBoth("subscribe", "unsubscribe", "context") /\ Subscribe(turn, target)
    <3>1. UNCHANGED token /\ pc = "subscribe"
      BY <2>5 DEF ForBoth, Subscribe
    <3>2. CASE turn = "up"
      <4>1. pc' = "unsubscribe" /\ turn' = "down" /\ token["down"] = active
        BY <2>5, <3>1, <3>2 DEF ForBoth, Tokened, Tokens
      <4> QED BY <2>1, <3>1, <4>1 DEF Tokened, Tokens, Labels
    <3>3. CASE turn = "down"
      BY <2>1, <2>5, <3>1, <3>3 DEF ForBoth, Tokened, Tokens, Labels
    <3> QED BY <2>1, <3>2, <3>3
  <2> QED BY <1>6, <2>2, <2>3, <2>4, <2>5 DEF Switch
<1>7. CASE SetContext \/ HotRollover
  BY <1>7 DEF SetContext, HotRollover, SetMarketContext, Moves, ForBoth, Tokened, Tokens, Labels, feed
<1>8. CASE StoreRollover
  <2>1. pc = "row" /\ UNCHANGED <<turn, token>> /\ \A f \in Feed : token[f] = target
    BY <1>8 DEF StoreRollover, feed, Labelled, Labels
  <2> QED BY <1>8, <2>1 DEF StoreRollover, Tokened, Tokens, Labels
<1>9. CASE Shutdown
  <2>1. pc \in {"loop", "stop", "close", "join"} /\ pc' \in {"stop", "close", "join", "exited"}
        /\ UNCHANGED <<active, token>>
    BY <1>9 DEF Shutdown, Leave, CloseFeed, CloseFile, Exit, Moves, ForBoth, StopFeed, feed
  <2> QED BY <2>1 DEF Tokened, Tokens, Labels
<1> QED BY <1>1, <1>2, <1>3, <1>4, <1>5, <1>6, <1>7, <1>8, <1>9 DEF Next, Rollover
----------------------------------------------------------------------------
(* The prices: what a feed remembers of them, and what it has passed on.       *)

PriceOf(p) == [price |-> p]
Reading(f, h) == [token |-> token[f], price |-> h]
HeardTypes ==
  /\ heard \in [Feed -> [token : Bucket, price : Price] \union {None}]
  /\ last \in [Feed -> [price : Price] \union {None}]
  /\ \A f \in Feed : heard[f] # None => heard[f].token <= token[f]
(* A feed remembers only a price it has passed on, of its token; the price on  *)
(* its way is the last one heard, and once the row is stored the last stored.  *)
Passed(f) ==
  /\ at[f] = "called" => LastStored(f, quote[f].token, quote[f].price)
  /\ at[f] # "called" /\ last[f] # None => LastStored(f, token[f], last[f].price)
  /\ at[f] \in Midway /\ quote[f].token # token[f] => last[f] = None
  /\ heard[f] # None /\ heard[f].token = token[f] =>
       IF at[f] \in {"calling", "storing"}
       THEN quote[f].token = heard[f].token /\ quote[f].price = heard[f].price
       ELSE LastStored(f, heard[f].token, heard[f].price)
Heard == HeardTypes /\ \A f \in Feed : Passed(f)

LEMMA NoPriceIsNone ==
  /\ \A p \in Price : [price |-> p] # None /\ [price |-> p].price = p
  /\ None \notin [token : Bucket, price : Price]
<1>1. DOMAIN None = {"none"}
  BY DEF None
<1>2. "none" \notin {"price"} /\ "none" \notin {"token", "price"} /\ "none" \in {"none"}
  OBVIOUS
<1>3. ASSUME NEW p \in Price PROVE [price |-> p] # None
  <2>1. DOMAIN [price |-> p] = {"price"}
    OBVIOUS
  <2> QED BY <1>1, <1>2, <2>1
<1>4. \A h \in [token : Bucket, price : Price] : DOMAIN h = {"token", "price"}
  OBVIOUS
<1>5. None \notin [token : Bucket, price : Price]
  BY <1>1, <1>2, <1>4
<1> QED BY <1>3, <1>5

LEMMA HeardStart == Init => Heard
<1> SUFFICES ASSUME Init PROVE Heard
  OBVIOUS
<1>1. \A f \in Feed : at[f] = "reading" /\ heard[f] = None /\ last[f] = None
  BY DEF Init, FeedInit
<1>2. HeardTypes
  BY <1>1 DEF Init, FeedInit, HeardTypes
<1> QED BY <1>1, <1>2 DEF Heard, Passed, Midway

(* A feed neither itself touched nor filed for keeps what it has passed on.    *)
LEMMA PassedAlong ==
  ASSUME NEW f \in Feed, Passed(f), UNCHANGED accepted, last'[f] \in {last[f], None},
         at'[f] = at[f] \/ (at[f] = "calling" /\ at'[f] = "storing") \/
           {at[f], at'[f]} \subseteq {"reading", "subscribing"},
         quote'[f] = quote[f], heard'[f] = heard[f], token'[f] = token[f]
  PROVE  Passed(f)'
BY DEF Passed, LastStored, StoredOf, IsRollover, Midway

(* The last row stored for a feed is the one just filed for it, or the one it  *)
(* was before.                                                                 *)
LEMMA LastGrows ==
  ASSUME Inv, NEW row \in AllRows, accepted' = Append(accepted, row), NEW f \in Feed
  PROVE  /\ ~IsRollover(row) /\ row.feed = f => LastStored(f, row.token, row.price)'
         /\ IsRollover(row) \/ row.feed # f =>
              \A t \in Bucket, p \in Price : LastStored(f, t, p) => LastStored(f, t, p)'
<1> DEFINE k == Len(accepted)
<1>1. /\ accepted \in Seq(AllRows) /\ k \in Nat /\ Len(accepted') = k + 1 /\ accepted'[k + 1] = row
      /\ \A i \in 1..k : accepted'[i] = accepted[i]
  BY DEF Inv, FileInv
<1>2. StoredOf(f)' = IF ~IsRollover(row) /\ row.feed = f THEN StoredOf(f) \union {k + 1} ELSE StoredOf(f)
  <2>1. 1..k + 1 = (1..k) \union {k + 1} /\ k + 1 \notin 1..k
    BY <1>1
  <2>2. StoredOf(f)' = {i \in (1..k) \union {k + 1} : ~IsRollover(accepted'[i]) /\ accepted'[i].feed = f}
    BY <1>1, <2>1 DEF StoredOf, IsRollover
  <2> QED BY <1>1, <2>1, <2>2 DEF StoredOf
<1>3. StoredOf(f) \subseteq 1..k
  BY DEF StoredOf
<1>4. ASSUME ~IsRollover(row), row.feed = f PROVE LastStored(f, row.token, row.price)'
  <2>1. k + 1 \in StoredOf(f)' /\ \A j \in StoredOf(f)' : j <= k + 1
    BY <1>1, <1>2, <1>3, <1>4
  <2> QED BY <1>1, <2>1 DEF LastStored
<1>5. ASSUME IsRollover(row) \/ row.feed # f, NEW t \in Bucket, NEW p \in Price, LastStored(f, t, p)
      PROVE  LastStored(f, t, p)'
  <2>1. PICK i \in StoredOf(f) : /\ \A j \in StoredOf(f) : j <= i
                                /\ accepted[i].token = t /\ accepted[i].price = p
    BY <1>5 DEF LastStored
  <2>2. StoredOf(f)' = StoredOf(f) /\ accepted'[i] = accepted[i]
    BY <1>1, <1>2, <1>3, <1>5, <2>1
  <2> QED BY <2>1, <2>2 DEF LastStored
<1> QED BY <1>4, <1>5
(* The same while rows of others are filed.                                    *)
LEMMA PassedStored ==
  ASSUME Inv, Heard, NEW f \in Feed, UNCHANGED <<last, quote, heard, token>>, at'[f] = at[f],
         \A t \in Bucket, p \in Price : LastStored(f, t, p) => LastStored(f, t, p)'
  PROVE  Passed(f)'
<1>1. ASSUME at[f] = "called" PROVE LastStored(f, quote[f].token, quote[f].price)'
  <2>1. quote[f] \in Quotes
    BY <1>1 DEF Inv, FeedInv, Midway
  <2> QED BY <1>1, <2>1 DEF Quotes, Heard, Passed
<1>2. ASSUME at[f] # "called", last[f] # None PROVE LastStored(f, token[f], last[f].price)'
  <2>1. token[f] \in Bucket /\ last[f] \in [price : Price]
    BY <1>2 DEF Inv, FeedInv, Heard, HeardTypes
  <2>2. LastStored(f, token[f], last[f].price)
    BY <1>2 DEF Heard, Passed
  <2> QED BY <2>1, <2>2
<1>3. ASSUME heard[f] # None, LastStored(f, heard[f].token, heard[f].price)
      PROVE  LastStored(f, heard[f].token, heard[f].price)'
  <2>1. heard[f] \in [token : Bucket, price : Price]
    BY <1>3 DEF Heard, HeardTypes
  <2> QED BY <1>3, <2>1
<1>4. at[f] \in Midway /\ quote[f].token # token[f] => last[f] = None
  BY DEF Heard, Passed
<1>5. heard[f] # None /\ heard[f].token = token[f] =>
        IF at[f] \in {"calling", "storing"}
        THEN quote[f].token = heard[f].token /\ quote[f].price = heard[f].price
        ELSE LastStored(f, heard[f].token, heard[f].price)
  BY DEF Heard, Passed
<1> QED BY <1>1, <1>2, <1>3, <1>4, <1>5 DEF Passed

(* Between the rows: the socket, the messages, the main thread.                *)
LEMMA HeardAlong ==
  ASSUME Heard, UNCHANGED <<accepted, last, at, quote, heard, token>>
  PROVE  Heard'
BY PassedAlong DEF Heard, HeardTypes

LEMMA HeardSocket ==
  ASSUME Inv, Heard, NEW g \in Feed, UNCHANGED <<main, filing>>,
         Socket(g) \/ HotQuote(g) \/ Lose(g)
  PROVE  Heard'
<1>1. UNCHANGED <<accepted, heard, token>>
  BY DEF Socket, Open, SendSnapshot, Remember, HotQuote, Lose, Drop, filing
<1>2. /\ at \in [Feed -> {"reading", "subscribing"} \union Midway]
      /\ last \in [Feed -> [price : Price] \union {None}]
      /\ quote \in [Feed -> Quotes \union {None}]
  BY DEF Inv, FeedInv, Heard, HeardTypes
<1>3. CASE Remember(g)
  <2>1. /\ at[g] = "called" /\ at' = [at EXCEPT ![g] = "reading"] /\ quote' = [quote EXCEPT ![g] = None]
        /\ last' = [last EXCEPT ![g] = IF quote[g].token = token[g]
                                      THEN [price |-> quote[g].price] ELSE last[g]]
    BY <1>3 DEF Remember, Goes
  <2>2. quote[g] \in Quotes /\ [price |-> quote[g].price] \in [price : Price]
    BY <2>1 DEF Inv, FeedInv, Midway, Quotes
  <2>3. HeardTypes'
    BY <1>1, <1>2, <2>1, <2>2 DEF Heard, HeardTypes
  <2>4. Passed(g)'
    <3>1. at'[g] = "reading" /\ \A t, p : LastStored(g, t, p) => LastStored(g, t, p)'
      BY <1>1, <1>2, <2>1 DEF LastStored, StoredOf, IsRollover
    <3>2. LastStored(g, quote[g].token, quote[g].price)
      BY <2>1 DEF Heard, Passed
    <3>3. last[g] # None /\ quote[g].token # token[g] => FALSE
      BY <2>1 DEF Heard, Passed, Midway
    <3>4. last[g]' # None => LastStored(g, token[g], last[g].price)'
      <4>1. CASE quote[g].token = token[g]
        <5>1. last[g]'.price = quote[g].price /\ token[g]' = quote[g].token
          BY <1>1, <1>2, <2>1, <4>1
        <5> QED BY <3>1, <3>2, <5>1
      <4>2. CASE quote[g].token # token[g]
        BY <1>2, <2>1, <3>3, <4>2
      <4> QED BY <4>1, <4>2
    <3>5. heard[g]' # None /\ heard[g]'.token = token[g]' => LastStored(g, heard[g].token, heard[g].price)'
      BY <1>1, <2>1, <3>1 DEF Heard, Passed
    <3> QED BY <3>1, <3>4, <3>5 DEF Passed, Midway
  <2>5. ASSUME NEW f \in Feed, f # g PROVE Passed(f)'
    BY <1>1, <1>2, <2>1, <2>5, PassedAlong DEF Heard
  <2> QED BY <2>3, <2>4, <2>5 DEF Heard
<1>4. CASE Open(g) \/ SendSnapshot(g) \/ HotQuote(g) \/ Lose(g)
  <2>1. /\ quote' = quote /\ last' \in {last, [last EXCEPT ![g] = None]}
        /\ \/ at' = at
           \/ at[g] = "calling" /\ at' = [at EXCEPT ![g] = "storing"]
           \/ at[g] = "reading" /\ at' = [at EXCEPT ![g] = "subscribing"]
           \/ at[g] = "subscribing" /\ at' = [at EXCEPT ![g] = "reading"]
    BY <1>4 DEF Open, SendSnapshot, HotQuote, Lose, Drop, Goes, Forgets
  <2>2. HeardTypes'
    BY <1>1, <1>2, <2>1 DEF Heard, HeardTypes
  <2>3. ASSUME NEW f \in Feed PROVE Passed(f)'
    <3>1. last'[f] \in {last[f], None}
      BY <1>2, <2>1
    <3>2. at'[f] = at[f] \/ (at[f] = "calling" /\ at'[f] = "storing") \/
          {at[f], at'[f]} \subseteq {"reading", "subscribing"}
      BY <1>2, <2>1
    <3> QED BY <1>1, <2>1, <3>1, <3>2, PassedAlong DEF Heard
  <2> QED BY <2>2, <2>3 DEF Heard
<1> QED BY <1>3, <1>4 DEF Socket

LEMMA HeardArrive ==
  ASSUME Inv, Heard, NEW g \in Feed, NEW p \in Price, Arrive(g, p)
  PROVE  Heard'
<1> PICK t \in Bucket : Receive(g, t, p)
  BY DEF Arrive
<1>1. UNCHANGED <<accepted, last, token>> /\ at[g] = "reading"
      /\ heard' = [heard EXCEPT ![g] = IF t = token[g] THEN [token |-> t, price |-> p] ELSE heard[g]]
  BY DEF Arrive, Receive, filing
<1>2. /\ at \in [Feed -> {"reading", "subscribing"} \union Midway]
      /\ last \in [Feed -> [price : Price] \union {None}]
      /\ quote \in [Feed -> Quotes \union {None}] /\ token[g] \in Nat
      /\ heard \in [Feed -> [token : Bucket, price : Price] \union {None}]
  BY Numbers DEF Inv, FeedInv, Heard, HeardTypes
<1>3. CASE t # token[g]
  <2>1. UNCHANGED <<at, quote, heard>>
    BY <1>1, <1>2, <1>3 DEF Receive, Fresh
  <2> QED BY <1>1, <2>1, HeardAlong
<1>4. CASE t = token[g]
  <2>1. heard' = [heard EXCEPT ![g] = [token |-> t, price |-> p]]
    BY <1>1, <1>4
  <2>2. HeardTypes'
    <3>1. [token |-> t, price |-> p] \in [token : Bucket, price : Price]
      OBVIOUS
    <3>2. \A f \in Feed : heard'[f] # None => heard'[f].token <= token'[f]
      BY <1>1, <1>2, <1>4, <2>1 DEF Heard, HeardTypes
    <3> QED BY <1>1, <1>2, <2>1, <3>1, <3>2 DEF HeardTypes
  <2>3. \A f \in Feed : f # g => at'[f] = at[f] /\ quote'[f] = quote[f] /\ heard'[f] = heard[f]
    BY <1>2, <2>1 DEF Receive, Goes
  <2>4. ASSUME NEW f \in Feed, f # g PROVE Passed(f)'
    BY <1>1, <2>3, <2>4, PassedAlong DEF Heard
  <2>5. heard'[g].token = token[g] /\ heard'[g].price = p
    BY <1>2, <1>4, <2>1
  <2>6. last[g] # None => LastStored(g, token[g], last[g].price)'
    BY <1>1 DEF Heard, Passed, LastStored, StoredOf, IsRollover
  <2>7. CASE Fresh(g, t, p)
    <3>1. at'[g] = "calling" /\ quote'[g].token = token[g] /\ quote'[g].price = p
      BY <1>2, <1>4, <2>7 DEF Receive, Goes
    <3> QED BY <1>1, <2>2, <2>4, <2>5, <2>6, <3>1 DEF Heard, Passed, LastStored, StoredOf, IsRollover, Midway
  <2>8. CASE ~Fresh(g, t, p)
    <3>1. at'[g] = "reading" /\ last[g] = [price |-> p]
      BY <1>1, <1>4, <2>8 DEF Receive, Fresh
    <3>2. last[g] # None /\ last[g].price = p
      BY <3>1, NoPriceIsNone
    <3>3. LastStored(g, heard[g].token, heard[g].price)'
      BY <1>1, <2>5, <2>6, <3>2 DEF LastStored, StoredOf, IsRollover
    <3> QED BY <1>1, <2>2, <2>4, <2>6, <3>1, <3>3 DEF Heard, Passed, LastStored, StoredOf, IsRollover, Midway
  <2> QED BY <2>7, <2>8
<1> QED BY <1>3, <1>4

(* The token moves on past the one of any price heard so far.                  *)
LEMMA HeardSwitch ==
  ASSUME Inv, Labelled, Tokened, Heard, pc = "token", SetToken(turn, target), UNCHANGED filing
  PROVE  Heard'
<1> PICK g \in Feed : g = turn
  BY DEF Inv, MainInv
<1>1. /\ token[g] < target /\ target \in Bucket /\ \A f \in Feed : token[f] \in Nat
      /\ token \in [Feed -> Bucket] /\ last \in [Feed -> [price : Price] \union {None}]
      /\ heard \in [Feed -> [token : Bucket, price : Price] \union {None}]
  BY Numbers DEF Inv, MainInv, FeedInv, Labelled, Tokened, Tokens, Heard, HeardTypes
<1>2. /\ token' = [token EXCEPT ![g] = target] /\ last' = [last EXCEPT ![g] = None]
      /\ UNCHANGED <<accepted, at, quote, heard>>
  BY DEF SetToken, Forgets, filing
<1>3. target \in Nat /\ \A f \in Feed : heard[f] # None => heard[f].token \in Nat /\ heard[f].token <= token[f]
  BY <1>1, RecordingAssumption DEF Heard, HeardTypes, Bucket
<1>4. HeardTypes'
  BY <1>1, <1>2, <1>3 DEF HeardTypes
<1>5. ASSUME NEW f \in Feed, f # g PROVE Passed(f)'
  BY <1>1, <1>2, <1>5, PassedAlong DEF Heard
<1>6. Passed(g)'
  <2>1. last'[g] = None /\ token'[g] = target
    BY <1>1, <1>2
  <2>2. heard'[g] # None => heard'[g].token # token'[g]
    BY <1>1, <1>2, <1>3, <2>1
  <2>3. at'[g] = "called" => LastStored(g, quote[g].token, quote[g].price)'
    BY <1>2 DEF Heard, Passed, LastStored, StoredOf, IsRollover
  <2> QED BY <2>1, <2>2, <2>3 DEF Passed
<1> QED BY <1>4, <1>5, <1>6 DEF Heard

(* A row filed: for a feed, of the quote it is passing on; or of a rollover.   *)
LEMMA HeardStored ==
  ASSUME Inv, Heard, NEW g \in Feed, StoreQuote(g), File!Enqueue(g, QuoteOf(g)), Goes(g, "called")
  PROVE  Heard'
<1> DEFINE row == QuoteOf(g)
<1>1. at[g] = "storing" /\ at[g] \in Midway /\ ~stopped /\ quote[g] \in Quotes
  BY DEF StoreQuote, Midway, Inv, FeedInv, StopInv
<1>2. /\ row \in QuoteRow /\ row.feed = g
      /\ row.token = quote[g].token /\ row.price = quote[g].price
  BY <1>1 DEF QuoteOf, QuoteRow, Quotes
<1>3. /\ accepted' = Append(accepted, row) /\ UNCHANGED <<quote, last, heard, token>>
      /\ at' = [at EXCEPT ![g] = "called"] /\ at \in [Feed -> {"reading", "subscribing"} \union Midway]
  BY <1>1 DEF StoreQuote, File!Enqueue, Goes, main, Inv, FeedInv
<1>4. row \in AllRows /\ ~IsRollover(row)
  BY <1>2, RowKinds DEF AllRows
<1> HIDE DEF row
<1>5. LastStored(g, quote[g].token, quote[g].price)'
  BY <1>2, <1>3, <1>4, LastGrows
<1>6. HeardTypes'
  BY <1>3 DEF Heard, HeardTypes
<1>7. Passed(g)'
  <2>1. at'[g] = "called"
    BY <1>3
  <2>2. heard[g] # None /\ heard[g].token = token[g] =>
          quote[g].token = heard[g].token /\ quote[g].price = heard[g].price
    BY <1>1 DEF Heard, Passed
  <2>3. quote[g].token # token[g] => last[g] = None
    BY <1>1 DEF Heard, Passed
  <2>4. heard'[g] # None /\ heard'[g].token = token'[g] => LastStored(g, heard[g].token, heard[g].price)'
    BY <1>3, <1>5, <2>2
  <2> QED BY <1>3, <1>5, <2>1, <2>3, <2>4 DEF Passed
<1>8. ASSUME NEW f \in Feed, f # g PROVE Passed(f)'
  <2>1. at'[f] = at[f]
    BY <1>3, <1>8
  <2>2. \A t \in Bucket, p \in Price : LastStored(f, t, p) => LastStored(f, t, p)'
    BY <1>2, <1>3, <1>4, <1>8, LastGrows
  <2> QED BY <1>3, <2>1, <2>2, PassedStored
<1> QED BY <1>6, <1>7, <1>8 DEF Heard
LEMMA HeardStep ==
  ASSUME Inv, Labelled, Tokened, Heard, Next
  PROVE  Heard'
<1>1. ASSUME NEW g \in Feed, FeedThread(g) \/ Lose(g) \/ \E p \in Price : Arrive(g, p) PROVE Heard'
  <2>1. CASE Socket(g) \/ HotQuote(g) \/ Lose(g)
    <3>1. UNCHANGED <<main, filing>>
      BY <1>1, <2>1 DEF FeedThread, HotQuote, StoreQuote, Lose, Arrive, Receive, Socket, Open, SendSnapshot, Remember
    <3> QED BY <2>1, <3>1, HeardSocket
  <2>2. CASE StoreQuote(g)
    <3>1. CASE File!Enqueue(g, QuoteOf(g)) /\ Goes(g, "called")
      BY <2>2, <3>1, HeardStored
    <3>2. CASE File!Wait(g) /\ UNCHANGED at
      <4>1. UNCHANGED <<accepted, last, at, quote, heard, token>>
        BY <2>2, <3>2 DEF StoreQuote, File!Wait
      <4> QED BY <4>1, HeardAlong
    <3> QED BY <2>2, <3>1, <3>2 DEF StoreQuote
  <2> QED BY <1>1, <2>1, <2>2, HeardArrive DEF FeedThread
<1>2. CASE WriterThread \/ WaitEnds \/ BucketBegins \/ Signal \/ Tick
  <2>1. UNCHANGED <<accepted, last, at, quote, heard, token>>
    BY <1>2 DEF WriterThread, WaitEnds, BucketBegins, Signal, Tick, File!Run, File!Sleep, File!Take,
                File!Write, File!Return, File!Spurious, feed, filing
  <2> QED BY <2>1, HeardAlong
<1>3. CASE Look \/ Find \/ FindFails \/ SetContext \/ HotRollover
  <2>1. UNCHANGED <<accepted, last, at, quote, heard, token>>
    BY <1>3 DEF Look, Find, FindFails, SetContext, SetMarketContext, HotRollover, feed, filing
  <2> QED BY <2>1, HeardAlong
<1>4. CASE Switch
  <2>1. UNCHANGED filing
    BY <1>4 DEF Switch
  <2>2. CASE pc = "token" /\ SetToken(turn, target)
    BY <2>1, <2>2, HeardSwitch
  <2>3. CASE Unsubscribe(turn) \/ SetSnapshot(turn, target) \/ Subscribe(turn, target)
    <3>1. UNCHANGED <<accepted, last, at, quote, heard, token>>
      BY <2>1, <2>3 DEF Unsubscribe, SetSnapshot, Subscribe, filing
    <3> QED BY <3>1, HeardAlong
  <2> QED BY <1>4, <2>2, <2>3 DEF Switch, Moves
<1>5. CASE StoreRollover
  <2>1. UNCHANGED <<last, at, quote, heard, token>> /\ ~stopped
    BY <1>5 DEF StoreRollover, feed, Inv, StopInv
  <2>2. CASE File!Wait(Main)
    <3>1. UNCHANGED accepted
      BY <2>2 DEF File!Wait
    <3> QED BY <2>1, <3>1, HeardAlong
  <2>3. CASE File!Enqueue(Main, [rollover |-> target])
    <3> DEFINE row == [rollover |-> target]
    <3>1. row \in RolloverRow
      BY DEF RolloverRow, Inv, MainInv
    <3>2. row \in AllRows /\ IsRollover(row) /\ accepted' = Append(accepted, row)
      BY <2>1, <2>3, <3>1 DEF AllRows, IsRollover, File!Enqueue
    <3> HIDE DEF row
    <3>3. \A f \in Feed : \A t \in Bucket, p \in Price : LastStored(f, t, p) => LastStored(f, t, p)'
      BY <3>2, LastGrows
    <3>4. HeardTypes'
      BY <2>1 DEF Heard, HeardTypes
    <3> QED BY <2>1, <3>3, <3>4, PassedStored DEF Heard
  <2> QED BY <1>5, <2>2, <2>3 DEF StoreRollover
<1>6. CASE Shutdown
  <2>1. UNCHANGED <<accepted, at, quote, heard, token>>
    BY <1>6 DEF Shutdown, Leave, CloseFeed, CloseFile, Exit, StopFeed, File!Stop, feed, filing
  <2>2. /\ \A f \in Feed : last'[f] \in {last[f], None}
        /\ last' \in [Feed -> [price : Price] \union {None}]
    BY <1>6 DEF Shutdown, Leave, CloseFeed, CloseFile, Exit, StopFeed, Forgets, feed, Heard, HeardTypes
  <2>3. \A f \in Feed : Passed(f)'
    BY <2>1, <2>2, PassedAlong DEF Heard
  <2>4. HeardTypes'
    BY <2>1, <2>2 DEF Heard, HeardTypes
  <2> QED BY <2>3, <2>4 DEF Heard
<1> QED BY <1>1, <1>2, <1>3, <1>4, <1>5, <1>6 DEF Next, Rollover

(* A feed remembers a price of its token only once the row for it is on its    *)
(* way, and between two messages it is the last row stored (Heard).            *)
THEOREM HeardCorrect == Spec => [](Inv /\ Labelled /\ Tokened /\ Heard)
<1>1. Tokened /\ Heard /\ UNCHANGED vars => Tokened' /\ Heard'
  <2> SUFFICES ASSUME Tokened, Heard, UNCHANGED vars PROVE Tokened' /\ Heard'
    OBVIOUS
  <2>1. UNCHANGED <<pc, turn, active, token, accepted, last, at, quote, heard>>
    BY DEF vars, main, feed, filing
  <2> QED BY <2>1, HeardAlong DEF Tokened
<1>2. Inv /\ Labelled /\ Tokened /\ Heard /\ [Next]_vars => Tokened' /\ Heard'
  BY <1>1, TokenedStep, HeardStep
<1>3. MarketInv => Labelled
  BY DEF MarketInv
<1> QED BY MarketInvCorrect, TokenedStart, HeardStart, <1>2, <1>3, PTL DEF Spec

(* Between two messages the last price a feed has read for its token is the    *)
(* last row filed for it: none is taken for a repetition of an older token's   *)
(* (LastQuoteStored).                                                          *)
THEOREM QuoteStoredCorrect == Spec => []LastQuoteStored
<1>1. Heard => LastQuoteStored
  BY DEF Heard, Passed, LastQuoteStored
<1> QED BY <1>1, HeardCorrect, PTL
----------------------------------------------------------------------------
(* The subscriptions.  The snapshot follows the token, so that a connection    *)
(* that comes back asks for it, unless it comes back within the switch, which  *)
(* then asks for it itself.                                                    *)
Settled(f) ==
  ~Switching(f) =>
    /\ snapshot[f] = token[f]
    /\ linked[f] => token[f] \in subs[f] \/ (at[f] = "subscribing" /\ token[f] \in ids[f])
Subscribed ==
  /\ snapshot \in [Feed -> Bucket]
  /\ subs \in [Feed -> SUBSET Bucket] /\ ids \in [Feed -> SUBSET Bucket]
  /\ pc = "subscribe" => snapshot[turn] = target
  /\ \A f \in Feed : Settled(f)

LEMMA SubscribedStart == Init => Subscribed
BY RecordingAssumption DEF Init, FeedInit, Subscribed, Settled, Bucket

LEMMA SubscribedAlong ==
  ASSUME Subscribed, UNCHANGED <<snapshot, subs, ids, linked, token>>,
         \A f \in Feed : at'[f] = at[f] \/ at[f] # "subscribing",
         UNCHANGED <<pc, turn, target>> \/
           {pc, pc'} \cap {"token", "snapshot", "subscribe"} = {}
  PROVE  Subscribed'
BY DEF Subscribed, Settled, Switching

LEMMA SubscribedSocket ==
  ASSUME Inv, Subscribed, NEW g \in Feed, UNCHANGED main,
         Open(g) \/ SendSnapshot(g) \/ Lose(g)
  PROVE  Subscribed'
<1>1. /\ at \in [Feed -> {"reading", "subscribing"} \union Midway] /\ linked \in [Feed -> BOOLEAN]
      /\ snapshot \in [Feed -> Bucket] /\ subs \in [Feed -> SUBSET Bucket] /\ ids \in [Feed -> SUBSET Bucket]
  BY DEF Inv, FeedInv, Subscribed
<1>2. UNCHANGED <<snapshot, token, pc, turn, target>>
  BY DEF Open, SendSnapshot, Lose, Drop, main
<1>3. \A f \in Feed : f # g => UNCHANGED <<linked[f], subs[f], at[f], ids[f]>>
  BY <1>1 DEF Open, SendSnapshot, Lose, Drop, Goes
<1>4. subs' \in [Feed -> SUBSET Bucket] /\ ids' \in [Feed -> SUBSET Bucket] /\ Settled(g)'
  <2>1. CASE Open(g)
    <3>1. ids' = [ids EXCEPT ![g] = {snapshot[g]}] /\ subs' = subs /\ at'[g] = "subscribing"
      BY <1>1, <2>1 DEF Open, Goes
    <3>2. ids' \in [Feed -> SUBSET Bucket] /\ ids'[g] = {snapshot[g]}
      BY <1>1, <3>1
    <3> QED BY <1>1, <1>2, <3>1, <3>2 DEF Subscribed, Settled, Switching
  <2>2. CASE SendSnapshot(g)
    <3>1. /\ subs' = [subs EXCEPT ![g] = IF linked[g] THEN subs[g] \union ids[g] ELSE subs[g]]
          /\ ids' = [ids EXCEPT ![g] = {}] /\ linked' = linked
      BY <2>2 DEF SendSnapshot, Sends
    <3>2. subs' \in [Feed -> SUBSET Bucket] /\ ids' \in [Feed -> SUBSET Bucket]
      BY <1>1, <3>1
    <3>3. linked[g] => subs'[g] = subs[g] \union ids[g]
      BY <1>1, <3>1
    <3> QED BY <1>1, <1>2, <3>1, <3>2, <3>3 DEF Subscribed, Settled, Switching
  <2>3. CASE Lose(g)
    <3>1. /\ subs' = [subs EXCEPT ![g] = {}] /\ ids' = ids /\ linked' = [linked EXCEPT ![g] = FALSE]
      BY <2>3 DEF Lose, Drop
    <3> QED BY <1>1, <1>2, <3>1 DEF Subscribed, Settled, Switching
  <2> QED BY <2>1, <2>2, <2>3
<1>5. \A f \in Feed : Settled(f)'
  BY <1>2, <1>3, <1>4 DEF Subscribed, Settled, Switching
<1> QED BY <1>1, <1>2, <1>4, <1>5 DEF Subscribed

(* The four steps of a switch of one feed leave the other alone.               *)
LEMMA SubscribedSwitch ==
  ASSUME Inv, Labelled, Subscribed, Switch
  PROVE  Subscribed'
<1> PICK g \in Feed : g = turn
  BY DEF Inv, MainInv
<1>1. /\ linked \in [Feed -> BOOLEAN] /\ token \in [Feed -> Bucket] /\ target \in Bucket
      /\ snapshot \in [Feed -> Bucket] /\ subs \in [Feed -> SUBSET Bucket] /\ ids \in [Feed -> SUBSET Bucket]
  BY DEF Inv, MainInv, FeedInv, Subscribed
<1>2. UNCHANGED <<linked, at, ids, target>>
  BY DEF Switch, Unsubscribe, SetToken, SetSnapshot, Subscribe
<1>3. \A f \in Feed : f # g => UNCHANGED <<snapshot[f], subs[f], token[f]>>
  BY <1>1 DEF Switch, Unsubscribe, SetToken, SetSnapshot, Subscribe
<1>4. \A f \in Feed : f # g => ~Switching(f) /\ ~Switching(f)'
  BY DEF Switch, Switching, Moves, ForBoth
<1>5. \A f \in Feed : f # g => Settled(f)'
  BY <1>2, <1>3, <1>4 DEF Subscribed, Settled
<1>6. CASE Moves("unsubscribe", "token") /\ Unsubscribe(turn)
  <2>1. subs' \in [Feed -> SUBSET Bucket] /\ UNCHANGED snapshot /\ Switching(g)' /\ pc' # "subscribe"
    BY <1>1, <1>6 DEF Unsubscribe, Sends, Switching, Moves
  <2> QED BY <1>1, <1>2, <1>5, <2>1 DEF Subscribed, Settled
<1>7. CASE Moves("token", "snapshot") /\ SetToken(turn, target)
  <2>1. UNCHANGED <<subs, snapshot>> /\ Switching(g)' /\ pc' # "subscribe"
    BY <1>7 DEF SetToken, Switching, Moves
  <2> QED BY <1>1, <1>2, <1>5, <2>1 DEF Subscribed, Settled
<1>8. CASE Moves("snapshot", "subscribe") /\ SetSnapshot(turn, target)
  <2>1. UNCHANGED subs /\ snapshot' = [snapshot EXCEPT ![g] = target] /\ Switching(g)' /\ turn' = g
    BY <1>8 DEF SetSnapshot, Switching, Moves
  <2> QED BY <1>1, <1>2, <1>5, <2>1 DEF Subscribed, Settled
<1>9. CASE ForBoth("subscribe", "unsubscribe", "context") /\ Subscribe(turn, target)
  <2>1. /\ subs' = [subs EXCEPT ![g] = IF linked[g] THEN subs[g] \union {target} ELSE subs[g]]
        /\ UNCHANGED <<snapshot, token>> /\ pc' \in {"unsubscribe", "context"} /\ pc = "subscribe"
    BY <1>9 DEF Subscribe, Sends, ForBoth
  <2>2. token[g] = target /\ snapshot[g] = target
    BY <2>1 DEF Labelled, Subscribed
  <2>3. subs' \in [Feed -> SUBSET Bucket] /\ (linked[g] => target \in subs'[g])
    BY <1>1, <2>1
  <2> QED BY <1>1, <1>2, <1>5, <2>1, <2>2, <2>3 DEF Subscribed, Settled
<1> QED BY <1>6, <1>7, <1>8, <1>9 DEF Switch

LEMMA SubscribedStep ==
  ASSUME Inv, Labelled, Subscribed, Next
  PROVE  Subscribed'
<1>1. at \in [Feed -> {"reading", "subscribing"} \union Midway]
  BY DEF Inv, FeedInv
<1>2. ASSUME NEW g \in Feed, FeedThread(g) \/ Lose(g) \/ \E p \in Price : Arrive(g, p) PROVE Subscribed'
  <2>1. CASE Open(g) \/ SendSnapshot(g) \/ Lose(g)
    <3>1. UNCHANGED main
      BY <1>2, <2>1 DEF FeedThread, HotQuote, StoreQuote, Lose, Arrive, Socket
    <3> QED BY <2>1, <3>1, SubscribedSocket
  <2>2. CASE Remember(g) \/ HotQuote(g) \/ StoreQuote(g) \/ \E p \in Price : Arrive(g, p)
    <3>1. UNCHANGED <<snapshot, subs, ids, linked, token>> /\ UNCHANGED <<pc, turn, target>>
      BY <1>2, <2>2 DEF FeedThread, Remember, HotQuote, StoreQuote, Arrive, Receive, Lose, Socket, main
    <3>2. \A f \in Feed : at'[f] = at[f] \/ at[f] # "subscribing"
      BY <1>1, <2>2 DEF Remember, HotQuote, StoreQuote, Arrive, Receive, Goes
    <3> QED BY <3>1, <3>2, SubscribedAlong
  <2> QED BY <1>2, <2>1, <2>2 DEF FeedThread, Socket
<1>3. CASE WriterThread \/ WaitEnds \/ BucketBegins \/ Signal \/ Tick
  BY <1>3, SubscribedAlong DEF WriterThread, WaitEnds, BucketBegins, Signal, Tick, main, feed
<1>4. CASE Look \/ Find \/ FindFails \/ SetContext \/ HotRollover \/ StoreRollover
  <2>1. UNCHANGED <<snapshot, subs, ids, linked, token, at>>
    BY <1>4 DEF Look, Find, FindFails, SetContext, SetMarketContext, HotRollover, StoreRollover, feed
  <2>2. UNCHANGED <<pc, turn, target>> \/ {pc, pc'} \cap {"token", "snapshot", "subscribe"} = {}
    BY <1>4 DEF Look, Find, FindFails, SetContext, HotRollover, StoreRollover, Moves, ForBoth
  <2> QED BY <2>1, <2>2, SubscribedAlong
<1>5. CASE Leave \/ CloseFile \/ Exit
  <2>1. UNCHANGED <<snapshot, subs, ids, linked, token, at>>
    BY <1>5 DEF Leave, CloseFile, Exit, feed
  <2>2. {pc, pc'} \cap {"token", "snapshot", "subscribe"} = {}
    BY <1>5 DEF Leave, CloseFile, Exit, Moves
  <2> QED BY <2>1, <2>2, SubscribedAlong
<1>6. CASE CloseFeed
  <2> PICK g \in Feed : g = turn
    BY DEF Inv, MainInv
  <2>1. /\ linked' = [linked EXCEPT ![g] = FALSE] /\ subs' = [subs EXCEPT ![g] = {}]
        /\ UNCHANGED <<snapshot, ids, token, at>>
    BY <1>6 DEF CloseFeed, StopFeed
  <2>2. pc = "stop" /\ pc' \in {"stop", "close"}
    BY <1>6 DEF CloseFeed, ForBoth
  <2>3. linked \in [Feed -> BOOLEAN]
    BY DEF Inv, FeedInv
  <2> QED BY <2>1, <2>2, <2>3 DEF Subscribed, Settled, Switching
<1> QED BY <1>2, <1>3, <1>4, <1>5, <1>6, SubscribedSwitch DEF Next, Rollover, Shutdown

(* A feed whose connection is open and whose snapshot has gone out is          *)
(* subscribed to its token, except within a switch of it                       *)
(* (SubscribedWhileOpen): what SubscribedAgain rests on.                       *)
THEOREM SubscribedCorrect == Spec => []SubscribedWhileOpen
<1>1. Subscribed /\ UNCHANGED vars => Subscribed'
  <2> SUFFICES ASSUME Subscribed, UNCHANGED vars PROVE Subscribed'
    OBVIOUS
  <2>1. UNCHANGED <<pc, turn, target, snapshot, subs, ids, linked, token, at>>
    BY DEF vars, main, feed
  <2> QED BY <2>1, SubscribedAlong
<1>2. Inv /\ Labelled /\ Subscribed /\ [Next]_vars => Subscribed'
  BY <1>1, SubscribedStep
<1>3. Subscribed => SubscribedWhileOpen
  BY DEF Subscribed, Settled, SubscribedWhileOpen
<1> QED BY HeardCorrect, SubscribedStart, <1>2, <1>3, PTL DEF Spec
----------------------------------------------------------------------------
(* The waits.  Who waits for room has a row to offer, and none is left waiting *)
(* once the writer has been told to stop.                                      *)
Waiting ==
  /\ \A f \in Feed \intersect blocked : at[f] = "storing"
  /\ Main \in blocked => pc = "row"
  /\ stopped => blocked = {}
  /\ NoneWaitsInVain

LEMMA WaitingStart == Init => Waiting
BY DEF Init, File!Init, Waiting, NoneWaitsInVain

LEMMA WaitingAlong ==
  ASSUME Waiting, UNCHANGED filing,
         \A f \in Feed : at[f] = "storing" => at'[f] = "storing", pc = "row" => pc' = "row"
  PROVE  Waiting'
<1>1. ASSUME NEW p \in Feed \union {Main}, Offering(p) PROVE Offering(p)'
  BY <1>1 DEF Offering, filing
<1> QED BY <1>1 DEF Waiting, NoneWaitsInVain, filing

(* Producer p, which has a row to offer, offers it or waits.                   *)
LEMMA WaitingProducer ==
  ASSUME Inv, Waiting, ~stopped, NEW p \in Feed \union {Main},
         IF p = Main THEN pc = "row" ELSE at[p] = "storing",
         \A f \in Feed : f # p => at'[f] = at[f], p # Main => pc' = pc,
         \/ File!Wait(p) /\ UNCHANGED <<pc, at>>
         \/ \E row \in AllRows : File!Enqueue(p, row)
  PROVE  Waiting'
<1>1. CASE File!Wait(p) /\ UNCHANGED <<pc, at>>
  <2>1. blocked' = blocked \union {p} /\ Len(queue) >= MaxQueue /\ UNCHANGED <<queue, asleep, stopped, returned>>
    BY <1>1 DEF File!Wait
  <2>2. queue # <<>> /\ ~asleep /\ ~returned
    BY <2>1, RecordingAssumption DEF Inv, FileInv
  <2>3. \A f \in Feed \intersect blocked' : at'[f] = "storing"
    BY <1>1, <2>1, FeedNames DEF Waiting, Main
  <2>4. Main \in blocked' => pc' = "row"
    BY <1>1, <2>1 DEF Waiting
  <2> QED BY <1>1, <2>1, <2>2, <2>3, <2>4 DEF Waiting, NoneWaitsInVain
<1>2. ASSUME NEW row \in AllRows, File!Enqueue(p, row) PROVE Waiting'
  <2>1. /\ p \notin blocked /\ queue' = Append(queue, row) /\ asleep' = FALSE
        /\ UNCHANGED <<blocked, stopped, returned>> /\ queue \in Seq(AllRows)
    BY <1>2 DEF File!Enqueue, Inv, FileInv
  <2>2. queue' # <<>>
    BY <2>1
  <2>3. ~returned
    BY DEF Inv, FileInv
  <2>4. \A f \in Feed \intersect blocked : at'[f] = "storing"
    BY <2>1 DEF Waiting
  <2>5. Main \in blocked => pc' = "row"
    BY <2>1 DEF Waiting
  <2> QED BY <2>1, <2>2, <2>3, <2>4, <2>5 DEF Waiting, NoneWaitsInVain
<1> QED BY <1>1, <1>2

(* A waiter that is woken, or wakes, offers its row again.                     *)
LEMMA WaitingWoken ==
  ASSUME Waiting, NEW p \in blocked, blocked' = blocked \ {p}, blocked \subseteq Feed \union {Main},
         UNCHANGED <<pc, at, stopped>>
  PROVE  Waiting'
<1>1. Offering(p)'
  BY FeedNames, RecordingAssumption DEF Waiting, Offering, Main
<1> QED BY <1>1 DEF Waiting, NoneWaitsInVain

LEMMA WaitingWriter ==
  ASSUME Inv, Waiting, WriterThread \/ WaitEnds
  PROVE  Waiting'
<1>1. UNCHANGED <<pc, at, stopped>> /\ blocked \subseteq Feed \union {Main}
  BY DEF WriterThread, WaitEnds, main, feed, File!Run, File!Sleep, File!Take, File!Write, File!Return,
         File!Spurious, Inv, FileInv
<1>2. ASSUME UNCHANGED blocked,
             blocked # {} => \/ queue' # <<>> /\ ~asleep' /\ ~returned'
                             \/ \E p \in Feed \union {Main} : Offering(p)
      PROVE  Waiting'
  <2>1. \A p \in Feed \union {Main} : Offering(p)' <=> Offering(p)
    BY <1>1, <1>2 DEF Offering
  <2> QED BY <1>1, <1>2, <2>1 DEF Waiting, NoneWaitsInVain
<1>3. CASE File!Sleep
  BY <1>2, <1>3 DEF File!Sleep, Waiting, NoneWaitsInVain
<1>4. CASE File!Take
  <2>1. CASE blocked = {}
    BY <1>1, <1>4, <2>1 DEF File!Take, File!WakeOne, Waiting, NoneWaitsInVain
  <2>2. CASE blocked # {}
    <3>1. PICK p \in blocked : blocked' = blocked \ {p}
      BY <1>4, <2>2 DEF File!Take, File!WakeOne
    <3> QED BY <1>1, <3>1, WaitingWoken
  <2> QED BY <2>1, <2>2
<1>5. CASE File!Write
  BY <1>2, <1>5 DEF File!Write, Waiting, NoneWaitsInVain
<1>6. CASE File!Return
  BY <1>1, <1>6 DEF File!Return, Waiting, NoneWaitsInVain
<1>7. CASE File!Spurious
  <2>1. CASE UNCHANGED blocked /\ asleep' = FALSE /\ UNCHANGED <<queue, returned>>
    BY <1>2, <2>1 DEF Waiting, NoneWaitsInVain
  <2>2. CASE \E p \in blocked : blocked' = blocked \ {p}
    BY <1>1, <2>2, WaitingWoken
  <2> QED BY <1>7, <2>1, <2>2 DEF File!Spurious
<1> QED BY <1>3, <1>4, <1>5, <1>6, <1>7 DEF WriterThread, WaitEnds, File!Run

LEMMA WaitingStep ==
  ASSUME Inv, Waiting, Next
  PROVE  Waiting'
<1> USE FeedNames
<1>1. at \in [Feed -> {"reading", "subscribing"} \union Midway]
  BY DEF Inv, FeedInv
<1>2. ASSUME NEW g \in Feed, FeedThread(g) \/ Lose(g) \/ \E p \in Price : Arrive(g, p) PROVE Waiting'
  <2>1. CASE StoreQuote(g)
    <3>1. at[g] = "storing" /\ g # Main /\ UNCHANGED pc
      BY <2>1 DEF StoreQuote, Main, main
    <3>2. ~stopped /\ QuoteOf(g) \in AllRows
      <4>1. quote[g] \in Quotes
        BY <3>1 DEF Inv, FeedInv, Midway
      <4> QED BY <3>1, <4>1 DEF Inv, StopInv, QuoteOf, Quotes, AllRows, QuoteRow
    <3>3. \A f \in Feed : f # g => at'[f] = at[f]
      BY <1>1, <2>1 DEF StoreQuote, Goes
    <3>4. \/ File!Wait(g) /\ UNCHANGED <<pc, at>>
          \/ \E row \in AllRows : File!Enqueue(g, row)
      BY <2>1, <3>1, <3>2 DEF StoreQuote
    <3> QED BY <3>1, <3>2, <3>3, <3>4, WaitingProducer
  <2>2. CASE ~StoreQuote(g)
    <3>1. UNCHANGED <<pc, filing>>
      BY <1>2, <2>2 DEF FeedThread, HotQuote, Lose, Arrive, main
    <3>2. \A f \in Feed : at[f] = "storing" => at'[f] = "storing"
      BY <1>1, <1>2, <2>2 DEF FeedThread, Socket, Open, SendSnapshot, Remember, HotQuote, Lose, Drop,
                              Arrive, Receive, Goes
    <3> QED BY <3>1, <3>2, WaitingAlong
  <2> QED BY <2>1, <2>2
<1>3. CASE StoreRollover
  <2>1. pc = "row" /\ UNCHANGED at /\ ~stopped
    BY <1>3 DEF StoreRollover, feed, Inv, StopInv
  <2>2. [rollover |-> target] \in AllRows
    BY DEF AllRows, RolloverRow, Inv, MainInv
  <2>3. \/ File!Wait(Main) /\ UNCHANGED <<pc, at>>
        \/ \E row \in AllRows : File!Enqueue(Main, row)
    BY <1>3, <2>1, <2>2 DEF StoreRollover
  <2> QED BY <2>1, <2>3, WaitingProducer
<1>4. CASE CloseFile
  BY <1>4 DEF CloseFile, File!Stop, Waiting, NoneWaitsInVain
<1>5. CASE BucketBegins \/ Signal \/ Tick
  BY <1>5, WaitingAlong DEF BucketBegins, Signal, Tick, main, feed
<1>6. CASE Look \/ Find \/ FindFails \/ Switch \/ SetContext \/ HotRollover
  <2>1. UNCHANGED <<filing, at>>
    BY <1>6 DEF Look, Find, FindFails, Switch, SetContext, SetMarketContext, HotRollover, Unsubscribe,
                SetToken, SetSnapshot, Subscribe, feed
  <2>2. pc # "row"
    BY <1>6 DEF Look, Find, FindFails, Switch, SetContext, HotRollover, Moves, ForBoth
  <2> QED BY <2>1, <2>2, WaitingAlong
<1>7. CASE Leave \/ CloseFeed \/ Exit
  <2>1. UNCHANGED <<filing, at>> /\ pc # "row"
    BY <1>7 DEF Leave, CloseFeed, Exit, StopFeed, Moves, ForBoth, feed
  <2> QED BY <2>1, WaitingAlong
<1> QED BY <1>2, <1>3, <1>4, <1>5, <1>6, <1>7, WaitingWriter DEF Next, Rollover, Shutdown

(* Whoever waits for room in the queue waits for a writer that is awake and    *)
(* has a row to take, or for a thread about to offer one (NoneWaitsInVain):    *)
(* what ExitReached rests on.                                                  *)
THEOREM WaitersCorrect == Spec => []NoneWaitsInVain
<1>1. Waiting /\ UNCHANGED vars => Waiting'
  <2> SUFFICES ASSUME Waiting, UNCHANGED vars PROVE Waiting'
    OBVIOUS
  <2>1. UNCHANGED <<pc, at, filing>>
    BY DEF vars, main, feed
  <2> QED BY <2>1, WaitingAlong
<1>2. Inv /\ Waiting /\ [Next]_vars => Waiting'
  BY <1>1, WaitingStep
<1>3. Waiting => NoneWaitsInVain
  BY DEF Waiting
<1> QED BY InvCorrect, WaitingStart, <1>2, <1>3, PTL DEF Spec
----------------------------------------------------------------------------
(* The file.  However the threads of the pipeline interleave, the writer is    *)
(* driven as its own specification says, one call of it at a time.             *)
THEOREM WriterImplemented == Spec => File!Spec
<1>1. Init => File!Init
  BY DEF Init
<1>2. Inv /\ [Next]_vars => [File!Next]_File!writer
  <2> SUFFICES ASSUME Inv, [Next]_vars PROVE File!Next \/ UNCHANGED filing
    BY DEF filing, File!writer
  <2>1. ASSUME NEW g \in Feed, StoreQuote(g) PROVE File!Next
    <3>1. quote[g] \in Quotes
      BY <2>1 DEF StoreQuote, Inv, FeedInv, Midway
    <3>2. QuoteOf(g) \in QuoteRow \union RolloverRow
      BY <3>1 DEF QuoteOf, Quotes, QuoteRow
    <3>3. File!Wait(g) \/ File!Enqueue(g, QuoteOf(g))
      BY <2>1 DEF StoreQuote
    <3> QED BY <3>2, <3>3 DEF File!Next
  <2>2. CASE StoreRollover
    <3>1. [rollover |-> target] \in QuoteRow \union RolloverRow
      BY DEF RolloverRow, Inv, MainInv
    <3>2. File!Wait(Main) \/ File!Enqueue(Main, [rollover |-> target])
      BY <2>2 DEF StoreRollover
    <3> QED BY <3>1, <3>2 DEF File!Next
  <2>3. CASE WriterThread \/ WaitEnds \/ CloseFile
    BY <2>3 DEF WriterThread, WaitEnds, CloseFile, File!Next
  <2>4. ASSUME NEW g \in Feed, FeedThread(g) \/ Lose(g) \/ \E p \in Price : Arrive(g, p), ~StoreQuote(g)
        PROVE  UNCHANGED filing
    BY <2>4 DEF FeedThread, HotQuote, Lose, Arrive
  <2>5. CASE BucketBegins \/ Signal \/ Tick \/ Leave \/ CloseFeed \/ Exit
    BY <2>5 DEF BucketBegins, Signal, Tick, Leave, CloseFeed, Exit
  <2>6. CASE Look \/ Find \/ FindFails \/ Switch \/ SetContext \/ HotRollover
    BY <2>6 DEF Look, Find, FindFails, Switch, SetContext, HotRollover
  <2>7. CASE UNCHANGED vars
    BY <2>7 DEF vars
  <2> QED BY <2>1, <2>2, <2>3, <2>4, <2>5, <2>6, <2>7 DEF Next, Rollover, Shutdown, FeedThread
<1> QED BY InvCorrect, <1>1, <1>2, PTL DEF Spec, File!Spec
============================================================================
