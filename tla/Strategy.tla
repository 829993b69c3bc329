------------------------------- MODULE Strategy -------------------------------
(* The strategy thread of the BTC five-minute bucket runner (consumer_thr in   *)
(* run_live_impl), paper execution and discover mode: what one spot update,    *)
(* quote update or rollover event does to the market view (HotState) and to    *)
(* the paper account (PaperState).  Events arrive in any order; Runner adds    *)
(* the threads and the queue that produce them.                                *)
(*                                                                             *)
(* Money, prices and shares are integers: a share pays One, so price p is      *)
(* p / One dollars.  A bucket is a number; time counts half buckets, and the   *)
(* entry window is the second half.  Strike, spot, sigma and time to expiry    *)
(* are seen only through the fair value of Up they determine, which an         *)
(* environment chooses whenever one of them changes.                           *)
EXTENDS Integers, FiniteSets

CONSTANTS
  Up, Down, NoSide,      \* the outcomes of a bucket
  One,                   \* what a winning share pays
  Theo,                  \* the fair values of Up that occur
  Quote, NoQuote,        \* quotes [bid, ask] of one outcome
  LastBucket, Times,     \* bound: buckets 0..LastBucket, times in half buckets
  InitialCash, MaxLoss, MaxCash,        \* MaxCash bounds what is explored
  Spend, MinSpend,       \* --fixed-spend-usd, the one dollar minimum
  FeeNum, FeeDen, FeeTick,              \* fee rate, and the unit fees round to
  Entry, CloseSlack, AskMin, AskMax, StopNum, StopDen,
  Window, Persist, Latency, ForceSell   \* which optional rules are on

Side == {Up, Down}
Bucket == 0..LastBucket
NoBucket == -1

ASSUME SideAssumption == Up # Down /\ NoSide \notin Side
ASSUME PriceAssumption ==
  /\ One \in Nat \ {0}
  /\ Theo \subseteq 0..One
  /\ \A q \in Quote : q.bid \in 0..One /\ q.ask \in 0..One /\ q.bid <= q.ask
  /\ NoQuote \notin Quote
ASSUME MoneyAssumption ==
  /\ LastBucket \in Nat /\ Times \subseteq Nat /\ 0 \in Times
  /\ InitialCash \in Nat /\ MaxLoss \in Nat /\ MaxCash \in Nat
  /\ Spend \in Nat /\ MinSpend \in Nat /\ AskMin \in Nat /\ AskMax \in Nat
  /\ 0 < AskMin /\ AskMax <= MinSpend
  /\ FeeNum \in Nat /\ FeeDen \in Nat \ {0} /\ FeeNum <= FeeDen
  /\ FeeTick \in Nat \ {0}
  /\ Entry \in Nat /\ CloseSlack \in Nat
  /\ StopNum \in Nat \ {0} /\ StopDen \in Nat \ {0}
ASSUME RuleAssumption == {Window, Persist, Latency, ForceSell} \subseteq BOOLEAN

VARIABLES
  hot,      \* HotState: bucket, strike and spot known, entry clock, theo, quotes, edge timers
  acct,     \* PaperState
  enabled   \* trading_enabled

vars == <<hot, acct, enabled>>

----------------------------------------------------------------------------
(* The taker fee: notional * rate * p * (1 - p), rounded to the nearest tick.  *)

FeeScale == One * One * FeeDen
FeeWeight(p) == FeeNum * p * (One - p)
Fee(x, p) == FeeTick * ((2 * x * FeeWeight(p) + FeeTick * FeeScale) \div (2 * FeeTick * FeeScale))

(* The most that can be spent at price p with the unrounded fee on top.        *)
AffordableIgnoringFee(cash, p) == cash
Affordable(cash, p) == (cash * FeeScale) \div (FeeScale + FeeWeight(p))

----------------------------------------------------------------------------
(* The market view.                                                            *)

Ready(h) == h.spot = TRUE /\ h.strike = TRUE /\ \A s \in Side : h.quote[s] # NoQuote

Fair(h, s) == IF s = Up THEN h.theo ELSE One - h.theo
AskOk(ask) == AskMin <= ask /\ ask <= AskMax
HasEdge(h, s) == Fair(h, s) - h.quote[s].ask >= Entry
RawEdge(h) == {s \in Side : HasEdge(h, s) /\ AskOk(h.quote[s].ask)}
InWindow(h) == Window => h.clock - 2 * h.bucket = 1

----------------------------------------------------------------------------
(* The account.                                                                *)

HavePos(a) == a.side # NoSide
Idle(a) == a.pending = "none"
Cancel(a) == [a EXCEPT !.pending = "none"]

FlattenKeepingBasis(a) ==
  [a EXCEPT !.side = NoSide, !.bucket = NoBucket, !.qty = 0, !.pending = "none"]
FlattenKeepingPending(a) ==
  [a EXCEPT !.side = NoSide, !.bucket = NoBucket, !.qty = 0, !.basis = 0]
Flatten(a) ==
  [a EXCEPT !.side = NoSide, !.bucket = NoBucket, !.qty = 0, !.basis = 0, !.pending = "none"]

Proceeds(a, bid) == a.qty * bid - Fee(a.qty * bid, bid)

StopLossHit(a, bid) ==
  bid > 0 /\ StopDen * (Proceeds(a, bid) - a.basis) <= -(StopNum * a.basis)
ProfitTaken(h, s) == h.quote[s].bid >= Fair(h, s) - CloseSlack

----------------------------------------------------------------------------
(* schedule: the edge timers, then the order to place.                         *)

NextSinceNeverReset(h, a) ==
  IF ~Idle(a) \/ a.risk = TRUE THEN h.since
  ELSE IF HavePos(a) THEN {} ELSE h.since \cup RawEdge(h)
NextSince(h, a) ==
  IF ~Idle(a) \/ a.risk = TRUE THEN h.since
  ELSE IF HavePos(a) THEN {} ELSE RawEdge(h)

(* The sides whose edge has lasted: held are the timers that have run out.     *)
Buyable(h, held) == IF Persist THEN RawEdge(h) \cap held ELSE RawEdge(h)

Better(h) ==
  IF Fair(h, Up) - h.quote[Up].ask >= Fair(h, Down) - h.quote[Down].ask THEN Up ELSE Down

Chosen(h, ok) == IF ok = Side THEN Better(h) ELSE IF Up \in ok THEN Up ELSE Down

ScheduleBuy(h, a, held) ==
  IF Buyable(h, held) = {} \/ ~InWindow(h) THEN a
  ELSE [a EXCEPT !.pending = "BUY", !.pside = Chosen(h, Buyable(h, held))]

ScheduleSell(h, a) ==
  LET stop == StopLossHit(a, h.quote[a.side].bid) IN
  IF ~stop /\ ~ProfitTaken(h, a.side) THEN a
  ELSE [a EXCEPT !.pending = "SELL", !.pside = a.side, !.stop = stop]

ScheduleDespiteRisk(h, a, held) ==
  IF ~Idle(a) THEN a
  ELSE IF HavePos(a) THEN ScheduleSell(h, a) ELSE ScheduleBuy(h, a, held)
Schedule(h, a, held) ==
  IF ~Idle(a) \/ a.risk = TRUE THEN a
  ELSE IF HavePos(a) THEN ScheduleSell(h, a) ELSE ScheduleBuy(h, a, held)

----------------------------------------------------------------------------
(* execute_due.  A closed account keeps the side and the exit reason of its    *)
(* last order: nothing reads them before the next order overwrites them.       *)

Smaller(x, y) == IF x <= y THEN x ELSE y
Outlay(a, ask) == Smaller(Spend, Affordable(a.cash, ask))

LossReached(a, worth2) == 2 * (InitialCash - a.cash) - worth2 >= 2 * MaxLoss

(* Spending x on shares at quote q would leave equity, shares at mid, past the *)
(* cap.                                                                        *)
RiskExceededWithoutCost(a, x, q) ==
  2 * (InitialCash - a.cash) - (x \div q.ask) * (q.bid + q.ask) > 2 * MaxLoss
RiskExceeded(a, x, q) ==
  2 * (InitialCash - (a.cash - x - Fee(x, q.ask))) - (x \div q.ask) * (q.bid + q.ask) > 2 * MaxLoss

Bought(h, a, x, q) ==
  LET paid == [a EXCEPT !.cash = @ - x - Fee(x, q.ask), !.side = a.pside, !.bucket = h.bucket,
                        !.qty = x \div q.ask, !.basis = x + Fee(x, q.ask), !.pending = "none"]
  IN  IF LossReached(paid, paid.qty * (q.bid + q.ask)) THEN [paid EXCEPT !.risk = TRUE] ELSE paid

ExecuteBuy(h, a) ==
  LET q == h.quote[a.pside]
      x == Outlay(a, q.ask)
  IN  IF \/ HavePos(a) \/ ~HasEdge(h, a.pside) \/ ~InWindow(h) \/ ~AskOk(q.ask) \/ x < MinSpend
      THEN Cancel(a)
      ELSE IF RiskExceeded(a, x, q) THEN [Cancel(a) EXCEPT !.risk = TRUE]
      ELSE Bought(h, a, x, q)

Sold(a, bid) ==
  LET paid == [a EXCEPT !.cash = @ + Proceeds(a, bid)]
  IN  Flatten(IF LossReached(paid, 0) THEN [paid EXCEPT !.risk = TRUE] ELSE paid)

ExecuteSellWhileProfitable(h, a) ==
  IF ~ProfitTaken(h, a.side) THEN Cancel(a) ELSE Sold(a, h.quote[a.side].bid)
ExecuteSell(h, a) ==
  IF ~a.stop /\ ~ProfitTaken(h, a.side) THEN Cancel(a) ELSE Sold(a, h.quote[a.side].bid)

Execute(h, a, due) ==
  IF Idle(a) \/ ~due THEN a
  ELSE IF a.pending = "BUY" THEN ExecuteBuy(h, a)
  ELSE IF HavePos(a) THEN ExecuteSell(h, a) ELSE Cancel(a)

----------------------------------------------------------------------------
(* The event handlers.                                                         *)

Init ==
  /\ hot \in [bucket : {0}, strike : BOOLEAN, spot : {FALSE}, clock : {0}, theo : Theo,
              quote : {[s \in Side |-> NoQuote]}, since : {{}}]
  /\ acct = [side |-> NoSide, bucket |-> NoBucket, qty |-> 0, basis |-> 0, cash |-> InitialCash,
             pending |-> "none", pside |-> NoSide, stop |-> FALSE, risk |-> FALSE]
  /\ enabled = FALSE

TradingUngated(h) == Ready(h) /\ acct.cash <= MaxCash
Trading(h) == enabled = TRUE /\ Ready(h) /\ acct.cash <= MaxCash

(* on_hot_update with the new view h: run schedule, then execute_due.          *)
OnHotUpdate(h) ==
  IF ~Trading(h)
  THEN hot' = h /\ UNCHANGED <<acct, enabled>>
  ELSE \E held \in SUBSET h.since, due \in (IF Latency THEN BOOLEAN ELSE {TRUE}) :
         /\ hot' = [h EXCEPT !.since = NextSince(h, acct)]
         /\ acct' = Execute(h, Schedule(h, acct, held), due)
         /\ UNCHANGED enabled

(* ChainlinkSpot, BinBook, BinTrade: the entry clock and the fair value move.  *)
(* Nothing makes the clock move forward: the time is what the event carries.   *)
OnSpot(t, th) == OnHotUpdate([hot EXCEPT !.spot = TRUE, !.clock = t, !.theo = th])

(* PolyQuote.                                                                  *)
OnQuote(s, q) == OnHotUpdate([hot EXCEPT !.quote[s] = q])

(* Rollover: an open position is sold at the bid the event carries, or dropped *)
(* when FORCE_SELL is off; then the view moves to the new bucket, keeping its  *)
(* quotes, and trading is on.  The account is otherwise untouched: a pending   *)
(* BUY survives.                                                               *)
ForceSoldUnlatching(a, bid) ==
  LET cash == a.cash + Proceeds(a, bid) IN
  Flatten([a EXCEPT !.cash = cash, !.risk = (InitialCash - cash >= MaxLoss)])
ForceSold(a, bid) == Flatten([a EXCEPT !.cash = @ + Proceeds(a, bid)])

SettledCarrying(a, bids) ==
  IF ~HavePos(a) THEN a
  ELSE IF ForceSell THEN ForceSold(a, bids[a.side])
  ELSE Cancel(a)
Settled(a, bids) ==
  IF ~HavePos(a) THEN a
  ELSE IF ForceSell THEN ForceSold(a, bids[a.side])
  ELSE Flatten(a)

OnRollover(b, known, th, bids) ==
  /\ acct' = Settled(acct, bids)
  /\ hot' = [hot EXCEPT !.bucket = b, !.strike = known, !.theo = th, !.since = {}]
  /\ enabled' = TRUE

Spot == \E t \in Times, th \in Theo : OnSpot(t, th)
PolyQuote == \E s \in Side, q \in Quote : OnQuote(s, q)

(* Buckets only move forward; the bids were read from the view earlier on, or  *)
(* are 0 if it had no quote yet.                                               *)
Bids == {q.bid : q \in Quote} \cup {0}
Rollover ==
  \E b \in Bucket, known \in BOOLEAN, th \in Theo, bids \in [Side -> Bids] :
    b > hot.bucket /\ OnRollover(b, known, th, bids)

Next == Spot \/ PolyQuote \/ Rollover

Spec == Init /\ [][Next]_vars

----------------------------------------------------------------------------
(* Properties.                                                                 *)

View == [bucket : Bucket, strike : BOOLEAN, spot : BOOLEAN, clock : Times, theo : Theo,
         quote : [Side -> Quote \cup {NoQuote}], since : SUBSET Side]
Account == [side : Side \cup {NoSide}, bucket : Bucket \cup {NoBucket}, qty : Nat, basis : Nat,
            cash : Int, pending : {"none", "BUY", "SELL"}, pside : Side \cup {NoSide},
            stop : BOOLEAN, risk : BOOLEAN]

(* Types, and the shape of the account: the position fields are all set or all *)
(* clear, whichever of the handlers opened or closed the position.             *)
TypeOK ==
  /\ hot \in View
  /\ acct \in Account
  /\ enabled \in BOOLEAN
  /\ IF HavePos(acct) THEN acct.qty > 0 /\ acct.basis > 0 /\ acct.bucket # NoBucket
     ELSE acct.qty = 0 /\ acct.basis = 0 /\ acct.bucket = NoBucket

(* A pending order fits the account it will be executed on, across rollovers,  *)
(* cancellations and risk stops: a SELL sells the open position, a BUY finds   *)
(* the account flat, and a stopped account has nothing pending.                *)
PendingConsistent ==
  /\ acct.pending = "SELL" => HavePos(acct) /\ acct.pside = acct.side
  /\ acct.pending = "BUY" => ~HavePos(acct) /\ acct.pside \in Side
  /\ acct.risk => Idle(acct)

(* A position belongs to the bucket the strategy is pricing: none outlives the *)
(* rollover away from its bucket, with FORCE_SELL on or off.                   *)
PositionInBucket == HavePos(acct) => acct.bucket = hot.bucket

(* Nothing is bought in the first bucket, which the process joined half way.   *)
WarmupNotTraded == HavePos(acct) => acct.bucket > 0

(* The cap on realised loss: a position was bought with at least InitialCash - *)
(* MaxLoss in hand, so a worthless position costs at most its outlay on top,   *)
(* however the quotes move and whatever bid a rollover settles at.             *)
DrawdownBounded ==
  IF HavePos(acct) THEN acct.cash + acct.basis >= InitialCash - MaxLoss
  ELSE 4 * (InitialCash - MaxLoss - acct.cash) <= 5 * Spend + 2 * FeeTick

(* The account is overdrawn by at most half the unit fees are rounded to.      *)
CashFloor == 2 * acct.cash >= -FeeTick

(* Once the risk stop is set no position is opened any more.                   *)
NoBuyAfterRiskStop == [][acct.risk => acct'.risk /\ (HavePos(acct') => HavePos(acct))]_vars

(* With a persistence time set, a BUY is scheduled only on an edge that the    *)
(* update before also saw: HotState says the timers measure "continuous edge   *)
(* in steady time", so losing the edge must have re-armed the timer.           *)
EdgeHeldBeforeBuy ==
  [][ Persist /\ Idle(acct) /\ ~HavePos(acct) /\ (acct'.pending = "BUY" \/ HavePos(acct'))
      => Ready(hot) /\ acct'.pside \in RawEdge(hot) ]_vars

(* "exit when (bid proceeds - cost_basis)/cost_basis <= -F": short of the risk *)
(* stop, an update that shows the loss leaves the position closed or a SELL    *)
(* pending that is then not called off, whatever the quotes do until it is     *)
(* due.  (A SELL pending to take a profit is, and with it the stop loss.)      *)
StopSale == acct.pending = "SELL" /\ acct.stop
LossShown ==
  /\ HavePos(acct) /\ Idle(acct) /\ ~acct.risk
  /\ Trading(hot') /\ acct.bucket = hot'.bucket
  /\ StopLossHit(acct, hot'.quote[acct.side].bid)
StopLossExits == [][StopSale \/ LossShown => StopSale' \/ ~HavePos(acct')]_vars

TA == INSTANCE TradingAccount WITH cash <- acct.cash, outlay <- acct.basis, stopped <- acct.risk

(* The strategy implements the account specification.                          *)
ImplementsAccount == TA!Spec
===============================================================================
