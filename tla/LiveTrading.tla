----------------------------- MODULE LiveTrading -----------------------------
(* The live branches of execute_due and of the rollover handler: every order   *)
(* and query goes through the daemon to the exchange, may fail, and may fail   *)
(* after it took effect.  The strategy thread handles one event at a time and  *)
(* blocks in these calls; the rollover monitor goes on switching the feeds,    *)
(* and the exchange brings its balances up to date, meanwhile.                 *)
(*                                                                             *)
(* One outcome is followed, so a token is named by its bucket.  Money and      *)
(* prices are left out: which order an update leads to is free, and proceeds   *)
(* are counted in shares.  Orders run at once: --lat-ms is left at 0, as live  *)
(* trading has it.                                                             *)
EXTENDS Integers, FiniteSets

CONSTANTS
  LastBucket,  \* bound: buckets, and so tokens, 0..LastBucket
  MaxShares,   \* bound: no BUY once this many shares were bought
  Attempts,    \* kMaxAttempts of a stop sale
  ForceSell    \* FALSE under --disable-rollover-force-sell

ASSUME LiveAssumption ==
  LastBucket \in Nat /\ MaxShares \in Nat /\ Attempts \in Nat \ {0} /\ ForceSell \in BOOLEAN

Token == 0..LastBucket
NoToken == -1

VARIABLES
  bucket,   \* hot.active_epoch
  feed,     \* the token the feed is subscribed to
  acct,     \* PaperState: token, qty, stop_sell_retry, risk_stop
  pc,       \* the daemon call the strategy thread is in, or "idle"
  op,       \* the locals of the execution under way
  shares,   \* what the exchange holds for us
  seen,     \* the balance it reports
  bought,   \* shares ever bought, to bound the search
  causes    \* history: what may have made the account lose track of a token

live == <<bucket, feed, acct, pc, op, shares, seen, bought, causes>>
exchange == <<shares, seen, bought, causes>>

HavePos == acct.token # NoToken
NoOp == [token |-> NoToken, stop |-> FALSE, before |-> 0, matched |-> 0, tries |-> 0,
         sold |-> 0, gone |-> 0]

Init ==
  /\ bucket = 0 /\ feed = 0
  /\ acct = [token |-> NoToken, qty |-> 0, retry |-> FALSE, risk |-> FALSE]
  /\ pc = "idle" /\ op = NoOp
  /\ shares = [t \in Token |-> 0] /\ seen = [t \in Token |-> 0] /\ bought = 0
  /\ causes = [t \in Token |-> {}]

----------------------------------------------------------------------------
(* The exchange.                                                               *)

(* A fill may show in the reported balance at once or only later.              *)
Reported(t) ==
  \/ seen' = [seen EXCEPT ![t] = shares'[t]]
  \/ UNCHANGED seen

Blame(t, why) == causes' = [causes EXCEPT ![t] = @ \cup why]

(* A balance that is out of date is a cause, whatever is done with it.         *)
Lag(t) == IF seen'[t] # shares'[t] THEN {"lag"} ELSE {}

Settle ==
  /\ \E t \in Token : seen[t] # shares[t] /\ seen' = [seen EXCEPT ![t] = shares[t]]
  /\ UNCHANGED <<bucket, feed, acct, pc, op, shares, bought, causes>>

(* n shares are bought with a fill-and-kill order, in full or in part.         *)
Fill(t, n, why) ==
  /\ bought + n <= MaxShares
  /\ shares' = [shares EXCEPT ![t] = @ + n]
  /\ bought' = bought + n
  /\ Reported(t)
  /\ Blame(t, Lag(t) \cup (IF n > 0 THEN why ELSE {}))

(* n of the qty shares offered are sold; more than there are is refused.       *)
Sell(t, qty, n, why) ==
  /\ qty <= shares[t] /\ n \in 0..qty
  /\ shares' = [shares EXCEPT ![t] = @ - n]
  /\ Reported(t)
  /\ Blame(t, Lag(t) \cup why)
  /\ UNCHANGED bought

----------------------------------------------------------------------------
(* The rollover monitor switches the feed when a bucket begins.                *)
Switch ==
  /\ feed < LastBucket /\ feed' = feed + 1
  /\ UNCHANGED <<bucket, acct, pc, op, exchange>>

----------------------------------------------------------------------------
(* The account.                                                                *)

Idle == pc' = "idle" /\ op' = NoOp
ForgetToken == [acct EXCEPT !.token = NoToken]
Forget == [acct EXCEPT !.token = NoToken, !.qty = 0]
Flatten == [acct EXCEPT !.token = NoToken, !.qty = 0, !.retry = FALSE]

(* Money is not modelled, so any booking may find the loss cap reached.        *)
RiskMayStop(a) == acct' \in {a, [a EXCEPT !.risk = TRUE]}

(* An execution ends and leaves the account, or what it holds, as it was.      *)
GiveUp == Idle /\ UNCHANGED acct

----------------------------------------------------------------------------
(* An update schedules an order, which is executed at once; none in the first  *)
(* bucket, before trading is enabled.                                          *)

NoSignal == pc = "idle" /\ UNCHANGED live

StartBuy ==
  /\ pc = "idle" /\ bucket > 0 /\ ~HavePos /\ ~acct.risk
  /\ pc' = "buyBalance" /\ op' = [NoOp EXCEPT !.token = feed]
  /\ UNCHANGED <<bucket, feed, acct, exchange>>

(* A BUY that could lose more than the loss cap stops trading instead.         *)
BuyCapped ==
  /\ pc = "idle" /\ bucket > 0 /\ ~HavePos /\ ~acct.risk
  /\ acct' = [acct EXCEPT !.risk = TRUE]
  /\ UNCHANGED <<bucket, feed, pc, op, exchange>>

(* A SELL is for the stop loss if that is hit or a stop sale is to be retried. *)
StartSellByPrice ==
  /\ pc = "idle" /\ HavePos /\ ~acct.risk
  /\ \E stop \in BOOLEAN : op' = [NoOp EXCEPT !.token = acct.token, !.stop = stop]
  /\ pc' = "sellBalance"
  /\ UNCHANGED <<bucket, feed, acct, exchange>>
StartSell ==
  /\ pc = "idle" /\ HavePos /\ ~acct.risk
  /\ \E stop \in (IF acct.retry THEN {TRUE} ELSE BOOLEAN) :
       op' = [NoOp EXCEPT !.token = acct.token, !.stop = stop]
  /\ pc' = "sellBalance"
  /\ UNCHANGED <<bucket, feed, acct, exchange>>

----------------------------------------------------------------------------
(* BUY: balance, order, fill.                                                  *)

(* The balance query or the order fails and nothing has happened.              *)
BuyFails ==
  /\ pc \in {"buyBalance", "buySubmit"}
  /\ GiveUp
  /\ UNCHANGED <<bucket, feed, exchange>>

BuyBalance ==
  /\ pc = "buyBalance"
  /\ pc' = "buySubmit" /\ op' = [op EXCEPT !.before = seen[op.token]]
  /\ UNCHANGED <<bucket, feed, acct, exchange>>

(* The order went out, but the daemon or its reply failed.                     *)
BuyUnreported ==
  /\ pc = "buySubmit"
  /\ \E n \in 1..MaxShares : Fill(op.token, n, {"unreported"})
  /\ GiveUp
  /\ UNCHANGED <<bucket, feed>>

BuyAccepted ==
  /\ pc = "buySubmit"
  /\ \E n \in 0..MaxShares :
       /\ Fill(op.token, n, {})
       /\ op' = [op EXCEPT !.matched = n]
  /\ pc' = "buyResolve"
  /\ UNCHANGED <<bucket, feed, acct>>

(* live_resolve_market_buy_fill: the reply and the polls of the order may tell *)
(* the matched amount; a balance that rose overrides it.                       *)
FillQty(told, answered) ==
  IF answered /\ seen[op.token] > op.before THEN seen[op.token] - op.before ELSE told

(* The position is booked under the token the feed has by then.                *)
BuyResolve ==
  /\ pc = "buyResolve"
  /\ \E told \in {0, op.matched}, answered \in BOOLEAN :
       LET qty == FillQty(told, answered) IN
       IF qty = 0
       THEN /\ UNCHANGED acct
            /\ Blame(op.token, IF op.matched > 0 THEN {"unconfirmed"} ELSE {})
       ELSE /\ RiskMayStop([acct EXCEPT !.token = feed, !.qty = qty])
            /\ causes' = IF feed = op.token THEN causes
                         ELSE [t \in Token |-> IF t \in {feed, op.token}
                                               THEN causes[t] \cup {"switched"} ELSE causes[t]]
  /\ Idle
  /\ UNCHANGED <<bucket, feed, shares, seen, bought>>

----------------------------------------------------------------------------
(* SELL: the whole balance is offered, whatever quantity was booked.           *)

SellFailureForgets ==
  /\ pc \in {"sellBalance", "sellSubmit"}
  /\ Idle /\ acct' = Flatten
  /\ UNCHANGED <<bucket, feed, exchange>>
SellFails ==
  /\ pc \in {"sellBalance", "sellSubmit"}
  /\ GiveUp
  /\ UNCHANGED <<bucket, feed, exchange>>

SellBalance ==
  /\ pc = "sellBalance"
  /\ IF seen[op.token] = 0
     THEN Idle /\ acct' = IF op.stop THEN Flatten ELSE acct
     ELSE /\ UNCHANGED acct
          /\ op' = [op EXCEPT !.before = seen[op.token]]
          /\ pc' = IF op.stop THEN "stopBalance" ELSE "sellSubmit"
  /\ UNCHANGED <<bucket, feed, exchange>>

SellUnreported ==
  /\ pc = "sellSubmit"
  /\ \E n \in 1..op.before : Sell(op.token, op.before, n, {"unreported"})
  /\ GiveUp
  /\ UNCHANGED <<bucket, feed>>

Partial(t) == IF shares'[t] > 0 THEN {"partial"} ELSE {}

(* Take profit: an accepted order counts as filled in full.                    *)
SellAccepted ==
  /\ pc = "sellSubmit"
  /\ \E n \in 0..op.before : Sell(op.token, op.before, n, Partial(op.token))
  /\ RiskMayStop(Flatten) /\ Idle
  /\ UNCHANGED <<bucket, feed>>

----------------------------------------------------------------------------
(* live_stop_sell_until_flat.                                                  *)

(* After the last attempt the sale is retried by a later update.               *)
NextAttempt(o) ==
  IF o.tries + 1 < Attempts
  THEN pc' = "stopBalance" /\ op' = [o EXCEPT !.tries = @ + 1] /\ UNCHANGED acct
  ELSE Idle /\ acct' = [acct EXCEPT !.retry = TRUE]

IsFlatButRetried == Idle /\ RiskMayStop(Forget)
IsFlat == Idle /\ RiskMayStop(Flatten)

StopFails ==
  /\ pc \in {"stopBalance", "stopSubmit", "stopConfirm"}
  /\ NextAttempt(op)
  /\ UNCHANGED <<bucket, feed, exchange>>

StopBalance ==
  /\ pc = "stopBalance"
  /\ IF seen[op.token] = 0 THEN IsFlat
     ELSE /\ pc' = "stopSubmit" /\ op' = [op EXCEPT !.before = seen[op.token]]
          /\ UNCHANGED acct
  /\ UNCHANGED <<bucket, feed, exchange>>

(* gone counts what was really sold; the code does not know it.                *)
StopUnreported ==
  /\ pc = "stopSubmit"
  /\ \E n \in 1..op.before :
       /\ Sell(op.token, op.before, n, {"unreported"})
       /\ NextAttempt([op EXCEPT !.gone = @ + n])
  /\ UNCHANGED <<bucket, feed>>

StopAccepted ==
  /\ pc = "stopSubmit"
  /\ \E n \in 0..op.before :
       /\ Sell(op.token, op.before, n, {})
       /\ op' = [op EXCEPT !.gone = @ + n]
  /\ pc' = "stopConfirm"
  /\ UNCHANGED <<bucket, feed, acct>>

SoldOffered(o) == o.before
SoldSince(o) == IF o.before > seen[o.token] THEN o.before - seen[o.token] ELSE 0

StopConfirm ==
  /\ pc = "stopConfirm"
  /\ IF seen[op.token] = 0 THEN IsFlat
     ELSE NextAttempt([op EXCEPT !.sold = @ + SoldSince(op)])
  /\ UNCHANGED <<bucket, feed, exchange>>

----------------------------------------------------------------------------
(* The rollover handler: FORCE_SELL, then the view moves on in any case.       *)

Advance == bucket' = bucket + 1

Rollover ==
  /\ pc = "idle" /\ bucket < feed
  /\ IF ~HavePos THEN Advance /\ UNCHANGED <<acct, pc, op, causes>>
     ELSE IF ForceSell
     THEN /\ pc' = "forceBalance" /\ op' = [NoOp EXCEPT !.token = acct.token]
          /\ UNCHANGED <<bucket, acct, causes>>
     ELSE /\ Advance /\ acct' = Forget /\ UNCHANGED <<pc, op>>
          /\ Blame(acct.token, {"carried"})
  /\ UNCHANGED <<feed, shares, seen, bought>>

(* A query or an order that fails keeps the position into the next bucket.     *)
ForceFails ==
  /\ pc \in {"forceBalance", "forceSubmit"}
  /\ Advance /\ GiveUp
  /\ UNCHANGED <<feed, exchange>>

ForceBalance ==
  /\ pc = "forceBalance"
  /\ IF seen[op.token] = 0 THEN Advance /\ acct' = Forget /\ Idle
     ELSE /\ pc' = "forceSubmit" /\ op' = [op EXCEPT !.before = seen[op.token]]
          /\ UNCHANGED <<bucket, acct>>
  /\ UNCHANGED <<feed, exchange>>

ForceUnreported ==
  /\ pc = "forceSubmit"
  /\ \E n \in 1..op.before : Sell(op.token, op.before, n, {"unreported"})
  /\ Advance /\ GiveUp
  /\ UNCHANGED feed

ForceAccepted ==
  /\ pc = "forceSubmit"
  /\ \E n \in 0..op.before : Sell(op.token, op.before, n, Partial(op.token))
  /\ Advance /\ acct' = Forget /\ Idle
  /\ UNCHANGED feed

----------------------------------------------------------------------------
Buy == StartBuy \/ BuyCapped \/ BuyFails \/ BuyBalance \/ BuyUnreported \/ BuyAccepted \/ BuyResolve
TakeProfit == SellFails \/ SellBalance \/ SellUnreported \/ SellAccepted
StopSale == StopFails \/ StopBalance \/ StopUnreported \/ StopAccepted \/ StopConfirm
ForcedSale == Rollover \/ ForceFails \/ ForceBalance \/ ForceUnreported \/ ForceAccepted

Next == Settle \/ Switch \/ NoSignal \/ Buy \/ StartSell \/ TakeProfit \/ StopSale \/ ForcedSale

Spec == Init /\ [][Next]_live

(* Updates keep coming, calls return, and balances settle.  A daemon and an    *)
(* exchange that are asked for ever answer at last, and sell what is offered   *)
(* while the token's market is open.                                           *)
SoldOut == op.token >= feed /\ shares'[op.token] = 0
Fairness ==
  /\ WF_live(Settle)
  /\ WF_live(StartSell)
  /\ WF_live(pc # "idle" /\ (Buy \/ TakeProfit \/ StopSale \/ ForcedSale))
  /\ SF_live(SellBalance) /\ SF_live(StopBalance) /\ SF_live(StopConfirm)
  /\ SF_live(StopAccepted /\ SoldOut)

FairSpec == Spec /\ Fairness

----------------------------------------------------------------------------
(* Properties.                                                                 *)

Cause == {"lag", "unreported", "unconfirmed", "switched", "partial", "carried"}

(* Types; and a position has shares, an account without one has none.          *)
TypeOK ==
  /\ bucket \in Token /\ feed \in Token /\ bucket <= feed
  /\ acct \in [token : Token \cup {NoToken}, qty : Nat, retry : BOOLEAN, risk : BOOLEAN]
  /\ HavePos <=> acct.qty > 0
  /\ pc \in {"idle", "buyBalance", "buySubmit", "buyResolve", "sellBalance", "sellSubmit",
             "stopBalance", "stopSubmit", "stopConfirm", "forceBalance", "forceSubmit"}
  /\ op \in [token : Token \cup {NoToken}, stop : BOOLEAN, before : Nat, matched : Nat,
             tries : 0..(Attempts - 1), sold : Nat, gone : Nat]
  /\ shares \in [Token -> Nat] /\ seen \in [Token -> Nat] /\ bought \in Nat
  /\ causes \in [Token -> SUBSET Cause]

(* Account and exchange agree on every token between two events, unless one of *)
(* six things happened to it: a balance reported late, an order whose reply    *)
(* was lost, a BUY nothing confirmed, a feed switched during a BUY, a SELL     *)
(* filled in part, a position carried on purpose.  Failed queries and refused  *)
(* orders alone, wherever they strike, lose no shares; a stop sale cut short   *)
(* leaves the retry flag to say that the quantity is not known.                *)
Known(t) == IF t = acct.token THEN acct.qty ELSE 0
Reconciled ==
  pc = "idle" =>
    \A t \in Token : causes[t] = {} /\ shares[t] # Known(t) => t = acct.token /\ acct.retry

(* The proceeds a stop sale books are for shares it sold, whatever the         *)
(* balances it is told and whichever replies are lost.                         *)
ProceedsEarned ==
  op.sold + (IF pc = "stopConfirm" THEN SoldSince(op) ELSE 0) <= op.gone

(* A position whose stop sale was cut short is sold while its market is open,  *)
(* unless the risk stop forbids it.                                            *)
StopSaleFinishes ==
  acct.retry /\ HavePos /\ ~acct.risk ~> ~HavePos \/ acct.token < feed

(* A stop sale is seen through: once one was begun or cut short it goes on, or *)
(* the flag asks for another, for as long as there is the position; and no     *)
(* order that counts as filled in full goes out while the flag is up.          *)
AtStopSale == pc \in {"stopBalance", "stopSubmit", "stopConfirm"}
StopSaleKept ==
  [][ HavePos /\ (acct.retry \/ AtStopSale)
      => \/ acct'.token = NoToken
         \/ acct'.token = acct.token /\ (acct'.retry \/ AtStopSale') ]_live
RetryNotByPrice == acct.retry => pc # "sellSubmit"

(* "Stop-loss FAK sell did not flatten; keep scheduling SELL until CLOB        *)
(* balance is 0": however a position is sold, by price, by a stop sale or by a *)
(* balance of 0, the flag goes with it.  Only a rollover leaves the flag       *)
(* behind, and the next position is then stop-sold at its first update.        *)
RetryEndsWithPosition ==
  [][ HavePos /\ acct'.token = NoToken /\ acct'.retry => bucket' > bucket ]_live
===============================================================================
