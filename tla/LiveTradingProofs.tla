-------------------------- MODULE LiveTradingProofs --------------------------
(* Theorems about LiveTrading, for any number of buckets, shares and attempts. *)
(*                                                                             *)
(* Reconciled speaks of the states between two events only.  To prove it, the  *)
(* account has to be followed through every call: Accounted says what is known *)
(* of a token to which nothing has happened, also while a BUY waits for its    *)
(* fill or a stop sale is half done.  ProceedsEarned needs to know where the   *)
(* balances a sale compares came from (Covered).  The theorems at the end      *)
(* follow the retry flag of a stop sale cut short.                             *)
EXTENDS LiveTrading, TLAPS

Buying == {"buyBalance", "buySubmit", "buyResolve"}
Stopping == {"stopBalance", "stopSubmit", "stopConfirm"}
Forcing == {"forceBalance", "forceSubmit"}
Selling == {"sellBalance", "sellSubmit"} \cup Stopping \cup Forcing

(* Which account goes with which call, and whose locals are in use.            *)
OpFits ==
  /\ pc = "idle" => op = NoOp
  /\ pc # "idle" => op.token \in Token
  /\ pc \in Buying => ~HavePos
  /\ pc \in Selling => HavePos /\ op.token = acct.token
  /\ pc \in Forcing => bucket < feed
  /\ pc \notin Stopping => op.sold = 0 /\ op.gone = 0

(* The holding of a clean token: what the order under way matched, or what the *)
(* account says, unless a stop sale is at it or was cut short.                 *)
Accounted(t) ==
  IF pc = "buyResolve" /\ t = op.token
  THEN op.before = 0 /\ shares[t] = op.matched
  ELSE \/ shares[t] = Known(t)
       \/ t = acct.token /\ (acct.retry = TRUE \/ pc \in Stopping)

Traced ==
  /\ \A t \in Token : causes[t] = {} => seen[t] = shares[t] /\ Accounted(t)
  /\ pc = "buySubmit" /\ causes[op.token] = {} => op.before = 0

(* A balance seen after a sale covers what is counted as sold, whether it is   *)
(* up to date or not.                                                          *)
Covered ==
  /\ op.sold <= op.gone
  /\ pc = "stopSubmit" => seen[op.token] \in {op.before, shares[op.token]}
  /\ pc = "stopConfirm" => /\ op.sold + op.before <= op.gone + seen[op.token]
                           /\ op.sold + op.before <= op.gone + shares[op.token]

----------------------------------------------------------------------------
(* The account and the locals as records.                                      *)

Account == [token : Token \cup {NoToken}, qty : Nat, retry : BOOLEAN, risk : BOOLEAN]
Locals == [token : Token \cup {NoToken}, stop : BOOLEAN, before : Nat, matched : Nat,
           tries : 0..(Attempts - 1), sold : Nat, gone : Nat]
Calls == Buying \cup Selling
Booked(a) == a.token # NoToken <=> a.qty > 0

(* Any change of token and quantity leaves the other fields alone.             *)
LEMMA SetPosition ==
  ASSUME NEW a \in Account, NEW k \in Token \cup {NoToken}, NEW n \in Nat
  PROVE  LET b == [a EXCEPT !.token = k, !.qty = n] IN
         b \in Account /\ b.token = k /\ b.qty = n /\ b.retry = a.retry /\ b.risk = a.risk
BY Zenon DEF Account

(* The retry flag is set alone.                                                *)
LEMMA SetRetry ==
  ASSUME NEW a \in Account, NEW r \in BOOLEAN
  PROVE  LET b == [a EXCEPT !.retry = r] IN
         b \in Account /\ b.token = a.token /\ b.qty = a.qty /\ b.retry = r /\ b.risk = a.risk
BY Zenon DEF Account

(* So is the risk stop.                                                        *)
LEMMA SetRisk ==
  ASSUME NEW a \in Account
  PROVE  LET b == [a EXCEPT !.risk = TRUE] IN
         b \in Account /\ b.token = a.token /\ b.qty = a.qty /\ b.retry = a.retry
BY Zenon DEF Account

(* A flattened account has no position.                                        *)
LEMMA SetFlat ==
  ASSUME NEW a \in Account
  PROVE  LET b == [a EXCEPT !.token = NoToken, !.qty = 0, !.retry = FALSE] IN
         b \in Account /\ b.token = NoToken /\ b.qty = 0
BY Zenon, 0 \in Nat DEF Account

(* Each change of the locals leaves the others alone.                          *)
LEMMA SetBefore ==
  ASSUME NEW o \in Locals, NEW n \in Nat
  PROVE  LET p == [o EXCEPT !.before = n] IN
         /\ p \in Locals /\ p.before = n /\ p.token = o.token /\ p.stop = o.stop
         /\ p.matched = o.matched /\ p.tries = o.tries /\ p.sold = o.sold /\ p.gone = o.gone
BY Zenon DEF Locals

(* The matched amount is set alone.                                            *)
LEMMA SetMatched ==
  ASSUME NEW o \in Locals, NEW n \in Nat
  PROVE  LET p == [o EXCEPT !.matched = n] IN
         /\ p \in Locals /\ p.before = o.before /\ p.token = o.token /\ p.stop = o.stop
         /\ p.matched = n /\ p.tries = o.tries /\ p.sold = o.sold /\ p.gone = o.gone
BY Zenon DEF Locals

(* An attempt is counted while there are attempts left.                        *)
LEMMA SetTries ==
  ASSUME NEW o \in Locals, o.tries + 1 < Attempts
  PROVE  LET p == [o EXCEPT !.tries = @ + 1] IN
         /\ p \in Locals /\ p.before = o.before /\ p.token = o.token /\ p.stop = o.stop
         /\ p.matched = o.matched /\ p.sold = o.sold /\ p.gone = o.gone
<1>1. o.tries + 1 \in 0..(Attempts - 1)
  BY LiveAssumption DEF Locals
<1> QED
  BY <1>1, Zenon DEF Locals

(* What is counted as sold grows.                                              *)
LEMMA SetSold ==
  ASSUME NEW o \in Locals, NEW n \in Nat
  PROVE  LET p == [o EXCEPT !.sold = @ + n] IN
         /\ p \in Locals /\ p.before = o.before /\ p.token = o.token /\ p.stop = o.stop
         /\ p.matched = o.matched /\ p.tries = o.tries /\ p.sold = o.sold + n /\ p.gone = o.gone
<1>1. o.sold + n \in Nat
  BY DEF Locals
<1> QED
  BY <1>1, Zenon DEF Locals

(* What was sold grows.                                                        *)
LEMMA SetGone ==
  ASSUME NEW o \in Locals, NEW n \in Nat
  PROVE  LET p == [o EXCEPT !.gone = @ + n] IN
         /\ p \in Locals /\ p.before = o.before /\ p.token = o.token /\ p.stop = o.stop
         /\ p.matched = o.matched /\ p.tries = o.tries /\ p.sold = o.sold /\ p.gone = o.gone + n
<1>1. o.gone + n \in Nat
  BY DEF Locals
<1> QED
  BY <1>1, Zenon DEF Locals
----------------------------------------------------------------------------
(* What the steps leave true of types and shape.                               *)

Fits == TypeOK /\ OpFits

(* Initially.                                                                  *)
LEMMA FitsInit == Init => Fits
<1> SUFFICES ASSUME Init PROVE Fits
  OBVIOUS
<1> USE LiveAssumption
<1>1. acct \in Account /\ acct.token = NoToken /\ acct.qty = 0
  BY DEF Init, Account
<1>2. op \in Locals /\ op.sold = 0 /\ op.gone = 0
  BY DEF Init, NoOp, Locals
<1> QED
  BY <1>1, <1>2 DEF Init, Fits, TypeOK, OpFits, Token, NoToken, HavePos, Account, Locals,
     Buying, Selling, Stopping, Forcing

(* The exchange's part of the types.                                           *)
Exchange == shares \in [Token -> Nat] /\ seen \in [Token -> Nat] /\ bought \in Nat
            /\ causes \in [Token -> SUBSET Cause]

(* A BUY and a SELL keep the exchange's types.                                 *)
LEMMA FillTyped ==
  ASSUME Exchange, NEW t \in Token, NEW n \in Nat, NEW why \in SUBSET Cause, Fill(t, n, why)
  PROVE  Exchange'
<1>1. shares[t] + n \in Nat /\ bought + n \in Nat
  BY DEF Exchange
<1>2. shares' \in [Token -> Nat] /\ bought' \in Nat
  BY <1>1 DEF Exchange, Fill
<1>3. seen' \in [Token -> Nat]
  BY <1>2 DEF Exchange, Fill, Reported
<1>4. Lag(t) \cup (IF n > 0 THEN why ELSE {}) \in SUBSET Cause
  BY DEF Lag, Cause
<1>5. causes' \in [Token -> SUBSET Cause]
  BY <1>4 DEF Exchange, Fill, Blame
<1> QED
  BY <1>2, <1>3, <1>5 DEF Exchange

(* A SELL offers no more than there is.                                        *)
LEMMA SellTyped ==
  ASSUME Exchange, NEW t \in Token, NEW q \in Nat, NEW n, NEW why \in SUBSET Cause,
         Sell(t, q, n, why)
  PROVE  Exchange' /\ n \in Nat
<1>1. n \in Nat /\ shares[t] - n \in Nat
  BY DEF Exchange, Sell
<1>2. shares' \in [Token -> Nat] /\ bought' \in Nat
  BY <1>1 DEF Exchange, Sell
<1>3. seen' \in [Token -> Nat]
  BY <1>2 DEF Exchange, Sell, Reported
<1>4. Lag(t) \cup why \in SUBSET Cause
  BY DEF Lag, Cause
<1>5. causes' \in [Token -> SUBSET Cause]
  BY <1>4 DEF Exchange, Sell, Blame
<1> QED
  BY <1>1, <1>2, <1>3, <1>5 DEF Exchange

(* Ends of an execution.                                                       *)

(* No execution counts nothing.                                                *)
LEMMA NoOpTyped ==
  NoOp \in Locals /\ NoOp.sold = 0 /\ NoOp.gone = 0
BY LiveAssumption DEF NoOp, Locals

(* A risk stop changes no position.                                            *)
LEMMA RiskTyped ==
  ASSUME NEW a \in Account, RiskMayStop(a)
  PROVE  acct' \in Account /\ acct'.token = a.token /\ acct'.qty = a.qty /\ acct'.retry = a.retry
BY SetRisk DEF RiskMayStop

(* Both ways to give up a position empty the account.                          *)
LEMMA Emptied ==
  ASSUME acct \in Account
  PROVE  /\ Forget \in Account /\ Forget.token = NoToken /\ Forget.qty = 0
         /\ Flatten \in Account /\ Flatten.token = NoToken /\ Flatten.qty = 0
<1>1. NoToken \in Token \cup {NoToken} /\ 0 \in Nat
  OBVIOUS
<1>2. Forget \in Account /\ Forget.token = NoToken /\ Forget.qty = 0
  BY <1>1, Zenon DEF Forget, Account
<1>3. Flatten \in Account /\ Flatten.token = NoToken /\ Flatten.qty = 0
  BY SetFlat, Zenon DEF Flatten
<1> QED
  BY <1>2, <1>3

(* What a step makes of account, call and locals when an execution ends.       *)
Ended(a) == pc' = "idle" /\ op' = NoOp /\ acct' \in Account
            /\ acct'.token = a.token /\ acct'.qty = a.qty

(* A stop sale tries again, or leaves the position with the retry flag.        *)
LEMMA NextAttemptEffect ==
  ASSUME NEW o \in Locals, acct \in Account, NextAttempt(o)
  PROVE  \/ /\ pc' = "stopBalance" /\ acct' = acct
            /\ op' \in Locals /\ op'.token = o.token /\ op'.sold = o.sold /\ op'.gone = o.gone
         \/ Ended(acct) /\ acct'.retry = TRUE
<1>1. CASE o.tries + 1 < Attempts
  <2>1. pc' = "stopBalance" /\ acct' = acct /\ op' = [o EXCEPT !.tries = @ + 1]
    BY <1>1 DEF NextAttempt
  <2>2. op' \in Locals /\ op'.token = o.token /\ op'.sold = o.sold /\ op'.gone = o.gone
    BY <1>1, <2>1, SetTries, Zenon
  <2> QED
    BY <2>1, <2>2
<1>2. CASE ~(o.tries + 1 < Attempts)
  <2>1. pc' = "idle" /\ op' = NoOp /\ acct' = [acct EXCEPT !.retry = TRUE]
    BY <1>2 DEF NextAttempt, Idle
  <2>2. /\ acct' \in Account /\ acct'.token = acct.token /\ acct'.qty = acct.qty
        /\ acct'.retry = TRUE
    BY <2>1, SetRetry, Zenon
  <2> QED
    BY <2>1, <2>2 DEF Ended
<1> QED
  BY <1>1, <1>2

(* A stop sale that is done flattens the account.                              *)
LEMMA IsFlatEffect ==
  ASSUME acct \in Account, IsFlat
  PROVE  Ended(Flatten)
BY Emptied, RiskTyped DEF IsFlat, Idle, Ended

(* An execution that is given up keeps the position.                           *)
LEMMA GiveUpEffect ==
  ASSUME acct \in Account, GiveUp
  PROVE  Ended(acct)
BY DEF GiveUp, Idle, Ended

Clocks == bucket \in Token /\ feed \in Token /\ bucket <= feed

(* The parts of Fits, by the names used above.                                 *)
LEMMA FitsParts ==
  Fits <=> /\ Clocks /\ acct \in Account /\ Booked(acct) /\ pc \in Calls \cup {"idle"}
           /\ op \in Locals /\ Exchange /\ OpFits
BY DEF Fits, TypeOK, Clocks, Account, Booked, HavePos, Calls, Buying, Selling, Stopping, Forcing,
   Locals, Exchange

(* An execution that ended leaves an idle thread and a fitting account.        *)
LEMMA EndFits ==
  ASSUME NEW a, Booked(a), Ended(a), Clocks', Exchange'
  PROVE  Fits'
<1>1. Booked(acct)'
  BY DEF Booked, Ended
<1>2. op' \in Locals /\ op'.sold = 0 /\ op'.gone = 0 /\ op' = NoOp
  BY NoOpTyped DEF Ended
<1>3. OpFits'
  BY <1>2 DEF OpFits, Ended, Buying, Selling, Stopping, Forcing
<1> QED
  BY <1>1, <1>2, <1>3 DEF Ended, Fits, TypeOK, Clocks, Account, Booked, HavePos,
     Locals, Exchange

(* An execution that goes on has to fit its next call.                         *)
LEMMA CallFits ==
  ASSUME acct' \in Account, Booked(acct'), pc' \in Calls, op' \in Locals, OpFits', Clocks', Exchange'
  PROVE  Fits'
BY DEF Fits, TypeOK, Clocks, Account, Booked, HavePos, Calls, Buying, Selling, Stopping, Forcing,
   Locals, Exchange

(* Nothing the strategy thread owns has changed.                               *)
LEMMA StayFits ==
  ASSUME Fits, Clocks', Exchange', acct' = acct, pc' = pc, op' = op, pc \in Forcing => bucket' < feed'
  PROVE  Fits'
BY DEF Fits, TypeOK, OpFits, Clocks, Exchange, HavePos

(* Types and shape are inductive: one step per action, which says how the      *)
(* execution goes on or ends.                                                  *)
LEMMA FitsStep == Fits /\ [Next]_live => Fits'
<1> SUFFICES ASSUME Fits, [Next]_live PROVE Fits'
  OBVIOUS
<1>1. /\ Clocks /\ acct \in Account /\ Booked(acct) /\ pc \in Calls \cup {"idle"}
      /\ op \in Locals /\ Exchange /\ OpFits
  BY FitsParts
<1>2. /\ op.before \in Nat /\ op.matched \in Nat /\ op.sold \in Nat /\ op.gone \in Nat
  BY <1>1 DEF Locals
<1>3. pc # "idle" => op.token \in Token /\ seen[op.token] \in Nat /\ shares[op.token] \in Nat
  BY <1>1 DEF OpFits, Exchange
<1>4. Booked(Forget) /\ Booked(Flatten)
  BY <1>1, Emptied DEF Booked
<1>5. ASSUME UNCHANGED exchange PROVE Exchange'
  BY <1>1, <1>5 DEF exchange, Exchange
<1>6. ASSUME UNCHANGED <<bucket, feed>> PROVE Clocks'
  BY <1>1, <1>6 DEF Clocks
<1>7. ASSUME Advance, feed' = feed, bucket < feed PROVE Clocks'
  BY <1>1, <1>7, LiveAssumption DEF Clocks, Advance, Token
<1>8. CASE UNCHANGED live
  <2>1. UNCHANGED exchange /\ UNCHANGED <<bucket, feed>> /\ UNCHANGED <<acct, pc, op>>
    BY <1>8 DEF live, exchange
  <2> QED
    BY <1>1, <1>5, <1>6, <2>1, StayFits DEF OpFits
<1>9. CASE Settle
  <2>1. Exchange'
    BY <1>1, <1>9 DEF Settle, Exchange
  <2> QED
    BY <1>1, <1>6, <2>1, StayFits, <1>9 DEF Settle, OpFits
<1>10. CASE Switch
  <2>1. Clocks' /\ feed' = feed + 1 /\ bucket' = bucket
    BY <1>1, <1>10, LiveAssumption DEF Switch, Clocks, Token
  <2>2. pc \in Forcing => bucket' < feed'
    BY <1>1, <2>1 DEF OpFits, Clocks, Token
  <2> QED
    BY <1>1, <1>5, <2>1, <2>2, StayFits, <1>10 DEF Switch
<1>11. CASE NoSignal
  BY <1>8, <1>11 DEF NoSignal
<1>12. CASE StartBuy
  <2>1. op' = [NoOp EXCEPT !.token = feed]
    BY <1>12 DEF StartBuy
  <2>2. op' \in Locals /\ op'.token = feed /\ op'.sold = NoOp.sold /\ op'.gone = NoOp.gone
    BY <1>1, <2>1, NoOpTyped, Zenon DEF Locals, Clocks
  <2>3. OpFits'
    BY <1>1, <2>2, NoOpTyped, <1>12
       DEF StartBuy, HavePos, Clocks, OpFits, Buying, Selling, Stopping, Forcing
  <2> QED
    BY <1>1, <1>5, <1>6, <2>2, <2>3, CallFits, <1>12 DEF StartBuy, Calls, Buying
<1>13. CASE BuyCapped
  <2>1. /\ acct' \in Account /\ acct'.token = acct.token /\ acct'.qty = acct.qty
    BY <1>1, <1>13, SetRisk, Zenon DEF BuyCapped
  <2>2. Ended(acct)
    BY <1>1, <1>13, <2>1 DEF BuyCapped, Ended, OpFits
  <2> QED
    BY <1>1, <1>5, <1>6, <2>2, EndFits, <1>13 DEF BuyCapped
<1>14. CASE StartSell
  <2>1. PICK stop \in BOOLEAN : op' = [NoOp EXCEPT !.token = acct.token, !.stop = stop]
    BY <1>14, Zenon DEF StartSell
  <2>2. op' \in Locals /\ op'.token = acct.token /\ op'.sold = 0 /\ op'.gone = 0
    <3>1. NoOp \in Locals /\ acct.token \in Token \cup {NoToken}
      BY <1>1, NoOpTyped DEF Account
    <3>2. op' \in Locals /\ op'.token = acct.token /\ op'.sold = NoOp.sold /\ op'.gone = NoOp.gone
      BY <2>1, <3>1, Zenon DEF Locals
    <3> QED
      BY <3>2, NoOpTyped
  <2>3. OpFits'
    BY <1>1, <2>2, <1>14 DEF StartSell, HavePos, Account, OpFits, Buying, Selling, Stopping, Forcing
  <2> QED
    BY <1>1, <1>5, <1>6, <2>2, <2>3, CallFits, <1>14 DEF StartSell, Calls, Selling
<1>15. CASE BuyFails
  <2>1. Ended(acct)
    BY <1>1, <1>15, GiveUpEffect DEF BuyFails
  <2> QED
    BY <1>1, <1>5, <1>6, <2>1, EndFits, <1>15 DEF BuyFails
<1>16. CASE BuyBalance
  <2>1. op' \in Locals /\ op'.token = op.token /\ op'.sold = op.sold /\ op'.gone = op.gone
    BY <1>1, <1>3, <1>16, SetBefore, Zenon DEF BuyBalance
  <2>2. OpFits'
    BY <1>1, <2>1, <1>16 DEF BuyBalance, HavePos, OpFits, Buying, Selling, Stopping, Forcing
  <2> QED
    BY <1>1, <1>5, <1>6, <2>1, <2>2, CallFits, <1>16 DEF BuyBalance, Calls, Buying
<1>17. CASE BuyUnreported
  <2>1. PICK m \in 1..MaxShares : Fill(op.token, m, {"unreported"})
    BY <1>17 DEF BuyUnreported
  <2>2. Exchange'
    BY <1>1, <1>3, <1>17, <2>1, FillTyped, LiveAssumption DEF BuyUnreported, Cause
  <2>3. Ended(acct)
    BY <1>1, <1>17, GiveUpEffect DEF BuyUnreported
  <2> QED
    BY <1>1, <1>6, <2>2, <2>3, EndFits, <1>17 DEF BuyUnreported
<1>18. CASE BuyAccepted
  <2>1. PICK m \in 0..MaxShares : Fill(op.token, m, {}) /\ op' = [op EXCEPT !.matched = m]
    BY <1>18 DEF BuyAccepted
  <2>2. m \in Nat
    BY LiveAssumption
  <2>3. Exchange'
    BY <1>1, <1>3, <1>18, <2>1, <2>2, FillTyped DEF BuyAccepted
  <2>4. op' \in Locals /\ op'.token = op.token /\ op'.sold = op.sold /\ op'.gone = op.gone
    BY <1>1, <2>1, <2>2, SetMatched, Zenon
  <2>5. OpFits'
    BY <1>1, <2>4, <1>18 DEF BuyAccepted, HavePos, OpFits, Buying, Selling, Stopping, Forcing
  <2> QED
    BY <1>1, <1>6, <2>3, <2>4, <2>5, CallFits, <1>18 DEF BuyAccepted, Calls, Buying
<1>19. CASE BuyResolve
  <2>1. PICK told \in {0, op.matched}, answered \in BOOLEAN :
          LET qty == FillQty(told, answered) IN
          IF qty = 0
          THEN /\ UNCHANGED acct
               /\ Blame(op.token, IF op.matched > 0 THEN {"unconfirmed"} ELSE {})
          ELSE /\ RiskMayStop([acct EXCEPT !.token = feed, !.qty = qty])
               /\ causes' = IF feed = op.token THEN causes
                            ELSE [t \in Token |-> IF t \in {feed, op.token}
                                                  THEN causes[t] \cup {"switched"} ELSE causes[t]]
    BY <1>19 DEF BuyResolve
  <2> DEFINE qty == FillQty(told, answered)
  <2>2. qty \in Nat
    BY <1>2, <1>3, <1>19 DEF FillQty, BuyResolve
  <2>3. Exchange'
    <3>1. causes' \in [Token -> SUBSET Cause]
      BY <1>1, <2>1 DEF Exchange, Blame, Cause
    <3> QED
      BY <1>1, <1>19, <3>1 DEF BuyResolve, Exchange
  <2> HIDE DEF qty
  <2>4. CASE qty = 0
    <3>1. Ended(acct)
      BY <1>1, <1>19, <2>1, <2>4 DEF qty, BuyResolve, Idle, Ended
    <3> QED
      BY <1>1, <1>6, <2>3, <3>1, EndFits, <1>19 DEF BuyResolve
  <2>5. CASE qty # 0
    <3> DEFINE a == [acct EXCEPT !.token = feed, !.qty = qty]
    <3>1. feed \in Token \cup {NoToken} /\ feed # NoToken
      BY <1>1 DEF Clocks, Token, NoToken
    <3>2. a \in Account /\ a.token = feed /\ a.qty = qty
      BY <1>1, <2>2, <3>1, Zenon DEF Account
    <3>3. RiskMayStop(a)
      BY <2>1, <2>5 DEF qty
    <3> HIDE DEF a
    <3>4. Ended(a)
      BY <1>19, <3>2, <3>3, RiskTyped DEF BuyResolve, Idle, Ended
    <3>5. Booked(a)
      BY <2>2, <2>5, <3>1, <3>2 DEF Booked
    <3> QED
      BY <1>6, <2>3, <3>4, <3>5, EndFits, <1>19 DEF BuyResolve
  <2> QED
    BY <2>4, <2>5
<1>20. CASE SellFails
  <2>1. Ended(acct)
    BY <1>1, <1>20, GiveUpEffect DEF SellFails
  <2> QED
    BY <1>1, <1>5, <1>6, <2>1, EndFits, <1>20 DEF SellFails
<1>21. CASE SellBalance
  <2>1. CASE seen[op.token] = 0
    <3>1. Ended(acct) \/ Ended(Flatten)
      BY <1>1, <1>21, <2>1, Emptied DEF SellBalance, Idle, Ended
    <3> QED
      BY <1>1, <1>4, <1>5, <1>6, <3>1, EndFits, <1>21 DEF SellBalance
  <2>2. CASE seen[op.token] # 0
    <3>1. /\ op' = [op EXCEPT !.before = seen[op.token]] /\ acct' = acct
          /\ pc' \in {"stopBalance", "sellSubmit"} /\ pc = "sellBalance"
      BY <1>21, <2>2 DEF SellBalance
    <3>2. op' \in Locals /\ op'.token = op.token /\ op'.sold = op.sold /\ op'.gone = op.gone
      BY <1>1, <1>3, <3>1, SetBefore, Zenon
    <3>3. OpFits'
      BY <1>1, <3>1, <3>2 DEF HavePos, OpFits, Buying, Selling, Stopping, Forcing
    <3> QED
      BY <1>1, <1>5, <1>6, <3>1, <3>2, <3>3, CallFits, <1>21
         DEF SellBalance, Calls, Selling, Stopping
  <2> QED
    BY <2>1, <2>2
<1>22. CASE SellUnreported
  <2>1. PICK m \in 1..op.before : Sell(op.token, op.before, m, {"unreported"})
    BY <1>22 DEF SellUnreported
  <2>2. Exchange'
    BY <1>1, <1>2, <1>3, <1>22, <2>1, SellTyped DEF SellUnreported, Cause
  <2>3. Ended(acct)
    BY <1>1, <1>22, GiveUpEffect DEF SellUnreported
  <2> QED
    BY <1>1, <1>6, <2>2, <2>3, EndFits, <1>22 DEF SellUnreported
<1>23. CASE SellAccepted
  <2>1. PICK m \in 0..op.before : Sell(op.token, op.before, m, Partial(op.token))
    BY <1>23 DEF SellAccepted
  <2>2. Exchange'
    BY <1>1, <1>2, <1>3, <1>23, <2>1, SellTyped DEF SellAccepted, Partial, Cause
  <2>3. Ended(Flatten)
    BY <1>1, <1>23, Emptied, RiskTyped DEF SellAccepted, Idle, Ended
  <2> QED
    BY <1>4, <1>6, <2>2, <2>3, EndFits, <1>23 DEF SellAccepted
<1>24. CASE StopFails
  <2>1. \/ /\ pc' = "stopBalance" /\ acct' = acct
           /\ op' \in Locals /\ op'.token = op.token /\ op'.sold = op.sold /\ op'.gone = op.gone
        \/ Ended(acct) /\ acct'.retry = TRUE
    BY <1>1, <1>24, NextAttemptEffect DEF StopFails
  <2>2. CASE Ended(acct)
    BY <1>1, <1>5, <1>6, <2>2, EndFits, <1>24 DEF StopFails
  <2>3. CASE pc' = "stopBalance" /\ acct' = acct /\ op' \in Locals /\ op'.token = op.token
    <3>1. OpFits'
      BY <1>1, <1>24, <2>3 DEF StopFails, HavePos, OpFits, Buying, Selling, Stopping, Forcing
    <3> QED
      BY <1>1, <1>5, <1>6, <2>3, <3>1, CallFits, <1>24 DEF StopFails, Calls, Selling, Stopping
  <2> QED
    BY <2>1, <2>2, <2>3
<1>25. CASE StopBalance
  <2>1. CASE seen[op.token] = 0
    <3>1. Ended(Flatten)
      BY <1>1, <1>25, <2>1, IsFlatEffect DEF StopBalance
    <3> QED
      BY <1>4, <1>5, <1>6, <3>1, EndFits, <1>25 DEF StopBalance
  <2>2. CASE seen[op.token] # 0
    <3>1. /\ op' = [op EXCEPT !.before = seen[op.token]] /\ acct' = acct
          /\ pc' = "stopSubmit" /\ pc = "stopBalance"
      BY <1>25, <2>2 DEF StopBalance
    <3>2. op' \in Locals /\ op'.token = op.token
      BY <1>1, <1>3, <3>1, SetBefore, Zenon
    <3>3. OpFits'
      BY <1>1, <3>1, <3>2 DEF HavePos, OpFits, Buying, Selling, Stopping, Forcing
    <3> QED
      BY <1>1, <1>5, <1>6, <3>1, <3>2, <3>3, CallFits, <1>25
         DEF StopBalance, Calls, Selling, Stopping
  <2> QED
    BY <2>1, <2>2
<1>26. CASE StopUnreported
  <2>1. PICK m \in 1..op.before : /\ Sell(op.token, op.before, m, {"unreported"})
                                  /\ NextAttempt([op EXCEPT !.gone = @ + m])
    BY <1>26 DEF StopUnreported
  <2>2. Exchange' /\ m \in Nat
    BY <1>1, <1>2, <1>3, <1>26, <2>1, SellTyped DEF StopUnreported, Cause
  <2> DEFINE o == [op EXCEPT !.gone = @ + m]
  <2>3. o \in Locals /\ o.token = op.token
    BY <1>1, <2>2, SetGone, Zenon
  <2>4. NextAttempt(o)
    BY <2>1
  <2> HIDE DEF o
  <2>5. \/ /\ pc' = "stopBalance" /\ acct' = acct
           /\ op' \in Locals /\ op'.token = o.token /\ op'.sold = o.sold /\ op'.gone = o.gone
        \/ Ended(acct) /\ acct'.retry = TRUE
    BY <1>1, <2>3, <2>4, NextAttemptEffect
  <2>6. CASE Ended(acct)
    BY <1>1, <1>6, <2>2, <2>6, EndFits, <1>26 DEF StopUnreported
  <2>7. CASE pc' = "stopBalance" /\ acct' = acct /\ op' \in Locals /\ op'.token = op.token
    <3>1. OpFits'
      BY <1>1, <1>26, <2>7 DEF StopUnreported, HavePos, OpFits, Buying, Selling, Stopping, Forcing
    <3> QED
      BY <1>1, <1>6, <2>2, <2>7, <3>1, CallFits, <1>26 DEF StopUnreported, Calls, Selling, Stopping
  <2> QED
    BY <2>3, <2>5, <2>6, <2>7
<1>27. CASE StopAccepted
  <2>1. PICK m \in 0..op.before : /\ Sell(op.token, op.before, m, {})
                                  /\ op' = [op EXCEPT !.gone = @ + m]
    BY <1>27 DEF StopAccepted
  <2>2. Exchange' /\ m \in Nat
    BY <1>1, <1>2, <1>3, <1>27, <2>1, SellTyped DEF StopAccepted
  <2>3. op' \in Locals /\ op'.token = op.token
    BY <1>1, <2>1, <2>2, SetGone, Zenon
  <2>4. OpFits'
    BY <1>1, <2>3, <1>27 DEF StopAccepted, HavePos, OpFits, Buying, Selling, Stopping, Forcing
  <2> QED
    BY <1>1, <1>6, <2>2, <2>3, <2>4, CallFits, <1>27 DEF StopAccepted, Calls, Selling, Stopping
<1>28. CASE StopConfirm
  <2>1. CASE seen[op.token] = 0
    <3>1. Ended(Flatten)
      BY <1>1, <1>28, <2>1, IsFlatEffect DEF StopConfirm
    <3> QED
      BY <1>4, <1>5, <1>6, <3>1, EndFits, <1>28 DEF StopConfirm
  <2>2. CASE seen[op.token] # 0
    <3> DEFINE o == [op EXCEPT !.sold = @ + SoldSince(op)]
    <3>1. SoldSince(op) \in Nat
      BY <1>2, <1>3, <1>28 DEF StopConfirm, SoldSince
    <3>2. o \in Locals /\ o.token = op.token
      BY <1>1, <3>1, SetSold, Zenon
    <3>3. NextAttempt(o)
      BY <1>28, <2>2 DEF StopConfirm
    <3> HIDE DEF o
    <3>4. \/ /\ pc' = "stopBalance" /\ acct' = acct
             /\ op' \in Locals /\ op'.token = o.token /\ op'.sold = o.sold /\ op'.gone = o.gone
          \/ Ended(acct) /\ acct'.retry = TRUE
      BY <1>1, <3>2, <3>3, NextAttemptEffect
    <3>5. CASE Ended(acct)
      BY <1>1, <1>5, <1>6, <3>5, EndFits, <1>28 DEF StopConfirm
    <3>6. CASE pc' = "stopBalance" /\ acct' = acct /\ op' \in Locals /\ op'.token = op.token
      <4>1. OpFits'
        BY <1>1, <1>28, <3>6 DEF StopConfirm, HavePos, OpFits, Buying, Selling, Stopping, Forcing
      <4> QED
        BY <1>1, <1>5, <1>6, <3>6, <4>1, CallFits, <1>28 DEF StopConfirm, Calls, Selling, Stopping
    <3> QED
      BY <3>2, <3>4, <3>5, <3>6
  <2> QED
    BY <2>1, <2>2
<1>29. CASE Rollover
  <2>1. CASE ~HavePos
    <3>1. Ended(acct)
      BY <1>1, <1>29, <2>1 DEF Rollover, Ended, OpFits
    <3>2. UNCHANGED exchange /\ Clocks'
      BY <1>7, <1>29, <2>1 DEF Rollover, exchange
    <3> QED
      BY <1>1, <1>5, <3>1, <3>2, EndFits
  <2>2. CASE HavePos /\ ForceSell
    <3>1. pc' = "forceBalance" /\ op' = [NoOp EXCEPT !.token = acct.token] /\ acct' = acct
      BY <1>29, <2>2 DEF Rollover
    <3>2. UNCHANGED exchange /\ UNCHANGED <<bucket, feed>> /\ bucket < feed
      BY <1>29, <2>2 DEF Rollover, exchange
    <3>3. acct.token \in Token \cup {NoToken}
      BY <1>1 DEF Account
    <3>4. op' \in Locals /\ op'.token = acct.token /\ op'.sold = NoOp.sold /\ op'.gone = NoOp.gone
      BY <3>1, <3>3, NoOpTyped, Zenon DEF Locals
    <3>5. OpFits'
      BY <2>2, <3>1, <3>2, <3>3, <3>4, NoOpTyped DEF HavePos, OpFits, Buying, Selling, Stopping, Forcing
    <3> QED
      BY <1>1, <1>5, <1>6, <3>1, <3>2, <3>4, <3>5, CallFits DEF Calls, Selling, Forcing
  <2>3. CASE HavePos /\ ~ForceSell
    <3>1. Advance /\ acct' = Forget /\ pc' = pc /\ op' = op /\ Blame(acct.token, {"carried"})
      BY <1>29, <2>3 DEF Rollover
    <3>2. Ended(Forget)
      BY <1>1, <1>29, <3>1, Emptied DEF Rollover, Ended, OpFits
    <3>3. Exchange'
      BY <1>1, <1>29, <3>1 DEF Rollover, Blame, Exchange, Cause
    <3>4. Clocks'
      BY <1>7, <1>29, <3>1 DEF Rollover
    <3> QED
      BY <1>4, <3>2, <3>3, <3>4, EndFits
  <2> QED
    BY <2>1, <2>2, <2>3
<1>30. CASE ForceFails
  <2>1. Ended(acct)
    BY <1>1, <1>30, GiveUpEffect DEF ForceFails
  <2>2. Clocks'
    BY <1>1, <1>7, <1>30 DEF ForceFails, OpFits, Forcing
  <2> QED
    BY <1>1, <1>5, <2>1, <2>2, EndFits, <1>30 DEF ForceFails
<1>31. CASE ForceBalance
  <2>1. CASE seen[op.token] = 0
    <3>1. Ended(Forget)
      BY <1>1, <1>31, <2>1, Emptied DEF ForceBalance, Idle, Ended
    <3>2. Clocks'
      BY <1>1, <1>7, <1>31, <2>1 DEF ForceBalance, OpFits, Forcing
    <3> QED
      BY <1>4, <1>5, <3>1, <3>2, EndFits, <1>31 DEF ForceBalance
  <2>2. CASE seen[op.token] # 0
    <3>1. /\ op' = [op EXCEPT !.before = seen[op.token]] /\ UNCHANGED <<acct, bucket, feed>>
          /\ pc' = "forceSubmit" /\ pc = "forceBalance"
      BY <1>31, <2>2 DEF ForceBalance
    <3>2. op' \in Locals /\ op'.token = op.token /\ op'.sold = op.sold /\ op'.gone = op.gone
      BY <1>1, <1>3, <3>1, SetBefore, Zenon
    <3>3. OpFits'
      BY <1>1, <3>1, <3>2 DEF HavePos, OpFits, Buying, Selling, Stopping, Forcing
    <3> QED
      BY <1>1, <1>5, <1>6, <3>1, <3>2, <3>3, CallFits, <1>31
         DEF ForceBalance, Calls, Selling, Forcing
  <2> QED
    BY <2>1, <2>2
<1>32. CASE ForceUnreported
  <2>1. PICK m \in 1..op.before : Sell(op.token, op.before, m, {"unreported"})
    BY <1>32 DEF ForceUnreported
  <2>2. Exchange'
    BY <1>1, <1>2, <1>3, <1>32, <2>1, SellTyped DEF ForceUnreported, Cause
  <2>3. Ended(acct)
    BY <1>1, <1>32, GiveUpEffect DEF ForceUnreported
  <2>4. Clocks'
    BY <1>1, <1>7, <1>32 DEF ForceUnreported, OpFits, Forcing
  <2> QED
    BY <1>1, <2>2, <2>3, <2>4, EndFits
<1>33. CASE ForceAccepted
  <2>1. PICK m \in 0..op.before : Sell(op.token, op.before, m, Partial(op.token))
    BY <1>33 DEF ForceAccepted
  <2>2. Exchange'
    BY <1>1, <1>2, <1>3, <1>33, <2>1, SellTyped DEF ForceAccepted, Partial, Cause
  <2>3. Ended(Forget)
    BY <1>1, <1>33, Emptied DEF ForceAccepted, Idle, Ended
  <2>4. Clocks'
    BY <1>1, <1>7, <1>33 DEF ForceAccepted, OpFits, Forcing
  <2> QED
    BY <1>4, <2>2, <2>3, <2>4, EndFits
<1> QED
  BY <1>8, <1>9, <1>10, <1>11, <1>12, <1>13, <1>14, <1>15, <1>16, <1>17, <1>18, <1>19, <1>20,
     <1>21, <1>22, <1>23, <1>24, <1>25, <1>26, <1>27, <1>28, <1>29, <1>30, <1>31, <1>32, <1>33
     DEF Next, Buy, TakeProfit, StopSale, ForcedSale

----------------------------------------------------------------------------
(* Proceeds.                                                                   *)

(* Nothing is sold at first.                                                   *)
LEMMA CoveredInit == Init => Covered
BY DEF Init, Covered, NoOp

(* Outside a stop sale nothing is counted.                                     *)
LEMMA OutsideCovered ==
  ASSUME Fits', pc' \notin Stopping
  PROVE  Covered'
BY DEF Fits, OpFits, Covered, Stopping

(* A sale takes what was sold from the exchange, of one token.                 *)
LEMMA SellEffect ==
  ASSUME Exchange, NEW t \in Token, NEW q \in Nat, NEW n, NEW why, Sell(t, q, n, why)
  PROVE  /\ n \in Nat /\ n <= q /\ q <= shares[t] /\ shares'[t] = shares[t] - n
         /\ seen'[t] \in {seen[t], shares'[t]}
         /\ causes'[t] = {} => causes[t] = {} /\ why = {} /\ seen'[t] = shares'[t]
         /\ \A u \in Token : u # t => /\ shares'[u] = shares[u] /\ seen'[u] = seen[u]
                                      /\ causes'[u] = causes[u]
<1>1. /\ n \in Nat /\ n <= q /\ q <= shares[t]
      /\ shares' = [shares EXCEPT ![t] = @ - n]
      /\ seen' = [seen EXCEPT ![t] = shares'[t]] \/ seen' = seen
      /\ causes' = [causes EXCEPT ![t] = @ \cup (Lag(t) \cup why)]
  BY DEF Sell, Reported, Blame
<1>2. shares'[t] = shares[t] - n /\ seen'[t] \in {seen[t], shares'[t]}
  BY <1>1 DEF Exchange
<1>3. causes'[t] = causes[t] \cup (Lag(t) \cup why)
  BY <1>1 DEF Exchange
<1>4. causes'[t] = {} => causes[t] = {} /\ why = {} /\ seen'[t] = shares'[t]
  BY <1>3 DEF Lag
<1>5. \A u \in Token : u # t => shares'[u] = shares[u] /\ seen'[u] = seen[u] /\ causes'[u] = causes[u]
  BY <1>1 DEF Exchange
<1> QED
  BY <1>1, <1>2, <1>4, <1>5

(* No step counts more than was sold.                                          *)
LEMMA CoveredStep == Fits /\ Covered /\ [Next]_live => Covered'
<1> SUFFICES ASSUME Fits, Covered, [Next]_live PROVE Covered'
  OBVIOUS
<1>1. /\ acct \in Account /\ op \in Locals /\ Exchange /\ OpFits
  BY FitsParts
<1>2. /\ op.before \in Nat /\ op.sold \in Nat /\ op.gone \in Nat /\ op.sold <= op.gone
  BY <1>1 DEF Locals, Covered
<1>3. Fits'
  BY FitsStep
<1>4. CASE pc' \notin Stopping
  BY <1>3, <1>4, OutsideCovered
<1>5. CASE pc' \in Stopping /\ pc' = pc /\ op' = op /\ shares' = shares
             /\ (seen' = seen \/ Settle)
  <2>1. op.token \in Token
    BY <1>1, <1>5 DEF OpFits, Stopping
  <2>2. seen'[op.token] \in {seen[op.token], shares[op.token]}
    BY <1>1, <1>5, <2>1 DEF Settle, Exchange
  <2> QED
    BY <1>1, <1>2, <1>5, <2>1, <2>2 DEF Covered, Exchange
<1>6. CASE pc' \in Stopping /\ SellBalance
  <2>1. pc' = "stopBalance" /\ op' = [op EXCEPT !.before = seen[op.token]]
    BY <1>6 DEF SellBalance, Idle, Stopping
  <2>2. op'.sold = op.sold /\ op'.gone = op.gone
    BY <1>1, <1>6, <2>1, SetBefore, Zenon DEF Locals
  <2> QED
    BY <1>2, <2>1, <2>2 DEF Covered
<1>7. CASE pc' \in Stopping /\ StopFails
  <2>1. pc' = "stopBalance" /\ op'.sold = op.sold /\ op'.gone = op.gone
    BY <1>1, <1>7, NextAttemptEffect DEF StopFails, Ended, Stopping
  <2> QED
    BY <1>2, <2>1 DEF Covered
<1>8. CASE pc' \in Stopping /\ StopBalance
  <2>1. /\ pc' = "stopSubmit" /\ op' = [op EXCEPT !.before = seen[op.token]] /\ seen' = seen
        /\ pc = "stopBalance"
    BY <1>8 DEF StopBalance, IsFlat, Idle, Stopping, exchange
  <2>2. seen[op.token] \in Nat
    BY <1>1, <2>1 DEF OpFits, Exchange
  <2>3. op'.sold = op.sold /\ op'.gone = op.gone /\ op'.before = seen[op.token] /\ op'.token = op.token
    BY <1>1, <2>1, <2>2, SetBefore, Zenon
  <2> QED
    BY <1>2, <2>1, <2>3 DEF Covered
<1>9. CASE pc' \in Stopping /\ StopUnreported
  <2>1. PICK m \in 1..op.before : NextAttempt([op EXCEPT !.gone = @ + m])
    BY <1>9 DEF StopUnreported
  <2> DEFINE o == [op EXCEPT !.gone = @ + m]
  <2>2. m \in Nat
    BY <1>2
  <2>3. o \in Locals /\ o.sold = op.sold /\ o.gone = op.gone + m
    BY <1>1, <2>2, SetGone, Zenon
  <2>4. NextAttempt(o)
    BY <2>1
  <2> HIDE DEF o
  <2>5. pc' = "stopBalance" /\ op'.sold = o.sold /\ op'.gone = o.gone
    BY <1>1, <1>9, <2>3, <2>4, NextAttemptEffect DEF Ended, Stopping
  <2> QED
    BY <1>2, <2>2, <2>3, <2>5 DEF Covered
<1>10. CASE pc' \in Stopping /\ StopAccepted
  <2>1. PICK m \in 0..op.before : /\ Sell(op.token, op.before, m, {})
                                  /\ op' = [op EXCEPT !.gone = @ + m]
    BY <1>10 DEF StopAccepted
  <2>2. m \in Nat /\ op.token \in Token /\ seen[op.token] \in {op.before, shares[op.token]}
    BY <1>1, <1>2, <1>10 DEF StopAccepted, OpFits, Covered
  <2>3. /\ op'.sold = op.sold /\ op'.gone = op.gone + m
        /\ op'.before = op.before /\ op'.token = op.token
    BY <1>1, <2>1, <2>2, SetGone, Zenon
  <2>4. /\ op.before <= shares[op.token] /\ shares'[op.token] = shares[op.token] - m
        /\ seen'[op.token] \in {seen[op.token], shares'[op.token]}
    BY <1>1, <1>2, <2>1, <2>2, SellEffect
  <2>5. pc' = "stopConfirm" /\ shares[op.token] \in Nat
    BY <1>1, <1>10, <2>2 DEF StopAccepted, Exchange
  <2>6. op'.sold + op'.before <= op'.gone + shares'[op.token]
    BY <1>2, <2>2, <2>3, <2>4, <2>5
  <2>7. op'.sold + op'.before <= op'.gone + seen'[op.token]
    BY <1>2, <2>2, <2>3, <2>4, <2>5
  <2> QED
    BY <1>2, <2>2, <2>3, <2>5, <2>6, <2>7 DEF Covered
<1>11. CASE pc' \in Stopping /\ StopConfirm
  <2> DEFINE o == [op EXCEPT !.sold = @ + SoldSince(op)]
  <2>1. pc = "stopConfirm" /\ NextAttempt(o)
    BY <1>11 DEF StopConfirm, IsFlat, Idle, Stopping
  <2>2. op.token \in Token /\ seen[op.token] \in Nat
    BY <1>1, <2>1 DEF OpFits, Exchange
  <2>3. SoldSince(op) \in Nat /\ op.sold + SoldSince(op) <= op.gone
    BY <1>2, <2>1, <2>2 DEF SoldSince, Covered
  <2>4. o \in Locals /\ o.sold = op.sold + SoldSince(op) /\ o.gone = op.gone
    BY <1>1, <2>3, SetSold, Zenon
  <2> HIDE DEF o
  <2>5. pc' = "stopBalance" /\ op'.sold = o.sold /\ op'.gone = o.gone
    BY <1>1, <1>11, <2>1, <2>4, NextAttemptEffect DEF Ended, Stopping
  <2> QED
    BY <2>3, <2>4, <2>5 DEF Covered
<1>12. \/ pc' \notin Stopping
       \/ pc' = pc /\ op' = op /\ shares' = shares /\ (seen' = seen \/ Settle)
       \/ SellBalance \/ StopFails \/ StopBalance \/ StopUnreported \/ StopAccepted \/ StopConfirm
  <2>1. UNCHANGED live \/ Settle \/ Switch \/ NoSignal
          => pc' = pc /\ op' = op /\ shares' = shares /\ (seen' = seen \/ Settle)
    BY DEF live, exchange, Settle, Switch, NoSignal
  <2>2. Buy \/ StartSell => pc' \notin Stopping
    BY <1>1 DEF Buy, StartBuy, BuyCapped, BuyFails, BuyBalance, BuyUnreported, BuyAccepted,
       BuyResolve, StartSell, GiveUp, Idle, Stopping
  <2>3. SellFails \/ SellUnreported \/ SellAccepted => pc' \notin Stopping
    BY DEF SellFails, SellUnreported, SellAccepted, GiveUp, Idle, Stopping
  <2>4. Rollover => pc' \notin Stopping
    BY DEF Rollover, Stopping
  <2>5. ForceFails \/ ForceBalance \/ ForceUnreported \/ ForceAccepted => pc' \notin Stopping
    BY DEF ForceFails, ForceBalance, ForceUnreported, ForceAccepted, GiveUp, Idle, Stopping
  <2> QED
    BY <2>1, <2>2, <2>3, <2>4, <2>5 DEF Next, TakeProfit, StopSale, ForcedSale
<1> QED
  BY <1>4, <1>5, <1>6, <1>7, <1>8, <1>9, <1>10, <1>11, <1>12

(* What is about to be counted is covered too.                                 *)
LEMMA CoveredEarned == Fits /\ Covered => ProceedsEarned
<1> SUFFICES ASSUME Fits, Covered PROVE ProceedsEarned
  OBVIOUS
<1>1. op \in Locals /\ Exchange /\ OpFits
  BY FitsParts
<1>2. op.before \in Nat /\ op.sold \in Nat /\ op.gone \in Nat
  BY <1>1 DEF Locals
<1>3. pc = "stopConfirm" => seen[op.token] \in Nat
  BY <1>1 DEF OpFits, Exchange
<1> QED
  BY <1>2, <1>3 DEF ProceedsEarned, SoldSince, Covered

----------------------------------------------------------------------------
(* Account and exchange.                                                       *)

(* Nothing is held at first.                                                   *)
LEMMA TracedInit == Init => Traced
<1> SUFFICES ASSUME Init PROVE Traced
  OBVIOUS
<1>1. acct.token = NoToken /\ acct.qty = 0 /\ pc = "idle"
  BY DEF Init
<1> QED
  BY <1>1 DEF Init, Traced, Accounted, Known

(* What Traced says of a token nothing has happened to, between two calls and  *)
(* outside the last step of a BUY.                                             *)
LEMMA TracedTokens ==
  ASSUME Fits, Traced, NEW t \in Token, causes[t] = {}
  PROVE  /\ seen[t] = shares[t] /\ shares[t] \in Nat
         /\ t # acct.token /\ ~(pc = "buyResolve" /\ t = op.token) => shares[t] = 0
         /\ pc # "buyResolve" /\ pc \notin Stopping
              => shares[t] = Known(t) \/ (t = acct.token /\ acct.retry = TRUE)
         /\ pc = "buyResolve" /\ t = op.token => op.before = 0 /\ shares[t] = op.matched
<1>1. seen[t] = shares[t] /\ Accounted(t)
  BY DEF Traced
<1>2. shares[t] \in Nat
  BY FitsParts DEF Exchange
<1>3. CASE pc = "buyResolve" /\ t = op.token
  BY <1>1, <1>2, <1>3 DEF Accounted, Stopping
<1>4. CASE ~(pc = "buyResolve" /\ t = op.token)
  <2>1. shares[t] = Known(t) \/ (t = acct.token /\ (acct.retry = TRUE \/ pc \in Stopping))
    BY <1>1, <1>4 DEF Accounted
  <2>2. t # acct.token => Known(t) = 0
    BY DEF Known
  <2> QED
    BY <1>1, <1>2, <1>4, <2>1, <2>2
<1> QED
  BY <1>3, <1>4

(* The position is kept, and what is clean afterwards is as it was.            *)
LEMMA KeepTraced ==
  ASSUME Fits, Traced, pc # "buyResolve", pc \notin Stopping,
         pc' \notin {"buySubmit", "buyResolve"},
         acct'.token = acct.token, acct'.qty = acct.qty, acct'.retry = acct.retry,
         \A t \in Token : causes'[t] = {} =>
           causes[t] = {} /\ shares'[t] = shares[t] /\ seen'[t] = shares'[t]
  PROVE  Traced'
<1>1. ASSUME NEW t \in Token, causes'[t] = {}
      PROVE  seen'[t] = shares'[t] /\ Accounted(t)'
  <2>1. shares[t] = Known(t) \/ (t = acct.token /\ acct.retry = TRUE)
    BY <1>1, TracedTokens
  <2>2. Known(t)' = Known(t)
    BY DEF Known
  <2> QED
    BY <1>1, <2>1, <2>2 DEF Accounted
<1> QED
  BY <1>1 DEF Traced

(* A stop sale goes on, or is given up and will be retried.                    *)
LEMMA StopTraced ==
  ASSUME Fits, Traced, pc \in Stopping, acct'.token = acct.token, acct'.qty = acct.qty,
         (pc' \in Stopping \/ (pc' = "idle" /\ acct'.retry = TRUE)),
         \A t \in Token : causes'[t] = {} =>
           /\ causes[t] = {} /\ seen'[t] = shares'[t]
           /\ t # acct.token => shares'[t] = shares[t]
  PROVE  Traced'
<1>1. ASSUME NEW t \in Token, causes'[t] = {}
      PROVE  seen'[t] = shares'[t] /\ Accounted(t)'
  BY <1>1, TracedTokens DEF Accounted, Known, Stopping
<1> QED
  BY <1>1 DEF Traced, Stopping

(* The position is given up, and its token is clean only if nothing is left.   *)
LEMMA FlatTraced ==
  ASSUME Fits, Traced, pc # "buyResolve", pc' = "idle", acct'.token = NoToken,
         \A t \in Token : causes'[t] = {} =>
           /\ causes[t] = {} /\ seen'[t] = shares'[t]
           /\ shares'[t] = IF t = acct.token THEN 0 ELSE shares[t]
  PROVE  Traced'
<1>1. ASSUME NEW t \in Token, causes'[t] = {}
      PROVE  seen'[t] = shares'[t] /\ Accounted(t)'
  <2>1. shares'[t] = 0
    BY <1>1, TracedTokens
  <2> QED
    BY <1>1, <2>1 DEF Accounted, Known, Token, NoToken
<1> QED
  BY <1>1 DEF Traced

(* A BUY raises the holding of one token.                                      *)
LEMMA FillEffect ==
  ASSUME Exchange, NEW t \in Token, NEW n \in Nat, NEW why, Fill(t, n, why)
  PROVE  /\ shares'[t] = shares[t] + n
         /\ causes'[t] = {} => /\ causes[t] = {} /\ (n > 0 => why = {})
                               /\ seen'[t] = shares'[t]
         /\ \A u \in Token : u # t => /\ shares'[u] = shares[u] /\ seen'[u] = seen[u]
                                      /\ causes'[u] = causes[u]
<1>1. /\ shares' = [shares EXCEPT ![t] = @ + n]
      /\ seen' = [seen EXCEPT ![t] = shares'[t]] \/ seen' = seen
      /\ causes' = [causes EXCEPT ![t] = @ \cup (Lag(t) \cup (IF n > 0 THEN why ELSE {}))]
  BY DEF Fill, Reported, Blame
<1>2. shares'[t] = shares[t] + n
  BY <1>1 DEF Exchange
<1>3. causes'[t] = causes[t] \cup (Lag(t) \cup (IF n > 0 THEN why ELSE {}))
  BY <1>1 DEF Exchange
<1>4. causes'[t] = {} => causes[t] = {} /\ (n > 0 => why = {}) /\ seen'[t] = shares'[t]
  BY <1>3 DEF Lag
<1>5. \A u \in Token : u # t => shares'[u] = shares[u] /\ seen'[u] = seen[u] /\ causes'[u] = causes[u]
  BY <1>1 DEF Exchange
<1> QED
  BY <1>2, <1>4, <1>5

(* Every action keeps track of the tokens nothing happens to.                  *)
LEMMA TracedStep == Fits /\ Traced /\ [Next]_live => Traced'
<1> SUFFICES ASSUME Fits, Traced, [Next]_live PROVE Traced'
  OBVIOUS
<1>1. /\ acct \in Account /\ op \in Locals /\ Exchange /\ OpFits
  BY FitsParts
<1>2. op.before \in Nat /\ op.matched \in Nat
  BY <1>1 DEF Locals
<1>3. \A t \in Token : causes[t] = {} => seen[t] = shares[t]
  BY DEF Traced
<1>4. pc \in Selling => op.token \in Token /\ op.token = acct.token
  BY <1>1 DEF OpFits, Selling, Stopping, Forcing
<1>5. /\ Forget.token = NoToken /\ Flatten.token = NoToken /\ Flatten \in Account
  BY <1>1, Emptied
<1>6. CASE UNCHANGED live \/ NoSignal \/ Switch
  <2>1. UNCHANGED <<acct, pc, op, shares, seen, causes>>
    BY <1>6 DEF live, exchange, NoSignal, Switch
  <2> QED
    BY <2>1 DEF Traced, Accounted, Known
<1>7. CASE Settle
  <2>1. /\ UNCHANGED <<acct, pc, op, shares, causes>>
        /\ \A t \in Token : seen'[t] \in {seen[t], shares[t]}
    BY <1>1, <1>7 DEF Settle, Exchange
  <2> QED
    BY <2>1 DEF Traced, Accounted, Known
<1>8. CASE StartBuy \/ StartSell \/ BuyFails \/ SellFails
  <2>1. UNCHANGED <<acct, shares, seen, causes>>
    BY <1>8 DEF StartBuy, StartSell, BuyFails, SellFails, GiveUp, exchange
  <2>2. pc \notin Stopping /\ pc # "buyResolve" /\ pc' \in {"idle", "buyBalance", "sellBalance"}
    BY <1>8 DEF StartBuy, StartSell, BuyFails, SellFails, GiveUp, Idle, Stopping
  <2> QED
    BY <1>3, <2>1, <2>2, KeepTraced
<1>9. CASE BuyCapped
  <2>1. acct'.token = acct.token /\ acct'.qty = acct.qty /\ acct'.retry = acct.retry
    BY <1>1, <1>9, SetRisk, Zenon DEF BuyCapped
  <2>2. UNCHANGED <<shares, seen, causes>> /\ pc = "idle" /\ pc' = "idle"
    BY <1>9 DEF BuyCapped, exchange
  <2> QED
    BY <1>3, <2>1, <2>2, KeepTraced DEF Stopping
<1>10. CASE BuyBalance
  <2>1. /\ pc = "buyBalance" /\ pc' = "buySubmit" /\ op' = [op EXCEPT !.before = seen[op.token]]
        /\ UNCHANGED <<acct, shares, seen, causes>>
    BY <1>10 DEF BuyBalance, exchange
  <2>2. op.token \in Token /\ acct.token = NoToken /\ seen[op.token] \in Nat
    BY <1>1, <2>1 DEF OpFits, Buying, HavePos, Exchange
  <2>3. op'.before = seen[op.token] /\ op'.token = op.token
    BY <1>1, <2>1, <2>2, SetBefore, Zenon
  <2>4. ASSUME NEW t \in Token, causes'[t] = {}
        PROVE  seen'[t] = shares'[t] /\ Accounted(t)'
    BY <2>1, <2>4, TracedTokens DEF Accounted, Known, Stopping
  <2>5. causes[op.token] = {} => op'.before = 0
    <3>1. SUFFICES ASSUME causes[op.token] = {} PROVE seen[op.token] = 0
      BY <2>3
    <3>2. op.token # acct.token
      BY <2>2 DEF Token, NoToken
    <3> QED
      BY <2>1, <2>2, <3>1, <3>2, TracedTokens
  <2> QED
    BY <2>1, <2>3, <2>4, <2>5 DEF Traced
<1>11. CASE BuyUnreported
  <2>1. PICK m \in 1..MaxShares : Fill(op.token, m, {"unreported"})
    BY <1>11 DEF BuyUnreported
  <2>2. pc = "buySubmit" /\ pc' = "idle" /\ acct' = acct /\ op.token \in Token
    BY <1>1, <1>11 DEF BuyUnreported, GiveUp, Idle, OpFits
  <2>3. m \in Nat /\ m > 0
    BY LiveAssumption
  <2>4. ASSUME NEW t \in Token, causes'[t] = {}
        PROVE  causes[t] = {} /\ shares'[t] = shares[t] /\ seen'[t] = shares'[t]
    BY <1>1, <1>3, <2>1, <2>2, <2>3, <2>4, FillEffect
  <2> QED
    BY <2>2, <2>4, KeepTraced DEF Stopping
<1>12. CASE BuyAccepted
  <2>1. PICK m \in 0..MaxShares : Fill(op.token, m, {}) /\ op' = [op EXCEPT !.matched = m]
    BY <1>12 DEF BuyAccepted
  <2>2. m \in Nat
    BY LiveAssumption
  <2>3. /\ pc = "buySubmit" /\ pc' = "buyResolve" /\ acct' = acct /\ op.token \in Token
        /\ acct.token = NoToken
    BY <1>1, <1>12 DEF BuyAccepted, OpFits, Buying, HavePos
  <2>4. op'.matched = m /\ op'.before = op.before /\ op'.token = op.token
    BY <1>1, <2>1, <2>2, SetMatched, Zenon
  <2>5. ASSUME NEW t \in Token, causes'[t] = {}
        PROVE  seen'[t] = shares'[t] /\ Accounted(t)'
    <3>1. CASE t = op.token
      <4>1. causes[t] = {} /\ seen'[t] = shares'[t] /\ shares'[t] = shares[t] + m
        BY <1>1, <2>1, <2>2, <2>3, <2>5, <3>1, FillEffect
      <4>2. t # acct.token
        BY <2>3 DEF Token, NoToken
      <4>3. shares[t] = 0 /\ op.before = 0
        BY <2>3, <3>1, <4>1, <4>2, TracedTokens DEF Traced
      <4> QED
        BY <2>2, <2>3, <2>4, <3>1, <4>1, <4>3 DEF Accounted
    <3>2. CASE t # op.token
      <4>1. causes[t] = {} /\ seen'[t] = seen[t] /\ shares'[t] = shares[t]
        BY <1>1, <2>1, <2>2, <2>3, <2>5, <3>2, FillEffect
      <4> QED
        BY <2>3, <2>4, <3>2, <4>1, TracedTokens DEF Accounted, Known, Stopping
    <3> QED
      BY <3>1, <3>2
  <2> QED
    BY <2>3, <2>5 DEF Traced
<1>13. CASE BuyResolve
  <2>1. PICK told \in {0, op.matched}, answered \in BOOLEAN :
          LET qty == FillQty(told, answered) IN
          IF qty = 0
          THEN /\ UNCHANGED acct
               /\ Blame(op.token, IF op.matched > 0 THEN {"unconfirmed"} ELSE {})
          ELSE /\ RiskMayStop([acct EXCEPT !.token = feed, !.qty = qty])
               /\ causes' = IF feed = op.token THEN causes
                            ELSE [t \in Token |-> IF t \in {feed, op.token}
                                                  THEN causes[t] \cup {"switched"} ELSE causes[t]]
    BY <1>13 DEF BuyResolve
  <2> DEFINE qty == FillQty(told, answered)
  <2>2. /\ pc = "buyResolve" /\ pc' = "idle" /\ UNCHANGED <<shares, seen>>
        /\ op.token \in Token /\ acct.token = NoToken /\ feed \in Token
    BY <1>1, <1>13, FitsParts DEF BuyResolve, Idle, OpFits, Buying, HavePos, Clocks
  <2>3. qty \in Nat
    BY <1>1, <1>2, <2>2 DEF FillQty, Exchange
  <2>4. causes[op.token] = {} => qty \in {0, op.matched} /\ shares[op.token] = op.matched
    BY <1>2, <2>2, TracedTokens DEF FillQty
  <2> HIDE DEF qty
  <2>5. CASE qty = 0
    <3>1. acct' = acct /\ causes' = [causes EXCEPT ![op.token] = @ \cup
             (IF op.matched > 0 THEN {"unconfirmed"} ELSE {})]
      BY <2>1, <2>5 DEF qty, Blame
    <3>2. ASSUME NEW t \in Token, causes'[t] = {}
          PROVE  seen'[t] = shares'[t] /\ Accounted(t)'
      <4>1. causes[t] = {} /\ (t = op.token => op.matched = 0)
        BY <1>1, <1>2, <2>2, <3>1, <3>2 DEF Exchange
      <4>2. t # acct.token
        BY <2>2 DEF Token, NoToken
      <4>3. seen[t] = shares[t] /\ shares[t] = 0
        BY <2>2, <2>4, <4>1, <4>2, TracedTokens
      <4> QED
        BY <2>2, <3>1, <4>2, <4>3 DEF Accounted, Known
    <3> QED
      BY <2>2, <3>2 DEF Traced
  <2>6. CASE qty # 0
    <3> DEFINE a == [acct EXCEPT !.token = feed, !.qty = qty]
    <3>1. a \in Account /\ a.token = feed /\ a.qty = qty
      BY <1>1, <2>2, <2>3, Zenon DEF Account
    <3>2. RiskMayStop(a)
      BY <2>1, <2>6 DEF qty
    <3> HIDE DEF a
    <3>3. acct'.token = feed /\ acct'.qty = qty
      BY <3>1, <3>2, RiskTyped
    <3>4. causes' = IF feed = op.token THEN causes
                    ELSE [t \in Token |-> IF t \in {feed, op.token}
                                          THEN causes[t] \cup {"switched"} ELSE causes[t]]
      BY <2>1, <2>6 DEF qty
    <3>5. ASSUME NEW t \in Token, causes'[t] = {}
          PROVE  seen'[t] = shares'[t] /\ Accounted(t)'
      <4>1. causes[t] = {} /\ (t \in {feed, op.token} => feed = op.token)
        BY <3>4, <3>5
      <4>2. t # acct.token
        BY <2>2 DEF Token, NoToken
      <4>3. seen[t] = shares[t] /\ shares[t] = IF t = feed THEN qty ELSE 0
        BY <2>2, <2>4, <2>6, <4>1, <4>2, TracedTokens
      <4> QED
        BY <2>2, <3>3, <4>3 DEF Accounted, Known
    <3> QED
      BY <2>2, <3>5 DEF Traced
  <2> QED
    BY <2>5, <2>6
<1>14. CASE SellBalance
  <2>1. /\ pc = "sellBalance" /\ UNCHANGED <<shares, seen, causes>>
        /\ pc' \in {"idle", "stopBalance", "sellSubmit"}
    BY <1>14 DEF SellBalance, Idle, exchange
  <2>2. CASE acct' = acct
    BY <1>3, <2>1, <2>2, KeepTraced DEF Stopping
  <2>3. CASE acct' # acct
    <3>1. seen[op.token] = 0 /\ acct' = Flatten /\ pc' = "idle"
      BY <1>14, <2>3 DEF SellBalance, Idle
    <3>2. op.token = acct.token
      BY <1>4, <2>1 DEF Selling
    <3> QED
      BY <1>3, <1>5, <2>1, <3>1, <3>2, FlatTraced
  <2> QED
    BY <2>2, <2>3
<1>15. CASE SellUnreported \/ ForceUnreported
  <2>1. PICK m \in 1..op.before : Sell(op.token, op.before, m, {"unreported"})
    BY <1>15 DEF SellUnreported, ForceUnreported
  <2>2. pc \in {"sellSubmit", "forceSubmit"} /\ pc' = "idle" /\ acct' = acct
    BY <1>15 DEF SellUnreported, ForceUnreported, GiveUp, Idle
  <2>3. op.token \in Token
    BY <1>4, <2>2 DEF Selling, Forcing
  <2>4. ASSUME NEW t \in Token, causes'[t] = {}
        PROVE  causes[t] = {} /\ shares'[t] = shares[t] /\ seen'[t] = shares'[t]
    BY <1>1, <1>2, <1>3, <2>1, <2>3, <2>4, SellEffect
  <2> QED
    BY <2>2, <2>4, KeepTraced DEF Stopping
<1>16. CASE SellAccepted \/ ForceAccepted
  <2>1. PICK m \in 0..op.before : Sell(op.token, op.before, m, Partial(op.token))
    BY <1>16 DEF SellAccepted, ForceAccepted
  <2>2. pc \in {"sellSubmit", "forceSubmit"} /\ pc' = "idle"
    BY <1>16 DEF SellAccepted, ForceAccepted, Idle
  <2>3. acct'.token = NoToken
    BY <1>5, <1>16, RiskTyped DEF SellAccepted, ForceAccepted
  <2>4. op.token \in Token /\ op.token = acct.token /\ shares[op.token] \in Nat
    BY <1>1, <1>4, <2>2 DEF Selling, Forcing, Exchange
  <2>5. ASSUME NEW t \in Token, causes'[t] = {}
        PROVE  /\ causes[t] = {} /\ seen'[t] = shares'[t]
               /\ shares'[t] = IF t = acct.token THEN 0 ELSE shares[t]
    <3>1. CASE t = op.token
      <4>1. /\ causes[t] = {} /\ Partial(op.token) = {} /\ seen'[t] = shares'[t]
            /\ shares'[t] = shares[t] - m /\ m <= op.before /\ op.before <= shares[t]
        BY <1>1, <1>2, <2>1, <2>4, <2>5, <3>1, SellEffect
      <4> QED
        BY <1>2, <2>4, <3>1, <4>1 DEF Partial
    <3>2. CASE t # op.token
      BY <1>1, <1>2, <1>3, <2>1, <2>4, <2>5, <3>2, SellEffect
    <3> QED
      BY <3>1, <3>2
  <2> QED
    BY <2>2, <2>3, <2>5, FlatTraced
<1>17. CASE StopFails
  <2>1. pc \in Stopping /\ UNCHANGED <<shares, seen, causes>>
    BY <1>17 DEF StopFails, Stopping, exchange
  <2>2. /\ acct'.token = acct.token /\ acct'.qty = acct.qty
        /\ (pc' \in Stopping \/ (pc' = "idle" /\ acct'.retry = TRUE))
    BY <1>1, <1>17, NextAttemptEffect DEF StopFails, Ended, Stopping
  <2> QED
    BY <1>3, <2>1, <2>2, StopTraced
<1>18. CASE StopBalance \/ StopConfirm
  <2>1. pc \in {"stopBalance", "stopConfirm"} /\ UNCHANGED <<shares, seen, causes>>
    BY <1>18 DEF StopBalance, StopConfirm, exchange
  <2>2. op.token \in Token /\ op.token = acct.token /\ seen[op.token] \in Nat
    BY <1>1, <1>4, <2>1 DEF Selling, Stopping, Exchange
  <2>3. CASE seen[op.token] = 0
    <3>1. Ended(Flatten)
      BY <1>1, <1>18, <2>3, IsFlatEffect DEF StopBalance, StopConfirm
    <3> QED
      BY <1>3, <1>5, <2>1, <2>2, <2>3, <3>1, FlatTraced DEF Ended
  <2>4. CASE seen[op.token] # 0
    <3>1. /\ acct'.token = acct.token /\ acct'.qty = acct.qty
          /\ (pc' \in Stopping \/ (pc' = "idle" /\ acct'.retry = TRUE))
      <4>1. CASE StopBalance
        BY <2>4, <4>1 DEF StopBalance, Stopping
      <4>2. CASE StopConfirm
        <5>1. SoldSince(op) \in Nat
          BY <1>2, <2>2 DEF SoldSince
        <5>2. [op EXCEPT !.sold = @ + SoldSince(op)] \in Locals
          BY <1>1, <5>1, SetSold, Zenon
        <5>3. NextAttempt([op EXCEPT !.sold = @ + SoldSince(op)])
          BY <2>4, <4>2 DEF StopConfirm
        <5> QED
          BY <1>1, <5>2, <5>3, NextAttemptEffect, Zenon DEF Ended, Stopping
      <4> QED
        BY <1>18, <4>1, <4>2
    <3> QED
      BY <1>3, <2>1, <3>1, StopTraced DEF Stopping
  <2> QED
    BY <2>3, <2>4
<1>19. CASE StopUnreported \/ StopAccepted
  <2>1. PICK m \in 0..op.before, why \in {{}, {"unreported"}} : Sell(op.token, op.before, m, why)
    <3>1. CASE StopAccepted
      BY <3>1 DEF StopAccepted
    <3>2. CASE StopUnreported
      <4>1. PICK n \in 1..op.before : Sell(op.token, op.before, n, {"unreported"})
        BY <3>2 DEF StopUnreported
      <4>2. n \in 0..op.before
        BY <1>2
      <4> QED
        BY <4>1, <4>2
    <3> QED
      BY <1>19, <3>1, <3>2
  <2>2. pc = "stopSubmit" /\ op.token \in Token /\ op.token = acct.token
    BY <1>4, <1>19 DEF StopUnreported, StopAccepted, Selling, Stopping
  <2>3. /\ acct'.token = acct.token /\ acct'.qty = acct.qty
        /\ (pc' \in Stopping \/ (pc' = "idle" /\ acct'.retry = TRUE))
    <3>1. CASE StopAccepted
      BY <3>1 DEF StopAccepted, Stopping
    <3>2. CASE StopUnreported
      <4>1. PICK n \in 1..op.before : NextAttempt([op EXCEPT !.gone = @ + n])
        BY <3>2 DEF StopUnreported
      <4>2. n \in Nat
        BY <1>2
      <4>3. [op EXCEPT !.gone = @ + n] \in Locals
        BY <1>1, <4>2, SetGone, Zenon
      <4> QED
        BY <1>1, <4>1, <4>3, NextAttemptEffect, Zenon DEF Ended, Stopping
    <3> QED
      BY <1>19, <3>1, <3>2
  <2>4. ASSUME NEW t \in Token, causes'[t] = {}
        PROVE  /\ causes[t] = {} /\ seen'[t] = shares'[t]
               /\ t # acct.token => shares'[t] = shares[t]
    BY <1>1, <1>2, <1>3, <2>1, <2>2, <2>4, SellEffect
  <2> QED
    BY <2>2, <2>3, <2>4, StopTraced DEF Stopping
<1>20. CASE Rollover
  <2>1. pc = "idle" /\ UNCHANGED <<shares, seen>>
    BY <1>20 DEF Rollover
  <2>2. CASE HavePos /\ ~ForceSell
    <3>1. acct' = Forget /\ pc' = "idle" /\ Blame(acct.token, {"carried"})
      BY <1>20, <2>2 DEF Rollover
    <3>2. acct.token \in Token
      BY <1>1, <2>2 DEF Account, HavePos
    <3>3. causes'[acct.token] # {} /\ \A t \in Token : t # acct.token => causes'[t] = causes[t]
      BY <1>1, <3>1, <3>2 DEF Blame, Exchange
    <3> QED
      BY <1>3, <1>5, <2>1, <3>1, <3>3, FlatTraced
  <2>3. CASE ~(HavePos /\ ~ForceSell)
    <3>1. UNCHANGED <<acct, causes>> /\ pc' \in {"idle", "forceBalance"}
      BY <1>20, <2>3 DEF Rollover
    <3> QED
      BY <1>3, <2>1, <3>1, KeepTraced DEF Stopping
  <2> QED
    BY <2>2, <2>3
<1>21. CASE ForceFails
  <2>1. /\ pc \in Forcing /\ pc' = "idle" /\ UNCHANGED <<acct, shares, seen, causes>>
    BY <1>21 DEF ForceFails, GiveUp, Idle, Forcing, exchange
  <2> QED
    BY <1>3, <2>1, KeepTraced DEF Stopping, Forcing
<1>22. CASE ForceBalance
  <2>1. pc = "forceBalance" /\ UNCHANGED <<shares, seen, causes>>
    BY <1>22 DEF ForceBalance, exchange
  <2>2. op.token = acct.token
    BY <1>4, <2>1 DEF Selling, Forcing
  <2>3. CASE seen[op.token] = 0
    <3>1. acct' = Forget /\ pc' = "idle"
      BY <1>22, <2>3 DEF ForceBalance, Idle
    <3> QED
      BY <1>3, <1>5, <2>1, <2>2, <2>3, <3>1, FlatTraced
  <2>4. CASE seen[op.token] # 0
    <3>1. acct' = acct /\ pc' = "forceSubmit"
      BY <1>22, <2>4 DEF ForceBalance
    <3> QED
      BY <1>3, <2>1, <3>1, KeepTraced DEF Stopping
  <2> QED
    BY <2>3, <2>4
<1> QED
  BY <1>6, <1>7, <1>8, <1>9, <1>10, <1>11, <1>12, <1>13, <1>14, <1>15, <1>16, <1>17, <1>18,
     <1>19, <1>20, <1>21, <1>22
     DEF Next, Buy, TakeProfit, StopSale, ForcedSale

(* Between two events the account says what is held, or that it is not known.  *)
LEMMA TracedReconciled == Fits /\ Traced => Reconciled
<1> SUFFICES ASSUME Fits, Traced, pc = "idle", NEW t \in Token, causes[t] = {},
                    shares[t] # Known(t)
             PROVE  t = acct.token /\ acct.retry
  BY DEF Reconciled
<1>1. t = acct.token /\ acct.retry = TRUE
  BY TracedTokens DEF Stopping
<1> QED
  BY <1>1

----------------------------------------------------------------------------
(* Theorems.                                                                   *)

(* The inductive invariant holds in every reachable state.                     *)
LEMMA InvCorrect == Spec => [](Fits /\ Traced /\ Covered)
<1>1. Init => Fits /\ Traced /\ Covered
  BY FitsInit, TracedInit, CoveredInit
<1>2. Fits /\ Traced /\ Covered /\ [Next]_live => (Fits /\ Traced /\ Covered)'
  BY FitsStep, TracedStep, CoveredStep
<1> QED
  BY <1>1, <1>2, PTL DEF Spec

(* The account and the locals of every execution have their types; a position  *)
(* has shares and an account without one has none.                             *)
THEOREM TypeCorrect == Spec => []TypeOK
<1>1. Fits => TypeOK
  BY DEF Fits
<1> QED
  BY <1>1, InvCorrect, PTL

(* Between two events account and exchange agree on every token to which none  *)
(* of the six causes happened, or the retry flag says that they do not.        *)
THEOREM ReconciledCorrect == Spec => []Reconciled
BY TracedReconciled, InvCorrect, PTL

(* A stop sale never books proceeds of shares it did not sell.                 *)
THEOREM ProceedsCorrect == Spec => []ProceedsEarned
BY CoveredEarned, InvCorrect, PTL

(* A booking that flattens the position clears the retry flag as well.         *)
LEMMA FlatClears ==
  ASSUME Fits, acct' = Flatten \/ RiskMayStop(Flatten)
  PROVE  ~acct'.retry
<1>1. acct \in Account
  BY DEF Fits, TypeOK, Account
<1>2. Flatten.retry = FALSE /\ [Flatten EXCEPT !.risk = TRUE].retry = FALSE
  BY <1>1, Zenon DEF Flatten, Account
<1> QED
  BY <1>2, Zenon DEF RiskMayStop

(* The account that gives up a sale keeps its position.                        *)
LEMMA NextAttemptKeeps ==
  ASSUME Fits, NEW o, NextAttempt(o)
  PROVE  acct'.token = acct.token
<1>1. acct \in Account
  BY DEF Fits, TypeOK, Account
<1>2. [acct EXCEPT !.retry = TRUE].token = acct.token
  BY <1>1, SetRetry
<1> QED
  BY <1>2 DEF NextAttempt

(* The retry flag ends with the position it speaks of, whichever way the       *)
(* position is sold; only a rollover leaves it behind.                         *)
THEOREM RetryEndsCorrect == Spec => RetryEndsWithPosition
<1>1. Fits /\ [Next]_live => [HavePos /\ acct'.token = NoToken /\ acct'.retry => bucket' > bucket]_live
  <2> SUFFICES ASSUME Fits, Next, HavePos, acct'.token = NoToken, acct'.retry
               PROVE  bucket' > bucket
    BY DEF HavePos
  <2>1. acct' # acct
    BY DEF HavePos
  <2>2. ~(acct' = Flatten \/ RiskMayStop(Flatten))
    BY FlatClears
  <2>3. ASSUME NEW o PROVE ~NextAttempt(o)
    BY NextAttemptKeeps DEF HavePos
  <2>4. CASE Advance
    BY <2>4 DEF Advance, Fits, TypeOK, Token
  <2>5. CASE Settle \/ Switch \/ NoSignal \/ StartSell
    BY <2>1, <2>5 DEF Settle, Switch, NoSignal, StartSell, live
  <2>6. CASE Buy
    <3>1. pc \notin Buying
      BY DEF Fits, OpFits
    <3> QED
      BY <2>1, <2>6, <3>1 DEF Buy, StartBuy, BuyCapped, BuyFails, BuyBalance, BuyUnreported,
                              BuyAccepted, BuyResolve, Buying
  <2>7. CASE TakeProfit
    BY <2>1, <2>2, <2>7 DEF TakeProfit, SellFails, SellBalance, SellUnreported, SellAccepted, GiveUp
  <2>8. CASE StopSale
    BY <2>1, <2>2, <2>3, <2>8 DEF StopSale, StopFails, StopBalance, StopUnreported, StopAccepted,
                                  StopConfirm, IsFlat
  <2>9. CASE ForcedSale
    BY <2>1, <2>4, <2>9 DEF ForcedSale, Rollover, ForceFails, ForceBalance, ForceUnreported,
                            ForceAccepted
  <2> QED
    BY <2>5, <2>6, <2>7, <2>8, <2>9 DEF Next
<1> QED
  BY <1>1, InvCorrect, PTL DEF Spec, RetryEndsWithPosition

(* A stop sale that was begun or cut short goes on until the position is gone, *)
(* whatever fails and whenever a rollover comes.                               *)
THEOREM StopSaleKeptCorrect == Spec => StopSaleKept
<1>1. Fits /\ [Next]_live =>
        [ HavePos /\ (acct.retry \/ AtStopSale)
          => \/ acct'.token = NoToken
             \/ acct'.token = acct.token /\ (acct'.retry \/ AtStopSale') ]_live
  <2> SUFFICES ASSUME Fits, Next, HavePos, acct.retry \/ AtStopSale, acct'.token # NoToken
               PROVE  acct'.token = acct.token /\ (acct'.retry \/ AtStopSale')
    OBVIOUS
  <2>1. acct \in Account /\ op \in Locals /\ pc \notin Buying
    BY DEF Fits, TypeOK, Account, Locals, OpFits
  <2>2. acct' # Forget /\ acct' # Flatten /\ ~RiskMayStop(Flatten)
    BY <2>1, Emptied, RiskTyped
  <2>3. CASE Settle \/ Switch \/ NoSignal
    BY <2>3 DEF Settle, Switch, NoSignal, live, AtStopSale
  <2>4. CASE Buy \/ StartSell
    BY <2>1, <2>4 DEF Buy, StartBuy, BuyCapped, BuyFails, BuyBalance, BuyUnreported, BuyAccepted,
                      BuyResolve, StartSell, AtStopSale, Buying
  <2>5. CASE TakeProfit
    <3>1. acct' = acct /\ ~AtStopSale
      BY <2>2, <2>5 DEF TakeProfit, SellFails, SellBalance, SellUnreported, SellAccepted, GiveUp,
                        AtStopSale
    <3> QED
      BY <3>1
  <2>6. CASE StopSale
    <3>1. CASE acct' = acct /\ AtStopSale'
      BY <3>1
    <3>2. ASSUME NEW o \in Locals, NextAttempt(o)
          PROVE  acct'.token = acct.token /\ (acct'.retry \/ AtStopSale')
      BY <2>1, <3>2, NextAttemptEffect DEF Ended, AtStopSale
    <3>3. CASE StopFails
      BY <2>1, <2>6, <3>2, <3>3 DEF StopFails
    <3>4. CASE StopBalance \/ StopAccepted
      BY <2>2, <2>6, <3>1, <3>4 DEF StopBalance, StopAccepted, IsFlat, AtStopSale
    <3>5. CASE StopUnreported
      <4>1. PICK k \in 1..op.before : NextAttempt([op EXCEPT !.gone = @ + k])
        BY <3>5 DEF StopUnreported
      <4>2. [op EXCEPT !.gone = @ + k] \in Locals
        <5>1. k \in Nat
          BY <2>1 DEF Locals
        <5> QED
          BY <2>1, <5>1, SetGone, Zenon
      <4> QED
        BY <3>2, <4>1, <4>2
    <3>6. CASE StopConfirm
      <4>1. NextAttempt([op EXCEPT !.sold = @ + SoldSince(op)])
        BY <2>2, <3>6 DEF StopConfirm, IsFlat
      <4>2. [op EXCEPT !.sold = @ + SoldSince(op)] \in Locals
        <5>1. SoldSince(op) \in Nat
          BY <2>1, <3>6 DEF SoldSince, StopConfirm, Fits, TypeOK, OpFits, Locals
        <5> QED
          BY <2>1, <5>1, SetSold, Zenon
      <4> QED
        BY <3>2, <4>1, <4>2
    <3> QED
      BY <2>6, <3>3, <3>4, <3>5, <3>6 DEF StopSale
  <2>7. CASE ForcedSale
    <3>1. acct' = acct /\ ~AtStopSale
      BY <2>2, <2>7 DEF ForcedSale, Rollover, ForceFails, ForceBalance, ForceUnreported,
                        ForceAccepted, GiveUp, AtStopSale
    <3> QED
      BY <3>1
  <2> QED
    BY <2>3, <2>4, <2>5, <2>6, <2>7 DEF Next
<1> QED
  BY <1>1, InvCorrect, PTL DEF Spec, StopSaleKept

(* While the flag is up a sale is a stop sale, which asks the exchange what it *)
(* sold; no order goes out whose partial fill would be booked as the whole.    *)
THEOREM RetryNotByPriceCorrect == Spec => []RetryNotByPrice
<1> DEFINE ForStop == acct.retry /\ pc = "sellBalance" => op.stop
<1>1. Init => ForStop /\ RetryNotByPrice
  BY DEF Init, RetryNotByPrice
<1>2. ForStop /\ RetryNotByPrice /\ [Next]_live => ForStop' /\ RetryNotByPrice'
  <2> SUFFICES ASSUME ForStop, RetryNotByPrice, [Next]_live,
                      pc' \in {"sellBalance", "sellSubmit"}, acct'.retry
               PROVE  pc' = "sellBalance" /\ op'.stop
    BY DEF RetryNotByPrice
  <2>1. CASE UNCHANGED <<acct, pc, op>>
    BY <2>1 DEF RetryNotByPrice
  <2>2. CASE StartSell
    <3>1. PICK stop \in (IF acct.retry THEN {TRUE} ELSE BOOLEAN) :
            op' = [NoOp EXCEPT !.token = acct.token, !.stop = stop]
      BY <2>2 DEF StartSell
    <3>2. stop /\ pc' = "sellBalance"
      BY <2>2, <3>1 DEF StartSell
    <3>3. op'.stop = stop
      BY <3>1 DEF NoOp
    <3> QED
      BY <3>2, <3>3
  <2>3. CASE SellBalance
    <3>1. pc = "sellBalance" /\ acct' = acct /\ ~op.stop
      BY <2>3 DEF SellBalance, Idle
    <3> QED
      BY <3>1
  <2> QED
    BY <2>1, <2>2, <2>3 DEF live, Next, Settle, Switch, NoSignal, Buy, StartBuy, BuyCapped, BuyFails,
       BuyBalance, BuyUnreported, BuyAccepted, BuyResolve, TakeProfit, SellFails, SellUnreported,
       SellAccepted, StopSale, StopFails, StopBalance, StopUnreported, StopAccepted, StopConfirm,
       NextAttempt, IsFlat, GiveUp, Idle, ForcedSale, Rollover, ForceFails, ForceBalance,
       ForceUnreported, ForceAccepted
<1> QED
  BY <1>1, <1>2, PTL DEF Spec
=============================================================================
