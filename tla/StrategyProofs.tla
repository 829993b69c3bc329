--------------------------- MODULE StrategyProofs ---------------------------
(* Theorems about Strategy, for all prices, limits, fee rates and rule sets   *)
(* that satisfy the module's assumptions.                                     *)
EXTENDS Strategy, TLAPS

----------------------------------------------------------------------------
(* Arithmetic.                                                                *)

(* Integer division by a positive number rounds down.                         *)
LEMMA DivBelow ==
  ASSUME NEW a \in Int, NEW b \in Nat \ {0}
  PROVE  a \div b \in Int /\ b * (a \div b) <= a /\ a < b * (a \div b) + b
OBVIOUS

(* A positive factor can be cancelled.                                        *)
LEMMA CancelFactor ==
  ASSUME NEW d \in Nat \ {0}, NEW a \in Int, NEW b \in Int, d * a <= d * b
  PROVE  a <= b
OBVIOUS

(* The product of a price and its complement is at most a quarter.            *)
LEMMA QuarterBound ==
  ASSUME NEW n \in Nat, NEW p \in 0..n
  PROVE  p * (n - p) \in Nat /\ 4 * (p * (n - p)) <= n * n
OBVIOUS

----------------------------------------------------------------------------
(* Fees.                                                                      *)

(* The weight of the fee is at most a quarter of the scale it is divided by.  *)
LEMMA FeeWeightBound ==
  ASSUME NEW p \in 0..One
  PROVE  /\ FeeScale \in Nat \ {0}
         /\ FeeWeight(p) \in Nat
         /\ 4 * FeeWeight(p) <= FeeScale
<1>1. One \in Nat \ {0} /\ FeeDen \in Nat \ {0} /\ FeeNum \in Nat /\ FeeNum <= FeeDen
  BY PriceAssumption, MoneyAssumption
<1> DEFINE u == p * (One - p)
<1>2. u \in Nat /\ 4 * u <= One * One
  BY <1>1, QuarterBound
<1>3. One * One \in Nat \ {0}
  BY <1>1
<1> HIDE DEF u
<1>4. FeeScale \in Nat \ {0}
  BY <1>1, <1>3 DEF FeeScale
<1>5. FeeWeight(p) = FeeNum * u
  BY <1>1 DEF FeeWeight, u
<1>6. FeeNum * u \in Nat
  BY <1>1, <1>2
<1>7. 4 * (FeeNum * u) <= FeeNum * (One * One)
  BY <1>1, <1>2, <1>3
<1>8. FeeNum * (One * One) <= (One * One) * FeeDen
  BY <1>1, <1>3
<1>9. FeeScale = (One * One) * FeeDen
  BY DEF FeeScale
<1>10. FeeNum * (One * One) \in Nat /\ (One * One) * FeeDen \in Nat
  BY <1>1, <1>3
<1> QED
  BY <1>4, <1>5, <1>6, <1>7, <1>8, <1>9, <1>10

(* Rounding adds at most half a tick to the exact fee.                        *)
LEMMA FeeRounding ==
  ASSUME NEW x \in Nat, NEW p \in 0..One
  PROVE  /\ Fee(x, p) \in Int
         /\ 2 * (FeeScale * Fee(x, p)) <= 2 * (x * FeeWeight(p)) + FeeTick * FeeScale
         /\ Fee(x, p) >= 0
         /\ Fee(x, p) = 0 \/ Fee(x, p) >= FeeTick
<1> DEFINE w == FeeWeight(p)
           d == FeeScale
           n == 2 * x * w + FeeTick * d
           m == 2 * FeeTick * d
           k == n \div m
<1>1. w \in Nat /\ d \in Nat \ {0} /\ FeeTick \in Nat \ {0}
  BY FeeWeightBound, MoneyAssumption
<1>2. Fee(x, p) = FeeTick * k
  BY DEF Fee
<1> HIDE DEF w, d
<1>3. n \in Nat /\ m \in Nat \ {0}
  BY <1>1
<1> HIDE DEF n, m
<1>4. k \in Int /\ m * k <= n /\ n < m * k + m
  BY <1>3, DivBelow
<1>5. k >= 0
  BY <1>3, <1>4
<1> HIDE DEF k
<1>6. FeeTick * k \in Int /\ FeeTick * k >= 0 /\ (FeeTick * k = 0 \/ FeeTick * k >= FeeTick)
  BY <1>1, <1>4, <1>5
<1>7. 2 * (d * (FeeTick * k)) = m * k
  BY <1>1, <1>4 DEF m
<1>8. n = 2 * (x * w) + FeeTick * d
  BY <1>1 DEF n
<1> QED
  BY <1>2, <1>4, <1>6, <1>7, <1>8 DEF w, d

(* A fee is never more than the money it is taken from, and at most a quarter *)
(* of it plus half a tick.                                                    *)
LEMMA FeeBounds ==
  ASSUME NEW x \in Nat, NEW p \in 0..One
  PROVE  Fee(x, p) \in Nat /\ 4 * Fee(x, p) <= x + 2 * FeeTick /\ Fee(x, p) <= x
<1> DEFINE w == FeeWeight(p)
           d == FeeScale
           f == Fee(x, p)
<1>1. w \in Nat /\ d \in Nat \ {0} /\ FeeTick \in Nat \ {0} /\ 4 * w <= d
  BY FeeWeightBound, MoneyAssumption
<1>2. f \in Nat /\ 2 * (d * f) <= 2 * (x * w) + FeeTick * d /\ (f = 0 \/ f >= FeeTick)
  BY FeeRounding
<1> HIDE DEF w, d, f
<1>3. 4 * (x * w) <= x * d
  BY <1>1
<1>4. x * w \in Nat /\ d * f \in Nat /\ FeeTick * d \in Nat /\ x * d \in Nat
  BY <1>1, <1>2
<1>5. 8 * (d * f) <= 2 * (x * d) + 4 * (FeeTick * d)
  BY <1>2, <1>3, <1>4
<1>6. d * (4 * f) <= d * (x + 2 * FeeTick)
  BY <1>1, <1>2, <1>5
<1>7. 4 * f <= x + 2 * FeeTick
  BY <1>1, <1>2, <1>6, CancelFactor
<1>8. f <= x
  BY <1>1, <1>2, <1>7
<1> QED
  BY <1>2, <1>7, <1>8 DEF f

(* Spending no more than is affordable overdraws by at most half a tick.      *)
LEMMA AffordableCovers ==
  ASSUME NEW c \in Int, NEW x \in Nat, NEW p \in 0..One, x <= Affordable(c, p)
  PROVE  2 * (x + Fee(x, p)) <= 2 * c + FeeTick
<1> DEFINE w == FeeWeight(p)
           d == FeeScale
           f == Fee(x, p)
           k == (c * d) \div (d + w)
<1>1. w \in Nat /\ d \in Nat \ {0} /\ FeeTick \in Nat \ {0}
  BY FeeWeightBound, MoneyAssumption
<1>2. f \in Nat /\ 2 * (d * f) <= 2 * (x * w) + FeeTick * d
  BY FeeRounding
<1>3. x <= k
  BY DEF Affordable
<1> HIDE DEF w, d, f
<1>4. c * d \in Int /\ d + w \in Nat \ {0}
  BY <1>1
<1>5. k \in Int /\ (d + w) * k <= c * d
  BY <1>4, DivBelow
<1> HIDE DEF k
<1>6. (d + w) * x <= c * d
  BY <1>1, <1>3, <1>5
<1>7. 2 * (d * x) + 2 * (x * w) <= 2 * (c * d)
  BY <1>1, <1>6
<1>8. d * x \in Int /\ x * w \in Int /\ c * d \in Int /\ d * f \in Int /\ FeeTick * d \in Int
  BY <1>1, <1>2
<1>9. 2 * (d * x) + 2 * (d * f) <= 2 * (c * d) + FeeTick * d
  BY <1>2, <1>7, <1>8
<1>10. d * (2 * (x + f)) <= d * (2 * c + FeeTick)
  BY <1>1, <1>2, <1>9
<1> QED
  BY <1>1, <1>2, <1>10, CancelFactor DEF f

----------------------------------------------------------------------------
(* The inductive invariant, as a predicate on a view and an account so that   *)
(* it can be followed through the handlers, which change the account twice.   *)

(* The account is well formed and every pending order fits it.                *)
Fits(a) ==
  /\ a \in Account
  /\ IF HavePos(a) THEN a.qty > 0 /\ a.basis > 0 /\ a.bucket # NoBucket
     ELSE a.qty = 0 /\ a.basis = 0 /\ a.bucket = NoBucket
  /\ a.pending = "SELL" => HavePos(a) /\ a.pside = a.side
  /\ a.pending = "BUY" => ~HavePos(a) /\ a.pside \in Side
  /\ a.risk = TRUE => Idle(a)

(* The money is within its limits.  The bound on the outlay is what makes the *)
(* bound on the loss of a flat account inductive.                             *)
Solvent(a) ==
  /\ 2 * a.cash >= -FeeTick
  /\ IF HavePos(a)
     THEN /\ a.cash + a.basis >= InitialCash - MaxLoss
          /\ 4 * a.basis <= 5 * Spend + 2 * FeeTick
     ELSE 4 * (InitialCash - MaxLoss - a.cash) <= 5 * Spend + 2 * FeeTick

(* A position is in the bucket of the view, which is not the first one.       *)
Placed(h, a) == HavePos(a) => a.bucket = h.bucket /\ h.bucket > 0

IInv ==
  /\ hot \in View
  /\ enabled \in BOOLEAN
  /\ enabled = TRUE => hot.bucket > 0
  /\ Fits(acct)
  /\ Solvent(acct)
  /\ Placed(hot, acct)

----------------------------------------------------------------------------
(* What the handlers do to an account.                                        *)

(* schedule decides on an order that fits the account and leaves the position *)
(* and the money alone.                                                       *)
LEMMA ScheduleFits ==
  ASSUME NEW h, NEW a, NEW held, Fits(a)
  PROVE  LET b == Schedule(h, a, held)
         IN  /\ Fits(b)
             /\ b.cash = a.cash /\ b.basis = a.basis /\ b.side = a.side /\ b.bucket = a.bucket
             /\ b.risk = a.risk
<1>1. CASE ~Idle(a) \/ a.risk = TRUE
  BY <1>1 DEF Schedule
<1>2. CASE Idle(a) /\ a.risk # TRUE /\ HavePos(a)
  <2> DEFINE stop == StopLossHit(a, h.quote[a.side].bid)
  <2>1. CASE ~stop /\ ~ProfitTaken(h, a.side)
    BY <1>2, <2>1 DEF Schedule, ScheduleSell
  <2>2. CASE stop \/ ProfitTaken(h, a.side)
    <3>1. Schedule(h, a, held) = [a EXCEPT !.pending = "SELL", !.pside = a.side, !.stop = stop]
      BY <1>2, <2>2 DEF Schedule, ScheduleSell
    <3>2. stop \in BOOLEAN
      BY DEF StopLossHit
    <3> HIDE DEF stop
    <3> QED
      BY <1>2, <3>1, <3>2 DEF Fits, Account, HavePos, Idle
  <2> QED
    BY <2>1, <2>2
<1>3. CASE Idle(a) /\ a.risk # TRUE /\ ~HavePos(a)
  <2> DEFINE c == Chosen(h, Buyable(h, held))
  <2>1. CASE Buyable(h, held) = {} \/ ~InWindow(h)
    BY <1>3, <2>1 DEF Schedule, ScheduleBuy
  <2>2. CASE Buyable(h, held) # {} /\ InWindow(h)
    <3>1. Schedule(h, a, held) = [a EXCEPT !.pending = "BUY", !.pside = c]
      BY <1>3, <2>2 DEF Schedule, ScheduleBuy
    <3>2. c \in Side
      BY DEF Chosen, Better, Side
    <3> HIDE DEF c
    <3> QED
      BY <1>3, <3>1, <3>2 DEF Fits, Account, HavePos, Idle
  <2> QED
    BY <2>1, <2>2
<1> QED
  BY <1>1, <1>2, <1>3

(* Selling at any bid yields what it fetches less a fee that does not exceed  *)
(* it.                                                                        *)
LEMMA ProceedsNat ==
  ASSUME NEW a, a \in Account, NEW bid \in 0..One
  PROVE  Proceeds(a, bid) \in Nat
<1>1. a.qty \in Nat /\ One \in Nat
  BY PriceAssumption DEF Account
<1>2. a.qty * bid \in Nat
  BY <1>1
<1>3. Fee(a.qty * bid, bid) \in Nat /\ Fee(a.qty * bid, bid) <= a.qty * bid
  BY <1>2, FeeBounds
<1> QED
  BY <1>2, <1>3 DEF Proceeds

(* Closing the position for a non-negative amount keeps the account sound.    *)
LEMMA FlattenSound ==
  ASSUME NEW a, Fits(a), Solvent(a), HavePos(a),
         NEW p \in Nat, NEW r \in BOOLEAN
  PROVE  LET b == Flatten([a EXCEPT !.cash = @ + p, !.risk = r])
         IN  /\ Fits(b) /\ Solvent(b) /\ ~HavePos(b) /\ Idle(b)
             /\ b.cash = a.cash + p /\ b.risk = r /\ b.basis = 0
<1> DEFINE b == Flatten([a EXCEPT !.cash = @ + p, !.risk = r])
<1>1. a \in Account
  BY DEF Fits
<1>2. b = [a EXCEPT !.cash = a.cash + p, !.risk = r, !.side = NoSide, !.bucket = NoBucket,
                    !.qty = 0, !.basis = 0, !.pending = "none"]
  BY <1>1 DEF Flatten, Account
<1> HIDE DEF b
<1>3. /\ b \in Account /\ b.side = NoSide /\ b.bucket = NoBucket /\ b.qty = 0 /\ b.basis = 0
      /\ b.pending = "none" /\ b.cash = a.cash + p /\ b.risk = r
  <2>1. /\ b.side = NoSide /\ b.bucket = NoBucket /\ b.qty = 0 /\ b.basis = 0
        /\ b.pending = "none" /\ b.cash = a.cash + p
    BY <1>1, <1>2 DEF Account
  <2>2. b.risk = r
    BY <1>1, <1>2, Zenon DEF Account
  <2>3. b \in Account
    <3> DEFINE m == a.cash + p
    <3>1. m \in Int
      BY <1>1 DEF Account
    <3>2. b = [a EXCEPT !.cash = m, !.risk = r, !.side = NoSide, !.bucket = NoBucket,
                        !.qty = 0, !.basis = 0, !.pending = "none"]
      BY <1>2
    <3>3. 0 \in Nat
      OBVIOUS
    <3> HIDE DEF m
    <3> QED
      BY <1>1, <3>1, <3>2, <3>3 DEF Account
  <2> QED
    BY <2>1, <2>2, <2>3, Zenon
<1>4. Fits(b) /\ ~HavePos(b) /\ Idle(b)
  BY <1>3 DEF Fits, HavePos, Idle
<1>5. Solvent(b)
  <2>1. /\ a.cash \in Int /\ a.basis \in Nat /\ 2 * a.cash >= -FeeTick
        /\ a.cash + a.basis >= InitialCash - MaxLoss
        /\ 4 * a.basis <= 5 * Spend + 2 * FeeTick
    BY <1>1 DEF Solvent, Account
  <2> QED
    BY <1>3, <1>4, <2>1, MoneyAssumption DEF Solvent
<1> QED
  BY <1>3, <1>4, <1>5 DEF b

(* Selling pays, closes the position, and may set the risk stop but never     *)
(* clears it.                                                                 *)
LEMMA SoldSound ==
  ASSUME NEW a, Fits(a), Solvent(a), HavePos(a), NEW bid \in 0..One
  PROVE  LET b == Sold(a, bid)
         IN  /\ Fits(b) /\ Solvent(b) /\ ~HavePos(b) /\ b.basis = 0
             /\ b.cash >= a.cash /\ (a.risk = TRUE => b.risk = TRUE)
<1> DEFINE p == Proceeds(a, bid)
           paid == [a EXCEPT !.cash = @ + p]
<1>1. a \in Account
  BY DEF Fits
<1>2. p \in Nat
  BY <1>1, ProceedsNat
<1> HIDE DEF p
<1>3. a.cash \in Int
  BY <1>1 DEF Account
<1>4. CASE LossReached(paid, 0)
  <2>1. Sold(a, bid) = Flatten([a EXCEPT !.cash = @ + p, !.risk = TRUE])
    BY <1>4 DEF Sold, p
  <2> DEFINE z == Flatten([a EXCEPT !.cash = @ + p, !.risk = TRUE])
  <2>2. /\ Fits(z) /\ Solvent(z) /\ ~HavePos(z) /\ z.cash = a.cash + p /\ z.risk = TRUE
        /\ z.basis = 0
    BY <1>2, FlattenSound, Zenon
  <2> HIDE DEF z
  <2>3. z.cash >= a.cash
    BY <1>2, <1>3, <2>2
  <2> QED
    BY <2>1, <2>2, <2>3, Zenon DEF z
<1>5. CASE ~LossReached(paid, 0)
  <2>1. Sold(a, bid) = Flatten(paid)
    BY <1>5 DEF Sold, p
  <2>2. paid = [a EXCEPT !.cash = @ + p, !.risk = a.risk]
    BY <1>1 DEF Account
  <2>3. a.risk \in BOOLEAN
    BY <1>1, Zenon DEF Account
  <2> DEFINE z == Flatten([a EXCEPT !.cash = @ + p, !.risk = a.risk])
  <2>4. /\ Fits(z) /\ Solvent(z) /\ ~HavePos(z) /\ z.cash = a.cash + p /\ z.risk = a.risk
        /\ z.basis = 0
    BY <1>2, <2>3, FlattenSound, Zenon
  <2>5. Sold(a, bid) = z
    BY <2>1, <2>2, Zenon
  <2> HIDE DEF z
  <2>6. z.cash >= a.cash
    BY <1>2, <1>3, <2>4
  <2> QED
    BY <2>4, <2>5, <2>6, Zenon
<1> QED
  BY <1>4, <1>5

(* A purchase: affordable up to fee rounding, made with the cap still in hand,*)
(* of at least one share, in the bucket of the view.                          *)
LEMMA BoughtSound ==
  ASSUME NEW h, NEW a, NEW q \in Quote, NEW x \in Nat,
         Fits(a), Solvent(a), ~HavePos(a), a.pside \in Side, a.risk # TRUE,
         h.bucket \in Bucket, h.bucket > 0,
         AskOk(q.ask), x >= MinSpend, x <= Spend, x <= Affordable(a.cash, q.ask),
         ~RiskExceeded(a, x, q)
  PROVE  LET b == Bought(h, a, x, q)
         IN  /\ Fits(b) /\ Solvent(b) /\ Placed(h, b) /\ HavePos(b)
             /\ b.cash = a.cash - b.basis /\ a.cash >= InitialCash - MaxLoss
<1> DEFINE f == Fee(x, q.ask)
           n == x \div q.ask
           paid == [a EXCEPT !.cash = @ - x - f, !.side = a.pside, !.bucket = h.bucket,
                             !.qty = n, !.basis = x + f, !.pending = "none"]
           b == Bought(h, a, x, q)
<1>1. /\ a \in Account /\ a.cash \in Int
      /\ q.ask \in 0..One /\ q.bid \in 0..One /\ q.bid <= q.ask
      /\ q.ask \in Nat \ {0} /\ q.bid \in Nat /\ q.ask <= MinSpend
  BY PriceAssumption, MoneyAssumption DEF Fits, Account, AskOk
<1>2. f \in Nat /\ 4 * f <= x + 2 * FeeTick
  BY <1>1, FeeBounds
<1>3. 2 * (x + f) <= 2 * a.cash + FeeTick
  BY <1>1, AffordableCovers
<1>4. n \in Int /\ q.ask * n <= x /\ x < q.ask * n + q.ask
  <2> DEFINE y == q.ask
  <2>1. y \in Nat \ {0} /\ x \in Int
    BY <1>1
  <2> HIDE DEF y
  <2>2. x \div y \in Int /\ y * (x \div y) <= x /\ x < y * (x \div y) + y
    BY <2>1, DivBelow
  <2> QED
    BY <2>2 DEF y
<1> HIDE DEF f, n
<1>5. n \in Nat /\ n > 0
  BY <1>1, <1>4, MoneyAssumption
<1>6. n * (q.bid + q.ask) <= 2 * x
  <2>1. n * q.bid <= n * q.ask
    BY <1>1, <1>5
  <2> QED
    BY <1>1, <1>4, <1>5, <2>1
<1>7. a.cash >= InitialCash - MaxLoss
  <2>1. 2 * (InitialCash - (a.cash - x - f)) - n * (q.bid + q.ask) <= 2 * MaxLoss
    BY <1>1, <1>2, <1>5, MoneyAssumption DEF RiskExceeded, f, n
  <2>2. n * (q.bid + q.ask) \in Int
    BY <1>1, <1>5
  <2> QED
    BY <1>1, <1>2, <1>6, <2>1, <2>2, MoneyAssumption
<1>8. /\ a.cash - x - f \in Int /\ x + f \in Nat /\ x + f > 0 /\ h.bucket # NoBucket
      /\ a.pside # NoSide
  BY <1>1, <1>2, MoneyAssumption, SideAssumption DEF NoBucket, Bucket
<1>9. /\ paid \in Account /\ paid.cash = a.cash - x - f /\ paid.side = a.pside
      /\ paid.bucket = h.bucket /\ paid.qty = n /\ paid.basis = x + f /\ paid.pending = "none"
  <2>1. paid \in Account
    <3> DEFINE m == a.cash - x - f
               y == x + f
    <3>1. m \in Int /\ y \in Nat
      BY <1>8
    <3>2. paid = [a EXCEPT !.cash = m, !.side = a.pside, !.bucket = h.bucket,
                           !.qty = n, !.basis = y, !.pending = "none"]
      OBVIOUS
    <3> HIDE DEF m, y, paid
    <3> QED
      BY <1>1, <1>5, <3>1, <3>2 DEF Account
  <2> QED
    BY <1>1, <2>1 DEF Account
<1> HIDE DEF paid
<1>10. /\ b \in Account /\ b.cash = a.cash - x - f /\ b.side = a.pside
       /\ b.bucket = h.bucket /\ b.qty = n /\ b.basis = x + f /\ b.pending = "none"
  <2>1. b = IF LossReached(paid, paid.qty * (q.bid + q.ask)) THEN [paid EXCEPT !.risk = TRUE]
            ELSE paid
    BY DEF Bought, paid, f, n
  <2>2. [paid EXCEPT !.risk = TRUE] \in Account
    BY <1>9, Zenon DEF Account
  <2> HIDE DEF b
  <2> QED
    BY <1>9, <2>1, <2>2 DEF Account
<1> HIDE DEF b
<1>11. Fits(b) /\ HavePos(b)
  BY <1>5, <1>8, <1>10 DEF Fits, HavePos, Idle
<1>12. Solvent(b)
  BY <1>1, <1>2, <1>3, <1>7, <1>10, <1>11, MoneyAssumption DEF Solvent
<1> QED
  BY <1>1, <1>2, <1>7, <1>10, <1>11, <1>12 DEF Placed, b

(* What one event may do to the account: nothing, open, close, or stop.       *)
AccountStep(a, b) ==
  \/ b.cash = a.cash /\ b.basis = a.basis /\ b.side = a.side /\ b.risk = a.risk
  \/ /\ ~HavePos(a) /\ a.risk # TRUE /\ a.cash >= InitialCash - MaxLoss
     /\ HavePos(b) /\ b.cash = a.cash - b.basis
  \/ /\ HavePos(a) /\ ~HavePos(b) /\ b.basis = 0 /\ b.cash >= a.cash
     /\ a.risk = TRUE => b.risk = TRUE
  \/ /\ ~HavePos(a) /\ ~HavePos(b) /\ b.basis = a.basis /\ b.cash = a.cash
     /\ a.risk # TRUE /\ b.risk = TRUE

(* Dropping a pending order changes nothing else.                             *)
LEMMA CancelSound ==
  ASSUME NEW h, NEW a, Fits(a), Solvent(a), Placed(h, a)
  PROVE  LET b == Cancel(a)
         IN  Fits(b) /\ Solvent(b) /\ Placed(h, b) /\ AccountStep(a, b)
<1> DEFINE b == Cancel(a)
<1>1. a \in Account
  BY DEF Fits
<1>2. /\ b.side = a.side /\ b.bucket = a.bucket /\ b.qty = a.qty /\ b.basis = a.basis
      /\ b.cash = a.cash /\ b.pending = "none"
  BY <1>1 DEF Cancel, Account
<1>3. b.risk = a.risk
  BY <1>1, Zenon DEF Cancel, Account
<1>4. b \in Account
  BY <1>1 DEF Cancel, Account
<1> HIDE DEF b
<1>5. Fits(b)
  BY <1>2, <1>4 DEF Fits, HavePos, Idle
<1>6. Solvent(b)
  BY <1>2 DEF Solvent, HavePos
<1>7. Placed(h, b)
  BY <1>2 DEF Placed, HavePos
<1>8. AccountStep(a, b)
  BY <1>2, <1>3, Zenon DEF AccountStep
<1> QED
  BY <1>5, <1>6, <1>7, <1>8 DEF b

(* The risk stop of a refused purchase.                                       *)
LEMMA RefuseSound ==
  ASSUME NEW h, NEW a, Fits(a), Solvent(a), ~HavePos(a), a.risk # TRUE
  PROVE  LET b == [Cancel(a) EXCEPT !.risk = TRUE]
         IN  Fits(b) /\ Solvent(b) /\ Placed(h, b) /\ AccountStep(a, b)
<1> DEFINE b == [Cancel(a) EXCEPT !.risk = TRUE]
<1>1. a \in Account
  BY DEF Fits
<1>2. /\ b.side = a.side /\ b.bucket = a.bucket /\ b.qty = a.qty /\ b.basis = a.basis
      /\ b.cash = a.cash /\ b.pending = "none"
  BY <1>1 DEF Cancel, Account
<1>3. b.risk = TRUE
  BY <1>1, Zenon DEF Cancel, Account
<1>4. b \in Account
  <2>1. Cancel(a) \in Account
    BY <1>1 DEF Cancel, Account
  <2> QED
    BY <2>1, Zenon DEF Account
<1> HIDE DEF b
<1>5. Fits(b)
  BY <1>2, <1>4 DEF Fits, HavePos, Idle
<1>6. Solvent(b)
  BY <1>2 DEF Solvent, HavePos
<1>7. Placed(h, b)
  BY <1>2 DEF Placed, HavePos
<1>8. AccountStep(a, b)
  BY <1>2, <1>3, Zenon DEF AccountStep, HavePos
<1> QED
  BY <1>5, <1>6, <1>7, <1>8 DEF b

(* execute_due, on a view with both quotes and outside the first bucket.      *)
LEMMA ExecuteSound ==
  ASSUME NEW h, NEW a, NEW due, Fits(a), Solvent(a), Placed(h, a),
         h.bucket \in Bucket, h.bucket > 0, \A s \in Side : h.quote[s] \in Quote
  PROVE  LET b == Execute(h, a, due)
         IN  Fits(b) /\ Solvent(b) /\ Placed(h, b) /\ AccountStep(a, b)
<1> DEFINE Sound(b) == Fits(b) /\ Solvent(b) /\ Placed(h, b) /\ AccountStep(a, b)
<1> SUFFICES Sound(Execute(h, a, due))
  OBVIOUS
<1>1. Sound(Cancel(a))
  BY CancelSound
<1>2. CASE Idle(a) \/ ~due
  <2>1. Execute(h, a, due) = a
    BY <1>2 DEF Execute
  <2>2. AccountStep(a, a)
    BY Zenon DEF AccountStep
  <2> QED
    BY <2>1, <2>2
<1>3. CASE ~Idle(a) /\ due /\ a.pending = "BUY"
  <2> DEFINE q == h.quote[a.pside]
             x == Outlay(a, q.ask)
  <2>1. ~HavePos(a) /\ a.pside \in Side /\ a.risk # TRUE
    BY <1>3 DEF Fits
  <2>2. q \in Quote
    BY <2>1
  <2>3. Execute(h, a, due) = ExecuteBuy(h, a)
    BY <1>3 DEF Execute
  <2>4. CASE \/ HavePos(a) \/ ~HasEdge(h, a.pside) \/ ~InWindow(h) \/ ~AskOk(q.ask) \/ x < MinSpend
    BY <1>1, <2>3, <2>4 DEF ExecuteBuy
  <2>5. CASE ~(\/ HavePos(a) \/ ~HasEdge(h, a.pside) \/ ~InWindow(h) \/ ~AskOk(q.ask) \/ x < MinSpend)
    <3>1. CASE RiskExceeded(a, x, q)
      <4>1. Execute(h, a, due) = [Cancel(a) EXCEPT !.risk = TRUE]
        BY <2>3, <2>5, <3>1 DEF ExecuteBuy
      <4> DEFINE z == [Cancel(a) EXCEPT !.risk = TRUE]
      <4>2. Fits(z) /\ Solvent(z) /\ Placed(h, z) /\ AccountStep(a, z)
        BY <2>1, RefuseSound
      <4> HIDE DEF z
      <4> QED
        BY <4>1, <4>2 DEF z
    <3>2. CASE ~RiskExceeded(a, x, q)
      <4>1. Execute(h, a, due) = Bought(h, a, x, q)
        BY <2>3, <2>5, <3>2 DEF ExecuteBuy
      <4>2. q.ask \in 0..One /\ a.cash \in Int
        BY <2>2, PriceAssumption DEF Fits, Account
      <4>3. Affordable(a.cash, q.ask) \in Int
        <5> DEFINE d == FeeScale
                   w == FeeWeight(q.ask)
        <5>1. d \in Nat \ {0} /\ w \in Nat
          BY <4>2, FeeWeightBound
        <5>2. Affordable(a.cash, q.ask) = (a.cash * d) \div (d + w)
          BY DEF Affordable
        <5> HIDE DEF d, w
        <5>3. a.cash * d \in Int /\ d + w \in Nat \ {0}
          BY <4>2, <5>1
        <5> QED
          BY <5>2, <5>3, DivBelow
      <4>4. x \in Nat /\ x >= MinSpend /\ x <= Spend /\ x <= Affordable(a.cash, q.ask)
        BY <2>5, <4>3, MoneyAssumption DEF Outlay, Smaller
      <4>5. AskOk(q.ask)
        BY <2>5
      <4> HIDE DEF x, q
      <4> DEFINE b == Bought(h, a, x, q)
      <4>6. /\ Fits(b) /\ Solvent(b) /\ Placed(h, b) /\ HavePos(b)
            /\ b.cash = a.cash - b.basis /\ a.cash >= InitialCash - MaxLoss
        BY <2>1, <2>2, <3>2, <4>4, <4>5, BoughtSound
      <4>7. AccountStep(a, b)
        BY <2>1, <4>6, Zenon DEF AccountStep
      <4> QED
        BY <4>1, <4>6, <4>7
    <3> QED
      BY <3>1, <3>2
  <2> QED
    BY <2>4, <2>5
<1>4. CASE ~Idle(a) /\ due /\ a.pending # "BUY"
  <2>1. a.pending = "SELL" /\ HavePos(a) /\ a.side \in Side
    BY <1>4 DEF Fits, Account, Idle, HavePos
  <2>2. Execute(h, a, due) = ExecuteSell(h, a)
    BY <1>4, <2>1 DEF Execute
  <2>3. CASE ~a.stop /\ ~ProfitTaken(h, a.side)
    BY <1>1, <2>2, <2>3 DEF ExecuteSell
  <2>4. CASE ~(~a.stop /\ ~ProfitTaken(h, a.side))
    <3> DEFINE bid == h.quote[a.side].bid
               b == Sold(a, bid)
    <3>1. Execute(h, a, due) = b
      BY <2>2, <2>4 DEF ExecuteSell
    <3>2. bid \in 0..One
      BY <2>1, PriceAssumption
    <3> HIDE DEF bid
    <3>3. /\ Fits(b) /\ Solvent(b) /\ ~HavePos(b) /\ b.basis = 0
          /\ b.cash >= a.cash /\ (a.risk = TRUE => b.risk = TRUE)
      BY <2>1, <3>2, SoldSound
    <3>4. AccountStep(a, b) /\ Placed(h, b)
      BY <2>1, <3>3, Zenon DEF AccountStep, Placed
    <3> QED
      BY <3>1, <3>3, <3>4
  <2> QED
    BY <2>3, <2>4
<1> QED
  BY <1>2, <1>3, <1>4

(* Settling at a rollover leaves a flat account that still fits its pending   *)
(* order.                                                                     *)
LEMMA SettledSound ==
  ASSUME NEW a, NEW bids, Fits(a), Solvent(a), \A s \in Side : bids[s] \in 0..One
  PROVE  LET b == Settled(a, bids)
         IN  Fits(b) /\ Solvent(b) /\ ~HavePos(b) /\ AccountStep(a, b)
<1> DEFINE Sound(b) == Fits(b) /\ Solvent(b) /\ ~HavePos(b) /\ AccountStep(a, b)
<1> SUFFICES Sound(Settled(a, bids))
  OBVIOUS
<1>1. CASE ~HavePos(a)
  <2>1. Settled(a, bids) = a
    BY <1>1 DEF Settled
  <2>2. AccountStep(a, a)
    BY Zenon DEF AccountStep
  <2> QED
    BY <1>1, <2>1, <2>2
<1>2. CASE HavePos(a)
  <2>1. a \in Account /\ a.side \in Side /\ a.cash \in Int
    BY <1>2 DEF Fits, Account, HavePos
  <2>2. a.risk \in BOOLEAN
    BY <2>1, Zenon DEF Account
  <2> DEFINE p == IF ForceSell THEN Proceeds(a, bids[a.side]) ELSE 0
             z == Flatten([a EXCEPT !.cash = @ + p, !.risk = a.risk])
  <2>3. p \in Nat
    <3>1. Proceeds(a, bids[a.side]) \in Nat
      BY <2>1, ProceedsNat
    <3> QED
      BY <3>1
  <2>4. Settled(a, bids) = z
    <3>1. CASE ForceSell
      <4>1. Settled(a, bids) = Flatten([a EXCEPT !.cash = @ + p])
        BY <1>2, <3>1 DEF Settled, ForceSold
      <4>2. [a EXCEPT !.cash = @ + p] = [a EXCEPT !.cash = @ + p, !.risk = a.risk]
        BY <2>1 DEF Account
      <4> QED
        BY <4>1, <4>2, Zenon
    <3>2. CASE ~ForceSell
      <4>1. Settled(a, bids) = Flatten(a)
        BY <1>2, <3>2 DEF Settled
      <4>2. p = 0
        BY <3>2
      <4>3. a = [a EXCEPT !.cash = @ + 0, !.risk = a.risk]
        <5>1. a.cash + 0 = a.cash
          BY <2>1
        <5>2. a = [a EXCEPT !.cash = a.cash, !.risk = a.risk]
          BY <2>1 DEF Account
        <5> QED
          BY <5>1, <5>2, Zenon
      <4> QED
        BY <4>1, <4>2, <4>3, Zenon
    <3> QED
      BY <3>1, <3>2
  <2> HIDE DEF p
  <2>5. /\ Fits(z) /\ Solvent(z) /\ ~HavePos(z)
        /\ z.cash = a.cash + p /\ z.risk = a.risk /\ z.basis = 0
    BY <1>2, <2>2, <2>3, FlattenSound, Zenon
  <2> HIDE DEF z
  <2>6. z.cash >= a.cash
    BY <2>1, <2>3, <2>5
  <2>7. AccountStep(a, z)
    BY <1>2, <2>5, <2>6, Zenon DEF AccountStep
  <2> QED
    BY <2>4, <2>5, <2>7
<1> QED
  BY <1>1, <1>2

----------------------------------------------------------------------------
(* The invariant.                                                             *)

LEMMA InitIInv == Init => IInv
<1> SUFFICES ASSUME Init PROVE IInv
  OBVIOUS
<1>1. hot \in View
  <2>1. /\ hot \in [bucket : {0}, strike : BOOLEAN, spot : {FALSE}, clock : {0}, theo : Theo,
                    quote : {[s \in Side |-> NoQuote]}, since : {{}}]
    BY DEF Init
  <2>2. 0 \in Bucket /\ 0 \in Times
    BY MoneyAssumption DEF Bucket
  <2>3. [s \in Side |-> NoQuote] \in [Side -> Quote \cup {NoQuote}]
    OBVIOUS
  <2>4. FALSE \in BOOLEAN /\ {} \in SUBSET Side
    OBVIOUS
  <2> QED
    BY <2>1, <2>2, <2>3, <2>4, Zenon DEF View
<1>2. enabled = FALSE
  BY DEF Init
<1>3. /\ acct = [side |-> NoSide, bucket |-> NoBucket, qty |-> 0, basis |-> 0, cash |-> InitialCash,
                 pending |-> "none", pside |-> NoSide, stop |-> FALSE, risk |-> FALSE]
  BY DEF Init
<1>4. acct \in Account
  <2>1. InitialCash \in Int
    BY MoneyAssumption
  <2> QED
    BY <1>3, <2>1 DEF Account
<1>5. Fits(acct)
  <2>1. acct.risk = FALSE /\ acct.pending = "none" /\ acct.side = NoSide
    BY <1>3
  <2> QED
    BY <1>3, <1>4, <2>1 DEF Fits, HavePos, Idle
<1>6. Solvent(acct)
  <2>1. acct.cash = InitialCash /\ ~HavePos(acct)
    BY <1>3 DEF HavePos
  <2> QED
    BY <2>1, MoneyAssumption DEF Solvent
<1>7. Placed(hot, acct)
  BY <1>3 DEF Placed, HavePos
<1> QED
  BY <1>1, <1>2, <1>5, <1>6, <1>7 DEF IInv

(* One update of the view: the bucket stays, and the account takes one step.  *)
LEMMA UpdateStep ==
  ASSUME IInv, NEW h, h \in View, h.bucket = hot.bucket, OnHotUpdate(h)
  PROVE  IInv' /\ AccountStep(acct, acct')
<1>1. CASE ~Trading(h)
  <2>1. hot' = h /\ acct' = acct /\ enabled' = enabled
    BY <1>1 DEF OnHotUpdate
  <2>2. AccountStep(acct, acct)
    BY Zenon DEF AccountStep
  <2>3. Placed(hot', acct)
    BY <2>1 DEF IInv, Placed
  <2> QED
    BY <2>1, <2>2, <2>3 DEF IInv
<1>2. CASE Trading(h)
  <2>1. PICK held \in SUBSET h.since, due \in (IF Latency THEN BOOLEAN ELSE {TRUE}) :
          /\ hot' = [h EXCEPT !.since = NextSince(h, acct)]
          /\ acct' = Execute(h, Schedule(h, acct, held), due)
          /\ UNCHANGED enabled
    BY <1>2, Zenon DEF OnHotUpdate
  <2> DEFINE b == Schedule(h, acct, held)
  <2>2. /\ Fits(b) /\ b.cash = acct.cash /\ b.basis = acct.basis /\ b.side = acct.side
        /\ b.bucket = acct.bucket /\ b.risk = acct.risk
    <3>1. Fits(acct)
      BY DEF IInv
    <3> QED
      BY <3>1, ScheduleFits
  <2> HIDE DEF b
  <2>3. Solvent(b) /\ Placed(h, b)
    BY <2>2 DEF IInv, Solvent, Placed, HavePos
  <2>4. h.bucket \in Bucket /\ h.bucket > 0
    BY <1>2 DEF View, IInv, Trading
  <2>5. \A s \in Side : h.quote[s] \in Quote
    BY <1>2 DEF Trading, Ready, View
  <2> DEFINE c == Execute(h, b, due)
  <2>6. Fits(c) /\ Solvent(c) /\ Placed(h, c) /\ AccountStep(b, c)
    BY <2>2, <2>3, <2>4, <2>5, ExecuteSound, Zenon
  <2> HIDE DEF c
  <2>7. acct' = c
    BY <2>1 DEF b, c
  <2>8. AccountStep(acct, c)
    BY <2>2, <2>6 DEF AccountStep, HavePos
  <2>9. hot' \in View
    <3>1. NextSince(h, acct) \in SUBSET Side
      <4>1. RawEdge(h) \in SUBSET Side
        BY DEF RawEdge
      <4>2. h.since \in SUBSET Side
        BY DEF View
      <4> QED
        BY <4>1, <4>2 DEF NextSince
    <3> QED
      BY <2>1, <3>1 DEF View
  <2>10. hot'.bucket = hot.bucket
    BY <2>1 DEF View
  <2>11. Placed(hot', c)
    BY <2>6, <2>10 DEF Placed
  <2> QED
    BY <2>1, <2>6, <2>7, <2>8, <2>9, <2>10, <2>11 DEF IInv
<1> QED
  BY <1>1, <1>2

LEMMA NextIInv == IInv /\ [Next]_vars => IInv' /\ AccountStep(acct, acct')
<1> SUFFICES ASSUME IInv, [Next]_vars
             PROVE  IInv' /\ AccountStep(acct, acct')
  OBVIOUS
<1>1. CASE Spot
  <2>1. PICK t \in Times, th \in Theo : OnSpot(t, th)
    BY <1>1 DEF Spot
  <2> DEFINE h == [hot EXCEPT !.spot = TRUE, !.clock = t, !.theo = th]
  <2>2. h.bucket = hot.bucket
    BY DEF IInv, View
  <2>3. h \in View
    <3>1. [hot EXCEPT !.spot = TRUE] \in View
      BY Zenon DEF IInv, View
    <3>2. h = [[hot EXCEPT !.spot = TRUE] EXCEPT !.clock = t, !.theo = th]
      BY DEF IInv, View
    <3> QED
      BY <3>1, <3>2 DEF View
  <2>4. OnHotUpdate(h)
    BY <2>1 DEF OnSpot
  <2> QED
    BY <2>2, <2>3, <2>4, UpdateStep, Zenon
<1>2. CASE PolyQuote
  <2>1. PICK s \in Side, q \in Quote : OnQuote(s, q)
    BY <1>2 DEF PolyQuote
  <2> DEFINE h == [hot EXCEPT !.quote[s] = q]
  <2>2. h \in View /\ h.bucket = hot.bucket
    BY DEF IInv, View
  <2>3. OnHotUpdate(h)
    BY <2>1 DEF OnQuote
  <2> QED
    BY <2>2, <2>3, UpdateStep, Zenon
<1>3. CASE Rollover
  <2>1. PICK k \in Bucket, known \in BOOLEAN, th \in Theo, bids \in [Side -> Bids] :
          k > hot.bucket /\ OnRollover(k, known, th, bids)
    BY <1>3 DEF Rollover
  <2>2. /\ acct' = Settled(acct, bids) /\ enabled' = TRUE
        /\ hot' = [hot EXCEPT !.bucket = k, !.strike = known, !.theo = th, !.since = {}]
    BY <2>1 DEF OnRollover
  <2>3. \A s \in Side : bids[s] \in 0..One
    BY PriceAssumption DEF Bids
  <2> DEFINE c == Settled(acct, bids)
  <2>4. Fits(c) /\ Solvent(c) /\ ~HavePos(c) /\ AccountStep(acct, c)
    BY <2>3, SettledSound, Zenon DEF IInv
  <2> HIDE DEF c
  <2>5. hot' \in View
    <3>1. [hot EXCEPT !.strike = known] \in View
      BY Zenon DEF IInv, View
    <3>2. hot' = [[hot EXCEPT !.strike = known] EXCEPT !.bucket = k, !.theo = th, !.since = {}]
      BY <2>2 DEF IInv, View
    <3> QED
      BY <3>1, <3>2 DEF View
  <2>6. hot'.bucket > 0
    <3>1. hot'.bucket = k /\ hot.bucket \in Bucket
      BY <2>2 DEF IInv, View
    <3> QED
      BY <2>1, <3>1, MoneyAssumption DEF Bucket
  <2>7. Placed(hot', c)
    BY <2>4 DEF Placed
  <2> QED
    BY <2>2, <2>4, <2>5, <2>6, <2>7 DEF IInv, c
<1>4. CASE UNCHANGED vars
  <2>1. hot' = hot /\ acct' = acct /\ enabled' = enabled
    BY <1>4 DEF vars
  <2>2. AccountStep(acct, acct)
    BY Zenon DEF AccountStep
  <2> QED
    BY <2>1, <2>2 DEF IInv
<1> QED
  BY <1>1, <1>2, <1>3, <1>4 DEF Next

LEMMA SpecIInv == Spec => []IInv
<1>1. IInv /\ [Next]_vars => IInv'
  BY NextIInv
<1> QED
  BY InitIInv, <1>1, PTL DEF Spec

----------------------------------------------------------------------------
(* The theorems.                                                              *)

(* The market view and the account always have their types, and the position *)
(* fields are set and cleared together by all the handlers.                   *)
THEOREM TypeCorrect == Spec => []TypeOK
<1>1. IInv => TypeOK
  BY DEF IInv, Fits, TypeOK
<1> QED
  BY SpecIInv, <1>1, PTL

(* A pending order always fits the account: the pending BUY that survives a   *)
(* rollover and the SELL that a rollover settles included.                    *)
THEOREM PendingCorrect == Spec => []PendingConsistent
<1>1. IInv => PendingConsistent
  BY DEF IInv, Fits, PendingConsistent
<1> QED
  BY SpecIInv, <1>1, PTL

(* No position is priced with another bucket's strike and expiry.             *)
THEOREM PositionBucketCorrect == Spec => []PositionInBucket
<1>1. IInv => PositionInBucket
  BY DEF IInv, Placed, PositionInBucket
<1> QED
  BY SpecIInv, <1>1, PTL

(* Nothing is bought in the bucket the process joined half way.               *)
THEOREM WarmupCorrect == Spec => []WarmupNotTraded
<1>1. IInv => WarmupNotTraded
  BY DEF IInv, Placed, WarmupNotTraded
<1> QED
  BY SpecIInv, <1>1, PTL

(* --max-loss-usd bounds the loss that is realised, whatever the market does: *)
(* by one position's outlay beyond the cap.                                   *)
THEOREM DrawdownCorrect == Spec => []DrawdownBounded
<1>1. IInv => DrawdownBounded
  BY DEF IInv, Solvent, DrawdownBounded
<1> QED
  BY SpecIInv, <1>1, PTL

(* The account is overdrawn by half a fee tick at the most.                   *)
THEOREM CashFloorCorrect == Spec => []CashFloor
<1>1. IInv => CashFloor
  BY DEF IInv, Solvent, CashFloor
<1> QED
  BY SpecIInv, <1>1, PTL

(* The risk stop is never lifted, and no position is opened under it.         *)
THEOREM RiskStopFinal == Spec => NoBuyAfterRiskStop
<1>1. IInv /\ [Next]_vars => [acct.risk => acct'.risk /\ (HavePos(acct') => HavePos(acct))]_vars
  <2> SUFFICES ASSUME IInv, [Next]_vars, acct.risk
               PROVE  acct'.risk /\ (HavePos(acct') => HavePos(acct))
    BY Zenon
  <2>1. AccountStep(acct, acct')
    BY NextIInv
  <2>2. acct.risk = TRUE
    BY Zenon
  <2>3. (acct'.risk = acct.risk \/ acct'.risk = TRUE) /\ (HavePos(acct') => HavePos(acct))
    BY <2>1, <2>2, Zenon DEF AccountStep, HavePos
  <2> QED
    BY <2>2, <2>3, Zenon
<1> QED
  BY SpecIInv, <1>1, PTL DEF Spec, NoBuyAfterRiskStop

(* A stop loss that is shown is sold on, whatever is quoted until the sale.   *)

LEMMA StopSaleKept ==
  ASSUME NEW h, NEW a, NEW due, Fits(a), a.pending = "SELL", a.stop = TRUE
  PROVE  Execute(h, a, due) = a \/ ~HavePos(Execute(h, a, due))
<1>1. CASE ~due
  BY <1>1 DEF Execute
<1>2. CASE due
  <2>1. HavePos(a) /\ a \in Account
    BY DEF Fits
  <2> DEFINE bid == h.quote[a.side].bid
  <2>2. Execute(h, a, due) = Sold(a, bid)
    BY <1>2, <2>1 DEF Execute, ExecuteSell, Idle
  <2> HIDE DEF bid
  <2> DEFINE paid == [a EXCEPT !.cash = @ + Proceeds(a, bid)]
  <2>3. \A x : "side" \in DOMAIN x => Flatten(x).side = NoSide
    BY DEF Flatten
  <2>4. "side" \in DOMAIN paid /\ "side" \in DOMAIN [paid EXCEPT !.risk = TRUE]
    BY <2>1 DEF Account
  <2> HIDE DEF paid
  <2>5. Sold(a, bid).side = NoSide
    BY <2>3, <2>4 DEF Sold, paid
  <2> QED
    BY <2>2, <2>5 DEF HavePos
<1> QED
  BY <1>1, <1>2

LEMMA StopSaleScheduled ==
  ASSUME NEW h, NEW a, NEW held, Fits(a), HavePos(a), Idle(a), a.risk # TRUE,
         StopLossHit(a, h.quote[a.side].bid)
  PROVE  LET b == Schedule(h, a, held) IN Fits(b) /\ b.pending = "SELL" /\ b.stop = TRUE
<1>1. Schedule(h, a, held) = [a EXCEPT !.pending = "SELL", !.pside = a.side,
                                       !.stop = StopLossHit(a, h.quote[a.side].bid)]
  BY DEF Schedule, ScheduleSell
<1>2. StopLossHit(a, h.quote[a.side].bid) = TRUE
  BY DEF StopLossHit
<1>3. Fits(Schedule(h, a, held))
  BY ScheduleFits
<1> QED
  BY <1>1, <1>2, <1>3 DEF Fits, Account

LEMMA StopSaleUpdate ==
  ASSUME IInv, NEW h, h \in View, OnHotUpdate(h), StopSale \/ LossShown
  PROVE  StopSale' \/ ~HavePos(acct')
<1>1. Fits(acct) /\ acct.stop \in BOOLEAN /\ acct.risk \in BOOLEAN
  BY DEF IInv, Fits, Account
<1>2. CASE ~Trading(h)
  <2>1. hot' = h /\ acct' = acct
    BY <1>2 DEF OnHotUpdate
  <2> QED
    BY <1>2, <2>1 DEF StopSale, LossShown
<1>3. CASE Trading(h)
  <2>1. PICK held \in SUBSET h.since, due \in (IF Latency THEN BOOLEAN ELSE {TRUE}) :
          /\ hot' = [h EXCEPT !.since = NextSince(h, acct)]
          /\ acct' = Execute(h, Schedule(h, acct, held), due)
    BY <1>3, Zenon DEF OnHotUpdate
  <2> DEFINE b == Schedule(h, acct, held)
  <2>2. Fits(b) /\ b.pending = "SELL" /\ b.stop = TRUE
    <3>1. CASE StopSale
      <4>1. b = acct
        BY <3>1 DEF Schedule, StopSale, Idle
      <4> QED
        BY <1>1, <3>1, <4>1 DEF StopSale
    <3>2. CASE LossShown
      <4>1. hot'.quote = h.quote
        BY <2>1 DEF View
      <4>2. HavePos(acct) /\ Idle(acct) /\ acct.risk # TRUE
        BY <1>1, <3>2 DEF LossShown
      <4>3. StopLossHit(acct, h.quote[acct.side].bid)
        BY <3>2, <4>1 DEF LossShown
      <4> QED
        BY <1>1, <4>2, <4>3, StopSaleScheduled
    <3> QED
      BY <3>1, <3>2
  <2> HIDE DEF b
  <2>3. acct' = Execute(h, b, due)
    BY <2>1 DEF b
  <2>4. acct' = b \/ ~HavePos(acct')
    BY <2>2, <2>3, StopSaleKept
  <2> QED
    BY <2>2, <2>4 DEF StopSale, HavePos
<1> QED
  BY <1>2, <1>3

(* A loss past the stop, once shown to an account that is free to sell, ends  *)
(* in a sale (StopLossExits).                                                 *)
THEOREM StopLossCorrect == Spec => StopLossExits
<1>1. IInv /\ [Next]_vars => [StopSale \/ LossShown => StopSale' \/ ~HavePos(acct')]_vars
  <2> SUFFICES ASSUME IInv, Next, StopSale \/ LossShown
               PROVE  StopSale' \/ ~HavePos(acct')
    BY DEF vars
  <2>1. CASE Spot
    <3>1. PICK t \in Times, th \in Theo : OnSpot(t, th)
      BY <2>1 DEF Spot
    <3> DEFINE h == [hot EXCEPT !.spot = TRUE, !.clock = t, !.theo = th]
    <3>2. h \in View
      <4>1. [hot EXCEPT !.spot = TRUE] \in View
        BY Zenon DEF IInv, View
      <4>2. h = [[hot EXCEPT !.spot = TRUE] EXCEPT !.clock = t, !.theo = th]
        BY DEF IInv, View
      <4> QED
        BY <4>1, <4>2 DEF View
    <3>3. OnHotUpdate(h)
      BY <3>1 DEF OnSpot
    <3> QED
      BY <3>2, <3>3, StopSaleUpdate, Zenon
  <2>2. CASE PolyQuote
    <3>1. PICK s \in Side, q \in Quote : OnQuote(s, q)
      BY <2>2 DEF PolyQuote
    <3> DEFINE h == [hot EXCEPT !.quote[s] = q]
    <3>2. h \in View
      BY DEF IInv, View
    <3>3. OnHotUpdate(h)
      BY <3>1 DEF OnQuote
    <3> QED
      BY <3>2, <3>3, StopSaleUpdate, Zenon
  <2>3. CASE Rollover
    <3>1. PICK k \in Bucket, known \in BOOLEAN, th \in Theo, bids \in [Side -> Bids] :
            k > hot.bucket /\ OnRollover(k, known, th, bids)
      BY <2>3 DEF Rollover
    <3>2. \A s \in Side : bids[s] \in 0..One
      BY PriceAssumption DEF Bids
    <3>3. acct' = Settled(acct, bids)
      BY <3>1 DEF OnRollover
    <3>4. ~HavePos(Settled(acct, bids))
      BY <3>2, SettledSound, Zenon DEF IInv
    <3> QED
      BY <3>3, <3>4, Zenon
  <2> QED
    BY <2>1, <2>2, <2>3 DEF Next
<1> QED
  BY SpecIInv, <1>1, PTL DEF Spec, StopLossExits

----------------------------------------------------------------------------
(* With immediate execution no order is left pending, and the timers that run *)
(* are those of the edges the last update saw.                                *)
SinceInv ==
  /\ Idle(acct)
  /\ \/ acct.risk = TRUE \/ hot.since = {}
     \/ hot.since \subseteq RawEdge(hot) /\ Ready(hot) /\ enabled = TRUE /\ acct.cash <= MaxCash

LEMMA ExecutedAtOnce ==
  ASSUME NEW h, NEW a, Fits(a)
  PROVE  LET b == Execute(h, a, TRUE)
         IN  Idle(b) /\ (HavePos(b) /\ ~HavePos(a) => a.pending = "BUY" /\ b.pside = a.pside)
<1>1. a \in Account
  BY DEF Fits
<1>2. CASE Idle(a)
  BY <1>2 DEF Execute
<1>3. CASE ~Idle(a) /\ a.pending = "BUY"
  <2> DEFINE q == h.quote[a.pside]
             x == Outlay(a, q.ask)
  <2>1. Execute(h, a, TRUE) \in {Cancel(a), [Cancel(a) EXCEPT !.risk = TRUE], Bought(h, a, x, q)}
    BY <1>3 DEF Execute, ExecuteBuy
  <2>2. Idle(Cancel(a)) /\ ~HavePos(Cancel(a)) /\ ~HavePos([Cancel(a) EXCEPT !.risk = TRUE])
        /\ Idle([Cancel(a) EXCEPT !.risk = TRUE])
    BY <1>1, <1>3 DEF Fits, Cancel, Idle, HavePos, Account
  <2> HIDE DEF q, x
  <2>3. Idle(Bought(h, a, x, q)) /\ Bought(h, a, x, q).pside = a.pside
    <3> DEFINE paid == [a EXCEPT !.cash = @ - x - Fee(x, q.ask), !.side = a.pside,
                                 !.bucket = h.bucket, !.qty = x \div q.ask,
                                 !.basis = x + Fee(x, q.ask), !.pending = "none"]
    <3>1. Bought(h, a, x, q) = paid \/ Bought(h, a, x, q) = [paid EXCEPT !.risk = TRUE]
      BY DEF Bought
    <3>2. paid.pending = "none" /\ paid.pside = a.pside
          /\ [paid EXCEPT !.risk = TRUE].pending = "none" /\ [paid EXCEPT !.risk = TRUE].pside = a.pside
      BY <1>1 DEF Account
    <3> QED BY <3>1, <3>2 DEF Idle
  <2> QED BY <1>3, <2>1, <2>2, <2>3
<1>4. CASE ~Idle(a) /\ a.pending # "BUY"
  <2>1. HavePos(a)
    BY <1>1, <1>4 DEF Fits, Idle, Account
  <2>2. Execute(h, a, TRUE) = Cancel(a) \/ Execute(h, a, TRUE) = Sold(a, h.quote[a.side].bid)
    BY <1>4, <2>1 DEF Execute, ExecuteSell
  <2>3. Idle(Cancel(a))
    BY <1>1 DEF Cancel, Idle, Account
  <2>4. Idle(Sold(a, h.quote[a.side].bid))
    <3> DEFINE p == Proceeds(a, h.quote[a.side].bid)
               paid == [a EXCEPT !.cash = @ + p]
    <3>1. Sold(a, h.quote[a.side].bid) = Flatten(paid)
          \/ Sold(a, h.quote[a.side].bid) = Flatten([paid EXCEPT !.risk = TRUE])
      BY DEF Sold
    <3> HIDE DEF p
    <3>2. Idle(Flatten(paid)) /\ Idle(Flatten([paid EXCEPT !.risk = TRUE]))
      BY <1>1 DEF Flatten, Idle, Account
    <3> QED BY <3>1, <3>2
  <2> QED BY <2>1, <2>2, <2>3, <2>4
<1> QED BY <1>2, <1>3, <1>4

(* An order to buy is for an edge whose timer had started and that is still   *)
(* there.                                                                     *)
LEMMA BuyScheduled ==
  ASSUME NEW h, NEW a, NEW held, Fits(a), Idle(a), ~HavePos(a), Schedule(h, a, held).pending = "BUY"
  PROVE  a.risk # TRUE /\ Schedule(h, a, held).pside \in Buyable(h, held)
<1>1. a \in Account /\ Schedule(h, a, held) # a
  BY DEF Fits, Idle
<1>2. /\ a.risk # TRUE /\ Buyable(h, held) # {}
      /\ Schedule(h, a, held) = [a EXCEPT !.pending = "BUY", !.pside = Chosen(h, Buyable(h, held))]
  BY <1>1 DEF Schedule, ScheduleBuy
<1>3. Buyable(h, held) \subseteq Side
  BY DEF Buyable, RawEdge
<1>4. Chosen(h, Buyable(h, held)) \in Buyable(h, held)
  BY <1>2, <1>3 DEF Chosen, Better, Side
<1>5. Schedule(h, a, held).pside = Chosen(h, Buyable(h, held))
  BY <1>1, <1>2 DEF Account
<1> QED BY <1>2, <1>4, <1>5

Held == Persist /\ Idle(acct) /\ ~HavePos(acct) /\ (acct'.pending = "BUY" \/ HavePos(acct'))
        => Ready(hot) /\ acct'.pside \in RawEdge(hot)

LEMMA SinceUpdate ==
  ASSUME Latency = FALSE, IInv, SinceInv, NEW h, h \in View, h.bucket = hot.bucket, OnHotUpdate(h),
         h.since = hot.since, Ready(hot) => Ready(h)
  PROVE  SinceInv' /\ Held
<1>1. Fits(acct) /\ acct \in Account
  BY DEF IInv, Fits
<1>2. CASE ~Trading(h)
  <2>1. hot' = h /\ acct' = acct /\ enabled' = enabled
    BY <1>2 DEF OnHotUpdate
  <2>2. acct.risk = TRUE \/ hot.since = {}
    BY <1>2 DEF SinceInv, Trading
  <2> QED BY <2>1, <2>2 DEF SinceInv, Held, Idle
<1>3. CASE Trading(h)
  <2>1. PICK held \in SUBSET h.since :
          /\ hot' = [h EXCEPT !.since = NextSince(h, acct)]
          /\ acct' = Execute(h, Schedule(h, acct, held), TRUE)
          /\ UNCHANGED enabled
    BY <1>3, Zenon DEF OnHotUpdate
  <2> DEFINE b == Schedule(h, acct, held)
             c == Execute(h, b, TRUE)
  <2>2. Fits(b) /\ b.side = acct.side
    BY <1>1, ScheduleFits
  <2>3. Idle(c) /\ (HavePos(c) /\ ~HavePos(b) => b.pending = "BUY" /\ c.pside = b.pside)
    BY <2>2, ExecutedAtOnce
  <2>4. AccountStep(acct, c) /\ c = acct'
    BY <2>1, UpdateStep
  <2> HIDE DEF c
  <2>5. CASE acct.risk = TRUE
    <3>1. c = acct
      BY <2>5 DEF SinceInv, Schedule, Execute, b, c
    <3> QED BY <2>3, <2>4, <2>5, <3>1 DEF SinceInv, Held, Idle
  <2>6. CASE acct.risk # TRUE /\ HavePos(acct)
    <3>1. NextSince(h, acct) = {}
      BY <2>6 DEF SinceInv, NextSince
    <3>2. hot'.since = {}
      BY <2>1, <3>1 DEF View
    <3> QED BY <2>3, <2>4, <2>6, <3>2 DEF SinceInv, Held
  <2>7. CASE acct.risk # TRUE /\ ~HavePos(acct)
    <3>1. NextSince(h, acct) = RawEdge(h)
      BY <2>7 DEF SinceInv, NextSince
    <3>2. /\ hot'.since = RawEdge(h) /\ hot'.quote = h.quote /\ hot'.theo = h.theo
          /\ hot'.spot = h.spot /\ hot'.strike = h.strike
      BY <2>1, <3>1 DEF View
    <3>3. RawEdge(hot') = RawEdge(h) /\ Ready(hot')
      BY <1>3, <3>2 DEF RawEdge, HasEdge, Fair, Ready, Trading
    <3>4. c.cash <= MaxCash
      <4>1. acct.cash <= MaxCash /\ acct.cash \in Int /\ MaxCash \in Nat
        BY <1>1, <1>3, MoneyAssumption DEF Trading, Account
      <4>2. c.basis \in Nat
        BY <2>4, UpdateStep DEF IInv, Fits, Account
      <4>3. c.cash = acct.cash \/ c.cash = acct.cash - c.basis
        BY <2>4, <2>7 DEF AccountStep
      <4> QED BY <4>1, <4>2, <4>3
    <3>5. SinceInv'
      BY <1>3, <2>1, <2>3, <2>4, <3>2, <3>3, <3>4 DEF SinceInv, Trading
    <3>6. ASSUME Persist, HavePos(c) PROVE Ready(hot) /\ c.pside \in RawEdge(hot)
      <4>1. ~HavePos(b)
        BY <2>2, <2>7 DEF HavePos
      <4>2. b.pending = "BUY" /\ c.pside = b.pside
        BY <2>3, <3>6, <4>1
      <4>3. b.pside \in Buyable(h, held)
        BY <1>1, <2>7, <4>2, BuyScheduled DEF SinceInv
      <4>4. b.pside \in hot.since
        BY <2>1, <3>6, <4>3 DEF Buyable
      <4> QED BY <2>7, <4>2, <4>4 DEF SinceInv
    <3> QED BY <2>3, <2>4, <3>5, <3>6 DEF Held, Idle
  <2> QED BY <2>5, <2>6, <2>7
<1> QED BY <1>2, <1>3

(* Without latency and with a persistence time, what is bought had an edge    *)
(* already at the update before (EdgeHeldBeforeBuy).                          *)
THEOREM EdgeHeldCorrect == ASSUME Latency = FALSE PROVE Spec => EdgeHeldBeforeBuy
<1>1. Init => SinceInv
  BY DEF Init, SinceInv, Idle
<1>2. ASSUME IInv, SinceInv, Next PROVE SinceInv' /\ Held
  <2>1. CASE Spot
    <3>1. PICK t \in Times, th \in Theo : OnSpot(t, th)
      BY <2>1 DEF Spot
    <3> DEFINE h == [hot EXCEPT !.spot = TRUE, !.clock = t, !.theo = th]
    <3>2. h \in View /\ h.bucket = hot.bucket /\ h.since = hot.since
      <4>1. [hot EXCEPT !.spot = TRUE] \in View
        BY <1>2, Zenon DEF IInv, View
      <4>2. h = [[hot EXCEPT !.spot = TRUE] EXCEPT !.clock = t, !.theo = th]
        BY <1>2 DEF IInv, View
      <4>3. h.bucket = hot.bucket /\ h.since = hot.since
        BY <1>2 DEF IInv, View
      <4> QED BY <4>1, <4>2, <4>3 DEF View
    <3>3. Ready(hot) => Ready(h)
      BY <1>2 DEF IInv, View, Ready
    <3>4. OnHotUpdate(h)
      BY <3>1 DEF OnSpot
    <3> QED BY <1>2, <3>2, <3>3, <3>4, SinceUpdate, Zenon
  <2>2. CASE PolyQuote
    <3>1. PICK s \in Side, q \in Quote : OnQuote(s, q)
      BY <2>2 DEF PolyQuote
    <3> DEFINE h == [hot EXCEPT !.quote[s] = q]
    <3>2. h \in View /\ h.bucket = hot.bucket /\ h.since = hot.since
      BY <1>2 DEF IInv, View
    <3>3. Ready(hot) => Ready(h)
      BY <1>2, PriceAssumption DEF IInv, View, Ready
    <3>4. OnHotUpdate(h)
      BY <3>1 DEF OnQuote
    <3> QED BY <1>2, <3>2, <3>3, <3>4, SinceUpdate, Zenon
  <2>3. CASE Rollover
    <3>1. PICK k \in Bucket, known \in BOOLEAN, th \in Theo, bids \in [Side -> Bids] :
            k > hot.bucket /\ OnRollover(k, known, th, bids)
      BY <2>3 DEF Rollover
    <3>2. hot'.since = {} /\ acct' = Settled(acct, bids)
      BY <1>2, <3>1 DEF OnRollover, IInv, View
    <3>3. acct \in Account /\ Idle(acct)
      BY <1>2 DEF IInv, Fits, SinceInv
    <3>4. Idle(acct') /\ ~HavePos(acct')
      <4>1. CASE ~HavePos(acct)
        BY <3>2, <3>3, <4>1 DEF Settled
      <4>2. CASE HavePos(acct)
        <5>1. acct' \in {ForceSold(acct, bids[acct.side]), Flatten(acct)}
          BY <3>2, <4>2 DEF Settled
        <5>2. \A x : /\ Idle(Flatten([acct EXCEPT !.cash = x])) /\ ~HavePos(Flatten([acct EXCEPT !.cash = x]))
                     /\ Idle(Flatten(acct)) /\ ~HavePos(Flatten(acct))
          BY <3>3 DEF Flatten, Idle, HavePos, Account
        <5>3. ForceSold(acct, bids[acct.side])
              = Flatten([acct EXCEPT !.cash = acct.cash + Proceeds(acct, bids[acct.side])])
          BY DEF ForceSold
        <5> QED BY <5>1, <5>2, <5>3
      <4> QED BY <4>1, <4>2
    <3> QED BY <3>2, <3>4 DEF SinceInv, Held, Idle
  <2> QED BY <1>2, <2>1, <2>2, <2>3 DEF Next
<1>3. ASSUME SinceInv, UNCHANGED vars PROVE SinceInv'
  BY <1>3 DEF SinceInv, vars, Idle, RawEdge, Ready, HasEdge, Fair, AskOk
<1>4. IInv /\ SinceInv /\ [Next]_vars => SinceInv' /\ [Held]_vars
  BY <1>2, <1>3
<1> QED
  BY SpecIInv, <1>1, <1>4, PTL DEF Spec, EdgeHeldBeforeBuy, Held

(* The strategy implements TradingAccount: every handler maps to one of its   *)
(* steps or to no step.                                                       *)
THEOREM StrategyImplementsAccount == Spec => ImplementsAccount
<1>1. Init => TA!Init
  <2>1. Init => acct.cash = InitialCash /\ acct.basis = 0 /\ acct.risk = FALSE
    BY DEF Init
  <2> QED
    BY <2>1, Zenon DEF TA!Init
<1>2. IInv /\ [Next]_vars => [TA!Next]_(TA!vars)
  <2> SUFFICES ASSUME IInv, [Next]_vars
               PROVE  TA!Next \/ UNCHANGED TA!vars
    BY Zenon
  <2>1. AccountStep(acct, acct') /\ Fits(acct) /\ Fits(acct')
    <3>1. IInv' /\ AccountStep(acct, acct')
      BY NextIInv
    <3> QED
      BY <3>1 DEF IInv
  <2>2. /\ HavePos(acct) <=> acct.basis > 0
        /\ ~HavePos(acct) <=> acct.basis = 0
        /\ HavePos(acct') <=> acct'.basis > 0
        /\ ~HavePos(acct') <=> acct'.basis = 0
    BY <2>1 DEF Fits
  <2>3. acct.risk \in BOOLEAN /\ acct'.risk \in BOOLEAN
    BY <2>1, Zenon DEF Fits, Account
  <2>4. CASE acct'.cash = acct.cash /\ acct'.basis = acct.basis /\ acct'.risk = acct.risk
    BY <2>4, Zenon DEF TA!vars
  <2>5. CASE /\ ~HavePos(acct) /\ acct.risk # TRUE /\ acct.cash >= InitialCash - MaxLoss
             /\ HavePos(acct') /\ acct'.cash = acct.cash - acct'.basis
    <3>1. acct.risk = FALSE
      BY <2>3, <2>5, Zenon
    <3> QED
      BY <2>2, <2>3, <2>5, <3>1, Zenon DEF TA!Next, TA!Open
  <2>6. CASE /\ HavePos(acct) /\ ~HavePos(acct') /\ acct'.basis = 0 /\ acct'.cash >= acct.cash
             /\ acct.risk = TRUE => acct'.risk = TRUE
    BY <2>2, <2>3, <2>6, Zenon DEF TA!Next, TA!Close
  <2>7. CASE /\ ~HavePos(acct) /\ acct'.basis = acct.basis /\ acct'.cash = acct.cash
             /\ acct.risk # TRUE /\ acct'.risk = TRUE
    <3>1. acct.risk = FALSE
      BY <2>3, <2>7, Zenon
    <3> QED
      BY <2>2, <2>7, <3>1, Zenon DEF TA!Next, TA!Refuse
  <2> QED
    BY <2>1, <2>4, <2>5, <2>6, <2>7, Zenon DEF AccountStep
<1> QED
  BY SpecIInv, <1>1, <1>2, PTL DEF Spec, ImplementsAccount, TA!Spec
=============================================================================
