---------------------------- MODULE TradingAccount ----------------------------
(* What the paper account of the BTC bucket runner promises, with markets,     *)
(* quotes, timers and pending orders left out: at most one position is open at *)
(* a time, it is opened only by an account that is not stopped and whose       *)
(* realised loss is within the cap, closing it never costs money, and the risk *)
(* stop is final.  Strategy implements this specification.                     *)
EXTENDS Integers

CONSTANTS InitialCash,   \* money at the start
          MaxLoss        \* realised loss from which no position is opened

VARIABLES cash,      \* money not invested
          outlay,    \* money paid for the open position, 0 when flat
          stopped    \* the risk stop

vars == <<cash, outlay, stopped>>

Init == cash = InitialCash /\ outlay = 0 /\ stopped = FALSE

(* One position is bought; paying for it may trip the risk stop.               *)
Open ==
  /\ outlay = 0
  /\ stopped = FALSE
  /\ cash >= InitialCash - MaxLoss
  /\ outlay' > 0
  /\ cash' = cash - outlay'
  /\ stopped' \in BOOLEAN

(* The position is given up for what it fetches.                               *)
Close ==
  /\ outlay > 0
  /\ outlay' = 0
  /\ cash' >= cash
  /\ stopped' \in BOOLEAN
  /\ stopped = TRUE => stopped' = TRUE

(* A purchase is refused because it would take the loss past the cap.          *)
Refuse ==
  /\ outlay = 0
  /\ stopped = FALSE
  /\ stopped' = TRUE
  /\ UNCHANGED <<cash, outlay>>

Next == Open \/ Close \/ Refuse

Spec == Init /\ [][Next]_vars
===============================================================================
