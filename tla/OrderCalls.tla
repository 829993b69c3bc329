----------------------------- MODULE OrderCalls -----------------------------
(* What the strategy may rely on when it calls LiveExecutor: calls are made    *)
(* one at a time, an order is performed at most once and only while its call   *)
(* is under way, a call that says "ok" was performed and one that says         *)
(* "unsent" never will be.  Once replies and requests no longer line up        *)
(* (sync is FALSE) an order may also be performed after its call has returned  *)
(* and an "ok" may be another call's.                                          *)
EXTENDS Naturals

CONSTANT MaxCalls
Call == 1..MaxCalls

VARIABLES asked, done, result, sync
calls == <<asked, done, result, sync>>

Result == {"none", "ok", "error", "cut", "broken", "unsent"}
UnderWay(r) == r = asked /\ result[r] = "none"

Init ==
  /\ asked = 0 /\ sync = TRUE
  /\ done = [r \in Call |-> 0] /\ result = [r \in Call |-> "none"]

Ask ==
  /\ asked < MaxCalls /\ \A r \in Call : ~UnderWay(r)
  /\ asked' = asked + 1
  /\ UNCHANGED <<done, result, sync>>

(* A call that is not sent returns in the step that asks for it.               *)
Refuse ==
  /\ asked < MaxCalls /\ \A r \in Call : ~UnderWay(r)
  /\ asked' = asked + 1
  /\ result' = [result EXCEPT ![asked + 1] = "unsent"]
  /\ UNCHANGED <<done, sync>>

Perform(r) ==
  /\ done[r] = 0 /\ result[r] # "unsent"
  /\ UnderWay(r) \/ (~sync /\ r <= asked)
  /\ done' = [done EXCEPT ![r] = 1]
  /\ UNCHANGED <<asked, result, sync>>

(* A reply too long to be read is cut, and the next call finds its rest.       *)
Return(r, answer) ==
  /\ UnderWay(r)
  /\ answer = "ok" => done[r] = 1 \/ ~sync
  /\ answer = "unsent" => done[r] = 0
  /\ result' = [result EXCEPT ![r] = answer]
  /\ sync' = (sync /\ answer # "cut")
  /\ UNCHANGED <<asked, done>>

LoseSync == sync' = FALSE /\ UNCHANGED <<asked, done, result>>

Next ==
  \/ Ask \/ Refuse \/ LoseSync
  \/ \E r \in Call : Perform(r) \/ \E a \in Result \ {"none"} : Return(r, a)

Spec == Init /\ [][Next]_calls
=============================================================================
