--------------------------- MODULE RtdsFeedProofs ---------------------------
(* The capture of strikes and the threads around the Chainlink connection, for *)
(* any number of ticks, any sizes of messages and of the buffer, any           *)
(* boundaries.                                                                 *)
(*                                                                             *)
(* The argument: a tick that was published is lost for a reason that fate      *)
(* names, in the buffer, or in the hands of the socket's thread, and those are *)
(* younger than all in the buffer (Kept).  Whoever holds start_mu_ is the only *)
(* one to start or stop anything (Held).  A connection in use has the time it  *)
(* was opened set, so its silence is timed (Timed).                            *)
EXTENDS RtdsFeed, SequenceTheorems, WellFoundedInduction, TLAPS

Held ==
  /\ holder = "dog" <=> dog \in {"ever", "times", "cleared", "joining", "reopening"}
  /\ holder = "caller" <=> caller = "opening"
  /\ holder = "dog" => started
  /\ holder = "caller" => ~started
  /\ dog = "reopening" \/ ~started => ping # "running"

Kept ==
  /\ \A t \in Tick : t > pub => fate[t] = "unpublished"
  /\ \A t \in Tick : t <= pub => fate[t] \in Lost \/ t \in Range(buffer) \cup Range(batch)
  /\ \A t \in Range(buffer) \cup Range(batch) : t <= pub
  /\ \A t \in Range(buffer) : \A u \in Range(batch) : t < u
  /\ \A u \in Range(batch) : Head(batch) <= u
  /\ socket = "idle" => batch = <<>>

Inv == TypeOK /\ Held /\ GuardedWhileStarted /\ Kept /\ StrikeIsFirst

----------------------------------------------------------------------------
(* Sets of ticks, and sequences of them.                                       *)

LEMMA Least ==
  ASSUME NEW S \in SUBSET Nat, S # {}
  PROVE  Min(S) \in S /\ \A y \in S : Min(S) <= y
<1>1. PICK x \in S : \A y \in S : ~(<<y, x>> \in OpToRel(<, Nat))
  BY NatLessThanWellFounded, WFMin
<1>2. \A y \in Nat : y < x => <<y, x>> \in OpToRel(<, Nat)
  <2> SUFFICES ASSUME NEW y \in Nat, y < x
               PROVE  <<y, x>> \in {ss \in Nat \X Nat : ss[1] < ss[2]}
    BY DEF OpToRel
  <2> QED
    OBVIOUS
<1>3. \A y \in S : x <= y
  <2>1. \A y \in S : ~(y < x)
    BY <1>1, <1>2
  <2> QED
    BY <2>1
<1> QED
  BY <1>3 DEF Min

LEMMA Greatest ==
  ASSUME NEW b \in Nat, NEW S \in SUBSET (0..b), S # {}
  PROVE  Max(S) \in S /\ \A y \in S : Max(S) >= y
<1> DEFINE Back == {b - x : x \in S}
<1>1. Back \in SUBSET Nat /\ Back # {}
  <2>1. \A x \in S : b - x \in Nat
    OBVIOUS
  <2> QED
    BY <2>1
<1>2. PICK x \in S : b - x = Min(Back)
  BY <1>1, Least
<1>3. \A y \in S : b - x <= b - y
  BY <1>1, <1>2, Least
<1>4. \A y \in S : x >= y
  BY <1>3
<1> QED
  BY <1>4 DEF Max

LEMMA RangeOf ==
  ASSUME NEW S, NEW q \in Seq(S)
  PROVE  Range(q) \subseteq S /\ \A x : x \in Range(q) <=> \E i \in 1..Len(q) : q[i] = x
BY DEF Range

LEMMA RangeConcat ==
  ASSUME NEW S, NEW p \in Seq(S), NEW q \in Seq(S)
  PROVE  p \o q \in Seq(S) /\ Range(p \o q) = Range(p) \cup Range(q)
<1>1. /\ p \o q \in Seq(S) /\ Len(p \o q) = Len(p) + Len(q) /\ Len(p) \in Nat /\ Len(q) \in Nat
      /\ \A i \in 1..(Len(p) + Len(q)) : (p \o q)[i] = IF i <= Len(p) THEN p[i] ELSE q[i - Len(p)]
  BY ConcatProperties
<1>0. /\ \A x : x \in Range(p) <=> \E i \in 1..Len(p) : p[i] = x
      /\ \A x : x \in Range(q) <=> \E i \in 1..Len(q) : q[i] = x
      /\ \A x : x \in Range(p \o q) <=> \E i \in 1..Len(p \o q) : (p \o q)[i] = x
  BY <1>1, RangeOf
<1>2. \A x : x \in Range(p \o q) => x \in Range(p) \cup Range(q)
  <2> SUFFICES ASSUME NEW i \in 1..Len(p \o q)
               PROVE  (p \o q)[i] \in Range(p) \cup Range(q)
    BY <1>0
  <2>1. CASE i <= Len(p)
    BY <1>0, <1>1, <2>1
  <2>2. CASE i > Len(p)
    <3>1. i - Len(p) \in 1..Len(q)
      BY <1>1, <2>2
    <3> QED
      BY <1>0, <1>1, <2>2, <3>1
  <2> QED
    BY <1>1, <2>1, <2>2
<1>3. \A x \in Range(p) : x \in Range(p \o q)
  <2>1. \A i \in 1..Len(p) : i \in 1..Len(p \o q) /\ (p \o q)[i] = p[i]
    BY <1>1
  <2> QED
    BY <1>0, <2>1
<1>4. \A x \in Range(q) : x \in Range(p \o q)
  <2>1. \A i \in 1..Len(q) : i + Len(p) \in 1..Len(p \o q) /\ (p \o q)[i + Len(p)] = q[i]
    BY <1>1
  <2> QED
    BY <1>0, <2>1
<1> QED
  BY <1>1, <1>2, <1>3, <1>4

LEMMA NewestOf ==
  ASSUME NEW q \in Seq(Tick)
  PROVE  Newest(q) \in Seq(Tick) /\ Len(Newest(q)) <= MaxBuffer /\ Range(Newest(q)) \subseteq Range(q)
<1> DEFINE m == IF Len(q) > MaxBuffer THEN Len(q) - MaxBuffer + 1 ELSE 1
<1>1. Len(q) \in Nat /\ m \in Nat \ {0} /\ (Len(q) > MaxBuffer => m = Len(q) - MaxBuffer + 1)
      /\ (Len(q) <= MaxBuffer => m = 1)
  BY RtdsAssumption
<1>2. Newest(q) = SubSeq(q, m, Len(q))
  BY DEF Newest
<1> HIDE DEF m
<1>3. CASE q = <<>>
  <2>1. m = 1 /\ Len(q) = 0
    BY <1>1, <1>3, RtdsAssumption
  <2>2. Newest(q) = <<>>
    BY <1>2, <2>1, SubSeqEmpty
  <2>3. Newest(q) = q /\ Len(q) <= MaxBuffer
    BY <1>3, <2>1, <2>2, RtdsAssumption
  <2> QED
    BY <2>3
<1>4. CASE q # <<>>
  <2>1. m \in 1..Len(q) /\ Len(q) \in 1..Len(q) /\ m <= Len(q)
    BY <1>1, <1>4, EmptySeq, RtdsAssumption
  <2>2. /\ SubSeq(q, m, Len(q)) \in Seq(Tick) /\ Len(SubSeq(q, m, Len(q))) = Len(q) - m + 1
        /\ \A i \in 1..(Len(q) - m + 1) : SubSeq(q, m, Len(q))[i] = q[m + i - 1]
    BY <1>1, <2>1, SubSeqProperties
  <2>3. Len(q) - m + 1 <= MaxBuffer
    BY <1>1, RtdsAssumption
  <2>4. \A i \in 1..(Len(q) - m + 1) : m + i - 1 \in 1..Len(q)
    BY <1>1, <2>1
  <2>5. Range(Newest(q)) \subseteq Range(q)
    <3>1. \A x : x \in Range(q) <=> \E i \in 1..Len(q) : q[i] = x
      BY RangeOf
    <3>2. \A x : x \in Range(Newest(q)) <=> \E i \in 1..Len(Newest(q)) : Newest(q)[i] = x
      <4>1. Newest(q) \in Seq(Tick)
        BY <1>2, <2>2
      <4> QED
        BY <4>1, RangeOf
    <3> QED
      BY <1>2, <2>2, <2>4, <3>1, <3>2
  <2> QED
    BY <1>2, <2>2, <2>3, <2>5
<1> QED
  BY <1>3, <1>4
----------------------------------------------------------------------------
(* What is picked.                                                             *)

LEMMA Ticks ==
  Inv => /\ Range(buffer) \subseteq Tick /\ Range(batch) \subseteq Tick
         /\ Range(buffer) \subseteq 0..LastTick /\ Range(buffer) \in SUBSET Nat
         /\ batch # <<>> => Head(batch) \in Tick
         /\ want \in Nat /\ Arrived \in 0..LastTick
<1> SUFFICES ASSUME Inv
             PROVE  /\ Range(buffer) \subseteq Tick /\ Range(batch) \subseteq Tick
                    /\ Range(buffer) \subseteq 0..LastTick /\ Range(buffer) \in SUBSET Nat
                    /\ batch # <<>> => Head(batch) \in Tick
                    /\ want \in Nat /\ Arrived \in 0..LastTick
  OBVIOUS
<1>1. buffer \in Seq(Tick) /\ batch \in Seq(Tick) /\ pub \in 0..LastTick /\ want \in Boundaries \cup {0}
  BY DEF Inv, TypeOK
<1>2. Range(buffer) \subseteq Tick /\ Range(batch) \subseteq Tick
  BY <1>1, RangeOf
<1>3. batch # <<>> => Head(batch) \in Tick
  BY <1>1
<1>4. \A t \in Tick : t \in Nat /\ t \in 0..LastTick /\ t - 1 \in 0..LastTick
  BY RtdsAssumption DEF Tick
<1>5. Arrived \in 0..LastTick
  BY <1>1, <1>3, <1>4 DEF Arrived
<1>6. want \in Nat
  BY <1>1, RtdsAssumption
<1> QED
  BY <1>2, <1>3, <1>4, <1>5, <1>6

(* A tick of the buffer from the boundary on, the first of them; or else the   *)
(* last one before it, if none after it is near enough.                        *)
LEMMA Picks ==
  ASSUME Inv, PickAfter \/ Deadline
  PROVE  \/ UNCHANGED strike
         \/ \E t \in Range(buffer) :
              /\ strike' = [want |-> want, ts |-> t, pick |-> "after", at |-> Arrived]
              /\ t >= want /\ t - want <= MaxSkew
              /\ \A u \in Range(buffer) : u >= want => t <= u
         \/ \E t \in Range(buffer) :
              /\ strike' = [want |-> want, ts |-> t, pick |-> "before", at |-> Arrived]
              /\ t < want /\ want - t <= MaxSkew
              /\ \A u \in Range(buffer) : u - want <= MaxSkew => u <= t
<1> DEFINE seen == Range(buffer)
<1>0. seen \subseteq 0..LastTick /\ seen \in SUBSET Nat /\ want \in Nat
  BY Ticks
<1>1. /\ \A t : t \in After(seen) <=> t \in seen /\ t >= want /\ t - want <= MaxSkew
      /\ \A t : t \in Before(seen) <=> t \in seen /\ t <= want /\ want - t <= MaxSkew
  BY DEF After, Before
<1> HIDE DEF seen
<1>2. ASSUME After(seen) # {}, Picked(Min(After(seen)), "after")
      PROVE  \E t \in seen :
               /\ strike' = [want |-> want, ts |-> t, pick |-> "after", at |-> Arrived]
               /\ t >= want /\ t - want <= MaxSkew
               /\ \A u \in seen : u >= want => t <= u
  <2>1. After(seen) \in SUBSET Nat
    BY <1>0, <1>1
  <2>2. Min(After(seen)) \in After(seen) /\ \A y \in After(seen) : Min(After(seen)) <= y
    BY <1>2, <2>1, Least
  <2>3. PICK m : m = Min(After(seen))
    OBVIOUS
  <2>4. m \in seen /\ m >= want /\ m - want <= MaxSkew /\ \A y \in After(seen) : m <= y
    BY <1>1, <2>2, <2>3
  <2>5. \A u \in seen : u >= want => m <= u
    <3> SUFFICES ASSUME NEW u \in seen, u >= want, u < m
                 PROVE  FALSE
      BY <1>0, <2>4
    <3>1. u \in Nat /\ m \in Nat
      BY <1>0, <2>4
    <3>2. u - want <= MaxSkew
      BY <1>0, <2>4, <3>1, RtdsAssumption
    <3> QED
      BY <1>1, <2>4, <3>1, <3>2
  <2> QED
    BY <1>2, <2>3, <2>4, <2>5 DEF Picked
<1>3. ASSUME After(seen) = {}, Before(seen) # {}, Picked(Max(Before(seen)), "before")
      PROVE  \E t \in seen :
               /\ strike' = [want |-> want, ts |-> t, pick |-> "before", at |-> Arrived]
               /\ t < want /\ want - t <= MaxSkew
               /\ \A u \in seen : u - want <= MaxSkew => u <= t
  <2>1. Before(seen) \in SUBSET (0..LastTick) /\ LastTick \in Nat
    BY <1>0, <1>1, RtdsAssumption
  <2>2. Max(Before(seen)) \in Before(seen) /\ \A y \in Before(seen) : Max(Before(seen)) >= y
    BY <1>3, <2>1, Greatest
  <2>3. PICK m : m = Max(Before(seen))
    OBVIOUS
  <2>4. m \in seen /\ m <= want /\ want - m <= MaxSkew /\ \A y \in Before(seen) : m >= y
    BY <1>1, <2>2, <2>3
  <2>5. \A u \in seen : u - want <= MaxSkew => u < want
    <3> SUFFICES ASSUME NEW u \in seen, u - want <= MaxSkew
                 PROVE  u < want
      OBVIOUS
    <3>1. u \in Nat /\ ~(u >= want)
      BY <1>0, <1>1, <1>3
    <3> QED
      BY <1>0, <3>1
  <2>6. m \in Nat /\ m < want
    <3>1. m \in Nat /\ m - want <= MaxSkew
      BY <1>0, <2>4, RtdsAssumption
    <3> QED
      BY <2>4, <2>5, <3>1
  <2>7. \A u \in seen : u - want <= MaxSkew => u <= m
    <3> SUFFICES ASSUME NEW u \in seen, u < want, u > m
                 PROVE  FALSE
      BY <1>0, <2>5, <2>6
    <3>1. u \in Nat
      BY <1>0
    <3>2. want - u <= MaxSkew
      BY <1>0, <2>4, <2>6, <3>1, RtdsAssumption
    <3> QED
      BY <1>0, <1>1, <2>4, <2>6, <3>1, <3>2
  <2> QED
    BY <1>3, <2>3, <2>4, <2>6, <2>7 DEF Picked
<1> QED
  BY <1>2, <1>3 DEF PickAfter, Deadline, seen
----------------------------------------------------------------------------
(* Types.                                                                      *)

LEMMA FateType ==
  ASSUME Inv, NEW S, NEW f \in Lost \cup {"received"}, Fated(S, f)
  PROVE  fate' \in [Tick -> Lost \cup {"unpublished", "received"}]
BY DEF Fated, Inv, TypeOK

LEMMA MessageOf ==
  ASSUME NEW p \in 0..LastTick, NEW k \in 1..MaxBatch, p + k <= LastTick
  PROVE  LET m == [i \in 1..k |-> p + i] IN
           m \in Seq(Tick) /\ m # <<>> /\ Head(m) = p + 1 /\ Range(m) = (p + 1)..(p + k)
<1> DEFINE m == [i \in 1..k |-> p + i]
<1>1. p \in Nat /\ k \in Nat \ {0} /\ LastTick \in Nat
  BY RtdsAssumption
<1>2. \A i \in 1..k : p + i \in Tick
  BY <1>1 DEF Tick
<1>3. m \in Seq(Tick) /\ Len(m) = k
  BY <1>1, <1>2
<1>4. m # <<>> /\ Head(m) = p + 1
  BY <1>1, <1>3
<1>5. Range(m) = (p + 1)..(p + k)
  <2>1. \A x : x \in Range(m) <=> \E i \in 1..k : m[i] = x
    BY <1>3, RangeOf
  <2>2. \A x \in (p + 1)..(p + k) : x - p \in 1..k /\ m[x - p] = x
    BY <1>1
  <2>3. \A i \in 1..k : m[i] \in (p + 1)..(p + k)
    BY <1>1
  <2> QED
    BY <2>1, <2>2, <2>3
<1> QED
  BY <1>3, <1>4, <1>5

LEMMA TypeStep == Inv /\ [Next]_vars => TypeOK'
<1> SUFFICES ASSUME Inv, [Next]_vars
             PROVE  TypeOK'
  OBVIOUS
<1>1. CASE UNCHANGED vars
  BY <1>1 DEF vars, Inv, TypeOK
<1>2. CASE Opens \/ Breaks
  BY <1>2 DEF Opens, Breaks, control, waiting, Inv, TypeOK
<1>3. CASE Missed
  <2>1. pub' \in 0..LastTick
    BY <1>3, RtdsAssumption DEF Missed, Inv, TypeOK
  <2>2. fate' \in [Tick -> Lost \cup {"unpublished", "received"}]
    BY <1>3, FateType DEF Missed, Lost
  <2> QED
    BY <1>3, <2>1, <2>2 DEF Missed, control, waiting, Inv, TypeOK
<1>4. CASE TimePasses
  BY <1>4 DEF TimePasses, waiting, Inv, TypeOK
<1>5. CASE Receive
  <2>1. PICK k \in 1..MaxBatch : /\ pub + k <= LastTick /\ pub' = pub + k
                                 /\ batch' = [i \in 1..k |-> pub + i]
                                 /\ Fated((pub + 1)..(pub + k), "received")
    BY <1>5 DEF Receive
  <2>2. pub' \in 0..LastTick /\ batch' \in Seq(Tick)
    <3>1. pub \in 0..LastTick
      BY DEF Inv, TypeOK
    <3>2. pub + k \in 0..LastTick
      BY <2>1, <3>1, RtdsAssumption
    <3> QED
      BY <2>1, <3>1, <3>2, MessageOf
  <2>3. fate' \in [Tick -> Lost \cup {"unpublished", "received"}]
    BY <2>1, FateType DEF Lost
  <2> QED
    BY <1>5, <2>2, <2>3 DEF Receive, control, waiting, Inv, TypeOK
<1>6. CASE Push
  <2>1. CASE PushLast
    BY <2>1 DEF PushLast, control, waiting, Inv, TypeOK
  <2>2. CASE PushBuffer
    <3>1. buffer \o batch \in Seq(Tick)
      BY RangeConcat DEF Inv, TypeOK
    <3>2. buffer' \in Seq(Tick) /\ Len(buffer') <= MaxBuffer
      <4>1. buffer' = Newest(buffer \o batch)
        BY <2>2 DEF PushBuffer
      <4> QED
        BY <3>1, <4>1, NewestOf
    <3>3. fate' \in [Tick -> Lost \cup {"unpublished", "received"}]
      BY <2>2, FateType DEF PushBuffer, Lost
    <3> QED
      BY <2>2, <3>2, <3>3 DEF PushBuffer, control, waiting, Inv, TypeOK
  <2> QED
    BY <1>6, <2>1, <2>2 DEF Push
<1>7. CASE PingEnds
  BY <1>7 DEF PingEnds, feed, waiting, Inv, TypeOK
<1>8. CASE Watchdog
  <2>1. CASE ClearBuffer
    <3>1. <<>> \in Seq(Tick) /\ Len(<<>>) <= MaxBuffer
      BY RtdsAssumption
    <3>2. fate' \in [Tick -> Lost \cup {"unpublished", "received"}]
      BY <2>1, FateType DEF ClearBuffer, Lost
    <3> QED
      BY <2>1, <3>1, <3>2 DEF ClearBuffer, control, waiting, Inv, TypeOK
  <2>2. CASE Look
    BY <2>2 DEF Look, feed, control, waiting, Inv, TypeOK
  <2>3. CASE Reconnect
    <3>1. UNCHANGED <<pub, conn, socket, batch, buffer, last, fate, sess, started, ping, stopping, waiting>>
      BY <2>3 DEF Reconnect
    <3>2. /\ dog' \in {"ever", "asleep"} /\ holder' \in {"dog", holder}
          /\ ever' = FALSE \/ UNCHANGED ever
      BY <2>3 DEF Reconnect
    <3>3. ever' \in BOOLEAN
      BY <3>2 DEF Inv, TypeOK
    <3> QED
      BY <3>1, <3>2, <3>3 DEF waiting, Inv, TypeOK
  <2>4. CASE ResetTimes
    BY <2>4 DEF ResetTimes, waiting, Inv, TypeOK
  <2>5. CASE StopPing
    BY <2>5 DEF StopPing, feed, waiting, Inv, TypeOK
  <2>6. CASE RestartSocket
    BY <2>6 DEF RestartSocket, waiting, Inv, TypeOK
  <2>7. CASE Reopened
    <3>1. UNCHANGED <<feed, started, waiting>>
      BY <2>7 DEF Reopened
    <3>2. /\ dog' = "asleep" /\ holder' = "none" /\ sess' = "fresh" /\ ping' = "running"
          /\ stopping' = FALSE
      BY <2>7 DEF Reopened, StartPing
    <3>3. {last, sess}' \subseteq {"zero", "fresh", "old"}
      BY <3>1, <3>2 DEF feed, Inv, TypeOK
    <3>4. TypeOK
      BY DEF Inv
    <3> QED
      BY <3>1, <3>2, <3>3, <3>4 DEF feed, waiting, TypeOK
  <2>8. CASE ReopenFails
    <3>1. UNCHANGED <<feed, sess, ping, stopping, waiting>>
      BY <2>8 DEF ReopenFails
    <3>2. dog' = "asleep" /\ holder' = "none" /\ started' \in BOOLEAN
      BY <2>8 DEF ReopenFails
    <3>3. {last, sess}' = {last, sess}
      BY <3>1 DEF feed
    <3> QED
      BY <3>1, <3>2, <3>3 DEF feed, waiting, Inv, TypeOK
  <2> QED
    BY <1>8, <2>1, <2>2, <2>3, <2>4, <2>5, <2>6, <2>7, <2>8 DEF Watchdog
<1>9. CASE Ask
  BY <1>9 DEF Ask, feed, control, Inv, TypeOK
<1>10. CASE EnsureStarted \/ Opened \/ OpenFails
  <2>1. CASE EnsureStarted
    BY <2>1 DEF EnsureStarted, Inv, TypeOK
  <2>2. CASE Opened
    <3>1. UNCHANGED <<feed, want, strike>>
      BY <2>2 DEF Opened
    <3>2. /\ sess' = "fresh" /\ started' = TRUE /\ holder' = "none" /\ ping' = "running"
          /\ stopping' = FALSE /\ caller' = "waiting"
      BY <2>2 DEF Opened, StartPing
    <3>3. {last, sess}' \subseteq {"zero", "fresh", "old"}
      BY <3>1, <3>2 DEF feed, Inv, TypeOK
    <3>4. TypeOK
      BY DEF Inv
    <3>5. CASE dog' = "asleep"
      BY <3>1, <3>2, <3>3, <3>4, <3>5 DEF feed, TypeOK
    <3>6. CASE dog' = dog
      BY <3>1, <3>2, <3>3, <3>4, <3>6 DEF feed, TypeOK
    <3> QED
      BY <2>2, <3>5, <3>6 DEF Opened
  <2>3. CASE OpenFails
    BY <2>3 DEF OpenFails, feed, Inv, TypeOK
  <2> QED
    BY <1>10, <2>1, <2>2, <2>3
<1>11. CASE PickAfter \/ Deadline
  <2>1. UNCHANGED <<feed, control, dog, want>> /\ caller' = "idle"
    BY <1>11 DEF PickAfter, Deadline, Picked
  <2>2. strike' \in [want : Boundaries \cup {0}, ts : 0..LastTick, pick : {"none", "after", "before"},
                     at : 0..LastTick]
    BY <1>11, Picks, Ticks DEF Inv, TypeOK
  <2> QED
    BY <2>1, <2>2 DEF feed, control, Inv, TypeOK
<1> QED
  BY <1>1, <1>2, <1>3, <1>4, <1>5, <1>6, <1>7, <1>8, <1>9, <1>10, <1>11
  DEF Next, Connection, WaitStrike
----------------------------------------------------------------------------
(* Who starts and stops.                                                       *)

LEMMA HeldStep == Inv /\ [Next]_vars => Held' /\ GuardedWhileStarted'
<1> SUFFICES ASSUME Inv, [Next]_vars
             PROVE  Held' /\ GuardedWhileStarted'
  OBVIOUS
<1>0. Held /\ GuardedWhileStarted /\ started \in BOOLEAN /\ stopping \in BOOLEAN
  BY DEF Inv, TypeOK
<1>1. CASE UNCHANGED <<dog, caller, holder, started, ping, stopping>>
  BY <1>0, <1>1 DEF Held, GuardedWhileStarted
<1>2. CASE PingEnds
  BY <1>0, <1>2 DEF PingEnds, waiting, Held, GuardedWhileStarted
<1>3. CASE Watchdog
  <2>0. UNCHANGED caller
    BY <1>3 DEF Watchdog, Look, Reconnect, ResetTimes, ClearBuffer, StopPing, RestartSocket, Reopened,
                ReopenFails, waiting
  <2>1. CASE Look \/ Reconnect \/ ResetTimes \/ ClearBuffer
    <3>1. UNCHANGED <<started, ping, stopping>>
      BY <2>1 DEF Look, Reconnect, ResetTimes, ClearBuffer, control
    <3>2. Held'
      BY <1>0, <2>0, <2>1 DEF Look, Reconnect, ResetTimes, ClearBuffer, control, Held
    <3>3. /\ dog # "none" => dog' # "none"
          /\ dog \in {"joining", "reopening"} => dog' \in {"joining", "reopening"}
      BY <2>1 DEF Look, Reconnect, ResetTimes, ClearBuffer
    <3>4. dog' # "reopening" /\ dog # "reopening"
      BY <2>1 DEF Look, Reconnect, ResetTimes, ClearBuffer
    <3> QED
      BY <1>0, <2>0, <3>1, <3>2, <3>3, <3>4 DEF GuardedWhileStarted
  <2>2. CASE StopPing \/ RestartSocket
    BY <1>0, <2>0, <2>2 DEF StopPing, RestartSocket, Held, GuardedWhileStarted
  <2>3. CASE Reopened
    BY <1>0, <2>0, <2>3 DEF Reopened, StartPing, Held, GuardedWhileStarted
  <2>4. CASE ReopenFails
    BY <1>0, <2>0, <2>4 DEF ReopenFails, Held, GuardedWhileStarted
  <2> QED
    BY <1>3, <2>1, <2>2, <2>3, <2>4 DEF Watchdog
<1>4. CASE Ask
  BY <1>0, <1>4 DEF Ask, control, Held, GuardedWhileStarted
<1>5. CASE EnsureStarted
  BY <1>0, <1>5 DEF EnsureStarted, Held, GuardedWhileStarted
<1>6. CASE Opened
  BY <1>0, <1>6 DEF Opened, StartPing, Held, GuardedWhileStarted
<1>7. CASE OpenFails
  BY <1>0, <1>7 DEF OpenFails, Held, GuardedWhileStarted
<1>8. CASE PickAfter \/ Deadline
  BY <1>0, <1>8 DEF PickAfter, Deadline, Picked, control, Held, GuardedWhileStarted
<1> QED
  BY <1>1, <1>2, <1>3, <1>4, <1>5, <1>6, <1>7, <1>8
  DEF Next, Connection, Opens, Breaks, Missed, TimePasses, Receive, Push, PushLast, PushBuffer, WaitStrike,
      control, waiting, vars

----------------------------------------------------------------------------
(* Where the ticks are.                                                        *)

LEMMA NoRange == Range(<<>>) = {}
BY DEF Range

LEMMA KeptStep ==
  Inv /\ [Next]_vars => Kept' /\ \A t \in Tick : fate[t] \in Lost => fate'[t] \in Lost
<1> SUFFICES ASSUME Inv, [Next]_vars
             PROVE  Kept' /\ \A t \in Tick : fate[t] \in Lost => fate'[t] \in Lost
  OBVIOUS
<1>0. /\ Kept /\ pub \in 0..LastTick /\ fate \in [Tick -> Lost \cup {"unpublished", "received"}]
      /\ buffer \in Seq(Tick) /\ batch \in Seq(Tick) /\ Tick \subseteq Nat /\ LastTick \in Nat
      /\ Range(buffer) \subseteq Tick /\ Range(batch) \subseteq Tick
  BY Ticks, RtdsAssumption DEF Inv, TypeOK, Tick
<1>1. CASE UNCHANGED <<pub, fate, buffer, batch>> /\ (socket' = "idle" => socket = "idle")
  BY <1>0, <1>1 DEF Kept
<1>2. CASE Missed
  <2>1. pub' = pub + 1 /\ UNCHANGED <<buffer, batch, socket>>
        /\ fate' = [t \in Tick |-> IF t \in {pub + 1} THEN "missed" ELSE fate[t]]
    BY <1>2 DEF Missed, Fated
  <2>2. \A t \in Tick : fate'[t] = IF t = pub + 1 THEN "missed" ELSE fate[t]
    BY <2>1
  <2>3. \A t \in Tick : t > pub + 1 => t > pub
    BY <1>0
  <2>4. \A t \in Tick : t <= pub + 1 => t <= pub \/ t = pub + 1
    BY <1>0
  <2>5. \A t \in Tick : t <= pub => t <= pub + 1
    BY <1>0
  <2>6. "missed" \in Lost
    BY DEF Lost
  <2>7. \A t \in Tick : fate[t] \in Lost => fate'[t] \in Lost
    BY <2>2, <2>6
  <2>8. \A t \in Tick : t > pub' => fate'[t] = "unpublished"
    <3>1. \A t \in Tick : t > pub + 1 => t # pub + 1
      BY <1>0
    <3> QED
      BY <1>0, <2>1, <2>2, <2>3, <3>1 DEF Kept
  <2>9. \A t \in Tick : t <= pub' => fate'[t] \in Lost \/ t \in Range(buffer') \cup Range(batch')
    BY <1>0, <2>1, <2>2, <2>4, <2>6, <2>7 DEF Kept
  <2>10. \A t \in Range(buffer) \cup Range(batch) : t <= pub'
    BY <1>0, <2>1, <2>5 DEF Kept
  <2> QED
    BY <1>0, <2>1, <2>7, <2>8, <2>9, <2>10 DEF Kept
<1>3. CASE Receive
  <2>1. PICK k \in 1..MaxBatch : /\ pub + k <= LastTick /\ pub' = pub + k
                                 /\ batch' = [i \in 1..k |-> pub + i]
                                 /\ Fated((pub + 1)..(pub + k), "received")
    BY <1>3 DEF Receive
  <2>2. batch = <<>> /\ Range(batch) = {} /\ socket' = "counted" /\ UNCHANGED buffer
    BY <1>0, <1>3, NoRange DEF Receive, Kept
  <2>3. Range(batch') = (pub + 1)..(pub + k) /\ Head(batch') = pub + 1
    BY <1>0, <2>1, MessageOf
  <2>4. \A t \in Tick : fate'[t] = IF t \in (pub + 1)..(pub + k) THEN "received" ELSE fate[t]
    BY <2>1 DEF Fated
  <2>5. pub \in Nat /\ k \in Nat \ {0}
    BY <1>0, RtdsAssumption
  <2>6. \A t \in Tick : t > pub' => t > pub /\ t \notin (pub + 1)..(pub + k)
    BY <1>0, <2>1, <2>5
  <2>7. \A t \in Tick : t <= pub' => t \in (pub + 1)..(pub + k) \/ (t <= pub /\ t \notin (pub + 1)..(pub + k))
    BY <1>0, <2>1, <2>5
  <2>8. \A t \in (pub + 1)..(pub + k) : t > pub /\ t <= pub' /\ pub + 1 <= t
    BY <2>1, <2>5
  <2>9. \A t \in Tick : t <= pub => t <= pub'
    BY <1>0, <2>1, <2>5
  <2>10. \A t \in Range(buffer) : t <= pub /\ t <= pub' /\ \A u \in Range(batch') : t < u
    <3>1. \A t \in Range(buffer) : t \in Tick /\ t <= pub
      BY <1>0 DEF Kept
    <3>2. \A t \in Tick : \A u \in (pub + 1)..(pub + k) : t <= pub => t < u
      BY <1>0, <2>5
    <3> QED
      BY <2>3, <2>9, <3>1, <3>2
  <2>11. "unpublished" \notin Lost
    BY DEF Lost
  <2>12. \A t \in Tick : t > pub => fate[t] = "unpublished"
    BY <1>0 DEF Kept
  <2>13. \A t \in Tick : fate[t] \in Lost => fate'[t] \in Lost
    BY <2>4, <2>8, <2>11, <2>12
  <2>14. \A t \in Tick : t <= pub' => fate'[t] \in Lost \/ t \in Range(buffer') \cup Range(batch')
    BY <1>0, <2>2, <2>3, <2>4, <2>7 DEF Kept
  <2>15. \A t \in Tick : t > pub' => fate'[t] = "unpublished"
    BY <2>4, <2>6, <2>12
  <2> QED
    BY <2>2, <2>3, <2>8, <2>10, <2>13, <2>14, <2>15 DEF Kept
<1>4. CASE PushBuffer
  <2>1. /\ buffer' = Newest(buffer \o batch) /\ batch' = <<>> /\ UNCHANGED pub
        /\ Fated(Range(buffer \o batch) \ Range(buffer'), "evicted")
    BY <1>4 DEF PushBuffer
  <2>2. buffer \o batch \in Seq(Tick) /\ Range(buffer \o batch) = Range(buffer) \cup Range(batch)
    BY <1>0, RangeConcat
  <2>3. Range(buffer') \subseteq Range(buffer) \cup Range(batch) /\ Range(batch') = {}
    BY <2>1, <2>2, NewestOf, NoRange
  <2>4. \A t \in Tick : fate'[t] = IF t \in (Range(buffer) \cup Range(batch)) \ Range(buffer')
                                   THEN "evicted" ELSE fate[t]
    BY <2>1, <2>2 DEF Fated
  <2>5. "evicted" \in Lost
    BY DEF Lost
  <2>6. \A t \in Tick : t > pub => t \notin Range(buffer) \cup Range(batch)
    BY <1>0 DEF Kept
  <2> QED
    BY <1>0, <2>1, <2>3, <2>4, <2>5, <2>6 DEF Kept
<1>5. CASE ClearBuffer
  <2>1. buffer' = <<>> /\ Fated(Range(buffer), "cleared") /\ UNCHANGED <<pub, batch, socket>>
    BY <1>5 DEF ClearBuffer
  <2>2. Range(buffer') = {}
    BY <2>1, NoRange
  <2>3. \A t \in Tick : fate'[t] = IF t \in Range(buffer) THEN "cleared" ELSE fate[t]
    BY <2>1 DEF Fated
  <2>4. "cleared" \in Lost
    BY DEF Lost
  <2>5. \A t \in Tick : t > pub => t \notin Range(buffer)
    BY <1>0 DEF Kept
  <2> QED
    BY <1>0, <2>1, <2>2, <2>3, <2>4, <2>5 DEF Kept
<1>6. CASE Opens \/ Breaks \/ TimePasses \/ PushLast \/ PingEnds \/ Ask \/ WaitStrike \/ UNCHANGED vars
  BY <1>1, <1>6 DEF Opens, Breaks, TimePasses, PushLast, PingEnds, Ask, WaitStrike, EnsureStarted, Opened,
                    OpenFails, PickAfter, Deadline, feed, vars
<1>7. CASE Watchdog /\ ~ClearBuffer
  BY <1>1, <1>7 DEF Watchdog, Look, Reconnect, ResetTimes, StopPing, RestartSocket, Reopened,
                    ReopenFails, feed
<1> QED
  BY <1>2, <1>3, <1>4, <1>5, <1>6, <1>7 DEF Next, Connection, Push

----------------------------------------------------------------------------
(* Which one is taken for the strike.                                          *)

LEMMA StrikeStep == Inv /\ [Next]_vars => StrikeIsFirst'
<1> SUFFICES ASSUME Inv, [Next]_vars
             PROVE  StrikeIsFirst'
  OBVIOUS
<1>0. /\ StrikeIsFirst /\ Kept /\ pub \in 0..LastTick /\ Tick \subseteq Nat
      /\ \A t \in Tick : fate[t] \in Lost => fate'[t] \in Lost
      /\ Range(buffer) \subseteq Tick /\ Range(batch) \subseteq Tick /\ want \in Nat /\ Arrived \in 0..LastTick
  BY KeptStep, Ticks, RtdsAssumption DEF Inv, TypeOK, Tick
<1>1. CASE UNCHANGED strike
  BY <1>0, <1>1 DEF StrikeIsFirst
<1>2. ASSUME NEW t \in Range(buffer), t >= want, t - want <= MaxSkew, \A u \in Range(buffer) : u >= want => t <= u,
             strike' = [want |-> want, ts |-> t, pick |-> "after", at |-> Arrived]
      PROVE  StrikeIsFirst'
  <2>1. ASSUME NEW u \in Tick, want <= u, u < t
        PROVE  fate[u] \in Lost
    <3>1. u \in Nat /\ t \in Nat /\ t <= pub /\ \A x \in Range(batch) : x \in Nat /\ t < x
      BY <1>0, <1>2 DEF Kept
    <3>2. u \notin Range(buffer) /\ u \notin Range(batch) /\ u <= pub
      BY <1>0, <1>2, <2>1, <3>1
    <3> QED
      BY <1>0, <3>2 DEF Kept
  <2> QED
    BY <1>0, <1>2, <2>1 DEF StrikeIsFirst
<1>3. ASSUME NEW t \in Range(buffer), t < want, want - t <= MaxSkew,
             \A u \in Range(buffer) : u - want <= MaxSkew => u <= t,
             strike' = [want |-> want, ts |-> t, pick |-> "before", at |-> Arrived]
      PROVE  StrikeIsFirst'
  <2>1. ASSUME NEW u \in Tick, t < u, u - want <= MaxSkew, u <= Arrived
        PROVE  fate[u] \in Lost
    <3>1. u \in Nat /\ t \in Nat /\ u \notin Range(buffer)
      <4>1. u \in Nat /\ t \in Nat
        BY <1>0
      <4>2. ~(u <= t)
        BY <2>1, <4>1
      <4> QED
        BY <1>3, <2>1, <4>1, <4>2
    <3>2. CASE batch = <<>>
      <4>1. u <= pub /\ u \notin Range(batch)
        BY <2>1, <3>2, NoRange DEF Arrived
      <4> QED
        BY <1>0, <3>1, <4>1 DEF Kept
    <3>3. CASE batch # <<>>
      <4>1. Head(batch) \in Range(batch)
        <5>1. Head(batch) = batch[1] /\ 1 \in 1..Len(batch) /\ batch \in Seq(Tick)
          BY <3>3, EmptySeq DEF Inv, TypeOK
        <5> QED
          BY <5>1, RangeOf
      <4>2. Head(batch) \in Nat /\ Head(batch) <= pub /\ u <= Head(batch) - 1
            /\ \A x \in Range(batch) : Head(batch) <= x
        BY <1>0, <2>1, <3>3, <4>1 DEF Arrived, Kept
      <4>3. u <= pub /\ u \notin Range(batch)
        BY <1>0, <3>1, <4>2
      <4> QED
        BY <1>0, <3>1, <4>3 DEF Kept
    <3> QED
      BY <3>2, <3>3
  <2> QED
    BY <1>0, <1>3, <2>1 DEF StrikeIsFirst
<1>4. CASE PickAfter \/ Deadline
  BY <1>1, <1>2, <1>3, <1>4, Picks
<1>5. CASE ~(PickAfter \/ Deadline)
  BY <1>1, <1>5 DEF Next, Connection, Opens, Breaks, Missed, TimePasses, Receive, Push, PushLast, PushBuffer,
       PingEnds, Watchdog, Look, Reconnect, ResetTimes, ClearBuffer, StopPing, RestartSocket, Reopened,
       ReopenFails, Ask, WaitStrike, EnsureStarted, Opened, OpenFails, waiting, vars
<1> QED
  BY <1>4, <1>5

----------------------------------------------------------------------------
LEMMA Start == Init => Inv
<1> SUFFICES ASSUME Init
             PROVE  Inv
  OBVIOUS
<1>1. TypeOK
  <2>1. <<>> \in Seq(Tick) /\ Len(<<>>) <= MaxBuffer /\ 0 \in 0..LastTick
    BY RtdsAssumption
  <2>2. strike \in [want : Boundaries \cup {0}, ts : 0..LastTick, pick : {"none", "after", "before"},
                    at : 0..LastTick]
    BY <2>1 DEF Init, NoStrike, NoTick
  <2>3. fate \in [Tick -> Lost \cup {"unpublished", "received"}]
    BY DEF Init
  <2> QED
    BY <2>1, <2>2, <2>3 DEF Init, TypeOK
<1>2. Held /\ GuardedWhileStarted
  BY DEF Init, Held, GuardedWhileStarted
<1>3. Kept
  <2>1. \A t \in Tick : ~(t <= 0)
    BY RtdsAssumption DEF Tick
  <2> QED
    BY <2>1, NoRange DEF Init, Kept
<1>4. StrikeIsFirst
  BY DEF Init, StrikeIsFirst, NoStrike
<1> QED
  BY <1>1, <1>2, <1>3, <1>4 DEF Inv

LEMMA Invariant == Spec => []Inv
<1>1. Inv /\ [Next]_vars => Inv'
  BY TypeStep, HeldStep, KeptStep, StrikeStep DEF Inv
<1> QED
  BY <1>1, Start, PTL DEF Spec

(* The types, and the limit of the buffer.                                     *)
THEOREM TypeCorrect == Spec => []TypeOK
<1>1. Inv => TypeOK
  BY DEF Inv
<1> QED
  BY <1>1, Invariant, PTL

(* The tick wait_strike takes is the first from the boundary on, or, if none   *)
(* is near enough by then, the last before it, of all that were not lost for a *)
(* reason of the connection's: no order of push_ticks, reconnect_inner and     *)
(* TickSel makes it another.                                                   *)
THEOREM StrikeCorrect == Spec => []StrikeIsFirst
<1>1. Inv => StrikeIsFirst
  BY DEF Inv
<1> QED
  BY <1>1, Invariant, PTL

(* While started_ is set run_ping and run_watchdog run, except in the middle   *)
(* of a reconnect, and start_ping_worker never meets a worker still running,   *)
(* whoever opened the connection and whatever failed before.                   *)
THEOREM GuardedCorrect == Spec => []GuardedWhileStarted
<1>1. Inv => GuardedWhileStarted
  BY DEF Inv
<1> QED
  BY <1>1, Invariant, PTL
----------------------------------------------------------------------------
(* The watchdog's clocks.  Whoever opens a connection notes when its session   *)
(* began, and only the reconnect that will open the next forgets it.           *)
Timed == started /\ dog \in {"asleep", "alarmed", "ever"} => sess # "zero"

LEMMA TimedStep == Timed /\ [Next]_vars => Timed'
<1> SUFFICES ASSUME Timed, [Next]_vars
             PROVE  Timed'
  OBVIOUS
<1> USE DEF Timed
<1>1. CASE UNCHANGED <<started, dog, sess>>
  BY <1>1
<1>2. CASE TimePasses
  BY <1>2 DEF TimePasses
<1>3. CASE Look \/ Reconnect \/ ResetTimes \/ ClearBuffer \/ StopPing \/ RestartSocket
  BY <1>3 DEF Look, Reconnect, ResetTimes, ClearBuffer, StopPing, RestartSocket, control
<1>4. CASE Reopened \/ ReopenFails \/ Opened
  BY <1>4 DEF Reopened, ReopenFails, Opened
<1> QED
  BY <1>1, <1>2, <1>3, <1>4 DEF Next, Connection, Opens, Breaks, Missed, Receive, Push, PushLast, PushBuffer,
     PingEnds, Watchdog, Ask, WaitStrike, EnsureStarted, OpenFails, PickAfter, Deadline, Picked, control, vars

(* A mute connection is timed, by its last tick or its session's start, unless *)
(* the feed is blind (SilenceTimed): what SilenceEndsUnlessBlind rests on.     *)
THEOREM SilenceTimedCorrect == Spec => []SilenceTimed
<1>1. TypeOK /\ Timed => SilenceTimed
  BY DEF TypeOK, Timed, SilenceTimed, Why, Blind
<1>2. Init => Timed
  BY DEF Init, Timed
<1> QED
  BY <1>1, <1>2, TimedStep, TypeCorrect, PTL DEF Spec

(* The watchdog is blinded by reconnect_inner alone, when a tick arrives       *)
(* between its two stores (OnlyReconnectBlinds): the order of the three stores *)
(* of push_ticks and of everybody else's steps does no harm.                   *)
THEOREM OnlyReconnectBlindsCorrect == Spec => OnlyReconnectBlinds
<1>1. [Next]_vars => (BlindForGood' => BlindForGood \/ dog = "ever")
  <2> SUFFICES ASSUME [Next]_vars, BlindForGood', dog # "ever"
               PROVE  BlindForGood
    OBVIOUS
  <2> USE DEF BlindForGood, Blind
  <2>1. CASE UNCHANGED <<ever, last, socket>>
    BY <2>1
  <2>2. CASE TimePasses \/ Receive \/ PushLast \/ PushBuffer \/ Reconnect
    BY <2>2 DEF TimePasses, Receive, PushLast, PushBuffer, Reconnect
  <2>3. CASE ResetTimes
    BY <2>3 DEF ResetTimes
  <2> QED
    BY <2>1, <2>2, <2>3 DEF Next, Connection, Opens, Breaks, Missed, Push, PingEnds, Watchdog, Look, ClearBuffer,
       StopPing, RestartSocket, Reopened, ReopenFails, Ask, WaitStrike, EnsureStarted, Opened, OpenFails,
       PickAfter, Deadline, Picked, feed, vars
<1> QED
  BY <1>1, PTL DEF Spec, OnlyReconnectBlinds
=============================================================================
