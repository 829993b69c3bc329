------------------------------ MODULE RtdsFeed ------------------------------
(* RtdsChainlinkFeed: one long-lived connection that brings the price of every *)
(* second, a buffer of the last ones, a watchdog that replaces a connection    *)
(* that is down or says nothing, and wait_strike, which looks for the first    *)
(* price at or after the start of a bucket.  A tick is named by its timestamp; *)
(* ticks are published in order.  Four threads: the socket's, the watchdog,    *)
(* the ping worker and the caller (wait_strike admits one at a time).  stop()  *)
(* is not modelled: no application calls it.                                   *)
EXTENDS Integers, Sequences, FiniteSetsExt, SequencesExt

CONSTANTS
  LastTick,   \* bound: ticks 1..LastTick are published
  MaxBatch,   \* most ticks in one message
  MaxBuffer,  \* kMaxBuffer
  MaxSkew,    \* how far from the boundary a strike may be
  Boundaries  \* the starts of buckets strikes are asked for

ASSUME RtdsAssumption ==
  /\ LastTick \in Nat /\ MaxBatch \in Nat \ {0} /\ MaxBuffer \in Nat \ {0} /\ MaxSkew \in Nat
  /\ Boundaries \subseteq Nat

Tick == 1..LastTick
NoTick == 0

VARIABLES
  pub,      \* the last tick published
  conn,     \* the socket: closed, down (and trying), open, or silent: open but mute
  socket,   \* what the socket's thread is doing
  batch,    \* the ticks it has in hand
  buffer,   \* buffer_
  ever,     \* ever_got_tick_
  last,     \* last_tick_wall_ms_: zero, fresh, or old
  sess,     \* session_start_wall_ms_: zero, fresh, or old
  started,  \* started_
  ping,     \* ping_thr_: none, running, or ended
  stopping, \* stop_ping_
  dog,      \* the watchdog
  caller,   \* the thread in wait_strike
  want,     \* the boundary it asks for
  holder,   \* who holds start_mu_
  strike,   \* the last strike taken: boundary, tick, pick, ticks arrived by then
  fate      \* history: what became of each tick

feed == <<pub, conn, socket, batch, buffer, ever, last, fate>>
control == <<sess, started, ping, stopping, holder>>
waiting == <<caller, want, strike>>
vars == <<pub, conn, socket, batch, buffer, ever, last, sess, started, ping, stopping, dog,
          caller, want, holder, strike, fate>>

NoStrike == [want |-> 0, ts |-> NoTick, pick |-> "none", at |-> 0]

Init ==
  /\ pub = 0 /\ conn = "closed" /\ socket = "idle" /\ batch = <<>> /\ buffer = <<>>
  /\ ever = FALSE /\ last = "zero" /\ sess = "zero"
  /\ started = FALSE /\ ping = "none" /\ stopping = FALSE
  /\ dog = "none" /\ caller = "idle" /\ want = 0 /\ holder = "none"
  /\ strike = NoStrike /\ fate = [t \in Tick |-> "unpublished"]

Fated(ticks, f) == fate' = [t \in Tick |-> IF t \in ticks THEN f ELSE fate[t]]

----------------------------------------------------------------------------
(* The connection.  Its thread connects again by itself once it is started.    *)

ReadyStateOpen == conn \in {"open", "silent"}

(* The handler of Open subscribes; the subscription may bring nothing.         *)
Opens ==
  /\ conn = "down" /\ conn' \in {"open", "silent"}
  /\ UNCHANGED <<pub, socket, batch, buffer, ever, last, fate, dog, control, waiting>>
Breaks ==
  /\ ReadyStateOpen /\ socket = "idle"
  /\ conn' \in {"down", "silent"} \ {conn}
  /\ UNCHANGED <<pub, socket, batch, buffer, ever, last, fate, dog, control, waiting>>
Missed ==
  /\ conn # "open" /\ pub < LastTick
  /\ pub' = pub + 1 /\ Fated({pub + 1}, "missed")
  /\ UNCHANGED <<conn, socket, batch, buffer, ever, last, dog, control, waiting>>
(* The limits of 120 and 90 seconds run out only while nothing arrives.        *)
TimePasses ==
  /\ conn # "open" /\ socket = "idle" /\ "fresh" \in {last, sess}
  /\ last' = (IF last = "fresh" THEN "old" ELSE last)
  /\ sess' = (IF sess = "fresh" THEN "old" ELSE sess)
  /\ UNCHANGED <<pub, conn, socket, batch, buffer, ever, fate, started, ping, stopping, dog, holder, waiting>>

----------------------------------------------------------------------------
(* push_ticks, on the socket's thread.                                         *)

Receive ==
  /\ conn = "open" /\ socket = "idle"
  /\ \E k \in 1..MaxBatch :
       /\ pub + k <= LastTick /\ pub' = pub + k
       /\ batch' = [i \in 1..k |-> pub + i]
       /\ Fated((pub + 1)..(pub + k), "received")
  /\ ever' = TRUE /\ socket' = "counted"
  /\ UNCHANGED <<conn, buffer, last, dog, control, waiting>>
PushLast ==
  /\ socket = "counted"
  /\ last' = "fresh" /\ socket' = "timed"
  /\ UNCHANGED <<pub, conn, batch, buffer, ever, fate, dog, control, waiting>>

AllOf(seq) == seq
Newest(seq) == SubSeq(seq, IF Len(seq) > MaxBuffer THEN Len(seq) - MaxBuffer + 1 ELSE 1, Len(seq))
PushBuffer ==
  /\ socket = "timed"
  /\ buffer' = Newest(buffer \o batch)
  /\ Fated(Range(buffer \o batch) \ Range(buffer'), "evicted")
  /\ socket' = "idle" /\ batch' = <<>>
  /\ UNCHANGED <<pub, conn, ever, last, dog, control, waiting>>

----------------------------------------------------------------------------
(* run_ping, and start_ping_worker: it takes the stop flag back before it      *)
(* joins the old worker, so that one still running makes it wait for ever.     *)

PingEnds ==
  /\ ping = "running" /\ stopping
  /\ ping' = "ended"
  /\ UNCHANGED <<feed, sess, started, stopping, dog, holder, waiting>>
PingKept == stopping' = FALSE /\ UNCHANGED ping
StartPing == stopping' = FALSE /\ ping # "running" /\ ping' = "running"

----------------------------------------------------------------------------
(* run_watchdog and reconnect_inner, which holds start_mu_.                    *)

NotOpenOrStale ==
  \/ ~ReadyStateOpen
  \/ ever /\ last = "old"
Why ==
  \/ ~ReadyStateOpen
  \/ ever /\ last = "old"
  \/ ~ever /\ sess = "old"
Look ==
  /\ dog = "asleep" /\ started /\ Why
  /\ dog' = "alarmed"
  /\ UNCHANGED <<feed, control, waiting>>
Reconnect ==
  /\ dog = "alarmed" /\ holder = "none"
  /\ IF started THEN holder' = "dog" /\ dog' = "ever" /\ ever' = FALSE
     ELSE dog' = "asleep" /\ UNCHANGED <<holder, ever>>
  /\ UNCHANGED <<pub, conn, socket, batch, buffer, last, fate, sess, started, ping, stopping, waiting>>
ResetTimes ==
  /\ dog = "ever" /\ dog' = "times"
  /\ last' = "zero" /\ sess' = "zero"
  /\ UNCHANGED <<pub, conn, socket, batch, buffer, ever, fate, started, ping, stopping, holder, waiting>>
ClearBuffer ==
  /\ dog = "times" /\ dog' = "cleared"
  /\ buffer' = <<>> /\ Fated(Range(buffer), "cleared")
  /\ UNCHANGED <<pub, conn, socket, batch, ever, last, control, waiting>>
StopPing ==
  /\ dog = "cleared" /\ dog' = "joining"
  /\ stopping' = TRUE
  /\ UNCHANGED <<feed, sess, started, ping, holder, waiting>>
RestartUnjoined ==
  /\ dog = "joining" /\ socket = "idle"
  /\ conn' = "down" /\ dog' = "reopening"
  /\ UNCHANGED <<pub, socket, batch, buffer, ever, last, fate, sess, started, ping, stopping, holder, waiting>>
(* The socket's thread is joined between its stop and its start.               *)
RestartSocket ==
  /\ dog = "joining" /\ ping # "running" /\ socket = "idle"
  /\ ping' = "none" /\ conn' = "down" /\ dog' = "reopening"
  /\ UNCHANGED <<pub, socket, batch, buffer, ever, last, fate, sess, started, stopping, holder, waiting>>
Reopened ==
  /\ dog = "reopening" /\ ReadyStateOpen
  /\ StartPing
  /\ sess' = "fresh" /\ holder' = "none" /\ dog' = "asleep"
  /\ UNCHANGED <<feed, started, waiting>>
(* After 30 seconds; from then on the watchdog has nothing to watch.           *)
ReopenFails ==
  /\ dog = "reopening" /\ ~ReadyStateOpen
  /\ started' = FALSE /\ holder' = "none" /\ dog' = "asleep"
  /\ UNCHANGED <<feed, sess, ping, stopping, waiting>>

----------------------------------------------------------------------------
(* wait_strike, which starts the feed if need be.                              *)

Ask ==
  /\ caller = "idle" /\ want' \in Boundaries
  /\ caller' = (IF started THEN "waiting" ELSE "starting")
  /\ UNCHANGED <<feed, control, dog, strike>>
EnsureStarted ==
  /\ caller = "starting" /\ holder = "none"
  /\ IF started THEN caller' = "waiting" /\ UNCHANGED <<holder, conn>>
     ELSE /\ caller' = "opening" /\ holder' = "caller"
          /\ conn' = IF conn = "closed" THEN "down" ELSE conn
  /\ UNCHANGED <<pub, socket, batch, buffer, ever, last, fate, sess, started, ping, stopping, dog, want, strike>>
Opened ==
  /\ caller = "opening" /\ ReadyStateOpen
  /\ StartPing
  /\ sess' = "fresh" /\ started' = TRUE /\ holder' = "none"
  /\ dog' = (IF dog = "none" THEN "asleep" ELSE dog)
  /\ caller' = "waiting"
  /\ UNCHANGED <<feed, want, strike>>
OpenFails ==
  /\ caller = "opening" /\ ~ReadyStateOpen
  /\ holder' = "none" /\ caller' = "idle"
  /\ UNCHANGED <<feed, sess, started, ping, stopping, dog, want, strike>>

(* TickSel.                                                                    *)
Arrived == IF batch = <<>> THEN pub ELSE Head(batch) - 1
After(seen) == {t \in seen : t >= want /\ t - want <= MaxSkew}
Before(seen) == {t \in seen : t <= want /\ want - t <= MaxSkew}
Picked(t, pick) ==
  /\ strike' = [want |-> want, ts |-> t, pick |-> pick, at |-> Arrived]
  /\ caller' = "idle"

PickAfter ==
  /\ caller = "waiting" /\ After(Range(buffer)) # {}
  /\ Picked(Min(After(Range(buffer))), "after")
  /\ UNCHANGED <<feed, control, dog, want>>
DeadlineNeedsTick ==
  /\ caller = "waiting" /\ Before(Range(buffer)) # {}
  /\ Picked(Max(Before(Range(buffer))), "before")
  /\ UNCHANGED <<feed, control, dog, want>>
DeadlineBeforeFirst ==
  /\ caller = "waiting"
  /\ LET seen == Range(buffer) IN
       IF Before(seen) # {} THEN Picked(Max(Before(seen)), "before")
       ELSE IF After(seen) # {} THEN Picked(Min(After(seen)), "after")
       ELSE caller' = "idle" /\ UNCHANGED strike
  /\ UNCHANGED <<feed, control, dog, want>>
(* At the deadline the last tick before the boundary will do.  The choice of   *)
(* the nearest tick of all, the third in the code, is never reached.           *)
Deadline ==
  /\ caller = "waiting"
  /\ LET seen == Range(buffer) IN
       IF After(seen) # {} THEN Picked(Min(After(seen)), "after")
       ELSE IF Before(seen) # {} THEN Picked(Max(Before(seen)), "before")
       ELSE caller' = "idle" /\ UNCHANGED strike
  /\ UNCHANGED <<feed, control, dog, want>>

----------------------------------------------------------------------------
Connection == Opens \/ Breaks \/ Missed
Push == PushLast \/ PushBuffer
Watchdog == Look \/ Reconnect \/ ResetTimes \/ ClearBuffer \/ StopPing \/ RestartSocket
            \/ Reopened \/ ReopenFails
WaitStrike == EnsureStarted \/ Opened \/ OpenFails \/ PickAfter \/ Deadline

Next == Connection \/ TimePasses \/ Receive \/ Push \/ PingEnds \/ Watchdog \/ Ask \/ WaitStrike

Spec == Init /\ [][Next]_vars

(* Every thread runs, time passes, and a strike is asked for at every rollover;*)
(* nothing is assumed of the connection.                                       *)
FairSpec ==
  /\ Spec
  /\ WF_vars(TimePasses) /\ WF_vars(Push) /\ WF_vars(PingEnds)
  /\ WF_vars(Watchdog) /\ WF_vars(Ask) /\ WF_vars(WaitStrike)

----------------------------------------------------------------------------
(* Properties.                                                                 *)

Lost == {"missed", "cleared", "evicted"}

TypeOK ==
  /\ pub \in 0..LastTick /\ conn \in {"closed", "down", "open", "silent"}
  /\ socket \in {"idle", "counted", "timed"} /\ batch \in Seq(Tick)
  /\ buffer \in Seq(Tick) /\ Len(buffer) <= MaxBuffer
  /\ ever \in BOOLEAN /\ {last, sess} \subseteq {"zero", "fresh", "old"}
  /\ started \in BOOLEAN /\ ping \in {"none", "running", "ended"} /\ stopping \in BOOLEAN
  /\ dog \in {"none", "asleep", "alarmed", "ever", "times", "cleared", "joining", "reopening"}
  /\ caller \in {"idle", "starting", "opening", "waiting"} /\ want \in Boundaries \cup {0}
  /\ holder \in {"none", "dog", "caller"}
  /\ strike \in [want : Boundaries \cup {0}, ts : 0..LastTick, pick : {"none", "after", "before"},
                 at : 0..LastTick]
  /\ fate \in [Tick -> Lost \cup {"unpublished", "received"}]

(* A strike is the first tick at or after the boundary, and one before it, the *)
(* last there was, only if none came in time that is near enough; it is        *)
(* another tick only if the right ones were published while the connection was *)
(* not open, cleared by a reconnect or pushed out of the buffer, and never     *)
(* because of the order in which messages, the reconnect and the caller came.  *)
StrikeIsFirst ==
  /\ strike.pick = "after" =>
       /\ strike.want <= strike.ts /\ strike.ts - strike.want <= MaxSkew
       /\ \A t \in Tick : strike.want <= t /\ t < strike.ts => fate[t] \in Lost
  /\ strike.pick = "before" =>
       /\ strike.ts < strike.want /\ strike.want - strike.ts <= MaxSkew
       /\ \A t \in Tick :
            strike.ts < t /\ t - strike.want <= MaxSkew /\ t <= strike.at => fate[t] \in Lost

(* As long as the feed counts as started somebody sends pings and somebody     *)
(* watches, except in the midst of a reconnect; and whoever opens a connection *)
(* finds no ping worker running, which it would wait for with start_mu_ held.  *)
GuardedWhileStarted ==
  /\ started => /\ dog # "none"
                /\ (ping = "running" /\ ~stopping) \/ dog \in {"joining", "reopening"}
  /\ dog = "reopening" \/ caller = "opening" => ping # "running"

(* "If we once received ticks but none for this long, assume stalled WS",      *)
(* "Connection reported open but no parsed ticks": a mute connection does not  *)
(* stay, whatever fails in between, as long as strikes are asked for.          *)
SilenceEnds == conn = "silent" ~> conn # "silent"

(* It stays only if a tick arrived in the middle of a reconnect, between its   *)
(* two stores: then a tick was received, but never at any time.                *)
Blind == ever /\ last = "zero"
SilenceEndsUnlessBlind == conn = "silent" ~> conn # "silent" \/ Blind

(* As long as the feed counts as started, a watchdog that sees no reason to    *)
(* reconnect has one coming, the limit since the last tick or, before the      *)
(* first, since the session began; but not when the feed is blind.             *)
SilenceTimed ==
  started /\ dog = "asleep" /\ ~Why /\ ~Blind =>
    IF ever THEN last = "fresh" ELSE sess = "fresh"

(* The feed goes blind in a reconnect only, between its two stores, except for *)
(* the moment push_ticks itself is between its own.                            *)
BlindForGood == Blind /\ socket # "counted"
OnlyReconnectBlinds == [][BlindForGood' => BlindForGood \/ dog = "ever"]_vars

(* wait_strike returns, whatever the connection does and whoever reconnects.   *)
StrikeReturns == caller # "idle" ~> caller = "idle"
=============================================================================
