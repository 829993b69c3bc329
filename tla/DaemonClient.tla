---------------------------- MODULE DaemonClient ----------------------------
(* PolyDaemonClient, the calls LiveExecutor makes through it, and the process  *)
(* poly_daemon.py at the other end of the two pipes.  The caller is one thread *)
(* and waits for each reply; the daemon may die at any moment, and nothing but *)
(* their order ties a reply to its request.                                    *)
EXTENDS Naturals, Sequences

CONSTANTS
  MaxCalls,    \* bound: calls made
  MaxDaemons,  \* bound: processes launched
  Kind         \* the cmds used

ASSUME DaemonAssumption ==
  /\ MaxCalls \in Nat /\ MaxDaemons \in Nat
  /\ Kind \subseteq {"place_order", "balance", "get_order", "garch"}

Call == 1..MaxCalls
Daemon == 1..MaxDaemons
NoDaemon == 0

VARIABLES
  pc,       \* where the caller is
  kind,     \* the cmd of each call made so far
  result,   \* what each call returned
  running,  \* running_
  child,    \* child_pid_: the daemon whose pipes the client holds
  state,    \* of each process
  stdin,    \* to_child_fd_: requests not yet read
  stdout,   \* from_child_fd_: lines not yet read
  open,     \* the client's ends of the pipes are open
  work,     \* the call a daemon is handling
  done,     \* how often each call was performed
  sync      \* history: every line read so far was a reply to the call under way

client == <<pc, kind, result, running, child>>
daemons == <<state, stdin, stdout, work, done>>
vars == <<pc, kind, result, running, child, state, stdin, stdout, open, work, done, sync>>

Init ==
  /\ pc = "idle" /\ kind = <<>>
  /\ result = [r \in Call |-> "none"]
  /\ running = FALSE /\ child = NoDaemon
  /\ state = [d \in Daemon |-> "unborn"]
  /\ stdin = [d \in Daemon |-> <<>>] /\ stdout = [d \in Daemon |-> <<>>]
  /\ open = [d \in Daemon |-> FALSE]
  /\ work = [d \in Daemon |-> 0] /\ done = [r \in Call |-> 0]
  /\ sync = TRUE

----------------------------------------------------------------------------
(* The client.                                                                 *)

n == Len(kind)  \* the number of the call under way, or of the last one
Line(text, r) == [text |-> text, call |-> r]
Handling(d) == state[d] \in {"busy", "acted"}
Alive(d) == state[d] \in {"booting", "serving"} \/ Handling(d)
Unused == {d \in Daemon : state[d] = "unborn"}
LastLineRead(d) == state[d] = "dead" /\ stdout[d] = <<>>

Returned(r, answer) ==
  /\ pc' = "idle"
  /\ result' = [result EXCEPT ![r] = answer]

LeaveOpen == child' = NoDaemon /\ UNCHANGED open
(* stop() without running_: the ends are closed, the process is left alone.    *)
Abandon ==
  /\ open' = [open EXCEPT ![child] = FALSE]
  /\ child' = NoDaemon

(* Every call starts the daemon first; start() believes running_.              *)
Begin(k) ==
  /\ pc = "idle" /\ n < MaxCalls
  /\ kind' = Append(kind, k)
  /\ UNCHANGED <<running, stdin, stdout, work, done, sync>>
CallRunning(k) ==
  /\ running /\ Begin(k)
  /\ pc' = "writing"
  /\ UNCHANGED <<result, child, state, open>>
(* No command, no pipe, no process.                                            *)
StartFails(k) ==
  /\ ~running /\ Begin(k)
  /\ Returned(n + 1, "unsent")
  /\ UNCHANGED <<child, state, open>>
Launch(k) ==
  /\ ~running /\ Begin(k)
  /\ \E d \in Unused :
       /\ \A e \in Unused : d <= e
       /\ child' = d /\ state' = [state EXCEPT ![d] = "booting"]
       /\ open' = [open EXCEPT ![d] = TRUE]
  /\ pc' = "starting"
  /\ UNCHANGED result

(* The first line is ready if it holds the words "ok" and ready, in any sense. *)
TakenForReady(line) == line.text \in {"ready", "already"}
ReadReady ==
  /\ pc = "starting" /\ stdout[child] # <<>>
  /\ stdout' = [stdout EXCEPT ![child] = Tail(@)]
  /\ IF TakenForReady(Head(stdout[child]))
     THEN running' = TRUE /\ pc' = "writing" /\ UNCHANGED <<result, child, open>>
     ELSE Returned(n, "unsent") /\ Abandon /\ UNCHANGED running
  /\ UNCHANGED <<kind, state, stdin, work, done, sync>>
NotReady ==
  /\ pc = "starting" /\ LastLineRead(child)
  /\ Returned(n, "unsent") /\ Abandon
  /\ UNCHANGED <<kind, running, daemons, sync>>

Write ==
  /\ pc = "writing" /\ Alive(child)
  /\ stdin' = [stdin EXCEPT ![child] = Append(@, n)]
  /\ pc' = "reading"
  /\ UNCHANGED <<kind, result, running, child, state, stdout, open, work, done, sync>>
(* A dead reader fails the write, or SIGPIPE, which nothing ignores, ends us.  *)
WriteFails ==
  /\ pc = "writing" /\ ~Alive(child)
  /\ Returned(n, "broken")
  /\ UNCHANGED <<kind, running, child, daemons, open, sync>>
KilledByPipe ==
  /\ pc = "writing" /\ ~Alive(child)
  /\ pc' = "exited" /\ open' = [open EXCEPT ![child] = FALSE]
  /\ UNCHANGED <<kind, result, running, child, daemons, sync>>

(* submit takes any reply that says ok; a query wants its own field in it, and *)
(* the one get_order wants is in an order's reply too.                         *)
SubmitTakes(line) == line.text \in {"ok", "blank"}
QueryTakes(line, cmds) == line.text = "ok" /\ kind[line.call] \in cmds
BalanceTakes(line) == QueryTakes(line, {"balance"})
OrderTakes(line) == QueryTakes(line, {"get_order", "place_order"})
SigmaTakes(line) == QueryTakes(line, {"garch"})
Accepted(line) ==
  CASE kind[n] = "place_order" -> SubmitTakes(line)
    [] kind[n] = "balance" -> BalanceTakes(line)
    [] kind[n] = "get_order" -> OrderTakes(line)
    [] kind[n] = "garch" -> SigmaTakes(line)
Answer(line) ==
  IF line.text = "huge" THEN "cut" ELSE IF Accepted(line) THEN "ok" ELSE "error"

(* A reply over two megabytes is left in the pipe from there on.               *)
ReadReply ==
  /\ pc = "reading" /\ stdout[child] # <<>>
  /\ LET line == Head(stdout[child])
         rest == IF line.text = "huge" THEN <<Line("tail", n)>> ELSE <<>>
     IN /\ Returned(n, Answer(line))
        /\ stdout' = [stdout EXCEPT ![child] = rest \o Tail(@)]
        /\ sync' = (sync /\ line.text # "huge")
  /\ UNCHANGED <<kind, running, child, state, stdin, open, work, done>>
(* A line that is JSON but no object throws, and nobody catches it.            *)
ReadScalar ==
  /\ pc = "reading" /\ stdout[child] # <<>> /\ Head(stdout[child]).text = "noise"
  /\ pc' = "exited" /\ open' = [open EXCEPT ![child] = FALSE]
  /\ UNCHANGED <<kind, result, running, child, daemons, sync>>
NeverEof == FALSE /\ UNCHANGED vars
BrokenClears ==
  /\ pc = "reading" /\ LastLineRead(child)
  /\ Returned(n, "broken") /\ Abandon /\ running' = FALSE
  /\ UNCHANGED <<kind, daemons, sync>>
EofResends ==
  /\ pc = "reading" /\ LastLineRead(child)
  /\ pc' = "starting" /\ running' = FALSE
  /\ \E d \in Unused :
       /\ child' = d /\ state' = [state EXCEPT ![d] = "booting"]
       /\ open' = [open EXCEPT ![child] = FALSE, ![d] = TRUE]
  /\ UNCHANGED <<kind, result, stdin, stdout, work, done, sync>>
(* Neither end of file nor a failed write clears running_.                     *)
ReadEof ==
  /\ pc = "reading" /\ LastLineRead(child)
  /\ Returned(n, "broken")
  /\ UNCHANGED <<kind, running, child, daemons, open, sync>>

(* The static client is destroyed at exit; the signal reaches the shell, which *)
(* is the daemon only if it was replaced by it.                                *)
Stop ==
  /\ pc = "idle" /\ pc' = "exited" /\ running' = FALSE
  /\ IF running
     THEN /\ Abandon
          /\ \/ state' = [state EXCEPT ![child] = "dead"]
             \/ UNCHANGED state
     ELSE UNCHANGED <<child, open, state>>
  /\ UNCHANGED <<kind, result, stdin, stdout, work, done, sync>>

----------------------------------------------------------------------------
(* The daemon.                                                                 *)

PrintLine(d, line) == stdout' = [stdout EXCEPT ![d] = Append(@, line)]

Boot(d) ==
  /\ state[d] = "booting" /\ open[d]
  /\ PrintLine(d, Line("ready", 0)) /\ state' = [state EXCEPT ![d] = "serving"]
  /\ UNCHANGED <<client, stdin, open, work, done, sync>>
(* A fatal line names the exception, whose text may hold the word ready.       *)
BootFails(d) ==
  /\ state[d] = "booting" /\ open[d]
  /\ \E text \in {"noise", "already"} : PrintLine(d, Line(text, 0))
  /\ state' = [state EXCEPT ![d] = "dead"]
  /\ UNCHANGED <<client, stdin, open, work, done, sync>>
(* What a login shell or a library prints is a line like any other.            *)
Noise(d) ==
  /\ open[d] /\ sync
  /\ \/ state[d] = "booting" /\ stdout[d] = <<>>
     \/ state[d] = "serving" \/ Handling(d)
  /\ PrintLine(d, Line("noise", 0))
  /\ sync' = (state[d] = "booting")
  /\ UNCHANGED <<client, state, stdin, open, work, done>>

Take(d) ==
  /\ state[d] = "serving" /\ stdin[d] # <<>>
  /\ state' = [state EXCEPT ![d] = "busy"]
  /\ work' = [work EXCEPT ![d] = Head(stdin[d])]
  /\ stdin' = [stdin EXCEPT ![d] = Tail(@)]
  /\ UNCHANGED <<client, stdout, open, done, sync>>
(* The exchange does what it was asked.                                        *)
Perform(d) ==
  /\ state[d] = "busy"
  /\ state' = [state EXCEPT ![d] = "acted"]
  /\ done' = [done EXCEPT ![work[d]] = @ + 1]
  /\ UNCHANGED <<client, stdin, stdout, open, work, sync>>
(* A refusal or any exception, one after the effect included, is an error; an  *)
(* answer the library returns is ok, the fields the client wants in it or not. *)
Reply(d) ==
  /\ Handling(d) /\ open[d]
  /\ \E text \in {"error"} \cup (IF state[d] = "acted" THEN {"ok", "blank", "huge"} ELSE {}) :
       PrintLine(d, Line(text, work[d]))
  /\ state' = [state EXCEPT ![d] = "serving"] /\ work' = [work EXCEPT ![d] = 0]
  /\ UNCHANGED <<client, stdin, open, done, sync>>

(* With nobody to print to, or at the end of its input, it ends by itself.     *)
Orphaned(d) ==
  /\ ~open[d]
  /\ \/ state[d] = "booting" \/ Handling(d)
     \/ state[d] = "serving" /\ stdin[d] = <<>>
  /\ state' = [state EXCEPT ![d] = "dead"]
  /\ UNCHANGED <<client, stdin, stdout, open, work, done, sync>>
Die(d) ==
  /\ Alive(d)
  /\ state' = [state EXCEPT ![d] = "dead"]
  /\ UNCHANGED <<client, stdin, stdout, open, work, done, sync>>

----------------------------------------------------------------------------
ClientStep == ReadReady \/ NotReady \/ Write \/ WriteFails \/ KilledByPipe
              \/ ReadReply \/ ReadScalar \/ ReadEof
Serve(d) == Boot(d) \/ BootFails(d) \/ Take(d) \/ Perform(d) \/ Reply(d) \/ Orphaned(d)

Next ==
  \/ \E k \in Kind : CallRunning(k) \/ StartFails(k) \/ Launch(k)
  \/ ClientStep \/ Stop
  \/ \E d \in Daemon : Serve(d) \/ Noise(d) \/ Die(d)

Spec == Init /\ [][Next]_vars

(* The caller runs, and the daemon does not hang.                              *)
FairSpec == Spec /\ WF_vars(ClientStep) /\ \A d \in Daemon : WF_vars(Serve(d))

----------------------------------------------------------------------------
(* Properties.                                                                 *)

Text == {"ready", "already", "noise", "ok", "blank", "error", "huge", "tail"}

(* Types; and the client holds the ends of one daemon's pipes at most, the     *)
(* running one's.                                                              *)
TypeOK ==
  /\ pc \in {"idle", "starting", "writing", "reading", "exited"}
  /\ kind \in Seq(Kind) /\ n <= MaxCalls
  /\ result \in [Call -> {"none", "ok", "error", "cut", "broken", "unsent"}]
  /\ running \in BOOLEAN /\ child \in Daemon \cup {NoDaemon}
  /\ state \in [Daemon -> {"unborn", "booting", "serving", "busy", "acted", "dead"}]
  /\ stdin \in [Daemon -> Seq(Call)]
  /\ stdout \in [Daemon -> Seq([text : Text, call : 0..MaxCalls])]
  /\ open \in [Daemon -> BOOLEAN] /\ \A d \in Daemon : open[d] => d = child
  /\ work \in [Daemon -> 0..MaxCalls] /\ done \in [Call -> Nat]
  /\ sync \in BOOLEAN

(* A call that failed broken ends all calls: a daemon that died is taken for   *)
(* running for ever, and no later call is performed, a sale included.          *)
DeadForGood ==
  \A r, s \in Call : result[r] = "broken" /\ r < s => result[s] \in {"none", "broken"} /\ done[s] = 0

(* What LiveTrading takes for granted of its calls: performed at most once,    *)
(* and only while the call is under way; ok only if performed, and never       *)
(* performed after a failed start; all of it as long as replies line up.       *)
Calls == INSTANCE OrderCalls WITH asked <- n
ImplementsOrderCalls == Calls!Spec

(* The client never waits for a line nobody will print: before the first, the  *)
(* daemon is booting or has printed; for a reply, it has a request to answer,  *)
(* is at one or has printed; or it is dead, and the pipe ends.                 *)
SomethingComes ==
  /\ pc = "starting" => state[child] \in {"booting", "dead"} \/ stdout[child] # <<>>
  /\ pc = "reading" => \/ state[child] = "dead" \/ stdout[child] # <<>> \/ Handling(child)
                       \/ state[child] = "serving" /\ stdin[child] # <<>>
  /\ pc \in {"starting", "writing", "reading"} => open[child]

(* A call returns, whenever the daemon dies, if the daemon does not hang.      *)
CallsReturn == pc \in {"starting", "writing", "reading"} ~> pc \in {"idle", "exited"}

(* A daemon the client gave up, after a failed start or at exit, does not live *)
(* on: its input ends.                                                         *)
OrphansEnd == \A d \in Daemon : Alive(d) /\ d # child ~> ~Alive(d)
=============================================================================
