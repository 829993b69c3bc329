------------------------- MODULE DaemonClientProofs -------------------------
(* Whatever the daemons do, the calls the client makes keep the promises of    *)
(* OrderCalls, for any number of calls and of daemons.                         *)
(*                                                                             *)
(* The argument: once a daemon was believed to be ready no other is launched,  *)
(* so one process gets all the requests (Owned), each of them once and in one  *)
(* place (Once).  While replies line up that process has nothing to do between *)
(* calls and one thing during a call (InStep); a failed call ends all (Ended). *)
(* Last, a read of the client is never for a line that cannot come (Talking).  *)
EXTENDS DaemonClient, SequenceTheorems, TLAPS

Lines == [text : Text, call : 0..MaxCalls]
Active == {"starting", "writing", "reading"}

(* Which call is under way, and which were not made yet.                       *)
Asked ==
  /\ pc \in Active => n > 0 /\ result[n] = "none"
  /\ pc = "idle" => n = 0 \/ result[n] # "none"
  /\ \A r \in Call : r > n => result[r] = "none" /\ done[r] = 0
  /\ pc \in {"starting", "writing"} => done[n] = 0

(* The daemon the client believes in is the only one with anything to do.      *)
HasWork(d) == stdin[d] # <<>> \/ work[d] # 0
Owned ==
  /\ pc \in {"writing", "reading"} => running
  /\ pc = "starting" => ~running /\ child \in Daemon
  /\ pc = "idle" /\ ~running => child = NoDaemon
  /\ running => child \in Daemon
  /\ child \in Daemon => state[child] # "unborn"
  /\ \A d \in Daemon : state[d] = "unborn" => ~HasWork(d) /\ stdout[d] = <<>>
  /\ \A d \in Daemon : state[d] \in {"booting", "serving"} => work[d] = 0
  /\ \A d, e \in Daemon : HasWork(d) /\ HasWork(e) => d = e
  /\ ~running /\ pc # "exited" => \A d \in Daemon : ~HasWork(d)
  /\ running => \A d \in Daemon : HasWork(d) => d = child

(* A request waits in one place, is older than a call not yet written, and has *)
(* been performed once when it is no longer to be performed.                   *)
Waits(r) ==
  /\ r \in 1..n /\ done[r] = 0 /\ result[r] # "unsent"
  /\ pc \in {"starting", "writing"} => r < n
Once ==
  /\ \A d \in Daemon : \A i \in 1..Len(stdin[d]) : Waits(stdin[d][i])
  /\ \A d \in Daemon : \A i, j \in 1..Len(stdin[d]) : i # j => stdin[d][i] # stdin[d][j]
  /\ \A d \in Daemon : Handling(d) => work[d] \in 1..n
  /\ \A d \in Daemon : state[d] = "busy" =>
       Waits(work[d]) /\ \A i \in 1..Len(stdin[d]) : stdin[d][i] # work[d]
  /\ \A d \in Daemon : state[d] = "acted" => done[work[d]] = 1

(* As long as replies line up.                                                 *)
Quiet(d) == ~Handling(d) /\ (Alive(d) => stdin[d] = <<>>)
Tells(line) ==
  /\ line.call = n /\ line.text \in {"error", "ok", "blank", "huge"}
  /\ line.text # "error" => done[n] = 1
OneThing(d) ==
  /\ Handling(d) => work[d] = n /\ stdin[d] = <<>> /\ stdout[d] = <<>>
  /\ stdin[d] # <<>> => stdout[d] = <<>> /\ Len(stdin[d]) = 1 /\ stdin[d][1] = n
  /\ stdout[d] # <<>> => Len(stdout[d]) = 1 /\ Tells(stdout[d][1])
ReadyLast(d) ==
  /\ state[d] = "booting" /\ stdout[d] # <<>> => Len(stdout[d]) = 1 /\ stdout[d][1].text = "noise"
  /\ Len(stdout[d]) > 1 => stdout[d][1].text = "noise"
InStep ==
  sync => /\ pc # "reading" => \A d \in Daemon : Quiet(d)
          /\ pc \in {"idle", "writing"} /\ running => stdout[child] = <<>>
          /\ pc = "reading" => OneThing(child)
          /\ pc = "starting" => ReadyLast(child)
          /\ running => state[child] # "booting"

(* After a failed call nobody is left to perform one.                          *)
Ended ==
  (\E r \in Call : result[r] = "broken") =>
    /\ pc \in {"idle", "writing", "exited"}
    /\ \A d \in Daemon : Quiet(d)
    /\ pc # "exited" => running /\ state[child] = "dead"

Inv == TypeOK /\ Asked /\ Owned /\ Once /\ InStep /\ Ended /\ DeadForGood
----------------------------------------------------------------------------
(* Queues of a pipe.                                                           *)

LEMMA Pushed ==
  ASSUME NEW S, NEW q \in Seq(S), NEW x \in S
  PROVE  /\ Append(q, x) \in Seq(S) /\ Append(q, x) # <<>>
         /\ Len(Append(q, x)) = Len(q) + 1 /\ Len(q) \in Nat
         /\ \A i \in 1..Len(q) : Append(q, x)[i] = q[i]
         /\ Append(q, x)[Len(q) + 1] = x
OBVIOUS

LEMMA Pulled ==
  ASSUME NEW S, NEW q \in Seq(S), q # <<>>
  PROVE  /\ Tail(q) \in Seq(S) /\ Len(q) \in Nat \ {0} /\ Len(Tail(q)) = Len(q) - 1
         /\ \A i \in 1..Len(Tail(q)) : Tail(q)[i] = q[i + 1]
         /\ Head(q) = q[1] /\ q[1] \in S
         /\ Len(q) = 1 => Tail(q) = <<>>
<1>1. /\ Tail(q) \in Seq(S) /\ Len(q) \in Nat \ {0} /\ Len(Tail(q)) = Len(q) - 1
      /\ \A i \in 1..Len(Tail(q)) : Tail(q)[i] = q[i + 1]
      /\ Head(q) = q[1] /\ q[1] \in S
  OBVIOUS
<1>2. Len(q) = 1 => Len(Tail(q)) = 0
  BY <1>1
<1>3. Len(q) = 1 => Tail(q) = <<>>
  BY <1>1, <1>2, EmptySeq
<1> QED
  BY <1>1, <1>3

(* What is left in a pipe after its first line was read, in full or not.       *)
LEMMA ReadRest ==
  ASSUME NEW q \in Seq(Lines), q # <<>>, NEW r \in 0..MaxCalls
  PROVE  /\ Head(q) \in Lines
         /\ (IF Head(q).text = "huge" THEN <<Line("tail", r)>> ELSE <<>>) \o Tail(q) \in Seq(Lines)
         /\ Head(q).text # "huge" =>
              (IF Head(q).text = "huge" THEN <<Line("tail", r)>> ELSE <<>>) \o Tail(q) = Tail(q)
<1>1. Tail(q) \in Seq(Lines) /\ Head(q) \in Lines
  BY Pulled
<1>2. Line("tail", r) \in Lines
  BY DEF Line, Lines, Text
<1>3. <<Line("tail", r)>> \in Seq(Lines) /\ <<>> \in Seq(Lines)
  BY <1>2
<1>4. <<>> \o Tail(q) = Tail(q)
  BY <1>1, ConcatEmptySeq
<1>5. <<Line("tail", r)>> \o Tail(q) \in Seq(Lines)
  BY <1>1, <1>3, ConcatProperties
<1> QED
  BY <1>1, <1>4, <1>5

----------------------------------------------------------------------------
(* Types.                                                                      *)

States == {"unborn", "booting", "serving", "busy", "acted", "dead"}

(* The daemons' functions, apart from the rest.                                *)
LEMMA DaemonTypes ==
  Inv => /\ state \in [Daemon -> States] /\ work \in [Daemon -> 0..MaxCalls]
         /\ stdin \in [Daemon -> Seq(Call)] /\ stdout \in [Daemon -> Seq(Lines)]
         /\ open \in [Daemon -> BOOLEAN] /\ done \in [Call -> Nat]
         /\ result \in [Call -> {"none", "ok", "error", "cut", "broken", "unsent"}]
BY DEF Inv, TypeOK, States, Lines

LEMMA TypeStep == Inv /\ [Next]_vars => TypeOK'
<1> SUFFICES ASSUME Inv, [Next]_vars
             PROVE  TypeOK'
  OBVIOUS
<1> USE DaemonAssumption DEF Call, Daemon
<1>1. CASE UNCHANGED vars
  BY <1>1 DEF vars, Inv, TypeOK, n
<1>2. ASSUME NEW k \in Kind, CallRunning(k) \/ StartFails(k) \/ Launch(k)
      PROVE  TypeOK'
  <2>1. Append(kind, k) \in Seq(Kind) /\ Len(Append(kind, k)) = n + 1 /\ n \in Nat
    BY Pushed DEF Inv, TypeOK, n
  <2>2. kind' \in Seq(Kind) /\ n' = n + 1 /\ n + 1 <= MaxCalls /\ n + 1 \in 1..MaxCalls
    <3>1. kind' = Append(kind, k) /\ n < MaxCalls
      BY <1>2 DEF CallRunning, StartFails, Launch, Begin
    <3>2. n' = n + 1 /\ kind' \in Seq(Kind)
      BY <2>1, <3>1 DEF n
    <3> QED
      BY <2>1, <3>1, <3>2
  <2>3. CASE CallRunning(k)
    BY <2>2, <2>3 DEF CallRunning, Begin, Inv, TypeOK
  <2>4. CASE StartFails(k)
    BY <2>2, <2>4 DEF StartFails, Begin, Returned, Inv, TypeOK
  <2>5. CASE Launch(k)
    <3>1. child = NoDaemon /\ \A e \in Daemon : open[e] = FALSE
      BY <2>5 DEF Launch, Begin, Inv, Owned, TypeOK, NoDaemon
    <3> QED
      BY <2>2, <2>5, <3>1 DEF Launch, Begin, Unused, Inv, TypeOK
  <2> QED
    BY <1>2, <2>3, <2>4, <2>5
<1>3. CASE ReadReady \/ NotReady
  <2>1. child \in Daemon /\ n \in Call /\ n' = n
    BY <1>3 DEF ReadReady, NotReady, daemons, Inv, TypeOK, Asked, Owned, Active, n
  <2>2. CASE ReadReady
    <3>1. stdout[child] \in Seq(Lines) /\ stdout[child] # <<>>
      BY <2>1, <2>2 DEF ReadReady, Inv, TypeOK, Lines
    <3>2. Tail(stdout[child]) \in Seq(Lines)
      BY <3>1, Pulled
    <3>3. stdout' \in [Daemon -> Seq(Lines)]
      BY <2>1, <2>2, <3>2 DEF ReadReady, Inv, TypeOK, Lines
    <3> QED
      BY <2>1, <2>2, <3>3 DEF ReadReady, Returned, Abandon, Inv, TypeOK, Lines, NoDaemon
  <2>3. CASE NotReady
    BY <2>1, <2>3 DEF NotReady, Returned, Abandon, daemons, Inv, TypeOK, NoDaemon
  <2> QED
    BY <1>3, <2>2, <2>3
<1>4. CASE Write \/ WriteFails \/ KilledByPipe \/ ReadScalar \/ ReadEof \/ Stop
  <2>1. n' = n /\ (pc \in Active => n \in Call) /\ n <= MaxCalls /\ kind' \in Seq(Kind)
    BY <1>4 DEF Write, WriteFails, KilledByPipe, ReadScalar, ReadEof, Stop, daemons, Inv, TypeOK,
                Asked, Active, n
  <2>2. pc \in {"writing", "reading"} \/ (pc = "idle" /\ running) => child \in Daemon
    BY DEF Inv, Owned
  <2>3. CASE Write
    <3>1. stdin[child] \in Seq(Call) /\ n \in Call
      BY <2>1, <2>2, <2>3 DEF Write, Inv, TypeOK, Active
    <3>2. Append(stdin[child], n) \in Seq(Call)
      BY <3>1, Pushed
    <3> QED
      BY <2>1, <2>2, <2>3, <3>2 DEF Write, Inv, TypeOK
  <2>4. CASE WriteFails \/ KilledByPipe \/ ReadScalar \/ ReadEof
    BY <2>1, <2>2, <2>4 DEF WriteFails, KilledByPipe, ReadScalar, ReadEof, Returned, daemons, Active,
                            Inv, TypeOK
  <2>5. CASE Stop
    BY <2>1, <2>2, <2>5 DEF Stop, Abandon, Inv, TypeOK, NoDaemon
  <2> QED
    BY <1>4, <2>3, <2>4, <2>5
<1>5. CASE ReadReply
  <2>1. child \in Daemon /\ n \in Call /\ n' = n
    BY <1>5 DEF ReadReply, Inv, TypeOK, Asked, Owned, Active, n
  <2>2. stdout[child] \in Seq(Lines) /\ stdout[child] # <<>> /\ n \in 0..MaxCalls
    <3>1. stdout \in [Daemon -> Seq(Lines)]
      BY DEF Inv, TypeOK, Lines
    <3> QED
      BY <1>5, <2>1, <3>1 DEF ReadReply
  <2>3. stdout' \in [Daemon -> Seq(Lines)]
    BY <1>5, <2>1, <2>2, ReadRest DEF ReadReply, Inv, TypeOK, Lines
  <2>4. Answer(Head(stdout[child])) \in {"cut", "ok", "error"}
    BY DEF Answer
  <2> QED
    BY <1>5, <2>1, <2>3, <2>4 DEF ReadReply, Returned, Inv, TypeOK, Lines
<1>6. ASSUME NEW d \in Daemon, Boot(d) \/ BootFails(d) \/ Noise(d) \/ Reply(d)
      PROVE  TypeOK'
  <2>1. PICK text \in Text, r \in {0, work[d]} : PrintLine(d, Line(text, r))
    BY <1>6 DEF Boot, BootFails, Noise, Reply, Text
  <2> DEFINE line == Line(text, r)
  <2>2. PrintLine(d, line) /\ line \in Lines
    <3>1. 0 \in 0..MaxCalls /\ work[d] \in 0..MaxCalls
      BY DEF Inv, TypeOK
    <3> QED
      BY <2>1, <3>1 DEF Line, Lines
  <2> HIDE DEF line
  <2>3. Append(stdout[d], line) \in Seq(Lines)
    <3>1. stdout[d] \in Seq(Lines)
      BY DEF Inv, TypeOK, Lines
    <3> QED
      BY <2>2, <3>1, Pushed
  <2>4. stdout' \in [Daemon -> Seq(Lines)]
    BY <2>2, <2>3 DEF PrintLine, Inv, TypeOK, Lines
  <2>5. n' = n /\ UNCHANGED <<client, stdin, open, done>>
    BY <1>6 DEF Boot, BootFails, Noise, Reply, client, n
  <2>6. state' \in [Daemon -> States]
    <3>1. \/ UNCHANGED state
          \/ \E x \in States : state' = [state EXCEPT ![d] = x]
      BY <1>6 DEF Boot, BootFails, Noise, Reply, States
    <3> QED
      BY <3>1, DaemonTypes
  <2>7. work' \in [Daemon -> 0..MaxCalls] /\ sync' \in BOOLEAN
    <3>1. UNCHANGED work \/ work' = [work EXCEPT ![d] = 0]
      BY <1>6 DEF Boot, BootFails, Noise, Reply
    <3>2. work' \in [Daemon -> 0..MaxCalls]
      <4>1. 0 \in 0..MaxCalls
        OBVIOUS
      <4> QED
        BY <3>1, <4>1, DaemonTypes
    <3>3. UNCHANGED sync \/ sync' = (state[d] = "booting")
      BY <1>6 DEF Boot, BootFails, Noise, Reply
    <3>4. sync' \in BOOLEAN
      BY <3>3 DEF Inv, TypeOK
    <3> QED
      BY <3>2, <3>4
  <2> QED
    BY <2>4, <2>5, <2>6, <2>7 DEF client, Inv, TypeOK, Lines, States
<1>7. ASSUME NEW d \in Daemon, Take(d)
      PROVE  TypeOK'
  <2>1. Tail(stdin[d]) \in Seq(Call) /\ Head(stdin[d]) \in Call
    <3>1. stdin[d] \in Seq(Call) /\ stdin[d] # <<>>
      BY <1>7 DEF Take, Inv, TypeOK
    <3> QED
      BY <3>1, Pulled
  <2>2. n' = n /\ UNCHANGED <<client, stdout, open, done, sync>>
    BY <1>7 DEF Take, client, n
  <2>3. /\ state' \in [Daemon -> States] /\ work' \in [Daemon -> 0..MaxCalls]
        /\ stdin' \in [Daemon -> Seq(Call)]
    <3>1. Head(stdin[d]) \in 0..MaxCalls /\ "busy" \in States
      BY <2>1 DEF States
    <3> QED
      BY <1>7, <2>1, <3>1, DaemonTypes DEF Take
  <2> QED
    BY <2>2, <2>3 DEF client, Inv, TypeOK, States
<1>8. ASSUME NEW d \in Daemon, Perform(d) \/ Orphaned(d) \/ Die(d)
      PROVE  TypeOK'
  <2>1. n' = n /\ UNCHANGED <<client, stdin, stdout, open, work, sync>>
    BY <1>8 DEF Perform, Orphaned, Die, client, n
  <2>2. state' \in [Daemon -> States]
    <3>1. \E x \in States : state' = [state EXCEPT ![d] = x]
      BY <1>8 DEF Perform, Orphaned, Die, States
    <3> QED
      BY <3>1, DaemonTypes
  <2>3. done' \in [Call -> Nat]
    <3>1. UNCHANGED done \/ \E r \in Call : done' = [done EXCEPT ![r] = done[r] + 1]
      BY <1>8 DEF Perform, Orphaned, Die, Handling, Inv, Once, Waits, TypeOK
    <3>2. \A r \in Call : done[r] + 1 \in Nat
      BY DaemonTypes
    <3> QED
      BY <3>1, <3>2, DaemonTypes
  <2> QED
    BY <2>1, <2>2, <2>3 DEF client, Inv, TypeOK, States
<1> QED
  BY <1>1, <1>2, <1>3, <1>4, <1>5, <1>6, <1>7, <1>8 DEF Next, ClientStep, Serve

----------------------------------------------------------------------------
(* The client's side: who moves n, result and done.                            *)

LEMMA Numbers == Inv => n \in 0..MaxCalls /\ (pc \in Active => n \in Call)
BY DaemonAssumption DEF Inv, TypeOK, Asked, Active, n, Call

LEMMA Counted ==
  ASSUME Inv, NEW k \in Kind, Begin(k)
  PROVE  n' = n + 1 /\ n + 1 \in Call /\ n < MaxCalls /\ pc = "idle"
<1>1. Append(kind, k) \in Seq(Kind) /\ Len(Append(kind, k)) = n + 1
  BY Pushed DEF Inv, TypeOK, n
<1> QED
  BY <1>1, Numbers, DaemonAssumption DEF Begin, n, Call

(* The steps of a daemon leave the client's variables alone.                   *)
Daemons(d) == Boot(d) \/ BootFails(d) \/ Take(d) \/ Perform(d) \/ Reply(d) \/ Orphaned(d)
              \/ Noise(d) \/ Die(d)
LEMMA DaemonFrame ==
  ASSUME NEW d \in Daemon, Daemons(d)
  PROVE  UNCHANGED <<client, open>> /\ n' = n
BY DEF Daemons, Boot, BootFails, Take, Perform, Reply, Orphaned, Noise, Die, client, n

(* The steps of the client alone, once a call was begun.                       *)
LEMMA ClientFrame ==
  ASSUME ClientStep \/ Stop
  PROVE  n' = n /\ UNCHANGED <<kind, work, done>>
BY DEF ClientStep, ReadReady, NotReady, Write, WriteFails, KilledByPipe, ReadReply, ReadScalar,
       ReadEof, Stop, daemons, n

LEMMA AskedStep == Inv /\ [Next]_vars => Asked'
<1> SUFFICES ASSUME Inv, [Next]_vars
             PROVE  Asked'
  OBVIOUS
<1>0. /\ n \in 0..MaxCalls /\ (pc \in Active => n \in Call)
      /\ result \in [Call -> {"none", "ok", "error", "cut", "broken", "unsent"}] /\ done \in [Call -> Nat]
  BY Numbers, DaemonTypes
<1> USE DaemonAssumption DEF Call, Daemon
<1>1. CASE UNCHANGED vars
  BY <1>1 DEF vars, Inv, Asked, n
<1>2. ASSUME NEW k \in Kind, CallRunning(k) \/ StartFails(k) \/ Launch(k)
      PROVE  Asked'
  <2>1. n' = n + 1 /\ n + 1 \in Call /\ n < MaxCalls /\ pc = "idle" /\ UNCHANGED done
    BY <1>2, Counted DEF CallRunning, StartFails, Launch, Begin
  <2>2. CASE pc' \in {"writing", "starting"} /\ UNCHANGED result
    BY <1>0, <2>1, <2>2 DEF Inv, Asked, Active
  <2>3. CASE StartFails(k)
    BY <1>0, <2>1, <2>3 DEF StartFails, Returned, Inv, Asked, Active
  <2> QED
    BY <1>2, <2>2, <2>3 DEF CallRunning, Launch
<1>3. CASE ClientStep \/ Stop
  <2>1. n' = n /\ UNCHANGED done
    BY <1>3, ClientFrame
  <2>2. CASE pc \in Active /\ \E a \in {"ok", "error", "cut", "broken", "unsent"} : Returned(n, a)
    BY <1>0, <2>1, <2>2 DEF Returned, Inv, Asked, Active
  <2>3. CASE /\ UNCHANGED result
             /\ \/ pc' = "exited" \/ (pc = "writing" /\ pc' = "reading")
                \/ (pc = "starting" /\ pc' = "writing")
    BY <1>0, <2>1, <2>3 DEF Inv, Asked, Active
  <2> QED
    BY <1>3, <2>2, <2>3 DEF ClientStep, Stop, ReadReady, NotReady, Write, WriteFails, KilledByPipe,
                            ReadReply, ReadScalar, ReadEof, Active, Answer, Returned
<1>4. ASSUME NEW d \in Daemon, Daemons(d)
      PROVE  Asked'
  <2>1. n' = n /\ UNCHANGED <<pc, result>>
    BY <1>4, DaemonFrame DEF client
  <2>2. CASE UNCHANGED done
    BY <2>1, <2>2 DEF Inv, Asked
  <2>3. CASE Perform(d)
    <3>1. work[d] \in 1..n /\ (pc \in {"starting", "writing"} => work[d] < n)
      BY <2>3 DEF Perform, Inv, Once, Waits, Handling
    <3>2. \A r \in Call : r # work[d] => done'[r] = done[r]
      BY <1>0, <2>3 DEF Perform
    <3> QED
      BY <1>0, <2>1, <3>1, <3>2 DEF Inv, Asked, Active
  <2> QED
    BY <1>4, <2>2, <2>3 DEF Daemons, Boot, BootFails, Take, Reply, Orphaned, Noise, Die
<1> QED
  BY <1>1, <1>2, <1>3, <1>4 DEF Next, Serve, Daemons

----------------------------------------------------------------------------
(* One daemon gets all the requests.                                           *)

LEMMA OwnedStep == Inv /\ [Next]_vars => Owned'
<1> SUFFICES ASSUME Inv, [Next]_vars
             PROVE  Owned'
  OBVIOUS
<1>0. /\ state \in [Daemon -> States] /\ work \in [Daemon -> 0..MaxCalls]
      /\ stdin \in [Daemon -> Seq(Call)] /\ stdout \in [Daemon -> Seq(Lines)]
  BY DaemonTypes
<1>1. CASE UNCHANGED vars
  BY <1>1 DEF vars, Inv, Owned, HasWork
<1>2. ASSUME NEW k \in Kind, CallRunning(k) \/ StartFails(k) \/ Launch(k)
      PROVE  Owned'
  <2>1. pc = "idle" /\ UNCHANGED <<running, stdin, stdout, work>>
    BY <1>2 DEF CallRunning, StartFails, Launch, Begin
  <2>2. CASE CallRunning(k)
    BY <2>1, <2>2 DEF CallRunning, Inv, Owned, HasWork
  <2>3. CASE StartFails(k)
    BY <2>1, <2>3 DEF StartFails, Returned, Inv, Owned, HasWork
  <2>4. CASE Launch(k)
    <3>1. PICK d \in Daemon : child' = d /\ state' = [state EXCEPT ![d] = "booting"]
      BY <2>4 DEF Launch, Unused
    <3>2. state'[d] = "booting" /\ work'[d] = 0
      <4>1. state[d] = "unborn"
        BY <2>4, <3>1, <1>0 DEF Launch, Unused
      <4> QED
        BY <2>1, <3>1, <4>1, <1>0 DEF Inv, Owned, HasWork
    <3>3. \A e \in Daemon : e # d => state'[e] = state[e]
      BY <3>1, <1>0
    <3>4. ~running /\ pc' = "starting"
      BY <2>4 DEF Launch
    <3> QED
      BY <2>1, <3>1, <3>2, <3>3, <3>4 DEF Inv, Owned, HasWork
  <2> QED
    BY <1>2, <2>2, <2>3, <2>4
<1>3. CASE Write
  <2>1. child \in Daemon /\ running /\ state[child] # "unborn"
    BY <1>3 DEF Write, Inv, Owned
  <2>2. \A e \in Daemon : e # child => stdin'[e] = stdin[e]
    BY <1>3, <1>0, <2>1 DEF Write
  <2>3. \A e \in Daemon : e # child => ~HasWork(e)'
    BY <1>3, <2>1, <2>2 DEF Write, Inv, Owned, HasWork
  <2> QED
    BY <1>3, <2>1, <2>2, <2>3 DEF Write, Inv, Owned
<1>4. CASE ReadReady
  <2>1. child \in Daemon /\ ~running /\ pc = "starting" /\ state[child] # "unborn"
    BY <1>4 DEF ReadReady, Inv, Owned
  <2>2. \A e \in Daemon : e # child => stdout'[e] = stdout[e]
    BY <1>4, <1>0, <2>1 DEF ReadReady
  <2>3. \A e \in Daemon : ~HasWork(e)
    BY <2>1 DEF Inv, Owned
  <2> QED
    BY <1>4, <2>1, <2>2, <2>3 DEF ReadReady, Returned, Abandon, Inv, Owned, HasWork, NoDaemon, Daemon
<1>5. CASE ReadReply
  <2>1. child \in Daemon /\ running /\ pc = "reading" /\ state[child] # "unborn"
    BY <1>5 DEF ReadReply, Inv, Owned
  <2>2. \A e \in Daemon : e # child => stdout'[e] = stdout[e]
    BY <1>5, <1>0, <2>1 DEF ReadReply
  <2> QED
    BY <1>5, <2>1, <2>2 DEF ReadReply, Returned, Inv, Owned, HasWork
<1>6. CASE NotReady \/ WriteFails \/ KilledByPipe \/ ReadScalar \/ ReadEof
  <2>1. UNCHANGED <<state, stdin, stdout, work, running>>
    BY <1>6 DEF NotReady, WriteFails, KilledByPipe, ReadScalar, ReadEof, daemons
  <2>2. \/ pc = "starting" /\ pc' = "idle" /\ child' = NoDaemon
        \/ pc \in {"writing", "reading"} /\ pc' \in {"idle", "exited"} /\ UNCHANGED child
    BY <1>6 DEF NotReady, WriteFails, KilledByPipe, ReadScalar, ReadEof, Returned, Abandon
  <2> QED
    BY <2>1, <2>2 DEF Inv, Owned, HasWork, NoDaemon, Daemon
<1>7. CASE Stop
  <2>1. /\ pc' = "exited" /\ ~running' /\ UNCHANGED <<stdin, stdout, work>>
        /\ child' = child \/ child' = NoDaemon
    BY <1>7 DEF Stop, Abandon
  <2>2. UNCHANGED state \/ (child \in Daemon /\ state' = [state EXCEPT ![child] = "dead"])
    BY <1>7 DEF Stop, Inv, Owned
  <2>3. \A e \in Daemon : state'[e] = state[e] \/ state'[e] = "dead"
    BY <2>2, <1>0
  <2>4. child' \in Daemon => state'[child'] # "unborn"
    BY <2>1, <2>3 DEF Inv, Owned, NoDaemon, Daemon
  <2> QED
    BY <2>1, <2>3, <2>4 DEF Inv, Owned, HasWork
<1>8. ASSUME NEW d \in Daemon, Daemons(d)
      PROVE  Owned'
  <2>1. UNCHANGED <<pc, running, child>>
    BY <1>8, DaemonFrame DEF client
  <2>2. state[d] # "unborn" /\ state'[d] # "unborn" /\ \A e \in Daemon : e # d =>
          state'[e] = state[e] /\ stdin'[e] = stdin[e] /\ stdout'[e] = stdout[e] /\ work'[e] = work[e]
    BY <1>8, <1>0 DEF Daemons, Boot, BootFails, Take, Perform, Reply, Orphaned, Noise, Die, PrintLine,
                      Alive, Handling
  <2>3. state'[d] \in {"booting", "serving"} => work'[d] = 0
    BY <1>8, <1>0 DEF Daemons, Boot, BootFails, Take, Perform, Reply, Orphaned, Noise, Die, Inv, Owned
  <2>4. HasWork(d)' => HasWork(d)
    BY <1>8, <1>0 DEF Daemons, Boot, BootFails, Take, Perform, Reply, Orphaned, Noise, Die, HasWork
  <2>5. \A e \in Daemon : HasWork(e)' => HasWork(e)
    BY <2>2, <2>4 DEF HasWork
  <2>6. child \in Daemon => state'[child] # "unborn"
    BY <2>2 DEF Inv, Owned
  <2>7. \A e \in Daemon : state'[e] = "unborn" => ~HasWork(e)' /\ stdout'[e] = <<>>
    BY <2>2, <2>5 DEF Inv, Owned
  <2>8. \A e \in Daemon : state'[e] \in {"booting", "serving"} => work'[e] = 0
    BY <2>2, <2>3 DEF Inv, Owned
  <2> QED
    BY <2>1, <2>5, <2>6, <2>7, <2>8 DEF Inv, Owned
<1> QED
  BY <1>1, <1>2, <1>3, <1>4, <1>5, <1>6, <1>7, <1>8 DEF Next, ClientStep, Serve, Daemons
----------------------------------------------------------------------------
(* Each request is in one place.                                               *)

(* The steps that move no request.                                             *)
LEMMA OnceKept ==
  ASSUME Inv, n' \in Nat, n <= n', UNCHANGED <<stdin, work, done>>,
         \A d \in Daemon : state'[d] \in {"busy", "acted"} => state'[d] = state[d],
         \A r \in Call : Waits(r) => Waits(r)'
  PROVE  Once'
<1>1. n \in Nat /\ \A d \in Daemon : stdin[d] \in Seq(Call) /\ work[d] \in 0..MaxCalls
  BY Numbers, DaemonTypes, DaemonAssumption
<1>2. \A d \in Daemon : \A i \in 1..Len(stdin[d]) : stdin[d][i] \in Call
  BY <1>1
<1>3. \A d \in Daemon : \A i \in 1..Len(stdin[d]) : Waits(stdin[d][i])'
  BY <1>2 DEF Inv, Once
<1>4. \A d \in Daemon : Handling(d)' => work'[d] \in 1..n' /\ Handling(d)
  BY <1>1 DEF Inv, Once, Handling
<1>5. \A d \in Daemon : state'[d] = "busy" => Waits(work[d])'
  BY <1>1 DEF Inv, Once, Waits, Call
<1> QED
  BY <1>3, <1>4, <1>5 DEF Inv, Once

LEMMA OnceStep == Inv /\ [Next]_vars => Once'
<1> SUFFICES ASSUME Inv, [Next]_vars
             PROVE  Once'
  OBVIOUS
<1>0. /\ state \in [Daemon -> States] /\ work \in [Daemon -> 0..MaxCalls]
      /\ stdin \in [Daemon -> Seq(Call)] /\ done \in [Call -> Nat]
      /\ result \in [Call -> {"none", "ok", "error", "cut", "broken", "unsent"}]
      /\ n \in 0..MaxCalls /\ n \in Nat /\ (pc \in Active => n \in Call)
  BY DaemonTypes, Numbers, DaemonAssumption
<1>1. CASE UNCHANGED vars
  BY <1>0, <1>1, OnceKept DEF vars, n, Waits
<1>2. ASSUME NEW k \in Kind, CallRunning(k) \/ StartFails(k) \/ Launch(k)
      PROVE  Once'
  <2>1. n' = n + 1 /\ n + 1 \in Call /\ pc = "idle" /\ UNCHANGED <<stdin, work, done>>
    BY <1>2, Counted DEF CallRunning, StartFails, Launch, Begin
  <2>2. \A d \in Daemon : state'[d] \in {"busy", "acted"} => state'[d] = state[d]
    BY <1>2, <1>0 DEF CallRunning, StartFails, Launch
  <2>3. \A r \in Call : r # n + 1 => result'[r] = result[r]
    BY <1>2, <2>1, <1>0 DEF CallRunning, StartFails, Launch, Returned
  <2>4. \A r \in Call : Waits(r) => Waits(r)'
    BY <1>0, <2>1, <2>3 DEF Waits, Call
  <2> QED
    BY <1>0, <2>1, <2>2, <2>4, OnceKept
<1>3. CASE Write
  <2>1. child \in Daemon /\ n \in Call /\ pc = "writing" /\ pc' = "reading" /\ n' = n
    BY <1>3, <1>0 DEF Write, Inv, Owned, Active, n
  <2>2. UNCHANGED <<state, work, done, result>>
    BY <1>3 DEF Write
  <2>3. done[n] = 0 /\ result[n] = "none"
    BY <2>1 DEF Inv, Asked, Active
  <2>4. \A r \in Call : Waits(r) => Waits(r)' /\ r # n
    BY <2>1, <2>2, <1>0 DEF Waits, Call
  <2>5. Waits(n)'
    BY <2>1, <2>2, <2>3 DEF Waits, Call
  <2>6. /\ stdin[child] \in Seq(Call) /\ Len(stdin[child]) \in Nat
        /\ Len(stdin'[child]) = Len(stdin[child]) + 1
        /\ \A i \in 1..Len(stdin[child]) : stdin'[child][i] = stdin[child][i]
        /\ stdin'[child][Len(stdin[child]) + 1] = n
    <3>1. stdin[child] \in Seq(Call) /\ stdin'[child] = Append(stdin[child], n)
      BY <1>0, <1>3, <2>1 DEF Write
    <3> QED
      BY <2>1, <3>1, Pushed
  <2>7. \A e \in Daemon : e # child => stdin'[e] = stdin[e]
    BY <1>0, <1>3, <2>1 DEF Write
  <2>8. \A e \in Daemon : \A i \in 1..Len(stdin[e]) : stdin[e][i] \in Call /\ Waits(stdin[e][i])
    BY <1>0 DEF Inv, Once
  <2>9. \A e \in Daemon : (\A i \in 1..Len(stdin[e]) : Waits(stdin[e][i]))'
    <3>1. child' = child
      BY <1>3 DEF Write
    <3>2. ASSUME NEW i \in 1..Len(stdin'[child])
          PROVE  (Waits(stdin[child][i]))'
      <4>1. i \in 1..Len(stdin[child]) \/ i = Len(stdin[child]) + 1
        BY <2>6
      <4>2. CASE i \in 1..Len(stdin[child])
        <5>1. stdin[child][i] \in Call /\ Waits(stdin[child][i])
          BY <2>1, <2>8, <4>2
        <5> QED
          BY <2>1, <2>2, <2>4, <2>6, <3>1, <4>2, <5>1 DEF Waits
      <4>3. CASE i = Len(stdin[child]) + 1
        BY <2>1, <2>5, <2>6, <3>1, <4>3 DEF Waits
      <4> QED
        BY <4>1, <4>2, <4>3
    <3>3. ASSUME NEW e \in Daemon, e # child, NEW i \in 1..Len(stdin'[e])
          PROVE  (Waits(stdin[e][i]))'
      <4>1. stdin'[e] = stdin[e] /\ stdin[e][i] \in Call /\ Waits(stdin[e][i])
        BY <2>7, <2>8, <3>3
      <4> QED
        BY <2>1, <2>2, <2>4, <4>1 DEF Waits
    <3> QED
      BY <3>1, <3>2, <3>3
  <2>10. \A i, j \in 1..Len(stdin'[child]) : i # j => stdin'[child][i] # stdin'[child][j]
    <3>1. \A i \in 1..Len(stdin[child]) : stdin[child][i] # n
      BY <2>1, <2>4, <2>8
    <3>2. \A i, j \in 1..Len(stdin[child]) : i # j => stdin[child][i] # stdin[child][j]
      BY <2>1 DEF Inv, Once
    <3>3. \A i \in 1..Len(stdin'[child]) : i \in 1..Len(stdin[child]) \/ i = Len(stdin[child]) + 1
      BY <2>6
    <3>4. ASSUME NEW i \in 1..Len(stdin'[child]), NEW j \in 1..Len(stdin'[child]), i # j
          PROVE  stdin'[child][i] # stdin'[child][j]
      <4>1. CASE i \in 1..Len(stdin[child]) /\ j \in 1..Len(stdin[child])
        BY <2>6, <3>2, <3>4, <4>1
      <4>2. CASE i \in 1..Len(stdin[child]) /\ j = Len(stdin[child]) + 1
        BY <2>6, <3>1, <4>2
      <4>3. CASE i = Len(stdin[child]) + 1 /\ j \in 1..Len(stdin[child])
        BY <2>6, <3>1, <4>3
      <4> QED
        BY <3>3, <3>4, <4>1, <4>2, <4>3
    <3> QED
      BY <3>4
  <2>11. \A e \in Daemon : state[e] = "busy" => work[e] # n /\ Waits(work[e])'
    <3>1. \A e \in Daemon : state[e] = "busy" => work[e] \in Call /\ Waits(work[e])
      BY <1>0 DEF Inv, Once, Waits, Call
    <3> QED
      BY <2>2, <2>4, <3>1
  <2>12. \A e \in Daemon : state[e] = "busy" => \A i \in 1..Len(stdin'[e]) : stdin'[e][i] # work[e]
    <3>1. ASSUME NEW e \in Daemon, state[e] = "busy"
          PROVE  work[e] # n /\ \A i \in 1..Len(stdin[e]) : stdin[e][i] # work[e]
      BY <2>11, <3>1 DEF Inv, Once
    <3>2. ASSUME NEW e \in Daemon, state[e] = "busy", NEW i \in 1..Len(stdin'[e])
          PROVE  stdin'[e][i] # work[e]
      <4>1. CASE e # child
        BY <2>7, <3>1, <3>2, <4>1
      <4>2. CASE e = child
        <5>1. i \in 1..Len(stdin[child]) \/ i = Len(stdin[child]) + 1
          BY <2>6, <3>2, <4>2
        <5> QED
          BY <2>6, <3>1, <3>2, <4>2, <5>1
      <4> QED
        BY <4>1, <4>2
    <3> QED
      BY <3>2
  <2>13. \A d \in Daemon : Handling(d)' => Handling(d)
    BY <2>2 DEF Handling
  <2>14. \A d \in Daemon : \A i, j \in 1..Len(stdin'[d]) : i # j => stdin'[d][i] # stdin'[d][j]
    BY <2>7, <2>10 DEF Inv, Once
  <2> QED
    BY <2>1, <2>2, <2>9, <2>11, <2>12, <2>13, <2>14 DEF Inv, Once
<1>4. CASE (ClientStep \/ Stop) /\ ~Write
  <2>1. n' = n /\ UNCHANGED <<work, done>>
    BY <1>4, ClientFrame
  <2>2. UNCHANGED stdin
    BY <1>4 DEF ClientStep, Stop, ReadReady, NotReady, WriteFails, KilledByPipe, ReadReply, ReadScalar,
                ReadEof, daemons
  <2>3. \A d \in Daemon : state'[d] \in {"busy", "acted"} => state'[d] = state[d]
    BY <1>4, <1>0 DEF ClientStep, Stop, ReadReady, NotReady, WriteFails, KilledByPipe, ReadReply,
                      ReadScalar, ReadEof, daemons
  <2>4. \/ /\ pc = "starting" /\ Returned(n, "unsent")
        \/ /\ pc \in Active /\ \E a \in {"ok", "error", "cut", "broken"} : Returned(n, a)
        \/ UNCHANGED result /\ (pc' = "exited" \/ (pc = "starting" /\ pc' = "writing"))
    BY <1>4 DEF ClientStep, Stop, ReadReady, NotReady, WriteFails, KilledByPipe, ReadReply,
                ReadScalar, ReadEof, Active, Answer, Returned
  <2>5. \A r \in Call : Waits(r) => Waits(r)'
    BY <1>0, <2>1, <2>4 DEF Waits, Returned
  <2> QED
    BY <1>0, <2>1, <2>2, <2>3, <2>5, OnceKept
<1>5. ASSUME NEW d \in Daemon, Boot(d) \/ BootFails(d) \/ Noise(d) \/ Orphaned(d) \/ Die(d)
      PROVE  Once'
  <2>1. n' = n /\ UNCHANGED <<pc, result, stdin, work, done>>
    BY <1>5, DaemonFrame DEF Boot, BootFails, Noise, Orphaned, Die, client, Daemons
  <2>2. \A e \in Daemon : state'[e] \in {"busy", "acted"} => state'[e] = state[e]
    BY <1>5, <1>0 DEF Boot, BootFails, Noise, Orphaned, Die
  <2> QED
    BY <1>0, <2>1, <2>2, OnceKept DEF Waits
<1>6. ASSUME NEW d \in Daemon, Reply(d)
      PROVE  Once'
  <2>1. n' = n /\ UNCHANGED <<pc, result, stdin, done>>
    BY <1>6, DaemonFrame DEF Reply, client, Daemons
  <2>2. state'[d] = "serving" /\ \A e \in Daemon : e # d => state'[e] = state[e] /\ work'[e] = work[e]
    BY <1>6, <1>0 DEF Reply
  <2>3. \A r : Waits(r)' <=> Waits(r)
    BY <2>1 DEF Waits
  <2> QED
    BY <2>1, <2>2, <2>3 DEF Inv, Once, Handling
<1>7. ASSUME NEW d \in Daemon, Take(d)
      PROVE  Once'
  <2>1. n' = n /\ UNCHANGED <<pc, result, done>>
    BY <1>7, DaemonFrame DEF Take, client, Daemons
  <2>2. /\ state'[d] = "busy" /\ work'[d] = stdin[d][1] /\ stdin[d] \in Seq(Call)
        /\ Len(stdin[d]) \in Nat \ {0} /\ Len(stdin'[d]) = Len(stdin[d]) - 1
        /\ \A i \in 1..Len(stdin'[d]) : stdin'[d][i] = stdin[d][i + 1]
    <3>1. stdin[d] \in Seq(Call) /\ stdin[d] # <<>> /\ stdin'[d] = Tail(stdin[d]) /\ state'[d] = "busy"
          /\ work'[d] = Head(stdin[d])
      BY <1>7, <1>0 DEF Take
    <3> QED
      BY <3>1, Pulled
  <2>3. \A e \in Daemon : e # d => state'[e] = state[e] /\ work'[e] = work[e] /\ stdin'[e] = stdin[e]
    BY <1>7, <1>0 DEF Take
  <2>4. \A r : Waits(r)' <=> Waits(r)
    BY <2>1 DEF Waits
  <2>5. Waits(stdin[d][1]) /\ stdin[d][1] \in 1..n
    BY <2>2 DEF Inv, Once, Waits
  <2>6. \A i \in 1..Len(stdin'[d]) : Waits(stdin'[d][i]) /\ stdin'[d][i] # work'[d]
    <3>1. \A i \in 1..Len(stdin'[d]) : i + 1 \in 1..Len(stdin[d]) /\ i + 1 # 1 /\ 1 \in 1..Len(stdin[d])
      BY <2>2
    <3>2. \A i \in 1..Len(stdin[d]) : Waits(stdin[d][i])
      BY DEF Inv, Once
    <3>3. \A i, j \in 1..Len(stdin[d]) : i # j => stdin[d][i] # stdin[d][j]
      BY DEF Inv, Once
    <3>4. \A i \in 1..Len(stdin'[d]) : stdin'[d][i] = stdin[d][i + 1] /\ work'[d] = stdin[d][1]
      BY <2>2
    <3> QED
      BY <3>1, <3>2, <3>3, <3>4
  <2>7. \A i, j \in 1..Len(stdin'[d]) : i # j => stdin'[d][i] # stdin'[d][j]
    <3>1. \A i, j \in 1..Len(stdin'[d]) : i # j =>
            i + 1 \in 1..Len(stdin[d]) /\ j + 1 \in 1..Len(stdin[d]) /\ i + 1 # j + 1
      BY <2>2
    <3> QED
      BY <2>2, <3>1 DEF Inv, Once
  <2>8. \A e \in Daemon : (\A i \in 1..Len(stdin[e]) : Waits(stdin[e][i]))'
    BY <2>3, <2>4, <2>6 DEF Inv, Once
  <2>9. \A e \in Daemon : \A i, j \in 1..Len(stdin'[e]) : i # j => stdin'[e][i] # stdin'[e][j]
    BY <2>3, <2>7 DEF Inv, Once
  <2>10. \A e \in Daemon : Handling(e)' => work'[e] \in 1..n'
    BY <2>1, <2>2, <2>3, <2>5 DEF Inv, Once, Handling
  <2>11. \A e \in Daemon : (state[e] = "busy" =>
           Waits(work[e]) /\ \A i \in 1..Len(stdin[e]) : stdin[e][i] # work[e])'
    <3> SUFFICES ASSUME NEW e \in Daemon, state'[e] = "busy"
                 PROVE  Waits(work[e])' /\ \A i \in 1..Len(stdin'[e]) : stdin'[e][i] # work'[e]
      OBVIOUS
    <3>1. CASE e = d
      <4>1. Waits(work[d])'
        BY <2>2, <2>4, <2>5
      <4> QED
        BY <3>1, <4>1, <2>6
    <3>2. CASE e # d
      <4>1. state[e] = "busy" /\ work'[e] = work[e] /\ stdin'[e] = stdin[e]
        BY <3>2, <2>3
      <4>2. Waits(work[e]) /\ \A i \in 1..Len(stdin[e]) : stdin[e][i] # work[e]
        BY <4>1 DEF Inv, Once
      <4>3. Waits(work[e])'
        BY <4>1, <4>2, <2>4
      <4> QED
        BY <4>1, <4>2, <4>3
    <3> QED
      BY <3>1, <3>2
  <2>12. \A e \in Daemon : state'[e] = "acted" => done'[work'[e]] = 1
    BY <2>1, <2>2, <2>3 DEF Inv, Once
  <2> QED
    BY <2>8, <2>9, <2>10, <2>11, <2>12 DEF Once
<1>8. ASSUME NEW d \in Daemon, Perform(d)
      PROVE  Once'
  <2>1. n' = n /\ UNCHANGED <<pc, result, stdin, work>>
    BY <1>8, DaemonFrame DEF Perform, client, Daemons
  <2>2. state[d] = "busy" /\ state'[d] = "acted" /\ \A e \in Daemon : e # d => state'[e] = state[e]
    BY <1>8, <1>0 DEF Perform
  <2>3. work[d] \in 1..n /\ work[d] \in Call /\ done[work[d]] = 0
    BY <1>0, <2>2 DEF Inv, Once, Waits, Handling, Call
  <2>4. done'[work[d]] = 1 /\ \A r \in Call : r # work[d] => done'[r] = done[r]
    BY <1>0, <1>8, <2>3 DEF Perform
  <2>5. \A r \in Call : Waits(r) /\ r # work[d] => Waits(r)'
    BY <2>1, <2>4 DEF Waits
  <2>6. \A e \in Daemon : e # d => stdin[e] = <<>> /\ work[e] = 0
    BY <2>3, <1>0 DEF Inv, Owned, HasWork
  <2>7. \A i \in 1..Len(stdin[d]) : stdin[d][i] \in Call /\ stdin[d][i] # work[d] /\ Waits(stdin[d][i])
    BY <1>0, <2>2 DEF Inv, Once
  <2>8. \A e \in Daemon : (\A i \in 1..Len(stdin[e]) : Waits(stdin[e][i]))'
    BY <2>1, <2>5, <2>6, <2>7
  <2>9. \A e \in Daemon : Handling(e)' => e = d
    <3>1. \A e \in Daemon : e # d => ~Handling(e)
      BY <2>6, <1>0 DEF Inv, Once
    <3> QED
      BY <2>2, <3>1 DEF Handling
  <2>10. \A e \in Daemon : \A i, j \in 1..Len(stdin'[e]) : i # j => stdin'[e][i] # stdin'[e][j]
    BY <2>1 DEF Inv, Once
  <2> QED
    BY <2>1, <2>2, <2>3, <2>4, <2>8, <2>9, <2>10 DEF Once, Handling
<1> QED
  BY <1>1, <1>2, <1>3, <1>4, <1>5, <1>6, <1>7, <1>8 DEF Next, ClientStep, Serve
----------------------------------------------------------------------------
(* Replies line up with requests, until something breaks the line.             *)

LEMMA Workless == Inv => \A d \in Daemon : ~HasWork(d) => stdin[d] = <<>> /\ ~Handling(d) /\ Quiet(d)
<1> SUFFICES ASSUME Inv, NEW d \in Daemon, ~HasWork(d)
             PROVE  stdin[d] = <<>> /\ ~Handling(d) /\ Quiet(d)
  OBVIOUS
<1>1. Handling(d) => work[d] \in 1..n /\ work[d] # 0
  BY Numbers, DaemonAssumption DEF Inv, Once
<1> QED
  BY <1>1 DEF HasWork, Quiet

(* The daemons the client does not hold have nothing to do.                    *)
LEMMA OthersQuiet ==
  Inv /\ running => child \in Daemon /\ \A d \in Daemon : d # child => stdin[d] = <<>> /\ ~Handling(d) /\ Quiet(d)
BY Workless DEF Inv, Owned

LEMMA BeginInStep ==
  ASSUME Inv, NEW k \in Kind, CallRunning(k) \/ StartFails(k) \/ Launch(k)
  PROVE  InStep'
<1>0. state \in [Daemon -> States] /\ pc = "idle" /\ UNCHANGED <<stdin, stdout, sync, running>>
  BY DaemonTypes DEF CallRunning, StartFails, Launch, Begin
<1>1. CASE CallRunning(k) \/ StartFails(k)
  <2>1. UNCHANGED <<state, child>> /\ pc' \in {"idle", "writing"}
    BY <1>1 DEF CallRunning, StartFails, Returned
  <2> QED
    BY <1>0, <2>1 DEF Inv, InStep, Quiet, Handling, Alive
<1>2. CASE Launch(k)
  <2>1. PICK d \in Daemon : child' = d /\ state' = [state EXCEPT ![d] = "booting"] /\ state[d] = "unborn"
    BY <1>2 DEF Launch, Unused
  <2>2. ~running /\ pc' = "starting"
    BY <1>2 DEF Launch
  <2>3. stdin[d] = <<>> /\ stdout[d] = <<>>
    BY <2>1 DEF Inv, Owned, HasWork
  <2>4. ReadyLast(child)'
    BY <1>0, <2>1, <2>3 DEF ReadyLast
  <2>5. \A e \in Daemon : state'[e] = IF e = d THEN "booting" ELSE state[e]
    BY <1>0, <2>1
  <2>6. sync => \A e \in Daemon : Quiet(e)'
    BY <1>0, <2>3, <2>5 DEF Inv, InStep, Quiet, Handling, Alive
  <2> QED
    BY <1>0, <2>2, <2>4, <2>6 DEF InStep
<1> QED
  BY <1>1, <1>2

LEMMA ClientInStep ==
  ASSUME Inv, ClientStep \/ Stop, sync'
  PROVE  InStep'
<1>0. /\ state \in [Daemon -> States] /\ stdin \in [Daemon -> Seq(Call)]
      /\ stdout \in [Daemon -> Seq(Lines)] /\ n' = n /\ UNCHANGED <<work, done>> /\ sync
  BY DaemonTypes, ClientFrame DEF ClientStep, ReadReady, NotReady, Write, WriteFails, KilledByPipe,
                                  ReadReply, ReadScalar, ReadEof, Stop, daemons
<1>1. CASE ReadReady
  <2>1. pc = "starting" /\ child \in Daemon /\ ~running /\ UNCHANGED <<state, stdin>>
    BY <1>1 DEF ReadReady, Inv, Owned
  <2>2. (\A d \in Daemon : Quiet(d)) /\ ReadyLast(child)
    BY <1>0, <2>1 DEF Inv, InStep
  <2>3. \A d \in Daemon : Quiet(d)'
    BY <2>1, <2>2 DEF Quiet, Handling, Alive
  <2>4. /\ stdout[child] # <<>> /\ Head(stdout[child]) = stdout[child][1]
        /\ stdout'[child] = Tail(stdout[child]) /\ Len(stdout'[child]) = Len(stdout[child]) - 1
        /\ Len(stdout[child]) \in Nat \ {0} /\ (Len(stdout[child]) = 1 => stdout'[child] = <<>>)
    <3>1. stdout[child] # <<>> /\ stdout'[child] = Tail(stdout[child]) /\ stdout[child] \in Seq(Lines)
      BY <1>0, <1>1, <2>1 DEF ReadReady
    <3> QED
      BY <3>1, Pulled
  <2>5. CASE TakenForReady(Head(stdout[child]))
    <3>1. stdout[child][1].text # "noise"
      BY <2>4, <2>5 DEF TakenForReady
    <3>2. state[child] # "booting" /\ Len(stdout[child]) = 1
      <4>1. state[child] # "booting" /\ ~(Len(stdout[child]) > 1)
        BY <2>2, <2>4, <3>1 DEF ReadyLast
      <4>2. Len(stdout[child]) \in Nat \ {0}
        BY <2>4
      <4>3. \A l \in Nat \ {0} : ~(l > 1) => l = 1
        OBVIOUS
      <4> QED
        BY <4>1, <4>2, <4>3
    <3>3. stdout'[child] = <<>>
      BY <2>4, <3>2
    <3>4. running' /\ pc' = "writing" /\ child' = child
      BY <1>1, <2>5 DEF ReadReady
    <3> QED
      BY <2>1, <2>3, <3>2, <3>3, <3>4 DEF InStep
  <2>6. CASE ~TakenForReady(Head(stdout[child]))
    <3>1. ~running' /\ pc' = "idle"
      BY <1>1, <2>1, <2>6 DEF ReadReady, Returned
    <3> QED
      BY <2>3, <3>1 DEF InStep
  <2> QED
    BY <2>5, <2>6
<1>2. CASE NotReady
  <2>1. pc = "starting" /\ ~running' /\ UNCHANGED <<state, stdin>> /\ pc' = "idle"
    BY <1>2 DEF NotReady, Inv, Owned, daemons, Returned
  <2>2. \A d \in Daemon : Quiet(d)'
    BY <1>0, <2>1 DEF Inv, InStep, Quiet, Handling, Alive
  <2> QED
    BY <2>1, <2>2 DEF InStep
<1>3. CASE Write
  <2>1. /\ pc = "writing" /\ pc' = "reading" /\ child' = child /\ running /\ running' /\ Alive(child)
        /\ UNCHANGED <<state, stdout>>
    BY <1>3 DEF Write, Inv, Owned
  <2>2. child \in Daemon /\ Quiet(child) /\ stdout[child] = <<>> /\ state[child] # "booting"
    BY <1>0, <2>1, OthersQuiet DEF Inv, InStep
  <2>3. ~Handling(child) /\ stdin[child] = <<>>
    BY <2>1, <2>2 DEF Quiet
  <2>4. stdin'[child] = <<n>>
    <3>1. stdin'[child] = Append(<<>>, n)
      BY <1>0, <1>3, <2>2, <2>3 DEF Write
    <3> QED
      BY <3>1
  <2>5. OneThing(child)'
    BY <1>0, <2>1, <2>2, <2>3, <2>4 DEF OneThing, Handling
  <2> QED
    BY <2>1, <2>2, <2>5 DEF InStep
<1>4. CASE WriteFails \/ KilledByPipe
  <2>1. pc = "writing" /\ pc' \in {"idle", "exited"} /\ UNCHANGED <<child, state, stdin, stdout, running>>
    BY <1>4 DEF WriteFails, KilledByPipe, daemons, Returned
  <2>2. \A d \in Daemon : Quiet(d)'
    BY <1>0, <2>1 DEF Inv, InStep, Quiet, Handling, Alive
  <2> QED
    BY <1>0, <2>1, <2>2 DEF Inv, InStep
<1>5. CASE ReadReply \/ ReadScalar \/ ReadEof
  <2>1. pc = "reading" /\ running /\ running' /\ child' = child /\ pc' \in {"idle", "exited"}
        /\ UNCHANGED <<state, stdin>>
    BY <1>5 DEF ReadReply, ReadScalar, ReadEof, Inv, Owned, daemons, Returned
  <2>2. child \in Daemon /\ OneThing(child) /\ state[child] # "booting"
    BY <1>0, <2>1, OthersQuiet DEF Inv, InStep
  <2>3. CASE ReadReply
    <3>1. /\ stdout[child] # <<>> /\ Head(stdout[child]) = stdout[child][1]
          /\ Len(stdout[child]) \in Nat \ {0}
          /\ Len(stdout[child]) = 1 => Tail(stdout[child]) = <<>>
      BY <1>0, <2>2, <2>3, Pulled DEF ReadReply
    <3>2. Len(stdout[child]) = 1 /\ stdin[child] = <<>> /\ ~Handling(child)
      BY <2>2, <3>1 DEF OneThing
    <3>3. Tail(stdout[child]) = <<>>
      BY <3>1, <3>2
    <3>4. Head(stdout[child]).text # "huge"
      BY <1>0, <2>3 DEF ReadReply
    <3>5. stdout'[child] = <<>> \o Tail(stdout[child])
      BY <1>0, <2>2, <2>3, <3>4 DEF ReadReply
    <3>6. stdout'[child] = <<>>
      BY <3>3, <3>5
    <3>7. \A d \in Daemon : Quiet(d)
      BY <2>1, <3>2, OthersQuiet DEF Quiet
    <3> QED
      BY <2>1, <2>2, <3>6, <3>7 DEF InStep, Quiet, Handling, Alive
  <2>4. CASE ReadScalar
    <3>1. stdout[child] # <<>> /\ stdout[child][1].text = "noise"
      BY <1>0, <2>2, <2>4, Pulled DEF ReadScalar
    <3> QED
      BY <2>2, <3>1 DEF OneThing, Tells
  <2>5. CASE ReadEof
    <3>1. state[child] = "dead" /\ stdout[child] = <<>> /\ UNCHANGED stdout /\ pc' = "idle"
      BY <2>5 DEF ReadEof, LastLineRead, daemons, Returned
    <3>2. \A d \in Daemon : Quiet(d)
      BY <2>1, <3>1, OthersQuiet DEF Quiet, Handling, Alive
    <3> QED
      BY <2>1, <3>1, <3>2 DEF InStep, Quiet, Handling, Alive
  <2> QED
    BY <1>5, <2>3, <2>4, <2>5
<1>6. CASE Stop
  <2>1. pc = "idle" /\ pc' = "exited" /\ ~running' /\ UNCHANGED <<stdin, stdout>>
    BY <1>6 DEF Stop
  <2>2. \A e \in Daemon : state'[e] = state[e] \/ state'[e] = "dead"
    BY <1>6, <1>0 DEF Stop
  <2>3. \A d \in Daemon : Quiet(d)'
    BY <1>0, <2>1, <2>2 DEF Inv, InStep, Quiet, Handling, Alive
  <2> QED
    BY <2>1, <2>3 DEF InStep
<1> QED
  BY <1>1, <1>2, <1>3, <1>4, <1>5, <1>6 DEF ClientStep
LEMMA DaemonInStep ==
  ASSUME Inv, NEW d \in Daemon, Daemons(d), sync'
  PROVE  InStep'
<1>0. /\ state \in [Daemon -> States] /\ work \in [Daemon -> 0..MaxCalls]
      /\ stdin \in [Daemon -> Seq(Call)] /\ stdout \in [Daemon -> Seq(Lines)]
      /\ n \in 0..MaxCalls /\ n \in Nat
  BY DaemonTypes, Numbers, DaemonAssumption
<1>1. UNCHANGED <<pc, running, child>> /\ n' = n /\ sync
  BY DaemonFrame DEF client, Daemons, Boot, BootFails, Take, Perform, Reply, Orphaned, Noise, Die
<1>2. \A e \in Daemon : e # d =>
        state'[e] = state[e] /\ stdin'[e] = stdin[e] /\ stdout'[e] = stdout[e] /\ work'[e] = work[e]
  BY <1>0 DEF Daemons, Boot, BootFails, Take, Perform, Reply, Orphaned, Noise, Die, PrintLine
<1>3. CASE Boot(d) \/ BootFails(d) \/ Noise(d)
  <2>1. state[d] = "booting" /\ d = child /\ UNCHANGED stdin
    BY <1>3 DEF Boot, BootFails, Noise, Inv, TypeOK
  <2>2. ~running /\ pc # "reading"
    BY <1>1, <2>1 DEF Inv, InStep, Owned
  <2>3. state'[d] \in {"booting", "serving", "dead"}
    BY <1>0, <1>3, <2>1 DEF Boot, BootFails, Noise
  <2>4. \A e \in Daemon : Quiet(e)
    BY <1>1, <2>2 DEF Inv, InStep
  <2>5. stdin[d] = <<>>
    BY <2>1, <2>4 DEF Quiet, Alive
  <2>6. \A e \in Daemon : Quiet(e)'
    BY <1>2, <2>1, <2>3, <2>4, <2>5 DEF Quiet, Handling, Alive
  <2>7. ASSUME pc = "starting"
        PROVE  ReadyLast(child)'
    <3>1. stdout[d] # <<>> => Len(stdout[d]) = 1 /\ stdout[d][1].text = "noise"
      BY <1>1, <2>1, <2>7 DEF Inv, InStep, ReadyLast
    <3>2. PICK line \in Lines : stdout'[d] = Append(stdout[d], line)
                                /\ (Noise(d) => stdout[d] = <<>> /\ line.text = "noise")
      <4>1. Line("ready", 0) \in Lines /\ Line("noise", 0) \in Lines /\ Line("already", 0) \in Lines
        BY DaemonAssumption DEF Line, Lines, Text
      <4>2. Line("noise", 0).text = "noise"
        BY DEF Line
      <4>3. CASE Noise(d)
        BY <1>0, <2>1, <4>1, <4>2, <4>3 DEF Noise, PrintLine, Handling
      <4>4. CASE ~Noise(d)
        BY <1>0, <1>3, <4>1, <4>4 DEF Boot, BootFails, PrintLine
      <4> QED
        BY <4>3, <4>4
    <3>3. CASE stdout[d] = <<>>
      <4>1. stdout'[d] = <<line>> /\ Len(<<line>>) = 1 /\ <<line>>[1] = line
        BY <3>2, <3>3
      <4>2. state'[d] = "booting" => line.text = "noise"
        BY <1>0, <1>3, <3>2 DEF Boot, BootFails
      <4> QED
        BY <1>1, <2>1, <4>1, <4>2 DEF ReadyLast
    <3>4. CASE stdout[d] # <<>>
      <4>1. /\ stdout[d] \in Seq(Lines) /\ Len(stdout[d]) = 1 /\ stdout[d][1].text = "noise"
            /\ state'[d] # "booting"
        BY <1>0, <1>3, <3>1, <3>2, <3>4 DEF Boot, BootFails
      <4>2. stdout'[d][1] = stdout[d][1]
        BY <3>2, <4>1, Pushed
      <4> QED
        BY <1>1, <2>1, <4>1, <4>2 DEF ReadyLast
    <3> QED
      BY <3>3, <3>4
  <2> QED
    BY <1>1, <2>2, <2>6, <2>7 DEF InStep
<1>4. CASE Take(d) \/ Perform(d) \/ Reply(d)
  <2>1. ~Quiet(d)
    BY <1>4 DEF Take, Perform, Reply, Quiet, Alive, Handling
  <2>2. pc = "reading" /\ running
    BY <1>1, <2>1 DEF Inv, InStep, Owned
  <2>3. d = child /\ OneThing(d)
    BY <1>1, <2>1, <2>2, OthersQuiet DEF Inv, InStep
  <2>4. state'[d] # "booting"
    BY <1>0, <1>4 DEF Take, Perform, Reply
  <2>5. CASE Take(d)
    <3>1. stdin[d] # <<>> /\ work'[d] = Head(stdin[d]) /\ stdin'[d] = Tail(stdin[d]) /\ UNCHANGED stdout
      BY <1>0, <2>5 DEF Take
    <3>2. stdin'[d] = <<>> /\ work'[d] = n /\ stdout'[d] = <<>>
      BY <1>0, <2>3, <3>1, Pulled DEF OneThing
    <3> QED
      BY <1>1, <2>2, <2>3, <2>4, <3>2 DEF InStep, OneThing
  <2>6. CASE Perform(d)
    <3>1. Handling(d) /\ UNCHANGED <<stdin, stdout, work>>
      BY <2>6 DEF Perform, Handling
    <3> QED
      BY <1>1, <2>2, <2>3, <2>4, <3>1 DEF InStep, OneThing
  <2>7. CASE Reply(d)
    <3>1. work[d] = n /\ stdin[d] = <<>> /\ stdout[d] = <<>>
      BY <2>3, <2>7 DEF Reply, OneThing
    <3>2. PICK text \in {"error", "ok", "blank", "huge"} :
            /\ stdout'[d] = Append(<<>>, Line(text, n)) /\ (text # "error" => state[d] = "acted")
      BY <1>0, <2>7, <3>1 DEF Reply, PrintLine
    <3>3. text # "error" => done[n] = 1
      BY <3>1, <3>2 DEF Inv, Once
    <3>4. stdin'[d] = <<>> /\ state'[d] = "serving" /\ done' = done
      BY <1>0, <2>7, <3>1 DEF Reply
    <3>5. Line(text, n).call = n /\ Line(text, n).text = text
      BY DEF Line
    <3>6. Len(stdout'[d]) = 1 /\ stdout'[d][1] = Line(text, n)
      BY <3>2
    <3>7. OneThing(child)'
      BY <1>1, <2>3, <3>3, <3>4, <3>5, <3>6 DEF OneThing, Tells, Handling
    <3> QED
      BY <1>1, <2>2, <2>3, <2>4, <3>7 DEF InStep
  <2> QED
    BY <1>4, <2>5, <2>6, <2>7
<1>5. CASE Orphaned(d) \/ Die(d)
  <2>1. UNCHANGED <<stdin, stdout, work, done>> /\ \A e \in Daemon : state'[e] = state[e] \/ state'[e] = "dead"
    BY <1>0, <1>5 DEF Orphaned, Die
  <2>2. \A e \in Daemon : /\ Quiet(e) => Quiet(e)'
                          /\ OneThing(e) => OneThing(e)'
                          /\ ReadyLast(e) => ReadyLast(e)'
    BY <1>1, <2>1 DEF Quiet, Handling, Alive, OneThing, Tells, ReadyLast
  <2>3. pc = "starting" \/ running => child \in Daemon
    BY DEF Inv, Owned
  <2>4. pc = "reading" => running
    BY DEF Inv, Owned
  <2> QED
    BY <1>1, <2>1, <2>2, <2>3, <2>4 DEF Inv, InStep
<1> QED
  BY <1>3, <1>4, <1>5 DEF Daemons

LEMMA InStepStep == Inv /\ [Next]_vars => InStep'
<1> SUFFICES ASSUME Inv, [Next]_vars, sync'
             PROVE  InStep'
  BY DEF InStep
<1>1. CASE UNCHANGED vars
  BY <1>1 DEF vars, n, Inv, InStep, Quiet, Handling, Alive, OneThing, Tells, ReadyLast
<1> QED
  BY <1>1, BeginInStep, ClientInStep, DaemonInStep DEF Next, Serve, Daemons
----------------------------------------------------------------------------
(* A failed call ends all.                                                     *)

Broken == \E r \in Call : result[r] = "broken"

LEMMA EndedStep == Inv /\ [Next]_vars => Ended' /\ DeadForGood'
<1> SUFFICES ASSUME Inv, [Next]_vars
             PROVE  Ended' /\ DeadForGood'
  OBVIOUS
<1>0. /\ state \in [Daemon -> States] /\ done \in [Call -> Nat]
      /\ result \in [Call -> {"none", "ok", "error", "cut", "broken", "unsent"}]
      /\ n \in 0..MaxCalls /\ n \in Nat /\ (pc \in Active => n \in Call)
  BY DaemonTypes, Numbers, DaemonAssumption
<1>1. Broken => /\ pc \in {"idle", "writing", "exited"} /\ \A d \in Daemon : Quiet(d)
                /\ pc # "exited" => running /\ state[child] = "dead"
  BY DEF Inv, Ended, Broken
<1>2. CASE UNCHANGED vars
  BY <1>2 DEF vars, Inv, Ended, DeadForGood, Quiet, Handling, Alive
<1>3. ASSUME NEW k \in Kind, CallRunning(k) \/ StartFails(k) \/ Launch(k)
      PROVE  Ended' /\ DeadForGood'
  <2>1. n' = n + 1 /\ n + 1 \in Call /\ pc = "idle" /\ UNCHANGED <<running, stdin, done>>
    BY <1>3, Counted DEF CallRunning, StartFails, Launch, Begin
  <2>2. CASE CallRunning(k)
    <3>1. UNCHANGED <<result, child, state>> /\ pc' = "writing"
      BY <2>2 DEF CallRunning
    <3> QED
      BY <1>1, <2>1, <3>1 DEF Broken, Inv, Ended, DeadForGood, Quiet, Handling, Alive
  <2>3. CASE StartFails(k) \/ Launch(k)
    <3>1. ~running /\ (UNCHANGED result \/ result' = [result EXCEPT ![n + 1] = "unsent"])
      BY <2>3 DEF StartFails, Launch, Returned
    <3>2. \A r \in Call : result'[r] # "broken"
      BY <1>0, <1>1, <2>1, <3>1 DEF Broken
    <3> QED
      BY <3>2 DEF Ended, DeadForGood
  <2> QED
    BY <1>3, <2>2, <2>3
<1>4. CASE ReadReady \/ NotReady \/ Write \/ ReadReply \/ ReadScalar
  <2>1. ~Broken
    <3>1. pc \in {"starting", "reading"} \/ (pc = "writing" /\ Alive(child))
      BY <1>4 DEF ReadReady, NotReady, Write, ReadReply, ReadScalar
    <3> QED
      BY <1>1, <3>1 DEF Alive, Handling
  <2>2. UNCHANGED result \/ \E a \in {"unsent", "cut", "ok", "error"} : result' = [result EXCEPT ![n] = a]
    BY <1>4 DEF ReadReady, NotReady, Write, ReadReply, ReadScalar, Returned, Answer
  <2>3. \A r \in Call : result'[r] # "broken"
    BY <1>0, <2>1, <2>2 DEF Broken
  <2> QED
    BY <2>3 DEF Ended, DeadForGood
<1>5. CASE WriteFails \/ ReadEof
  <2>1. /\ pc \in {"writing", "reading"} /\ pc' = "idle" /\ result' = [result EXCEPT ![n] = "broken"]
        /\ UNCHANGED <<running, child, state, stdin, done>> /\ n' = n
    BY <1>5, ClientFrame DEF ClientStep, WriteFails, ReadEof, Returned, daemons
  <2>2. running /\ child \in Daemon /\ state[child] # "unborn" /\ n \in Call
    BY <1>0, <2>1 DEF Inv, Owned, Active
  <2>3. ~Alive(child)
    BY <1>5 DEF WriteFails, ReadEof, LastLineRead, Alive, Handling
  <2>4. state[child] = "dead" /\ Quiet(child)
    BY <1>0, <2>2, <2>3 DEF Alive, Handling, States, Quiet
  <2>5. \A d \in Daemon : Quiet(d)
    BY <2>2, <2>4, OthersQuiet
  <2>6. Ended'
    BY <2>1, <2>2, <2>4, <2>5 DEF Ended, Quiet, Handling, Alive
  <2>7. \A r \in Call : r > n => result'[r] = "none" /\ done'[r] = 0
    BY <1>0, <2>1, <2>2 DEF Inv, Asked
  <2>8. result'[n] = "broken" /\ \A r \in Call : r # n => result'[r] = result[r]
    BY <1>0, <2>1, <2>2
  <2>9. Broken => done[n] = 0
    <3>1. Broken => pc = "writing"
      BY <1>1, <2>1
    <3> QED
      BY <3>1 DEF Inv, Asked
  <2>10. DeadForGood'
    <3> SUFFICES ASSUME NEW r \in Call, NEW s \in Call, result'[r] = "broken", r < s
                 PROVE  result'[s] \in {"none", "broken"} /\ done'[s] = 0
      BY DEF DeadForGood
    <3>1. r \in Nat /\ s \in Nat
      BY DaemonAssumption DEF Call
    <3>2. CASE s > n
      BY <2>7, <3>2
    <3>3. CASE s <= n
      <4>1. r # n /\ result[r] = "broken"
        BY <1>0, <2>8, <3>1, <3>3
      <4>2. result[s] \in {"none", "broken"} /\ done[s] = 0
        BY <4>1 DEF Inv, DeadForGood
      <4> QED
        BY <2>1, <2>8, <4>2
    <3> QED
      BY <1>0, <3>1, <3>2, <3>3
  <2> QED
    BY <2>6, <2>10
<1>6. CASE KilledByPipe \/ Stop
  <2>1. pc' = "exited" /\ UNCHANGED <<result, stdin, done>>
    BY <1>6 DEF KilledByPipe, Stop, daemons
  <2>2. \A d \in Daemon : state'[d] = state[d] \/ state'[d] = "dead"
    BY <1>0, <1>6 DEF KilledByPipe, Stop, daemons
  <2> QED
    BY <1>1, <2>1, <2>2 DEF Broken, Inv, Ended, DeadForGood, Quiet, Handling, Alive
<1>7. ASSUME NEW d \in Daemon, Daemons(d)
      PROVE  Ended' /\ DeadForGood'
  <2>1. UNCHANGED <<pc, result, running, child>>
    BY <1>7, DaemonFrame DEF client
  <2>2. CASE ~Broken
    BY <2>1, <2>2 DEF Broken, Ended, DeadForGood
  <2>3. CASE Broken
    <3>1. Quiet(d) /\ state[d] # "unborn"
      BY <1>1, <1>7, <2>3 DEF Daemons, Boot, BootFails, Take, Perform, Reply, Orphaned, Noise, Die,
                              Alive, Handling
    <3>2. ~(Take(d) \/ Perform(d) \/ Reply(d))
      BY <3>1 DEF Take, Perform, Reply, Quiet, Alive, Handling
    <3>3. UNCHANGED <<stdin, done>> /\ \A e \in Daemon : e # d => state'[e] = state[e]
      BY <1>0, <1>7, <3>2 DEF Daemons, Boot, BootFails, Orphaned, Noise, Die
    <3>4. state'[d] = "dead" \/ state'[d] = state[d] \/ (state[d] = "booting" /\ state'[d] = "serving")
      BY <1>0, <1>7, <3>2 DEF Daemons, Boot, BootFails, Orphaned, Noise, Die
    <3>5. \A e \in Daemon : Quiet(e)'
      BY <1>1, <2>3, <3>1, <3>3, <3>4 DEF Quiet, Alive, Handling
    <3>6. pc # "exited" => state'[child] = "dead"
      <4>1. pc # "exited" => child \in Daemon /\ state[child] = "dead"
        BY <1>1, <2>3 DEF Inv, Owned
      <4> QED
        BY <3>3, <3>4, <4>1
    <3> QED
      BY <1>1, <2>1, <2>3, <3>3, <3>5, <3>6 DEF Ended, DeadForGood, Inv
  <2> QED
    BY <2>2, <2>3
<1> QED
  BY <1>2, <1>3, <1>4, <1>5, <1>6, <1>7 DEF Next, ClientStep, Serve, Daemons
----------------------------------------------------------------------------
(* The invariant, and what it says of the runs' properties.                    *)

LEMMA Start == Init => Inv
<1> SUFFICES ASSUME Init
             PROVE  Inv
  OBVIOUS
<1>1. n = 0 /\ kind \in Seq(Kind)
  BY DEF Init, n
<1>2. TypeOK
  <2>1. \A d \in Daemon : open[d] = FALSE
    BY DEF Init
  <2>2. 0 \in 0..MaxCalls /\ n <= MaxCalls
    BY <1>1, DaemonAssumption
  <2>3. /\ result \in [Call -> {"none", "ok", "error", "cut", "broken", "unsent"}]
        /\ state \in [Daemon -> {"unborn", "booting", "serving", "busy", "acted", "dead"}]
        /\ work \in [Daemon -> 0..MaxCalls] /\ done \in [Call -> Nat]
    BY <2>2 DEF Init
  <2>4. /\ stdin \in [Daemon -> Seq(Call)]
        /\ stdout \in [Daemon -> Seq([text : Text, call : 0..MaxCalls])]
        /\ open \in [Daemon -> BOOLEAN]
    BY DEF Init
  <2>5. pc = "idle" /\ running \in BOOLEAN /\ child = NoDaemon /\ sync \in BOOLEAN
    BY DEF Init
  <2> QED
    BY <1>1, <2>1, <2>2, <2>3, <2>4, <2>5 DEF TypeOK
<1>3. Asked
  BY <1>1 DEF Init, Asked, Active
<1>4. Owned
  BY DEF Init, Owned, HasWork, NoDaemon, Daemon
<1>5. Once
  BY DEF Init, Once, Handling
<1>6. InStep
  BY DEF Init, InStep, Quiet, Handling, Alive
<1>7. Ended /\ DeadForGood
  BY DEF Init, Ended, DeadForGood
<1> QED
  BY <1>2, <1>3, <1>4, <1>5, <1>6, <1>7 DEF Inv

LEMMA Invariant == Spec => []Inv
<1>1. Inv /\ [Next]_vars => Inv'
  BY TypeStep, AskedStep, OwnedStep, OnceStep, InStepStep, EndedStep DEF Inv
<1> QED
  BY <1>1, Start, PTL DEF Spec

(* The types, and that the client holds one daemon's pipes at most.            *)
THEOREM TypeCorrect == Spec => []TypeOK
<1>1. Inv => TypeOK
  BY DEF Inv
<1> QED
  BY <1>1, Invariant, PTL

(* After a call failed for want of a daemon, each later one fails too and none *)
(* is performed: PolyDaemonClient::start believes running_, which only a       *)
(* failed start and stop clear.                                                *)
THEOREM DeadForGoodCorrect == Spec => []DeadForGood
<1>1. Inv => DeadForGood
  BY DEF Inv
<1> QED
  BY <1>1, Invariant, PTL

----------------------------------------------------------------------------
(* The calls LiveExecutor makes keep the promises of OrderCalls.               *)

LEMMA NoneUnderWay == Inv /\ pc = "idle" => \A r \in Call : ~Calls!UnderWay(r)
BY DaemonAssumption DEF Inv, Asked, Calls!UnderWay, Call

LEMMA ClientRefines ==
  ASSUME Inv, ClientStep \/ Stop
  PROVE  [Calls!Next]_(Calls!calls)
<1>0. /\ n' = n /\ UNCHANGED done /\ sync \in BOOLEAN
      /\ pc \in Active => n \in Call /\ result[n] = "none"
  BY ClientFrame, Numbers DEF Inv, TypeOK, Asked
<1>1. ASSUME NEW a \in {"unsent", "broken", "ok", "error", "cut"}, pc \in Active, Returned(n, a),
             a = "unsent" => done[n] = 0, a = "ok" => done[n] = 1 \/ ~sync,
             sync' = (sync /\ a # "cut")
      PROVE  Calls!Next
  <2>1. Calls!Return(n, a)
    BY <1>0, <1>1 DEF Returned, Calls!Return, Calls!UnderWay
  <2> QED
    BY <1>0, <1>1, <2>1 DEF Calls!Next, Calls!Result, Calls!Call, Call
<1>2. CASE UNCHANGED <<result, sync>>
  BY <1>0, <1>2 DEF Calls!calls
<1>3. CASE (ReadReady \/ NotReady) /\ Returned(n, "unsent")
  <2>1. pc = "starting" /\ UNCHANGED sync
    BY <1>3 DEF ReadReady, NotReady
  <2>2. done[n] = 0
    BY <2>1 DEF Inv, Asked
  <2> QED
    BY <1>0, <1>1, <1>3, <2>1, <2>2 DEF Active
<1>4. CASE WriteFails \/ ReadEof
  BY <1>0, <1>1, <1>4 DEF WriteFails, ReadEof, Active
<1>5. CASE ReadReply
  <2> DEFINE line == Head(stdout[child])
  <2>1. pc = "reading" /\ Returned(n, Answer(line)) /\ sync' = (sync /\ line.text # "huge")
    BY <1>5 DEF ReadReply
  <2>2. Answer(line) \in {"ok", "error", "cut"} /\ (Answer(line) = "cut" <=> line.text = "huge")
    BY DEF Answer
  <2>3. ASSUME Answer(line) = "ok", sync
        PROVE  done[n] = 1
    <3>1. child \in Daemon /\ OneThing(child) /\ stdout[child] # <<>>
      BY <1>5, <2>1, <2>3 DEF ReadReply, Inv, InStep, Owned
    <3>2. line = stdout[child][1] /\ Tells(line)
      BY <3>1, DaemonTypes, Pulled DEF OneThing
    <3>3. line.text # "error"
      <4>1. Accepted(line)
        BY <2>3 DEF Answer
      <4>2. n \in 1..Len(kind) /\ kind \in Seq(Kind)
        BY <1>0, <2>1 DEF Inv, TypeOK, Active, Call, n
      <4>3. kind[n] \in {"place_order", "balance", "get_order", "garch"}
        <5>1. kind[n] \in Kind
          BY <4>2
        <5> QED
          BY <5>1, DaemonAssumption
      <4> QED
        BY <4>1, <4>3 DEF Accepted, SubmitTakes, BalanceTakes, OrderTakes, SigmaTakes, QueryTakes
    <3> QED
      BY <3>2, <3>3 DEF Tells
  <2> HIDE DEF line
  <2>4. Answer(line) # "unsent" /\ Answer(line) \in {"unsent", "broken", "ok", "error", "cut"}
    BY <2>2
  <2>5. sync' = (sync /\ Answer(line) # "cut")
    BY <2>1, <2>2
  <2> QED
    BY <1>1, <2>1, <2>3, <2>4, <2>5 DEF Active
<1> QED
  BY <1>2, <1>3, <1>4, <1>5 DEF ClientStep, Stop, ReadReady, NotReady, Write, KilledByPipe, ReadScalar

LEMMA DaemonRefines ==
  ASSUME Inv, NEW d \in Daemon, Daemons(d)
  PROVE  [Calls!Next]_(Calls!calls)
<1>0. n' = n /\ UNCHANGED <<pc, result>> /\ n \in 0..MaxCalls
  BY DaemonFrame, Numbers DEF client
<1>1. CASE UNCHANGED <<done, sync>>
  BY <1>0, <1>1 DEF Calls!calls
<1>2. CASE Noise(d)
  <2>1. UNCHANGED done /\ (sync' = FALSE \/ sync' = TRUE) /\ sync
    BY <1>2 DEF Noise
  <2>2. CASE sync' = FALSE
    BY <1>0, <2>1, <2>2 DEF Calls!Next, Calls!LoseSync
  <2>3. CASE sync' = TRUE
    BY <1>0, <2>1, <2>3 DEF Calls!calls, Inv, TypeOK
  <2> QED
    BY <2>1, <2>2, <2>3
<1>3. CASE Perform(d)
  <2> DEFINE r == work[d]
  <2>1. r \in 1..n /\ r \in Call /\ Waits(r) /\ UNCHANGED sync
    BY <1>0, <1>3, DaemonAssumption DEF Perform, Inv, Once, Waits, Call
  <2>2. ASSUME sync
        PROVE  r = n /\ result[n] = "none"
    <3>1. Handling(d) /\ ~Quiet(d)
      BY <1>3 DEF Perform, Handling, Quiet
    <3>2. pc = "reading" /\ running
      BY <2>2, <3>1 DEF Inv, InStep, Owned
    <3>3. d = child /\ OneThing(d)
      BY <2>2, <3>1, <3>2, OthersQuiet DEF Inv, InStep
    <3> QED
      BY <3>1, <3>2, <3>3 DEF OneThing, Inv, Asked, Active
  <2>3. done' = [done EXCEPT ![r] = 1]
    BY <1>3, <2>1, DaemonTypes DEF Perform, Waits
  <2>4. Calls!UnderWay(r) \/ (~sync /\ r <= n)
    BY <2>1, <2>2, <1>0 DEF Calls!UnderWay
  <2>5. Calls!Perform(r)
    BY <1>0, <2>1, <2>3, <2>4 DEF Calls!Perform, Waits
  <2> QED
    BY <2>1, <2>5 DEF Calls!Next, Calls!Call, Call
<1> QED
  BY <1>1, <1>2, <1>3 DEF Daemons, Boot, BootFails, Take, Reply, Orphaned, Die

LEMMA StepRefines == Inv /\ [Next]_vars => [Calls!Next]_(Calls!calls)
<1> SUFFICES ASSUME Inv, [Next]_vars
             PROVE  [Calls!Next]_(Calls!calls)
  OBVIOUS
<1>1. CASE UNCHANGED vars
  BY <1>1 DEF vars, n, Calls!calls
<1>2. ASSUME NEW k \in Kind, CallRunning(k) \/ StartFails(k) \/ Launch(k)
      PROVE  Calls!Next
  <2>1. n' = n + 1 /\ n < MaxCalls /\ pc = "idle" /\ UNCHANGED <<done, sync>>
    BY <1>2, Counted DEF CallRunning, StartFails, Launch, Begin
  <2>2. \A r \in Call : ~Calls!UnderWay(r)
    BY <2>1, NoneUnderWay
  <2>3. CASE UNCHANGED result
    BY <2>1, <2>2, <2>3 DEF Calls!Next, Calls!Ask, Calls!Call, Call
  <2>4. CASE StartFails(k)
    <3>1. result' = [result EXCEPT ![n + 1] = "unsent"]
      BY <2>4 DEF StartFails, Returned
    <3> QED
      BY <2>1, <2>2, <3>1 DEF Calls!Next, Calls!Refuse, Calls!Call, Call
  <2> QED
    BY <1>2, <2>3, <2>4 DEF CallRunning, Launch
<1> QED
  BY <1>1, <1>2, ClientRefines, DaemonRefines DEF Next, Serve, Daemons

(* Whatever dies and whenever: an order is performed at most once and within   *)
(* its call, one that says ok was performed, one that was not sent never is,   *)
(* until a reply is cut or something else is printed among the replies.        *)
THEOREM OrderCallsCorrect == Spec => ImplementsOrderCalls
<1>1. Init => Calls!Init
  BY DEF Init, n, Calls!Init, Calls!Call, Call
<1>2. Spec => [][Calls!Next]_(Calls!calls)
  BY Invariant, StepRefines, PTL DEF Spec
<1> QED
  BY <1>1, <1>2, PTL DEF Spec, ImplementsOrderCalls, Calls!Spec
----------------------------------------------------------------------------
(* The client never waits for a line nobody will print.                        *)

(* A daemon that has not booted has printed nothing that could be taken for    *)
(* its ready line, so the one the client believes in has; and the client holds *)
(* the pipes of the daemon it talks to.                                        *)
OnlyNoise(d) == \A i \in 1..Len(stdout[d]) : stdout[d][i].text = "noise"
Talking ==
  /\ \A d \in Daemon : state[d] = "booting" => OnlyNoise(d)
  /\ running /\ pc # "exited" => state[child] # "booting" /\ open[child]

LEMMA BeginTalking ==
  ASSUME Inv, Talking, SomethingComes,
         NEW k \in Kind, CallRunning(k) \/ StartFails(k) \/ Launch(k)
  PROVE  Talking' /\ SomethingComes'
<1>0. pc = "idle" /\ UNCHANGED <<running, stdin, stdout>>
  BY DEF CallRunning, StartFails, Launch, Begin
<1>1. CASE CallRunning(k)
  <2>1. running /\ pc' = "writing" /\ UNCHANGED <<child, state, open>>
    BY <1>1 DEF CallRunning
  <2>2. open[child]
    BY <1>0, <2>1 DEF Talking, SomethingComes
  <2> QED
    BY <1>0, <2>1, <2>2 DEF Talking, OnlyNoise, SomethingComes
<1>2. CASE StartFails(k)
  BY <1>0, <1>2 DEF StartFails, Returned, Talking, OnlyNoise, SomethingComes
<1>3. CASE Launch(k)
  <2>1. PICK d \in Daemon : /\ state[d] = "unborn" /\ child' = d /\ pc' = "starting" /\ ~running
                            /\ state' = [state EXCEPT ![d] = "booting"]
                            /\ open' = [open EXCEPT ![d] = TRUE]
    BY <1>3 DEF Launch, Unused
  <2>2. stdout[d] = <<>>
    BY <2>1 DEF Inv, Owned
  <2>3. OnlyNoise(d)
    BY <2>2 DEF OnlyNoise
  <2> QED
    BY <1>0, <2>1, <2>3, DaemonTypes DEF Talking, OnlyNoise, SomethingComes
<1> QED
  BY <1>1, <1>2, <1>3

LEMMA ClientTalking ==
  ASSUME Inv, Talking, SomethingComes, ClientStep \/ Stop
  PROVE  Talking' /\ SomethingComes'
<1>0. state \in [Daemon -> States] /\ open \in [Daemon -> BOOLEAN] /\ stdout \in [Daemon -> Seq(Lines)]
  BY DaemonTypes
<1>1. CASE ReadReady
  <2>1. /\ pc = "starting" /\ child \in Daemon /\ open[child] /\ stdout[child] # <<>>
        /\ stdout' = [stdout EXCEPT ![child] = Tail(stdout[child])]
        /\ UNCHANGED <<state, stdin>>
    BY <1>1 DEF ReadReady, Inv, Owned, SomethingComes
  <2>2. /\ Len(stdout[child]) \in Nat \ {0} /\ Len(Tail(stdout[child])) = Len(stdout[child]) - 1
        /\ \A i \in 1..Len(Tail(stdout[child])) : Tail(stdout[child])[i] = stdout[child][i + 1]
        /\ Head(stdout[child]) = stdout[child][1]
    BY <1>0, <2>1, Pulled
  <2>3. state[child] = "booting" => /\ \A i \in 1..Len(Tail(stdout[child])) : Tail(stdout[child])[i].text = "noise"
                                    /\ ~TakenForReady(Head(stdout[child]))
    BY <2>1, <2>2 DEF Talking, OnlyNoise, TakenForReady
  <2>4. \A d \in Daemon : state'[d] = "booting" => OnlyNoise(d)'
    BY <1>0, <2>1, <2>3 DEF Talking, OnlyNoise
  <2>5. CASE TakenForReady(Head(stdout[child]))
    <3>1. running' = TRUE /\ pc' = "writing" /\ UNCHANGED <<child, open>>
      BY <1>1, <2>5 DEF ReadReady
    <3> QED
      BY <2>1, <2>3, <2>4, <2>5, <3>1 DEF Talking, SomethingComes
  <2>6. CASE ~TakenForReady(Head(stdout[child]))
    <3>1. pc' = "idle" /\ running' = FALSE
      BY <1>1, <2>1, <2>6 DEF ReadReady, Returned, Inv, Owned, TypeOK
    <3> QED
      BY <2>4, <3>1 DEF Talking, SomethingComes
  <2> QED
    BY <2>5, <2>6
<1>2. CASE NotReady
  <2>1. pc' = "idle" /\ running' = FALSE /\ UNCHANGED <<state, stdout>>
    BY <1>2 DEF NotReady, Returned, daemons, Inv, Owned, TypeOK
  <2> QED
    BY <2>1 DEF Talking, OnlyNoise, SomethingComes
<1>3. CASE Write
  <2>1. /\ pc = "writing" /\ pc' = "reading" /\ Alive(child) /\ running /\ child \in Daemon /\ open[child]
        /\ UNCHANGED <<running, child, state, stdout, open>>
        /\ stdin' = [stdin EXCEPT ![child] = Append(stdin[child], n)]
    BY <1>3 DEF Write, Inv, Owned, SomethingComes
  <2>2. state[child] = "serving" \/ Handling(child)
    BY <2>1 DEF Talking, Alive
  <2>3. stdin'[child] # <<>>
    <3>1. stdin \in [Daemon -> Seq(Call)] /\ n \in Call
      BY <2>1, DaemonTypes, Numbers DEF Active
    <3>2. Append(stdin[child], n) # <<>>
      BY <2>1, <3>1, Pushed
    <3> QED
      BY <2>1, <3>1, <3>2
  <2> QED
    BY <2>1, <2>2, <2>3 DEF Talking, OnlyNoise, SomethingComes, Handling
<1>4. CASE WriteFails \/ ReadEof
  <2>1. pc' = "idle" /\ UNCHANGED <<running, child, state, stdout, open>> /\ pc # "exited"
    BY <1>4 DEF WriteFails, ReadEof, Returned, daemons
  <2> QED
    BY <2>1 DEF Talking, OnlyNoise, SomethingComes
<1>5. CASE KilledByPipe \/ ReadScalar
  <2>1. pc' = "exited" /\ UNCHANGED <<state, stdout>>
    BY <1>5 DEF KilledByPipe, ReadScalar, daemons
  <2> QED
    BY <2>1 DEF Talking, OnlyNoise, SomethingComes
<1>6. CASE ReadReply
  <2>1. /\ pc = "reading" /\ pc' = "idle" /\ running /\ child \in Daemon
        /\ UNCHANGED <<running, child, state, open>>
        /\ \A d \in Daemon : d # child => stdout'[d] = stdout[d]
    BY <1>0, <1>6 DEF ReadReply, Returned, Inv, Owned
  <2>2. state[child] # "booting"
    BY <2>1 DEF Talking
  <2> QED
    BY <2>1, <2>2 DEF Talking, OnlyNoise, SomethingComes
<1>7. CASE Stop
  <2>1. /\ pc' = "exited" /\ UNCHANGED stdout
        /\ \A d \in Daemon : state'[d] = state[d] \/ state'[d] = "dead"
    BY <1>0, <1>7 DEF Stop
  <2> QED
    BY <2>1 DEF Talking, OnlyNoise, SomethingComes
<1> QED
  BY <1>1, <1>2, <1>3, <1>4, <1>5, <1>6, <1>7 DEF ClientStep

LEMMA DaemonTalking ==
  ASSUME Inv, Talking, SomethingComes, NEW d \in Daemon, Daemons(d)
  PROVE  Talking' /\ SomethingComes'
<1>0. /\ state \in [Daemon -> States] /\ stdout \in [Daemon -> Seq(Lines)] /\ stdin \in [Daemon -> Seq(Call)]
      /\ UNCHANGED <<pc, running, child, open>> /\ (pc \in Active \/ running => child \in Daemon)
  BY DaemonTypes, DaemonFrame DEF client, Inv, Owned, Active
<1>1. ASSUME NEW line \in Lines, PrintLine(d, line)
      PROVE  /\ stdout'[d] # <<>> /\ \A e \in Daemon : e # d => stdout'[e] = stdout[e]
             /\ OnlyNoise(d) /\ line.text = "noise" => OnlyNoise(d)'
  <2>1. stdout'[d] = Append(stdout[d], line) /\ \A e \in Daemon : e # d => stdout'[e] = stdout[e]
    BY <1>0, <1>1 DEF PrintLine
  <2>2. /\ Append(stdout[d], line) # <<>>
        /\ Len(Append(stdout[d], line)) = Len(stdout[d]) + 1 /\ Len(stdout[d]) \in Nat
        /\ \A i \in 1..Len(stdout[d]) : Append(stdout[d], line)[i] = stdout[d][i]
        /\ Append(stdout[d], line)[Len(stdout[d]) + 1] = line
    BY <1>0, Pushed
  <2> QED
    BY <2>1, <2>2 DEF OnlyNoise
<1>2. CASE Boot(d) \/ BootFails(d) \/ Reply(d)
  <2>1. PICK text \in Text, r \in {0, work[d]} : PrintLine(d, Line(text, r))
    BY <1>2 DEF Boot, BootFails, Reply, Text
  <2>2. Line(text, r) \in Lines
    BY <2>1, DaemonTypes, DaemonAssumption DEF Line, Lines
  <2>3. /\ stdout'[d] # <<>> /\ \A e \in Daemon : e # d => stdout'[e] = stdout[e]
        /\ state'[d] \in {"serving", "dead"} /\ \A e \in Daemon : e # d => state'[e] = state[e]
        /\ UNCHANGED stdin
    BY <1>0, <1>1, <1>2, <2>1, <2>2 DEF Boot, BootFails, Reply
  <2>4. Talking'
    <3>1. ASSUME NEW e \in Daemon, state'[e] = "booting"
          PROVE  OnlyNoise(e)'
      <4>1. e # d /\ state[e] = "booting" /\ stdout'[e] = stdout[e]
        BY <2>3, <3>1
      <4> QED
        BY <4>1 DEF Talking, OnlyNoise
    <3>2. running /\ pc # "exited" => state'[child] # "booting" /\ open[child]
      BY <1>0, <2>3 DEF Talking
    <3> QED
      BY <1>0, <3>1, <3>2 DEF Talking
  <2>5. SomethingComes'
    BY <1>0, <2>3 DEF SomethingComes, Handling, Active
  <2> QED
    BY <2>4, <2>5
<1>3. CASE Noise(d)
  <2>1. PrintLine(d, Line("noise", 0)) /\ UNCHANGED <<state, stdin>>
    BY <1>3 DEF Noise
  <2>2. Line("noise", 0) \in Lines /\ Line("noise", 0).text = "noise"
    BY DaemonAssumption DEF Line, Lines, Text
  <2>3. /\ stdout'[d] # <<>> /\ \A e \in Daemon : e # d => stdout'[e] = stdout[e]
        /\ OnlyNoise(d) => OnlyNoise(d)'
    BY <1>1, <2>1, <2>2
  <2>4. Talking'
    BY <1>0, <2>1, <2>3 DEF Talking, OnlyNoise
  <2>5. SomethingComes'
    BY <1>0, <2>1, <2>3 DEF SomethingComes, Handling, Active
  <2> QED
    BY <2>4, <2>5
<1>4. CASE Take(d)
  <2>1. /\ state'[d] = "busy" /\ UNCHANGED stdout
        /\ \A e \in Daemon : e # d => state'[e] = state[e] /\ stdin'[e] = stdin[e]
    BY <1>0, <1>4 DEF Take
  <2>2. state[d] = "serving"
    BY <1>4 DEF Take
  <2> QED
    BY <1>0, <2>1, <2>2 DEF Talking, OnlyNoise, SomethingComes, Handling, Active
<1>5. CASE Perform(d) \/ Orphaned(d) \/ Die(d)
  <2>1. /\ UNCHANGED <<stdin, stdout>> /\ \A e \in Daemon : e # d => state'[e] = state[e]
        /\ state'[d] = "dead" \/ (state[d] = "busy" /\ state'[d] = "acted")
    BY <1>0, <1>5 DEF Perform, Orphaned, Die
  <2> QED
    BY <1>0, <2>1 DEF Talking, OnlyNoise, SomethingComes, Handling, Active
<1> QED
  BY <1>2, <1>3, <1>4, <1>5 DEF Daemons

(* PolyDaemonClient::request blocks in a read with no time limit, yet whatever *)
(* dies and whatever is printed between the replies, the line it reads for is  *)
(* there, or will be unless the daemon hangs, or the pipe is at its end.       *)
THEOREM SomethingComesCorrect == Spec => []SomethingComes
<1>1. Init => Talking /\ SomethingComes
  BY DEF Init, Talking, SomethingComes
<1>2. Inv /\ Talking /\ SomethingComes /\ [Next]_vars => Talking' /\ SomethingComes'
  <2> SUFFICES ASSUME Inv, Talking, SomethingComes, [Next]_vars
               PROVE  Talking' /\ SomethingComes'
    OBVIOUS
  <2>1. CASE UNCHANGED vars
    BY <2>1 DEF vars, Talking, OnlyNoise, SomethingComes, Handling
  <2> QED
    BY <2>1, BeginTalking, ClientTalking, DaemonTalking DEF Next, Serve, Daemons
<1> QED
  BY <1>1, <1>2, Invariant, PTL DEF Spec
=============================================================================
