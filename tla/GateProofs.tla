----------------------------- MODULE GateProofs -----------------------------
(***************************************************************************)
(* Proofs about a gate: the count of its players (module GateShutdown) for *)
(* every finite set of sessions, the order of their messages (FrontEnd)    *)
(* for any number of workers and any capacity of the queues, and the life  *)
(* of the process (Launcher), of which the two are parts.                  *)
(***************************************************************************)
EXTENDS Launcher, QueueLemmas, FiniteSetTheorems, TLAPS

(* Before CheckClose the WaitGroup is untouched. *)
BeforeClose == /\ serve = "up" <=> ~isCloseServer
               /\ serve = "up" => wg = 0 /\ atClose = {}

(* While one of the sessions that were there at CheckClose is still in, the
   one Add of CheckClose has not been taken back, and Serve is not past Wait.
   This is what makes PlayersServed inductive. *)
StillOwed ==
    (\E s \in atClose : sess[s] = "in") => wg = 1 /\ serve # "waited"

(* Nobody comes back. *)
NoReturn == \A s \in atClose : sess[s] # "out"

GateInv == TypeOK /\ CountExact /\ BeforeClose /\ StillOwed /\ NoReturn

LEMMA ClientsFinite ==
  ASSUME TypeOK
  PROVE  IsFiniteSet(clients) /\ Cardinality(clients) \in Nat
  BY SessionsAssumption, FS_Subset, FS_CardinalityType DEF TypeOK

(* Nobody is in when the count is not positive. *)
LEMMA EmptyGate ==
  ASSUME GateInv, acceptNum <= 0
  PROVE  \A s \in Sessions : sess[s] # "in"
  <1>1. IsFiniteSet(clients) /\ Cardinality(clients) = 0
    BY ClientsFinite DEF GateInv, CountExact
  <1>2. clients = {}
    BY <1>1, FS_EmptySet
  <1> QED BY <1>2 DEF GateInv, CountExact

LEMMA InitGate == Init => GateInv
  <1> SUFFICES ASSUME Init PROVE GateInv
    OBVIOUS
  <1>1. CountExact
    BY FS_EmptySet DEF Init, CountExact
  <1>2. TypeOK
    <2>1. sess \in [Sessions -> {"out", "in", "dropping", "gone"}]
      BY DEF Init
    <2>2. isCloseServer \in BOOLEAN
      BY DEF Init
    <2>3. acceptNum \in Int /\ wg \in Int /\ wg <= 1
      BY DEF Init
    <2> QED BY <2>1, <2>2, <2>3 DEF Init, TypeOK
  <1>3. BeforeClose /\ StillOwed /\ NoReturn
    BY DEF Init, BeforeClose, StillOwed, NoReturn
  <1> QED BY <1>1, <1>2, <1>3 DEF GateInv

LEMMA ConnectGate ==
  ASSUME GateInv, NEW s \in Sessions, OnConnected(s)
  PROVE  GateInv'
  <1> USE DEF GateInv, OnConnected
  <1>1. TypeOK'
    BY DEF TypeOK
  <1>2. s \notin clients /\ clients' = clients \cup {s}
    BY DEF CountExact
  <1>3. acceptNum' = Cardinality(clients')
    BY <1>2, ClientsFinite, FS_AddElement DEF CountExact
  <1>4. CountExact'
    BY <1>3 DEF CountExact, TypeOK
  <1>5. BeforeClose' /\ StillOwed' /\ NoReturn'
    BY DEF BeforeClose, StillOwed, NoReturn, TypeOK
  <1> QED BY <1>1, <1>4, <1>5

LEMMA DropGate ==
  ASSUME GateInv, NEW s \in Sessions, OnDropped(s)
  PROVE  GateInv'
  <1> USE DEF GateInv, OnDropped
  <1>1. TypeOK'
    BY DEF TypeOK
  <1>2. s \in clients /\ clients' = clients \ {s}
    BY DEF CountExact
  <1>3. acceptNum' = Cardinality(clients')
    BY <1>2, ClientsFinite, FS_RemoveElement DEF CountExact
  <1>4. CountExact'
    BY <1>3 DEF CountExact, TypeOK
  <1>5. BeforeClose' /\ StillOwed' /\ NoReturn'
    BY DEF BeforeClose, StillOwed, NoReturn, TypeOK
  <1> QED BY <1>1, <1>4, <1>5

LEMMA DeferredGate ==
  ASSUME GateInv, NEW s \in Sessions, OnDroppedDeferred(s)
  PROVE  GateInv'
  <1> USE DEF GateInv, OnDroppedDeferred
  <1>1. TypeOK'
    BY DEF TypeOK, WgDone
  <1>2. CountExact' /\ NoReturn'
    BY DEF CountExact, NoReturn, TypeOK
  <1>3. CASE LastOut
    <2>1. \A x \in Sessions : sess[x] # "in"
      BY <1>3, EmptyGate DEF LastOut
    <2>2. BeforeClose' /\ StillOwed'
      BY <1>3, <2>1 DEF LastOut, WgDone, BeforeClose, StillOwed, TypeOK
    <2> QED BY <1>1, <1>2, <2>2
  <1>4. CASE ~LastOut
    <2>1. BeforeClose' /\ StillOwed'
      BY <1>4 DEF BeforeClose, StillOwed, TypeOK
    <2> QED BY <1>1, <1>2, <2>1
  <1> QED BY <1>3, <1>4

LEMMA CheckCloseGate ==
  ASSUME GateInv, CheckClose
  PROVE  GateInv'
  <1> USE DEF GateInv, CheckClose, CheckCloseAdding
  <1>1. TypeOK' /\ CountExact' /\ BeforeClose' /\ NoReturn'
    BY DEF TypeOK, CountExact, BeforeClose, NoReturn
  <1>2. StillOwed'
    <2>1. CASE acceptNum > 0
      BY <2>1 DEF StillOwed, BeforeClose
    <2>2. CASE ~(acceptNum > 0)
      BY <2>2, EmptyGate DEF StillOwed, TypeOK
    <2> QED BY <2>1, <2>2
  <1> QED BY <1>1, <1>2

LEMMA WaitGate ==
  ASSUME GateInv, Wait \/ UNCHANGED vars
  PROVE  GateInv'
  BY DEF GateInv, Wait, vars, TypeOK, CountExact, BeforeClose, StillOwed,
         NoReturn

LEMMA GateStepKeeps ==
  ASSUME GateInv, [Next]_vars
  PROVE  GateInv'
  BY ConnectGate, DropGate, DeferredGate, CheckCloseGate, WaitGate DEF Next

LEMMA InductiveGate == Spec => []GateInv
  BY InitGate, GateStepKeeps, PTL DEF Spec

(* Types; the WaitGroup's counter never exceeds one. *)
THEOREM GateTypes == Spec => []TypeOK
  <1>1. GateInv => TypeOK
    BY DEF GateInv
  <1> QED BY <1>1, InductiveGate, PTL

(* Every player who was connected when the gate was told to stop has left
   before Serve gets past its WaitGroup, for any number of players coming and
   going (DefaultGateComponent.go:84-120). *)
THEOREM GateServesPlayers == Spec => []PlayersServed
  <1>1. GateInv => PlayersServed
    BY DEF GateInv, StillOwed, PlayersServed
  <1> QED BY <1>1, InductiveGate, PTL

(* acceptNum is the number of connected sessions. *)
THEOREM GateCounts == Spec => []CountExact
  <1>1. GateInv => CountExact
    BY DEF GateInv
  <1> QED BY <1>1, InductiveGate, PTL
-----------------------------------------------------------------------------
(* The queue q holds the messages lo + 1 .. hi of session s, in that order. *)
Queued(q, s, lo, hi) ==
    /\ \A i \in 1 .. Len(q) : q[i].from = s => q[i].n \in lo + 1 .. hi
    /\ \A i, j \in 1 .. Len(q) :
          i < j /\ q[i].from = s /\ q[j].from = s => q[i].n < q[j].n
    /\ \A m \in lo + 1 .. hi : \E i \in 1 .. Len(q) : q[i].from = s /\ q[i].n = m

Job == [from : Sessions \cup {NoWorker}, n : Nat, worker : Workers \cup {NoWorker}]

Work == [doing : {"idle", "stopped"}] \cup [doing : {"run", "forward"}, job : Job]

(* Types, and what a job that is not of a session looks like. *)
FrontTypes ==
    /\ sent \in [Sessions -> Nat] /\ handled \in [Sessions -> Seq(Nat)]
    /\ jobs \in [Workers -> Seq(Job)] /\ shared \in Seq(Job)
    /\ work \in [Workers -> Work]
    /\ recycled \subseteq Workers /\ parallel \in Nat
    /\ \A i \in 1 .. Len(shared) : shared[i].from = NoWorker
    /\ \A w \in Workers : work[w].doing = "forward" =>
          work[w].job.from = NoWorker /\ work[w].job.worker \in Workers

Home(s) == s % NumWorkers

Runs(w, s) == work[w].doing = "run" /\ work[w].job.from = s

(* The jobs of a session are nowhere but with its worker. *)
AtHome ==
    \A s \in Sessions : \A w \in Workers :
       /\ Runs(w, s) => w = Home(s)
       /\ \A i \in 1 .. Len(jobs[w]) : jobs[w][i].from = s => w = Home(s)

(* Number of messages of s that have left the queue. *)
Out(s) == Len(handled[s]) + (IF Runs(Home(s), s) THEN 1 ELSE 0)

(* Handled, running and queued messages of a session continue each other. *)
Continues ==
    \A s \in Sessions :
       /\ \A i \in 1 .. Len(handled[s]) : handled[s][i] = i
       /\ Runs(Home(s), s) => work[Home(s)].job.n = Len(handled[s]) + 1
       /\ Out(s) <= sent[s]
       /\ Queued(jobs[Home(s)], s, Out(s), sent[s])

FrontInv == FrontTypes /\ AtHome /\ Continues

LEMMA HomeType == \A s \in Sessions : Home(s) \in Workers /\ s # NoWorker
  BY FrontAssumption DEF Home, Workers

LEMMA QueuedAppend ==
  ASSUME NEW q \in Seq(Job), NEW x \in Job, NEW s, NEW lo \in Nat, NEW hi \in Nat,
         lo <= hi, Queued(q, s, lo, hi), x.from = s => x.n = hi + 1
  PROVE  Queued(Append(q, x), s, lo, IF x.from = s THEN hi + 1 ELSE hi)
  <1> DEFINE r == Append(q, x)
  <1>1. /\ Len(q) \in Nat /\ Len(r) = Len(q) + 1
        /\ \A i \in 1 .. Len(q) : r[i] = q[i]
        /\ r[Len(q) + 1] = x
    BY AppendAt
  <1> HIDE DEF r
  <1>2. \A i \in 1 .. Len(q) : q[i].n \in Nat
    <2>1. \A y \in Job : y.n \in Nat
      BY DEF Job
    <2> QED BY <2>1
  <1>3. CASE x.from = s
    <2>1. \A i \in 1 .. Len(r) : r[i].from = s => r[i].n \in lo + 1 .. hi + 1
      BY <1>1, <1>3 DEF Queued
    <2>2. \A i, j \in 1 .. Len(r) :
             i < j /\ r[i].from = s /\ r[j].from = s => r[i].n < r[j].n
      <3> SUFFICES ASSUME NEW i \in 1 .. Len(r), NEW j \in 1 .. Len(r), i < j,
                          r[i].from = s, r[j].from = s
                   PROVE  r[i].n < r[j].n
        OBVIOUS
      <3>1. i \in 1 .. Len(q) /\ r[i] = q[i]
        BY <1>1
      <3>2. CASE j \in 1 .. Len(q)
        BY <1>1, <3>1, <3>2 DEF Queued
      <3>3. CASE j = Len(q) + 1
        <4>1. q[i].n \in lo + 1 .. hi
          BY <3>1 DEF Queued
        <4> QED BY <1>1, <1>3, <3>1, <3>3, <4>1
      <3> QED BY <1>1, <3>2, <3>3
    <2>3. \A m \in lo + 1 .. hi + 1 : \E i \in 1 .. Len(r) : r[i].from = s /\ r[i].n = m
      <3> SUFFICES ASSUME NEW m \in lo + 1 .. hi + 1
                   PROVE  \E i \in 1 .. Len(r) : r[i].from = s /\ r[i].n = m
        OBVIOUS
      <3>1. CASE m = hi + 1
        BY <1>1, <1>3, <3>1
      <3>2. CASE m \in lo + 1 .. hi
        <4>1. PICK k \in 1 .. Len(q) : q[k].from = s /\ q[k].n = m
          BY <3>2 DEF Queued
        <4> QED BY <1>1, <4>1
      <3> QED BY <3>1, <3>2
    <2> QED BY <1>3, <2>1, <2>2, <2>3 DEF Queued, r
  <1>4. CASE x.from # s
    <2>1. \A i \in 1 .. Len(r) : r[i].from = s => r[i].n \in lo + 1 .. hi
      BY <1>1, <1>4 DEF Queued
    <2>2. \A i, j \in 1 .. Len(r) :
             i < j /\ r[i].from = s /\ r[j].from = s => r[i].n < r[j].n
      <3> SUFFICES ASSUME NEW i \in 1 .. Len(r), NEW j \in 1 .. Len(r), i < j,
                          r[i].from = s, r[j].from = s
                   PROVE  r[i].n < r[j].n
        OBVIOUS
      <3>1. i \in 1 .. Len(q) /\ r[i] = q[i]
        BY <1>1
      <3>2. CASE j \in 1 .. Len(q)
        BY <1>1, <3>1, <3>2 DEF Queued
      <3> QED BY <1>1, <1>4, <3>2
    <2>3. \A m \in lo + 1 .. hi : \E i \in 1 .. Len(r) : r[i].from = s /\ r[i].n = m
      BY <1>1 DEF Queued
    <2> QED BY <1>4, <2>1, <2>2, <2>3 DEF Queued, r
  <1> QED BY <1>3, <1>4

LEMMA QueuedTail ==
  ASSUME NEW q \in Seq(Job), q # <<>>, NEW s, NEW lo \in Nat, NEW hi \in Nat,
         lo <= hi, Queued(q, s, lo, hi)
  PROVE  /\ Head(q).from = s => /\ Head(q).n = lo + 1 /\ lo + 1 <= hi
                                /\ Queued(Tail(q), s, lo + 1, hi)
         /\ Head(q).from # s => Queued(Tail(q), s, lo, hi)
  <1> DEFINE r == Tail(q)
  <1>1. /\ Len(q) \in Nat \ {0} /\ Len(r) = Len(q) - 1 /\ Head(q) = q[1]
        /\ \A i \in 1 .. Len(q) - 1 : r[i] = q[i + 1]
    BY TailAt
  <1> HIDE DEF r
  <1>2. \A i \in 1 .. Len(q) : q[i].n \in Nat
    <2>1. \A y \in Job : y.n \in Nat
      BY DEF Job
    <2> QED BY <2>1
  <1>3. CASE Head(q).from = s
    <2>1. q[1].n \in lo + 1 .. hi
      BY <1>1, <1>3 DEF Queued
    <2>2. PICK k \in 1 .. Len(q) : q[k].from = s /\ q[k].n = lo + 1
      BY <2>1 DEF Queued
    <2>3. q[1].n = lo + 1
      BY <1>1, <1>2, <1>3, <2>1, <2>2 DEF Queued
    <2>4. \A i \in 1 .. Len(r) : r[i].from = s => r[i].n \in lo + 2 .. hi
      <3> SUFFICES ASSUME NEW i \in 1 .. Len(r), r[i].from = s PROVE r[i].n \in lo + 2 .. hi
        OBVIOUS
      <3>1. r[i] = q[i + 1] /\ 1 \in 1 .. Len(q) /\ i + 1 \in 1 .. Len(q) /\ 1 < i + 1
        BY <1>1
      <3>2. q[i + 1].n \in lo + 1 .. hi
        BY <3>1 DEF Queued
      <3>3. q[1].n < q[i + 1].n
        BY <1>1, <1>3, <3>1 DEF Queued
      <3> QED BY <2>3, <3>1, <3>2, <3>3
    <2>5. \A i, j \in 1 .. Len(r) :
             i < j /\ r[i].from = s /\ r[j].from = s => r[i].n < r[j].n
      <3> SUFFICES ASSUME NEW i \in 1 .. Len(r), NEW j \in 1 .. Len(r), i < j,
                          r[i].from = s, r[j].from = s
                   PROVE  r[i].n < r[j].n
        OBVIOUS
      <3>1. /\ i + 1 \in 1 .. Len(q) /\ j + 1 \in 1 .. Len(q) /\ i + 1 < j + 1
            /\ r[i] = q[i + 1] /\ r[j] = q[j + 1]
        BY <1>1
      <3> QED BY <3>1 DEF Queued
    <2>6. \A m \in lo + 2 .. hi : \E i \in 1 .. Len(r) : r[i].from = s /\ r[i].n = m
      <3> SUFFICES ASSUME NEW m \in lo + 2 .. hi
                   PROVE  \E i \in 1 .. Len(r) : r[i].from = s /\ r[i].n = m
        OBVIOUS
      <3>1. PICK j \in 1 .. Len(q) : q[j].from = s /\ q[j].n = m
        BY DEF Queued
      <3>2. j # 1
        BY <2>3, <3>1
      <3>3. j - 1 \in 1 .. Len(r) /\ r[j - 1] = q[j]
        BY <1>1, <3>2
      <3> QED BY <3>1, <3>3
    <2>7. lo + 1 + 1 = lo + 2
      OBVIOUS
    <2> QED BY <1>1, <1>3, <2>1, <2>3, <2>4, <2>5, <2>6, <2>7 DEF Queued, r
  <1>4. CASE Head(q).from # s
    <2>1. \A i \in 1 .. Len(r) : r[i].from = s => r[i].n \in lo + 1 .. hi
      BY <1>1 DEF Queued
    <2>2. \A i, j \in 1 .. Len(r) :
             i < j /\ r[i].from = s /\ r[j].from = s => r[i].n < r[j].n
      <3> SUFFICES ASSUME NEW i \in 1 .. Len(r), NEW j \in 1 .. Len(r), i < j,
                          r[i].from = s, r[j].from = s
                   PROVE  r[i].n < r[j].n
        OBVIOUS
      <3>1. /\ i + 1 \in 1 .. Len(q) /\ j + 1 \in 1 .. Len(q) /\ i + 1 < j + 1
            /\ r[i] = q[i + 1] /\ r[j] = q[j + 1]
        BY <1>1
      <3> QED BY <3>1 DEF Queued
    <2>3. \A m \in lo + 1 .. hi : \E i \in 1 .. Len(r) : r[i].from = s /\ r[i].n = m
      <3> SUFFICES ASSUME NEW m \in lo + 1 .. hi
                   PROVE  \E i \in 1 .. Len(r) : r[i].from = s /\ r[i].n = m
        OBVIOUS
      <3>1. PICK j \in 1 .. Len(q) : q[j].from = s /\ q[j].n = m
        BY DEF Queued
      <3>2. j - 1 \in 1 .. Len(r) /\ r[j - 1] = q[j]
        BY <1>1, <1>4, <3>1
      <3> QED BY <3>1, <3>2
    <2> QED BY <1>4, <2>1, <2>2, <2>3 DEF Queued, r
  <1> QED BY <1>3, <1>4

LEMMA FrontStart == FrontInit => FrontInv
  <1> SUFFICES ASSUME FrontInit PROVE FrontInv
    OBVIOUS
  <1>1. \A w \in Workers : work[w].doing = "idle" /\ jobs[w] = <<>>
    BY DEF FrontInit, IdleWork
  <1>2. \A t \in Sessions : Len(handled[t]) = 0 /\ sent[t] = 0
    BY DEF FrontInit
  <1>3. FrontTypes
    <2>1. IdleWork \in Work
      BY DEF IdleWork, Work
    <2>2. work \in [Workers -> Work]
      BY <2>1 DEF FrontInit
    <2>3. jobs \in [Workers -> Seq(Job)] /\ shared \in Seq(Job) /\ Len(shared) = 0
      BY DEF FrontInit
    <2>4. sent \in [Sessions -> Nat] /\ handled \in [Sessions -> Seq(Nat)]
      BY DEF FrontInit
    <2> QED BY <1>1, <2>2, <2>3, <2>4 DEF FrontInit, FrontTypes
  <1>4. AtHome
    BY <1>1 DEF AtHome, Runs
  <1>5. Continues
    <2> SUFFICES ASSUME NEW t \in Sessions
                 PROVE  /\ ~Runs(Home(t), t) /\ Out(t) = 0
                        /\ Queued(jobs[Home(t)], t, 0, 0)
      BY <1>2 DEF Continues
    <2>0. ~Runs(Home(t), t)
      BY <1>1, HomeType DEF Runs
    <2>1. ~Runs(Home(t), t) /\ Out(t) = 0
      BY <1>2, <2>0 DEF Out
    <2>2. jobs[Home(t)] = <<>> /\ Len(<<>>) = 0
      BY <1>1, HomeType
    <2> QED BY <2>1, <2>2 DEF Queued
  <1> QED BY <1>3, <1>4, <1>5 DEF FrontInv

(* A job x is appended to the queue of worker w: the next message of a session,
   for its own worker, or a job of no session. *)
LEMMA AppendKeeps ==
  ASSUME FrontInv, NEW w \in Workers, NEW x \in Job,
         jobs' = [jobs EXCEPT ![w] = Append(@, x)], handled' = handled,
         \A t \in Sessions : sent'[t] = IF t = x.from THEN sent[t] + 1 ELSE sent[t],
         x.from \in Sessions => w = Home(x.from) /\ x.n = sent[x.from] + 1,
         \A v \in Workers, t \in Sessions : Runs(v, t)' <=> Runs(v, t),
         \A v \in Workers : work[v].doing = "run" => work'[v] = work[v]
  PROVE  AtHome' /\ Continues'
  <1>1. jobs \in [Workers -> Seq(Job)] /\ sent \in [Sessions -> Nat]
    BY DEF FrontInv, FrontTypes
  <1>2. /\ \A v \in Workers \ {w} : jobs'[v] = jobs[v]
        /\ jobs'[w] = Append(jobs[w], x) /\ jobs[w] \in Seq(Job)
    BY <1>1
  <1>3. AtHome'
    <2> SUFFICES ASSUME NEW t \in Sessions, NEW v \in Workers
                 PROVE  /\ Runs(v, t)' => v = Home(t)
                        /\ \A i \in 1 .. Len(jobs'[v]) :
                              jobs'[v][i].from = t => v = Home(t)
      BY DEF AtHome, Home
    <2>1. Runs(v, t)' => v = Home(t)
      BY DEF FrontInv, AtHome
    <2>2. CASE v # w
      BY <1>2, <2>1, <2>2 DEF FrontInv, AtHome
    <2>3. CASE v = w
      <3>1. /\ Len(jobs[w]) \in Nat /\ Len(jobs'[w]) = Len(jobs[w]) + 1
            /\ \A i \in 1 .. Len(jobs[w]) : jobs'[w][i] = jobs[w][i]
            /\ jobs'[w][Len(jobs[w]) + 1] = x
        BY <1>2, AppendAt
      <3> QED BY <2>1, <2>3, <3>1 DEF FrontInv, AtHome
    <2> QED BY <2>2, <2>3
  <1>4. Continues'
    <2> SUFFICES ASSUME NEW t \in Sessions
                 PROVE  /\ \A i \in 1 .. Len(handled[t]) : handled[t][i] = i
                        /\ Runs(Home(t), t)' => work'[Home(t)].job.n = Len(handled[t]) + 1
                        /\ Out(t)' <= sent'[t]
                        /\ Queued(jobs'[Home(t)], t, Out(t)', sent'[t])
      BY DEF Continues, Home, Queued
    <2>0. Home(t) \in Workers
      BY HomeType
    <2>1. Out(t)' = Out(t) /\ Out(t) \in Nat
      BY <2>0 DEF Out, Home, FrontInv, FrontTypes
    <2>2. /\ \A i \in 1 .. Len(handled[t]) : handled[t][i] = i
          /\ Runs(Home(t), t) => work[Home(t)].job.n = Len(handled[t]) + 1
          /\ Out(t) <= sent[t] /\ Queued(jobs[Home(t)], t, Out(t), sent[t])
      BY DEF FrontInv, Continues
    <2>3. Runs(Home(t), t)' => work'[Home(t)].job.n = Len(handled[t]) + 1
      BY <2>0, <2>2 DEF Runs
    <2>4. Out(t)' <= sent'[t]
      BY <1>1, <2>1, <2>2
    <2>5. Queued(jobs'[Home(t)], t, Out(t)', sent'[t])
      <3>1. CASE Home(t) # w
        <4>1. t # x.from
          BY <3>1
        <4> QED BY <1>2, <2>0, <2>1, <2>2, <3>1, <4>1
      <3>2. CASE Home(t) = w
        BY <1>1, <1>2, <2>1, <2>2, <3>2, QueuedAppend
      <3> QED BY <3>1, <3>2
    <2> QED BY <2>2, <2>3, <2>4, <2>5
  <1> QED BY <1>3, <1>4

(* A session's next message. *)
LEMMA RecvKeeps ==
  ASSUME FrontInv, NEW s \in Sessions, Recv(s)
  PROVE  FrontInv'
  <1> DEFINE x == [from |-> s, n |-> sent[s] + 1, worker |-> Home(s)]
  <1>1. Home(s) \in Workers /\ sent[s] \in Nat
    BY HomeType DEF FrontInv, FrontTypes
  <1>2. /\ jobs' = [jobs EXCEPT ![Home(s)] = Append(@, x)]
        /\ sent' = [sent EXCEPT ![s] = sent[s] + 1]
        /\ UNCHANGED <<shared, work, handled, recycled, parallel>>
    <2>1. jobs \in [Workers -> Seq(Job)]
      BY DEF FrontInv, FrontTypes
    <2> QED BY <1>1, <2>1 DEF Recv, RecvThen, WorkerId, Home
  <1>3. x \in Job /\ x.from = s /\ x.n = sent[s] + 1
    <2>1. PICK k \in Nat : k = sent[s] + 1
      BY <1>1
    <2>2. [from |-> s, n |-> k, worker |-> Home(s)] \in Job
      BY <1>1 DEF Job
    <2> QED BY <2>1, <2>2
  <1> HIDE DEF x
  <1>4. FrontTypes'
    <2>1. jobs' \in [Workers -> Seq(Job)]
      BY <1>1, <1>2, <1>3 DEF FrontInv, FrontTypes
    <2>2. sent' \in [Sessions -> Nat]
      BY <1>1, <1>2 DEF FrontInv, FrontTypes
    <2> QED BY <1>2, <2>1, <2>2 DEF FrontInv, FrontTypes
  <1>5. \A t \in Sessions : sent'[t] = IF t = x.from THEN sent[t] + 1 ELSE sent[t]
    BY <1>2, <1>3 DEF FrontInv, FrontTypes
  <1>6. \A v \in Workers, t \in Sessions : Runs(v, t)' <=> Runs(v, t)
    BY <1>2 DEF Runs
  <1>7. AtHome' /\ Continues'
    BY <1>1, <1>2, <1>3, <1>5, <1>6, AppendKeeps
  <1> QED BY <1>4, <1>7 DEF FrontInv

(* A parallel job is forwarded to the worker that it names. *)
LEMMA ForwardKeeps ==
  ASSUME FrontInv, NEW w \in Workers, Forward(w)
  PROVE  FrontInv'
  <1> DEFINE x == work[w].job
             v == work[w].job.worker
  <1>1. /\ work[w].doing = "forward" /\ v \in Workers /\ x.from = NoWorker
        /\ x \in Job
    BY DEF Forward, FrontInv, FrontTypes, Work
  <1>2. /\ jobs' = [jobs EXCEPT ![v] = Append(@, x)]
        /\ work' = [work EXCEPT ![w] = IdleWork]
        /\ UNCHANGED <<sent, shared, handled, recycled, parallel>>
    BY DEF Forward
  <1> HIDE DEF x, v
  <1>3. IdleWork \in Work /\ IdleWork.doing = "idle"
    BY DEF IdleWork, Work
  <1>4. FrontTypes'
    <2>1. jobs' \in [Workers -> Seq(Job)]
      BY <1>1, <1>2 DEF FrontInv, FrontTypes
    <2>2. /\ work' \in [Workers -> Work] /\ work'[w].doing = "idle"
          /\ \A u \in Workers \ {w} : work'[u] = work[u]
      BY <1>2, <1>3 DEF FrontInv, FrontTypes
    <2> QED BY <1>2, <2>1, <2>2 DEF FrontInv, FrontTypes
  <1>5. /\ \A u \in Workers \ {w} : work'[u] = work[u]
        /\ work'[w].doing = "idle"
    BY <1>2, <1>3 DEF FrontInv, FrontTypes
  <1>6. \A u \in Workers, t \in Sessions : Runs(u, t)' <=> Runs(u, t)
    BY <1>1, <1>5 DEF Runs
  <1>7. x.from \notin Sessions
    BY <1>1, HomeType
  <1>8. /\ \A t \in Sessions : sent'[t] = IF t = x.from THEN sent[t] + 1 ELSE sent[t]
        /\ \A u \in Workers : work[u].doing = "run" => work'[u] = work[u]
    BY <1>1, <1>2, <1>5, <1>7
  <1>9. AtHome' /\ Continues'
    BY <1>1, <1>2, <1>6, <1>7, <1>8, AppendKeeps
  <1> QED BY <1>4, <1>9 DEF FrontInv

(* A worker takes the first job of its own queue. *)
LEMMA TakeJobKeeps ==
  ASSUME FrontInv, NEW w \in Workers, TakeJob(w)
  PROVE  FrontInv'
  <1> DEFINE q == jobs[w]
             x == Head(jobs[w])
  <1>1. /\ work[w].doing = "idle" /\ q # <<>> /\ q \in Seq(Job)
    BY DEF TakeJob, IdleWork, FrontInv, FrontTypes
  <1>2. /\ work' = [work EXCEPT ![w] = [doing |-> "run", job |-> x]]
        /\ jobs' = [jobs EXCEPT ![w] = Tail(q)]
        /\ UNCHANGED <<sent, shared, handled, recycled, parallel>>
    BY DEF TakeJob
  <1>3. /\ Len(q) \in Nat \ {0} /\ Len(Tail(q)) = Len(q) - 1 /\ x = q[1]
        /\ \A i \in 1 .. Len(q) - 1 : Tail(q)[i] = q[i + 1]
        /\ Tail(q) \in Seq(Job) /\ x \in Job
    BY <1>1, TailAt
  <1>4. /\ \A v \in Workers \ {w} : jobs'[v] = jobs[v] /\ work'[v] = work[v]
        /\ jobs'[w] = Tail(q) /\ work'[w] = [doing |-> "run", job |-> x]
    BY <1>2 DEF FrontInv, FrontTypes
  <1> HIDE DEF q, x
  <1>5. [doing |-> "run", job |-> x] \in Work
    BY <1>3 DEF Work
  <1>6. work'[w].doing = "run" /\ work'[w].job = x
    BY <1>4
  <1>7. FrontTypes'
    <2>1. jobs' \in [Workers -> Seq(Job)]
      BY <1>2, <1>3 DEF FrontInv, FrontTypes
    <2>2. work' \in [Workers -> Work]
      BY <1>2, <1>5 DEF FrontInv, FrontTypes
    <2> QED BY <1>2, <1>4, <1>6, <2>1, <2>2 DEF FrontInv, FrontTypes
  <1>8. AtHome'
    <2> SUFFICES ASSUME NEW t \in Sessions, NEW v \in Workers
                 PROVE  /\ Runs(v, t)' => v = Home(t)
                        /\ \A i \in 1 .. Len(jobs'[v]) :
                              jobs'[v][i].from = t => v = Home(t)
      BY DEF AtHome, Home
    <2>1. CASE v # w
      BY <1>4, <2>1 DEF FrontInv, AtHome, Runs
    <2>2. CASE v = w
      <3>1. \A i \in 1 .. Len(q) : q[i].from = t => w = Home(t)
        BY DEF FrontInv, AtHome, q
      <3>2. x.from = t => w = Home(t)
        BY <1>3, <3>1
      <3>3. ASSUME NEW i \in 1 .. Len(jobs'[w]), jobs'[w][i].from = t
            PROVE  w = Home(t)
        <4>1. i + 1 \in 1 .. Len(q) /\ jobs'[w][i] = q[i + 1]
          BY <1>3, <1>4
        <4> QED BY <3>1, <3>3, <4>1
      <3> QED BY <1>6, <2>2, <3>2, <3>3 DEF Runs
    <2> QED BY <2>1, <2>2
  <1>9. Continues'
    <2> SUFFICES ASSUME NEW t \in Sessions
                 PROVE  /\ \A i \in 1 .. Len(handled[t]) : handled[t][i] = i
                        /\ Runs(Home(t), t)' => work'[Home(t)].job.n = Len(handled[t]) + 1
                        /\ Out(t)' <= sent[t]
                        /\ Queued(jobs'[Home(t)], t, Out(t)', sent[t])
      BY <1>2 DEF Continues, Home, Queued
    <2>0. Home(t) \in Workers /\ Len(handled[t]) \in Nat /\ sent[t] \in Nat
      BY HomeType DEF FrontInv, FrontTypes
    <2>2. /\ \A i \in 1 .. Len(handled[t]) : handled[t][i] = i
          /\ Runs(Home(t), t) => work[Home(t)].job.n = Len(handled[t]) + 1
          /\ Out(t) <= sent[t] /\ Queued(jobs[Home(t)], t, Out(t), sent[t])
      BY DEF FrontInv, Continues
    <2>3. CASE Home(t) # w
      <3>1. (Runs(Home(t), t)' <=> Runs(Home(t), t)) /\ work'[Home(t)] = work[Home(t)]
        BY <1>4, <2>0, <2>3 DEF Runs, Home
      <3>2. Out(t)' = Out(t)
        BY <1>2, <3>1 DEF Out, Home
      <3> QED BY <1>4, <2>0, <2>2, <2>3, <3>1, <3>2
    <2>4. CASE Home(t) = w
      <3>1. ~Runs(Home(t), t) /\ Out(t) = Len(handled[t])
        <4>1. ~Runs(Home(t), t)
          BY <1>1, <2>4 DEF Runs
        <4> QED BY <2>0, <4>1 DEF Out
      <3>2. Runs(Home(t), t)' <=> x.from = t
        BY <1>6, <2>4 DEF Runs, Home
      <3>3. Out(t)' = IF x.from = t THEN Len(handled[t]) + 1 ELSE Len(handled[t])
        <4>1. Len(handled'[t]) = Len(handled[t])
          BY <1>2
        <4>2. Out(t)' = Len(handled'[t]) + (IF Runs(Home(t), t)' THEN 1 ELSE 0)
          BY DEF Out, Home
        <4>3. CASE x.from = t
          BY <3>2, <4>1, <4>2, <4>3
        <4>4. CASE x.from # t
          <5>1. ~Runs(Home(t), t)'
            BY <3>2, <4>4
          <5>2. Out(t)' = Len(handled[t]) + 0
            BY <4>1, <4>2, <5>1
          <5>3. Len(handled[t]) + 0 = Len(handled[t])
            BY <2>0
          <5> QED BY <4>4, <5>2, <5>3
        <4> QED BY <4>3, <4>4
      <3>4. /\ x.from = t => /\ x.n = Out(t) + 1 /\ Out(t) + 1 <= sent[t]
                             /\ Queued(Tail(q), t, Out(t) + 1, sent[t])
            /\ x.from # t => Queued(Tail(q), t, Out(t), sent[t])
        BY <1>1, <2>0, <2>2, <2>4, <3>1, QueuedTail DEF q, x
      <3> QED BY <1>4, <1>6, <2>0, <2>2, <2>4, <3>1, <3>2, <3>3, <3>4
    <2> QED BY <2>3, <2>4
  <1> QED BY <1>7, <1>8, <1>9 DEF FrontInv

(* The queues and the messages of the sessions are left alone, and no worker
   begins or ends a session's message. *)
LEMMA AsideKeeps ==
  ASSUME FrontInv, jobs' = jobs, sent' = sent, handled' = handled,
         \A v \in Workers, t \in Sessions : Runs(v, t)' <=> Runs(v, t),
         \A v \in Workers, t \in Sessions : Runs(v, t) => work'[v] = work[v]
  PROVE  AtHome' /\ Continues'
  <1>1. AtHome'
    BY DEF FrontInv, AtHome, Home
  <1>2. Continues'
    <2> SUFFICES ASSUME NEW t \in Sessions
                 PROVE  /\ \A i \in 1 .. Len(handled[t]) : handled[t][i] = i
                        /\ Runs(Home(t), t)' => work'[Home(t)].job.n = Len(handled[t]) + 1
                        /\ Out(t)' <= sent[t]
                        /\ Queued(jobs[Home(t)], t, Out(t)', sent[t])
      BY DEF Continues, Home, Queued
    <2>1. Home(t) \in Workers
      BY HomeType
    <2>2. Out(t)' = Out(t)
      BY <2>1 DEF Out, Home
    <2>3. Runs(Home(t), t)' => Runs(Home(t), t) /\ work'[Home(t)] = work[Home(t)]
      BY <2>1 DEF Home
    <2> QED BY <2>2, <2>3 DEF FrontInv, Continues
  <1> QED BY <1>1, <1>2

(* A worker takes a job of no session from the shared queue. *)
LEMMA TakeSharedKeeps ==
  ASSUME FrontInv, NEW w \in Workers, TakeShared(w)
  PROVE  FrontInv'
  <1> DEFINE x == Head(shared)
             d == IF x.worker = NoWorker THEN "run" ELSE "forward"
  <1>1. work[w].doing = "idle" /\ shared # <<>> /\ shared \in Seq(Job)
    BY DEF TakeShared, IdleWork, FrontInv, FrontTypes
  <1>2. /\ work' = [work EXCEPT ![w] = [doing |-> d, job |-> x]]
        /\ shared' = Tail(shared)
        /\ UNCHANGED <<sent, jobs, handled, recycled, parallel>>
    BY DEF TakeShared
  <1>3. /\ Len(shared) \in Nat \ {0} /\ Len(Tail(shared)) = Len(shared) - 1
        /\ x = shared[1]
        /\ \A i \in 1 .. Len(shared) - 1 : Tail(shared)[i] = shared[i + 1]
        /\ Tail(shared) \in Seq(Job) /\ x \in Job
    BY <1>1, TailAt
  <1>4. x.from = NoWorker /\ x.worker \in Workers \cup {NoWorker}
    <2>1. \A y \in Job : y.worker \in Workers \cup {NoWorker}
      BY DEF Job
    <2> QED BY <1>3, <2>1 DEF FrontInv, FrontTypes
  <1> HIDE DEF x
  <1>5. d \in {"run", "forward"} /\ (d = "forward" => x.worker \in Workers)
    BY <1>4
  <1> HIDE DEF d
  <1>6. [doing |-> d, job |-> x] \in Work
    BY <1>3, <1>5 DEF Work
  <1>7. /\ \A v \in Workers \ {w} : work'[v] = work[v]
        /\ work'[w].doing = d /\ work'[w].job = x
    BY <1>2 DEF FrontInv, FrontTypes
  <1>8. FrontTypes'
    <2>1. work' \in [Workers -> Work]
      BY <1>2, <1>6 DEF FrontInv, FrontTypes
    <2>2. ASSUME NEW i \in 1 .. Len(shared') PROVE shared'[i].from = NoWorker
      <3>1. i + 1 \in 1 .. Len(shared) /\ shared'[i] = shared[i + 1]
        BY <1>2, <1>3
      <3> QED BY <3>1 DEF FrontInv, FrontTypes
    <2>3. \A v \in Workers : work'[v].doing = "forward" =>
             work'[v].job.from = NoWorker /\ work'[v].job.worker \in Workers
      BY <1>4, <1>5, <1>7 DEF FrontInv, FrontTypes
    <2> QED BY <1>2, <1>3, <2>1, <2>2, <2>3 DEF FrontInv, FrontTypes
  <1>9. /\ \A v \in Workers, t \in Sessions : Runs(v, t)' <=> Runs(v, t)
        /\ \A v \in Workers, t \in Sessions : Runs(v, t) => work'[v] = work[v]
    BY <1>1, <1>4, <1>7, HomeType DEF Runs
  <1>10. AtHome' /\ Continues'
    BY <1>2, <1>9, AsideKeeps
  <1> QED BY <1>8, <1>10 DEF FrontInv

(* A new job of no session, with the worker id that it happens to have. *)
LEMMA AddJobParallelKeeps ==
  ASSUME FrontInv, AddJobParallel
  PROVE  FrontInv'
  <1>1. PICK v \in recycled \cup {NoWorker} :
          shared' = Append(shared, [from |-> NoWorker, n |-> parallel, worker |-> v])
    BY DEF AddJobParallel
  <1> DEFINE x == [from |-> NoWorker, n |-> parallel, worker |-> v]
  <1>2. /\ parallel' = parallel + 1 /\ parallel \in Nat /\ v \in Workers \cup {NoWorker}
        /\ UNCHANGED <<sent, jobs, work, handled, recycled>>
    BY DEF AddJobParallel, FrontInv, FrontTypes
  <1>3. x \in Job /\ x.from = NoWorker
    BY <1>2 DEF Job
  <1> HIDE DEF x
  <1>4. shared \in Seq(Job) /\ shared' = Append(shared, x)
    BY <1>1 DEF FrontInv, FrontTypes, x
  <1>5. /\ Len(shared) \in Nat /\ Len(shared') = Len(shared) + 1
        /\ \A i \in 1 .. Len(shared) : shared'[i] = shared[i]
        /\ shared'[Len(shared) + 1] = x
    BY <1>3, <1>4, AppendAt
  <1>6. FrontTypes'
    <2>1. shared' \in Seq(Job) /\ parallel' \in Nat
      BY <1>2, <1>3, <1>4
    <2>2. ASSUME NEW i \in 1 .. Len(shared') PROVE shared'[i].from = NoWorker
      <3>1. CASE i \in 1 .. Len(shared)
        BY <1>5, <3>1 DEF FrontInv, FrontTypes
      <3>2. CASE i = Len(shared) + 1
        BY <1>3, <1>5, <3>2
      <3> QED BY <1>5, <3>1, <3>2
    <2> QED BY <1>2, <2>1, <2>2 DEF FrontInv, FrontTypes
  <1>7. AtHome' /\ Continues'
    BY <1>2, AsideKeeps DEF Runs
  <1> QED BY <1>6, <1>7 DEF FrontInv

(* The message that is run is the next one of its session. *)
LEMMA JobRunsKeeps ==
  ASSUME FrontInv, NEW w \in Workers, JobRuns(w)
  PROVE  FrontInv'
  <1> DEFINE x == work[w].job
  <1>1. work[w].doing = "run" /\ x \in Job
    BY DEF JobRuns, FrontInv, FrontTypes, Work
  <1>2. /\ work' = [work EXCEPT ![w] = IdleWork]
        /\ recycled' = recycled \cup ({x.worker} \ {NoWorker})
        /\ handled' = IF x.from \in Sessions
                        THEN [handled EXCEPT ![x.from] = Append(@, x.n)] ELSE handled
        /\ UNCHANGED <<sent, jobs, shared, parallel>>
    BY DEF JobRuns, Route, Recycle
  <1>3. x.n \in Nat /\ x.worker \in Workers \cup {NoWorker}
    BY <1>1 DEF Job
  <1>4. IdleWork \in Work /\ IdleWork.doing = "idle"
    BY DEF IdleWork, Work
  <1>5. /\ \A v \in Workers \ {w} : work'[v] = work[v]
        /\ work'[w].doing = "idle"
    BY <1>2, <1>4 DEF FrontInv, FrontTypes
  <1>6. FrontTypes'
    <2>1. work' \in [Workers -> Work]
      BY <1>2, <1>4 DEF FrontInv, FrontTypes
    <2>2. handled' \in [Sessions -> Seq(Nat)]
      BY <1>2, <1>3 DEF FrontInv, FrontTypes
    <2>3. recycled' \subseteq Workers
      BY <1>2, <1>3 DEF FrontInv, FrontTypes
    <2> QED BY <1>2, <1>5, <2>1, <2>2, <2>3 DEF FrontInv, FrontTypes
  <1>7. AtHome'
    <2>1. \A v \in Workers, t \in Sessions : Runs(v, t)' => Runs(v, t)
      BY <1>1, <1>5 DEF Runs
    <2> QED BY <1>2, <2>1 DEF FrontInv, AtHome, Home
  <1>8. Continues'
    <2> SUFFICES ASSUME NEW t \in Sessions
                 PROVE  /\ \A i \in 1 .. Len(handled'[t]) : handled'[t][i] = i
                        /\ Runs(Home(t), t)' => work'[Home(t)].job.n = Len(handled'[t]) + 1
                        /\ Out(t)' <= sent[t]
                        /\ Queued(jobs[Home(t)], t, Out(t)', sent[t])
      <3>1. UNCHANGED <<jobs, sent>>
        BY <1>2
      <3> QED BY <3>1 DEF Continues, Home
    <2>1. Home(t) \in Workers /\ Len(handled[t]) \in Nat /\ handled[t] \in Seq(Nat)
      BY HomeType DEF FrontInv, FrontTypes
    <2>2. /\ \A i \in 1 .. Len(handled[t]) : handled[t][i] = i
          /\ Runs(Home(t), t) => work[Home(t)].job.n = Len(handled[t]) + 1
          /\ Out(t) <= sent[t] /\ Queued(jobs[Home(t)], t, Out(t), sent[t])
      BY DEF FrontInv, Continues
    <2>o. Out(t)' = Len(handled'[t]) + (IF Runs(Home(t), t)' THEN 1 ELSE 0)
      BY DEF Out, Home
    <2>3. CASE x.from = t
      <3>1. w = Home(t) /\ Runs(Home(t), t)
        BY <1>1, <2>3 DEF FrontInv, AtHome, Runs
      <3>2. Out(t) = Len(handled[t]) + 1 /\ x.n = Len(handled[t]) + 1
        BY <2>2, <3>1 DEF Out
      <3>3. handled'[t] = Append(handled[t], x.n)
        BY <1>2, <2>3 DEF FrontInv, FrontTypes
      <3>4. /\ Len(handled'[t]) = Len(handled[t]) + 1
            /\ \A i \in 1 .. Len(handled[t]) : handled'[t][i] = handled[t][i]
            /\ handled'[t][Len(handled[t]) + 1] = x.n
        BY <1>3, <2>1, <3>3, AppendAt
      <3>5. ~Runs(Home(t), t)'
        BY <1>5, <3>1 DEF Runs, Home
      <3>6. Out(t)' = Len(handled[t]) + 1 + 0
        BY <2>o, <3>4, <3>5
      <3>7. Out(t)' = Out(t)
        BY <2>1, <3>2, <3>6
      <3>8. \A i \in 1 .. Len(handled'[t]) : handled'[t][i] = i
        BY <2>1, <2>2, <3>2, <3>4
      <3> QED BY <2>2, <3>5, <3>7, <3>8
    <2>4. CASE x.from # t
      <3>1. handled'[t] = handled[t]
        BY <1>2, <2>4 DEF FrontInv, FrontTypes
      <3>2. /\ Runs(Home(t), t)' <=> Runs(Home(t), t)
            /\ Runs(Home(t), t) => work'[Home(t)] = work[Home(t)]
        BY <1>5, <2>1, <2>4 DEF Runs, Home
      <3>3. Out(t)' = Out(t)
        BY <2>o, <3>1, <3>2 DEF Out
      <3> QED BY <2>2, <3>1, <3>2, <3>3
    <2> QED BY <2>3, <2>4
  <1> QED BY <1>6, <1>7, <1>8 DEF FrontInv

(* Stopping takes idle workers only, and closing the server no message. *)
LEMMA StopWorkerKeeps ==
  ASSUME FrontInv, NEW w \in Workers, StopWorker(w)
  PROVE  FrontInv'
  <1>1. /\ work[w].doing = "idle" /\ work' = [work EXCEPT ![w] = [doing |-> "stopped"]]
        /\ UNCHANGED <<sent, jobs, shared, handled, recycled, parallel>>
    BY DEF StopWorker, IdleWork
  <1>2. [doing |-> "stopped"] \in Work
    BY DEF Work
  <1>3. /\ work' \in [Workers -> Work] /\ work'[w].doing = "stopped"
        /\ \A v \in Workers \ {w} : work'[v] = work[v]
    BY <1>1, <1>2 DEF FrontInv, FrontTypes
  <1>4. FrontTypes'
    BY <1>1, <1>3 DEF FrontInv, FrontTypes
  <1>5. /\ \A v \in Workers, t \in Sessions : Runs(v, t)' <=> Runs(v, t)
        /\ \A v \in Workers, t \in Sessions : Runs(v, t) => work'[v] = work[v]
    BY <1>1, <1>3 DEF Runs
  <1>6. AtHome' /\ Continues'
    BY <1>1, <1>5, AsideKeeps
  <1> QED BY <1>4, <1>6 DEF FrontInv

LEMMA FrontStutters ==
  ASSUME FrontInv, Shutdown \/ UNCHANGED frontVars
  PROVE  FrontInv'
  <1>1. UNCHANGED <<sent, jobs, shared, work, handled, recycled, parallel>>
    BY DEF Shutdown, frontVars
  <1>2. FrontTypes'
    BY <1>1 DEF FrontInv, FrontTypes
  <1>3. AtHome' /\ Continues'
    BY <1>1, AsideKeeps DEF Runs
  <1> QED BY <1>2, <1>3 DEF FrontInv

LEMMA FrontKeeps ==
  ASSUME FrontInv, FrontNext \/ Shutdown \/ UNCHANGED frontVars
  PROVE  FrontInv'
  BY RecvKeeps, AddJobParallelKeeps, TakeJobKeeps, TakeSharedKeeps, ForwardKeeps,
     JobRunsKeeps, StopWorkerKeeps, FrontStutters DEF FrontNext, WorkerStep

LEMMA FrontOrders == FrontInv => SessionOrder
  BY DEF FrontInv, Continues, AtHome, Runs, SessionOrder

-----------------------------------------------------------------------------
(* A step of the process is a step of the count of the players or leaves it
   alone, and likewise for the messages. *)
LEMMA LaunchParts ==
  ASSUME [LaunchNext]_allVars
  PROVE  /\ [Next]_vars
         /\ FrontNext \/ Shutdown \/ UNCHANGED frontVars
  <1>1. CASE UNCHANGED allVars
    BY <1>1 DEF allVars
  <1>2. CASE ServeStep
    BY <1>2 DEF ServeStep, CheckNodeStatus, AttachGroups, CheckAndWait, Grace,
                GraceEnds, ReportStatus, ServeReturns, gateVars, Next
  <1>5. ASSUME NEW w \in Workers, DecodePanics(w)
        PROVE  UNCHANGED vars /\ UNCHANGED frontVars
    BY <1>5 DEF DecodePanics, gateVars
  <1>3. CASE StopRequested \/ ReportNode \/ DestroyChild \/ CloseSelf \/ GateDestroy
                \/ CloseOnLineNode \/ SetOffline
    BY <1>3 DEF StopRequested, ReportNode, DestroyChild, CloseSelf, GateDestroy,
                CloseOnLineNode, SetOffline, gateVars
  <1>4. CASE GateStep
    BY <1>4 DEF GateStep, SessionStep, Next
  <1> QED BY <1>1, <1>2, <1>3, <1>4, <1>5 DEF LaunchNext

(* Serve is past its WaitGroup when it goes on, except in debug mode. *)
PastWait ==
    /\ stage = "stopping" => ~debug
    /\ stage \in {"grace", "report", "destroy", "closed"} => debug \/ serve = "waited"

LaunchInv == GateInv /\ FrontInv /\ PastWait

(* Nothing takes Serve back behind its WaitGroup. *)
LEMMA StaysWaited ==
  ASSUME serve = "waited", [Next]_vars
  PROVE  serve' = "waited"
  BY DEF Next, OnConnected, OnDropped, OnDroppedDeferred, WgDone, CheckClose,
         CheckCloseAdding, Wait, vars

LEMMA PastWaitKeeps ==
  ASSUME PastWait, [LaunchNext]_allVars
  PROVE  PastWait'
  <1>1. [Next]_vars
    BY LaunchParts
  <1>2. serve = "waited" => serve' = "waited"
    BY <1>1, StaysWaited
  <1>3. CASE UNCHANGED launchVars
    BY <1>2, <1>3 DEF PastWait, launchVars
  <1>4. CASE CheckNodeStatus \/ AttachGroups
    BY <1>4 DEF PastWait, CheckNodeStatus, AttachGroups
  <1>5. CASE Grace \/ GraceEnds \/ ReportStatus \/ ServeReturns
    BY <1>2, <1>5 DEF PastWait, Grace, GraceEnds, ReportStatus, ServeReturns
  <1>6. CASE StopRequested
    BY <1>6 DEF PastWait, StopRequested
  <1>7. CASE ReportNode \/ DestroyChild \/ CloseSelf \/ CloseOnLineNode \/ SetOffline
    BY <1>2, <1>7 DEF PastWait, ReportNode, DestroyChild, CloseSelf, CloseOnLineNode,
                      SetOffline
  <1>8. CASE CheckAndWait \/ GateStep \/ GateDestroy \/ UNCHANGED allVars
    BY <1>3, <1>8 DEF CheckAndWait, GateStep, GateDestroy, allVars
  <1>9. CASE \E w \in Workers : DecodePanics(w)
    BY <1>9 DEF PastWait, DecodePanics
  <1> QED BY <1>4, <1>5, <1>6, <1>7, <1>8, <1>9 DEF LaunchNext, ServeStep

LEMMA InductiveLaunch == LaunchSpec => []LaunchInv
  <1>1. LaunchInit => LaunchInv
    BY InitGate, FrontStart DEF LaunchInit, LaunchInv, PastWait
  <1>2. LaunchInv /\ [LaunchNext]_allVars => LaunchInv'
    <2> SUFFICES ASSUME LaunchInv, [LaunchNext]_allVars PROVE LaunchInv'
      OBVIOUS
    <2>1. [Next]_vars /\ (FrontNext \/ Shutdown \/ UNCHANGED frontVars)
      BY LaunchParts
    <2> QED BY <2>1, GateStepKeeps, FrontKeeps, PastWaitKeeps DEF LaunchInv
  <1> QED BY <1>1, <1>2, PTL DEF LaunchSpec

(* The messages of a session are handled in the order in which they came and one
   at a time, for any number of sessions and workers and any length of the
   queues, parallel jobs with the worker id of an earlier use and the stop of
   the workers included (gPool.go:23-131, websocketHandler.go:76-120). *)
THEOREM SessionsInOrder == LaunchSpec => []SessionOrder
  <1>1. LaunchInv => SessionOrder
    BY FrontOrders DEF LaunchInv
  <1> QED BY <1>1, InductiveLaunch, PTL

(* Whatever requests to stop come and in whatever order, outside debug mode the
   process gets to its end only when those who were playing when it was told to
   stop have left (LauncherComponent.go:127-186). *)
THEOREM LaunchCutsNoneOff == LaunchSpec => []NoneCutOff
  <1>1. LaunchInv => NoneCutOff
    BY DEF LaunchInv, PastWait, GateInv, StillOwed, NoneCutOff
  <1> QED BY <1>1, InductiveLaunch, PTL
=============================================================================
