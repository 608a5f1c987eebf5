------------------------------ MODULE FrontEnd ------------------------------
(***************************************************************************)
(* The websocket front end of a gate (hNet): the read loop of each session *)
(* (websocketHandler.go) hands messages to the pool of workers (gPool.go), *)
(* which route them to the API (server.go, baseApi.go).  Module            *)
(* GateShutdown has the connections and how they are counted.              *)
(*                                                                         *)
(* The pool is always used: DefaultGateComponent sets IsUsePool, without   *)
(* which every message would have a goroutine of its own and no order.     *)
(*                                                                         *)
(* A message is read when there is room for it: whether it waits in the    *)
(* connection or in the hands of the read loop makes no difference here.   *)
(***************************************************************************)
EXTENDS GateShutdown, Sequences, SequencesExt

CONSTANTS
    NumWorkers,   \* gPool.numWorkers
    QueueCap,     \* capacity of a worker's jobQueue (10)
    SharedCap,    \* capacity of the pool's jobQueue (10000)
    MaxMessages,  \* bound on the messages of all sessions
    MaxParallel,  \* bound on the calls of AddJobParallel
    NoWorker      \* WorkerID -1, and the session of a parallel job

Workers == 0 .. NumWorkers - 1

ASSUME FrontAssumption ==
    /\ Sessions \subseteq Nat   \* the sum of the characters of a session's id
    /\ NumWorkers \in Nat \ {0} /\ NoWorker \notin Nat
    /\ \A n \in {QueueCap, SharedCap, MaxMessages, MaxParallel} : n \in Nat

VARIABLES
    sent,      \* per session: number of messages read
    jobs,      \* per worker: its jobQueue
    shared,    \* gPool.jobQueue
    work,      \* per worker: idle, run or forward a job, stopped
    handled,   \* per session: the messages handled, in order
    recycled,  \* the WorkerIDs of the jobs in jobPool
    parallel,  \* number of AddJobParallel calls
    isClosed,  \* Server.isClosed
    release    \* the workers that Release has still to stop

frontVars == <<sent, jobs, shared, work, handled, recycled, parallel, isClosed,
               release>>

IdleWork == [doing |-> "idle"]

FrontInit ==
    /\ sent = [s \in Sessions |-> 0]
    /\ jobs = [w \in Workers |-> <<>>]
    /\ shared = <<>>
    /\ work = [w \in Workers |-> IdleWork]
    /\ handled = [s \in Sessions |-> <<>>]
    /\ recycled = {} /\ parallel = 0
    /\ isClosed = FALSE /\ release = <<>>

WorkerByMessage(s, n) == (s + n) % NumWorkers

(* AddJobSerial: the first message of a session computes the worker from its
   id, and the callback keeps it for the others. *)
WorkerId(s, n) == s % NumWorkers

RecvThen(s, waits) ==
    /\ sess[s] = "in" /\ ~isClosed
    /\ FoldFunction(+, 0, sent) < MaxMessages
    /\ LET n == sent[s] + 1
           w == WorkerId(s, n)
       IN  /\ waits => Len(jobs[w]) < QueueCap
           /\ jobs' = [jobs EXCEPT ![w] =
                         IF Len(@) < QueueCap
                           THEN Append(@, [from |-> s, n |-> n, worker |-> w]) ELSE @]
           /\ sent' = [sent EXCEPT ![s] = n]
    /\ UNCHANGED <<shared, work, handled, recycled, parallel, isClosed, release>>

RecvDropping(s) == RecvThen(s, FALSE)

(* recv: read a message and AddJobSerial it, when there is room. *)
Recv(s) == RecvThen(s, TRUE)

(* AddJobParallel leaves WorkerID as it finds it: -1 in a new job, that of its
   last use in one from jobPool. *)
AddJobParallel ==
    /\ parallel < MaxParallel /\ Len(shared) < SharedCap
    /\ \E w \in recycled \cup {NoWorker} :
          shared' = Append(shared, [from |-> NoWorker, n |-> parallel, worker |-> w])
    /\ parallel' = parallel + 1
    /\ UNCHANGED <<sent, jobs, work, handled, recycled, isClosed, release>>

(* Worker.Start: the select of an idle worker. *)
TakeJob(w) ==
    /\ work[w] = IdleWork /\ jobs[w] # <<>>
    /\ work' = [work EXCEPT ![w] = [doing |-> "run", job |-> Head(jobs[w])]]
    /\ jobs' = [jobs EXCEPT ![w] = Tail(@)]
    /\ UNCHANGED <<sent, shared, handled, recycled, parallel, isClosed, release>>

TakeShared(w) ==
    /\ work[w] = IdleWork /\ shared # <<>>
    /\ work' = [work EXCEPT ![w] =
          [doing |-> IF Head(shared).worker = NoWorker THEN "run" ELSE "forward",
           job |-> Head(shared)]]
    /\ shared' = Tail(shared)
    /\ UNCHANGED <<sent, jobs, handled, recycled, parallel, isClosed, release>>

(* A job of another worker goes to that worker's queue when it has room. *)
Forward(w) ==
    /\ work[w].doing = "forward"
    /\ LET v == work[w].job.worker
       IN  /\ Len(jobs[v]) < QueueCap
           /\ jobs' = [jobs EXCEPT ![v] = Append(@, work[w].job)]
    /\ work' = [work EXCEPT ![w] = IdleWork]
    /\ UNCHANGED <<sent, shared, handled, recycled, parallel, isClosed, release>>

(* Route: the API method for the message, if there is one and its body can be
   decoded; a panic of the method is recovered. *)
Route(job) ==
    handled' = IF job.from \in Sessions
                 THEN [handled EXCEPT ![job.from] = Append(@, job.n)] ELSE handled

(* The job goes back to jobPool as it is. *)
Recycle(job) == recycled' = recycled \cup ({job.worker} \ {NoWorker})

JobRuns(w) ==
    /\ work[w].doing = "run"
    /\ Route(work[w].job) /\ Recycle(work[w].job)
    /\ work' = [work EXCEPT ![w] = IdleWork]
    /\ UNCHANGED <<sent, jobs, shared, parallel, isClosed, release>>

(* Server.Shutdown, and Release, which waits for each worker in turn. *)
Shutdown ==
    /\ ~isClosed
    /\ isClosed' = TRUE
    /\ release' = SetToSeq(Workers)
    /\ UNCHANGED <<sent, jobs, shared, work, handled, recycled, parallel>>

StopWorker(w) ==
    /\ isClosed /\ release # <<>> /\ w = Head(release)
    /\ work[w] = IdleWork
    /\ work' = [work EXCEPT ![w] = [doing |-> "stopped"]]
    /\ release' = Tail(release)
    /\ UNCHANGED <<sent, jobs, shared, handled, recycled, parallel, isClosed>>

WorkerStep(w) == TakeJob(w) \/ TakeShared(w) \/ Forward(w) \/ JobRuns(w)

FrontNext ==
    \/ AddJobParallel
    \/ \E s \in Sessions : Recv(s)
    \/ \E w \in Workers : WorkerStep(w) \/ StopWorker(w)
-----------------------------------------------------------------------------
(* "the worker id ensures that one connection is handled by one thread, fewer
   races, in order" (gPool.go:23): a session's messages are handled in the
   order in which they came, one at a time. *)
SessionOrder ==
    \A s \in Sessions :
       /\ \A i \in 1 .. Len(handled[s]) : handled[s][i] = i
       /\ \A w, v \in Workers :
             work[w].doing = "run" /\ work[v].doing = "run"
                /\ work[w].job.from = s /\ work[v].job.from = s => w = v

(* Worker w has a job that it cannot forward, perhaps into its own queue. *)
Stuck(w) ==
    work[w].doing = "forward" /\ Len(jobs[work[w].job.worker]) = QueueCap
=============================================================================
