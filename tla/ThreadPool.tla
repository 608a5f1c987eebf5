----------------------------- MODULE ThreadPool -----------------------------
(***************************************************************************)
(* hCommon/threadpool/threadpool.go: the worker pool of the ECS runtime.   *)
(*                                                                         *)
(* The pool has two mutexes: `lock` protects its fields, and `any` is held *)
(* while a task is active, so that Wait, which locks and unlocks it,       *)
(* blocks until then.  Every element of Tasks is run once by some producer *)
(* (Run); every element of Waiters calls Wait once.                        *)
(***************************************************************************)
EXTENDS Integers, Sequences, FiniteSets

CONSTANTS Tasks, Waiters, MaxThreads, Nobody, Pool

ASSUME PoolAssumption == IsFiniteSet(Tasks) /\ MaxThreads \in Int

ASSUME NamesAssumption ==
    /\ Tasks \cap Waiters = {}
    /\ Nobody \notin Tasks \cup Waiters \cup {Pool}
    /\ Pool \notin Waiters

VARIABLES
    active,     \* ThreadPool.active
    pending,    \* ThreadPool.pending
    lock,       \* the task whose Run or completion holds ThreadPool.lock
    any,        \* holder of ThreadPool.any: the pool, a waiter or nobody
    tpc,        \* per task: new, starting (Run is in activeUp), queued,
                \*   running, finishing (its deferred function runs), done
    wpc,        \* per waiter: idle, wait, locked, ret
    owed        \* per waiter: the tasks submitted before its Wait

vars == <<active, pending, lock, any, tpc, wpc, owed>>

Init ==
    /\ active = 0 /\ pending = <<>> /\ lock = Nobody /\ any = Nobody
    /\ tpc = [t \in Tasks |-> "new"]
    /\ wpc = [w \in Waiters |-> "idle"]
    /\ owed = [w \in Waiters |-> {}]

(* activeUp's condition. *)
ThreadFree == MaxThreads < 0 \/ active < MaxThreads

(* activeUp, once there is a thread for t: the first active task locks `any`,
   which a waiter may be holding. *)
ActiveUp ==
    /\ active' = active + 1
    /\ IF active = 0 THEN any = Nobody /\ any' = Pool ELSE any' = any

(* activeDown: the last active task unlocks `any`. *)
ActiveDown ==
    /\ active' = active - 1
    /\ any' = (IF active = 1 THEN Nobody ELSE any)

(* Run takes the lock ... *)
Run(t) ==
    /\ tpc[t] = "new" /\ lock = Nobody
    /\ lock' = t
    /\ tpc' = [tpc EXCEPT ![t] = "starting"]
    /\ UNCHANGED <<active, pending, any, wpc, owed>>

(* ... and starts a thread for the task, or queues it. *)
RunUnderLock(t) ==
    /\ tpc[t] = "starting"
    /\ IF ThreadFree
         THEN /\ ActiveUp
              /\ tpc' = [tpc EXCEPT ![t] = "running"]
              /\ UNCHANGED pending
         ELSE /\ pending' = Append(pending, t)
              /\ tpc' = [tpc EXCEPT ![t] = "queued"]
              /\ UNCHANGED <<active, any>>
    /\ lock' = Nobody
    /\ UNCHANGED <<wpc, owed>>

(* The task returns or panics: its deferred function takes the lock, recovers,
   and runs activeDown and the postprocessing ... *)
TaskEnds(t) ==
    /\ tpc[t] = "running" /\ lock = Nobody
    /\ lock' = t
    /\ ActiveDown
    /\ tpc' = [tpc EXCEPT ![t] = "finishing"]
    /\ UNCHANGED <<pending, wpc, owed>>

(* ... then nextTask takes the head of pending and runs it like Run, lock in
   hand: on the thread just freed, or back to the list if there is none.  `q`
   is the list examined, `next` the task taken, `rest` what is left. *)
NextTaskFrom(t, q, next, rest) ==
    /\ tpc[t] = "finishing"
    /\ IF q = <<>>
         THEN /\ tpc' = [tpc EXCEPT ![t] = "done"]
              /\ UNCHANGED <<active, pending, any>>
         ELSE IF ThreadFree
           THEN /\ ActiveUp
                /\ tpc' = [tpc EXCEPT ![t] = "done", ![next] = "running"]
                /\ pending' = rest
           ELSE /\ pending' = Append(rest, next)
                /\ tpc' = [tpc EXCEPT ![t] = "done"]
                /\ UNCHANGED <<active, any>>
    /\ lock' = Nobody
    /\ UNCHANGED <<wpc, owed>>

NextTaskForgotten(t) == NextTaskFrom(t, <<>>, t, <<>>)
NextTaskNewest(t) ==
    NextTaskFrom(t, pending, pending[Len(pending)],
                 SubSeq(pending, 1, Len(pending) - 1))

NextTask(t) == NextTaskFrom(t, pending, Head(pending), Tail(pending))

(* Wait: any.Lock(); any.Unlock(). *)
WaitCall(w) ==
    /\ wpc[w] = "idle"
    /\ wpc' = [wpc EXCEPT ![w] = "wait"]
    /\ owed' = [owed EXCEPT ![w] =
                  {t \in Tasks : tpc[t] \in {"queued", "running"}}]
    /\ UNCHANGED <<active, pending, lock, any, tpc>>

WaitLock(w) ==
    /\ wpc[w] = "wait" /\ any = Nobody
    /\ any' = w
    /\ wpc' = [wpc EXCEPT ![w] = "locked"]
    /\ UNCHANGED <<active, pending, lock, tpc, owed>>

WaitUnlock(w) ==
    /\ wpc[w] = "locked"
    /\ any' = Nobody
    /\ wpc' = [wpc EXCEPT ![w] = "ret"]
    /\ UNCHANGED <<active, pending, lock, tpc, owed>>

TaskStep(t) == RunUnderLock(t) \/ TaskEnds(t) \/ NextTask(t)

WaitStep(w) == WaitLock(w) \/ WaitUnlock(w)

Next ==
    \/ \E t \in Tasks : Run(t) \/ TaskStep(t)
    \/ \E w \in Waiters : WaitCall(w) \/ WaitStep(w)

Spec == Init /\ [][Next]_vars
-----------------------------------------------------------------------------
Running == {t \in Tasks : tpc[t] = "running"}

(* Types; `active` never goes below zero, however completions and Runs are
   interleaved (threadpool.go:113-118). *)
TypeOK ==
    /\ active \in Nat
    /\ pending \in Seq(Tasks)
    /\ lock \in Tasks \cup {Nobody}
    /\ any \in Waiters \cup {Pool, Nobody}
    /\ tpc \in [Tasks -> {"new", "starting", "queued", "running", "finishing",
                          "done"}]
    /\ wpc \in [Waiters -> {"idle", "wait", "locked", "ret"}]
    /\ owed \in [Waiters -> SUBSET Tasks]

(* `active` is the number of tasks that have a thread, and never exceeds
   MaxThreads (threadpool.go:102-103), whatever the order of Run, completions
   and the restart of queued tasks. *)
ActiveCounted ==
    /\ active = Cardinality(Running)
    /\ MaxThreads < 0 \/ active <= MaxThreads \/ active = 0

(* No task waits while a thread is free: whenever the lock is free, a queued
   task means that all MaxThreads threads are busy (threadpool.go:82-87). *)
WorkConserved == lock = Nobody /\ pending # <<>> => active = MaxThreads

(* The task list is what it should be: pending holds the queued tasks, each
   once, in the order they were refused a thread. *)
PendingExact ==
    /\ {pending[i] : i \in 1 .. Len(pending)} = {t \in Tasks : tpc[t] = "queued"}
    /\ \A i, j \in 1 .. Len(pending) : pending[i] = pending[j] => i = j

(* The pool holds `any` exactly while a task is active: Wait cannot return
   while `active` is positive (threadpool.go:101-118). *)
AnyMeansActive == any = Pool <=> active > 0

(* Wait "blocks until all tasks are completed" (threadpool.go:94): when it
   returns, the tasks that were queued or running when it was called have ended. *)
WaitMeansDone ==
    \A w \in Waiters :
       wpc[w] = "ret" => \A t \in owed[w] : tpc[t] \in {"finishing", "done"}

(* Every task handed to Run is completed, unless there are no threads at all. *)
TasksComplete ==
    MaxThreads # 0 => \A t \in Tasks : tpc[t] = "starting" ~> tpc[t] = "done"

Busy  == {t \in Tasks : tpc[t] \in {"running", "finishing"}}
Ended == {t \in Tasks : tpc[t] = "done"}

(* The pool implements TaskPool: a completion, from activeDown to nextTask, is
   one step of it although `active` and `any` change in between. *)
Abstract ==
    INSTANCE TaskPool
    WITH queue    <- pending,
         running  <- Busy,
         finished <- Ended

(* The refinement itself: ThreadPool's behaviours are TaskPool's. *)
ImplementsTaskPool == Abstract!Spec
=============================================================================
