--------------------------- MODULE LibraryProofs ----------------------------
(***************************************************************************)
(* Proofs about the shared data structures, for every value of their       *)
(* constants: the thread pool (no task is lost, and it refines TaskPool),  *)
(* the synchronised queue (a FIFO that loses no wakeup), the time wheel    *)
(* (timers fire on time) and the object tree (every object is destroyed at *)
(* most once).  Behaviours of module Library satisfy the specification of  *)
(* each part, so the four groups of theorems are about what TLC runs.      *)
(***************************************************************************)
EXTENDS Library, QueueLemmas, FiniteSetTheorems, TLAPS

-----------------------------------------------------------------------------
(* The thread pool                                                           *)

(* ThreadPool.lock is held by the task that is between Run and its unlock, or
   between its end and nextTask. *)
LockInv == \A t \in Tasks : tpc[t] \in {"starting", "finishing"} <=> lock = t

(* A waiter holds `any` between the two halves of Wait. *)
WaitInv == \A w \in Waiters : wpc[w] = "locked" <=> any = w

(* `active` is the number of running tasks. *)
CountInv == active = Cardinality(Running)

BoundInv == MaxThreads >= 0 => active <= MaxThreads

(* While a task is queued all threads are busy, but for the one whose task is
   just finishing. *)
WorkInv ==
    pending # <<>> =>
       /\ MaxThreads >= 0
       /\ active = IF \E t \in Tasks : tpc[t] = "finishing"
                     THEN MaxThreads - 1 ELSE MaxThreads

PoolInv ==
    /\ TypeOK /\ LockInv /\ WaitInv /\ CountInv /\ BoundInv /\ WorkInv
    /\ AnyMeansActive

-----------------------------------------------------------------------------
(* Adding or removing one running task changes the count by one. *)
LEMMA RunningFinite == IsFiniteSet(Running)
  BY PoolAssumption, FS_Subset DEF Running

LEMMA RunningGrows ==
  ASSUME NEW t \in Tasks, t \notin Running, Running' = Running \cup {t}
  PROVE  Cardinality(Running') = Cardinality(Running) + 1
  BY RunningFinite, FS_AddElement

LEMMA RunningShrinks ==
  ASSUME NEW t \in Running, Running' = Running \ {t}
  PROVE  Cardinality(Running') = Cardinality(Running) - 1 /\ Cardinality(Running) > 0
  <1>1. Cardinality(Running') = Cardinality(Running) - 1
    BY RunningFinite, FS_RemoveElement
  <1>2. Cardinality(Running) \in Nat /\ Cardinality(Running) # 0
    BY RunningFinite, FS_CardinalityType, FS_EmptySet
  <1> QED BY <1>1, <1>2

LEMMA PendingElems ==
  PendingExact <=>
     Elems(pending) = {t \in Tasks : tpc[t] = "queued"} /\ Distinct(pending)
  BY DEF PendingExact, Elems, Distinct

LEMMA HeadQueued ==
  ASSUME TypeOK, PendingExact, pending # <<>>
  PROVE  Head(pending) \in Tasks /\ tpc[Head(pending)] = "queued"
  BY PendingElems, TailElems DEF TypeOK

LEMMA InitInv == Init => PoolInv
  <1> SUFFICES ASSUME Init PROVE PoolInv
    OBVIOUS
  <1> USE NamesAssumption DEF Init
  <1>1. TypeOK
    BY DEF TypeOK
  <1>2. CountInv
    <2>1. Running = {}
      BY DEF Running
    <2> QED BY <2>1, FS_EmptySet DEF CountInv
  <1> QED BY <1>1, <1>2, PoolAssumption
       DEF PoolInv, LockInv, WaitInv, BoundInv, WorkInv, AnyMeansActive

LEMMA RunInv ==
  ASSUME PoolInv, NEW t \in Tasks, Run(t)
  PROVE  PoolInv'
  <1> USE NamesAssumption, PoolAssumption DEF PoolInv, Run
  <1>1. TypeOK'
    BY DEF TypeOK
  <1>2. LockInv' /\ WaitInv'
    BY DEF LockInv, WaitInv, TypeOK
  <1>3. CountInv'
    <2>1. Running' = Running
      BY DEF Running, TypeOK
    <2> QED BY <2>1 DEF CountInv
  <1>4. WorkInv'
    BY DEF WorkInv, LockInv, TypeOK
  <1> QED BY <1>1, <1>2, <1>3, <1>4 DEF BoundInv, AnyMeansActive

LEMMA RunUnderLockInv ==
  ASSUME PoolInv, NEW t \in Tasks, RunUnderLock(t)
  PROVE  PoolInv'
  <1> USE NamesAssumption, PoolAssumption DEF PoolInv, RunUnderLock
  <1>1. TypeOK'
    BY DEF TypeOK, ActiveUp
  <1>2. LockInv' /\ WaitInv'
    BY DEF LockInv, WaitInv, ActiveUp, TypeOK
  <1>3. CASE ThreadFree
    <2>1. Running' = Running \cup {t} /\ t \notin Running
      BY <1>3 DEF Running, TypeOK
    <2>2. CountInv'
      BY <1>3, <2>1, RunningGrows DEF CountInv, ActiveUp
    <2>3. AnyMeansActive'
      BY <1>3 DEF AnyMeansActive, ActiveUp, TypeOK
    <2>4. BoundInv' /\ WorkInv'
      BY <1>3 DEF BoundInv, WorkInv, ActiveUp, ThreadFree, LockInv, TypeOK
    <2> QED BY <1>1, <1>2, <2>2, <2>3, <2>4
  <1>4. CASE ~ThreadFree
    <2>1. Running' = Running
      BY <1>4 DEF Running, TypeOK
    <2>2. CountInv' /\ AnyMeansActive' /\ BoundInv'
      BY <1>4, <2>1 DEF CountInv, AnyMeansActive, BoundInv
    <2>3. WorkInv'
      BY <1>4 DEF BoundInv, WorkInv, ThreadFree, LockInv, TypeOK
    <2> QED BY <1>1, <1>2, <2>2, <2>3
  <1> QED BY <1>3, <1>4

LEMMA TaskEndsInv ==
  ASSUME PoolInv, NEW t \in Tasks, TaskEnds(t)
  PROVE  PoolInv'
  <1> USE NamesAssumption, PoolAssumption DEF PoolInv, TaskEnds, ActiveDown
  <1>1. t \in Running /\ Running' = Running \ {t}
    BY DEF Running, TypeOK
  <1>2. CountInv' /\ active > 0
    BY <1>1, RunningShrinks DEF CountInv
  <1>3. TypeOK'
    BY <1>2 DEF TypeOK
  <1>4. LockInv' /\ WaitInv' /\ AnyMeansActive'
    BY <1>2 DEF LockInv, WaitInv, AnyMeansActive, TypeOK
  <1>5. BoundInv' /\ WorkInv'
    BY <1>2 DEF BoundInv, WorkInv, LockInv, TypeOK
  <1> QED BY <1>2, <1>3, <1>4, <1>5

(* The thread that finishes is the one that nextTask takes: ThreadFree holds. *)
LEMMA NextTaskInv ==
  ASSUME PoolInv, PendingExact, NEW t \in Tasks, NextTask(t)
  PROVE  PoolInv'
  <1> USE NamesAssumption, PoolAssumption DEF PoolInv, NextTask, NextTaskFrom
  <1>1. CASE pending = <<>>
    <2>1. TypeOK' /\ LockInv' /\ WaitInv' /\ AnyMeansActive'
      BY <1>1 DEF TypeOK, LockInv, WaitInv, AnyMeansActive
    <2>2. Running' = Running
      BY <1>1 DEF Running, TypeOK
    <2>3. CountInv' /\ BoundInv' /\ WorkInv'
      BY <1>1, <2>2 DEF CountInv, BoundInv, WorkInv
    <2> QED BY <2>1, <2>3
  <1>2. CASE pending # <<>>
    <2> DEFINE n == Head(pending)
    <2>1. n \in Tasks /\ tpc[n] = "queued" /\ n # t
      BY <1>2, HeadQueued DEF TypeOK
    <2>2. ThreadFree /\ MaxThreads >= 0 /\ active = MaxThreads - 1
      BY <1>2 DEF WorkInv, ThreadFree, TypeOK
    <2>3. /\ ActiveUp /\ pending' = Tail(pending)
          /\ tpc' = [tpc EXCEPT ![t] = "done", ![n] = "running"]
      BY <1>2, <2>2
    <2>4. pending' \in Seq(Tasks)
      BY <1>2, <2>3 DEF TypeOK
    <2>5. TypeOK'
      BY <2>1, <2>3, <2>4 DEF TypeOK, ActiveUp
    <2>6. LockInv' /\ WaitInv'
      BY <2>1, <2>3 DEF LockInv, WaitInv, ActiveUp, TypeOK
    <2>7. AnyMeansActive'
      BY <2>3 DEF AnyMeansActive, ActiveUp, TypeOK
    <2>8. Running' = Running \cup {n} /\ n \notin Running
      BY <2>1, <2>3 DEF Running, TypeOK
    <2>9. CountInv'
      BY <2>1, <2>3, <2>8, RunningGrows DEF CountInv, ActiveUp
    <2>10. BoundInv' /\ WorkInv'
      BY <2>1, <2>2, <2>3 DEF BoundInv, WorkInv, ActiveUp, LockInv, TypeOK
    <2> QED BY <2>5, <2>6, <2>7, <2>9, <2>10
  <1> QED BY <1>1, <1>2

LEMMA WaitInvs ==
  ASSUME PoolInv, NEW w \in Waiters, WaitCall(w) \/ WaitStep(w)
  PROVE  PoolInv'
  <1> USE NamesAssumption, PoolAssumption
       DEF PoolInv, WaitCall, WaitStep, WaitLock, WaitUnlock
  <1>1. TypeOK'
    BY DEF TypeOK
  <1>2. LockInv' /\ WaitInv' /\ AnyMeansActive'
    BY DEF LockInv, WaitInv, AnyMeansActive, TypeOK
  <1>3. CountInv' /\ BoundInv' /\ WorkInv'
    BY DEF CountInv, Running, BoundInv, WorkInv
  <1> QED BY <1>1, <1>2, <1>3
-----------------------------------------------------------------------------
(* pending holds exactly the queued tasks, through every step.               *)

LEMMA PendingKept ==
  ASSUME PoolInv, PendingExact, [Next]_vars
  PROVE  PendingExact'
  <1> DEFINE Queued == {t \in Tasks : tpc[t] = "queued"}
  <1> SUFFICES Elems(pending') = Queued' /\ Distinct(pending')
    BY DEF PendingExact, Elems, Distinct
  <1>0. Elems(pending) = Queued /\ Distinct(pending) /\ pending \in Seq(Tasks)
    BY PendingElems DEF PoolInv, TypeOK
  <1>1. CASE pending' = pending /\ Queued' = Queued
    BY <1>0, <1>1
  <1>2. ASSUME NEW t \in Tasks, Run(t) \/ TaskEnds(t) PROVE Queued' = Queued /\ pending' = pending
    BY <1>2 DEF Run, TaskEnds, PoolInv, TypeOK
  <1>3. ASSUME NEW t \in Tasks, RunUnderLock(t)
        PROVE  Elems(pending') = Queued' /\ Distinct(pending')
    <2>1. CASE ThreadFree
      <3>1. Queued' = Queued /\ pending' = pending
        BY <1>3, <2>1 DEF RunUnderLock, PoolInv, TypeOK
      <3> QED BY <3>1, <1>0
    <2>2. CASE ~ThreadFree
      <3>1. Queued' = Queued \cup {t} /\ t \notin Queued /\ pending' = Append(pending, t)
        BY <1>3, <2>2 DEF RunUnderLock, PoolInv, TypeOK
      <3> QED BY <3>1, <1>0, AppendElems
    <2> QED BY <2>1, <2>2
  <1>4. ASSUME NEW t \in Tasks, NextTask(t)
        PROVE  Elems(pending') = Queued' /\ Distinct(pending')
    <2>1. CASE pending = <<>>
      <3>1. Queued' = Queued /\ pending' = pending
        BY <1>4, <2>1 DEF NextTask, NextTaskFrom, PoolInv, TypeOK
      <3> QED BY <3>1, <1>0
    <2>2. CASE pending # <<>>
      <3>1. ThreadFree
        BY <1>4, <2>2, PoolAssumption
           DEF NextTask, NextTaskFrom, PoolInv, WorkInv, ThreadFree, TypeOK
      <3>2. Head(pending) \in Tasks /\ tpc[Head(pending)] = "queued"
        BY <2>2, HeadQueued DEF PoolInv
      <3>3. Queued' = Queued \ {Head(pending)} /\ pending' = Tail(pending)
        BY <1>4, <2>2, <3>1, <3>2 DEF NextTask, NextTaskFrom, PoolInv, TypeOK
      <3> QED BY <3>3, <1>0, <2>2, TailElems
    <2> QED BY <2>1, <2>2
  <1>5. ASSUME NEW w \in Waiters, WaitCall(w) \/ WaitStep(w) PROVE Queued' = Queued /\ pending' = pending
    BY <1>5 DEF WaitCall, WaitStep, WaitLock, WaitUnlock
  <1>6. CASE UNCHANGED vars
    BY <1>0, <1>6 DEF vars
  <1> QED BY <1>1, <1>2, <1>3, <1>4, <1>5, <1>6 DEF Next, TaskStep

LEMMA NextInv ==
  ASSUME PoolInv, PendingExact, [Next]_vars
  PROVE  PoolInv'
  <1>1. CASE UNCHANGED vars
    BY <1>1 DEF vars, PoolInv, TypeOK, LockInv, WaitInv, CountInv, Running,
                BoundInv, WorkInv, AnyMeansActive
  <1> QED BY <1>1, RunInv, RunUnderLockInv, TaskEndsInv, NextTaskInv, WaitInvs
       DEF Next, TaskStep

LEMMA InductiveInv == Spec => [](PoolInv /\ PendingExact)
  <1>1. Init => PendingExact
    BY DEF Init, PendingExact
  <1>2. (PoolInv /\ PendingExact) /\ [Next]_vars => (PoolInv /\ PendingExact)'
    BY NextInv, PendingKept
  <1> QED BY <1>1, <1>2, InitInv, PTL DEF Spec

(* The types, in particular that `active` is never negative. *)
THEOREM TypeCorrect == Spec => []TypeOK
  <1>1. PoolInv => TypeOK
    BY DEF PoolInv
  <1> QED BY <1>1, InductiveInv, PTL

(* `active` counts the running tasks, at most MaxThreads of them, for any
   number of tasks and threads (threadpool.go:101-118). *)
THEOREM ActiveIsCounted == Spec => []ActiveCounted
  <1>1. PoolInv => ActiveCounted
    BY PoolAssumption DEF PoolInv, ActiveCounted, CountInv, BoundInv, TypeOK
  <1> QED BY <1>1, InductiveInv, PTL

(* No task waits while a thread is free (threadpool.go:82-87). *)
THEOREM WorkIsConserved == Spec => []WorkConserved
  <1>1. PoolInv => WorkConserved
    BY NamesAssumption DEF PoolInv, WorkConserved, WorkInv, LockInv
  <1> QED BY <1>1, InductiveInv, PTL

(* The mutex `any`, on which Wait blocks, is the pool's exactly while some task
   is active (threadpool.go:101-118). *)
THEOREM AnyIsActive == Spec => []AnyMeansActive
  <1>1. PoolInv => AnyMeansActive
    BY DEF PoolInv
  <1> QED BY <1>1, InductiveInv, PTL

(* pending is the list of the queued tasks, each of them once. *)
THEOREM PendingIsExact == Spec => []PendingExact
  BY InductiveInv, PTL
-----------------------------------------------------------------------------
(* The refinement: RunUnderLock is Submit, NextTask is Finish, and every other
   step leaves the abstract queue and the two sets alone.                    *)

LEMMA SubmitStep ==
  ASSUME PoolInv, PendingExact, NEW t \in Tasks, RunUnderLock(t)
  PROVE  Abstract!Submit(t)
  <1> USE DEF PoolInv, RunUnderLock
  <1>1. Abstract!New(t)
    <2>1. t \notin Busy \cup Ended
      BY DEF Busy, Ended
    <2>2. \A i \in 1 .. Len(pending) : pending[i] # t
      BY DEF PendingExact
    <2> QED BY <2>1, <2>2 DEF Abstract!New
  <1>2. Running = Busy
    BY DEF Running, Busy, LockInv, TypeOK
  <1>3. Abstract!Free <=> ThreadFree
    <2>1. Abstract!Free <=> MaxThreads < 0 \/ Cardinality(Busy) < MaxThreads
      BY Zenon DEF Abstract!Free, Abstract!Cardinality, Cardinality
    <2> QED BY <1>2, <2>1 DEF ThreadFree, CountInv
  <1>4. Ended' = Ended
    BY DEF Ended, TypeOK
  <1>5. CASE ThreadFree
    <2>1. Busy' = Busy \cup {t} /\ pending' = pending
      BY <1>5 DEF Busy, TypeOK
    <2> QED BY <1>1, <1>3, <1>4, <1>5, <2>1 DEF Abstract!Submit
  <1>6. CASE ~ThreadFree
    <2>1. Busy' = Busy /\ pending' = Append(pending, t)
      BY <1>6 DEF Busy, TypeOK
    <2> QED BY <1>1, <1>3, <1>4, <1>6, <2>1 DEF Abstract!Submit
  <1> QED BY <1>5, <1>6

LEMMA FinishStep ==
  ASSUME PoolInv, PendingExact, NEW t \in Tasks, NextTask(t)
  PROVE  Abstract!Finish(t)
  <1> USE DEF PoolInv, NextTask, NextTaskFrom
  <1>1. t \in Busy
    BY DEF Busy
  <1>2. CASE pending = <<>>
    <2>1. Busy' = Busy \ {t} /\ Ended' = Ended \cup {t} /\ pending' = pending
      BY <1>2 DEF Busy, Ended, TypeOK
    <2> QED BY <1>1, <1>2, <2>1 DEF Abstract!Finish
  <1>3. CASE pending # <<>>
    <2>1. ThreadFree
      BY <1>3, PoolAssumption DEF WorkInv, ThreadFree, TypeOK
    <2>2. Head(pending) \in Tasks /\ tpc[Head(pending)] = "queued"
      BY <1>3, HeadQueued
    <2>3. /\ Busy' = (Busy \ {t}) \cup {Head(pending)}
          /\ Ended' = Ended \cup {t}
          /\ pending' = Tail(pending)
      BY <1>3, <2>1, <2>2 DEF Busy, Ended, TypeOK
    <2> QED BY <1>1, <1>3, <2>3 DEF Abstract!Finish
  <1> QED BY <1>2, <1>3

(* The pool implements TaskPool: tasks are started first come first served, and
   a thread is given to the oldest waiting task in the same step in which the
   task before it finishes (threadpool.go:53-87). *)
THEOREM PoolRefinement == Spec => ImplementsTaskPool
  <1>1. Init => Abstract!Init
    BY DEF Init, Abstract!Init, Busy, Ended
  <1>2. ASSUME PoolInv, PendingExact, [Next]_vars
        PROVE  [Abstract!Next]_(Abstract!poolVars)
    <2>1. ASSUME NEW t \in Tasks, Run(t) \/ TaskEnds(t)
          PROVE  UNCHANGED <<pending, Busy, Ended>>
      BY <1>2, <2>1 DEF Run, TaskEnds, Busy, Ended, PoolInv, TypeOK
    <2>2. ASSUME NEW w \in Waiters, WaitCall(w) \/ WaitStep(w)
          PROVE  UNCHANGED <<pending, Busy, Ended>>
      BY <2>2 DEF WaitCall, WaitStep, WaitLock, WaitUnlock, Busy, Ended
    <2>3. CASE UNCHANGED vars
      BY <2>3 DEF vars, Abstract!poolVars, Busy, Ended
    <2>4. CASE UNCHANGED <<pending, Busy, Ended>>
      BY <2>4 DEF Abstract!poolVars
    <2> QED BY <1>2, <2>1, <2>2, <2>3, <2>4, SubmitStep, FinishStep
         DEF Next, TaskStep, Abstract!Next
  <1> QED BY <1>1, <1>2, InductiveInv, PTL
       DEF Spec, ImplementsTaskPool, Abstract!Spec
-----------------------------------------------------------------------------
(* The synchronised queue                                                    *)

(* One goroutine more or less among the woken ones changes their number by
   one. *)
LEMMA WokenCount ==
    ASSUME QTypeOK, QTypeOK', NEW p \in Poppers,
           \A q \in Poppers \ {p} : popper'[q] = popper[q]
    PROVE  /\ IsFiniteSet(Woken) /\ IsFiniteSet(Woken')
           /\ Cardinality(Woken) \in Nat /\ Cardinality(Woken') \in Nat
           /\ popper[p] # "woken" /\ popper'[p] = "woken"
                => Cardinality(Woken') = Cardinality(Woken) + 1
           /\ popper[p] = "woken" /\ popper'[p] # "woken"
                => Cardinality(Woken') = Cardinality(Woken) - 1
           /\ popper[p] # "woken" /\ popper'[p] # "woken"
                => Cardinality(Woken') = Cardinality(Woken)
<1>1. /\ IsFiniteSet(Woken) /\ IsFiniteSet(Woken')
      /\ Cardinality(Woken) \in Nat /\ Cardinality(Woken') \in Nat
  <2>1. Woken \subseteq Poppers /\ Woken' \subseteq Poppers
    BY DEF Woken
  <2> QED BY <2>1, QueueAssumption, FS_Subset, FS_CardinalityType
<1>2. ASSUME popper[p] # "woken", popper'[p] = "woken"
      PROVE  Cardinality(Woken') = Cardinality(Woken) + 1
  <2>1. Woken' = Woken \cup {p} /\ p \notin Woken
    BY <1>2 DEF Woken
  <2> QED BY <1>1, <2>1, FS_AddElement
<1>3. ASSUME popper[p] = "woken", popper'[p] # "woken"
      PROVE  Cardinality(Woken') = Cardinality(Woken) - 1
  <2>1. Woken' = Woken \ {p} /\ p \in Woken
    BY <1>3 DEF Woken
  <2> QED BY <1>1, <2>1, FS_RemoveElement
<1>4. ASSUME popper[p] # "woken", popper'[p] # "woken"
      PROVE  Cardinality(Woken') = Cardinality(Woken)
  <2>1. Woken' = Woken
    BY <1>4 DEF Woken
  <2> QED BY <2>1
<1> QED BY <1>1, <1>2, <1>3, <1>4

(* Types are preserved. *)
LEMMA QTypeStep == QTypeOK /\ [QNext]_qvars => QTypeOK'
<1> SUFFICES ASSUME QTypeOK, [QNext]_qvars PROVE QTypeOK'
  OBVIOUS
<1> USE DEF QTypeOK
<1>1. CASE Push
  BY <1>1 DEF Push, Signal, InWait
<1>2. CASE TryPop
  BY <1>2 DEF TryPop, Take
<1>3. CASE QClose
  BY <1>3 DEF QClose, Signal, InWait
<1>4. ASSUME NEW p \in Poppers, Pop(p) PROVE QTypeOK'
  <2>1. /\ popper' \in [Poppers -> {"out", "waiting", "woken"}]
        /\ qclosed' = qclosed /\ pushed' = pushed
    BY <1>4 DEF Pop
  <2>2. Take \/ TakeNothing
    BY <1>4 DEF Pop
  <2>3. CASE Take
    BY <2>1, <2>3 DEF Take
  <2>4. CASE TakeNothing
    BY <2>1, <2>4 DEF TakeNothing
  <2> QED BY <2>2, <2>3, <2>4
<1>5. CASE UNCHANGED qvars
  BY <1>5 DEF qvars
<1> QED BY <1>1, <1>2, <1>3, <1>4, <1>5 DEF QNext

(* Signal wakes one of those that wait, and nobody begins to wait. *)
LEMMA SignalWakes ==
    ASSUME QTypeOK, QTypeOK', Signal
    PROVE  /\ InWait = {} => InWait' = {}
           /\ InWait # {} => Cardinality(Woken') = Cardinality(Woken) + 1
           /\ InWait # {} => Cardinality(Woken) \in Nat
<1>1. CASE InWait = {}
  BY <1>1 DEF Signal, InWait
<1>2. CASE InWait # {}
  <2>1. PICK p \in InWait : popper' = [popper EXCEPT ![p] = "woken"]
    BY <1>2 DEF Signal
  <2>2. p \in Poppers /\ popper[p] # "woken" /\ popper'[p] = "woken"
    BY <2>1 DEF InWait, QTypeOK
  <2>3. \A q \in Poppers \ {p} : popper'[q] = popper[q]
    BY <2>1 DEF QTypeOK
  <2> QED BY <1>2, <2>2, <2>3, WokenCount
<1> QED BY <1>1, <1>2

(* The head of the queue is the next value: a Take keeps the order. *)
LEMMA TakeFifo ==
    ASSUME QTypeOK, QueueFifo, Take, pushed' = pushed
    PROVE  QueueFifo'
<1>1. /\ Len(taken') = Len(taken) + 1 /\ Len(qbuffer') = Len(qbuffer) - 1
      /\ \A i \in 1 .. Len(taken) : taken'[i] = taken[i]
      /\ taken'[Len(taken) + 1] = qbuffer[1]
      /\ \A i \in 1 .. Len(qbuffer) - 1 : qbuffer'[i] = qbuffer[i + 1]
      /\ Len(qbuffer) \in Nat \ {0} /\ Len(taken) \in Nat
  BY DEF Take, QTypeOK
<1>2. Len(taken') + Len(qbuffer') = pushed'
  BY <1>1 DEF QueueFifo
<1>3. ASSUME NEW i \in 1 .. Len(taken') PROVE taken'[i] = i
  <2>1. CASE i \in 1 .. Len(taken)
    BY <1>1, <2>1 DEF QueueFifo
  <2>2. CASE i = Len(taken) + 1
    BY <1>1, <2>2 DEF QueueFifo
  <2> QED BY <1>1, <2>1, <2>2
<1>4. ASSUME NEW i \in 1 .. Len(qbuffer') PROVE qbuffer'[i] = Len(taken') + i
  BY <1>1 DEF QueueFifo
<1> QED BY <1>2, <1>3, <1>4 DEF QueueFifo

(* Every step keeps the queue a FIFO. *)
LEMMA FifoStep == QTypeOK /\ QueueFifo /\ [QNext]_qvars => QueueFifo'
<1> SUFFICES ASSUME QTypeOK, QueueFifo, [QNext]_qvars PROVE QueueFifo'
  OBVIOUS
<1>1. CASE Push
  <2>1. /\ Len(qbuffer') = Len(qbuffer) + 1 /\ taken' = taken
        /\ \A i \in 1 .. Len(qbuffer) : qbuffer'[i] = qbuffer[i]
        /\ qbuffer'[Len(qbuffer) + 1] = pushed + 1 /\ pushed' = pushed + 1
        /\ Len(qbuffer) \in Nat /\ Len(taken) \in Nat /\ pushed \in Nat
    BY <1>1 DEF Push, QTypeOK
  <2>2. Len(taken') + Len(qbuffer') = pushed'
    BY <2>1 DEF QueueFifo
  <2>3. \A i \in 1 .. Len(taken') : taken'[i] = i
    BY <2>1 DEF QueueFifo
  <2>4. ASSUME NEW i \in 1 .. Len(qbuffer') PROVE qbuffer'[i] = Len(taken') + i
    <3>1. CASE i \in 1 .. Len(qbuffer)
      BY <2>1, <3>1 DEF QueueFifo
    <3>2. CASE i = Len(qbuffer) + 1
      BY <2>1, <3>2 DEF QueueFifo
    <3> QED BY <2>1, <3>1, <3>2
  <2> QED BY <2>2, <2>3, <2>4 DEF QueueFifo
<1>2. CASE TryPop
  BY <1>2, TakeFifo DEF TryPop
<1>3. CASE QClose
  BY <1>3 DEF QClose, QueueFifo
<1>4. ASSUME NEW p \in Poppers, Pop(p) PROVE QueueFifo'
  <2>1. pushed' = pushed /\ (Take \/ TakeNothing)
    BY <1>4 DEF Pop
  <2>2. CASE Take
    BY <2>1, <2>2, TakeFifo
  <2>3. CASE TakeNothing
    BY <2>1, <2>3 DEF TakeNothing, QueueFifo
  <2> QED BY <2>1, <2>2, <2>3
<1>5. CASE UNCHANGED qvars
  BY <1>5 DEF qvars, QueueFifo
<1> QED BY <1>1, <1>2, <1>3, <1>4, <1>5 DEF QNext

(* Every step keeps enough goroutines awake. *)
LEMMA WakeupStep ==
    QTypeOK /\ QTypeOK' /\ NoLostWakeup /\ [QNext]_qvars => NoLostWakeup'
<1> SUFFICES ASSUME QTypeOK, QTypeOK', NoLostWakeup, [QNext]_qvars,
                    InWait' # {}
             PROVE  Len(qbuffer') <= Cardinality(Woken')
  BY DEF NoLostWakeup
<1>0. Len(qbuffer) \in Nat /\ Len(qbuffer') \in Nat
  BY DEF QTypeOK
<1>1. CASE Push
  <2>1. Len(qbuffer') = Len(qbuffer) + 1
    BY <1>1 DEF Push, QTypeOK
  <2> QED BY <1>0, <1>1, <2>1, SignalWakes DEF Push, NoLostWakeup
<1>2. CASE TryPop
  <2>1. InWait' = InWait /\ Woken' = Woken
    BY <1>2 DEF TryPop, InWait, Woken
  <2>2. Len(qbuffer') = Len(qbuffer) - 1
    BY <1>2 DEF TryPop, Take, QTypeOK
  <2>3. Cardinality(Woken) \in Nat
    BY QueueAssumption, FS_Subset, FS_CardinalityType DEF Woken
  <2> QED BY <1>0, <2>1, <2>2, <2>3 DEF NoLostWakeup
<1>3. CASE QClose
  <2>1. qbuffer' = qbuffer
    BY <1>3 DEF QClose
  <2> QED BY <1>0, <1>3, <2>1, SignalWakes DEF QClose, NoLostWakeup
<1>4. ASSUME NEW p \in Poppers, Pop(p)
      PROVE  Len(qbuffer') <= Cardinality(Woken')
  <2>1. \A q \in Poppers \ {p} : popper'[q] = popper[q]
    BY <1>4 DEF Pop, QTypeOK
  <2>2. Cardinality(Woken) \in Nat /\ Cardinality(Woken') \in Nat
    BY <2>1, WokenCount
  <2>3. CASE qbuffer = <<>>
    <3>1. qbuffer' = <<>>
      BY <1>4, <2>3 DEF Pop, Take, TakeNothing
    <3> QED BY <2>2, <3>1
  <2>4. CASE qbuffer # <<>>
    <3>1. /\ popper' = [popper EXCEPT ![p] = "out"]
          /\ Len(qbuffer') = Len(qbuffer) - 1
          /\ popper[p] \in {"out", "woken"}
      BY <1>4, <2>4 DEF Pop, Take, TakeNothing, QTypeOK
    <3>2. InWait # {} /\ popper'[p] = "out"
      BY <3>1 DEF InWait, QTypeOK
    <3>3. Cardinality(Woken') >= Cardinality(Woken) - 1
      BY <2>1, <2>2, <3>1, <3>2, WokenCount
    <3> QED BY <1>0, <2>2, <3>1, <3>2, <3>3 DEF NoLostWakeup
  <2> QED BY <2>3, <2>4
<1>5. CASE UNCHANGED qvars
  BY <1>5 DEF qvars, NoLostWakeup, InWait, Woken
<1> QED BY <1>1, <1>2, <1>3, <1>4, <1>5 DEF QNext

(* The queue begins well. *)
LEMMA QueueStart == QInit => QTypeOK /\ QueueFifo /\ NoLostWakeup
<1> SUFFICES ASSUME QInit PROVE QTypeOK /\ QueueFifo /\ NoLostWakeup
  OBVIOUS
<1>1. QTypeOK
  <2>1. qbuffer \in Seq(Nat) /\ taken \in Seq(Nat) /\ pushed \in Nat
    BY DEF QInit
  <2>2. qclosed \in BOOLEAN
    BY Zenon DEF QInit
  <2>3. popper \in [Poppers -> {"out", "waiting", "woken"}]
    BY DEF QInit
  <2> QED BY <2>1, <2>2, <2>3 DEF QTypeOK
<1>2. Len(qbuffer) = 0 /\ Len(taken) = 0 /\ pushed = 0
  BY DEF QInit
<1>3. QueueFifo
  BY <1>2 DEF QueueFifo
<1>4. InWait = {}
  BY DEF QInit, InWait
<1> QED BY <1>1, <1>3, <1>4 DEF NoLostWakeup

(* For any number of goroutines, items come out of the queue once and in the
   order in which Push accepted them (syncQueue.go:26-99). *)
THEOREM QueueIsFifo == QSpec => [](QTypeOK /\ QueueFifo)
<1>1. QInit => QTypeOK /\ QueueFifo
  BY QueueStart
<1>2. QTypeOK /\ QueueFifo /\ [QNext]_qvars => (QTypeOK /\ QueueFifo)'
  BY QTypeStep, FifoStep
<1> QED BY <1>1, <1>2, PTL DEF QSpec

(* For any number of goroutines, none sleeps in Pop while the buffer holds more
   items than there are signalled goroutines on their way (syncQueue.go:31-38,
   94-97). *)
THEOREM QueueWakes == QSpec => []NoLostWakeup
<1>1. QInit => QTypeOK /\ NoLostWakeup
  BY QueueStart
<1>2. QTypeOK /\ NoLostWakeup /\ [QNext]_qvars => (QTypeOK /\ NoLostWakeup)'
  BY QTypeStep, WakeupStep
<1> QED BY <1>1, <1>2, PTL DEF QSpec
-----------------------------------------------------------------------------
(* The time wheel                                                            *)

(* Arithmetic of slots and ticks: a position that has gone at most once around
   a ring of n, the whole ticks in a time, and how many fit. *)
LEMMA ModOnce ==
  ASSUME NEW n \in Nat \ {0}, NEW x \in 0 .. 2 * n - 1
  PROVE  x % n = IF x < n THEN x ELSE x - n
  OBVIOUS

LEMMA WholeTicks ==
  ASSUME NEW t \in Nat, t > 0, NEW a \in Nat
  PROVE  /\ a \div t \in Nat /\ a % t \in 0 .. t - 1
         /\ (a \div t) * t = a - (a % t)
  <1>1. a % t \in 0 .. t - 1
    OBVIOUS
  <1>2. a \div t \in Int
    OBVIOUS
  <1>3. a = t * (a \div t) + (a % t)
    BY SMTT(60)
  <1>4. a \div t >= 0
    OBVIOUS
  <1>5. t * (a \div t) = (a \div t) * t
    BY <1>2
  <1> QED BY <1>1, <1>2, <1>3, <1>4, <1>5

LEMMA TickBound ==
  ASSUME NEW t \in Nat, t > 0, NEW n \in Nat, NEW a \in 0 .. t * n - 1
  PROVE  a \div t < n
  <1>1. /\ a \div t \in Nat /\ a % t \in 0 .. t - 1 /\ (a \div t) * t = a - (a % t)
    BY WholeTicks
  <1>2. PICK p \in Nat : p = a \div t
    BY <1>1
  <1>3. PICK m \in Nat : m = a % t
    BY <1>1
  <1>4. p * t <= a /\ a < t * n
    BY <1>1, <1>2, <1>3
  <1>5. ASSUME p >= n PROVE FALSE
    <2>1. p * t >= n * t
      BY <1>5
    <2> QED BY <1>4, <2>1
  <1> QED BY <1>2, <1>5

LEMMA Steps ==
  ASSUME NEW t \in Nat, t > 0, NEW k \in Nat \ {0}
  PROVE  k * t \in Nat /\ k * t >= t /\ (k - 1) * t = k * t - t
  OBVIOUS

(* A channel that After returned, as long as the wheel has not closed it. *)
Timer == [slot : 0 .. Size - 1, timeout : Nat, age : Nat]

(* The channel of r is the k-th to be closed from now on: r will then be `end`
   old, and that is on time. *)
RingsAt(r, k, end) ==
    /\ r.slot = currPos + k - 1 \/ r.slot = currPos + k - 1 - Size
    /\ end = r.age + (k * T - phase)
    /\ end <= r.timeout \/ end <= T
    /\ end + T >= r.timeout - (r.timeout % T)

(* Every channel that is open lies a number of slots ahead at which it will be
   closed on time. *)
WheelInv ==
    /\ currPos \in 0 .. Size - 1 /\ phase \in 0 .. T
    /\ timers \subseteq Timer
    /\ \A r \in timers : \E k \in 1 .. Size : \E end \in Nat : RingsAt(r, k, end)
    /\ \A r \in rung : r.age + T >= r.timeout - (r.timeout % T)

LEMMA WheelTypes == T \in Nat /\ T > 0 /\ Size \in Nat /\ Size > 1
  BY WheelAssumption DEF T, Size

LEMMA WheelStart == WInit => WheelInv
  BY WheelTypes DEF WInit, WheelInv

LEMMA WheelOnTime == WheelInv => OnTime
  <1> SUFFICES ASSUME WheelInv PROVE OnTime
    OBVIOUS
  <1>1. ASSUME NEW r \in timers PROVE r.age <= r.timeout \/ r.age <= T
    <2>1. PICK k \in 1 .. Size : \E end \in Nat : RingsAt(r, k, end)
      BY DEF WheelInv
    <2>2. PICK end \in Nat : RingsAt(r, k, end)
      BY <2>1
    <2>3. r.age \in Nat /\ r.timeout \in Nat /\ phase \in 0 .. T
      BY DEF WheelInv, Timer
    <2>4. k * T \in Nat /\ k * T >= T
      BY Steps, WheelTypes
    <2> QED BY <2>2, <2>3, <2>4, WheelTypes DEF RingsAt
  <1> QED BY <1>1 DEF WheelInv, OnTime

LEMMA PassOnTime ==
  ASSUME WheelInv, Pass
  PROVE  WheelInv'
  <1>1. /\ phase \in 0 .. T - 1 /\ phase' = phase + 1
        /\ timers' = {[r EXCEPT !.age = @ + 1] : r \in timers}
        /\ UNCHANGED <<currPos, rung>>
    BY WheelTypes DEF Pass, WheelInv
  <1>2. ASSUME NEW s \in timers'
        PROVE  s \in Timer /\ \E k \in 1 .. Size : \E end \in Nat : RingsAt(s, k, end)'
    <2>1. PICK r \in timers : s = [r EXCEPT !.age = @ + 1]
      BY <1>1
    <2>2. r \in Timer /\ r.age \in Nat
      BY DEF WheelInv, Timer
    <2>3. PICK a \in Nat : a = r.age + 1
      BY <2>2
    <2>4. [r EXCEPT !.age = a] \in Timer
      BY <2>2 DEF Timer
    <2>5. s.slot = r.slot /\ s.timeout = r.timeout /\ s.age = r.age + 1
      BY <2>1, <2>2 DEF Timer
    <2>6. PICK k \in 1 .. Size : \E end \in Nat : RingsAt(r, k, end)
      BY DEF WheelInv
    <2>7. PICK end \in Nat : RingsAt(r, k, end)
      BY <2>6
    <2>8. k * T \in Nat
      BY Steps, WheelTypes
    <2>9. end = s.age + (k * T - phase')
      BY <1>1, <2>2, <2>5, <2>7, <2>8, WheelTypes DEF RingsAt
    <2>10. RingsAt(s, k, end)'
      BY <1>1, <2>5, <2>7, <2>9 DEF RingsAt, T, Size
    <2>11. s \in Timer
      BY <2>1, <2>3, <2>4
    <2> QED BY <2>10, <2>11
  <1>3. phase' \in 0 .. T
    BY <1>1, WheelTypes
  <1> QED BY <1>1, <1>2, <1>3 DEF WheelInv, T, Size, Timer

LEMMA RunOnTime ==
  ASSUME WheelInv, WheelRun
  PROVE  WheelInv'
  <1>1. /\ phase = T /\ phase' = 0 /\ currPos' = (currPos + 1) % Size
        /\ rung' = {r \in timers : r.slot = currPos}
        /\ timers' = {r \in timers : r.slot # currPos}
    BY DEF WheelRun
  <1>2. /\ currPos \in 0 .. Size - 1
        /\ currPos' = IF currPos + 1 < Size THEN currPos + 1 ELSE currPos + 1 - Size
    <2>1. currPos \in 0 .. Size - 1 /\ currPos + 1 \in 0 .. 2 * Size - 1
      BY WheelTypes DEF WheelInv
    <2>2. (currPos + 1) % Size =
             IF currPos + 1 < Size THEN currPos + 1 ELSE currPos + 1 - Size
      BY <2>1, ModOnce, WheelTypes
    <2> QED BY <1>1, <2>1, <2>2
  <1>3. ASSUME NEW r \in timers,
               NEW k \in 1 .. Size, NEW end \in Nat, RingsAt(r, k, end)
        PROVE  /\ r.slot = currPos => r.age + T >= r.timeout - (r.timeout % T)
               /\ r.slot # currPos => k - 1 \in 1 .. Size /\ RingsAt(r, k - 1, end)'
    <2>1. r.slot \in 0 .. Size - 1 /\ r.age \in Nat /\ r.timeout \in Nat
      BY DEF WheelInv, Timer
    <2>2. k * T \in Nat /\ (k - 1) * T = k * T - T
      BY Steps, WheelTypes
    <2>3. ASSUME r.slot = currPos PROVE r.age + T >= r.timeout - (r.timeout % T)
      <3>1. k = 1
        BY <1>2, <1>3, <2>1, <2>3, WheelTypes DEF RingsAt
      <3>2. 1 * T = T
        BY WheelTypes
      <3>3. end = r.age
        BY <1>1, <1>3, <2>1, <3>1, <3>2, WheelTypes DEF RingsAt
      <3> QED BY <1>3, <3>3 DEF RingsAt
    <2>4. ASSUME r.slot # currPos PROVE k - 1 \in 1 .. Size /\ RingsAt(r, k - 1, end)'
      <3>1. k # 1
        BY <1>2, <1>3, <2>1, <2>4, WheelTypes DEF RingsAt
      <3>2. \/ r.slot = currPos' + (k - 1) - 1
            \/ r.slot = currPos' + (k - 1) - 1 - Size
        BY <1>2, <1>3, <2>1, <3>1, WheelTypes DEF RingsAt
      <3>3. end = r.age + ((k - 1) * T - phase')
        BY <1>1, <1>3, <2>1, <2>2, WheelTypes DEF RingsAt
      <3>4. RingsAt(r, k - 1, end)'
        BY <1>3, <3>2, <3>3 DEF RingsAt, T, Size
      <3>5. k - 1 \in 1 .. Size
        BY <3>1, WheelTypes
      <3> QED BY <3>4, <3>5
    <2> QED BY <2>3, <2>4
  <1>4. \A r \in rung' : r.age + T >= r.timeout - (r.timeout % T)
    BY <1>1, <1>3 DEF WheelInv
  <1>5. \A r \in timers' : \E k \in 1 .. Size : \E end \in Nat : RingsAt(r, k, end)'
    <2> SUFFICES ASSUME NEW r \in timers'
                 PROVE  \E k \in 1 .. Size : \E end \in Nat : RingsAt(r, k, end)'
      OBVIOUS
    <2>1. r \in timers /\ r.slot # currPos
      BY <1>1
    <2>2. PICK k \in 1 .. Size : \E end \in Nat : RingsAt(r, k, end)
      BY <2>1 DEF WheelInv
    <2>3. PICK end \in Nat : RingsAt(r, k, end)
      BY <2>2
    <2> QED BY <1>3, <2>1, <2>3
  <1>6. currPos' \in 0 .. Size - 1 /\ phase' \in 0 .. T /\ timers' \subseteq Timer
    BY <1>1, <1>2, WheelTypes DEF WheelInv
  <1> QED BY <1>4, <1>5, <1>6 DEF WheelInv, T, Size, Timer

LEMMA AfterOnTime ==
  ASSUME WheelInv, NEW d \in Timeouts, After(d)
  PROVE  WheelInv'
  <1> DEFINE p == d \div T
             n == IF p > 0 THEN p ELSE 1
             s == [slot |-> Slot(d), timeout |-> d, age |-> 0]
  <1>1. timers' = timers \cup {s} /\ UNCHANGED <<currPos, phase, rung>>
    BY DEF After
  <1>2. d \in Nat /\ d \in 0 .. T * Size - 1
    BY WheelAssumption, WheelTypes
  <1>3. /\ p \in Nat /\ d % T \in 0 .. T - 1 /\ p * T = d - (d % T)
    BY <1>2, WholeTicks, WheelTypes
  <1>4. p < Size
    BY <1>2, TickBound, WheelTypes
  <1>5. n \in 1 .. Size /\ n - 1 \in 0 .. Size - 1
    BY <1>3, <1>4, WheelTypes
  <1>6. currPos \in 0 .. Size - 1 /\ phase \in 0 .. T
    BY DEF WheelInv
  <1>7. Slot(d) = (currPos + (n - 1)) % Size
    <2>1. (IF p > 0 THEN p - 1 ELSE p) = n - 1
      BY <1>3
    <2> QED BY <2>1 DEF Slot
  <1>8. /\ Slot(d) \in 0 .. Size - 1
        /\ Slot(d) = currPos + n - 1 \/ Slot(d) = currPos + n - 1 - Size
    <2>1. currPos + (n - 1) \in 0 .. 2 * Size - 1
      BY <1>5, <1>6, WheelTypes
    <2> HIDE DEF n
    <2>2. PICK x \in 0 .. 2 * Size - 1 : x = currPos + (n - 1)
      BY <2>1
    <2>0. Size \in Nat \ {0}
      BY WheelTypes
    <2>3. x % Size = IF x < Size THEN x ELSE x - Size
      BY ONLY <2>0, x \in 0 .. 2 * Size - 1, ModOnce
    <2> QED BY <1>5, <1>6, <1>7, <2>2, <2>3, WheelTypes
  <1>9. s \in Timer /\ s.slot = Slot(d) /\ s.timeout = d /\ s.age = 0
    BY <1>2, <1>8 DEF Timer
  <1>10. n * T \in Nat /\ n * T >= T
    BY <1>5, Steps, WheelTypes
  <1>11. PICK end \in Nat : end = n * T - phase
    BY <1>6, <1>10, WheelTypes
  <1>12. (end <= d \/ end <= T) /\ end + T >= d - (d % T)
    <2>1. CASE p > 0
      BY <1>2, <1>3, <1>6, <1>11, <2>1, WheelTypes
    <2>2. CASE p = 0
      <3>1. n * T = T /\ p * T = 0
        BY <2>2, WheelTypes
      <3> QED BY <1>2, <1>3, <1>6, <1>11, <3>1, WheelTypes
    <2> QED BY <1>3, <2>1, <2>2
  <1> HIDE DEF s, n, p
  <1>13. RingsAt(s, n, end)
    <2>1. end = s.age + (n * T - phase)
      BY <1>9, <1>11
    <2> QED BY <1>8, <1>9, <1>12, <2>1 DEF RingsAt
  <1>14. \A r \in timers' : \E k \in 1 .. Size : \E e \in Nat : RingsAt(r, k, e)'
    <2>1. \A r \in timers' : \E k \in 1 .. Size : \E e \in Nat : RingsAt(r, k, e)
      BY <1>1, <1>5, <1>13 DEF WheelInv
    <2> QED BY <1>1, <2>1 DEF RingsAt, T, Size
  <1>15. timers' \subseteq Timer
    BY <1>1, <1>9 DEF WheelInv
  <1> QED BY <1>1, <1>14, <1>15 DEF WheelInv, T, Size, Timer

(* For every duration, accuracy and timeouts, and any number of timers: none
   rings later than its timeout, or the next tick if that is later, and none
   more than one tick before its whole ticks (timeWheel.go:43-88). *)
THEOREM WheelIsOnTime == WSpec => []OnTime
  <1>1. WheelInv /\ [WNext]_wvars => WheelInv'
    <2> SUFFICES ASSUME WheelInv, [WNext]_wvars PROVE WheelInv'
      OBVIOUS
    <2>1. CASE UNCHANGED wvars
      BY <2>1 DEF wvars, WheelInv, RingsAt, T, Size, Timer
    <2> QED BY <2>1, PassOnTime, RunOnTime, AfterOnTime DEF WNext
  <1> QED BY <1>1, WheelStart, WheelOnTime, PTL DEF WSpec
-----------------------------------------------------------------------------
(* The object tree                                                           *)

(* A level of the recursion of Destroy: the object, and its children to do. *)
Frame == [on : Objects, todo : SUBSET Objects]

Ops == {"add", "child", "component", "bytype", "stuck", "destroy", "remove"}

TreeCall == {NoCall} \cup [op : Ops, on : Objects, arg : Objects]

Usages == {"new", "disposed", "revived", "strayed"}

TreeTypes ==
    /\ kids \in [Objects -> SUBSET Objects]
    /\ owner \in [Objects -> Callers \cup {NoObject}]
    /\ call \in [Callers -> TreeCall]
    /\ stack \in [Callers -> Seq(Frame)]
    /\ parent \in [Objects -> Objects \cup {NoObject}]
    /\ given \in [Objects -> Nat]
    /\ usage \in [Objects -> Usages]

(* A goroutine has the lock of every object on its stack, each once, and of the
   object that AddObject is linking to. *)
LocksInv ==
    \A g \in Callers :
       /\ \A i \in 1 .. Len(stack[g]) : owner[stack[g][i].on] = g
       /\ \A i, j \in 1 .. Len(stack[g]) : stack[g][i].on = stack[g][j].on => i = j
       /\ stack[g] # <<>> => call[g].op \in {"destroy", "remove"}
       /\ call[g].op = "child" => owner[call[g].on] = g

(* The i-th object of the stack of g is being destroyed: the one at the bottom
   of a RemoveObject is not. *)
Destroying(o) ==
    \E g \in Callers : \E i \in 1 .. Len(stack[g]) :
       stack[g][i].on = o /\ (i > 1 \/ call[g].op = "destroy")

(* What the destroy system has been given of o.  One whose component went
   there has no component, or is still being destroyed by the goroutine that has
   its lock. *)
GivenInv(o) ==
    /\ usage[o] = "disposed" => o \notin attached
    /\ usage[o] \in {"new", "disposed"} => given[o] <= 1
    /\ usage[o] = "new" /\ given[o] # 0 =>
          o \notin holds \/ Destroying(o)

TreeInv ==
    /\ TreeTypes /\ LocksInv
    /\ \A o \in Objects : GivenInv(o)

LEMMA TreeStart == OInit => TreeInv
  <1> SUFFICES ASSUME OInit PROVE TreeInv
    OBVIOUS
  <1>1. TreeTypes
    <2>1. /\ kids \in [Objects -> SUBSET Objects]
          /\ owner \in [Objects -> Callers \cup {NoObject}]
          /\ parent \in [Objects -> Objects \cup {NoObject}]
          /\ given \in [Objects -> Nat]
          /\ usage \in [Objects -> Usages]
      BY DEF OInit, Usages
    <2>2. call \in [Callers -> TreeCall] /\ stack \in [Callers -> Seq(Frame)]
      BY DEF OInit, TreeCall
    <2> QED BY <2>1, <2>2 DEF TreeTypes
  <1>2. \A g \in Callers : stack[g] = <<>> /\ Len(stack[g]) = 0 /\ call[g].op = "none"
    BY DEF OInit, NoCall
  <1>3. LocksInv
    BY <1>2 DEF LocksInv
  <1>4. \A o \in Objects : given[o] = 0 /\ usage[o] = "new"
    BY DEF OInit
  <1> QED BY <1>1, <1>3, <1>4 DEF TreeInv, GivenInv

(* What happened to o does not matter to how often it was given. *)
LEMMA GivenAside ==
  ASSUME NEW o, GivenInv(o), usage'[o] = usage[o], given'[o] = given[o],
         o \in attached' => o \in attached, o \in holds' => o \in holds,
         Destroying(o) => Destroying(o)'
  PROVE  GivenInv(o)'
  BY DEF GivenInv

(* Which objects are being destroyed, in a step that changes no stack. *)
LEMMA SameStacks ==
  ASSUME stack' = stack, \A g \in Callers : stack[g] # <<>> => call'[g].op = call[g].op,
         TreeTypes
  PROVE  \A o : Destroying(o)' <=> Destroying(o)
  <1>1. \A g \in Callers : 1 .. Len(stack[g]) # {} => stack[g] # <<>>
    BY DEF TreeTypes
  <1> QED BY <1>1 DEF Destroying

(* An object that is being destroyed is locked. *)
LEMMA DestroyingLocked ==
  ASSUME TreeInv, NEW o \in Objects, Destroying(o)
  PROVE  owner[o] # NoObject
  BY TreeAssumption DEF TreeInv, LocksInv, Destroying

(* A call that has begun. *)
LEMMA CallTyped ==
  ASSUME TreeInv, NEW g \in Callers, call[g].op # "none"
  PROVE  call[g].on \in Objects /\ call[g].arg \in Objects /\ call[g].op \in Ops
  BY DEF TreeInv, TreeTypes, TreeCall, NoCall

LEMMA BeginKeeps ==
  ASSUME TreeInv, NEW g \in Callers, NEW op \in Ops \ {"child", "stuck"},
         NEW on \in Objects, NEW arg \in Objects, Begin(g, op, on, arg)
  PROVE  TreeInv'
  <1>1. /\ call[g] = NoCall /\ call' = [call EXCEPT ![g] = [op |-> op, on |-> on, arg |-> arg]]
        /\ UNCHANGED <<parent, kids, holds, attached, owner, stack, given, usage>>
    BY DEF Begin
  <1>2. call[g].op = "none" /\ stack[g] = <<>>
    BY <1>1 DEF NoCall, TreeInv, LocksInv
  <1>3. /\ call' \in [Callers -> TreeCall]
        /\ call'[g].op = op /\ call'[g].on = on
        /\ \A f \in Callers \ {g} : call'[f] = call[f]
    <2>1. [op |-> op, on |-> on, arg |-> arg] \in TreeCall
      BY DEF TreeCall
    <2> QED BY <1>1, <2>1 DEF TreeInv, TreeTypes
  <1>4. TreeTypes'
    BY <1>1, <1>3 DEF TreeInv, TreeTypes
  <1>5. LocksInv'
    BY <1>1, <1>2, <1>3 DEF TreeInv, LocksInv
  <1>7. \A o : Destroying(o)' <=> Destroying(o)
    BY <1>1, <1>2, <1>3, SameStacks DEF TreeInv
  <1>8. ASSUME NEW o \in Objects PROVE GivenInv(o)'
    BY <1>1, <1>7, GivenAside DEF TreeInv
  <1> QED BY <1>4, <1>5, <1>8 DEF TreeInv

(* A call without a stack goes on or returns. *)
LEMMA CallGoesOn ==
  ASSUME TreeInv, NEW g \in Callers, stack[g] = <<>>, stack' = stack,
         NEW op \in {"none", "child", "stuck"},
         \/ op = "none" /\ call' = [call EXCEPT ![g] = NoCall]
         \/ op # "none" /\ call[g].op # "none" /\ call' = [call EXCEPT ![g].op = op],
         \A x \in Objects : owner'[x] = owner[x] \/ owner[x] \in {g, NoObject},
         op = "child" => owner'[call[g].on] = g
  PROVE  /\ call' \in [Callers -> TreeCall] /\ LocksInv'
         /\ call'[g].op = op /\ \A f \in Callers \ {g} : call'[f] = call[f]
         /\ \A o : Destroying(o)' <=> Destroying(o)
  <1>1. call \in [Callers -> TreeCall]
    BY DEF TreeInv, TreeTypes
  <1>2. /\ call' \in [Callers -> TreeCall] /\ call'[g].op = op
        /\ op # "none" => call'[g].on = call[g].on
        /\ \A f \in Callers \ {g} : call'[f] = call[f]
    <2>1. CASE op = "none"
      BY <1>1, <2>1 DEF TreeCall, NoCall
    <2>2. CASE op # "none"
      <3>1. call[g] \in [op : Ops, on : Objects, arg : Objects]
        BY <1>1, <2>2 DEF TreeCall, NoCall
      <3>2. /\ [call[g] EXCEPT !.op = op] \in [op : Ops, on : Objects, arg : Objects]
            /\ [call[g] EXCEPT !.op = op].op = op
            /\ [call[g] EXCEPT !.op = op].on = call[g].on
        BY <2>2, <3>1 DEF Ops
      <3>3. call' = [call EXCEPT ![g] = [call[g] EXCEPT !.op = op]]
        BY <2>2
      <3> QED BY <1>1, <3>2, <3>3 DEF TreeCall
    <2> QED BY <2>1, <2>2
  <1>3. \A o : Destroying(o)' <=> Destroying(o)
    BY <1>2, SameStacks DEF TreeInv
  <1>6. ASSUME NEW f \in Callers \ {g}, NEW x \in Objects, owner[x] = f PROVE owner'[x] = f
    BY <1>6, TreeAssumption
  <1>7. LocksInv'
    <2> SUFFICES ASSUME NEW f \in Callers
        PROVE  /\ \A i \in 1 .. Len(stack[f]) : owner'[stack[f][i].on] = f
               /\ \A i, j \in 1 .. Len(stack[f]) : stack[f][i].on = stack[f][j].on => i = j
               /\ stack[f] # <<>> => call'[f].op \in {"destroy", "remove"}
               /\ call'[f].op = "child" => owner'[call'[f].on] = f
      BY DEF LocksInv
    <2>1. CASE f = g
      <3>1. Len(stack[g]) = 0
        OBVIOUS
      <3>2. call'[g].op = "child" => owner'[call'[g].on] = g
        BY <1>2
      <3> QED BY <2>1, <3>1, <3>2
    <2>2. CASE f # g
      <3>1. \A i \in 1 .. Len(stack[f]) : stack[f][i].on \in Objects /\ owner[stack[f][i].on] = f
        <4>1. \A y \in Frame : y.on \in Objects
          BY DEF Frame
        <4>2. stack[f] \in Seq(Frame)
          BY DEF TreeInv, TreeTypes
        <4>3. \A i \in 1 .. Len(stack[f]) : stack[f][i] \in Frame
          BY <4>2
        <4> QED BY <4>1, <4>3 DEF TreeInv, LocksInv
      <3>2. call[f].op = "child" => call[f].on \in Objects /\ owner[call[f].on] = f
        BY CallTyped DEF TreeInv, LocksInv
      <3> QED BY <1>2, <1>6, <2>2, <3>1, <3>2 DEF TreeInv, LocksInv
    <2> QED BY <2>1, <2>2
  <1> QED BY <1>2, <1>3, <1>7

LEMMA AddCheckKeeps ==
  ASSUME TreeInv, NEW g \in Callers, AddCheck(g)
  PROVE  TreeInv'
  <1>1. /\ call[g].op = "add" /\ stack[g] = <<>> /\ owner[call[g].on] = NoObject
        /\ UNCHANGED <<parent, kids, holds, attached, stack, given, usage>>
    BY DEF AddCheck, AtLock
  <1>2. call[g].on \in Objects /\ owner \in [Objects -> Callers \cup {NoObject}]
    BY <1>1, CallTyped DEF TreeInv, TreeTypes
  <1>3. \/ call' = [call EXCEPT ![g] = NoCall] /\ owner' = owner
        \/ call' = [call EXCEPT ![g].op = "child"] /\ owner' = [owner EXCEPT ![call[g].on] = g]
    BY DEF AddCheck, Return
  <1>4. /\ owner' \in [Objects -> Callers \cup {NoObject}]
        /\ \A x \in Objects : owner'[x] = owner[x] \/ owner[x] = NoObject
    BY <1>1, <1>2, <1>3
  <1>5. /\ call' \in [Callers -> TreeCall] /\ LocksInv'
        /\ \A o : Destroying(o)' <=> Destroying(o)
    <2>1. CASE call' = [call EXCEPT ![g] = NoCall]
      <3> DEFINE op == "none"
      <3>1. op \in {"none", "child", "stuck"} /\ op = "none"
        OBVIOUS
      <3> HIDE DEF op
      <3> QED BY <1>1, <1>4, <2>1, <3>1, CallGoesOn
    <2>2. CASE /\ call' = [call EXCEPT ![g].op = "child"]
               /\ owner' = [owner EXCEPT ![call[g].on] = g]
      <3> DEFINE op == "child"
      <3>1. op \in {"none", "child", "stuck"} /\ op # "none" /\ call' = [call EXCEPT ![g].op = op]
        BY <2>2
      <3> HIDE DEF op
      <3>2. owner'[call[g].on] = g
        BY <1>2, <2>2
      <3> QED BY <1>1, <1>4, <3>1, <3>2, CallGoesOn
    <2> QED BY <1>3, <2>1, <2>2
  <1>6. TreeTypes'
    BY <1>1, <1>4, <1>5 DEF TreeInv, TreeTypes
  <1>7. \A o \in Objects : GivenInv(o)'
    BY <1>1, <1>5, GivenAside DEF TreeInv
  <1> QED BY <1>5, <1>6, <1>7 DEF TreeInv

LEMMA AddLinkKeeps ==
  ASSUME TreeInv, NEW g \in Callers, AddLink(g)
  PROVE  TreeInv'
  <1> DEFINE p == call[g].on
             x == call[g].arg
  <1>1. /\ call[g].op = "child" /\ p \in Objects /\ x \in Objects
        /\ owner[p] = g /\ stack[g] = <<>>
    BY CallTyped DEF AddLink, TreeInv, LocksInv
  <1>2. /\ parent' = [parent EXCEPT ![x] = p]
        /\ kids' = [kids EXCEPT ![p] = kids[p] \cup {x}]
        /\ attached' = IF p \in attached THEN attached \cup {x} ELSE attached \ {x}
        /\ owner' = [owner EXCEPT ![p] = NoObject]
        /\ usage' = IF p \in attached THEN Revive(x) ELSE usage
        /\ call' = [call EXCEPT ![g] = NoCall]
        /\ UNCHANGED <<holds, stack, given>>
    BY DEF AddLink, Return
  <1>3. /\ \A y \in Objects : owner'[y] = owner[y] \/ owner[y] \in {g, NoObject}
        /\ owner' \in [Objects -> Callers \cup {NoObject}]
    BY <1>1, <1>2 DEF TreeInv, TreeTypes
  <1>4. /\ call' \in [Callers -> TreeCall] /\ LocksInv'
        /\ \A o : Destroying(o)' <=> Destroying(o)
    <2> DEFINE op == "none"
    <2>1. op \in {"none", "child", "stuck"} /\ op = "none" /\ op # "child"
      OBVIOUS
    <2> HIDE DEF op
    <2> QED BY <1>1, <1>2, <1>3, <2>1, CallGoesOn
  <1>5. /\ usage' \in [Objects -> Usages]
        /\ \A o \in Objects \ {x} : usage'[o] = usage[o]
        /\ usage'[x] = IF p \in attached /\ usage[x] = "disposed" THEN "revived" ELSE usage[x]
    BY <1>1, <1>2 DEF Revive, TreeInv, TreeTypes, Usages
  <1>6. TreeTypes'
    <2>1. parent' \in [Objects -> Objects \cup {NoObject}]
      BY <1>1, <1>2 DEF TreeInv, TreeTypes
    <2>2. kids' \in [Objects -> SUBSET Objects]
      BY <1>1, <1>2 DEF TreeInv, TreeTypes
    <2> QED BY <1>2, <1>3, <1>4, <1>5, <2>1, <2>2 DEF TreeInv, TreeTypes
  <1> HIDE DEF p, x
  <1>7. ASSUME NEW o \in Objects PROVE GivenInv(o)'
    <2>1. CASE o # x
      BY <1>2, <1>4, <1>5, <2>1, GivenAside DEF TreeInv
    <2>2. CASE o = x
      BY <1>2, <1>4, <1>5, <2>2 DEF TreeInv, GivenInv
    <2> QED BY <2>1, <2>2
  <1> QED BY <1>4, <1>6, <1>7 DEF TreeInv

(* RemoveComponent: the holder, which nobody is destroying, loses the component as
   it hands it over; what another object hands over has strayed. *)
LEMMA RemoveComponentKeeps ==
  ASSUME TreeInv, NEW g \in Callers, RemoveUnderLock(g)
  PROVE  TreeInv'
  <1>1. PICK x \in Objects, c \in Objects :
                 /\ x = call[g].on /\ c = call[g].arg /\ call[g].op = "component"
                 /\ owner[x] = NoObject /\ stack[g] = <<>>
    BY CallTyped DEF RemoveUnderLock, AtLock
  <1> DEFINE stray == x \in attached /\ ~(x = c /\ c \in holds)
  <1>2. /\ holds' = IF x = c THEN holds \ {c} ELSE holds
        /\ given' = IF x \in attached THEN [given EXCEPT ![c] = given[c] + 1] ELSE given
        /\ usage' = IF stray THEN [usage EXCEPT ![c] = "strayed"] ELSE usage
        /\ call' = [call EXCEPT ![g] = NoCall]
        /\ UNCHANGED <<parent, kids, attached, owner, stack>>
    BY <1>1 DEF RemoveUnderLock, Return
  <1>3. /\ call' \in [Callers -> TreeCall] /\ LocksInv'
        /\ call'[g].op = "none" /\ \A f \in Callers \ {g} : call'[f] = call[f]
        /\ \A o : Destroying(o)' <=> Destroying(o)
    <2> DEFINE op == "none"
    <2>1. op \in {"none", "child", "stuck"} /\ op = "none" /\ op # "child"
      OBVIOUS
    <2> HIDE DEF op
    <2> QED BY <1>1, <1>2, <2>1, CallGoesOn
  <1>4. ~Destroying(x)
    BY <1>1, DestroyingLocked
  <1>5. /\ given' \in [Objects -> Nat] /\ given[c] \in Nat
        /\ \A o \in Objects \ {c} : given'[o] = given[o]
        /\ given'[c] = IF x \in attached THEN given[c] + 1 ELSE given[c]
    BY <1>1, <1>2 DEF TreeInv, TreeTypes
  <1>6. /\ usage' \in [Objects -> Usages] /\ usage[c] \in Usages
        /\ \A o \in Objects \ {c} : usage'[o] = usage[o]
        /\ usage'[c] = IF stray THEN "strayed" ELSE usage[c]
    BY <1>1, <1>2 DEF TreeInv, TreeTypes, Usages
  <1>7. TreeTypes'
    BY <1>2, <1>3, <1>5, <1>6 DEF TreeInv, TreeTypes
  <1>8. ASSUME NEW o \in Objects PROVE GivenInv(o)'
    <2>1. CASE o # c
      BY <1>2, <1>3, <1>5, <1>6, <2>1, GivenAside DEF TreeInv
    <2>2. CASE o = c /\ stray
      BY <1>6, <2>2 DEF GivenInv
    <2>3. CASE o = c /\ x \notin attached
      <3>1. usage'[o] = usage[o] /\ given'[o] = given[o]
        BY <1>5, <1>6, <2>3
      <3> QED BY <1>2, <1>3, <2>3, <3>1, GivenAside DEF TreeInv
    <2>4. CASE o = c /\ x \in attached /\ x = c /\ c \in holds
      <3>1. /\ usage[c] = "new" => given[c] = 0
            /\ usage[c] # "disposed"
        BY <1>4, <2>4 DEF TreeInv, GivenInv
      <3>2. usage'[c] = usage[c] /\ given'[c] = given[c] + 1 /\ c \notin holds'
        BY <1>2, <1>5, <1>6, <2>4
      <3> QED BY <1>5, <2>4, <3>1, <3>2 DEF GivenInv
    <2> QED BY <2>1, <2>2, <2>3, <2>4
  <1> QED BY <1>3, <1>7, <1>8 DEF TreeInv

LEMMA ByTypeKeeps ==
  ASSUME TreeInv, NEW g \in Callers, ByTypeUnderLock(g)
  PROVE  TreeInv'
  <1>1. /\ call[g].op = "bytype" /\ stack[g] = <<>> /\ owner[call[g].on] = NoObject
        /\ UNCHANGED <<parent, kids, attached, stack, given, usage>>
    BY DEF ByTypeUnderLock, AtLock
  <1>2. call[g].on \in Objects /\ owner \in [Objects -> Callers \cup {NoObject}]
    BY <1>1, CallTyped DEF TreeInv, TreeTypes
  <1>3. /\ \/ call' = [call EXCEPT ![g] = NoCall] /\ owner' = owner
           \/ call' = [call EXCEPT ![g].op = "stuck"] /\ owner' = [owner EXCEPT ![call[g].on] = g]
        /\ holds' \subseteq holds
    BY DEF ByTypeUnderLock, Return
  <1>4. /\ owner' \in [Objects -> Callers \cup {NoObject}]
        /\ \A x \in Objects : owner'[x] = owner[x] \/ owner[x] = NoObject
    BY <1>1, <1>2, <1>3
  <1>5. /\ call' \in [Callers -> TreeCall] /\ LocksInv'
        /\ \A o : Destroying(o)' <=> Destroying(o)
    <2>1. CASE call' = [call EXCEPT ![g] = NoCall]
      <3> DEFINE op == "none"
      <3>1. op \in {"none", "child", "stuck"} /\ op = "none" /\ op # "child"
        OBVIOUS
      <3> HIDE DEF op
      <3> QED BY <1>1, <1>4, <2>1, <3>1, CallGoesOn
    <2>2. CASE call' = [call EXCEPT ![g].op = "stuck"]
      <3> DEFINE op == "stuck"
      <3>1. /\ op \in {"none", "child", "stuck"} /\ op # "none" /\ op # "child"
            /\ call' = [call EXCEPT ![g].op = op]
        BY <2>2
      <3> HIDE DEF op
      <3> QED BY <1>1, <1>4, <3>1, CallGoesOn
    <2> QED BY <1>3, <2>1, <2>2
  <1>6. TreeTypes'
    BY <1>1, <1>4, <1>5 DEF TreeInv, TreeTypes
  <1>7. \A o \in Objects : GivenInv(o)'
    BY <1>1, <1>3, <1>5, GivenAside DEF TreeInv
  <1> QED BY <1>5, <1>6, <1>7 DEF TreeInv

LEMMA RuntimeKeeps ==
  ASSUME TreeInv, NEW x \in Objects, Runtime(x)
  PROVE  TreeInv'
  <1>1. /\ attached' = attached \cup {x} /\ usage' = Revive(x)
        /\ UNCHANGED <<parent, kids, holds, owner, call, stack, given>>
    BY DEF Runtime
  <1>2. /\ usage' \in [Objects -> Usages]
        /\ \A o \in Objects \ {x} : usage'[o] = usage[o]
        /\ usage'[x] = IF usage[x] = "disposed" THEN "revived" ELSE usage[x]
    BY <1>1 DEF Revive, TreeInv, TreeTypes, Usages
  <1>3. /\ \A o : Destroying(o)' <=> Destroying(o)
    BY <1>1 DEF Destroying
  <1>4. TreeTypes'
    BY <1>1, <1>2 DEF TreeInv, TreeTypes
  <1>5. LocksInv'
    BY <1>1 DEF TreeInv, LocksInv
  <1>6. ASSUME NEW o \in Objects PROVE GivenInv(o)'
    <2>1. CASE o # x
      BY <1>1, <1>2, <1>3, <2>1, GivenAside DEF TreeInv
    <2>2. CASE o = x
      BY <1>1, <1>2, <1>3, <2>2 DEF TreeInv, GivenInv
    <2> QED BY <2>1, <2>2
  <1> QED BY <1>4, <1>5, <1>6 DEF TreeInv

(* Goroutine g locks o and puts it on its stack, which held n objects. *)
Pushes(g, o, n) ==
    /\ owner[o] = NoObject /\ owner' = [owner EXCEPT ![o] = g] /\ call' = call
    /\ call[g].op \in {"destroy", "remove"}
    /\ n = Len(stack[g]) /\ Len(stack'[g]) = n + 1
    /\ \A i \in 1 .. n : stack'[g][i].on = stack[g][i].on
    /\ stack'[g][n + 1].on = o
    /\ \A f \in Callers \ {g} : stack'[f] = stack[f]

LEMMA PushKeeps ==
  ASSUME TreeInv, NEW g \in Callers, NEW o \in Objects, NEW n \in Nat, Pushes(g, o, n)
  PROVE  /\ LocksInv'
         /\ \A x : Destroying(x) => Destroying(x)'
         /\ n > 0 \/ call[g].op = "destroy" => Destroying(o)'
  <1> USE DEF Pushes
  <1>2. \A x \in Objects : owner'[x] = IF x = o THEN g ELSE owner[x]
    BY DEF TreeInv, TreeTypes
  <1>3. ASSUME NEW f \in Callers, NEW i \in 1 .. Len(stack[f])
        PROVE  /\ stack[f][i].on \in Objects /\ owner[stack[f][i].on] = f
               /\ stack[f][i].on # o
    <2>1. \A y \in Frame : y.on \in Objects
      BY DEF Frame
    <2>2. stack[f] \in Seq(Frame)
      BY DEF TreeInv, TreeTypes
    <2>3. stack[f][i] \in Frame
      BY <2>2
    <2> QED BY <2>1, <2>3, TreeAssumption DEF TreeInv, LocksInv
  <1>4. LocksInv'
    <2> SUFFICES ASSUME NEW f \in Callers
        PROVE  /\ \A i \in 1 .. Len(stack'[f]) : owner'[stack'[f][i].on] = f
               /\ \A i, j \in 1 .. Len(stack'[f]) : stack'[f][i].on = stack'[f][j].on => i = j
               /\ stack'[f] # <<>> => call[f].op \in {"destroy", "remove"}
               /\ call[f].op = "child" => owner'[call[f].on] = f
      BY DEF LocksInv
    <2>1. call[f].op = "child" => owner'[call[f].on] = f
      BY <1>2, CallTyped, TreeAssumption DEF TreeInv, LocksInv
    <2>2. CASE f # g
      <3>1. stack'[f] = stack[f]
        BY <2>2
      <3>2. \A i \in 1 .. Len(stack[f]) : owner'[stack[f][i].on] = f
        BY <1>2, <1>3
      <3> QED BY <2>1, <3>1, <3>2 DEF TreeInv, LocksInv
    <2>3. CASE f = g
      <3>1. ASSUME NEW i \in 1 .. Len(stack'[g])
            PROVE  owner'[stack'[g][i].on] = g
        <4>1. CASE i \in 1 .. n
          BY <1>2, <1>3, <4>1
        <4>2. CASE i = n + 1
          BY <1>2, <4>2
        <4> QED BY <4>1, <4>2
      <3>2. ASSUME NEW i \in 1 .. Len(stack'[g]), NEW j \in 1 .. Len(stack'[g]),
                   stack'[g][i].on = stack'[g][j].on
            PROVE  i = j
        <4>1. CASE i \in 1 .. n /\ j \in 1 .. n
          BY <3>2, <4>1 DEF TreeInv, LocksInv
        <4>2. CASE i \in 1 .. n /\ j = n + 1
          BY <1>3, <3>2, <4>2
        <4>3. CASE j \in 1 .. n /\ i = n + 1
          BY <1>3, <3>2, <4>3
        <4> QED BY <4>1, <4>2, <4>3
      <3> QED BY <2>1, <2>3, <3>1, <3>2
    <2> QED BY <2>2, <2>3
  <1>5. ASSUME NEW x, Destroying(x) PROVE Destroying(x)'
    <2>1. PICK f \in Callers : \E i \in 1 .. Len(stack[f]) :
             stack[f][i].on = x /\ (i > 1 \/ call[f].op = "destroy")
      BY <1>5 DEF Destroying
    <2>2. PICK i \in 1 .. Len(stack[f]) :
             stack[f][i].on = x /\ (i > 1 \/ call[f].op = "destroy")
      BY <2>1
    <2>3. i \in 1 .. Len(stack'[f]) /\ stack'[f][i].on = x
      <3>1. CASE f = g
        BY <2>2, <3>1
      <3>2. CASE f # g
        BY <2>2, <3>2
      <3> QED BY <3>1, <3>2
    <2> QED BY <2>2, <2>3 DEF Destroying
  <1>6. n > 0 \/ call[g].op = "destroy" => Destroying(o)'
    <2>1. n + 1 \in 1 .. Len(stack'[g]) /\ (n > 0 => n + 1 > 1)
      OBVIOUS
    <2> QED BY <2>1 DEF Destroying
  <1> QED BY <1>4, <1>5, <1>6

(* _destroy of o is entered: a component that is given was not given before. *)
LEMMA EnterKeeps ==
  ASSUME TreeInv, NEW g \in Callers, NEW o \in Objects, NEW below \in Seq(Frame),
         Enter(g, o, below), Len(below) = Len(stack[g]),
         \A i \in 1 .. Len(below) : below[i].on = stack[g][i].on,
         call[g].op \in {"destroy", "remove"}, Len(below) > 0 \/ call[g].op = "destroy",
         UNCHANGED <<parent, kids, holds, attached, call, usage>>
  PROVE  TreeInv'
  <1> DEFINE y == [on |-> o, todo |-> kids[o]]
  <1>1. /\ owner[o] = NoObject /\ owner' = [owner EXCEPT ![o] = g]
        /\ given' = IF o \in holds /\ o \in attached
                       THEN [given EXCEPT ![o] = given[o] + 1] ELSE given
        /\ stack' = [stack EXCEPT ![g] = Append(below, y)]
    BY DEF Enter
  <1>2. y \in Frame /\ y.on = o
    BY DEF Frame, TreeInv, TreeTypes
  <1> HIDE DEF y
  <1>3. /\ Len(below) \in Nat /\ Len(Append(below, y)) = Len(below) + 1
        /\ \A i \in 1 .. Len(below) : Append(below, y)[i] = below[i]
        /\ Append(below, y)[Len(below) + 1] = y
        /\ Append(below, y) \in Seq(Frame)
    BY <1>2, AppendAt
  <1>4. /\ stack' \in [Callers -> Seq(Frame)] /\ stack'[g] = Append(below, y)
        /\ \A f \in Callers \ {g} : stack'[f] = stack[f]
    BY <1>1, <1>3 DEF TreeInv, TreeTypes
  <1>5. PICK n \in Nat : n = Len(below)
    BY <1>3
  <1>6. /\ LocksInv'
        /\ \A x : Destroying(x) => Destroying(x)'
        /\ Destroying(o)'
    <2>1. /\ n = Len(stack[g]) /\ Len(stack'[g]) = n + 1
          /\ \A i \in 1 .. n : stack'[g][i].on = stack[g][i].on
          /\ stack'[g][n + 1].on = o
      BY <1>2, <1>3, <1>4, <1>5
    <2>2. Pushes(g, o, n)
      BY <1>1, <1>4, <2>1 DEF Pushes
    <2> QED BY <1>5, <2>2, PushKeeps
  <1>7. /\ given' \in [Objects -> Nat] /\ given[o] \in Nat
        /\ \A x \in Objects \ {o} : given'[x] = given[x]
        /\ given'[o] = IF o \in holds /\ o \in attached THEN given[o] + 1 ELSE given[o]
    BY <1>1 DEF TreeInv, TreeTypes
  <1>8. TreeTypes'
    <2>1. owner' \in [Objects -> Callers \cup {NoObject}]
      BY <1>1 DEF TreeInv, TreeTypes
    <2> QED BY <1>4, <1>7, <2>1 DEF TreeInv, TreeTypes
  <1>9. ASSUME NEW x \in Objects PROVE GivenInv(x)'
    <2>1. CASE x # o
      BY <1>6, <1>7, <2>1, GivenAside DEF TreeInv
    <2>2. CASE x = o
      <3>1. usage[o] \in Usages /\ ~Destroying(o)
        BY <1>1, DestroyingLocked DEF TreeInv, TreeTypes
      <3>2. usage[o] = "new" /\ o \in holds => given[o] = 0
        BY <3>1 DEF TreeInv, GivenInv
      <3>3. usage[o] = "disposed" => o \notin attached
        BY DEF TreeInv, GivenInv
      <3>4. usage[o] \in {"new", "disposed"} => given[o] <= 1
        BY DEF TreeInv, GivenInv
      <3>5. usage[o] \in {"new", "disposed"} => given'[o] <= 1
        BY <1>7, <3>1, <3>2, <3>3, <3>4
      <3> QED BY <1>6, <2>2, <3>3, <3>5 DEF GivenInv
    <2> QED BY <2>1, <2>2
  <1> QED BY <1>6, <1>8, <1>9 DEF TreeInv

LEMMA DestroyRootKeeps ==
  ASSUME TreeInv, NEW g \in Callers, DestroyRoot(g)
  PROVE  TreeInv'
  <1>1. PICK o \in Objects : o = call[g].on /\ call[g].op = "destroy"
    BY CallTyped DEF DestroyRoot
  <1>2. /\ stack[g] = <<>> /\ Enter(g, o, <<>>)
        /\ UNCHANGED <<parent, kids, holds, attached, call, usage>>
    BY <1>1 DEF DestroyRoot
  <1>3. PICK below \in Seq(Frame) : below = <<>> /\ Len(below) = 0
    <2>1. <<>> \in Seq(Frame) /\ Len(<<>>) = 0
      OBVIOUS
    <2> QED BY <2>1, Zenon
  <1>4. Enter(g, o, below) /\ Len(below) = Len(stack[g])
    BY <1>2, <1>3
  <1> QED BY <1>1, <1>2, <1>3, <1>4, EnterKeeps

LEMMA DestroyChildKeeps ==
  ASSUME TreeInv, NEW g \in Callers, DestroyChild(g)
  PROVE  TreeInv'
  <1> DEFINE s == stack[g]
             n == Len(stack[g])
             B(o) == [s EXCEPT ![n].todo = @ \ {o}]
  <1>1. /\ s \in Seq(Frame) /\ s # <<>> /\ n \in Nat /\ n > 0 /\ s[n] \in Frame
    BY DEF DestroyChild, TreeInv, TreeTypes
  <1>2. PICK o \in s[n].todo : Enter(g, o, B(o))
    BY DEF DestroyChild, Top
  <1>3. o \in Objects
    BY <1>1 DEF Frame
  <1>4. /\ call[g].op \in {"destroy", "remove"}
        /\ UNCHANGED <<parent, kids, holds, attached, call, usage>>
    BY <1>1 DEF DestroyChild, TreeInv, LocksInv
  <1>5. /\ B(o) \in Seq(Frame) /\ Len(B(o)) = n
        /\ \A i \in 1 .. n : B(o)[i].on = s[i].on
    <2>1. [s[n] EXCEPT !.todo = @ \ {o}] \in Frame /\ [s[n] EXCEPT !.todo = @ \ {o}].on = s[n].on
      BY <1>1 DEF Frame
    <2>2. B(o) = [s EXCEPT ![n] = [s[n] EXCEPT !.todo = @ \ {o}]]
      OBVIOUS
    <2>3. PICK y \in Frame : y = [s[n] EXCEPT !.todo = @ \ {o}]
      BY <2>1
    <2>4. B(o) = [s EXCEPT ![n] = y] /\ y.on = s[n].on
      BY <2>1, <2>2, <2>3
    <2> HIDE DEF B, s, n
    <2>5. n = Len(s) /\ n \in 1 .. Len(s)
      BY <1>1 DEF s, n
    <2>6. /\ [s EXCEPT ![n] = y] \in Seq(Frame) /\ Len([s EXCEPT ![n] = y]) = Len(s)
          /\ \A i \in 1 .. Len(s) : [s EXCEPT ![n] = y][i] = IF i = n THEN y ELSE s[i]
      BY <1>1, <2>5, ExceptSeq
    <2> QED BY <2>4, <2>5, <2>6
  <1>6. PICK below \in Seq(Frame) : below = B(o)
    BY <1>5
  <1>7. /\ Enter(g, o, below) /\ Len(below) = Len(stack[g]) /\ Len(below) > 0
        /\ \A i \in 1 .. Len(below) : below[i].on = stack[g][i].on
    BY <1>1, <1>2, <1>5, <1>6
  <1> HIDE DEF s, n, B
  <1> QED BY <1>3, <1>4, <1>7, EnterKeeps

LEMMA RemoveObjectKeeps ==
  ASSUME TreeInv, NEW g \in Callers, RemoveObject(g)
  PROVE  TreeInv'
  <1>1. PICK p \in Objects, o \in Objects :
          /\ p = call[g].on /\ o = call[g].arg /\ call[g].op = "remove"
          /\ owner[p] = NoObject /\ stack[g] = <<>>
    BY CallTyped DEF RemoveObject, AtLock
  <1>2. UNCHANGED <<parent, holds, attached, given, usage>>
    BY DEF RemoveObject
  <1>3. CASE o \in kids[p]
    <2> DEFINE y == [on |-> p, todo |-> {o}]
    <2>1. /\ kids' = [kids EXCEPT ![p] = kids[p] \ {o}] /\ call' = call
          /\ owner' = [owner EXCEPT ![p] = g]
          /\ stack' = [stack EXCEPT ![g] = <<y>>]
      BY <1>1, <1>3 DEF RemoveObject
    <2>2. y \in Frame /\ y.on = p
      BY DEF Frame
    <2> HIDE DEF y
    <2>3. <<y>> \in Seq(Frame) /\ Len(<<y>>) = 1 /\ <<y>>[1] = y
      BY <2>2
    <2>4. /\ stack' \in [Callers -> Seq(Frame)] /\ stack'[g] = <<y>>
          /\ \A f \in Callers \ {g} : stack'[f] = stack[f]
      BY <2>1, <2>3 DEF TreeInv, TreeTypes
    <2>5. /\ LocksInv'
          /\ \A x : Destroying(x) => Destroying(x)'
      <3>1. PICK n \in Nat : n = 0
        OBVIOUS
      <3>2. /\ n = Len(stack[g]) /\ Len(stack'[g]) = n + 1
            /\ \A i \in 1 .. n : stack'[g][i].on = stack[g][i].on
            /\ stack'[g][n + 1].on = p
        BY <1>1, <2>2, <2>3, <2>4, <3>1
      <3>3. Pushes(g, p, n)
        BY <1>1, <2>1, <2>4, <3>2 DEF Pushes
      <3> QED BY <3>3, PushKeeps
    <2>6. TreeTypes'
      <3>1. owner' \in [Objects -> Callers \cup {NoObject}]
        BY <2>1 DEF TreeInv, TreeTypes
      <3>2. kids' \in [Objects -> SUBSET Objects]
        BY <2>1 DEF TreeInv, TreeTypes
      <3> QED BY <1>2, <2>1, <2>4, <3>1, <3>2 DEF TreeInv, TreeTypes
    <2>7. \A x \in Objects : GivenInv(x)'
      BY <1>2, <2>5, GivenAside DEF TreeInv
    <2> QED BY <2>5, <2>6, <2>7 DEF TreeInv
  <1>4. CASE o \notin kids[p]
    <2>1. call' = [call EXCEPT ![g] = NoCall] /\ UNCHANGED <<kids, owner, stack>>
      BY <1>1, <1>4 DEF RemoveObject, Return
    <2>2. /\ call' \in [Callers -> TreeCall] /\ LocksInv'
          /\ \A x : Destroying(x)' <=> Destroying(x)
      <3> DEFINE op == "none"
      <3>1. op \in {"none", "child", "stuck"} /\ op = "none" /\ op # "child"
        OBVIOUS
      <3> HIDE DEF op
      <3> QED BY <1>1, <2>1, <3>1, CallGoesOn
    <2>3. TreeTypes'
      BY <1>2, <2>1, <2>2 DEF TreeInv, TreeTypes
    <2>4. \A x \in Objects : GivenInv(x)'
      BY <1>2, <2>1, <2>2, GivenAside DEF TreeInv
    <2> QED BY <2>2, <2>3, <2>4 DEF TreeInv
  <1> QED BY <1>3, <1>4

LEMMA FrontAt ==
  ASSUME NEW S, NEW q \in Seq(S), q # <<>>
  PROVE  /\ Front(q) \in Seq(S) /\ Len(Front(q)) = Len(q) - 1
         /\ \A i \in 1 .. Len(q) - 1 : Front(q)[i] = q[i]
  BY DEF Front

(* The object on top of the stack is done: what is destroyed is disposed of and
   loses its runtime, and the parent at the bottom of a RemoveObject was not
   given by this call. *)
LEMMA LeaveKeeps ==
  ASSUME TreeInv, NEW g \in Callers, Leave(g)
  PROVE  TreeInv'
  <1>1. stack[g] # <<>> /\ stack[g] \in Seq(Frame) /\ call[g].op \in {"destroy", "remove"}
    BY DEF Leave, TreeInv, TreeTypes, LocksInv
  <1>2. PICK n \in Nat : n = Len(stack[g]) /\ n > 0
    BY <1>1
  <1>3. PICK o \in Objects : o = stack[g][n].on
    <2>1. \A y \in Frame : y.on \in Objects
      BY DEF Frame
    <2>2. stack[g][n] \in Frame
      BY <1>1, <1>2
    <2> QED BY <2>1, <2>2
  <1>4. /\ owner' = [owner EXCEPT ![o] = NoObject]
        /\ stack' = [stack EXCEPT ![g] = Front(stack[g])]
        /\ call' = IF n = 1 THEN [call EXCEPT ![g] = NoCall] ELSE call
        /\ IF n = 1 /\ call[g].op = "remove" THEN UNCHANGED <<kids, holds, attached, usage>>
                                              ELSE Dispose(o)
        /\ UNCHANGED <<parent, given>>
    BY <1>2, <1>3 DEF Leave, Top, Return
  <1>5. /\ Front(stack[g]) \in Seq(Frame) /\ Len(Front(stack[g])) = n - 1
        /\ \A i \in 1 .. n - 1 : Front(stack[g])[i] = stack[g][i]
    BY <1>1, <1>2, FrontAt
  <1>6. /\ stack' \in [Callers -> Seq(Frame)]
        /\ Len(stack'[g]) = n - 1 /\ \A i \in 1 .. n - 1 : stack'[g][i] = stack[g][i]
        /\ \A f \in Callers \ {g} : stack'[f] = stack[f]
    BY <1>4, <1>5 DEF TreeInv, TreeTypes
  <1>7. /\ call' \in [Callers -> TreeCall]
        /\ \A f \in Callers \ {g} : call'[f] = call[f]
        /\ n = 1 => call'[g].op = "none"
        /\ n # 1 => call'[g] = call[g]
    BY <1>4 DEF TreeInv, TreeTypes, TreeCall, NoCall
  <1>8. \A x \in Objects : owner'[x] = IF x = o THEN NoObject ELSE owner[x]
    BY <1>4 DEF TreeInv, TreeTypes
  <1>9. owner[o] = g /\ \A i \in 1 .. n - 1 : stack[g][i].on # o
    <2>1. n \in 1 .. Len(stack[g]) /\ \A i \in 1 .. n - 1 : i \in 1 .. Len(stack[g]) /\ i # n
      BY <1>2
    <2> QED BY <1>3, <2>1 DEF TreeInv, LocksInv
  <1>10. ASSUME NEW f \in Callers, NEW i \in 1 .. Len(stack[f])
         PROVE  stack[f][i].on \in Objects /\ owner[stack[f][i].on] = f
    <2>1. \A y \in Frame : y.on \in Objects
      BY DEF Frame
    <2>2. stack[f] \in Seq(Frame)
      BY DEF TreeInv, TreeTypes
    <2>3. stack[f][i] \in Frame
      BY <2>2
    <2> QED BY <2>1, <2>3 DEF TreeInv, LocksInv
  <1>11. LocksInv'
    <2> SUFFICES ASSUME NEW f \in Callers
        PROVE  /\ \A i \in 1 .. Len(stack'[f]) : owner'[stack'[f][i].on] = f
               /\ \A i, j \in 1 .. Len(stack'[f]) : stack'[f][i].on = stack'[f][j].on => i = j
               /\ stack'[f] # <<>> => call'[f].op \in {"destroy", "remove"}
               /\ call'[f].op = "child" => owner'[call'[f].on] = f
      BY DEF LocksInv
    <2>1. CASE f # g
      <3>1. stack'[f] = stack[f] /\ call'[f] = call[f]
        BY <1>6, <1>7, <2>1
      <3>2. \A i \in 1 .. Len(stack[f]) : owner'[stack[f][i].on] = f
        BY <1>8, <1>9, <1>10, <2>1
      <3>3. call[f].op = "child" => owner'[call[f].on] = f
        BY <1>8, <1>9, <2>1, CallTyped DEF TreeInv, LocksInv
      <3> QED BY <3>1, <3>2, <3>3 DEF TreeInv, LocksInv
    <2>2. CASE f = g
      <3>1. ASSUME NEW i \in 1 .. Len(stack'[g]) PROVE owner'[stack'[g][i].on] = g
        <4>1. i \in 1 .. n - 1 /\ i \in 1 .. Len(stack[g]) /\ stack'[g][i] = stack[g][i]
          BY <1>2, <1>6
        <4> QED BY <1>8, <1>9, <1>10, <4>1
      <3>2. ASSUME NEW i \in 1 .. Len(stack'[g]), NEW j \in 1 .. Len(stack'[g]),
                   stack'[g][i].on = stack'[g][j].on
            PROVE  i = j
        <4>0. i \in 1 .. n - 1 /\ j \in 1 .. n - 1
          BY <1>6
        <4>1. i \in 1 .. Len(stack[g]) /\ j \in 1 .. Len(stack[g])
          BY <1>2, <4>0
        <4>2. stack'[g][i] = stack[g][i] /\ stack'[g][j] = stack[g][j]
          BY <1>6, <4>0
        <4> QED BY <3>2, <4>1, <4>2 DEF TreeInv, LocksInv
      <3>3. stack'[g] # <<>> => n # 1
        BY <1>6
      <3> QED BY <1>1, <1>7, <2>2, <3>1, <3>2, <3>3
    <2> QED BY <2>1, <2>2
  <1>13. ASSUME NEW x \in Objects \ {o}, Destroying(x) PROVE Destroying(x)'
    <2>1. PICK f \in Callers : \E i \in 1 .. Len(stack[f]) :
             stack[f][i].on = x /\ (i > 1 \/ call[f].op = "destroy")
      BY <1>13 DEF Destroying
    <2>2. PICK i \in 1 .. Len(stack[f]) :
             stack[f][i].on = x /\ (i > 1 \/ call[f].op = "destroy")
      BY <2>1
    <2>3. CASE f # g
      <3>1. stack'[f] = stack[f] /\ call'[f] = call[f]
        BY <1>6, <1>7, <2>3
      <3> QED BY <2>2, <3>1 DEF Destroying
    <2>4. CASE f = g
      <3>1. i \in 1 .. n /\ i # n
        BY <1>2, <1>3, <2>2, <2>4
      <3>2. i \in 1 .. n - 1 /\ n # 1
        BY <3>1
      <3>3. i \in 1 .. Len(stack'[f]) /\ stack'[f][i] = stack[f][i] /\ call'[f] = call[f]
        BY <1>6, <1>7, <2>4, <3>2
      <3> QED BY <2>2, <3>3 DEF Destroying
    <2> QED BY <2>3, <2>4
  <1>14. CASE n = 1 /\ call[g].op = "remove"
    <2>1. UNCHANGED <<kids, holds, attached, usage, parent, given>>
      BY <1>4, <1>14
    <2>2. ~Destroying(o)
      <3> SUFFICES ASSUME NEW f \in Callers, NEW i \in 1 .. Len(stack[f]),
                          stack[f][i].on = o, i > 1 \/ call[f].op = "destroy"
                   PROVE  FALSE
        BY DEF Destroying
      <3>1. f = g
        BY <1>9, <1>10
      <3>2. i \in 1 .. n /\ n = 1 /\ call[f].op = "remove"
        BY <1>2, <1>14, <3>1
      <3> QED BY <3>2
    <2>3. TreeTypes'
      <3>1. owner' \in [Objects -> Callers \cup {NoObject}]
        BY <1>4 DEF TreeInv, TreeTypes
      <3> QED BY <1>6, <1>7, <2>1, <3>1 DEF TreeInv, TreeTypes
    <2>4. ASSUME NEW x \in Objects PROVE GivenInv(x)'
      <3>1. Destroying(x) => Destroying(x)'
        BY <1>13, <2>2
      <3> QED BY <2>1, <3>1, GivenAside DEF TreeInv
    <2> QED BY <1>11, <2>3, <2>4 DEF TreeInv
  <1>15. CASE ~(n = 1 /\ call[g].op = "remove")
    <2>1. /\ kids' = [kids EXCEPT ![o] = {}] /\ holds' = holds \ {o}
          /\ attached' = attached \ {o}
          /\ usage' = [usage EXCEPT ![o] = IF usage[o] = "new" THEN "disposed" ELSE usage[o]]
          /\ UNCHANGED <<parent, given>>
      BY <1>4, <1>15 DEF Dispose
    <2>2. /\ usage' \in [Objects -> Usages]
          /\ \A x \in Objects \ {o} : usage'[x] = usage[x]
          /\ usage'[o] = IF usage[o] = "new" THEN "disposed" ELSE usage[o]
      BY <2>1 DEF TreeInv, TreeTypes, Usages
    <2>3. TreeTypes'
      <3>1. owner' \in [Objects -> Callers \cup {NoObject}]
        BY <1>4 DEF TreeInv, TreeTypes
      <3>2. kids' \in [Objects -> SUBSET Objects]
        BY <2>1 DEF TreeInv, TreeTypes
      <3> QED BY <1>6, <1>7, <2>1, <2>2, <3>1, <3>2 DEF TreeInv, TreeTypes
    <2>4. ASSUME NEW x \in Objects PROVE GivenInv(x)'
      <3>1. CASE x # o
        BY <1>13, <2>1, <2>2, <3>1, GivenAside DEF TreeInv
      <3>2. CASE x = o
        BY <2>1, <2>2, <3>2 DEF TreeInv, GivenInv
      <3> QED BY <3>1, <3>2
    <2> QED BY <1>11, <2>3, <2>4 DEF TreeInv
  <1> QED BY <1>14, <1>15

(* Every step of the calls. *)
LEMMA TreeInductive == OSpec => []TreeInv
  <1>1. TreeInv /\ [ONext]_ovars => TreeInv'
    <2> SUFFICES ASSUME TreeInv, [ONext]_ovars PROVE TreeInv'
      OBVIOUS
    <2>1. CASE UNCHANGED ovars
      <3>1. UNCHANGED <<parent, kids, holds, attached, owner, call, stack, given, usage>>
        BY <2>1 DEF ovars
      <3>2. TreeTypes' /\ LocksInv'
        BY <3>1 DEF TreeInv, TreeTypes, LocksInv
      <3>3. \A o \in Objects : GivenInv(o)'
        BY <3>1 DEF TreeInv, GivenInv, Destroying
      <3> QED BY <3>2, <3>3 DEF TreeInv
    <2>2. ASSUME NEW g \in Callers, TreeStep(g) PROVE TreeInv'
      BY <2>2, AddCheckKeeps, AddLinkKeeps, RemoveComponentKeeps, ByTypeKeeps,
         DestroyRootKeeps, RemoveObjectKeeps, DestroyChildKeeps, LeaveKeeps DEF TreeStep
    <2>3. ASSUME NEW g \in Callers, NEW o \in Objects, Destroy(g, o) PROVE TreeInv'
      <3>1. parent[o] \in Objects \cup {NoObject}
        BY DEF TreeInv, TreeTypes
      <3>2. CASE parent[o] = NoObject
        <4>1. Begin(g, "destroy", o, o)
          BY <2>3, <3>2 DEF Destroy
        <4> QED BY <4>1, BeginKeeps DEF Ops
      <3>3. CASE parent[o] # NoObject
        <4>1. PICK p \in Objects : Begin(g, "remove", p, o)
          BY <2>3, <3>1, <3>3 DEF Destroy
        <4> QED BY <4>1, BeginKeeps DEF Ops
      <3> QED BY <3>2, <3>3
    <2>4. ASSUME NEW g \in Callers, NEW o \in Objects, NEW x \in Objects, AddObject(g, o, x)
          PROVE  TreeInv'
      <3>1. Begin(g, "add", o, x)
        BY <2>4 DEF AddObject
      <3> QED BY <3>1, BeginKeeps DEF Ops
    <2>5. ASSUME NEW g \in Callers, NEW o \in Objects, NEW c \in Objects,
                 Begin(g, "component", o, c)
          PROVE  TreeInv'
      BY <2>5, BeginKeeps DEF Ops
    <2>6. ASSUME NEW g \in Callers, NEW o \in Objects, Begin(g, "bytype", o, o)
          PROVE  TreeInv'
      BY <2>6, BeginKeeps DEF Ops
    <2> QED BY <2>1, <2>2, <2>3, <2>4, <2>5, <2>6, RuntimeKeeps DEF ONext
  <1> QED BY <1>1, TreeStart, PTL DEF OSpec

(* For any tree and any number of goroutines that add, remove and destroy objects
   and components at the same time, RemoveComponent on any object for any
   component included: a component whose object is not used after its destruction,
   and which no object hands over that does not hold it, goes to the destroy
   system at most once (object.go:86-110, 194-265). *)
THEOREM TreeDestroysOnce == OSpec => []DestroyedOnce
  <1>1. TreeInv => DestroyedOnce
    BY DEF TreeInv, TreeTypes, Usages, GivenInv, DestroyedOnce
  <1> QED BY <1>1, TreeInductive, PTL
-----------------------------------------------------------------------------
(* The library                                                               *)

(* Each part of a behaviour of the library is a behaviour of that part: a step
   of one structure is a stuttering step of the others. *)
THEOREM LibraryRunsParts == LibSafety => Spec /\ QSpec /\ WSpec /\ OSpec
  <1>1. LibInit => Init /\ QInit /\ WInit /\ OInit
    BY DEF LibInit
  <1>2. [LibNext]_libVars => [Next]_vars /\ [QNext]_qvars /\ [WNext]_wvars /\ [ONext]_ovars
    BY DEF LibNext, libVars, Only
  <1> QED BY <1>1, <1>2, PTL DEF LibSafety, Spec, QSpec, WSpec, OSpec
=============================================================================
