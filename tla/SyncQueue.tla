------------------------------ MODULE SyncQueue ------------------------------
(***************************************************************************)
(* hCommon/syncQueue.go: an unbounded FIFO queue that goroutines share.    *)
(* Every method runs under q.lock, so it is one step, except Pop, which    *)
(* releases the lock inside popable.Wait() and must take it again when it  *)
(* is signalled.  The n-th accepted Push carries the value n.              *)
(***************************************************************************)
EXTENDS Integers, Sequences, FiniteSets

CONSTANTS Poppers, MaxPush   \* goroutines that Pop; bound on accepted pushes

ASSUME QueueAssumption == IsFiniteSet(Poppers) /\ MaxPush \in Nat

VARIABLES
    qbuffer,    \* SyncQueue.buffer
    qclosed,    \* SyncQueue.closed
    popper,     \* per goroutine: out, waiting (in Wait), woken (signalled)
    pushed,     \* number of accepted pushes
    taken       \* the values removed so far, oldest first

qvars == <<qbuffer, qclosed, popper, pushed, taken>>

QInit ==
    /\ qbuffer = <<>> /\ qclosed = FALSE
    /\ popper = [p \in Poppers |-> "out"]
    /\ pushed = 0 /\ taken = <<>>

InWait == {p \in Poppers : popper[p] = "waiting"}
Woken  == {p \in Poppers : popper[p] = "woken"}

SignalFirst ==
    IF InWait = {} \/ qbuffer # <<>> THEN UNCHANGED popper
    ELSE \E p \in InWait : popper' = [popper EXCEPT ![p] = "woken"]

(* sync.Cond.Signal wakes one of the goroutines in Wait, if there is one. *)
Signal ==
    IF InWait = {} THEN UNCHANGED popper
    ELSE \E p \in InWait : popper' = [popper EXCEPT ![p] = "woken"]

(* Push after Close is dropped. *)
Push ==
    /\ ~qclosed /\ pushed < MaxPush
    /\ pushed' = pushed + 1
    /\ qbuffer' = Append(qbuffer, pushed + 1)
    /\ Signal
    /\ UNCHANGED <<qclosed, taken>>

(* buffer.Peek and buffer.Remove. *)
Take ==
    /\ qbuffer # <<>>
    /\ qbuffer' = Tail(qbuffer)
    /\ taken' = Append(taken, Head(qbuffer))

TakeNothing == qbuffer = <<>> /\ UNCHANGED <<qbuffer, taken>>

(* Pop, entered or woken, holding the lock: it waits (again) while the queue is
   empty and open, otherwise returns the head, or nil from a closed queue. *)
Pop(p) ==
    /\ popper[p] \in {"out", "woken"}
    /\ IF qbuffer = <<>> /\ ~qclosed
         THEN popper' = [popper EXCEPT ![p] = "waiting"] /\ TakeNothing
         ELSE popper' = [popper EXCEPT ![p] = "out"] /\ (Take \/ TakeNothing)
    /\ UNCHANGED <<qclosed, pushed>>

(* TryPop and Remove never block; Peak and Len change nothing. *)
TryPop ==
    /\ Take
    /\ UNCHANGED <<qclosed, popper, pushed>>

(* Close signals once, however many goroutines wait. *)
QClose ==
    /\ ~qclosed
    /\ qclosed' = TRUE
    /\ Signal
    /\ UNCHANGED <<qbuffer, pushed, taken>>

QNext == Push \/ TryPop \/ QClose \/ \E p \in Poppers : Pop(p)

QSpec == QInit /\ [][QNext]_qvars
-----------------------------------------------------------------------------
(* Types. *)
QTypeOK ==
    /\ qbuffer \in Seq(Nat) /\ taken \in Seq(Nat)
    /\ qclosed \in BOOLEAN /\ pushed \in Nat
    /\ popper \in [Poppers -> {"out", "waiting", "woken"}]

(* What was pushed comes out once and in order, whichever of Pop, TryPop and
   Remove takes it (syncQueue.go:26-99). *)
QueueFifo ==
    /\ Len(taken) + Len(qbuffer) = pushed
    /\ \A i \in 1 .. Len(taken) : taken[i] = i
    /\ \A i \in 1 .. Len(qbuffer) : qbuffer[i] = Len(taken) + i

(* No wakeup is lost: while a goroutine sleeps in Pop, every item in the buffer
   has a goroutine that was signalled for it and has not run yet, although
   TryPop and new Pops may take the item first (syncQueue.go:31-38, 94-97). *)
NoLostWakeup == InWait # {} => Len(qbuffer) <= Cardinality(Woken)
=============================================================================
