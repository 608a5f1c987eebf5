------------------------------ MODULE TimeWheel ------------------------------
(***************************************************************************)
(* hTimer/timeWheel.go: After(d), the timeout of every RPC call and of     *)
(* every actor message.  For each duration d there is a wheel of           *)
(* Accuracy + 1 channels whose ticker fires every d / Accuracy.  A channel *)
(* is identified by its slot: when it is closed, the slot gets a new one   *)
(* and nobody can obtain the old one any more.                             *)
(*                                                                         *)
(* Time is counted in the unit of d.  The ticker is served on time: time   *)
(* does not pass a tick that `run` has not handled.                        *)
(***************************************************************************)
EXTENDS Integers, FiniteSets

CONSTANTS
    Duration,   \* the d of After(d), which makes the wheel
    Accuracy,   \* hTimer.accuracy (20)
    Timeouts,   \* what is asked of the wheel's own After
    MaxTimers   \* bound on the timers pending at once

T == Duration \div Accuracy
Size == Accuracy + 1

(* NewTicker and After do not panic: the tick is positive and d is below maxT. *)
ASSUME WheelAssumption ==
    /\ Duration \in Nat /\ Accuracy \in Nat \ {0} /\ MaxTimers \in Nat
    /\ T > 0 /\ Duration < T * Size
    /\ Timeouts \subseteq 0 .. T * Size - 1

VARIABLES
    currPos,   \* TimeWheel.currPos
    phase,     \* time since the last tick
    timers,    \* pending timers: the slot of their channel, timeout and age
    rung       \* the timers whose channel the last tick closed

wvars == <<currPos, phase, timers, rung>>

WInit == currPos = 0 /\ phase = 0 /\ timers = {} /\ rung = {}

SlotLate(timeout) == (currPos + timeout \div T) % Size

(* TimeWheel.After: the slot of the channel it returns. *)
Slot(timeout) ==
    LET pos == timeout \div T
    IN  (currPos + (IF pos > 0 THEN pos - 1 ELSE pos)) % Size

After(timeout) ==
    /\ Cardinality(timers) < MaxTimers
    /\ timers' = timers \cup
         {[slot |-> Slot(timeout), timeout |-> timeout, age |-> 0]}
    /\ UNCHANGED <<currPos, phase, rung>>

(* run: the ticker fires, the channel at currPos is replaced and closed. *)
WheelRun ==
    /\ phase = T
    /\ phase' = 0
    /\ currPos' = (currPos + 1) % Size
    /\ rung' = {r \in timers : r.slot = currPos}
    /\ timers' = {r \in timers : r.slot # currPos}

(* One unit of time passes. *)
Pass ==
    /\ phase < T
    /\ phase' = phase + 1
    /\ timers' = {[r EXCEPT !.age = @ + 1] : r \in timers}
    /\ UNCHANGED <<currPos, rung>>

WNext == WheelRun \/ Pass \/ \E d \in Timeouts : After(d)

WSpec == WInit /\ [][WNext]_wvars
-----------------------------------------------------------------------------
(* "max 1/20 deviation" (timeWheel.go:23): a timer never rings later than its
   timeout, and at most one tick, Duration / Accuracy, earlier.  A timeout that
   is not a number of ticks counts as the number of whole ticks, and one below
   a tick rings at the next tick. *)
OnTime ==
    /\ \A r \in timers : r.age <= r.timeout \/ r.age <= T
    /\ \A r \in rung : r.age + T >= r.timeout - (r.timeout % T)
=============================================================================
