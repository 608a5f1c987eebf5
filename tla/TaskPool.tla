------------------------------ MODULE TaskPool ------------------------------
(***************************************************************************)
(* What hCommon/threadpool promises, without its locks: a queue of tasks   *)
(* served first come first served by at most MaxThreads threads.  A task   *)
(* that finds a free thread starts at once, and a thread that finishes a   *)
(* task takes the head of the queue with it: no task waits while a thread  *)
(* is free.                                                                *)
(***************************************************************************)
EXTENDS Integers, Sequences, FiniteSets

CONSTANTS Tasks, MaxThreads   \* MaxThreads < 0: no limit

VARIABLES queue,     \* tasks accepted and not started, oldest first
          running,   \* tasks that have a thread
          finished

poolVars == <<queue, running, finished>>

Init == queue = <<>> /\ running = {} /\ finished = {}

Free == MaxThreads < 0 \/ Cardinality(running) < MaxThreads

New(t) == /\ t \notin running \cup finished
          /\ \A i \in 1 .. Len(queue) : queue[i] # t

Submit(t) ==
    /\ New(t)
    /\ IF Free THEN running' = running \cup {t} /\ queue' = queue
               ELSE queue' = Append(queue, t) /\ running' = running
    /\ finished' = finished

Finish(t) ==
    /\ t \in running
    /\ finished' = finished \cup {t}
    /\ IF queue = <<>>
         THEN running' = running \ {t} /\ queue' = queue
         ELSE running' = (running \ {t}) \cup {Head(queue)} /\ queue' = Tail(queue)

Next == \E t \in Tasks : Submit(t) \/ Finish(t)

Spec == Init /\ [][Next]_poolVars
=============================================================================
