------------------------------ MODULE EcsFrame ------------------------------
(***************************************************************************)
(* The frame loop of the ECS (hECS/runtime.go and system_*.go) and the     *)
(* life of components under it: AddComponent and RemoveComponent           *)
(* (object.go), called by any goroutine, put a component on the lists of   *)
(* the inner systems one after the other, while UpdateFrame runs these     *)
(* systems in the order awake, start, update, destroy.                     *)
(*                                                                         *)
(* A system hands one task per component to the thread pool (module        *)
(* ThreadPool) and waits for all of them, so a phase is the set `running`  *)
(* of tasks that have not ended.                                           *)
(***************************************************************************)
EXTENDS Naturals, Sequences, FiniteSets

CONSTANTS
    Components,   \* each is added at most once and removed at most once
    Host,         \* one of them ...
    Nested,       \* ... and those that Awake of Host adds
    Registers     \* whether RegisterSystem is called

ASSUME EcsAssumption ==
    /\ Host \in Components /\ Nested \subseteq Components \ {Host}
    /\ Registers \in BOOLEAN

VARIABLES
    awakes, starts, destroys, \* `components` of AwakeSystem, StartSystem,
                              \*   DestroySystem
    push, pop, updated,       \* UpdateSystem: push, pop, components
    phase,      \* the system that UpdateFrame is running, or idle
    running,    \* the tasks of that system that have not ended
    add, rem,   \* per component: next step of AddComponent, RemoveComponent
    writer,     \* RegisterSystem: idle, wait (for Runtime.locker), done
    amid,       \* components whose AddComponent reached the awake system
                \*   during a frame
    life        \* per component: what has run, in order (a run of updates
                \*   counts once)

listVars == <<awakes, starts, destroys, push, pop, updated>>
vars == <<listVars, phase, running, add, rem, writer, amid, life>>

Init ==
    /\ awakes = {} /\ starts = {} /\ destroys = {}
    /\ push = {} /\ pop = {} /\ updated = {}
    /\ phase = "idle" /\ running = {}
    /\ add = [c \in Components |-> "idle"]
    /\ rem = [c \in Components |-> "idle"]
    /\ writer = "idle" /\ amid = {}
    /\ life = [c \in Components |-> <<>>]

Ran(c, what) == \E i \in 1 .. Len(life[c]) : life[c][i] = what

Record(c, what) ==
    life' = IF what = "update" /\ life[c] # <<>> /\ life[c][Len(life[c])] = "update"
              THEN life ELSE [life EXCEPT ![c] = Append(@, what)]
-----------------------------------------------------------------------------
(* Runtime.locker: UpdateFrame, SystemFilter and SystemOperate read-lock it,  *)
(* RegisterSystem locks it.  A waiting writer keeps new readers out.          *)

Filtering(c) == add[c] \in {"awake", "start", "update"}

RLock == writer # "wait"

RegisterCall ==
    /\ Registers /\ writer = "idle"
    /\ writer' = "wait"
    /\ UNCHANGED <<listVars, phase, running, add, rem, life, amid>>

RegisterSystem ==
    /\ writer = "wait" /\ phase = "idle"
    /\ \A c \in Components : ~Filtering(c)
    /\ writer' = "done"
    /\ UNCHANGED <<listVars, phase, running, add, rem, life, amid>>
-----------------------------------------------------------------------------
(* UpdateFrame                                                               *)

(* AddComponent has returned: accepted, refused, or accepted by an object that
   had no runtime. *)
AddEnded == {"done", "refused", "unseen"}

FrameBeginUnswapped ==
    /\ phase = "idle" /\ RLock
    /\ phase' = "awake"
    /\ UNCHANGED <<listVars, running, add, rem, writer, life, amid>>

FrameBegin ==
    /\ phase = "idle" /\ RLock
    /\ phase' = "awake"
    /\ running' = awakes /\ awakes' = {}
    /\ UNCHANGED <<starts, destroys, push, pop, updated, add, rem, writer, life, amid>>

StartFrameKeeps ==
    /\ phase = "awake" /\ running = {}
    /\ phase' = "start"
    /\ running' = starts
    /\ UNCHANGED <<listVars, add, rem, writer, life, amid>>

(* wg.Wait of the awake system has returned; the start system swaps lists. *)
StartFrame ==
    /\ phase = "awake" /\ running = {}
    /\ phase' = "start"
    /\ running' = starts /\ starts' = {}
    /\ UNCHANGED <<awakes, destroys, push, pop, updated, add, rem, writer, life, amid>>

(* The update system takes in what was added and then drops what was
   removed. *)
UpdateFrame ==
    /\ phase = "start" /\ running = {}
    /\ phase' = "update"
    /\ updated' = (updated \cup push) \ pop
    /\ push' = {} /\ pop' = {}
    /\ running' = updated'
    /\ UNCHANGED <<awakes, starts, destroys, add, rem, writer, life, amid>>

DestroyFrame ==
    /\ phase = "update" /\ running = {}
    /\ phase' = "destroy"
    /\ running' = destroys /\ destroys' = {}
    /\ UNCHANGED <<awakes, starts, push, pop, updated, add, rem, writer, life, amid>>

FrameEnd ==
    /\ phase = "destroy" /\ running = {}
    /\ phase' = "idle"
    /\ UNCHANGED <<listVars, running, add, rem, writer, life, amid>>

(* The task of c runs to its end, or panics, which the pool recovers.  Awake
   of Host has by then added what it adds. *)
TaskRuns(c) ==
    /\ c \in running
    /\ phase = "awake" /\ c = Host => \A d \in Nested : add[d] \in AddEnded
    /\ running' = running \ {c}
    /\ Record(c, phase)
    /\ UNCHANGED <<listVars, phase, add, rem, writer, amid>>
-----------------------------------------------------------------------------
(* AddComponent: under the lock of the object, check, append and, if the      *)
(* object has a runtime, run SystemFilter; after it, Initialize, also for a   *)
(* component refused.                                                        *)

Addable(c) ==
    /\ add[c] = "idle"
    /\ c \in Nested => phase = "awake" /\ Host \in running

AddBegin(c) ==
    /\ Addable(c) /\ RLock
    /\ add' = [add EXCEPT ![c] = "awake"]
    /\ UNCHANGED <<listVars, phase, running, rem, writer, life, amid>>

(* It is not unique, or a required component is missing. *)
AddRefused(c) ==
    /\ Addable(c)
    /\ add' = [add EXCEPT ![c] = "refuse"]
    /\ UNCHANGED <<listVars, phase, running, rem, writer, life, amid>>

(* Neither the object nor a parent of it has a runtime: it is still being built,
   as by ObjectFactory.Deserialize, or was disposed of.  No system gets the
   component, not even when AddObject puts the object into the tree. *)
AddUnattached(c) ==
    /\ Addable(c)
    /\ add' = [add EXCEPT ![c] = "loose"]
    /\ UNCHANGED <<listVars, phase, running, rem, writer, life, amid>>

FilterAwake(c) ==
    /\ add[c] = "awake"
    /\ awakes' = awakes \cup {c}
    /\ add' = [add EXCEPT ![c] = "start"]
    /\ amid' = IF phase = "idle" THEN amid ELSE amid \cup {c}
    /\ UNCHANGED <<starts, destroys, push, pop, updated, phase, running, rem,
                   writer, life>>

FilterStart(c) ==
    /\ add[c] = "start"
    /\ starts' = starts \cup {c}
    /\ add' = [add EXCEPT ![c] = "update"]
    /\ UNCHANGED <<awakes, destroys, push, pop, updated, phase, running, rem,
                   writer, life, amid>>

FilterUpdateForgotten(c) ==
    /\ add[c] = "update"
    /\ add' = [add EXCEPT ![c] = "init"]
    /\ UNCHANGED <<listVars, phase, running, rem, writer, life, amid>>

FilterUpdate(c) ==
    /\ add[c] = "update"
    /\ push' = push \cup {c}
    /\ add' = [add EXCEPT ![c] = "init"]
    /\ UNCHANGED <<awakes, starts, destroys, pop, updated, phase, running, rem,
                   writer, life, amid>>

Initialize(c) ==
    /\ add[c] \in {"init", "refuse", "loose"}
    /\ add' = [add EXCEPT ![c] = CASE @ = "init" -> "done"
                                   [] @ = "refuse" -> "refused"
                                   [] @ = "loose" -> "unseen"]
    /\ Record(c, "init")
    /\ UNCHANGED <<listVars, phase, running, rem, writer, amid>>
-----------------------------------------------------------------------------
(* RemoveComponent: two SystemOperate calls, each with a lock of its own,    *)
(* made also for a component the object does not hold.  It needs the lock of *)
(* the object, which AddComponent has released when it calls Initialize.     *)

Removable(c) ==
    add[c] \in {"init", "refuse", "loose"} \cup AddEnded /\ rem[c] = "idle"

(* The object still has no runtime: the component only leaves the object. *)
RemoveUnattached(c) ==
    /\ Removable(c) /\ add[c] \in {"loose", "unseen"}
    /\ rem' = [rem EXCEPT ![c] = "done"]
    /\ UNCHANGED <<listVars, phase, running, add, writer, life, amid>>

RemoveUpdateForgotten(c) ==
    /\ Removable(c) /\ RLock
    /\ rem' = [rem EXCEPT ![c] = "destroy"]
    /\ UNCHANGED <<listVars, phase, running, add, writer, life, amid>>

RemoveUpdate(c) ==
    /\ Removable(c) /\ RLock
    /\ pop' = pop \cup {c}
    /\ rem' = [rem EXCEPT ![c] = "destroy"]
    /\ UNCHANGED <<awakes, starts, destroys, push, updated, phase, running,
                   add, writer, life, amid>>

RemoveDestroyForgotten(c) ==
    /\ rem[c] = "destroy" /\ RLock
    /\ rem' = [rem EXCEPT ![c] = "done"]
    /\ UNCHANGED <<listVars, phase, running, add, writer, life, amid>>

RemoveDestroy(c) ==
    /\ rem[c] = "destroy" /\ RLock
    /\ destroys' = destroys \cup {c}
    /\ rem' = [rem EXCEPT ![c] = "done"]
    /\ UNCHANGED <<awakes, starts, push, pop, updated, phase, running, add,
                   writer, life, amid>>
-----------------------------------------------------------------------------
FrameStep ==
    \/ FrameBegin \/ StartFrame \/ UpdateFrame \/ DestroyFrame \/ FrameEnd

AddStep(c) == FilterAwake(c) \/ FilterStart(c) \/ FilterUpdate(c) \/ Initialize(c)

Next ==
    \/ FrameStep
    \/ RegisterCall \/ RegisterSystem
    \/ \E c \in Components :
          \/ TaskRuns(c)
          \/ AddBegin(c) \/ AddRefused(c) \/ AddUnattached(c) \/ AddStep(c)
          \/ RemoveUpdate(c) \/ RemoveDestroy(c) \/ RemoveUnattached(c)

Spec == Init /\ [][Next]_vars

(* The ticker of UpdateFrameByInterval, the pool and the goroutines go on; a
   task that adds components does add them.  Nobody has to add, remove or
   register anything else. *)
FairSpec ==
    /\ Spec
    /\ WF_vars(FrameStep) /\ WF_vars(RegisterSystem)
    /\ \A c \in Components :
          /\ WF_vars(TaskRuns(c)) /\ WF_vars(AddStep(c))
          /\ WF_vars(RemoveDestroy(c))
          /\ WF_vars(c \in Nested /\ (AddBegin(c) \/ AddRefused(c) \/ AddUnattached(c)))
-----------------------------------------------------------------------------
Events == {"init", "awake", "start", "update", "destroy"}

(* Types; between two frames no task is running: UpdateFrame returns only
   when the WaitGroup of each system is back to zero. *)
TypeOK ==
    /\ \A l \in {awakes, starts, destroys, push, pop, updated, running} :
          l \subseteq Components
    /\ phase \in {"idle", "awake", "start", "update", "destroy"}
    /\ phase = "idle" => running = {}
    /\ add \in [Components -> {"idle", "awake", "start", "update", "init",
                               "refuse", "loose"} \cup AddEnded]
    /\ rem \in [Components -> {"idle", "destroy", "done"}]
    /\ writer \in {"idle", "wait", "done"}
    /\ amid \subseteq Components
    /\ life \in [Components -> Seq(Events)]

(* A component that is added once and removed once is initialised, awakened,
   started and destroyed at most once each, whatever frames run meanwhile
   (the swap of `components` and `temp`, system_awake.go:34-53). *)
OnceEach ==
    \A c \in Components : \A i, j \in 1 .. Len(life[c]) :
       life[c][i] = life[c][j] /\ life[c][i] # "update" => i = j

(* No component is updated after it was destroyed: RemoveComponent queues it
   for the update system before the destroy system, and a frame between the
   two cannot undo that (object.go:102-109, system_update.go:48-58). *)
NoUpdateAfterDestroy ==
    \A c \in Components : \A i, j \in 1 .. Len(life[c]) :
       life[c][i] = "destroy" /\ life[c][j] = "update" => j < i

(* A component that was accepted is awakened, started and, unless it is removed,
   updated, with two exceptions: a RegisterSystem waits for ever; or the object
   had no runtime when it accepted the component (add = "unseen"), which no later
   AddObject makes up for (object.go:68-71, 173-191). *)
AddedIsUpdated ==
    \A c \in Components :
       add[c] = "done" ~>
          \/ Ran(c, "awake") /\ Ran(c, "start")
             /\ (Ran(c, "update") \/ rem[c] # "idle")
          \/ [](writer = "wait")

(* A component whose removal began is destroyed by one of the frames to come,
   unless a RegisterSystem waits for a frame whose task waits, in SystemFilter,
   for that RegisterSystem (runtime.go:71, 85, 97; object.go:102-109). *)
RemovedIsDestroyed ==
    \A c \in Components :
       rem[c] = "destroy" ~> Ran(c, "destroy") \/ [](writer = "wait")

(* A component whose AddComponent came between two frames is awakened before it
   is started or updated, however much of AddComponent overlaps the next frame:
   "inner systems are ordered, awake->start->update->destroy" (runtime.go:73).
   One that is added during a frame may be started and updated in that frame
   and awakened in the next. *)
AwakeFirst ==
    \A c \in Components \ amid :
       Ran(c, "start") \/ Ran(c, "update") => Ran(c, "awake")
=============================================================================
