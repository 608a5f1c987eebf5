----------------------------- MODULE ObjectTree -----------------------------
(***************************************************************************)
(* The tree of ECS objects (hECS/object.go): AddObject, RemoveObject,      *)
(* Destroy, RemoveComponent and RemoveComponentsByType, called by          *)
(* goroutines that overlap.  Every object has its own lock; _destroy locks *)
(* an object and, holding that lock, destroys its children one by one, so  *)
(* a goroutine has a stack of locked objects.                              *)
(*                                                                         *)
(* What the systems do with a component is in module EcsFrame; here it is  *)
(* counted how often a component is handed to the destroy system.  A child *)
(* that two AddObjects put on one list twice is counted once.              *)
(***************************************************************************)
EXTENDS Integers, Sequences, FiniteSets, SequencesExt

CONSTANTS Objects, TreeRoot, NoObject, Callers, MaxCalls
    \* MaxCalls bounds the calls each goroutine makes

ASSUME TreeAssumption ==
    TreeRoot \in Objects /\ NoObject \notin Objects \cup Callers /\ MaxCalls \in Nat

VARIABLES
    parent,     \* Object.parent: never cleared
    kids,       \* Object.children
    holds,      \* the objects that hold their component (one for each object)
    attached,   \* Object.runtime # nil
    owner,      \* per object: the goroutine that has its lock
    call,       \* per goroutine: the call it is in
    stack,      \* per goroutine: objects _destroy is in, with children to do
    calls,      \* per goroutine: number of calls begun
    given,      \* per object: how often its component went to the destroy system
    usage,      \* per object: new, disposed, revived (used again after that), or
                \*   strayed (its component was handed over by an object that
                \*   did not hold it)
    raced       \* whether two AddObjects have overlapped

ovars == <<parent, kids, holds, attached, owner, call, stack, calls, given,
           usage, raced>>

NoCall == [op |-> "none", on |-> NoObject, arg |-> NoObject]

OInit ==
    /\ parent = [o \in Objects |-> NoObject]
    /\ kids = [o \in Objects |-> {}]
    /\ holds = Objects
    /\ attached = {TreeRoot}
    /\ owner = [o \in Objects |-> NoObject]
    /\ call = [g \in Callers |-> NoCall]
    /\ stack = [g \in Callers |-> <<>>]
    /\ calls = [g \in Callers |-> 0]
    /\ given = [o \in Objects |-> 0]
    /\ usage = [o \in Objects |-> "new"]
    /\ raced = FALSE

(* The ancestors of o, itself included; with a loop in the parents, Root,
   HasParent and _runtime would go round for ever. *)
Ancestors(o) ==
    LET up[n \in 0 .. Cardinality(Objects)] ==
          IF n = 0 THEN {o} ELSE up[n - 1] \cup {parent[x] : x \in up[n - 1] \ {NoObject}}
    IN  up[Cardinality(Objects)]

Loop(o) == NoObject \notin Ancestors(o)

Adding(g) == call[g].op \in {"add", "child"}

Begin(g, op, on, arg) ==
    /\ call[g] = NoCall /\ calls[g] < MaxCalls
    /\ call' = [call EXCEPT ![g] = [op |-> op, on |-> on, arg |-> arg]]
    /\ calls' = [calls EXCEPT ![g] = @ + 1]
    /\ raced' = (raced \/ (op = "add" /\ \E f \in Callers : Adding(f)))
    /\ UNCHANGED <<parent, kids, holds, attached, owner, stack, given, usage>>

(* Destroy reads the parent: RemoveObject there, or _destroy of a root. *)
Destroy(g, o) ==
    IF parent[o] = NoObject THEN Begin(g, "destroy", o, o)
                            ELSE Begin(g, "remove", parent[o], o)

(* AddObject looks at the parent of the new child before it locks anything. *)
AddObject(g, o, child) ==
    /\ parent[child] = NoObject
    /\ Begin(g, "add", o, child)

AtLock(g, op) == call[g].op = op /\ owner[call[g].on] = NoObject /\ stack[g] = <<>>

Return(g) == call' = [call EXCEPT ![g] = NoCall]

HasParentIgnored(o, child) == FALSE

(* o is the object itself or below it; HasParent goes up the parents, without
   their locks. *)
IsOrHasParent(o, child) == child \in Ancestors(o)

(* AddObject under the lock of o: refused if child is o or above o ... *)
AddCheck(g) ==
    /\ AtLock(g, "add")
    /\ LET o == call[g].on
       IN  IF IsOrHasParent(o, call[g].arg)
             THEN Return(g) /\ UNCHANGED owner
             ELSE /\ ~Loop(o)
                  /\ owner' = [owner EXCEPT ![o] = g]
                  /\ call' = [call EXCEPT ![g].op = "child"]
    /\ UNCHANGED <<parent, kids, holds, attached, stack, calls, given, usage, raced>>

(* An object that was destroyed gets a runtime again. *)
Revive(o) == [usage EXCEPT ![o] = IF @ = "disposed" THEN "revived" ELSE @]

(* ... else linked: the child takes over o's runtime, or its lack of one. *)
AddLink(g) ==
    /\ call[g].op = "child"
    /\ LET o == call[g].on  child == call[g].arg
       IN  /\ parent' = [parent EXCEPT ![child] = o]
           /\ kids' = [kids EXCEPT ![o] = @ \cup {child}]
           /\ attached' = IF o \in attached THEN attached \cup {child}
                                            ELSE attached \ {child}
           /\ owner' = [owner EXCEPT ![o] = NoObject]
           /\ usage' = IF o \in attached THEN Revive(child) ELSE usage
    /\ Return(g)
    /\ UNCHANGED <<holds, stack, calls, given, raced>>

RemoveUnderLockKeeps(g) ==
    /\ AtLock(g, "component")
    /\ LET o == call[g].on  c == call[g].arg
       IN  /\ given' = IF o \in attached THEN [given EXCEPT ![c] = @ + 1] ELSE given
           /\ usage' = IF o \in attached /\ ~(o = c /\ c \in holds)
                         THEN [usage EXCEPT ![c] = "strayed"] ELSE usage
    /\ Return(g)
    /\ UNCHANGED <<parent, kids, holds, attached, owner, stack, calls, raced>>

(* RemoveComponent, called on o for the component of c: taken off the list if o
   holds it, and handed over, whether o held it or not, if o has a runtime. *)
RemoveUnderLock(g) ==
    /\ AtLock(g, "component")
    /\ LET o == call[g].on  c == call[g].arg
       IN  /\ holds' = IF o = c THEN holds \ {c} ELSE holds
           /\ given' = IF o \in attached THEN [given EXCEPT ![c] = @ + 1] ELSE given
           /\ usage' = IF o \in attached /\ ~(o = c /\ c \in holds)
                         THEN [usage EXCEPT ![c] = "strayed"] ELSE usage
    /\ Return(g)
    /\ UNCHANGED <<parent, kids, attached, owner, stack, calls, raced>>

(* Runtime(), which AddComponent calls: the runtime of the nearest ancestor
   that has one is remembered, also by an object that was destroyed, since it
   keeps its parent. *)
Runtime(o) ==
    /\ owner[o] = NoObject /\ o \notin attached
    /\ ~Loop(o) /\ Ancestors(o) \cap attached # {}
    /\ attached' = attached \cup {o}
    /\ usage' = Revive(o)
    /\ UNCHANGED <<parent, kids, holds, owner, call, stack, calls, given, raced>>

(* RemoveComponentsByType: once it has found one, o.Runtime() waits for the
   lock that this goroutine holds. *)
ByTypeUnderLock(g) ==
    /\ AtLock(g, "bytype")
    /\ LET o == call[g].on
       IN  IF o \in holds
             THEN /\ owner' = [owner EXCEPT ![o] = g]
                  /\ holds' = holds \ {o}
                  /\ call' = [call EXCEPT ![g].op = "stuck"]
             ELSE Return(g) /\ UNCHANGED <<owner, holds>>
    /\ UNCHANGED <<parent, kids, attached, stack, calls, given, usage, raced>>
-----------------------------------------------------------------------------
(* _destroy of o is entered: the lock, then the components. *)
Enter(g, o, below) ==
    /\ owner[o] = NoObject
    /\ owner' = [owner EXCEPT ![o] = g]
    /\ given' = IF o \in holds /\ o \in attached
                  THEN [given EXCEPT ![o] = @ + 1] ELSE given
    /\ stack' = [stack EXCEPT ![g] = Append(below, [on |-> o, todo |-> kids[o]])]

DestroyRoot(g) ==
    /\ call[g].op = "destroy" /\ stack[g] = <<>>
    /\ Enter(g, call[g].on, <<>>)
    /\ UNCHANGED <<parent, kids, holds, attached, call, calls, usage, raced>>

(* RemoveObject under the lock of the parent: the child leaves the list, and
   is destroyed with that lock held. *)
RemoveObject(g) ==
    /\ AtLock(g, "remove")
    /\ LET p == call[g].on  o == call[g].arg
       IN  IF o \in kids[p]
             THEN /\ kids' = [kids EXCEPT ![p] = @ \ {o}]
                  /\ owner' = [owner EXCEPT ![p] = g]
                  /\ stack' = [stack EXCEPT ![g] = <<[on |-> p, todo |-> {o}]>>]
                  /\ UNCHANGED call
             ELSE Return(g) /\ UNCHANGED <<kids, owner, stack>>
    /\ UNCHANGED <<parent, holds, attached, calls, given, usage, raced>>

Top(g) == stack[g][Len(stack[g])]

DestroyChild(g) ==
    /\ stack[g] # <<>>
    /\ \E o \in Top(g).todo :
          Enter(g, o, [stack[g] EXCEPT ![Len(stack[g])].todo = @ \ {o}])
    /\ UNCHANGED <<parent, kids, holds, attached, call, calls, usage, raced>>

(* _dispose: name, runtime, components and children, but not the parent. *)
Dispose(o) ==
    /\ kids' = [kids EXCEPT ![o] = {}]
    /\ holds' = holds \ {o}
    /\ attached' = attached \ {o}
    /\ usage' = [usage EXCEPT ![o] = IF @ = "new" THEN "disposed" ELSE @]

(* The last child is done: dispose and unlock, or, at the bottom of a
   RemoveObject, only unlock. *)
Leave(g) ==
    /\ stack[g] # <<>> /\ Top(g).todo = {}
    /\ LET o == Top(g).on  last == Len(stack[g]) = 1
       IN  /\ IF last /\ call[g].op = "remove" THEN UNCHANGED <<kids, holds, attached, usage>>
                                               ELSE Dispose(o)
           /\ owner' = [owner EXCEPT ![o] = NoObject]
           /\ IF last THEN Return(g) ELSE UNCHANGED call
    /\ stack' = [stack EXCEPT ![g] = Front(@)]
    /\ UNCHANGED <<parent, calls, given, raced>>
-----------------------------------------------------------------------------
TreeStep(g) ==
    \/ AddCheck(g) \/ AddLink(g) \/ RemoveUnderLock(g)
    \/ ByTypeUnderLock(g)
    \/ DestroyRoot(g) \/ RemoveObject(g) \/ DestroyChild(g) \/ Leave(g)

ONext ==
    \/ \E o \in Objects : Runtime(o)
    \/ \E g \in Callers :
          \/ TreeStep(g)
          \/ \E o \in Objects :
                \/ Destroy(g, o)
                \/ \E child \in Objects : AddObject(g, o, child)
                \/ \E c \in Objects : Begin(g, "component", o, c)
                \/ Begin(g, "bytype", o, o)

OSpec == OInit /\ [][ONext]_ovars
-----------------------------------------------------------------------------
(* However Destroy, RemoveObject and RemoveComponent overlap, a component is
   handed to the destroy system at most once (object.go:86-110, 194-265), with
   two exceptions: its object is used after it was destroyed, or RemoveComponent
   is called on an object that does not hold the component, or no longer does,
   and hands it over all the same (object.go:95-109), as the launcher's
   Root().RemoveComponent(childComponent) does before Root is destroyed
   (LauncherComponent.go:136, 199; ComponentGroup.go:19-27). *)
DestroyedOnce ==
    \A o \in Objects : usage[o] \notin {"revived", "strayed"} => given[o] <= 1

(* Every call returns, unless a RemoveComponentsByType waits for its own lock
   (object.go:119-123), or AddObjects have overlapped: each may pass its checks
   before the other links, and _destroy and HasParent then go round a loop
   (object.go:175-187, 218-220, 268-277). *)
TreeCallsReturn ==
    \A g \in Callers :
       call[g] # NoCall ~>
          call[g] = NoCall \/ raced \/ \E f \in Callers : call[f].op = "stuck"
=============================================================================
