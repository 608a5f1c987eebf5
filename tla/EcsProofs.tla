----------------------------- MODULE EcsProofs ------------------------------
(***************************************************************************)
(* Proofs about the frame loop (module EcsFrame), for any number of        *)
(* components that are added and removed by any goroutines while frames    *)
(* run: what the systems do to a component they do once, not after its     *)
(* destruction, and Awake first.                                           *)
(***************************************************************************)
EXTENDS EcsFrame, QueueLemmas, TLAPS

(* How far AddComponent has got with c: FilterAwake, FilterStart and FilterUpdate
   are behind it. *)
PastAwake(c)  == add[c] \in {"start", "update", "init", "done"}
PastStart(c)  == add[c] \in {"update", "init", "done"}
PastUpdate(c) == add[c] \in {"init", "done"}

(* The task of c in system s has not ended. *)
In(s, c) == phase = s /\ c \in running

(* A component is on the list of the awake system, or its task runs, or it has
   run: one of the three, and only once FilterAwake was there. *)
AwakeInv(c) ==
    /\ c \in awakes \/ In("awake", c) \/ Ran(c, "awake") => PastAwake(c)
    /\ c \in awakes => ~In("awake", c) /\ ~Ran(c, "awake")
    /\ In("awake", c) => ~Ran(c, "awake")

(* The same of the start system, and of the destroy system after
   RemoveComponent; the update system may run many times. *)
StartInv(c) ==
    /\ c \in starts \/ In("start", c) \/ Ran(c, "start") => PastStart(c)
    /\ c \in starts => ~In("start", c) /\ ~Ran(c, "start")
    /\ In("start", c) => ~Ran(c, "start")

UpdateInv(c) ==
    c \in push \cup updated \/ In("update", c) \/ Ran(c, "update") => PastUpdate(c)

DestroyInv(c) ==
    /\ c \in destroys \/ In("destroy", c) \/ Ran(c, "destroy") => rem[c] = "done"
    /\ c \in destroys => ~In("destroy", c) /\ ~Ran(c, "destroy")
    /\ In("destroy", c) => ~Ran(c, "destroy")

(* Initialize is the last thing AddComponent does. *)
InitInv(c) == Ran(c, "init") => add[c] \in AddEnded

(* Once RemoveComponent was at the update system it updates c no more, after
   the frame it may be in. *)
RemoveInv(c) ==
    /\ rem[c] # "idle" => /\ add[c] \in {"init", "refuse", "loose"} \cup AddEnded
                          /\ c \in pop \/ c \notin push \cup updated
    /\ Ran(c, "destroy") => ~In("update", c)

(* A component whose AddComponent came between two frames is awakened by the
   next frame, before the other systems see it. *)
FirstInv(c) ==
    c \notin amid =>
       /\ PastAwake(c) => \/ phase = "idle" /\ c \in awakes
                          \/ In("awake", c) \/ Ran(c, "awake")
       /\ ~Ran(c, "awake") => /\ ~Ran(c, "start") /\ ~Ran(c, "update")
                              /\ ~In("start", c) /\ ~In("update", c)

LifeInv ==
    \A c \in Components :
       /\ AwakeInv(c) /\ StartInv(c) /\ UpdateInv(c) /\ DestroyInv(c)
       /\ InitInv(c) /\ RemoveInv(c) /\ FirstInv(c)

EcsInv == TypeOK /\ LifeInv /\ OnceEach /\ NoUpdateAfterDestroy

LEMMA SameLife ==
  ASSUME life' = life
  PROVE  /\ \A c, e : Ran(c, e)' <=> Ran(c, e)
         /\ OnceEach => OnceEach'
         /\ NoUpdateAfterDestroy => NoUpdateAfterDestroy'
  BY DEF Ran, OnceEach, NoUpdateAfterDestroy

(* An event w of component c is recorded. *)
LEMMA RecordLife ==
  ASSUME TypeOK, NEW c \in Components, NEW w \in Events, Record(c, w),
         w # "update" => ~Ran(c, w), w = "update" => ~Ran(c, "destroy")
  PROVE  /\ life' \in [Components -> Seq(Events)]
         /\ \A d \in Components : \A e : Ran(d, e)' <=> Ran(d, e) \/ (d = c /\ e = w)
         /\ OnceEach => OnceEach'
         /\ NoUpdateAfterDestroy => NoUpdateAfterDestroy'
  <1>1. life \in [Components -> Seq(Events)] /\ life[c] \in Seq(Events) /\ Len(life[c]) \in Nat
    BY DEF TypeOK
  <1>2. CASE w = "update" /\ life[c] # <<>> /\ life[c][Len(life[c])] = "update"
    <2>1. life' = life /\ Ran(c, w)
      BY <1>1, <1>2 DEF Record, Ran
    <2> QED BY <1>1, <2>1, SameLife
  <1>3. CASE ~(w = "update" /\ life[c] # <<>> /\ life[c][Len(life[c])] = "update")
    <2>1. life' = [life EXCEPT ![c] = Append(life[c], w)]
      BY <1>3 DEF Record
    <2>2. /\ life' \in [Components -> Seq(Events)] /\ life'[c] = Append(life[c], w)
          /\ \A d \in Components \ {c} : life'[d] = life[d]
      BY <1>1, <2>1
    <2>3. /\ Len(life'[c]) = Len(life[c]) + 1 /\ life'[c][Len(life[c]) + 1] = w
          /\ \A i \in 1 .. Len(life[c]) : life'[c][i] = life[c][i]
      BY <1>1, <2>2, AppendAt
    <2>4. ASSUME NEW d \in Components, NEW e
          PROVE  Ran(d, e)' <=> Ran(d, e) \/ (d = c /\ e = w)
      <3>1. CASE d # c
        BY <2>2, <3>1 DEF Ran
      <3>2. CASE d = c
        <4>1. Ran(c, e) => Ran(c, e)'
          BY <1>1, <2>3 DEF Ran
        <4>2. Ran(c, w)'
          BY <1>1, <2>3 DEF Ran
        <4>3. Ran(c, e)' => Ran(c, e) \/ e = w
          BY <1>1, <2>3 DEF Ran
        <4> QED BY <3>2, <4>1, <4>2, <4>3
      <3> QED BY <3>1, <3>2
    <2>5. ASSUME OnceEach, NEW d \in Components,
                 NEW i \in 1 .. Len(life'[d]), NEW j \in 1 .. Len(life'[d]),
                 life'[d][i] = life'[d][j], life'[d][i] # "update"
          PROVE  i = j
      <3>1. CASE d # c
        BY <2>2, <2>5, <3>1 DEF OnceEach
      <3>2. CASE d = c /\ i \in 1 .. Len(life[c]) /\ j \in 1 .. Len(life[c])
        BY <2>3, <2>5, <3>2 DEF OnceEach
      <3>3. CASE d = c /\ i = Len(life[c]) + 1 /\ j \in 1 .. Len(life[c])
        BY <2>3, <2>5, <3>3 DEF Ran
      <3>4. CASE d = c /\ j = Len(life[c]) + 1 /\ i \in 1 .. Len(life[c])
        BY <2>3, <2>5, <3>4 DEF Ran
      <3> QED BY <1>1, <2>3, <3>1, <3>2, <3>3, <3>4
    <2>6. ASSUME NoUpdateAfterDestroy, NEW d \in Components,
                 NEW i \in 1 .. Len(life'[d]), NEW j \in 1 .. Len(life'[d]),
                 life'[d][i] = "destroy", life'[d][j] = "update"
          PROVE  j < i
      <3>1. CASE d # c
        BY <2>2, <2>6, <3>1 DEF NoUpdateAfterDestroy
      <3>2. CASE d = c /\ i \in 1 .. Len(life[c]) /\ j \in 1 .. Len(life[c])
        BY <2>3, <2>6, <3>2 DEF NoUpdateAfterDestroy
      <3>3. CASE d = c /\ i = Len(life[c]) + 1 /\ j \in 1 .. Len(life[c])
        BY <1>1, <3>3
      <3>4. CASE d = c /\ j = Len(life[c]) + 1 /\ i \in 1 .. Len(life[c])
        BY <2>3, <2>6, <3>4 DEF Ran
      <3> QED BY <1>1, <2>3, <2>6, <3>1, <3>2, <3>3, <3>4
    <2> QED BY <2>2, <2>4, <2>5, <2>6 DEF OnceEach, NoUpdateAfterDestroy
  <1> QED BY <1>2, <1>3

LEMMA EcsStart == Init => EcsInv
  <1> SUFFICES ASSUME Init PROVE EcsInv
    OBVIOUS
  <1>1. \A c \in Components : Len(life[c]) = 0 /\ life[c] = <<>>
    BY DEF Init
  <1>2. TypeOK
    BY DEF Init, TypeOK, AddEnded
  <1>3. \A c \in Components : \A e : ~Ran(c, e)
    BY <1>1 DEF Ran
  <1>4. LifeInv
    BY <1>3 DEF Init, LifeInv, AwakeInv, StartInv, UpdateInv, DestroyInv, InitInv, RemoveInv,
                FirstInv, In, PastAwake
  <1>5. OnceEach /\ NoUpdateAfterDestroy
    BY <1>1 DEF OnceEach, NoUpdateAfterDestroy
  <1> QED BY <1>2, <1>4, <1>5 DEF EcsInv

(* The awake system takes its list: whoever is on it has not been awakened. *)
LEMMA FrameBeginLife ==
  ASSUME EcsInv, FrameBegin
  PROVE  EcsInv'
  <1> USE DEF EcsInv, FrameBegin
  <1>1. /\ \A d, e : Ran(d, e)' <=> Ran(d, e)
        /\ OnceEach' /\ NoUpdateAfterDestroy'
    BY SameLife
  <1>2. TypeOK'
    BY DEF TypeOK, listVars, AddEnded
  <1>3. LifeInv'
    BY <1>1 DEF TypeOK, listVars, LifeInv, AwakeInv, StartInv, UpdateInv, DestroyInv,
            InitInv, RemoveInv, FirstInv, In, PastAwake, PastStart, PastUpdate, AddEnded
  <1> QED BY <1>1, <1>2, <1>3

(* The awake system is through with its tasks, and the start system takes its
   list: a component that was added between two frames has been awakened. *)
LEMMA StartFrameLife ==
  ASSUME EcsInv, StartFrame
  PROVE  EcsInv'
  <1> USE DEF EcsInv, StartFrame
  <1>1. /\ \A d, e : Ran(d, e)' <=> Ran(d, e)
        /\ OnceEach' /\ NoUpdateAfterDestroy'
    BY SameLife
  <1>2. TypeOK'
    BY DEF TypeOK, listVars, AddEnded
  <1>3. LifeInv'
    BY <1>1 DEF TypeOK, listVars, LifeInv, AwakeInv, StartInv, UpdateInv, DestroyInv,
            InitInv, RemoveInv, FirstInv, In, PastAwake, PastStart, PastUpdate, AddEnded
  <1> QED BY <1>1, <1>2, <1>3

(* The update system takes in what was pushed and then drops what was popped:
   what was removed is not updated. *)
LEMMA UpdateFrameLife ==
  ASSUME EcsInv, UpdateFrame
  PROVE  EcsInv'
  <1> USE DEF EcsInv, UpdateFrame
  <1>1. /\ \A d, e : Ran(d, e)' <=> Ran(d, e)
        /\ OnceEach' /\ NoUpdateAfterDestroy'
    BY SameLife
  <1>2. TypeOK'
    BY DEF TypeOK, listVars, AddEnded
  <1>3. LifeInv'
    BY <1>1 DEF TypeOK, listVars, LifeInv, AwakeInv, StartInv, UpdateInv, DestroyInv,
            InitInv, RemoveInv, FirstInv, In, PastAwake, PastStart, PastUpdate, AddEnded
  <1> QED BY <1>1, <1>2, <1>3

(* The destroy system takes its list when no update is running. *)
LEMMA DestroyFrameLife ==
  ASSUME EcsInv, DestroyFrame
  PROVE  EcsInv'
  <1> USE DEF EcsInv, DestroyFrame
  <1>1. /\ \A d, e : Ran(d, e)' <=> Ran(d, e)
        /\ OnceEach' /\ NoUpdateAfterDestroy'
    BY SameLife
  <1>2. TypeOK'
    BY DEF TypeOK, listVars, AddEnded
  <1>3. LifeInv'
    BY <1>1 DEF TypeOK, listVars, LifeInv, AwakeInv, StartInv, UpdateInv, DestroyInv,
            InitInv, RemoveInv, FirstInv, In, PastAwake, PastStart, PastUpdate, AddEnded
  <1> QED BY <1>1, <1>2, <1>3

(* The frame ends with no task running. *)
LEMMA FrameEndLife ==
  ASSUME EcsInv, FrameEnd
  PROVE  EcsInv'
  <1> USE DEF EcsInv, FrameEnd
  <1>1. /\ \A d, e : Ran(d, e)' <=> Ran(d, e)
        /\ OnceEach' /\ NoUpdateAfterDestroy'
    BY SameLife
  <1>2. TypeOK'
    BY DEF TypeOK, listVars, AddEnded
  <1>3. LifeInv'
    BY <1>1 DEF TypeOK, listVars, LifeInv, AwakeInv, StartInv, UpdateInv, DestroyInv,
            InitInv, RemoveInv, FirstInv, In, PastAwake, PastStart, PastUpdate, AddEnded
  <1> QED BY <1>1, <1>2, <1>3

(* RegisterSystem touches no list. *)
LEMMA RegisterCallLife ==
  ASSUME EcsInv, RegisterCall
  PROVE  EcsInv'
  <1> USE DEF EcsInv, RegisterCall
  <1>1. /\ \A d, e : Ran(d, e)' <=> Ran(d, e)
        /\ OnceEach' /\ NoUpdateAfterDestroy'
    BY SameLife
  <1>2. TypeOK'
    BY DEF TypeOK, listVars, AddEnded
  <1>3. LifeInv'
    BY <1>1 DEF TypeOK, listVars, LifeInv, AwakeInv, StartInv, UpdateInv, DestroyInv,
            InitInv, RemoveInv, FirstInv, In, PastAwake, PastStart, PastUpdate, AddEnded
  <1> QED BY <1>1, <1>2, <1>3

LEMMA RegisterSystemLife ==
  ASSUME EcsInv, RegisterSystem
  PROVE  EcsInv'
  <1> USE DEF EcsInv, RegisterSystem
  <1>1. /\ \A d, e : Ran(d, e)' <=> Ran(d, e)
        /\ OnceEach' /\ NoUpdateAfterDestroy'
    BY SameLife
  <1>2. TypeOK'
    BY DEF TypeOK, listVars, AddEnded
  <1>3. LifeInv'
    BY <1>1 DEF TypeOK, listVars, LifeInv, AwakeInv, StartInv, UpdateInv, DestroyInv,
            InitInv, RemoveInv, FirstInv, In, PastAwake, PastStart, PastUpdate, AddEnded
  <1> QED BY <1>1, <1>2, <1>3

(* AddComponent begins, or refuses the component. *)
LEMMA AddBeginLife ==
  ASSUME EcsInv, NEW c \in Components, AddBegin(c)
  PROVE  EcsInv'
  <1> USE DEF EcsInv, AddBegin, Addable
  <1>1. /\ \A d, e : Ran(d, e)' <=> Ran(d, e)
        /\ OnceEach' /\ NoUpdateAfterDestroy'
    BY SameLife
  <1>2. TypeOK'
    BY DEF TypeOK, listVars, AddEnded
  <1>3. LifeInv'
    BY <1>1 DEF TypeOK, listVars, LifeInv, AwakeInv, StartInv, UpdateInv, DestroyInv,
            InitInv, RemoveInv, FirstInv, In, PastAwake, PastStart, PastUpdate, AddEnded
  <1> QED BY <1>1, <1>2, <1>3

LEMMA AddRefusedLife ==
  ASSUME EcsInv, NEW c \in Components, AddRefused(c)
  PROVE  EcsInv'
  <1> USE DEF EcsInv, AddRefused, Addable
  <1>1. /\ \A d, e : Ran(d, e)' <=> Ran(d, e)
        /\ OnceEach' /\ NoUpdateAfterDestroy'
    BY SameLife
  <1>2. TypeOK'
    BY DEF TypeOK, listVars, AddEnded
  <1>3. LifeInv'
    BY <1>1 DEF TypeOK, listVars, LifeInv, AwakeInv, StartInv, UpdateInv, DestroyInv,
            InitInv, RemoveInv, FirstInv, In, PastAwake, PastStart, PastUpdate, AddEnded
  <1> QED BY <1>1, <1>2, <1>3

LEMMA AddUnattachedLife ==
  ASSUME EcsInv, NEW c \in Components, AddUnattached(c)
  PROVE  EcsInv'
  <1> USE DEF EcsInv, AddUnattached, Addable
  <1>1. /\ \A d, e : Ran(d, e)' <=> Ran(d, e)
        /\ OnceEach' /\ NoUpdateAfterDestroy'
    BY SameLife
  <1>2. TypeOK'
    BY DEF TypeOK, listVars, AddEnded
  <1>3. LifeInv'
    BY <1>1 DEF TypeOK, listVars, LifeInv, AwakeInv, StartInv, UpdateInv, DestroyInv,
            InitInv, RemoveInv, FirstInv, In, PastAwake, PastStart, PastUpdate, AddEnded
  <1> QED BY <1>1, <1>2, <1>3

(* The three systems get the component one after the other, each once. *)
LEMMA FilterAwakeLife ==
  ASSUME EcsInv, NEW c \in Components, FilterAwake(c)
  PROVE  EcsInv'
  <1> USE DEF EcsInv, FilterAwake
  <1>1. /\ \A d, e : Ran(d, e)' <=> Ran(d, e)
        /\ OnceEach' /\ NoUpdateAfterDestroy'
    BY SameLife
  <1>2. TypeOK'
    BY DEF TypeOK, listVars, AddEnded
  <1>3. LifeInv'
    BY <1>1 DEF TypeOK, listVars, LifeInv, AwakeInv, StartInv, UpdateInv, DestroyInv,
            InitInv, RemoveInv, FirstInv, In, PastAwake, PastStart, PastUpdate, AddEnded
  <1> QED BY <1>1, <1>2, <1>3

LEMMA FilterStartLife ==
  ASSUME EcsInv, NEW c \in Components, FilterStart(c)
  PROVE  EcsInv'
  <1> USE DEF EcsInv, FilterStart
  <1>1. /\ \A d, e : Ran(d, e)' <=> Ran(d, e)
        /\ OnceEach' /\ NoUpdateAfterDestroy'
    BY SameLife
  <1>2. TypeOK'
    BY DEF TypeOK, listVars, AddEnded
  <1>3. LifeInv'
    BY <1>1 DEF TypeOK, listVars, LifeInv, AwakeInv, StartInv, UpdateInv, DestroyInv,
            InitInv, RemoveInv, FirstInv, In, PastAwake, PastStart, PastUpdate, AddEnded
  <1> QED BY <1>1, <1>2, <1>3

LEMMA FilterUpdateLife ==
  ASSUME EcsInv, NEW c \in Components, FilterUpdate(c)
  PROVE  EcsInv'
  <1> USE DEF EcsInv, FilterUpdate
  <1>1. /\ \A d, e : Ran(d, e)' <=> Ran(d, e)
        /\ OnceEach' /\ NoUpdateAfterDestroy'
    BY SameLife
  <1>2. TypeOK'
    BY DEF TypeOK, listVars, AddEnded
  <1>3. LifeInv'
    BY <1>1 DEF TypeOK, listVars, LifeInv, AwakeInv, StartInv, UpdateInv, DestroyInv,
            InitInv, RemoveInv, FirstInv, In, PastAwake, PastStart, PastUpdate, AddEnded
  <1> QED BY <1>1, <1>2, <1>3

(* RemoveComponent queues it for the update system, where nobody pushes it again,
   and then for the destroy system. *)
LEMMA RemoveUpdateLife ==
  ASSUME EcsInv, NEW c \in Components, RemoveUpdate(c)
  PROVE  EcsInv'
  <1> USE DEF EcsInv, RemoveUpdate, Removable
  <1>1. /\ \A d, e : Ran(d, e)' <=> Ran(d, e)
        /\ OnceEach' /\ NoUpdateAfterDestroy'
    BY SameLife
  <1>2. TypeOK'
    BY DEF TypeOK, listVars, AddEnded
  <1>3. LifeInv'
    BY <1>1 DEF TypeOK, listVars, LifeInv, AwakeInv, StartInv, UpdateInv, DestroyInv,
            InitInv, RemoveInv, FirstInv, In, PastAwake, PastStart, PastUpdate, AddEnded
  <1> QED BY <1>1, <1>2, <1>3

LEMMA RemoveDestroyLife ==
  ASSUME EcsInv, NEW c \in Components, RemoveDestroy(c)
  PROVE  EcsInv'
  <1> USE DEF EcsInv, RemoveDestroy
  <1>1. /\ \A d, e : Ran(d, e)' <=> Ran(d, e)
        /\ OnceEach' /\ NoUpdateAfterDestroy'
    BY SameLife
  <1>2. TypeOK'
    BY DEF TypeOK, listVars, AddEnded
  <1>3. LifeInv'
    BY <1>1 DEF TypeOK, listVars, LifeInv, AwakeInv, StartInv, UpdateInv, DestroyInv,
            InitInv, RemoveInv, FirstInv, In, PastAwake, PastStart, PastUpdate, AddEnded
  <1> QED BY <1>1, <1>2, <1>3

(* An object without runtime hands nothing to the systems. *)
LEMMA RemoveUnattachedLife ==
  ASSUME EcsInv, NEW c \in Components, RemoveUnattached(c)
  PROVE  EcsInv'
  <1> USE DEF EcsInv, RemoveUnattached, Removable
  <1>1. /\ \A d, e : Ran(d, e)' <=> Ran(d, e)
        /\ OnceEach' /\ NoUpdateAfterDestroy'
    BY SameLife
  <1>2. TypeOK'
    BY DEF TypeOK, listVars, AddEnded
  <1>3. LifeInv'
    BY <1>1 DEF TypeOK, listVars, LifeInv, AwakeInv, StartInv, UpdateInv, DestroyInv,
            InitInv, RemoveInv, FirstInv, In, PastAwake, PastStart, PastUpdate, AddEnded
  <1> QED BY <1>1, <1>2, <1>3

(* A task ends: each list had its component once. *)
LEMMA TaskRunsLife ==
  ASSUME EcsInv, NEW c \in Components, TaskRuns(c)
  PROVE  EcsInv'
  <1>1. /\ c \in running /\ running' = running \ {c} /\ Record(c, phase)
        /\ UNCHANGED <<listVars, phase, add, rem, writer, amid>>
    BY DEF TaskRuns
  <1>2. phase \in {"awake", "start", "update", "destroy"} /\ phase \in Events
    BY <1>1 DEF EcsInv, TypeOK, Events
  <1>3. In(phase, c)
    BY <1>1 DEF In
  <1>4. /\ phase # "update" => ~Ran(c, phase)
        /\ phase = "update" => ~Ran(c, "destroy")
    BY <1>2, <1>3 DEF EcsInv, LifeInv, AwakeInv, StartInv, DestroyInv, RemoveInv, In
  <1>5. /\ life' \in [Components -> Seq(Events)]
        /\ \A d \in Components : \A e : Ran(d, e)' <=> Ran(d, e) \/ (d = c /\ e = phase)
        /\ OnceEach' /\ NoUpdateAfterDestroy'
    BY <1>1, <1>2, <1>4, RecordLife DEF EcsInv
  <1>6. TypeOK'
    BY <1>1, <1>5 DEF EcsInv, TypeOK, listVars, AddEnded
  <1>7. LifeInv'
    BY <1>1, <1>2, <1>5
       DEF EcsInv, TypeOK, listVars, LifeInv, AwakeInv, StartInv, UpdateInv, DestroyInv,
            InitInv, RemoveInv, FirstInv, In, PastAwake, PastStart, PastUpdate, AddEnded
  <1> QED BY <1>5, <1>6, <1>7 DEF EcsInv

(* Initialize is called once, by the AddComponent of the component. *)
LEMMA InitializeLife ==
  ASSUME EcsInv, NEW c \in Components, Initialize(c)
  PROVE  EcsInv'
  <1>1. /\ add[c] \in {"init", "refuse", "loose"} /\ Record(c, "init")
        /\ add' = [add EXCEPT ![c] = CASE @ = "init" -> "done"
                                       [] @ = "refuse" -> "refused"
                                       [] @ = "loose" -> "unseen"]
        /\ UNCHANGED <<listVars, phase, running, rem, writer, amid>>
    BY DEF Initialize
  <1>2. /\ life' \in [Components -> Seq(Events)]
        /\ \A d \in Components : \A e : Ran(d, e)' <=> Ran(d, e) \/ (d = c /\ e = "init")
        /\ OnceEach' /\ NoUpdateAfterDestroy'
    BY <1>1, RecordLife DEF EcsInv, LifeInv, InitInv, Events, AddEnded
  <1>3. TypeOK'
    BY <1>1, <1>2 DEF EcsInv, TypeOK, listVars, AddEnded
  <1>4. LifeInv'
    BY <1>1, <1>2
       DEF EcsInv, TypeOK, listVars, LifeInv, AwakeInv, StartInv, UpdateInv, DestroyInv,
            InitInv, RemoveInv, FirstInv, In, PastAwake, PastStart, PastUpdate, AddEnded
  <1> QED BY <1>2, <1>3, <1>4 DEF EcsInv

LEMMA EcsInductive == Spec => []EcsInv
  <1>1. EcsInv /\ [Next]_vars => EcsInv'
    <2> SUFFICES ASSUME EcsInv, [Next]_vars PROVE EcsInv'
      OBVIOUS
    <2>1. CASE UNCHANGED vars
      <3> USE <2>1 DEF EcsInv, vars, listVars
      <3>1. /\ \A d, e : Ran(d, e)' <=> Ran(d, e)
            /\ OnceEach' /\ NoUpdateAfterDestroy'
        BY SameLife
      <3>2. TypeOK'
        BY DEF TypeOK
      <3>3. LifeInv'
        BY <3>1 DEF LifeInv, AwakeInv, StartInv, UpdateInv, DestroyInv,
            InitInv, RemoveInv, FirstInv, In, PastAwake, PastStart, PastUpdate, AddEnded
      <3> QED BY <3>1, <3>2, <3>3
    <2>2. CASE FrameStep \/ RegisterCall \/ RegisterSystem
      BY <2>2, FrameBeginLife, StartFrameLife, UpdateFrameLife, DestroyFrameLife,
         FrameEndLife, RegisterCallLife, RegisterSystemLife DEF FrameStep
    <2>3. ASSUME NEW c \in Components,
                 \/ TaskRuns(c) \/ AddBegin(c) \/ AddRefused(c) \/ AddUnattached(c)
                 \/ AddStep(c)
                 \/ RemoveUpdate(c) \/ RemoveDestroy(c) \/ RemoveUnattached(c)
          PROVE  EcsInv'
      BY <2>3, TaskRunsLife, AddBeginLife, AddRefusedLife, FilterAwakeLife,
         FilterStartLife, FilterUpdateLife, InitializeLife, RemoveUpdateLife,
         RemoveDestroyLife, AddUnattachedLife, RemoveUnattachedLife DEF AddStep
    <2> QED BY <2>1, <2>2, <2>3 DEF Next
  <1> QED BY <1>1, EcsStart, PTL DEF Spec

(* Types; no task outlives its frame. *)
THEOREM EcsTypes == Spec => []TypeOK
  <1>1. EcsInv => TypeOK
    BY DEF EcsInv
  <1> QED BY <1>1, EcsInductive, PTL

(* For any number of components that are added and removed by any goroutines
   while frames run, with components that are added by the Awake of another one
   and with RegisterSystem: each is initialised, awakened, started and destroyed
   at most once (system_awake.go:34-53, system_start.go:34-53,
   system_destroy.go:34-53). *)
THEOREM EcsOnceEach == Spec => []OnceEach
  <1>1. EcsInv => OnceEach
    BY DEF EcsInv
  <1> QED BY <1>1, EcsInductive, PTL

(* A component that was destroyed is not updated, wherever frames come between
   the two steps of RemoveComponent (object.go:102-109, system_update.go:48-58). *)
THEOREM EcsNoUpdateAfterDestroy == Spec => []NoUpdateAfterDestroy
  <1>1. EcsInv => NoUpdateAfterDestroy
    BY DEF EcsInv
  <1> QED BY <1>1, EcsInductive, PTL

(* A component that is added between two frames is awakened before anything else
   is done with it, however far AddComponent gets before the next frame begins
   (runtime.go:66-82). *)
THEOREM EcsAwakeFirst == Spec => []AwakeFirst
  <1>1. EcsInv => AwakeFirst
    BY DEF EcsInv, LifeInv, FirstInv, AwakeFirst
  <1> QED BY <1>1, EcsInductive, PTL
=============================================================================
