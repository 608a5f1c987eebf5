---------------------------- MODULE ChildProofs -----------------------------
(***************************************************************************)
(* Proofs about module Child, for every bound on the number of clients.    *)
(***************************************************************************)
EXTENDS Child, TLAPS

(* Clients form a chain: client i + 1 is dialled by the `input` goroutine of
   client i, after that has lost its connection.  So every connector before
   the newest has dialled, only the newest may be dialling, and those of
   clients not yet created have not begun. *)
Chain ==
    \A i \in Connectors :
       /\ i < created => con[i] \in {"online", "end"}
       /\ i = created => con[i] # "online"
       /\ i > created => con[i] = "idle"
       /\ i = 0 => con[i] \in {"dial", "online", "end"}

(* Only the newest client may be open, and only before its `input` has ended. *)
NewestUp ==
    /\ up \cup silent \subseteq {created}
    /\ up \cup silent # {} => con[created] = "idle"

ChildInv == TypeOK /\ Chain /\ NewestUp

LEMMA InitChild == Init => ChildInv
  <1> SUFFICES ASSUME Init PROVE ChildInv
    OBVIOUS
  <1> USE MaxClientsAssumption DEF Init, Connectors, Clients, NoClient
  <1>1. reach \in BOOLEAN /\ close \in BOOLEAN /\ locked \in BOOLEAN
        /\ isOnline \in BOOLEAN
    OBVIOUS
  <1>2. /\ created \in Connectors /\ rpcMaster \in 0 .. created
        /\ repOn \in Connectors /\ desOn \in Connectors
    OBVIOUS
  <1>3. TypeOK
    BY <1>1, <1>2 DEF TypeOK
  <1>4. Chain /\ NewestUp
    BY DEF Chain, NewestUp
  <1> QED BY <1>3, <1>4 DEF ChildInv

LEMMA DialChild ==
  ASSUME ChildInv, NEW i \in Connectors, Dial(i)
  PROVE  ChildInv'
  <1> USE MaxClientsAssumption
       DEF ChildInv, Dial, DialThen, Connectors, Clients, NoClient
  <1>1. created \in Nat /\ i = created
    BY DEF TypeOK, Chain
  <1>2. TypeOK'
    <2>1. /\ created' \in Connectors /\ rpcMaster' \in 0 .. created'
          /\ up' \subseteq 1 .. created' /\ silent' \subseteq 1 .. created'
          /\ held' \subseteq 1 .. created' /\ closing' \subseteq 1 .. created'
          /\ hung' \subseteq 1 .. created'
          /\ con' \in [Connectors -> {"idle", "dropped", "offline", "dial",
                                     "online", "end"}]
      <3>1. CASE reach /\ created < MaxClients
        <4>1. /\ created' = created + 1 /\ rpcMaster' = created'
              /\ up' = up \cup {created + 1}
              /\ UNCHANGED <<silent, held, closing, hung>>
              /\ con' = [con EXCEPT ![i] = "online"]
          BY <3>1
        <4>2. 1 .. created \subseteq 1 .. (created + 1)
          BY <1>1
        <4>3. /\ up' \subseteq 1 .. created' /\ silent' \subseteq 1 .. created'
              /\ held' \subseteq 1 .. created' /\ closing' \subseteq 1 .. created'
              /\ hung' \subseteq 1 .. created'
          BY <1>1, <4>1, <4>2 DEF TypeOK
        <4> QED BY <1>1, <3>1, <4>1, <4>3 DEF TypeOK
      <3>2. CASE ~(reach /\ created < MaxClients)
        <4>1. rpcMaster' = 0 /\ UNCHANGED <<created, up, silent, held, closing, hung, con>>
          BY <3>2
        <4> QED BY <1>1, <4>1 DEF TypeOK
      <3> QED BY <3>1, <3>2
    <2> QED BY <2>1 DEF TypeOK
  <1>3. Chain'
    BY <1>1 DEF TypeOK, Chain
  <1>4. NewestUp'
    BY <1>1 DEF TypeOK, Chain, NewestUp
  <1> QED BY <1>2, <1>3, <1>4

LEMMA SetOnlineChild ==
  ASSUME ChildInv, NEW i \in Connectors, SetOnline(i)
  PROVE  ChildInv'
  <1> USE MaxClientsAssumption
       DEF ChildInv, SetOnline, Connectors, Clients, NoClient
  <1>1. created \in Nat /\ i < created
    BY DEF TypeOK, Chain
  <1>2. TypeOK' /\ Chain'
    BY <1>1 DEF TypeOK, Chain
  <1>3. NewestUp'
    BY <1>1 DEF TypeOK, NewestUp
  <1> QED BY <1>2, <1>3

LEMMA DropChild ==
  ASSUME ChildInv, NEW g \in Clients, Drop(g) \/ HeartStep(g) \/ DropStep(g)
  PROVE  ChildInv'
  <1> USE MaxClientsAssumption
       DEF ChildInv, Connectors, Clients, NoClient
  <1>1. CASE Drop(g)
    <2>1. TypeOK'
      BY <1>1 DEF Drop, TypeOK
    <2>2. Chain' /\ NewestUp'
      BY <1>1 DEF Drop, TypeOK, Chain, NewestUp
    <2> QED BY <2>1, <2>2
  <1>2. CASE HeartStep(g)
    <2>1. created \in Nat /\ g \in 1 .. created
      BY <1>2 DEF HeartStep, HeartShuts, HeartShutsWhen, HeartHangs, TypeOK
    <2>2. UNCHANGED <<created, up, held, con>> /\ silent' \subseteq silent
      BY <1>2 DEF HeartStep, HeartShuts, HeartShutsWhen, HeartHangs
    <2>3. TypeOK'
      BY <1>2, <2>1 DEF HeartStep, HeartShuts, HeartShutsWhen, HeartHangs, TypeOK
    <2>4. Chain' /\ NewestUp'
      BY <2>2 DEF TypeOK, Chain, NewestUp
    <2> QED BY <2>3, <2>4
  <1>3. CASE InputEnds(g)
    <2>1. created \in Nat /\ g = created /\ up \cup silent = {}
      BY <1>3 DEF InputEnds, TypeOK, Chain, NewestUp
    <2>2. TypeOK'
      BY <1>3, <2>1 DEF InputEnds, TypeOK
    <2>3. Chain' /\ NewestUp'
      BY <1>3, <2>1 DEF InputEnds, TypeOK, Chain, NewestUp
    <2> QED BY <2>2, <2>3
  <1>4. CASE OnDropped(g) \/ SetOffline(g)
    <2> USE DEF OnDropped, SetOffline, clientVars
    <2>1. created \in Nat /\ g = created /\ up \cup silent = {}
      BY <1>4 DEF TypeOK, Chain, NewestUp
    <2>2. TypeOK'
      BY <1>4, <2>1 DEF TypeOK
    <2>3. Chain' /\ NewestUp'
      BY <1>4, <2>1 DEF TypeOK, Chain, NewestUp
    <2> QED BY <2>2, <2>3
  <1> QED BY <1>1, <1>2, <1>3, <1>4 DEF DropStep

LEMMA OtherChild ==
  ASSUME ChildInv, \/ MasterReach \/ ReportStep \/ DestroyBegin \/ DestroyCall
                   \/ UNCHANGED vars
  PROVE  ChildInv'
  <1>1. UNCHANGED <<created, up, silent, held, closing, hung, rpcMaster, con>>
    BY DEF clientVars, MasterReach, ReportStep, ReportAwait, ReportCheck, ReportTest,
           ReportUse, ReportCall, DestroyBegin, DestroyCall, vars
  <1>2. TypeOK'
    <2> USE DEF ChildInv, TypeOK
    <2>1. CASE MasterReach \/ UNCHANGED vars
      BY <2>1 DEF MasterReach, vars, clientVars
    <2>2. CASE ReportStep
      <3>1. rpcMaster \in Connectors /\ NoClient \in Connectors
        BY MaxClientsAssumption DEF Connectors, NoClient
      <3>2. UNCHANGED <<reach, close, locked, isOnline, des, desOn>>
        BY <2>2 DEF ReportStep, ReportAwait, ReportCheck, ReportTest,
                    ReportUse, ReportCall
      <3>3. /\ rep' \in {"await", "check", "test", "use", "call", "end", "panic"}
            /\ repOn' \in Connectors
        BY <2>2, <3>1 DEF ReportStep, ReportAwait, ReportCheck, ReportTest,
                    ReportUse, ReportCall
      <3> QED BY <1>1, <3>2, <3>3
    <2>3. CASE DestroyBegin \/ DestroyCall
      <3>1. rpcMaster \in Connectors /\ NoClient \in Connectors
        BY MaxClientsAssumption DEF Connectors, NoClient
      <3>2. UNCHANGED <<reach, isOnline, rep, repOn>>
        BY <2>3 DEF DestroyBegin, DestroyCall
      <3>3. des' \in {"idle", "call", "end"} /\ desOn' \in Connectors
        BY <2>3, <3>1 DEF DestroyBegin, DestroyCall
      <3>4. close' \in BOOLEAN /\ locked' \in BOOLEAN
        BY <2>3 DEF DestroyBegin, DestroyCall
      <3> QED BY <1>1, <3>2, <3>3, <3>4
    <2> QED BY <2>1, <2>2, <2>3
  <1> QED BY <1>1, <1>2 DEF ChildInv, Chain, NewestUp

LEMMA InductiveChild == Spec => []ChildInv
  <1>1. ChildInv /\ [Next]_vars => ChildInv'
    BY DialChild, SetOnlineChild, DropChild, OtherChild
       DEF Next, ConnectorStep
  <1> QED BY <1>1, InitChild, PTL DEF Spec

(* Type correctness; in particular rpcMaster is nil or a client that exists. *)
THEOREM ChildTypes == Spec => []TypeOK
  <1>1. ChildInv => TypeOK
    BY DEF ChildInv
  <1> QED BY <1>1, InductiveChild, PTL

(* However many connections were made and lost, at most one ConnectToMaster is
   looking for the master and at most one connection, the newest, is open
   (ChildComponent.go:138-187). *)
THEOREM ChildOneConnection == Spec => []OneConnection
  <1>1. ChildInv => OneConnection
    BY MaxClientsAssumption
       DEF ChildInv, TypeOK, Chain, NewestUp, OneConnection, Connectors
  <1> QED BY <1>1, InductiveChild, PTL
=============================================================================
