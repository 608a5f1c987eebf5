--------------------------- MODULE ClusterProofs ---------------------------
(***************************************************************************)
(* Proofs about what keeps a cluster together: the master's registry       *)
(* (module Membership) for every set of nodes, MaxMiss and LogSize, the    *)
(* clients of an address (NodeClient), the lookup of a node (NodeLookup)   *)
(* and the calls of actor services (ActorCall), each for any number of     *)
(* goroutines; and that module Cluster, which puts them together for TLC,  *)
(* implements each of them.                                                *)
(***************************************************************************)
EXTENDS Cluster, FiniteSetTheorems, TLAPS

(* The part of TypeOK that the registry's maps need; the log, which is built
   by a fold, is not part of the argument. *)
MapsOK ==
    /\ nodes \subseteq Addrs /\ lb \subseteq Addrs /\ checked \subseteq Addrs
    /\ nodeStatus \in [Addrs -> Statuses \cup {"none"}]
    /\ timeoutChecking \in [Addrs -> Nat]
    /\ inflight \subseteq Report

(* timeoutChecking counts the rounds since the last report. *)
CountsQuiet == quiet = timeoutChecking

MasterInv == MapsOK /\ ViewsAgree /\ CountsQuiet

LEMMA InitMaster == Init => MasterInv
  BY DEF Init, MasterInv, MapsOK, ViewsAgree, CountsQuiet, Statuses

LEMMA ReportInfoMaster ==
  ASSUME MasterInv, NEW a \in Addrs, ReportNodeInfo(a)
  PROVE  MasterInv'
  BY DEF MasterInv, MapsOK, ViewsAgree, CountsQuiet, Statuses, ReportNodeInfo,
         UpdateNodeInfo, RegisterNode, ResetTimeout

LEMMA ReportCloseMaster ==
  ASSUME MasterInv, NEW a \in Addrs, ReportNodeClose(a)
  PROVE  MasterInv'
  BY DEF MasterInv, MapsOK, ViewsAgree, CountsQuiet, Statuses, ReportNodeClose,
         NodeClose, DeleteNodes, ResetTimeout

LEMMA TimeoutMaster ==
  ASSUME MasterInv, TimeoutCheck
  PROVE  MasterInv' /\ nodes' = nodes \ Overdue
  <1>1. /\ timeoutChecking' = [a \in Addrs |->
             IF a \in checked \ Overdue THEN timeoutChecking[a] + 1 ELSE 0]
        /\ quiet' = [a \in Addrs |->
             IF a \in checked \ Overdue THEN quiet[a] + 1 ELSE 0]
        /\ inflight' = inflight
    BY DEF TimeoutCheck
  <1>2. /\ nodes' = nodes \ Overdue
        /\ nodeStatus' = [a \in Addrs |-> IF a \in Overdue THEN "none"
                                                          ELSE nodeStatus[a]]
        /\ checked' = checked \ Overdue
        /\ lb' = lb \ (Overdue \cap nodes)
    BY DEF TimeoutCheck, NodeClose, DeleteNodes
  <1>3. MapsOK'
    BY <1>1, <1>2 DEF MasterInv, MapsOK, Statuses
  <1>4. ViewsAgree'
    BY <1>2 DEF MasterInv, MapsOK, ViewsAgree
  <1>5. CountsQuiet'
    BY <1>1 DEF MasterInv, CountsQuiet
  <1> QED BY <1>2, <1>3, <1>4, <1>5 DEF MasterInv

LEMMA SetStatusMaster ==
  ASSUME MasterInv, NEW a \in Addrs, NEW s \in SetStatuses, SetNodeStatus(a, s)
  PROVE  MasterInv'
  BY MembershipAssumption
     DEF MasterInv, MapsOK, ViewsAgree, CountsQuiet, Statuses, SetNodeStatus

LEMMA ChildMaster ==
  ASSUME MasterInv, NEW a \in Addrs,
         ChildStart(a) \/ ChildStep(a) \/ ChildDestroy(a) \/ ChildExit(a)
  PROVE  MasterInv'
  BY DEF MasterInv, MapsOK, ViewsAgree, CountsQuiet, Statuses, Report, masterVars,
         ChildStart, ChildStep, ReportCheck, ReportSend, ChildDestroy, ChildExit

LEMMA OtherMaster ==
  ASSUME MasterInv, (\E r \in inflight : ReportLost(r)) \/ MasterRestart
                       \/ UNCHANGED vars
  PROVE  MasterInv'
  <1> USE DEF MasterInv
  <1>1. CASE \E r \in inflight : ReportLost(r)
    BY <1>1 DEF MapsOK, ViewsAgree, CountsQuiet, ReportLost, masterVars
  <1>2. CASE MasterRestart
    BY <1>2 DEF MapsOK, ViewsAgree, CountsQuiet, Statuses, MasterRestart
  <1>3. CASE UNCHANGED vars
    BY <1>3 DEF MapsOK, ViewsAgree, CountsQuiet, vars, masterVars
  <1> QED BY <1>1, <1>2, <1>3

LEMMA NextMaster == MasterInv /\ [Next]_vars => MasterInv'
  BY ReportInfoMaster, ReportCloseMaster, TimeoutMaster, SetStatusMaster,
     ChildMaster, OtherMaster DEF Next, MasterStep

LEMMA InductiveMaster == Spec => []MasterInv
  BY InitMaster, NextMaster, PTL DEF Spec

(* Whatever reports arrive, in whatever order, and whichever nodes time out,
   the balancers, the registry and the timeouts speak of the same nodes
   (MasterComponent.go:70-139). *)
THEOREM MasterViewsAgree == Spec => []ViewsAgree
  <1>1. MasterInv => ViewsAgree
    BY DEF MasterInv
  <1> QED BY <1>1, InductiveMaster, PTL

(* TimeoutCheck evicts only a node that has been quiet for MaxMiss rounds
   (MasterComponent.go:126-139). *)
THEOREM MasterEvictsQuiet == Spec => EvictedOnlyWhenQuiet
  <1>1. MasterInv /\ [Next]_vars =>
          [TimeoutCheck => \A a \in nodes \ nodes' : quiet[a] >= MaxMiss]_vars
    BY TimeoutMaster DEF MasterInv, CountsQuiet, Overdue
  <1> QED BY <1>1, InductiveMaster, PTL DEF Spec, EvictedOnlyWhenQuiet
-----------------------------------------------------------------------------
Dialling == {"dial", "store", "store again", "free"}

Asking ==
    [at : {"idle", "load", "check", "claim", "ok", "err"} \cup Dialling,
     got : Clients \cup {NoClient}, gone : SUBSET Clients]

(* Types. *)
ClientTypes ==
    /\ conn \in [Clients -> {"none", "up", "calling", "closed", "hung"}]
    /\ link \in [at : {"off", "dial", "store", "up"},
                 got : Clients \cup {NoClient}, old : Clients \cup {NoClient}]
    /\ rpcClient \in Clients \cup {NoClient}
    /\ clientGetting \in Nat \cup {NoClient}
    /\ ask \in [Askers -> Asking]

(* The entry of clientGetting is there as long as somebody dials, and belongs to
   that one goroutine. *)
ClaimInv ==
    /\ \A c \in Askers : ask[c].at \in Dialling => clientGetting # NoClient
    /\ \A c, d \in Askers :
          ask[c].at \in Dialling /\ ask[d].at \in Dialling => c = d

(* A client that was closed stays closed, and one that was dialled since then
   is another one. *)
GoneInv ==
    \A c \in Askers :
       /\ \A k \in ask[c].gone : Closed(k)
       /\ ask[c].at = "check" => ask[c].got # NoClient
       /\ ask[c].at \in {"store", "store again", "free", "ok"} =>
             ask[c].got \notin ask[c].gone
       /\ ask[c].at \in {"store", "store again"} => ask[c].got # NoClient

ClientInv == ClientTypes /\ ClaimInv /\ GoneInv

LEMMA ClientStart == ClientInit => ClientInv
  <1> SUFFICES ASSUME ClientInit PROVE ClientInv
    OBVIOUS
  <1>1. \A c \in Askers : ask[c] = Idling
    BY DEF ClientInit
  <1>2. Idling \in Asking
    BY DEF Idling, Asking, Dialling
  <1>3. ClientTypes
    BY <1>2 DEF ClientInit, ClientTypes
  <1>4. \A c \in Askers : ask[c].at = "idle" /\ ask[c].gone = {}
    BY <1>1 DEF Idling
  <1>5. ClaimInv
    BY <1>4 DEF ClaimInv, Dialling
  <1>6. GoneInv
    BY <1>4 DEF GoneInv, Closed
  <1> QED BY <1>3, <1>5, <1>6 DEF ClientInv

(* What touches no goroutine and opens no closed client keeps the invariant. *)
LEMMA ConnKeeps ==
  ASSUME ClientInv, ClientTypes', UNCHANGED <<clientGetting, ask>>,
         \A k \in Clients : Closed(k) => Closed(k)'
  PROVE  ClientInv'
  <1>1. ClaimInv'
    BY DEF ClientInv, ClaimInv
  <1>2. GoneInv'
    <2> SUFFICES ASSUME NEW c \in Askers, NEW k \in ask[c].gone PROVE Closed(k)'
      BY DEF GoneInv, ClientInv
    <2> QED BY DEF GoneInv, ClientInv, ClientTypes, Asking
  <1> QED BY <1>1, <1>2 DEF ClientInv

(* A client closes. *)
LEMMA CloseKeeps ==
  ASSUME ClientInv, NEW k \in Clients,
         CloseClient(k) \/ InputEnds(k) \/ ClientCallback(k)
  PROVE  ClientInv'
  <1> USE DEF CloseClient, InputEnds, ClientCallback
  <1>1. ClientTypes'
    BY DEF ClientInv, ClientTypes
  <1>2. \A j \in Clients : Closed(j) => Closed(j)'
    BY DEF ClientInv, ClientTypes, Closed
  <1> QED BY <1>1, <1>2, ConnKeeps

(* The child component connects to the master, or its connection drops. *)
LEMMA LinkKeeps ==
  ASSUME ClientInv,
         MasterStore \/ \E k \in Clients : MasterDial(k) \/ MasterDropped(k)
  PROVE  ClientInv'
  <1>1. UNCHANGED <<clientGetting, ask>>
    BY DEF MasterStore, MasterDial, MasterDropped
  <1>2. CASE MasterStore
    <2>1. ClientTypes'
      BY <1>2 DEF MasterStore, ClientInv, ClientTypes
    <2>2. \A j \in Clients : Closed(j) => Closed(j)'
      BY <1>2 DEF MasterStore, ClientInv, ClientTypes, Closed
    <2> QED BY <1>1, <2>1, <2>2, ConnKeeps
  <1>3. ASSUME NEW k \in Clients, MasterDial(k) PROVE ClientInv'
    <2>1. ClientTypes'
      BY <1>3 DEF MasterDial, Connected, ClientInv, ClientTypes
    <2>2. \A j \in Clients : Closed(j) => Closed(j)'
      BY <1>3 DEF MasterDial, Connected, ClientInv, ClientTypes, Closed
    <2> QED BY <1>1, <2>1, <2>2, ConnKeeps
  <1>4. ASSUME NEW k \in Clients, MasterDropped(k) PROVE ClientInv'
    <2>1. ClientTypes'
      BY <1>4 DEF MasterDropped, ClientInv, ClientTypes
    <2>2. \A j \in Clients : Closed(j) => Closed(j)'
      BY <1>4 DEF MasterDropped, ClientInv, ClientTypes, Closed
    <2> QED BY <1>1, <2>1, <2>2, ConnKeeps
  <1> QED BY <1>2, <1>3, <1>4

(* What a step of goroutine c must establish for the invariant to hold again. *)
LEMMA StepKeeps ==
  ASSUME ClientInv, NEW c \in Askers, ask' \in [Askers -> Asking],
         \A d \in Askers \ {c} : ask'[d] = ask[d],
         ClientTypes', \A k \in Clients : Closed(k) => Closed(k)',
         ask'[c].at \in Dialling => clientGetting' # NoClient,
         ask'[c].at \in Dialling => \A d \in Askers \ {c} : ask[d].at \notin Dialling,
         \A d \in Askers \ {c} : ask[d].at \in Dialling => clientGetting' # NoClient,
         \A k \in ask'[c].gone : Closed(k)',
         ask'[c].at = "check" => ask'[c].got # NoClient,
         ask'[c].at \in {"store", "store again", "free", "ok"} =>
             ask'[c].got \notin ask'[c].gone,
         ask'[c].at \in {"store", "store again"} => ask'[c].got # NoClient
  PROVE  ClientInv'
  <1>1. ClaimInv'
    BY DEF ClientInv, ClaimInv
  <1>2. GoneInv'
    <2> SUFFICES ASSUME NEW d \in Askers \ {c}, NEW k \in ask[d].gone PROVE Closed(k)'
      BY DEF GoneInv, ClientInv
    <2> QED BY DEF GoneInv, ClientInv, ClientTypes, Asking
  <1> QED BY <1>1, <1>2 DEF ClientInv

(* A goroutine begins, looks for a client, or returns. *)
LEMMA AskKeeps ==
  ASSUME ClientInv, NEW c \in Askers,
         GetNodeClient(c) \/ Load(c) \/ CheckClosed(c) \/ AskAgain(c)
  PROVE  ClientInv'
  <1>1. /\ UNCHANGED <<conn, link, rpcClient, clientGetting>>
        /\ \A d \in Askers \ {c} : ask'[d] = ask[d]
        /\ \A k \in Clients : Closed(k) <=> Closed(k)'
    BY DEF GetNodeClient, Load, CheckClosed, AskAgain, At, ClientInv, ClientTypes, Closed
  <1>2. ask[c] \in Asking /\ rpcClient \in Clients \cup {NoClient}
    BY DEF ClientInv, ClientTypes
  <1>3. CASE GetNodeClient(c)
    <2>1. /\ ask'[c].at = "load" /\ ask'[c].got = NoClient
          /\ ask'[c].gone = {k \in Clients : Closed(k)} /\ ask' \in [Askers -> Asking]
      BY <1>3 DEF GetNodeClient, ClientInv, ClientTypes, Asking
    <2>2. ClientTypes'
      BY <1>1, <2>1 DEF ClientInv, ClientTypes
    <2> QED BY <1>1, <2>1, <2>2, StepKeeps DEF ClientInv, ClaimInv, Dialling
  <1>4. CASE Load(c)
    <2>1. /\ ask'[c].at = IF rpcClient = NoClient THEN "claim" ELSE "check"
          /\ ask'[c].got = rpcClient
          /\ ask'[c].gone = ask[c].gone /\ ask' \in [Askers -> Asking]
      BY <1>2, <1>4 DEF Load, ClientInv, ClientTypes, Asking
    <2>2. ClientTypes'
      BY <1>1, <2>1 DEF ClientInv, ClientTypes
    <2> QED BY <1>1, <1>2, <2>1, <2>2, StepKeeps DEF ClientInv, ClaimInv, GoneInv, Dialling, Asking
  <1>5. CASE CheckClosed(c)
    <2>1. /\ ask'[c].at = IF Closed(ask[c].got) THEN "claim" ELSE "ok"
          /\ ask'[c].got = ask[c].got /\ ask[c].got \in Clients
          /\ ask'[c].gone = ask[c].gone /\ ask' \in [Askers -> Asking]
      BY <1>2, <1>5 DEF CheckClosed, At, ClientInv, GoneInv, ClientTypes, Asking
    <2>2. ClientTypes'
      BY <1>1, <2>1 DEF ClientInv, ClientTypes
    <2> QED BY <1>1, <1>2, <2>1, <2>2, StepKeeps DEF ClientInv, ClaimInv, GoneInv, Dialling, Asking
  <1>6. CASE AskAgain(c)
    <2>1. /\ ask'[c].at = "idle" /\ ask'[c].got = NoClient
          /\ ask'[c].gone = {} /\ ask' \in [Askers -> Asking]
      BY <1>6 DEF AskAgain, Idling, ClientInv, ClientTypes, Asking
    <2>2. ClientTypes'
      BY <1>1, <2>1 DEF ClientInv, ClientTypes
    <2> QED BY <1>1, <2>1, <2>2, StepKeeps DEF ClientInv, ClaimInv, Dialling
  <1> QED BY <1>3, <1>4, <1>5, <1>6

(* A goroutine claims the address, dials, stores and gives the claim up. *)
LEMMA DialKeeps ==
  ASSUME ClientInv, NEW c \in Askers,
         Claim(c) \/ Dial(c) \/ Store(c) \/ Free(c)
  PROVE  ClientInv'
  <1>1. /\ \A d \in Askers \ {c} : ask'[d] = ask[d]
        /\ \A k \in Clients : Closed(k) => Closed(k)'
    BY DEF Claim, Dial, Connected, Store, Free, At, ClientInv, ClientTypes, Closed
  <1>2. ask[c] \in Asking
    BY DEF ClientInv, ClientTypes
  <1>3. CASE Claim(c)
    <2>1. /\ ask'[c].at \in {"dial", "load", "err"}
          /\ ask'[c].at = "dial" => clientGetting = NoClient /\ clientGetting' = 0
          /\ ask'[c].gone = ask[c].gone /\ ask' \in [Askers -> Asking]
      <3> DEFINE To(x) == ask' = [ask EXCEPT ![c].at = x]
      <3>1. \/ To("dial") /\ clientGetting = NoClient /\ clientGetting' = 0
            \/ To("load") \/ To("err")
        BY <1>3 DEF Claim, At
      <3>2. ASSUME NEW x \in {"dial", "load", "err"}, To(x)
            PROVE  /\ ask'[c].at = x /\ ask'[c].gone = ask[c].gone
                   /\ ask' \in [Askers -> Asking]
        BY <1>2, <3>2 DEF ClientInv, ClientTypes, Asking, Dialling
      <3> QED BY <3>1, <3>2
    <2>2. /\ UNCHANGED <<conn, link, rpcClient>> /\ clientGetting' \in Nat
      BY <1>3, ClientAssumption DEF Claim, ClientInv, ClientTypes
    <2>3. ClientTypes'
      BY <2>1, <2>2 DEF ClientInv, ClientTypes
    <2> QED BY <1>1, <1>2, <2>1, <2>2, <2>3, StepKeeps, ClientAssumption
            DEF ClientInv, ClaimInv, GoneInv, Dialling, Asking
  <1>4. CASE Dial(c)
    <2>1. /\ ask[c].at = "dial" /\ ask'[c].at \in {"store", "free"}
          /\ ask'[c].gone = ask[c].gone /\ ask' \in [Askers -> Asking]
          /\ ask'[c].got # NoClient =>
                ask'[c].got \in Clients /\ conn[ask'[c].got] = "none"
          /\ ask'[c].at = "store" => ask'[c].got # NoClient
      <3>1. CASE \E k \in Clients : /\ conn[k] = "none"
                   /\ ask' = [ask EXCEPT ![c].at = "store", ![c].got = k]
        <4>1. PICK k \in Clients : /\ conn[k] = "none"
                   /\ ask' = [ask EXCEPT ![c].at = "store", ![c].got = k]
          BY <3>1
        <4>2. /\ ask'[c].at = "store" /\ ask'[c].got = k /\ ask'[c].gone = ask[c].gone
              /\ ask' \in [Askers -> Asking]
          BY <1>2, <4>1 DEF ClientInv, ClientTypes, Asking, Dialling
        <4>3. k # NoClient
          BY ClientAssumption DEF Clients
        <4> QED BY <1>4, <4>1, <4>2, <4>3 DEF Dial, Connected
      <3>2. CASE ask' = [ask EXCEPT ![c].at = "free", ![c].got = NoClient]
        <4>1. /\ ask'[c].at = "free" /\ ask'[c].got = NoClient
              /\ ask'[c].gone = ask[c].gone /\ ask' \in [Askers -> Asking]
          BY <1>2, <3>2 DEF ClientInv, ClientTypes, Asking, Dialling
        <4> QED BY <1>4, <4>1 DEF Dial
      <3> QED BY <1>4, <3>1, <3>2 DEF Dial, Connected
    <2>2. ClientTypes' /\ clientGetting' = clientGetting
      BY <1>4, <2>1 DEF Dial, Connected, ClientInv, ClientTypes
    <2>3. ask'[c].got \notin ask'[c].gone
      <3>1. NoClient \notin Clients
        BY ClientAssumption DEF Clients
      <3>2. \A k \in ask[c].gone : k \in Clients /\ conn[k] # "none"
        BY <1>2 DEF ClientInv, GoneInv, Closed, Asking
      <3> QED BY <2>1, <3>1, <3>2
    <2> QED BY <1>1, <1>2, <2>1, <2>2, <2>3, StepKeeps
            DEF ClientInv, ClaimInv, GoneInv, Dialling, Asking
  <1>5. CASE Store(c)
    <2>1. /\ ask[c].at \in {"store", "store again"}
          /\ ask'[c].at = IF ask[c].at = "store" THEN "store again" ELSE "free"
          /\ ask'[c].got = ask[c].got
          /\ ask'[c].gone = ask[c].gone /\ ask' \in [Askers -> Asking]
      BY <1>2, <1>5 DEF Store, At, ClientInv, ClientTypes, Asking, Dialling
    <2>2. ClientTypes' /\ clientGetting' = clientGetting
      BY <1>2, <1>5, <2>1 DEF Store, ClientInv, ClientTypes, Asking
    <2> QED BY <1>1, <1>2, <2>1, <2>2, StepKeeps
            DEF ClientInv, ClaimInv, GoneInv, Dialling, Asking
  <1>6. CASE Free(c)
    <2>1. /\ ask[c].at = "free" /\ ask'[c].at \in {"ok", "err"}
          /\ ask'[c].got = ask[c].got
          /\ ask'[c].gone = ask[c].gone /\ ask' \in [Askers -> Asking]
      BY <1>2, <1>6 DEF Free, At, ClientInv, ClientTypes, Asking, Dialling
    <2>2. ClientTypes'
      BY <1>6, <2>1 DEF Free, ClientInv, ClientTypes
    <2> QED BY <1>1, <1>2, <2>1, <2>2, StepKeeps
            DEF ClientInv, ClaimInv, GoneInv, Dialling, Asking
  <1> QED BY <1>3, <1>4, <1>5, <1>6

LEMMA ClientInductive == ClientSpec => []ClientInv
  <1>1. ClientInv /\ [ClientNext]_clientVars => ClientInv'
    <2> SUFFICES ASSUME ClientInv, [ClientNext]_clientVars PROVE ClientInv'
      OBVIOUS
    <2>1. CASE UNCHANGED clientVars
      BY <2>1 DEF clientVars, ClientInv, ClientTypes, ClaimInv, GoneInv, Closed
    <2> QED BY <2>1, CloseKeeps, LinkKeeps, AskKeeps, DialKeeps
            DEF ClientNext, CallbackStep, AskStep
  <1> QED BY <1>1, ClientStart, PTL DEF ClientSpec

(* Whatever number of goroutines ask for the client of an address while clients
   are dialled, by them and by the child component, and closed, none is handed one
   that was closed when it asked, and no two of them dial at the same time
   (NodeComponent.go:167-205). *)
THEOREM ClientsFresh == ClientSpec => []FreshClient
  <1>1. ClientInv => FreshClient
    BY DEF ClientInv, ClaimInv, GoneInv, FreshClient, Dialling
  <1> QED BY <1>1, ClientInductive, PTL
-----------------------------------------------------------------------------
Calling ==
    [at : {"idle", "cached", "query", "fresh", "ok", "err"},
     to : Registrants \cup Remote \cup {NoActor},
     executed : Nat, errors : Nat, steady : BOOLEAN, trouble : BOOLEAN]

(* Types, as far as the calls need them. *)
CallTypes ==
    /\ service \in Registrants \cup {NoActor}
    /\ actor \in [Registrants -> {"up", "registering", "registered", "destroyed"}]
    /\ remote \in Remote /\ remoteUp \in BOOLEAN
    /\ ~remoteUp => remote < MaxRestarts
    /\ services \in Registrants \cup Remote \cup {NoActor}
    /\ call \in Calling

(* How often the call was executed and failed at each point of its way: a first
   attempt through the cache, then one after a query. *)
AttemptsInv ==
    /\ call.at = "cached" => call.executed = 0 /\ call.errors = 0
    /\ call.at \in {"query", "fresh"} => call.executed <= call.errors /\ call.errors <= 1
    /\ call.at = "ok" => call.executed \in 1 .. 2 /\ call.executed <= 1 + call.errors
    /\ call.at = "err" => call.executed <= 2 /\ call.executed <= 1 + call.errors
    /\ call.at = "idle" => call.executed = 0 /\ call.errors = 0

(* While a call counts on the remote node, that node is up, and what was found
   there is its present actor. *)
SteadyInv ==
    call.at \notin {"idle", "ok", "err"} /\ call.steady =>
       /\ remoteUp
       /\ call.at = "fresh" => call.to \in Registrants \cup {remote}

CallInv == CallTypes /\ AttemptsInv /\ SteadyInv /\ CallHeals

LEMMA CallStart == CallInit => CallInv
  <1> SUFFICES ASSUME CallInit PROVE CallInv
    OBVIOUS
  <1>1. NoCall \in Calling
    BY DEF NoCall, Calling
  <1>2. CallTypes
    BY <1>1, CallAssumption DEF CallInit, CallTypes, Remote
  <1>3. call.at = "idle" /\ call.executed = 0 /\ call.errors = 0
    BY DEF CallInit, NoCall
  <1> QED BY <1>2, <1>3 DEF CallInv, AttemptsInv, SteadyInv, CallHeals

(* The registry and the remote node change. *)
LEMMA RegistryKeeps ==
  ASSUME CallInv, NEW r \in Registrants,
         RegisterTest(r) \/ RegisterStore(r) \/ DestroyActor(r) \/ UnregisterService
  PROVE  CallInv'
  <1>1. CallTypes'
    BY DEF CallInv, CallTypes, RegisterTest, RegisterStore, DestroyActor, UnregisterService
  <1>2. call' = call /\ remoteUp' = remoteUp /\ remote' = remote
    BY DEF RegisterTest, RegisterStore, DestroyActor, UnregisterService
  <1>3. \A a \in Registrants : actor[a] = "destroyed" => actor'[a] = "destroyed"
    BY DEF CallInv, CallTypes, RegisterTest, RegisterStore, DestroyActor, UnregisterService
  <1> QED BY <1>1, <1>2, <1>3 DEF CallInv, AttemptsInv, SteadyInv, CallHeals

LEMMA RemoteKeeps ==
  ASSUME CallInv, RemoteStops \/ RemoteStarts
  PROVE  CallInv'
  <1>1. CASE RemoteStops
    <2>1. /\ call' \in Calling /\ call'.steady = FALSE /\ call'.at = call.at
          /\ call'.executed = call.executed /\ call'.errors = call.errors
      BY <1>1 DEF RemoteStops, CallInv, CallTypes, Calling
    <2>2. CallTypes'
      BY <1>1, <2>1 DEF RemoteStops, CallInv, CallTypes
    <2> QED BY <2>1, <2>2 DEF CallInv, AttemptsInv, SteadyInv, CallHeals
  <1>2. CASE RemoteStarts
    <2>1. CallTypes'
      BY <1>2, CallAssumption DEF RemoteStarts, CallInv, CallTypes, Remote
    <2> QED BY <1>2, <2>1 DEF RemoteStarts, CallInv, AttemptsInv, SteadyInv, CallHeals
  <1> QED BY <1>1, <1>2

LEMMA CallKeeps ==
  ASSUME CallInv, Call \/ CallReturns
  PROVE  CallInv'
  <1>1. CASE Call
    <2>1. /\ call' \in Calling /\ call'.steady = remoteUp /\ call'.at \in {"query", "cached"}
          /\ call'.executed = 0 /\ call'.errors = 0
      BY <1>1 DEF Call, NoCall, CallInv, CallTypes, Calling
    <2>2. CallTypes'
      BY <1>1, <2>1 DEF Call, CallInv, CallTypes
    <2> QED BY <1>1, <2>1, <2>2 DEF Call, CallInv, AttemptsInv, SteadyInv, CallHeals
  <1>2. CASE CallReturns
    <2>1. call' \in Calling /\ call'.at = "idle" /\ call'.executed = 0 /\ call'.errors = 0
      BY <1>2 DEF CallReturns, NoCall, Calling
    <2>2. CallTypes'
      BY <1>2, <2>1 DEF CallReturns, CallInv, CallTypes
    <2> QED BY <2>1, <2>2 DEF CallInv, AttemptsInv, SteadyInv, CallHeals
  <1> QED BY <1>1, <1>2

(* What an attempt that fails does to the call. *)
LEMMA ToldErrEffect ==
  ASSUME CallInv, NEW at \in {"query", "err"}, ToldErr(at)
  PROVE  /\ call' \in Calling /\ call'.to = call.to /\ call'.steady = call.steady
         /\ call'.at = at /\ call'.errors = call.errors + 1
         /\ call'.executed \in {call.executed, call.executed + 1}
         /\ Reaches(call.to) => call'.trouble = TRUE
  <1>0. call \in Calling
    BY DEF CallInv, CallTypes
  <1>1. PICK b \in BOOLEAN, n \in {call.executed, call.executed + 1} :
           /\ call' = [call EXCEPT !.at = at, !.executed = n, !.errors = @ + 1,
                                   !.trouble = b]
           /\ Reaches(call.to) => b = TRUE
    <2>1. CASE /\ Reaches(call.to)
               /\ call' = [call EXCEPT !.at = at, !.executed = @ + 1, !.errors = @ + 1,
                               !.trouble = TRUE]
      BY <2>1
    <2>2. CASE call' = [call EXCEPT !.at = at, !.errors = @ + 1,
                            !.trouble = @ \/ Reaches(call.to)]
      <3> DEFINE b == call.trouble \/ Reaches(call.to)
      <3>1. b \in BOOLEAN /\ (Reaches(call.to) => b = TRUE)
        BY Zenon
      <3>2. call' = [call EXCEPT !.at = at, !.executed = call.executed,
                                 !.errors = @ + 1, !.trouble = b]
        BY <1>0, <2>2 DEF Calling
      <3> HIDE DEF b
      <3> QED BY <3>1, <3>2
    <2> QED BY <2>1, <2>2 DEF ToldErr
  <1>2. PICK e \in Nat : e = call.errors + 1
    BY <1>0 DEF Calling
  <1>3. n \in Nat
    BY <1>0, <1>1 DEF Calling
  <1>4. call' = [call EXCEPT !.at = at, !.executed = n, !.errors = e, !.trouble = b]
    BY <1>1, <1>2
  <1>5. call' \in Calling
    BY <1>0, <1>2, <1>3, <1>4 DEF Calling
  <1> QED BY <1>0, <1>1, <1>2, <1>4, <1>5 DEF Calling

(* ... and one that is answered. *)
LEMMA ToldOkEffect ==
  ASSUME CallInv, ToldOk
  PROVE  /\ call' \in Calling /\ call'.to = call.to /\ call'.steady = call.steady
         /\ call'.at = "ok" /\ call'.executed = call.executed + 1
         /\ call'.errors = call.errors
  <1>1. call \in Calling
    BY DEF CallInv, CallTypes
  <1>2. PICK n \in Nat : n = call.executed + 1
    BY <1>1 DEF Calling
  <1>3. call' = [call EXCEPT !.at = "ok", !.executed = n]
    BY <1>2 DEF ToldOk
  <1>4. call' \in Calling
    BY <1>1, <1>3 DEF Calling
  <1> QED BY <1>1, <1>2, <1>3, <1>4 DEF Calling

LEMMA CachedKeeps ==
  ASSUME CallInv, CachedCall
  PROVE  CallInv'
  <1>1. /\ call.at = "cached" /\ UNCHANGED <<service, actor, remote, remoteUp>>
        /\ services' \in {services, NoActor} /\ (ToldOk \/ ToldErr("query"))
    BY DEF CachedCall
  <1>0. call.executed = 0 /\ call.errors = 0
    BY <1>1 DEF CallInv, AttemptsInv
  <1>2. /\ call' \in Calling /\ call'.steady = call.steady /\ call'.to = call.to
        /\ \/ call'.at = "ok" /\ call'.executed = 1 /\ call'.errors = 0
           \/ call'.at = "query" /\ call'.executed \in {0, 1} /\ call'.errors = 1
    <2>1. CASE ToldOk
      BY <1>0, <2>1, ToldOkEffect
    <2>2. CASE ToldErr("query")
      <3>1. "query" \in {"query", "err"}
        OBVIOUS
      <3>2. /\ call' \in Calling /\ call'.to = call.to /\ call'.steady = call.steady
            /\ call'.at = "query" /\ call'.errors = call.errors + 1
            /\ call'.executed \in {call.executed, call.executed + 1}
        BY <2>2, <3>1, ToldErrEffect
      <3> QED BY <1>0, <3>2
    <2> QED BY <1>1, <2>1, <2>2
  <1>3. CallTypes'
    BY <1>1, <1>2 DEF CallInv, CallTypes
  <1> QED BY <1>1, <1>2, <1>3 DEF CallInv, AttemptsInv, SteadyInv, CallHeals

LEMMA QueryKeeps ==
  ASSUME CallInv, GetActorService
  PROVE  CallInv'
  <1>1. /\ call.at = "query" /\ UNCHANGED <<service, actor, remote, remoteUp>>
    BY DEF GetActorService
  <1>2. call \in Calling /\ call.executed <= call.errors /\ call.errors <= 1
    BY <1>1 DEF CallInv, CallTypes, AttemptsInv
  <1>3. CASE \E a \in Registrants \cup {remote} :
               services' = a /\ call' = [call EXCEPT !.at = "fresh", !.to = a]
    <2>1. PICK a \in Registrants \cup {remote} :
               services' = a /\ call' = [call EXCEPT !.at = "fresh", !.to = a]
      BY <1>3
    <2>2. /\ call' \in Calling /\ call'.at = "fresh" /\ call'.to = a
          /\ call'.executed = call.executed /\ call'.errors = call.errors
          /\ call'.steady = call.steady
      BY <1>2, <2>1 DEF CallInv, CallTypes, Calling
    <2>3. CallTypes'
      BY <1>1, <2>1, <2>2 DEF CallInv, CallTypes
    <2> QED BY <1>1, <1>2, <2>2, <2>3 DEF CallInv, AttemptsInv, SteadyInv, CallHeals
  <1>4. CASE /\ call' = [call EXCEPT !.at = "err", !.errors = @ + 1,
                                     !.trouble = @ \/ remoteUp]
             /\ UNCHANGED services
    <2>1. /\ call' \in Calling /\ call'.at = "err" /\ call'.errors = call.errors + 1
          /\ call'.executed = call.executed /\ call'.steady = call.steady
          /\ remoteUp => call'.trouble = TRUE
      <3>1. PICK b \in BOOLEAN : b = (call.trouble \/ remoteUp)
        BY Zenon
      <3>2. call' = [call EXCEPT !.at = "err", !.errors = @ + 1, !.trouble = b]
        BY <1>4, <3>1
      <3>3. remoteUp => b = TRUE
        BY <3>1, Zenon
      <3>4. PICK e \in Nat : e = call.errors + 1
        BY <1>2 DEF Calling
      <3>5. call' \in Calling
        BY <1>2, <3>2, <3>4 DEF Calling
      <3> QED BY <1>2, <3>2, <3>3, <3>5 DEF Calling
    <2>2. CallTypes'
      BY <1>1, <1>4, <2>1 DEF CallInv, CallTypes
    <2>3. call'.executed \in Nat /\ call.errors \in Nat
      BY <1>2, <2>1 DEF Calling
    <2> QED BY <1>1, <1>2, <2>1, <2>2, <2>3 DEF CallInv, AttemptsInv, SteadyInv, CallHeals
  <1> QED BY <1>3, <1>4 DEF GetActorService, ServiceInquiry, CallInv, CallTypes

LEMMA FreshKeeps ==
  ASSUME CallInv, FreshCall
  PROVE  CallInv'
  <1>1. /\ call.at = "fresh" /\ UNCHANGED <<service, actor, remote, remoteUp>>
        /\ services' \in {services, NoActor} /\ (ToldOk \/ ToldErr("err"))
    BY DEF FreshCall
  <1>2. call.executed \in Nat /\ call.errors \in Nat /\ call \in Calling
        /\ call.executed <= call.errors /\ call.errors <= 1
    BY <1>1 DEF CallInv, CallTypes, AttemptsInv, Calling
  <1>3. /\ call' \in Calling /\ call'.steady = call.steady /\ call'.to = call.to
        /\ \/ /\ call'.at = "ok" /\ call'.executed = call.executed + 1
              /\ call'.errors = call.errors
           \/ /\ call'.at = "err" /\ call'.errors = call.errors + 1
              /\ call'.executed \in {call.executed, call.executed + 1}
              /\ Reaches(call.to) => call'.trouble
    BY <1>1, ToldErrEffect, ToldOkEffect
  <1>4. CallTypes' /\ AttemptsInv' /\ SteadyInv'
    BY <1>1, <1>2, <1>3 DEF CallInv, CallTypes, AttemptsInv, SteadyInv
  <1>5. ASSUME call'.at = "err", call'.steady, ~call'.trouble
        PROVE  call.to \in Registrants /\ actor[call.to] = "destroyed"
    <2>1. remoteUp /\ call.to \in Registrants \cup {remote} /\ ~Reaches(call.to)
      BY <1>1, <1>3, <1>5 DEF CallInv, SteadyInv
    <2> QED BY <2>1 DEF Reaches, LocalTell, RemoteTell, CallInv, CallTypes
  <1> QED BY <1>1, <1>3, <1>4, <1>5 DEF CallInv, CallHeals

LEMMA CallInductive == CallSpec => []CallInv
  <1>1. CallInv /\ [CallNext]_callVars => CallInv'
    <2> SUFFICES ASSUME CallInv, [CallNext]_callVars PROVE CallInv'
      OBVIOUS
    <2>1. CASE UNCHANGED callVars
      BY <2>1 DEF callVars, CallInv, CallTypes, AttemptsInv, SteadyInv, CallHeals
    <2>2. CASE UnregisterService
      <3>1. CallTypes' /\ call' = call /\ remoteUp' = remoteUp /\ remote' = remote /\ actor' = actor
        BY <2>2 DEF UnregisterService, CallInv, CallTypes
      <3> QED BY <3>1 DEF CallInv, AttemptsInv, SteadyInv, CallHeals
    <2> QED BY <2>1, <2>2, RegistryKeeps, RemoteKeeps, CallKeeps, CachedKeeps, QueryKeeps,
               FreshKeeps DEF CallNext
  <1> QED BY <1>1, CallStart, PTL DEF CallSpec

(* A call survives that the node whose actor it had cached restarts: with the
   remote node there all along and nobody failing to answer it fails only at a
   local actor that was destroyed, for any number of registrants and restarts
   (ActorServiceCaller.go:31-70). *)
THEOREM CallsHeal == CallSpec => []CallHeals
  <1>1. CallInv => CallHeals
    BY DEF CallInv
  <1> QED BY <1>1, CallInductive, PTL

(* For any number of nodes and actors that come, go and are destroyed: a second
   execution follows an error answer to the first, there is no third, and an
   answered call was executed (ActorServiceCaller.go:31-70). *)
THEOREM CallsExecutedOnce == CallSpec => []ExecutedOnce
  <1>1. CallInv => ExecutedOnce
    BY DEF CallInv, CallTypes, Calling, AttemptsInv, ExecutedOnce
  <1> QED BY <1>1, CallInductive, PTL
-----------------------------------------------------------------------------
(* The selectors that go by a balancer. *)
Balancers == {"Polling", "P2C", "ConstHashingBoundLoad"}

LEMMA GroupLen ==
  ASSUME NEW S, IsFiniteSet(S), S # {}, NEW group \in SetToSeqs(S)
  PROVE  Len(group) = Cardinality(S) /\ Cardinality(S) \in Nat \ {0} /\ group \in Seq(S)
  <1>1. Cardinality(S) \in Nat \ {0}
    BY FS_CardinalityType, FS_EmptySet
  <1>2. group \in [1 .. Cardinality(S) -> S]
    BY DEF SetToSeqs
  <1> QED BY <1>1, <1>2

LEMMA MinLoadFinds ==
  ASSUME NEW S, NEW group \in Seq(S), Len(group) > 0
  PROVE  SelectMinLoad(group, [i \in 1 .. Len(group) |-> 1]) \in 0 .. Len(group) - 1
  <1> DEFINE load == [i \in 1 .. Len(group) |-> 1]
             best == {-1} \cup {i \in 0 .. Len(group) - 1 :
                load[i + 1] <= 1 /\ \A j \in 1 .. Len(group) : load[i + 1] <= load[j]}
  <1>1. best = -1 .. Len(group) - 1
    OBVIOUS
  <1>2. /\ Len(group) - 1 \in best /\ \A y \in best : Len(group) - 1 >= y
    BY <1>1
  <1>3. Max(best) \in best /\ \A y \in best : Max(best) >= y
    BY <1>2 DEF Max
  <1>4. SelectMinLoad(group, load) = Max(best)
    BY DEF SelectMinLoad
  <1>5. Max(best) \in 0 .. Len(group) - 1
    <2> HIDE DEF best
    <2> QED BY <1>1, <1>2, <1>3
  <1> QED BY <1>4, <1>5

LEMMA QueryFinds ==
  ASSUME NEW S, IsFiniteSet(S), S # {}, NEW by \in Selectors \cup {"Group"},
         NEW a \in DoQuery(by, S), a.end = "err"
  PROVE  by \in {"Polling", "P2C", "ConstHashingBoundLoad"}
  <1> SUFFICES ASSUME by \notin {"Polling", "P2C", "ConstHashingBoundLoad"}
               PROVE  FALSE
    OBVIOUS
  <1>1. a # Panics /\ \A r : r # {} => a # Gives(r)
    BY DEF Panics, Gives
  <1>2. by # "Custom" /\ by # "Group"
    BY <1>1 DEF DoQuery
  <1>0. PICK group \in SetToSeqs(S) : \E i \in SelectIndex(by, group) :
          a = IF i = -1 THEN Fails
                 ELSE IF i >= Len(group) THEN Panics ELSE Gives({group[i + 1]})
    BY <1>2 DEF DoQuery
  <1>3. PICK i \in SelectIndex(by, group) :
          a = IF i = -1 THEN Fails
                 ELSE IF i >= Len(group) THEN Panics ELSE Gives({group[i + 1]})
    BY <1>0
  <1>4. i = -1
    BY <1>1, <1>3
  <1>5. group \in Seq(S) /\ Len(group) > 0 /\ Len(group) \in Nat
    BY GroupLen
  <1>6. CASE by = "MinLoad"
    BY <1>3, <1>4, <1>5, <1>6, MinLoadFinds DEF SelectIndex
  <1>7. CASE by \in {"Default", "Random"}
    BY <1>3, <1>4, <1>5, <1>7 DEF SelectIndex, RandomIndex, GenRandom
  <1>8. CASE by = "ConstHashingBoundLoadWithWeight"
    BY <1>3, <1>4, <1>8 DEF SelectIndex
  <1>9. CASE by = "SpecialIp"
    BY <1>3, <1>4, <1>5, <1>9 DEF SelectIndex, SpecialIP
  <1> QED BY <1>2, <1>6, <1>7, <1>8, <1>9, LookupAssumption


Looking ==
    [at : {"idle", "location", "master", "ok", "err"}, by : Selectors \cup {"Group"},
     client : {"nil", "up", "dead"}, reply : SUBSET Hosts, steady : BOOLEAN]

(* Types, as far as the lookups need them. *)
LookupTypes ==
    /\ known \subseteq Hosts /\ located \subseteq Hosts
    /\ isOnline \in BOOLEAN /\ master \in {"up", "down"}
    /\ locationClients \in {"nil", "up", "dead"}
    /\ lookup \in [Lookups -> Looking]

(* A lookup that counts on the master still can while it is under way, and if
   it failed it went by a balancer. *)
CountsOnMaster(c) ==
    lookup[c].steady =>
       /\ lookup[c].at \in {"location", "master"} => MasterReached /\ known # {}
       /\ lookup[c].at = "err" => lookup[c].by \in Balancers

LookupInv == LookupTypes /\ \A c \in Lookups : CountsOnMaster(c)

(* The index that a selector yields. *)
LEMMA IndexRange ==
  ASSUME NEW S, NEW group \in Seq(S), NEW by \in Selectors,
         by # "Custom", by # "Group"
  PROVE  SelectIndex(by, group) \subseteq -1 .. Len(group) \cup {0}
  <1>1. CASE by = "MinLoad"
    <2>1. CASE Len(group) > 0
      BY <1>1, <2>1, MinLoadFinds DEF SelectIndex
    <2>2. CASE Len(group) = 0
      <3> DEFINE best == {-1} \cup {i \in 0 .. Len(group) - 1 :
                [k \in 1 .. Len(group) |-> 1][i + 1] <= 1
                /\ \A j \in 1 .. Len(group) :
                     [k \in 1 .. Len(group) |-> 1][i + 1] <= [k \in 1 .. Len(group) |-> 1][j]}
      <3>1. best = {-1}
        BY <2>2
      <3>2. Max({-1}) = -1
        BY DEF Max
      <3>3. SelectMinLoad(group, [k \in 1 .. Len(group) |-> 1]) = Max(best)
        BY DEF SelectMinLoad
      <3> QED BY <1>1, <2>2, <3>1, <3>2, <3>3 DEF SelectIndex
    <2> QED BY <2>1, <2>2
  <1>2. CASE by \in {"Default", "Random"}
    BY <1>2 DEF SelectIndex, RandomIndex, GenRandom
  <1>3. CASE by \in Balancers
    BY <1>3 DEF SelectIndex, BalancerIndex, Balancers
  <1>4. CASE by = "ConstHashingBoundLoadWithWeight"
    BY <1>4 DEF SelectIndex
  <1>5. CASE by = "SpecialIp"
    BY <1>5 DEF SelectIndex, SpecialIP
  <1> QED BY <1>1, <1>2, <1>3, <1>4, <1>5, LookupAssumption DEF Balancers

(* An answer names nodes of the group. *)
LEMMA QueryAnswers ==
  ASSUME NEW S, IsFiniteSet(S), NEW by \in Selectors \cup {"Group"},
         NEW a \in DoQuery(by, S)
  PROVE  a.end \in {"ok", "err", "panic"} /\ a.reply \subseteq S
  <1>1. CASE by \in {"Custom", "Group"}
    BY <1>1 DEF DoQuery, Panics, Gives
  <1>2. CASE by \notin {"Custom", "Group"}
    <2>0. PICK group \in SetToSeqs(S) : \E i \in SelectIndex(by, group) :
            a = IF i = -1 THEN Fails
                   ELSE IF i >= Len(group) THEN Panics ELSE Gives({group[i + 1]})
      BY <1>2 DEF DoQuery
    <2>1. PICK i \in SelectIndex(by, group) :
            a = IF i = -1 THEN Fails
                   ELSE IF i >= Len(group) THEN Panics ELSE Gives({group[i + 1]})
      BY <2>0
    <2>2. group \in Seq(S)
      <3>1. Cardinality(S) \in Nat
        BY FS_CardinalityType
      <3>2. group \in [1 .. Cardinality(S) -> S]
        BY DEF SetToSeqs
      <3> QED BY <3>1, <3>2
    <2>3. i \in -1 .. Len(group) \cup {0}
      BY <1>2, <2>1, <2>2, IndexRange
    <2>4. i # -1 /\ ~(i >= Len(group)) => group[i + 1] \in S
      BY <2>2, <2>3
    <2> QED BY <2>1, <2>4 DEF Fails, Panics, Gives
  <1> QED BY <1>1, <1>2

LEMMA LookupStart == LookupInit => LookupInv
  <1> SUFFICES ASSUME LookupInit PROVE LookupInv
    OBVIOUS
  <1>1. NoLookup \in Looking
    BY DEF NoLookup, Looking
  <1>2. LookupTypes
    <2>1. isOnline \in BOOLEAN
      BY Zenon DEF LookupInit
    <2> QED BY <1>1, <2>1 DEF LookupInit, LookupTypes
  <1>3. \A c \in Lookups : lookup[c].at = "idle"
    BY DEF LookupInit, NoLookup
  <1> QED BY <1>2, <1>3 DEF LookupInv, CountsOnMaster

(* The end of the location server closes the clients of the lookups. *)
LEMMA CutType ==
  ASSUME NEW l \in Looking
  PROVE  LET m == [l EXCEPT !.client = Cut(@)]
         IN  m \in Looking /\ m.at = l.at /\ m.by = l.by /\ m.steady = l.steady
  <1>1. PICK x \in {"nil", "up", "dead"} : x = Cut(l.client)
    BY DEF Cut, Looking
  <1>2. [l EXCEPT !.client = Cut(@)] = [l EXCEPT !.client = x]
    BY <1>1
  <1> QED BY <1>2 DEF Looking

(* The location server and the getters do not touch what a lookup counts on. *)
LEMMA ServersKeep ==
  ASSUME LookupInv, LocationCrash \/ LocationStart \/ LocationSync \/ Periodic
                      \/ \E g \in Getters : GetterStep(g)
  PROVE  LookupInv'
  <1>1. CASE LocationCrash
    <2>1. /\ lookup' = [c \in Lookups |-> [lookup[c] EXCEPT !.client = Cut(@)]]
          /\ located' = {} /\ locationClients' = Cut(locationClients)
          /\ UNCHANGED <<isOnline, known, master>>
      BY <1>1 DEF LocationCrash, LocationDown
    <2>2. /\ lookup' \in [Lookups -> Looking]
          /\ \A c \in Lookups : /\ lookup'[c].at = lookup[c].at
                                /\ lookup'[c].by = lookup[c].by
                                /\ lookup'[c].steady = lookup[c].steady
      BY <2>1, CutType DEF LookupInv, LookupTypes
    <2>3. locationClients' \in {"nil", "up", "dead"}
      BY <2>1 DEF Cut, LookupInv, LookupTypes
    <2>4. LookupTypes'
      BY <2>1, <2>2, <2>3 DEF LookupInv, LookupTypes
    <2> QED BY <2>1, <2>2, <2>4 DEF LookupInv, CountsOnMaster, MasterReached
  <1>2. CASE ~LocationCrash
    <2>1. /\ UNCHANGED <<isOnline, known, master, lookup>>
          /\ located' \in {located, located \cup known}
          /\ locationClients' \in {"nil", "up", "dead"}
      BY <1>2 DEF LocationStart, LocationSync, Periodic, GetterStep, AssignClients,
                  LookupInv, LookupTypes
    <2> QED BY <2>1 DEF LookupInv, LookupTypes, CountsOnMaster, MasterReached
  <1> QED BY <1>1, <1>2

(* Lookups that can no longer count on the master are marked. *)
LEMMA UnsteadyType ==
  ASSUME LookupTypes
  PROVE  /\ Unsteady \in [Lookups -> Looking]
         /\ \A c \in Lookups : Unsteady[c].steady = FALSE
  <1>1. ASSUME NEW c \in Lookups
        PROVE  [lookup[c] EXCEPT !.steady = FALSE] \in Looking
               /\ [lookup[c] EXCEPT !.steady = FALSE].steady = FALSE
    <2>1. lookup[c] \in Looking
      BY DEF LookupTypes
    <2> QED BY <2>1 DEF Looking
  <1> QED BY <1>1 DEF Unsteady

LEMMA MasterKeeps ==
  ASSUME LookupInv, MasterChanges
  PROVE  LookupInv'
  <1>1. /\ known' \subseteq Hosts /\ isOnline' \in BOOLEAN /\ master' \in {"up", "down"}
        /\ UNCHANGED <<located, locationClients>>
        /\ master' = "up" \/ known' = {} \/ master' = master
    <2>1. UNCHANGED <<located, locationClients>>
      BY DEF MasterChanges
    <2>2. isOnline' \in BOOLEAN
      <3>1. isOnline' = isOnline \/ isOnline' = ~isOnline
        BY DEF MasterChanges
      <3>2. isOnline \in BOOLEAN
        BY DEF LookupInv, LookupTypes
      <3> QED BY <3>1, <3>2, Zenon
    <2>3. known' \subseteq Hosts /\ master' \in {"up", "down"}
      BY DEF MasterChanges, LookupInv, LookupTypes
    <2>4. master' = "up" \/ known' = {} \/ master' = master
      BY DEF MasterChanges
    <2> QED BY <2>1, <2>2, <2>3, <2>4
  <1>2. CASE known \subseteq known' /\ isOnline'
    <2>1. lookup' = lookup
      BY <1>2 DEF MasterChanges
    <2>2. MasterReached /\ known # {} => MasterReached' /\ known' # {}
      BY <1>1, <1>2 DEF MasterReached
    <2> QED BY <1>1, <2>1, <2>2 DEF LookupInv, LookupTypes, CountsOnMaster
  <1>3. CASE ~(known \subseteq known' /\ isOnline')
    <2>1. lookup' = Unsteady
      BY <1>3 DEF MasterChanges
    <2> QED BY <1>1, <2>1, UnsteadyType DEF LookupInv, LookupTypes, CountsOnMaster
  <1> QED BY <1>2, <1>3

(* The entry of a lookup that returns, or goes on to the master. *)
LEMMA ReturnedType ==
  ASSUME LookupTypes, NEW c \in Lookups, NEW end \in {"master", "ok", "err"},
         NEW r \in SUBSET Hosts
  PROVE  /\ Returned(c, end, r) \in [Lookups -> Looking]
         /\ \A d \in Lookups \ {c} : Returned(c, end, r)[d] = lookup[d]
         /\ Returned(c, end, r)[c].at = end
         /\ Returned(c, end, r)[c].by = lookup[c].by
         /\ Returned(c, end, r)[c].steady = lookup[c].steady
  <1> DEFINE e == [lookup[c] EXCEPT !.at = end, !.reply = r, !.client = "nil"]
  <1>1. lookup[c] \in Looking
    BY DEF LookupTypes
  <1>2. e \in Looking /\ e.at = end /\ e.by = lookup[c].by /\ e.steady = lookup[c].steady
    BY <1>1 DEF Looking
  <1>3. Returned(c, end, r) = [lookup EXCEPT ![c] = e]
    BY DEF Returned, LookupTypes, Looking
  <1> HIDE DEF e
  <1> QED BY <1>2, <1>3 DEF LookupTypes

LEMMA GetNodeKeeps ==
  ASSUME LookupInv, NEW c \in Lookups, NEW by \in Selectors, GetNode(c, by)
  PROVE  LookupInv'
  <1> DEFINE e == [at |-> IF locationClients = "nil" THEN "master" ELSE "location",
          by |-> by, client |-> locationClients, reply |-> {},
          steady |-> MasterReached /\ known # {}]
  <1>1. (MasterReached /\ known # {}) \in BOOLEAN
    BY Zenon
  <1>2. e \in Looking
    BY <1>1 DEF LookupInv, LookupTypes, Looking
  <1>3. e.steady => MasterReached /\ known # {}
    BY Zenon
  <1>4. e.at # "err"
    OBVIOUS
  <1>5. lookup' = [lookup EXCEPT ![c] = e] /\ UNCHANGED <<isOnline, known, located, master, locationClients>>
    BY DEF GetNode
  <1> HIDE DEF e
  <1>6. /\ lookup' \in [Lookups -> Looking] /\ lookup'[c] = e
        /\ \A d \in Lookups \ {c} : lookup'[d] = lookup[d]
    BY <1>2, <1>5 DEF LookupInv, LookupTypes
  <1> QED BY <1>3, <1>4, <1>5, <1>6 DEF LookupInv, LookupTypes, CountsOnMaster, MasterReached

LEMMA AgainKeeps ==
  ASSUME LookupInv, NEW c \in Lookups, Again(c)
  PROVE  LookupInv'
  <1>1. NoLookup \in Looking /\ NoLookup.at = "idle"
    BY DEF NoLookup, Looking
  <1>2. /\ lookup' = [lookup EXCEPT ![c] = NoLookup]
        /\ UNCHANGED <<isOnline, known, located, master, locationClients>>
    BY DEF Again
  <1>3. /\ lookup' \in [Lookups -> Looking] /\ lookup'[c] = NoLookup
        /\ \A d \in Lookups \ {c} : lookup'[d] = lookup[d]
    BY <1>1, <1>2 DEF LookupInv, LookupTypes
  <1> QED BY <1>1, <1>2, <1>3 DEF LookupInv, LookupTypes, CountsOnMaster, MasterReached

(* The location server failed: the lookup goes on to the master. *)
LEMMA BrokenKeeps ==
  ASSUME LookupInv, NEW c \in Lookups, NEW panics \in BOOLEAN, Broken(c, panics),
         lookup[c].at = "location", UNCHANGED <<isOnline, known, master>>
  PROVE  LookupInv'
  <1> DEFINE looks == Returned(c, "master", {})
  <1>1. /\ looks \in [Lookups -> Looking]
        /\ \A d \in Lookups \ {c} : looks[d] = lookup[d]
        /\ looks[c].at = "master" /\ looks[c].by = lookup[c].by
        /\ looks[c].steady = lookup[c].steady
    BY ReturnedType DEF LookupInv
  <1> HIDE DEF looks
  <1>2. CASE panics
    <2>1. /\ lookup' = [d \in Lookups |-> [looks[d] EXCEPT !.client = Cut(@)]]
          /\ located' = {} /\ locationClients' = "nil"
      BY <1>2 DEF Broken, BrokenThen, LocationDown, Cut, looks
    <2>2. /\ lookup' \in [Lookups -> Looking]
          /\ \A d \in Lookups : /\ lookup'[d].at = looks[d].at
                                /\ lookup'[d].by = looks[d].by
                                /\ lookup'[d].steady = looks[d].steady
      BY <1>1, <2>1, CutType
    <2>3. LookupTypes'
      BY <2>1, <2>2 DEF LookupInv, LookupTypes
    <2> QED BY <1>1, <2>1, <2>2, <2>3 DEF LookupInv, CountsOnMaster, MasterReached
  <1>3. CASE ~panics
    <2>1. lookup' = looks /\ locationClients' = "nil" /\ located' = located
      BY <1>3 DEF Broken, BrokenThen, looks
    <2> QED BY <1>1, <2>1 DEF LookupInv, LookupTypes, CountsOnMaster, MasterReached
  <1> QED BY <1>2, <1>3

LEMMA LocationKeeps ==
  ASSUME LookupInv, NEW c \in Lookups, AskLocation(c)
  PROVE  LookupInv'
  <1>1. lookup[c].at = "location" /\ UNCHANGED <<isOnline, known, master>>
    BY DEF AskLocation
  <1>2. CASE \E panics \in BOOLEAN : Broken(c, panics)
    BY <1>1, <1>2, BrokenKeeps
  <1>3. CASE \E a \in LocationAnswers(lookup[c].by) :
               /\ a.end = "ok" /\ lookup' = Returned(c, "ok", a.reply)
               /\ UNCHANGED <<location, located, locationClients, getter>>
    <2>1. PICK a \in LocationAnswers(lookup[c].by) :
               /\ a.end = "ok" /\ lookup' = Returned(c, "ok", a.reply)
               /\ UNCHANGED <<location, located, locationClients, getter>>
      BY <1>3
    <2>2. lookup[c].by \in Selectors \cup {"Group"} /\ IsFiniteSet(located)
      BY LookupAssumption, FS_Subset DEF LookupInv, LookupTypes, Looking
    <2>3. a.reply \subseteq Hosts
      BY <2>1, <2>2, QueryAnswers DEF LocationAnswers, Fails, LookupInv, LookupTypes
    <2>4. /\ lookup' \in [Lookups -> Looking]
          /\ \A d \in Lookups \ {c} : lookup'[d] = lookup[d]
          /\ lookup'[c].at = "ok"
      BY <2>1, <2>3, ReturnedType DEF LookupInv
    <2> QED BY <1>1, <2>1, <2>4
            DEF LookupInv, LookupTypes, CountsOnMaster, MasterReached
  <1>4. CASE \E a \in LocationAnswers(lookup[c].by) :
               a.end # "ok" /\ Broken(c, a.end = "panic")
    <2>1. \A a : (a.end = "panic") \in BOOLEAN
      BY Zenon
    <2> QED BY <1>2, <1>4, <2>1
  <1>5. Broken(c, FALSE) => \E panics \in BOOLEAN : Broken(c, panics)
    OBVIOUS
  <1> QED BY <1>2, <1>3, <1>4, <1>5 DEF AskLocation

LEMMA AskMasterKeeps ==
  ASSUME LookupInv, NEW c \in Lookups, AskMaster(c)
  PROVE  LookupInv'
  <1>1. lookup[c].at = "master" /\ UNCHANGED <<isOnline, located, locationClients>>
    BY DEF AskMaster
  <1>2. lookup[c].by \in Selectors \cup {"Group"} /\ IsFiniteSet(known)
    BY LookupAssumption, FS_Subset DEF LookupInv, LookupTypes, Looking
  <1>3. CASE ~MasterReached
    <2>1. lookup' = Returned(c, "err", {}) /\ UNCHANGED <<master, known>>
      BY <1>3 DEF AskMaster
    <2> QED BY <1>1, <1>3, <2>1, ReturnedType
            DEF LookupInv, LookupTypes, CountsOnMaster, MasterReached
  <1>4. CASE \E a \in MasterAnswers(lookup[c].by) :
               /\ a.end # "panic" /\ lookup' = Returned(c, a.end, a.reply)
               /\ UNCHANGED <<master, known>>
    <2>1. PICK a \in MasterAnswers(lookup[c].by) :
               /\ a.end # "panic" /\ lookup' = Returned(c, a.end, a.reply)
               /\ UNCHANGED <<master, known>>
      BY <1>4
    <2>2. a.end \in {"ok", "err"} /\ a.reply \subseteq Hosts
      BY <1>2, <2>1, QueryAnswers DEF MasterAnswers, LookupInv, LookupTypes
    <2>3. a.end = "err" /\ known # {} => lookup[c].by \in Balancers
      BY <1>2, <2>1, QueryFinds DEF MasterAnswers, Balancers
    <2>4. lookup[c].steady => MasterReached /\ known # {}
      BY <1>1 DEF LookupInv, CountsOnMaster
    <2>5. /\ lookup' \in [Lookups -> Looking]
          /\ \A d \in Lookups \ {c} : lookup'[d] = lookup[d]
          /\ lookup'[c].at = a.end /\ lookup'[c].by = lookup[c].by
          /\ lookup'[c].steady = lookup[c].steady
      BY <2>1, <2>2, ReturnedType DEF LookupInv
    <2> QED BY <1>1, <2>1, <2>2, <2>3, <2>4, <2>5
            DEF LookupInv, LookupTypes, CountsOnMaster, MasterReached
  <1>5. CASE /\ master' = "down" /\ known' = {}
             /\ lookup' = [Unsteady EXCEPT ![c].at = "err"]
    <2>1. Unsteady[c] \in Looking /\ Unsteady[c].steady = FALSE
      BY UnsteadyType DEF LookupInv
    <2>2. /\ [Unsteady[c] EXCEPT !.at = "err"] \in Looking
          /\ [Unsteady[c] EXCEPT !.at = "err"].steady = FALSE
      BY <2>1 DEF Looking
    <2>3. lookup' = [Unsteady EXCEPT ![c] = [Unsteady[c] EXCEPT !.at = "err"]]
      BY <1>5
    <2>4. lookup' \in [Lookups -> Looking] /\ \A d \in Lookups : lookup'[d].steady = FALSE
      BY <2>2, <2>3, UnsteadyType DEF LookupInv
    <2> QED BY <1>1, <1>5, <2>4 DEF LookupInv, LookupTypes, CountsOnMaster
  <1> QED BY <1>3, <1>4, <1>5 DEF AskMaster

LEMMA LookupInductive == LookupSpec => []LookupInv
  <1>1. LookupInv /\ [LookupNext]_lookupVars => LookupInv'
    <2> SUFFICES ASSUME LookupInv, [LookupNext]_lookupVars PROVE LookupInv'
      OBVIOUS
    <2>1. CASE UNCHANGED lookupVars
      BY <2>1 DEF lookupVars, LookupInv, LookupTypes, CountsOnMaster, MasterReached
    <2> QED BY <2>1, ServersKeep, MasterKeeps, GetNodeKeeps, LocationKeeps, AskMasterKeeps,
               AgainKeeps DEF LookupNext, LookupStep
  <1> QED BY <1>1, LookupStart, PTL DEF LookupSpec

(* For any number of hosts and lookups: while the master can be reached and has a
   node, a lookup that does not go by a balancer finds one, wherever the location
   server crashes, starts or lags (NodeComponent.go:214-288). *)
THEOREM LookupsFind == LookupSpec => []LookupFinds
  <1>1. LookupInv => LookupFinds
    BY DEF LookupInv, CountsOnMaster, LookupFinds, Balancers
  <1> QED BY <1>1, LookupInductive, PTL
-----------------------------------------------------------------------------
(* Every behaviour of the composition is one of each part: what is proved of the
   parts holds in it. *)
THEOREM ClusterImplementsParts ==
    ClusterSpec => Spec /\ LookupSpec /\ ClientSpec /\ CallSpec
  <1>1. ClusterInit => Init /\ LookupInit /\ ClientInit /\ CallInit
    BY DEF ClusterInit, LocInit
  <1>2. [ClusterNext]_clusterVars =>
          [Next]_vars /\ [LookupNext]_lookupVars /\ [ClientNext]_clientVars
            /\ [CallNext]_callVars
    <2> SUFFICES ASSUME [ClusterNext]_clusterVars
                 PROVE  [Next]_vars /\ [LookupNext]_lookupVars
                          /\ [ClientNext]_clientVars /\ [CallNext]_callVars
      OBVIOUS
    <2>1. UNCHANGED allVars => UNCHANGED vars
      BY DEF allVars
    <2>2. CASE Only("location", LocNext)
      <3>1. LocNext => [Next]_vars
        BY DEF LocNext, SyncCopy, SyncFails, SyncApply
      <3> QED BY <2>2, <3>1 DEF Only
    <2>3. CASE Only("lookup", LookupNext)
      BY <2>1, <2>3 DEF Only
    <2>4. CASE Only("client", ClientNext)
      BY <2>1, <2>4 DEF Only
    <2>5. CASE Only("actor", CallNext)
      BY <2>1, <2>5 DEF Only
    <2>6. CASE UNCHANGED clusterVars
      BY <2>1, <2>6 DEF clusterVars
    <2> QED BY <2>2, <2>3, <2>4, <2>5, <2>6 DEF ClusterNext
  <1> QED BY <1>1, <1>2, PTL DEF ClusterSpec, Spec, LookupSpec, ClientSpec, CallSpec
=============================================================================
