---------------------------- MODULE GateShutdown ----------------------------
(***************************************************************************)
(* The graceful stop of a gate: DefaultGateComponent (hBaseComponent),     *)
(* whose OnConnected and OnDropped run in the goroutine of each websocket  *)
(* session (hNet/websocketHandler.go), and LauncherComponent.Serve, which  *)
(* runs CheckClose on it and then waits on a WaitGroup for the players to  *)
(* leave.                                                                  *)
(***************************************************************************)
EXTENDS Integers, FiniteSets

CONSTANT Sessions   \* each connects and leaves at most once

ASSUME SessionsAssumption == IsFiniteSet(Sessions)

VARIABLES
    sess,            \* out, in, dropping (acceptNum decremented), gone
    acceptNum,       \* DefaultGateComponent.acceptNum
    clients,         \* DefaultGateComponent.clients
    isCloseServer,   \* DefaultGateComponent.isCloseServer; from then on its
                     \*   waitGroup is the launcher's
    wg,              \* counter of LauncherComponent.waitGroup
    serve,           \* Serve: up, checked, waiting, waited
    atClose          \* the sessions connected when CheckClose ran

vars == <<sess, acceptNum, clients, isCloseServer, wg, serve, atClose>>

Init ==
    /\ sess = [s \in Sessions |-> "out"]
    /\ acceptNum = 0 /\ clients = {}
    /\ isCloseServer = FALSE /\ wg = 0
    /\ serve = "up" /\ atClose = {}

(* Upgrade, then OnConnected, which counts the session: that is when it is
   connected for the gate, and the upgrade before it changes nothing here. *)
OnConnected(s) ==
    /\ sess[s] = "out"
    /\ sess' = [sess EXCEPT ![s] = "in"]
    /\ acceptNum' = acceptNum + 1
    /\ clients' = clients \cup {s}
    /\ UNCHANGED <<isCloseServer, wg, serve, atClose>>

(* recv returns, and OnDropped counts the session out ... *)
OnDropped(s) ==
    /\ sess[s] = "in"
    /\ sess' = [sess EXCEPT ![s] = "dropping"]
    /\ acceptNum' = acceptNum - 1
    /\ clients' = clients \ {s}
    /\ UNCHANGED <<isCloseServer, wg, serve, atClose>>

(* WaitGroup.Done: reaching 0 wakes Wait; below 0 it panics, which
   gin.Recovery catches, and the counter stays negative. *)
WgDone ==
    /\ wg' = wg - 1
    /\ serve' = (IF wg = 1 /\ serve = "waiting" THEN "waited" ELSE serve)


LastOutEarly == isCloseServer /\ acceptNum <= 1

(* The condition of the deferred function of OnDropped. *)
LastOut == isCloseServer /\ acceptNum <= 0

(* ... and its deferred function, under RLock, looks at the count again. *)
OnDroppedDeferred(s) ==
    /\ sess[s] = "dropping"
    /\ sess' = [sess EXCEPT ![s] = "gone"]
    /\ IF LastOut THEN WgDone ELSE UNCHANGED <<wg, serve>>
    /\ UNCHANGED <<acceptNum, clients, isCloseServer, atClose>>

CheckCloseAdding(n) ==
    /\ serve = "up"
    /\ serve' = "checked"
    /\ wg' = wg + n
    /\ isCloseServer' = TRUE
    /\ atClose' = {s \in Sessions : sess[s] = "in"}
    /\ UNCHANGED <<sess, acceptNum, clients>>

(* Serve calls CheckClose: one Add, however many sessions there are. *)
CheckClose == CheckCloseAdding(IF acceptNum > 0 THEN 1 ELSE 0)

(* WaitGroup.Wait returns at once only if the counter is exactly 0. *)
Wait ==
    /\ serve = "checked"
    /\ serve' = (IF wg = 0 THEN "waited" ELSE "waiting")
    /\ UNCHANGED <<sess, acceptNum, clients, isCloseServer, wg, atClose>>

Next ==
    \/ \E s \in Sessions :
          OnConnected(s) \/ OnDropped(s) \/ OnDroppedDeferred(s)
    \/ CheckClose
    \/ Wait

Spec == Init /\ [][Next]_vars
-----------------------------------------------------------------------------
(* Types; and one Add is all the WaitGroup ever gets. *)
TypeOK ==
    /\ sess \in [Sessions -> {"out", "in", "dropping", "gone"}]
    /\ acceptNum \in Int /\ wg \in Int /\ wg <= 1
    /\ clients \subseteq Sessions /\ atClose \subseteq Sessions
    /\ isCloseServer \in BOOLEAN
    /\ serve \in {"up", "checked", "waiting", "waited"}

(* Nobody who was counted in when the server was told to stop is cut off: Wait
   returns only after each of them has left, whatever sessions come and go
   meanwhile (DefaultGateComponent.go:88-94, 109-114). *)
PlayersServed == serve = "waited" => \A s \in atClose : sess[s] # "in"

(* acceptNum counts the connected sessions, and clients holds them. *)
CountExact ==
    /\ clients = {s \in Sessions : sess[s] = "in"}
    /\ acceptNum = Cardinality(clients)

Dropping == {s \in Sessions : sess[s] = "dropping"}
=============================================================================
