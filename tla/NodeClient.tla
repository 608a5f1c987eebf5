----------------------------- MODULE NodeClient -----------------------------
(***************************************************************************)
(* NodeComponent.GetNodeClient (hCluster/NodeComponent.go): one RPC client *)
(* per address, shared by all goroutines.  The first that finds none dials *)
(* while its entry of clientGetting keeps the others waiting.  One address *)
(* is modelled: nothing is shared between addresses but `locker`.  If it   *)
(* is the master's, ChildComponent.ConnectToMaster dials it as well, which *)
(* claims nothing (module Child has the rest of that component).           *)
(***************************************************************************)
EXTENDS Naturals, FiniteSets

CONSTANTS
    Askers,     \* the goroutines that call GetNodeClient
    MaxRounds,  \* rounds of all waiting goroutines before they give up (100)
    MaxDials,   \* bound on the number of connections
    NoClient    \* no entry

Clients == 1 .. MaxDials

ASSUME ClientAssumption ==
    /\ IsFiniteSet(Askers) /\ MaxRounds \in Nat /\ MaxDials \in Nat
    /\ NoClient \notin Nat

VARIABLES
    conn,           \* per client: none, up, calling (`input` runs the callback and
                    \*   holds the mutex), closed, hung (the heartbeat's Close
                    \*   holds the mutex)
    link,           \* the child component, if the address is the master's: off,
                    \*   dial, store, up; its client, and the one whose callback
                    \*   it reconnects in
    rpcClient,      \* NodeComponent.rpcClient for the address
    clientGetting,  \* the count of waiting rounds, or NoClient
    ask             \* per goroutine: where it is, its client, and the clients
                    \*   that were closed when it began

clientVars == <<conn, link, rpcClient, clientGetting, ask>>

Idling == [at |-> "idle", got |-> NoClient, gone |-> {}]

ClientInit ==
    /\ conn = [k \in Clients |-> "none"]
    /\ link \in [at : {"off", "dial"}, got : {NoClient}, old : {NoClient}]
    /\ rpcClient = NoClient /\ clientGetting = NoClient
    /\ ask = [c \in Askers |-> Idling]

(* `closing` or `shutdown` is set. *)
Closed(k) == conn[k] \in {"calling", "closed", "hung"}

(* The heartbeat's Close, after too many lost pings or when the client is shut
   down, gets the mutex and never gives it back. *)
CloseClient(k) ==
    /\ conn[k] \in {"up", "closed"}
    /\ conn' = [conn EXCEPT ![k] = "hung"]
    /\ UNCHANGED <<link, rpcClient, clientGetting, ask>>

(* The end of `input`: shutdown is set, under the mutex ... *)
InputEnds(k) ==
    /\ conn[k] = "up"
    /\ conn' = [conn EXCEPT ![k] = "calling"]
    /\ UNCHANGED <<link, rpcClient, clientGetting, ask>>

(* ... and the callback deletes the entry of the address, whichever client that
   is. *)
ClientCallback(k) ==
    /\ conn[k] = "calling" /\ k \notin {link.got, link.old}
    /\ conn' = [conn EXCEPT ![k] = "closed"]
    /\ rpcClient' = NoClient
    /\ UNCHANGED <<link, clientGetting, ask>>

(* A new connection, as the next client. *)
Connected(k) ==
    /\ conn[k] = "none" /\ \A j \in 1 .. k - 1 : conn[j] # "none"
    /\ conn' = [conn EXCEPT ![k] = "up"]
-----------------------------------------------------------------------------
(* ConnectToMaster: ConnectToNode until it succeeds, ... *)
MasterDial(k) ==
    /\ link.at = "dial" /\ Connected(k)
    /\ link' = [link EXCEPT !.at = "store", !.got = k]
    /\ UNCHANGED <<rpcClient, clientGetting, ask>>

(* ... which stores the client; a callback that it was called in ends. *)
MasterStore ==
    /\ link.at = "store"
    /\ rpcClient' = link.got
    /\ conn' = [k \in Clients |-> IF k = link.old THEN "closed" ELSE conn[k]]
    /\ link' = [link EXCEPT !.at = "up", !.old = NoClient]
    /\ UNCHANGED <<clientGetting, ask>>

(* The callback of the child's client deletes nothing: it reconnects at once,
   unless the child is closing. *)
MasterDropped(k) ==
    /\ conn[k] = "calling" /\ link.at = "up" /\ k = link.got
    /\ \/ /\ link' = [at |-> "dial", got |-> NoClient, old |-> k]
          /\ UNCHANGED conn
       \/ /\ link' = [at |-> "off", got |-> NoClient, old |-> NoClient]
          /\ conn' = [conn EXCEPT ![k] = "closed"]
    /\ UNCHANGED <<rpcClient, clientGetting, ask>>
-----------------------------------------------------------------------------
At(c, at) == ask' = [ask EXCEPT ![c].at = at]

GetNodeClient(c) ==
    /\ ask[c].at = "idle"
    /\ ask' = [ask EXCEPT ![c] =
         [at |-> "load", got |-> NoClient, gone |-> {k \in Clients : Closed(k)}]]
    /\ UNCHANGED <<conn, link, rpcClient, clientGetting>>

Load(c) ==
    /\ ask[c].at = "load"
    /\ ask' = [ask EXCEPT ![c].at = IF rpcClient = NoClient THEN "claim" ELSE "check",
                          ![c].got = rpcClient]
    /\ UNCHANGED <<conn, link, rpcClient, clientGetting>>

TakeAnyway(c) ==
    /\ ask[c].at = "check"
    /\ At(c, "ok")
    /\ UNCHANGED <<conn, link, rpcClient, clientGetting>>

(* IsClosed of the client that was loaded waits for its mutex. *)
CheckClosed(c) ==
    /\ ask[c].at = "check" /\ conn[ask[c].got] \notin {"calling", "hung"}
    /\ At(c, IF Closed(ask[c].got) THEN "claim" ELSE "ok")
    /\ UNCHANGED <<conn, link, rpcClient, clientGetting>>

(* Under `locker`: dial, wait 100 ms and start again, or give up. *)
Claim(c) ==
    /\ ask[c].at = "claim"
    /\ \/ /\ clientGetting = NoClient
          /\ clientGetting' = 0 /\ At(c, "dial")
       \/ /\ clientGetting \in 0 .. MaxRounds
          /\ clientGetting' = clientGetting + 1 /\ At(c, "load")
       \/ /\ clientGetting # NoClient /\ clientGetting > MaxRounds
          /\ At(c, "err") /\ UNCHANGED clientGetting
    /\ UNCHANGED <<conn, link, rpcClient>>

(* ConnectToNode: a connection, or an error. *)
Dial(c) ==
    /\ ask[c].at = "dial"
    /\ \/ \E k \in Clients :
             /\ Connected(k)
             /\ ask' = [ask EXCEPT ![c].at = "store", ![c].got = k]
       \/ /\ ask' = [ask EXCEPT ![c].at = "free", ![c].got = NoClient]
          /\ UNCHANGED conn
    /\ UNCHANGED <<link, rpcClient, clientGetting>>

(* ConnectToNode and then GetNodeClient store the client. *)
Store(c) ==
    /\ ask[c].at \in {"store", "store again"}
    /\ rpcClient' = ask[c].got
    /\ At(c, IF ask[c].at = "store" THEN "store again" ELSE "free")
    /\ UNCHANGED <<conn, link, clientGetting>>

FreeOnSuccess(c) ==
    /\ ask[c].at = "free"
    /\ clientGetting' = (IF ask[c].got = NoClient THEN clientGetting ELSE NoClient)
    /\ At(c, IF ask[c].got = NoClient THEN "err" ELSE "ok")
    /\ UNCHANGED <<conn, link, rpcClient>>

(* The deferred function, after success and failure alike. *)
Free(c) ==
    /\ ask[c].at = "free"
    /\ clientGetting' = NoClient
    /\ At(c, IF ask[c].got = NoClient THEN "err" ELSE "ok")
    /\ UNCHANGED <<conn, link, rpcClient>>

AskAgain(c) ==
    /\ ask[c].at \in {"ok", "err"}
    /\ ask' = [ask EXCEPT ![c] = Idling]
    /\ UNCHANGED <<conn, link, rpcClient, clientGetting>>

AskStep(c) ==
    Load(c) \/ CheckClosed(c) \/ Claim(c) \/ Dial(c) \/ Store(c) \/ Free(c)

CallbackStep(k) == ClientCallback(k) \/ MasterDropped(k)

ClientNext ==
    \/ \E k \in Clients :
          CloseClient(k) \/ InputEnds(k) \/ CallbackStep(k) \/ MasterDial(k)
    \/ MasterStore
    \/ \E c \in Askers : GetNodeClient(c) \/ AskStep(c) \/ AskAgain(c)

ClientSpec == ClientInit /\ [][ClientNext]_clientVars
-----------------------------------------------------------------------------
(* GetNodeClient hands out no client that was already closed when it was called,
   although a client that closes while it is being stored stays registered; and
   no two goroutines dial the address in it at the same time, whatever the child
   component dials beside them (NodeComponent.go:167-205). *)
FreshClient ==
    /\ \A c \in Askers : ask[c].at = "ok" => ask[c].got \notin ask[c].gone
    /\ \A c, d \in Askers :
          ask[c].at \in {"dial", "store", "store again", "free"}
             /\ ask[d].at \in {"dial", "store", "store again", "free"} => c = d

(* Goroutine c is in IsClosed of a client whose mutex is held by the heartbeat's
   Close, or by a callback that looks for the master (client.go:91-95, 223-225,
   398-405). *)
Kept(c) ==
    /\ ask[c].at = "check"
    /\ \/ conn[ask[c].got] = "hung"
       \/ link.at = "dial" /\ ask[c].got = link.old

(* The claim on the address is given up whatever comes of the dial, and whoever
   asks is answered, unless it is kept in IsClosed for ever, or others dial again
   and again: the waiting rounds are counted anew for each claim
   (NodeComponent.go:169-197). *)
ClaimReleased ==
    /\ clientGetting # NoClient ~> clientGetting = NoClient
    /\ \A c \in Askers :
          \/ []<>(ask[c].at \in {"idle", "ok", "err"})
          \/ <>[]Kept(c)
          \/ \E d \in Askers \ {c} : []<>(ask[d].at = "dial")
=============================================================================
