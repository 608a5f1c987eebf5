------------------------------- MODULE Child --------------------------------
(***************************************************************************)
(* The goroutines of one ChildComponent (hCluster/ChildComponent.go) and   *)
(* the locks they share with its TcpClient (hRpc/client.go).               *)
(*                                                                         *)
(* Connection attempts that succeed create clients 1, 2, ...  Client g's   *)
(* `input` goroutine runs the callback OnDropped while it holds that       *)
(* client's mutex (client.go:208-225), and OnDropped runs ConnectToMaster. *)
(* The heartbeat of client g closes it after too many lost pings; that     *)
(* Close keeps the mutex for ever (client.go:264, 398-405).                *)
(* Goroutine 0 is the first ConnectToMaster, started by Awake; goroutine   *)
(* g > 0 is client g's `input`.                                            *)
(***************************************************************************)
EXTENDS Naturals, FiniteSets

CONSTANT MaxClients   \* bound on the number of clients created

ASSUME MaxClientsAssumption == MaxClients \in Nat \ {0}

Clients    == 1 .. MaxClients
Connectors == 0 .. MaxClients
NoClient   == 0       \* nil

VARIABLES
    reach,       \* the master accepts connections
    created,     \* clients created so far
    up,          \* clients whose connection is alive
    silent,      \* clients whose connection is open, but dead at the other end
    held,        \* clients whose mutex is held by their `input`
    closing,     \* clients whose heartbeat has closed the connection, and waits
                 \*   for their mutex in Close
    hung,        \* clients whose mutex is held by that Close
    rpcMaster,   \* ChildComponent.rpcMaster
    close,       \* ChildComponent.close
    locked,      \* ChildComponent.locker is held for writing by Destroy
    isOnline,    \* NodeComponent.isOnline
    con,         \* control of the connectors
    rep, repOn,  \* DoReport: control, client it calls
    des, desOn   \* Destroy: control, client it calls

clientVars == <<created, up, silent, held, closing, hung>>
vars == <<reach, clientVars, rpcMaster, close, locked, isOnline, con, rep,
          repOn, des, desOn>>

(* Awake: go ConnectToMaster(); go DoReport(). *)
Init ==
    /\ reach \in BOOLEAN
    /\ created = 0 /\ up = {} /\ silent = {} /\ rpcMaster = NoClient
    /\ held = {} /\ closing = {} /\ hung = {}
    /\ close = FALSE /\ locked = FALSE /\ isOnline = FALSE
    /\ con = [i \in Connectors |-> IF i = 0 THEN "dial" ELSE "idle"]
    /\ rep = "await" /\ repOn = NoClient
    /\ des = "idle" /\ desOn = NoClient

(* A panic in DoReport ends the process. *)
Alive == rep # "panic"

(* Nobody holds the mutex of client g. *)
MutexFree(g) == g \notin held \cup hung
-----------------------------------------------------------------------------
(* The master and the network: external                                      *)

MasterReach ==
    /\ Alive /\ reach' = ~reach
    /\ UNCHANGED <<clientVars, rpcMaster, close, locked, isOnline, con, rep,
                   repOn, des, desOn>>

(* The connection of client g breaks, with or without a sign of it.  The last
   client of the bound stays. *)
Drop(g) ==
    /\ Alive /\ g \in up /\ g < MaxClients
    /\ up' = up \ {g}
    /\ silent' \in {silent, silent \cup {g}}
    /\ UNCHANGED <<reach, created, held, closing, hung, rpcMaster, close, locked,
                   isOnline, con, rep, repOn, des, desOn>>
-----------------------------------------------------------------------------
(* The heartbeat of client g (StartHeartBeat)                                *)

HeartShutsWhen(g, lost) ==
    /\ Alive /\ g <= created /\ g \notin closing \cup hung /\ lost
    /\ closing' = closing \cup {g}
    /\ silent' = silent \ {g}
    /\ UNCHANGED <<reach, created, up, held, hung, rpcMaster, close, locked,
                   isOnline, con, rep, repOn, des, desOn>>

HeartShutsDropped(g) == HeartShutsWhen(g, g \notin up \cup silent)

(* The fourth ping in a row is lost, or refused by a client that is shut down:
   Close closes the connection ... *)
HeartShuts(g) == HeartShutsWhen(g, g \notin up)

(* ... locks the mutex, and stays in its send to the heartbeat, to itself. *)
HeartHangs(g) ==
    /\ Alive /\ g \in closing /\ MutexFree(g)
    /\ closing' = closing \ {g}
    /\ hung' = hung \cup {g}
    /\ UNCHANGED <<reach, created, up, silent, held, rpcMaster, close, locked,
                   isOnline, con, rep, repOn, des, desOn>>
-----------------------------------------------------------------------------
(* ConnectToMaster and OnDropped                                             *)

DialThen(i, next) ==
    /\ Alive /\ con[i] = "dial" /\ ~locked
    /\ IF reach /\ created < MaxClients
         THEN /\ created' = created + 1
              /\ up' = up \cup {created'}
              /\ rpcMaster' = created'
              /\ con' = [con EXCEPT ![i] = next]
         ELSE /\ rpcMaster' = NoClient
              /\ UNCHANGED <<created, up, con>>
    /\ UNCHANGED <<reach, silent, held, closing, hung, close, locked, isOnline,
                   rep, repOn, des, desOn>>

DialForever(i) == DialThen(i, "dial")

(* One round of ConnectToMaster under locker: a failed dial leaves rpcMaster
   nil and is repeated after 500 ms, whatever `close` says. *)
Dial(i) == DialThen(i, "online")

(* The end of ConnectToMaster; a callback then returns, and `input` releases
   the mutex of its client. *)
SetOnline(i) ==
    /\ Alive /\ con[i] = "online"
    /\ isOnline' = TRUE
    /\ con' = [con EXCEPT ![i] = "end"]
    /\ held' = held \ {i}
    /\ UNCHANGED <<reach, created, up, silent, closing, hung, rpcMaster, close,
                   locked, rep, repOn, des, desOn>>

(* input of client g finds its connection broken: it takes the client's mutex,
   unless the heartbeat's Close came first, and calls back. *)
InputEnds(g) ==
    /\ Alive /\ con[g] = "idle"
    /\ g <= created /\ g \notin up \cup silent /\ MutexFree(g)
    /\ held' = held \cup {g}
    /\ con' = [con EXCEPT ![g] = "dropped"]
    /\ UNCHANGED <<reach, created, up, silent, closing, hung, rpcMaster, close,
                   locked, isOnline, rep, repOn, des, desOn>>

(* OnDropped reads `close` under RLock. *)
OnDropped(g) ==
    /\ Alive /\ con[g] = "dropped" /\ ~locked
    /\ IF close
         THEN con' = [con EXCEPT ![g] = "end"] /\ held' = held \ {g}
         ELSE con' = [con EXCEPT ![g] = "offline"] /\ UNCHANGED held
    /\ UNCHANGED <<reach, created, up, silent, closing, hung, rpcMaster, close,
                   locked, isOnline, rep, repOn, des, desOn>>

SetOffline(g) ==
    /\ Alive /\ con[g] = "offline"
    /\ isOnline' = FALSE
    /\ con' = [con EXCEPT ![g] = "dial"]
    /\ UNCHANGED <<reach, clientVars, rpcMaster, close, locked, rep, repOn, des,
                   desOn>>
-----------------------------------------------------------------------------
(* DoReport                                                                  *)

(* When: wait for a first connection. *)
ReportAwait ==
    /\ rep = "await" /\ ~locked /\ rpcMaster # NoClient
    /\ rep' = "check"
    /\ UNCHANGED <<reach, clientVars, rpcMaster, close, locked, isOnline,
                   con, repOn, des, desOn>>

(* `close` is read under RLock ... *)
ReportCheck ==
    /\ rep = "check" /\ ~locked
    /\ rep' = (IF close THEN "end" ELSE "test")
    /\ UNCHANGED <<reach, clientVars, rpcMaster, close, locked, isOnline,
                   con, repOn, des, desOn>>

(* ... rpcMaster without it, once to compare it with nil ... *)
ReportTest ==
    /\ rep = "test"
    /\ rep' = (IF rpcMaster = NoClient THEN "check" ELSE "use")
    /\ UNCHANGED <<reach, clientVars, rpcMaster, close, locked, isOnline,
                   con, repOn, des, desOn>>

(* ... and once to use it: nil by now is a panic that ends the process. *)
ReportUse ==
    /\ rep = "use"
    /\ IF rpcMaster = NoClient
         THEN rep' = "panic" /\ UNCHANGED repOn
         ELSE rep' = "call" /\ repOn' = rpcMaster
    /\ UNCHANGED <<reach, clientVars, rpcMaster, close, locked, isOnline,
                   con, des, desOn>>

(* Call gets past IsClosed and send when nobody holds the client's mutex, and
   then returns: with the reply, an error or ErrTimeout. *)
ReportCall ==
    /\ rep = "call" /\ MutexFree(repOn)
    /\ rep' = "check" /\ repOn' = NoClient
    /\ UNCHANGED <<reach, clientVars, rpcMaster, close, locked, isOnline,
                   con, des, desOn>>
-----------------------------------------------------------------------------
(* Destroy, which holds locker during the call of ReportClose                *)

DestroyBegin ==
    /\ Alive /\ des = "idle" /\ ~locked
    /\ close' = TRUE
    /\ IF rpcMaster = NoClient
         THEN des' = "end" /\ UNCHANGED <<locked, desOn>>
         ELSE des' = "call" /\ desOn' = rpcMaster /\ locked' = TRUE
    /\ UNCHANGED <<reach, clientVars, rpcMaster, isOnline, con, rep, repOn>>

DestroyCallRelocks ==
    /\ Alive /\ des = "call" /\ MutexFree(desOn) /\ ~locked
    /\ des' = "end" /\ desOn' = NoClient /\ locked' = FALSE
    /\ UNCHANGED <<reach, clientVars, rpcMaster, close, isOnline, con, rep, repOn>>

DestroyCall ==
    /\ Alive /\ des = "call" /\ MutexFree(desOn)
    /\ des' = "end" /\ desOn' = NoClient /\ locked' = FALSE
    /\ UNCHANGED <<reach, clientVars, rpcMaster, close, isOnline, con, rep, repOn>>
-----------------------------------------------------------------------------
ConnectorStep(i) == Dial(i) \/ SetOnline(i)
HeartStep(g)     == HeartShuts(g) \/ HeartHangs(g)
DropStep(g)      == InputEnds(g) \/ OnDropped(g) \/ SetOffline(g)
ReportStep       == \/ ReportAwait \/ ReportCheck \/ ReportTest \/ ReportUse
                    \/ ReportCall

Next ==
    \/ MasterReach
    \/ \E g \in Clients : Drop(g) \/ HeartStep(g) \/ DropStep(g)
    \/ \E i \in Connectors : ConnectorStep(i)
    \/ ReportStep
    \/ DestroyBegin \/ DestroyCall

Spec == Init /\ [][Next]_vars

(* Goroutines that can run do; the network and the user need do nothing. *)
FairSpec ==
    /\ Spec
    /\ \A i \in Connectors : WF_vars(ConnectorStep(i))
    /\ \A g \in Clients : WF_vars(HeartStep(g)) /\ WF_vars(DropStep(g))
    /\ WF_vars(ReportStep)
    /\ WF_vars(DestroyCall)
-----------------------------------------------------------------------------
(* Types. *)
TypeOK ==
    /\ reach \in BOOLEAN /\ close \in BOOLEAN /\ locked \in BOOLEAN
    /\ isOnline \in BOOLEAN
    /\ created \in Connectors /\ rpcMaster \in 0 .. created
    /\ up \subseteq 1 .. created /\ silent \subseteq 1 .. created
    /\ held \subseteq 1 .. created /\ closing \subseteq 1 .. created
    /\ hung \subseteq 1 .. created
    /\ con \in [Connectors -> {"idle", "dropped", "offline", "dial", "online",
                               "end"}]
    /\ rep \in {"await", "check", "test", "use", "call", "end", "panic"}
    /\ repOn \in Connectors /\ desOn \in Connectors
    /\ des \in {"idle", "call", "end"}

(* However often connections drop, and although every drop starts a
   ConnectToMaster of its own, no two of them look for the master at a time,
   and only the newest connection can be open (ChildComponent.go:138-187). *)
OneConnection ==
    /\ \A i, j \in Connectors : con[i] = "dial" /\ con[j] = "dial" => i = j
    /\ up \cup silent \subseteq {created}
    /\ \A i \in Connectors : con[i] = "dial" => up \cup silent = {}

(* The heartbeat's Close got the mutex of the newest client before its `input`
   did, which waits for it for ever and does not call back (client.go:208-209,
   264, 398-405). *)
Cut == con[created] = "idle" /\ created \in hung

(* A child whose master can be reached connects to it again, however its
   connections ended, and then knows that it is online; unless it is cut off
   (ChildComponent.go:138-187). *)
Reconnects ==
    <>[](reach /\ ~close /\ Alive) =>
       <>[](rpcMaster \in up /\ isOnline) \/ <>[]Cut

(* Destroy holds locker and waits for the mutex of its client, while the
   callback of that client holds the mutex and waits for locker
   (ChildComponent.go:61-65, 140, 174; client.go:208-225). *)
Deadlocked == des = "call" /\ con[desOn] \in {"dropped", "dial"}

(* Destroy waits for the mutex of a client whose heartbeat is in Close. *)
DestroyHangs == des = "call" /\ desOn \in hung

(* Destroy ends, connected or not, unless its connection drops under it in
   one of these two ways: a lost answer, a time-out or a silent master do not
   keep it (ChildComponent.go:60-66, 126-135). *)
DestroyReturns ==
    des = "call" ~> des = "end" \/ []Deadlocked \/ []DestroyHangs \/ ~Alive
=============================================================================
