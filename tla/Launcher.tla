------------------------------ MODULE Launcher ------------------------------
(***************************************************************************)
(* The life of a gate process: LauncherComponent.Serve (hBaseComponent)    *)
(* from start to stop, with the requests to stop that arrive as signals or *)
(* as CloseSelf calls of the gate selector (SelectGateComponent), the      *)
(* status kept for the node at the master, and the gate it stops: modules  *)
(* GateShutdown and FrontEnd.                                              *)
(***************************************************************************)
EXTENDS FrontEnd

CONSTANTS
    MaxClosers,     \* bound on the requests to close over the web
    StartStatuses,  \* statuses the node may have at the master when it starts
    TrafficModes    \* bound: the modes in which messages are sent

VARIABLES
    debug,    \* CommonConfig.Debug
    stage,    \* Serve: start, blocked, attach, up, stopping, grace, report,
              \*   destroy, closed; panic: the process has ended by a panic
    closers,  \* goroutines blocked in `Close <-`
    asked,    \* closeOnLineNode calls whose CloseSelf is still to come
    begun,    \* number of closeOnLineNode calls
    status,   \* the node's status at the master
    childUp   \* the child component: up, removed (Destroy is due), down

launchVars == <<debug, stage, closers, asked, begun, status, childUp>>
gateVars   == <<vars, frontVars>>
allVars    == <<vars, frontVars, launchVars>>

LaunchInit ==
    /\ Init /\ FrontInit
    /\ debug \in BOOLEAN
    /\ stage = "start" /\ closers = 0 /\ asked = 0 /\ begun = 0
    /\ status \in StartStatuses /\ childUp = "down"
-----------------------------------------------------------------------------
(* Start: NodeComponent, CheckNodeStatus (a node that the master waits for pm2
   to close blocks on Close; if the master does not answer it goes on), the
   services and the component groups, child and gate among them. *)
CheckNodeStatus ==
    /\ stage = "start"
    /\ \/ stage' = "attach"
       \/ status = "WaitPm2Close" /\ stage' = "blocked"
    /\ UNCHANGED <<gateVars, debug, closers, asked, begun, status, childUp>>

AttachGroups ==
    /\ stage = "attach"
    /\ stage' = "up" /\ childUp' = "up"
    /\ UNCHANGED <<gateVars, debug, closers, asked, begun, status>>

(* The child component of this node: its reports make it Online, and its
   Destroy, run by the frame loop, reports the close, which removes the status.
   Either call may fail or come late. *)
ReportNode ==
    /\ childUp = "up"
    /\ status' = "Online"
    /\ UNCHANGED <<gateVars, debug, stage, closers, asked, begun, childUp>>

DestroyChild ==
    /\ childUp = "removed"
    /\ childUp' = "down"
    /\ status' \in {status, "Offline"}
    /\ UNCHANGED <<gateVars, debug, stage, closers, asked, begun>>

(* SelectGateComponent.closeOnLineNode: WebClose at the master, and then
   CloseSelf, whose handler blocks until Serve receives. *)
CloseOnLineNode ==
    /\ begun < MaxClosers
    /\ begun' = begun + 1 /\ asked' = asked + 1
    /\ status' = "WebClose"
    /\ UNCHANGED <<gateVars, debug, stage, closers, childUp>>

(* SelectGateComponent.setNodeStatus. *)
SetOffline ==
    /\ status' = "Offline"
    /\ UNCHANGED <<gateVars, debug, stage, closers, asked, begun, childUp>>

CloseSelf ==
    /\ stage \notin {"start", "blocked"} /\ asked > 0
    /\ asked' = asked - 1 /\ closers' = closers + 1
    /\ UNCHANGED <<gateVars, debug, stage, begun, status, childUp>>
-----------------------------------------------------------------------------
(* The first select of Serve returns: a signal, or one receive from Close.
   Outside debug mode the child is removed before anything is checked. *)
StopRequested ==
    /\ stage = "up"
    /\ \/ UNCHANGED closers
       \/ closers > 0 /\ closers' = closers - 1
    /\ IF debug
         THEN stage' = "report" /\ UNCHANGED childUp
         ELSE stage' = "stopping" /\ childUp' = "removed"
    /\ UNCHANGED <<gateVars, debug, asked, begun, status>>

(* CheckClose of the gate, then waitGroup.Wait (module GateShutdown). *)
CheckAndWait ==
    /\ stage = "stopping"
    /\ CheckClose \/ Wait
    /\ UNCHANGED <<frontVars, launchVars>>

GraceAtOnce ==
    /\ stage = "stopping" /\ serve \in {"checked", "waited"}
    /\ stage' = "grace" /\ closers' = closers + 1
    /\ UNCHANGED <<gateVars, debug, asked, begun, status, childUp>>

(* Wait has returned: a goroutine sleeps five seconds and sends on Close. *)
Grace ==
    /\ stage = "stopping" /\ serve = "waited"
    /\ stage' = "grace" /\ closers' = closers + 1
    /\ UNCHANGED <<gateVars, debug, asked, begun, status, childUp>>

(* The second select takes any sender, a further CloseSelf too. *)
GraceEnds ==
    /\ stage = "grace" /\ closers > 0
    /\ stage' = "report" /\ closers' = closers - 1
    /\ UNCHANGED <<gateVars, debug, asked, begun, status, childUp>>

(* WebClose is handed over as WaitPm2Close, if the master answers; then the
   root is destroyed, which leaves the gate to the destroy system. *)
ReportStatus ==
    /\ stage = "report"
    /\ stage' = "destroy"
    /\ \/ UNCHANGED status
       \/ status = "WebClose" /\ status' = "WaitPm2Close"
    /\ UNCHANGED <<gateVars, debug, closers, asked, begun, childUp>>

(* DefaultGateComponent.Destroy, run by the frame loop ... *)
GateDestroy ==
    /\ stage = "destroy"
    /\ Shutdown
    /\ UNCHANGED <<vars, launchVars>>

(* ... and the end of Serve a second later, whether it has run or not.  The
   process ends with it. *)
ServeReturns ==
    /\ stage = "destroy"
    /\ stage' = "closed"
    /\ UNCHANGED <<gateVars, debug, closers, asked, begun, status, childUp>>
-----------------------------------------------------------------------------
Ended == stage \in {"closed", "panic"}

Up == stage \notin {"start", "blocked", "attach"} /\ ~Ended

(* PackageProtocol.Decode of a message shorter than its type panics in the
   worker, which recovers nothing: the process ends. *)
DecodePanics(w) ==
    /\ Up
    /\ work[w].doing = "run" /\ work[w].job.from \in Sessions
    /\ stage' = "panic"
    /\ UNCHANGED <<gateVars, debug, closers, asked, begun, status, childUp>>

(* Sessions connect once the gate is attached. *)
SessionStep(s) == OnConnected(s) \/ OnDropped(s) \/ OnDroppedDeferred(s)

ServeStep ==
    \/ CheckNodeStatus \/ AttachGroups \/ CheckAndWait \/ Grace \/ GraceEnds
    \/ ReportStatus \/ ServeReturns

GateStep ==
    /\ Up
    /\ \/ \E s \in Sessions : SessionStep(s) /\ UNCHANGED <<frontVars, launchVars>>
       \/ debug \in TrafficModes /\ FrontNext /\ UNCHANGED <<vars, launchVars>>

LaunchNext ==
    \/ ServeStep \/ StopRequested \/ GateStep
    \/ \E w \in Workers : DecodePanics(w)
    \/ /\ ~Ended
       /\ \/ ReportNode \/ DestroyChild \/ CloseSelf \/ GateDestroy
          \/ CloseOnLineNode \/ SetOffline

(* The steps of Serve, of the deferred part of OnDropped and of the workers are
   taken; nobody has to connect, leave, send, stop or set a status.  A process
   that is blocked by its status at the master is not asked to go on. *)
LaunchSpec ==
    /\ LaunchInit /\ [][LaunchNext]_allVars
    /\ WF_allVars(ServeStep)
    /\ \A s \in Sessions :
          WF_allVars(Up /\ OnDroppedDeferred(s) /\ UNCHANGED <<frontVars, launchVars>>)
    /\ \A w \in Workers :
          WF_allVars(Up /\ WorkerStep(w) /\ UNCHANGED <<vars, launchVars>>)
-----------------------------------------------------------------------------

(* A message that was read is handled, however full the queues are, unless the
   process ends, by a stop or by a message too short to be decoded, or a worker
   is left for ever with a job that it cannot forward, for instance into its own
   full queue (gPool.go:24-34, 91-110, websocketHandler.go:119-155). *)
MessagesHandled ==
    \A s \in Sessions : \A n \in 1 .. MaxMessages :
       sent[s] >= n ~>
          \/ Len(handled[s]) >= n
          \/ isClosed \/ Ended
          \/ \E w \in Workers : []Stuck(w)

(* Outside debug mode Serve does not end under a player who was connected
   when CheckClose ran: neither a signal nor any number of CloseSelf calls
   shortens the wait for the players (LauncherComponent.go:127-183). *)
NoneCutOff ==
    stage \in {"grace", "report", "destroy", "closed"} =>
       \/ debug
       \/ serve = "waited" /\ \A s \in atClose : sess[s] # "in"
=============================================================================
