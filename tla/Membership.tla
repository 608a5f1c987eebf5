----------------------------- MODULE Membership -----------------------------
(***************************************************************************)
(* The node registry of hCluster: the master (MasterComponent and          *)
(* MasterService) and the children that report to it (ChildComponent,      *)
(* reduced to the reports it sends; module Child has its goroutines).      *)
(* Module Location adds the location server that copies the registry.      *)
(*                                                                         *)
(* The RPC server runs every request in a goroutine of its own, so the     *)
(* reports of one child may be executed in any order (`inflight` is a      *)
(* set).  The master's handlers run under MasterComponent.locker, one      *)
(* critical section per action.                                            *)
(***************************************************************************)
EXTENDS Naturals, Sequences, FiniteSets, SequencesExt

CONSTANTS
    Addrs,      \* addresses of the child nodes
    MaxMiss,    \* timeoutChecking above which a node is closed (3)
    LogSize,    \* NodeLogs.BufferSize (20)
    SetStatuses, \* statuses that SetNodeStatus is called with
    Debug       \* CommonConfig.Debug: no TimeoutCheck

ASSUME MembershipAssumption ==
    /\ IsFiniteSet(Addrs) /\ MaxMiss \in Nat
    /\ LogSize \in Nat \ {0} /\ Debug \in BOOLEAN
    /\ SetStatuses \subseteq {"Online", "Offline", "WebClose", "WaitPm2Close"}

Statuses == {"Online", "Offline", "WebClose", "WaitPm2Close"}

VARIABLES
    nodes,            \* keys of MasterComponent.Nodes
    lb,               \* hosts in the balancers r2LB, p2cLB and boundedLB
    nodeStatus,       \* MasterComponent.NodeStatus ("none": no entry)
    checked,          \* keys of MasterComponent.timeoutChecking
    timeoutChecking,  \* its counts (0 for an address without an entry)
    log,              \* NodeLog.Logs: the addresses closed, oldest first
    quiet,            \* rounds of TimeoutCheck since a node last reported
    child,            \* per address: off, on, closed (Destroy has run)
    armed,            \* DoReport has checked `close` and is about to call
    inflight          \* reports on their way to the master's handlers

masterVars == <<nodes, lb, nodeStatus, checked, timeoutChecking, log, quiet>>
childVars  == <<child, armed>>
vars == <<masterVars, childVars, inflight>>

Report == [kind : {"info", "close"}, addr : Addrs]

Init ==
    /\ nodes = {} /\ lb = {} /\ checked = {} /\ log = <<>>
    /\ nodeStatus = [a \in Addrs |-> "none"]
    /\ timeoutChecking = [a \in Addrs |-> 0]
    /\ quiet = [a \in Addrs |-> 0]
    /\ child = [a \in Addrs |-> "off"]
    /\ armed = [a \in Addrs |-> FALSE]
    /\ inflight = {}
-----------------------------------------------------------------------------
(* Children                                                                  *)

ChildStart(a) ==
    /\ child[a] = "off"
    /\ child' = [child EXCEPT ![a] = "on"]
    /\ UNCHANGED <<masterVars, armed, inflight>>

(* DoReport, up to the RUnlock: the close flag is checked ... *)
ReportCheck(a) ==
    /\ child[a] = "on" /\ ~armed[a]
    /\ armed' = [armed EXCEPT ![a] = TRUE]
    /\ UNCHANGED <<masterVars, child, inflight>>

(* ... and the call made, by when Destroy may have run. *)
ReportSend(a) ==
    /\ child[a] # "off" /\ armed[a]
    /\ armed' = [armed EXCEPT ![a] = FALSE]
    /\ inflight' = inflight \cup {[kind |-> "info", addr |-> a]}
    /\ UNCHANGED <<masterVars, child>>

(* ChildComponent.Destroy: set close, report it. *)
ChildDestroy(a) ==
    /\ child[a] = "on"
    /\ child' = [child EXCEPT ![a] = "closed"]
    /\ inflight' = inflight \cup {[kind |-> "close", addr |-> a]}
    /\ UNCHANGED <<masterVars, armed>>

(* The process ends: after Destroy, or by a crash. *)
ChildExit(a) ==
    /\ child[a] \in {"on", "closed"}
    /\ child' = [child EXCEPT ![a] = "off"]
    /\ armed' = [armed EXCEPT ![a] = FALSE]
    /\ UNCHANGED <<masterVars, inflight>>

(* A report is lost with its connection. *)
ReportLost(r) ==
    /\ r \in inflight
    /\ inflight' = inflight \ {r}
    /\ UNCHANGED <<masterVars, childVars>>
-----------------------------------------------------------------------------
(* The master                                                                *)

KeepTimeout(a) == UNCHANGED timeoutChecking

ResetTimeout(a) == timeoutChecking' = [timeoutChecking EXCEPT ![a] = 0]

(* Register a: `watch` is what timeoutChecking watches from then on. *)
RegisterNode(a, watch) ==
    /\ lb' = (IF a \in nodes THEN lb ELSE lb \cup {a})
    /\ nodes' = nodes \cup {a}
    /\ nodeStatus' = [nodeStatus EXCEPT ![a] = "Online"]
    /\ checked' = watch
    /\ ResetTimeout(a)
    /\ quiet' = [quiet EXCEPT ![a] = 0]
    /\ UNCHANGED log

UpdateNodeInfoUnwatched(a) == RegisterNode(a, checked)

UpdateNodeInfoUnlessClosing(a) ==
    IF nodeStatus[a] = "WebClose" THEN UNCHANGED masterVars
                                  ELSE RegisterNode(a, checked \cup {a})

(* UpdateNodeInfo: a new node also enters the balancers; a node already there
   is Online again, whatever its status was, and its timeout starts afresh. *)
UpdateNodeInfo(a) == RegisterNode(a, checked \cup {a})

ReportNodeInfo(a) ==
    /\ [kind |-> "info", addr |-> a] \in inflight
    /\ inflight' = inflight \ {[kind |-> "info", addr |-> a]}
    /\ UpdateNodeInfo(a)
    /\ UNCHANGED <<childVars>>

(* NodeLogs.Add: a full buffer drops its oldest entry. *)
LogAdd(l, a) == IF Len(l) < LogSize THEN Append(l, a) ELSE Append(Tail(l), a)

(* The maps that NodeClose cleans for every address of `left`. *)
DeleteNodes(left) ==
    /\ nodes' = nodes \ left
    /\ nodeStatus' = [a \in Addrs |-> IF a \in left THEN "none"
                                                    ELSE nodeStatus[a]]
    /\ checked' = checked \ left

(* NodeClose, for each address of `left` in turn: out of the balancers when it
   is a known node, out of the three maps, and into the log in any case. *)
NodeClose(left, order) ==
    /\ DeleteNodes(left)
    /\ lb' = lb \ (left \cap nodes)
    /\ log' = FoldLeft(LogAdd, log, order)

ReportNodeClose(a) ==
    /\ [kind |-> "close", addr |-> a] \in inflight
    /\ inflight' = inflight \ {[kind |-> "close", addr |-> a]}
    /\ NodeClose({a}, <<a>>)
    /\ ResetTimeout(a)
    /\ quiet' = [quiet EXCEPT ![a] = 0]
    /\ UNCHANGED childVars

(* The nodes whose count this round takes past MaxMiss. *)
Overdue == {a \in checked : timeoutChecking[a] >= MaxMiss}

(* One round of TimeoutCheck: count, and close the nodes counted past MaxMiss,
   in the order in which Go ranges over the map. *)
TimeoutCheck ==
    /\ ~Debug
    /\ timeoutChecking' = [a \in Addrs |->
          IF a \in checked \ Overdue THEN timeoutChecking[a] + 1 ELSE 0]
    /\ quiet' = [a \in Addrs |->
          IF a \in checked \ Overdue THEN quiet[a] + 1 ELSE 0]
    /\ \E order \in SetToSeqs(Overdue) : NodeClose(Overdue, order)
    /\ UNCHANGED <<childVars, inflight>>

(* SetNodeStatus, called by the gate selector for any address at all. *)
SetNodeStatus(a, s) ==
    /\ nodeStatus' = [nodeStatus EXCEPT ![a] = s]
    /\ UNCHANGED <<nodes, lb, checked, timeoutChecking, log, quiet, childVars,
                   inflight>>

(* The master process crashes and starts again: Awake makes empty maps, and
   reports under way are lost. *)
MasterRestart ==
    /\ nodes' = {} /\ lb' = {} /\ checked' = {} /\ log' = <<>>
    /\ nodeStatus' = [a \in Addrs |-> "none"]
    /\ timeoutChecking' = [a \in Addrs |-> 0]
    /\ quiet' = [a \in Addrs |-> 0]
    /\ inflight' = {}
    /\ UNCHANGED <<childVars>>
-----------------------------------------------------------------------------
ChildStep(a) == ReportCheck(a) \/ ReportSend(a)

MasterStep(a) == ReportNodeInfo(a) \/ ReportNodeClose(a)

Next ==
    \/ \E a \in Addrs :
          \/ ChildStart(a) \/ ChildStep(a) \/ ChildDestroy(a) \/ ChildExit(a)
          \/ MasterStep(a)
          \/ \E s \in SetStatuses : SetNodeStatus(a, s)
    \/ \E r \in inflight : ReportLost(r)
    \/ TimeoutCheck \/ MasterRestart

Spec == Init /\ [][Next]_vars

(* The report loop, the handlers and TimeoutCheck go on.  A
   report may be lost, but not all of them (strong fairness of the handler);
   nobody has to start, stop, crash or set a status. *)
FairSpec ==
    /\ Spec
    /\ \A a \in Addrs : /\ WF_vars(ReportCheck(a)) /\ WF_vars(ReportSend(a))
                        /\ SF_vars(ReportNodeInfo(a))
                        /\ WF_vars(MasterStep(a))
    /\ WF_vars(TimeoutCheck)
-----------------------------------------------------------------------------
(* Types; the node log stays within its buffer and a count never passes
   MaxMiss, since the round that would do so closes the node
   (MasterComponent.go:126-139, MasterService.go:102-108). *)
TypeOK ==
    /\ nodes \subseteq Addrs /\ lb \subseteq Addrs /\ checked \subseteq Addrs
    /\ nodeStatus \in [Addrs -> Statuses \cup {"none"}]
    /\ timeoutChecking \in [Addrs -> 0 .. MaxMiss]
    /\ quiet \in [Addrs -> Nat]
    /\ log \in Seq(Addrs) /\ Len(log) <= LogSize
    /\ child \in [Addrs -> {"off", "on", "closed"}]
    /\ armed \in [Addrs -> BOOLEAN]
    /\ inflight \subseteq Report

(* The master's views of the cluster agree after every handler: the balancers
   hold exactly the registered nodes, each of them is watched by TimeoutCheck
   and has a status (MasterComponent.go:70-118). *)
ViewsAgree ==
    /\ lb = nodes
    /\ checked = nodes
    /\ \A a \in nodes : nodeStatus[a] # "none"

(* TimeoutCheck closes only a node that has let MaxMiss rounds pass without a
   report (MasterComponent.go:84, 126-139). *)
EvictedOnlyWhenQuiet ==
    [][TimeoutCheck => \A a \in nodes \ nodes' : quiet[a] >= MaxMiss]_vars

(* A node that is gone for good is forgotten for good, although a last report
   may be executed after its ReportNodeClose (ChildComponent.go:93-108). *)
GoneIsForgotten ==
    \A a \in Addrs : <>[](child[a] = "off") => <>[](a \notin nodes)

(* A node that stays up keeps being registered, through evictions, master
   restarts and lost reports. *)
LiveIsListed ==
    \A a \in Addrs : <>[](child[a] = "on") => []<>(a \in nodes)
=============================================================================
