------------------------------ MODULE Cluster -------------------------------
(***************************************************************************)
(* What the nodes of a cluster do to find and to reach each other, for     *)
(* TLC: the location server's copy of the registry (with the registry),    *)
(* the lookup of a node, the clients of an address and the calls of actor  *)
(* services.  They meet in values that each of these modules takes as      *)
(* given, so every behaviour exercises one of them, chosen in the initial  *)
(* state, while the others stay as they were made.                         *)
(***************************************************************************)
EXTENDS Location, NodeLookup, NodeClient, ActorCall

VARIABLE part   \* what this behaviour exercises

Parts == {"location", "lookup", "client", "actor"}

clusterVars == <<allVars, lookupVars, clientVars, callVars, part>>

ClusterInit ==
    /\ part \in Parts
    /\ LocInit /\ LookupInit /\ ClientInit /\ CallInit
    /\ part # "client" => link.at = "off"

Only(p, A) ==
    /\ part = p /\ A
    /\ p # "location" => UNCHANGED allVars
    /\ p # "lookup" => UNCHANGED lookupVars
    /\ p # "client" => UNCHANGED clientVars
    /\ p # "actor" => UNCHANGED callVars
    /\ UNCHANGED part

ClusterNext ==
    \/ Only("location", LocNext) \/ Only("lookup", LookupNext)
    \/ Only("client", ClientNext) \/ Only("actor", CallNext)

(* As in Location; the getters, the goroutines of GetNodeClient and the callbacks
   run on, though nobody need reach the master, and every thirty seconds a getter
   is started. *)
ClusterSpec ==
    /\ ClusterInit /\ [][ClusterNext]_clusterVars
    /\ \A a \in Addrs :
          /\ WF_clusterVars(Only("location", ReportCheck(a) /\ UNCHANGED locVars))
          /\ WF_clusterVars(Only("location", ReportSend(a) /\ UNCHANGED locVars))
          /\ SF_clusterVars(Only("location", ReportNodeInfo(a) /\ UNCHANGED locVars))
          /\ WF_clusterVars(Only("location", MasterStep(a) /\ UNCHANGED locVars))
    /\ WF_clusterVars(Only("location", TimeoutCheck /\ UNCHANGED locVars))
    /\ WF_clusterVars(Only("location", SyncCopy))
    /\ SF_clusterVars(Only("location", SyncApply))
    /\ WF_clusterVars(Only("lookup", Periodic))
    /\ \A g \in Getters : WF_clusterVars(Only("lookup", GetterStep(g)))
    /\ \A c \in Askers : WF_clusterVars(Only("client", AskStep(c)))
    /\ \A k \in Clients : WF_clusterVars(Only("client", CallbackStep(k)))
    /\ WF_clusterVars(Only("client", MasterStore))
=============================================================================
