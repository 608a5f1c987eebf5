------------------------------ MODULE Location ------------------------------
(***************************************************************************)
(* The location server (hCluster/LocationComponent.go): it copies the      *)
(* master's registry, module Membership, every LocationSyncInterval, so    *)
(* that nodes can ask it instead of the master.                            *)
(***************************************************************************)
EXTENDS Membership

VARIABLES
    locSync,    \* DoLocationSync: idle, or the NodeInfoSync reply in hand
    locNodes,   \* keys of LocationComponent.Nodes
    locLb,      \* hosts in the balancers of the location server's process
    locReady    \* LocationComponent.Nodes # nil

locVars == <<locSync, locNodes, locLb, locReady>>
allVars == <<vars, locVars>>

Idle == [phase |-> "idle", copy |-> {}]

LocInit ==
    /\ Init
    /\ locSync = Idle
    /\ locNodes = {} /\ locLb = {} /\ locReady = FALSE

(* MasterService.NodeInfoSync copies Nodes ... *)
SyncCopy ==
    /\ locSync = Idle
    /\ locSync' = [phase |-> "reply", copy |-> nodes]
    /\ UNCHANGED <<vars, locNodes, locLb, locReady>>

(* ... or the call fails: the client is forgotten and fetched again. *)
SyncFails ==
    /\ locSync # Idle
    /\ locSync' = Idle
    /\ UNCHANGED <<vars, locNodes, locLb, locReady>>

SyncApplyOnce ==
    /\ locSync # Idle
    /\ IF locReady THEN UNCHANGED <<locNodes, locLb>>
                   ELSE locNodes' = locSync.copy /\ locLb' = locSync.copy
    /\ locReady' = TRUE
    /\ locSync' = Idle
    /\ UNCHANGED vars

(* The reply is decoded into the variable of the previous round, whose map is
   LocationComponent.Nodes: gob adds the entries it received to a map that is
   already there.  UpdateBL then compares that map with itself; only in the
   first round does it open every node. *)
SyncApply ==
    /\ locSync # Idle
    /\ locNodes' = (IF locReady THEN locNodes \cup locSync.copy
                                ELSE locSync.copy)
    /\ locLb' = (IF locReady THEN locLb ELSE locLb \cup locSync.copy)
    /\ locReady' = TRUE
    /\ locSync' = Idle
    /\ UNCHANGED vars
-----------------------------------------------------------------------------
LocNext ==
    \/ Next /\ UNCHANGED locVars
    \/ SyncCopy \/ SyncFails \/ SyncApply

(* As in Membership; the sync loop goes on and its calls do not all fail. *)
LocSpec ==
    /\ LocInit /\ [][LocNext]_allVars
    /\ \A a \in Addrs : /\ WF_allVars(ReportCheck(a) /\ UNCHANGED locVars)
                        /\ WF_allVars(ReportSend(a) /\ UNCHANGED locVars)
                        /\ SF_allVars(ReportNodeInfo(a) /\ UNCHANGED locVars)
                        /\ WF_allVars(MasterStep(a) /\ UNCHANGED locVars)
    /\ WF_allVars(TimeoutCheck /\ UNCHANGED locVars)
    /\ WF_allVars(SyncCopy) /\ SF_allVars(SyncApply)
-----------------------------------------------------------------------------
(* Once it has synchronised, the location server has a node that stays up and
   registered in its map, whatever calls are lost meanwhile, so NodeInquiry
   there finds it by role; the server's balancers are built once and need not
   name it (LocationComponent.go:60-93). *)
LocationLearns ==
    \A a \in Addrs : <>[](a \in nodes) => <>[](a \in locNodes)

(* DoLocationSync "synchronises the node information to the location service"
   (LocationComponent.go:60): a node gone for good is forgotten there too. *)
LocationForgets ==
    \A a \in Addrs : <>[](child[a] = "off") => <>[](a \notin locNodes)
=============================================================================
