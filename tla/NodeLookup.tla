----------------------------- MODULE NodeLookup -----------------------------
(***************************************************************************)
(* How a node finds other nodes (hCluster/NodeComponent.go): it asks a     *)
(* location server, and the master if that fails; when a location server   *)
(* fails it is forgotten, and a getter asks the master for one again.  The *)
(* servers select the node of the answer (hCluster/Selector.go).           *)
(*                                                                         *)
(* `known` and `located` are what the master and the location server have  *)
(* registered for the role that is asked for; modules Membership and       *)
(* Location show how they come about.                                      *)
(***************************************************************************)
EXTENDS Integers, Sequences, FiniteSets, SequencesExt, FiniteSetsExt

CONSTANTS
    Hosts,      \* the nodes of the role that is asked for
    Selectors,  \* the selector types that lookups use
    Lookups,    \* the goroutines that look nodes up
    Getters,    \* bound: the getters that run at a time
    MaxFaults   \* bound on the crashes of servers

ASSUME LookupAssumption ==
    /\ IsFiniteSet(Hosts) /\ IsFiniteSet(Getters) /\ MaxFaults \in Nat
    /\ Selectors \subseteq {"Group", "Default", "Random", "MinLoad", "Custom",
                            "Polling", "P2C", "ConstHashingBoundLoad",
                            "ConstHashingBoundLoadWithWeight", "SpecialIp"}

VARIABLES
    isOnline,         \* NodeComponent.isOnline, kept by ChildComponent
    known, located,
    master,           \* the master's process: up, down
    location,         \* the location server's: down, fresh (Nodes = nil), synced
    locationClients,  \* nil, up, dead (its connection is closed)
    isGetting,        \* of InitLocationServerGetter
    getter,           \* per getter: none, spawned, tested, loop, assigned, or
                      \*   the state of the client that it has
    lookup,           \* per goroutine: where it is, its selector, the client
                      \*   it took, its answer, and whether it could count on
                      \*   the master all along
    faults

lookupVars == <<isOnline, known, located, master, location, locationClients,
                isGetting, getter, lookup, faults>>

NoLookup == [at |-> "idle", by |-> "Group", client |-> "nil", reply |-> {},
             steady |-> TRUE]

(* Initialize: the RPC server runs and the first getter is started. *)
LookupInit ==
    /\ isOnline = FALSE /\ known = {} /\ located = {}
    /\ master = "up" /\ location = "down"
    /\ locationClients = "nil" /\ isGetting = FALSE
    /\ getter = [g \in Getters |->
                   IF g = CHOOSE h \in Getters : TRUE THEN "spawned" ELSE "none"]
    /\ lookup = [c \in Lookups |-> NoLookup] /\ faults = 0
-----------------------------------------------------------------------------
(* Selection over a group of InquiryReply, with 0-based indices.  A lookup is
   answered with detail = false, so no reply has an Info and each load is 1. *)

(* SelectMinLoad: the last one of those whose load is least and at most 1. *)
SelectMinLoad(group, load) ==
    Max({-1} \cup {i \in 0 .. Len(group) - 1 :
           load[i + 1] <= 1 /\ \A j \in 1 .. Len(group) : load[i + 1] <= load[j]})

(* GenRandom draws a number, and `end` is included. *)
GenRandom(start, end) == start .. end

RandomIndex(group) == GenRandom(0, Len(group))

(* A balancer names any host of any role; this group may not have it. *)
BalancerIndex(group) == -1 .. Len(group) - 1

SpecialIP(group) == IF group = <<>> THEN -1 ELSE 0

SelectIndex(by, group) ==
    CASE by = "MinLoad" -> {SelectMinLoad(group, [i \in 1 .. Len(group) |-> 1])}
      [] by \in {"Default", "Random"} -> RandomIndex(group)
      [] by \in {"Polling", "P2C", "ConstHashingBoundLoad"} -> BalancerIndex(group)
      [] by = "ConstHashingBoundLoadWithWeight" -> {0}
      [] by = "SpecialIp" -> {SpecialIP(group)}

Fails   == [end |-> "err", reply |-> {}]
Panics  == [end |-> "panic", reply |-> {}]
Gives(r) == [end |-> IF r = {} THEN "err" ELSE "ok", reply |-> r]

(* Selector.DoQuery over the nodes of the role, in the order of the map: the
   possible answers.  An index past the end of the group panics, and so does a
   query for Custom, to which no inquiry passes a selector; nothing recovers in
   the goroutine of a request. *)
DoQuery(by, S) ==
    IF by = "Custom" THEN {Panics}
    ELSE IF by = "Group" THEN {Gives(S)}
    ELSE UNION {{IF i = -1 THEN Fails
                 ELSE IF i >= Len(group) THEN Panics ELSE Gives({group[i + 1]})
                 : i \in SelectIndex(by, group)} : group \in SetToSeqs(S)}
-----------------------------------------------------------------------------
Unsteady == [c \in Lookups |-> [lookup[c] EXCEPT !.steady = FALSE]]

(* The process of the location server ends, and connections to it close. *)
Cut(client) == IF client = "up" THEN "dead" ELSE client

LocationDown(gets, looks, clients) ==
    /\ location' = "down" /\ located' = {}
    /\ locationClients' = Cut(clients)
    /\ getter' = [g \in Getters |-> Cut(gets[g])]
    /\ lookup' = [c \in Lookups |-> [looks[c] EXCEPT !.client = Cut(@)]]

LocationCrash ==
    /\ location # "down" /\ faults < MaxFaults
    /\ faults' = faults + 1
    /\ LocationDown(getter, lookup, locationClients)
    /\ UNCHANGED <<isOnline, known, master, isGetting>>

LocationStart ==
    /\ location = "down"
    /\ location' = "fresh"
    /\ UNCHANGED <<isOnline, known, located, master, locationClients, isGetting,
                   getter, lookup, faults>>

(* DoLocationSync (module Location). *)
LocationSync ==
    /\ location # "down" /\ master = "up"
    /\ location' = "synced" /\ located' = located \cup known
    /\ UNCHANGED <<isOnline, known, master, locationClients, isGetting, getter,
                   lookup, faults>>

(* The master stops or starts, nodes register and are forgotten, and the child
   component of this node loses and finds the master. *)
MasterChanges ==
    /\ \/ master = "up" /\ faults < MaxFaults /\ faults' = faults + 1
          /\ master' = "down" /\ known' = {} /\ UNCHANGED isOnline
       \/ master = "down" /\ master' = "up" /\ UNCHANGED <<known, isOnline, faults>>
       \/ master = "up" /\ \E h \in Hosts : known' = known \cup {h}
          /\ UNCHANGED <<master, isOnline, faults>>
       \/ \E h \in known : known' = known \ {h} /\ UNCHANGED <<master, isOnline, faults>>
       \/ isOnline' = ~isOnline /\ UNCHANGED <<known, master, faults>>
    /\ lookup' = IF known \subseteq known' /\ isOnline' THEN lookup ELSE Unsteady
    /\ UNCHANGED <<located, location, locationClients, isGetting, getter>>
-----------------------------------------------------------------------------
(* The getter                                                                *)

Spawned(g) == [getter EXCEPT ![g] = "spawned"]

(* Every thirty seconds. *)
Periodic ==
    /\ \E g \in Getters : getter[g] = "none" /\ getter' = Spawned(g)
    /\ UNCHANGED <<isOnline, known, located, master, location, locationClients,
                   isGetting, lookup, faults>>

(* isGetting is tested under RLock and set under Lock. *)
TestGetting(g) ==
    /\ getter[g] = "spawned"
    /\ getter' = [getter EXCEPT ![g] = IF isGetting THEN "none" ELSE "tested"]
    /\ UNCHANGED isGetting

SetGetting(g) ==
    /\ getter[g] = "tested"
    /\ getter' = [getter EXCEPT ![g] = "loop"]
    /\ isGetting' = TRUE

MasterReached == isOnline /\ master = "up"

(* NodeIDGroup.Clients: a client of at least one of the location servers. *)
LocationReached == location # "down"

(* One round of the loop: the master names a location server and it is there.
   Any other round is repeated after a second. *)
FindLocation(g) ==
    /\ getter[g] = "loop"
    /\ MasterReached /\ LocationReached
    /\ getter' = [getter EXCEPT ![g] = "up"]
    /\ UNCHANGED isGetting

ResetForgotten(g) ==
    /\ getter[g] = "assigned"
    /\ getter' = [getter EXCEPT ![g] = "none"]
    /\ UNCHANGED isGetting

ResetGetting(g) ==
    /\ getter[g] = "assigned"
    /\ getter' = [getter EXCEPT ![g] = "none"]
    /\ isGetting' = FALSE

AssignClients(g) ==
    /\ getter[g] \in {"up", "dead"}
    /\ locationClients' = getter[g]
    /\ getter' = [getter EXCEPT ![g] = "assigned"]
    /\ UNCHANGED isGetting

GetterStep(g) ==
    /\ \/ /\ TestGetting(g) \/ SetGetting(g) \/ FindLocation(g) \/ ResetGetting(g)
          /\ UNCHANGED locationClients
       \/ AssignClients(g)
    /\ UNCHANGED <<isOnline, known, located, master, location, lookup, faults>>
-----------------------------------------------------------------------------
(* A lookup                                                                  *)

Returned(c, end, r) ==
    [lookup EXCEPT ![c].at = end, ![c].reply = r, ![c].client = "nil"]

(* GetNode and GetNodeGroup: the location servers are preferred. *)
GetNode(c, by) ==
    /\ lookup[c].at = "idle"
    /\ lookup' = [lookup EXCEPT ![c] =
         [at |-> IF locationClients = "nil" THEN "master" ELSE "location",
          by |-> by, client |-> locationClients, reply |-> {},
          steady |-> MasterReached /\ known # {}]]
    /\ UNCHANGED <<isOnline, known, located, master, location, locationClients,
                   isGetting, getter, faults>>

BrokenThen(c, at, panics) ==
    \E g \in Getters :
       /\ getter[g] = "none"
       /\ IF panics
            THEN LocationDown(Spawned(g), Returned(c, at, {}), "nil")
            ELSE /\ locationClients' = "nil" /\ getter' = Spawned(g)
                 /\ lookup' = Returned(c, at, {})
                 /\ UNCHANGED <<location, located>>

BrokenGivesUp(c, panics) == BrokenThen(c, "err", panics)

(* An error of the call, whatever it says: locationBroken, which forgets the
   clients and starts a getter, and the master is asked.  A panic of the query
   ended the location server. *)
Broken(c, panics) == BrokenThen(c, "master", panics)

(* NodeInquiry at the location server, which has no answer before its first
   sync, and at the master. *)
LocationAnswers(by) == IF location = "synced" THEN DoQuery(by, located) ELSE {Fails}

MasterAnswers(by) == DoQuery(by, known)

(* GetNodeFromLocation, GetNodeGroupFromLocation: the call fails, or the server
   answers. *)
AskLocation(c) ==
    /\ lookup[c].at = "location"
    /\ \/ Broken(c, FALSE)
       \/ /\ lookup[c].client = "up"
          /\ \E a \in LocationAnswers(lookup[c].by) :
                \/ /\ a.end = "ok" /\ lookup' = Returned(c, "ok", a.reply)
                   /\ UNCHANGED <<location, located, locationClients, getter>>
                \/ a.end # "ok" /\ Broken(c, a.end = "panic")
    /\ UNCHANGED <<isOnline, known, master, isGetting, faults>>

(* GetNodeFromMaster, GetNodeGroupFromMaster. *)
AskMaster(c) ==
    /\ lookup[c].at = "master"
    /\ \/ /\ ~MasterReached
          /\ lookup' = Returned(c, "err", {})
          /\ UNCHANGED <<master, known>>
       \/ /\ MasterReached
          /\ \E a \in MasterAnswers(lookup[c].by) :
                \/ a.end # "panic" /\ lookup' = Returned(c, a.end, a.reply)
                   /\ UNCHANGED <<master, known>>
                \/ /\ a.end = "panic"
                   /\ master' = "down" /\ known' = {}
                   /\ lookup' = [Unsteady EXCEPT ![c].at = "err"]
    /\ UNCHANGED <<isOnline, located, location, locationClients, isGetting,
                   getter, faults>>

Again(c) ==
    /\ lookup[c].at \in {"ok", "err"}
    /\ lookup' = [lookup EXCEPT ![c] = NoLookup]
    /\ UNCHANGED <<isOnline, known, located, master, location, locationClients,
                   isGetting, getter, faults>>

LookupStep(c) ==
    \/ \E by \in Selectors : GetNode(c, by)
    \/ AskLocation(c) \/ AskMaster(c) \/ Again(c)

LookupNext ==
    \/ LocationCrash \/ LocationStart \/ LocationSync \/ MasterChanges \/ Periodic
    \/ \E g \in Getters : GetterStep(g)
    \/ \E c \in Lookups : LookupStep(c)

LookupSpec == LookupInit /\ [][LookupNext]_lookupVars
-----------------------------------------------------------------------------
(* "The master is queried when the location servers do not exist or cannot be
   used" (NodeComponent.go:218): a lookup finds a node, whatever happens to the
   location server, if the master can be reached and nodes are registered there
   all along, its own inquiry not having brought the master down, unless it goes
   by a balancer, which may name a host of another role (Selector.go:62-112). *)
LookupFinds ==
    \A c \in Lookups :
       lookup[c].at = "err" /\ lookup[c].steady =>
          lookup[c].by \in {"Polling", "P2C", "ConstHashingBoundLoad"}

(* A node that lost its location server gets it back: a lookup that forgets the
   clients just before the running getter ends starts one that returns at once,
   and the getter of every thirty seconds makes up for it
   (NodeComponent.go:81-133). *)
LocationRegained ==
    <>[](location # "down" /\ master = "up" /\ isOnline)
       => []<>(locationClients = "up")
=============================================================================
