------------------------------ MODULE ActorCall ------------------------------
(***************************************************************************)
(* Calls of actor services (hActor): ActorServiceCaller with its cache,    *)
(* the registry of services and actors of ActorProxyComponent, and         *)
(* ActorProxyService at the other node.  One service name is modelled: it  *)
(* may be registered at the caller's node and at one remote node, which    *)
(* may restart, whereupon its actor has another ActorID.  What happens     *)
(* inside an actor is module Actor.                                        *)
(***************************************************************************)
EXTENDS Naturals, FiniteSets

CONSTANTS
    Registrants,  \* local actors that register the service
    MaxRestarts,  \* bound on the restarts of the remote node
    MaxCalls,     \* bound on the number of calls
    NoActor       \* no entry

Remote == 0 .. MaxRestarts   \* the remote actor, by the run of its node

ASSUME CallAssumption ==
    /\ IsFiniteSet(Registrants) /\ MaxRestarts \in Nat /\ MaxCalls \in Nat
    /\ Registrants \cap Nat = {} /\ NoActor \notin Registrants \cup Nat

VARIABLES
    service,     \* ActorProxyComponent.service of the caller's node
    actor,       \* per local actor: up, registering, registered, destroyed
    remote,      \* the run of the remote node, its service being registered
    remoteUp,    \* the remote node runs and can be reached
    services,    \* ActorServiceCaller.services: the actor it has for the name
    call,        \* the call: where it is, the actor it goes to, how often it
                 \*   was executed, the errors it met, and whether the remote
                 \*   node was there all along
    calls

callVars == <<service, actor, remote, remoteUp, services, call, calls>>

NoCall == [at |-> "idle", to |-> NoActor, executed |-> 0, errors |-> 0,
           steady |-> TRUE, trouble |-> FALSE]

CallInit ==
    /\ service = NoActor /\ actor = [r \in Registrants |-> "up"]
    /\ remote = 0 /\ remoteUp = TRUE
    /\ services = NoActor /\ call = NoCall /\ calls = 0
-----------------------------------------------------------------------------
(* The registry *)

(* RegisterService tests with Load and then does Store. *)
RegisterTest(r) ==
    /\ actor[r] = "up" /\ service = NoActor
    /\ actor' = [actor EXCEPT ![r] = "registering"]
    /\ UNCHANGED <<service, remote, remoteUp, services, call, calls>>

RegisterStore(r) ==
    /\ actor[r] = "registering"
    /\ actor' = [actor EXCEPT ![r] = "registered"]
    /\ service' = r
    /\ UNCHANGED <<remote, remoteUp, services, call, calls>>

UnregisterService ==
    /\ service # NoActor /\ service' = NoActor
    /\ UNCHANGED <<actor, remote, remoteUp, services, call, calls>>

(* ActorComponent.Destroy unregisters the actor, and not its services. *)
DestroyActor(r) ==
    /\ actor[r] = "registered"
    /\ actor' = [actor EXCEPT ![r] = "destroyed"]
    /\ UNCHANGED <<service, remote, remoteUp, services, call, calls>>

(* The remote node stops, and starts with new actors (GetUUID). *)
RemoteStops ==
    /\ remoteUp /\ remote < MaxRestarts
    /\ remoteUp' = FALSE /\ call' = [call EXCEPT !.steady = FALSE]
    /\ UNCHANGED <<service, actor, remote, services, calls>>

RemoteStarts ==
    /\ ~remoteUp
    /\ remoteUp' = TRUE /\ remote' = remote + 1
    /\ UNCHANGED <<service, actor, services, call, calls>>
-----------------------------------------------------------------------------
(* Calls *)

Call ==
    /\ call.at = "idle" /\ calls < MaxCalls
    /\ call' = [NoCall EXCEPT
         !.at = IF services = NoActor THEN "query" ELSE "cached",
         !.to = services, !.steady = remoteUp]
    /\ calls' = calls + 1
    /\ UNCHANGED <<service, actor, remote, remoteUp, services>>

(* The actor of an id, found at its node: LocalTell. *)
LocalTell(a) == a \in Registrants /\ actor[a] # "destroyed"

(* ActorProxyService.Tell at the remote node, which knows its own actor only. *)
RemoteTell(a) == a \in Remote /\ remoteUp /\ a = remote

(* Emit: to the local actor, or by GetNodeClient to the other node. *)
Reaches(a) == LocalTell(a) \/ RemoteTell(a)

(* ActorProxyService.ServiceInquiry: the actor registered at the remote node. *)
ServiceInquiry(a) == remoteUp /\ a = remote

(* Executed and answered; executed with an error, also of the handler or of a
   timeout; or not executed: inactive, no such actor, no connection. *)
ToldOk == Reaches(call.to) /\ call' = [call EXCEPT !.at = "ok", !.executed = @ + 1]

ToldErr(at) ==
    \/ /\ Reaches(call.to)
       /\ call' = [call EXCEPT !.at = at, !.executed = @ + 1, !.errors = @ + 1,
                               !.trouble = TRUE]
    \/ call' = [call EXCEPT !.at = at, !.errors = @ + 1,
                            !.trouble = @ \/ Reaches(call.to)]

CachedCallGivesUp ==
    /\ call.at = "cached"
    /\ \/ ToldOk /\ UNCHANGED services
       \/ ToldErr("err") /\ services' = NoActor
    /\ UNCHANGED <<service, actor, remote, remoteUp, calls>>

CachedCallAlwaysRetries ==
    /\ call.at = "cached"
    /\ \/ Reaches(call.to) /\ call' = [call EXCEPT !.at = "query", !.executed = @ + 1]
       \/ ToldErr("query")
    /\ services' = NoActor
    /\ UNCHANGED <<service, actor, remote, remoteUp, calls>>

(* Through the cache first; any error deletes the entry and queries again. *)
CachedCall ==
    /\ call.at = "cached"
    /\ \/ ToldOk /\ UNCHANGED services
       \/ ToldErr("query") /\ services' = NoActor
    /\ UNCHANGED <<service, actor, remote, remoteUp, calls>>

(* GetActorService: a local service is preferred, then ServiceInquiry at a node
   of the role.  GetRemoteActorService goes to the remote node at once. *)
GetActorService ==
    /\ call.at = "query"
    /\ \/ /\ service # NoActor
          /\ services' = service /\ call' = [call EXCEPT !.at = "fresh", !.to = service]
       \/ \E a \in Remote :
             /\ ServiceInquiry(a)
             /\ services' = a /\ call' = [call EXCEPT !.at = "fresh", !.to = a]
       \/ /\ call' = [call EXCEPT !.at = "err", !.errors = @ + 1,
                                  !.trouble = @ \/ remoteUp]
          /\ UNCHANGED services
    /\ UNCHANGED <<service, actor, remote, remoteUp, calls>>

FreshCall ==
    /\ call.at = "fresh"
    /\ \/ ToldOk /\ UNCHANGED services
       \/ ToldErr("err") /\ services' = NoActor
    /\ UNCHANGED <<service, actor, remote, remoteUp, calls>>

CallReturns ==
    /\ call.at \in {"ok", "err"}
    /\ call' = NoCall
    /\ UNCHANGED <<service, actor, remote, remoteUp, services, calls>>

CallNext ==
    \/ \E r \in Registrants : RegisterTest(r) \/ RegisterStore(r) \/ DestroyActor(r)
    \/ UnregisterService \/ RemoteStops \/ RemoteStarts
    \/ Call \/ CachedCall \/ GetActorService \/ FreshCall \/ CallReturns

CallSpec == CallInit /\ [][CallNext]_callVars
-----------------------------------------------------------------------------
(* "No cache, or the call through the cache failed: query again and call"
   (ActorServiceCaller.go:45): a call survives the restart of the node whose
   actor it had cached.  If the remote node is there all along and no reachable
   actor or node fails to answer, it fails only where a local actor that was
   destroyed is still registered for the service. *)
CallHeals ==
    call.at = "err" /\ call.steady /\ ~call.trouble =>
       call.to \in Registrants /\ actor[call.to] = "destroyed"

(* A call is executed a second time only after the first was answered with an
   error, never more often, and an answered call was executed
   (ActorServiceCaller.go:33-55). *)
ExecutedOnce ==
    /\ call.executed <= 1 + call.errors /\ call.executed <= 2
    /\ call.at = "ok" => call.executed >= 1
=============================================================================
