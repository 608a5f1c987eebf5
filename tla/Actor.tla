------------------------------- MODULE Actor --------------------------------
(***************************************************************************)
(* One actor: ActorComponent (hActor/ActorComponent.go) with its bounded   *)
(* mailbox queueReceive, its dispatcher, the handlers of its messages and  *)
(* the goroutines that Tell it something, one per message.                 *)
(***************************************************************************)
EXTENDS Naturals, Sequences, FiniteSets, SequencesExt

CONSTANTS
    Ask,         \* Tell with a reply: gives up after RpcCallTimeout
    AskWait,     \* Tell with a reply and IsWaitCall: waits for ever
    Post,        \* Tell without a reply
    MaxHandlers, \* bounds the components of the actor's object that handle a
                 \*   message
    Cap,         \* capacity of queueReceive (20)
    Modes,       \* the possible values of `sync`
    NoMsg

Msgs      == Ask \cup AskWait \cup Post
NeedReply == Ask \cup AskWait

ASSUME ActorAssumption ==
    /\ Ask \cap AskWait = {} /\ NeedReply \cap Post = {}
    /\ NoMsg \notin Msgs
    /\ Cap \in Nat \ {0} /\ MaxHandlers \in Nat /\ Modes \subseteq BOOLEAN

VARIABLES
    sync,        \* ActorType is ACTOR_TYPE_SYNC: the dispatcher handles
                 \*   messages itself
    active,      \* ActorComponent.active
    queue,       \* contents of queueReceive
    closed,      \* queueReceive is closed
    dispatch,    \* the dispatcher: select, end
    inHand,      \* the message a Sync dispatcher is handling
    handler,     \* per message, its handle: none, run, reply (blocked on done),
                 \*   end
    called,      \* per message: how many handlers have been called
    isDone,      \* the messages with ActorMessageInfo.isDone
    tell,        \* per message, its Tell: idle, send, await, read, ret
    err,         \* ActorMessageInfo.err
    result,      \* what Tell returned
    destroy,     \* Destroy: idle, signal, unregister, end
    registered,  \* the actor is in ActorProxyComponent.localActors
    accepted,    \* messages put in the queue, in order
    handled      \* messages a Sync actor is through with, in order

tellVars == <<tell, err, result>>
handleVars == <<handler, called, isDone, handled>>
vars == <<active, queue, closed, dispatch, inHand, handleVars, tellVars,
          destroy, registered, accepted, sync>>

(* Initialize: registered, the dispatcher started, active. *)
Init ==
    /\ sync \in Modes
    /\ active = TRUE /\ queue = <<>> /\ closed = FALSE
    /\ dispatch = "select" /\ inHand = NoMsg
    /\ handler = [m \in Msgs |-> "none"]
    /\ tell = [m \in Msgs |-> "idle"]
    /\ err = [m \in Msgs |-> "nil"]
    /\ result = [m \in Msgs |-> "none"]
    /\ destroy = "idle" /\ registered = TRUE
    /\ called = [m \in Msgs |-> 0] /\ isDone = {}
    /\ accepted = <<>> /\ handled = <<>>
-----------------------------------------------------------------------------
(* Tell                                                                      *)

Return(m, r) ==
    /\ tell' = [tell EXCEPT ![m] = "ret"]
    /\ result' = [result EXCEPT ![m] = r]
    /\ UNCHANGED err

(* `active` is read atomically, and acted upon later. *)
TellCheck(m) ==
    /\ tell[m] = "idle"
    /\ IF active THEN /\ tell' = [tell EXCEPT ![m] = "send"]
                      /\ UNCHANGED <<err, result>>
                 ELSE Return(m, "inactive")
    /\ UNCHANGED <<active, queue, closed, dispatch, inHand, handleVars, destroy,
                   registered, accepted, sync>>

(* A send on queueReceive blocks while the buffer is full. *)
Room == Len(queue) < Cap

TellSendTo(m, waits) ==
    /\ tell[m] = "send" /\ ~closed /\ Room
    /\ queue' = Append(queue, m)
    /\ accepted' = Append(accepted, m)
    /\ IF waits
         THEN tell' = [tell EXCEPT ![m] = "await"] /\ UNCHANGED <<err, result>>
         ELSE Return(m, "nil")
    /\ UNCHANGED <<active, closed, dispatch, inHand, handleVars, destroy,
                   registered, sync>>

TellSendNoWait(m) == TellSendTo(m, FALSE)

(* queueReceive <- messageInfo, once there is room.  A Tell that wants no
   reply returns. *)
TellSend(m) == TellSendTo(m, m \in NeedReply)

(* The channel was closed meanwhile: sending on it panics, also in a sender
   that was blocked. *)
TellPanics(m) ==
    /\ tell[m] = "send" /\ closed
    /\ Return(m, "panic")
    /\ UNCHANGED <<active, queue, closed, dispatch, inHand, handleVars, destroy,
                   registered, accepted, sync>>

TellTimeoutWhen(m, expired) ==
    /\ m \in Ask /\ tell[m] = "await" /\ expired
    /\ tell' = [tell EXCEPT ![m] = "read"]
    /\ err' = [err EXCEPT ![m] = "timeout"]
    /\ UNCHANGED result
    /\ UNCHANGED <<active, queue, closed, dispatch, inHand, handleVars, destroy,
                   registered, accepted, sync>>

TellTimeoutQueued(m) == TellTimeoutWhen(m, handler[m] = "none")

(* RpcCallTimeout passes: the message stays where it is. *)
TellTimeout(m) == TellTimeoutWhen(m, TRUE)

(* return messageInfo.err, which a handler may have written meanwhile. *)
TellReturn(m) ==
    /\ tell[m] = "read"
    /\ Return(m, err[m])
    /\ UNCHANGED <<active, queue, closed, dispatch, inHand, handleVars, destroy,
                   registered, accepted, sync>>
-----------------------------------------------------------------------------
(* dispatch                                                                  *)

(* A Sync dispatcher is back in its select when the handler has returned. *)
Selecting ==
    /\ dispatch = "select"
    /\ sync /\ inHand # NoMsg => handler[inHand] = "end"

(* It receives from `close`: inactive, queueReceive closed, and on with it. *)
DispatchClose ==
    /\ Selecting /\ destroy = "signal"
    /\ active' = FALSE
    /\ closed' = TRUE
    /\ destroy' = "unregister"
    /\ UNCHANGED <<queue, dispatch, inHand, handleVars, tellVars, registered,
                   accepted, sync>>

DispatchTo(hand) ==
    /\ Selecting /\ queue # <<>>
    /\ queue' = Tail(queue)
    /\ inHand' = hand
    /\ handler' = [handler EXCEPT ![Head(queue)] = "run"]
    /\ UNCHANGED <<active, closed, dispatch, called, isDone, handled, tellVars,
                   destroy, registered, accepted, sync>>

DispatchMessageGo == DispatchTo(NoMsg)

(* It receives a message, also after the close, and calls handle: itself in a
   Sync actor, else in a goroutine of its own. *)
DispatchMessage == DispatchTo(IF sync THEN Head(queue) ELSE NoMsg)

DispatchEndWhen(drained) ==
    /\ Selecting /\ closed /\ drained
    /\ dispatch' = "end"
    /\ UNCHANGED <<active, queue, closed, inHand, handleVars, tellVars,
                   destroy, registered, accepted, sync>>

DispatchEndEarly == DispatchEndWhen(TRUE)

(* It finds the channel closed and empty. *)
DispatchEnd == DispatchEndWhen(queue = <<>>)

(* Catch: the next of the components that handle m returns e, or panics.  An
   error is written to the message, and a reply is due to whoever wants it,
   unless an earlier handler's was received. *)
HandlerReturns(m, e) ==
    /\ handler[m] = "run" /\ called[m] < MaxHandlers
    /\ called' = [called EXCEPT ![m] = @ + 1]
    /\ err' = [err EXCEPT ![m] = IF e = "nil" THEN @ ELSE e]
    /\ handler' = [handler EXCEPT ![m] =
                     IF m \in NeedReply \ isDone THEN "reply" ELSE "run"]
    /\ UNCHANGED <<active, queue, closed, dispatch, inHand, isDone, handled, tell,
                   result, destroy, registered, accepted, sync>>

(* replySuccess or replyError: a send on the unbuffered `done`, which only a
   Tell that still waits receives. *)
Reply(m) ==
    /\ handler[m] = "reply" /\ tell[m] = "await"
    /\ handler' = [handler EXCEPT ![m] = "run"]
    /\ isDone' = isDone \cup {m}
    /\ tell' = [tell EXCEPT ![m] = "read"]
    /\ UNCHANGED <<active, queue, closed, dispatch, inHand, called, handled, err,
                   result, destroy, registered, accepted, sync>>

(* handle has been through all components; there may be none with a handler. *)
HandleEnds(m) ==
    /\ handler[m] = "run"
    /\ handler' = [handler EXCEPT ![m] = "end"]
    /\ handled' = IF sync THEN Append(handled, m) ELSE handled
    /\ UNCHANGED <<active, queue, closed, dispatch, inHand, called, isDone, tellVars,
                   destroy, registered, accepted, sync>>
-----------------------------------------------------------------------------
(* Destroy: close <- true, then Proxy.Unregister                             *)

Destroy ==
    /\ destroy = "idle"
    /\ destroy' = "signal"
    /\ UNCHANGED <<active, queue, closed, dispatch, inHand, handleVars, tellVars, registered, accepted, sync>>

UnregisterWhen(allowed) ==
    /\ destroy = "unregister" /\ allowed
    /\ registered' = FALSE
    /\ destroy' = "end"
    /\ UNCHANGED <<active, queue, closed, dispatch, inHand, handleVars, tellVars, accepted, sync>>

(* Proxy.Unregister removes the actor from localActors. *)
Unregister == UnregisterWhen(TRUE)
-----------------------------------------------------------------------------
TellStep(m) ==
    TellSend(m) \/ TellPanics(m) \/ TellTimeout(m) \/ TellReturn(m)

HandlerStep(m) ==
    \/ \E e \in {"nil", "error"} : HandlerReturns(m, e)
    \/ Reply(m) \/ HandleEnds(m)

Next ==
    \/ \E m \in Msgs : TellCheck(m) \/ TellStep(m) \/ HandlerStep(m)
    \/ DispatchClose \/ DispatchMessage \/ DispatchEnd
    \/ Destroy \/ Unregister

Spec == Init /\ [][Next]_vars

(* Goroutines that can run do, handlers return, timers fire, and the select of
   the dispatcher does not ignore the close signal for ever. *)
FairSpec ==
    /\ Spec
    /\ \A m \in Msgs : WF_vars(TellStep(m)) /\ WF_vars(HandlerStep(m))
    /\ SF_vars(DispatchClose) /\ WF_vars(DispatchMessage)
    /\ WF_vars(DispatchEnd) /\ WF_vars(Unregister)
-----------------------------------------------------------------------------
(* Types. *)
TypeOK ==
    /\ sync \in BOOLEAN
    /\ active \in BOOLEAN /\ closed \in BOOLEAN /\ registered \in BOOLEAN
    /\ queue \in Seq(Msgs) /\ Len(queue) <= Cap
    /\ accepted \in Seq(Msgs) /\ handled \in Seq(Msgs)
    /\ dispatch \in {"select", "end"}
    /\ inHand \in Msgs \cup {NoMsg}
    /\ handler \in [Msgs -> {"none", "run", "reply", "end"}]
    /\ called \in [Msgs -> 0 .. MaxHandlers] /\ isDone \subseteq Msgs
    /\ tell \in [Msgs -> {"idle", "send", "await", "read", "ret"}]
    /\ err \in [Msgs -> {"nil", "error", "timeout"}]
    /\ result \in [Msgs -> {"none", "nil", "error", "inactive", "panic",
                            "timeout"}]
    /\ destroy \in {"idle", "signal", "unregister", "end"}

(* What a Sync actor has begun to handle, in order: what it is through with, and
   what its dispatcher has in hand. *)
Begun ==
    IF inHand # NoMsg /\ handler[inHand] # "end" THEN Append(handled, inHand)
                                                 ELSE handled

(* A Sync actor is through with one message before it begins the next, in the
   order in which they were accepted, whatever senders, timeouts and Destroy do
   meanwhile: the order in which its handlers end, followed by the one that is
   running and by the mailbox, is the order of acceptance
   (ActorComponent.go:115, 139-175). *)
SyncInOrder == sync => accepted = Begun \o queue

(* A dispatcher that has ended left no message behind, "will go on to handle
   the remaining messages after the close signal" (ActorComponent.go:147). *)
DrainedAtEnd == dispatch = "end" => queue = <<>> /\ ~active

(* A Sync actor handles one message at a time (ActorComponent.go:153-154). *)
OneAtATime ==
    sync => \A m, n \in Msgs :
               handler[m] \in {"run", "reply"} /\ handler[n] \in {"run", "reply"}
                  => m = n

(* A Tell that wants a reply tells the truth about it, although its timeout and
   every handler write messageInfo.err: nil means that a handler has answered, a
   handler's error that one was called, and a Tell that was answered never
   reports a timeout (ActorComponent.go:117-128, 164-197). *)
ReplyTruthful ==
    \A m \in NeedReply :
       /\ result[m] = "nil" => m \in isDone
       /\ result[m] = "error" => called[m] > 0
       /\ m \in isDone => result[m] # "timeout"

(* A Sync dispatcher replies to a Tell that has timed out: it stays in that
   send for ever (ActorMessageInfo.go:48-61). *)
Stuck ==
    /\ sync /\ inHand # NoMsg
    /\ handler[inHand] = "reply" /\ tell[inHand] \in {"read", "ret"}

(* Every message whose Tell found the actor active is handled, also across
   Destroy, or its Tell panics on the closed channel, or the dispatcher is
   stuck (ActorComponent.go:115, 139-162). *)
AcceptedIsHandled ==
    \A m \in Msgs :
       tell[m] = "send" ~> handler[m] # "none" \/ result[m] = "panic" \/ Stuck

(* A Tell with a timeout returns, with the same exception: while it waits for
   room it has no timeout. *)
AsksReturn == \A m \in Ask : tell[m] = "send" ~> tell[m] = "ret" \/ Stuck
=============================================================================
