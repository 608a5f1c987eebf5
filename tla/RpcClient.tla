----------------------------- MODULE RpcClient -----------------------------
(***************************************************************************)
(* One hRpc connection: the TcpClient of hRpc/client.go, with the          *)
(* goroutines that share it, and the half of hRpc/server.go that answers   *)
(* it.                                                                     *)
(*                                                                         *)
(* Client goroutines: one per element of UserCalls, running Call,          *)
(* CallWait or CallWithoutReply once; `input`, which reads responses; the  *)
(* heartbeat, whose pings are Calls of its own; and the Closers, which run *)
(* Close.  A step is the code between two points at which another          *)
(* goroutine can be observed: the acquisition of a mutex, a read or write  *)
(* of the connection, a channel operation.                                 *)
(*                                                                         *)
(* The server reads requests in order (ServeCodec), runs each in its own   *)
(* goroutine (service.call) and writes responses in the order in which     *)
(* the methods return.                                                     *)
(***************************************************************************)
EXTENDS Naturals, Sequences, FiniteSets

CONSTANTS
    Timed,        \* calls made by Call: they give up after CallTimeout
    Waiting,      \* calls made by CallWait: they wait for as long as it takes
    OneWay,       \* calls made by CallWithoutReply
    Pings,        \* the Calls of the heartbeat (bounds its ticks)
    Rejected,     \* calls the server cannot dispatch: unknown service or method,
                  \*   or arguments that cannot be encoded or decoded
    Closers,      \* user goroutines that call Close
    MaxPing,      \* pingCount above which the heartbeat closes (3 in the code)
    DebugMode,    \* config.go: no heartbeat in debug mode
    Input, Heart, Nobody, NoCall

UserCalls == Timed \cup Waiting \cup OneWay
Calls     == UserCalls \cup Pings
Normal    == Calls \ OneWay          \* RPC_CALL_TYPE_NORMAL
CloseProcs == Closers \cup {Heart}
Procs     == Calls \cup Closers \cup {Input, Heart}

ASSUME CallsAssumption ==
    /\ Timed \cap (Waiting \cup OneWay \cup Pings) = {}
    /\ Waiting \cap (OneWay \cup Pings) = {}
    /\ OneWay \cap Pings = {}
    /\ Rejected \subseteq UserCalls
    /\ NoCall \notin Calls

ASSUME ProcsAssumption ==
    /\ Calls \cap (Closers \cup {Input, Heart}) = {}
    /\ Input \notin CloseProcs
    /\ Heart \notin Closers
    /\ Nobody \notin Procs

ASSUME BoundsAssumption == MaxPing \in Nat /\ DebugMode \in BOOLEAN

Errors == {"nil", "shutdown", "timeout", "server", "write", "eof", "read",
           "body"}

Pcs == {"idle", "isclosed", "lockreq", "register", "write", "unregister",
        "wait", "ret"}

VARIABLES
    mutex, reqMutex,     \* holders of TcpClient.mutex and .reqMutex
    closing, shutdown,   \* TcpClient.closing, .shutdown
    seq,                 \* TcpClient.seq
    reqSeq,              \* TcpClient.request.Seq, reused by every request
    pending,             \* TcpClient.pending: the entries [seq, call]
    pc, mySeq,           \* control and local `seq` of each call's goroutine
    err,                 \* Call.Error
    done,                \* number of done() on each call (Done holds only 1)
    from,                \* the call whose response completed this one
    ret,                 \* what Call/CallWait/CallWithoutReply returned
    inPc, inCall, inResp, inErr, \* input(): control, call and response in
                         \* hand, error that ends the loop
    heart, ping, pingCount, \* StartHeartBeat(): control, ping in hand, count
    closePc, closeRet,   \* Close(): control and result, per caller
    conn,                \* up, silent (half open), lost (read fails), closed
    serving,             \* ServeCodec is still reading requests
    c2s, s2c,            \* the two directions of the connection
    running              \* service.call goroutines

callVars   == <<pc, mySeq, err, done, from, ret>>
inVars     == <<inPc, inCall, inResp, inErr>>
heartVars  == <<heart, ping, pingCount>>
closeVars  == <<closePc, closeRet>>
stateVars  == <<closing, shutdown, seq, reqSeq, pending>>
lockVars   == <<mutex, reqMutex>>
serverVars == <<serving, running>>
vars == <<lockVars, stateVars, callVars, inVars, heartVars, closeVars, conn,
          serverVars, c2s, s2c>>

Message  == [seq : Nat, call : Calls]
Response == [seq : Nat, call : Calls, status : {"nil", "server"}]
NoResp   == [seq |-> 0, call |-> NoCall, status |-> "nil"]

(* NewClientWithConn: a fresh connection, `input` and the heartbeat started. *)
Init ==
    /\ mutex = Nobody /\ reqMutex = Nobody
    /\ closing = FALSE /\ shutdown = FALSE
    /\ seq = 0 /\ reqSeq = 0 /\ pending = {}
    /\ pc = [c \in Calls |-> "idle"]
    /\ mySeq = [c \in Calls |-> 0]
    /\ err = [c \in Calls |-> "nil"]
    /\ done = [c \in Calls |-> 0]
    /\ from = [c \in Calls |-> NoCall]
    /\ ret = [c \in Calls |-> "nil"]
    /\ inPc = "read" /\ inCall = NoCall /\ inResp = NoResp /\ inErr = "nil"
    /\ heart = (IF DebugMode THEN "ended" ELSE "select")
    /\ ping = NoCall /\ pingCount = 0
    /\ closePc = [p \in CloseProcs |-> "idle"]
    /\ closeRet = [p \in CloseProcs |-> "nil"]
    /\ conn = "up" /\ serving = TRUE
    /\ c2s = <<>> /\ s2c = <<>> /\ running = {}

-----------------------------------------------------------------------------
(* Call, CallWait and CallWithoutReply                                       *)

(* A user goroutine calls Call, CallWait or CallWithoutReply. *)
Begin(c) ==
    /\ c \in UserCalls /\ pc[c] = "idle"
    /\ pc' = [pc EXCEPT ![c] = "isclosed"]
    /\ UNCHANGED <<lockVars, stateVars, mySeq, err, done, from, ret, inVars,
                   heartVars, closeVars, conn, serverVars, c2s, s2c>>

(* IsClosed takes the mutex; a closed client answers ErrShutdown at once. *)
IsClosed(c) ==
    /\ pc[c] = "isclosed" /\ mutex = Nobody
    /\ IF closing \/ shutdown
         THEN /\ pc' = [pc EXCEPT ![c] = "ret"]
              /\ ret' = [ret EXCEPT ![c] = "shutdown"]
         ELSE /\ pc' = [pc EXCEPT ![c] = "lockreq"]
              /\ UNCHANGED ret
    /\ UNCHANGED <<lockVars, stateVars, mySeq, err, done, from, inVars,
                   heartVars, closeVars, conn, serverVars, c2s, s2c>>

(* send and sendWithoutReply hold reqMutex from here to their return. *)
LockReq(c) ==
    /\ pc[c] = "lockreq" /\ reqMutex = Nobody
    /\ reqMutex' = c
    /\ pc' = [pc EXCEPT ![c] = "register"]
    /\ UNCHANGED <<mutex, stateVars, mySeq, err, done, from, ret, inVars,
                   heartVars, closeVars, conn, serverVars, c2s, s2c>>

(* call.done() with call.Error = e. *)
Complete(c, e) ==
    /\ err' = [err EXCEPT ![c] = e]
    /\ done' = [done EXCEPT ![c] = @ + 1]

(* send: under mutex, refuse on a closed client, else enter pending.  `open`
   is the condition under which the call is accepted, `next` the new seq. *)
RegisterWhen(c, open, next) ==
    /\ c \in Normal /\ pc[c] = "register" /\ mutex = Nobody
    /\ IF open
         THEN /\ pending' = {p \in pending : p.seq # seq}
                              \cup {[seq |-> seq, call |-> c]}
              /\ mySeq' = [mySeq EXCEPT ![c] = seq]
              /\ reqSeq' = seq
              /\ seq' = next
              /\ pc' = [pc EXCEPT ![c] = "write"]
              /\ UNCHANGED <<reqMutex, err, done>>
         ELSE /\ Complete(c, "shutdown")
              /\ pc' = [pc EXCEPT ![c] = "wait"]
              /\ reqMutex' = Nobody
              /\ UNCHANGED <<pending, mySeq, reqSeq, seq>>
    /\ UNCHANGED <<mutex, closing, shutdown, from, ret, inVars, heartVars,
                   closeVars, conn, serverVars, c2s, s2c>>

RegisterUnchecked(c) == RegisterWhen(c, TRUE, seq + 1)
RegisterSameSeq(c)   == RegisterWhen(c, ~(shutdown \/ closing), seq)

Register(c) == RegisterWhen(c, ~(shutdown \/ closing), seq + 1)

(* sendWithoutReply reads the two flags without the mutex, enters nothing in
   pending, and leaves request.Seq as the previous request set it. *)
RegisterOneWay(c) ==
    /\ c \in OneWay /\ pc[c] = "register"
    /\ IF shutdown \/ closing
         THEN /\ Complete(c, "shutdown")
              /\ pc' = [pc EXCEPT ![c] = "wait"]
              /\ reqMutex' = Nobody
         ELSE /\ pc' = [pc EXCEPT ![c] = "write"]
              /\ UNCHANGED <<reqMutex, err, done>>
    /\ UNCHANGED <<mutex, stateVars, mySeq, from, ret, inVars, heartVars,
                   closeVars, conn, serverVars, c2s, s2c>>

(* WriteRequest succeeds: the request reaches the server, unless the peer is
   gone and the bytes die in a buffer.  A one-way call is done here. *)
Write(c) ==
    /\ pc[c] = "write" /\ conn # "closed"
    /\ \/ c2s' = Append(c2s, [seq |-> reqSeq, call |-> c]) /\ conn = "up"
       \/ UNCHANGED c2s /\ conn # "up"
    /\ IF c \in OneWay THEN Complete(c, "nil") ELSE UNCHANGED <<err, done>>
    /\ pc' = [pc EXCEPT ![c] = "wait"]
    /\ reqMutex' = Nobody
    /\ UNCHANGED <<mutex, stateVars, mySeq, from, ret, inVars, heartVars,
                   closeVars, conn, serverVars, s2c>>

(* WriteRequest fails, in whatever state the connection is: the arguments may
   not be encodable.  Part of the request may have been sent by then, so that
   the server answers it.  send goes on to take its call back out of pending;
   sendWithoutReply calls done() with the error and then, whatever happened,
   clears Error and calls done() again (Done is full: discarded). *)
WriteFails(c) ==
    /\ pc[c] = "write"
    /\ \/ UNCHANGED c2s
       \/ /\ conn = "up" /\ c \in Normal \cup Rejected
          /\ c2s' = Append(c2s, [seq |-> reqSeq, call |-> c])
    /\ IF c \in OneWay
         THEN /\ err' = [err EXCEPT ![c] = "nil"]
              /\ done' = [done EXCEPT ![c] = @ + 2]
              /\ pc' = [pc EXCEPT ![c] = "wait"]
              /\ reqMutex' = Nobody
              /\ mySeq' = mySeq
         ELSE /\ pc' = [pc EXCEPT ![c] = "unregister"]
              /\ UNCHANGED <<reqMutex, err, done, mySeq>>
    /\ UNCHANGED <<mutex, stateVars, from, ret, inVars, heartVars, closeVars,
                   conn, serverVars, s2c>>

(* send after a failed write: whoever holds pending[seq] completes the call. *)
Unregister(c) ==
    /\ pc[c] = "unregister" /\ mutex = Nobody
    /\ pending' = {p \in pending : p.seq # mySeq[c]}
    /\ IF \E p \in pending : p.seq = mySeq[c]
         THEN Complete(c, "write")
         ELSE UNCHANGED <<err, done>>
    /\ pc' = [pc EXCEPT ![c] = "wait"]
    /\ reqMutex' = Nobody
    /\ UNCHANGED <<mutex, closing, shutdown, seq, reqSeq, mySeq, from, ret,
                   inVars, heartVars, closeVars, conn, serverVars, c2s, s2c>>

(* The select of Call and the receive of CallWait and CallWithoutReply. *)
Return(c) ==
    /\ pc[c] = "wait" /\ done[c] > 0
    /\ pc' = [pc EXCEPT ![c] = "ret"]
    /\ ret' = [ret EXCEPT ![c] = err[c]]
    /\ UNCHANGED <<lockVars, stateVars, mySeq, err, done, from, inVars,
                   heartVars, closeVars, conn, serverVars, c2s, s2c>>

(* CallTimeout fires first.  The entry stays in pending. *)
Timeout(c) ==
    /\ c \in Timed \cup Pings /\ pc[c] = "wait"
    /\ pc' = [pc EXCEPT ![c] = "ret"]
    /\ ret' = [ret EXCEPT ![c] = "timeout"]
    /\ err' = [err EXCEPT ![c] = "timeout"]
    /\ UNCHANGED <<lockVars, stateVars, mySeq, done, from, inVars, heartVars,
                   closeVars, conn, serverVars, c2s, s2c>>

-----------------------------------------------------------------------------
(* input                                                                     *)

(* client.pending[s]: the call, or nil. *)
PendingAt(s, c) ==
    IF c = NoCall THEN \A p \in pending : p.seq # s
                  ELSE [seq |-> s, call |-> c] \in pending

(* Read a response header and take the call out of pending, under mutex. *)
InputHeader ==
    /\ inPc = "read" /\ conn # "closed" /\ s2c # <<>> /\ mutex = Nobody
    /\ \E c \in Calls \cup {NoCall} :
          PendingAt(Head(s2c).seq, c) /\ inCall' = c
    /\ pending' = {p \in pending : p.seq # Head(s2c).seq}
    /\ inResp' = Head(s2c)
    /\ s2c' = Tail(s2c)
    /\ inPc' = "body"
    /\ UNCHANGED <<lockVars, closing, shutdown, seq, reqSeq, callVars, inErr,
                   heartVars, closeVars, conn, serverVars, c2s>>

DeliverNoDone(e) ==
    IF inCall = NoCall \/ e = "server"
      THEN UNCHANGED <<err, done, from>>
      ELSE Complete(inCall, e) /\ from' = [from EXCEPT ![inCall] = inResp.call]

(* The three cases of the switch: give the response in hand, with status e,
   to its call, or drop it when there is none. *)
Deliver(e) ==
    IF inCall = NoCall
      THEN UNCHANGED <<err, done, from>>
      ELSE Complete(inCall, e) /\ from' = [from EXCEPT ![inCall] = inResp.call]

InputBody ==
    /\ inPc = "body" /\ conn # "closed"
    /\ Deliver(inResp.status)
    /\ inPc' = "read" /\ inCall' = NoCall /\ inResp' = NoResp
    /\ UNCHANGED <<lockVars, stateVars, pc, mySeq, ret, inErr, heartVars,
                   closeVars, conn, serverVars, c2s, s2c>>

(* The body cannot be read, or not decoded into the reply: an error response is
   still delivered as such, a reply becomes a "reading body" error, and the loop
   ends, whatever the state of the connection. *)
InputBodyFails ==
    /\ inPc = "body"
    /\ Deliver(IF inResp.status = "server" THEN "server" ELSE "body")
    /\ inPc' = "term" /\ inCall' = NoCall /\ inResp' = NoResp
    /\ inErr' = "body"
    /\ UNCHANGED <<lockVars, stateVars, pc, mySeq, ret, heartVars, closeVars,
                   conn, serverVars, c2s, s2c>>

(* The header cannot be read: io.EOF when the server hung up. *)
InputError ==
    /\ inPc = "read" /\ conn \in {"lost", "closed"}
    /\ inPc' = "term"
    /\ inErr' = (IF conn = "lost" THEN "eof" ELSE "read")
    /\ UNCHANGED <<lockVars, stateVars, callVars, inCall, inResp, heartVars,
                   closeVars, conn, serverVars, c2s, s2c>>

InputLockSkipped ==
    /\ inPc = "term"
    /\ inPc' = "term2"
    /\ UNCHANGED <<lockVars, stateVars, callVars, inCall, inResp, inErr,
                   heartVars, closeVars, conn, serverVars, c2s, s2c>>

InputLockReq ==
    /\ inPc = "term" /\ reqMutex = Nobody
    /\ reqMutex' = Input
    /\ inPc' = "term2"
    /\ UNCHANGED <<mutex, stateVars, callVars, inCall, inResp, inErr,
                   heartVars, closeVars, conn, serverVars, c2s, s2c>>

PendingCalls == {p.call : p \in pending}

(* Under both mutexes: shut down, and complete every pending call (the
   entries are not deleted). *)
TerminateAll(calls) ==
    /\ inPc = "term2" /\ mutex = Nobody
    /\ mutex' = Input
    /\ shutdown' = TRUE
    /\ LET e == IF inErr = "eof" /\ closing THEN "shutdown" ELSE inErr IN
         err' = [c \in Calls |-> IF c \in calls THEN e ELSE err[c]]
    /\ done' = [c \in Calls |-> IF c \in calls THEN done[c] + 1 ELSE done[c]]
    /\ inPc' = "callback"
    /\ UNCHANGED <<reqMutex, closing, seq, reqSeq, pending, pc, mySeq, from,
                   ret, inCall, inResp, inErr, heartVars, closeVars, conn,
                   serverVars, c2s, s2c>>

Terminate == TerminateAll(PendingCalls)

(* Callback("close", ...) returns; both mutexes were held during it. *)
CallbackReturns ==
    /\ inPc = "callback"
    /\ mutex' = Nobody
    /\ reqMutex' = (IF reqMutex = Input THEN Nobody ELSE reqMutex)
    /\ inPc' = "end"
    /\ UNCHANGED <<stateVars, callVars, inCall, inResp, inErr, heartVars,
                   closeVars, conn, serverVars, c2s, s2c>>

-----------------------------------------------------------------------------
(* StartHeartBeat and Close                                                  *)

(* The ticker fires: the next ping goes through Call like any other.  Pings are
   alike, so it is fixed which of those left is next. *)
HeartTick ==
    /\ heart = "select"
    /\ \E p \in Pings :
         /\ pc[p] = "idle" /\ p = CHOOSE q \in Pings : pc[q] = "idle"
         /\ pc' = [pc EXCEPT ![p] = "isclosed"]
         /\ ping' = p
    /\ heart' = "call"
    /\ UNCHANGED <<lockVars, stateVars, mySeq, err, done, from, ret, inVars,
                   pingCount, closeVars, conn, serverVars, c2s, s2c>>

(* Call returned: count consecutive failures, close above `limit`. *)
HeartResultAt(limit) ==
    /\ heart = "call" /\ pc[ping] = "ret"
    /\ ping' = NoCall
    /\ pingCount' = (IF ret[ping] = "nil" THEN 0 ELSE pingCount + 1)
    /\ heart' = (IF pingCount' > limit THEN "close" ELSE "select")
    /\ UNCHANGED <<lockVars, stateVars, callVars, inVars, closeVars, conn,
                   serverVars, c2s, s2c>>

HeartResultLenient == HeartResultAt(MaxPing + Cardinality(Pings))

HeartResult == HeartResultAt(MaxPing)

(* Close, first line: codec.Close. *)
CloseCodec(p) ==
    /\ closePc[p] = "idle" /\ (p = Heart => heart = "close")
    /\ closePc' = [closePc EXCEPT ![p] = "lock"]
    /\ conn' = "closed"
    /\ UNCHANGED <<lockVars, stateVars, callVars, inVars, heartVars, closeRet,
                   serverVars, c2s, s2c>>

(* Close takes the mutex; the first closer keeps it until the heartbeat has
   received from closeHeartbeat, later ones get ErrShutdown. *)
CloseLock(p) ==
    /\ closePc[p] = "lock" /\ mutex = Nobody
    /\ IF closing
         THEN /\ closePc' = [closePc EXCEPT ![p] = "ret"]
              /\ closeRet' = [closeRet EXCEPT ![p] = "shutdown"]
              /\ heart' = (IF p = Heart THEN "ended" ELSE heart)
              /\ UNCHANGED <<mutex, closing>>
         ELSE /\ closePc' = [closePc EXCEPT ![p] = "send"]
              /\ closing' = TRUE
              /\ mutex' = p
              /\ UNCHANGED <<closeRet, heart>>
    /\ UNCHANGED <<reqMutex, shutdown, seq, reqSeq, pending, callVars, inVars,
                   ping, pingCount, conn, serverVars, c2s, s2c>>

(* The rendezvous on closeHeartbeat: the heartbeat receives only in select. *)
CloseSend(p) ==
    /\ closePc[p] = "send" /\ heart = "select"
    /\ heart' = "ended"
    /\ closePc' = [closePc EXCEPT ![p] = "ret"]
    /\ mutex' = Nobody
    /\ UNCHANGED <<reqMutex, stateVars, callVars, inVars, ping, pingCount,
                   closeRet, conn, serverVars, c2s, s2c>>

-----------------------------------------------------------------------------
(* The server side of the connection, and the network                        *)

(* sendResponse: the header carries the Seq the request carried. *)
SendResponse(m, status) ==
    s2c' = IF conn = "up"
             THEN Append(s2c, [seq |-> m.seq, call |-> m.call,
                               status |-> status])
             ELSE s2c

(* ServeCodec reads a request.  One it cannot dispatch is answered at once,
   whatever its Type; the others get a goroutine. *)
ServeRead ==
    /\ serving /\ conn \in {"up", "closed"} /\ c2s # <<>>
    /\ c2s' = Tail(c2s)
    /\ IF Head(c2s).call \in Rejected
         THEN SendResponse(Head(c2s), "server") /\ UNCHANGED running
         ELSE running' = running \cup {Head(c2s)} /\ UNCHANGED s2c
    /\ UNCHANGED <<lockVars, stateVars, callVars, inVars, heartVars,
                   closeVars, conn, serving>>

(* service.call: the method returns nil or an error; only a normal request is
   answered. *)
ServiceCall(m, status) ==
    /\ m \in running
    /\ running' = running \ {m}
    /\ IF m.call \in OneWay THEN UNCHANGED s2c ELSE SendResponse(m, status)
    /\ UNCHANGED <<lockVars, stateVars, callVars, inVars, heartVars,
                   closeVars, conn, serving, c2s>>

(* readRequest fails (deadline, EOF, undecodable header): no more requests;
   the codec is closed once every service.call has finished. *)
ServeStop ==
    /\ serving
    /\ serving' = FALSE
    /\ UNCHANGED <<lockVars, stateVars, callVars, inVars, heartVars,
                   closeVars, conn, running, c2s, s2c>>

ServeClose ==
    /\ ~serving /\ running = {} /\ conn = "up"
    /\ conn' = "lost"
    /\ UNCHANGED <<lockVars, stateVars, callVars, inVars, heartVars,
                   closeVars, serverVars, c2s, s2c>>

(* The network or the server process fails: noticed (reset), or silently. *)
ConnLost ==
    /\ conn \in {"up", "silent"}
    /\ conn' = "lost"
    /\ UNCHANGED <<lockVars, stateVars, callVars, inVars, heartVars,
                   closeVars, serverVars, c2s, s2c>>

ConnSilent ==
    /\ conn = "up"
    /\ conn' = "silent"
    /\ UNCHANGED <<lockVars, stateVars, callVars, inVars, heartVars,
                   closeVars, serverVars, c2s, s2c>>

-----------------------------------------------------------------------------
CallStep(c) ==
    \/ IsClosed(c) \/ LockReq(c) \/ Register(c) \/ RegisterOneWay(c)
    \/ Write(c) \/ WriteFails(c) \/ Unregister(c) \/ Return(c) \/ Timeout(c)

InputStep ==
    \/ InputHeader \/ InputBody \/ InputBodyFails \/ InputError
    \/ InputLockReq \/ Terminate \/ CallbackReturns

HeartStep == HeartTick \/ HeartResult

CloseStep(p) == CloseCodec(p) \/ CloseLock(p) \/ CloseSend(p)

ServerStep ==
    \/ ServeRead
    \/ \E m \in running, s \in {"nil", "server"} : ServiceCall(m, s)
    \/ ServeClose

Next ==
    \/ \E c \in Calls : Begin(c) \/ CallStep(c)
    \/ InputStep
    \/ HeartStep
    \/ \E p \in CloseProcs : CloseStep(p)
    \/ ServerStep
    \/ ServeStop \/ ConnLost \/ ConnSilent

Spec == Init /\ [][Next]_vars

(* Every goroutine that can run does: the scheduler is fair, CallTimeout and
   the ticker fire, and service methods return.  No user has to call, nobody
   has to close, nothing has to fail. *)
FairSpec ==
    /\ Spec
    /\ \A c \in Calls : WF_vars(CallStep(c))
    /\ WF_vars(InputStep)
    /\ WF_vars(HeartStep)
    /\ \A p \in CloseProcs :
         WF_vars(closePc[p] # "idle" /\ CloseStep(p)) /\
         WF_vars(p = Heart /\ CloseStep(p))
    /\ WF_vars(ServerStep)
-----------------------------------------------------------------------------
(* Types.  The heartbeat never counts past MaxPing + 1: the step that reaches
   it goes on to Close (client.go:259-265). *)
FlagTypes == closing \in BOOLEAN /\ shutdown \in BOOLEAN /\ serving \in BOOLEAN

DataTypes ==
    /\ mutex \in Procs \cup {Nobody} /\ reqMutex \in Procs \cup {Nobody}
    /\ seq \in Nat /\ reqSeq \in Nat
    /\ pending \subseteq Message
    /\ pc \in [Calls -> Pcs] /\ mySeq \in [Calls -> Nat]
    /\ err \in [Calls -> Errors] /\ ret \in [Calls -> Errors]
    /\ done \in [Calls -> Nat]
    /\ from \in [Calls -> Calls \cup {NoCall}]
    /\ inPc \in {"read", "body", "term", "term2", "callback", "end"}
    /\ inCall \in Calls \cup {NoCall}
    /\ inResp \in Response \cup {NoResp}
    /\ inErr \in Errors
    /\ heart \in {"select", "call", "close", "ended"}
    /\ ping \in Pings \cup {NoCall}
    /\ pingCount \in 0 .. (MaxPing + 1)
    /\ heart \in {"select", "call"} => pingCount <= MaxPing
    /\ closePc \in [CloseProcs -> {"idle", "lock", "send", "ret"}]
    /\ closeRet \in [CloseProcs -> {"nil", "shutdown"}]
    /\ conn \in {"up", "silent", "lost", "closed"}
    /\ c2s \in Seq(Message) /\ s2c \in Seq(Response)
    /\ running \subseteq Message

TypeOK == FlagTypes /\ DataTypes

(* Every call that waits for a reply is completed at most once, although the
   writer whose write failed (client.go:120-127), `input` with a response
   (162-205) and `input` at the end (216-219) may all be after it: its Done
   channel, which holds one element, never discards (done(), 233-244). *)
CompletedOnce == \A c \in Normal : done[c] <= 1

(* No call is forgotten: one that waits and has not been completed is still in
   pending, where a response or the end of `input` finds it, or in the hands
   of `input`.  In particular once `input` has terminated the pending calls
   nobody waits for a completion that will not come (client.go:207-219). *)
NoCallForgotten ==
    \A c \in Normal :
       pc[c] = "wait" /\ done[c] = 0 =>
          /\ inPc \notin {"callback", "end"}
          /\ \/ \E p \in pending : p.call = c
             \/ inPc = "body" /\ inCall = c

(* A response goes to the call whose request it answers.  The one exception is
   the error response to a CallWithoutReply that the server could not
   dispatch: sendWithoutReply leaves request.Seq of the previous request in
   place (client.go:142-144), so that response carries the Seq of another
   call (server.go:400). *)
AnswersOwnCall ==
    \A c \in Calls :
       from[c] \notin {NoCall, c} => from[c] \in OneWay \cap Rejected

(* A Close that waits for the heartbeat keeps the mutex. *)
CloseHangs == \E p \in CloseProcs : closePc[p] = "send"

(* Every call returns, the pings of the heartbeat included, although the
   heartbeat or a user may close the connection under it,
   with two exceptions: a CallWait on a connection that stays half open; and any
   call when a Close, of the heartbeat itself for one, keeps the mutex for ever,
   so that IsClosed, send and the termination of the pending calls wait for it
   (client.go:92-119, 208-219, 264, 398-405; CloseReturns is about that Close). *)
CallsReturn ==
    \A c \in Calls :
       \/ pc[c] = "isclosed" ~> pc[c] = "ret"
       \/ c \in Waiting /\ <>[](conn = "silent")
       \/ <>[]CloseHangs

(* A half-open connection is noticed: with pings to come, one more than MaxPing,
   the heartbeat closes it, if nobody else does, whatever became of the pings
   before (client.go:246-268). *)
HalfOpenNoticed ==
    conn = "silent" /\ Cardinality({p \in Pings : pc[p] = "idle"}) > MaxPing
       ~> conn # "silent"

(* Close returns, with ErrShutdown or with the codec's error
   (client.go:394-407). *)
CloseReturns ==
    \A p \in CloseProcs : closePc[p] = "lock" ~> closePc[p] = "ret"
=============================================================================
