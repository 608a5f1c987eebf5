-------------------------- MODULE RpcClientProofs ---------------------------
(***************************************************************************)
(* Proofs about module RpcClient, for any number of calls, pings and       *)
(* closers: every call that waits for a reply is completed at most once,   *)
(* and none is forgotten.                                                  *)
(***************************************************************************)
EXTENDS RpcClient, QueueLemmas, TLAPS

(* The types of what the argument is about. *)
Types ==
    /\ mutex \in Procs \cup {Nobody} /\ reqMutex \in Procs \cup {Nobody}
    /\ seq \in Nat /\ pending \subseteq Message
    /\ pc \in [Calls -> Pcs] /\ mySeq \in [Calls -> Nat]
    /\ done \in [Calls -> Nat]
    /\ inPc \in {"read", "body", "term", "term2", "callback", "end"}
    /\ inCall \in Calls \cup {NoCall}
    /\ closePc \in [CloseProcs -> {"idle", "lock", "send", "ret"}]

(* Who holds which mutex: the one fact the rest is built on.  `input` holds
   both while it terminates the pending calls. *)
Holders ==
    /\ \A c \in Calls : pc[c] \in {"register", "write", "unregister"} <=> reqMutex = c
    /\ inPc \in {"term2", "callback"} <=> reqMutex = Input
    /\ inPc = "callback" <=> mutex = Input
    /\ \A p \in CloseProcs : closePc[p] = "send" <=> mutex = p

Unborn == {"idle", "isclosed", "lockreq", "register"}
Terminated == inPc \in {"callback", "end"}

(* pending is a partial injection from Seqs to calls that have been sent. *)
PendingInv ==
    /\ \A p \in pending :
          /\ p.seq < seq /\ p.call \in Normal /\ mySeq[p.call] = p.seq
          /\ pc[p.call] \notin Unborn
          /\ ~Terminated => done[p.call] = 0
    /\ \A p, q \in pending : p.seq = q.seq => p = q

(* The call in the hand of `input` is no longer in pending. *)
HandInv ==
    /\ inPc # "body" => inCall = NoCall
    /\ inCall # NoCall =>
          /\ inCall \in Normal /\ pc[inCall] \notin Unborn
          /\ done[inCall] = 0
          /\ \A p \in pending : p.call # inCall

(* A call that is being written owns its Seq, and `input` has not terminated. *)
WriterInv ==
    /\ Terminated => shutdown
    /\ \A c \in Normal :
          pc[c] \in {"write", "unregister"} =>
             /\ ~Terminated
             /\ \A p \in pending : p.seq = mySeq[c] => p.call = c
    /\ \A c \in Calls : pc[c] = "unregister" => c \in Normal

InHands(c) == (\E p \in pending : p.call = c) \/ inCall = c

(* Where the completion of a call stands. *)
DoneInv ==
    \A c \in Normal :
       /\ done[c] <= 1
       /\ pc[c] \in Unborn => done[c] = 0
       /\ pc[c] \in {"write", "unregister", "wait"} /\ done[c] = 0 =>
             ~Terminated /\ InHands(c)

CallInv ==
    Types /\ Holders /\ PendingInv /\ HandInv /\ WriterInv /\ DoneInv

(* What CallInv is about. *)
callInvVars ==
    <<mutex, reqMutex, shutdown, seq, pending, pc, mySeq, done, inPc, inCall,
      closePc>>
-----------------------------------------------------------------------------
LEMMA Disjoint ==
  /\ NoCall \notin Calls /\ Normal \subseteq Calls
  /\ \A c \in Calls : c # Input /\ c # Nobody /\ c \notin CloseProcs
  /\ Input # Nobody /\ Input \notin CloseProcs /\ Nobody \notin CloseProcs
  /\ \A c \in Calls : c \in Procs
  /\ Input \in Procs
  /\ \A p \in CloseProcs : p \in Procs
  BY CallsAssumption, ProcsAssumption DEF Procs, CloseProcs, Normal

LEMMA InitCall == Init => CallInv
  <1> SUFFICES ASSUME Init PROVE CallInv
    OBVIOUS
  <1> USE Disjoint DEF Init
  <1>1. Types
    BY DEF Types, Pcs
  <1>2. Holders
    BY DEF Holders
  <1>3. PendingInv /\ HandInv /\ WriterInv
    BY DEF PendingInv, HandInv, WriterInv, Terminated
  <1>4. DoneInv
    BY DEF DoneInv, Unborn
  <1> QED BY <1>1, <1>2, <1>3, <1>4 DEF CallInv

(* Steps that change nothing the invariant speaks of. *)
LEMMA FrameCall ==
  ASSUME CallInv, UNCHANGED callInvVars
  PROVE  CallInv'
  BY DEF CallInv, callInvVars, Types, Holders, PendingInv, HandInv, WriterInv,
         DoneInv, InHands, Terminated

(* Steps of a call's goroutine that only move its pc, without the mutexes. *)
LEMMA MoveCall ==
  ASSUME CallInv, NEW c \in Calls, NEW to \in Pcs,
         pc' = [pc EXCEPT ![c] = to],
         UNCHANGED <<mutex, reqMutex, shutdown, seq, pending, mySeq, done,
                     inPc, inCall, closePc>>,
         \/ pc[c] \in {"idle", "isclosed"} /\ to \in {"isclosed", "lockreq"}
         \/ pc[c] \in {"isclosed", "wait"} /\ to = "ret"
  PROVE  CallInv'
  <1> USE DEF CallInv
  <1>1. Types'
    BY DEF Types
  <1>2. Holders'
    BY DEF Holders, Types
  <1>3. PendingInv' /\ HandInv' /\ WriterInv'
    BY Disjoint DEF PendingInv, HandInv, WriterInv, Unborn, Terminated, Types, Message
  <1>4. DoneInv'
    BY Disjoint DEF DoneInv, InHands, Unborn, Terminated, Types
  <1> QED BY <1>1, <1>2, <1>3, <1>4

(* A call's goroutine takes reqMutex, or gives it back in state "wait" (with
   `n` completions more) or goes on with it. *)
LEMMA LockReqCall ==
  ASSUME CallInv, NEW c \in Calls, LockReq(c)
  PROVE  CallInv'
  <1> USE Disjoint DEF CallInv, LockReq, stateVars, inVars, closeVars
  <1>1. Types'
    BY DEF Types, Pcs
  <1>2. Holders'
    BY DEF Holders, Types
  <1>3. PendingInv' /\ HandInv' /\ WriterInv'
    BY DEF PendingInv, HandInv, WriterInv, Unborn, Terminated, Types, Message
  <1>4. DoneInv'
    BY DEF DoneInv, InHands, Unborn, Terminated, Types
  <1> QED BY <1>1, <1>2, <1>3, <1>4

LEMMA RegisterCall ==
  ASSUME CallInv, NEW c \in Calls, Register(c)
  PROVE  CallInv'
  <1> USE Disjoint DEF CallInv, Register, RegisterWhen, inVars, closeVars
  <1>0. /\ c \in Normal /\ pc[c] = "register" /\ mutex = Nobody
        /\ UNCHANGED <<mutex, shutdown, inPc, inCall, closePc>>
    OBVIOUS
  <1>1. CASE ~(shutdown \/ closing)
    <2> DEFINE e == [seq |-> seq, call |-> c]
    <2>1. /\ pending' = {p \in pending : p.seq # seq} \cup {e}
          /\ mySeq' = [mySeq EXCEPT ![c] = seq] /\ seq' = seq + 1
          /\ pc' = [pc EXCEPT ![c] = "write"]
          /\ UNCHANGED <<reqMutex, done>>
      BY <1>1
    <2>2. pending' = pending \cup {e} /\ e \in Message /\ e.seq = seq /\ e.call = c
      BY <2>1 DEF PendingInv, Types, Message
    <2> HIDE DEF e
    <2>3. \A p \in pending : p.call # c /\ p.seq < seq /\ p.call \in Calls /\ p.seq \in Nat
      BY <1>0 DEF PendingInv, Unborn, Types, Message
    <2>4. ~Terminated /\ done[c] = 0 /\ inCall # c /\ ~Terminated'
      BY <1>0, <1>1 DEF WriterInv, DoneInv, HandInv, Unborn, Terminated
    <2>5. Types'
      BY <2>1, <2>2, <1>0 DEF Types, Pcs
    <2>6. Holders'
      BY <2>1, <1>0 DEF Holders, Types
    <2>7. PendingInv'
      <3>1. ASSUME NEW p \in pending'
            PROVE  /\ p.seq < seq' /\ p.call \in Normal /\ mySeq'[p.call] = p.seq
                   /\ pc'[p.call] \notin Unborn /\ done'[p.call] = 0
        <4>1. CASE p = e
          BY <4>1, <1>0, <2>1, <2>2, <2>4 DEF Types, Unborn
        <4>2. CASE p \in pending
          BY <4>2, <2>1, <2>3, <2>4 DEF PendingInv, Types
        <4> QED BY <2>2, <4>1, <4>2
      <3>2. \A p, q \in pending' : p.seq = q.seq => p = q
        BY <2>2, <2>3 DEF PendingInv, Types
      <3> QED BY <3>1, <3>2 DEF PendingInv
    <2>8. HandInv'
      BY <1>0, <2>1, <2>2, <2>4 DEF HandInv, Types
    <2>9. WriterInv'
      <3>1. \A d \in Normal : pc'[d] \in {"write", "unregister"} => d = c
        BY <1>0, <2>1 DEF Holders, Types
      <3>2. \A p \in pending' : p.seq = mySeq'[c] => p.call = c
        BY <2>1, <2>2, <2>3, <1>0 DEF Types
      <3>3. \A d \in Calls : pc'[d] = "unregister" => d \in Normal
        BY <1>0, <2>1 DEF WriterInv, Types
      <3> QED BY <3>1, <3>2, <3>3, <2>4 DEF WriterInv
    <2>10. DoneInv'
      BY <1>0, <2>1, <2>2, <2>4 DEF DoneInv, InHands, Terminated, Unborn, Types
    <2> QED BY <2>5, <2>6, <2>7, <2>8, <2>9, <2>10
  <1>2. CASE shutdown \/ closing
    <2>1. /\ done' = [done EXCEPT ![c] = @ + 1] /\ pc' = [pc EXCEPT ![c] = "wait"]
          /\ reqMutex' = Nobody /\ UNCHANGED <<pending, mySeq, seq>>
      BY <1>2 DEF Complete
    <2>2. /\ done[c] = 0 /\ inCall # c
          /\ \A p \in pending : p.call # c /\ p.call \in Calls
      BY <1>0 DEF DoneInv, HandInv, PendingInv, Unborn, Types, Message
    <2>3. Types'
      BY <1>0, <2>1 DEF Types, Pcs
    <2>4. Holders'
      BY <1>0, <2>1 DEF Holders, Types
    <2>5. PendingInv' /\ HandInv' /\ WriterInv'
      BY <1>0, <2>1, <2>2 DEF PendingInv, HandInv, WriterInv, Terminated, Unborn, Types
    <2>6. DoneInv'
      BY <1>0, <2>1, <2>2 DEF DoneInv, InHands, Terminated, Unborn, Types
    <2> QED BY <2>3, <2>4, <2>5, <2>6
  <1> QED BY <1>1, <1>2

(* A one-way call leaves pending alone and its completions are not counted. *)
LEMMA OneWayCall ==
  ASSUME CallInv, NEW c \in OneWay,
         RegisterOneWay(c) \/ Write(c) \/ WriteFails(c)
  PROVE  CallInv'
  <1> USE Disjoint DEF CallInv
  <1>0. c \in Calls /\ c \notin Normal
    BY DEF Calls, UserCalls, Normal
  <1>1. /\ pc[c] \in {"register", "write"}
        /\ UNCHANGED <<mutex, shutdown, seq, pending, mySeq, inPc, inCall, closePc>>
        /\ \A d \in Calls : d # c => done'[d] = done[d]
        /\ done' \in [Calls -> Nat]
    <2>1. /\ pc[c] \in {"register", "write"}
          /\ UNCHANGED <<mutex, shutdown, seq, pending, mySeq, inPc, inCall,
                         closePc>>
      BY <1>0 DEF RegisterOneWay, Write, WriteFails, stateVars, inVars, closeVars
    <2>2. \E n \in Nat : done' = [done EXCEPT ![c] = n]
      <3>1. done[c] \in Nat /\ done = [done EXCEPT ![c] = done[c]]
        BY <1>0 DEF Types
      <3>2. \/ done' = done
            \/ done' = [done EXCEPT ![c] = done[c] + 1]
            \/ done' = [done EXCEPT ![c] = done[c] + 2]
        <4>1. CASE RegisterOneWay(c)
          BY <4>1, <1>0 DEF RegisterOneWay, Complete
        <4>2. CASE Write(c)
          BY <4>2, <1>0 DEF Write, Complete
        <4>3. CASE WriteFails(c)
          BY <4>3, <1>0 DEF WriteFails
        <4> QED BY <4>1, <4>2, <4>3
      <3>3. done[c] + 1 \in Nat /\ done[c] + 2 \in Nat
        BY <3>1
      <3> HIDE DEF CallInv
      <3>4. CASE done' = done
        BY <3>1, <3>4
      <3>5. CASE done' = [done EXCEPT ![c] = done[c] + 1]
        BY <3>3, <3>5
      <3>6. CASE done' = [done EXCEPT ![c] = done[c] + 2]
        BY <3>3, <3>6
      <3> QED BY <3>2, <3>4, <3>5, <3>6
    <2> QED BY <1>0, <2>1, <2>2 DEF Types
  <1>2. \/ pc' = [pc EXCEPT ![c] = "wait"] /\ reqMutex' = Nobody
        \/ pc' = [pc EXCEPT ![c] = "write"] /\ reqMutex' = reqMutex
    BY <1>0 DEF RegisterOneWay, Write, WriteFails
  <1>3. Types'
    BY <1>0, <1>1, <1>2 DEF Types, Pcs
  <1>4. Holders'
    BY <1>0, <1>1, <1>2 DEF Holders, Types
  <1>5. PendingInv'
    BY <1>0, <1>1, <1>2 DEF PendingInv, Terminated, Types
  <1>6. HandInv' /\ WriterInv'
    BY <1>0, <1>1, <1>2 DEF HandInv, WriterInv, Terminated, Types
  <1>7. DoneInv'
    BY <1>0, <1>1, <1>2 DEF DoneInv, InHands, Terminated, Types
  <1> QED BY <1>3, <1>4, <1>5, <1>6, <1>7

LEMMA WriteCall ==
  ASSUME CallInv, NEW c \in Normal, Write(c) \/ WriteFails(c)
  PROVE  CallInv'
  <1> USE Disjoint DEF CallInv
  <1>0. c \in Calls /\ c \notin OneWay
    BY DEF Normal
  <1>1. /\ pc[c] = "write"
        /\ UNCHANGED <<mutex, shutdown, seq, pending, mySeq, done, inPc, inCall,
                       closePc>>
    BY <1>0 DEF Write, WriteFails, stateVars, inVars, closeVars
  <1>2. \/ pc' = [pc EXCEPT ![c] = "wait"] /\ reqMutex' = Nobody
        \/ pc' = [pc EXCEPT ![c] = "unregister"] /\ reqMutex' = reqMutex
    BY <1>0 DEF Write, WriteFails
  <1>3. Types'
    BY <1>0, <1>1, <1>2 DEF Types, Pcs
  <1>4. Holders'
    BY <1>0, <1>1, <1>2 DEF Holders, Types
  <1>5. PendingInv'
    BY <1>0, <1>1, <1>2 DEF PendingInv, Terminated, Types, Unborn
  <1>6. HandInv' /\ WriterInv'
    BY <1>0, <1>1, <1>2 DEF HandInv, WriterInv, Terminated, Types, Unborn
  <1>7. DoneInv'
    BY <1>0, <1>1, <1>2 DEF DoneInv, InHands, Terminated, Types, Unborn
  <1> QED BY <1>3, <1>4, <1>5, <1>6, <1>7

LEMMA UnregisterCall ==
  ASSUME CallInv, NEW c \in Calls, Unregister(c)
  PROVE  CallInv'
  <1> USE Disjoint DEF CallInv, Unregister, inVars, closeVars
  <1> DEFINE mine == \E p \in pending : p.seq = mySeq[c]
  <1>0. c \in Normal
    BY DEF WriterInv
  <1>1. /\ pc[c] = "unregister" /\ pc' = [pc EXCEPT ![c] = "wait"]
        /\ reqMutex' = Nobody
        /\ pending' = {p \in pending : p.seq # mySeq[c]}
        /\ UNCHANGED <<mutex, shutdown, seq, mySeq, inPc, inCall, closePc>>
    OBVIOUS
  <1>2. /\ ~Terminated /\ ~Terminated'
        /\ \A p \in pending : p.call \in Calls /\ p.seq \in Nat
        /\ \A p \in pending : p.seq = mySeq[c] <=> p.call = c
    BY <1>0, <1>1 DEF WriterInv, PendingInv, Terminated, Types, Message
  <1>3. /\ \A p \in pending' : p \in pending /\ p.call # c
        /\ \A p \in pending : p.call # c => p \in pending'
    BY <1>1, <1>2
  <1>4. CASE mine
    <2>1. done' = [done EXCEPT ![c] = @ + 1] /\ done[c] = 0 /\ inCall # c
      <3>1. PICK p \in pending : p.seq = mySeq[c]
        BY <1>4
      <3>2. p.call = c
        BY <1>2, <3>1
      <3> QED BY <1>2, <1>4, <3>2 DEF Complete, PendingInv, HandInv
    <2>2. Types' /\ Holders'
      BY <1>1, <2>1 DEF Types, Pcs, Holders
    <2>3. PendingInv'
      BY <1>1, <1>2, <1>3, <2>1 DEF PendingInv, Unborn, Types
    <2>4. HandInv' /\ WriterInv'
      BY <1>1, <1>2, <1>3, <2>1 DEF HandInv, WriterInv, Unborn, Types
    <2>5. DoneInv'
      BY <1>0, <1>1, <1>2, <1>3, <2>1 DEF DoneInv, InHands, Unborn, Types
    <2> QED BY <2>2, <2>3, <2>4, <2>5
  <1>5. CASE ~mine
    <2>1. done' = done /\ pending' = pending
      BY <1>1, <1>5
    <2>2. Types' /\ Holders'
      BY <1>1, <2>1 DEF Types, Pcs, Holders
    <2>3. PendingInv' /\ HandInv' /\ WriterInv'
      BY <1>1, <1>2, <2>1 DEF PendingInv, HandInv, WriterInv, Unborn, Types
    <2>4. DoneInv'
      BY <1>0, <1>1, <1>2, <2>1 DEF DoneInv, InHands, Unborn, Types
    <2> QED BY <2>2, <2>3, <2>4
  <1> QED BY <1>4, <1>5
-----------------------------------------------------------------------------
(* input                                                                     *)

LEMMA HeaderCall ==
  ASSUME CallInv, InputHeader
  PROVE  CallInv'
  <1> USE Disjoint DEF CallInv, InputHeader, lockVars, callVars, closeVars
  <1> DEFINE s == Head(s2c).seq
  <1>1. /\ inPc = "read" /\ inPc' = "body" /\ mutex = Nobody
        /\ pending' = {p \in pending : p.seq # s}
        /\ UNCHANGED <<mutex, reqMutex, shutdown, seq, pc, mySeq, done, closePc>>
    OBVIOUS
  <1>2. inCall = NoCall /\ ~Terminated /\ ~Terminated'
    BY <1>1 DEF HandInv, Terminated
  <1>3. PICK c \in Calls \cup {NoCall} : PendingAt(s, c) /\ inCall' = c
    OBVIOUS
  <1> HIDE DEF s
  <1>4. Types' /\ Holders'
    BY <1>1, <1>3 DEF Types, Holders
  <1>5. CASE c = NoCall
    <2>1. pending' = pending /\ inCall' = NoCall
      BY <1>1, <1>3, <1>5 DEF PendingAt
    <2>2. PendingInv' /\ HandInv' /\ WriterInv'
      BY <1>1, <1>2, <2>1 DEF PendingInv, HandInv, WriterInv
    <2>3. DoneInv'
      BY <1>1, <1>2, <2>1 DEF DoneInv, InHands
    <2> QED BY <1>4, <2>2, <2>3
  <1>6. CASE c \in Calls
    <2>1. [seq |-> s, call |-> c] \in pending /\ inCall' = c /\ c # NoCall
      BY <1>3, <1>6 DEF PendingAt
    <2>2. c \in Normal /\ pc[c] \notin Unborn /\ done[c] = 0 /\ mySeq[c] = s
      BY <1>2, <2>1 DEF PendingInv
    <2>3. \A p \in pending : p.seq = s <=> p.call = c
      BY <2>1, <2>2 DEF PendingInv
    <2>4. /\ \A p \in pending' : p \in pending /\ p.call # c
          /\ \A p \in pending : p.call # c => p \in pending'
      BY <1>1, <2>3
    <2>5. PendingInv'
      BY <1>1, <1>2, <2>4 DEF PendingInv
    <2>6. HandInv' /\ WriterInv'
      BY <1>1, <1>2, <2>1, <2>2, <2>4 DEF HandInv, WriterInv
    <2>7. DoneInv'
      BY <1>1, <1>2, <2>1, <2>2, <2>4 DEF DoneInv, InHands
    <2> QED BY <1>4, <2>5, <2>6, <2>7
  <1> QED BY <1>5, <1>6

LEMMA BodyCall ==
  ASSUME CallInv, InputBody \/ InputBodyFails
  PROVE  CallInv'
  <1> USE Disjoint DEF CallInv
  <1>1. /\ inPc = "body" /\ inPc' \in {"read", "term"} /\ inCall' = NoCall
        /\ UNCHANGED <<mutex, reqMutex, shutdown, seq, pending, pc, mySeq, closePc>>
    BY DEF InputBody, InputBodyFails, lockVars, stateVars, closeVars
  <1>2. /\ inCall = NoCall => done' = done
        /\ inCall # NoCall => done' = [done EXCEPT ![inCall] = @ + 1]
    BY DEF InputBody, InputBodyFails, Deliver, Complete
  <1>3. ~Terminated /\ ~Terminated'
    BY <1>1 DEF Terminated
  <1>4. Types' /\ Holders'
    BY <1>1, <1>2 DEF Types, Holders
  <1>5. PendingInv'
    BY <1>1, <1>2, <1>3 DEF PendingInv, HandInv, Types, Message
  <1>6. HandInv' /\ WriterInv'
    BY <1>1, <1>2, <1>3 DEF HandInv, WriterInv
  <1>7. DoneInv'
    BY <1>1, <1>2, <1>3 DEF DoneInv, HandInv, InHands, Types
  <1> QED BY <1>4, <1>5, <1>6, <1>7

LEMMA TerminateCall ==
  ASSUME CallInv, Terminate
  PROVE  CallInv'
  <1> USE Disjoint DEF CallInv, Terminate, TerminateAll, closeVars
  <1>1. /\ inPc = "term2" /\ inPc' = "callback" /\ mutex = Nobody /\ mutex' = Input
        /\ shutdown' = TRUE
        /\ UNCHANGED <<reqMutex, seq, pending, pc, mySeq, inCall, closePc>>
    OBVIOUS
  <1>2. done' = [c \in Calls |-> IF c \in PendingCalls THEN done[c] + 1 ELSE done[c]]
    OBVIOUS
  <1>3. inCall = NoCall /\ ~Terminated /\ Terminated'
    BY <1>1 DEF HandInv, Terminated
  <1>4. \A c : c \in PendingCalls <=> \E p \in pending : p.call = c
    BY DEF PendingCalls
  <1>5. Types' /\ Holders'
    BY <1>1, <1>2 DEF Types, Holders
  <1>6. PendingInv' /\ HandInv'
    BY <1>1, <1>3 DEF PendingInv, HandInv
  <1>7. WriterInv'
    BY <1>1 DEF Holders, WriterInv
  <1>8. DoneInv'
    <2>1. \A c \in Normal : pc[c] \in Unborn => c \notin PendingCalls
      BY <1>4 DEF PendingInv
    <2>2. \A c \in PendingCalls : done[c] = 0
      BY <1>3, <1>4 DEF PendingInv
    <2> QED BY <1>1, <1>2, <1>3, <1>4, <2>1, <2>2 DEF DoneInv, InHands, Types
  <1> QED BY <1>5, <1>6, <1>7, <1>8

LEMMA InputLocksCall ==
  ASSUME CallInv, InputError \/ InputLockReq \/ CallbackReturns
  PROVE  CallInv'
  <1> USE Disjoint DEF CallInv, InputError, InputLockReq, CallbackReturns,
                       lockVars, stateVars, callVars, closeVars
  <1>1. Types' /\ Holders'
    BY DEF Types, Holders
  <1>2. UNCHANGED <<shutdown, seq, pending, pc, mySeq, done, inCall>>
        /\ inPc # "body" /\ inPc' # "body" /\ (Terminated' <=> Terminated)
    BY DEF Terminated
  <1>3. PendingInv' /\ HandInv' /\ WriterInv'
    BY <1>2 DEF PendingInv, HandInv, WriterInv
  <1>4. DoneInv'
    BY <1>2 DEF DoneInv, InHands
  <1> QED BY <1>1, <1>3, <1>4

LEMMA CloseCall ==
  ASSUME CallInv, NEW p \in CloseProcs, CloseStep(p)
  PROVE  CallInv'
  <1> USE Disjoint DEF CallInv
  <1>1. UNCHANGED <<reqMutex, shutdown, seq, pending, pc, mySeq, done, inPc, inCall>>
    BY DEF CloseStep, CloseCodec, CloseLock, CloseSend, lockVars, stateVars,
           callVars, inVars
  <1>2. Types' /\ Holders'
    <2>1. CASE CloseCodec(p)
      BY <1>1, <2>1 DEF CloseCodec, lockVars, Types, Holders
    <2>2. CASE CloseLock(p)
      BY <1>1, <2>2 DEF CloseLock, Types, Holders
    <2>3. CASE CloseSend(p)
      BY <1>1, <2>3 DEF CloseSend, Types, Holders
    <2> QED BY <2>1, <2>2, <2>3 DEF CloseStep
  <1>3. PendingInv' /\ HandInv' /\ WriterInv' /\ DoneInv'
    BY <1>1 DEF PendingInv, HandInv, WriterInv, DoneInv, InHands, Terminated
  <1> QED BY <1>2, <1>3
-----------------------------------------------------------------------------
(* A step of the goroutine of one call. *)
LEMMA CallStepCall ==
  ASSUME CallInv, NEW c \in Calls, Begin(c) \/ CallStep(c)
  PROVE  CallInv'
  <1> USE DEF lockVars, stateVars, inVars, closeVars
  <1>1. CASE Begin(c)
    BY <1>1, MoveCall DEF Begin, Pcs
  <1>2. CASE IsClosed(c)
    BY <1>2, MoveCall DEF IsClosed, Pcs
  <1>3. CASE Return(c)
    BY <1>3, MoveCall DEF Return, Pcs
  <1>4. CASE Timeout(c)
    BY <1>4, MoveCall DEF Timeout, Pcs
  <1>5. CASE LockReq(c)
    BY <1>5, LockReqCall
  <1>6. CASE Register(c)
    BY <1>6, RegisterCall
  <1>7. CASE RegisterOneWay(c)
    <2>1. c \in OneWay
      BY <1>7 DEF RegisterOneWay
    <2> QED BY <1>7, <2>1, OneWayCall
  <1>8. CASE Write(c) \/ WriteFails(c)
    <2>1. CASE c \in OneWay
      BY <1>8, <2>1, OneWayCall
    <2>2. CASE c \notin OneWay
      <3>1. c \in Normal
        BY <2>2 DEF Normal
      <3> QED BY <1>8, <3>1, WriteCall
    <2> QED BY <2>1, <2>2
  <1>9. CASE Unregister(c)
    BY <1>9, UnregisterCall
  <1> QED BY <1>1, <1>2, <1>3, <1>4, <1>5, <1>6, <1>7, <1>8, <1>9 DEF CallStep

LEMMA NextCall ==
  ASSUME CallInv, [Next]_vars
  PROVE  CallInv'
  <1>1. CASE \E c \in Calls : Begin(c) \/ CallStep(c)
    BY <1>1, CallStepCall
  <1>2. CASE InputStep
    BY <1>2, HeaderCall, BodyCall, InputLocksCall, TerminateCall DEF InputStep
  <1>3. CASE HeartTick
    <2>1. PICK p \in Pings : pc[p] = "idle" /\ pc' = [pc EXCEPT ![p] = "isclosed"]
      BY <1>3 DEF HeartTick
    <2>2. p \in Calls
      BY DEF Calls
    <2> QED BY <1>3, <2>1, <2>2, MoveCall
            DEF HeartTick, Pcs, lockVars, stateVars, inVars, closeVars
  <1>4. CASE HeartResult \/ ServerStep \/ ServeStop \/ ConnLost \/ ConnSilent
    <2>1. UNCHANGED callInvVars
      BY <1>4 DEF HeartResult, HeartResultAt, ServerStep, ServeRead, ServiceCall,
           ServeStop, ServeClose, ConnLost, ConnSilent, callInvVars, lockVars,
           stateVars, callVars, inVars, closeVars
    <2> QED BY <2>1, FrameCall
  <1>5. CASE \E p \in CloseProcs : CloseStep(p)
    BY <1>5, CloseCall
  <1>6. CASE UNCHANGED vars
    <2>1. UNCHANGED callInvVars
      BY <1>6 DEF vars, callInvVars, lockVars, stateVars, callVars, inVars, closeVars
    <2> QED BY <2>1, FrameCall
  <1> QED BY <1>1, <1>2, <1>3, <1>4, <1>5, <1>6 DEF Next, HeartStep

LEMMA InductiveCall == Spec => []CallInv
  <1>1. CallInv /\ [Next]_vars => CallInv'
    BY NextCall
  <1> QED BY InitCall, <1>1, PTL DEF Spec

(* No call that waits for a reply is ever completed twice, by whichever of
   the writer, `input` with a response and `input` at its end reach it
   (client.go:120-127, 162-205, 216-219). *)
THEOREM RpcCompletedOnce == Spec => []CompletedOnce
  <1>1. CallInv => CompletedOnce
    BY DEF CallInv, DoneInv, CompletedOnce
  <1> QED BY InductiveCall, <1>1, PTL

(* No call is forgotten: a waiting, uncompleted call can still be reached by
   a response or by the end of `input` (client.go:97-129, 155-231). *)
THEOREM RpcNoCallForgotten == Spec => []NoCallForgotten
  <1>1. CallInv => NoCallForgotten
    <2>1. ASSUME CallInv, NEW c \in Normal, inCall = c PROVE inPc = "body"
      BY <2>1, Disjoint DEF CallInv, HandInv
    <2> QED BY <2>1 DEF CallInv, DoneInv, InHands, Terminated, NoCallForgotten
  <1> QED BY InductiveCall, <1>1, PTL
-----------------------------------------------------------------------------
(* Types                                                                     *)

LEMMA CompleteTypes ==
  ASSUME DataTypes, NEW c \in Calls, NEW e \in Errors, Complete(c, e)
  PROVE  err' \in [Calls -> Errors] /\ done' \in [Calls -> Nat]
  <1>1. err' = [err EXCEPT ![c] = e] /\ done' = [done EXCEPT ![c] = done[c] + 1]
    BY DEF Complete
  <1>2. done[c] + 1 \in Nat
    BY DEF DataTypes
  <1> QED BY <1>1, <1>2 DEF DataTypes

(* The steps of a call's goroutine: what they leave alone keeps its type, which
   leaves what they assign. *)
LEMMA CallTypes ==
  ASSUME DataTypes, NEW c \in Calls, Begin(c) \/ CallStep(c)
  PROVE  DataTypes'
  <1> USE DEF lockVars, stateVars, callVars, inVars, heartVars, closeVars, serverVars
  <1>1. /\ UNCHANGED <<mutex, from, inPc, inCall, inResp, inErr, heart, ping, pingCount,
                       closePc, closeRet, conn, running, s2c>>
    BY DEF CallStep, Begin, IsClosed, LockReq, Register, RegisterWhen, RegisterOneWay,
           Write, WriteFails, Unregister, Return, Timeout
  <1>2. reqMutex' \in {reqMutex, c, Nobody}
    BY DEF CallStep, Begin, IsClosed, LockReq, Register, RegisterWhen, RegisterOneWay,
           Write, WriteFails, Unregister, Return, Timeout
  <1>3. /\ pc' \in [Calls -> Pcs]
        /\ ret' \in [Calls -> Errors]
    <2>1. \E to \in Pcs : pc' = [pc EXCEPT ![c] = to]
      BY DEF CallStep, Begin, IsClosed, LockReq, Register, RegisterWhen, RegisterOneWay,
             Write, WriteFails, Unregister, Return, Timeout, Pcs
    <2>2. ret' = ret \/ \E e \in Errors : ret' = [ret EXCEPT ![c] = e]
      <3>1. err[c] \in Errors
        BY DEF DataTypes
      <3>2. "shutdown" \in Errors /\ "timeout" \in Errors
        BY DEF Errors
      <3> QED BY <3>1, <3>2 DEF CallStep, Begin, IsClosed, LockReq, Register,
                 RegisterWhen, RegisterOneWay, Write, WriteFails, Unregister, Return,
                 Timeout
    <2> QED BY <2>1, <2>2 DEF DataTypes
  <1>4. err' \in [Calls -> Errors] /\ done' \in [Calls -> Nat]
    <2>1. \/ UNCHANGED <<err, done>>
          \/ Complete(c, "shutdown") \/ Complete(c, "nil") \/ Complete(c, "write")
          \/ /\ err' = [err EXCEPT ![c] = "nil"]
             /\ done' = [done EXCEPT ![c] = done[c] + 2]
          \/ err' = [err EXCEPT ![c] = "timeout"] /\ UNCHANGED done
      BY DEF CallStep, Begin, IsClosed, LockReq, Register, RegisterWhen, RegisterOneWay,
             Write, WriteFails, Unregister, Return, Timeout
    <2>2. /\ "shutdown" \in Errors /\ "nil" \in Errors /\ "write" \in Errors
          /\ "timeout" \in Errors
      BY DEF Errors
    <2>3. done[c] + 2 \in Nat
      BY DEF DataTypes
    <2>4. CASE Complete(c, "shutdown") \/ Complete(c, "nil") \/ Complete(c, "write")
      BY <2>2, <2>4, CompleteTypes
    <2>5. CASE ~(Complete(c, "shutdown") \/ Complete(c, "nil") \/ Complete(c, "write"))
      BY <2>1, <2>2, <2>3, <2>5 DEF DataTypes
    <2> QED BY <2>4, <2>5
  <1>5. /\ seq' \in Nat /\ reqSeq' \in Nat /\ mySeq' \in [Calls -> Nat]
        /\ pending' \subseteq Message
    <2>1. CASE Register(c)
      BY <2>1 DEF Register, RegisterWhen, DataTypes, Message
    <2>2. CASE Unregister(c)
      BY <2>2 DEF Unregister, DataTypes
    <2>3. CASE ~Register(c) /\ ~Unregister(c)
      <3>1. UNCHANGED <<seq, reqSeq, mySeq, pending>>
        BY <2>3 DEF CallStep, Begin, IsClosed, LockReq, RegisterOneWay, Write,
                    WriteFails, Return, Timeout
      <3> QED BY <3>1 DEF DataTypes
    <2> QED BY <2>1, <2>2, <2>3
  <1>6. c2s' \in Seq(Message)
    <2>1. PICK m \in Message : m = [seq |-> reqSeq, call |-> c]
      BY DEF Message, DataTypes
    <2>2. c2s' = c2s \/ c2s' = Append(c2s, m)
      BY <2>1 DEF CallStep, Begin, IsClosed, LockReq, Register, RegisterWhen,
             RegisterOneWay, Write, WriteFails, Unregister, Return, Timeout
    <2>3. c2s \in Seq(Message)
      BY DEF DataTypes
    <2> QED BY <2>2, <2>3
  <1> QED BY <1>1, <1>2, <1>3, <1>4, <1>5, <1>6, Disjoint DEF DataTypes

LEMMA InputTypes ==
  ASSUME DataTypes, InputStep
  PROVE  DataTypes'
  <1> USE DEF DataTypes, lockVars, stateVars, callVars, inVars, heartVars, closeVars,
              serverVars
  <1>1. CASE InputHeader
    <2>1. Head(s2c) \in Response /\ Tail(s2c) \in Seq(Response)
      BY <1>1 DEF InputHeader
    <2> QED BY <1>1, <2>1 DEF InputHeader
  <1>2. CASE InputBody \/ InputBodyFails
    <2>1. inResp.status \in Errors /\ inResp.call \in Calls \cup {NoCall}
      BY DEF Response, NoResp, Errors
    <2>2. \A e \in Errors : Deliver(e) =>
            /\ err' \in [Calls -> Errors] /\ done' \in [Calls -> Nat]
            /\ from' \in [Calls -> Calls \cup {NoCall}]
      <3> SUFFICES ASSUME NEW e \in Errors, Deliver(e)
                   PROVE  /\ err' \in [Calls -> Errors] /\ done' \in [Calls -> Nat]
                          /\ from' \in [Calls -> Calls \cup {NoCall}]
        OBVIOUS
      <3>1. CASE inCall = NoCall
        BY <3>1 DEF Deliver
      <3>2. CASE inCall # NoCall
        <4>1. PICK c \in Calls : c = inCall
          BY <3>2
        <4>2. Complete(c, e) /\ from' = [from EXCEPT ![c] = inResp.call]
          BY <3>2, <4>1 DEF Deliver
        <4> QED BY <2>1, <4>2, CompleteTypes
      <3> QED BY <3>1, <3>2
    <2>3. \E e \in Errors : Deliver(e)
      BY <1>2, <2>1 DEF InputBody, InputBodyFails, Errors
    <2>4. "body" \in Errors
      BY DEF Errors
    <2> QED BY <1>2, <2>2, <2>3, <2>4 DEF InputBody, InputBodyFails
  <1>3. CASE InputError
    BY <1>3 DEF InputError, Errors
  <1>4. CASE InputLockReq
    BY <1>4, Disjoint DEF InputLockReq
  <1>5. CASE Terminate
    <2>1. err' \in [Calls -> Errors]
      BY <1>5 DEF Terminate, TerminateAll, Errors
    <2>2. done' \in [Calls -> Nat]
      BY <1>5 DEF Terminate, TerminateAll
    <2> QED BY <1>5, <2>1, <2>2, Disjoint DEF Terminate, TerminateAll
  <1>6. CASE CallbackReturns
    BY <1>6 DEF CallbackReturns
  <1> QED BY <1>1, <1>2, <1>3, <1>4, <1>5, <1>6 DEF InputStep

LEMMA ServerTypes ==
  ASSUME DataTypes, ServerStep \/ ServeStop \/ ConnLost \/ ConnSilent
  PROVE  DataTypes'
  <1> USE DEF DataTypes, lockVars, stateVars, callVars, inVars, heartVars, closeVars,
              serverVars
  <1>0. ASSUME NEW m \in Message, NEW s \in {"nil", "server"}, SendResponse(m, s)
        PROVE  s2c' \in Seq(Response)
    <2>1. [seq |-> m.seq, call |-> m.call, status |-> s] \in Response
      BY DEF Message, Response
    <2> QED BY <1>0, <2>1 DEF SendResponse
  <1>1. CASE ServeRead
    <2>1. Head(c2s) \in Message /\ Tail(c2s) \in Seq(Message)
      BY <1>1 DEF ServeRead
    <2>2. s2c' \in Seq(Response) /\ running' \subseteq Message
      BY <1>0, <1>1, <2>1 DEF ServeRead
    <2> QED BY <1>1, <2>1, <2>2 DEF ServeRead
  <1>2. ASSUME NEW m \in running, NEW s \in {"nil", "server"}, ServiceCall(m, s)
        PROVE  DataTypes'
    <2>1. s2c' \in Seq(Response)
      BY <1>0, <1>2 DEF ServiceCall
    <2> QED BY <1>2, <2>1 DEF ServiceCall
  <1>3. CASE ServeClose \/ ServeStop \/ ConnLost \/ ConnSilent
    BY <1>3 DEF ServeClose, ServeStop, ConnLost, ConnSilent
  <1> QED BY <1>1, <1>2, <1>3 DEF ServerStep

LEMMA HeartTypes ==
  ASSUME DataTypes, HeartStep \/ \E p \in CloseProcs : CloseStep(p)
  PROVE  DataTypes'
  <1> USE DEF DataTypes, lockVars, stateVars, callVars, inVars, heartVars, closeVars,
              serverVars
  <1>1. CASE HeartTick
    BY <1>1 DEF HeartTick, Pcs, Calls
  <1>2. CASE HeartResult
    <2>1. /\ heart = "call" /\ ping' = NoCall
          /\ pingCount' = 0 \/ pingCount' = pingCount + 1
          /\ heart' \in {"close", "select"} /\ (heart' = "select" => ~(pingCount' > MaxPing))
      BY <1>2 DEF HeartResult, HeartResultAt
    <2>2. /\ pingCount' \in 0 .. (MaxPing + 1)
          /\ heart' \in {"select", "call"} => pingCount' <= MaxPing
      BY <2>1, BoundsAssumption
    <2> QED BY <1>2, <2>1, <2>2 DEF HeartResult, HeartResultAt
  <1>3. ASSUME NEW p \in CloseProcs, CloseStep(p) PROVE DataTypes'
    <2>1. CASE CloseCodec(p)
      BY <2>1 DEF CloseCodec
    <2>2. CASE CloseLock(p)
      <3>1. CASE closing
        BY <2>2, <3>1 DEF CloseLock
      <3>2. CASE ~closing
        BY <2>2, <3>2, Disjoint DEF CloseLock
      <3> QED BY <3>1, <3>2
    <2>3. CASE CloseSend(p)
      BY <2>3 DEF CloseSend
    <2> QED BY <1>3, <2>1, <2>2, <2>3 DEF CloseStep
  <1> QED BY <1>1, <1>2, <1>3 DEF HeartStep

LEMMA NextFlags ==
  ASSUME FlagTypes, [Next]_vars
  PROVE  FlagTypes'
  <1>1. /\ closing' = closing \/ closing' = TRUE
        /\ shutdown' = shutdown \/ shutdown' = TRUE
        /\ serving' = serving \/ serving' = FALSE
    <2> USE DEF stateVars, serverVars
    <2>1. CASE \E c \in Calls : Begin(c) \/ CallStep(c)
      BY <2>1 DEF CallStep, Begin, IsClosed, LockReq, Register, RegisterWhen,
             RegisterOneWay, Write, WriteFails, Unregister, Return, Timeout
    <2>2. CASE InputStep
      BY <2>2 DEF InputStep, InputHeader, InputBody, InputBodyFails, InputError,
             InputLockReq, Terminate, TerminateAll, CallbackReturns
    <2>3. CASE HeartStep
      BY <2>3 DEF HeartStep, HeartTick, HeartResult, HeartResultAt
    <2>4. CASE \E p \in CloseProcs : CloseStep(p)
      BY <2>4 DEF CloseStep, CloseCodec, CloseLock, CloseSend
    <2>5. CASE ServerStep
      BY <2>5 DEF ServerStep, ServeRead, ServiceCall, ServeClose
    <2>6. CASE ServeStop \/ ConnLost \/ ConnSilent \/ UNCHANGED vars
      BY <2>6 DEF ServeStop, ConnLost, ConnSilent, vars
    <2> QED BY <2>1, <2>2, <2>3, <2>4, <2>5, <2>6 DEF Next
  <1> QED BY <1>1, Zenon DEF FlagTypes

LEMMA NextData ==
  ASSUME DataTypes, [Next]_vars
  PROVE  DataTypes'
  <1>1. CASE UNCHANGED vars
    BY <1>1 DEF DataTypes, vars, lockVars, stateVars, callVars, inVars, heartVars,
                closeVars, serverVars
  <1> QED BY <1>1, CallTypes, InputTypes, ServerTypes, HeartTypes DEF Next

(* Types, with the bound of the heartbeat's count: the ping that takes it past
   MaxPing is the last (client.go:246-271). *)
THEOREM RpcTypes == Spec => []TypeOK
  <1>1. Init => FlagTypes /\ DataTypes
    <2>1. Init => FlagTypes
      BY DEF Init, FlagTypes
    <2>2. Init => DataTypes
      BY BoundsAssumption DEF Init, DataTypes, Pcs, Errors
    <2> QED BY <2>1, <2>2
  <1>2. FlagTypes /\ DataTypes /\ [Next]_vars => FlagTypes' /\ DataTypes'
    BY NextFlags, NextData
  <1> QED BY <1>1, <1>2, PTL DEF Spec, TypeOK
-----------------------------------------------------------------------------
(* Answers                                                                   *)

(* A message m of a call that expects a reply carries a Seq that has been
   given out, and under which pending holds nobody else. *)
Belongs(m, next, entries) ==
    m.call \in Normal =>
       m.seq < next /\ \A p \in entries : p.seq = m.seq => p.call = m.call

(* The server answers a call of CallWithoutReply only when it rejects it. *)
Answered(m) == m.call \in OneWay => m.call \in Rejected

(* request.Seq is the Seq of the call that is being written. *)
WroteInv ==
    \A c \in Normal : pc[c] = "write" => reqSeq = mySeq[c] /\ mySeq[c] < seq

MailInv ==
    /\ \A i \in 1 .. Len(c2s) : Belongs(c2s[i], seq, pending)
    /\ \A m \in running : Belongs(m, seq, pending)
    /\ \A i \in 1 .. Len(s2c) : Belongs(s2c[i], seq, pending) /\ Answered(s2c[i])

(* `input` pairs a call with its own response, or with a rejection of a
   one-way call. *)
PairInv == inCall # NoCall => inResp.call = inCall \/ inResp.call \in OneWay \cap Rejected

AnswerInv == WroteInv /\ MailInv /\ PairInv /\ AnswersOwnCall

(* What AnswerInv is about. *)
answerVars == <<seq, reqSeq, pending, pc, mySeq, from, inCall, inResp, c2s, s2c, running>>

(* What belonged to a call belongs to it as long as entries are only removed,
   or added under a fresh Seq. *)
LEMMA MailStays ==
  ASSUME DataTypes, MailInv,
         seq <= seq', seq' \in Nat,
         \A p \in pending' : p \in pending \/ p.seq >= seq,
         UNCHANGED <<c2s, running, s2c>>
  PROVE  MailInv'
  <1>1. ASSUME NEW m, m.seq \in Nat, Belongs(m, seq, pending)
        PROVE  Belongs(m, seq', pending')
    BY <1>1 DEF Belongs, DataTypes
  <1>2. /\ \A i \in 1 .. Len(c2s) : c2s[i].seq \in Nat
        /\ \A m \in running : m.seq \in Nat
        /\ \A i \in 1 .. Len(s2c) : s2c[i].seq \in Nat
    <2>1. \A m \in Message : m.seq \in Nat
      BY DEF Message
    <2>2. \A m \in Response : m.seq \in Nat
      BY DEF Response
    <2>3. /\ \A i \in 1 .. Len(c2s) : c2s[i] \in Message
          /\ \A i \in 1 .. Len(s2c) : s2c[i] \in Response
      BY DEF DataTypes
    <2> QED BY <2>1, <2>2, <2>3 DEF DataTypes
  <1>3. ASSUME NEW q, NEW i \in 1 .. Len(q), q[i].seq \in Nat, Belongs(q[i], seq, pending)
        PROVE  Belongs(q[i], seq', pending')
    <2>1. PICK m : m = q[i]
      OBVIOUS
    <2> QED BY <1>1, <1>3, <2>1
  <1> QED BY <1>1, <1>2, <1>3 DEF MailInv

LEMMA FrameAnswer ==
  ASSUME AnswerInv, UNCHANGED answerVars
  PROVE  AnswerInv'
  BY DEF AnswerInv, answerVars, WroteInv, MailInv, PairInv, AnswersOwnCall

(* A goroutine moves on, and not to its write. *)
LEMMA MoveAnswer ==
  ASSUME DataTypes, AnswerInv, NEW c \in Calls, NEW to \in Pcs \ {"write"},
         pc' = [pc EXCEPT ![c] = to],
         UNCHANGED <<seq, reqSeq, pending, mySeq, from, inCall, inResp, c2s, s2c,
                     running>>
  PROVE  AnswerInv'
  <1>1. WroteInv'
    BY DEF AnswerInv, WroteInv, DataTypes
  <1> QED BY <1>1 DEF AnswerInv, MailInv, PairInv, AnswersOwnCall

LEMMA RegisterAnswer ==
  ASSUME DataTypes, CallInv, AnswerInv, NEW c \in Calls, Register(c)
  PROVE  AnswerInv'
  <1> USE Disjoint DEF Register, RegisterWhen, inVars
  <1>1. CASE ~(shutdown \/ closing)
    <2>1. /\ c \in Normal /\ pc[c] = "register"
          /\ pending' = {p \in pending : p.seq # seq} \cup {[seq |-> seq, call |-> c]}
          /\ mySeq' = [mySeq EXCEPT ![c] = seq] /\ reqSeq' = seq /\ seq' = seq + 1
          /\ pc' = [pc EXCEPT ![c] = "write"]
          /\ UNCHANGED <<from, inCall, inResp, c2s, s2c, running>>
      BY <1>1 DEF serverVars
    <2>2. \A d \in Normal : pc'[d] = "write" => d = c
      BY <2>1 DEF CallInv, Holders, DataTypes
    <2>3. WroteInv'
      BY <2>1, <2>2 DEF WroteInv, DataTypes
    <2>4. MailInv'
      BY <2>1, MailStays DEF AnswerInv, DataTypes
    <2> QED BY <2>1, <2>3, <2>4 DEF AnswerInv, PairInv, AnswersOwnCall
  <1>2. CASE shutdown \/ closing
    BY <1>2, MoveAnswer DEF Pcs, serverVars
  <1> QED BY <1>1, <1>2

(* A request goes out, whether the write succeeds or fails on the way. *)
LEMMA WriteAnswer ==
  ASSUME DataTypes, CallInv, AnswerInv, NEW c \in Calls, Write(c) \/ WriteFails(c)
  PROVE  AnswerInv'
  <1> USE Disjoint
  <1>1. /\ pc[c] = "write"
        /\ pc' = [pc EXCEPT ![c] = "wait"] \/ pc' = [pc EXCEPT ![c] = "unregister"]
        /\ UNCHANGED <<seq, reqSeq, pending, mySeq, from, inCall, inResp, s2c, running>>
        /\ \/ c2s' = c2s
           \/ c2s' = Append(c2s, [seq |-> reqSeq, call |-> c])
    BY DEF Write, WriteFails, stateVars, inVars, serverVars
  <1>2. CASE c2s' = c2s
    <2>1. PICK to \in Pcs \ {"write"} : pc' = [pc EXCEPT ![c] = to]
      BY <1>1 DEF Pcs
    <2> QED BY <1>1, <1>2, <2>1, MoveAnswer
  <1>3. CASE c2s' = Append(c2s, [seq |-> reqSeq, call |-> c])
    <2>1. PICK m \in Message : m = [seq |-> reqSeq, call |-> c]
      BY DEF Message, DataTypes
    <2>2. Belongs(m, seq, pending)
      BY <1>1, <2>1 DEF Belongs, AnswerInv, WroteInv, CallInv, WriterInv
    <2>3. \A i \in 1 .. Len(c2s') : c2s'[i] = m \/ (i \in 1 .. Len(c2s) /\ c2s'[i] = c2s[i])
      BY <1>3, <2>1, AppendAt DEF DataTypes
    <2>4. MailInv'
      BY <1>1, <2>2, <2>3 DEF AnswerInv, MailInv
    <2>5. WroteInv'
      BY <1>1 DEF AnswerInv, WroteInv, DataTypes
    <2> QED BY <1>1, <2>4, <2>5 DEF AnswerInv, PairInv, AnswersOwnCall
  <1> QED BY <1>1, <1>2, <1>3

LEMMA UnregisterAnswer ==
  ASSUME DataTypes, AnswerInv, NEW c \in Calls, Unregister(c)
  PROVE  AnswerInv'
  <1>1. /\ pc' = [pc EXCEPT ![c] = "wait"]
        /\ pending' = {p \in pending : p.seq # mySeq[c]}
        /\ UNCHANGED <<seq, reqSeq, mySeq, from, inCall, inResp, c2s, s2c, running>>
    BY DEF Unregister, inVars, serverVars
  <1>2. MailInv'
    BY <1>1, MailStays DEF AnswerInv, DataTypes
  <1>3. WroteInv'
    BY <1>1 DEF AnswerInv, WroteInv, DataTypes
  <1> QED BY <1>1, <1>2, <1>3 DEF AnswerInv, PairInv, AnswersOwnCall

(* The call taken out of pending is the one whose response was read. *)
LEMMA HeaderAnswer ==
  ASSUME DataTypes, CallInv, AnswerInv, InputHeader
  PROVE  AnswerInv'
  <1> USE Disjoint
  <1>1. PICK m \in Response : m = Head(s2c)
    BY DEF InputHeader, DataTypes
  <1>2. /\ s2c # <<>> /\ s2c' = Tail(s2c) /\ inResp' = m
        /\ pending' = {p \in pending : p.seq # m.seq}
        /\ UNCHANGED <<seq, reqSeq, pc, mySeq, from, c2s, running>>
    BY <1>1 DEF InputHeader, callVars, serverVars
  <1>3. PICK c \in Calls \cup {NoCall} : PendingAt(m.seq, c) /\ inCall' = c
    BY <1>1 DEF InputHeader
  <1>4. Belongs(m, seq, pending) /\ Answered(m)
    <2>1. 1 \in 1 .. Len(s2c) /\ m = s2c[1]
      BY <1>1, <1>2 DEF DataTypes
    <2> QED BY <2>1 DEF AnswerInv, MailInv
  <1>5. PairInv'
    <2>1. SUFFICES ASSUME c # NoCall
                   PROVE  m.call = c \/ m.call \in OneWay \cap Rejected
      BY <1>2, <1>3 DEF PairInv
    <2>2. [seq |-> m.seq, call |-> c] \in pending
      BY <1>3, <2>1 DEF PendingAt
    <2>3. CASE m.call \in Normal
      BY <1>4, <2>2, <2>3 DEF Belongs
    <2>4. CASE m.call \in OneWay
      BY <1>4, <2>4 DEF Answered
    <2> QED BY <2>3, <2>4 DEF Response, Normal
  <1>6. ASSUME NEW n, Belongs(n, seq, pending) PROVE Belongs(n, seq', pending')
    BY <1>2, <1>6 DEF Belongs
  <1>7. MailInv'
    <2>1. \A i \in 1 .. Len(s2c') : i + 1 \in 1 .. Len(s2c) /\ s2c'[i] = s2c[i + 1]
      BY <1>2, TailAt DEF DataTypes
    <2> QED BY <1>2, <1>6, <2>1 DEF AnswerInv, MailInv
  <1>8. WroteInv'
    BY <1>2 DEF AnswerInv, WroteInv
  <1> QED BY <1>2, <1>5, <1>7, <1>8 DEF AnswerInv, AnswersOwnCall

LEMMA BodyAnswer ==
  ASSUME DataTypes, AnswerInv, InputBody \/ InputBodyFails
  PROVE  AnswerInv'
  <1>1. /\ inCall' = NoCall
        /\ UNCHANGED <<seq, reqSeq, pending, pc, mySeq, c2s, s2c, running>>
    BY DEF InputBody, InputBodyFails, stateVars, serverVars
  <1>2. \/ from' = from
        \/ inCall # NoCall /\ from' = [from EXCEPT ![inCall] = inResp.call]
    BY DEF InputBody, InputBodyFails, Deliver
  <1>3. AnswersOwnCall'
    BY <1>2 DEF AnswerInv, PairInv, AnswersOwnCall, DataTypes
  <1>4. WroteInv' /\ PairInv'
    BY <1>1 DEF AnswerInv, WroteInv, PairInv
  <1>5. MailInv'
    BY <1>1 DEF AnswerInv, MailInv
  <1> QED BY <1>3, <1>4, <1>5 DEF AnswerInv

(* The server answers with the Seq and for the call of the request. *)
LEMMA ServerAnswer ==
  ASSUME DataTypes, AnswerInv, ServerStep
  PROVE  AnswerInv'
  <1> USE Disjoint
  <1>0. ASSUME NEW m \in Message, NEW s \in {"nil", "server"},
               SendResponse(m, s), Belongs(m, seq, pending), Answered(m),
               UNCHANGED <<seq, pending>>
        PROVE  \A i \in 1 .. Len(s2c') : Belongs(s2c'[i], seq', pending') /\ Answered(s2c'[i])
    <2>1. PICK r \in Response : r = [seq |-> m.seq, call |-> m.call, status |-> s]
      BY DEF Message, Response
    <2>2. Belongs(r, seq, pending) /\ Answered(r)
      BY <1>0, <2>1 DEF Belongs, Answered
    <2>3. CASE s2c' = s2c
      BY <1>0, <2>3 DEF AnswerInv, MailInv
    <2>4. CASE s2c' = Append(s2c, r)
      <3>1. \A i \in 1 .. Len(s2c') : s2c'[i] = r \/ (i \in 1 .. Len(s2c) /\ s2c'[i] = s2c[i])
        BY <2>4, AppendAt DEF DataTypes
      <3> QED BY <1>0, <2>2, <3>1 DEF AnswerInv, MailInv
    <2> QED BY <1>0, <2>1, <2>3, <2>4 DEF SendResponse
  <1>1. CASE ServeRead
    <2>1. PICK m \in Message : m = Head(c2s)
      BY <1>1 DEF ServeRead, DataTypes
    <2>2. /\ c2s # <<>> /\ c2s' = Tail(c2s)
          /\ UNCHANGED <<seq, reqSeq, pending, pc, mySeq, from, inCall, inResp>>
          /\ IF m.call \in Rejected
               THEN SendResponse(m, "server") /\ UNCHANGED running
               ELSE running' = running \cup {m} /\ UNCHANGED s2c
      BY <1>1, <2>1 DEF ServeRead, stateVars, callVars, inVars
    <2>3. Belongs(m, seq, pending)
      <3>1. 1 \in 1 .. Len(c2s) /\ m = c2s[1]
        BY <2>1, <2>2 DEF DataTypes
      <3> QED BY <3>1 DEF AnswerInv, MailInv
    <2>4. \A i \in 1 .. Len(c2s') : i + 1 \in 1 .. Len(c2s) /\ c2s'[i] = c2s[i + 1]
      BY <2>2, TailAt DEF DataTypes
    <2>5. /\ \A i \in 1 .. Len(c2s') : Belongs(c2s'[i], seq', pending')
          /\ \A n \in running' : Belongs(n, seq', pending')
      BY <2>2, <2>3, <2>4 DEF AnswerInv, MailInv
    <2>6. \A i \in 1 .. Len(s2c') : Belongs(s2c'[i], seq', pending') /\ Answered(s2c'[i])
      <3>1. CASE m.call \in Rejected
        <4>1. Answered(m)
          BY <3>1 DEF Answered
        <4> QED BY <1>0, <2>2, <2>3, <3>1, <4>1
      <3>2. CASE m.call \notin Rejected
        BY <2>2, <3>2 DEF AnswerInv, MailInv
      <3> QED BY <3>1, <3>2
    <2>7. MailInv'
      BY <2>5, <2>6 DEF MailInv
    <2> QED BY <2>2, <2>7 DEF AnswerInv, WroteInv, PairInv, AnswersOwnCall
  <1>2. ASSUME NEW m \in running, NEW s \in {"nil", "server"}, ServiceCall(m, s)
        PROVE  AnswerInv'
    <2>1. /\ running' = running \ {m} /\ m \in Message
          /\ UNCHANGED <<seq, reqSeq, pending, pc, mySeq, from, inCall, inResp, c2s>>
          /\ IF m.call \in OneWay THEN UNCHANGED s2c ELSE SendResponse(m, s)
      BY <1>2 DEF ServiceCall, stateVars, callVars, inVars, DataTypes
    <2>2. \A i \in 1 .. Len(s2c') : Belongs(s2c'[i], seq', pending') /\ Answered(s2c'[i])
      <3>1. CASE m.call \in OneWay
        BY <2>1, <3>1 DEF AnswerInv, MailInv
      <3>2. CASE m.call \notin OneWay
        <4>1. Answered(m) /\ Belongs(m, seq, pending)
          BY <3>2 DEF Answered, AnswerInv, MailInv
        <4> QED BY <1>0, <2>1, <3>2, <4>1
      <3> QED BY <3>1, <3>2
    <2>3. MailInv'
      BY <2>1, <2>2 DEF AnswerInv, MailInv
    <2> QED BY <2>1, <2>3 DEF AnswerInv, WroteInv, PairInv, AnswersOwnCall
  <1>3. CASE ServeClose
    <2>1. UNCHANGED answerVars
      BY <1>3 DEF ServeClose, answerVars, stateVars, callVars, inVars, serverVars
    <2> QED BY <2>1, FrameAnswer
  <1> QED BY <1>1, <1>2, <1>3 DEF ServerStep

LEMMA CallStepAnswer ==
  ASSUME DataTypes, CallInv, AnswerInv, NEW c \in Calls, Begin(c) \/ CallStep(c)
  PROVE  AnswerInv'
  <1> USE DEF stateVars, inVars, serverVars, Pcs
  <1>1. CASE Begin(c)
    BY <1>1, MoveAnswer DEF Begin
  <1>2. CASE IsClosed(c)
    BY <1>2, MoveAnswer DEF IsClosed
  <1>3. CASE LockReq(c)
    BY <1>3, MoveAnswer DEF LockReq
  <1>4. CASE Return(c)
    BY <1>4, MoveAnswer DEF Return
  <1>5. CASE Timeout(c)
    BY <1>5, MoveAnswer DEF Timeout
  <1>6. CASE RegisterOneWay(c)
    <2>1. /\ c \in OneWay /\ c \notin Normal
          /\ UNCHANGED <<seq, reqSeq, pending, mySeq, from, inCall, inResp, c2s, s2c,
                         running>>
          /\ \A d \in Normal : pc'[d] = pc[d]
      BY <1>6 DEF RegisterOneWay, Normal, DataTypes
    <2> QED BY <2>1 DEF AnswerInv, WroteInv, MailInv, PairInv, AnswersOwnCall
  <1> QED BY <1>1, <1>2, <1>3, <1>4, <1>5, <1>6, RegisterAnswer, WriteAnswer,
             UnregisterAnswer DEF CallStep

LEMMA NextAnswer ==
  ASSUME DataTypes, CallInv, AnswerInv, [Next]_vars
  PROVE  AnswerInv'
  <1> USE DEF stateVars, callVars, inVars, serverVars
  <1>1. CASE HeartTick
    <2>1. PICK p \in Pings : pc' = [pc EXCEPT ![p] = "isclosed"]
      BY <1>1 DEF HeartTick
    <2>2. p \in Calls /\ "isclosed" \in Pcs \ {"write"}
      BY DEF Calls, Pcs
    <2> QED BY <1>1, <2>1, <2>2, MoveAnswer DEF HeartTick
  <1>2. CASE \/ InputError \/ InputLockReq \/ Terminate \/ CallbackReturns
             \/ HeartResult \/ ServeStop \/ ConnLost \/ ConnSilent \/ UNCHANGED vars
             \/ \E p \in CloseProcs : CloseStep(p)
    <2>1. UNCHANGED answerVars
      BY <1>2 DEF InputError, InputLockReq, Terminate, TerminateAll, CallbackReturns,
            HeartResult, HeartResultAt, ServeStop, ConnLost, ConnSilent, CloseStep,
            CloseCodec, CloseLock, CloseSend, answerVars, vars
    <2> QED BY <2>1, FrameAnswer
  <1> QED BY <1>1, <1>2, CallStepAnswer, HeaderAnswer, BodyAnswer, ServerAnswer
          DEF Next, InputStep, HeartStep

(* A response completes the call whose request it answers, whatever timed out,
   failed to be written or was answered out of order in between; the only
   strangers are rejections of one-way calls (client.go:97-153, 162-205;
   server.go:391-410). *)
THEOREM RpcAnswersOwnCall == Spec => []AnswersOwnCall
  <1>1. Init => AnswerInv
    BY Disjoint DEF Init, AnswerInv, WroteInv, MailInv, PairInv, AnswersOwnCall
  <1>2. DataTypes /\ CallInv /\ AnswerInv /\ [Next]_vars => AnswerInv'
    BY NextAnswer
  <1>3. AnswerInv => AnswersOwnCall
    BY DEF AnswerInv
  <1> QED BY <1>1, <1>2, <1>3, RpcTypes, InductiveCall, PTL DEF Spec, TypeOK
=============================================================================
