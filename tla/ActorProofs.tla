---------------------------- MODULE ActorProofs -----------------------------
(***************************************************************************)
(* Proofs about module Actor, for every set of messages, every capacity of *)
(* the mailbox and both kinds of actor.                                    *)
(***************************************************************************)
EXTENDS Actor, QueueLemmas, TLAPS

(* A closed mailbox belongs to an inactive actor, and a dispatcher that has
   ended found it closed and empty. *)
CloseInv == /\ closed => ~active
            /\ dispatch = "end" => closed /\ queue = <<>>

(* A message enters the mailbox once, and is not handled before it leaves it. *)
MailboxInv ==
    /\ Distinct(queue)
    /\ \A m \in Elems(queue) : handler[m] = "none" /\ tell[m] \notin {"idle", "send"}
    /\ \A m \in Msgs : tell[m] \in {"idle", "send"} => handler[m] = "none"

(* What a Sync actor is handling is in the hand of its dispatcher. *)
InHandInv ==
    sync => \A m \in Msgs : handler[m] \in {"run", "reply"} => inHand = m

(* Who wrote messageInfo.err, and what Tell may have made of it. *)
ErrInv ==
    \A m \in NeedReply :
       /\ tell[m] # "ret" => result[m] = "none"
       /\ tell[m] \notin {"read", "ret"} => err[m] # "timeout"
       /\ err[m] = "error" => called[m] > 0
       /\ tell[m] = "read" /\ err[m] = "nil" => m \in isDone
       /\ m \in isDone => tell[m] \in {"read", "ret"} /\ err[m] # "timeout"

ActorInv ==
    /\ TypeOK /\ SyncInOrder /\ CloseInv /\ MailboxInv /\ InHandInv
    /\ ErrInv /\ ReplyTruthful

LEMMA HeadFacts ==
  ASSUME ActorInv, queue # <<>>
  PROVE  /\ Head(queue) \in Msgs /\ handler[Head(queue)] = "none"
         /\ tell[Head(queue)] \notin {"idle", "send"}
         /\ Tail(queue) \in Seq(Msgs) /\ Len(Tail(queue)) <= Cap
         /\ Elems(Tail(queue)) = Elems(queue) \ {Head(queue)}
         /\ Distinct(Tail(queue))
  <1>1. queue \in Seq(Msgs) /\ Len(queue) <= Cap
    BY DEF ActorInv, TypeOK
  <1>2. Head(queue) \in Msgs /\ Tail(queue) \in Seq(Msgs) /\ Len(Tail(queue)) <= Cap
    BY <1>1, ActorAssumption
  <1> QED BY <1>1, <1>2, TailElems DEF ActorInv, MailboxInv

LEMMA BegunType ==
  ASSUME TypeOK
  PROVE  Begun \in Seq(Msgs)
  <1>1. handled \in Seq(Msgs)
    BY DEF TypeOK
  <1>2. CASE inHand # NoMsg /\ handler[inHand] # "end"
    BY <1>1, <1>2 DEF Begun, TypeOK
  <1>3. CASE ~(inHand # NoMsg /\ handler[inHand] # "end")
    BY <1>1, <1>3 DEF Begun
  <1> QED BY <1>2, <1>3

LEMMA AcceptedAppend ==
  ASSUME NEW b \in Seq(Msgs), NEW q \in Seq(Msgs), NEW m \in Msgs
  PROVE  Append(b \o q, m) = b \o Append(q, m)
  OBVIOUS

LEMMA InitActor == Init => ActorInv
  <1> SUFFICES ASSUME Init PROVE ActorInv
    OBVIOUS
  <1> USE ActorAssumption DEF Init
  <1>1. TypeOK
    <2>1. active \in BOOLEAN /\ closed \in BOOLEAN /\ registered \in BOOLEAN
      OBVIOUS
    <2>2. queue \in Seq(Msgs) /\ Len(queue) <= Cap
      OBVIOUS
    <2>4. called \in [Msgs -> 0 .. MaxHandlers]
      OBVIOUS
    <2>3. /\ handler \in [Msgs -> {"none", "run", "reply", "end"}]
          /\ tell \in [Msgs -> {"idle", "send", "await", "read", "ret"}]
          /\ err \in [Msgs -> {"nil", "error", "timeout"}]
          /\ result \in [Msgs -> {"none", "nil", "error", "inactive", "panic",
                                  "timeout"}]
      OBVIOUS
    <2> QED BY <2>1, <2>2, <2>3, <2>4 DEF TypeOK
  <1>2. SyncInOrder
    BY DEF SyncInOrder, Begun
  <1>3. CloseInv
    BY DEF CloseInv
  <1>4. MailboxInv
    BY DEF MailboxInv, Elems, Distinct
  <1>5. InHandInv
    BY DEF InHandInv
  <1>6. ErrInv /\ ReplyTruthful
    BY DEF ErrInv, ReplyTruthful, NeedReply, Msgs
  <1> QED BY <1>1, <1>2, <1>3, <1>4, <1>5, <1>6 DEF ActorInv

LEMMA TellActor ==
  ASSUME ActorInv, NEW m \in Msgs,
         TellCheck(m) \/ TellPanics(m) \/ TellTimeout(m) \/ TellReturn(m)
  PROVE  ActorInv'
  <1> USE DEF ActorInv, TellCheck, TellPanics, TellTimeout, TellTimeoutWhen,
              TellReturn, Return, handleVars
  <1>u. UNCHANGED <<active, queue, closed, dispatch, inHand, handleVars,
                    accepted, sync, registered, destroy>>
    OBVIOUS
  <1>1. TypeOK'
    <2>1. /\ tell' \in [Msgs -> {"idle", "send", "await", "read", "ret"}]
          /\ err' \in [Msgs -> {"nil", "error", "timeout"}]
          /\ result' \in [Msgs -> {"none", "nil", "error", "inactive", "panic",
                                   "timeout"}]
      <3>1. CASE TellCheck(m)
        <4>1. CASE active
          BY <3>1, <4>1 DEF TypeOK
        <4>2. CASE ~active
          BY <3>1, <4>2 DEF TypeOK
        <4> QED BY <4>1, <4>2
      <3>2. CASE TellPanics(m)
        BY <3>2 DEF TypeOK
      <3>4. CASE TellReturn(m)
        <4>1. err[m] \in {"nil", "error", "timeout"}
          BY DEF TypeOK
        <4> QED BY <3>4, <4>1 DEF TypeOK
      <3>3. CASE TellTimeout(m)
        BY <3>3 DEF TypeOK
      <3> QED BY <3>1, <3>2, <3>3, <3>4
    <2> QED BY <1>u, <2>1 DEF TypeOK
  <1>2. SyncInOrder' /\ CloseInv' /\ InHandInv'
    BY <1>u DEF SyncInOrder, Begun, CloseInv, InHandInv, handleVars
  <1>3. MailboxInv'
    <2>1. Elems(queue)' = Elems(queue) /\ Distinct(queue)' = Distinct(queue)
      BY <1>u DEF Elems, Distinct
    <2>2. Elems(queue) \subseteq Msgs
      BY ElemsType DEF TypeOK
    <2> QED BY <1>u, <2>1, <2>2 DEF MailboxInv, TypeOK
  <1>4. ErrInv' /\ ReplyTruthful'
    BY DEF ErrInv, ReplyTruthful, MailboxInv, TypeOK, NeedReply, Msgs
  <1> QED BY <1>1, <1>2, <1>3, <1>4

LEMMA SendActor ==
  ASSUME ActorInv, NEW m \in Msgs, TellSend(m)
  PROVE  ActorInv'
  <1> USE DEF ActorInv, TellSend, TellSendTo, Return, handleVars
  <1>1. queue' = Append(queue, m) /\ queue \in Seq(Msgs) /\ Len(queue) < Cap
    BY DEF TypeOK, Room
  <1>2. queue' \in Seq(Msgs) /\ Len(queue') <= Cap /\ accepted' \in Seq(Msgs)
    BY <1>1, ActorAssumption DEF TypeOK
  <1>3. TypeOK'
    BY <1>2 DEF TypeOK
  <1>4. SyncInOrder'
    <2>1. accepted' = Append(accepted, m)
      OBVIOUS
    <2>2. Begun' = Begun
      BY DEF Begun, handleVars
    <2>3. SUFFICES ASSUME sync' PROVE accepted' = Begun' \o queue'
      BY DEF SyncInOrder
    <2>4. accepted = Begun \o queue
      BY <2>3 DEF SyncInOrder
    <2>5. queue \in Seq(Msgs) /\ m \in Msgs
      BY DEF TypeOK
    <2>6. accepted' = Begun \o queue'
      BY <1>1, <2>1, <2>4, <2>5, BegunType, AcceptedAppend
    <2> QED BY <2>2, <2>6, Zenon
  <1>5. CloseInv' /\ InHandInv'
    BY DEF CloseInv, InHandInv
  <1>6. m \notin Elems(queue)
    BY DEF MailboxInv
  <1>7. Elems(queue') = Elems(queue) \cup {m} /\ Distinct(queue')
    BY <1>1, <1>6, AppendElems DEF MailboxInv
  <1>u. UNCHANGED <<err, handler, called, isDone>> /\ tell[m] = "send" /\ handler[m] = "none"
    BY DEF MailboxInv
  <1>v. \/ /\ m \in NeedReply /\ tell' = [tell EXCEPT ![m] = "await"]
           /\ result' = result
        \/ /\ m \notin NeedReply /\ tell' = [tell EXCEPT ![m] = "ret"]
           /\ result' = [result EXCEPT ![m] = "nil"]
    OBVIOUS
  <1>8. MailboxInv'
    <2>1. Elems(queue) \subseteq Msgs
      BY <1>1, ElemsType
    <2> QED BY <1>u, <1>v, <1>7, <2>1 DEF MailboxInv, TypeOK
  <1>w. \A n \in NeedReply : n \in Msgs
    BY DEF NeedReply, Msgs
  <1>9. ErrInv'
    BY <1>u, <1>v, <1>w DEF ErrInv, TypeOK
  <1>10. ReplyTruthful'
    BY <1>u, <1>v, <1>w DEF ReplyTruthful, TypeOK
  <1> QED BY <1>3, <1>4, <1>5, <1>8, <1>9, <1>10

LEMMA DispatchActor ==
  ASSUME ActorInv, DispatchMessage
  PROVE  ActorInv'
  <1> USE DEF ActorInv, DispatchMessage, DispatchTo, tellVars
  <1> DEFINE h == Head(queue)
  <1>1. /\ h \in Msgs /\ handler[h] = "none" /\ tell[h] \notin {"idle", "send"}
        /\ queue' \in Seq(Msgs) /\ Len(queue') <= Cap
        /\ Elems(queue') = Elems(queue) \ {h} /\ Distinct(queue')
    BY HeadFacts
  <1>2. /\ handler' = [handler EXCEPT ![h] = "run"]
        /\ inHand' = IF sync THEN h ELSE NoMsg
        /\ UNCHANGED <<active, closed, dispatch, tell, err, result, destroy,
                       registered, accepted, called, isDone, handled, sync>>
    OBVIOUS
  <1> HIDE DEF h
  <1>3. TypeOK'
    <2>1. inHand' \in Msgs \cup {NoMsg}
      BY <1>1, <1>2
    <2> QED BY <1>1, <1>2, <2>1 DEF TypeOK
  <1>4. SyncInOrder'
    <2> SUFFICES ASSUME sync' PROVE accepted' = Begun' \o queue'
      BY DEF SyncInOrder
    <2>s. sync
      BY <1>2
    <2>1. Begun = handled
      BY <2>s DEF Begun, Selecting
    <2>2. Begun' = Append(handled, h)
      BY <2>s, <1>1, <1>2, ActorAssumption DEF Begun, TypeOK
    <2>3. Append(handled, h) \o queue' = handled \o queue
      BY HistoryTail DEF h, TypeOK
    <2> QED BY <2>s, <1>2, <2>1, <2>2, <2>3 DEF SyncInOrder
  <1>5. CloseInv'
    BY DEF CloseInv, Selecting
  <1>6. MailboxInv'
    <2>1. Elems(queue) \subseteq Msgs
      BY ElemsType DEF TypeOK
    <2> QED BY <1>1, <1>2, <2>1 DEF MailboxInv, TypeOK
  <1>7. InHandInv'
    BY <1>1, <1>2, ActorAssumption DEF InHandInv, Selecting, TypeOK
  <1>8. \A n \in NeedReply : n \in Msgs
    BY DEF NeedReply, Msgs
  <1>9. ErrInv'
    BY <1>1, <1>2, <1>8 DEF ErrInv, TypeOK
  <1>10. ReplyTruthful'
    BY <1>1, <1>2, <1>8 DEF ReplyTruthful, ErrInv, TypeOK
  <1> QED BY <1>3, <1>4, <1>5, <1>6, <1>7, <1>9, <1>10

LEMMA HandlerActor ==
  ASSUME ActorInv, NEW m \in Msgs, HandlerStep(m)
  PROVE  ActorInv'
  <1>w. \A n \in NeedReply : n \in Msgs
    BY DEF NeedReply, Msgs
  <1>1. ASSUME NEW e \in {"nil", "error"}, HandlerReturns(m, e) PROVE ActorInv'
    <2> USE <1>1 DEF ActorInv, HandlerReturns
    <2>1. TypeOK'
      <3>1. called' \in [Msgs -> 0 .. MaxHandlers]
        BY ActorAssumption DEF TypeOK
      <3> QED BY <3>1 DEF TypeOK
    <2>2. CloseInv' /\ MailboxInv'
      BY DEF CloseInv, MailboxInv, TypeOK
    <2>3. InHandInv'
      BY DEF InHandInv, TypeOK
    <2>4. SyncInOrder'
      BY DEF SyncInOrder, Begun, InHandInv, TypeOK
    <2>5. ErrInv' /\ ReplyTruthful'
      BY <1>w, ActorAssumption DEF ErrInv, ReplyTruthful, TypeOK
    <2> QED BY <2>1, <2>2, <2>3, <2>4, <2>5
  <1>2. CASE Reply(m)
    <2> USE <1>2 DEF ActorInv, Reply
    <2>1. TypeOK'
      BY DEF TypeOK
    <2>2. CloseInv' /\ MailboxInv'
      BY DEF CloseInv, MailboxInv, TypeOK
    <2>3. InHandInv'
      BY DEF InHandInv, TypeOK
    <2>4. SyncInOrder'
      BY DEF SyncInOrder, Begun, InHandInv, TypeOK
    <2>5. ErrInv' /\ ReplyTruthful'
      BY <1>w DEF ErrInv, ReplyTruthful, TypeOK
    <2> QED BY <2>1, <2>2, <2>3, <2>4, <2>5
  <1>3. CASE HandleEnds(m)
    <2> USE <1>3 DEF ActorInv, HandleEnds, tellVars
    <2>1. TypeOK'
      <3>1. handled' \in Seq(Msgs)
        BY DEF TypeOK
      <3> QED BY <3>1 DEF TypeOK
    <2>2. CloseInv' /\ MailboxInv'
      BY DEF CloseInv, MailboxInv, TypeOK
    <2>3. InHandInv'
      BY DEF InHandInv, TypeOK
    <2>4. SyncInOrder'
      <3> SUFFICES ASSUME sync PROVE accepted' = Begun' \o queue'
        BY DEF SyncInOrder
      <3>1. inHand = m /\ inHand' = m /\ m # NoMsg
        BY ActorAssumption DEF InHandInv
      <3>2. Begun = Append(handled, m) /\ Begun' = Append(handled, m)
        BY <3>1 DEF Begun, TypeOK
      <3> QED BY <3>2 DEF SyncInOrder
    <2>5. ErrInv' /\ ReplyTruthful'
      BY <1>w DEF ErrInv, ReplyTruthful, TypeOK
    <2> QED BY <2>1, <2>2, <2>3, <2>4, <2>5
  <1> QED BY <1>1, <1>2, <1>3 DEF HandlerStep

LEMMA OtherActor ==
  ASSUME ActorInv, \/ DispatchClose \/ DispatchEnd \/ Destroy
                   \/ Unregister \/ UNCHANGED vars
  PROVE  ActorInv'
  <1> USE DEF ActorInv, DispatchClose, DispatchEnd, DispatchEndWhen, Destroy,
              Unregister, UnregisterWhen, vars, tellVars, handleVars
  <1>1. TypeOK'
    BY DEF TypeOK
  <1>2. SyncInOrder' /\ MailboxInv' /\ ErrInv' /\ ReplyTruthful'
    <2>1. /\ UNCHANGED <<sync, inHand, handler, called, isDone, handled, tell, err,
                         result, queue, accepted>>
      OBVIOUS
    <2> QED BY <2>1, Zenon DEF SyncInOrder, Begun, MailboxInv, ErrInv, ReplyTruthful
  <1>3. CloseInv'
    BY DEF CloseInv
  <1>4. InHandInv'
    <2>1. sync' = sync /\ handler' = handler /\ inHand' = inHand
      OBVIOUS
    <2> QED BY <2>1 DEF InHandInv
  <1> QED BY <1>1, <1>2, <1>3, <1>4

LEMMA InductiveActor == Spec => []ActorInv
  <1>1. ActorInv /\ [Next]_vars => ActorInv'
    BY TellActor, SendActor, DispatchActor, HandlerActor, OtherActor
       DEF Next, TellStep
  <1> QED BY <1>1, InitActor, PTL DEF Spec

(* Type correctness; in particular the mailbox never exceeds its capacity. *)
THEOREM ActorTypes == Spec => []TypeOK
  <1>1. ActorInv => TypeOK
    BY DEF ActorInv
  <1> QED BY <1>1, InductiveActor, PTL

(* A Sync actor is through with one message before it begins the next, in the
   order in which its mailbox accepted them, and its handlers lose none to a
   timeout or to Destroy (ActorComponent.go:115, 139-175).  It rests on InHandInv:
   whatever runs, runs in the dispatcher. *)
THEOREM ActorSyncInOrder == Spec => []SyncInOrder
  <1>1. ActorInv => SyncInOrder
    BY DEF ActorInv
  <1> QED BY <1>1, InductiveActor, PTL

(* A dispatcher that has ended left nothing in the mailbox. *)
THEOREM ActorDrained == Spec => []DrainedAtEnd
  <1>1. ActorInv => DrainedAtEnd
    BY DEF ActorInv, CloseInv, DrainedAtEnd
  <1> QED BY <1>1, InductiveActor, PTL

(* A Sync actor handles one message at a time (ActorComponent.go:153-154). *)
THEOREM ActorOneAtATime == Spec => []OneAtATime
  <1>1. ActorInv => OneAtATime
    BY DEF ActorInv, InHandInv, OneAtATime
  <1> QED BY <1>1, InductiveActor, PTL

(* What a Tell with a reply returns is true of its handler, whichever of the
   timeout and the handler wrote messageInfo.err last. *)
THEOREM ActorReplyTruthful == Spec => []ReplyTruthful
  <1>1. ActorInv => ReplyTruthful
    BY DEF ActorInv
  <1> QED BY <1>1, InductiveActor, PTL
=============================================================================
