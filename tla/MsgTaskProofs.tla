--------------------------- MODULE MsgTaskProofs ---------------------------
(***************************************************************************)
(* Proofs about MsgTask: the reference count of the thread's delegate is   *)
(* exact, so that neither thread touches a deleted delegate and the last   *)
(* one deletes it, and the task implements FifoTask, for every set of      *)
(* messages.                                                               *)
(***************************************************************************)
EXTENDS MsgTask, SequenceTheorems, TLAPS

(* The message in hand is there only between msg_q_rcv and proc.           *)
InHandAtProc == msg # NoMsg <=> thread = "proc"

(* Whoever is about to delete the delegate is the last one left.           *)
LastDeletes ==
  /\ thread = "delete" => owner = "gone"
  /\ owner = "delete" => thread = "exited"
  /\ ~mThread /\ owner \in {"using", "unblocked"} => thread = "exited"

DelegateWhileNeeded == delegate <=> mRefCount > 0 \/ thread = "delete" \/ owner = "delete"

(* The thread leaves its loop only after destroy() has unblocked the queue. *)
LeavesUnblocked ==
  /\ owner # "using" => unblocked
  /\ thread # "exited" /\ ~mRunnable => unblocked
  /\ thread \in {"clear", "deleteRunnable", "checkRef", "decRef", "delete"} => unblocked

IInv ==
  /\ TypeOK
  /\ RefCountExact
  /\ InHandAtProc
  /\ LastDeletes
  /\ DelegateWhileNeeded
  /\ LeavesUnblocked

(* The constructor establishes the invariant, whether or not the thread    *)
(* could be created.                                                       *)
LEMMA InitIInv == Init => IInv
<1> SUFFICES ASSUME Init PROVE IInv
  OBVIOUS
<1>0. <<>> \in Seq(Messages) OBVIOUS
<1>1. TypeOK
  <2>1. mThread \in BOOLEAN /\ mRunnable \in BOOLEAN /\ delegate \in BOOLEAN /\ mJoinable \in BOOLEAN
    BY DEF Init
  <2>2. mRefCount \in 0..2 /\ thread \in ThreadAt /\ owner \in OwnerAt
    BY DEF Init, ThreadAt, OwnerAt
  <2> QED BY <1>0, <2>1, <2>2 DEF Init, TypeOK
<1>2. RefCountExact
  BY DEF Init, RefCountExact, ThreadHoldsRef, OwnerHoldsRef
<1>3. InHandAtProc /\ LastDeletes
  BY DEF Init, InHandAtProc, LastDeletes
<1>4. DelegateWhileNeeded
  BY DEF Init, DelegateWhileNeeded
<1>5. LeavesUnblocked
  BY DEF Init, LeavesUnblocked
<1> QED BY <1>1, <1>2, <1>3, <1>4, <1>5 DEF IInv

(* Every step of the senders, the thread and the owner preserves types.    *)
LEMMA TypeStep == IInv /\ [Next]_vars => TypeOK'
<1> SUFFICES ASSUME IInv, [Next]_vars PROVE TypeOK'
  OBVIOUS
<1> USE DEF IInv, TypeOK, ThreadAt, OwnerAt, queue, deleg, history
<1>1. ASSUME NEW m \in Messages, sendMsg(m) PROVE TypeOK'
  <2>1. list' \in Seq(Messages) /\ refused' \in SUBSET Messages
    BY <1>1 DEF sendMsg, msg_q_snd
  <2>2. signalled' \in BOOLEAN
    BY <1>1 DEF sendMsg, msg_q_snd, Signal
  <2> QED BY <1>1, <2>1, <2>2 DEF sendMsg
<1>2. CASE threadBegin BY <1>2 DEF threadBegin, ThreadGoes
<1>3. CASE threadLoop BY <1>3 DEF threadLoop, ThreadGoes
<1> DEFINE Received == list' \in Seq(Messages) /\ msg' \in Messages \cup {NoMsg} /\ thread' \in ThreadAt
<1>r. ASSUME Receive PROVE Received
  <2>1. CASE list = <<>> BY <1>r, <2>1 DEF Receive, ThreadGoes
  <2>2. CASE list # <<>> BY <1>r, <2>2, HeadTailProperties DEF Receive, ThreadGoes
  <2> QED BY <2>1, <2>2
<1>4. CASE msg_q_rcv
  <2>1. Received BY <1>4, <1>r DEF msg_q_rcv, ThreadGoes
  <2> QED BY <1>4, <2>1 DEF msg_q_rcv
<1>5. CASE msg_q_wake
  <2>1. Received BY <1>5, <1>r DEF msg_q_wake
  <2> QED BY <1>5, <2>1 DEF msg_q_wake
<1>6. CASE proc BY <1>6 DEF proc, ThreadGoes, InHandAtProc
<1>7. CASE threadClear BY <1>7 DEF threadClear, ThreadGoes
<1>e. <<>> \in Seq(Messages) OBVIOUS
<1>8. CASE deleteRunnable BY <1>e, <1>8 DEF deleteRunnable, ThreadGoes, DeleteTask
<1> DEFINE Destroyed == /\ mRefCount' \in 0..2 /\ mRunnable' \in BOOLEAN
                        /\ mJoinable' \in BOOLEAN /\ delegate' \in BOOLEAN
<1>d. ASSUME NEW pc, NEW pcNext, NEW end, destroyDelegate(pc, pcNext, end),
             pc = "decRef" => mRefCount > 0
      PROVE  Destroyed /\ pcNext \in {"decRef", "delete", end}
  <2>1. CASE checkRef(pc, pcNext, end) BY <2>1 DEF checkRef
  <2>2. CASE decRef(pc, pcNext, end) BY <1>d, <2>2 DEF decRef
  <2>3. CASE deleteDelegate(pc, pcNext, end) BY <2>3 DEF deleteDelegate
  <2> QED BY <1>d, <2>1, <2>2, <2>3 DEF destroyDelegate
<1>9. CASE threadDestroy
  <2>1. thread = "decRef" => mRefCount > 0
    BY DEF RefCountExact, ThreadHoldsRef, OwnerHoldsRef
  <2>2. Destroyed /\ thread' \in {"decRef", "delete", "exited"}
    BY <1>9, <2>1, <1>d DEF threadDestroy
  <2> QED BY <1>9, <2>2 DEF threadDestroy
<1>10. CASE msg_q_unblock BY <1>10 DEF msg_q_unblock, OwnerGoes, Signal
<1>11. CASE destroyTask BY <1>e, <1>11 DEF destroyTask, OwnerGoes, DeleteTask
<1>12. CASE bye BY <1>12 DEF bye, OwnerGoes
<1>13. CASE join BY <1>13 DEF join, OwnerGoes
<1>14. CASE ownerDestroy
  <2>1. owner = "decRef" => mRefCount > 0
    BY DEF RefCountExact, ThreadHoldsRef, OwnerHoldsRef
  <2>2. Destroyed /\ owner' \in {"decRef", "delete", "gone"}
    BY <1>14, <2>1, <1>d DEF ownerDestroy
  <2> QED BY <1>14, <2>2 DEF ownerDestroy
<1>15. CASE UNCHANGED vars BY <1>15 DEF vars
<1> QED
  BY <1>1, <1>2, <1>3, <1>4, <1>5, <1>6, <1>7, <1>8, <1>9, <1>10, <1>11, <1>12, <1>13,
     <1>14, <1>15 DEF Next, Thread, OwnerLeaves

(* The control part of the invariant: it does not look into the queue.     *)
Control == RefCountExact /\ InHandAtProc /\ LastDeletes /\ DelegateWhileNeeded /\ LeavesUnblocked

(* Every step preserves the reference count and what it stands for.        *)
LEMMA ControlStep == IInv /\ [Next]_vars => Control'
<1> SUFFICES ASSUME IInv, [Next]_vars PROVE Control'
  OBVIOUS
<1> USE MessagesAssumption
    DEF IInv, TypeOK, Control, ThreadAt, OwnerAt, queue, deleg, history, RefCountExact,
        ThreadHoldsRef, OwnerHoldsRef, InHandAtProc, LastDeletes, DelegateWhileNeeded,
        LeavesUnblocked
<1>1. ASSUME NEW m \in Messages, sendMsg(m) PROVE Control'
  BY <1>1 DEF sendMsg, msg_q_snd, Signal
<1>2. CASE threadBegin BY <1>2 DEF threadBegin, ThreadGoes
<1>3. CASE threadLoop BY <1>3 DEF threadLoop, ThreadGoes
<1>4. CASE msg_q_rcv BY <1>4 DEF msg_q_rcv, ThreadGoes, Receive
<1>5. CASE msg_q_wake BY <1>5 DEF msg_q_wake, ThreadGoes, Receive
<1>6. CASE proc BY <1>6 DEF proc, ThreadGoes
<1>7. CASE threadClear BY <1>7 DEF threadClear, ThreadGoes
<1>8. CASE deleteRunnable BY <1>8 DEF deleteRunnable, ThreadGoes, DeleteTask
<1>9. CASE threadDestroy
  BY <1>9 DEF threadDestroy, destroyDelegate, checkRef, decRef, deleteDelegate
<1>10. CASE msg_q_unblock BY <1>10 DEF msg_q_unblock, OwnerGoes, Signal
<1>11. CASE destroyTask BY <1>11 DEF destroyTask, OwnerGoes, DeleteTask
<1>12. CASE bye BY <1>12 DEF bye, OwnerGoes
<1>13. CASE join BY <1>13 DEF join, OwnerGoes
<1>14. CASE ownerDestroy
  BY <1>14 DEF ownerDestroy, destroyDelegate, checkRef, decRef, deleteDelegate
<1>15. CASE UNCHANGED vars BY <1>15 DEF vars
<1> QED
  BY <1>1, <1>2, <1>3, <1>4, <1>5, <1>6, <1>7, <1>8, <1>9, <1>10, <1>11, <1>12, <1>13,
     <1>14, <1>15 DEF Next, Thread, OwnerLeaves

(* The invariant holds in every reachable state.                           *)
LEMMA Invariance == Spec => []IInv
<1>1. IInv /\ [Next]_vars => IInv'
  BY TypeStep, ControlStep DEF IInv, Control
<1> QED BY InitIInv, <1>1, PTL DEF Spec

(* Types are respected in every reachable state of MsgTask, msg_q and      *)
(* LocThreadDelegate.                                                      *)
THEOREM TypeCorrect == Spec => []TypeOK
<1>1. IInv => TypeOK BY DEF IInv
<1> QED BY Invariance, <1>1, PTL

(* LocThreadDelegate::destroy counts exactly, so the delegate lives as     *)
(* long as a thread may touch it and is gone once both are through.        *)
THEOREM DelegateLifetime ==
  Spec => [](DelegateOutlivesUsers /\ RefCountExact /\ DelegateFreed)
<1>1. IInv => DelegateOutlivesUsers /\ RefCountExact /\ DelegateFreed
  BY DEF IInv, TypeOK, ThreadAt, OwnerAt, RefCountExact, ThreadHoldsRef, OwnerHoldsRef,
     LastDeletes, DelegateWhileNeeded, DelegateOutlivesUsers, DelegateFreed
<1> QED BY Invariance, <1>1, PTL

(* "else case shouldn't happen": a caller of LocThreadDelegate::destroy    *)
(* never finds the count at zero, for the references held by the thread    *)
(* and by the owner always add up to it.                                   *)
THEOREM ReferencesAddUp == Spec => []RefCountExact
<1>1. IInv => RefCountExact BY DEF IInv
<1> QED BY Invariance, <1>1, PTL

(* The last of the two callers of destroy() frees the delegate.            *)
THEOREM LastCallerFrees == Spec => []DelegateFreed
<1>1. DelegateOutlivesUsers /\ RefCountExact /\ DelegateFreed => DelegateFreed OBVIOUS
<1> QED BY DelegateLifetime, <1>1, PTL

-----------------------------------------------------------------------------
(* Wake-ups.  The thread goes to sleep only under list_mutex, having seen  *)
(* an empty, blocking queue, and whatever changes that signals it; so      *)
(* NoLostWakeup is inductive by itself.                                    *)

(* Every step keeps a sleeping thread signalled or its queue empty.        *)
LEMMA WakeupStep == NoLostWakeup /\ [Next]_vars => NoLostWakeup'
<1> SUFFICES ASSUME NoLostWakeup, [Next]_vars PROVE NoLostWakeup'
  OBVIOUS
<1> USE DEF NoLostWakeup, queue, deleg, history
<1>1. ASSUME NEW m \in Messages, sendMsg(m) PROVE NoLostWakeup'
  BY <1>1 DEF sendMsg, msg_q_snd, Signal
<1>2. CASE threadBegin BY <1>2 DEF threadBegin, ThreadGoes
<1>3. CASE threadLoop BY <1>3 DEF threadLoop, ThreadGoes
<1>4. CASE msg_q_rcv BY <1>4 DEF msg_q_rcv, ThreadGoes, Receive
<1>5. CASE msg_q_wake BY <1>5 DEF msg_q_wake, ThreadGoes, Receive
<1>6. CASE proc BY <1>6 DEF proc, ThreadGoes
<1>7. CASE threadClear BY <1>7 DEF threadClear, ThreadGoes
<1>8. CASE deleteRunnable BY <1>8 DEF deleteRunnable, ThreadGoes, DeleteTask
<1>9. CASE threadDestroy
  BY <1>9 DEF threadDestroy, destroyDelegate, checkRef, decRef, deleteDelegate
<1>10. CASE msg_q_unblock BY <1>10 DEF msg_q_unblock, Signal
<1>11. CASE destroyTask BY <1>11 DEF destroyTask, DeleteTask
<1>12. CASE bye \/ join \/ ownerDestroy
  BY <1>12 DEF bye, join, ownerDestroy
<1>13. CASE UNCHANGED vars BY <1>13 DEF vars
<1> QED
  BY <1>1, <1>2, <1>3, <1>4, <1>5, <1>6, <1>7, <1>8, <1>9, <1>10, <1>11, <1>12, <1>13
     DEF Next, Thread, OwnerLeaves

(* No interleaving of msg_q_snd, msg_q_unblock and the wait of msg_q_rcv   *)
(* leaves the thread asleep with a message, or with an unblocked queue,    *)
(* and no signal on its way.                                               *)
THEOREM NoWakeupIsLost == Spec => []NoLostWakeup
<1>1. Init => NoLostWakeup BY DEF Init, NoLostWakeup
<1> QED BY <1>1, WakeupStep, PTL DEF Spec

-----------------------------------------------------------------------------
(* Facts about the sequence of messages not handled yet.                   *)

(* Taking the oldest message in hand changes nothing for the clients.      *)
LEMMA TakeInHand ==
  ASSUME NEW S, NEW s \in Seq(S), s # <<>>
  PROVE  <<Head(s)>> \o Tail(s) = s
  BY HeadTailProperties, ConcatProperties, SMTT(30)

(* A message sent while another is in hand goes to the end.                *)
LEMMA SendWhileInHand ==
  ASSUME NEW S, NEW s \in Seq(S), NEW x \in S, NEW m \in S
  PROVE  <<x>> \o Append(s, m) = Append(<<x>> \o s, m)
<1>1. Append(s, m) = s \o <<m>> /\ Append(<<x>> \o s, m) = (<<x>> \o s) \o <<m>>
  BY AppendIsConcat, ConcatProperties
<1>2. <<x>> \in Seq(S) /\ <<m>> \in Seq(S) OBVIOUS
<1> QED BY <1>1, <1>2, ConcatAssociative

(* The message in hand is the oldest of those not handled.                 *)
LEMMA InHandIsHead ==
  ASSUME NEW S, NEW s \in Seq(S), NEW x \in S
  PROVE  /\ <<x>> \o s # <<>>
         /\ Head(<<x>> \o s) = x
         /\ Tail(<<x>> \o s) = s
<1>1. <<x>> \in Seq(S) OBVIOUS
<1> QED BY <1>1, ConcatProperties, HeadTailProperties, SMTT(30)

-----------------------------------------------------------------------------
(* Every step of the detailed task is a step of FifoTask or none at all.   *)
LEMMA FifoStep == IInv /\ IInv' /\ [Next]_vars => [Fifo!Next]_Fifo!absvars
<1> SUFFICES ASSUME IInv, IInv', [Next]_vars PROVE [Fifo!Next]_Fifo!absvars
  OBVIOUS
<1> DEFINE pending == InHand \o list
           Silent == UNCHANGED <<pending, handled, unblocked>>
<1>t. /\ list \in Seq(Messages) /\ msg \in Messages \cup {NoMsg}
      /\ <<>> \in Seq(Messages)
  BY DEF IInv, TypeOK
<1>p. msg = NoMsg => pending = list
  BY <1>t, ConcatEmptySeq DEF InHand
<1>q. msg' = NoMsg => pending' = list'
  BY ConcatEmptySeq DEF InHand, IInv, TypeOK
<1>s. ASSUME Silent PROVE [Fifo!Next]_Fifo!absvars
  BY <1>s DEF Fifo!absvars
<1>f. ASSUME UNCHANGED <<list, msg, handled, unblocked>> PROVE Silent
  BY <1>f DEF InHand
<1>1. ASSUME NEW m \in Messages, sendMsg(m) PROVE [Fifo!Next]_Fifo!absvars
  <2>1. CASE unblocked
    BY <1>1, <2>1, <1>f, <1>s DEF sendMsg
  <2>2. CASE ~unblocked
    <3>1. list' = Append(list, m) /\ msg' = msg /\ handled' = handled /\ unblocked' = unblocked
      BY <1>1, <2>2 DEF sendMsg, msg_q_snd
    <3>2. pending' = Append(pending, m)
      <4>1. CASE msg = NoMsg BY <4>1, <3>1, <1>p, <1>q
      <4>2. CASE msg # NoMsg BY <4>2, <3>1, <1>t, SendWhileInHand DEF InHand
      <4> QED BY <4>1, <4>2
    <3>3. Fifo!Accept BY <2>2, <3>1, <3>2 DEF Fifo!Accept
    <3> QED BY <3>3 DEF Fifo!Next
  <2> QED BY <2>1, <2>2
<1>2. CASE threadBegin BY <1>2, <1>f, <1>s DEF threadBegin, queue, history
<1>3. CASE threadLoop BY <1>3, <1>f, <1>s DEF threadLoop, queue, history
<1>r. ASSUME Receive, msg = NoMsg, handled' = handled, unblocked' = unblocked PROVE Silent
  <2>1. CASE list = <<>> BY <1>r, <1>f, <2>1 DEF Receive
  <2>2. CASE list # <<>>
    <3>1. msg' = Head(list) /\ list' = Tail(list) /\ msg' # NoMsg
      BY <1>r, <2>2, <1>t, HeadTailProperties, MessagesAssumption DEF Receive
    <3>2. pending' = <<Head(list)>> \o Tail(list) BY <3>1 DEF InHand
    <3>3. pending' = pending BY <3>2, <1>r, <1>p, <1>t, <2>2, TakeInHand
    <3> QED BY <3>3, <1>r
  <2> QED BY <2>1, <2>2
<1>4. CASE msg_q_rcv
  <2>1. msg = NoMsg BY <1>4 DEF msg_q_rcv, IInv, InHandAtProc
  <2>2. handled' = handled /\ unblocked' = unblocked BY <1>4 DEF msg_q_rcv, history
  <2>3. Receive \/ UNCHANGED <<list, msg>> BY <1>4 DEF msg_q_rcv
  <2> QED BY <2>1, <2>2, <2>3, <1>r, <1>f, <1>s
<1>5. CASE msg_q_wake
  <2>1. msg = NoMsg BY <1>5 DEF msg_q_wake, IInv, InHandAtProc
  <2>2. handled' = handled /\ unblocked' = unblocked BY <1>5 DEF msg_q_wake, history
  <2>3. Receive \/ UNCHANGED <<list, msg>> BY <1>5 DEF msg_q_wake
  <2> QED BY <2>1, <2>2, <2>3, <1>r, <1>f, <1>s
<1>6. CASE proc
  <2>1. msg \in Messages /\ InHand = <<msg>>
    BY <1>6, <1>t DEF proc, IInv, InHandAtProc, InHand
  <2>2. pending # <<>> /\ Head(pending) = msg /\ Tail(pending) = list
    BY <2>1, <1>t, InHandIsHead
  <2>3. pending' = list
    BY <1>6, <1>q DEF proc, queue
  <2>4. Fifo!Handle
    BY <1>6, <2>2, <2>3 DEF proc, queue, Fifo!Handle
  <2> QED BY <2>4 DEF Fifo!Next
<1>7. CASE threadClear BY <1>7, <1>f, <1>s DEF threadClear, queue, history
<1>d. ASSUME DeleteTask, msg = NoMsg, msg' = msg, unblocked, UNCHANGED <<unblocked, handled>>
      PROVE  [Fifo!Next]_Fifo!absvars
  <2>1. pending' = <<>> BY <1>d, <1>q DEF DeleteTask
  <2>2. Fifo!Drop BY <1>d, <2>1 DEF Fifo!Drop
  <2> QED BY <2>2 DEF Fifo!Next
<1>8. CASE deleteRunnable
  <2>1. msg = NoMsg /\ unblocked
    BY <1>8 DEF deleteRunnable, IInv, InHandAtProc, LeavesUnblocked
  <2> QED BY <1>8, <1>d, <2>1 DEF deleteRunnable, history
<1>9. CASE threadDestroy BY <1>9, <1>f, <1>s DEF threadDestroy, queue, history
<1>10. CASE msg_q_unblock
  <2>1. pending' = pending BY <1>10 DEF msg_q_unblock, InHand
  <2>2. Fifo!Close BY <1>10, <2>1 DEF msg_q_unblock, history, Fifo!Close
  <2> QED BY <2>2 DEF Fifo!Next
<1>11. CASE destroyTask
  <2>1. CASE mThread BY <1>11, <2>1, <1>f, <1>s DEF destroyTask, history
  <2>2. CASE ~mThread
    <3>1. msg = NoMsg /\ unblocked
      BY <1>11, <2>2 DEF destroyTask, IInv, InHandAtProc, LastDeletes, LeavesUnblocked
    <3> QED BY <1>11, <2>2, <3>1, <1>d DEF destroyTask, history
  <2> QED BY <2>1, <2>2
<1>12. CASE bye BY <1>12, <1>f, <1>s DEF bye, queue, history
<1>13. CASE join BY <1>13, <1>f, <1>s DEF join, queue, history
<1>14. CASE ownerDestroy BY <1>14, <1>f, <1>s DEF ownerDestroy, queue, history
<1>15. CASE UNCHANGED vars BY <1>15, <1>f, <1>s DEF vars, queue, history
<1> QED
  BY <1>1, <1>2, <1>3, <1>4, <1>5, <1>6, <1>7, <1>8, <1>9, <1>10, <1>11, <1>12, <1>13,
     <1>14, <1>15 DEF Next, Thread, OwnerLeaves

(* MsgTask implements FifoTask: whatever the interleaving of senders, the  *)
(* thread and destroy(), accepted messages are handled in order and at     *)
(* most once, and none is dropped before the queue is unblocked.           *)
THEOREM ImplementsFifo == Spec => FifoSpec
<1>1. Init => Fifo!Init
  <2> SUFFICES ASSUME Init PROVE Fifo!Init
    OBVIOUS
  <2>1. InHand \o list = <<>>
    BY ConcatEmptySeq, EmptySeq DEF Init, InHand
  <2> QED BY <2>1 DEF Init, Fifo!Init
<1> QED BY Invariance, <1>1, FifoStep, PTL DEF Spec, FifoSpec, Fifo!Spec
=============================================================================
