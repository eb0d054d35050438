------------------------------- MODULE MsgTask -------------------------------
(***************************************************************************)
(* A message task of the GNSS HAL: the queue (gps/utils/msg_q.c over       *)
(* linked_list.c), the task that owns it (MsgTask.cpp) and the thread that *)
(* runs the task (LocThread.cpp).  Any thread sends messages, the task's   *)
(* thread handles them, and one owner destroys the task once.              *)
(*                                                                         *)
(* What runs under list_mutex or under the delegate's mMutex is one step,  *)
(* and so is each unprotected access to memory shared by two threads.      *)
(*                                                                         *)
(* Abstractions: a message is a model value, sent at most once (it is an   *)
(* object the task frees).  Allocation does not fail.  Clients do not send *)
(* to a task that has been deleted.                                        *)
(***************************************************************************)
EXTENDS Naturals, Sequences, FiniteSets

CONSTANTS
  Messages,  \* the messages clients send
  NoMsg      \* no message in hand

ASSUME MessagesAssumption == NoMsg \notin Messages

VARIABLES
  list,        \* msg_q.msg_list, oldest first
  unblocked,   \* msg_q.unblocked
  signalled,   \* has list_cond woken the waiting thread
  mThread,     \* MsgTask::mThread # NULL
  taskAlive,   \* the MsgTask and its queue are allocated
  mRunnable,   \* LocThreadDelegate::mRunnable # NULL
  mJoinable,   \* LocThreadDelegate::mJoinable
  mRefCount,   \* LocThreadDelegate::mRefCount
  delegate,    \* the LocThreadDelegate is allocated
  thread,      \* where the task's thread is
  owner,       \* where the owner is in MsgTask::destroy
  msg,         \* the message the thread has in hand
  handled,     \* history: messages handled, oldest first
  refused      \* history: messages msg_q_snd refused

queue == <<list, unblocked, signalled>>
deleg == <<mRunnable, mJoinable, mRefCount, delegate>>
history == <<handled, refused>>
vars == <<queue, mThread, taskAlive, deleg, thread, owner, msg, history>>

ThreadAt == {"begin", "loop", "rcv", "wait", "proc", "clear", "deleteRunnable",
             "checkRef", "decRef", "delete", "exited"}
OwnerAt  == {"using", "unblocked", "bye", "join", "checkRef", "decRef", "delete", "gone"}

TypeOK ==
  /\ list \in Seq(Messages)
  /\ unblocked \in BOOLEAN /\ signalled \in BOOLEAN
  /\ mThread \in BOOLEAN /\ taskAlive \in BOOLEAN
  /\ mRunnable \in BOOLEAN /\ mJoinable \in BOOLEAN /\ delegate \in BOOLEAN
  /\ mRefCount \in 0..2
  /\ thread \in ThreadAt
  /\ owner \in OwnerAt
  /\ msg \in Messages \cup {NoMsg}
  /\ handled \in Seq(Messages)
  /\ refused \in SUBSET Messages

(* After the constructor.  If the thread could not be created the delegate *)
(* is already gone (create destroys it) and the task has no LocThread.     *)
Init ==
  /\ list = <<>> /\ unblocked = FALSE /\ signalled = FALSE
  /\ taskAlive = TRUE
  /\ mThread \in BOOLEAN
  /\ mRunnable = mThread /\ delegate = mThread
  /\ mJoinable \in {FALSE, mThread}
  /\ mRefCount = IF mThread THEN 2 ELSE 0
  /\ thread = IF mThread THEN "begin" ELSE "exited"
  /\ owner = "using"
  /\ msg = NoMsg
  /\ handled = <<>> /\ refused = {}

-----------------------------------------------------------------------------
(* msg_q_snd and msg_q_unblock wake the thread that waits on list_cond.    *)

Signal == signalled' = (signalled \/ thread = "wait")

Sent == {list[i] : i \in 1..Len(list)} \cup {handled[i] : i \in 1..Len(handled)}
          \cup refused \cup {msg}

\* Mutants: the condition is not signalled; the newest message is the first out.
SendUnsignalled(m) ==
  /\ list' = Append(list, m)
  /\ UNCHANGED <<signalled, refused>>

SendLifo(m) ==
  /\ list' = <<m>> \o list
  /\ Signal
  /\ UNCHANGED refused

(* linked_list_add, and the signal.                                        *)
msg_q_snd(m) ==
  /\ list' = Append(list, m)
  /\ Signal
  /\ UNCHANGED refused

(* MsgTask::sendMsg.  A queue that has been unblocked refuses the message, *)
(* and nothing frees it.                                                   *)
sendMsg(m) ==
  /\ taskAlive
  /\ m \notin Sent
  /\ IF unblocked
     THEN refused' = refused \cup {m} /\ UNCHANGED <<list, signalled>>
     ELSE msg_q_snd(m)
  /\ UNCHANGED <<unblocked, mThread, taskAlive, deleg, thread, owner, msg, handled>>

-----------------------------------------------------------------------------
(* LocThreadDelegate::threadMain running MsgTask::run.                     *)

ThreadGoes(pc) == thread' = pc

(* Reads mRunnable once; a thread stopped before it got here deletes       *)
(* nothing.                                                                *)
threadBegin ==
  /\ thread = "begin"
  /\ ThreadGoes(IF mRunnable THEN "loop" ELSE "checkRef")
  /\ UNCHANGED <<queue, mThread, taskAlive, deleg, owner, msg, history>>

\* while (isRunning() && run()), with prerun and postrun empty of effects.
threadLoop ==
  /\ thread = "loop"
  /\ ThreadGoes(IF mRunnable THEN "rcv" ELSE "clear")
  /\ UNCHANGED <<queue, mThread, taskAlive, deleg, owner, msg, history>>

\* linked_list_remove, and run's reaction to an empty list.
Receive ==
  IF list = <<>>
  THEN ThreadGoes("clear") /\ UNCHANGED <<list, msg>>
  ELSE /\ msg' = Head(list)
       /\ list' = Tail(list)
       /\ ThreadGoes("proc")

(* msg_q_rcv up to the wait.                                               *)
msg_q_rcv ==
  /\ thread = "rcv"
  /\ IF unblocked THEN ThreadGoes("clear") /\ UNCHANGED <<list, msg>>
     ELSE IF list = <<>> THEN ThreadGoes("wait") /\ UNCHANGED <<list, msg>>
     ELSE Receive
  /\ UNCHANGED <<unblocked, signalled, mThread, taskAlive, deleg, owner, history>>

(* msg_q_rcv after pthread_cond_wait: the loop re-checks its condition.    *)
msg_q_wake ==
  /\ thread = "wait" /\ signalled
  /\ signalled' = FALSE
  /\ IF list = <<>> /\ ~unblocked THEN UNCHANGED <<thread, list, msg>> ELSE Receive
  /\ UNCHANGED <<unblocked, mThread, taskAlive, deleg, owner, history>>

\* msg->proc(), then delete msg.
proc ==
  /\ thread = "proc"
  /\ handled' = Append(handled, msg)
  /\ msg' = NoMsg
  /\ ThreadGoes("loop")
  /\ UNCHANGED <<queue, mThread, taskAlive, deleg, owner, refused>>

threadClear ==
  /\ thread = "clear"
  /\ mRunnable' = FALSE
  /\ ThreadGoes("deleteRunnable")
  /\ UNCHANGED <<queue, mThread, taskAlive, mJoinable, mRefCount, delegate, owner, msg, history>>

\* ~MsgTask: msg_q_flush frees what is left, msg_q_destroy the queue.
DeleteTask == taskAlive' = FALSE /\ list' = <<>>

deleteRunnable ==
  /\ thread = "deleteRunnable"
  /\ DeleteTask
  /\ ThreadGoes("checkRef")
  /\ UNCHANGED <<unblocked, signalled, mThread, deleg, owner, msg, history>>

-----------------------------------------------------------------------------
(* LocThreadDelegate::destroy, called by the thread and by the owner.  pc  *)
(* and pc' are the caller's position, end the position after it.           *)

checkRef(pc, pcNext, end) ==
  /\ pc = "checkRef"
  /\ pcNext = IF mRefCount > 0 THEN "decRef" ELSE end
  /\ UNCHANGED deleg

\* Mutants: the wrong destroy() deletes; nobody does.
DecRefOffByOne(pc, pcNext, end) ==
  /\ pc = "decRef"
  /\ mRefCount' = mRefCount - 1
  /\ pcNext = IF mRefCount = 2 THEN "delete" ELSE end
  /\ UNCHANGED <<mRunnable, mJoinable, delegate>>

DecRefNotLast(pc, pcNext, end) ==
  /\ pc = "decRef"
  /\ mRefCount' = mRefCount - 1
  /\ pcNext = IF mRefCount = 0 THEN "delete" ELSE end
  /\ UNCHANGED <<mRunnable, mJoinable, delegate>>

decRef(pc, pcNext, end) ==
  /\ pc = "decRef"
  /\ mRefCount' = mRefCount - 1
  /\ pcNext = IF mRefCount = 1 THEN "delete" ELSE end
  /\ UNCHANGED <<mRunnable, mJoinable, delegate>>

deleteDelegate(pc, pcNext, end) ==
  /\ pc = "delete"
  /\ delegate' = FALSE
  /\ pcNext = end
  /\ UNCHANGED <<mRunnable, mJoinable, mRefCount>>

destroyDelegate(pc, pcNext, end) ==
  \/ checkRef(pc, pcNext, end)
  \/ decRef(pc, pcNext, end)
  \/ deleteDelegate(pc, pcNext, end)

threadDestroy ==
  /\ destroyDelegate(thread, thread', "exited")
  /\ UNCHANGED <<queue, mThread, taskAlive, owner, msg, history>>

-----------------------------------------------------------------------------
(* MsgTask::destroy, on the owner's thread.                                *)

OwnerGoes(pc) == owner' = pc

\* Mutant: sleeping waiters are not woken.
UnblockUnsignalled ==
  /\ owner = "using"
  /\ unblocked' = TRUE
  /\ OwnerGoes("unblocked")
  /\ UNCHANGED <<list, signalled, mThread, taskAlive, deleg, thread, msg, history>>

msg_q_unblock ==
  /\ owner = "using"
  /\ unblocked' = TRUE
  /\ Signal
  /\ OwnerGoes("unblocked")
  /\ UNCHANGED <<list, mThread, taskAlive, deleg, thread, msg, history>>

\* With a thread the handle is cleared; without one the task deletes itself.
destroyTask ==
  /\ owner = "unblocked"
  /\ IF mThread
     THEN mThread' = FALSE /\ OwnerGoes("bye") /\ UNCHANGED <<taskAlive, list>>
     ELSE DeleteTask /\ OwnerGoes("gone") /\ UNCHANGED mThread
  /\ UNCHANGED <<unblocked, signalled, deleg, thread, msg, history>>

\* Mutant: the joinable thread is stopped but not joined.
ByeUnjoined ==
  /\ owner = "bye"
  /\ IF mJoinable
     THEN mRunnable' = FALSE /\ mJoinable' = FALSE /\ OwnerGoes("gone")
     ELSE OwnerGoes("checkRef") /\ UNCHANGED <<mRunnable, mJoinable>>
  /\ UNCHANGED <<queue, mThread, taskAlive, mRefCount, delegate, thread, msg, history>>

(* LocThread::~LocThread: bye() stops a joinable thread, and goes straight *)
(* to destroy() for a detached one.                                        *)
bye ==
  /\ owner = "bye"
  /\ IF mJoinable
     THEN mRunnable' = FALSE /\ mJoinable' = FALSE /\ OwnerGoes("join")
     ELSE OwnerGoes("checkRef") /\ UNCHANGED <<mRunnable, mJoinable>>
  /\ UNCHANGED <<queue, mThread, taskAlive, mRefCount, delegate, thread, msg, history>>

\* pthread_join returns once the thread has.
join ==
  /\ owner = "join" /\ thread = "exited"
  /\ OwnerGoes("checkRef")
  /\ UNCHANGED <<queue, mThread, taskAlive, deleg, thread, msg, history>>

ownerDestroy ==
  /\ destroyDelegate(owner, owner', "gone")
  /\ UNCHANGED <<queue, mThread, taskAlive, thread, msg, history>>

-----------------------------------------------------------------------------
Thread ==
  \/ threadBegin \/ threadLoop \/ msg_q_rcv \/ msg_q_wake \/ proc
  \/ threadClear \/ deleteRunnable \/ threadDestroy

OwnerLeaves == destroyTask \/ bye \/ join \/ ownerDestroy

Next ==
  \/ \E m \in Messages : sendMsg(m)
  \/ Thread
  \/ msg_q_unblock
  \/ OwnerLeaves

Spec == Init /\ [][Next]_vars

(* The kernel schedules the thread while it can run, and an owner that     *)
(* entered destroy() runs to its end.  Nobody is obliged to send, nor the  *)
(* owner to destroy the task.                                              *)
FairSpec == Spec /\ WF_vars(Thread) /\ WF_vars(OwnerLeaves)

-----------------------------------------------------------------------------
(* Properties.                                                             *)

InHand == IF msg = NoMsg THEN <<>> ELSE <<msg>>

(* The task, as its clients see it, is a FIFO: msg_q_snd, msg_q_rcv, run   *)
(* and the flush in ~MsgTask implement FifoTask.                           *)
Fifo == INSTANCE FifoTask WITH
          pending <- InHand \o list, handled <- handled, open <- ~unblocked
FifoSpec == Fifo!Spec

(* "delete this obj when mRefCount becomes 0" (LocThread.cpp, destroy):    *)
(* neither thread reads or writes the delegate after the other has deleted *)
(* it.  The thread uses it in threadMain until it leaves destroy(), the    *)
(* owner from the destructor of LocThread on.                              *)
DelegateOutlivesUsers ==
  /\ thread # "exited" => delegate
  /\ owner \in {"bye", "join", "checkRef", "decRef", "delete"} => delegate

(* "else case shouldn't happen" (LocThread.cpp, destroy): a thread that    *)
(* calls destroy() still holds its reference, and the references held add  *)
(* up to mRefCount.                                                        *)
ThreadHoldsRef == IF thread \in {"delete", "exited"} THEN 0 ELSE 1
OwnerHoldsRef ==
  IF owner \in {"delete", "gone"} \/ (owner \in {"using", "unblocked"} /\ ~mThread)
  THEN 0 ELSE 1
RefCountExact == mRefCount = ThreadHoldsRef + OwnerHoldsRef

(* "upon last destroy() call we delete this obj": once both threads are    *)
(* through, the delegate has been freed.                                   *)
DelegateFreed == thread = "exited" /\ owner = "gone" => ~delegate

(* Nobody waits for a wake-up that is not coming: a thread asleep in       *)
(* msg_q_rcv without a signal has an empty, still blocking queue.          *)
NoLostWakeup ==
  thread = "wait" /\ ~signalled => list = <<>> /\ ~unblocked

(* "this obj will be deleted once thread is deleted" (MsgTask.h, destroy): *)
(* the task is not deleted while its owner still is in MsgTask::destroy    *)
(* and about to write mThread.                                             *)
TaskOutlivesDestroy == owner \in {"using", "unblocked"} => taskAlive

(* "The obj will be deleted by LocThread if start() returns true"          *)
(* (LocThread.h, start): when thread and owner are through, the task and   *)
(* the messages left in its queue have been freed.                         *)
TaskFreed == thread = "exited" /\ owner = "gone" => ~taskAlive

(* destroy() terminates, the thread with it: no join waits for a thread    *)
(* that sleeps in msg_q_rcv.                                               *)
DestroyCompletes == owner = "unblocked" ~> (owner = "gone" /\ thread = "exited")

(* A message in the queue of a running task does not stay there.           *)
MessageLeaves ==
  \A m \in Messages :
    (thread # "exited" /\ \E i \in 1..Len(list) : list[i] = m)
      ~> (\A i \in 1..Len(list) : list[i] # m) \/ thread = "exited"
=============================================================================
