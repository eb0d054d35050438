------------------------------ MODULE LocTimer ------------------------------
(***************************************************************************)
(* The timer service (gps/utils/LocTimer.cpp): one container of timers,    *)
(* its heap ordered by expiry time, the timerfd that is armed for the      *)
(* soonest timer, the thread that polls it and the message task on which   *)
(* the heap is changed and callbacks are made.                             *)
(*                                                                         *)
(* LocTimer::start and stop run under the client's lock on the client's    *)
(* thread, in one step.  The polling thread's expire() makes three calls   *)
(* in two steps; the handler of an expiry pops a delegate and reads its    *)
(* client in one step, and stops and calls the client in the next one, for *)
(* no lock is held in between.  Timers and alarms have each a container of *)
(* their own: one container is modelled.                                   *)
(***************************************************************************)
EXTENDS Integers, Sequences, FiniteSets

CONSTANTS
  TimerClients,   \* LocTimer objects
  Wrappers,       \* those made by loc_timer_start: started once, deleted by their callback
  Delegates,      \* addresses of LocTimerDelegate objects
  Delays,         \* values of timeOutInMs
  MaxTime,        \* bound: the last instant of the clock
  Null            \* NULL pointer, disarmed timer

ASSUME TimerAssumption ==
  /\ Delays \subseteq Nat /\ MaxTime \in Nat
  /\ Null \notin Delegates \cup TimerClients \cup Nat \cup {"next"} /\ "next" \notin Delegates

VARIABLES
  now,            \* CLOCK_BOOTTIME
  mTimer,         \* LocTimer::mTimer
  mClient,        \* LocTimerDelegate::mClient
  mFutureTime,    \* LocTimerDelegate::mFutureTime
  allocated,      \* delegates that were new'ed and not deleted
  heap,           \* delegates in the container's heap
  timerQ,         \* messages of LocTimerMsgTask
  armed,          \* expiry time the timerfd is set to
  polled,         \* is the timerfd in the epoll set
  pollPc,         \* where the polling thread is
  expiring,       \* delegate popped by the handler of an expiry
  expClient,      \* the client it has read from that delegate
  used            \* wrappers that have been started

timerVars == <<now, mTimer, mClient, mFutureTime, allocated, heap, timerQ, armed,
               polled, pollPc, expiring, expClient, used>>

Time == 0..MaxTime
TimerMsg == [type : {"push", "remove"}, timer : Delegates] \cup [type : {"expire"}]

(* Every variable of the timer service has its type.                       *)
TimerTypeOK ==
  /\ now \in Time
  /\ mTimer \in [TimerClients -> Delegates \cup {Null}]
  /\ mClient \in [Delegates -> TimerClients \cup {Null}]
  /\ mFutureTime \in [Delegates -> Time]
  /\ allocated \subseteq Delegates /\ heap \subseteq Delegates
  /\ timerQ \in Seq(TimerMsg)
  /\ armed \in Time \cup {Null}
  /\ polled \in BOOLEAN
  /\ pollPc \in {"wait", "disarm", "removePoll"}
  /\ expiring \in Delegates \cup {Null, "next"}
  /\ expClient \in TimerClients \cup {Null}
  /\ used \subseteq Wrappers

TimerInit ==
  /\ now = 0
  /\ mTimer = [c \in TimerClients |-> Null]
  /\ mClient = [d \in Delegates |-> Null]
  /\ mFutureTime = [d \in Delegates |-> 0]
  /\ allocated = {} /\ heap = {}
  /\ timerQ = <<>>
  /\ armed = Null /\ polled = FALSE
  /\ pollPc = "wait"
  /\ expiring = Null /\ expClient = Null
  /\ used = {}

-----------------------------------------------------------------------------
(* The heap: a delegate outranks another when it expires first.            *)

outRanks(d, e) == mFutureTime[d] < mFutureTime[e]

(* The delegates that may be on top of a heap with these contents.         *)
Tops(h) == {d \in h : \A e \in h : ~outRanks(e, d)}

(* updateSoonestTime: with no prior top, or one that the new top outranks, *)
(* the timerfd is polled and armed for the new top; an empty heap disarms. *)
(* The caller says which delegate was on top and which one is now.         *)
updateSoonestTime(h, priorTop, curTop) ==
  IF curTop = priorTop
  THEN UNCHANGED <<armed, polled>>
  ELSE IF h = {}
  THEN armed' = Null /\ polled' = FALSE
  ELSE IF priorTop = Null \/ outRanks(curTop, priorTop)
  THEN armed' = mFutureTime[curTop] /\ polled' = TRUE
  ELSE UNCHANGED <<armed, polled>>

TopOf(h) == IF h = {} THEN {Null} ELSE Tops(h)

-----------------------------------------------------------------------------
(* LocTimer, on a client's thread.                                         *)

(* The address of a new delegate.                                          *)
newDelegate == CHOOSE d \in Delegates : d \notin allocated

(* start: a new delegate that is pushed by a message; refused, with no     *)
(* change, when a timer is running.                                        *)
start(c, delay) ==
  /\ mTimer[c] = Null
  /\ c \notin used
  /\ now + delay <= MaxTime
  /\ allocated # Delegates
  /\ LET d == newDelegate IN
       /\ allocated' = allocated \cup {d}
       /\ mTimer' = [mTimer EXCEPT ![c] = d]
       /\ mClient' = [mClient EXCEPT ![d] = c]
       /\ mFutureTime' = [mFutureTime EXCEPT ![d] = now + delay]
       /\ timerQ' = Append(timerQ, [type |-> "push", timer |-> d])
  /\ used' = used \cup ({c} \cap Wrappers)
  /\ UNCHANGED <<now, heap, armed, polled, pollPc, expiring, expClient>>

\* Mutant: the delegate is deleted by the thread that stops it.
StopDeletes(c) ==
  /\ mTimer[c] # Null
  /\ mClient' = [mClient EXCEPT ![mTimer[c]] = Null]
  /\ allocated' = allocated \ {mTimer[c]}
  /\ mTimer' = [mTimer EXCEPT ![c] = Null]
  /\ UNCHANGED timerQ

(* stop, with destroyLocked: the delegate forgets its client and is        *)
(* removed and deleted by a message.                                       *)
stop(c) ==
  /\ mTimer[c] # Null
  /\ mClient' = [mClient EXCEPT ![mTimer[c]] = Null]
  /\ timerQ' = Append(timerQ, [type |-> "remove", timer |-> mTimer[c]])
  /\ mTimer' = [mTimer EXCEPT ![c] = Null]
  /\ UNCHANGED allocated

StopByClient(c) ==
  /\ c \notin Wrappers
  /\ stop(c)
  /\ UNCHANGED <<now, mFutureTime, heap, armed, polled, pollPc, expiring, expClient, used>>

-----------------------------------------------------------------------------
(* The polling thread: LocTimerPollTask::run and LocTimerContainer::expire. *)

PollWakes ==
  /\ pollPc = "wait"
  /\ polled /\ armed # Null /\ armed <= now
  /\ pollPc' = "disarm"
  /\ UNCHANGED <<now, mTimer, mClient, mFutureTime, allocated, heap, timerQ, armed, polled,
                 expiring, expClient, used>>

PollDisarms ==
  /\ pollPc = "disarm"
  /\ armed' = Null /\ pollPc' = "removePoll"
  /\ UNCHANGED <<now, mTimer, mClient, mFutureTime, allocated, heap, timerQ, polled,
                 expiring, expClient, used>>

(* No other thread can tell removePoll from the sendMsg that follows it.   *)
removePoll ==
  /\ pollPc = "removePoll"
  /\ polled' = FALSE /\ pollPc' = "wait"
  /\ timerQ' = Append(timerQ, [type |-> "expire"])
  /\ UNCHANGED <<now, mTimer, mClient, mFutureTime, allocated, heap, armed, expiring, expClient,
                 used>>

-----------------------------------------------------------------------------
(* LocTimerMsgTask.                                                        *)

Handles(type) == expiring = Null /\ timerQ # <<>> /\ Head(timerQ).type = type

MsgTimerPush ==
  /\ Handles("push")
  /\ heap' = heap \cup {Head(timerQ).timer}
  /\ \E prior \in TopOf(heap) : \E cur \in TopOf(heap') :
       /\ (prior # Null /\ prior \in Tops(heap')) => cur = prior
       /\ updateSoonestTime(heap', prior, cur)
  /\ timerQ' = Tail(timerQ)
  /\ UNCHANGED <<now, mTimer, mClient, mFutureTime, allocated, pollPc, expiring, expClient,
                 used>>

(* Removing the top updates the timerfd for the new top.  The delegate of  *)
(* a timer that has expired is no longer in the heap; it is deleted here   *)
(* too.                                                                    *)
MsgTimerRemove ==
  LET d == Head(timerQ).timer IN
  /\ Handles("remove")
  /\ heap' = heap \ {d}
  /\ \E prior \in TopOf(heap) : \E cur \in TopOf(heap') :
       IF prior = d \/ heap = {}
       THEN updateSoonestTime(heap', Null, cur)
       ELSE UNCHANGED <<armed, polled>>
  /\ allocated' = allocated \ {d}
  /\ mFutureTime' = [mFutureTime EXCEPT ![d] = 0]
  /\ timerQ' = Tail(timerQ)
  /\ UNCHANGED <<now, mTimer, mClient, pollPc, expiring, expClient, used>>

(* MsgTimerExpire pops the top of the heap whatever its time, then every   *)
(* top that does not expire after now.                                     *)
Pop(d) ==
  /\ heap' = heap \ {d}
  /\ expiring' = d /\ expClient' = mClient[d]
  /\ UNCHANGED <<now, mTimer, mClient, mFutureTime, allocated, armed, polled, pollPc, used>>

\* Mutant: the handler of an expiry leaves the timerfd to the next push.
ExpireForgetsTime ==
  /\ expiring = "next"
  /\ \A d \in Tops(heap) : mFutureTime[d] > now
  /\ expiring' = Null
  /\ UNCHANGED <<now, mTimer, mClient, mFutureTime, allocated, heap, timerQ, armed, polled,
                 pollPc, expClient, used>>

MsgTimerExpire ==
  /\ Handles("expire")
  /\ timerQ' = Tail(timerQ)
  /\ \/ \E d \in Tops(heap) : Pop(d)
     \/ /\ heap = {}
        /\ UNCHANGED <<now, mTimer, mClient, mFutureTime, allocated, heap, armed, polled,
                       pollPc, expiring, expClient, used>>

popIfOutRanks ==
  /\ expiring = "next"
  /\ \E d \in Tops(heap) : mFutureTime[d] <= now /\ Pop(d)
  /\ UNCHANGED timerQ

ExpireDone ==
  /\ expiring = "next"
  /\ \A d \in Tops(heap) : mFutureTime[d] > now
  /\ \E cur \in TopOf(heap) : updateSoonestTime(heap, Null, cur)
  /\ expiring' = Null
  /\ UNCHANGED <<now, mTimer, mClient, mFutureTime, allocated, heap, timerQ, pollPc, expClient,
                 used>>

(* LocTimerDelegate::expire: the client it has read is stopped and, if     *)
(* that stopped a timer, called.                                           *)
expire ==
  /\ expiring \in Delegates
  /\ expiring' = "next" /\ expClient' = Null
  /\ \/ /\ expClient # Null
        /\ stop(expClient)
     \/ /\ expClient # Null => mTimer[expClient] = Null
        /\ UNCHANGED <<mTimer, mClient, timerQ, allocated>>
  /\ UNCHANGED <<now, mFutureTime, heap, armed, polled, pollPc, used>>

Tick ==
  /\ now < MaxTime
  /\ now' = now + 1
  /\ UNCHANGED <<mTimer, mClient, mFutureTime, allocated, heap, timerQ, armed, polled, pollPc,
                 expiring, expClient, used>>

PollStep == PollWakes \/ PollDisarms \/ removePoll
MsgTaskStep ==
  \/ MsgTimerPush \/ MsgTimerRemove \/ MsgTimerExpire \/ popIfOutRanks \/ ExpireDone \/ expire

TimerNext ==
  \/ \E c \in TimerClients : (\E delay \in Delays : start(c, delay)) \/ StopByClient(c)
  \/ PollStep
  \/ MsgTaskStep
  \/ Tick

(* The polling thread and the message task loop forever, and time passes.  *)
TimerFairness == WF_timerVars(PollStep) /\ WF_timerVars(MsgTaskStep) /\ WF_timerVars(Tick)

TimerSpec == TimerInit /\ [][TimerNext]_timerVars /\ TimerFairness

-----------------------------------------------------------------------------
(* The service never sleeps on a timer: while no expiry is under way, a    *)
(* heap with timers has its timerfd polled and armed for the soonest one.  *)
(* This is what the order of settime, epoll_ctl and the message in         *)
(* LocTimerContainer::expire, updateSoonestTime and the final update of    *)
(* MsgTimerExpire together have to keep, whatever the interleaving.        *)
SoonestIsArmed ==
  (/\ heap # {} /\ pollPc = "wait" /\ expiring = Null
   /\ \A i \in 1..Len(timerQ) : timerQ[i].type # "expire")
    => polled /\ \E d \in Tops(heap) : armed = mFutureTime[d]

(* No delegate is used after MsgTimerRemove deleted it: the heap, the      *)
(* messages and the LocTimer objects hold allocated delegates only.        *)
NoDeletedDelegate ==
  /\ heap \subseteq allocated
  /\ \A c \in TimerClients : mTimer[c] # Null => mTimer[c] \in allocated
  /\ \A i \in 1..Len(timerQ) : timerQ[i].type # "expire" => timerQ[i].timer \in allocated

(* A running timer is stopped or expires: start is never forgotten.        *)
RunningTimerEnds ==
  \A c \in TimerClients : \A d \in Delegates :
    (mTimer[c] = d) ~> (mTimer[c] # d)
=============================================================================
