---------------------------- MODULE TimedProofs ----------------------------
(***************************************************************************)
(* Proofs about the components that wait for a clock, a user or a network: *)
(* on-demand position injection, for any bound on the adapter's queue, the *)
(* timer service, for any number of timers, delegates and instants, and    *)
(* network-initiated sessions, for any number of requests.                 *)
(***************************************************************************)
EXTENDS MCTimed, TLAPS

-----------------------------------------------------------------------------
(* On-demand position injection.  OdcpiTimer::isActive is never true for a *)
(* timer that neither runs nor has an expiry on its way.  The bound on the *)
(* queue is inductive only if a running timer counts as the message it is  *)
(* going to post (QueueHasRoom).  That the flag is backed needs, of a      *)
(* message taken off the queue, that the others stay, and of a message     *)
(* appended, that the ones before it do.                                   *)


(* A running timer keeps a place in the queue for its expiry.              *)
QueueHasRoom == Len(odcpiQ) + (IF odcpiTimerRuns THEN 1 ELSE 0) <= MaxOdcpiMsgs + 1

OdcpiInv == OdcpiTypeOK /\ QueueHasRoom /\ OdcpiTimerBacked

-----------------------------------------------------------------------------
(* Sequences.                                                              *)

(* Appending a message keeps those that wait, and adds itself at the end.  *)
LEMMA AppendKeeps ==
  ASSUME NEW S, NEW q \in Seq(S), NEW e \in S
  PROVE  /\ Append(q, e) \in Seq(S)
         /\ Len(Append(q, e)) = Len(q) + 1
         /\ \A i \in 1..Len(q) : Append(q, e)[i] = q[i]
         /\ Append(q, e)[Len(q) + 1] = e
  OBVIOUS

(* Taking the first message keeps the others, one place nearer.            *)
LEMMA TailKeeps ==
  ASSUME NEW S, NEW q \in Seq(S), q # <<>>
  PROVE  /\ Head(q) \in S
         /\ Tail(q) \in Seq(S)
         /\ Len(Tail(q)) = Len(q) - 1
         /\ \A i \in 2..Len(q) : Tail(q)[i - 1] = q[i]
         /\ Head(q) = q[1]
  OBVIOUS

-----------------------------------------------------------------------------
ExpireWaits(q) == \E i \in 1..Len(q) : q[i].type = "expire"

(* Posting keeps an expiry that waits.                                     *)
LEMMA PostKeepsExpiry ==
  ASSUME NEW q \in Seq(OdcpiMsg), NEW m \in OdcpiMsg
  PROVE  /\ ExpireWaits(q) => ExpireWaits(Append(q, m))
         /\ m.type = "expire" => ExpireWaits(Append(q, m))
<1>1. /\ Len(Append(q, m)) = Len(q) + 1 /\ Len(q) \in Nat
      /\ \A i \in 1..Len(q) : Append(q, m)[i] = q[i]
      /\ Append(q, m)[Len(q) + 1] = m
  BY AppendKeeps
<1> QED
  BY <1>1 DEF ExpireWaits

(* Handling a message of another kind keeps an expiry that waits.          *)
LEMMA HandlingKeepsExpiry ==
  ASSUME NEW q \in Seq(OdcpiMsg), q # <<>>, Head(q).type # "expire", ExpireWaits(q)
  PROVE  ExpireWaits(Tail(q))
<1>1. /\ Len(Tail(q)) = Len(q) - 1 /\ Len(q) \in Nat
      /\ \A i \in 2..Len(q) : Tail(q)[i - 1] = q[i]
      /\ Head(q) = q[1]
  BY TailKeeps
<1>2. PICK i \in 1..Len(q) : q[i].type = "expire"
  BY DEF ExpireWaits
<1>3. i # 1
  BY <1>1, <1>2
<1>4. i - 1 \in 1..Len(Tail(q)) /\ Tail(q)[i - 1].type = "expire"
  BY <1>1, <1>2, <1>3
<1> QED
  BY <1>4 DEF ExpireWaits

(* What a handler finds and leaves on the queue.                           *)
LEMMA HandlesFacts ==
  ASSUME OdcpiTypeOK, NEW type, OdcpiHandles(type)
  PROVE  /\ odcpiQ \in Seq(OdcpiMsg) /\ odcpiQ # <<>> /\ Head(odcpiQ) \in OdcpiMsg
         /\ Head(odcpiQ).type = type
         /\ odcpiQ' = Tail(odcpiQ) /\ odcpiQ' \in Seq(OdcpiMsg)
         /\ Len(odcpiQ) \in Nat /\ Len(odcpiQ') = Len(odcpiQ) - 1
<1>1. odcpiQ \in Seq(OdcpiMsg) /\ odcpiQ # <<>>
  BY DEF OdcpiTypeOK, OdcpiHandles
<1>2. /\ Head(odcpiQ) \in OdcpiMsg /\ Tail(odcpiQ) \in Seq(OdcpiMsg)
      /\ Len(Tail(odcpiQ)) = Len(odcpiQ) - 1
  BY <1>1, TailKeeps
<1> QED
  BY <1>1, <1>2 DEF OdcpiHandles

(* The message taken off makes room for the expiry of a timer it starts.   *)
LEMMA RoomAfterHandling ==
  ASSUME OdcpiInv, NEW type, OdcpiHandles(type), odcpiTimerRuns' \in BOOLEAN
  PROVE  QueueHasRoom' /\ Len(odcpiQ') <= MaxOdcpiMsgs + 1
<1>1. Len(odcpiQ) \in Nat /\ Len(odcpiQ') = Len(odcpiQ) - 1 /\ Len(odcpiQ) <= MaxOdcpiMsgs + 1
  BY HandlesFacts DEF OdcpiInv, OdcpiTypeOK
<1> QED
  BY <1>1, OdcpiBound DEF QueueHasRoom

-----------------------------------------------------------------------------
(* One lemma per action.                                                   *)

(* The modem's thread posts only while there is room.                      *)
LEMMA PostStep ==
  ASSUME OdcpiInv, NEW m \in OdcpiMsg, OdcpiPost(m)
  PROVE  OdcpiInv'
<1>1. odcpiQ \in Seq(OdcpiMsg) /\ Len(odcpiQ) \in Nat
  BY DEF OdcpiInv, OdcpiTypeOK
<1>2. odcpiQ' \in Seq(OdcpiMsg) /\ Len(odcpiQ') = Len(odcpiQ) + 1 /\ Len(odcpiQ) < MaxOdcpiMsgs
  BY <1>1, AppendKeeps DEF OdcpiPost
<1>3. OdcpiTypeOK' /\ QueueHasRoom'
  BY <1>1, <1>2, OdcpiBound DEF OdcpiInv, OdcpiTypeOK, QueueHasRoom, OdcpiPost
<1>4. ExpireWaits(odcpiQ) => ExpireWaits(odcpiQ')
  BY <1>1, PostKeepsExpiry DEF OdcpiPost
<1>5. OdcpiTimerBacked'
  BY <1>4 DEF OdcpiInv, OdcpiTimerBacked, OdcpiPost, ExpireWaits
<1> QED
  BY <1>3, <1>5 DEF OdcpiInv

(* The expiry takes the place the running timer kept for it.               *)
LEMMA ExpiryStep ==
  ASSUME OdcpiInv, odcpiTimerExpireEvent
  PROVE  OdcpiInv'
<1> DEFINE m == [type |-> "expire"]
<1>1. odcpiQ \in Seq(OdcpiMsg) /\ Len(odcpiQ) \in Nat /\ m \in OdcpiMsg /\ m.type = "expire"
  BY DEF OdcpiInv, OdcpiTypeOK, OdcpiMsg
<1>2. odcpiQ' \in Seq(OdcpiMsg) /\ Len(odcpiQ') = Len(odcpiQ) + 1
  BY <1>1, AppendKeeps DEF odcpiTimerExpireEvent
<1>3. Len(odcpiQ) + 1 <= MaxOdcpiMsgs + 1
  BY DEF OdcpiInv, QueueHasRoom, odcpiTimerExpireEvent
<1>4. OdcpiTypeOK' /\ QueueHasRoom'
  <2>1. OdcpiTypeOK'
    BY <1>1, <1>2, <1>3, OdcpiBound DEF OdcpiInv, OdcpiTypeOK, odcpiTimerExpireEvent
  <2>2. ~odcpiTimerRuns'
    BY DEF odcpiTimerExpireEvent
  <2>3. QueueHasRoom'
    BY <1>1, <1>2, <1>3, <2>2, OdcpiBound DEF QueueHasRoom
  <2> QED
    BY <2>1, <2>3
<1>5. ExpireWaits(odcpiQ')
  <2>1. odcpiQ' = Append(odcpiQ, m)
    BY DEF odcpiTimerExpireEvent
  <2>2. ExpireWaits(Append(odcpiQ, m))
    BY <1>1, PostKeepsExpiry
  <2> QED
    BY <2>1, <2>2
<1>6. OdcpiTimerBacked'
  BY <1>5 DEF OdcpiTimerBacked, ExpireWaits
<1> QED
  BY <1>4, <1>6 DEF OdcpiInv

(* A handler of another message that leaves the timer alone or starts it.  *)
LEMMA OtherMessageStep ==
  ASSUME OdcpiInv, NEW type, OdcpiHandles(type), type # "expire",
         OdcpiTimerKeeps \/ OdcpiTimerStart,
         mOdcpiRequestCb' \in BOOLEAN, mOdcpiRequestActive' \in BOOLEAN,
         isEmergencyMode' \in BOOLEAN, asked' \in BOOLEAN
  PROVE  OdcpiInv'
<1>1. odcpiTimerActive' \in BOOLEAN /\ odcpiTimerRuns' \in BOOLEAN
  BY DEF OdcpiInv, OdcpiTypeOK, OdcpiTimerKeeps, OdcpiTimerStart
<1>2. odcpiQ' \in Seq(OdcpiMsg)
  BY HandlesFacts DEF OdcpiInv
<1>3. QueueHasRoom' /\ Len(odcpiQ') <= MaxOdcpiMsgs + 1
  BY <1>1, RoomAfterHandling
<1>4. OdcpiTypeOK'
  BY <1>1, <1>2, <1>3 DEF OdcpiTypeOK
<1>5. ExpireWaits(odcpiQ) => ExpireWaits(odcpiQ')
  BY HandlesFacts, HandlingKeepsExpiry DEF OdcpiInv
<1>6. OdcpiTimerBacked'
  BY <1>5 DEF OdcpiInv, OdcpiTimerBacked, OdcpiTimerKeeps, OdcpiTimerStart, ExpireWaits
<1> QED
  BY <1>3, <1>4, <1>6 DEF OdcpiInv

(* odcpiTimerExpire leaves flag and timer both on or both off.             *)
LEMMA ExpireHandledStep ==
  ASSUME OdcpiInv, odcpiTimerExpire
  PROVE  OdcpiInv'
<1>1. OdcpiHandles("expire")
  BY DEF odcpiTimerExpire
<1>2. /\ odcpiTimerActive' = mOdcpiRequestActive /\ odcpiTimerRuns' = mOdcpiRequestActive
      /\ mOdcpiRequestActive \in BOOLEAN
  BY DEF OdcpiInv, OdcpiTypeOK, odcpiTimerExpire, OdcpiTimerStart, OdcpiTimerStop
<1>3. odcpiQ' \in Seq(OdcpiMsg)
  BY <1>1, HandlesFacts DEF OdcpiInv
<1>4. QueueHasRoom' /\ Len(odcpiQ') <= MaxOdcpiMsgs + 1
  BY <1>1, <1>2, RoomAfterHandling
<1>5. /\ mOdcpiRequestCb' \in BOOLEAN /\ mOdcpiRequestActive' \in BOOLEAN
      /\ isEmergencyMode' \in BOOLEAN /\ asked' \in BOOLEAN
  BY DEF OdcpiInv, OdcpiTypeOK, odcpiTimerExpire
<1>6. OdcpiTypeOK'
  BY <1>2, <1>3, <1>4, <1>5 DEF OdcpiTypeOK
<1>7. OdcpiTimerBacked'
  BY <1>2 DEF OdcpiTimerBacked
<1> QED
  BY <1>4, <1>6, <1>7 DEF OdcpiInv

(* reportOdcpiRequest starts the timer or leaves it alone.                 *)
LEMMA RequestStep ==
  ASSUME OdcpiInv, reportOdcpiRequest
  PROVE  OdcpiInv'
<1>1. CASE /\ OdcpiHandles("start") /\ mOdcpiRequestCb
           /\ LET emergency == Head(odcpiQ).emergency IN
                /\ StartTimerFor(emergency)
                /\ asked' = (AskNow(emergency) \/ (mOdcpiRequestActive /\ asked))
                /\ isEmergencyMode' = emergency
           /\ mOdcpiRequestActive' = TRUE
           /\ UNCHANGED mOdcpiRequestCb
  <2>1. Head(odcpiQ) \in OdcpiMsg /\ Head(odcpiQ).type = "start"
    BY <1>1, HandlesFacts DEF OdcpiInv
  <2>2. Head(odcpiQ).emergency \in BOOLEAN
    BY <2>1 DEF OdcpiMsg
  <2>3. isEmergencyMode' \in BOOLEAN /\ asked' \in BOOLEAN
    BY <1>1, <2>2 DEF AskNow
  <2>4. OdcpiTimerKeeps \/ OdcpiTimerStart
    BY <1>1 DEF StartTimerFor
  <2>5. mOdcpiRequestCb' \in BOOLEAN
    BY <1>1 DEF OdcpiInv, OdcpiTypeOK
  <2> QED
    BY <1>1, <2>3, <2>4, <2>5, OtherMessageStep
<1>2. CASE /\ OdcpiHandles("stop") /\ mOdcpiRequestCb
           /\ mOdcpiRequestActive' = FALSE
           /\ UNCHANGED <<mOdcpiRequestCb, isEmergencyMode, odcpiTimerActive, odcpiTimerRuns, asked>>
  <2>1. /\ OdcpiTimerKeeps /\ mOdcpiRequestCb' \in BOOLEAN
        /\ isEmergencyMode' \in BOOLEAN /\ asked' \in BOOLEAN
    BY <1>2 DEF OdcpiInv, OdcpiTypeOK, OdcpiTimerKeeps
  <2> QED
    BY <1>2, <2>1, OtherMessageStep
<1>3. CASE /\ OdcpiHandles("start") \/ OdcpiHandles("stop")
           /\ ~mOdcpiRequestCb
           /\ UNCHANGED <<mOdcpiRequestCb, mOdcpiRequestActive, isEmergencyMode, odcpiTimerActive,
                          odcpiTimerRuns, asked>>
  <2>1. /\ OdcpiTimerKeeps /\ mOdcpiRequestCb' \in BOOLEAN /\ mOdcpiRequestActive' \in BOOLEAN
        /\ isEmergencyMode' \in BOOLEAN /\ asked' \in BOOLEAN
    BY <1>3 DEF OdcpiInv, OdcpiTypeOK, OdcpiTimerKeeps
  <2> QED
    BY <1>3, <2>1, OtherMessageStep
<1> QED
  BY <1>1, <1>2, <1>3 DEF reportOdcpiRequest

(* Every step keeps the invariant.                                         *)
LEMMA OdcpiStep ==
  ASSUME OdcpiInv, [OdcpiNext]_odcpiVars
  PROVE  OdcpiInv'
<1>1. CASE reportOdcpiRequestEvent
  <2>1. /\ \A e \in BOOLEAN : [type |-> "start", emergency |-> e] \in OdcpiMsg
        /\ [type |-> "stop"] \in OdcpiMsg
    BY DEF OdcpiMsg
  <2> QED
    BY <1>1, <2>1, PostStep DEF reportOdcpiRequestEvent
<1>2. CASE OdcpiEngineUp
  <2>1. [type |-> "restartSessions"] \in OdcpiMsg
    BY DEF OdcpiMsg
  <2> QED
    BY <1>2, <2>1, PostStep DEF OdcpiEngineUp
<1>3. CASE odcpiTimerExpireEvent
  BY <1>3, ExpiryStep
<1>4. CASE initOdcpi
  <2>1. /\ OdcpiHandles("init") /\ OdcpiTimerKeeps
        /\ mOdcpiRequestCb' \in BOOLEAN /\ mOdcpiRequestActive' \in BOOLEAN
        /\ isEmergencyMode' \in BOOLEAN /\ asked' \in BOOLEAN
    BY <1>4 DEF OdcpiInv, OdcpiTypeOK, initOdcpi, OdcpiTimerKeeps
  <2> QED
    BY <2>1, OtherMessageStep
<1>5. CASE reportOdcpiRequest
  BY <1>5, RequestStep
<1>6. CASE odcpiTimerExpire
  BY <1>6, ExpireHandledStep
<1>7. CASE OdcpiRestart
  <2>1. /\ OdcpiHandles("restartSessions") /\ OdcpiTimerKeeps
        /\ mOdcpiRequestCb' \in BOOLEAN /\ mOdcpiRequestActive' \in BOOLEAN
        /\ isEmergencyMode' \in BOOLEAN /\ asked' \in BOOLEAN
    BY <1>7 DEF OdcpiInv, OdcpiTypeOK, OdcpiRestart, OdcpiTimerKeeps
  <2> QED
    BY <2>1, OtherMessageStep
<1>8. CASE UNCHANGED odcpiVars
  BY <1>8 DEF odcpiVars, OdcpiInv, OdcpiTypeOK, QueueHasRoom, OdcpiTimerBacked
<1> QED
  BY <1>1, <1>2, <1>3, <1>4, <1>5, <1>6, <1>7, <1>8 DEF OdcpiNext, OdcpiHandle

(* It holds when the adapter starts.                                       *)
LEMMA OdcpiStart ==
  ASSUME OdcpiInit
  PROVE  OdcpiInv
<1>1. [type |-> "init"] \in OdcpiMsg
  BY DEF OdcpiMsg
<1>2. odcpiQ \in Seq(OdcpiMsg) /\ Len(odcpiQ) = 1
  BY <1>1 DEF OdcpiInit
<1>3. OdcpiTypeOK
  <2>1. /\ mOdcpiRequestCb \in BOOLEAN /\ mOdcpiRequestActive \in BOOLEAN
        /\ isEmergencyMode \in BOOLEAN /\ odcpiTimerActive \in BOOLEAN
        /\ odcpiTimerRuns \in BOOLEAN /\ asked \in BOOLEAN
    BY DEF OdcpiInit
  <2>2. Len(odcpiQ) <= MaxOdcpiMsgs + 1
    BY <1>2, OdcpiBound
  <2> QED
    BY <1>2, <2>1, <2>2 DEF OdcpiTypeOK
<1>4. ~odcpiTimerRuns /\ ~odcpiTimerActive
  BY DEF OdcpiInit
<1>5. QueueHasRoom
  BY <1>2, <1>4, OdcpiBound DEF QueueHasRoom
<1>6. OdcpiTimerBacked
  BY <1>4 DEF OdcpiTimerBacked
<1> QED
  BY <1>3, <1>5, <1>6 DEF OdcpiInv

(* The invariant holds in every reachable state, for any bound.            *)
LEMMA OdcpiInvariant == OdcpiSpec => []OdcpiInv
<1>1. OdcpiInit => OdcpiInv
  BY OdcpiStart
<1>2. OdcpiInv /\ [OdcpiNext]_odcpiVars => OdcpiInv'
  BY OdcpiStep
<1> QED
  BY <1>1, <1>2, PTL DEF OdcpiSpec

(* Every variable keeps its type, and expiries exceed the bound on the     *)
(* adapter's queue by one message at most: a timer that is restarted       *)
(* while its old expiry waits never floods the queue (OdcpiTimer).         *)
THEOREM OdcpiTypeCorrect == OdcpiSpec => []OdcpiTypeOK
<1>1. OdcpiInv => OdcpiTypeOK
  BY DEF OdcpiInv
<1> QED
  BY <1>1, OdcpiInvariant, PTL

(* OdcpiTimer::isActive never stays true without a timer or an expiry      *)
(* that will reset it: whatever the order of requests, stops, expiries and *)
(* engine restarts, reportOdcpiRequest cannot be blocked for ever.         *)
THEOREM TimerFlagBacked == OdcpiSpec => []OdcpiTimerBacked
<1>1. OdcpiInv => OdcpiTimerBacked
  BY DEF OdcpiInv
<1> QED
  BY <1>1, OdcpiInvariant, PTL


-----------------------------------------------------------------------------
(* The timer service.  A delegate is deleted by the message that its stop  *)
(* posts.  That nothing refers to it by then needs: two clients never hold *)
(* the same delegate, a client holds none that is being removed, and the   *)
(* message that removes a delegate is the last one about it.               *)

Removes(i, d) == timerQ[i].type = "remove" /\ timerQ[i].timer = d
Concerns(i, d) == timerQ[i].type # "expire" /\ timerQ[i].timer = d

RemoveIsLast ==
  \A d \in Delegates : \A i, j \in 1..Len(timerQ) : Removes(i, d) /\ Concerns(j, d) => j <= i

HeldIsKept ==
  /\ \A c \in TimerClients : mTimer[c] # Null =>
       \A i \in 1..Len(timerQ) : ~Removes(i, mTimer[c])
  /\ \A b, c \in TimerClients : mTimer[b] # Null /\ mTimer[b] = mTimer[c] => b = c

DelegateInv == NoDeletedDelegate /\ RemoveIsLast /\ HeldIsKept

TimerInv == TimerTypeOK /\ DelegateInv /\ SoonestIsArmed

(* A message at the head of the queue. *)
LEMMA TimerHead ==
  ASSUME timerQ \in Seq(TimerMsg), timerQ # <<>>
  PROVE  /\ Head(timerQ) = timerQ[1] /\ 1 \in 1..Len(timerQ) /\ Head(timerQ) \in TimerMsg
         /\ Head(timerQ).type # "expire" => Head(timerQ).timer \in Delegates
         /\ Tail(timerQ) \in Seq(TimerMsg)
         /\ \A i \in 1..Len(Tail(timerQ)) : /\ i + 1 \in 1..Len(timerQ) /\ i \in Nat \ {0}
                                            /\ Tail(timerQ)[i] = timerQ[i + 1]
  <1>1. /\ Head(timerQ) = timerQ[1] /\ Head(timerQ) \in TimerMsg
        /\ Tail(timerQ) \in Seq(TimerMsg) /\ Len(Tail(timerQ)) = Len(timerQ) - 1
        /\ \A i \in 2..Len(timerQ) : Tail(timerQ)[i - 1] = timerQ[i]
        /\ Len(timerQ) \in Nat \ {0}
    BY TailKeeps
  <1>2. Head(timerQ).type # "expire" => Head(timerQ).timer \in Delegates
    BY <1>1 DEF TimerMsg
  <1>3. ASSUME NEW i \in 1..Len(Tail(timerQ))
        PROVE  i + 1 \in 1..Len(timerQ) /\ i \in Nat \ {0} /\ Tail(timerQ)[i] = timerQ[i + 1]
    <2>1. i + 1 \in 2..Len(timerQ) /\ (i + 1) - 1 = i /\ i \in Nat \ {0}
      BY <1>1
    <2> QED BY <1>1, <2>1
  <1> QED BY <1>1, <1>2, <1>3

-----------------------------------------------------------------------------
(* Types.                                                                  *)

LEMMA UpdateTyped ==
  ASSUME TimerTypeOK, NEW h \in SUBSET Delegates, NEW prior \in Delegates \cup {Null},
         NEW cur \in TopOf(h), updateSoonestTime(h, prior, cur)
  PROVE  armed' \in Time \cup {Null} /\ polled' \in BOOLEAN
  BY DEF TimerTypeOK, updateSoonestTime, TopOf, Tops

LEMMA StopTyped ==
  ASSUME TimerTypeOK, NEW c \in TimerClients, stop(c)
  PROVE  /\ mTimer' \in [TimerClients -> Delegates \cup {Null}]
         /\ mClient' \in [Delegates -> TimerClients \cup {Null}]
         /\ timerQ' \in Seq(TimerMsg)
         /\ allocated' = allocated
  <1>1. mTimer[c] \in Delegates
    BY DEF TimerTypeOK, stop
  <1>2. [type |-> "remove", timer |-> mTimer[c]] \in TimerMsg
    BY <1>1 DEF TimerMsg
  <1>3. timerQ' \in Seq(TimerMsg)
    BY <1>2, AppendKeeps DEF TimerTypeOK, stop
  <1> QED BY <1>1, <1>3 DEF TimerTypeOK, stop

LEMMA NewDelegate ==
  ASSUME TimerTypeOK, allocated # Delegates
  PROVE  newDelegate \in Delegates /\ newDelegate \notin allocated
  BY DEF TimerTypeOK, newDelegate

LEMMA TimerTypeStep ==
  ASSUME TimerTypeOK, [TimerNext]_timerVars
  PROVE  TimerTypeOK'
  <1> USE TimerAssumption
  <1>1. ASSUME NEW c \in TimerClients, NEW delay \in Delays, start(c, delay)
        PROVE  TimerTypeOK'
    <2> DEFINE d == newDelegate
    <2>1. d \in Delegates
      BY <1>1, NewDelegate DEF start
    <2>2. [type |-> "push", timer |-> d] \in TimerMsg
      BY <2>1 DEF TimerMsg
    <2>3. timerQ' \in Seq(TimerMsg)
      BY <1>1, <2>2, AppendKeeps DEF TimerTypeOK, start
    <2>4. now + delay \in Time
      BY <1>1 DEF TimerTypeOK, Time, start
    <2> HIDE DEF d
    <2>5. /\ allocated' = allocated \cup {d}
          /\ mTimer' = [mTimer EXCEPT ![c] = d]
          /\ mClient' = [mClient EXCEPT ![d] = c]
          /\ mFutureTime' = [mFutureTime EXCEPT ![d] = now + delay]
          /\ used' = used \cup ({c} \cap Wrappers)
          /\ UNCHANGED <<now, heap, armed, polled, pollPc, expiring, expClient>>
      BY <1>1 DEF start, d
    <2> QED BY <2>1, <2>3, <2>4, <2>5 DEF TimerTypeOK
  <1>2. ASSUME NEW c \in TimerClients, StopByClient(c)
        PROVE  TimerTypeOK'
    BY <1>2, StopTyped DEF TimerTypeOK, StopByClient
  <1>3. CASE PollWakes \/ PollDisarms
    BY <1>3 DEF TimerTypeOK, PollWakes, PollDisarms
  <1>4. CASE removePoll
    <2>1. [type |-> "expire"] \in TimerMsg
      BY DEF TimerMsg
    <2>2. timerQ' \in Seq(TimerMsg)
      BY <1>4, <2>1, AppendKeeps DEF TimerTypeOK, removePoll
    <2> QED BY <1>4, <2>2 DEF TimerTypeOK, removePoll
  <1>5. \A h \in SUBSET Delegates : TopOf(h) \subseteq Delegates \cup {Null}
    BY DEF TopOf, Tops
  <1>6. CASE MsgTimerPush
    <2>1. /\ Head(timerQ).timer \in Delegates /\ timerQ' \in Seq(TimerMsg)
          /\ heap' = heap \cup {Head(timerQ).timer}
      BY <1>6, TimerHead DEF TimerTypeOK, MsgTimerPush, Handles
    <2>2. heap \in SUBSET Delegates /\ heap' \in SUBSET Delegates
      BY <2>1 DEF TimerTypeOK
    <2>3. armed' \in Time \cup {Null} /\ polled' \in BOOLEAN
      BY <1>5, <1>6, <2>2, UpdateTyped DEF MsgTimerPush
    <2> QED BY <1>6, <2>1, <2>2, <2>3 DEF TimerTypeOK, MsgTimerPush
  <1>7. CASE MsgTimerRemove
    <2>1. /\ Head(timerQ).timer \in Delegates /\ timerQ' \in Seq(TimerMsg)
      BY <1>7, TimerHead DEF TimerTypeOK, MsgTimerRemove, Handles
    <2>2. heap \in SUBSET Delegates /\ heap' \in SUBSET Delegates
      BY <1>7 DEF TimerTypeOK, MsgTimerRemove
    <2>3. armed' \in Time \cup {Null} /\ polled' \in BOOLEAN
      <3>1. CASE UNCHANGED <<armed, polled>>
        BY <3>1 DEF TimerTypeOK
      <3>2. CASE \E cur \in TopOf(heap') : updateSoonestTime(heap', Null, cur)
        BY <2>2, <3>2, UpdateTyped
      <3> QED BY <1>7, <3>1, <3>2 DEF MsgTimerRemove
    <2>4. 0 \in Time
      BY DEF Time
    <2> QED BY <1>7, <2>1, <2>2, <2>3, <2>4 DEF TimerTypeOK, MsgTimerRemove
  <1>8. ASSUME NEW d \in Tops(heap), Pop(d), timerQ' \in Seq(TimerMsg)
        PROVE  TimerTypeOK'
    BY <1>8 DEF TimerTypeOK, Tops, Pop
  <1>9. CASE MsgTimerExpire
    <2>1. timerQ' \in Seq(TimerMsg)
      BY <1>9, TimerHead DEF TimerTypeOK, MsgTimerExpire, Handles
    <2>2. CASE UNCHANGED <<now, mTimer, mClient, mFutureTime, allocated, heap, armed, polled,
                           pollPc, expiring, expClient, used>>
      BY <2>1, <2>2 DEF TimerTypeOK
    <2> QED BY <1>8, <1>9, <2>1, <2>2 DEF MsgTimerExpire
  <1>10. CASE popIfOutRanks
    BY <1>8, <1>10 DEF TimerTypeOK, popIfOutRanks
  <1>11. CASE ExpireDone
    <2>1. armed' \in Time \cup {Null} /\ polled' \in BOOLEAN
      BY <1>11, UpdateTyped DEF TimerTypeOK, ExpireDone
    <2> QED BY <1>11, <2>1 DEF TimerTypeOK, ExpireDone
  <1>12. CASE expire
    <2>1. CASE expClient # Null /\ stop(expClient)
      BY <1>12, <2>1, StopTyped DEF TimerTypeOK, expire
    <2>2. CASE UNCHANGED <<mTimer, mClient, timerQ, allocated>>
      BY <1>12, <2>2 DEF TimerTypeOK, expire
    <2> QED BY <1>12, <2>1, <2>2 DEF expire
  <1>13. CASE Tick
    BY <1>13 DEF TimerTypeOK, Time, Tick
  <1>14. CASE UNCHANGED timerVars
    BY <1>14 DEF TimerTypeOK, timerVars
  <1> QED BY <1>1, <1>2, <1>3, <1>4, <1>6, <1>7, <1>9, <1>10, <1>11, <1>12, <1>13, <1>14
          DEF TimerNext, PollStep, MsgTaskStep

-----------------------------------------------------------------------------
(* The lifetime of a delegate.                                             *)

LEMMA TakenMessage ==
  ASSUME TimerTypeOK, timerQ # <<>>, timerQ' = Tail(timerQ), DelegateInv,
         heap' \subseteq allocated, UNCHANGED <<mTimer, allocated>>
  PROVE  DelegateInv'
  <1>1. \A i \in 1..Len(timerQ') : /\ i + 1 \in 1..Len(timerQ) /\ i \in Nat \ {0}
                                   /\ timerQ'[i] = timerQ[i + 1]
    BY TimerHead DEF TimerTypeOK
  <1>2. NoDeletedDelegate'
    BY <1>1 DEF DelegateInv, NoDeletedDelegate
  <1>3. \A d : \A i \in 1..Len(timerQ') : /\ Removes(i, d)' <=> Removes(i + 1, d)
                                          /\ Concerns(i, d)' <=> Concerns(i + 1, d)
    BY <1>1 DEF Removes, Concerns
  <1>4. RemoveIsLast'
    <2> SUFFICES ASSUME NEW d \in Delegates, NEW i \in 1..Len(timerQ'), NEW j \in 1..Len(timerQ'),
                        Removes(i, d)', Concerns(j, d)'
                 PROVE  j <= i
      BY DEF RemoveIsLast
    <2>1. j + 1 <= i + 1
      BY <1>1, <1>3 DEF DelegateInv, RemoveIsLast
    <2> QED BY <1>1, <2>1
  <1>5. HeldIsKept'
    BY <1>1 DEF DelegateInv, HeldIsKept, Removes
  <1> QED BY <1>2, <1>4, <1>5 DEF DelegateInv

LEMMA RemoveStep ==
  ASSUME TimerTypeOK, DelegateInv, MsgTimerRemove
  PROVE  DelegateInv'
  <1>1. PICK d \in Delegates : d = Head(timerQ).timer
    BY TimerHead DEF TimerTypeOK, MsgTimerRemove, Handles
  <1>2. /\ timerQ # <<>> /\ timerQ' = Tail(timerQ)
        /\ heap' = heap \ {d} /\ allocated' = allocated \ {d} /\ UNCHANGED mTimer
    BY <1>1 DEF MsgTimerRemove, Handles
  <1>3. Removes(1, d) /\ 1 \in 1..Len(timerQ)
    BY <1>1, TimerHead DEF TimerTypeOK, MsgTimerRemove, Handles, Removes
  <1>4. \A i \in 1..Len(timerQ') : /\ i + 1 \in 1..Len(timerQ) /\ i \in Nat \ {0}
                                   /\ timerQ'[i] = timerQ[i + 1]
    BY <1>2, TimerHead DEF TimerTypeOK
  <1>5. \A i \in 1..Len(timerQ') : ~Concerns(i + 1, d)
    <2> SUFFICES ASSUME NEW i \in 1..Len(timerQ'), Concerns(i + 1, d)
                 PROVE  FALSE
      OBVIOUS
    <2>1. i + 1 <= 1
      BY <1>3, <1>4 DEF DelegateInv, RemoveIsLast
    <2> QED BY <1>4, <2>1
  <1>6. \A c \in TimerClients : mTimer[c] # d
    BY <1>3, TimerAssumption DEF DelegateInv, HeldIsKept
  <1>7. NoDeletedDelegate'
    <2>1. \A i \in 1..Len(timerQ') : timerQ'[i].type # "expire" => timerQ'[i].timer \in allocated'
      BY <1>2, <1>4, <1>5 DEF DelegateInv, NoDeletedDelegate, Concerns
    <2>2. \A c \in TimerClients : mTimer'[c] # Null => mTimer'[c] \in allocated'
      BY <1>2, <1>6 DEF DelegateInv, NoDeletedDelegate
    <2> QED BY <1>2, <2>1, <2>2 DEF DelegateInv, NoDeletedDelegate
  <1>8. \A e : \A i \in 1..Len(timerQ') : /\ Removes(i, e)' <=> Removes(i + 1, e)
                                          /\ Concerns(i, e)' <=> Concerns(i + 1, e)
    BY <1>4 DEF Removes, Concerns
  <1>9. RemoveIsLast'
    <2> SUFFICES ASSUME NEW e \in Delegates, NEW i \in 1..Len(timerQ'), NEW j \in 1..Len(timerQ'),
                        Removes(i, e)', Concerns(j, e)'
                 PROVE  j <= i
      BY DEF RemoveIsLast
    <2>1. j + 1 <= i + 1
      BY <1>4, <1>8 DEF DelegateInv, RemoveIsLast
    <2> QED BY <1>4, <2>1
  <1>10. HeldIsKept'
    BY <1>2, <1>4 DEF DelegateInv, HeldIsKept, Removes
  <1> QED BY <1>7, <1>9, <1>10 DEF DelegateInv

LEMMA StopKeeps ==
  ASSUME TimerTypeOK, DelegateInv, NEW c \in TimerClients, stop(c), UNCHANGED heap
  PROVE  DelegateInv'
  <1>1. PICK d \in Delegates : d = mTimer[c]
    BY DEF TimerTypeOK, stop
  <1>2. PICK msg \in TimerMsg : msg = [type |-> "remove", timer |-> d]
    BY DEF TimerMsg
  <1>3. /\ timerQ' = Append(timerQ, msg) /\ allocated' = allocated
        /\ mTimer' = [mTimer EXCEPT ![c] = Null]
    BY <1>1, <1>2 DEF stop
  <1>4. PICK n : n = Len(timerQ) + 1
    OBVIOUS
  <1>5. /\ Len(timerQ) \in Nat /\ Len(timerQ') = n /\ timerQ'[n] = msg
        /\ \A i \in 1..Len(timerQ) : timerQ'[i] = timerQ[i] /\ i < n
    BY <1>3, <1>4, AppendKeeps DEF TimerTypeOK
  <1>6. \A i \in 1..Len(timerQ') : (i \in 1..Len(timerQ) \/ i = n) /\ i <= n
    BY <1>4, <1>5
  <1>7. /\ \A e : \A i \in 1..Len(timerQ) : /\ Removes(i, e)' <=> Removes(i, e)
                                            /\ Concerns(i, e)' <=> Concerns(i, e)
        /\ \A e : (Removes(n, e)' <=> e = d) /\ (Concerns(n, e)' <=> e = d)
    BY <1>2, <1>5 DEF Removes, Concerns
  <1>8. /\ d \in allocated /\ d # Null
        /\ \A i \in 1..Len(timerQ) : ~Removes(i, d)
        /\ \A b \in TimerClients \ {c} : mTimer[b] # d
    BY <1>1 DEF DelegateInv, NoDeletedDelegate, HeldIsKept, stop
  <1>9. \A b \in TimerClients : /\ mTimer'[b] # Null => mTimer'[b] = mTimer[b] /\ b # c
    BY <1>3 DEF TimerTypeOK
  <1>10. NoDeletedDelegate'
    <2>1. \A i \in 1..Len(timerQ') : timerQ'[i].type # "expire" => timerQ'[i].timer \in allocated'
      BY <1>2, <1>3, <1>5, <1>6, <1>8 DEF DelegateInv, NoDeletedDelegate
    <2> QED BY <1>3, <1>9, <2>1 DEF DelegateInv, NoDeletedDelegate
  <1>11. RemoveIsLast'
    <2> SUFFICES ASSUME NEW e \in Delegates, NEW i \in 1..Len(timerQ'), NEW j \in 1..Len(timerQ'),
                        Removes(i, e)', Concerns(j, e)'
                 PROVE  j <= i
      BY DEF RemoveIsLast
    <2>1. CASE i = n
      BY <1>6, <2>1
    <2>2. CASE i \in 1..Len(timerQ)
      <3>1. Removes(i, e) /\ e # d
        BY <1>7, <1>8, <2>2
      <3>2. j \in 1..Len(timerQ)
        BY <1>6, <1>7, <3>1
      <3> QED BY <1>7, <2>2, <3>1, <3>2 DEF DelegateInv, RemoveIsLast
    <2> QED BY <1>6, <2>1, <2>2
  <1>12. HeldIsKept'
    <2>1. ASSUME NEW b \in TimerClients, mTimer'[b] # Null, NEW i \in 1..Len(timerQ'),
                 timerQ'[i].type = "remove", timerQ'[i].timer = mTimer'[b]
          PROVE  FALSE
      <3>1. mTimer'[b] = mTimer[b] /\ mTimer[b] # Null /\ mTimer[b] # d
        BY <1>8, <1>9, <2>1
      <3>2. i \in 1..Len(timerQ)
        BY <1>2, <1>5, <1>6, <2>1, <3>1
      <3>3. Removes(i, mTimer[b])
        BY <1>5, <2>1, <3>1, <3>2 DEF Removes
      <3> QED BY <3>1, <3>2, <3>3 DEF DelegateInv, HeldIsKept
    <2>2. \A b, e \in TimerClients : mTimer'[b] # Null /\ mTimer'[b] = mTimer'[e] => b = e
      BY <1>9 DEF DelegateInv, HeldIsKept
    <2> QED BY <2>1, <2>2 DEF HeldIsKept, Removes
  <1> QED BY <1>10, <1>11, <1>12 DEF DelegateInv

LEMMA StartKeeps ==
  ASSUME TimerTypeOK, DelegateInv, NEW c \in TimerClients, NEW delay, start(c, delay)
  PROVE  DelegateInv'
  <1>1. PICK d \in Delegates : d = newDelegate /\ d \notin allocated
    BY NewDelegate DEF start
  <1>2. PICK msg \in TimerMsg : msg = [type |-> "push", timer |-> d]
    BY DEF TimerMsg
  <1>3. /\ timerQ' = Append(timerQ, msg) /\ allocated' = allocated \cup {d} /\ UNCHANGED heap
        /\ mTimer' = [mTimer EXCEPT ![c] = d] /\ mTimer[c] = Null
    BY <1>1, <1>2 DEF start
  <1>4. PICK n : n = Len(timerQ) + 1
    OBVIOUS
  <1>5. /\ Len(timerQ) \in Nat /\ Len(timerQ') = n /\ timerQ'[n] = msg
        /\ \A i \in 1..Len(timerQ) : timerQ'[i] = timerQ[i]
    BY <1>3, <1>4, AppendKeeps DEF TimerTypeOK
  <1>6. \A i \in 1..Len(timerQ') : i \in 1..Len(timerQ) \/ i = n
    BY <1>4, <1>5
  <1>7. /\ \A i \in 1..Len(timerQ) : ~Concerns(i, d) /\ ~Removes(i, d)
        /\ \A b \in TimerClients : mTimer[b] # Null => mTimer[b] # d
    BY <1>1 DEF DelegateInv, NoDeletedDelegate, Concerns, Removes
  <1>8. NoDeletedDelegate'
    <2>1. \A i \in 1..Len(timerQ') : timerQ'[i].type # "expire" => timerQ'[i].timer \in allocated'
      BY <1>2, <1>3, <1>5, <1>6 DEF DelegateInv, NoDeletedDelegate
    <2>2. \A b \in TimerClients : mTimer'[b] # Null => mTimer'[b] \in allocated'
      BY <1>3 DEF TimerTypeOK, DelegateInv, NoDeletedDelegate
    <2> QED BY <1>3, <2>1, <2>2 DEF DelegateInv, NoDeletedDelegate
  <1>9. RemoveIsLast'
    <2> SUFFICES ASSUME NEW e \in Delegates, NEW i \in 1..Len(timerQ'), NEW j \in 1..Len(timerQ'),
                        Removes(i, e)', Concerns(j, e)'
                 PROVE  j <= i
      BY DEF RemoveIsLast
    <2>1. i \in 1..Len(timerQ) /\ Removes(i, e)
      BY <1>2, <1>5, <1>6 DEF Removes
    <2>2. e # d
      BY <1>7, <2>1
    <2>3. j \in 1..Len(timerQ) /\ Concerns(j, e)
      BY <1>2, <1>5, <1>6, <2>2 DEF Concerns
    <2> QED BY <2>1, <2>3 DEF DelegateInv, RemoveIsLast
  <1>10. HeldIsKept'
    <2>1. \A b \in TimerClients : mTimer'[b] = IF b = c THEN d ELSE mTimer[b]
      BY <1>3 DEF TimerTypeOK
    <2>2. ASSUME NEW b \in TimerClients, mTimer'[b] # Null, NEW i \in 1..Len(timerQ'),
                 timerQ'[i].type = "remove", timerQ'[i].timer = mTimer'[b]
          PROVE  FALSE
      <3>1. i \in 1..Len(timerQ) /\ Removes(i, mTimer'[b])
        BY <1>2, <1>5, <1>6, <2>2 DEF Removes
      <3>2. CASE b = c
        BY <1>7, <2>1, <3>1, <3>2
      <3>3. CASE b # c
        BY <2>1, <2>2, <3>1, <3>3 DEF DelegateInv, HeldIsKept
      <3> QED BY <3>2, <3>3
    <2>3. \A b, e \in TimerClients : mTimer'[b] # Null /\ mTimer'[b] = mTimer'[e] => b = e
      BY <1>7, <2>1, TimerAssumption DEF DelegateInv, HeldIsKept
    <2> QED BY <2>2, <2>3 DEF HeldIsKept, Removes
  <1> QED BY <1>8, <1>9, <1>10 DEF DelegateInv

LEMMA RemovePollKeeps ==
  ASSUME TimerTypeOK, DelegateInv, removePoll
  PROVE  DelegateInv'
  <1>1. PICK msg \in TimerMsg : msg = [type |-> "expire"]
    BY DEF TimerMsg
  <1>2. timerQ' = Append(timerQ, msg) /\ UNCHANGED <<mTimer, heap, allocated>>
    BY <1>1 DEF removePoll
  <1>3. /\ Len(timerQ) \in Nat /\ Len(timerQ') = Len(timerQ) + 1
        /\ timerQ'[Len(timerQ) + 1] = msg
        /\ \A i \in 1..Len(timerQ) : timerQ'[i] = timerQ[i]
    BY <1>2, AppendKeeps DEF TimerTypeOK
  <1>4. \A i \in 1..Len(timerQ') :
          timerQ'[i].type # "expire" => i \in 1..Len(timerQ) /\ timerQ'[i] = timerQ[i]
    <2>1. \A i \in 1..Len(timerQ') : i \in 1..Len(timerQ) \/ i = Len(timerQ) + 1
      BY <1>3
    <2> QED BY <1>1, <1>3, <2>1
  <1>5. NoDeletedDelegate'
    BY <1>2, <1>4 DEF DelegateInv, NoDeletedDelegate
  <1>6. RemoveIsLast'
    BY <1>4 DEF DelegateInv, RemoveIsLast, Removes, Concerns
  <1>7. HeldIsKept'
    BY <1>2, <1>4 DEF DelegateInv, HeldIsKept, Removes
  <1> QED BY <1>5, <1>6, <1>7 DEF DelegateInv

LEMMA DelegateStep ==
  ASSUME TimerTypeOK, DelegateInv, [TimerNext]_timerVars
  PROVE  DelegateInv'
  <1>1. CASE UNCHANGED <<mTimer, allocated, timerQ>> /\ heap' \subseteq heap
    BY <1>1 DEF DelegateInv, NoDeletedDelegate, RemoveIsLast, HeldIsKept, Removes, Concerns
  <1>2. CASE MsgTimerPush
    <2>1. timerQ # <<>> /\ timerQ' = Tail(timerQ) /\ UNCHANGED <<mTimer, allocated>>
      BY <1>2 DEF MsgTimerPush, Handles
    <2>2. Head(timerQ).timer \in allocated
      BY <1>2, TimerHead DEF TimerTypeOK, MsgTimerPush, Handles, DelegateInv, NoDeletedDelegate
    <2>3. heap' \subseteq allocated
      BY <1>2, <2>2 DEF MsgTimerPush, DelegateInv, NoDeletedDelegate
    <2> QED BY <2>1, <2>3, TakenMessage
  <1>3. CASE MsgTimerExpire
    <2>1. timerQ # <<>> /\ timerQ' = Tail(timerQ) /\ UNCHANGED <<mTimer, allocated>>
      BY <1>3 DEF MsgTimerExpire, Handles, Pop
    <2>2. heap' \subseteq allocated
      BY <1>3 DEF MsgTimerExpire, Pop, DelegateInv, NoDeletedDelegate
    <2> QED BY <2>1, <2>2, TakenMessage
  <1>4. CASE expire
    <2>1. CASE UNCHANGED <<mTimer, mClient, timerQ, allocated>>
      BY <1>1, <1>4, <2>1 DEF expire
    <2>2. CASE expClient # Null /\ stop(expClient)
      <3>1. expClient \in TimerClients
        BY <2>2 DEF TimerTypeOK
      <3> QED BY <1>4, <2>2, <3>1, StopKeeps DEF expire
    <2> QED BY <1>4, <2>1, <2>2 DEF expire
  <1>5. ASSUME NEW c \in TimerClients, StopByClient(c)
        PROVE  DelegateInv'
    BY <1>5, StopKeeps DEF StopByClient
  <1>6. CASE PollWakes \/ PollDisarms \/ popIfOutRanks \/ ExpireDone \/ Tick \/ UNCHANGED timerVars
    BY <1>1, <1>6 DEF PollWakes, PollDisarms, popIfOutRanks, Pop, ExpireDone, Tick, timerVars
  <1> QED BY <1>2, <1>3, <1>4, <1>5, <1>6, StartKeeps, RemoveStep, RemovePollKeeps
          DEF TimerNext, PollStep, MsgTaskStep

-----------------------------------------------------------------------------
(* The timerfd.  SoonestIsArmed is preserved because every way into its    *)
(* precondition arms the timerfd (the final update of MsgTimerExpire) or   *)
(* empties the heap, and because the time of a delegate does not change    *)
(* while it is in the heap: start writes only to a delegate that is not    *)
(* allocated, which DelegateInv keeps out of the heap.                     *)
Quiet ==
  /\ pollPc = "wait" /\ expiring = Null
  /\ \A i \in 1..Len(timerQ) : timerQ[i].type # "expire"

Ready == polled /\ \E d \in Tops(heap) : armed = mFutureTime[d]

LEMMA SoonestMeans == SoonestIsArmed <=> (heap # {} /\ Quiet => Ready)
  BY DEF SoonestIsArmed, Quiet, Ready

(* A message taken off the queue was no expiry, if it is quiet afterwards  *)
(* and the message was not one.                                            *)
LEMMA QuietBefore ==
  ASSUME TimerTypeOK, timerQ # <<>>, timerQ' = Tail(timerQ), Head(timerQ).type # "expire",
         UNCHANGED <<pollPc, expiring>>, Quiet'
  PROVE  Quiet
  <1>1. ASSUME NEW i \in 1..Len(timerQ), timerQ[i].type = "expire"
        PROVE  FALSE
    <2>1. /\ Len(Tail(timerQ)) = Len(timerQ) - 1 /\ Len(timerQ) \in Nat
          /\ \A j \in 2..Len(timerQ) : Tail(timerQ)[j - 1] = timerQ[j]
          /\ Head(timerQ) = timerQ[1]
      BY TailKeeps DEF TimerTypeOK
    <2>2. i \in 2..Len(timerQ)
      BY <1>1, <2>1
    <2>3. i - 1 \in 1..Len(timerQ') /\ timerQ'[i - 1] = timerQ[i]
      BY <2>1, <2>2
    <2> QED BY <1>1, <2>3 DEF Quiet
  <1> QED BY <1>1 DEF Quiet

(* Appending does not make it quiet.                                       *)
LEMMA QuietAppend ==
  ASSUME TimerTypeOK, NEW msg \in TimerMsg, timerQ' = Append(timerQ, msg),
         UNCHANGED <<pollPc, expiring>>, Quiet'
  PROVE  Quiet
  <1>1. /\ Len(timerQ) \in Nat /\ Len(timerQ') = Len(timerQ) + 1
        /\ \A i \in 1..Len(timerQ) : timerQ'[i] = timerQ[i]
    BY AppendKeeps DEF TimerTypeOK
  <1>2. \A i \in 1..Len(timerQ) : i \in 1..Len(timerQ')
    BY <1>1
  <1> QED BY <1>1, <1>2 DEF Quiet

(* updateSoonestTime with no prior top arms for the new one.               *)
LEMMA UpdateArms ==
  ASSUME TimerTypeOK, NEW h \in SUBSET Delegates, h # {}, NEW cur \in TopOf(h),
         updateSoonestTime(h, Null, cur)
  PROVE  polled' /\ cur \in Tops(h) /\ armed' = mFutureTime[cur]
  <1>1. cur \in Tops(h) /\ cur \in Delegates
    BY DEF TopOf, Tops
  <1>2. cur # Null
    BY <1>1, TimerAssumption
  <1> QED BY <1>1, <1>2 DEF updateSoonestTime

LEMMA PushArms ==
  ASSUME TimerTypeOK, DelegateInv, SoonestIsArmed, MsgTimerPush
  PROVE  SoonestIsArmed'
  <1>1. PICK d \in Delegates : d = Head(timerQ).timer /\ heap' = heap \cup {d}
    BY TimerHead DEF TimerTypeOK, MsgTimerPush, Handles
  <1>2. /\ timerQ # <<>> /\ timerQ' = Tail(timerQ) /\ Head(timerQ).type # "expire"
        /\ UNCHANGED <<pollPc, expiring, mFutureTime>>
    BY DEF MsgTimerPush, Handles
  <1>3. PICK prior \in TopOf(heap), cur \in TopOf(heap') :
          /\ (prior # Null /\ prior \in Tops(heap')) => cur = prior
          /\ updateSoonestTime(heap', prior, cur)
    BY DEF MsgTimerPush
  <1>4. heap \in SUBSET Delegates /\ heap' \in SUBSET Delegates /\ heap' # {}
    BY <1>1 DEF TimerTypeOK
  <1> SUFFICES ASSUME Quiet'
               PROVE  Ready'
    BY DEF SoonestIsArmed, Quiet, Ready
  <1>6. Quiet
    BY <1>2, QuietBefore
  <1>7. CASE heap = {}
    <2>1. prior = Null
      BY <1>7 DEF TopOf
    <2> QED BY <1>2, <1>3, <1>4, <2>1, UpdateArms DEF Ready, Tops, outRanks
  <1>8. CASE heap # {}
    <2>1. Ready
      BY <1>6, <1>8, SoonestMeans
    <2>2. PICK t \in Tops(heap) : armed = mFutureTime[t] /\ t \in Delegates
      BY <1>4, <2>1 DEF Ready, Tops
    <2>3. prior \in Tops(heap) /\ prior \in Delegates /\ prior # Null
      BY <1>4, <1>8, TimerAssumption DEF TopOf, Tops
    <2>4. mFutureTime \in [Delegates -> Int]
      BY TimerAssumption DEF TimerTypeOK, Time
    <2>5. mFutureTime[t] = mFutureTime[prior]
      BY <2>2, <2>3, <2>4 DEF Tops, outRanks
    <2>6. cur \in Tops(heap') /\ cur \in Delegates
      BY <1>3, <1>4 DEF TopOf, Tops
    <2>7. CASE prior \in Tops(heap')
      <3>1. cur = prior /\ UNCHANGED <<armed, polled>>
        BY <1>3, <2>3, <2>7 DEF updateSoonestTime
      <3> QED BY <1>2, <2>1, <2>2, <2>5, <2>7, <3>1 DEF Ready, Tops, outRanks
    <2>8. CASE prior \notin Tops(heap')
      <3>1. PICK e \in heap' : mFutureTime[e] < mFutureTime[prior]
        BY <1>1, <2>3, <2>8 DEF Tops, outRanks
      <3>2. outRanks(cur, prior)
        BY <1>4, <2>3, <2>4, <2>6, <3>1 DEF Tops, outRanks
      <3>3. polled' /\ armed' = mFutureTime[cur]
        BY <1>3, <1>4, <2>6, <2>8, <3>2 DEF updateSoonestTime
      <3> QED BY <1>2, <2>6, <3>3 DEF Ready, Tops, outRanks
    <2> QED BY <2>7, <2>8
  <1> QED BY <1>7, <1>8

LEMMA RemoveArms ==
  ASSUME TimerTypeOK, DelegateInv, SoonestIsArmed, MsgTimerRemove
  PROVE  SoonestIsArmed'
  <1>1. PICK d \in Delegates : d = Head(timerQ).timer
    BY TimerHead DEF TimerTypeOK, MsgTimerRemove, Handles
  <1>2. /\ timerQ # <<>> /\ timerQ' = Tail(timerQ) /\ Head(timerQ).type # "expire"
        /\ heap' = heap \ {d} /\ UNCHANGED <<pollPc, expiring>>
        /\ mFutureTime' = [mFutureTime EXCEPT ![d] = 0]
    BY <1>1 DEF MsgTimerRemove, Handles
  <1>3. PICK prior \in TopOf(heap), cur \in TopOf(heap') :
          IF prior = d \/ heap = {}
          THEN updateSoonestTime(heap', Null, cur)
          ELSE UNCHANGED <<armed, polled>>
    BY <1>1 DEF MsgTimerRemove
  <1>4. heap' \in SUBSET Delegates
    BY <1>2 DEF TimerTypeOK
  <1>5. \A e \in heap' : mFutureTime'[e] = mFutureTime[e]
    BY <1>2, <1>4 DEF TimerTypeOK
  <1> SUFFICES ASSUME heap' # {}, Quiet'
               PROVE  Ready'
    BY DEF SoonestIsArmed, Quiet, Ready
  <1>6. heap # {} /\ Ready
    BY <1>2, QuietBefore, SoonestMeans
  <1>7. CASE prior = d
    <2>1. polled' /\ cur \in Tops(heap') /\ armed' = mFutureTime[cur]
      BY <1>3, <1>4, <1>7, UpdateArms
    <2> QED BY <1>5, <2>1 DEF Ready, Tops, outRanks
  <1>8. CASE prior # d
    <2>1. UNCHANGED <<armed, polled>>
      BY <1>3, <1>6, <1>8
    <2>2. prior \in Tops(heap) /\ prior \in heap'
      BY <1>2, <1>6, <1>8 DEF TopOf, Tops
    <2>3. PICK t \in Tops(heap) : armed = mFutureTime[t] /\ t \in Delegates
      BY <1>6 DEF Ready, Tops, TimerTypeOK
    <2>4. mFutureTime \in [Delegates -> Int] /\ prior \in Delegates
      BY <1>4, <2>2, TimerAssumption DEF TimerTypeOK, Time
    <2>5. armed = mFutureTime[prior]
      BY <2>2, <2>3, <2>4 DEF Tops, outRanks
    <2>6. prior \in Tops(heap)'
      BY <1>2, <1>5, <2>2 DEF Tops, outRanks
    <2> QED BY <1>5, <1>6, <2>1, <2>2, <2>5, <2>6 DEF Ready
  <1> QED BY <1>7, <1>8

LEMMA SoonestStep ==
  ASSUME TimerTypeOK, DelegateInv, SoonestIsArmed, [TimerNext]_timerVars
  PROVE  SoonestIsArmed'
  <1>1. ASSUME UNCHANGED <<heap, armed, polled>>, Quiet' => Quiet,
               \A d \in heap : mFutureTime'[d] = mFutureTime[d]
        PROVE  SoonestIsArmed'
    <2>1. Ready => Ready'
      BY <1>1 DEF Ready, Tops, outRanks
    <2>2. heap' # {} /\ Quiet' => Ready'
      BY <1>1, <2>1, SoonestMeans
    <2> QED BY <2>2 DEF SoonestIsArmed, Quiet, Ready
  <1>2. ASSUME NEW c \in TimerClients, NEW delay \in Delays, start(c, delay)
        PROVE  SoonestIsArmed'
    <2>1. PICK d \in Delegates : d = newDelegate /\ d \notin allocated
      BY <1>2, NewDelegate DEF start
    <2>2. PICK msg \in TimerMsg : msg = [type |-> "push", timer |-> d]
      BY DEF TimerMsg
    <2>3. Quiet' => Quiet
      BY <1>2, <2>1, <2>2, QuietAppend DEF start
    <2>4. \A e \in heap : mFutureTime'[e] = mFutureTime[e]
      BY <1>2, <2>1 DEF start, TimerTypeOK, DelegateInv, NoDeletedDelegate
    <2> QED BY <1>1, <1>2, <2>3, <2>4 DEF start
  <1>3. ASSUME NEW c \in TimerClients, StopByClient(c)
        PROVE  SoonestIsArmed'
    <2>1. PICK msg \in TimerMsg : msg = [type |-> "remove", timer |-> mTimer[c]]
      BY <1>3 DEF TimerTypeOK, TimerMsg, StopByClient, stop
    <2>2. Quiet' => Quiet
      BY <1>3, <2>1, QuietAppend DEF StopByClient, stop
    <2> QED BY <1>1, <1>3, <2>2 DEF StopByClient
  <1>4. ASSUME ~Quiet'
        PROVE  SoonestIsArmed'
    BY <1>4 DEF SoonestIsArmed, Quiet
  <1>5. CASE PollWakes \/ PollDisarms
    BY <1>4, <1>5 DEF PollWakes, PollDisarms, Quiet
  <1>6. CASE removePoll
    <2>1. PICK msg \in TimerMsg : msg = [type |-> "expire"]
      BY DEF TimerMsg
    <2>2. timerQ' = Append(timerQ, msg)
      BY <1>6, <2>1 DEF removePoll
    <2>3. Len(timerQ) + 1 \in 1..Len(timerQ') /\ timerQ'[Len(timerQ) + 1] = msg
      BY <2>2, AppendKeeps DEF TimerTypeOK
    <2> QED BY <1>4, <2>1, <2>3 DEF Quiet
  <1>7. ASSUME NEW d \in Tops(heap), Pop(d)
        PROVE  SoonestIsArmed'
    <2>1. expiring' # Null
      BY <1>7, TimerAssumption DEF Pop, Tops, TimerTypeOK
    <2> QED BY <1>4, <2>1 DEF Quiet
  <1>8. CASE MsgTimerExpire
    <2>1. CASE heap = {} /\ UNCHANGED heap
      BY <2>1 DEF SoonestIsArmed
    <2> QED BY <1>7, <1>8, <2>1 DEF MsgTimerExpire
  <1>9. CASE popIfOutRanks
    BY <1>7, <1>9 DEF popIfOutRanks
  <1>10. CASE ExpireDone
    <2>1. PICK cur \in TopOf(heap) : updateSoonestTime(heap, Null, cur)
      BY <1>10 DEF ExpireDone
    <2>2. UNCHANGED <<heap, mFutureTime>>
      BY <1>10 DEF ExpireDone
    <2>3. heap # {} => polled' /\ cur \in Tops(heap) /\ armed' = mFutureTime[cur]
      BY <2>1, UpdateArms DEF TimerTypeOK
    <2>4. heap' # {} => Ready'
      BY <2>2, <2>3 DEF Ready, Tops, outRanks
    <2> QED BY <2>4 DEF SoonestIsArmed, Ready
  <1>11. CASE expire
    <2>1. expiring' # Null
      BY <1>11, TimerAssumption DEF expire
    <2> QED BY <1>4, <2>1 DEF Quiet
  <1>12. CASE Tick \/ UNCHANGED timerVars
    BY <1>1, <1>12 DEF Tick, timerVars, Quiet
  <1> QED BY <1>2, <1>3, <1>5, <1>6, <1>8, <1>9, <1>10, <1>11, <1>12, PushArms, RemoveArms
          DEF TimerNext, PollStep, MsgTaskStep

LEMMA TimerStart ==
  ASSUME TimerInit
  PROVE  TimerInv
  <1>1. TimerTypeOK
    <2>1. 0 \in Time /\ <<>> \in Seq(TimerMsg)
      BY TimerAssumption DEF Time
    <2> QED BY <2>1 DEF TimerInit, TimerTypeOK
  <1>2. DelegateInv
    BY DEF TimerInit, DelegateInv, NoDeletedDelegate, RemoveIsLast, HeldIsKept
  <1> QED BY <1>1, <1>2 DEF TimerInit, TimerInv, SoonestIsArmed

LEMMA TimerInvariant == TimerSpec => []TimerInv
  <1>1. TimerInv /\ [TimerNext]_timerVars => TimerInv'
    BY TimerTypeStep, DelegateStep, SoonestStep DEF TimerInv
  <1> QED BY <1>1, TimerStart, PTL DEF TimerSpec

(* The timer service is well typed: in particular the timerfd is armed for *)
(* an instant of the clock or disarmed, and the messages name delegates.   *)
THEOREM TimerTypeCorrect == TimerSpec => []TimerTypeOK
  BY TimerInvariant, PTL DEF TimerInv

(* LocTimerDelegate objects are deleted by MsgTimerRemove only: nothing    *)
(* that the heap, a queued message or a LocTimer refers to is ever deleted, *)
(* whatever the order of start, stop and expiry.                           *)
THEOREM DelegatesOutliveTheirUse == TimerSpec => []NoDeletedDelegate
  BY TimerInvariant, PTL DEF TimerInv, DelegateInv

(* The service does not oversleep: with timers in the heap, no expiry      *)
(* under way and none queued, the timerfd is polled and set to the soonest *)
(* timer, for every interleaving of the polling thread with the message    *)
(* task and any number of timers.                                          *)
THEOREM SoonestTimerIsArmed == TimerSpec => []SoonestIsArmed
  BY TimerInvariant, PTL DEF TimerInv

-----------------------------------------------------------------------------
(* Network-initiated sessions.  The payload of a request is at every       *)
(* moment in one place only: a session, a thread on its way out, a message *)
(* for the engine, or freed.  NiPayloadFreedOnce says that a payload held  *)
(* somewhere is not freed; that it stays so needs that it is held nowhere  *)
(* else.                                                                   *)
InSession(r) == \E s \in NiSessions : rawRequest[s] = r
InThread(r) == \E t \in NiRequests : niThread[t].took = r
InMessage(r) == \E m \in niOutbox : m.request = r

HeldOnce(r) ==
  /\ \A s, t \in NiSessions : rawRequest[s] = r /\ rawRequest[t] = r => s = t
  /\ \A s, t \in NiRequests : niThread[s].took = r /\ niThread[t].took = r => s = t
  /\ \A m, n \in niOutbox : m.request = r /\ n.request = r => m = n
  /\ InSession(r) => ~InThread(r) /\ ~InMessage(r)
  /\ InThread(r) => ~InMessage(r)

NotFreedWhileHeld(r) ==
  /\ niFreed[r] <= 1
  /\ InSession(r) \/ InThread(r) \/ InMessage(r) => niFreed[r] = 0
  /\ r > reqIDCounter => niFreed[r] = 0 /\ ~InSession(r) /\ ~InThread(r) /\ ~InMessage(r)

ThreadsOK ==
  \A r \in NiRequests : /\ niThread[r].pc \in {"none", "wait"} => niThread[r].took = NoNi
                        /\ r > reqIDCounter => niThread[r].pc = "none"

PayloadInv == ThreadsOK /\ \A r \in NiRequests : HeldOnce(r) /\ NotFreedWhileHeld(r)

NiInv == NiTypeOK /\ PayloadInv

LEMMA PayloadSuffices ==
  ASSUME NiTypeOK, PayloadInv
  PROVE  NiPayloadFreedOnce
  <1>1. \A r \in NiRequests : niFreed[r] <= 1
    BY DEF PayloadInv, NotFreedWhileHeld
  <1>2. ASSUME NEW s \in NiSessions, rawRequest[s] # NoNi
        PROVE  niFreed[rawRequest[s]] = 0
    <2>1. rawRequest[s] \in NiRequests
      BY <1>2 DEF NiTypeOK
    <2> QED BY <2>1 DEF PayloadInv, NotFreedWhileHeld, InSession
  <1>3. ASSUME NEW t \in NiRequests, niThread[t].took # NoNi
        PROVE  /\ niFreed[niThread[t].took] = 0
               /\ \A s \in NiSessions : rawRequest[s] # niThread[t].took
    <2>1. niThread[t].took \in NiRequests
      BY <1>3 DEF NiTypeOK, ThreadState
    <2> QED BY <2>1 DEF PayloadInv, HeldOnce, NotFreedWhileHeld, InThread, InSession
  <1>4. ASSUME NEW m \in niOutbox
        PROVE  niFreed[m.request] = 0
    <2>1. m.request \in NiRequests
      BY DEF NiTypeOK
    <2> QED BY <2>1 DEF PayloadInv, NotFreedWhileHeld, InMessage
  <1> QED BY <1>1, <1>2, <1>3, <1>4 DEF NiPayloadFreedOnce

(* What a step may do to the payloads, without the rest of the state.      *)
LEMMA PayloadStays ==
  ASSUME PayloadInv, UNCHANGED <<rawRequest, niOutbox, niFreed, reqIDCounter, niThread>>
  PROVE  PayloadInv'
  BY DEF PayloadInv, ThreadsOK, HeldOnce, NotFreedWhileHeld, InSession, InThread, InMessage

LEMMA RespondTyped ==
  ASSUME NiTypeOK, NEW s \in NiSessions, NEW response \in GnssNiResponse, Respond(s, response),
         niHandling' \in Handling \cup {NoNi}
  PROVE  NiTypeOK'
  BY DEF NiTypeOK, Respond

LEMMA NotifyStep ==
  ASSUME NiInv, NEW s \in NiSessions, requestNiNotify(s)
  PROVE  NiInv'
  <1> USE NiAssumption
  <1>1. PICK r \in NiRequests : r = reqIDCounter + 1 /\ r # NoNi
    BY DEF NiInv, NiTypeOK, NiRequests, requestNiNotify
  <1>2. /\ rawRequest[s] = NoNi
        /\ rawRequest' = [rawRequest EXCEPT ![s] = r] /\ reqIDCounter' = r
        /\ reqID' = [reqID EXCEPT ![s] = r]
        /\ niThread' = [niThread EXCEPT ![r].pc = "wait", ![r].session = s]
        /\ UNCHANGED <<respRecvd, resp, niHandling, niOutbox, niAnswered, niFreed, userSaid>>
    BY <1>1 DEF requestNiNotify, NiSessions
  <1>3. /\ niThread'[r] = [niThread[r] EXCEPT !.pc = "wait", !.session = s]
        /\ niThread[r] \in ThreadState
        /\ \A t \in NiRequests \ {r} : niThread'[t] = niThread[t]
        /\ niThread' \in [NiRequests -> ThreadState]
    BY <1>1, <1>2 DEF NiInv, NiTypeOK, ThreadState
  <1>4. \A t \in NiRequests : niThread'[t].took = niThread[t].took
    BY <1>3 DEF ThreadState
  <1>5. NiTypeOK'
    <2>1. r \in 0..MaxNi
      BY <1>1 DEF NiRequests
    <2> QED BY <1>1, <1>2, <1>3, <2>1 DEF NiInv, NiTypeOK
  <1>6. /\ \A q \in NiRequests : InThread(q)' <=> InThread(q)
        /\ \A q \in NiRequests : InMessage(q)' <=> InMessage(q)
        /\ \A q \in NiRequests : InSession(q)' <=> InSession(q) \/ q = r
        /\ \A q \in NiRequests : q > r => q > reqIDCounter /\ q # r
    BY <1>1, <1>2, <1>4 DEF NiInv, NiTypeOK, NiRequests, InThread, InMessage, InSession
  <1>7. /\ ~InSession(r) /\ ~InThread(r) /\ ~InMessage(r) /\ niFreed[r] = 0
        /\ niThread[r].pc = "none"
    <2>1. r > reqIDCounter
      BY <1>1 DEF NiInv, NiTypeOK
    <2> QED BY <2>1 DEF NiInv, PayloadInv, NotFreedWhileHeld, ThreadsOK
  <1>8. ThreadsOK'
    <2>1. niThread'[r].pc = "wait" /\ niThread[r].took = NoNi /\ ~(r > r)
      BY <1>3, <1>7 DEF ThreadState, NiInv, PayloadInv, ThreadsOK, NiRequests
    <2> QED BY <1>2, <1>3, <1>4, <1>6, <2>1 DEF NiInv, PayloadInv, ThreadsOK
  <1>9. ASSUME NEW q \in NiRequests
        PROVE  HeldOnce(q)' /\ NotFreedWhileHeld(q)'
    <2>1. HeldOnce(q) /\ NotFreedWhileHeld(q)
      BY DEF NiInv, PayloadInv
    <2>2. \A a \in NiSessions : rawRequest'[a] = IF a = s THEN r ELSE rawRequest[a]
      BY <1>2 DEF NiInv, NiTypeOK
    <2>3. \A a, b \in NiSessions : rawRequest'[a] = q /\ rawRequest'[b] = q => a = b
      BY <1>7, <2>1, <2>2 DEF HeldOnce, InSession
    <2>4. HeldOnce(q)'
      BY <1>2, <1>4, <1>6, <1>7, <2>1, <2>3 DEF HeldOnce
    <2>5. NotFreedWhileHeld(q)'
      BY <1>2, <1>6, <1>7, <2>1 DEF NotFreedWhileHeld
    <2> QED BY <2>4, <2>5
  <1> QED BY <1>5, <1>8, <1>9 DEF NiInv, PayloadInv

LEMMA ThreadTakes ==
  ASSUME NiInv, NEW r \in NiRequests, niThreadProc(r)
  PROVE  NiInv'
  <1> USE NiAssumption
  <1>1. PICK s \in NiSessions : s = niThread[r].session
    BY DEF NiInv, NiTypeOK, ThreadState
  <1>2. PICK answer \in GnssNiResponse :
          answer = IF respRecvd[s] THEN resp[s] ELSE "NO_RESPONSE"
    BY DEF NiInv, NiTypeOK, GnssNiResponse
  <1>3. PICK p \in NiRequests \cup {NoNi} : p = rawRequest[s]
    BY DEF NiInv, NiTypeOK
  <1>4. PICK took \in NiRequests \cup {NoNi} : took = IF answer # "IGNORE" THEN p ELSE NoNi
    OBVIOUS
  <1>5. Taken(r, answer) = took
    BY <1>1, <1>3, <1>4 DEF Taken
  <1>6. /\ niThread[r].pc = "wait"
        /\ resp' = [resp EXCEPT ![s] = answer]
        /\ respRecvd' = [respRecvd EXCEPT ![s] = FALSE]
        /\ niThread' = [niThread EXCEPT ![r].pc = "exit", ![r].took = took, ![r].resp = answer]
        /\ niFreed' = IF p # NoNi /\ answer = "IGNORE" THEN [niFreed EXCEPT ![p] = @ + 1] ELSE niFreed
        /\ rawRequest' = [rawRequest EXCEPT ![s] = NoNi]
        /\ UNCHANGED <<reqID, reqIDCounter, niHandling, niOutbox, niAnswered, userSaid>>
    BY <1>1, <1>2, <1>3, <1>5 DEF niThreadProc
  <1>7. /\ niThread'[r] = [niThread[r] EXCEPT !.pc = "exit", !.took = took, !.resp = answer]
        /\ niThread[r] \in ThreadState
        /\ \A t \in NiRequests \ {r} : niThread'[t] = niThread[t]
        /\ niThread' \in [NiRequests -> ThreadState]
    <2>1. niThread \in [NiRequests -> ThreadState]
      BY DEF NiInv, NiTypeOK
    <2> DEFINE new == [niThread[r] EXCEPT !.pc = "exit", !.took = took, !.resp = answer]
    <2>2. new \in ThreadState
      BY <2>1 DEF ThreadState
    <2>3. niThread' = [niThread EXCEPT ![r] = new]
      BY <1>6, <2>1
    <2> HIDE DEF new
    <2>4. /\ niThread'[r] = new /\ niThread[r] \in ThreadState
          /\ \A t \in NiRequests \ {r} : niThread'[t] = niThread[t]
          /\ niThread' \in [NiRequests -> ThreadState]
      BY <2>1, <2>2, <2>3
    <2> QED BY <2>4 DEF new
  <1>8. NiTypeOK'
    <2>1. niFreed' \in [NiRequests -> Nat]
      BY <1>6 DEF NiInv, NiTypeOK
    <2> QED BY <1>6, <1>7, <2>1 DEF NiInv, NiTypeOK
  <1>9. /\ niThread[r].took = NoNi /\ niThread'[r].took = took /\ niThread'[r].pc = "exit"
        /\ ~(r > reqIDCounter)
    <2>1. niThread'[r].took = took /\ niThread'[r].pc = "exit"
      BY <1>7 DEF ThreadState
    <2>2. niThread[r].took = NoNi /\ ~(r > reqIDCounter)
      BY <1>6 DEF NiInv, PayloadInv, ThreadsOK
    <2> QED BY <2>1, <2>2
  <1>10. ThreadsOK'
    BY <1>6, <1>7, <1>9 DEF NiInv, PayloadInv, ThreadsOK
  <1>11. ASSUME NEW q \in NiRequests
         PROVE  HeldOnce(q)' /\ NotFreedWhileHeld(q)'
    <2>1. HeldOnce(q) /\ NotFreedWhileHeld(q) /\ q # NoNi
      BY DEF NiInv, PayloadInv, NiRequests
    <2>2. /\ \A a \in NiSessions : rawRequest'[a] = IF a = s THEN NoNi ELSE rawRequest[a]
          /\ \A t \in NiRequests : niThread'[t].took = IF t = r THEN took ELSE niThread[t].took
      BY <1>6, <1>7, <1>9 DEF NiInv, NiTypeOK
    <2>3. CASE q # p
      <3>1. q # took /\ niFreed'[q] = niFreed[q]
        BY <1>4, <1>6, <2>1, <2>3 DEF NiInv, NiTypeOK
      <3>2. /\ InSession(q)' => InSession(q)
            /\ InThread(q)' => InThread(q)
            /\ InMessage(q)' <=> InMessage(q)
        <4>1. InSession(q)' => InSession(q)
          BY <2>1, <2>2 DEF InSession
        <4>2. InThread(q)' => InThread(q)
          BY <2>2, <3>1 DEF InThread
        <4>3. InMessage(q)' <=> InMessage(q)
          BY <1>6 DEF InMessage
        <4> QED BY <4>1, <4>2, <4>3
      <3>3. HeldOnce(q)'
        <4>1. \A a, b \in NiSessions : rawRequest'[a] = q /\ rawRequest'[b] = q => a = b
          BY <2>1, <2>2 DEF HeldOnce
        <4>2. \A a, b \in NiRequests : niThread'[a].took = q /\ niThread'[b].took = q => a = b
          BY <2>1, <2>2, <3>1 DEF HeldOnce
        <4>3. \A m, n \in niOutbox' : m.request = q /\ n.request = q => m = n
          BY <1>6, <2>1 DEF HeldOnce
        <4>4. (InSession(q)' => ~InThread(q)' /\ ~InMessage(q)') /\ (InThread(q)' => ~InMessage(q)')
          BY <2>1, <3>2 DEF HeldOnce
        <4> QED BY <4>1, <4>2, <4>3, <4>4 DEF HeldOnce
      <3>4. NotFreedWhileHeld(q)'
        BY <1>6, <2>1, <3>1, <3>2 DEF NotFreedWhileHeld
      <3> QED BY <3>3, <3>4
    <2>4. CASE q = p
      <3>1. InSession(q) /\ ~InThread(q) /\ ~InMessage(q) /\ niFreed[q] = 0
        BY <1>3, <2>1, <2>4 DEF InSession, HeldOnce, NotFreedWhileHeld
      <3>2. ~InSession(q)'
        BY <1>3, <2>1, <2>2, <2>4 DEF InSession, HeldOnce
      <3>3. InThread(q)' <=> took = q
        BY <2>2, <3>1 DEF InThread
      <3>4. ~InMessage(q)'
        BY <1>6, <3>1 DEF InMessage
      <3>5. HeldOnce(q)'
        BY <2>2, <3>1, <3>2, <3>4 DEF HeldOnce, InThread, InSession, InMessage
      <3>6. niFreed'[q] = IF answer = "IGNORE" THEN 1 ELSE 0
        BY <1>6, <2>1, <2>4, <3>1 DEF NiInv, NiTypeOK
      <3>7. took = q => answer # "IGNORE"
        BY <1>4, <2>1
      <3>8. ~(q > reqIDCounter')
        BY <1>6, <2>1, <3>1 DEF NotFreedWhileHeld
      <3>9. NotFreedWhileHeld(q)'
        BY <3>2, <3>3, <3>4, <3>6, <3>7, <3>8 DEF NotFreedWhileHeld
      <3> QED BY <3>5, <3>9
    <2> QED BY <2>3, <2>4
  <1> QED BY <1>8, <1>10, <1>11 DEF NiInv, PayloadInv

LEMMA ThreadExits ==
  ASSUME NiInv, NEW r \in NiRequests, NiThreadExits(r)
  PROVE  NiInv'
  <1> USE NiAssumption
  <1>1. PICK p \in NiRequests \cup {NoNi} : p = niThread[r].took
    BY DEF NiInv, NiTypeOK, ThreadState
  <1>2. PICK msg \in [request : NiRequests \cup {NoNi}, response : GnssNiResponse] :
          msg = [request |-> p, response |-> niThread[r].resp]
    BY DEF NiInv, NiTypeOK, ThreadState
  <1>3. /\ niThread[r].pc = "exit"
        /\ niThread' = [niThread EXCEPT ![r].pc = "done", ![r].took = NoNi]
        /\ reqID' = [reqID EXCEPT ![niThread[r].session] = 0]
        /\ niOutbox' = IF p = NoNi THEN niOutbox ELSE niOutbox \cup {msg}
        /\ UNCHANGED <<rawRequest, respRecvd, resp, reqIDCounter, niHandling, niAnswered, niFreed,
                       userSaid>>
    BY <1>1, <1>2 DEF NiThreadExits
  <1>4. /\ niThread'[r] = [niThread[r] EXCEPT !.pc = "done", !.took = NoNi]
        /\ niThread[r] \in ThreadState
        /\ \A t \in NiRequests \ {r} : niThread'[t] = niThread[t]
        /\ niThread' \in [NiRequests -> ThreadState]
    <2>1. niThread \in [NiRequests -> ThreadState]
      BY DEF NiInv, NiTypeOK
    <2> DEFINE new == [niThread[r] EXCEPT !.pc = "done", !.took = NoNi]
    <2>2. new \in ThreadState
      BY <2>1 DEF ThreadState
    <2>3. niThread' = [niThread EXCEPT ![r] = new]
      BY <1>3, <2>1
    <2> HIDE DEF new
    <2>4. /\ niThread'[r] = new /\ niThread[r] \in ThreadState
          /\ \A t \in NiRequests \ {r} : niThread'[t] = niThread[t]
          /\ niThread' \in [NiRequests -> ThreadState]
      BY <2>1, <2>2, <2>3
    <2> QED BY <2>4 DEF new
  <1>5. niThread'[r].took = NoNi /\ niThread'[r].pc = "done"
    BY <1>4 DEF ThreadState
  <1>6. NiTypeOK'
    <2>1. reqID' \in [NiSessions -> 0..MaxNi]
      <3>1. 0 \in 0..MaxNi
        OBVIOUS
      <3> QED BY <1>3, <3>1 DEF NiInv, NiTypeOK
    <2>2. niOutbox' \subseteq [request : NiRequests, response : GnssNiResponse]
      <3>1. p # NoNi => msg \in [request : NiRequests, response : GnssNiResponse]
        BY <1>2
      <3> QED BY <1>3, <3>1 DEF NiInv, NiTypeOK
    <2> QED BY <1>3, <1>4, <2>1, <2>2 DEF NiInv, NiTypeOK
  <1>7. ThreadsOK'
    <2>1. ~(r > reqIDCounter)
      BY <1>3 DEF NiInv, PayloadInv, ThreadsOK
    <2> QED BY <1>3, <1>4, <1>5, <2>1 DEF NiInv, PayloadInv, ThreadsOK
  <1>8. ASSUME NEW q \in NiRequests
        PROVE  HeldOnce(q)' /\ NotFreedWhileHeld(q)'
    <2>1. HeldOnce(q) /\ NotFreedWhileHeld(q) /\ q # NoNi
      BY DEF NiInv, PayloadInv, NiRequests
    <2>2. \A t \in NiRequests : niThread'[t].took = IF t = r THEN NoNi ELSE niThread[t].took
      BY <1>4, <1>5
    <2>3. /\ InSession(q)' <=> InSession(q)
          /\ \A a, b \in NiSessions : rawRequest'[a] = q /\ rawRequest'[b] = q => a = b
      BY <1>3, <2>1 DEF InSession, HeldOnce
    <2>4. \A a, b \in NiRequests : niThread'[a].took = q /\ niThread'[b].took = q => a = b
      BY <2>1, <2>2 DEF HeldOnce
    <2>5. msg.request = p
      BY <1>2
    <2>6. CASE q # p
      <3>1. \A m \in niOutbox' : m.request = q => m \in niOutbox
        BY <1>3, <2>5, <2>6
      <3>2. InMessage(q)' => InMessage(q)
        BY <3>1 DEF InMessage
      <3>3. InThread(q)' => InThread(q)
        BY <2>1, <2>2 DEF InThread
      <3>4. \A m, n \in niOutbox' : m.request = q /\ n.request = q => m = n
        BY <2>1, <3>1 DEF HeldOnce
      <3>5. HeldOnce(q)'
        <4>1. (InSession(q)' => ~InThread(q)' /\ ~InMessage(q)') /\ (InThread(q)' => ~InMessage(q)')
          BY <2>1, <2>3, <3>2, <3>3 DEF HeldOnce
        <4> QED BY <2>3, <2>4, <3>4, <4>1 DEF HeldOnce
      <3>6. NotFreedWhileHeld(q)'
        BY <1>3, <2>1, <2>3, <3>2, <3>3 DEF NotFreedWhileHeld
      <3> QED BY <3>5, <3>6
    <2>7. CASE q = p
      <3>1. InThread(q) /\ ~InSession(q) /\ ~InMessage(q) /\ niFreed[q] = 0
        BY <1>1, <2>1, <2>7 DEF InThread, HeldOnce, NotFreedWhileHeld
      <3>2. ~InThread(q)'
        BY <1>1, <2>1, <2>2, <2>7 DEF InThread, HeldOnce
      <3>3. \A m \in niOutbox' : m.request = q => m = msg
        BY <1>3, <3>1 DEF InMessage
      <3>4. HeldOnce(q)'
        <4>1. \A m, n \in niOutbox' : m.request = q /\ n.request = q => m = n
          BY <3>3
        <4>2. (InSession(q)' => ~InThread(q)' /\ ~InMessage(q)') /\ (InThread(q)' => ~InMessage(q)')
          BY <2>3, <3>1, <3>2
        <4> QED BY <2>3, <2>4, <4>1, <4>2 DEF HeldOnce
      <3>5. ~(q > reqIDCounter')
        BY <1>3, <2>1, <3>1 DEF NotFreedWhileHeld
      <3>6. NotFreedWhileHeld(q)'
        BY <1>3, <3>1, <3>5 DEF NotFreedWhileHeld
      <3> QED BY <3>4, <3>6
    <2> QED BY <2>6, <2>7
  <1> QED BY <1>6, <1>7, <1>8 DEF NiInv, PayloadInv

LEMMA EngineInformed ==
  ASSUME NiInv, NEW m \in niOutbox, informNiResponse(m)
  PROVE  NiInv'
  <1> USE NiAssumption
  <1>1. PICK p \in NiRequests : p = m.request
    BY DEF NiInv, NiTypeOK
  <1>2. /\ niOutbox' = niOutbox \ {m}
        /\ niAnswered' = [niAnswered EXCEPT ![p] = @ \cup {m.response}]
        /\ niFreed' = [niFreed EXCEPT ![p] = @ + 1]
        /\ UNCHANGED <<rawRequest, reqID, respRecvd, resp, reqIDCounter, niThread, niHandling,
                       userSaid>>
    BY <1>1 DEF informNiResponse
  <1>3. NiTypeOK'
    <2>1. m.response \in GnssNiResponse
      BY DEF NiInv, NiTypeOK
    <2>2. niAnswered' \in [NiRequests -> SUBSET GnssNiResponse] /\ niFreed' \in [NiRequests -> Nat]
      BY <1>2, <2>1 DEF NiInv, NiTypeOK
    <2> QED BY <1>2, <2>2 DEF NiInv, NiTypeOK
  <1>4. ThreadsOK'
    BY <1>2 DEF NiInv, PayloadInv, ThreadsOK
  <1>5. ASSUME NEW q \in NiRequests
        PROVE  HeldOnce(q)' /\ NotFreedWhileHeld(q)'
    <2>1. HeldOnce(q) /\ NotFreedWhileHeld(q)
      BY DEF NiInv, PayloadInv
    <2>2. /\ InSession(q)' <=> InSession(q)
          /\ InThread(q)' <=> InThread(q)
          /\ InMessage(q)' => InMessage(q)
      BY <1>2 DEF InSession, InThread, InMessage
    <2>3. HeldOnce(q)'
      BY <1>2, <2>1, <2>2 DEF HeldOnce
    <2>4. CASE q # p
      <3>1. niFreed'[q] = niFreed[q]
        BY <1>2, <2>4 DEF NiInv, NiTypeOK
      <3> QED BY <1>2, <2>1, <2>2, <2>3, <3>1 DEF NotFreedWhileHeld
    <2>5. CASE q = p
      <3>1. InMessage(q) /\ ~InSession(q) /\ ~InThread(q) /\ niFreed[q] = 0
        BY <1>1, <2>1, <2>5 DEF InMessage, HeldOnce, NotFreedWhileHeld
      <3>2. ~InMessage(q)'
        BY <1>1, <1>2, <2>1, <2>5 DEF InMessage, HeldOnce
      <3>3. niFreed'[q] = 1 /\ ~(q > reqIDCounter')
        BY <1>2, <2>1, <2>5, <3>1 DEF NiInv, NiTypeOK, NotFreedWhileHeld
      <3>4. NotFreedWhileHeld(q)'
        BY <2>2, <3>1, <3>2, <3>3 DEF NotFreedWhileHeld
      <3> QED BY <2>3, <3>4
    <2> QED BY <2>4, <2>5
  <1> QED BY <1>3, <1>4, <1>5 DEF NiInv, PayloadInv

(* The steps of the adapter's thread that handle a user's response leave   *)
(* every payload where it is.                                              *)
LEMMA UserResponds ==
  ASSUME NiInv
  PROVE  /\ \A id \in NiRequests, response \in UserResponses :
              gnssNiResponseCommand(id, response) => NiInv'
         /\ IgnoreSession \/ SignalSession => NiInv'
  <1>1. ASSUME NEW id \in NiRequests, NEW response \in UserResponses,
               gnssNiResponseCommand(id, response)
        PROVE  NiInv'
    <2>1. niHandling' \in Handling
      BY <1>1 DEF gnssNiResponseCommand, Handling, NiSessions
    <2>2. NiTypeOK'
      BY <1>1, <2>1 DEF gnssNiResponseCommand, NiInv, NiTypeOK
    <2>3. PayloadInv'
      BY <1>1, PayloadStays DEF gnssNiResponseCommand, NiInv
    <2> QED BY <2>2, <2>3 DEF NiInv
  <1>2. CASE IgnoreSession
    <2>1. niHandling' \in Handling /\ "session" \in NiSessions /\ "IGNORE" \in GnssNiResponse
      BY <1>2 DEF IgnoreSession, NiInv, NiTypeOK, Handling, NiSessions, GnssNiResponse
    <2>2. NiTypeOK'
      BY <1>2, <2>1, RespondTyped DEF IgnoreSession, NiInv
    <2> QED BY <1>2, <2>2, PayloadStays DEF IgnoreSession, Respond, NiInv
  <1>3. CASE SignalSession
    <2>1. niHandling.session \in NiSessions /\ niHandling.response \in GnssNiResponse
      BY <1>3 DEF SignalSession, NiInv, NiTypeOK, Handling, GnssNiResponse
    <2>2. NiTypeOK'
      BY <1>3, <2>1, RespondTyped DEF SignalSession, NiInv
    <2> QED BY <1>3, <2>2, PayloadStays DEF SignalSession, Respond, NiInv
  <1> QED BY <1>1, <1>2, <1>3

LEMMA NiStart ==
  ASSUME NiInit
  PROVE  NiInv
  <1> USE NiAssumption
  <1>1. NiTypeOK
    <2>1. 0 \in 0..MaxNi /\ "NO_RESPONSE" \in GnssNiResponse /\ "session" \in NiSessions
      BY DEF GnssNiResponse, NiSessions
    <2> QED BY <2>1 DEF NiInit, NiTypeOK, ThreadState
  <1>2. \A r \in NiRequests : niThread[r].took = NoNi /\ niThread[r].pc = "none"
    BY DEF NiInit
  <1>3. ASSUME NEW r \in NiRequests
        PROVE  HeldOnce(r) /\ NotFreedWhileHeld(r)
    <2>1. r # NoNi
      BY DEF NiRequests
    <2>2. ~InSession(r) /\ ~InThread(r) /\ ~InMessage(r)
      BY <1>2, <2>1 DEF NiInit, InSession, InThread, InMessage
    <2> QED BY <2>2 DEF NiInit, HeldOnce, NotFreedWhileHeld, InSession, InThread, InMessage
  <1> QED BY <1>1, <1>2, <1>3 DEF NiInv, PayloadInv, ThreadsOK

LEMMA NiStep ==
  ASSUME NiInv, [NiNext]_niVars
  PROVE  NiInv'
  <1>1. CASE UNCHANGED niVars
    <2>1. NiTypeOK' /\ PayloadInv'
      BY <1>1, PayloadStays DEF niVars, NiInv, NiTypeOK
    <2> QED BY <2>1 DEF NiInv
  <1>2. CASE NiNext
    BY <1>2, NotifyStep, UserResponds, ThreadTakes, ThreadExits, EngineInformed DEF NiNext
  <1> QED BY <1>1, <1>2

LEMMA NiInvariant == NiSpec => []NiInv
  BY NiStart, NiStep, PTL DEF NiSpec

(* The network-initiated sessions are well typed.                          *)
THEOREM NiTypeCorrect == NiSpec => []NiTypeOK
  BY NiInvariant, PTL DEF NiInv

(* The payload of a network-initiated request is freed once at most, and   *)
(* never while a session, a thread of niThreadProc or a message for the    *)
(* engine holds it: for any number of requests, of both sessions at once,  *)
(* and for every order of the user's responses and the timeouts.           *)
THEOREM PayloadsFreedOnce == NiSpec => []NiPayloadFreedOnce
  BY NiInvariant, PayloadSuffices, PTL DEF NiInv

-----------------------------------------------------------------------------
(* The three components together: a step of one leaves the others' state   *)
(* alone.                                                                  *)
TimedInv == TimerInv /\ NiInv /\ OdcpiInv

LEMMA TimedStep ==
  ASSUME TimedInv, [TimerActs \/ NiActs \/ OdcpiActs]_timedVars
  PROVE  TimedInv'
  <1>1. [TimerNext]_timerVars /\ [NiNext]_niVars /\ [OdcpiNext]_odcpiVars
    BY DEF TimerActs, NiActs, OdcpiActs, timedVars
  <1>2. TimerInv'
    BY <1>1, TimerTypeStep, DelegateStep, SoonestStep DEF TimedInv, TimerInv
  <1>3. NiInv'
    BY <1>1, NiStep DEF TimedInv
  <1>4. OdcpiInv'
    BY <1>1, OdcpiStep DEF TimedInv
  <1> QED BY <1>2, <1>3, <1>4 DEF TimedInv

LEMMA TimedInvariant == TimedInterleaved => []TimedInv
  <1>1. TimedStart => TimedInv
    BY TimerStart, NiStart, OdcpiStart DEF TimedStart, TimedInv
  <1>2. TimedInv /\ [TimerActs \/ NiActs \/ OdcpiActs]_timedVars => TimedInv'
    BY TimedStep
  <1> QED BY <1>1, <1>2, PTL DEF TimedInterleaved

(* The behaviours TLC explores, in which one component acts and the others *)
(* stay as they began, are among the interleavings: what is proved of the  *)
(* interleavings holds of them too.                                        *)
THEOREM TimedIsInterleaved == TimedSpec => TimedInterleaved
  <1>1. TimedInit => TimedStart
    BY DEF TimedInit
  <1>2. [TimedNext]_<<timedVars, active>> => [TimerActs \/ NiActs \/ OdcpiActs]_timedVars
    BY DEF TimedNext
  <1> QED BY <1>1, <1>2, PTL DEF TimedSpec, TimedInterleaved

(* The timer service, the network-initiated sessions and the position      *)
(* injection stay well typed when all three run, their steps interleaved   *)
(* in any order.                                                           *)
THEOREM TimedTypeCorrect == TimedInterleaved => []TimedTypeOK
  <1>1. TimedInv => TimedTypeOK
    BY DEF TimedInv, TimerInv, NiInv, OdcpiInv, TimedTypeOK
  <1> QED BY <1>1, TimedInvariant, PTL

(* What LocTimer, the network-initiated sessions and ODCPI promise by      *)
(* themselves they keep when their steps interleave in any order: the      *)
(* timerfd is armed for the soonest timer, no deleted delegate is used, a  *)
(* payload is freed once, and the flag of OdcpiTimer is backed by a timer  *)
(* or an expiry.                                                           *)
THEOREM TimedIsSafe ==
  TimedInterleaved => [](SoonestIsArmed /\ NoDeletedDelegate /\ NiPayloadFreedOnce /\ OdcpiTimerBacked)
  <1>1. TimerInv => SoonestIsArmed /\ NoDeletedDelegate
    BY DEF TimerInv, DelegateInv
  <1>2. NiInv => NiPayloadFreedOnce
    BY PayloadSuffices DEF NiInv
  <1>3. OdcpiInv => OdcpiTimerBacked
    BY DEF OdcpiInv
  <1>4. TimedInv => SoonestIsArmed /\ NoDeletedDelegate /\ NiPayloadFreedOnce /\ OdcpiTimerBacked
    BY <1>1, <1>2, <1>3 DEF TimedInv
  <1> QED BY <1>4, TimedInvariant, PTL
=============================================================================
