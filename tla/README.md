# TLA+ models of the OnePlus 3 GNSS HAL

The repository is the LineageOS device tree of the OnePlus 3. Most of it is
configuration, overlays and policy; the program it carries is the GNSS hardware
abstraction layer under `gps/` (about 33 000 of its 65 000 lines of text). This
directory holds TLA+ models of that program, TLC runs that check them on small
instances, and TLAPS proofs for all instances. The repository has no tests, and
its only document is a product page, so the promises the properties state come
from the code's own comments and from how its parts use each other.

## The system

A request enters through a HIDL service (`gps/android`), goes through
`LocationAPI` (`gps/location`) to the `GnssAdapter` (`gps/gnss`), and from there
through `LocApiBase` (`gps/core`) to the modem's proprietary library. Everything
the adapter does is a `LocMsg` handled by one thread (`gps/utils`: `MsgTask`,
`msg_q`, `LocThread`). Modem indications, framework answers and timers come from
other threads and are posted to the same queue.

| Component | State | Operations | Interacts with | What is hard |
|---|---|---|---|---|
| AGPS manager (`gnss/Agps.cpp`) | three state machines, their subscribers with two flags, retry counter | request and release of an ATL, grant, release and denial, retry | adapter queue, framework or `libloc_net_iface`, data-service client, modem | answers without request numbers; shared connection; retry timer; fallback through the queue |
| Message task (`utils/MsgTask.cpp`, `msg_q.c`, `linked_list.c`, `LocThread.cpp`) | queue, condition, runnable, reference count | send, receive, unblock, destroy, join | every adapter, the timers | lost wake-ups, use after free, leaks, join |
| Tracking (`gnss/GnssAdapter.cpp`) | clients, sessions, the engine's fix | add, remove client; start, update, stop session; restart | `LocationAPI`, modem | multiplexing many sessions on one fix, failing engine calls, engine restart |
| ODCPI (`GnssAdapter.cpp`) | request, active flag, timer | request, stop, expire, restart | `LocTimer`, framework | expiry queued behind a stop or a restart |
| NI (`GnssAdapter.cpp`) | two sessions, a waiting thread each | notify, respond, time out | framework, modem | session chosen without its lock, fields cleared after the unlock |
| Power vote, configuration, capabilities | vote, `mGps_conf`, pending configuration, control callbacks | enable, disable, read, update, restart | HIDL services, modem | configuration before the API exists, failing calls, ids that wrap around |
| Reports | satellites of the last fix, ULP proxy | position, SV, NMEA, measurement | engine, ULP library, HIDL callbacks | a library that keeps reports, marks that outlive their fix, masks wider than the shift that reads them |
| NMEA (`loc_nmea.cpp`) | none between calls | sentences of a position or a satellite report | reports | counts, groups of four, masks |
| Timers (`LocTimer.cpp`, `LocHeap.cpp`) | heap, timerfd, poll set, delegates | start, stop, expire | kernel timers, message task | stop against expire, re-arming |
| `LocApiBase`, `LocAdapterBase` | adapters, event masks, engine state | add, remove adapter, engine up and down | modem | one mask over all adapters and clients |
| System status | bounded histories | debug sentences, positions, reset, report | adapter, HIDL debug service | entries discarded as equal that differ in what is shown, uninitialised defaults |
| OS observer, XTRA observer, local IPC | subscriptions, cache, the daemon's view | subscribe, notify, request, send | framework agent, XTRA daemon | order of subscribe, connect, notify and restart |
| `LocationAPI`, client base, API clients | requests, session dictionary, session flags | start, stop, update, geofences, batching, respond | adapters | answers matched by order, in a queue found by ids of three counters |
| HIDL services | client pointers | conversion | Android | death of the client |
| Doze, pocket mode, lights, LiveDisplay, touch, thermal, VR, boot, recovery, shims, IFAA | small or none | sensors, sysfs | Android | screen events against sensors |

`PROJECT.json` lists every part with its status, and under `hazards` the places
where the code is hard to test, each at its line with the properties that watch it.

## What is modelled

### `Agps` and `AtlService`: the AGPS manager

`mState`, `mSubscriberList`, `mWaitForCloseComplete` and `mIsInactive` keep their
names and are functions of the machine: SUPL (`mAgnssNif`), WWAN_ANY
(`mInternetNif`) and SUPL_ES (`mDsNif`, created on demand: `dsCreated`). `queue` is
the adapter's queue. `requestATL`, `releaseATL` and `reportEvent` each handle the
message at its head completely; they are split by the machine's state as the
switch statements are (`SubscribeReleased`, `UnsubscribeConnected`,
`ForcedRelease`, ...). `retryCallback` runs on the timer's thread.

The environment is a modem that uses a handle for one request at a time, may ask
to close before it was told anything, and reuses the handle once that is over; and
providers of connections, which take commands in order, refuse, fail to close,
withdraw a request that is released before it was served, and lose connections.
The provider does not exist in the repository; its answers are modelled at the
entry points that report them (`agpsOpenResultCb`, `agpsCloseResultCb`,
`dataConn...Command`, `reportDataCall...`).

The list of subscribers is a set, so the "first active subscriber" is any of them;
APN, bearer and addresses are left out. `handleModemSSR` has no caller in the
repository and is not an action. WWAN_ANY behaves as SUPL does in the code; no run
asks for it.

`AtlService` is what the modem may rely on: handles share links; one that asks is
served or refused, one that is served uses its link until it closes or the link is
lost, whatever the others do, and the loss of a link ends all its uses in one step.
`Agps` implements it with `atl <- modem` and as users of a link the machine's active
subscribers that were told they are open (`Users`, `SharesConnections`).

### `MsgTask` and `FifoTask`: message task, queue and thread

One step is one critical section, or one unprotected access to memory that two
threads share: the read of `mRunnable` in `threadMain`, the read of `mRefCount`
outside the lock, the decrement under it, the delete, the write of `mThread`. The
history variables `handled` and `refused` record what happened to messages.

`FifoTask` is what a sender may rely on: messages are handled at most once and in
order, a closed task accepts nothing and may drop what it has not handled.
`MsgTask` implements it with `pending <- InHand \o list` and `open <- ~unblocked`
(`FifoSpec`).

### `GnssTracking`: tracking sessions

`mTrackingSessions` is the map of the code, a function on the session keys in use.
A command is one step, taken when the message is handled; the removal of a client
makes several engine calls and takes one step for each, so an engine restart can
come between them. Every engine call may fail. `smallestInterval` is the scan that
five functions of the code repeat: the first session, in order of the ids, with
the smallest interval. Session ids are drawn from those not in use
(`generateSessionId` counts up to 2^32 - 2 before it starts again). There is no
ULP library: `UlpProxyBase` declines every call. `restartSessions` also clears
`mOdcpiRequestActive`, which belongs to the ODCPI part.

### `LocTimer`: the timer service

`mTimer`, `mClient`, `mFutureTime` keep their names; `heap` is the set of delegates
in the container and `Tops` the ones its root may be, so every tie is explored.
`armed` and `polled` are the timerfd and its membership in the epoll set. Three
threads act: clients (`start`, `stop`), the polling thread, whose `expire` disarms
and then leaves the poll set and posts, and the message task, which changes the
heap. The handler of an expiry reads a delegate's client in one step and calls it
in another, as no lock is held in between. Wrappers are the timers of the C
interface, started once and deleted by their callback.

### `Ni`: network-initiated sessions

One thread per request, the two sessions, and the adapter's thread. A step is one
locked section; the choice of a session by `reqID`, made without the lock, and the
clearing of `reqID` after the unlock are steps of their own. A time-out may happen
at any time. `niFreed`, `niAnswered` and `userSaid` are history variables. Left out
are a failing `pthread_create`, which would leave a session nobody ends, and a
time-out that overwrites a response stored just before it.

### `Odcpi`: on-demand position injection

The adapter's queue with the modem's requests and stops, engine restarts, the
registration of the callback and the expiries of `OdcpiTimer`. `odcpiTimerActive` is
the flag the adapter reads, `odcpiTimerRuns` the `LocTimer` behind it; a running
timer may expire at any time, which is what `LocTimer` guarantees.

### `EventMask`: adapters and event masks

`mLocAdapters` is the array with its holes; `mEvtMask` what each adapter asks for,
`engineMask` what the engine was opened with. Clients with callbacks are added and
removed, AGPS and ODCPI register, the engine goes down and comes up, each through
messages. `Receivers` says which adapters a report of the engine reaches.

### `GnssControl`: power vote, configuration and capabilities

`Gnss.cpp`, `GnssConfiguration.cpp`, the control client and the adapter together:
the framework's callback and its death, values set before and after the API exists,
`gps.conf`, the messages that read, set and update configuration, the vote with its
session id, the GPS lock and the engine's restarts. Any engine call may fail,
up to `MaxFailedCalls`. A configuration value is a number where the code compares
numbers and the engine's enumeration after the setter's conversion.

### `ApiClient`: the client side of the location API

`LocationAPIClientBase` with its request queue and dictionary, the tracking,
batching and geofence clients built on it, and `LocationAPI`'s routing to the
interfaces that could be loaded. The services behind the interfaces are external:
they answer calls in order, with success or failure. One client is modelled, in
one of three roles. A tracking client also answers network-initiated requests
(`gnssNiRespond`): the queue of these responses is reset by each of them and so holds one
request (`niSession`, `niRequest`), and the gnss service handles them in order with its
other calls (`niCalls`). Their ids come from a counter of the adapter's, here any of
`NiIds`. An answer is matched by `getRequestBySession`, which looks at the tracking queue
first; `mismatch` records that an answer completed another request than its own, and
`collided` that an NI response under way had the id of a session in use.

### `Reports` and `Nmea`

`Reports` follows a report from the engine's thread through the ULP proxy and the
adapter's message to the HIDL callback, with the flags each conversion reads and
writes (`LocationFlags`, `MeasurementFlags`, `ClockFlags`, ...). Values are left out:
a report is its kind, its flags and its satellites. Whether a satellite is marked as
used is the code's test of a 64-bit mask with `1 << (gnssSvId - 1)` (`IntShift`): id 32
extends the sign, and for larger ids, where the shift is undefined, both what the
processor gives (the distance modulo 32) and what a compiler may (nothing) are explored.
The flag with which a satellite comes is kept (`inFix`). `Nmea` generates sentences as
records of the fields their readers tell apart. The scan that fills the GSV sentences
goes on where the sentence before stopped, so the satellite it lists as the `r`-th of
a constellation is the one of rank `r` in the report (`Ranked`). Where `gmtime` fails there
are no sentences.

### `SystemStatus` and `OsObserver`

`SystemStatus` keeps for each of 13 items the history of the code. An entry is what
`equals` compares (`key`), what it leaves out (`rest`: the speed, bearing and accuracies of
a location) and its validity; the contents of a sentence are a level, 0
for all zero. A parser that returns early yields any contents, because the caller
reads a local variable nobody initialized. `OsObserver` has the subscriptions both
ways, the two caches, the messages of the observer and of XTRA's, and a daemon
that starts, stops and asks. Three data items stand for the 22 of the code.

## What the runs check

| Run | Bounds | Shows |
|---|---|---|
| `agps_base` | 3 handles, SUPL and SUPL_ES on one machine, 2 messages from the modem, 2 commands in flight | `ConnMatchesDemand`, `ReleasedIsIdle`, `FrameworkPendingHasRequest`, `OpenIsBacked`, `NoStaleSubscriber`, the refinement `SharesConnections` and, under fairness, `OpenAnswered` |
| `agps_ds` | 2 handles, emergency PDN, 4 retries as in the code, 1 message, 1 command, 1 timer | `TypeOK` (the retry counter), `OpenNotForgotten`; `ConnMatchesDemand` is proved for both kinds of machine |
| `msgtask` | 3 messages; joinable, detached and failed thread | `DelegateOutlivesUsers`, `RefCountExact`, `DelegateFreed`, `NoLostWakeup`, `FifoSpec` and, under fairness, `DestroyCompletes`, `MessageLeaves` |
| `tracking` | 2 clients, 3 sessions, 3 intervals, 2 restarts waiting | `FixIsSmallest`, `AcceptedIsTracked` and, under fairness, `TrackingResumes` |
| `timed` | timers: 2 clients (one of the C interface), 2 delegates, 2 ticks; NI: 2 requests; ODCPI: 3 messages waiting | `SoonestIsArmed`, `NoDeletedDelegate`, `NiPayloadFreedOnce`, `OdcpiTimerBacked`, `TimedTypeOK` and, under fairness, `RunningTimerEnds`, `NiSessionEnds`, `OdcpiRequestReachesFramework` |
| `clients` | 3 adapters, 2 clients; 4 values the framework sets, 1 failing call, ids that wrap at 3; 2 geofences, 2 sessions, 3 requests, NI id 2; 3 reports, Galileo ids 4 and 36; histories of 2 entries, 3 events; 2 network types, 3 events; up to 5 satellites | `EngineMaskExact`, `AdaptersReached`, `EngineFollowsFramework`, `VoteFollowsClient`, `AnswersMatchRequests`, `LiveCanBeEnded`, `DeliveredOnce`, `SvMarksAreFresh`, `DebugReportIsCurrent`, `SubscribersCurrent`, `ConnectionsCurrent`, `SentencesAgree`, `ClientsTypeOK` |

`MCTimed` and `MCClients` put modules that share no variable into one run each. In the
specifications TLC checks, `TimedSpec` and `ClientsSpec`, a variable `active` names the one
component that acts, the others keep their initial state, and fairness is asked of the
one that acts: since no component reads another's state, interleaving them in TLC would
multiply their states and show nothing of one that its own steps do not. The theorems
are about `TimedInterleaved` and `ClientsInterleaved`, in which all components act in any
order. `clients` has 1.6 million states, `timed` 35 thousand.

Three handles let one subscriber leave, one wait for the close and one join while
a release is under way, with two commands in flight so that an old answer meets a
new request. The bounds on the queue hold the modem back and never the providers
or the handlers. Three sessions over three intervals give ties, a next smallest
and a session that changes rank. The bounds `MaxQueue`, `MaxOutstanding`,
`MaxTimers` and `MaxRestarts` appear in guards only.

Two delegates are a timer that is stopped and one that takes its place in the heap
while an expiry is on its way. Two requests are enough for the threads of an old and
a new NI session, or of an ordinary and an emergency one, to overlap. Two messages
let a registration, a removal and a restart be in flight together; three reports
are a position, another and the satellite report they mark; with histories of two,
three events push an entry out. Five satellites need a second GSV sentence. The
bounds (`MaxTime`, `MaxNi`, `MaxOdcpiMsgs`, `MaxMaskMsgs`, `MaxControlMsgs`,
`MaxFailedCalls`, `MaxApiSessions`, `MaxApiCalls`, `MaxRequests`, `MaxReports`,
`MaxReportMsgs`, `MaxStatusEvents`, `MaxOsEvents`) appear in guards only. `IdWrap`
and `maxItem` are smaller than the code's 2^32 - 1 and 5, so that wrapping and
overflow happen.

`agps_ds`, the `MsgTask` runs, `timed` and `clients` do not check for deadlock: the
components may be idle, and the bounds stop them. A destroyed task stops. In
`agps_ds` a data-service handle that waits for its close can be answered with a
fallback request instead (`hazards`, `Agps.cpp:280`), after which nobody acts.

Six runs show where the code departs from what its comments say. Their traces are
described under `findings`.

| Run | Comment | What the code does |
|---|---|---|
| `agps_ds_pending` | `Agps.cpp:93` "Already requested for data connection" | PENDING is entered although the request failed |
| `agps_orphan` | `Agps.cpp:140` "If no subscribers in list, release data connection" | answers of an earlier use leave a connection up for nobody |
| `msgtask_destroy` | `MsgTask.h:50` "this obj will be deleted once thread is deleted" | the thread deletes the task inside `destroy()` |
| `msgtask_leak` | `LocThread.h:75` "The obj will be deleted by LocThread" | a thread stopped before it starts leaks it |
| `ni_stale_response` | `GnssAdapter.cpp:2379` "Reset the user response flag for the next session" | a response that meets its request's time-out answers the next request |
| `tracking_ties` | `GnssAdapter.cpp:1505` "which should be the active one" | the fix keeps the mode of a stopped session |

### Fairness

- `Agps`: the message thread runs while there is a message, an expired timer calls
  back, and a provider answers what it was asked (weak fairness). The modem and
  the network owe nothing.
- `MsgTask`: the kernel runs the thread while it can run, and an owner inside
  `destroy()` goes on. Nobody has to send or to destroy.
- `GnssTracking`: the adapter's thread finishes a removal (weak fairness) and gets
  to a restart message (strong fairness on `restartSessions`: other messages, each
  of which may be handled first, disable and enable it again, and the queue is a
  FIFO, which `MsgTask` establishes). `TrackingResumes` assumes that the engine
  stays up in the end.
- `LocTimer`: the polling thread and the message task go on while they can (weak
  fairness), and time passes. Clients owe nothing.
- `Ni`: the thread of a request runs, its wait ends by its time-out at the latest,
  and the adapter's thread finishes the response it is handling (weak fairness).
- `Odcpi`: the adapter's thread handles its messages and a running timer expires
  (weak fairness). The modem may repeat its requests for ever or never stop them.

### What the properties except, and why

Some exceptions are written into the properties, each because TLC refutes the
stronger statement; each is listed with its hazard. In four of them the code departs
from a comment:

- `AnswersMatchRequests` holds until an NI response has had the id of a tracking
  session (`collided`). From then on `getRequestBySession` may take the answer to the
  NI response for the answer to a tracking request, although `LocationAPI.h:788` says
  that the session id is used "in the responseCallback to match command with response".
- `SvMarksAreFresh` is exact for ids that the shift of an int has room for (1 to 31);
  of the others it says that a mark comes from a used satellite of the constellation. A
  flag the engine's report carries is passed on. `GnssAdapter.cpp:2228` says that the
  flag is set if the satellite was used "else clear the USED_IN_FIX flag".
- `DebugReportIsCurrent` asks of a location that its position is the last one reported
  and that the rest was reported with it: `equals` compares the position alone, so a
  report with another speed is discarded where `SystemStatus.cpp:1312` says "there is no
  change".
- `SubscribersCurrent` leaves out clients of `updateSubscription`, which takes them off
  the items they keep: `LocUnorderedSetMap::update` returns those, where its comment
  (line 173) and `SystemStatusOsObserver.cpp:161` promise the ones no longer used.

`AnswersMatchRequests` and `LiveCanBeEnded` leave out batching, where a second stop
leaves a request nobody answers, and clients served by both the gnss and the flp
interface, whose session ids come from two counters. `EngineFollowsFramework`
leaves out the assistance server, whose pending host name is never stored.
`SubscribersCurrent` also leaves out the XTRA throttle, which the answer to
the daemon omits; what the agent was asked to subscribe and what it was asked to send
once are one set in `OsObserver`, so an item only requested counts as subscribed.
`ConnectionsCurrent` names the network whose loss is the first report of all. A
timer of `LocTimer` can expire early, after a stopped one.

## What is proved

TLAPS checks the following for every value of the constants that satisfies the
named assumptions of the modules (`HandlesAssumption`, `TimerAssumption`,
`MaskAssumption` and so on: types of the constants, tokens that are not values,
bounds that are numbers; TLC evaluates them in the runs). Of these,
`GpsConfAssumption` says that the items of `gps.conf` are unsigned numbers, as
`loc_read_conf` reads them, `ApiAssumption` that a call names finitely many geofences and
that there is a session id, and `NmeaAssumption` that a satellite report is a finite list and
may be empty. Hypotheses beyond these are part of the theorem's statement and named
here. The theorems on a component are about its own specification; `TimedProofs` and
`ComposedProofs` carry them over to `MCTimed` and `MCClients`.

**`AgpsProofs`**

- `TypeCorrect`, `DemandInvariant`, `ReleasedMachinesAreIdle`. The invariant is
  `TypeOK /\ FlagsMatchList /\ ConnMatchesDemand /\ ReleasedIsIdle`. The flags must be
  known to be subsets of the list: otherwise deleting a subscriber could leave its
  inactive flag behind, and an empty list would not mean that nobody waits.
- `PendingIsAnswerable` (`FrameworkPendingHasRequest`). The invariant `PendingInv` says
  that for a framework machine in PENDING the last command to the provider is a
  request, or the answer to it is in the queue.
- `RequestsAreRemembered` (`OpenNotForgotten`), for both kinds of machine. The
  handle being opened is followed from the queue to a list and back, as the fallback
  of the emergency PDN takes it.
- `NotifiedIsForgotten` (`NoStaleSubscriber`) and `OpenAtlsAreBacked` (`OpenIsBacked`),
  for `UseEmergencyPdn = FALSE`. The invariant `HandleInv` ties each handle's stage in
  the modem to the lists and to the order of its messages in the queue (`QueueOrder`,
  `HandleOK`), and says that the data-service machine is not used (`DsUnused`). With
  the emergency PDN that machine tells subscribers of a failure and keeps them, and
  TLC refutes both (`OpenIsBacked` with two messages and two commands in flight: a
  handle left on the list is reused and taken for inactive), so the two are properties
  of the framework's machines.
- `ConnectionsAreShared` (`SharesConnections`): the manager implements `AtlService`, again
  for `UseEmergencyPdn = FALSE`. Every message handled is one step of the service or
  none. `HandleInv` does not say enough for this: a grant in ACQUIRED must not reach a
  handle that is still opening, and a subscriber that is inactive must be one that
  closes, which is `StageInv`. With the emergency PDN a handle that falls back to SUPL is
  on two lists, and TLC refutes the refinement.

**`MsgTaskProofs`**

- `TypeCorrect`, `DelegateLifetime`, `ReferencesAddUp`, `LastCallerFrees`,
  `ImplementsFifo`. The invariant adds to the exact reference count that at most one
  thread is about to delete (`LastDeletes`), that the delegate is allocated exactly
  while somebody holds a reference or is about to delete it (`DelegateWhileNeeded`),
  that a message is in hand exactly in `proc` (`InHandAtProc`), and that a thread or
  owner on its way out has unblocked the queue (`LeavesUnblocked`), without which the
  flush in the destructor would drop messages of an open task.
- `NoWakeupIsLost` (`NoLostWakeup`), as a part of the same invariant.

**`GnssTrackingProofs`**

- `TypeCorrect`, `MultiplexingCorrect`, `AcceptedSessionsAreTracked`. `FixIsSmallest` and
  `AcceptedIsTracked` are proved together with the type invariant, one lemma per
  command; that a minimum over a finite set exists is not needed, since the
  actions quantify over `smallestInterval`. The last theorem assumes
  `RestartMayFail = FALSE`: `restartSessions` ignores the result of `startFix`
  (`hazards`, `GnssAdapter.cpp:1244`), and with a failure there the property is false.

**`TimedProofs`**

- `TimerTypeCorrect`, `DelegatesOutliveTheirUse` (`NoDeletedDelegate`),
  `SoonestTimerIsArmed`. Why a deleted delegate is never used is the order of its
  messages, so the invariant says that the message that removes a delegate is its
  last one (`RemoveIsLast`) and that what a `LocTimer` holds has no removal on its
  way (`HeldIsKept`). `SoonestTimerIsArmed` follows the polling thread through the
  steps in which the kernel timer lags behind the heap.
- `NiTypeCorrect`, `PayloadsFreedOnce` (`NiPayloadFreedOnce`). A payload is held in one
  place: the session, then its thread, then the message (`HeldOnce`), and what is
  held was not freed (`NotFreedWhileHeld`).
- `OdcpiTypeCorrect` and `TimerFlagBacked` (`OdcpiTimerBacked`), for any bound on the queue.
  The invariant adds `QueueHasRoom`: a running timer counts as the message it will
  post, without which the bound on the queue is not inductive. The lemmas on
  sequences say that posting and handling keep an expiry that waits.
- `TimedTypeCorrect` (`TimedTypeOK`) and `TimedIsSafe`, of `TimedInterleaved`: whatever the order
  in which the three components take their steps, they keep their type invariants and
  `SoonestIsArmed`, `NoDeletedDelegate`, `NiPayloadFreedOnce` and `OdcpiTimerBacked`.
  `TimedIsInterleaved`: `TimedSpec` implies `TimedInterleaved`, so this holds of what TLC
  checks too.

**`ReportProofs`**

- `StatusTypeCorrect`, `DebugIsCurrent` (`DebugReportIsCurrent`). The newest entry of each
  history has the key of what was reported last and contents reported since the
  reset, or is a default if nothing was (`ItemCurrent`); only a location has a `rest`; and
  the bounded history keeps its newest entry when it drops its oldest (`HistoryOK`).
- `ReportTypeCorrect`, `ReportsDeliveredOnce` (`DeliveredOnce`). Reports carry numbers the
  program does not read; a number is in one place only: the ULP library, the
  queue or the framework.
- `SvMarksFresh` (`SvMarksAreFresh`). The marks are those of the last position that
  was delivered with used satellites, and no satellite report was since (`MarksInv`). Below
  32 the shift has the satellite's bit alone; from 32 on it has some bits of 1 to 64 or
  none, whatever the undefined shift gives, which is all the second half needs.
- `NmeaTypeCorrect`, `SentencesAreConsistent` (`SentencesAgree`), for reports of any length.
  Counting along the list would take induction over it; the proof counts sets
  instead. Ranks number the satellites of a constellation from 1 to their count
  without a gap, rank `r` stands in sentence `(r - 1) \div 4 + 1`, and this gives a
  bijection between the satellites and the places of the sentences. The sentences of
  the five constellations follow each other in five intervals (`FiveIntervals`),
  and the pairs GSA lists are, one constellation after the other, the bits of the masks
  GGA adds up.

**`ControlProofs`**

- `MaskTypeCorrect`, `AdaptersAreReached` (`AdaptersReached`), `EngineAskedExactly`
  (`EngineMaskExact`). The array is filled without holes and without repetition, so
  that the scan that stops at the first hole misses nobody; the adapter's mask is
  what its clients, AGPS, ODCPI and NMEA ask for; the engine was opened with the union of
  the masks unless a message that reopens it waits.
- `VotesAreReleased` (`VoteFollowsClient`). The invariant reads the queue as a program
  (`Replays`): handling its messages in order takes the adapter's vote to that of the
  client's session or to none. An enable counts only if there is no vote and a
  disable only with the vote's id (`Effect`), so this has to be known of every
  suffix of the queue, and of ids that come round again.
- `EngineFollows` (`EngineFollowsFramework`). The reading of `gps.conf` is the first message
  and is followed by the message that sends the configuration and by the request of
  the capabilities (`QueueInv`); an item is settled when the last update of it that
  waits carries the number the framework wants, or none waits and `mGps_conf` has it
  (`WantedInv`); what the engine has is what was sent last (`ResentInv`); the lock and
  the capabilities likewise (`LockInv`, `CapInv`). Two hypotheses: `NoLockInGpsConf`, as
  the repository's file has the lock commented out (`gps.conf:56`) and the message
  that sends the configuration does not send a lock; and `KnownProtocols`, the GLONASS
  masks set are made of the bits the engine has, since the conversion drops others.
  To reason about the conversions, masks are sets of bits with weights (`HasBit`,
  `FromMask`, `ToMask`) rather than a recursion over numbers.
- `ControlTypeCorrect`. The messages are those of the code by `QueueInv`, the vote by
  `VoteInv`; `ConfInv` adds that `mGps_conf` holds unsigned numbers, the ones of `gps.conf` or
  ones the conversions make, and that an update never stores the server.

**`ClientProofs`**

- `OsTypeCorrect`, `SubscribersAreCurrent`, `ConnectionsAreCurrent`. For each subscriber the
  last message on its way leads to the newest value, or it has it (`Leads`),
  separately for subscribers (`SubInv`), XTRA's observer (`XtraInv`), the daemon
  (`DaemonInv`) and the table of networks (`NetworkInv`).
- `AnswersReachRequests` (`AnswersMatchRequests`), `SessionsCanBeEnded` (`LiveCanBeEnded`). The
  requests a service has not answered are, in order, those in the client's queue:
  for tracking (`TrackInv`), and for geofences together with the dictionary that
  changes on both sides (`FenceInv`, `DictInv`). `EndsInv` follows what runs in a service
  to the entry by which the client can end it. Both are about the same clients
  as the properties: not batching, and served by one interface. As long as no ids were
  shared, an answer to an NI response takes no tracking request and the other way
  round, so the two queues are independent.
- `ApiTypeCorrect`, for every role and all interfaces. That the dictionary holds
  sessions a service handed out needs that a waiting start or add names such
  sessions (`TypedCalls`) and, for the removal of geofences, the invariants of the
  answers.

**`ComposedProofs`**

- `ClientsImplementComponents`: a behaviour of `ClientsInterleaved`, in which the seven
  components take their steps in any order, is one of each of them, as a step of one
  leaves the variables of the others alone (`StepOfEach`). `ClientsAreInterleaved`:
  `ClientsSpec` implies `ClientsInterleaved`.
- `ClientsTypeCorrect` (`ClientsTypeOK`), `ClientsAreSafe` (the safety invariants of the run
  `clients`) and `ClientsFollowFramework` (`EngineFollowsFramework`, with the hypotheses of
  `EngineFollows`), all of `ClientsInterleaved`, follow from it and from the theorems on the
  components.

The inductive invariants were first checked by TLC on the runs' instances.

### Only model-checked

- Liveness: `OpenAnswered`, `DestroyCompletes`, `MessageLeaves`, `TrackingResumes`,
  `RunningTimerEnds`, `NiSessionEnds`, `OdcpiRequestReachesFramework`. Liveness under
  fairness, and `ENABLED`, are out of the prover's reach.
- `NoStaleSubscriber`, `OpenIsBacked` and `SharesConnections` with the emergency PDN, and
  `AcceptedIsTracked` with a restart that fails: TLC refutes them there, and no theorem
  or run claims them.
- The violations: TLC's traces are their evidence.

## Plan

The models of the GNSS HAL are in place, and every safety invariant and refinement a
passing run checks is proved. What is left, in this order:

1. Composition: `ApiClient`'s tracking role with `GnssTracking` in place of the external
   service, and `Odcpi` on `LocTimer`.
2. Doze, pocket mode and lights.

## Not modelled

- Conversions whose results no property tells apart (coordinates, times, text of
  sentences and log lines), `loc_gps.h` and `gps_extended_c.h` beyond the flags `Reports`
  uses: they are declarations.
- `loc_cfg.cpp`, logging and target detection: parsing and I/O in one thread.
- The tree of `LocHeap`: `LocTimer` uses only its order.
- `turnOn` and `turnOff` of the OS observer and `handleModemSSR` of the AGPS manager, which
  nobody in the repository calls.
- What undefined behaviour would do after a data race on a container
  (`Agps.cpp:564`), a callback into a destroyed client or a deleted ULP proxy.
- PPS, contexts and library loading, sysfs HALs, boot and recovery code, shims, Java
  settings, resources and policy files.
