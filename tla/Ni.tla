--------------------------------- MODULE Ni ---------------------------------
(***************************************************************************)
(* Network-initiated sessions of the GNSS adapter (GnssAdapter.cpp).       *)
(*                                                                         *)
(* A request of the network is saved in one of two sessions, SUPL or       *)
(* emergency SUPL; a thread spawned for it waits for the user's response   *)
(* or a timeout, under the session's lock, and posts the response for the  *)
(* engine.  The adapter's thread takes requests and user responses; it     *)
(* chooses the session of a response without the lock, so the choice and   *)
(* each locked section are separate steps.  The thread clears reqID after  *)
(* it has released the lock, which is a step of its own too.               *)
(*                                                                         *)
(* A request that finds its session in progress is freed at once and       *)
(* changes nothing; a response for an unknown id changes nothing.          *)
(***************************************************************************)
EXTENDS Naturals

CONSTANTS
  MaxNi,      \* bound: requests accepted, the values of reqIDCounter
  NoNi        \* no request, no response being handled

NiSessions == {"session", "sessionEs"}
NiRequests == 1..MaxNi
UserResponses == {"ACCEPT", "DENY"}
GnssNiResponse == UserResponses \cup {"NO_RESPONSE", "IGNORE"}

ASSUME NiAssumption == MaxNi \in Nat /\ NoNi \notin Nat

VARIABLES
  rawRequest,   \* NiSession.rawRequest, by session: the payload's request
  reqID,        \* NiSession.reqID
  respRecvd,    \* NiSession.respRecvd
  resp,         \* NiSession.resp
  reqIDCounter, \* NiData.reqIDCounter
  niThread,     \* the thread of each request, with what it took from the session
  niHandling,   \* the user's response the adapter's thread is handling
  niOutbox,     \* MsgGnssNiResponse messages for the engine
  niAnswered,   \* responses the engine was given, by request
  niFreed,      \* how often the payload of each request was freed
  userSaid      \* what the user answered to each request

niVars == <<rawRequest, reqID, respRecvd, resp, reqIDCounter, niThread, niHandling, niOutbox,
            niAnswered, niFreed, userSaid>>

ThreadState == [pc : {"none", "wait", "exit", "done"}, session : NiSessions,
                took : NiRequests \cup {NoNi}, resp : GnssNiResponse]
Handling == [id : NiRequests, response : UserResponses, session : NiSessions, ignoring : BOOLEAN]

(* Every variable of the NI sessions has its type.                         *)
NiTypeOK ==
  /\ rawRequest \in [NiSessions -> NiRequests \cup {NoNi}]
  /\ reqID \in [NiSessions -> 0..MaxNi]
  /\ respRecvd \in [NiSessions -> BOOLEAN]
  /\ resp \in [NiSessions -> GnssNiResponse]
  /\ reqIDCounter \in 0..MaxNi
  /\ niThread \in [NiRequests -> ThreadState]
  /\ niHandling \in Handling \cup {NoNi}
  /\ niOutbox \subseteq [request : NiRequests, response : GnssNiResponse]
  /\ niAnswered \in [NiRequests -> SUBSET GnssNiResponse]
  /\ niFreed \in [NiRequests -> Nat]
  /\ userSaid \in [NiRequests -> SUBSET UserResponses]

NiInit ==
  /\ rawRequest = [s \in NiSessions |-> NoNi]
  /\ reqID = [s \in NiSessions |-> 0]
  /\ respRecvd = [s \in NiSessions |-> FALSE]
  /\ resp = [s \in NiSessions |-> "NO_RESPONSE"]
  /\ reqIDCounter = 0
  /\ niThread = [r \in NiRequests |-> [pc |-> "none", session |-> "session", took |-> NoNi,
                                       resp |-> "NO_RESPONSE"]]
  /\ niHandling = NoNi
  /\ niOutbox = {}
  /\ niAnswered = [r \in NiRequests |-> {}]
  /\ niFreed = [r \in NiRequests |-> 0]
  /\ userSaid = [r \in NiRequests |-> {}]

-----------------------------------------------------------------------------
(* requestNiNotify, on the adapter's thread, with a client that has a NI   *)
(* callback.  An emergency request waits for no other; an ordinary one     *)
(* needs both sessions free.                                               *)
requestNiNotify(s) ==
  LET r == reqIDCounter + 1 IN
  /\ niHandling = NoNi
  /\ reqIDCounter < MaxNi
  /\ rawRequest["sessionEs"] = NoNi
  /\ s = "session" => rawRequest["session"] = NoNi
  /\ rawRequest' = [rawRequest EXCEPT ![s] = r]
  /\ reqIDCounter' = r
  /\ reqID' = [reqID EXCEPT ![s] = r]
  /\ niThread' = [niThread EXCEPT ![r].pc = "wait", ![r].session = s]
  /\ UNCHANGED <<respRecvd, resp, niHandling, niOutbox, niAnswered, niFreed, userSaid>>

(* The user's response: the session is the one whose reqID matches and     *)
(* that holds a request, the emergency session first.  Accepting an        *)
(* emergency session first ignores an ordinary one in progress.            *)
ResponseFor(s, id) == reqID[s] = id /\ rawRequest[s] # NoNi

gnssNiResponseCommand(id, response) ==
  LET s == IF ResponseFor("sessionEs", id) THEN "sessionEs" ELSE "session" IN
  /\ niHandling = NoNi
  /\ ResponseFor(s, id)
  /\ niHandling' = [id |-> id, response |-> response, session |-> s,
                    ignoring |-> /\ s = "sessionEs" /\ response = "ACCEPT"
                                 /\ rawRequest["session"] # NoNi]
  /\ userSaid' = [userSaid EXCEPT ![id] = @ \cup {response}]
  /\ UNCHANGED <<rawRequest, reqID, respRecvd, resp, reqIDCounter, niThread, niOutbox,
                 niAnswered, niFreed>>

Respond(s, response) ==
  /\ resp' = [resp EXCEPT ![s] = response]
  /\ respRecvd' = [respRecvd EXCEPT ![s] = TRUE]
  /\ UNCHANGED <<rawRequest, reqID, reqIDCounter, niThread, niOutbox, niAnswered, niFreed, userSaid>>

IgnoreSession ==
  /\ niHandling # NoNi /\ niHandling.ignoring
  /\ niHandling' = [niHandling EXCEPT !.ignoring = FALSE]
  /\ Respond("session", "IGNORE")

SignalSession ==
  /\ niHandling # NoNi /\ ~niHandling.ignoring
  /\ niHandling' = NoNi
  /\ Respond(niHandling.session, niHandling.response)

-----------------------------------------------------------------------------
(* niThreadProc.  The locked section: the response received, or none       *)
(* after a timeout, which may happen at any time; the payload is taken for *)
(* the engine, or freed when the session is ignored.                       *)
Taken(r, response) ==
  LET s == niThread[r].session IN
  IF rawRequest[s] # NoNi /\ response # "IGNORE" THEN rawRequest[s] ELSE NoNi

\* Mutant: the thread waits for the user with no timeout.
NiThreadPatient(r) ==
  LET s == niThread[r].session IN
  /\ niThread[r].pc = "wait"
  /\ respRecvd[s]
  /\ respRecvd' = [respRecvd EXCEPT ![s] = FALSE]
  /\ niThread' = [niThread EXCEPT ![r].pc = "exit", ![r].took = Taken(r, resp[s]), ![r].resp = resp[s]]
  /\ rawRequest' = [rawRequest EXCEPT ![s] = NoNi]
  /\ UNCHANGED <<resp, niFreed, reqID, reqIDCounter, niHandling, niOutbox, niAnswered, userSaid>>

\* Mutant: the thread leaves the payload in the session.
NiThreadKeeps(r) ==
  LET s == niThread[r].session IN
  /\ niThread[r].pc = "wait"
  /\ respRecvd' = [respRecvd EXCEPT ![s] = FALSE]
  /\ niThread' = [niThread EXCEPT ![r].pc = "exit", ![r].took = Taken(r, resp[s]), ![r].resp = resp[s]]
  /\ UNCHANGED <<rawRequest, resp, niFreed, reqID, reqIDCounter, niHandling, niOutbox, niAnswered,
                 userSaid>>

niThreadProc(r) ==
  LET s == niThread[r].session
      answer == IF respRecvd[s] THEN resp[s] ELSE "NO_RESPONSE"
  IN
  /\ niThread[r].pc = "wait"
  /\ resp' = [resp EXCEPT ![s] = answer]
  /\ respRecvd' = [respRecvd EXCEPT ![s] = FALSE]
  /\ niThread' = [niThread EXCEPT ![r].pc = "exit", ![r].took = Taken(r, answer), ![r].resp = answer]
  /\ niFreed' = IF rawRequest[s] # NoNi /\ answer = "IGNORE"
                THEN [niFreed EXCEPT ![rawRequest[s]] = @ + 1]
                ELSE niFreed
  /\ rawRequest' = [rawRequest EXCEPT ![s] = NoNi]
  /\ UNCHANGED <<reqID, reqIDCounter, niHandling, niOutbox, niAnswered, userSaid>>

(* After the unlock: reqID is cleared and the response is posted.          *)
NiThreadExits(r) ==
  /\ niThread[r].pc = "exit"
  /\ niThread' = [niThread EXCEPT ![r].pc = "done", ![r].took = NoNi]
  /\ reqID' = [reqID EXCEPT ![niThread[r].session] = 0]
  /\ niOutbox' = niOutbox \cup
       {[request |-> q, response |-> niThread[r].resp] : q \in {niThread[r].took} \ {NoNi}}
  /\ UNCHANGED <<rawRequest, respRecvd, resp, reqIDCounter, niHandling, niAnswered, niFreed, userSaid>>

(* MsgGnssNiResponse on the adapter's thread: the engine is informed, and  *)
(* the message's destructor frees the payload.                             *)
informNiResponse(m) ==
  /\ niHandling = NoNi
  /\ m \in niOutbox
  /\ niOutbox' = niOutbox \ {m}
  /\ niAnswered' = [niAnswered EXCEPT ![m.request] = @ \cup {m.response}]
  /\ niFreed' = [niFreed EXCEPT ![m.request] = @ + 1]
  /\ UNCHANGED <<rawRequest, reqID, respRecvd, resp, reqIDCounter, niThread, niHandling, userSaid>>

NiNext ==
  \/ \E s \in NiSessions : requestNiNotify(s)
  \/ \E id \in NiRequests, response \in UserResponses : gnssNiResponseCommand(id, response)
  \/ IgnoreSession \/ SignalSession
  \/ \E r \in NiRequests : niThreadProc(r) \/ NiThreadExits(r)
  \/ \E m \in niOutbox : informNiResponse(m)

(* A spawned thread runs and its wait times out; the adapter's thread      *)
(* handles its messages.                                                   *)
NiFairness ==
  /\ \A r \in NiRequests : WF_niVars(niThreadProc(r) \/ NiThreadExits(r))
  /\ WF_niVars(IgnoreSession \/ SignalSession)

NiSpec == NiInit /\ [][NiNext]_niVars /\ NiFairness

-----------------------------------------------------------------------------
(* The payload of a request is freed once, and never while a session, a    *)
(* thread or a message still holds it: requestNiNotify, niThreadProc and   *)
(* the message's destructor hand it on without a copy.                     *)
NiPayloadFreedOnce ==
  /\ \A r \in NiRequests : niFreed[r] <= 1
  /\ \A s \in NiSessions : rawRequest[s] # NoNi => niFreed[rawRequest[s]] = 0
  /\ \A r \in NiRequests : niThread[r].took # NoNi =>
       /\ niFreed[niThread[r].took] = 0
       /\ \A s \in NiSessions : rawRequest[s] # niThread[r].took
  /\ \A m \in niOutbox : niFreed[m.request] = 0

(* Every request that was taken is answered or ignored, and its session    *)
(* is free for another: the thread's timeout sees to it when the user      *)
(* never answers.                                                          *)
NiSessionEnds ==
  \A r \in NiRequests : \A s \in NiSessions : (rawRequest[s] = r) ~> (rawRequest[s] # r)

(* The engine is told of a request what the user said of that request, or  *)
(* that there was no response.  niThreadProc resets respRecvd "for the     *)
(* next session" to that end.                                              *)
NiAnswerIsTheUsers ==
  \A r \in NiRequests : niAnswered[r] \cap UserResponses \subseteq userSaid[r]
=============================================================================
