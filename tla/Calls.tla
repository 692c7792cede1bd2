-------------------------------- MODULE Calls --------------------------------
(***************************************************************************)
(* The proxy of the calls API (internal/delivery/grpc/calls_proxy.go) and   *)
(* the interceptors in front of it: outgoing calls are started on the       *)
(* WhatsApp or Telegram backend, and the proxy keeps a map from the id of a *)
(* call to its backend, which events and hang-ups need.                     *)
(***************************************************************************)
EXTENDS Naturals, FiniteSets

CONSTANTS
    CallIds,        \* the ids the backends hand out
    CallClients,    \* the client's requests
    MaxCallCrashes  \* restarts of the proxy in a run

ASSUME CallsAssumption == CallIds # {} /\ MaxCallCrashes \in Nat

VARIABLES
    phase,      \* the calls on the backend: "none", "running", "ended"
    calls,      \* the map of the proxy, as the set of its ids
    callModel,  \* the user's active model, demo mark and backend, as checked
    ask,        \* the requests that run
    answered,   \* ids returned to a client since the proxy started
    callCrashes \* restarts so far
callVars == <<phase, calls, callModel, ask, answered, callCrashes>>

(* What the checks tell apart: a model without realtime, one of its own      *)
(* voice without a greeting, one with it, and one whose voice is ElevenLabs'. *)
CallModels == {"none", "text", "silent", "greets", "elevenlabs"}
NoAsk == [op |-> "idle", id |-> CHOOSE c \in CallIds : TRUE, at |-> "-"]

CallInit ==
    /\ phase = [c \in CallIds |-> "none"]
    /\ calls = {}
    /\ callModel = [active |-> "greets", demo |-> FALSE]
    /\ ask = [r \in CallClients |-> NoAsk]
    /\ answered = {}
    /\ callCrashes = 0

(* A request of the calls service carries an access token that verifies.     *)
authenticateBearer(token) == token = "valid"

validateActiveCallModel == callModel.active \in {"greets", "elevenlabs"}
validateDemoUser == ~callModel.demo

Request_(r, op, c, at) == ask' = [ask EXCEPT ![r] = [op |-> op, id |-> c, at |-> at]]
Answer(r) == ask' = [ask EXCEPT ![r] = NoAsk]

(* The checks pass and the backend is asked to start the call, which it gives *)
(* an id of its own.                                                          *)
StartOutgoingCall(r, c, token) ==
    /\ ask[r].op = "idle"
    /\ authenticateBearer(token)
    /\ validateActiveCallModel
    /\ validateDemoUser
    /\ phase[c] = "none"
    /\ phase' = [phase EXCEPT ![c] = "running"]
    /\ Request_(r, "start", c, "backend")
    /\ UNCHANGED <<calls, callModel, answered, callCrashes>>

(* The answer of the backend arrives and the proxy remembers the call ...     *)
StoreCall(r) ==
    /\ ask[r].op = "start"
    /\ calls' = calls \cup {ask[r].id}
    /\ answered' = answered \cup {ask[r].id}
    /\ Answer(r)
    /\ UNCHANGED <<phase, callModel, callCrashes>>

(* ... or is lost with the client's context or the connection.                *)
StartFails(r) ==
    /\ ask[r].op = "start"
    /\ Answer(r)
    /\ UNCHANGED <<phase, calls, callModel, answered, callCrashes>>

(* The call is looked up and the backend is asked for its events.             *)
SubscribeCallEvents(r, c, token) ==
    /\ ask[r].op = "idle"
    /\ authenticateBearer(token)
    /\ c \in calls
    /\ Request_(r, "events", c, "open")
    /\ UNCHANGED <<phase, calls, callModel, answered, callCrashes>>

(* The backend does not know the call any more: a normal end, the entry goes. *)
SubscribeStale(r) ==
    /\ ask[r].op = "events"
    /\ ask[r].at = "open"
    /\ phase[ask[r].id] = "ended"
    /\ calls' = calls \ {ask[r].id}
    /\ Answer(r)
    /\ UNCHANGED <<phase, callModel, answered, callCrashes>>
SubscribeOpens(r) ==
    /\ ask[r].op = "events"
    /\ ask[r].at = "open"
    /\ Request_(r, "events", ask[r].id, "recv")
    /\ UNCHANGED <<phase, calls, callModel, answered, callCrashes>>

(* Opening, receiving or sending fails: the error is returned, the entry kept. *)
EventsFailForgets(r) ==
    /\ ask[r].op = "events"
    /\ calls' = calls \ {ask[r].id}
    /\ Answer(r)
    /\ UNCHANGED <<phase, callModel, answered, callCrashes>>
EventsFail(r) ==
    /\ ask[r].op = "events"
    /\ Answer(r)
    /\ UNCHANGED <<phase, calls, callModel, answered, callCrashes>>

(* The event that the call has ended is passed on: the entry goes.            *)
EventEnded(r) ==
    /\ ask[r].op = "events"
    /\ ask[r].at = "recv"
    /\ phase[ask[r].id] = "ended"
    /\ calls' = calls \ {ask[r].id}
    /\ Answer(r)
    /\ UNCHANGED <<phase, callModel, answered, callCrashes>>

(* The backend hangs up; the entry stays for the subscribers.                 *)
HangupCall(c, token) ==
    /\ authenticateBearer(token)
    /\ c \in calls
    /\ phase' = [phase EXCEPT ![c] = "ended"]
    /\ UNCHANGED <<calls, callModel, ask, answered, callCrashes>>

(* The other end hangs up.                                                    *)
CallEnds(c) ==
    /\ phase[c] = "running"
    /\ phase' = [phase EXCEPT ![c] = "ended"]
    /\ UNCHANGED <<calls, callModel, ask, answered, callCrashes>>

(* The user changes the model or buys a tariff while requests run.            *)
ModelChanges ==
    /\ callModel' \in [active : CallModels, demo : BOOLEAN]
    /\ UNCHANGED <<phase, calls, ask, answered, callCrashes>>

(* The process stops and starts again; the map is in memory only.             *)
ProxyRestarts ==
    /\ callCrashes < MaxCallCrashes
    /\ callCrashes' = callCrashes + 1
    /\ calls' = {}
    /\ answered' = {}
    /\ ask' = [r \in CallClients |-> NoAsk]
    /\ UNCHANGED <<phase, callModel>>

Tokens == {"valid", "expired"}
CallNext ==
    \/ \E r \in CallClients, c \in CallIds, t \in Tokens :
           StartOutgoingCall(r, c, t) \/ SubscribeCallEvents(r, c, t)
    \/ \E r \in CallClients :
           \/ StoreCall(r) \/ StartFails(r) \/ SubscribeStale(r) \/ SubscribeOpens(r)
           \/ EventsFail(r) \/ EventEnded(r)
    \/ \E c \in CallIds, t \in Tokens : HangupCall(c, t)
    \/ \E c \in CallIds : CallEnds(c)
    \/ ModelChanges
    \/ ProxyRestarts

CallSpec == CallInit /\ [][CallNext]_callVars

CallTypeOK ==
    /\ phase \in [CallIds -> {"none", "running", "ended"}]
    /\ calls \subseteq CallIds
    /\ callModel \in [active : CallModels, demo : BOOLEAN]
    /\ ask \in [CallClients -> [op : {"idle", "start", "events"}, id : CallIds,
                                at : {"-", "backend", "open", "recv"}]]
    /\ answered \subseteq CallIds
    /\ callCrashes \in 0..MaxCallCrashes

(* A running call whose id a client was given can be followed and hung up for *)
(* as long as the proxy runs, whatever became of earlier subscriptions to it  *)
(* (calls.Store and the two calls.Delete).                                    *)
CallReachable == \A c \in answered : phase[c] = "running" => c \in calls
=============================================================================
