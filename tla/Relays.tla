------------------------------- MODULE Relays -------------------------------
(***************************************************************************)
(* The handlers of internal/delivery/http that stand between a client and  *)
(* another service: socket relays, event streams and single requests.      *)
(* Relays share no state, so the module follows one of them; Init chooses  *)
(* which handler it is.  What is carried is abstracted; what is kept is    *)
(* who is connected, which goroutine runs and what the handler waits for.  *)
(***************************************************************************)
(* A handler, as the record of what it does between the two sides:         *)
(*   shape   "socket", "stream" or "unary"                                 *)
(*   pumps   the goroutines of a socket: "up" client to target, "down" back *)
(*   waits   the pump whose end the socket handler waits for               *)
(*   greets  it reads and answers the target before it relays              *)
(*   marks   of a request: "timed" if a timer ends the wait for the answer, *)
(*           "follows" if it is made under the client's context, "reader" if *)
(*           a goroutine of its own reads the body, "own" if its transport   *)
(*           is made for it alone and has no timer for idle connections      *)
Socket(pumps, waits, greets) ==
    [shape |-> "socket", pumps |-> pumps, waits |-> waits, greets |-> greets, marks |-> {}]
Request(shape, marks) ==
    [shape |-> shape, pumps |-> IF "reader" \in marks THEN {"down"} ELSE {}, waits |-> "down",
     greets |-> FALSE, marks |-> marks]
Both == {"up", "down"}

(* A call without a timer under the request's context, with a new transport. *)
sendRESP(shape) == Request(shape, {"follows", "own"})

(* The widget proxy: a timer of five seconds over the client's context.     *)
universalProxyWidgetRequest == Request("unary", {"timed", "follows", "reader"})

TgAuthWebSocket == Socket(Both, "down", FALSE)
TgGetContactsWS == Socket(Both, "down", FALSE)
WaAuthWebSocket == Socket(Both, "down", FALSE)
WaGetContactsWS == Socket(Both, "down", FALSE)
proxyWebSocket == Socket(Both, "up", FALSE)
ServiceStartWSS == Socket({"down"}, "down", TRUE)

(* The widget's client waits ten seconds for the head of an event stream.   *)
proxyWidgetEvents == Request("stream", {"timed", "follows"})
payHandlePaymentStatusSSE == sendRESP("stream")

payTariff == sendRESP("unary")
payCurrencies == sendRESP("unary")
payCreateBybitPayment == sendRESP("unary")
payPaymentStatus == sendRESP("unary")
donationCurrencies == sendRESP("unary")
donationAddress == sendRESP("unary")
proxyTgBotRequest == Request("unary", {"timed", "follows"})
SendTelegaNotification == Request("unary", {"timed", "own"})

(* Made under the application's context: a client that leaves stops nothing. *)
proxyServicesRequest == Request("unary", {"timed", "own"})
proxyAmoCRMOAuthCallback == Request("unary", {"timed", "own"})

proxyCRMPublicRequest == Request("unary", {"timed", "own"})
proxyCRMRequest == Request("unary", {"timed", "own"})
proxyAvitoRequest == Request("unary", {})

AllHandlers ==
    {TgAuthWebSocket, TgGetContactsWS, WaAuthWebSocket, WaGetContactsWS, proxyWebSocket,
     ServiceStartWSS, proxyWidgetEvents, payHandlePaymentStatusSSE, payTariff, payCurrencies,
     payCreateBybitPayment, payPaymentStatus, donationCurrencies, donationAddress,
     proxyTgBotRequest, SendTelegaNotification, universalProxyWidgetRequest,
     proxyServicesRequest, proxyAmoCRMOAuthCallback, proxyCRMPublicRequest, proxyCRMRequest,
     proxyAvitoRequest}

VARIABLES
    relay,      \* the handler that runs
    stage,      \* "start", "dial", "greet", "relay", "body", "write", "done"
    peer,       \* the two sides: TRUE while the client / the target is there
    conn,       \* our end towards each: "none", "open", "closed", or "idle" when it is
                \* kept for a next request, with the two goroutines that serve it
    pump        \* the goroutines: "off", "read" or "write"
relayVars == <<relay, stage, peer, conn, pump>>

Sides == {"client", "target"}
Reads(p) == IF p = "up" THEN "client" ELSE "target"
Writes(p) == IF p = "up" THEN "target" ELSE "client"

RelayInit ==
    /\ relay \in AllHandlers
    /\ stage = "start"
    /\ peer = [s \in Sides |-> TRUE]
    /\ conn = [s \in Sides |-> "none"]
    /\ pump = [p \in Both |-> "off"]

Has(mark) == mark \in relay.marks
Started(ps) == [p \in Both |-> IF p \in ps THEN "read" ELSE "off"]
ClosedAll == [s \in Sides |-> IF conn[s] = "open" THEN "closed" ELSE conn[s]]

(* The handler returns; its deferred calls close what it opened.            *)
Return ==
    /\ stage' = "done"
    /\ conn' = ClosedAll

(* The request is checked and, for a socket, upgraded; a bad request, an     *)
(* unknown user or a failed upgrade ends it.                                 *)
Accept ==
    /\ stage = "start"
    /\ \/ /\ stage' = "dial"
          /\ conn' = [conn EXCEPT !["client"] = IF relay.shape = "socket" THEN "open" ELSE "none"]
       \/ Return
    /\ UNCHANGED <<relay, peer, pump>>

(* The target accepts the connection.                                        *)
StartsBoth ==
    /\ stage = "dial"
    /\ relay.shape = "socket"
    /\ peer["target"]
    /\ conn' = [conn EXCEPT !["target"] = "open"]
    /\ stage' = IF relay.greets THEN "greet" ELSE "relay"
    /\ pump' = Started(Both)
    /\ UNCHANGED <<relay, peer>>
DialSocket ==
    /\ stage = "dial"
    /\ relay.shape = "socket"
    /\ peer["target"]
    /\ conn' = [conn EXCEPT !["target"] = "open"]
    /\ IF relay.greets
          THEN stage' = "greet" /\ UNCHANGED pump
          ELSE stage' = "relay" /\ pump' = Started(relay.pumps)
    /\ UNCHANGED <<relay, peer>>

(* The start socket reads the target's request and answers it.               *)
Greeting ==
    /\ stage = "greet"
    /\ peer["target"]
    /\ stage' = "relay"
    /\ pump' = Started(relay.pumps)
    /\ UNCHANGED <<relay, peer, conn>>

(* The request reaches the target, which answers with a status; a stream is  *)
(* copied by the handler itself, a body by it or by its reader.              *)
Headers ==
    /\ stage = "dial"
    /\ relay.shape # "socket"
    /\ peer["target"]
    /\ conn' = [conn EXCEPT !["target"] = "open"]
    /\ stage' = IF relay.shape = "stream" THEN "relay" ELSE "body"
    /\ pump' = Started(relay.pumps)
    /\ UNCHANGED <<relay, peer>>

(* The target is not reached, or is gone before it is reached or greeted; a  *)
(* socket's handshake has a timer of its own.  The client is told.           *)
Unreached ==
    /\ stage \in {"dial", "greet"}
    /\ ~peer["target"] \/ (relay.shape = "socket" /\ stage = "dial")
    /\ Return
    /\ UNCHANGED <<relay, peer, pump>>

(* A pump of a socket gets a message, the last ones from a side already gone. *)
PumpGets(p) ==
    /\ relay.shape = "socket"
    /\ pump[p] = "read"
    /\ conn[Reads(p)] = "open"
    /\ pump' = [pump EXCEPT ![p] = "write"]
    /\ UNCHANGED <<relay, stage, peer, conn>>

(* A read fails once the side is gone or our end is closed.                  *)
PumpFails(p) ==
    /\ relay.shape = "socket"
    /\ pump[p] = "read"
    /\ ~peer[Reads(p)] \/ conn[Reads(p)] = "closed"
    /\ pump' = [pump EXCEPT ![p] = "off"]
    /\ UNCHANGED <<relay, stage, peer, conn>>

(* A write returns when the other side takes it, which one that has just gone  *)
(* may still seem to do ...                                                   *)
PumpWrites(p) ==
    /\ relay.shape = "socket"
    /\ pump[p] = "write"
    /\ conn[Writes(p)] = "open"
    /\ pump' = [pump EXCEPT ![p] = "read"]
    /\ UNCHANGED <<relay, stage, peer, conn>>

(* ... or fails; it has no deadline, and a side that is there and does not read *)
(* holds it.                                                                  *)
PumpWriteFails(p) ==
    /\ relay.shape = "socket"
    /\ pump[p] = "write"
    /\ ~(peer[Writes(p)] /\ conn[Writes(p)] = "open")
    /\ pump' = [pump EXCEPT ![p] = "off"]
    /\ UNCHANGED <<relay, stage, peer, conn>>

(* The pump the handler waits for has closed its channel.                    *)
SocketReturns ==
    /\ stage = "relay"
    /\ relay.shape = "socket"
    /\ pump[relay.waits] = "off"
    /\ Return
    /\ UNCHANGED <<relay, peer, pump>>

(* An answer read to its end leaves the connection to the transport, which     *)
(* keeps it; one that is not, or that the transport has no room for, does not. *)
ReadToEnd == conn' \in {conn, [conn EXCEPT !["target"] = "idle"]}

(* A stream is copied piece by piece, the last ones from a target already gone, *)
(* until either side leaves or the target has said all.                       *)
StreamGets ==
    /\ stage = "relay"
    /\ relay.shape = "stream"
    /\ stage' = "write"
    /\ UNCHANGED <<relay, peer, conn, pump>>
StreamReturns ==
    /\ stage = "relay"
    /\ relay.shape = "stream"
    /\ ~peer["target"] \/ ~peer["client"]
    /\ Return
    /\ UNCHANGED <<relay, peer, pump>>
StreamEnds ==
    /\ stage = "relay"
    /\ relay.shape = "stream"
    /\ peer["target"]
    /\ stage' = "done"
    /\ conn' \in {ClosedAll, [conn EXCEPT !["target"] = "idle"]}
    /\ UNCHANGED <<relay, peer, pump>>

(* The reader of the widget proxy has the whole body, or an error.            *)
ReaderGets ==
    /\ pump["down"] = "read"
    /\ Has("reader")
    /\ peer["target"] /\ conn["target"] = "open"
    /\ pump' = [pump EXCEPT !["down"] = "write"]
    /\ ReadToEnd
    /\ UNCHANGED <<relay, stage, peer>>
ReaderFails ==
    /\ pump["down"] = "read"
    /\ Has("reader")
    /\ ~peer["target"] \/ conn["target"] = "closed"
    /\ pump' = [pump EXCEPT !["down"] = "write"]
    /\ UNCHANGED <<relay, stage, peer, conn>>

(* It hands over through a channel with room for one, so it waits for nobody. *)
HandsOverUnbuffered ==
    /\ stage = "body"
    /\ pump["down"] = "write"
    /\ Has("reader")
    /\ pump' = [pump EXCEPT !["down"] = "off"]
    /\ UNCHANGED <<relay, stage, peer, conn>>
ReaderHandsOver ==
    /\ pump["down"] = "write"
    /\ Has("reader")
    /\ pump' = [pump EXCEPT !["down"] = "off"]
    /\ UNCHANGED <<relay, stage, peer, conn>>

(* The handler has the body, which it reads itself or gets from its reader ... *)
BodyComes ==
    /\ stage = "body"
    /\ ~Has("reader")
    /\ peer["target"]
    /\ stage' = "write"
    /\ ReadToEnd
    /\ UNCHANGED <<relay, peer, pump>>
BodyHandedOver ==
    /\ stage = "body"
    /\ Has("reader") /\ pump["down"] = "off"
    /\ stage' = "write"
    /\ UNCHANGED <<relay, peer, conn, pump>>

(* ... or cannot have it.                                                     *)
BodyEnds ==
    /\ stage = "body"
    /\ IF Has("reader") THEN pump["down"] = "off" ELSE ~peer["target"]
    /\ Return
    /\ UNCHANGED <<relay, peer, pump>>

(* What it has, it writes to its client, again without a deadline.            *)
ClientTakes ==
    /\ stage = "write"
    /\ IF relay.shape = "stream" THEN stage' = "relay" /\ UNCHANGED conn ELSE Return
    /\ UNCHANGED <<relay, peer, pump>>
ClientGone ==
    /\ stage = "write"
    /\ ~peer["client"]
    /\ Return
    /\ UNCHANGED <<relay, peer, pump>>

(* A connection that was kept is closed by the target, or by the timer of the  *)
(* transports that have one (90 seconds, or ten minutes for the widget's).     *)
IdleCloses ==
    /\ conn["target"] = "idle"
    /\ ~peer["target"] \/ ~Has("own")
    /\ conn' = [conn EXCEPT !["target"] = "closed"]
    /\ UNCHANGED <<relay, stage, peer, pump>>

(* The timer fires, or the client that the request follows is gone.           *)
TimedOut ==
    /\ stage \in {"dial", "body"}
    /\ Has("timed")
    /\ Return
    /\ UNCHANGED <<relay, peer, pump>>
ClientLeft ==
    /\ stage \in {"dial", "body"}
    /\ Has("follows")
    /\ ~peer["client"]
    /\ Return
    /\ UNCHANGED <<relay, peer, pump>>

(* A side leaves: a closed page, a stopped service, a lost connection, the end *)
(* of what a stream had to say.                                               *)
PeerLeaves(s) ==
    /\ peer[s]
    /\ peer' = [peer EXCEPT ![s] = FALSE]
    /\ UNCHANGED <<relay, stage, conn, pump>>

(* The steps the handler and its goroutines take by themselves, once what they *)
(* wait for has happened.  A read of what a side has left behind comes to its  *)
(* end; no read of, and no write to, a side that is there need ever return.    *)
OwnStep ==
    \/ Accept \/ Unreached \/ SocketReturns \/ BodyHandedOver \/ TimedOut \/ ClientLeft
    \/ BodyEnds \/ ClientGone \/ ReaderFails \/ ReaderHandsOver \/ IdleCloses
PeerStep ==
    \/ DialSocket \/ Greeting \/ Headers \/ ReaderGets \/ BodyComes \/ StreamGets \/ StreamEnds
    \/ ClientTakes \/ \E p \in Both : PumpGets(p) \/ PumpWrites(p)
RelayNext ==
    \/ OwnStep \/ StreamReturns \/ PeerStep
    \/ \E p \in Both : PumpFails(p) \/ PumpWriteFails(p)
    \/ \E s \in Sides : PeerLeaves(s)

RelayFairness ==
    /\ WF_relayVars(OwnStep) /\ SF_relayVars(StreamReturns)
    /\ \A p \in Both : SF_relayVars(PumpFails(p)) /\ WF_relayVars(PumpWriteFails(p))
RelaySpec == RelayInit /\ [][RelayNext]_relayVars /\ RelayFairness

(* Only a socket is upgraded, only a request's connection is kept, and a       *)
(* handler has no goroutines but those it starts.                             *)
RelayTypeOK ==
    /\ relay \in AllHandlers
    /\ stage \in {"start", "dial", "greet", "relay", "body", "write", "done"}
    /\ peer \in [Sides -> BOOLEAN]
    /\ conn \in [Sides -> {"none", "open", "idle", "closed"}]
    /\ pump \in [Both -> {"off", "read", "write"}]
    /\ \A p \in Both : pump[p] # "off" => p \in relay.pumps
    /\ stage = "body" => relay.shape # "socket"
    /\ conn["client"] # "none" => relay.shape = "socket"
    /\ conn["target"] = "idle" => relay.shape # "socket"

(* What obliges a handler to end: the side it waits for is gone, the client   *)
(* whose context it runs under is gone, or it is a single request with a timer. *)
MustEnd ==
    \/ stage \in {"dial", "greet"} /\ ~peer["target"]
    \/ stage = "relay" /\ relay.shape = "socket" /\ ~peer[Reads(relay.waits)]
    \/ stage = "relay" /\ relay.shape = "stream" /\ ~(peer["client"] /\ peer["target"])
    \/ stage = "body" /\ ~peer["target"]
    \/ stage \in {"dial", "body"} /\ Has("timed") /\ relay.shape = "unary"
    \/ stage \in {"dial", "body"} /\ Has("follows") /\ ~peer["client"]
    \/ stage = "write" /\ ~peer["client"]
    \/ stage = "done"

(* It has ended, its goroutines have, and no connection is left but one that   *)
(* the transport of a single request keeps until the target closes it.         *)
Released ==
    /\ stage = "done"
    /\ \A p \in Both : pump[p] = "off"
    /\ \A s \in Sides : conn[s] # "open"
    /\ conn["target"] = "idle" => Has("own") /\ peer["target"]

(* The handler, or the pump it waits for, writes to a side that is there.      *)
Blocked ==
    \/ stage = "write" /\ peer["client"]
    \/ /\ stage = "relay" /\ relay.shape = "socket"
       /\ pump[relay.waits] = "write" /\ peer[Writes(relay.waits)]

(* A relay that has to end does, and takes its goroutines and connections     *)
(* along: no pump stays blocked on the other side, no reader on a handler     *)
(* that has timed out (the deferred closes of every handler, bodyChan).  Two   *)
(* things excuse it: a live side that never reads what is written to it, as    *)
(* writes have no deadline (tguser.go:64, services.go:238), and the idle       *)
(* connection of a transport made for one request without a timer              *)
(* (services.go:269, 400; crm.go:31, 139, 230).                                *)
RelayEnds == <>[]Blocked \/ (MustEnd ~> Released)
=============================================================================
