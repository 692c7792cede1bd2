----------------------------- MODULE TestSession -----------------------------
(***************************************************************************)
(* The test dialog of one user with one respondent: the session map of     *)
(* usecase/session/session.go, and the handlers of delivery/http that      *)
(* start, feed, watch and stop it.  Sessions of other keys share nothing.  *)
(*                                                                         *)
(* A step is one operation on the session map with the code up to the next *)
(* one, or one channel operation of a WebSocket handler's goroutines.  The *)
(* core (startpoint, model) is external: it keeps one respondent, whose    *)
(* channel of the dialog is slot, and runs a listener for every session    *)
(* until its context is cancelled or its channel is closed.  A request for *)
(* another provider than the running session's changes nothing and is left *)
(* out.                                                                    *)
(***************************************************************************)
EXTENDS Integers, Sequences

CONSTANTS
    Sessions,    \* ids of TestSession objects; a channel is named by the session it was made for
    Requests,    \* HTTP goroutines
    Sockets,     \* handlers of /ws/test-model
    Voices,      \* handlers of /ws/test-realtime
    Cleaner,     \* cleanupLoop
    None,
    MaxAnswers,  \* bound on messages of the user
    Buffer       \* capacity of messageBuffer and sendBuffer

ASSUME SessionAssumption ==
    /\ None \notin Sessions \cup Voices \cup 1..MaxAnswers
    /\ Cleaner \notin Requests \cup Sockets
    /\ Requests \cap Sockets = {}
    /\ MaxAnswers \in Nat /\ Buffer \in Nat \ {0}

VARIABLES
    entry,   \* TestAPI.sessions under the key
    sess,    \* the TestSession objects
    open,    \* channels that are open
    slot,    \* RespModel.Chan of the dialog
    gauge,   \* metrics.ActiveTestSessions
    displaced, \* history: sessions a step put out of the map that meant another, or nothing
    work,    \* local state of each goroutine that touches the map
    sock,    \* connection, buffers and helper goroutines of a socket
    asked,   \* messages of the user so far
    rx, tx,  \* content of each channel: questions waiting, answers waiting
    voice,   \* local state of each realtime handler
    rt       \* the core's realtime session of the respondent

tally == <<gauge, displaced>>
map == <<entry, sess, open, slot, tally>>
dialog == <<asked, rx, tx>>
speech == <<voice, rt>>
vars == <<map, work, sock, dialog, speech>>

Procs == Requests \cup Sockets \cup {Cleaner}
Starting == {"drop", "init", "store"}
Ending == {"stopClose", "unlink", "delete", "close"}
Serving == {"serve", "status", "drain", "stopLoad"}
Answers == 1..MaxAnswers
ChannelClosed == 0     \* the last payload of a socket, {"status": "channel_closed"}

Session == [ch : Sessions \cup {None}, live : BOOLEAN, stale : BOOLEAN]
Socket == [conn : {"off", "up", "down"}, ch : Sessions \cup {None}, done : BOOLEAN,
           pump : BOOLEAN, hand : {None} \cup Answers, inbuf : Seq(Answers),
           sender : BOOLEAN, outbuf : Seq(Answers \cup {ChannelClosed}), outClosed : BOOLEAN]
NoSocket == [conn |-> "off", ch |-> None, done |-> TRUE, pump |-> FALSE, hand |-> None,
             inbuf |-> <<>>, sender |-> FALSE, outbuf |-> <<>>, outClosed |-> TRUE]
Voice == [pc : {"idle", "serve", "wait", "close"}, conn : {"off", "up", "down"},
          sender : BOOLEAN]

TypeOK ==
    /\ entry \in Sessions \cup {None} /\ slot \in Sessions \cup {None}
    /\ sess \in [Sessions -> Session]
    /\ open \subseteq Sessions
    /\ gauge \in Int /\ displaced \subseteq Sessions
    /\ work \in [Procs -> [pc : {"idle"} \cup Starting \cup Ending \cup Serving,
                           s : Sessions \cup {None}]]
    /\ \A p \in Procs : work[p].pc \in {"drop", "store"} \cup Ending => work[p].s # None
    /\ sock \in [Sockets -> Socket]
    /\ asked \in 0..MaxAnswers
    /\ rx \in [Sessions -> Seq(Answers)] /\ tx \in [Sessions -> Seq(Answers)]
    /\ voice \in [Voices -> Voice] /\ rt \in Voices \cup {None}

Init ==
    /\ entry = None /\ slot = None /\ open = {} /\ gauge = 0 /\ displaced = {}
    /\ sess = [s \in Sessions |-> [ch |-> None, live |-> FALSE, stale |-> FALSE]]
    /\ work = [p \in Procs |-> [pc |-> "idle", s |-> None]]
    /\ sock = [w \in Sockets |-> NoSocket]
    /\ asked = 0
    /\ rx = [s \in Sessions |-> <<>>] /\ tx = [s \in Sessions |-> <<>>]
    /\ voice = [v \in Voices |-> [pc |-> "idle", conn |-> "off", sender |-> FALSE]]
    /\ rt = None

-----------------------------------------------------------------------------

At(p, label) == work[p].pc = label
Goto(p, label, s) == work' = [work EXCEPT ![p] = [pc |-> label, s |-> s]]
Open(s) == sess[s].ch \in open
Touch(s) == sess' = [sess EXCEPT ![s].stale = FALSE]

\* The step takes s out of the map: what is there instead is displaced.
Displaces(s) == displaced' = displaced \cup ({entry} \ {None, s})

\* The code's own end of a session: context, channel, the respondent's map.
EndSession(s) ==
    /\ sess' = [sess EXCEPT ![s].live = FALSE]
    /\ open' = open \ {sess[s].ch}
    /\ slot' = None

-----------------------------------------------------------------------------
\* StartSession.

StartSession(p) ==
    /\ At(p, "idle")
    /\ \/ entry = None /\ Goto(p, "init", None) /\ UNCHANGED sess
       \/ entry # None /\ ~Open(entry) /\ Goto(p, "drop", entry) /\ UNCHANGED sess
       \/ entry # None /\ Open(entry) /\ Touch(entry) /\ UNCHANGED work
    /\ UNCHANGED <<entry, open, slot, tally, sock, dialog, speech>>

\* A session with closed channels is not used again.  Delete goes by the key, and
\* the gauge is lowered whatever it found.
Drop(p) ==
    /\ At(p, "drop")
    /\ entry' = None /\ slot' = None /\ gauge' = gauge - 1
    /\ displaced' = IF entry = work[p].s THEN displaced
                    ELSE displaced \cup ({entry, work[p].s} \ {None})
    /\ Goto(p, "init", None)
    /\ UNCHANGED <<sess, open, sock, dialog, speech>>

Unused == {s \in Sessions : sess[s].ch = None}

\* The reads of the model, the dialog and the user may fail; otherwise the
\* respondent's channel is used again if it is open, under a new context.
Create(p) ==
    /\ At(p, "init")
    /\ \/ Goto(p, "idle", None) /\ UNCHANGED <<sess, open, slot>>
       \/ \E s \in Unused :
             LET ch == IF slot \in open THEN slot ELSE s IN
             /\ sess' = [sess EXCEPT ![s] = [ch |-> ch, live |-> TRUE, stale |-> FALSE]]
             /\ open' = open \cup {ch}
             /\ slot' = ch
             /\ Goto(p, "store", s)
    /\ UNCHANGED <<entry, tally, sock, dialog, speech>>

\* Whatever is under the key by now is overwritten.
Store(p) ==
    /\ At(p, "store")
    /\ Displaces(None)
    /\ entry' = work[p].s /\ gauge' = gauge + 1
    /\ Goto(p, "idle", None)
    /\ UNCHANGED <<sess, open, slot, sock, dialog, speech>>

-----------------------------------------------------------------------------
\* StopSession, called by the stop handler and at the end of a socket.

\* A handler that has nothing more to do; a socket closes its connection.
Finish(p) ==
    /\ Goto(p, "idle", None)
    /\ sock' = [w \in Sockets |-> IF w = p THEN [sock[w] EXCEPT !.conn = "off"] ELSE sock[w]]

\* Mutant of StopSession: the result of the lookup is not looked at.
StopUnchecked(p) ==
    /\ (p \in Requests /\ At(p, "idle")) \/ At(p, "stopLoad")
    /\ Goto(p, "stopClose", entry)
    /\ UNCHANGED <<map, sock, dialog, speech>>

StopSession(p) ==
    /\ (p \in Requests /\ At(p, "idle")) \/ At(p, "stopLoad")
    /\ \/ entry = None /\ p \in Sockets /\ Finish(p)
       \/ entry # None /\ Goto(p, "stopClose", entry) /\ UNCHANGED sock
    /\ UNCHANGED <<map, dialog, speech>>

\* Mutant of StopClose: the context is left alone and the channel open.
StopCloseForgotten(p) ==
    /\ At(p, "stopClose")
    /\ slot' = None
    /\ Goto(p, "unlink", work[p].s)
    /\ UNCHANGED <<entry, sess, open, tally, sock, dialog, speech>>

\* The session's mutex is held up to the end of StopSession.
StopClose(p) ==
    /\ At(p, "stopClose")
    /\ \A q \in Procs : ~(At(q, "unlink") /\ work[q].s = work[p].s)
    /\ EndSession(work[p].s)
    /\ Goto(p, "unlink", work[p].s)
    /\ UNCHANGED <<entry, tally, sock, dialog, speech>>

\* By the key: the entry need not be the session that was read from it.
LoadAndDelete(s) ==
    /\ entry' = None
    /\ Displaces(s)
    /\ gauge' = IF entry = None THEN gauge ELSE gauge - 1

Unlink(p) ==
    /\ At(p, "unlink")
    /\ LoadAndDelete(work[p].s)
    /\ Finish(p)
    /\ UNCHANGED <<sess, open, slot, dialog, speech>>

-----------------------------------------------------------------------------
\* cleanupLoop.

Age ==
    /\ entry # None
    /\ sess' = [sess EXCEPT ![entry].stale = TRUE]
    /\ UNCHANGED <<entry, open, slot, tally, work, sock, dialog, speech>>

CleanSee ==
    /\ At(Cleaner, "idle")
    /\ entry # None /\ sess[entry].stale
    /\ Goto(Cleaner, "delete", entry)
    /\ UNCHANGED <<map, sock, dialog, speech>>

CleanDelete ==
    /\ At(Cleaner, "delete")
    /\ LoadAndDelete(work[Cleaner].s)
    /\ Goto(Cleaner, "close", work[Cleaner].s)
    /\ UNCHANGED <<sess, open, slot, sock, dialog, speech>>

CleanClose ==
    /\ At(Cleaner, "close")
    /\ EndSession(work[Cleaner].s)
    /\ Goto(Cleaner, "idle", None)
    /\ UNCHANGED <<entry, tally, sock, dialog, speech>>

-----------------------------------------------------------------------------
\* Questions and answers.

\* testAskHandler: SendMessage puts the question into the session's channel.
Ask ==
    /\ asked < MaxAnswers /\ entry # None
    /\ asked' = asked + 1
    /\ Touch(entry)
    /\ rx' = IF Open(entry) THEN [rx EXCEPT ![sess[entry].ch] = Append(@, asked + 1)] ELSE rx
    /\ UNCHANGED <<entry, open, slot, tally, work, sock, tx, speech>>

\* A listener is started once the session is stored.
Listening(s) ==
    /\ sess[s].live /\ Open(s)
    /\ \A p \in Requests : ~(At(p, "store") /\ work[p].s = s)

Answer(s) ==
    /\ Listening(s)
    /\ LET ch == sess[s].ch IN
       /\ rx[ch] # <<>>
       /\ tx' = [tx EXCEPT ![ch] = Append(@, Head(rx[ch]))]
       /\ rx' = [rx EXCEPT ![ch] = Tail(@)]
    /\ UNCHANGED <<map, work, sock, asked, speech>>

\* The core may close the channel of a session on its own.
CoreCloses ==
    /\ entry # None
    /\ Open(entry)
    /\ open' = open \ {sess[entry].ch}
    /\ UNCHANGED <<entry, sess, slot, tally, work, sock, dialog, speech>>

\* ... and may recall a respondent whose channel is closed already.
CoreRecalls(s) ==
    /\ slot = None /\ sess[s].ch # None /\ ~Open(s)
    /\ slot' = sess[s].ch
    /\ UNCHANGED <<entry, sess, open, tally, work, sock, dialog, speech>>

-----------------------------------------------------------------------------
\* testWebSocketHandler.  The reader goroutine ends with the connection; the
\* pump moves answers from the channel to messageBuffer, the handler from there
\* to sendBuffer, and the sender to the client.

Set(w, r) == sock' = [sock EXCEPT ![w] = r]
Here(w) == sock[w]

\* GetChannel.
Connect(w) ==
    /\ At(w, "idle") /\ entry # None
    /\ ~Here(w).pump /\ ~Here(w).sender
    /\ Touch(entry)
    /\ Set(w, [NoSocket EXCEPT !.conn = "up", !.ch = sess[entry].ch, !.done = FALSE,
                               !.pump = TRUE, !.sender = TRUE, !.outClosed = FALSE])
    /\ Goto(w, "serve", None)
    /\ UNCHANGED <<entry, open, slot, tally, dialog, speech>>

ClientLeaves(w) ==
    /\ Here(w).conn = "up"
    /\ Set(w, [Here(w) EXCEPT !.conn = "down"])
    /\ UNCHANGED <<map, work, dialog, speech>>

ReadMessage(w) ==
    /\ Here(w).conn # "up" /\ ~Here(w).done
    /\ Set(w, [Here(w) EXCEPT !.done = TRUE])
    /\ UNCHANGED <<map, work, dialog, speech>>

PumpTake(w) ==
    /\ Here(w).pump /\ Here(w).hand = None
    /\ LET ch == Here(w).ch IN
       /\ tx[ch] # <<>>
       /\ Set(w, [Here(w) EXCEPT !.hand = Head(tx[ch])])
       /\ tx' = [tx EXCEPT ![ch] = Tail(@)]
    /\ UNCHANGED <<map, work, asked, rx, speech>>

PumpPut(w) ==
    /\ Here(w).hand # None /\ Len(Here(w).inbuf) < Buffer
    /\ Set(w, [Here(w) EXCEPT !.hand = None, !.inbuf = Append(@, Here(w).hand)])
    /\ UNCHANGED <<map, work, dialog, speech>>

\* Mutant of Drained: a closed channel ends the pump at once.
JustClosed(w) == Here(w).ch \notin open

Drained(w) == Here(w).ch \notin open /\ tx[Here(w).ch] = <<>>

PumpStop(w) ==
    /\ Here(w).pump /\ Here(w).hand = None
    /\ Here(w).done \/ Drained(w)
    /\ Set(w, [Here(w) EXCEPT !.pump = FALSE])
    /\ UNCHANGED <<map, work, dialog, speech>>

\* A full sendBuffer drops the answer.
Forward(w) ==
    /\ At(w, "serve") /\ Here(w).inbuf # <<>>
    /\ LET rest == [Here(w) EXCEPT !.inbuf = Tail(@)] IN
       Set(w, IF Len(Here(w).outbuf) < Buffer
              THEN [rest EXCEPT !.outbuf = Append(@, Head(Here(w).inbuf))]
              ELSE rest)
    /\ UNCHANGED <<map, work, dialog, speech>>

\* Mutant of Leave: sendBuffer is not closed.
LeaveOpen(w) ==
    /\ At(w, "serve") /\ Here(w).done
    /\ Goto(w, "drain", None)
    /\ UNCHANGED <<map, sock, dialog, speech>>

Leave(w) ==
    /\ At(w, "serve") /\ Here(w).done
    /\ Set(w, [Here(w) EXCEPT !.outClosed = TRUE])
    /\ Goto(w, "drain", None)
    /\ UNCHANGED <<map, dialog, speech>>

DrainDone(w) ==
    /\ At(w, "drain") /\ ~Here(w).sender
    /\ Goto(w, "stopLoad", None)
    /\ UNCHANGED <<map, sock, dialog, speech>>

AnswersClosed(w) ==
    /\ At(w, "serve") /\ ~Here(w).pump /\ Here(w).inbuf = <<>>
    /\ Goto(w, "status", None)
    /\ UNCHANGED <<map, sock, dialog, speech>>

SendStatus(w) ==
    /\ At(w, "status") /\ Len(Here(w).outbuf) < Buffer
    /\ Set(w, [Here(w) EXCEPT !.outbuf = Append(@, ChannelClosed), !.outClosed = TRUE])
    /\ Goto(w, "stopLoad", None)
    /\ UNCHANGED <<map, dialog, speech>>

\* A write to a lost connection ends the sender, and so does a ping.
Send(w) ==
    /\ Here(w).sender
    /\ \/ /\ Here(w).conn = "up" /\ Here(w).outbuf # <<>>
          /\ Set(w, [Here(w) EXCEPT !.outbuf = Tail(@)])
       \/ /\ Here(w).conn # "up" /\ (Here(w).outbuf # <<>> \/ At(w, "serve"))
          /\ Set(w, [Here(w) EXCEPT !.sender = FALSE])
       \/ /\ Here(w).outbuf = <<>> /\ Here(w).outClosed
          /\ Set(w, [Here(w) EXCEPT !.sender = FALSE])
    /\ UNCHANGED <<map, work, dialog, speech>>

-----------------------------------------------------------------------------
\* testRealtimeHandler: the handler itself reads, a goroutine sends.  The core
\* has one realtime session for the respondent, and closes its channels when
\* it ends.

SetVoice(v, pc, conn, sender) ==
    voice' = [voice EXCEPT ![v] = [pc |-> pc, conn |-> conn, sender |-> sender]]

\* The core may take over an old session or refuse; the first write to the client
\* may fail after it.
StartRealtimeSession(v) ==
    /\ voice[v].pc = "idle" /\ ~voice[v].sender
    /\ \/ rt' = v /\ SetVoice(v, "serve", "up", TRUE)
       \/ rt' \in {rt, v} /\ SetVoice(v, "close", "up", FALSE)
    /\ UNCHANGED <<map, work, sock, dialog>>

VoiceLeaves(v) ==
    /\ voice[v].conn = "up"
    /\ SetVoice(v, voice[v].pc, "down", voice[v].sender)
    /\ UNCHANGED <<map, work, sock, dialog, rt>>

\* A lost connection makes the handler wait for its sender, a stop does not.
ReadVoice(v) ==
    /\ voice[v].pc = "serve"
    /\ \/ voice[v].conn # "up" /\ SetVoice(v, "wait", voice[v].conn, voice[v].sender)
       \/ voice[v].conn = "up" /\ SetVoice(v, "close", "up", voice[v].sender)
    /\ UNCHANGED <<map, work, sock, dialog, rt>>

\* Mutant of VoiceOver: without the ping only the core's channels end it.
CoreEnded(v) == rt # v

VoiceOver(v) == rt # v \/ voice[v].conn # "up"

SendVoice(v) ==
    /\ voice[v].sender
    /\ VoiceOver(v)
    /\ SetVoice(v, voice[v].pc, "off", FALSE)
    /\ UNCHANGED <<map, work, sock, dialog, rt>>

VoiceSent(v) ==
    /\ voice[v].pc = "wait" /\ ~voice[v].sender
    /\ SetVoice(v, "close", voice[v].conn, FALSE)
    /\ UNCHANGED <<map, work, sock, dialog, rt>>

\* CloseSession goes by the respondent, not by the handler.
StopRealtimeSession(v) ==
    /\ voice[v].pc = "close"
    /\ SetVoice(v, "idle", "off", voice[v].sender)
    /\ rt' = None
    /\ UNCHANGED <<map, work, sock, dialog>>

\* The core ends a session on an error; its event makes the sender stop.
VoiceFails ==
    /\ rt # None
    /\ rt' = None
    /\ UNCHANGED <<map, work, sock, dialog, voice>>

-----------------------------------------------------------------------------

Start(p) == StartSession(p) \/ Drop(p) \/ Create(p) \/ Store(p)
Handle(w) ==
    \/ ReadMessage(w) \/ PumpTake(w) \/ PumpPut(w) \/ PumpStop(w) \/ Forward(w)
    \/ Leave(w) \/ DrainDone(w) \/ AnswersClosed(w) \/ SendStatus(w) \/ Send(w)
Stop(p) == StopSession(p) \/ StopClose(p) \/ Unlink(p)
Clean == CleanSee \/ CleanDelete \/ CleanClose
Speak(v) == ReadVoice(v) \/ SendVoice(v) \/ VoiceSent(v) \/ StopRealtimeSession(v)

Next ==
    \/ \E p \in Requests : Start(p)
    \/ \E p \in Requests \cup Sockets : Stop(p)
    \/ Age \/ Clean
    \/ Ask \/ CoreCloses
    \/ \E s \in Sessions : Answer(s) \/ CoreRecalls(s)
    \/ \E w \in Sockets : Connect(w) \/ ClientLeaves(w) \/ Handle(w)
    \/ \E v \in Voices : StartRealtimeSession(v) \/ VoiceLeaves(v) \/ Speak(v)
    \/ VoiceFails

Spec == Init /\ [][Next]_vars

-----------------------------------------------------------------------------

\* What StopSession and cleanupLoop take out of the map they also end: a session
\* whose listener runs is in the map, in the hands of whoever is ending it, or was
\* put out of the map by a step that meant another session.
NoListenerLeft ==
    \A s \in Sessions \ displaced : Listening(s) =>
        \/ entry = s
        \/ \E p \in Procs : work[p].pc \in Ending /\ work[p].s = s

\* Until that happens the gauge of active sessions is their number, however many
\* handlers and the TTL end one session at the same time.
GaugeExact == displaced = {} => gauge = IF entry = None THEN 0 ELSE 1

\* A client is told that the channel is closed only after the answers that were
\* in it: none is left in the channel, with the pump or in messageBuffer.
StatusLast ==
    \A w \in Sockets : At(w, "status") /\ ~Here(w).done =>
        tx[Here(w).ch] = <<>> /\ Here(w).hand = None /\ Here(w).inbuf = <<>>

\* The stages an answer passes on its way to the client of a socket, the next to
\* be sent first, and the questions behind them.
Stages(w) ==
    LET c == Here(w).ch
        hand == IF Here(w).hand = None THEN <<>> ELSE <<Here(w).hand>> IN
    <<Here(w).outbuf, Here(w).inbuf, hand, tx[c], rx[c]>>
Rising(q) == \A i, j \in DOMAIN q : i < j /\ q[j] # ChannelClosed => q[i] < q[j]
Before(q, r) == \A i \in DOMAIN q, j \in DOMAIN r : q[i] < r[j]

\* However core, pump, handler and sender interleave, and whatever a full
\* sendBuffer drops, a client gets the answers to its questions in their order,
\* none twice, and nothing after the closing status (testWebSocketHandler).
AnswersInOrder ==
    \A w \in Sockets : Here(w).ch # None =>
        /\ \A i \in 1..5 : Rising(Stages(w)[i])
        /\ \A i, j \in 1..5 : i < j => Before(Stages(w)[i], Stages(w)[j])
        /\ \A i \in DOMAIN Here(w).outbuf :
              Here(w).outbuf[i] = ChannelClosed => i = Len(Here(w).outbuf)

\* A goroutine that has outlived the loop of testWebSocketHandler waits for nothing
\* that is not closed: the pump for done, the sender for sendBuffer, the reader for
\* the connection.
HelpersReleased ==
    \A w \in Sockets :
        /\ Here(w).pump => At(w, "serve") \/ Here(w).done
        /\ Here(w).sender => work[w].pc \in {"serve", "status"} \/ Here(w).outClosed
        /\ At(w, "idle") /\ ~Here(w).done => Here(w).conn # "up"

\* The sender of a voice call, which testRealtimeHandler waits for or leaves behind,
\* has seen the end of the call or will see it at its next ping.
VoiceReleased ==
    \A v \in Voices : voice[v].sender /\ voice[v].pc \in {"idle", "wait"} => VoiceOver(v)

\* The two sends that wait for ever once nobody takes from a full buffer: the
\* pump's into messageBuffer and that of the closing status into sendBuffer.
Jammed(w) ==
    \/ Here(w).hand # None /\ Len(Here(w).inbuf) = Buffer /\ ~At(w, "serve")
    \/ At(w, "status") /\ Len(Here(w).outbuf) = Buffer /\ ~Here(w).sender

\* A client that left is noticed: the handler ends the session and all three of
\* its goroutines are gone, unless a buffer was full when its reader went.
SocketEnds ==
    \A w \in Sockets : Here(w).conn = "down" ~>
        (At(w, "idle") /\ ~Here(w).pump /\ ~Here(w).sender) \/ Jammed(w)

\* The handler of a voice call ends when its client leaves, although reader and
\* sender each wait for the other.
VoiceEnds ==
    \A v \in Voices : voice[v].conn = "down" ~> voice[v].pc = "idle" /\ ~voice[v].sender

\* A session nobody has used for the TTL goes away or is used again.
StaleSessionEnds ==
    \A s \in Sessions : entry = s /\ sess[s].stale ~> entry # s \/ ~sess[s].stale

\* However starts, stops and the cleanup interleave, only three steps leave a running
\* session that nobody holds or miscount it: a store over the entry of another start,
\* and the removal by key, by a stop, the TTL or a start, of a session other than the
\* one it had read.
SessionsHeld == NoListenerLeft /\ GaugeExact

\* What a client gets: the answers in order, and the closing status after the last.
AnswersThenStatus == AnswersInOrder /\ StatusLast

\* No goroutine of a dialog or a call waits for what will not come.
GoroutinesReleased == HelpersReleased /\ VoiceReleased

\* Whatever the client of a dialog or a call does, what was started for it ends.
GoroutinesEnd == SocketEnds /\ VoiceEnds /\ StaleSessionEnds
=============================================================================
