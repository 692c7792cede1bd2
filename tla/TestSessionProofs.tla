--------------------------- MODULE TestSessionProofs ---------------------------
(***************************************************************************)
(* Proofs about TestSession, for any number of requests, sockets, voice    *)
(* calls, sessions, messages and any size of the buffers: types, that the  *)
(* answers reach a client in order and the closing status after them, that *)
(* no goroutine of a dialog or a call is left waiting for what will not    *)
(* come, and that every session that runs is held and counted once.        *)
(***************************************************************************)
EXTENDS TestSession, TLAPS

USE DEF tally

-----------------------------------------------------------------------------
(* The inductive invariant. *)

\* A session that has been made, and so has a channel.  A channel is named by the
\* session it was made for, which keeps the name: no channel is made twice.
Made(ss, s) == s \in Sessions /\ ss[s].ch # None

UsedOK ==
    /\ entry # None => Made(sess, entry)
    /\ \A s \in open : Made(sess, s)
    /\ \A s \in Sessions : Made(sess, s) => Made(sess, sess[s].ch)
    /\ \A p \in Procs : work[p].pc \in {"drop", "store"} \cup Ending => Made(sess, work[p].s)
    /\ \A w \in Sockets : Here(w).pump \/ ~Here(w).done => Made(sess, Here(w).ch)

Labels == {"idle"} \cup Starting \cup Ending \cup Serving
Work == [pc : Labels, s : Sessions \cup {None}]

Typed == TypeOK /\ UsedOK

-----------------------------------------------------------------------------
(* The building blocks of the actions. *)

\* A goroutine goes to its next label.
LEMMA GotoWork ==
  ASSUME Typed, NEW p \in Procs, NEW l \in Labels, NEW s \in Sessions \cup {None}, Goto(p, l, s)
  PROVE  /\ work' \in [Procs -> Work]
         /\ work'[p].pc = l /\ work'[p].s = s
         /\ \A q \in Procs \ {p} : work'[q] = work[q]
BY DEF Goto, Typed, TypeOK, Labels, Work

\* A session is marked as used, or not used for the TTL.
LEMMA MarkSess ==
  ASSUME Typed, NEW s \in Sessions, NEW b \in BOOLEAN, sess' = [sess EXCEPT ![s].stale = b]
  PROVE  /\ sess' \in [Sessions -> Session]
         /\ \A x \in Sessions : sess'[x].ch = sess[x].ch /\ sess'[x].live = sess[x].live
<1>1. sess \in [Sessions -> Session]
  BY DEF Typed, TypeOK
<1>2. sess' = [sess EXCEPT ![s] = [sess[s] EXCEPT !.stale = b]]
  OBVIOUS
<1>3. [sess[s] EXCEPT !.stale = b] \in Session
  BY <1>1 DEF Session
<1>4. sess' \in [Sessions -> Session]
  BY <1>1, <1>2, <1>3
<1>5. \A x \in Sessions \ {s} : sess'[x] = sess[x]
  BY <1>1, <1>2
<1>6. sess'[s] = [sess[s] EXCEPT !.stale = b] /\ sess[s] \in Session
  BY <1>1, <1>2
<1>7. sess'[s].ch = sess[s].ch /\ sess'[s].live = sess[s].live
  BY <1>6 DEF Session
<1> QED
  BY <1>4, <1>5, <1>7

\* A session is ended.
LEMMA EndSess ==
  ASSUME Typed, NEW s \in Sessions, EndSession(s)
  PROVE  /\ sess' \in [Sessions -> Session] /\ ~sess'[s].live
         /\ \A x \in Sessions : sess'[x].ch = sess[x].ch /\ (sess'[x].live => sess[x].live)
         /\ open' \subseteq open /\ slot' = None
<1>1. sess \in [Sessions -> Session]
  BY DEF Typed, TypeOK
<1>2. sess' = [sess EXCEPT ![s] = [sess[s] EXCEPT !.live = FALSE]]
  BY DEF EndSession
<1>3. [sess[s] EXCEPT !.live = FALSE] \in Session
  BY <1>1 DEF Session
<1>4. sess' \in [Sessions -> Session]
  BY <1>1, <1>2, <1>3
<1>5. \A x \in Sessions \ {s} : sess'[x] = sess[x]
  BY <1>1, <1>2
<1>6. sess'[s] = [sess[s] EXCEPT !.live = FALSE] /\ sess[s] \in Session
  BY <1>1, <1>2
<1>7. sess'[s].ch = sess[s].ch /\ sess'[s].live = FALSE
  BY <1>6 DEF Session
<1> QED
  BY <1>4, <1>5, <1>7 DEF EndSession

\* A session is made, on the channel the respondent has or on one of its own.
LEMMA CreateSess ==
  ASSUME Typed, NEW p \in Requests, Create(p), work'[p].pc # "idle"
  PROVE  \E s \in Sessions, ch \in Sessions :
           /\ sess[s].ch = None /\ (ch = s \/ ch \in open)
           /\ sess' \in [Sessions -> Session] /\ sess'[s].ch = ch /\ sess'[s].live
           /\ \A x \in Sessions \ {s} : sess'[x] = sess[x]
           /\ open' = open \cup {ch} /\ slot' = ch
           /\ work'[p].pc = "store" /\ work'[p].s = s
<1>1. work \in [Procs -> Work] /\ p \in Procs
  BY DEF Typed, TypeOK, Work, Labels, Procs
<1>2. ~Goto(p, "idle", None)
  BY <1>1, GotoWork DEF Labels
<1>3. PICK s \in Unused :
         LET ch == IF slot \in open THEN slot ELSE s IN
         /\ sess' = [sess EXCEPT ![s] = [ch |-> ch, live |-> TRUE, stale |-> FALSE]]
         /\ open' = open \cup {ch} /\ slot' = ch /\ Goto(p, "store", s)
  BY <1>2 DEF Create
<1> DEFINE ch == IF slot \in open THEN slot ELSE s
           r == [ch |-> ch, live |-> TRUE, stale |-> FALSE]
<1>4. s \in Sessions /\ sess[s].ch = None
  BY DEF Unused
<1>5. ch \in Sessions /\ (ch = s \/ ch \in open) /\ ch = slot' /\ open' = open \cup {ch}
  BY <1>3, <1>4 DEF Typed, TypeOK
<1>6. sess' = [sess EXCEPT ![s] = r] /\ Goto(p, "store", s)
  BY <1>3
<1>7. r \in Session /\ r.ch = ch /\ r.live = TRUE
  BY <1>5 DEF Session
<1> HIDE DEF ch, r
<1>8. /\ sess' \in [Sessions -> Session] /\ sess'[s] = r
      /\ \A x \in Sessions \ {s} : sess'[x] = sess[x]
  BY <1>4, <1>6, <1>7 DEF Typed, TypeOK
<1>9. work'[p].pc = "store" /\ work'[p].s = s
  BY <1>1, <1>4, <1>6, GotoWork DEF Labels, Starting
<1> QED
  BY <1>4, <1>5, <1>7, <1>8, <1>9

\* What a goroutine of a socket does to its record.
LEMMA SetSock ==
  ASSUME Typed, NEW w \in Sockets, NEW r \in Socket, Set(w, r)
  PROVE  /\ sock' \in [Sockets -> Socket] /\ sock'[w] = r
         /\ \A v \in Sockets \ {w} : sock'[v] = sock[v]
BY DEF Set, Typed, TypeOK

\* The end of a handler closes the connection of its socket.
LEMMA FinishSock ==
  ASSUME Typed, NEW p \in Procs, Finish(p)
  PROVE  /\ sock' \in [Sockets -> Socket] /\ Goto(p, "idle", None)
         /\ \A w \in Sockets :
              /\ sock'[w].ch = sock[w].ch /\ sock'[w].done = sock[w].done
              /\ sock'[w].pump = sock[w].pump /\ sock'[w].hand = sock[w].hand
              /\ sock'[w].inbuf = sock[w].inbuf
<1>1. sock \in [Sockets -> Socket]
  BY DEF Typed, TypeOK
<1>2. sock' = [w \in Sockets |-> IF w = p THEN [sock[w] EXCEPT !.conn = "off"] ELSE sock[w]]
  BY DEF Finish
<1>3. ASSUME NEW w \in Sockets
      PROVE  /\ sock'[w] \in Socket
             /\ sock'[w].ch = sock[w].ch /\ sock'[w].done = sock[w].done
             /\ sock'[w].pump = sock[w].pump /\ sock'[w].hand = sock[w].hand
             /\ sock'[w].inbuf = sock[w].inbuf
  <2>1. sock[w] \in Socket
    BY <1>1
  <2>2. sock'[w] = IF w = p THEN [sock[w] EXCEPT !.conn = "off"] ELSE sock[w]
    BY <1>2
  <2> QED
    BY <2>1, <2>2 DEF Socket
<1>4. sock' \in [Sockets -> Socket]
  BY <1>2, <1>3
<1> QED
  BY <1>3, <1>4 DEF Finish

-----------------------------------------------------------------------------
(* Type correctness. *)

\* What most steps do: no session loses its channel, and no socket gets a new one.
ChannelsKept ==
    /\ sess' \in [Sessions -> Session]
    /\ \A s \in Sessions : sess[s].ch # None => sess'[s].ch = sess[s].ch
SocketsKept ==
    \A w \in Sockets :
        /\ sock'[w].ch = sock[w].ch
        /\ (sock'[w].pump => sock[w].pump) /\ (sock[w].done => sock'[w].done)

LEMMA UsedStays == ChannelsKept => \A s : Made(sess, s) => Made(sess', s)
BY DEF ChannelsKept, Made

\* A step that makes no session.
LEMMA UsedKept ==
  ASSUME Typed, ChannelsKept, SocketsKept,
         \A s \in Sessions : sess'[s].ch = sess[s].ch,
         entry' \in {entry, None}, open' \subseteq open,
         \A p \in Procs : work'[p].pc \in {"drop", "store"} \cup Ending =>
             \/ work[p].pc \in {"drop", "store"} \cup Ending /\ work'[p].s = work[p].s
             \/ Made(sess, work'[p].s)
  PROVE  UsedOK'
<1>1. \A s : Made(sess, s) => Made(sess', s)
  BY UsedStays
<1>2. entry' # None => Made(sess', entry')
  <2>1. entry' # None => Made(sess, entry) /\ entry' = entry
    BY DEF Typed, UsedOK
  <2> QED
    BY <2>1 DEF Made, ChannelsKept
<1>3. \A s \in open' : Made(sess', s)
  BY <1>1 DEF Typed, UsedOK
<1>4. \A s \in Sessions : Made(sess', s) => Made(sess', sess'[s].ch)
  <2> SUFFICES ASSUME NEW s \in Sessions, Made(sess', s) PROVE Made(sess', sess'[s].ch)
    OBVIOUS
  <2>1. PICK x : x = sess[s].ch
    OBVIOUS
  <2>2. Made(sess, x) /\ sess'[s].ch = x
    BY <2>1 DEF Typed, UsedOK, Made
  <2>3. Made(sess', x)
    BY <1>1, <2>2
  <2> QED
    BY <2>2, <2>3
<1>5. \A p \in Procs : work'[p].pc \in {"drop", "store"} \cup Ending => Made(sess', work'[p].s)
  <2> SUFFICES ASSUME NEW p \in Procs, work'[p].pc \in {"drop", "store"} \cup Ending
               PROVE  Made(sess', work'[p].s)
    OBVIOUS
  <2>1. PICK x : x = work'[p].s
    OBVIOUS
  <2>2. Made(sess, x)
    BY <2>1 DEF Typed, UsedOK
  <2>3. Made(sess', x)
    BY <1>1, <2>2
  <2> QED
    BY <2>1, <2>3
<1>6. \A w \in Sockets : sock'[w].pump \/ ~sock'[w].done => Made(sess', sock'[w].ch)
  <2> SUFFICES ASSUME NEW w \in Sockets, sock'[w].pump \/ ~sock'[w].done
               PROVE  Made(sess', sock'[w].ch)
    OBVIOUS
  <2>1. PICK x : x = sock[w].ch
    OBVIOUS
  <2>2. Made(sess, x) /\ sock'[w].ch = x
    BY <2>1 DEF Typed, UsedOK, Here, SocketsKept
  <2>3. Made(sess', x)
    BY <1>1, <2>2
  <2> QED
    BY <2>2, <2>3
<1> QED
  BY <1>2, <1>3, <1>4, <1>5, <1>6 DEF UsedOK, Here

\* TypeOK without what UsedOK says again.
Plain ==
    /\ entry \in Sessions \cup {None} /\ slot \in Sessions \cup {None}
    /\ sess \in [Sessions -> Session]
    /\ open \subseteq Sessions
    /\ gauge \in Int /\ displaced \subseteq Sessions
    /\ work \in [Procs -> Work]
    /\ sock \in [Sockets -> Socket]
    /\ asked \in 0..MaxAnswers
    /\ rx \in [Sessions -> Seq(Answers)] /\ tx \in [Sessions -> Seq(Answers)]
    /\ voice \in [Voices -> Voice] /\ rt \in Voices \cup {None}

LEMMA PlainTyped == Plain /\ UsedOK <=> Typed
<1>1. Typed => Plain
  BY DEF Typed, TypeOK, Plain, Work, Labels
<1>2. Plain /\ UsedOK => TypeOK
  BY SessionAssumption DEF Plain, UsedOK, Made, TypeOK, Work, Labels
<1> QED
  BY <1>1, <1>2 DEF Typed

LEMMA PlainNext == Plain' /\ UsedOK' => Typed'
BY SessionAssumption DEF Plain, UsedOK, Made, Typed, TypeOK, Work, Labels

LEMMA InitTyped == Init => Typed
<1> SUFFICES ASSUME Init PROVE Plain /\ UsedOK
  BY PlainTyped
<1>1. sess \in [Sessions -> Session] /\ \A s \in Sessions : ~Made(sess, s)
  BY DEF Init, Session, Made
<1>2. work \in [Procs -> Work] /\ \A p \in Procs : work[p].pc = "idle"
  BY DEF Init, Work, Labels
<1>3. NoSocket \in Socket /\ NoSocket.pump = FALSE /\ NoSocket.done = TRUE
  BY DEF NoSocket, Socket
<1>4. sock \in [Sockets -> Socket] /\ \A w \in Sockets : sock[w] = NoSocket
  BY <1>3 DEF Init
<1>5. voice \in [Voices -> Voice] /\ rt = None
  BY DEF Init, Voice
<1>6. \A p \in Procs : work[p].pc \notin {"drop", "store"} \cup Ending
  BY <1>2 DEF Ending
<1>7. /\ entry = None /\ slot = None /\ open = {} /\ gauge \in Int /\ displaced = {} /\ asked \in 0..MaxAnswers
      /\ rx \in [Sessions -> Seq(Answers)] /\ tx \in [Sessions -> Seq(Answers)]
  BY SessionAssumption DEF Init
<1>8. Plain
  BY <1>1, <1>2, <1>4, <1>5, <1>7 DEF Plain
<1>9. UsedOK
  BY <1>1, <1>3, <1>4, <1>6, <1>7 DEF UsedOK, Here
<1> QED
  BY <1>8, <1>9

\* The start of a session.
LEMMA StartTyped == ASSUME Typed, NEW p \in Requests, Start(p) PROVE Typed'
<1> USE DEF dialog, speech
<1>1. p \in Procs /\ Plain
  BY PlainTyped DEF Procs
<1>2. CASE StartSession(p)
  <2>1. CASE Touch(entry) /\ entry # None /\ UNCHANGED work
    <3>1. entry \in Sessions
      BY <1>1, <2>1 DEF Plain
    <3>2. ChannelsKept /\ \A s \in Sessions : sess'[s].ch = sess[s].ch
      BY <2>1, <3>1, MarkSess DEF Touch, ChannelsKept
    <3>3. UsedOK'
      BY <1>2, <2>1, <3>2, UsedKept DEF StartSession, SocketsKept
    <3>4. Plain'
      BY <1>1, <1>2, <2>1, <3>2 DEF StartSession, Plain, ChannelsKept
    <3> QED
      BY <3>3, <3>4, PlainNext
  <2>2. CASE UNCHANGED sess /\ (Goto(p, "init", None) \/ (entry # None /\ Goto(p, "drop", entry)))
    <3>1. /\ work' \in [Procs -> Work] /\ \A q \in Procs \ {p} : work'[q] = work[q]
          /\ work'[p].pc = "init" \/ Made(sess, work'[p].s)
      <4>1. entry # None => entry \in Sessions /\ Made(sess, entry)
        BY DEF Typed, UsedOK, Made
      <4> QED
        BY <1>1, <2>2, <4>1, GotoWork DEF Labels, Starting
    <3>2. ChannelsKept /\ \A s \in Sessions : sess'[s].ch = sess[s].ch
      BY <1>1, <2>2 DEF ChannelsKept, Plain
    <3>3. UsedOK'
      BY <1>2, <3>1, <3>2, UsedKept DEF StartSession, SocketsKept, Ending
    <3>4. Plain'
      BY <1>1, <1>2, <3>1, <3>2 DEF StartSession, Plain, ChannelsKept
    <3> QED
      BY <3>3, <3>4, PlainNext
  <2> QED
    BY <1>2, <2>1, <2>2 DEF StartSession
<1>3. CASE Drop(p)
  <2>1. /\ work' \in [Procs -> Work] /\ \A q \in Procs \ {p} : work'[q] = work[q]
        /\ work'[p].pc = "init"
    BY <1>1, <1>3, GotoWork DEF Drop, Labels, Starting
  <2>2. ChannelsKept /\ \A s \in Sessions : sess'[s].ch = sess[s].ch
    BY <1>1, <1>3 DEF Drop, ChannelsKept, Plain
  <2>3. UsedOK'
    BY <1>3, <2>1, <2>2, UsedKept DEF Drop, SocketsKept, Ending
  <2>4. work[p].s \in Sessions
    BY <1>1, <1>3 DEF Drop, At, Typed, UsedOK, Made
  <2>5. displaced' \subseteq Sessions
    BY <1>1, <1>3, <2>4 DEF Drop, Plain
  <2>6. Plain'
    BY <1>1, <1>3, <2>1, <2>2, <2>5 DEF Drop, Plain, ChannelsKept
  <2> QED
    BY <2>3, <2>6, PlainNext
<1>4. CASE Create(p)
  <2>1. /\ work' \in [Procs -> Work] /\ \A q \in Procs \ {p} : work'[q] = work[q]
        /\ work'[p].pc \in {"idle", "store"}
    <3>1. ASSUME NEW s \in Unused, Goto(p, "store", s)
          PROVE  /\ work' \in [Procs -> Work] /\ \A q \in Procs \ {p} : work'[q] = work[q]
                 /\ work'[p].pc \in {"idle", "store"}
      BY <1>1, <3>1, GotoWork DEF Unused, Labels, Starting
    <3>2. ASSUME Goto(p, "idle", None)
          PROVE  /\ work' \in [Procs -> Work] /\ \A q \in Procs \ {p} : work'[q] = work[q]
                 /\ work'[p].pc \in {"idle", "store"}
      BY <1>1, <3>2, GotoWork DEF Labels, Starting
    <3> QED
      BY <1>4, <3>1, <3>2 DEF Create
  <2>2. CASE work'[p].pc = "idle"
    <3>1. UNCHANGED <<sess, open, slot>>
      <4>1. ASSUME NEW s \in Unused, Goto(p, "store", s) PROVE FALSE
        BY <1>1, <2>2, <4>1, GotoWork DEF Unused, Labels, Starting
      <4> QED
        BY <1>4, <4>1 DEF Create
    <3>2. ChannelsKept /\ \A s \in Sessions : sess'[s].ch = sess[s].ch
      BY <1>1, <3>1 DEF ChannelsKept, Plain
    <3>3. UsedOK'
      BY <1>4, <2>1, <2>2, <3>1, <3>2, UsedKept DEF Create, SocketsKept, Ending
    <3>4. Plain'
      BY <1>1, <1>4, <2>1, <3>1 DEF Create, Plain
    <3> QED
      BY <3>3, <3>4, PlainNext
  <2>3. CASE work'[p].pc = "store"
    <3>1. PICK s \in Sessions, ch \in Sessions :
             /\ sess[s].ch = None /\ (ch = s \/ ch \in open)
             /\ sess' \in [Sessions -> Session] /\ sess'[s].ch = ch /\ sess'[s].live
             /\ \A x \in Sessions \ {s} : sess'[x] = sess[x]
             /\ open' = open \cup {ch} /\ slot' = ch
             /\ work'[p].pc = "store" /\ work'[p].s = s
      BY <1>4, <2>3, CreateSess
    <3>2. ChannelsKept
      BY <3>1 DEF ChannelsKept
    <3>3. \A x : Made(sess, x) => Made(sess', x)
      BY <3>2, UsedStays
    <3>4. sess'[s].ch # None /\ Made(sess', s) /\ Made(sess', ch)
      <4>1. sess'[s].ch # None
        BY <3>1, SessionAssumption
      <4>2. ch \in open => Made(sess, ch)
        BY DEF Typed, UsedOK
      <4> QED
        BY <3>1, <3>3, <4>1, <4>2 DEF Made
    <3>5. \A x \in Sessions : Made(sess', x) => Made(sess', sess'[x].ch)
      <4> SUFFICES ASSUME NEW x \in Sessions, Made(sess', x) PROVE Made(sess', sess'[x].ch)
        OBVIOUS
      <4>1. CASE x = s
        BY <3>1, <3>4, <4>1
      <4>2. CASE x # s
        <5>1. PICK y : y = sess[x].ch
          OBVIOUS
        <5>2. sess'[x].ch = y /\ Made(sess, y)
          BY <3>1, <4>2, <5>1 DEF Typed, UsedOK, Made
        <5>3. Made(sess', y)
          BY <3>3, <5>2
        <5> QED
          BY <5>2, <5>3
      <4> QED
        BY <4>1, <4>2
    <3>6. entry' = entry /\ tally' = tally /\ UNCHANGED <<sock, dialog, speech>>
      BY <1>4 DEF Create
    <3>7. \A q \in Procs : work'[q].pc \in {"drop", "store"} \cup Ending => Made(sess', work'[q].s)
      <4> SUFFICES ASSUME NEW q \in Procs, work'[q].pc \in {"drop", "store"} \cup Ending
                   PROVE  Made(sess', work'[q].s)
        OBVIOUS
      <4>1. CASE q = p
        BY <3>1, <3>4, <4>1
      <4>2. CASE q # p
        <5>1. PICK y : y = work[q].s
          OBVIOUS
        <5>2. work'[q].s = y /\ Made(sess, y)
          BY <2>1, <4>2, <5>1 DEF Typed, UsedOK
        <5>3. Made(sess', y)
          BY <3>3, <5>2
        <5> QED
          BY <5>2, <5>3
      <4> QED
        BY <4>1, <4>2
    <3>8. entry' # None => Made(sess', entry')
      BY <3>3, <3>6 DEF Typed, UsedOK, Made
    <3>9. \A x \in open' : Made(sess', x)
      BY <3>1, <3>3, <3>4 DEF Typed, UsedOK
    <3>10. \A w \in Sockets : sock'[w].pump \/ ~sock'[w].done => Made(sess', sock'[w].ch)
      BY <3>3, <3>6 DEF Typed, UsedOK, Here, Made
    <3>11. UsedOK'
      BY <3>5, <3>7, <3>8, <3>9, <3>10 DEF UsedOK, Here
    <3>12. Plain'
      BY <1>1, <2>1, <3>1, <3>6 DEF Plain
    <3> QED
      BY <3>11, <3>12, PlainNext
  <2> QED
    BY <2>1, <2>2, <2>3
<1>5. CASE Store(p)
  <2>1. /\ work' \in [Procs -> Work] /\ \A q \in Procs \ {p} : work'[q] = work[q]
        /\ work'[p].pc = "idle"
    BY <1>1, <1>5, GotoWork DEF Store, Labels
  <2>2. Made(sess, work[p].s) /\ entry' = work[p].s
    BY <1>1, <1>5 DEF Store, At, Typed, UsedOK
  <2>3. /\ UNCHANGED <<sess, open, slot, sock, dialog, speech>> /\ gauge' = gauge + 1
        /\ displaced' = displaced \cup ({entry} \ {None, None})
    BY <1>5 DEF Store, Displaces
  <2>4. \A x : Made(sess, x) => Made(sess', x)
    BY <2>3 DEF Made
  <2>5. UsedOK'
    <3>1. entry' # None => Made(sess', entry')
      BY <2>2, <2>4
    <3>2. \A q \in Procs : work'[q].pc \in {"drop", "store"} \cup Ending => Made(sess', work'[q].s)
      BY <2>1, <2>3 DEF Typed, UsedOK, Made, Ending
    <3>3. /\ \A s \in open' : Made(sess', s)
          /\ \A s \in Sessions : Made(sess', s) => Made(sess', sess'[s].ch)
          /\ \A w \in Sockets : sock'[w].pump \/ ~sock'[w].done => Made(sess', sock'[w].ch)
      BY <2>3 DEF Typed, UsedOK, Made, Here
    <3> QED
      BY <3>1, <3>2, <3>3 DEF UsedOK, Here
  <2>6. Plain'
    BY <1>1, <2>1, <2>2, <2>3 DEF Plain, Made
  <2> QED
    BY <2>5, <2>6, PlainNext
<1> QED
  BY <1>2, <1>3, <1>4, <1>5 DEF Start

\* The end of a session, by a handler or by the cleanup.
LEMMA StopTyped == ASSUME Typed, NEW p \in Requests \cup Sockets, Stop(p) PROVE Typed'
<1> USE DEF map, dialog, speech
<1>1. p \in Procs /\ Plain
  BY PlainTyped DEF Procs
<1>2. CASE StopSession(p)
  <2>1. UNCHANGED <<map, dialog, speech>>
    BY <1>2 DEF StopSession
  <2>2. /\ work' \in [Procs -> Work] /\ \A q \in Procs \ {p} : work'[q] = work[q]
        /\ work'[p].pc \in {"drop", "store"} \cup Ending => Made(sess, work'[p].s)
        /\ sock' \in [Sockets -> Socket] /\ SocketsKept
    <3>1. CASE Finish(p)
      <4>1. Goto(p, "idle", None)
        BY <3>1 DEF Finish
      <4>2. work' \in [Procs -> Work] /\ work'[p].pc = "idle" /\ \A q \in Procs \ {p} : work'[q] = work[q]
        BY <1>1, <4>1, GotoWork DEF Labels
      <4> QED
        BY <1>1, <3>1, <4>2, FinishSock DEF SocketsKept, Ending
    <3>2. CASE entry # None /\ Goto(p, "stopClose", entry) /\ UNCHANGED sock
      <4>1. entry \in Sessions /\ Made(sess, entry)
        BY <3>2 DEF Typed, UsedOK, Made
      <4>2. work' \in [Procs -> Work] /\ work'[p].s = entry /\ \A q \in Procs \ {p} : work'[q] = work[q]
        BY <1>1, <3>2, <4>1, GotoWork DEF Labels, Ending
      <4> QED
        BY <1>1, <3>2, <4>1, <4>2 DEF SocketsKept, Plain
    <3> QED
      BY <1>2, <3>1, <3>2 DEF StopSession
  <2>3. ChannelsKept /\ \A s \in Sessions : sess'[s].ch = sess[s].ch
    BY <1>1, <2>1 DEF ChannelsKept, Plain
  <2>4. UsedOK'
    BY <2>1, <2>2, <2>3, UsedKept
  <2>5. Plain'
    BY <1>1, <2>1, <2>2 DEF Plain
  <2> QED
    BY <2>4, <2>5, PlainNext
<1>3. CASE StopClose(p)
  <2>1. work[p].pc = "stopClose" /\ Made(sess, work[p].s) /\ work[p].s \in Sessions
    BY <1>1, <1>3 DEF StopClose, At, Typed, UsedOK, Ending, Made
  <2>2. work' \in [Procs -> Work] /\ work'[p].s = work[p].s /\ \A q \in Procs \ {p} : work'[q] = work[q]
    BY <1>1, <1>3, <2>1, GotoWork DEF StopClose, Labels, Ending
  <2>3. /\ sess' \in [Sessions -> Session] /\ open' \subseteq open /\ slot' = None
        /\ \A x \in Sessions : sess'[x].ch = sess[x].ch
    BY <1>3, <2>1, EndSess DEF StopClose
  <2>4. ChannelsKept
    BY <2>3 DEF ChannelsKept
  <2>5. UsedOK'
    BY <1>3, <2>1, <2>2, <2>3, <2>4, UsedKept DEF StopClose, SocketsKept
  <2>6. Plain'
    BY <1>1, <1>3, <2>2, <2>3 DEF StopClose, Plain
  <2> QED
    BY <2>5, <2>6, PlainNext
<1>4. CASE Unlink(p)
  <2>1. Finish(p) /\ UNCHANGED <<sess, open, slot, dialog, speech>>
    BY <1>4 DEF Unlink
  <2>2. entry' = None /\ gauge' \in Int /\ displaced' \subseteq Sessions
    BY <1>1, <1>4 DEF Unlink, LoadAndDelete, Displaces, Plain
  <2>3. Goto(p, "idle", None)
    BY <2>1 DEF Finish
  <2>4. work' \in [Procs -> Work] /\ work'[p].pc = "idle" /\ \A q \in Procs \ {p} : work'[q] = work[q]
    BY <1>1, <2>3, GotoWork DEF Labels
  <2>5. sock' \in [Sockets -> Socket] /\ SocketsKept
    BY <1>1, <2>1, FinishSock DEF SocketsKept
  <2>6. ChannelsKept /\ \A s \in Sessions : sess'[s].ch = sess[s].ch
    BY <1>1, <2>1 DEF ChannelsKept, Plain
  <2>7. UsedOK'
    BY <2>1, <2>2, <2>4, <2>5, <2>6, UsedKept DEF Ending
  <2>8. Plain'
    BY <1>1, <2>1, <2>2, <2>4, <2>5 DEF Plain
  <2> QED
    BY <2>7, <2>8, PlainNext
<1> QED
  BY <1>2, <1>3, <1>4 DEF Stop

LEMMA CleanTyped == ASSUME Typed, Clean PROVE Typed'
<1> USE DEF map, dialog, speech
<1>1. Cleaner \in Procs /\ Plain
  BY PlainTyped DEF Procs
<1>2. CASE CleanSee
  <2>1. UNCHANGED <<map, sock, dialog, speech>>
    BY <1>2 DEF CleanSee
  <2>2. entry \in Sessions /\ Made(sess, entry)
    BY <1>2 DEF CleanSee, Typed, UsedOK, Made
  <2>3. /\ work' \in [Procs -> Work] /\ work'[Cleaner].s = entry
        /\ \A q \in Procs \ {Cleaner} : work'[q] = work[q]
    BY <1>1, <1>2, <2>2, GotoWork DEF CleanSee, Labels, Ending
  <2>4. ChannelsKept /\ \A s \in Sessions : sess'[s].ch = sess[s].ch
    BY <1>1, <2>1 DEF ChannelsKept, Plain
  <2>5. UsedOK'
    BY <2>1, <2>2, <2>3, <2>4, UsedKept DEF SocketsKept
  <2>6. Plain'
    BY <1>1, <2>1, <2>3 DEF Plain
  <2> QED
    BY <2>5, <2>6, PlainNext
<1>3. CASE CleanDelete
  <2>1. UNCHANGED <<sess, open, slot, sock, dialog, speech>>
    BY <1>3 DEF CleanDelete
  <2>2. entry' = None /\ gauge' \in Int /\ displaced' \subseteq Sessions
    BY <1>1, <1>3 DEF CleanDelete, LoadAndDelete, Displaces, Plain
  <2>3. work[Cleaner].pc = "delete" /\ Made(sess, work[Cleaner].s) /\ work[Cleaner].s \in Sessions
    BY <1>1, <1>3 DEF CleanDelete, At, Typed, UsedOK, Ending, Made
  <2>4. /\ work' \in [Procs -> Work] /\ work'[Cleaner].s = work[Cleaner].s
        /\ \A q \in Procs \ {Cleaner} : work'[q] = work[q]
    BY <1>1, <1>3, <2>3, GotoWork DEF CleanDelete, Labels, Ending
  <2>5. ChannelsKept /\ \A s \in Sessions : sess'[s].ch = sess[s].ch
    BY <1>1, <2>1 DEF ChannelsKept, Plain
  <2>6. UsedOK'
    BY <2>1, <2>2, <2>3, <2>4, <2>5, UsedKept DEF SocketsKept
  <2>7. Plain'
    BY <1>1, <2>1, <2>2, <2>4 DEF Plain
  <2> QED
    BY <2>6, <2>7, PlainNext
<1>4. CASE CleanClose
  <2>1. work[Cleaner].s \in Sessions
    BY <1>1, <1>4 DEF CleanClose, At, Typed, UsedOK, Ending, Made
  <2>2. /\ work' \in [Procs -> Work] /\ work'[Cleaner].pc = "idle"
        /\ \A q \in Procs \ {Cleaner} : work'[q] = work[q]
    BY <1>1, <1>4, GotoWork DEF CleanClose, Labels
  <2>3. /\ sess' \in [Sessions -> Session] /\ open' \subseteq open /\ slot' = None
        /\ \A x \in Sessions : sess'[x].ch = sess[x].ch
    BY <1>4, <2>1, EndSess DEF CleanClose
  <2>4. ChannelsKept
    BY <2>3 DEF ChannelsKept
  <2>5. UsedOK'
    BY <1>4, <2>2, <2>3, <2>4, UsedKept DEF CleanClose, SocketsKept, Ending
  <2>6. Plain'
    BY <1>1, <1>4, <2>2, <2>3 DEF CleanClose, Plain
  <2> QED
    BY <2>5, <2>6, PlainNext
<1> QED
  BY <1>2, <1>3, <1>4 DEF Clean

\* Time, questions, answers, and what the core does to a channel.
LEMMA CoreTyped ==
  ASSUME Typed, Age \/ Ask \/ CoreCloses \/ \E s \in Sessions : Answer(s) \/ CoreRecalls(s)
  PROVE  Typed'
<1> USE DEF map, dialog, speech
<1>1. Plain /\ (entry # None => entry \in Sessions)
  BY PlainTyped DEF Plain
<1>2. CASE Age
  <2>1. ChannelsKept /\ \A s \in Sessions : sess'[s].ch = sess[s].ch
    BY <1>1, <1>2, MarkSess DEF Age, ChannelsKept
  <2>2. UsedOK'
    BY <1>2, <2>1, UsedKept DEF Age, SocketsKept
  <2>3. Plain'
    BY <1>1, <1>2, <2>1 DEF Age, Plain, ChannelsKept
  <2> QED
    BY <2>2, <2>3, PlainNext
<1>3. CASE Ask
  <2>1. ChannelsKept /\ \A s \in Sessions : sess'[s].ch = sess[s].ch
    BY <1>1, <1>3, MarkSess DEF Ask, Touch, ChannelsKept
  <2>2. asked' \in 0..MaxAnswers /\ asked + 1 \in Answers
    BY <1>1, <1>3, SessionAssumption DEF Ask, Plain, Answers
  <2>3. rx' \in [Sessions -> Seq(Answers)]
    BY <1>1, <1>3, <2>2 DEF Ask, Open, Plain
  <2>4. UsedOK'
    BY <1>3, <2>1, UsedKept DEF Ask, SocketsKept
  <2>5. Plain'
    BY <1>1, <1>3, <2>1, <2>2, <2>3 DEF Ask, Plain, ChannelsKept
  <2> QED
    BY <2>4, <2>5, PlainNext
<1>4. CASE CoreCloses
  <2>1. ChannelsKept /\ \A s \in Sessions : sess'[s].ch = sess[s].ch
    BY <1>1, <1>4 DEF CoreCloses, Plain, ChannelsKept
  <2>2. UsedOK'
    BY <1>4, <2>1, UsedKept DEF CoreCloses, SocketsKept
  <2>3. Plain'
    BY <1>1, <1>4 DEF CoreCloses, Plain
  <2> QED
    BY <2>2, <2>3, PlainNext
<1>5. ASSUME NEW s \in Sessions, Answer(s) PROVE Typed'
  <2>1. UNCHANGED <<map, work, sock, asked, speech>> /\ sess[s].ch \in Sessions
    BY <1>1, <1>5 DEF Answer, Listening, Open, Plain
  <2>2. rx[sess[s].ch] \in Seq(Answers) /\ rx[sess[s].ch] # <<>>
    BY <1>1, <1>5, <2>1 DEF Answer, Plain
  <2>3. Head(rx[sess[s].ch]) \in Answers /\ Tail(rx[sess[s].ch]) \in Seq(Answers)
    BY <2>2
  <2>4. rx' \in [Sessions -> Seq(Answers)]
    BY <1>1, <1>5, <2>3 DEF Answer, Plain
  <2>5. tx' \in [Sessions -> Seq(Answers)]
    <3>1. Append(tx[sess[s].ch], Head(rx[sess[s].ch])) \in Seq(Answers)
      BY <1>1, <2>1, <2>3 DEF Plain
    <3> QED
      BY <1>1, <1>5, <2>1, <3>1 DEF Answer, Plain
  <2>6. ChannelsKept /\ \A x \in Sessions : sess'[x].ch = sess[x].ch
    BY <1>1, <2>1 DEF Plain, ChannelsKept
  <2>7. UsedOK'
    BY <2>1, <2>6, UsedKept DEF SocketsKept
  <2>8. Plain'
    BY <1>1, <2>1, <2>4, <2>5 DEF Plain
  <2> QED
    BY <2>7, <2>8, PlainNext
<1>6. ASSUME NEW s \in Sessions, CoreRecalls(s) PROVE Typed'
  <2>1. ChannelsKept /\ \A x \in Sessions : sess'[x].ch = sess[x].ch
    BY <1>1, <1>6 DEF CoreRecalls, Plain, ChannelsKept
  <2>2. UsedOK'
    BY <1>6, <2>1, UsedKept DEF CoreRecalls, SocketsKept
  <2>3. slot' \in Sessions
    BY <1>1, <1>6 DEF CoreRecalls, Plain, Session
  <2>4. Plain'
    BY <1>1, <1>6, <2>3 DEF CoreRecalls, Plain
  <2> QED
    BY <2>2, <2>4, PlainNext
<1> QED
  BY <1>2, <1>3, <1>4, <1>5, <1>6

\* What the goroutines of a socket do to it: the pump ends with nothing in its hand,
\* and once it has ended nothing comes into messageBuffer or the channel.
SockEffect(w) ==
    /\ sock' \in [Sockets -> Socket] /\ \A v \in Sockets \ {w} : sock'[v] = sock[v]
    /\ sock'[w].ch = sock[w].ch
    /\ (sock'[w].pump => sock[w].pump) /\ (sock[w].done => sock'[w].done)
    /\ (sock[w].pump /\ ~sock'[w].pump =>
           sock'[w].hand = None /\ (sock[w].done \/ Drained(w)))
    /\ (~sock[w].pump /\ sock[w].hand = None =>
           sock'[w].hand = None /\ (sock[w].inbuf = <<>> => sock'[w].inbuf = <<>>))
    /\ tx' \in [Sessions -> Seq(Answers)]
    /\ \A s \in Sessions : tx[s] = <<>> => tx'[s] = <<>>

\* ... and to the handler.
WorkEffect(w) ==
    /\ work' \in [Procs -> Work] /\ \A q \in Procs \ {w} : work'[q] = work[q]
    /\ \/ work'[w] = work[w]
       \/ work'[w].pc \in {"drain", "stopLoad"}
       \/ work'[w].pc = "status" /\ ~sock[w].pump /\ sock[w].inbuf = <<>> /\ UNCHANGED sock

LEMMA SockStays ==
  ASSUME Typed, NEW w \in Sockets, UNCHANGED <<sock, tx>> PROVE SockEffect(w)
BY PlainTyped DEF SockEffect, Plain

LEMMA HandleEffect ==
  ASSUME Typed, NEW w \in Sockets, Handle(w)
  PROVE  UNCHANGED <<map, asked, rx, speech>> /\ SockEffect(w) /\ WorkEffect(w)
<1> USE DEF dialog
<1>1. /\ w \in Procs /\ sock[w] \in Socket /\ tx \in [Sessions -> Seq(Answers)]
      /\ work \in [Procs -> Work] /\ Here(w) = sock[w]
  BY PlainTyped DEF Procs, Plain, Here
<1>2. UNCHANGED work => WorkEffect(w)
  BY <1>1 DEF WorkEffect
<1>3. ASSUME NEW r \in Socket, Set(w, r), UNCHANGED tx, r.ch = sock[w].ch, r.pump = sock[w].pump,
             sock[w].done => r.done, r.hand = sock[w].hand,
             sock[w].inbuf = <<>> => r.inbuf = <<>>
      PROVE  SockEffect(w)
  BY <1>1, <1>3, SetSock DEF SockEffect
<1>4. CASE ReadMessage(w)
  <2> DEFINE r == [sock[w] EXCEPT !.done = TRUE]
  <2>1. Set(w, r) /\ UNCHANGED <<map, work, dialog, speech>>
    BY <1>1, <1>4 DEF ReadMessage
  <2>2. /\ r \in Socket /\ r.ch = sock[w].ch /\ r.pump = sock[w].pump /\ r.done = TRUE
        /\ r.hand = sock[w].hand /\ r.inbuf = sock[w].inbuf
    BY <1>1 DEF Socket
  <2> HIDE DEF r
  <2> QED
    BY <1>2, <1>3, <2>1, <2>2
<1>5. CASE PumpTake(w)
  <2> DEFINE ch == sock[w].ch
             r == [sock[w] EXCEPT !.hand = Head(tx[ch])]
  <2>1. /\ sock[w].pump /\ sock[w].hand = None /\ tx[ch] # <<>> /\ Set(w, r)
        /\ tx' = [tx EXCEPT ![ch] = Tail(@)] /\ UNCHANGED <<map, work, asked, rx, speech>>
    BY <1>1, <1>5 DEF PumpTake
  <2>2. ch \in Sessions
    BY <1>1, <2>1 DEF Typed, UsedOK, Made
  <2>3. Head(tx[ch]) \in Answers /\ Tail(tx[ch]) \in Seq(Answers)
    BY <1>1, <2>1, <2>2
  <2>4. r \in Socket /\ r.ch = sock[w].ch /\ r.pump = sock[w].pump /\ r.done = sock[w].done
    BY <1>1, <2>3 DEF Socket
  <2>5. /\ tx' \in [Sessions -> Seq(Answers)]
        /\ \A s \in Sessions : tx[s] = <<>> => tx'[s] = <<>>
    BY <1>1, <2>1, <2>2, <2>3
  <2> HIDE DEF r
  <2>6. /\ sock' \in [Sockets -> Socket] /\ sock'[w] = r
        /\ \A v \in Sockets \ {w} : sock'[v] = sock[v]
    BY <2>1, <2>4, SetSock
  <2>7. SockEffect(w)
    BY <2>1, <2>4, <2>5, <2>6 DEF SockEffect
  <2> QED
    BY <1>2, <2>1, <2>7
<1>6. CASE PumpPut(w)
  <2> DEFINE r == [sock[w] EXCEPT !.hand = None, !.inbuf = Append(@, sock[w].hand)]
  <2>1. sock[w].hand # None /\ Set(w, r) /\ UNCHANGED <<map, work, dialog, speech>>
    BY <1>1, <1>6 DEF PumpPut
  <2>2. sock[w].hand \in Answers /\ sock[w].inbuf \in Seq(Answers)
    BY <1>1, <2>1 DEF Socket
  <2>3. Append(sock[w].inbuf, sock[w].hand) \in Seq(Answers)
    BY <2>2
  <2>4. r \in Socket /\ r.ch = sock[w].ch /\ r.pump = sock[w].pump /\ r.done = sock[w].done
    BY <1>1, <2>3 DEF Socket
  <2> HIDE DEF r
  <2>5. /\ sock' \in [Sockets -> Socket] /\ sock'[w] = r
        /\ \A v \in Sockets \ {w} : sock'[v] = sock[v]
    BY <2>1, <2>4, SetSock
  <2>6. SockEffect(w)
    BY <1>1, <2>1, <2>4, <2>5 DEF SockEffect
  <2> QED
    BY <1>2, <2>1, <2>6
<1>7. CASE PumpStop(w)
  <2> DEFINE r == [sock[w] EXCEPT !.pump = FALSE]
  <2>1. /\ sock[w].hand = None /\ (sock[w].done \/ Drained(w)) /\ sock[w].pump
        /\ Set(w, r) /\ UNCHANGED <<map, work, dialog, speech>>
    BY <1>1, <1>7 DEF PumpStop
  <2>2. /\ r \in Socket /\ r.ch = sock[w].ch /\ r.done = sock[w].done
        /\ r.hand = sock[w].hand /\ r.inbuf = sock[w].inbuf
    BY <1>1 DEF Socket
  <2> HIDE DEF r
  <2>3. /\ sock' \in [Sockets -> Socket] /\ sock'[w] = r
        /\ \A v \in Sockets \ {w} : sock'[v] = sock[v]
    BY <2>1, <2>2, SetSock
  <2>4. SockEffect(w)
    BY <1>1, <2>1, <2>2, <2>3 DEF SockEffect
  <2> QED
    BY <1>2, <2>1, <2>4
<1>8. CASE Forward(w)
  <2> DEFINE rest == [sock[w] EXCEPT !.inbuf = Tail(@)]
             r == IF Len(sock[w].outbuf) < Buffer
                  THEN [rest EXCEPT !.outbuf = Append(@, Head(sock[w].inbuf))] ELSE rest
  <2>1. sock[w].inbuf # <<>> /\ Set(w, r) /\ UNCHANGED <<map, work, dialog, speech>>
    BY <1>1, <1>8 DEF Forward
  <2>2. sock[w].inbuf \in Seq(Answers) /\ sock[w].outbuf \in Seq(Answers \cup {ChannelClosed})
    BY <1>1 DEF Socket
  <2>3. /\ Head(sock[w].inbuf) \in Answers /\ Tail(sock[w].inbuf) \in Seq(Answers)
    BY <2>1, <2>2
  <2>4. Append(sock[w].outbuf, Head(sock[w].inbuf)) \in Seq(Answers \cup {ChannelClosed})
    BY <2>2, <2>3
  <2>5. /\ rest \in Socket /\ rest.ch = sock[w].ch /\ rest.pump = sock[w].pump
        /\ rest.done = sock[w].done /\ rest.hand = sock[w].hand /\ rest.outbuf = sock[w].outbuf
    BY <1>1, <2>3 DEF Socket
  <2> HIDE DEF rest
  <2>6. /\ r \in Socket /\ r.ch = sock[w].ch /\ r.pump = sock[w].pump
        /\ r.done = sock[w].done /\ r.hand = sock[w].hand
    BY <2>4, <2>5 DEF Socket
  <2> HIDE DEF r
  <2> QED
    BY <1>2, <1>3, <2>1, <2>6
<1>9. CASE Leave(w)
  <2> DEFINE r == [sock[w] EXCEPT !.outClosed = TRUE]
  <2>1. Set(w, r) /\ Goto(w, "drain", None) /\ UNCHANGED <<map, dialog, speech>>
    BY <1>1, <1>9 DEF Leave
  <2>2. /\ r \in Socket /\ r.ch = sock[w].ch /\ r.pump = sock[w].pump /\ r.done = sock[w].done
        /\ r.hand = sock[w].hand /\ r.inbuf = sock[w].inbuf
    BY <1>1 DEF Socket
  <2> HIDE DEF r
  <2>3. WorkEffect(w)
    BY <1>1, <2>1, GotoWork DEF WorkEffect, Labels, Serving
  <2> QED
    BY <1>3, <2>1, <2>2, <2>3
<1>10. CASE DrainDone(w)
  <2>1. WorkEffect(w)
    BY <1>1, <1>10, GotoWork DEF DrainDone, WorkEffect, Labels, Serving
  <2> QED
    BY <1>10, <2>1, SockStays DEF DrainDone
<1>11. CASE AnswersClosed(w)
  <2>1. WorkEffect(w)
    BY <1>1, <1>11, GotoWork DEF AnswersClosed, WorkEffect, Labels, Serving
  <2> QED
    BY <1>11, <2>1, SockStays DEF AnswersClosed
<1>12. CASE SendStatus(w)
  <2> DEFINE r == [sock[w] EXCEPT !.outbuf = Append(@, ChannelClosed), !.outClosed = TRUE]
  <2>1. Set(w, r) /\ Goto(w, "stopLoad", None) /\ UNCHANGED <<map, dialog, speech>>
    BY <1>1, <1>12 DEF SendStatus
  <2>2. Append(sock[w].outbuf, ChannelClosed) \in Seq(Answers \cup {ChannelClosed})
    BY <1>1 DEF Socket
  <2>3. /\ r \in Socket /\ r.ch = sock[w].ch /\ r.pump = sock[w].pump /\ r.done = sock[w].done
        /\ r.hand = sock[w].hand /\ r.inbuf = sock[w].inbuf
    BY <1>1, <2>2 DEF Socket
  <2> HIDE DEF r
  <2>4. WorkEffect(w)
    BY <1>1, <2>1, GotoWork DEF WorkEffect, Labels, Serving
  <2> QED
    BY <1>3, <2>1, <2>3, <2>4
<1>13. CASE Send(w)
  <2>1. UNCHANGED <<map, work, dialog, speech>>
    BY <1>13 DEF Send
  <2>2. CASE sock[w].outbuf # <<>> /\ Set(w, [sock[w] EXCEPT !.outbuf = Tail(@)])
    <3> DEFINE r == [sock[w] EXCEPT !.outbuf = Tail(@)]
    <3>1. sock[w].outbuf \in Seq(Answers \cup {ChannelClosed})
      BY <1>1 DEF Socket
    <3>2. Tail(sock[w].outbuf) \in Seq(Answers \cup {ChannelClosed})
      BY <2>2, <3>1
    <3>3. /\ r \in Socket /\ r.ch = sock[w].ch /\ r.pump = sock[w].pump /\ r.done = sock[w].done
          /\ r.hand = sock[w].hand /\ r.inbuf = sock[w].inbuf
      BY <1>1, <3>2 DEF Socket
    <3>4. Set(w, r)
      BY <2>2
    <3> HIDE DEF r
    <3> QED
      BY <1>2, <1>3, <2>1, <3>3, <3>4
  <2>3. CASE Set(w, [sock[w] EXCEPT !.sender = FALSE])
    <3> DEFINE r == [sock[w] EXCEPT !.sender = FALSE]
    <3>1. /\ r \in Socket /\ r.ch = sock[w].ch /\ r.pump = sock[w].pump /\ r.done = sock[w].done
          /\ r.hand = sock[w].hand /\ r.inbuf = sock[w].inbuf
      BY <1>1 DEF Socket
    <3>2. Set(w, r)
      BY <2>3
    <3> HIDE DEF r
    <3> QED
      BY <1>2, <1>3, <2>1, <3>1, <3>2
  <2> QED
    BY <1>1, <1>13, <2>2, <2>3 DEF Send
<1> QED
  BY <1>4, <1>5, <1>6, <1>7, <1>8, <1>9, <1>10, <1>11, <1>12, <1>13 DEF Handle

LEMMA HandleTyped == ASSUME Typed, NEW w \in Sockets, Handle(w) PROVE Typed'
<1>1. UNCHANGED <<map, asked, rx, speech>> /\ SockEffect(w) /\ WorkEffect(w) /\ Plain
  BY HandleEffect, PlainTyped
<1>2. ChannelsKept /\ \A s \in Sessions : sess'[s].ch = sess[s].ch
  BY <1>1 DEF ChannelsKept, Plain, map
<1>3. SocketsKept
  BY <1>1 DEF SockEffect, SocketsKept
<1>4. UsedOK'
  BY <1>1, <1>2, <1>3, UsedKept DEF WorkEffect, Ending, map
<1>5. Plain'
  BY <1>1 DEF Plain, WorkEffect, SockEffect, map, speech
<1> QED
  BY <1>4, <1>5, PlainNext

\* A new connection reads from the channel of the session in the map.
LEMMA ConnectSock ==
  ASSUME Typed, NEW w \in Sockets, Connect(w)
  PROVE  /\ sock' \in [Sockets -> Socket] /\ \A v \in Sockets \ {w} : sock'[v] = sock[v]
         /\ sock'[w].ch = sess[entry].ch /\ sock'[w].pump /\ sock'[w].inbuf = <<>>
         /\ entry \in Sessions /\ Touch(entry) /\ Goto(w, "serve", None)
         /\ work[w].pc = "idle"
<1> DEFINE r == [NoSocket EXCEPT !.conn = "up", !.ch = sess[entry].ch, !.done = FALSE,
                                 !.pump = TRUE, !.sender = TRUE, !.outClosed = FALSE]
<1>1. entry \in Sessions /\ sess[entry].ch \in Sessions
  BY DEF Connect, Typed, UsedOK, Made
<1>2. NoSocket \in Socket /\ NoSocket.inbuf = <<>>
  BY DEF NoSocket, Socket
<1>3. r \in Socket /\ r.ch = sess[entry].ch /\ r.pump = TRUE /\ r.inbuf = <<>>
  BY <1>1, <1>2 DEF Socket
<1>4. Set(w, r)
  BY DEF Connect
<1> HIDE DEF r
<1> QED
  BY <1>1, <1>3, <1>4, SetSock DEF Connect, At

LEMMA ClientTyped ==
  ASSUME Typed, NEW w \in Sockets, Connect(w) \/ ClientLeaves(w) PROVE Typed'
<1> USE DEF map, dialog, speech
<1>1. Plain /\ w \in Procs
  BY PlainTyped DEF Procs
<1>2. CASE ClientLeaves(w)
  <2> DEFINE r == [sock[w] EXCEPT !.conn = "down"]
  <2>1. Set(w, r) /\ UNCHANGED <<map, work, dialog, speech>>
    BY <1>2 DEF ClientLeaves, Here
  <2>2. r \in Socket /\ r.ch = sock[w].ch /\ r.pump = sock[w].pump /\ r.done = sock[w].done
    BY <1>1 DEF Plain, Socket
  <2> HIDE DEF r
  <2>3. sock' \in [Sockets -> Socket] /\ SocketsKept
    BY <2>1, <2>2, SetSock DEF SocketsKept
  <2>4. ChannelsKept /\ \A s \in Sessions : sess'[s].ch = sess[s].ch
    BY <1>1, <2>1 DEF ChannelsKept, Plain
  <2>5. UsedOK'
    BY <2>1, <2>3, <2>4, UsedKept
  <2>6. Plain'
    BY <1>1, <2>1, <2>3 DEF Plain
  <2> QED
    BY <2>5, <2>6, PlainNext
<1>3. CASE Connect(w)
  <2>1. /\ sock' \in [Sockets -> Socket] /\ \A v \in Sockets \ {w} : sock'[v] = sock[v]
        /\ sock'[w].ch = sess[entry].ch
        /\ entry \in Sessions /\ Touch(entry) /\ Goto(w, "serve", None)
    BY <1>3, ConnectSock
  <2>2. /\ sess' \in [Sessions -> Session]
        /\ \A x \in Sessions : sess'[x].ch = sess[x].ch
    BY <2>1, MarkSess DEF Touch
  <2>3. /\ work' \in [Procs -> Work] /\ work'[w].pc = "serve"
        /\ \A q \in Procs \ {w} : work'[q] = work[q]
    BY <1>1, <2>1, GotoWork DEF Labels, Serving
  <2>4. UNCHANGED <<entry, open, slot, tally, dialog, speech>> /\ entry # None
    BY <1>3 DEF Connect
  <2>5. \A s : Made(sess', s) <=> Made(sess, s)
    BY <2>2 DEF Made
  <2>6. \A v \in Sockets : sock'[v].pump \/ ~sock'[v].done => Made(sess', sock'[v].ch)
    BY <2>1, <2>4, <2>5 DEF Typed, UsedOK, Here, Made
  <2>7. \A q \in Procs : work'[q].pc \in {"drop", "store"} \cup Ending => Made(sess', work'[q].s)
    BY <2>3, <2>5 DEF Typed, UsedOK, Ending
  <2>8. /\ entry' # None => Made(sess', entry')
        /\ \A s \in open' : Made(sess', s)
        /\ \A s \in Sessions : Made(sess', s) => Made(sess', sess'[s].ch)
    BY <2>2, <2>4, <2>5 DEF Typed, UsedOK
  <2>9. UsedOK'
    BY <2>6, <2>7, <2>8 DEF UsedOK, Here
  <2>10. Plain'
    BY <1>1, <2>1, <2>2, <2>3, <2>4 DEF Plain
  <2> QED
    BY <2>9, <2>10, PlainNext
<1> QED
  BY <1>2, <1>3

\* Calls have nothing in common with dialogs.
LEMMA VoiceEffect ==
  ASSUME Typed,
         \/ \E v \in Voices : StartRealtimeSession(v) \/ VoiceLeaves(v) \/ Speak(v)
         \/ VoiceFails
  PROVE  /\ UNCHANGED <<map, work, sock, dialog>>
         /\ voice' \in [Voices -> Voice] /\ rt' \in Voices \cup {None}
<1>1. voice \in [Voices -> Voice] /\ rt \in Voices \cup {None}
  BY PlainTyped DEF Plain
<1>2. ASSUME NEW v \in Voices, NEW pc \in {"idle", "serve", "wait", "close"},
             NEW conn \in {"off", "up", "down"}, NEW b \in BOOLEAN, SetVoice(v, pc, conn, b)
      PROVE  voice' \in [Voices -> Voice]
  BY <1>1, <1>2 DEF SetVoice, Voice
<1>3. \A v \in Voices : /\ voice[v].pc \in {"idle", "serve", "wait", "close"}
                        /\ voice[v].conn \in {"off", "up", "down"} /\ voice[v].sender \in BOOLEAN
  BY <1>1 DEF Voice
<1>4. ASSUME NEW v \in Voices, StartRealtimeSession(v)
      PROVE  UNCHANGED <<map, work, sock, dialog>> /\ voice' \in [Voices -> Voice] /\ rt' \in {v, rt}
  BY <1>2, <1>4 DEF StartRealtimeSession
<1>5. ASSUME NEW v \in Voices, VoiceLeaves(v)
      PROVE  UNCHANGED <<map, work, sock, dialog>> /\ voice' \in [Voices -> Voice] /\ rt' = rt
  BY <1>2, <1>3, <1>5 DEF VoiceLeaves
<1>6. ASSUME NEW v \in Voices, ReadVoice(v)
      PROVE  UNCHANGED <<map, work, sock, dialog>> /\ voice' \in [Voices -> Voice] /\ rt' = rt
  BY <1>2, <1>3, <1>6 DEF ReadVoice
<1>7. ASSUME NEW v \in Voices, SendVoice(v)
      PROVE  UNCHANGED <<map, work, sock, dialog>> /\ voice' \in [Voices -> Voice] /\ rt' = rt
  BY <1>2, <1>3, <1>7 DEF SendVoice
<1>8. ASSUME NEW v \in Voices, VoiceSent(v)
      PROVE  UNCHANGED <<map, work, sock, dialog>> /\ voice' \in [Voices -> Voice] /\ rt' = rt
  BY <1>2, <1>3, <1>8 DEF VoiceSent
<1>9. ASSUME NEW v \in Voices, StopRealtimeSession(v)
      PROVE  UNCHANGED <<map, work, sock, dialog>> /\ voice' \in [Voices -> Voice] /\ rt' = None
  BY <1>2, <1>3, <1>9 DEF StopRealtimeSession
<1>10. ASSUME VoiceFails
       PROVE  UNCHANGED <<map, work, sock, dialog>> /\ voice' = voice /\ rt' = None
  BY <1>10 DEF VoiceFails
<1> QED
  BY <1>1, <1>4, <1>5, <1>6, <1>7, <1>8, <1>9, <1>10 DEF Speak

\* A step that leaves the dialogs alone.
LEMMA QuietTyped ==
  ASSUME Typed, UNCHANGED <<map, work, sock, dialog>>,
         voice' \in [Voices -> Voice], rt' \in Voices \cup {None}
  PROVE  Typed'
<1> USE DEF map, dialog
<1>1. Plain
  BY PlainTyped
<1>2. ChannelsKept /\ \A s \in Sessions : sess'[s].ch = sess[s].ch
  BY <1>1 DEF ChannelsKept, Plain
<1>3. UsedOK'
  BY <1>2, UsedKept DEF SocketsKept
<1>4. Plain'
  BY <1>1 DEF Plain
<1> QED
  BY <1>3, <1>4, PlainNext

LEMMA NextTyped == Typed /\ [Next]_vars => Typed'
<1> SUFFICES ASSUME Typed, [Next]_vars PROVE Typed'
  OBVIOUS
<1>1. CASE UNCHANGED vars
  <2>1. voice \in [Voices -> Voice] /\ rt \in Voices \cup {None}
    BY PlainTyped DEF Plain
  <2> QED
    BY <1>1, <2>1, QuietTyped DEF vars, speech
<1>2. ASSUME \/ \E v \in Voices : StartRealtimeSession(v) \/ VoiceLeaves(v) \/ Speak(v)
             \/ VoiceFails
      PROVE  Typed'
  BY <1>2, VoiceEffect, QuietTyped
<1> QED
  BY <1>1, <1>2, StartTyped, StopTyped, CleanTyped, CoreTyped, HandleTyped, ClientTyped DEF Next

\* Whatever starts, stops, clients and the core do, every goroutine has a session
\* with a channel where its step uses one, and no channel is made twice.
THEOREM SessionTypeCorrect == Spec => []TypeOK
<1>1. Typed => TypeOK
  BY DEF Typed
<1> QED
  BY <1>1, InitTyped, NextTyped, PTL DEF Spec

-----------------------------------------------------------------------------
(* The closing status. *)

\* The pump ends with empty hands and, while the client is there, only when the
\* channel is closed and empty; the handler looks at the pump before messageBuffer.
PumpOver(w) ==
    /\ ~Here(w).pump => Here(w).hand = None
    /\ ~Here(w).pump /\ ~Here(w).done => Drained(w)
    /\ At(w, "status") => ~Here(w).pump /\ Here(w).inbuf = <<>>
PumpsOK == \A w \in Sockets : PumpOver(w)

\* A closed channel stays closed, and an empty one that is closed stays empty.
LEMMA ClosedStays ==
  ASSUME Typed, [Next]_vars, NEW x \in Sessions, Made(sess, x), x \notin open
  PROVE  x \notin open' /\ (tx[x] = <<>> => tx'[x] = <<>>)
<1> USE DEF map, dialog, speech
<1>1. ASSUME NEW p \in Requests, Start(p) PROVE x \notin open' /\ tx' = tx
  <2>1. CASE Create(p)
    <3>1. tx' = tx
      BY <2>1 DEF Create
    <3>2. CASE work'[p].pc # "idle"
      BY <2>1, <3>1, <3>2, CreateSess DEF Made
    <3>3. CASE work'[p].pc = "idle"
      <4>1. p \in Procs
        BY DEF Procs
      <4>2. ASSUME NEW s \in Unused, Goto(p, "store", s) PROVE FALSE
        BY <3>3, <4>1, <4>2, GotoWork DEF Unused, Labels, Starting
      <4> QED
        BY <2>1, <3>1, <4>2 DEF Create
    <3> QED
      BY <3>2, <3>3
  <2> QED
    BY <1>1, <2>1 DEF Start, StartSession, Drop, Store
<1>2. ASSUME NEW p \in Requests \cup Sockets, Stop(p) PROVE open' \subseteq open /\ tx' = tx
  BY <1>2 DEF Stop, StopSession, StopClose, Unlink, EndSession
<1>3. Clean => open' \subseteq open /\ tx' = tx
  BY DEF Clean, CleanSee, CleanDelete, CleanClose, EndSession
<1>4. Age \/ Ask \/ CoreCloses => open' \subseteq open /\ tx' = tx
  BY DEF Age, Ask, CoreCloses
<1>5. ASSUME NEW s \in Sessions, Answer(s) PROVE open' = open /\ tx'[x] = tx[x]
  <2>1. sess[s].ch \in open /\ tx' = [tx EXCEPT ![sess[s].ch] = Append(@, Head(rx[sess[s].ch]))]
    BY <1>5 DEF Answer, Listening, Open
  <2>2. tx \in [Sessions -> Seq(Answers)]
    BY DEF Typed, TypeOK
  <2> QED
    BY <1>5, <2>1, <2>2 DEF Answer
<1>6. ASSUME NEW s \in Sessions, CoreRecalls(s) PROVE open' = open /\ tx' = tx
  BY <1>6 DEF CoreRecalls
<1>7. ASSUME NEW w \in Sockets, Connect(w) \/ ClientLeaves(w) PROVE open' = open /\ tx' = tx
  BY <1>7 DEF Connect, ClientLeaves
<1>8. ASSUME NEW w \in Sockets, Handle(w) PROVE open' = open /\ (tx[x] = <<>> => tx'[x] = <<>>)
  BY <1>8, HandleEffect DEF SockEffect
<1>9. ASSUME \/ \E v \in Voices : StartRealtimeSession(v) \/ VoiceLeaves(v) \/ Speak(v)
             \/ VoiceFails
      PROVE  open' = open /\ tx' = tx
  BY <1>9, VoiceEffect
<1>10. UNCHANGED vars => open' = open /\ tx' = tx
  BY DEF vars
<1> QED
  BY <1>1, <1>2, <1>3, <1>4, <1>5, <1>6, <1>7, <1>8, <1>9, <1>10 DEF Next

LEMMA NoStatus ==
  ASSUME Typed, NEW p \in Procs, NEW l \in Labels \ {"status"}, NEW s, Goto(p, l, s)
  PROVE  \A q \in Procs : work'[q].pc = "status" => work[q].pc = "status"
BY DEF Goto, Typed, TypeOK

SockSame(w) ==
    /\ sock'[w].ch = sock[w].ch /\ sock'[w].done = sock[w].done
    /\ sock'[w].pump = sock[w].pump /\ sock'[w].hand = sock[w].hand
    /\ sock'[w].inbuf = sock[w].inbuf
    /\ work'[w].pc = "status" => work[w].pc = "status"

\* Only the goroutines of a socket and a new connection change it, but for the
\* state of the connection.
LEMMA SockSteps ==
  ASSUME Typed, [Next]_vars, NEW w \in Sockets
  PROVE  SockSame(w) \/ Handle(w) \/ Connect(w)
<1> USE DEF map, dialog, speech
<1>1. w \in Procs /\ Cleaner \in Procs
  BY DEF Procs
<1>2. ASSUME NEW p \in Requests, Start(p) PROVE SockSame(w)
  <2>1. p \in Procs /\ sock' = sock
    BY <1>2 DEF Procs, Start, StartSession, Drop, Create, Store
  <2>2. work' = work \/ \E l \in Labels \ {"status"} : \E s : Goto(p, l, s)
    BY <1>2, Zenon DEF Start, StartSession, Drop, Create, Store, Labels, Starting, Serving
  <2> QED
    BY <1>1, <2>1, <2>2, NoStatus DEF SockSame
<1>3. ASSUME NEW p \in Requests \cup Sockets, Stop(p) PROVE SockSame(w)
  <2>1. p \in Procs
    BY DEF Procs
  <2>2. ASSUME Finish(p) PROVE SockSame(w)
    <3>1. Goto(p, "idle", None)
      BY <2>2 DEF Finish
    <3>2. work'[w].pc = "status" => work[w].pc = "status"
      BY <1>1, <2>1, <3>1, NoStatus DEF Labels
    <3> QED
      BY <2>1, <2>2, <3>2, FinishSock DEF SockSame
  <2>3. ASSUME NEW l \in {"stopClose", "unlink"}, NEW s, Goto(p, l, s), UNCHANGED sock
        PROVE  SockSame(w)
    BY <1>1, <2>1, <2>3, NoStatus DEF SockSame, Labels, Ending
  <2> QED
    BY <1>3, <2>2, <2>3 DEF Stop, StopSession, StopClose, Unlink
<1>4. ASSUME Clean PROVE SockSame(w)
  <2>1. sock' = sock
    BY <1>4 DEF Clean, CleanSee, CleanDelete, CleanClose
  <2>2. \E l \in {"delete", "close", "idle"} : \E s : Goto(Cleaner, l, s)
    BY <1>4, Zenon DEF Clean, CleanSee, CleanDelete, CleanClose
  <2> QED
    BY <1>1, <2>1, <2>2, NoStatus DEF SockSame, Labels, Ending
<1>5. ASSUME Age \/ Ask \/ CoreCloses \/ \E s \in Sessions : Answer(s) \/ CoreRecalls(s)
      PROVE  SockSame(w)
  BY <1>5 DEF Age, Ask, CoreCloses, Answer, CoreRecalls, SockSame
<1>6. ASSUME NEW v \in Sockets, ClientLeaves(v) PROVE SockSame(w)
  <2> DEFINE r == [sock[v] EXCEPT !.conn = "down"]
  <2>1. Set(v, r) /\ work' = work
    BY <1>6 DEF ClientLeaves, Here
  <2>2. /\ r \in Socket /\ r.ch = sock[v].ch /\ r.pump = sock[v].pump /\ r.done = sock[v].done
        /\ r.hand = sock[v].hand /\ r.inbuf = sock[v].inbuf
    BY DEF Typed, TypeOK, Socket
  <2> HIDE DEF r
  <2> QED
    BY <2>1, <2>2, SetSock DEF SockSame
<1>7. ASSUME NEW v \in Sockets, v # w, Handle(v) PROVE SockSame(w)
  BY <1>1, <1>7, HandleEffect DEF SockEffect, WorkEffect, SockSame
<1>8. ASSUME NEW v \in Sockets, v # w, Connect(v) PROVE SockSame(w)
  <2>1. v \in Procs /\ Goto(v, "serve", None) /\ sock'[w] = sock[w]
    BY <1>8, ConnectSock DEF Procs
  <2> QED
    BY <1>1, <2>1, NoStatus DEF SockSame, Labels, Serving
<1>9. ASSUME \/ \E v \in Voices : StartRealtimeSession(v) \/ VoiceLeaves(v) \/ Speak(v)
             \/ VoiceFails
             \/ UNCHANGED vars
      PROVE  SockSame(w)
  BY <1>9, VoiceEffect DEF SockSame, vars
<1> QED
  BY <1>2, <1>3, <1>4, <1>5, <1>6, <1>7, <1>8, <1>9 DEF Next

LEMMA PumpsStep == Typed /\ PumpsOK /\ [Next]_vars => PumpsOK'
<1> SUFFICES ASSUME Typed, PumpsOK, [Next]_vars, NEW w \in Sockets
             PROVE  /\ ~sock'[w].pump => sock'[w].hand = None
                    /\ ~sock'[w].pump /\ ~sock'[w].done =>
                         sock'[w].ch \notin open' /\ tx'[sock'[w].ch] = <<>>
                    /\ work'[w].pc = "status" => ~sock'[w].pump /\ sock'[w].inbuf = <<>>
  BY DEF PumpsOK, PumpOver, Here, At, Drained
<1>1. /\ ~sock[w].pump => sock[w].hand = None
      /\ ~sock[w].pump /\ ~sock[w].done => Drained(w)
      /\ work[w].pc = "status" => ~sock[w].pump /\ sock[w].inbuf = <<>>
  BY DEF PumpsOK, PumpOver, Here, At
<1>2. ASSUME Drained(w), ~sock[w].done, sock'[w].ch = sock[w].ch
      PROVE  sock'[w].ch \notin open' /\ tx'[sock'[w].ch] = <<>>
  <2>1. PICK x : x = sock[w].ch
    OBVIOUS
  <2>2. Made(sess, x) /\ x \notin open /\ tx[x] = <<>> /\ x \in Sessions
    BY <1>2, <2>1 DEF Drained, Here, Typed, UsedOK, Made
  <2> QED
    BY <1>2, <2>1, <2>2, ClosedStays
<1>3. CASE SockSame(w)
  BY <1>1, <1>2, <1>3 DEF SockSame
<1>4. CASE Handle(w)
  <2>1. SockEffect(w) /\ WorkEffect(w)
    BY <1>4, HandleEffect
  <2>2. ~sock'[w].pump => sock'[w].hand = None
    BY <1>1, <2>1 DEF SockEffect
  <2>3. ASSUME ~sock'[w].pump, ~sock'[w].done
        PROVE  sock'[w].ch \notin open' /\ tx'[sock'[w].ch] = <<>>
    BY <1>1, <1>2, <2>1, <2>3 DEF SockEffect
  <2>4. ASSUME work'[w].pc = "status" PROVE ~sock'[w].pump /\ sock'[w].inbuf = <<>>
    <3>1. ~sock[w].pump /\ sock[w].inbuf = <<>>
      BY <1>1, <2>1, <2>4 DEF WorkEffect
    <3> QED
      BY <1>1, <2>1, <3>1 DEF SockEffect
  <2> QED
    BY <2>2, <2>3, <2>4
<1>5. CASE Connect(w)
  <2>1. w \in Procs
    BY DEF Procs
  <2>2. sock'[w].pump /\ work'[w].pc = "serve"
    BY <1>5, <2>1, ConnectSock, GotoWork DEF Labels, Serving
  <2> QED
    BY <2>2
<1> QED
  BY <1>3, <1>4, <1>5, SockSteps

\* Whatever the core, the pump and the handler do, and however small the buffers,
\* the closing status does not overtake an answer.
THEOREM StatusIsLast == Spec => []StatusLast
<1>1. Init => PumpsOK
  <2>1. NoSocket.pump = FALSE /\ NoSocket.done = TRUE /\ NoSocket.hand = None
    BY DEF NoSocket
  <2>2. Init => \A w \in Sockets : Here(w) = NoSocket /\ ~At(w, "status")
    BY DEF Init, Here, At, Procs
  <2> QED
    BY <2>1, <2>2 DEF PumpsOK, PumpOver
<1>2. PumpsOK => StatusLast
  BY DEF PumpsOK, PumpOver, Drained, StatusLast
<1> QED
  BY <1>1, <1>2, InitTyped, NextTyped, PumpsStep, PTL DEF Spec

-----------------------------------------------------------------------------
(* The session map. *)

\* When the entry of a session is deleted its context has been cancelled or is the
\* cleanup's to cancel, and a session found closed stays closed.
EndOK ==
    \A p \in Procs :
        /\ At(p, "unlink") => ~sess[work[p].s].live
        /\ At(p, "drop") => ~Open(work[p].s)

HeldInv == Typed /\ EndOK /\ SessionsHeld

\* A step of p brings no made session back to life; it takes a running one out of
\* the map only if p ends it or the step meant another, and ends what it holds.
LEMMA HeldKept ==
  ASSUME HeldInv, NEW p \in Procs,
         \A q \in Procs \ {p} : work'[q] = work[q],
         displaced \subseteq displaced',
         \A x \in Sessions : Made(sess, x) => /\ sess'[x].live => sess[x].live
                                              /\ sess'[x].ch \in open' => sess[x].ch \in open,
         \A x \in Sessions : ~Made(sess, x) => ~Listening(x)',
         work[p].pc = "store" => work'[p] = work[p] \/ entry' = work[p].s,
         \A x \in Sessions \ displaced' : entry = x /\ sess'[x].live /\ sess'[x].ch \in open' =>
             entry' = x \/ (work'[p].pc \in Ending /\ work'[p].s = x),
         \A x \in Sessions : work[p].pc \in Ending /\ work[p].s = x /\ sess'[x].live =>
             work'[p].pc \in Ending /\ work'[p].s = x,
         work'[p].pc = "unlink" => ~sess'[work'[p].s].live,
         work'[p].pc = "drop" => ~(sess'[work'[p].s].ch \in open'),
         displaced' = {} => gauge' = IF entry' = None THEN 0 ELSE 1
  PROVE  EndOK' /\ SessionsHeld'
<1>1. /\ \A q \in Procs : work[q].pc \in {"drop", "store"} \cup Ending => Made(sess, work[q].s)
      /\ EndOK /\ NoListenerLeft /\ Requests \subseteq Procs
  BY DEF HeldInv, SessionsHeld, Typed, UsedOK, Procs
<1>2. EndOK'
  <2> SUFFICES ASSUME NEW q \in Procs
               PROVE  /\ work'[q].pc = "unlink" => ~sess'[work'[q].s].live
                      /\ work'[q].pc = "drop" => ~(sess'[work'[q].s].ch \in open')
    BY DEF EndOK, At, Open
  <2>1. CASE q = p
    BY <2>1
  <2>2. CASE q # p
    <3>1. work'[q] = work[q]
      BY <2>2
    <3>2. work[q].pc = "unlink" => ~sess[work[q].s].live /\ Made(sess, work[q].s)
      BY <1>1 DEF EndOK, At, Ending
    <3>3. work[q].pc = "drop" => ~(sess[work[q].s].ch \in open) /\ Made(sess, work[q].s)
      BY <1>1 DEF EndOK, At, Open
    <3> QED
      BY <3>1, <3>2, <3>3 DEF Made
  <2> QED
    BY <2>1, <2>2
<1>3. GaugeExact'
  BY DEF GaugeExact
<1>4. NoListenerLeft'
  <2> SUFFICES ASSUME NEW x \in Sessions \ displaced', Listening(x)'
               PROVE  entry' = x \/ \E q \in Procs : work'[q].pc \in Ending /\ work'[q].s = x
    BY DEF NoListenerLeft
  <2>1. /\ Made(sess, x) /\ sess[x].live /\ sess[x].ch \in open /\ x \in Sessions \ displaced
        /\ sess'[x].live /\ sess'[x].ch \in open'
    BY DEF Listening, Open
  <2>2. \A q \in Requests : ~(work'[q].pc = "store" /\ work'[q].s = x)
    BY DEF Listening, At
  <2>3. ASSUME NEW q \in Requests, work[q].pc = "store", work[q].s = x PROVE entry' = x
    <3>1. q = p \/ work'[q] = work[q]
      BY <1>1
    <3> QED
      BY <2>2, <2>3, <3>1
  <2>4. CASE Listening(x)
    <3>1. entry = x \/ \E q \in Procs : work[q].pc \in Ending /\ work[q].s = x
      BY <1>1, <2>1, <2>4 DEF NoListenerLeft
    <3>2. CASE entry = x
      BY <2>1, <3>2
    <3>3. ASSUME NEW q \in Procs, work[q].pc \in Ending, work[q].s = x
          PROVE  \E r \in Procs : work'[r].pc \in Ending /\ work'[r].s = x
      BY <2>1, <3>3
    <3> QED
      BY <3>1, <3>2, <3>3
  <2>5. CASE ~Listening(x)
    <3>1. \E q \in Requests : work[q].pc = "store" /\ work[q].s = x
      BY <2>1, <2>5 DEF Listening, Open, At
    <3> QED
      BY <2>3, <3>1
  <2> QED
    BY <2>4, <2>5
<1> QED
  BY <1>2, <1>3, <1>4 DEF SessionsHeld

\* The sessions stay what they are, or end.
SessEnd ==
    /\ \A x \in Sessions : sess'[x].ch = sess[x].ch /\ (sess'[x].live => sess[x].live)
    /\ open' \subseteq open

\* What is not made has no channel and no listener.
LEMMA EndMakesNone ==
  ASSUME Typed, SessEnd
  PROVE  /\ \A x \in Sessions : Made(sess, x) => /\ sess'[x].live => sess[x].live
                                                 /\ sess'[x].ch \in open' => sess[x].ch \in open
         /\ \A x \in Sessions : ~Made(sess, x) => ~Listening(x)'
<1>1. None \notin open /\ open' \subseteq open
  BY SessionAssumption DEF Typed, TypeOK, SessEnd
<1>2. \A x \in Sessions : ~Made(sess, x) => ~(sess'[x].ch \in open')
  BY <1>1 DEF Made, SessEnd
<1> QED
  BY <1>1, <1>2 DEF SessEnd, Listening, Open

\* A step that stores, ends and deletes nothing.
LEMMA QuietHeld ==
  ASSUME HeldInv, NEW p \in Procs,
         \A q \in Procs \ {p} : work'[q] = work[q],
         SessEnd, UNCHANGED <<entry, tally>>,
         \/ work'[p] = work[p]
         \/ work[p].pc \notin {"store"} \cup Ending /\ work'[p].pc \notin {"unlink", "drop"}
  PROVE  EndOK' /\ SessionsHeld'
<1>1. Typed /\ EndOK /\ GaugeExact
  BY DEF HeldInv, SessionsHeld
<1>2. /\ \A x \in Sessions : Made(sess, x) => /\ sess'[x].live => sess[x].live
                                              /\ sess'[x].ch \in open' => sess[x].ch \in open
      /\ \A x \in Sessions : ~Made(sess, x) => ~Listening(x)'
  BY <1>1, EndMakesNone
<1>3. displaced' = {} => gauge' = IF entry' = None THEN 0 ELSE 1
  BY <1>1 DEF GaugeExact
<1>4. /\ work'[p].pc = "unlink" => ~sess'[work'[p].s].live
      /\ work'[p].pc = "drop" => ~(sess'[work'[p].s].ch \in open')
  <2>1. CASE work'[p] = work[p]
    <3>1. /\ work[p].pc = "unlink" => ~sess[work[p].s].live /\ work[p].s \in Sessions
          /\ work[p].pc = "drop" => ~(sess[work[p].s].ch \in open) /\ work[p].s \in Sessions
      BY <1>1 DEF EndOK, At, Open, Typed, UsedOK, Made, Ending
    <3> QED
      BY <2>1, <3>1 DEF SessEnd
  <2>2. CASE work'[p].pc \notin {"unlink", "drop"}
    BY <2>2
  <2> QED
    BY <2>1, <2>2
<1>5. /\ work[p].pc = "store" => work'[p] = work[p]
      /\ \A x \in Sessions : work[p].pc \in Ending /\ work[p].s = x =>
             work'[p].pc \in Ending /\ work'[p].s = x
  OBVIOUS
<1> QED
  BY <1>2, <1>3, <1>4, <1>5, HeldKept

\* What the steps take from HeldInv.
LEMMA HeldParts ==
  ASSUME HeldInv
  PROVE  /\ Typed /\ Plain /\ EndOK /\ GaugeExact /\ (entry # None => entry \in Sessions)
         /\ \A p \in Procs : work[p].pc \in {"drop", "store"} \cup Ending => work[p].s \in Sessions
BY PlainTyped DEF HeldInv, SessionsHeld, Plain, Typed, UsedOK, Made

\* A handler ends the session it has read, and then deletes by the key.
LEMMA StopHeld ==
  ASSUME HeldInv, NEW p \in Requests \cup Sockets, Stop(p)
  PROVE  EndOK' /\ SessionsHeld'
<1>1. p \in Procs /\ Typed /\ Plain /\ EndOK /\ GaugeExact
      /\ (work[p].pc \in Ending => work[p].s \in Sessions)
  BY HeldParts DEF Procs
<1>2. CASE StopSession(p)
  <2>1. UNCHANGED <<entry, sess, open, tally>> /\ work[p].pc \in {"idle", "stopLoad"}
    BY <1>2 DEF StopSession, map, At
  <2>2. /\ work'[p].pc \in {"idle", "stopClose"}
        /\ \A q \in Procs \ {p} : work'[q] = work[q]
    <3>1. ASSUME NEW l \in {"idle", "stopClose"}, NEW x \in Sessions \cup {None}, Goto(p, l, x)
          PROVE  /\ work'[p].pc \in {"idle", "stopClose"}
                 /\ \A q \in Procs \ {p} : work'[q] = work[q]
      BY <1>1, <3>1, GotoWork DEF Labels, Ending
    <3> QED
      BY <1>1, <1>2, <3>1 DEF StopSession, Finish, Plain
  <2>3. SessEnd
    BY <2>1 DEF SessEnd
  <2> QED
    BY <1>1, <2>1, <2>2, <2>3, QuietHeld DEF Ending
<1>3. CASE StopClose(p)
  <2>1. work[p].pc = "stopClose" /\ work[p].s \in Sessions /\ UNCHANGED <<entry, tally>>
    BY <1>1, <1>3 DEF StopClose, At, Ending
  <2>2. /\ work'[p].pc = "unlink" /\ work'[p].s = work[p].s
        /\ \A q \in Procs \ {p} : work'[q] = work[q]
    BY <1>1, <1>3, <2>1, GotoWork DEF StopClose, Labels, Ending
  <2>3. SessEnd /\ ~sess'[work[p].s].live
    BY <1>1, <1>3, <2>1, EndSess DEF StopClose, SessEnd
  <2>4. displaced' = {} => gauge' = IF entry' = None THEN 0 ELSE 1
    BY <1>1, <2>1 DEF GaugeExact
  <2> QED
    BY <1>1, <2>1, <2>2, <2>3, <2>4, EndMakesNone, HeldKept DEF Ending
<1>4. CASE Unlink(p)
  <2>1. work[p].pc = "unlink" /\ ~sess[work[p].s].live /\ work[p].s \in Sessions
    BY <1>1, <1>4 DEF Unlink, At, Ending, EndOK
  <2>2. Goto(p, "idle", None) /\ UNCHANGED <<sess, open>> /\ LoadAndDelete(work[p].s)
    BY <1>4 DEF Unlink, Finish
  <2>3. work'[p].pc = "idle" /\ \A q \in Procs \ {p} : work'[q] = work[q]
    BY <1>1, <2>2, GotoWork DEF Labels
  <2>4. SessEnd
    BY <2>2 DEF SessEnd
  <2>5. displaced \subseteq displaced' /\ (displaced' = {} => gauge' = IF entry' = None THEN 0 ELSE 1)
    BY <1>1, <2>2 DEF LoadAndDelete, Displaces, GaugeExact, Plain
  <2>6. ASSUME NEW x \in Sessions \ displaced', entry = x, sess'[x].live PROVE FALSE
    BY <2>1, <2>2, <2>6, SessionAssumption DEF LoadAndDelete, Displaces
  <2> QED
    BY <1>1, <2>1, <2>2, <2>3, <2>4, <2>5, <2>6, EndMakesNone, HeldKept
<1> QED
  BY <1>2, <1>3, <1>4 DEF Stop

\* The cleanup deletes by the key, and then ends the session it has read.
LEMMA CleanHeld == ASSUME HeldInv, Clean PROVE EndOK' /\ SessionsHeld'
<1> DEFINE p == Cleaner
<1>1. p \in Procs /\ Typed /\ Plain /\ EndOK /\ GaugeExact /\ (entry # None => entry \in Sessions)
      /\ (work[p].pc \in Ending => work[p].s \in Sessions)
  BY HeldParts DEF Procs
<1>2. CASE CleanSee
  <2>1. UNCHANGED <<entry, sess, open, tally>> /\ work[p].pc = "idle" /\ entry \in Sessions
    BY <1>1, <1>2 DEF CleanSee, map, At
  <2>2. work'[p].pc = "delete" /\ \A q \in Procs \ {p} : work'[q] = work[q]
    BY <1>1, <1>2, <2>1, GotoWork DEF CleanSee, Labels, Ending
  <2>3. SessEnd
    BY <2>1 DEF SessEnd
  <2> QED
    BY <1>1, <2>1, <2>2, <2>3, QuietHeld DEF Ending
<1>3. CASE CleanDelete
  <2>1. /\ work[p].pc = "delete" /\ work[p].s \in Sessions
        /\ UNCHANGED <<sess, open>> /\ LoadAndDelete(work[p].s)
    BY <1>1, <1>3 DEF CleanDelete, At, Ending
  <2>2. /\ work'[p].pc = "close" /\ work'[p].s = work[p].s
        /\ \A q \in Procs \ {p} : work'[q] = work[q]
    BY <1>1, <1>3, <2>1, GotoWork DEF CleanDelete, Labels, Ending
  <2>3. SessEnd
    BY <2>1 DEF SessEnd
  <2>4. displaced \subseteq displaced' /\ (displaced' = {} => gauge' = IF entry' = None THEN 0 ELSE 1)
    BY <1>1, <2>1 DEF LoadAndDelete, Displaces, GaugeExact, Plain
  <2>5. ASSUME NEW x \in Sessions \ displaced', entry = x PROVE x = work[p].s
    BY <2>1, <2>5, SessionAssumption DEF LoadAndDelete, Displaces
  <2>6. work'[p].pc \in Ending /\ work'[p].pc \notin {"unlink", "drop"} /\ work[p].pc # "store"
    BY <2>1, <2>2 DEF Ending
  <2> HIDE DEF p
  <2> QED
    BY <1>1, <2>2, <2>3, <2>4, <2>5, <2>6, EndMakesNone, HeldKept
<1>4. CASE CleanClose
  <2>1. work[p].pc = "close" /\ work[p].s \in Sessions /\ UNCHANGED <<entry, tally>>
    BY <1>1, <1>4 DEF CleanClose, At, Ending
  <2>2. work'[p].pc = "idle" /\ \A q \in Procs \ {p} : work'[q] = work[q]
    BY <1>1, <1>4, GotoWork DEF CleanClose, Labels
  <2>3. SessEnd /\ ~sess'[work[p].s].live
    BY <1>1, <1>4, <2>1, EndSess DEF CleanClose, SessEnd
  <2>4. displaced' = {} => gauge' = IF entry' = None THEN 0 ELSE 1
    BY <1>1, <2>1 DEF GaugeExact
  <2> HIDE DEF p
  <2> QED
    BY <1>1, <2>1, <2>2, <2>3, <2>4, EndMakesNone, HeldKept
<1> QED
  BY <1>2, <1>3, <1>4 DEF Clean

\* A start drops what is closed, and stores what it has made.
LEMMA StartHeld ==
  ASSUME HeldInv, NEW p \in Requests, Start(p)
  PROVE  EndOK' /\ SessionsHeld'
<1>1. p \in Procs /\ Typed /\ Plain /\ EndOK /\ GaugeExact /\ (entry # None => entry \in Sessions)
      /\ (work[p].pc \in {"drop", "store"} => work[p].s \in Sessions)
  BY HeldParts DEF Procs
<1>2. CASE StartSession(p) /\ Touch(entry) /\ entry # None /\ UNCHANGED work
  <2>1. UNCHANGED <<entry, open, tally>>
    BY <1>2 DEF StartSession
  <2>2. SessEnd
    BY <1>1, <1>2, <2>1, MarkSess DEF Touch, SessEnd
  <2> QED
    BY <1>1, <1>2, <2>1, <2>2, QuietHeld
<1>3. CASE StartSession(p) /\ Goto(p, "init", None) /\ UNCHANGED sess
  <2>1. UNCHANGED <<entry, open, tally>> /\ work[p].pc = "idle"
    BY <1>3 DEF StartSession, At
  <2>2. work'[p].pc = "init" /\ \A q \in Procs \ {p} : work'[q] = work[q]
    BY <1>1, <1>3, GotoWork DEF Labels, Starting
  <2>3. SessEnd
    BY <1>3, <2>1 DEF SessEnd
  <2> QED
    BY <1>1, <2>1, <2>2, <2>3, QuietHeld DEF Ending
<1>4. CASE StartSession(p) /\ entry # None /\ ~Open(entry) /\ Goto(p, "drop", entry) /\ UNCHANGED sess
  <2>1. UNCHANGED <<entry, open, tally>> /\ work[p].pc = "idle"
    BY <1>4 DEF StartSession, At
  <2>2. work'[p].pc = "drop" /\ work'[p].s = entry /\ \A q \in Procs \ {p} : work'[q] = work[q]
    BY <1>1, <1>4, GotoWork DEF Labels, Starting
  <2>3. SessEnd
    BY <1>4, <2>1 DEF SessEnd
  <2>4. ~(sess'[work'[p].s].ch \in open')
    BY <1>4, <2>1, <2>2 DEF Open
  <2>5. displaced' = {} => gauge' = IF entry' = None THEN 0 ELSE 1
    BY <1>1, <2>1 DEF GaugeExact
  <2> QED
    BY <1>1, <2>1, <2>2, <2>3, <2>4, <2>5, EndMakesNone, HeldKept DEF Ending
<1>5. CASE Drop(p)
  <2>1. /\ work[p].pc = "drop" /\ work[p].s \in Sessions /\ ~(sess[work[p].s].ch \in open)
        /\ entry' = None /\ gauge' = gauge - 1 /\ UNCHANGED <<sess, open>>
        /\ displaced' = IF entry = work[p].s THEN displaced
                        ELSE displaced \cup ({entry, work[p].s} \ {None})
    BY <1>1, <1>5 DEF Drop, At, EndOK, Open
  <2>2. work'[p].pc = "init" /\ \A q \in Procs \ {p} : work'[q] = work[q]
    BY <1>1, <1>5, GotoWork DEF Drop, Labels, Starting
  <2>3. SessEnd
    BY <2>1 DEF SessEnd
  <2>4. displaced \subseteq displaced'
    BY <2>1
  <2>5. displaced' = {} => gauge' = IF entry' = None THEN 0 ELSE 1
    <3>1. displaced' = {} => displaced = {} /\ entry = work[p].s /\ entry # None
      BY <2>1, SessionAssumption
    <3> QED
      BY <1>1, <2>1, <3>1 DEF GaugeExact
  <2>6. ASSUME NEW x \in Sessions \ displaced', entry = x, sess'[x].ch \in open' PROVE FALSE
    BY <2>1, <2>6, SessionAssumption
  <2> QED
    BY <1>1, <2>1, <2>2, <2>3, <2>4, <2>5, <2>6, EndMakesNone, HeldKept DEF Ending
<1>6. CASE Create(p) /\ Goto(p, "idle", None) /\ UNCHANGED <<sess, open, slot>>
  <2>1. UNCHANGED <<entry, tally>> /\ work[p].pc = "init"
    BY <1>6 DEF Create, At
  <2>2. work'[p].pc = "idle" /\ \A q \in Procs \ {p} : work'[q] = work[q]
    BY <1>1, <1>6, GotoWork DEF Labels
  <2>3. SessEnd
    BY <1>6 DEF SessEnd
  <2> QED
    BY <1>1, <2>1, <2>2, <2>3, QuietHeld DEF Ending
<1>7. CASE Create(p) /\ work'[p].pc # "idle"
  <2>1. UNCHANGED <<entry, tally>> /\ work[p].pc = "init"
    BY <1>7 DEF Create, At
  <2>2. PICK s \in Sessions, ch \in Sessions :
           /\ sess[s].ch = None /\ (ch = s \/ ch \in open)
           /\ sess' \in [Sessions -> Session] /\ sess'[s].ch = ch /\ sess'[s].live
           /\ \A x \in Sessions \ {s} : sess'[x] = sess[x]
           /\ open' = open \cup {ch} /\ slot' = ch
           /\ work'[p].pc = "store" /\ work'[p].s = s
    BY <1>1, <1>7, CreateSess
  <2>3. \A q \in Procs \ {p} : work'[q] = work[q]
    <3>1. ASSUME NEW l \in {"idle", "store"}, NEW x \in Sessions \cup {None}, Goto(p, l, x)
          PROVE  \A q \in Procs \ {p} : work'[q] = work[q]
      BY <1>1, <3>1, GotoWork DEF Labels, Starting
    <3> QED
      BY <1>7, <3>1 DEF Create, Unused
  <2>4. ASSUME NEW x \in Sessions, Made(sess, x)
        PROVE  /\ sess'[x].live => sess[x].live
               /\ sess'[x].ch \in open' => sess[x].ch \in open
    <3>1. x # s /\ sess'[x] = sess[x] /\ sess[x].ch # s
      BY <1>1, <2>2, <2>4 DEF Made, Typed, UsedOK
    <3> QED
      BY <2>2, <3>1
  <2>5. ASSUME NEW x \in Sessions, ~Made(sess, x) PROVE ~Listening(x)'
    <3>1. CASE x = s
      BY <2>2, <3>1 DEF Listening, At
    <3>2. CASE x # s
      <4>1. sess'[x].ch = None
        BY <2>2, <2>5, <3>2 DEF Made
      <4>2. None \notin open'
        BY <1>1, <2>2, SessionAssumption DEF Plain
      <4> QED
        BY <4>1, <4>2 DEF Listening, Open
    <3> QED
      BY <3>1, <3>2
  <2>6. displaced' = {} => gauge' = IF entry' = None THEN 0 ELSE 1
    BY <1>1, <2>1 DEF GaugeExact
  <2>7. displaced \subseteq displaced' /\ entry' = entry /\ work[p].pc \notin {"store"} \cup Ending
    BY <2>1 DEF Ending
  <2>8. work'[p].pc \notin {"unlink", "drop"}
    BY <2>2
  <2> QED
    BY <1>1, <2>3, <2>4, <2>5, <2>6, <2>7, <2>8, HeldKept
<1>8. CASE Store(p)
  <2>1. /\ work[p].pc = "store" /\ work[p].s \in Sessions /\ UNCHANGED <<sess, open>>
        /\ entry' = work[p].s /\ gauge' = gauge + 1
        /\ displaced' = displaced \cup ({entry} \ {None, None})
    BY <1>1, <1>8 DEF Store, At, Displaces
  <2>2. work'[p].pc = "idle" /\ \A q \in Procs \ {p} : work'[q] = work[q]
    BY <1>1, <1>8, GotoWork DEF Store, Labels
  <2>3. SessEnd
    BY <2>1 DEF SessEnd
  <2>4. displaced' = {} => gauge' = IF entry' = None THEN 0 ELSE 1
    <3>1. displaced' = {} => displaced = {} /\ entry = None
      BY <2>1
    <3>2. entry' # None
      BY <2>1, SessionAssumption
    <3> QED
      BY <1>1, <2>1, <3>1, <3>2 DEF GaugeExact
  <2>5. ASSUME NEW x \in Sessions \ displaced', entry = x PROVE FALSE
    BY <2>1, <2>5, SessionAssumption
  <2> QED
    BY <1>1, <2>1, <2>2, <2>3, <2>4, <2>5, EndMakesNone, HeldKept DEF Ending
<1>9. StartSession(p) => \/ Touch(entry) /\ entry # None /\ UNCHANGED work
                         \/ Goto(p, "init", None) /\ UNCHANGED sess
                         \/ entry # None /\ ~Open(entry) /\ Goto(p, "drop", entry) /\ UNCHANGED sess
  BY DEF StartSession
<1>10. Create(p) => \/ Goto(p, "idle", None) /\ UNCHANGED <<sess, open, slot>>
                    \/ work'[p].pc # "idle"
  <2>1. ASSUME NEW s \in Sessions, Goto(p, "store", s) PROVE work'[p].pc # "idle"
    BY <1>1, <2>1, GotoWork DEF Labels, Starting
  <2> QED
    BY <2>1 DEF Create, Unused
<1> QED
  BY <1>2, <1>3, <1>4, <1>5, <1>6, <1>7, <1>8, <1>9, <1>10 DEF Start

\* The core, the TTL and the questions leave the map alone; the core may close a
\* channel.
LEMMA CoreHeld ==
  ASSUME HeldInv,
         Age \/ Ask \/ CoreCloses \/ \E s \in Sessions : Answer(s) \/ CoreRecalls(s)
  PROVE  EndOK' /\ SessionsHeld'
<1>1. Typed /\ Cleaner \in Procs /\ (entry # None => entry \in Sessions)
  BY HeldParts DEF Procs
<1>2. UNCHANGED <<entry, tally, work>> /\ SessEnd
  <2>1. ASSUME entry # None, NEW b \in BOOLEAN, sess' = [sess EXCEPT ![entry].stale = b],
               UNCHANGED open
        PROVE  SessEnd
    BY <1>1, <2>1, MarkSess DEF SessEnd
  <2>2. CASE Age
    BY <2>1, <2>2 DEF Age
  <2>3. CASE Ask
    BY <2>1, <2>3 DEF Ask, Touch
  <2>4. CASE CoreCloses
    BY <2>4 DEF CoreCloses, SessEnd
  <2>5. CASE \E s \in Sessions : Answer(s) \/ CoreRecalls(s)
    BY <2>5 DEF Answer, CoreRecalls, SessEnd, map
  <2> QED
    BY <2>2, <2>3, <2>4, <2>5
<1> QED
  BY <1>1, <1>2, QuietHeld

\* The handler of a socket works on the map only through StopSession.
LEMMA SocketHeld ==
  ASSUME HeldInv, NEW w \in Sockets, Connect(w) \/ ClientLeaves(w) \/ Handle(w)
  PROVE  EndOK' /\ SessionsHeld'
<1>1. w \in Procs /\ Typed
  BY HeldParts DEF Procs
<1>2. CASE Connect(w)
  <2>1. entry \in Sessions /\ Touch(entry) /\ Goto(w, "serve", None) /\ work[w].pc = "idle"
    BY <1>1, <1>2, ConnectSock
  <2>2. UNCHANGED <<entry, open, tally>>
    BY <1>2 DEF Connect
  <2>3. SessEnd
    BY <1>1, <2>1, <2>2, MarkSess DEF Touch, SessEnd
  <2>4. work'[w].pc = "serve" /\ \A q \in Procs \ {w} : work'[q] = work[q]
    BY <1>1, <2>1, GotoWork DEF Labels, Serving
  <2> QED
    BY <1>1, <2>1, <2>2, <2>3, <2>4, QuietHeld DEF Ending
<1>3. CASE ClientLeaves(w)
  <2>1. UNCHANGED <<entry, sess, open, tally, work>>
    BY <1>3 DEF ClientLeaves, map
  <2> QED
    BY <1>1, <2>1, QuietHeld DEF SessEnd
<1>4. CASE Handle(w)
  <2>1. UNCHANGED <<entry, sess, open, tally>> /\ WorkEffect(w)
    BY <1>1, <1>4, HandleEffect DEF map
  <2>2. UNCHANGED work \/ work[w].pc \in Serving
    BY <1>4 DEF Handle, ReadMessage, PumpTake, PumpPut, PumpStop, Forward, Leave, DrainDone,
                AnswersClosed, SendStatus, Send, At, Serving
  <2>3. /\ \A q \in Procs \ {w} : work'[q] = work[q]
        /\ work'[w] = work[w] \/ work'[w].pc \in Serving
    BY <2>1 DEF WorkEffect, Serving
  <2>4. \A l \in Serving : l \notin {"store", "unlink", "drop"} \cup Ending
    BY DEF Serving, Ending
  <2> QED
    BY <1>1, <2>1, <2>2, <2>3, <2>4, QuietHeld DEF SessEnd
<1> QED
  BY <1>2, <1>3, <1>4

LEMMA HeldStep == HeldInv /\ [Next]_vars => HeldInv'
<1> SUFFICES ASSUME HeldInv, [Next]_vars PROVE HeldInv'
  OBVIOUS
<1>1. Typed' /\ Typed /\ Cleaner \in Procs
  BY NextTyped DEF HeldInv, Procs
<1>2. ASSUME UNCHANGED <<map, work>> PROVE EndOK' /\ SessionsHeld'
  BY <1>1, <1>2, QuietHeld DEF map, SessEnd
<1>3. CASE UNCHANGED vars
  BY <1>1, <1>2, <1>3 DEF vars, HeldInv
<1>4. CASE Next
  <2>1. ASSUME \/ \E v \in Voices : StartRealtimeSession(v) \/ VoiceLeaves(v) \/ Speak(v)
               \/ VoiceFails
        PROVE  EndOK' /\ SessionsHeld'
    BY <1>1, <1>2, <2>1, VoiceEffect
  <2>2. EndOK' /\ SessionsHeld'
    BY <1>4, <2>1, StartHeld, StopHeld, CleanHeld, CoreHeld, SocketHeld DEF Next
  <2> QED
    BY <1>1, <2>2 DEF HeldInv
<1> QED
  BY <1>3, <1>4

\* However starts, stops, the cleanup and the core interleave, a session whose
\* listener runs is in the map or with whoever ends it, and the gauge is the number
\* of sessions, but for those that an overwriting store or a removal by key has put
\* out of the map in place of another.
THEOREM SessionsAreHeld == Spec => []SessionsHeld
<1>1. Init => HeldInv
  <2> SUFFICES ASSUME Init PROVE HeldInv
    OBVIOUS
  <2>1. Typed /\ \A p \in Procs : work[p].pc = "idle"
    BY InitTyped DEF Init
  <2>2. EndOK
    BY <2>1 DEF EndOK, At
  <2>3. NoListenerLeft /\ GaugeExact
    BY DEF Init, NoListenerLeft, GaugeExact, Listening
  <2> QED
    BY <2>1, <2>2, <2>3 DEF HeldInv, SessionsHeld
<1>2. HeldInv => SessionsHeld
  BY DEF HeldInv
<1> QED
  BY <1>1, <1>2, HeldStep, PTL DEF Spec

-----------------------------------------------------------------------------
(* Voice calls. *)

\* Dialogs have nothing in common with calls.
LEMMA SpeechSame ==
  ASSUME Typed, [Next]_vars
  PROVE  \/ UNCHANGED speech
         \/ VoiceFails
         \/ \E v \in Voices : StartRealtimeSession(v) \/ VoiceLeaves(v) \/ Speak(v)
<1>1. ASSUME NEW p \in Requests, Start(p) PROVE UNCHANGED speech
  BY <1>1, Zenon DEF Start, StartSession, Drop, Create, Store
<1>2. ASSUME NEW p \in Requests \cup Sockets, Stop(p) PROVE UNCHANGED speech
  BY <1>2, Zenon DEF Stop, StopSession, StopClose, Unlink
<1>3. Age \/ Clean \/ Ask \/ CoreCloses => UNCHANGED speech
  BY Zenon DEF Age, Clean, CleanSee, CleanDelete, CleanClose, Ask, CoreCloses
<1>4. ASSUME NEW s \in Sessions, Answer(s) \/ CoreRecalls(s) PROVE UNCHANGED speech
  BY <1>4, Zenon DEF Answer, CoreRecalls
<1>5. ASSUME NEW w \in Sockets, Connect(w) \/ ClientLeaves(w) PROVE UNCHANGED speech
  BY <1>5, Zenon DEF Connect, ClientLeaves
<1>6. ASSUME NEW w \in Sockets, Handle(w) PROVE UNCHANGED speech
  BY <1>6, HandleEffect
<1>7. UNCHANGED vars => UNCHANGED speech
  BY DEF vars
<1> QED
  BY <1>1, <1>2, <1>3, <1>4, <1>5, <1>6, <1>7 DEF Next

\* The core has one call for a respondent: another call, its own end or the loss of
\* the connection is seen by the sender that is left.
LEMMA ReleasedStep == Typed /\ VoiceReleased /\ [Next]_vars => VoiceReleased'
<1> SUFFICES ASSUME Typed, VoiceReleased, [Next]_vars,
                    NEW u \in Voices, voice'[u].sender, voice'[u].pc \in {"idle", "wait"}
             PROVE  rt' # u \/ voice'[u].conn # "up"
  BY DEF VoiceReleased, VoiceOver
<1>1. voice \in [Voices -> Voice] /\ None \notin Voices
  BY PlainTyped, SessionAssumption DEF Plain
<1>2. voice[u].sender /\ voice[u].pc \in {"idle", "wait"} => rt # u \/ voice[u].conn # "up"
  BY DEF VoiceReleased, VoiceOver
<1>3. ASSUME NEW v \in Voices, NEW pc, NEW conn, NEW b, SetVoice(v, pc, conn, b)
      PROVE  /\ u # v => voice'[u] = voice[u]
             /\ u = v => voice'[u].pc = pc /\ voice'[u].conn = conn /\ voice'[u].sender = b
  BY <1>1, <1>3 DEF SetVoice
<1>4. ASSUME NEW v \in Voices, StartRealtimeSession(v) PROVE rt' # u \/ voice'[u].conn # "up"
  <2>1. CASE rt' = v /\ SetVoice(v, "serve", "up", TRUE)
    <3>1. u = v => voice'[u].pc = "serve"
      BY <1>3, <2>1
    <3>2. u # v
      BY <3>1
    <3> QED
      BY <2>1, <3>2
  <2>2. CASE rt' \in {rt, v} /\ SetVoice(v, "close", "up", FALSE)
    <3>1. u # v /\ voice'[u] = voice[u]
      BY <1>3, <2>2
    <3> QED
      BY <1>2, <2>2, <3>1
  <2> QED
    BY <1>4, <2>1, <2>2 DEF StartRealtimeSession
<1>5. ASSUME NEW v \in Voices, VoiceLeaves(v) PROVE rt' # u \/ voice'[u].conn # "up"
  <2>1. voice[v].conn = "up" /\ SetVoice(v, voice[v].pc, "down", voice[v].sender) /\ rt' = rt
    BY <1>5 DEF VoiceLeaves
  <2>2. CASE u = v
    <3>1. voice'[u].conn = "down"
      BY <1>3, <2>1, <2>2
    <3> QED
      BY <3>1
  <2>3. CASE u # v
    <3>1. voice'[u] = voice[u]
      BY <1>3, <2>1, <2>3
    <3> QED
      BY <1>2, <2>1, <3>1
  <2> QED
    BY <2>2, <2>3
<1>6. ASSUME NEW v \in Voices, ReadVoice(v) PROVE rt' # u \/ voice'[u].conn # "up"
  BY <1>2, <1>3, <1>6 DEF ReadVoice
<1>7. ASSUME NEW v \in Voices, SendVoice(v) PROVE rt' # u \/ voice'[u].conn # "up"
  BY <1>2, <1>3, <1>7 DEF SendVoice
<1>8. ASSUME NEW v \in Voices, VoiceSent(v) PROVE rt' # u \/ voice'[u].conn # "up"
  BY <1>2, <1>3, <1>8 DEF VoiceSent
<1>9. (\E v \in Voices : StopRealtimeSession(v)) \/ VoiceFails => rt' = None
  BY DEF StopRealtimeSession, VoiceFails
<1>10. UNCHANGED speech => rt' = rt /\ voice' = voice
  BY DEF speech
<1> QED
  BY <1>1, <1>2, <1>4, <1>5, <1>6, <1>7, <1>8, <1>9, <1>10, SpeechSame DEF Speak

\* Whatever calls start, fail and end beside it, the sender a call has left behind
\* or waits for does end.
THEOREM VoicesAreReleased == Spec => []VoiceReleased
<1>1. Init => VoiceReleased
  BY DEF Init, VoiceReleased
<1> QED
  BY <1>1, InitTyped, NextTyped, ReleasedStep, PTL DEF Spec
-----------------------------------------------------------------------------
(* The goroutines of a socket. *)

\* What a handler and its goroutines do: the helpers only end, and the handler goes
\* on where it closed what they wait for.
HelperMoves(w) ==
    /\ sock'[w].conn = sock[w].conn
    /\ (sock[w].done => sock'[w].done) /\ (sock'[w].pump => sock[w].pump)
    /\ (sock'[w].sender => sock[w].sender) /\ (sock[w].outClosed => sock'[w].outClosed)
    /\ \/ work'[w].pc = work[w].pc
       \/ work[w].pc = "serve" /\ work'[w].pc = "drain" /\ sock'[w].done /\ sock'[w].outClosed
       \/ work[w].pc = "drain" /\ work'[w].pc = "stopLoad"
       \/ work[w].pc = "serve" /\ work'[w].pc = "status" /\ ~sock'[w].pump
       \/ work[w].pc = "status" /\ work'[w].pc = "stopLoad" /\ sock'[w].outClosed

\* ... and to the answers that wait at a socket: one is taken from the channel, put
\* into messageBuffer, forwarded or dropped, or sent; the status follows them.
LineKept(w) == /\ sock'[w].outbuf = sock[w].outbuf /\ sock'[w].inbuf = sock[w].inbuf
               /\ sock'[w].hand = sock[w].hand
Taken(w) ==
    /\ sock[w].ch \in Sessions /\ tx[sock[w].ch] # <<>> /\ sock[w].hand = None
    /\ sock'[w].hand = Head(tx[sock[w].ch]) /\ tx' = [tx EXCEPT ![sock[w].ch] = Tail(@)]
    /\ sock'[w].outbuf = sock[w].outbuf /\ sock'[w].inbuf = sock[w].inbuf
HasPut(w) ==
    /\ sock[w].hand # None /\ sock'[w].hand = None
    /\ sock'[w].inbuf = Append(sock[w].inbuf, sock[w].hand)
    /\ sock'[w].outbuf = sock[w].outbuf
Forwarded(w) ==
    /\ work[w].pc = "serve" /\ sock[w].inbuf # <<>>
    /\ sock'[w].inbuf = Tail(sock[w].inbuf) /\ sock'[w].hand = sock[w].hand
    /\ \/ sock'[w].outbuf = sock[w].outbuf
       \/ sock'[w].outbuf = Append(sock[w].outbuf, Head(sock[w].inbuf))
StatusSent(w) ==
    /\ work[w].pc = "status" /\ work'[w].pc = "stopLoad"
    /\ sock'[w].outbuf = Append(sock[w].outbuf, ChannelClosed)
    /\ sock'[w].inbuf = sock[w].inbuf /\ sock'[w].hand = sock[w].hand
Written(w) ==
    /\ sock[w].outbuf # <<>> /\ sock'[w].outbuf = Tail(sock[w].outbuf)
    /\ sock'[w].inbuf = sock[w].inbuf /\ sock'[w].hand = sock[w].hand
LineMoves(w) ==
    \/ Taken(w)
    \/ tx' = tx /\ (LineKept(w) \/ HasPut(w) \/ Forwarded(w) \/ StatusSent(w) \/ Written(w))

LEMMA HandleMoves ==
  ASSUME Typed, NEW w \in Sockets, Handle(w) PROVE HelperMoves(w) /\ LineMoves(w)
<1> USE DEF dialog
<1>1. /\ w \in Procs /\ sock[w] \in Socket /\ tx \in [Sessions -> Seq(Answers)]
      /\ work \in [Procs -> Work] /\ Here(w) = sock[w] /\ sock \in [Sockets -> Socket]
  BY PlainTyped DEF Procs, Plain, Here
<1>2. ASSUME NEW r, Set(w, r) PROVE sock'[w] = r
  BY <1>1, <1>2 DEF Set
<1>3. ASSUME NEW l \in Labels, Goto(w, l, None) PROVE work'[w].pc = l
  BY <1>1, <1>3, GotoWork
<1>4. CASE ReadMessage(w)
  <2> DEFINE r == [sock[w] EXCEPT !.done = TRUE]
  <2>1. sock'[w] = r /\ tx' = tx /\ work' = work
    BY <1>1, <1>2, <1>4 DEF ReadMessage
  <2>2. /\ r.conn = sock[w].conn /\ r.done = TRUE /\ r.pump = sock[w].pump
        /\ r.sender = sock[w].sender /\ r.outClosed = sock[w].outClosed
        /\ r.outbuf = sock[w].outbuf /\ r.inbuf = sock[w].inbuf /\ r.hand = sock[w].hand
    BY <1>1 DEF Socket
  <2> HIDE DEF r
  <2> QED
    BY <2>1, <2>2 DEF HelperMoves, LineMoves, LineKept
<1>5. CASE PumpTake(w)
  <2> DEFINE r == [sock[w] EXCEPT !.hand = Head(tx[sock[w].ch])]
  <2>1. /\ sock'[w] = r /\ sock[w].pump /\ sock[w].hand = None /\ tx[sock[w].ch] # <<>>
        /\ tx' = [tx EXCEPT ![sock[w].ch] = Tail(@)] /\ work' = work
    BY <1>1, <1>2, <1>5 DEF PumpTake
  <2>2. sock[w].ch \in Sessions
    BY <1>1, <2>1 DEF Typed, UsedOK, Made
  <2>3. /\ r.conn = sock[w].conn /\ r.done = sock[w].done /\ r.pump = sock[w].pump
        /\ r.sender = sock[w].sender /\ r.outClosed = sock[w].outClosed
        /\ r.outbuf = sock[w].outbuf /\ r.inbuf = sock[w].inbuf /\ r.hand = Head(tx[sock[w].ch])
    BY <1>1 DEF Socket
  <2> HIDE DEF r
  <2>4. HelperMoves(w)
    BY <2>1, <2>3 DEF HelperMoves
  <2>5. Taken(w)
    BY <2>1, <2>2, <2>3 DEF Taken
  <2> QED
    BY <2>4, <2>5 DEF LineMoves
<1>6. CASE PumpPut(w)
  <2> DEFINE r == [sock[w] EXCEPT !.hand = None, !.inbuf = Append(@, sock[w].hand)]
  <2>1. sock'[w] = r /\ sock[w].hand # None /\ tx' = tx /\ work' = work
    BY <1>1, <1>2, <1>6 DEF PumpPut
  <2>2. /\ r.conn = sock[w].conn /\ r.done = sock[w].done /\ r.pump = sock[w].pump
        /\ r.sender = sock[w].sender /\ r.outClosed = sock[w].outClosed
        /\ r.outbuf = sock[w].outbuf /\ r.inbuf = Append(sock[w].inbuf, sock[w].hand)
        /\ r.hand = None
    BY <1>1 DEF Socket
  <2> HIDE DEF r
  <2> QED
    BY <2>1, <2>2 DEF HelperMoves, LineMoves, HasPut
<1>7. CASE PumpStop(w)
  <2> DEFINE r == [sock[w] EXCEPT !.pump = FALSE]
  <2>1. sock'[w] = r /\ tx' = tx /\ work' = work
    BY <1>1, <1>2, <1>7 DEF PumpStop
  <2>2. /\ r.conn = sock[w].conn /\ r.done = sock[w].done /\ r.pump = FALSE
        /\ r.sender = sock[w].sender /\ r.outClosed = sock[w].outClosed
        /\ r.outbuf = sock[w].outbuf /\ r.inbuf = sock[w].inbuf /\ r.hand = sock[w].hand
    BY <1>1 DEF Socket
  <2> HIDE DEF r
  <2> QED
    BY <2>1, <2>2 DEF HelperMoves, LineMoves, LineKept
<1>8. CASE Forward(w)
  <2> DEFINE rest == [sock[w] EXCEPT !.inbuf = Tail(@)]
             r == IF Len(sock[w].outbuf) < Buffer
                  THEN [rest EXCEPT !.outbuf = Append(@, Head(sock[w].inbuf))] ELSE rest
  <2>1. /\ sock'[w] = r /\ sock[w].inbuf # <<>> /\ work[w].pc = "serve"
        /\ tx' = tx /\ work' = work
    BY <1>1, <1>2, <1>8 DEF Forward, At
  <2>2. sock[w].inbuf \in Seq(Answers) /\ sock[w].outbuf \in Seq(Answers \cup {ChannelClosed})
    BY <1>1 DEF Socket
  <2>3. Head(sock[w].inbuf) \in Answers /\ Tail(sock[w].inbuf) \in Seq(Answers)
    BY <2>1, <2>2
  <2>4. /\ rest \in Socket /\ rest.conn = sock[w].conn /\ rest.done = sock[w].done
        /\ rest.pump = sock[w].pump
        /\ rest.sender = sock[w].sender /\ rest.outClosed = sock[w].outClosed
        /\ rest.outbuf = sock[w].outbuf /\ rest.inbuf = Tail(sock[w].inbuf)
        /\ rest.hand = sock[w].hand
    BY <1>1, <2>3 DEF Socket
  <2> HIDE DEF rest
  <2>5. /\ r.conn = sock[w].conn /\ r.done = sock[w].done /\ r.pump = sock[w].pump
        /\ r.sender = sock[w].sender /\ r.outClosed = sock[w].outClosed
        /\ r.outbuf \in {sock[w].outbuf, Append(sock[w].outbuf, Head(sock[w].inbuf))}
        /\ r.inbuf = Tail(sock[w].inbuf) /\ r.hand = sock[w].hand
    BY <2>4 DEF Socket
  <2> HIDE DEF r
  <2>6. HelperMoves(w)
    BY <2>1, <2>5 DEF HelperMoves
  <2>7. Forwarded(w)
    BY <2>1, <2>5 DEF Forwarded
  <2> QED
    BY <2>1, <2>6, <2>7 DEF LineMoves
<1>9. CASE Leave(w)
  <2> DEFINE r == [sock[w] EXCEPT !.outClosed = TRUE]
  <2>1. sock'[w] = r /\ sock[w].done /\ work[w].pc = "serve" /\ Goto(w, "drain", None) /\ tx' = tx
    BY <1>1, <1>2, <1>9 DEF Leave, At
  <2>2. work'[w].pc = "drain"
    BY <1>3, <2>1 DEF Labels, Serving
  <2>3. /\ r.conn = sock[w].conn /\ r.done = sock[w].done /\ r.pump = sock[w].pump
        /\ r.sender = sock[w].sender /\ r.outClosed = TRUE
        /\ r.outbuf = sock[w].outbuf /\ r.inbuf = sock[w].inbuf /\ r.hand = sock[w].hand
    BY <1>1 DEF Socket
  <2> HIDE DEF r
  <2> QED
    BY <2>1, <2>2, <2>3 DEF HelperMoves, LineMoves, LineKept
<1>10. CASE DrainDone(w)
  <2>1. work[w].pc = "drain" /\ Goto(w, "stopLoad", None) /\ UNCHANGED <<sock, tx>>
    BY <1>10 DEF DrainDone, At
  <2>2. work'[w].pc = "stopLoad"
    BY <1>3, <2>1 DEF Labels, Serving
  <2> QED
    BY <2>1, <2>2 DEF HelperMoves, LineMoves, LineKept
<1>11. CASE AnswersClosed(w)
  <2>1. work[w].pc = "serve" /\ ~sock[w].pump /\ Goto(w, "status", None) /\ UNCHANGED <<sock, tx>>
    BY <1>1, <1>11 DEF AnswersClosed, At
  <2>2. work'[w].pc = "status"
    BY <1>3, <2>1 DEF Labels, Serving
  <2> QED
    BY <2>1, <2>2 DEF HelperMoves, LineMoves, LineKept
<1>12. CASE SendStatus(w)
  <2> DEFINE r == [sock[w] EXCEPT !.outbuf = Append(@, ChannelClosed), !.outClosed = TRUE]
  <2>1. sock'[w] = r /\ work[w].pc = "status" /\ Goto(w, "stopLoad", None) /\ tx' = tx
    BY <1>1, <1>2, <1>12 DEF SendStatus, At
  <2>2. work'[w].pc = "stopLoad"
    BY <1>3, <2>1 DEF Labels, Serving
  <2>3. /\ r.conn = sock[w].conn /\ r.done = sock[w].done /\ r.pump = sock[w].pump
        /\ r.sender = sock[w].sender /\ r.outClosed = TRUE
        /\ r.outbuf = Append(sock[w].outbuf, ChannelClosed)
        /\ r.inbuf = sock[w].inbuf /\ r.hand = sock[w].hand
    BY <1>1 DEF Socket
  <2> HIDE DEF r
  <2> QED
    BY <2>1, <2>2, <2>3 DEF HelperMoves, LineMoves, StatusSent
<1>13. CASE Send(w)
  <2>1. tx' = tx /\ work' = work
    BY <1>13 DEF Send
  <2>2. CASE sock[w].outbuf # <<>> /\ Set(w, [sock[w] EXCEPT !.outbuf = Tail(@)])
    <3> DEFINE r == [sock[w] EXCEPT !.outbuf = Tail(@)]
    <3>1. sock'[w] = r
      BY <1>2, <2>2
    <3>2. /\ r.conn = sock[w].conn /\ r.done = sock[w].done /\ r.pump = sock[w].pump
          /\ r.sender = sock[w].sender /\ r.outClosed = sock[w].outClosed
          /\ r.outbuf = Tail(sock[w].outbuf)
          /\ r.inbuf = sock[w].inbuf /\ r.hand = sock[w].hand
      BY <1>1 DEF Socket
    <3> HIDE DEF r
    <3> QED
      BY <2>1, <2>2, <3>1, <3>2 DEF HelperMoves, LineMoves, Written
  <2>3. CASE Set(w, [sock[w] EXCEPT !.sender = FALSE])
    <3> DEFINE r == [sock[w] EXCEPT !.sender = FALSE]
    <3>1. sock'[w] = r
      BY <1>2, <2>3
    <3>2. /\ r.conn = sock[w].conn /\ r.done = sock[w].done /\ r.pump = sock[w].pump
          /\ r.sender = FALSE /\ r.outClosed = sock[w].outClosed
          /\ r.outbuf = sock[w].outbuf
          /\ r.inbuf = sock[w].inbuf /\ r.hand = sock[w].hand
      BY <1>1 DEF Socket
    <3> HIDE DEF r
    <3> QED
      BY <2>1, <3>1, <3>2 DEF HelperMoves, LineMoves, LineKept
  <2> QED
    BY <1>1, <1>13, <2>2, <2>3 DEF Send
<1> QED
  BY <1>4, <1>5, <1>6, <1>7, <1>8, <1>9, <1>10, <1>11, <1>12, <1>13 DEF Handle

\* What the others do to a socket: its client leaves, or its handler ends the session
\* and goes.
HelpersKept(w) ==
    /\ sock'[w].ch = sock[w].ch /\ sock'[w].done = sock[w].done
    /\ sock'[w].pump = sock[w].pump /\ sock'[w].sender = sock[w].sender
    /\ sock'[w].outClosed = sock[w].outClosed
SockRest(w) ==
    /\ HelpersKept(w) /\ LineKept(w)
    /\ \/ work'[w].pc = work[w].pc /\ sock'[w].conn \in {sock[w].conn, "down"}
       \/ /\ work[w].pc \notin {"serve", "status", "drain"}
          /\ \/ work'[w].pc \in {"stopClose", "unlink"}
             \/ work'[w].pc = "idle" /\ sock'[w].conn = "off"

LEMMA RestFinish ==
  ASSUME Typed, NEW w \in Sockets, NEW p \in Procs, Finish(p)
  PROVE  HelpersKept(w) /\ LineKept(w)
         /\ (w # p => sock'[w].conn = sock[w].conn /\ work'[w].pc = work[w].pc)
         /\ (w = p => sock'[w].conn = "off" /\ work'[w].pc = "idle")
<1>1. sock[w] \in Socket /\ w \in Procs /\ work \in [Procs -> Work]
  BY PlainTyped DEF Plain, Procs
<1>2. sock'[w] = IF w = p THEN [sock[w] EXCEPT !.conn = "off"] ELSE sock[w]
  BY DEF Finish
<1>3. HelpersKept(w) /\ LineKept(w) /\ sock'[w].conn = IF w = p THEN "off" ELSE sock[w].conn
  BY <1>1, <1>2 DEF Socket, HelpersKept, LineKept
<1>4. Goto(p, "idle", None)
  BY DEF Finish
<1>5. work'[w].pc = IF w = p THEN "idle" ELSE work[w].pc
  BY <1>1, <1>4 DEF Goto
<1> QED
  BY <1>3, <1>5

LEMMA RestSteps ==
  ASSUME Typed, [Next]_vars, NEW w \in Sockets
  PROVE  SockRest(w) \/ Handle(w) \/ Connect(w)
<1> USE DEF map, dialog, speech
<1>1. w \in Procs /\ w # Cleaner /\ w \notin Requests /\ work \in [Procs -> Work]
  BY PlainTyped, SessionAssumption DEF Procs, Plain
<1>2. ASSUME NEW p \in Procs \ {w}, NEW l, NEW s, Goto(p, l, s) PROVE work'[w] = work[w]
  BY <1>1, <1>2 DEF Goto
<1>3. ASSUME NEW l, NEW s, Goto(w, l, s) PROVE work'[w].pc = l
  BY <1>1, <1>3 DEF Goto
<1>4. UNCHANGED sock /\ work'[w] = work[w] => SockRest(w)
  BY DEF SockRest, HelpersKept, LineKept
<1>5. ASSUME NEW p \in Requests, Start(p) PROVE SockRest(w)
  <2>1. p \in Procs \ {w} /\ sock' = sock
    BY <1>1, <1>5 DEF Procs, Start, StartSession, Drop, Create, Store
  <2>2. work' = work \/ \E l, s : Goto(p, l, s)
    BY <1>5, Zenon DEF Start, StartSession, Drop, Create, Store
  <2> QED
    BY <1>2, <1>4, <2>1, <2>2
<1>6. ASSUME NEW p \in Requests \cup Sockets, Stop(p) PROVE SockRest(w)
  <2>1. p \in Procs /\ (w = p => work[w].pc \notin {"serve", "status", "drain"})
    BY <1>1, <1>6 DEF Procs, Stop, StopSession, StopClose, Unlink, At
  <2>2. ASSUME Finish(p) PROVE SockRest(w)
    BY <2>1, <2>2, RestFinish DEF SockRest
  <2>3. ASSUME NEW l \in {"stopClose", "unlink"}, NEW s, Goto(p, l, s), UNCHANGED sock
        PROVE  SockRest(w)
    <3>1. CASE w = p
      BY <1>3, <2>1, <2>3, <3>1 DEF SockRest, HelpersKept, LineKept
    <3>2. CASE w # p
      BY <1>2, <1>4, <2>1, <2>3, <3>2
    <3> QED
      BY <3>1, <3>2
  <2> QED
    BY <1>6, <2>2, <2>3 DEF Stop, StopSession, StopClose, Unlink
<1>7. ASSUME Clean PROVE SockRest(w)
  <2>1. sock' = sock /\ Cleaner \in Procs \ {w}
    BY <1>1, <1>7 DEF Clean, CleanSee, CleanDelete, CleanClose, Procs
  <2>2. \E l, s : Goto(Cleaner, l, s)
    BY <1>7, Zenon DEF Clean, CleanSee, CleanDelete, CleanClose
  <2> QED
    BY <1>2, <1>4, <2>1, <2>2
<1>8. ASSUME Age \/ Ask \/ CoreCloses \/ \E s \in Sessions : Answer(s) \/ CoreRecalls(s)
      PROVE  SockRest(w)
  <2>1. UNCHANGED <<sock, work>>
    BY <1>8, Zenon DEF Age, Ask, CoreCloses, Answer, CoreRecalls
  <2> QED
    BY <1>4, <2>1
<1>9. ASSUME NEW v \in Sockets, ClientLeaves(v) PROVE SockRest(w)
  <2> DEFINE r == [sock[v] EXCEPT !.conn = "down"]
  <2>1. Set(v, r) /\ work' = work
    BY <1>9 DEF ClientLeaves, Here
  <2>2. /\ r.conn = "down" /\ r.ch = sock[v].ch /\ r.pump = sock[v].pump /\ r.done = sock[v].done
        /\ r.hand = sock[v].hand /\ r.inbuf = sock[v].inbuf /\ r.outbuf = sock[v].outbuf
        /\ r.sender = sock[v].sender /\ r.outClosed = sock[v].outClosed /\ r \in Socket
    BY PlainTyped DEF Plain, Socket
  <2> HIDE DEF r
  <2>3. sock'[v] = r /\ (v # w => sock'[w] = sock[w])
    BY <2>1, <2>2, SetSock
  <2> QED
    BY <2>1, <2>2, <2>3 DEF SockRest, HelpersKept, LineKept
<1>10. ASSUME NEW v \in Sockets, v # w, Handle(v) PROVE SockRest(w)
  BY <1>1, <1>10, HandleEffect DEF SockEffect, WorkEffect, SockRest, HelpersKept, LineKept
<1>11. ASSUME NEW v \in Sockets, v # w, Connect(v) PROVE SockRest(w)
  <2>1. v \in Procs \ {w} /\ Goto(v, "serve", None) /\ sock'[w] = sock[w]
    BY <1>11, ConnectSock DEF Procs
  <2> QED
    BY <1>2, <2>1 DEF SockRest, HelpersKept, LineKept
<1>12. ASSUME \/ \E v \in Voices : StartRealtimeSession(v) \/ VoiceLeaves(v) \/ Speak(v)
              \/ VoiceFails
              \/ UNCHANGED vars
       PROVE  SockRest(w)
  BY <1>4, <1>12, VoiceEffect DEF vars
<1> QED
  BY <1>5, <1>6, <1>7, <1>8, <1>9, <1>10, <1>11, <1>12 DEF Next

\* A new connection starts with nothing in its buffers.
LEMMA Connected ==
  ASSUME Typed, NEW w \in Sockets, Connect(w)
  PROVE  /\ work'[w].pc = "serve" /\ sock'[w].done = FALSE /\ sock'[w].ch \in Sessions
         /\ sock'[w].outbuf = <<>> /\ sock'[w].inbuf = <<>> /\ sock'[w].hand = None
<1> DEFINE r == [NoSocket EXCEPT !.conn = "up", !.ch = sess[entry].ch, !.done = FALSE,
                                 !.pump = TRUE, !.sender = TRUE, !.outClosed = FALSE]
<1>1. w \in Procs /\ sess[entry].ch \in Sessions
  BY DEF Connect, Procs, Typed, UsedOK, Made
<1>2. NoSocket \in Socket /\ NoSocket.inbuf = <<>> /\ NoSocket.outbuf = <<>> /\ NoSocket.hand = None
  BY DEF NoSocket, Socket
<1>3. /\ r \in Socket /\ r.ch = sess[entry].ch /\ r.done = FALSE
      /\ r.inbuf = <<>> /\ r.outbuf = <<>> /\ r.hand = None
  BY <1>1, <1>2 DEF Socket
<1>4. Set(w, r) /\ Goto(w, "serve", None)
  BY DEF Connect
<1> HIDE DEF r
<1>5. work'[w].pc = "serve"
  BY <1>1, <1>4, GotoWork DEF Labels, Serving
<1> QED
  BY <1>1, <1>3, <1>4, <1>5, SetSock

LEMMA HelpersStep == Typed /\ HelpersReleased /\ [Next]_vars => HelpersReleased'
<1> SUFFICES ASSUME Typed, HelpersReleased, [Next]_vars, NEW w \in Sockets
             PROVE  /\ sock'[w].pump => work'[w].pc = "serve" \/ sock'[w].done
                    /\ sock'[w].sender =>
                         work'[w].pc \in {"serve", "status"} \/ sock'[w].outClosed
                    /\ work'[w].pc = "idle" /\ ~sock'[w].done => sock'[w].conn # "up"
  BY DEF HelpersReleased, Here, At
<1>1. /\ sock[w].pump => work[w].pc = "serve" \/ sock[w].done
      /\ sock[w].sender => work[w].pc \in {"serve", "status"} \/ sock[w].outClosed
      /\ work[w].pc = "idle" /\ ~sock[w].done => sock[w].conn # "up"
  BY DEF HelpersReleased, Here, At
<1>2. CASE SockRest(w)
  BY <1>1, <1>2 DEF SockRest, HelpersKept
<1>3. CASE Handle(w)
  BY <1>1, <1>3, HandleMoves DEF HelperMoves
<1>4. CASE Connect(w)
  BY <1>4, Connected
<1> QED
  BY <1>2, <1>3, <1>4, RestSteps

\* However the client, the handler and whoever else ends the session interleave, none
\* of the goroutines of a connection is left with something to wait for but a full
\* buffer.
THEOREM HelpersAreReleased == Spec => []HelpersReleased
<1>1. Init => HelpersReleased
  <2>1. /\ NoSocket.pump = FALSE /\ NoSocket.sender = FALSE /\ NoSocket.done = TRUE
    BY DEF NoSocket
  <2>2. Init => \A w \in Sockets : Here(w) = NoSocket
    BY DEF Init, Here
  <2> QED
    BY <2>1, <2>2 DEF HelpersReleased
<1> QED
  BY <1>1, InitTyped, NextTyped, HelpersStep, PTL DEF Spec

-----------------------------------------------------------------------------
(* The order of the answers. *)

\* A line of five stages, with nothing in it after message n.
Behind(L, k, e) == \A j \in DOMAIN L[k] : e < L[k][j]
Ahead(L, k, e) == \A j \in DOMAIN L[k] : L[k][j] < e
Filled(L) == \A k \in 1..5 : L[k] \in Seq(Nat) /\ (k > 1 => L[k] \in Seq(Nat \ {0}))
Upto(L, n) == \A k \in 1..5 : \A j \in DOMAIN L[k] : L[k][j] <= n
FirstTaken(L, M, k) == L[k] # <<>> /\ M[k] = Tail(L[k]) /\ \A l \in (1..5) \ {k} : M[l] = L[l]
PutAt(L, M, k, e) == M[k] = Append(L[k], e) /\ \A l \in (1..5) \ {k} : M[l] = L[l]
Passed(L, M, k) ==
    /\ L[k] # <<>> /\ M[k] = Tail(L[k]) /\ M[k - 1] = Append(L[k - 1], Head(L[k]))
    /\ \A l \in (1..5) \ {k - 1, k} : M[l] = L[l]
Ordered(L, n) ==
    /\ Filled(L) /\ Upto(L, n)
    /\ \A k \in 1..5 : Rising(L[k])
    /\ \A k, l \in 1..5 : k < l => Before(L[k], L[l])

LEMMA TailOf ==
  ASSUME NEW S, NEW s \in Seq(S), s # <<>>
  PROVE  /\ Tail(s) \in Seq(S) /\ Head(s) = s[1] /\ 1 \in DOMAIN s /\ Head(s) \in S
         /\ \A j \in DOMAIN Tail(s) : /\ j + 1 \in DOMAIN s /\ Tail(s)[j] = s[j + 1]
                                      /\ j \in Int /\ 1 < j + 1
OBVIOUS

LEMMA AppendOf ==
  ASSUME NEW S, NEW s \in Seq(S), NEW e \in S
  PROVE  /\ Append(s, e) \in Seq(S)
         /\ \A j \in DOMAIN Append(s, e) :
              \/ j \in DOMAIN s /\ Append(s, e)[j] = s[j] /\ j < Len(s) + 1
              \/ j = Len(s) + 1 /\ Append(s, e)[j] = e
OBVIOUS

\* The first of a stage is taken away: it was before the rest of its stage, and is
\* still between the stages before and behind it.
LEMMA TakeFirst ==
  ASSUME NEW L, NEW M, NEW n \in Nat, NEW k \in 1..5, Ordered(L, n), FirstTaken(L, M, k)
  PROVE  /\ Ordered(M, n)
         /\ Head(L[k]) \in 0..n /\ (k > 1 => Head(L[k]) # 0)
         /\ k > 1 => \A l \in k..5 : Behind(M, l, Head(L[k]))
         /\ \A l \in 1..(k - 1) : Ahead(M, l, Head(L[k]))
<1>0. L[k] # <<>> /\ M[k] = Tail(L[k]) /\ \A l \in (1..5) \ {k} : M[l] = L[l]
  BY DEF FirstTaken
<1>1. L[k] \in Seq(Nat) /\ (k > 1 => L[k] \in Seq(Nat \ {0}))
  BY DEF Ordered, Filled
<1>2. /\ M[k] \in Seq(Nat) /\ (k > 1 => M[k] \in Seq(Nat \ {0}))
      /\ Head(L[k]) = L[k][1] /\ 1 \in DOMAIN L[k]
      /\ Head(L[k]) \in Nat /\ (k > 1 => Head(L[k]) # 0)
      /\ \A j \in DOMAIN M[k] : /\ j + 1 \in DOMAIN L[k] /\ M[k][j] = L[k][j + 1]
                                /\ j \in Int /\ 1 < j + 1
  <2>1. PICK S : S = IF k > 1 THEN Nat \ {0} ELSE Nat
    OBVIOUS
  <2>2. L[k] \in Seq(S)
    BY <1>1, <2>1
  <2>3. /\ M[k] \in Seq(S) /\ Head(L[k]) = L[k][1] /\ 1 \in DOMAIN L[k] /\ Head(L[k]) \in S
        /\ \A j \in DOMAIN M[k] : /\ j + 1 \in DOMAIN L[k] /\ M[k][j] = L[k][j + 1]
                                  /\ j \in Int /\ 1 < j + 1
    BY <1>0, <2>2, TailOf
  <2>4. M[k] \in Seq(Nat)
    BY <2>1, <2>3
  <2> QED
    BY <2>1, <2>3, <2>4
<1>3. \A j \in DOMAIN M[k] : \E i \in DOMAIN L[k] : M[k][j] = L[k][i]
  BY <1>2
<1>4. Filled(M)
  BY <1>0, <1>2 DEF Ordered, Filled
<1>5. \A l \in 1..5 : \A j \in DOMAIN M[l] : \E i \in DOMAIN L[l] : M[l][j] = L[l][i]
  BY <1>0, <1>3
<1>6. ASSUME NEW l \in 1..5 PROVE Rising(M[l])
  <2>1. Rising(L[l])
    BY DEF Ordered
  <2>2. CASE l = k
    <3> SUFFICES ASSUME NEW i \in DOMAIN M[k], NEW j \in DOMAIN M[k], i < j, M[k][j] # ChannelClosed
                 PROVE  M[k][i] < M[k][j]
      BY <2>2 DEF Rising
    <3>1. /\ i + 1 \in DOMAIN L[k] /\ j + 1 \in DOMAIN L[k] /\ i + 1 < j + 1
          /\ M[k][i] = L[k][i + 1] /\ M[k][j] = L[k][j + 1]
      BY <1>2
    <3> QED
      BY <2>1, <2>2, <3>1 DEF Rising
  <2>3. CASE l # k
    BY <1>0, <2>1, <2>3
  <2> QED
    BY <2>2, <2>3
<1>7. ASSUME NEW l \in 1..5, NEW h \in 1..5, l < h PROVE Before(M[l], M[h])
  <2> SUFFICES ASSUME NEW i \in DOMAIN M[l], NEW j \in DOMAIN M[h] PROVE M[l][i] < M[h][j]
    BY DEF Before
  <2>1. Before(L[l], L[h])
    BY <1>7 DEF Ordered
  <2>2. PICK x \in DOMAIN L[l], y \in DOMAIN L[h] : M[l][i] = L[l][x] /\ M[h][j] = L[h][y]
    BY <1>5
  <2> QED
    BY <2>1, <2>2 DEF Before
<1>8. ASSUME k > 1, NEW l \in k..5 PROVE Behind(M, l, Head(L[k]))
  <2>1. CASE l = k
    <3>1. Rising(L[k]) /\ \A j \in DOMAIN L[k] : L[k][j] # ChannelClosed
      BY <1>1, <1>8 DEF Ordered, ChannelClosed
    <3> QED
      BY <1>2, <2>1, <3>1 DEF Rising, Behind
  <2>2. CASE l # k
    <3>1. Before(L[k], L[l]) /\ M[l] = L[l]
      BY <1>0, <1>8, <2>2 DEF Ordered
    <3> QED
      BY <1>2, <3>1 DEF Before, Behind
  <2> QED
    BY <2>1, <2>2
<1>9. ASSUME NEW l \in 1..(k - 1) PROVE Ahead(M, l, Head(L[k]))
  <2>1. Before(L[l], L[k]) /\ M[l] = L[l]
    BY <1>0 DEF Ordered
  <2> QED
    BY <1>2, <2>1 DEF Before, Ahead
<1>10. Head(L[k]) <= n
  BY <1>2 DEF Ordered, Upto
<1>11. ASSUME NEW l \in 1..5, NEW j \in DOMAIN M[l] PROVE M[l][j] <= n
  <2>1. PICK i \in DOMAIN L[l] : M[l][j] = L[l][i]
    BY <1>5
  <2> QED
    BY <2>1 DEF Ordered, Upto
<1>12. Upto(M, n)
  BY <1>11 DEF Upto
<1>13. Ordered(M, n)
  BY <1>4, <1>6, <1>7, <1>12 DEF Ordered
<1> QED
  BY <1>2, <1>8, <1>9, <1>10, <1>13

\* A message is put at the end of a stage.
LEMMA PutLast ==
  ASSUME NEW L, NEW M, NEW n \in Nat, NEW k \in 1..5, NEW e \in 0..n, Ordered(L, n),
         \/ e # 0 /\ \A l \in 1..k : Ahead(L, l, e)
         \/ e = 0 /\ k = 1,
         \A l \in (k + 1)..5 : Behind(L, l, e),
         PutAt(L, M, k, e)
  PROVE  Ordered(M, n)
<1>0. M[k] = Append(L[k], e) /\ \A l \in (1..5) \ {k} : M[l] = L[l]
  BY DEF PutAt
<1>1. e \in Nat /\ L[k] \in Seq(Nat) /\ (k > 1 => L[k] \in Seq(Nat \ {0}) /\ e # 0)
  BY DEF Ordered, Filled
<1>2. /\ M[k] \in Seq(Nat) /\ (k > 1 => M[k] \in Seq(Nat \ {0}))
      /\ \A j \in DOMAIN M[k] : \/ j \in DOMAIN L[k] /\ M[k][j] = L[k][j] /\ j < Len(L[k]) + 1
                                \/ j = Len(L[k]) + 1 /\ M[k][j] = e
  <2>1. PICK S : S = IF k > 1 THEN Nat \ {0} ELSE Nat
    OBVIOUS
  <2>2. L[k] \in Seq(S) /\ e \in S
    BY <1>1, <2>1
  <2>3. /\ M[k] \in Seq(S)
        /\ \A j \in DOMAIN M[k] : \/ j \in DOMAIN L[k] /\ M[k][j] = L[k][j] /\ j < Len(L[k]) + 1
                                  \/ j = Len(L[k]) + 1 /\ M[k][j] = e
    BY <1>0, <2>2, AppendOf
  <2>4. M[k] \in Seq(Nat)
    BY <2>1, <2>3
  <2> QED
    BY <2>1, <2>3, <2>4
<1>3. \A l \in 1..5 : \A j \in DOMAIN M[l] :
          (l = k /\ M[l][j] = e) \/ (\E i \in DOMAIN L[l] : M[l][j] = L[l][i])
  BY <1>0, <1>2
<1>4. Filled(M)
  BY <1>0, <1>2 DEF Ordered, Filled
<1>5. ASSUME NEW l \in 1..5, NEW j \in DOMAIN M[l] PROVE M[l][j] <= n
  <2>1. M[l][j] = e \/ \E i \in DOMAIN L[l] : M[l][j] = L[l][i]
    BY <1>3
  <2> QED
    BY <2>1 DEF Ordered, Upto
<1>6. ASSUME NEW l \in 1..5 PROVE Rising(M[l])
  <2>1. Rising(L[l])
    BY DEF Ordered
  <2>2. CASE l = k
    <3> SUFFICES ASSUME NEW i \in DOMAIN M[k], NEW j \in DOMAIN M[k], i < j, M[k][j] # ChannelClosed
                 PROVE  M[k][i] < M[k][j]
      BY <2>2 DEF Rising
    <3>1. \/ j \in DOMAIN L[k] /\ M[k][j] = L[k][j] /\ j < Len(L[k]) + 1
          \/ j = Len(L[k]) + 1 /\ M[k][j] = e
      BY <1>2, Zenon
    <3>2. i \in DOMAIN L[k] /\ M[k][i] = L[k][i]
      <4>1. \/ i \in DOMAIN L[k] /\ M[k][i] = L[k][i] /\ i < Len(L[k]) + 1
            \/ i = Len(L[k]) + 1 /\ M[k][i] = e
        BY <1>2, Zenon
      <4>2. j \in Int /\ j <= Len(L[k]) + 1
        BY <1>1, <3>1
      <4> QED
        BY <4>1, <4>2
    <3>3. e # 0 => L[k][i] < e
      BY <3>2 DEF Ahead
    <3> QED
      BY <2>1, <2>2, <3>1, <3>2, <3>3 DEF Rising, ChannelClosed
  <2>3. CASE l # k
    BY <1>0, <2>1, <2>3
  <2> QED
    BY <2>2, <2>3
<1>7. ASSUME NEW l \in 1..5, NEW h \in 1..5, l < h PROVE Before(M[l], M[h])
  <2> SUFFICES ASSUME NEW i \in DOMAIN M[l], NEW j \in DOMAIN M[h] PROVE M[l][i] < M[h][j]
    BY DEF Before
  <2>1. Before(L[l], L[h])
    BY <1>7 DEF Ordered
  <2>2. CASE l = k /\ M[l][i] = e
    <3>1. Behind(L, h, e) /\ M[h] = L[h]
      BY <1>0, <1>7, <2>2
    <3> QED
      BY <2>2, <3>1 DEF Behind
  <2>3. CASE h = k /\ M[h][j] = e
    <3>1. Ahead(L, l, e) /\ M[l] = L[l]
      BY <1>0, <1>7, <2>3
    <3> QED
      BY <2>3, <3>1 DEF Ahead
  <2>4. CASE /\ \E x \in DOMAIN L[l] : M[l][i] = L[l][x]
             /\ \E y \in DOMAIN L[h] : M[h][j] = L[h][y]
    BY <2>1, <2>4 DEF Before
  <2> QED
    BY <1>3, <2>2, <2>3, <2>4
<1>8. Upto(M, n)
  BY <1>5 DEF Upto
<1> QED
  BY <1>4, <1>6, <1>7, <1>8 DEF Ordered

\* The first of a stage goes to the end of the one before it.
LEMMA PassOn ==
  ASSUME NEW L, NEW M, NEW n \in Nat, NEW k \in 2..5, Ordered(L, n), Passed(L, M, k)
  PROVE  Ordered(M, n)
<1> DEFINE N == [l \in 1..5 |-> IF l = k THEN Tail(L[k]) ELSE L[l]]
           e == Head(L[k])
<1>1. /\ L[k] # <<>> /\ M[k] = Tail(L[k]) /\ M[k - 1] = Append(L[k - 1], e)
      /\ \A l \in (1..5) \ {k - 1, k} : M[l] = L[l]
  BY DEF Passed
<1>2. N[k] = Tail(L[k]) /\ \A l \in (1..5) \ {k} : N[l] = L[l]
  OBVIOUS
<1> HIDE DEF N, e
<1>3. k \in 1..5 /\ k > 1 /\ k - 1 \in 1..5 /\ k - 1 # k /\ (k - 1) + 1 = k
  OBVIOUS
<1>4. FirstTaken(L, N, k)
  BY <1>1, <1>2 DEF FirstTaken
<1>5. /\ Ordered(N, n) /\ e \in 0..n /\ e # 0
      /\ \A l \in k..5 : Behind(N, l, e)
      /\ \A l \in 1..(k - 1) : Ahead(N, l, e)
  BY <1>3, <1>4, TakeFirst DEF e
<1>6. PutAt(N, M, k - 1, e)
  BY <1>1, <1>2, <1>3 DEF PutAt
<1> QED
  BY <1>3, <1>5, <1>6, PutLast

\* Nothing of a line is after n, so the next message is.
LEMMA NextMessage ==
  ASSUME NEW L, NEW n \in Nat, Ordered(L, n)
  PROVE  Ordered(L, n + 1) /\ \A l \in 1..5 : Ahead(L, l, n + 1)
<1>1. ASSUME NEW k \in 1..5, NEW j \in DOMAIN L[k] PROVE L[k][j] < n + 1 /\ L[k][j] <= n + 1
  <2>1. PICK s \in Seq(Nat) : s = L[k]
    BY DEF Ordered, Filled
  <2>2. s[j] \in Nat
    BY <2>1
  <2>3. L[k][j] <= n
    BY DEF Ordered, Upto
  <2> QED
    BY <2>1, <2>2, <2>3
<1>2. Upto(L, n + 1)
  BY <1>1 DEF Upto
<1> QED
  BY <1>1, <1>2 DEF Ordered, Ahead

\* A new message goes to the end of the line.
LEMMA JoinLine ==
  ASSUME NEW L, NEW M, NEW n \in Nat, Ordered(L, n), PutAt(L, M, 5, n + 1)
  PROVE  Ordered(M, n + 1)
<1>1. Ordered(L, n + 1) /\ \A l \in 1..5 : Ahead(L, l, n + 1)
  BY NextMessage
<1>2. n + 1 \in Nat /\ n + 1 \in 0..(n + 1) /\ n + 1 # 0 /\ 5 \in 1..5 /\ (5 + 1)..5 = {}
  OBVIOUS
<1> QED
  BY <1>1, <1>2, PutLast

\* What happens to a channel: a question comes in, is answered, or its answer is
\* taken by a pump.
ChannelMoves(c) ==
    \/ tx'[c] = tx[c] /\ rx'[c] = rx[c] /\ asked' = asked
    \/ tx'[c] = tx[c] /\ rx'[c] \in {rx[c], Append(rx[c], asked + 1)} /\ asked' = asked + 1
    \/ rx[c] # <<>> /\ tx'[c] = Append(tx[c], Head(rx[c])) /\ rx'[c] = Tail(rx[c]) /\ asked' = asked
    \/ tx[c] # <<>> /\ tx'[c] = Tail(tx[c]) /\ rx'[c] = rx[c] /\ asked' = asked

LEMMA ChannelSteps == ASSUME Typed, [Next]_vars, NEW c \in Sessions PROVE ChannelMoves(c)
<1> USE DEF map, dialog
<1>1. tx \in [Sessions -> Seq(Answers)] /\ rx \in [Sessions -> Seq(Answers)]
  BY PlainTyped DEF Plain
<1>2. UNCHANGED dialog => ChannelMoves(c)
  BY DEF ChannelMoves
<1>3. ASSUME NEW p \in Requests, Start(p) PROVE UNCHANGED dialog
  BY <1>3, Zenon DEF Start, StartSession, Drop, Create, Store
<1>4. ASSUME NEW p \in Requests \cup Sockets, Stop(p) PROVE UNCHANGED dialog
  BY <1>4, Zenon DEF Stop, StopSession, StopClose, Unlink
<1>5. Age \/ Clean \/ CoreCloses => UNCHANGED dialog
  BY Zenon DEF Age, Clean, CleanSee, CleanDelete, CleanClose, CoreCloses
<1>6. ASSUME NEW s \in Sessions, CoreRecalls(s) PROVE UNCHANGED dialog
  BY <1>6, Zenon DEF CoreRecalls
<1>7. ASSUME NEW w \in Sockets, Connect(w) \/ ClientLeaves(w) PROVE UNCHANGED dialog
  BY <1>7, Zenon DEF Connect, ClientLeaves
<1>8. Ask => ChannelMoves(c)
  BY <1>1 DEF Ask, ChannelMoves
<1>9. ASSUME NEW s \in Sessions, Answer(s) PROVE ChannelMoves(c)
  <2> DEFINE d == sess[s].ch
  <2>1. /\ rx[d] # <<>> /\ asked' = asked
        /\ tx' = [tx EXCEPT ![d] = Append(@, Head(rx[d]))] /\ rx' = [rx EXCEPT ![d] = Tail(@)]
    BY <1>9 DEF Answer
  <2> HIDE DEF d
  <2> QED
    BY <1>1, <2>1 DEF ChannelMoves
<1>10. ASSUME NEW w \in Sockets, Handle(w) PROVE ChannelMoves(c)
  <2>1. asked' = asked /\ rx' = rx /\ LineMoves(w)
    BY <1>10, HandleEffect, HandleMoves
  <2>2. tx' = tx => ChannelMoves(c)
    BY <2>1 DEF ChannelMoves
  <2>3. Taken(w) => ChannelMoves(c)
    BY <1>1, <2>1 DEF Taken, ChannelMoves
  <2> QED
    BY <2>1, <2>2, <2>3 DEF LineMoves
<1>11. UNCHANGED vars => UNCHANGED dialog
  BY DEF vars
<1> QED
  BY <1>2, <1>3, <1>4, <1>5, <1>6, <1>7, <1>8, <1>9, <1>10, <1>11, VoiceEffect DEF Next

\* Two lines that differ in one stage or two.
Five(a, b, h, t, r) == <<a, b, h, t, r>>

LEMMA FiveStages ==
  ASSUME NEW a, NEW b, NEW h, NEW t, NEW r
  PROVE  /\ Five(a, b, h, t, r)[1] = a /\ Five(a, b, h, t, r)[2] = b
         /\ Five(a, b, h, t, r)[3] = h /\ Five(a, b, h, t, r)[4] = t
         /\ Five(a, b, h, t, r)[5] = r
BY DEF Five

\* A line stays in order whatever happens to its channel.
LEMMA ChannelShift ==
  ASSUME Typed, NEW c \in Sessions, ChannelMoves(c), NEW a, NEW b, NEW h,
         Ordered(Five(a, b, h, tx[c], rx[c]), asked)
  PROVE  Ordered(Five(a, b, h, tx'[c], rx'[c]), asked')
<1> DEFINE L == Five(a, b, h, tx[c], rx[c])
           M == Five(a, b, h, tx'[c], rx'[c])
<1>1. asked \in Nat
  BY PlainTyped, SessionAssumption DEF Plain
<1>2. L[1] = a /\ L[2] = b /\ L[3] = h /\ L[4] = tx[c] /\ L[5] = rx[c]
  BY FiveStages
<1>3. M[1] = a /\ M[2] = b /\ M[3] = h /\ M[4] = tx'[c] /\ M[5] = rx'[c]
  BY FiveStages
<1>4. CASE tx'[c] = tx[c] /\ rx'[c] = rx[c] /\ asked' = asked
  BY <1>4
<1>5. Ordered(L, asked)
  OBVIOUS
<1> HIDE DEF L, M
<1>6. CASE tx'[c] = tx[c] /\ rx'[c] = Append(rx[c], asked + 1) /\ asked' = asked + 1
  <2>1. PutAt(L, M, 5, asked + 1)
    BY <1>2, <1>3, <1>6 DEF PutAt
  <2>2. Ordered(M, asked + 1)
    BY <1>1, <1>5, <2>1, JoinLine
  <2> QED
    BY <1>6, <2>2 DEF M
<1>7. CASE tx'[c] = tx[c] /\ rx'[c] = rx[c] /\ asked' = asked + 1
  <2>1. Ordered(L, asked + 1)
    BY <1>1, <1>5, NextMessage
  <2> QED
    BY <1>7, <2>1 DEF L
<1>8. CASE rx[c] # <<>> /\ tx'[c] = Append(tx[c], Head(rx[c])) /\ rx'[c] = Tail(rx[c]) /\ asked' = asked
  <2>1. Passed(L, M, 5)
    BY <1>2, <1>3, <1>8 DEF Passed
  <2>2. Ordered(M, asked)
    BY <1>1, <1>5, <2>1, PassOn
  <2> QED
    BY <1>8, <2>2 DEF M
<1>9. CASE tx[c] # <<>> /\ tx'[c] = Tail(tx[c]) /\ rx'[c] = rx[c] /\ asked' = asked
  <2>1. FirstTaken(L, M, 4)
    BY <1>2, <1>3, <1>9 DEF FirstTaken
  <2>2. Ordered(M, asked)
    BY <1>1, <1>5, <2>1, TakeFirst
  <2> QED
    BY <1>9, <2>2 DEF M
<1> QED
  BY <1>4, <1>6, <1>7, <1>8, <1>9 DEF ChannelMoves

\* What is in a pump's hand, as a stage.
Hand(r) == IF r.hand = None THEN <<>> ELSE <<r.hand>>
LineOf(w) == Five(sock[w].outbuf, sock[w].inbuf, Hand(sock[w]), tx[sock[w].ch], rx[sock[w].ch])

LEMMA LineIsStages == \A w \in Sockets : Stages(w) = LineOf(w)
BY DEF Stages, LineOf, Five, Hand, Here

\* A line stays in order whatever its own handler does.
LEMMA OwnShift ==
  ASSUME Typed, NEW w \in Sockets, Handle(w), sock[w].ch # None, Ordered(LineOf(w), asked)
  PROVE  Ordered(LineOf(w)', asked')
<1> DEFINE c == sock[w].ch
           L == Five(sock[w].outbuf, sock[w].inbuf, Hand(sock[w]), tx[c], rx[c])
           M == Five(sock'[w].outbuf, sock'[w].inbuf, Hand(sock'[w]), tx'[c], rx[c])
<1>1. asked \in Nat /\ sock[w] \in Socket /\ tx \in [Sessions -> Seq(Answers)]
  BY PlainTyped, SessionAssumption DEF Plain
<1>2. rx' = rx /\ asked' = asked /\ sock'[w].ch = c /\ LineMoves(w)
  BY HandleEffect, HandleMoves DEF SockEffect
<1>3. LineOf(w) = L /\ LineOf(w)' = M
  BY <1>2 DEF LineOf
<1>4. /\ L[1] = sock[w].outbuf /\ L[2] = sock[w].inbuf /\ L[3] = Hand(sock[w])
      /\ L[4] = tx[c] /\ L[5] = rx[c]
  BY FiveStages
<1>5. /\ M[1] = sock'[w].outbuf /\ M[2] = sock'[w].inbuf /\ M[3] = Hand(sock'[w])
      /\ M[4] = tx'[c] /\ M[5] = rx[c]
  BY FiveStages
<1>6. Ordered(L, asked)
  BY <1>3
<1>7. tx' = tx /\ LineKept(w) => M = L
  BY DEF LineKept, Hand
<1> HIDE DEF L, M, c
<1> SUFFICES Ordered(M, asked)
  BY <1>2, <1>3
<1>8. CASE Taken(w)
  <2>1. /\ c \in Sessions /\ tx[c] # <<>> /\ sock[w].hand = None /\ sock'[w].hand = Head(tx[c])
        /\ tx' = [tx EXCEPT ![c] = Tail(@)]
        /\ sock'[w].outbuf = sock[w].outbuf /\ sock'[w].inbuf = sock[w].inbuf
    BY <1>8 DEF Taken, c
  <2>2. Head(tx[c]) \in Answers /\ tx'[c] = Tail(tx[c])
    BY <1>1, <2>1
  <2>3. Hand(sock[w]) = <<>> /\ Hand(sock'[w]) = <<Head(tx[c])>>
    BY <2>1, <2>2, SessionAssumption DEF Hand, Answers
  <2>4. M[3] = Append(L[3], Head(L[4]))
    <3>1. Append(<<>>, Head(tx[c])) = <<Head(tx[c])>>
      BY <2>2
    <3> QED
      BY <1>4, <1>5, <2>3, <3>1
  <2>5. Passed(L, M, 4)
    BY <1>4, <1>5, <2>1, <2>2, <2>4 DEF Passed
  <2> QED
    BY <1>1, <1>6, <2>5, PassOn
<1>9. CASE tx' = tx /\ HasPut(w)
  <2>1. Hand(sock[w]) = <<sock[w].hand>> /\ Hand(sock'[w]) = <<>>
    BY <1>9 DEF HasPut, Hand
  <2>2. L[3] # <<>> /\ M[3] = Tail(L[3]) /\ Head(L[3]) = sock[w].hand
    BY <1>4, <1>5, <2>1
  <2>3. M[2] = Append(L[2], Head(L[3])) /\ M[1] = L[1] /\ M[4] = L[4] /\ M[5] = L[5]
    BY <1>4, <1>5, <1>9, <2>2 DEF HasPut
  <2>4. Passed(L, M, 3)
    BY <2>2, <2>3 DEF Passed
  <2> QED
    BY <1>1, <1>6, <2>4, PassOn
<1>10. CASE tx' = tx /\ Forwarded(w)
  <2>1. /\ L[2] # <<>> /\ M[2] = Tail(L[2]) /\ M[3] = L[3] /\ M[4] = L[4] /\ M[5] = L[5]
        /\ M[1] \in {L[1], Append(L[1], Head(L[2]))}
    BY <1>4, <1>5, <1>10 DEF Forwarded, Hand
  <2>2. CASE M[1] = L[1]
    <3>1. FirstTaken(L, M, 2)
      BY <2>1, <2>2 DEF FirstTaken
    <3> QED
      BY <1>1, <1>6, <3>1, TakeFirst
  <2>3. CASE M[1] = Append(L[1], Head(L[2]))
    <3>1. Passed(L, M, 2)
      BY <2>1, <2>3 DEF Passed
    <3> QED
      BY <1>1, <1>6, <3>1, PassOn
  <2> QED
    BY <2>1, <2>2, <2>3
<1>11. CASE tx' = tx /\ StatusSent(w)
  <2>1. M[1] = Append(L[1], 0) /\ M[2] = L[2] /\ M[3] = L[3] /\ M[4] = L[4] /\ M[5] = L[5]
    BY <1>4, <1>5, <1>11 DEF StatusSent, ChannelClosed, Hand
  <2>2. PutAt(L, M, 1, 0)
    BY <2>1 DEF PutAt
  <2>3. ASSUME NEW l \in 2..5 PROVE Behind(L, l, 0)
    <3>1. PICK s \in Seq(Nat \ {0}) : s = L[l]
      BY <1>6 DEF Ordered, Filled
    <3>2. \A j \in DOMAIN s : 0 < s[j]
      OBVIOUS
    <3> QED
      BY <3>1, <3>2 DEF Behind
  <2>4. 0 \in 0..asked /\ 1 \in 1..5 /\ \A l \in (1 + 1)..5 : Behind(L, l, 0)
    BY <1>1, <2>3
  <2> QED
    BY <1>1, <1>6, <2>2, <2>4, PutLast
<1>12. CASE tx' = tx /\ Written(w)
  <2>1. /\ L[1] # <<>> /\ M[1] = Tail(L[1]) /\ M[2] = L[2] /\ M[3] = L[3] /\ M[4] = L[4]
        /\ M[5] = L[5]
    BY <1>4, <1>5, <1>12 DEF Written, Hand
  <2>2. FirstTaken(L, M, 1)
    BY <2>1 DEF FirstTaken
  <2> QED
    BY <1>1, <1>6, <2>2, TakeFirst
<1> QED
  BY <1>2, <1>6, <1>7, <1>8, <1>9, <1>10, <1>11, <1>12 DEF LineMoves

\* The closing status is only sent by a handler that ends, which forwards no more.
EndLast(w) ==
    /\ work[w].pc \in {"serve", "status"} =>
         \A i \in DOMAIN sock[w].outbuf : sock[w].outbuf[i] # ChannelClosed
    /\ \A i \in DOMAIN sock[w].outbuf :
         sock[w].outbuf[i] = ChannelClosed => i = Len(sock[w].outbuf)

\* A channel, as the line of a socket that has nothing yet; a new connection starts
\* from there.
EmptyLine(c) == Five(<<>>, <<>>, <<>>, tx[c], rx[c])
LinesOK ==
    /\ \A c \in Sessions : Ordered(EmptyLine(c), asked)
    /\ \A w \in Sockets : sock[w].ch # None => Ordered(LineOf(w), asked)
    /\ \A w \in Sockets : EndLast(w)

LEMMA EndStep ==
  ASSUME Typed, [Next]_vars, NEW w \in Sockets, EndLast(w)
  PROVE  /\ work'[w].pc \in {"serve", "status"} =>
              \A i \in DOMAIN sock'[w].outbuf : sock'[w].outbuf[i] # ChannelClosed
         /\ \A i \in DOMAIN sock'[w].outbuf :
              sock'[w].outbuf[i] = ChannelClosed => i = Len(sock'[w].outbuf)
<1> DEFINE S == Answers \cup {ChannelClosed}
<1>1. sock[w] \in Socket /\ sock[w].outbuf \in Seq(S) /\ sock[w].inbuf \in Seq(Answers)
  BY PlainTyped DEF Plain, Socket
<1> HIDE DEF S
<1>2. CASE SockRest(w)
  BY <1>2 DEF SockRest, LineKept, EndLast
<1>3. CASE Connect(w)
  <2>1. sock'[w].outbuf = <<>>
    BY <1>3, Connected
  <2>2. DOMAIN sock'[w].outbuf = {}
    BY <2>1
  <2> QED
    BY <2>2
<1>4. ASSUME Handle(w), sock'[w].outbuf = sock[w].outbuf PROVE EndLast(w)'
  <2>1. work'[w].pc \in {"serve", "status"} => work[w].pc \in {"serve", "status"}
    BY <1>4, HandleMoves DEF HelperMoves
  <2> QED
    BY <1>4, <2>1 DEF EndLast
<1>5. CASE Handle(w) /\ Forwarded(w) /\ sock'[w].outbuf = Append(sock[w].outbuf, Head(sock[w].inbuf))
  <2>1. Head(sock[w].inbuf) \in Answers /\ work[w].pc = "serve"
    BY <1>1, <1>5 DEF Forwarded
  <2>2. Head(sock[w].inbuf) \in S /\ Head(sock[w].inbuf) # ChannelClosed
    BY <2>1 DEF Answers, ChannelClosed, S
  <2> QED
    BY <1>1, <1>5, <2>1, <2>2, AppendOf DEF EndLast
<1>6. CASE StatusSent(w)
  <2>1. ChannelClosed \in S
    BY DEF S
  <2>2. /\ \A j \in DOMAIN sock'[w].outbuf :
             \/ j \in DOMAIN sock[w].outbuf /\ sock'[w].outbuf[j] = sock[w].outbuf[j]
             \/ j = Len(sock[w].outbuf) + 1
        /\ Len(sock'[w].outbuf) = Len(sock[w].outbuf) + 1
    BY <1>1, <1>6, <2>1, AppendOf DEF StatusSent
  <2> QED
    BY <1>6, <2>2 DEF StatusSent, EndLast
<1>7. CASE Handle(w) /\ Written(w)
  <2>1. work'[w].pc \in {"serve", "status"} => work[w].pc \in {"serve", "status"}
    BY <1>7, HandleMoves DEF HelperMoves
  <2>2. /\ \A j \in DOMAIN sock'[w].outbuf :
             j + 1 \in DOMAIN sock[w].outbuf /\ sock'[w].outbuf[j] = sock[w].outbuf[j + 1]
        /\ Len(sock'[w].outbuf) = Len(sock[w].outbuf) - 1
    BY <1>1, <1>7, TailOf DEF Written
  <2>3. ASSUME NEW j \in DOMAIN sock'[w].outbuf, sock'[w].outbuf[j] = ChannelClosed
        PROVE  j = Len(sock'[w].outbuf)
    <3>1. j + 1 = Len(sock[w].outbuf) /\ j \in Int
      BY <1>1, <1>7, <2>2, <2>3 DEF EndLast, Written
    <3> QED
      BY <1>1, <2>2, <3>1
  <2> QED
    BY <2>1, <2>2, <2>3 DEF EndLast
<1>8. CASE Handle(w)
  <2>1. \/ Taken(w) \/ LineKept(w) \/ HasPut(w) \/ StatusSent(w) \/ Written(w)
        \/ Forwarded(w)
    BY <1>8, HandleMoves DEF LineMoves
  <2>2. Taken(w) \/ LineKept(w) \/ HasPut(w) => sock'[w].outbuf = sock[w].outbuf
    BY DEF Taken, LineKept, HasPut
  <2>3. Forwarded(w) => \/ sock'[w].outbuf = sock[w].outbuf
                        \/ sock'[w].outbuf = Append(sock[w].outbuf, Head(sock[w].inbuf))
    BY DEF Forwarded
  <2> QED
    BY <1>4, <1>5, <1>6, <1>7, <1>8, <2>1, <2>2, <2>3 DEF EndLast
<1> QED
  BY <1>2, <1>3, <1>8, RestSteps

LEMMA LinesStep == Typed /\ LinesOK /\ [Next]_vars => LinesOK'
<1> SUFFICES ASSUME Typed, LinesOK, [Next]_vars PROVE LinesOK'
  OBVIOUS
<1>1. ASSUME NEW c \in Sessions
      PROVE  Ordered(Five(<<>>, <<>>, <<>>, tx'[c], rx'[c]), asked')
  <2>1. Ordered(Five(<<>>, <<>>, <<>>, tx[c], rx[c]), asked)
    BY DEF LinesOK, EmptyLine
  <2> QED
    BY <2>1, ChannelSteps, ChannelShift
<1>2. ASSUME NEW w \in Sockets, sock'[w].ch # None PROVE Ordered(LineOf(w)', asked')
  <2>1. CASE SockRest(w)
    <3>1. sock'[w].ch = sock[w].ch /\ LineKept(w) /\ sock[w].ch \in Sessions
      BY <1>2, <2>1, PlainTyped DEF SockRest, HelpersKept, Plain, Socket
    <3>2. PICK c \in Sessions : c = sock[w].ch
      BY <3>1
    <3>3. Ordered(Five(sock[w].outbuf, sock[w].inbuf, Hand(sock[w]), tx[c], rx[c]), asked)
      BY <1>2, <3>1, <3>2 DEF LinesOK, LineOf
    <3>4. Ordered(Five(sock[w].outbuf, sock[w].inbuf, Hand(sock[w]), tx'[c], rx'[c]), asked')
      BY <3>3, ChannelSteps, ChannelShift
    <3>5. LineOf(w)' = Five(sock[w].outbuf, sock[w].inbuf, Hand(sock[w]), tx'[c], rx'[c])
      BY <3>1, <3>2 DEF LineOf, LineKept, Hand
    <3> QED
      BY <3>4, <3>5
  <2>2. CASE Handle(w)
    <3>1. sock'[w].ch = sock[w].ch
      BY <2>2, HandleEffect DEF SockEffect
    <3>2. Ordered(LineOf(w), asked)
      BY <1>2, <3>1 DEF LinesOK
    <3> QED
      BY <1>2, <2>2, <3>1, <3>2, OwnShift
  <2>3. CASE Connect(w)
    <3>1. PICK c \in Sessions : c = sock'[w].ch
      BY <2>3, Connected
    <3>2. LineOf(w)' = Five(<<>>, <<>>, <<>>, tx'[c], rx'[c])
      BY <2>3, <3>1, Connected DEF LineOf, Hand
    <3> QED
      BY <1>1, <3>2
  <2> QED
    BY <2>1, <2>2, <2>3, RestSteps
<1>3. ASSUME NEW w \in Sockets PROVE EndLast(w)'
  <2>1. EndLast(w)
    BY DEF LinesOK
  <2> QED
    BY <2>1, EndStep DEF EndLast
<1> QED
  BY <1>1, <1>2, <1>3 DEF LinesOK, EmptyLine

\* However core, pump, handler and sender interleave, whatever the size of the buffers
\* and whatever they drop, a client gets the answers in the order of its questions and
\* the closing status last.
THEOREM AnswersAreInOrder == Spec => []AnswersInOrder
<1>1. Init => LinesOK
  <2> SUFFICES ASSUME Init PROVE LinesOK
    OBVIOUS
  <2>1. asked = 0 /\ \A c \in Sessions : tx[c] = <<>> /\ rx[c] = <<>>
    BY DEF Init
  <2>2. \A w \in Sockets : sock[w].ch = None /\ sock[w].outbuf = <<>>
    BY DEF Init, NoSocket
  <2>3. ASSUME NEW c \in Sessions PROVE Ordered(EmptyLine(c), asked)
    <3> DEFINE L == Five(<<>>, <<>>, <<>>, tx[c], rx[c])
    <3>1. L[1] = <<>> /\ L[2] = <<>> /\ L[3] = <<>> /\ L[4] = <<>> /\ L[5] = <<>>
      BY <2>1, FiveStages
    <3> HIDE DEF L
    <3>2. \A k \in 1..5 : L[k] = <<>>
      BY <3>1
    <3>3. \A k \in 1..5 : DOMAIN L[k] = {} /\ L[k] \in Seq(Nat) /\ L[k] \in Seq(Nat \ {0})
      <4>1. DOMAIN <<>> = {} /\ <<>> \in Seq(Nat) /\ <<>> \in Seq(Nat \ {0})
        OBVIOUS
      <4> QED
        BY <3>2, <4>1
    <3>4. Filled(L) /\ Upto(L, asked)
      BY <3>3 DEF Filled, Upto
    <3>5. \A k \in 1..5 : Rising(L[k]) /\ \A l \in 1..5 : Before(L[k], L[l])
      BY <3>3 DEF Rising, Before
    <3> QED
      BY <3>4, <3>5 DEF Ordered, L, EmptyLine
  <2> QED
    BY <2>2, <2>3 DEF LinesOK, EndLast
<1>2. LinesOK => AnswersInOrder
  <2> SUFFICES ASSUME LinesOK, NEW w \in Sockets, sock[w].ch # None
               PROVE  /\ \A i \in 1..5 : Rising(Stages(w)[i])
                      /\ \A i, j \in 1..5 : i < j => Before(Stages(w)[i], Stages(w)[j])
                      /\ \A i \in DOMAIN sock[w].outbuf :
                           sock[w].outbuf[i] = ChannelClosed => i = Len(sock[w].outbuf)
    BY DEF AnswersInOrder, Here
  <2>1. Ordered(Stages(w), asked)
    BY LineIsStages DEF LinesOK
  <2> QED
    BY <2>1 DEF LinesOK, EndLast, Ordered
<1> QED
  BY <1>1, <1>2, InitTyped, NextTyped, LinesStep, PTL DEF Spec
\* What a client of a dialog gets, for any core, pump, handler and sender: each answer
\* in its turn, and the status when there are no more.
THEOREM AnswersPrecedeStatus == Spec => []AnswersThenStatus
<1>1. AnswersInOrder /\ StatusLast => AnswersThenStatus
  BY DEF AnswersThenStatus
<1> QED
  BY <1>1, AnswersAreInOrder, StatusIsLast, PTL

\* What is left of a dialog or a call ends by itself, but for a full buffer: the safety
\* core of GoroutinesEnd.
THEOREM GoroutinesAreReleased == Spec => []GoroutinesReleased
<1>1. HelpersReleased /\ VoiceReleased => GoroutinesReleased
  BY DEF GoroutinesReleased
<1> QED
  BY <1>1, HelpersAreReleased, VoicesAreReleased, PTL
=============================================================================
