----------------------------- MODULE ServiceProofs -----------------------------
(***************************************************************************)
(* Proofs about the parts that stand between a user and other services:    *)
(* the proxy of the calls API (Calls), the notification settings and       *)
(* instant notices (Notices), the application's settings and keys          *)
(* (AppConfig), the types of these and of the relays together (MCGateways),*)
(* and the models with their voices and files at the providers (Models).   *)
(* They share no state and no names, and one module holds the proofs.      *)
(***************************************************************************)
EXTENDS MCGateways, MCModels, TLAPS

-----------------------------------------------------------------------------
(* Calls: a running call that a client knows of can be reached. *)

\* A request that is not idle is about a call the backend has started; so are the
\* calls the proxy has in its map or has told a client of.
Asked == [op : {"idle", "start", "events"}, id : CallIds, at : {"-", "backend", "open", "recv"}]
CallsStarted == \A c \in CallIds : phase[c] = "none" =>
    c \notin answered /\ c \notin calls /\ \A r \in CallClients : ask[r].op # "idle" => ask[r].id # c
CallInv == CallTypeOK /\ CallsStarted /\ CallReachable

LEMMA CallStep == CallInv /\ [CallNext]_callVars => CallInv'
<1> SUFFICES ASSUME CallInv, [CallNext]_callVars PROVE CallInv'
  OBVIOUS
<1> USE CallsAssumption DEF CallInv, CallTypeOK, CallsStarted, CallReachable, Request_, Answer, CallModels
<1>0. NoAsk.op = "idle" /\ NoAsk.at = "-" /\ NoAsk.id \in CallIds
      /\ NoAsk = [op |-> "idle", id |-> NoAsk.id, at |-> "-"]
  BY DEF NoAsk
<1>1. ASSUME NEW r \in CallClients, NEW c \in CallIds, NEW t \in Tokens, StartOutgoingCall(r, c, t)
      PROVE  CallInv'
  BY <1>1 DEF StartOutgoingCall
<1>2. ASSUME NEW r \in CallClients, NEW c \in CallIds, NEW t \in Tokens, SubscribeCallEvents(r, c, t)
      PROVE  CallInv'
  BY <1>2 DEF SubscribeCallEvents
<1>3. ASSUME NEW r \in CallClients, StoreCall(r) \/ StartFails(r) PROVE CallInv'
  BY <1>0, <1>3 DEF StoreCall, StartFails
<1>4. ASSUME NEW r \in CallClients, SubscribeStale(r) \/ EventEnded(r) \/ EventsFail(r) PROVE CallInv'
  BY <1>0, <1>4 DEF SubscribeStale, EventEnded, EventsFail
<1>5. ASSUME NEW r \in CallClients, SubscribeOpens(r) PROVE CallInv'
  BY <1>5 DEF SubscribeOpens
<1>6. ASSUME NEW c \in CallIds, NEW t \in Tokens, HangupCall(c, t) PROVE CallInv'
  BY <1>6 DEF HangupCall
<1>7. ASSUME NEW c \in CallIds, CallEnds(c) PROVE CallInv'
  BY <1>7 DEF CallEnds
<1>8. CASE ModelChanges
  BY <1>8 DEF ModelChanges
<1>9. CASE ProxyRestarts
  BY <1>0, <1>9 DEF ProxyRestarts
<1>10. CASE UNCHANGED callVars
  BY <1>10 DEF callVars
<1> QED
  BY <1>1, <1>2, <1>3, <1>4, <1>5, <1>6, <1>7, <1>8, <1>9, <1>10 DEF CallNext

\* Nothing has been started or asked for at the start.
LEMMA CallStarts == CallInit => CallInv
<1> SUFFICES ASSUME CallInit PROVE CallInv
  OBVIOUS
<1>1. NoAsk.op = "idle" /\ NoAsk \in Asked
  BY CallsAssumption DEF NoAsk, Asked
<1> QED
  BY <1>1, CallsAssumption
  DEF CallInit, CallInv, CallTypeOK, CallsStarted, CallReachable, CallModels, Asked

\* Whatever became of earlier subscriptions, and however often the proxy restarts,
\* a running call that a client was told of since the start is in the map.
THEOREM CallsReachable == CallSpec => []CallReachable
<1>1. CallInit => CallInv
  BY CallStarts
<1>2. CallInv => CallReachable
  BY DEF CallInv
<1> QED
  BY <1>1, <1>2, CallStep, PTL DEF CallSpec
-----------------------------------------------------------------------------
(* Notices: a saved setting keeps its value. *)

Rows == [on : SUBSET Settings, number : 0..1, there : BOOLEAN]
Changes == [at : {"idle", "tx"}, what : Settings, on : BOOLEAN, number : 0..1, saw : BOOLEAN]

\* A request that saw the row was right, for rows are never deleted; and before the
\* first row nothing was switched on.
SettingsInv ==
    /\ row \in Rows /\ settle \in [Settlers -> Changes]
    /\ told \in [Settings -> {"-", "on", "off"}]
    /\ \A r \in Settlers : settle[r].saw = TRUE => row.there = TRUE
    /\ row.there = FALSE => row.on = {} /\ row.number = 0
    /\ SettingsKept

\* A change that is answered: its setting is as it asked, the others as they were.
LEMMA SettingSaved ==
  ASSUME SettingsInv, NEW r \in Settlers, NEW base \in Rows, base.there = TRUE,
         \A s \in Settings : told[s] # "-" => (told[s] = "on" <=> s \in base.on),
         row' = WithSetting(base, settle[r]), Answered(r, TRUE)
  PROVE  SettingsInv'
<1>1. row' \in Rows /\ row'.there = TRUE
  BY DEF WithSetting, Row, Rows, Changes, SettingsInv
<1>2. settle' \in [Settlers -> Changes]
  BY DEF Answered, Waiting, Changes, Settings, SettingsInv
<1>3. /\ told' \in [Settings -> {"-", "on", "off"}]
      /\ \A s \in Settings : told'[s] = IF s = settle[r].what
                                        THEN IF settle[r].on THEN "on" ELSE "off" ELSE told[s]
  BY DEF SettingsInv, Answered
<1>4. row'.on = IF settle[r].on THEN base.on \cup {settle[r].what} ELSE base.on \ {settle[r].what}
  BY DEF WithSetting, Row
<1>5. SettingsKept'
  BY <1>3, <1>4 DEF SettingsKept
<1> QED
  BY <1>1, <1>2, <1>3, <1>5 DEF SettingsInv

\* One that fails changes nothing.
LEMMA SettingFails ==
  ASSUME SettingsInv, NEW r \in Settlers, UNCHANGED row, Answered(r, FALSE)
  PROVE  SettingsInv'
<1>1. settle' \in [Settlers -> Changes] /\ \A q \in Settlers : settle'[q].saw = TRUE => settle[q].saw = TRUE
  BY DEF Answered, Waiting, Changes, Settings, SettingsInv
<1>2. UNCHANGED told
  BY DEF Answered
<1> QED
  BY <1>1, <1>2 DEF SettingsInv, SettingsKept

LEMMA SettingsStep == SettingsInv /\ [NoticeNext]_noticeVars => SettingsInv'
<1> SUFFICES ASSUME SettingsInv, [NoticeNext]_noticeVars PROVE SettingsInv'
  OBVIOUS
<1>1. ASSUME NEW r \in Settlers, NEW what \in Settings, NEW on \in BOOLEAN, NEW n \in 0..1,
             BeginChange(r, what, on, n)
      PROVE  SettingsInv'
  BY <1>1 DEF BeginChange, SettingsInv, SettingsKept, Changes, Rows
<1>2. ASSUME NEW r \in Settlers, SavesSetting(r) PROVE SettingsInv'
  <2>1. CASE settle[r].saw
    <3>1. row \in Rows /\ row.there = TRUE
      BY <2>1 DEF SettingsInv, Changes
    <3> QED
      BY <1>2, <2>1, <3>1, SettingSaved DEF SavesSetting, SettingsInv, SettingsKept
  <2>2. CASE ~settle[r].saw /\ ~row.there
    <3>1. NewRow \in Rows /\ NewRow.there = TRUE /\ NewRow.on = {}
      BY DEF NewRow, Row, Rows
    <3>2. row.there = FALSE
      BY <2>2 DEF SettingsInv, Rows
    <3>3. \A s \in Settings : told[s] # "-" => (told[s] = "on" <=> s \in NewRow.on)
      BY <3>1, <3>2 DEF SettingsInv, SettingsKept
    <3> QED
      BY <1>2, <2>2, <3>1, <3>3, SettingSaved DEF SavesSetting
  <2>3. CASE ~settle[r].saw /\ row.there
    BY <1>2, <2>3, SettingFails DEF SavesSetting
  <2> QED
    BY <2>1, <2>2, <2>3
<1>3. ASSUME NEW r \in Settlers, ChangeFails(r) PROVE SettingsInv'
  BY <1>3, SettingFails DEF ChangeFails
<1>4. ASSUME NEW c \in Settings \ {"events"}, DeleteNotificationsChannel(c) PROVE SettingsInv'
  <2> DEFINE last == NoChannelLeft(Without(c))
  <2>1. row' = (IF last THEN Row(row.on \ {c, "events"}, 0, row.there) ELSE Without(c))
        /\ told' = [s \in Settings |-> IF s = c \/ (last /\ s = "events") THEN "off" ELSE told[s]]
        /\ row.there /\ UNCHANGED settle
    BY <1>4 DEF DeleteNotificationsChannel
  <2> HIDE DEF last
  <2>2. row' \in Rows /\ row'.there = TRUE
    BY <2>1 DEF SettingsInv, Without, Row, Rows
  <2>3. row'.on = IF last THEN row.on \ {c, "events"} ELSE row.on \ {c}
    BY <2>1 DEF Without, Row
  <2>4. SettingsKept' /\ told' \in [Settings -> {"-", "on", "off"}]
    BY <2>1, <2>3 DEF SettingsInv, SettingsKept
  <2> QED
    BY <2>1, <2>2, <2>4 DEF SettingsInv
<1>5. CASE InstantNext \/ UNCHANGED noticeVars
  <2>1. UNCHANGED <<row, settle, told>>
    BY <1>5 DEF InstantNext, noticeVars, SendInstantNotification, TakeNotice, WriteNotice, TabCloses,
                Instant
  <2> QED
    BY <2>1 DEF SettingsInv, SettingsKept
<1> QED
  BY <1>1, <1>2, <1>3, <1>4, <1>5 DEF NoticeNext, SettingsNext, UpdateNotification, SaveNotificationEvent

\* Before the first change nothing is switched on.
LEMMA NoticeStarts == NoticeInit => SettingsInv
BY DEF NoticeInit, SettingsInv, SettingsKept, NoRow, Row, Rows, Changes, Waiting, Settings

\* No order of changes and removals, with any of them failing, loses a setting that
\* was acknowledged, nor turns on one that was not asked for.
THEOREM SettingsAreKept == NoticeSpec => []SettingsKept
<1>1. NoticeInit => SettingsInv
  BY NoticeStarts
<1>2. SettingsInv => SettingsKept
  BY DEF SettingsInv
<1> QED
  BY <1>1, <1>2, SettingsStep, PTL DEF NoticeSpec
-----------------------------------------------------------------------------
(* Instant notices: passed on once, to their owner. *)

\* What stands in a sequence, and that nothing stands in it twice.
In(q, x) == \E i \in 1..Len(q) : q[i] = x
Distinct(q) == \A i, j \in 1..Len(q) : i < j => q[i] # q[j]

LEMMA AppendIn ==
  ASSUME NEW S, NEW q \in Seq(S), NEW m \in S, ~In(q, m), Distinct(q)
  PROVE  /\ Append(q, m) \in Seq(S) /\ Distinct(Append(q, m))
         /\ \A x : In(Append(q, m), x) => In(q, x) \/ x = m
<1> DEFINE p == Append(q, m)
<1>1. /\ p \in Seq(S) /\ Len(q) \in Nat /\ Len(p) = Len(q) + 1 /\ p[Len(q) + 1] = m
      /\ \A i \in 1..Len(q) : p[i] = q[i]
  OBVIOUS
<1> HIDE DEF p
<1>2. Distinct(p) /\ \A x : In(p, x) => In(q, x) \/ x = m
  BY <1>1 DEF Distinct, In
<1> QED
  BY <1>1, <1>2 DEF p

LEMMA TailIn ==
  ASSUME NEW S, NEW q \in Seq(S), q # <<>>, Distinct(q)
  PROVE  /\ Head(q) \in S /\ Tail(q) \in Seq(S) /\ Distinct(Tail(q))
         /\ In(q, Head(q)) /\ ~In(Tail(q), Head(q))
         /\ \A x : In(Tail(q), x) => In(q, x)
<1> DEFINE p == Tail(q)
<1>1. /\ p \in Seq(S) /\ Len(q) \in Nat \ {0} /\ Len(p) = Len(q) - 1
      /\ Head(q) = q[1] /\ q[1] \in S
      /\ \A i \in 1..Len(p) : p[i] = q[i + 1]
  OBVIOUS
<1> HIDE DEF p
<1>2. Distinct(p) /\ \A x : In(p, x) => In(q, x)
  BY <1>1 DEF Distinct, In
<1>3. In(q, q[1]) /\ ~In(p, q[1])
  BY <1>1 DEF Distinct, In
<1> QED
  BY <1>1, <1>2, <1>3 DEF p

\* A notice is in one place: the channel, the hand of one socket, or among those one
\* socket has passed on.  Notices are told apart by their numbers.
Note == Nat \X NoticeUsers
InOnePlace ==
    /\ Distinct(inbox)
    /\ \A t \in Tabs : tab[t].hand # <<>> =>
           /\ ~In(inbox, tab[t].hand)
           /\ \A u \in Tabs : tab[t].hand \notin got[u]
           /\ \A u \in Tabs : tab[u].hand = tab[t].hand => u = t
    /\ \A t \in Tabs : \A m \in got[t] : ~In(inbox, m)
Numbered ==
    /\ \A m : In(inbox, m) => m[1] <= sent
    /\ \A t \in Tabs : tab[t].hand # <<>> => tab[t].hand[1] <= sent
    /\ \A t \in Tabs : \A m \in got[t] : m[1] <= sent
InstantTyped ==
    /\ sent \in Nat /\ inbox \in Seq(Note)
    /\ tab \in [Tabs -> [user : NoticeUsers \cup {NoUser}, hand : Note \cup {<<>>}]]
    /\ got \in [Tabs -> SUBSET Note]
    /\ \A t \in Tabs : tab[t].user = NoUser => tab[t].hand = <<>> /\ got[t] = {}
InstantInv == InstantTyped /\ Numbered /\ InOnePlace /\ NoticeOnceToOwner

\* A notice that is put into the channel is a new one.
LEMMA NoticeSent ==
  ASSUME InstantInv, NEW u \in NoticeUsers, SendInstantNotification(u)
  PROVE  InstantInv'
<1>a. <<sent + 1, u>> \in Note
  BY DEF InstantInv, InstantTyped, Note
<1>0. PICK m \in Note : m = <<sent + 1, u>>
  BY <1>a
<1>1. sent' = sent + 1 /\ sent \in Nat /\ m[1] = sent + 1 /\ UNCHANGED <<tab, got>>
  BY <1>0 DEF SendInstantNotification, InstantInv, InstantTyped
<1>2. /\ ~In(inbox, m)
      /\ \A t \in Tabs : tab[t].hand # <<>> => tab[t].hand # m
      /\ \A t \in Tabs : m \notin got[t]
  BY <1>1 DEF InstantInv, Numbered
<1>3. /\ inbox' \in Seq(Note) /\ Distinct(inbox')
      /\ \A x : In(inbox', x) => In(inbox, x) \/ x = m
  <2>1. CASE inbox' = Append(inbox, m)
    BY <1>2, <2>1, AppendIn DEF InstantInv, InstantTyped, InOnePlace
  <2>2. CASE UNCHANGED inbox
    BY <2>2 DEF InstantInv, InstantTyped, InOnePlace
  <2> QED
    BY <1>0, <2>1, <2>2 DEF SendInstantNotification
<1>4. Numbered'
  <2>1. \A x : In(inbox', x) => x[1] <= sent + 1
    <3> SUFFICES ASSUME NEW x, In(inbox, x) PROVE x[1] <= sent + 1
      BY <1>1, <1>3
    <3>1. PICK i \in 1..Len(inbox) : x = inbox[i]
      BY DEF In
    <3>2. x \in Note
      BY <3>1 DEF InstantInv, InstantTyped
    <3> QED
      BY <1>1, <3>2 DEF InstantInv, Numbered, Note
  <2>2. \A t \in Tabs : tab[t].hand # <<>> => tab[t].hand \in Note
    BY DEF InstantInv, InstantTyped
  <2>3. \A t \in Tabs : \A x \in got[t] : x \in Note
    BY DEF InstantInv, InstantTyped
  <2>4. \A x \in Note : x[1] <= sent => x[1] <= sent + 1
    BY <1>1 DEF Note
  <2> QED
    BY <1>1, <2>1, <2>2, <2>3, <2>4 DEF InstantInv, Numbered
<1>5. InOnePlace'
  BY <1>1, <1>2, <1>3 DEF InstantInv, InOnePlace
<1> QED
  BY <1>1, <1>3, <1>4, <1>5 DEF InstantInv, InstantTyped, NoticeOnceToOwner

\* A socket takes it out of the channel.
LEMMA NoticeTaken ==
  ASSUME InstantInv, NEW t \in Tabs, TakeNotice(t)
  PROVE  InstantInv'
<1>0. PICK m \in Note : m = Head(inbox)
  BY TailIn DEF InstantInv, InstantTyped, InOnePlace, TakeNotice
<1>1. /\ inbox' \in Seq(Note) /\ Distinct(inbox') /\ In(inbox, m) /\ ~In(inbox', m)
      /\ \A x : In(inbox', x) => In(inbox, x)
  BY <1>0, TailIn DEF InstantInv, InstantTyped, InOnePlace, TakeNotice
<1>2. /\ tab'[t] = [user |-> tab[t].user, hand |-> m] /\ tab[t].user # NoUser
      /\ \A u \in Tabs \ {t} : tab'[u] = tab[u]
      /\ tab' \in [Tabs -> [user : NoticeUsers \cup {NoUser}, hand : Note \cup {<<>>}]]
      /\ UNCHANGED <<got, sent>>
  BY <1>0 DEF InstantInv, InstantTyped, TakeNotice
<1>3. /\ \A u \in Tabs : tab[u].hand # <<>> => tab[u].hand # m
      /\ \A u \in Tabs : m \notin got[u]
  BY <1>1 DEF InstantInv, InOnePlace
<1>4. InOnePlace'
  BY <1>1, <1>2, <1>3 DEF InstantInv, InOnePlace
<1>5. Numbered'
  BY <1>1, <1>2 DEF InstantInv, Numbered
<1>6. InstantTyped'
  BY <1>1, <1>2 DEF InstantInv, InstantTyped
<1> QED
  BY <1>2, <1>4, <1>5, <1>6 DEF InstantInv, NoticeOnceToOwner

\* It writes it to its own user, or forgets it.
LEMMA NoticeWritten ==
  ASSUME InstantInv, NEW t \in Tabs, WriteNotice(t)
  PROVE  InstantInv'
<1> DEFINE m == tab[t].hand
<1>1. /\ tab'[t] = [user |-> tab[t].user, hand |-> <<>>] /\ m # <<>> /\ tab[t].user # NoUser
      /\ \A u \in Tabs \ {t} : tab'[u] = tab[u]
      /\ tab' \in [Tabs -> [user : NoticeUsers \cup {NoUser}, hand : Note \cup {<<>>}]]
      /\ UNCHANGED <<inbox, sent>>
  BY DEF InstantInv, InstantTyped, WriteNotice
<1>2. \A u \in Tabs : got'[u] = got[u] \/ (u = t /\ m[2] = tab[t].user /\ got'[u] = got[u] \cup {m})
  BY DEF InstantInv, InstantTyped, WriteNotice
<1>3. InstantTyped'
  BY <1>1 DEF InstantInv, InstantTyped, WriteNotice
<1>4. Numbered'
  <2> HIDE DEF m
  <2>1. m = tab[t].hand
    BY DEF m
  <2>2. m[1] <= sent
    BY <1>1, <2>1 DEF InstantInv, Numbered
  <2>3. \A u \in Tabs : tab'[u].hand # <<>> => tab'[u].hand[1] <= sent
    <3>1. tab'[t].hand = <<>>
      BY <1>1
    <3> QED
      BY <1>1, <3>1 DEF InstantInv, Numbered
  <2>4. \A u \in Tabs : \A x \in got'[u] : x[1] <= sent
    BY <1>2, <2>2 DEF InstantInv, Numbered
  <2> QED
    BY <1>1, <2>3, <2>4 DEF InstantInv, Numbered
<1>5. InOnePlace'
  BY <1>1, <1>2 DEF InstantInv, InstantTyped, InOnePlace
<1>6. NoticeOnceToOwner'
  BY <1>1, <1>2 DEF InstantInv, InstantTyped, InOnePlace, NoticeOnceToOwner
<1> QED
  BY <1>3, <1>4, <1>5, <1>6 DEF InstantInv

LEMMA InstantStep == InstantInv /\ [NoticeNext]_noticeVars => InstantInv'
<1> SUFFICES ASSUME InstantInv, [NoticeNext]_noticeVars PROVE InstantInv'
  OBVIOUS
<1> USE DEF InstantInv, InstantTyped, Numbered, InOnePlace, NoticeOnceToOwner
<1>1. ASSUME NEW t \in Tabs, NEW u \in NoticeUsers, Instant(t, u) PROVE InstantInv'
  BY <1>1 DEF Instant, Closed
<1>2. ASSUME NEW t \in Tabs, TabCloses(t) PROVE InstantInv'
  BY <1>2 DEF TabCloses, Closed
<1>3. CASE SettingsNext \/ UNCHANGED noticeVars
  <2>1. UNCHANGED <<inbox, tab, got, sent>>
    BY <1>3 DEF SettingsNext, noticeVars, BeginChange, UpdateNotification, SaveNotificationEvent,
                SavesSetting, ChangeFails, DeleteNotificationsChannel
  <2> QED
    BY <2>1
<1> QED
  BY <1>1, <1>2, <1>3, NoticeSent, NoticeTaken, NoticeWritten DEF NoticeNext, InstantNext

\* No notice has been sent at the start.
LEMMA InstantStarts == NoticeInit => InstantInv
BY DEF NoticeInit, InstantInv, InstantTyped, Numbered, InOnePlace, NoticeOnceToOwner, Closed, In,
       Distinct, Note

\* However many sockets compete for the channel, whoever opens and closes them, one of
\* them passes a notice on, once, and to the user it is for.
THEOREM NoticesOnce == NoticeSpec => []NoticeOnceToOwner
<1>1. NoticeInit => InstantInv
  BY InstantStarts
<1>2. InstantInv => NoticeOnceToOwner
  BY DEF InstantInv
<1> QED
  BY <1>1, <1>2, InstantStep, PTL DEF NoticeSpec
-----------------------------------------------------------------------------
(* AppConfig: the keys in the table outlive what happens to the process. *)

SessionRow == conf["auth.session"].val
EmailRow == conf["auth.email_key"].val
ServiceRow == conf["svc.service_key"].val
PairRow == conf["widg.ed25519_keys"].val

\* Values are generations that have been; an empty value is not encrypted.
ConfTyped ==
    /\ conf \in [ConfKeys -> [val : 0..gen, under : AppMasterKeys \cup {"plain"}]]
    /\ deployed \in AppMasterKeys /\ moved \in AppMasterKeys /\ legacyEnv \in BOOLEAN
    /\ boot \in {"down", "session", "created", "email", "service", "up"}
    /\ mem \in [session : 0..gen, email : 0..gen, service : 0..gen, pair : 0..gen]
    /\ hands \subseteq 1..gen
    /\ admin \in [op : {"none", "set", "reset", "service", "pair"}, left : SUBSET ConfKeys, val : 0..gen]
    /\ leaving \in BOOLEAN /\ newPair \in BOOLEAN
    /\ gen \in 1..MaxGen
    /\ mails \subseteq 1..gen /\ codes \subseteq 1..gen /\ retired \subseteq 1..gen
    /\ lapsed \subseteq 0..gen

\* The process runs on the key the table is under.
OneMasterKey ==
    /\ \A k \in ConfKeys : conf[k].under \in {"plain", moved}
    /\ \A k \in ConfKeys : conf[k].val = 0 => conf[k].under = "plain"
    /\ boot # "down" => moved = deployed

\* A request writes the keys of its kind; one that resets the session does that first.
AdminOK ==
    /\ admin.op # "none" => boot = "up"
    /\ admin.op = "none" => admin.left = {}
    /\ admin.op = "set" => admin.left \subseteq UNION AdminHandlers
    /\ admin.op = "reset" => /\ admin.left \subseteq {"auth.session", "auth.created"} /\ admin.val = 0
                             /\ "auth.session" \notin admin.left => SessionRow = 0
    /\ admin.op = "service" => admin.left \subseteq {"svc.service_key"} /\ admin.val # 0
    /\ admin.op = "pair" => admin.left \subseteq {"widg.ed25519_keys"} /\ admin.val # 0
    /\ leaving => boot = "up"

\* The email key is made once, from SESSION_KEY_LEGACY when there are old addresses.
EmailOK ==
    /\ EmailRow # 0 => mails \subseteq {EmailRow}
    /\ EmailRow = 0 => mails \subseteq {Legacy} /\ (mails # {} => legacyEnv = TRUE)
    /\ boot \in {"service", "up"} => EmailRow # 0 /\ mem.email = EmailRow

\* Pairs are told apart by age: the table has the youngest, and a process that was not
\* up when a pair was generated knows no other.
PairOK ==
    /\ \A p \in lapsed : p = 0 \/ p < PairRow
    /\ codes \subseteq {PairRow} \cup lapsed
    /\ hands \subseteq {PairRow} \cup lapsed /\ mem.pair \in {0, PairRow} \cup lapsed
    /\ newPair = FALSE => hands \subseteq {PairRow} /\ mem.pair \in {0, PairRow}
    /\ admin.op = "pair" => PairRow < admin.val

\* Keys for sessions and for the service are never the same, and none is used again.
RetireOK ==
    /\ SessionRow \notin retired /\ ServiceRow \notin retired
    /\ leaving = FALSE => mem.session \notin retired /\ mem.service \notin retired
    /\ \A a \in {SessionRow, mem.session}, b \in {ServiceRow, mem.service} : a = b => a = 0
    /\ admin.op = "service" => admin.val \notin retired \cup {SessionRow, mem.session, mem.service}

ConfInv == ConfTyped /\ OneMasterKey /\ AdminOK /\ EmailOK /\ PairOK /\ RetireOK
\* The keys of the four kinds, and what the settings handlers write, are apart.
LEMMA KeysApart ==
  /\ {"auth.session", "auth.created", "auth.email_key", "svc.service_key",
      "widg.ed25519_keys"} \subseteq ConfKeys
  /\ UNION AdminHandlers \subseteq ConfKeys
  /\ \A k \in UNION AdminHandlers :
       k \notin {"auth.session", "auth.email_key", "svc.service_key", "widg.ed25519_keys"}
BY AppConfigAssumption DEF ConfKeys, SetDistribMail, SetGAUTH, SetCarpintero, SetOperBot

\* A row is written under the key of the process.
LEMMA RowWritten ==
  ASSUME ConfTyped, OneMasterKey, boot # "down", NEW k \in ConfKeys, NEW v \in 0..gen',
         SetAppConfig(k, v), gen <= gen', gen' \in Nat, UNCHANGED moved
  PROVE  /\ conf' \in [ConfKeys -> [val : 0..gen', under : AppMasterKeys \cup {"plain"}]]
         /\ conf'[k].val = v /\ \A j \in ConfKeys \ {k} : conf'[j] = conf[j]
         /\ \A j \in ConfKeys : conf'[j].under \in {"plain", moved'}
         /\ \A j \in ConfKeys : conf'[j].val = 0 => conf'[j].under = "plain"
<1> DEFINE w == prepareAppConfigValueForStorage(v)
<1>1. /\ w \in [val : 0..gen', under : AppMasterKeys \cup {"plain"}] /\ w.val = v
      /\ w.under \in {"plain", moved} /\ (w.val = 0 => w.under = "plain")
  BY DEF prepareAppConfigValueForStorage, Unset, ConfTyped, OneMasterKey
<1>2. conf' = [conf EXCEPT ![k] = w]
  BY DEF SetAppConfig
<1> HIDE DEF w
<1>3. conf \in [ConfKeys -> [val : 0..gen', under : AppMasterKeys \cup {"plain"}]]
  BY DEF ConfTyped
<1> QED
  BY <1>1, <1>2, <1>3 DEF OneMasterKey

\* Each step of the start.
LEMMA BootStep ==
  ASSUME ConfInv, Boot
  PROVE  ConfInv'
<1> USE KeysApart, AppConfigAssumption DEF Running, Goes, Legacy, SessionRow, EmailRow, ServiceRow, PairRow
<1>1. CASE EncryptAppConfigSensitiveValues
  <2>1. ConfTyped'
    BY <1>1 DEF EncryptAppConfigSensitiveValues, prepareAppConfigValueForStorage, Unset, ConfInv, ConfTyped
  <2>2. OneMasterKey' /\ \A k \in ConfKeys : conf'[k].val = conf[k].val
    BY <1>1 DEF EncryptAppConfigSensitiveValues, prepareAppConfigValueForStorage, Unset, ConfInv,
       ConfTyped, OneMasterKey
  <2>3. AdminOK' /\ EmailOK'
    BY <1>1, <2>2 DEF EncryptAppConfigSensitiveValues, ConfInv, AdminOK, EmailOK
  <2>4. PairOK' /\ RetireOK'
    BY <1>1, <2>2 DEF EncryptAppConfigSensitiveValues, ConfInv, PairOK, RetireOK
  <2> QED
    BY <2>1, <2>2, <2>3, <2>4 DEF ConfInv
<1>2. CASE LoadOrInitKey
  <2>1. CASE SessionRow # 0
    <3>1. /\ mem' = [mem EXCEPT !.session = SessionRow] /\ UNCHANGED <<conf, gen>> /\ boot' = "email"
          /\ boot = "session"
      BY <1>2, <2>1 DEF LoadOrInitKey
    <3>2. ConfTyped' /\ OneMasterKey'
      BY <1>2, <3>1 DEF LoadOrInitKey, ConfInv, ConfTyped, OneMasterKey
    <3>3. AdminOK' /\ EmailOK' /\ PairOK'
      BY <1>2, <3>1 DEF LoadOrInitKey, ConfInv, ConfTyped, AdminOK, EmailOK, PairOK
    <3>4. RetireOK'
      BY <1>2, <3>1 DEF LoadOrInitKey, ConfInv, ConfTyped, AdminOK, RetireOK
    <3> QED
      BY <3>2, <3>3, <3>4 DEF ConfInv
  <2>2. CASE SessionRow = 0
    <3>1. /\ gen < MaxGen /\ gen' = gen + 1 /\ SetAppConfig("auth.session", gen + 1)
          /\ boot = "session" /\ boot' = "created" /\ UNCHANGED mem
      BY <1>2, <2>2 DEF LoadOrInitKey
    <3>2. /\ conf' \in [ConfKeys -> [val : 0..gen', under : AppMasterKeys \cup {"plain"}]]
          /\ SessionRow' = gen + 1 /\ \A j \in ConfKeys \ {"auth.session"} : conf'[j] = conf[j]
          /\ OneMasterKey'
      BY <1>2, <3>1, RowWritten DEF LoadOrInitKey, ConfInv, ConfTyped, OneMasterKey
    <3>3. ConfTyped'
      BY <1>2, <3>1, <3>2 DEF LoadOrInitKey, ConfInv, ConfTyped
    <3>4. AdminOK' /\ EmailOK' /\ PairOK'
      BY <1>2, <3>1, <3>2 DEF LoadOrInitKey, ConfInv, ConfTyped, AdminOK, EmailOK, PairOK
    <3>5. RetireOK'
      BY <1>2, <3>1, <3>2 DEF LoadOrInitKey, ConfInv, ConfTyped, AdminOK, RetireOK
    <3> QED
      BY <3>2, <3>3, <3>4, <3>5 DEF ConfInv
  <2> QED
    BY <2>1, <2>2
<1>3. CASE SaveCreated
  <2>1. /\ SetAppConfig("auth.created", 1) /\ UNCHANGED gen /\ boot = "created" /\ boot' = "email"
        /\ mem' = [mem EXCEPT !.session = SessionRow]
    BY <1>3 DEF SaveCreated
  <2>2. /\ conf' \in [ConfKeys -> [val : 0..gen', under : AppMasterKeys \cup {"plain"}]]
        /\ \A j \in ConfKeys \ {"auth.created"} : conf'[j] = conf[j]
        /\ OneMasterKey'
    BY <1>3, <2>1, RowWritten DEF SaveCreated, ConfInv, ConfTyped, OneMasterKey
  <2>3. ConfTyped'
    BY <1>3, <2>1, <2>2 DEF SaveCreated, ConfInv, ConfTyped
  <2>4. AdminOK' /\ EmailOK' /\ PairOK'
    BY <1>3, <2>1, <2>2 DEF SaveCreated, ConfInv, ConfTyped, AdminOK, EmailOK, PairOK
  <2>5. RetireOK'
    BY <1>3, <2>1, <2>2 DEF SaveCreated, ConfInv, ConfTyped, AdminOK, RetireOK
  <2> QED
    BY <2>2, <2>3, <2>4, <2>5 DEF ConfInv
<1>4. CASE loadOrInitEmailKey
  <2>1. boot = "email" /\ boot' = "service"
    BY <1>4 DEF loadOrInitEmailKey
  <2>2. CASE EmailRow # 0
    <3>1. mem' = [mem EXCEPT !.email = EmailRow] /\ UNCHANGED <<conf, gen>>
      BY <1>4, <2>2 DEF loadOrInitEmailKey
    <3>2. ConfTyped' /\ OneMasterKey'
      BY <1>4, <2>1, <3>1 DEF loadOrInitEmailKey, ConfInv, ConfTyped, OneMasterKey
    <3>3. AdminOK' /\ EmailOK' /\ PairOK'
      BY <1>4, <2>1, <2>2, <3>1 DEF loadOrInitEmailKey, ConfInv, ConfTyped, AdminOK, EmailOK, PairOK
    <3>4. RetireOK'
      BY <1>4, <2>1, <3>1 DEF loadOrInitEmailKey, ConfInv, ConfTyped, AdminOK, RetireOK
    <3> QED
      BY <3>2, <3>3, <3>4 DEF ConfInv
  <2>3. CASE EmailRow = 0
    <3>1. PICK first \in 1..MaxGen :
            /\ first = IF legacyEnv THEN 1 ELSE gen + 1
            /\ SetAppConfig("auth.email_key", first) /\ mem' = [mem EXCEPT !.email = first]
            /\ gen' = IF legacyEnv THEN gen ELSE gen + 1
      BY <1>4, <2>3 DEF loadOrInitEmailKey, ConfInv, ConfTyped
    <3>2. /\ conf' \in [ConfKeys -> [val : 0..gen', under : AppMasterKeys \cup {"plain"}]]
          /\ EmailRow' = first /\ \A j \in ConfKeys \ {"auth.email_key"} : conf'[j] = conf[j]
          /\ OneMasterKey'
      BY <1>4, <2>1, <3>1, RowWritten DEF loadOrInitEmailKey, ConfInv, ConfTyped, OneMasterKey
    <3>3. ConfTyped'
      BY <1>4, <2>1, <3>1, <3>2 DEF loadOrInitEmailKey, ConfInv, ConfTyped
    <3>4. AdminOK' /\ PairOK'
      BY <1>4, <2>1, <3>1, <3>2 DEF loadOrInitEmailKey, ConfInv, ConfTyped, AdminOK, PairOK
    <3>5. EmailOK'
      BY <1>4, <2>1, <2>3, <3>1, <3>2 DEF loadOrInitEmailKey, ConfInv, ConfTyped, EmailOK
    <3>6. RetireOK'
      BY <1>4, <2>1, <3>1, <3>2 DEF loadOrInitEmailKey, ConfInv, ConfTyped, AdminOK, RetireOK
    <3> QED
      BY <3>2, <3>3, <3>4, <3>5, <3>6 DEF ConfInv
  <2> QED
    BY <2>2, <2>3
<1>5. CASE LoadServiceKey
  <2>1. ConfTyped' /\ OneMasterKey'
    BY <1>5 DEF LoadServiceKey, ConfInv, ConfTyped, OneMasterKey
  <2>2. AdminOK' /\ EmailOK' /\ PairOK'
    BY <1>5 DEF LoadServiceKey, ConfInv, ConfTyped, AdminOK, EmailOK, PairOK
  <2>3. RetireOK'
    BY <1>5 DEF LoadServiceKey, ConfInv, ConfTyped, AdminOK, RetireOK
  <2> QED
    BY <2>1, <2>2, <2>3 DEF ConfInv
<1> QED
  BY <1>1, <1>2, <1>3, <1>4, <1>5 DEF Boot
\* A request of the administrator begins; what it generates is new.
LEMMA RequestBegins ==
  ASSUME ConfInv, NEW op \in {"set", "reset", "service", "pair"}, NEW keys \in SUBSET ConfKeys,
         NEW v \in 0..gen', Begins(op, keys, v),
         \/ op = "set" /\ keys \in AdminHandlers /\ v = 1 /\ UNCHANGED gen
         \/ op = "reset" /\ keys = {"auth.session", "auth.created"} /\ v = 0 /\ UNCHANGED gen
         \/ /\ gen < MaxGen /\ gen' = gen + 1 /\ v = gen + 1
            /\ \/ op = "service" /\ keys = {"svc.service_key"}
               \/ op = "pair" /\ keys = {"widg.ed25519_keys"}
  PROVE  ConfInv'
<1> USE DEF Begins, SessionRow, EmailRow, ServiceRow, PairRow
<1>0. /\ admin' = [op |-> op, left |-> keys, val |-> v] /\ boot = "up" /\ gen <= gen'
      /\ UNCHANGED <<conf, boot, mem>>
  BY DEF ConfInv, ConfTyped
<1>1. ConfTyped'
  <2>1. gen' \in 1..MaxGen /\ gen \in Nat
    BY AppConfigAssumption DEF ConfInv, ConfTyped
  <2>2. admin' \in [op : {"none", "set", "reset", "service", "pair"}, left : SUBSET ConfKeys,
                   val : 0..gen']
    BY <1>0
  <2>3. /\ conf' \in [ConfKeys -> [val : 0..gen', under : AppMasterKeys \cup {"plain"}]]
        /\ mem' \in [session : 0..gen', email : 0..gen', service : 0..gen', pair : 0..gen']
    BY <1>0, <2>1 DEF ConfInv, ConfTyped
  <2>4. UNCHANGED <<deployed, moved, legacyEnv, boot, hands, leaving, newPair, mails, codes, lapsed, retired>>
    OBVIOUS
  <2> QED
    BY <1>0, <2>1, <2>2, <2>3, <2>4 DEF ConfInv, ConfTyped
<1>2. OneMasterKey' /\ EmailOK' /\ PairOK'
  <2>1. OneMasterKey' /\ EmailOK'
    BY DEF ConfInv, OneMasterKey, EmailOK
  <2>2. v = gen + 1 => PairRow < v
    BY KeysApart DEF ConfInv, ConfTyped
  <2> QED
    BY <1>0, <2>1, <2>2 DEF ConfInv, PairOK
<1>3. AdminOK'
  BY <1>0 DEF ConfInv, ConfTyped, AdminOK
<1>4. RetireOK'
  <2>1. v = gen + 1 => v \notin retired \cup {SessionRow, mem.session, mem.service}
    BY KeysApart DEF ConfInv, ConfTyped
  <2> QED
    BY <1>0, <2>1 DEF ConfInv, RetireOK
<1> QED
  BY <1>1, <1>2, <1>3, <1>4 DEF ConfInv

\* One row is written, for the request of the administrator.
LEMMA AdminWrites ==
  ASSUME ConfInv, NEW k \in admin.left, ResetOrder(k), SetAppConfig(k, admin.val),
         ReplacesPair, admin' = NoRequest \/ (admin'.op = admin.op /\ admin.op # "pair"),
         UNCHANGED <<deployed, moved, legacyEnv, boot, mem, hands, gen, mails, codes>>
  PROVE  /\ k \in ConfKeys /\ boot = "up" /\ admin.op # "none"
         /\ conf' \in [ConfKeys -> [val : 0..gen, under : AppMasterKeys \cup {"plain"}]]
         /\ conf'[k].val = admin.val /\ \A j \in ConfKeys \ {k} : conf'[j] = conf[j]
         /\ OneMasterKey' /\ EmailOK' /\ PairOK'
         /\ newPair' \in BOOLEAN /\ lapsed' \subseteq 0..gen
<1> USE KeysApart DEF SessionRow, EmailRow, ServiceRow, PairRow
<1>1. k \in ConfKeys /\ boot = "up" /\ admin.op # "none" /\ admin.val \in 0..gen
  BY DEF ConfInv, ConfTyped, AdminOK
<1>2. /\ conf' \in [ConfKeys -> [val : 0..gen, under : AppMasterKeys \cup {"plain"}]]
      /\ conf'[k].val = admin.val /\ \A j \in ConfKeys \ {k} : conf'[j] = conf[j]
      /\ OneMasterKey'
  BY <1>1, RowWritten DEF ConfInv, ConfTyped, OneMasterKey
<1>3. k # "auth.email_key" /\ (k = "widg.ed25519_keys" <=> admin.op = "pair")
  BY <1>1 DEF ConfInv, ConfTyped, AdminOK
<1>4. EmailOK'
  BY <1>1, <1>2, <1>3 DEF ConfInv, EmailOK
<1>5. newPair' \in BOOLEAN /\ lapsed' \subseteq 0..gen
  <2>1. newPair' \in BOOLEAN
    BY DEF ReplacesPair, ConfInv, ConfTyped
  <2>2. conf["widg.ed25519_keys"].val \in 0..gen /\ lapsed \subseteq 0..gen
    BY DEF ConfInv, ConfTyped
  <2>3. lapsed' \subseteq 0..gen
    BY <2>2 DEF ReplacesPair
  <2> QED
    BY <2>1, <2>3
<1>6. PairOK'
  <2>0. admin'.op # "pair"
    BY DEF NoRequest
  <2>1. CASE admin.op = "pair"
    <3>1. newPair' = TRUE /\ lapsed' = lapsed \cup {PairRow}
      BY <2>1 DEF ReplacesPair
    <3>2. PairRow' = admin.val /\ PairRow < admin.val
      BY <1>1, <1>2, <1>3, <2>1 DEF ConfInv, PairOK
    <3>3. PairRow \in Nat /\ admin.val \in Nat /\ \A p \in lapsed : p \in Nat
      BY <1>1 DEF ConfInv, ConfTyped
    <3> QED
      BY <2>0, <3>1, <3>2, <3>3 DEF ConfInv, PairOK
  <2>2. CASE admin.op # "pair"
    <3>1. newPair' = newPair /\ lapsed' = lapsed /\ PairRow' = PairRow
      <4>1. PairRow' = PairRow
        BY <1>1, <1>2, <1>3, <2>2 DEF ConfInv, ConfTyped
      <4>2. newPair' = newPair
        BY <2>2 DEF ReplacesPair, ConfInv, ConfTyped
      <4> QED
        BY <2>2, <4>1, <4>2 DEF ReplacesPair
    <3> QED
      BY <2>0, <3>1 DEF ConfInv, PairOK
  <2> QED
    BY <2>1, <2>2
<1> QED
  BY <1>1, <1>2, <1>4, <1>5, <1>6

\* What the writes of a request do to the keys of sessions and of the service.
LEMMA WriteStep ==
  ASSUME ConfInv, NEW k \in ConfKeys, WriteConfig(k)
  PROVE  ConfInv'
<1> USE KeysApart DEF SessionRow, EmailRow, ServiceRow, PairRow
<1>1. /\ boot = "up" /\ admin.op # "none" /\ UNCHANGED <<deployed, moved, legacyEnv, boot, mem, hands, gen, mails>>
      /\ conf' \in [ConfKeys -> [val : 0..gen, under : AppMasterKeys \cup {"plain"}]]
      /\ conf'[k].val = admin.val /\ \A j \in ConfKeys \ {k} : conf'[j] = conf[j]
      /\ OneMasterKey' /\ EmailOK' /\ PairOK'
      /\ newPair' \in BOOLEAN /\ lapsed' \subseteq 0..gen /\ UNCHANGED codes
      /\ k \in admin.left /\ ResetOrder(k)
  <2>1. admin' = NoRequest \/ (admin'.op = admin.op /\ admin.op # "pair")
    BY DEF WriteConfig, ConfInv, ConfTyped, AdminOK
  <2> QED
    BY <2>1, AdminWrites DEF WriteConfig
<1>2. CASE admin.left = {k}
  <2>1. /\ admin' = NoRequest /\ leaving' = (leaving \/ admin.op \in {"reset", "service"})
        /\ retired' = retired \cup Replaced(admin.op)
    BY <1>2 DEF WriteConfig
  <2>2. leaving' \in BOOLEAN /\ (leaving' = FALSE => leaving = FALSE /\ admin.op \notin {"reset", "service"})
    BY <2>1 DEF ConfInv, ConfTyped
  <2>3. Replaced(admin.op) = (CASE admin.op = "reset" -> {mem.session} [] admin.op = "service" -> {mem.service}
                               [] OTHER -> {}) \ {0}
    BY DEF Replaced
  <2>4. ConfTyped' /\ AdminOK'
    BY <1>1, <2>1, <2>2, <2>3 DEF ConfInv, ConfTyped, AdminOK, NoRequest
  <2>5. CASE admin.op = "reset"
    <3>1. SessionRow' = 0 /\ ServiceRow' = ServiceRow /\ retired' = retired \cup ({mem.session} \ {0})
      BY <1>1, <1>2, <2>1, <2>3, <2>5 DEF ConfInv, ConfTyped, AdminOK
    <3> QED
      BY <1>1, <2>1, <2>2, <2>4, <2>5, <3>1 DEF ConfInv, ConfTyped, RetireOK, NoRequest
  <2>6. CASE admin.op = "service"
    <3>1. /\ SessionRow' = SessionRow /\ ServiceRow' = admin.val
          /\ retired' = retired \cup ({mem.service} \ {0})
      BY <1>1, <1>2, <2>1, <2>3, <2>6 DEF ConfInv, ConfTyped, AdminOK
    <3> QED
      BY <1>1, <2>1, <2>2, <2>4, <2>6, <3>1 DEF ConfInv, ConfTyped, AdminOK, RetireOK, NoRequest
  <2>7. CASE admin.op \in {"set", "pair"}
    <3>1. SessionRow' = SessionRow /\ ServiceRow' = ServiceRow /\ retired' = retired
      BY <1>1, <1>2, <2>1, <2>3, <2>7 DEF ConfInv, ConfTyped, AdminOK
    <3> QED
      BY <1>1, <2>1, <2>2, <2>4, <2>7, <3>1 DEF ConfInv, ConfTyped, RetireOK, NoRequest
  <2> QED
    BY <1>1, <2>5, <2>6, <2>7 DEF ConfInv, ConfTyped
<1>3. CASE admin.left # {k}
  <2>1. /\ admin' = [admin EXCEPT !.left = admin.left \ {k}] /\ UNCHANGED <<leaving, retired>>
        /\ admin.op \in {"set", "reset"}
    BY <1>1, <1>3 DEF WriteConfig, ConfInv, ConfTyped, AdminOK
  <2>2. /\ \/ admin.op = "set" /\ SessionRow' = SessionRow
           \/ admin.op = "reset" /\ SessionRow' = 0 /\ admin.left = {"auth.session", "auth.created"}
              /\ k = "auth.session"
        /\ ServiceRow' = ServiceRow
    BY <1>1, <1>3, <2>1 DEF ResetOrder, ConfInv, ConfTyped, AdminOK
  <2>3. ConfTyped' /\ AdminOK'
    BY <1>1, <2>1, <2>2 DEF ConfInv, ConfTyped, AdminOK
  <2>4. RetireOK'
    BY <1>1, <2>1, <2>2 DEF ConfInv, ConfTyped, RetireOK
  <2> QED
    BY <1>1, <2>3, <2>4 DEF ConfInv
<1> QED
  BY <1>2, <1>3

\* A write that fails, or whose answer is lost, retires nothing.
LEMMA WriteFails ==
  ASSUME ConfInv, WriteConfigFails
  PROVE  ConfInv'
<1> USE KeysApart DEF SessionRow, EmailRow, ServiceRow, PairRow
<1>1. /\ admin.op # "none" \/ UNCHANGED <<conf, lapsed, newPair>>
      /\ admin' = NoRequest
      /\ UNCHANGED <<deployed, moved, legacyEnv, boot, mem, hands, leaving, gen, mails, codes, retired>>
  BY DEF WriteConfigFails, NoRequest, ConfInv, ConfTyped, AdminOK
<1>2. CASE UNCHANGED <<conf, lapsed, newPair>>
  <2>1. ConfTyped' /\ AdminOK'
    BY <1>1, <1>2 DEF ConfInv, ConfTyped, AdminOK, NoRequest
  <2>2. OneMasterKey' /\ EmailOK' /\ PairOK' /\ RetireOK'
    BY <1>1, <1>2 DEF ConfInv, OneMasterKey, EmailOK, PairOK, RetireOK, NoRequest
  <2> QED
    BY <2>1, <2>2 DEF ConfInv
<1>3. ASSUME NEW k \in admin.left, ResetOrder(k), SetAppConfig(k, admin.val), ReplacesPair
      PROVE  ConfInv'
  <2>1. /\ boot = "up" /\ admin.op # "none" /\ k \in ConfKeys
        /\ conf' \in [ConfKeys -> [val : 0..gen, under : AppMasterKeys \cup {"plain"}]]
        /\ conf'[k].val = admin.val /\ \A j \in ConfKeys \ {k} : conf'[j] = conf[j]
        /\ OneMasterKey' /\ EmailOK' /\ PairOK'
        /\ newPair' \in BOOLEAN /\ lapsed' \subseteq 0..gen
    BY <1>1, <1>3, AdminWrites
  <2>2. ConfTyped' /\ AdminOK'
    BY <1>1, <2>1 DEF ConfInv, ConfTyped, AdminOK, NoRequest
  <2>3. /\ SessionRow' \in {SessionRow, 0}
        /\ ServiceRow' = ServiceRow \/ (admin.op = "service" /\ ServiceRow' = admin.val)
    BY <1>3, <2>1 DEF ConfInv, ConfTyped, AdminOK
  <2>4. RetireOK'
    BY <1>1, <2>1, <2>3 DEF ConfInv, ConfTyped, AdminOK, RetireOK, NoRequest
  <2> QED
    BY <2>1, <2>2, <2>4 DEF ConfInv
<1> QED
  BY <1>2, <1>3 DEF WriteConfigFails
LEMMA AdministerStep ==
  ASSUME ConfInv, Administer
  PROVE  ConfInv'
<1>0. gen \in 1..MaxGen /\ 1 \in 0..gen /\ 0 \in 0..gen /\ gen + 1 \in 0..(gen + 1)
  BY AppConfigAssumption DEF ConfInv, ConfTyped
<1>1. CASE SetConfigs
  <2>1. \A h \in AdminHandlers : h \in SUBSET ConfKeys
    BY KeysApart
  <2> QED
    BY <1>0, <1>1, <2>1, RequestBegins DEF SetConfigs
<1>2. CASE CreateNewSessionKey
  <2>1. {"auth.session", "auth.created"} \in SUBSET ConfKeys
    BY KeysApart
  <2> QED
    BY <1>0, <1>2, <2>1, RequestBegins DEF CreateNewSessionKey
<1>3. CASE GenerateServiceKey
  <2>1. {"svc.service_key"} \in SUBSET ConfKeys
    BY KeysApart
  <2> QED
    BY <1>0, <1>3, <2>1, RequestBegins DEF GenerateServiceKey
<1>4. CASE GenerateWidgetKey
  <2>1. {"widg.ed25519_keys"} \in SUBSET ConfKeys
    BY KeysApart
  <2> QED
    BY <1>0, <1>4, <2>1, RequestBegins DEF GenerateWidgetKey
<1> QED
  BY <1>1, <1>2, <1>3, <1>4, WriteStep, WriteFails DEF Administer

\* The process stops, or the operator moves the table to another master key.
LEMMA OperateStep ==
  ASSUME ConfInv, Operate
  PROVE  ConfInv'
<1> USE DEF SessionRow, EmailRow, ServiceRow, PairRow, ConfInv
<1>1. CASE Stopped
  <2>1. ConfTyped'
    <3>1. NoKeys \in [session : 0..gen, email : 0..gen, service : 0..gen, pair : 0..gen]
      BY DEF NoKeys, ConfTyped
    <3>2. NoRequest \in [op : {"none", "set", "reset", "service", "pair"}, left : SUBSET ConfKeys,
                         val : 0..gen]
      BY DEF NoRequest, ConfTyped
    <3> QED
      BY <1>1, <3>1, <3>2 DEF Stopped, ConfTyped
  <2>a. AdminOK'
    BY <1>1 DEF Stopped, AdminOK, NoRequest
  <2>2. OneMasterKey' /\ EmailOK'
    BY <1>1 DEF Stopped, OneMasterKey, EmailOK, NoKeys
  <2>b. PairOK'
    <3>1. /\ hands' = {} /\ mem'.pair = 0 /\ admin'.op = "none"
          /\ UNCHANGED <<conf, codes, lapsed>>
      BY <1>1 DEF Stopped, NoKeys, NoRequest
    <3> QED
      BY <3>1 DEF PairOK
  <2>3. RetireOK'
    BY <1>1 DEF Stopped, ConfTyped, RetireOK, NoKeys, NoRequest
  <2> QED
    BY <2>1, <2>2, <2>3, <2>a, <2>b
<1>2. CASE RunAppConfigRekey
  <2>1. PICK new \in AppMasterKeys : RekeyAppConfigSensitiveValues(new)
    BY <1>2 DEF RunAppConfigRekey
  <2>2. ConfTyped'
    BY <1>2, <2>1 DEF RunAppConfigRekey, RekeyAppConfigSensitiveValues, ConfTyped
  <2>3. OneMasterKey' /\ \A k \in ConfKeys : conf'[k].val = conf[k].val
    BY <1>2, <2>1 DEF RunAppConfigRekey, RekeyAppConfigSensitiveValues, ConfTyped, OneMasterKey
  <2>4. AdminOK' /\ EmailOK'
    BY <1>2, <2>3, KeysApart DEF RunAppConfigRekey, AdminOK, EmailOK
  <2>5. PairOK' /\ RetireOK'
    BY <1>2, <2>3, KeysApart DEF RunAppConfigRekey, PairOK, RetireOK
  <2> QED
    BY <2>2, <2>3, <2>4, <2>5
<1>3. CASE DeployKey
  BY <1>3 DEF DeployKey, ConfTyped, OneMasterKey, AdminOK, EmailOK, PairOK, RetireOK
<1>4. CASE DropLegacyEnv
  BY <1>4 DEF DropLegacyEnv, ConfTyped, OneMasterKey, AdminOK, EmailOK, PairOK, RetireOK
<1> QED
  BY <1>1, <1>2, <1>3, <1>4 DEF Operate, ProcessStops, RestartApp

LEMMA OneMore ==
  ASSUME NEW n \in Nat, NEW S, S \subseteq 1..n, NEW x \in 0..n, x # 0
  PROVE  S \cup {x} \subseteq 1..n
OBVIOUS

\* The keys are used.
LEMMA UseStep ==
  ASSUME ConfInv, StoreEmail \/ WidgetNewCode \/ ReadPair \/ CachePair
  PROVE  ConfInv'
<1> USE KeysApart DEF SessionRow, EmailRow, ServiceRow, PairRow, ConfInv, Signed
<1>1. CASE StoreEmail
  <2>1. ConfTyped'
    <3>a. mem.email \in 0..gen /\ gen \in Nat /\ mails \subseteq 1..gen
      BY DEF ConfTyped
    <3>b. mem.email # 0 /\ mails' = mails \cup {mem.email}
      BY <1>1 DEF StoreEmail, EmailOK
    <3>1. mails' \subseteq 1..gen
      BY <3>a, <3>b, OneMore
    <3>2. UNCHANGED <<conf, deployed, moved, legacyEnv, boot, mem, hands, admin, leaving, gen, codes, lapsed, newPair, retired>>
      BY <1>1 DEF StoreEmail
    <3> QED
      BY <3>1, <3>2 DEF ConfTyped
  <2>2. OneMasterKey' /\ AdminOK' /\ RetireOK'
    BY <1>1 DEF StoreEmail, OneMasterKey, AdminOK, RetireOK
  <2>3. EmailOK' /\ PairOK'
    BY <1>1 DEF StoreEmail, ConfTyped, EmailOK, PairOK
  <2> QED
    BY <2>1, <2>2, <2>3
<1>2. CASE WidgetNewCode
  <2>1. ConfTyped'
    <3>a. mem.pair \in 0..gen /\ gen \in Nat /\ codes \subseteq 1..gen
      BY DEF ConfTyped
    <3>b. mem.pair # 0 /\ codes' \in {codes, codes \cup {mem.pair}}
      BY <1>2 DEF WidgetNewCode
    <3>1. codes' \subseteq 1..gen
      BY <3>a, <3>b, OneMore
    <3>2. UNCHANGED <<conf, deployed, moved, legacyEnv, boot, mem, hands, admin, leaving, gen, mails, lapsed, newPair, retired>>
      BY <1>2 DEF WidgetNewCode
    <3> QED
      BY <3>1, <3>2 DEF ConfTyped
  <2>2. OneMasterKey' /\ AdminOK' /\ RetireOK'
    BY <1>2 DEF WidgetNewCode, OneMasterKey, AdminOK, RetireOK
  <2>3. EmailOK' /\ PairOK'
    BY <1>2 DEF WidgetNewCode, ConfTyped, EmailOK, PairOK
  <2> QED
    BY <2>1, <2>2, <2>3
<1>3. CASE ReadPair
  <2>1. ConfTyped'
    <3>a. PairRow \in 0..gen /\ gen \in Nat /\ hands \subseteq 1..gen
      BY DEF ConfTyped
    <3>b. PairRow # 0 /\ hands' = hands \cup {PairRow}
      BY <1>3 DEF ReadPair
    <3>1. hands' \subseteq 1..gen
      BY <3>a, <3>b, OneMore
    <3>2. UNCHANGED <<conf, deployed, moved, legacyEnv, boot, mem, admin, leaving, gen, mails, codes, lapsed, newPair, retired>>
      BY <1>3 DEF ReadPair
    <3> QED
      BY <3>1, <3>2 DEF ConfTyped
  <2>2. OneMasterKey' /\ AdminOK' /\ RetireOK'
    BY <1>3 DEF ReadPair, OneMasterKey, AdminOK, RetireOK
  <2>3. EmailOK' /\ PairOK'
    BY <1>3 DEF ReadPair, ConfTyped, EmailOK, PairOK
  <2> QED
    BY <2>1, <2>2, <2>3
<1>4. CASE CachePair
  <2>1. PICK pair \in hands : /\ mem' = [mem EXCEPT !.pair = pair]
                              /\ hands' \in {hands, hands \ {pair}} /\ Signed(pair)
    BY <1>4 DEF CachePair
  <2>2. ConfTyped'
    BY <1>4, <2>1 DEF CachePair, ConfTyped
  <2>3. /\ mem'.session = mem.session /\ mem'.email = mem.email /\ mem'.service = mem.service
        /\ mem'.pair = pair
    BY <2>1 DEF ConfTyped
  <2>4. OneMasterKey' /\ AdminOK' /\ EmailOK'
    BY <1>4, <2>3 DEF CachePair, OneMasterKey, AdminOK, EmailOK
  <2>5. PairOK'
    BY <1>4, <2>1, <2>3 DEF CachePair, ConfTyped, PairOK
  <2>6. RetireOK'
    BY <1>4, <2>3 DEF CachePair, RetireOK
  <2> QED
    BY <2>2, <2>4, <2>5, <2>6
<1> QED
  BY <1>1, <1>2, <1>3, <1>4

LEMMA ConfStep == ConfInv /\ [ConfNext]_confVars => ConfInv'
<1> SUFFICES ASSUME ConfInv, [ConfNext]_confVars PROVE ConfInv'
  OBVIOUS
<1>1. CASE UNCHANGED confVars
  BY <1>1 DEF confVars, ConfInv, ConfTyped, OneMasterKey, AdminOK, EmailOK, PairOK, RetireOK,
              SessionRow, EmailRow, ServiceRow, PairRow
<1> QED
  BY <1>1, BootStep, AdministerStep, OperateStep, UseStep DEF ConfNext

LEMMA ConfStarts == ConfInit => ConfInv
<1> SUFFICES ASSUME ConfInit PROVE ConfInv
  OBVIOUS
<1>1. ConfTyped
  <2>1. gen \in 1..MaxGen /\ conf \in [ConfKeys -> [val : 0..gen, under : AppMasterKeys \cup {"plain"}]]
    BY AppConfigAssumption DEF ConfInit, Unset
  <2>2. /\ mem \in [session : 0..gen, email : 0..gen, service : 0..gen, pair : 0..gen]
        /\ admin \in [op : {"none", "set", "reset", "service", "pair"}, left : SUBSET ConfKeys,
                     val : 0..gen]
    BY <2>1 DEF ConfInit, NoKeys, NoRequest
  <2>3. legacyEnv \in BOOLEAN /\ mails \subseteq 1..gen
    <3>1. legacyEnv \in BOOLEAN
      BY Zenon DEF ConfInit
    <3>2. mails \subseteq {1}
      BY Zenon DEF ConfInit, Legacy
    <3> QED
      BY <2>1, <3>1, <3>2
  <2> QED
    BY <2>1, <2>2, <2>3 DEF ConfInit, ConfTyped
<1>2. OneMasterKey /\ AdminOK
  BY DEF ConfInit, OneMasterKey, AdminOK, Unset, NoRequest
<1>3. EmailOK /\ PairOK /\ RetireOK
  BY KeysApart DEF ConfInit, EmailOK, PairOK, RetireOK, Unset, NoKeys, NoRequest, SessionRow,
     EmailRow, ServiceRow, PairRow
<1> QED
  BY <1>1, <1>2, <1>3 DEF ConfInv

\* Wherever a start, a change of settings or a move to another master key stops, one
\* key opens the whole table, and a process that is up reads every row.
THEOREM TableAlwaysOpens == ConfSpec => []TableOpens
<1>1. ConfInv => TableOpens
  BY DEF ConfInv, OneMasterKey, TableOpens, GetAppConfig, decodeAppConfigValue
<1> QED
  BY <1>1, ConfStarts, ConfStep, PTL DEF ConfSpec

\* Stored addresses and signed widget codes stay good across stops at any step of the
\* start, resets of the session key, lost answers and moves of the table.
THEOREM KeysOutlive == ConfSpec => []KeysOutliveRestarts
<1>1. ConfInv => KeysOutliveRestarts
  BY DEF ConfInv, ConfTyped, EmailOK, PairOK, EmailRow, PairRow, KeysOutliveRestarts,
     WidgetParseCode, helperWidgetKeys
<1> QED
  BY <1>1, ConfStarts, ConfStep, PTL DEF ConfSpec

\* A key that was reset or replaced is never accepted again once the restart that was
\* promised is over.
THEOREM RetiredNeverBack == ConfSpec => []RetiredStaysRetired
<1>1. ConfInv => RetiredStaysRetired
  <2> SUFFICES ASSUME ConfInv PROVE RetiredStaysRetired
    OBVIOUS
  <2>1. ASSUME boot = "up", ~leaving, NEW key \in retired
        PROVE  ~serviceKeyInterceptor(key) /\ ~WidgetParseToken(key) /\ ~WidgetParseExpiredToken(key)
    BY <2>1 DEF ConfInv, ConfTyped, RetireOK, serviceKeyInterceptor, WidgetParseToken,
       WidgetParseExpiredToken
  <2>2. ASSUME ~newPair, NEW pair \in lapsed
        PROVE  ~WidgetParseCode(pair)
    <3>1. newPair = FALSE
      BY <2>2, Zenon DEF ConfInv, ConfTyped
    <3>2. PairRow \in Nat /\ pair \in Nat
      BY KeysApart DEF ConfInv, ConfTyped, PairRow
    <3> QED
      BY <3>1, <3>2 DEF ConfInv, PairOK, PairRow, WidgetParseCode, helperWidgetKeys
  <2> QED
    BY <2>1, <2>2 DEF RetiredStaysRetired
<1> QED
  BY <1>1, ConfStarts, ConfStep, PTL DEF ConfSpec

\* What a key opened stays open until the key is replaced, and is closed after that.
THEOREM KeysLiveAsLongAsTheyShould == ConfSpec => []KeyLifetimes
<1>1. KeysOutliveRestarts /\ RetiredStaysRetired => KeyLifetimes
  BY DEF KeyLifetimes
<1> QED
  BY <1>1, KeysOutlive, RetiredNeverBack, PTL

-----------------------------------------------------------------------------
(* The types of relays, calls, notices and configuration, together. *)

\* A relay's step keeps its types, whatever handler it is.
LEMMA RelayTypeStep == RelayTypeOK /\ [RelayNext]_relayVars => RelayTypeOK'
<1> SUFFICES ASSUME RelayTypeOK, [RelayNext]_relayVars PROVE RelayTypeOK'
  OBVIOUS
<1> DEFINE Ends == [Sides -> {"none", "open", "idle", "closed"}]
           Shaped(c) == /\ c \in Ends
                        /\ c["client"] # "none" => relay.shape = "socket"
                        /\ c["target"] = "idle" => relay.shape # "socket"
           Kept == [conn EXCEPT !["target"] = "idle"]
<1>1. Shaped(conn) /\ Shaped(ClosedAll) /\ (relay.shape # "socket" => Shaped(Kept))
  BY DEF RelayTypeOK, ClosedAll, Sides
<1>2. \A c \in {"open", "closed"} : Shaped([conn EXCEPT !["target"] = c])
  BY DEF RelayTypeOK, Sides
<1>3. Started(relay.pumps) \in [Both -> {"off", "read"}]
      /\ \A p \in Both : Started(relay.pumps)[p] # "off" => p \in relay.pumps
  BY DEF Started
<1>4. ASSUME NEW p \in Both, NEW v \in {"off", "read", "write"}, pump' = [pump EXCEPT ![p] = v],
             pump[p] # "off", UNCHANGED <<relay, stage, peer>>, Shaped(conn')
      PROVE  RelayTypeOK'
  BY <1>4 DEF RelayTypeOK
<1>5. ASSUME stage' \in {"dial", "greet", "relay", "write", "done"},
             UNCHANGED <<relay, peer, pump>>, Shaped(conn')
      PROVE  RelayTypeOK'
  BY <1>5 DEF RelayTypeOK
<1> HIDE DEF Shaped, Kept
<1>6. CASE Accept
  <2>1. relay.shape = "socket" => Shaped([conn EXCEPT !["client"] = "open"])
    BY DEF Shaped, RelayTypeOK, Sides
  <2>2. Shaped([conn EXCEPT !["client"] = "none"])
    BY DEF Shaped, RelayTypeOK, Sides
  <2> QED
    BY <1>1, <1>5, <1>6, <2>1, <2>2 DEF Accept, Return
<1>7. CASE Unreached \/ SocketReturns \/ BodyHandedOver \/ TimedOut \/ ClientLeft
           \/ BodyEnds \/ ClientGone \/ StreamReturns
  BY <1>1, <1>5, <1>7 DEF Unreached, SocketReturns, BodyHandedOver, TimedOut, ClientLeft, BodyEnds,
     ClientGone, StreamReturns, Return
<1>8. CASE IdleCloses
  BY <1>2, <1>8 DEF IdleCloses, RelayTypeOK, Shaped
<1>9. CASE ReaderFails \/ ReaderHandsOver
  BY <1>1, <1>4, <1>9 DEF ReaderFails, ReaderHandsOver, Both
<1>10. CASE DialSocket
  <2>1. CASE relay.greets
    BY <1>2, <1>5, <1>10, <2>1 DEF DialSocket
  <2>2. CASE ~relay.greets
    BY <1>2, <1>3, <1>10, <2>2 DEF DialSocket, RelayTypeOK, Shaped
  <2> QED
    BY <2>1, <2>2
<1>11. CASE Greeting
  BY <1>3, <1>11 DEF Greeting, RelayTypeOK
<1>18. CASE Headers
  BY <1>2, <1>3, <1>18 DEF Headers, RelayTypeOK, Shaped
<1>12. CASE ReaderGets
  <2>1. relay.shape # "socket" => Shaped(conn')
    BY <1>1, <1>12 DEF ReaderGets, ReadToEnd, Kept
  <2>2. relay.shape # "socket"
    BY <1>12 DEF ReaderGets, Has, RelayTypeOK, AllHandlers, Socket, Request, sendRESP, Both,
       TgAuthWebSocket, TgGetContactsWS, WaAuthWebSocket, WaGetContactsWS, proxyWebSocket,
       ServiceStartWSS, proxyWidgetEvents, payHandlePaymentStatusSSE, payTariff, payCurrencies,
       payCreateBybitPayment, payPaymentStatus, donationCurrencies, donationAddress,
       proxyTgBotRequest, SendTelegaNotification, universalProxyWidgetRequest,
       proxyServicesRequest, proxyAmoCRMOAuthCallback, proxyCRMPublicRequest, proxyCRMRequest,
       proxyAvitoRequest
  <2> QED
    BY <1>4, <1>12, <2>1, <2>2 DEF ReaderGets, Both
<1>13. CASE BodyComes
  <2>1. relay.shape # "socket"
    BY <1>13 DEF BodyComes, RelayTypeOK
  <2> QED
    BY <1>1, <1>5, <1>13, <2>1 DEF BodyComes, ReadToEnd, Kept
<1>14. CASE StreamGets \/ StreamEnds \/ ClientTakes
  BY <1>1, <1>5, <1>14 DEF StreamGets, StreamEnds, ClientTakes, Return, Kept
<1>15. ASSUME NEW p \in Both, PumpGets(p) \/ PumpWrites(p) \/ PumpFails(p) \/ PumpWriteFails(p)
       PROVE  RelayTypeOK'
  BY <1>1, <1>4, <1>15 DEF PumpGets, PumpWrites, PumpFails, PumpWriteFails
<1>16. ASSUME NEW s \in Sides, PeerLeaves(s)
       PROVE  RelayTypeOK'
  BY <1>16 DEF PeerLeaves, RelayTypeOK
<1>17. CASE UNCHANGED relayVars
  BY <1>17 DEF relayVars, RelayTypeOK
<1> QED
  BY <1>6, <1>7, <1>8, <1>9, <1>10, <1>11, <1>12, <1>13, <1>14, <1>15, <1>16, <1>17, <1>18
  DEF RelayNext, OwnStep, PeerStep

\* Notices are counted up to the bound.
NoticeInv == SettingsInv /\ InstantInv /\ sent <= MaxNotices

LEMMA NoticeStep == NoticeInv /\ [NoticeNext]_noticeVars => NoticeInv'
<1> SUFFICES ASSUME NoticeInv, [NoticeNext]_noticeVars PROVE NoticeInv'
  OBVIOUS
<1>1. SettingsInv' /\ InstantInv'
  BY SettingsStep, InstantStep DEF NoticeInv
<1>2. sent \in Nat /\ sent <= MaxNotices
  BY DEF NoticeInv, InstantInv, InstantTyped
<1>3. UNCHANGED sent \/ (sent < MaxNotices /\ sent' = sent + 1)
  BY DEF NoticeNext, InstantNext, SettingsNext, noticeVars, SendInstantNotification, TakeNotice,
     WriteNotice, TabCloses, Instant, BeginChange, UpdateNotification, SaveNotificationEvent,
     SavesSetting, ChangeFails, DeleteNotificationsChannel
<1>4. sent' <= MaxNotices
  BY <1>2, <1>3, NoticesAssumption
<1> QED
  BY <1>1, <1>4 DEF NoticeInv

\* Whichever of the parts moves, the variables of all of them hold what their names
\* say: no relay step, call, change of settings, notice, start or rekey leaves them.
THEOREM GatewayTypeCorrect == GatewaySpec => []GatewayTypeOK
<1> DEFINE GatewayInv == RelayTypeOK /\ CallInv /\ NoticeInv /\ ConfInv
<1>1. GatewayInit => GatewayInv
  <2> SUFFICES ASSUME GatewayInit PROVE GatewayInv
    OBVIOUS
  <2>1. RelayTypeOK
    <3>1. payTariff \in AllHandlers
      BY DEF AllHandlers
    <3> QED
      BY <3>1 DEF GatewayInit, RelayInit, AtRest, RelayTypeOK, Sides
  <2>2. CallInv
    BY CallStarts DEF GatewayInit
  <2>3. NoticeInv
    BY NoticeStarts, InstantStarts, NoticesAssumption DEF GatewayInit, NoticeInv, NoticeInit
  <2>4. ConfInv
    BY ConfStarts DEF GatewayInit
  <2> QED
    BY <2>1, <2>2, <2>3, <2>4
<1>2. GatewayInv /\ [GatewayNext]_parts => GatewayInv'
  <2> SUFFICES ASSUME GatewayInv, [GatewayNext]_parts PROVE GatewayInv'
    OBVIOUS
  <2>1. /\ [RelayNext]_relayVars /\ [CallNext]_callVars
        /\ [NoticeNext]_noticeVars /\ [ConfNext]_confVars
    BY DEF GatewayNext, parts, RelayMoves, CallMoves, SettingsMove, InstantMoves, ConfMoves, Rest,
           NoticeNext
  <2> QED
    BY <2>1, RelayTypeStep, CallStep, NoticeStep, ConfStep
<1>3. GatewayInv => GatewayTypeOK
  <2> SUFFICES ASSUME GatewayInv PROVE GatewayTypeOK
    OBVIOUS
  <2>1. CallTypeOK
    BY DEF CallInv
  <2>2. NoticeTypeOK
    BY DEF NoticeInv, SettingsInv, InstantInv, InstantTyped, Rows, Changes, NoticeTypeOK
  <2>3. ConfTypeOK
    BY AppConfigAssumption DEF ConfInv, ConfTyped, ConfTypeOK
  <2> QED
    BY <2>1, <2>2, <2>3 DEF GatewayTypeOK
<1> QED
  BY <1>1, <1>2, <1>3, PTL DEF GatewaySpec
-----------------------------------------------------------------------------
(* Models: voices and files. *)

\* A handler from the creation of a voice to its place in the row.
Making(w) == w.pc \in {"link", "write", "cleanup"}

WorkItem == [pc : {"idle", "create", "link", "write", "unlink", "cleanup",
                   "save", "remove", "voices"},
             prov : Providers \cup {None}, old : Named, new : Named,
             data : Data \cup {None}, ids : SUBSET VoiceId]

\* What a handler has in hand at its step.
WorkOK(w) ==
    /\ w \in WorkItem
    /\ w.pc = "idle" => w = Idle
    /\ w.pc \in {"create", "link", "write"} => w.prov = None
    /\ Making(w) => w.new \in Voices
    /\ w.pc = "unlink" => w.old \in VoiceId
    /\ w.pc \in {"write", "save", "voices"} => w.data \in Data
    /\ w.pc = "save" => /\ w.prov \in Providers /\ w.data.files = {}
                        /\ w.prov # Mistral => VoicesOf(w.data) = {}
    /\ w.pc \in {"save", "remove", "voices"} => w.prov \in Providers /\ w.old = None
    /\ w.pc \in {"remove", "voices"} => w.ids \subseteq VoicesOf(w.data)
    /\ w.pc = "voices" => w.ids # {}
    /\ w.pc \notin {"remove", "voices"} => w.ids = {}

ModelsTyped == TypeOK /\ \A h \in Handlers : WorkOK(work[h])

\* What the environment keeps to (CarefulNext).
Careful == /\ ReadsHold
           /\ \A p \in Providers : OneVoice(model[p])
           /\ \A h \in Handlers : OneVoice(work[h].data)

\* Only Mistral's model has voices.
OnlyMistral ==
    /\ \A p \in Providers \ {Mistral} : VoicesOf(model[p]) = {}
    /\ \A h \in Handlers : work[h].pc \in {"remove", "voices"} /\ work[h].prov # Mistral
                               => work[h].ids = {}

\* The voices a handler may still link or delete.
Knows(w) == {w.old} \cup w.ids \cup (IF Making(w) THEN {w.new} ELSE {})

\* A handler will put v into the row, delete it or report that it could not.
Obliged(w, v) ==
    \/ Making(w) /\ v = w.new
    \/ w.pc = "unlink" /\ v = w.old
    \/ w.pc = "voices" /\ v \in w.ids

\* A voice that is being linked is known to its handler alone, as its new one; it
\* is alive or was deleted by hand.
Sole ==
    \A g \in Handlers : Making(work[g]) =>
        /\ work[g].new # work[g].old
        /\ \A h \in Handlers : h # g => work[g].new \notin Knows(work[h])
        /\ work[g].pc # "cleanup" => work[g].new \in Live \cup asked

\* Voices that handlers know have been made; those deleted by hand are gone.
Made ==
    /\ \A h \in Handlers : \A v \in Knows(work[h]) \cap Voices : voice[v] # "unused"
    /\ \A v \in Voices \cap asked : voice[v] = "gone"

\* What a handler is going to delete is not in the row.
Spared ==
    \A h \in Handlers, v \in Voices : Obliged(work[h], v) => v \notin VoicesOf(model[Mistral])

\* NoStrayVoice, with the duty of each handler.
Cared ==
    \A v \in Live : \/ v \in VoicesOf(model[Mistral]) \cup excused
                    \/ \E h \in Handlers : Obliged(work[h], v)

\* The half of RowNamesWhatExists about voices.
VoicesExist == VoicesOf(model[Mistral]) \subseteq Live \cup asked \cup {Preset}

VoiceInv == OnlyMistral /\ Sole /\ Made /\ Spared /\ Cared /\ VoicesExist

\* A file that waits to be added is stored where it was uploaded, waits once, and
\* is in no row yet; those of a row are stored at its provider or were misfiled.
FileInv ==
    /\ \A u \in uploaded :
        /\ u.file \in remote[u.prov] \cup asked
        /\ \A x \in uploaded : x.file = u.file => x = u
        /\ \A p \in Providers : model[p] # None => u.file \notin model[p].files
    /\ \A p \in Providers : model[p] # None => model[p].files \subseteq remote[p] \cup asked \cup misfiled

ModelsInv == ModelsTyped /\ Careful /\ VoiceInv /\ FileInv

-----------------------------------------------------------------------------
(* Operators. *)

\* A row names voices; its current voice is one of them.
LEMMA RowVoices ==
  ASSUME NEW d \in Data \cup {None}
  PROVE  /\ VoicesOf(d) \in SUBSET VoiceId /\ Current(d) \in Named
         /\ Current(d) # None => Current(d) \in VoicesOf(d)
         /\ OneVoice(d) => VoicesOf(d) \subseteq {Current(d)}
<1> USE ModelsAssumption
<1>1. CASE d = None
  BY <1>1 DEF VoicesOf, Current, Named
<1>2. CASE d \in Data
  BY <1>2 DEF VoicesOf, Current, OneVoice, Data, Named
<1> QED
  BY <1>1, <1>2

\* A page that is sent back names other voices at most in Mistral's model, and
\* the files it was opened with.
LEMMA EditedPage ==
  ASSUME NEW g \in [prov : Providers, data : Data \cup {None}], NEW d \in Edited(g)
  PROVE  /\ d \in Data
         /\ d.files = IF g.data = None THEN {} ELSE g.data.files
         /\ g.prov # Mistral /\ VoicesOf(g.data) = {} => VoicesOf(d) = {}
<1> USE ModelsAssumption
<1> DEFINE e == IF g.data = None THEN NoData ELSE g.data
           picks == IF g.prov = Mistral THEN Listed \cup {e.voice} ELSE {None}
<1>1. e \in Data /\ e.files = IF g.data = None THEN {} ELSE g.data.files
  BY DEF NoData, Data, Named
<1>2. PICK v \in picks, c \in {e.clone, None} : d = [voice |-> v, clone |-> c, files |-> e.files]
  BY DEF Edited
<1>3. v \in Named /\ c \in Named
  BY <1>1 DEF Listed, Named, VoiceId, Data
<1>4. d \in Data /\ d.files = e.files /\ d.voice = v /\ d.clone = c
  BY <1>1, <1>2, <1>3 DEF Data
<1>5. ASSUME g.prov # Mistral, VoicesOf(g.data) = {}
      PROVE  VoicesOf(d) = {}
  <2>1. e.clone = None
    BY <1>5 DEF NoData, VoicesOf
  <2>2. v = None /\ c = None
    BY <1>5, <2>1
  <2>3. d # None
    BY <1>4
  <2> QED
    BY <1>4, <2>2, <2>3 DEF VoicesOf
<1> QED
  BY <1>1, <1>4, <1>5

-----------------------------------------------------------------------------
(* Types. *)

\* A handler goes on with what its next step needs.
LEMMA WorkGoesOn ==
  ASSUME ModelsTyped, NEW h \in Handlers, NEW w, WorkOK(w), Goto(h, w)
  PROVE  /\ work' \in [Handlers -> WorkItem] /\ \A g \in Handlers : WorkOK(work'[g])
         /\ work'[h] = w /\ \A g \in Handlers : g # h => work'[g] = work[g]
<1>1. work \in [Handlers -> WorkItem] /\ \A g \in Handlers : WorkOK(work[g])
  BY DEF ModelsTyped, TypeOK, WorkItem
<1>2. work' = [work EXCEPT ![h] = w] /\ w \in WorkItem
  BY DEF Goto, WorkOK
<1>3. work'[h] = w /\ \A g \in Handlers : g # h => work'[g] = work[g]
  BY <1>1, <1>2
<1> QED
  BY <1>1, <1>2, <1>3

\* A handler that has answered has nothing in hand.
LEMMA IdleWork == WorkOK(Idle)
BY DEF WorkOK, WorkItem, Idle, Making, Named

\* A deletion, done or failed, keeps the excused voices among the living.
LEMMA DeletionTyped ==
  ASSUME ModelsTyped, NEW v, Deleted(v) \/ NotDeleted(v)
  PROVE  /\ voice' \in [Voices -> {"unused", "live", "gone"}]
         /\ excused' \subseteq Live' /\ faults' \in 0..MaxFaults
<1>1. /\ voice \in [Voices -> {"unused", "live", "gone"}]
      /\ excused \subseteq Live /\ faults \in 0..MaxFaults
  BY DEF ModelsTyped, TypeOK
<1>2. CASE Deleted(v)
  BY <1>1, <1>2 DEF Deleted, Live
<1>3. CASE NotDeleted(v)
  BY <1>1, <1>3, ModelsAssumption DEF NotDeleted, Live, Fault
<1> QED
  BY <1>2, <1>3

\* Every step keeps the types, and every handler what its next step needs.
LEMMA ModelsTypedStep == ModelsTyped /\ [Next]_vars => ModelsTyped'
<1> SUFFICES ASSUME ModelsTyped, [Next]_vars
             PROVE  ModelsTyped'
  OBVIOUS
<1> USE ModelsAssumption
<1>1. TypeOK /\ work \in [Handlers -> WorkItem] /\ \A h \in Handlers : WorkOK(work[h])
  BY DEF ModelsTyped, TypeOK, WorkItem
<1> DEFINE Hands == work' \in [Handlers -> WorkItem] /\ \A g \in Handlers : WorkOK(work'[g])
<1>2. UNCHANGED work => Hands
  BY <1>1
<1>3. SUFFICES Hands /\ (Hands => TypeOK')
  BY DEF ModelsTyped
<1>4. CASE UNCHANGED vars
  BY <1>1, <1>2, <1>4 DEF vars, remains, uploads, TypeOK, Live
<1>5. ASSUME NEW h \in Handlers, CloneVoice(h)
      PROVE  Hands /\ (Hands => TypeOK')
  <2>1. Current(model[Mistral]) \in Named
    BY <1>1, RowVoices DEF TypeOK
  <2>2. WorkOK([Idle EXCEPT !.pc = "create", !.old = Current(model[Mistral])])
    BY <2>1 DEF WorkOK, WorkItem, Idle, Making, Named
  <2>3. Hands
    BY <1>5, <2>2, WorkGoesOn DEF CloneVoice
  <2> QED
    BY <1>1, <1>5, <2>3 DEF CloneVoice, remains, uploads, TypeOK, WorkItem, Live
<1>6. ASSUME NEW h \in Handlers, CreateVoice(h)
      PROVE  Hands /\ (Hands => TypeOK')
  <2>0. UNCHANGED <<model, active, remote, uploads, page, asked, excused>>
    BY <1>6 DEF CreateVoice, remains
  <2>1. CASE \E v \in Voices :
               /\ voice[v] = "unused" /\ voice' = [voice EXCEPT ![v] = "live"]
               /\ Goto(h, [work[h] EXCEPT !.pc = "link", !.new = v])
               /\ UNCHANGED faults
    <3>1. PICK v \in Voices : /\ voice[v] = "unused" /\ voice' = [voice EXCEPT ![v] = "live"]
                              /\ Goto(h, [work[h] EXCEPT !.pc = "link", !.new = v])
                              /\ UNCHANGED faults
      BY <2>1
    <3>2. WorkOK([work[h] EXCEPT !.pc = "link", !.new = v])
      <4> DEFINE r == [work[h] EXCEPT !.pc = "link", !.new = v]
      <4>1. WorkOK(work[h]) /\ work[h].pc = "create"
        BY <1>1, <1>6 DEF CreateVoice, At
      <4>2. /\ r \in WorkItem /\ r.pc = "link" /\ r.new = v /\ r.prov = work[h].prov
            /\ r.ids = work[h].ids
        BY <3>1, <4>1 DEF WorkOK, WorkItem, Named, VoiceId
      <4> HIDE DEF r
      <4>3. r.prov = None /\ r.ids = {}
        BY <4>1, <4>2 DEF WorkOK
      <4>4. WorkOK(r)
        BY <3>1, <4>2, <4>3 DEF WorkOK
      <4> QED
        BY <4>4 DEF r
    <3>3. Hands
      BY <3>1, <3>2, WorkGoesOn
    <3> QED
      BY <1>1, <1>6, <3>1, <3>3 DEF CreateVoice, remains, uploads, TypeOK, WorkItem, Live
  <2>2. CASE Fault /\ Goto(h, Idle) /\ UNCHANGED voice
    <3>1. Hands
      BY <2>2, IdleWork, WorkGoesOn
    <3> QED
      BY <1>1, <2>0, <2>2, <3>1 DEF Fault, TypeOK, uploads, WorkItem, Live
  <2> QED
    BY <1>6, <2>1, <2>2 DEF CreateVoice
<1>7. ASSUME NEW h \in Handlers, LinkRead(h)
      PROVE  Hands /\ (Hands => TypeOK')
  <2>1. work[h].pc = "link" /\ WorkOK(work[h])
    BY <1>1, <1>7 DEF LinkRead, At
  <2>2. CASE /\ model[Mistral] # None /\ UNCHANGED faults
             /\ Goto(h, [work[h] EXCEPT !.pc = "write", !.data = model[Mistral]])
    <3>1. WorkOK([work[h] EXCEPT !.pc = "write", !.data = model[Mistral]])
      <4> DEFINE r == [work[h] EXCEPT !.pc = "write", !.data = model[Mistral]]
      <4>1. model[Mistral] \in Data
        BY <1>1, <2>2 DEF TypeOK
      <4>2. /\ r \in WorkItem /\ r.pc = "write" /\ r.data = model[Mistral]
            /\ r.prov = work[h].prov /\ r.ids = work[h].ids /\ r.new = work[h].new
        BY <2>1, <4>1 DEF WorkOK, WorkItem
      <4> HIDE DEF r
      <4>3. r.prov = None /\ r.ids = {} /\ r.new \in Voices
        BY <2>1, <4>2 DEF WorkOK, Making
      <4>4. WorkOK(r)
        BY <4>1, <4>2, <4>3 DEF WorkOK
      <4> QED
        BY <4>4 DEF r
    <3>2. Hands
      BY <2>2, <3>1, WorkGoesOn
    <3> QED
      BY <1>1, <1>7, <2>2, <3>2 DEF LinkRead, remains, uploads, TypeOK, WorkItem, Live
  <2>3. CASE CallFails(Mistral) /\ Goto(h, [work[h] EXCEPT !.pc = "cleanup"])
    <3>1. WorkOK([work[h] EXCEPT !.pc = "cleanup"])
      BY <2>1 DEF WorkOK, WorkItem, Making
    <3>2. Hands
      BY <2>3, <3>1, WorkGoesOn
    <3> QED
      BY <1>1, <1>7, <2>3, <3>2 DEF LinkRead, CallFails, Fault, remains, uploads, TypeOK, WorkItem, Live
  <2> QED
    BY <1>7, <2>2, <2>3 DEF LinkRead
<1>8. ASSUME NEW h \in Handlers, LinkWrite(h)
      PROVE  Hands /\ (Hands => TypeOK')
  <2>1. work[h].pc = "write" /\ WorkOK(work[h])
    BY <1>1, <1>8 DEF LinkWrite, At
  <2> DEFINE d == [work[h].data EXCEPT !.voice = work[h].new, !.clone = work[h].new]
  <2>2. d \in Data
    BY <2>1 DEF WorkOK, Making, Data, Named, VoiceId
  <2>3. CASE /\ model[Mistral] # None /\ model' = [model EXCEPT ![Mistral] = d] /\ UNCHANGED faults
             /\ Goto(h, IF work[h].old = None THEN Idle ELSE [work[h] EXCEPT !.pc = "unlink"])
    <3>1. work[h].old # None => WorkOK([work[h] EXCEPT !.pc = "unlink"])
      BY <2>1 DEF WorkOK, WorkItem, Making, Named
    <3>2. Hands
      BY <2>3, <3>1, IdleWork, WorkGoesOn
    <3> HIDE DEF d
    <3> QED
      BY <1>1, <1>8, <2>2, <2>3, <3>2 DEF LinkWrite, remains, uploads, TypeOK, WorkItem, Live
  <2>4. CASE CallFails(Mistral) /\ Goto(h, [work[h] EXCEPT !.pc = "cleanup"]) /\ UNCHANGED model
    <3>1. WorkOK([work[h] EXCEPT !.pc = "cleanup"])
      BY <2>1 DEF WorkOK, WorkItem, Making
    <3>2. Hands
      BY <2>4, <3>1, WorkGoesOn
    <3> QED
      BY <1>1, <1>8, <2>4, <3>2 DEF LinkWrite, CallFails, Fault, remains, uploads, TypeOK, WorkItem, Live
  <2> QED
    BY <1>8, <2>3, <2>4 DEF LinkWrite
<1>9. ASSUME NEW h \in Handlers, Unlink(h)
      PROVE  Hands /\ (Hands => TypeOK')
  <2>1. PICK v : Deleted(v) \/ NotDeleted(v)
    BY <1>9 DEF Unlink
  <2>2. Hands
    BY <1>9, IdleWork, WorkGoesOn DEF Unlink
  <2> QED
    BY <1>1, <1>9, <2>1, <2>2, DeletionTyped DEF Unlink, TypeOK, uploads, WorkItem
<1>10. ASSUME NEW v \in Voices, DeleteVoice(v)
       PROVE  Hands /\ (Hands => TypeOK')
  BY <1>1, <1>2, <1>10 DEF DeleteVoice, Editable, Fault, TypeOK, uploads, WorkItem, Live
<1>11. ASSUME NEW t \in Pages, NEW p \in Providers, OpenPage(t, p)
       PROVE  Hands /\ (Hands => TypeOK')
  BY <1>1, <1>2, <1>11 DEF OpenPage, remains, uploads, TypeOK, WorkItem, Live
<1>12. ASSUME NEW t \in Pages, ClosePage(t)
       PROVE  Hands /\ (Hands => TypeOK')
  BY <1>1, <1>2, <1>12 DEF ClosePage, remains, uploads, TypeOK, WorkItem, Live
<1>13. ASSUME NEW t \in Pages, UpdateModel(t)
       PROVE  Hands /\ (Hands => TypeOK')
  <2>1. page[t] \in [prov : Providers, data : Data \cup {None}]
    BY <1>1, <1>13 DEF UpdateModel, TypeOK
  <2>2. PICK d \in Edited(page[t]) :
          /\ model' = [model EXCEPT ![page[t].prov] = d]
          /\ excused' = (excused \ VoicesOf(d)) \cup ((VoicesOf(model[page[t].prov]) \ VoicesOf(d)) \cap Live)
    BY <1>13 DEF UpdateModel
  <2>3. d \in Data
    BY <2>1, EditedPage
  <2>4. excused' \subseteq Live' /\ page' \in [Pages -> [prov : Providers, data : Data \cup {None}] \cup {None}]
    BY <1>1, <1>13, <2>2 DEF UpdateModel, TypeOK, Live
  <2> QED
    BY <1>1, <1>2, <1>13, <2>1, <2>2, <2>3, <2>4 DEF UpdateModel, TypeOK, uploads, WorkItem
<1>14. ASSUME NEW h \in Handlers, NEW t \in Pages, CreateModel(h, t)
       PROVE  Hands /\ (Hands => TypeOK')
  <2>1. page[t] \in [prov : Providers, data : Data \cup {None}] /\ page[t].data = None
    BY <1>1, <1>14 DEF CreateModel, TypeOK
  <2>2. PICK d \in Edited(page[t]) :
          Goto(h, [Idle EXCEPT !.pc = "save", !.prov = page[t].prov, !.data = d])
    BY <1>14 DEF CreateModel
  <2>3. d \in Data /\ d.files = {} /\ (page[t].prov # Mistral => VoicesOf(d) = {})
    BY <2>1, EditedPage DEF VoicesOf
  <2>4. WorkOK([Idle EXCEPT !.pc = "save", !.prov = page[t].prov, !.data = d])
    BY <2>1, <2>3 DEF WorkOK, WorkItem, Idle, Making, Named
  <2>5. Hands
    BY <2>2, <2>4, WorkGoesOn
  <2> QED
    BY <1>1, <1>14, <2>5 DEF CreateModel, remains, uploads, TypeOK, WorkItem, Live
<1>15. ASSUME NEW h \in Handlers, SaveModel(h)
       PROVE  Hands /\ (Hands => TypeOK')
  <2>1. work[h].prov \in Providers /\ work[h].data \in Data
    BY <1>1, <1>15 DEF SaveModel, At, WorkOK
  <2>2. Hands
    BY <1>15, IdleWork, WorkGoesOn DEF SaveModel
  <2>3. CASE Fault /\ UNCHANGED <<model, active, excused>>
    BY <1>1, <1>15, <2>2, <2>3 DEF SaveModel, Fault, TypeOK, uploads, WorkItem, Live
  <2>4. CASE /\ model' = [model EXCEPT ![work[h].prov] = work[h].data]
             /\ active' \in {active, work[h].prov}
             /\ excused' = excused \ VoicesOf(work[h].data)
             /\ UNCHANGED faults
    BY <1>1, <1>15, <2>1, <2>2, <2>4 DEF SaveModel, TypeOK, uploads, WorkItem, Live
  <2> QED
    BY <1>15, <2>3, <2>4 DEF SaveModel
<1>16. ASSUME NEW p \in Providers, SetModelActive(p)
       PROVE  Hands /\ (Hands => TypeOK')
  BY <1>1, <1>2, <1>16 DEF SetModelActive, remains, uploads, TypeOK, WorkItem, Live
<1>17. ASSUME NEW p \in Providers, FileUpload(p)
       PROVE  Hands /\ (Hands => TypeOK')
  BY <1>1, <1>2, <1>17 DEF FileUpload, remains, uploads, TypeOK, WorkItem, Live
<1>18. ASSUME NEW u \in uploaded, FileAdd(u)
       PROVE  Hands /\ (Hands => TypeOK')
  <2>1. active \in Providers /\ model[active] \in Data /\ FullId(u) \in FileName
    BY <1>1, <1>18 DEF FileAdd, AddFileFromUserGPT, TypeOK, FileName
  <2> DEFINE d == [model[active] EXCEPT !.files = @ \cup {FullId(u)}]
  <2>2. d \in Data
    BY <2>1 DEF Data
  <2>3. model' = [model EXCEPT ![active] = d]
    BY <1>1, <1>18, <2>1 DEF FileAdd, AddFileFromUserGPT, TypeOK
  <2> HIDE DEF d
  <2> QED
    BY <1>1, <1>2, <1>18, <2>1, <2>2, <2>3 DEF FileAdd, remains, uploads, TypeOK, WorkItem, Live
<1>19. ASSUME NEW p \in Providers, NEW f \in Files, FileDelete(p, f)
       PROVE  Hands /\ (Hands => TypeOK')
  <2>1. model' \in [Providers -> Data \cup {None}] /\ (\A q \in Providers : model[q] # None => model'[q] # None)
    <3>1. CASE model' = model
      BY <1>1, <3>1 DEF TypeOK
    <3>2. CASE model[p] # None /\ model' = [model EXCEPT ![p].files = @ \ {f}]
      <4>1. [model[p] EXCEPT !.files = @ \ {f}] \in Data
        BY <1>1, <3>2 DEF TypeOK, Data
      <4>2. model' = [model EXCEPT ![p] = [model[p] EXCEPT !.files = @ \ {f}]]
        BY <1>1, <3>2 DEF TypeOK
      <4> QED
        BY <1>1, <4>1, <4>2 DEF TypeOK
    <3> QED
      BY <1>19, <3>1, <3>2 DEF FileDelete
  <2>2. remote' \in [Providers -> SUBSET Files] /\ faults' \in 0..MaxFaults
    BY <1>1, <1>19 DEF FileDelete, Fault, TypeOK
  <2> QED
    BY <1>1, <1>2, <1>19, <2>1, <2>2 DEF FileDelete, TypeOK, uploads, WorkItem, Live
<1>20. ASSUME NEW h \in Handlers, NEW p \in Providers, DeleteModelWSS(h, p)
       PROVE  Hands /\ (Hands => TypeOK')
  <2>1. VoicesOf(model[p]) \in SUBSET VoiceId
    BY <1>1, RowVoices DEF TypeOK
  <2>2. CASE /\ Goto(h, [Idle EXCEPT !.pc = "remove", !.prov = p, !.data = model[p], !.ids = VoicesOf(model[p])])
             /\ UNCHANGED <<faults, excused>>
    <3>1. WorkOK([Idle EXCEPT !.pc = "remove", !.prov = p, !.data = model[p], !.ids = VoicesOf(model[p])])
      BY <1>1, <2>1 DEF WorkOK, WorkItem, Idle, Making, Named, TypeOK
    <3>2. Hands
      BY <2>2, <3>1, WorkGoesOn
    <3> QED
      BY <1>1, <1>20, <2>2, <3>2 DEF DeleteModelWSS, TypeOK, uploads, WorkItem, Live
  <2>3. CASE /\ Fault /\ excused' = excused \cup (VoicesOf(model[p]) \cap Live)
             /\ Goto(h, [Idle EXCEPT !.pc = "remove", !.prov = p])
    <3>1. WorkOK([Idle EXCEPT !.pc = "remove", !.prov = p])
      BY DEF WorkOK, WorkItem, Idle, Making, Named
    <3>2. Hands
      BY <2>3, <3>1, WorkGoesOn
    <3> QED
      BY <1>1, <1>20, <2>3, <3>2 DEF DeleteModelWSS, Fault, TypeOK, uploads, WorkItem, Live
  <2> QED
    BY <1>20, <2>2, <2>3 DEF DeleteModelWSS
<1>21. ASSUME NEW h \in Handlers, DeleteModel(h)
       PROVE  Hands /\ (Hands => TypeOK')
  <2>1. work[h].pc = "remove" /\ WorkOK(work[h]) /\ work[h].prov \in Providers
    BY <1>1, <1>21 DEF DeleteModel, At, WorkOK
  <2>2. CASE /\ model[work[h].prov] # None /\ UNCHANGED faults
             /\ model' = [model EXCEPT ![work[h].prov] = None]
             /\ active' = IF active = work[h].prov THEN None ELSE active
             /\ remote' = [remote EXCEPT ![work[h].prov] = @ \ model[work[h].prov].files]
             /\ Goto(h, IF work[h].ids = {} THEN Idle ELSE [work[h] EXCEPT !.pc = "voices"])
    <3>1. work[h].ids # {} => WorkOK([work[h] EXCEPT !.pc = "voices"])
      BY <2>1 DEF WorkOK, WorkItem, Making, VoicesOf
    <3>2. Hands
      BY <2>2, <3>1, IdleWork, WorkGoesOn
    <3> QED
      BY <1>1, <1>21, <2>1, <2>2, <3>2 DEF DeleteModel, remains, uploads, TypeOK, WorkItem, Live
  <2>3. CASE CallFails(work[h].prov) /\ Goto(h, Idle) /\ UNCHANGED <<model, active, remote>>
    <3>1. Hands
      BY <2>3, IdleWork, WorkGoesOn
    <3> QED
      BY <1>1, <1>21, <2>3, <3>1 DEF DeleteModel, CallFails, Fault, remains, uploads, TypeOK, WorkItem, Live
  <2> QED
    BY <1>21, <2>2, <2>3 DEF DeleteModel
<1>22. ASSUME NEW h \in Handlers, DeleteMistralVoice(h)
       PROVE  Hands /\ (Hands => TypeOK')
  <2>1. PICK v : v = HeadVoice(work[h])
    OBVIOUS
  <2>2. Deleted(v) \/ NotDeleted(v)
    BY <1>22, <2>1 DEF DeleteMistralVoice
  <2>3. work[h].pc = "voices" /\ WorkOK(work[h])
    BY <1>1, <1>22 DEF DeleteMistralVoice, At
  <2>4. v \in work[h].ids
    BY <2>1, <2>3 DEF HeadVoice, WorkOK, VoicesOf
  <2>5. WorkOK(NextVoice(work[h], v))
    BY <2>3, <2>4, IdleWork DEF NextVoice, WorkOK, WorkItem, Making
  <2>6. Hands
    BY <1>22, <2>1, <2>5, IdleWork, WorkGoesOn DEF DeleteMistralVoice
  <2> QED
    BY <1>1, <1>22, <2>2, <2>6, DeletionTyped DEF DeleteMistralVoice, TypeOK, uploads, WorkItem
<1> QED
  BY <1>4, <1>5, <1>6, <1>7, <1>8, <1>9, <1>10, <1>11, <1>12, <1>13, <1>14, <1>15, <1>16, <1>17,
     <1>18, <1>19, <1>20, <1>21, <1>22 DEF Next, Serve

\* The types hold from the start.
LEMMA ModelsTypedInit == Init => ModelsTyped
BY ModelsAssumption, IdleWork DEF Init, ModelsTyped, TypeOK, WorkItem, WorkOK, NoData, Live
-----------------------------------------------------------------------------
(* Voices. *)

\* One handler goes on, the others do not.
LEMMA OneMoves ==
  ASSUME ModelsTyped, NEW h \in Handlers, NEW w, Goto(h, w)
  PROVE  work'[h] = w /\ \A g \in Handlers : g # h => work'[g] = work[g]
BY DEF ModelsTyped, TypeOK, Goto

\* What a handler must see to it knows, and counts as doomed.
LEMMA Duties ==
  ASSUME ModelsTyped, NEW h \in Handlers, NEW v, Obliged(work[h], v)
  PROVE  v \in Knows(work[h]) /\ v \in Doomed(h)
BY DEF Obliged, Knows, Doomed, Making, ModelsTyped, WorkOK

\* What a step leaves of handler g's duties when it takes none over.
Relieved(g) ==
    /\ Knows(work'[g]) \subseteq Knows(work[g]) \cup {None}
    /\ \A v : Obliged(work'[g], v) <=> Obliged(work[g], v)
    /\ Making(work'[g]) => /\ Making(work[g])
                           /\ work'[g].new = work[g].new /\ work'[g].old = work[g].old
                           /\ work'[g].pc # "cleanup" => work[g].pc # "cleanup"
    /\ work'[g].pc \in {"remove", "voices"} => work'[g] = work[g] \/ work'[g].ids = {}

\* Handlers that go on like that still hold only voices of their own, which exist.
LEMMA HandsKept ==
  ASSUME ModelsTyped, VoiceInv, \A g \in Handlers : Relieved(g), UNCHANGED <<voice, asked>>
  PROVE  Sole' /\ Made'
<1> USE ModelsAssumption DEF Relieved
<1>1. Live' = Live
  BY DEF Live
<1>2. \A g \in Handlers : Making(work[g]) => work[g].new \in Voices
  BY DEF ModelsTyped, WorkOK
<1>3. Sole'
  BY <1>1, <1>2 DEF VoiceInv, Sole
<1>4. Made'
  BY DEF VoiceInv, Made
<1> QED
  BY <1>3, <1>4

\* A step that leaves the voices and those of the rows alone.
LEMMA VoicesKept ==
  ASSUME ModelsTyped, VoiceInv, \A g \in Handlers : Relieved(g),
         \A p \in Providers : VoicesOf(model'[p]) = VoicesOf(model[p]),
         UNCHANGED voice, excused \subseteq excused',
         asked \subseteq asked', asked' \cap Voices \subseteq asked
  PROVE  VoiceInv'
<1> USE ModelsAssumption DEF Relieved
<1>1. Live' = Live /\ Live \subseteq Voices
  BY DEF Live
<1>2. \A g \in Handlers : Making(work[g]) => work[g].new \in Voices
  BY DEF ModelsTyped, WorkOK
<1>3. VoicesOf(model'[Mistral]) = VoicesOf(model[Mistral])
  OBVIOUS
<1>4. OnlyMistral'
  BY DEF VoiceInv, OnlyMistral
<1>5. Sole'
  BY <1>1, <1>2 DEF VoiceInv, Sole
<1>6. Made'
  BY DEF VoiceInv, Made
<1>7. Spared' /\ VoicesExist'
  BY <1>1, <1>3 DEF VoiceInv, Spared, VoicesExist
<1>8. Cared'
  BY <1>1, <1>3 DEF VoiceInv, Cared
<1> QED
  BY <1>4, <1>5, <1>6, <1>7, <1>8 DEF VoiceInv

\* The voices in the rows and in the handlers' hands are in order at the start.
LEMMA VoiceInvInit == Init => VoiceInv
BY ModelsAssumption DEF Init, VoiceInv, OnlyMistral, Sole, Made, Spared, Cared, VoicesExist, VoicesOf,
                        Idle, Making, Knows, Obliged, Live

\* CloneVoice reads the current voice of the row, which nobody is about to delete.
LEMMA CloneVoices ==
  ASSUME ModelsTyped, VoiceInv, NEW h \in Handlers, CloneVoice(h)
  PROVE  VoiceInv'
<1> USE ModelsAssumption
<1> DEFINE old == Current(model[Mistral])
           w == [Idle EXCEPT !.pc = "create", !.old = old]
<1>1. /\ work[h] = Idle /\ Goto(h, w)
      /\ UNCHANGED <<model, voice, asked, excused>>
  BY DEF CloneVoice, At, remains, uploads, ModelsTyped, WorkOK
<1>2. work'[h] = w /\ \A g \in Handlers : g # h => work'[g] = work[g]
  BY <1>1, OneMoves
<1>3. old \in Named /\ (old # None => old \in VoicesOf(model[Mistral]))
  BY RowVoices DEF ModelsTyped, TypeOK
<1>4. /\ w.pc = "create" /\ w.ids = {} /\ ~Making(w) /\ Knows(w) = {old}
      /\ \A v : ~Obliged(w, v) /\ ~Obliged(Idle, v)
  BY DEF Idle, Making, Knows, Obliged
<1> HIDE DEF w
<1>5. Live' = Live /\ VoicesOf(model'[Mistral]) = VoicesOf(model[Mistral])
  BY <1>1 DEF Live
<1>6. OnlyMistral'
  BY <1>1, <1>2, <1>4 DEF VoiceInv, OnlyMistral
<1>7. \A g \in Handlers : Making(work[g]) => work[g].new # old
  BY <1>3 DEF VoiceInv, Spared, Obliged, ModelsTyped, WorkOK
<1>8. Sole'
  BY <1>1, <1>2, <1>4, <1>5, <1>7 DEF VoiceInv, Sole
<1>9. old \in Voices => voice[old] # "unused"
  BY <1>3 DEF VoiceInv, VoicesExist, Made, Live
<1>10. Made'
  BY <1>1, <1>2, <1>4, <1>9 DEF VoiceInv, Made
<1>11. \A g \in Handlers, v \in Voices : Obliged(work'[g], v) <=> Obliged(work[g], v)
  BY <1>1, <1>2, <1>4
<1>12. Spared' /\ VoicesExist'
  BY <1>1, <1>5, <1>11 DEF VoiceInv, Spared, VoicesExist
<1>13. Cared'
  <2>1. Live \subseteq Voices
    BY DEF Live
  <2> QED
    BY <1>1, <1>5, <1>11, <2>1 DEF VoiceInv, Cared
<1> QED
  BY <1>6, <1>8, <1>10, <1>12, <1>13 DEF VoiceInv

\* A voice Mistral has just made is in nobody else's hands and in no row.
LEMMA NewVoice ==
  ASSUME ModelsTyped, VoiceInv, NEW h \in Handlers, At(h, "create"), NEW v \in Voices,
         voice[v] = "unused", voice' = [voice EXCEPT ![v] = "live"],
         Goto(h, [work[h] EXCEPT !.pc = "link", !.new = v]),
         UNCHANGED <<model, asked, excused>>
  PROVE  VoiceInv'
<1> USE ModelsAssumption
<1> DEFINE w == [work[h] EXCEPT !.pc = "link", !.new = v]
<1>1. work[h] \in WorkItem /\ work[h].pc = "create" /\ work[h].ids = {}
  BY DEF At, ModelsTyped, WorkOK
<1>2. work'[h] = w /\ \A g \in Handlers : g # h => work'[g] = work[g]
  BY OneMoves
<1>3. /\ w.pc = "link" /\ w.new = v /\ w.old = work[h].old /\ w.ids = {} /\ Making(w)
      /\ Knows(w) = Knows(work[h]) \cup {v} /\ \A x : Obliged(w, x) <=> x = v
      /\ \A x : ~Obliged(work[h], x)
  BY <1>1 DEF WorkItem, Making, Knows, Obliged
<1> HIDE DEF w
<1>4. voice \in [Voices -> {"unused", "live", "gone"}]
  BY DEF ModelsTyped, TypeOK
<1>5. Live' = Live \cup {v} /\ v \notin Live
  BY <1>4 DEF Live
<1>6. v \notin VoicesOf(model[Mistral]) /\ \A g \in Handlers : v \notin Knows(work[g])
  BY DEF VoiceInv, VoicesExist, Made, Live
<1>7. OnlyMistral'
  BY <1>2, <1>3 DEF VoiceInv, OnlyMistral
<1>8. Sole'
  <2>1. \A g \in Handlers : g # h /\ Making(work[g]) => work[g].new # v
    BY <1>6 DEF Knows
  <2>2. v # work[h].old
    BY <1>6 DEF Knows
  <2> QED
    BY <1>2, <1>3, <1>5, <1>6, <2>1, <2>2 DEF VoiceInv, Sole
<1>9. Made'
  BY <1>2, <1>3, <1>4 DEF VoiceInv, Made
<1>10. Spared'
  BY <1>2, <1>3, <1>6 DEF VoiceInv, Spared
<1>11. VoicesExist'
  BY <1>5 DEF VoiceInv, VoicesExist
<1>12. Cared'
  BY <1>2, <1>3, <1>5 DEF VoiceInv, Cared
<1> QED
  BY <1>7, <1>8, <1>9, <1>10, <1>11, <1>12 DEF VoiceInv

\* A handler that ends without a duty, or goes on with less.
LEMMA OneRelieved ==
  ASSUME ModelsTyped, NEW h \in Handlers, Goto(h, Idle), \A v : ~Obliged(work[h], v)
  PROVE  \A g \in Handlers : Relieved(g)
<1>1. work'[h] = Idle /\ \A g \in Handlers : g # h => work'[g] = work[g]
  BY OneMoves
<1>2. Knows(Idle) = {None} /\ ~Making(Idle) /\ \A v : ~Obliged(Idle, v)
  BY DEF Idle, Knows, Making, Obliged
<1> QED
  BY <1>1, <1>2 DEF Relieved, Idle

\* Reading the row, or failing to, leaves linkMistralVoice with the same duty.
LEMMA LinkReads ==
  ASSUME ModelsTyped, VoiceInv, NEW h \in Handlers, LinkRead(h)
  PROVE  VoiceInv'
<1>1. work[h] \in WorkItem /\ work[h].pc = "link"
  BY DEF LinkRead, At, ModelsTyped, WorkOK
<1>2. PICK w : /\ Goto(h, w) /\ w \in {[work[h] EXCEPT !.pc = "write", !.data = model[Mistral]],
                                       [work[h] EXCEPT !.pc = "cleanup"]}
  BY DEF LinkRead
<1>3. work'[h] = w /\ \A g \in Handlers : g # h => work'[g] = work[g]
  BY <1>2, OneMoves
<1>4. w.pc \in {"write", "cleanup"} /\ w.old = work[h].old /\ w.new = work[h].new /\ w.ids = work[h].ids
  BY <1>1, <1>2 DEF WorkItem
<1>5. Relieved(h)
  BY <1>1, <1>3, <1>4 DEF Relieved, Knows, Obliged, Making
<1>6. \A g \in Handlers : Relieved(g)
  BY <1>3, <1>5 DEF Relieved
<1> QED
  BY <1>6, VoicesKept DEF LinkRead, remains, uploads

\* LinkWrite puts the new voice into the row; the one it replaces was read before
\* and is deleted next.
LEMMA LinkWrites ==
  ASSUME ModelsTyped, Careful, VoiceInv, NEW h \in Handlers, LinkWrite(h)
  PROVE  VoiceInv'
<1> USE ModelsAssumption
<1> DEFINE new == work[h].new
           old == work[h].old
           d == [work[h].data EXCEPT !.voice = new, !.clone = new]
           was == VoicesOf(model[Mistral])
<1>1. /\ work[h] \in WorkItem /\ work[h].pc = "write" /\ work[h].prov = None
      /\ work[h].data \in Data /\ new \in Voices /\ work[h].ids = {}
      /\ model \in [Providers -> Data \cup {None}]
  BY DEF LinkWrite, At, ModelsTyped, WorkOK, Making, TypeOK
<1>2. UNCHANGED <<voice, asked, excused>>
  BY DEF LinkWrite, remains, uploads
<1>3. ASSUME CallFails(Mistral), Goto(h, [work[h] EXCEPT !.pc = "cleanup"]), UNCHANGED model
      PROVE  VoiceInv'
  <2>1. work'[h] = [work[h] EXCEPT !.pc = "cleanup"] /\ \A g \in Handlers : g # h => work'[g] = work[g]
    BY <1>3, OneMoves
  <2>2. Relieved(h)
    BY <1>1, <2>1 DEF Relieved, Knows, Obliged, Making, WorkItem
  <2>3. \A g \in Handlers : Relieved(g)
    BY <2>1, <2>2 DEF Relieved
  <2> QED
    BY <1>2, <1>3, <2>3, VoicesKept
<1>4. ASSUME model[Mistral] # None, model' = [model EXCEPT ![Mistral] = d],
             NEW w, w = IF old = None THEN Idle ELSE [work[h] EXCEPT !.pc = "unlink"], Goto(h, w)
      PROVE  VoiceInv'
  <2>1. was \subseteq {old}
    <3>1. old = Current(model[Mistral])
      BY <1>1, <1>4 DEF Careful, ReadsHold
    <3>2. OneVoice(model[Mistral])
      BY DEF Careful
    <3> QED
      BY <1>1, <3>1, <3>2, RowVoices
  <2>2. VoicesOf(model'[Mistral]) = {new} /\ \A p \in Providers \ {Mistral} : model'[p] = model[p]
    <3>1. d # None /\ d.voice = new /\ d.clone = new
      BY <1>1 DEF Data, VoiceId, Named
    <3> HIDE DEF d
    <3>2. model'[Mistral] = d /\ \A p \in Providers \ {Mistral} : model'[p] = model[p]
      BY <1>1, <1>4
    <3>3. new # None
      BY <1>1
    <3> QED
      BY <3>1, <3>2, <3>3 DEF VoicesOf
  <2>3. work'[h] = w /\ \A g \in Handlers : g # h => work'[g] = work[g]
    BY <1>4, OneMoves
  <2>4. /\ ~Making(w) /\ w.pc \notin {"remove", "voices"} /\ Knows(w) \subseteq Knows(work[h]) \cup {None}
        /\ \A v : Obliged(w, v) <=> old # None /\ v = old
    BY <1>1, <1>4 DEF Making, Knows, Obliged, Idle, WorkItem
  <2>5. Making(work[h]) /\ new # old /\ \A g \in Handlers : g # h => new \notin Knows(work[g])
    BY <1>1 DEF Making, VoiceInv, Sole
  <2>6. new \in Live \cup asked
    BY <1>1, <2>5 DEF VoiceInv, Sole
  <2>7. Live' = Live /\ Live \subseteq Voices
    BY <1>2 DEF Live
  <2> HIDE DEF new, old, was
  <2>8. OnlyMistral'
    BY <2>2, <2>3, <2>4 DEF VoiceInv, OnlyMistral
  <2>9. Sole'
    <3>1. \A g \in Handlers : Making(work[g]) => work[g].new \in Voices
      BY DEF ModelsTyped, WorkOK
    <3> QED
      BY <1>2, <2>3, <2>4, <2>7, <3>1 DEF VoiceInv, Sole
  <2>10. Made'
    BY <1>2, <2>3, <2>4 DEF VoiceInv, Made
  <2>11. Spared'
    <3>1. \A g \in Handlers, v \in Voices : g # h /\ Obliged(work[g], v) => v # new
      BY <2>5, Duties
    <3> QED
      BY <2>2, <2>3, <2>4, <2>5, <3>1 DEF VoiceInv, Spared
  <2>12. VoicesExist'
    BY <1>2, <2>2, <2>6, <2>7 DEF VoicesExist
  <2>13. Cared'
    <3> SUFFICES ASSUME NEW v \in Live
                 PROVE  v \in {new} \cup excused \/ \E g \in Handlers : Obliged(work'[g], v)
      BY <1>2, <2>2, <2>7 DEF Cared
    <3>1. CASE v \in was
      BY <2>1, <2>3, <2>4, <2>7, <3>1
    <3>2. CASE \E g \in Handlers : Obliged(work[g], v)
      <4>1. PICK g \in Handlers : Obliged(work[g], v)
        BY <3>2
      <4>2. g = h => v = new
        BY <1>1, <4>1 DEF Obliged, Making, new
      <4> QED
        BY <2>3, <4>1, <4>2
    <3> QED
      BY <3>1, <3>2 DEF VoiceInv, Cared, was
  <2> QED
    BY <2>8, <2>9, <2>10, <2>11, <2>12, <2>13 DEF VoiceInv
<1> QED
  BY <1>3, <1>4 DEF LinkWrite

\* A voice whose one deletion is made, or fails and is reported.
LEMMA VoiceDeleted ==
  ASSUME ModelsTyped, VoiceInv, NEW h \in Handlers, NEW v, v \in Knows(work[h]),
         v \in Voices => Obliged(work[h], v), \A x : Obliged(work[h], x) => x = v,
         Deleted(v) \/ NotDeleted(v), Goto(h, Idle), UNCHANGED <<model, asked>>
  PROVE  VoiceInv'
<1> USE ModelsAssumption
<1>1. work'[h] = Idle /\ \A g \in Handlers : g # h => work'[g] = work[g]
  BY OneMoves
<1>2. Knows(Idle) = {None} /\ ~Making(Idle) /\ (\A x : ~Obliged(Idle, x)) /\ Idle.pc = "idle"
  BY DEF Idle, Knows, Making, Obliged
<1>3. v \in Voices => v \notin VoicesOf(model[Mistral])
  BY DEF VoiceInv, Spared
<1>4. voice \in [Voices -> {"unused", "live", "gone"}] /\ Live \subseteq Voices
  BY DEF ModelsTyped, TypeOK, Live
<1>5. \/ Live' = Live \ {v} /\ v \in Voices /\ excused' = excused \ {v} /\ voice' = [voice EXCEPT ![v] = "gone"]
      \/ Live' = Live /\ excused' = excused \cup ({v} \cap Live) /\ voice' = voice
  BY <1>4 DEF Deleted, NotDeleted, Live
<1>6. OnlyMistral'
  BY <1>1, <1>2 DEF VoiceInv, OnlyMistral
<1>7. Sole'
  <2>1. \A g \in Handlers : g # h /\ Making(work[g]) => work[g].new # v
    BY DEF VoiceInv, Sole
  <2>2. \A g \in Handlers : Making(work[g]) => work[g].new \in Voices
    BY DEF ModelsTyped, WorkOK
  <2> QED
    BY <1>1, <1>2, <1>5, <2>1, <2>2 DEF VoiceInv, Sole
<1>8. Made'
  BY <1>1, <1>2, <1>4, <1>5 DEF VoiceInv, Made
<1>9. Spared' /\ VoicesExist'
  BY <1>1, <1>2, <1>3, <1>5 DEF VoiceInv, Spared, VoicesExist
<1>10. Cared'
  BY <1>1, <1>5 DEF VoiceInv, Cared
<1> QED
  BY <1>6, <1>7, <1>8, <1>9, <1>10 DEF VoiceInv

\* Unlink deletes the voice it is obliged to.
LEMMA Unlinks ==
  ASSUME ModelsTyped, VoiceInv, NEW h \in Handlers, Unlink(h)
  PROVE  VoiceInv'
<1> DEFINE v == IF At(h, "unlink") THEN work[h].old ELSE work[h].new
<1>1. /\ v \in Knows(work[h]) /\ Obliged(work[h], v) /\ \A x : Obliged(work[h], x) => x = v
  BY DEF Unlink, At, Knows, Obliged, Making
<1>2. /\ Deleted(v) \/ NotDeleted(v)
      /\ Goto(h, Idle) /\ UNCHANGED <<model, asked>>
  BY DEF Unlink
<1> HIDE DEF v
<1> QED
  BY <1>1, <1>2, VoiceDeleted

\* DeleteMistralVoice deletes the one voice of the deleted model.
LEMMA MistralVoices ==
  ASSUME ModelsTyped, Careful, VoiceInv, NEW h \in Handlers, DeleteMistralVoice(h)
  PROVE  VoiceInv'
<1> USE ModelsAssumption
<1> DEFINE w == work[h]
           v == HeadVoice(w)
<1>1. /\ w.pc = "voices" /\ w.old = None /\ w.ids # {} /\ w.ids \subseteq VoicesOf(w.data)
      /\ w.data \in Data /\ OneVoice(w.data)
  BY DEF DeleteMistralVoice, At, ModelsTyped, WorkOK, Careful
<1>2. w.ids = {v}
  <2>1. w.ids \subseteq {Current(w.data)}
    BY <1>1, RowVoices
  <2>2. v \in w.ids
    BY <1>1 DEF HeadVoice, VoicesOf
  <2> QED
    BY <2>1, <2>2
<1>3. v \in Knows(w) /\ Obliged(w, v) /\ \A x : Obliged(w, x) => x = v
  BY <1>1, <1>2 DEF Knows, Obliged, Making
<1>4. NextVoice(w, v) = Idle
  BY <1>2 DEF NextVoice
<1>5. /\ Deleted(v) \/ NotDeleted(v)
      /\ Goto(h, Idle) /\ UNCHANGED <<model, asked>>
  BY <1>4 DEF DeleteMistralVoice
<1> HIDE DEF v
<1> QED
  BY <1>3, <1>5, VoiceDeleted

\* What the user deletes by hand is gone from the voices, and said to be.
LEMMA VoiceByHand ==
  ASSUME ModelsTyped, VoiceInv, NEW v \in Voices, DeleteVoice(v)
  PROVE  VoiceInv'
<1>1. /\ voice \in [Voices -> {"unused", "live", "gone"}] /\ v \in Live
      /\ voice' = [voice EXCEPT ![v] = "gone"] /\ asked' = asked \cup {v}
      /\ excused' = excused \ {v} /\ UNCHANGED <<model, work>>
  BY DEF ModelsTyped, TypeOK, DeleteVoice, Editable
<1>2. Live' = Live \ {v} /\ Live \subseteq Voices
  BY <1>1 DEF Live
<1>3. OnlyMistral' /\ Spared' /\ VoicesExist'
  BY <1>1, <1>2 DEF VoiceInv, OnlyMistral, Spared, VoicesExist
<1>4. Sole'
  BY <1>1, <1>2 DEF VoiceInv, Sole
<1>5. Made'
  BY <1>1 DEF VoiceInv, Made
<1>6. Cared'
  BY <1>1, <1>2 DEF VoiceInv, Cared
<1> QED
  BY <1>3, <1>4, <1>5, <1>6 DEF VoiceInv

\* Mistral's row is saved with voices that exist and that nobody is to delete; what
\* it named before and names no more is excused.
LEMMA RowSaved ==
  ASSUME ModelsTyped, VoiceInv, NEW d \in Data, model' = [model EXCEPT ![Mistral] = d],
         Settled(VoicesOf(d) \ VoicesOf(model[Mistral])),
         excused' = (excused \ VoicesOf(d)) \cup ((VoicesOf(model[Mistral]) \ VoicesOf(d)) \cap Live),
         UNCHANGED <<voice, asked>>, \A g \in Handlers : Relieved(g)
  PROVE  VoiceInv'
<1> USE ModelsAssumption
<1>1. model'[Mistral] = d /\ \A p \in Providers \ {Mistral} : model'[p] = model[p]
  BY DEF ModelsTyped, TypeOK
<1>2. Live' = Live /\ Live \subseteq Voices
  BY DEF Live
<1>3. OnlyMistral'
  BY <1>1 DEF Relieved, VoiceInv, OnlyMistral
<1>4. Sole' /\ Made'
  BY HandsKept
<1>5. Spared'
  <2>1. \A g \in Handlers, v \in Voices : Obliged(work[g], v) => v \in Doomed(g)
    BY Duties
  <2> QED
    BY <1>1, <2>1 DEF Relieved, VoiceInv, Spared, Settled
<1>6. VoicesExist'
  BY <1>1, <1>2 DEF VoiceInv, VoicesExist, Settled
<1>7. Cared'
  BY <1>1, <1>2 DEF Relieved, VoiceInv, Cared
<1> QED
  BY <1>3, <1>4, <1>5, <1>6, <1>7 DEF VoiceInv

\* UpdateModel writes the row of the page's provider, which still is what the page
\* shows.
LEMMA PageSaved ==
  ASSUME ModelsTyped, Careful, VoiceInv, SavesSettled, NEW t \in Pages, UpdateModel(t)
  PROVE  VoiceInv'
<1> USE ModelsAssumption
<1> DEFINE g == page[t]
           p == g.prov
<1>1. /\ g \in [prov : Providers, data : Data \cup {None}] /\ p \in Providers
      /\ g # None /\ page'[t] = None /\ g.data = model[p]
      /\ model \in [Providers -> Data \cup {None}]
  BY DEF UpdateModel, ModelsTyped, TypeOK, Careful, ReadsHold
<1>2. UNCHANGED <<work, voice, asked>> /\ \A h \in Handlers : Relieved(h)
  BY DEF UpdateModel, Relieved
<1>3. PICK d \in Edited(g) :
        /\ model' = [model EXCEPT ![p] = d]
        /\ excused' = (excused \ VoicesOf(d)) \cup ((VoicesOf(model[p]) \ VoicesOf(d)) \cap Live)
  BY DEF UpdateModel
<1>4. d \in Data /\ (p # Mistral /\ VoicesOf(g.data) = {} => VoicesOf(d) = {})
  BY <1>1, EditedPage
<1>5. CASE p = Mistral
  <2>1. CASE model' = model
    <3>1. d = model[Mistral]
      BY <1>1, <1>3, <1>5, <2>1
    <3>2. Settled(VoicesOf(d) \ VoicesOf(model[Mistral]))
      BY <3>1 DEF Settled
    <3> QED
      BY <1>2, <1>3, <1>4, <1>5, <3>2, RowSaved
  <2>2. CASE model' # model
    <3>1. Settled(VoicesOf(model[Mistral]))'
      BY <1>1, <2>2 DEF SavesSettled
    <3>2. model'[Mistral] = d /\ Live' = Live /\ \A h \in Handlers : Doomed(h)' = Doomed(h)
      BY <1>1, <1>2, <1>3, <1>5 DEF Live, Doomed
    <3>3. Settled(VoicesOf(d) \ VoicesOf(model[Mistral]))
      BY <1>2, <3>1, <3>2 DEF Settled
    <3> QED
      BY <1>2, <1>3, <1>4, <1>5, <3>3, RowSaved
  <2> QED
    BY <2>1, <2>2
<1>6. CASE p # Mistral
  <2>1. VoicesOf(model[p]) = {} /\ VoicesOf(d) = {}
    BY <1>1, <1>4, <1>6 DEF VoiceInv, OnlyMistral
  <2>2. \A q \in Providers : VoicesOf(model'[q]) = VoicesOf(model[q])
    BY <1>1, <1>3, <2>1
  <2> QED
    BY <1>2, <1>3, <2>1, <2>2, VoicesKept
<1> QED
  BY <1>5, <1>6

\* SaveModel makes a row where there was none.
LEMMA RowMade ==
  ASSUME ModelsTyped, Careful, VoiceInv, NEW h \in Handlers, SaveModel(h)
  PROVE  VoiceInv'
<1> USE ModelsAssumption
<1> DEFINE w == work[h]
           p == w.prov
           d == w.data
<1>1. /\ w.pc = "save" /\ p \in Providers /\ d \in Data /\ (p # Mistral => VoicesOf(d) = {})
      /\ model \in [Providers -> Data \cup {None}]
  BY DEF SaveModel, At, ModelsTyped, WorkOK, TypeOK
<1>2. UNCHANGED <<voice, asked>> /\ \A g \in Handlers : Relieved(g)
  BY <1>1, OneRelieved DEF SaveModel, Obliged, Making
<1>3. CASE UNCHANGED <<model, active, excused>>
  BY <1>2, <1>3, VoicesKept
<1>4. ASSUME model' = [model EXCEPT ![p] = d], excused' = excused \ VoicesOf(d)
      PROVE  VoiceInv'
  <2>1. model[p] = None /\ Settled(VoicesOf(d))
    BY <1>1 DEF Careful, ReadsHold
  <2>2. VoicesOf(model[p]) = {}
    BY <2>1 DEF VoicesOf
  <2>3. CASE p = Mistral
    <3>1. Settled(VoicesOf(d) \ VoicesOf(model[Mistral]))
      BY <2>1, <2>2, <2>3
    <3>2. excused' = (excused \ VoicesOf(d)) \cup ((VoicesOf(model[Mistral]) \ VoicesOf(d)) \cap Live)
      BY <1>4, <2>2, <2>3
    <3> QED
      BY <1>1, <1>2, <1>4, <2>3, <3>1, <3>2, RowSaved
  <2>4. CASE p # Mistral
    <3>1. \A q \in Providers : VoicesOf(model'[q]) = VoicesOf(model[q])
      BY <1>1, <1>4, <2>2, <2>4
    <3> QED
      BY <1>1, <1>2, <1>4, <2>4, <3>1, VoicesKept
  <2> QED
    BY <2>3, <2>4
<1> QED
  BY <1>3, <1>4 DEF SaveModel

\* DeleteModelWSS reads the voices of the row, or excuses them.
LEMMA VoicesRead ==
  ASSUME ModelsTyped, VoiceInv, NEW h \in Handlers, NEW p \in Providers, DeleteModelWSS(h, p)
  PROVE  VoiceInv'
<1> USE ModelsAssumption
<1>1. work[h] = Idle /\ UNCHANGED <<model, voice, asked>>
  BY DEF DeleteModelWSS, At, ModelsTyped, WorkOK
<1>2. ASSUME NEW w, w = [Idle EXCEPT !.pc = "remove", !.prov = p], Goto(h, w), excused \subseteq excused'
      PROVE  VoiceInv'
  <2>1. work'[h] = w /\ \A g \in Handlers : g # h => work'[g] = work[g]
    BY <1>2, OneMoves
  <2>2. Relieved(h)
    BY <1>1, <1>2, <2>1 DEF Relieved, Knows, Obliged, Making, Idle
  <2>3. \A g \in Handlers : Relieved(g)
    BY <2>1, <2>2 DEF Relieved
  <2> QED
    BY <1>1, <1>2, <2>3, VoicesKept
<1>3. ASSUME NEW w, w = [Idle EXCEPT !.pc = "remove", !.prov = p, !.data = model[p], !.ids = VoicesOf(model[p])],
             Goto(h, w), UNCHANGED excused
      PROVE  VoiceInv'
  <2>1. work'[h] = w /\ \A g \in Handlers : g # h => work'[g] = work[g]
    BY <1>3, OneMoves
  <2>2. /\ w.pc = "remove" /\ w.prov = p /\ w.ids = VoicesOf(model[p]) /\ ~Making(w)
        /\ Knows(w) = {None} \cup VoicesOf(model[p]) /\ \A v : ~Obliged(w, v) /\ ~Obliged(Idle, v)
    BY <1>3 DEF Idle, Making, Knows, Obliged
  <2>3. VoicesOf(model[p]) \subseteq VoicesOf(model[Mistral])
    BY DEF VoiceInv, OnlyMistral
  <2>4. Live' = Live
    BY <1>1 DEF Live
  <2>5. OnlyMistral'
    BY <1>1, <2>1, <2>2 DEF VoiceInv, OnlyMistral
  <2>6. Sole'
    <3>1. \A g \in Handlers : Making(work[g]) => work[g].new \in Voices \ VoicesOf(model[Mistral])
      BY DEF VoiceInv, Spared, Obliged, ModelsTyped, WorkOK
    <3> QED
      BY <1>1, <2>1, <2>2, <2>3, <2>4, <3>1 DEF VoiceInv, Sole
  <2>7. Made'
    <3>1. \A v \in Voices \cap VoicesOf(model[Mistral]) : voice[v] # "unused"
      BY DEF VoiceInv, VoicesExist, Made, Live
    <3> QED
      BY <1>1, <2>1, <2>2, <2>3, <3>1 DEF VoiceInv, Made
  <2>8. \A g \in Handlers, v \in Voices : Obliged(work'[g], v) <=> Obliged(work[g], v)
    BY <1>1, <2>1, <2>2
  <2>9. Spared' /\ VoicesExist'
    BY <1>1, <2>4, <2>8 DEF VoiceInv, Spared, VoicesExist
  <2>10. Cared'
    BY <1>1, <1>3, <2>4, <2>8 DEF VoiceInv, Cared, Live
  <2> QED
    BY <2>5, <2>6, <2>7, <2>9, <2>10 DEF VoiceInv
<1> QED
  BY <1>2, <1>3 DEF DeleteModelWSS

\* DeleteModel deletes the row; its voices are the handler's duty from there on.
LEMMA RowDeleted ==
  ASSUME ModelsTyped, Careful, VoiceInv, NEW h \in Handlers, DeleteModel(h)
  PROVE  VoiceInv'
<1> USE ModelsAssumption
<1> DEFINE p == work[h].prov
<1>1. /\ work[h] \in WorkItem /\ work[h].pc = "remove" /\ p \in Providers /\ work[h].old = None
      /\ \A v : ~Obliged(work[h], v)
      /\ model \in [Providers -> Data \cup {None}] /\ UNCHANGED <<voice, asked, excused>>
  BY DEF DeleteModel, At, ModelsTyped, WorkOK, TypeOK, remains, uploads, Obliged, Making
<1>2. ASSUME Goto(h, Idle), \A q \in Providers : VoicesOf(model'[q]) = VoicesOf(model[q])
      PROVE  VoiceInv'
  BY <1>1, <1>2, OneRelieved, VoicesKept
<1>3. CASE UNCHANGED model /\ Goto(h, Idle)
  BY <1>2, <1>3
<1>4. ASSUME model[p] # None, model' = [model EXCEPT ![p] = None],
             NEW w, w = IF work[h].ids = {} THEN Idle ELSE [work[h] EXCEPT !.pc = "voices"], Goto(h, w)
      PROVE  VoiceInv'
  <2>1. VoicesOf(model'[p]) = {} /\ \A q \in Providers : q # p => model'[q] = model[q]
    BY <1>1, <1>4 DEF VoicesOf
  <2>2. CASE p # Mistral
    <3>1. w = Idle /\ VoicesOf(model[p]) = {}
      BY <1>1, <1>4, <2>2 DEF VoiceInv, OnlyMistral
    <3>2. \A q \in Providers : VoicesOf(model'[q]) = VoicesOf(model[q])
      BY <2>1, <3>1
    <3> QED
      BY <1>2, <1>4, <3>1, <3>2
  <2>3. CASE p = Mistral
    <3>1. VoicesOf(model[Mistral]) \subseteq work[h].ids \cup excused
      BY <1>1, <1>4, <2>3 DEF Careful, ReadsHold
    <3>2. work'[h] = w /\ \A g \in Handlers : g # h => work'[g] = work[g]
      BY <1>4, OneMoves
    <3>3. /\ ~Making(w) /\ Knows(w) \subseteq Knows(work[h]) \cup {None}
          /\ w.ids = work[h].ids /\ w.pc \in {"idle", "voices"}
          /\ w.pc = "voices" => w.prov = Mistral
          /\ \A v : Obliged(w, v) <=> v \in work[h].ids
      BY <1>1, <1>4, <2>3 DEF Idle, Making, Knows, Obliged, WorkItem
    <3>4. Live' = Live /\ Live \subseteq Voices
      BY <1>1 DEF Live
    <3>5. OnlyMistral'
      BY <2>1, <2>3, <3>2, <3>3 DEF VoiceInv, OnlyMistral
    <3>6. Sole'
      <4>1. \A g \in Handlers : Making(work[g]) => work[g].new \in Voices
        BY DEF ModelsTyped, WorkOK
      <4> QED
        BY <1>1, <3>2, <3>3, <3>4, <4>1 DEF VoiceInv, Sole
    <3>7. Made'
      BY <1>1, <3>2, <3>3 DEF VoiceInv, Made
    <3>8. Spared' /\ VoicesExist'
      BY <2>1, <2>3 DEF Spared, VoicesExist
    <3>9. Cared'
      BY <1>1, <3>1, <3>2, <3>3, <3>4 DEF VoiceInv, Cared
    <3> QED
      BY <3>5, <3>6, <3>7, <3>8, <3>9 DEF VoiceInv
  <2> QED
    BY <2>2, <2>3
<1> QED
  BY <1>3, <1>4 DEF DeleteModel

\* The other steps take no duty over and change no voice of a row.
LEMMA VoicesUntouched ==
  ASSUME ModelsTyped, VoiceInv,
         \/ \E t \in Pages, p \in Providers : OpenPage(t, p)
         \/ \E t \in Pages : ClosePage(t)
         \/ \E p \in Providers : SetModelActive(p) \/ FileUpload(p)
         \/ \E u \in uploaded : FileAdd(u)
         \/ \E p \in Providers, f \in Files : FileDelete(p, f)
  PROVE  VoiceInv'
<1> USE ModelsAssumption
<1>1. UNCHANGED <<work, voice, excused>>
  BY DEF OpenPage, ClosePage, SetModelActive, FileUpload, FileAdd, FileDelete, remains, uploads
<1>2. \A g \in Handlers : Relieved(g)
  BY <1>1 DEF Relieved
<1>3. asked \subseteq asked' /\ asked' \cap Voices \subseteq asked
  BY DEF OpenPage, ClosePage, SetModelActive, FileUpload, FileAdd, FileDelete, remains, uploads
<1>4. model \in [Providers -> Data \cup {None}] /\ uploaded \subseteq [file : Files, prov : Providers]
      /\ (active # None => active \in Providers /\ model[active] # None)
  BY DEF ModelsTyped, TypeOK
<1>5. \A p \in Providers : VoicesOf(model'[p]) = VoicesOf(model[p])
  <2>1. ASSUME NEW p \in Providers, NEW fs \in SUBSET FileName, model[p] # None,
               model' = [model EXCEPT ![p].files = fs]
        PROVE  \A q \in Providers : VoicesOf(model'[q]) = VoicesOf(model[q])
    <3>1. model[p] \in Data
      BY <1>4, <2>1
    <3>2. [model[p] EXCEPT !.files = fs] \in Data /\ VoicesOf([model[p] EXCEPT !.files = fs]) = VoicesOf(model[p])
      BY <3>1 DEF Data, VoicesOf
    <3>3. model' = [model EXCEPT ![p] = [model[p] EXCEPT !.files = fs]]
      BY <2>1
    <3> QED
      BY <1>4, <3>2, <3>3
  <2>2. ASSUME NEW u \in uploaded, FileAdd(u)
        PROVE  \A q \in Providers : VoicesOf(model'[q]) = VoicesOf(model[q])
    <3>1. /\ active \in Providers /\ model[active] # None
          /\ model' = [model EXCEPT ![active].files = model[active].files \cup {FullId(u)}]
      BY <1>4, <2>2 DEF FileAdd, AddFileFromUserGPT
    <3>2. model[active].files \cup {FullId(u)} \in SUBSET FileName
      BY <1>4, <3>1 DEF Data, FileName
    <3> QED
      BY <2>1, <3>1, <3>2
  <2>3. ASSUME NEW p \in Providers, NEW f \in Files, FileDelete(p, f)
        PROVE  \A q \in Providers : VoicesOf(model'[q]) = VoicesOf(model[q])
    <3>1. \/ model' = model
          \/ model[p] # None /\ model' = [model EXCEPT ![p].files = model[p].files \ {f}]
      BY <2>3 DEF FileDelete
    <3>2. model[p] # None => model[p].files \ {f} \in SUBSET FileName
      BY <1>4 DEF Data
    <3> QED
      BY <2>1, <3>1, <3>2
  <2>4. UNCHANGED model \/ (\E u \in uploaded : FileAdd(u)) \/ \E p \in Providers, f \in Files : FileDelete(p, f)
    BY DEF OpenPage, ClosePage, SetModelActive, FileUpload
  <2> QED
    BY <2>2, <2>3, <2>4
<1> QED
  BY <1>1, <1>2, <1>3, <1>5, VoicesKept

\* Every step keeps the voices in order.
LEMMA VoiceInvStep ==
  ASSUME ModelsTyped, Careful, VoiceInv, [CarefulNext]_vars
  PROVE  VoiceInv'
<1>1. CASE UNCHANGED vars
  BY <1>1 DEF vars, remains, uploads, VoiceInv, OnlyMistral, Sole, Made, Spared, Cared, VoicesExist, Live
<1>2. CASE Next /\ SavesSettled
  <2>1. ASSUME NEW h \in Handlers, Serve(h)
        PROVE  VoiceInv'
    <3>1. CASE CreateVoice(h)
      <4>1. UNCHANGED <<model, asked, excused>> /\ work[h].pc = "create"
        BY <3>1 DEF CreateVoice, remains, uploads, At
      <4>2. CASE Fault /\ Goto(h, Idle) /\ UNCHANGED voice
        <5>1. \A g \in Handlers : Relieved(g)
          BY <4>1, <4>2, OneRelieved DEF Obliged, Making
        <5> QED
          BY <4>1, <4>2, <5>1, VoicesKept
      <4> QED
        BY <3>1, <4>1, <4>2, NewVoice DEF CreateVoice
    <3> QED
      BY <2>1, <3>1, LinkReads, LinkWrites, Unlinks, RowMade, RowDeleted, MistralVoices DEF Serve
  <2>2. ASSUME NEW h \in Handlers, NEW t \in Pages, CreateModel(h, t)
        PROVE  VoiceInv'
    <3>1. work[h] = Idle /\ UNCHANGED <<model, voice, asked, excused>>
      BY <2>2 DEF CreateModel, At, remains, uploads, ModelsTyped, WorkOK
    <3>2. PICK d : Goto(h, [Idle EXCEPT !.pc = "save", !.prov = page[t].prov, !.data = d])
      BY <2>2 DEF CreateModel
    <3>3. /\ work'[h] = [Idle EXCEPT !.pc = "save", !.prov = page[t].prov, !.data = d]
          /\ \A g \in Handlers : g # h => work'[g] = work[g]
      BY <3>2, OneMoves
    <3>4. Relieved(h)
      BY <3>1, <3>3 DEF Relieved, Knows, Obliged, Making, Idle
    <3>5. \A g \in Handlers : Relieved(g)
      BY <3>3, <3>4 DEF Relieved
    <3> QED
      BY <3>1, <3>5, VoicesKept
  <2> QED
    BY <1>2, <2>1, <2>2, CloneVoices, VoicesRead, PageSaved, VoiceByHand, VoicesUntouched DEF Next
<1> QED
  BY <1>1, <1>2 DEF CarefulNext
-----------------------------------------------------------------------------
(* Files. *)

\* A step that adds no file to a row and moves none.
LEMMA FilesKept ==
  ASSUME FileInv, UNCHANGED <<remote, uploaded, misfiled>>, asked \subseteq asked',
         \A p \in Providers : model'[p] # None =>
             model'[p].files \subseteq IF model[p] = None THEN {} ELSE model[p].files
  PROVE  FileInv'
BY DEF FileInv

\* No file waits at the start and no row has one.
LEMMA FileInvInit == Init => FileInv
BY DEF Init, FileInv

\* LinkWrite writes the files back that it read, which nobody has changed since.
LEMMA LinkWriteFiles ==
  ASSUME ModelsTyped, Careful, FileInv, NEW h \in Handlers, LinkWrite(h)
  PROVE  FileInv'
<1> DEFINE d == [work[h].data EXCEPT !.voice = work[h].new, !.clone = work[h].new]
<1>1. /\ work[h].pc = "write" /\ work[h].prov = None /\ work[h].data \in Data
      /\ model \in [Providers -> Data \cup {None}] /\ Mistral \in Providers
  BY ModelsAssumption DEF LinkWrite, At, ModelsTyped, WorkOK, TypeOK
<1>2. d.files = work[h].data.files
  BY <1>1 DEF Data
<1>3. CASE UNCHANGED model
  BY <1>1, <1>3, FilesKept DEF LinkWrite, remains, uploads
<1>4. CASE model[Mistral] # None /\ model' = [model EXCEPT ![Mistral] = d]
  <2>1. model[Mistral] = work[h].data
    BY <1>1, <1>4 DEF Careful, ReadsHold
  <2> HIDE DEF d
  <2> QED
    BY <1>1, <1>2, <1>4, <2>1, FilesKept DEF LinkWrite, remains, uploads
<1> QED
  BY <1>3, <1>4 DEF LinkWrite

\* UpdateModel writes the files back that the page shows.
LEMMA PageFiles ==
  ASSUME ModelsTyped, Careful, FileInv, NEW t \in Pages, UpdateModel(t)
  PROVE  FileInv'
<1> DEFINE g == page[t]
<1>1. /\ g \in [prov : Providers, data : Data \cup {None}] /\ g.prov \in Providers
      /\ g.data # None /\ g.data = model[g.prov] /\ model \in [Providers -> Data \cup {None}]
  BY DEF UpdateModel, ModelsTyped, TypeOK, Careful, ReadsHold
<1>2. PICK d \in Edited(g) : model' = [model EXCEPT ![g.prov] = d]
  BY DEF UpdateModel
<1>3. d.files = model[g.prov].files
  BY <1>1, EditedPage
<1> QED
  BY <1>1, <1>2, <1>3, FilesKept DEF UpdateModel, uploads

\* FileUpload takes a file that is nowhere yet.
LEMMA UploadedFile ==
  ASSUME ModelsTyped, FileInv, NEW p \in Providers, FileUpload(p)
  PROVE  FileInv'
<1>1. PICK f \in Files :
        /\ f \notin asked /\ \A q \in Providers : f \notin remote[q]
        /\ \A q \in Providers : model[q] # None => f \notin model[q].files
        /\ remote' = [remote EXCEPT ![p] = @ \cup {f}]
        /\ uploaded' = uploaded \cup {[file |-> f, prov |-> p]}
  BY DEF FileUpload
<1>2. /\ remote \in [Providers -> SUBSET Files] /\ uploaded \subseteq [file : Files, prov : Providers]
      /\ UNCHANGED <<model, asked, misfiled>>
  BY DEF ModelsTyped, TypeOK, FileUpload, remains, uploads
<1>3. \A q \in Providers : remote[q] \subseteq remote'[q]
  BY <1>1, <1>2
<1>4. \A u \in uploaded : u.file # f
  BY <1>1, <1>2 DEF FileInv
<1>5. f \in remote'[p]
  BY <1>1, <1>2
<1> DEFINE n == [file |-> f, prov |-> p]
<1>6. n.file = f /\ n.prov = p /\ uploaded' = uploaded \cup {n}
  BY <1>1
<1> HIDE DEF n
<1>7. ASSUME NEW u \in uploaded'
      PROVE  /\ u.file \in remote'[u.prov] \cup asked'
             /\ \A x \in uploaded' : x.file = u.file => x = u
             /\ \A q \in Providers : model'[q] # None => u.file \notin model'[q].files
  <2>1. CASE u = n
    BY <1>1, <1>2, <1>4, <1>5, <1>6, <2>1
  <2>2. CASE u \in uploaded
    <3>1. u.prov \in Providers
      BY <1>2, <2>2
    <3> QED
      BY <1>2, <1>3, <1>4, <1>6, <2>2, <3>1 DEF FileInv
  <2> QED
    BY <1>6, <2>1, <2>2
<1>8. \A q \in Providers : model'[q] # None =>
        model'[q].files \subseteq remote'[q] \cup asked' \cup misfiled'
  BY <1>2, <1>3 DEF FileInv
<1> QED
  BY <1>7, <1>8 DEF FileInv

\* FileAdd puts a file into the row of its provider under its own name, or it is
\* misfiled.
LEMMA AddedFile ==
  ASSUME ModelsTyped, Careful, FileInv, NEW u \in uploaded, FileAdd(u)
  PROVE  FileInv'
<1>1. /\ active \in Providers /\ model[active] \in Data
      /\ (u.prov = active /\ FullId(u) = u.file) \/ FullId(u) \in misfiled'
      /\ model \in [Providers -> Data \cup {None}]
      /\ model' = [model EXCEPT ![active].files = @ \cup {FullId(u)}]
      /\ uploaded' = uploaded \ {u} /\ UNCHANGED <<remote, asked>>
      /\ misfiled \subseteq misfiled' /\ u \in [file : Files, prov : Providers]
  BY DEF FileAdd, AddFileFromUserGPT, ModelsTyped, TypeOK, FullId, remains
<1>2. /\ model'[active] = [model[active] EXCEPT !.files = @ \cup {FullId(u)}]
      /\ \A p \in Providers : p # active => model'[p] = model[p]
  BY <1>1
<1>3. model'[active].files = model[active].files \cup {FullId(u)}
  BY <1>1, <1>2 DEF Data
<1>4. FullId(u) \in remote'[active] \cup asked' \cup misfiled'
  BY <1>1 DEF FileInv
<1>5. \A x \in uploaded \ {u} : x.file # u.file
  BY DEF FileInv
<1>6. ASSUME NEW x \in uploaded'
      PROVE  /\ x.file \in remote'[x.prov] \cup asked'
             /\ \A y \in uploaded' : y.file = x.file => y = x
             /\ \A p \in Providers : model'[p] # None => x.file \notin model'[p].files
  <2>1. x \in uploaded \ {u} /\ x.file # FullId(u)
    <3>1. x.file \in Files /\ u.file \in Files
      BY <1>1, <1>6 DEF ModelsTyped, TypeOK
    <3> QED
      BY <1>1, <1>5, <3>1, ModelsAssumption DEF FullId
  <2>2. \A p \in Providers : model[p] # None => x.file \notin model[p].files
    BY <2>1 DEF FileInv
  <2>3. \A p \in Providers : model'[p] # None => x.file \notin model'[p].files
    BY <1>1, <1>2, <1>3, <2>1, <2>2, ModelsAssumption
  <2> QED
    BY <1>1, <2>1, <2>3 DEF FileInv
<1>7. ASSUME NEW p \in Providers, model'[p] # None
      PROVE  model'[p].files \subseteq remote'[p] \cup asked' \cup misfiled'
  <2>1. CASE p = active
    <3>1. model[p].files \subseteq remote[p] \cup asked \cup misfiled
      BY <1>1, <2>1, ModelsAssumption DEF FileInv
    <3> QED
      BY <1>1, <1>3, <1>4, <2>1, <3>1
  <2>2. CASE p # active
    BY <1>1, <1>2, <1>7, <2>2 DEF FileInv
  <2> QED
    BY <2>1, <2>2
<1> QED
  BY <1>6, <1>7 DEF FileInv

\* FileDelete is the user's own.
LEMMA DeletedFile ==
  ASSUME ModelsTyped, FileInv, NEW p \in Providers, NEW f \in Files, FileDelete(p, f)
  PROVE  FileInv'
<1>1. /\ model \in [Providers -> Data \cup {None}] /\ remote \in [Providers -> SUBSET Files]
      /\ remote' = [remote EXCEPT ![p] = @ \ {f}] /\ asked' = asked \cup {f} /\ UNCHANGED <<uploaded, misfiled>>
  BY DEF FileDelete, ModelsTyped, TypeOK, uploads
<1>2. \A q \in Providers : remote[q] \subseteq remote'[q] \cup {f}
  BY <1>1
<1>3. \A q \in Providers : model'[q] # None => model[q] # None /\ model'[q].files \subseteq model[q].files
  <2>1. CASE model' = model
    BY <2>1
  <2>2. CASE model[p] # None /\ model' = [model EXCEPT ![p].files = @ \ {f}]
    <3>1. model[p] \in Data
      BY <1>1, <2>2
    <3>2. model'[p] = [model[p] EXCEPT !.files = @ \ {f}] /\ \A q \in Providers : q # p => model'[q] = model[q]
      BY <1>1, <2>2
    <3>3. model'[p].files = model[p].files \ {f}
      BY <3>1, <3>2 DEF Data
    <3> QED
      BY <2>2, <3>2, <3>3
  <2> QED
    BY <2>1, <2>2 DEF FileDelete
<1> QED
  BY <1>1, <1>2, <1>3 DEF FileInv

\* DeleteModel deletes the files of the row; those that wait are in no row.
LEMMA DeletedModelFiles ==
  ASSUME ModelsTyped, FileInv, NEW h \in Handlers, DeleteModel(h)
  PROVE  FileInv'
<1> DEFINE p == work[h].prov
<1>1. /\ p \in Providers /\ model \in [Providers -> Data \cup {None}]
      /\ remote \in [Providers -> SUBSET Files]
      /\ uploaded \subseteq [file : Files, prov : Providers] /\ UNCHANGED <<uploaded, misfiled, asked>>
  BY DEF DeleteModel, At, ModelsTyped, WorkOK, TypeOK, remains, uploads
<1>2. CASE UNCHANGED <<model, remote>>
  BY <1>1, <1>2, FilesKept
<1>3. CASE /\ model[p] # None /\ model' = [model EXCEPT ![p] = None]
           /\ remote' = [remote EXCEPT ![p] = @ \ model[p].files]
  <2>1. /\ model'[p] = None /\ \A q \in Providers : q # p => model'[q] = model[q] /\ remote'[q] = remote[q]
        /\ remote'[p] = remote[p] \ model[p].files
    BY <1>1, <1>3
  <2> QED
    BY <1>1, <1>3, <2>1 DEF FileInv
<1> QED
  BY <1>2, <1>3 DEF DeleteModel

\* Every step keeps the files in order.
LEMMA FileInvStep ==
  ASSUME ModelsTyped, Careful, FileInv, [Next]_vars
  PROVE  FileInv'
<1>1. CASE UNCHANGED vars
  BY <1>1 DEF vars, remains, uploads, FileInv
<1>2. ASSUME NEW h \in Handlers, SaveModel(h)
      PROVE  FileInv'
  <2>1. work[h].prov \in Providers /\ work[h].data.files = {} /\ model \in [Providers -> Data \cup {None}]
    BY <1>2 DEF SaveModel, At, ModelsTyped, WorkOK, TypeOK
  <2>2. CASE UNCHANGED model
    BY <1>2, <2>2, FilesKept DEF SaveModel, uploads
  <2>3. CASE model' = [model EXCEPT ![work[h].prov] = work[h].data]
    BY <1>2, <2>1, <2>3, FilesKept DEF SaveModel, uploads
  <2> QED
    BY <1>2, <2>2, <2>3 DEF SaveModel
<1>3. ASSUME UNCHANGED <<model, remote, uploaded, misfiled>>, asked \subseteq asked'
      PROVE  FileInv'
  BY <1>3, FilesKept
<1>4. ASSUME NEW h \in Handlers, Serve(h)
      PROVE  FileInv'
  BY <1>2, <1>3, <1>4, LinkWriteFiles, DeletedModelFiles
     DEF Serve, CreateVoice, LinkRead, Unlink, DeleteMistralVoice, remains, uploads
<1>5. ASSUME NEW h \in Handlers, CloneVoice(h) \/ (\E p \in Providers : DeleteModelWSS(h, p))
                                 \/ \E t \in Pages : CreateModel(h, t)
      PROVE  FileInv'
  BY <1>3, <1>5 DEF CloneVoice, DeleteModelWSS, CreateModel, remains, uploads
<1>6. ASSUME \/ \E t \in Pages : ClosePage(t) \/ \E p \in Providers : OpenPage(t, p)
             \/ \E v \in Voices : DeleteVoice(v)
             \/ \E p \in Providers : SetModelActive(p)
      PROVE  FileInv'
  BY <1>3, <1>6 DEF ClosePage, OpenPage, DeleteVoice, SetModelActive, remains, uploads
<1> QED
  BY <1>1, <1>4, <1>5, <1>6, PageFiles, UploadedFile, AddedFile, DeletedFile DEF Next

-----------------------------------------------------------------------------
(* Theorems. *)

\* The invariant of a careful environment.
LEMMA ModelsInvCorrect == CarefulSpec => []ModelsInv
<1>1. Init => ModelsInv
  <2>1. Init => Careful
    BY ModelsAssumption DEF Init, Careful, ReadsHold, OneVoice, Idle
  <2> QED
    BY <2>1, ModelsTypedInit, VoiceInvInit, FileInvInit DEF ModelsInv
<1>2. ModelsInv /\ [CarefulNext]_vars => ModelsInv'
  <2> SUFFICES ASSUME ModelsInv, [CarefulNext]_vars
               PROVE  ModelsInv'
    OBVIOUS
  <2>1. ModelsTyped /\ Careful /\ VoiceInv /\ FileInv /\ [Next]_vars
    BY DEF ModelsInv, CarefulNext
  <2>2. Careful'
    <3>1. CASE UNCHANGED vars
      BY <2>1, <3>1 DEF vars, remains, uploads, Careful, ReadsHold, Settled, Live, Doomed
    <3>2. CASE CarefulNext
      BY <3>2 DEF CarefulNext, Careful
    <3> QED
      BY <3>1, <3>2
  <2> QED
    BY <2>1, <2>2, ModelsTypedStep, VoiceInvStep, FileInvStep DEF ModelsInv
<1> QED
  BY <1>1, <1>2, PTL DEF CarefulSpec

\* The variables of Models hold what their names say, whatever the interleaving of
\* handlers, pages and failures.
THEOREM ModelsTypeCorrect == Spec => []TypeOK
<1>1. ModelsTyped => TypeOK
  BY DEF ModelsTyped
<1> QED
  BY <1>1, ModelsTypedInit, ModelsTypedStep, PTL DEF Spec

\* CloneVoice, DeleteModelWSS and their error paths leave no cloned voice at Mistral
\* that no row names and no report tells of, for any number of voices and handlers.
THEOREM NoVoiceStrays == CarefulSpec => []NoStrayVoice
<1>1. ModelsInv => NoStrayVoice
  <2>1. \A h \in Handlers, v \in Voices : Obliged(work[h], v) =>
          work[h].pc # "idle" /\ v \in {work[h].old, work[h].new} \cup work[h].ids
    BY DEF Obliged, Making
  <2>2. Live \subseteq Voices
    BY DEF Live
  <2> QED
    BY <2>1, <2>2 DEF ModelsInv, VoiceInv, Cared, NoStrayVoice, InHand
<1> QED
  BY <1>1, ModelsInvCorrect, PTL

\* A row names voices and files that exist, save those the user deleted by hand
\* and the names that FileAdd converted or put into another provider's row.
THEOREM RowsNameWhatExists == CarefulSpec => []RowNamesWhatExists
<1>1. ModelsInv => RowNamesWhatExists
  BY DEF ModelsInv, VoiceInv, FileInv, VoicesExist, RowNamesWhatExists
<1> QED
  BY <1>1, ModelsInvCorrect, PTL
=============================================================================
