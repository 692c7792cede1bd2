------------------------------- MODULE Notices -------------------------------
(***************************************************************************)
(* A user's notification settings (http/notifications.go over              *)
(* mysql/notifications.go) and the instant notices that every open /ws/    *)
(* instant socket takes from one channel of the process (http/instant.go). *)
(***************************************************************************)
EXTENDS Naturals, Sequences, FiniteSets

CONSTANTS
    Settlers,     \* the requests that change settings
    NoticeUsers,  \* the users notices are for
    Tabs,         \* the sockets that may be open
    ChannelRoom,  \* the room of the channel InstantMsgCh
    MaxNotices    \* notices sent in a run

ASSUME NoticesAssumption == ChannelRoom \in Nat /\ MaxNotices \in Nat

VARIABLES
    row,        \* the settings row of one user, with what is switched on, or NoRow
    settle,     \* the requests that run: what they saw and want
    told,       \* per setting, what the last committed change asked for, or "-"
    inbox,      \* the channel
    tab,        \* the sockets: the user, or NoUser, and the notice in hand
    got,        \* the notices each socket was sent, as <<number, user>>
    sent        \* the number of notices sent so far
noticeVars == <<row, settle, told, inbox, tab, got, sent>>

Settings == {"email", "telega", "instant", "events"}
NoUser == "nobody"
Row(switches, telegram, exists) == [on |-> switches, number |-> telegram, there |-> exists]
NoRow == Row({}, 0, FALSE)
NewRow == Row({}, 0, TRUE)
Waiting == [at |-> "idle", what |-> "email", on |-> FALSE, number |-> 0, saw |-> FALSE]
Closed == [user |-> NoUser, hand |-> <<>>]

NoticeInit ==
    /\ row = NoRow
    /\ settle = [r \in Settlers |-> Waiting]
    /\ told = [s \in Settings |-> "-"]
    /\ inbox = <<>>
    /\ tab = [t \in Tabs |-> Closed]
    /\ got = [t \in Tabs |-> {}]
    /\ sent = 0

(* The transaction of a change begins: it reads whether there is a row.       *)
BeginChange(r, what, on, number) ==
    /\ settle[r].at = "idle"
    /\ settle' = [settle EXCEPT ![r] = [at |-> "tx", what |-> what, on |-> on,
                                        number |-> number, saw |-> row.there]]
    /\ UNCHANGED <<row, told, inbox, tab, got, sent>>

(* One setting is switched; a Telegram number is kept unless a new one comes.  *)
WithSetting(old, s) ==
    Row(IF s.on THEN old.on \cup {s.what} ELSE old.on \ {s.what},
        IF s.what = "telega" /\ s.number # 0 THEN s.number ELSE old.number, old.there)

Answered(r, ok) ==
    /\ settle' = [settle EXCEPT ![r] = Waiting]
    /\ told' = IF ok
                  THEN [told EXCEPT ![settle[r].what] = IF settle[r].on THEN "on" ELSE "off"]
                  ELSE told

(* The row is written and the transaction committed.  An insert fails where    *)
(* another transaction has inserted the row meanwhile (its primary key).       *)
ReplacesRow(r) ==
    /\ settle[r].at = "tx"
    /\ settle[r].what # "events"
    /\ row' = WithSetting(IF settle[r].saw THEN row ELSE NewRow, settle[r])
    /\ Answered(r, TRUE)
    /\ UNCHANGED <<inbox, tab, got, sent>>
SavesSetting(r) ==
    /\ settle[r].at = "tx"
    /\ IF settle[r].saw
          THEN row' = WithSetting(row, settle[r]) /\ Answered(r, TRUE)
          ELSE IF row.there
                  THEN UNCHANGED row /\ Answered(r, FALSE)
                  ELSE row' = WithSetting(NewRow, settle[r]) /\ Answered(r, TRUE)
    /\ UNCHANGED <<inbox, tab, got, sent>>
UpdateNotification(r) == settle[r].what # "events" /\ SavesSetting(r)
SaveNotificationEvent(r) == settle[r].what = "events" /\ SavesSetting(r)

(* A statement or the commit fails: the transaction is rolled back.            *)
ChangeFails(r) ==
    /\ settle[r].at = "tx"
    /\ Answered(r, FALSE)
    /\ UNCHANGED <<row, inbox, tab, got, sent>>

(* A channel is removed, and the event flags with the last one: two updates in *)
(* one transaction, the second looking at the number, not at its switch.       *)
Without(c) == Row(row.on \ {c}, IF c = "telega" THEN 0 ELSE row.number, row.there)
NoChannelLeft(w) == w.number = 0 /\ {"email", "instant"} \cap w.on = {}
DeleteNotificationsChannel(c) ==
    /\ row.there
    /\ LET last == NoChannelLeft(Without(c))
       IN  /\ row' = IF last THEN Row(row.on \ {c, "events"}, 0, row.there) ELSE Without(c)
           /\ told' = [s \in Settings |-> IF s = c \/ (last /\ s = "events")
                                          THEN "off" ELSE told[s]]
    /\ UNCHANGED <<settle, inbox, tab, got, sent>>

(* A notice is put into the channel, or dropped when the channel is full.      *)
SendInstantNotification(u) ==
    /\ sent < MaxNotices
    /\ sent' = sent + 1
    /\ inbox' = IF Len(inbox) < ChannelRoom THEN Append(inbox, <<sent + 1, u>>) ELSE inbox
    /\ UNCHANGED <<row, settle, told, tab, got>>

(* A socket opens for a user.                                                  *)
Instant(t, u) ==
    /\ tab[t] = Closed
    /\ tab' = [tab EXCEPT ![t] = [user |-> u, hand |-> <<>>]]
    /\ UNCHANGED <<row, settle, told, inbox, got, sent>>

(* Its loop takes the next notice, whoever it is for ...                       *)
TakeNotice(t) ==
    /\ tab[t].user # NoUser
    /\ tab[t].hand = <<>>
    /\ inbox # <<>>
    /\ tab' = [tab EXCEPT ![t].hand = Head(inbox)]
    /\ inbox' = Tail(inbox)
    /\ UNCHANGED <<row, settle, told, got, sent>>

(* ... and writes it to its client if it is for that user, else forgets it.    *)
WritesToAnyone(t) ==
    /\ tab[t].hand # <<>>
    /\ tab' = [tab EXCEPT ![t].hand = <<>>]
    /\ got' = [got EXCEPT ![t] = @ \cup {tab[t].hand}]
    /\ UNCHANGED <<row, settle, told, inbox, sent>>
WriteNotice(t) ==
    /\ tab[t].hand # <<>>
    /\ tab' = [tab EXCEPT ![t].hand = <<>>]
    /\ got' = IF tab[t].hand[2] = tab[t].user
                 THEN [got EXCEPT ![t] = @ \cup {tab[t].hand}]
                 ELSE got
    /\ UNCHANGED <<row, settle, told, inbox, sent>>

(* The client leaves or the write fails; a notice in hand goes with it.        *)
TabCloses(t) ==
    /\ tab[t] # Closed
    /\ tab' = [tab EXCEPT ![t] = Closed]
    /\ got' = [got EXCEPT ![t] = {}]
    /\ UNCHANGED <<row, settle, told, inbox, sent>>

SettingsNext ==
    \/ \E r \in Settlers :
           \/ \E what \in Settings, on \in BOOLEAN, n \in 0..1 :
                 (what = "telega" \/ n = 0) /\ BeginChange(r, what, on, n)
           \/ UpdateNotification(r) \/ SaveNotificationEvent(r) \/ ChangeFails(r)
    \/ \E c \in Settings \ {"events"} : DeleteNotificationsChannel(c)
InstantNext ==
    \/ \E u \in NoticeUsers : SendInstantNotification(u)
    \/ \E t \in Tabs :
           \/ TakeNotice(t) \/ WriteNotice(t) \/ TabCloses(t)
           \/ \E u \in NoticeUsers : Instant(t, u)
NoticeNext == SettingsNext \/ InstantNext

NoticeSpec == NoticeInit /\ [][NoticeNext]_noticeVars

NoticeTypeOK ==
    /\ row \in [on : SUBSET Settings, number : 0..1, there : BOOLEAN]
    /\ settle \in [Settlers -> [at : {"idle", "tx"}, what : Settings, on : BOOLEAN,
                                number : 0..1, saw : BOOLEAN]]
    /\ told \in [Settings -> {"-", "on", "off"}]
    /\ \A t \in Tabs : tab[t].user \in NoticeUsers \cup {NoUser}
    /\ sent \in 0..MaxNotices

(* A setting that was saved keeps its value until a request for the same        *)
(* setting, or the removal of the last channel, changes it: neither            *)
(* the row's creation by another request nor a change of another channel does  *)
(* (the EXISTS, INSERT and UPDATE of mysql/notifications.go:30-76, 218-238).   *)
SettingsKept == \A s \in Settings : told[s] # "-" => (told[s] = "on" <=> s \in row.on)

(* Of all the sockets that compete for the channel, at most one passes a notice *)
(* on, and to the user it is for (instant.go:50-59).                           *)
NoticeOnceToOwner ==
    /\ \A t \in Tabs : \A m \in got[t] : m[2] = tab[t].user
    /\ \A t1, t2 \in Tabs : t1 # t2 => got[t1] \cap got[t2] = {}
=============================================================================
