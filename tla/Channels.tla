------------------------------ MODULE Channels ------------------------------
(***************************************************************************)
(* The channels of the users and the end of an account                     *)
(* (delivery/http/channels.go, delivery/http/userdata.go,                  *)
(* infrastructure/scheduler/cron.go, repository/mysql/channels.go).        *)
(*                                                                         *)
(* A channel is a flag in the user's row of `channels` and a bot at the    *)
(* service of its kind.  The row is written first; the service is then     *)
(* told by a goroutine or by the handler, and a failing call is only       *)
(* logged or told.  The scheduler clears the flags of users whose          *)
(* subscription has ended, and tells no service.  Deleting an account      *)
(* clears the flags, deletes the user's rows and then the files.           *)
(***************************************************************************)
EXTENDS Naturals

CONSTANTS
    Users,
    Kinds,      \* the kinds of channel in use, among AllKinds
    Handlers,   \* HTTP goroutines that take more than one step
    None,
    MaxFaults   \* bound on failing calls and restarts of the process

AllKinds == {"tgbot", "widget", "tgubot", "whatsbot", "insta", "avito"}
Backends == {"internal", "external"}
Call == [user : Users, kind : Kinds, start : BOOLEAN]   \* a goroutine of stopChannel

ASSUME ChannelsAssumption ==
    /\ Kinds \subseteq AllKinds
    /\ None \notin Backends /\ None \notin Users /\ None \notin Kinds
    /\ \A S \in SUBSET Kinds : S # None
    /\ Handlers \cap Call = {}
    /\ MaxFaults \in Nat

VARIABLES
    accounts,  \* users with a row in `users`
    row,       \* enabled kinds in `channels`, or None without a row
    bot,       \* kinds whose service runs the user's bot
    calls,     \* goroutines of stopChannel
    work,      \* handler state
    served,    \* users with RoleId = 2 and Disabled = 0: no demo account (nothing
               \* in the code changes either for an account that exists)
    expired, notified,   \* users whose subscription has ended; Notified is set
    checked,   \* users the scheduler has read and will mark as notified
    disabling, \* goroutines of checkUserSubscription that clear the flags
    config, cached,      \* where the user's files go: database, Redis
    links,     \* presigned uploads not yet used
    files,     \* backends that hold files of the user
    faults,
    drift,     \* channels whose last call to the service failed, was refused or
               \* never sent, which was logged or told
    cleared,   \* channels that the end of the subscription or of the account switched
               \* off in the row alone, until the user saves or deletes them again
    kept,      \* channels the user has enabled without a subscription
    excused,   \* users whose flags the scheduler failed to clear, which was
               \* logged, or was kept from clearing by a restart
    erased     \* users told that their files are deleted, and of no error

channels == <<accounts, row, bot, calls>>
subscription == <<served, expired, notified, checked, disabling>>
storage == <<config, cached, links, files>>
remains == <<drift, cleared, kept, excused, erased>>
vars == <<channels, work, subscription, storage, faults, remains>>

Idle == [pc |-> "idle", user |-> None, kind |-> None, left |-> {}]
GetActiveChannels(u) == IF row[u] = None THEN {} ELSE row[u]

\* The channels of u that the services were told to run, or are about to be.
Told(u) == GetActiveChannels(u) \cup {k \in Kinds : <<u, k>> \in cleared}

TypeOK ==
    /\ accounts \subseteq Users
    /\ row \in [Users -> (SUBSET Kinds) \cup {None}]
    /\ bot \in [Users -> SUBSET Kinds]
    /\ calls \subseteq Call
    /\ work \in [Handlers -> [pc : {"idle", "disable", "restart", "flags", "data", "files"},
                              user : Users \cup {None}, kind : Kinds \cup {None},
                              left : SUBSET Kinds]]
    /\ served \subseteq Users /\ expired \subseteq accounts /\ notified \subseteq expired
    /\ checked \subseteq Users /\ disabling \subseteq Users
    /\ config \in [Users -> Backends] /\ cached \in [Users -> Backends \cup {None}]
    /\ links \subseteq [user : Users, to : Backends]
    /\ files \in [Users -> SUBSET Backends]
    /\ faults \in 0..MaxFaults
    /\ drift \subseteq Users \X Kinds /\ cleared \subseteq Users \X Kinds /\ kept \subseteq Users \X Kinds
    /\ excused \subseteq Users /\ erased \subseteq Users
    /\ \A u \in Users : row[u] # None => u \in accounts

Init ==
    /\ accounts = Users /\ row = [u \in Users |-> None]
    /\ bot = [u \in Users |-> {}] /\ calls = {}
    /\ work = [h \in Handlers |-> Idle]
    /\ served \in SUBSET Users
    /\ expired = {} /\ notified = {} /\ checked = {} /\ disabling = {}
    /\ config \in [Users -> Backends] /\ cached = [u \in Users |-> None]
    /\ links = {} /\ files = [u \in Users |-> {}]
    /\ faults = 0
    /\ drift = {} /\ cleared = {} /\ kept = {} /\ excused = {} /\ erased = {}

-----------------------------------------------------------------------------

At(h, label) == work[h].pc = label
Goto(h, w) == work' = [work EXCEPT ![h] = w]
Fault == faults < MaxFaults /\ faults' = faults + 1

\* The kinds each call to a service has a case for.
OnSave == AllKinds \ {"avito"}
OnDelete == AllKinds \ {"insta"}
OnRestart == AllKinds \ {"avito"}

\* A service answers a call to run (or not) the user's bot, or fails to: it may
\* then have done either.
BotCall(u, k, start) ==
    LET done == IF start THEN bot[u] \cup {k} ELSE bot[u] \ {k} IN
    \/ /\ bot' = [bot EXCEPT ![u] = done]
       /\ drift' = IF start = (k \in Told(u)) THEN drift \ {<<u, k>>} ELSE drift
       /\ UNCHANGED faults
    \/ /\ Fault
       /\ \E b \in {bot[u], done} : bot' = [bot EXCEPT ![u] = b]
       /\ drift' = drift \cup {<<u, k>>}

-----------------------------------------------------------------------------
\* Saving and deleting a channel.

\* The row is made when it is missing; the rest of it stays.  It refers to the user.
SaveChannelData(u, k, on) ==
    /\ u \in accounts
    /\ row' = [row EXCEPT ![u] = IF on THEN GetActiveChannels(u) \cup {k} ELSE GetActiveChannels(u) \ {k}]
    /\ cleared' = cleared \ {<<u, k>>}

\* An update, which needs no row.
DeleteChannelData(u, k) ==
    /\ row' = [row EXCEPT ![u] = IF @ = None THEN None ELSE @ \ {k}]
    /\ cleared' = cleared \ {<<u, k>>}

\* Mutant of SaveChannel: the service is told only of channels switched on.
SaveStartsOnly(u, k, on) ==
    /\ SaveChannelData(u, k, on)
    /\ calls' = IF k \in OnSave /\ on THEN calls \cup {[user |-> u, kind |-> k, start |-> on]}
                                      ELSE calls
    /\ drift' = IF k \in OnSave THEN drift \ {<<u, k>>} ELSE drift \cup {<<u, k>>}
    /\ kept' = IF on /\ u \in expired THEN kept \cup {<<u, k>>} ELSE kept
    /\ UNCHANGED <<accounts, bot, work, subscription, storage, faults, excused, erased>>

SaveChannel(u, k, on) ==
    /\ SaveChannelData(u, k, on)
    /\ calls' = IF k \in OnSave THEN calls \cup {[user |-> u, kind |-> k, start |-> on]}
                                ELSE calls
    /\ drift' = IF k \in OnSave THEN drift \ {<<u, k>>} ELSE drift \cup {<<u, k>>}
    /\ kept' = IF on /\ u \in expired THEN kept \cup {<<u, k>>} ELSE kept
    /\ UNCHANGED <<accounts, bot, work, subscription, storage, faults, excused, erased>>

StopChannel(c) ==
    /\ c \in calls
    /\ calls' = calls \ {c}
    /\ BotCall(c.user, c.kind, c.start)
    /\ UNCHANGED <<accounts, row, work, subscription, storage, cleared, kept, excused, erased>>

DeleteChannel(h, u, k) ==
    /\ At(h, "idle")
    /\ DeleteChannelData(u, k)
    /\ Goto(h, [Idle EXCEPT !.pc = "disable", !.user = u, !.kind = k])
    /\ UNCHANGED <<accounts, bot, calls, subscription, storage, faults, drift, kept,
                   excused, erased>>

DisableChannel(h) ==
    LET u == work[h].user
        k == work[h].kind IN
    /\ At(h, "disable")
    /\ \/ k \in OnDelete /\ BotCall(u, k, FALSE)
       \/ /\ k \notin OnDelete
          /\ drift' = drift \cup {<<u, k>>}
          /\ UNCHANGED <<bot, faults>>
    /\ Goto(h, Idle)
    /\ UNCHANGED <<accounts, row, calls, subscription, storage, cleared, kept, excused, erased>>

-----------------------------------------------------------------------------
\* Restarting what is enabled.

RestartActiveServices(h, u) ==
    /\ At(h, "idle")
    /\ GetActiveChannels(u) # {}
    /\ Goto(h, [Idle EXCEPT !.pc = "restart", !.user = u, !.left = GetActiveChannels(u)])
    /\ UNCHANGED <<channels, subscription, storage, faults, remains>>

RestartChannel(h) ==
    LET u == work[h].user
        left == work[h].left IN
    /\ At(h, "restart")
    /\ \E k \in left :
        /\ IF k \in OnRestart THEN BotCall(u, k, TRUE) ELSE UNCHANGED <<bot, drift, faults>>
        /\ Goto(h, IF left = {k} THEN Idle ELSE [work[h] EXCEPT !.left = left \ {k}])
    /\ UNCHANGED <<accounts, row, calls, subscription, storage, cleared, kept, excused, erased>>

-----------------------------------------------------------------------------
\* The subscription ends.

Expire(u) ==
    /\ u \in accounts /\ u \notin expired
    /\ expired' = expired \cup {u}
    /\ UNCHANGED <<channels, work, served, notified, checked, disabling, storage, faults, remains>>

\* Demo accounts end too, but are never selected, nor are disabled ones.
UsersWithoutSubscription == (served \cap expired) \ notified

\* Mutant of CheckUserSubscription: the flags are left alone.
CheckTellsOnly ==
    /\ checked = {}
    /\ checked' = UsersWithoutSubscription
    /\ UNCHANGED disabling
    /\ UNCHANGED <<channels, work, served, expired, notified, storage, faults, remains>>

\* At the start and daily: the scheduler reads the users and starts a goroutine
\* for each.
CheckUserSubscription ==
    /\ checked = {} /\ UsersWithoutSubscription # {}
    /\ checked' = UsersWithoutSubscription
    /\ disabling' = disabling \cup UsersWithoutSubscription
    /\ UNCHANGED <<channels, work, served, expired, notified, storage, faults, remains>>

\* DisableAllUserChannel: an error without a row, which ends in a log.  No service
\* is told.
FlagsCleared(u) ==
    /\ row' = [row EXCEPT ![u] = IF @ = None THEN None ELSE {}]
    /\ cleared' = cleared \cup ({u} \X GetActiveChannels(u))

DisableFlags(u) ==
    /\ u \in disabling
    /\ disabling' = disabling \ {u}
    /\ \/ FlagsCleared(u) /\ UNCHANGED <<faults, excused>>
       \/ Fault /\ excused' = excused \cup {u} /\ UNCHANGED <<row, cleared>>
    /\ UNCHANGED <<accounts, bot, calls, work, served, expired, notified, checked, storage, drift,
                   kept, erased>>

SetUsersSubscriptionNotified ==
    /\ checked # {}
    /\ checked' = {}
    /\ \/ notified' = notified \cup (checked \cap expired) /\ UNCHANGED faults
       \/ Fault /\ UNCHANGED notified
    /\ UNCHANGED <<channels, work, served, expired, disabling, storage, remains>>

-----------------------------------------------------------------------------
\* The user's files.

\* StorageFactory.Resolve: the entry in Redis, which has no credentials and so is
\* of no use for the user's own storage, or the database.
Resolved(u) == IF cached[u] # None THEN cached[u] ELSE config[u]
Usable(u) == Resolved(u) = "internal" \/ cached[u] = None
Resolve(u) == cached' = [cached EXCEPT ![u] = Resolved(u)]

PresignUpload(u) ==
    /\ u \in accounts
    /\ Usable(u)
    /\ Resolve(u)
    /\ links' = links \cup {[user |-> u, to |-> Resolved(u)]}
    /\ UNCHANGED <<channels, work, subscription, config, files, faults, remains>>

\* The client puts the file straight into the storage, or the link ends.
Upload(l) ==
    /\ l \in links
    /\ links' = links \ {l}
    /\ \/ files' = [files EXCEPT ![l.user] = @ \cup {l.to}]
       \/ UNCHANGED files
    /\ UNCHANGED <<channels, work, subscription, config, cached, faults, remains>>

CacheEnds(u) ==
    /\ cached[u] # None
    /\ cached' = [cached EXCEPT ![u] = None]
    /\ UNCHANGED <<channels, work, subscription, config, links, files, faults, remains>>

-----------------------------------------------------------------------------
\* Deleting the account.

CheckActiveChannels(u) == GetActiveChannels(u) # {}

DeleteAccount(h, u) ==
    /\ At(h, "idle")
    /\ u \in accounts
    /\ ~CheckActiveChannels(u)
    /\ Goto(h, [Idle EXCEPT !.pc = "flags", !.user = u])
    /\ UNCHANGED <<channels, subscription, storage, faults, remains>>

\* DisableAllUserChannel again; an error is told and the deletion goes on.
\* CallStopForAllUserServices asks the lead service alone (its TODO), which runs none
\* of the bots.  35 s and the deletion of the models (Models) pass before the next step.
ClearFlags(h) ==
    LET u == work[h].user IN
    /\ At(h, "flags")
    /\ \/ FlagsCleared(u) /\ UNCHANGED faults
       \/ Fault /\ UNCHANGED <<row, cleared>>
    /\ Goto(h, [work[h] EXCEPT !.pc = "data"])
    /\ UNCHANGED <<accounts, bot, calls, subscription, storage, drift, kept, excused, erased>>

\* Mutant of DeleteAllUserData: the row of channels is left.
DeleteRowsLeft(h) ==
    LET u == work[h].user IN
    /\ At(h, "data")
    /\ accounts' = accounts \ {u}
    /\ expired' = expired \ {u} /\ notified' = notified \ {u}
    /\ config' = [config EXCEPT ![u] = "internal"]
    /\ Goto(h, [work[h] EXCEPT !.pc = "files"])
    /\ UNCHANGED <<row, bot, calls, served, checked, disabling, cached, links, files, faults,
                   remains>>

\* The procedure deletes the rows of the user, user_storage_config among them, in
\* one transaction.
DeleteAllUserData(h) ==
    LET u == work[h].user IN
    /\ At(h, "data")
    /\ \/ /\ accounts' = accounts \ {u}
          /\ row' = [row EXCEPT ![u] = None]
          /\ cleared' = cleared \cup ({u} \X GetActiveChannels(u))
          /\ expired' = expired \ {u} /\ notified' = notified \ {u}
          /\ config' = [config EXCEPT ![u] = "internal"]
          /\ Goto(h, [work[h] EXCEPT !.pc = "files"])
          /\ UNCHANGED faults
       \/ /\ Fault /\ Goto(h, Idle)
          /\ UNCHANGED <<accounts, row, cleared, expired, notified, config>>
    /\ UNCHANGED <<bot, calls, served, checked, disabling, cached, links, files, drift, kept,
                   excused, erased>>

\* The user is then told that the files and all data are deleted, whether or not
\* an error was told before.
DeleteUserS3Directory(h) ==
    LET u == work[h].user IN
    /\ At(h, "files")
    /\ Resolve(u)
    /\ \/ /\ Usable(u)
          /\ files' = [files EXCEPT ![u] = @ \ {Resolved(u)}]
          /\ erased' = erased \cup {u}
          /\ UNCHANGED faults
       \/ /\ IF Usable(u) THEN Fault ELSE UNCHANGED faults
          /\ UNCHANGED <<files, erased>>
    /\ Goto(h, Idle)
    /\ UNCHANGED <<channels, subscription, config, links, drift, cleared, kept, excused>>

-----------------------------------------------------------------------------

\* Goroutines and handlers end; the services and the databases stay.
Restart ==
    /\ Fault
    /\ drift' = drift \cup {<<c.user, c.kind>> : c \in calls}
                      \cup {<<work[h].user, work[h].kind>> :
                              h \in {g \in Handlers : At(g, "disable")}}
    /\ excused' = excused \cup disabling
    /\ calls' = {} /\ work' = [h \in Handlers |-> Idle]
    /\ checked' = {} /\ disabling' = {}
    /\ UNCHANGED <<accounts, row, bot, served, expired, notified, storage, cleared, kept, erased>>

Scheduled == CheckUserSubscription \/ SetUsersSubscriptionNotified
Goroutines ==
    \/ \E c \in calls : StopChannel(c)
    \/ \E u \in Users : DisableFlags(u)
Serve(h) ==
    \/ DisableChannel(h)
    \/ RestartChannel(h)
    \/ ClearFlags(h) \/ DeleteAllUserData(h) \/ DeleteUserS3Directory(h)
Asks ==
    \E u \in Users :
        \/ \E k \in Kinds, on \in BOOLEAN : SaveChannel(u, k, on)
        \/ \E h \in Handlers, k \in Kinds : DeleteChannel(h, u, k)
        \/ \E h \in Handlers : RestartActiveServices(h, u) \/ DeleteAccount(h, u)
        \/ PresignUpload(u)
Outside ==
    \/ \E u \in Users : Expire(u) \/ CacheEnds(u)
    \/ \E l \in links : Upload(l)

Next == Scheduled \/ Goroutines \/ (\E h \in Handlers : Serve(h)) \/ Asks \/ Outside \/ Restart

Spec == Init /\ [][Next]_vars

-----------------------------------------------------------------------------
\* Properties.

\* What is under way for the channel k of u.
UnderWay(u, k) ==
    {c \in calls : c.user = u /\ c.kind = k}
    \cup {h \in Handlers : work[h].user = u /\ (At(h, "disable") => work[h].kind = k)
                                           /\ (At(h, "restart") => k \in work[h].left)}

\* Once nothing is under way for a channel, its bot runs exactly if the row says
\* so, unless the last call failed, was refused or was never sent (stopChannel,
\* disableChannels and restartChannel log it), even after a restart.  The end of the
\* subscription and of the account are the exception: DisableAllUserChannel and
\* DeleteAllUserData switch channels off in the row and tell no service, so a bot
\* that ran then runs on until its owner saves or deletes the channel.
BotFollowsRow ==
    \A u \in Users, k \in Kinds :
        UnderWay(u, k) = {} /\ <<u, k>> \notin drift
            => (k \in bot[u] <=> k \in GetActiveChannels(u) \/ <<u, k>> \in cleared)

\* A channel that is enabled when the subscription ends is switched off in the row,
\* whatever the scheduler marks first (checkUserSubscription), unless the database
\* failed it, a restart came between, or the user enabled the channel after the end.
\* It is so for the users the scheduler asks for: a demo account ends a month after
\* it was made and keeps its channels.
ExpiredIsSwitchedOff ==
    \A u \in Users, k \in Kinds :
        (u \in served \cap expired /\ k \in GetActiveChannels(u))
            ~> (k \notin GetActiveChannels(u) \/ <<u, k>> \in kept \/ u \in excused)

\* ... and nobody looks at a user again who is marked as notified: whoever is has
\* every flag cleared, or a goroutine that will, with the same exceptions.
MarkedIsSwitchedOff ==
    \A u \in Users, k \in Kinds :
        u \in notified /\ k \in GetActiveChannels(u)
            => u \in disabling \/ <<u, k>> \in kept \/ u \in excused

\* A user who has been told that the files are deleted, and of no error, has none
\* in the internal storage (DeleteUserS3Directory).
InternalFilesGone == \A u \in erased : "internal" \notin files[u]

\* What the database, the log and the user are told of bots, files and flags is
\* true of them.
RowsAreTrue == BotFollowsRow /\ InternalFilesGone /\ MarkedIsSwitchedOff

\* The same of every storage the user has had files in.
FilesGone == \A u \in erased : files[u] = {}

\* Deleting a channel switches its bot off, when no call fails (DeleteChannel).
DeletedStops ==
    \A u \in Users, k \in Kinds :
        u \in accounts \ expired /\ faults = 0 /\ UnderWay(u, k) = {}
            => (k \in bot[u] => k \in GetActiveChannels(u))
=============================================================================
