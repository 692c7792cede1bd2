---------------------------- MODULE Reservation ----------------------------
(***************************************************************************)
(* Upload reservations: internal/usecase/storage/reservation.go over its   *)
(* MySQL row (QuotaLedger), its Redis keys and the internal backend,       *)
(* driven by the HTTP handlers of internal/delivery/http/storage.go.       *)
(*                                                                         *)
(* One action is one call to MySQL, Redis or the backend, so every pair of *)
(* handlers interleaves between their calls.  Procs are the goroutines     *)
(* that serve requests; tick is the one cron goroutine.  A call may fail   *)
(* (at most MaxFaults times) with or without having taken effect, and the  *)
(* process may crash (at most MaxCrashes times): MySQL, Redis and the      *)
(* backend survive it, the goroutines do not.                              *)
(*                                                                         *)
(* No code writes a Status other than "reserved", so a record is its owner *)
(* and size.  Time is the set due of reservations whose ExpiresAt is past. *)
(***************************************************************************)
EXTENDS QuotaLedger, FiniteSets

CONSTANTS
    Keys,        \* idempotency keys a client may choose
    Ids,         \* reservation ids newID() may draw (bounds the uploads)
    Procs,       \* request goroutines
    NoKey, NoId, NoUser,
    MaxFaults, MaxCrashes

ASSUME ReservationAssumption ==
    /\ NoKey \notin Keys
    /\ NoId \notin Ids
    /\ NoUser \notin Users
    /\ MaxFaults \in Nat
    /\ MaxCrashes \in Nat

VARIABLES
    records,    \* Redis "reservation:<id>"
    idem,       \* Redis "reservation-idempotency:<user>:<key>"
    due,        \* ids whose ExpiresAt has passed
    objects,    \* <<user, name>> of the objects on the internal backend
    healthy,    \* ReservationService.healthy
    req,        \* local state of each request goroutine
    tick,       \* local state of the cron goroutine
    issued,     \* ids already drawn by newID()
    handed,     \* history: the user and key each id was returned to
    settled,    \* history: ids whose bytes were charged or given back
    disturbed,  \* history: users whose row moved other than once per id
    faults, crashes

redis  == <<records, idem, due>>
past   == <<issued, handed, settled, disturbed>>
budget == <<faults, crashes>>
vars   == <<ledgerVars, redis, objects, healthy, req, tick, past, budget>>

Names == Keys \cup Ids
\* The object a reservation is for: a retry with the same key addresses the
\* same object, an upload without a key gets an object of its own.
NameFor(k, id) == IF k = NoKey THEN id ELSE k

NoRecord == [user |-> NoUser, key |-> NoKey, size |-> 0]
Records  == [user : Users, key : Keys \cup {NoKey}, size : Sizes]
NoOwner  == [user |-> NoUser, key |-> NoKey]
Live(id) == records[id] # NoRecord
LiveIds  == {id \in Ids : Live(id)}

Labels == {"idle", "lookup", "loadExisting", "grant", "save", "claim",
           "undoSave", "undoQuota", "undoRecord", "loseQuota", "loseRecord",
           "recheck", "reload", "presign", "relLoad", "relQuota", "relDelete",
           "comLoad", "charge", "comDelete", "purge", "purgeQuota"}
Requests == [pc : Labels, user : Users \cup {NoUser}, key : Keys \cup {NoKey},
             size : Sizes \cup {0}, id : Ids \cup {NoId}, seen : Ids \cup {NoId}]
NoRequest == [pc |-> "idle", user |-> NoUser, key |-> NoKey,
              size |-> 0, id |-> NoId, seen |-> NoId]

TickLabels == {"idle", "sweepKeys", "sweep", "sweepRelease", "sweepDelete",
               "collectKeys", "collect", "listReserved", "reconKeys", "recon"}
Ticks == [pc : TickLabels, id : Ids \cup {NoId}, rec : Records \cup {NoRecord},
          todo : SUBSET Ids, seen : SUBSET Users,
          doomed : SUBSET (Users \X Names), listed : SUBSET Users]
NoTick == [pc |-> "idle", id |-> NoId, rec |-> NoRecord, todo |-> {},
           seen |-> {}, doomed |-> {}, listed |-> {}]

\* What a handler has in hand at each point of its code.
HandlerOK(r) ==
    /\ r.pc # "idle" => r.user \in Users
    /\ r.pc \in {"lookup", "claim", "loseQuota", "loseRecord", "recheck"}
          => r.key \in Keys
    /\ r.pc \in {"loadExisting", "reload"} => r.seen \in Ids
    /\ r.pc \notin {"idle", "comLoad", "purge", "purgeQuota"} => r.size \in Sizes
    /\ r.pc \notin {"idle", "lookup", "loadExisting", "grant", "recheck",
                    "reload", "purge", "purgeQuota"} => r.id \in Ids

RedisOK ==
    /\ records \in [Ids -> Records \cup {NoRecord}]
    /\ idem \in [Users -> [Keys -> Ids \cup {NoId}]]
    /\ due \subseteq Ids

HandlersOK == req \in [Procs -> Requests] /\ \A p \in Procs : HandlerOK(req[p])

TickOK ==
    /\ tick \in Ticks
    /\ tick.pc \in {"sweepRelease", "sweepDelete"} =>
          tick.id \in Ids /\ tick.rec \in Records

PastOK ==
    /\ issued \subseteq Ids
    /\ handed \in [Ids -> [user : Users, key : Keys \cup {NoKey}] \cup {NoOwner}]
    /\ settled \subseteq Ids
    /\ disturbed \subseteq Users

TypeOK ==
    /\ LedgerTypeOK /\ RedisOK /\ HandlersOK /\ TickOK /\ PastOK
    /\ objects \subseteq Users \X Names
    /\ healthy \in BOOLEAN
    /\ faults \in 0..MaxFaults
    /\ crashes \in 0..MaxCrashes

Init ==
    /\ LedgerInit
    /\ records = [id \in Ids |-> NoRecord]
    /\ idem = [u \in Users |-> [k \in Keys |-> NoId]]
    /\ due = {}
    /\ objects = {}
    /\ healthy \in BOOLEAN   \* checkHealth runs in NewReservationService
    /\ req = [p \in Procs |-> NoRequest]
    /\ tick = NoTick
    /\ issued = {}
    /\ handed = [id \in Ids |-> NoOwner]
    /\ settled = {}
    /\ disturbed = {}
    /\ faults = 0
    /\ crashes = 0

-----------------------------------------------------------------------------
(* Calls, their failures and the bookkeeping the history variables need.   *)

Fault == faults < MaxFaults /\ faults' = faults + 1
Works == UNCHANGED faults

At(p, label) == req[p].pc = label
Move(p, r) == req' = [req EXCEPT ![p] = r]
Goto(p, label) == Move(p, [req[p] EXCEPT !.pc = label])
Finish(p) == Move(p, NoRequest)

\* The row moved by the bytes of id; a second time they are another's bytes.
Settle(u, id) ==
    /\ settled' = settled \cup {id}
    /\ disturbed' = IF id \in settled THEN disturbed \cup {u} ELSE disturbed
NotSettled == UNCHANGED <<settled, disturbed>>

\* `_ = quota.ReleaseStorage(...)`: the caller goes on whatever it returns.
ReleaseIgnored(u, n, id) ==
    \/ ReleaseStorage(u, n) /\ Settle(u, id) /\ Works
    \/ ~HasReserved(u, n) /\ UNCHANGED ledgerVars /\ NotSettled /\ Works
    \/ Fault /\ UNCHANGED ledgerVars /\ NotSettled

\* Mutant of DeleteIgnored: the DEL is forgotten.
ForgetsDelete(id) == UNCHANGED records /\ Works

\* `_ = DeleteUploadReservation(...)`: a failed DEL leaves the record.
DeleteIgnored(id) ==
    \/ records' = [records EXCEPT ![id] = NoRecord] /\ Works
    \/ Fault /\ UNCHANGED records

-----------------------------------------------------------------------------
(* CreatePresignedUpload: ReserveWithIdempotency, then the presigned URL.  *)

StartUpload(p, u, k, n) ==
    /\ At(p, "idle")
    /\ healthy
    /\ Move(p, [NoRequest EXCEPT !.pc = IF k = NoKey THEN "grant" ELSE "lookup",
                                 !.user = u, !.key = k, !.size = n])
    /\ UNCHANGED <<ledgerVars, redis, objects, healthy, tick, past, budget>>

\* A Redis error here reads as "no such key": the handler reserves anew.
Lookup(p) ==
    /\ At(p, "lookup")
    /\ LET holder == idem[req[p].user][req[p].key] IN
       \/ /\ holder # NoId
          /\ Move(p, [req[p] EXCEPT !.pc = "loadExisting", !.seen = holder])
          /\ Works
       \/ holder = NoId /\ Goto(p, "grant") /\ Works
       \/ Fault /\ Goto(p, "grant")
    /\ UNCHANGED <<ledgerVars, redis, objects, healthy, tick, past, crashes>>

LoadExisting(p) ==
    /\ At(p, "loadExisting")
    /\ LET found == Live(req[p].seen) /\ req[p].seen \notin due
           anew  == Move(p, [req[p] EXCEPT !.pc = "grant", !.seen = NoId]) IN
       \/ /\ found
          /\ Move(p, [req[p] EXCEPT !.pc = "presign", !.id = req[p].seen])
          /\ Works
       \/ ~found /\ anew /\ Works
       \/ Fault /\ anew
    /\ UNCHANGED <<ledgerVars, redis, objects, healthy, tick, past, crashes>>

\* An error of the transaction may come after it took effect; those bytes then
\* belong to no reservation.
Grant(p) ==
    /\ At(p, "grant")
    /\ \/ \E id \in Ids \ issued :
          /\ ReserveStorage(req[p].user, req[p].size)
          /\ issued' = issued \cup {id}
          /\ Move(p, [req[p] EXCEPT !.pc = "save", !.id = id])
          /\ Works
       \/ /\ Exceeds(req[p].user, req[p].size) \/ issued = Ids   \* the bound
          /\ Finish(p)
          /\ UNCHANGED <<ledgerVars, issued>> /\ Works
       \/ /\ Fault
          /\ UNCHANGED ledgerVars \/ ReserveStorage(req[p].user, req[p].size)
          /\ Finish(p)
          /\ UNCHANGED issued
    /\ UNCHANGED <<redis, objects, healthy, tick, handed, settled, disturbed,
                   crashes>>

Save(p) ==
    /\ At(p, "save")
    /\ LET set == records' = [records EXCEPT ![req[p].id] =
                     [user |-> req[p].user, key |-> req[p].key,
                      size |-> req[p].size]] IN
       \/ /\ set /\ Works
          /\ Goto(p, IF req[p].key = NoKey THEN "presign" ELSE "claim")
       \/ Fault /\ (set \/ UNCHANGED records) /\ Goto(p, "undoSave")
    /\ UNCHANGED <<ledgerVars, idem, due, objects, healthy, tick, past, crashes>>

\* The error path of Save gives the bytes back and leaves Redis alone.
UndoSave(p) ==
    /\ At(p, "undoSave")
    /\ ReleaseIgnored(req[p].user, req[p].size, req[p].id)
    /\ Finish(p)
    /\ UNCHANGED <<redis, objects, healthy, tick, issued, handed, crashes>>

\* SET NX of the idempotency key decides between concurrent retries.
KeyIgnored(u, k) == TRUE    \* mutant: SET, without NX
KeyFree(u, k) == idem[u][k] = NoId
Claim(p) ==
    /\ At(p, "claim")
    /\ LET u == req[p].user
           k == req[p].key
           free == KeyFree(u, k)
           set  == idem' = [idem EXCEPT ![u][k] = req[p].id] IN
       \/ free /\ set /\ Works /\ Goto(p, "presign")
       \/ ~free /\ UNCHANGED idem /\ Works /\ Goto(p, "loseQuota")
       \/ Fault /\ (UNCHANGED idem \/ (free /\ set)) /\ Goto(p, "undoQuota")
    /\ UNCHANGED <<ledgerVars, records, due, objects, healthy, tick, past, crashes>>

\* The loser of the claim, and a claim that failed, undo their reservation.
UndoQuota(p) ==
    /\ \/ At(p, "undoQuota") /\ Goto(p, "undoRecord")
       \/ At(p, "loseQuota") /\ Goto(p, "loseRecord")
    /\ ReleaseIgnored(req[p].user, req[p].size, req[p].id)
    /\ UNCHANGED <<redis, objects, healthy, tick, issued, handed, crashes>>

UndoRecord(p) ==
    /\ \/ At(p, "undoRecord") /\ Finish(p)
       \/ At(p, "loseRecord") /\ Goto(p, "recheck")
    /\ DeleteIgnored(req[p].id)
    /\ UNCHANGED <<ledgerVars, idem, due, objects, healthy, tick, past, crashes>>

\* The loser answers with the winner's reservation if it is still there; this
\* time without looking at its expiry.
Recheck(p) ==
    /\ At(p, "recheck")
    /\ LET holder == idem[req[p].user][req[p].key] IN
       \/ /\ holder # NoId
          /\ Move(p, [req[p] EXCEPT !.pc = "reload", !.seen = holder, !.id = NoId])
          /\ Works
       \/ holder = NoId /\ Finish(p) /\ Works
       \/ Fault /\ Finish(p)
    /\ UNCHANGED <<ledgerVars, redis, objects, healthy, tick, past, crashes>>

Reload(p) ==
    /\ At(p, "reload")
    /\ \/ /\ Live(req[p].seen)
          /\ Move(p, [req[p] EXCEPT !.pc = "presign", !.id = req[p].seen])
          /\ Works
       \/ ~Live(req[p].seen) /\ Finish(p) /\ Works
       \/ Fault /\ Finish(p)
    /\ UNCHANGED <<ledgerVars, redis, objects, healthy, tick, past, crashes>>

\* The response reaches the client, or signing the URL fails and the handler
\* releases the reservation, its own or the one it was reusing.
Presign(p) ==
    /\ At(p, "presign")
    /\ \/ /\ handed' = [handed EXCEPT ![req[p].id] =
                          [user |-> req[p].user, key |-> req[p].key]]
          /\ Finish(p)
          /\ Works
       \/ Fault /\ Goto(p, "relLoad") /\ UNCHANGED handed
    /\ UNCHANGED <<ledgerVars, redis, objects, healthy, tick, issued, settled,
                   disturbed, crashes>>

-----------------------------------------------------------------------------
(* Release, called by CreatePresignedUpload when signing failed.           *)

RelLoad(p) ==
    /\ At(p, "relLoad")
    /\ LET id == req[p].id IN
       \/ /\ Live(id)
          /\ Move(p, [req[p] EXCEPT !.pc = "relQuota", !.size = records[id].size])
          /\ Works
       \/ ~Live(id) /\ Finish(p) /\ Works
       \/ Fault /\ Finish(p)
    /\ UNCHANGED <<ledgerVars, redis, objects, healthy, tick, past, crashes>>

\* An error leaves the record behind, even when the statement took effect.
RelQuota(p) ==
    /\ At(p, "relQuota")
    /\ LET u == req[p].user
           n == req[p].size
           give == ReleaseStorage(u, n) /\ Settle(u, req[p].id)
           keep == UNCHANGED ledgerVars /\ NotSettled IN
       \/ give /\ Works /\ Goto(p, "relDelete")
       \/ ~HasReserved(u, n) /\ keep /\ Works /\ Finish(p)
       \/ Fault /\ (keep \/ give) /\ Finish(p)
    /\ UNCHANGED <<redis, objects, healthy, tick, issued, handed, crashes>>

RelDelete(p) ==
    /\ At(p, "relDelete")
    /\ DeleteIgnored(req[p].id)
    /\ Finish(p)
    /\ UNCHANGED <<ledgerVars, idem, due, objects, healthy, tick, past, crashes>>

-----------------------------------------------------------------------------
(* CommitStorageUpload.  A client commits the object and the reservation   *)
(* it was handed together, or the object alone.                            *)

Reserved(id) == handed[id] # NoOwner
ObjectOf(id) == <<handed[id].user, NameFor(handed[id].key, id)>>

StartCommit(p, id) ==
    /\ At(p, "idle")
    /\ Reserved(id)
    /\ ObjectOf(id) \in objects      \* StatObject
    /\ Move(p, [NoRequest EXCEPT !.pc = "comLoad", !.user = handed[id].user,
                                 !.id = id])
    /\ UNCHANGED <<ledgerVars, redis, objects, healthy, tick, past, budget>>

ComLoad(p) ==
    /\ At(p, "comLoad")
    /\ LET id == req[p].id IN
       \/ /\ Live(id)
          /\ Move(p, [req[p] EXCEPT !.pc = "charge", !.size = records[id].size])
          /\ Works
       \/ ~Live(id) /\ Finish(p) /\ Works
       \/ Fault /\ Finish(p)
    /\ UNCHANGED <<ledgerVars, redis, objects, healthy, tick, past, crashes>>

\* The expiry test is on the copy loaded before; nothing rereads the record.
Charge(p) ==
    /\ At(p, "charge")
    /\ LET u  == req[p].user
           n  == req[p].size
           id == req[p].id
           charge == CommitStorage(u, n) /\ Settle(u, id)
           keep == UNCHANGED ledgerVars /\ NotSettled IN
       \/ id \in due /\ ReleaseIgnored(u, n, id) /\ Goto(p, "comDelete")
       \/ id \notin due /\ charge /\ Works /\ Goto(p, "comDelete")
       \/ id \notin due /\ ~HasReserved(u, n) /\ keep /\ Works /\ Finish(p)
       \/ id \notin due /\ Fault /\ (keep \/ charge) /\ Finish(p)
    /\ UNCHANGED <<redis, objects, healthy, tick, issued, handed, crashes>>

ComDelete(p) ==
    /\ At(p, "comDelete")
    /\ DeleteIgnored(req[p].id)
    /\ Finish(p)
    /\ UNCHANGED <<ledgerVars, idem, due, objects, healthy, tick, past, crashes>>

\* Mutant of CommitDirect: an upload nobody reserved is charged regardless.
CommitUnreserved(u, n) ==
    /\ \E o \in objects : o[1] = u
    /\ used' = [used EXCEPT ![u] = @ + n]
    /\ disturbed' = disturbed \cup {u}
    /\ UNCHANGED <<reserved, redis, objects, healthy, req, tick, issued, handed,
                   settled, budget>>

\* Without a reservation id the handler charges the size StatObject reported,
\* whatever the client put there, out of the user's reserved bytes.
CommitDirect(u, n) ==
    /\ \E o \in objects : o[1] = u
    /\ CommitStorage(u, n)
    /\ disturbed' = disturbed \cup {u}
    /\ UNCHANGED <<redis, objects, healthy, req, tick, issued, handed, settled,
                   budget>>

-----------------------------------------------------------------------------
(* Clients and time.                                                       *)

\* The client PUTs to its presigned URL, possibly again, possibly late.
PutObject(id) ==
    /\ Reserved(id)
    /\ objects' = objects \cup {ObjectOf(id)}
    /\ UNCHANGED <<ledgerVars, redis, healthy, req, tick, past, budget>>

DeleteStorageObject(o) ==
    /\ o \in objects
    /\ objects' = objects \ {o}
    /\ UNCHANGED <<ledgerVars, redis, healthy, req, tick, past, budget>>

\* now passes ExpiresAt.  Redis drops the record no earlier, and the key that
\* names it, set after it with the same TTL, later still.
TimePasses(id) ==
    /\ id \notin due
    /\ Live(id) \/ \E p \in Procs : At(p, "charge") /\ req[p].id = id
    /\ due' = due \cup {id}
    /\ UNCHANGED <<ledgerVars, records, idem, objects, healthy, req, tick, past,
                   budget>>

EvictRecord(id) ==
    /\ Live(id) /\ id \in due
    /\ records' = [records EXCEPT ![id] = NoRecord]
    /\ UNCHANGED <<ledgerVars, idem, due, objects, healthy, req, tick, past,
                   budget>>

EvictKey(u, k) ==
    /\ idem[u][k] # NoId /\ ~Live(idem[u][k])
    /\ idem' = [idem EXCEPT ![u][k] = NoId]
    /\ UNCHANGED <<ledgerVars, records, due, objects, healthy, req, tick, past,
                   budget>>

\* DeleteUserS3Directory.  RecoverReservation is called with size 0, which
\* ReleaseStorage rejects: the Redis records stay.
StartPurge(p, u) ==
    /\ At(p, "idle")
    /\ Move(p, [NoRequest EXCEPT !.pc = "purge", !.user = u])
    /\ UNCHANGED <<ledgerVars, redis, objects, healthy, tick, past, budget>>

\* The listing and its deletions in one step.  Objects whose deletion fails
\* stay and the handler goes on; a failed listing or a cancelled request ends it.
PurgeObjects(p) ==
    /\ At(p, "purge")
    /\ LET mine == {o \in objects : o[1] = req[p].user} IN
       \/ objects' = objects \ mine /\ Works /\ Goto(p, "purgeQuota")
       \/ /\ Fault
          /\ \E left \in SUBSET mine : objects' = (objects \ mine) \cup left
          /\ Goto(p, "purgeQuota") \/ Finish(p)
    /\ UNCHANGED <<ledgerVars, redis, healthy, tick, past, crashes>>

PurgeQuota(p) ==
    /\ At(p, "purgeQuota")
    /\ \/ ResetStorageQuota(req[p].user) /\ Works
       \/ Fault /\ UNCHANGED ledgerVars
    /\ disturbed' = disturbed \cup {req[p].user}
    /\ Finish(p)
    /\ UNCHANGED <<redis, objects, healthy, tick, issued, handed, settled, crashes>>

-----------------------------------------------------------------------------
(* Tick, every five minutes in one goroutine: healthTick, SweepExpired,    *)
(* CollectOrphaned for every user with a record, ReconcileFromMySQL.       *)

TickAt(label) == tick.pc = label
TickGoto(label) == tick' = [tick EXCEPT !.pc = label]
TickFrame == UNCHANGED <<req, issued, handed, crashes>>

TickHealth ==
    /\ TickAt("idle")
    /\ \/ healthy' = TRUE /\ Works
       \/ Fault /\ healthy' = FALSE
    /\ TickGoto("sweepKeys")
    /\ TickFrame /\ UNCHANGED <<ledgerVars, redis, objects, settled, disturbed>>

SweepKeys ==
    /\ TickAt("sweepKeys")
    /\ \/ tick' = [tick EXCEPT !.pc = "sweep", !.todo = LiveIds] /\ Works
       \/ Fault /\ TickGoto("collectKeys")
    /\ TickFrame
    /\ UNCHANGED <<ledgerVars, redis, objects, healthy, settled, disturbed>>

SweepGet(id) ==
    /\ TickAt("sweep") /\ id \in tick.todo
    /\ \/ /\ Live(id) /\ id \in due /\ Works
          /\ tick' = [tick EXCEPT !.todo = @ \ {id}, !.pc = "sweepRelease",
                                  !.id = id, !.rec = records[id]]
       \/ ~(Live(id) /\ id \in due) /\ Works /\ tick' = [tick EXCEPT !.todo = @ \ {id}]
       \/ Fault /\ tick' = [tick EXCEPT !.todo = @ \ {id}]
    /\ TickFrame
    /\ UNCHANGED <<ledgerVars, redis, objects, healthy, settled, disturbed>>

SweepBack == tick' = [tick EXCEPT !.pc = "sweep", !.id = NoId, !.rec = NoRecord]

SweepRelease ==
    /\ TickAt("sweepRelease")
    /\ LET u == tick.rec.user
           n == tick.rec.size
           give == ReleaseStorage(u, n) /\ Settle(u, tick.id)
           keep == UNCHANGED ledgerVars /\ NotSettled IN
       \/ give /\ Works /\ TickGoto("sweepDelete")
       \/ ~HasReserved(u, n) /\ keep /\ Works /\ SweepBack
       \/ Fault /\ (keep \/ give) /\ SweepBack
    /\ TickFrame /\ UNCHANGED <<redis, objects, healthy>>

SweepDelete ==
    /\ TickAt("sweepDelete")
    /\ DeleteIgnored(tick.id)
    /\ SweepBack
    /\ TickFrame
    /\ UNCHANGED <<ledgerVars, idem, due, objects, healthy, settled, disturbed>>

\* From here todo is the list of keys to read, seen the users found in them.
CollectKeys ==
    /\ TickAt("collectKeys") \/ (TickAt("sweep") /\ tick.todo = {})
    /\ \/ tick' = [tick EXCEPT !.pc = "collect", !.todo = LiveIds] /\ Works
       \/ Fault /\ TickGoto("listReserved")
    /\ TickFrame
    /\ UNCHANGED <<ledgerVars, redis, objects, healthy, settled, disturbed>>

ScanGet(id) ==
    /\ TickAt("collect") \/ TickAt("recon")
    /\ id \in tick.todo
    /\ \/ /\ Live(id) /\ Works
          /\ tick' = [tick EXCEPT !.todo = @ \ {id},
                                  !.seen = @ \cup {records[id].user}]
       \/ ~Live(id) /\ Works /\ tick' = [tick EXCEPT !.todo = @ \ {id}]
       \/ Fault /\ tick' = [tick EXCEPT !.todo = @ \ {id}]
    /\ TickFrame
    /\ UNCHANGED <<ledgerVars, redis, objects, healthy, settled, disturbed>>

\* Redis keys: a reservation is stored under its id; CollectOrphaned asks for
\* the object's name with the prefix applied twice.
ReservationKey(id) == <<"reservation:", id>>
ObjToReservationKey(name) == <<"reservation:", name>>
StoredKeys == {ReservationKey(id) : id \in LiveIds}
Orphaned(name) == ReservationKey(ObjToReservationKey(name)) \notin StoredKeys

CollectUser(u) ==
    /\ TickAt("collect") /\ tick.todo = {} /\ tick.doomed = {}
    /\ u \in tick.seen
    /\ \/ /\ tick' = [tick EXCEPT !.seen = @ \ {u},
                        !.doomed = {o \in objects : o[1] = u /\ Orphaned(o[2])}]
          /\ Works
       \/ Fault /\ tick' = [tick EXCEPT !.seen = @ \ {u}]
    /\ TickFrame
    /\ UNCHANGED <<ledgerVars, redis, objects, healthy, settled, disturbed>>

DeleteOrphan(o) ==
    /\ TickAt("collect") /\ o \in tick.doomed
    /\ tick' = [tick EXCEPT !.doomed = @ \ {o}]
    /\ \/ objects' = objects \ {o} /\ Works
       \/ Fault /\ UNCHANGED objects
    /\ TickFrame /\ UNCHANGED <<ledgerVars, redis, healthy, settled, disturbed>>

ReservedUsersOffByOne == {u \in Users : reserved[u] > 1}   \* mutant
ReservedUsers == {u \in Users : reserved[u] > 0}
ListReserved ==
    /\ \/ TickAt("listReserved")
       \/ /\ TickAt("collect") /\ tick.todo = {}
          /\ tick.seen = {} /\ tick.doomed = {}
    /\ \/ /\ tick' = [tick EXCEPT !.pc = "reconKeys",
                                  !.listed = ReservedUsers]
          /\ Works
       \/ Fault /\ tick' = NoTick
    /\ TickFrame
    /\ UNCHANGED <<ledgerVars, redis, objects, healthy, settled, disturbed>>

ReconKeys ==
    /\ TickAt("reconKeys")
    /\ \/ tick' = [tick EXCEPT !.pc = "recon", !.todo = LiveIds] /\ Works
       \/ Fault /\ tick' = NoTick
    /\ TickFrame
    /\ UNCHANGED <<ledgerVars, redis, objects, healthy, settled, disturbed>>

ReconRelease(u) ==
    /\ TickAt("recon") /\ tick.todo = {}
    /\ u \in tick.listed \ tick.seen
    /\ tick' = [tick EXCEPT !.listed = @ \ {u}]
    /\ \/ /\ ReleaseAllReservedStorage(u)
          /\ disturbed' = disturbed \cup {u}
          /\ Works
       \/ Fault /\ UNCHANGED <<ledgerVars, disturbed>>
    /\ TickFrame /\ UNCHANGED <<redis, objects, healthy, settled>>

TickDone ==
    /\ TickAt("recon") /\ tick.todo = {} /\ tick.listed \subseteq tick.seen
    /\ tick' = NoTick
    /\ TickFrame
    /\ UNCHANGED <<ledgerVars, redis, objects, healthy, settled, disturbed, faults>>

-----------------------------------------------------------------------------

\* The process dies; a new one checks Redis once before it serves requests.
Crash ==
    /\ crashes < MaxCrashes
    /\ crashes' = crashes + 1
    /\ req' = [p \in Procs |-> NoRequest]
    /\ tick' = NoTick
    /\ healthy' \in BOOLEAN
    /\ UNCHANGED <<ledgerVars, redis, objects, past, faults>>

\* Redis restarts empty.
RedisLoss ==
    /\ Fault
    /\ records' = [id \in Ids |-> NoRecord]
    /\ idem' = [u \in Users |-> [k \in Keys |-> NoId]]
    /\ UNCHANGED <<ledgerVars, due, objects, healthy, req, tick, past, crashes>>

Request(p) ==
    \/ \E u \in Users, k \in Keys \cup {NoKey}, n \in Sizes : StartUpload(p, u, k, n)
    \/ \E id \in Ids : StartCommit(p, id)
    \/ \E u \in Users : StartPurge(p, u)

Serve(p) ==
    \/ Lookup(p) \/ LoadExisting(p) \/ Grant(p) \/ Save(p) \/ UndoSave(p)
    \/ Claim(p) \/ UndoQuota(p) \/ UndoRecord(p) \/ Recheck(p) \/ Reload(p)
    \/ Presign(p) \/ RelLoad(p) \/ RelQuota(p) \/ RelDelete(p)
    \/ ComLoad(p) \/ Charge(p) \/ ComDelete(p)
    \/ PurgeObjects(p) \/ PurgeQuota(p)

Client ==
    \/ \E u \in Users, n \in Sizes : CommitDirect(u, n)
    \/ \E id \in Ids : PutObject(id)
    \/ \E o \in objects : DeleteStorageObject(o)

Clock ==
    \/ \E id \in Ids : TimePasses(id) \/ EvictRecord(id)
    \/ \E u \in Users, k \in Keys : EvictKey(u, k)

Tick ==
    \/ TickHealth \/ SweepKeys \/ SweepRelease \/ SweepDelete \/ CollectKeys
    \/ ListReserved \/ ReconKeys \/ TickDone
    \/ \E id \in Ids : SweepGet(id) \/ ScanGet(id)
    \/ \E u \in Users : CollectUser(u) \/ ReconRelease(u)
    \/ \E o \in tick.doomed : DeleteOrphan(o)

Next ==
    \/ \E p \in Procs : Request(p) \/ Serve(p)
    \/ Client \/ Clock \/ Tick \/ Crash \/ RedisLoss

Spec == Init /\ [][Next]_vars

\* The cron goroutine keeps ticking; requests and clients owe nothing.
FairSpec == Spec /\ WF_vars(Tick)

-----------------------------------------------------------------------------
(* What the service promises.                                              *)

\* Retries with one idempotency key share one reservation: two live
\* reservations that clients of the same user were given for the same key are
\* the same one, however the retries, expiries and failures interleave.
ClientsSeeOneReservation ==
    \A a, b \in LiveIds :
        /\ Reserved(a) /\ Reserved(b)
        /\ records[a].user = records[b].user
        /\ records[a].key = records[b].key /\ records[a].key # NoKey
        => a = b

\* While no call has failed and the process has not crashed, a reservation in
\* Redis is either known to a client or still in the hands of its handler: no
\* error path of ReserveWithIdempotency forgets one.
Untroubled == faults = 0 /\ crashes = 0
RecordHasOwner ==
    Untroubled =>
        \A id \in LiveIds : Reserved(id) \/ \E p \in Procs : req[p].id = id

\* Once the bytes of a reservation were charged or given back, its record only
\* outlives the statement until the same handler deletes it.
SettledRecordIsLeaving ==
    Untroubled =>
        \A id \in LiveIds \cap settled :
            \/ \E p \in Procs :
                  /\ req[p].id = id
                  /\ req[p].pc \in {"undoRecord", "loseRecord", "relDelete",
                                    "comDelete"}
            \/ tick.pc = "sweepDelete" /\ tick.id = id

\* The reserved bytes of a user cover every unsettled reservation in Redis, as
\* long as nothing took bytes that were not a reservation's own: the named
\* disturbances (reconcile, account purge, a commit without a reservation, a
\* second settlement) are the only ways a live reservation loses its cover.
\* The bytes of the ids in S are numbered, to be counted.
Bytes(kept, S) == UNION {{id} \X (1..kept[id].size) : id \in S}
LiveRecordsBacked ==
    \A u \in Users \ disturbed :
        LET unsettled == {id \in LiveIds \ settled : records[id].user = u} IN
        reserved[u] >= Cardinality(Bytes(records, unsettled))

\* No path forgets a record, before or after its bytes were settled, or leaves
\* one without them.
RecordsHeld == RecordHasOwner /\ SettledRecordIsLeaving /\ LiveRecordsBacked

\* Bytes left reserved with no reservation behind them are given back, or the
\* user reserves again: leaked quota does not last beyond a tick that finds the
\* user without reservations.
HasLive(u) == \E id \in LiveIds : records[id].user = u
StuckQuotaReleased ==
    \A u \in Users :
        (reserved[u] > 0 /\ ~HasLive(u)) ~> (reserved[u] = 0 \/ HasLive(u))

-----------------------------------------------------------------------------
(* What the comments and tests say, and the interleavings that break it.   *)

\* reservation.go: "reservation already committed or released".  A commit never
\* charges a reservation that was already charged or given back.
CommitsOnce ==
    [][\A p \in Procs : At(p, "charge") /\ req'[p] # req[p] /\ used' # used
          => req[p].id \notin settled]_vars

\* "CollectOrphaned returns object keys on the backend that have no active
\* reservation": what the tick deletes belongs to no reservation in Redis.
CollectorSparesReserved ==
    [][\A o \in objects \ objects' : tick' # tick =>
          ~\E id \in LiveIds : Reserved(id) /\ ObjectOf(id) = o]_vars

\* "ReconcileFromMySQL finds users with reserved_bytes > 0 but no active Redis
\* reservation": the bytes it clears belong to a user without one.
ReconcileSparesActive ==
    [][\A u \in Users : TickAt("recon") /\ tick' # tick /\ reserved'[u] < reserved[u]
          => ~HasLive(u)]_vars
=============================================================================
