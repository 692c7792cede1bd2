------------------------------ MODULE Migration ------------------------------
(***************************************************************************)
(* Moving the files of one user between the internal and an external       *)
(* backend: usecase/storage/migration.go over the table storage_migrations,*)
(* the user's row of user_storage_config and the Redis lock of the user.   *)
(* Users share nothing here but the cron goroutine, whose delays the       *)
(* interleaving covers.                                                    *)
(*                                                                         *)
(* A step is one call to MySQL, Redis or a backend, or one section of the  *)
(* service's mutex.  A call that fails may have had its effect.  Objects   *)
(* have unique keys and are never overwritten, so a copy is verified by    *)
(* being there.                                                            *)
(* The factory takes the user's type of backend from an entry in Redis that*)
(* lives for five minutes and that no change of the configuration touches. *)
(* Whether an external backend can be reached is left open: the entry has  *)
(* no credentials and the row may have none or an endpoint that one of the *)
(* two checks refuses, so making its client and every call of it may fail. *)
(***************************************************************************)
EXTENDS Integers

CONSTANTS
    Objects,      \* keys of the user's objects
    Jobs,         \* ids of storage_migrations
    Requests,     \* HTTP goroutines
    Tick,         \* the cron goroutine
    NoJob,
    Free,         \* value of the lock when Redis does not have it
    Orphan,       \* value of the lock when the run that took it is over
    MaxFaults,    \* bound on failed calls and lost clients
    MaxCrashes,   \* bound on restarts of the process
    MaxExpiries   \* bound on locks that expire under their holder

ASSUME MigrationAssumption ==
    /\ Tick \notin Requests
    /\ {Free, Orphan} \cap (Requests \cup {Tick}) = {}
    /\ Free # Orphan
    /\ NoJob \notin Jobs
    /\ MaxFaults \in Nat /\ MaxCrashes \in Nat /\ MaxExpiries \in Nat

VARIABLES
    active,    \* storage_type of the user's configuration
    cached,    \* the backend that the entry storage:config:<id> names, while Redis has it
    stored,    \* what each backend holds
    jobs,      \* the table: state and verified_keys of each id
    lock,      \* the Redis key storage:migration:user:<id>
    running,   \* MigrationService.running
    work,      \* local state of each goroutine
    owned,     \* ghost: objects the user has stored and not deleted
    url,       \* the backend an object's upload URL was signed for
    late,      \* ghost: objects put during a migration or where none was due
    astray,    \* ghost: a run got the lock for a job or a pair it should not have
    faults, crashes, expiries

vars == <<active, cached, stored, jobs, lock, running, work, owned, url, late,
          astray, faults, crashes, expiries>>
files == <<active, stored, owned, url, late>>
aside == <<cached, astray, crashes, expiries>>

Procs == Requests \cup {Tick}
Backends == {"internal", "external"}
Other(b) == IF b = "internal" THEN "external" ELSE "internal"
States == {"none", "pending", "running", "failed", "completed", "cancelled"}

\* Labels of Run between taking the lock and giving it back: before the switch,
\* and all of them.
Copying == {"state", "list", "resume", "mark", "get", "put", "stat", "note",
            "switchRead", "switchWrite"}
Moving == Copying \cup {"clean", "cleanNote", "complete", "fail"}
Labels == Moving \cup {"idle", "check", "resolve", "count", "insert", "next", "enter",
                       "lock", "unlock", "leave", "target"}

Worker == [pc : Labels, job : Jobs \cup {NoJob}, source : Backends, target : Backends,
           list : SUBSET Objects, left : SUBSET Objects, keys : SUBSET Objects,
           queue : SUBSET Jobs]
Idle == [pc |-> "idle", job |-> NoJob, source |-> "internal", target |-> "internal",
         list |-> {}, left |-> {}, keys |-> {}, queue |-> {}]

TypeOK ==
    /\ active \in Backends /\ cached \in Backends /\ astray \in BOOLEAN
    /\ stored \in [Backends -> SUBSET Objects]
    /\ jobs \in [Jobs -> [state : States, keys : SUBSET Objects]]
    /\ lock \in Procs \cup {Free, Orphan}
    /\ running \subseteq Jobs
    /\ work \in [Procs -> Worker]
    /\ owned \subseteq Objects /\ late \subseteq Objects
    /\ url \in [Objects -> Backends \cup {"unsigned", "used"}]
    /\ faults \in 0..MaxFaults /\ crashes \in 0..MaxCrashes /\ expiries \in 0..MaxExpiries
    /\ \A p \in Procs :
          /\ work[p].pc \in Moving \cup {"enter", "lock", "unlock", "leave"}
               => work[p].job \in Jobs
          /\ work[p].pc \in {"get", "put", "stat", "note", "clean", "cleanNote"}
               => work[p].left # {}

\* Without a row StorageConfig answers "internal".
Init ==
    /\ active = "internal" /\ cached = "internal" /\ astray = FALSE
    /\ stored = [b \in Backends |-> {}]
    /\ jobs = [j \in Jobs |-> [state |-> "none", keys |-> {}]]
    /\ lock = Free /\ running = {}
    /\ work = [p \in Procs |-> Idle]
    /\ owned = {} /\ late = {} /\ url = [o \in Objects |-> "unsigned"]
    /\ faults = 0 /\ crashes = 0 /\ expiries = 0

-----------------------------------------------------------------------------

Fault == faults < MaxFaults /\ faults' = faults + 1
Works == UNCHANGED faults

At(p, label) == work[p].pc = label
Move(p, r) == work' = [work EXCEPT ![p] = r]
Goto(p, label) == Move(p, [work[p] EXCEPT !.pc = label])

\* What a run still needs once its result is decided.
Stop(p, label) == Move(p, [Idle EXCEPT !.pc = label, !.job = work[p].job,
                                       !.queue = work[p].queue])

\* The request answers, or ProcessPending turns to its next job.
Return(p) == Move(p, [Idle EXCEPT !.pc = IF p = Tick THEN "next" ELSE "idle",
                                  !.queue = work[p].queue])

UpdateMigration(j, state, keys) == jobs' = [jobs EXCEPT ![j] = [state |-> state, keys |-> keys]]

\* The next object of a loop over the sorted listing: some fixed order.
Object(p) == CHOOSE o \in work[p].left : TRUE
Later(p) == work[p].left \ {Object(p)}

-----------------------------------------------------------------------------
\* loadCachedConfig: the backend b that the entry names, or the row, which fills
\* it, if Redis has dropped the entry by then or does not answer.
Hit(b) == b = cached /\ UNCHANGED cached
Miss(b) == b = active /\ cached' = active
LoadCachedConfig(b) == Hit(b) \/ Miss(b)

\* StartStorageMigration: two reads of the row give the target and two calls of
\* the factory the pair of backends; two statements create the job.

StartStorageMigration(p) ==
    /\ At(p, "idle")
    /\ Move(p, [Idle EXCEPT !.pc = "check", !.target = Other(active)])
    /\ UNCHANGED <<files, jobs, lock, running, faults, aside>>

Check(p) ==
    /\ At(p, "check")
    /\ \/ active # work[p].target /\ Goto(p, "resolve") /\ Works
       \/ active = work[p].target /\ Return(p) /\ Works
       \/ Fault /\ Return(p)
    /\ UNCHANGED <<files, jobs, lock, running, aside>>

Resolve(p) ==
    /\ At(p, "resolve")
    /\ \/ /\ \E b \in Backends : /\ LoadCachedConfig(b)
                                /\ Move(p, [work[p] EXCEPT !.source = b, !.pc = "target"])
          /\ Works
       \/ /\ Fault /\ Return(p)
          /\ \E b \in Backends : LoadCachedConfig(b)
    /\ UNCHANGED <<files, jobs, lock, running, astray, crashes, expiries>>

\* An external target needs an entry that says external, or credentials in the
\* row, which an entry that says internal hides.
ResolveByType(p) ==
    LET found == Goto(p, IF p = Tick THEN "enter" ELSE "count") IN
    /\ At(p, "target")
    /\ \/ work[p].target = "internal" /\ found /\ Works /\ UNCHANGED cached
       \/ \E b \in Backends :
             /\ work[p].target = "external" /\ LoadCachedConfig(b)
             /\ \/ (b = "external" \/ Miss(b)) /\ found /\ Works
                \/ b = "internal" /\ Return(p) /\ Works
                \/ Fault /\ Return(p)
    /\ UNCHANGED <<files, jobs, lock, running, astray, crashes, expiries>>

\* CreateMigration counts the active jobs of the user and then inserts.
Count(p) ==
    /\ At(p, "count")
    /\ LET busy == \E j \in Jobs : jobs[j].state \in {"pending", "running"} IN
       \/ ~busy /\ Goto(p, "insert") /\ Works
       \/ busy /\ Return(p) /\ Works
       \/ Fault /\ Return(p)
    /\ UNCHANGED <<files, jobs, lock, running, aside>>

\* The bound on ids ends a request as a failed statement does.
Insert(p) ==
    /\ At(p, "insert")
    /\ \/ \E j \in Jobs : /\ jobs[j].state = "none"
                          /\ UpdateMigration(j, "pending", {})
                          /\ Move(p, [work[p] EXCEPT !.pc = "enter", !.job = j])
                          /\ Works
       \/ /\ Fault \/ (Works /\ \A j \in Jobs : jobs[j].state # "none")
          /\ Return(p) /\ UNCHANGED jobs
    /\ UNCHANGED <<files, lock, running, aside>>

-----------------------------------------------------------------------------
\* ProcessPending: jobs are listed once, and each gets its pair of backends
\* when its turn comes.

ListPendingMigrations ==
    LET due == {j \in Jobs : jobs[j].state \in {"pending", "failed"}} IN
    /\ At(Tick, "idle")
    /\ due # {}
    /\ Move(Tick, [Idle EXCEPT !.pc = "next", !.queue = due])
    /\ UNCHANGED <<files, jobs, lock, running, faults, aside>>

NextJob ==
    /\ At(Tick, "next")
    /\ \/ work[Tick].queue = {} /\ Move(Tick, Idle) /\ Works
       \/ \E j \in work[Tick].queue :
             LET rest == work[Tick].queue \ {j} IN
             \/ /\ Move(Tick, [Idle EXCEPT !.pc = "resolve", !.job = j,
                                           !.target = Other(active), !.queue = rest])
                /\ Works
             \/ Fault /\ Move(Tick, [Idle EXCEPT !.pc = "next", !.queue = rest])
    /\ UNCHANGED <<files, jobs, lock, running, aside>>

-----------------------------------------------------------------------------
\* Run.

Enter(p) ==
    /\ At(p, "enter")
    /\ IF work[p].job \in running
       THEN Return(p) /\ UNCHANGED running
       ELSE running' = running \cup {work[p].job} /\ Goto(p, "lock")
    /\ UNCHANGED <<files, jobs, lock, faults, aside>>

\* What a run would have to find once it holds the lock, and the code does not
\* look at: nobody has worked on the job since, and the pair of backends is the
\* user's.
Current(p) ==
    /\ jobs[work[p].job].state \notin {"running", "completed"}
    /\ work[p].source = active
    /\ work[p].target = Other(active)

TryLock(p) ==
    /\ At(p, "lock")
    /\ \/ lock = Free /\ lock' = p /\ Goto(p, "state") /\ Works
       \/ lock # Free /\ Stop(p, "fail") /\ Works /\ UNCHANGED lock
       \/ /\ Fault /\ Stop(p, "fail")
          /\ UNCHANGED lock \/ (lock = Free /\ lock' = Orphan)
    /\ astray' = (astray \/ (lock' = p /\ ~Current(p)))
    /\ UNCHANGED <<files, cached, jobs, running, crashes, expiries>>

\* GetMigration cannot read a job that has never been updated: its manifest has
\* no counters.  Run takes that error as it takes any other.
Readable(j) == jobs[j].state # "pending"

CheckCancelled(p) ==
    /\ At(p, "state")
    /\ \/ jobs[work[p].job].state = "cancelled" /\ Stop(p, "unlock") /\ Works
       \/ jobs[work[p].job].state # "cancelled" /\ Goto(p, "list") /\ Works
       \/ Fault /\ Goto(p, "list")
    /\ UNCHANGED <<files, jobs, lock, running, aside>>

ListObjects(p) ==
    /\ At(p, "list")
    /\ \/ /\ Move(p, [work[p] EXCEPT !.pc = "resume", !.list = stored[work[p].source]])
          /\ Works
       \/ Fault /\ Stop(p, "fail")
    /\ UNCHANGED <<files, jobs, lock, running, aside>>

\* The manifest of an earlier run tells which objects are copied already.
Resume(p) ==
    /\ At(p, "resume")
    /\ LET job == work[p].job IN
       \/ /\ Move(p, [work[p] EXCEPT !.pc = "mark",
                                     !.keys = IF Readable(job) THEN jobs[job].keys ELSE {}])
          /\ Works
       \/ Fault /\ Goto(p, "mark")
    /\ UNCHANGED <<files, jobs, lock, running, aside>>

\* Mutant of ToCopy: the resumed loop starts one object too late.
ToCopyOffByOne(p) ==
    {o \in work[p].list \ work[p].keys : o # CHOOSE first \in work[p].list : TRUE}

ToCopy(p) == work[p].list \ work[p].keys
CopyNext(left) == IF left = {} THEN "switchRead" ELSE "get"

MarkRunning(p) ==
    /\ At(p, "mark")
    /\ Move(p, [work[p] EXCEPT !.pc = CopyNext(ToCopy(p)), !.left = ToCopy(p)])
    /\ \/ UpdateMigration(work[p].job, "running", work[p].keys) /\ Works
       \/ Fault /\ UNCHANGED jobs    \* the error is ignored
    /\ UNCHANGED <<files, lock, running, aside>>

GetObject(p) ==
    /\ At(p, "get")
    /\ \/ Object(p) \in stored[work[p].source] /\ Goto(p, "put") /\ Works
       \/ Object(p) \notin stored[work[p].source] /\ Stop(p, "fail") /\ Works
       \/ Fault /\ Stop(p, "fail")
    /\ UNCHANGED <<files, jobs, lock, running, aside>>

PutObject(p) ==
    /\ At(p, "put")
    /\ \/ /\ stored' = [stored EXCEPT ![work[p].target] = @ \cup {Object(p)}]
          /\ Goto(p, "stat") /\ Works
       \/ /\ Fault /\ Stop(p, "fail")
          /\ \/ UNCHANGED stored
             \/ stored' = [stored EXCEPT ![work[p].target] = @ \cup {Object(p)}]
    /\ UNCHANGED <<active, owned, url, late, jobs, lock, running, aside>>

StatObject(p) ==
    /\ At(p, "stat")
    /\ \/ Object(p) \in stored[work[p].target] /\ Goto(p, "note") /\ Works
       \/ Object(p) \notin stored[work[p].target] /\ Stop(p, "fail") /\ Works
       \/ Fault /\ Stop(p, "fail")
    /\ UNCHANGED <<files, jobs, lock, running, aside>>

NoteVerified(p) ==
    /\ At(p, "note")
    /\ LET keys == work[p].keys \cup {Object(p)} IN
       \/ /\ UpdateMigration(work[p].job, "running", keys)
          /\ Move(p, [work[p] EXCEPT !.pc = CopyNext(Later(p)), !.left = Later(p),
                                     !.keys = keys])
          /\ Works
       \/ Fault /\ Stop(p, "fail") /\ UNCHANGED jobs
    /\ UNCHANGED <<files, lock, running, aside>>

-----------------------------------------------------------------------------
\* The cutover reads the configuration and writes its opposite.  The target of
\* the copy is not used any more, and the field takes the new backend.

SwitchRead(p) ==
    /\ At(p, "switchRead")
    /\ \/ /\ Move(p, [work[p] EXCEPT !.pc = "switchWrite", !.target = Other(active)])
          /\ Works
       \/ Fault /\ Stop(p, "fail")
    /\ UNCHANGED <<files, jobs, lock, running, aside>>

\* Mutant of CleanNext: the loop runs past its last object.
CleansPastLast(left) == "clean"

CleanNext(left) == IF left = {} THEN "complete" ELSE "clean"

StartCleaning(p) ==
    Move(p, [work[p] EXCEPT !.pc = CleanNext(work[p].list), !.left = work[p].list])

\* Mutant of SwitchWrite: the source is cleaned even if the switch failed.
SwitchErrorIgnored(p) ==
    /\ At(p, "switchWrite")
    /\ \/ active' = work[p].target /\ Works
       \/ Fault /\ UNCHANGED active
    /\ StartCleaning(p)
    /\ UNCHANGED <<stored, owned, url, late, jobs, lock, running, aside>>

SwitchWrite(p) ==
    /\ At(p, "switchWrite")
    /\ \/ active' = work[p].target /\ StartCleaning(p) /\ Works
       \/ /\ Fault /\ Stop(p, "fail")
          /\ UNCHANGED active \/ active' = work[p].target
    /\ UNCHANGED <<stored, owned, url, late, jobs, lock, running, aside>>

DeleteObject(p) ==
    /\ At(p, "clean")
    /\ \/ /\ stored' = [stored EXCEPT ![work[p].source] = @ \ {Object(p)}]
          /\ Goto(p, "cleanNote") /\ Works
       \/ /\ Fault /\ Stop(p, "fail")
          /\ \/ UNCHANGED stored
             \/ stored' = [stored EXCEPT ![work[p].source] = @ \ {Object(p)}]
    /\ UNCHANGED <<active, owned, url, late, jobs, lock, running, aside>>

NoteDeleted(p) ==
    /\ At(p, "cleanNote")
    /\ \/ /\ UpdateMigration(work[p].job, "running", work[p].keys)
          /\ Move(p, [work[p] EXCEPT !.pc = CleanNext(Later(p)), !.left = Later(p)])
          /\ Works
       \/ Fault /\ Stop(p, "fail") /\ UNCHANGED jobs
    /\ UNCHANGED <<files, lock, running, aside>>

Complete(p) ==
    /\ At(p, "complete")
    /\ Stop(p, "unlock")
    /\ \/ UpdateMigration(work[p].job, "completed", work[p].keys) /\ Works
       \/ Fault /\ UNCHANGED jobs
    /\ UNCHANGED <<files, lock, running, aside>>

\* fail keeps nothing of the manifest.
Fail(p) ==
    /\ At(p, "fail")
    /\ Stop(p, "unlock")
    /\ \/ UpdateMigration(work[p].job, "failed", {}) /\ Works
       \/ Fault /\ UNCHANGED jobs
    /\ UNCHANGED <<files, lock, running, aside>>

\* Unlock only removes the run's own token.
Unlock(p) ==
    /\ At(p, "unlock")
    /\ Stop(p, "leave")
    /\ \/ lock' = (IF lock = p THEN Free ELSE lock) /\ Works
       \/ Fault /\ lock' = (IF lock = p THEN Orphan ELSE lock)
    /\ UNCHANGED <<files, jobs, running, aside>>

Leave(p) ==
    /\ At(p, "leave")
    /\ running' = running \ {work[p].job}
    /\ Return(p)
    /\ UNCHANGED <<files, jobs, lock, faults, aside>>

\* The client goes away: every later call of Run fails, the one that would say
\* so in the table included.
Disconnect(p) ==
    /\ work[p].pc \in Moving \cup {"lock"}
    /\ Fault /\ Stop(p, "unlock")
    /\ UNCHANGED <<files, jobs, lock, running, aside>>

-----------------------------------------------------------------------------
\* The user, Redis and the process.

\* A migration at work that has not switched yet.
Unseen == \E p \in Procs : work[p].pc \in Copying

CreatePresignedUpload(o) ==
    /\ url[o] = "unsigned"
    /\ \E b \in Backends : LoadCachedConfig(b) /\ url' = [url EXCEPT ![o] = b]
    /\ UNCHANGED <<active, stored, owned, late, jobs, lock, running, work, astray, faults,
                   crashes, expiries>>

\* The upload goes to the backend the URL names, whatever has become of it.
Upload(o) ==
    /\ url[o] \in Backends
    /\ url' = [url EXCEPT ![o] = "used"]
    /\ stored' = [stored EXCEPT ![url[o]] = @ \cup {o}]
    /\ owned' = owned \cup {o}
    /\ late' = IF Unseen \/ url[o] # active THEN late \cup {o} ELSE late
    /\ UNCHANGED <<active, jobs, lock, running, work, faults, aside>>

\* A backend that does not have the object says nothing.
Delete(o) ==
    /\ o \in owned
    /\ \E b \in Backends : LoadCachedConfig(b) /\ stored' = [stored EXCEPT ![b] = @ \ {o}]
    /\ owned' = owned \ {o}
    /\ UNCHANGED <<active, url, late, jobs, lock, running, work, astray, faults, crashes,
                   expiries>>

\* PutExternalStorageConfig and SwitchToInternalStorage change the backend and
\* leave the objects behind.
ChangeBackend ==
    /\ active' = Other(active)
    /\ late' = late \cup owned
    /\ UNCHANGED <<stored, owned, url, jobs, lock, running, work, faults, aside>>

\* CancelStorageMigration goes to the table, past MigrationService.Cancel.  It
\* reads the job first, so a pending one is not found.
CancelMigration(j) ==
    /\ jobs[j].state = "failed"
    /\ UpdateMigration(j, "cancelled", jobs[j].keys)
    /\ UNCHANGED <<files, lock, running, work, faults, aside>>

Expire ==
    /\ \/ lock = Orphan /\ UNCHANGED expiries
       \/ lock \in Procs /\ expiries < MaxExpiries /\ expiries' = expiries + 1
    /\ lock' = Free
    /\ UNCHANGED <<files, jobs, running, work, faults, cached, astray, crashes>>

\* Another request of the user finds no entry and fills it.
CacheEntry ==
    /\ cached # active /\ cached' = active
    /\ UNCHANGED <<files, jobs, lock, running, work, faults, astray, crashes, expiries>>

Crash ==
    /\ crashes < MaxCrashes
    /\ crashes' = crashes + 1
    /\ work' = [p \in Procs |-> Idle]
    /\ running' = {}
    /\ lock' = IF lock \in Procs THEN Orphan ELSE lock
    /\ UNCHANGED <<files, jobs, faults, cached, astray, expiries>>

-----------------------------------------------------------------------------

Start(p) ==
    \/ StartStorageMigration(p) \/ Check(p) \/ Count(p) \/ Insert(p) \/ Disconnect(p)
Run(p) ==
    \/ Resolve(p) \/ ResolveByType(p) \/ Enter(p) \/ TryLock(p) \/ CheckCancelled(p)
    \/ ListObjects(p) \/ Resume(p) \/ MarkRunning(p) \/ GetObject(p) \/ PutObject(p) \/ StatObject(p)
    \/ NoteVerified(p) \/ SwitchRead(p) \/ SwitchWrite(p) \/ DeleteObject(p)
    \/ NoteDeleted(p) \/ Complete(p) \/ Fail(p) \/ Unlock(p) \/ Leave(p)

Next ==
    \/ \E p \in Requests : Start(p)
    \/ \E p \in Procs : Run(p)
    \/ ListPendingMigrations \/ NextJob
    \/ \E o \in Objects : CreatePresignedUpload(o) \/ Upload(o) \/ Delete(o)
    \/ ChangeBackend
    \/ \E j \in Jobs : CancelMigration(j)
    \/ Expire \/ CacheEntry \/ Crash

Spec == Init /\ [][Next]_vars

-----------------------------------------------------------------------------

\* No lock has expired under its holder, and every run that got the lock works on
\* a job nobody has worked on since and on the user's pair of backends.
Regular == expiries = 0 /\ ~astray

\* Run copies and verifies before it switches and cleans (migration.go:189): as
\* long as runs are regular, an object the user has stored and not deleted is in
\* one of the two backends.
NoObjectLost == Regular => owned \subseteq stored["internal"] \cup stored["external"]

\* ... and in the one the row names, where requests go once the entry in Redis has
\* been dropped, unless it was put during a migration or with a URL signed for the
\* other backend, or the user changed the configuration himself.
ObjectsVisible == Regular => owned \ late \subseteq stored[active]
=============================================================================
