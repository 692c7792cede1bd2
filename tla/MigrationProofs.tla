--------------------------- MODULE MigrationProofs ---------------------------
(***************************************************************************)
(* Proofs about Migration, for any number of objects, jobs and requests,   *)
(* and any number of failed calls and restarts: types, that no object is   *)
(* lost, and that the user goes on seeing what he has stored.              *)
(***************************************************************************)
EXTENDS Migration, TLAPS

-----------------------------------------------------------------------------
(* The inductive invariant. *)

\* Objects that have been uploaded.  An upload URL is used once, so an object that
\* was uploaded and deleted does not come back.
Used == {o \in Objects : url[o] = "used"}

\* Labels of a run that holds the lock.
Holding == Copying \cup {"clean", "cleanNote", "complete"}

\* Labels inside one of its two loops.
Looping == {"get", "put", "stat", "note", "clean", "cleanNote"}

\* What the record of goroutine p holds at each label, u being Used.
Ready(p, r, u) ==
    /\ p = Tick /\ r.pc \in {"resolve", "target"} => r.job \in Jobs
    /\ r.pc \in Moving \cup {"enter", "lock", "unlock", "leave"} => r.job \in Jobs
    /\ r.pc \in Looping <=> r.left # {}
    /\ r.pc \notin Holding => r.keys = {}
    /\ r.left \subseteq r.list /\ r.list \subseteq u

UsedOK ==
    /\ owned \subseteq Used /\ \A b \in Backends : stored[b] \subseteq Used
    /\ \A p \in Procs : Ready(p, work[p], Used)

Typed == TypeOK /\ UsedOK

\* Everything but the records.
World ==
    /\ active \in Backends /\ cached \in Backends /\ astray \in BOOLEAN
    /\ stored \in [Backends -> SUBSET Objects]
    /\ jobs \in [Jobs -> [state : States, keys : SUBSET Objects]]
    /\ lock \in Procs \cup {Free, Orphan}
    /\ running \subseteq Jobs
    /\ owned \subseteq Objects /\ late \subseteq Objects
    /\ url \in [Objects -> Backends \cup {"unsigned", "used"}]
    /\ faults \in 0..MaxFaults /\ crashes \in 0..MaxCrashes /\ expiries \in 0..MaxExpiries
    /\ owned \subseteq Used /\ \A b \in Backends : stored[b] \subseteq Used

LEMMA TypedParts ==
  Typed <=> World /\ work \in [Procs -> Worker] /\ \A p \in Procs : Ready(p, work[p], Used)
BY DEF Typed, TypeOK, UsedOK, World, Ready, Looping

LEMMA TypedNext ==
  World' /\ work' \in [Procs -> Worker] /\ (\A p \in Procs : Ready(p, work[p], Used))' => Typed'
BY DEF Typed, TypeOK, UsedOK, World, Ready, Looping

-----------------------------------------------------------------------------
(* The building blocks of the actions. *)

\* Goroutine p does something, the others wait.
Steps(p) == work' \in [Procs -> Worker] /\ \A q \in Procs \ {p} : work'[q] = work[q]

LEMMA MoveRec ==
  ASSUME Typed, NEW p \in Procs, NEW r \in Worker, Move(p, r)
  PROVE  Steps(p) /\ work'[p] = r
BY DEF Typed, TypeOK, Move, Steps

LEMMA GotoRec ==
  ASSUME Typed, NEW p \in Procs, NEW l \in Labels, Goto(p, l)
  PROVE  /\ Steps(p) /\ work'[p].pc = l /\ work'[p].job = work[p].job
         /\ work'[p].source = work[p].source /\ work'[p].target = work[p].target
         /\ work'[p].list = work[p].list /\ work'[p].left = work[p].left
         /\ work'[p].keys = work[p].keys
<1> DEFINE r == [work[p] EXCEPT !.pc = l]
<1>1. work[p] \in Worker /\ Move(p, r)
  BY DEF Typed, TypeOK, Goto
<1>2. /\ r \in Worker /\ r.pc = l /\ r.job = work[p].job /\ r.source = work[p].source
      /\ r.target = work[p].target /\ r.list = work[p].list /\ r.left = work[p].left
      /\ r.keys = work[p].keys
  BY <1>1 DEF Worker
<1> HIDE DEF r
<1> QED
  BY <1>1, <1>2, MoveRec

\* A record that has been cleared.
Cleared(r) == r.list = {} /\ r.left = {} /\ r.keys = {}

LEMMA IdleOK == Idle \in Worker /\ Idle.pc = "idle" /\ Cleared(Idle)
BY DEF Idle, Worker, Labels, Backends, Cleared

LEMMA StopRec ==
  ASSUME Typed, NEW p \in Procs, NEW l \in Labels, Stop(p, l)
  PROVE  Steps(p) /\ work'[p].pc = l /\ work'[p].job = work[p].job /\ Cleared(work'[p])
<1> DEFINE r == [Idle EXCEPT !.pc = l, !.job = work[p].job, !.queue = work[p].queue]
<1>1. work[p] \in Worker /\ Move(p, r)
  BY DEF Typed, TypeOK, Stop
<1>2. r \in Worker /\ r.pc = l /\ r.job = work[p].job /\ Cleared(r)
  BY <1>1, IdleOK DEF Worker, Cleared
<1> HIDE DEF r
<1> QED
  BY <1>1, <1>2, MoveRec

LEMMA ReturnRec ==
  ASSUME Typed, NEW p \in Procs, Return(p)
  PROVE  Steps(p) /\ work'[p].pc \in {"idle", "next"} /\ Cleared(work'[p])
<1> DEFINE r == [Idle EXCEPT !.pc = IF p = Tick THEN "next" ELSE "idle", !.queue = work[p].queue]
<1>1. work[p] \in Worker /\ Move(p, r)
  BY DEF Typed, TypeOK, Return
<1>2. r \in Worker /\ r.pc \in {"idle", "next"} /\ Cleared(r)
  BY <1>1, IdleOK DEF Worker, Cleared, Labels
<1> HIDE DEF r
<1> QED
  BY <1>1, <1>2, MoveRec

LEMMA UpdateJobs ==
  ASSUME Typed, NEW j \in Jobs, NEW s \in States, NEW k \in SUBSET Objects, UpdateMigration(j, s, k)
  PROVE  /\ jobs' \in [Jobs -> [state : States, keys : SUBSET Objects]]
         /\ jobs'[j].state = s /\ jobs'[j].keys = k
         /\ \A i \in Jobs \ {j} : jobs'[i] = jobs[i]
BY DEF Typed, TypeOK, UpdateMigration

LEMMA CallOK == ASSUME Typed, Works \/ Fault PROVE faults' \in 0..MaxFaults
BY MigrationAssumption DEF Typed, TypeOK, Works, Fault

\* A record of p that is as it should be, in a world that is.
LEMMA RecordTyped ==
  ASSUME Typed, NEW p \in Procs, Steps(p), UNCHANGED url, World', Ready(p, work'[p], Used)
  PROVE  Typed'
<1>1. \A q \in Procs : Ready(q, work[q], Used)
  BY TypedParts
<1>2. Used' = Used
  BY DEF Used
<1>3. \A q \in Procs : Ready(q, work'[q], Used)
  BY <1>1 DEF Steps
<1>4. (\A q \in Procs : Ready(q, work[q], Used))'
  BY <1>2, <1>3
<1> QED
  BY <1>4, TypedNext DEF Steps

\* The labels and what they are members of.
LEMMA ClearedReady ==
  ASSUME NEW p, NEW r, Cleared(r), NEW u,
         \/ r.pc \in {"fail", "unlock", "leave"} /\ r.job \in Jobs
         \/ r.pc \in {"idle", "next"}
  PROVE  Ready(p, r, u)
BY DEF Cleared, Ready, Moving, Copying, Holding, Looping

-----------------------------------------------------------------------------
(* Type correctness. *)

LEMMA QuietWorld ==
  ASSUME Typed, UNCHANGED <<files, aside>>, Works \/ Fault,
         jobs' = jobs \/ \E j \in Jobs, s \in States, k \in SUBSET Objects : UpdateMigration(j, s, k),
         lock' \in Procs \cup {Free, Orphan}, running' \subseteq Jobs
  PROVE  World'
<1>1. jobs' \in [Jobs -> [state : States, keys : SUBSET Objects]]
  BY UpdateJobs DEF Typed, TypeOK
<1> QED
  BY <1>1, CallOK DEF Typed, TypeOK, UsedOK, World, files, aside, Used

\* The entry in Redis or the ghost changes, and nothing else but the record.
LEMMA EntryWorld ==
  ASSUME Typed, UNCHANGED <<files, jobs, running, crashes, expiries>>, Works \/ Fault,
         lock' \in Procs \cup {Free, Orphan}, cached' \in Backends, astray' \in BOOLEAN
  PROVE  World'
BY CallOK DEF Typed, TypeOK, UsedOK, World, files, Used

LEMMA EntryOK ==
  ASSUME Typed, \/ UNCHANGED cached
                \/ \E b \in Backends : LoadCachedConfig(b)
  PROVE  cached' \in Backends
BY TypedParts DEF World, LoadCachedConfig, Hit, Miss

\* A handler that ends, or turns to what is left to do.
LEMMA LeaveTyped ==
  ASSUME Typed, NEW p \in Procs, World', UNCHANGED url,
         \/ Return(p)
         \/ Stop(p, "fail") /\ work[p].job \in Jobs
         \/ Stop(p, "unlock") /\ work[p].job \in Jobs
         \/ Stop(p, "leave") /\ work[p].job \in Jobs
  PROVE  Typed'
<1>1. /\ Steps(p) /\ Cleared(work'[p])
      /\ \/ work'[p].pc \in {"fail", "unlock", "leave"} /\ work'[p].job \in Jobs
         \/ work'[p].pc \in {"idle", "next"}
  BY ReturnRec, StopRec DEF Labels, Moving
<1>2. Ready(p, work'[p], Used)
  BY <1>1, ClearedReady
<1> QED
  BY <1>1, <1>2, RecordTyped

\* A request up to its job.
LEMMA StartTyped == ASSUME Typed, NEW p \in Requests, Start(p) PROVE Typed'
<1>1. p \in Procs /\ work[p] \in Worker /\ Ready(p, work[p], Used) /\ World /\ UNCHANGED url
  BY TypedParts DEF Procs, Start, StartStorageMigration, Check, Count, Insert, Disconnect, files
<1>2. ASSUME Goto(p, "resolve") \/ Goto(p, "insert"), World', work[p].pc \in {"check", "count"}
      PROVE  Typed'
  <2>1. /\ Steps(p) /\ work'[p].pc \in {"resolve", "insert"}
        /\ work'[p].list = work[p].list /\ work'[p].left = work[p].left
        /\ work'[p].keys = work[p].keys
    BY <1>1, <1>2, GotoRec DEF Labels
  <2>2. Ready(p, work'[p], Used)
    BY <1>1, <1>2, <2>1, MigrationAssumption DEF Ready, Moving, Copying, Holding, Looping
  <2> QED
    BY <1>1, <1>2, <2>1, <2>2, RecordTyped
<1>3. CASE StartStorageMigration(p)
  <2> DEFINE r == [Idle EXCEPT !.pc = "check", !.target = Other(active)]
  <2>1. r \in Worker /\ r.pc = "check" /\ Cleared(r)
    BY <1>1, IdleOK DEF Worker, Cleared, Labels, World, Other, Backends
  <2>2. Move(p, r) /\ UNCHANGED <<files, jobs, lock, running, faults, aside>>
    BY <1>3 DEF StartStorageMigration
  <2> HIDE DEF r
  <2>3. Steps(p) /\ work'[p] = r
    BY <1>1, <2>1, <2>2, MoveRec
  <2>4. Ready(p, r, Used)
    BY <2>1 DEF Ready, Cleared, Moving, Copying, Looping
  <2>5. World'
    BY <1>1, <2>2, QuietWorld DEF World, Works
  <2> QED
    BY <1>1, <2>3, <2>4, <2>5, RecordTyped
<1>4. CASE Check(p)
  <2>1. World' /\ work[p].pc = "check"
    BY <1>1, <1>4, QuietWorld DEF Check, World, At
  <2> QED
    BY <1>1, <1>2, <1>4, <2>1, LeaveTyped DEF Check
<1>5. CASE Count(p)
  <2>1. World' /\ work[p].pc = "count"
    BY <1>1, <1>5, QuietWorld DEF Count, World, At
  <2> QED
    BY <1>1, <1>2, <1>5, <2>1, LeaveTyped DEF Count
<1>6. CASE Insert(p)
  <2>1. ASSUME NEW j \in Jobs, UpdateMigration(j, "pending", {}), Works,
               Move(p, [work[p] EXCEPT !.pc = "enter", !.job = j])
        PROVE  Typed'
    <3> DEFINE r == [work[p] EXCEPT !.pc = "enter", !.job = j]
    <3>1. /\ r \in Worker /\ r.pc = "enter" /\ r.job = j /\ r.list = work[p].list
          /\ r.left = work[p].left /\ r.keys = work[p].keys
      BY <1>1 DEF Worker, Labels
    <3>2. Move(p, r)
      BY <2>1
    <3> HIDE DEF r
    <3>3. Steps(p) /\ work'[p] = r
      BY <1>1, <3>1, <3>2, MoveRec
    <3>4. Ready(p, r, Used)
      BY <1>1, <1>6, <3>1 DEF Ready, Insert, At, Moving, Copying, Holding, Looping
    <3>5. World'
      BY <1>1, <1>6, <2>1, QuietWorld DEF Insert, World, States
    <3> QED
      BY <1>1, <3>3, <3>4, <3>5, RecordTyped
  <2>2. ASSUME Fault \/ Works, Return(p), UNCHANGED jobs PROVE Typed'
    <3>1. World'
      BY <1>1, <1>6, <2>2, QuietWorld DEF Insert, World
    <3> QED
      BY <1>1, <2>2, <3>1, LeaveTyped
  <2> QED
    BY <1>6, <2>1, <2>2 DEF Insert
<1>7. CASE Disconnect(p)
  <2>1. World' /\ work[p].job \in Jobs /\ Stop(p, "unlock")
    BY <1>1, <1>7, QuietWorld DEF Disconnect, World, Ready
  <2> QED
    BY <1>1, <2>1, LeaveTyped
<1> QED
  BY <1>3, <1>4, <1>5, <1>6, <1>7 DEF Start

\* The cron goroutine between two jobs.
LEMMA TickTyped == ASSUME Typed, ListPendingMigrations \/ NextJob PROVE Typed'
<1> DEFINE p == Tick
<1>1. p \in Procs /\ work[p] \in Worker /\ World /\ UNCHANGED url
  BY TypedParts DEF Procs, ListPendingMigrations, NextJob, files
<1>2. World'
  BY <1>1, QuietWorld DEF ListPendingMigrations, NextJob, World, Works
<1>3. ASSUME NEW r \in Worker, Move(p, r), r.pc \in {"idle", "next", "resolve"}, Cleared(r),
             r.pc = "resolve" => r.job \in Jobs
      PROVE  Typed'
  <2>1. Ready(p, r, Used)
    BY <1>3 DEF Ready, Cleared, Moving, Copying, Looping
  <2> QED
    BY <1>1, <1>2, <1>3, <2>1, MoveRec, RecordTyped
<1>4. ASSUME NEW q \in SUBSET Jobs PROVE /\ [Idle EXCEPT !.pc = "next", !.queue = q] \in Worker
                                        /\ [Idle EXCEPT !.pc = "next", !.queue = q].pc = "next"
                                        /\ Cleared([Idle EXCEPT !.pc = "next", !.queue = q])
  BY IdleOK DEF Worker, Labels, Cleared
<1>5. ASSUME NEW j \in Jobs, NEW q \in SUBSET Jobs
      PROVE  LET r == [Idle EXCEPT !.pc = "resolve", !.job = j, !.target = Other(active), !.queue = q]
             IN r \in Worker /\ r.pc = "resolve" /\ r.job = j /\ Cleared(r)
  BY <1>1, IdleOK DEF Worker, Labels, Cleared, World, Other, Backends
<1>6. CASE ListPendingMigrations
  BY <1>3, <1>4, <1>6 DEF ListPendingMigrations
<1>7. CASE NextJob
  <2>1. work[Tick].queue \subseteq Jobs
    BY <1>1 DEF Worker
  <2>2. CASE Move(Tick, Idle)
    BY <1>3, <2>2, IdleOK
  <2>3. ASSUME NEW j \in work[Tick].queue,
               Move(Tick, [Idle EXCEPT !.pc = "resolve", !.job = j, !.target = Other(active),
                                       !.queue = work[Tick].queue \ {j}])
        PROVE  Typed'
    <3> DEFINE r == [Idle EXCEPT !.pc = "resolve", !.job = j, !.target = Other(active),
                                 !.queue = work[Tick].queue \ {j}]
    <3>1. r \in Worker /\ r.pc = "resolve" /\ r.job = j /\ Cleared(r)
      BY <1>5, <2>1
    <3>2. j \in Jobs /\ Move(Tick, r)
      BY <2>1, <2>3
    <3> HIDE DEF r
    <3> QED
      BY <1>3, <3>1, <3>2
  <2>4. ASSUME NEW j \in work[Tick].queue,
               Move(Tick, [Idle EXCEPT !.pc = "next", !.queue = work[Tick].queue \ {j}])
        PROVE  Typed'
    BY <1>3, <1>4, <2>1, <2>4
  <2> QED
    BY <1>7, <2>2, <2>3, <2>4 DEF NextJob
<1> QED
  BY <1>6, <1>7

\* A run that goes on holding the lock, with what it had or with a new record.
LEMMA GoesOn ==
  ASSUME Typed, NEW p \in Procs, World', UNCHANGED url, work[p].job \in Jobs,
         NEW l \in Holding, Goto(p, l), l \in Looping <=> work[p].left # {}
  PROVE  Typed'
<1>1. l \in Labels /\ Ready(p, work[p], Used)
  BY TypedParts DEF Holding, Labels, Moving
<1>2. Ready(p, work'[p], Used)
  BY <1>1, GotoRec DEF Ready
<1> QED
  BY <1>1, <1>2, GotoRec, RecordTyped

LEMMA NewRecord ==
  ASSUME Typed, NEW p \in Procs, World', UNCHANGED url, NEW r \in Worker, Move(p, r),
         r.job \in Jobs, r.pc \in Holding, r.left \subseteq r.list, r.list \subseteq Used,
         r.pc \in Looping <=> r.left # {}
  PROVE  Typed'
<1>1. Ready(p, r, Used)
  BY DEF Ready
<1> QED
  BY <1>1, MoveRec, RecordTyped

\* The object a loop is at.
LEMMA ObjectOK ==
  ASSUME Typed, NEW p \in Procs, work[p].pc \in Looping
  PROVE  /\ Object(p) \in work[p].left /\ Object(p) \in work[p].list /\ Object(p) \in Used
         /\ Object(p) \in Objects /\ Later(p) \subseteq work[p].left
BY TypedParts DEF Object, Later, Ready, Used

\* The run up to the copying.
LEMMA EnterTyped ==
  ASSUME Typed, NEW p \in Procs,
         \/ Resolve(p) \/ ResolveByType(p) \/ Enter(p) \/ TryLock(p) \/ CheckCancelled(p)
         \/ ListObjects(p) \/ Resume(p) \/ MarkRunning(p)
  PROVE  Typed'
<1>1. work[p] \in Worker /\ Ready(p, work[p], Used) /\ World /\ UNCHANGED url
  BY TypedParts DEF Resolve, ResolveByType, Enter, TryLock, CheckCancelled, ListObjects, Resume,
                    MarkRunning, files
<1>2. CASE Resolve(p)
  <2>1. World' /\ work[p].pc = "resolve"
    <3>1. cached' \in Backends
      BY <1>2, EntryOK DEF Resolve
    <3> QED
      BY <1>1, <1>2, <3>1, EntryWorld DEF Resolve, World, At
  <2>2. ASSUME NEW b \in Backends, Move(p, [work[p] EXCEPT !.source = b, !.pc = "target"])
        PROVE  Typed'
    <3> DEFINE r == [work[p] EXCEPT !.source = b, !.pc = "target"]
    <3>1. /\ r \in Worker /\ r.pc = "target" /\ r.list = work[p].list
          /\ r.left = work[p].left /\ r.keys = work[p].keys /\ r.job = work[p].job
      BY <1>1 DEF Worker, Labels
    <3>2. Move(p, r)
      BY <2>2
    <3> HIDE DEF r
    <3>3. Ready(p, r, Used)
      BY <1>1, <2>1, <3>1 DEF Ready, Moving, Copying, Holding, Looping
    <3> QED
      BY <1>1, <2>1, <3>1, <3>2, <3>3, MoveRec, RecordTyped
  <2> QED
    BY <1>1, <1>2, <2>1, <2>2, LeaveTyped DEF Resolve
<1>10. CASE ResolveByType(p)
  <2>1. World' /\ work[p].pc = "target"
    <3>1. cached' \in Backends
      BY <1>10, EntryOK DEF ResolveByType
    <3> QED
      BY <1>1, <1>10, <3>1, EntryWorld DEF ResolveByType, World, At
  <2>2. ASSUME NEW l \in {"count", "enter"}, l = "enter" => p = Tick, Goto(p, l) PROVE Typed'
    <3>1. /\ Steps(p) /\ work'[p].pc = l /\ work'[p].list = work[p].list
          /\ work'[p].left = work[p].left /\ work'[p].keys = work[p].keys
          /\ work'[p].job = work[p].job
      BY <2>2, GotoRec DEF Labels
    <3>2. Ready(p, work'[p], Used)
      BY <1>1, <2>1, <2>2, <3>1 DEF Ready, Moving, Copying, Holding, Looping
    <3> QED
      BY <1>1, <2>1, <3>1, <3>2, RecordTyped
  <2>3. \/ Return(p)
        \/ p = Tick /\ Goto(p, "enter")
        \/ p # Tick /\ Goto(p, "count")
    BY <1>10 DEF ResolveByType
  <2> QED
    BY <1>1, <2>1, <2>2, <2>3, LeaveTyped
<1>3. CASE Enter(p)
  <2>1. work[p].pc = "enter" /\ work[p].job \in Jobs
    BY <1>1, <1>3 DEF Enter, At, Ready
  <2>2. World'
    BY <1>1, <1>3, <2>1, QuietWorld DEF Enter, World, Works
  <2>3. ASSUME Goto(p, "lock") PROVE Typed'
    <3>1. Ready(p, work'[p], Used) /\ Steps(p)
      BY <1>1, <2>1, <2>3, GotoRec DEF Ready, Labels, Moving, Copying, Holding, Looping
    <3> QED
      BY <1>1, <2>2, <3>1, RecordTyped
  <2> QED
    BY <1>1, <1>3, <2>2, <2>3, LeaveTyped DEF Enter
<1>4. CASE TryLock(p)
  <2>1. work[p].pc = "lock" /\ work[p].job \in Jobs /\ work[p].left = {}
    BY <1>1, <1>4 DEF TryLock, At, Ready, Looping
  <2>2. World'
    BY <1>1, <1>4, EntryWorld DEF TryLock, World
  <2>3. Goto(p, "state") \/ Stop(p, "fail")
    BY <1>4 DEF TryLock
  <2> QED
    BY <1>1, <2>1, <2>2, <2>3, GoesOn, LeaveTyped DEF Holding, Copying, Looping
<1>5. ASSUME work[p].pc \in {"state", "list", "resume", "mark"}
      PROVE  work[p].job \in Jobs /\ work[p].left = {}
  BY <1>1, <1>5 DEF Ready, Moving, Copying, Looping
<1>6. CASE CheckCancelled(p)
  <2>1. work[p].job \in Jobs /\ work[p].left = {}
    BY <1>5, <1>6 DEF CheckCancelled, At
  <2>2. World'
    BY <1>1, <1>6, QuietWorld DEF CheckCancelled, World
  <2>3. Goto(p, "list") \/ Stop(p, "unlock")
    BY <1>6 DEF CheckCancelled
  <2> QED
    BY <1>1, <2>1, <2>2, <2>3, GoesOn, LeaveTyped DEF Holding, Copying, Looping
<1>7. CASE ListObjects(p)
  <2>1. work[p].job \in Jobs /\ work[p].left = {}
    BY <1>5, <1>7 DEF ListObjects, At
  <2>2. World'
    BY <1>1, <1>7, QuietWorld DEF ListObjects, World
  <2>3. CASE Stop(p, "fail")
    BY <1>1, <2>1, <2>2, <2>3, LeaveTyped
  <2>4. CASE Move(p, [work[p] EXCEPT !.pc = "resume", !.list = stored[work[p].source]])
    <3> DEFINE r == [work[p] EXCEPT !.pc = "resume", !.list = stored[work[p].source]]
    <3>1. stored[work[p].source] \subseteq Objects /\ stored[work[p].source] \subseteq Used
      BY <1>1 DEF World, Worker
    <3>2. /\ r \in Worker /\ r.pc = "resume" /\ r.list \subseteq Used /\ r.job = work[p].job
          /\ r.left = {}
      BY <1>1, <2>1, <3>1 DEF Worker, Labels, Moving, Copying
    <3>3. Move(p, r)
      BY <2>4
    <3> HIDE DEF r
    <3> QED
      BY <1>1, <2>1, <2>2, <3>2, <3>3, NewRecord DEF Holding, Copying, Looping
  <2> QED
    BY <1>7, <2>3, <2>4 DEF ListObjects
<1>8. CASE Resume(p)
  <2>1. work[p].job \in Jobs /\ work[p].left = {}
    BY <1>5, <1>8 DEF Resume, At
  <2>2. World'
    BY <1>1, <1>8, QuietWorld DEF Resume, World
  <2>3. CASE Goto(p, "mark")
    BY <1>1, <2>1, <2>2, <2>3, GoesOn DEF Holding, Copying, Looping
  <2>4. ASSUME NEW k, Move(p, [work[p] EXCEPT !.pc = "mark", !.keys = k]),
               k = IF Readable(work[p].job) THEN jobs[work[p].job].keys ELSE {}
        PROVE  Typed'
    <3> DEFINE r == [work[p] EXCEPT !.pc = "mark", !.keys = k]
    <3>1. k \subseteq Objects
      BY <1>1, <2>1, <2>4 DEF World
    <3>2. /\ r \in Worker /\ r.pc = "mark" /\ r.list \subseteq Used /\ r.job = work[p].job
          /\ r.left = {}
      BY <1>1, <2>1, <3>1 DEF Worker, Labels, Moving, Copying, Ready
    <3>3. Move(p, r)
      BY <2>4
    <3> HIDE DEF r
    <3> QED
      BY <1>1, <2>1, <2>2, <3>2, <3>3, NewRecord DEF Holding, Copying, Looping
  <2> QED
    BY <1>8, <2>3, <2>4 DEF Resume
<1>9. CASE MarkRunning(p)
  <2>1. work[p].job \in Jobs /\ work[p].keys \subseteq Objects
    BY <1>1, <1>5, <1>9 DEF MarkRunning, At, Worker
  <2>2. World'
    BY <1>1, <1>9, <2>1, QuietWorld DEF MarkRunning, World, States
  <2> DEFINE r == [work[p] EXCEPT !.pc = CopyNext(ToCopy(p)), !.left = ToCopy(p)]
  <2>3. ToCopy(p) \subseteq work[p].list /\ ToCopy(p) \subseteq Objects
    BY <1>1 DEF ToCopy, Worker
  <2>4. /\ CopyNext(ToCopy(p)) \in {"get", "switchRead"}
        /\ CopyNext(ToCopy(p)) = "get" <=> ToCopy(p) # {}
    BY DEF CopyNext
  <2>5. /\ r \in Worker /\ r.pc \in {"get", "switchRead"}
        /\ r.pc = "get" <=> r.left # {}
        /\ r.left \subseteq r.list /\ r.list \subseteq Used /\ r.job = work[p].job
    BY <1>1, <2>3, <2>4 DEF Worker, Labels, Moving, Copying, Ready
  <2>6. Move(p, r)
    BY <1>9 DEF MarkRunning
  <2> HIDE DEF r
  <2> QED
    BY <1>1, <2>1, <2>2, <2>5, <2>6, NewRecord DEF Holding, Copying, Looping
<1> QED
  BY <1>2, <1>3, <1>4, <1>6, <1>7, <1>8, <1>9, <1>10

\* Which labels a loop goes to, and that they fit what is left to do.
LEMMA NextLabel ==
  ASSUME NEW left
  PROVE  /\ CopyNext(left) \in {"get", "switchRead"} /\ CleanNext(left) \in {"clean", "complete"}
         /\ CopyNext(left) \in Looping <=> left # {}
         /\ CleanNext(left) \in Looping <=> left # {}
BY DEF CopyNext, CleanNext, Looping

\* A backend gets or loses an uploaded object.
LEMMA StoreWorld ==
  ASSUME Typed, Works \/ Fault, NEW b \in Backends, NEW o \in Used,
         \/ UNCHANGED stored
         \/ stored' = [stored EXCEPT ![b] = @ \cup {o}]
         \/ stored' = [stored EXCEPT ![b] = @ \ {o}],
         UNCHANGED <<active, owned, url, late, jobs, lock, running, aside>>
  PROVE  World'
<1>1. World /\ faults' \in 0..MaxFaults /\ o \in Objects
  BY TypedParts, CallOK DEF Used
<1>2. stored' \in [Backends -> SUBSET Objects] /\ \A c \in Backends : stored'[c] \subseteq Used
  BY <1>1 DEF World
<1> QED
  BY <1>1, <1>2 DEF World, Used, aside

\* One object after the other.
LEMMA CopyTyped ==
  ASSUME Typed, NEW p \in Procs,
         GetObject(p) \/ PutObject(p) \/ StatObject(p) \/ NoteVerified(p)
  PROVE  Typed'
<1>1. /\ work[p] \in Worker /\ Ready(p, work[p], Used) /\ World /\ UNCHANGED url
      /\ work[p].pc \in {"get", "put", "stat", "note"}
  BY TypedParts DEF GetObject, PutObject, StatObject, NoteVerified, files, At
<1>2. work[p].job \in Jobs /\ work[p].left # {} /\ work[p].pc \in Looping
  BY <1>1 DEF Ready, Looping, Moving, Copying
<1>3. ASSUME NEW l \in {"put", "stat", "note"}, Goto(p, l), World' PROVE Typed'
  BY <1>1, <1>2, <1>3, GoesOn DEF Holding, Copying, Looping
<1>4. CASE GetObject(p)
  <2>1. World'
    BY <1>1, <1>4, QuietWorld DEF GetObject, World
  <2> QED
    BY <1>1, <1>2, <1>3, <1>4, <2>1, LeaveTyped DEF GetObject
<1>5. CASE PutObject(p)
  <2>1. Object(p) \in Used /\ work[p].target \in Backends
    BY <1>1, <1>2, ObjectOK DEF Worker
  <2>2. World'
    BY <1>1, <1>5, <2>1, StoreWorld DEF PutObject
  <2> QED
    BY <1>1, <1>2, <1>3, <1>5, <2>2, LeaveTyped DEF PutObject
<1>6. CASE StatObject(p)
  <2>1. World'
    BY <1>1, <1>6, QuietWorld DEF StatObject, World
  <2> QED
    BY <1>1, <1>2, <1>3, <1>6, <2>1, LeaveTyped DEF StatObject
<1>7. CASE NoteVerified(p)
  <2> DEFINE keys == work[p].keys \cup {Object(p)}
             r == [work[p] EXCEPT !.pc = CopyNext(Later(p)), !.left = Later(p), !.keys = keys]
  <2>1. keys \subseteq Objects /\ Later(p) \subseteq work[p].list /\ Later(p) \subseteq Objects
    BY <1>1, <1>2, ObjectOK DEF Worker, Ready
  <2>2. World'
    BY <1>1, <1>2, <1>7, <2>1, QuietWorld DEF NoteVerified, World, States
  <2>3. CASE Stop(p, "fail")
    BY <1>1, <1>2, <2>2, <2>3, LeaveTyped
  <2>4. CASE Move(p, r)
    <3>1. /\ r \in Worker /\ r.pc = CopyNext(Later(p)) /\ r.left = Later(p)
          /\ r.list = work[p].list /\ r.job = work[p].job
      BY <1>1, <2>1, NextLabel DEF Worker, Labels, Moving, Copying
    <3>2. r.left \subseteq r.list /\ r.list \subseteq Used /\ r.pc \in Holding
      BY <1>1, <2>1, <3>1, NextLabel DEF Ready, Holding, Copying
    <3>3. r.pc \in Looping <=> r.left # {}
      BY <3>1, NextLabel
    <3> HIDE DEF r
    <3> QED
      BY <1>1, <1>2, <2>2, <2>4, <3>1, <3>2, <3>3, NewRecord
  <2> QED
    BY <1>7, <2>3, <2>4 DEF NoteVerified
<1> QED
  BY <1>4, <1>5, <1>6, <1>7

\* The switch, the cleaning and the end.
LEMMA CleanTyped ==
  ASSUME Typed, NEW p \in Procs,
         SwitchRead(p) \/ SwitchWrite(p) \/ DeleteObject(p) \/ NoteDeleted(p) \/ Complete(p)
  PROVE  Typed'
<1>1. /\ work[p] \in Worker /\ Ready(p, work[p], Used) /\ World /\ UNCHANGED url
      /\ work[p].pc \in {"switchRead", "switchWrite", "clean", "cleanNote", "complete"}
  BY TypedParts DEF SwitchRead, SwitchWrite, DeleteObject, NoteDeleted, Complete, files, At
<1>2. work[p].job \in Jobs /\ (work[p].left # {} <=> work[p].pc \in {"clean", "cleanNote"})
  BY <1>1 DEF Ready, Looping, Moving, Copying
<1>3. CASE SwitchRead(p)
  <2>1. World'
    BY <1>1, <1>3, QuietWorld DEF SwitchRead, World
  <2>2. CASE Move(p, [work[p] EXCEPT !.pc = "switchWrite", !.target = Other(active)])
    <3> DEFINE r == [work[p] EXCEPT !.pc = "switchWrite", !.target = Other(active)]
    <3>1. /\ r \in Worker /\ r.pc = "switchWrite" /\ r.left = work[p].left
          /\ r.list = work[p].list /\ r.job = work[p].job
      BY <1>1 DEF Worker, Labels, Moving, Copying, Other, Backends
    <3>2. r.left \subseteq r.list /\ r.list \subseteq Used /\ r.pc \in Holding /\ r.left = {}
      BY <1>1, <1>2, <1>3, <3>1 DEF Ready, Holding, Copying, SwitchRead, At
    <3>3. Move(p, r)
      BY <2>2
    <3> HIDE DEF r
    <3> QED
      BY <1>1, <1>2, <2>1, <3>1, <3>2, <3>3, NewRecord DEF Looping
  <2> QED
    BY <1>1, <1>2, <1>3, <2>1, <2>2, LeaveTyped DEF SwitchRead
<1>4. ASSUME NEW left, left \subseteq work[p].list, World',
             Move(p, [work[p] EXCEPT !.pc = CleanNext(left), !.left = left])
      PROVE  Typed'
  <2> DEFINE r == [work[p] EXCEPT !.pc = CleanNext(left), !.left = left]
  <2>1. /\ r \in Worker /\ r.pc = CleanNext(left) /\ r.left = left
        /\ r.list = work[p].list /\ r.job = work[p].job
    BY <1>1, <1>4, NextLabel DEF Worker, Labels, Moving
  <2>2. r.left \subseteq r.list /\ r.list \subseteq Used /\ r.pc \in Holding
    BY <1>1, <1>4, <2>1, NextLabel DEF Ready, Holding
  <2>3. r.pc \in Looping <=> r.left # {}
    BY <2>1, NextLabel
  <2>4. Move(p, r)
    BY <1>4
  <2> HIDE DEF r
  <2> QED
    BY <1>1, <1>2, <1>4, <2>1, <2>2, <2>3, <2>4, NewRecord
<1>5. CASE SwitchWrite(p)
  <2>1. World'
    <3>1. active' \in Backends /\ faults' \in 0..MaxFaults
      BY <1>1, <1>5, CallOK DEF SwitchWrite, World, Worker
    <3> QED
      BY <1>1, <1>5, <3>1 DEF SwitchWrite, World, Used, aside
  <2> QED
    BY <1>1, <1>2, <1>4, <1>5, <2>1, LeaveTyped DEF SwitchWrite, StartCleaning
<1>6. CASE DeleteObject(p)
  <2>1. Object(p) \in Used /\ work[p].source \in Backends /\ work[p].pc = "clean"
    BY <1>1, <1>6, ObjectOK DEF Worker, DeleteObject, At, Looping
  <2>2. World'
    BY <1>1, <1>6, <2>1, StoreWorld DEF DeleteObject
  <2>3. CASE Goto(p, "cleanNote")
    BY <1>1, <1>2, <2>1, <2>2, <2>3, GoesOn DEF Holding, Looping
  <2> QED
    BY <1>1, <1>2, <1>6, <2>2, <2>3, LeaveTyped DEF DeleteObject
<1>7. CASE NoteDeleted(p)
  <2>1. Later(p) \subseteq work[p].list /\ work[p].keys \subseteq Objects
    BY <1>1, <1>7, ObjectOK DEF NoteDeleted, At, Looping, Ready, Worker
  <2>2. World'
    BY <1>1, <1>2, <1>7, <2>1, QuietWorld DEF NoteDeleted, World, States
  <2> QED
    BY <1>1, <1>2, <1>4, <1>7, <2>1, <2>2, LeaveTyped DEF NoteDeleted
<1>8. CASE Complete(p)
  <2>1. work[p].keys \subseteq Objects
    BY <1>1 DEF Worker
  <2>2. World'
    BY <1>1, <1>2, <1>8, <2>1, QuietWorld DEF Complete, World, States
  <2> QED
    BY <1>1, <1>2, <1>8, <2>2, LeaveTyped DEF Complete
<1> QED
  BY <1>3, <1>5, <1>6, <1>7, <1>8

LEMMA EndTyped ==
  ASSUME Typed, NEW p \in Procs, Fail(p) \/ Unlock(p) \/ Leave(p) PROVE Typed'
<1>1. /\ work[p] \in Worker /\ Ready(p, work[p], Used) /\ World /\ UNCHANGED url
      /\ work[p].pc \in {"fail", "unlock", "leave"}
  BY TypedParts DEF Fail, Unlock, Leave, files, At
<1>2. work[p].job \in Jobs
  BY <1>1 DEF Ready, Moving
<1>3. CASE Fail(p)
  <2>1. World'
    BY <1>1, <1>2, <1>3, QuietWorld DEF Fail, World, States
  <2> QED
    BY <1>1, <1>2, <1>3, <2>1, LeaveTyped DEF Fail
<1>4. CASE Unlock(p)
  <2>1. World'
    BY <1>1, <1>4, QuietWorld DEF Unlock, World
  <2> QED
    BY <1>1, <1>2, <1>4, <2>1, LeaveTyped DEF Unlock
<1>5. CASE Leave(p)
  <2>1. World'
    BY <1>1, <1>5, QuietWorld DEF Leave, World, Works
  <2> QED
    BY <1>1, <1>5, <2>1, LeaveTyped DEF Leave
<1> QED
  BY <1>3, <1>4, <1>5

\* Uploads only add to what has been uploaded.
LEMMA StillTyped ==
  ASSUME Typed, World', UNCHANGED work, Used \subseteq Used' PROVE Typed'
<1>1. work \in [Procs -> Worker] /\ \A p \in Procs : Ready(p, work[p], Used)
  BY TypedParts
<1>2. PICK u : u = Used'
  OBVIOUS
<1>3. \A p \in Procs : Ready(p, work[p], u)
  BY <1>1, <1>2 DEF Ready
<1>4. (\A p \in Procs : Ready(p, work[p], Used))'
  BY <1>2, <1>3
<1> QED
  BY <1>1, <1>4, TypedNext

\* The user, Redis and the process.
Outside ==
    \/ \E o \in Objects : CreatePresignedUpload(o) \/ Upload(o) \/ Delete(o)
    \/ ChangeBackend
    \/ \E j \in Jobs : CancelMigration(j)
    \/ Expire \/ CacheEntry \/ Crash

LEMMA OutsideTyped == ASSUME Typed, Outside PROVE Typed'
<1>1. World /\ work \in [Procs -> Worker]
  BY TypedParts
<1>2. ASSUME NEW o \in Objects, CreatePresignedUpload(o) PROVE Typed'
  <2>1. Used' = Used /\ url' \in [Objects -> Backends \cup {"unsigned", "used"}]
    BY <1>1, <1>2 DEF CreatePresignedUpload, World, Used, Backends
  <2>2. World'
    <3>1. cached' \in Backends
      BY <1>2, EntryOK DEF CreatePresignedUpload
    <3> QED
      BY <1>1, <1>2, <2>1, <3>1 DEF CreatePresignedUpload, World
  <2> QED
    BY <1>2, <2>1, <2>2, StillTyped DEF CreatePresignedUpload
<1>3. ASSUME NEW o \in Objects, Upload(o) PROVE Typed'
  <2>1. /\ Used' = Used \cup {o} /\ url' \in [Objects -> Backends \cup {"unsigned", "used"}]
        /\ url[o] \in Backends
    BY <1>1, <1>3 DEF Upload, World, Used, Backends
  <2>2. /\ stored' \in [Backends -> SUBSET Objects]
        /\ \A b \in Backends : stored'[b] \subseteq stored[b] \cup {o}
        /\ owned' = owned \cup {o} /\ late' \subseteq late \cup {o}
    BY <1>1, <1>3, <2>1 DEF Upload, World
  <2>3. World'
    BY <1>1, <1>3, <2>1, <2>2 DEF Upload, World, aside
  <2> QED
    BY <1>3, <2>1, <2>3, StillTyped DEF Upload
<1>4. ASSUME NEW o \in Objects, Delete(o) PROVE Typed'
  <2>1. /\ stored' \in [Backends -> SUBSET Objects]
        /\ \A b \in Backends : stored'[b] \subseteq stored[b]
        /\ owned' \subseteq owned /\ Used' = Used
    BY <1>1, <1>4 DEF Delete, World, Used
  <2>2. World'
    <3>1. cached' \in Backends
      BY <1>4, EntryOK DEF Delete
    <3> QED
      BY <1>1, <1>4, <2>1, <3>1 DEF Delete, World
  <2> QED
    BY <1>4, <2>1, <2>2, StillTyped DEF Delete
<1>5. CASE ChangeBackend
  <2>1. World' /\ Used' = Used
    BY <1>1, <1>5 DEF ChangeBackend, World, Used, aside, Other, Backends
  <2> QED
    BY <1>5, <2>1, StillTyped DEF ChangeBackend
<1>6. ASSUME NEW j \in Jobs, CancelMigration(j) PROVE Typed'
  <2>1. World' /\ Used' = Used
    <3>1. jobs[j].keys \subseteq Objects
      BY <1>1 DEF World
    <3>2. World'
      BY <1>1, <1>6, <3>1, QuietWorld DEF CancelMigration, World, States, Works
    <3> QED
      BY <1>6, <3>2 DEF CancelMigration, files, Used
  <2> QED
    BY <1>6, <2>1, StillTyped DEF CancelMigration
<1>7. CASE Expire
  <2>1. expiries' \in 0..MaxExpiries /\ lock' = Free
        /\ UNCHANGED <<files, jobs, running, work, faults, cached, astray, crashes>>
    BY <1>1, <1>7, MigrationAssumption DEF Expire, World
  <2>2. World' /\ Used' = Used
    BY <1>1, <2>1 DEF World, Used, files
  <2> QED
    BY <2>1, <2>2, StillTyped
<1>8. CASE Crash
  <2>1. /\ crashes' \in 0..MaxCrashes /\ lock' \in Procs \cup {Free, Orphan} /\ running' = {}
        /\ UNCHANGED <<files, jobs, faults, cached, astray, expiries>>
    BY <1>1, <1>8, MigrationAssumption DEF Crash, World
  <2>2. World' /\ Used' = Used
    BY <1>1, <2>1 DEF World, Used, files
  <2>3. work' \in [Procs -> Worker] /\ \A p \in Procs : work'[p] = Idle
    BY <1>8, IdleOK DEF Crash
  <2>4. \A p \in Procs : Ready(p, Idle, Used)
    BY IdleOK, ClearedReady
  <2>5. (\A p \in Procs : Ready(p, work[p], Used))'
    BY <2>2, <2>3, <2>4
  <2> QED
    BY <2>2, <2>3, <2>5, TypedNext
<1>9. CASE CacheEntry
  <2>1. World' /\ Used' = Used
    BY <1>1, <1>9 DEF CacheEntry, World, Used, files
  <2> QED
    BY <1>9, <2>1, StillTyped DEF CacheEntry
<1> QED
  BY <1>2, <1>3, <1>4, <1>5, <1>6, <1>7, <1>8, <1>9 DEF Outside

LEMMA NextTyped == Typed /\ [Next]_vars => Typed'
<1> SUFFICES ASSUME Typed, [Next]_vars PROVE Typed'
  OBVIOUS
<1>1. CASE UNCHANGED vars
  <2>1. World' /\ Used' = Used
    BY <1>1, TypedParts DEF vars, World, Used
  <2> QED
    BY <1>1, <2>1, StillTyped DEF vars
<1>2. ASSUME NEW p \in Procs, Run(p) PROVE Typed'
  BY <1>2, EnterTyped, CopyTyped, CleanTyped, EndTyped DEF Run
<1> QED
  BY <1>1, <1>2, StartTyped, TickTyped, OutsideTyped DEF Next, Outside

LEMMA InitTyped == Init => Typed
<1> SUFFICES ASSUME Init PROVE Typed
  OBVIOUS
<1>1. World
  <2>1. astray \in BOOLEAN
    BY DEF Init
  <2> QED
    BY <2>1, MigrationAssumption DEF Init, World, Backends, States
<1>2. work \in [Procs -> Worker] /\ \A p \in Procs : Ready(p, work[p], Used)
  <2>1. \A p \in Procs : Ready(p, Idle, Used)
    BY IdleOK, ClearedReady
  <2> QED
    BY <2>1, IdleOK DEF Init
<1> QED
  BY <1>1, <1>2, TypedParts

\* Whatever fails, restarts or expires, a run that works on a job has one, a loop
\* over the objects has an object left, and the table holds what it may hold.
THEOREM MigrationTypeCorrect == Spec => []TypeOK
<1>1. Typed => TypeOK
  BY DEF Typed
<1> QED
  BY <1>1, InitTyped, NextTyped, PTL DEF Spec

-----------------------------------------------------------------------------
(* The objects, as long as runs are regular. *)

\* A manifest that is not at work is empty.
AtWork == {"running", "completed"}
Manifests == \A j \in Jobs : jobs[j].state \notin AtWork => jobs[j].keys = {}

\* The objects of the listing that a run with the record r has copied.
Rest(r) == r.left \ {CHOOSE o \in r.left : TRUE}
Copied(r) ==
    CASE r.pc \in {"get", "put", "stat"} -> r.list \ r.left
      [] r.pc = "note" -> r.list \ Rest(r)
      [] r.pc \in {"switchRead", "switchWrite", "clean", "cleanNote"} -> r.list
      [] OTHER -> {}

\* What the run of p with the record r has reached.  It has the lock to itself; up
\* to the switch the listing has everything the user should see, or the user has
\* changed the backend meanwhile; what is copied is in the other backend, and what
\* is being cleaned is not looked for where it is cleaned.
Holds(p, r) ==
    /\ lock = p
    /\ r.pc \in {"state", "list", "resume"} => jobs[r.job].state \notin AtWork
    /\ r.pc \in {"state", "list", "resume", "mark"} => r.keys = {}
    /\ r.pc \in Copying => active = r.source \/ owned \subseteq late
    /\ r.pc \in Copying \ {"switchWrite"} => r.target = Other(r.source)
    /\ r.pc = "switchWrite" => r.target = Other(r.source) \/ owned \subseteq late
    /\ r.pc \in Copying \ {"state", "list"} => owned \ late \subseteq r.list
    /\ owned \cap Copied(r) \subseteq stored[Other(r.source)]
    /\ r.pc \in {"clean", "cleanNote"} =>
           active = Other(r.source) \/ owned \cap r.list \subseteq late

Kept == owned \subseteq stored["internal"] \cup stored["external"]
Visible == owned \ late \subseteq stored[active]

Calm ==
    /\ Manifests
    /\ \A p \in Procs : work[p].pc \in Holding => Holds(p, work[p])
    /\ Kept /\ Visible

\* A step of a goroutine that does not hold the lock, or gives up: it must leave
\* the lock of another alone.
LEMMA OthersCalm ==
  ASSUME Typed, Calm, NEW p \in Procs, Steps(p), UNCHANGED files,
         work'[p].pc \notin Holding, Manifests',
         \A q \in Procs \ {p} : lock = q => lock' = q,
         \/ work[p].pc \in Holding
         \/ \A j \in Jobs : jobs[j].state \notin AtWork => jobs'[j].state \notin AtWork
  PROVE  Calm'
<1>1. Kept' /\ Visible'
  BY DEF Calm, Kept, Visible, files
<1>2. ASSUME NEW q \in Procs, NEW r, r = work'[q], r.pc \in Holding PROVE Holds(q, r)'
  <2>1. q # p /\ r = work[q] /\ Holds(q, r) /\ r.job \in Jobs
    <3>1. q # p /\ r = work[q]
      BY <1>2 DEF Steps
    <3> QED
      BY <1>2, <3>1, TypedParts DEF Calm, Ready, Holding, Moving
  <2>2. lock = q /\ lock' = q
    BY <2>1 DEF Holds
  <2>3. work[p].pc \notin Holding
    BY <2>1, <2>2 DEF Calm, Holds
  <2> HIDE DEF Holding
  <2> QED
    BY <2>1, <2>2, <2>3 DEF Holds, files
<1>3. (\A q \in Procs : work[q].pc \in Holding => Holds(q, work[q]))'
  <2> SUFFICES ASSUME NEW q \in Procs, work'[q].pc \in Holding PROVE Holds(q, work[q])'
    OBVIOUS
  <2>1. PICK r : r = work'[q]
    OBVIOUS
  <2>2. Holds(q, r)'
    BY <1>2, <2>1
  <2> QED
    BY <2>1, <2>2 DEF Holds
<1> QED
  BY <1>1, <1>3 DEF Calm

\* A step of the goroutine that holds the lock, or takes it.
LEMMA HolderCalm ==
  ASSUME Typed, Calm, NEW p \in Procs, lock \in {p, Free}, Steps(p),
         NEW r, work'[p] = r, r.pc \in Holding => Holds(p, r)',
         Manifests', Kept', Visible'
  PROVE  Calm'
<1>1. \A q \in Procs \ {p} : work'[q].pc \notin Holding
  BY MigrationAssumption DEF Calm, Holds, Steps, Procs
<1>2. (\A q \in Procs : work[q].pc \in Holding => Holds(q, work[q]))'
  <2> SUFFICES ASSUME NEW q \in Procs, work'[q].pc \in Holding PROVE Holds(q, work[q])'
    OBVIOUS
  <2>1. q = p /\ Holds(p, r)'
    BY <1>1
  <2> QED
    BY <2>1 DEF Holds
<1> QED
  BY <1>2 DEF Calm

\* A step of the user or of Redis.
LEMMA StillCalm ==
  ASSUME Typed, Calm, UNCHANGED work, Manifests', Kept', Visible',
         \A p \in Procs : work[p].pc \in Holding =>
             \A r : r = work[p] /\ Holds(p, r) => Holds(p, r)'
  PROVE  Calm'
<1>1. (\A q \in Procs : work[q].pc \in Holding => Holds(q, work[q]))'
  <2> SUFFICES ASSUME NEW q \in Procs, work'[q].pc \in Holding PROVE Holds(q, work[q])'
    OBVIOUS
  <2>1. PICK r : r = work[q]
    OBVIOUS
  <2>2. Holds(q, r) /\ work'[q] = r
    BY <2>1 DEF Calm
  <2>3. Holds(q, r)'
    BY <2>1, <2>2
  <2> QED
    BY <2>2, <2>3 DEF Holds
<1> QED
  BY <1>1 DEF Calm

\* A handler that ends, fails or waits for the lock, and leaves the table alone.
LEMMA AwayCalm ==
  ASSUME Typed, Calm, NEW p \in Procs, UNCHANGED <<files, jobs, lock>>,
         Steps(p), work'[p].pc \notin Holding
  PROVE  Calm'
<1>1. Manifests'
  BY DEF Calm, Manifests
<1> QED
  BY <1>1, OthersCalm

LEMMA StopCalm ==
  ASSUME Typed, Calm, NEW p \in Procs, UNCHANGED <<files, jobs, lock>>,
         Return(p) \/ Stop(p, "fail") \/ Stop(p, "unlock") \/ Stop(p, "leave")
  PROVE  Calm'
<1>1. Steps(p) /\ work'[p].pc \in {"idle", "next", "fail", "unlock", "leave"}
  BY ReturnRec, StopRec DEF Labels, Moving
<1>2. work'[p].pc \notin Holding
  BY <1>1 DEF Holding, Copying
<1> QED
  BY <1>1, <1>2, AwayCalm

\* The manifest of a job is written.
LEMMA ManifestsOK ==
  ASSUME Typed, Calm, NEW j \in Jobs, NEW s \in States, NEW k \in SUBSET Objects,
         UpdateMigration(j, s, k), s \in AtWork \/ k = {}
  PROVE  Manifests' /\ (s \notin AtWork =>
                           \A i \in Jobs : jobs[i].state \notin AtWork => jobs'[i].state \notin AtWork)
BY UpdateJobs DEF Calm, Manifests

LEMMA StartCalm == ASSUME Typed, Calm, NEW p \in Requests, Start(p) PROVE Calm'
<1> USE DEF aside
<1>1. p \in Procs
  BY DEF Procs
<1>2. ASSUME NEW l \in {"resolve", "insert"}, Goto(p, l)
      PROVE  Steps(p) /\ work'[p].pc \notin Holding
  BY <1>1, <1>2, GotoRec DEF Labels, Holding, Copying
<1>3. CASE StartStorageMigration(p)
  <2> DEFINE r == [Idle EXCEPT !.pc = "check", !.target = Other(active)]
  <2>1. r \in Worker /\ r.pc = "check"
    BY IdleOK, TypedParts DEF Worker, Labels, World, Other, Backends
  <2>2. Move(p, r) /\ UNCHANGED <<files, jobs, lock>>
    BY <1>3 DEF StartStorageMigration
  <2> HIDE DEF r
  <2>3. Steps(p) /\ work'[p].pc \notin Holding
    BY <1>1, <2>1, <2>2, MoveRec DEF Holding, Copying
  <2> QED
    BY <1>1, <2>2, <2>3, AwayCalm
<1>4. CASE Check(p)
  BY <1>1, <1>2, <1>4, AwayCalm, StopCalm DEF Check
<1>5. CASE Count(p)
  BY <1>1, <1>2, <1>5, AwayCalm, StopCalm DEF Count
<1>6. CASE Insert(p)
  <2>1. ASSUME NEW j \in Jobs, jobs[j].state = "none", UpdateMigration(j, "pending", {}),
               Move(p, [work[p] EXCEPT !.pc = "enter", !.job = j])
        PROVE  Calm'
    <3> DEFINE r == [work[p] EXCEPT !.pc = "enter", !.job = j]
    <3>1. r \in Worker /\ r.pc = "enter" /\ Move(p, r)
      BY <1>1, <2>1, TypedParts DEF Worker, Labels
    <3> HIDE DEF r
    <3>2. Steps(p) /\ work'[p].pc \notin Holding
      BY <1>1, <3>1, MoveRec DEF Holding, Copying
    <3>3. Manifests' /\ \A i \in Jobs : jobs[i].state \notin AtWork => jobs'[i].state \notin AtWork
      BY <2>1, ManifestsOK DEF States, AtWork
    <3> QED
      BY <1>1, <1>6, <3>2, <3>3, OthersCalm DEF Insert
  <2>2. ASSUME Return(p), UNCHANGED jobs PROVE Calm'
    BY <1>1, <1>6, <2>2, StopCalm DEF Insert
  <2> QED
    BY <1>6, <2>1, <2>2 DEF Insert
<1>7. CASE Disconnect(p)
  BY <1>1, <1>7, StopCalm DEF Disconnect
<1> QED
  BY <1>3, <1>4, <1>5, <1>6, <1>7 DEF Start

LEMMA TickCalm == ASSUME Typed, Calm, ListPendingMigrations \/ NextJob PROVE Calm'
<1>1. /\ Tick \in Procs /\ UNCHANGED <<files, jobs, lock>> /\ World
      /\ work \in [Procs -> Worker] /\ work' \in [Procs -> Worker]
  <2>1. Typed'
    BY TickTyped
  <2> QED
    BY <2>1, TypedParts DEF Procs, ListPendingMigrations, NextJob, Typed, TypeOK
<1>2. PICK r : Move(Tick, r) /\ r.pc \in {"idle", "next", "resolve"}
  <2>1. ASSUME NEW q, Move(Tick, [Idle EXCEPT !.pc = "next", !.queue = q])
        PROVE  \E r : Move(Tick, r) /\ r.pc \in {"idle", "next", "resolve"}
    <3> DEFINE r == [Idle EXCEPT !.pc = "next", !.queue = q]
    <3>1. Move(Tick, r) /\ r.pc = "next"
      BY <2>1 DEF Idle
    <3> HIDE DEF r
    <3> QED
      BY <3>1
  <2>2. ASSUME NEW j, NEW t, NEW q,
               Move(Tick, [Idle EXCEPT !.pc = "resolve", !.job = j, !.target = t, !.queue = q])
        PROVE  \E r : Move(Tick, r) /\ r.pc \in {"idle", "next", "resolve"}
    <3> DEFINE r == [Idle EXCEPT !.pc = "resolve", !.job = j, !.target = t, !.queue = q]
    <3>1. Move(Tick, r) /\ r.pc = "resolve"
      BY <2>2 DEF Idle
    <3> HIDE DEF r
    <3> QED
      BY <3>1
  <2>3. CASE Move(Tick, Idle)
    BY <2>3, IdleOK
  <2>4. CASE ListPendingMigrations
    BY <2>1, <2>4 DEF ListPendingMigrations
  <2>5. CASE NextJob
    BY <2>1, <2>2, <2>3, <2>5 DEF NextJob
  <2> QED
    BY <2>4, <2>5
<1>3. Steps(Tick) /\ work'[Tick] = r
  BY <1>1, <1>2 DEF Move, Steps
<1> QED
  BY <1>1, <1>2, <1>3, AwayCalm DEF Holding, Copying

LEMMA CopiedAt ==
  ASSUME NEW r
  PROVE  /\ r.pc \in {"state", "list", "resume", "mark", "complete"} => Copied(r) = {}
         /\ r.pc \in {"get", "put", "stat"} => Copied(r) = r.list \ r.left
         /\ r.pc = "note" => Copied(r) = r.list \ Rest(r)
         /\ r.pc \in {"switchRead", "switchWrite", "clean", "cleanNote"} => Copied(r) = r.list
BY DEF Copied

\* What the holder has, at each of its steps.
LEMMA HolderFacts ==
  ASSUME Typed, Calm, NEW p \in Procs, work[p].pc \in Holding
  PROVE  /\ Holds(p, work[p]) /\ lock = p /\ Ready(p, work[p], Used) /\ work[p] \in Worker
         /\ work[p].job \in Jobs /\ World
<1>1. Ready(p, work[p], Used) /\ work[p] \in Worker /\ World /\ Holds(p, work[p])
  BY TypedParts DEF Calm
<1>2. work[p].pc \in Moving
  BY DEF Holding, Moving
<1> QED
  BY <1>1, <1>2 DEF Ready, Holds

\* The lock is taken by a run that is still due.
LEMMA LockCalm ==
  ASSUME Typed, Calm, NEW p \in Procs, TryLock(p), work'[p].pc = "state" => Current(p)
  PROVE  Calm'
<1>1. At(p, "lock") /\ UNCHANGED <<files, jobs, running>> /\ Typed
  BY DEF TryLock
<1>2. CASE Stop(p, "fail") /\ (lock' = lock \/ (lock = Free /\ lock' = Orphan))
  <2>1. Steps(p) /\ work'[p].pc \notin Holding
    BY <1>2, StopRec DEF Labels, Moving, Holding, Copying
  <2>2. Manifests' /\ \A q \in Procs \ {p} : lock = q => lock' = q
    BY <1>1, <1>2, MigrationAssumption DEF Calm, Manifests, Procs
  <2> QED
    BY <1>1, <2>1, <2>2, OthersCalm
<1>3. CASE lock = Free /\ lock' = p /\ Goto(p, "state")
  <2>1. PICK n : n = work'[p]
    OBVIOUS
  <2>2. /\ Steps(p) /\ n.pc = "state" /\ n.job = work[p].job /\ n.source = work[p].source
        /\ n.target = work[p].target /\ n.keys = work[p].keys
    BY <1>3, <2>1, GotoRec DEF Labels, Moving, Copying
  <2>3. n.keys = {} /\ n.source = active /\ n.target = Other(active)
        /\ jobs[n.job].state \notin AtWork
    BY <1>1, <2>1, <2>2, TypedParts DEF Current, Ready, At, AtWork, Holding, Copying
  <2>4. Holds(p, n)'
    BY <1>1, <1>3, <2>2, <2>3, CopiedAt DEF Holds, files
  <2>5. Manifests' /\ Kept' /\ Visible'
    BY <1>1 DEF Calm, Manifests, Kept, Visible, files
  <2> QED
    BY <1>3, <2>1, <2>2, <2>4, <2>5, HolderCalm
<1> QED
  BY <1>2, <1>3 DEF TryLock

LEMMA EnterCalm ==
  ASSUME Typed, Calm, NEW p \in Procs,
         \/ Resolve(p) \/ ResolveByType(p) \/ Enter(p) \/ CheckCancelled(p)
         \/ ListObjects(p) \/ Resume(p)
  PROVE  Calm'
<1>1. UNCHANGED <<files, jobs, lock>> /\ work[p] \in Worker
  BY TypedParts DEF Resolve, ResolveByType, Enter, CheckCancelled, ListObjects, Resume
<1>2. Manifests' /\ Kept' /\ Visible'
  BY <1>1 DEF Calm, Manifests, Kept, Visible, files
<1>3. CASE Resolve(p)
  <2>1. ASSUME NEW b \in Backends, Move(p, [work[p] EXCEPT !.source = b, !.pc = "target"])
        PROVE  Calm'
    <3> DEFINE r == [work[p] EXCEPT !.source = b, !.pc = "target"]
    <3>1. r \in Worker /\ r.pc = "target" /\ Move(p, r)
      BY <1>1, <2>1 DEF Worker, Labels
    <3> HIDE DEF r
    <3>2. Steps(p) /\ work'[p].pc \notin Holding
      BY <3>1, MoveRec DEF Holding, Copying
    <3> QED
      BY <1>1, <3>2, AwayCalm
  <2> QED
    BY <1>1, <1>3, <2>1, StopCalm DEF Resolve
<1>9. CASE ResolveByType(p)
  <2>1. Return(p) \/ Goto(p, "enter") \/ Goto(p, "count")
    BY <1>9 DEF ResolveByType
  <2>2. Goto(p, "enter") \/ Goto(p, "count") => Steps(p) /\ work'[p].pc \notin Holding
    BY GotoRec DEF Labels, Holding, Copying
  <2> QED
    BY <1>1, <2>1, <2>2, AwayCalm, StopCalm
<1>4. CASE Enter(p)
  <2>1. Goto(p, "lock") => Steps(p) /\ work'[p].pc \notin Holding
    BY GotoRec DEF Labels, Holding, Copying
  <2> QED
    BY <1>1, <1>4, <2>1, AwayCalm, StopCalm DEF Enter
<1>5. ASSUME NEW n, n = work'[p], Steps(p), work[p].pc \in {"state", "list", "resume"},
             \/ n.pc \in {"list", "resume"} /\ n.keys = work[p].keys
             \/ n.pc = "mark" /\ n.keys = {},
             n.pc # "list" => owned \ late \subseteq n.list,
             n.job = work[p].job, n.source = work[p].source, n.target = work[p].target
      PROVE  Calm'
  <2>1. work[p].pc \in Holding /\ work[p].pc \in Copying \ {"switchWrite"} /\ n.pc \in Copying
    BY <1>5 DEF Holding, Copying
  <2>2. PICK r : r = work[p]
    OBVIOUS
  <2>3. Holds(p, r) /\ lock = p
    BY <2>1, <2>2, HolderFacts
  <2>4. Holds(p, n)'
    BY <1>1, <1>5, <2>1, <2>2, <2>3, CopiedAt DEF Holds, files
  <2> QED
    BY <1>2, <1>5, <2>3, <2>4, HolderCalm
<1>6. CASE CheckCancelled(p)
  <2>1. CASE Goto(p, "list")
    <3> DEFINE n == work'[p]
    <3>1. /\ Steps(p) /\ n.pc = "list" /\ n.keys = work[p].keys /\ n.job = work[p].job
          /\ n.source = work[p].source /\ n.target = work[p].target
      BY <1>6, <2>1, GotoRec DEF Labels, Moving, Copying
    <3>2. work[p].pc = "state"
      BY <1>6 DEF CheckCancelled, At
    <3> QED
      BY <1>5, <3>1, <3>2
  <2> QED
    BY <1>1, <1>6, <2>1, StopCalm DEF CheckCancelled
<1>7. CASE ListObjects(p)
  <2>1. CASE Move(p, [work[p] EXCEPT !.pc = "resume", !.list = stored[work[p].source]])
    <3> DEFINE n == [work[p] EXCEPT !.pc = "resume", !.list = stored[work[p].source]]
    <3>1. At(p, "list") /\ work[p].pc \in Holding
      BY <1>7 DEF ListObjects, At, Holding, Copying
    <3>2. stored[work[p].source] \subseteq Objects
      BY <1>1, TypedParts DEF World, Worker
    <3>3. /\ n \in Worker /\ n.pc = "resume" /\ n.list = stored[work[p].source]
          /\ n.keys = work[p].keys /\ n.job = work[p].job /\ n.source = work[p].source
          /\ n.target = work[p].target /\ Move(p, n)
      BY <1>1, <2>1, <3>2 DEF Worker, Labels, Moving, Copying
    <3> HIDE DEF n
    <3>4. owned \ late \subseteq n.list
      BY <3>1, <3>3, HolderFacts DEF Holds, Copying, At, Calm, Visible
    <3> QED
      BY <1>5, <3>1, <3>3, <3>4, MoveRec DEF At
  <2> QED
    BY <1>1, <1>7, <2>1, StopCalm DEF ListObjects
<1>8. CASE Resume(p)
  <2>1. At(p, "resume") /\ work[p].pc \in Holding
    BY <1>8 DEF Resume, At, Holding, Copying
  <2>2. /\ work[p].keys = {} /\ owned \ late \subseteq work[p].list /\ work[p].job \in Jobs
        /\ jobs[work[p].job].keys = {}
    BY <2>1, HolderFacts DEF Holds, At, Copying, Calm, Manifests
  <2>3. CASE Goto(p, "mark")
    BY <1>5, <2>1, <2>2, <2>3, GotoRec DEF At, Labels, Moving, Copying
  <2>4. CASE Move(p, [work[p] EXCEPT !.pc = "mark", !.keys = {}])
    <3> DEFINE n == [work[p] EXCEPT !.pc = "mark", !.keys = {}]
    <3>1. /\ n \in Worker /\ n.pc = "mark" /\ n.list = work[p].list
          /\ n.keys = {} /\ n.job = work[p].job /\ n.source = work[p].source
          /\ n.target = work[p].target /\ Move(p, n)
      BY <1>1, <2>4 DEF Worker, Labels, Moving, Copying
    <3> HIDE DEF n
    <3> QED
      BY <1>5, <2>1, <2>2, <3>1, MoveRec DEF At
  <2>5. (IF Readable(work[p].job) THEN jobs[work[p].job].keys ELSE {}) = {}
    BY <2>2
  <2> QED
    BY <1>8, <2>3, <2>4, <2>5 DEF Resume
<1> QED
  BY <1>3, <1>4, <1>6, <1>7, <1>8, <1>9

\* The copying starts with the whole listing: a job that is due has no manifest.
LEMMA MarkCalm == ASSUME Typed, Calm, NEW p \in Procs, MarkRunning(p) PROVE Calm'
<1>1. UNCHANGED <<files, lock, running, aside>> /\ At(p, "mark") /\ work[p].pc \in Holding
  BY DEF MarkRunning, At, Holding, Copying
<1>2. PICK r : r = work[p]
  OBVIOUS
<1>3. /\ r \in Worker /\ Holds(p, r) /\ lock = p /\ r.job \in Jobs /\ r.pc = "mark"
      /\ r.keys = {} /\ r.list \subseteq Objects
  BY <1>1, <1>2, HolderFacts DEF Holds, At, Worker
<1>4. ToCopy(p) = r.list
  BY <1>2, <1>3 DEF ToCopy
<1> DEFINE n == [r EXCEPT !.pc = CopyNext(r.list), !.left = r.list]
<1>5. /\ n \in Worker /\ n.pc = CopyNext(r.list) /\ n.left = r.list /\ n.list = r.list
      /\ n.job = r.job /\ n.source = r.source /\ n.target = r.target /\ Move(p, n)
  BY <1>1, <1>2, <1>3, <1>4, NextLabel DEF MarkRunning, Worker, Labels, Moving, Copying
<1> HIDE DEF n
<1>6. Steps(p) /\ work'[p] = n
  BY <1>5, MoveRec
<1>7. n.pc \in {"get", "switchRead"} /\ Copied(n) = {}
  BY <1>5, NextLabel, CopiedAt DEF CopyNext
<1>8. Manifests'
  BY <1>1, <1>2, <1>3, ManifestsOK DEF MarkRunning, Calm, Manifests, AtWork, States
<1>9. Kept' /\ Visible'
  BY <1>1 DEF Calm, Kept, Visible, files
<1>10. Holds(p, n)'
  BY <1>1, <1>3, <1>5, <1>7 DEF Holds, files, Copying
<1> QED
  BY <1>3, <1>6, <1>8, <1>9, <1>10, HolderCalm

LEMMA BothBackends ==
  ASSUME NEW b \in Backends
  PROVE  /\ Other(b) \in Backends /\ Other(b) # b
         /\ \A s : s["internal"] \cup s["external"] = s[b] \cup s[Other(b)]
BY DEF Backends, Other

\* One object after the other.
LEMMA CopyCalm ==
  ASSUME Typed, Calm, NEW p \in Procs,
         GetObject(p) \/ PutObject(p) \/ StatObject(p) \/ NoteVerified(p)
  PROVE  Calm'
<1>1. /\ UNCHANGED <<active, owned, url, late, lock>> /\ work[p].pc \in {"get", "put", "stat", "note"}
  BY DEF GetObject, PutObject, StatObject, NoteVerified, At, files
<1>2. PICK r : r = work[p]
  OBVIOUS
<1>3. /\ r \in Worker /\ Holds(p, r) /\ lock = p /\ r.job \in Jobs /\ World
      /\ r.pc \in {"get", "put", "stat", "note"} /\ r.target = Other(r.source)
      /\ r.source \in Backends /\ r.keys \subseteq Objects
  <2>1. work[p].pc \in Holding /\ work[p].pc \in Copying \ {"switchWrite"}
    BY <1>1 DEF Holding, Copying
  <2> QED
    BY <1>1, <1>2, <2>1, HolderFacts DEF Holds, Worker
<1>4. Object(p) \in Objects /\ Object(p) \in r.list /\ Later(p) = Rest(r) /\ Object(p) \in r.left
      /\ r.left \ {Object(p)} = Rest(r)
  BY <1>1, <1>2, ObjectOK DEF Looping, Later, Rest, Object
\* The holder goes on: what matters is what it has copied.
<1>5. ASSUME NEW n, n = work'[p], Steps(p), n.pc \in {"get", "put", "stat", "note", "switchRead"},
             n.list = r.list, n.source = r.source, n.target = r.target, Manifests',
             stored' = stored \/ stored' = [stored EXCEPT ![r.target] = @ \cup {Object(p)}],
             owned \cap Copied(n) \subseteq stored'[Other(r.source)]
      PROVE  Calm'
  <2>1. \A b \in Backends : stored[b] \subseteq stored'[b]
    BY <1>3, <1>5 DEF World
  <2>2. Kept' /\ Visible'
    BY <1>1, <1>3, <2>1 DEF Calm, Kept, Visible, World, Backends
  <2>3. Holds(p, n)'
    BY <1>1, <1>3, <1>5 DEF Holds, Copying
  <2> QED
    BY <1>3, <1>5, <2>2, <2>3, HolderCalm
<1>6. ASSUME UNCHANGED jobs PROVE Manifests'
  BY <1>6 DEF Calm, Manifests
<1>7. CASE GetObject(p)
  <2>1. At(p, "get") /\ UNCHANGED <<files, jobs, lock>>
    BY <1>7 DEF GetObject
  <2>2. CASE Goto(p, "put")
    <3>1. PICK n : n = work'[p]
      OBVIOUS
    <3>2. /\ Steps(p) /\ n.pc = "put" /\ n.list = r.list /\ n.left = r.left
          /\ n.source = r.source /\ n.target = r.target
      BY <1>2, <2>2, <3>1, GotoRec DEF Labels, Moving, Copying
    <3>3. owned \cap Copied(n) \subseteq stored'[Other(r.source)]
      BY <1>2, <1>3, <2>1, <3>2, CopiedAt DEF Holds, At, files
    <3> QED
      BY <1>5, <1>6, <2>1, <3>1, <3>2, <3>3 DEF files
  <2> QED
    BY <1>7, <2>1, <2>2, StopCalm DEF GetObject
<1>8. CASE PutObject(p)
  <2>1. At(p, "put") /\ UNCHANGED <<active, owned, url, late, jobs, lock, running, aside>>
    BY <1>8 DEF PutObject
  <2>2. CASE stored' = [stored EXCEPT ![r.target] = @ \cup {Object(p)}] /\ Goto(p, "stat")
    <3>1. PICK n : n = work'[p]
      OBVIOUS
    <3>2. /\ Steps(p) /\ n.pc = "stat" /\ n.list = r.list /\ n.left = r.left
          /\ n.source = r.source /\ n.target = r.target
      BY <1>2, <2>2, <3>1, GotoRec DEF Labels, Moving, Copying
    <3>3. Copied(n) = Copied(r)
      BY <1>2, <2>1, <3>2, CopiedAt DEF At
    <3>4. owned \cap Copied(n) \subseteq stored'[Other(r.source)]
      BY <1>3, <2>2, <3>3 DEF Holds, World
    <3> QED
      BY <1>5, <1>6, <2>1, <2>2, <3>1, <3>2, <3>4
  <2>3. CASE Stop(p, "fail") /\ (stored' = stored \/ stored' = [stored EXCEPT ![r.target] = @ \cup {Object(p)}])
    <3>1. \A b \in Backends : stored[b] \subseteq stored'[b]
      BY <1>3, <2>3 DEF World
    <3>2. Kept' /\ Visible' /\ Manifests'
      BY <1>1, <1>3, <1>6, <2>1, <3>1 DEF Calm, Kept, Visible, World, Backends
    <3>3. Steps(p) /\ work'[p].pc \notin Holding
      BY <2>3, StopRec DEF Labels, Moving, Holding, Copying
    <3> QED
      BY <1>3, <3>2, <3>3, HolderCalm
  <2> QED
    BY <1>2, <1>8, <2>2, <2>3 DEF PutObject
<1>9. CASE StatObject(p)
  <2>1. At(p, "stat") /\ UNCHANGED <<files, jobs, lock>>
    BY <1>9 DEF StatObject
  <2>2. CASE Object(p) \in stored[r.target] /\ Goto(p, "note")
    <3>1. PICK n : n = work'[p]
      OBVIOUS
    <3>2. /\ Steps(p) /\ n.pc = "note" /\ n.list = r.list /\ n.left = r.left
          /\ n.source = r.source /\ n.target = r.target
      BY <1>2, <2>2, <3>1, GotoRec DEF Labels, Moving, Copying
    <3>3. Copied(n) \subseteq Copied(r) \cup {Object(p)}
      <4>1. Copied(r) = r.list \ r.left /\ Copied(n) = r.list \ Rest(n)
        BY <1>2, <2>1, <3>2, CopiedAt DEF At
      <4>2. Rest(n) = Rest(r)
        BY <3>2 DEF Rest
      <4> QED
        BY <1>4, <4>1, <4>2
    <3>4. owned \cap Copied(n) \subseteq stored'[Other(r.source)]
      BY <1>3, <2>1, <2>2, <3>3 DEF Holds, files
    <3> QED
      BY <1>5, <1>6, <2>1, <3>1, <3>2, <3>4 DEF files
  <2> QED
    BY <1>2, <1>9, <2>1, <2>2, StopCalm DEF StatObject
<1>10. CASE NoteVerified(p)
  <2> DEFINE keys == r.keys \cup {Object(p)}
             n == [r EXCEPT !.pc = CopyNext(Later(p)), !.left = Later(p), !.keys = keys]
  <2>1. At(p, "note") /\ UNCHANGED <<files, lock>> /\ keys \subseteq Objects
    BY <1>3, <1>4, <1>10 DEF NoteVerified
  <2>2. CASE UpdateMigration(r.job, "running", keys) /\ Move(p, n)
    <3>1. Later(p) \subseteq Objects
      BY <1>2, <1>3, ObjectOK DEF Later, Worker
    <3>2. /\ n \in Worker /\ n.pc = CopyNext(Later(p)) /\ n.left = Later(p) /\ n.list = r.list
          /\ n.source = r.source /\ n.target = r.target
      BY <1>3, <2>1, <3>1, NextLabel DEF Worker, Labels, Moving, Copying
    <3>3. Manifests'
      BY <1>3, <2>1, <2>2, ManifestsOK DEF AtWork, States
    <3> HIDE DEF n, keys
    <3>4. Steps(p) /\ work'[p] = n
      BY <2>2, <3>2, MoveRec
    <3>5. n.pc \in {"get", "switchRead"} /\ (n.pc = "switchRead" => n.left = {})
      BY <3>2, NextLabel DEF CopyNext
    <3>6. Copied(n) = Copied(r)
      BY <1>2, <1>4, <2>1, <3>2, <3>5, CopiedAt DEF At
    <3>7. owned \cap Copied(n) \subseteq stored'[Other(r.source)]
      BY <1>3, <2>1, <3>6 DEF Holds, files
    <3> QED
      BY <1>5, <2>1, <3>2, <3>3, <3>4, <3>5, <3>7 DEF files
  <2> QED
    BY <1>2, <1>10, <2>1, <2>2, StopCalm DEF NoteVerified
<1> QED
  BY <1>7, <1>8, <1>9, <1>10

\* The switch: everything the user should see is in the backend it names.
LEMMA SwitchCalm ==
  ASSUME Typed, Calm, NEW p \in Procs, SwitchRead(p) \/ SwitchWrite(p) PROVE Calm'
<1>1. /\ UNCHANGED <<stored, owned, url, late, jobs, lock>>
      /\ work[p].pc \in {"switchRead", "switchWrite"}
  BY DEF SwitchRead, SwitchWrite, At, files
<1>2. PICK r : r = work[p]
  OBVIOUS
<1>3. /\ r \in Worker /\ Holds(p, r) /\ lock = p /\ World /\ r.source \in Backends
      /\ r.list \subseteq Objects /\ r.pc \in {"switchRead", "switchWrite"}
      /\ owned \ late \subseteq r.list /\ owned \cap r.list \subseteq stored[Other(r.source)]
      /\ active = r.source \/ owned \subseteq late
  <2>1. work[p].pc \in Holding /\ work[p].pc \in Copying \ {"state", "list"}
    BY <1>1 DEF Holding, Copying
  <2> QED
    BY <1>1, <1>2, <2>1, HolderFacts, CopiedAt DEF Holds, Worker
<1>4. Manifests' /\ Kept'
  BY <1>1 DEF Calm, Manifests, Kept
<1>5. CASE SwitchRead(p)
  <2>1. At(p, "switchRead") /\ UNCHANGED <<files, jobs, lock>>
    BY <1>5 DEF SwitchRead
  <2>2. CASE Move(p, [work[p] EXCEPT !.pc = "switchWrite", !.target = Other(active)])
    <3>1. PICK t : t = Other(active)
      OBVIOUS
    <3> DEFINE n == [r EXCEPT !.pc = "switchWrite", !.target = t]
    <3>2. t \in Backends
      BY <1>3, <3>1, BothBackends DEF World
    <3>3. /\ n \in Worker /\ n.pc = "switchWrite" /\ n.target = t /\ n.list = r.list
          /\ n.source = r.source /\ Move(p, n)
      BY <1>2, <1>3, <2>2, <3>1, <3>2 DEF Worker, Labels, Moving, Copying
    <3> HIDE DEF n
    <3>4. Steps(p) /\ work'[p] = n
      BY <3>3, MoveRec
    <3>5. Copied(n) = r.list
      BY <3>3, CopiedAt
    <3>6. Holds(p, n)'
      BY <1>3, <2>1, <3>1, <3>3, <3>5 DEF Holds, files, Copying
    <3>7. Visible'
      BY <2>1 DEF Calm, Visible, files
    <3> QED
      BY <1>3, <1>4, <3>4, <3>6, <3>7, HolderCalm
  <2> QED
    BY <1>5, <2>1, <2>2, StopCalm DEF SwitchRead
<1>6. CASE SwitchWrite(p)
  <2>1. r.pc = "switchWrite" /\ (r.target = Other(r.source) \/ owned \subseteq late)
    BY <1>2, <1>3, <1>6 DEF SwitchWrite, At, Holds
  <2>2. active' = active \/ active' = r.target
    BY <1>2, <1>6 DEF SwitchWrite
  <2>3. Visible'
    BY <1>1, <1>3, <2>1, <2>2 DEF Calm, Visible
  <2>4. CASE active' = r.target /\ StartCleaning(p)
    <3> DEFINE n == [r EXCEPT !.pc = CleanNext(r.list), !.left = r.list]
    <3>1. /\ n \in Worker /\ n.pc = CleanNext(r.list) /\ n.list = r.list
          /\ n.source = r.source /\ Move(p, n)
      BY <1>2, <1>3, <2>4, NextLabel DEF StartCleaning, Worker, Labels, Moving
    <3> HIDE DEF n
    <3>2. Steps(p) /\ work'[p] = n /\ n.pc \in {"clean", "complete"}
      BY <3>1, NextLabel, MoveRec
    <3>3. Copied(n) \subseteq r.list
      BY <3>1, <3>2, CopiedAt
    <3>4. Holds(p, n)'
      BY <1>1, <1>3, <2>1, <2>4, <3>1, <3>2, <3>3 DEF Holds, Copying
    <3> QED
      BY <1>3, <1>4, <2>3, <3>2, <3>4, HolderCalm
  <2>5. CASE Stop(p, "fail")
    <3>1. Steps(p) /\ work'[p].pc \notin Holding
      BY <2>5, StopRec DEF Labels, Moving, Holding, Copying
    <3> QED
      BY <1>3, <1>4, <2>3, <3>1, HolderCalm
  <2> QED
    BY <1>2, <1>6, <2>4, <2>5 DEF SwitchWrite
<1> QED
  BY <1>5, <1>6

\* The cleaning takes from the old backend what is in the new one.
LEMMA CleanCalm ==
  ASSUME Typed, Calm, NEW p \in Procs, DeleteObject(p) \/ NoteDeleted(p) \/ Complete(p)
  PROVE  Calm'
<1>1. /\ UNCHANGED <<active, owned, url, late, lock>>
      /\ work[p].pc \in {"clean", "cleanNote", "complete"}
  BY DEF DeleteObject, NoteDeleted, Complete, At, files
<1>2. PICK r : r = work[p]
  OBVIOUS
<1>3. /\ r \in Worker /\ Holds(p, r) /\ lock = p /\ World /\ r.source \in Backends
      /\ r.job \in Jobs /\ r.keys \subseteq Objects /\ r.list \subseteq Objects
      /\ r.pc \in {"clean", "cleanNote", "complete"}
  BY <1>1, <1>2, HolderFacts DEF Worker, Holding
<1>4. CASE DeleteObject(p)
  <2>1. PICK o : o = Object(p)
    OBVIOUS
  <2>2. /\ r.pc = "clean" /\ o \in r.list /\ UNCHANGED jobs
        /\ stored' = stored \/ stored' = [stored EXCEPT ![r.source] = @ \ {o}]
        /\ Goto(p, "cleanNote") \/ Stop(p, "fail")
    BY <1>2, <1>4, <2>1, ObjectOK DEF DeleteObject, At, Looping
  <2>3. /\ owned \cap r.list \subseteq stored[Other(r.source)]
        /\ active = Other(r.source) \/ owned \cap r.list \subseteq late
    BY <1>3, <2>2, CopiedAt DEF Holds
  <2>4. /\ stored'[Other(r.source)] = stored[Other(r.source)]
        /\ stored[r.source] \ {o} \subseteq stored'[r.source]
    BY <1>3, <2>2, BothBackends DEF World
  <2>5. Kept'
    <3>1. owned \subseteq stored[r.source] \cup stored[Other(r.source)]
      BY <1>3, BothBackends DEF Calm, Kept
    <3>2. owned' \subseteq stored'[r.source] \cup stored'[Other(r.source)]
      BY <1>1, <2>2, <2>3, <2>4, <3>1
    <3> QED
      BY <1>3, <3>2, BothBackends DEF Kept
  <2>6. Visible'
    <3>1. active = r.source \/ active = Other(r.source)
      BY <1>3 DEF World, Backends, Other
    <3>2. owned \ late \subseteq stored[active]
      BY DEF Calm, Visible
    <3> QED
      BY <1>1, <2>2, <2>3, <2>4, <3>1, <3>2 DEF Visible
  <2>7. Manifests'
    BY <2>2 DEF Calm, Manifests
  <2>8. CASE Stop(p, "fail")
    <3>1. Steps(p) /\ work'[p].pc \notin Holding
      BY <2>8, StopRec DEF Labels, Moving, Holding, Copying
    <3> QED
      BY <1>3, <2>5, <2>6, <2>7, <3>1, HolderCalm
  <2>9. CASE Goto(p, "cleanNote")
    <3>1. PICK n : n = work'[p]
      OBVIOUS
    <3>2. Steps(p) /\ n.pc = "cleanNote" /\ n.list = r.list /\ n.source = r.source
      BY <1>2, <2>9, <3>1, GotoRec DEF Labels, Moving
    <3>3. Holds(p, n)'
      BY <1>1, <1>3, <2>3, <2>4, <3>2, CopiedAt DEF Holds, Copying
    <3> QED
      BY <1>3, <2>5, <2>6, <2>7, <3>1, <3>2, <3>3, HolderCalm
  <2> QED
    BY <2>2, <2>8, <2>9
<1>5. CASE NoteDeleted(p)
  <2>1. r.pc = "cleanNote" /\ UNCHANGED <<files, lock>>
    BY <1>2, <1>5 DEF NoteDeleted, At
  <2>2. PICK left : left = Later(p)
    OBVIOUS
  <2>3. left \subseteq r.list
    BY <1>2, <1>3, <2>1, <2>2, ObjectOK, HolderFacts DEF Looping, Ready, Holding
  <2>4. Kept' /\ Visible'
    BY <2>1 DEF Calm, Kept, Visible, files
  <2>5. CASE /\ UpdateMigration(r.job, "running", r.keys)
             /\ Move(p, [r EXCEPT !.pc = CleanNext(left), !.left = left])
    <3> DEFINE n == [r EXCEPT !.pc = CleanNext(left), !.left = left]
    <3>1. /\ n \in Worker /\ n.pc = CleanNext(left) /\ n.list = r.list
          /\ n.source = r.source /\ Move(p, n)
      BY <1>3, <2>3, <2>5, NextLabel DEF Worker, Labels, Moving
    <3> HIDE DEF n
    <3>2. Steps(p) /\ work'[p] = n /\ n.pc \in {"clean", "complete"}
      BY <3>1, NextLabel, MoveRec
    <3>3. Copied(n) \subseteq r.list /\ Copied(r) = r.list
      BY <2>1, <3>1, <3>2, CopiedAt
    <3>4. Holds(p, n)'
      BY <1>3, <2>1, <3>1, <3>2, <3>3 DEF Holds, Copying, files
    <3>5. Manifests'
      BY <1>3, <2>5, ManifestsOK DEF AtWork, States
    <3> QED
      BY <1>3, <2>4, <3>2, <3>4, <3>5, HolderCalm
  <2> QED
    BY <1>2, <1>5, <2>1, <2>2, <2>5, StopCalm DEF NoteDeleted
<1>6. CASE Complete(p)
  <2>1. UNCHANGED <<files, lock>> /\ Stop(p, "unlock")
    BY <1>6 DEF Complete
  <2>2. Steps(p) /\ work'[p].pc \notin Holding
    BY <2>1, StopRec DEF Labels, Moving, Holding, Copying
  <2>3. Manifests'
    BY <1>2, <1>3, <1>6, ManifestsOK DEF Complete, Calm, Manifests, AtWork, States
  <2>4. Kept' /\ Visible'
    BY <2>1 DEF Calm, Kept, Visible, files
  <2> QED
    BY <1>3, <2>2, <2>3, <2>4, HolderCalm
<1> QED
  BY <1>4, <1>5, <1>6

\* What has failed is cleared, and a lock is given back only by its holder.
LEMMA EndCalm ==
  ASSUME Typed, Calm, NEW p \in Procs, Fail(p) \/ Unlock(p) \/ Leave(p) PROVE Calm'
<1>1. work[p].job \in Jobs /\ UNCHANGED files
  BY TypedParts DEF Fail, Unlock, Leave, At, Ready, Moving
<1>2. CASE Fail(p)
  <2>1. Steps(p) /\ work'[p].pc \notin Holding
    BY <1>2, StopRec DEF Fail, Labels, Moving, Holding, Copying
  <2>2. CASE UNCHANGED jobs
    BY <1>1, <1>2, <2>1, <2>2, AwayCalm DEF Fail
  <2>3. CASE UpdateMigration(work[p].job, "failed", {})
    <3>1. Manifests' /\ \A i \in Jobs : jobs[i].state \notin AtWork => jobs'[i].state \notin AtWork
      BY <1>1, <2>3, ManifestsOK DEF AtWork, States
    <3> QED
      BY <1>1, <1>2, <2>1, <3>1, OthersCalm DEF Fail
  <2> QED
    BY <1>2, <2>2, <2>3 DEF Fail
<1>3. CASE Unlock(p)
  <2>1. Steps(p) /\ work'[p].pc \notin Holding /\ UNCHANGED jobs
    BY <1>3, StopRec DEF Unlock, Labels, Holding, Copying
  <2>2. Manifests' /\ \A q \in Procs \ {p} : lock = q => lock' = q
    BY <1>3, <2>1 DEF Unlock, Calm, Manifests
  <2> QED
    BY <1>1, <2>1, <2>2, OthersCalm
<1>4. CASE Leave(p)
  BY <1>1, <1>4, StopCalm DEF Leave
<1> QED
  BY <1>2, <1>3, <1>4

\* The user may upload, delete and change the backend at any time.
LEMMA OutsideCalm == ASSUME Typed, Calm, Outside, expiries' = expiries PROVE Calm'
<1>1. World /\ \A p \in Procs : Ready(p, work[p], Used)
  BY TypedParts
<1>2. ASSUME UNCHANGED jobs PROVE Manifests'
  BY <1>2 DEF Calm, Manifests
\* Nothing but new objects may come to a backend; it is then late while a run copies.
<1>3. ASSUME UNCHANGED <<active, stored, owned, late, jobs, lock, work>> PROVE Calm'
  <2>1. Kept' /\ Visible'
    BY <1>3 DEF Calm, Kept, Visible
  <2>2. ASSUME NEW p \in Procs, NEW r, Holds(p, r) PROVE Holds(p, r)'
    BY <1>3, <2>2 DEF Holds
  <2> QED
    BY <1>2, <1>3, <2>1, <2>2, StillCalm
<1>4. ASSUME NEW o \in Objects, Upload(o) PROVE Calm'
  <2>1. /\ UNCHANGED <<active, jobs, lock, work>> /\ url[o] \in Backends /\ o \notin Used
        /\ owned' = owned \cup {o} /\ late \subseteq late' /\ late' \subseteq late \cup {o}
        /\ (Unseen \/ url[o] # active => o \in late')
    BY <1>1, <1>4 DEF Upload, Used, Backends
  <2>2. o \in stored'[url[o]] /\ \A b \in Backends : stored[b] \subseteq stored'[b]
    BY <1>1, <1>4, <2>1 DEF Upload, World
  <2>3. Kept'
    BY <1>1, <2>1, <2>2 DEF Calm, Kept, Backends
  <2>4. Visible'
    BY <1>1, <2>1, <2>2 DEF Calm, Visible, World
  <2>5. ASSUME NEW p \in Procs, NEW r, r = work[p], r.pc \in Holding, Holds(p, r) PROVE Holds(p, r)'
    <3>1. o \notin r.list /\ (r.pc \in Copying => o \in late')
      BY <1>1, <2>1, <2>5 DEF Ready, Unseen
    <3>2. Copied(r) \subseteq r.list /\ Other(r.source) \in Backends
      BY <2>5, TypedParts, BothBackends DEF Copied, Worker
    <3>3. owned' \cap Copied(r) \subseteq stored'[Other(r.source)]
      BY <2>1, <2>2, <2>5, <3>1, <3>2 DEF Holds
    <3> QED
      BY <2>1, <2>5, <3>1, <3>3 DEF Holds, Copying
  <2> QED
    BY <1>2, <2>1, <2>3, <2>4, <2>5, StillCalm
<1>5. ASSUME NEW o \in Objects, Delete(o) PROVE Calm'
  <2>1. UNCHANGED <<active, url, late, jobs, lock, work>> /\ owned' = owned \ {o}
    BY <1>5 DEF Delete
  <2>2. \A b \in Backends : stored[b] \ {o} \subseteq stored'[b]
    BY <1>1, <1>5 DEF Delete, World
  <2>3. Kept' /\ Visible'
    BY <1>1, <2>1, <2>2 DEF Calm, Kept, Visible, World, Backends
  <2>4. ASSUME NEW p \in Procs, NEW r, r = work[p], Holds(p, r) PROVE Holds(p, r)'
    <3>1. Other(r.source) \in Backends
      BY <2>4, TypedParts, BothBackends DEF Worker
    <3>2. owned' \cap Copied(r) \subseteq stored'[Other(r.source)]
      BY <2>1, <2>2, <2>4, <3>1 DEF Holds
    <3> QED
      BY <2>1, <2>4, <3>2 DEF Holds
  <2> QED
    BY <1>2, <2>1, <2>3, <2>4, StillCalm
<1>6. CASE ChangeBackend
  <2>1. UNCHANGED <<stored, owned, url, jobs, lock, work>> /\ owned \subseteq late' /\ late \subseteq late'
    BY <1>6 DEF ChangeBackend
  <2>2. Kept' /\ Visible'
    BY <2>1 DEF Calm, Kept, Visible
  <2>3. ASSUME NEW p \in Procs, NEW r, r = work[p], Holds(p, r) PROVE Holds(p, r)'
    BY <2>1, <2>3 DEF Holds
  <2> QED
    BY <1>2, <2>1, <2>2, <2>3, StillCalm
<1>7. ASSUME NEW j \in Jobs, CancelMigration(j) PROVE Calm'
  <2>1. UNCHANGED <<files, lock, work>> /\ jobs[j].keys = {} /\ UpdateMigration(j, "cancelled", {})
    BY <1>1, <1>7 DEF CancelMigration, Calm, Manifests, AtWork, World
  <2>2. Manifests' /\ \A i \in Jobs : jobs[i].state \notin AtWork => jobs'[i].state \notin AtWork
    BY <2>1, ManifestsOK DEF AtWork, States
  <2>3. Kept' /\ Visible'
    BY <2>1 DEF Calm, Kept, Visible, files
  <2>4. ASSUME NEW p \in Procs, NEW r, r = work[p], r.pc \in Holding, Holds(p, r) PROVE Holds(p, r)'
    <3>1. r.job \in Jobs
      BY <2>4, HolderFacts
    <3> QED
      BY <2>1, <2>2, <2>4, <3>1 DEF Holds, files
  <2> QED
    BY <2>1, <2>2, <2>3, <2>4, StillCalm
<1>8. CASE Expire
  <2>1. lock = Orphan /\ UNCHANGED <<files, jobs, work>>
    BY <1>1, <1>8 DEF Expire, World
  <2>2. Kept' /\ Visible'
    BY <2>1 DEF Calm, Kept, Visible, files
  <2>3. \A p \in Procs : work[p].pc \notin Holding
    BY <2>1, MigrationAssumption DEF Calm, Holds, Procs
  <2> QED
    BY <1>2, <2>1, <2>2, <2>3, StillCalm
<1>10. CASE CacheEntry
  BY <1>3, <1>10 DEF CacheEntry, files
<1>9. CASE Crash
  <2>1. UNCHANGED <<files, jobs>> /\ \A p \in Procs : work'[p] = Idle
    BY <1>9 DEF Crash
  <2>2. Kept' /\ Visible' /\ Manifests'
    BY <1>2, <2>1 DEF Calm, Kept, Visible, files
  <2>3. \A p \in Procs : work'[p].pc \notin Holding
    BY <2>1, IdleOK DEF Holding, Copying
  <2> QED
    BY <2>2, <2>3 DEF Calm
<1> QED
  BY <1>3, <1>4, <1>5, <1>6, <1>7, <1>8, <1>9, <1>10 DEF Outside, CreatePresignedUpload

Safe == Regular => Calm

\* What is irregular stays so.
LEMMA Irregular ==
  ASSUME Typed, Next, Regular'
  PROVE  Regular /\ expiries' = expiries
<1>1. expiries \in Nat /\ astray \in BOOLEAN
  BY TypedParts, MigrationAssumption DEF World
<1>2. ASSUME NEW p \in Procs, Run(p), ~TryLock(p) PROVE UNCHANGED <<expiries, astray>>
  BY <1>2 DEF Run, Resolve, ResolveByType, Enter, CheckCancelled, ListObjects, Resume,
              MarkRunning, GetObject, PutObject, StatObject, NoteVerified, SwitchRead, SwitchWrite,
              DeleteObject, NoteDeleted, Complete, Fail, Unlock, Leave, aside
<1>3. ASSUME NEW p \in Requests, Start(p) PROVE UNCHANGED <<expiries, astray>>
  BY <1>3 DEF Start, StartStorageMigration, Check, Count, Insert, Disconnect, aside
<1>4. ListPendingMigrations \/ NextJob => UNCHANGED <<expiries, astray>>
  BY DEF ListPendingMigrations, NextJob, aside
<1>5. ASSUME Outside PROVE (expiries' = expiries \/ expiries' = expiries + 1) /\ astray' = astray
  BY <1>5 DEF Outside, CreatePresignedUpload, Upload, Delete, ChangeBackend, CancelMigration,
              Expire, CacheEntry, Crash, aside
<1>6. ASSUME NEW p \in Procs, TryLock(p) PROVE expiries' = expiries /\ (astray => astray')
  <2>1. expiries' = expiries
    BY <1>6 DEF TryLock
  <2>2. astray => astray'
    BY <1>6, Zenon DEF TryLock
  <2> QED
    BY <2>1, <2>2
<1>7. \/ UNCHANGED <<expiries, astray>>
      \/ (expiries' = expiries \/ expiries' = expiries + 1) /\ astray' = astray
      \/ \E p \in Procs : TryLock(p)
  BY <1>2, <1>3, <1>4, <1>5 DEF Next, Outside
<1>8. astray => astray'
  BY <1>6, <1>7, Zenon
<1>9. ~astray
  BY <1>8 DEF Regular
<1>10. expiries' = expiries \/ expiries' = expiries + 1
  BY <1>6, <1>7
<1> QED
  BY <1>1, <1>9, <1>10 DEF Regular

LEMMA SafeStep == Typed /\ Safe /\ [Next]_vars => Safe'
<1> SUFFICES ASSUME Typed, Safe, [Next]_vars, Regular' PROVE Calm'
  BY DEF Safe
<1>1. CASE UNCHANGED vars
  <2>1. Regular /\ Calm
    BY <1>1 DEF vars, Safe, Regular
  <2>2. Manifests' /\ Kept' /\ Visible'
    BY <1>1, <2>1 DEF vars, Calm, Manifests, Kept, Visible
  <2>3. ASSUME NEW p \in Procs, NEW r, Holds(p, r) PROVE Holds(p, r)'
    BY <1>1, <2>3 DEF vars, Holds
  <2> QED
    BY <1>1, <2>1, <2>2, <2>3, StillCalm DEF vars
<1>2. CASE Next
  <2>1. expiries = 0 /\ expiries' = expiries /\ Calm
    BY <1>2, Irregular DEF Safe, Regular
  <2>2. ASSUME NEW p \in Procs, Run(p) PROVE Calm'
    <3>1. CASE TryLock(p)
      <4>1. work'[p].pc = "state" => Current(p)
        <5>1. ~astray'
          BY DEF Regular
        <5>2. lock' = p => Current(p)
          BY <3>1, <5>1 DEF TryLock
        <5>3. Stop(p, "fail") => work'[p].pc = "fail"
          BY StopRec DEF Labels, Moving
        <5> QED
          BY <3>1, <5>2, <5>3 DEF TryLock
      <4> QED
        BY <2>1, <3>1, <4>1, LockCalm
    <3> QED
      BY <2>1, <2>2, <3>1, EnterCalm, MarkCalm, CopyCalm, SwitchCalm, CleanCalm, EndCalm DEF Run
  <2> QED
    BY <1>2, <2>1, <2>2, StartCalm, TickCalm, OutsideCalm DEF Next, Outside
<1> QED
  BY <1>1, <1>2

LEMMA InitSafe == Init => Safe
<1> SUFFICES ASSUME Init PROVE Calm
  BY DEF Safe
<1>1. \A p \in Procs : work[p].pc \notin Holding
  BY IdleOK DEF Init, Holding, Copying
<1> QED
  BY <1>1 DEF Init, Calm, Manifests, Kept, Visible

LEMMA AlwaysSafe == Spec => [](Typed /\ Safe)
<1>1. Typed /\ Safe /\ [Next]_vars => Typed' /\ Safe'
  BY NextTyped, SafeStep
<1> QED
  BY <1>1, InitTyped, InitSafe, PTL DEF Spec

\* However often runs fail, are cancelled, restart or are retried, and whatever the
\* factory takes from Redis, while the user uploads, deletes and changes the backend:
\* until a run gets the lock for a job or a pair of backends it should not have, or
\* loses it, an object the user has is in one of the two backends.
THEOREM NothingIsLost == Spec => []NoObjectLost
<1>1. Safe => NoObjectLost
  BY DEF Safe, Calm, Kept, NoObjectLost
<1> QED
  BY <1>1, AlwaysSafe, PTL

\* ... and, unless it came during a migration or he changed the backend, in the one
\* his row names.
THEOREM ObjectsStayVisible == Spec => []ObjectsVisible
<1>1. Safe => ObjectsVisible
  BY DEF Safe, Calm, Visible, ObjectsVisible
<1> QED
  BY <1>1, AlwaysSafe, PTL
=============================================================================
