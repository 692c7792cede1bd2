------------------------- MODULE ReservationProofs -------------------------
(***************************************************************************)
(* Proofs about QuotaLedger and Reservation, for any users, quotas, sizes, *)
(* idempotency keys, uploads, request goroutines, failures and crashes:    *)
(* the account of the quota stays well typed and within the quota whatever *)
(* its callers do; type correctness of Reservation; the refinement of      *)
(* QuotaLedger, from which the quota bound follows; and, of the records    *)
(* and idempotency keys in Redis, that retries share one reservation       *)
(* (ClientsSeeOneReservation) and that no path forgets a record or leaves  *)
(* it without its bytes (RecordsHeld).                                     *)
(***************************************************************************)
EXTENDS Reservation, FiniteSetTheorems, TLAPS

-----------------------------------------------------------------------------
(* The account of the quota. *)

\* The counters, which MySQL keeps as BIGINT UNSIGNED, never go below zero:
\* every subtraction of storage.go is guarded by its WHERE clause.
LEMMA LedgerTypeStep == LedgerTypeOK /\ [LedgerNext]_ledgerVars => LedgerTypeOK'
<1> SUFFICES ASSUME LedgerTypeOK, [LedgerNext]_ledgerVars
             PROVE  LedgerTypeOK'
  OBVIOUS
<1> USE QuotaAssumption DEF LedgerTypeOK
<1>1. CASE UNCHANGED ledgerVars
  BY <1>1 DEF ledgerVars
<1>2. ASSUME NEW u \in Users, NEW n \in Sizes, ReserveStorage(u, n)
      PROVE  LedgerTypeOK'
  BY <1>2 DEF ReserveStorage
<1>3. ASSUME NEW u \in Users, NEW n \in Sizes, CommitStorage(u, n)
      PROVE  LedgerTypeOK'
  BY <1>3 DEF CommitStorage, HasReserved
<1>4. ASSUME NEW u \in Users, NEW n \in Sizes, ReleaseStorage(u, n)
      PROVE  LedgerTypeOK'
  BY <1>4 DEF ReleaseStorage, HasReserved
<1>5. ASSUME NEW u \in Users, ReleaseAllReservedStorage(u)
      PROVE  LedgerTypeOK'
  BY <1>5 DEF ReleaseAllReservedStorage
<1>6. ASSUME NEW u \in Users, ResetStorageQuota(u)
      PROVE  LedgerTypeOK'
  BY <1>6 DEF ResetStorageQuota
<1> QED
  BY <1>1, <1>2, <1>3, <1>4, <1>5, <1>6 DEF LedgerNext

\* The test under FOR UPDATE admits a reservation only into the free part of
\* the quota, and no other statement raises the sum of the two counters.
LEMMA QuotaStep ==
  LedgerTypeOK /\ QuotaBound /\ [LedgerNext]_ledgerVars => QuotaBound'
<1> SUFFICES ASSUME LedgerTypeOK, QuotaBound, [LedgerNext]_ledgerVars
             PROVE  QuotaBound'
  OBVIOUS
<1> USE QuotaAssumption DEF LedgerTypeOK, QuotaBound
<1>1. CASE UNCHANGED ledgerVars
  BY <1>1 DEF ledgerVars
<1>2. ASSUME NEW u \in Users, NEW n \in Sizes, ReserveStorage(u, n)
      PROVE  QuotaBound'
  <2> SUFFICES ASSUME NEW v \in Users, Quota[v] > 0
               PROVE  used'[v] + reserved'[v] <= Quota[v]
    OBVIOUS
  <2>1. CASE v = u
    BY <1>2, <2>1 DEF ReserveStorage, Exceeds
  <2>2. CASE v # u
    BY <1>2, <2>2 DEF ReserveStorage
  <2> QED
    BY <2>1, <2>2
<1>3. ASSUME NEW u \in Users, NEW n \in Sizes, CommitStorage(u, n)
      PROVE  QuotaBound'
  BY <1>3 DEF CommitStorage, HasReserved
<1>4. ASSUME NEW u \in Users, NEW n \in Sizes, ReleaseStorage(u, n)
      PROVE  QuotaBound'
  BY <1>4 DEF ReleaseStorage, HasReserved
<1>5. ASSUME NEW u \in Users, ReleaseAllReservedStorage(u)
      PROVE  QuotaBound'
  BY <1>5 DEF ReleaseAllReservedStorage
<1>6. ASSUME NEW u \in Users, ResetStorageQuota(u)
      PROVE  QuotaBound'
  BY <1>6 DEF ResetStorageQuota
<1> QED
  BY <1>1, <1>2, <1>3, <1>4, <1>5, <1>6 DEF LedgerNext

\* Both facts hold of every behaviour of the account, for any number of users
\* and any quotas: the FOR UPDATE test of ReserveStorage is enough.
THEOREM LedgerWithinQuota == LedgerSpec => [](LedgerTypeOK /\ QuotaBound)
<1>1. LedgerInit => LedgerTypeOK /\ QuotaBound
  BY QuotaAssumption DEF LedgerInit, LedgerTypeOK, QuotaBound
<1> QED
  BY <1>1, LedgerTypeStep, QuotaStep, PTL DEF LedgerSpec

-----------------------------------------------------------------------------
(* Reservation. *)

USE DEF TypeOK

-----------------------------------------------------------------------------
(* What the building blocks of the actions preserve.                       *)

\* Replacing one handler by one that has what its label needs.
LEMMA MoveOK ==
  ASSUME HandlersOK, NEW p \in Procs, NEW r \in Requests, HandlerOK(r),
         Move(p, r)
  PROVE  HandlersOK'
BY DEF HandlersOK, Move

\* A handler may always return.
LEMMA FinishOK ==
  ASSUME HandlersOK, NEW p \in Procs, Finish(p)
  PROVE  HandlersOK'
<1>1. NoRequest \in Requests /\ HandlerOK(NoRequest)
  BY DEF NoRequest, Requests, Labels, HandlerOK
<1> QED
  BY <1>1, MoveOK DEF Finish

\* A handler may move to a label whose needs it already meets.
LEMMA GotoOK ==
  ASSUME HandlersOK, NEW p \in Procs, NEW label \in Labels, Goto(p, label),
         HandlerOK([req[p] EXCEPT !.pc = label])
  PROVE  HandlersOK'
<1>1. [req[p] EXCEPT !.pc = label] \in Requests
  BY DEF HandlersOK, Requests
<1> QED
  BY <1>1, MoveOK DEF Goto

\* A call that works costs nothing, a failed one is within the bound.
LEMMA CallOK ==
  ASSUME TypeOK, Works \/ Fault
  PROVE  faults' \in 0..MaxFaults
BY ReservationAssumption DEF Works, Fault

\* `_ = ReleaseStorage(...)` is a step of the account, or leaves it alone.
LEMMA ReleaseIgnoredOK ==
  ASSUME TypeOK, NEW u \in Users, NEW n \in Sizes, NEW id \in Ids,
         ReleaseIgnored(u, n, id)
  PROVE  /\ [LedgerNext]_ledgerVars
         /\ settled' \subseteq Ids /\ disturbed' \subseteq Users
         /\ faults' \in 0..MaxFaults
<1>1. [LedgerNext]_ledgerVars
  BY DEF ReleaseIgnored, LedgerNext, ledgerVars
<1>2. settled' \subseteq Ids /\ disturbed' \subseteq Users
  BY DEF ReleaseIgnored, Settle, NotSettled, PastOK
<1> QED
  BY <1>1, <1>2, CallOK DEF ReleaseIgnored

\* `_ = DeleteUploadReservation(...)` leaves a well-typed set of records.
LEMMA DeleteIgnoredOK ==
  ASSUME TypeOK, NEW id \in Ids, DeleteIgnored(id)
  PROVE  /\ records' \in [Ids -> Records \cup {NoRecord}]
         /\ faults' \in 0..MaxFaults
BY CallOK DEF DeleteIgnored, RedisOK

-----------------------------------------------------------------------------
(* Every step keeps TypeOK and moves the row only by a statement of it.    *)

\* The calls the request handlers make.
LEMMA ServeOK ==
  ASSUME TypeOK, NEW p \in Procs, Serve(p)
  PROVE  TypeOK' /\ [LedgerNext]_ledgerVars
<1> USE ReservationAssumption
<1>0. req[p] \in Requests /\ HandlerOK(req[p])
  BY DEF HandlersOK
<1>1. CASE Lookup(p)
  <2> DEFINE holder == idem[req[p].user][req[p].key]
  <2>1. CASE holder # NoId /\ Move(p, [req[p] EXCEPT !.pc = "loadExisting",
                                                   !.seen = holder])
    <3>1. holder \in Ids
      BY <1>0, <1>1, <2>1 DEF Lookup, At, HandlerOK, RedisOK
    <3>2. HandlersOK'
      BY <1>0, <1>1, <2>1, <3>1, MoveOK
      DEF Lookup, At, HandlerOK, Requests, Labels
    <3> QED
      BY <1>1, <3>2, CallOK
      DEF Lookup, LedgerTypeOK, RedisOK, TickOK, PastOK, ledgerVars, redis,
          past
  <2>2. CASE Goto(p, "grant")
    <3>1. HandlerOK([req[p] EXCEPT !.pc = "grant"])
      BY <1>0, <1>1 DEF Lookup, At, HandlerOK, Requests
    <3> QED
      BY <1>1, <2>2, <3>1, GotoOK, CallOK
      DEF Lookup, Labels, LedgerTypeOK, RedisOK, TickOK, PastOK, ledgerVars,
          redis, past
  <2> QED
    BY <1>1, <2>1, <2>2 DEF Lookup
<1>2. CASE LoadExisting(p)
  <2>1. HandlersOK'
    BY <1>0, <1>2, MoveOK
    DEF LoadExisting, At, HandlerOK, RedisOK, Requests, Labels
  <2> QED
    BY <1>2, <2>1, CallOK
    DEF LoadExisting, LedgerTypeOK, RedisOK, TickOK, PastOK, ledgerVars, redis,
        past
<1>3. CASE Grant(p)
  <2>1. HandlersOK'
    BY <1>0, <1>3, MoveOK, FinishOK
    DEF Grant, At, HandlerOK, Requests, Labels
  <2>2. [LedgerNext]_ledgerVars
    BY <1>0, <1>3 DEF Grant, At, HandlerOK, LedgerNext, ledgerVars
  <2>3. issued' \subseteq Ids
    BY <1>3 DEF Grant, PastOK
  <2> QED
    BY <1>3, <2>1, <2>2, <2>3, LedgerTypeStep, CallOK
    DEF Grant, LedgerTypeOK, RedisOK, TickOK, PastOK, ledgerVars, redis, past
<1>4. CASE Save(p)
  <2>1. HandlersOK'
    BY <1>0, <1>4, GotoOK DEF Save, At, HandlerOK, Requests, Labels
  <2>2. [user |-> req[p].user, key |-> req[p].key, size |-> req[p].size]
          \in Records
    BY <1>0, <1>4 DEF Save, At, HandlerOK, Records, Requests
  <2>3. records' \in [Ids -> Records \cup {NoRecord}]
    BY <1>4, <2>2 DEF Save, RedisOK
  <2> QED
    BY <1>4, <2>1, <2>3, CallOK
    DEF Save, LedgerTypeOK, RedisOK, TickOK, PastOK, ledgerVars, redis, past
<1>5. CASE UndoSave(p)
  <2>1. HandlersOK'
    BY <1>5, FinishOK DEF UndoSave
  <2>2. /\ [LedgerNext]_ledgerVars
        /\ settled' \subseteq Ids /\ disturbed' \subseteq Users
        /\ faults' \in 0..MaxFaults
    BY <1>0, <1>5, ReleaseIgnoredOK DEF UndoSave, At, HandlerOK
  <2> QED
    BY <1>5, <2>1, <2>2, LedgerTypeStep
    DEF UndoSave, LedgerTypeOK, RedisOK, TickOK, PastOK, ledgerVars, redis,
        past
<1>6. CASE Claim(p)
  <2>1. HandlersOK'
    BY <1>0, <1>6, GotoOK DEF Claim, At, HandlerOK, Requests, Labels
  <2>2. idem' \in [Users -> [Keys -> Ids \cup {NoId}]]
    BY <1>0, <1>6 DEF Claim, At, HandlerOK, RedisOK
  <2> QED
    BY <1>6, <2>1, <2>2, CallOK
    DEF Claim, LedgerTypeOK, RedisOK, TickOK, PastOK, ledgerVars, redis, past
<1>7. CASE UndoQuota(p)
  <2>1. HandlersOK'
    BY <1>0, <1>7, GotoOK DEF UndoQuota, At, HandlerOK, Requests, Labels
  <2>2. /\ [LedgerNext]_ledgerVars
        /\ settled' \subseteq Ids /\ disturbed' \subseteq Users
        /\ faults' \in 0..MaxFaults
    BY <1>0, <1>7, ReleaseIgnoredOK DEF UndoQuota, At, HandlerOK
  <2> QED
    BY <1>7, <2>1, <2>2, LedgerTypeStep
    DEF UndoQuota, LedgerTypeOK, RedisOK, TickOK, PastOK, ledgerVars, redis,
        past
<1>8. CASE UndoRecord(p)
  <2>1. HandlersOK'
    <3>1. CASE At(p, "undoRecord") /\ Finish(p)
      BY <3>1, FinishOK
    <3>2. CASE At(p, "loseRecord") /\ Goto(p, "recheck")
      BY <1>0, <3>2, GotoOK DEF At, HandlerOK, Requests, Labels
    <3> QED
      BY <1>8, <3>1, <3>2 DEF UndoRecord
  <2>2. /\ records' \in [Ids -> Records \cup {NoRecord}]
        /\ faults' \in 0..MaxFaults
    BY <1>0, <1>8, DeleteIgnoredOK DEF UndoRecord, At, HandlerOK
  <2> QED
    BY <1>8, <2>1, <2>2
    DEF UndoRecord, LedgerTypeOK, RedisOK, TickOK, PastOK, ledgerVars, redis,
        past
<1>9. CASE Recheck(p)
  <2>1. HandlersOK'
    <3> DEFINE holder == idem[req[p].user][req[p].key]
    <3>1. ASSUME holder # NoId,
                 Move(p, [req[p] EXCEPT !.pc = "reload", !.seen = holder,
                                        !.id = NoId])
          PROVE  HandlersOK'
      <4>1. holder \in Ids
        BY <1>0, <1>9, <3>1 DEF Recheck, At, HandlerOK, RedisOK
      <4> QED
        BY <1>0, <1>9, <3>1, <4>1, MoveOK
        DEF Recheck, At, HandlerOK, Requests, Labels
    <3> QED
      BY <1>9, <3>1, FinishOK DEF Recheck
  <2> QED
    BY <1>9, <2>1, CallOK
    DEF Recheck, LedgerTypeOK, RedisOK, TickOK, PastOK, ledgerVars, redis, past
<1>10. CASE Reload(p)
  <2>1. HandlersOK'
    BY <1>0, <1>10, MoveOK, FinishOK
    DEF Reload, At, HandlerOK, Requests, Labels
  <2> QED
    BY <1>10, <2>1, CallOK
    DEF Reload, LedgerTypeOK, RedisOK, TickOK, PastOK, ledgerVars, redis, past
<1>11. CASE Presign(p)
  <2>1. HandlersOK'
    BY <1>0, <1>11, GotoOK, FinishOK
    DEF Presign, At, HandlerOK, Requests, Labels
  <2>2. PastOK'
    BY <1>0, <1>11 DEF Presign, At, HandlerOK, PastOK, Requests
  <2> QED
    BY <1>11, <2>1, <2>2, CallOK
    DEF Presign, LedgerTypeOK, RedisOK, TickOK, PastOK, ledgerVars, redis, past
<1>12. CASE RelLoad(p)
  <2>1. HandlersOK'
    BY <1>0, <1>12, MoveOK, FinishOK
    DEF RelLoad, At, HandlerOK, Live, RedisOK, Records, Requests, Labels
  <2> QED
    BY <1>12, <2>1, CallOK
    DEF RelLoad, LedgerTypeOK, RedisOK, TickOK, PastOK, ledgerVars, redis, past
<1>13. CASE RelQuota(p)
  <2>1. HandlersOK'
    BY <1>0, <1>13, GotoOK, FinishOK
    DEF RelQuota, At, HandlerOK, Requests, Labels
  <2>2. [LedgerNext]_ledgerVars
    BY <1>0, <1>13 DEF RelQuota, At, HandlerOK, LedgerNext, ledgerVars
  <2>3. settled' \subseteq Ids /\ disturbed' \subseteq Users
    BY <1>0, <1>13
    DEF RelQuota, At, HandlerOK, Settle, NotSettled, PastOK
  <2> QED
    BY <1>13, <2>1, <2>2, <2>3, LedgerTypeStep, CallOK
    DEF RelQuota, LedgerTypeOK, RedisOK, TickOK, PastOK, ledgerVars, redis,
        past
<1>14. CASE RelDelete(p)
  <2>1. /\ records' \in [Ids -> Records \cup {NoRecord}]
        /\ faults' \in 0..MaxFaults
    BY <1>0, <1>14, DeleteIgnoredOK DEF RelDelete, At, HandlerOK
  <2> QED
    BY <1>14, <2>1, FinishOK
    DEF RelDelete, LedgerTypeOK, RedisOK, TickOK, PastOK, ledgerVars, redis,
        past
<1>15. CASE ComLoad(p)
  <2>1. HandlersOK'
    BY <1>0, <1>15, MoveOK, FinishOK
    DEF ComLoad, At, HandlerOK, Live, RedisOK, Records, Requests, Labels
  <2> QED
    BY <1>15, <2>1, CallOK
    DEF ComLoad, LedgerTypeOK, RedisOK, TickOK, PastOK, ledgerVars, redis, past
<1>16. CASE Charge(p)
  <2>0. req[p].user \in Users /\ req[p].size \in Sizes /\ req[p].id \in Ids
    BY <1>0, <1>16 DEF Charge, At, HandlerOK
  <2>1. HandlersOK'
    BY <1>0, <1>16, GotoOK, FinishOK
    DEF Charge, At, HandlerOK, Requests, Labels
  <2>2. [LedgerNext]_ledgerVars
    BY <1>16, <2>0, ReleaseIgnoredOK DEF Charge, LedgerNext, ledgerVars
  <2>3. settled' \subseteq Ids /\ disturbed' \subseteq Users
    BY <1>16, <2>0, ReleaseIgnoredOK DEF Charge, Settle, NotSettled, PastOK
  <2>4. faults' \in 0..MaxFaults
    BY <1>16, <2>0, ReleaseIgnoredOK, CallOK DEF Charge
  <2> QED
    BY <1>16, <2>1, <2>2, <2>3, <2>4, LedgerTypeStep
    DEF Charge, LedgerTypeOK, RedisOK, TickOK, PastOK, ledgerVars, redis, past
<1>17. CASE ComDelete(p)
  <2>1. /\ records' \in [Ids -> Records \cup {NoRecord}]
        /\ faults' \in 0..MaxFaults
    BY <1>0, <1>17, DeleteIgnoredOK DEF ComDelete, At, HandlerOK
  <2> QED
    BY <1>17, <2>1, FinishOK
    DEF ComDelete, LedgerTypeOK, RedisOK, TickOK, PastOK, ledgerVars, redis,
        past
<1>18. CASE PurgeObjects(p)
  <2>1. HandlersOK'
    BY <1>0, <1>18, GotoOK, FinishOK
    DEF PurgeObjects, At, HandlerOK, Requests, Labels
  <2> QED
    BY <1>18, <2>1, CallOK
    DEF PurgeObjects, LedgerTypeOK, RedisOK, TickOK, PastOK, ledgerVars, redis,
        past
<1>19. CASE PurgeQuota(p)
  <2>1. req[p].user \in Users
    BY <1>0, <1>19 DEF PurgeQuota, At, HandlerOK
  <2>2. [LedgerNext]_ledgerVars
    BY <1>19, <2>1 DEF PurgeQuota, LedgerNext, ledgerVars
  <2> QED
    BY <1>19, <2>1, <2>2, FinishOK, LedgerTypeStep, CallOK
    DEF PurgeQuota, LedgerTypeOK, RedisOK, TickOK, PastOK, ledgerVars, redis,
        past
<1> QED
  BY <1>1, <1>2, <1>3, <1>4, <1>5, <1>6, <1>7, <1>8, <1>9, <1>10, <1>11, <1>12,
     <1>13, <1>14, <1>15, <1>16, <1>17, <1>18, <1>19 DEF Serve

\* A request that arrives.
LEMMA RequestOK ==
  ASSUME TypeOK, NEW p \in Procs, Request(p)
  PROVE  TypeOK' /\ UNCHANGED ledgerVars
<1> USE ReservationAssumption
<1>1. ASSUME NEW u \in Users, NEW k \in Keys \cup {NoKey}, NEW n \in Sizes,
             StartUpload(p, u, k, n)
      PROVE  TypeOK' /\ UNCHANGED ledgerVars
  <2>1. HandlersOK'
    BY <1>1, MoveOK DEF StartUpload, NoRequest, HandlerOK, Requests, Labels
  <2> QED
    BY <1>1, <2>1
    DEF StartUpload, budget, LedgerTypeOK, RedisOK, TickOK, PastOK, ledgerVars,
        redis, past
<1>2. ASSUME NEW id \in Ids, StartCommit(p, id)
      PROVE  TypeOK' /\ UNCHANGED ledgerVars
  <2>1. handed[id].user \in Users
    BY <1>2 DEF StartCommit, Reserved, PastOK
  <2>2. HandlersOK'
    BY <1>2, <2>1, MoveOK
    DEF StartCommit, NoRequest, HandlerOK, Requests, Labels
  <2> QED
    BY <1>2, <2>2
    DEF StartCommit, budget, LedgerTypeOK, RedisOK, TickOK, PastOK, ledgerVars,
        redis, past
<1>3. ASSUME NEW u \in Users, StartPurge(p, u)
      PROVE  TypeOK' /\ UNCHANGED ledgerVars
  <2>1. HandlersOK'
    BY <1>3, MoveOK DEF StartPurge, NoRequest, HandlerOK, Requests, Labels
  <2> QED
    BY <1>3, <2>1
    DEF StartPurge, budget, LedgerTypeOK, RedisOK, TickOK, PastOK, ledgerVars,
        redis, past
<1> QED
  BY <1>1, <1>2, <1>3 DEF Request

\* What clients do, the direct commit included.
LEMMA ClientOK ==
  ASSUME TypeOK, Client
  PROVE  TypeOK' /\ [LedgerNext]_ledgerVars
<1>1. ASSUME NEW u \in Users, NEW n \in Sizes, CommitDirect(u, n)
      PROVE  TypeOK' /\ [LedgerNext]_ledgerVars
  <2>1. [LedgerNext]_ledgerVars
    BY <1>1 DEF CommitDirect, LedgerNext
  <2> QED
    BY <1>1, <2>1, LedgerTypeStep
    DEF CommitDirect, HandlersOK, RedisOK, TickOK, PastOK, redis, budget
<1>2. ASSUME NEW id \in Ids, PutObject(id)
      PROVE  TypeOK' /\ [LedgerNext]_ledgerVars
  <2>1. ObjectOf(id) \in Users \X Names
    BY <1>2 DEF PutObject, Reserved, ObjectOf, NameFor, Names, PastOK
  <2> QED
    BY <1>2, <2>1
    DEF PutObject, HandlersOK, budget, LedgerTypeOK, RedisOK, TickOK, PastOK,
        ledgerVars, redis, past
<1>3. ASSUME NEW o \in objects, DeleteStorageObject(o)
      PROVE  TypeOK' /\ [LedgerNext]_ledgerVars
  BY <1>3
  DEF DeleteStorageObject, HandlersOK, budget, LedgerTypeOK, RedisOK, TickOK,
      PastOK, ledgerVars, redis, past
<1> QED
  BY <1>1, <1>2, <1>3 DEF Client

\* Expiry and eviction.
LEMMA ClockOK ==
  ASSUME TypeOK, Clock
  PROVE  TypeOK' /\ UNCHANGED ledgerVars
<1>1. ASSUME NEW id \in Ids, TimePasses(id)
      PROVE  TypeOK' /\ UNCHANGED ledgerVars
  BY <1>1
  DEF TimePasses, HandlersOK, budget, LedgerTypeOK, RedisOK, TickOK, PastOK,
      ledgerVars, redis, past
<1>2. ASSUME NEW id \in Ids, EvictRecord(id)
      PROVE  TypeOK' /\ UNCHANGED ledgerVars
  BY <1>2
  DEF EvictRecord, HandlersOK, budget, LedgerTypeOK, RedisOK, TickOK, PastOK,
      ledgerVars, redis, past
<1>3. ASSUME NEW u \in Users, NEW k \in Keys, EvictKey(u, k)
      PROVE  TypeOK' /\ UNCHANGED ledgerVars
  BY <1>3
  DEF EvictKey, HandlersOK, budget, LedgerTypeOK, RedisOK, TickOK, PastOK,
      ledgerVars, redis, past
<1> QED
  BY <1>1, <1>2, <1>3 DEF Clock

\* The tick may move to any label at which it holds no record.
LEMMA TickGotoOK ==
  ASSUME TickOK, NEW label \in TickLabels \ {"sweepRelease", "sweepDelete"},
         TickGoto(label)
  PROVE  TickOK'
BY DEF TickGoto, TickOK, Ticks

\* The tick may always end.
LEMMA NoTickOK == tick' = NoTick => TickOK'
BY DEF NoTick, TickOK, Ticks, TickLabels

\* The steps of the tick.
LEMMA TickStepOK ==
  ASSUME TypeOK, Tick
  PROVE  TypeOK' /\ [LedgerNext]_ledgerVars
<1> USE ReservationAssumption DEF HandlersOK, TickFrame
<1>1. CASE TickHealth
  BY <1>1, CallOK
  DEF TickHealth, TickGoto, Ticks, TickLabels, LedgerTypeOK, RedisOK, TickOK,
      PastOK, ledgerVars, redis, past
<1>2. CASE SweepKeys
  <2>1. ASSUME tick' = [tick EXCEPT !.pc = "sweep", !.todo = LiveIds]
        PROVE  TickOK'
    BY <2>1 DEF TickOK, Ticks, TickLabels, LiveIds
  <2>2. TickOK'
    BY <1>2, <2>1, TickGotoOK DEF SweepKeys, TickLabels
  <2> QED
    BY <1>2, <2>2, CallOK
    DEF SweepKeys, LedgerTypeOK, RedisOK, PastOK, ledgerVars, redis, past
<1>3. CASE SweepRelease
  <2>0. tick.rec.user \in Users /\ tick.rec.size \in Sizes /\ tick.id \in Ids
    BY <1>3 DEF SweepRelease, TickAt, TickOK, Records
  <2>1. [LedgerNext]_ledgerVars
    BY <1>3, <2>0 DEF SweepRelease, LedgerNext, ledgerVars
  <2>2. settled' \subseteq Ids /\ disturbed' \subseteq Users
    BY <1>3, <2>0 DEF SweepRelease, Settle, NotSettled, PastOK
  <2>3. TickOK'
    BY <1>3
    DEF SweepRelease, SweepBack, TickAt, TickGoto, TickOK, Ticks, TickLabels
  <2> QED
    BY <1>3, <2>1, <2>2, <2>3, LedgerTypeStep, CallOK
    DEF SweepRelease, LedgerTypeOK, RedisOK, TickOK, PastOK, ledgerVars, redis,
        past
<1>4. CASE SweepDelete
  <2>1. /\ records' \in [Ids -> Records \cup {NoRecord}]
        /\ faults' \in 0..MaxFaults
    BY <1>4, DeleteIgnoredOK DEF SweepDelete, TickAt, TickOK
  <2>2. TickOK'
    BY <1>4 DEF SweepDelete, SweepBack, TickOK, Ticks, TickLabels
  <2> QED
    BY <1>4, <2>1, <2>2
    DEF SweepDelete, LedgerTypeOK, RedisOK, TickOK, PastOK, ledgerVars, redis,
        past
<1>5. CASE CollectKeys
  <2>1. ASSUME tick' = [tick EXCEPT !.pc = "collect", !.todo = LiveIds]
        PROVE  TickOK'
    BY <2>1 DEF TickOK, Ticks, TickLabels, LiveIds
  <2>2. TickOK'
    BY <1>5, <2>1, TickGotoOK DEF CollectKeys, TickLabels
  <2> QED
    BY <1>5, <2>2, CallOK
    DEF CollectKeys, LedgerTypeOK, RedisOK, PastOK, ledgerVars, redis, past
<1>6. CASE ListReserved
  <2>1. ASSUME tick' = [tick EXCEPT !.pc = "reconKeys", !.listed = ReservedUsers]
        PROVE  TickOK'
    BY <2>1 DEF TickOK, Ticks, TickLabels, ReservedUsers
  <2>2. TickOK'
    BY <1>6, <2>1, NoTickOK DEF ListReserved
  <2> QED
    BY <1>6, <2>2, CallOK
    DEF ListReserved, LedgerTypeOK, RedisOK, PastOK, ledgerVars, redis, past
<1>7. CASE ReconKeys
  <2>1. ASSUME tick' = [tick EXCEPT !.pc = "recon", !.todo = LiveIds]
        PROVE  TickOK'
    BY <2>1 DEF TickOK, Ticks, TickLabels, LiveIds
  <2>2. TickOK'
    BY <1>7, <2>1, NoTickOK DEF ReconKeys
  <2> QED
    BY <1>7, <2>2, CallOK
    DEF ReconKeys, LedgerTypeOK, RedisOK, PastOK, ledgerVars, redis, past
<1>8. CASE TickDone
  BY <1>8
  DEF TickDone, NoTick, Ticks, TickLabels, LedgerTypeOK, RedisOK, TickOK,
      PastOK, ledgerVars, redis, past
<1>9. ASSUME NEW id \in Ids, SweepGet(id)
      PROVE  TypeOK' /\ [LedgerNext]_ledgerVars
  <2>1. tick.pc = "sweep"
    BY <1>9 DEF SweepGet, TickAt
  <2>2. ASSUME Live(id),
               tick' = [tick EXCEPT !.todo = @ \ {id}, !.pc = "sweepRelease",
                                    !.id = id, !.rec = records[id]]
        PROVE  TickOK'
    BY <2>1, <2>2 DEF Live, Ticks, TickLabels, RedisOK, TickOK
  <2>3. ASSUME tick' = [tick EXCEPT !.todo = @ \ {id}] PROVE TickOK'
    BY <2>1, <2>3 DEF Ticks, TickLabels, TickOK
  <2>4. TickOK'
    BY <1>9, <2>2, <2>3 DEF SweepGet
  <2> QED
    BY <1>9, <2>4, CallOK
    DEF SweepGet, LedgerTypeOK, RedisOK, PastOK, ledgerVars, redis, past
<1>10. ASSUME NEW id \in Ids, ScanGet(id)
       PROVE  TypeOK' /\ [LedgerNext]_ledgerVars
  <2>1. Live(id) => records[id].user \in Users
    BY DEF Live, RedisOK, Records
  <2>2. TickOK'
    <3>1. tick.pc \in {"collect", "recon"}
      BY <1>10 DEF ScanGet, TickAt
    <3>2. CASE Live(id) /\ tick' = [tick EXCEPT !.todo = @ \ {id},
                                   !.seen = @ \cup {records[id].user}]
      BY <2>1, <3>1, <3>2 DEF TickOK, Ticks, TickLabels
    <3>3. CASE tick' = [tick EXCEPT !.todo = @ \ {id}]
      BY <3>1, <3>3 DEF TickOK, Ticks, TickLabels
    <3> QED
      BY <1>10, <3>2, <3>3 DEF ScanGet
  <2> QED
    BY <1>10, <2>2, CallOK
    DEF ScanGet, LedgerTypeOK, RedisOK, PastOK, ledgerVars, redis, past
<1>11. ASSUME NEW u \in Users, CollectUser(u)
       PROVE  TypeOK' /\ [LedgerNext]_ledgerVars
  <2>1. {o \in objects : o[1] = u /\ Orphaned(o[2])} \subseteq Users \X Names
    OBVIOUS
  <2>2. TickOK'
    <3> DEFINE doomed == {o \in objects : o[1] = u /\ Orphaned(o[2])}
    <3> HIDE DEF doomed
    <3>1. tick.pc = "collect"
      BY <1>11 DEF CollectUser, TickAt
    <3>2. CASE tick' = [tick EXCEPT !.seen = @ \ {u}, !.doomed = doomed]
      BY <2>1, <3>1, <3>2 DEF TickOK, Ticks, TickLabels, doomed
    <3>3. CASE tick' = [tick EXCEPT !.seen = @ \ {u}]
      BY <3>1, <3>3 DEF TickOK, Ticks, TickLabels
    <3> QED
      BY <1>11, <3>2, <3>3 DEF CollectUser, doomed
  <2> QED
    BY <1>11, <2>2, CallOK
    DEF CollectUser, LedgerTypeOK, RedisOK, PastOK, ledgerVars, redis, past
<1>12. ASSUME NEW u \in Users, ReconRelease(u)
       PROVE  TypeOK' /\ [LedgerNext]_ledgerVars
  <2>1. [LedgerNext]_ledgerVars
    BY <1>12 DEF ReconRelease, LedgerNext, ledgerVars
  <2> QED
    BY <1>12, <2>1, LedgerTypeStep, CallOK
    DEF ReconRelease, TickAt, Ticks, TickLabels, LedgerTypeOK, RedisOK, TickOK,
        PastOK, ledgerVars, redis, past
<1>13. ASSUME NEW o \in tick.doomed, DeleteOrphan(o)
       PROVE  TypeOK' /\ [LedgerNext]_ledgerVars
  BY <1>13, CallOK
  DEF DeleteOrphan, TickAt, Ticks, TickLabels, LedgerTypeOK, RedisOK, TickOK,
      PastOK, ledgerVars, redis, past
<1> QED
  BY <1>1, <1>2, <1>3, <1>4, <1>5, <1>6, <1>7, <1>8, <1>9, <1>10, <1>11, <1>12,
     <1>13 DEF Tick

\* A crash and a loss of Redis.
LEMMA FailureOK ==
  ASSUME TypeOK, Crash \/ RedisLoss
  PROVE  TypeOK' /\ UNCHANGED ledgerVars
<1> USE ReservationAssumption
<1>1. CASE Crash
  <2>1. HandlersOK'
    BY <1>1 DEF Crash, HandlersOK, NoRequest, Requests, Labels, HandlerOK
  <2>2. TickOK'
    BY <1>1 DEF Crash, TickOK, NoTick, Ticks, TickLabels
  <2> QED
    BY <1>1, <2>1, <2>2
    DEF Crash, LedgerTypeOK, RedisOK, TickOK, PastOK, ledgerVars, redis, past
<1>2. CASE RedisLoss
  BY <1>2, CallOK
  DEF RedisLoss, HandlersOK, LedgerTypeOK, RedisOK, TickOK, PastOK, ledgerVars,
      redis, past
<1> QED
  BY <1>1, <1>2

\* The inductive step: TypeOK needs nothing but itself, because HandlerOK says
\* what a handler has in hand at each of its labels.
LEMMA StepOK ==
  ASSUME TypeOK, [Next]_vars
  PROVE  TypeOK' /\ [LedgerNext]_ledgerVars
<1>1. CASE UNCHANGED vars
  BY <1>1
  DEF vars, HandlersOK, budget, LedgerTypeOK, RedisOK, TickOK, PastOK,
      ledgerVars, redis, past
<1>2. ASSUME NEW p \in Procs, Request(p) \/ Serve(p)
      PROVE  TypeOK' /\ [LedgerNext]_ledgerVars
  BY <1>2, RequestOK, ServeOK
<1> QED
  BY <1>1, <1>2, ClientOK, ClockOK, TickStepOK, FailureOK DEF Next

\* The service starts with an empty Redis and no handlers.
LEMMA InitOK == Init => TypeOK
<1> SUFFICES ASSUME Init PROVE TypeOK
  OBVIOUS
<1>1. HandlersOK
  BY DEF Init, HandlersOK, NoRequest, Requests, Labels, HandlerOK
<1>2. TickOK
  BY DEF Init, TickOK, NoTick, Ticks, TickLabels
<1> QED
  BY <1>1, <1>2, ReservationAssumption
  DEF Init, LedgerInit, LedgerTypeOK, RedisOK, PastOK

-----------------------------------------------------------------------------

\* Every handler has at each point of its code what that point reads, and no
\* counter leaves its range, however handlers, tick and failures interleave.
THEOREM TypeCorrect == Spec => []TypeOK
BY InitOK, StepOK, PTL DEF Spec

\* The reservation service implements the account: whatever a handler or the
\* tick does to a user's row is one of the statements of QuotaLedger, for one
\* user and a positive size.
THEOREM ImplementsLedger == Spec => LedgerSpec
<1>1. Init => LedgerInit
  BY DEF Init
<1> QED
  BY <1>1, TypeCorrect, StepOK, PTL DEF Spec, LedgerSpec

\* So no interleaving of uploads, commits, sweeps and purges lets a user hold
\* more than the quota.
THEOREM WithinQuota == Spec => []QuotaBound
BY ImplementsLedger, LedgerWithinQuota, PTL

-----------------------------------------------------------------------------
(* Retries share one reservation.                                          *)
(*                                                                         *)
(* ClientsSeeOneReservation is not inductive: it says nothing of the       *)
(* handlers between reading a key and answering.  The invariant below      *)
(* follows an id through them.  An id a handler is about to save is known  *)
(* to nobody else, so a record that is gone never comes back; and whoever  *)
(* learnt an id from an idempotency key, or is about to hand it out, still *)
(* finds the key pointing at it as long as its record is there, because a  *)
(* key is dropped only after the record it names.                          *)

\* The record of id is the one user u asked for under key k.
Matches(id, u, k) == records[id].user = u /\ records[id].key = k

\* While id is live, the idempotency key it was made for names it.
Pinned(id, u, k) ==
    Live(id) => Matches(id, u, k) /\ (k # NoKey => idem[u][k] = id)

\* Every id in use was drawn by newID().
Known ==
    /\ \A id \in Ids : Live(id) \/ Reserved(id) => id \in issued
    /\ \A u \in Users, k \in Keys : idem[u][k] \in issued \cup {NoId}
    /\ \A p \in Procs : /\ req[p].id \in issued \cup {NoId}
                        /\ req[p].seen \in issued \cup {NoId}

\* An id that is still to be saved is in one pair of hands.
Fresh ==
    \A p \in Procs : At(p, "save") =>
        /\ ~Live(req[p].id) /\ ~Reserved(req[p].id)
        /\ \A u \in Users, k \in Keys : idem[u][k] # req[p].id
        /\ \A q \in Procs : /\ req[q].seen # req[p].id
                            /\ q # p => req[q].id # req[p].id

\* An idempotency key names a reservation made under that key.
KeysMatch ==
    \A u \in Users, k \in Keys :
        idem[u][k] # NoId /\ Live(idem[u][k]) => Matches(idem[u][k], u, k)

\* What a handler knows of the reservation it is about to answer with.
HandlerKnows(r) ==
    /\ r.pc = "claim" /\ Live(r.id) => Matches(r.id, r.user, r.key)
    /\ r.pc \in {"loadExisting", "reload"} =>
          r.key \in Keys /\ Pinned(r.seen, r.user, r.key)
    /\ r.pc = "presign" => Pinned(r.id, r.user, r.key)
HandlersKnow == \A p \in Procs : HandlerKnows(req[p])

\* What a client was given is what its idempotency key names.
HandedPinned ==
    \A id \in Ids : Reserved(id) /\ Live(id) /\ records[id].key # NoKey =>
        idem[records[id].user][records[id].key] = id

OneReservation == Known /\ Fresh /\ KeysMatch /\ HandlersKnow /\ HandedPinned

-----------------------------------------------------------------------------

Watched == {"save", "claim", "loadExisting", "reload", "presign"}

QuietHandlers ==
    \A p \in Procs :
        \/ req'[p] = req[p]
        \/ /\ req'[p].pc \notin Watched
           /\ \/ req'[p].id \in {req[p].id, NoId}
              \/ req'[p].id \in Ids /\ Reserved(req'[p].id)
           /\ req'[p].seen \in {req[p].seen, NoId}

\* Most steps tell nobody a new id: records and keys may only go, a key not
\* before its record, and a handler that moves forgets or keeps what it had.
Quiet ==
    /\ \A id \in Ids : Live(id)' => records'[id] = records[id]
    /\ \A u \in Users, k \in Keys :
          \/ idem'[u][k] = idem[u][k]
          \/ /\ idem'[u][k] = NoId
             /\ idem[u][k] # NoId => records'[idem[u][k]] = NoRecord
    /\ handed' = handed /\ issued' = issued
    /\ QuietHandlers

\* A handler that stays put still knows what it knew, as long as pinned ids
\* stay pinned.
LEMMA KnowsOK ==
  ASSUME HandlersOK, NEW p \in Procs, req'[p] = req[p], HandlerKnows(req[p]),
         \A id \in Ids : Live(id)' => records'[id] = records[id],
         \A id \in Ids, u \in Users, k \in Keys \cup {NoKey} :
            Pinned(id, u, k) => Pinned(id, u, k)'
  PROVE  HandlerKnows(req[p])'
<1>1. CASE req[p].pc \in {"loadExisting", "reload"}
  <2>1. /\ req[p].seen \in Ids /\ req[p].user \in Users /\ req[p].key \in Keys
        /\ Pinned(req[p].seen, req[p].user, req[p].key)
    BY <1>1 DEF HandlersOK, HandlerOK, HandlerKnows
  <2>2. Pinned(req[p].seen, req[p].user, req[p].key)'
    BY <2>1 DEF Pinned, Matches, Live
  <2> QED
    BY <1>1, <2>1, <2>2 DEF HandlerKnows
<1>2. CASE req[p].pc = "presign"
  <2>1. /\ req[p].id \in Ids /\ req[p].user \in Users
        /\ req[p].key \in Keys \cup {NoKey}
        /\ Pinned(req[p].id, req[p].user, req[p].key)
    BY <1>2 DEF HandlersOK, HandlerOK, HandlerKnows, Requests
  <2>2. Pinned(req[p].id, req[p].user, req[p].key)'
    BY <2>1 DEF Pinned, Matches, Live
  <2> QED
    BY <1>2, <2>2 DEF HandlerKnows
<1>3. CASE req[p].pc = "claim"
  BY <1>3 DEF HandlerKnows, HandlersOK, HandlerOK, Matches, Live
<1> QED
  BY <1>1, <1>2, <1>3 DEF HandlerKnows

\* Quiet steps keep the invariant.
LEMMA QuietOK ==
  ASSUME TypeOK, OneReservation, Quiet, TypeOK'
  PROVE  OneReservation'
<1> USE ReservationAssumption DEF TypeOK, OneReservation
<1>1. Known'
  BY DEF Known, Quiet, QuietHandlers, Live, Reserved, PastOK
<1>2. Fresh'
  <2> SUFFICES ASSUME NEW p \in Procs, At(p, "save")'
               PROVE  /\ ~Live(req[p].id)' /\ ~Reserved(req[p].id)'
                      /\ \A u \in Users, k \in Keys : idem'[u][k] # req'[p].id
                      /\ \A q \in Procs :
                            /\ req'[q].seen # req'[p].id
                            /\ q # p => req'[q].id # req'[p].id
    BY DEF Fresh
  <2>1. req'[p] = req[p] /\ At(p, "save") /\ req[p].id \in Ids
    BY DEF Quiet, QuietHandlers, Watched, At, HandlersOK, HandlerOK
  <2>2. ~Live(req[p].id)' /\ ~Reserved(req[p].id)'
    BY <2>1 DEF Quiet, QuietHandlers, Fresh, Live, Reserved
  <2>3. ASSUME NEW u \in Users, NEW k \in Keys
        PROVE  idem'[u][k] # req'[p].id
    BY <2>1, <2>3 DEF Quiet, QuietHandlers, Fresh
  <2>4. ASSUME NEW q \in Procs
        PROVE  /\ req'[q].seen # req'[p].id
               /\ q # p => req'[q].id # req'[p].id
    BY <2>1, <2>4 DEF Quiet, QuietHandlers, Fresh
  <2> QED
    BY <2>2, <2>3, <2>4
<1>3. KeysMatch'
  BY DEF KeysMatch, Quiet, QuietHandlers, Matches, Live, RedisOK
<1>4. HandlersKnow'
  <2> SUFFICES ASSUME NEW p \in Procs
               PROVE  HandlerKnows(req[p])'
    BY DEF HandlersKnow
  <2>1. CASE req'[p].pc \notin Watched
    BY <2>1 DEF Watched, HandlerKnows
  <2>2. CASE req'[p] = req[p]
    <3>1. \A id \in Ids, u \in Users, k \in Keys \cup {NoKey} :
             Pinned(id, u, k) => Pinned(id, u, k)'
      BY DEF Quiet, QuietHandlers, Pinned, Matches, Live
    <3> QED
      BY <2>2, <3>1, KnowsOK DEF HandlersKnow, Quiet
  <2> QED
    BY <2>1, <2>2 DEF Quiet, QuietHandlers
<1>5. HandedPinned'
  BY
  DEF HandedPinned, Quiet, QuietHandlers, Live, Reserved, RedisOK, PastOK,
      Records, NoRecord
<1> QED
  BY <1>1, <1>2, <1>3, <1>4, <1>5

\* A handler that moves to a label nothing is known of, with no new id, is quiet.
LEMMA QuietMove ==
  ASSUME HandlersOK, NEW p \in Procs, NEW r, Move(p, r), r.pc \notin Watched,
         \/ r.id \in {req[p].id, NoId}
         \/ r.id \in Ids /\ Reserved(r.id),
         r.seen \in {req[p].seen, NoId}
  PROVE  QuietHandlers
BY DEF HandlersOK, Move, QuietHandlers

\* So is one that returns,
LEMMA QuietFinish ==
  ASSUME HandlersOK, NEW p \in Procs, Finish(p)
  PROVE  QuietHandlers
BY QuietMove DEF Finish, NoRequest, Watched

\* one that only moves on,
LEMMA QuietGoto ==
  ASSUME HandlersOK, NEW p \in Procs, NEW label \in Labels \ Watched,
         Goto(p, label)
  PROVE  QuietHandlers
<1>1. req[p] \in Requests
  BY DEF HandlersOK
<1> DEFINE r == [req[p] EXCEPT !.pc = label]
<1>2. r.pc = label /\ r.id = req[p].id /\ r.seen = req[p].seen
  BY <1>1 DEF Requests
<1> QED
  BY <1>2, QuietMove DEF Goto

\* and one that stays put.
LEMMA QuietStill == UNCHANGED req => QuietHandlers
BY DEF QuietHandlers

\* Deleting a record, or failing to, only removes records.
LEMMA QuietDelete ==
  ASSUME RedisOK, NEW id \in Ids, DeleteIgnored(id)
  PROVE  \A i \in Ids : Live(i)' => records'[i] = records[i]
BY DEF RedisOK, DeleteIgnored, Live

\* The steps of a handler that are quiet whatever branch they take.
LEMMA ServeQuiet ==
  ASSUME TypeOK, NEW p \in Procs,
         \/ UndoSave(p) \/ UndoQuota(p) \/ UndoRecord(p) \/ RelLoad(p)
         \/ RelQuota(p) \/ RelDelete(p) \/ ComLoad(p) \/ Charge(p)
         \/ ComDelete(p) \/ PurgeObjects(p) \/ PurgeQuota(p)
  PROVE  Quiet
<1> USE DEF TypeOK
<1>0. req[p] \in Requests /\ HandlerOK(req[p])
  BY DEF HandlersOK
<1>1. CASE UndoSave(p)
  BY <1>1, QuietFinish DEF UndoSave, Quiet, redis
<1>2. CASE UndoQuota(p)
  BY <1>2, QuietGoto DEF UndoQuota, Quiet, redis, Labels, Watched
<1>3. CASE UndoRecord(p)
  <2>1. req[p].id \in Ids
    BY <1>0, <1>3 DEF UndoRecord, At, HandlerOK
  <2>2. QuietHandlers
    BY <1>3, QuietGoto, QuietFinish DEF UndoRecord, Labels, Watched
  <2> QED
    BY <1>3, <2>1, <2>2, QuietDelete DEF UndoRecord, Quiet, past
<1>4. CASE RelLoad(p)
  <2>1. QuietHandlers
    <3>1. CASE Finish(p)
      BY <3>1, QuietFinish
    <3>2. CASE Move(p, [req[p] EXCEPT !.pc = "relQuota",
                                      !.size = records[req[p].id].size])
      BY <1>0, <3>2, QuietMove DEF Requests, Watched
    <3> QED
      BY <1>4, <3>1, <3>2 DEF RelLoad
  <2> QED
    BY <1>4, <2>1 DEF RelLoad, Quiet, redis, past
<1>5. CASE RelQuota(p)
  BY <1>5, QuietGoto, QuietFinish DEF RelQuota, Quiet, redis, Labels, Watched
<1>6. CASE RelDelete(p)
  <2>1. req[p].id \in Ids
    BY <1>0, <1>6 DEF RelDelete, At, HandlerOK
  <2> QED
    BY <1>6, <2>1, QuietFinish, QuietDelete DEF RelDelete, Quiet, past
<1>7. CASE ComLoad(p)
  <2>1. QuietHandlers
    <3>1. CASE Finish(p)
      BY <3>1, QuietFinish
    <3>2. CASE Move(p, [req[p] EXCEPT !.pc = "charge",
                                      !.size = records[req[p].id].size])
      BY <1>0, <3>2, QuietMove DEF Requests, Watched
    <3> QED
      BY <1>7, <3>1, <3>2 DEF ComLoad
  <2> QED
    BY <1>7, <2>1 DEF ComLoad, Quiet, redis, past
<1>8. CASE Charge(p)
  BY <1>8, QuietGoto, QuietFinish DEF Charge, Quiet, redis, Labels, Watched
<1>9. CASE ComDelete(p)
  <2>1. req[p].id \in Ids
    BY <1>0, <1>9 DEF ComDelete, At, HandlerOK
  <2> QED
    BY <1>9, <2>1, QuietFinish, QuietDelete DEF ComDelete, Quiet, past
<1>10. CASE PurgeObjects(p)
  BY <1>10, QuietGoto, QuietFinish
  DEF PurgeObjects, Quiet, redis, past, Labels, Watched
<1>11. CASE PurgeQuota(p)
  BY <1>11, QuietFinish DEF PurgeQuota, Quiet, redis
<1> QED
  BY <1>1, <1>2, <1>3, <1>4, <1>5, <1>6, <1>7, <1>8, <1>9, <1>10, <1>11

\* A request arrives with no id, or with one its client was given.
LEMMA RequestQuiet ==
  ASSUME TypeOK, NEW p \in Procs, Request(p)
  PROVE  Quiet
<1> USE DEF TypeOK
<1>1. ASSUME NEW u \in Users, NEW k \in Keys \cup {NoKey}, NEW n \in Sizes,
             StartUpload(p, u, k, n)
      PROVE  Quiet
  <2>1. QuietHandlers
    BY <1>1, QuietMove DEF StartUpload, NoRequest, Watched
  <2> QED
    BY <1>1, <2>1 DEF StartUpload, Quiet, redis, past
<1>2. ASSUME NEW id \in Ids, StartCommit(p, id)
      PROVE  Quiet
  <2>1. QuietHandlers
    BY <1>2, QuietMove DEF StartCommit, NoRequest, Watched
  <2> QED
    BY <1>2, <2>1 DEF StartCommit, Quiet, redis, past
<1>3. ASSUME NEW u \in Users, StartPurge(p, u)
      PROVE  Quiet
  <2>1. QuietHandlers
    BY <1>3, QuietMove DEF StartPurge, NoRequest, Watched
  <2> QED
    BY <1>3, <2>1 DEF StartPurge, Quiet, redis, past
<1> QED
  BY <1>1, <1>2, <1>3 DEF Request

\* Clients, the clock, the tick, a crash and a loss of Redis are quiet.
LEMMA OthersQuiet ==
  ASSUME TypeOK, Client \/ Clock \/ Tick \/ Crash \/ RedisLoss
  PROVE  Quiet
<1> USE QuietStill DEF TypeOK
<1>1. CASE Client
  BY <1>1
  DEF Client, CommitDirect, PutObject, DeleteStorageObject, Quiet, redis, past
<1>2. CASE Clock
  BY <1>2 DEF Clock, TimePasses, EvictRecord, EvictKey, Quiet, redis, past,
              Live, RedisOK
<1>3. CASE Tick
  <2>1. CASE SweepDelete
    BY <2>1, QuietDelete
    DEF SweepDelete, TickFrame, TickAt, TickOK, Quiet
  <2>2. UNCHANGED records \/ SweepDelete
    BY <1>3 DEF Tick, TickHealth, SweepKeys, SweepRelease, CollectKeys,
                ListReserved, ReconKeys, TickDone, SweepGet, ScanGet,
                CollectUser, ReconRelease, DeleteOrphan, redis
  <2>3. UNCHANGED <<req, issued, handed, idem>>
    BY <1>3 DEF Tick, TickHealth, SweepKeys, SweepRelease, SweepDelete,
                CollectKeys, ListReserved, ReconKeys, TickDone, SweepGet,
                ScanGet, CollectUser, ReconRelease, DeleteOrphan, redis, TickFrame
  <2> QED
    BY <2>1, <2>2, <2>3 DEF Quiet
<1>4. CASE Crash
  BY <1>4 DEF Crash, Quiet, QuietHandlers, NoRequest, Watched, redis, past
<1>5. CASE RedisLoss
  BY <1>5 DEF RedisLoss, Quiet, Live, RedisOK, past
<1> QED
  BY <1>1, <1>2, <1>3, <1>4, <1>5

-----------------------------------------------------------------------------

\* A handler that reads an id from an idempotency key, or decides to answer
\* with one, learns what the key guarantees of it.
LEMMA LearnOK ==
  ASSUME TypeOK, OneReservation, TypeOK',
         UNCHANGED <<records, idem, handed, issued>>,
         NEW p \in Procs, NEW r \in Requests, Move(p, r),
         ~At(p, "save"), r.pc # "save", HandlerKnows(r),
         r.id \in {req[p].id, req[p].seen, NoId},
         \/ r.seen \in {req[p].seen, NoId}
         \/ \E u \in Users, k \in Keys : r.seen = idem[u][k]
  PROVE  OneReservation'
<1> USE ReservationAssumption DEF TypeOK, OneReservation
<1>0. req'[p] = r /\ \A q \in Procs : q # p => req'[q] = req[q]
  BY DEF Move, HandlersOK
<1>1. Known'
  <2>1. r.id \in issued \cup {NoId} /\ r.seen \in issued \cup {NoId}
    BY DEF Known
  <2> QED
    BY <1>0, <2>1 DEF Known, Live, Reserved
<1>2. Fresh'
  <2> SUFFICES ASSUME NEW q \in Procs, At(q, "save")'
               PROVE  /\ ~Live(req[q].id)' /\ ~Reserved(req[q].id)'
                      /\ \A u \in Users, k \in Keys : idem'[u][k] # req'[q].id
                      /\ \A o \in Procs :
                            /\ req'[o].seen # req'[q].id
                            /\ o # q => req'[o].id # req'[q].id
    BY DEF Fresh
  <2>1. q # p /\ req'[q] = req[q] /\ At(q, "save") /\ req[q].id \in Ids
    BY <1>0 DEF At, HandlersOK, HandlerOK
  <2>2. r.id # req[q].id /\ r.seen # req[q].id
    BY <2>1 DEF Fresh
  <2>3. ~Live(req[q].id)' /\ ~Reserved(req[q].id)'
    BY <2>1 DEF Fresh, Live, Reserved
  <2>4. ASSUME NEW o \in Procs
        PROVE  /\ req'[o].seen # req'[q].id
               /\ o # q => req'[o].id # req'[q].id
    BY <1>0, <2>1, <2>2 DEF Fresh
  <2> QED
    BY <2>1, <2>3, <2>4 DEF Fresh
<1>3. KeysMatch'
  BY DEF KeysMatch, Matches, Live
<1>4. HandlersKnow'
  BY <1>0 DEF HandlersKnow, HandlerKnows, Pinned, Matches, Live
<1>5. HandedPinned'
  BY DEF HandedPinned, Live, Reserved
<1> QED
  BY <1>1, <1>2, <1>3, <1>4, <1>5

\* What an idempotency key names is pinned to it.
LEMMA KeyPins ==
  ASSUME TypeOK, OneReservation, NEW u \in Users, NEW k \in Keys,
         idem[u][k] # NoId
  PROVE  Pinned(idem[u][k], u, k) /\ idem[u][k] \in Ids
BY DEF OneReservation, KeysMatch, Pinned, TypeOK, RedisOK

\* An idempotent retry finds the holder of its key, or goes on to reserve.
LEMMA LookupOK ==
  ASSUME TypeOK, OneReservation, TypeOK', NEW p \in Procs, Lookup(p)
  PROVE  OneReservation'
<1> USE DEF TypeOK
<1>0. req[p] \in Requests /\ req[p].user \in Users /\ req[p].key \in Keys
  BY DEF HandlersOK, HandlerOK, Lookup, At
<1> DEFINE holder == idem[req[p].user][req[p].key]
           r == [req[p] EXCEPT !.pc = "loadExisting", !.seen = holder]
<1>1. CASE holder # NoId /\ Move(p, r)
  <2>1. Pinned(holder, req[p].user, req[p].key) /\ holder \in Ids
    BY <1>0, <1>1, KeyPins
  <2>2. /\ r \in Requests /\ r.pc = "loadExisting" /\ r.seen = holder
        /\ r.id = req[p].id /\ r.user = req[p].user /\ r.key = req[p].key
    BY <1>0, <2>1 DEF Requests, Labels
  <2>3. HandlerKnows(r)
    BY <1>0, <2>1, <2>2 DEF HandlerKnows
  <2> QED
    BY <1>0, <1>1, <2>2, <2>3, LearnOK DEF Lookup, At, redis, past
<1>2. CASE Goto(p, "grant")
  <2>1. Quiet
    BY <1>2, QuietGoto DEF Lookup, Quiet, redis, past, Labels, Watched
  <2> QED
    BY <2>1, QuietOK
<1> QED
  BY <1>1, <1>2 DEF Lookup

\* It answers with a live record, or forgets it and reserves.
LEMMA LoadExistingOK ==
  ASSUME TypeOK, OneReservation, TypeOK', NEW p \in Procs, LoadExisting(p)
  PROVE  OneReservation'
<1> USE DEF TypeOK
<1>0. req[p] \in Requests /\ req[p].seen \in Ids
  BY DEF HandlersOK, HandlerOK, LoadExisting, At
<1> DEFINE r == [req[p] EXCEPT !.pc = "presign", !.id = req[p].seen]
           anew == [req[p] EXCEPT !.pc = "grant", !.seen = NoId]
<1>1. CASE Move(p, r)
  <2>1. Pinned(req[p].seen, req[p].user, req[p].key)
    BY DEF OneReservation, HandlersKnow, HandlerKnows, LoadExisting, At
  <2>2. /\ r \in Requests /\ r.pc = "presign" /\ r.seen = req[p].seen
        /\ r.id = req[p].seen /\ r.user = req[p].user /\ r.key = req[p].key
    BY <1>0 DEF Requests, Labels
  <2>3. HandlerKnows(r)
    BY <2>1, <2>2 DEF HandlerKnows
  <2> QED
    BY <1>1, <2>2, <2>3, LearnOK DEF LoadExisting, At, redis, past
<1>2. CASE Move(p, anew)
  <2>1. anew.pc = "grant" /\ anew.id = req[p].id /\ anew.seen = NoId
    BY <1>0 DEF Requests
  <2>2. Quiet
    BY <1>2, <2>1, QuietMove DEF LoadExisting, Quiet, redis, past, Watched
  <2> QED
    BY <2>2, QuietOK
<1> QED
  BY <1>1, <1>2 DEF LoadExisting

\* The loser of a claim reads the key again,
LEMMA RecheckOK ==
  ASSUME TypeOK, OneReservation, TypeOK', NEW p \in Procs, Recheck(p)
  PROVE  OneReservation'
<1> USE DEF TypeOK
<1>0. req[p] \in Requests /\ req[p].user \in Users /\ req[p].key \in Keys
  BY DEF HandlersOK, HandlerOK, Recheck, At
<1> DEFINE holder == idem[req[p].user][req[p].key]
           r == [req[p] EXCEPT !.pc = "reload", !.seen = holder, !.id = NoId]
<1>1. CASE holder # NoId /\ Move(p, r)
  <2>1. Pinned(holder, req[p].user, req[p].key) /\ holder \in Ids
    BY <1>0, <1>1, KeyPins
  <2>2. /\ r \in Requests /\ r.pc = "reload" /\ r.seen = holder
        /\ r.id = NoId /\ r.user = req[p].user /\ r.key = req[p].key
    BY <1>0, <2>1 DEF Requests, Labels
  <2>3. HandlerKnows(r)
    BY <1>0, <2>1, <2>2 DEF HandlerKnows
  <2> QED
    <3>1. /\ UNCHANGED <<records, idem, handed, issued>>
          /\ req[p].pc = "recheck" /\ ~At(p, "save")
      BY <1>1 DEF Recheck, At, redis, past
    <3>2. \E u \in Users, k \in Keys : r.seen = idem[u][k]
      BY <1>0, <2>2
    <3>3. r \in Requests /\ Move(p, r) /\ r.pc # "save" /\ r.id \in {req[p].id, req[p].seen, NoId}
      BY <1>1, <2>2
    <3> HIDE DEF r, holder
    <3> QED
      BY <2>3, <3>1, <3>2, <3>3, LearnOK
<1>2. CASE Finish(p)
  BY <1>2, QuietFinish, QuietOK DEF Recheck, Quiet, redis, past
<1> QED
  BY <1>1, <1>2 DEF Recheck

\* and answers with the winner's record if it is still there.
LEMMA ReloadOK ==
  ASSUME TypeOK, OneReservation, TypeOK', NEW p \in Procs, Reload(p)
  PROVE  OneReservation'
<1> USE DEF TypeOK
<1>0. req[p] \in Requests /\ req[p].seen \in Ids
  BY DEF HandlersOK, HandlerOK, Reload, At
<1> DEFINE r == [req[p] EXCEPT !.pc = "presign", !.id = req[p].seen]
<1>1. CASE Move(p, r)
  <2>1. Pinned(req[p].seen, req[p].user, req[p].key)
    BY DEF OneReservation, HandlersKnow, HandlerKnows, Reload, At
  <2>2. /\ r \in Requests /\ r.pc = "presign" /\ r.seen = req[p].seen
        /\ r.id = req[p].seen /\ r.user = req[p].user /\ r.key = req[p].key
    BY <1>0 DEF Requests, Labels
  <2>3. HandlerKnows(r)
    BY <2>1, <2>2 DEF HandlerKnows
  <2> QED
    BY <1>1, <2>2, <2>3, LearnOK DEF Reload, At, redis, past
<1>2. CASE Finish(p)
  BY <1>2, QuietFinish, QuietOK DEF Reload, Quiet, redis, past
<1> QED
  BY <1>1, <1>2 DEF Reload

\* newID() draws an id nobody has.
LEMMA GrantOK ==
  ASSUME TypeOK, OneReservation, TypeOK', NEW p \in Procs, Grant(p)
  PROVE  OneReservation'
<1> USE ReservationAssumption DEF TypeOK, OneReservation
<1>0. req[p] \in Requests
  BY DEF HandlersOK
<1>1. ASSUME NEW id \in Ids \ issued, issued' = issued \cup {id},
             Move(p, [req[p] EXCEPT !.pc = "save", !.id = id])
      PROVE  OneReservation'
  <2>1. /\ req'[p].id = id /\ req'[p].seen = req[p].seen /\ req'[p].pc = "save"
        /\ \A q \in Procs : q # p => req'[q] = req[q]
    BY <1>0, <1>1 DEF Move, HandlersOK, Requests
  <2>2. UNCHANGED <<records, idem, handed>>
    BY DEF Grant, redis
  <2>3. Known'
    BY <1>1, <2>1, <2>2 DEF Known, Live, Reserved
  <2>4. /\ ~Live(id) /\ ~Reserved(id)
        /\ \A u \in Users, k \in Keys : idem[u][k] # id
        /\ \A q \in Procs : req[q].seen # id /\ req[q].id # id
    BY <1>1 DEF Known
  <2>5. ASSUME NEW q \in Procs, At(q, "save"), q # p
        PROVE  req[q].id # id /\ req[q].id \in Ids
    BY <2>4, <2>5 DEF HandlersOK, HandlerOK, At
  <2>6. Fresh'
    BY <2>1, <2>2, <2>4, <2>5 DEF Fresh, At, Live, Reserved
  <2>7. KeysMatch' /\ HandedPinned'
    BY <2>2 DEF KeysMatch, HandedPinned, Matches, Live, Reserved
  <2>8. HandlersKnow'
    BY <2>1, <2>2 DEF HandlersKnow, HandlerKnows, Pinned, Matches, Live
  <2> QED
    BY <2>3, <2>6, <2>7, <2>8
<1>2. CASE Finish(p) /\ UNCHANGED issued
  BY <1>2, QuietFinish, QuietOK DEF Grant, Quiet, redis
<1> QED
  BY <1>1, <1>2 DEF Grant

\* The record appears under an id only its handler has.
LEMMA SaveOK ==
  ASSUME TypeOK, OneReservation, TypeOK', NEW p \in Procs, Save(p)
  PROVE  OneReservation'
<1> USE ReservationAssumption DEF TypeOK, OneReservation
<1> DEFINE id == req[p].id
           rec == [user |-> req[p].user, key |-> req[p].key,
                   size |-> req[p].size]
<1>0. req[p] \in Requests /\ id \in Ids /\ At(p, "save")
  BY DEF HandlersOK, HandlerOK, Save, At
<1>1. CASE /\ records' = [records EXCEPT ![id] = rec]
           /\ \E label \in {"presign", "claim", "undoSave"} :
                 /\ Goto(p, label)
                 /\ label = "presign" => req[p].key = NoKey
  <2>1. /\ req'[p].id = id /\ req'[p].seen = req[p].seen
        /\ req'[p].user = req[p].user /\ req'[p].key = req[p].key
        /\ req'[p].pc \in {"presign", "claim", "undoSave"}
        /\ req'[p].pc = "presign" => req[p].key = NoKey
        /\ \A q \in Procs : q # p => req'[q] = req[q]
    BY <1>0, <1>1 DEF Goto, Move, HandlersOK, Requests
  <2>2. UNCHANGED <<idem, handed, issued>>
    BY DEF Save, past
  <2>3. records'[id] = rec /\ \A i \in Ids : i # id => records'[i] = records[i]
    BY <1>0, <1>1 DEF RedisOK
  <2>4. id \in issued
    BY <1>0 DEF Known
  <2>5. /\ ~Reserved(id)
        /\ \A u \in Users, k \in Keys : idem[u][k] # id
        /\ \A q \in Procs : req[q].seen # id /\ (q # p => req[q].id # id)
    BY <1>0 DEF Fresh
  <2>6. Known'
    BY <2>1, <2>2, <2>3, <2>4 DEF Known, Live, Reserved
  <2>7. Fresh'
    <3> SUFFICES ASSUME NEW q \in Procs, At(q, "save")'
                 PROVE  /\ ~Live(req[q].id)' /\ ~Reserved(req[q].id)'
                        /\ \A u \in Users, k \in Keys : idem'[u][k] # req'[q].id
                        /\ \A o \in Procs :
                              /\ req'[o].seen # req'[q].id
                              /\ o # q => req'[o].id # req'[q].id
      BY DEF Fresh
    <3>1. q # p /\ req'[q] = req[q] /\ At(q, "save") /\ req[q].id \in Ids
      BY <2>1 DEF At, HandlersOK, HandlerOK
    <3> QED
      BY <2>1, <2>2, <2>3, <2>5, <3>1 DEF Fresh, Live, Reserved
  <2>8. KeysMatch'
    BY <2>2, <2>3, <2>5 DEF KeysMatch, Matches, Live, RedisOK
  <2>9. ASSUME NEW q \in Procs
        PROVE  HandlerKnows(req[q])'
    <3>1. CASE q = p
      BY <2>1, <2>3, <3>1 DEF HandlerKnows, Pinned, Matches
    <3>2. CASE q # p
      BY <2>1, <2>2, <2>3, <2>5, <3>2
      DEF HandlersKnow, HandlerKnows, Pinned, Matches, Live, HandlersOK,
          HandlerOK
    <3> QED
      BY <3>1, <3>2
  <2>10. HandedPinned'
    BY <2>2, <2>3, <2>5 DEF HandedPinned, Live, Reserved
  <2> QED
    BY <2>6, <2>7, <2>8, <2>9, <2>10 DEF HandlersKnow
<1>2. CASE UNCHANGED records /\ Goto(p, "undoSave")
  BY <1>2, QuietGoto, QuietOK DEF Save, Quiet, past, Labels, Watched
<1> QED
  BY <1>1, <1>2 DEF Save

\* SET NX names an id that was nobody's under this key before.
LEMMA ClaimOK ==
  ASSUME TypeOK, OneReservation, TypeOK', NEW p \in Procs, Claim(p)
  PROVE  OneReservation'
<1> USE ReservationAssumption DEF TypeOK, OneReservation
<1> DEFINE id == req[p].id  u == req[p].user  k == req[p].key
<1>0. /\ req[p] \in Requests /\ id \in Ids /\ u \in Users /\ k \in Keys
      /\ At(p, "claim")
  BY DEF HandlersOK, HandlerOK, Claim, At
<1>1. CASE /\ idem[u][k] = NoId /\ idem' = [idem EXCEPT ![u][k] = id]
           /\ Goto(p, "presign") \/ Goto(p, "undoQuota")
  <2>1. /\ req'[p].id = id /\ req'[p].seen = req[p].seen
        /\ req'[p].user = u /\ req'[p].key = k
        /\ req'[p].pc \in {"presign", "undoQuota"}
        /\ \A q \in Procs : q # p => req'[q] = req[q]
    BY <1>0, <1>1 DEF Goto, Move, HandlersOK, Requests
  <2>2. UNCHANGED <<records, handed, issued>>
    BY DEF Claim, past
  <2>3. /\ idem'[u][k] = id
        /\ \A v \in Users, l \in Keys :
              idem'[v][l] = idem[v][l] \/ (v = u /\ l = k)
    BY <1>0, <1>1 DEF RedisOK
  <2>4. \A v \in Users, l \in Keys :
          idem[v][l] # NoId => idem'[v][l] = idem[v][l]
    BY <1>1, <2>3
  <2>5. Live(id) => Matches(id, u, k)
    BY <1>0 DEF HandlersKnow, HandlerKnows, At
  <2>6. Known'
    BY <1>0, <2>1, <2>2, <2>3 DEF Known, Live, Reserved
  <2>7. Fresh'
    <3> SUFFICES ASSUME NEW q \in Procs, At(q, "save")'
                 PROVE  /\ ~Live(req[q].id)' /\ ~Reserved(req[q].id)'
                        /\ \A v \in Users, l \in Keys : idem'[v][l] # req'[q].id
                        /\ \A o \in Procs :
                              /\ req'[o].seen # req'[q].id
                              /\ o # q => req'[o].id # req'[q].id
      BY DEF Fresh
    <3>1. q # p /\ req'[q] = req[q] /\ At(q, "save") /\ id # req[q].id
      BY <2>1 DEF At, Fresh
    <3> QED
      BY <2>1, <2>2, <2>3, <3>1 DEF Fresh, Live, Reserved
  <2>8. KeysMatch'
    BY <2>2, <2>3, <2>5 DEF KeysMatch, Matches, Live
  <2>9. ASSUME NEW q \in Procs
        PROVE  HandlerKnows(req[q])'
    <3>1. CASE q = p
      BY <2>1, <2>2, <2>3, <2>5, <3>1 DEF HandlerKnows, Pinned, Matches, Live
    <3>2. CASE q # p
      <4>1. \A i \in Ids, v \in Users, l \in Keys \cup {NoKey} :
               Pinned(i, v, l) => Pinned(i, v, l)'
        BY <2>2, <2>4 DEF Pinned, Matches, Live
      <4> QED
        BY <2>1, <2>2, <3>2, <4>1, KnowsOK DEF HandlersKnow
    <3> QED
      BY <3>1, <3>2
  <2>10. HandedPinned'
    BY <2>2, <2>4 DEF HandedPinned, Live, Reserved, RedisOK, Records, NoRecord
  <2> QED
    BY <2>6, <2>7, <2>8, <2>9, <2>10 DEF HandlersKnow
<1>2. CASE /\ UNCHANGED idem
           /\ Goto(p, "loseQuota") \/ Goto(p, "undoQuota")
  BY <1>2, QuietGoto, QuietOK DEF Claim, Quiet, past, Labels, Watched
<1> QED
  BY <1>1, <1>2 DEF Claim, KeyFree

\* What a handler answers with, its key still names.
LEMMA PresignOK ==
  ASSUME TypeOK, OneReservation, TypeOK', NEW p \in Procs, Presign(p)
  PROVE  OneReservation'
<1> USE ReservationAssumption DEF TypeOK, OneReservation
<1> DEFINE id == req[p].id
<1>0. /\ req[p] \in Requests /\ id \in Ids /\ At(p, "presign")
      /\ Pinned(id, req[p].user, req[p].key)
  BY DEF HandlersOK, HandlerOK, HandlersKnow, HandlerKnows, Presign, At
<1>1. CASE /\ handed' = [handed EXCEPT ![id] = [user |-> req[p].user,
                                               key |-> req[p].key]]
           /\ Finish(p)
  <2>1. /\ req'[p] = NoRequest
        /\ \A q \in Procs : q # p => req'[q] = req[q]
    BY <1>1 DEF Finish, Move, HandlersOK
  <2>2. UNCHANGED <<records, idem, issued>>
    BY DEF Presign, redis
  <2>3. \A i \in Ids : i # id => handed'[i] = handed[i]
    BY <1>1 DEF PastOK
  <2>4. Known'
    BY <1>0, <2>1, <2>2, <2>3 DEF Known, Live, Reserved, NoRequest
  <2>5. Fresh'
    <3> SUFFICES ASSUME NEW q \in Procs, At(q, "save")'
                 PROVE  /\ ~Live(req[q].id)' /\ ~Reserved(req[q].id)'
                        /\ \A v \in Users, l \in Keys : idem'[v][l] # req'[q].id
                        /\ \A o \in Procs :
                              /\ req'[o].seen # req'[q].id
                              /\ o # q => req'[o].id # req'[q].id
      BY DEF Fresh
    <3>1. /\ q # p /\ req'[q] = req[q] /\ At(q, "save") /\ id # req[q].id
          /\ req[q].id \in Ids
      BY <2>1 DEF At, Fresh, NoRequest, HandlersOK, HandlerOK
    <3> QED
      BY <2>1, <2>2, <2>3, <3>1 DEF Fresh, Live, Reserved, NoRequest
  <2>6. KeysMatch'
    BY <2>2 DEF KeysMatch, Matches, Live
  <2>7. HandlersKnow'
    BY <2>1, <2>2
    DEF HandlersKnow, HandlerKnows, Pinned, Matches, Live, NoRequest
  <2>8. HandedPinned'
    BY <1>0, <2>2, <2>3 DEF HandedPinned, Pinned, Matches, Live, Reserved
  <2> QED
    BY <2>4, <2>5, <2>6, <2>7, <2>8
<1>2. CASE UNCHANGED handed /\ Goto(p, "relLoad")
  BY <1>2, QuietGoto, QuietOK DEF Presign, Quiet, redis, Labels, Watched
<1> QED
  BY <1>1, <1>2 DEF Presign

\* Every step of the program keeps the invariant.
LEMMA OneReservationStep ==
  ASSUME TypeOK, OneReservation, [Next]_vars
  PROVE  OneReservation'
<1>1. TypeOK'
  BY StepOK
<1>2. CASE UNCHANGED vars
  BY <1>1, <1>2, QuietStill, QuietOK DEF vars, Quiet, redis, past
<1>3. CASE Client \/ Clock \/ Tick \/ Crash \/ RedisLoss
  BY <1>1, <1>3, OthersQuiet, QuietOK
<1>4. ASSUME NEW p \in Procs, Request(p)
      PROVE  OneReservation'
  BY <1>1, <1>4, RequestQuiet, QuietOK
<1>5. ASSUME NEW p \in Procs, Serve(p)
      PROVE  OneReservation'
  BY <1>1, <1>5, ServeQuiet, QuietOK, LookupOK, LoadExistingOK, GrantOK,
     SaveOK, ClaimOK, RecheckOK, ReloadOK, PresignOK DEF Serve
<1> QED
  BY <1>2, <1>3, <1>4, <1>5 DEF Next

\* At the start no id was drawn.
LEMMA InitOneReservation == Init => OneReservation
<1> SUFFICES ASSUME Init PROVE OneReservation
  OBVIOUS
<1>1. \A p \in Procs : req[p] = NoRequest
  BY DEF Init
<1>2. \A id \in Ids : ~Live(id) /\ ~Reserved(id)
  BY DEF Init, Live, Reserved
<1>3. \A u \in Users, k \in Keys : idem[u][k] = NoId
  BY DEF Init
<1> QED
  BY <1>1, <1>2, <1>3 DEF OneReservation, Known, Fresh, KeysMatch,
     HandlersKnow, HandlerKnows, HandedPinned, NoRequest, At

\* However the retries of a client, the expiry of its reservations, failures,
\* crashes and the tick interleave, one idempotency key never has two live
\* reservations in clients' hands.
THEOREM RetriesShareReservation == Spec => []ClientsSeeOneReservation
<1>1. TypeOK /\ OneReservation => ClientsSeeOneReservation
  BY DEF TypeOK, RedisOK, OneReservation, HandedPinned,
         ClientsSeeOneReservation, LiveIds, Live
<1> QED
  BY <1>1, InitOneReservation, TypeCorrect, OneReservationStep, PTL DEF Spec

-----------------------------------------------------------------------------
(* Ids that were not saved yet: the tick does not have them, and their     *)
(* bytes were not settled.                                                 *)

Unnamed == {"idle", "lookup", "loadExisting", "grant", "reload", "purge", "purgeQuota"}
Drawn ==
    /\ settled \subseteq issued
    /\ tick.id \in issued \cup {NoId}
    /\ \A p \in Procs : At(p, "save") => req[p].id \notin settled /\ tick.id # req[p].id
    /\ \A p \in Procs : req[p].pc \in Unnamed => req[p].id = NoId

\* A step of a handler that draws no id, and settles at most its own.
Draws(p) ==
    /\ \A q \in Procs \ {p} : req'[q] = req[q]
    /\ req'[p].pc # "save"
    /\ req'[p].pc \in Unnamed => req'[p].id = NoId
    /\ UNCHANGED <<issued, tick>>
    /\ \/ settled' = settled
       \/ settled' = settled \cup {req[p].id} /\ req[p].id \in Ids /\ ~At(p, "save")

\* Such a step keeps what is said of ids.
LEMMA DrawsOK ==
  ASSUME TypeOK, OneReservation, Drawn, NEW p \in Procs, Draws(p)
  PROVE  Drawn'
<1>1. req[p].id \in issued \cup {NoId}
  BY DEF OneReservation, Known
<1>2. settled' \subseteq issued'
  BY <1>1, ReservationAssumption DEF Draws, Drawn
<1>3. tick'.id \in issued' \cup {NoId}
  BY DEF Draws, Drawn
<1>4. ASSUME NEW q \in Procs, At(q, "save")'
      PROVE  req'[q].id \notin settled' /\ tick'.id # req'[q].id
  <2>1. q # p /\ req'[q] = req[q] /\ At(q, "save")
    BY <1>4 DEF Draws, At
  <2>2. req[q].id # req[p].id
    BY <2>1 DEF OneReservation, Fresh
  <2> QED
    BY <2>1, <2>2 DEF Draws, Drawn
<1>5. ASSUME NEW q \in Procs, req'[q].pc \in Unnamed
      PROVE  req'[q].id = NoId
  BY <1>5 DEF Draws, Drawn
<1> QED
  BY <1>2, <1>3, <1>4, <1>5 DEF Drawn

\* Moving on.
LEMMA DrawsMove ==
  ASSUME HandlersOK, NEW p \in Procs, NEW r, Move(p, r), r.pc # "save",
         r.pc \in Unnamed => r.id = NoId, UNCHANGED <<issued, tick>>,
         \/ settled' = settled
         \/ settled' = settled \cup {req[p].id} /\ req[p].id \in Ids /\ ~At(p, "save")
  PROVE  Draws(p)
BY DEF Draws, Move, HandlersOK

\* All steps of a handler are such, but for the one that draws an id.
LEMMA ServeDraws ==
  ASSUME TypeOK, Drawn, NEW p \in Procs, Serve(p), ~Grant(p)
  PROVE  Draws(p)
<1> USE DEF TypeOK
<1>0. req[p] \in Requests /\ HandlerOK(req[p])
  BY DEF HandlersOK
<1>00. NoRequest.pc # "save" /\ NoRequest.id = NoId
  BY DEF NoRequest
<1>01. ASSUME NEW l, Goto(p, l), l # "save", l \in Unnamed => req[p].id = NoId,
             UNCHANGED <<issued, tick>>,
             \/ settled' = settled
             \/ settled' = settled \cup {req[p].id} /\ req[p].id \in Ids /\ ~At(p, "save")
      PROVE  Draws(p)
  <2>1. [req[p] EXCEPT !.pc = l].pc = l /\ [req[p] EXCEPT !.pc = l].id = req[p].id
    BY <1>0 DEF Requests
  <2> QED
    BY <1>01, <2>1, DrawsMove DEF Goto
<1>02. ASSUME Finish(p), UNCHANGED <<issued, tick>>,
             \/ settled' = settled
             \/ settled' = settled \cup {req[p].id} /\ req[p].id \in Ids /\ ~At(p, "save")
      PROVE  Draws(p)
  BY <1>02, <1>00, DrawsMove DEF Finish
<1>1. CASE Lookup(p)
  <2>0. req[p].id = NoId
    BY <1>1 DEF Drawn, Lookup, At, Unnamed
  <2>1. ASSUME Move(p, [req[p] EXCEPT !.pc = "loadExisting", !.seen = idem[req[p].user][req[p].key]])
        PROVE  Draws(p)
    BY <1>0, <1>1, <2>0, <2>1, DrawsMove DEF Lookup, Requests, past
  <2> QED
    BY <1>1, <1>01, <2>0, <2>1 DEF Lookup, past
<1>2. CASE LoadExisting(p)
  <2>0. req[p].id = NoId
    BY <1>2 DEF Drawn, LoadExisting, At, Unnamed
  <2>1. ASSUME Move(p, [req[p] EXCEPT !.pc = "presign", !.id = req[p].seen])
        PROVE  Draws(p)
    BY <1>0, <1>2, <2>1, DrawsMove DEF LoadExisting, Requests, past, Unnamed
  <2>2. ASSUME Move(p, [req[p] EXCEPT !.pc = "grant", !.seen = NoId])
        PROVE  Draws(p)
    BY <1>0, <1>2, <2>0, <2>2, DrawsMove DEF LoadExisting, Requests, past
  <2> QED
    BY <1>2, <2>1, <2>2 DEF LoadExisting
<1>4. CASE Save(p)
  BY <1>4, <1>01 DEF Save, past, Unnamed
<1>5. CASE UndoSave(p)
  BY <1>5, <1>0, <1>02 DEF UndoSave, ReleaseIgnored, Settle, NotSettled, At, HandlerOK
<1>6. CASE Claim(p)
  BY <1>6, <1>01 DEF Claim, past, Unnamed
<1>7. CASE UndoQuota(p)
  BY <1>7, <1>0, <1>01 DEF UndoQuota, ReleaseIgnored, Settle, NotSettled, At, HandlerOK, Unnamed
<1>8. CASE UndoRecord(p)
  BY <1>8, <1>01, <1>02 DEF UndoRecord, past, Unnamed
<1>9. CASE Recheck(p)
  <2>1. ASSUME Move(p, [req[p] EXCEPT !.pc = "reload", !.seen = idem[req[p].user][req[p].key], !.id = NoId])
        PROVE  Draws(p)
    BY <1>0, <1>9, <2>1, DrawsMove DEF Recheck, Requests, past
  <2> QED
    BY <1>9, <1>02, <2>1 DEF Recheck, past
<1>10. CASE Reload(p)
  <2>1. ASSUME Move(p, [req[p] EXCEPT !.pc = "presign", !.id = req[p].seen])
        PROVE  Draws(p)
    BY <1>0, <1>10, <2>1, DrawsMove DEF Reload, Requests, past, Unnamed
  <2> QED
    BY <1>10, <1>02, <2>1 DEF Reload, past
<1>11. CASE Presign(p)
  BY <1>11, <1>01, <1>02 DEF Presign, Unnamed
<1>12. CASE RelLoad(p)
  <2>1. ASSUME Move(p, [req[p] EXCEPT !.pc = "relQuota", !.size = records[req[p].id].size])
        PROVE  Draws(p)
    BY <1>0, <1>12, <2>1, DrawsMove DEF RelLoad, Requests, past, Unnamed
  <2> QED
    BY <1>12, <1>02, <2>1 DEF RelLoad, past
<1>13. CASE RelQuota(p)
  BY <1>13, <1>0, <1>01, <1>02 DEF RelQuota, Settle, NotSettled, At, HandlerOK, Unnamed
<1>14. CASE RelDelete(p)
  BY <1>14, <1>02 DEF RelDelete, past
<1>15. CASE ComLoad(p)
  <2>1. ASSUME Move(p, [req[p] EXCEPT !.pc = "charge", !.size = records[req[p].id].size])
        PROVE  Draws(p)
    BY <1>0, <1>15, <2>1, DrawsMove DEF ComLoad, Requests, past, Unnamed
  <2> QED
    BY <1>15, <1>02, <2>1 DEF ComLoad, past
<1>16. CASE Charge(p)
  BY <1>16, <1>0, <1>01, <1>02 DEF Charge, ReleaseIgnored, Settle, NotSettled, At, HandlerOK, Unnamed
<1>17. CASE ComDelete(p)
  BY <1>17, <1>02 DEF ComDelete, past
<1>18. CASE PurgeObjects(p)
  <2>0. req[p].id = NoId
    BY <1>18 DEF Drawn, PurgeObjects, At, Unnamed
  <2> QED
    BY <1>18, <2>0, <1>01, <1>02 DEF PurgeObjects, past
<1>19. CASE PurgeQuota(p)
  BY <1>19, <1>02 DEF PurgeQuota
<1> QED
  BY <1>1, <1>2, <1>4, <1>5, <1>6, <1>7, <1>8, <1>9, <1>10, <1>11, <1>12,
     <1>13, <1>14, <1>15, <1>16, <1>17, <1>18, <1>19 DEF Serve

\* Every step.
LEMMA DrawnStep ==
  ASSUME TypeOK, OneReservation, Drawn, [Next]_vars
  PROVE  Drawn'
<1> USE DEF TypeOK
<1>1. ASSUME NEW p \in Procs, Serve(p), ~Grant(p) PROVE Drawn'
  BY <1>1, ServeDraws, DrawsOK
<1>2. ASSUME NEW p \in Procs, Grant(p) PROVE Drawn'
  <2>0. req[p] \in Requests /\ req[p].id = NoId
    BY <1>2 DEF Grant, Drawn, HandlersOK, At, Unnamed
  <2>1. ASSUME NEW id \in Ids \ issued, issued' = issued \cup {id},
               Move(p, [req[p] EXCEPT !.pc = "save", !.id = id])
        PROVE  Drawn'
    <3>1. /\ req'[p].pc = "save" /\ req'[p].id = id
          /\ \A q \in Procs \ {p} : req'[q] = req[q]
      BY <2>0, <2>1 DEF Move, HandlersOK, Requests
    <3>2. UNCHANGED <<settled, tick>>
      BY <1>2 DEF Grant
    <3>3. id \notin settled /\ tick.id # id
      BY <2>1, ReservationAssumption DEF Drawn
    <3> QED
      BY <2>1, <3>1, <3>2, <3>3 DEF Drawn, At, Unnamed
  <2>2. CASE Finish(p) /\ UNCHANGED issued
    <3>1. NoRequest.pc # "save" /\ NoRequest.id = NoId
      BY DEF NoRequest
    <3> QED
      BY <1>2, <2>2, <3>1, DrawsMove, DrawsOK DEF Grant, Finish
  <2> QED
    BY <1>2, <2>1, <2>2 DEF Grant
<1>3. ASSUME NEW p \in Procs, Request(p) PROVE Drawn'
  <2>1. UNCHANGED <<issued, tick, settled>>
    BY <1>3 DEF Request, StartUpload, StartCommit, StartPurge, past
  <2>2. ASSUME NEW u \in Users, NEW k \in Keys \cup {NoKey}, NEW n \in Sizes,
               StartUpload(p, u, k, n)
        PROVE  Draws(p)
    BY <2>1, <2>2, DrawsMove DEF StartUpload, NoRequest
  <2>3. ASSUME NEW id \in Ids, StartCommit(p, id)
        PROVE  Draws(p)
    BY <2>1, <2>3, DrawsMove DEF StartCommit, NoRequest, Unnamed
  <2>4. ASSUME NEW u \in Users, StartPurge(p, u)
        PROVE  Draws(p)
    BY <2>1, <2>4, DrawsMove DEF StartPurge, NoRequest
  <2> QED
    BY <1>3, <2>2, <2>3, <2>4, DrawsOK DEF Request
<1>4. CASE Client \/ Clock
  BY <1>4 DEF Client, Clock, CommitDirect, PutObject, DeleteStorageObject,
     TimePasses, EvictRecord, EvictKey, past, Drawn, At
<1>5. CASE Tick
  <2>1. UNCHANGED <<req, issued>>
    BY <1>5 DEF Tick, TickHealth, SweepKeys, SweepRelease, SweepDelete,
       CollectKeys, ListReserved, ReconKeys, TickDone, SweepGet, ScanGet,
       CollectUser, ReconRelease, DeleteOrphan, TickFrame
  <2>2. \/ settled' = settled
        \/ settled' = settled \cup {tick.id} /\ tick.id \in Ids
    BY <1>5 DEF Tick, TickHealth, SweepKeys, SweepRelease, SweepDelete,
       CollectKeys, ListReserved, ReconKeys, TickDone, SweepGet, ScanGet,
       CollectUser, ReconRelease, DeleteOrphan, Settle, NotSettled, TickOK, TickAt
  <2>3. \/ tick'.id \in {tick.id, NoId}
        \/ tick'.id \in Ids /\ Live(tick'.id)
    <3> USE DEF TickOK, Ticks
    <3>1. CASE TickHealth \/ SweepKeys \/ SweepRelease \/ SweepDelete \/ CollectKeys
      BY <3>1 DEF TickHealth, SweepKeys, SweepRelease, SweepDelete, CollectKeys,
         TickGoto, SweepBack
    <3>2. CASE ListReserved \/ ReconKeys \/ TickDone
      <4>1. \/ tick' = NoTick
            \/ tick' = [tick EXCEPT !.pc = "reconKeys", !.listed = ReservedUsers]
            \/ tick' = [tick EXCEPT !.pc = "recon", !.todo = LiveIds]
        BY <3>2 DEF ListReserved, ReconKeys, TickDone
      <4>2. NoTick.id = NoId
        BY DEF NoTick
      <4> QED
        BY <4>1, <4>2
    <3>3. ASSUME NEW id \in Ids, SweepGet(id)
          PROVE  tick'.id = tick.id \/ (tick'.id = id /\ Live(id))
      BY <3>3 DEF SweepGet
    <3>4. ASSUME NEW id \in Ids, ScanGet(id)
          PROVE  tick'.id = tick.id
      BY <3>4 DEF ScanGet
    <3>5. ASSUME NEW u \in Users, CollectUser(u) \/ ReconRelease(u)
          PROVE  tick'.id = tick.id
      <4>1. CASE ReconRelease(u)
        BY <4>1 DEF ReconRelease
      <4>2. CASE CollectUser(u)
        BY <4>2 DEF CollectUser
      <4> QED
        BY <3>5, <4>1, <4>2
    <3>6. ASSUME NEW o \in tick.doomed, DeleteOrphan(o)
          PROVE  tick'.id = tick.id
      BY <3>6 DEF DeleteOrphan
    <3> QED
      BY <1>5, <3>1, <3>2, <3>3, <3>4, <3>5, <3>6 DEF Tick
  <2>4. tick'.id \in issued \cup {NoId}
    BY <2>3 DEF OneReservation, Known, Drawn
  <2>5. ASSUME NEW p \in Procs, At(p, "save")
        PROVE  req[p].id \notin settled' /\ tick'.id # req[p].id
    <3>1. req[p].id \in Ids /\ ~Live(req[p].id)
      BY <2>5 DEF OneReservation, Fresh, HandlersOK, HandlerOK, At
    <3> QED
      BY <2>2, <2>3, <2>5, <3>1, ReservationAssumption DEF Drawn
  <2> QED
    BY <2>1, <2>2, <2>4, <2>5, ReservationAssumption DEF Drawn, At
<1>6. CASE Crash
  BY <1>6 DEF Crash, Drawn, At, NoRequest, NoTick, past
<1>7. CASE RedisLoss \/ UNCHANGED vars
  BY <1>7 DEF RedisLoss, vars, past, Drawn, At
<1> QED
  BY <1>1, <1>2, <1>3, <1>4, <1>5, <1>6, <1>7 DEF Next

-----------------------------------------------------------------------------
(* Counting bytes. *)

\* A number stands for so many bytes.
LEMMA BytesOfOne ==
  ASSUME NEW id, NEW n \in Nat
  PROVE  IsFiniteSet({id} \X (1..n)) /\ Cardinality({id} \X (1..n)) = n
<1>1. IsFiniteSet({id}) /\ Cardinality({id}) = 1
  BY FS_Singleton
<1>2. IsFiniteSet(1..n) /\ Cardinality(1..n) = n
  <2>1. IsFiniteSet(1..n) /\ Cardinality(1..n) = IF 1 > n THEN 0 ELSE n - 1 + 1
    BY FS_Interval
  <2> QED
    BY <2>1
<1> DEFINE S == {id}  T == 1..n
<1> HIDE DEF S, T
<1>3. IsFiniteSet(S \X T) /\ Cardinality(S \X T) = Cardinality(S) * Cardinality(T)
  <2>1. IsFiniteSet(S) /\ IsFiniteSet(T)
    BY <1>1, <1>2 DEF S, T
  <2> QED
    BY <2>1, FS_Product
<1>4. Cardinality(S) * Cardinality(T) = n
  <2>1. Cardinality(S) = 1 /\ Cardinality(T) = n
    BY <1>1, <1>2 DEF S, T
  <2> QED
    BY <2>1
<1> QED
  BY <1>3, <1>4 DEF S, T

\* The bytes of finitely many reservations are finitely many.
LEMMA BytesFinite ==
  ASSUME NEW kept, NEW S, IsFiniteSet(S), \A id \in S : kept[id].size \in Nat
  PROVE  IsFiniteSet(Bytes(kept, S))
<1> DEFINE f == [id \in S |-> {id} \X (1..kept[id].size)]
           T == {{id} \X (1..kept[id].size) : id \in S}
<1>1. f \in Surjection(S, T)
  BY DEF Surjection
<1>2. IsFiniteSet(T)
  BY <1>1, FS_Surjection
<1>3. \A id \in S : IsFiniteSet({id} \X (1..kept[id].size))
  BY BytesOfOne
<1> QED
  BY <1>2, <1>3, FS_UNION DEF Bytes

\* One more reservation adds its size,
LEMMA BytesAdded ==
  ASSUME NEW kept, NEW S, IsFiniteSet(S), NEW id, id \notin S,
         \A i \in S \cup {id} : kept[i].size \in Nat
  PROVE  Cardinality(Bytes(kept, S \cup {id})) =
           Cardinality(Bytes(kept, S)) + kept[id].size
<1> DEFINE new == {id} \X (1..kept[id].size)
<1>1. IsFiniteSet(Bytes(kept, S))
  BY BytesFinite
<1>2. IsFiniteSet(new) /\ Cardinality(new) = kept[id].size
  BY BytesOfOne
<1>3. Bytes(kept, S \cup {id}) = Bytes(kept, S) \cup new
  BY DEF Bytes
<1>4. Bytes(kept, S) \cap new = {}
  BY DEF Bytes
<1>5. Cardinality(Bytes(kept, S) \cup new) =
        Cardinality(Bytes(kept, S)) + Cardinality(new) - Cardinality({})
  BY <1>1, <1>2, <1>4, FS_Union
<1> QED
  <2>1. Cardinality({}) = 0 /\ Cardinality(Bytes(kept, S)) \in Nat
    BY <1>1, FS_EmptySet, FS_CardinalityType
  <2> DEFINE b == Cardinality(Bytes(kept, S))  n == kept[id].size
  <2> HIDE DEF b, n
  <2>2. Cardinality(Bytes(kept, S \cup {id})) = b + n - 0
    BY <1>2, <1>3, <1>5, <2>1 DEF b, n
  <2>3. b \in Nat /\ n \in Nat
    BY <2>1 DEF b, n
  <2>4. b + n - 0 = b + n
    BY <2>3
  <2> QED
    BY <2>2, <2>4 DEF b, n

\* fewer have fewer bytes,
LEMMA BytesFewer ==
  ASSUME NEW kept, NEW S, IsFiniteSet(S), NEW T, T \subseteq S,
         \A id \in S : kept[id].size \in Nat
  PROVE  /\ Cardinality(Bytes(kept, T)) <= Cardinality(Bytes(kept, S))
         /\ Cardinality(Bytes(kept, T)) \in Nat
         /\ Cardinality(Bytes(kept, S)) \in Nat
<1>1. IsFiniteSet(Bytes(kept, S))
  BY BytesFinite
<1>2. Bytes(kept, T) \subseteq Bytes(kept, S)
  BY DEF Bytes
<1> QED
  BY <1>1, <1>2, FS_Subset, FS_CardinalityType

\* and only the sizes matter.
LEMMA BytesAgree ==
  ASSUME NEW kept, NEW other, NEW S, \A id \in S : kept[id].size = other[id].size
  PROVE  Bytes(kept, S) = Bytes(other, S)
<1>1. \A id \in S : {id} \X (1..kept[id].size) = {id} \X (1..other[id].size)
  OBVIOUS
<1> QED
  BY <1>1 DEF Bytes

-----------------------------------------------------------------------------
(* Live reservations are backed by reserved bytes (LiveRecordsBacked).     *)
(*                                                                         *)
(* The bytes of an id are followed from the grant to the statement that    *)
(* settles them, also while no record tells them any more: everybody who   *)
(* may still settle them knows the user and the size they were granted     *)
(* for.                                                                    *)

\* A handler at one of these labels may still give back, or charge, the bytes of
\* its id.
Owing == {"save", "undoSave", "claim", "undoQuota", "loseQuota", "relQuota", "charge"}
HolderOf(g, r) ==
    /\ r.pc \in Owing \cup {"presign", "relLoad", "comLoad"} => g[r.id].user = r.user
    /\ r.pc \in Owing => g[r.id].size = r.size

\* g tells the user and size each id was granted for, and all who know the id
\* agree with it.
GrantedAs(g) ==
    /\ \A id \in issued : g[id] \in Records
    /\ \A id \in Ids :
          Live(id) => g[id].user = records[id].user /\ g[id].size = records[id].size
    /\ \A id \in Ids : Reserved(id) => g[id].user = handed[id].user
    /\ \A p \in Procs : HolderOf(g, req[p])
    /\ tick.pc = "sweepRelease" =>
          /\ tick.id \in issued
          /\ g[tick.id].user = tick.rec.user /\ g[tick.id].size = tick.rec.size

\* Those not charged or given back yet are covered by what the user has reserved.
OwedTo(g, u) == {id \in issued \ settled : g[id].user = u}
Backed(g) ==
    \A u \in Users \ disturbed : reserved[u] >= Cardinality(Bytes(g, OwedTo(g, u)))

BytesBacked ==
    /\ IsFiniteSet(issued)
    /\ \E g \in [Ids -> Records \cup {NoRecord}] : GrantedAs(g) /\ Backed(g)

\* The sizes that are counted are numbers.
LEMMA OwedFinite ==
  ASSUME NEW g, \A id \in issued : g[id] \in Records, IsFiniteSet(issued), NEW u
  PROVE  /\ IsFiniteSet(OwedTo(g, u))
         /\ \A id \in issued : g[id].size \in Nat
         /\ Cardinality(Bytes(g, OwedTo(g, u))) \in Nat
<1>1. OwedTo(g, u) \subseteq issued
  BY DEF OwedTo
<1>2. \A id \in issued : g[id].size \in Nat
  BY QuotaAssumption DEF Records
<1> QED
  BY <1>1, <1>2, FS_Subset, BytesFewer

\* Steps that take no bytes from anyone, or say so.
LEMMA BackedSpared ==
  ASSUME NEW g, Backed(g), UNCHANGED <<issued, settled>>,
         \A id \in issued : g[id] \in Records, IsFiniteSet(issued), TypeOK, TypeOK',
         \A u \in Users \ disturbed' : u \notin disturbed /\ reserved'[u] >= reserved[u]
  PROVE  Backed(g)'
<1> SUFFICES ASSUME NEW u \in Users \ disturbed'
             PROVE  reserved'[u] >= Cardinality(Bytes(g, OwedTo(g, u)'))
  BY DEF Backed
<1>1. OwedTo(g, u)' = OwedTo(g, u)
  BY DEF OwedTo
<1>2. reserved[u] >= Cardinality(Bytes(g, OwedTo(g, u))) /\ reserved'[u] >= reserved[u]
  BY DEF Backed
<1>3. Cardinality(Bytes(g, OwedTo(g, u))) \in Nat
  BY OwedFinite
<1>4. reserved[u] \in Nat /\ reserved'[u] \in Nat
  BY DEF TypeOK, LedgerTypeOK
<1> QED
  BY <1>1, <1>2, <1>3, <1>4

\* The bytes of an id are charged or given back: once they are its own, a second
\* time the user is disturbed.
LEMMA BackedSettle ==
  ASSUME NEW g, Backed(g), UNCHANGED issued,
         \A id \in issued : g[id] \in Records, IsFiniteSet(issued), TypeOK,
         NEW id \in issued, HasReserved(g[id].user, g[id].size),
         reserved' = [reserved EXCEPT ![g[id].user] = @ - g[id].size],
         Settle(g[id].user, id)
  PROVE  Backed(g)'
<1> SUFFICES ASSUME NEW u \in Users \ disturbed'
             PROVE  reserved'[u] >= Cardinality(Bytes(g, OwedTo(g, u)'))
  BY DEF Backed
<1>0. /\ reserved \in [Users -> Nat] /\ reserved[u] \in Nat /\ g[id].user \in Users
      /\ g[id].size \in Nat
  BY OwedFinite DEF TypeOK, LedgerTypeOK, Records
<1>1. u \notin disturbed /\ reserved[u] >= Cardinality(Bytes(g, OwedTo(g, u)))
  BY DEF Backed, Settle
<1>2. Cardinality(Bytes(g, OwedTo(g, u))) \in Nat
  BY OwedFinite
<1>3. CASE g[id].user # u
  <2>1. OwedTo(g, u)' = OwedTo(g, u)
    BY <1>3 DEF OwedTo, Settle
  <2>2. reserved'[u] = reserved[u]
    BY <1>0, <1>3
  <2> QED
    BY <1>1, <2>1, <2>2
<1>4. CASE g[id].user = u
  <2>1. id \notin settled
    BY <1>4 DEF Settle
  <2> DEFINE rest == OwedTo(g, u) \ {id}
  <2>2. OwedTo(g, u)' = rest
    BY DEF OwedTo, Settle
  <2>3. OwedTo(g, u) = rest \cup {id}
    BY <1>4, <2>1 DEF OwedTo
  <2>4. IsFiniteSet(rest) /\ rest \subseteq issued
    BY OwedFinite, FS_Subset DEF OwedTo
  <2>5. Cardinality(Bytes(g, rest \cup {id})) = Cardinality(Bytes(g, rest)) + g[id].size
    <3>1. \A i \in rest \cup {id} : g[i].size \in Nat
      BY <2>4, OwedFinite
    <3> QED
      BY <2>4, <3>1, BytesAdded
  <2>6. Cardinality(Bytes(g, rest)) \in Nat
    BY <2>4, OwedFinite, BytesFewer
  <2> DEFINE b == Cardinality(Bytes(g, rest))  n == g[id].size
  <2> HIDE DEF b, n, rest
  <2>7. reserved'[u] = reserved[u] - n /\ reserved[u] >= b + n /\ b \in Nat /\ n \in Nat
    BY <1>0, <1>1, <1>4, <2>3, <2>5, <2>6 DEF b, n
  <2>8. reserved'[u] >= b
    BY <1>0, <2>7
  <2> QED
    BY <2>2, <2>8 DEF b
<1> QED
  BY <1>3, <1>4

\* The bytes of a new id are added.
LEMMA BackedGrant ==
  ASSUME NEW g, Backed(g), UNCHANGED <<settled, disturbed>>, settled \subseteq issued,
         \A i \in issued : g[i] \in Records, IsFiniteSet(issued), TypeOK,
         NEW id, id \notin issued, issued' = issued \cup {id},
         NEW h, h[id] \in Records, \A i \in issued : h[i] = g[i],
         reserved' = [reserved EXCEPT ![h[id].user] = @ + h[id].size]
  PROVE  Backed(h)'
<1> SUFFICES ASSUME NEW u \in Users \ disturbed
             PROVE  reserved'[u] >= Cardinality(Bytes(h, OwedTo(h, u)'))
  BY DEF Backed
<1> DEFINE owed == OwedTo(g, u)
<1>0. /\ reserved \in [Users -> Nat] /\ reserved[u] \in Nat
      /\ h[id].user \in Users /\ h[id].size \in Nat
  BY QuotaAssumption DEF TypeOK, LedgerTypeOK, Records
<1>1. reserved[u] >= Cardinality(Bytes(g, owed))
  BY DEF Backed
<1>2. /\ Cardinality(Bytes(g, owed)) \in Nat
      /\ IsFiniteSet(owed) /\ id \notin owed /\ \A i \in owed : g[i].size \in Nat
      /\ Bytes(h, owed) = Bytes(g, owed)
  <2>1. owed \subseteq issued
    BY DEF OwedTo
  <2>2. \A i \in owed : g[i].size = h[i].size
    BY <2>1
  <2> QED
    BY <2>1, <2>2, OwedFinite, BytesAgree
<1> DEFINE b == Cardinality(Bytes(g, owed))  n == h[id].size
<1>3. CASE h[id].user # u
  <2>1. OwedTo(h, u)' = owed
    BY <1>3 DEF OwedTo
  <2>2. reserved'[u] = reserved[u]
    BY <1>0, <1>3
  <2> QED
    BY <1>1, <1>2, <2>1, <2>2
<1>4. CASE h[id].user = u
  <2>1. OwedTo(h, u)' = owed \cup {id}
    BY <1>4 DEF OwedTo
  <2>2. Cardinality(Bytes(h, owed \cup {id})) = Cardinality(Bytes(h, owed)) + h[id].size
    <3>1. \A i \in owed \cup {id} : h[i].size \in Nat
      BY <1>0, <1>2 DEF OwedTo
    <3> HIDE DEF owed
    <3> QED
      BY <1>2, <3>1, BytesAdded
  <2> HIDE DEF owed, b, n
  <2>3. /\ reserved'[u] = reserved[u] + n /\ reserved[u] >= b /\ b \in Nat /\ n \in Nat
        /\ Cardinality(Bytes(h, owed \cup {id})) = b + n
    BY <1>0, <1>1, <1>2, <1>4, <2>2 DEF b, n
  <2>4. reserved'[u] >= b + n
    BY <1>0, <2>3
  <2> QED
    BY <2>1, <2>3, <2>4
<1> QED
  BY <1>3, <1>4

\* A statement on the row that settles an id, or none.
LEMMA BackedCall ==
  ASSUME NEW g, Backed(g), UNCHANGED issued,
         \A i \in issued : g[i] \in Records, IsFiniteSet(issued), TypeOK, TypeOK',
         NEW u, NEW n, NEW id \in issued, g[id].user = u, g[id].size = n,
         \/ (ReleaseStorage(u, n) \/ CommitStorage(u, n)) /\ Settle(u, id)
         \/ UNCHANGED ledgerVars /\ NotSettled
  PROVE  Backed(g)'
<1>1. CASE (ReleaseStorage(u, n) \/ CommitStorage(u, n)) /\ Settle(u, id)
  <2>1. HasReserved(u, n) /\ reserved' = [reserved EXCEPT ![u] = @ - n]
    BY <1>1 DEF ReleaseStorage, CommitStorage
  <2> QED
    BY <1>1, <2>1, BackedSettle
<1>2. CASE UNCHANGED ledgerVars /\ NotSettled
  <2>1. UNCHANGED <<reserved, settled, disturbed>>
    BY <1>2 DEF ledgerVars, NotSettled
  <2>2. \A v \in Users : reserved[v] \in Nat /\ reserved[v] >= reserved[v]
    BY DEF TypeOK, LedgerTypeOK
  <2> QED
    BY <2>1, <2>2, BackedSpared
<1> QED
  BY <1>1, <1>2

\* What the handlers do to the row.
LEMMA ServeBacked ==
  ASSUME TypeOK, TypeOK', OneReservation, NEW g, GrantedAs(g), Backed(g),
         IsFiniteSet(issued), NEW p \in Procs, Serve(p), ~Grant(p)
  PROVE  Backed(g)'
<1> USE DEF TypeOK
<1> DEFINE id == req[p].id  u == req[p].user  n == req[p].size
<1>0. req[p] \in Requests /\ HandlerOK(req[p]) /\ (id \in Ids => id \in issued)
  BY ReservationAssumption DEF HandlersOK, OneReservation, Known
<1>1. \A i \in issued : g[i] \in Records
  BY DEF GrantedAs
<1>2. CASE UndoSave(p) \/ UndoQuota(p) \/ RelQuota(p) \/ Charge(p)
  <2>1. req[p].pc \in Owing /\ id \in Ids
    BY <1>0, <1>2 DEF UndoSave, UndoQuota, RelQuota, Charge, At, Owing, HandlerOK
  <2>2. g[id].user = u /\ g[id].size = n /\ id \in issued
    BY <1>0, <2>1 DEF GrantedAs, HolderOf
  <2>3. \/ (ReleaseStorage(u, n) \/ CommitStorage(u, n)) /\ Settle(u, id)
        \/ UNCHANGED ledgerVars /\ NotSettled
    BY <1>2 DEF UndoSave, UndoQuota, RelQuota, Charge, ReleaseIgnored
  <2>4. UNCHANGED issued
    BY <1>2 DEF UndoSave, UndoQuota, RelQuota, Charge
  <2> QED
    BY <1>1, <2>2, <2>3, <2>4, BackedCall
<1>3. CASE PurgeQuota(p)
  <2>1. u \in Users /\ reserved \in [Users -> Nat]
    BY <1>0, <1>3 DEF PurgeQuota, At, HandlerOK, LedgerTypeOK
  <2>2. \A v \in Users \ disturbed' : v \notin disturbed /\ reserved'[v] >= reserved[v]
    BY <1>3, <2>1 DEF PurgeQuota, ResetStorageQuota, ledgerVars
  <2> QED
    BY <1>1, <1>3, <2>2, BackedSpared DEF PurgeQuota
<1>4. CASE ~(UndoSave(p) \/ UndoQuota(p) \/ RelQuota(p) \/ Charge(p) \/ PurgeQuota(p))
  <2>1. UNCHANGED <<reserved, issued, settled, disturbed>>
    BY <1>4 DEF Serve, Lookup, LoadExisting, Save, Claim, UndoRecord, Recheck,
       Reload, Presign, RelLoad, RelDelete, ComLoad, ComDelete, PurgeObjects, past,
       ledgerVars
  <2>2. \A v \in Users : reserved[v] >= reserved[v]
    BY DEF LedgerTypeOK
  <2> QED
    BY <1>1, <2>1, <2>2, BackedSpared
<1> QED
  BY <1>2, <1>3, <1>4

\* What they do with ids.
LEMMA HoldersMove ==
  ASSUME HandlersOK, NEW g, GrantedAs(g), NEW p \in Procs, NEW r, Move(p, r), HolderOf(g, r)
  PROVE  \A q \in Procs : HolderOf(g, req'[q])
BY DEF HandlersOK, GrantedAs, Move

\* Whoever learns an id, or the size of its record, agrees with g.
LEMMA ServeHolds ==
  ASSUME TypeOK, OneReservation, NEW g, GrantedAs(g), NEW p \in Procs, Serve(p), ~Grant(p)
  PROVE  \A q \in Procs : HolderOf(g, req'[q])
<1> USE DEF TypeOK
<1>0. req[p] \in Requests /\ HandlerOK(req[p]) /\ HolderOf(g, req[p])
  BY DEF HandlersOK, GrantedAs
<1>1. ASSUME NEW l, Goto(p, l),
             l \in Owing => req[p].pc \in Owing,
             l \in {"presign", "relLoad"} => req[p].pc \in Owing \cup {"presign", "relLoad"},
             l # "comLoad"
      PROVE  \A q \in Procs : HolderOf(g, req'[q])
  <2> DEFINE r == [req[p] EXCEPT !.pc = l]
  <2>1. r.pc = l /\ r.id = req[p].id /\ r.user = req[p].user /\ r.size = req[p].size
    BY <1>0 DEF Requests
  <2>2. HolderOf(g, r)
    BY <1>0, <1>1, <2>1 DEF HolderOf, Owing
  <2> QED
    BY <1>1, <2>2, HoldersMove DEF Goto
<1>2. ASSUME Finish(p) PROVE \A q \in Procs : HolderOf(g, req'[q])
  <2>1. HolderOf(g, NoRequest)
    BY DEF HolderOf, Owing, NoRequest
  <2> QED
    BY <1>2, <2>1, HoldersMove DEF Finish
<1>3. ASSUME NEW r, Move(p, r), r.pc \notin Owing \cup {"presign", "relLoad", "comLoad"}
      PROVE  \A q \in Procs : HolderOf(g, req'[q])
  BY <1>3, HoldersMove DEF HolderOf
<1>4. CASE Lookup(p)
  <2>1. ASSUME Move(p, [req[p] EXCEPT !.pc = "loadExisting", !.seen = idem[req[p].user][req[p].key]])
        PROVE  \A q \in Procs : HolderOf(g, req'[q])
    BY <1>0, <1>3, <2>1 DEF Requests, Owing
  <2> QED
    BY <1>1, <1>4, <2>1 DEF Lookup, Owing
<1>5. CASE LoadExisting(p)
  <2>1. CASE Move(p, [req[p] EXCEPT !.pc = "grant", !.seen = NoId])
    BY <1>0, <1>3, <2>1 DEF Requests, Owing
  <2> DEFINE r == [req[p] EXCEPT !.pc = "presign", !.id = req[p].seen]
  <2>2. CASE Live(req[p].seen) /\ Move(p, r)
    <3>1. r.pc = "presign" /\ r.id = req[p].seen /\ r.user = req[p].user
      BY <1>0 DEF Requests
    <3>2. records[req[p].seen].user = req[p].user /\ req[p].seen \in Ids
      BY <1>0, <1>5, <2>2 DEF LoadExisting, At, HandlerOK, OneReservation,
         HandlersKnow, HandlerKnows, Pinned, Matches
    <3>3. HolderOf(g, r)
      BY <2>2, <3>1, <3>2 DEF GrantedAs, HolderOf, Owing
    <3> QED
      BY <2>2, <3>3, HoldersMove
  <2> QED
    BY <1>5, <2>1, <2>2 DEF LoadExisting
<1>6. CASE Save(p)
  BY <1>6, <1>1 DEF Save, At, Owing
<1>7. CASE Claim(p)
  BY <1>7, <1>1 DEF Claim, At, Owing
<1>8. CASE UndoSave(p) \/ RelDelete(p) \/ ComDelete(p) \/ PurgeQuota(p)
  BY <1>8, <1>2 DEF UndoSave, RelDelete, ComDelete, PurgeQuota
<1>9. CASE UndoQuota(p) \/ UndoRecord(p) \/ RelQuota(p) \/ Charge(p) \/ PurgeObjects(p)
  BY <1>9, <1>1, <1>2 DEF UndoQuota, UndoRecord, RelQuota, Charge, PurgeObjects, Owing
<1>10. CASE Recheck(p)
  <2>1. ASSUME Move(p, [req[p] EXCEPT !.pc = "reload", !.seen = idem[req[p].user][req[p].key], !.id = NoId])
        PROVE  \A q \in Procs : HolderOf(g, req'[q])
    BY <1>0, <1>3, <2>1 DEF Requests, Owing
  <2> QED
    BY <1>2, <1>10, <2>1 DEF Recheck
<1>11. CASE Reload(p)
  <2> DEFINE r == [req[p] EXCEPT !.pc = "presign", !.id = req[p].seen]
  <2>2. CASE Live(req[p].seen) /\ Move(p, r)
    <3>1. r.pc = "presign" /\ r.id = req[p].seen /\ r.user = req[p].user
      BY <1>0 DEF Requests
    <3>2. records[req[p].seen].user = req[p].user /\ req[p].seen \in Ids
      BY <1>0, <1>11, <2>2 DEF Reload, At, HandlerOK, OneReservation,
         HandlersKnow, HandlerKnows, Pinned, Matches
    <3>3. HolderOf(g, r)
      BY <2>2, <3>1, <3>2 DEF GrantedAs, HolderOf, Owing
    <3> QED
      BY <2>2, <3>3, HoldersMove
  <2> QED
    BY <1>11, <1>2, <2>2 DEF Reload
<1>12. CASE Presign(p)
  BY <1>12, <1>1, <1>2 DEF Presign, At, Owing
<1>13. CASE RelLoad(p)
  <2> DEFINE r == [req[p] EXCEPT !.pc = "relQuota", !.size = records[req[p].id].size]
  <2>1. CASE Live(req[p].id) /\ Move(p, r)
    <3>1. /\ r.pc = "relQuota" /\ r.id = req[p].id /\ r.user = req[p].user
          /\ r.size = records[req[p].id].size
      BY <1>0 DEF Requests
    <3>2. req[p].id \in Ids /\ g[req[p].id].user = req[p].user
      BY <1>0, <1>13 DEF RelLoad, At, HandlerOK, HolderOf
    <3>3. HolderOf(g, r)
      BY <2>1, <3>1, <3>2 DEF GrantedAs, HolderOf, Owing
    <3> QED
      BY <2>1, <3>3, HoldersMove
  <2> QED
    BY <1>13, <1>2, <2>1 DEF RelLoad
<1>14. CASE ComLoad(p)
  <2> DEFINE r == [req[p] EXCEPT !.pc = "charge", !.size = records[req[p].id].size]
  <2>1. CASE Live(req[p].id) /\ Move(p, r)
    <3>1. /\ r.pc = "charge" /\ r.id = req[p].id /\ r.user = req[p].user
          /\ r.size = records[req[p].id].size
      BY <1>0 DEF Requests
    <3>2. req[p].id \in Ids /\ g[req[p].id].user = req[p].user
      BY <1>0, <1>14 DEF ComLoad, At, HandlerOK, HolderOf
    <3>3. HolderOf(g, r)
      BY <2>1, <3>1, <3>2 DEF GrantedAs, HolderOf, Owing
    <3> QED
      BY <2>1, <3>3, HoldersMove
  <2> QED
    BY <1>14, <1>2, <2>1 DEF ComLoad
<1> QED
  BY <1>4, <1>5, <1>6, <1>7, <1>8, <1>9, <1>10, <1>11, <1>12, <1>13, <1>14 DEF Serve

\* The records they write, and the ids they hand out, agree with it too.
LEMMA ServeGranted ==
  ASSUME TypeOK, OneReservation, NEW g, GrantedAs(g), NEW p \in Procs, Serve(p), ~Grant(p)
  PROVE  GrantedAs(g)' /\ UNCHANGED issued
<1> USE DEF TypeOK
<1>0. req[p] \in Requests /\ HandlerOK(req[p]) /\ HolderOf(g, req[p])
  BY DEF HandlersOK, GrantedAs
<1>1. UNCHANGED <<issued, tick>>
  BY DEF Serve, Lookup, LoadExisting, Save, UndoSave, Claim, UndoQuota, UndoRecord,
     Recheck, Reload, Presign, RelLoad, RelQuota, RelDelete, ComLoad, Charge,
     ComDelete, PurgeObjects, PurgeQuota, past
<1>2. \A id \in Ids :
        Live(id)' => g[id].user = records'[id].user /\ g[id].size = records'[id].size
  <2>1. CASE Save(p)
    <3>1. /\ req[p].id \in Ids /\ g[req[p].id].user = req[p].user
          /\ g[req[p].id].size = req[p].size
      BY <1>0, <2>1 DEF Save, At, HandlerOK, HolderOf, Owing
    <3> QED
      BY <2>1, <3>1 DEF Save, GrantedAs, Live, RedisOK
  <2>2. CASE UndoRecord(p) \/ RelDelete(p) \/ ComDelete(p)
    <3>1. req[p].id \in Ids
      BY <1>0, <2>2 DEF UndoRecord, RelDelete, ComDelete, At, HandlerOK
    <3>2. \A i \in Ids : Live(i)' => records'[i] = records[i]
      BY <2>2, <3>1, QuietDelete DEF UndoRecord, RelDelete, ComDelete
    <3> QED
      BY <3>2 DEF GrantedAs, Live
  <2>3. CASE ~(Save(p) \/ UndoRecord(p) \/ RelDelete(p) \/ ComDelete(p))
    <3>1. UNCHANGED records
      BY <2>3 DEF Serve, Lookup, LoadExisting, UndoSave, Claim, UndoQuota,
         Recheck, Reload, Presign, RelLoad, RelQuota, ComLoad, Charge,
         PurgeObjects, PurgeQuota, redis
    <3> QED
      BY <3>1 DEF GrantedAs, Live
  <2> QED
    BY <2>1, <2>2, <2>3
<1>3. \A id \in Ids : Reserved(id)' => g[id].user = handed'[id].user
  <2>1. CASE Presign(p)
    <3>1. req[p].id \in Ids /\ g[req[p].id].user = req[p].user
      BY <1>0, <2>1 DEF Presign, At, HandlerOK, HolderOf
    <3> QED
      BY <2>1, <3>1 DEF Presign, GrantedAs, Reserved, PastOK
  <2>2. CASE ~Presign(p)
    <3>1. UNCHANGED handed
      BY <2>2 DEF Serve, Lookup, LoadExisting, Save, UndoSave, Claim, UndoQuota,
         UndoRecord, Recheck, Reload, RelLoad, RelQuota, RelDelete, ComLoad, Charge,
         ComDelete, PurgeObjects, PurgeQuota, past
    <3> QED
      BY <3>1 DEF GrantedAs, Reserved
  <2> QED
    BY <2>1, <2>2
<1>4. \A q \in Procs : HolderOf(g, req'[q])
  BY ServeHolds
<1> QED
  BY <1>1, <1>2, <1>3, <1>4 DEF GrantedAs

\* A new id: g is extended by it.
LEMMA GrantBacked ==
  ASSUME TypeOK, TypeOK', OneReservation, Drawn, BytesBacked, NEW p \in Procs, Grant(p)
  PROVE  BytesBacked'
<1> USE DEF TypeOK
<1>0. /\ req[p] \in Requests /\ req[p].user \in Users /\ req[p].size \in Sizes
      /\ req[p].key \in Keys \cup {NoKey}
  BY DEF Grant, HandlersOK, HandlerOK, At, Requests
<1>1. PICK g \in [Ids -> Records \cup {NoRecord}] : GrantedAs(g) /\ Backed(g)
  BY DEF BytesBacked
<1>2. UNCHANGED <<records, handed, tick, settled, disturbed>>
  BY DEF Grant, redis
<1>3. IsFiniteSet(issued) /\ \A i \in issued : g[i] \in Records
  BY <1>1 DEF BytesBacked, GrantedAs
<1>4. ASSUME NEW id \in Ids \ issued, ReserveStorage(req[p].user, req[p].size),
             issued' = issued \cup {id},
             Move(p, [req[p] EXCEPT !.pc = "save", !.id = id])
      PROVE  BytesBacked'
  <2>1. PICK h \in [Ids -> Records \cup {NoRecord}] :
           /\ h[id] \in Records /\ h[id].user = req[p].user /\ h[id].size = req[p].size
           /\ \A i \in Ids : i # id => h[i] = g[i]
    <3> DEFINE rec == [user |-> req[p].user, key |-> req[p].key, size |-> req[p].size]
    <3>1. rec \in Records
      BY <1>0 DEF Records
    <3> DEFINE f == [g EXCEPT ![id] = rec]
    <3>2. f \in [Ids -> Records \cup {NoRecord}]
      BY <3>1
    <3>3. f[id] = rec /\ \A i \in Ids : i # id => f[i] = g[i]
      OBVIOUS
    <3> HIDE DEF f
    <3> QED
      BY <3>1, <3>2, <3>3
  <2>2. IsFiniteSet(issued')
    BY <1>3, <1>4, FS_AddElement
  <2>3. Backed(h)'
    <3>1. reserved' = [reserved EXCEPT ![h[id].user] = @ + h[id].size]
      BY <1>4, <2>1 DEF ReserveStorage
    <3>2. \A i \in issued : h[i] = g[i]
      BY <1>4, <2>1 DEF PastOK
    <3>3. settled \subseteq issued /\ h[id] \in Records
      BY <2>1 DEF Drawn
    <3> QED
      BY <1>1, <1>2, <1>3, <1>4, <3>1, <3>2, <3>3, BackedGrant
  <2>4. /\ req'[p].pc = "save" /\ req'[p].id = id /\ req'[p].user = req[p].user
        /\ req'[p].size = req[p].size
        /\ \A q \in Procs \ {p} : req'[q] = req[q]
    BY <1>0, <1>4 DEF Move, HandlersOK, Requests
  <2>5. GrantedAs(h)'
    <3>1. \A i \in issued' : h[i] \in Records
      BY <1>3, <1>4, <2>1 DEF PastOK
    <3>2. \A i \in Ids : Live(i) \/ Reserved(i) => i \in issued
      BY DEF OneReservation, Known
    <3>3. ASSUME NEW q \in Procs PROVE HolderOf(h, req'[q])
      <4>1. CASE q = p
        BY <2>1, <2>4, <4>1 DEF HolderOf
      <4>2. CASE q # p
        <5>1. HolderOf(g, req[q]) /\ HandlerOK(req[q])
          BY <1>1 DEF GrantedAs, HandlersOK
        <5>2. req[q].pc \in Owing \cup {"presign", "relLoad", "comLoad"} =>
                req[q].id \in Ids /\ req[q].id # id
          BY <1>4, <5>1, ReservationAssumption
          DEF HandlerOK, Owing, OneReservation, Known
        <5> QED
          BY <2>1, <2>4, <4>2, <5>1, <5>2 DEF HolderOf
      <4> QED
        BY <4>1, <4>2
    <3>4. tick.pc = "sweepRelease" => tick.id \in issued /\ tick.id # id /\ tick.id \in Ids
      BY <1>1, <1>4 DEF GrantedAs, PastOK
    <3> QED
      BY <1>1, <1>2, <1>4, <2>1, <3>1, <3>2, <3>3, <3>4 DEF GrantedAs, Live, Reserved
  <2> QED
    BY <2>1, <2>2, <2>3, <2>5 DEF BytesBacked
<1>5. CASE /\ Finish(p) /\ UNCHANGED issued
           /\ UNCHANGED ledgerVars \/ ReserveStorage(req[p].user, req[p].size)
  <2>1. \A u \in Users : reserved'[u] >= reserved[u]
    <3>1. CASE UNCHANGED ledgerVars
      BY <3>1 DEF ledgerVars, LedgerTypeOK
    <3>2. CASE ReserveStorage(req[p].user, req[p].size)
      <4>1. req[p].size \in Nat
        BY <1>0, QuotaAssumption
      <4> QED
        BY <1>0, <3>2, <4>1 DEF ReserveStorage, LedgerTypeOK
    <3> QED
      BY <1>5, <3>1, <3>2
  <2>2. Backed(g)'
    BY <1>1, <1>2, <1>3, <1>5, <2>1, BackedSpared
  <2>3. HolderOf(g, NoRequest)
    BY DEF HolderOf, Owing, NoRequest
  <2>4. \A q \in Procs : HolderOf(g, req'[q])
    BY <1>1, <1>5, <2>3, HoldersMove DEF Finish
  <2>5. GrantedAs(g)'
    BY <1>1, <1>2, <1>5, <2>4 DEF GrantedAs, Live, Reserved
  <2> QED
    BY <1>3, <1>5, <2>2, <2>5 DEF BytesBacked
<1> QED
  BY <1>4, <1>5 DEF Grant

\* Requests, clients, the clock, crashes and a loss of Redis.
LEMMA OthersBacked ==
  ASSUME TypeOK, TypeOK', NEW g, GrantedAs(g), Backed(g), IsFiniteSet(issued),
         \/ \E p \in Procs : Request(p)
         \/ Client \/ Clock \/ Crash \/ RedisLoss \/ UNCHANGED vars
  PROVE  GrantedAs(g)' /\ Backed(g)' /\ UNCHANGED issued
<1> USE DEF TypeOK
<1>1. UNCHANGED <<issued, settled, handed>>
  BY DEF Request, StartUpload, StartCommit, StartPurge, Client, CommitDirect,
     PutObject, DeleteStorageObject, Clock, TimePasses, EvictRecord, EvictKey,
     Crash, RedisLoss, vars, past
<1>2. \A u \in Users \ disturbed' : u \notin disturbed /\ reserved'[u] >= reserved[u]
  <2>1. ASSUME NEW u \in Users, NEW n \in Sizes, CommitDirect(u, n)
        PROVE  \A v \in Users \ disturbed' : v \notin disturbed /\ reserved'[v] >= reserved[v]
    BY <2>1 DEF CommitDirect, CommitStorage, LedgerTypeOK
  <2>2. CASE UNCHANGED <<reserved, disturbed>>
    BY <2>2 DEF LedgerTypeOK
  <2>3. UNCHANGED <<reserved, disturbed>> \/ \E u \in Users, n \in Sizes : CommitDirect(u, n)
    BY DEF Request, StartUpload, StartCommit, StartPurge, Client,
       PutObject, DeleteStorageObject, Clock, TimePasses, EvictRecord, EvictKey,
       Crash, RedisLoss, vars, past, ledgerVars
  <2> QED
    BY <2>1, <2>2, <2>3
<1>3. Backed(g)'
  BY <1>1, <1>2, BackedSpared DEF GrantedAs
<1>4. \A id \in Ids : Live(id)' => records'[id] = records[id]
  BY DEF Request, StartUpload, StartCommit, StartPurge, Client, CommitDirect,
     PutObject, DeleteStorageObject, Clock, TimePasses, EvictRecord, EvictKey,
     Crash, RedisLoss, vars, redis, Live, RedisOK
<1>5. tick' \in {tick, NoTick}
  BY DEF Request, StartUpload, StartCommit, StartPurge, Client, CommitDirect,
     PutObject, DeleteStorageObject, Clock, TimePasses, EvictRecord, EvictKey,
     Crash, RedisLoss, vars
<1>6. ASSUME NEW p \in Procs PROVE HolderOf(g, req'[p])
  <2>0. HolderOf(g, req[p]) /\ HolderOf(g, NoRequest)
    BY DEF GrantedAs, HolderOf, Owing, NoRequest
  <2>1. ASSUME NEW q \in Procs, Request(q) PROVE HolderOf(g, req'[p])
    <3>1. ASSUME NEW u \in Users, NEW k \in Keys \cup {NoKey}, NEW n \in Sizes,
                 StartUpload(q, u, k, n)
          PROVE  HolderOf(g, req'[p])
      <4> DEFINE r == [NoRequest EXCEPT !.pc = IF k = NoKey THEN "grant" ELSE "lookup",
                                        !.user = u, !.key = k, !.size = n]
      <4>1. HolderOf(g, r)
        BY DEF HolderOf, Owing, NoRequest
      <4> QED
        BY <3>1, <4>1, HoldersMove DEF StartUpload
    <3>2. ASSUME NEW id \in Ids, StartCommit(q, id) PROVE HolderOf(g, req'[p])
      <4> DEFINE r == [NoRequest EXCEPT !.pc = "comLoad", !.user = handed[id].user,
                                        !.id = id]
      <4>1. HolderOf(g, r)
        BY <3>2 DEF HolderOf, Owing, NoRequest, StartCommit, GrantedAs
      <4> QED
        BY <3>2, <4>1, HoldersMove DEF StartCommit
    <3>3. ASSUME NEW u \in Users, StartPurge(q, u) PROVE HolderOf(g, req'[p])
      <4> DEFINE r == [NoRequest EXCEPT !.pc = "purge", !.user = u]
      <4>1. HolderOf(g, r)
        BY DEF HolderOf, Owing, NoRequest
      <4> QED
        BY <3>3, <4>1, HoldersMove DEF StartPurge
    <3> QED
      BY <2>1, <3>1, <3>2, <3>3 DEF Request
  <2>2. UNCHANGED req \/ req' = [q \in Procs |-> NoRequest] \/ \E q \in Procs : Request(q)
    BY DEF Client, CommitDirect, PutObject, DeleteStorageObject, Clock, TimePasses,
       EvictRecord, EvictKey, Crash, RedisLoss, vars
  <2> QED
    BY <2>0, <2>1, <2>2
<1> QED
  BY <1>1, <1>3, <1>4, <1>5, <1>6 DEF GrantedAs, Live, Reserved, NoTick

\* The tick gives bytes back for records it has read, or disturbs the user.
LEMMA TickBacked ==
  ASSUME TypeOK, TypeOK', OneReservation, NEW g, GrantedAs(g), Backed(g),
         IsFiniteSet(issued), Tick
  PROVE  GrantedAs(g)' /\ Backed(g)' /\ UNCHANGED issued
<1> USE DEF TypeOK
<1>1. UNCHANGED <<req, issued, handed>>
  BY DEF Tick, TickHealth, SweepKeys, SweepRelease, SweepDelete,
     CollectKeys, ListReserved, ReconKeys, TickDone, SweepGet, ScanGet,
     CollectUser, ReconRelease, DeleteOrphan, TickFrame
<1>2. \A id \in Ids : Live(id)' => records'[id] = records[id]
  <2>1. CASE SweepDelete
    BY <2>1, QuietDelete DEF SweepDelete, TickAt, TickOK
  <2>2. CASE ~SweepDelete
    <3>1. UNCHANGED records
      BY <2>2 DEF Tick, TickHealth, SweepKeys, SweepRelease,
         CollectKeys, ListReserved, ReconKeys, TickDone, SweepGet, ScanGet,
         CollectUser, ReconRelease, DeleteOrphan, redis
    <3> QED
      BY <3>1
  <2> QED
    BY <2>1, <2>2
<1>3. tick'.pc = "sweepRelease" =>
        \/ tick' = tick
        \/ \E id \in Ids : Live(id) /\ tick'.id = id /\ tick'.rec = records[id]
  <2> USE DEF TickOK, Ticks
  <2>1. CASE TickHealth \/ SweepKeys \/ SweepRelease \/ SweepDelete \/ CollectKeys
    BY <2>1 DEF TickHealth, SweepKeys, SweepRelease, SweepDelete, CollectKeys,
       TickGoto, SweepBack
  <2>2. CASE ListReserved \/ ReconKeys \/ TickDone
    <3>1. \/ tick' = NoTick
          \/ tick' = [tick EXCEPT !.pc = "reconKeys", !.listed = ReservedUsers]
          \/ tick' = [tick EXCEPT !.pc = "recon", !.todo = LiveIds]
      BY <2>2 DEF ListReserved, ReconKeys, TickDone
    <3>2. NoTick.pc = "idle"
      BY DEF NoTick
    <3> QED
      BY <3>1, <3>2
  <2>3. ASSUME NEW id \in Ids, SweepGet(id)
        PROVE  tick'.pc = "sweepRelease" => Live(id) /\ tick'.id = id /\ tick'.rec = records[id]
    BY <2>3 DEF SweepGet, TickAt
  <2>4. ASSUME NEW id \in Ids, ScanGet(id)
        PROVE  tick'.pc # "sweepRelease"
    BY <2>4 DEF ScanGet, TickAt
  <2>5. ASSUME NEW u \in Users, CollectUser(u) \/ ReconRelease(u)
        PROVE  tick'.pc # "sweepRelease"
    <3>1. CASE ReconRelease(u)
      BY <3>1 DEF ReconRelease, TickAt
    <3>2. CASE CollectUser(u)
      BY <3>2 DEF CollectUser, TickAt
    <3> QED
      BY <2>5, <3>1, <3>2
  <2>6. ASSUME NEW o \in tick.doomed, DeleteOrphan(o)
        PROVE  tick'.pc # "sweepRelease"
    BY <2>6 DEF DeleteOrphan, TickAt
  <2> QED
    BY <2>1, <2>2, <2>3, <2>4, <2>5, <2>6 DEF Tick
<1>4. GrantedAs(g)'
  <2>1. ASSUME tick'.pc = "sweepRelease"
        PROVE  /\ tick'.id \in issued
               /\ g[tick'.id].user = tick'.rec.user /\ g[tick'.id].size = tick'.rec.size
    <3>1. CASE tick' = tick
      BY <2>1, <3>1 DEF GrantedAs
    <3>2. ASSUME NEW id \in Ids, Live(id), tick'.id = id, tick'.rec = records[id]
          PROVE  /\ tick'.id \in issued
                 /\ g[tick'.id].user = tick'.rec.user /\ g[tick'.id].size = tick'.rec.size
      BY <3>2 DEF GrantedAs, OneReservation, Known
    <3> QED
      BY <1>3, <2>1, <3>1, <3>2
  <2> QED
    BY <1>1, <1>2, <2>1 DEF GrantedAs, Live, Reserved
<1>5. Backed(g)'
  <2>0. \A i \in issued : g[i] \in Records
    BY DEF GrantedAs
  <2>1. CASE SweepRelease
    <3> DEFINE u == tick.rec.user  n == tick.rec.size
    <3>1. tick.id \in issued /\ g[tick.id].user = u /\ g[tick.id].size = n
      BY <2>1 DEF SweepRelease, TickAt, GrantedAs
    <3>2. \/ ReleaseStorage(u, n) /\ Settle(u, tick.id)
          \/ UNCHANGED ledgerVars /\ NotSettled
      BY <2>1 DEF SweepRelease
    <3> QED
      BY <1>1, <2>0, <3>1, <3>2, BackedCall
  <2>2. ASSUME NEW u \in Users, ReconRelease(u)
        PROVE  Backed(g)'
    <3>1. \A v \in Users \ disturbed' : v \notin disturbed /\ reserved'[v] >= reserved[v]
      BY <2>2 DEF ReconRelease, ReleaseAllReservedStorage, LedgerTypeOK, ledgerVars
    <3>2. UNCHANGED settled
      BY <2>2 DEF ReconRelease
    <3> QED
      BY <1>1, <2>0, <3>1, <3>2, BackedSpared
  <2>3. CASE UNCHANGED <<reserved, settled, disturbed>>
    <3>1. \A v \in Users : reserved[v] >= reserved[v]
      BY DEF LedgerTypeOK
    <3> QED
      BY <1>1, <2>0, <2>3, <3>1, BackedSpared
  <2>4. \/ SweepRelease \/ UNCHANGED <<reserved, settled, disturbed>>
        \/ \E u \in Users : ReconRelease(u)
    BY DEF Tick, TickHealth, SweepKeys, SweepDelete,
       CollectKeys, ListReserved, ReconKeys, TickDone, SweepGet, ScanGet,
       CollectUser, DeleteOrphan, ledgerVars
  <2> QED
    BY <2>1, <2>2, <2>3, <2>4
<1> QED
  BY <1>1, <1>4, <1>5

\* Every step.
LEMMA BackedStep ==
  ASSUME TypeOK, OneReservation, Drawn, BytesBacked, [Next]_vars
  PROVE  BytesBacked'
<1>0. TypeOK'
  BY StepOK
<1>1. PICK g \in [Ids -> Records \cup {NoRecord}] : GrantedAs(g) /\ Backed(g)
  BY DEF BytesBacked
<1>2. ASSUME NEW p \in Procs, Grant(p) PROVE BytesBacked'
  BY <1>0, <1>2, GrantBacked
<1>3. ASSUME NEW p \in Procs, Serve(p), ~Grant(p) PROVE BytesBacked'
  <2>1. GrantedAs(g)' /\ UNCHANGED issued
    BY <1>1, <1>3, ServeGranted
  <2>2. Backed(g)'
    BY <1>0, <1>1, <1>3, ServeBacked DEF BytesBacked
  <2> QED
    BY <2>1, <2>2 DEF BytesBacked
<1>4. CASE \/ \E p \in Procs : Request(p)
           \/ Client \/ Clock \/ Crash \/ RedisLoss \/ UNCHANGED vars
  <2>1. GrantedAs(g)' /\ Backed(g)' /\ UNCHANGED issued
    BY <1>0, <1>1, <1>4, OthersBacked DEF BytesBacked
  <2> QED
    BY <2>1 DEF BytesBacked
<1>5. CASE Tick
  <2>1. GrantedAs(g)' /\ Backed(g)' /\ UNCHANGED issued
    BY <1>0, <1>1, <1>5, TickBacked DEF BytesBacked
  <2> QED
    BY <2>1 DEF BytesBacked
<1> QED
  BY <1>2, <1>3, <1>4, <1>5 DEF Next

\* What is owed to a user includes the live reservations in Redis.
LEMMA BackedLive ==
  ASSUME TypeOK, OneReservation, BytesBacked
  PROVE  LiveRecordsBacked
<1> USE DEF TypeOK
<1>1. PICK g \in [Ids -> Records \cup {NoRecord}] : GrantedAs(g) /\ Backed(g)
  BY DEF BytesBacked
<1> SUFFICES ASSUME NEW u \in Users \ disturbed
             PROVE  reserved[u] >= Cardinality(Bytes(records,
                      {id \in LiveIds \ settled : records[id].user = u}))
  BY DEF LiveRecordsBacked
<1> DEFINE unsettled == {id \in LiveIds \ settled : records[id].user = u}
<1>2. \A id \in unsettled : g[id].size = records[id].size /\ id \in OwedTo(g, u)
  BY <1>1 DEF GrantedAs, LiveIds, OwedTo, OneReservation, Known
<1>3. Bytes(g, unsettled) = Bytes(records, unsettled)
  BY <1>2, BytesAgree
<1>4. /\ IsFiniteSet(OwedTo(g, u)) /\ \A id \in OwedTo(g, u) : g[id].size \in Nat
      /\ unsettled \subseteq OwedTo(g, u)
  <2>1. IsFiniteSet(issued) /\ \A id \in issued : g[id] \in Records
    BY <1>1 DEF GrantedAs, BytesBacked
  <2>2. IsFiniteSet(OwedTo(g, u)) /\ \A id \in issued : g[id].size \in Nat
    BY <2>1, OwedFinite
  <2> QED
    BY <1>2, <2>2 DEF OwedTo
<1> HIDE DEF unsettled
<1>5. /\ Cardinality(Bytes(g, unsettled)) <= Cardinality(Bytes(g, OwedTo(g, u)))
      /\ Cardinality(Bytes(g, unsettled)) \in Nat
      /\ Cardinality(Bytes(g, OwedTo(g, u))) \in Nat
  BY <1>4, BytesFewer
<1>6. reserved[u] >= Cardinality(Bytes(g, OwedTo(g, u))) /\ reserved[u] \in Nat
  BY <1>1 DEF Backed, LedgerTypeOK
<1> QED
  BY <1>3, <1>5, <1>6 DEF unsettled

-----------------------------------------------------------------------------
(* While nothing fails no record is forgotten (RecordHasOwner), nor left   *)
(* behind without its bytes (SettledRecordIsLeaving).                      *)

Leaving == {"undoRecord", "loseRecord", "relDelete", "comDelete"}
Failing == {"undoSave", "undoQuota", "undoRecord", "relLoad", "relQuota", "relDelete"}
HandlerTidy(r) ==
    /\ r.pc \notin Failing
    /\ r.pc = "recheck" => r.id \notin LiveIds
    /\ r.pc \in {"comLoad", "charge", "comDelete"} => Reserved(r.id)
Owned(id) == Reserved(id) \/ \E p \in Procs : req[p].id = id
Leaves(id) ==
    \/ \E p \in Procs : req[p].id = id /\ req[p].pc \in Leaving
    \/ tick.pc = "sweepDelete" /\ tick.id = id
Tidy ==
    /\ \A id \in LiveIds : Owned(id)
    /\ \A id \in LiveIds \cap settled : Leaves(id)
    /\ \A p \in Procs : HandlerTidy(req[p])

\* A step of a handler: the record of its id may appear when it was saving it, and
\* goes when it is the last to have the id or has settled it.
Passes(p) ==
    /\ \A q \in Procs \ {p} : req'[q] = req[q]
    /\ UNCHANGED tick
    /\ \A id \in Ids : Live(id)' => Live(id) \/ (At(p, "save") /\ id = req[p].id)
    /\ \A id \in Ids : Reserved(id) => Reserved(id)'
    /\ HandlerTidy(req[p])'
    /\ \A id \in Ids : id = req[p].id /\ Live(id)' =>
          (Reserved(id)' \/ req'[p].id = id) /\ req[p].pc \notin Leaving
    /\ \/ settled' = settled
       \/ settled' = settled \cup {req[p].id} /\ req'[p].id = req[p].id /\ req'[p].pc \in Leaving

\* Such a step forgets no record.
LEMMA PassesOK ==
  ASSUME TypeOK, OneReservation, Drawn, Tidy, NEW p \in Procs, Passes(p)
  PROVE  Tidy'
<1>1. ASSUME NEW id \in Ids, Live(id)' PROVE Owned(id)'
  <2>1. CASE id = req[p].id
    BY <1>1, <2>1 DEF Passes, Owned
  <2>2. CASE id # req[p].id
    <3>1. Owned(id)
      BY <1>1, <2>2 DEF Passes, Tidy, LiveIds
    <3> QED
      BY <2>2, <3>1 DEF Passes, Owned
  <2> QED
    BY <2>1, <2>2
<1>2. ASSUME NEW id \in Ids, Live(id)', id \in settled' PROVE Leaves(id)'
  <2>1. CASE id \notin settled
    BY <1>2, <2>1 DEF Passes, Leaves
  <2>2. CASE id \in settled
    <3>1. ~(At(p, "save") /\ id = req[p].id)
      BY <2>2 DEF Drawn
    <3>2. Leaves(id)
      BY <1>2, <2>2, <3>1 DEF Passes, Tidy, LiveIds
    <3>3. ~(req[p].id = id /\ req[p].pc \in Leaving)
      BY <1>2 DEF Passes
    <3> QED
      BY <3>2, <3>3 DEF Passes, Leaves
  <2> QED
    BY <2>1, <2>2
<1>3. ASSUME NEW q \in Procs PROVE HandlerTidy(req[q])'
  <2>1. CASE q = p
    BY <2>1 DEF Passes
  <2>2. CASE q # p
    <3>1. req'[q] = req[q] /\ HandlerTidy(req[q]) /\ HandlerOK(req[q])
      BY <2>2 DEF Passes, Tidy, TypeOK, HandlersOK
    <3>2. At(q, "recheck") => req[q].id \notin LiveIds'
      <4>1. At(p, "save") => req[q].id # req[p].id
        BY <2>2 DEF OneReservation, Fresh
      <4>2. At(q, "recheck") => req[q].id \notin LiveIds
        BY <3>1 DEF HandlerTidy, At
      <4> QED
        BY <4>1, <4>2 DEF Passes, LiveIds
    <3>3. req[q].pc \in {"comLoad", "charge", "comDelete"} => Reserved(req[q].id)'
      BY <3>1 DEF HandlerTidy, HandlerOK, Passes
    <3> QED
      BY <3>1, <3>2, <3>3 DEF HandlerTidy, At
  <2> QED
    BY <2>1, <2>2
<1> QED
  BY <1>1, <1>2, <1>3 DEF Tidy, LiveIds

\* The calls of a handler, when they work.
LEMMA TidyMove ==
  ASSUME TypeOK, Drawn, Tidy, NEW p \in Procs, NEW r, Move(p, r),
         UNCHANGED <<tick, handed>>,
         \A id \in Ids : Live(id)' => Live(id) \/ (At(p, "save") /\ id = req[p].id),
         HandlerTidy(r)',
         \A id \in Ids : id = req[p].id /\ Live(id)' =>
            (Reserved(id) \/ r.id = id) /\ req[p].pc \notin Leaving,
         \/ settled' = settled
         \/ settled' = settled \cup {req[p].id} /\ r.id = req[p].id /\ r.pc \in Leaving
  PROVE  Passes(p)
<1>1. req'[p] = r /\ \A q \in Procs \ {p} : req'[q] = req[q]
  BY DEF Move, TypeOK, HandlersOK
<1>2. \A id \in Ids : Reserved(id)' <=> Reserved(id)
  BY DEF Reserved
<1>3. HandlerTidy(req[p])'
  BY <1>1 DEF HandlerTidy, LiveIds, Live, Reserved
<1> QED
  BY <1>1, <1>2, <1>3 DEF Passes

\* While calls work every step of a handler is such: the error paths are not taken.
LEMMA ServeTidy ==
  ASSUME TypeOK, OneReservation, Drawn, Tidy, NEW p \in Procs, Serve(p), Works
  PROVE  Passes(p)
<1> USE DEF TypeOK
<1>0. /\ req[p] \in Requests /\ HandlerOK(req[p]) /\ HandlerTidy(req[p])
      /\ faults \in Nat
  BY ReservationAssumption DEF HandlersOK, Tidy
<1>00. ~Fault
  BY <1>0 DEF Fault, Works
<1>01. UNCHANGED tick
  BY DEF Serve, Lookup, LoadExisting, Grant, Save, UndoSave, Claim, UndoQuota, UndoRecord,
     Recheck, Reload, Presign, RelLoad, RelQuota, RelDelete, ComLoad, Charge,
     ComDelete, PurgeObjects, PurgeQuota
<1>1. CASE Lookup(p) \/ LoadExisting(p) \/ Grant(p) \/ Reload(p) \/ PurgeObjects(p) \/ PurgeQuota(p)
  <2>1. req[p].id = NoId /\ req[p].id \notin Ids
    BY <1>1, ReservationAssumption
    DEF Drawn, Lookup, LoadExisting, Grant, Reload, PurgeObjects, PurgeQuota, At, Unnamed
  <2>2. UNCHANGED <<records, handed, settled>>
    BY <1>1 DEF Lookup, LoadExisting, Grant, Reload, PurgeObjects, PurgeQuota, redis, past
  <2>3. ASSUME NEW r, Move(p, r), r.pc \notin Failing \cup {"recheck", "comLoad", "charge", "comDelete"}
        PROVE  Passes(p)
    BY <1>01, <2>1, <2>2, <2>3, TidyMove DEF HandlerTidy, Live
  <2>4. CASE Lookup(p)
    <3>1. ASSUME Move(p, [req[p] EXCEPT !.pc = "loadExisting", !.seen = idem[req[p].user][req[p].key]])
          PROVE  Passes(p)
      BY <1>0, <2>3, <3>1 DEF Requests, Failing
    <3>2. ASSUME Goto(p, "grant") PROVE Passes(p)
      BY <1>0, <2>3, <3>2 DEF Requests, Failing, Goto
    <3> QED
      BY <2>4, <3>1, <3>2 DEF Lookup
  <2>5. CASE LoadExisting(p)
    <3>1. ASSUME Move(p, [req[p] EXCEPT !.pc = "presign", !.id = req[p].seen])
          PROVE  Passes(p)
      BY <1>0, <2>3, <3>1 DEF Requests, Failing
    <3>2. ASSUME Move(p, [req[p] EXCEPT !.pc = "grant", !.seen = NoId]) PROVE Passes(p)
      BY <1>0, <2>3, <3>2 DEF Requests, Failing
    <3> QED
      BY <2>5, <3>1, <3>2 DEF LoadExisting
  <2>6. ASSUME Finish(p) PROVE Passes(p)
    BY <2>3, <2>6 DEF Finish, NoRequest, Failing
  <2>7. CASE Grant(p)
    <3>1. ASSUME NEW id \in Ids, Move(p, [req[p] EXCEPT !.pc = "save", !.id = id])
          PROVE  Passes(p)
      BY <1>0, <2>3, <3>1 DEF Requests, Failing
    <3> QED
      BY <2>6, <2>7, <3>1 DEF Grant
  <2>8. CASE Reload(p)
    <3>1. ASSUME Move(p, [req[p] EXCEPT !.pc = "presign", !.id = req[p].seen])
          PROVE  Passes(p)
      BY <1>0, <2>3, <3>1 DEF Requests, Failing
    <3> QED
      BY <2>6, <2>8, <3>1 DEF Reload
  <2>9. CASE PurgeObjects(p) \/ PurgeQuota(p)
    <3>1. ASSUME Goto(p, "purgeQuota") PROVE Passes(p)
      BY <1>0, <2>3, <3>1 DEF Requests, Failing, Goto
    <3> QED
      BY <2>6, <2>9, <3>1 DEF PurgeObjects, PurgeQuota
  <2> QED
    BY <1>1, <2>4, <2>5, <2>7, <2>8, <2>9
<1>2. ASSUME NEW l, Goto(p, l), UNCHANGED handed, l \notin Failing,
             \A id \in Ids : Live(id)' => Live(id) \/ (At(p, "save") /\ id = req[p].id),
             l = "recheck" => ~(req[p].id \in Ids /\ records'[req[p].id] # NoRecord),
             l \in {"comLoad", "charge", "comDelete"} => Reserved(req[p].id),
             \A id \in Ids : id = req[p].id /\ Live(id)' => req[p].pc \notin Leaving,
             \/ settled' = settled
             \/ settled' = settled \cup {req[p].id} /\ l \in Leaving
      PROVE  Passes(p)
  <2>1. PICK r : r = [req[p] EXCEPT !.pc = l]
    OBVIOUS
  <2>2. r.pc = l /\ r.id = req[p].id /\ Move(p, r)
    BY <1>0, <1>2, <2>1 DEF Requests, Goto
  <2>3. HandlerTidy(r)'
    BY <1>2, <2>2 DEF HandlerTidy, Reserved, LiveIds, Live
  <2> QED
    BY <1>01, <1>2, <2>2, <2>3, TidyMove
<1>3. ASSUME Finish(p), UNCHANGED <<handed, settled>>,
             \A id \in Ids : Live(id)' => Live(id),
             \A id \in Ids : id = req[p].id /\ Live(id)' =>
                Reserved(id) /\ req[p].pc \notin Leaving
      PROVE  Passes(p)
  <2>1. PICK r : r = NoRequest
    OBVIOUS
  <2>2. r.pc = "idle" /\ Move(p, r)
    BY <1>3, <2>1 DEF NoRequest, Finish
  <2>3. HandlerTidy(r)'
    BY <2>2 DEF HandlerTidy, Failing
  <2> QED
    BY <1>01, <1>3, <2>2, <2>3, TidyMove
<1>4. CASE Save(p)
  <2>1. \A id \in Ids : Live(id)' => Live(id) \/ id = req[p].id
    BY <1>4 DEF Save, Live, RedisOK
  <2>2. UNCHANGED <<handed, settled>> /\ At(p, "save")
    BY <1>4 DEF Save, past
  <2>3. Goto(p, "presign") \/ Goto(p, "claim")
    BY <1>00, <1>4 DEF Save
  <2> QED
    BY <1>2, <2>1, <2>2, <2>3 DEF Failing, Leaving, At
<1>5. CASE Claim(p)
  <2>1. UNCHANGED <<records, handed, settled>> /\ At(p, "claim")
    BY <1>5 DEF Claim, past
  <2>2. Goto(p, "presign") \/ Goto(p, "loseQuota")
    BY <1>00, <1>5 DEF Claim
  <2> QED
    BY <1>2, <2>1, <2>2 DEF Failing, Leaving, At, Live
<1>6. CASE UndoQuota(p)
  <2>1. UNCHANGED <<records, handed>> /\ At(p, "loseQuota") /\ Goto(p, "loseRecord")
    BY <1>0, <1>6 DEF UndoQuota, redis, HandlerTidy, Failing, At
  <2>2. settled' = settled \/ settled' = settled \cup {req[p].id}
    BY <1>6 DEF UndoQuota, ReleaseIgnored, Settle, NotSettled
  <2> QED
    BY <1>2, <2>1, <2>2 DEF Failing, Leaving, At, Live
<1>7. CASE UndoRecord(p)
  <2>1. UNCHANGED <<settled, handed>> /\ At(p, "loseRecord") /\ Goto(p, "recheck")
    BY <1>0, <1>7 DEF UndoRecord, past, HandlerTidy, Failing, At
  <2>2. records' = [records EXCEPT ![req[p].id] = NoRecord] /\ req[p].id \in Ids
    BY <1>0, <1>00, <1>7, <2>1 DEF UndoRecord, DeleteIgnored, HandlerOK, At
  <2> QED
    BY <1>2, <2>1, <2>2 DEF Failing, Live, RedisOK
<1>8. CASE Recheck(p)
  <2>1. UNCHANGED <<records, handed, settled>> /\ req[p].id \notin LiveIds
    BY <1>0, <1>8 DEF Recheck, redis, past, HandlerTidy, At
  <2>2. CASE Finish(p)
    BY <1>3, <2>1, <2>2 DEF Live, LiveIds
  <2>3. CASE Move(p, [req[p] EXCEPT !.pc = "reload", !.seen = idem[req[p].user][req[p].key],
                                    !.id = NoId])
    <3>1. PICK r : r = [req[p] EXCEPT !.pc = "reload", !.seen = idem[req[p].user][req[p].key],
                                      !.id = NoId]
      OBVIOUS
    <3>2. r.pc = "reload" /\ Move(p, r)
      BY <1>0, <2>3, <3>1 DEF Requests
    <3>3. HandlerTidy(r)'
      BY <3>2 DEF HandlerTidy, Failing
    <3> QED
      BY <1>01, <2>1, <3>2, <3>3, TidyMove DEF Live, LiveIds
  <2> QED
    BY <1>8, <2>2, <2>3 DEF Recheck
<1>9. CASE Presign(p)
  <2>1. UNCHANGED <<records, settled>> /\ req[p].id \in Ids
    BY <1>0, <1>9 DEF Presign, redis, At, HandlerOK
  <2>2. /\ handed' = [handed EXCEPT ![req[p].id] = [user |-> req[p].user, key |-> req[p].key]]
        /\ Finish(p) /\ At(p, "presign") /\ req[p].user \in Users
    BY <1>0, <1>00, <1>9 DEF Presign, At, HandlerOK
  <2>3. /\ \A id \in Ids : Reserved(id) => Reserved(id)'
        /\ \A id \in Ids : id = req[p].id => Reserved(id)'
    BY <2>1, <2>2, ReservationAssumption DEF Reserved, PastOK, NoOwner
  <2>4. req'[p] = NoRequest /\ \A q \in Procs \ {p} : req'[q] = req[q]
    BY <2>2 DEF Finish, Move, HandlersOK
  <2>5. HandlerTidy(req[p])'
    BY <2>4 DEF HandlerTidy, NoRequest, Failing
  <2> QED
    BY <1>01, <2>1, <2>2, <2>3, <2>4, <2>5 DEF Passes, Live, At, Leaving
<1>10. CASE ComLoad(p)
  <2>1. UNCHANGED <<records, handed, settled>> /\ req[p].id \in Ids /\ Reserved(req[p].id)
        /\ At(p, "comLoad")
    BY <1>0, <1>10 DEF ComLoad, redis, past, HandlerTidy, At, HandlerOK
  <2>2. CASE Finish(p)
    BY <1>3, <2>1, <2>2 DEF Live, Leaving, At
  <2>3. CASE Move(p, [req[p] EXCEPT !.pc = "charge", !.size = records[req[p].id].size])
    <3>1. PICK r : r = [req[p] EXCEPT !.pc = "charge", !.size = records[req[p].id].size]
      OBVIOUS
    <3>2. r.pc = "charge" /\ r.id = req[p].id /\ Move(p, r)
      BY <1>0, <2>3, <3>1 DEF Requests
    <3>3. HandlerTidy(r)'
      BY <2>1, <3>2 DEF HandlerTidy, Failing, Reserved
    <3> QED
      BY <1>01, <2>1, <3>2, <3>3, TidyMove DEF Live, Leaving, At
  <2> QED
    BY <1>10, <2>2, <2>3 DEF ComLoad
<1>11. CASE Charge(p)
  <2>1. UNCHANGED <<records, handed>> /\ Reserved(req[p].id) /\ At(p, "charge")
    BY <1>0, <1>11 DEF Charge, redis, HandlerTidy, At, HandlerOK
  <2>2. \/ Finish(p) /\ settled' = settled
        \/ Goto(p, "comDelete") /\ (settled' = settled \/ settled' = settled \cup {req[p].id})
    BY <1>00, <1>11 DEF Charge, ReleaseIgnored, Settle, NotSettled
  <2>3. CASE Finish(p) /\ settled' = settled
    BY <1>3, <2>1, <2>3 DEF Live, Leaving, At
  <2>4. CASE Goto(p, "comDelete") /\ (settled' = settled \/ settled' = settled \cup {req[p].id})
    BY <1>2, <2>1, <2>4 DEF Live, Leaving, At, Failing
  <2> QED
    BY <2>2, <2>3, <2>4
<1>12. CASE ComDelete(p)
  <2>1. UNCHANGED <<settled, handed>> /\ Finish(p) /\ req[p].id \in Ids
    BY <1>0, <1>12 DEF ComDelete, past, At, HandlerOK
  <2>2. records' = [records EXCEPT ![req[p].id] = NoRecord]
    BY <1>00, <1>12 DEF ComDelete, DeleteIgnored
  <2> QED
    BY <1>3, <2>1, <2>2 DEF Live, RedisOK
<1>13. ~(UndoSave(p) \/ RelLoad(p) \/ RelQuota(p) \/ RelDelete(p))
  BY <1>0 DEF UndoSave, RelLoad, RelQuota, RelDelete, HandlerTidy, Failing, At
<1> QED
  BY <1>1, <1>4, <1>5, <1>6, <1>7, <1>8, <1>9, <1>10, <1>11, <1>12, <1>13 DEF Serve

\* The tick, when its calls work.
LEMMA TickTidy ==
  ASSUME TypeOK, OneReservation, Drawn, Tidy, Tick, Works
  PROVE  Tidy'
<1> USE DEF TypeOK
<1>1. UNCHANGED <<req, handed>>
  BY DEF Tick, TickHealth, SweepKeys, SweepRelease, SweepDelete,
     CollectKeys, ListReserved, ReconKeys, TickDone, SweepGet, ScanGet,
     CollectUser, ReconRelease, DeleteOrphan, TickFrame
<1>2. ~Fault
  BY ReservationAssumption DEF Fault, Works
<1>3. \A id \in Ids : Live(id)' => Live(id)
  <2>1. CASE SweepDelete
    BY <2>1 DEF SweepDelete, DeleteIgnored, TickAt, TickOK, Live, RedisOK
  <2>2. CASE ~SweepDelete
    BY <2>2 DEF Tick, TickHealth, SweepKeys, SweepRelease,
       CollectKeys, ListReserved, ReconKeys, TickDone, SweepGet, ScanGet,
       CollectUser, ReconRelease, DeleteOrphan, redis, Live
  <2> QED
    BY <2>1, <2>2
<1>4. \A id \in LiveIds' : Owned(id)'
  BY <1>1, <1>3 DEF Tidy, LiveIds, Owned, Reserved
<1>5. \A p \in Procs : HandlerTidy(req[p])'
  BY <1>1, <1>3 DEF Tidy, HandlerTidy, LiveIds, Reserved
<1>6. ASSUME NEW id \in Ids, Live(id)', id \in settled' PROVE Leaves(id)'
  <2>1. CASE SweepRelease
    <3>1. CASE settled' = settled
      <4>1. ~TickAt("sweepDelete")
        BY <2>1 DEF SweepRelease, TickAt
      <4> QED
        BY <1>1, <1>3, <1>6, <3>1, <4>1 DEF Tidy, LiveIds, Leaves, TickAt
    <3>2. CASE TickGoto("sweepDelete") /\ settled' = settled \cup {tick.id}
      <4>1. tick'.pc = "sweepDelete" /\ tick'.id = tick.id
        BY <3>2 DEF TickGoto, TickOK, Ticks
      <4>2. tick.pc = "sweepRelease"
        BY <2>1 DEF SweepRelease, TickAt
      <4> QED
        BY <1>1, <1>3, <1>6, <3>2, <4>1, <4>2 DEF Tidy, LiveIds, Leaves
    <3> QED
      BY <1>2, <2>1, <3>1, <3>2 DEF SweepRelease, Settle, NotSettled
  <2>2. CASE SweepDelete
    <3>1. records' = [records EXCEPT ![tick.id] = NoRecord] /\ tick.id \in Ids
      BY <1>2, <2>2 DEF SweepDelete, DeleteIgnored, TickAt, TickOK
    <3>2. id # tick.id /\ Live(id) /\ settled' = settled
      BY <1>6, <2>2, <3>1 DEF SweepDelete, Live, RedisOK
    <3> QED
      BY <1>1, <1>6, <3>2 DEF Tidy, LiveIds, Leaves
  <2>3. CASE ~SweepRelease /\ ~SweepDelete
    <3>1. settled' = settled /\ ~TickAt("sweepDelete")
      BY <2>3 DEF Tick, TickHealth, SweepKeys, CollectKeys, ListReserved, ReconKeys,
         TickDone, SweepGet, ScanGet, CollectUser, ReconRelease, DeleteOrphan, TickAt
    <3> QED
      BY <1>1, <1>3, <1>6, <3>1 DEF Tidy, LiveIds, Leaves, TickAt
  <2> QED
    BY <2>1, <2>2, <2>3
<1> QED
  BY <1>4, <1>5, <1>6 DEF Tidy, LiveIds

\* A request has no id, or one its client was given.
LEMMA RequestTidy ==
  ASSUME TypeOK, OneReservation, Drawn, Tidy, NEW p \in Procs, Request(p)
  PROVE  Passes(p)
<1> USE DEF TypeOK
<1>1. /\ UNCHANGED <<records, handed, settled, tick>> /\ req[p].id = NoId
      /\ NoId \notin Ids
  BY ReservationAssumption
  DEF Request, StartUpload, StartCommit, StartPurge, redis, past, Drawn, At, Unnamed
<1>2. ASSUME NEW r, Move(p, r), r.pc \notin Failing \cup {"recheck", "charge", "comDelete"},
             r.pc = "comLoad" => Reserved(r.id)
      PROVE  Passes(p)
  <2>1. HandlerTidy(r)'
    BY <1>1, <1>2 DEF HandlerTidy, Reserved
  <2> QED
    BY <1>1, <1>2, <2>1, TidyMove DEF Live
<1>3. ASSUME NEW u \in Users, NEW k \in Keys \cup {NoKey}, NEW n \in Sizes,
             StartUpload(p, u, k, n)
      PROVE  Passes(p)
  BY <1>2, <1>3 DEF StartUpload, NoRequest, Failing
<1>4. ASSUME NEW id \in Ids, StartCommit(p, id)
      PROVE  Passes(p)
  BY <1>2, <1>4 DEF StartCommit, NoRequest, Failing
<1>5. ASSUME NEW u \in Users, StartPurge(p, u)
      PROVE  Passes(p)
  BY <1>2, <1>5 DEF StartPurge, NoRequest, Failing
<1> QED
  BY <1>3, <1>4, <1>5 DEF Request

\* A call works or fails.
LEMMA ServeCalls ==
  ASSUME NEW p \in Procs, Serve(p)
  PROVE  (Works \/ Fault) /\ UNCHANGED crashes
<1>1. CASE \/ Lookup(p) \/ LoadExisting(p) \/ Grant(p) \/ Save(p) \/ Claim(p)
           \/ Recheck(p) \/ Reload(p) \/ Presign(p) \/ RelLoad(p) \/ RelQuota(p)
           \/ ComLoad(p) \/ PurgeObjects(p) \/ PurgeQuota(p)
  BY <1>1 DEF Lookup, LoadExisting, Grant, Save, Claim, Recheck, Reload, Presign,
     RelLoad, RelQuota, ComLoad, PurgeObjects, PurgeQuota
<1>2. CASE UndoSave(p) \/ UndoQuota(p) \/ Charge(p)
  BY <1>2 DEF UndoSave, UndoQuota, Charge, ReleaseIgnored
<1>3. CASE UndoRecord(p) \/ RelDelete(p) \/ ComDelete(p)
  BY <1>3 DEF UndoRecord, RelDelete, ComDelete, DeleteIgnored
<1> QED
  BY <1>1, <1>2, <1>3 DEF Serve

\* The same of the tick.
LEMMA TickCalls ==
  ASSUME Tick
  PROVE  (Works \/ Fault) /\ UNCHANGED crashes
<1>1. UNCHANGED crashes
  BY DEF Tick, TickHealth, SweepKeys, SweepRelease, SweepDelete, CollectKeys,
     ListReserved, ReconKeys, TickDone, SweepGet, ScanGet, CollectUser, ReconRelease,
     DeleteOrphan, TickFrame
<1>2. CASE \E id \in Ids : SweepGet(id) \/ ScanGet(id)
  BY <1>1, <1>2 DEF SweepGet, ScanGet, Works
<1>3. CASE TickDone \/ SweepDelete
  BY <1>1, <1>3 DEF TickDone, SweepDelete, DeleteIgnored, Works
<1>4. CASE \/ TickHealth \/ SweepKeys \/ SweepRelease \/ CollectKeys \/ ListReserved
           \/ ReconKeys \/ \E u \in Users : CollectUser(u) \/ ReconRelease(u)
           \/ \E o \in tick.doomed : DeleteOrphan(o)
  BY <1>1, <1>4 DEF TickHealth, SweepKeys, SweepRelease, CollectKeys, ListReserved,
     ReconKeys, CollectUser, ReconRelease, DeleteOrphan
<1> QED
  BY <1>1, <1>2, <1>3, <1>4 DEF Tick

\* Every step.
LEMMA TidyStep ==
  ASSUME TypeOK, OneReservation, Drawn, Untroubled => Tidy, [Next]_vars, Untroubled'
  PROVE  Tidy'
<1> USE ReservationAssumption DEF TypeOK
<1>0. ~Fault
  BY DEF Untroubled, Fault
<1>1. CASE \E p \in Procs : Serve(p)
  <2>1. PICK p \in Procs : Serve(p)
    BY <1>1
  <2>2. Works /\ UNCHANGED crashes
    BY <1>0, <2>1, ServeCalls
  <2>3. Tidy
    BY <2>2 DEF Untroubled, Works
  <2> QED
    BY <2>1, <2>2, <2>3, ServeTidy, PassesOK
<1>2. CASE \E p \in Procs : Request(p)
  <2>1. Tidy
    BY <1>2 DEF Untroubled, Request, StartUpload, StartCommit, StartPurge, budget
  <2> QED
    BY <1>2, <2>1, RequestTidy, PassesOK
<1>3. CASE Client \/ Clock \/ UNCHANGED vars
  <2>1. UNCHANGED <<req, tick, handed, settled, faults, crashes>>
    BY <1>3 DEF Client, CommitDirect, PutObject, DeleteStorageObject, Clock, TimePasses,
       EvictRecord, EvictKey, vars, past, budget
  <2>2. \A id \in Ids : Live(id)' => Live(id)
    BY <1>3 DEF Client, CommitDirect, PutObject, DeleteStorageObject, Clock, TimePasses,
       EvictRecord, EvictKey, vars, redis, Live, RedisOK
  <2> QED
    BY <2>1, <2>2 DEF Tidy, LiveIds, Owned, Leaves, HandlerTidy, Reserved, Untroubled
<1>4. CASE Tick
  <2>1. Works /\ UNCHANGED crashes
    BY <1>0, <1>4, TickCalls
  <2>2. Tidy
    BY <2>1 DEF Untroubled, Works
  <2> QED
    BY <1>4, <2>1, <2>2, TickTidy
<1>5. ~Crash /\ ~RedisLoss
  BY DEF Untroubled, Crash, RedisLoss, Fault
<1> QED
  BY <1>1, <1>2, <1>3, <1>4, <1>5 DEF Next

\* However uploads, commits, retries, expiry, purges and the tick interleave, and
\* whatever fails, every live reservation of an undisturbed user is backed by
\* reserved bytes; and until the first failure every record has an owner, and goes
\* once its bytes are settled.
THEOREM RecordsAreHeld == Spec => []RecordsHeld
<1> DEFINE Inv == OneReservation /\ Drawn /\ BytesBacked /\ (Untroubled => Tidy)
<1>1. Init => Inv
  <2> SUFFICES ASSUME Init PROVE Drawn /\ BytesBacked /\ Tidy
    BY InitOneReservation
  <2>1. \A p \in Procs : req[p] = NoRequest
    BY DEF Init
  <2>2. \A id \in Ids : ~Live(id) /\ ~Reserved(id)
    BY DEF Init, Live, Reserved
  <2>3. issued = {} /\ settled = {} /\ tick = NoTick
    BY DEF Init
  <2>4. Drawn
    BY <2>1, <2>3 DEF Drawn, NoRequest, NoTick, At
  <2>5. Tidy
    BY <2>1, <2>2, <2>3 DEF Tidy, LiveIds, HandlerTidy, NoRequest, Failing
  <2>6. BytesBacked
    <3> DEFINE g == [id \in Ids |-> NoRecord]
    <3>1. GrantedAs(g)
      BY <2>1, <2>2, <2>3 DEF GrantedAs, HolderOf, Owing, NoRequest, NoTick
    <3>2. Backed(g)
      <4>0. \A u \in Users : reserved[u] = 0
        BY DEF Init, LedgerInit
      <4>1. \A u : Bytes(g, OwedTo(g, u)) = {}
        BY <2>3 DEF OwedTo, Bytes
      <4> HIDE DEF g
      <4>2. Cardinality({}) = 0
        BY FS_EmptySet
      <4>3. ASSUME NEW u \in Users
            PROVE  reserved[u] >= Cardinality(Bytes(g, OwedTo(g, u)))
        <5>1. Cardinality(Bytes(g, OwedTo(g, u))) = 0
          BY <4>1, <4>2
        <5> QED
          BY <4>0, <5>1
      <4> QED
        BY <4>3 DEF Backed
    <3>3. g \in [Ids -> Records \cup {NoRecord}]
      OBVIOUS
    <3> HIDE DEF g
    <3> QED
      BY <2>3, <3>1, <3>2, <3>3, FS_EmptySet DEF BytesBacked
  <2> QED
    BY <2>4, <2>5, <2>6
<1>2. TypeOK /\ Inv /\ [Next]_vars => Inv'
  BY OneReservationStep, DrawnStep, BackedStep, TidyStep
<1>3. TypeOK /\ Inv => RecordsHeld
  <2> SUFFICES ASSUME TypeOK, Inv PROVE RecordsHeld
    OBVIOUS
  <2>1. RecordHasOwner
    BY DEF RecordHasOwner, Tidy, Owned
  <2>2. SettledRecordIsLeaving
    BY DEF SettledRecordIsLeaving, Tidy, Leaves, Leaving
  <2>3. LiveRecordsBacked
    BY BackedLive
  <2> QED
    BY <2>1, <2>2, <2>3 DEF RecordsHeld
<1> QED
  BY <1>1, <1>2, <1>3, TypeCorrect, PTL DEF Spec

\* The part of it that the requests alone are checked for: the reserved bytes of an
\* undisturbed user cover his unsettled reservations.
THEOREM LiveAreBacked == Spec => []LiveRecordsBacked
<1>1. RecordsHeld => LiveRecordsBacked
  BY DEF RecordsHeld
<1> QED
  BY <1>1, RecordsAreHeld, PTL
=============================================================================
