-------------------------- MODULE MasterKeyProofs --------------------------
(***************************************************************************)
(* Proofs about MasterKey, for any keys, passwords, kinds of data, request *)
(* goroutines, failures and restarts: type correctness, that no key the    *)
(* user's data depends on is in nobody's hands (NoKeyIsLost), and, for a   *)
(* careful client, that password, key and data fit together.               *)
(***************************************************************************)
EXTENDS MCMasterKey, TLAPS

USE MasterKeyAssumption DEF TypeOK

-----------------------------------------------------------------------------
(* What the building blocks of the actions preserve.                       *)

\* Replacing one handler by one that has what its label needs.
LEMMA MoveOK ==
  ASSUME HandlersOK, NEW p \in Procs, NEW r \in Requests, HandlerOK(r),
         Move(p, r)
  PROVE  HandlersOK'
BY DEF HandlersOK, Move

\* A handler may always return.
LEMMA FinishOK ==
  ASSUME HandlersOK, NEW p \in Procs, Finish(p)
  PROVE  HandlersOK'
<1>1. NoRequest \in Requests /\ HandlerOK(NoRequest)
  BY DEF NoRequest, Requests, Labels, Creating, HandlerOK
<1> QED
  BY <1>1, MoveOK DEF Finish

\* A handler may move to a label whose needs it already meets.
LEMMA GotoOK ==
  ASSUME HandlersOK, NEW p \in Procs, NEW label \in Labels, Goto(p, label),
         HandlerOK([req[p] EXCEPT !.pc = label])
  PROVE  HandlersOK'
<1>1. [req[p] EXCEPT !.pc = label] \in Requests
  BY DEF HandlersOK, Requests
<1> QED
  BY <1>1, MoveOK DEF Goto

\* A call that works costs nothing, a failed one is within the bound.
LEMMA CallOK ==
  ASSUME TypeOK, Works \/ Fault
  PROVE  faults' \in 0..MaxFaults
BY DEF Works, Fault

\* A request starts from an idle handler and changes nothing else.
LEMMA StartOK ==
  ASSUME TypeOK, NEW p \in Procs, NEW r \in Requests, HandlerOK(r), Start(p, r)
  PROVE  TypeOK'
<1>1. HandlersOK'
  BY MoveOK DEF Start
<1> QED
  BY <1>1 DEF Start, mysql, keys, user

-----------------------------------------------------------------------------
(* Type correctness.                                                       *)

\* Every request starts with what its first label needs.
LEMMA RequestOK ==
  ASSUME TypeOK, NEW p \in Procs, KeyRequest(p) \/ OtherRequest(p)
  PROVE  TypeOK'
<1> USE DEF NoRequest, Requests, Labels, Creating, HandlerOK
<1>1. ASSUME NEW pw \in Passwords, StartCreate(p, pw) \/ StartResetMalformed(p, pw)
      PROVE  TypeOK'
  BY <1>1, StartOK DEF StartCreate, StartResetMalformed
<1>2. ASSUME NEW raw \in kept \cup {NoKey}, NEW pw \in Passwords,
             StartRewrap(p, raw, pw) \/ StartReset(p, raw, pw)
      PROVE  TypeOK'
  BY <1>2, StartOK DEF StartRewrap, StartReset
<1>3. ASSUME NEW pw \in Passwords, StartLogin(p, pw) PROVE TypeOK'
  BY <1>3, StartOK DEF StartLogin
<1>4. CASE StartSetUserAPIKey(p)
  BY <1>4, StartOK DEF StartSetUserAPIKey
<1>5. ASSUME NEW kind \in SavedHere, StartSave(p, kind) PROVE TypeOK'
  BY <1>5, StartOK DEF StartSave, SavedHere
<1> QED
  BY <1>1, <1>2, <1>3, <1>4, <1>5 DEF KeyRequest, OtherRequest

\* The calls of CreateMasterKey.
LEMMA CreateOK ==
  ASSUME TypeOK, NEW p \in Procs,
         \/ Check(p) \/ Verify(p) \/ Generate(p) \/ GenRedis(p) \/ Load(p)
         \/ LoadRedis(p) \/ GetKey(p) \/ SaveKey(p) \/ EncRead(p) \/ EncWrite(p)
         \/ Deliver(p)
  PROVE  TypeOK'
<1> USE DEF mysql, keys, user
<1>0. req[p] \in Requests /\ HandlerOK(req[p])
  BY DEF HandlersOK
<1>1. CASE Check(p)
  <2>1. HandlersOK'
    BY <1>0, <1>1, GotoOK, FinishOK DEF Check, At, HandlerOK, Requests, Labels, Creating
  <2> QED
    BY <1>1, <2>1, CallOK DEF Check
<1>2. CASE Verify(p)
  <2>1. HandlersOK'
    BY <1>0, <1>2, GotoOK, FinishOK DEF Verify, At, HandlerOK, Requests, Labels, Creating
  <2> QED
    BY <1>2, <2>1, CallOK DEF Verify
<1>3. CASE Generate(p)
  <2>1. HandlersOK'
    BY <1>0, <1>3, MoveOK, FinishOK DEF Generate, At, HandlerOK, Requests, Labels, Creating
  <2> QED
    BY <1>3, <2>1 DEF Generate
<1>4. CASE GenRedis(p)
  <2>1. HandlersOK'
    BY <1>0, <1>4, GotoOK DEF GenRedis, At, HandlerOK, Requests, Labels, Creating
  <2>2. req[p].raw \in Keys
    BY <1>0, <1>4 DEF GenRedis, At, HandlerOK
  <2> QED
    BY <1>4, <2>1, <2>2, CallOK DEF GenRedis, RedisKey
<1>5. CASE Load(p)
  <2>1. HandlersOK'
    BY <1>0, <1>5, GotoOK DEF Load, At, HandlerOK, Requests, Labels, Creating
  <2> QED
    BY <1>0, <1>5, <2>1 DEF Load, At, HandlerOK, CacheKey
<1>6. CASE LoadRedis(p)
  <2>1. HandlersOK'
    BY <1>0, <1>6, GotoOK DEF LoadRedis, At, HandlerOK, Requests, Labels, Creating
  <2>2. req[p].raw \in Keys
    BY <1>0, <1>6 DEF LoadRedis, At, HandlerOK
  <2> QED
    BY <1>6, <2>1, <2>2, CallOK DEF LoadRedis, RedisKey
<1>7. CASE GetKey(p)
  <2>1. HandlersOK'
    BY <1>0, <1>7, MoveOK, FinishOK DEF GetKey, At, HandlerOK, Requests, Labels, Creating
  <2> QED
    BY <1>7, <2>1 DEF GetKey
<1>8. CASE SaveKey(p)
  <2>1. HandlersOK'
    BY <1>0, <1>8, MoveOK, FinishOK
    DEF SaveKey, StartEncrypting, At, HandlerOK, Requests, Labels, Creating
  <2>2. [key |-> req[p].raw, pw |-> req[p].pw] \in Wraps
    BY <1>0, <1>8 DEF SaveKey, At, HandlerOK, Creating, Wraps
  <2> QED
    BY <1>8, <2>1, <2>2, CallOK DEF SaveKey, SetWrapped
<1>9. CASE EncRead(p)
  <2>1. NextKind(p) => HandlersOK'
    BY <1>0, <1>9, MoveOK DEF EncRead, NextKind, At, HandlerOK, Requests, Labels, Creating
  <2>2. HandlersOK'
    BY <1>0, <1>9, <2>1, GotoOK, FinishOK DEF EncRead, At, HandlerOK, Requests, Labels, Creating
  <2> QED
    BY <1>9, <2>2, CallOK DEF EncRead
<1>10. CASE EncWrite(p)
  <2>1. NextKind(p) => HandlersOK'
    BY <1>0, <1>10, MoveOK DEF EncWrite, NextKind, At, HandlerOK, Requests, Labels, Creating
  <2>2. HandlersOK'
    BY <1>10, <2>1, FinishOK DEF EncWrite
  <2>3. req[p].mk \in Stored
    BY <1>0, <1>10 DEF EncWrite, At, HandlerOK, Stored
  <2>4. data' \in [Kinds -> Stored] /\ UNCHANGED <<hash, wrapped>>
    BY <1>10, <2>3 DEF EncWrite, Encrypts
  <2> QED
    BY <1>10, <2>2, <2>4, CallOK DEF EncWrite
<1>11. CASE Deliver(p)
  <2>1. HandlersOK'
    BY <1>11, FinishOK DEF Deliver
  <2>2. req[p].raw \in Keys
    BY <1>0, <1>11 DEF Deliver, At, HandlerOK
  <2> QED
    BY <1>11, <2>1, <2>2, CallOK DEF Deliver
<1> QED
  BY <1>1, <1>2, <1>3, <1>4, <1>5, <1>6, <1>7, <1>8, <1>9, <1>10, <1>11

\* The calls of RewrapOrReset and ResetPassword.
LEMMA ResetOK ==
  ASSUME TypeOK, NEW p \in Procs,
         \/ RewSave(p) \/ RewClear(p) \/ RewDelete(p) \/ ResPassword(p)
         \/ ResMalformed(p) \/ ResSave(p) \/ ResLoad(p) \/ ResRedis(p) \/ ResCheck(p)
         \/ ResDelete(p) \/ ResClear(p)
  PROVE  TypeOK'
<1> USE DEF mysql, keys, user
<1>0. req[p] \in Requests /\ HandlerOK(req[p])
  BY DEF HandlersOK
<1>1. CASE RewSave(p)
  <2>1. [key |-> req[p].raw, pw |-> req[p].pw] \in Wraps
    BY <1>0, <1>1 DEF RewSave, At, HandlerOK, Wraps
  <2> QED
    BY <1>1, <2>1, FinishOK, CallOK DEF RewSave, WriteLast, SetWrapped
<1>2. CASE RewClear(p)
  <2>1. HandlersOK'
    BY <1>0, <1>2, GotoOK, FinishOK
    DEF RewClear, Write, At, HandlerOK, Requests, Labels, Creating
  <2> QED
    BY <1>2, <2>1, CallOK DEF RewClear, Write, ClearWrapped
<1>3. CASE RewDelete(p)
  BY <1>3, FinishOK, CallOK DEF RewDelete, WriteLast, DeleteData, Stored
<1>4. CASE ResPassword(p)
  <2>1. req[p].pw \in Passwords
    BY <1>0, <1>4 DEF ResPassword, At, HandlerOK
  <2>2. HandlersOK'
    BY <1>0, <1>4, GotoOK, FinishOK
    DEF ResPassword, Write, At, HandlerOK, Requests, Labels, Creating
  <2> QED
    BY <1>4, <2>1, <2>2, CallOK DEF ResPassword, Write
<1>m. CASE ResMalformed(p)
  <2>1. req[p].pw \in Passwords
    BY <1>0, <1>m DEF ResMalformed, At, HandlerOK
  <2> QED
    BY <1>m, <2>1, FinishOK, CallOK DEF ResMalformed, WriteLast
<1>5. CASE ResSave(p)
  <2>1. [key |-> req[p].raw, pw |-> req[p].pw] \in Wraps
    BY <1>0, <1>5 DEF ResSave, At, HandlerOK, Wraps
  <2>2. HandlersOK'
    BY <1>0, <1>5, GotoOK, FinishOK
    DEF ResSave, Write, At, HandlerOK, Requests, Labels, Creating
  <2> QED
    BY <1>5, <2>1, <2>2, CallOK DEF ResSave, Write, SetWrapped
<1>6. CASE ResLoad(p)
  <2>1. HandlersOK'
    BY <1>0, <1>6, GotoOK DEF ResLoad, At, HandlerOK, Requests, Labels, Creating
  <2> QED
    BY <1>0, <1>6, <2>1 DEF ResLoad, At, HandlerOK, CacheKey
<1>7. CASE ResRedis(p)
  <2>1. req[p].raw \in Keys
    BY <1>0, <1>7 DEF ResRedis, At, HandlerOK
  <2> QED
    BY <1>7, <2>1, FinishOK, CallOK DEF ResRedis, RedisKey
<1>8. CASE ResCheck(p)
  <2>1. HandlersOK'
    BY <1>0, <1>8, GotoOK, FinishOK
    DEF ResCheck, At, HandlerOK, Requests, Labels, Creating
  <2> QED
    BY <1>8, <2>1, CallOK DEF ResCheck
<1>9. CASE ResDelete(p)
  <2>1. HandlersOK'
    BY <1>0, <1>9, GotoOK, FinishOK
    DEF ResDelete, Write, At, HandlerOK, Requests, Labels, Creating
  <2> QED
    BY <1>9, <2>1, CallOK DEF ResDelete, Write, DeleteData, Stored
<1>10. CASE ResClear(p)
  BY <1>10, FinishOK, CallOK DEF ResClear, WriteLast, ClearWrapped
<1> QED
  BY <1>1, <1>2, <1>3, <1>4, <1>m, <1>5, <1>6, <1>7, <1>8, <1>9, <1>10

\* The calls of a login and of the handlers that save data.
LEMMA UseOK ==
  ASSUME TypeOK, NEW p \in Procs,
         \/ LogRead(p) \/ LogLoad(p) \/ LogRedis(p)
         \/ Gate(p) \/ SetKey(p) \/ SaveWrite(p)
  PROVE  TypeOK'
<1> USE DEF mysql, keys, user
<1>0. req[p] \in Requests /\ HandlerOK(req[p])
  BY DEF HandlersOK
<1>1. CASE LogRead(p)
  <2>1. HasMasterKey => wrapped.key \in Keys
    BY DEF HasMasterKey, Wraps
  <2>2. HandlersOK'
    BY <1>0, <1>1, <2>1, MoveOK, FinishOK
    DEF LogRead, At, HandlerOK, Requests, Labels, Creating
  <2> QED
    BY <1>1, <2>2, CallOK DEF LogRead
<1>2. CASE LogLoad(p)
  <2>1. HandlersOK'
    BY <1>0, <1>2, GotoOK DEF LogLoad, At, HandlerOK, Requests, Labels, Creating
  <2> QED
    BY <1>0, <1>2, <2>1 DEF LogLoad, At, HandlerOK, CacheKey
<1>3. CASE LogRedis(p)
  <2>1. req[p].mk \in Keys
    BY <1>0, <1>3 DEF LogRedis, At, HandlerOK
  <2> QED
    BY <1>3, <2>1, FinishOK, CallOK DEF LogRedis, RedisKey
<1>4. CASE Gate(p)
  <2>1. HandlersOK'
    BY <1>0, <1>4, GotoOK, FinishOK DEF Gate, At, HandlerOK, Requests, Labels, Creating
  <2> QED
    BY <1>4, <2>1, CallOK DEF Gate
<1>5. CASE SetKey(p)
  <2>1. HandlersOK'
    BY <1>5, FinishOK DEF SetKey, WriteLast
  <2>2. data' \in [Kinds -> Stored] /\ UNCHANGED <<hash, wrapped>>
    BY <1>5 DEF SetKey, WriteLast, Stored
  <2> QED
    BY <1>5, <2>1, <2>2, CallOK DEF SetKey, WriteLast
<1>6. CASE SaveWrite(p)
  <2>1. HandlersOK'
    BY <1>6, FinishOK DEF SaveWrite, WriteLast
  <2>2. data' \in [Kinds -> Stored] /\ UNCHANGED <<hash, wrapped>>
    BY <1>0, <1>6 DEF SaveWrite, WriteLast, Stored, Requests
  <2> QED
    BY <1>6, <2>1, <2>2, CallOK DEF SaveWrite, WriteLast
<1> QED
  BY <1>1, <1>2, <1>3, <1>4, <1>5, <1>6

\* A restart drops the handlers; time only drops the copy in Redis.
LEMMA WorldOK ==
  ASSUME TypeOK, Restart \/ Expire
  PROVE  TypeOK'
<1>1. NoRequest \in Requests /\ HandlerOK(NoRequest)
  BY DEF NoRequest, Requests, Labels, Creating, HandlerOK
<1>2. CASE Restart
  <2>1. HandlersOK'
    BY <1>1, <1>2 DEF Restart, HandlersOK
  <2> QED
    BY <1>2, <2>1 DEF Restart, mysql, user
<1>3. CASE Expire
  BY <1>3 DEF Expire, mysql, user, HandlersOK
<1> QED
  BY <1>2, <1>3

\* TypeOK is inductive: HandlerOK says what each label of a handler needs.
LEMMA StepOK ==
  ASSUME TypeOK, [Next]_vars
  PROVE  TypeOK'
<1>1. CASE UNCHANGED vars
  BY <1>1 DEF vars, mysql, keys, user, HandlersOK
<1>2. ASSUME NEW p \in Procs, KeyRequest(p) \/ OtherRequest(p) \/ Serve(p)
      PROVE  TypeOK'
  BY <1>2, RequestOK, CreateOK, ResetOK, UseOK DEF Serve
<1> QED
  BY <1>1, <1>2, WorldOK DEF Next

\* No handler runs when the process starts.
LEMMA InitOK == Init => TypeOK
BY DEF Init, HandlersOK, NoRequest, Requests, Labels, Creating, HandlerOK, Stored

\* Every handler of the MasterKey has, at each of its calls, what the call
\* needs (a key to cache, a password to wrap under, a kind to encrypt), however
\* handlers, failed calls and restarts interleave.
THEOREM TypeCorrect == Spec => []TypeOK
BY InitOK, StepOK, PTL DEF Spec

-----------------------------------------------------------------------------
(* No key is lost (NoKeyIsLost), while no call fails and the process does  *)
(* not restart.                                                            *)
(*                                                                         *)
(* The property looks only at the row and the data, but what they will     *)
(* hold next comes from the cache and from the handlers, so the invariant  *)
(* AllHeld asks the same of every key there.  A creation is what holds its *)
(* key until the user has it: it must not give up in between, and the one  *)
(* way it could is to find the cache empty, which the last conjunct of     *)
(* HandlerHeld excludes.                                                   *)

\* The user has the key, or a creation that will deliver it does.
Held(k) ==
    k \in kept \/ \E p \in Procs : req[p].pc \in Creating /\ req[p].raw = k

HandlerHeld(r) ==
    /\ r.mk # NoKey => Held(r.mk)
    /\ r.pc \notin Creating /\ r.raw # NoKey => r.raw \in kept
    /\ r.pc \in {"check", "verify", "generate"} => r.raw = NoKey
    /\ r.pc \in Creating /\ r.raw # NoKey => cache # NoKey

AllHeld ==
    /\ \A k \in Keys : Indispensable(k) => Held(k)
    /\ cache # NoKey => Held(cache)
    /\ \A p \in Procs : HandlerHeld(req[p])

Custody == TypeOK /\ (Untroubled => AllHeld)

-----------------------------------------------------------------------------

\* A step that is free of failure so far follows a state free of failure.
LEMMA StaysUntroubled ==
  ASSUME TypeOK, Untroubled', Works \/ Fault, UNCHANGED restarts
  PROVE  Works /\ Untroubled
BY DEF Untroubled, Works, Fault

\* Moving one handler leaves the others where they are.
LEMMA Moved ==
  ASSUME TypeOK, NEW p \in Procs, NEW r, Move(p, r)
  PROVE  /\ req'[p] = r
         /\ \A q \in Procs \ {p} : req'[q] = req[q]
BY DEF HandlersOK, Move

\* A key stays held when its creation goes on or has given it to the user.
LEMMA StillHeld ==
  ASSUME NEW p \in Procs, \A q \in Procs \ {p} : req'[q] = req[q],
         kept \subseteq kept',
         req[p].pc \in Creating /\ req[p].raw # NoKey =>
            \/ req'[p].pc \in Creating /\ req'[p].raw = req[p].raw
            \/ req[p].raw \in kept',
         NEW k \in Keys, Held(k)
  PROVE  Held(k)'
<1>1. CASE k \in kept
  BY <1>1 DEF Held
<1>2. ASSUME NEW q \in Procs, req[q].pc \in Creating, req[q].raw = k
      PROVE  Held(k)'
  BY <1>2 DEF Held
<1> QED
  BY <1>1, <1>2 DEF Held

\* What a step of one handler must respect: it takes keys only from where they
\* are held, and a creation does not let go of its own.
LEMMA CustodyStep ==
  ASSUME TypeOK, TypeOK', AllHeld, NEW p \in Procs,
         \A q \in Procs \ {p} : req'[q] = req[q],
         kept \subseteq kept',
         req[p].pc \in Creating /\ req[p].raw # NoKey =>
            \/ req'[p].pc \in Creating /\ req'[p].raw = req[p].raw
            \/ req[p].raw \in kept',
         req'[p].mk # NoKey => Held(req'[p].mk),
         req'[p].pc \notin Creating /\ req'[p].raw # NoKey => req'[p].raw \in kept',
         req'[p].pc \in {"check", "verify", "generate"} => req'[p].raw = NoKey,
         req'[p].pc \in Creating /\ req'[p].raw # NoKey => cache' # NoKey,
         \/ cache' = cache
         \/ cache' # NoKey /\ Held(cache')
         \/ cache' # NoKey /\ req'[p].pc \in Creating /\ req'[p].raw = cache',
         \A k \in Keys : Indispensable(k)' => Indispensable(k) \/ Held(k)
  PROVE  AllHeld'
<1>1. \A k \in Keys : Held(k) => Held(k)'
  BY StillHeld
<1>2. \A q \in Procs : req[q] \in Requests /\ req'[q] \in Requests
  BY DEF HandlersOK
<1>3. \A k \in Keys : Indispensable(k)' => Held(k)'
  BY <1>1 DEF AllHeld
<1>4. cache' # NoKey => Held(cache)'
  <2>1. CASE cache' # NoKey /\ Held(cache')
    BY <1>1, <2>1 DEF Held
  <2>2. CASE cache' = cache
    BY <1>1, <2>2 DEF AllHeld, Held
  <2>3. CASE req'[p].pc \in Creating /\ req'[p].raw = cache'
    BY <2>3 DEF Held
  <2> QED
    BY <2>1, <2>2, <2>3
<1>5. \A q \in Procs : q # p => HandlerHeld(req[q])'
  <2> SUFFICES ASSUME NEW q \in Procs, q # p PROVE HandlerHeld(req[q])'
    OBVIOUS
  <2>1. req'[q] = req[q] /\ req[q].mk \in Keys \cup {NoKey}
    BY <1>2 DEF Requests
  <2>2. HandlerHeld(req[q])
    BY DEF AllHeld
  <2>3. cache # NoKey => cache' # NoKey
    OBVIOUS
  <2>4. req'[q].mk # NoKey => Held(req[q].mk)'
    BY <1>1, <2>1, <2>2 DEF HandlerHeld, Held
  <2> QED
    BY <2>1, <2>2, <2>3, <2>4 DEF HandlerHeld
<1>6. HandlerHeld(req[p])'
  <2>1. req'[p].mk \in Keys \cup {NoKey}
    BY <1>2 DEF Requests
  <2>2. req'[p].mk # NoKey => Held(req[p].mk)'
    BY <1>1, <2>1 DEF Held
  <2> QED
    BY <2>2 DEF HandlerHeld
<1> QED
  BY <1>3, <1>4, <1>5, <1>6 DEF AllHeld

-----------------------------------------------------------------------------
(* Every step that costs no failure respects that.                         *)

\* A request brings a key from the user or the cache, or none.
LEMMA RequestHeld ==
  ASSUME TypeOK, TypeOK', AllHeld, NEW p \in Procs,
         KeyRequest(p) \/ OtherRequest(p)
  PROVE  AllHeld'
<1>1. ASSUME NEW r, Start(p, r),
             r.mk = NoKey \/ r.mk = cache,
             r.pc \notin Creating => r.raw \in kept \cup {NoKey},
             r.pc \in Creating => r.raw = NoKey
      PROVE  AllHeld'
  <2>1. req'[p] = r /\ \A q \in Procs \ {p} : req'[q] = req[q]
    BY <1>1, Moved DEF Start
  <2>2. req[p].pc \notin Creating
    BY <1>1 DEF Start, At, Creating
  <2>3. UNCHANGED <<wrapped, data, cache, kept>>
    BY <1>1 DEF Start, mysql, keys, user
  <2>4. \A k \in Keys : Indispensable(k)' => Indispensable(k)
    BY <2>3 DEF Indispensable, HasMasterKey
  <2>5. r.mk # NoKey => Held(r.mk)
    BY <1>1 DEF AllHeld
  <2> QED
    BY <1>1, <2>1, <2>2, <2>3, <2>4, <2>5, CustodyStep DEF Creating
<1> USE <1>1 DEF NoRequest, Creating
<1>2. ASSUME NEW pw \in Passwords, StartCreate(p, pw) \/ StartResetMalformed(p, pw)
      PROVE  AllHeld'
  BY <1>2 DEF StartCreate, StartResetMalformed
<1>3. ASSUME NEW raw \in kept \cup {NoKey}, NEW pw \in Passwords,
             StartRewrap(p, raw, pw) \/ StartReset(p, raw, pw)
      PROVE  AllHeld'
  BY <1>3 DEF StartRewrap, StartReset
<1>4. ASSUME NEW pw \in Passwords, StartLogin(p, pw) PROVE AllHeld'
  BY <1>4 DEF StartLogin
<1>5. CASE StartSetUserAPIKey(p)
  BY <1>5 DEF StartSetUserAPIKey
<1>6. ASSUME NEW kind \in SavedHere, StartSave(p, kind) PROVE AllHeld'
  BY <1>6 DEF StartSave
<1> QED
  BY <1>2, <1>3, <1>4, <1>5, <1>6 DEF KeyRequest, OtherRequest

\* A handler returns that holds no key but the user's.
LEMMA ReturnHeld ==
  ASSUME TypeOK, TypeOK', AllHeld, NEW p \in Procs, Finish(p),
         kept \subseteq kept', cache' = cache,
         req[p].pc \in Creating /\ req[p].raw # NoKey => req[p].raw \in kept',
         \A k \in Keys : Indispensable(k)' => Indispensable(k) \/ Held(k)
  PROVE  AllHeld'
<1>1. req'[p] = NoRequest /\ \A q \in Procs \ {p} : req'[q] = req[q]
  BY Moved DEF Finish
<1> QED
  BY <1>1, CustodyStep DEF NoRequest, Creating

\* A handler goes to its next call with what it has, the cache no emptier.
LEMMA PassHeld ==
  ASSUME TypeOK, TypeOK', AllHeld, NEW p \in Procs, NEW r, Move(p, r),
         r.raw = req[p].raw, r.mk = NoKey \/ Held(r.mk),
         (r.pc \in Creating) <=> (req[p].pc \in Creating),
         r.pc \in {"check", "verify", "generate"} => r.raw = NoKey,
         UNCHANGED kept,
         cache' = cache \/ (cache' # NoKey /\ Held(cache')),
         \A k \in Keys : Indispensable(k)' => Indispensable(k) \/ Held(k)
  PROVE  AllHeld'
<1>1. HandlerHeld(req[p])
  BY DEF AllHeld
<1>2. req'[p] = r /\ \A q \in Procs \ {p} : req'[q] = req[q]
  BY Moved
<1>3. cache # NoKey => cache' # NoKey
  OBVIOUS
<1> QED
  BY <1>1, <1>2, <1>3, CustodyStep DEF HandlerHeld

\* The steps of a creation.  It lets go of its key only by delivering it.
LEMMA CreateHeld ==
  ASSUME TypeOK, TypeOK', AllHeld, UNCHANGED faults, NEW p \in Procs,
         \/ Check(p) \/ Verify(p) \/ Generate(p) \/ GenRedis(p) \/ Load(p)
         \/ LoadRedis(p) \/ GetKey(p) \/ SaveKey(p) \/ EncRead(p) \/ EncWrite(p)
         \/ Deliver(p)
  PROVE  AllHeld'
<1> USE DEF mysql, keys, user, At
<1>0. /\ ~Fault
      /\ req[p] \in Requests /\ HandlerOK(req[p]) /\ HandlerHeld(req[p])
  BY DEF Fault, HandlersOK, AllHeld
<1>k. UNCHANGED <<wrapped, data>> =>
         \A k \in Keys : Indispensable(k)' => Indispensable(k)
  BY DEF Indispensable, HasMasterKey
<1>m. req[p].mk # NoKey => Held(req[p].mk)
  BY <1>0 DEF HandlerHeld
<1>r. req[p].pc \in Creating /\ req[p].raw \in Keys => Held(req[p].raw)
  BY DEF Held
<1>g. ASSUME NEW label \in Creating \ {"check", "verify", "generate"},
             Goto(p, label), req[p].pc \in Creating, UNCHANGED kept,
             cache' = cache \/ (cache' # NoKey /\ Held(cache')),
             \A k \in Keys : Indispensable(k)' => Indispensable(k) \/ Held(k)
      PROVE  AllHeld'
  <2> DEFINE r == [req[p] EXCEPT !.pc = label]
  <2>1. r.pc = label /\ r.raw = req[p].raw /\ r.mk = req[p].mk
    BY <1>0 DEF Requests
  <2> HIDE DEF r
  <2>2. Move(p, r)
    BY <1>g DEF Goto, r
  <2> QED
    BY <1>g, <1>m, <2>1, <2>2, PassHeld
<1>1. CASE Check(p)
  <2>1. CASE Finish(p)
    BY <1>0, <1>1, <1>k, <2>1, ReturnHeld DEF Check, HandlerHeld
  <2>2. CASE Goto(p, "verify")
    <3> DEFINE r == [req[p] EXCEPT !.pc = "verify"]
    <3>1. r.pc = "verify" /\ r.raw = req[p].raw /\ r.mk = req[p].mk
      BY <1>0 DEF Requests
    <3> HIDE DEF r
    <3>2. Move(p, r)
      BY <2>2 DEF Goto, r
    <3> QED
      BY <1>0, <1>1, <1>k, <1>m, <3>1, <3>2, PassHeld DEF Check, HandlerHeld, Creating
  <2> QED
    BY <1>0, <1>1, <2>1, <2>2 DEF Check
<1>2. CASE Verify(p)
  <2>1. CASE Finish(p)
    BY <1>0, <1>2, <1>k, <2>1, ReturnHeld DEF Verify, HandlerHeld
  <2>2. CASE Goto(p, "generate")
    <3> DEFINE r == [req[p] EXCEPT !.pc = "generate"]
    <3>1. r.pc = "generate" /\ r.raw = req[p].raw /\ r.mk = req[p].mk
      BY <1>0 DEF Requests
    <3> HIDE DEF r
    <3>2. Move(p, r)
      BY <2>2 DEF Goto, r
    <3> QED
      BY <1>0, <1>2, <1>k, <1>m, <3>1, <3>2, PassHeld DEF Verify, HandlerHeld, Creating
  <2> QED
    BY <1>0, <1>2, <2>1, <2>2 DEF Verify
<1>3. CASE Generate(p)
  <2>1. CASE Finish(p) /\ UNCHANGED cache
    BY <1>0, <1>3, <1>k, <2>1, ReturnHeld DEF Generate, HandlerHeld
  <2>2. ASSUME NEW k \in Keys, cache' = k,
               Move(p, [req[p] EXCEPT !.pc = "genRedis", !.raw = k])
        PROVE  AllHeld'
    <3> DEFINE r == [req[p] EXCEPT !.pc = "genRedis", !.raw = k]
    <3>1. r.pc = "genRedis" /\ r.raw = k /\ r.mk = req[p].mk
      BY <1>0 DEF Requests
    <3> HIDE DEF r
    <3>2. req'[p] = r /\ \A q \in Procs \ {p} : req'[q] = req[q]
      BY <2>2, Moved DEF r
    <3>3. req[p].raw = NoKey
      BY <1>0, <1>3 DEF Generate, HandlerHeld
    <3> QED
      BY <1>3, <1>k, <1>m, <2>2, <3>1, <3>2, <3>3, CustodyStep DEF Generate, Creating
  <2> QED
    BY <1>3, <2>1, <2>2 DEF Generate
<1>4. CASE GenRedis(p)
  BY <1>4, <1>g, <1>k DEF GenRedis, RedisKey, Creating
<1>5. CASE Load(p)
  <2>1. req[p].raw \in Keys /\ cache' # NoKey /\ Held(cache')
    BY <1>0, <1>5, <1>r DEF Load, CacheKey, HandlerOK, Creating
  <2> QED
    BY <1>5, <1>g, <1>k, <2>1 DEF Load, CacheKey, Creating
<1>6. CASE LoadRedis(p)
  BY <1>6, <1>g, <1>k DEF LoadRedis, RedisKey, Creating
<1>7. CASE GetKey(p)
  <2>1. req[p].pc \in Creating /\ req[p].raw \in Keys
    BY <1>0, <1>7 DEF GetKey, HandlerOK, Creating
  <2>2. cache # NoKey /\ Held(cache)
    BY <1>0, <2>1 DEF HandlerHeld, AllHeld
  <2> DEFINE r == [req[p] EXCEPT !.pc = "save", !.mk = cache]
  <2>3. r.pc = "save" /\ r.raw = req[p].raw /\ r.mk = cache
    BY <1>0 DEF Requests
  <2> HIDE DEF r
  <2>4. Move(p, r)
    BY <1>7, <2>2 DEF GetKey, r
  <2> QED
    BY <1>7, <1>k, <2>1, <2>2, <2>3, <2>4, PassHeld DEF GetKey, Creating
<1>n. ASSUME NextKind(p), req[p].pc \in {"encRead", "encWrite"},
             UNCHANGED <<cache, kept>>,
             \A k \in Keys : Indispensable(k)' => Indispensable(k) \/ Held(k)
      PROVE  AllHeld'
  <2> DEFINE rest == req[p].todo \ {Current(p)}
             r == [req[p] EXCEPT !.pc = IF rest = {} THEN "deliver" ELSE "encRead",
                                 !.todo = rest]
  <2>1. /\ r.pc \in {"deliver", "encRead"}
        /\ r.raw = req[p].raw /\ r.mk = req[p].mk
    BY <1>0 DEF Requests
  <2>2. Move(p, r)
    BY <1>n DEF NextKind
  <2> HIDE DEF r
  <2> QED
    BY <1>n, <1>m, <2>1, <2>2, PassHeld DEF Creating
<1>8. CASE SaveKey(p)
  <2>1. req[p].raw \in Keys /\ req[p].pc \in Creating
    BY <1>0, <1>8 DEF SaveKey, HandlerOK, Creating
  <2>2. \A k \in Keys : Indispensable(k)' => Indispensable(k) \/ Held(k)
    BY <1>0, <1>8, <1>r, <2>1 DEF SaveKey, SetWrapped, Indispensable, HasMasterKey
  <2> DEFINE r == [req[p] EXCEPT !.pc = IF Kinds = {} THEN "deliver" ELSE "encRead",
                                 !.todo = Kinds]
  <2>3. /\ r.pc \in {"deliver", "encRead"}
        /\ r.raw = req[p].raw /\ r.mk = req[p].mk
    BY <1>0 DEF Requests
  <2>4. Move(p, r)
    BY <1>0, <1>8 DEF SaveKey, StartEncrypting
  <2> HIDE DEF r
  <2> QED
    BY <1>8, <1>m, <2>1, <2>2, <2>3, <2>4, PassHeld DEF SaveKey, Creating
<1>9. CASE EncRead(p)
  <2>1. CASE Goto(p, "encWrite")
    BY <1>9, <1>g, <1>k, <2>1 DEF EncRead, Creating
  <2>2. CASE NextKind(p)
    BY <1>9, <1>k, <1>n, <2>2 DEF EncRead
  <2> QED
    BY <1>0, <1>9, <2>1, <2>2 DEF EncRead
<1>10. CASE EncWrite(p)
  <2>1. NextKind(p) /\ Encrypts(p)
    BY <1>0, <1>10 DEF EncWrite
  <2>2. \A kind \in Kinds : data'[kind] = data[kind] \/ data'[kind] = req[p].mk
    BY <2>1 DEF Encrypts
  <2>3. req[p].mk \in Keys /\ wrapped' = wrapped
    BY <1>0, <1>10, <2>1 DEF EncWrite, HandlerOK, Encrypts
  <2>4. \A k \in Keys : Indispensable(k)' => Indispensable(k) \/ Held(k)
    BY <1>m, <2>2, <2>3 DEF Indispensable, HasMasterKey
  <2> QED
    BY <1>10, <1>n, <2>1, <2>4 DEF EncWrite
<1>11. CASE Deliver(p)
  BY <1>0, <1>11, <1>k, ReturnHeld DEF Deliver
<1> QED
  BY <1>1, <1>2, <1>3, <1>4, <1>5, <1>6, <1>7, <1>8, <1>9, <1>10, <1>11

\* The steps of a rewrap or a reset.  They only place keys the user has.
LEMMA ResetHeld ==
  ASSUME TypeOK, TypeOK', AllHeld, UNCHANGED faults, NEW p \in Procs,
         \/ RewSave(p) \/ RewClear(p) \/ RewDelete(p) \/ ResPassword(p)
         \/ ResMalformed(p) \/ ResSave(p) \/ ResLoad(p) \/ ResRedis(p) \/ ResCheck(p)
         \/ ResDelete(p) \/ ResClear(p)
  PROVE  AllHeld'
<1> USE DEF mysql, keys, user, At
<1>0. /\ ~Fault
      /\ req[p] \in Requests /\ HandlerOK(req[p]) /\ HandlerHeld(req[p])
      /\ req[p].pc \notin Creating
  BY DEF Fault, HandlersOK, AllHeld, Creating, RewSave, RewClear, RewDelete,
     ResPassword, ResMalformed, ResSave, ResLoad, ResRedis, ResCheck, ResDelete, ResClear
<1>r. req[p].raw \in Keys => req[p].raw \in kept /\ Held(req[p].raw)
  BY <1>0 DEF HandlerHeld, Held
<1>k. \A k \in Keys : Indispensable(k)' => Indispensable(k) \/ Held(k)
  <2>1. CASE RewSave(p) \/ ResSave(p)
    <3>1. req[p].raw \in Keys /\ SetWrapped(req[p].raw, req[p].pw)
      BY <1>0, <2>1 DEF RewSave, ResSave, Write, WriteLast, HandlerOK
    <3> QED
      BY <1>r, <3>1 DEF SetWrapped, Indispensable, HasMasterKey
  <2>2. CASE RewClear(p) \/ ResClear(p)
    BY <1>0, <2>2
    DEF RewClear, ResClear, Write, WriteLast, ClearWrapped, Indispensable, HasMasterKey
  <2>3. CASE RewDelete(p) \/ ResDelete(p)
    <3>1. DeleteData
      BY <1>0, <2>3 DEF RewDelete, ResDelete, Write, WriteLast
    <3>2. \A kind \in Kinds : data'[kind] \notin Keys
      BY <3>1 DEF DeleteData
    <3> QED
      BY <3>1, <3>2 DEF DeleteData, Indispensable, HasMasterKey
  <2>4. CASE UNCHANGED <<wrapped, data>>
    BY <2>4 DEF Indispensable, HasMasterKey
  <2> QED
    BY <1>0, <2>1, <2>2, <2>3, <2>4
    DEF ResPassword, ResMalformed, ResLoad, ResRedis, ResCheck, CacheKey, RedisKey, Write,
        WriteLast
<1>c. UNCHANGED kept /\ (cache' = cache \/ (cache' # NoKey /\ Held(cache')))
  <2>1. CASE ResLoad(p)
    BY <1>0, <1>r, <2>1 DEF ResLoad, CacheKey, HandlerOK
  <2> QED
    BY <2>1
    DEF RewSave, RewClear, RewDelete, ResPassword, ResMalformed, ResSave, ResRedis, ResCheck,
        ResDelete, ResClear, RedisKey
<1>g. ASSUME NEW label \in Labels \ Creating, Goto(p, label) PROVE AllHeld'
  <2> DEFINE r == [req[p] EXCEPT !.pc = label]
  <2>1. r.pc = label /\ r.raw = req[p].raw /\ r.mk = req[p].mk
    BY <1>0 DEF Requests
  <2>2. Move(p, r)
    BY <1>g DEF Goto
  <2> HIDE DEF r
  <2> QED
    BY <1>0, <1>c, <1>g, <1>k, <2>1, <2>2, PassHeld DEF HandlerHeld, Creating
<1>f. ASSUME Finish(p), UNCHANGED cache PROVE AllHeld'
  BY <1>0, <1>c, <1>f, <1>k, ReturnHeld
<1>1. \/ \E label \in Labels \ Creating : Goto(p, label)
      \/ Finish(p) /\ UNCHANGED cache
  BY <1>0
  DEF Labels, Creating, RewSave, RewClear, RewDelete, ResPassword, ResMalformed, ResSave,
      ResLoad, ResRedis, ResCheck, ResDelete, ResClear, RedisKey, Write, WriteLast
<1> QED
  BY <1>1, <1>f, <1>g

\* The steps of a login and of saving data.  They take the row's or the cached key.
LEMMA UseHeld ==
  ASSUME TypeOK, TypeOK', AllHeld, UNCHANGED faults, NEW p \in Procs,
         \/ LogRead(p) \/ LogLoad(p) \/ LogRedis(p)
         \/ Gate(p) \/ SetKey(p) \/ SaveWrite(p)
  PROVE  AllHeld'
<1> USE DEF mysql, keys, user, At
<1>0. /\ ~Fault
      /\ req[p] \in Requests /\ HandlerOK(req[p]) /\ HandlerHeld(req[p])
      /\ req[p].pc \notin Creating
  <2>1. ~Fault
    BY DEF Fault
  <2>2. req[p] \in Requests /\ HandlerOK(req[p]) /\ HandlerHeld(req[p])
    BY DEF HandlersOK, AllHeld
  <2>3. req[p].pc \in {"logRead", "logLoad", "logRedis", "gate", "setKey", "saveWrite"}
    BY DEF LogRead, LogLoad, LogRedis, Gate, SetKey, SaveWrite
  <2> QED
    BY <2>1, <2>2, <2>3 DEF Creating
<1>m. req[p].mk # NoKey => Held(req[p].mk)
  BY <1>0 DEF HandlerHeld
<1>k. UNCHANGED <<wrapped, data>> =>
         \A k \in Keys : Indispensable(k)' => Indispensable(k)
  BY DEF Indispensable, HasMasterKey
<1>g. ASSUME NEW label \in Labels \ Creating, Goto(p, label), UNCHANGED kept,
             UNCHANGED <<wrapped, data>>,
             cache' = cache \/ (cache' # NoKey /\ Held(cache'))
      PROVE  AllHeld'
  <2> DEFINE r == [req[p] EXCEPT !.pc = label]
  <2>1. r.pc = label /\ r.raw = req[p].raw /\ r.mk = req[p].mk
    BY <1>0 DEF Requests
  <2>2. Move(p, r)
    BY <1>g DEF Goto
  <2> HIDE DEF r
  <2> QED
    BY <1>0, <1>g, <1>k, <1>m, <2>1, <2>2, PassHeld DEF Creating
<1>1. CASE LogRead(p)
  <2>1. CASE Finish(p)
    BY <1>0, <1>1, <1>k, <2>1, ReturnHeld DEF LogRead
  <2>2. ASSUME HasMasterKey,
               Move(p, [req[p] EXCEPT !.pc = "logLoad", !.mk = wrapped.key])
        PROVE  AllHeld'
    <3> DEFINE r == [req[p] EXCEPT !.pc = "logLoad", !.mk = wrapped.key]
    <3>1. r.pc = "logLoad" /\ r.raw = req[p].raw /\ r.mk = wrapped.key
      BY <1>0 DEF Requests
    <3>2. wrapped.key \in Keys
      BY <2>2 DEF HasMasterKey, Wraps
    <3>3. Held(wrapped.key)
      BY <2>2, <3>2 DEF AllHeld, Indispensable
    <3> HIDE DEF r
    <3>4. Move(p, r)
      BY <2>2 DEF r
    <3> QED
      BY <1>0, <1>1, <1>k, <3>1, <3>3, <3>4, PassHeld DEF LogRead, Creating
  <2> QED
    BY <1>0, <1>1, <2>1, <2>2 DEF LogRead
<1>2. CASE LogLoad(p)
  <2>1. req[p].mk \in Keys
    BY <1>0, <1>2 DEF LogLoad, HandlerOK
  <2>2. cache' # NoKey /\ Held(cache')
    BY <1>2, <1>m, <2>1 DEF LogLoad, CacheKey
  <2> QED
    BY <1>2, <1>g, <2>2 DEF LogLoad, CacheKey, Labels, Creating
<1>3. CASE LogRedis(p)
  BY <1>0, <1>3, <1>k, ReturnHeld DEF LogRedis, RedisKey
<1>4. CASE Gate(p)
  <2>1. CASE Finish(p)
    BY <1>0, <1>4, <1>k, <2>1, ReturnHeld DEF Gate
  <2>2. CASE Goto(p, "setKey")
    BY <1>4, <1>g, <2>2 DEF Gate, Labels, Creating
  <2> QED
    BY <1>0, <1>4, <2>1, <2>2 DEF Gate
<1>5. CASE SetKey(p)
  <2>1. /\ Finish(p) /\ UNCHANGED <<wrapped, cache, kept>>
        /\ \E form \in {"app"} \cup ({cache} \ {NoKey}) :
              data' = [data EXCEPT !["apiKeys"] = form]
    BY <1>0, <1>5 DEF SetKey, WriteLast
  <2>2. \A k \in Keys : Indispensable(k)' => Indispensable(k) \/ Held(k)
    BY <2>1 DEF Indispensable, HasMasterKey, AllHeld
  <2> QED
    BY <1>0, <2>1, <2>2, ReturnHeld
<1>6. CASE SaveWrite(p)
  <2>1. /\ Finish(p) /\ UNCHANGED <<wrapped, cache, kept>>
        /\ data' = [data EXCEPT ![Current(p)] =
                       IF req[p].mk = NoKey THEN "plain" ELSE req[p].mk]
    BY <1>0, <1>6 DEF SaveWrite, WriteLast
  <2>2. \A k \in Keys : Indispensable(k)' => Indispensable(k) \/ Held(k)
    BY <1>m, <2>1 DEF Indispensable, HasMasterKey
  <2> QED
    BY <1>0, <2>1, <2>2, ReturnHeld
<1> QED
  BY <1>1, <1>2, <1>3, <1>4, <1>5, <1>6

-----------------------------------------------------------------------------

LEMMA CustodyInit == Init => Custody
<1> SUFFICES ASSUME Init PROVE Custody
  OBVIOUS
<1>1. TypeOK
  BY InitOK
<1>2. AllHeld
  BY DEF Init, AllHeld, Indispensable, HasMasterKey, HandlerHeld, NoRequest, Creating
<1> QED
  BY <1>1, <1>2 DEF Custody

LEMMA CustodyNext ==
  ASSUME Custody, [Next]_vars
  PROVE  Custody'
<1>1. TypeOK /\ TypeOK'
  BY StepOK DEF Custody
<1>2. ASSUME Untroubled' PROVE AllHeld'
  <2>1. CASE UNCHANGED vars
    <3>1. Untroubled
      BY <1>2, <2>1 DEF vars, Untroubled
    <3> QED
      BY <2>1, <3>1
      DEF Custody, vars, mysql, keys, user, AllHeld, Held, HandlerHeld,
          Indispensable, HasMasterKey
  <2>2. ASSUME NEW p \in Procs, KeyRequest(p) \/ OtherRequest(p) PROVE AllHeld'
    <3>1. UNCHANGED <<faults, restarts>>
      BY <2>2
      DEF KeyRequest, OtherRequest, StartCreate, StartRewrap, StartReset,
          StartResetMalformed, StartLogin, StartSetUserAPIKey, StartSave, Start
    <3> QED
      BY <1>1, <1>2, <2>2, <3>1, RequestHeld DEF Custody, Untroubled
  <2>3. ASSUME NEW p \in Procs, Serve(p) PROVE AllHeld'
    <3>1. (Works \/ Fault) /\ UNCHANGED restarts
      BY <2>3
      DEF Serve, Works, Check, Verify, Generate, GenRedis, Load, LoadRedis, GetKey,
          SaveKey, EncRead, EncWrite, Deliver, RewSave, RewClear, RewDelete,
          ResPassword, ResMalformed, ResSave, ResLoad, ResRedis, ResCheck, ResDelete, ResClear,
          LogRead, LogLoad, LogRedis, Gate, SetKey, SaveWrite, Write, WriteLast,
          CacheKey, RedisKey
    <3>2. UNCHANGED faults /\ Untroubled
      BY <1>1, <1>2, <3>1, StaysUntroubled DEF Works
    <3> QED
      BY <1>1, <2>3, <3>2, CreateHeld, ResetHeld, UseHeld DEF Serve, Custody
  <2>4. CASE Restart
    BY <1>1, <1>2, <2>4 DEF Restart, Untroubled
  <2>5. CASE Expire
    <3>1. Untroubled
      BY <1>2, <2>5 DEF Expire, Untroubled
    <3> QED
      BY <2>5, <3>1
      DEF Custody, Expire, mysql, user, AllHeld, Held, HandlerHeld,
          Indispensable, HasMasterKey
  <2> QED
    BY <2>1, <2>2, <2>3, <2>4, <2>5 DEF Next
<1> QED
  BY <1>1, <1>2 DEF Custody

\* However creations, rewraps, resets, logins and saves interleave, no key the
\* row or the data depends on is in nobody's hands, as long as no call has
\* failed and the process has not restarted.
THEOREM KeysStayHeld == Spec => []NoKeyIsLost
<1>1. Custody => NoKeyIsLost
  BY DEF Custody, AllHeld, NoKeyIsLost, Held
<1> QED
  BY <1>1, CustodyInit, CustodyNext, PTL DEF Spec

-----------------------------------------------------------------------------
(* A careful client: passwords and keys fit together (KeyFitsAccount), and *)
(* nothing is encrypted under a key the row does not have.                 *)

\* One handler at most operates on the key.
OneOperation == \A p, q \in Procs : KeyOperation(p) /\ KeyOperation(q) => p = q

\* While the key is given up, with its data, there is nobody else.
GivesUp(r) ==
    \/ r.pc \in {"rewClear", "rewDelete", "resDelete", "resClear"}
    \/ HasMasterKey /\ (r.pc = "resCheck" \/ (r.pc = "resPassword" /\ r.raw = NoKey))
Deserted == \A p, q \in Procs : GivesUp(req[p]) /\ p # q => At(q, "idle")

\* What the row and the cache hold at the labels of a handler with the record r.
Unsaved == {"verify", "generate", "genRedis", "load", "loadRedis", "getKey", "save",
            "resMalformed"}
Cached == {"genRedis", "load", "loadRedis", "getKey"}
Saved == {"encRead", "encWrite", "deliver", "rewSave", "resSave", "resLoad", "resRedis"}
RowFits(r) ==
    /\ r.pc \in Unsaved => ~HasMasterKey
    /\ r.pc \in Cached => cache = r.raw
    /\ r.pc \in {"save", "encRead", "encWrite"} => r.mk = r.raw
    /\ r.pc \in Saved \/ (r.pc = "resPassword" /\ r.raw # NoKey) =>
           HasMasterKey /\ wrapped.key = r.raw
    /\ r.pc = "logLoad" => HasMasterKey /\ wrapped.key = r.mk
RowsFit == \A p \in Procs : RowFits(req[p])

InOrder == OneOperation /\ Deserted /\ RowsFit

\* What a call of one handler must respect: it changes the row and the cache only
\* where no other handler counts on them.
LEMMA OrderKept ==
  ASSUME TypeOK, InOrder, NEW p \in Procs, NEW r, Move(p, r), ~At(p, "idle"),
         KeyOperation(p)' => KeyOperation(p), GivesUp(r)' => GivesUp(req[p]), RowFits(r)',
         \/ UNCHANGED <<wrapped, cache>>
         \/ UNCHANGED wrapped /\ (KeyOperation(p) \/ HasMasterKey)
         \/ KeyOperation(p) /\ HasMasterKey' /\ (HasMasterKey => wrapped'.key = wrapped.key)
         \/ GivesUp(req[p])
  PROVE  InOrder'
<1>1. req'[p] = r /\ \A q \in Procs \ {p} : req'[q] = req[q]
  BY Moved
<1>2. OneOperation'
  BY <1>1 DEF InOrder, OneOperation, KeyOperation
<1>3. \A q \in Procs \ {p} : ~GivesUp(req[q])'
  <2> SUFFICES ASSUME NEW q \in Procs \ {p}, GivesUp(req[q])' PROVE FALSE
    OBVIOUS
  <2>1. ~GivesUp(req[q])
    BY DEF InOrder, Deserted
  <2>2. wrapped' # wrapped /\ KeyOperation(q)
    BY <1>1, <2>1 DEF GivesUp, HasMasterKey, KeyOperation
  <2>3. KeyOperation(p)
    BY <2>2 DEF GivesUp, KeyOperation
  <2> QED
    BY <2>2, <2>3 DEF InOrder, OneOperation
<1>4. Deserted'
  BY <1>1, <1>3 DEF InOrder, Deserted, At
<1>5. ASSUME NEW q \in Procs, q # p PROVE RowFits(req[q])'
  <2>1. RowFits(req[q]) /\ req'[q] = req[q] /\ ~(KeyOperation(p) /\ KeyOperation(q))
    BY <1>1, <1>5 DEF InOrder, RowsFit, OneOperation
  <2>2. CASE GivesUp(req[p])
    BY <1>5, <2>1, <2>2 DEF InOrder, Deserted, At, RowFits, Unsaved, Cached, Saved
  <2>3. CASE UNCHANGED <<wrapped, cache>>
    BY <2>1, <2>3 DEF RowFits, HasMasterKey
  <2>4. CASE UNCHANGED wrapped /\ KeyOperation(p)
    BY <2>1, <2>4 DEF RowFits, HasMasterKey, KeyOperation, Creating, Unsaved, Cached, Saved
  <2>5. CASE UNCHANGED wrapped /\ HasMasterKey
    BY <2>1, <2>5 DEF RowFits, HasMasterKey, Unsaved, Cached, Saved
  <2>6. CASE KeyOperation(p) /\ HasMasterKey' /\ (HasMasterKey => wrapped'.key = wrapped.key)
    BY <2>1, <2>6 DEF RowFits, KeyOperation, Creating, Unsaved, Cached, Saved
  <2> QED
    BY <2>2, <2>3, <2>4, <2>5, <2>6
<1> QED
  BY <1>1, <1>2, <1>4, <1>5 DEF InOrder, RowsFit

\* ... returning needs nothing.
LEMMA OrderReturn ==
  ASSUME TypeOK, InOrder, NEW p \in Procs, Finish(p), ~At(p, "idle"),
         \/ UNCHANGED wrapped /\ UNCHANGED cache
         \/ KeyOperation(p) /\ HasMasterKey' /\ (HasMasterKey => wrapped'.key = wrapped.key)
         \/ GivesUp(req[p])
  PROVE  InOrder'
<1>1. req'[p] = NoRequest
  BY Moved DEF Finish
<1>2. ~KeyOperation(p)' /\ ~GivesUp(NoRequest)' /\ RowFits(NoRequest)'
  BY <1>1 DEF KeyOperation, Creating, GivesUp, RowFits, NoRequest, Unsaved, Cached, Saved
<1> HIDE DEF NoRequest
<1> QED
  BY <1>2, OrderKept DEF Finish

\* ... and starting is what the client is careful about.
LEMMA OrderStart ==
  ASSUME TypeOK, InOrder, NEW p \in Procs, NEW r, Start(p, r), RowFits(r),
         \/ Quiet /\ (GivesUp(r) => \A q \in Procs : At(q, "idle"))
         \/ ~GivingUp /\ r.pc \in {"logRead", "gate", "setKey", "saveWrite"}
  PROVE  InOrder'
<1>1. req'[p] = r /\ \A q \in Procs \ {p} : req'[q] = req[q]
  BY Moved DEF Start
<1>2. UNCHANGED <<wrapped, cache>>
  BY DEF Start, mysql, keys
<1>3. OneOperation'
  BY <1>1 DEF InOrder, OneOperation, KeyOperation, Quiet, Creating
<1>4. \A q \in Procs \ {p} : ~GivesUp(req[q])
  BY DEF GivesUp, GivingUp, At, Quiet, KeyOperation
<1>5. GivesUp(r) => \A q \in Procs : At(q, "idle")
  BY DEF GivesUp
<1>6. Deserted'
  <2> SUFFICES ASSUME NEW a \in Procs, NEW b \in Procs, GivesUp(req[a])', a # b
               PROVE  At(b, "idle")'
    BY DEF Deserted
  <2>1. a = p /\ GivesUp(r)
    BY <1>1, <1>2, <1>4 DEF GivesUp, HasMasterKey
  <2> QED
    BY <1>1, <1>5, <2>1 DEF At
<1>7. RowsFit'
  <2> SUFFICES ASSUME NEW q \in Procs PROVE RowFits(req[q])'
    BY DEF RowsFit
  <2>1. RowFits(req'[q])
    BY <1>1 DEF InOrder, RowsFit
  <2> QED
    BY <1>2, <2>1 DEF RowFits, HasMasterKey
<1> QED
  BY <1>3, <1>6, <1>7 DEF InOrder

\* A careful request starts so, at any label it starts from.
LEMMA RequestInOrder ==
  ASSUME TypeOK, InOrder, NEW p \in Procs,
         CarefulKeyRequest(p) \/ GivesUpKey(p) \/ CarefulOther(p)
  PROVE  InOrder'
<1> USE DEF NoRequest, RowFits, Unsaved, Cached, Saved, GivesUp, HasMasterKey
<1>1. CASE CarefulKeyRequest(p)
  <2>1. ASSUME NEW pw \in Passwords, StartCreate(p, pw) PROVE InOrder'
    BY <1>1, <2>1, OrderStart DEF CarefulKeyRequest, StartCreate
  <2>2. ASSUME NEW raw \in kept, HasMasterKey, wrapped.key = raw,
               StartRewrap(p, raw, hash) \/ \E pw \in Passwords : StartReset(p, raw, pw)
        PROVE  InOrder'
    BY <1>1, <2>2, OrderStart DEF CarefulKeyRequest, StartRewrap, StartReset
  <2>3. ASSUME ~HasMasterKey, NEW pw \in Passwords, StartReset(p, NoKey, pw) PROVE InOrder'
    BY <1>1, <2>3, OrderStart DEF CarefulKeyRequest, StartReset
  <2>4. ASSUME ~HasMasterKey, NEW pw \in Passwords, StartResetMalformed(p, pw)
        PROVE  InOrder'
    BY <1>1, <2>4, OrderStart DEF CarefulKeyRequest, StartResetMalformed
  <2> QED
    BY <1>1, <2>1, <2>2, <2>3, <2>4 DEF CarefulKeyRequest
<1>2. CASE GivesUpKey(p)
  <2>1. Quiet
    BY <1>2 DEF GivesUpKey, Quiet, KeyOperation, At, Creating
  <2>2. CASE StartRewrap(p, NoKey, hash)
    BY <1>2, <2>1, <2>2, OrderStart DEF GivesUpKey, StartRewrap
  <2>3. ASSUME NEW pw \in Passwords, StartReset(p, NoKey, pw) PROVE InOrder'
    BY <1>2, <2>1, <2>3, OrderStart DEF GivesUpKey, StartReset
  <2> QED
    BY <1>2, <2>2, <2>3 DEF GivesUpKey
<1>3. CASE CarefulOther(p)
  <2>1. ASSUME NEW pw \in Passwords, StartLogin(p, pw) PROVE InOrder'
    BY <1>3, <2>1, OrderStart DEF CarefulOther, StartLogin
  <2>2. CASE StartSetUserAPIKey(p)
    BY <1>3, <2>2, OrderStart DEF CarefulOther, StartSetUserAPIKey
  <2>3. ASSUME NEW kind \in SavedHere, StartSave(p, kind) PROVE InOrder'
    BY <1>3, <2>3, OrderStart DEF CarefulOther, StartSave
  <2> QED
    BY <1>3, <2>1, <2>2, <2>3 DEF CarefulOther, Login, OtherRequest
<1> QED
  BY <1>1, <1>2, <1>3

\* The calls of a creation: it is the one operation, and makes the key that
\* the cache and then the row hold.
LEMMA CreateInOrder ==
  ASSUME TypeOK, InOrder, NEW p \in Procs,
         \/ Check(p) \/ Verify(p) \/ Generate(p) \/ GenRedis(p) \/ Load(p)
         \/ LoadRedis(p) \/ GetKey(p) \/ SaveKey(p) \/ EncRead(p) \/ EncWrite(p)
         \/ Deliver(p)
  PROVE  InOrder'
<1> USE DEF mysql, keys, At
<1>0. /\ req[p] \in Requests /\ HandlerOK(req[p]) /\ RowFits(req[p])
      /\ req[p].pc \in Creating /\ KeyOperation(p) /\ ~At(p, "idle")
  BY DEF HandlersOK, InOrder, RowsFit, Creating, KeyOperation, Check, Verify, Generate,
     GenRedis, Load, LoadRedis, GetKey, SaveKey, EncRead, EncWrite, Deliver
<1>f. ASSUME Finish(p), UNCHANGED wrapped, UNCHANGED cache PROVE InOrder'
  BY <1>0, <1>f, OrderReturn
<1>g. ASSUME NEW r, Move(p, r), r.pc \in Creating, RowFits(r)', UNCHANGED wrapped
      PROVE  InOrder'
  <2>1. ~GivesUp(r)'
    BY <1>g DEF GivesUp, Creating
  <2> QED
    BY <1>0, <1>g, <2>1, OrderKept
<1>h. ASSUME NEW label \in Creating, Goto(p, label), UNCHANGED wrapped,
             label \in Unsaved => ~HasMasterKey, label \in Cached => cache' = req[p].raw,
             label = "encWrite" => RowFits(req[p]) /\ req[p].pc = "encRead",
             label \in Unsaved \cup {"encWrite"}, label # "save"
      PROVE  InOrder'
  <2>1. PICK r : r = [req[p] EXCEPT !.pc = label]
    OBVIOUS
  <2>2. Move(p, r) /\ r.pc = label /\ r.raw = req[p].raw /\ r.mk = req[p].mk
    BY <1>0, <1>h, <2>1 DEF Goto, Requests
  <2>3. RowFits(r)'
    BY <1>h, <2>2 DEF RowFits, Unsaved, Cached, Saved, HasMasterKey
  <2> QED
    BY <1>g, <1>h, <2>2, <2>3
<1> USE DEF RowFits, Unsaved, Cached, Saved, HasMasterKey
<1>1. CASE Check(p)
  <2>1. CASE Goto(p, "verify") /\ ~HasMasterKey
    BY <1>0, <1>1, <1>h, <2>1 DEF Check, Creating
  <2> QED
    BY <1>1, <1>f, <2>1 DEF Check
<1>2. CASE Verify(p)
  <2>1. CASE Goto(p, "generate")
    BY <1>0, <1>2, <1>h, <2>1 DEF Verify, Creating
  <2> QED
    BY <1>2, <1>f, <2>1 DEF Verify
<1>3. CASE Generate(p)
  <2>1. ASSUME NEW k \in Keys, cache' = k,
               Move(p, [req[p] EXCEPT !.pc = "genRedis", !.raw = k])
        PROVE  InOrder'
    <3>1. PICK r : r = [req[p] EXCEPT !.pc = "genRedis", !.raw = k]
      OBVIOUS
    <3>2. r.pc = "genRedis" /\ r.raw = k
      BY <1>0, <3>1 DEF Requests
    <3>3. RowFits(r)'
      BY <1>0, <1>3, <2>1, <3>2 DEF Generate
    <3> QED
      BY <1>3, <1>g, <2>1, <3>1, <3>2, <3>3 DEF Generate, Creating
  <2> QED
    BY <1>3, <1>f, <2>1 DEF Generate
<1>4. CASE GenRedis(p)
  BY <1>0, <1>4, <1>h DEF GenRedis, RedisKey, Creating
<1>5. CASE Load(p)
  BY <1>0, <1>5, <1>h DEF Load, CacheKey, Creating
<1>6. CASE LoadRedis(p)
  BY <1>0, <1>6, <1>h DEF LoadRedis, RedisKey, Creating
<1>7. CASE GetKey(p)
  <2>1. CASE Move(p, [req[p] EXCEPT !.pc = "save", !.mk = cache])
    <3>1. PICK r : r = [req[p] EXCEPT !.pc = "save", !.mk = cache]
      OBVIOUS
    <3>2. r.pc = "save" /\ r.raw = req[p].raw /\ r.mk = cache
      BY <1>0, <3>1 DEF Requests
    <3>3. RowFits(r)'
      BY <1>0, <1>7, <3>2 DEF GetKey
    <3> QED
      BY <1>7, <1>g, <2>1, <3>1, <3>2, <3>3 DEF GetKey, Creating
  <2> QED
    BY <1>7, <1>f, <2>1 DEF GetKey
<1>8. CASE SaveKey(p)
  <2>0. /\ ~HasMasterKey /\ req[p].mk = req[p].raw /\ req[p].raw \in Keys
        /\ req[p].pw \in Passwords
    BY <1>0, <1>8 DEF SaveKey, HandlerOK, Creating
  <2>1. SetWrapped(req[p].raw, req[p].pw) => wrapped' # NoWrap /\ wrapped'.key = req[p].raw
    BY <2>0 DEF SetWrapped, Wraps
  <2>2. CASE StartEncrypting(p) /\ SetWrapped(req[p].raw, req[p].pw)
    <3>1. PICK r : r = [req[p] EXCEPT !.pc = IF Kinds = {} THEN "deliver" ELSE "encRead",
                                     !.todo = Kinds]
      OBVIOUS
    <3>2. r.pc \in {"deliver", "encRead"} /\ r.raw = req[p].raw /\ r.mk = req[p].mk
      BY <1>0, <3>1 DEF Requests
    <3>3. RowFits(r)' /\ ~GivesUp(r)'
      BY <1>8, <2>0, <2>1, <2>2, <3>2 DEF SaveKey, GivesUp
    <3>4. Move(p, r)
      BY <2>2, <3>1 DEF StartEncrypting
    <3> QED
      BY <1>0, <2>0, <2>1, <2>2, <3>3, <3>4, OrderKept
  <2>3. CASE Finish(p) /\ (SetWrapped(req[p].raw, req[p].pw) \/ UNCHANGED mysql)
    BY <1>0, <1>8, <2>0, <2>1, <2>3, OrderReturn DEF SaveKey
  <2> QED
    BY <1>8, <2>2, <2>3 DEF SaveKey
<1>n. ASSUME NextKind(p), UNCHANGED wrapped, UNCHANGED cache,
             req[p].pc \in {"encRead", "encWrite"}
      PROVE  InOrder'
  <2>1. PICK r : Move(p, r) /\ \E rest : r = [req[p] EXCEPT
             !.pc = IF rest = {} THEN "deliver" ELSE "encRead", !.todo = rest]
    BY <1>n DEF NextKind
  <2>2. r.pc \in {"deliver", "encRead"} /\ r.raw = req[p].raw /\ r.mk = req[p].mk
    BY <1>0, <2>1 DEF Requests
  <2>3. RowFits(r)'
    BY <1>0, <1>n, <2>2
  <2> QED
    BY <1>g, <1>n, <2>1, <2>2, <2>3 DEF Creating
<1>9. CASE EncRead(p)
  <2>1. CASE Goto(p, "encWrite")
    BY <1>0, <1>9, <1>h, <2>1 DEF EncRead, Creating
  <2> QED
    BY <1>9, <1>f, <1>n, <2>1 DEF EncRead
<1>10. CASE EncWrite(p)
  <2>1. UNCHANGED wrapped /\ UNCHANGED cache
    BY <1>10 DEF EncWrite, Encrypts
  <2> QED
    BY <1>10, <1>f, <1>n, <2>1 DEF EncWrite
<1>11. CASE Deliver(p)
  BY <1>11, <1>f DEF Deliver
<1> QED
  BY <1>1, <1>2, <1>3, <1>4, <1>5, <1>6, <1>7, <1>8, <1>9, <1>10, <1>11

\* The calls of a rewrap or a reset: it is the one operation, on the key the row
\* has, or on an account nobody else uses.
LEMMA ResetInOrder ==
  ASSUME TypeOK, InOrder, NEW p \in Procs,
         \/ RewSave(p) \/ RewClear(p) \/ RewDelete(p) \/ ResPassword(p)
         \/ ResMalformed(p) \/ ResSave(p) \/ ResLoad(p) \/ ResRedis(p) \/ ResCheck(p)
         \/ ResDelete(p) \/ ResClear(p)
  PROVE  InOrder'
<1> USE DEF mysql, keys, At
<1>0. /\ req[p] \in Requests /\ HandlerOK(req[p]) /\ RowFits(req[p])
      /\ KeyOperation(p) /\ ~At(p, "idle")
  BY DEF HandlersOK, InOrder, RowsFit, KeyOperation, RewSave, RewClear, RewDelete,
     ResPassword, ResMalformed, ResSave, ResLoad, ResRedis, ResCheck, ResDelete, ResClear
<1>f. ASSUME Finish(p), UNCHANGED wrapped, UNCHANGED cache PROVE InOrder'
  BY <1>0, <1>f, OrderReturn
<1>s. ASSUME SetWrapped(req[p].raw, req[p].pw), req[p].pc \in {"rewSave", "resSave"}
      PROVE  HasMasterKey' /\ wrapped'.key = wrapped.key /\ wrapped'.key = req[p].raw
  BY <1>0, <1>s DEF SetWrapped, HandlerOK, Wraps, HasMasterKey, RowFits, Saved
<1>h. ASSUME NEW label \in Labels, Goto(p, label), label \notin Creating,
             label \notin {"idle", "logLoad", "rewSave", "resMalformed"},
             label \in {"resSave", "resLoad", "resRedis"} =>
                 HasMasterKey' /\ wrapped'.key = req[p].raw,
             label \in {"resLoad", "resRedis"} => req[p].pc \in {"resSave", "resLoad"},
             label = "resPassword" => FALSE,
             label = "resCheck" => req[p].pc = "resPassword" /\ req[p].raw = NoKey
                                   /\ UNCHANGED wrapped,
             label \in {"rewClear", "rewDelete", "resDelete", "resClear"} => GivesUp(req[p]),
             UNCHANGED wrapped \/ GivesUp(req[p]) \/ (HasMasterKey' /\ wrapped'.key = wrapped.key)
      PROVE  InOrder'
  <2>1. PICK r : r = [req[p] EXCEPT !.pc = label]
    OBVIOUS
  <2>2. Move(p, r) /\ r.pc = label /\ r.raw = req[p].raw /\ r.mk = req[p].mk
    BY <1>0, <1>h, <2>1 DEF Goto, Requests
  <2>3. RowFits(r)'
    BY <1>h, <2>2 DEF RowFits, Unsaved, Cached, Saved, Creating
  <2>4. GivesUp(r)' => GivesUp(req[p])
    BY <1>h, <2>2 DEF GivesUp, HasMasterKey
  <2> QED
    BY <1>0, <1>h, <2>2, <2>3, <2>4, OrderKept
<1>1. CASE RewSave(p)
  BY <1>0, <1>1, <1>s, OrderReturn DEF RewSave, WriteLast
<1>2. CASE RewClear(p)
  <2>1. GivesUp(req[p])
    BY <1>2 DEF RewClear, GivesUp
  <2> QED
    BY <1>0, <1>2, <1>h, <2>1, OrderReturn DEF RewClear, Write, Labels, Creating
<1>3. CASE RewDelete(p)
  BY <1>3, <1>f DEF RewDelete, WriteLast, DeleteData
<1>4. CASE ResPassword(p)
  <2>1. CASE Finish(p)
    BY <1>4, <1>f, <2>1 DEF ResPassword, Write
  <2>2. CASE req[p].raw = NoKey /\ Goto(p, "resCheck")
    BY <1>4, <1>h, <2>2 DEF ResPassword, Write, Labels, Creating
  <2>3. CASE req[p].raw # NoKey /\ Goto(p, "resSave")
    <3>1. HasMasterKey /\ wrapped.key = req[p].raw /\ UNCHANGED wrapped
      BY <1>0, <1>4, <2>3 DEF ResPassword, Write, RowFits
    <3> QED
      BY <1>h, <2>3, <3>1 DEF Labels, Creating, HasMasterKey
  <2> QED
    BY <1>4, <2>1, <2>2, <2>3 DEF ResPassword, Write
<1>m. CASE ResMalformed(p)
  BY <1>m, <1>f DEF ResMalformed, WriteLast
<1>5. CASE ResSave(p)
  <2>1. CASE Finish(p)
    BY <1>0, <1>5, <1>s, <2>1, OrderReturn DEF ResSave, Write
  <2> QED
    BY <1>5, <1>h, <1>s, <2>1 DEF ResSave, Write, Labels, Creating
<1>6. CASE ResLoad(p)
  <2>1. HasMasterKey /\ wrapped.key = req[p].raw /\ UNCHANGED wrapped
    BY <1>0, <1>6 DEF ResLoad, CacheKey, RowFits, Saved
  <2> QED
    BY <1>6, <1>h, <2>1 DEF ResLoad, Labels, Creating, HasMasterKey
<1>7. CASE ResRedis(p)
  BY <1>7, <1>f DEF ResRedis, RedisKey
<1>8. CASE ResCheck(p)
  <2>1. CASE Goto(p, "resDelete") /\ HasMasterKey
    <3>1. GivesUp(req[p])
      BY <1>8, <2>1 DEF ResCheck, GivesUp
    <3> QED
      BY <1>8, <1>h, <2>1, <3>1 DEF ResCheck, Labels, Creating
  <2> QED
    BY <1>8, <1>f, <2>1 DEF ResCheck
<1>9. CASE ResDelete(p)
  <2>1. GivesUp(req[p])
    BY <1>9 DEF ResDelete, GivesUp
  <2> QED
    BY <1>9, <1>f, <1>h, <2>1 DEF ResDelete, Write, DeleteData, Labels, Creating
<1>10. CASE ResClear(p)
  <2>1. GivesUp(req[p])
    BY <1>10 DEF ResClear, GivesUp
  <2> QED
    BY <1>0, <1>10, <2>1, OrderReturn DEF ResClear, WriteLast
<1> QED
  BY <1>1, <1>2, <1>3, <1>4, <1>m, <1>5, <1>6, <1>7, <1>8, <1>9, <1>10

\* The calls of a login and of saving data: only a login touches the cache, with
\* the key the row has.
LEMMA UseInOrder ==
  ASSUME TypeOK, InOrder, NEW p \in Procs,
         \/ LogRead(p) \/ LogLoad(p) \/ LogRedis(p)
         \/ Gate(p) \/ SetKey(p) \/ SaveWrite(p)
  PROVE  InOrder'
<1> USE DEF mysql, keys, At
<1>0. req[p] \in Requests /\ RowFits(req[p]) /\ ~At(p, "idle")
  BY DEF HandlersOK, InOrder, RowsFit, LogRead, LogLoad, LogRedis, Gate, SetKey, SaveWrite
<1>f. ASSUME Finish(p), UNCHANGED wrapped, UNCHANGED cache PROVE InOrder'
  BY <1>0, <1>f, OrderReturn
<1>g. ASSUME NEW r, Move(p, r), r.pc \in {"logLoad", "logRedis", "setKey"},
             UNCHANGED wrapped, UNCHANGED cache \/ HasMasterKey,
             r.pc = "logLoad" => HasMasterKey /\ wrapped.key = r.mk
      PROVE  InOrder'
  <2>1. RowFits(r)' /\ ~GivesUp(r)'
    BY <1>g DEF RowFits, GivesUp, Unsaved, Cached, Saved, HasMasterKey
  <2>2. ~KeyOperation(p)'
    BY <1>g, Moved DEF KeyOperation, Creating
  <2> QED
    BY <1>0, <1>g, <2>1, <2>2, OrderKept
<1>1. CASE LogRead(p)
  <2>1. CASE HasMasterKey /\ Move(p, [req[p] EXCEPT !.pc = "logLoad", !.mk = wrapped.key])
    <3>1. PICK r : r = [req[p] EXCEPT !.pc = "logLoad", !.mk = wrapped.key]
      OBVIOUS
    <3>2. r.pc = "logLoad" /\ r.mk = wrapped.key
      BY <1>0, <3>1 DEF Requests
    <3> QED
      BY <1>1, <1>g, <2>1, <3>1, <3>2 DEF LogRead
  <2> QED
    BY <1>1, <1>f, <2>1 DEF LogRead
<1>2. CASE LogLoad(p)
  <2>1. PICK r : r = [req[p] EXCEPT !.pc = "logRedis"]
    OBVIOUS
  <2>2. Move(p, r) /\ r.pc = "logRedis"
    BY <1>0, <1>2, <2>1 DEF LogLoad, Goto, Requests
  <2> QED
    BY <1>0, <1>2, <1>g, <2>2 DEF LogLoad, CacheKey, RowFits
<1>3. CASE LogRedis(p)
  BY <1>3, <1>f DEF LogRedis, RedisKey
<1>4. CASE Gate(p)
  <2>1. PICK r : r = [req[p] EXCEPT !.pc = "setKey"]
    OBVIOUS
  <2>2. r.pc = "setKey"
    BY <1>0, <2>1 DEF Requests
  <2> QED
    BY <1>4, <1>f, <1>g, <2>1, <2>2 DEF Gate, Goto
<1>5. CASE SetKey(p) \/ SaveWrite(p)
  BY <1>5, <1>f DEF SetKey, SaveWrite, WriteLast
<1> QED
  BY <1>1, <1>2, <1>3, <1>4, <1>5

\* The careful client's order is kept by every step, whatever fails and wherever
\* the process restarts.
LEMMA OrderStep == TypeOK /\ InOrder /\ [CarefulNext]_vars => InOrder'
<1> SUFFICES ASSUME TypeOK, InOrder, [CarefulNext]_vars PROVE InOrder'
  OBVIOUS
<1>1. ASSUME NEW p \in Procs, Serve(p) PROVE InOrder'
  BY <1>1, CreateInOrder, ResetInOrder, UseInOrder DEF Serve
<1>2. ASSUME NEW p \in Procs, CarefulKeyRequest(p) \/ GivesUpKey(p) \/ CarefulOther(p)
      PROVE  InOrder'
  BY <1>2, RequestInOrder
<1>3. CASE Restart
  <2>1. req' = [p \in Procs |-> NoRequest] /\ UNCHANGED wrapped
    BY <1>3 DEF Restart, mysql
  <2> QED
    BY <2>1 DEF InOrder, OneOperation, Deserted, RowsFit, RowFits, KeyOperation, Creating,
       GivesUp, NoRequest, Unsaved, Cached, Saved, At
<1>4. CASE UNCHANGED vars \/ Expire
  <2>1. UNCHANGED <<req, wrapped, cache>>
    BY <1>4 DEF Expire, vars, mysql, keys
  <2> QED
    BY <2>1 DEF InOrder, OneOperation, Deserted, RowsFit, RowFits, KeyOperation, GivesUp,
       At, HasMasterKey
<1> QED
  BY <1>1, <1>2, <1>3, <1>4 DEF CarefulNext

LEMMA CarefulTypes == TypeOK /\ [CarefulNext]_vars => TypeOK'
<1> SUFFICES ASSUME TypeOK, [CarefulNext]_vars PROVE TypeOK'
  OBVIOUS
<1>1. ASSUME NEW p \in Procs, CarefulKeyRequest(p) \/ GivesUpKey(p) PROVE KeyRequest(p)
  BY <1>1 DEF CarefulKeyRequest, GivesUpKey, KeyRequest
<1>2. ASSUME NEW p \in Procs, CarefulOther(p) PROVE OtherRequest(p)
  BY <1>2 DEF CarefulOther, Login, OtherRequest
<1>3. [Next]_vars
  BY <1>1, <1>2 DEF CarefulNext, Next
<1> QED
  BY <1>3, StepOK

LEMMA InitInOrder == Init => TypeOK /\ InOrder
<1>1. Init => InOrder
  BY DEF Init, InOrder, OneOperation, Deserted, RowsFit, RowFits, KeyOperation, Creating,
     GivesUp, NoRequest, Unsaved, Cached, Saved, At
<1> QED
  BY <1>1, InitOK

\* Whatever call failed before and wherever the process restarted, the creations of a
\* careful client overwrite data with the key the row has, and no other.
THEOREM OnlySavedKeyEncrypts == CarefulSpec => EncryptsUnderSavedKey
<1>1. TypeOK /\ InOrder /\ [CarefulNext]_vars =>
        [\A p \in Procs : At(p, "encWrite") /\ data' # data /\ req'[p] # req[p]
            => HasMasterKey /\ wrapped.key = req[p].mk]_vars
  BY DEF InOrder, RowsFit, RowFits, Saved, At
<1> QED
  BY <1>1, CarefulTypes, InitInOrder, OrderStep, PTL DEF CarefulSpec, EncryptsUnderSavedKey

\* ... and until a call fails or the process restarts: the passwords, and the keys
\* that are about to be used.
InUse(k) ==
    \/ HasMasterKey /\ wrapped.key = k
    \/ \E p \in Procs : req[p].pc \in Creating /\ req[p].raw = k
UseFits(r) ==
    /\ r.pc \in {"check", "verify", "generate"} => r.raw = NoKey
    /\ r.pc \in (Creating \ {"check", "verify"}) \cup {"rewSave", "resSave"} => r.pw = hash
    /\ r.pc \in {"gate", "setKey"} => cache = NoKey \/ InUse(cache)
    /\ r.pc = "saveWrite" => r.mk = NoKey \/ InUse(r.mk)
    /\ r.pc = "resClear" => \A kind \in Kinds : data[kind] \notin Keys
UsesFit == \A p \in Procs : UseFits(req[p])
RowOpens ==
    \/ HasMasterKey => wrapped.pw = hash
    \/ \E p \in Procs : req[p].pc \in {"resSave", "resCheck", "resDelete", "resClear"}
DataInUse ==
    \A kind \in Kinds : data[kind] \in Keys =>
        InUse(data[kind]) \/ \E p \in Procs : At(p, "rewDelete")
InStep == UsesFit /\ RowOpens /\ DataInUse

\* A key stays in use when its creation goes on, or leaves it to the row.
LEMMA StaysInUse ==
  ASSUME NEW p \in Procs, \A q \in Procs \ {p} : req'[q] = req[q],
         HasMasterKey => HasMasterKey' /\ wrapped'.key = wrapped.key,
         req[p].pc \in Creating => \/ req[p].raw = NoKey
                                   \/ req'[p].pc \in Creating /\ req'[p].raw = req[p].raw
                                   \/ HasMasterKey' /\ wrapped'.key = req[p].raw,
         NEW k, k # NoKey, InUse(k)
  PROVE  InUse(k)'
<1>1. CASE HasMasterKey /\ wrapped.key = k
  BY <1>1 DEF InUse
<1>2. ASSUME NEW q \in Procs, req[q].pc \in Creating, req[q].raw = k PROVE InUse(k)'
  BY <1>2 DEF InUse
<1> QED
  BY <1>1, <1>2 DEF InUse

\* A step of one handler while nobody gives the key up: what it puts in the cache
\* or in the data is in use.
LEMMA UseKept ==
  ASSUME TypeOK, TypeOK', InOrder, InStep, NEW p \in Procs, NEW r,
         req'[p] = r, \A q \in Procs \ {p} : req'[q] = req[q],
         \A q \in Procs : ~(req[q].pc \in {"rewClear", "rewDelete", "resDelete", "resClear"}),
         UseFits(r)', RowOpens',
         HasMasterKey => HasMasterKey' /\ wrapped'.key = wrapped.key,
         req[p].pc \in Creating => \/ req[p].raw = NoKey
                                   \/ req'[p].pc \in Creating /\ req'[p].raw = req[p].raw
                                   \/ HasMasterKey' /\ wrapped'.key = req[p].raw,
         UNCHANGED cache \/ InUse(cache)',
         UNCHANGED hash \/ KeyOperation(p),
         \A kind \in Kinds : data'[kind] \in Keys => data'[kind] = data[kind] \/ InUse(data'[kind])
  PROVE  InStep'
<1>1. \A k : k # NoKey /\ InUse(k) => InUse(k)'
  BY StaysInUse
<1>2. ASSUME NEW q \in Procs, q # p PROVE UseFits(req[q])'
  <2>1. UseFits(req[q]) /\ req'[q] = req[q]
    BY <1>2 DEF InStep, UsesFit
  <2>2. req[q].pc \in Creating \cup {"rewSave", "resSave"} => hash' = hash
    BY <1>2 DEF InOrder, OneOperation, KeyOperation
  <2>3. cache # NoKey /\ InUse(cache) => cache' = NoKey \/ InUse(cache)'
    <3>1. CASE UNCHANGED cache
      BY <1>1, <3>1 DEF InUse
    <3> QED
      BY <3>1
  <2>4. cache = NoKey => cache' = NoKey \/ InUse(cache)'
    OBVIOUS
  <2>5. req[q].mk # NoKey /\ InUse(req[q].mk) => InUse(req[q].mk)'
    BY <1>1, <2>1 DEF InUse
  <2> QED
    BY <2>1, <2>2, <2>3, <2>4, <2>5 DEF UseFits, InUse
<1>3. UsesFit'
  BY <1>2 DEF UsesFit
<1>4. DataInUse'
  <2> SUFFICES ASSUME NEW kind \in Kinds, data'[kind] \in Keys PROVE InUse(data[kind])'
    BY DEF DataInUse
  <2>1. InUse(data'[kind])
    BY DEF InStep, DataInUse, At
  <2> QED
    BY <1>1, <2>1 DEF InUse
<1> QED
  BY <1>3, <1>4 DEF InStep

\* A handler alone gives the key up.
LEMMA UseAlone ==
  ASSUME TypeOK, NEW p \in Procs, \A q \in Procs \ {p} : At(q, "idle"),
         NEW r, req'[p] = r, \A q \in Procs \ {p} : req'[q] = req[q],
         UseFits(r)', RowOpens', DataInUse'
  PROVE  InStep'
<1>1. \A q \in Procs \ {p} : UseFits(req[q])'
  BY DEF UseFits, At, Creating
<1> QED
  BY <1>1 DEF InStep, UsesFit

\* A careful request: what it will save is in use, and its password is the one
\* that logs in.
LEMMA RequestInStep ==
  ASSUME TypeOK, TypeOK', InOrder, InStep, NEW p \in Procs,
         CarefulKeyRequest(p) \/ GivesUpKey(p) \/ CarefulOther(p)
  PROVE  InStep'
<1>1. \A q \in Procs : req[q].pc \notin {"rewClear", "rewDelete", "resDelete", "resClear"}
  BY DEF CarefulKeyRequest, GivesUpKey, CarefulOther, GivingUp, Quiet, KeyOperation, At
<1>2. ASSUME NEW r, Start(p, r), UseFits(r) PROVE InStep'
  <2>1. /\ req'[p] = r /\ \A q \in Procs \ {p} : req'[q] = req[q]
        /\ UNCHANGED <<hash, wrapped, data, cache>>
        /\ req[p].pc = "idle"
    BY <1>2, Moved DEF Start, mysql, keys, At
  <2>2. \A k : InUse(k) => InUse(k)'
    BY <2>1 DEF InUse, HasMasterKey, Creating
  <2>3. UseFits(r)'
    BY <1>2, <2>1, <2>2 DEF UseFits
  <2>4. RowOpens'
    BY <2>1 DEF InStep, RowOpens, HasMasterKey
  <2> QED
    BY <1>1, <2>1, <2>3, <2>4, UseKept DEF Creating, HasMasterKey
<1> USE DEF NoRequest, UseFits, Creating
<1>3. CASE CarefulKeyRequest(p)
  <2>1. ASSUME NEW pw \in Passwords, StartCreate(p, pw) PROVE InStep'
    BY <1>2, <2>1 DEF StartCreate
  <2>2. ASSUME NEW raw \in kept,
               StartRewrap(p, raw, hash) \/ \E pw \in Passwords : StartReset(p, raw, pw)
        PROVE  InStep'
    BY <1>2, <2>2 DEF StartRewrap, StartReset
  <2>3. ASSUME NEW pw \in Passwords, StartReset(p, NoKey, pw) \/ StartResetMalformed(p, pw)
        PROVE  InStep'
    BY <1>2, <2>3 DEF StartReset, StartResetMalformed
  <2> QED
    BY <1>3, <2>1, <2>2, <2>3 DEF CarefulKeyRequest
<1>4. CASE GivesUpKey(p)
  BY <1>2, <1>4 DEF GivesUpKey, StartRewrap, StartReset
<1>5. CASE CarefulOther(p)
  <2>1. ASSUME NEW pw \in Passwords, StartLogin(p, pw) PROVE InStep'
    BY <1>2, <2>1 DEF StartLogin
  <2>2. ~Stale => cache = NoKey \/ InUse(cache)
    BY DEF Stale, InUse
  <2> HIDE DEF NoRequest
  <2>3. CASE StartSetUserAPIKey(p) /\ ~Stale
    <3>1. PICK r : r = [NoRequest EXCEPT !.pc = IF cache = NoKey THEN "gate" ELSE "setKey"]
      OBVIOUS
    <3>2. r.pc \in {"gate", "setKey"}
      BY <3>1 DEF NoRequest
    <3> QED
      BY <1>2, <2>2, <2>3, <3>1, <3>2 DEF StartSetUserAPIKey
  <2>4. ASSUME NEW kind \in SavedHere, StartSave(p, kind), ~Stale PROVE InStep'
    <3>1. PICK r : r = [NoRequest EXCEPT !.pc = "saveWrite", !.mk = cache, !.todo = {kind}]
      OBVIOUS
    <3>2. r.pc = "saveWrite" /\ r.mk = cache
      BY <3>1 DEF NoRequest
    <3> QED
      BY <1>2, <2>2, <2>4, <3>1, <3>2 DEF StartSave
  <2> QED
    BY <1>5, <2>1, <2>3, <2>4 DEF CarefulOther, Login, OtherRequest
<1> QED
  BY <1>3, <1>4, <1>5

\* A creation in good order ends with its key in the row, or had none yet.
LEMMA CreateInStep ==
  ASSUME TypeOK, TypeOK', InOrder, InStep, UNCHANGED faults, NEW p \in Procs,
         \/ Check(p) \/ Verify(p) \/ Generate(p) \/ GenRedis(p) \/ Load(p)
         \/ LoadRedis(p) \/ GetKey(p) \/ SaveKey(p) \/ EncRead(p) \/ EncWrite(p)
         \/ Deliver(p)
  PROVE  InStep'
<1> USE DEF mysql, keys, At
<1>0. /\ ~Fault
      /\ req[p] \in Requests /\ HandlerOK(req[p]) /\ RowFits(req[p]) /\ UseFits(req[p])
      /\ req[p].pc \in Creating /\ KeyOperation(p)
  <2>1. req[p].pc \in Creating
    BY DEF Creating, Check, Verify, Generate, GenRedis, Load, LoadRedis, GetKey,
       SaveKey, EncRead, EncWrite, Deliver
  <2> QED
    BY <2>1 DEF Fault, HandlersOK, InOrder, RowsFit, InStep, UsesFit, KeyOperation
<1>1. \A q \in Procs : req[q].pc \notin
          {"rewClear", "rewDelete", "resDelete", "resClear", "resSave", "resCheck"}
  BY <1>0 DEF InOrder, OneOperation, KeyOperation, Creating
<1>2. HasMasterKey => wrapped.pw = hash
  BY <1>1 DEF InStep, RowOpens
<1>f. ASSUME Finish(p), UNCHANGED <<wrapped, hash, cache, data>>,
             req[p].raw = NoKey \/ (HasMasterKey /\ wrapped.key = req[p].raw)
      PROVE  InStep'
  <2>1. req'[p] = NoRequest /\ \A q \in Procs \ {p} : req'[q] = req[q]
    BY <1>f, Moved DEF Finish
  <2>2. UseFits(NoRequest)' /\ RowOpens'
    BY <1>2, <1>f DEF UseFits, NoRequest, Creating, RowOpens, HasMasterKey
  <2> HIDE DEF NoRequest
  <2>3. HasMasterKey' = HasMasterKey
    BY <1>f DEF HasMasterKey
  <2> QED
    BY <1>1, <1>f, <2>1, <2>2, <2>3, UseKept
<1>g. ASSUME NEW r, Move(p, r), r.pc \in Creating, UseFits(r)', UNCHANGED hash,
             req[p].raw = NoKey \/ r.raw = req[p].raw,
             UNCHANGED wrapped \/ (~HasMasterKey /\ HasMasterKey' /\ wrapped'.pw = hash),
             UNCHANGED cache \/ cache' = r.raw,
             UNCHANGED data \/ \A kind \in Kinds :
                 data'[kind] \in Keys => data'[kind] = data[kind] \/ data'[kind] = req[p].raw
      PROVE  InStep'
  <2>1. req'[p] = r /\ \A q \in Procs \ {p} : req'[q] = req[q]
    BY <1>g, Moved
  <2>2. HasMasterKey => HasMasterKey' /\ wrapped'.key = wrapped.key
    BY <1>g DEF HasMasterKey
  <2>3. RowOpens'
    BY <1>2, <1>g DEF RowOpens, HasMasterKey
  <2>4. UNCHANGED cache \/ InUse(cache)'
    BY <1>g, <2>1 DEF InUse
  <2>5. \A kind \in Kinds : data'[kind] \in Keys => data'[kind] = data[kind] \/ InUse(data'[kind])
    BY <1>0, <1>g DEF InUse
  <2>6. req[p].raw = NoKey \/ (req'[p].pc \in Creating /\ req'[p].raw = req[p].raw)
    BY <1>g, <2>1
  <2> QED
    BY <1>1, <1>g, <2>1, <2>2, <2>3, <2>4, <2>5, <2>6, UseKept
<1>h. ASSUME NEW label \in Creating, Goto(p, label), UNCHANGED <<hash, wrapped, data>>,
             UNCHANGED cache \/ cache' = req[p].raw,
             label \in {"check", "verify", "generate"} => req[p].raw = NoKey,
             label \notin {"check", "verify"} => req[p].pw = hash
      PROVE  InStep'
  <2>1. PICK r : r = [req[p] EXCEPT !.pc = label]
    OBVIOUS
  <2>2. Move(p, r) /\ r.pc = label /\ r.raw = req[p].raw /\ r.pw = req[p].pw
    BY <1>0, <1>h, <2>1 DEF Goto, Requests
  <2>3. UseFits(r)'
    BY <1>h, <2>2 DEF UseFits, Creating
  <2> QED
    BY <1>g, <1>h, <2>2, <2>3
<1>n. ASSUME NextKind(p), UNCHANGED <<hash, wrapped, cache>>,
             req[p].pc \in {"encRead", "encWrite"},
             UNCHANGED data \/ \A kind \in Kinds :
                 data'[kind] \in Keys => data'[kind] = data[kind] \/ data'[kind] = req[p].raw
      PROVE  InStep'
  <2>1. PICK r : Move(p, r) /\ \E rest : r = [req[p] EXCEPT
             !.pc = IF rest = {} THEN "deliver" ELSE "encRead", !.todo = rest]
    BY <1>n DEF NextKind
  <2>2. r.pc \in {"deliver", "encRead"} /\ r.raw = req[p].raw /\ r.pw = req[p].pw
    BY <1>0, <2>1 DEF Requests
  <2>3. UseFits(r)'
    BY <1>0, <1>n, <2>2 DEF UseFits, Creating
  <2> QED
    BY <1>g, <1>n, <2>1, <2>2, <2>3 DEF Creating
<1>3. CASE Check(p)
  BY <1>0, <1>3, <1>f, <1>h DEF Check, UseFits, Creating
<1>4. CASE Verify(p)
  BY <1>0, <1>4, <1>f, <1>h DEF Verify, UseFits, Creating
<1>5. CASE Generate(p)
  <2>1. ASSUME NEW k \in Keys, cache' = k,
               Move(p, [req[p] EXCEPT !.pc = "genRedis", !.raw = k])
        PROVE  InStep'
    <3>1. PICK r : r = [req[p] EXCEPT !.pc = "genRedis", !.raw = k]
      OBVIOUS
    <3>2. r.pc = "genRedis" /\ r.raw = k /\ r.pw = req[p].pw
      BY <1>0, <3>1 DEF Requests
    <3>3. UseFits(r)' /\ req[p].raw = NoKey
      BY <1>0, <1>5, <3>2 DEF Generate, UseFits, Creating
    <3> QED
      BY <1>5, <1>g, <2>1, <3>1, <3>2, <3>3 DEF Generate, Creating
  <2> QED
    BY <1>0, <1>5, <1>f, <2>1 DEF Generate, UseFits
<1>6. CASE GenRedis(p)
  BY <1>0, <1>6, <1>h DEF GenRedis, RedisKey, UseFits, Creating
<1>7. CASE Load(p)
  BY <1>0, <1>7, <1>h DEF Load, CacheKey, UseFits, Creating
<1>8. CASE LoadRedis(p)
  BY <1>0, <1>8, <1>h DEF LoadRedis, RedisKey, UseFits, Creating
<1>9. CASE GetKey(p)
  <2>1. cache # NoKey
    BY <1>0, <1>9 DEF GetKey, HandlerOK, RowFits, Cached
  <2>2. PICK r : r = [req[p] EXCEPT !.pc = "save", !.mk = cache]
    OBVIOUS
  <2>3. r.pc = "save" /\ r.raw = req[p].raw /\ r.pw = req[p].pw
    BY <1>0, <2>2 DEF Requests
  <2>4. UseFits(r)'
    BY <1>0, <1>9, <2>3 DEF GetKey, UseFits, Creating
  <2> QED
    BY <1>9, <1>g, <2>1, <2>2, <2>3, <2>4 DEF GetKey, Creating
<1>10. CASE SaveKey(p)
  <2>1. PICK r : r = [req[p] EXCEPT !.pc = IF Kinds = {} THEN "deliver" ELSE "encRead",
                                   !.todo = Kinds]
    OBVIOUS
  <2>2. r.pc \in {"deliver", "encRead"} /\ r.raw = req[p].raw /\ r.pw = req[p].pw
    BY <1>0, <2>1 DEF Requests
  <2>3. SetWrapped(req[p].raw, req[p].pw) /\ Move(p, r)
    BY <1>0, <1>10, <2>1 DEF SaveKey, StartEncrypting
  <2>4. req[p].raw \in Keys /\ req[p].pw \in Passwords /\ ~HasMasterKey /\ req[p].pw = hash
    BY <1>0, <1>10 DEF SaveKey, HandlerOK, RowFits, UseFits, Unsaved, Creating
  <2>5. wrapped' # NoWrap /\ wrapped'.pw = hash
    BY <2>3, <2>4 DEF SetWrapped, Wraps
  <2>6. UseFits(r)'
    BY <2>2, <2>3, <2>4 DEF UseFits, SetWrapped, Creating
  <2> QED
    BY <1>10, <1>g, <2>2, <2>3, <2>4, <2>5, <2>6 DEF SaveKey, SetWrapped, HasMasterKey, Creating
<1>11. CASE EncRead(p)
  BY <1>0, <1>11, <1>h, <1>n DEF EncRead, UseFits, Creating
<1>12. CASE EncWrite(p)
  <2>1. NextKind(p) /\ Encrypts(p) /\ req[p].mk = req[p].raw
    BY <1>0, <1>12 DEF EncWrite, RowFits
  <2>2. \A kind \in Kinds : data'[kind] = data[kind] \/ data'[kind] = req[p].raw
    BY <2>1 DEF Encrypts
  <2>3. UNCHANGED <<hash, wrapped>>
    BY <2>1 DEF Encrypts
  <2> QED
    BY <1>12, <1>n, <2>1, <2>2, <2>3 DEF EncWrite
<1>13. CASE Deliver(p)
  <2>1. HasMasterKey /\ wrapped.key = req[p].raw
    BY <1>0, <1>13 DEF Deliver, RowFits, Saved
  <2> QED
    BY <1>13, <1>f, <2>1 DEF Deliver
<1> QED
  BY <1>3, <1>4, <1>5, <1>6, <1>7, <1>8, <1>9, <1>10, <1>11, <1>12, <1>13

\* A rewrap or reset wraps the key the row has under the password in use, or takes
\* the key and the data away when nobody looks.
LEMMA ResetInStep ==
  ASSUME TypeOK, TypeOK', InOrder, InStep, UNCHANGED faults, NEW p \in Procs,
         \/ RewSave(p) \/ RewClear(p) \/ RewDelete(p) \/ ResPassword(p)
         \/ ResMalformed(p) \/ ResSave(p) \/ ResLoad(p) \/ ResRedis(p) \/ ResCheck(p)
         \/ ResDelete(p) \/ ResClear(p)
  PROVE  InStep'
<1> USE DEF mysql, keys, At
<1>0. /\ ~Fault
      /\ req[p] \in Requests /\ HandlerOK(req[p]) /\ RowFits(req[p]) /\ UseFits(req[p])
      /\ KeyOperation(p) /\ req[p].pc \notin Creating
  <2>1. KeyOperation(p) /\ req[p].pc \notin Creating
    BY DEF KeyOperation, Creating, RewSave, RewClear, RewDelete, ResPassword, ResMalformed,
       ResSave, ResLoad, ResRedis, ResCheck, ResDelete, ResClear
  <2> QED
    BY <2>1 DEF Fault, HandlersOK, InOrder, RowsFit, InStep, UsesFit
<1>1. \A q \in Procs \ {p} : req[q].pc \notin
          {"rewClear", "rewDelete", "resDelete", "resClear", "resSave", "resCheck"}
  BY <1>0 DEF InOrder, OneOperation, KeyOperation
<1>2. req[p].pc \in {"rewSave", "resPassword", "resLoad", "resRedis"} =>
          (HasMasterKey => wrapped.pw = hash)
  BY <1>1 DEF InStep, RowOpens
<1>r. UseFits(NoRequest)'
  BY DEF UseFits, NoRequest, Creating
\* ... while the key stays,
<1>g. ASSUME NEW r, Move(p, r), UseFits(r)', RowOpens', UNCHANGED data,
             req[p].pc \notin {"rewClear", "rewDelete", "resDelete", "resClear"},
             HasMasterKey => HasMasterKey' /\ wrapped'.key = wrapped.key,
             UNCHANGED cache \/ InUse(cache)'
      PROVE  InStep'
  <2>1. req'[p] = r /\ \A q \in Procs \ {p} : req'[q] = req[q]
    BY <1>g, Moved
  <2> QED
    BY <1>0, <1>1, <1>g, <2>1, UseKept
\* ... and while it goes.
<1>a. ASSUME NEW r, Move(p, r), UseFits(r)', RowOpens', DataInUse',
             req[p].pc \in {"rewClear", "rewDelete", "resDelete", "resClear"}
      PROVE  InStep'
  <2>1. req'[p] = r /\ \A q \in Procs \ {p} : req'[q] = req[q]
    BY <1>a, Moved
  <2>2. \A q \in Procs \ {p} : At(q, "idle")
    BY <1>a DEF InOrder, Deserted, GivesUp
  <2> QED
    BY <1>a, <2>1, <2>2, UseAlone
<1>3. CASE RewSave(p)
  <2>1. SetWrapped(req[p].raw, req[p].pw) /\ Finish(p) /\ UNCHANGED cache
    BY <1>0, <1>3 DEF RewSave, WriteLast
  <2>2. wrapped' # NoWrap /\ wrapped'.key = req[p].raw /\ wrapped'.pw = hash
    BY <1>0, <1>3, <2>1 DEF RewSave, SetWrapped, HandlerOK, Wraps, UseFits
  <2>3. HasMasterKey => HasMasterKey' /\ wrapped'.key = wrapped.key
    BY <1>0, <1>3, <2>2 DEF RewSave, RowFits, Saved, HasMasterKey
  <2>4. RowOpens'
    BY <2>1, <2>2 DEF RowOpens, SetWrapped
  <2> QED
    BY <1>3, <1>g, <1>r, <2>1, <2>3, <2>4 DEF RewSave, SetWrapped, Finish
<1>4. CASE RewClear(p)
  <2>1. ClearWrapped /\ Goto(p, "rewDelete")
    BY <1>0, <1>4 DEF RewClear, Write
  <2>2. PICK r : r = [req[p] EXCEPT !.pc = "rewDelete"]
    OBVIOUS
  <2>3. r.pc = "rewDelete" /\ Move(p, r)
    BY <1>0, <2>1, <2>2 DEF Goto, Requests
  <2>4. UseFits(r)' /\ RowOpens' /\ DataInUse'
    BY <2>1, <2>3, Moved DEF UseFits, RowOpens, DataInUse, ClearWrapped, HasMasterKey, Creating
  <2> QED
    BY <1>4, <1>a, <2>3, <2>4 DEF RewClear
<1>5. CASE RewDelete(p)
  <2>1. DeleteData /\ Finish(p)
    BY <1>0, <1>5 DEF RewDelete, WriteLast
  <2>2. DataInUse' /\ RowOpens'
    <3>1. \A kind \in Kinds : data'[kind] \notin Keys
      BY <2>1 DEF DeleteData
    <3>2. HasMasterKey => wrapped.pw = hash
      BY <1>1, <1>5 DEF RewDelete, InStep, RowOpens
    <3> QED
      BY <2>1, <3>1, <3>2 DEF DataInUse, RowOpens, DeleteData, HasMasterKey
  <2> QED
    BY <1>5, <1>a, <1>r, <2>1, <2>2 DEF RewDelete, Finish
<1>6. CASE ResPassword(p)
  <2>1. PICK label \in {"resCheck", "resSave"} :
            Goto(p, label) /\ hash' = req[p].pw /\ UNCHANGED <<wrapped, data, cache>>
    BY <1>0, <1>6 DEF ResPassword, Write
  <2>2. PICK r : r = [req[p] EXCEPT !.pc = label]
    OBVIOUS
  <2>3. r.pc = label /\ r.pw = req[p].pw /\ Move(p, r)
    BY <1>0, <2>1, <2>2 DEF Goto, Requests
  <2>4. UseFits(r)' /\ RowOpens'
    BY <2>1, <2>3, Moved DEF UseFits, RowOpens, Creating
  <2> QED
    BY <1>6, <1>g, <2>1, <2>3, <2>4 DEF ResPassword, HasMasterKey
<1>m. CASE ResMalformed(p)
  <2>1. ~HasMasterKey /\ UNCHANGED <<wrapped, data, cache>> /\ Finish(p)
    BY <1>0, <1>m DEF ResMalformed, WriteLast, RowFits, Unsaved
  <2>2. RowOpens'
    BY <2>1 DEF RowOpens, HasMasterKey
  <2> QED
    BY <1>m, <1>g, <1>r, <2>1, <2>2 DEF ResMalformed, Finish, HasMasterKey
<1>7. CASE ResSave(p)
  <2>1. SetWrapped(req[p].raw, req[p].pw) /\ Goto(p, "resLoad") /\ UNCHANGED cache
    BY <1>0, <1>7 DEF ResSave, Write
  <2>2. wrapped' # NoWrap /\ wrapped'.key = req[p].raw /\ wrapped'.pw = hash
    BY <1>0, <1>7, <2>1 DEF ResSave, SetWrapped, HandlerOK, Wraps, UseFits
  <2>3. HasMasterKey => HasMasterKey' /\ wrapped'.key = wrapped.key
    BY <1>0, <1>7, <2>2 DEF ResSave, RowFits, Saved, HasMasterKey
  <2>4. PICK r : r = [req[p] EXCEPT !.pc = "resLoad"]
    OBVIOUS
  <2>5. r.pc = "resLoad" /\ Move(p, r)
    BY <1>0, <2>1, <2>4 DEF Goto, Requests
  <2>6. UseFits(r)' /\ RowOpens'
    BY <2>1, <2>2, <2>5 DEF UseFits, RowOpens, SetWrapped, Creating
  <2> QED
    BY <1>7, <1>g, <2>1, <2>3, <2>5, <2>6 DEF ResSave, SetWrapped
<1>8. CASE ResLoad(p)
  <2>1. PICK r : r = [req[p] EXCEPT !.pc = "resRedis"]
    OBVIOUS
  <2>2. r.pc = "resRedis" /\ Move(p, r)
    BY <1>0, <1>8, <2>1 DEF ResLoad, Goto, Requests
  <2>3. UNCHANGED <<hash, wrapped, data>> /\ InUse(cache)'
    BY <1>0, <1>8 DEF ResLoad, CacheKey, RowFits, Saved, InUse, HasMasterKey
  <2>4. UseFits(r)' /\ RowOpens'
    BY <1>2, <1>8, <2>2, <2>3 DEF ResLoad, UseFits, RowOpens, HasMasterKey, Creating
  <2> QED
    BY <1>8, <1>g, <2>2, <2>3, <2>4 DEF ResLoad, HasMasterKey
<1>9. CASE ResRedis(p)
  <2>1. UNCHANGED <<hash, wrapped, data, cache>> /\ Finish(p)
    BY <1>9 DEF ResRedis, RedisKey
  <2>2. RowOpens'
    BY <1>2, <1>9, <2>1 DEF ResRedis, RowOpens, HasMasterKey
  <2> QED
    BY <1>9, <1>g, <1>r, <2>1, <2>2 DEF ResRedis, Finish, HasMasterKey
<1>10. CASE ResCheck(p)
  <2>1. UNCHANGED <<hash, wrapped, data, cache>>
    BY <1>10 DEF ResCheck
  <2>2. CASE Goto(p, "resDelete")
    <3>1. PICK r : r = [req[p] EXCEPT !.pc = "resDelete"]
      OBVIOUS
    <3>2. r.pc = "resDelete" /\ Move(p, r)
      BY <1>0, <2>2, <3>1 DEF Goto, Requests
    <3>3. UseFits(r)' /\ RowOpens'
      BY <3>2, Moved DEF UseFits, RowOpens, Creating
    <3> QED
      BY <1>10, <1>g, <2>1, <3>2, <3>3 DEF ResCheck, HasMasterKey
  <2>3. CASE ~HasMasterKey /\ Finish(p)
    BY <1>10, <1>g, <1>r, <2>1, <2>3 DEF ResCheck, Finish, HasMasterKey, RowOpens
  <2> QED
    BY <1>0, <1>10, <2>2, <2>3 DEF ResCheck
<1>11. CASE ResDelete(p)
  <2>1. DeleteData /\ Goto(p, "resClear")
    BY <1>0, <1>11 DEF ResDelete, Write
  <2>2. PICK r : r = [req[p] EXCEPT !.pc = "resClear"]
    OBVIOUS
  <2>3. r.pc = "resClear" /\ Move(p, r)
    BY <1>0, <2>1, <2>2 DEF Goto, Requests
  <2>4. \A kind \in Kinds : data'[kind] \notin Keys
    BY <2>1 DEF DeleteData
  <2>5. UseFits(r)' /\ RowOpens' /\ DataInUse'
    BY <2>3, <2>4, Moved DEF UseFits, RowOpens, DataInUse, Creating
  <2> QED
    BY <1>11, <1>a, <2>3, <2>5 DEF ResDelete
<1>12. CASE ResClear(p)
  <2>1. ClearWrapped /\ Finish(p) /\ \A kind \in Kinds : data[kind] \notin Keys
    BY <1>0, <1>12 DEF ResClear, WriteLast, UseFits
  <2>2. DataInUse' /\ RowOpens'
    BY <2>1 DEF DataInUse, RowOpens, ClearWrapped, HasMasterKey
  <2> QED
    BY <1>12, <1>a, <1>r, <2>1, <2>2 DEF ResClear, Finish
<1> QED
  BY <1>3, <1>4, <1>5, <1>6, <1>m, <1>7, <1>8, <1>9, <1>10, <1>11, <1>12

\* What a login caches is the row's, and what is saved was in use when it began.
LEMMA UseInStep ==
  ASSUME TypeOK, TypeOK', InOrder, InStep, UNCHANGED faults, NEW p \in Procs,
         \/ LogRead(p) \/ LogLoad(p) \/ LogRedis(p)
         \/ Gate(p) \/ SetKey(p) \/ SaveWrite(p)
  PROVE  InStep'
<1> USE DEF mysql, keys, At
<1>0. /\ ~Fault
      /\ req[p] \in Requests /\ RowFits(req[p]) /\ UseFits(req[p])
      /\ req[p].pc \in {"logRead", "logLoad", "logRedis", "gate", "setKey", "saveWrite"}
  <2>1. ~Fault
    BY DEF Fault
  <2>2. req[p].pc \in {"logRead", "logLoad", "logRedis", "gate", "setKey", "saveWrite"}
    BY DEF LogRead, LogLoad, LogRedis, Gate, SetKey, SaveWrite
  <2> QED
    BY <2>1, <2>2 DEF HandlersOK, InOrder, RowsFit, InStep, UsesFit
<1>1. \A q \in Procs : req[q].pc \notin {"rewClear", "rewDelete", "resDelete", "resClear"}
  BY <1>0 DEF InOrder, Deserted, GivesUp
<1>o. UNCHANGED <<hash, wrapped>>
  BY DEF LogRead, LogLoad, LogRedis, Gate, SetKey, SaveWrite, WriteLast, CacheKey, RedisKey
<1>p. RowOpens'
  <2>1. PICK r : Move(p, r)
    BY DEF LogRead, LogLoad, LogRedis, Gate, SetKey, SaveWrite, WriteLast, Finish, Goto
  <2>2. \A q \in Procs \ {p} : req'[q] = req[q]
    BY <2>1, Moved
  <2> QED
    BY <1>0, <1>o, <2>2 DEF InStep, RowOpens, HasMasterKey
<1>g. ASSUME NEW r, Move(p, r), UseFits(r)', UNCHANGED cache \/ InUse(cache)',
             \A kind \in Kinds : data'[kind] \in Keys =>
                 data'[kind] = data[kind] \/ InUse(data'[kind])
      PROVE  InStep'
  <2>1. req'[p] = r /\ \A q \in Procs \ {p} : req'[q] = req[q]
    BY <1>g, Moved
  <2>2. HasMasterKey' = HasMasterKey /\ req[p].pc \notin Creating
    BY <1>0, <1>o DEF HasMasterKey, Creating
  <2> QED
    BY <1>1, <1>o, <1>p, <1>g, <2>1, <2>2, UseKept
<1>f. ASSUME Finish(p), UNCHANGED cache,
             \A kind \in Kinds : data'[kind] \in Keys =>
                 data'[kind] = data[kind] \/ InUse(data'[kind])
      PROVE  InStep'
  <2>1. UseFits(NoRequest)'
    BY DEF UseFits, NoRequest, Creating
  <2> QED
    BY <1>f, <1>g, <2>1 DEF Finish
<1>2. CASE LogRead(p)
  <2>1. CASE Move(p, [req[p] EXCEPT !.pc = "logLoad", !.mk = wrapped.key])
    <3>1. PICK r : r = [req[p] EXCEPT !.pc = "logLoad", !.mk = wrapped.key]
      OBVIOUS
    <3>2. UseFits(r)'
      BY <1>0, <3>1 DEF Requests, UseFits, Creating
    <3> QED
      BY <1>2, <1>g, <2>1, <3>1, <3>2 DEF LogRead
  <2> QED
    BY <1>2, <1>f, <2>1 DEF LogRead
<1>3. CASE LogLoad(p)
  <2>1. PICK r : r = [req[p] EXCEPT !.pc = "logRedis"]
    OBVIOUS
  <2>2. Move(p, r) /\ UseFits(r)'
    BY <1>0, <1>3, <2>1 DEF LogLoad, Goto, Requests, UseFits, Creating
  <2>3. InUse(cache)' /\ UNCHANGED data
    BY <1>0, <1>3, <1>o DEF LogLoad, CacheKey, RowFits, InUse, HasMasterKey
  <2> QED
    BY <1>g, <2>2, <2>3
<1>4. CASE LogRedis(p)
  BY <1>4, <1>f DEF LogRedis, RedisKey
<1>5. CASE Gate(p)
  <2>1. CASE Goto(p, "setKey")
    <3>1. PICK r : r = [req[p] EXCEPT !.pc = "setKey"]
      OBVIOUS
    <3>2. r.pc = "setKey" /\ Move(p, r)
      BY <1>0, <2>1, <3>1 DEF Goto, Requests
    <3>3. \A k : InUse(k) => InUse(k)'
      <4>1. \A q \in Procs \ {p} : req'[q] = req[q]
        BY <3>2, Moved
      <4>2. req[p].pc \notin Creating
        BY <1>0 DEF Creating
      <4> QED
        BY <1>o, <4>1, <4>2 DEF InUse, HasMasterKey
    <3>4. UseFits(r)'
      BY <1>0, <1>5, <3>2, <3>3 DEF Gate, UseFits, Creating
    <3> QED
      BY <1>5, <1>g, <3>2, <3>4 DEF Gate
  <2> QED
    BY <1>5, <1>f, <2>1 DEF Gate
<1>6. CASE SetKey(p)
  <2>1. PICK form \in {"app"} \cup ({cache} \ {NoKey}) : data' = [data EXCEPT !["apiKeys"] = form]
    BY <1>0, <1>6 DEF SetKey, WriteLast
  <2>2. form \in Keys => InUse(form)
    BY <1>0, <1>6 DEF SetKey, UseFits
  <2>3. \A kind \in Kinds : data'[kind] \in Keys =>
            data'[kind] = data[kind] \/ InUse(data'[kind])
    BY <2>1, <2>2
  <2> QED
    BY <1>6, <1>f, <2>3 DEF SetKey, WriteLast
<1>7. CASE SaveWrite(p)
  <2>1. PICK form : /\ form = IF req[p].mk = NoKey THEN "plain" ELSE req[p].mk
                    /\ data' = [data EXCEPT ![Current(p)] = form]
    BY <1>0, <1>7 DEF SaveWrite, WriteLast
  <2>2. form \in Keys => InUse(form)
    BY <1>0, <1>7, <2>1 DEF SaveWrite, UseFits
  <2>3. \A kind \in Kinds : data'[kind] \in Keys =>
            data'[kind] = data[kind] \/ InUse(data'[kind])
    BY <2>1, <2>2
  <2> QED
    BY <1>7, <1>f, <2>3 DEF SaveWrite, WriteLast
<1> QED
  BY <1>2, <1>3, <1>4, <1>5, <1>6, <1>7

LEMMA InStepStep ==
  ASSUME TypeOK, InOrder, Untroubled => InStep, [CarefulNext]_vars, Untroubled'
  PROVE  InStep'
<1>1. TypeOK'
  BY CarefulTypes
<1>2. ASSUME NEW p \in Procs, Serve(p) PROVE InStep'
  <2>1. (Works \/ Fault) /\ UNCHANGED restarts
    BY <1>2
    DEF Serve, Works, Check, Verify, Generate, GenRedis, Load, LoadRedis, GetKey,
        SaveKey, EncRead, EncWrite, Deliver, RewSave, RewClear, RewDelete,
        ResPassword, ResMalformed, ResSave, ResLoad, ResRedis, ResCheck, ResDelete, ResClear,
        LogRead, LogLoad, LogRedis, Gate, SetKey, SaveWrite, Write, WriteLast,
        CacheKey, RedisKey
  <2>2. UNCHANGED faults /\ Untroubled
    BY <2>1, StaysUntroubled DEF Works
  <2> QED
    BY <1>1, <1>2, <2>2, CreateInStep, ResetInStep, UseInStep DEF Serve
<1>3. ASSUME NEW p \in Procs, CarefulKeyRequest(p) \/ GivesUpKey(p) \/ CarefulOther(p)
      PROVE  InStep'
  <2>1. UNCHANGED <<faults, restarts>>
    BY <1>3
    DEF CarefulKeyRequest, GivesUpKey, CarefulOther, Login, OtherRequest, StartCreate,
        StartResetMalformed, StartRewrap, StartReset, StartLogin, StartSetUserAPIKey, StartSave, Start
  <2> QED
    BY <1>1, <1>3, <2>1, RequestInStep DEF Untroubled
<1>4. CASE Restart
  BY <1>4 DEF Restart, Untroubled
<1>5. CASE UNCHANGED vars \/ Expire
  <2>1. UNCHANGED <<req, hash, wrapped, data, cache, faults, restarts>>
    BY <1>5 DEF Expire, vars, mysql, keys
  <2> QED
    BY <2>1 DEF Untroubled, InStep, UsesFit, UseFits, RowOpens, DataInUse, InUse, HasMasterKey, At
<1> QED
  BY <1>2, <1>3, <1>4, <1>5 DEF CarefulNext

\* Between the operations of a careful client, however its logins and saves run
\* beside them, the password that logs in opens the key, and all data is under it.
THEOREM AccountFits == CarefulSpec => []KeyFitsAccount
<1> DEFINE Inv == TypeOK /\ InOrder /\ (Untroubled => InStep)
<1>1. Init => Inv
  <2>1. Init => InStep
    BY DEF Init, InStep, UsesFit, UseFits, RowOpens, DataInUse, HasMasterKey, NoRequest, Creating
  <2> QED
    BY <2>1, InitInOrder
<1>2. Inv /\ [CarefulNext]_vars => Inv'
  BY CarefulTypes, OrderStep, InStepStep
<1>3. Inv => KeyFitsAccount
  <2> SUFFICES ASSUME Inv PROVE KeyFitsAccount
    OBVIOUS
  <2>1. PasswordOpensKey
    BY DEF PasswordOpensKey, InStep, RowOpens, Quiet, KeyOperation
  <2>2. DataUnderOwnKey
    BY DEF DataUnderOwnKey, InStep, DataInUse, InUse
  <2> QED
    BY <2>1, <2>2 DEF KeyFitsAccount
<1> QED
  BY <1>1, <1>2, <1>3, PTL DEF CarefulSpec
=============================================================================
