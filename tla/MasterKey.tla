----------------------------- MODULE MasterKey -----------------------------
(***************************************************************************)
(* The MasterKey of one user (users share nothing here): created, wrapped  *)
(* under the password, cached, used to encrypt the user's data, rewrapped  *)
(* and reset.  internal/usecase/masterkey/masterkey.go, auth/auth.go and   *)
(* provider/provider.go over internal/infrastructure/security/exam.go and  *)
(* internal/repository/mysql/{security,api_keys,channels}.go.              *)
(*                                                                         *)
(* One action is one call to MySQL, Redis or the RAM cache, so requests    *)
(* interleave between their calls.  A call may fail (at most MaxFaults     *)
(* times) with or without having taken effect; the process may restart (at *)
(* most MaxRestarts times) and then refills its cache from Redis.          *)
(*                                                                         *)
(* A wrapped key is the pair of the key and the password that opens it.    *)
(* One value stands for all the rows of a kind of data.                    *)
(***************************************************************************)
EXTENDS Naturals

CONSTANTS
    Keys,        \* keys GenerateAndWrapMasterKey may draw (bounds creations)
    Passwords,   \* passwords the user may choose
    Kinds,       \* kinds of data, a subset of the nine that are encrypted
    Procs,       \* request goroutines
    NoKey, NoWrap, NoPassword,
    MaxFaults, MaxRestarts

\* CreateMasterKey encrypts the kinds in this order.
Rank == [apiKeys |-> 1, channels |-> 2, dialogs |-> 3, google |-> 4,
         vectors |-> 5, crmConfigs |-> 6, crmStates |-> 7,
         storageConfig |-> 8, bots |-> 9]

\* A row that cannot be encrypted or written is logged and left as it is; for
\* every other kind the whole creation fails.
SkipsFailures == {"apiKeys", "channels", "dialogs", "vectors"}

\* DeleteEncryptedUserData deletes the rows of these kinds; of the others it
\* only empties the column, and a later UPDATE finds the row again.
DropsRow == {"apiKeys", "google", "vectors", "crmConfigs", "crmStates"}

\* Kinds this program saves itself, encrypting when the key is in the cache.
SavedHere == {"channels", "storageConfig"} \cap Kinds

Wraps  == [key : Keys, pw : Passwords]
Stored == {"empty", "plain", "app"} \cup Keys

ASSUME MasterKeyAssumption ==
    /\ NoKey \notin Keys
    /\ NoWrap \notin Wraps
    /\ NoPassword \notin Passwords
    /\ Keys \cap {"empty", "plain", "app"} = {}
    /\ Kinds \subseteq DOMAIN Rank
    /\ MaxFaults \in Nat
    /\ MaxRestarts \in Nat

VARIABLES
    hash,       \* user_auth.SHA: the password it was made from
    wrapped,    \* user_auth.MasterKey and WrapSalt
    data,       \* what is stored of each kind: empty, plain, app or a key
    cache,      \* Exam.masterKeyCache
    redisKey,   \* Redis "masterkey:<user>"
    req,        \* local state of each request goroutine
    drawn,      \* keys already generated
    kept,       \* raw keys returned to the user, who keeps them
    faults, restarts

mysql  == <<hash, wrapped, data>>
keys   == <<cache, redisKey>>
user   == <<drawn, kept>>
vars   == <<mysql, keys, req, user, faults, restarts>>

Creating == {"check", "verify", "generate", "genRedis", "load", "loadRedis",
             "getKey", "save", "encRead", "encWrite", "deliver"}
Labels == Creating \cup
          {"idle", "rewSave", "rewClear", "rewDelete", "resPassword", "resMalformed",
           "resSave", "resLoad", "resRedis", "resCheck", "resDelete", "resClear",
           "logRead", "logLoad", "logRedis", "gate", "setKey", "saveWrite"}
Requests == [pc : Labels, pw : Passwords \cup {NoPassword},
             raw : Keys \cup {NoKey}, mk : Keys \cup {NoKey}, todo : SUBSET Kinds]
NoRequest == [pc |-> "idle", pw |-> NoPassword, raw |-> NoKey, mk |-> NoKey,
              todo |-> {}]

\* What a handler has in hand at each point of its code.
HandlerOK(r) ==
    /\ r.pc \in Creating \cup {"rewSave", "resPassword", "resMalformed", "resSave",
                               "logRead"}
          => r.pw \in Passwords
    /\ r.pc \in {"genRedis", "load", "loadRedis", "getKey", "save", "encRead",
                 "encWrite", "deliver", "rewSave", "resSave", "resLoad", "resRedis"}
          => r.raw \in Keys
    /\ r.pc \in {"save", "encRead", "encWrite", "logLoad", "logRedis"} => r.mk \in Keys
    /\ r.pc \in {"encRead", "encWrite"} => r.todo # {}

HandlersOK == req \in [Procs -> Requests] /\ \A p \in Procs : HandlerOK(req[p])

TypeOK ==
    /\ hash \in Passwords
    /\ wrapped \in Wraps \cup {NoWrap}
    /\ data \in [Kinds -> Stored]
    /\ cache \in Keys \cup {NoKey}
    /\ redisKey \in Keys \cup {NoKey}
    /\ HandlersOK
    /\ drawn \subseteq Keys
    /\ kept \subseteq Keys
    /\ faults \in 0..MaxFaults
    /\ restarts \in 0..MaxRestarts

Init ==
    /\ hash \in Passwords
    /\ wrapped = NoWrap
    /\ data \in [Kinds -> {"empty", "plain"}]
    /\ cache = NoKey
    /\ redisKey = NoKey
    /\ req = [p \in Procs |-> NoRequest]
    /\ drawn = {}
    /\ kept = {}
    /\ faults = 0
    /\ restarts = 0

-----------------------------------------------------------------------------

Fault == faults < MaxFaults /\ faults' = faults + 1
Works == UNCHANGED faults

At(p, label) == req[p].pc = label
Move(p, r) == req' = [req EXCEPT ![p] = r]
Goto(p, label) == Move(p, [req[p] EXCEPT !.pc = label])
Finish(p) == Move(p, NoRequest)
Start(p, r) == At(p, "idle") /\ Move(p, r) /\ UNCHANGED <<mysql, keys, user, faults, restarts>>

\* What the SQL statements of security.go do to the row and the data.
HasMasterKey == wrapped # NoWrap
SetWrapped(k, pw) == wrapped' = [key |-> k, pw |-> pw] /\ UNCHANGED <<hash, data>>
ClearWrapped == wrapped' = NoWrap /\ UNCHANGED <<hash, data>>
DeleteData == data' = [kind \in Kinds |-> "empty"] /\ UNCHANGED <<hash, wrapped>>

\* A MySQL write whose error ends the request.
Write(p, effect, next) ==
    \/ effect /\ Works /\ Goto(p, next)
    \/ Fault /\ (effect \/ UNCHANGED mysql) /\ Finish(p)

\* The last one.
WriteLast(p, effect) ==
    /\ \/ effect /\ Works
       \/ Fault /\ (effect \/ UNCHANGED mysql)
    /\ Finish(p)

\* masterKeyCache.Store, then the copy in Redis, whose error is only logged.
CacheKey(k) == cache' = k /\ UNCHANGED <<mysql, redisKey, user, faults, restarts>>
RedisKey(k) ==
    /\ \/ redisKey' = k /\ Works
       \/ Fault /\ redisKey' \in {k, redisKey}
    /\ UNCHANGED <<mysql, cache, user, restarts>>

-----------------------------------------------------------------------------
(* CreateMasterKey.                                                        *)

StartCreate(p, pw) == Start(p, [NoRequest EXCEPT !.pc = "check", !.pw = pw])

Check(p) ==
    /\ At(p, "check")
    /\ \/ ~HasMasterKey /\ Goto(p, "verify") /\ Works
       \/ HasMasterKey /\ Finish(p) /\ Works    \* MASTER_KEY_ALREADY_EXISTS
       \/ Fault /\ Finish(p)
    /\ UNCHANGED <<mysql, keys, user, restarts>>

Verify(p) ==
    /\ At(p, "verify")
    /\ \/ req[p].pw = hash /\ Goto(p, "generate") /\ Works
       \/ req[p].pw # hash /\ Finish(p) /\ Works    \* INVALID_PASSWORD
       \/ Fault /\ Finish(p)
    /\ UNCHANGED <<mysql, keys, user, restarts>>

\* GenerateAndWrapMasterKey caches the key before anything is saved.
Generate(p) ==
    /\ At(p, "generate")
    /\ \/ \E k \in Keys \ drawn :
          /\ drawn' = drawn \cup {k}
          /\ cache' = k
          /\ Move(p, [req[p] EXCEPT !.pc = "genRedis", !.raw = k])
       \/ drawn = Keys /\ Finish(p) /\ UNCHANGED <<drawn, cache>>    \* the bound
    /\ UNCHANGED <<mysql, redisKey, kept, faults, restarts>>

GenRedis(p) == At(p, "genRedis") /\ RedisKey(req[p].raw) /\ Goto(p, "load")

\* LoadMasterKey unwraps the pair just made and caches the key once more.
Load(p) == At(p, "load") /\ CacheKey(req[p].raw) /\ Goto(p, "loadRedis")
LoadRedis(p) == At(p, "loadRedis") /\ RedisKey(req[p].raw) /\ Goto(p, "getKey")

\* The key that will encrypt is whatever the cache holds now.
GetKey(p) ==
    /\ At(p, "getKey")
    /\ IF cache = NoKey
       THEN Finish(p)
       ELSE Move(p, [req[p] EXCEPT !.pc = "save", !.mk = cache])
    /\ UNCHANGED <<mysql, keys, user, faults, restarts>>

StartEncrypting(p) ==
    Move(p, [req[p] EXCEPT !.pc = IF Kinds = {} THEN "deliver" ELSE "encRead",
                           !.todo = Kinds])

\* Mutant of SaveKey: its error does not end the creation.
SaveErrorIgnored(p) ==
    /\ At(p, "save")
    /\ \/ SetWrapped(req[p].raw, req[p].pw) /\ Works
       \/ Fault /\ UNCHANGED mysql
    /\ StartEncrypting(p)
    /\ UNCHANGED <<keys, user, restarts>>

SaveKey(p) ==
    /\ At(p, "save")
    /\ \/ SetWrapped(req[p].raw, req[p].pw) /\ Works /\ StartEncrypting(p)
       \/ /\ Fault /\ Finish(p)
          /\ SetWrapped(req[p].raw, req[p].pw) \/ UNCHANGED mysql
    /\ UNCHANGED <<keys, user, restarts>>

Current(p) == CHOOSE kind \in req[p].todo :
                  \A other \in req[p].todo : Rank[kind] <= Rank[other]
\* Mutants of NextKind: a kind with nothing to do ends the creation; the
\* creation goes on after the last kind.
StopsAtKind(p) == Finish(p)
RunsPastLast(p) ==
    Move(p, [req[p] EXCEPT !.pc = "encRead", !.todo = @ \ {Current(p)}])

NextKind(p) ==
    LET rest == req[p].todo \ {Current(p)} IN
    Move(p, [req[p] EXCEPT !.pc = IF rest = {} THEN "deliver" ELSE "encRead",
                           !.todo = rest])

\* Encrypt*WSS first lists what is not encrypted yet ...
EncRead(p) ==
    /\ At(p, "encRead")
    /\ \/ data[Current(p)] = "plain" /\ Goto(p, "encWrite") /\ Works
       \/ data[Current(p)] # "plain" /\ NextKind(p) /\ Works
       \/ Fault /\ Finish(p)
    /\ UNCHANGED <<mysql, keys, user, restarts>>

\* ... then overwrites it, whatever it has become since.
Encrypts(p) ==
    LET kind == Current(p) IN
    /\ data' = IF kind \in DropsRow /\ data[kind] = "empty" THEN data
               ELSE [data EXCEPT ![kind] = req[p].mk]
    /\ UNCHANGED <<hash, wrapped>>

EncWrite(p) ==
    /\ At(p, "encWrite")
    /\ \/ Encrypts(p) /\ Works /\ NextKind(p)
       \/ /\ Fault
          /\ Encrypts(p) \/ UNCHANGED mysql
          /\ IF Current(p) \in SkipsFailures THEN NextKind(p) ELSE Finish(p)
    /\ UNCHANGED <<keys, user, restarts>>

\* The raw key goes to the user, this once; a failed send is only logged.
Deliver(p) ==
    /\ At(p, "deliver")
    /\ \/ kept' = kept \cup {req[p].raw} /\ Works
       \/ Fault /\ (kept' = kept \cup {req[p].raw} \/ UNCHANGED kept)
    /\ Finish(p)
    /\ UNCHANGED <<mysql, keys, drawn, restarts>>

-----------------------------------------------------------------------------
(* RewrapOrReset: a raw key the user kept is wrapped under the password    *)
(* given, unchecked against the key in use; without one the key is         *)
(* cleared and the data deleted.                                           *)

StartRewrap(p, raw, pw) ==
    Start(p, [NoRequest EXCEPT !.pc = IF raw = NoKey THEN "rewClear" ELSE "rewSave",
                               !.raw = raw, !.pw = pw])

RewSave(p) ==
    /\ At(p, "rewSave")
    /\ WriteLast(p, SetWrapped(req[p].raw, req[p].pw))
    /\ UNCHANGED <<keys, user, restarts>>

RewClear(p) ==
    /\ At(p, "rewClear")
    /\ Write(p, ClearWrapped, "rewDelete")
    /\ UNCHANGED <<keys, user, restarts>>

RewDelete(p) ==
    /\ At(p, "rewDelete")
    /\ WriteLast(p, DeleteData)
    /\ UNCHANGED <<keys, user, restarts>>

-----------------------------------------------------------------------------
(* ResetPassword: the new hash first, then the key.                        *)

StartReset(p, raw, pw) ==
    Start(p, [NoRequest EXCEPT !.pc = "resPassword", !.raw = raw, !.pw = pw])

ResPassword(p) ==
    /\ At(p, "resPassword")
    /\ Write(p, hash' = req[p].pw /\ UNCHANGED <<wrapped, data>>,
             IF req[p].raw = NoKey THEN "resCheck" ELSE "resSave")
    /\ UNCHANGED <<keys, user, restarts>>

\* Text that is no raw key: WrapMasterKey refuses it, once the password is new.
StartResetMalformed(p, pw) ==
    Start(p, [NoRequest EXCEPT !.pc = "resMalformed", !.pw = pw])

ResMalformed(p) ==
    /\ At(p, "resMalformed")
    /\ WriteLast(p, hash' = req[p].pw /\ UNCHANGED <<wrapped, data>>)
    /\ UNCHANGED <<keys, user, restarts>>

\* Mutant of ResSave: the key stays wrapped under the old password.
ResSaveForgotten(p) ==
    At(p, "resSave") /\ Goto(p, "resLoad") /\ UNCHANGED <<mysql, keys, user, faults, restarts>>

ResSave(p) ==
    /\ At(p, "resSave")
    /\ Write(p, SetWrapped(req[p].raw, req[p].pw), "resLoad")
    /\ UNCHANGED <<keys, user, restarts>>

ResLoad(p) == At(p, "resLoad") /\ CacheKey(req[p].raw) /\ Goto(p, "resRedis")
ResRedis(p) == At(p, "resRedis") /\ RedisKey(req[p].raw) /\ Finish(p)

ResCheck(p) ==
    /\ At(p, "resCheck")
    /\ \/ HasMasterKey /\ Goto(p, "resDelete") /\ Works
       \/ ~HasMasterKey /\ Finish(p) /\ Works
       \/ Fault /\ Finish(p)
    /\ UNCHANGED <<mysql, keys, user, restarts>>

ResDelete(p) ==
    /\ At(p, "resDelete")
    /\ Write(p, DeleteData, "resClear")
    /\ UNCHANGED <<keys, user, restarts>>

ResClear(p) ==
    /\ At(p, "resClear")
    /\ WriteLast(p, ClearWrapped)
    /\ UNCHANGED <<keys, user, restarts>>

-----------------------------------------------------------------------------
(* Login (and AuthTOTP): the password is checked, the wrapped key read and *)
(* opened with the password, the key cached.                               *)

StartLogin(p, pw) == pw = hash /\ Start(p, [NoRequest EXCEPT !.pc = "logRead", !.pw = pw])

LogRead(p) ==
    /\ At(p, "logRead")
    /\ LET opens == HasMasterKey /\ wrapped.pw = req[p].pw IN
       \/ /\ opens /\ Works
          /\ Move(p, [req[p] EXCEPT !.pc = "logLoad", !.mk = wrapped.key])
       \/ ~opens /\ Finish(p) /\ Works
       \/ Fault /\ Finish(p)
    /\ UNCHANGED <<mysql, keys, user, restarts>>

LogLoad(p) == At(p, "logLoad") /\ CacheKey(req[p].mk) /\ Goto(p, "logRedis")
LogRedis(p) == At(p, "logRedis") /\ RedisKey(req[p].mk) /\ Finish(p)

-----------------------------------------------------------------------------
(* Saving data.                                                            *)

\* An API key is refused while the user has a MasterKey that is not cached.
StartSetUserAPIKey(p) ==
    /\ "apiKeys" \in Kinds
    /\ Start(p, [NoRequest EXCEPT !.pc = IF cache = NoKey THEN "gate" ELSE "setKey"])

Gate(p) ==
    /\ At(p, "gate")
    /\ \/ ~HasMasterKey /\ Goto(p, "setKey") /\ Works
       \/ HasMasterKey /\ Finish(p) /\ Works    \* MASTER_KEY_REQUIRED
       \/ Fault /\ Finish(p)
    /\ UNCHANGED <<mysql, keys, user, restarts>>

\* The library that stores it encrypts with the cached key, or with the key of
\* the application, as the keys of a user without a MasterKey may be.
SetKey(p) ==
    /\ At(p, "setKey")
    /\ WriteLast(p, /\ \E form \in {"app"} \cup ({cache} \ {NoKey}) :
                           data' = [data EXCEPT !["apiKeys"] = form]
                    /\ UNCHANGED <<hash, wrapped>>)
    /\ UNCHANGED <<keys, user, restarts>>

\* Channel settings and storage credentials are encrypted if the key is there.
StartSave(p, kind) ==
    Start(p, [NoRequest EXCEPT !.pc = "saveWrite", !.mk = cache, !.todo = {kind}])

SaveWrite(p) ==
    /\ At(p, "saveWrite")
    /\ WriteLast(p, /\ data' = [data EXCEPT ![Current(p)] =
                                   IF req[p].mk = NoKey THEN "plain" ELSE req[p].mk]
                    /\ UNCHANGED <<hash, wrapped>>)
    /\ UNCHANGED <<keys, user, restarts>>

-----------------------------------------------------------------------------

\* LoadAllMasterKeysFromRedis fills the new process's cache if Redis answers.
Restart ==
    /\ restarts < MaxRestarts
    /\ restarts' = restarts + 1
    /\ req' = [p \in Procs |-> NoRequest]
    /\ cache' \in {redisKey, NoKey}
    /\ UNCHANGED <<mysql, redisKey, user, faults>>

\* MasterKeyRedisTTL passes without a refresh of the token.
Expire ==
    /\ redisKey # NoKey
    /\ redisKey' = NoKey
    /\ UNCHANGED <<mysql, cache, req, user, faults, restarts>>

KeyRequest(p) ==
    \/ \E pw \in Passwords : StartCreate(p, pw) \/ StartResetMalformed(p, pw)
    \/ \E raw \in kept \cup {NoKey}, pw \in Passwords :
          StartRewrap(p, raw, pw) \/ StartReset(p, raw, pw)

OtherRequest(p) ==
    \/ \E pw \in Passwords : StartLogin(p, pw)
    \/ StartSetUserAPIKey(p)
    \/ \E kind \in SavedHere : StartSave(p, kind)

Serve(p) ==
    \/ Check(p) \/ Verify(p) \/ Generate(p) \/ GenRedis(p) \/ Load(p)
    \/ LoadRedis(p) \/ GetKey(p) \/ SaveKey(p) \/ EncRead(p) \/ EncWrite(p)
    \/ Deliver(p) \/ RewSave(p) \/ RewClear(p) \/ RewDelete(p)
    \/ ResPassword(p) \/ ResMalformed(p)
    \/ ResSave(p) \/ ResLoad(p) \/ ResRedis(p) \/ ResCheck(p) \/ ResDelete(p) \/ ResClear(p)
    \/ LogRead(p) \/ LogLoad(p) \/ LogRedis(p)
    \/ Gate(p) \/ SetKey(p) \/ SaveWrite(p)

Next ==
    \/ \E p \in Procs : KeyRequest(p) \/ OtherRequest(p) \/ Serve(p)
    \/ Restart \/ Expire

Spec == Init /\ [][Next]_vars

-----------------------------------------------------------------------------
(* What the keys are for.                                                  *)

\* While no call fails and the process does not restart, every key that the
\* row or any data depends on is in the user's hands, or in those of a
\* creation that will deliver it: no key becomes indispensable and is then
\* forgotten, however creations, resets and saves interleave.
Untroubled == faults = 0 /\ restarts = 0
Indispensable(k) == (HasMasterKey /\ wrapped.key = k) \/ \E kind \in Kinds : data[kind] = k
NoKeyIsLost ==
    Untroubled =>
        \A k \in Keys : Indispensable(k) =>
            k \in kept \/ \E p \in Procs : req[p].pc \in Creating /\ req[p].raw = k

\* Between key operations the password that logs in also opens the wrapped key.
KeyOperation(p) == req[p].pc \in Creating \cup
    {"rewSave", "rewClear", "rewDelete", "resPassword", "resMalformed", "resSave",
     "resLoad", "resRedis", "resCheck", "resDelete", "resClear"}
Quiet == \A p \in Procs : ~KeyOperation(p)
PasswordOpensKey ==
    Untroubled /\ Quiet /\ HasMasterKey => wrapped.pw = hash

\* Data is encrypted under the key of the row, or under one that a creation is
\* about to save, or a rewrap that has cleared the row is about to delete it.
DataUnderOwnKey ==
    Untroubled =>
        \A kind \in Kinds : data[kind] \in Keys =>
            \/ HasMasterKey /\ wrapped.key = data[kind]
            \/ \E p \in Procs : req[p].pc \in Creating /\ req[p].raw = data[kind]
            \/ \E p \in Procs : At(p, "rewDelete")

\* What an account has fits together: password, wrapped key and data.
KeyFitsAccount == PasswordOpensKey /\ DataUnderOwnKey

\* A creation encrypts under the key that is in the row when it encrypts,
\* whatever call failed before and wherever the process restarted.
EncryptsUnderSavedKey ==
    [][\A p \in Procs : At(p, "encWrite") /\ data' # data /\ req'[p] # req[p]
          => HasMasterKey /\ wrapped.key = req[p].mk]_vars

-----------------------------------------------------------------------------
(* What the comments say, and what breaks it.                              *)

\* "It is protected by the user's password and encrypts API keys, channel
\* settings, ...": when nothing is in flight, encrypted data is under the key
\* that the row holds.
EncryptedDataHasKey ==
    (\A p \in Procs : At(p, "idle")) =>
        \A kind \in Kinds : data[kind] \in Keys =>
            HasMasterKey /\ wrapped.key = data[kind]
=============================================================================
