----------------------------- MODULE AppConfig ------------------------------
(***************************************************************************)
(* The settings in the table app_config and the keys among them: how a      *)
(* process starts on them (app.New, Exam.LoadOrInitKey), how the            *)
(* administrator changes them (http/dev.go), what the gRPC ConfigService    *)
(* signs and checks with them (grpc/server.go, security/widget.go), and how *)
(* the operator moves the table to another application master key.          *)
(* A generated value is the number of its generation; 0 is the empty value. *)
(***************************************************************************)
EXTENDS Naturals, FiniteSets

CONSTANTS
    AppMasterKeys,  \* the keys that may be put into APP_MASTER_KEY_FILE
    AdminHandlers,  \* the settings handlers in use, each as the keys it writes
    MaxGen          \* values generated in a run

Legacy == 1         \* SESSION_KEY_LEGACY, and what migrated users' mail is under

(* The handlers that write plain settings, as the keys they write ...        *)
SetDistribMail == {"smtp.mail", "smtp.host", "smtp.port", "smtp.pass"}
SetGAUTH == {"google_oauth.redirect_uri", "google_oauth.client_id",
             "google_oauth.client_secret"}
SetCarpintero == {"tg.token", "tg.bot"}
SetOperBot == {"oper.tg.token", "oper.tg.bot"}

(* ... and those that only read, as the keys they cannot do without.          *)
GetDev == {"smtp.mail", "google_oauth.client_id", "tg.bot", "oper.tg.bot",
           "widg.ed25519_keys"}
GetServiceKey == {"svc.service_key"}
GetBotConfig == {"tg.token", "tg.bot"}
GetOperBotConfig == {"oper.tg.token", "oper.tg.bot"}

ASSUME AppConfigAssumption ==
    /\ AdminHandlers \subseteq {SetDistribMail, SetGAUTH, SetCarpintero, SetOperBot}
    /\ MaxGen \in Nat /\ MaxGen >= 2

ConfKeys == {"auth.session", "auth.created", "auth.email_key", "svc.service_key",
             "widg.ed25519_keys"} \cup UNION AdminHandlers
CheckSettings == ConfKeys

VARIABLES
    conf,       \* the rows: their value and the key it is encrypted under
    deployed,   \* the key in APP_MASTER_KEY_FILE
    moved,      \* the key the table was last moved to
    legacyEnv,  \* whether SESSION_KEY_LEGACY is set
    boot,       \* how far the process has come: "down" ... "up"
    mem,        \* the keys it has loaded
    hands,      \* widget pairs requests have read and not cached yet
    admin,      \* the administrator's request that runs
    leaving,    \* RestartApp has been called
    gen,        \* values generated so far
    mails,      \* the email keys under which stored addresses are encrypted
    codes,      \* the pairs that have signed widget codes
    lapsed,     \* the pairs the table no longer has
    newPair,    \* a pair was generated since the process started
    retired     \* keys a request has replaced or reset, and said so
confVars == <<conf, deployed, moved, legacyEnv, boot, mem, hands, admin, leaving, gen,
              mails, codes, lapsed, newPair, retired>>

Unset == [val |-> 0, under |-> "plain"]
NoKeys == [session |-> 0, email |-> 0, service |-> 0, pair |-> 0]
NoRequest == [op |-> "none", left |-> {}, val |-> 0]

(* What is stored for a value, and whether it can be read back.              *)
prepareAppConfigValueForStorage(v) == IF v = 0 THEN Unset ELSE [val |-> v, under |-> deployed]
decodeAppConfigValue(row) == row.under \in {"plain", deployed}
SetAppConfig(k, v) == conf' = [conf EXCEPT ![k] = prepareAppConfigValueForStorage(v)]
GetAppConfig(k) == decodeAppConfigValue(conf[k])

(* A new installation, or an old one with plain values and migrated users.   *)
ConfInit ==
    /\ deployed \in AppMasterKeys
    /\ moved = deployed
    /\ \/ /\ conf = [k \in ConfKeys |-> Unset]
          /\ gen = 1
          /\ legacyEnv \in BOOLEAN
          /\ mails = IF legacyEnv THEN {Legacy} ELSE {}
       \/ /\ conf = [k \in ConfKeys |-> IF k = "svc.service_key"
                                         THEN [val |-> 2, under |-> "plain"] ELSE Unset]
          /\ gen = 2
          /\ legacyEnv = TRUE
          /\ mails = {Legacy}
    /\ boot = "down"
    /\ mem = NoKeys
    /\ hands = {}
    /\ admin = NoRequest
    /\ leaving = FALSE
    /\ codes = {}
    /\ lapsed = {}
    /\ newPair = FALSE
    /\ retired = {}

-----------------------------------------------------------------------------
(* The start.  A step whose read, write or decoding fails is fatal; that is   *)
(* ProcessStops, before or after the write.                                   *)
Goes(phase) == boot' = phase
Running == <<deployed, moved, legacyEnv, hands, admin, leaving, mails, codes, lapsed, newPair,
             retired>>

(* The operator starts the process with the key the table is under; the plain *)
(* values of sensitive keys are encrypted in one transaction.                 *)
EncryptAppConfigSensitiveValues ==
    /\ boot = "down"
    /\ moved = deployed
    /\ conf' = [k \in ConfKeys |->
                   IF conf[k].under = "plain" THEN prepareAppConfigValueForStorage(conf[k].val)
                   ELSE conf[k]]
    /\ Goes("session")
    /\ UNCHANGED <<Running, mem, gen>>

(* The session key is loaded, or generated and saved, then its date ...       *)
LoadOrInitKey ==
    /\ boot = "session"
    /\ GetAppConfig("auth.session")
    /\ IF conf["auth.session"].val # 0
          THEN /\ mem' = [mem EXCEPT !.session = conf["auth.session"].val]
               /\ Goes("email")
               /\ UNCHANGED <<conf, gen>>
          ELSE /\ gen < MaxGen
               /\ gen' = gen + 1
               /\ SetAppConfig("auth.session", gen + 1)
               /\ Goes("created")
               /\ UNCHANGED mem
    /\ UNCHANGED Running
SaveCreated ==
    /\ boot = "created"
    /\ SetAppConfig("auth.created", 1)
    /\ mem' = [mem EXCEPT !.session = conf["auth.session"].val]
    /\ Goes("email")
    /\ UNCHANGED <<Running, gen>>

(* ... and the email key, the first time from SESSION_KEY_LEGACY if it is set; *)
(* it is saved before it is used.                                             *)
loadOrInitEmailKey ==
    /\ boot = "email"
    /\ GetAppConfig("auth.email_key")
    /\ LET stored == conf["auth.email_key"].val
           first == IF legacyEnv THEN Legacy ELSE gen + 1
       IN  IF stored # 0
              THEN /\ mem' = [mem EXCEPT !.email = stored]
                   /\ UNCHANGED <<conf, gen>>
              ELSE /\ first <= MaxGen
                   /\ gen' = IF legacyEnv THEN gen ELSE gen + 1
                   /\ SetAppConfig("auth.email_key", first)
                   /\ mem' = [mem EXCEPT !.email = first]
    /\ Goes("service")
    /\ UNCHANGED Running

(* The key of the gRPC server; without one the server does not run.           *)
LoadServiceKey ==
    /\ boot = "service"
    /\ GetAppConfig("svc.service_key")
    /\ mem' = [mem EXCEPT !.service = conf["svc.service_key"].val]
    /\ Goes("up")
    /\ UNCHANGED <<Running, conf, gen>>

Stopped ==
    /\ boot' = "down"
    /\ mem' = NoKeys
    /\ hands' = {}
    /\ admin' = NoRequest
    /\ leaving' = FALSE
    /\ newPair' = FALSE
    /\ UNCHANGED <<conf, deployed, moved, legacyEnv, gen, mails, codes, lapsed, retired>>

(* A crash, a fatal error or the operator; three seconds after a request that *)
(* asked for it.                                                              *)
ProcessStops == boot # "down" /\ Stopped
RestartApp == leaving /\ Stopped

-----------------------------------------------------------------------------
(* The administrator.  Settings are written one by one, in no fixed order.    *)
Begins(op, keys, v) ==
    /\ boot = "up"
    /\ admin = NoRequest
    /\ admin' = [op |-> op, left |-> keys, val |-> v]
    /\ UNCHANGED <<conf, deployed, moved, legacyEnv, boot, mem, hands, leaving, mails,
                   codes, lapsed, newPair, retired>>
SetConfigs == \E h \in AdminHandlers : Begins("set", h, 1) /\ UNCHANGED gen
ResetsOnlyDate == Begins("reset", {"auth.created"}, 0) /\ UNCHANGED gen
CreateNewSessionKey ==
    Begins("reset", {"auth.session", "auth.created"}, 0) /\ UNCHANGED gen
GenerateServiceKey ==
    Begins("service", {"svc.service_key"}, gen + 1) /\ gen < MaxGen /\ gen' = gen + 1
GenerateWidgetKey ==
    Begins("pair", {"widg.ed25519_keys"}, gen + 1) /\ gen < MaxGen /\ gen' = gen + 1

Replaced(op) ==
    (CASE op = "reset" -> {mem.session} [] op = "service" -> {mem.service} [] OTHER -> {}) \ {0}

(* The session goes before its date.                                          *)
ResetOrder(k) == k = "auth.created" => "auth.session" \notin admin.left

(* A new pair takes the old one's row.  No running process is told: one that    *)
(* has cached the old pair signs and checks with it until it stops.            *)
ReplacesPair ==
    /\ newPair' = (newPair \/ admin.op = "pair")
    /\ lapsed' = IF admin.op = "pair" THEN lapsed \cup {conf["widg.ed25519_keys"].val} ELSE lapsed

(* A write; after the last one the request is answered, and some then restart. *)
WriteConfig(k) ==
    /\ k \in admin.left
    /\ ResetOrder(k)
    /\ SetAppConfig(k, admin.val)
    /\ IF admin.left = {k}
          THEN /\ admin' = NoRequest
               /\ leaving' = (leaving \/ admin.op \in {"reset", "service"})
               /\ retired' = retired \cup Replaced(admin.op)
          ELSE /\ admin' = [admin EXCEPT !.left = @ \ {k}]
               /\ UNCHANGED <<leaving, retired>>
    /\ ReplacesPair
    /\ UNCHANGED <<deployed, moved, legacyEnv, boot, mem, hands, gen, mails, codes>>

(* A write fails or its answer is lost: what was written stays.                *)
WriteConfigFails ==
    /\ admin # NoRequest
    /\ admin' = NoRequest
    /\ \/ UNCHANGED <<conf, lapsed, newPair>>
       \/ \E k \in admin.left :
             /\ ResetOrder(k)
             /\ SetAppConfig(k, admin.val)
             /\ ReplacesPair
    /\ UNCHANGED <<deployed, moved, legacyEnv, boot, mem, hands, leaving, gen, mails, codes,
                   retired>>

-----------------------------------------------------------------------------
(* What the keys are used for.                                                 *)
serviceKeyInterceptor(key) == mem.service # 0 /\ key = mem.service
WidgetParseToken(key) == key = mem.session
WidgetParseExpiredToken(key) == key = mem.session
helperWidgetKeys == IF mem.pair # 0 THEN mem.pair ELSE conf["widg.ed25519_keys"].val
WidgetParseCode(pair) == helperWidgetKeys # 0 /\ helperWidgetKeys = pair
Grpc == boot = "up" /\ mem.service # 0

(* An address is stored, encrypted and hashed with the email key.              *)
StoreEmail ==
    /\ boot = "up"
    /\ mails' = mails \cup {mem.email}
    /\ UNCHANGED <<conf, deployed, moved, legacyEnv, boot, mem, hands, admin, leaving, gen,
                   codes, lapsed, newPair, retired>>

Signed(pair) == codes' = codes \cup {pair}

(* A code is signed with the cached pair ...                                   *)
WidgetNewCode ==
    /\ Grpc
    /\ mem.pair # 0
    /\ Signed(mem.pair)
    /\ UNCHANGED <<conf, deployed, moved, legacyEnv, boot, mem, hands, admin, leaving, gen,
                   mails, lapsed, newPair, retired>>

(* ... or the pair is read, by any number of requests at a time, and each of   *)
(* them caches what it has read and signs with it.                             *)
ReadPair ==
    /\ Grpc
    /\ mem.pair = 0
    /\ conf["widg.ed25519_keys"].val # 0
    /\ GetAppConfig("widg.ed25519_keys")
    /\ hands' = hands \cup {conf["widg.ed25519_keys"].val}
    /\ UNCHANGED <<conf, deployed, moved, legacyEnv, boot, mem, admin, leaving, gen, mails,
                   codes, lapsed, newPair, retired>>
CachePair ==
    /\ \E pair \in hands :
          /\ mem' = [mem EXCEPT !.pair = pair]
          /\ hands' \in {hands, hands \ {pair}}
          /\ Signed(pair)
    /\ UNCHANGED <<conf, deployed, moved, legacyEnv, boot, admin, leaving, gen, mails,
                   lapsed, newPair, retired>>

-----------------------------------------------------------------------------
(* The operator.  The process is stopped and started once in rekey mode, which *)
(* reads all rows, re-encrypts them and writes them in one transaction; it     *)
(* gives up if one does not open.  Then the new key is put into the file.      *)
ValidateAppConfigRekeyConfig(new) == new # deployed
RekeysRowByRow(new) ==
    \E keys \in SUBSET {k \in ConfKeys : conf[k].val # 0} :
        /\ conf' = [k \in ConfKeys |-> IF k \in keys THEN [conf[k] EXCEPT !.under = new] ELSE conf[k]]
        /\ moved' = IF \A k \in ConfKeys : conf[k].val # 0 => k \in keys THEN new ELSE moved
RekeyAppConfigSensitiveValues(new) ==
    /\ \A k \in ConfKeys : GetAppConfig(k)
    /\ conf' = [k \in ConfKeys |->
                   IF conf[k].val = 0 THEN conf[k] ELSE [val |-> conf[k].val, under |-> new]]
    /\ moved' = new
RunAppConfigRekey ==
    /\ boot = "down"
    /\ moved = deployed
    /\ \E new \in AppMasterKeys :
          ValidateAppConfigRekeyConfig(new) /\ RekeyAppConfigSensitiveValues(new)
    /\ UNCHANGED <<deployed, legacyEnv, boot, mem, hands, admin, leaving, gen, mails, codes,
                   lapsed, newPair, retired>>
DeployKey ==
    /\ boot = "down"
    /\ moved # deployed
    /\ deployed' = moved
    /\ UNCHANGED <<conf, moved, legacyEnv, boot, mem, hands, admin, leaving, gen, mails, codes,
                   lapsed, newPair, retired>>

(* "После этого env var больше не нужен": once the process is up.              *)
DropLegacyEnv ==
    /\ boot = "up"
    /\ legacyEnv' = FALSE
    /\ UNCHANGED <<conf, deployed, moved, boot, mem, hands, admin, leaving, gen, mails, codes,
                   lapsed, newPair, retired>>

Boot == EncryptAppConfigSensitiveValues \/ LoadOrInitKey \/ SaveCreated
        \/ loadOrInitEmailKey \/ LoadServiceKey
Administer == SetConfigs \/ CreateNewSessionKey \/ GenerateServiceKey \/ GenerateWidgetKey
              \/ (\E k \in ConfKeys : WriteConfig(k)) \/ WriteConfigFails
Operate == ProcessStops \/ RestartApp \/ RunAppConfigRekey \/ DeployKey \/ DropLegacyEnv
ConfNext == Boot \/ Administer \/ Operate \/ StoreEmail \/ WidgetNewCode \/ ReadPair \/ CachePair
ConfSpec == ConfInit /\ [][ConfNext]_confVars

-----------------------------------------------------------------------------
ConfTypeOK ==
    /\ conf \in [ConfKeys -> [val : 0..MaxGen, under : AppMasterKeys \cup {"plain"}]]
    /\ deployed \in AppMasterKeys
    /\ moved \in AppMasterKeys
    /\ legacyEnv \in BOOLEAN
    /\ boot \in {"down", "session", "created", "email", "service", "up"}
    /\ mem \in [session : 0..MaxGen, email : 0..MaxGen, service : 0..MaxGen, pair : 0..MaxGen]
    /\ hands \subseteq 0..MaxGen
    /\ admin.left \subseteq ConfKeys
    /\ leaving \in BOOLEAN
    /\ gen \in 0..MaxGen
    /\ mails \cup codes \cup retired \subseteq 1..MaxGen
    /\ lapsed \subseteq 0..MaxGen
    /\ newPair \in BOOLEAN

(* Wherever a start, a change or a move of the table stops, one key opens all  *)
(* of it, and a process that is up can answer every request that reads it: a   *)
(* single row it cannot decode makes GetAllAppConfig and the next start fail.  *)
Readers == {GetDev, CheckSettings, GetServiceKey, GetBotConfig, GetOperBotConfig}
TableOpens ==
    /\ \A k \in ConfKeys : conf[k].under \in {"plain", moved}
    /\ boot = "up" => \A r \in Readers : \A k \in r \cap ConfKeys : GetAppConfig(k)

(* Addresses stored by any earlier process can be read and found by the one    *)
(* that is up: starts that stop half-way, resets of the session key, lost      *)
(* answers and moves of the table do not change that key (LoadOrInitKey).      *)
(* A widget code is good while the table has the pair that signed it, at every *)
(* process but one that was up when a pair was generated.  That process goes   *)
(* on with the pair it has cached (server.go:317), so what it signs is lost at *)
(* its next stop: such a code's pair has lapsed before it was signed.          *)
KeysOutliveRestarts ==
    boot = "up" =>
        /\ mails \subseteq {mem.email}
        /\ ~newPair => \A pair \in codes \ lapsed : WidgetParseCode(pair)

(* Once a key was reset or replaced and the restart that was promised is over, *)
(* no process accepts it: no service with it, no widget token signed with it.  *)
(* No restart is promised for a pair: its codes are refused from the next on.  *)
RetiredStaysRetired ==
    /\ boot = "up" /\ ~leaving =>
           \A key \in retired :
               ~serviceKeyInterceptor(key) /\ ~WidgetParseToken(key)
                   /\ ~WidgetParseExpiredToken(key)
    /\ boot = "up" /\ ~newPair => \A pair \in lapsed : ~WidgetParseCode(pair)

(* A key lives as long as it should: what it opened is opened until it is      *)
(* replaced, and nothing is once it was.                                       *)
KeyLifetimes == KeysOutliveRestarts /\ RetiredStaysRetired
=============================================================================
