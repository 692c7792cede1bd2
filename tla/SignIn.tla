-------------------------------- MODULE SignIn --------------------------------
(***************************************************************************)
(* What follows the right password of one user: the second factor          *)
(* (delivery/http/totp.go), the refresh cookie of the user's browser and   *)
(* its rotation (delivery/http/auth.go, security/exam.go).                 *)
(*                                                                         *)
(* The waiting logins and the unconfirmed secret live in the memory of the *)
(* server; time.AfterFunc removes them when their time is up.  A secret's  *)
(* entry is kept by user, so the timer of an older entry removes whatever  *)
(* entry is there.  A rotated token goes to a blacklist in Redis, and is   *)
(* still accepted for a period of grace.  A token is its user, the respId  *)
(* of its login and a second: two of one login in one second are the same. *)
(*                                                                         *)
(* A step is one access to a map, the table or Redis with the code up to   *)
(* the next one.  Entries, tokens and periods of grace age on their own.   *)
(***************************************************************************)
EXTENDS Integers

CONSTANTS
    Handlers,     \* HTTP goroutines
    Secrets,      \* TOTP secrets; a code is named by the secret it belongs to
    OldSecret,    \* the secret the account has at first, or None
    MaxTokens,    \* bound on refresh tokens
    MaxLogins,    \* bound on waiting logins
    MaxStores,    \* bound on stores of an unconfirmed secret
    MaxRequests,  \* bound on requests
    MaxRestarts,
    None

ASSUME SignInAssumption ==
    /\ OldSecret \in Secrets \cup {None} /\ None \notin Secrets
    /\ MaxTokens \in Nat /\ MaxLogins \in Nat /\ MaxStores \in Nat
    /\ MaxRequests \in Nat /\ MaxRestarts \in Nat

VARIABLES
    secret,    \* user_auth.TOTPSecret
    setup,     \* totpSetupPending of the user: a secret and the number of its store
    stores, expired, fired,  \* stores so far; those past their time; those whose timer has fired
    shown,     \* secret of the last QR code the user was shown
    proved,    \* secrets whose code the user has typed
    waiting,   \* totpPending: the login's entry by number
    begun,     \* logins that wait for their code so far
    entered,   \* how often each of them was answered with tokens
    token,     \* refresh tokens by number
    issued,    \* tokens so far
    recent,    \* those of the current second
    jar,       \* MarusiaRefreshToken in the browser
    mk,        \* the user's MasterKey is in Redis
    cut,       \* an answer with a new token has not reached the browser
    again,     \* history: tokens that were issued again in their second
    work,      \* request each handler serves
    requests,  \* requests so far
    restarts

factor == <<secret, setup, stores, expired, fired, shown, proved>>
logins == <<waiting, begun, entered>>
dates == <<issued, recent, again>>
tokens == <<token, dates, jar, mk, cut>>
vars == <<factor, logins, tokens, work, requests, restarts>>

Token == 1..MaxTokens
LoginId == 1..MaxLogins
Checking(label, c, s, l) ==     \* code c, for a secret or a login
    [pc |-> label, code |-> c, sec |-> s, login |-> l, tok |-> 0, new |-> 0]
Handing(label, t, n) ==         \* token n, for token t
    [pc |-> label, code |-> None, sec |-> None, login |-> 0, tok |-> t, new |-> n]
NoWork == Handing("idle", 0, 0)
Codes == Secrets \cup {None}     \* None: a code of no secret
Work == [pc : {"idle", "auth", "confirm", "clear", "rotate", "extend", "answer", "logout", "bye"},
         code : Codes, sec : Codes, login : 0..MaxLogins, tok : 0..MaxTokens, new : 0..MaxTokens]

TypeOK ==
    /\ secret \in Secrets \cup {None} /\ shown \in Secrets \cup {None} /\ proved \subseteq Secrets
    /\ setup \in [secret : Secrets, n : 1..MaxStores] \cup {None}
    /\ stores \in 0..MaxStores /\ expired \in 0..stores /\ fired \in 0..expired
    /\ waiting \in [LoginId -> {"none", "fresh", "old"}]
    /\ begun \in 0..MaxLogins /\ entered \in [LoginId -> Nat]
    /\ token \in [Token -> {"good", "grace", "dead", "expired"}]
    /\ issued \in 0..MaxTokens /\ jar \in 0..issued /\ recent \subseteq 1..issued /\ again \subseteq 1..issued
    /\ mk \in BOOLEAN /\ cut \in BOOLEAN
    /\ work \in [Handlers -> Work]
    /\ requests \in 0..MaxRequests /\ restarts \in 0..MaxRestarts

Init ==
    /\ secret = OldSecret /\ shown = OldSecret
    /\ proved = (IF OldSecret = None THEN {} ELSE {OldSecret})
    /\ setup = None /\ stores = 0 /\ expired = 0 /\ fired = 0
    /\ waiting = [l \in LoginId |-> "none"] /\ begun = 0 /\ entered = [l \in LoginId |-> 0]
    /\ token = [t \in Token |-> "good"]
    /\ issued = 0 /\ recent = {} /\ again = {}
    /\ jar = 0 /\ mk \in BOOLEAN /\ cut = FALSE
    /\ work = [h \in Handlers |-> NoWork]
    /\ requests = 0 /\ restarts = 0

\* A new request comes to an idle handler.
Arrives(h) == work[h].pc = "idle" /\ requests < MaxRequests /\ requests' = requests + 1
Begin(h, w) == work' = [work EXCEPT ![h] = w]
Answer(h) == work' = [work EXCEPT ![h] = NoWork]

-----------------------------------------------------------------------------
(* Login. *)

\* GenerateAccessToken: the pair whose long token, n, becomes the cookie; t is the
\* token a refresh brought.  In the second of its issue t yields itself.
GenerateAccessToken(t, n) ==
    \/ /\ t \notin recent
       /\ n = issued + 1 /\ n <= MaxTokens
       /\ issued' = n /\ recent' = recent \cup {n} /\ UNCHANGED again
    \/ /\ n \in recent /\ (t \in recent => n = t)
       /\ again' = again \cup {n} /\ UNCHANGED <<issued, recent>>

\* Login of the right password: tokens at once, or an entry that waits for a code.
\* The MasterKey, if the user has one, is loaded with the password.
Login(h) ==
    /\ Arrives(h)
    /\ IF secret = None
       THEN /\ \E n \in Token : GenerateAccessToken(0, n) /\ Begin(h, Handing("answer", 0, n))
            /\ mk' \in {mk, TRUE}
            /\ UNCHANGED logins
       ELSE /\ begun < MaxLogins
            /\ begun' = begun + 1
            /\ waiting' = [waiting EXCEPT ![begun'] = "fresh"]
            /\ UNCHANGED <<entered, dates, mk, work>>
    /\ UNCHANGED <<factor, token, jar, cut, restarts>>

\* Mutant: the entry is looked up and stays.
AuthPeek(h, l, c) ==
    /\ Arrives(h)
    /\ l <= begun
    /\ waiting[l] = "fresh"
    /\ Begin(h, Checking("auth", c, None, l))
    /\ UNCHANGED <<factor, logins, tokens, restarts>>

\* AuthTOTP: loadAndDeleteTOTPPending takes the entry, right code or not.
AuthTOTP(h, l, c) ==
    /\ Arrives(h)
    /\ l <= begun
    /\ waiting' = [waiting EXCEPT ![l] = "none"]
    /\ IF waiting[l] = "fresh"
       THEN Begin(h, Checking("auth", c, None, l))
       ELSE UNCHANGED work
    /\ UNCHANGED <<factor, begun, entered, tokens, restarts>>

AuthCheck(h) ==
    LET w == work[h] IN
    /\ w.pc = "auth"
    /\ IF secret # None /\ w.code = secret
       THEN /\ \E n \in Token : GenerateAccessToken(0, n) /\ Begin(h, Handing("answer", 0, n))
            /\ entered' = [entered EXCEPT ![w.login] = @ + 1]
            /\ mk' \in {mk, TRUE}
       ELSE /\ Answer(h)
            /\ UNCHANGED <<dates, entered, mk>>
    /\ UNCHANGED <<factor, waiting, begun, token, jar, cut, requests, restarts>>

\* totpPendingTTL passes; then the entry's timer or cleanupTOTPPending removes it.
LoginAges(l) ==
    /\ waiting[l] \in {"fresh", "old"}
    /\ waiting' = [waiting EXCEPT ![l] = IF @ = "fresh" THEN "old" ELSE "none"]
    /\ UNCHANGED <<factor, begun, entered, tokens, work, requests, restarts>>

-----------------------------------------------------------------------------
(* Turning the second factor on and off. *)

\* storeSetupPending: the entry, and a timer that will remove the user's entry.
StoreSetup(s) ==
    /\ stores < MaxStores
    /\ stores' = stores + 1
    /\ setup' = [secret |-> s, n |-> stores']

TOTPSetup(h) ==
    /\ Arrives(h)
    /\ \E s \in Secrets \ (proved \cup {shown}) : StoreSetup(s) /\ shown' = s
    /\ UNCHANGED <<secret, expired, fired, proved, logins, tokens, work, restarts>>

\* TOTPConfirm: loadAndDeleteSetupPending.
TOTPConfirm(h, c) ==
    /\ Arrives(h)
    /\ setup # None
    /\ setup' = None
    /\ IF setup.n > expired
       THEN Begin(h, Checking("confirm", c, setup.secret, 0))
       ELSE UNCHANGED work
    /\ proved' = IF c = setup.secret THEN proved \cup {c} ELSE proved
    /\ UNCHANGED <<secret, stores, expired, fired, shown, logins, tokens, restarts>>

\* Mutant: the secret goes to the table before its code is checked.
ConfirmSavesFirst(h) ==
    /\ work[h].pc = "confirm"
    /\ secret' = work[h].sec
    /\ Answer(h)
    /\ UNCHANGED <<setup, stores, expired, fired, shown, proved, logins, tokens, requests, restarts>>

\* A wrong code puts the secret back, the right one puts it into the table.
ConfirmEnd(h) ==
    LET w == work[h] IN
    /\ w.pc = "confirm"
    /\ IF w.code # w.sec
       THEN StoreSetup(w.sec) /\ UNCHANGED secret
       ELSE secret' \in {secret, w.sec} /\ UNCHANGED <<stores, setup>>
    /\ Answer(h)
    /\ UNCHANGED <<expired, fired, shown, proved, logins, tokens, requests, restarts>>

\* totpPendingTTL of the oldest unexpired entry passes.
SetupExpires ==
    /\ expired < stores
    /\ expired' = expired + 1
    /\ UNCHANGED <<secret, setup, stores, fired, shown, proved, logins, tokens, work, requests, restarts>>

\* Mutant: the timer is shorter than the entry's time.
SetupTimerShort ==
    /\ fired < stores
    /\ fired' = fired + 1
    /\ setup' = None
    /\ UNCHANGED <<secret, stores, expired, shown, proved, logins, tokens, work, requests, restarts>>

\* The timer of an entry removes what the map holds for the user.
SetupTimer ==
    /\ fired < expired
    /\ fired' = fired + 1
    /\ setup' = None
    /\ UNCHANGED <<secret, stores, expired, shown, proved, logins, tokens, work, requests, restarts>>

TOTPDisable(h, c) ==
    /\ Arrives(h)
    /\ secret # None /\ c = secret
    /\ Begin(h, Checking("clear", None, secret, 0))
    /\ UNCHANGED <<factor, logins, tokens, restarts>>

ClearTOTPSecret(h) ==
    /\ work[h].pc = "clear"
    /\ secret' \in {secret, None}
    /\ Answer(h)
    /\ UNCHANGED <<setup, stores, expired, fired, shown, proved, logins, tokens, requests, restarts>>

-----------------------------------------------------------------------------
(* The refresh cookie. *)

\* The answers it may give; a Redis error counts as no.
IsBlacklisted(t) == IF token[t] = "dead" THEN BOOLEAN ELSE {FALSE}

\* RefreshToken: IsBlacklisted and VerifyAccessToken, and a new pair.
RefreshToken(h) ==
    /\ Arrives(h)
    /\ jar # 0
    /\ FALSE \in IsBlacklisted(jar) /\ token[jar] # "expired"
    /\ \E n \in Token : GenerateAccessToken(jar, n) /\ Begin(h, Handing("rotate", jar, n))
    /\ UNCHANGED <<factor, logins, token, jar, mk, cut, restarts>>

\* BlacklistToken writes the time of this call over that of an earlier one; a
\* Redis error is logged.
BlacklistToken(t) ==
    \/ token' = [token EXCEPT ![t] = IF @ = "expired" THEN @ ELSE "grace"]
    \/ UNCHANGED token

\* Mutant: the new token goes to the blacklist.
RotateNew(h) ==
    /\ work[h].pc = "rotate"
    /\ BlacklistToken(work[h].new)
    /\ Begin(h, [work[h] EXCEPT !.pc = "extend"])
    /\ UNCHANGED <<factor, logins, dates, jar, mk, cut, requests, restarts>>

Rotate(h) ==
    /\ work[h].pc = "rotate"
    /\ BlacklistToken(work[h].tok)
    /\ Begin(h, [work[h] EXCEPT !.pc = "extend"])
    /\ UNCHANGED <<factor, logins, dates, jar, mk, cut, requests, restarts>>

\* RefreshMasterKeyTTL.  When it fails the handler answers 401 and goes on, but
\* the cookie it then sets is too late for the headers.
Extend(h) ==
    /\ work[h].pc = "extend"
    /\ \/ /\ mk
          /\ Begin(h, [work[h] EXCEPT !.pc = "answer"])
          /\ UNCHANGED cut
       \/ /\ Answer(h)
          /\ cut' = TRUE
    /\ UNCHANGED <<factor, logins, token, dates, jar, mk, requests, restarts>>

\* The answer reaches the browser, or does not.
Cookie(h) ==
    /\ work[h].pc = "answer"
    /\ \/ jar' = work[h].new /\ UNCHANGED cut
       \/ cut' = TRUE /\ UNCHANGED jar
    /\ Answer(h)
    /\ UNCHANGED <<factor, logins, token, dates, mk, requests, restarts>>

Logout(h) ==
    /\ Arrives(h)
    /\ Begin(h, Handing(IF jar = 0 THEN "bye" ELSE "logout", jar, 0))
    /\ UNCHANGED <<factor, logins, tokens, restarts>>

LogoutBlacklists(h) ==
    /\ work[h].pc = "logout"
    /\ BlacklistToken(work[h].tok)
    /\ Begin(h, [work[h] EXCEPT !.pc = "bye"])
    /\ UNCHANGED <<factor, logins, dates, jar, mk, cut, requests, restarts>>

CookieRemoved(h) ==
    /\ work[h].pc = "bye"
    /\ jar' = 0
    /\ Answer(h)
    /\ UNCHANGED <<factor, logins, token, dates, mk, cut, requests, restarts>>

SecondPasses ==
    /\ recent # {}
    /\ recent' = {}
    /\ UNCHANGED <<factor, logins, token, issued, again, jar, mk, cut, work, requests, restarts>>

\* Ten seconds, or RefreshTokenTTL, pass; MasterKeyRedisTTL passes.
TokenAges(t) ==
    /\ t <= issued /\ t \notin recent
    /\ \/ token[t] = "grace" /\ token' = [token EXCEPT ![t] = "dead"]
       \/ token[t] # "expired" /\ token' = [token EXCEPT ![t] = "expired"]
    /\ UNCHANGED <<factor, logins, dates, jar, mk, cut, work, requests, restarts>>

MasterKeyLeavesRedis ==
    /\ mk
    /\ mk' = FALSE
    /\ UNCHANGED <<factor, logins, token, dates, jar, cut, work, requests, restarts>>

\* The server restarts: entries, timers and requests are gone.
Restart ==
    /\ restarts < MaxRestarts
    /\ restarts' = restarts + 1
    /\ setup' = None /\ expired' = stores /\ fired' = stores
    /\ waiting' = [l \in LoginId |-> "none"]
    /\ cut' = (cut \/ \E h \in Handlers : work[h].pc \in {"rotate", "extend", "answer", "bye"})
    /\ work' = [h \in Handlers |-> NoWork]
    /\ UNCHANGED <<secret, stores, shown, proved, begun, entered, token, dates, jar, mk, requests>>

-----------------------------------------------------------------------------
(* Properties. *)

\* What a waiting login is to the browser that holds its totp_token: open while the
\* entry can be found, taken while a handler checks the code typed with it.
TicketOf(l) ==
    IF l > begun THEN "unborn"
    ELSE IF \E h \in Handlers : work[h].pc = "auth" /\ work[h].login = l THEN "taken"
    ELSE IF waiting[l] = "fresh" THEN "open"
    ELSE IF entered[l] > 0 THEN "used" ELSE "gone"
Ticket == INSTANCE Tickets WITH Ids <- LoginId,
                                state <- [l \in LoginId |-> TicketOf(l)],
                                uses <- entered

\* A waiting login is a one-time ticket: however many requests bring its totp_token
\* and the right code at the same time, one handler takes it, and it is answered
\* with tokens at most once, never after its time or a restart
\* (loadAndDeleteTOTPPending, totp.go:285).
OneEntryPerLogin == Ticket!TicketsSpec

\* The account's second factor is a secret whose code the user has typed: no
\* order of setups, confirmations and timers turns on one the user cannot use.
SecretIsProved == secret # None => secret \in proved

\* The secret that waits for its first code is the one the user scanned last.
SetupIsLastShown == setup # None => setup.secret = shown

\* The second factor, on or being set up, is the one in the user's application.
SecondFactorUsable == SecretIsProved /\ SetupIsLastShown

\* A browser whose answers all arrived holds a cookie that will be accepted, or
\* the answer with the next one is on its way: parallel refreshes of its tabs
\* never leave it with a rotated token that has outlived its grace.  Not so for a
\* token that was issued again in its own second: it is the one that goes to the
\* blacklist and the one that the browser is given.
SessionSurvives ==
    jar \notin again \cup {0} /\ token[jar] = "dead" /\ ~cut =>
        \E h \in Handlers : work[h].pc \in {"rotate", "extend", "answer", "bye"}

\* The entry of a secret is removed by a confirmation, or when its own time
\* (totpPendingTTL) is up.
SetupLivesItsTime ==
    [][setup # None /\ setup' = None =>
         setup.n <= expired' \/ restarts' # restarts \/ fired' = fired]_vars

-----------------------------------------------------------------------------
Serve(h) ==
    \/ AuthCheck(h) \/ ConfirmEnd(h) \/ ClearTOTPSecret(h)
    \/ Rotate(h) \/ Extend(h) \/ Cookie(h) \/ LogoutBlacklists(h) \/ CookieRemoved(h)

Ask(h) ==
    \/ Login(h) \/ RefreshToken(h) \/ Logout(h) \/ TOTPSetup(h)
    \/ \E c \in Codes : \/ TOTPConfirm(h, c) \/ TOTPDisable(h, c)
                        \/ \E l \in LoginId : AuthTOTP(h, l, c)

Clock ==
    \/ \E l \in LoginId : LoginAges(l)
    \/ \E t \in Token : TokenAges(t)
    \/ SecondPasses \/ SetupExpires \/ SetupTimer \/ MasterKeyLeavesRedis

Next == (\E h \in Handlers : Ask(h) \/ Serve(h)) \/ Clock \/ Restart

Spec == Init /\ [][Next]_vars
=============================================================================
