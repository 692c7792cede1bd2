------------------------------- MODULE Account -------------------------------
(***************************************************************************)
(* Accounts: registration, e-mail confirmation, password login, password   *)
(* reset and the lazy migration of accounts older than the e-mail hash     *)
(* (delivery/http/auth.go, usecase/auth, repository/mysql/auth.go and      *)
(* security.go, and the transport keys of security/exam.go).               *)
(*                                                                         *)
(* A password travels encrypted with a one-use key of the client, which    *)
(* the server keeps in Exam.regData under the client's respId.  The cipher *)
(* is not authenticated: under another key it decrypts to Garbage.         *)
(*                                                                         *)
(* A step is one database statement or one access to regData with the code *)
(* up to the next one.  What happens to a MasterKey at login and reset is  *)
(* in MasterKey; the second factor and tokens are in SignIn.              *)
(***************************************************************************)
EXTENDS Integers, FiniteSets

CONSTANTS
    Users,      \* ids of users
    Mails,
    Clients,    \* respIds
    Handlers,   \* HTTP goroutines
    Passwords,
    Garbage,    \* what decryption with a wrong key yields
    OldUser, OldMail, OldPass,  \* the account that predates EmailHash
    MaxKeys,    \* bound on transport keys
    MaxRestarts,
    None

Words == Passwords \cup {Garbage}
Row == [mail : Mails, sha : Words, hash : BOOLEAN, confirmed : BOOLEAN]

ASSUME AccountAssumption ==
    /\ OldUser \in Users /\ OldMail \in Mails /\ OldPass \in Passwords
    /\ Garbage \notin Passwords
    /\ None \notin Users \cup Mails \cup Clients \cup Passwords \cup {Garbage} /\ None \notin Row
    /\ MaxKeys \in Nat /\ MaxRestarts \in Nat

VARIABLES
    row,       \* users and user_auth by user id
    regKey,    \* Exam.regData by respId
    made,      \* transport keys made so far
    held,      \* keys the client's tabs have not used yet
    letters,   \* tokens of GetMailConfirmationToken sent to their mail
    tokens,    \* clients with a short access token, of CheckResetPass or of a login
    work,      \* request each handler serves
    moving,    \* goroutines that migrate an account
    checking,  \* goroutines of checkAndFinalizeMigration that wait or run
    notNull,   \* user_auth.EmailHash is NOT NULL
    restarts,
    last,      \* history: passwords the owner of each account may take for the stored one
    raced,     \* history: accounts a reset was written to between the read of a login and
               \* the migration that login starts
    failed     \* history: the answer to the last migration was lost, or a COUNT or ALTER
               \* failed when no account was left to migrate

clients == <<regKey, made, held>>
mailbox == <<letters, tokens>>
finalization == <<checking, notNull, failed>>
migration == <<moving, finalization, restarts>>
owner == <<last, raced>>
vars == <<row, clients, mailbox, work, migration, owner>>

Key == 1..MaxKeys
Request(label, c, m, p, t) ==   \* a password typed as t that arrived as p
    [pc |-> label, client |-> c, mail |-> m, pass |-> p, typed |-> t, user |-> None,
     sha |-> None, old |-> FALSE]
NoWork == Request("idle", None, None, None, None)
Work == [pc : {"idle", "create", "auth", "verify", "update"},
         client : Clients \cup {None}, mail : Mails \cup {None}, pass : Words \cup {None}, typed : Passwords \cup {None},
         user : Users \cup {None}, sha : Words \cup {None}, old : BOOLEAN]
Letter == [user : Users, mail : Mails]

Exists(u) == row[u] # None
Legacy(u) == Exists(u) /\ ~row[u].hash
Unmigrated == {u \in Users : Legacy(u)}
Answering(m) == {u \in Users : Exists(u) /\ row[u].mail = m}   \* WHERE Email = ? OR EmailHash = ?

TypeOK ==
    /\ row \in [Users -> Row \cup {None}]
    /\ regKey \in [Clients -> [key : Key, old : BOOLEAN] \cup {None}]
    /\ made \in 0..MaxKeys
    /\ held \in [Clients -> SUBSET Key]
    /\ letters \subseteq Letter /\ tokens \subseteq Clients
    /\ work \in [Handlers -> Work]
    /\ moving \subseteq [user : Users, mail : Mails, pass : Words]
    /\ checking \in Nat /\ notNull \in BOOLEAN /\ failed \in BOOLEAN
    /\ restarts \in 0..MaxRestarts
    /\ last \in [Users -> SUBSET Passwords] /\ raced \subseteq Users

Init ==
    /\ row = [u \in Users |-> IF u = OldUser
                              THEN [mail |-> OldMail, sha |-> OldPass, hash |-> FALSE,
                                    confirmed |-> TRUE]
                              ELSE None]
    /\ regKey = [c \in Clients |-> None] /\ made = 0 /\ held = [c \in Clients |-> {}]
    /\ letters = {} /\ tokens = {}
    /\ work = [h \in Handlers |-> NoWork]
    /\ moving = {} /\ checking = 0 /\ notNull = FALSE /\ failed = FALSE /\ restarts = 0
    /\ last = [u \in Users |-> IF u = OldUser THEN {OldPass} ELSE {}] /\ raced = {}

-----------------------------------------------------------------------------
(* Transport keys. *)

\* Exam.AddRegUser: a new key of the client replaces the one before.
AddRegUser(c) ==
    /\ made < MaxKeys
    /\ made' = made + 1
    /\ regKey' = [regKey EXCEPT ![c] = [key |-> made', old |-> FALSE]]
    /\ held' = [held EXCEPT ![c] = @ \cup {made'}]

\* CheckMail: a key only for a mail no account answers to; nothing ties it to that mail.
CheckMail(c, m) ==
    /\ Answering(m) = {}
    /\ AddRegUser(c)
    /\ UNCHANGED <<row, mailbox, work, migration, owner>>

GetAuthKey(c) ==
    /\ AddRegUser(c)
    /\ UNCHANGED <<row, mailbox, work, migration, owner>>

\* RegKeyTTL passes.
KeyAges(c) ==
    /\ regKey[c] # None /\ ~regKey[c].old
    /\ regKey' = [regKey EXCEPT ![c].old = TRUE]
    /\ UNCHANGED <<row, made, held, mailbox, work, migration, owner>>

\* Exam.DecryptPassword: whatever comes of it, the client's key is gone.
UseKey(c, k) ==
    /\ k \in held[c]
    /\ held' = [held EXCEPT ![c] = @ \ {k}]
    /\ regKey' = [regKey EXCEPT ![c] = None]
    /\ UNCHANGED made

Decrypts(c) == regKey[c] # None /\ ~regKey[c].old
Decrypted(c, k, p) == IF regKey[c].key = k THEN p ELSE Garbage

\* A request with mail m and, under key k, password p becomes the work of handler h,
\* or fails with 400 when the client's key is gone or too old.
Receive(h, c, k, p, pc, m) ==
    /\ work[h].pc = "idle"
    /\ UseKey(c, k)
    /\ work' = IF Decrypts(c)
               THEN [work EXCEPT ![h] = Request(pc, c, m, Decrypted(c, k, p), p)]
               ELSE work

Answer(h) == work' = [work EXCEPT ![h] = NoWork]

-----------------------------------------------------------------------------
(* Registration. *)

\* The mail is that of the body.
RegNewUser(h, c) ==
    /\ \E k \in held[c], p \in Passwords, m \in Mails : Receive(h, c, k, p, "create", m)
    /\ UNCHANGED <<row, mailbox, migration, owner>>

\* The row of a registration, and its letter unless the answer is 500 all the same:
\* the commit or the token failed after the row was there.
Insert(h, u) ==
    LET w == work[h] IN
    /\ row' = [row EXCEPT ![u] = [mail |-> w.mail, sha |-> w.pass, hash |-> TRUE,
                                  confirmed |-> FALSE]]
    /\ last' = [last EXCEPT ![u] = {w.typed}]
    /\ \/ letters' = letters \cup {[user |-> u, mail |-> w.mail]}
       \/ UNCHANGED letters
    /\ Answer(h)
    /\ UNCHANGED <<clients, tokens, migration, raced>>

\* Mutant: no unique key on EmailHash.
CreateDuplicate(h) == work[h].pc = "create" /\ \E u \in Users : ~Exists(u) /\ Insert(h, u)

\* CreateUser, one transaction: EmailHash is unique among the accounts that have one.
CreateUser(h) ==
    /\ work[h].pc = "create"
    /\ \A v \in Answering(work[h].mail) : Legacy(v)
    /\ \E u \in Users : ~Exists(u) /\ Insert(h, u)

\* Mutant: the error of CreateUser does not end the request.
CreateFailsAndMails(h) ==
    /\ work[h].pc = "create"
    /\ letters' = letters \cup {[user |-> None, mail |-> work[h].mail]}
    /\ Answer(h)
    /\ UNCHANGED <<row, clients, tokens, migration, owner>>

\* The insert is refused or the database fails: 500.
CreateFails(h) ==
    /\ work[h].pc = "create"
    /\ Answer(h)
    /\ UNCHANGED <<row, clients, mailbox, migration, owner>>

\* ConfirmEmail: whoever answers to the letter's mail becomes confirmed.
ConfirmEmail(l) ==
    /\ l \in letters
    /\ \E u \in Answering(l.mail) : ~row[u].confirmed
    /\ row' = [u \in Users |-> IF u \in Answering(l.mail)
                               THEN [row[u] EXCEPT !.confirmed = TRUE] ELSE row[u]]
    /\ UNCHANGED <<clients, mailbox, work, migration, owner>>

-----------------------------------------------------------------------------
(* Login. *)

Login(h, c) ==
    /\ \E k \in held[c], p \in Passwords, m \in Mails : Receive(h, c, k, p, "auth", m)
    /\ UNCHANGED <<row, mailbox, migration, owner>>

\* GetAuthData reads the hash the password is then compared with; 401 when nobody
\* answers to the mail or the read fails.
GetAuthData(h) ==
    LET w == work[h] IN
    /\ w.pc = "auth"
    /\ \/ \E u \in Answering(w.mail) :
             work' = [work EXCEPT ![h] = [w EXCEPT !.pc = "verify", !.user = u,
                                          !.sha = row[u].sha, !.old = ~row[u].hash]]
       \/ Answer(h)
    /\ UNCHANGED <<row, clients, mailbox, migration, owner>>

\* VerifyPassword; a second factor, if it is on, takes over here.  A login by
\* password alone starts the migration of an account that has no EmailHash.
Verify(h, totp) ==
    LET w == work[h] IN
    /\ w.pc = "verify"
    /\ IF w.pass = w.sha /\ ~totp
       THEN /\ tokens' = tokens \cup {w.client}
            /\ moving' = IF w.old
                         THEN moving \cup {[user |-> w.user, mail |-> w.mail, pass |-> w.pass]}
                         ELSE moving
       ELSE UNCHANGED <<tokens, moving>>
    /\ Answer(h)
    /\ UNCHANGED <<row, clients, letters, finalization, restarts, owner>>

-----------------------------------------------------------------------------
(* Lazy migration. *)

\* The row takes the hash, unless another account has it already.
Migrates(g) == Legacy(g.user) /\ \A v \in Answering(g.mail) : Legacy(v)
Migrated(g) == [row EXCEPT ![g.user] = [@ EXCEPT !.sha = g.pass, !.hash = TRUE]]

\* Mutant: the check for unmigrated accounts runs before the account is written.
MigrateChecksFirst(g) ==
    /\ g \in moving
    /\ moving' = moving \ {g}
    /\ row' = IF Migrates(g) THEN Migrated(g) ELSE row
    /\ notNull' = (notNull \/ Unmigrated = {})
    /\ UNCHANGED <<clients, mailbox, work, checking, failed, restarts, owner>>

\* MigrateUserSecurity writes the password of the login that started it, and starts
\* a check unless the answer to its statement is lost.
MigrateLegacyUser(g) ==
    /\ g \in moving
    /\ moving' = moving \ {g}
    /\ IF Migrates(g)
       THEN /\ row' = Migrated(g)
            /\ \/ checking' = checking + 1 /\ UNCHANGED failed
               \/ failed' = (failed \/ Unmigrated' = {}) /\ UNCHANGED checking
       ELSE UNCHANGED <<row, checking, failed>>
    /\ UNCHANGED <<clients, mailbox, work, notNull, restarts, owner>>

\* The statement fails; the next login tries again.
MigrateFails(g) ==
    /\ g \in moving
    /\ moving' = moving \ {g}
    /\ UNCHANGED <<row, clients, mailbox, work, finalization, restarts, owner>>

\* checkAndFinalizeMigration, under migrationMu: when no account without a hash is
\* left the column becomes NOT NULL.  An error of either statement is logged.
FinalizeMigration ==
    /\ checking > 0
    /\ checking' = checking - 1
    /\ \/ notNull' = (notNull \/ Unmigrated = {}) /\ UNCHANGED failed
       \/ ~notNull /\ failed' = (failed \/ Unmigrated = {}) /\ UNCHANGED notNull
    /\ UNCHANGED <<row, clients, mailbox, work, moving, restarts, owner>>

-----------------------------------------------------------------------------
(* Password reset. *)

HandleResetPass(m) ==
    /\ \E u \in Answering(m) : letters' = letters \cup {[user |-> u, mail |-> m]}
    /\ UNCHANGED <<row, clients, tokens, work, migration, owner>>

CheckResetPass(c, l) ==
    /\ l \in letters
    /\ tokens' = tokens \cup {c}
    /\ UNCHANGED <<row, clients, letters, work, migration, owner>>

\* The token names the client; the mail is that of the body.
ResetPass(h, c) ==
    /\ c \in tokens
    /\ \E k \in held[c], p \in Passwords, m \in Mails : Receive(h, c, k, p, "update", m)
    /\ UNCHANGED <<row, mailbox, migration, owner>>

\* What the owners of accounts us know after a reset: the new password alone when
\* it was acknowledged; on an error, that it may be the new one or not.
Told(us, p, acknowledged) ==
    last' = [u \in Users |-> IF u \notin us THEN last[u]
                             ELSE IF acknowledged THEN {p} ELSE last[u] \cup {p}]

\* A login has read this account and its migration is still to come.
Reading(u) ==
    \/ \E g \in moving : g.user = u
    \/ \E h \in Handlers : work[h].pc = "verify" /\ work[h].user = u

\* Mutant: looks for EmailHash alone, and takes no row for a success.
UpdateByHash(h) ==
    LET w == work[h] IN
    /\ w.pc = "update"
    /\ row' = [u \in Users |-> IF u \in Answering(w.mail) /\ ~Legacy(u)
                               THEN [row[u] EXCEPT !.sha = w.pass] ELSE row[u]]
    /\ Told(Answering(w.mail), w.typed, TRUE)
    /\ Answer(h)
    /\ UNCHANGED <<clients, mailbox, migration, raced>>

\* UpdatePassword: every account that answers to the mail; none is an error.  What
\* ResetPassword then does to the MasterKey may fail: 400 with the password written.
UpdatePassword(h) ==
    LET w == work[h] IN
    /\ w.pc = "update"
    /\ row' = [u \in Users |-> IF u \in Answering(w.mail)
                               THEN [row[u] EXCEPT !.sha = w.pass] ELSE row[u]]
    /\ \E acknowledged \in BOOLEAN : Told(Answering(w.mail), w.typed, acknowledged)
    /\ raced' = raced \cup {u \in Answering(w.mail) : Legacy(u) /\ Reading(u)}
    /\ Answer(h)
    /\ UNCHANGED <<clients, mailbox, migration>>

\* The statement fails: 400.
UpdateFails(h) ==
    /\ work[h].pc = "update"
    /\ Told(Answering(work[h].mail), work[h].typed, FALSE)
    /\ Answer(h)
    /\ UNCHANGED <<row, clients, mailbox, migration, raced>>

\* The server stops: what it keeps in memory is gone, the tables are not.
Restart ==
    /\ restarts < MaxRestarts
    /\ restarts' = restarts + 1
    /\ regKey' = [c \in Clients |-> None]
    /\ work' = [h \in Handlers |-> NoWork]
    /\ moving' = {} /\ checking' = 0
    /\ UNCHANGED <<row, made, held, mailbox, notNull, failed, owner>>

-----------------------------------------------------------------------------
(* Properties. *)

\* At most one account with an EmailHash answers to a mail, and at most one without:
\* two registrations of a mail both get past CheckMail, which is not repeated, and a
\* legacy account meets the hash of a second registration when it is migrated.
OneAccountPerMail ==
    \A m \in Mails : /\ Cardinality(Answering(m) \ Unmigrated) <= 1
                     /\ Cardinality(Answering(m) \cap Unmigrated) <= 1

\* The password stored for an account is the one of the last registration or reset
\* the server acknowledged, or of a later one that ended with an error, whatever the
\* migration wrote; not so for an account that was reset in the middle of the login
\* that migrates it.
PasswordIsLatest == \A u \in Users \ raced : Exists(u) => row[u].sha \in last[u]

\* Once every account has an EmailHash the column becomes NOT NULL, or a goroutine
\* is on its way to do it: no migration comes later to try again.  Only a restart, the
\* answer to the last migration and a failing statement after it are lost.
FinalizeNotForgotten ==
    Unmigrated = {} => notNull \/ checking > 0 \/ restarts > 0 \/ failed

-----------------------------------------------------------------------------
Serve(h) ==
    \/ CreateUser(h) \/ CreateFails(h) \/ UpdatePassword(h) \/ UpdateFails(h)
    \/ GetAuthData(h) \/ \E totp \in BOOLEAN : Verify(h, totp)

Ask(h) == \E c \in Clients : RegNewUser(h, c) \/ Login(h, c) \/ ResetPass(h, c)

Next ==
    \/ \E c \in Clients : GetAuthKey(c) \/ KeyAges(c) \/ \E m \in Mails : CheckMail(c, m)
    \/ \E h \in Handlers : Ask(h) \/ Serve(h)
    \/ \E l \in letters : ConfirmEmail(l) \/ \E c \in Clients : CheckResetPass(c, l)
    \/ \E m \in Mails : HandleResetPass(m)
    \/ \E g \in moving : MigrateLegacyUser(g) \/ MigrateFails(g)
    \/ FinalizeMigration
    \/ Restart

Spec == Init /\ [][Next]_vars
=============================================================================
