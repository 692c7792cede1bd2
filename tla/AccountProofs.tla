----------------------------- MODULE AccountProofs -----------------------------
(***************************************************************************)
(* Proofs about Account, for any number of users, mails, clients, handlers *)
(* and restarts: types, that one account with a hash answers to a mail,    *)
(* that the end of the migration is not forgotten, and that the stored     *)
(* password is one its owner may take for it.                              *)
(***************************************************************************)
EXTENDS MCAccount, FiniteSetTheorems, TLAPS

-----------------------------------------------------------------------------
(* Type correctness. *)

\* What a handler has in hand when it works on a request.
HandlerOK(w) ==
    /\ w.pc # "idle" => w.mail \in Mails /\ w.pass \in Words /\ w.typed \in Passwords
    /\ w.pc = "verify" => w.user \in Users /\ w.sha \in Words /\ w.client \in Clients
    /\ w.pc = "auth" => w.client \in Clients

WorkOK == work \in [Handlers -> Work] /\ \A h \in Handlers : HandlerOK(work[h])
Typed == TypeOK /\ WorkOK

\* What is done to a row.
LEMMA RowChanges ==
  ASSUME NEW r \in Row, NEW p \in Words
  PROVE  /\ r # None
         /\ [r EXCEPT !.confirmed = TRUE] \in Row /\ [r EXCEPT !.confirmed = TRUE].mail = r.mail
         /\ [r EXCEPT !.confirmed = TRUE].sha = r.sha /\ [r EXCEPT !.confirmed = TRUE].hash = r.hash
         /\ [r EXCEPT !.sha = p] \in Row /\ [r EXCEPT !.sha = p].mail = r.mail
         /\ [r EXCEPT !.sha = p].sha = p /\ [r EXCEPT !.sha = p].hash = r.hash
         /\ [r EXCEPT !.sha = p, !.hash = TRUE] \in Row
         /\ [r EXCEPT !.sha = p, !.hash = TRUE].mail = r.mail
         /\ [r EXCEPT !.sha = p, !.hash = TRUE].sha = p
         /\ [r EXCEPT !.sha = p, !.hash = TRUE].hash = TRUE
BY AccountAssumption DEF Row

LEMMA NoWorkOK == NoWork \in Work /\ HandlerOK(NoWork) /\ NoWork.pc = "idle"
BY DEF NoWork, Request, Work, HandlerOK

LEMMA AnswerWork ==
  ASSUME WorkOK, NEW h \in Handlers, Answer(h)
  PROVE  WorkOK' /\ work'[h].pc = "idle" /\ \A g \in Handlers \ {h} : work'[g] = work[g]
BY NoWorkOK DEF WorkOK, Answer

\* A request is taken on with the key it was sent under.
LEMMA ReceiveWork ==
  ASSUME Typed, NEW h \in Handlers, NEW c \in Clients, NEW k \in held[c], NEW p \in Passwords,
         NEW l \in {"create", "auth", "update"}, NEW m \in Mails, Receive(h, c, k, p, l, m)
  PROVE  /\ WorkOK' /\ \A g \in Handlers \ {h} : work'[g] = work[g]
         /\ \/ work' = work
            \/ /\ Decrypts(c) /\ work'[h].pc = l /\ work'[h].mail = m
               /\ work'[h].typed = p /\ work'[h].pass = Decrypted(c, k, p)
         /\ work[h].pc = "idle"
<1> DEFINE w == Request(l, c, m, Decrypted(c, k, p), p)
<1>1. Decrypted(c, k, p) \in Words
  BY DEF Decrypted, Words
<1>2. /\ w \in Work /\ HandlerOK(w) /\ w.pc = l /\ w.mail = m
      /\ w.typed = p /\ w.pass = Decrypted(c, k, p)
  BY <1>1 DEF Request, Work, HandlerOK
<1>3. /\ work[h].pc = "idle" /\ work \in [Handlers -> Work]
      /\ (Decrypts(c) /\ work' = [work EXCEPT ![h] = w]) \/ work' = work
  BY DEF Receive, Typed, WorkOK
<1> HIDE DEF w
<1>4. WorkOK' /\ \A g \in Handlers \ {h} : work'[g] = work[g]
  BY <1>2, <1>3 DEF Typed, WorkOK
<1>5. work' = work \/ (Decrypts(c) /\ work'[h] = w)
  BY <1>3
<1> QED
  BY <1>2, <1>3, <1>4, <1>5 DEF w

KeysOK ==
    /\ regKey \in [Clients -> [key : Key, old : BOOLEAN] \cup {None}]
    /\ made \in 0..MaxKeys
    /\ held \in [Clients -> SUBSET Key]

LEMMA KeysTyped ==
  ASSUME Typed, NEW c \in Clients, AddRegUser(c) \/ \E k : UseKey(c, k)
  PROVE  KeysOK'
<1>1. CASE AddRegUser(c)
  <2>1. made' \in 0..MaxKeys /\ made' \in Key
    BY <1>1, AccountAssumption DEF Typed, TypeOK, AddRegUser, Key
  <2> QED
    BY <1>1, <2>1 DEF Typed, TypeOK, AddRegUser, KeysOK
<1>2. CASE \E k : UseKey(c, k)
  BY <1>2 DEF Typed, TypeOK, UseKey, KeysOK
<1> QED
  BY <1>1, <1>2

LEMMA InitTyped == Init => Typed
<1> SUFFICES ASSUME Init PROVE Typed
  OBVIOUS
<1>1. row \in [Users -> Row \cup {None}]
  BY AccountAssumption DEF Init, Row, Words
<1>2. last \in [Users -> SUBSET Passwords] /\ raced \subseteq Users
  BY AccountAssumption DEF Init
<1>3. WorkOK
  BY NoWorkOK DEF Init, WorkOK
<1>4. notNull \in BOOLEAN /\ failed \in BOOLEAN
  BY Zenon DEF Init
<1>5. /\ regKey \in [Clients -> [key : Key, old : BOOLEAN] \cup {None}]
      /\ held \in [Clients -> SUBSET Key]
      /\ made \in 0..MaxKeys /\ restarts \in 0..MaxRestarts /\ checking \in Nat
  BY AccountAssumption DEF Init
<1>6. letters = {} /\ tokens = {} /\ moving = {}
  BY DEF Init
<1> QED
  BY <1>1, <1>2, <1>3, <1>4, <1>5, <1>6 DEF Typed, TypeOK, WorkOK

\* Requests that touch keys alone.
LEMMA KeyStepTyped ==
  ASSUME Typed, NEW c \in Clients,
         GetAuthKey(c) \/ KeyAges(c) \/ \E m \in Mails : CheckMail(c, m)
  PROVE  Typed'
<1> USE DEF mailbox, migration, finalization, owner
<1>1. CASE GetAuthKey(c)
  BY <1>1, KeysTyped DEF GetAuthKey, KeysOK, Typed, TypeOK, WorkOK
<1>2. CASE \E m \in Mails : CheckMail(c, m)
  BY <1>2, KeysTyped DEF CheckMail, KeysOK, Typed, TypeOK, WorkOK
<1>3. CASE KeyAges(c)
  <2>1. regKey' \in [Clients -> [key : Key, old : BOOLEAN] \cup {None}]
    BY <1>3 DEF KeyAges, Typed, TypeOK
  <2> QED
    BY <1>3, <2>1 DEF KeyAges, Typed, TypeOK, WorkOK
<1> QED
  BY <1>1, <1>2, <1>3

\* What a request asks for, brings, and which key it used.
Asked(h, c, l) == \E k \in held[c], p \in Passwords, m \in Mails : Receive(h, c, k, p, l, m)

LEMMA AskIs ==
  ASSUME NEW h \in Handlers, Ask(h)
  PROVE  /\ UNCHANGED <<row, mailbox, migration, owner>>
         /\ \E c \in Clients, l \in {"create", "auth", "update"} : Asked(h, c, l)
BY DEF Ask, RegNewUser, Login, ResetPass, Asked

\* A handler that takes on a request.
LEMMA AskWork ==
  ASSUME Typed, NEW h \in Handlers, Ask(h)
  PROVE  /\ work[h].pc = "idle" /\ WorkOK' /\ \A g \in Handlers \ {h} : work'[g] = work[g]
         /\ \/ work' = work
            \/ \E c \in Clients : \E k \in held[c], p \in Passwords :
                 /\ Decrypts(c) /\ work'[h].typed = p /\ work'[h].pass = Decrypted(c, k, p)
                 /\ work'[h].pc \in {"create", "auth", "update"}
<1>1. PICK c \in Clients, l \in {"create", "auth", "update"} : Asked(h, c, l)
  BY AskIs
<1>2. PICK k \in held[c], p \in Passwords, m \in Mails : Receive(h, c, k, p, l, m)
  BY <1>1 DEF Asked
<1> QED
  BY <1>2, ReceiveWork

LEMMA AskTyped ==
  ASSUME Typed, NEW h \in Handlers, Ask(h)
  PROVE  Typed'
<1>1. PICK c \in Clients, l \in {"create", "auth", "update"} : Asked(h, c, l)
  BY AskIs
<1>2. \E k : UseKey(c, k)
  BY <1>1 DEF Asked, Receive
<1>3. KeysOK'
  BY <1>2, KeysTyped
<1> QED
  BY <1>3, AskIs, AskWork
  DEF mailbox, migration, finalization, owner, KeysOK, Typed, TypeOK, WorkOK

\* What the owners know stays passwords.
LEMMA ToldTyped ==
  ASSUME Typed, NEW us, NEW p \in Passwords, NEW b \in BOOLEAN, Told(us, p, b)
  PROVE  last' \in [Users -> SUBSET Passwords]
BY DEF Told, Typed, TypeOK

\* The row a step of a handler leaves.
LEMMA UpdateRow ==
  ASSUME Typed, NEW h \in Handlers, UpdatePassword(h)
  PROVE  /\ row' \in [Users -> Row \cup {None}]
         /\ \A u \in Users : Exists(u) =>
              row'[u] # None /\ row'[u].mail = row[u].mail /\ row'[u].hash = row[u].hash
         /\ \A u \in Users : u \in Answering(work[h].mail) => row'[u].sha = work[h].pass
         /\ \A u \in Users : u \notin Answering(work[h].mail) => row'[u] = row[u]
<1>1. work[h].pass \in Words
  BY DEF UpdatePassword, Typed, WorkOK, HandlerOK
<1>2. \A u \in Answering(work[h].mail) : row[u] \in Row /\ row[u] # None
  BY DEF Answering, Exists, Typed, TypeOK
<1>3. row' = [u \in Users |-> IF u \in Answering(work[h].mail)
                              THEN [row[u] EXCEPT !.sha = work[h].pass] ELSE row[u]]
  BY DEF UpdatePassword
<1>4. \A u \in Users : u \in Answering(work[h].mail) =>
          /\ row'[u] \in Row /\ row'[u] # None /\ row'[u].mail = row[u].mail
          /\ row'[u].hash = row[u].hash /\ row'[u].sha = work[h].pass
  <2> SUFFICES ASSUME NEW u \in Users, u \in Answering(work[h].mail)
               PROVE  /\ row'[u] \in Row /\ row'[u] # None /\ row'[u].mail = row[u].mail
                      /\ row'[u].hash = row[u].hash /\ row'[u].sha = work[h].pass
    OBVIOUS
  <2>1. PICK r \in Row : r = row[u]
    BY <1>2
  <2>2. PICK p \in Words : p = work[h].pass
    BY <1>1
  <2> DEFINE q == [r EXCEPT !.sha = p]
  <2>3. row'[u] = q
    BY <1>3, <2>1, <2>2
  <2>4. q \in Row /\ q.mail = r.mail /\ q.hash = r.hash /\ q.sha = p
    BY <2>2, RowChanges
  <2> HIDE DEF q
  <2>5. q # None
    BY <2>4, AccountAssumption
  <2> QED
    BY <2>1, <2>2, <2>3, <2>4, <2>5
<1>5. \A u \in Users : u \notin Answering(work[h].mail) => row'[u] = row[u]
  BY <1>3
<1>6. row' = [u \in Users |-> row'[u]]
  BY <1>3
<1>7. \A u \in Users : row'[u] \in Row \cup {None}
  BY <1>4, <1>5 DEF Typed, TypeOK
<1>8. row' \in [Users -> Row \cup {None}]
  BY <1>6, <1>7
<1> QED
  BY <1>4, <1>5, <1>8 DEF Exists

LEMMA CreateRow ==
  ASSUME Typed, NEW h \in Handlers, CreateUser(h)
  PROVE  \E u \in Users :
           /\ ~Exists(u) /\ \A v \in Answering(work[h].mail) : Legacy(v)
           /\ row' \in [Users -> Row \cup {None}] /\ last' \in [Users -> SUBSET Passwords]
           /\ row'[u] # None /\ row'[u].mail = work[h].mail /\ row'[u].sha = work[h].pass
           /\ row'[u].hash
           /\ \A v \in Users \ {u} : row'[v] = row[v] /\ last'[v] = last[v]
           /\ last'[u] = {work[h].typed}
           /\ letters' \subseteq letters \cup {[user |-> u, mail |-> work[h].mail]}
           /\ UNCHANGED <<clients, tokens, migration, raced>> /\ Answer(h)
<1>1. work[h].mail \in Mails /\ work[h].pass \in Words /\ work[h].typed \in Passwords
  BY DEF CreateUser, Typed, WorkOK, HandlerOK
<1> DEFINE r == [mail |-> work[h].mail, sha |-> work[h].pass, hash |-> TRUE, confirmed |-> FALSE]
<1>2. r \in Row /\ r.mail = work[h].mail /\ r.sha = work[h].pass /\ r.hash = TRUE
  BY <1>1 DEF Row
<1>3. PICK u \in Users : ~Exists(u) /\ Insert(h, u)
  BY DEF CreateUser
<1>4. /\ row' = [row EXCEPT ![u] = r] /\ last' = [last EXCEPT ![u] = {work[h].typed}]
      /\ letters' \subseteq letters \cup {[user |-> u, mail |-> work[h].mail]}
      /\ UNCHANGED <<clients, tokens, migration, raced>> /\ Answer(h)
  BY <1>3 DEF Insert
<1> HIDE DEF r
<1>5. row \in [Users -> Row \cup {None}] /\ last \in [Users -> SUBSET Passwords]
  BY DEF Typed, TypeOK
<1>6. /\ row' \in [Users -> Row \cup {None}] /\ row'[u] = r
      /\ \A v \in Users \ {u} : row'[v] = row[v]
  BY <1>2, <1>4, <1>5
<1>7. /\ last' \in [Users -> SUBSET Passwords] /\ last'[u] = {work[h].typed}
      /\ \A v \in Users \ {u} : last'[v] = last[v]
  BY <1>1, <1>4, <1>5
<1>8. r # None
  BY <1>2, AccountAssumption
<1>9. \A v \in Answering(work[h].mail) : Legacy(v)
  BY DEF CreateUser
<1> QED
  BY <1>2, <1>3, <1>4, <1>6, <1>7, <1>8, <1>9

\* Handlers that go on with a request.
LEMMA ServeTyped ==
  ASSUME Typed, NEW h \in Handlers, Serve(h)
  PROVE  Typed'
<1> USE DEF mailbox, migration, finalization, owner, clients
<1>1. CASE CreateUser(h)
  <2>1. PICK u \in Users :
           /\ row' \in [Users -> Row \cup {None}] /\ last' \in [Users -> SUBSET Passwords]
           /\ letters' \subseteq letters \cup {[user |-> u, mail |-> work[h].mail]}
           /\ UNCHANGED <<clients, tokens, migration, raced>> /\ Answer(h)
    BY <1>1, CreateRow
  <2>2. work[h].mail \in Mails
    BY <1>1 DEF CreateUser, Typed, WorkOK, HandlerOK
  <2>3. letters' \subseteq Letter
    BY <2>1, <2>2 DEF Letter, Typed, TypeOK
  <2> QED
    BY <2>1, <2>3, AnswerWork DEF Typed, TypeOK, WorkOK
<1>2. CASE CreateFails(h)
  BY <1>2, AnswerWork DEF CreateFails, Typed, TypeOK, WorkOK
<1>3. CASE UpdatePassword(h)
  <2>1. work[h].typed \in Passwords
    BY <1>3 DEF UpdatePassword, Typed, WorkOK, HandlerOK
  <2>2. last' \in [Users -> SUBSET Passwords]
    BY <1>3, <2>1, ToldTyped DEF UpdatePassword
  <2>3. raced' \subseteq Users
    BY <1>3 DEF UpdatePassword, Answering, Typed, TypeOK
  <2> QED
    BY <1>3, <2>2, <2>3, UpdateRow, AnswerWork DEF UpdatePassword, Typed, TypeOK, WorkOK
<1>4. CASE UpdateFails(h)
  <2>1. work[h].typed \in Passwords
    BY <1>4 DEF UpdateFails, Typed, WorkOK, HandlerOK
  <2>2. last' \in [Users -> SUBSET Passwords]
    BY <1>4, <2>1, ToldTyped DEF UpdateFails
  <2> QED
    BY <1>4, <2>2, AnswerWork DEF UpdateFails, Typed, TypeOK, WorkOK
<1>5. CASE GetAuthData(h)
  <2>1. WorkOK'
    <3>1. CASE Answer(h)
      BY <3>1, AnswerWork DEF Typed
    <3>2. ASSUME NEW u \in Answering(work[h].mail),
                 work' = [work EXCEPT ![h] = [work[h] EXCEPT !.pc = "verify", !.user = u,
                                              !.sha = row[u].sha, !.old = ~row[u].hash]]
          PROVE  WorkOK'
      <4>1. u \in Users /\ row[u] \in Row
        BY DEF Answering, Exists, Typed, TypeOK
      <4>2. row[u].sha \in Words /\ (~row[u].hash) \in BOOLEAN
        BY <4>1 DEF Row
      <4> DEFINE w == [work[h] EXCEPT !.pc = "verify", !.user = u, !.sha = row[u].sha,
                                      !.old = ~row[u].hash]
      <4>3. work[h] \in Work /\ HandlerOK(work[h]) /\ work[h].pc = "auth"
        BY <1>5 DEF GetAuthData, Typed, WorkOK
      <4>4. w \in Work /\ HandlerOK(w)
        BY <4>1, <4>2, <4>3 DEF Work, HandlerOK
      <4>5. work' = [work EXCEPT ![h] = w]
        BY <3>2
      <4> HIDE DEF w
      <4> QED
        BY <4>4, <4>5 DEF Typed, WorkOK
    <3> QED
      BY <1>5, <3>1, <3>2 DEF GetAuthData
  <2> QED
    BY <1>5, <2>1 DEF GetAuthData, Typed, TypeOK, WorkOK
<1>6. ASSUME NEW totp \in BOOLEAN, Verify(h, totp) PROVE Typed'
  <2>1. /\ work[h].user \in Users /\ work[h].mail \in Mails /\ work[h].pass \in Words
        /\ work[h].client \in Clients
    BY <1>6 DEF Verify, Typed, WorkOK, HandlerOK
  <2>2. tokens' \subseteq Clients /\ moving' \subseteq [user : Users, mail : Mails, pass : Words]
    BY <1>6, <2>1 DEF Verify, Typed, TypeOK
  <2> QED
    BY <1>6, <2>2, AnswerWork DEF Verify, Typed, TypeOK, WorkOK
<1> QED
  BY <1>1, <1>2, <1>3, <1>4, <1>5, <1>6 DEF Serve

LEMMA ConfirmRow ==
  ASSUME Typed, NEW l \in letters, ConfirmEmail(l)
  PROVE  /\ row' \in [Users -> Row \cup {None}]
         /\ \A u \in Users : ~Exists(u) => row'[u] = None
         /\ \A u \in Users : Exists(u) =>
              /\ row'[u] # None /\ row'[u].mail = row[u].mail
              /\ row'[u].hash = row[u].hash /\ row'[u].sha = row[u].sha
<1>1. \A u \in Answering(l.mail) : row[u] \in Row /\ row[u] # None
  BY DEF Answering, Exists, Typed, TypeOK
<1>2. row' = [u \in Users |-> IF u \in Answering(l.mail)
                              THEN [row[u] EXCEPT !.confirmed = TRUE] ELSE row[u]]
  BY DEF ConfirmEmail
<1>3. \A u \in Users : u \in Answering(l.mail) =>
          /\ row'[u] \in Row /\ row'[u] # None /\ row'[u].mail = row[u].mail
          /\ row'[u].hash = row[u].hash /\ row'[u].sha = row[u].sha
  <2> SUFFICES ASSUME NEW u \in Users, u \in Answering(l.mail)
               PROVE  /\ row'[u] \in Row /\ row'[u] # None /\ row'[u].mail = row[u].mail
                      /\ row'[u].hash = row[u].hash /\ row'[u].sha = row[u].sha
    OBVIOUS
  <2>1. PICK r \in Row : r = row[u]
    BY <1>1
  <2>2. PICK p : p \in Words
    BY AccountAssumption DEF Words
  <2> DEFINE q == [r EXCEPT !.confirmed = TRUE]
  <2>3. row'[u] = q
    BY <1>2, <2>1
  <2>4. q \in Row /\ q.mail = r.mail /\ q.hash = r.hash /\ q.sha = r.sha
    BY <2>2, RowChanges
  <2> HIDE DEF q
  <2>5. q # None
    BY <2>4, AccountAssumption
  <2> QED
    BY <2>1, <2>2, <2>3, <2>4, <2>5
<1>4. \A u \in Users : u \notin Answering(l.mail) => row'[u] = row[u]
  BY <1>2
<1>5. \A u \in Users : row'[u] \in Row \cup {None}
  BY <1>3, <1>4 DEF Typed, TypeOK
<1>6. row' = [u \in Users |-> row'[u]]
  BY <1>2
<1>7. row' \in [Users -> Row \cup {None}]
  BY <1>5, <1>6
<1> QED
  BY <1>3, <1>4, <1>7 DEF Answering, Exists

\* The lazy migration fills in the hash of one account, or finds nothing to do.
LEMMA MigrateRow ==
  ASSUME Typed, NEW g \in moving, MigrateLegacyUser(g)
  PROVE  \/ row' = row /\ checking' = checking /\ failed' = failed
         \/ /\ Migrates(g)
            /\ \/ checking' = checking + 1 /\ failed' = failed
               \/ checking' = checking /\ failed' = (failed \/ Unmigrated' = {})
            /\ row' \in [Users -> Row \cup {None}]
            /\ row'[g.user] # None /\ row'[g.user].mail = row[g.user].mail
            /\ row'[g.user].sha = g.pass /\ row'[g.user].hash
            /\ \A u \in Users \ {g.user} : row'[u] = row[u]
<1>1. g.user \in Users /\ g.pass \in Words
  BY DEF Typed, TypeOK
<1>2. CASE ~Migrates(g)
  BY <1>2 DEF MigrateLegacyUser
<1>3. CASE Migrates(g)
  <2> DEFINE r == [row[g.user] EXCEPT !.sha = g.pass, !.hash = TRUE]
  <2>1. /\ row' = [row EXCEPT ![g.user] = r]
        /\ \/ checking' = checking + 1 /\ failed' = failed
           \/ checking' = checking /\ failed' = (failed \/ Unmigrated' = {})
    BY <1>3, Zenon DEF MigrateLegacyUser, Migrated
  <2>2. row[g.user] \in Row
    BY <1>1, <1>3 DEF Migrates, Legacy, Exists, Typed, TypeOK
  <2>3. r \in Row /\ r # None /\ r.mail = row[g.user].mail /\ r.sha = g.pass /\ r.hash
    <3>1. r \in Row /\ r.mail = row[g.user].mail /\ r.sha = g.pass /\ r.hash = TRUE
      BY <1>1, <2>2, RowChanges
    <3> HIDE DEF r
    <3> QED
      BY <3>1, AccountAssumption
  <2> HIDE DEF r
  <2> QED
    BY <1>1, <1>3, <2>1, <2>3 DEF Typed, TypeOK
<1> QED
  BY <1>2, <1>3

\* Letters, goroutines of the migration and restarts.
LEMMA OtherTyped ==
  ASSUME Typed,
         \/ \E l \in letters : ConfirmEmail(l) \/ \E c \in Clients : CheckResetPass(c, l)
         \/ \E m \in Mails : HandleResetPass(m)
         \/ \E g \in moving : MigrateLegacyUser(g) \/ MigrateFails(g)
         \/ FinalizeMigration
         \/ Restart
  PROVE  Typed'
<1> USE DEF mailbox, migration, finalization, owner, clients
<1>1. ASSUME NEW l \in letters, ConfirmEmail(l) PROVE Typed'
  BY <1>1, ConfirmRow DEF ConfirmEmail, Typed, TypeOK, WorkOK
<1>2. ASSUME NEW l \in letters, NEW c \in Clients, CheckResetPass(c, l) PROVE Typed'
  BY <1>2 DEF CheckResetPass, Typed, TypeOK, WorkOK
<1>3. ASSUME NEW m \in Mails, HandleResetPass(m) PROVE Typed'
  <2>1. letters' \subseteq Letter
    BY <1>3 DEF HandleResetPass, Letter, Answering, Typed, TypeOK
  <2> QED
    BY <1>3, <2>1 DEF HandleResetPass, Typed, TypeOK, WorkOK
<1>4. ASSUME NEW g \in moving, MigrateLegacyUser(g) PROVE Typed'
  <2>1. row' \in [Users -> Row \cup {None}] /\ checking' \in Nat
    BY <1>4, MigrateRow DEF Typed, TypeOK
  <2>2. moving' \subseteq moving
    BY <1>4 DEF MigrateLegacyUser
  <2>3. failed \in BOOLEAN
    BY DEF Typed, TypeOK
  <2>4. failed' \in BOOLEAN
    BY <1>4, <2>3, MigrateRow, Zenon
  <2> QED
    BY <1>4, <2>1, <2>2, <2>4 DEF MigrateLegacyUser, Typed, TypeOK, WorkOK
<1>5. ASSUME NEW g \in moving, MigrateFails(g) PROVE Typed'
  BY <1>5 DEF MigrateFails, Typed, TypeOK, WorkOK
<1>6. CASE FinalizeMigration
  <2>1. checking' \in Nat
    BY <1>6 DEF FinalizeMigration, Typed, TypeOK
  <2>2. notNull \in BOOLEAN /\ failed \in BOOLEAN
    BY DEF Typed, TypeOK
  <2>3. notNull' \in BOOLEAN /\ failed' \in BOOLEAN
    BY <1>6, <2>2, Zenon DEF FinalizeMigration
  <2> QED
    BY <1>6, <2>1, <2>3 DEF FinalizeMigration, Typed, TypeOK, WorkOK
<1>7. CASE Restart
  <2>1. WorkOK'
    BY <1>7, NoWorkOK DEF Restart, WorkOK
  <2>2. restarts' \in 0..MaxRestarts
    BY <1>7, AccountAssumption DEF Restart, Typed, TypeOK
  <2> QED
    BY <1>7, <2>1, <2>2 DEF Restart, Typed, TypeOK, WorkOK
<1> QED
  BY <1>1, <1>2, <1>3, <1>4, <1>5, <1>6, <1>7

LEMMA NextTyped == Typed /\ [Next]_vars => Typed'
<1> SUFFICES ASSUME Typed, [Next]_vars PROVE Typed'
  OBVIOUS
<1>1. CASE UNCHANGED vars
  BY <1>1 DEF vars, clients, mailbox, migration, finalization, owner, Typed, TypeOK, WorkOK
<1> QED
  BY <1>1, KeyStepTyped, AskTyped, ServeTyped, OtherTyped DEF Next

\* Whatever requests, migrations and restarts do, every handler has at each of
\* its steps the mail, the password and the account the step uses.
THEOREM AccountTypeCorrect == Spec => []TypeOK
<1>1. Typed => TypeOK
  BY DEF Typed
<1> QED
  BY <1>1, InitTyped, NextTyped, PTL DEF Spec

-----------------------------------------------------------------------------
(* The end of the migration. *)

\* What a step may do to the table of accounts.
LEMMA RowSteps ==
  ASSUME [Next]_vars
  PROVE  \/ row' = row
         \/ \E h \in Handlers : CreateUser(h) \/ UpdatePassword(h)
         \/ \E l \in letters : ConfirmEmail(l)
         \/ \E g \in moving : MigrateLegacyUser(g)
<1>1. CASE UNCHANGED vars
  BY <1>1 DEF vars
<1>2. ASSUME NEW c \in Clients, GetAuthKey(c) \/ KeyAges(c) \/ \E m \in Mails : CheckMail(c, m)
      PROVE  row' = row
  BY <1>2 DEF GetAuthKey, KeyAges, CheckMail
<1>3. ASSUME NEW h \in Handlers, Ask(h) PROVE row' = row
  BY <1>3, AskIs
<1>4. ASSUME NEW h \in Handlers, Serve(h)
      PROVE  row' = row \/ CreateUser(h) \/ UpdatePassword(h)
  BY <1>4 DEF Serve, CreateFails, UpdateFails, GetAuthData, Verify
<1>5. ASSUME NEW l \in letters, NEW c \in Clients, CheckResetPass(c, l) PROVE row' = row
  BY <1>5 DEF CheckResetPass
<1>6. ASSUME NEW m \in Mails, HandleResetPass(m) PROVE row' = row
  BY <1>6 DEF HandleResetPass
<1>7. ASSUME NEW g \in moving, MigrateFails(g) PROVE row' = row
  BY <1>7 DEF MigrateFails
<1>8. FinalizeMigration \/ Restart => row' = row
  BY DEF FinalizeMigration, Restart
<1> QED
  BY <1>1, <1>2, <1>3, <1>4, <1>5, <1>6, <1>7, <1>8 DEF Next

\* Accounts and their mails stay, and no account becomes a legacy one.
LEMMA RowsStay ==
  ASSUME Typed, [Next]_vars, NEW u \in Users
  PROVE  /\ Exists(u) => Exists(u)' /\ row'[u].mail = row[u].mail
         /\ Legacy(u)' => Legacy(u)
         /\ Exists(u) /\ row[u].hash => row'[u].hash
<1>1. CASE row' = row
  BY <1>1 DEF Exists, Legacy
<1>2. ASSUME NEW h \in Handlers, CreateUser(h)
      PROVE  /\ Exists(u) => Exists(u)' /\ row'[u].mail = row[u].mail
             /\ Legacy(u)' => Legacy(u)
             /\ Exists(u) /\ row[u].hash => row'[u].hash
  BY <1>2, CreateRow DEF Exists, Legacy
<1>3. ASSUME NEW h \in Handlers, UpdatePassword(h)
      PROVE  /\ Exists(u) => Exists(u)' /\ row'[u].mail = row[u].mail
             /\ Legacy(u)' => Legacy(u)
             /\ Exists(u) /\ row[u].hash => row'[u].hash
  BY <1>3, UpdateRow DEF Exists, Legacy, Answering
<1>4. ASSUME NEW l \in letters, ConfirmEmail(l)
      PROVE  /\ Exists(u) => Exists(u)' /\ row'[u].mail = row[u].mail
             /\ Legacy(u)' => Legacy(u)
             /\ Exists(u) /\ row[u].hash => row'[u].hash
  BY <1>4, ConfirmRow DEF Exists, Legacy
<1>5. ASSUME NEW g \in moving, MigrateLegacyUser(g)
      PROVE  /\ Exists(u) => Exists(u)' /\ row'[u].mail = row[u].mail
             /\ Legacy(u)' => Legacy(u)
             /\ Exists(u) /\ row[u].hash => row'[u].hash
  BY <1>5, MigrateRow DEF Migrates, Exists, Legacy
<1> QED
  BY <1>1, <1>2, <1>3, <1>4, <1>5, RowSteps

\* The account that loses its lack of a hash is one the migration has written, and
\* the migration then checks whether it was the last, or its answer was lost.
LEMMA LastOneChecks ==
  ASSUME Typed, [Next]_vars, NEW u \in Users, Legacy(u), ~Legacy(u)', Unmigrated' = {}
  PROVE  checking' > 0 \/ failed'
<1>1. row' # row
  BY DEF Legacy, Exists
<1>2. ASSUME NEW h \in Handlers, CreateUser(h) PROVE FALSE
  BY <1>2, CreateRow DEF Exists, Legacy
<1>3. ASSUME NEW h \in Handlers, UpdatePassword(h) PROVE FALSE
  BY <1>3, UpdateRow DEF Exists, Legacy, Answering
<1>4. ASSUME NEW l \in letters, ConfirmEmail(l) PROVE FALSE
  BY <1>4, ConfirmRow DEF Exists, Legacy
<1>5. PICK g \in moving : MigrateLegacyUser(g)
  BY <1>1, <1>2, <1>3, <1>4, RowSteps
<1>6. checking \in Nat
  BY DEF Typed, TypeOK
<1>7. CASE checking' = checking + 1
  BY <1>6, <1>7
<1>8. CASE failed' = (failed \/ Unmigrated' = {})
  BY <1>8, Zenon
<1> QED
  BY <1>1, <1>5, <1>7, <1>8, MigrateRow

\* What a step may do to the checks.
LEMMA CheckSteps ==
  ASSUME [Next]_vars
  PROVE  \/ UNCHANGED <<finalization, restarts>>
         \/ FinalizeMigration \/ Restart
         \/ \E g \in moving : MigrateLegacyUser(g)
<1>1. ASSUME NEW h \in Handlers, NEW totp \in BOOLEAN, Verify(h, totp)
      PROVE  UNCHANGED <<finalization, restarts>>
  BY <1>1 DEF Verify
<1>2. ASSUME NEW g \in moving, MigrateFails(g)
      PROVE  UNCHANGED <<finalization, restarts>>
  BY <1>2 DEF MigrateFails
<1>3. ASSUME NEW c \in Clients, GetAuthKey(c) \/ KeyAges(c) \/ \E m \in Mails : CheckMail(c, m)
      PROVE  UNCHANGED migration
  BY <1>3 DEF GetAuthKey, KeyAges, CheckMail
<1>4. ASSUME NEW h \in Handlers, Ask(h) PROVE UNCHANGED migration
  BY <1>4, AskIs
<1>5. ASSUME NEW h \in Handlers,
             CreateUser(h) \/ CreateFails(h) \/ UpdatePassword(h) \/ UpdateFails(h) \/ GetAuthData(h)
      PROVE  UNCHANGED migration
  BY <1>5 DEF CreateUser, Insert, CreateFails, UpdatePassword, UpdateFails, GetAuthData
<1>6. ASSUME NEW l \in letters, ConfirmEmail(l) \/ \E c \in Clients : CheckResetPass(c, l)
       PROVE  UNCHANGED migration
  BY <1>6 DEF ConfirmEmail, CheckResetPass
<1>7. ASSUME NEW m \in Mails, HandleResetPass(m) PROVE UNCHANGED migration
  BY <1>7 DEF HandleResetPass
<1>8. UNCHANGED vars => UNCHANGED migration
  BY DEF vars
<1>9. UNCHANGED migration => UNCHANGED <<finalization, restarts>>
  BY DEF migration
<1> QED
  BY <1>1, <1>2, <1>3, <1>4, <1>5, <1>6, <1>7, <1>8, <1>9 DEF Next, Serve

\* A check ends only in a verdict, in a failure or in a restart, and the column stays
\* NOT NULL.
LEMMA ChecksEnd ==
  ASSUME Typed, [Next]_vars, Unmigrated' = {}
  PROVE  /\ notNull => notNull'
         /\ failed => failed'
         /\ restarts > 0 => restarts' > 0
         /\ checking > 0 => checking' > 0 \/ restarts' > 0 \/ notNull' \/ failed'
<1>1. checking \in Nat /\ restarts \in Nat
  BY AccountAssumption DEF Typed, TypeOK
<1>2. CASE UNCHANGED <<finalization, restarts>>
  BY <1>2 DEF finalization
<1>3. CASE FinalizeMigration
  <2>1. row' = row /\ restarts' = restarts
    BY <1>3 DEF FinalizeMigration
  <2>2. Unmigrated = {}
    BY <2>1 DEF Unmigrated, Legacy, Exists
  <2>3. \/ notNull' = (notNull \/ Unmigrated = {}) /\ failed' = failed
        \/ ~notNull /\ failed' = (failed \/ Unmigrated = {}) /\ notNull' = notNull
    BY <1>3 DEF FinalizeMigration
  <2>4. (notNull \/ Unmigrated = {}) = TRUE /\ (failed \/ Unmigrated = {}) = TRUE
    BY <2>2
  <2>5. \/ notNull' = TRUE /\ failed' = failed
        \/ ~notNull /\ failed' = TRUE /\ notNull' = notNull
    BY <2>3, <2>4, Zenon
  <2>6. (notNull' \/ failed') /\ (notNull => notNull') /\ (failed => failed')
    <3>1. CASE notNull' = TRUE /\ failed' = failed
      BY <3>1, Zenon
    <3>2. CASE ~notNull /\ failed' = TRUE /\ notNull' = notNull
      BY <3>2, Zenon
    <3> QED
      BY <2>5, <3>1, <3>2, Zenon
  <2> QED
    BY <2>1, <2>6
<1>4. CASE Restart
  <2>1. notNull' = notNull /\ failed' = failed /\ restarts' = restarts + 1
    BY <1>4 DEF Restart
  <2> QED
    BY <1>1, <2>1
<1>5. ASSUME NEW g \in moving, MigrateLegacyUser(g)
      PROVE  UNCHANGED <<notNull, restarts>> /\ (failed => failed') /\ (checking > 0 => checking' > 0)
  <2>1. UNCHANGED <<notNull, restarts>>
    BY <1>5 DEF MigrateLegacyUser
  <2>2. failed => failed'
    BY <1>5, MigrateRow, Zenon
  <2>3. checking' = checking \/ checking' = checking + 1
    BY <1>5, MigrateRow
  <2> QED
    BY <1>1, <2>1, <2>2, <2>3
<1> QED
  BY <1>2, <1>3, <1>4, <1>5, CheckSteps

\* Whatever goroutine migrates the last account, and however the checks queue on
\* migrationMu, EmailHash is made NOT NULL or a check that will see it is under
\* way, unless the server has restarted, a check has failed after the last one or the
\* answer to that was lost.
THEOREM MigrationFinalized == Spec => []FinalizeNotForgotten
<1>1. Init => FinalizeNotForgotten
  <2>1. Init => Legacy(OldUser) /\ OldUser \in Users
    <3> DEFINE r == [mail |-> OldMail, sha |-> OldPass, hash |-> FALSE, confirmed |-> TRUE]
    <3>1. r \in Row /\ r.hash = FALSE
      BY AccountAssumption DEF Row, Words
    <3>2. Init => row[OldUser] = r
      BY AccountAssumption DEF Init
    <3> HIDE DEF r
    <3> QED
      BY <3>1, <3>2, AccountAssumption DEF Legacy, Exists
  <2> QED
    BY <2>1 DEF FinalizeNotForgotten, Unmigrated
<1>2. Typed /\ FinalizeNotForgotten /\ [Next]_vars => FinalizeNotForgotten'
  <2> SUFFICES ASSUME Typed, FinalizeNotForgotten, [Next]_vars, Unmigrated' = {}
               PROVE  notNull' \/ checking' > 0 \/ restarts' > 0 \/ failed'
    BY DEF FinalizeNotForgotten
  <2>1. CASE Unmigrated # {}
    <3>1. PICK u \in Users : Legacy(u)
      BY <2>1 DEF Unmigrated
    <3>2. ~Legacy(u)'
      BY DEF Unmigrated
    <3> QED
      BY <3>1, <3>2, LastOneChecks
  <2>2. CASE Unmigrated = {}
    BY <2>2, ChecksEnd DEF FinalizeNotForgotten
  <2> QED
    BY <2>1, <2>2
<1> QED
  BY <1>1, <1>2, InitTyped, NextTyped, PTL DEF Spec

-----------------------------------------------------------------------------
(* One account per mail. *)

\* No two accounts with a hash share a mail, nor do two without.
OneEach ==
    \A u, v \in Users :
        Exists(u) /\ Exists(v) /\ row[u].mail = row[v].mail /\ row[u].hash = row[v].hash => u = v

\* A migration, or a login that may start one, has an account and its mail.
Owned(u, m) == u \in Users /\ Exists(u) /\ row[u].mail = m
MovesOwned ==
    /\ \A h \in Handlers : work[h].pc = "verify" => Owned(work[h].user, work[h].mail)
    /\ \A g \in moving : Owned(g.user, g.mail)

MailInv == Typed /\ OneEach /\ MovesOwned

\* What a step may do to the transport keys.
LEMMA KeySteps ==
  ASSUME Typed, [Next]_vars
  PROVE  \/ regKey' = regKey /\ held' = held
         \/ \E c \in Clients : AddRegUser(c) \/ KeyAges(c)
         \/ \E c \in Clients : \E k \in held[c] : UseKey(c, k)
         \/ regKey' = [c \in Clients |-> None] /\ held' = held
<1>1. ASSUME NEW c \in Clients, GetAuthKey(c) \/ \E m \in Mails : CheckMail(c, m)
      PROVE  AddRegUser(c)
  BY <1>1 DEF GetAuthKey, CheckMail
<1>2. ASSUME NEW h \in Handlers, Ask(h)
      PROVE  \E c \in Clients : \E k \in held[c] : UseKey(c, k)
  BY <1>2, AskIs DEF Asked, Receive
<1>3. ASSUME NEW h \in Handlers, Serve(h) PROVE regKey' = regKey /\ held' = held
  BY <1>3 DEF Serve, CreateUser, Insert, CreateFails, UpdatePassword, UpdateFails, GetAuthData,
              Verify, clients
<1>4. ASSUME NEW l \in letters, ConfirmEmail(l) \/ \E c \in Clients : CheckResetPass(c, l)
      PROVE  regKey' = regKey /\ held' = held
  BY <1>4 DEF ConfirmEmail, CheckResetPass, clients
<1>5. ASSUME NEW m \in Mails, HandleResetPass(m) PROVE regKey' = regKey /\ held' = held
  BY <1>5 DEF HandleResetPass, clients
<1>6. ASSUME NEW g \in moving, MigrateLegacyUser(g) \/ MigrateFails(g)
      PROVE  regKey' = regKey /\ held' = held
  BY <1>6 DEF MigrateLegacyUser, MigrateFails, clients
<1>7. FinalizeMigration \/ UNCHANGED vars => regKey' = regKey /\ held' = held
  BY DEF FinalizeMigration, vars, clients
<1>8. Restart => regKey' = [c \in Clients |-> None] /\ held' = held
  BY DEF Restart
<1> QED
  BY <1>1, <1>2, <1>3, <1>4, <1>5, <1>6, <1>7, <1>8 DEF Next

\* What a step does to the work of handlers, in general.
LEMMA WorkSteps ==
  ASSUME Typed, [Next]_vars, NEW h \in Handlers
  PROVE  \/ work'[h] = work[h] \/ work'[h].pc = "idle" \/ Ask(h)
         \/ GetAuthData(h) /\ work'[h].pc = "verify"
<1>1. CASE work' = work
  BY <1>1
<1>2. ASSUME NEW g \in Handlers, Answer(g) PROVE work'[h] = work[h] \/ work'[h].pc = "idle"
  BY <1>2, AnswerWork DEF Typed
<1>3. ASSUME NEW g \in Handlers, Serve(g)
      PROVE  \/ work'[h] = work[h] \/ work'[h].pc = "idle"
             \/ GetAuthData(h) /\ work'[h].pc = "verify"
  <2>1. CASE GetAuthData(g)
    <3>1. CASE Answer(g)
      BY <1>2, <3>1
    <3>2. ASSUME NEW u \in Answering(work[g].mail),
                 work' = [work EXCEPT ![g] = [work[g] EXCEPT !.pc = "verify", !.user = u,
                                              !.sha = row[u].sha, !.old = ~row[u].hash]]
          PROVE  work'[h] = work[h] \/ (g = h /\ work'[h].pc = "verify")
      <4>1. work \in [Handlers -> Work] /\ work[g] \in Work
        BY DEF Typed, WorkOK
      <4>2. CASE g # h
        BY <3>2, <4>1, <4>2
      <4>3. CASE g = h
        <5>1. work'[h] = [work[g] EXCEPT !.pc = "verify", !.user = u, !.sha = row[u].sha,
                                         !.old = ~row[u].hash]
          BY <3>2, <4>1, <4>3
        <5> QED
          BY <4>1, <4>3, <5>1 DEF Work
      <4> QED
        BY <4>2, <4>3
    <3>3. \/ \E u \in Answering(work[g].mail) :
                work' = [work EXCEPT ![g] = [work[g] EXCEPT !.pc = "verify", !.user = u,
                                             !.sha = row[u].sha, !.old = ~row[u].hash]]
          \/ Answer(g)
      BY <2>1 DEF GetAuthData
    <3> QED
      BY <2>1, <3>1, <3>2, <3>3, Zenon
  <2>2. CreateUser(g) => Answer(g)
    BY DEF CreateUser, Insert
  <2>3. CASE CreateUser(g) \/ CreateFails(g) \/ UpdatePassword(g) \/ UpdateFails(g)
    BY <1>2, <2>2, <2>3 DEF CreateFails, UpdatePassword, UpdateFails
  <2>4. CASE \E totp \in BOOLEAN : Verify(g, totp)
    BY <1>2, <2>4 DEF Verify
  <2> QED
    BY <1>3, <2>1, <2>3, <2>4 DEF Serve
<1>4. ASSUME NEW g \in Handlers, Ask(g) PROVE work'[h] = work[h] \/ Ask(h)
  BY <1>4, AskWork
<1>5. CASE Restart
  BY <1>5, NoWorkOK DEF Restart
<1>6. ASSUME NEW c \in Clients, GetAuthKey(c) \/ KeyAges(c) \/ \E m \in Mails : CheckMail(c, m)
      PROVE  work' = work
  BY <1>6 DEF GetAuthKey, KeyAges, CheckMail
<1>7. ASSUME NEW l \in letters, ConfirmEmail(l) \/ \E c \in Clients : CheckResetPass(c, l)
      PROVE  work' = work
  BY <1>7 DEF ConfirmEmail, CheckResetPass
<1>8. ASSUME NEW m \in Mails, HandleResetPass(m) PROVE work' = work
  BY <1>8 DEF HandleResetPass
<1>9. ASSUME NEW g \in moving, MigrateLegacyUser(g) \/ MigrateFails(g) PROVE work' = work
  BY <1>9 DEF MigrateLegacyUser, MigrateFails
<1>10. FinalizeMigration \/ UNCHANGED vars => work' = work
  BY DEF FinalizeMigration, vars
<1> QED
  BY <1>1, <1>3, <1>4, <1>5, <1>6, <1>7, <1>8, <1>9, <1>10 DEF Next

\* A login of an account has its mail and what the table stores of it.
LEMMA ReadRow ==
  ASSUME Typed, NEW h \in Handlers, GetAuthData(h), work'[h].pc = "verify"
  PROVE  /\ row' = row /\ Owned(work'[h].user, work'[h].mail)
         /\ work'[h].sha = row[work'[h].user].sha
         /\ UNCHANGED <<moving, raced, last>>
         /\ \A g \in Handlers \ {h} : work'[g] = work[g]
<1>1. /\ work \in [Handlers -> Work] /\ work[h] \in Work /\ row' = row
      /\ UNCHANGED <<moving, raced, last>>
  BY DEF GetAuthData, Typed, WorkOK, migration, owner
<1>2. ~Answer(h)
  BY AnswerWork DEF Typed
<1>3. PICK u \in Answering(work[h].mail) :
         work' = [work EXCEPT ![h] = [work[h] EXCEPT !.pc = "verify", !.user = u,
                                      !.sha = row[u].sha, !.old = ~row[u].hash]]
  BY <1>2 DEF GetAuthData
<1>4. work'[h] = [work[h] EXCEPT !.pc = "verify", !.user = u, !.sha = row[u].sha,
                                 !.old = ~row[u].hash]
  BY <1>1, <1>3
<1>5. work'[h].user = u /\ work'[h].mail = work[h].mail /\ work'[h].sha = row[u].sha
  BY <1>1, <1>4 DEF Work
<1>6. \A g \in Handlers \ {h} : work'[g] = work[g]
  BY <1>1, <1>3
<1> QED
  BY <1>1, <1>5, <1>6 DEF Owned, Answering

\* A migration starts from a login whose password was the one read.
LEMMA MovingSteps ==
  ASSUME [Next]_vars, NEW g \in moving'
  PROVE  \/ g \in moving
         \/ \E h \in Handlers :
              /\ work[h].pc = "verify"
              /\ g.user = work[h].user /\ g.mail = work[h].mail /\ g.pass = work[h].sha
<1>1. ASSUME NEW h \in Handlers, NEW totp \in BOOLEAN, Verify(h, totp)
      PROVE  \/ g \in moving
             \/ /\ work[h].pc = "verify"
                /\ g.user = work[h].user /\ g.mail = work[h].mail /\ g.pass = work[h].sha
  BY <1>1 DEF Verify
<1>2. ASSUME NEW f \in moving, MigrateLegacyUser(f) \/ MigrateFails(f) PROVE g \in moving
  BY <1>2 DEF MigrateLegacyUser, MigrateFails
<1>3. Restart => FALSE
  BY DEF Restart
<1>4. FinalizeMigration => moving' = moving
  BY DEF FinalizeMigration
<1>5. ASSUME NEW c \in Clients, GetAuthKey(c) \/ KeyAges(c) \/ \E m \in Mails : CheckMail(c, m)
      PROVE  moving' = moving
  BY <1>5 DEF GetAuthKey, KeyAges, CheckMail, migration
<1>6. ASSUME NEW h \in Handlers, Ask(h) PROVE moving' = moving
  BY <1>6, AskIs DEF migration
<1>7. ASSUME NEW h \in Handlers,
             CreateUser(h) \/ CreateFails(h) \/ UpdatePassword(h) \/ UpdateFails(h) \/ GetAuthData(h)
      PROVE  moving' = moving
  BY <1>7 DEF CreateUser, Insert, CreateFails, UpdatePassword, UpdateFails, GetAuthData, migration
<1>8. ASSUME NEW l \in letters, ConfirmEmail(l) \/ \E c \in Clients : CheckResetPass(c, l)
      PROVE  moving' = moving
  BY <1>8 DEF ConfirmEmail, CheckResetPass, migration
<1>9. ASSUME NEW m \in Mails, HandleResetPass(m) PROVE moving' = moving
  BY <1>9 DEF HandleResetPass, migration
<1>10. UNCHANGED vars => moving' = moving
  BY DEF vars, migration
<1> QED
  BY <1>1, <1>2, <1>3, <1>4, <1>5, <1>6, <1>7, <1>8, <1>9, <1>10 DEF Next, Serve

LEMMA OwnedStays ==
  ASSUME Typed, [Next]_vars, NEW u, NEW m, Owned(u, m)
  PROVE  Owned(u, m)'
BY RowsStay DEF Owned

LEMMA MovesOwnedStep == MailInv /\ [Next]_vars => MovesOwned'
<1> SUFFICES ASSUME MailInv, [Next]_vars PROVE MovesOwned'
  OBVIOUS
<1>1. ASSUME NEW u, NEW m, Owned(u, m) PROVE u \in Users /\ Exists(u)' /\ row'[u].mail = m
  BY <1>1, OwnedStays DEF MailInv, Owned, Exists
<1>2. ASSUME NEW h \in Handlers, work'[h].pc = "verify"
      PROVE  Owned(work'[h].user, work'[h].mail)
  <2>1. CASE work'[h] = work[h]
    BY <1>2, <2>1 DEF MailInv, MovesOwned
  <2>2. CASE GetAuthData(h)
    BY <1>2, <2>2, ReadRow DEF MailInv
  <2>3. CASE Ask(h) /\ work'[h] # work[h]
    BY <1>2, <2>3, AskWork DEF MailInv
  <2> QED
    BY <1>2, <2>1, <2>2, <2>3, WorkSteps DEF MailInv
<1>3. ASSUME NEW g \in moving' PROVE Owned(g.user, g.mail)
  BY MovingSteps DEF MailInv, MovesOwned
<1> QED
  BY <1>1, <1>2, <1>3 DEF MovesOwned, Owned, Exists

\* An account gets its hash only where no other that answers to its mail has one.
LEMMA NewHash ==
  ASSUME MailInv, [Next]_vars, NEW u \in Users, Exists(u)', row'[u].hash,
         Exists(u) => ~row[u].hash
  PROVE  /\ \A v \in Users : Exists(v) /\ row[v].mail = row'[u].mail => ~row[v].hash
         /\ \A v \in Users \ {u} : row'[v] = row[v]
<1>1. row' # row
  BY DEF Exists
<1>2. ASSUME NEW h \in Handlers, UpdatePassword(h) PROVE FALSE
  BY <1>2, UpdateRow DEF Exists, Answering, MailInv
<1>3. ASSUME NEW l \in letters, ConfirmEmail(l) PROVE FALSE
  BY <1>3, ConfirmRow DEF Exists, MailInv
<1>4. ASSUME NEW g \in moving, MigrateLegacyUser(g)
      PROVE  /\ \A v \in Users : Exists(v) /\ row[v].mail = row'[u].mail => ~row[v].hash
             /\ \A v \in Users \ {u} : row'[v] = row[v]
  <2>1. /\ Migrates(g) /\ row'[g.user].mail = row[g.user].mail
        /\ \A v \in Users \ {g.user} : row'[v] = row[v]
    BY <1>1, <1>4, MigrateRow DEF MailInv
  <2>2. u = g.user
    BY <2>1 DEF Exists
  <2>3. row'[u].mail = g.mail
    BY <2>1, <2>2 DEF MailInv, MovesOwned, Owned
  <2> QED
    BY <2>1, <2>2, <2>3 DEF Migrates, Answering, Legacy
<1>5. ASSUME NEW h \in Handlers, CreateUser(h)
      PROVE  /\ \A v \in Users : Exists(v) /\ row[v].mail = row'[u].mail => ~row[v].hash
             /\ \A v \in Users \ {u} : row'[v] = row[v]
  <2>1. PICK x \in Users :
           /\ \A v \in Answering(work[h].mail) : Legacy(v)
           /\ row'[x].mail = work[h].mail
           /\ \A v \in Users \ {x} : row'[v] = row[v]
    BY <1>5, CreateRow DEF MailInv
  <2>2. x = u
    BY <2>1 DEF Exists
  <2> QED
    BY <2>1, <2>2 DEF Answering, Legacy
<1> QED
  BY <1>1, <1>2, <1>3, <1>4, <1>5, RowSteps

LEMMA OneEachStep == MailInv /\ [Next]_vars => OneEach'
<1> SUFFICES ASSUME MailInv, [Next]_vars, NEW u \in Users, NEW v \in Users,
                    Exists(u)', Exists(v)', row'[u].mail = row'[v].mail, row'[u].hash = row'[v].hash
             PROVE  u = v
  BY DEF OneEach
<1>1. ASSUME NEW x \in Users, NEW y \in Users, Exists(x)', Exists(y)',
             row'[x].mail = row'[y].mail, row'[x].hash, row'[y].hash,
             Exists(x) => ~row[x].hash
      PROVE  x = y
  <2> SUFFICES ASSUME x # y PROVE FALSE
    OBVIOUS
  <2>1. /\ \A w \in Users : Exists(w) /\ row[w].mail = row'[x].mail => ~row[w].hash
        /\ \A w \in Users \ {x} : row'[w] = row[w]
    BY <1>1, NewHash
  <2> QED
    BY <1>1, <2>1 DEF Exists
<1>2. \A w \in Users : Exists(w)' => row'[w].hash \in BOOLEAN
  BY NextTyped DEF MailInv, Typed, TypeOK, Row, Exists
<1>3. \A w \in Users : Exists(w) => row[w].hash \in BOOLEAN
  BY DEF MailInv, Typed, TypeOK, Row, Exists
<1>4. ASSUME NEW w \in Users, Exists(w)', ~row'[w].hash
      PROVE  Exists(w) /\ row[w].mail = row'[w].mail /\ ~row[w].hash
  BY <1>4, RowsStay DEF MailInv, Legacy
<1>5. CASE row'[u].hash
  <2>1. row'[v].hash
    BY <1>5
  <2>2. CASE Exists(u) /\ row[u].hash /\ Exists(v) /\ row[v].hash
    <3>1. row[u].mail = row[v].mail
      BY <2>2, RowsStay DEF MailInv
    <3>2. row[u].hash = row[v].hash
      BY <1>3, <2>2
    <3> QED
      BY <2>2, <3>1, <3>2 DEF MailInv, OneEach
  <2>3. CASE Exists(u) => ~row[u].hash
    BY <1>1, <1>5, <2>1, <2>3
  <2>4. CASE Exists(v) => ~row[v].hash
    BY <1>1, <1>5, <2>1, <2>4
  <2> QED
    BY <2>2, <2>3, <2>4
<1>6. CASE ~row'[u].hash
  <2>1. /\ Exists(u) /\ row[u].mail = row'[u].mail /\ ~row[u].hash
        /\ Exists(v) /\ row[v].mail = row'[v].mail /\ ~row[v].hash
    BY <1>4, <1>6
  <2>2. row[u].hash = row[v].hash
    BY <1>3, <2>1
  <2> QED
    BY <2>1, <2>2 DEF MailInv, OneEach
<1> QED
  BY <1>5, <1>6

LEMMA MailStep == MailInv /\ [Next]_vars => MailInv'
BY NextTyped, MovesOwnedStep, OneEachStep DEF MailInv

LEMMA InitMail == Init => MailInv
<1> SUFFICES ASSUME Init PROVE OneEach /\ MovesOwned
  BY InitTyped DEF MailInv
<1>1. \A u \in Users : Exists(u) => u = OldUser
  BY DEF Init, Exists
<1>2. \A h \in Handlers : work[h].pc = "idle"
  BY NoWorkOK DEF Init
<1> QED
  BY <1>1, <1>2 DEF OneEach, MovesOwned, Init

LEMMA FewerThanTwo ==
  ASSUME NEW S, \A x, y \in S : x = y
  PROVE  Cardinality(S) <= 1
<1>1. CASE S = {}
  BY <1>1, FS_EmptySet
<1>2. ASSUME NEW x \in S PROVE Cardinality(S) <= 1
  <2>1. S = {x}
    OBVIOUS
  <2>2. Cardinality({x}) = 1
    BY FS_Singleton
  <2> QED
    BY <2>1, <2>2
<1> QED
  BY <1>1, <1>2

LEMMA MailsAreOne == MailInv => OneAccountPerMail
<1> SUFFICES ASSUME MailInv, NEW m \in Mails
             PROVE  /\ Cardinality(Answering(m) \ Unmigrated) <= 1
                    /\ Cardinality(Answering(m) \cap Unmigrated) <= 1
  BY DEF OneAccountPerMail
<1>1. \A u \in Answering(m) : u \in Users /\ Exists(u) /\ row[u].mail = m /\ row[u].hash \in BOOLEAN
  BY DEF Answering, Exists, MailInv, Typed, TypeOK, Row
<1>2. \A u \in Answering(m) \ Unmigrated : row[u].hash = TRUE
  BY <1>1 DEF Unmigrated, Legacy
<1>3. \A u \in Answering(m) \cap Unmigrated : row[u].hash = FALSE
  BY <1>1 DEF Unmigrated, Legacy
<1>4. \A u, v \in Answering(m) \ Unmigrated : u = v
  BY <1>1, <1>2 DEF MailInv, OneEach
<1>5. \A u, v \in Answering(m) \cap Unmigrated : u = v
  BY <1>1, <1>3 DEF MailInv, OneEach
<1> QED
  BY <1>4, <1>5, FewerThanTwo

\* However registrations of one mail race past CheckMail, or are sent with a key got
\* for another mail, and whatever the migration writes beside them: the unique key
\* lets one account with a hash answer to a mail.
THEOREM OneMailOneAccount == Spec => []OneAccountPerMail
BY InitMail, MailStep, MailsAreOne, PTL DEF Spec

-----------------------------------------------------------------------------
(* The stored password. *)

\* The key a tab holds is the one the server has of the client, if it has any.
KeysMatch ==
    \A c \in Clients :
        /\ IsFiniteSet(held[c])
        /\ regKey[c] # None => \A k \in held[c] : k = regKey[c].key

\* So what is about to be written is what was typed.
TypedIsSent ==
    \A h \in Handlers : work[h].pc \in {"create", "update"} => work[h].pass = work[h].typed

\* A migration, or a login that may start one, has the password that is stored for
\* as long as the account is not migrated, unless a reset came in between.
Stored(u, p) == Legacy(u) /\ u \notin raced => row[u].sha = p
MovesNothing ==
    /\ \A h \in Handlers : work[h].pc = "verify" => Stored(work[h].user, work[h].sha)
    /\ \A g \in moving : Stored(g.user, g.pass)

PassInv == MailInv /\ OneTab /\ KeysMatch /\ TypedIsSent /\ MovesNothing /\ PasswordIsLatest

LEMMA AtMostOne ==
  ASSUME NEW S, IsFiniteSet(S), Cardinality(S) <= 1, NEW x \in S, NEW y \in S
  PROVE  x = y
<1>1. Cardinality(S) \in Nat
  BY FS_CardinalityType
<1>2. Cardinality(S) # 0
  BY FS_EmptySet
<1>3. \E z : S = {z}
  BY <1>1, <1>2, FS_Singleton
<1> QED
  BY <1>3

LEMMA KeysMatchStep ==
  ASSUME Typed, KeysMatch, [Next]_vars, OneTab' PROVE KeysMatch'
<1> SUFFICES ASSUME NEW c \in Clients
             PROVE  /\ IsFiniteSet(held'[c])
                    /\ regKey'[c] # None => \A k \in held'[c] : k = regKey'[c].key
  BY DEF KeysMatch
<1>1. /\ IsFiniteSet(held[c])
      /\ regKey[c] # None => \A k \in held[c] : k = regKey[c].key
  BY DEF KeysMatch
<1>2. CASE regKey' = regKey /\ held' = held
  BY <1>1, <1>2
<1>3. ASSUME NEW d \in Clients, AddRegUser(d)
      PROVE  /\ IsFiniteSet(held'[c])
             /\ regKey'[c] # None => \A k \in held'[c] : k = regKey'[c].key
  <2>1. CASE c # d
    BY <1>1, <1>3, <2>1 DEF AddRegUser, Typed, TypeOK
  <2>2. CASE c = d
    <3>1. held'[c] = held[c] \cup {made'} /\ regKey'[c].key = made'
      BY <1>3, <2>2 DEF AddRegUser, Typed, TypeOK
    <3>2. IsFiniteSet(held'[c])
      <4>1. PICK x : x = made'
        OBVIOUS
      <4> QED
        BY <1>1, <3>1, <4>1, FS_AddElement
    <3>3. Cardinality(held'[c]) <= 1
      BY DEF OneTab
    <3>4. made' \in held'[c]
      BY <3>1
    <3>5. \A k \in held'[c] : k = made'
      BY <3>2, <3>3, <3>4, AtMostOne
    <3> QED
      BY <3>1, <3>2, <3>5
  <2> QED
    BY <2>1, <2>2
<1>4. ASSUME NEW d \in Clients, KeyAges(d)
      PROVE  /\ IsFiniteSet(held'[c])
             /\ regKey'[c] # None => \A k \in held'[c] : k = regKey'[c].key
  <2>1. held' = held /\ regKey[d] # None
    BY <1>4 DEF KeyAges
  <2>2. c # d => regKey'[c] = regKey[c]
    BY <1>4 DEF KeyAges, Typed, TypeOK
  <2>3. c = d => regKey'[c].key = regKey[c].key
    <3>1. regKey[d] \in [key : Key, old : BOOLEAN]
      BY <2>1 DEF Typed, TypeOK
    <3>2. regKey'[d] = [regKey[d] EXCEPT !.old = TRUE]
      BY <1>4 DEF KeyAges, Typed, TypeOK
    <3> QED
      BY <3>1, <3>2
  <2> QED
    BY <1>1, <2>1, <2>2, <2>3
<1>5. ASSUME NEW d \in Clients, NEW j \in held[d], UseKey(d, j)
      PROVE  /\ IsFiniteSet(held'[c])
             /\ regKey'[c] # None => \A k \in held'[c] : k = regKey'[c].key
  <2>1. held'[c] = held[c] \/ held'[c] = held[c] \ {j}
    BY <1>5 DEF UseKey, Typed, TypeOK
  <2>2. IsFiniteSet(held'[c])
    BY <1>1, <2>1, FS_RemoveElement
  <2>3. regKey'[c] = None \/ regKey'[c] = regKey[c]
    BY <1>5 DEF UseKey, Typed, TypeOK
  <2> QED
    BY <1>1, <2>1, <2>2, <2>3
<1>6. CASE regKey' = [d \in Clients |-> None] /\ held' = held
  BY <1>1, <1>6
<1> QED
  BY <1>2, <1>3, <1>4, <1>5, <1>6, KeySteps

\* A password decrypts to what was typed.
LEMMA SentStep ==
  ASSUME Typed, KeysMatch, TypedIsSent, [Next]_vars PROVE TypedIsSent'
<1> SUFFICES ASSUME NEW h \in Handlers, work'[h].pc \in {"create", "update"}
             PROVE  work'[h].pass = work'[h].typed
  BY DEF TypedIsSent
<1>1. CASE work'[h] = work[h]
  BY <1>1 DEF TypedIsSent
<1>2. ASSUME Ask(h), work'[h] # work[h] PROVE work'[h].pass = work'[h].typed
  <2>1. \E c \in Clients : \E k \in held[c], p \in Passwords :
           Decrypts(c) /\ work'[h].typed = p /\ work'[h].pass = Decrypted(c, k, p)
    BY <1>2, AskWork
  <2>2. ASSUME NEW c \in Clients, NEW k \in held[c], Decrypts(c)
        PROVE  k = regKey[c].key
    BY <2>2 DEF Decrypts, KeysMatch
  <2> QED
    BY <2>1, <2>2 DEF Decrypted
<1> QED
  BY <1>1, <1>2, WorkSteps

\* What the owners know of, and what resets got in the way of.
LEMMA OwnerSteps ==
  ASSUME [Next]_vars
  PROVE  \/ UNCHANGED owner
         \/ \E h \in Handlers : CreateUser(h) \/ UpdatePassword(h) \/ UpdateFails(h)
<1>1. ASSUME NEW c \in Clients, GetAuthKey(c) \/ KeyAges(c) \/ \E m \in Mails : CheckMail(c, m)
      PROVE  UNCHANGED owner
  BY <1>1 DEF GetAuthKey, KeyAges, CheckMail
<1>2. ASSUME NEW h \in Handlers, Ask(h) PROVE UNCHANGED owner
  BY <1>2, AskIs
<1>3. ASSUME NEW h \in Handlers, Serve(h)
      PROVE  UNCHANGED owner \/ CreateUser(h) \/ UpdatePassword(h) \/ UpdateFails(h)
  BY <1>3 DEF Serve, CreateFails, GetAuthData, Verify
<1>4. ASSUME NEW l \in letters, ConfirmEmail(l) \/ \E c \in Clients : CheckResetPass(c, l)
      PROVE  UNCHANGED owner
  BY <1>4 DEF ConfirmEmail, CheckResetPass
<1>5. ASSUME NEW m \in Mails, HandleResetPass(m) PROVE UNCHANGED owner
  BY <1>5 DEF HandleResetPass
<1>6. ASSUME NEW g \in moving, MigrateLegacyUser(g) \/ MigrateFails(g) PROVE UNCHANGED owner
  BY <1>6 DEF MigrateLegacyUser, MigrateFails
<1>7. FinalizeMigration \/ Restart \/ UNCHANGED vars => UNCHANGED owner
  BY DEF FinalizeMigration, Restart, vars
<1> QED
  BY <1>1, <1>2, <1>3, <1>4, <1>5, <1>6, <1>7 DEF Next

LEMMA RacedStays == ASSUME [Next]_vars PROVE raced \subseteq raced'
<1>1. ASSUME NEW h \in Handlers, CreateUser(h) \/ UpdatePassword(h) \/ UpdateFails(h)
      PROVE  raced \subseteq raced'
  BY <1>1 DEF CreateUser, Insert, UpdatePassword, UpdateFails
<1> QED
  BY <1>1, OwnerSteps DEF owner

\* Only a reset changes what a legacy account stores; the login or the migration
\* that read the account sees it noted.
LEMMA StoredStays ==
  ASSUME Typed, [Next]_vars, NEW u \in Users, NEW p, Stored(u, p), Reading(u)
  PROVE  Stored(u, p)'
<1> SUFFICES ASSUME Legacy(u)', u \notin raced' PROVE row'[u].sha = p
  BY DEF Stored
<1>1. Legacy(u) /\ Exists(u) /\ u \notin raced /\ row[u].sha = p
  BY RowsStay, RacedStays DEF Stored, Legacy
<1>2. CASE row' = row
  BY <1>1, <1>2
<1>3. ASSUME NEW h \in Handlers, CreateUser(h) PROVE row'[u].sha = row[u].sha
  BY <1>1, <1>3, CreateRow
<1>4. ASSUME NEW h \in Handlers, UpdatePassword(h) PROVE row'[u].sha = row[u].sha
  <2>1. u \notin Answering(work[h].mail)
    BY <1>1, <1>4 DEF UpdatePassword
  <2> QED
    BY <1>4, <2>1, UpdateRow
<1>5. ASSUME NEW l \in letters, ConfirmEmail(l) PROVE row'[u].sha = row[u].sha
  BY <1>1, <1>5, ConfirmRow
<1>6. ASSUME NEW g \in moving, MigrateLegacyUser(g) PROVE row'[u].sha = row[u].sha
  <2>1. row' = row \/ (row'[g.user].hash /\ \A v \in Users \ {g.user} : row'[v] = row[v])
    BY <1>6, MigrateRow
  <2>2. ~row'[u].hash
    BY DEF Legacy
  <2> QED
    BY <2>1, <2>2
<1> QED
  BY <1>1, <1>2, <1>3, <1>4, <1>5, <1>6, RowSteps

LEMMA MovesStep ==
  ASSUME MailInv, MovesNothing, [Next]_vars PROVE MovesNothing'
<1> DEFINE Kept(u, p) == row'[u] # None /\ ~row'[u].hash /\ u \notin raced' => row'[u].sha = p
<1>1. ASSUME NEW u \in Users, NEW p, Stored(u, p), Reading(u)
      PROVE  Kept(u, p)
  BY <1>1, StoredStays DEF MailInv, Stored, Legacy, Exists
<1>2. ASSUME NEW h \in Handlers, work[h].pc = "verify"
      PROVE  work[h].user \in Users /\ Stored(work[h].user, work[h].sha) /\ Reading(work[h].user)
  BY <1>2 DEF MovesNothing, MailInv, MovesOwned, Owned, Reading
<1>3. ASSUME NEW h \in Handlers, work'[h].pc = "verify"
      PROVE  Kept(work'[h].user, work'[h].sha)
  <2>1. CASE work'[h] = work[h]
    <3>1. work[h].pc = "verify"
      BY <1>3, <2>1
    <3>2. Kept(work[h].user, work[h].sha)
      BY <1>1, <1>2, <3>1
    <3> QED
      BY <2>1, <3>2
  <2>2. CASE GetAuthData(h)
    BY <1>3, <2>2, ReadRow DEF MailInv
  <2>3. CASE Ask(h) /\ work'[h] # work[h]
    BY <1>3, <2>3, AskWork DEF MailInv
  <2> QED
    BY <1>3, <2>1, <2>2, <2>3, WorkSteps DEF MailInv
<1>4. ASSUME NEW g \in moving'
      PROVE  Kept(g.user, g.pass)
  <2>1. g.user \in Users /\ Stored(g.user, g.pass) /\ Reading(g.user)
    BY <1>2, MovingSteps DEF MovesNothing, MailInv, MovesOwned, Owned, Reading
  <2> QED
    BY <1>1, <2>1
<1> QED
  BY <1>3, <1>4 DEF MovesNothing, Stored, Legacy, Exists

LEMMA LatestStep ==
  ASSUME PassInv, [Next]_vars PROVE PasswordIsLatest'
<1> SUFFICES ASSUME NEW u \in Users, u \notin raced', Exists(u)' PROVE row'[u].sha \in last'[u]
  BY DEF PasswordIsLatest
<1>1. Typed /\ u \notin raced /\ (Exists(u) => row[u].sha \in last[u])
  BY RacedStays DEF PassInv, MailInv, PasswordIsLatest
<1>2. ASSUME NEW h \in Handlers, CreateUser(h) PROVE row'[u].sha \in last'[u]
  <2>1. work[h].pass = work[h].typed
    BY <1>2 DEF CreateUser, PassInv, TypedIsSent
  <2>2. PICK v \in Users :
           /\ row'[v].sha = work[h].pass /\ last'[v] = {work[h].typed}
           /\ \A w \in Users \ {v} : row'[w] = row[w] /\ last'[w] = last[w]
    BY <1>1, <1>2, CreateRow
  <2>3. u # v => Exists(u)
    BY <2>2 DEF Exists
  <2> QED
    BY <1>1, <2>1, <2>2, <2>3
<1>3. ASSUME NEW h \in Handlers, UpdatePassword(h) PROVE row'[u].sha \in last'[u]
  <2>1. work[h].pass = work[h].typed
    BY <1>3 DEF UpdatePassword, PassInv, TypedIsSent
  <2>2. u \in Answering(work[h].mail) => work[h].typed \in last'[u]
    BY <1>3 DEF UpdatePassword, Told
  <2>3. u \notin Answering(work[h].mail) => last'[u] = last[u] /\ row'[u] = row[u]
    BY <1>1, <1>3, UpdateRow DEF UpdatePassword, Told
  <2> QED
    BY <1>1, <1>3, <2>1, <2>2, <2>3, UpdateRow DEF Exists
<1>4. ASSUME NEW h \in Handlers, UpdateFails(h) PROVE row'[u].sha \in last'[u]
  <2>1. row' = row /\ last[u] \subseteq last'[u]
    BY <1>4 DEF UpdateFails, Told
  <2> QED
    BY <1>1, <2>1 DEF Exists
<1>5. CASE UNCHANGED owner /\ row' = row
  BY <1>1, <1>5 DEF Exists, owner
<1>6. ASSUME NEW l \in letters, ConfirmEmail(l) PROVE row'[u].sha \in last'[u]
  <2>1. last' = last
    BY <1>6 DEF ConfirmEmail, owner
  <2>2. Exists(u) /\ row'[u].sha = row[u].sha
    BY <1>1, <1>6, ConfirmRow DEF Exists
  <2> QED
    BY <1>1, <2>1, <2>2
<1>7. ASSUME NEW g \in moving, MigrateLegacyUser(g) PROVE row'[u].sha \in last'[u]
  <2>1. last' = last
    BY <1>7 DEF MigrateLegacyUser, owner
  <2>2. Stored(g.user, g.pass)
    BY DEF PassInv, MovesNothing
  <2>3. Exists(u) /\ row'[u].sha = row[u].sha
    BY <1>1, <1>7, <2>2, MigrateRow DEF Stored, Migrates, Exists, Legacy
  <2> QED
    BY <1>1, <2>1, <2>3
<1>8. \/ UNCHANGED owner /\ row' = row
      \/ \E h \in Handlers : CreateUser(h) \/ UpdatePassword(h) \/ UpdateFails(h)
      \/ \E l \in letters : ConfirmEmail(l)
      \/ \E g \in moving : MigrateLegacyUser(g)
  BY OwnerSteps, RowSteps
<1> QED
  BY <1>2, <1>3, <1>4, <1>5, <1>6, <1>7, <1>8

\* In browsers with one tab, whatever resets end with an error after their write or
\* before it, for whichever mail they were sent, and whatever the lazy migration
\* writes and whenever it does: the table has the last password acknowledged or one
\* sent since, except where a reset ran into the login that migrates its account.
THEOREM PasswordKept == OneTabSpec => []PasswordIsLatest
<1>1. Init => PassInv
  <2> SUFFICES ASSUME Init PROVE PassInv
    OBVIOUS
  <2>1. \A h \in Handlers : work[h].pc = "idle"
    BY NoWorkOK DEF Init
  <2>2. \A c \in Clients : held[c] = {} /\ regKey[c] = None
    BY DEF Init
  <2>3. OneTab /\ KeysMatch
    BY <2>2, FS_EmptySet DEF OneTab, KeysMatch
  <2>4. TypedIsSent /\ MovesNothing
    BY <2>1 DEF Init, TypedIsSent, MovesNothing
  <2>5. PasswordIsLatest
    BY AccountAssumption DEF Init, PasswordIsLatest, Exists
  <2> QED
    BY <2>3, <2>4, <2>5, InitMail DEF PassInv
<1>2. PassInv /\ [Next /\ OneTab']_vars => PassInv'
  <2> SUFFICES ASSUME PassInv, [Next /\ OneTab']_vars PROVE PassInv'
    OBVIOUS
  <2>1. [Next]_vars
    OBVIOUS
  <2>2. OneTab'
    BY DEF PassInv, vars, clients, OneTab
  <2>3. MailInv /\ Typed /\ KeysMatch /\ TypedIsSent /\ MovesNothing
    BY DEF PassInv, MailInv
  <2> QED
    BY <2>1, <2>2, <2>3, MailStep, KeysMatchStep, SentStep, MovesStep, LatestStep DEF PassInv
<1>3. PassInv => PasswordIsLatest
  BY DEF PassInv
<1> QED
  BY <1>1, <1>2, <1>3, PTL DEF OneTabSpec
=============================================================================
