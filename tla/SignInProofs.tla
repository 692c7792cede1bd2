----------------------------- MODULE SignInProofs -----------------------------
(***************************************************************************)
(* Proofs about SignIn, for any number of handlers, secrets, tokens,       *)
(* waiting logins, requests and restarts: type correctness, that a login   *)
(* that waits for its code is a one-time ticket (Tickets), that the second *)
(* factor is one the user can use, and that parallel refreshes leave the   *)
(* browser with a cookie that will be accepted.                            *)
(***************************************************************************)
EXTENDS MCSignIn, TLAPS

USE SignInAssumption DEF Token, LoginId, Codes, dates

-----------------------------------------------------------------------------
(* The inductive invariant. *)

\* What a handler has in hand: a token it will hand out has been issued, and one
\* it takes from the browser too; a secret it has confirmed was typed by the user.
HandlerOK(w, is, be, pr) ==
    /\ w.pc \in {"rotate", "extend", "answer"} => w.new \in 1..is
    /\ w.pc \in {"rotate", "logout"} => w.tok \in 1..is
    /\ w.tok \in 0..is
    /\ w.pc = "auth" => w.login \in 1..be
    /\ w.pc = "confirm" => w.sec \in Secrets /\ (w.code = w.sec => w.sec \in pr)

HandlersOK == \A h \in Handlers : HandlerOK(work[h], issued, begun, proved)

Typed == TypeOK /\ HandlersOK

\* A login is in one place only: it has not begun, it waits, one handler has it, or
\* it was answered.
Checks(h, l) == work[h].pc = "auth" /\ work[h].login = l
OnePlace ==
    /\ \A l \in LoginId : l > begun => waiting[l] = "none"
    /\ \A l \in LoginId :
         l > begun \/ waiting[l] # "none" \/ (\E h \in Handlers : Checks(h, l)) => entered[l] = 0
    /\ \A h \in Handlers, l \in LoginId : Checks(h, l) => waiting[l] = "none"
    /\ \A g, h \in Handlers, l \in LoginId : Checks(g, l) /\ Checks(h, l) => g = h

LoginInv == Typed /\ OnePlace

-----------------------------------------------------------------------------
(* Type correctness. *)

\* What the work of a handler is made of.
LEMMA NoWorkOK ==
  /\ NoWork \in Work
  /\ \A pr : \A is, be \in Nat : HandlerOK(NoWork, is, be, pr)
BY DEF NoWork, Handing, Work, HandlerOK

LEMMA InitTyped == Init => Typed
<1> SUFFICES ASSUME Init PROVE Typed
  OBVIOUS
<1>1. HandlerOK(NoWork, 0, 0, proved) /\ NoWork \in Work
  BY NoWorkOK DEF Init
<1>2. work \in [Handlers -> Work] /\ HandlersOK
  BY <1>1 DEF Init, HandlersOK
<1>3. mk \in BOOLEAN /\ cut \in BOOLEAN
  BY Zenon DEF Init
<1>4. secret \in Secrets \cup {None} /\ proved \subseteq Secrets
  BY DEF Init
<1> QED
  BY <1>2, <1>3, <1>4 DEF Init, Typed, TypeOK

\* What handlers have in hand stays good while tokens, logins and proofs only grow.
Grows ==
    /\ issued' \in {issued, issued + 1} /\ begun' \in {begun, begun + 1}
    /\ proved \subseteq proved'

\* Replacing the work of one handler by one that has what its step uses.
LEMMA WorkMoves ==
  ASSUME Typed, Grows, NEW h \in Handlers, NEW w \in Work, Begin(h, w),
         HandlerOK(w, issued', begun', proved')
  PROVE  work' \in [Handlers -> Work] /\ HandlersOK'
<1>1. work \in [Handlers -> Work] /\ issued \in Nat /\ begun \in Nat
  BY DEF Typed, TypeOK, Work
<1>2. \A g \in Handlers : HandlerOK(work[g], issued', begun', proved')
  BY <1>1 DEF Typed, HandlersOK, HandlerOK, Grows
<1> QED
  BY <1>1, <1>2 DEF Begin, HandlersOK

\* A handler may always answer.
LEMMA AnswerMoves ==
  ASSUME Typed, Grows, NEW h \in Handlers, Answer(h)
  PROVE  work' \in [Handlers -> Work] /\ HandlersOK'
<1>1. NoWork \in Work /\ HandlerOK(NoWork, issued', begun', proved')
  BY NoWorkOK DEF Typed, TypeOK, Grows
<1> QED
  BY <1>1, WorkMoves DEF Answer, Begin

\* No handler moves.
LEMMA WorkStays ==
  ASSUME Typed, Grows, UNCHANGED work
  PROVE  work' \in [Handlers -> Work] /\ HandlersOK'
BY DEF Typed, TypeOK, Work, HandlersOK, HandlerOK, Grows

\* The token a login or a refresh is given.
LEMMA TokenGiven ==
  ASSUME Typed, NEW t, NEW n \in Token, GenerateAccessToken(t, n)
  PROVE  /\ issued' \in {issued, issued + 1} /\ issued' \in 0..MaxTokens /\ issued <= issued'
         /\ n \in 1..issued' /\ recent' \subseteq 1..issued' /\ again' \subseteq 1..issued'
         /\ again \subseteq again'
         /\ (n = issued + 1 /\ issued' = n) \/ (n \in again' /\ issued' = issued)
<1>1. issued \in 0..MaxTokens /\ recent \subseteq 1..issued /\ again \subseteq 1..issued
  BY DEF Typed, TypeOK
<1>2. CASE /\ n = issued + 1 /\ n <= MaxTokens
           /\ issued' = n /\ recent' = recent \cup {n} /\ UNCHANGED again
  BY <1>1, <1>2
<1>3. CASE n \in recent /\ again' = again \cup {n} /\ UNCHANGED <<issued, recent>>
  BY <1>1, <1>3
<1> QED
  BY <1>2, <1>3 DEF GenerateAccessToken

\* A new request goes to one handler, with what its first step uses.
LEMMA ConfirmTyped ==
  ASSUME Typed, NEW h \in Handlers, NEW c \in Codes, TOTPConfirm(h, c)
  PROVE  Typed'
<1> DEFINE w == Checking("confirm", c, setup.secret, 0)
<1>1. Grows /\ setup.secret \in Secrets
  BY DEF TOTPConfirm, Grows, Typed, TypeOK, logins, tokens
<1>2. w \in Work
  BY <1>1 DEF Handing, Checking, Work
<1>3. HandlerOK(w, issued', begun', proved')
  BY <1>1 DEF Handing, Checking, TOTPConfirm, HandlerOK, Typed, TypeOK, logins, tokens
<1>4. Begin(h, w) \/ UNCHANGED work
  BY DEF TOTPConfirm
<1> HIDE DEF w
<1>5. work' \in [Handlers -> Work] /\ HandlersOK'
  BY <1>1, <1>2, <1>3, <1>4, WorkMoves, WorkStays
<1> QED
  BY <1>1, <1>5 DEF TOTPConfirm, Typed, TypeOK, Arrives, logins, tokens

\* The tokens a step of the login leaves.
DatesOK ==
    /\ issued' \in 0..MaxTokens /\ issued <= issued'
    /\ recent' \subseteq 1..issued' /\ again' \subseteq 1..issued'

LEMMA LoginTyped ==
  ASSUME Typed, NEW h \in Handlers, Login(h)
  PROVE  Typed'
<1> DEFINE w(n) == Handing("answer", 0, n)
<1>1. \/ \E n \in Token : GenerateAccessToken(0, n) /\ Begin(h, w(n))
      \/ UNCHANGED <<dates, work>>
  BY Zenon DEF Login
<1>2. DatesOK
  <2>1. UNCHANGED dates => DatesOK
    BY DEF DatesOK, Typed, TypeOK
  <2>2. ASSUME NEW n \in Token, GenerateAccessToken(0, n) PROVE DatesOK
    BY <2>2, TokenGiven DEF DatesOK
  <2> QED
    BY <1>1, <2>1, <2>2
<1>3. begun' \in {begun, begun + 1} /\ proved \subseteq proved'
  BY DEF Login, factor, logins
<1>4. Grows
  BY <1>1, <1>3, TokenGiven DEF Grows
<1>5. work' \in [Handlers -> Work] /\ HandlersOK'
  <2>1. ASSUME NEW n \in Token, GenerateAccessToken(0, n), Begin(h, w(n))
        PROVE  work' \in [Handlers -> Work] /\ HandlersOK'
    <3>1. n \in 1..issued'
      BY <2>1, TokenGiven
    <3>2. w(n) \in Work /\ HandlerOK(w(n), issued', begun', proved')
      BY <1>2, <3>1 DEF DatesOK, Handing, Work, HandlerOK, Typed, TypeOK
    <3> HIDE DEF w
    <3> QED
      BY <1>4, <2>1, <3>2, WorkMoves
  <2> QED
    BY <1>1, <1>4, <2>1, WorkStays
<1>6. mk' \in BOOLEAN
  BY Zenon DEF Login, Typed, TypeOK, tokens
<1>8. /\ begun' \in 0..MaxLogins
      /\ waiting' \in [LoginId -> {"none", "fresh", "old"}]
      /\ entered' \in [LoginId -> Nat]
  <2>1. \/ UNCHANGED logins
        \/ /\ begun < MaxLogins /\ begun' = begun + 1
           /\ waiting' = [waiting EXCEPT ![begun'] = "fresh"]
           /\ UNCHANGED entered
    BY Zenon DEF Login
  <2>2. CASE UNCHANGED logins
    BY <2>2 DEF logins, Typed, TypeOK
  <2>3. CASE /\ begun < MaxLogins /\ begun' = begun + 1
             /\ waiting' = [waiting EXCEPT ![begun'] = "fresh"]
             /\ UNCHANGED entered
    BY <2>3 DEF Typed, TypeOK
  <2> QED
    BY <2>1, <2>2, <2>3
<1> QED
  BY <1>2, <1>5, <1>6, <1>8 DEF DatesOK, Login, Typed, TypeOK, Arrives, factor

LEMMA RequestTyped ==
  ASSUME Typed, NEW h \in Handlers, Ask(h)
  PROVE  Typed'
<1> DEFINE WorkOK == work' \in [Handlers -> Work] /\ HandlersOK'
<1>1. CASE RefreshToken(h)
  <2>0. PICK n \in Token : GenerateAccessToken(jar, n) /\ Begin(h, Handing("rotate", jar, n))
    BY <1>1 DEF RefreshToken
  <2> DEFINE w == Handing("rotate", jar, n)
  <2>1. Grows /\ DatesOK /\ n \in 1..issued'
    BY <1>1, <2>0, TokenGiven DEF RefreshToken, Grows, DatesOK, factor, logins
  <2>2. w \in Work
    BY <2>1 DEF DatesOK, Handing, Checking, Work, Typed, TypeOK
  <2>3. HandlerOK(w, issued', begun', proved')
    BY <1>1, <2>1 DEF DatesOK, Handing, Checking, RefreshToken, HandlerOK, Work, Typed, TypeOK
  <2>4. Begin(h, w)
    BY <2>0
  <2> HIDE DEF w
  <2>5. WorkOK
    BY <2>1, <2>2, <2>3, <2>4, WorkMoves
  <2>6. /\ UNCHANGED <<factor, logins, token, jar, mk, cut, restarts>>
        /\ requests < MaxRequests /\ requests' = requests + 1
    BY <1>1 DEF RefreshToken, Arrives
  <2> QED
    BY <2>1, <2>5, <2>6 DEF DatesOK, Typed, TypeOK, factor, logins
<1>2. CASE Logout(h)
  <2> DEFINE w == Handing(IF jar = 0 THEN "bye" ELSE "logout", jar, 0)
  <2>1. Grows
    BY <1>2 DEF Logout, Grows, factor, logins, tokens
  <2>2. w \in Work
    BY DEF Handing, Checking, Work, Typed, TypeOK
  <2>3. HandlerOK(w, issued', begun', proved')
    BY <1>2 DEF Handing, Checking, Logout, HandlerOK, Work, Typed, TypeOK, tokens
  <2>4. Begin(h, w)
    BY <1>2 DEF Logout
  <2> HIDE DEF w
  <2>5. WorkOK
    BY <2>1, <2>2, <2>3, <2>4, WorkMoves
  <2> QED
    BY <1>2, <2>5 DEF Logout, Typed, TypeOK, Arrives, factor, logins, tokens
<1>3. CASE TOTPSetup(h)
  <2>1. WorkOK
    BY <1>3, WorkStays DEF TOTPSetup, Grows, logins, tokens
  <2> QED
    BY <1>3, <2>1
    DEF TOTPSetup, StoreSetup, Typed, TypeOK, Arrives, logins, tokens
<1>4. ASSUME NEW c \in Codes, TOTPDisable(h, c) PROVE Typed'
  <2> DEFINE w == Checking("clear", None, secret, 0)
  <2>1. Grows
    BY <1>4 DEF TOTPDisable, Grows, factor, logins, tokens
  <2>2. w \in Work
    BY DEF Handing, Checking, Work, Typed, TypeOK
  <2>3. HandlerOK(w, issued', begun', proved')
    BY <1>4 DEF Handing, Checking, TOTPDisable, HandlerOK, Work, Typed, TypeOK, tokens
  <2>4. Begin(h, w)
    BY <1>4 DEF TOTPDisable
  <2> HIDE DEF w
  <2>5. WorkOK
    BY <2>1, <2>2, <2>3, <2>4, WorkMoves
  <2> QED
    BY <1>4, <2>5 DEF TOTPDisable, Typed, TypeOK, Arrives, factor, logins, tokens
<1>5. ASSUME NEW c \in Codes, NEW l \in LoginId, AuthTOTP(h, l, c) PROVE Typed'
  <2> DEFINE w == Checking("auth", c, None, l)
  <2>1. Grows
    BY <1>5 DEF AuthTOTP, Grows, factor, tokens
  <2>2. w \in Work
    BY DEF Handing, Checking, Work
  <2>3. HandlerOK(w, issued', begun', proved')
    BY <1>5 DEF Handing, Checking, AuthTOTP, HandlerOK, Work, Typed, TypeOK, tokens
  <2>4. Begin(h, w) \/ UNCHANGED work
    BY <1>5 DEF AuthTOTP
  <2> HIDE DEF w
  <2>5. WorkOK
    BY <2>1, <2>2, <2>3, <2>4, WorkMoves, WorkStays
  <2> QED
    BY <1>5, <2>5 DEF AuthTOTP, Typed, TypeOK, Arrives, factor, tokens
<1> QED
  BY <1>1, <1>2, <1>3, <1>4, <1>5, LoginTyped, ConfirmTyped DEF Ask

LEMMA ServeTyped ==
  ASSUME Typed, NEW h \in Handlers, Serve(h)
  PROVE  Typed'
<1> DEFINE WorkOK == work' \in [Handlers -> Work] /\ HandlersOK'
<1>0. work[h] \in Work /\ HandlerOK(work[h], issued, begun, proved)
  BY DEF Typed, TypeOK, HandlersOK, Work
<1>1. CASE AuthCheck(h)
  <2> DEFINE w(n) == Handing("answer", 0, n)
  <2>1. \/ \E n \in Token : GenerateAccessToken(0, n) /\ Begin(h, w(n))
        \/ Answer(h) /\ UNCHANGED dates
    BY <1>1, Zenon DEF AuthCheck
  <2>2. DatesOK
    <3>1. UNCHANGED dates => DatesOK
      BY DEF DatesOK, Typed, TypeOK
    <3>2. ASSUME NEW n \in Token, GenerateAccessToken(0, n) PROVE DatesOK
      BY <3>2, TokenGiven DEF DatesOK
    <3> QED
      BY <2>1, <3>1, <3>2
  <2>3. begun' = begun /\ proved' = proved
    BY <1>1 DEF AuthCheck, factor
  <2>4. Grows
    BY <2>1, <2>3, TokenGiven DEF Grows
  <2>5. WorkOK
    <3>1. ASSUME NEW n \in Token, GenerateAccessToken(0, n), Begin(h, w(n)) PROVE WorkOK
      <4>1. n \in 1..issued'
        BY <3>1, TokenGiven
      <4>2. w(n) \in Work /\ HandlerOK(w(n), issued', begun', proved')
        BY <2>2, <4>1 DEF DatesOK, Handing, Work, HandlerOK, Typed, TypeOK
      <4> HIDE DEF w
      <4> QED
        BY <2>4, <3>1, <4>2, WorkMoves
    <3> QED
      BY <2>1, <2>4, <3>1, AnswerMoves
  <2>6. mk' \in BOOLEAN
    BY <1>1, Zenon DEF AuthCheck, Typed, TypeOK
  <2>8. entered' \in [LoginId -> Nat]
    <3>1. entered' = [entered EXCEPT ![work[h].login] = @ + 1] \/ UNCHANGED entered
      BY <1>1, Zenon DEF AuthCheck
    <3>2. work[h].login \in LoginId
      BY <1>0, <1>1 DEF AuthCheck, HandlerOK, Typed, TypeOK
    <3>3. entered \in [LoginId -> Nat] /\ entered[work[h].login] + 1 \in Nat
      BY <3>2 DEF Typed, TypeOK
    <3> HIDE DEF LoginId
    <3> QED
      BY <3>1, <3>2, <3>3
  <2> QED
    BY <1>1, <2>2, <2>5, <2>6, <2>8 DEF DatesOK, AuthCheck, Typed, TypeOK, factor
<1> USE DEF Typed, TypeOK, factor, logins, tokens
<1>2. CASE ConfirmEnd(h)
  <2>1. WorkOK
    BY <1>2, AnswerMoves DEF ConfirmEnd, Grows
  <2>2. work[h].sec \in Secrets
    BY <1>0, <1>2 DEF ConfirmEnd, HandlerOK
  <2> QED
    BY <1>2, <2>1, <2>2 DEF ConfirmEnd, StoreSetup
<1>3. CASE ClearTOTPSecret(h)
  <2>1. WorkOK
    BY <1>3, AnswerMoves DEF ClearTOTPSecret, Grows
  <2> QED
    BY <1>3, <2>1 DEF ClearTOTPSecret
<1>4. CASE Rotate(h)
  <2> DEFINE w == [work[h] EXCEPT !.pc = "extend"]
  <2>1. Grows /\ w \in Work /\ HandlerOK(w, issued', begun', proved')
    BY <1>0, <1>4 DEF Rotate, Grows, Work, HandlerOK
  <2>2. WorkOK
    BY <1>4, <2>1, WorkMoves DEF Rotate
  <2> QED
    BY <1>4, <2>2 DEF Rotate, BlacklistToken
<1>5. CASE Extend(h)
  <2> DEFINE w == [work[h] EXCEPT !.pc = "answer"]
  <2>1. Grows /\ w \in Work /\ HandlerOK(w, issued', begun', proved')
    BY <1>0, <1>5 DEF Extend, Grows, Work, HandlerOK
  <2>2. WorkOK
    BY <1>5, <2>1, WorkMoves, AnswerMoves DEF Extend
  <2> QED
    BY <1>5, <2>2 DEF Extend
<1>6. CASE Cookie(h)
  <2>1. WorkOK
    BY <1>6, AnswerMoves DEF Cookie, Grows
  <2>2. work[h].new \in 0..issued
    BY <1>0, <1>6 DEF Cookie, HandlerOK
  <2> QED
    BY <1>6, <2>1, <2>2 DEF Cookie
<1>7. CASE LogoutBlacklists(h)
  <2> DEFINE w == [work[h] EXCEPT !.pc = "bye"]
  <2>1. Grows /\ w \in Work /\ HandlerOK(w, issued', begun', proved')
    BY <1>0, <1>7 DEF LogoutBlacklists, Grows, Work, HandlerOK
  <2>2. WorkOK
    BY <1>7, <2>1, WorkMoves DEF LogoutBlacklists
  <2> QED
    BY <1>7, <2>2 DEF LogoutBlacklists, BlacklistToken
<1>8. CASE CookieRemoved(h)
  <2>1. WorkOK
    BY <1>8, AnswerMoves DEF CookieRemoved, Grows
  <2> QED
    BY <1>8, <2>1 DEF CookieRemoved
<1> QED
  BY <1>1, <1>2, <1>3, <1>4, <1>5, <1>6, <1>7, <1>8 DEF Serve

LEMMA ClockTyped ==
  ASSUME Typed, Clock \/ Restart
  PROVE  Typed'
<1> USE DEF Typed, TypeOK, HandlersOK, HandlerOK, factor, logins, tokens
<1>1. ASSUME NEW l \in LoginId, LoginAges(l) PROVE Typed'
  BY <1>1 DEF LoginAges
<1>2. ASSUME NEW t \in Token, TokenAges(t) PROVE Typed'
  BY <1>2 DEF TokenAges
<1>3. CASE SetupExpires
  BY <1>3 DEF SetupExpires
<1>7. CASE SecondPasses
  BY <1>7 DEF SecondPasses
<1>4. CASE SetupTimer
  BY <1>4 DEF SetupTimer
<1>5. CASE MasterKeyLeavesRedis
  BY <1>5 DEF MasterKeyLeavesRedis
<1>6. CASE Restart
  <2>1. HandlerOK(NoWork, issued', begun', proved') /\ NoWork \in Work
    BY <1>6 DEF Restart, NoWork, Handing, Work
  <2>2. work' \in [Handlers -> Work] /\ HandlersOK'
    BY <1>6, <2>1 DEF Restart
  <2>3. cut' \in BOOLEAN
    BY <1>6, Zenon DEF Restart
  <2> QED
    BY <1>6, <2>2, <2>3 DEF Restart
<1> QED
  BY <1>1, <1>2, <1>3, <1>4, <1>5, <1>6, <1>7 DEF Clock

LEMMA NextTyped == Typed /\ [Next]_vars => Typed'
<1> SUFFICES ASSUME Typed, [Next]_vars PROVE Typed'
  OBVIOUS
<1>1. CASE UNCHANGED vars
  BY <1>1 DEF vars, Typed, TypeOK, HandlersOK, HandlerOK, factor, logins, tokens
<1> QED
  BY <1>1, RequestTyped, ServeTyped, ClockTyped DEF Next

\* Whatever requests, timers and restarts do, every handler has at each of its
\* steps what the step uses, and the browser never holds a token that was not issued.
THEOREM TypeCorrect == Spec => []TypeOK
<1>1. Typed => TypeOK
  BY DEF Typed
<1> QED
  BY <1>1, InitTyped, NextTyped, PTL DEF Spec

-----------------------------------------------------------------------------
(* A waiting login is a one-time ticket. *)

\* A step that leaves the logins alone leaves each in its place.
LEMMA StaysInPlace ==
  ASSUME OnePlace, UNCHANGED logins,
         \A g \in Handlers, l \in LoginId : Checks(g, l)' <=> Checks(g, l)
  PROVE  OnePlace' /\ \A l \in LoginId : TicketOf(l)' = TicketOf(l)
BY DEF OnePlace, logins, TicketOf, Checks

\* One handler moves from a step that is not the check of a code to another.
LEMMA OthersCheck ==
  ASSUME Typed, NEW h \in Handlers, NEW w, Begin(h, w), w.pc # "auth", work[h].pc # "auth"
  PROVE  \A g \in Handlers, l \in LoginId : Checks(g, l)' <=> Checks(g, l)
BY DEF Typed, TypeOK, Begin, Checks

\* Only these steps touch the logins; the others are theirs alone.
Moving(h) ==
    \/ Login(h)
    \/ \E c \in Codes, l \in LoginId : AuthTOTP(h, l, c)
    \/ AuthCheck(h)
LEMMA OthersInPlace ==
  ASSUME LoginInv, [Next]_vars,
         ~ \E h \in Handlers : Moving(h),
         ~ \E l \in LoginId : LoginAges(l),
         ~ Restart
  PROVE  OnePlace' /\ UNCHANGED entered /\ \A l \in LoginId : TicketOf(l)' = TicketOf(l)
<1> USE DEF LoginInv, Arrives, factor, tokens
<1>1. UNCHANGED logins /\ \A g \in Handlers, l \in LoginId : Checks(g, l)' <=> Checks(g, l)
  <2>1. CASE UNCHANGED vars
    BY <2>1 DEF vars, Checks
  <2>2. CASE Clock
    BY <2>2 DEF Clock, TokenAges, SecondPasses, SetupExpires, SetupTimer, MasterKeyLeavesRedis, Checks
  <2>3. ASSUME NEW h \in Handlers, Ask(h)
        PROVE  UNCHANGED logins /\ \A g \in Handlers, l \in LoginId : Checks(g, l)' <=> Checks(g, l)
    <3>1. CASE RefreshToken(h)
      BY <3>1, OthersCheck DEF RefreshToken, Handing
    <3>2. CASE Logout(h)
      BY <3>2, OthersCheck DEF Logout, Handing
    <3>3. CASE TOTPSetup(h)
      BY <3>3 DEF TOTPSetup, Checks
    <3>4. ASSUME NEW c \in Codes, TOTPConfirm(h, c)
          PROVE  UNCHANGED logins /\ \A g \in Handlers, l \in LoginId : Checks(g, l)' <=> Checks(g, l)
      <4>1. CASE UNCHANGED work
        BY <3>4, <4>1 DEF TOTPConfirm, Checks
      <4>2. CASE Begin(h, Checking("confirm", c, setup.secret, 0))
        BY <3>4, <4>2, OthersCheck DEF TOTPConfirm, Checking
      <4> QED
        BY <3>4, <4>1, <4>2 DEF TOTPConfirm
    <3>5. ASSUME NEW c \in Codes, TOTPDisable(h, c)
          PROVE  UNCHANGED logins /\ \A g \in Handlers, l \in LoginId : Checks(g, l)' <=> Checks(g, l)
      BY <3>5, OthersCheck DEF TOTPDisable, Checking
    <3> QED
      BY <2>3, <3>1, <3>2, <3>3, <3>4, <3>5 DEF Ask, Moving
  <2>4. ASSUME NEW h \in Handlers, Serve(h)
        PROVE  UNCHANGED logins /\ \A g \in Handlers, l \in LoginId : Checks(g, l)' <=> Checks(g, l)
    <3>0. Answer(h) => Begin(h, NoWork) /\ NoWork.pc # "auth"
      BY DEF Answer, Begin, NoWork, Handing
    <3>1. CASE ConfirmEnd(h)
      BY <3>0, <3>1, OthersCheck DEF ConfirmEnd
    <3>2. CASE ClearTOTPSecret(h)
      BY <3>0, <3>2, OthersCheck DEF ClearTOTPSecret
    <3>3. CASE Rotate(h)
      <4>1. [work[h] EXCEPT !.pc = "extend"].pc # "auth"
        BY DEF Typed, TypeOK, Work
      <4> QED
        BY <3>3, <4>1, OthersCheck DEF Rotate
    <3>4. CASE Extend(h)
      <4>1. [work[h] EXCEPT !.pc = "answer"].pc # "auth"
        BY DEF Typed, TypeOK, Work
      <4> QED
        BY <3>0, <3>4, <4>1, OthersCheck DEF Extend
    <3>5. CASE Cookie(h)
      BY <3>0, <3>5, OthersCheck DEF Cookie
    <3>6. CASE LogoutBlacklists(h)
      <4>1. [work[h] EXCEPT !.pc = "bye"].pc # "auth"
        BY DEF Typed, TypeOK, Work
      <4> QED
        BY <3>6, <4>1, OthersCheck DEF LogoutBlacklists
    <3>7. CASE CookieRemoved(h)
      BY <3>0, <3>7, OthersCheck DEF CookieRemoved
    <3> QED
      BY <2>4, <3>1, <3>2, <3>3, <3>4, <3>5, <3>6, <3>7 DEF Serve, Moving
  <2> QED
    BY <2>1, <2>2, <2>3, <2>4 DEF Next
<1> QED
  BY <1>1, StaysInPlace DEF logins

\* A login that waits for a code is a ticket handed out.
LEMMA LoginIssues ==
  ASSUME LoginInv, NEW h \in Handlers, Login(h)
  PROVE  OnePlace' /\ [Ticket!TicketsNext]_(Ticket!ticketVars)
<1>0. begun \in 0..MaxLogins /\ waiting \in [LoginId -> {"none", "fresh", "old"}]
  BY DEF LoginInv, Typed, TypeOK
<1>1. CASE secret = None
  <2>1. /\ \E n : Begin(h, Handing("answer", 0, n))
        /\ UNCHANGED logins /\ work[h].pc # "auth"
    BY <1>1 DEF Login, Arrives
  <2>2. \A g \in Handlers, l \in LoginId : Checks(g, l)' <=> Checks(g, l)
    BY <2>1, OthersCheck DEF Handing, LoginInv
  <2>3. OnePlace' /\ \A l \in LoginId : TicketOf(l)' = TicketOf(l)
    BY <2>1, <2>2, StaysInPlace DEF LoginInv
  <2> QED
    BY <2>1, <2>3 DEF logins, Ticket!ticketVars
<1>2. CASE secret # None
  <2>0. PICK n \in LoginId : n = begun + 1
    BY <1>0, <1>2 DEF Login
  <2>1. /\ begun' = n
        /\ waiting' = [waiting EXCEPT ![n] = "fresh"]
        /\ UNCHANGED <<entered, work>>
    BY <1>2, <2>0 DEF Login
  <2>2. \A g \in Handlers, l \in LoginId : Checks(g, l)' <=> Checks(g, l)
    BY <2>1 DEF Checks
  <2>3. \A g \in Handlers : ~Checks(g, n)
    BY <1>0, <2>0 DEF LoginInv, Typed, HandlersOK, HandlerOK, Checks
  <2>4. OnePlace'
    BY <1>0, <2>0, <2>1, <2>2, <2>3 DEF LoginInv, OnePlace
  <2>5. TicketOf(n) = "unborn" /\ TicketOf(n)' = "open"
    <3>1. waiting'[n] = "fresh" /\ \A g \in Handlers : ~Checks(g, n)'
      BY <1>0, <2>1, <2>2, <2>3
    <3>2. n > begun /\ ~(n > begun')
      BY <1>0, <2>0, <2>1
    <3> QED
      BY <3>1, <3>2 DEF TicketOf, Checks
  <2>6. \A l \in LoginId \ {n} : TicketOf(l)' = TicketOf(l)
    BY <1>0, <2>0, <2>1, <2>2 DEF TicketOf, Checks
  <2>7. Ticket!Issue(n)
    <3>1. [l \in LoginId |-> TicketOf(l)]' = [[l \in LoginId |-> TicketOf(l)] EXCEPT ![n] = "open"]
      BY <2>5, <2>6
    <3> QED
      BY <2>1, <2>5, <3>1 DEF Ticket!Issue, Ticket!Moves
  <2> QED
    BY <2>1, <2>4, <2>7 DEF Ticket!TicketsNext
<1> QED
  BY <1>1, <1>2

\* loadAndDeleteTOTPPending takes the ticket, or finds none.
LEMMA AuthTakes ==
  ASSUME LoginInv, NEW h \in Handlers, NEW c \in Codes, NEW l \in LoginId, AuthTOTP(h, l, c)
  PROVE  OnePlace' /\ [Ticket!TicketsNext]_(Ticket!ticketVars)
<1>0. /\ l <= begun /\ begun' = begun /\ entered' = entered
      /\ waiting' = [waiting EXCEPT ![l] = "none"]
      /\ waiting \in [LoginId -> {"none", "fresh", "old"}]
      /\ begun \in Nat /\ work[h].pc # "auth"
  BY DEF LoginInv, Typed, TypeOK, AuthTOTP, Arrives
<1>1. CASE waiting[l] = "fresh"
  <2>1. /\ work' = [work EXCEPT ![h] = Checking("auth", c, None, l)]
        /\ work \in [Handlers -> Work]
    BY <1>1 DEF AuthTOTP, Begin, LoginInv, Typed, TypeOK
  <2>2. \A g \in Handlers, k \in LoginId : Checks(g, k)' <=> (Checks(g, k) \/ (g = h /\ k = l))
    BY <1>0, <2>1 DEF Checks, Checking
  <2>3. \A g \in Handlers : ~Checks(g, l)
    BY <1>1 DEF LoginInv, OnePlace
  <2>4. OnePlace'
    BY <1>0, <1>1, <2>2, <2>3 DEF LoginInv, OnePlace
  <2>5. TicketOf(l) = "open" /\ TicketOf(l)' = "taken"
    BY <1>0, <1>1, <2>2, <2>3 DEF TicketOf, Checks
  <2>6. \A k \in LoginId \ {l} : TicketOf(k)' = TicketOf(k)
    BY <1>0, <2>2 DEF TicketOf, Checks
  <2>7. Ticket!Take(l)
    BY <1>0, <2>5, <2>6 DEF Ticket!Take, Ticket!Moves
  <2> QED
    BY <2>4, <2>7 DEF Ticket!TicketsNext
<1>2. CASE waiting[l] # "fresh"
  <2>1. UNCHANGED work
    BY <1>2 DEF AuthTOTP
  <2>2. \A g \in Handlers, k \in LoginId : Checks(g, k)' <=> Checks(g, k)
    BY <2>1 DEF Checks
  <2>3. OnePlace'
    BY <1>0, <2>2 DEF LoginInv, OnePlace
  <2>4. \A k \in LoginId : TicketOf(k)' = TicketOf(k)
    BY <1>0, <1>2, <2>2 DEF TicketOf, Checks
  <2> QED
    BY <1>0, <2>3, <2>4 DEF Ticket!ticketVars
<1> QED
  BY <1>1, <1>2

\* The handler that took it honours it, or it lapses.
LEMMA CheckHonours ==
  ASSUME LoginInv, NEW h \in Handlers, AuthCheck(h)
  PROVE  OnePlace' /\ [Ticket!TicketsNext]_(Ticket!ticketVars)
<1>a. work[h].pc = "auth" /\ work[h].login \in 1..begun
  BY DEF LoginInv, Typed, HandlersOK, HandlerOK, AuthCheck
<1>b. PICK l \in LoginId : l = work[h].login /\ l <= begun
  BY <1>a, SignInAssumption DEF LoginInv, Typed, TypeOK, LoginId
<1>0. /\ l <= begun /\ begun' = begun /\ waiting' = waiting
      /\ waiting[l] = "none" /\ entered[l] = 0 /\ entered \in [LoginId -> Nat]
      /\ begun \in Nat /\ work \in [Handlers -> Work] /\ Checks(h, l)
  <2>1. begun \in Nat /\ entered \in [LoginId -> Nat] /\ work \in [Handlers -> Work]
    BY SignInAssumption DEF LoginInv, Typed, TypeOK
  <2>2. Checks(h, l)
    BY <1>a, <1>b DEF Checks
  <2>3. waiting[l] = "none" /\ entered[l] = 0
    BY <2>2 DEF LoginInv, OnePlace
  <2> QED
    BY <1>b, <2>1, <2>2, <2>3 DEF AuthCheck
<1>1. (\E n : Begin(h, Handing("answer", 0, n))) \/ Begin(h, Handing("idle", 0, 0))
  BY Zenon DEF AuthCheck, Begin, Answer, NoWork
<1>2. \A g \in Handlers, k \in LoginId : Checks(g, k)' <=> (Checks(g, k) /\ g # h)
  BY <1>0, <1>1 DEF Checks, Begin, Handing
<1>3. \A g \in Handlers : ~Checks(g, l)'
  <2>1. \A g \in Handlers : Checks(g, l) => g = h
    BY <1>0 DEF LoginInv, OnePlace
  <2> QED
    BY <1>0, <1>2, <2>1
<1>4. \A k \in LoginId \ {l} : \A g \in Handlers : Checks(g, k)' <=> Checks(g, k)
  BY <1>0, <1>2 DEF Checks
<1>5. CASE entered' = [entered EXCEPT ![l] = @ + 1]
  <2>1. entered'[l] = 1 /\ \A k \in LoginId \ {l} : entered'[k] = entered[k]
    BY <1>0, <1>5
  <2>2. OnePlace'
    BY <1>0, <1>2, <1>3, <2>1 DEF LoginInv, OnePlace
  <2>3. TicketOf(l) = "taken" /\ TicketOf(l)' = "used"
    <3>1. (\E g \in Handlers : Checks(g, l)) /\ ~(l > begun)
      BY <1>0
    <3> QED
      BY <1>0, <1>3, <2>1, <3>1 DEF TicketOf, Checks
  <2>4. \A k \in LoginId \ {l} : TicketOf(k)' = TicketOf(k)
    BY <1>0, <1>4, <2>1 DEF TicketOf, Checks
  <2>5. Ticket!Honour(l)
    <3>1. [k \in LoginId |-> TicketOf(k)]' = [[k \in LoginId |-> TicketOf(k)] EXCEPT ![l] = "used"]
      BY <1>0, <2>3, <2>4
    <3> QED
      BY <1>0, <1>5, <2>3, <3>1 DEF Ticket!Honour, Ticket!Moves
  <2> QED
    BY <1>0, <2>2, <2>5 DEF Ticket!TicketsNext
<1>6. CASE UNCHANGED entered
  <2>1. OnePlace'
    BY <1>0, <1>2, <1>6 DEF LoginInv, OnePlace
  <2>2. TicketOf(l) = "taken" /\ TicketOf(l)' = "gone"
    <3>1. (\E g \in Handlers : Checks(g, l)) /\ ~(l > begun)
      BY <1>0
    <3> QED
      BY <1>0, <1>3, <1>6, <3>1 DEF TicketOf, Checks
  <2>3. \A k \in LoginId \ {l} : TicketOf(k)' = TicketOf(k)
    BY <1>0, <1>4, <1>6 DEF TicketOf, Checks
  <2>4. Ticket!Lapse
    <3> DEFINE out == {l}
    <3>1. /\ [k \in LoginId |-> TicketOf(k)]' = [k \in LoginId |-> IF k \in out THEN "gone"
                                                                   ELSE TicketOf(k)]
          /\ out \subseteq {k \in LoginId : TicketOf(k) \in {"open", "taken"}}
      BY <1>0, <2>2, <2>3
    <3> QED
      BY <1>6, <3>1 DEF Ticket!Lapse
  <2> QED
    BY <2>1, <2>4 DEF Ticket!TicketsNext
<1> QED
  BY <1>5, <1>6, <1>b, Zenon DEF AuthCheck

\* A login whose time is up lapses.
LEMMA AgeLapses ==
  ASSUME LoginInv, NEW l \in LoginId, LoginAges(l)
  PROVE  OnePlace' /\ [Ticket!TicketsNext]_(Ticket!ticketVars)
<1>0. /\ begun' = begun /\ entered' = entered /\ work' = work /\ begun \in Nat
      /\ waiting \in [LoginId -> {"none", "fresh", "old"}]
      /\ waiting' = [waiting EXCEPT ![l] = IF @ = "fresh" THEN "old" ELSE "none"]
      /\ waiting[l] \in {"fresh", "old"}
  BY DEF LoginInv, Typed, TypeOK, LoginAges
<1>1. \A g \in Handlers, k \in LoginId : Checks(g, k)' <=> Checks(g, k)
  BY <1>0 DEF Checks
<1>2. l <= begun /\ entered[l] = 0 /\ \A g \in Handlers : ~Checks(g, l)
  BY <1>0 DEF LoginInv, OnePlace
<1>3. OnePlace'
  BY <1>0, <1>1, <1>2 DEF LoginInv, OnePlace
<1>4. TicketOf(l)' = "gone" /\ TicketOf(l) \in {"open", "gone"}
  BY <1>0, <1>1, <1>2 DEF TicketOf, Checks
<1>5. \A k \in LoginId \ {l} : TicketOf(k)' = TicketOf(k)
  BY <1>0, <1>1 DEF TicketOf, Checks
<1>6. CASE TicketOf(l) = "open"
  <2>1. Ticket!Lapse
    <3> DEFINE out == {l}
    <3>1. /\ [k \in LoginId |-> TicketOf(k)]' = [k \in LoginId |-> IF k \in out THEN "gone"
                                                                   ELSE TicketOf(k)]
          /\ out \subseteq {k \in LoginId : TicketOf(k) \in {"open", "taken"}}
      BY <1>4, <1>5, <1>6
    <3> QED
      BY <1>0, <3>1 DEF Ticket!Lapse
  <2> QED
    BY <1>3, <2>1 DEF Ticket!TicketsNext
<1>7. CASE TicketOf(l) = "gone"
  BY <1>0, <1>3, <1>4, <1>5, <1>7 DEF Ticket!ticketVars
<1> QED
  BY <1>4, <1>6, <1>7

\* After a restart every ticket that was out has lapsed.
LEMMA RestartLapses ==
  ASSUME LoginInv, Restart
  PROVE  OnePlace' /\ [Ticket!TicketsNext]_(Ticket!ticketVars)
<1>0. /\ begun' = begun /\ entered' = entered /\ begun \in Nat
      /\ waiting' = [l \in LoginId |-> "none"]
      /\ \A g \in Handlers, k \in LoginId : ~Checks(g, k)'
  BY DEF LoginInv, Typed, TypeOK, Restart, Checks, NoWork, Handing
<1>1. OnePlace'
  BY <1>0 DEF LoginInv, OnePlace
<1>2. \A l \in LoginId :
        TicketOf(l)' = IF TicketOf(l) \in {"open", "taken"} THEN "gone" ELSE TicketOf(l)
  <2> SUFFICES ASSUME NEW l \in LoginId
               PROVE  TicketOf(l)' = IF TicketOf(l) \in {"open", "taken"} THEN "gone"
                                     ELSE TicketOf(l)
    OBVIOUS
  <2>1. TicketOf(l)' = IF l > begun THEN "unborn" ELSE IF entered[l] > 0 THEN "used" ELSE "gone"
    BY <1>0 DEF TicketOf, Checks
  <2>2. waiting[l] = "fresh" \/ (\E g \in Handlers : Checks(g, l)) => entered[l] = 0
    BY DEF LoginInv, OnePlace
  <2> QED
    BY <2>1, <2>2 DEF TicketOf, Checks
<1>3. Ticket!Lapse
  <2> DEFINE out == {l \in LoginId : TicketOf(l) \in {"open", "taken"}}
  <2>1. [l \in LoginId |-> TicketOf(l)]' = [l \in LoginId |-> IF l \in out THEN "gone"
                                                              ELSE TicketOf(l)]
    BY <1>2
  <2> QED
    BY <1>0, <2>1 DEF Ticket!Lapse
<1> QED
  BY <1>1, <1>3 DEF Ticket!TicketsNext

LEMMA LoginStep ==
  LoginInv /\ [Next]_vars => LoginInv' /\ [Ticket!TicketsNext]_(Ticket!ticketVars)
<1> SUFFICES ASSUME LoginInv, [Next]_vars
             PROVE  LoginInv' /\ [Ticket!TicketsNext]_(Ticket!ticketVars)
  OBVIOUS
<1>1. Typed'
  BY NextTyped DEF LoginInv
<1>2. OnePlace' /\ [Ticket!TicketsNext]_(Ticket!ticketVars)
  <2>1. CASE \E h \in Handlers : Moving(h)
    BY <2>1, LoginIssues, AuthTakes, CheckHonours DEF Moving
  <2>2. CASE \E l \in LoginId : LoginAges(l)
    BY <2>2, AgeLapses
  <2>3. CASE Restart
    BY <2>3, RestartLapses
  <2>4. CASE ~ (\E h \in Handlers : Moving(h)) /\ ~ (\E l \in LoginId : LoginAges(l)) /\ ~Restart
    <3>1. OnePlace' /\ \A l \in LoginId : TicketOf(l)' = TicketOf(l)
      BY <2>4, OthersInPlace
    <3>2. UNCHANGED entered
      BY <2>4, OthersInPlace
    <3> QED
      BY <3>1, <3>2 DEF Ticket!ticketVars
  <2> QED
    BY <2>1, <2>2, <2>3, <2>4
<1> QED
  BY <1>1, <1>2 DEF LoginInv

\* However many handlers bring one totp_token at a time, one takes it and it is
\* honoured at most once: the login of a user with a second factor implements a
\* one-time ticket, step by step.
THEOREM LoginIsTicket == Spec => OneEntryPerLogin
<1>1. Init => LoginInv
  <2> SUFFICES ASSUME Init PROVE LoginInv
    OBVIOUS
  <2>1. OnePlace
    BY DEF Init, OnePlace, Checks, NoWork, Handing
  <2> QED
    BY <2>1, InitTyped DEF LoginInv
<1>2. Init => Ticket!TicketsInit
  BY DEF Init, Ticket!TicketsInit, TicketOf
<1> QED
  BY <1>1, <1>2, LoginStep, PTL DEF Spec, OneEntryPerLogin, Ticket!TicketsSpec
-----------------------------------------------------------------------------
(* The second factor. *)

\* A secret reaches the table only after its code was typed.
LEMMA ProvedStep == Typed /\ SecretIsProved /\ [Next]_vars => SecretIsProved'
<1> SUFFICES ASSUME Typed, SecretIsProved, [Next]_vars PROVE SecretIsProved'
  OBVIOUS
<1> USE DEF SecretIsProved, factor
<1>1. ASSUME NEW h \in Handlers, Ask(h) PROVE SecretIsProved'
  <2>1. UNCHANGED secret /\ proved \subseteq proved'
    BY <1>1 DEF Ask, Login, RefreshToken, Logout, TOTPSetup, TOTPConfirm, TOTPDisable, AuthTOTP
  <2> QED
    BY <2>1
<1>2. ASSUME NEW h \in Handlers, Serve(h) PROVE SecretIsProved'
  <2>1. CASE ConfirmEnd(h)
    <3>1. work[h].code = work[h].sec => work[h].sec \in proved
      BY <2>1 DEF ConfirmEnd, Typed, HandlersOK, HandlerOK
    <3> QED
      BY <2>1, <3>1 DEF ConfirmEnd
  <2>2. CASE ClearTOTPSecret(h)
    BY <2>2 DEF ClearTOTPSecret
  <2>3. CASE AuthCheck(h)
    BY <2>3 DEF AuthCheck
  <2>4. CASE Rotate(h) \/ Extend(h) \/ Cookie(h) \/ LogoutBlacklists(h) \/ CookieRemoved(h)
    BY <2>4 DEF Rotate, Extend, Cookie, LogoutBlacklists, CookieRemoved
  <2> QED
    BY <1>2, <2>1, <2>2, <2>3, <2>4 DEF Serve
<1>3. CASE Clock
  BY <1>3 DEF Clock, LoginAges, TokenAges, SecondPasses, SetupExpires, SetupTimer,
              MasterKeyLeavesRedis
<1>4. CASE Restart
  BY <1>4 DEF Restart
<1>5. CASE UNCHANGED vars
  BY <1>5 DEF vars
<1> QED
  BY <1>1, <1>2, <1>3, <1>4, <1>5 DEF Next

\* With one settings page open, a wrong code puts back the secret that is shown.
LEMMA ShownStep ==
  Typed /\ OnePage /\ SetupIsLastShown /\ [Next]_vars => SetupIsLastShown'
<1> SUFFICES ASSUME Typed, OnePage, SetupIsLastShown, [Next]_vars PROVE SetupIsLastShown'
  OBVIOUS
<1> USE DEF SetupIsLastShown, factor
<1>1. ASSUME NEW h \in Handlers, Ask(h) PROVE SetupIsLastShown'
  <2>1. CASE TOTPSetup(h)
    BY <2>1 DEF TOTPSetup, StoreSetup
  <2>2. CASE UNCHANGED shown /\ (setup' = None \/ UNCHANGED setup)
    BY <2>2
  <2> QED
    BY <1>1, <2>1, <2>2
    DEF Ask, Login, RefreshToken, Logout, TOTPConfirm, TOTPDisable, AuthTOTP
<1>2. ASSUME NEW h \in Handlers, Serve(h) PROVE SetupIsLastShown'
  <2>1. CASE ConfirmEnd(h)
    <3>1. work[h].sec = shown
      BY <2>1 DEF ConfirmEnd, OnePage
    <3> QED
      BY <2>1, <3>1 DEF ConfirmEnd, StoreSetup
  <2>2. CASE ~ConfirmEnd(h)
    BY <1>2, <2>2
    DEF Serve, AuthCheck, ClearTOTPSecret, Rotate, Extend, Cookie, LogoutBlacklists, CookieRemoved
  <2> QED
    BY <2>1, <2>2
<1>3. CASE Clock
  BY <1>3 DEF Clock, LoginAges, TokenAges, SecondPasses, SetupExpires, SetupTimer,
              MasterKeyLeavesRedis
<1>4. CASE Restart
  BY <1>4 DEF Restart
<1>5. CASE UNCHANGED vars
  BY <1>5 DEF vars
<1> QED
  BY <1>1, <1>2, <1>3, <1>4, <1>5 DEF Next

\* No order of setups, confirmations, timers and restarts turns on a second factor
\* whose code the user has not typed, and, with one settings page open, the one that
\* waits for its code is the one the user scanned last.
THEOREM FactorUsable == CarefulSpec => []SecondFactorUsable
<1> DEFINE Inv == Typed /\ OnePage /\ SecondFactorUsable
<1>1. Init => Inv
  <2> SUFFICES ASSUME Init PROVE OnePage /\ SecondFactorUsable
    BY InitTyped
  <2> QED
    BY DEF Init, OnePage, SecondFactorUsable, SecretIsProved, SetupIsLastShown, NoWork, Handing
<1>2. Inv /\ [Next /\ OnePage']_vars => Inv'
  <2> SUFFICES ASSUME Inv, [Next /\ OnePage']_vars PROVE Inv'
    OBVIOUS
  <2>1. [Next]_vars
    OBVIOUS
  <2>2. OnePage'
    BY DEF vars, factor, OnePage
  <2> QED
    BY <2>1, <2>2, NextTyped, ProvedStep, ShownStep DEF SecondFactorUsable
<1> QED
  BY <1>1, <1>2, PTL DEF CarefulSpec
-----------------------------------------------------------------------------
(* The refresh cookie. *)

\* The next token is on its way to the browser: unless it was issued again, nobody
\* has brought it, nobody else carries it, and it is in no blacklist.
Carries(h) == work[h].pc \in {"rotate", "extend", "answer"}
OnItsWay(h) == work[h].new \notin again =>
    /\ token[work[h].new] \in {"good", "expired"} /\ jar # work[h].new
    /\ \A g \in Handlers : /\ work[g].tok # work[h].new
                           /\ Carries(g) /\ work[g].new = work[h].new => g = h

\* A token that is rotated away, in the browser still, has a successor on its way.
Covered ==
    jar \notin again \cup {0} /\ token[jar] \in {"grace", "dead"} /\ ~cut =>
        \E h \in Handlers : \/ work[h].pc \in {"extend", "answer"} /\ work[h].tok = jar
                            \/ work[h].pc = "bye"

Unissued == \A t \in Token : t > issued => token[t] = "good"
Carried == \A h \in Handlers : Carries(h) => OnItsWay(h)
CookieOK == Unissued /\ Carried /\ Covered
CookieInv == Typed /\ CookieOK

\* What the steps below use of the types.
LEMMA CookieTypes ==
  ASSUME Typed
  PROVE  /\ work \in [Handlers -> Work] /\ token \in [Token -> {"good", "grace", "dead", "expired"}]
         /\ issued \in 0..MaxTokens /\ jar \in 0..issued
         /\ \A h \in Handlers : Carries(h) => work[h].new \in 1..issued
         /\ \A h \in Handlers : work[h].tok \in 0..issued
         /\ \A h \in Handlers : work[h].pc \in {"rotate", "logout"} => work[h].tok \in 1..issued
BY DEF Typed, TypeOK, HandlersOK, HandlerOK, Carries

\* A step of a handler that carries no token, to one where it carries none.
LEMMA CookieIdle ==
  ASSUME CookieInv, NEW h \in Handlers, NEW w, Begin(h, w),
         work[h].pc \notin {"rotate", "extend", "answer", "bye"},
         w.pc \notin {"rotate", "extend", "answer"}, w.tok \in {0, jar},
         UNCHANGED <<token, issued, again, jar, cut>>
  PROVE  CookieOK'
<1>1. /\ work' = [work EXCEPT ![h] = w] /\ work \in [Handlers -> Work]
      /\ \A g \in Handlers : Carries(g) => work[g].new \in 1..issued
  BY CookieTypes DEF CookieInv, Begin
<1>2. work'[h] = w /\ \A g \in Handlers \ {h} : work'[g] = work[g]
  BY <1>1
<1>3. Carried'
  BY <1>1, <1>2, CookieTypes DEF CookieInv, CookieOK, Carried, Carries, OnItsWay
<1>4. Covered'
  BY <1>1, <1>2 DEF CookieInv, CookieOK, Covered
<1> QED
  BY <1>3, <1>4 DEF CookieInv, CookieOK, Unissued

\* A step that touches neither tokens nor work.
LEMMA CookieStays ==
  ASSUME CookieInv, UNCHANGED <<token, issued, again, jar, cut, work>>
  PROVE  CookieOK'
BY DEF CookieInv, CookieOK, Unissued, Carried, Carries, OnItsWay, Covered

\* A handler is given a token: nobody has had it before, or it is issued again.
LEMMA CookieGiven ==
  ASSUME CookieInv, NEW h \in Handlers, NEW l \in {"rotate", "answer"}, NEW t \in {0, jar},
         work[h].pc \notin {"rotate", "extend", "answer", "bye"},
         NEW n \in Token, GenerateAccessToken(t, n), Begin(h, Handing(l, t, n)),
         UNCHANGED <<token, jar, cut>>
  PROVE  CookieOK'
<1> DEFINE w == Handing(l, t, n)
<1>1. /\ work' = [work EXCEPT ![h] = w]
      /\ work \in [Handlers -> Work] /\ issued \in Nat /\ jar \in 0..issued
      /\ \A g \in Handlers : Carries(g) => work[g].new \in 1..issued
      /\ \A g \in Handlers : work[g].tok \in 0..issued
  BY CookieTypes DEF CookieInv, Begin
<1>2. /\ work'[h] = w /\ w.pc = l /\ w.tok = t /\ w.new = n
      /\ \A g \in Handlers \ {h} : work'[g] = work[g]
  BY <1>1 DEF Handing
<1> HIDE DEF w
<1>3. /\ again \subseteq again' /\ issued <= issued'
      /\ (n = issued + 1 /\ issued' = n) \/ (n \in again' /\ issued' = issued)
      /\ issued' \in Nat
  BY TokenGiven DEF CookieInv
<1>4. Carried'
  <2> SUFFICES ASSUME NEW g \in Handlers, Carries(g)', work'[g].new \notin again'
               PROVE  /\ token[work'[g].new] \in {"good", "expired"} /\ jar # work'[g].new
                      /\ \A f \in Handlers : /\ work'[f].tok # work'[g].new
                                             /\ Carries(f)' /\ work'[f].new = work'[g].new => f = g
    BY DEF Carried, OnItsWay
  <2>1. \A f \in Handlers : work'[f].tok \in 0..issued
    BY <1>1, <1>2
  <2>2. CASE g = h
    <3>1. n = issued + 1 /\ token[issued + 1] = "good"
      BY <1>1, <1>2, <1>3, <2>2 DEF CookieInv, CookieOK, Unissued
    <3>2. \A f \in Handlers : Carries(f)' /\ work'[f].new = issued + 1 => f = h
      BY <1>1, <1>2 DEF Carries
    <3> QED
      BY <1>1, <1>2, <2>1, <2>2, <3>1, <3>2
  <2>3. CASE g # h
    <3>1. OnItsWay(g) /\ work'[g] = work[g] /\ work[g].new \in 1..issued /\ work[g].new \notin again
      BY <1>1, <1>2, <1>3, <2>3 DEF CookieInv, CookieOK, Carried, Carries
    <3>2. n # work[g].new
      BY <1>1, <1>3, <3>1
    <3>3. \A f \in Handlers : Carries(f)' /\ work'[f].new = work[g].new => f = g
      BY <1>1, <1>2, <3>1, <3>2 DEF Carries, OnItsWay
    <3>4. \A f \in Handlers : work'[f].tok # work[g].new
      BY <1>1, <1>2, <3>1 DEF OnItsWay
    <3> QED
      BY <3>1, <3>3, <3>4 DEF OnItsWay
  <2> QED
    BY <2>2, <2>3
<1>5. Covered'
  BY <1>1, <1>2, <1>3 DEF CookieInv, CookieOK, Covered
<1>6. Unissued'
  BY <1>1, <1>3 DEF CookieInv, CookieOK, Unissued
<1> QED
  BY <1>4, <1>5, <1>6 DEF CookieOK
\* The token that was brought goes to the blacklist; its successor is with the same
\* handler, or the cookie will be removed.
LEMMA CookieBlacklisted ==
  ASSUME CookieInv, NEW h \in Handlers, Rotate(h) \/ LogoutBlacklists(h)
  PROVE  CookieOK'
<1> DEFINE t == work[h].tok
<1>1. /\ work \in [Handlers -> Work] /\ t \in 1..issued /\ issued \in 0..MaxTokens
      /\ token \in [Token -> {"good", "grace", "dead", "expired"}]
      /\ \A g \in Handlers : Carries(g) => work[g].new \in 1..issued
      /\ UNCHANGED <<issued, again, jar, cut>>
  BY CookieTypes DEF CookieInv, Rotate, LogoutBlacklists
<1>2. \A g \in Handlers \ {h} : work'[g] = work[g]
  BY <1>1 DEF Rotate, LogoutBlacklists, Begin
<1>3. /\ work'[h].tok = t /\ work'[h].new = work[h].new
      /\ \/ work[h].pc = "rotate" /\ work'[h].pc = "extend"
         \/ work[h].pc = "logout" /\ work'[h].pc = "bye"
  BY <1>1 DEF Rotate, LogoutBlacklists, Begin, Work
<1>4. \A k \in Token : k # t => token'[k] = token[k]
  BY <1>1 DEF Rotate, LogoutBlacklists, BlacklistToken
<1> HIDE DEF t
<1>5. Carried'
  <2> SUFFICES ASSUME NEW g \in Handlers, Carries(g)' PROVE OnItsWay(g)'
    BY DEF Carried
  <2>1. Carries(g) /\ work'[g].new = work[g].new
    BY <1>2, <1>3 DEF Carries
  <2>2. /\ OnItsWay(g) /\ work[g].new \in Token
        /\ work[g].new \notin again => work[g].new # t
    BY <1>1, <2>1 DEF CookieInv, CookieOK, Carried, OnItsWay, t
  <2>3. \A f \in Handlers : Carries(f)' => Carries(f) /\ work'[f].new = work[f].new
    BY <1>2, <1>3 DEF Carries
  <2>4. \A f \in Handlers : work'[f].tok = work[f].tok
    BY <1>2, <1>3 DEF t
  <2> QED
    BY <1>1, <1>4, <2>1, <2>2, <2>3, <2>4 DEF OnItsWay
<1>6. Covered'
  <2> SUFFICES ASSUME jar' \notin again' \cup {0}, token'[jar'] \in {"grace", "dead"}, ~cut'
               PROVE  \E g \in Handlers :
                        \/ work'[g].pc \in {"extend", "answer"} /\ work'[g].tok = jar'
                        \/ work'[g].pc = "bye"
    BY DEF Covered
  <2>1. CASE jar = t
    BY <1>1, <1>3, <2>1
  <2>2. CASE jar # t
    <3>1. jar \in Token
      BY <1>1 DEF CookieInv, Typed, TypeOK
    <3>2. token[jar] \in {"grace", "dead"}
      BY <1>1, <1>4, <2>2, <3>1
    <3>3. PICK g \in Handlers : \/ work[g].pc \in {"extend", "answer"} /\ work[g].tok = jar
                                \/ work[g].pc = "bye"
      BY <1>1, <3>2 DEF CookieInv, CookieOK, Covered
    <3> QED
      BY <1>1, <1>2, <1>3, <3>3
  <2> QED
    BY <2>1, <2>2
<1>7. Unissued'
  BY <1>1, <1>4 DEF CookieInv, CookieOK, Unissued
<1> QED
  BY <1>5, <1>6, <1>7 DEF CookieOK

\* The MasterKey's time is extended, or the answer will not hold the cookie.
LEMMA CookieExtends ==
  ASSUME CookieInv, NEW h \in Handlers, Extend(h)
  PROVE  CookieOK'
<1>1. work \in [Handlers -> Work] /\ UNCHANGED <<token, issued, again, jar>> /\ work[h].pc = "extend"
  BY CookieTypes DEF CookieInv, Extend
<1>2. CASE Begin(h, [work[h] EXCEPT !.pc = "answer"]) /\ UNCHANGED cut
  <2>1. /\ \A g \in Handlers \ {h} : work'[g] = work[g]
        /\ work'[h].pc = "answer" /\ work'[h].tok = work[h].tok /\ work'[h].new = work[h].new
    BY <1>1, <1>2 DEF Begin, Work
  <2>2. \A g \in Handlers : /\ Carries(g)' <=> Carries(g)
                            /\ work'[g].new = work[g].new /\ work'[g].tok = work[g].tok
    BY <1>1, <2>1 DEF Carries
  <2>3. Carried'
    BY <1>1, <2>2 DEF CookieInv, CookieOK, Carried, OnItsWay
  <2>4. Covered'
    BY <1>1, <1>2, <2>1 DEF CookieInv, CookieOK, Covered
  <2> QED
    BY <1>1, <2>3, <2>4 DEF CookieInv, CookieOK, Unissued
<1>3. CASE Answer(h) /\ cut' = TRUE
  <2>1. /\ \A g \in Handlers \ {h} : work'[g] = work[g]
        /\ work'[h].pc = "idle" /\ work'[h].tok = 0
    BY <1>1, <1>3 DEF Answer, NoWork, Handing
  <2>2. Carried'
    <3> SUFFICES ASSUME NEW g \in Handlers, Carries(g)' PROVE OnItsWay(g)'
      BY DEF Carried
    <3>1. g # h /\ work'[g] = work[g] /\ OnItsWay(g) /\ work[g].new # 0
      BY <1>1, <2>1, CookieTypes DEF Carries, CookieInv, CookieOK, Carried
    <3> QED
      BY <1>1, <2>1, <3>1 DEF OnItsWay, Carries
  <2>3. Covered'
    BY <1>3 DEF Covered
  <2> QED
    BY <1>1, <2>2, <2>3 DEF CookieInv, CookieOK, Unissued
<1> QED
  BY <1>2, <1>3 DEF Extend

\* The answer reaches the browser, or not; or the cookie is removed.
LEMMA CookieAnswers ==
  ASSUME CookieInv, NEW h \in Handlers, Cookie(h) \/ CookieRemoved(h)
  PROVE  CookieOK'
<1>1. work \in [Handlers -> Work] /\ UNCHANGED <<token, issued, again>>
  BY CookieTypes DEF CookieInv, Cookie, CookieRemoved
<1>2. /\ \A g \in Handlers \ {h} : work'[g] = work[g]
      /\ work'[h].pc = "idle" /\ work'[h].tok = 0
  BY <1>1 DEF Cookie, CookieRemoved, Answer, NoWork, Handing
<1>3. \/ Carries(h) /\ jar' = work[h].new
      \/ cut' = TRUE /\ jar' = jar
      \/ jar' = 0
  BY DEF Cookie, CookieRemoved, Carries
<1>4. Carried'
  <2> SUFFICES ASSUME NEW g \in Handlers, Carries(g)' PROVE OnItsWay(g)'
    BY DEF Carried
  <2>1. g # h /\ work'[g] = work[g] /\ Carries(g) /\ OnItsWay(g) /\ work[g].new # 0
    BY <1>1, <1>2, CookieTypes DEF Carries, CookieInv, CookieOK, Carried
  <2>2. work[g].new \notin again => jar' # work[g].new
    BY <1>3, <2>1 DEF OnItsWay
  <2> QED
    BY <1>1, <1>2, <2>1, <2>2 DEF OnItsWay, Carries
<1>5. Covered'
  <2>1. Carries(h) /\ work[h].new \notin again => token[work[h].new] \in {"good", "expired"}
    BY DEF CookieInv, CookieOK, Carried, OnItsWay
  <2>2. CASE cut' = TRUE
    BY <2>2 DEF Covered
  <2>3. CASE jar' = 0
    BY <2>3 DEF Covered
  <2>4. CASE Carries(h) /\ jar' = work[h].new
    BY <1>1, <2>1, <2>4 DEF Covered
  <2> QED
    BY <1>3, <2>2, <2>3, <2>4
<1> QED
  BY <1>1, <1>4, <1>5 DEF CookieInv, CookieOK, Unissued

\* Grace and RefreshTokenTTL pass; what is on its way is in no blacklist.
LEMMA CookieAges ==
  ASSUME CookieInv, NEW t \in Token, TokenAges(t)
  PROVE  CookieOK'
<1>1. /\ UNCHANGED <<issued, again, jar, cut, work>> /\ t <= issued /\ issued \in 0..MaxTokens
      /\ jar \in 0..issued
      /\ token \in [Token -> {"good", "grace", "dead", "expired"}]
      /\ \A g \in Handlers : Carries(g) => work[g].new \in Token
  BY CookieTypes DEF CookieInv, TokenAges
<1>2. \A k \in Token : /\ token[k] \in {"good", "expired"} => token'[k] \in {"good", "expired"}
                       /\ token'[k] \in {"grace", "dead"} => token[k] \in {"grace", "dead"}
                       /\ k > issued => token'[k] = token[k]
  BY <1>1 DEF TokenAges
<1>3. Carried'
  BY <1>1, <1>2 DEF CookieInv, CookieOK, Carried, Carries, OnItsWay
<1>4. Covered'
  BY <1>1, <1>2 DEF CookieInv, CookieOK, Covered
<1> QED
  BY <1>1, <1>2, <1>3, <1>4 DEF CookieInv, CookieOK, Unissued

\* A restart forgets the answers that were being written.
LEMMA CookieRestarts ==
  ASSUME CookieInv, Restart
  PROVE  CookieOK'
<1>1. /\ UNCHANGED <<token, issued, again, jar>> /\ \A g \in Handlers : ~Carries(g)'
      /\ ~cut' => ~cut /\ \A g \in Handlers : ~(work[g].pc \in {"extend", "answer", "bye"})
  BY DEF Restart, Carries, NoWork, Handing
<1>2. Covered'
  BY <1>1 DEF CookieInv, CookieOK, Covered
<1> QED
  BY <1>1, <1>2 DEF CookieInv, CookieOK, Unissued, Carried

LEMMA CookieRequest ==
  ASSUME CookieInv, NEW h \in Handlers, Ask(h)
  PROVE  CookieOK'
<1>0. Answer(h) => Begin(h, NoWork)
  BY DEF Answer, Begin
<1> USE DEF Arrives, factor, logins, tokens
<1>1. CASE Login(h)
  <2>1. \/ \E n \in Token : GenerateAccessToken(0, n) /\ Begin(h, Handing("answer", 0, n))
        \/ UNCHANGED <<issued, again, work>>
    BY <1>1, Zenon DEF Login
  <2>2. UNCHANGED <<token, jar, cut>> /\ work[h].pc = "idle"
    BY <1>1, Zenon DEF Login
  <2> QED
    BY <2>1, <2>2, CookieGiven, CookieStays
<1>2. CASE RefreshToken(h)
  BY <1>2, CookieGiven DEF RefreshToken
<1>3. CASE Logout(h)
  BY <1>3, CookieIdle DEF Logout, Handing
<1>4. CASE TOTPSetup(h)
  BY <1>4, CookieStays DEF TOTPSetup
<1>5. ASSUME NEW c \in Codes, TOTPConfirm(h, c) PROVE CookieOK'
  <2>1. CASE UNCHANGED work
    BY <1>5, <2>1, CookieStays DEF TOTPConfirm
  <2>2. CASE Begin(h, Checking("confirm", c, setup.secret, 0))
    BY <1>5, <2>2, CookieIdle DEF TOTPConfirm, Checking
  <2> QED
    BY <1>5, <2>1, <2>2 DEF TOTPConfirm
<1>6. ASSUME NEW c \in Codes, TOTPDisable(h, c) PROVE CookieOK'
  BY <1>6, CookieIdle DEF TOTPDisable, Checking
<1>7. ASSUME NEW c \in Codes, NEW l \in LoginId, AuthTOTP(h, l, c) PROVE CookieOK'
  <2>1. CASE UNCHANGED work
    BY <1>7, <2>1, CookieStays DEF AuthTOTP
  <2>2. CASE Begin(h, Checking("auth", c, None, l))
    BY <1>7, <2>2, CookieIdle DEF AuthTOTP, Checking
  <2> QED
    BY <1>7, <2>1, <2>2 DEF AuthTOTP
<1> QED
  BY <1>1, <1>2, <1>3, <1>4, <1>5, <1>6, <1>7 DEF Ask

LEMMA CookieServe ==
  ASSUME CookieInv, NEW h \in Handlers, Serve(h)
  PROVE  CookieOK'
<1>0. Answer(h) => Begin(h, Handing("idle", 0, 0))
  BY DEF Answer, Begin, NoWork
<1> USE DEF factor, logins, tokens
<1>1. CASE AuthCheck(h)
  <2>1. \/ \E n \in Token : GenerateAccessToken(0, n) /\ Begin(h, Handing("answer", 0, n))
        \/ Begin(h, Handing("idle", 0, 0)) /\ UNCHANGED <<issued, again>>
    BY <1>0, <1>1, Zenon DEF AuthCheck
  <2>2. UNCHANGED <<token, jar, cut>> /\ work[h].pc = "auth"
    BY <1>1, Zenon DEF AuthCheck
  <2>3. CASE Begin(h, Handing("idle", 0, 0)) /\ UNCHANGED <<issued, again>>
    BY <2>2, <2>3, CookieIdle DEF Handing
  <2> QED
    BY <2>1, <2>2, <2>3, CookieGiven
<1>2. CASE ConfirmEnd(h)
  BY <1>0, <1>2, CookieIdle DEF ConfirmEnd, Handing
<1>3. CASE ClearTOTPSecret(h)
  BY <1>0, <1>3, CookieIdle DEF ClearTOTPSecret, Handing
<1> QED
  BY <1>1, <1>2, <1>3, CookieBlacklisted, CookieExtends, CookieAnswers DEF Serve

LEMMA CookieStep == CookieInv /\ [Next]_vars => CookieInv'
<1> SUFFICES ASSUME CookieInv, [Next]_vars PROVE CookieInv'
  OBVIOUS
<1> USE DEF factor, logins, tokens
<1>1. Typed'
  BY NextTyped DEF CookieInv
<1>2. CASE Clock
  <2>1. CASE \E t \in Token : TokenAges(t)
    BY <1>1, <2>1, CookieAges DEF CookieInv
  <2>2. CASE ~ \E t \in Token : TokenAges(t)
    BY <1>1, <1>2, <2>2, CookieStays
    DEF CookieInv, Clock, LoginAges, SecondPasses, SetupExpires, SetupTimer, MasterKeyLeavesRedis
  <2> QED
    BY <1>1, <2>1, <2>2 DEF CookieInv
<1>3. CASE UNCHANGED vars
  BY <1>1, <1>3, CookieStays DEF vars, CookieInv
<1> QED
  BY <1>1, <1>2, <1>3, CookieRequest, CookieServe, CookieRestarts DEF Next, CookieInv

\* However the tabs of a browser refresh at the same time, and however long their
\* answers take, a browser whose answers all arrived holds a token that will be
\* accepted, or the answer with the next one, or the end of the session, is on its way;
\* but for a token that was issued again in its own second.
THEOREM SessionKept == Spec => []SessionSurvives
<1>1. Init => CookieInv
  <2> SUFFICES ASSUME Init PROVE CookieOK
    BY InitTyped DEF CookieInv
  <2> QED
    BY DEF Init, CookieOK, Unissued, Carried, Carries, Covered, NoWork, Handing
<1>2. CookieInv => SessionSurvives
  <2> SUFFICES ASSUME Covered PROVE SessionSurvives
    BY DEF CookieInv, CookieOK
  <2> QED
    BY DEF Covered, SessionSurvives
<1> QED
  BY <1>1, <1>2, CookieStep, PTL DEF Spec
=============================================================================
