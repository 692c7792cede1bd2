---------------------------- MODULE ChannelProofs ----------------------------
(***************************************************************************)
(* Proofs about Channels, for any users, kinds of channel, handlers, and   *)
(* failing calls and restarts: type correctness, that the scheduler marks  *)
(* nobody whose channels stay on (MarkedIsSwitchedOff), and that bots and  *)
(* files too are what rows and users are told (RowsAreTrue) when one       *)
(* request at a time changes a channel.                                    *)
(*                                                                         *)
(* That a bot is as its row says once nothing is under way for it says     *)
(* nothing of what is under way.  The invariant adds what each of them is  *)
(* about to tell the service: a goroutine of stopChannel what the row      *)
(* says, DeleteChannel and RestartActiveServices that it was, and still    *)
(* is, switched off or on.                                                 *)
(***************************************************************************)
EXTENDS MCChannels, TLAPS

Hand == [pc : {"idle", "disable", "restart", "flags", "data", "files"},
         user : Users \cup {None}, kind : Kinds \cup {None}, left : SUBSET Kinds]

\* What a handler has in hand at its step.
InHand(w) ==
    /\ w \in Hand
    /\ w.pc = "idle" => w = Idle
    /\ w.pc # "idle" => w.user \in Users
    /\ w.pc = "disable" => w.kind \in Kinds
HandlersOK == \A h \in Handlers : InHand(work[h])

Typed == TypeOK /\ HandlersOK

-----------------------------------------------------------------------------
(* The statements on the row. *)

\* The row has the enabled kinds, and none when it is missing.
LEMMA ActiveKinds ==
  ASSUME Typed, NEW u \in Users
  PROVE  GetActiveChannels(u) \in SUBSET Kinds
BY DEF Typed, TypeOK, GetActiveChannels

\* The services are told of what the row has and what was cleared in it.
LEMMA ToldOfUnchanged ==
  ASSUME NEW u \in Users, UNCHANGED <<row, cleared>>
  PROVE  GetActiveChannels(u)' = GetActiveChannels(u) /\ Told(u)' = Told(u)
BY DEF Told, GetActiveChannels

\* SaveChannelData switches one channel and leaves the rest.
LEMMA SavedRow ==
  ASSUME Typed, NEW u \in Users, NEW k \in Kinds, NEW on \in BOOLEAN,
         SaveChannelData(u, k, on)
  PROVE  /\ row' \in [Users -> (SUBSET Kinds) \cup {None}]
         /\ \A v \in Users : row'[v] # None => v \in accounts
         /\ \A v \in Users : v # u => GetActiveChannels(v)' = GetActiveChannels(v)
         /\ \A l \in Kinds : l # k =>
                (l \in GetActiveChannels(u)' <=> l \in GetActiveChannels(u))
         /\ on => k \in GetActiveChannels(u)'
         /\ ~on => k \notin GetActiveChannels(u)'
         /\ cleared' \subseteq Users \X Kinds
         /\ \A v \in Users, l \in Kinds : v # u \/ l # k => (l \in Told(v)' <=> l \in Told(v))
         /\ on <=> k \in Told(u)'
<1> DEFINE new == IF on THEN GetActiveChannels(u) \cup {k} ELSE GetActiveChannels(u) \ {k}
<1>1. new \in SUBSET Kinds
  BY ActiveKinds
<1>2. new # None
  BY <1>1, ChannelsAssumption
<1>3. row' = [row EXCEPT ![u] = new] /\ u \in accounts
  BY DEF SaveChannelData
<1>4. row \in [Users -> (SUBSET Kinds) \cup {None}] /\ \A v \in Users : row[v] # None => v \in accounts
  BY DEF Typed, TypeOK
<1>5. GetActiveChannels(u)' = new
  BY <1>2, <1>3, <1>4 DEF GetActiveChannels
<1>6. \A v \in Users : v # u => GetActiveChannels(v)' = GetActiveChannels(v)
  BY <1>3, <1>4 DEF GetActiveChannels
<1>7. row' \in [Users -> (SUBSET Kinds) \cup {None}] /\ \A v \in Users : row'[v] # None => v \in accounts
  BY <1>1, <1>3, <1>4
<1>8. cleared' = cleared \ {<<u, k>>} /\ cleared \subseteq Users \X Kinds
  BY DEF SaveChannelData, Typed, TypeOK
<1>9. \A v \in Users, l \in Kinds : v # u \/ l # k => (l \in Told(v)' <=> l \in Told(v))
  BY <1>5, <1>6, <1>8 DEF Told
<1>10. on <=> k \in Told(u)'
  BY <1>5, <1>8 DEF Told
<1> QED
  BY <1>5, <1>6, <1>7, <1>8, <1>9, <1>10

\* DeleteChannelData switches one channel off and leaves the rest.
LEMMA DeletedRow ==
  ASSUME Typed, NEW u \in Users, NEW k \in Kinds, DeleteChannelData(u, k)
  PROVE  /\ row' \in [Users -> (SUBSET Kinds) \cup {None}]
         /\ \A v \in Users : row'[v] # None => v \in accounts
         /\ \A v \in Users : v # u => GetActiveChannels(v)' = GetActiveChannels(v)
         /\ \A l \in Kinds : l # k =>
                (l \in GetActiveChannels(u)' <=> l \in GetActiveChannels(u))
         /\ k \notin GetActiveChannels(u)'
         /\ cleared' \subseteq Users \X Kinds
         /\ \A v \in Users, l \in Kinds : v # u \/ l # k => (l \in Told(v)' <=> l \in Told(v))
         /\ k \notin Told(u)'
<1> DEFINE Row == /\ row' \in [Users -> (SUBSET Kinds) \cup {None}]
                  /\ \A v \in Users : row'[v] # None => v \in accounts
                  /\ \A v \in Users : v # u => GetActiveChannels(v)' = GetActiveChannels(v)
                  /\ \A l \in Kinds : l # k =>
                         (l \in GetActiveChannels(u)' <=> l \in GetActiveChannels(u))
                  /\ k \notin GetActiveChannels(u)'
<1>1. row \in [Users -> (SUBSET Kinds) \cup {None}] /\ \A v \in Users : row[v] # None => v \in accounts
  BY DEF Typed, TypeOK
<1>2. ASSUME row[u] = None
      PROVE  Row
  <2>1. row' = row
    BY <1>1, <1>2 DEF DeleteChannelData
  <2> QED
    BY <1>1, <1>2, <2>1 DEF GetActiveChannels
<1>3. ASSUME row[u] # None
      PROVE  Row
  <2>1. row[u] \ {k} \in SUBSET Kinds /\ row[u] \ {k} # None
    BY <1>1, <1>3, ChannelsAssumption
  <2>2. row' = [row EXCEPT ![u] = row[u] \ {k}]
    BY <1>1, <1>3 DEF DeleteChannelData
  <2>3. GetActiveChannels(u)' = row[u] \ {k} /\ GetActiveChannels(u) = row[u]
    BY <1>1, <1>3, <2>1, <2>2 DEF GetActiveChannels
  <2>4. \A v \in Users : v # u => GetActiveChannels(v)' = GetActiveChannels(v)
    BY <1>1, <2>2 DEF GetActiveChannels
  <2>5. row' \in [Users -> (SUBSET Kinds) \cup {None}] /\ \A v \in Users : row'[v] # None => v \in accounts
    BY <1>1, <1>3, <2>1, <2>2
  <2> QED
    BY <2>3, <2>4, <2>5
<1>4. Row
  BY <1>2, <1>3
<1>5. cleared' = cleared \ {<<u, k>>} /\ cleared \subseteq Users \X Kinds
  BY DEF DeleteChannelData, Typed, TypeOK
<1>6. /\ \A v \in Users, l \in Kinds : v # u \/ l # k => (l \in Told(v)' <=> l \in Told(v))
      /\ k \notin Told(u)'
  BY <1>4, <1>5 DEF Told
<1> QED
  BY <1>4, <1>5, <1>6

\* DisableAllUserChannel leaves no flag of u, and those of the others; what
\* the services were told stays so.
LEMMA ClearedRow ==
  ASSUME Typed, NEW u \in Users, FlagsCleared(u)
  PROVE  /\ row' \in [Users -> (SUBSET Kinds) \cup {None}]
         /\ \A v \in Users : row'[v] # None => v \in accounts
         /\ \A v \in Users : v # u => GetActiveChannels(v)' = GetActiveChannels(v)
         /\ GetActiveChannels(u)' = {}
         /\ cleared' \subseteq Users \X Kinds
         /\ \A v \in Users : Told(v)' = Told(v)
<1>1. row \in [Users -> (SUBSET Kinds) \cup {None}] /\ \A v \in Users : row[v] # None => v \in accounts
  BY DEF Typed, TypeOK
<1>2. {} # None
  BY ChannelsAssumption
<1>3. cleared' = cleared \cup ({u} \X GetActiveChannels(u)) /\ cleared \subseteq Users \X Kinds
  BY DEF FlagsCleared, Typed, TypeOK
<1>4. cleared' \subseteq Users \X Kinds
  BY <1>3, ActiveKinds
<1>5. row' = [row EXCEPT ![u] = IF row[u] = None THEN None ELSE {}]
  BY <1>1 DEF FlagsCleared
<1>6. GetActiveChannels(u)' = {}
  BY <1>1, <1>2, <1>5 DEF GetActiveChannels
<1>7. \A v \in Users : v # u => GetActiveChannels(v)' = GetActiveChannels(v)
  BY <1>1, <1>5 DEF GetActiveChannels
<1>8. row' \in [Users -> (SUBSET Kinds) \cup {None}] /\ \A v \in Users : row'[v] # None => v \in accounts
  BY <1>1, <1>5
<1>9. ASSUME NEW v \in Users
      PROVE  Told(v)' = Told(v)
  <2>1. GetActiveChannels(u) \subseteq Kinds
    BY ActiveKinds
  <2>2. CASE v = u
    BY <1>3, <1>6, <2>1, <2>2 DEF Told
  <2>3. CASE v # u
    <3>1. \A k \in Kinds : <<v, k>> \in cleared' <=> <<v, k>> \in cleared
      BY <1>3, <2>3
    <3> QED
      BY <1>7, <2>3, <3>1 DEF Told
  <2> QED
    BY <2>2, <2>3
<1> QED
  BY <1>3, <1>4, <1>6, <1>7, <1>8, <1>9

\* DeleteAllUserData likewise, with the row itself.
LEMMA DroppedRow ==
  ASSUME Typed, NEW u \in Users, row' = [row EXCEPT ![u] = None],
         cleared' = cleared \cup ({u} \X GetActiveChannels(u))
  PROVE  /\ row' \in [Users -> (SUBSET Kinds) \cup {None}]
         /\ \A v \in Users : row'[v] # None => v \in accounts \ {u}
         /\ \A v \in Users : v # u => GetActiveChannels(v)' = GetActiveChannels(v)
         /\ GetActiveChannels(u)' = {}
         /\ cleared' \subseteq Users \X Kinds
         /\ \A v \in Users : Told(v)' = Told(v)
<1>1. row \in [Users -> (SUBSET Kinds) \cup {None}] /\ \A v \in Users : row[v] # None => v \in accounts
  BY DEF Typed, TypeOK
<1>2. cleared \subseteq Users \X Kinds
  BY DEF Typed, TypeOK
<1>3. cleared' \subseteq Users \X Kinds
  BY <1>2, ActiveKinds
<1>4. GetActiveChannels(u)' = {}
  BY <1>1 DEF GetActiveChannels
<1>5. \A v \in Users : v # u => GetActiveChannels(v)' = GetActiveChannels(v)
  BY <1>1 DEF GetActiveChannels
<1>6. row' \in [Users -> (SUBSET Kinds) \cup {None}] /\ \A v \in Users : row'[v] # None => v \in accounts \ {u}
  BY <1>1
<1>7. ASSUME NEW v \in Users
      PROVE  Told(v)' = Told(v)
  <2>1. GetActiveChannels(u) \subseteq Kinds
    BY ActiveKinds
  <2>2. CASE v = u
    BY <1>4, <2>1, <2>2 DEF Told
  <2>3. CASE v # u
    <3>1. \A k \in Kinds : <<v, k>> \in cleared' <=> <<v, k>> \in cleared
      BY <2>3
    <3> QED
      BY <1>5, <2>3, <3>1 DEF Told
  <2> QED
    BY <2>2, <2>3
<1> QED
  BY <1>3, <1>4, <1>5, <1>6, <1>7

\* Only the bot of kind k of user u, and whether it is counted as failed, moves.
MovesOnly(u, k) ==
    \A v \in Users, l \in Kinds : <<v, l>> # <<u, k>> =>
        /\ <<v, l>> \in drift' <=> <<v, l>> \in drift
        /\ l \in bot'[v] <=> l \in bot[v]

\* A call to a service is about one bot; it ends as the row says, or is counted
\* as failed, or leaves the count as it was and the bot as it asked.
LEMMA CallOutcome ==
  ASSUME Typed, NEW u \in Users, NEW k \in Kinds, NEW start \in BOOLEAN, BotCall(u, k, start)
  PROVE  /\ bot' \in [Users -> SUBSET Kinds] /\ drift' \subseteq Users \X Kinds
         /\ faults' \in 0..MaxFaults
         /\ MovesOnly(u, k)
         /\ <<u, k>> \in drift' \/ /\ start <=> k \in bot'[u]
                                   /\ \/ start <=> k \in Told(u)
                                      \/ <<u, k>> \notin drift
<1> DEFINE done == IF start THEN bot[u] \cup {k} ELSE bot[u] \ {k}
<1> USE ChannelsAssumption
<1>1. /\ bot \in [Users -> SUBSET Kinds] /\ drift \subseteq Users \X Kinds
      /\ faults \in 0..MaxFaults
  BY DEF Typed, TypeOK
<1>2. done \in SUBSET Kinds /\ (start <=> k \in done) /\ \A l \in Kinds : l # k => (l \in done <=> l \in bot[u])
  BY <1>1
<1>3. CASE /\ bot' = [bot EXCEPT ![u] = done] /\ UNCHANGED faults
           /\ drift' = IF start = (k \in Told(u)) THEN drift \ {<<u, k>>} ELSE drift
  <2>1. bot' \in [Users -> SUBSET Kinds] /\ bot'[u] = done /\ \A v \in Users : v # u => bot'[v] = bot[v]
    BY <1>1, <1>2, <1>3
  <2>2. CASE start <=> k \in Told(u)
    <3>1. drift' = drift \ {<<u, k>>}
      BY <1>3, <2>2
    <3> QED
      BY <1>1, <1>2, <1>3, <2>1, <2>2, <3>1 DEF MovesOnly
  <2>3. CASE ~(start <=> k \in Told(u))
    <3>1. drift' = drift
      BY <1>3, <2>3
    <3> QED
      BY <1>1, <1>2, <1>3, <2>1, <2>3, <3>1 DEF MovesOnly
  <2> QED
    BY <2>2, <2>3
<1>4. CASE /\ Fault /\ drift' = drift \cup {<<u, k>>}
           /\ \E b \in {bot[u], done} : bot' = [bot EXCEPT ![u] = b]
  <2>1. faults' \in 0..MaxFaults
    BY <1>1, <1>4 DEF Fault
  <2>2. PICK b \in {bot[u], done} : bot' = [bot EXCEPT ![u] = b]
    BY <1>4
  <2>3. b \in SUBSET Kinds /\ \A l \in Kinds : l # k => (l \in b <=> l \in bot[u])
    BY <1>1, <1>2
  <2>4. bot' \in [Users -> SUBSET Kinds] /\ bot'[u] = b /\ \A v \in Users : v # u => bot'[v] = bot[v]
    BY <1>1, <2>2, <2>3
  <2> QED
    BY <1>1, <1>4, <2>1, <2>3, <2>4 DEF MovesOnly
<1> QED
  BY <1>3, <1>4 DEF BotCall

-----------------------------------------------------------------------------
(* Types. *)

\* A handler goes on with what its next step needs.
LEMMA HandGoesOn ==
  ASSUME Typed, NEW h \in Handlers, NEW w, InHand(w), Goto(h, w)
  PROVE  work' \in [Handlers -> Hand] /\ HandlersOK'
<1>1. work \in [Handlers -> Hand]
  BY DEF Typed, TypeOK, Hand
<1>2. work' = [work EXCEPT ![h] = w] /\ w \in Hand
  BY DEF Goto, InHand
<1>3. \A g \in Handlers : InHand(work[g])
  BY DEF Typed, HandlersOK
<1>4. \A g \in Handlers : work'[g] = IF g = h THEN w ELSE work[g]
  BY <1>1, <1>2
<1>5. \A g \in Handlers : InHand(work'[g])
  BY <1>3, <1>4
<1> QED
  BY <1>1, <1>2, <1>5 DEF HandlersOK

\* A handler that has answered has nothing in hand.
LEMMA IdleHand == InHand(Idle)
BY DEF InHand, Idle, Hand

\* Every step keeps the types, and every handler what its next step needs.
LEMMA TypedStep == Typed /\ [Next]_vars => Typed'
<1> SUFFICES ASSUME Typed, [Next]_vars
             PROVE  Typed'
  OBVIOUS
<1> USE ChannelsAssumption
<1>1. TypeOK /\ work \in [Handlers -> Hand] /\ \A h \in Handlers : InHand(work[h])
  BY DEF Typed, TypeOK, Hand, HandlersOK
<1> DEFINE Hands == work' \in [Handlers -> Hand] /\ HandlersOK'
<1>2. UNCHANGED work => Hands
  BY <1>1 DEF Typed, HandlersOK
<1>3. SUFFICES Hands /\ (Hands => TypeOK')
  BY DEF Typed
<1>4. CASE UNCHANGED vars
  BY <1>1, <1>2, <1>4 DEF vars, channels, subscription, storage, remains, TypeOK
<1>5. ASSUME NEW u \in Users, NEW k \in Kinds, NEW on \in BOOLEAN, SaveChannel(u, k, on)
      PROVE  Hands /\ (Hands => TypeOK')
  <2>1. SaveChannelData(u, k, on)
    BY <1>5 DEF SaveChannel
  <2> QED
    BY <1>1, <1>2, <1>5, <2>1, SavedRow DEF SaveChannel, subscription, storage, TypeOK, Hand, Call
<1>6. ASSUME NEW c \in calls, StopChannel(c)
      PROVE  Hands /\ (Hands => TypeOK')
  <2>1. /\ BotCall(c.user, c.kind, c.start)
        /\ c.user \in Users /\ c.kind \in Kinds /\ c.start \in BOOLEAN
    BY <1>1, <1>6 DEF StopChannel, TypeOK, Call
  <2>2. /\ bot' \in [Users -> SUBSET Kinds] /\ drift' \subseteq Users \X Kinds
        /\ faults' \in 0..MaxFaults
    BY <2>1, CallOutcome
  <2> QED
    BY <1>1, <1>2, <1>6, <2>2 DEF StopChannel, subscription, storage, TypeOK, Hand
<1>7. ASSUME NEW h \in Handlers, NEW u \in Users, NEW k \in Kinds, DeleteChannel(h, u, k)
      PROVE  Hands /\ (Hands => TypeOK')
  <2>1. DeleteChannelData(u, k)
    BY <1>7 DEF DeleteChannel
  <2>2. InHand([Idle EXCEPT !.pc = "disable", !.user = u, !.kind = k])
    BY DEF InHand, Idle, Hand
  <2>3. Hands
    BY <1>7, <2>2, HandGoesOn DEF DeleteChannel
  <2> QED
    BY <1>1, <1>7, <2>1, <2>3, DeletedRow
    DEF DeleteChannel, subscription, storage, remains, TypeOK, Hand
<1>8. ASSUME NEW h \in Handlers, DisableChannel(h)
      PROVE  Hands /\ (Hands => TypeOK')
  <2>1. work[h].user \in Users /\ work[h].kind \in Kinds
    BY <1>1, <1>8 DEF DisableChannel, At, InHand
  <2>2. Hands
    BY <1>8, IdleHand, HandGoesOn DEF DisableChannel
  <2>3. /\ bot' \in [Users -> SUBSET Kinds] /\ drift' \subseteq Users \X Kinds
        /\ faults' \in 0..MaxFaults
    <3>1. CASE BotCall(work[h].user, work[h].kind, FALSE)
      BY <2>1, <3>1, CallOutcome
    <3>2. CASE /\ drift' = drift \cup {<<work[h].user, work[h].kind>>}
               /\ UNCHANGED <<bot, faults>>
      BY <1>1, <2>1, <3>2 DEF TypeOK
    <3> QED
      BY <1>8, <3>1, <3>2 DEF DisableChannel
  <2> QED
    BY <1>1, <1>8, <2>2, <2>3 DEF DisableChannel, subscription, storage, TypeOK, Hand
<1>9. ASSUME NEW h \in Handlers, NEW u \in Users, RestartActiveServices(h, u)
      PROVE  Hands /\ (Hands => TypeOK')
  <2>1. InHand([Idle EXCEPT !.pc = "restart", !.user = u, !.left = GetActiveChannels(u)])
    BY ActiveKinds DEF InHand, Idle, Hand
  <2>2. Hands
    BY <1>9, <2>1, HandGoesOn DEF RestartActiveServices
  <2> QED
    BY <1>1, <1>9, <2>2 DEF RestartActiveServices, channels, subscription, storage, remains,
                            TypeOK, Hand
<1>10. ASSUME NEW h \in Handlers, RestartChannel(h)
       PROVE  Hands /\ (Hands => TypeOK')
  <2> DEFINE u == work[h].user
             left == work[h].left
  <2>1. u \in Users /\ left \in SUBSET Kinds
    BY <1>1, <1>10 DEF RestartChannel, At, InHand, Hand
  <2>2. PICK k \in left :
          /\ IF k \in OnRestart THEN BotCall(u, k, TRUE) ELSE UNCHANGED <<bot, drift, faults>>
          /\ Goto(h, IF left = {k} THEN Idle ELSE [work[h] EXCEPT !.left = left \ {k}])
    BY <1>10 DEF RestartChannel
  <2>3. InHand([work[h] EXCEPT !.left = left \ {k}])
    <3>1. work[h] \in Hand /\ work[h].pc = "restart"
      BY <1>1, <1>10 DEF RestartChannel, At
    <3> QED
      BY <2>1, <3>1 DEF InHand, Hand
  <2>4. Hands
    BY <2>2, <2>3, IdleHand, HandGoesOn
  <2>5. /\ bot' \in [Users -> SUBSET Kinds] /\ drift' \subseteq Users \X Kinds
        /\ faults' \in 0..MaxFaults
    <3>1. CASE BotCall(u, k, TRUE)
      BY <2>1, <3>1, CallOutcome
    <3>2. CASE UNCHANGED <<bot, drift, faults>>
      BY <1>1, <3>2 DEF TypeOK
    <3> QED
      BY <2>2, <3>1, <3>2
  <2> QED
    BY <1>1, <1>10, <2>4, <2>5 DEF RestartChannel, subscription, storage, TypeOK, Hand
<1>11. ASSUME NEW u \in Users, Expire(u)
       PROVE  Hands /\ (Hands => TypeOK')
  BY <1>1, <1>2, <1>11 DEF Expire, channels, storage, remains, TypeOK, Hand
<1>12. CASE CheckUserSubscription
  BY <1>1, <1>2, <1>12 DEF CheckUserSubscription, UsersWithoutSubscription, channels, storage,
                           remains, TypeOK, Hand
<1>13. ASSUME NEW u \in Users, DisableFlags(u)
       PROVE  Hands /\ (Hands => TypeOK')
  <2>1. CASE FlagsCleared(u) /\ UNCHANGED <<faults, excused>>
    BY <1>1, <1>2, <1>13, <2>1, ClearedRow DEF DisableFlags, storage, TypeOK, Hand
  <2>2. CASE Fault /\ excused' = excused \cup {u} /\ UNCHANGED <<row, cleared>>
    BY <1>1, <1>2, <1>13, <2>2 DEF DisableFlags, Fault, storage, TypeOK, Hand
  <2> QED
    BY <1>13, <2>1, <2>2 DEF DisableFlags
<1>14. CASE SetUsersSubscriptionNotified
  BY <1>1, <1>2, <1>14 DEF SetUsersSubscriptionNotified, Fault, channels, storage, remains,
                           TypeOK, Hand
<1>15. ASSUME NEW u \in Users, PresignUpload(u)
       PROVE  Hands /\ (Hands => TypeOK')
  BY <1>1, <1>2, <1>15 DEF PresignUpload, Resolve, Resolved, channels, subscription, remains,
                           TypeOK, Hand
<1>16. ASSUME NEW l \in links, Upload(l)
       PROVE  Hands /\ (Hands => TypeOK')
  BY <1>1, <1>2, <1>16 DEF Upload, channels, subscription, remains, TypeOK, Hand
<1>17. ASSUME NEW u \in Users, CacheEnds(u)
       PROVE  Hands /\ (Hands => TypeOK')
  BY <1>1, <1>2, <1>17 DEF CacheEnds, channels, subscription, remains, TypeOK, Hand
<1>18. ASSUME NEW h \in Handlers, NEW u \in Users, DeleteAccount(h, u)
       PROVE  Hands /\ (Hands => TypeOK')
  <2>1. InHand([Idle EXCEPT !.pc = "flags", !.user = u])
    BY DEF InHand, Idle, Hand
  <2>2. Hands
    BY <1>18, <2>1, HandGoesOn DEF DeleteAccount
  <2> QED
    BY <1>1, <1>18, <2>2 DEF DeleteAccount, channels, subscription, storage, remains, TypeOK, Hand
<1>19. ASSUME NEW h \in Handlers, ClearFlags(h)
       PROVE  Hands /\ (Hands => TypeOK')
  <2>1. work[h].user \in Users /\ InHand([work[h] EXCEPT !.pc = "data"])
    BY <1>1, <1>19 DEF ClearFlags, At, InHand, Hand
  <2>2. Hands
    BY <1>19, <2>1, HandGoesOn DEF ClearFlags
  <2>3. CASE FlagsCleared(work[h].user) /\ UNCHANGED faults
    BY <1>1, <1>19, <2>1, <2>2, <2>3, ClearedRow DEF ClearFlags, subscription, storage, TypeOK, Hand
  <2>4. CASE Fault /\ UNCHANGED <<row, cleared>>
    BY <1>1, <1>19, <2>2, <2>4 DEF ClearFlags, Fault, subscription, storage, TypeOK, Hand
  <2> QED
    BY <1>19, <2>3, <2>4 DEF ClearFlags
<1>20. ASSUME NEW h \in Handlers, DeleteAllUserData(h)
       PROVE  Hands /\ (Hands => TypeOK')
  <2> DEFINE u == work[h].user
  <2>1. u \in Users /\ InHand([work[h] EXCEPT !.pc = "files"])
    BY <1>1, <1>20 DEF DeleteAllUserData, At, InHand, Hand
  <2>2. Hands
    BY <1>20, <2>1, IdleHand, HandGoesOn DEF DeleteAllUserData
  <2>3. CASE /\ accounts' = accounts \ {u}
             /\ row' = [row EXCEPT ![u] = None]
             /\ cleared' = cleared \cup ({u} \X GetActiveChannels(u))
             /\ expired' = expired \ {u} /\ notified' = notified \ {u}
             /\ config' = [config EXCEPT ![u] = "internal"]
             /\ UNCHANGED faults
    BY <1>1, <1>20, <2>1, <2>2, <2>3, DroppedRow DEF DeleteAllUserData, TypeOK, Hand, Backends
  <2>4. CASE Fault /\ UNCHANGED <<accounts, row, cleared, expired, notified, config>>
    BY <1>1, <1>20, <2>2, <2>4 DEF DeleteAllUserData, Fault, TypeOK, Hand
  <2> QED
    BY <1>20, <2>3, <2>4 DEF DeleteAllUserData
<1>21. ASSUME NEW h \in Handlers, DeleteUserS3Directory(h)
       PROVE  Hands /\ (Hands => TypeOK')
  <2>1. work[h].user \in Users
    BY <1>1, <1>21 DEF DeleteUserS3Directory, At, InHand
  <2>2. Hands
    BY <1>21, IdleHand, HandGoesOn DEF DeleteUserS3Directory
  <2>3. faults' \in 0..MaxFaults
    BY <1>1, <1>21 DEF DeleteUserS3Directory, Fault, TypeOK
  <2>4. cached' \in [Users -> Backends \cup {None}]
    BY <1>1, <1>21, <2>1 DEF DeleteUserS3Directory, Resolve, Resolved, TypeOK
  <2>5. files' \in [Users -> SUBSET Backends] /\ erased' \subseteq Users
    BY <1>1, <1>21, <2>1 DEF DeleteUserS3Directory, TypeOK
  <2> QED
    BY <1>1, <1>21, <2>2, <2>3, <2>4, <2>5
    DEF DeleteUserS3Directory, channels, subscription, TypeOK, Hand
<1>22. CASE Restart
  <2>1. Hands
    BY <1>22, IdleHand DEF Restart, HandlersOK, InHand
  <2>2. drift' \subseteq Users \X Kinds
    BY <1>1, <1>22 DEF Restart, TypeOK, Call, At, InHand
  <2> QED
    BY <1>1, <1>22, <2>1, <2>2 DEF Restart, Fault, storage, TypeOK, Hand
<1> QED
  BY <1>4, <1>5, <1>6, <1>7, <1>8, <1>9, <1>10, <1>11, <1>12, <1>13, <1>14, <1>15, <1>16, <1>17,
     <1>18, <1>19, <1>20, <1>21, <1>22 DEF Next, Scheduled, Goroutines, Serve, Asks, Outside

\* The types hold from the start.
LEMMA TypedInit == Init => Typed
BY ChannelsAssumption, IdleHand DEF Init, Typed, TypeOK, HandlersOK, Idle, Hand, Backends, At

\* Types, for any users, kinds, handlers and faults: a handler has a user, and a
\* channel where it needs one, and no flag is left of a user who is gone.
THEOREM ChannelTypeCorrect == Spec => []TypeOK
<1>1. Typed => TypeOK
  BY DEF Typed
<1> QED
  BY <1>1, TypedInit, TypedStep, PTL DEF Spec
-----------------------------------------------------------------------------
(* Bots. *)

\* The goroutine c of stopChannel is about the channel k of u; the handler h has
\* this channel still to switch off, or to start, or is at work on it otherwise.
About(c, u, k) == c.user = u /\ c.kind = k
Disables(h, u, k) == At(h, "disable") /\ work[h].user = u /\ work[h].kind = k
Restarts(h, u, k) == At(h, "restart") /\ work[h].user = u /\ k \in work[h].left
Busy(h, u, k) == /\ work[h].user = u /\ (At(h, "disable") => work[h].kind = k)
                 /\ (At(h, "restart") => k \in work[h].left)

\* OneChangeAtATime, with goroutines and handlers told apart.
Alone ==
    \A u \in Users, k \in Kinds :
        /\ \A c, d \in calls : About(c, u, k) /\ About(d, u, k) => c = d
        /\ \A g, h \in Handlers : Busy(g, u, k) /\ Busy(h, u, k) => g = h
        /\ \A c \in calls, h \in Handlers : ~(About(c, u, k) /\ Busy(h, u, k))

\* A service will be told no more of the channel k of u.
NobodyTells(u, k) ==
    /\ \A c \in calls : ~About(c, u, k)
    /\ \A h \in Handlers : ~Disables(h, u, k)

\* Unless a call failed, was refused or was never sent, what the services will be
\* told is what the row says, or said before it was cleared, and it is what they were
\* told last if they will be told nothing.
Agrees(u, k) ==
    <<u, k>> \notin drift =>
        /\ \A c \in calls : About(c, u, k) => (c.start <=> k \in Told(u))
        /\ \A h \in Handlers : Disables(h, u, k) => k \notin Told(u)
        /\ \A h \in Handlers : Restarts(h, u, k) => k \in Told(u)
        /\ NobodyTells(u, k) => (k \in bot[u] <=> k \in Told(u))

AllAgree == \A u \in Users, k \in Kinds : Agrees(u, k)

\* The two ways to say that one request at a time changes a channel are the same:
\* no goroutine of stopChannel is one that serves requests.
LEMMA ChangesAlone == Typed /\ OneChangeAtATime => Alone
<1> SUFFICES ASSUME Typed, OneChangeAtATime, NEW u \in Users, NEW k \in Kinds
             PROVE  /\ \A c, d \in calls : About(c, u, k) /\ About(d, u, k) => c = d
                    /\ \A g, h \in Handlers : Busy(g, u, k) /\ Busy(h, u, k) => g = h
                    /\ \A c \in calls, h \in Handlers : ~(About(c, u, k) /\ Busy(h, u, k))
  BY DEF Alone
<1>1. \A a, b \in UnderWay(u, k) : a = b
  BY DEF OneChangeAtATime
<1>2. \A c \in calls : About(c, u, k) => c \in UnderWay(u, k)
  BY DEF UnderWay, About
<1>3. \A h \in Handlers : Busy(h, u, k) => h \in UnderWay(u, k)
  BY DEF UnderWay, Busy
<1>4. \A c \in calls, h \in Handlers : c # h
  BY ChannelsAssumption DEF Typed, TypeOK
<1> QED
  BY <1>1, <1>2, <1>3, <1>4

\* A handler that switches a channel off or starts it is at work on it.
LEMMA TellersAreBusy ==
  \A h \in Handlers, u \in Users, k \in Kinds :
      Disables(h, u, k) \/ Restarts(h, u, k) => Busy(h, u, k)
BY DEF Disables, Restarts, Busy, At

\* What a step has to leave alone for a channel it is not about.
LEMMA NotAbout ==
  ASSUME NEW u \in Users, NEW k \in Kinds, Agrees(u, k),
         <<u, k>> \in drift => <<u, k>> \in drift',
         k \in Told(u)' <=> k \in Told(u),
         k \in bot'[u] <=> k \in bot[u],
         \A c \in calls' : About(c, u, k) => c \in calls,
         \A c \in calls : About(c, u, k) => c \in calls',
         \A h \in Handlers : Disables(h, u, k)' <=> Disables(h, u, k),
         \A h \in Handlers :
             Restarts(h, u, k)' => Restarts(h, u, k) \/ k \in Told(u)
  PROVE  Agrees(u, k)'
<1> SUFFICES ASSUME <<u, k>> \notin drift'
             PROVE  /\ \A c \in calls' : About(c, u, k) => (c.start <=> k \in Told(u)')
                    /\ \A h \in Handlers : Disables(h, u, k)' => k \notin Told(u)'
                    /\ \A h \in Handlers : Restarts(h, u, k)' => k \in Told(u)'
                    /\ NobodyTells(u, k)' => (k \in bot'[u] <=> k \in Told(u)')
  BY DEF Agrees, About
<1>1. <<u, k>> \notin drift
  OBVIOUS
<1>2. NobodyTells(u, k)' => NobodyTells(u, k)
  BY DEF NobodyTells, About
<1> QED
  BY <1>1, <1>2 DEF Agrees

\* What a handler has in hand matters for bots at two labels only.
LEMMA HandsElsewhere ==
  ASSUME Typed, NEW h \in Handlers, NEW w, Goto(h, w), NEW u \in Users, NEW k \in Kinds
  PROVE  /\ \A g \in Handlers : g # h => /\ Disables(g, u, k)' <=> Disables(g, u, k)
                                         /\ Restarts(g, u, k)' <=> Restarts(g, u, k)
                                         /\ Busy(g, u, k)' <=> Busy(g, u, k)
         /\ Disables(h, u, k)' <=> w.pc = "disable" /\ w.user = u /\ w.kind = k
         /\ Restarts(h, u, k)' <=> w.pc = "restart" /\ w.user = u /\ k \in w.left
         /\ Busy(h, u, k)' <=> /\ w.user = u /\ (w.pc = "disable" => w.kind = k)
                               /\ (w.pc = "restart" => k \in w.left)
<1>1. work \in [Handlers -> Hand]
  BY DEF Typed, TypeOK, Hand
<1>2. work' = [work EXCEPT ![h] = w]
  BY DEF Goto
<1>3. work'[h] = w /\ \A g \in Handlers : g # h => work'[g] = work[g]
  BY <1>1, <1>2
<1> QED
  BY <1>3 DEF Disables, Restarts, Busy, At
\* Switching a channel in the row starts a goroutine that will tell the service
\* the same, or is counted as not told.
LEMMA SaveAgrees ==
  ASSUME Typed, Alone', AllAgree, NEW u \in Users, NEW k \in Kinds, NEW on \in BOOLEAN,
         SaveChannel(u, k, on)
  PROVE  AllAgree'
<1> DEFINE c == [user |-> u, kind |-> k, start |-> on]
<1>1. /\ SaveChannelData(u, k, on)
      /\ calls' = IF k \in OnSave THEN calls \cup {c} ELSE calls
      /\ drift' = IF k \in OnSave THEN drift \ {<<u, k>>} ELSE drift \cup {<<u, k>>}
      /\ UNCHANGED <<bot, work>>
  BY DEF SaveChannel
<1>2. c \in Call /\ c.user = u /\ c.kind = k /\ c.start = on
  BY DEF Call
<1>3. SUFFICES ASSUME NEW v \in Users, NEW l \in Kinds
               PROVE  Agrees(v, l)'
  BY DEF AllAgree
<1>4. CASE v # u \/ l # k
  <2>1. l \in Told(v)' <=> l \in Told(v)
    BY <1>1, <1>4, SavedRow
  <2>2. <<v, l>> # <<u, k>>
    BY <1>4
  <2>3. <<v, l>> \in drift => <<v, l>> \in drift'
    BY <1>1, <2>2
  <2>4. /\ \A d \in calls' : About(d, v, l) => d \in calls
        /\ \A d \in calls : About(d, v, l) => d \in calls'
    BY <1>1, <1>2, <1>4 DEF About
  <2>5. \A h \in Handlers : /\ Disables(h, v, l)' <=> Disables(h, v, l)
                            /\ Restarts(h, v, l)' <=> Restarts(h, v, l)
    BY <1>1 DEF Disables, Restarts, At
  <2>6. l \in bot'[v] <=> l \in bot[v]
    BY <1>1
  <2>7. Agrees(v, l)
    BY DEF AllAgree
  <2> QED
    BY <2>1, <2>3, <2>4, <2>5, <2>6, <2>7, NotAbout
<1>5. CASE v = u /\ l = k /\ k \notin OnSave
  BY <1>1, <1>5 DEF Agrees
<1>6. CASE v = u /\ l = k /\ k \in OnSave
  <2>1. c \in calls' /\ About(c, u, k)
    BY <1>1, <1>2, <1>6 DEF About
  <2>2. /\ \A d \in calls' : About(d, u, k) => d = c
        /\ \A h \in Handlers : ~Busy(h, u, k)'
    BY <2>1 DEF Alone, About
  <2>3. \A h \in Handlers : ~Disables(h, u, k)' /\ ~Restarts(h, u, k)'
    BY <2>2 DEF Disables, Restarts, Busy, At
  <2>4. on <=> k \in Told(u)'
    BY <1>1, SavedRow
  <2>5. ~NobodyTells(u, k)'
    BY <2>1 DEF NobodyTells, About
  <2>6. \A d \in calls' : About(d, u, k) => (d.start <=> k \in Told(u)')
    BY <1>2, <2>2, <2>4
  <2> QED
    BY <1>6, <2>3, <2>5, <2>6 DEF Agrees, About
<1> QED
  BY <1>4, <1>5, <1>6

\* The goroutine of stopChannel tells what the row says, alone.
LEMMA StopAgrees ==
  ASSUME Typed, Alone, AllAgree, NEW c \in calls, StopChannel(c)
  PROVE  AllAgree'
<1> DEFINE u == c.user
           k == c.kind
           on == c.start
<1>1. u \in Users /\ k \in Kinds /\ on \in BOOLEAN /\ BotCall(u, k, on)
  BY DEF StopChannel, Typed, TypeOK, Call
<1>2. calls' = calls \ {c} /\ UNCHANGED <<row, cleared, work>>
  BY DEF StopChannel
<1>3. SUFFICES ASSUME NEW v \in Users, NEW l \in Kinds
               PROVE  Agrees(v, l)'
  BY DEF AllAgree
<1>4. l \in Told(v)' <=> l \in Told(v)
  BY <1>2, ToldOfUnchanged
<1>5. \A h \in Handlers : /\ Disables(h, v, l)' <=> Disables(h, v, l)
                          /\ Restarts(h, v, l)' <=> Restarts(h, v, l)
  BY <1>2 DEF Disables, Restarts, At
<1>6. Agrees(v, l)
  BY DEF AllAgree
<1>7. CASE v # u \/ l # k
  <2>1. <<v, l>> # <<u, k>>
    BY <1>7
  <2>2. /\ <<v, l>> \in drift' <=> <<v, l>> \in drift
        /\ l \in bot'[v] <=> l \in bot[v]
    <3>1. MovesOnly(u, k)
      BY <1>1, CallOutcome
    <3> QED
      BY <2>1, <3>1 DEF MovesOnly
  <2>3. /\ \A d \in calls' : About(d, v, l) => d \in calls
        /\ \A d \in calls : About(d, v, l) => d \in calls'
    BY <1>2, <1>7 DEF About
  <2> QED
    BY <1>4, <1>5, <1>6, <2>2, <2>3, NotAbout
<1>8. CASE v = u /\ l = k
  <2>1. About(c, u, k)
    BY DEF About
  <2>2. /\ \A d \in calls' : ~About(d, u, k)
        /\ \A h \in Handlers : ~Busy(h, u, k)
    BY <1>1, <1>2, <2>1 DEF Alone
  <2>3. \A h \in Handlers : ~Disables(h, u, k) /\ ~Restarts(h, u, k)
    BY <1>1, <2>2, TellersAreBusy
  <2>4. \/ <<u, k>> \in drift'
        \/ /\ c.start <=> k \in bot'[u]
           /\ (c.start <=> k \in Told(u)) \/ <<u, k>> \notin drift
    BY <1>1, CallOutcome
  <2>5. <<u, k>> \notin drift => (c.start <=> k \in Told(u))
    BY <1>6, <1>8, <2>1 DEF Agrees
  <2>6. <<u, k>> \in drift' \/ (k \in bot'[u] <=> k \in Told(u)')
    BY <1>4, <1>8, <2>4, <2>5
  <2>7. /\ \A d \in calls' : ~(About(d, u, k)')
        /\ \A h \in Handlers : ~Disables(h, u, k)' /\ ~Restarts(h, u, k)'
    BY <1>5, <1>8, <2>2, <2>3 DEF About
  <2> QED
    BY <1>8, <2>6, <2>7 DEF Agrees
<1> QED
  BY <1>7, <1>8

\* Deleting a channel switches it off in the row, with nothing else under way.
LEMMA DeleteAgrees ==
  ASSUME Typed, Alone', AllAgree, NEW h \in Handlers, NEW u \in Users, NEW k \in Kinds,
         DeleteChannel(h, u, k)
  PROVE  AllAgree'
<1> DEFINE w == [Idle EXCEPT !.pc = "disable", !.user = u, !.kind = k]
<1>1. /\ At(h, "idle") /\ DeleteChannelData(u, k) /\ Goto(h, w)
      /\ UNCHANGED <<bot, calls, drift>>
  BY DEF DeleteChannel, remains
<1>2. w.pc = "disable" /\ w.user = u /\ w.kind = k
  BY DEF Idle
<1> HIDE DEF w
<1>3. SUFFICES ASSUME NEW v \in Users, NEW l \in Kinds
               PROVE  Agrees(v, l)'
  BY DEF AllAgree
<1>4. CASE v # u \/ l # k
  <2>1. l \in Told(v)' <=> l \in Told(v)
    BY <1>1, <1>4, DeletedRow
  <2>2. ~Disables(h, v, l) /\ ~Restarts(h, v, l)
    BY <1>1 DEF Disables, Restarts, At
  <2>3. \A g \in Handlers : /\ Disables(g, v, l)' <=> Disables(g, v, l)
                            /\ Restarts(g, v, l)' <=> Restarts(g, v, l)
    BY <1>1, <1>2, <1>4, <2>2, HandsElsewhere
  <2>4. /\ Agrees(v, l)
        /\ <<v, l>> \in drift => <<v, l>> \in drift'
        /\ l \in bot'[v] <=> l \in bot[v]
        /\ \A d \in calls' : About(d, v, l) => d \in calls
        /\ \A d \in calls : About(d, v, l) => d \in calls'
    BY <1>1 DEF AllAgree
  <2> QED
    BY <2>1, <2>3, <2>4, NotAbout
<1>5. CASE v = u /\ l = k
  <2>1. Disables(h, u, k)' /\ Busy(h, u, k)'
    BY <1>1, <1>2, HandsElsewhere
  <2>2. /\ \A d \in calls' : ~(About(d, u, k)')
        /\ \A g \in Handlers : Busy(g, u, k)' => g = h
    BY <2>1 DEF Alone
  <2>3. ~Restarts(h, u, k)'
    BY <1>1, <1>2, HandsElsewhere
  <2>4. \A g \in Handlers : ~Restarts(g, u, k)'
    BY <2>2, <2>3 DEF Restarts, Busy, At
  <2>5. k \notin Told(u)'
    BY <1>1, DeletedRow
  <2>6. ~NobodyTells(u, k)'
    BY <2>1 DEF NobodyTells
  <2> QED
    BY <1>5, <2>2, <2>4, <2>5, <2>6 DEF Agrees
<1> QED
  BY <1>4, <1>5

\* The handler that deletes a channel tells its service, or counts it as not told.
LEMMA DisableAgrees ==
  ASSUME Typed, Alone, AllAgree, NEW h \in Handlers, DisableChannel(h)
  PROVE  AllAgree'
<1>1. PICK u \in Users, k \in Kinds : u = work[h].user /\ k = work[h].kind
  BY DEF DisableChannel, Typed, HandlersOK, InHand, At
<1>2. /\ At(h, "disable") /\ Goto(h, Idle) /\ UNCHANGED <<row, cleared, calls>>
      /\ \/ BotCall(u, k, FALSE)
         \/ drift' = drift \cup {<<u, k>>} /\ UNCHANGED <<bot, faults>>
  BY <1>1 DEF DisableChannel
<1>3. SUFFICES ASSUME NEW v \in Users, NEW l \in Kinds
               PROVE  Agrees(v, l)'
  BY DEF AllAgree
<1>4. l \in Told(v)' <=> l \in Told(v)
  BY <1>2, ToldOfUnchanged
<1>5. Agrees(v, l)
  BY DEF AllAgree
<1>6. Idle.pc = "idle"
  BY DEF Idle
<1>7. ~Disables(h, v, l)' /\ ~Restarts(h, v, l)'
  BY <1>2, <1>6, HandsElsewhere
<1>8. CASE v # u \/ l # k
  <2>1. <<v, l>> # <<u, k>>
    BY <1>8
  <2>2. /\ <<v, l>> \in drift' <=> <<v, l>> \in drift
        /\ l \in bot'[v] <=> l \in bot[v]
    <3>1. MovesOnly(u, k)
      <4>1. CASE BotCall(u, k, FALSE)
        BY <4>1, CallOutcome
      <4>2. CASE drift' = drift \cup {<<u, k>>} /\ UNCHANGED <<bot, faults>>
        BY <4>2 DEF MovesOnly
      <4> QED
        BY <1>2, <4>1, <4>2
    <3> QED
      BY <2>1, <3>1 DEF MovesOnly
  <2>3. ~Disables(h, v, l)
    BY <1>1, <1>8 DEF Disables
  <2>4. \A g \in Handlers : /\ Disables(g, v, l)' <=> Disables(g, v, l)
                            /\ Restarts(g, v, l)' => Restarts(g, v, l)
    BY <1>2, <1>7, <2>3, HandsElsewhere
  <2> QED
    BY <1>2, <1>4, <1>5, <2>2, <2>4, NotAbout
<1>9. CASE v = u /\ l = k
  <2>1. CASE drift' = drift \cup {<<u, k>>}
    BY <1>9, <2>1 DEF Agrees
  <2>2. CASE BotCall(u, k, FALSE)
    <3>1. Disables(h, u, k)
      BY <1>1, <1>2 DEF Disables
    <3>2. Busy(h, u, k)
      BY <3>1, TellersAreBusy
    <3>3. /\ \A d \in calls : ~About(d, u, k)
          /\ \A g \in Handlers : Busy(g, u, k) => g = h
      BY <3>2 DEF Alone
    <3>4. \A g \in Handlers : ~Disables(g, u, k)' /\ ~Restarts(g, u, k)'
      BY <1>2, <1>7, <1>9, <3>3, HandsElsewhere, TellersAreBusy
    <3>5. \/ <<u, k>> \in drift'
          \/ k \notin bot'[u] /\ (k \notin Told(u) \/ <<u, k>> \notin drift)
      BY <2>2, CallOutcome
    <3>6. <<u, k>> \notin drift => k \notin Told(u)
      BY <1>5, <1>9, <3>1 DEF Agrees
    <3>7. <<u, k>> \in drift' \/ (k \in bot'[u] <=> k \in Told(u)')
      BY <1>4, <1>9, <3>5, <3>6
    <3>8. \A d \in calls' : ~(About(d, u, k)')
      BY <1>2, <3>3 DEF About
    <3> QED
      BY <1>9, <3>4, <3>7, <3>8 DEF Agrees
  <2> QED
    BY <1>2, <2>1, <2>2
<1> QED
  BY <1>8, <1>9
\* RestartActiveServices takes what the row has.
LEMMA TakeAgrees ==
  ASSUME Typed, AllAgree, NEW h \in Handlers, NEW u \in Users, RestartActiveServices(h, u)
  PROVE  AllAgree'
<1> DEFINE w == [Idle EXCEPT !.pc = "restart", !.user = u, !.left = GetActiveChannels(u)]
<1>1. At(h, "idle") /\ Goto(h, w) /\ UNCHANGED <<row, cleared, bot, calls, drift>>
  BY DEF RestartActiveServices, channels, remains
<1>2. w.pc = "restart" /\ w.user = u /\ w.left \subseteq Told(u)
  BY DEF Idle, Told
<1> HIDE DEF w
<1>3. SUFFICES ASSUME NEW v \in Users, NEW l \in Kinds
               PROVE  Agrees(v, l)'
  BY DEF AllAgree
<1>4. l \in Told(v)' <=> l \in Told(v)
  BY <1>1, ToldOfUnchanged
<1>5. ~Disables(h, v, l)
  BY <1>1 DEF Disables, At
<1>6. \A g \in Handlers :
        /\ Disables(g, v, l)' <=> Disables(g, v, l)
        /\ Restarts(g, v, l)' => Restarts(g, v, l) \/ l \in Told(v)
  BY <1>1, <1>2, <1>5, HandsElsewhere
<1>7. Agrees(v, l)
  BY DEF AllAgree
<1> QED
  BY <1>1, <1>4, <1>6, <1>7, NotAbout

\* A kind that restartChannel has no case for is passed over; the service of any
\* other is told to run the bot of a channel that is still switched on.
LEMMA RestartAgrees ==
  ASSUME Typed, Alone, AllAgree, NEW h \in Handlers, RestartChannel(h)
  PROVE  AllAgree'
<1>1. PICK u \in Users, left \in SUBSET Kinds : u = work[h].user /\ left = work[h].left
  BY DEF RestartChannel, Typed, HandlersOK, InHand, Hand, At
<1> DEFINE next(k) == IF left = {k} THEN Idle ELSE [work[h] EXCEPT !.left = left \ {k}]
<1>2. PICK k \in left :
        /\ IF k \in OnRestart THEN BotCall(u, k, TRUE) ELSE UNCHANGED <<bot, drift, faults>>
        /\ Goto(h, next(k))
  BY <1>1 DEF RestartChannel
<1>3. At(h, "restart") /\ UNCHANGED <<row, cleared, calls>>
  BY DEF RestartChannel
<1>4. PICK w : w = next(k)
  OBVIOUS
<1>5. /\ w.pc \in {"idle", "restart"}
      /\ w.pc = "restart" => w.user = u /\ w.left = left \ {k}
  <2>1. work[h] \in Hand /\ work[h].pc = "restart"
    BY <1>3 DEF Typed, HandlersOK, InHand, At
  <2> QED
    BY <1>1, <1>4, <2>1 DEF Idle, Hand
<1>6. Goto(h, w)
  BY <1>2, <1>4
<1> HIDE DEF next
<1>7. SUFFICES ASSUME NEW v \in Users, NEW l \in Kinds
               PROVE  Agrees(v, l)'
  BY DEF AllAgree
<1>8. l \in Told(v)' <=> l \in Told(v)
  BY <1>3, ToldOfUnchanged
<1>9. Agrees(v, l)
  BY DEF AllAgree
<1>10. ~Disables(h, v, l) /\ ~Disables(h, v, l)'
  BY <1>3, <1>5, <1>6, HandsElsewhere DEF Disables, At
<1>11. Restarts(h, v, l)' => Restarts(h, v, l) /\ ~(v = u /\ l = k)
  BY <1>1, <1>3, <1>5, <1>6, HandsElsewhere DEF Restarts
<1>12. \A g \in Handlers : /\ Disables(g, v, l)' <=> Disables(g, v, l)
                           /\ Restarts(g, v, l)' => Restarts(g, v, l)
  BY <1>6, <1>10, <1>11, HandsElsewhere
<1>13. CASE k \notin OnRestart
  BY <1>2, <1>3, <1>8, <1>9, <1>12, <1>13, NotAbout
<1>14. CASE k \in OnRestart /\ (v # u \/ l # k)
  <2>1. BotCall(u, k, TRUE) /\ k \in Kinds /\ <<v, l>> # <<u, k>>
    BY <1>2, <1>14
  <2>2. /\ <<v, l>> \in drift' <=> <<v, l>> \in drift
        /\ l \in bot'[v] <=> l \in bot[v]
    <3>1. MovesOnly(u, k)
      BY <2>1, CallOutcome
    <3> QED
      BY <2>1, <3>1 DEF MovesOnly
  <2> QED
    BY <1>3, <1>8, <1>9, <1>12, <2>2, NotAbout
<1>15. CASE k \in OnRestart /\ v = u /\ l = k
  <2>1. Restarts(h, u, k)
    BY <1>1, <1>2, <1>3 DEF Restarts
  <2>2. Busy(h, u, k)
    BY <1>15, <2>1, TellersAreBusy
  <2>3. /\ \A d \in calls : ~About(d, u, k)
        /\ \A g \in Handlers : Busy(g, u, k) => g = h
    BY <1>15, <2>2 DEF Alone
  <2>4. \A g \in Handlers : ~Disables(g, u, k)' /\ ~Restarts(g, u, k)'
    BY <1>10, <1>11, <1>12, <1>15, <2>3, TellersAreBusy
  <2>5. \/ <<u, k>> \in drift'
        \/ k \in bot'[u] /\ (k \in Told(u) \/ <<u, k>> \notin drift)
    BY <1>2, <1>15, CallOutcome
  <2>6. <<u, k>> \notin drift => k \in Told(u)
    BY <1>9, <1>15, <2>1 DEF Agrees
  <2>7. <<u, k>> \in drift' \/ (k \in bot'[u] <=> k \in Told(u)')
    BY <1>8, <1>15, <2>5, <2>6
  <2>8. \A d \in calls' : ~(About(d, u, k)')
    BY <1>3, <2>3 DEF About
  <2> QED
    BY <1>15, <2>4, <2>7, <2>8 DEF Agrees
<1> QED
  BY <1>13, <1>14, <1>15

\* A step that leaves bots, goroutines and what the services were told alone changes
\* nothing.
LEMMA ElsewhereAgrees ==
  ASSUME AllAgree, UNCHANGED <<bot, calls>>, drift \subseteq drift',
         \A v \in Users : Told(v)' = Told(v),
         \A v \in Users, l \in Kinds, g \in Handlers :
             /\ Disables(g, v, l)' <=> Disables(g, v, l)
             /\ Restarts(g, v, l)' <=> Restarts(g, v, l)
  PROVE  AllAgree'
<1> SUFFICES ASSUME NEW v \in Users, NEW l \in Kinds
             PROVE  Agrees(v, l)'
  BY DEF AllAgree
<1>1. Agrees(v, l)
  BY DEF AllAgree
<1> QED
  BY <1>1, NotAbout

\* What a restart keeps from being told is counted.
LEMMA CrashAgrees ==
  ASSUME Typed, AllAgree, Restart
  PROVE  AllAgree'
<1> SUFFICES ASSUME NEW v \in Users, NEW l \in Kinds, <<v, l>> \notin drift'
             PROVE  Agrees(v, l)'
  BY DEF AllAgree, Agrees
<1>1. /\ drift' = drift \cup {<<c.user, c.kind>> : c \in calls}
                        \cup {<<work[h].user, work[h].kind>> :
                                h \in {g \in Handlers : At(g, "disable")}}
      /\ calls' = {} /\ work' = [h \in Handlers |-> Idle]
      /\ UNCHANGED <<row, cleared, bot>>
  BY DEF Restart
<1>2. Agrees(v, l) /\ <<v, l>> \notin drift
  BY <1>1 DEF AllAgree
<1>3. \A c \in calls : ~About(c, v, l)
  BY <1>1 DEF About
<1>4. \A h \in Handlers : ~Disables(h, v, l)
  BY <1>1 DEF Disables
<1>5. l \in bot[v] <=> l \in Told(v)
  BY <1>2, <1>3, <1>4 DEF Agrees, NobodyTells
<1>6. l \in bot'[v] <=> l \in Told(v)'
  BY <1>1, <1>5, ToldOfUnchanged
<1>7. \A h \in Handlers : ~Disables(h, v, l)' /\ ~Restarts(h, v, l)'
  BY <1>1 DEF Disables, Restarts, At, Idle
<1> QED
  BY <1>1, <1>6, <1>7 DEF Agrees
\* Every step keeps what the services will be told in agreement with the rows,
\* if no other request changes the channel it is about.
LEMMA AgreeStep ==
  Typed /\ Alone /\ Alone' /\ AllAgree /\ [Next]_vars => AllAgree'
<1> SUFFICES ASSUME Typed, Alone, Alone', AllAgree, [Next]_vars
             PROVE  AllAgree'
  OBVIOUS
<1> DEFINE SameHands == \A v \in Users, l \in Kinds, g \in Handlers :
                            /\ Disables(g, v, l)' <=> Disables(g, v, l)
                            /\ Restarts(g, v, l)' <=> Restarts(g, v, l)
<1>1. UNCHANGED work => SameHands
  BY DEF Disables, Restarts, At
<1>2. ASSUME NEW h \in Handlers, NEW w, Goto(h, w), w.pc \notin {"disable", "restart"},
             ~At(h, "disable"), ~At(h, "restart")
      PROVE  SameHands
  BY <1>2, HandsElsewhere DEF Disables, Restarts
<1>3. CASE UNCHANGED vars \/ Scheduled \/ Outside
  <2>1. UNCHANGED <<channels, work, drift, cleared>>
    BY <1>3 DEF vars, remains, Scheduled, CheckUserSubscription, SetUsersSubscriptionNotified,
                Outside, Expire, CacheEnds, Upload
  <2> QED
    BY <1>1, <2>1, ToldOfUnchanged, ElsewhereAgrees DEF channels
<1>4. ASSUME NEW u \in Users, DisableFlags(u)
      PROVE  AllAgree'
  <2>1. CASE FlagsCleared(u)
    BY <1>1, <1>4, <2>1, ClearedRow, ElsewhereAgrees DEF DisableFlags
  <2>2. CASE UNCHANGED <<row, cleared>>
    BY <1>1, <1>4, <2>2, ToldOfUnchanged, ElsewhereAgrees DEF DisableFlags
  <2> QED
    BY <1>4, <2>1, <2>2 DEF DisableFlags
<1>5. ASSUME NEW h \in Handlers, NEW u \in Users, DeleteAccount(h, u)
      PROVE  AllAgree'
  <2>1. [Idle EXCEPT !.pc = "flags", !.user = u].pc = "flags"
    BY DEF Idle
  <2>2. SameHands
    BY <1>2, <1>5, <2>1 DEF DeleteAccount, At
  <2> QED
    BY <1>5, <2>2, ToldOfUnchanged, ElsewhereAgrees DEF DeleteAccount, channels, remains
<1>6. ASSUME NEW u \in Users, PresignUpload(u)
      PROVE  AllAgree'
  BY <1>1, <1>6, ToldOfUnchanged, ElsewhereAgrees DEF PresignUpload, channels, remains
<1>7. ASSUME NEW h \in Handlers, ClearFlags(h)
      PROVE  AllAgree'
  <2>1. PICK u \in Users : u = work[h].user
    BY <1>7 DEF ClearFlags, At, Typed, HandlersOK, InHand
  <2>2. [work[h] EXCEPT !.pc = "data"].pc = "data"
    BY <1>7 DEF Typed, HandlersOK, InHand, Hand
  <2>3. SameHands
    BY <1>2, <1>7, <2>2 DEF ClearFlags, At
  <2>4. CASE FlagsCleared(u)
    BY <1>7, <2>3, <2>4, ClearedRow, ElsewhereAgrees DEF ClearFlags
  <2>5. CASE UNCHANGED <<row, cleared>>
    BY <1>7, <2>3, <2>5, ToldOfUnchanged, ElsewhereAgrees DEF ClearFlags
  <2> QED
    BY <1>7, <2>1, <2>4, <2>5 DEF ClearFlags
<1>8. ASSUME NEW h \in Handlers, DeleteAllUserData(h)
      PROVE  AllAgree'
  <2>1. PICK u \in Users : u = work[h].user
    BY <1>8 DEF DeleteAllUserData, At, Typed, HandlersOK, InHand
  <2>2. [work[h] EXCEPT !.pc = "files"].pc = "files" /\ Idle.pc = "idle"
    BY <1>8 DEF Typed, HandlersOK, InHand, Hand, Idle
  <2>3. SameHands
    BY <1>2, <1>8, <2>2 DEF DeleteAllUserData, At
  <2>4. CASE /\ row' = [row EXCEPT ![u] = None]
             /\ cleared' = cleared \cup ({u} \X GetActiveChannels(u))
    BY <1>8, <2>3, <2>4, DroppedRow, ElsewhereAgrees DEF DeleteAllUserData
  <2>5. CASE UNCHANGED <<row, cleared>>
    BY <1>8, <2>3, <2>5, ToldOfUnchanged, ElsewhereAgrees DEF DeleteAllUserData
  <2> QED
    BY <1>8, <2>1, <2>4, <2>5 DEF DeleteAllUserData
<1>9. ASSUME NEW h \in Handlers, DeleteUserS3Directory(h)
      PROVE  AllAgree'
  <2>1. SameHands
    BY <1>2, <1>9 DEF DeleteUserS3Directory, At, Idle
  <2> QED
    BY <1>9, <2>1, ToldOfUnchanged, ElsewhereAgrees DEF DeleteUserS3Directory, channels
<1> QED
  BY <1>3, <1>4, <1>5, <1>6, <1>7, <1>8, <1>9, SaveAgrees, StopAgrees, DeleteAgrees,
     DisableAgrees, TakeAgrees, RestartAgrees, CrashAgrees
  DEF Next, Goroutines, Serve, Asks

-----------------------------------------------------------------------------
(* Files. *)

\* Once the rows of a user are deleted, no upload of his is under way and his
\* files are looked for where the empty configuration says; a user who was told
\* that they are deleted has none there.
Erased ==
    /\ \A u \in Users \ accounts : /\ config[u] = "internal"
                                   /\ \A l \in links : l.user # u
    /\ \A h \in Handlers : At(h, "files") => work[h].user \notin accounts
    /\ \A u \in erased : u \notin accounts /\ "internal" \notin files[u]

\* A handler that goes on to another label than "files" has nobody to erase.
LEMMA NobodyToErase ==
  ASSUME Typed, Erased, NEW h \in Handlers, NEW w, Goto(h, w), w.pc # "files",
         UNCHANGED accounts
  PROVE  \A g \in Handlers : At(g, "files")' => work'[g].user \notin accounts'
<1>1. work \in [Handlers -> Hand] /\ work' = [work EXCEPT ![h] = w]
  BY DEF Typed, TypeOK, Hand, Goto
<1>2. work'[h] = w /\ \A g \in Handlers : g # h => work'[g] = work[g]
  BY <1>1
<1> QED
  BY <1>2 DEF Erased, At

\* Every step keeps it, if no account is deleted before its uploads are done.
LEMMA ErasedStep ==
  Typed /\ NoUploadLeft /\ Erased /\ [Next]_vars => Erased'
<1> SUFFICES ASSUME Typed, NoUploadLeft, Erased, [Next]_vars
             PROVE  Erased'
  OBVIOUS
<1> USE ChannelsAssumption
<1>1. /\ \A h \in Handlers : InHand(work[h])
      /\ accounts \subseteq Users /\ erased \subseteq Users
      /\ links \subseteq [user : Users, to : Backends]
      /\ config \in [Users -> Backends] /\ files \in [Users -> SUBSET Backends]
      /\ cached \in [Users -> Backends \cup {None}]
      /\ work \in [Handlers -> Hand]
  BY DEF Typed, TypeOK, HandlersOK, Hand
<1> DEFINE Hands == \A g \in Handlers : At(g, "files")' => work'[g].user \notin accounts'
<1>2. UNCHANGED <<accounts, config, links, files, erased>> /\ Hands => Erased'
  BY DEF Erased
<1>3. UNCHANGED <<accounts, work>> => Hands
  BY DEF Erased, At
<1>4. ASSUME NEW h \in Handlers, NEW w, Goto(h, w), w.pc # "files", UNCHANGED accounts
      PROVE  Hands
  BY <1>4, NobodyToErase
<1>5. CASE UNCHANGED vars \/ Scheduled \/ Goroutines
  <2>1. UNCHANGED <<accounts, work, config, links, files, erased>>
    BY <1>5 DEF vars, channels, storage, remains, Scheduled, CheckUserSubscription,
                SetUsersSubscriptionNotified, Goroutines, StopChannel, DisableFlags
  <2> QED
    BY <1>2, <1>3, <2>1
<1>6. ASSUME NEW u \in Users, \/ \E k \in Kinds, on \in BOOLEAN : SaveChannel(u, k, on)
                              \/ Expire(u) \/ CacheEnds(u)
      PROVE  Erased'
  <2>1. UNCHANGED <<accounts, work, config, links, files, erased>>
    BY <1>6 DEF SaveChannel, Expire, CacheEnds, channels, storage, remains
  <2> QED
    BY <1>2, <1>3, <2>1
<1>7. ASSUME NEW h \in Handlers, NEW u \in Users,
             \/ \E k \in Kinds : DeleteChannel(h, u, k)
             \/ RestartActiveServices(h, u) \/ DeleteAccount(h, u)
      PROVE  Erased'
  <2>1. UNCHANGED <<accounts, config, links, files, erased>>
    BY <1>7 DEF DeleteChannel, RestartActiveServices, DeleteAccount, channels, storage, remains
  <2>2. ASSUME NEW k \in Kinds, DeleteChannel(h, u, k)
        PROVE  Goto(h, [Idle EXCEPT !.pc = "disable", !.user = u, !.kind = k])
    BY <2>2 DEF DeleteChannel
  <2>3. ASSUME RestartActiveServices(h, u)
        PROVE  Goto(h, [Idle EXCEPT !.pc = "restart", !.user = u, !.left = GetActiveChannels(u)])
    BY <2>3 DEF RestartActiveServices
  <2>4. ASSUME DeleteAccount(h, u)
        PROVE  Goto(h, [Idle EXCEPT !.pc = "flags", !.user = u])
    BY <2>4 DEF DeleteAccount
  <2>5. /\ \A k \in Kinds : [Idle EXCEPT !.pc = "disable", !.user = u, !.kind = k].pc # "files"
        /\ [Idle EXCEPT !.pc = "restart", !.user = u, !.left = GetActiveChannels(u)].pc # "files"
        /\ [Idle EXCEPT !.pc = "flags", !.user = u].pc # "files"
    BY DEF Idle
  <2>6. PICK w : Goto(h, w) /\ w.pc # "files"
    BY <1>7, <2>2, <2>3, <2>4, <2>5
  <2> QED
    BY <1>2, <1>4, <2>1, <2>6
<1>8. ASSUME NEW h \in Handlers, DisableChannel(h) \/ RestartChannel(h) \/ ClearFlags(h)
      PROVE  Erased'
  <2>1. UNCHANGED <<accounts, config, links, files, erased>>
    BY <1>8 DEF DisableChannel, RestartChannel, ClearFlags, storage
  <2>2. PICK w : Goto(h, w) /\ w.pc # "files"
    <3>1. CASE DisableChannel(h)
      BY <3>1 DEF DisableChannel, Idle
    <3>2. CASE RestartChannel(h)
      <4>1. PICK k : Goto(h, IF work[h].left = {k} THEN Idle
                             ELSE [work[h] EXCEPT !.left = work[h].left \ {k}])
        BY <3>2 DEF RestartChannel
      <4>2. work[h].pc = "restart" /\ work[h] \in Hand
        BY <1>1, <3>2 DEF RestartChannel, At, InHand
      <4> QED
        BY <4>1, <4>2 DEF Idle, Hand
    <3>3. CASE ClearFlags(h)
      BY <1>1, <3>3 DEF ClearFlags, Hand
    <3> QED
      BY <1>8, <3>1, <3>2, <3>3
  <2> QED
    BY <1>2, <1>4, <2>1, <2>2
<1>9. ASSUME NEW u \in Users, PresignUpload(u)
      PROVE  Erased'
  <2>1. /\ u \in accounts /\ links' = links \cup {[user |-> u, to |-> Resolved(u)]}
        /\ UNCHANGED <<accounts, work, config, files, erased>>
    BY <1>9 DEF PresignUpload, channels, remains
  <2>2. Hands
    BY <1>3, <2>1
  <2>3. \A v \in Users \ accounts : \A l \in links' : l.user # v
    BY <2>1 DEF Erased
  <2> QED
    BY <2>1, <2>2, <2>3 DEF Erased
<1>10. ASSUME NEW l \in links, Upload(l)
       PROVE  Erased'
  <2>1. /\ links' = links \ {l} /\ UNCHANGED <<accounts, work, config, erased>>
        /\ files' = [files EXCEPT ![l.user] = @ \cup {l.to}] \/ UNCHANGED files
    BY <1>10 DEF Upload, channels, remains
  <2>2. Hands
    BY <1>3, <2>1
  <2>3. \A u \in erased : u \notin accounts /\ u # l.user
    BY <1>1 DEF Erased
  <2>4. \A u \in erased : files'[u] = files[u]
    BY <1>1, <2>1, <2>3
  <2> QED
    BY <2>1, <2>2, <2>4 DEF Erased
<1>11. ASSUME NEW h \in Handlers, DeleteAllUserData(h)
       PROVE  Erased'
  <2>1. PICK u \in Users : u = work[h].user
    BY <1>1, <1>11 DEF DeleteAllUserData, At, InHand
  <2>2. At(h, "data") /\ UNCHANGED <<links, files, erased>>
    BY <1>11 DEF DeleteAllUserData
  <2>3. \A l \in links : l.user # u
    BY <2>1, <2>2 DEF NoUploadLeft
  <2>4. CASE /\ accounts' = accounts \ {u} /\ config' = [config EXCEPT ![u] = "internal"]
             /\ Goto(h, [work[h] EXCEPT !.pc = "files"])
    <3>1. [work[h] EXCEPT !.pc = "files"].user = u
      BY <1>1, <2>1 DEF Hand
    <3>2. Hands
      BY <1>1, <2>4, <3>1 DEF Goto, At, Erased
    <3>3. \A v \in Users \ accounts' : config'[v] = "internal" /\ \A l \in links' : l.user # v
      BY <1>1, <2>2, <2>3, <2>4 DEF Erased
    <3> QED
      BY <2>2, <2>4, <3>2, <3>3 DEF Erased
  <2>5. CASE Goto(h, Idle) /\ UNCHANGED <<accounts, config>>
    <3>1. Hands
      BY <1>4, <2>5 DEF Idle
    <3> QED
      BY <1>2, <2>2, <2>5, <3>1
  <2> QED
    BY <1>11, <2>1, <2>4, <2>5 DEF DeleteAllUserData
<1>12. ASSUME NEW h \in Handlers, DeleteUserS3Directory(h)
       PROVE  Erased'
  <2>1. PICK u \in Users : u = work[h].user
    BY <1>1, <1>12 DEF DeleteUserS3Directory, At, InHand
  <2>2. /\ At(h, "files") /\ Goto(h, Idle) /\ UNCHANGED <<accounts, config, links>>
        /\ \/ /\ Usable(u) /\ files' = [files EXCEPT ![u] = @ \ {Resolved(u)}]
              /\ erased' = erased \cup {u}
           \/ UNCHANGED <<files, erased>>
    BY <1>12, <2>1 DEF DeleteUserS3Directory, channels
  <2>3. Hands
    BY <1>4, <2>2 DEF Idle
  <2>4. u \notin accounts /\ config[u] = "internal"
    BY <2>1, <2>2 DEF Erased
  <2>5. CASE UNCHANGED <<files, erased>>
    BY <1>2, <2>2, <2>3, <2>5
  <2>6. CASE /\ Usable(u) /\ files' = [files EXCEPT ![u] = @ \ {Resolved(u)}]
             /\ erased' = erased \cup {u}
    <3>1. Resolved(u) = "internal"
      BY <2>4, <2>6 DEF Usable, Resolved
    <3>2. \A v \in erased' : v \notin accounts /\ "internal" \notin files'[v]
      BY <1>1, <2>4, <2>6, <3>1 DEF Erased
    <3> QED
      BY <2>2, <2>3, <3>2 DEF Erased
  <2> QED
    BY <2>2, <2>5, <2>6
<1>13. CASE Restart
  <2>1. UNCHANGED <<accounts, config, links, files, erased>>
    BY <1>13 DEF Restart, storage
  <2>2. Hands
    BY <1>13 DEF Restart, At, Idle
  <2> QED
    BY <1>2, <2>1, <2>2
<1> QED
  BY <1>5, <1>6, <1>7, <1>8, <1>9, <1>10, <1>11, <1>12, <1>13 DEF Next, Serve, Asks, Outside

-----------------------------------------------------------------------------
(* The property. *)

ChannelInv == Typed /\ OneChangeAtATime /\ NoUploadLeft /\ AllAgree /\ Erased

\* It holds at the start ...
LEMMA ChannelInvInit == Init => ChannelInv
<1> SUFFICES ASSUME Init
             PROVE  OneChangeAtATime /\ NoUploadLeft /\ AllAgree /\ Erased
  BY TypedInit DEF ChannelInv
<1>1. OneChangeAtATime
  BY ChannelsAssumption DEF Init, OneChangeAtATime, UnderWay, Idle
<1>2. NoUploadLeft /\ Erased
  BY DEF Init, NoUploadLeft, Erased, At, Idle
<1>3. AllAgree
  BY DEF Init, AllAgree, Agrees, Disables, Restarts, At, Idle, Told, GetActiveChannels
<1> QED
  BY <1>1, <1>2, <1>3

\* ... and after every step of a careful client.
LEMMA ChannelInvStep == ChannelInv /\ [Careful]_vars => ChannelInv'
<1>1. Typed /\ [Careful]_vars => Typed'
  BY TypedStep DEF Careful
<1>2. OneChangeAtATime /\ NoUploadLeft /\ [Careful]_vars => OneChangeAtATime' /\ NoUploadLeft'
  <2>1. OneChangeAtATime /\ NoUploadLeft /\ UNCHANGED vars => OneChangeAtATime' /\ NoUploadLeft'
    BY DEF OneChangeAtATime, UnderWay, NoUploadLeft, At, vars, channels, storage
  <2> QED
    BY <2>1 DEF Careful
<1>3. Typed' /\ OneChangeAtATime' => Alone'
  BY ChangesAlone, PTL
<1> QED
  BY <1>1, <1>2, <1>3, ChangesAlone, AgreeStep, ErasedStep DEF ChannelInv, Careful

\* What it says of a channel that nothing is under way for, and of files.
LEMMA ChannelInvImplies == ChannelInv => BotFollowsRow /\ InternalFilesGone
<1> SUFFICES ASSUME ChannelInv
             PROVE  BotFollowsRow /\ InternalFilesGone
  OBVIOUS
<1>1. InternalFilesGone
  BY DEF ChannelInv, Erased, InternalFilesGone
<1>2. ASSUME NEW u \in Users, NEW k \in Kinds, UnderWay(u, k) = {}, <<u, k>> \notin drift
      PROVE  k \in bot[u] <=> k \in GetActiveChannels(u) \/ <<u, k>> \in cleared
  <2>1. NobodyTells(u, k)
    BY <1>2 DEF NobodyTells, UnderWay, About, Disables, At
  <2>2. Agrees(u, k)
    BY DEF ChannelInv, AllAgree
  <2> QED
    BY <1>2, <2>1, <2>2 DEF Agrees, Told
<1> QED
  BY <1>1, <1>2 DEF BotFollowsRow

-----------------------------------------------------------------------------
(* The end of a subscription. *)

\* A user is marked only after the goroutine that clears the flags has been started,
\* and between the two the scheduler holds the user in checked; it has read nobody
\* who has not reached the end, but may hold one whose account is gone.
MarkedOK ==
    /\ checked \cap accounts \subseteq expired
    /\ \A u \in Users, k \in Kinds :
         u \in expired /\ u \in checked \cup notified /\ k \in GetActiveChannels(u)
             => u \in disabling \/ <<u, k>> \in kept \/ u \in excused

\* Only the checks of the scheduler mark anybody, and only a user enables a channel.
LEMMA MarkedStep == Typed /\ MarkedOK /\ [Next]_vars => MarkedOK'
<1> SUFFICES ASSUME Typed, MarkedOK, [Next]_vars PROVE MarkedOK'
  OBVIOUS
<1> USE DEF channels, subscription, storage, remains
<1>1. /\ expired \subseteq accounts /\ notified \subseteq expired /\ checked \subseteq Users
      /\ \A h \in Handlers : work[h].pc # "idle" => work[h].user \in Users
  BY DEF Typed, TypeOK, HandlersOK, InHand
<1>2. row' = row => \A u \in Users : GetActiveChannels(u)' = GetActiveChannels(u)
  BY DEF GetActiveChannels
<1>3. UNCHANGED <<row, accounts, subscription, kept, excused>> => MarkedOK'
  BY <1>2 DEF MarkedOK
<1>4. CASE CheckUserSubscription
  BY <1>1, <1>2, <1>4 DEF CheckUserSubscription, UsersWithoutSubscription, MarkedOK
<1>5. CASE SetUsersSubscriptionNotified
  BY <1>1, <1>2, <1>5 DEF SetUsersSubscriptionNotified, MarkedOK
<1>6. ASSUME NEW u \in Users, DisableFlags(u) PROVE MarkedOK'
  <2>1. /\ UNCHANGED <<accounts, expired, notified, checked, kept>> /\ disabling' = disabling \ {u}
    BY <1>6 DEF DisableFlags
  <2>2. CASE FlagsCleared(u) /\ UNCHANGED <<faults, excused>>
    <3>1. /\ \A v \in Users : v # u => GetActiveChannels(v)' = GetActiveChannels(v)
          /\ GetActiveChannels(u)' = {}
      BY <2>2, ClearedRow
    <3> QED
      BY <2>1, <2>2, <3>1 DEF MarkedOK
  <2>3. CASE excused' = excused \cup {u} /\ UNCHANGED <<row, cleared>>
    BY <1>2, <2>1, <2>3 DEF MarkedOK
  <2> QED
    BY <1>6, <2>2, <2>3 DEF DisableFlags
<1>7. ASSUME NEW u \in Users, NEW k \in Kinds, NEW on \in BOOLEAN, SaveChannel(u, k, on)
      PROVE  MarkedOK'
  <2>1. /\ \A v \in Users : v # u => GetActiveChannels(v)' = GetActiveChannels(v)
        /\ \A l \in Kinds : l # k => (l \in GetActiveChannels(u)' <=> l \in GetActiveChannels(u))
        /\ ~on => k \notin GetActiveChannels(u)'
    BY <1>7, SavedRow DEF SaveChannel
  <2>2. /\ UNCHANGED <<accounts, subscription, excused>>
        /\ kept' = IF on /\ u \in expired THEN kept \cup {<<u, k>>} ELSE kept
    BY <1>7 DEF SaveChannel
  <2> QED
    BY <2>1, <2>2 DEF MarkedOK
<1>8. ASSUME NEW h \in Handlers, NEW u \in Users, NEW k \in Kinds, DeleteChannel(h, u, k)
      PROVE  MarkedOK'
  <2>1. /\ \A v \in Users : v # u => GetActiveChannels(v)' = GetActiveChannels(v)
        /\ \A l \in Kinds : l # k => (l \in GetActiveChannels(u)' <=> l \in GetActiveChannels(u))
        /\ k \notin GetActiveChannels(u)'
    BY <1>8, DeletedRow DEF DeleteChannel
  <2>2. UNCHANGED <<accounts, subscription, kept, excused>>
    BY <1>8 DEF DeleteChannel
  <2> QED
    BY <2>1, <2>2 DEF MarkedOK
<1>9. ASSUME NEW h \in Handlers, ClearFlags(h) PROVE MarkedOK'
  <2>1. /\ UNCHANGED <<accounts, subscription, kept, excused>> /\ work[h].user \in Users
        /\ FlagsCleared(work[h].user) \/ UNCHANGED row
    BY <1>1, <1>9 DEF ClearFlags, At
  <2>2. CASE FlagsCleared(work[h].user)
    <3>1. \A v \in Users : GetActiveChannels(v)' \in {{}, GetActiveChannels(v)}
      BY <2>1, <2>2, ClearedRow
    <3> QED
      BY <2>1, <3>1 DEF MarkedOK
  <2> QED
    BY <1>3, <2>1, <2>2
<1>10. ASSUME NEW h \in Handlers, DeleteAllUserData(h) PROVE MarkedOK'
  <2>1. UNCHANGED <<served, checked, disabling, kept, excused>> /\ work[h].user \in Users
    BY <1>1, <1>10 DEF DeleteAllUserData, At
  <2>2. CASE UNCHANGED <<accounts, row, cleared, expired, notified, config>>
    BY <1>3, <2>1, <2>2
  <2>3. CASE ~UNCHANGED <<accounts, row, cleared, expired, notified, config>>
    <3> DEFINE u == work[h].user
    <3>1. /\ accounts' = accounts \ {u} /\ expired' = expired \ {u} /\ notified' = notified \ {u}
          /\ row' = [row EXCEPT ![u] = None] /\ cleared' = cleared \cup ({u} \X GetActiveChannels(u))
      BY <1>10, <2>3 DEF DeleteAllUserData
    <3>2. \A v \in Users : v # u => GetActiveChannels(v)' = GetActiveChannels(v)
      BY <2>1, <3>1, DroppedRow
    <3> HIDE DEF u
    <3> QED
      BY <2>1, <3>1, <3>2 DEF MarkedOK
  <2> QED
    BY <2>2, <2>3
<1>11. ASSUME NEW u \in Users, Expire(u) PROVE MarkedOK'
  <2>1. u \in accounts /\ u \notin checked /\ u \notin notified
    BY <1>1, <1>11 DEF Expire, MarkedOK
  <2> QED
    BY <1>2, <1>11, <2>1 DEF Expire, MarkedOK
<1>12. CASE Restart
  BY <1>1, <1>2, <1>12 DEF Restart, MarkedOK
<1>13. ASSUME NEW c \in calls, StopChannel(c) PROVE MarkedOK'
  BY <1>3, <1>13 DEF StopChannel
<1>14. ASSUME NEW h \in Handlers, DisableChannel(h) \/ RestartChannel(h) \/ DeleteUserS3Directory(h)
       PROVE  MarkedOK'
  BY <1>3, <1>14 DEF DisableChannel, RestartChannel, DeleteUserS3Directory
<1>15. ASSUME NEW h \in Handlers, NEW u \in Users, RestartActiveServices(h, u) \/ DeleteAccount(h, u)
       PROVE  MarkedOK'
  BY <1>3, <1>15 DEF RestartActiveServices, DeleteAccount
<1>16. ASSUME NEW u \in Users, PresignUpload(u) \/ CacheEnds(u) PROVE MarkedOK'
  BY <1>3, <1>16 DEF PresignUpload, CacheEnds
<1>17. ASSUME NEW l \in links, Upload(l) PROVE MarkedOK'
  BY <1>3, <1>17 DEF Upload
<1>18. CASE UNCHANGED vars
  BY <1>3, <1>18 DEF vars
<1> QED
  BY <1>4, <1>5, <1>6, <1>7, <1>8, <1>9, <1>10, <1>11, <1>12, <1>13, <1>14, <1>15, <1>16, <1>17, <1>18
  DEF Next, Scheduled, Goroutines, Serve, Asks, Outside

LEMMA MarkedInit == Init => MarkedOK
BY DEF Init, MarkedOK

LEMMA MarkedImplies == Typed /\ MarkedOK => MarkedIsSwitchedOff
BY DEF MarkedOK, MarkedIsSwitchedOff, Typed, TypeOK

\* The scheduler may mark a user before, while or after the flags are cleared, while
\* others save, delete and end the account: the mark never stands alone.
THEOREM MarkedAreSwitchedOff == Spec => []MarkedIsSwitchedOff
BY MarkedInit, MarkedImplies, TypedInit, TypedStep, MarkedStep, PTL DEF Spec

\* Whatever calls fail, however requests, the scheduler and restarts interleave, a
\* bot runs exactly if the row says so, or said so when the end of the subscription or
\* of the account cleared it, once nothing is under way for it and its last call did
\* not fail; a user told that his files are deleted has none in the internal storage,
\* and a user marked as notified no channel.  The client changes a channel by one
\* request at a time and deletes an account when its uploads are done.
THEOREM WhatRowsSayIsTrue == CarefulSpec => []RowsAreTrue
<1>1. [Careful]_vars => [Next]_vars
  BY DEF Careful
<1>2. ChannelInv /\ MarkedOK => RowsAreTrue
  BY ChannelInvImplies, MarkedImplies DEF RowsAreTrue, ChannelInv
<1>3. ChannelInv => Typed
  BY DEF ChannelInv
<1> QED
  BY <1>1, <1>2, <1>3, ChannelInvInit, ChannelInvStep, MarkedInit, MarkedStep, PTL DEF CarefulSpec
=============================================================================
