---------------------------- MODULE MCMasterKey ----------------------------
(* Small instances of MasterKey for TLC. *)
EXTENDS MasterKey, FiniteSets, TLC

CONSTANTS k1, k2, w1, w2, p1, p2

OneKey   == {k1}
TwoKeys  == {k1, k2}
OnePassword  == {w1}
TwoPasswords == {w1, w2}
OneProc  == {p1}
TwoProcs == {p1, p2}

\* A gated kind, an ungated one whose row survives deletion, and one whose
\* failure aborts a creation.
OneKind    == {"channels"}
TwoKinds   == {"apiKeys", "channels"}
ThreeKinds == {"apiKeys", "channels", "crmConfigs"}

Interchangeable == Permutations(Keys) \cup Permutations(Passwords) \cup Permutations(Procs)

\* A careful client does one key operation at a time, rewraps under the password
\* in use, and resets with its raw key; only without one may its text be malformed.
CarefulKeyRequest(p) ==
    /\ Quiet
    /\ \/ \E pw \in Passwords : StartCreate(p, pw)
       \/ \E raw \in kept :
             /\ HasMasterKey /\ wrapped.key = raw
             /\ StartRewrap(p, raw, hash) \/ \E pw \in Passwords : StartReset(p, raw, pw)
       \/ /\ ~HasMasterKey
          /\ \E pw \in Passwords : StartReset(p, NoKey, pw) \/ StartResetMalformed(p, pw)

\* It gives the key up, and with it the data, while nothing else is under way.
GivesUpKey(p) ==
    /\ HasMasterKey
    /\ \A q \in Procs : At(q, "idle")
    /\ StartRewrap(p, NoKey, hash) \/ \E pw \in Passwords : StartReset(p, NoKey, pw)
GivingUp ==
    \E p \in Procs :
        \/ req[p].pc \in {"rewClear", "rewDelete", "resCheck", "resDelete", "resClear"}
        \/ At(p, "resPassword") /\ req[p].raw = NoKey

\* It does not save while the cache holds a key that is given up.
Stale ==
    /\ cache # NoKey
    /\ ~(HasMasterKey /\ wrapped.key = cache)
    /\ \A p \in Procs : ~(req[p].pc \in Creating /\ req[p].raw = cache)
Login(p) == \E pw \in Passwords : StartLogin(p, pw)
CarefulOther(p) == ~GivingUp /\ (Login(p) \/ (~Stale /\ OtherRequest(p)))

CarefulNext ==
    \/ \E p \in Procs : CarefulKeyRequest(p) \/ GivesUpKey(p) \/ CarefulOther(p) \/ Serve(p)
    \/ Restart \/ Expire
CarefulSpec == Init /\ [][CarefulNext]_vars

\* Nothing but creations of a MasterKey.
CreateNext == \E p \in Procs : Serve(p) \/ \E pw \in Passwords : StartCreate(p, pw)
CreateSpec == Init /\ [][CreateNext]_vars
=============================================================================
