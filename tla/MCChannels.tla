----------------------------- MODULE MCChannels -----------------------------
(* Instances of Channels for TLC. *)
EXTENDS Channels, TLC

Interchangeable == Permutations(Handlers)

\* One request at a time changes a channel; an account is deleted alone.
OneChangeAtATime ==
    \A u \in Users, k \in Kinds : \A a, b \in UnderWay(u, k) : a = b

\* An account is deleted when its uploads are done.
NoUploadLeft == \A l \in links, h \in Handlers : ~(At(h, "data") /\ work[h].user = l.user)

Careful == Next /\ OneChangeAtATime' /\ NoUploadLeft'

CarefulSpec == Init /\ [][Careful]_vars

\* The scheduler runs daily, the calls have a timeout.
FairSpec ==
    /\ Init /\ [][Careful]_vars
    /\ WF_vars(Scheduled)
    /\ \A u \in Users : WF_vars(DisableFlags(u))

=============================================================================
