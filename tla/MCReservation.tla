--------------------------- MODULE MCReservation ---------------------------
(* Small instances of Reservation for TLC. *)
EXTENDS Reservation, TLC

CONSTANTS u1, u2, k1, r1, r2, r3, p1, p2

OneUser  == {u1}
TwoUsers == {u1, u2}
OneKey   == {k1}
NoKeys   == {}
OneId    == {r1}
TwoIds   == {r1, r2}
ThreeIds == {r1, r2, r3}
OneProc  == {p1}
TwoProcs == {p1, p2}

\* Room for one large or two small uploads, but not for both.
TightQuota == [u \in Users |-> 2]
SmallSizes == {1, 2}
UnitSize   == {1}

\* Goroutines are interchangeable, and so are random reservation ids.
Interchangeable == Permutations(Procs) \cup Permutations(Ids)

\* Requests against each other, without the cron goroutine.
RequestsNext ==
    \/ \E p \in Procs : Request(p) \/ Serve(p)
    \/ Client \/ Clock \/ Crash \/ RedisLoss
RequestsSpec == Init /\ [][RequestsNext]_vars
=============================================================================
