------------------------------ MODULE MCAccount ------------------------------
(* Instances of Account for TLC. *)
EXTENDS Account, TLC

\* Tabs, goroutines and new ids are interchangeable.
Interchangeable ==
    Permutations(Clients) \cup Permutations(Handlers) \cup Permutations(Users \ {OldUser})

\* A browser with one tab: it asks for a key when its last request is sent.
OneTab == \A c \in Clients : Cardinality(held[c]) <= 1

OneTabSpec == Init /\ [][Next /\ OneTab']_vars
=============================================================================
