------------------------------ MODULE MCSignIn ------------------------------
(* Instances of SignIn for TLC. *)
EXTENDS SignIn, TLC

Interchangeable == Permutations(Handlers) \cup Permutations(Secrets \ {OldSecret})

\* The user has one settings page open: no code for a new secret is checked
\* while another is asked for.
OnePage ==
    \A h \in Handlers : work[h].pc = "confirm" => work[h].sec = shown

CarefulSpec == Init /\ [][Next /\ OnePage']_vars
=============================================================================
