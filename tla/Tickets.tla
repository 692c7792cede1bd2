------------------------------- MODULE Tickets -------------------------------
(***************************************************************************)
(* What a one-time ticket promises, whatever carries it: it is handed out  *)
(* once, somebody takes it, and it is honoured at most once or not at all. *)
(* SignIn implements it with the totp_token of a login that waits for its  *)
(* code (AuthTOTP, http/totp.go).                                          *)
(***************************************************************************)
EXTENDS Naturals

CONSTANT Ids        \* the tickets

VARIABLES
    state,      \* "unborn", "open", "taken", "used" or "gone"
    uses        \* how often each was honoured
ticketVars == <<state, uses>>

TicketsInit ==
    /\ state = [i \in Ids |-> "unborn"]
    /\ uses = [i \in Ids |-> 0]

Moves(i, from, to) == state[i] = from /\ state' = [state EXCEPT ![i] = to]

(* A ticket is handed out, then taken by the one who checks it, who honours it *)
(* if it is good.                                                              *)
Issue(i) == Moves(i, "unborn", "open") /\ UNCHANGED uses
Take(i) == Moves(i, "open", "taken") /\ UNCHANGED uses
Honour(i) == Moves(i, "taken", "used") /\ uses' = [uses EXCEPT ![i] = @ + 1]

(* Tickets lapse: time is up, the check fails, or everything is forgotten.     *)
Lapse ==
    /\ \E is \in SUBSET {i \in Ids : state[i] \in {"open", "taken"}} :
          state' = [i \in Ids |-> IF i \in is THEN "gone" ELSE state[i]]
    /\ UNCHANGED uses

TicketsNext == Lapse \/ \E i \in Ids : Issue(i) \/ Take(i) \/ Honour(i)
TicketsSpec == TicketsInit /\ [][TicketsNext]_ticketVars
=============================================================================
