---------------------------- MODULE MCTestSession ----------------------------
(* Instances of TestSession for TLC. *)
EXTENDS TestSession, TLC

\* Dialogs and calls share nothing, so a behaviour has its calls before its dialogs:
\* an action constraint of `clients`. It holds back no step of what is under way.
NoCall == rt = None /\ \A v \in Voices : voice[v].pc = "idle" /\ ~voice[v].sender
CallsFirst ==
    \/ UNCHANGED speech /\ NoCall
    \/ UNCHANGED <<map, work, sock, dialog>> /\ open = {} /\ \A s \in Sessions : sess[s].ch = None
                                             /\ \A p \in Procs : At(p, "idle")

\* Goroutines run: those of the handlers, and the cleanup every minute.
FairSpec ==
    /\ Init /\ [][Next]_vars
    /\ \A w \in Sockets : WF_vars(Handle(w)) /\ WF_vars(Stop(w))
    /\ \A p \in Requests : WF_vars(Drop(p) \/ Create(p) \/ Store(p))
                           /\ WF_vars(StopClose(p) \/ Unlink(p))
    /\ \A v \in Voices : WF_vars(Speak(v))
    /\ WF_vars(Clean)

\* Sessions and requests are interchangeable.
Symmetry == Permutations(Sessions) \cup Permutations(Requests)
=============================================================================
