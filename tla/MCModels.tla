------------------------------ MODULE MCModels ------------------------------
(* Instances of Models for TLC. *)
EXTENDS Models, TLC

Interchangeable == Permutations(Voices) \cup Permutations(Handlers) \cup Permutations(Files)

\* Voices that handler h deletes or may have to delete.
Doomed(h) ==
    LET w == work[h] IN
    IF w.pc \in {"link", "write", "cleanup"} THEN {w.new}
    ELSE IF w.pc = "unlink" THEN {w.old} ELSE w.ids

\* Voices a user may choose: they exist, and no handler is about to delete them.
Settled(vs) ==
    vs \ {Preset} \subseteq (Live \cup asked) \ UNION {Doomed(h) : h \in Handlers}

\* What a handler or a page has read of a model is still so, unless the model
\* is gone.
ReadsHold ==
    /\ \A h \in Handlers :
        LET w == work[h]
            gone == model[IF w.prov = None THEN Mistral ELSE w.prov] = None IN
        /\ w.pc \in {"create", "link", "write"} => gone \/ w.old = Current(model[Mistral])
        /\ w.pc = "write" => gone \/ model[Mistral] = w.data
        /\ w.pc = "remove" => gone \/ VoicesOf(model[w.prov]) \subseteq w.ids \cup excused
        /\ w.pc = "save" => gone /\ Settled(VoicesOf(w.data))
    /\ \A t \in Pages : page[t] # None => page[t].data = model[page[t].prov]

\* A page is saved with a voice the user may choose.
SavesSettled ==
    (\E t \in Pages : page[t] # None /\ page'[t] = None) /\ model' # model
        => Settled(VoicesOf(model[Mistral]))'

\* A model has one voice: its clone or, without one, its VoiceID.
OneVoice(d) == d = None \/ d.clone = None \/ d.voice = d.clone

CarefulNext ==
    /\ Next
    /\ ReadsHold' /\ SavesSettled
    /\ \A p \in Providers : OneVoice(model'[p])
    /\ \A h \in Handlers : OneVoice(work'[h].data)

CarefulSpec == Init /\ [][CarefulNext]_vars
=============================================================================
