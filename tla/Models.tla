-------------------------------- MODULE Models --------------------------------
(***************************************************************************)
(* The models of one user and the voices and files behind them             *)
(* (delivery/http/model_crud.go, repository/mysql/model.go).               *)
(*                                                                         *)
(* A model is a row here and an object at a provider.  A cloned voice      *)
(* lives at Mistral; the row of the Mistral model names it in              *)
(* RealtimeVAD.Mistral twice, as VoiceID and as VoiceClone.ProfileID.      *)
(* Handlers read the row, call the provider and write the row back, with   *)
(* no lock.  The model router (w.mod) is outside the repository: a call of *)
(* it is one step that succeeds or fails, and fails without effect.        *)
(***************************************************************************)
EXTENDS Integers, FiniteSets

CONSTANTS
    Providers, Mistral,
    Voices,     \* ids Mistral gives to cloned voices
    Preset,     \* a voice of Mistral that nobody can delete
    Files,      \* ids the providers give to files
    Prefixed,   \* providers whose ids of files begin with "file-"
    Handlers,   \* HTTP goroutines that take more than one step
    Pages,      \* pages with the settings of a model, open or not
    None,
    MaxFaults   \* bound on failing calls, and on deletions by hand

VoiceId == Voices \cup {Preset}
Named == VoiceId \cup {None}

\* The id under which a row keeps an uploaded file.  An id that lacks the prefix
\* gets it, and then nothing at a provider has that name.
FullId(u) == IF u.prov \in Prefixed THEN u.file ELSE <<"file-", u.file>>
FileName == {FullId(u) : u \in [file : Files, prov : Providers]}

Data == [voice : Named, clone : Named, files : SUBSET FileName]

ASSUME ModelsAssumption ==
    /\ Mistral \in Providers /\ Prefixed \subseteq Providers
    /\ {Preset, None} \cap Voices = {} /\ Preset # None
    /\ None \notin Providers /\ None \notin Data
    /\ Voices \cap Files = {} /\ \A f \in Files : <<"file-", f>> \notin Files
    /\ MaxFaults \in Nat

VARIABLES
    model,    \* the saved row of each provider
    active,   \* provider of the row with IsActive
    voice,    \* Mistral's state of each voice
    remote,   \* files each provider stores
    uploaded, \* files the page has uploaded and not added yet, with their provider
    page,     \* what each tab shows
    work,     \* handler state
    faults,
    asked,    \* voices and files deleted at the user's own request
    misfiled, \* names of files that FileAdd put into a row where they name nothing:
              \* a converted id, or the row of another provider
    excused   \* living voices that the user took out of the model by saving its
              \* settings, or whose deletion failed, which was logged or told

remains == <<asked, excused>>
uploads == <<uploaded, misfiled>>
vars == <<model, active, voice, remote, uploads, page, work, faults, remains>>

NoData == [voice |-> None, clone |-> None, files |-> {}]
Idle == [pc |-> "idle", prov |-> None, old |-> None, new |-> None, data |-> None,
         ids |-> {}]

Live == {v \in Voices : voice[v] = "live"}

TypeOK ==
    /\ model \in [Providers -> Data \cup {None}]
    /\ active \in Providers \cup {None}
    /\ voice \in [Voices -> {"unused", "live", "gone"}]
    /\ remote \in [Providers -> SUBSET Files]
    /\ uploaded \subseteq [file : Files, prov : Providers] /\ misfiled \subseteq FileName
    /\ page \in [Pages -> [prov : Providers, data : Data \cup {None}] \cup {None}]
    /\ work \in [Handlers -> [pc : {"idle", "create", "link", "write", "unlink", "cleanup",
                                    "save", "remove", "voices"},
                              prov : Providers \cup {None}, old : Named, new : Named,
                              data : Data \cup {None}, ids : SUBSET VoiceId]]
    /\ faults \in 0..MaxFaults
    /\ asked \subseteq Voices \cup Files /\ excused \subseteq Live
    /\ active # None => model[active] # None

Init ==
    /\ model = [p \in Providers |-> None] /\ active = None
    /\ voice = [v \in Voices |-> "unused"]
    /\ remote = [p \in Providers |-> {}] /\ uploaded = {} /\ misfiled = {}
    /\ page = [t \in Pages |-> None]
    /\ work = [h \in Handlers |-> Idle]
    /\ faults = 0 /\ asked = {} /\ excused = {}

-----------------------------------------------------------------------------

At(h, label) == work[h].pc = label
Goto(h, w) == work' = [work EXCEPT ![h] = w]
Fault == faults < MaxFaults /\ faults' = faults + 1
\* A call for the model of p fails, as it must when the model is gone.
CallFails(p) == IF model[p] = None THEN UNCHANGED faults ELSE Fault

\* mistralVoiceIDs.
VoicesOf(d) == IF d = None THEN {} ELSE {d.voice, d.clone} \ {None}

\* currentMistralVoiceID.
Current(d) ==
    IF d = None THEN None ELSE IF d.clone # None THEN d.clone ELSE d.voice

\* Mistral's answer to a deletion: a preset or a voice that is gone is an error.
Deleted(v) ==
    /\ v \in Live
    /\ voice' = [voice EXCEPT ![v] = "gone"]
    /\ excused' = excused \ {v}
    /\ UNCHANGED faults
NotDeleted(v) ==
    /\ IF v \in Live THEN Fault ELSE UNCHANGED faults
    /\ excused' = excused \cup ({v} \cap Live)
    /\ UNCHANGED voice

-----------------------------------------------------------------------------
\* CloneVoice.

CloneVoice(h) ==
    /\ At(h, "idle")
    /\ Goto(h, [Idle EXCEPT !.pc = "create", !.old = Current(model[Mistral])])
    /\ UNCHANGED <<model, active, voice, remote, uploads, page, faults, remains>>

CreateVoice(h) ==
    /\ At(h, "create")
    /\ \/ \E v \in Voices :
            /\ voice[v] = "unused"
            /\ voice' = [voice EXCEPT ![v] = "live"]
            /\ Goto(h, [work[h] EXCEPT !.pc = "link", !.new = v])
            /\ UNCHANGED faults
       \/ Fault /\ Goto(h, Idle) /\ UNCHANGED voice
    /\ UNCHANGED <<model, active, remote, uploads, page, remains>>

\* linkMistralVoice reads the row ...
LinkRead(h) ==
    /\ At(h, "link")
    /\ \/ /\ model[Mistral] # None
          /\ Goto(h, [work[h] EXCEPT !.pc = "write", !.data = model[Mistral]])
          /\ UNCHANGED faults
       \/ /\ CallFails(Mistral)
          /\ Goto(h, [work[h] EXCEPT !.pc = "cleanup"])
    /\ UNCHANGED <<model, active, voice, remote, uploads, page, remains>>

\* Mutant of LinkWrite: a failed write ends the handler.
LinkWriteForgets(h) ==
    /\ At(h, "write")
    /\ \/ CallFails(Mistral) /\ Goto(h, Idle) /\ UNCHANGED model
       \/ /\ model[Mistral] # None
          /\ model' = [model EXCEPT ![Mistral] = [work[h].data EXCEPT !.voice = work[h].new,
                                                                     !.clone = work[h].new]]
          /\ Goto(h, IF work[h].old = None THEN Idle ELSE [work[h] EXCEPT !.pc = "unlink"])
          /\ UNCHANGED faults
    /\ UNCHANGED <<active, voice, remote, uploads, page, remains>>

\* ... and writes all of it back.
LinkWrite(h) ==
    /\ At(h, "write")
    /\ \/ /\ model[Mistral] # None
          /\ model' = [model EXCEPT ![Mistral] = [work[h].data EXCEPT !.voice = work[h].new,
                                                                     !.clone = work[h].new]]
          /\ Goto(h, IF work[h].old = None THEN Idle ELSE [work[h] EXCEPT !.pc = "unlink"])
          /\ UNCHANGED faults
       \/ /\ CallFails(Mistral)
          /\ Goto(h, [work[h] EXCEPT !.pc = "cleanup"])
          /\ UNCHANGED model
    /\ UNCHANGED <<active, voice, remote, uploads, page, remains>>

\* The old voice, or after an error the new one, is deleted once.
Unlink(h) ==
    LET v == IF At(h, "unlink") THEN work[h].old ELSE work[h].new IN
    /\ At(h, "unlink") \/ At(h, "cleanup")
    /\ Deleted(v) \/ NotDeleted(v)
    /\ Goto(h, Idle)
    /\ UNCHANGED <<model, active, remote, uploads, page, asked>>

\* A voice that exists and has an owner.
Editable(v) == v \in Live

\* DELETE /model/voices/{id}; whether a model uses the voice is not asked.
DeleteVoice(v) ==
    /\ Editable(v) /\ Fault
    /\ voice' = [voice EXCEPT ![v] = "gone"]
    /\ asked' = asked \cup {v} /\ excused' = excused \ {v}
    /\ UNCHANGED <<model, active, remote, uploads, page, work>>

-----------------------------------------------------------------------------
\* The settings page: ReadUserModel and GetVoiceSettings fill it, CreateModel
\* and UpdateModel send all of it back.

OpenPage(t, p) ==
    /\ page[t] = None
    /\ page' = [page EXCEPT ![t] = [prov |-> p, data |-> model[p]]]
    /\ UNCHANGED <<model, active, voice, remote, uploads, work, faults, remains>>

ClosePage(t) ==
    /\ page[t] # None
    /\ page' = [page EXCEPT ![t] = None]
    /\ UNCHANGED <<model, active, voice, remote, uploads, work, faults, remains>>

\* The voices on a page, which may have been loaded long ago.
Listed == {v \in Voices : voice[v] # "unused"} \cup {Preset}

\* A new VoiceID may come from the list; VoiceClone stays or is cleared.
Edited(g) ==
    LET d == IF g.data = None THEN NoData ELSE g.data
        picks == IF g.prov = Mistral THEN Listed \cup {d.voice} ELSE {None} IN
    {[voice |-> v, clone |-> c, files |-> d.files] : v \in picks, c \in {d.clone, None}}

UpdateModel(t) ==
    LET g == page[t] IN
    /\ g # None /\ g.data # None /\ model[g.prov] # None
    /\ \E d \in Edited(g) :
         /\ model' = [model EXCEPT ![g.prov] = d]
         /\ excused' = (excused \ VoicesOf(d)) \cup ((VoicesOf(model[g.prov]) \ VoicesOf(d)) \cap Live)
    /\ page' = [page EXCEPT ![t] = None]
    /\ UNCHANGED <<active, voice, remote, uploads, work, faults, asked>>

\* The object is made at the provider first ...
CreateModel(h, t) ==
    LET g == page[t] IN
    /\ At(h, "idle") /\ g # None /\ g.data = None
    /\ \E d \in Edited(g) : Goto(h, [Idle EXCEPT !.pc = "save", !.prov = g.prov, !.data = d])
    /\ page' = [page EXCEPT ![t] = None]
    /\ UNCHANGED <<model, active, voice, remote, uploads, faults, remains>>

\* ... and SaveModel writes the row; the library decides whether it is active.
SaveModel(h) ==
    LET w == work[h] IN
    /\ At(h, "save")
    /\ \/ /\ model' = [model EXCEPT ![w.prov] = w.data]
          /\ active' \in {active, w.prov}
          /\ excused' = excused \ VoicesOf(w.data)
          /\ UNCHANGED faults
       \/ Fault /\ UNCHANGED <<model, active, excused>>
    /\ Goto(h, Idle)
    /\ UNCHANGED <<voice, remote, uploads, page, asked>>

\* Mutant of SetModelActive: any provider will do.
SetAnyActive(p) ==
    /\ active' = p
    /\ UNCHANGED <<model, voice, remote, uploads, page, work, faults, remains>>

SetModelActive(p) ==
    /\ model[p] # None
    /\ active' = p
    /\ UNCHANGED <<model, voice, remote, uploads, page, work, faults, remains>>

-----------------------------------------------------------------------------
\* Files.

FileUpload(p) ==
    /\ \E f \in Files :
         /\ f \notin asked /\ \A q \in Providers : f \notin remote[q]
         /\ \A q \in Providers : model[q] # None => f \notin model[q].files
         /\ remote' = [remote EXCEPT ![p] = @ \cup {f}]
         /\ uploaded' = uploaded \cup {[file |-> f, prov |-> p]}
    /\ UNCHANGED <<model, active, voice, misfiled, page, work, faults, remains>>

\* Mutant of AddFileFromUserGPT: the row is found without IsActive.
AddFileAnywhere(u) ==
    \E p \in Providers :
        model[p] # None /\ model' = [model EXCEPT ![p].files = @ \cup {FullId(u)}]

\* One transaction on the active row; without one it fails.
AddFileFromUserGPT(u) ==
    /\ active # None
    /\ model' = [model EXCEPT ![active].files = @ \cup {FullId(u)}]

\* The provider of the request is looked at and not used.
FileAdd(u) ==
    /\ u \in uploaded
    /\ AddFileFromUserGPT(u)
    /\ uploaded' = uploaded \ {u}
    /\ misfiled' = IF u.prov = active /\ u.prov \in Prefixed THEN misfiled
                   ELSE misfiled \cup {FullId(u)}
    /\ UNCHANGED <<active, voice, remote, page, work, faults, remains>>

\* The library may also strike the file from the row.
FileDelete(p, f) ==
    /\ f \in remote[p] /\ Fault
    /\ remote' = [remote EXCEPT ![p] = @ \ {f}]
    /\ asked' = asked \cup {f}
    /\ model' \in {model} \cup IF model[p] = None THEN {}
                               ELSE {[model EXCEPT ![p].files = @ \ {f}]}
    /\ UNCHANGED <<active, voice, uploads, page, work, excused>>

-----------------------------------------------------------------------------
\* DeleteModelWSS.

\* The voices are read before the model is deleted; a failed read is logged.
DeleteModelWSS(h, p) ==
    /\ At(h, "idle") /\ model[p] # None
    /\ \/ /\ Goto(h, [Idle EXCEPT !.pc = "remove", !.prov = p, !.data = model[p],
                               !.ids = VoicesOf(model[p])])
          /\ UNCHANGED <<faults, excused>>
       \/ /\ p = Mistral /\ Fault
          /\ excused' = excused \cup (VoicesOf(model[p]) \cap Live)
          /\ Goto(h, [Idle EXCEPT !.pc = "remove", !.prov = p])
    /\ UNCHANGED <<model, active, voice, remote, uploads, page, asked>>

\* The library deletes the model with its files, or reports an error.
DeleteModel(h) ==
    LET w == work[h] IN
    /\ At(h, "remove")
    /\ \/ /\ model[w.prov] # None
          /\ model' = [model EXCEPT ![w.prov] = None]
          /\ active' = IF active = w.prov THEN None ELSE active
          /\ remote' = [remote EXCEPT ![w.prov] = @ \ model[w.prov].files]
          /\ Goto(h, IF w.ids = {} THEN Idle ELSE [w EXCEPT !.pc = "voices"])
          /\ UNCHANGED faults
       \/ /\ CallFails(w.prov)
          /\ Goto(h, Idle)
          /\ UNCHANGED <<model, active, remote>>
    /\ UNCHANGED <<voice, uploads, page, remains>>

\* The next voice of the loop, or its end.
NextVoice(w, v) == IF w.ids = {v} THEN Idle ELSE [w EXCEPT !.ids = @ \ {v}]

\* mistralVoiceIDs lists VoiceID before the clone's profile.
HeadVoice(w) == IF w.data.voice \in w.ids THEN w.data.voice ELSE w.data.clone

\* deleteMistralVoiceWithRetry, its three attempts as one step.  After the last
\* failure the client is told of this voice, and the loop is left with the rest.
DeleteMistralVoice(h) ==
    LET w == work[h]
        v == HeadVoice(w) IN
    /\ At(h, "voices")
    /\ \/ Deleted(v) /\ Goto(h, NextVoice(w, v))
       \/ NotDeleted(v) /\ Goto(h, Idle)
    /\ UNCHANGED <<model, active, remote, uploads, page, asked>>

-----------------------------------------------------------------------------

Serve(h) ==
    \/ CreateVoice(h) \/ LinkRead(h) \/ LinkWrite(h) \/ Unlink(h)
    \/ SaveModel(h) \/ DeleteModel(h) \/ DeleteMistralVoice(h)

Next ==
    \/ \E h \in Handlers :
         \/ Serve(h)
         \/ CloneVoice(h)
         \/ \E p \in Providers : DeleteModelWSS(h, p)
         \/ \E t \in Pages : CreateModel(h, t)
    \/ \E t \in Pages : UpdateModel(t) \/ ClosePage(t) \/ \E p \in Providers : OpenPage(t, p)
    \/ \E v \in Voices : DeleteVoice(v)
    \/ \E p \in Providers : SetModelActive(p) \/ FileUpload(p) \/ \E f \in Files : FileDelete(p, f)
    \/ \E u \in uploaded : FileAdd(u)

Spec == Init /\ [][Next]_vars

-----------------------------------------------------------------------------

InHand(v) == \E h \in Handlers : work[h].pc # "idle" /\ v \in {work[h].old, work[h].new} \cup work[h].ids

\* No cloned voice stays at Mistral, counted against the user's limit there,
\* without being named by the model: one that is, was taken out of the model by
\* the user, is still in the hands of a handler, or its deletion failed and this
\* was reported.  Clones, deletions and their error paths must add up to that.
NoStrayVoice ==
    \A v \in Live : v \in VoicesOf(model[Mistral]) \cup excused \/ InHand(v)

\* What a model's row names exists: its voices at Mistral and its files at the
\* model's own provider, save what the user deleted by hand and the files that
\* FileAdd misfiled: it adds to the active model whatever provider the file was
\* uploaded to, and it changes every id without the prefix "file-".
RowNamesWhatExists ==
    /\ VoicesOf(model[Mistral]) \subseteq Live \cup asked \cup {Preset}
    /\ \A p \in Providers : model[p] # None =>
           model[p].files \subseteq remote[p] \cup asked \cup misfiled

\* Once DeleteModelWSS is over, no voice the deleted model named is left at
\* Mistral unless the client was told of it.
VoicesGoWithModel ==
    (\A h \in Handlers : At(h, "idle")) /\ model[Mistral] = None => Live \subseteq excused
=============================================================================
