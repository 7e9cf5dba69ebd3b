---------------------------- MODULE StudioOutput ----------------------------
(***************************************************************************)
(* What the producer's page puts out (app/studio/page.tsx): the Web Audio  *)
(* mixer whose track goes to LiveKit as program-mix-audio or to Ant Media  *)
(* with the program camera, and the Ant Media publisher and return player. *)
(*                                                                         *)
(* The page keeps the mixer, the published track and the two adaptors in   *)
(* refs that every handler reads again after its awaits. One action per    *)
(* stretch of a handler between two awaits. Joining, control messages and  *)
(* cuts are the subject of module Studio: a join is one step here, and the *)
(* messages of Start and Stop are one await each.                          *)
(***************************************************************************)
EXTENDS Naturals, FiniteSets

CONSTANTS
    MaxJoins,   \* bound: times the operator enters the Studio
    MaxPresses  \* bound: joins, starts, audio changes and faults together

ASSUME OutputAssumption == MaxJoins \in Nat /\ MaxPresses \in Nat

VARIABLES
    mounted,       \* the page is mounted
    status,        \* the page's status
    target,        \* outputTarget, "custom" included in "antmedia"
    room,          \* publisherRoom: the join that set it, 0 for null
    job,           \* the handler that holds broadcastBusy, or NoJob
    programAudio,  \* programAudioEnabled
    selected,      \* some audio source is enabled in the mix
    context,       \* audioContextRef and its destination, 0 for null
    closed,        \* contexts on which close() was called
    closing,       \* whose destroyAudioMixer awaits close(), or "none"
    nodes,         \* the context the source nodes are connected in, or 0
    track,         \* programAudioTrack: id, or 0 for null
    published,     \* program-mix-audio publications of the source room
    syncs,         \* syncAudioMixer calls awaiting publishTrack
    publisher,     \* antMediaPublisherRef: id, or 0
    player,        \* antMediaPlayerRef: id, or 0
    adaptors,      \* publishers whose WebSocket is open
    players,       \* players whose WebSocket is open
    joins,         \* joins so far
    presses,       \* how many of what MaxPresses bounds there have been
    made,          \* contexts, tracks, adaptors and players created so far
    overlaps       \* history: which events overlapped a handler in flight

page    == <<mounted, status, target, room>>
intent  == <<programAudio, selected>>
mixer   == <<context, closed, closing, nodes>>
mix     == <<track, published, syncs>>
ant     == <<publisher, player, adaptors, players>>
history == <<joins, presses, made, overlaps>>
vars    == <<page, job, intent, mixer, mix, ant, history>>

-----------------------------------------------------------------------------
Id   == Nat \ {0}
Ref  == Nat            \* an Id, or 0 for null
Join == 0..MaxJoins
Made == {"context", "track", "adaptor", "player"}
Publication == [id: Id, context: Id, room: Join \ {0}, muted: BOOLEAN]
Call        == [caller: {"start", "mix"}, id: Id, context: Id, room: Join \ {0},
                audible: BOOLEAN]
Adaptor     == [id: Id, context: Id, started: BOOLEAN]
Overlap     == {"mixInStart", "mixInStop", "startInClose", "leaveInFlight",
                "unmountInFlight", "startedAgain", "failed"}

NoJob == [kind |-> "none", step |-> "none", id |-> 0]
Job(kind, step) == [kind |-> kind, step |-> step, id |-> 0]

Audible == programAudio /\ selected
Quiet   == job = NoJob /\ syncs = {} /\ closing = "none"

If(name, condition) == IF condition THEN {name} ELSE {}
Note(names) == overlaps' = overlaps \cup names
Press == presses < MaxPresses /\ presses' = presses + 1

Init ==
    /\ mounted = TRUE /\ status = "idle" /\ room = 0
    /\ target \in {"livekit", "antmedia"}
    /\ job = NoJob
    /\ programAudio \in BOOLEAN /\ selected = FALSE
    /\ context = 0 /\ closed = {} /\ closing = "none" /\ nodes = 0
    /\ track = 0 /\ published = {} /\ syncs = {}
    /\ publisher = 0 /\ player = 0 /\ adaptors = {} /\ players = {}
    /\ joins = 0 /\ presses = 0 /\ made = [k \in Made |-> 0]
    /\ overlaps = {}

-----------------------------------------------------------------------------
(* The mixer.                                                              *)

\* mute or unmute of programAudioTrack.current, if there is one.
SetMuted(flag) == published' = {IF p.id = track THEN [p EXCEPT !.muted = flag]
                                ELSE p : p \in published}

\* Mutant of Sync: it publishes without asking whether the page still has a room.
SyncWithoutRoom(caller) ==
    LET current == IF context = 0 THEN made["context"] + 1 ELSE context
        publish == target = "livekit" /\ track = 0
        id      == made["track"] + 1
    IN  /\ context' = current
        /\ nodes' = IF Audible' THEN current ELSE 0
        /\ made' = [made EXCEPT !["context"] = IF context = 0 THEN @ + 1 ELSE @,
                                !["track"] = IF publish THEN id ELSE @]
        /\ IF publish
           THEN /\ syncs' = syncs \cup
                     {[caller |-> caller, id |-> id, context |-> current,
                       room |-> room, audible |-> Audible']}
                /\ UNCHANGED published
           ELSE SetMuted(~Audible') /\ UNCHANGED syncs
        /\ UNCHANGED <<closed, closing, track>>

\* syncAudioMixer up to its first await, prepareAudioMixerContext included: the
\* nodes are rebuilt, and the mix is published when it is not yet.
Sync(caller) ==
    LET current == IF context = 0 THEN made["context"] + 1 ELSE context
        publish == target = "livekit" /\ track = 0 /\ room # 0
        id      == made["track"] + 1
    IN  /\ context' = current
        /\ nodes' = IF Audible' THEN current ELSE 0
        /\ made' = [made EXCEPT !["context"] = IF context = 0 THEN @ + 1 ELSE @,
                                !["track"] = IF publish THEN id ELSE @]
        /\ IF publish
           THEN /\ syncs' = syncs \cup
                     {[caller |-> caller, id |-> id, context |-> current,
                       room |-> room, audible |-> Audible']}
                /\ UNCHANGED published
           ELSE SetMuted(~Audible') /\ UNCHANGED syncs
        /\ UNCHANGED <<closed, closing, track>>

\* publishTrack resolves: the ref is set, and the mute decided before the await.
Published(s) ==
    /\ s \in syncs /\ s.room = room
    /\ syncs' = syncs \ {s}
    /\ track' = s.id
    /\ published' = published \cup
         {[id |-> s.id, context |-> s.context, room |-> s.room,
           muted |-> ~s.audible]}
    /\ job' = IF s.caller = "start" THEN [job EXCEPT !.step = "mixed"] ELSE job
    /\ UNCHANGED <<page, intent, mixer, ant, history>>

\* It rejects: a Start ends there, a change of the mix is forgotten.
PublishFails(s) ==
    /\ s \in syncs
    /\ IF s.room = room THEN Press ELSE UNCHANGED presses
    /\ syncs' = syncs \ {s}
    /\ job' = IF s.caller = "start" THEN NoJob ELSE job
    /\ Note({"failed"})
    /\ UNCHANGED <<page, intent, mixer, track, published, ant, joins, made>>

\* destroyAudioMixer up to its await: close() rejects on a closed context, and
\* without a context there is nothing to wait for.
CloseRejects == context # 0 /\ context \in closed
Destroy(caller) ==
    /\ nodes' = 0
    /\ IF CloseRejects \/ context = 0 THEN UNCHANGED <<closed, closing>>
       ELSE closed' = closed \cup {context} /\ closing' = caller
    /\ UNCHANGED context

\* updateAudioMix, a volume that selects what was selected included, and the audio
\* part of updateCameras: a source that comes is not enabled and one that goes is
\* dropped, also when the room of a closed page loses its participants.
UpdateAudioMix(enabled) ==
    /\ mounted \/ (enabled => selected)
    /\ room # 0 /\ Press
    /\ selected' = enabled /\ UNCHANGED programAudio
    /\ IF status = "live" THEN Sync("mix")
       ELSE UNCHANGED <<mixer, mix, made>>
    /\ Note(If("mixInStart", job.kind = "start") \cup If("mixInStop", job.kind = "stop"))
    /\ UNCHANGED <<page, job, ant, joins>>

\* Mutant of ToggleProgramAudio: switching on does not rebuild the mix.
ToggleProgramAudioMutes ==
    /\ mounted /\ Press
    /\ programAudio' = ~programAudio /\ UNCHANGED selected
    /\ IF status = "live" THEN SetMuted(programAudio) ELSE UNCHANGED published
    /\ Note(If("mixInStart", job.kind = "start") \cup If("mixInStop", job.kind = "stop"))
    /\ UNCHANGED <<page, job, mixer, track, syncs, ant, joins, made>>

ToggleProgramAudio ==
    /\ mounted /\ Press
    /\ programAudio' = ~programAudio /\ UNCHANGED selected
    /\ IF status # "live" THEN UNCHANGED <<mixer, mix, made>>
       ELSE IF programAudio /\ target = "livekit"
            THEN SetMuted(TRUE) /\ UNCHANGED <<mixer, track, syncs, made>>
            ELSE Sync("mix")
    /\ Note(If("mixInStart", job.kind = "start") \cup If("mixInStop", job.kind = "stop"))
    /\ UNCHANGED <<page, job, ant, joins>>

-----------------------------------------------------------------------------
(* Ant Media.                                                              *)

StopAntMediaOutput ==
    /\ adaptors' = {a \in adaptors : a.id # publisher}
    /\ players' = players \ {player}
    /\ publisher' = 0 /\ player' = 0

\* startAntMediaOutput up to the import of the SDK; the mix track is in hand.
StartAntMediaOutput ==
    /\ job.kind = "start" /\ job.step = "mixed" /\ target = "antmedia"
    /\ context # 0
    /\ StopAntMediaOutput
    /\ job' = [job EXCEPT !.step = "import", !.id = context]
    /\ UNCHANGED <<page, intent, mixer, mix, history>>

AntMediaImported ==
    /\ job.kind = "start" /\ job.step = "import"
    /\ LET id == made["adaptor"] + 1 IN
       /\ made' = [made EXCEPT !["adaptor"] = id]
       /\ adaptors' = adaptors \cup
            {[id |-> id, context |-> job.id, started |-> FALSE]}
       /\ publisher' = id
       /\ job' = [job EXCEPT !.step = "adaptor", !.id = id]
    /\ UNCHANGED <<page, intent, mixer, mix, player, players, joins, presses,
                   overlaps>>

\* The publish_started callback, which the SDK repeats when it connects again: each
\* one opens a return player and lets go of the one before, and the first ends Start.
PublishStarted(a) ==
    /\ a \in adaptors
    /\ IF a.started THEN Press /\ Note({"startedAgain"})
       ELSE UNCHANGED <<presses, overlaps>>
    /\ LET id == made["player"] + 1 IN
       /\ made' = [made EXCEPT !["player"] = id]
       /\ players' = players \cup {id} /\ player' = id
    /\ adaptors' = (adaptors \ {a}) \cup {[a EXCEPT !.started = TRUE]}
    /\ IF job.step = "adaptor" /\ job.id = a.id
       THEN job' = NoJob /\ status' = "live"
       ELSE UNCHANGED <<job, status>>
    /\ UNCHANGED <<mounted, target, room, intent, mixer, mix, publisher, joins>>

-----------------------------------------------------------------------------
(* Start and Stop.                                                         *)

StartBroadcast ==
    /\ mounted /\ status = "ready" /\ job = NoJob /\ room # 0 /\ Press
    /\ UNCHANGED intent
    /\ Sync("start")
    /\ job' = Job("start", IF syncs' = syncs THEN "mixed" ELSE "mixing")
    /\ Note(If("startInClose", closing # "none"))
    /\ UNCHANGED <<page, ant, joins>>

\* program-start and the snapshot are out.
StartDone ==
    /\ job.kind = "start" /\ job.step = "mixed" /\ target = "livekit"
    /\ job' = NoJob /\ status' = "live"
    /\ UNCHANGED <<mounted, target, room, intent, mixer, mix, ant, history>>

\* What was published stays published; the Ant Media output is taken down.
StartFails ==
    /\ job.kind = "start" /\ job.step \in {"mixed", "import", "adaptor"}
    /\ IF job.step = "mixed" /\ (room = 0 \/ context = 0) THEN UNCHANGED presses
       ELSE Press
    /\ job' = NoJob
    /\ IF target = "antmedia" THEN StopAntMediaOutput ELSE UNCHANGED ant
    /\ Note({"failed"})
    /\ UNCHANGED <<page, intent, mixer, mix, joins, made>>

StopBroadcast ==
    /\ mounted /\ status = "live" /\ job = NoJob /\ room # 0
    /\ IF target = "antmedia" THEN StopAntMediaOutput ELSE UNCHANGED ant
    /\ job' = Job("stop", "sending")
    /\ Note(If("mixInStop", syncs # {}))
    /\ UNCHANGED <<page, intent, mixer, mix, joins, presses, made>>

\* Mutant of StopUnpublish: the track is let go, and not unpublished.
StopUnpublishNothing ==
    /\ job.kind = "stop" /\ job.step = "sending" /\ track # 0
    /\ job' = Job("stop", "unpublishing")
    /\ UNCHANGED <<page, intent, mixer, mix, ant, history>>

\* program-stop is out: unpublish the mix, or go on when there is none.
StopUnpublish ==
    /\ job.kind = "stop" /\ job.step = "sending" /\ track # 0
    /\ published' = {p \in published : p.id # track}
    /\ job' = Job("stop", "unpublishing")
    /\ UNCHANGED <<page, intent, mixer, track, syncs, ant, history>>

StopMixer ==
    /\ job.kind = "stop" /\ ~CloseRejects
    /\ \/ job.step = "sending" /\ track = 0
       \/ job.step = "unpublishing" /\ track # 0
    /\ track' = 0
    /\ Destroy("stop")
    /\ IF context = 0 THEN job' = NoJob /\ status' = "ready"
       ELSE job' = Job("stop", "closing") /\ UNCHANGED status
    /\ UNCHANGED <<mounted, target, room, intent, published, syncs, ant, history>>

\* A Leave has set the track to null, or is closing the mixer: Stop throws.
StopThrows ==
    /\ job.kind = "stop"
    /\ \/ job.step = "unpublishing" /\ track = 0
       \/ job.step = "sending" /\ track = 0 /\ CloseRejects
       \/ job.step = "unpublishing" /\ CloseRejects
    /\ job' = NoJob
    /\ IF job.step = "unpublishing" /\ track # 0
       THEN track' = 0 /\ nodes' = 0 ELSE UNCHANGED <<track, nodes>>
    /\ UNCHANGED <<page, intent, context, closed, closing, published, syncs,
                   ant, history>>

\* program-stop or unpublishTrack is rejected: the page still says "live".
StopFails ==
    /\ job.kind = "stop" /\ job.step \in {"sending", "unpublishing"} /\ Press
    /\ job' = NoJob
    /\ Note({"failed"})
    /\ UNCHANGED <<page, intent, mixer, mix, ant, joins, made>>

\* close() resolves, for Stop or for Leave: the refs are set to null.
MixerClosed ==
    /\ closing # "none"
    /\ closing' = "none" /\ context' = 0
    /\ IF closing = "stop" THEN job' = NoJob /\ status' = "ready"
       ELSE UNCHANGED <<job, status>>
    /\ UNCHANGED <<mounted, target, room, intent, closed, nodes, mix, ant,
                   history>>

-----------------------------------------------------------------------------
(* Joining, leaving and closing the page.                                  *)

\* connectStudio, from the operator's choice of a target to "ready".
ConnectStudio(t) ==
    /\ mounted /\ status = "idle" /\ joins < MaxJoins /\ Press
    /\ target' = t
    /\ room' = joins + 1 /\ joins' = joins + 1
    /\ status' = "ready"
    /\ UNCHANGED <<mounted, job, intent, mixer, mix, ant, made, overlaps>>

\* Mutant of LeaveStudio: the Ant Media output is left to the page's cleanup.
LeaveStudioOnly ==
    /\ mounted /\ status \in {"ready", "live"}
    /\ publisher' = 0 /\ player' = 0
    /\ published' = {p \in published : p.room # room}
    /\ track' = 0 /\ room' = 0 /\ selected' = FALSE
    /\ Destroy("leave")
    /\ status' = "idle"
    /\ Note(If("leaveInFlight", ~Quiet))
    /\ UNCHANGED <<mounted, target, job, programAudio, syncs, adaptors, players,
                   joins, presses, made>>

LeaveStudio ==
    /\ mounted /\ status \in {"ready", "live"}
    /\ StopAntMediaOutput
    /\ published' = {p \in published : p.room # room}
    /\ track' = 0 /\ room' = 0 /\ selected' = FALSE
    /\ Destroy("leave")
    /\ status' = "idle"
    /\ Note(If("leaveInFlight", ~Quiet))
    /\ UNCHANGED <<mounted, target, job, programAudio, syncs, joins, presses,
                   made>>

\* The cleanup of the page: what runs is closed, the refs are left as they are.
Unmount ==
    /\ mounted /\ mounted' = FALSE
    /\ StopAntMediaOutput
    /\ published' = {p \in published : p.room # room}
    /\ nodes' = 0 /\ closed' = closed \cup ({context} \ {0})
    /\ Note(If("unmountInFlight", ~Quiet))
    /\ UNCHANGED <<status, target, room, job, intent, context, closing, track,
                   syncs, joins, presses, made>>

-----------------------------------------------------------------------------
Next ==
    \/ \E enabled \in BOOLEAN : UpdateAudioMix(enabled)
    \/ ToggleProgramAudio
    \/ \E s \in syncs : Published(s) \/ PublishFails(s)
    \/ StartAntMediaOutput \/ AntMediaImported
    \/ \E a \in adaptors : PublishStarted(a)
    \/ StartBroadcast \/ StartDone \/ StartFails
    \/ StopBroadcast \/ StopUnpublish \/ StopMixer \/ StopThrows \/ StopFails
    \/ MixerClosed
    \/ \E t \in {"livekit", "antmedia"} : ConnectStudio(t)
    \/ LeaveStudio \/ Unmount

Spec == Init /\ [][Next]_vars

-----------------------------------------------------------------------------
TypeOK ==
    /\ mounted \in BOOLEAN
    /\ status \in {"idle", "ready", "live"}
    /\ target \in {"livekit", "antmedia"}
    /\ room \in Join
    /\ job \in [kind: {"none", "start", "stop"},
                step: {"none", "mixing", "mixed", "import", "adaptor",
                       "sending", "unpublishing", "closing"},
                id: Ref]
    /\ programAudio \in BOOLEAN /\ selected \in BOOLEAN
    /\ context \in Ref /\ closed \subseteq Id /\ nodes \in Ref
    /\ closing \in {"none", "stop", "leave"}
    /\ track \in Ref /\ published \subseteq Publication /\ syncs \subseteq Call
    /\ publisher \in Ref /\ player \in Ref
    /\ adaptors \subseteq Adaptor /\ players \subseteq Id
    /\ joins \in Join /\ presses \in 0..MaxPresses
    /\ made \in [Made -> Nat]
    /\ overlaps \subseteq Overlap

Unless(names) == overlaps \cap names = {}

\* On the LiveKit output, live and at rest, exactly one mix is published, from
\* the mixer in use, and it is heard exactly when the operator's settings say so,
\* unless the settings changed during Start or Stop, a Start met the mixer of the
\* last session still closing, the Studio was left during a handler, or a request
\* failed.
MixIsHeard ==
    mounted /\ Quiet /\ status = "live" /\ target = "livekit"
    /\ Unless({"mixInStart", "mixInStop", "startInClose", "leaveInFlight", "failed"})
    => /\ context \notin closed
       /\ published = {[id |-> track, context |-> context, room |-> room,
                        muted |-> ~Audible]}
       /\ Audible => nodes = context

\* Off air and at rest nothing is published and no publisher is open, nor a player
\* unless publishing was reported started again, with the exceptions that the mix
\* was changed during Stop, a Start met a mixer still closing, or a handler was left
\* or failed.
SilentOffAir ==
    Quiet /\ (status # "live" \/ ~mounted)
    /\ Unless({"mixInStop", "startInClose", "leaveInFlight", "unmountInFlight", "failed"})
    => /\ published = {} /\ adaptors = {}
       /\ Unless({"startedAgain"}) => players = {}

\* A mounted page holds the reference of every publisher that is open, so that Stop
\* and Leave reach it, also when Start went on after a Leave; and of every player,
\* unless publishing was reported started again, which loses the one before.
AdaptorsHeld ==
    mounted => /\ {a.id : a \in adaptors} \subseteq {publisher}
               /\ Unless({"startedAgain"}) => players \subseteq {player}

\* On the Ant Media output, live and at rest, the publisher carries the mixer in
\* use and the return player is open, the only one unless publishing was reported
\* started again; with the exceptions that a Start met a mixer still closing, the
\* Studio was left during a handler, or a request failed.
AntMediaIsHeard ==
    mounted /\ Quiet /\ status = "live" /\ target = "antmedia"
    /\ Unless({"startInClose", "leaveInFlight", "failed"})
    => /\ adaptors = {[id |-> publisher, context |-> context, started |-> TRUE]}
       /\ context \notin closed /\ player \in players
       /\ Unless({"startedAgain"}) => players = {player}

\* Whichever output the Studio is on, live and at rest, the program is heard as the
\* operator set it, with the exceptions the two parts name.
ProgramIsHeard == MixIsHeard /\ AntMediaIsHeard
=============================================================================
