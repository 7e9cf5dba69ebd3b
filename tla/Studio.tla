------------------------------- MODULE Studio -------------------------------
(***************************************************************************)
(* The producer's page (app/studio/page.tsx) on the LiveKit output: how it *)
(* joins the two SFUs, goes on and off air, and cuts, with the program     *)
(* bridge at the other end of a reliable, ordered data channel.            *)
(*                                                                         *)
(* A handler runs to its next await and the operator may press any button  *)
(* the page offers meanwhile, so each handler is one action per stretch    *)
(* between two awaits, with the values its closure captured kept in job,   *)
(* switching or join. A scene is its camera and its revision. The audio    *)
(* mixer and the Ant Media output are the subject of module StudioOutput.  *)
(***************************************************************************)
EXTENDS Naturals, Sequences

CONSTANTS
    Camera,     \* participants of the source room that publish a camera
    None,       \* no camera
    MaxJoins,   \* bound: times the operator enters the Studio
    MaxPresses  \* bound: joins, edits, cuts, starts, faults and cameras that
                \*   come or go, taken together

ASSUME StudioAssumption ==
    /\ None \notin Camera
    /\ MaxJoins \in Nat /\ MaxPresses \in Nat

VARIABLES
    status,      \* the page's status
    job,         \* the broadcast handler that holds broadcastBusy, or NoJob
    join,        \* per connectStudio call, the request it awaits
    connecting,  \* connectingRef
    pub,         \* publisherRoom: the call that connected it, 0 for null
    mon,         \* outputPublisherRoom, likewise
    open,        \* rooms whose connection is up
    present,     \* cameras in the source room
    cams,        \* the page's cameras
    scene,       \* the selected scene; its camera is scene.sourceId
    dirty,       \* previewSceneDirty
    preview,     \* previewCameraId
    active,      \* activeCameraId
    program,     \* programScene
    aired,       \* the last snapshot the viewers were sent
    switching,   \* performCut calls awaiting their program-switch
    snapping,    \* performCut calls awaiting their snapshot
    wire,        \* control messages on their way to the bridge
    bridge,      \* its activeSource and started
    joins,       \* connectStudio calls so far
    presses,     \* how many of what MaxPresses bounds there have been
    wanted,      \* history: what the last Cut or Start asked for
    overlaps     \* history: which events overlapped a handler in flight

rooms   == <<join, connecting, pub, mon, open>>
picture == <<cams, scene, dirty, preview, active>>
output  == <<program, aired, switching, snapping>>
link    == <<wire, bridge>>
history == <<joins, presses, wanted, overlaps>>
vars    == <<status, job, rooms, present, picture, output, link, history>>

-----------------------------------------------------------------------------
Status  == {"idle", "connecting", "ready", "live", "error"}
Source  == Camera \cup {None}
Scene   == [camera: Source, rev: 0..MaxPresses]
Message == [type: {"program-start", "program-switch", "program-stop"},
            camera: Source]
Room    == {"source", "monitor"} \X (1..MaxJoins)
Overlap == {"cutInStart", "cutInStop", "cutInCut", "editInFlight",
            "sourceLost", "leaveInFlight", "leftOnAir", "roomLost", "failed"}

Blank == [camera |-> None, rev |-> 0]
NoJob == [kind |-> "none", step |-> "none", scene |-> Blank]

IsConnected == status \in {"ready", "live"}
SourceUp    == <<"source", pub>> \in open
MonitorUp   == <<"monitor", mon>> \in open

\* Nothing awaits anything, and the bridge has caught up.
Quiet == /\ job = NoJob /\ switching = <<>> /\ snapping = 0 /\ wire = <<>>
         /\ \A j \in 1..MaxJoins : join[j] = "none"

Note(names) == overlaps' = overlaps \cup names
If(name, condition) == IF condition THEN {name} ELSE {}
Press == /\ presses < MaxPresses /\ presses' = presses + 1
         /\ UNCHANGED joins

Init ==
    /\ status = "idle" /\ job = NoJob
    /\ join = [j \in 1..MaxJoins |-> "none"] /\ connecting = FALSE
    /\ pub = 0 /\ mon = 0 /\ open = {}
    /\ present \in SUBSET Camera /\ cams = {}
    /\ scene \in {[Blank EXCEPT !.camera = c] : c \in Source} \* as stored
    /\ dirty = FALSE /\ preview = None /\ active = None
    /\ program = scene /\ aired = Blank /\ switching = <<>> /\ snapping = 0
    /\ wire = <<>> /\ bridge = [source |-> None, started |-> FALSE]
    /\ joins = 0 /\ presses = 0 /\ wanted = Blank /\ overlaps = {}

-----------------------------------------------------------------------------
(* Cameras come and go. updateCameras follows whatever the source room     *)
(* reports: the preview is the scene's camera while it is connected, and   *)
(* the active camera changes only when it is gone.                         *)

UpdateCameras(cs, names) ==
    LET configured == IF scene.camera \in cs THEN scene.camera ELSE None
        kept == IF active \in cs THEN active ELSE configured
    IN  /\ cams' = cs
        /\ preview' = configured
        /\ active' = kept
        /\ Note(names \cup If("sourceLost", active # None /\ kept # active
                     /\ (status = "live" \/ job.kind = "start" \/ switching # <<>>)))
        /\ UNCHANGED <<scene, dirty>>

CameraMoves(c) ==
    /\ Press
    /\ present' = IF c \in present THEN present \ {c} ELSE present \cup {c}
    /\ IF \E j \in 1..MaxJoins : <<"source", j>> \in open
       THEN UpdateCameras(present', {}) ELSE UNCHANGED <<picture, overlaps>>
    /\ UNCHANGED <<status, job, rooms, output, link, wanted>>

\* The page forgets the camera at once; the bridge is not told.
DisconnectSource(c) ==
    /\ pub # 0 /\ c \in cams /\ Press
    /\ active' = IF active = c THEN None ELSE active
    /\ preview' = IF preview = c THEN None ELSE preview
    /\ Note(If("sourceLost", active = c))
    /\ UNCHANGED <<status, job, rooms, present, cams, scene, dirty, output,
                   link, wanted>>

-----------------------------------------------------------------------------
(* Joining and leaving.                                                    *)

\* Messages that have not reached the SFU when the room closes are gone.
LoseMessages == \E k \in 0..Len(wire) : wire' = SubSeq(wire, 1, k)

\* Mutant: the monitor room is forgotten without being disconnected.
DisconnectAllButMonitor ==
    /\ open' = open \ {<<"source", pub>>}
    /\ pub' = 0 /\ mon' = 0
    /\ IF SourceUp THEN LoseMessages ELSE UNCHANGED wire
    /\ cams' = {} /\ preview' = None /\ active' = None
    /\ UNCHANGED <<scene, dirty, bridge>>

DisconnectAll ==
    /\ open' = open \ {<<"source", pub>>, <<"monitor", mon>>}
    /\ pub' = 0 /\ mon' = 0
    /\ IF SourceUp THEN LoseMessages ELSE UNCHANGED wire
    /\ cams' = {} /\ preview' = None /\ active' = None
    /\ UNCHANGED <<scene, dirty, bridge>>

ConnectStudio(j) ==
    /\ status \in {"idle", "error"} /\ ~connecting
    /\ j = joins + 1 /\ joins' = j
    /\ presses < MaxPresses /\ presses' = presses + 1
    /\ connecting' = TRUE /\ status' = "connecting"
    /\ join' = [join EXCEPT ![j] = "source"]
    /\ DisconnectAll
    /\ UNCHANGED <<job, present, output, wanted, overlaps>>

\* Token and source room; the cameras already there are listed.
JoinSource(j) ==
    /\ join[j] = "source"
    /\ join' = [join EXCEPT ![j] = "bridge"]
    /\ open' = open \cup {<<"source", j>>} /\ pub' = j
    /\ UpdateCameras(present, {})
    /\ UNCHANGED <<status, job, connecting, mon, present, output, link, joins,
                   presses, wanted>>

\* ensureProgramBridge: a bridge that exists keeps its state.
EnsureProgramBridge(j) ==
    /\ join[j] = "bridge"
    /\ join' = [join EXCEPT ![j] = "monitor"]
    /\ UNCHANGED <<status, job, connecting, pub, mon, open, present, picture,
                   output, link, history>>

JoinMonitor(j) ==
    /\ join[j] = "monitor"
    /\ join' = [join EXCEPT ![j] = "none"] /\ connecting' = FALSE
    /\ open' = open \cup {<<"monitor", j>>} /\ mon' = j
    /\ status' = "ready"
    /\ UNCHANGED <<job, pub, present, picture, output, link, history>>

JoinFails(j) ==
    /\ join[j] # "none" /\ Press
    /\ join' = [join EXCEPT ![j] = "none"] /\ connecting' = FALSE
    /\ DisconnectAll
    /\ status' = "error"
    /\ UNCHANGED <<job, present, output, wanted, overlaps>>

LeaveStudio ==
    /\ IsConnected
    /\ connecting' = FALSE /\ UNCHANGED join
    /\ DisconnectAll
    /\ status' = "idle"
    /\ Note(If("leaveInFlight", ~Quiet) \cup If("leftOnAir", status = "live"))
    /\ UNCHANGED <<job, present, output, joins, presses, wanted>>

\* The connection of a room breaks. Its tracks are unsubscribed; nothing else of
\* the page reacts, the references stay.
LoseRoom(r) ==
    /\ r \in open /\ Press
    /\ open' = open \ {r}
    /\ IF r[1] = "source"
       THEN UpdateCameras({}, {"roomLost"}) /\ LoseMessages
       ELSE Note({"roomLost"}) /\ UNCHANGED <<picture, wire>>
    /\ UNCHANGED <<status, job, join, connecting, pub, mon, present, output,
                   bridge, wanted>>

-----------------------------------------------------------------------------
(* The preview: selectCameraSource, addCameraSource and edits of layers.   *)

InFlight == job.kind = "start" \/ switching # <<>> \/ snapping > 0

\* Mutant: an edit that does not mark the scene dirty.
EditUnmarked(camera) ==
    /\ Press
    /\ scene' = [camera |-> camera, rev |-> scene.rev + 1]
    /\ Note(If("editInFlight", InFlight))
    /\ UNCHANGED <<status, job, rooms, present, cams, dirty, active, output,
                   link, wanted>>

Edit(camera) ==
    /\ Press
    /\ scene' = [camera |-> camera, rev |-> scene.rev + 1]
    /\ dirty' = TRUE
    /\ Note(If("editInFlight", InFlight))
    /\ UNCHANGED <<status, job, rooms, present, cams, active, output, link,
                   wanted>>

SelectCameraSource(c) ==
    /\ c \in cams \cup {None}
    /\ Edit(c)
    /\ preview' = c

UpdateSceneLayers == Edit(scene.camera) /\ UNCHANGED preview

-----------------------------------------------------------------------------
(* Cut. The button is not disabled while a broadcast handler is busy.      *)

Send(type, c) == wire' = Append(wire, [type |-> type, camera |-> c])

\* publishProgramSceneSnapshot returns early unless the monitor room is up.
Snapshot(s) == aired' = IF MonitorUp THEN s ELSE aired

CutEnabled == /\ IsConnected /\ preview # None
              /\ preview # active \/ dirty
Previewed  == [scene EXCEPT !.camera = preview]

PressCut ==
    /\ CutEnabled
    /\ Press
    /\ wanted' = Previewed

\* On air, another camera: the bridge is told first.
CutSwitch ==
    /\ PressCut
    /\ status = "live" /\ preview # active /\ preview \in cams /\ SourceUp
    /\ Send("program-switch", preview)
    /\ switching' = Append(switching, Previewed)
    /\ Note(If("cutInStart", job.kind = "start") \cup If("cutInStop", job.kind = "stop")
            \cup If("cutInCut", switching # <<>>))
    /\ UNCHANGED <<status, job, rooms, present, picture, program, aired,
                   snapping, bridge>>

\* Off air, or another scene over the same camera: the page and the viewers.
CutLocal ==
    /\ PressCut
    /\ status # "live" \/ preview = active
    /\ active' = preview
    /\ program' = Previewed /\ Snapshot(Previewed)
    /\ snapping' = snapping + 1
    /\ Note(If("cutInStart", job.kind = "start") \cup If("cutInCut", switching # <<>>))
    /\ UNCHANGED <<status, job, rooms, present, cams, scene, dirty, preview,
                   switching, link>>

\* Mutant: the page keeps the old active camera.
CutSwitchedUnmarked ==
    /\ switching # <<>>
    /\ program' = Head(switching) /\ Snapshot(Head(switching))
    /\ switching' = Tail(switching)
    /\ snapping' = snapping + 1
    /\ UNCHANGED <<status, job, rooms, present, picture, link, history>>

\* Mutant: the scene is read again after the await.
CutSwitchedRereads ==
    /\ switching # <<>>
    /\ LET next == [scene EXCEPT !.camera = Head(switching).camera] IN
       /\ active' = next.camera
       /\ program' = next /\ Snapshot(next)
    /\ switching' = Tail(switching)
    /\ snapping' = snapping + 1
    /\ UNCHANGED <<status, job, rooms, present, cams, scene, dirty, preview,
                   link, history>>

CutSwitched ==
    /\ switching # <<>>
    /\ LET next == Head(switching) IN
       /\ active' = next.camera
       /\ program' = next /\ Snapshot(next)
    /\ switching' = Tail(switching)
    /\ snapping' = snapping + 1
    /\ UNCHANGED <<status, job, rooms, present, cams, scene, dirty, preview,
                   link, history>>

\* publishData rejects once the room is gone: the cut is abandoned.
CutRejected ==
    /\ switching # <<>> /\ ~SourceUp
    /\ switching' = Tail(switching)
    /\ UNCHANGED <<status, job, rooms, present, picture, program, aired,
                   snapping, link, history>>

\* Mutant: a snapshot that was never sent is waited for.
CutDoneUnasked ==
    /\ IsConnected
    /\ snapping' = snapping - 1
    /\ dirty' = FALSE
    /\ UNCHANGED <<status, job, rooms, present, cams, scene, preview, active,
                   program, aired, switching, link, history>>

CutDone ==
    /\ snapping > 0
    /\ snapping' = snapping - 1
    /\ dirty' = FALSE
    /\ UNCHANGED <<status, job, rooms, present, cams, scene, preview, active,
                   program, aired, switching, link, history>>
\* The snapshot cannot be sent, the monitor room being gone: the scene stays marked
\* as changed.
CutUnsent ==
    /\ snapping > 0 /\ ~MonitorUp
    /\ snapping' = snapping - 1
    /\ UNCHANGED <<status, job, rooms, present, picture, program, aired,
                   switching, link, history>>

-----------------------------------------------------------------------------
(* Start. The closure keeps the active camera and the scene of the press.  *)

StartBroadcast ==
    /\ status = "ready" /\ job = NoJob /\ active # None
    /\ pub # 0 /\ mon # 0
    /\ Press
    /\ job' = [kind |-> "start", step |-> "mixing",
               scene |-> [scene EXCEPT !.camera = active]]
    /\ wanted' = job'.scene
    /\ Note(If("cutInStart", switching # <<>>))
    /\ UNCHANGED <<status, rooms, present, picture, output, link>>

\* syncAudioMixer is done.
StartMixed ==
    /\ job.kind = "start" /\ job.step = "mixing" /\ SourceUp
    /\ program' = job.scene /\ dirty' = FALSE
    /\ Send("program-start", job.scene.camera)
    /\ job' = [job EXCEPT !.step = "sending"]
    /\ UNCHANGED <<status, rooms, present, cams, scene, preview, active, aired,
                   switching, snapping, bridge, history>>

StartSent ==
    /\ job.kind = "start" /\ job.step = "sending"
    /\ Snapshot(job.scene)
    /\ job' = [job EXCEPT !.step = "snapshot"]
    /\ UNCHANGED <<status, rooms, present, picture, program, switching,
                   snapping, link, history>>

StartDone ==
    /\ job.kind = "start" /\ job.step = "snapshot"
    /\ status' = "live" /\ job' = NoJob
    /\ UNCHANGED <<rooms, present, picture, output, link, history>>

\* A publication or a message is rejected: nothing is undone.
StartFails ==
    /\ job.kind = "start"
    /\ IF job.step = "mixing" /\ ~SourceUp
       THEN /\ program' = job.scene /\ dirty' = FALSE
            /\ UNCHANGED <<joins, presses>>
       ELSE Press /\ UNCHANGED <<program, dirty>>
    /\ job' = NoJob
    /\ Note({"failed"})
    /\ UNCHANGED <<status, rooms, present, cams, scene, preview, active, aired,
                   switching, snapping, link, wanted>>

-----------------------------------------------------------------------------
(* Stop. The page says "live" until everything is taken down.              *)

\* Mutant: the bridge is not told.
StopBroadcastLocally ==
    /\ status = "live" /\ job = NoJob /\ pub # 0 /\ SourceUp
    /\ job' = [NoJob EXCEPT !.kind = "stop", !.step = "sending"]
    /\ UNCHANGED <<status, rooms, present, picture, output, link, history>>

StopBroadcast ==
    /\ status = "live" /\ job = NoJob /\ pub # 0 /\ SourceUp
    /\ Send("program-stop", None)
    /\ job' = [NoJob EXCEPT !.kind = "stop", !.step = "sending"]
    /\ UNCHANGED <<status, rooms, present, picture, output, bridge, history>>

\* The message is out; unpublishing the mix and closing the mixer are next.
StopSent ==
    /\ job.kind = "stop" /\ job.step = "sending"
    /\ job' = [job EXCEPT !.step = "closing"]
    /\ UNCHANGED <<status, rooms, present, picture, output, link, history>>

StopDone ==
    /\ job.kind = "stop" /\ job.step = "closing"
    /\ status' = "ready" /\ job' = NoJob
    /\ UNCHANGED <<rooms, present, picture, output, link, history>>

StopFails ==
    /\ job.kind = "stop" /\ Press
    /\ job' = NoJob
    /\ Note({"failed"})
    /\ UNCHANGED <<status, rooms, present, picture, output, link, wanted>>

-----------------------------------------------------------------------------
(* The bridge: onDataPacket with setActiveSource and setStarted.           *)

Handle(m) == IF m.type = "program-stop"
             THEN [bridge EXCEPT !.started = FALSE]
             ELSE [source |-> m.camera, started |-> TRUE]

Deliver ==
    /\ wire # <<>>
    /\ bridge' = Handle(Head(wire))
    /\ wire' = Tail(wire)
    /\ UNCHANGED <<status, job, rooms, present, picture, output, history>>

-----------------------------------------------------------------------------
Next ==
    \/ \E c \in Camera : CameraMoves(c) \/ DisconnectSource(c)
    \/ \E j \in 1..MaxJoins : \/ ConnectStudio(j) \/ JoinSource(j)
                              \/ EnsureProgramBridge(j) \/ JoinMonitor(j)
                              \/ JoinFails(j)
    \/ LeaveStudio \/ \E r \in Room : LoseRoom(r)
    \/ \E c \in Source : SelectCameraSource(c)
    \/ UpdateSceneLayers
    \/ CutSwitch \/ CutLocal \/ CutSwitched \/ CutRejected \/ CutDone \/ CutUnsent
    \/ StartBroadcast \/ StartMixed \/ StartSent \/ StartDone \/ StartFails
    \/ StopBroadcast \/ StopSent \/ StopDone \/ StopFails
    \/ Deliver

Spec == Init /\ [][Next]_vars

-----------------------------------------------------------------------------
TypeOK ==
    /\ status \in Status
    /\ job \in [kind: {"none", "start", "stop"},
                step: {"none", "mixing", "sending", "snapshot", "closing"},
                scene: Scene]
    /\ join \in [1..MaxJoins -> {"none", "source", "bridge", "monitor"}]
    /\ connecting \in BOOLEAN
    /\ pub \in 0..MaxJoins /\ mon \in 0..MaxJoins
    /\ open \subseteq Room
    /\ present \subseteq Camera /\ cams \subseteq Camera
    /\ scene \in Scene /\ dirty \in BOOLEAN
    /\ preview \in Source /\ active \in Source
    /\ program \in Scene /\ aired \in Scene
    /\ switching \in Seq(Scene) /\ snapping \in 0..MaxPresses
    /\ wire \in Seq(Message)
    /\ bridge \in [source: Source, started: BOOLEAN]
    /\ joins \in 0..MaxJoins /\ presses \in 0..MaxPresses
    /\ wanted \in Scene /\ overlaps \subseteq Overlap

Unless(names) == overlaps \cap names = {}

\* On air and at rest, what the page shows as the program is what the bridge
\* forwards and what the viewers overlay, unless the operator cut during Start
\* or left during a handler, the active camera was lost, or something failed.
StudioShowsProgram ==
    Quiet /\ status = "live"
    /\ Unless({"cutInStart", "leaveInFlight", "sourceLost", "roomLost", "failed"})
    => /\ bridge = [source |-> active, started |-> TRUE]
       /\ aired = program /\ program.camera = active

\* The last Cut or Start wins, unless moreover it was pressed while an earlier
\* cut still waited for its program-switch: that cut then overwrites it. A
\* failed Start or Stop does not change which one wins.
LastCutWins ==
    Quiet /\ status = "live"
    /\ Unless({"cutInStart", "cutInCut", "leaveInFlight", "sourceLost",
               "roomLost"})
    => bridge.source = wanted.camera /\ aired = wanted

\* A Studio at rest that does not say "live" has its bridge off air, unless a
\* cut slipped between program-stop and the end of Stop, the Studio was left
\* on air or during a handler, or something failed.
OffAirUnlessLive ==
    Quiet /\ status # "live"
    /\ Unless({"cutInStop", "leaveInFlight", "leftOnAir", "roomLost", "failed"})
    => ~bridge.started

\* When the page offers no Cut for the camera on air, its scene is the program,
\* unless the scene was edited while a cut or a start was in flight: the end of
\* that handler then clears the dirty mark of the newer edit.
NoCutOfferedWhenShown ==
    Quiet /\ preview # None /\ ~CutEnabled /\ IsConnected
    /\ Unless({"editInFlight"})
    => program.rev = scene.rev

\* Leaving or failing to join closes both rooms: no connection is up that the
\* page has lost hold of. (A third join may run beside a second one that was left
\* during a handler, and replace its rooms.)
NoRoomLeftOpen ==
    Unless({"leaveInFlight"})
    => open \subseteq {<<"source", pub>>, <<"monitor", mon>>}

\* flow.md:208-209, Stop sends program-stop and the bridge mutes its outputs:
\* a Stop that ran to its end, with nothing lost or failed, leaves it off air.
StopTakesOffAir ==
    Quiet /\ status = "ready" /\ overlaps \subseteq {"cutInStop"}
    => ~bridge.started
=============================================================================
