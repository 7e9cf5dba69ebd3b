----------------------------- MODULE SourcePage -----------------------------
(***************************************************************************)
(* The two pages that feed the source room: the camera (app/camera/page)   *)
(* and the microphone (app/microphone/page). Both open a device, join the  *)
(* room and publish; both can be stopped at any time, by their button, by  *)
(* the Studio's disconnect-source message or by closing the page.          *)
(*                                                                         *)
(* Nothing stops a start that is under way: it goes on after each of its   *)
(* awaits, on the references it then finds. One action per stretch between *)
(* two awaits; an await that changes nothing is part of the one before it. *)
(* A room admits one connection per identity, and a page has one identity; *)
(* each start joins the room whose code the operator typed. Ending a room  *)
(* stops the tracks published in it.                                       *)
(***************************************************************************)
EXTENDS Naturals, Sequences, FiniteSets

CONSTANTS
    Code,       \* room codes the operator types
    MaxStarts,  \* bound: times the operator presses Start
    MaxPresses  \* bound: stops, switches, mutes and faults together

ASSUME SourceAssumption == MaxStarts \in Nat /\ MaxPresses \in Nat

VARIABLES
    kind,      \* which page it is
    mounted,   \* the page is mounted
    status,    \* the page's status
    step,      \* per start, what it awaits
    stream,    \* localStream: the start that opened it, 0 for null
    video,     \* the video track in it: id, 0 for none
    roomRef,   \* roomRef: the start that joined it, 0 for null
    streams,   \* starts whose stream has an audio track that is not stopped
    clones,    \* clones of audio tracks that are not stopped
    cameras,   \* video tracks that are not stopped
    made,      \* video tracks opened so far
    code,      \* per start, the room code it was given
    rooms,     \* rooms whose connection is up
    published, \* per start, the track of its LocalVideoTrack: id, 0 for none
    asked,     \* per start, the camera it asks for
    facing,    \* cameraFacingMode
    switching, \* the switchMobileCamera under way, or NoSwitch
    muted,     \* the microphone page's muted
    silent,    \* starts whose publication is muted
    toggles,   \* toggleMute calls under way
    wanted,    \* history: the last word was a Start, not a stop
    presses,   \* how many of what MaxPresses bounds there have been
    overlaps   \* history: which events overlapped a handler in flight

page    == <<kind, mounted, status>>
refs    == <<stream, video, roomRef>>
devices == <<streams, clones, cameras>>
network == <<code, rooms>>
camera  == <<made, published, asked, facing, switching>>
mute    == <<muted, silent, toggles>>
vars    == <<page, step, refs, devices, network, camera, mute, wanted, presses,
             overlaps>>

-----------------------------------------------------------------------------
Start  == 1..MaxStarts
Ref    == 0..MaxStarts
Lens   == {"user", "environment"}
Step   == {"none", "finding", "opening", "connecting", "publishing", "sounding",
           "done"}
Id     == Nat \ {0}
Track  == [id: Id, side: Lens]
Switch == [id: Ref, to: Lens, step: {"none", "restart", "restore"}, halted: BOOLEAN]
Overlap == {"stopBeforeStream", "stopInConnect", "stopInSwitch",
            "stopInToggle", "switchInStart", "restoreFailed", "roomLost",
            "cloneUnpublished", "startInStart", "otherRoom",
            "staleSwitch"}
NoSwitch == [id |-> 0, to |-> "user", step |-> "none", halted |-> FALSE]

Other(side) == IF side = "user" THEN "environment" ELSE "user"
InFlight == {i \in Start : step[i] \notin {"none", "done"}}
Quiet    == InFlight = {} /\ switching = NoSwitch /\ toggles = <<>>

If(name, condition) == IF condition THEN {name} ELSE {}
Note(names) == overlaps' = overlaps \cup names
Press == presses < MaxPresses /\ presses' = presses + 1

Init ==
    /\ kind \in {"camera", "microphone"}
    /\ mounted = TRUE /\ status = "idle" /\ step = [i \in Start |-> "none"]
    /\ stream = 0 /\ video = 0 /\ roomRef = 0
    /\ streams = {} /\ clones = {} /\ cameras = {} /\ made = 0
    /\ code \in [Start -> Code] /\ rooms = {}
    /\ published = [i \in Start |-> 0]
    /\ asked = [i \in Start |-> "environment"]
    /\ facing = "environment" /\ switching = NoSwitch
    /\ muted = FALSE /\ silent = {} /\ toggles = <<>>
    /\ wanted = FALSE /\ presses = 0 /\ overlaps = {}

-----------------------------------------------------------------------------
(* Stopping.                                                               *)

\* What a stop finds under way, the start that called it apart.
Interrupts(others) ==
    If("stopBeforeStream", \E i \in others : step[i] \in {"finding", "opening"})
    \cup If("stopInConnect", \E i \in others : step[i] = "connecting")
    \cup If("stopInSwitch", switching # NoSwitch)
    \cup If("stopInToggle", toggles # <<>>)

\* Video tracks published in these rooms, and audio clones: what is still being
\* published is not one of the room's yet, and is not stopped with it.
VideosIn(ended) == {published[i] : i \in {j \in ended : step[j] \in {"sounding", "done"}}}
ClonesIn(ended) == {i \in ended : step[i] # "sounding"}

\* The rooms end, and with them the tracks published there. A restart under way
\* learns that its track was stopped.
EndRooms(ended, stopped) ==
    /\ rooms' = rooms \ ended
    /\ clones' = clones \ ClonesIn(ended)
    /\ cameras' = {c \in cameras : c.id \notin VideosIn(ended) \cup stopped}
    /\ switching' = [switching EXCEPT !.halted = @ \/ switching.id \in ended]

\* Mutant of StopSource: the room is left and the device stays on.
StopSourceRoom(next, caller) ==
    /\ EndRooms(rooms \cap {roomRef}, {})
    /\ roomRef' = 0 /\ stream' = 0 /\ video' = 0
    /\ status' = next
    /\ muted' = FALSE
    /\ Note(Interrupts(InFlight \ {caller})
            \cup If("cloneUnpublished", caller # 0 /\ step[caller] = "sounding"))
    /\ UNCHANGED <<kind, streams, code, made, published, asked, facing, silent, toggles>>

\* stopCamera and stopMicrophone, called by a start that failed or by no start
\* (caller 0).
StopSource(next, caller) ==
    /\ EndRooms(rooms \cap {roomRef}, {video})
    /\ roomRef' = 0
    /\ streams' = streams \ {stream} /\ stream' = 0 /\ video' = 0
    /\ status' = next
    /\ muted' = FALSE
    /\ Note(Interrupts(InFlight \ {caller})
            \cup If("cloneUnpublished", caller # 0 /\ step[caller] = "sounding"))
    /\ UNCHANGED <<kind, code, made, published, asked, facing, silent, toggles>>

Stop ==
    /\ mounted /\ status \in {"connecting", "connected"} /\ Press
    /\ StopSource("idle", 0) /\ wanted' = FALSE
    /\ UNCHANGED <<mounted, step>>

\* The message reaches the page through whichever of its rooms is up.
DisconnectSource ==
    /\ rooms # {} /\ Press
    /\ StopSource("idle", 0) /\ wanted' = FALSE
    /\ UNCHANGED <<mounted, step>>

Unmount ==
    /\ mounted /\ mounted' = FALSE
    /\ StopSource("idle", 0) /\ wanted' = FALSE
    /\ UNCHANGED <<step, presses>>

\* The server ends the room: neither page takes it for a stop.
RoomLost(i) ==
    /\ i \in rooms /\ Press
    /\ EndRooms({i}, {})
    /\ Note({"roomLost"})
    /\ UNCHANGED <<page, step, refs, streams, code, made, published, asked, facing,
                   mute, wanted>>

-----------------------------------------------------------------------------
(* Starting.                                                               *)

StartSource(i) ==
    /\ mounted /\ status \notin {"connecting", "connected"}
    /\ step[i] = "none" /\ \A j \in 1..(i - 1) : step[j] # "none"
    /\ step' = [step EXCEPT ![i] = "finding"]
    /\ status' = "connecting"
    /\ asked' = [asked EXCEPT ![i] = facing]
    /\ wanted' = TRUE
    /\ Note(If("startInStart", InFlight # {}))
    /\ UNCHANGED <<kind, mounted, refs, devices, network, made, published, facing,
                   switching, mute, presses>>

RoomFound(i) ==
    /\ step[i] = "finding"
    /\ step' = [step EXCEPT ![i] = "opening"]
    /\ UNCHANGED <<page, refs, devices, network, camera, mute, presses, overlaps, wanted>>

\* The camera's stream has a video track, the microphone's has none.
OpenVideo(side) ==
    IF kind = "camera"
    THEN /\ made' = made + 1
         /\ cameras' = cameras \cup {[id |-> made + 1, side |-> side]}
    ELSE UNCHANGED <<made, cameras>>

\* Mutant of StreamOpened: the stream is handed on and not held.
StreamOpenedUnheld(i) ==
    /\ step[i] = "opening"
    /\ step' = [step EXCEPT ![i] = "connecting"]
    /\ streams' = streams \cup {i} /\ OpenVideo(asked[i])
    /\ UNCHANGED <<page, refs, clones, network, published, asked, facing, switching,
                   mute, presses, overlaps, wanted>>

\* getUserMedia resolves; the token is asked for and the room is joined.
StreamOpened(i) ==
    /\ step[i] = "opening"
    /\ step' = [step EXCEPT ![i] = "connecting"]
    /\ streams' = streams \cup {i} /\ stream' = i
    /\ OpenVideo(asked[i]) /\ video' = IF kind = "camera" THEN made' ELSE 0
    /\ UNCHANGED <<page, roomRef, clones, network, published, asked, facing, switching,
                   mute, presses, overlaps, wanted>>

\* Rooms that end because the page joins one under the same code.
Replaced(i) == {j \in rooms : code[j] = code[i]}

\* Mutant of RoomConnected: every start has an identity of its own.
RoomConnectedAnew(i) ==
    /\ step[i] = "connecting"
    /\ kind = "microphone" \/ stream # 0
    /\ rooms' = rooms \cup {i} /\ roomRef' = i
    /\ published' = [published EXCEPT ![i] = video]
    /\ step' = [step EXCEPT ![i] = IF kind = "camera" THEN "publishing" ELSE "sounding"]
    /\ clones' = clones \cup If(i, kind = "microphone")
    /\ Note(If("otherRoom", rooms # {}))
    /\ UNCHANGED <<page, stream, video, streams, cameras, code, made, asked, facing,
                   switching, mute, presses, wanted>>

\* The room is up, and ends an earlier one of the page under the same code. The
\* camera publishes the video track of the stream it finds; the microphone's start
\* still holds the stream it opened.
RoomConnected(i) ==
    /\ step[i] = "connecting"
    /\ kind = "microphone" \/ stream # 0
    /\ rooms' = (rooms \ Replaced(i)) \cup {i} /\ roomRef' = i
    /\ clones' = (clones \ ClonesIn(Replaced(i))) \cup If(i, kind = "microphone")
    /\ cameras' = {c \in cameras : c.id \notin VideosIn(Replaced(i))}
    /\ switching' = [switching EXCEPT !.halted = @ \/ switching.id \in Replaced(i)]
    /\ published' = [published EXCEPT ![i] = video]
    /\ step' = [step EXCEPT ![i] = IF kind = "camera" THEN "publishing" ELSE "sounding"]
    /\ Note(If("otherRoom", rooms # Replaced(i)))
    /\ UNCHANGED <<page, stream, video, streams, code, made, asked, facing, mute,
                   presses, wanted>>

\* "No video track": the camera was stopped while it was connecting.
RoomConnectedInVain(i) ==
    /\ step[i] = "connecting" /\ kind = "camera" /\ stream = 0
    /\ EndRooms(Replaced(i), {}) /\ roomRef' = 0
    /\ status' = "error" /\ muted' = FALSE
    /\ step' = [step EXCEPT ![i] = "done"]
    /\ Note(Interrupts(InFlight \ {i}) \cup If("otherRoom", rooms # Replaced(i)))
    /\ UNCHANGED <<kind, mounted, stream, video, streams, code, made, published, asked,
                   facing, silent, toggles, presses, wanted>>

\* The camera's video is out, and a clone of its audio track follows.
VideoPublished(i) ==
    /\ step[i] = "publishing" /\ i \in rooms
    /\ step' = [step EXCEPT ![i] = "sounding"]
    /\ clones' = clones \cup {i}
    /\ UNCHANGED <<page, refs, streams, cameras, network, camera, mute, presses, overlaps,
                   wanted>>

AudioPublished(i) ==
    /\ step[i] = "sounding" /\ i \in rooms
    /\ step' = [step EXCEPT ![i] = "done"]
    /\ status' = "connected"
    /\ muted' = FALSE
    /\ UNCHANGED <<kind, mounted, refs, devices, network, camera, silent, toggles,
                   presses, overlaps, wanted>>

\* An await is rejected, as publishing is once the room is down.
StartFails(i) ==
    /\ i \in InFlight
    /\ IF step[i] \in {"publishing", "sounding"} /\ i \notin rooms
       THEN UNCHANGED presses ELSE Press
    /\ step' = [step EXCEPT ![i] = "done"]
    /\ StopSource("error", i)
    /\ UNCHANGED <<mounted, wanted>>

-----------------------------------------------------------------------------
(* The camera's switch.                                                    *)

\* switchMobileCamera before the page is connected, and after.
FlipFacing ==
    /\ kind = "camera" /\ mounted /\ status = "connecting" /\ switching = NoSwitch
    /\ Press
    /\ facing' = Other(facing)
    /\ Note({"switchInStart"})
    /\ UNCHANGED <<page, step, refs, devices, network, made, published, asked, switching,
                   mute, wanted>>

\* restartTrack stops the published track before it asks for the other camera.
SwitchCamera ==
    /\ kind = "camera" /\ mounted /\ status = "connected" /\ switching = NoSwitch
    /\ roomRef \in rooms /\ step[roomRef] \in {"sounding", "done"} /\ Press
    /\ switching' = [id |-> roomRef, to |-> Other(facing), step |-> "restart",
                     halted |-> FALSE]
    /\ cameras' = {c \in cameras : c.id # published[roomRef]}
    /\ UNCHANGED <<page, step, refs, streams, clones, network, made, published, asked,
                   facing, mute, overlaps, wanted>>

\* The page has left the room of the switch, and there is a stream to put the track
\* into or nothing to stop it.
Stale == switching.id # roomRef /\ (stream # 0 \/ ~switching.halted)

Side == IF switching.step = "restart" THEN switching.to ELSE Other(switching.to)

\* Mutant of Restarted: a switch that was undone is shown as made.
RestartedAlways ==
    /\ switching # NoSwitch
    /\ made' = made + 1
    /\ cameras' = cameras \cup
         If([id |-> made + 1, side |-> Side], ~switching.halted)
    /\ published' = [published EXCEPT ![switching.id] = made + 1]
    /\ video' = IF stream = 0 THEN 0 ELSE made + 1
    /\ facing' = switching.to
    /\ switching' = NoSwitch
    /\ Note(If("staleSwitch", Stale))
    /\ UNCHANGED <<page, step, stream, roomRef, streams, clones, network, asked, mute,
                   presses, wanted>>

\* restartTrack resolves with a new track, stopped at once if the published one was
\* stopped meanwhile. syncPreviewTrack puts it into the stream the page has by then,
\* in the place of the video track there, which it does not stop.
Restarted ==
    /\ switching # NoSwitch
    /\ made' = made + 1
    /\ cameras' = cameras \cup
         If([id |-> made + 1, side |-> Side], ~switching.halted)
    /\ published' = [published EXCEPT ![switching.id] = made + 1]
    /\ video' = IF stream = 0 THEN 0 ELSE made + 1
    /\ facing' = IF switching.step = "restart" THEN Side ELSE facing
    /\ switching' = NoSwitch
    /\ Note(If("staleSwitch", Stale))
    /\ UNCHANGED <<page, step, stream, roomRef, streams, clones, network, asked, mute,
                   presses, wanted>>

\* It is rejected: one attempt is made at the camera that was on before, and it does
\* not know of a stop that came before it.
RestartFails ==
    /\ switching # NoSwitch /\ Press
    /\ IF switching.step = "restart"
       THEN /\ switching' = [switching EXCEPT !.step = "restore", !.halted = FALSE]
            /\ UNCHANGED overlaps
       ELSE switching' = NoSwitch /\ Note({"restoreFailed"})
    /\ UNCHANGED <<page, step, refs, devices, network, made, published, asked, facing,
                   mute, wanted>>

-----------------------------------------------------------------------------
(* The microphone's mute.                                                  *)

\* toggleMute: what it asks for is the muted of the render it was made in.
ToggleMute ==
    /\ kind = "microphone" /\ mounted /\ status = "connected" /\ roomRef \in rooms
    /\ Press
    /\ toggles' = Append(toggles, [id |-> roomRef, to |-> ~muted])
    /\ UNCHANGED <<page, step, refs, devices, network, camera, muted, silent, overlaps,
                   wanted>>

Toggled ==
    /\ toggles # <<>> /\ toggles' = Tail(toggles)
    /\ LET toggle == Head(toggles) IN
       /\ silent' = IF toggle.to THEN silent \cup {toggle.id} ELSE silent \ {toggle.id}
       /\ muted' = toggle.to
    /\ UNCHANGED <<page, step, refs, devices, network, camera, presses, overlaps, wanted>>

-----------------------------------------------------------------------------
Next ==
    \/ Stop \/ DisconnectSource \/ Unmount
    \/ \E i \in Start :
        \/ RoomLost(i) \/ StartSource(i) \/ RoomFound(i) \/ StreamOpened(i)
        \/ RoomConnected(i) \/ RoomConnectedInVain(i)
        \/ VideoPublished(i) \/ AudioPublished(i) \/ StartFails(i)
    \/ FlipFacing \/ SwitchCamera \/ Restarted \/ RestartFails
    \/ ToggleMute \/ Toggled

Spec == Init /\ [][Next]_vars

-----------------------------------------------------------------------------
TypeOK ==
    /\ kind \in {"camera", "microphone"} /\ mounted \in BOOLEAN
    /\ status \in {"idle", "connecting", "connected", "error"}
    /\ step \in [Start -> Step]
    /\ stream \in Ref /\ roomRef \in Ref /\ video \in Nat
    /\ streams \subseteq Start /\ clones \subseteq Start
    /\ cameras \subseteq Track /\ made \in Nat
    /\ code \in [Start -> Code] /\ rooms \subseteq Start
    /\ \A i, j \in rooms : code[i] = code[j] => i = j
    /\ published \in [Start -> Nat] /\ asked \in [Start -> Lens]
    /\ facing \in Lens /\ switching \in Switch
    /\ muted \in BOOLEAN /\ silent \subseteq Start /\ wanted \in BOOLEAN
    /\ toggles \in Seq([id: Start, to: BOOLEAN])
    /\ presses \in 0..MaxPresses /\ overlaps \subseteq Overlap

Unless(names) == overlaps \cap names = {}

\* A page that was told to stop is not connected, and a page that is not connected
\* has let go of its devices and its room, unless it was stopped during a start, the
\* clone of its sound could not be published, a start joined another room while one
\* was up, or a switch of a room the page had left brought up a camera. A camera
\* that is stopped while it connects does let go.
SourceReleased ==
    Quiet /\ (status # "connected" \/ ~wanted)
    /\ Unless({"stopBeforeStream", "cloneUnpublished", "otherRoom", "staleSwitch"}
              \cup If("stopInConnect", kind = "microphone"))
    => /\ status # "connected" /\ rooms = {}
       /\ streams = {} /\ clones = {} /\ cameras = {}

\* A page that says connected is in one room with its stream on, of the same start;
\* one camera is on, in the stream and in the room. Unless the room was lost, the
\* page was started again during a start, the microphone was stopped while it
\* connected, a failed switch was not undone, or a switch of a room the page had
\* left put its track into the stream.
ConnectedIsOn ==
    Quiet /\ status = "connected"
    /\ Unless({"roomLost", "startInStart", "staleSwitch", "restoreFailed"}
              \cup If("stopInConnect", kind = "microphone"))
    => /\ roomRef # 0 /\ stream = roomRef /\ rooms = {roomRef} /\ streams = {stream}
       /\ kind = "camera" => {c.id : c \in cameras} = {video} /\ published[roomRef] = video

\* The camera the page names is the one it publishes, unless the operator flipped
\* it during a start, stopped during a switch, started again during a start, or a
\* failed switch was not undone.
FacingIsShown ==
    kind = "camera" /\ Quiet /\ status = "connected" /\ roomRef \in rooms
    /\ Unless({"switchInStart", "stopInSwitch", "restoreFailed", "startInStart"})
    => [id |-> published[roomRef], side |-> facing] \in cameras

\* The microphone the page shows as muted is muted, and only then, unless it was
\* stopped and started again during a press, or started again during a start.
MuteIsShown ==
    kind = "microphone" /\ Quiet /\ status = "connected" /\ roomRef \in rooms
    /\ Unless({"stopInToggle", "startInStart"})
    => muted = (roomRef \in silent)

\* What either page shows of its publication is so, with the exceptions the two
\* parts name.
ShownIsPublished == FacingIsShown /\ MuteIsShown
=============================================================================
