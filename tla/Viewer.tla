------------------------------- MODULE Viewer -------------------------------
(***************************************************************************)
(* The viewer page (app/watch/page.tsx) in the program room: joining it,   *)
(* the track it plays, its sound, and the scene it draws over the picture. *)
(*                                                                         *)
(* The scene reaches the page on two ways, the REST answer and the         *)
(* program-scene messages of the Studio, which greets every new viewer     *)
(* (app/studio/page.tsx). The room and the publishers in it are external:  *)
(* each of the three program tracks has at most one publication at a time, *)
(* and reliable messages of one sender arrive in order.                    *)
(***************************************************************************)
EXTENDS Naturals, Sequences, FiniteSets

CONSTANT
    MaxPresses  \* bound: publications, mutes, cuts, audio presses and faults

ASSUME ViewerAssumption == MaxPresses \in Nat

VARIABLES
    mounted,    \* the page is mounted
    status,     \* the page's status
    step,       \* what watch() awaits: "token", "connect" or "none"
    admitted,   \* the room has the viewer as a participant
    roomRef,    \* roomRef.current is that room
    published,  \* publications of the program tracks
    subscribed, \* those whose track the page has
    direct,     \* directVideoTrack: a publication's id, or 0
    composed,   \* composedVideoTrack and composedVideoPublication, likewise
    shown,      \* selectedVideoTrack, likewise
    element,    \* the program-audio element: its publication and its mute
    audioOn,    \* audioEnabledRef and the button
    toggles,    \* toggleAudio calls that await startAudio, and play
    scene,      \* the page's programScene: whose it is, and its version
    rest,       \* getProgramScene answers still to come
    studio,     \* the Studio is in the program room
    program,    \* the Studio's programScene, counted by the cuts
    rendered,   \* programSceneRef: program as of the last effect
    greeting,   \* the Studio has the viewer's arrival still to handle
    wire,       \* program-scene messages on their way to the page
    made,       \* publications so far
    presses,    \* how many of what MaxPresses bounds there have been
    overlaps    \* history: which events overlapped another in flight

page    == <<mounted, status, step>>
room    == <<admitted, roomRef>>
video   == <<direct, composed, shown>>
sound   == <<element, audioOn, toggles>>
tracks  == <<published, subscribed, made>>
sender  == <<studio, program, rendered, greeting, wire>>
vars    == <<page, room, tracks, video, sound, scene, rest, sender, presses,
             overlaps>>

-----------------------------------------------------------------------------
Id      == 0..MaxPresses
Name    == {"program-video", "compositor-preview-video", "program-audio"}
Publication == [id: Id, name: Name, muted: BOOLEAN]
Scene   == [from: {"page", "default", "server", "studio"}, version: Id]
Overlap == {"unmountInConnect", "attachInToggle", "toggleInToggle", "playFailed",
            "restAfterMessage", "restReordered", "restFailed",
            "cutInGreeting", "studioAway"}
NoElement == [id |-> 0, muted |-> TRUE]
NoToggle  == [starting |-> 0, playing |-> 0]

If(name, condition) == IF condition THEN {name} ELSE {}
Note(names) == overlaps' = overlaps \cup names
Press == presses < MaxPresses /\ presses' = presses + 1
Connected == admitted /\ step = "none"

\* The page's channel is the default one, or it asks for two scenes in turn.
Init ==
    /\ mounted = TRUE /\ status = "connecting" /\ step = "token"
    /\ admitted = FALSE /\ roomRef = FALSE
    /\ published = {} /\ subscribed = {} /\ made = 0
    /\ direct = 0 /\ composed = 0 /\ shown = 0
    /\ element = NoElement /\ audioOn = FALSE /\ toggles = NoToggle
    /\ scene = [from |-> "page", version |-> 0]
    /\ rest \in {{"server"}, {"default", "server"}}
    /\ studio = TRUE /\ program = 0 /\ rendered = 0
    /\ greeting = FALSE /\ wire = <<>>
    /\ presses = 0 /\ overlaps = {}

-----------------------------------------------------------------------------
(* Joining and leaving.                                                    *)

\* The part that disconnect() and the Disconnected handler have in common.
Clear ==
    /\ roomRef' = FALSE
    /\ direct' = 0 /\ composed' = 0 /\ shown' = 0
    /\ element' = NoElement /\ audioOn' = FALSE
    /\ UNCHANGED toggles

GotToken ==
    /\ step = "token" /\ step' = "connect"
    /\ UNCHANGED <<mounted, status, room, tracks, video, sound, scene, rest, sender,
                   presses, overlaps>>

\* The room admits the viewer, and tells the Studio.
Admit ==
    /\ step = "connect" /\ ~admitted
    /\ admitted' = TRUE /\ greeting' = studio
    /\ Note(If("studioAway", ~studio))
    /\ UNCHANGED <<page, roomRef, tracks, video, sound, scene, rest, studio, program,
                   rendered, wire, presses>>

\* room.connect resolves, whatever has become of the page.
Watching ==
    /\ step = "connect" /\ admitted
    /\ step' = "none" /\ roomRef' = TRUE /\ status' = "watching"
    /\ UNCHANGED <<mounted, admitted, tracks, video, sound, scene, rest, sender,
                   presses, overlaps>>

WatchFails ==
    /\ step # "none" /\ Press
    /\ step' = "none" /\ status' = "error"
    /\ admitted' = FALSE /\ greeting' = FALSE /\ wire' = <<>>
    /\ Clear
    /\ UNCHANGED <<mounted, tracks, scene, rest, studio, program, rendered, overlaps>>

\* The room's connection ends: the Disconnected handler.
Disconnected ==
    /\ Connected /\ Press
    /\ admitted' = FALSE /\ subscribed' = {} /\ greeting' = FALSE /\ wire' = <<>>
    /\ Clear
    /\ status' = "idle"
    /\ UNCHANGED <<mounted, step, published, made, scene, rest, studio, program,
                   rendered, overlaps>>

\* Mutant of Unmount: the page is cleared and the room is not disconnected.
UnmountClears ==
    /\ mounted /\ mounted' = FALSE
    /\ Clear
    /\ Note(If("unmountInConnect", step # "none"))
    /\ UNCHANGED <<status, step, admitted, tracks, scene, rest, sender, presses>>

\* The page is closed: disconnect(), which reaches the room by its reference.
Unmount ==
    /\ mounted /\ mounted' = FALSE
    /\ IF roomRef THEN /\ admitted' = FALSE /\ subscribed' = {}
                       /\ greeting' = FALSE /\ wire' = <<>>
       ELSE UNCHANGED <<admitted, subscribed, greeting, wire>>
    /\ Clear
    /\ Note(If("unmountInConnect", step # "none"))
    /\ UNCHANGED <<status, step, published, made, scene, rest, studio, program,
                   rendered, presses>>

-----------------------------------------------------------------------------
(* The tracks of the program.                                              *)

Muted(id) == \E p \in published' : p.id = id /\ p.muted

\* Mutant of SelectViewerVideo: the compositor's track comes first.
SelectComposedFirst ==
    shown' = IF composed' # 0 /\ ~Muted(composed') THEN composed' ELSE direct'

\* selectViewerVideo, on the tracks the page has after the event.
SelectViewerVideo ==
    shown' = IF direct' # 0 THEN direct'
             ELSE IF composed' # 0 /\ ~Muted(composed') THEN composed'
             ELSE 0

Publish(name) ==
    /\ \A p \in published : p.name # name
    /\ Press
    /\ made' = made + 1
    /\ published' = published \cup
         {[id |-> made + 1, name |-> name, muted |-> name # "program-audio"]}
    /\ UNCHANGED <<page, room, subscribed, video, sound, scene, rest, sender, overlaps>>

\* attachProgramTrack.
Subscribed(p) ==
    /\ Connected /\ p \in published /\ p.id \notin subscribed
    /\ subscribed' = subscribed \cup {p.id}
    /\ UNCHANGED published
    /\ direct' = IF p.name = "program-video" THEN p.id ELSE direct
    /\ composed' = IF p.name = "compositor-preview-video" THEN p.id ELSE composed
    /\ IF p.name = "program-audio"
       THEN /\ element' = [id |-> p.id, muted |-> ~audioOn]
            /\ Note(If("attachInToggle", toggles.playing > 0))
            /\ UNCHANGED shown
       ELSE SelectViewerVideo /\ UNCHANGED <<element, overlaps>>
    /\ UNCHANGED <<page, room, made, audioOn, toggles, scene, rest, sender, presses>>

\* Mutant of Unpublish: the page keeps the compositor's track.
UnpublishKept(p) ==
    /\ p \in published /\ Press
    /\ published' = published \ {p}
    /\ subscribed' = subscribed \ {p.id}
    /\ direct' = IF direct = p.id THEN 0 ELSE direct
    /\ UNCHANGED composed
    /\ IF p.id \in subscribed /\ p.name # "program-audio"
       THEN SelectViewerVideo ELSE UNCHANGED shown
    /\ UNCHANGED <<page, room, made, sound, scene, rest, sender, overlaps>>

\* The publication goes, and with it the page's track.
Unpublish(p) ==
    /\ p \in published /\ Press
    /\ published' = published \ {p}
    /\ subscribed' = subscribed \ {p.id}
    /\ direct' = IF direct = p.id THEN 0 ELSE direct
    /\ composed' = IF composed = p.id THEN 0 ELSE composed
    /\ IF p.id \in subscribed /\ p.name # "program-audio"
       THEN SelectViewerVideo ELSE UNCHANGED shown
    /\ UNCHANGED <<page, room, made, sound, scene, rest, sender, overlaps>>

\* TrackMuted and TrackUnmuted, of which the page heeds the compositor's.
Mute(p, flag) ==
    /\ p \in published /\ p.muted # flag /\ Press
    /\ published' = (published \ {p}) \cup {[p EXCEPT !.muted = flag]}
    /\ UNCHANGED <<direct, composed>>
    /\ IF Connected /\ p.name = "compositor-preview-video"
       THEN SelectViewerVideo ELSE UNCHANGED shown
    /\ UNCHANGED <<page, room, subscribed, made, sound, scene, rest, sender, overlaps>>

-----------------------------------------------------------------------------
(* The sound button.                                                       *)

ToggleAudioOff ==
    /\ mounted /\ audioOn /\ Press
    /\ element' = [element EXCEPT !.muted = TRUE] /\ audioOn' = FALSE
    /\ Note(If("toggleInToggle", toggles # NoToggle))
    /\ UNCHANGED <<page, room, tracks, video, toggles, scene, rest, sender>>

ToggleAudioOn ==
    /\ mounted /\ ~audioOn /\ Press
    /\ toggles' = [toggles EXCEPT !.starting = @ + 1]
    /\ Note(If("toggleInToggle", toggles # NoToggle))
    /\ UNCHANGED <<page, room, tracks, video, element, audioOn, scene, rest, sender>>

\* Mutant of AudioStarted: the elements that are there stay muted.
AudioStartedOnly ==
    /\ toggles.starting > 0
    /\ toggles' = [starting |-> toggles.starting - 1, playing |-> toggles.playing + 1]
    /\ UNCHANGED <<page, room, tracks, video, element, audioOn, scene, rest, sender,
                   presses, overlaps>>

AudioStarted ==
    /\ toggles.starting > 0
    /\ toggles' = [starting |-> toggles.starting - 1, playing |-> toggles.playing + 1]
    /\ element' = IF element.id = 0 THEN element ELSE [element EXCEPT !.muted = FALSE]
    /\ UNCHANGED <<page, room, tracks, video, audioOn, scene, rest, sender, presses,
                   overlaps>>

AudioPlays ==
    /\ toggles.playing > 0
    /\ toggles' = [toggles EXCEPT !.playing = @ - 1]
    /\ audioOn' = TRUE
    /\ UNCHANGED <<page, room, tracks, video, element, scene, rest, sender, presses,
                   overlaps>>

\* startAudio or play is rejected: the elements stay as they are.
AudioFails ==
    /\ Press
    /\ \/ /\ toggles.starting > 0
          /\ toggles' = [toggles EXCEPT !.starting = @ - 1]
          /\ UNCHANGED overlaps
       \/ /\ toggles.playing > 0
          /\ toggles' = [toggles EXCEPT !.playing = @ - 1]
          /\ Note({"playFailed"})
    /\ UNCHANGED <<page, room, tracks, video, element, audioOn, scene, rest, sender>>

-----------------------------------------------------------------------------
(* The scene over the picture.                                             *)

\* Mutant of RestArrives: the first answer is the one that stays.
RestArrivesFirst(answer) ==
    /\ answer \in rest /\ rest' = rest \ {answer}
    /\ scene' = IF scene.from = "page" THEN [from |-> answer, version |-> 0] ELSE scene
    /\ UNCHANGED <<page, room, tracks, video, sound, sender, presses, overlaps>>

RestArrives(answer) ==
    /\ answer \in rest /\ rest' = rest \ {answer}
    /\ scene' = [from |-> answer, version |-> 0]
    /\ Note(If("restAfterMessage", scene.from = "studio")
            \cup If("restReordered", answer = "default" /\ "server" \notin rest))
    /\ UNCHANGED <<page, room, tracks, video, sound, sender, presses>>

RestFails(answer) ==
    /\ answer \in rest /\ rest' = rest \ {answer} /\ Press
    /\ Note(If("restFailed", answer = "server"))
    /\ UNCHANGED <<page, room, tracks, video, sound, scene, sender>>

\* DataReceived, from the moment the room admits the viewer.
SceneMessage ==
    /\ admitted /\ wire # <<>>
    /\ scene' = [from |-> "studio", version |-> Head(wire)] /\ wire' = Tail(wire)
    /\ UNCHANGED <<page, room, tracks, video, sound, rest, studio, program, rendered,
                   greeting, presses, overlaps>>

\* The Studio cuts: its new program goes to everyone in the room.
Cut ==
    /\ studio /\ Press
    /\ program' = program + 1
    /\ wire' = IF admitted THEN Append(wire, program + 1) ELSE wire
    /\ UNCHANGED <<page, room, tracks, video, sound, scene, rest, studio, rendered,
                   greeting, overlaps>>

\* The effect after the render that follows.
ProgramRendered ==
    /\ rendered # program /\ rendered' = program
    /\ UNCHANGED <<page, room, tracks, video, sound, scene, rest, studio, program,
                   greeting, wire, presses, overlaps>>

\* Mutant of Greet: the snapshot is of the page's first render.
GreetFirstRender ==
    /\ studio /\ greeting /\ greeting' = FALSE
    /\ wire' = Append(wire, 0)
    /\ Note(If("cutInGreeting", rendered # program))
    /\ UNCHANGED <<page, room, tracks, video, sound, scene, rest, studio, program,
                   rendered, presses>>

\* ParticipantConnected at the Studio: the snapshot of programSceneRef.
Greet ==
    /\ studio /\ greeting /\ greeting' = FALSE
    /\ wire' = Append(wire, rendered)
    /\ Note(If("cutInGreeting", rendered # program))
    /\ UNCHANGED <<page, room, tracks, video, sound, scene, rest, studio, program,
                   rendered, presses>>

StudioLeaves ==
    /\ studio /\ Press
    /\ studio' = FALSE /\ greeting' = FALSE
    /\ Note(If("studioAway", greeting))
    /\ UNCHANGED <<page, room, tracks, video, sound, scene, rest, program, rendered,
                   wire>>

-----------------------------------------------------------------------------
Next ==
    \/ GotToken \/ Admit \/ Watching \/ WatchFails \/ Disconnected \/ Unmount
    \/ \E name \in Name : Publish(name)
    \/ \E p \in published : \/ Subscribed(p) \/ Unpublish(p)
                            \/ \E flag \in BOOLEAN : Mute(p, flag)
    \/ ToggleAudioOn \/ ToggleAudioOff \/ AudioStarted \/ AudioPlays \/ AudioFails
    \/ \E answer \in rest : RestArrives(answer) \/ RestFails(answer)
    \/ SceneMessage \/ Cut \/ ProgramRendered \/ Greet \/ StudioLeaves

Spec == Init /\ [][Next]_vars

-----------------------------------------------------------------------------
TypeOK ==
    /\ mounted \in BOOLEAN /\ status \in {"idle", "connecting", "watching", "error"}
    /\ step \in {"token", "connect", "none"}
    /\ admitted \in BOOLEAN /\ roomRef \in BOOLEAN
    /\ published \subseteq Publication
    /\ subscribed \subseteq {p.id : p \in published}
    /\ {direct, composed} \subseteq subscribed \cup {0} /\ shown \in {direct, composed, 0}
    /\ element \in [id: Id, muted: BOOLEAN] /\ audioOn \in BOOLEAN
    /\ toggles \in [starting: Id, playing: Id]
    /\ scene \in Scene /\ rest \subseteq {"default", "server"}
    /\ studio \in BOOLEAN /\ greeting \in BOOLEAN
    /\ program \in Id /\ rendered \in Id /\ wire \in Seq(Id)
    /\ made \in Id /\ presses \in Id /\ overlaps \subseteq Overlap

Unless(names) == overlaps \cap names = {}

\* What is on the screen is the direct program track when the page has one, else
\* the compositor's when it is not muted, through every order of publications,
\* subscriptions and mutes.
ShowsProgramTrack ==
    roomRef =>
        LET has(name) == {p \in published : p.name = name /\ p.id \in subscribed}
            shows(S)  == \E p \in S : p.id = shown
            ready     == {p \in has("compositor-preview-video") : ~p.muted}
        IN  IF has("program-video") # {} THEN shows(has("program-video"))
            ELSE IF ready # {} THEN shows(ready) ELSE shown = 0

\* At rest the program's sound is heard exactly when the button says so, unless
\* the button was pressed again, the track came or play failed during a press.
SoundMatchesButton ==
    toggles = NoToggle /\ element.id # 0
    /\ Unless({"attachInToggle", "toggleInToggle", "playFailed"})
    => element.muted = ~audioOn

\* With every message and answer in, a viewer draws the scene of the Studio's
\* program, unless the REST answer came after a message, the Studio cut while it
\* greeted the viewer, or was not there to greet.
SceneIsProgram ==
    roomRef /\ rest = {} /\ wire = <<>> /\ ~greeting
    /\ Unless({"restAfterMessage", "cutInGreeting", "studioAway"})
    => scene = [from |-> "studio", version |-> program]

\* The scene of another channel does not stay, unless the answers for the two
\* channels came in the other order, or the page's own never came, and no message
\* has replaced it.
SceneIsOfChannel == rest = {} /\ Unless({"restReordered", "restFailed"}) => scene.from # "default"

\* A page that was closed is no longer in the room, unless it was closed while it
\* was connecting.
NoRoomLeftOpen ==
    ~mounted /\ step = "none" /\ Unless({"unmountInConnect"}) => ~admitted
=============================================================================
