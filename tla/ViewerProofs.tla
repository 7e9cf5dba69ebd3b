---------------------------- MODULE ViewerProofs ----------------------------
(***************************************************************************)
(* Theorems about Viewer, for every number of events: the type invariant   *)
(* and the five properties of the page, each from the inductive invariant  *)
(* that says what is still on its way.                                     *)
(***************************************************************************)
EXTENDS Viewer, SequenceTheorems, TLAPS

\* Everything that is counted is counted among the presses.
Counted ==
    /\ made <= presses /\ program <= presses
    /\ toggles.starting + toggles.playing <= presses

\* A track has one publication at a time, and an identifier of its own.
OnePublication ==
    /\ \A p \in published : p.id > 0 /\ p.id <= made
    /\ \A p, q \in published : p.id = q.id \/ p.name = q.name => p = q

\* The page holds the room exactly while its connection stands, and no track of it
\* otherwise.
RoomHeld ==
    /\ roomRef = Connected
    /\ ~roomRef => subscribed = {} /\ direct = 0 /\ composed = 0 /\ shown = 0

\* A reference to a track is that of the subscribed publication of its name.
Refers(ref, name) ==
    /\ ref # 0 => \E p \in published : p.id = ref /\ p.name = name /\ ref \in subscribed
    /\ \A p \in published : p.name = name /\ p.id \in subscribed => ref = p.id

References ==
    /\ Refers(direct, "program-video")
    /\ Refers(composed, "compositor-preview-video")

\* selectViewerVideo ran after the last event that it depends on.
Selected ==
    shown = IF direct # 0 THEN direct
            ELSE IF composed # 0 /\ ~(\E p \in published : p.id = composed /\ p.muted)
                 THEN composed
            ELSE 0

\* The type invariant, in the groups that one lemma each is about.
PageTypes ==
    /\ mounted \in BOOLEAN /\ status \in {"idle", "connecting", "watching", "error"}
    /\ step \in {"token", "connect", "none"}
    /\ admitted \in BOOLEAN /\ roomRef \in BOOLEAN
    /\ presses \in Id /\ made \in Id /\ overlaps \subseteq Overlap

TrackTypes ==
    /\ published \subseteq Publication
    /\ subscribed \subseteq {p.id : p \in published}
    /\ {direct, composed} \subseteq subscribed \cup {0}
    /\ shown \in {direct, composed, 0}

SoundTypes ==
    /\ element \in [id: Id, muted: BOOLEAN] /\ audioOn \in BOOLEAN
    /\ toggles \in [starting: Id, playing: Id]

SceneTypes ==
    /\ scene \in Scene /\ rest \subseteq {"default", "server"}
    /\ studio \in BOOLEAN /\ greeting \in BOOLEAN
    /\ program \in Id /\ rendered \in Id /\ wire \in Seq(Id)

\* The inductive invariant: of what is counted, and of the room's tracks.
CountInv == PageTypes /\ SoundTypes /\ SceneTypes /\ Counted
TrackInv == TrackTypes /\ OnePublication /\ RoomHeld /\ References /\ Selected
RoomInv  == CountInv /\ TrackInv

\* The element and the button through the steps of one press.
PressSettles ==
    Unless({"attachInToggle", "toggleInToggle", "playFailed"}) =>
        /\ toggles.starting + toggles.playing <= 1
        /\ toggles = NoToggle /\ element.id # 0 => element.muted = ~audioOn
        /\ toggles.starting = 1 => ~audioOn /\ (element.id # 0 => element.muted)
        /\ toggles.playing = 1 => ~audioOn /\ (element.id # 0 => ~element.muted)

\* Once greeted, what the viewer draws or last has to come is the Studio's program.
ProgramOnItsWay ==
    admitted /\ ~greeting
    /\ Unless({"restAfterMessage", "cutInGreeting", "studioAway"})
    => IF wire = <<>> THEN scene = [from |-> "studio", version |-> program]
       ELSE wire[Len(wire)] = program

\* While the default channel's scene is drawn, the page's own is still to come.
OwnSceneToCome ==
    Unless({"restReordered", "restFailed"}) /\ scene.from = "default" => "server" \in rest

\* A page closed outside connect has left the room for good.
LeftForGood ==
    ~mounted /\ Unless({"unmountInConnect"}) => step = "none" /\ ~admitted

PageInv == PressSettles /\ ProgramOnItsWay /\ OwnSceneToCome /\ LeftForGood

\* What disconnect() clears keeps its type.
LEMMA ClearTypes ==
    ASSUME SoundTypes, Clear
    PROVE  SoundTypes' /\ roomRef' \in BOOLEAN /\ toggles' = toggles
  <1>1. element' \in [id: Id, muted: BOOLEAN]
    BY ViewerAssumption DEF Clear, NoElement, Id
  <1>2. audioOn' \in BOOLEAN /\ roomRef' \in BOOLEAN
    BY DEF Clear
  <1>3. toggles' = toggles
    BY DEF Clear
  <1>4. QED
    BY <1>1, <1>2, <1>3 DEF SoundTypes

\* The end of the viewer's connection: the Studio has nobody to greet.
LEMMA HushTypes ==
    ASSUME SceneTypes, greeting' = FALSE, wire' = <<>>,
           UNCHANGED <<scene, rest, studio, program, rendered>>
    PROVE  SceneTypes'
  <1>1. greeting' \in BOOLEAN /\ studio' \in BOOLEAN
    BY DEF SceneTypes
  <1>2. wire' \in Seq(Id)
    OBVIOUS
  <1>3. QED
    BY <1>1, <1>2 DEF SceneTypes

\* One more press: a number counted among the presses may be raised by it.
LEMMA OneMore ==
    ASSUME presses \in Id, Press, NEW n \in Id, n <= presses
    PROVE  presses' \in Id /\ n + 1 \in Id /\ n + 1 <= presses' /\ n <= presses'
  BY ViewerAssumption DEF Press, Id

\* Each step keeps the types, and counts what it makes among the presses.
LEMMA CountNext ==
    ASSUME CountInv, TrackTypes, Next
    PROVE  CountInv'
  <1> USE DEF CountInv
  <1>1. ASSUME GotToken PROVE CountInv'
    <2>1. PageTypes' /\ Counted' /\ SoundTypes' /\ SceneTypes'
      BY <1>1 DEF GotToken, PageTypes, Counted, Overlap, room, tracks, SoundTypes,
         SceneTypes, Id, sender, sound, Scene
    <2>2. QED
      BY <2>1
  <1>2. ASSUME Admit PROVE CountInv'
    <2>1. PageTypes' /\ Counted' /\ SoundTypes' /\ SceneTypes'
      BY <1>2 DEF Admit, PageTypes, Counted, Overlap, If, Note, page, room, tracks,
         SoundTypes, SceneTypes, Id, sound, Scene
    <2>2. QED
      BY <2>1
  <1>3. ASSUME Watching PROVE CountInv'
    <2>1. PageTypes' /\ Counted' /\ SoundTypes' /\ SceneTypes'
      BY <1>3 DEF Watching, PageTypes, Counted, Overlap, room, tracks, SoundTypes,
         SceneTypes, Id, sender, sound, Scene
    <2>2. QED
      BY <2>1
  <1>4. ASSUME WatchFails PROVE CountInv'
    <2>1. Clear
      BY <1>4 DEF WatchFails
    <2>2. SoundTypes' /\ roomRef' \in BOOLEAN /\ toggles' = toggles
      BY <2>1, ClearTypes
    <2>3. PageTypes'
      <3>1. /\ step' \in {"token", "connect", "none"}
            /\ status' \in {"idle", "connecting", "watching", "error"}
        BY <1>4 DEF WatchFails, PageTypes
      <3>2. mounted' \in BOOLEAN /\ admitted' \in BOOLEAN /\ overlaps' \subseteq Overlap
        BY <1>4 DEF WatchFails, PageTypes
      <3>3. presses' \in Id /\ made' \in Id
        BY <1>4, ViewerAssumption DEF WatchFails, PageTypes, Press, Id, tracks
      <3>4. QED
        BY <2>2, <3>1, <3>2, <3>3 DEF PageTypes
    <2>4. SceneTypes'
      BY <1>4, HushTypes DEF WatchFails
    <2>5. Counted'
      BY <1>4, <2>2, ViewerAssumption DEF WatchFails, Counted, PageTypes,
         SceneTypes, SoundTypes, tracks, Press, Id
    <2>6. QED
      BY <2>2, <2>3, <2>4, <2>5
  <1>5. ASSUME Disconnected PROVE CountInv'
    <2>1. Clear
      BY <1>5 DEF Disconnected
    <2>2. SoundTypes' /\ roomRef' \in BOOLEAN /\ toggles' = toggles
      BY <2>1, ClearTypes
    <2>3. PageTypes'
      <3>1. /\ step' \in {"token", "connect", "none"}
            /\ status' \in {"idle", "connecting", "watching", "error"}
        BY <1>5 DEF Disconnected, PageTypes
      <3>2. mounted' \in BOOLEAN /\ admitted' \in BOOLEAN /\ overlaps' \subseteq Overlap
        BY <1>5 DEF Disconnected, PageTypes
      <3>3. presses' \in Id /\ made' \in Id
        BY <1>5, ViewerAssumption DEF Disconnected, PageTypes, Press, Id, tracks
      <3>4. QED
        BY <2>2, <3>1, <3>2, <3>3 DEF PageTypes
    <2>4. SceneTypes'
      BY <1>5, HushTypes DEF Disconnected
    <2>5. Counted'
      BY <1>5, <2>2, ViewerAssumption DEF Disconnected, Counted, PageTypes,
         SceneTypes, SoundTypes, tracks, Press, Id
    <2>6. QED
      BY <2>2, <2>3, <2>4, <2>5
  <1>6. ASSUME Unmount PROVE CountInv'
    <2>1. Clear
      BY <1>6 DEF Unmount
    <2>2. SoundTypes' /\ roomRef' \in BOOLEAN /\ toggles' = toggles
      BY <2>1, ClearTypes
    <2>3. PageTypes'
      BY <1>6, <2>2 DEF Unmount, PageTypes, tracks, Overlap, If, Note
    <2>4. CASE roomRef
      <3>1. SceneTypes'
        BY <1>6, <2>4, HushTypes DEF Unmount
      <3>2. Counted'
        BY <1>6, <2>2, <2>4 DEF Unmount, Counted
      <3>3. QED
        BY <2>2, <2>3, <3>1, <3>2
    <2>5. CASE ~roomRef
      <3>1. SceneTypes'
        BY <1>6, <2>5 DEF Unmount, SceneTypes
      <3>2. Counted'
        BY <1>6, <2>2, <2>5 DEF Unmount, Counted
      <3>3. QED
        BY <2>2, <2>3, <3>1, <3>2
    <2>6. QED
      BY <2>4, <2>5
  <1>7. ASSUME ToggleAudioOn PROVE CountInv'
    <2>1. PageTypes' /\ Counted'
      BY <1>7, ViewerAssumption DEF ToggleAudioOn, PageTypes, Counted, Overlap, If,
         Note, Press, Id, page, room, tracks, SoundTypes, SceneTypes, sender
    <2>2. SoundTypes'
      BY <1>7, ViewerAssumption DEF ToggleAudioOn, SoundTypes, Counted, PageTypes,
         Press, Id
    <2>3. SceneTypes'
      BY <1>7, ViewerAssumption DEF ToggleAudioOn, SceneTypes, Counted, PageTypes,
         Press, Id, Scene, sender
    <2>4. QED
      BY <2>1, <2>2, <2>3
  <1>8. ASSUME ToggleAudioOff PROVE CountInv'
    <2>1. PageTypes' /\ Counted'
      BY <1>8, ViewerAssumption DEF ToggleAudioOff, PageTypes, Counted, Overlap, If,
         Note, Press, Id, page, room, tracks, SoundTypes, SceneTypes, sender
    <2>2. SoundTypes' /\ SceneTypes'
      BY <1>8, ViewerAssumption DEF ToggleAudioOff, SoundTypes, Counted, PageTypes,
         Press, Id, SceneTypes, Scene, sender
    <2>3. QED
      BY <2>1, <2>2
  <1>9. ASSUME AudioStarted PROVE CountInv'
    <2>1. PageTypes'
      BY <1>9 DEF AudioStarted, PageTypes, Counted, Overlap, page, room, tracks
    <2>2. Counted'
      BY <1>9 DEF AudioStarted, Counted, PageTypes, SoundTypes, SceneTypes, Id,
         tracks, sender
    <2>3. SoundTypes'
      <3>1. element' \in [id: Id, muted: BOOLEAN] /\ audioOn' \in BOOLEAN
        BY <1>9 DEF AudioStarted, SoundTypes
      <3>2. toggles.starting - 1 \in Id /\ toggles.playing + 1 \in Id
        BY <1>9, ViewerAssumption DEF AudioStarted, SoundTypes, Counted, PageTypes,
           Id
      <3>3. QED
        BY <1>9, <3>1, <3>2 DEF AudioStarted, SoundTypes
    <2>4. SceneTypes'
      BY <1>9 DEF AudioStarted, SceneTypes, Counted, PageTypes, Scene, sender
    <2>5. QED
      BY <2>1, <2>2, <2>3, <2>4
  <1>10. ASSUME AudioPlays PROVE CountInv'
    <2>1. PageTypes'
      BY <1>10 DEF AudioPlays, PageTypes, Counted, Overlap, page, room, tracks
    <2>2. Counted'
      BY <1>10 DEF AudioPlays, Counted, PageTypes, SoundTypes, SceneTypes, Id,
         tracks, sender
    <2>3. SoundTypes'
      <3>1. element' \in [id: Id, muted: BOOLEAN] /\ audioOn' \in BOOLEAN
        BY <1>10 DEF AudioPlays, SoundTypes
      <3>2. toggles.playing - 1 \in Id
        BY <1>10, ViewerAssumption DEF AudioPlays, SoundTypes, Id
      <3>3. QED
        BY <1>10, <3>1, <3>2 DEF AudioPlays, SoundTypes
    <2>4. SceneTypes'
      BY <1>10 DEF AudioPlays, SceneTypes, Counted, PageTypes, Scene, sender
    <2>5. QED
      BY <2>1, <2>2, <2>3, <2>4
  <1>11. ASSUME AudioFails PROVE CountInv'
    <2>1. PageTypes'
      BY <1>11, ViewerAssumption DEF AudioFails, PageTypes, Counted, Overlap, Note,
         Press, Id, page, room, tracks
    <2>2. Counted'
      <3>1. presses' = presses + 1 /\ made' = made /\ program' = program
        BY <1>11 DEF AudioFails, Press, tracks, sender
      <3>2. toggles'.starting + toggles'.playing <= toggles.starting + toggles.playing
        BY <1>11 DEF AudioFails, SoundTypes, Id
      <3>3. toggles'.starting + toggles'.playing \in Int
        BY <1>11 DEF AudioFails, SoundTypes, Id
      <3>4. QED
        BY <3>1, <3>2, <3>3 DEF Counted, PageTypes, SoundTypes, SceneTypes, Id
    <2>3. SoundTypes'
      BY <1>11, ViewerAssumption DEF AudioFails, SoundTypes, Counted, PageTypes,
         Press, Id
    <2>4. SceneTypes'
      BY <1>11, ViewerAssumption DEF AudioFails, SceneTypes, Counted, PageTypes,
         Press, Id, Scene, sender
    <2>5. QED
      BY <2>1, <2>2, <2>3, <2>4
  <1>12. ASSUME SceneMessage PROVE CountInv'
    <2>1. PageTypes' /\ Counted' /\ SoundTypes'
      BY <1>12 DEF SceneMessage, PageTypes, Counted, Overlap, page, room, tracks,
         SoundTypes, SceneTypes, Id, sound
    <2>2. SceneTypes'
      BY <1>12 DEF SceneMessage, SceneTypes, Counted, PageTypes, Scene
    <2>3. QED
      BY <2>1, <2>2
  <1>13. ASSUME Cut PROVE CountInv'
    <2>1. PageTypes'
      BY <1>13, ViewerAssumption DEF Cut, PageTypes, Counted, Overlap, Press, Id,
         page, room, tracks
    <2>2. Counted'
      BY <1>13, ViewerAssumption DEF Cut, Counted, PageTypes, SoundTypes,
         SceneTypes, Press, Id, tracks, sound
    <2>3. SoundTypes'
      BY <1>13, ViewerAssumption DEF Cut, SoundTypes, Counted, PageTypes, Press, Id,
         sound
    <2>4. SceneTypes'
      <3>1. program' \in Id
        BY <1>13, ViewerAssumption DEF Cut, SceneTypes, Counted, PageTypes, Press,
           Id
      <3>2. wire' \in Seq(Id)
        BY <1>13, <3>1 DEF Cut, SceneTypes
      <3>3. QED
        BY <1>13, <3>1, <3>2 DEF Cut, SceneTypes
    <2>5. QED
      BY <2>1, <2>2, <2>3, <2>4
  <1>14. ASSUME ProgramRendered PROVE CountInv'
    <2>1. PageTypes' /\ Counted' /\ SoundTypes' /\ SceneTypes'
      BY <1>14 DEF ProgramRendered, PageTypes, Counted, Overlap, page, room, tracks,
         SoundTypes, SceneTypes, Id, sound, Scene
    <2>2. QED
      BY <2>1
  <1>15. ASSUME Greet PROVE CountInv'
    <2>1. PageTypes'
      BY <1>15 DEF Greet, PageTypes, Counted, Overlap, If, Note, page, room, tracks
    <2>2. Counted'
      BY <1>15 DEF Greet, Counted, PageTypes, SoundTypes, SceneTypes, Id, tracks,
         sound
    <2>3. SoundTypes'
      BY <1>15 DEF Greet, SoundTypes, Counted, PageTypes, Id, sound
    <2>4. SceneTypes'
      <3>1. wire' \in Seq(Id)
        BY <1>15 DEF Greet, SceneTypes
      <3>2. studio' \in BOOLEAN /\ greeting' \in BOOLEAN
        BY <1>15 DEF Greet, SceneTypes
      <3>3. QED
        BY <1>15, <3>1, <3>2 DEF Greet, SceneTypes
    <2>5. QED
      BY <2>1, <2>2, <2>3, <2>4
  <1>16. ASSUME StudioLeaves PROVE CountInv'
    <2>1. PageTypes' /\ Counted'
      BY <1>16, ViewerAssumption DEF StudioLeaves, PageTypes, Counted, Overlap, If,
         Note, Press, Id, page, room, tracks, SoundTypes, SceneTypes, sound
    <2>2. SoundTypes' /\ SceneTypes'
      BY <1>16, ViewerAssumption DEF StudioLeaves, SoundTypes, Counted, PageTypes,
         Press, Id, sound, SceneTypes, Scene
    <2>3. QED
      BY <2>1, <2>2
  <1>17. ASSUME NEW name \in Name, Publish(name) PROVE CountInv'
    <2>1. PageTypes' /\ Counted' /\ SoundTypes' /\ SceneTypes'
      BY <1>17, ViewerAssumption DEF Publish, PageTypes, Counted, Overlap, Press,
         Id, page, room, tracks, SoundTypes, SceneTypes, sender, sound, Scene
    <2>2. QED
      BY <2>1
  <1>18. ASSUME NEW p \in published, Subscribed(p) PROVE CountInv'
    <2>1. PageTypes'
      BY <1>18 DEF Subscribed, PageTypes, Counted, Overlap, If, Note, page, room,
         tracks
    <2>2. Counted'
      BY <1>18 DEF Subscribed, Counted, PageTypes, SoundTypes, SceneTypes, Id,
         tracks, sender
    <2>3. SoundTypes'
      <3>1. p.id \in Id
        BY <1>18 DEF TrackTypes, Publication
      <3>2. audioOn' \in BOOLEAN
        BY <1>18 DEF Subscribed, SoundTypes
      <3>3. CASE p.name = "program-audio"
        <4>1. element' = [id |-> p.id, muted |-> ~audioOn]
          BY <1>18, <3>3 DEF Subscribed
        <4>2. CASE audioOn
          BY <1>18, <3>1, <3>2, <4>1, <4>2 DEF Subscribed, SoundTypes
        <4>3. CASE ~audioOn
          BY <1>18, <3>1, <3>2, <4>1, <4>3 DEF Subscribed, SoundTypes
        <4>4. QED
          BY <4>2, <4>3
      <3>4. CASE p.name # "program-audio"
        BY <1>18, <3>2, <3>4 DEF Subscribed, SoundTypes
      <3>5. QED
        BY <3>3, <3>4
    <2>4. SceneTypes'
      BY <1>18 DEF Subscribed, SceneTypes, Counted, PageTypes, Scene, sender
    <2>5. QED
      BY <2>1, <2>2, <2>3, <2>4
  <1>19. ASSUME NEW p \in published, Unpublish(p) PROVE CountInv'
    <2>1. PageTypes' /\ Counted' /\ SoundTypes' /\ SceneTypes'
      BY <1>19, ViewerAssumption DEF Unpublish, PageTypes, Counted, Overlap, Press,
         Id, page, room, tracks, SoundTypes, SceneTypes, sender, sound, Scene
    <2>2. QED
      BY <2>1
  <1>20. ASSUME NEW p \in published, NEW flag \in BOOLEAN, Mute(p, flag)
         PROVE  CountInv'
    <2>1. PageTypes' /\ Counted' /\ SoundTypes' /\ SceneTypes'
      BY <1>20, ViewerAssumption DEF Mute, PageTypes, Counted, Overlap, Press, Id,
         page, room, tracks, SoundTypes, SceneTypes, sender, sound, Scene
    <2>2. QED
      BY <2>1
  <1>21. ASSUME NEW answer \in rest, RestArrives(answer) PROVE CountInv'
    <2>1. PageTypes'
      BY <1>21 DEF RestArrives, PageTypes, Counted, Overlap, If, Note, page, room,
         tracks
    <2>2. Counted'
      BY <1>21 DEF RestArrives, Counted, PageTypes, SoundTypes, SceneTypes, Id,
         tracks, sender, sound
    <2>3. SoundTypes'
      BY <1>21 DEF RestArrives, SoundTypes, Counted, PageTypes, Id, sound
    <2>4. SceneTypes'
      <3>1. scene' \in Scene
        BY <1>21, ViewerAssumption DEF RestArrives, SceneTypes, Scene, Id
      <3>2. rest' \subseteq {"default", "server"}
        BY <1>21 DEF RestArrives, SceneTypes
      <3>3. QED
        BY <1>21, <3>1, <3>2 DEF RestArrives, SceneTypes, sender
    <2>5. QED
      BY <2>1, <2>2, <2>3, <2>4
  <1>22. ASSUME NEW answer \in rest, RestFails(answer) PROVE CountInv'
    <2>1. PageTypes' /\ Counted' /\ SoundTypes' /\ SceneTypes'
      BY <1>22, ViewerAssumption DEF RestFails, PageTypes, Counted, Overlap, If,
         Note, Press, Id, page, room, tracks, SoundTypes, SceneTypes, sender, sound,
         Scene
    <2>2. QED
      BY <2>1
  <1>23. QED
    BY <1>1, <1>2, <1>3, <1>4, <1>5, <1>6, <1>7, <1>8, <1>9, <1>10, <1>11, <1>12,
       <1>13, <1>14, <1>15, <1>16, <1>17, <1>18, <1>19, <1>20, <1>21, <1>22 DEF Next

\* The events that leave the room and its tracks alone.
LEMMA TrackKept ==
    ASSUME TrackInv, UNCHANGED <<step, admitted, roomRef, tracks, video>>
    PROVE  TrackInv'
  BY DEF TrackInv, TrackTypes, OnePublication, RoomHeld, References, Refers,
     Selected, Connected, tracks, video

\* The page lets go of everything: of the room, and of each of its tracks.
LEMMA TrackCleared ==
    ASSUME TrackInv, Clear, UNCHANGED <<published, made>>, subscribed' = {}, ~Connected'
    PROVE  TrackInv'
  <1>1. OnePublication'
    BY DEF TrackInv, OnePublication
  <1>2. TrackTypes'
    BY DEF TrackInv, Clear, TrackTypes
  <1>3. RoomHeld'
    BY DEF Clear, RoomHeld, Connected
  <1>4. References' /\ Selected'
    BY DEF TrackInv, TrackTypes, OnePublication, Clear, References, Refers, Selected
  <1>5. QED
    BY <1>1, <1>2, <1>3, <1>4 DEF TrackInv

\* Each step keeps the references in line with the room, and the choice with them.
LEMMA TrackNext ==
    ASSUME RoomInv, Next
    PROVE  TrackInv'
  <1> USE DEF RoomInv
  <1>1. CASE GotToken
    BY <1>1 DEF GotToken, CountInv, PageTypes, TrackInv, TrackTypes, OnePublication,
       RoomHeld, References, Refers, Selected, Connected, tracks, video, room
  <1>2. CASE Admit
    BY <1>2 DEF Admit, CountInv, PageTypes, TrackInv, TrackTypes, OnePublication,
       RoomHeld, References, Refers, Selected, Connected, tracks, video, page
  <1>3. CASE Watching
    BY <1>3 DEF Watching, CountInv, PageTypes, TrackInv, TrackTypes, OnePublication,
       RoomHeld, References, Refers, Selected, Connected, tracks, video
  <1>4. CASE WatchFails
    <2>1. ~roomRef /\ subscribed = {}
      BY <1>4 DEF WatchFails, CountInv, PageTypes, TrackInv, RoomHeld, Connected
    <2>2. QED
      BY <1>4, <2>1, TrackCleared DEF WatchFails, Connected, tracks
  <1>5. CASE Disconnected
    BY <1>5, TrackCleared DEF Disconnected, Connected
  <1>6. CASE Unmount
    <2>1. subscribed' = {} /\ ~Connected'
      BY <1>6 DEF Unmount, CountInv, PageTypes, TrackInv, RoomHeld, Connected
    <2>2. QED
      BY <1>6, <2>1, TrackCleared DEF Unmount
  <1>7. ASSUME NEW name \in Name, Publish(name) PROVE TrackInv'
    <2> DEFINE q == [id |-> made + 1, name |-> name, muted |-> name # "program-audio"]
    <2>1. /\ \A p \in published : p.name # name
          /\ published' = published \cup {q} /\ made' = made + 1
          /\ UNCHANGED <<page, room, subscribed, video>>
      BY <1>7 DEF Publish
    <2>2. q \in Publication /\ made \in Nat
      BY <1>7, ViewerAssumption DEF Publish, CountInv, PageTypes, Counted, Press,
         Publication, Id, Name
    <2>3. q.id = made + 1 /\ q.name = name
      OBVIOUS
    <2> HIDE DEF q
    <2>4. TrackTypes'
      BY <2>1, <2>2 DEF TrackInv, TrackTypes, video
    <2>5. OnePublication'
      BY <2>1, <2>2, <2>3 DEF TrackInv, TrackTypes, OnePublication, Publication, Id
    <2>6. RoomHeld'
      BY <2>1 DEF TrackInv, RoomHeld, Connected, page, room, video
    <2>7. q.id \notin subscribed /\ q.id # composed
      BY <2>1, <2>2, <2>3 DEF TrackInv, OnePublication, TrackTypes, Publication, Id
    <2>8. References'
      BY <2>1, <2>7 DEF TrackInv, References, Refers, video
    <2>9. Selected'
      BY <2>1, <2>7 DEF TrackInv, Selected, video
    <2>10. QED
      BY <2>4, <2>5, <2>6, <2>8, <2>9 DEF TrackInv
  <1>8. ASSUME NEW p \in published, Subscribed(p) PROVE TrackInv'
    <2>1. /\ Connected /\ p \in published /\ p.id \notin subscribed
          /\ subscribed' = subscribed \cup {p.id}
          /\ direct' = IF p.name = "program-video" THEN p.id ELSE direct
          /\ composed' = IF p.name = "compositor-preview-video" THEN p.id ELSE composed
          /\ IF p.name = "program-audio" THEN UNCHANGED shown ELSE SelectViewerVideo
          /\ UNCHANGED <<page, room, made, published>>
      BY <1>8 DEF Subscribed
    <2>2. OnePublication'
      BY <2>1 DEF TrackInv, OnePublication
    <2>3. RoomHeld'
      BY <2>1 DEF TrackInv, RoomHeld, Connected, page, room
    <2>4. References'
      BY <2>1 DEF TrackInv, References, Refers, OnePublication
    <2>5. Selected'
      BY <2>1 DEF TrackInv, Selected, SelectViewerVideo, Muted
    <2>6. TrackTypes'
      BY <2>1 DEF TrackInv, TrackTypes, SelectViewerVideo
    <2>10. QED
      BY <2>2, <2>3, <2>4, <2>5, <2>6 DEF TrackInv
  <1>9. ASSUME NEW p \in published, Unpublish(p) PROVE TrackInv'
    <2>1. /\ published' = published \ {p} /\ subscribed' = subscribed \ {p.id}
          /\ direct' = IF direct = p.id THEN 0 ELSE direct
          /\ composed' = IF composed = p.id THEN 0 ELSE composed
          /\ IF p.id \in subscribed /\ p.name # "program-audio"
             THEN SelectViewerVideo ELSE UNCHANGED shown
          /\ UNCHANGED <<page, room, made>>
      BY <1>9 DEF Unpublish
    <2>2. OnePublication'
      BY <2>1 DEF TrackInv, OnePublication
    <2>3. RoomHeld'
      BY <2>1 DEF TrackInv, RoomHeld, Connected, page, room, SelectViewerVideo
    <2>4. References'
      BY <2>1 DEF TrackInv, References, Refers, OnePublication
    <2>5. Selected'
      BY <2>1 DEF TrackInv, TrackTypes, OnePublication, References, Refers,
         Selected, SelectViewerVideo, Muted
    <2>6. TrackTypes'
      BY <2>1, <2>5 DEF TrackInv, TrackTypes, OnePublication, Selected
    <2>10. QED
      BY <2>2, <2>3, <2>4, <2>5, <2>6 DEF TrackInv
  <1>10. ASSUME NEW p \in published, NEW flag \in BOOLEAN, Mute(p, flag)
         PROVE  TrackInv'
    <2> DEFINE q == [p EXCEPT !.muted = flag]
    <2>1. /\ published' = (published \ {p}) \cup {q}
          /\ UNCHANGED <<direct, composed>>
          /\ IF Connected /\ p.name = "compositor-preview-video"
             THEN SelectViewerVideo ELSE UNCHANGED shown
          /\ UNCHANGED <<page, room, subscribed, made>>
      BY <1>10 DEF Mute
    <2>2. q \in Publication /\ q.id = p.id /\ q.name = p.name
      BY DEF TrackInv, TrackTypes, Publication
    <2> HIDE DEF q
    <2>3. OnePublication'
      BY <2>1, <2>2 DEF TrackInv, OnePublication
    <2>4. RoomHeld'
      BY <2>1 DEF TrackInv, RoomHeld, Connected, page, room, SelectViewerVideo
    <2>5. References'
      BY <2>1, <2>2 DEF TrackInv, References, Refers
    <2>6. Selected'
      BY <2>1, <2>2 DEF TrackInv, TrackTypes, OnePublication, RoomHeld, References,
         Refers, Selected, SelectViewerVideo, Muted
    <2>7. TrackTypes'
      BY <2>1, <2>2, <2>6 DEF TrackInv, TrackTypes, Selected
    <2>10. QED
      BY <2>3, <2>4, <2>5, <2>6, <2>7 DEF TrackInv
  <1>11. CASE ToggleAudioOn
    BY <1>11, TrackKept DEF RoomInv, ToggleAudioOn, page, room, video, tracks
  <1>12. CASE ToggleAudioOff
    BY <1>12, TrackKept DEF RoomInv, ToggleAudioOff, page, room, video, tracks
  <1>13. CASE AudioStarted
    BY <1>13, TrackKept DEF RoomInv, AudioStarted, page, room, video, tracks
  <1>14. CASE AudioPlays
    BY <1>14, TrackKept DEF RoomInv, AudioPlays, page, room, video, tracks
  <1>15. CASE AudioFails
    BY <1>15, TrackKept DEF RoomInv, AudioFails, page, room, video, tracks
  <1>16. CASE SceneMessage
    BY <1>16, TrackKept DEF RoomInv, SceneMessage, page, room, video, tracks
  <1>17. CASE Cut
    BY <1>17, TrackKept DEF RoomInv, Cut, page, room, video, tracks
  <1>18. CASE ProgramRendered
    BY <1>18, TrackKept DEF RoomInv, ProgramRendered, page, room, video, tracks
  <1>19. CASE Greet
    BY <1>19, TrackKept DEF RoomInv, Greet, page, room, video, tracks
  <1>20. CASE StudioLeaves
    BY <1>20, TrackKept DEF RoomInv, StudioLeaves, page, room, video, tracks
  <1>21. ASSUME NEW answer \in rest, RestArrives(answer) PROVE TrackInv'
    BY <1>21, TrackKept DEF RoomInv, RestArrives, page, room, video, tracks
  <1>22. ASSUME NEW answer \in rest, RestFails(answer) PROVE TrackInv'
    BY <1>22, TrackKept DEF RoomInv, RestFails, page, room, video, tracks
  <1>23. QED
    BY <1>1, <1>2, <1>3, <1>4, <1>5, <1>6, <1>7, <1>8, <1>9, <1>10, <1>11, <1>12,
       <1>13, <1>14, <1>15, <1>16, <1>17, <1>18, <1>19, <1>20, <1>21, <1>22 DEF Next

\* A page that was just opened has no room, no track and nothing to play.
LEMMA RoomInit == Init => RoomInv
  <1> SUFFICES ASSUME Init PROVE RoomInv
    OBVIOUS
  <1> USE ViewerAssumption DEF Init
  <1>1. PageTypes
    <2>1. mounted \in BOOLEAN /\ admitted \in BOOLEAN /\ roomRef \in BOOLEAN
      OBVIOUS
    <2>2. status \in {"idle", "connecting", "watching", "error"}
          /\ step \in {"token", "connect", "none"}
      OBVIOUS
    <2>3. presses \in Id /\ made \in Id /\ overlaps \subseteq Overlap
      BY DEF Id
    <2>4. QED
      BY <2>1, <2>2, <2>3 DEF PageTypes
  <1>2. SoundTypes
    <2>1. element \in [id: Id, muted: BOOLEAN]
      BY DEF NoElement, Id
    <2>2. toggles \in [starting: Id, playing: Id]
      BY DEF NoToggle, Id
    <2>3. audioOn \in BOOLEAN
      OBVIOUS
    <2>4. QED
      BY <2>1, <2>2, <2>3 DEF SoundTypes
  <1>3. SceneTypes
    <2>1. scene \in Scene
      BY DEF Scene, Id
    <2>2. studio \in BOOLEAN /\ greeting \in BOOLEAN
      OBVIOUS
    <2>3. program \in Id /\ rendered \in Id /\ wire \in Seq(Id)
      BY DEF Id
    <2>4. rest \subseteq {"default", "server"}
      OBVIOUS
    <2>5. QED
      BY <2>1, <2>2, <2>3, <2>4 DEF SceneTypes
  <1>6. Counted
    BY DEF Counted, NoToggle
  <1>4. TrackInv
    BY DEF TrackInv, TrackTypes, OnePublication, RoomHeld, Connected, References,
       Refers, Selected
  <1>5. QED
    BY <1>1, <1>2, <1>3, <1>4, <1>6 DEF RoomInv, CountInv

\* No event of the room and no press breaks what holds of the room and its tracks.
LEMMA RoomNext == RoomInv /\ [Next]_vars => RoomInv'
  <1> SUFFICES ASSUME RoomInv, [Next]_vars PROVE RoomInv'
    OBVIOUS
  <1>1. CASE Next
    BY <1>1, CountNext, TrackNext DEF RoomInv, TrackInv
  <1>2. CASE UNCHANGED vars
    <2>1. CountInv'
      BY <1>2 DEF vars, page, room, tracks, video, sound, sender, RoomInv, CountInv,
         PageTypes, SoundTypes, SceneTypes, Counted
    <2>2. TrackInv'
      BY <1>2, TrackKept DEF vars, page, room, RoomInv
    <2>3. QED
      BY <2>1, <2>2 DEF RoomInv
  <1>3. QED
    BY <1>1, <1>2

\* The inductive invariant of the room and its tracks holds in every state.
THEOREM RoomAlways == Spec => []RoomInv
  BY RoomInit, RoomNext, PTL DEF Spec

\* Every variable keeps its type, however many events there are.
THEOREM TypeCorrect == Spec => []TypeOK
  <1>1. RoomInv => TypeOK
    BY DEF RoomInv, CountInv, TrackInv, PageTypes, TrackTypes, SoundTypes,
       SceneTypes, TypeOK
  <1>2. QED
    BY <1>1, RoomAlways, PTL

\* What is on the screen is the track that selectViewerVideo prefers, whatever the
\* order of publications, subscriptions, mutes and ends of the connection.
THEOREM ProgramTrackShown == Spec => []ShowsProgramTrack
  <1>1. RoomInv => ShowsProgramTrack
    BY DEF RoomInv, TrackInv, OnePublication, RoomHeld, References, Refers,
       Selected, ShowsProgramTrack
  <1>2. QED
    BY <1>1, RoomAlways, PTL

\* The steps that leave the sound alone.
LEMMA SettlesKept ==
    ASSUME PressSettles, UNCHANGED sound, overlaps \subseteq overlaps'
    PROVE  PressSettles'
  BY DEF PressSettles, sound, Unless

\* The end of the connection takes the element away and turns the button off.
LEMMA SettlesCleared ==
    ASSUME SoundTypes, PressSettles, Clear, overlaps \subseteq overlaps'
    PROVE  PressSettles'
  BY DEF PressSettles, Clear, Unless, NoElement, NoToggle, SoundTypes

\* Of the steps that change the sound, the notes exclude those that overlap a press.
LEMMA SettlesNext == RoomInv /\ PressSettles /\ [Next]_vars => PressSettles'
  <1> SUFFICES ASSUME RoomInv, PressSettles, [Next]_vars PROVE PressSettles'
    OBVIOUS
  <1>1. CASE GotToken
    BY <1>1, SettlesKept DEF GotToken, sound
  <1>2. CASE Admit
    BY <1>2, SettlesKept DEF Admit, sound, Note
  <1>3. CASE Watching
    BY <1>3, SettlesKept DEF Watching, sound
  <1>4. CASE WatchFails
    BY <1>4, SettlesCleared DEF WatchFails, RoomInv, CountInv
  <1>5. CASE Disconnected
    BY <1>5, SettlesCleared DEF Disconnected, RoomInv, CountInv
  <1>6. CASE Unmount
    BY <1>6, SettlesCleared DEF Unmount, RoomInv, CountInv, Note
  <1>7. ASSUME NEW name \in Name, Publish(name) PROVE PressSettles'
    BY <1>7, SettlesKept DEF Publish, sound
  <1>8. ASSUME NEW p \in published, Subscribed(p) PROVE PressSettles'
    <2>1. CASE p.name = "program-audio"
      <3>1. /\ element' = [id |-> p.id, muted |-> ~audioOn]
            /\ UNCHANGED <<audioOn, toggles>>
            /\ overlaps' = overlaps \cup If("attachInToggle", toggles.playing > 0)
        BY <1>8, <2>1 DEF Subscribed, Note
      <3>2. element'.muted = ~audioOn
        BY <3>1
      <3>3. ASSUME Unless({"attachInToggle", "toggleInToggle", "playFailed"})'
            PROVE  /\ toggles.playing = 0
                   /\ Unless({"attachInToggle", "toggleInToggle", "playFailed"})
        BY <3>1, <3>3 DEF Unless, If, RoomInv, CountInv, SoundTypes, Id
      <3>4. CASE audioOn
        BY <3>1, <3>2, <3>3, <3>4 DEF PressSettles
      <3>5. CASE ~audioOn
        <4>1. element'.muted = TRUE /\ audioOn' = FALSE
          BY <3>1, <3>5 DEF RoomInv, CountInv, SoundTypes
        <4>2. QED
          BY <3>1, <3>3, <3>5, <4>1 DEF PressSettles
      <3>6. QED
        BY <3>4, <3>5
    <2>2. CASE p.name # "program-audio"
      BY <1>8, <2>2, SettlesKept DEF Subscribed, sound
    <2>3. QED
      BY <2>1, <2>2
  <1>9. ASSUME NEW p \in published, Unpublish(p) PROVE PressSettles'
    BY <1>9, SettlesKept DEF Unpublish, sound
  <1>10. ASSUME NEW p \in published, NEW flag \in BOOLEAN, Mute(p, flag)
         PROVE  PressSettles'
    BY <1>10, SettlesKept DEF Mute, sound
  <1>11. CASE ToggleAudioOn
    BY <1>11 DEF ToggleAudioOn, RoomInv, CountInv, SoundTypes, PressSettles, Unless,
       NoToggle, Id, Note, If
  <1>12. CASE ToggleAudioOff
    BY <1>12 DEF ToggleAudioOff, RoomInv, CountInv, SoundTypes, PressSettles,
       Unless, NoToggle, Id, Note, If
  <1>13. CASE AudioStarted
    <2>1. /\ toggles.starting > 0 /\ UNCHANGED <<audioOn, overlaps>>
          /\ toggles'.starting = toggles.starting - 1
          /\ toggles'.playing = toggles.playing + 1
          /\ toggles.starting \in Nat /\ toggles.playing \in Nat
      BY <1>13 DEF AudioStarted, RoomInv, CountInv, SoundTypes, Id
    <2>2. element'.id # 0 => ~element'.muted
      BY <1>13 DEF AudioStarted, RoomInv, CountInv, SoundTypes
    <2>3. toggles' # NoToggle
      BY <2>1 DEF NoToggle
    <2>4. QED
      BY <2>1, <2>2, <2>3 DEF PressSettles, Unless
  <1>14. CASE AudioPlays
    BY <1>14 DEF AudioPlays, RoomInv, CountInv, SoundTypes, PressSettles, Unless,
       NoToggle, Id, If
  <1>15. CASE AudioFails
    <2>1. CASE toggles.starting > 0 /\ toggles' = [toggles EXCEPT !.starting = @ - 1]
               /\ UNCHANGED overlaps
      <3>1. /\ toggles'.starting = toggles.starting - 1
            /\ toggles'.playing = toggles.playing
            /\ toggles.starting \in Nat /\ toggles.playing \in Nat
            /\ UNCHANGED <<element, audioOn>>
        BY <1>15, <2>1 DEF AudioFails, RoomInv, CountInv, SoundTypes, Id
      <3>2. toggles' = NoToggle => toggles'.starting = 0 /\ toggles'.playing = 0
        BY DEF NoToggle
      <3>3. element.muted \in BOOLEAN
        BY DEF RoomInv, CountInv, SoundTypes
      <3>4. QED
        BY <2>1, <3>1, <3>2, <3>3 DEF PressSettles, Unless
    <2>2. CASE overlaps' = overlaps \cup {"playFailed"}
      BY <2>2 DEF PressSettles, Unless
    <2>3. QED
      BY <1>15, <2>1, <2>2 DEF AudioFails, Note
  <1>16. ASSUME NEW answer \in rest, RestArrives(answer) PROVE PressSettles'
    BY <1>16, SettlesKept DEF RestArrives, sound, Note
  <1>17. ASSUME NEW answer \in rest, RestFails(answer) PROVE PressSettles'
    BY <1>17, SettlesKept DEF RestFails, sound, Note
  <1>18. CASE SceneMessage
    BY <1>18, SettlesKept DEF SceneMessage, sound
  <1>19. CASE Cut
    BY <1>19, SettlesKept DEF Cut, sound
  <1>20. CASE ProgramRendered
    BY <1>20, SettlesKept DEF ProgramRendered, sound
  <1>21. CASE Greet
    BY <1>21, SettlesKept DEF Greet, sound, Note
  <1>22. CASE StudioLeaves
    BY <1>22, SettlesKept DEF StudioLeaves, sound, Note
  <1>23. CASE UNCHANGED vars
    BY <1>23, SettlesKept DEF vars, sound
  <1>24. QED
    BY <1>1, <1>2, <1>3, <1>4, <1>5, <1>6, <1>7, <1>8, <1>9, <1>10, <1>11, <1>12,
       <1>13, <1>14, <1>15, <1>16, <1>17, <1>18, <1>19, <1>20, <1>21, <1>22, <1>23
       DEF Next

\* The steps that leave the Studio, its messages and the scene alone.
LEMMA SceneKept ==
    ASSUME ProgramOnItsWay, UNCHANGED <<admitted, scene, sender>>,
           overlaps \subseteq overlaps'
    PROVE  ProgramOnItsWay'
  BY DEF ProgramOnItsWay, sender, Unless

\* What is sent last is the program, and what arrives last is drawn.
LEMMA OnItsWayNext == RoomInv /\ ProgramOnItsWay /\ [Next]_vars => ProgramOnItsWay'
  <1> SUFFICES ASSUME RoomInv, ProgramOnItsWay, [Next]_vars PROVE ProgramOnItsWay'
    OBVIOUS
  <1>1. CASE GotToken
    BY <1>1, SceneKept DEF GotToken, sender, room
  <1>2. CASE Admit
    BY <1>2 DEF Admit, RoomInv, CountInv, SceneTypes, ProgramOnItsWay, Unless, Note,
       If, page
  <1>3. CASE Watching
    BY <1>3, SceneKept DEF Watching, sender
  <1>4. CASE WatchFails
    BY <1>4 DEF WatchFails, ProgramOnItsWay, Unless
  <1>5. CASE Disconnected
    BY <1>5 DEF Disconnected, ProgramOnItsWay, Unless
  <1>6. CASE Unmount
    BY <1>6 DEF Unmount, ProgramOnItsWay, Unless, Note
  <1>7. ASSUME NEW name \in Name, Publish(name) PROVE ProgramOnItsWay'
    BY <1>7, SceneKept DEF Publish, sender, room
  <1>8. ASSUME NEW p \in published, Subscribed(p) PROVE ProgramOnItsWay'
    BY <1>8, SceneKept DEF Subscribed, sender, room, Note
  <1>9. ASSUME NEW p \in published, Unpublish(p) PROVE ProgramOnItsWay'
    BY <1>9, SceneKept DEF Unpublish, sender, room
  <1>10. ASSUME NEW p \in published, NEW flag \in BOOLEAN, Mute(p, flag)
         PROVE  ProgramOnItsWay'
    BY <1>10, SceneKept DEF Mute, sender, room
  <1>11. CASE ToggleAudioOn
    BY <1>11, SceneKept DEF ToggleAudioOn, sender, room, Note
  <1>12. CASE ToggleAudioOff
    BY <1>12, SceneKept DEF ToggleAudioOff, sender, room, Note
  <1>13. CASE AudioStarted
    BY <1>13, SceneKept DEF AudioStarted, sender, room
  <1>14. CASE AudioPlays
    BY <1>14, SceneKept DEF AudioPlays, sender, room
  <1>15. CASE AudioFails
    BY <1>15, SceneKept DEF AudioFails, sender, room, Note
  <1>16. ASSUME NEW answer \in rest, RestArrives(answer) PROVE ProgramOnItsWay'
    <2>1. /\ UNCHANGED <<admitted, greeting, wire, program>>
          /\ overlaps \subseteq overlaps'
          /\ scene.from = "studio" => "restAfterMessage" \in overlaps'
      BY <1>16 DEF RestArrives, room, sender, Note, If
    <2>2. QED
      BY <2>1 DEF ProgramOnItsWay, Unless
  <1>17. ASSUME NEW answer \in rest, RestFails(answer) PROVE ProgramOnItsWay'
    BY <1>17, SceneKept DEF RestFails, sender, room, Note
  <1>18. CASE SceneMessage
    BY <1>18 DEF SceneMessage, RoomInv, CountInv, SceneTypes, ProgramOnItsWay,
       Unless, room, page
  <1>19. CASE Cut
    BY <1>19 DEF Cut, RoomInv, CountInv, SceneTypes, ProgramOnItsWay, Unless, room,
       page
  <1>20. CASE ProgramRendered
    BY <1>20 DEF ProgramRendered, RoomInv, CountInv, SceneTypes, ProgramOnItsWay,
       Unless, room, page
  <1>21. CASE Greet
    BY <1>21 DEF Greet, RoomInv, CountInv, SceneTypes, ProgramOnItsWay, Unless,
       Note, If, room, page
  <1>22. CASE StudioLeaves
    BY <1>22 DEF StudioLeaves, RoomInv, CountInv, SceneTypes, ProgramOnItsWay,
       Unless, Note, If, room, page
  <1>23. CASE UNCHANGED vars
    BY <1>23, SceneKept DEF vars, sender, room
  <1>24. QED
    BY <1>1, <1>2, <1>3, <1>4, <1>5, <1>6, <1>7, <1>8, <1>9, <1>10, <1>11, <1>12,
       <1>13, <1>14, <1>15, <1>16, <1>17, <1>18, <1>19, <1>20, <1>21, <1>22, <1>23
       DEF Next

\* The steps that leave the answers and the scene alone.
LEMMA OwnSceneKept ==
    ASSUME OwnSceneToCome, UNCHANGED <<scene, rest>>, overlaps \subseteq overlaps'
    PROVE  OwnSceneToCome'
  BY DEF OwnSceneToCome, Unless

\* The default channel's answer is noted when it comes last.
LEMMA OwnSceneNext == RoomInv /\ OwnSceneToCome /\ [Next]_vars => OwnSceneToCome'
  <1> SUFFICES ASSUME RoomInv, OwnSceneToCome, [Next]_vars PROVE OwnSceneToCome'
    OBVIOUS
  <1>1. CASE GotToken
    BY <1>1, OwnSceneKept DEF GotToken
  <1>2. CASE Admit
    BY <1>2, OwnSceneKept DEF Admit, Note
  <1>3. CASE Watching
    BY <1>3, OwnSceneKept DEF Watching
  <1>4. CASE WatchFails
    BY <1>4, OwnSceneKept DEF WatchFails
  <1>5. CASE Disconnected
    BY <1>5, OwnSceneKept DEF Disconnected
  <1>6. CASE Unmount
    BY <1>6, OwnSceneKept DEF Unmount, Note
  <1>7. ASSUME NEW name \in Name, Publish(name) PROVE OwnSceneToCome'
    BY <1>7, OwnSceneKept DEF Publish
  <1>8. ASSUME NEW p \in published, Subscribed(p) PROVE OwnSceneToCome'
    BY <1>8, OwnSceneKept DEF Subscribed, Note
  <1>9. ASSUME NEW p \in published, Unpublish(p) PROVE OwnSceneToCome'
    BY <1>9, OwnSceneKept DEF Unpublish
  <1>10. ASSUME NEW p \in published, NEW flag \in BOOLEAN, Mute(p, flag)
         PROVE  OwnSceneToCome'
    BY <1>10, OwnSceneKept DEF Mute
  <1>11. CASE ToggleAudioOn
    BY <1>11, OwnSceneKept DEF ToggleAudioOn, Note
  <1>12. CASE ToggleAudioOff
    BY <1>12, OwnSceneKept DEF ToggleAudioOff, Note
  <1>13. CASE AudioStarted
    BY <1>13, OwnSceneKept DEF AudioStarted
  <1>14. CASE AudioPlays
    BY <1>14, OwnSceneKept DEF AudioPlays
  <1>15. CASE AudioFails
    BY <1>15, OwnSceneKept DEF AudioFails, Note
  <1>16. ASSUME NEW answer \in rest, RestArrives(answer) PROVE OwnSceneToCome'
    BY <1>16 DEF RestArrives, OwnSceneToCome, Unless, Note, If, RoomInv, CountInv,
       SceneTypes
  <1>17. ASSUME NEW answer \in rest, RestFails(answer) PROVE OwnSceneToCome'
    BY <1>17 DEF RestFails, OwnSceneToCome, Unless, Note, If, RoomInv, CountInv,
       SceneTypes
  <1>18. CASE SceneMessage
    BY <1>18 DEF SceneMessage, OwnSceneToCome, Unless, RoomInv, CountInv, SceneTypes
  <1>19. CASE Cut
    BY <1>19, OwnSceneKept DEF Cut
  <1>20. CASE ProgramRendered
    BY <1>20, OwnSceneKept DEF ProgramRendered
  <1>21. CASE Greet
    BY <1>21, OwnSceneKept DEF Greet, Note
  <1>22. CASE StudioLeaves
    BY <1>22, OwnSceneKept DEF StudioLeaves, Note
  <1>23. CASE UNCHANGED vars
    BY <1>23, OwnSceneKept DEF vars
  <1>24. QED
    BY <1>1, <1>2, <1>3, <1>4, <1>5, <1>6, <1>7, <1>8, <1>9, <1>10, <1>11, <1>12,
       <1>13, <1>14, <1>15, <1>16, <1>17, <1>18, <1>19, <1>20, <1>21, <1>22, <1>23
       DEF Next

\* The steps that leave the page and its connection alone.
LEMMA LeftKept ==
    ASSUME LeftForGood, UNCHANGED <<mounted, step, admitted>>,
           overlaps \subseteq overlaps'
    PROVE  LeftForGood'
  BY DEF LeftForGood, Unless

\* A page with a connection leaves the room when it is closed, and does not come back.
LEMMA LeftNext == RoomInv /\ LeftForGood /\ [Next]_vars => LeftForGood'
  <1> SUFFICES ASSUME RoomInv, LeftForGood, [Next]_vars PROVE LeftForGood'
    OBVIOUS
  <1>1. CASE GotToken
    BY <1>1 DEF GotToken, LeftForGood, Unless, RoomInv, CountInv, PageTypes,
       TrackInv, RoomHeld, Connected, room
  <1>2. CASE Admit
    BY <1>2 DEF Admit, LeftForGood, Unless, Note, If, RoomInv, CountInv, PageTypes,
       TrackInv, RoomHeld, Connected, page
  <1>3. CASE Watching
    BY <1>3 DEF Watching, LeftForGood, Unless, RoomInv, CountInv, PageTypes,
       TrackInv, RoomHeld, Connected
  <1>4. CASE WatchFails
    BY <1>4 DEF WatchFails, LeftForGood, Unless, RoomInv, CountInv, PageTypes,
       TrackInv, RoomHeld, Connected
  <1>5. CASE Disconnected
    BY <1>5 DEF Disconnected, LeftForGood, Unless, RoomInv, CountInv, PageTypes,
       TrackInv, RoomHeld, Connected
  <1>6. CASE Unmount
    BY <1>6 DEF Unmount, LeftForGood, Unless, Note, If, RoomInv, CountInv,
       PageTypes, TrackInv, RoomHeld, Connected
  <1>7. ASSUME NEW name \in Name, Publish(name) PROVE LeftForGood'
    BY <1>7, LeftKept DEF Publish, page, room
  <1>8. ASSUME NEW p \in published, Subscribed(p) PROVE LeftForGood'
    BY <1>8, LeftKept DEF Subscribed, page, room, Note
  <1>9. ASSUME NEW p \in published, Unpublish(p) PROVE LeftForGood'
    BY <1>9, LeftKept DEF Unpublish, page, room
  <1>10. ASSUME NEW p \in published, NEW flag \in BOOLEAN, Mute(p, flag)
         PROVE  LeftForGood'
    BY <1>10, LeftKept DEF Mute, page, room
  <1>11. CASE ToggleAudioOn
    BY <1>11, LeftKept DEF ToggleAudioOn, page, room, Note
  <1>12. CASE ToggleAudioOff
    BY <1>12, LeftKept DEF ToggleAudioOff, page, room, Note
  <1>13. CASE AudioStarted
    BY <1>13, LeftKept DEF AudioStarted, page, room
  <1>14. CASE AudioPlays
    BY <1>14, LeftKept DEF AudioPlays, page, room
  <1>15. CASE AudioFails
    BY <1>15, LeftKept DEF AudioFails, page, room, Note
  <1>16. ASSUME NEW answer \in rest, RestArrives(answer) PROVE LeftForGood'
    BY <1>16, LeftKept DEF RestArrives, page, room, Note
  <1>17. ASSUME NEW answer \in rest, RestFails(answer) PROVE LeftForGood'
    BY <1>17, LeftKept DEF RestFails, page, room, Note
  <1>18. CASE SceneMessage
    BY <1>18, LeftKept DEF SceneMessage, page, room
  <1>19. CASE Cut
    BY <1>19, LeftKept DEF Cut, page, room
  <1>20. CASE ProgramRendered
    BY <1>20, LeftKept DEF ProgramRendered, page, room
  <1>21. CASE Greet
    BY <1>21, LeftKept DEF Greet, page, room, Note
  <1>22. CASE StudioLeaves
    BY <1>22, LeftKept DEF StudioLeaves, page, room, Note
  <1>23. CASE UNCHANGED vars
    BY <1>23, LeftKept DEF vars, page, room
  <1>24. QED
    BY <1>1, <1>2, <1>3, <1>4, <1>5, <1>6, <1>7, <1>8, <1>9, <1>10, <1>11, <1>12,
       <1>13, <1>14, <1>15, <1>16, <1>17, <1>18, <1>19, <1>20, <1>21, <1>22, <1>23
       DEF Next

\* A page that was just opened awaits nothing.
LEMMA PageInit == Init => PageInv
  <1> SUFFICES ASSUME Init PROVE PageInv
    OBVIOUS
  <1> USE DEF Init
  <1>1. PressSettles
    BY DEF PressSettles, NoToggle, NoElement
  <1>2. ProgramOnItsWay
    BY DEF ProgramOnItsWay
  <1>3. OwnSceneToCome
    BY DEF OwnSceneToCome
  <1>4. LeftForGood
    BY DEF LeftForGood
  <1>5. QED
    BY <1>1, <1>2, <1>3, <1>4 DEF PageInv

\* So does what is on its way to the sound, the scene and the room.
THEOREM PageAlways == Spec => []PageInv
  <1>1. RoomInv /\ PageInv /\ [Next]_vars => PageInv'
    BY SettlesNext, OnItsWayNext, OwnSceneNext, LeftNext DEF PageInv
  <1>2. QED
    BY <1>1, PageInit, RoomAlways, PTL DEF Spec

\* Between presses the sound is what the button says, but for a press that overlaps
\* another, a new track or a play that fails.
THEOREM SoundFollowsButton == Spec => []SoundMatchesButton
  <1>1. PageInv => SoundMatchesButton
    BY DEF PageInv, PressSettles, SoundMatchesButton
  <1>2. QED
    BY <1>1, PageAlways, PTL

\* With nothing on its way a viewer that was greeted draws the Studio's program.
THEOREM ProgramSceneDrawn == Spec => []SceneIsProgram
  <1>1. RoomInv /\ PageInv => SceneIsProgram
    BY DEF RoomInv, TrackInv, RoomHeld, Connected, PageInv, ProgramOnItsWay,
       SceneIsProgram
  <1>2. QED
    BY <1>1, RoomAlways, PageAlways, PTL

\* The default channel's scene does not outlast the answer for the page's own.
THEOREM OwnSceneDrawn == Spec => []SceneIsOfChannel
  <1>1. PageInv => SceneIsOfChannel
    BY DEF PageInv, OwnSceneToCome, SceneIsOfChannel, Unless
  <1>2. QED
    BY <1>1, PageAlways, PTL

\* A page closed when no connect is pending is out of the room for good.
THEOREM RoomLeft == Spec => []NoRoomLeftOpen
  <1>1. PageInv => NoRoomLeftOpen
    BY DEF PageInv, LeftForGood, NoRoomLeftOpen
  <1>2. QED
    BY <1>1, PageAlways, PTL
=============================================================================
