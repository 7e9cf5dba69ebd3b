-------------------------- MODULE SourcePageProofs --------------------------
(***************************************************************************)
(* Theorems about SourcePage, for every number of starts and presses: the  *)
(* type invariant, what a stop lets go of, that a page which says it is    *)
(* connected is on, and that it shows what it publishes.                   *)
(***************************************************************************)
EXTENDS SourcePage, SequenceTheorems, TLAPS

\* The type invariant, in the groups that one lemma each is about.
PageTypes ==
    /\ kind \in {"camera", "microphone"} /\ mounted \in BOOLEAN
    /\ status \in {"idle", "connecting", "connected", "error"}
    /\ step \in [Start -> Step]
    /\ wanted \in BOOLEAN /\ presses \in 0..MaxPresses /\ overlaps \subseteq Overlap

RoomTypes ==
    /\ stream \in Ref /\ roomRef \in Ref /\ streams \subseteq Start
    /\ code \in [Start -> Code] /\ rooms \subseteq Start
    /\ clones \subseteq Start

CameraTypes ==
    /\ video \in Nat /\ made \in Nat /\ cameras \subseteq Track
    /\ published \in [Start -> Nat] /\ asked \in [Start -> Lens]
    /\ facing \in Lens /\ switching \in Switch

MuteTypes ==
    /\ muted \in BOOLEAN /\ silent \subseteq Start
    /\ toggles \in Seq([id: Start, to: BOOLEAN])

\* What holds whatever overlaps: each room that is up has a code of its own; the
\* room the page holds is of a start that got so far, and a camera holds none
\* without a stream; a stream the page holds is on; and while the page connects a
\* start is under way.
Held ==
    /\ \A i, j \in rooms : code[i] = code[j] => i = j
    /\ roomRef # 0 => /\ step[roomRef] \in {"publishing", "sounding", "done"}
                      /\ kind = "camera" => stream # 0
    /\ stream # 0 => stream \in streams
    /\ status = "connecting" => InFlight # {}

\* A page without a stream has no video track in it, a microphone never has one.
Video ==
    /\ stream = 0 => video = 0
    /\ kind = "microphone" => video = 0 /\ cameras = {} /\ switching = NoSwitch
    /\ switching # NoSwitch =>
        switching.id \in Start /\ step[switching.id] \in {"sounding", "done"}

\* A room the page does not hold is one under another code.
RoomHeld == Unless({"otherRoom"}) => rooms \subseteq {roomRef}

\* A clone is stopped with its room, once it has been published there.
ClonesHeld ==
    Unless({"cloneUnpublished"})
    => clones \subseteq rooms \cup {i \in Start : step[i] = "sounding"}

SourceInv ==
    /\ PageTypes /\ RoomTypes /\ CameraTypes /\ MuteTypes
    /\ Held /\ Video /\ RoomHeld /\ ClonesHeld

\* A start that a stop would not reach: it has nothing yet that the page holds.
Early == {i \in Start : \/ step[i] \in {"finding", "opening"}
                        \/ step[i] = "connecting" /\ kind = "microphone"}

\* The states of a page no stop has missed a start of: a page that neither connects
\* nor is connected holds nothing, and the one early start is what it waits for.
Reached ==
    /\ streams \subseteq {stream}
    /\ IF status \in {"connecting", "connected"}
       THEN wanted
       ELSE stream = 0 /\ roomRef = 0 /\ rooms = {} /\ Early = {}
    /\ \A i \in Early : /\ status = "connecting" /\ rooms = {} /\ roomRef = 0
                        /\ step[i] # "connecting" => stream = 0
    /\ \A i, j \in Early : i = j

Missed == {"stopBeforeStream", "otherRoom"} \cup If("stopInConnect", kind = "microphone")
ReachedInv == Unless(Missed) => Reached

\* The states of a page that is never started again during a start: one start at
\* most is under way, and the room and the stream are its own.
Alone ==
    /\ rooms \subseteq {roomRef} /\ streams \subseteq {stream}
    /\ \A i, j \in InFlight : i = j
    /\ status = "connected" => InFlight = {}
    /\ \A i \in InFlight :
        /\ stream \in {0, i} /\ roomRef \in {0, i}
        /\ step[i] \in {"finding", "opening"} => stream = 0
        /\ i \in rooms /\ kind = "camera" => stream = i
    /\ InFlight = {} /\ status # "connected" => stream = 0 /\ roomRef = 0

AloneInv == Unless({"startInStart"}) => Alone

\* That start has its stream as soon as it has its room.
OwnStream ==
    /\ kind = "microphone" =>
        \A i \in InFlight : step[i] = "connecting" \/ i \in rooms => stream = i
    /\ InFlight = {} /\ status = "connected" =>
        stream = roomRef /\ roomRef # 0 /\ rooms = {roomRef}

OwnStreamInv ==
    Unless({"roomLost", "startInStart"} \cup If("stopInConnect", kind = "microphone"))
    => OwnStream

\* The video track of the stream is the one camera that may be on, and it is the
\* one published; while a switch of the room is under way none is on.
OneCamera ==
    /\ \A c \in cameras : c.id = video
    /\ kind = "camera" /\ roomRef # 0 => published[roomRef] = video
    /\ switching # NoSwitch /\ switching.id = roomRef => cameras = {}

OneCameraInv ==
    Unless({"staleSwitch"}) /\ (Unless(Missed) \/ Unless({"startInStart"})) => OneCamera

\* It is on, apart from that.
CameraOn ==
    stream # 0 =>
        IF switching # NoSwitch /\ switching.id = roomRef
        THEN ~switching.halted
        ELSE \E c \in cameras : c.id = video

CameraOnInv ==
    kind = "camera" /\ Unless({"roomLost", "startInStart", "staleSwitch", "restoreFailed"})
    => CameraOn

\* The camera on has the side the page shows, through a start and the steps of a
\* switch.
LensFollows ==
    /\ \A i \in InFlight :
        /\ asked[i] = facing
        /\ step[i] = "connecting" /\ stream = i =>
            [id |-> video, side |-> facing] \in cameras
        /\ i \in rooms => [id |-> published[i], side |-> facing] \in cameras
    /\ IF switching = NoSwitch
       THEN status = "connected" /\ roomRef \in rooms =>
                [id |-> published[roomRef], side |-> facing] \in cameras
       ELSE /\ status = "connected" /\ switching.id = roomRef
            /\ switching.to = Other(facing)
            /\ switching.halted => roomRef \notin rooms

LensInv ==
    kind = "camera"
    /\ Unless({"switchInStart", "stopInSwitch", "restoreFailed", "startInStart"})
    => LensFollows

\* The mute, likewise; no start has been muted before it is done.
MuteFollows ==
    /\ \A i \in silent : step[i] = "done"
    /\ status = "connected" /\ roomRef \in rooms => muted = (roomRef \in silent)
    /\ \A n \in DOMAIN toggles : status = "connected" /\ toggles[n].id = roomRef

MuteInv ==
    kind = "microphone" /\ Unless({"stopInToggle", "startInStart"}) => MuteFollows

ShownInv == AloneInv /\ OwnStreamInv /\ LensInv /\ MuteInv
CameraInv == OneCameraInv /\ CameraOnInv
IInv == SourceInv /\ ReachedInv /\ ShownInv /\ CameraInv

\* How a stop leaves the starts: its caller's is done.
Ends(caller) ==
    IF caller = 0 THEN step' = step
    ELSE caller \in InFlight /\ step' = [step EXCEPT ![caller] = "done"]

\* A switch under way learns that its room ended, and nothing else of it changes.
LEMMA SwitchKept ==
    ASSUME SourceInv, NEW ended \in SUBSET rooms,
           switching' = [switching EXCEPT !.halted = @ \/ switching.id \in ended]
    PROVE  /\ switching' \in Switch /\ (switching' = NoSwitch <=> switching = NoSwitch)
           /\ switching'.id = switching.id /\ switching'.to = switching.to
           /\ switching'.step = switching.step
           /\ switching'.halted = (switching.halted \/ switching.id \in ended)
  <1>1. switching \in Switch
    BY DEF SourceInv, CameraTypes
  <1>2. 0 \notin ended
    BY SourceAssumption DEF SourceInv, RoomTypes, Start
  <1>3. /\ switching' \in Switch
        /\ switching'.id = switching.id /\ switching'.to = switching.to
        /\ switching'.step = switching.step
        /\ switching'.halted = (switching.halted \/ switching.id \in ended)
    BY <1>1 DEF Switch
  <1>4. switching = NoSwitch => switching' = NoSwitch
    <2>1. ASSUME switching = NoSwitch PROVE switching'.halted = FALSE
      BY <1>2, <1>3, <2>1 DEF NoSwitch
    <2>2. QED
      BY <1>1, <1>3, <2>1 DEF NoSwitch, Switch
  <1>5. switching' = NoSwitch => switching = NoSwitch
    <2>1. ASSUME switching # NoSwitch PROVE switching' # NoSwitch
      <3>1. switching.id # 0
        BY <2>1, SourceAssumption DEF SourceInv, Video, Start
      <3>2. NoSwitch.id = 0
        BY DEF NoSwitch
      <3>3. QED
        BY <1>3, <3>1, <3>2
    <2>2. QED
      BY <2>1
  <1>6. QED
    BY <1>3, <1>4, <1>5

\* A stop leaves nothing but what a start is still publishing, and rooms under
\* another code.
LEMMA Stopped ==
    ASSUME SourceInv, NEW next \in {"idle", "error"}, NEW caller \in Ref,
           StopSource(next, caller), Ends(caller)
    PROVE  /\ rooms' = rooms \ {roomRef} /\ roomRef' = 0
           /\ stream' = 0 /\ video' = 0 /\ streams' = streams \ {stream}
           /\ status' = next /\ muted' = FALSE
           /\ UNCHANGED <<kind, code, made, published, asked, facing, silent, toggles>>
           /\ cameras' \subseteq {c \in cameras : c.id # video}
           /\ switching' \in Switch /\ (switching' = NoSwitch <=> switching = NoSwitch)
           /\ switching'.id = switching.id
           /\ Unless({"otherRoom"})' => rooms' = {}
           /\ overlaps \subseteq overlaps'
           /\ Interrupts(InFlight \ {caller}) \subseteq overlaps'
           /\ step' \in [Start -> Step]
           /\ \A i \in Start : \/ step'[i] = step[i]
                               \/ i \in InFlight /\ i = caller /\ step'[i] = "done"
           /\ InFlight' \subseteq InFlight \ {caller}
  <1>1. /\ rooms' = rooms \ {roomRef} /\ roomRef' = 0
        /\ stream' = 0 /\ video' = 0 /\ streams' = streams \ {stream}
        /\ status' = next /\ muted' = FALSE
        /\ UNCHANGED <<kind, code, made, published, asked, facing, silent, toggles>>
        /\ cameras' \subseteq {c \in cameras : c.id # video}
    BY DEF StopSource, EndRooms
  <1>2. /\ overlaps \subseteq overlaps'
        /\ Interrupts(InFlight \ {caller}) \subseteq overlaps'
    BY DEF StopSource, Note
  <1>3. /\ step' \in [Start -> Step]
        /\ \A i \in Start : \/ step'[i] = step[i]
                            \/ i \in InFlight /\ i = caller /\ step'[i] = "done"
    BY DEF Ends, SourceInv, PageTypes, InFlight, Step
  <1>4. caller # 0 => step'[caller] = "done"
    BY DEF Ends, SourceInv, PageTypes, InFlight
  <1>5. InFlight' \subseteq InFlight \ {caller}
    BY <1>3, <1>4, SourceAssumption DEF InFlight, Start, Ref
  <1>6. Unless({"otherRoom"})' => rooms' = {}
    BY <1>1, <1>2 DEF SourceInv, RoomHeld, Unless
  <1>7. /\ switching' \in Switch /\ (switching' = NoSwitch <=> switching = NoSwitch)
        /\ switching'.id = switching.id
    <2>1. switching' = [switching EXCEPT !.halted =
                            @ \/ switching.id \in rooms \cap {roomRef}]
      BY DEF StopSource, EndRooms
    <2>2. rooms \cap {roomRef} \in SUBSET rooms
      OBVIOUS
    <2>3. QED
      BY <2>1, <2>2, SwitchKept
  <1>8. QED
    BY <1>1, <1>2, <1>3, <1>5, <1>6, <1>7

\* Each of the four stops is one.
LEMMA Stops ==
    ASSUME SourceInv, NEW caller \in Ref,
           \/ caller = 0 /\ (Stop \/ DisconnectSource \/ Unmount)
           \/ caller # 0 /\ StartFails(caller)
    PROVE  \E next \in {"idle", "error"} : StopSource(next, caller) /\ Ends(caller)
  BY DEF Stop, DisconnectSource, Unmount, StartFails, Ends

\* A stop keeps the types and what holds whatever overlaps.
LEMMA StoppedInv ==
    ASSUME SourceInv, NEW next \in {"idle", "error"}, NEW caller \in Ref,
           StopSource(next, caller), Ends(caller)
    PROVE  /\ RoomTypes' /\ CameraTypes' /\ MuteTypes'
           /\ Held' /\ Video' /\ RoomHeld' /\ ClonesHeld'
           /\ status' \in {"idle", "error"} /\ kind' = kind
           /\ step' \in [Start -> Step] /\ overlaps' \subseteq Overlap
  <1>1. RoomTypes'
    <2>1. clones' \subseteq clones
      BY DEF StopSource, EndRooms
    <2>2. /\ stream' = 0 /\ roomRef' = 0 /\ code' = code
          /\ streams' \subseteq streams /\ rooms' \subseteq rooms
      BY Stopped
    <2>3. 0 \in Ref
      BY SourceAssumption DEF Ref
    <2>4. QED
      BY <2>1, <2>2, <2>3 DEF SourceInv, RoomTypes
  <1>2. CameraTypes'
    <2>1. /\ video' = 0 /\ cameras' \subseteq cameras /\ switching' \in Switch
          /\ UNCHANGED <<made, published, asked, facing>>
      BY Stopped
    <2>2. QED
      BY <2>1 DEF SourceInv, CameraTypes
  <1>3. MuteTypes'
    BY Stopped DEF SourceInv, MuteTypes
  <1>4. Held' /\ Video'
    <2>1. Held'
      BY Stopped DEF Held, SourceInv
    <2>2. switching' # NoSwitch =>
              switching'.id \in Start /\ step'[switching'.id] \in {"sounding", "done"}
      BY Stopped DEF Video, SourceInv
    <2>3. kind' = "microphone" => video' = 0 /\ cameras' = {} /\ switching' = NoSwitch
      BY Stopped DEF Video, SourceInv
    <2>4. stream' = 0 => video' = 0
      BY Stopped
    <2>5. QED
      BY <2>1, <2>2, <2>3, <2>4 DEF Video
  <1>5. RoomHeld'
    BY Stopped DEF RoomHeld
  <1>6. ClonesHeld'
    <2>1. SUFFICES ASSUME Unless({"cloneUnpublished"})'
                   PROVE  clones' \subseteq rooms' \cup {i \in Start : step'[i] = "sounding"}
      BY DEF ClonesHeld
    <2>2. clones \subseteq rooms \cup {i \in Start : step[i] = "sounding"}
      BY <2>1 DEF StopSource, Note, Unless, SourceInv, ClonesHeld
    <2>3. ~(caller # 0 /\ step[caller] = "sounding")
      BY <2>1 DEF StopSource, Note, Unless, If
    <2>4. \A i \in Start : step[i] = "sounding" => step'[i] = "sounding"
      <3>1. \A i \in Start : i # 0
        BY SourceAssumption DEF Start
      <3>2. \A i \in Start : step'[i] = step[i] \/ i = caller
        BY Stopped
      <3>3. QED
        BY <2>3, <3>1, <3>2
    <2>5. clones' = clones \ {i \in rooms \cap {roomRef} : step[i] # "sounding"}
      BY DEF StopSource, EndRooms, ClonesIn
    <2>6. rooms' = rooms \ {roomRef} /\ rooms \subseteq Start
      BY Stopped DEF SourceInv, RoomTypes
    <2>7. QED
      BY <2>2, <2>4, <2>5, <2>6
  <1>7. overlaps' \subseteq Overlap
    BY DEF StopSource, Note, Interrupts, If, Overlap, SourceInv, PageTypes
  <1>8. QED
    BY <1>1, <1>2, <1>3, <1>4, <1>5, <1>6, <1>7, Stopped

\* So does every step.
LEMMA SourceNext ==
    ASSUME SourceInv, Next
    PROVE  SourceInv'
  <1> USE SourceAssumption DEF SourceInv
  <1>1. ASSUME Stop PROVE SourceInv'
    <2>1. 0 \in Ref
      BY DEF Ref, Start
    <2>2. PICK next \in {"idle", "error"} : StopSource(next, 0) /\ Ends(0)
      BY <1>1, <2>1, Stops DEF Start
    <2>3. /\ RoomTypes' /\ CameraTypes' /\ MuteTypes'
          /\ Held' /\ Video' /\ RoomHeld' /\ ClonesHeld'
          /\ status' \in {"idle", "error"} /\ kind' = kind
          /\ step' \in [Start -> Step] /\ overlaps' \subseteq Overlap
      BY <2>1, <2>2, StoppedInv
    <2>4. presses' \in 0..MaxPresses
      BY <1>1 DEF Stop, Press, PageTypes
    <2>5. wanted' \in BOOLEAN /\ mounted' \in BOOLEAN
      BY <1>1 DEF Stop, PageTypes
    <2>6. QED
      BY <2>3, <2>4, <2>5 DEF PageTypes
  <1>2. ASSUME DisconnectSource PROVE SourceInv'
    <2>1. 0 \in Ref
      BY DEF Ref, Start
    <2>2. PICK next \in {"idle", "error"} : StopSource(next, 0) /\ Ends(0)
      BY <1>2, <2>1, Stops DEF Start
    <2>3. /\ RoomTypes' /\ CameraTypes' /\ MuteTypes'
          /\ Held' /\ Video' /\ RoomHeld' /\ ClonesHeld'
          /\ status' \in {"idle", "error"} /\ kind' = kind
          /\ step' \in [Start -> Step] /\ overlaps' \subseteq Overlap
      BY <2>1, <2>2, StoppedInv
    <2>4. presses' \in 0..MaxPresses
      BY <1>2 DEF DisconnectSource, Press, PageTypes
    <2>5. wanted' \in BOOLEAN /\ mounted' \in BOOLEAN
      BY <1>2 DEF DisconnectSource, PageTypes
    <2>6. QED
      BY <2>3, <2>4, <2>5 DEF PageTypes
  <1>3. ASSUME Unmount PROVE SourceInv'
    <2>1. 0 \in Ref
      BY DEF Ref, Start
    <2>2. PICK next \in {"idle", "error"} : StopSource(next, 0) /\ Ends(0)
      BY <1>3, <2>1, Stops DEF Start
    <2>3. /\ RoomTypes' /\ CameraTypes' /\ MuteTypes'
          /\ Held' /\ Video' /\ RoomHeld' /\ ClonesHeld'
          /\ status' \in {"idle", "error"} /\ kind' = kind
          /\ step' \in [Start -> Step] /\ overlaps' \subseteq Overlap
      BY <2>1, <2>2, StoppedInv
    <2>4. presses' \in 0..MaxPresses
      BY <1>3 DEF Unmount, PageTypes
    <2>5. wanted' \in BOOLEAN /\ mounted' \in BOOLEAN
      BY <1>3 DEF Unmount, PageTypes
    <2>6. QED
      BY <2>3, <2>4, <2>5 DEF PageTypes
  <1>4. ASSUME NEW i \in Start, RoomLost(i) PROVE SourceInv'
    <2>0. /\ switching' \in Switch /\ (switching' = NoSwitch <=> switching = NoSwitch)
          /\ switching'.id = switching.id
      <3>1. switching' = [switching EXCEPT !.halted = @ \/ switching.id \in {i}]
        BY <1>4 DEF RoomLost, EndRooms
      <3>2. {i} \in SUBSET rooms
        BY <1>4 DEF RoomLost, Replaced
      <3>3. QED
        BY <3>1, <3>2, SwitchKept
    <2>1. PageTypes'
      BY <1>4, <2>0 DEF RoomLost, PageTypes, Step, Note, Overlap, Press, page, refs,
         camera, mute, EndRooms, Replaced
    <2>2. RoomTypes'
      BY <1>4, <2>0 DEF RoomLost, RoomTypes, Ref, Start, EndRooms, ClonesIn, page,
         refs, mute, Replaced
    <2>3. CameraTypes'
      BY <1>4, <2>0 DEF RoomLost, CameraTypes, Track, Id, Lens, Switch, NoSwitch,
         RoomTypes, PageTypes, page, refs, camera, mute, EndRooms, Replaced
    <2>4. MuteTypes'
      BY <1>4, <2>0 DEF RoomLost, MuteTypes, page, refs, mute, EndRooms, Replaced
    <2>5. Held'
      BY <1>4, <2>0 DEF RoomLost, Held, InFlight, PageTypes, RoomTypes, Start, Ref,
         Step, page, refs, camera, mute, EndRooms, Replaced
    <2>6. Video'
      BY <1>4, <2>0 DEF RoomLost, Video, RoomTypes, Start, page, refs, mute,
         EndRooms, Replaced
    <2>7. RoomHeld'
      BY <1>4, <2>0 DEF RoomLost, RoomHeld, Unless, Note, page, refs, mute,
         EndRooms, Replaced
    <2>8. ClonesHeld'
      BY <1>4, <2>0 DEF RoomLost, ClonesHeld, Unless, Note, ClonesIn, PageTypes,
         RoomTypes, EndRooms, page, refs, camera, mute, Replaced
    <2>9. QED
      BY <2>1, <2>2, <2>3, <2>4, <2>5, <2>6, <2>7, <2>8
  <1>5. ASSUME NEW i \in Start, StartSource(i) PROVE SourceInv'
    <2>1. PageTypes'
      BY <1>5 DEF StartSource, PageTypes, Step, Note, If, Overlap, page, refs,
         devices, network, camera, mute
    <2>2. RoomTypes'
      BY <1>5 DEF StartSource, RoomTypes, Ref, Start, If, page, refs, devices,
         network, mute
    <2>3. CameraTypes'
      BY <1>5 DEF StartSource, CameraTypes, Track, Id, Lens, Switch, NoSwitch,
         RoomTypes, PageTypes, page, refs, devices, network, camera, mute
    <2>4. MuteTypes'
      BY <1>5 DEF StartSource, MuteTypes, page, refs, devices, network, mute
    <2>5. Held'
      BY <1>5 DEF StartSource, Held, InFlight, PageTypes, RoomTypes, Start, Ref,
         Step, page, refs, devices, network, camera, mute
    <2>6. Video'
      BY <1>5 DEF StartSource, Video, RoomTypes, Start, page, refs, devices,
         network, mute
    <2>7. RoomHeld'
      BY <1>5 DEF StartSource, RoomHeld, Unless, Note, If, page, refs, devices,
         network, mute
    <2>8. ClonesHeld'
      BY <1>5 DEF StartSource, ClonesHeld, Unless, Note, If, PageTypes, RoomTypes,
         page, refs, devices, network, camera, mute
    <2>9. QED
      BY <2>1, <2>2, <2>3, <2>4, <2>5, <2>6, <2>7, <2>8
  <1>6. ASSUME NEW i \in Start, RoomFound(i) PROVE SourceInv'
    <2>1. PageTypes'
      BY <1>6 DEF RoomFound, PageTypes, Step, Overlap, page, refs, devices, network,
         camera, mute
    <2>2. RoomTypes'
      BY <1>6 DEF RoomFound, RoomTypes, Ref, Start, page, refs, devices, network,
         camera, mute
    <2>3. CameraTypes'
      BY <1>6 DEF RoomFound, CameraTypes, Track, Id, Lens, Switch, NoSwitch,
         RoomTypes, PageTypes, page, refs, devices, network, camera, mute
    <2>4. MuteTypes'
      BY <1>6 DEF RoomFound, MuteTypes, page, refs, devices, network, camera, mute
    <2>5. Held'
      BY <1>6 DEF RoomFound, Held, InFlight, PageTypes, RoomTypes, Start, Ref, Step,
         page, refs, devices, network, camera, mute
    <2>6. Video'
      BY <1>6 DEF RoomFound, Video, RoomTypes, Start, page, refs, devices, network,
         camera, mute
    <2>7. RoomHeld'
      BY <1>6 DEF RoomFound, RoomHeld, Unless, page, refs, devices, network, camera,
         mute
    <2>8. ClonesHeld'
      BY <1>6 DEF RoomFound, ClonesHeld, Unless, PageTypes, RoomTypes, page, refs,
         devices, network, camera, mute
    <2>9. QED
      BY <2>1, <2>2, <2>3, <2>4, <2>5, <2>6, <2>7, <2>8
  <1>7. ASSUME NEW i \in Start, StreamOpened(i) PROVE SourceInv'
    <2>1. PageTypes'
      BY <1>7 DEF StreamOpened, PageTypes, Step, Overlap, page, network, camera,
         mute, OpenVideo
    <2>2. RoomTypes'
      BY <1>7 DEF StreamOpened, RoomTypes, Ref, Start, page, network, camera, mute,
         OpenVideo
    <2>3. CameraTypes'
      BY <1>7 DEF StreamOpened, CameraTypes, Track, Id, Lens, Switch, NoSwitch,
         RoomTypes, PageTypes, page, network, camera, mute, OpenVideo
    <2>4. MuteTypes'
      BY <1>7 DEF StreamOpened, MuteTypes, page, network, camera, mute, OpenVideo
    <2>5. Held'
      BY <1>7 DEF StreamOpened, Held, InFlight, PageTypes, RoomTypes, Start, Ref,
         Step, page, network, camera, mute, OpenVideo
    <2>6. Video'
      BY <1>7 DEF StreamOpened, Video, RoomTypes, Start, page, network, camera,
         mute, OpenVideo
    <2>7. RoomHeld'
      BY <1>7 DEF StreamOpened, RoomHeld, Unless, page, network, camera, mute,
         OpenVideo
    <2>8. ClonesHeld'
      BY <1>7 DEF StreamOpened, ClonesHeld, Unless, PageTypes, RoomTypes, page,
         network, camera, mute, OpenVideo
    <2>9. QED
      BY <2>1, <2>2, <2>3, <2>4, <2>5, <2>6, <2>7, <2>8
  <1>8. ASSUME NEW i \in Start, RoomConnected(i) PROVE SourceInv'
    <2>0. /\ switching' \in Switch /\ (switching' = NoSwitch <=> switching = NoSwitch)
          /\ switching'.id = switching.id
      <3>1. switching' = [switching EXCEPT !.halted = @ \/ switching.id \in Replaced(i)]
        BY <1>8 DEF RoomConnected
      <3>2. Replaced(i) \in SUBSET rooms
        BY <1>8 DEF RoomConnected, Replaced
      <3>3. QED
        BY <3>1, <3>2, SwitchKept
    <2>1. PageTypes'
      BY <1>8, <2>0 DEF RoomConnected, PageTypes, Step, Note, If, Overlap, page,
         camera, mute, Replaced
    <2>2. RoomTypes'
      BY <1>8, <2>0 DEF RoomConnected, RoomTypes, Ref, Start, If, ClonesIn, page,
         camera, mute, Replaced
    <2>3. CameraTypes'
      BY <1>8, <2>0 DEF RoomConnected, CameraTypes, Track, Id, Lens, Switch,
         NoSwitch, RoomTypes, PageTypes, page, camera, mute, Replaced
    <2>4. MuteTypes'
      BY <1>8, <2>0 DEF RoomConnected, MuteTypes, page, camera, mute, Replaced
    <2>5. Held'
      BY <1>8, <2>0 DEF RoomConnected, Held, InFlight, PageTypes, RoomTypes, Start,
         Ref, Step, page, camera, mute, Replaced
    <2>6. Video'
      BY <1>8, <2>0 DEF RoomConnected, Video, RoomTypes, Start, page, camera, mute,
         Replaced
    <2>7. RoomHeld'
      BY <1>8, <2>0 DEF RoomConnected, RoomHeld, Unless, Note, If, page, camera,
         mute, Replaced
    <2>8. ClonesHeld'
      BY <1>8, <2>0 DEF RoomConnected, ClonesHeld, Unless, Note, If, ClonesIn,
         PageTypes, RoomTypes, page, camera, mute, Replaced
    <2>9. QED
      BY <2>1, <2>2, <2>3, <2>4, <2>5, <2>6, <2>7, <2>8
  <1>9. ASSUME NEW i \in Start, RoomConnectedInVain(i) PROVE SourceInv'
    <2>0. /\ switching' \in Switch /\ (switching' = NoSwitch <=> switching = NoSwitch)
          /\ switching'.id = switching.id
      <3>1. switching' = [switching EXCEPT !.halted = @ \/ switching.id \in Replaced(i)]
        BY <1>9 DEF RoomConnectedInVain, EndRooms
      <3>2. Replaced(i) \in SUBSET rooms
        BY <1>9 DEF RoomConnectedInVain, Replaced
      <3>3. QED
        BY <3>1, <3>2, SwitchKept
    <2>1. PageTypes'
      BY <1>9, <2>0 DEF RoomConnectedInVain, PageTypes, Step, Note, If, Overlap,
         Interrupts, page, camera, EndRooms, Replaced
    <2>2. RoomTypes'
      BY <1>9, <2>0 DEF RoomConnectedInVain, RoomTypes, Ref, Start, If, EndRooms,
         ClonesIn, page, camera, Replaced
    <2>3. CameraTypes'
      BY <1>9, <2>0 DEF RoomConnectedInVain, CameraTypes, Track, Id, Lens, Switch,
         NoSwitch, RoomTypes, PageTypes, page, camera, EndRooms, Replaced
    <2>4. MuteTypes'
      BY <1>9, <2>0 DEF RoomConnectedInVain, MuteTypes, page, camera, EndRooms,
         Replaced
    <2>5. Held'
      BY <1>9, <2>0 DEF RoomConnectedInVain, Held, InFlight, PageTypes, RoomTypes,
         Start, Ref, Step, page, camera, EndRooms, Replaced
    <2>6. Video'
      BY <1>9, <2>0 DEF RoomConnectedInVain, Video, RoomTypes, Start, page, camera,
         EndRooms, Replaced
    <2>7. RoomHeld'
      BY <1>9, <2>0 DEF RoomConnectedInVain, RoomHeld, Unless, Note, If, page,
         camera, EndRooms, Replaced
    <2>8. ClonesHeld'
      BY <1>9, <2>0 DEF RoomConnectedInVain, ClonesHeld, Unless, Note, If, ClonesIn,
         PageTypes, RoomTypes, EndRooms, page, camera, Replaced
    <2>9. QED
      BY <2>1, <2>2, <2>3, <2>4, <2>5, <2>6, <2>7, <2>8
  <1>10. ASSUME NEW i \in Start, VideoPublished(i) PROVE SourceInv'
    <2>1. PageTypes'
      BY <1>10 DEF VideoPublished, PageTypes, Step, Overlap, page, refs, network,
         camera, mute
    <2>2. RoomTypes'
      BY <1>10 DEF VideoPublished, RoomTypes, Ref, Start, page, refs, network,
         camera, mute
    <2>3. CameraTypes'
      BY <1>10 DEF VideoPublished, CameraTypes, Track, Id, Lens, Switch, NoSwitch,
         RoomTypes, PageTypes, page, refs, network, camera, mute
    <2>4. MuteTypes'
      BY <1>10 DEF VideoPublished, MuteTypes, page, refs, network, camera, mute
    <2>5. Held'
      BY <1>10 DEF VideoPublished, Held, InFlight, PageTypes, RoomTypes, Start, Ref,
         Step, page, refs, network, camera, mute
    <2>6. Video'
      BY <1>10 DEF VideoPublished, Video, RoomTypes, Start, page, refs, network,
         camera, mute
    <2>7. RoomHeld'
      BY <1>10 DEF VideoPublished, RoomHeld, Unless, page, refs, network, camera,
         mute
    <2>8. ClonesHeld'
      BY <1>10 DEF VideoPublished, ClonesHeld, Unless, PageTypes, RoomTypes, page,
         refs, network, camera, mute
    <2>9. QED
      BY <2>1, <2>2, <2>3, <2>4, <2>5, <2>6, <2>7, <2>8
  <1>11. ASSUME NEW i \in Start, AudioPublished(i) PROVE SourceInv'
    <2>1. PageTypes'
      BY <1>11 DEF AudioPublished, PageTypes, Step, Overlap, page, refs, devices,
         network, camera
    <2>2. RoomTypes'
      BY <1>11 DEF AudioPublished, RoomTypes, Ref, Start, page, refs, devices,
         network, camera
    <2>3. CameraTypes'
      BY <1>11 DEF AudioPublished, CameraTypes, Track, Id, Lens, Switch, NoSwitch,
         RoomTypes, PageTypes, page, refs, devices, network, camera
    <2>4. MuteTypes'
      BY <1>11 DEF AudioPublished, MuteTypes, page, refs, devices, network, camera
    <2>5. Held'
      BY <1>11 DEF AudioPublished, Held, InFlight, PageTypes, RoomTypes, Start, Ref,
         Step, page, refs, devices, network, camera
    <2>6. Video'
      BY <1>11 DEF AudioPublished, Video, RoomTypes, Start, page, refs, devices,
         network, camera
    <2>7. RoomHeld'
      BY <1>11 DEF AudioPublished, RoomHeld, Unless, page, refs, devices, network,
         camera
    <2>8. ClonesHeld'
      BY <1>11 DEF AudioPublished, ClonesHeld, Unless, PageTypes, RoomTypes, page,
         refs, devices, network, camera
    <2>9. QED
      BY <2>1, <2>2, <2>3, <2>4, <2>5, <2>6, <2>7, <2>8
  <1>12. ASSUME NEW i \in Start, StartFails(i) PROVE SourceInv'
    <2>1. i \in Ref
      BY DEF Ref, Start
    <2>2. PICK next \in {"idle", "error"} : StopSource(next, i) /\ Ends(i)
      BY <1>12, <2>1, Stops DEF Start
    <2>3. /\ RoomTypes' /\ CameraTypes' /\ MuteTypes'
          /\ Held' /\ Video' /\ RoomHeld' /\ ClonesHeld'
          /\ status' \in {"idle", "error"} /\ kind' = kind
          /\ step' \in [Start -> Step] /\ overlaps' \subseteq Overlap
      BY <2>1, <2>2, StoppedInv
    <2>4. presses' \in 0..MaxPresses
      BY <1>12 DEF StartFails, Press, PageTypes
    <2>5. wanted' \in BOOLEAN /\ mounted' \in BOOLEAN
      BY <1>12 DEF StartFails, PageTypes
    <2>6. QED
      BY <2>3, <2>4, <2>5 DEF PageTypes
  <1>13. ASSUME FlipFacing PROVE SourceInv'
    <2>1. PageTypes'
      BY <1>13 DEF FlipFacing, PageTypes, Step, Note, Overlap, Press, page, refs,
         devices, network, camera, mute
    <2>2. RoomTypes'
      BY <1>13 DEF FlipFacing, RoomTypes, Ref, Start, page, refs, devices, network,
         camera, mute
    <2>3. CameraTypes'
      BY <1>13 DEF FlipFacing, CameraTypes, Track, Id, Lens, Other, Switch,
         NoSwitch, RoomTypes, PageTypes, page, refs, devices, network, camera, mute
    <2>4. MuteTypes'
      BY <1>13 DEF FlipFacing, MuteTypes, page, refs, devices, network, camera, mute
    <2>5. Held'
      BY <1>13 DEF FlipFacing, Held, InFlight, PageTypes, RoomTypes, Start, Ref,
         Step, page, refs, devices, network, camera, mute
    <2>6. Video'
      BY <1>13 DEF FlipFacing, Video, RoomTypes, Start, page, refs, devices,
         network, camera, mute
    <2>7. RoomHeld'
      BY <1>13 DEF FlipFacing, RoomHeld, Unless, Note, page, refs, devices, network,
         camera, mute
    <2>8. ClonesHeld'
      BY <1>13 DEF FlipFacing, ClonesHeld, Unless, Note, PageTypes, RoomTypes, page,
         refs, devices, network, camera, mute
    <2>9. QED
      BY <2>1, <2>2, <2>3, <2>4, <2>5, <2>6, <2>7, <2>8
  <1>14. ASSUME SwitchCamera PROVE SourceInv'
    <2>1. PageTypes'
      BY <1>14 DEF SwitchCamera, PageTypes, Step, Overlap, Press, page, refs,
         network, camera, mute
    <2>2. RoomTypes'
      BY <1>14 DEF SwitchCamera, RoomTypes, Ref, Start, page, refs, network, camera,
         mute
    <2>3. CameraTypes'
      BY <1>14 DEF SwitchCamera, CameraTypes, Track, Id, Lens, Other, Switch,
         NoSwitch, RoomTypes, PageTypes, page, refs, network, camera, mute
    <2>4. MuteTypes'
      BY <1>14 DEF SwitchCamera, MuteTypes, page, refs, network, camera, mute
    <2>5. Held'
      BY <1>14 DEF SwitchCamera, Held, InFlight, PageTypes, RoomTypes, Start, Ref,
         Step, page, refs, network, camera, mute
    <2>6. Video'
      BY <1>14 DEF SwitchCamera, Video, RoomTypes, Start, page, refs, network,
         camera, mute
    <2>7. RoomHeld'
      BY <1>14 DEF SwitchCamera, RoomHeld, Unless, page, refs, network, camera, mute
    <2>8. ClonesHeld'
      BY <1>14 DEF SwitchCamera, ClonesHeld, Unless, PageTypes, RoomTypes, page,
         refs, network, camera, mute
    <2>9. QED
      BY <2>1, <2>2, <2>3, <2>4, <2>5, <2>6, <2>7, <2>8
  <1>15. ASSUME Restarted PROVE SourceInv'
    <2>1. PageTypes'
      BY <1>15 DEF Restarted, PageTypes, Step, Note, If, Overlap, page, network,
         camera, mute
    <2>2. RoomTypes'
      BY <1>15 DEF Restarted, RoomTypes, Ref, Start, If, page, network, mute
    <2>3. CameraTypes'
      <3>1. switching \in Switch /\ Side \in Lens
        BY DEF CameraTypes, Switch, Lens, Side, Other
      <3>2. [id |-> made + 1, side |-> Side] \in Track
        BY <3>1 DEF CameraTypes, Track, Id
      <3>3. cameras' \subseteq Track
        BY <1>15, <3>2 DEF Restarted, CameraTypes, If
      <3>4. video' \in Nat /\ made' \in Nat
        BY <1>15 DEF Restarted, CameraTypes
      <3>8. published' = [published EXCEPT ![switching.id] = made + 1] /\ made + 1 \in Nat
        BY <1>15 DEF Restarted, CameraTypes
      <3>9. published' \in [Start -> Nat]
        BY <3>8 DEF CameraTypes
      <3>5. facing' \in Lens /\ asked' \in [Start -> Lens]
        BY <1>15, <3>1 DEF Restarted, CameraTypes
      <3>6. switching' \in Switch
        BY <1>15 DEF Restarted, NoSwitch, Switch, Ref, Lens
      <3>7. QED
        BY <3>3, <3>4, <3>5, <3>6, <3>9 DEF CameraTypes
    <2>4. MuteTypes'
      BY <1>15 DEF Restarted, MuteTypes, page, network, mute
    <2>5. Held'
      BY <1>15 DEF Restarted, Held, InFlight, PageTypes, RoomTypes, Start, Ref,
         Step, page, network, camera, mute
    <2>6. Video'
      BY <1>15 DEF Restarted, Video, RoomTypes, Start, page, network, mute
    <2>7. RoomHeld'
      BY <1>15 DEF Restarted, RoomHeld, Unless, Note, If, page, network, mute
    <2>8. ClonesHeld'
      BY <1>15 DEF Restarted, ClonesHeld, Unless, Note, If, PageTypes, RoomTypes,
         page, network, camera, mute
    <2>9. QED
      BY <2>1, <2>2, <2>3, <2>4, <2>5, <2>6, <2>7, <2>8
  <1>16. ASSUME RestartFails PROVE SourceInv'
    <2>1. PageTypes'
      BY <1>16 DEF RestartFails, PageTypes, Step, Note, Overlap, Press, page, refs,
         devices, network, camera, mute
    <2>2. RoomTypes'
      BY <1>16 DEF RestartFails, RoomTypes, Ref, Start, page, refs, devices,
         network, mute
    <2>3. CameraTypes'
      <3>1. switching' \in Switch
        <4>1. NoSwitch \in Switch
          BY DEF NoSwitch, Switch, Ref, Lens
        <4>2. [switching EXCEPT !.step = "restore", !.halted = FALSE] \in Switch
          BY DEF CameraTypes, Switch
        <4>3. QED
          BY <1>16, <4>1, <4>2 DEF RestartFails
      <3>2. QED
        BY <1>16, <3>1 DEF RestartFails, CameraTypes, refs, devices
    <2>4. MuteTypes'
      BY <1>16 DEF RestartFails, MuteTypes, page, refs, devices, network, mute
    <2>5. Held'
      BY <1>16 DEF RestartFails, Held, InFlight, PageTypes, RoomTypes, Start, Ref,
         Step, page, refs, devices, network, camera, mute
    <2>6. Video'
      <3>1. switching # NoSwitch /\ switching \in Switch
        BY <1>16 DEF RestartFails, CameraTypes
      <3>2. switching' = NoSwitch \/ switching'.id = switching.id
        BY <1>16, <3>1 DEF RestartFails, Switch
      <3>3. QED
        BY <1>16, <3>1, <3>2 DEF RestartFails, Video, page, refs, devices
    <2>7. RoomHeld'
      BY <1>16 DEF RestartFails, RoomHeld, Unless, Note, page, refs, devices,
         network, mute
    <2>8. ClonesHeld'
      BY <1>16 DEF RestartFails, ClonesHeld, Unless, Note, PageTypes, RoomTypes,
         page, refs, devices, network, camera, mute
    <2>9. QED
      BY <2>1, <2>2, <2>3, <2>4, <2>5, <2>6, <2>7, <2>8
  <1>17. ASSUME ToggleMute PROVE SourceInv'
    <2>1. PageTypes'
      BY <1>17 DEF ToggleMute, PageTypes, Step, Overlap, Press, page, refs, devices,
         network, camera
    <2>2. RoomTypes'
      BY <1>17 DEF ToggleMute, RoomTypes, Ref, Start, page, refs, devices, network,
         camera
    <2>3. CameraTypes'
      BY <1>17 DEF ToggleMute, CameraTypes, Track, Id, Lens, Switch, NoSwitch,
         RoomTypes, PageTypes, page, refs, devices, network, camera
    <2>4. MuteTypes'
      <3>1. /\ roomRef \in Start
            /\ toggles' = Append(toggles, [id |-> roomRef, to |-> ~muted])
            /\ UNCHANGED <<muted, silent>>
        BY <1>17 DEF ToggleMute, RoomTypes
      <3>2. [id |-> roomRef, to |-> ~muted] \in [id: Start, to: BOOLEAN]
        BY <3>1 DEF MuteTypes
      <3>3. QED
        BY <3>1, <3>2 DEF MuteTypes
    <2>5. Held'
      BY <1>17 DEF ToggleMute, Held, InFlight, PageTypes, RoomTypes, Start, Ref,
         Step, page, refs, devices, network, camera
    <2>6. Video'
      BY <1>17 DEF ToggleMute, Video, RoomTypes, Start, page, refs, devices,
         network, camera
    <2>7. RoomHeld'
      BY <1>17 DEF ToggleMute, RoomHeld, Unless, page, refs, devices, network,
         camera
    <2>8. ClonesHeld'
      BY <1>17 DEF ToggleMute, ClonesHeld, Unless, PageTypes, RoomTypes, page, refs,
         devices, network, camera
    <2>9. QED
      BY <2>1, <2>2, <2>3, <2>4, <2>5, <2>6, <2>7, <2>8
  <1>18. ASSUME Toggled PROVE SourceInv'
    <2>1. PageTypes'
      BY <1>18 DEF Toggled, PageTypes, Step, Overlap, page, refs, devices, network,
         camera
    <2>2. RoomTypes'
      BY <1>18 DEF Toggled, RoomTypes, Ref, Start, page, refs, devices, network,
         camera
    <2>3. CameraTypes'
      BY <1>18 DEF Toggled, CameraTypes, Track, Id, Lens, Switch, NoSwitch,
         RoomTypes, PageTypes, page, refs, devices, network, camera
    <2>4. MuteTypes'
      <3>1. toggles # <<>> /\ toggles \in Seq([id: Start, to: BOOLEAN])
        BY <1>18 DEF Toggled, MuteTypes
      <3>2. /\ Head(toggles) \in [id: Start, to: BOOLEAN]
            /\ Tail(toggles) \in Seq([id: Start, to: BOOLEAN])
        BY <3>1, HeadTailProperties
      <3>3. Head(toggles).id \in Start /\ Head(toggles).to \in BOOLEAN
        BY <3>2
      <3>4. silent' \subseteq Start
        BY <1>18, <3>3 DEF Toggled, MuteTypes
      <3>5. muted' \in BOOLEAN
        BY <1>18, <3>3 DEF Toggled
      <3>6. QED
        BY <1>18, <3>2, <3>4, <3>5 DEF Toggled, MuteTypes
    <2>5. Held'
      BY <1>18 DEF Toggled, Held, InFlight, PageTypes, RoomTypes, Start, Ref, Step,
         page, refs, devices, network, camera
    <2>6. Video'
      BY <1>18 DEF Toggled, Video, RoomTypes, Start, page, refs, devices, network,
         camera
    <2>7. RoomHeld'
      BY <1>18 DEF Toggled, RoomHeld, Unless, page, refs, devices, network, camera
    <2>8. ClonesHeld'
      BY <1>18 DEF Toggled, ClonesHeld, Unless, PageTypes, RoomTypes, page, refs,
         devices, network, camera
    <2>9. QED
      BY <2>1, <2>2, <2>3, <2>4, <2>5, <2>6, <2>7, <2>8
  <1>19. QED
    BY <1>1, <1>2, <1>3, <1>4, <1>5, <1>6, <1>7, <1>8, <1>9, <1>10, <1>11, <1>12,
       <1>13, <1>14, <1>15, <1>16, <1>17, <1>18 DEF Next

\* The kind of a page never changes, and an overlap that was met stays noted.
LEMMA Grows ==
    ASSUME SourceInv, Next
    PROVE  kind' = kind /\ overlaps \subseteq overlaps'
  <1>1. ASSUME Stop PROVE kind' = kind /\ overlaps \subseteq overlaps'
    BY <1>1 DEF Stop, StopSource, Note, page
  <1>2. ASSUME DisconnectSource PROVE kind' = kind /\ overlaps \subseteq overlaps'
    BY <1>2 DEF DisconnectSource, StopSource, Note, page
  <1>3. ASSUME Unmount PROVE kind' = kind /\ overlaps \subseteq overlaps'
    BY <1>3 DEF Unmount, StopSource, Note, page
  <1>4. ASSUME NEW i \in Start, RoomLost(i)
        PROVE  kind' = kind /\ overlaps \subseteq overlaps'
    BY <1>4 DEF RoomLost, Note, page, refs, mute
  <1>5. ASSUME NEW i \in Start, StartSource(i)
        PROVE  kind' = kind /\ overlaps \subseteq overlaps'
    BY <1>5 DEF StartSource, Note, page, refs, devices, network, mute
  <1>6. ASSUME NEW i \in Start, RoomFound(i)
        PROVE  kind' = kind /\ overlaps \subseteq overlaps'
    BY <1>6 DEF RoomFound, page, refs, devices, network, camera, mute
  <1>7. ASSUME NEW i \in Start, StreamOpened(i)
        PROVE  kind' = kind /\ overlaps \subseteq overlaps'
    BY <1>7 DEF StreamOpened, page, network, camera, mute
  <1>8. ASSUME NEW i \in Start, RoomConnected(i)
        PROVE  kind' = kind /\ overlaps \subseteq overlaps'
    BY <1>8 DEF RoomConnected, Note, page, camera, mute
  <1>9. ASSUME NEW i \in Start, RoomConnectedInVain(i)
        PROVE  kind' = kind /\ overlaps \subseteq overlaps'
    BY <1>9 DEF RoomConnectedInVain, Note, page, camera
  <1>10. ASSUME NEW i \in Start, VideoPublished(i)
         PROVE  kind' = kind /\ overlaps \subseteq overlaps'
    BY <1>10 DEF VideoPublished, page, refs, network, camera, mute
  <1>11. ASSUME NEW i \in Start, AudioPublished(i)
         PROVE  kind' = kind /\ overlaps \subseteq overlaps'
    BY <1>11 DEF AudioPublished, page, refs, devices, network, camera
  <1>12. ASSUME NEW i \in Start, StartFails(i)
         PROVE  kind' = kind /\ overlaps \subseteq overlaps'
    BY <1>12 DEF StartFails, StopSource, Note, page
  <1>13. ASSUME FlipFacing PROVE kind' = kind /\ overlaps \subseteq overlaps'
    BY <1>13 DEF FlipFacing, Note, page, refs, devices, network, camera, mute
  <1>14. ASSUME SwitchCamera PROVE kind' = kind /\ overlaps \subseteq overlaps'
    BY <1>14 DEF SwitchCamera, page, refs, network, camera, mute
  <1>15. ASSUME Restarted PROVE kind' = kind /\ overlaps \subseteq overlaps'
    BY <1>15 DEF Restarted, Note, page, network, mute
  <1>16. ASSUME RestartFails PROVE kind' = kind /\ overlaps \subseteq overlaps'
    BY <1>16 DEF RestartFails, Note, page, refs, devices, network, mute
  <1>17. ASSUME ToggleMute PROVE kind' = kind /\ overlaps \subseteq overlaps'
    BY <1>17 DEF ToggleMute, page, refs, devices, network, camera
  <1>18. ASSUME Toggled PROVE kind' = kind /\ overlaps \subseteq overlaps'
    BY <1>18 DEF Toggled, page, refs, devices, network, camera
  <1>19. QED
    BY <1>1, <1>2, <1>3, <1>4, <1>5, <1>6, <1>7, <1>8, <1>9, <1>10, <1>11, <1>12,
       <1>13, <1>14, <1>15, <1>16, <1>17, <1>18 DEF Next

\* A stop that no start is missed by leaves a page that holds nothing.
LEMMA StoppedReached ==
    ASSUME SourceInv, Reached, NEW next \in {"idle", "error"}, NEW caller \in Ref,
           StopSource(next, caller), Ends(caller), Unless(Missed)'
    PROVE  Reached'
  <1>1. Early \subseteq {caller}
    <2>1. ASSUME NEW i \in Early, i # caller PROVE FALSE
      <3>1. i \in InFlight \ {caller}
        BY <2>1 DEF Early, InFlight
      <3>2. /\ "stopBeforeStream" \notin overlaps'
            /\ (kind = "microphone" => "stopInConnect" \notin overlaps')
        BY Stopped DEF Unless, Missed, If
      <3>3. /\ "stopBeforeStream" \notin Interrupts(InFlight \ {caller})
            /\ (kind = "microphone" =>
                    "stopInConnect" \notin Interrupts(InFlight \ {caller}))
        BY <3>2, Stopped
      <3>4. step[i] \notin {"finding",
                 "opening"} /\ (kind = "microphone" => step[i] # "connecting")
        BY <3>1, <3>3 DEF Interrupts, If
      <3>5. QED
        BY <2>1, <3>4 DEF Early
    <2>2. QED
      BY <2>1
  <1>2. Early' = {}
    <2>1. ASSUME NEW i \in Early' PROVE FALSE
      <3>1. i \in Start /\ i \in Early
        BY <2>1, Stopped DEF Early
      <3>2. i = caller
        BY <3>1, <1>1
      <3>3. i \notin InFlight'
        BY <3>2, Stopped
      <3>4. QED
        BY <2>1, <3>3 DEF Early, InFlight
    <2>2. QED
      BY <2>1
  <1>3. streams' = {}
    BY Stopped DEF Reached
  <1>4. rooms' = {}
    BY Stopped DEF Unless, Missed
  <1>5. QED
    BY <1>2, <1>3, <1>4, Stopped DEF Reached

\* Every step that notes no missed start leaves every start in reach of a stop.
LEMMA ReachedStep ==
    ASSUME SourceInv, Reached, Next, Unless(Missed)'
    PROVE  Reached'
  <1> USE DEF Reached
  <1>1. ASSUME Stop PROVE Reached'
    <2>1. PICK next \in {"idle", "error"} : StopSource(next, 0) /\ Ends(0)
      BY <1>1, Stops, SourceAssumption DEF Start, Ref
    <2>2. QED
      BY <2>1, StoppedReached, SourceAssumption DEF Start, Ref
  <1>2. ASSUME DisconnectSource PROVE Reached'
    <2>1. PICK next \in {"idle", "error"} : StopSource(next, 0) /\ Ends(0)
      BY <1>2, Stops, SourceAssumption DEF Start, Ref
    <2>2. QED
      BY <2>1, StoppedReached, SourceAssumption DEF Start, Ref
  <1>3. ASSUME Unmount PROVE Reached'
    <2>1. PICK next \in {"idle", "error"} : StopSource(next, 0) /\ Ends(0)
      BY <1>3, Stops, SourceAssumption DEF Start, Ref
    <2>2. QED
      BY <2>1, StoppedReached, SourceAssumption DEF Start, Ref
  <1>4. ASSUME NEW i \in Start, RoomLost(i) PROVE Reached'
    <2>1. /\ UNCHANGED <<status, wanted, kind, step, stream, roomRef, streams>>
          /\ rooms' \subseteq rooms
      BY <1>4 DEF RoomLost, EndRooms, page, refs
    <2>2. QED
      BY <2>1 DEF Early
  <1>5. ASSUME NEW i \in Start, StartSource(i) PROVE Reached'
    <2>1. /\ status \notin {"connecting", "connected"} /\ status' = "connecting"
          /\ wanted'
          /\ UNCHANGED <<kind, stream, roomRef, streams, rooms>>
          /\ step' = [step EXCEPT ![i] = "finding"]
      BY <1>5 DEF StartSource, page, refs, devices, network, camera, mute,
         SourceInv, PageTypes, RoomTypes
    <2>2. Early' = {i}
      BY <2>1 DEF Early, SourceInv, PageTypes
    <2>3. QED
      BY <2>1, <2>2
  <1>6. ASSUME NEW i \in Start, RoomFound(i) PROVE Reached'
    <2>1. /\ step[i] = "finding" /\ step' = [step EXCEPT ![i] = "opening"]
          /\ UNCHANGED <<kind, status, wanted, stream, roomRef, streams, rooms>>
      BY <1>6 DEF RoomFound, page, refs, devices, network, camera, mute, SourceInv,
         PageTypes, RoomTypes
    <2>2. /\ \A j \in Start : j # i => step'[j] = step[j]
          /\ step'[i] = "opening" /\ i \in Early /\ Early' = Early
      BY <2>1 DEF Early, SourceInv, PageTypes
    <2>3. QED
      BY <2>1, <2>2
  <1>7. ASSUME NEW i \in Start, StreamOpened(i) PROVE Reached'
    <2>1. /\ step[i] = "opening" /\ step' = [step EXCEPT ![i] = "connecting"]
          /\ UNCHANGED <<kind, status, wanted, roomRef, rooms>>
          /\ stream' = i /\ streams' = streams \cup {i}
      BY <1>7 DEF StreamOpened, page, network, camera, mute, SourceInv, PageTypes,
         RoomTypes
    <2>2. /\ step'[i] = "connecting" /\ i \in Early /\ Early' \subseteq {i}
      BY <2>1 DEF Early, SourceInv, PageTypes
    <2>3. streams = {} /\ status = "connecting" /\ rooms = {}
      BY <2>1, <2>2, SourceAssumption DEF SourceInv, RoomTypes, Start
    <2>4. QED
      BY <2>1, <2>2, <2>3
  <1>8. ASSUME NEW i \in Start, RoomConnected(i) PROVE Reached'
    <2>1. /\ step[i] = "connecting" /\ (kind = "microphone" \/ stream # 0)
          /\ UNCHANGED <<kind, status, wanted, stream, streams>>
          /\ step' = [step EXCEPT ![i] = IF kind = "camera" THEN "publishing" ELSE "sounding"]
      BY <1>8 DEF RoomConnected, page, camera, mute, SourceInv, PageTypes, RoomTypes
    <2>2. kind = "microphone" => i \in Early
      BY <2>1 DEF Early
    <2>3. kind = "camera" => Early = {}
      BY <2>1 DEF Early
    <2>4. status \in {"connecting", "connected"} /\ Early \subseteq {i}
      BY <2>1, <2>2, <2>3 DEF SourceInv, PageTypes
    <2>5. Early' = {}
      BY <2>1, <2>4 DEF Early, SourceInv, PageTypes
    <2>6. QED
      BY <2>1, <2>4, <2>5
  <1>9. ASSUME NEW i \in Start, RoomConnectedInVain(i) PROVE Reached'
    <2>1. /\ step[i] = "connecting" /\ kind = "camera" /\ stream = 0 /\ rooms' = {}
          /\ status' = "error" /\ step' = [step EXCEPT ![i] = "done"]
          /\ UNCHANGED <<kind, stream, streams>>
          /\ roomRef' = 0 /\ Interrupts(InFlight \ {i}) \subseteq overlaps'
      <3>1. /\ rooms' = rooms \ Replaced(i)
            /\ "otherRoom" \notin If("otherRoom", rooms # Replaced(i))
        BY <1>9 DEF RoomConnectedInVain, EndRooms, Note, Unless, Missed
      <3>2. rooms' = {}
        BY <3>1 DEF If
      <3>3. QED
        BY <1>9, <3>2 DEF RoomConnectedInVain, Note
    <2>2. Early' = {}
      <3>1. ASSUME NEW j \in Early' PROVE FALSE
        <4>1. j # i /\ j \in InFlight /\ step[j] \in {"finding", "opening"}
          BY <2>1, <3>1 DEF Early, InFlight, SourceInv, PageTypes
        <4>2. "stopBeforeStream" \in overlaps'
          BY <2>1, <4>1 DEF Interrupts, If
        <4>3. QED
          BY <4>2 DEF Unless, Missed
      <3>2. QED
        BY <3>1
    <2>3. QED
      BY <2>1, <2>2
  <1>10. ASSUME NEW i \in Start, VideoPublished(i) PROVE Reached'
    <2>1. /\ step[i] = "publishing" /\ step' = [step EXCEPT ![i] = "sounding"]
          /\ UNCHANGED <<kind, status, wanted, stream, roomRef, streams, rooms>>
      BY <1>10 DEF VideoPublished, page, refs, network, camera, mute, SourceInv,
         PageTypes, RoomTypes
    <2>2. Early' = Early
      BY <2>1 DEF Early, SourceInv, PageTypes
    <2>3. QED
      BY <2>1, <2>2
  <1>11. ASSUME NEW i \in Start, AudioPublished(i) PROVE Reached'
    <2>1. /\ step[i] = "sounding" /\ i \in rooms /\ step' = [step EXCEPT ![i] = "done"]
          /\ status' = "connected"
          /\ UNCHANGED <<kind, wanted, stream, roomRef, streams, rooms>>
      BY <1>11 DEF AudioPublished, page, refs, devices, network, camera, SourceInv,
         PageTypes, RoomTypes
    <2>2. Early' = Early
      BY <2>1 DEF Early, SourceInv, PageTypes
    <2>3. Early = {} /\ wanted
      BY <2>1
    <2>4. QED
      BY <2>1, <2>2, <2>3
  <1>12. ASSUME NEW i \in Start, StartFails(i) PROVE Reached'
    <2>1. PICK next \in {"idle", "error"} : StopSource(next, i) /\ Ends(i)
      BY <1>12, Stops, SourceAssumption DEF Start, Ref
    <2>2. QED
      BY <2>1, StoppedReached, SourceAssumption DEF Start, Ref
  <1>13. ASSUME FlipFacing PROVE Reached'
    <2>1. UNCHANGED <<status, wanted, kind, step, stream, roomRef, streams, rooms>>
      BY <1>13 DEF FlipFacing, page, refs, devices, network, camera, mute
    <2>2. QED
      BY <2>1 DEF Early
  <1>14. ASSUME SwitchCamera PROVE Reached'
    <2>1. UNCHANGED <<status, wanted, kind, step, stream, roomRef, streams, rooms>>
      BY <1>14 DEF SwitchCamera, page, refs, network, camera, mute
    <2>2. QED
      BY <2>1 DEF Early
  <1>15. ASSUME Restarted PROVE Reached'
    <2>1. UNCHANGED <<status, wanted, kind, step, stream, roomRef, streams, rooms>>
      BY <1>15 DEF Restarted, page, network, camera, mute
    <2>2. QED
      BY <2>1 DEF Early
  <1>16. ASSUME RestartFails PROVE Reached'
    <2>1. UNCHANGED <<status, wanted, kind, step, stream, roomRef, streams, rooms>>
      BY <1>16 DEF RestartFails, page, refs, devices, network, camera, mute
    <2>2. QED
      BY <2>1 DEF Early
  <1>17. ASSUME ToggleMute PROVE Reached'
    <2>1. UNCHANGED <<status, wanted, kind, step, stream, roomRef, streams, rooms>>
      BY <1>17 DEF ToggleMute, page, refs, devices, network, camera
    <2>2. QED
      BY <2>1 DEF Early
  <1>18. ASSUME Toggled PROVE Reached'
    <2>1. UNCHANGED <<status, wanted, kind, step, stream, roomRef, streams, rooms>>
      BY <1>18 DEF Toggled, page, refs, devices, network, camera
    <2>2. QED
      BY <2>1 DEF Early
  <1>19. QED
    BY <1>1, <1>2, <1>3, <1>4, <1>5, <1>6, <1>7, <1>8, <1>9, <1>10, <1>11, <1>12,
       <1>13, <1>14, <1>15, <1>16, <1>17, <1>18 DEF Next

\* A page that told no start in vain to stop stays one whose starts are reached.
LEMMA ReachedNext ==
    ASSUME SourceInv, ReachedInv, Next
    PROVE  ReachedInv'
  <1>1. SUFFICES ASSUME Unless(Missed)' PROVE Reached'
    BY DEF ReachedInv
  <1>2. Unless(Missed)
    BY <1>1, Grows DEF Unless, Missed
  <1>3. QED
    BY <1>1, <1>2, ReachedStep DEF ReachedInv

\* A start that goes on, and one that is over.
LEMMA GoesOn ==
    ASSUME SourceInv, NEW i \in InFlight, NEW s \in Step \ {"none", "done"},
           step' = [step EXCEPT ![i] = s]
    PROVE  /\ InFlight' = InFlight /\ step'[i] = s
           /\ \A j \in Start : j # i => step'[j] = step[j]
  BY DEF InFlight, SourceInv, PageTypes

\* A start that ends leaves the starts under way, and no other does.
LEMMA IsOver ==
    ASSUME SourceInv, NEW i \in InFlight, step' = [step EXCEPT ![i] = "done"]
    PROVE  /\ InFlight' = InFlight \ {i} /\ step'[i] = "done"
           /\ \A j \in Start : j # i => step'[j] = step[j]
  BY DEF InFlight, SourceInv, PageTypes

\* A stop leaves the page nothing to be of another start.
LEMMA StoppedAlone ==
    ASSUME SourceInv, Alone, NEW next \in {"idle", "error"}, NEW caller \in Ref,
           StopSource(next, caller), Ends(caller)
    PROVE  Alone'
  <1>1. rooms' = {} /\ streams' = {}
    BY Stopped DEF Alone
  <1>2. QED
    BY <1>1, Stopped DEF Alone

\* A start that connects finds no room of the page up.
LEMMA Lone ==
    ASSUME SourceInv, Alone, NEW i \in Start, step[i] = "connecting"
    PROVE  rooms = {}
  <1>1. i \in InFlight /\ roomRef # i
    BY SourceAssumption DEF InFlight, SourceInv, Held, Start
  <1>2. roomRef = 0
    BY <1>1 DEF Alone
  <1>3. QED
    BY <1>2, SourceAssumption DEF Alone, SourceInv, RoomTypes, Start

\* Every step keeps what a start has its own, unless a start begins during another.
LEMMA AloneStep ==
    ASSUME SourceInv, Alone, Next, Unless({"startInStart"})'
    PROVE  Alone'
  <1> USE DEF Alone
  <1>1. ASSUME Stop PROVE Alone'
    <2>1. PICK next \in {"idle", "error"} : StopSource(next, 0) /\ Ends(0)
      BY <1>1, Stops, SourceAssumption DEF Start, Ref
    <2>2. QED
      BY <2>1, StoppedAlone, SourceAssumption DEF Start, Ref
  <1>2. ASSUME DisconnectSource PROVE Alone'
    <2>1. PICK next \in {"idle", "error"} : StopSource(next, 0) /\ Ends(0)
      BY <1>2, Stops, SourceAssumption DEF Start, Ref
    <2>2. QED
      BY <2>1, StoppedAlone, SourceAssumption DEF Start, Ref
  <1>3. ASSUME Unmount PROVE Alone'
    <2>1. PICK next \in {"idle", "error"} : StopSource(next, 0) /\ Ends(0)
      BY <1>3, Stops, SourceAssumption DEF Start, Ref
    <2>2. QED
      BY <2>1, StoppedAlone, SourceAssumption DEF Start, Ref
  <1>4. ASSUME NEW i \in Start, RoomLost(i) PROVE Alone'
    <2>1. /\ UNCHANGED <<status, kind, step, stream, streams, roomRef>>
          /\ rooms' \subseteq rooms
      BY <1>4 DEF RoomLost, EndRooms, page, refs
    <2>2. QED
      BY <2>1 DEF InFlight
  <1>5. ASSUME NEW i \in Start, StartSource(i) PROVE Alone'
    <2>1. /\ InFlight = {} /\ status # "connected" /\ status' = "connecting"
          /\ UNCHANGED <<kind, stream, streams, roomRef, rooms>>
          /\ step' = [step EXCEPT ![i] = "finding"]
      BY <1>5 DEF StartSource, Note, If, Unless, refs, devices, network
    <2>2. InFlight' = {i}
      BY <2>1 DEF InFlight, SourceInv, PageTypes
    <2>3. rooms = {}
      BY <2>1, SourceAssumption DEF SourceInv, Held, RoomTypes, Start
    <2>4. QED
      BY <2>1, <2>2, <2>3
  <1>6. ASSUME NEW i \in Start, RoomFound(i) PROVE Alone'
    <2>1. /\ i \in InFlight /\ step[i] = "finding"
          /\ step' = [step EXCEPT ![i] = "opening"]
          /\ UNCHANGED <<kind, status, stream, streams, roomRef, rooms>>
      BY <1>6 DEF RoomFound, page, refs, devices, network, InFlight
    <2>2. InFlight' = InFlight
      BY <2>1, GoesOn DEF Step
    <2>3. QED
      BY <2>1, <2>2
  <1>7. ASSUME NEW i \in Start, StreamOpened(i) PROVE Alone'
    <2>1. /\ i \in InFlight /\ step[i] = "opening"
          /\ step' = [step EXCEPT ![i] = "connecting"]
          /\ UNCHANGED <<kind, status, roomRef, rooms>>
          /\ stream' = i /\ streams' = streams \cup {i}
      BY <1>7 DEF StreamOpened, page, network, InFlight
    <2>2. InFlight' = InFlight /\ step'[i] = "connecting"
      BY <2>1, GoesOn DEF Step
    <2>3. streams' = {i}
      <3>1. 0 \notin streams /\ streams \subseteq {0}
        BY <2>1, SourceAssumption DEF SourceInv, RoomTypes, Start
      <3>2. streams = {}
        BY <3>1
      <3>3. QED
        BY <2>1, <3>2
    <2>5. i \notin rooms
      BY <2>1, SourceAssumption DEF SourceInv, Held, Start
    <2>4. QED
      BY <2>1, <2>2, <2>3, <2>5
  <1>8. ASSUME NEW i \in Start, RoomConnected(i) PROVE Alone'
    <2>1. /\ i \in InFlight /\ step[i] = "connecting"
          /\ (kind = "microphone" \/ stream # 0)
          /\ step' = [step EXCEPT ![i] = IF kind = "camera" THEN "publishing" ELSE "sounding"]
          /\ UNCHANGED <<kind, status, stream, streams>>
          /\ roomRef' = i /\ rooms' = {i}
      BY <1>8, Lone DEF RoomConnected, page, InFlight
    <2>2. InFlight' = InFlight /\ step'[i] \in {"publishing", "sounding"}
      BY <2>1, GoesOn DEF Step
    <2>3. QED
      BY <2>1, <2>2
  <1>9. ASSUME NEW i \in Start, RoomConnectedInVain(i) PROVE Alone'
    <2>1. /\ i \in InFlight /\ step' = [step EXCEPT ![i] = "done"]
          /\ stream = 0 /\ stream' = 0 /\ roomRef' = 0 /\ streams' = streams
          /\ rooms' = {} /\ status' = "error"
      BY <1>9, Lone DEF RoomConnectedInVain, EndRooms, InFlight
    <2>2. InFlight' = {}
      BY <2>1, IsOver
    <2>3. QED
      BY <2>1, <2>2
  <1>10. ASSUME NEW i \in Start, VideoPublished(i) PROVE Alone'
    <2>1. /\ i \in InFlight /\ step[i] = "publishing"
          /\ step' = [step EXCEPT ![i] = "sounding"]
          /\ UNCHANGED <<kind, status, stream, streams, roomRef, rooms>>
      BY <1>10 DEF VideoPublished, page, refs, network, InFlight
    <2>2. InFlight' = InFlight /\ step'[i] = "sounding"
      BY <2>1, GoesOn DEF Step
    <2>3. QED
      BY <2>1, <2>2
  <1>11. ASSUME NEW i \in Start, AudioPublished(i) PROVE Alone'
    <2>1. /\ i \in InFlight /\ step' = [step EXCEPT ![i] = "done"]
          /\ status' = "connected" /\ UNCHANGED <<streams, stream, rooms, roomRef>>
      BY <1>11 DEF AudioPublished, refs, devices, network, InFlight
    <2>2. InFlight' = {}
      BY <2>1, IsOver
    <2>3. QED
      BY <2>1, <2>2
  <1>12. ASSUME NEW i \in Start, StartFails(i) PROVE Alone'
    <2>1. PICK next \in {"idle", "error"} : StopSource(next, i) /\ Ends(i)
      BY <1>12, Stops, SourceAssumption DEF Start, Ref
    <2>2. QED
      BY <2>1, StoppedAlone, SourceAssumption DEF Start, Ref
  <1>13. ASSUME FlipFacing PROVE Alone'
    <2>1. UNCHANGED <<status, kind, step, stream, streams, roomRef, rooms>>
      BY <1>13 DEF FlipFacing, page, refs, devices, network, camera, mute
    <2>2. QED
      BY <2>1 DEF InFlight
  <1>14. ASSUME SwitchCamera PROVE Alone'
    <2>1. UNCHANGED <<status, kind, step, stream, streams, roomRef, rooms>>
      BY <1>14 DEF SwitchCamera, page, refs, network, camera, mute
    <2>2. QED
      BY <2>1 DEF InFlight
  <1>15. ASSUME Restarted PROVE Alone'
    <2>1. UNCHANGED <<status, kind, step, stream, streams, roomRef, rooms>>
      BY <1>15 DEF Restarted, page, network, camera, mute
    <2>2. QED
      BY <2>1 DEF InFlight
  <1>16. ASSUME RestartFails PROVE Alone'
    <2>1. UNCHANGED <<status, kind, step, stream, streams, roomRef, rooms>>
      BY <1>16 DEF RestartFails, page, refs, devices, network, camera, mute
    <2>2. QED
      BY <2>1 DEF InFlight
  <1>17. ASSUME ToggleMute PROVE Alone'
    <2>1. UNCHANGED <<status, kind, step, stream, streams, roomRef, rooms>>
      BY <1>17 DEF ToggleMute, page, refs, devices, network, camera
    <2>2. QED
      BY <2>1 DEF InFlight
  <1>18. ASSUME Toggled PROVE Alone'
    <2>1. UNCHANGED <<status, kind, step, stream, streams, roomRef, rooms>>
      BY <1>18 DEF Toggled, page, refs, devices, network, camera
    <2>2. QED
      BY <2>1 DEF InFlight
  <1>19. QED
    BY <1>1, <1>2, <1>3, <1>4, <1>5, <1>6, <1>7, <1>8, <1>9, <1>10, <1>11, <1>12,
       <1>13, <1>14, <1>15, <1>16, <1>17, <1>18 DEF Next

\* A microphone's start is not stopped while it connects, so it keeps its stream.
LEMMA StoppedOwnStream ==
    ASSUME SourceInv, Alone, OwnStream, NEW next \in {"idle", "error"}, NEW caller \in Ref,
           StopSource(next, caller), Ends(caller),
           Unless({"roomLost", "startInStart"} \cup If("stopInConnect", kind = "microphone"))'
    PROVE  OwnStream'
  <1>1. ASSUME kind = "microphone", NEW j \in InFlight'
        PROVE  step'[j] # "connecting"
    <2>1. j \in InFlight \ {caller} /\ step'[j] = step[j]
      BY <1>1, Stopped DEF InFlight
    <2>2. "stopInConnect" \notin Interrupts(InFlight \ {caller})
      BY <1>1, Stopped DEF Unless, If
    <2>3. QED
      BY <2>1, <2>2 DEF Interrupts, If
  <1>2. rooms' = {} /\ kind' = kind /\ status' # "connected"
    BY Stopped DEF Alone
  <1>3. QED
    BY <1>1, <1>2 DEF OwnStream

\* Every step keeps the room and the stream those of one start.
LEMMA OwnStreamStep ==
    ASSUME SourceInv, Alone, OwnStream, Next,
           Unless({"roomLost", "startInStart"} \cup If("stopInConnect", kind = "microphone"))'
    PROVE  OwnStream'
  <1> USE DEF OwnStream
  <1>1. ASSUME Stop PROVE OwnStream'
    <2>1. PICK next \in {"idle", "error"} : StopSource(next, 0) /\ Ends(0)
      BY <1>1, Stops, SourceAssumption DEF Start, Ref
    <2>2. QED
      BY <2>1, StoppedOwnStream, SourceAssumption DEF Start, Ref
  <1>2. ASSUME DisconnectSource PROVE OwnStream'
    <2>1. PICK next \in {"idle", "error"} : StopSource(next, 0) /\ Ends(0)
      BY <1>2, Stops, SourceAssumption DEF Start, Ref
    <2>2. QED
      BY <2>1, StoppedOwnStream, SourceAssumption DEF Start, Ref
  <1>3. ASSUME Unmount PROVE OwnStream'
    <2>1. PICK next \in {"idle", "error"} : StopSource(next, 0) /\ Ends(0)
      BY <1>3, Stops, SourceAssumption DEF Start, Ref
    <2>2. QED
      BY <2>1, StoppedOwnStream, SourceAssumption DEF Start, Ref
  <1>4. ASSUME NEW i \in Start, RoomLost(i) PROVE OwnStream'
    BY <1>4 DEF RoomLost, Note, Unless
  <1>5. ASSUME NEW i \in Start, StartSource(i) PROVE OwnStream'
    <2>1. /\ InFlight = {} /\ status # "connected"
          /\ UNCHANGED <<kind, stream, roomRef, rooms>>
          /\ step' = [step EXCEPT ![i] = "finding"]
      BY <1>5 DEF StartSource, Note, If, Unless, page, refs, network
    <2>2. InFlight' = {i} /\ step'[i] = "finding"
      BY <2>1 DEF InFlight, SourceInv, PageTypes
    <2>3. rooms = {}
      BY <2>1, SourceAssumption DEF Alone, SourceInv, Held, RoomTypes, Start
    <2>4. QED
      BY <2>1, <2>2, <2>3
  <1>6. ASSUME NEW i \in Start, RoomFound(i) PROVE OwnStream'
    <2>1. /\ i \in InFlight /\ step[i] = "finding"
          /\ step' = [step EXCEPT ![i] = "opening"]
          /\ UNCHANGED <<kind, status, stream, roomRef, rooms>>
      BY <1>6 DEF RoomFound, page, refs, network, InFlight
    <2>2. InFlight' = InFlight /\ step'[i] = "opening"
      BY <2>1, GoesOn DEF Step
    <2>3. QED
      BY <2>1, <2>2 DEF Alone
  <1>7. ASSUME NEW i \in Start, StreamOpened(i) PROVE OwnStream'
    <2>1. /\ i \in InFlight /\ step[i] = "opening"
          /\ step' = [step EXCEPT ![i] = "connecting"]
          /\ UNCHANGED <<kind, status, roomRef, rooms>> /\ stream' = i
      BY <1>7 DEF StreamOpened, page, network, InFlight
    <2>2. InFlight' = InFlight
      BY <2>1, GoesOn DEF Step
    <2>3. QED
      BY <2>1, <2>2 DEF Alone
  <1>8. ASSUME NEW i \in Start, RoomConnected(i) PROVE OwnStream'
    <2>1. /\ i \in InFlight /\ step[i] = "connecting"
          /\ step' = [step EXCEPT ![i] = IF kind = "camera" THEN "publishing" ELSE "sounding"]
          /\ UNCHANGED <<kind, status, stream>> /\ roomRef' = i /\ rooms' = {i}
      BY <1>8, Lone DEF RoomConnected, page, InFlight
    <2>2. InFlight' = InFlight
      BY <2>1, GoesOn DEF Step
    <2>3. QED
      BY <2>1, <2>2 DEF Alone
  <1>9. ASSUME NEW i \in Start, RoomConnectedInVain(i) PROVE OwnStream'
    <2>1. /\ i \in InFlight /\ step' = [step EXCEPT ![i] = "done"] /\ status' = "error"
      BY <1>9 DEF RoomConnectedInVain, InFlight
    <2>2. InFlight' = {}
      BY <2>1, IsOver DEF Alone
    <2>3. QED
      BY <2>1, <2>2
  <1>10. ASSUME NEW i \in Start, VideoPublished(i) PROVE OwnStream'
    <2>1. /\ i \in InFlight /\ step[i] = "publishing"
          /\ step' = [step EXCEPT ![i] = "sounding"]
          /\ UNCHANGED <<kind, status, stream, roomRef, rooms>>
      BY <1>10 DEF VideoPublished, page, refs, network, InFlight
    <2>2. InFlight' = InFlight /\ step'[i] = "sounding"
      BY <2>1, GoesOn DEF Step
    <2>3. QED
      BY <2>1, <2>2 DEF Alone
  <1>11. ASSUME NEW i \in Start, AudioPublished(i) PROVE OwnStream'
    <2>1. /\ i \in InFlight /\ i \in rooms /\ step' = [step EXCEPT ![i] = "done"]
          /\ UNCHANGED <<kind, stream, roomRef, rooms>>
      BY <1>11 DEF AudioPublished, refs, network, InFlight
    <2>2. InFlight' = {}
      BY <2>1, IsOver DEF Alone
    <2>3. rooms = {roomRef} /\ roomRef = i /\ i # 0
      <3>1. i # 0
        BY SourceAssumption DEF Start
      <3>2. rooms \subseteq {roomRef}
        BY DEF Alone
      <3>3. QED
        BY <2>1, <3>1, <3>2
    <2>4. stream = i
      BY <2>1 DEF Alone, SourceInv, PageTypes
    <2>5. QED
      BY <2>1, <2>2, <2>3, <2>4
  <1>12. ASSUME NEW i \in Start, StartFails(i) PROVE OwnStream'
    <2>1. PICK next \in {"idle", "error"} : StopSource(next, i) /\ Ends(i)
      BY <1>12, Stops, SourceAssumption DEF Start, Ref
    <2>2. QED
      BY <2>1, StoppedOwnStream, SourceAssumption DEF Start, Ref
  <1>13. ASSUME FlipFacing PROVE OwnStream'
    <2>1. UNCHANGED <<status, kind, step, stream, roomRef, rooms>>
      BY <1>13 DEF FlipFacing, page, refs, devices, network, camera, mute
    <2>2. QED
      BY <2>1 DEF InFlight
  <1>14. ASSUME SwitchCamera PROVE OwnStream'
    <2>1. UNCHANGED <<status, kind, step, stream, roomRef, rooms>>
      BY <1>14 DEF SwitchCamera, page, refs, network, camera, mute
    <2>2. QED
      BY <2>1 DEF InFlight
  <1>15. ASSUME Restarted PROVE OwnStream'
    <2>1. UNCHANGED <<status, kind, step, stream, roomRef, rooms>>
      BY <1>15 DEF Restarted, page, network, camera, mute
    <2>2. QED
      BY <2>1 DEF InFlight
  <1>16. ASSUME RestartFails PROVE OwnStream'
    <2>1. UNCHANGED <<status, kind, step, stream, roomRef, rooms>>
      BY <1>16 DEF RestartFails, page, refs, devices, network, camera, mute
    <2>2. QED
      BY <2>1 DEF InFlight
  <1>17. ASSUME ToggleMute PROVE OwnStream'
    <2>1. UNCHANGED <<status, kind, step, stream, roomRef, rooms>>
      BY <1>17 DEF ToggleMute, page, refs, devices, network, camera
    <2>2. QED
      BY <2>1 DEF InFlight
  <1>18. ASSUME Toggled PROVE OwnStream'
    <2>1. UNCHANGED <<status, kind, step, stream, roomRef, rooms>>
      BY <1>18 DEF Toggled, page, refs, devices, network, camera
    <2>2. QED
      BY <2>1 DEF InFlight
  <1>19. QED
    BY <1>1, <1>2, <1>3, <1>4, <1>5, <1>6, <1>7, <1>8, <1>9, <1>10, <1>11, <1>12,
       <1>13, <1>14, <1>15, <1>16, <1>17, <1>18 DEF Next

\* No switch is under way when the page stops, and no start keeps a camera.
LEMMA StoppedLens ==
    ASSUME SourceInv, Alone, LensFollows, kind = "camera",
           NEW next \in {"idle", "error"}, NEW caller \in Ref,
           StopSource(next, caller), Ends(caller),
           Unless({"switchInStart", "stopInSwitch", "restoreFailed", "startInStart"})'
    PROVE  LensFollows'
  <1>1. switching' = NoSwitch
    BY Stopped DEF Unless, Interrupts, If
  <1>2. rooms' = {} /\ stream' = 0 /\ status' # "connected"
    BY Stopped DEF Alone
  <1>3. \A i \in InFlight' : i # 0 /\ asked'[i] = facing'
    <2>1. InFlight' \subseteq InFlight /\ UNCHANGED <<asked, facing>>
      BY Stopped
    <2>2. \A i \in InFlight : i # 0
      BY SourceAssumption DEF InFlight, Start
    <2>3. QED
      BY <2>1, <2>2 DEF LensFollows
  <1>4. QED
    BY <1>1, <1>2, <1>3 DEF LensFollows

\* Every step keeps the camera the one the page says, or a switch to it under way.
LEMMA LensStep ==
    ASSUME SourceInv, Alone, LensFollows, Next, kind = "camera",
           Unless({"switchInStart", "stopInSwitch", "restoreFailed", "startInStart"})'
    PROVE  LensFollows'
  <1> USE DEF LensFollows
  <1>1. ASSUME Stop PROVE LensFollows'
    <2>1. PICK next \in {"idle", "error"} : StopSource(next, 0) /\ Ends(0)
      BY <1>1, Stops, SourceAssumption DEF Start, Ref
    <2>2. QED
      BY <2>1, StoppedLens, SourceAssumption DEF Start, Ref
  <1>2. ASSUME DisconnectSource PROVE LensFollows'
    <2>1. PICK next \in {"idle", "error"} : StopSource(next, 0) /\ Ends(0)
      BY <1>2, Stops, SourceAssumption DEF Start, Ref
    <2>2. QED
      BY <2>1, StoppedLens, SourceAssumption DEF Start, Ref
  <1>3. ASSUME Unmount PROVE LensFollows'
    <2>1. PICK next \in {"idle", "error"} : StopSource(next, 0) /\ Ends(0)
      BY <1>3, Stops, SourceAssumption DEF Start, Ref
    <2>2. QED
      BY <2>1, StoppedLens, SourceAssumption DEF Start, Ref
  <1>4. ASSUME NEW i \in Start, RoomLost(i) PROVE LensFollows'
    <2>1. /\ UNCHANGED <<status, step, stream, video, roomRef, published, asked, facing>>
          /\ i \in rooms /\ rooms' = rooms \ {i}
          /\ cameras' = {c \in cameras : c.id \notin VideosIn({i}) \cup {}}
          /\ switching' = [switching EXCEPT !.halted = @ \/ switching.id \in {i}]
      BY <1>4 DEF RoomLost, EndRooms, page, refs
    <2>2. i = roomRef /\ rooms' = {} /\ InFlight' = InFlight
      BY <2>1 DEF Alone, InFlight
    <2>3. ASSUME NEW j \in InFlight, step[j] = "connecting" PROVE FALSE
      BY <2>1, <2>3, Lone DEF InFlight
    <2>4. {i} \in SUBSET rooms
      BY <2>1
    <2>5. /\ (switching' = NoSwitch <=> switching = NoSwitch)
          /\ switching'.id = switching.id /\ switching'.to = switching.to
      BY <2>1, <2>4, SwitchKept
    <2>6. \A j \in InFlight' : asked'[j] = facing' /\ step'[j] # "connecting"
      BY <2>1, <2>2, <2>3
    <2>7. switching # NoSwitch => /\ status' = "connected" /\ switching'.id = roomRef'
                                  /\ switching'.to = Other(facing')
      BY <2>1, <2>5
    <2>8. QED
      BY <2>2, <2>5, <2>6, <2>7
  <1>5. ASSUME NEW i \in Start, StartSource(i) PROVE LensFollows'
    <2>1. /\ InFlight = {} /\ status # "connected" /\ status' = "connecting"
          /\ UNCHANGED <<stream, roomRef, rooms, facing, switching>>
          /\ step' = [step EXCEPT ![i] = "finding"]
          /\ asked' = [asked EXCEPT ![i] = facing]
      BY <1>5 DEF StartSource, Note, If, Unless, refs, network
    <2>2. InFlight' = {i} /\ step'[i] = "finding" /\ asked'[i] = facing
      BY <2>1 DEF InFlight, SourceInv, PageTypes, CameraTypes
    <2>3. rooms = {}
      BY <2>1, SourceAssumption DEF Alone, SourceInv, RoomTypes, Start
    <2>4. QED
      BY <2>1, <2>2, <2>3
  <1>6. ASSUME NEW i \in Start, RoomFound(i) PROVE LensFollows'
    <2>1. /\ i \in InFlight /\ step[i] = "finding"
          /\ step' = [step EXCEPT ![i] = "opening"]
          /\ UNCHANGED <<status, stream, video, roomRef, rooms, asked, facing, switching>>
          /\ UNCHANGED <<cameras, published>>
      BY <1>6 DEF RoomFound, page, refs, devices, network, camera, InFlight
    <2>2. InFlight' = InFlight /\ step'[i] = "opening"
      BY <2>1, GoesOn DEF Step
    <2>3. QED
      BY <2>1, <2>2 DEF Alone
  <1>7. ASSUME NEW i \in Start, StreamOpened(i) PROVE LensFollows'
    <2>1. /\ i \in InFlight /\ step[i] = "opening"
          /\ step' = [step EXCEPT ![i] = "connecting"]
          /\ UNCHANGED <<status, roomRef, rooms, asked, facing, switching, published>>
          /\ video' = made + 1
          /\ cameras' = cameras \cup {[id |-> made + 1, side |-> asked[i]]}
      BY <1>7 DEF StreamOpened, OpenVideo, page, network, InFlight
    <2>2. InFlight' = InFlight /\ step'[i] = "connecting"
      BY <2>1, GoesOn DEF Step
    <2>3. asked[i] = facing /\ cameras \subseteq cameras'
      BY <2>1
    <2>4. [id |-> video', side |-> facing'] \in cameras'
      BY <2>1, <2>3
    <2>5. \A j \in InFlight : j = i
      BY <2>1 DEF Alone
    <2>6. \A j \in InFlight' :
            j \in rooms' => [id |-> published'[j], side |-> facing'] \in cameras'
      BY <2>1, <2>2, <2>3
    <2>7. status' # "connected"
      BY <2>1 DEF Alone
    <2>8. QED
      BY <2>1, <2>2, <2>4, <2>5, <2>6, <2>7
  <1>8. ASSUME NEW i \in Start, RoomConnected(i) PROVE LensFollows'
    <2>1. rooms = {}
      BY <1>8, Lone DEF RoomConnected
    <2>2. /\ i \in InFlight /\ step[i] = "connecting" /\ stream # 0
          /\ step' = [step EXCEPT ![i] = "publishing"] /\ rooms' = {i}
          /\ published' = [published EXCEPT ![i] = video]
          /\ UNCHANGED <<status, stream, video, asked, facing>>
      BY <1>8, <2>1 DEF RoomConnected, page, InFlight
    <2>3. cameras' = cameras
      <3>1. VideosIn(Replaced(i)) = {}
        BY <2>1 DEF VideosIn, Replaced
      <3>2. QED
        BY <1>8, <3>1 DEF RoomConnected
    <2>4. InFlight' = InFlight /\ step'[i] = "publishing"
      BY <2>2, GoesOn DEF Step
    <2>5. stream = i /\ status # "connected"
      BY <2>2 DEF Alone
    <2>6. switching' = NoSwitch
      <3>1. switching = NoSwitch /\ Replaced(i) \in SUBSET rooms
        BY <2>5 DEF Replaced
      <3>2. switching' = [switching EXCEPT !.halted = @ \/ switching.id \in Replaced(i)]
        BY <1>8 DEF RoomConnected
      <3>3. QED
        BY <3>1, <3>2, SwitchKept
    <2>7. published'[i] = video /\ [id |-> video, side |-> facing] \in cameras
      BY <2>2, <2>5 DEF SourceInv, CameraTypes
    <2>8. \A j \in InFlight : j = i
      BY <2>2 DEF Alone
    <2>9. [id |-> published'[i], side |-> facing'] \in cameras'
      BY <2>2, <2>3, <2>7
    <2>10. \A j \in InFlight' : j = i /\ asked'[j] = facing' /\ step'[j] # "connecting"
      BY <2>2, <2>4, <2>8
    <2>11. status' # "connected"
      BY <2>2, <2>5
    <2>12. QED
      BY <2>6, <2>9, <2>10, <2>11
  <1>9. ASSUME NEW i \in Start, RoomConnectedInVain(i) PROVE LensFollows'
    <2>1. rooms = {}
      BY <1>9, Lone DEF RoomConnectedInVain
    <2>2. /\ i \in InFlight /\ step' = [step EXCEPT ![i] = "done"] /\ rooms' = {}
          /\ status' = "error"
          /\ switching' = [switching EXCEPT !.halted = @ \/ switching.id \in Replaced(i)]
      BY <1>9, <2>1 DEF RoomConnectedInVain, EndRooms, InFlight
    <2>3. InFlight' = {} /\ status # "connected"
      BY <2>2, IsOver DEF Alone
    <2>4. Replaced(i) \in SUBSET rooms /\ switching = NoSwitch
      BY <2>3 DEF Replaced
    <2>5. switching' = NoSwitch
      BY <2>2, <2>4, SwitchKept
    <2>6. QED
      BY <2>2, <2>3, <2>5
  <1>10. ASSUME NEW i \in Start, VideoPublished(i) PROVE LensFollows'
    <2>1. /\ i \in InFlight /\ step[i] = "publishing"
          /\ step' = [step EXCEPT ![i] = "sounding"]
          /\ UNCHANGED <<status, stream, video, roomRef, rooms, asked, facing, switching>>
          /\ UNCHANGED <<cameras, published>>
      BY <1>10 DEF VideoPublished, page, refs, network, camera, InFlight
    <2>2. InFlight' = InFlight /\ step'[i] = "sounding"
      BY <2>1, GoesOn DEF Step
    <2>3. QED
      BY <2>1, <2>2 DEF Alone
  <1>11. ASSUME NEW i \in Start, AudioPublished(i) PROVE LensFollows'
    <2>1. /\ i \in InFlight /\ i \in rooms /\ step' = [step EXCEPT ![i] = "done"]
          /\ UNCHANGED <<roomRef, rooms, asked, facing, switching, cameras, published>>
      BY <1>11 DEF AudioPublished, refs, devices, network, camera, InFlight
    <2>2. InFlight' = {} /\ status # "connected" /\ roomRef = i
      BY <2>1, IsOver DEF Alone
    <2>3. QED
      BY <2>1, <2>2
  <1>12. ASSUME NEW i \in Start, StartFails(i) PROVE LensFollows'
    <2>1. PICK next \in {"idle", "error"} : StopSource(next, i) /\ Ends(i)
      BY <1>12, Stops, SourceAssumption DEF Start, Ref
    <2>2. QED
      BY <2>1, StoppedLens, SourceAssumption DEF Start, Ref
  <1>13. ASSUME FlipFacing PROVE LensFollows'
    BY <1>13 DEF FlipFacing, Note, Unless
  <1>14. ASSUME SwitchCamera PROVE LensFollows'
    <2>1. /\ status = "connected" /\ switching = NoSwitch /\ roomRef \in rooms
          /\ switching' = [id |-> roomRef, to |-> Other(facing), step |-> "restart",
                           halted |-> FALSE]
          /\ UNCHANGED <<step, status, roomRef, rooms, asked, facing>>
      BY <1>14 DEF SwitchCamera, page, refs, network
    <2>2. InFlight' = {}
      BY <2>1 DEF Alone, InFlight
    <2>3. switching' # NoSwitch
      BY <2>1, SourceAssumption DEF NoSwitch, SourceInv, RoomTypes, Start
    <2>4. QED
      BY <2>1, <2>2, <2>3
  <1>15. ASSUME Restarted PROVE LensFollows'
    <2>1. /\ switching # NoSwitch /\ switching' = NoSwitch
          /\ UNCHANGED <<step, status, roomRef, rooms>>
          /\ published' = [published EXCEPT ![switching.id] = made + 1]
          /\ cameras' = cameras \cup If([id |-> made + 1, side |-> Side], ~switching.halted)
          /\ facing' = IF switching.step = "restart" THEN Side ELSE facing
      BY <1>15 DEF Restarted, page, network
    <2>2. InFlight' = {}
      BY <2>1 DEF Alone, InFlight
    <2>3. Side = facing'
      BY <2>1 DEF Other, Side, SourceInv, CameraTypes, Lens
    <2>4. ASSUME roomRef \in rooms
          PROVE  [id |-> published'[roomRef], side |-> facing'] \in cameras'
      <3>1. roomRef \in Start /\ switching.id = roomRef /\ ~switching.halted
        BY <2>1, <2>4 DEF SourceInv, RoomTypes
      <3>2. published'[roomRef] = made + 1
        BY <2>1, <3>1 DEF SourceInv, CameraTypes
      <3>3. QED
        BY <2>1, <2>3, <3>1, <3>2 DEF If
    <2>5. QED
      BY <2>1, <2>2, <2>4
  <1>16. ASSUME RestartFails PROVE LensFollows'
    <2>1. /\ switching # NoSwitch /\ switching.step = "restart"
          /\ switching' = [switching EXCEPT !.step = "restore", !.halted = FALSE]
          /\ UNCHANGED <<step, status, roomRef, rooms, asked, facing>>
      BY <1>16 DEF RestartFails, Note, Unless, page, refs, network
    <2>2. InFlight' = {}
      BY <2>1 DEF Alone, InFlight
    <2>3. /\ switching' # NoSwitch /\ ~switching'.halted
          /\ switching'.id = switching.id /\ switching'.to = switching.to
      BY <2>1 DEF NoSwitch, SourceInv, CameraTypes, Switch
    <2>4. QED
      BY <2>1, <2>2, <2>3
  <1>17. ASSUME ToggleMute PROVE LensFollows'
    BY <1>17 DEF ToggleMute
  <1>18. ASSUME Toggled PROVE LensFollows'
    <2>1. /\ UNCHANGED <<status, step, stream, video, roomRef, rooms, asked, facing>>
          /\ UNCHANGED <<cameras, published, switching>>
      BY <1>18 DEF Toggled, page, refs, devices, network, camera
    <2>2. QED
      BY <2>1 DEF InFlight
  <1>19. QED
    BY <1>1, <1>2, <1>3, <1>4, <1>5, <1>6, <1>7, <1>8, <1>9, <1>10, <1>11, <1>12,
       <1>13, <1>14, <1>15, <1>16, <1>17, <1>18 DEF Next

\* No press of the mute is under way when the page stops.
LEMMA StoppedMute ==
    ASSUME SourceInv, MuteFollows, NEW next \in {"idle", "error"}, NEW caller \in Ref,
           StopSource(next, caller), Ends(caller),
           Unless({"stopInToggle", "startInStart"})'
    PROVE  MuteFollows'
  <1>1. toggles = <<>>
    BY Stopped DEF Unless, Interrupts, If
  <1>2. \A i \in silent' : step'[i] = "done"
    BY Stopped DEF MuteFollows, SourceInv, MuteTypes
  <1>3. toggles' = <<>> /\ status' # "connected"
    BY <1>1, Stopped
  <1>4. QED
    BY <1>2, <1>3 DEF MuteFollows

\* Every step keeps the published microphone as silent as the page says, once the
\* toggles under way are done.
LEMMA MuteStep ==
    ASSUME SourceInv, Alone, MuteFollows, Next, kind = "microphone",
           Unless({"stopInToggle", "startInStart"})'
    PROVE  MuteFollows'
  <1> USE DEF MuteFollows
  <1>1. ASSUME Stop PROVE MuteFollows'
    <2>1. PICK next \in {"idle", "error"} : StopSource(next, 0) /\ Ends(0)
      BY <1>1, Stops, SourceAssumption DEF Start, Ref
    <2>2. QED
      BY <2>1, StoppedMute, SourceAssumption DEF Start, Ref
  <1>2. ASSUME DisconnectSource PROVE MuteFollows'
    <2>1. PICK next \in {"idle", "error"} : StopSource(next, 0) /\ Ends(0)
      BY <1>2, Stops, SourceAssumption DEF Start, Ref
    <2>2. QED
      BY <2>1, StoppedMute, SourceAssumption DEF Start, Ref
  <1>3. ASSUME Unmount PROVE MuteFollows'
    <2>1. PICK next \in {"idle", "error"} : StopSource(next, 0) /\ Ends(0)
      BY <1>3, Stops, SourceAssumption DEF Start, Ref
    <2>2. QED
      BY <2>1, StoppedMute, SourceAssumption DEF Start, Ref
  <1>4. ASSUME NEW i \in Start, RoomLost(i) PROVE MuteFollows'
    <2>1. /\ UNCHANGED <<status, step, roomRef, muted, silent, toggles>>
          /\ rooms' \subseteq rooms
      BY <1>4 DEF RoomLost, EndRooms, page, refs, mute
    <2>2. QED
      BY <2>1
  <1>5. ASSUME NEW i \in Start, StartSource(i) PROVE MuteFollows'
    <2>1. /\ status \notin {"connecting", "connected"} /\ status' = "connecting"
          /\ step[i] = "none"
          /\ UNCHANGED <<roomRef, rooms, muted, silent, toggles>>
          /\ step' = [step EXCEPT ![i] = "finding"]
      BY <1>5 DEF StartSource, refs, network, mute
    <2>2. status # "connected" /\ i \notin silent /\ \A j \in silent : step'[j] = "done"
      BY <2>1 DEF SourceInv, PageTypes, MuteTypes
    <2>3. QED
      BY <2>1, <2>2
  <1>6. ASSUME NEW i \in Start, RoomFound(i) PROVE MuteFollows'
    <2>1. /\ i \in InFlight /\ step[i] # "done"
          /\ step' = [step EXCEPT ![i] = "opening"]
          /\ UNCHANGED <<status, roomRef, rooms, muted, silent, toggles>>
      BY <1>6 DEF RoomFound, page, refs, network, mute, InFlight
    <2>2. \A j \in silent : step'[j] = "done"
      BY <2>1 DEF SourceInv, PageTypes, MuteTypes
    <2>3. QED
      BY <2>1, <2>2
  <1>7. ASSUME NEW i \in Start, StreamOpened(i) PROVE MuteFollows'
    <2>1. /\ i \in InFlight /\ step[i] # "done"
          /\ step' = [step EXCEPT ![i] = "connecting"]
          /\ UNCHANGED <<status, roomRef, rooms, muted, silent, toggles>>
      BY <1>7 DEF StreamOpened, page, network, mute, InFlight
    <2>2. \A j \in silent : step'[j] = "done"
      BY <2>1 DEF SourceInv, PageTypes, MuteTypes
    <2>3. QED
      BY <2>1, <2>2
  <1>8. ASSUME NEW i \in Start, RoomConnected(i) PROVE MuteFollows'
    <2>1. /\ i \in InFlight /\ step[i] # "done"
          /\ UNCHANGED <<status, muted, silent, toggles>>
          /\ step' = [step EXCEPT ![i] = IF kind = "camera" THEN "publishing" ELSE "sounding"]
      BY <1>8 DEF RoomConnected, page, mute, InFlight
    <2>2. \A j \in silent : step'[j] = "done"
      BY <2>1 DEF SourceInv, PageTypes, MuteTypes
    <2>3. status # "connected"
      BY <2>1 DEF Alone
    <2>4. QED
      BY <2>1, <2>2, <2>3
  <1>9. ASSUME NEW i \in Start, RoomConnectedInVain(i) PROVE MuteFollows'
    BY <1>9 DEF RoomConnectedInVain
  <1>10. ASSUME NEW i \in Start, VideoPublished(i) PROVE MuteFollows'
    <2>1. /\ i \in InFlight /\ step[i] # "done"
          /\ step' = [step EXCEPT ![i] = "sounding"]
          /\ UNCHANGED <<status, roomRef, rooms, muted, silent, toggles>>
      BY <1>10 DEF VideoPublished, page, refs, network, mute, InFlight
    <2>2. \A j \in silent : step'[j] = "done"
      BY <2>1 DEF SourceInv, PageTypes, MuteTypes
    <2>3. QED
      BY <2>1, <2>2
  <1>11. ASSUME NEW i \in Start, AudioPublished(i) PROVE MuteFollows'
    <2>1. /\ i \in InFlight /\ i \in rooms
          /\ step[i] # "done" /\ step' = [step EXCEPT ![i] = "done"]
          /\ status' = "connected" /\ muted' = FALSE
          /\ UNCHANGED <<roomRef, rooms, silent, toggles>>
      BY <1>11 DEF AudioPublished, refs, network, InFlight
    <2>2. /\ status # "connected" /\ roomRef = i
          /\ i \notin silent /\ \A j \in silent : step'[j] = "done"
      BY <2>1 DEF Alone, SourceInv, Held, PageTypes, MuteTypes
    <2>3. DOMAIN toggles' = {}
      BY <2>1, <2>2
    <2>4. muted' = (roomRef' \in silent')
      <3>1. muted' = FALSE /\ roomRef' \notin silent'
        BY <2>1, <2>2
      <3>2. (roomRef' \in silent') = FALSE
        BY <3>1
      <3>3. QED
        BY <3>1, <3>2, Zenon
    <2>5. QED
      BY <2>1, <2>2, <2>3, <2>4
  <1>12. ASSUME NEW i \in Start, StartFails(i) PROVE MuteFollows'
    <2>1. PICK next \in {"idle", "error"} : StopSource(next, i) /\ Ends(i)
      BY <1>12, Stops, SourceAssumption DEF Start, Ref
    <2>2. QED
      BY <2>1, StoppedMute, SourceAssumption DEF Start, Ref
  <1>13. ASSUME FlipFacing PROVE MuteFollows'
    <2>1. /\ UNCHANGED <<status, step, roomRef, muted, silent, toggles>>
          /\ rooms' \subseteq rooms
      BY <1>13 DEF FlipFacing, page, refs, devices, network, camera, mute
    <2>2. QED
      BY <2>1
  <1>14. ASSUME SwitchCamera PROVE MuteFollows'
    <2>1. /\ UNCHANGED <<status, step, roomRef, muted, silent, toggles>>
          /\ rooms' \subseteq rooms
      BY <1>14 DEF SwitchCamera, page, refs, network, camera, mute
    <2>2. QED
      BY <2>1
  <1>15. ASSUME Restarted PROVE MuteFollows'
    <2>1. /\ UNCHANGED <<status, step, roomRef, muted, silent, toggles>>
          /\ rooms' \subseteq rooms
      BY <1>15 DEF Restarted, page, network, camera, mute
    <2>2. QED
      BY <2>1
  <1>16. ASSUME RestartFails PROVE MuteFollows'
    <2>1. /\ UNCHANGED <<status, step, roomRef, muted, silent, toggles>>
          /\ rooms' \subseteq rooms
      BY <1>16 DEF RestartFails, page, refs, devices, network, camera, mute
    <2>2. QED
      BY <2>1
  <1>17. ASSUME ToggleMute PROVE MuteFollows'
    <2>1. /\ status = "connected"
          /\ UNCHANGED <<status, step, roomRef, rooms, muted, silent>>
          /\ roomRef \in Start
          /\ toggles' = Append(toggles, [id |-> roomRef, to |-> ~muted])
      BY <1>17 DEF ToggleMute, page, refs, network, SourceInv, RoomTypes
    <2>2. [id |-> roomRef, to |-> ~muted] \in [id: Start, to: BOOLEAN]
      BY <2>1 DEF SourceInv, MuteTypes
    <2>3. \A n \in DOMAIN toggles' : toggles'[n].id = roomRef
      BY <2>1, <2>2 DEF SourceInv, MuteTypes
    <2>4. QED
      BY <2>1, <2>3
  <1>18. ASSUME Toggled PROVE MuteFollows'
    <2>1. /\ toggles # <<>> /\ toggles' = Tail(toggles) /\ muted' = Head(toggles).to
          /\ silent' = IF Head(toggles).to THEN silent \cup {Head(toggles).id}
                       ELSE silent \ {Head(toggles).id}
          /\ UNCHANGED <<status, step, roomRef, rooms>>
      BY <1>18 DEF Toggled, page, refs, network
    <2>2. /\ Head(toggles) = toggles[1] /\ 1 \in DOMAIN toggles
          /\ Head(toggles) \in [id: Start, to: BOOLEAN]
          /\ \A n \in DOMAIN toggles' : toggles'[n] = toggles[n + 1] /\ n + 1 \in DOMAIN toggles
      <3>1. toggles \in Seq([id: Start, to: BOOLEAN])
        BY DEF SourceInv, MuteTypes
      <3>5. Head(toggles) = toggles[1] /\ Len(toggles) \in Nat /\ Len(toggles) # 0
        BY <2>1, <3>1
      <3>2. /\ Head(toggles) \in [id: Start, to: BOOLEAN]
            /\ Tail(toggles) \in Seq([id: Start, to: BOOLEAN])
            /\ Len(Tail(toggles)) = Len(toggles) - 1
            /\ \A n \in 1..Len(Tail(toggles)) : Tail(toggles)[n] = toggles[n + 1]
        BY <2>1, <3>1, HeadTailProperties
      <3>3. /\ DOMAIN toggles = 1..Len(toggles)
            /\ DOMAIN Tail(toggles) = 1..Len(Tail(toggles))
        BY <3>1, <3>2, LenProperties
      <3>4. QED
        BY <2>1, <3>2, <3>3, <3>5
    <2>3. /\ status = "connected" /\ Head(toggles).id = roomRef /\ roomRef \in Start
          /\ Head(toggles).to \in BOOLEAN
      BY <2>2
    <2>4. step[roomRef] = "done"
      BY <2>3, SourceAssumption DEF Alone, InFlight, SourceInv, Held, PageTypes,
         Start
    <2>5. \A j \in silent' : step'[j] = "done"
      BY <2>1, <2>3, <2>4
    <2>6. muted' = (roomRef \in silent')
      <3>1. CASE Head(toggles).to
        BY <2>1, <2>3, <3>1
      <3>2. CASE ~Head(toggles).to
        BY <2>1, <2>3, <3>2
      <3>3. QED
        BY <3>1, <3>2
    <2>7. \A n \in DOMAIN toggles' : toggles'[n].id = roomRef
      BY <2>2
    <2>8. QED
      BY <2>1, <2>3, <2>5, <2>6, <2>7
  <1>19. QED
    BY <1>1, <1>2, <1>3, <1>4, <1>5, <1>6, <1>7, <1>8, <1>9, <1>10, <1>11, <1>12,
       <1>13, <1>14, <1>15, <1>16, <1>17, <1>18 DEF Next

\* A start that opens its stream finds the page without one, and without a room.
Clear == \A i \in Start : step[i] = "opening" => stream = 0 /\ roomRef = 0

\* It does while a stop finds every start.
LEMMA ReachedIsClear ==
    ASSUME Reached
    PROVE  Clear
  BY DEF Reached, Early, Clear

\* And while no start meets what another holds.
LEMMA AloneIsClear ==
    ASSUME SourceInv, Alone
    PROVE  Clear
  <1>1. ASSUME NEW i \in Start, step[i] = "opening" PROVE stream = 0 /\ roomRef = 0
    <2>1. i \in InFlight /\ stream = 0 /\ roomRef \in {0, i}
      BY <1>1 DEF InFlight, Alone
    <2>2. roomRef # i
      BY <1>1, SourceAssumption DEF SourceInv, Held, Start
    <2>3. QED
      BY <2>1, <2>2
  <1>2. QED
    BY <1>1 DEF Clear

\* A stop turns the one camera off.
LEMMA StoppedCamera ==
    ASSUME SourceInv, OneCamera, NEW next \in {"idle", "error"}, NEW caller \in Ref,
           StopSource(next, caller), Ends(caller)
    PROVE  OneCamera' /\ CameraOn'
  <1>1. cameras' \subseteq {c \in cameras : c.id # video} /\ roomRef' = 0 /\ stream' = 0
    BY Stopped
  <1>2. cameras' = {}
    BY <1>1 DEF OneCamera
  <1>3. QED
    BY <1>1, <1>2 DEF OneCamera, CameraOn

\* Every step keeps the stream's the one camera that may be on, unless a switch of a
\* room the page has left puts another into the stream.
LEMMA OneCameraStep ==
    ASSUME SourceInv, Clear, OneCamera, Next, Unless({"staleSwitch"})'
    PROVE  OneCamera'
  <1> USE DEF OneCamera
  <1>1. ASSUME Stop PROVE OneCamera'
    <2>1. PICK next \in {"idle", "error"} : StopSource(next, 0) /\ Ends(0)
      BY <1>1, Stops, SourceAssumption DEF Start, Ref
    <2>2. QED
      BY <2>1, StoppedCamera, SourceAssumption DEF Start, Ref
  <1>2. ASSUME DisconnectSource PROVE OneCamera'
    <2>1. PICK next \in {"idle", "error"} : StopSource(next, 0) /\ Ends(0)
      BY <1>2, Stops, SourceAssumption DEF Start, Ref
    <2>2. QED
      BY <2>1, StoppedCamera, SourceAssumption DEF Start, Ref
  <1>3. ASSUME Unmount PROVE OneCamera'
    <2>1. PICK next \in {"idle", "error"} : StopSource(next, 0) /\ Ends(0)
      BY <1>3, Stops, SourceAssumption DEF Start, Ref
    <2>2. QED
      BY <2>1, StoppedCamera, SourceAssumption DEF Start, Ref
  <1>4. ASSUME NEW i \in Start, RoomLost(i) PROVE OneCamera'
    <2>1. /\ i \in rooms /\ UNCHANGED <<kind, video, roomRef, published>>
          /\ cameras' \subseteq cameras
          /\ switching' = [switching EXCEPT !.halted = @ \/ switching.id \in {i}]
      BY <1>4 DEF RoomLost, EndRooms, page, refs
    <2>2. {i} \in SUBSET rooms
      BY <2>1
    <2>3. /\ (switching' = NoSwitch <=> switching = NoSwitch)
          /\ switching'.id = switching.id
      BY <2>1, <2>2, SwitchKept
    <2>4. QED
      BY <2>1, <2>3
  <1>5. ASSUME NEW i \in Start, StartSource(i) PROVE OneCamera'
    BY <1>5 DEF StartSource, refs, devices
  <1>6. ASSUME NEW i \in Start, RoomFound(i) PROVE OneCamera'
    BY <1>6 DEF RoomFound, page, refs, devices, camera
  <1>7. ASSUME NEW i \in Start, StreamOpened(i) PROVE OneCamera'
    <2>1. stream = 0 /\ roomRef = 0
      BY <1>7 DEF StreamOpened, Clear
    <2>2. video = 0 /\ cameras = {}
      BY <2>1 DEF SourceInv, Video, CameraTypes, Track, Id
    <2>3. UNCHANGED <<kind, roomRef, switching>>
      BY <1>7 DEF StreamOpened, page
    <2>4. \A c \in cameras' : c.id = video'
      BY <1>7, <2>2 DEF StreamOpened, OpenVideo
    <2>5. switching # NoSwitch => switching.id # roomRef'
      BY <2>1, <2>3, SourceAssumption DEF SourceInv, Video, Start
    <2>6. QED
      BY <2>1, <2>3, <2>4, <2>5
  <1>8. ASSUME NEW i \in Start, RoomConnected(i) PROVE OneCamera'
    <2>1. /\ roomRef' = i /\ published'[i] = video /\ video' = video
          /\ cameras' \subseteq cameras
      BY <1>8 DEF RoomConnected, SourceInv, CameraTypes
    <2>2. ASSUME switching' # NoSwitch, switching'.id = i PROVE FALSE
      <3>1. switching # NoSwitch /\ switching.id = i
        <4>1. switching' = [switching EXCEPT !.halted = @ \/ switching.id \in Replaced(i)]
          BY <1>8 DEF RoomConnected
        <4>2. Replaced(i) \in SUBSET rooms
          BY DEF Replaced
        <4>3. QED
          BY <2>2, <4>1, <4>2, SwitchKept
      <3>2. step[i] \in {"sounding", "done"}
        BY <3>1 DEF SourceInv, Video
      <3>3. QED
        BY <1>8, <3>2 DEF RoomConnected
    <2>3. QED
      BY <2>1, <2>2
  <1>9. ASSUME NEW i \in Start, RoomConnectedInVain(i) PROVE OneCamera'
    <2>1. roomRef' = 0 /\ cameras' \subseteq cameras /\ video' = video
      BY <1>9 DEF RoomConnectedInVain, EndRooms
    <2>2. cameras = {}
      BY <1>9 DEF RoomConnectedInVain, SourceInv, Video, CameraTypes, Track, Id
    <2>3. QED
      BY <2>1, <2>2
  <1>10. ASSUME NEW i \in Start, VideoPublished(i) PROVE OneCamera'
    BY <1>10 DEF VideoPublished, page, refs, camera
  <1>11. ASSUME NEW i \in Start, AudioPublished(i) PROVE OneCamera'
    BY <1>11 DEF AudioPublished, refs, devices, camera
  <1>12. ASSUME NEW i \in Start, StartFails(i) PROVE OneCamera'
    <2>1. PICK next \in {"idle", "error"} : StopSource(next, i) /\ Ends(i)
      BY <1>12, Stops, SourceAssumption DEF Start, Ref
    <2>2. QED
      BY <2>1, StoppedCamera, SourceAssumption DEF Start, Ref
  <1>13. ASSUME FlipFacing PROVE OneCamera'
    BY <1>13 DEF FlipFacing, page, refs, devices
  <1>14. ASSUME SwitchCamera PROVE OneCamera'
    <2>1. /\ kind = "camera" /\ roomRef \in rooms
          /\ cameras' = {c \in cameras : c.id # published[roomRef]}
          /\ UNCHANGED <<kind, video, roomRef, published>>
      BY <1>14 DEF SwitchCamera, page, refs
    <2>2. published[roomRef] = video
      BY <2>1, SourceAssumption DEF SourceInv, RoomTypes, Start
    <2>3. cameras' = {}
      BY <2>1, <2>2
    <2>4. QED
      BY <2>1, <2>2, <2>3
  <1>15. ASSUME Restarted PROVE OneCamera'
    <2>1. /\ switching # NoSwitch /\ switching' = NoSwitch /\ switching.id \in Start
          /\ UNCHANGED <<kind, stream, roomRef>>
          /\ published' = [published EXCEPT ![switching.id] = made + 1]
          /\ cameras' = cameras \cup If([id |-> made + 1, side |-> Side], ~switching.halted)
          /\ video' = IF stream = 0 THEN 0 ELSE made + 1
      BY <1>15 DEF Restarted, page, SourceInv, Video
    <2>2. ~Stale
      BY <1>15 DEF Restarted, Note, If, Unless
    <2>3. CASE switching.id = roomRef
      <3>1. stream # 0 /\ cameras = {}
        BY <2>1, <2>3, SourceAssumption DEF SourceInv, Video, Held, PageTypes, Start
      <3>2. published'[roomRef] = made + 1
        BY <2>1, <2>3 DEF SourceInv, CameraTypes
      <3>3. \A c \in cameras' : c.id = made + 1
        BY <2>1, <3>1 DEF If
      <3>4. QED
        BY <2>1, <3>1, <3>2, <3>3
    <2>4. CASE switching.id # roomRef
      <3>1. stream = 0 /\ switching.halted /\ video = 0
        BY <2>2, <2>4 DEF Stale, SourceInv, Video
      <3>2. cameras' = cameras /\ video' = video
        BY <2>1, <3>1 DEF If
      <3>3. roomRef # 0 => roomRef \in Start /\ published'[roomRef] = published[roomRef]
        BY <2>1, <2>4 DEF SourceInv, CameraTypes, RoomTypes, Ref, Start
      <3>4. QED
        BY <2>1, <3>2, <3>3
    <2>5. QED
      BY <2>3, <2>4
  <1>16. ASSUME RestartFails PROVE OneCamera'
    <2>1. switching # NoSwitch /\ UNCHANGED <<kind, cameras, video, roomRef, published>>
      BY <1>16 DEF RestartFails, page, refs, devices
    <2>2. switching' = NoSwitch \/ switching'.id = switching.id
      BY <1>16 DEF RestartFails, SourceInv, CameraTypes, Switch
    <2>3. QED
      BY <2>1, <2>2
  <1>17. ASSUME ToggleMute PROVE OneCamera'
    BY <1>17 DEF ToggleMute, page, refs, devices, camera
  <1>18. ASSUME Toggled PROVE OneCamera'
    BY <1>18 DEF Toggled, page, refs, devices, camera
  <1>19. QED
    BY <1>1, <1>2, <1>3, <1>4, <1>5, <1>6, <1>7, <1>8, <1>9, <1>10, <1>11, <1>12,
       <1>13, <1>14, <1>15, <1>16, <1>17, <1>18 DEF Next

\* Every step keeps that camera on, unless the room is lost, or a switch fails for
\* good or is one of another room.
LEMMA CameraOnStep ==
    ASSUME SourceInv, Alone, OneCamera, CameraOn, Next, kind = "camera",
           Unless({"roomLost", "startInStart", "staleSwitch", "restoreFailed"})'
    PROVE  CameraOn'
  <1> USE DEF CameraOn
  <1>1. ASSUME Stop PROVE CameraOn'
    <2>1. PICK next \in {"idle", "error"} : StopSource(next, 0) /\ Ends(0)
      BY <1>1, Stops, SourceAssumption DEF Start, Ref
    <2>2. QED
      BY <2>1, StoppedCamera, SourceAssumption DEF Start, Ref
  <1>2. ASSUME DisconnectSource PROVE CameraOn'
    <2>1. PICK next \in {"idle", "error"} : StopSource(next, 0) /\ Ends(0)
      BY <1>2, Stops, SourceAssumption DEF Start, Ref
    <2>2. QED
      BY <2>1, StoppedCamera, SourceAssumption DEF Start, Ref
  <1>3. ASSUME Unmount PROVE CameraOn'
    <2>1. PICK next \in {"idle", "error"} : StopSource(next, 0) /\ Ends(0)
      BY <1>3, Stops, SourceAssumption DEF Start, Ref
    <2>2. QED
      BY <2>1, StoppedCamera, SourceAssumption DEF Start, Ref
  <1>4. ASSUME NEW i \in Start, RoomLost(i) PROVE CameraOn'
    BY <1>4 DEF RoomLost, Note, Unless
  <1>5. ASSUME NEW i \in Start, StartSource(i) PROVE CameraOn'
    BY <1>5 DEF StartSource, refs, devices
  <1>6. ASSUME NEW i \in Start, RoomFound(i) PROVE CameraOn'
    BY <1>6 DEF RoomFound, page, refs, devices, camera
  <1>7. ASSUME NEW i \in Start, StreamOpened(i) PROVE CameraOn'
    <2>1. video' = made + 1 /\ [id |-> made + 1, side |-> asked[i]] \in cameras'
      BY <1>7 DEF StreamOpened, OpenVideo
    <2>2. roomRef = 0 /\ UNCHANGED <<roomRef, switching>>
      BY <1>7, AloneIsClear DEF StreamOpened, Clear
    <2>3. switching # NoSwitch => switching.id # 0
      BY SourceAssumption DEF SourceInv, Video, Start
    <2>4. QED
      BY <2>1, <2>2, <2>3
  <1>8. ASSUME NEW i \in Start, RoomConnected(i) PROVE CameraOn'
    <2>1. rooms = {}
      BY <1>8, Lone DEF RoomConnected
    <2>2. Replaced(i) = {} /\ VideosIn(Replaced(i)) = {}
      BY <2>1 DEF Replaced, VideosIn
    <2>3. UNCHANGED <<stream, video, cameras>>
      BY <1>8, <2>2 DEF RoomConnected
    <2>4. i \in InFlight /\ roomRef = 0
      BY <1>8, SourceAssumption DEF RoomConnected, InFlight, Alone, SourceInv, Held,
         Start
    <2>5. \E c \in cameras : c.id = video
      BY <1>8, <2>4, SourceAssumption DEF RoomConnected, SourceInv, Video, Start
    <2>6. ASSUME switching' # NoSwitch, switching'.id = roomRef' PROVE FALSE
      <3>1. switching # NoSwitch /\ switching.id = i
        <4>1. switching' = [switching EXCEPT !.halted = @ \/ switching.id \in Replaced(i)]
          BY <1>8 DEF RoomConnected
        <4>2. Replaced(i) \in SUBSET rooms /\ roomRef' = i
          BY <1>8 DEF Replaced, RoomConnected
        <4>3. QED
          BY <2>6, <4>1, <4>2, SwitchKept
      <3>2. step[i] \in {"sounding", "done"}
        BY <3>1 DEF SourceInv, Video
      <3>3. QED
        BY <1>8, <3>2 DEF RoomConnected
    <2>7. QED
      BY <2>3, <2>5, <2>6
  <1>9. ASSUME NEW i \in Start, RoomConnectedInVain(i) PROVE CameraOn'
    BY <1>9 DEF RoomConnectedInVain
  <1>10. ASSUME NEW i \in Start, VideoPublished(i) PROVE CameraOn'
    BY <1>10 DEF VideoPublished, page, refs, camera
  <1>11. ASSUME NEW i \in Start, AudioPublished(i) PROVE CameraOn'
    BY <1>11 DEF AudioPublished, refs, devices, camera
  <1>12. ASSUME NEW i \in Start, StartFails(i) PROVE CameraOn'
    <2>1. PICK next \in {"idle", "error"} : StopSource(next, i) /\ Ends(i)
      BY <1>12, Stops, SourceAssumption DEF Start, Ref
    <2>2. QED
      BY <2>1, StoppedCamera, SourceAssumption DEF Start, Ref
  <1>13. ASSUME FlipFacing PROVE CameraOn'
    BY <1>13 DEF FlipFacing, page, refs, devices
  <1>14. ASSUME SwitchCamera PROVE CameraOn'
    BY <1>14, SourceAssumption DEF SwitchCamera, refs, NoSwitch, SourceInv,
       RoomTypes, Start
  <1>15. ASSUME Restarted PROVE CameraOn'
    <2>1. /\ switching # NoSwitch /\ switching' = NoSwitch /\ stream' = stream
          /\ cameras' = cameras \cup If([id |-> made + 1, side |-> Side], ~switching.halted)
          /\ video' = IF stream = 0 THEN 0 ELSE made + 1
      BY <1>15 DEF Restarted
    <2>2. ~Stale
      BY <1>15 DEF Restarted, Note, If, Unless
    <2>3. ASSUME stream # 0 PROVE \E c \in cameras' : c.id = video'
      <3>1. switching.id = roomRef
        BY <2>2, <2>3 DEF Stale
      <3>2. ~switching.halted
        BY <2>1, <2>3, <3>1
      <3>3. [id |-> made + 1, side |-> Side] \in cameras' /\ video' = made + 1
        BY <2>1, <2>3, <3>2 DEF If
      <3>4. QED
        BY <3>3
    <2>4. QED
      BY <2>1, <2>3
  <1>16. ASSUME RestartFails PROVE CameraOn'
    <2>1. /\ switching' = [switching EXCEPT !.step = "restore", !.halted = FALSE]
          /\ switching # NoSwitch /\ UNCHANGED <<stream, video, cameras, roomRef>>
      BY <1>16 DEF RestartFails, Note, Unless, refs, devices
    <2>2. switching'.id = switching.id /\ ~switching'.halted
      BY <2>1 DEF SourceInv, CameraTypes, Switch
    <2>3. switching' # NoSwitch
      BY <2>1, <2>2, SourceAssumption DEF NoSwitch, SourceInv, Video, Start
    <2>4. QED
      BY <2>1, <2>2, <2>3
  <1>17. ASSUME ToggleMute PROVE CameraOn'
    BY <1>17 DEF ToggleMute
  <1>18. ASSUME Toggled PROVE CameraOn'
    BY <1>18 DEF Toggled, page, refs, devices, camera
  <1>19. QED
    BY <1>1, <1>2, <1>3, <1>4, <1>5, <1>6, <1>7, <1>8, <1>9, <1>10, <1>11, <1>12,
       <1>13, <1>14, <1>15, <1>16, <1>17, <1>18 DEF Next

\* The steps of a page that is never started again during a start.
LEMMA ShownNext ==
    ASSUME SourceInv, ShownInv, Next
    PROVE  ShownInv'
  <1>1. kind' = kind /\ \A S : Unless(S)' => Unless(S)
    BY Grows DEF Unless
  <1>2. AloneInv'
    BY <1>1, AloneStep DEF AloneInv, ShownInv
  <1>3. ASSUME NEW S, Unless({"startInStart"} \cup S)'
        PROVE  Unless({"startInStart"})' /\ Alone
    BY <1>1, <1>3 DEF Unless, AloneInv, ShownInv
  <1>4. OwnStreamInv'
    <2>1. SUFFICES ASSUME Unless({"roomLost", "startInStart"}
                                  \cup If("stopInConnect", kind = "microphone"))'
                   PROVE OwnStream'
      BY DEF OwnStreamInv
    <2>2. Unless({"roomLost", "startInStart"} \cup If("stopInConnect", kind = "microphone"))
      BY <2>1, <1>1 DEF Unless
    <2>3. Alone
      BY <2>2 DEF Unless, AloneInv, ShownInv
    <2>4. QED
      BY <2>1, <2>2, <2>3, OwnStreamStep DEF OwnStreamInv, ShownInv
  <1>5. LensInv'
    <2>1. SUFFICES ASSUME kind = "camera",
                           Unless({"switchInStart", "stopInSwitch", "restoreFailed", "startInStart"})'
                   PROVE LensFollows'
      BY <1>1 DEF LensInv
    <2>2. Unless({"switchInStart", "stopInSwitch", "restoreFailed", "startInStart"})
      BY <2>1, <1>1
    <2>3. Alone
      BY <2>2 DEF Unless, AloneInv, ShownInv
    <2>4. QED
      BY <2>1, <2>2, <2>3, LensStep DEF LensInv, ShownInv
  <1>6. MuteInv'
    <2>1. SUFFICES ASSUME kind = "microphone", Unless({"stopInToggle", "startInStart"})'
                   PROVE MuteFollows'
      BY <1>1 DEF MuteInv
    <2>2. Unless({"stopInToggle", "startInStart"})
      BY <2>1, <1>1
    <2>3. Alone
      BY <2>2 DEF Unless, AloneInv, ShownInv
    <2>4. QED
      BY <2>1, <2>2, <2>3, MuteStep DEF MuteInv, ShownInv
  <1>7. QED
    BY <1>2, <1>4, <1>5, <1>6 DEF ShownInv

\* The camera of a page, in the states it is about.
LEMMA CameraNext ==
    ASSUME SourceInv, ReachedInv, AloneInv, CameraInv, Next
    PROVE  CameraInv'
  <1>1. kind' = kind /\ \A S : Unless(S)' => Unless(S)
    BY Grows DEF Unless
  <1>2. ASSUME Unless({"staleSwitch"})', Unless(Missed)' \/ Unless({"startInStart"})'
        PROVE  OneCamera /\ OneCamera'
    <2>1. /\ Unless({"staleSwitch"})
          /\ Unless(Missed) \/ Unless({"startInStart"})
      BY <1>1, <1>2 DEF Missed
    <2>2. OneCamera
      BY <2>1 DEF CameraInv, OneCameraInv
    <2>3. Clear
      BY <2>1, ReachedIsClear, AloneIsClear DEF ReachedInv, AloneInv
    <2>4. QED
      BY <1>2, <2>2, <2>3, OneCameraStep
  <1>3. OneCameraInv'
    BY <1>2 DEF OneCameraInv
  <1>4. CameraOnInv'
    <2>1. SUFFICES ASSUME kind = "camera",
                          Unless({"roomLost", "startInStart", "staleSwitch", "restoreFailed"})'
                   PROVE  CameraOn'
      BY <1>1 DEF CameraOnInv
    <2>2. Unless({"roomLost", "startInStart", "staleSwitch", "restoreFailed"})
      BY <1>1, <2>1
    <2>3. Alone /\ CameraOn
      BY <2>1, <2>2 DEF Unless, AloneInv, CameraInv, CameraOnInv
    <2>4. OneCamera
      BY <2>2 DEF Unless, CameraInv, OneCameraInv
    <2>5. QED
      BY <2>1, <2>3, <2>4, CameraOnStep
  <1>5. QED
    BY <1>3, <1>4 DEF CameraInv

\* A new page, and a step that changes nothing of it.
LEMMA InitIInv ==
    ASSUME Init
    PROVE  IInv
  <1> USE SourceAssumption DEF Init
  <1>1. 0 \in Ref /\ InFlight = {} /\ Early = {}
    BY DEF Ref, InFlight, Early
  <1>2. PageTypes
    <2>1. /\ step \in [Start -> Step] /\ presses \in 0..MaxPresses
          /\ overlaps \subseteq Overlap
      BY DEF Step, Overlap
    <2>2. mounted \in BOOLEAN /\ wanted \in BOOLEAN
      OBVIOUS
    <2>3. QED
      BY <2>1, <2>2 DEF PageTypes
  <1>3. RoomTypes
    BY <1>1 DEF RoomTypes
  <1>4. CameraTypes
    <2>1. /\ asked \in [Start -> Lens] /\ published \in [Start -> Nat] /\ facing \in Lens
      BY DEF Lens
    <2>2. switching \in Switch
      BY <1>1 DEF Lens, Switch, NoSwitch
    <2>3. QED
      BY <2>1, <2>2 DEF CameraTypes
  <1>5. MuteTypes
    <2>1. toggles \in Seq([id: Start, to: BOOLEAN]) /\ silent \subseteq Start
      OBVIOUS
    <2>2. muted \in BOOLEAN
      OBVIOUS
    <2>3. QED
      BY <2>1, <2>2 DEF MuteTypes
  <1>6. Held /\ Video /\ RoomHeld /\ ClonesHeld
    BY DEF Held, Video, RoomHeld, ClonesHeld
  <1>7. ReachedInv
    BY <1>1 DEF ReachedInv, Reached
  <1>8. AloneInv /\ OwnStreamInv
    BY <1>1 DEF AloneInv, Alone, OwnStreamInv, OwnStream
  <1>9. LensInv
    BY <1>1 DEF LensInv, LensFollows
  <1>10. MuteInv
    BY <1>1 DEF MuteInv, MuteFollows
  <1>11. CameraInv
    BY DEF CameraInv, OneCameraInv, OneCamera, CameraOnInv, CameraOn
  <1>12. QED
    BY <1>2, <1>3, <1>4, <1>5, <1>6, <1>7, <1>8, <1>9, <1>10, <1>11 DEF IInv,
       SourceInv, ShownInv

\* The invariant is about the variables alone: a stutter keeps it.
LEMMA IInvStutters ==
    ASSUME IInv, UNCHANGED vars
    PROVE  IInv'
  <1> USE DEF vars, page, refs, devices, network, camera, mute
  <1>1. PageTypes' /\ RoomTypes' /\ CameraTypes' /\ MuteTypes'
    BY DEF IInv, SourceInv, PageTypes, RoomTypes, CameraTypes, MuteTypes
  <1>2. Held' /\ Video' /\ RoomHeld' /\ ClonesHeld'
    BY DEF IInv, SourceInv, Held, Video, RoomHeld, ClonesHeld, InFlight, Unless
  <1>3. ReachedInv'
    BY DEF IInv, ReachedInv, Reached, Early, Unless, Missed, If
  <1>4. AloneInv'
    BY DEF IInv, ShownInv, AloneInv, Alone, InFlight, Unless
  <1>5. OwnStreamInv'
    BY DEF IInv, ShownInv, OwnStreamInv, OwnStream, InFlight, Unless, If
  <1>6. LensInv'
    BY DEF IInv, ShownInv, LensInv, LensFollows, InFlight, Unless
  <1>7. MuteInv'
    BY DEF IInv, ShownInv, MuteInv, MuteFollows, Unless
  <1>8. CameraInv'
    BY DEF IInv, CameraInv, OneCameraInv, OneCamera, CameraOnInv, CameraOn, Unless,
       Missed, If
  <1>9. QED
    BY <1>1, <1>2, <1>3, <1>4, <1>5, <1>6, <1>7, <1>8 DEF IInv, SourceInv, ShownInv

\* The inductive invariant: what holds whatever overlaps, the states of a page no
\* stop has missed, of one that is not started again during a start, and of a
\* camera that no switch of another room was put into.
THEOREM SourceAlways == Spec => []IInv
  <1>1. Init => IInv
    BY InitIInv
  <1>2. IInv /\ [Next]_vars => IInv'
    <2>1. ASSUME IInv, Next PROVE IInv'
      BY <2>1, SourceNext, ReachedNext, ShownNext, CameraNext DEF IInv, ShownInv
    <2>2. QED
      BY <2>1, IInvStutters
  <1>3. QED
    BY <1>1, <1>2, PTL DEF Spec

\* The types of the page's state, and that one connection at most is up for a room
\* code: the server ends an earlier one of the page's identity.
THEOREM TypeCorrect == Spec => []TypeOK
  <1>1. ASSUME IInv PROVE TypeOK
    BY <1>1 DEF IInv, SourceInv, PageTypes, RoomTypes, CameraTypes, MuteTypes, Held,
       TypeOK
  <1>2. QED
    BY <1>1, SourceAlways, PTL

\* A page that was told to stop lets go of its devices and its room.
THEOREM StopReleases == Spec => []SourceReleased
  <1>1. ASSUME IInv PROVE SourceReleased
    <2>1. SUFFICES ASSUME Quiet, status # "connected" \/ ~wanted,
                          Unless({"stopBeforeStream", "cloneUnpublished", "otherRoom",
                                  "staleSwitch"}
                                 \cup If("stopInConnect", kind = "microphone"))
                   PROVE  /\ status # "connected" /\ rooms = {}
                          /\ streams = {} /\ clones = {} /\ cameras = {}
      BY DEF SourceReleased
    <2>2. Unless(Missed) /\ Unless({"cloneUnpublished"}) /\ Unless({"staleSwitch"})
      BY <2>1 DEF Unless, Missed
    <2>3. Reached /\ OneCamera
      BY <1>1, <2>2 DEF IInv, ReachedInv, CameraInv, OneCameraInv
    <2>4. status # "connecting"
      BY <1>1, <2>1 DEF IInv, SourceInv, Held, Quiet
    <2>5. status # "connected" /\ stream = 0 /\ rooms = {}
      BY <2>1, <2>3, <2>4 DEF Reached
    <2>6. streams = {}
      BY <1>1, <2>3, <2>5, SourceAssumption DEF Reached, IInv, SourceInv, RoomTypes,
         Start
    <2>7. \A i \in Start : step[i] # "sounding"
      BY <2>1 DEF Quiet, InFlight
    <2>8. clones = {}
      BY <1>1, <2>2, <2>5, <2>7 DEF IInv, SourceInv, ClonesHeld
    <2>9. cameras = {}
      BY <1>1, <2>3, <2>5 DEF OneCamera, IInv, SourceInv, Video, CameraTypes, Track,
         Id
    <2>10. QED
      BY <2>5, <2>6, <2>8, <2>9
  <1>2. QED
    BY <1>1, SourceAlways, PTL

\* A page that says it is connected is in one room with its stream on, of one start,
\* and a camera is on, in the stream and in the room.
THEOREM ConnectedPageIsOn == Spec => []ConnectedIsOn
  <1>1. ASSUME IInv PROVE ConnectedIsOn
    <2>1. SUFFICES ASSUME Quiet, status = "connected",
                          Unless({"roomLost", "startInStart", "staleSwitch", "restoreFailed"}
                                 \cup If("stopInConnect", kind = "microphone"))
                   PROVE  /\ roomRef # 0 /\ stream = roomRef
                          /\ rooms = {roomRef} /\ streams = {stream}
                          /\ kind = "camera" => /\ {c.id : c \in cameras} = {video}
                                                /\ published[roomRef] = video
      BY DEF ConnectedIsOn
    <2>2. /\ OwnStream /\ Alone /\ OneCamera
          /\ kind = "camera" => CameraOn
      BY <1>1, <2>1 DEF IInv, ShownInv, OwnStreamInv, AloneInv, CameraInv,
         OneCameraInv, CameraOnInv, Unless
    <2>3. roomRef # 0 /\ stream = roomRef /\ rooms = {roomRef}
      BY <2>1, <2>2 DEF OwnStream, Quiet
    <2>4. streams = {stream}
      BY <1>1, <2>2, <2>3 DEF Alone, IInv, SourceInv, Held
    <2>5. ASSUME kind = "camera"
          PROVE  {c.id : c \in cameras} = {video} /\ published[roomRef] = video
      <3>1. \E c \in cameras : c.id = video
        BY <2>1, <2>2, <2>3, <2>5 DEF CameraOn, Quiet
      <3>2. QED
        BY <2>2, <2>3, <2>5, <3>1 DEF OneCamera
    <2>6. QED
      BY <2>3, <2>4, <2>5
  <1>2. QED
    BY <1>1, SourceAlways, PTL

\* The camera and the mute the page shows are those it publishes.
THEOREM ShowsPublished == Spec => []ShownIsPublished
  <1>1. ASSUME IInv PROVE FacingIsShown
    BY <1>1 DEF IInv, ShownInv, LensInv, LensFollows, FacingIsShown, Quiet
  <1>2. ASSUME IInv PROVE MuteIsShown
    BY <1>2 DEF IInv, ShownInv, MuteInv, MuteFollows, MuteIsShown
  <1>3. QED
    BY <1>1, <1>2, SourceAlways, PTL DEF ShownIsPublished
=============================================================================
